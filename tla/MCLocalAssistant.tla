-------------------------- MODULE MCLocalAssistant --------------------------
(* The knowledge index of the local assistant, over two documents of two     *)
(* texts and two embedding models, and the driver of its optimisation, with  *)
(* two candidate models, a suite of two scenarios of which one is also the   *)
(* candidate stages', and two journals: the first state chooses one of the   *)
(* two programs, and only that one takes steps.                              *)
EXTENDS KnowledgeIndex, OllamaAttempts, TLC

VARIABLE part    \* the program at work

MCModelOrder == <<"qwen", "coder">>
MCSuite == <<"S4", "S6">>
MCCandidates == <<"S6">>

\* Nothing tells the names of the knowledge folder apart.
Renamings == Permutations(Documents) \cup Permutations(Texts) \cup Permutations(EmbeddingModels)

LocalAssistantInit ==
    /\ part \in {"knowledge", "driver"}
    /\ KnowledgeIndexInit /\ (part # "knowledge" => Present(folder) = {})
    /\ OllamaAttemptsInit

LocalAssistantNext ==
    /\ \/ part = "knowledge" /\ KnowledgeIndexNext /\ UNCHANGED driverVars
       \/ part = "driver" /\ OllamaAttemptsNext /\ UNCHANGED knowledgeVars
    /\ UNCHANGED part

LocalAssistantSpec ==
    LocalAssistantInit /\ [][LocalAssistantNext]_<<knowledgeVars, driverVars, part>>
=============================================================================
