----------------------------- MODULE MCAssistants -----------------------------
(* The rate limit, the assistants' files, dialogs and answers, and the drivers *)
(* of the experiments that share no state, checked side by side: the first   *)
(* state chooses one of them, and only that one takes steps.                 *)
EXTENDS RateBucket, ProjectFiles, RagDialogs, RagExperiments, CitedAnswers, TLC

CONSTANTS q1, q2, m1, m2

VARIABLE part    \* the one at work

MCQuotesOf == (m1 :> {q1}) @@ (m2 :> {q1, q2})
MCScripts == << <<1, 2>>, <<1>> >>
MCExcerptsIn(c) == IF c = "c1" THEN {"e1", "long"} ELSE {"e2"}

AllOf == <<vars, filesVars, ragVars, experimentsVars, papersVars>>

AssistantsInit ==
  /\ part \in {"bucket", "files", "dialogs", "folders", "answers"}
  /\ Init /\ RagInit
  /\ ProjectFilesInit /\ (part # "files" => fresh)
  /\ RagExperimentsInit /\ (part # "folders" => pipeline = "eval")
  /\ IF part = "answers" THEN CitedAnswersInit ELSE paper = "none" /\ verdict = "unread"

AssistantsNext ==
  /\ \/ /\ part = "bucket" /\ Next
        /\ UNCHANGED <<filesVars, ragVars, experimentsVars, papersVars>>
     \/ /\ part = "files" /\ ProjectFilesNext
        /\ UNCHANGED <<vars, ragVars, experimentsVars, papersVars>>
     \/ /\ part = "dialogs" /\ RagNext
        /\ UNCHANGED <<vars, filesVars, experimentsVars, papersVars>>
     \/ /\ part = "folders" /\ RagExperimentsNext
        /\ UNCHANGED <<vars, filesVars, ragVars, papersVars>>
     \/ /\ part = "answers" /\ JudgeAnswer
        /\ UNCHANGED <<vars, filesVars, ragVars, experimentsVars>>
  /\ UNCHANGED part

AssistantsSpec == AssistantsInit /\ [][AssistantsNext]_<<AllOf, part>>
===============================================================================
