---------------------------- MODULE MCPlayground ----------------------------
(* Two instances of the playground, of which the first state chooses one:    *)
(* two creations with an event each, and one task through its whole workflow.*)
EXTENDS Playground, TLC

CONSTANTS t1, t2, s1, s2, s3, m1, m2, m3

VARIABLE part    \* the instance

MCPresets == <<"compact", "mentor">>

\* Task, session and send ids are drawn at random and never compared by value.
Symmetry == Permutations(Tasks) \cup Permutations(Sessions) \cup Permutations(Sends)
                \cup Permutations(Architectures)

IsOfCreations == \A t \in Tasks : db.states[t] # None => db.states[t].revision <= 1

IsOfWorkflow ==
  /\ Cardinality({t \in Tasks : db.setups[t] # None}) <= 1
  /\ Cardinality({s \in Sessions : ~IsFresh(s)}) <= 2

IsOfPart == IF part = "creations" THEN IsOfCreations ELSE IsOfWorkflow

PlaygroundPartsSpec ==
  /\ part \in {"creations", "workflow"} /\ Init
  /\ [][Next /\ UNCHANGED part /\ IsOfPart']_<<vars, part>>
=============================================================================
