---------------------------- MODULE MCLaboratories ----------------------------
(* The laboratories of the backend that share no state, checked side by side: *)
(* the first state chooses one of them, and only that one takes steps.  The  *)
(* others rest in one of their initial states.                               *)
EXTENDS HistoryCompression, TokenLab, ContextStrategies, MemoryLabs,
        ModelExperiments, BenchmarkTasks, Composition, Orchestration, WatchClient

VARIABLE part    \* the laboratory at work

MCOffsets == {-1, 0, 1}
MCLibraryOrder == <<"room", "work">>
MCVersionLists == {<<>>, <<"a">>, <<"a", "b">>, <<"b", "b">>}

\* Requests do the same: they are told apart by the order in which they come.
ComeInOrder ==
  \A q, r \in Requests : q < r /\ call'[q].phase = "waiting" => call'[r].phase = "waiting"

LaboratoriesInit ==
  /\ part \in {"compression", "tokens", "memory", "experiments", "tasks", "composition",
                "orchestration", "client"} \cup Strategies
  /\ CompressionInit /\ TokenLabInit /\ StrategiesInit /\ TasksInit
  /\ CompositionInit /\ OrchestrationInit
  /\ MemoryLabsInit /\ (part # "memory" => lab = "layers")
  /\ ExperimentsInit /\ (part # "experiments" => strict /\ experiment = "generate")
  /\ WatchClientInit /\ (part # "client" => budget = 1 /\ asked = "lookup")

LaboratoriesNext ==
  /\ \/ /\ part = "compression" /\ CompressionNext /\ ComeInOrder
        /\ UNCHANGED <<labVars, strategyVars, labsVars, experimentVars, taskVars, compositionVars,
                       flowVars, clientVars>>
     \/ /\ part = "tokens" /\ TokenLabNext
        /\ UNCHANGED <<compressionVars, strategyVars, labsVars, experimentVars, taskVars,
                       compositionVars, flowVars, clientVars>>
     \/ /\ part \in Strategies /\ (StrategyStep(part) \/ RestartStrategies)
        /\ UNCHANGED <<compressionVars, labVars, labsVars, experimentVars, taskVars,
                       compositionVars, flowVars, clientVars>>
     \/ /\ part = "memory" /\ MemoryLabsNext
        /\ UNCHANGED <<compressionVars, labVars, strategyVars, experimentVars, taskVars,
                       compositionVars, flowVars, clientVars>>
     \/ /\ part = "experiments" /\ ExperimentsNext
        /\ UNCHANGED <<compressionVars, labVars, strategyVars, labsVars, taskVars,
                       compositionVars, flowVars, clientVars>>
     \/ /\ part = "tasks" /\ TasksNext
        /\ UNCHANGED <<compressionVars, labVars, strategyVars, labsVars, experimentVars,
                       compositionVars, flowVars, clientVars>>
     \/ /\ part = "composition" /\ CompositionNext
        /\ UNCHANGED <<compressionVars, labVars, strategyVars, labsVars, experimentVars,
                       taskVars, flowVars, clientVars>>
     \/ /\ part = "orchestration" /\ OrchestrationNext
        /\ UNCHANGED <<compressionVars, labVars, strategyVars, labsVars, experimentVars,
                       taskVars, compositionVars, clientVars>>
     \/ /\ part = "client" /\ WatchClientNext
        /\ UNCHANGED <<compressionVars, labVars, strategyVars, labsVars, experimentVars,
                       taskVars, compositionVars, flowVars>>
  /\ UNCHANGED part

LaboratoriesSpec ==
  LaboratoriesInit
    /\ [][LaboratoriesNext]_<<compressionVars, labVars, strategyVars, labsVars, experimentVars,
                              taskVars, compositionVars, flowVars, clientVars, part>>
===============================================================================
