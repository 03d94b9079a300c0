--------------------------- MODULE ContextStrategies ---------------------------
(***************************************************************************)
(* The context strategies lab (day 10).  A run plays eight fixed steps     *)
(* under one strategy: a sliding window, extracted facts, or two branches  *)
(* after a checkpoint.  A turn is committed against the revision it was    *)
(* started from, after up to two model calls; evaluations of a finished    *)
(* run go on side by side.  Day10Store.load refuses a run whose tables do  *)
(* not fit together, so every writer has to keep them fitting.             *)
(*                                                                         *)
(* A step stands for its user/assistant pair of messages.  The values the  *)
(* scenario asserts differ from step to step, so a fact is its key and the *)
(* step that asserts its value.                                            *)
(***************************************************************************)
EXTENDS Naturals, Sequences, FiniteSets

Strategies == {"window", "facts", "branches"}
Targets == {"root", "A", "B"}
Variants == {"A", "B"}
LastStep == 8
BranchPoint == 6

(* The assertions of the scenario that later steps build on: a deadline    *)
(* that is corrected, a reminder that is cleared, a payment per variant.   *)
Assertions == << {}, {"deadline"}, {}, {"reminders"}, {"deadline"}, {"reminders"},
                 {"paymentA"}, {"paymentB"} >>
Cleared(step) == IF step = 6 THEN {"reminders"} ELSE {}

VARIABLES
  runs,     \* per strategy, the run in the database, or NoRun
  guard      \* per strategy and slot of RunGuard, what its handler holds

strategyVars == <<runs, guard>>

NoRun == [exists |-> FALSE]
Unclaimed == [phase |-> "idle"]
Slots == {"mutation"} \cup Variants

StrategiesInit ==
  /\ runs = [s \in Strategies |-> NoRun]
  /\ guard = [s \in Strategies |-> [slot \in Slots |-> Unclaimed]]

TargetFor(s, step) ==
  IF s = "branches" /\ step > BranchPoint
  THEN IF step = BranchPoint + 1 THEN "A" ELSE "B" ELSE "root"

\* Seeded fault: the branch of the other variant is not filtered out.
SourcesOfBoth(s, run, target) ==
  IF s # "branches" THEN {i \in DOMAIN run.steps : i + 3 > Len(run.steps)}
  ELSE DOMAIN run.steps

(* sources: the last six messages, or the root and the branch of target.   *)
Sources(s, run, target) ==
  IF s # "branches" THEN {i \in DOMAIN run.steps : i + 3 > Len(run.steps)}
  ELSE {i \in DOMAIN run.steps : run.steps[i].target \in {"root", target}}

(* RunGuard.claim: a mutation is alone, evaluations of two variants are    *)
(* not in each other's way.                                                *)
ClaimsMutation(s) == \A slot \in Slots : guard[s][slot] = Unclaimed
ClaimsVariant(s, v) == guard[s]["mutation"] = Unclaimed /\ guard[s][v] = Unclaimed

(* validate_send for the next step with the scenario's message and target. *)
SendIsValid(s, run) ==
  /\ Len(run.steps) < LastStep
  /\ s = "branches" /\ Len(run.steps) >= BranchPoint => run.checkpoint

(* load: the revision counts steps and checkpoint, the facts carry it too, *)
(* steps lie on the streams of their strategy, a frozen root has twelve    *)
(* messages and every fact is asserted by a step the run has.  Whoever     *)
(* reads or writes a run loads it first.                                   *)
IsLoadable(s, run) ==
  /\ Len(run.steps) <= LastStep
  /\ run.revision = Len(run.steps) + (IF run.checkpoint THEN 1 ELSE 0)
  /\ \A i \in DOMAIN run.steps : run.steps[i].target = TargetFor(s, i)
  /\ run.checkpoint =>
       /\ s = "branches"
       /\ Cardinality({i \in DOMAIN run.steps : run.steps[i].target = "root"}) = BranchPoint
  /\ s = "facts" => run.factsRevision = run.revision
  /\ \A f, g \in run.facts : f.key = g.key => f = g
  /\ \A f \in run.facts : f.step \in DOMAIN run.steps /\ f.key \in Assertions[f.step]

Holds(s, slot, w) == guard' = [guard EXCEPT ![s][slot] = w]
Releases(s, slot) == Holds(s, slot, Unclaimed)

CreateRun(s) ==
  /\ ~runs[s].exists
  /\ runs' = [runs EXCEPT ![s] = [exists |-> TRUE, revision |-> 0, steps |-> << >>,
       checkpoint |-> FALSE, facts |-> {}, factsRevision |-> 0, outputs |-> {}]]
  /\ UNCHANGED guard

(* send, up to its first await: claim, revision, scenario step.            *)
BeginTurn(s) ==
  LET run == runs[s] IN
  /\ run.exists /\ ClaimsMutation(s) /\ SendIsValid(s, run)
  /\ Holds(s, "mutation",
       [phase |-> IF s = "facts" THEN "extracting" ELSE "answering",
        revision |-> run.revision, facts |-> run.facts,
        context |-> Sources(s, run, TargetFor(s, Len(run.steps) + 1))])
  /\ UNCHANGED runs

(* FactExtractor: any patch over the assertions of this step that passes   *)
(* validate_patch, reduced over the earlier facts; clearing what was never *)
(* set is refused.                                                         *)
Reduced(facts, keys, step) == {f \in facts : f.key \notin keys} \cup [key : keys, step : {step}]
Extract(s) ==
  LET w == guard[s]["mutation"]
      step == Len(runs[s].steps) + 1 IN
  /\ w.phase = "extracting"
  /\ \E keys \in SUBSET Assertions[step] :
       /\ \A k \in keys \cap Cleared(step) : \E f \in w.facts : f.key = k
       /\ Holds(s, "mutation", [w EXCEPT !.phase = "answering",
                                         !.facts = Reduced(w.facts, keys, step)])
  /\ UNCHANGED runs

\* Seeded fault: the facts are stored without the run's new revision.
CommitTurnOldFacts(s) ==
  LET w == guard[s]["mutation"]
      run == runs[s] IN
  /\ w.phase = "answering"
  /\ run.exists /\ run.revision = w.revision /\ SendIsValid(s, run)
  /\ runs' = [runs EXCEPT ![s].steps = Append(@, [target |-> TargetFor(s, Len(@) + 1),
                                                  seen |-> w.context]),
                          ![s].revision = @ + 1,
                          ![s].facts = w.facts]
  /\ Releases(s, "mutation")

(* commit_turn: the revision and the step are checked again in the         *)
(* transaction that writes the pair, the step, the facts and the revision. *)
(* COMMIT may report an error all the same: the receipt then says so.      *)
CommitTurn(s) ==
  LET w == guard[s]["mutation"]
      run == runs[s] IN
  /\ w.phase = "answering"
  /\ run.exists /\ run.revision = w.revision /\ SendIsValid(s, run)
  /\ runs' = [runs EXCEPT ![s].steps = Append(@, [target |-> TargetFor(s, Len(@) + 1),
                                                  seen |-> w.context]),
                          ![s].revision = @ + 1,
                          ![s].facts = w.facts,
                          ![s].factsRevision = IF s = "facts" THEN run.revision + 1 ELSE @]
  /\ Releases(s, "mutation")

(* A count, a model call or the storage fails, or 180 seconds pass.        *)
StrategyTurnFails(s) ==
  /\ guard[s]["mutation"].phase \in {"extracting", "answering"}
  /\ Releases(s, "mutation")
  /\ UNCHANGED runs

(* checkpoint: freezes the root and opens both branches.                   *)
Checkpoint(s) ==
  LET run == runs[s] IN
  /\ run.exists /\ ClaimsMutation(s)
  /\ s = "branches" /\ ~run.checkpoint /\ Len(run.steps) = BranchPoint
  /\ runs' = [runs EXCEPT ![s].checkpoint = TRUE, ![s].revision = @ + 1]
  /\ UNCHANGED guard

\* Seeded fault: an evaluation does not wait for the eighth step.
BeginEvaluationEarly(s, v) ==
  LET run == runs[s] IN
  /\ run.exists /\ ClaimsVariant(s, v) /\ Len(run.steps) >= BranchPoint
  /\ Holds(s, v, [phase |-> "evaluating", revision |-> run.revision,
                  context |-> Sources(s, run, v)])
  /\ UNCHANGED runs

(* evaluate, up to its await.                                              *)
BeginEvaluation(s, v) ==
  LET run == runs[s] IN
  /\ run.exists /\ ClaimsVariant(s, v) /\ Len(run.steps) = LastStep
  /\ Holds(s, v, [phase |-> "evaluating", revision |-> run.revision,
                  context |-> Sources(s, run, v)])
  /\ UNCHANGED runs

(* save_output, failed evaluations too: upserted by snapshot and variant.  *)
EndEvaluation(s, v) ==
  LET w == guard[s][v] IN
  /\ w.phase = "evaluating"
  /\ \E reply \in {"completed", "invalid", "error"} :
       LET output == [variant |-> v, revision |-> w.revision, context |-> w.context,
                      reply |-> reply]
           others == {o \in runs[s].outputs : o.variant # v \/ o.revision # w.revision} IN
       \/ /\ runs[s].exists /\ runs[s].revision = w.revision
          /\ runs' = [runs EXCEPT ![s].outputs = others \cup {output}]
       \/ UNCHANGED runs                            \* the storage refuses it
  /\ Releases(s, v)

(* reset: the run goes with all its rows.                                  *)
Reset(s) ==
  /\ runs[s].exists /\ ClaimsMutation(s)
  /\ runs' = [runs EXCEPT ![s] = NoRun]
  /\ UNCHANGED guard

RestartStrategies ==
  /\ guard' = [s \in Strategies |-> [slot \in Slots |-> Unclaimed]]
  /\ UNCHANGED runs

StrategyStep(s) ==
  \/ CreateRun(s) \/ BeginTurn(s) \/ Extract(s) \/ CommitTurn(s) \/ StrategyTurnFails(s)
  \/ Checkpoint(s) \/ Reset(s)
  \/ \E v \in Variants : BeginEvaluation(s, v) \/ EndEvaluation(s, v)

StrategiesNext == (\E s \in Strategies : StrategyStep(s)) \/ RestartStrategies

StrategiesSpec == StrategiesInit /\ [][StrategiesNext]_strategyVars

-----------------------------------------------------------------------------
(* Every run in the database is one that load accepts: no writer, under    *)
(* whatever revisions and races, leaves tables that do not fit together.   *)
RunIsLoadable == \A s \in Strategies : runs[s].exists => IsLoadable(s, runs[s])

(* What a saved turn or evaluation was generated from: no variant sees the *)
(* steps of the other one, a turn sees all of its own branch that was      *)
(* saved before it, and an evaluation belongs to the finished run, one per *)
(* variant.                                                                *)
BranchesAreIsolated ==
  \A s \in Strategies : runs[s].exists =>
    LET run == runs[s]
        root == {i \in DOMAIN run.steps : run.steps[i].target = "root"} IN
    /\ s = "branches" => \A i \in DOMAIN run.steps :
         run.steps[i].seen = (root \cap 1..(i - 1))
    /\ \A o \in run.outputs :
         /\ Len(run.steps) = LastStep /\ o.revision = run.revision
         /\ s = "branches" => o.context = root \cup {i \in DOMAIN run.steps :
                                                      run.steps[i].target = o.variant}
         /\ \A p \in run.outputs : p.variant = o.variant => p = o

(* A run can always be loaded again, and shows what was really seen.       *)
RunsAreSound == RunIsLoadable /\ BranchesAreIsolated
=============================================================================
