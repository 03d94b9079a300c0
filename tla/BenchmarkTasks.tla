----------------------------- MODULE BenchmarkTasks -----------------------------
(***************************************************************************)
(* The optimisation task that days 3 and 5 put to the models, and the two  *)
(* verifiers of its answers.  Day 3 finds its reference by a loop over all *)
(* masks; an answer is then judged by code that was written twice.         *)
(***************************************************************************)
EXTENDS Integers, Sequences, FiniteSets, FiniteSetsExt

CONSTANT Offsets    \* how far an answer may report its totals off the true ones

ASSUME OffsetsAssumption == Offsets \subseteq Int

Features == <<"A", "B", "C", "D", "E", "F", "G", "H">>
FeatureIds == {Features[i] : i \in DOMAIN Features}
FeatureCost == <<4, 6, 5, 3, 7, 2, 4, 5>>
FeatureValue == <<8, 11, 10, 6, 13, 4, 7, 8>>
StoryPointLimit == 15

(* The sum of a column of the feature table over the features taken.       *)
TotalOf(column, S) ==
  LET taken(i) == IF Features[i] \in S THEN column[i] ELSE 0 IN
  taken(1) + taken(2) + taken(3) + taken(4) + taken(5) + taken(6) + taken(7) + taken(8)
CostTable == [S \in SUBSET FeatureIds |-> TotalOf(FeatureCost, S)]
ValueTable == [S \in SUBSET FeatureIds |-> TotalOf(FeatureValue, S)]
Cost(S) == CostTable[S]
Value(S) == ValueTable[S]

VARIABLES
  solver,      \* the loop: next mask, best value so far, best subsets in order
  submitted    \* an answer: features, flaws in the list, and reported totals

taskVars == <<solver, submitted>>
NothingSubmitted == [is |-> "nothing"]

\* Seeded fault: C may be taken without F.
ViolationsWithoutC(S) ==
  {v \in {"limit", "B with E", "C without F", "A with D", "G with H"} :
     CASE v = "limit" -> Cost(S) > StoryPointLimit
       [] v = "B with E" -> {"B", "E"} \subseteq S
       [] v = "A with D" -> {"A", "D"} \subseteq S
       [] v = "G with H" -> {"G", "H"} \subseteq S
       [] OTHER -> FALSE}

(* constraint_violations (day 3).                                          *)
Violations(S) ==
  {v \in {"limit", "B with E", "C without F", "A with D", "G with H"} :
     CASE v = "limit" -> Cost(S) > StoryPointLimit
       [] v = "B with E" -> {"B", "E"} \subseteq S
       [] v = "C without F" -> "C" \in S /\ "F" \notin S
       [] v = "A with D" -> {"A", "D"} \subseteq S
       [] OTHER -> {"G", "H"} \subseteq S}

(* feasible (day 5).                                                       *)
FeasibleFeatures(S) ==
  /\ S \subseteq FeatureIds
  /\ ~({"B", "E"} \subseteq S) /\ ~({"A", "D"} \subseteq S) /\ ~({"G", "H"} \subseteq S)
  /\ "C" \in S => "F" \in S
  /\ Cost(S \cap FeatureIds) <= StoryPointLimit

SubsetOf(mask) == {Features[i] : i \in {j \in DOMAIN Features : (mask \div 2^(j - 1)) % 2 = 1}}
Masks == 0..(2^Len(Features) - 1)

TasksInit ==
  /\ solver = [mask |-> 0, value |-> -1, best |-> << >>]
  /\ submitted = NothingSubmitted

\* Seeded fault: a better subset joins the earlier ones.
SolverStepKeeps ==
  LET S == SubsetOf(solver.mask) IN
  /\ solver.mask \in Masks
  /\ solver' = IF Violations(S) # {} \/ Value(S) < solver.value
               THEN [solver EXCEPT !.mask = @ + 1]
               ELSE [mask |-> solver.mask + 1, value |-> Value(S), best |-> Append(solver.best, S)]
  /\ UNCHANGED submitted

(* One turn of the loop of solve_exhaustively.                             *)
SolverStep ==
  LET S == SubsetOf(solver.mask) IN
  /\ solver.mask \in Masks
  /\ solver' =
       IF Violations(S) # {} \/ Value(S) < solver.value THEN [solver EXCEPT !.mask = @ + 1]
       ELSE [mask |-> solver.mask + 1, value |-> Value(S),
             best |-> IF Value(S) > solver.value THEN <<S>> ELSE Append(solver.best, S)]
  /\ UNCHANGED submitted

(* The answers a model may give: any features, one of them twice, one that *)
(* is unknown, one written in lower case, totals that are off.             *)
Submit ==
  /\ solver.mask \notin Masks /\ submitted = NothingSubmitted
  /\ \E S \in SUBSET FeatureIds, twice \in BOOLEAN, unknown \in BOOLEAN,
        lower \in BOOLEAN, c \in Offsets, v \in Offsets :
       submitted' = [is |-> "answer", features |-> S, twice |-> twice /\ S # {},
                     unknown |-> unknown, lower |-> lower /\ S # {},
                     cost |-> Cost(S) + c, value |-> Value(S) + v]
  /\ UNCHANGED solver

TasksNext == SolverStep \/ Submit

TasksSpec == TasksInit /\ [][TasksNext]_taskVars

-----------------------------------------------------------------------------
(* verify_solution (day 3): ids are read in upper case, unknown ones are   *)
(* dropped from the totals.                                                *)
CorrectDay3(a) ==
  LET feasible == Violations(a.features) = {} /\ ~a.twice /\ ~a.unknown IN
  /\ feasible /\ Value(a.features) = Value(solver.best[1])
  /\ a.cost = Cost(a.features) /\ a.value = Value(a.features)

\* The ids as they are written: what is not one of the task is not read as one.
Written(a) ==
  a.features \cup (IF a.unknown THEN {"Z"} ELSE {}) \cup (IF a.lower THEN {"lower case"} ELSE {})

\* Seeded fault: the list is made a set before its length is looked at.
CorrectDay5Set(a) ==
  /\ FeasibleFeatures(Written(a))
  /\ a.cost = Cost(a.features) /\ a.value = Value(a.features)
  /\ a.value = Max({Value(S) : S \in {T \in SUBSET FeatureIds : FeasibleFeatures(T)}})

(* verify, task 3 (day 5), with the reference of _reference_json.          *)
BestFeasible == Max({Value(S) : S \in {T \in SUBSET FeatureIds : FeasibleFeatures(T)}})
CorrectDay5(a) ==
  /\ ~a.twice
  /\ FeasibleFeatures(Written(a))
  /\ a.cost = Cost(a.features) /\ a.value = Value(a.features)
  /\ a.value = BestFeasible

Good == {m \in Masks : FeasibleFeatures(SubsetOf(m))}
Worth == [m \in Masks |-> Value(SubsetOf(m))]

(* The loop holds, in order and without gaps, exactly the best of the      *)
(* subsets it has passed, so that it ends with the only optimum.           *)
SolverIsExact == solver.mask > 0 /\ submitted = NothingSubmitted =>
  LET passed == {m \in Good : m < solver.mask}
      best == {m \in passed : \A n \in passed : Worth[n] <= Worth[m]} IN
  /\ {solver.best[i] : i \in DOMAIN solver.best} = {SubsetOf(m) : m \in best}
  /\ Len(solver.best) = Cardinality(best)
  /\ \A m \in best : solver.value = Worth[m]
  /\ solver.mask \notin Masks => solver.best = <<{"A", "C", "F", "G"}>>

(* The verifiers judge an answer alike when it writes the ids as the task  *)
(* does, and part over lower case, which day 3 reads and day 5 does not;   *)
(* to both, only the optimum, listed once with its true totals, is correct.*)
VerifiersAgree ==
  submitted # NothingSubmitted =>
    /\ CorrectDay5(submitted) = (CorrectDay3(submitted) /\ ~submitted.lower)
    /\ CorrectDay3(submitted) =>
         /\ submitted.features = {"A", "C", "F", "G"} /\ ~submitted.twice /\ ~submitted.unknown
         /\ submitted.cost = 15 /\ submitted.value = 29

(* The reference of both days is exact, and by it both judge exactly.      *)
JudgementIsExact == SolverIsExact /\ VerifiersAgree
=============================================================================
