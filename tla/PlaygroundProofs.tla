-------------------------- MODULE PlaygroundProofs --------------------------
(***************************************************************************)
(* Theorems about the agent playground, for every valid workflow, any      *)
(* presets and any tasks, sessions and sends.                              *)
(***************************************************************************)
EXTENDS Playground, SequenceTheorems, FiniteSetTheorems, WellFoundedInduction, TLAPS

-----------------------------------------------------------------------------
(* Events of a workflow.                                                   *)

\* resolve (task_state.py:102) takes a valid state to a valid state of the
\* definition and advances one revision; validate_state never rejects its result.
THEOREM ResolvedIsValid ==
  ASSUME NEW state \in State, IsValid(state), NEW event \in AllowedEvents(state)
  PROVE  /\ Resolved(state, event) \in State
         /\ IsValid(Resolved(state, event))
         /\ Resolved(state, event).revision = state.revision + 1
<1>1. state.node \in Nodes \ TerminalNodes
  BY DEF AllowedEvents, State
<1>2. CASE event \in {"PAUSE", "RESUME"}
  <2>1. Resolved(state, event) =
          [node |-> state.node, status |-> IF event = "PAUSE" THEN "PAUSED" ELSE "ACTIVE",
           revision |-> state.revision + 1]
    BY <1>2 DEF Resolved, State
  <2> QED BY <1>1, <2>1 DEF State, IsValid
<1>3. CASE event \notin {"PAUSE", "RESUME"}
  <2>1. state.status = "ACTIVE"
    BY <1>3 DEF AllowedEvents, State
  <2>2. PICK u \in Transitions : u.source = state.node /\ u.event = event
    BY <1>1, <1>3, <2>1 DEF AllowedEvents
  <2> DEFINE edge == CHOOSE t \in Transitions : t.source = state.node /\ t.event = event
  <2>3. edge \in Transitions
    BY <2>2
  <2>4. edge.target \in Nodes
    BY <2>3, ValidDefinition
  <2>5. Resolved(state, event) =
          [node |-> edge.target, status |-> state.status, revision |-> state.revision + 1]
    BY <1>3 DEF Resolved, State
  <2> HIDE DEF edge
  <2> QED BY <2>1, <2>4, <2>5 DEF State, IsValid
<1> QED BY <1>2, <1>3

\* From no state can two transitions of an event be chosen between.
THEOREM ResolutionIsUnique ==
  ASSUME NEW t \in Transitions, NEW state \in State,
         t.source = state.node, state.status = "ACTIVE"
  PROVE  t.event \in AllowedEvents(state) /\ Resolved(state, t.event).node = t.target
<1>1. t.source \notin TerminalNodes /\ t.event \notin {"PAUSE", "RESUME"}
  BY ValidDefinition
<1>2. t.event \in AllowedEvents(state)
  BY <1>1 DEF AllowedEvents
<1>3. (CHOOSE u \in Transitions : u.source = state.node /\ u.event = t.event) = t
  BY ValidDefinition
<1> QED BY <1>1, <1>2, <1>3 DEF Resolved, State

-----------------------------------------------------------------------------
(* The steps of a creation, and the files after some of them.              *)

\* Induction in the form the provers accept: a set of numbers has a least one.
LEMMA SmallestNumber ==
  ASSUME NEW T \in SUBSET Nat, T # {}
  PROVE  \E x \in T : \A y \in T : ~(y < x)
<1>1. PICK x \in T : \A y \in T : ~(<<y, x>> \in OpToRel(<, Nat))
  BY NatLessThanWellFounded, WFMin
<1> QED BY <1>1 DEF OpToRel

PresetCount == Len(Presets)

LEMMA StepFacts ==
  /\ PresetCount \in Nat /\ Len(Steps) = PresetCount + 7
  /\ Steps[1] = "memory" /\ Steps[2] = "title" /\ Steps[3] = "architecture"
  /\ \A i \in 1 .. PresetCount : Steps[3 + i] = Presets[i] /\ Presets[i] \in PresetSet
  /\ Steps[PresetCount + 4] = "profile" /\ Steps[PresetCount + 5] = "state"
  /\ Steps[PresetCount + 6] = "policy" /\ Steps[PresetCount + 7] = "ready"
<1> DEFINE others == {"memory", "title", "architecture", "profile", "state", "policy", "ready"}
           names == PresetSet \cup others
           first == <<"memory", "title", "architecture">>
           last == <<"profile", "state", "policy", "ready">>
           n == Len(Presets)
<1>1. /\ n \in Nat /\ Presets = [i \in 1 .. n |-> Presets[i]]
      /\ \A i \in 1 .. n : Presets[i] \in PresetSet
  BY PlaygroundAssumption
<1>2. Presets \in Seq(names)
  <2>1. \A i \in 1 .. n : Presets[i] \in names
    BY <1>1
  <2> HIDE DEF names
  <2>2. Presets \in [1 .. n -> names]
    BY <1>1, <2>1
  <2> QED BY <1>1, <2>2
<1>3. first \in Seq(names) /\ Len(first) = 3
      /\ first[1] = "memory" /\ first[2] = "title" /\ first[3] = "architecture"
  OBVIOUS
<1>4. last \in Seq(names) /\ Len(last) = 4
      /\ last[1] = "profile" /\ last[2] = "state" /\ last[3] = "policy" /\ last[4] = "ready"
  OBVIOUS
<1>5. Steps = (first \o Presets) \o last
  BY DEF Steps
<1> HIDE DEF names, first, last
<1>6. /\ first \o Presets \in Seq(names) /\ Len(first \o Presets) = Len(first) + n
      /\ \A i \in 1 .. Len(first) + n :
            (first \o Presets)[i] = IF i <= Len(first) THEN first[i] ELSE Presets[i - Len(first)]
  BY <1>2, <1>3, ConcatProperties, Zenon
<1> DEFINE begun == first \o Presets
<1> HIDE DEF begun
<1>7. begun \in Seq(names)
  BY <1>6 DEF begun
<1>8. /\ Len(begun \o last) = Len(begun) + Len(last)
       /\ \A i \in 1 .. Len(begun) + Len(last) :
             (begun \o last)[i] = IF i <= Len(begun) THEN begun[i] ELSE last[i - Len(begun)]
  BY <1>4, <1>7, ConcatProperties, Zenon
<1>9. Steps = begun \o last
  BY <1>5 DEF begun
<1>10. Len(begun) = n + 3 /\ Len(Steps) = n + 7
  BY <1>1, <1>3, <1>4, <1>6, <1>9, <1>8 DEF begun
<1>11. \A i \in 1 .. n + 3 : begun[i] = IF i <= 3 THEN first[i] ELSE Presets[i - 3]
  BY <1>1, <1>3, <1>6 DEF begun
<1>12. \A i \in 1 .. n + 7 : Steps[i] = IF i <= n + 3 THEN begun[i] ELSE last[i - (n + 3)]
  BY <1>1, <1>4, <1>9, <1>8, <1>10
<1> HIDE DEF n
<1>13. Steps[1] = "memory" /\ Steps[2] = "title" /\ Steps[3] = "architecture"
  <2>1. \A i \in 1 .. 3 : i \in 1 .. n + 3 /\ i \in 1 .. n + 7 /\ i <= n + 3 /\ i <= 3
    BY <1>1
  <2>2. \A i \in 1 .. 3 : Steps[i] = first[i]
    BY <1>11, <1>12, <2>1
  <2>3. 1 \in 1 .. 3 /\ 2 \in 1 .. 3 /\ 3 \in 1 .. 3
    OBVIOUS
  <2> QED BY <1>3, <2>2, <2>3
<1>14. \A i \in 1 .. n : Steps[3 + i] = Presets[i]
  <2> TAKE i \in 1 .. n
  <2>1. 3 + i \in 1 .. n + 3 /\ 3 + i \in 1 .. n + 7 /\ 3 + i <= n + 3
        /\ ~(3 + i <= 3) /\ (3 + i) - 3 = i
    BY <1>1
  <2>2. Steps[3 + i] = begun[3 + i]
    BY <1>12, <2>1
  <2>3. begun[3 + i] = Presets[(3 + i) - 3]
    BY <1>11, <2>1
  <2> QED BY <2>1, <2>2, <2>3
<1>15. \A j \in 1 .. 4 : Steps[n + 3 + j] = last[j]
  <2> TAKE j \in 1 .. 4
  <2>1. n + 3 + j \in 1 .. n + 7 /\ ~(n + 3 + j <= n + 3) /\ (n + 3 + j) - (n + 3) = j
    BY <1>1
  <2> QED BY <1>12, <2>1
<1>16. n + 4 = n + 3 + 1 /\ n + 5 = n + 3 + 2 /\ n + 6 = n + 3 + 3 /\ n + 7 = n + 3 + 4
  BY <1>1
<1>17. /\ Steps[n + 4] = "profile" /\ Steps[n + 5] = "state"
       /\ Steps[n + 6] = "policy" /\ Steps[n + 7] = "ready"
  BY <1>4, <1>15, <1>16
<1> QED BY <1>1, <1>10, <1>13, <1>14, <1>17 DEF PresetCount, n

\* f holds the files after each of the first n steps of the creation of t.
IsRun(f, d, t, n) ==
  f = [i \in 0 .. n |-> IF i = 0 THEN d ELSE AfterStep(f[i - 1], t, Steps[i])]

LEMMA RunsExist ==
  ASSUME NEW d, NEW t, NEW n \in Nat
  PROVE  \E f : IsRun(f, d, t, n)
<1> DEFINE Bad == {m \in 0 .. n : ~ \E f : IsRun(f, d, t, m)}
<1> SUFFICES ASSUME Bad # {} PROVE FALSE
  OBVIOUS
<1>1. PICK m \in Bad : \A k \in Bad : ~(k < m)
  <2>1. Bad \in SUBSET Nat
    OBVIOUS
  <2> HIDE DEF Bad
  <2> QED BY <2>1, SmallestNumber
<1>2. m \in 0 .. n /\ ~ \E f : IsRun(f, d, t, m)
  OBVIOUS
<1>3. m # 0
  <2>1. IsRun([i \in 0 .. 0 |-> d], d, t, 0)
    BY DEF IsRun
  <2> QED BY <1>2, <2>1
<1>4. m - 1 \in 0 .. n /\ m - 1 < m /\ m - 1 \notin Bad
  <2>1. m - 1 \in 0 .. n /\ m - 1 < m
    BY <1>2, <1>3
  <2> HIDE DEF Bad
  <2> QED BY <1>1, <2>1
<1>5. PICK f : IsRun(f, d, t, m - 1)
  BY <1>4
<1> DEFINE g == [i \in 0 .. m |-> IF i = m THEN AfterStep(f[m - 1], t, Steps[m]) ELSE f[i]]
<1>6. \A i \in 0 .. m : g[i] = IF i = 0 THEN d ELSE AfterStep(g[i - 1], t, Steps[i])
  <2> TAKE i \in 0 .. m
  <2>1. \A j \in 0 .. m - 1 : g[j] = f[j] /\ f[j] = IF j = 0 THEN d ELSE AfterStep(f[j - 1], t, Steps[j])
    BY <1>2, <1>5 DEF IsRun
  <2>2. CASE i = m
    BY <1>2, <1>3, <2>1, <2>2
  <2>3. CASE i # m
    <3>1. i \in 0 .. m - 1 /\ (i # 0 => i - 1 \in 0 .. m - 1)
      BY <1>2, <2>3
    <3> HIDE DEF g
    <3> QED BY <2>1, <3>1
  <2> QED BY <2>2, <2>3
<1>7. IsRun(g, d, t, m)
  <2>1. g = [i \in 0 .. m |-> g[i]]
    OBVIOUS
  <2> HIDE DEF g
  <2> QED BY <1>6, <2>1 DEF IsRun
<1> QED BY <1>2, <1>7

LEMMA AfterFacts ==
  ASSUME NEW d, NEW t
  PROVE  /\ After(d, t, 0) = d
         /\ \A k \in 1 .. Len(Steps) : After(d, t, k) = AfterStep(After(d, t, k - 1), t, Steps[k])
<1> DEFINE run == CHOOSE f : IsRun(f, d, t, Len(Steps))
<1>1. Len(Steps) \in Nat
  BY StepFacts
<1>2. \E f : IsRun(f, d, t, Len(Steps))
  BY <1>1, RunsExist
<1>3. IsRun(run, d, t, Len(Steps))
  BY <1>2
<1>4. \A k : After(d, t, k) = run[k]
  BY DEF After, IsRun
<1> HIDE DEF run
<1>5. run = [i \in 0 .. Len(Steps) |-> IF i = 0 THEN d ELSE AfterStep(run[i - 1], t, Steps[i])]
  BY <1>3 DEF IsRun
<1>6. After(d, t, 0) = d
  <2>1. 0 \in 0 .. Len(Steps)
    BY <1>1
  <2>2. run[0] = d
    BY <1>5, <2>1
  <2> QED BY <1>4, <2>2
<1>7. ASSUME NEW k \in 1 .. Len(Steps)
      PROVE  After(d, t, k) = AfterStep(After(d, t, k - 1), t, Steps[k])
  <2>1. k \in 0 .. Len(Steps) /\ k # 0
    BY <1>1
  <2>2. run[k] = AfterStep(run[k - 1], t, Steps[k])
    BY <1>5, <2>1
  <2> QED BY <1>4, <2>2
<1> QED BY <1>6, <1>7

-----------------------------------------------------------------------------
(* The inductive invariant of the files.                                   *)

Files ==
  [memory : {None} \cup Memories, working : [Tasks -> Keys],
   turns : [Sessions -> Seq(Sends) \cup {None}], taskOf : [Sessions -> Tasks \cup {None}],
   profiles : [PresetSet -> 0 .. 1], binding : Bindings,
   states : [Tasks -> State \cup {None}], policies : [Tasks -> Architectures \cup {None}],
   setups : [Tasks -> Record \cup {None}]]

IsReady(d, t) == d.setups[t] # None /\ d.setups[t].status = "ready"

\* The record was made before the memory the files hold now.
IsOlder(d, t) ==
  /\ d.memory # None
  /\ \/ d.setups[t].previous = None
     \/ d.setups[t].previous # None /\ d.setups[t].previous.memory.revision < d.memory.revision

\* Nothing but the record of t is stored.
IsBlank(d, t) ==
  /\ d.working[t] = NoKeys /\ d.states[t] = None /\ d.policies[t] = None
  /\ \A s \in Sessions : d.taskOf[s] # t

\* The first step of the creation of t has been taken, or none has.
IsOpened(d, t) ==
  /\ IsReserved(d, t) /\ IsOlder(d, t)
  /\ d.turns[d.setups[t].session] = << >> /\ d.taskOf[d.setups[t].session] = t
IsUntouched(d, t) ==
  /\ Snapshot(d) = d.setups[t].previous
  /\ IsBlank(d, t) /\ d.turns[d.setups[t].session] = None

\* What a pending creation may have done so far.
IsUnderway(d, t) ==
  /\ IsOpened(d, t) \/ IsUntouched(d, t)
  /\ \A s \in Sessions : d.taskOf[s] = t => s = d.setups[t].session
  /\ d.working[t].architecture \in {None, d.setups[t].architecture}
  /\ d.states[t] \in {None, Initial} /\ d.policies[t] \in {None, d.setups[t].architecture}
  /\ BindingFits(d, t)

IsComplete(d, t) ==
  /\ d.working[t] = [title |-> TRUE, architecture |-> d.setups[t].architecture]
  /\ d.policies[t] = d.setups[t].architecture
  /\ d.states[t] # None /\ IsValid(d.states[t])
  /\ d.turns[d.setups[t].session] # None /\ d.taskOf[d.setups[t].session] = t
  /\ \A p \in PresetSet : d.profiles[p] = 1

TaskInv(d, t) ==
  /\ d.setups[t] = None => IsBlank(d, t)
  /\ IsPending(d, t) => IsUnderway(d, t)
  /\ IsReady(d, t) => IsComplete(d, t) /\ IsOlder(d, t)

RecordsApart(d) ==
  \A t, u \in Tasks : d.setups[t] # None /\ d.setups[u] # None /\ t # u =>
    /\ d.setups[t].session # d.setups[u].session
    /\ d.setups[t].previous # d.setups[u].previous
    /\ ~(IsPending(d, t) /\ IsPending(d, u))

MemoryInv(d) ==
  /\ d.memory # None => /\ d.setups[d.memory.task] # None
                        /\ d.taskOf[d.memory.session] = d.memory.task
  /\ \A s \in Sessions : d.turns[s] = None <=> d.taskOf[s] = None

FilesInv(d) ==
  d \in Files /\ (\A t \in Tasks : TaskInv(d, t)) /\ RecordsApart(d) /\ MemoryInv(d)

\* What the first k steps of the creation of t have left in the files.
Stage(d, t, k) ==
  /\ k >= 1 => IsOpened(d, t)
  /\ k >= 2 => d.working[t].title = TRUE
  /\ k >= 3 => d.working[t].architecture = d.setups[t].architecture
  /\ \A j \in 1 .. PresetCount : k >= 3 + j => d.profiles[Presets[j]] = 1
  /\ k >= PresetCount + 5 => d.states[t] = Initial
  /\ k >= PresetCount + 6 => d.policies[t] = d.setups[t].architecture
  /\ k >= PresetCount + 7 => d.setups[t].status = "ready"
  /\ \A s \in Sessions : d.taskOf[s] = t => s = d.setups[t].session

\* The step from d to e concerns no task but t.
OnlyOf(d, e, t) ==
  /\ \A u \in Tasks \ {t} :
       /\ e.setups[u] = d.setups[u] /\ e.working[u] = d.working[u]
       /\ e.states[u] = d.states[u] /\ e.policies[u] = d.policies[u]
  /\ \A s \in Sessions :
       \/ e.turns[s] = d.turns[s] /\ e.taskOf[s] = d.taskOf[s]
       \/ /\ s = d.setups[t].session /\ d.turns[s] = None
          /\ e.turns[s] = << >> /\ e.taskOf[s] = t
  /\ d.memory # None => e.memory # None /\ d.memory.revision <= e.memory.revision
  /\ \A p \in PresetSet : d.profiles[p] = 1 => e.profiles[p] = 1
  /\ e.setups[t] \in {d.setups[t], [d.setups[t] EXCEPT !.status = "ready"]}

-----------------------------------------------------------------------------
LEMMA Present ==
  /\ \A x \in Tasks : x # None
  /\ \A x \in State : x # None
  /\ \A x \in Seq(Sends) : x # None
  /\ \A x \in Memories : x # None
  /\ \A x \in Snapshots : x # None
  /\ \A x \in Record : x # None
  BY PlaygroundAssumption

LEMMA InitialIsPresent == Initial \in State /\ Initial # None /\ IsValid(Initial) /\ << >> \in Seq(Sends)
<1>1. Initial \in State /\ IsValid(Initial)
  BY ValidDefinition DEF Initial, State, IsValid
<1> QED BY <1>1, Present

\* The types of the fields, one by one.
LEMMA FieldTypes ==
  ASSUME NEW d \in Files
  PROVE  /\ d.memory \in {None} \cup Memories /\ d.working \in [Tasks -> Keys]
         /\ d.turns \in [Sessions -> Seq(Sends) \cup {None}]
         /\ d.taskOf \in [Sessions -> Tasks \cup {None}]
         /\ d.profiles \in [PresetSet -> 0 .. 1] /\ d.binding \in Bindings
         /\ d.states \in [Tasks -> State \cup {None}]
         /\ d.policies \in [Tasks -> Architectures \cup {None}]
         /\ d.setups \in [Tasks -> Record \cup {None}]
  BY DEF Files

LEMMA RecordTypes ==
  ASSUME NEW d \in Files, NEW t \in Tasks, d.setups[t] # None
  PROVE  /\ d.setups[t] \in Record /\ d.setups[t].session \in Sessions
         /\ d.setups[t].architecture \in Architectures /\ d.setups[t].preset \in PresetSet
         /\ d.setups[t].previous \in {None} \cup Snapshots /\ d.setups[t].binding \in Bindings
         /\ d.setups[t].status \in {"pending", "ready"}
<1>1. d.setups[t] \in Record
  BY FieldTypes
<1> QED BY <1>1 DEF Record

\* A step that concerns only t leaves every other task as it was.
LEMMA OthersKept ==
  ASSUME NEW d, NEW e \in Files, NEW t \in Tasks, FilesInv(d), IsPending(d, t), OnlyOf(d, e, t)
  PROVE  RecordsApart(e) /\ \A u \in Tasks \ {t} : TaskInv(e, u)
<1> USE DEF FilesInv
<1>1. d \in Files /\ d.setups[t] # None /\ IsUnderway(d, t)
  BY DEF TaskInv, IsPending
<1>2. /\ e.setups[t] # None /\ e.setups[t].session = d.setups[t].session
      /\ e.setups[t].previous = d.setups[t].previous
  <2>1. d.setups[t] \in Record
    BY <1>1, RecordTypes
  <2>2. [d.setups[t] EXCEPT !.status = "ready"] \in Record
    BY <2>1 DEF Record
  <2>3. CASE e.setups[t] = d.setups[t]
    BY <1>1, <2>3
  <2>4. CASE e.setups[t] = [d.setups[t] EXCEPT !.status = "ready"]
    BY <2>1, <2>2, <2>4, Present DEF Record
  <2> QED BY <2>3, <2>4 DEF OnlyOf
<1>3. \A u \in Tasks \ {t} : ~IsPending(d, u)
  BY <1>1 DEF RecordsApart, IsPending
<1>4. \A u \in Tasks \ {t} : e.setups[u] = d.setups[u] /\ ~IsPending(e, u)
  BY <1>3 DEF OnlyOf, IsPending
<1>5. RecordsApart(e)
  BY <1>1, <1>2, <1>4 DEF RecordsApart, IsPending
<1>6. d.taskOf[d.setups[t].session] \in {t, None}
  BY <1>1, RecordTypes, FieldTypes DEF IsUnderway, IsOpened, IsUntouched, MemoryInv
<1>7. ASSUME NEW u \in Tasks \ {t} PROVE TaskInv(e, u)
  <2>1. TaskInv(d, u) /\ u # None
    BY Present
  <2>2. \A s \in Sessions : d.taskOf[s] # u => e.taskOf[s] # u
    BY DEF OnlyOf
  <2>3. e.setups[u] = None => IsBlank(e, u)
    BY <1>4, <2>1, <2>2 DEF TaskInv, IsBlank, OnlyOf
  <2>4. ASSUME IsReady(e, u) PROVE IsComplete(e, u) /\ IsOlder(e, u)
    <3>1. IsReady(d, u) /\ IsComplete(d, u) /\ IsOlder(d, u)
      BY <1>4, <2>1, <2>4 DEF TaskInv, IsReady
    <3>2. d.setups[u].session \in Sessions /\ d.setups[u].previous \in {None} \cup Snapshots
      BY <1>1, <3>1, RecordTypes DEF IsReady
    <3>3. /\ e.turns[d.setups[u].session] = d.turns[d.setups[u].session]
          /\ e.taskOf[d.setups[u].session] = d.taskOf[d.setups[u].session]
      BY <1>1, <3>1, <3>2 DEF OnlyOf, RecordsApart, IsReady
    <3>4. IsComplete(e, u)
      BY <1>4, <3>1, <3>3 DEF IsComplete, OnlyOf
    <3>5. IsOlder(e, u)
      <4>1. e.memory # None /\ d.memory # None /\ d.memory.revision <= e.memory.revision
        BY <3>1 DEF OnlyOf, IsOlder
      <4>2. d.memory \in Memories /\ e.memory \in Memories
        BY <1>1, <4>1, FieldTypes
      <4>3. d.memory.revision \in Nat /\ e.memory.revision \in Nat
        BY <4>2 DEF Memories
      <4>4. ASSUME d.setups[u].previous # None
            PROVE  d.setups[u].previous.memory.revision \in Nat
        <5>1. d.setups[u].previous \in Snapshots
          BY <3>2, <4>4
        <5> QED BY <5>1 DEF Snapshots, Memories
      <4> QED BY <1>4, <3>1, <4>1, <4>3, <4>4 DEF IsOlder
    <3> QED BY <3>4, <3>5
  <2> QED BY <1>4, <2>3, <2>4 DEF TaskInv
<1> QED BY <1>5, <1>7

-----------------------------------------------------------------------------
(* Each step of a creation in turn.                                        *)

StepDone(d, e, t, k) ==
  /\ FilesInv(e) /\ OnlyOf(d, e, t) /\ Stage(e, t, k)
  /\ k < PresetCount + 7 => IsPending(e, t)

\* What is known of the files before a step.
LEMMA PendingFacts ==
  ASSUME NEW d, NEW t \in Tasks, FilesInv(d), IsPending(d, t)
  PROVE  /\ d \in Files /\ d.setups[t] \in Record /\ d.setups[t] # None
         /\ d.setups[t].status = "pending"
         /\ d.setups[t].session \in Sessions /\ d.setups[t].architecture \in Architectures
         /\ d.setups[t].preset \in PresetSet /\ d.setups[t].previous \in {None} \cup Snapshots
         /\ d.setups[t].binding \in Bindings
         /\ IsUnderway(d, t) /\ RecordsApart(d) /\ MemoryInv(d)
         /\ IsReserved(d, t) => IsOpened(d, t)
<1>1. d \in Files /\ d.setups[t] # None /\ IsUnderway(d, t) /\ d.setups[t].status = "pending"
      /\ RecordsApart(d) /\ MemoryInv(d)
  BY DEF FilesInv, TaskInv, IsPending
<1>2. d.setups[t].session \in Sessions
  BY <1>1, RecordTypes
<1>3. IsReserved(d, t) => IsOpened(d, t)
  BY <1>1, <1>2 DEF IsReserved, MemoryInv, IsUnderway, IsUntouched, IsBlank
<1> QED BY <1>1, <1>3, RecordTypes

\* Which guard and which effect belong to which step.
LEMMA StepKinds ==
  ASSUME NEW d, NEW t
  PROVE  /\ StepFits(d, t, "memory") <=> MemoryFits(d, t)
         /\ StepFits(d, t, "title") <=> ContentFits(d, t)
         /\ StepFits(d, t, "architecture") <=> ContentFits(d, t)
         /\ \A p \in PresetSet : StepFits(d, t, p) <=> (d.profiles[p] <= 1)
         /\ StepFits(d, t, "profile") <=> BindingFits(d, t)
         /\ StepFits(d, t, "state") /\ StepFits(d, t, "policy") /\ StepFits(d, t, "ready")
         /\ AfterStep(d, t, "memory") = IF IsReserved(d, t) THEN d ELSE Reserved(d, t)
         /\ AfterStep(d, t, "title") = IF d.working[t].title THEN d
                    ELSE WithKeys(d, t, [title |-> TRUE, architecture |-> d.working[t].architecture])
         /\ AfterStep(d, t, "architecture") = IF d.working[t].architecture # None THEN d
                    ELSE WithKeys(d, t, [title |-> d.working[t].title,
                                         architecture |-> d.setups[t].architecture])
         /\ \A p \in PresetSet : AfterStep(d, t, p) = WithPreset(d, p)
         /\ AfterStep(d, t, "profile") = Selected(d, d.setups[t].preset)
         /\ AfterStep(d, t, "state") = IF d.states[t] = None THEN [d EXCEPT !.states[t] = Initial] ELSE d
         /\ AfterStep(d, t, "policy") = IF d.policies[t] = None
                                       THEN [d EXCEPT !.policies[t] = d.setups[t].architecture] ELSE d
         /\ AfterStep(d, t, "ready") = [d EXCEPT !.setups[t].status = "ready"]
<1>1. \A p \in PresetSet : p \notin {"memory", "title", "architecture", "profile", "state", "policy", "ready"}
  BY PlaygroundAssumption
<1>2. "memory" \notin PresetSet /\ "title" \notin PresetSet /\ "architecture" \notin PresetSet
      /\ "profile" \notin PresetSet /\ "state" \notin PresetSet /\ "policy" \notin PresetSet
      /\ "ready" \notin PresetSet
  BY <1>1
<1> HIDE DEF PresetSet
<1>3. StepFits(d, t, "memory") <=> MemoryFits(d, t)
  BY <1>2 DEF StepFits
<1>4. /\ StepFits(d, t, "title") <=> ContentFits(d, t)
      /\ StepFits(d, t, "architecture") <=> ContentFits(d, t)
  BY <1>2 DEF StepFits
<1>5. \A p \in PresetSet : StepFits(d, t, p) <=> (d.profiles[p] <= 1)
  BY <1>1 DEF StepFits
<1>6. StepFits(d, t, "profile") <=> BindingFits(d, t)
  BY <1>2 DEF StepFits
<1>7. StepFits(d, t, "state") /\ StepFits(d, t, "policy") /\ StepFits(d, t, "ready")
  BY <1>2 DEF StepFits
<1>8. /\ AfterStep(d, t, "memory") = IF IsReserved(d, t) THEN d ELSE Reserved(d, t)
      /\ AfterStep(d, t, "title") = IF d.working[t].title THEN d
                    ELSE WithKeys(d, t, [title |-> TRUE, architecture |-> d.working[t].architecture])
      /\ AfterStep(d, t, "architecture") = IF d.working[t].architecture # None THEN d
                    ELSE WithKeys(d, t, [title |-> d.working[t].title,
                                         architecture |-> d.setups[t].architecture])
      /\ AfterStep(d, t, "profile") = Selected(d, d.setups[t].preset)
      /\ AfterStep(d, t, "ready") = [d EXCEPT !.setups[t].status = "ready"]
  BY <1>2 DEF AfterStep
<1>9. \A p \in PresetSet : AfterStep(d, t, p) = WithPreset(d, p)
  BY <1>1 DEF AfterStep
<1>10. AfterStep(d, t, "state") = IF d.states[t] = None THEN [d EXCEPT !.states[t] = Initial] ELSE d
  BY <1>2 DEF AfterStep
<1>11. AfterStep(d, t, "policy") = IF d.policies[t] = None
                                  THEN [d EXCEPT !.policies[t] = d.setups[t].architecture] ELSE d
  BY <1>2 DEF AfterStep
<1> QED BY <1>3, <1>4, <1>5, <1>6, <1>7, <1>8, <1>9, <1>10, <1>11

LEMMA MemoryStep ==
  ASSUME NEW d, NEW t \in Tasks, FilesInv(d), IsPending(d, t)
  PROVE  /\ StepFits(d, t, "memory")
         /\ StepDone(d, AfterStep(d, t, "memory"), t, 1)
<1> DEFINE e == AfterStep(d, t, "memory")
<1>1. /\ d \in Files /\ d.setups[t] \in Record /\ d.setups[t] # None
      /\ d.setups[t].session \in Sessions /\ d.setups[t].previous \in {None} \cup Snapshots
      /\ IsUnderway(d, t) /\ RecordsApart(d) /\ MemoryInv(d) /\ PresetCount \in Nat
      /\ IsReserved(d, t) => IsOpened(d, t)
  BY PendingFacts, StepFacts
<1>2. e = IF IsReserved(d, t) THEN d ELSE Reserved(d, t)
  BY StepKinds, Zenon
<1>3. MemoryFits(d, t) /\ StepFits(d, t, "memory")
  <2>1. StepFits(d, t, "memory") <=> MemoryFits(d, t)
    BY StepKinds, Zenon
  <2>2. MemoryFits(d, t)
    BY <1>1 DEF IsUnderway, IsOpened, IsUntouched, MemoryFits
  <2> QED BY <2>1, <2>2
<1> HIDE DEF e
<1>4. CASE IsReserved(d, t)
  <2>1. e = d /\ IsOpened(d, t)
    BY <1>1, <1>2, <1>4
  <2>2. OnlyOf(d, d, t)
    <3>1. d.memory # None => d.memory.revision \in Nat
      BY <1>1, FieldTypes DEF Memories
    <3> QED BY <3>1 DEF OnlyOf
  <2>3. Stage(d, t, 1)
    BY <1>1, <2>1 DEF Stage, IsUnderway
  <2> QED BY <1>3, <2>1, <2>2, <2>3 DEF StepDone, e
<1>5. CASE ~IsReserved(d, t)
  <2> DEFINE s == d.setups[t].session
             fresh == [task |-> t, session |-> s,
                       revision |-> IF d.memory = None THEN 0 ELSE d.memory.revision + 1]
  <2>1. IsUntouched(d, t)
    BY <1>1, <1>5 DEF IsUnderway, IsOpened
  <2>2. e = [d EXCEPT !.memory = fresh, !.turns[s] = << >>, !.taskOf[s] = t]
    BY <1>2, <1>5 DEF Reserved
  <2>3. /\ fresh \in Memories /\ fresh # None /\ fresh.task = t /\ fresh.session = s
        /\ d.memory # None => fresh.revision = d.memory.revision + 1 /\ d.memory.revision \in Nat
    <3>1. d.memory # None => d.memory.revision \in Nat
      BY <1>1, FieldTypes DEF Memories
    <3>2. fresh \in Memories
      BY <1>1, <3>1 DEF Memories
    <3> QED BY <3>1, <3>2, Present
  <2> HIDE DEF fresh, s
  <2>4. /\ e.memory = fresh /\ e.turns = [d.turns EXCEPT ![s] = << >>]
        /\ e.taskOf = [d.taskOf EXCEPT ![s] = t]
        /\ e.working = d.working /\ e.profiles = d.profiles /\ e.binding = d.binding
        /\ e.states = d.states /\ e.policies = d.policies /\ e.setups = d.setups
        /\ e \in Files
    <3>1. s \in Sessions /\ << >> \in Seq(Sends)
      BY <1>1 DEF s
    <3> QED BY <1>1, <2>2, <2>3, <3>1 DEF Files
  <2>5. s \in Sessions /\ s = d.setups[t].session /\ e.setups[t] = d.setups[t]
    BY <1>1, <2>4 DEF s
  <2>6. /\ e.turns[s] = << >> /\ e.taskOf[s] = t /\ << >> # None
        /\ \A z \in Sessions \ {s} : e.turns[z] = d.turns[z] /\ e.taskOf[z] = d.taskOf[z]
    <3>1. << >> # None
      BY InitialIsPresent, Present
    <3>2. d.turns \in [Sessions -> Seq(Sends) \cup {None}] /\ d.taskOf \in [Sessions -> Tasks \cup {None}]
      BY <1>1, FieldTypes
    <3> QED BY <2>4, <2>5, <3>1, <3>2
  <2>7. OnlyOf(d, e, t)
    BY <2>1, <2>3, <2>4, <2>5, <2>6 DEF OnlyOf, IsUntouched
  <2>8. IsPending(e, t)
    BY <2>5 DEF IsPending
  <2>9. IsOpened(e, t)
    <3>1. IsReserved(e, t)
      BY <2>3, <2>4, <2>5 DEF IsReserved
    <3>2. IsOlder(e, t)
      <4>1. d.setups[t].previous # None => d.memory # None /\ d.setups[t].previous.memory = d.memory
        BY <2>1, Present DEF IsUntouched, Snapshot
      <4> QED BY <2>3, <2>4, <2>5, <4>1 DEF IsOlder
    <3> QED BY <2>5, <2>6, <3>1, <3>2 DEF IsOpened
  <2>10. \A z \in Sessions : e.taskOf[z] = t => z = e.setups[t].session
    BY <1>1, <2>5, <2>6 DEF IsUnderway
  <2>11. IsUnderway(e, t)
    BY <1>1, <2>4, <2>9, <2>10 DEF IsUnderway, BindingFits
  <2>12. TaskInv(e, t)
    BY <2>8, <2>11 DEF TaskInv, IsPending, IsReady
  <2>13. MemoryInv(e)
    <3>1. t # None
      BY Present
    <3>2. \A z \in Sessions : e.turns[z] = None <=> e.taskOf[z] = None
      BY <1>1, <2>5, <2>6, <3>1 DEF MemoryInv
    <3> QED BY <1>1, <2>3, <2>4, <2>5, <2>6, <3>2 DEF MemoryInv
  <2>14. FilesInv(e)
    BY <2>4, <2>7, <2>12, <2>13, OthersKept DEF FilesInv
  <2>15. Stage(e, t, 1)
    BY <1>1, <2>9, <2>10 DEF Stage
  <2> QED BY <1>3, <2>7, <2>8, <2>14, <2>15 DEF StepDone, e
<1> QED BY <1>4, <1>5

\* The steps after the first: none of them touches a session or a record.
LEMMA InnerStep ==
  ASSUME NEW d, NEW e \in Files, NEW t \in Tasks, FilesInv(d), IsPending(d, t), IsOpened(d, t),
         e.turns = d.turns, e.taskOf = d.taskOf, e.setups = d.setups, e.memory # None,
         e.memory.task = d.memory.task, e.memory.session = d.memory.session,
         d.memory.revision <= e.memory.revision,
         \A u \in Tasks \ {t} : /\ e.working[u] = d.working[u] /\ e.states[u] = d.states[u]
                                /\ e.policies[u] = d.policies[u],
         e.working[t].architecture \in {None, d.setups[t].architecture},
         e.states[t] \in {None, Initial}, e.policies[t] \in {None, d.setups[t].architecture},
         BindingFits(e, t), \A p \in PresetSet : d.profiles[p] = 1 => e.profiles[p] = 1
  PROVE  FilesInv(e) /\ OnlyOf(d, e, t) /\ IsPending(e, t) /\ IsOpened(e, t) /\ Stage(e, t, 1)
<1>1. /\ d \in Files /\ d.setups[t] # None
      /\ d.setups[t].session \in Sessions /\ d.setups[t].previous \in {None} \cup Snapshots
      /\ IsUnderway(d, t) /\ RecordsApart(d) /\ MemoryInv(d) /\ PresetCount \in Nat
  BY PendingFacts, StepFacts
<1>2. OnlyOf(d, e, t)
  BY DEF OnlyOf
<1>3. IsPending(e, t)
  BY DEF IsPending
<1>4. IsOpened(e, t)
  <2>1. IsReserved(e, t)
    BY DEF IsOpened, IsReserved
  <2>2. IsOlder(e, t)
    <3>1. d.memory # None /\ d.memory \in Memories /\ e.memory \in Memories
      BY <1>1, FieldTypes DEF IsOpened, IsOlder
    <3>2. d.memory.revision \in Nat /\ e.memory.revision \in Nat
      BY <3>1 DEF Memories
    <3>3. d.setups[t].previous # None => d.setups[t].previous.memory.revision \in Nat
      BY <1>1 DEF Snapshots, Memories
    <3> QED BY <3>2, <3>3 DEF IsOpened, IsOlder
  <2> QED BY <2>1, <2>2 DEF IsOpened
<1>5. IsUnderway(e, t)
  BY <1>1, <1>4 DEF IsUnderway
<1>6. TaskInv(e, t)
  BY <1>1, <1>3, <1>5 DEF TaskInv, IsPending, IsReady
<1>7. MemoryInv(e)
  BY <1>1 DEF MemoryInv, IsOpened, IsOlder
<1>8. FilesInv(e)
  BY <1>2, <1>6, <1>7, OthersKept DEF FilesInv
<1>9. Stage(e, t, 1)
  BY <1>1, <1>4, <1>5 DEF Stage, IsUnderway
<1> QED BY <1>2, <1>3, <1>4, <1>8, <1>9

\* What is known after the first step.
LEMMA OpenedFacts ==
  ASSUME NEW d, NEW t \in Tasks, FilesInv(d), IsPending(d, t), IsOpened(d, t)
  PROVE  /\ d.memory \in Memories /\ d.memory.revision \in Nat /\ d.memory # None
         /\ d.working[t] \in Keys /\ d.working \in [Tasks -> Keys]
         /\ d.working[t].title \in BOOLEAN /\ d.working[t].architecture \in {None, d.setups[t].architecture}
         /\ d.states[t] \in {None, Initial} /\ d.policies[t] \in {None, d.setups[t].architecture}
         /\ BindingFits(d, t)
         /\ ContentFits(d, t)
<1>1. d \in Files /\ IsUnderway(d, t)
  BY PendingFacts
<1>2. d.memory # None /\ d.memory \in Memories
  BY <1>1, FieldTypes DEF IsOpened, IsOlder
<1>3. d.working \in [Tasks -> Keys] /\ d.working[t] \in Keys
  BY <1>1, FieldTypes
<1>4. d.working[t].title \in BOOLEAN
  BY <1>3 DEF Keys
<1>5. d.memory.revision \in Nat
  BY <1>2 DEF Memories
<1>6. ContentFits(d, t)
  BY <1>1 DEF ContentFits, IsUnderway, IsOpened
<1> QED BY <1>1, <1>2, <1>3, <1>4, <1>5, <1>6 DEF IsUnderway

LEMMA TitleStep ==
  ASSUME NEW d, NEW t \in Tasks, FilesInv(d), IsPending(d, t), Stage(d, t, 1)
  PROVE  /\ StepFits(d, t, "title")
         /\ StepDone(d, AfterStep(d, t, "title"), t, 2)
<1> DEFINE e == AfterStep(d, t, "title")
<1>1. IsOpened(d, t) /\ d \in Files /\ PresetCount \in Nat
  BY StepFacts DEF Stage, FilesInv
<1>2. /\ d.memory \in Memories /\ d.memory.revision \in Nat /\ d.memory # None
      /\ d.working[t] \in Keys /\ d.working \in [Tasks -> Keys]
      /\ d.working[t].title \in BOOLEAN /\ d.working[t].architecture \in {None, d.setups[t].architecture}
      /\ d.states[t] \in {None, Initial} /\ d.policies[t] \in {None, d.setups[t].architecture}
      /\ BindingFits(d, t)
      /\ ContentFits(d, t)
  BY <1>1, OpenedFacts
<1>3. StepFits(d, t, "title")
  <2>1. StepFits(d, t, "title") <=> ContentFits(d, t)
    BY StepKinds, Zenon
  <2> QED BY <1>2, <2>1
<1>4. e = IF d.working[t].title THEN d
                    ELSE WithKeys(d, t, [title |-> TRUE, architecture |-> d.working[t].architecture])
  BY StepKinds, Zenon
<1> HIDE DEF e
<1> DEFINE keys == [title |-> TRUE, architecture |-> d.working[t].architecture]
           opened == [task |-> d.memory.task, session |-> d.memory.session,
                      revision |-> d.memory.revision + 1]
<1>5. CASE d.working[t].title
  <2>1. e = d
    BY <1>4, <1>5
  <2>2. OnlyOf(d, e, t)
    BY <1>2, <2>1 DEF OnlyOf
  <2>3. Stage(e, t, 2)
    BY <1>1, <1>5, <2>1 DEF Stage
  <2> QED BY <1>3, <2>1, <2>2, <2>3 DEF StepDone, e
<1>6. CASE ~d.working[t].title
  <2>1. e = [d EXCEPT !.working = [d.working EXCEPT ![t] = keys], !.memory = opened]
    <3>2. e = [d EXCEPT !.working[t] = keys, !.memory.revision = @ + 1]
      BY <1>4, <1>6 DEF WithKeys
    <3>4. [d.memory EXCEPT !.revision = @ + 1] = opened
      BY <1>2 DEF Memories
    <3> QED BY <1>1, <1>2, <3>2, <3>4 DEF Files
  <2>2. keys \in Keys /\ opened \in Memories /\ keys.title = TRUE /\ keys.architecture = d.working[t].architecture
        /\ opened.task = d.memory.task /\ opened.session = d.memory.session
        /\ opened.revision = d.memory.revision + 1
    BY <1>2 DEF Keys, Memories
  <2> HIDE DEF keys, opened
  <2>3. /\ e \in Files /\ e.working = [d.working EXCEPT ![t] = keys] /\ e.memory = opened
        /\ e.turns = d.turns /\ e.taskOf = d.taskOf /\ e.setups = d.setups
        /\ e.profiles = d.profiles /\ e.binding = d.binding
        /\ e.states = d.states /\ e.policies = d.policies
    BY <1>1, <1>2, <2>1, <2>2 DEF Files
  <2>4. e.working[t] = keys /\ \A u \in Tasks \ {t} : e.working[u] = d.working[u]
    BY <1>2, <2>3
  <2>5. BindingFits(e, t)
    BY <1>2, <2>3 DEF BindingFits
  <2>6. opened # None /\ d.memory.revision <= opened.revision
    BY <1>2, <2>2, Present
  <2>7. FilesInv(e) /\ OnlyOf(d, e, t) /\ IsPending(e, t) /\ IsOpened(e, t) /\ Stage(e, t, 1)
    BY <1>1, <1>2, <2>2, <2>3, <2>4, <2>5, <2>6, InnerStep
  <2>8. Stage(e, t, 2)
    BY <1>1, <2>2, <2>4, <2>7 DEF Stage
  <2> QED BY <1>3, <2>7, <2>8 DEF StepDone, e
<1> QED BY <1>5, <1>6

LEMMA ArchitectureStep ==
  ASSUME NEW d, NEW t \in Tasks, FilesInv(d), IsPending(d, t), Stage(d, t, 2)
  PROVE  /\ StepFits(d, t, "architecture")
         /\ StepDone(d, AfterStep(d, t, "architecture"), t, 3)
<1> DEFINE e == AfterStep(d, t, "architecture")
<1>1. /\ IsOpened(d, t) /\ d \in Files /\ PresetCount \in Nat /\ d.setups[t].architecture \in Architectures
      /\ d.working[t].title = TRUE
  BY StepFacts, PendingFacts DEF Stage, FilesInv
<1>2. /\ d.memory \in Memories /\ d.memory.revision \in Nat /\ d.memory # None
      /\ d.working[t] \in Keys /\ d.working \in [Tasks -> Keys]
      /\ d.working[t].title \in BOOLEAN /\ d.working[t].architecture \in {None, d.setups[t].architecture}
      /\ d.states[t] \in {None, Initial} /\ d.policies[t] \in {None, d.setups[t].architecture}
      /\ BindingFits(d, t)
      /\ ContentFits(d, t)
  BY <1>1, OpenedFacts
<1>3. StepFits(d, t, "architecture")
  <2>1. StepFits(d, t, "architecture") <=> ContentFits(d, t)
    BY StepKinds, Zenon
  <2> QED BY <1>2, <2>1
<1>4. e = IF d.working[t].architecture # None THEN d
                    ELSE WithKeys(d, t, [title |-> d.working[t].title,
                                         architecture |-> d.setups[t].architecture])
  BY StepKinds, Zenon
<1> HIDE DEF e
<1> DEFINE keys == [title |-> d.working[t].title, architecture |-> d.setups[t].architecture]
           opened == [task |-> d.memory.task, session |-> d.memory.session,
                      revision |-> d.memory.revision + 1]
<1>5. CASE d.working[t].architecture # None
  <2>1. e = d
    BY <1>4, <1>5
  <2>2. OnlyOf(d, e, t)
    BY <1>2, <2>1 DEF OnlyOf
  <2>3. Stage(e, t, 3)
    BY <1>1, <1>2, <1>5, <2>1 DEF Stage
  <2> QED BY <1>3, <2>1, <2>2, <2>3 DEF StepDone, e
<1>6. CASE d.working[t].architecture = None
  <2>1. e = [d EXCEPT !.working = [d.working EXCEPT ![t] = keys], !.memory = opened]
    <3>2. e = [d EXCEPT !.working[t] = keys, !.memory.revision = @ + 1]
      BY <1>4, <1>6 DEF WithKeys
    <3>4. [d.memory EXCEPT !.revision = @ + 1] = opened
      BY <1>2 DEF Memories
    <3> QED BY <1>1, <1>2, <3>2, <3>4 DEF Files
  <2>2. /\ keys \in Keys /\ keys.title = TRUE /\ keys.architecture = d.setups[t].architecture
        /\ opened \in Memories /\ opened.task = d.memory.task /\ opened.session = d.memory.session
        /\ opened.revision = d.memory.revision + 1
    <3>1. keys \in Keys
      BY <1>1, <1>2 DEF Keys
    <3>2. opened \in Memories
      BY <1>2 DEF Memories
    <3> QED BY <1>1, <3>1, <3>2
  <2> HIDE DEF keys, opened
  <2>3. /\ e \in Files /\ e.working = [d.working EXCEPT ![t] = keys] /\ e.memory = opened
        /\ e.turns = d.turns /\ e.taskOf = d.taskOf /\ e.setups = d.setups
        /\ e.profiles = d.profiles /\ e.binding = d.binding
        /\ e.states = d.states /\ e.policies = d.policies
    BY <1>1, <1>2, <2>1, <2>2 DEF Files
  <2>4. e.working[t] = keys /\ \A u \in Tasks \ {t} : e.working[u] = d.working[u]
    BY <1>2, <2>3
  <2>5. BindingFits(e, t)
    BY <1>2, <2>3 DEF BindingFits
  <2>6. opened # None /\ d.memory.revision <= opened.revision
    BY <1>2, <2>2, Present
  <2>7. FilesInv(e) /\ OnlyOf(d, e, t) /\ IsPending(e, t) /\ IsOpened(e, t) /\ Stage(e, t, 1)
    BY <1>1, <1>2, <2>2, <2>3, <2>4, <2>5, <2>6, InnerStep
  <2>8. Stage(e, t, 3)
    BY <1>1, <2>2, <2>3, <2>4, <2>7 DEF Stage
  <2> QED BY <1>3, <2>7, <2>8 DEF StepDone, e
<1> QED BY <1>5, <1>6

LEMMA PresetStep ==
  ASSUME NEW d, NEW t \in Tasks, NEW j \in 1 .. PresetCount,
         FilesInv(d), IsPending(d, t), Stage(d, t, j + 2)
  PROVE  /\ StepFits(d, t, Presets[j])
         /\ StepDone(d, AfterStep(d, t, Presets[j]), t, j + 3)
<1> DEFINE p == Presets[j]
           e == AfterStep(d, t, p)
<1>1. /\ IsOpened(d, t) /\ d \in Files /\ PresetCount \in Nat /\ p \in PresetSet
      /\ d.profiles \in [PresetSet -> 0 .. 1]
  BY StepFacts, FieldTypes DEF Stage, FilesInv
<1>2. /\ d.memory \in Memories /\ d.memory.revision \in Nat /\ d.memory # None
      /\ d.working[t].architecture \in {None, d.setups[t].architecture}
      /\ d.states[t] \in {None, Initial} /\ d.policies[t] \in {None, d.setups[t].architecture}
      /\ BindingFits(d, t)
  BY <1>1, OpenedFacts
<1> HIDE DEF p, e
<1>3. StepFits(d, t, p)
  <2>1. StepFits(d, t, p) <=> d.profiles[p] <= 1
    BY <1>1, StepKinds, Zenon
  <2>2. d.profiles[p] <= 1
    BY <1>1
  <2> QED BY <2>1, <2>2
<1>4. e = [d EXCEPT !.profiles[p] = IF @ = 0 THEN 1 ELSE @]
  <2>1. e = WithPreset(d, p)
    <3>1. \A q \in PresetSet : AfterStep(d, t, q) = WithPreset(d, q)
      BY StepKinds, ZenonT(60)
    <3> QED BY <1>1, <3>1 DEF e
  <2> QED BY <2>1 DEF WithPreset
<1>5. e = [d EXCEPT !.profiles = [d.profiles EXCEPT ![p] = 1]]
  <2>1. [d.profiles EXCEPT ![p] = IF @ = 0 THEN 1 ELSE @] = [d.profiles EXCEPT ![p] = 1]
    BY <1>1
  <2> QED BY <1>1, <1>4, <2>1 DEF Files
<1>6. /\ e \in Files /\ e.profiles = [d.profiles EXCEPT ![p] = 1]
      /\ e.memory = d.memory /\ e.turns = d.turns /\ e.taskOf = d.taskOf /\ e.setups = d.setups
      /\ e.working = d.working /\ e.binding = d.binding
      /\ e.states = d.states /\ e.policies = d.policies
  <2>1. [d.profiles EXCEPT ![p] = 1] \in [PresetSet -> 0 .. 1]
    BY <1>1
  <2> QED BY <1>1, <1>5, <2>1 DEF Files
<1>7. e.profiles[p] = 1 /\ \A q \in PresetSet : d.profiles[q] = 1 => e.profiles[q] = 1
  BY <1>1, <1>6
<1>8. BindingFits(e, t) /\ d.memory.revision <= e.memory.revision
  BY <1>2, <1>6 DEF BindingFits
<1>9. FilesInv(e) /\ OnlyOf(d, e, t) /\ IsPending(e, t) /\ Stage(e, t, 1)
  BY <1>1, <1>2, <1>6, <1>7, <1>8, InnerStep
<1>10. Stage(e, t, j + 3)
  <2>1. \A i \in 1 .. PresetCount : j + 3 >= 3 + i => e.profiles[Presets[i]] = 1
    <3> TAKE i \in 1 .. PresetCount
    <3>1. CASE i = j
      BY <1>7, <3>1 DEF p
    <3>2. CASE i # j
      <4>1. j + 3 >= 3 + i => j + 2 >= 3 + i
        BY <1>1, <3>2
      <4>2. j + 2 >= 3 + i => d.profiles[Presets[i]] = 1
        BY DEF Stage
      <4>3. Presets[i] \in PresetSet
        BY StepFacts
      <4> QED BY <1>7, <4>1, <4>2, <4>3
    <3> QED BY <3>1, <3>2
  <2>2. d.working[t].title = TRUE /\ d.working[t].architecture = d.setups[t].architecture
    BY DEF Stage
  <2> QED BY <1>1, <1>6, <1>9, <2>1, <2>2 DEF Stage
<1> QED BY <1>1, <1>3, <1>9, <1>10 DEF StepDone, p, e

LEMMA ProfileStep ==
  ASSUME NEW d, NEW t \in Tasks, FilesInv(d), IsPending(d, t), Stage(d, t, PresetCount + 3)
  PROVE  /\ StepFits(d, t, "profile")
         /\ StepDone(d, AfterStep(d, t, "profile"), t, PresetCount + 4)
<1> DEFINE e == AfterStep(d, t, "profile")
           preset == d.setups[t].preset
           previous == d.setups[t].binding
<1>1. /\ IsOpened(d, t) /\ d \in Files /\ PresetCount \in Nat
      /\ preset \in PresetSet /\ d.binding \in Bindings /\ previous \in Bindings
  BY StepFacts, FieldTypes, PendingFacts DEF Stage, FilesInv
<1>2. /\ d.memory \in Memories /\ d.memory.revision \in Nat /\ d.memory # None
      /\ d.working[t].architecture \in {None, d.setups[t].architecture}
      /\ d.states[t] \in {None, Initial} /\ d.policies[t] \in {None, d.setups[t].architecture}
      /\ BindingFits(d, t)
  BY <1>1, OpenedFacts
<1>3. StepFits(d, t, "profile")
  <2>1. StepFits(d, t, "profile") <=> BindingFits(d, t)
    BY StepKinds, Zenon
  <2> QED BY <1>2, <2>1
<1>4. e = Selected(d, preset)
  BY StepKinds, Zenon
<1> HIDE DEF e, preset, previous
<1> DEFINE chosen == IF d.binding.active = preset THEN d.binding
                     ELSE [active |-> preset, revision |-> d.binding.revision + 1]
<1>5. chosen \in Bindings
  BY <1>1 DEF Bindings
<1>6. e = [d EXCEPT !.binding = chosen]
  BY <1>1, <1>4 DEF Selected, Files
<1>7. chosen \in {previous, [active |-> preset,
                            revision |-> previous.revision + IF previous.active = preset THEN 0 ELSE 1]}
  <2>1. d.binding \in {previous, [active |-> preset,
                            revision |-> previous.revision + IF previous.active = preset THEN 0 ELSE 1]}
    BY <1>2 DEF BindingFits, preset, previous
  <2> QED BY <1>1, <2>1
<1> HIDE DEF chosen
<1>8. /\ e \in Files /\ e.binding = chosen /\ e.profiles = d.profiles
      /\ e.memory = d.memory /\ e.turns = d.turns /\ e.taskOf = d.taskOf /\ e.setups = d.setups
      /\ e.working = d.working /\ e.states = d.states /\ e.policies = d.policies
  BY <1>1, <1>5, <1>6 DEF Files
<1>9. BindingFits(e, t) /\ d.memory.revision <= e.memory.revision
  BY <1>2, <1>7, <1>8 DEF BindingFits, preset, previous
<1>10. FilesInv(e) /\ OnlyOf(d, e, t) /\ IsPending(e, t) /\ Stage(e, t, 1)
  BY <1>1, <1>2, <1>8, <1>9, InnerStep
<1>11. Stage(e, t, PresetCount + 4)
  <2>1. d.working[t].title = TRUE /\ d.working[t].architecture = d.setups[t].architecture
    BY <1>1 DEF Stage
  <2>2. \A j \in 1 .. PresetCount : d.profiles[Presets[j]] = 1
    BY <1>1 DEF Stage
  <2> QED BY <1>1, <1>8, <1>10, <2>1, <2>2 DEF Stage
<1> QED BY <1>1, <1>3, <1>10, <1>11 DEF StepDone, e

LEMMA StateStep ==
  ASSUME NEW d, NEW t \in Tasks, FilesInv(d), IsPending(d, t), Stage(d, t, PresetCount + 4)
  PROVE  StepDone(d, AfterStep(d, t, "state"), t, PresetCount + 5)
<1> DEFINE e == AfterStep(d, t, "state")
           states == [d.states EXCEPT ![t] = Initial]
<1>1. /\ IsOpened(d, t) /\ d \in Files /\ PresetCount \in Nat
      /\ d.states \in [Tasks -> State \cup {None}] /\ Initial \in State
  BY StepFacts, FieldTypes, InitialIsPresent DEF Stage, FilesInv
<1>2. /\ d.memory \in Memories /\ d.memory.revision \in Nat /\ d.memory # None
      /\ d.working[t].architecture \in {None, d.setups[t].architecture}
      /\ d.states[t] \in {None, Initial} /\ d.policies[t] \in {None, d.setups[t].architecture}
      /\ BindingFits(d, t)
  BY <1>1, OpenedFacts
<1>3. /\ d.working[t].title = TRUE /\ d.working[t].architecture = d.setups[t].architecture
      /\ \A j \in 1 .. PresetCount : d.profiles[Presets[j]] = 1
  BY <1>1 DEF Stage
<1>4. e = IF d.states[t] = None THEN [d EXCEPT !.states[t] = Initial] ELSE d
  BY StepKinds, Zenon
<1> HIDE DEF e
<1>5. e = [d EXCEPT !.states = states]
  <2>1. CASE d.states[t] = None
    BY <1>1, <1>4, <2>1 DEF Files
  <2>2. CASE d.states[t] # None
    <3>1. d.states[t] = Initial /\ e = d
      BY <1>2, <1>4, <2>2
    <3>2. states = d.states
      BY <1>1, <3>1
    <3> QED BY <1>1, <3>1, <3>2 DEF Files
  <2> QED BY <2>1, <2>2
<1>6. states \in [Tasks -> State \cup {None}] /\ states[t] = Initial
      /\ \A u \in Tasks \ {t} : states[u] = d.states[u]
  BY <1>1
<1> HIDE DEF states
<1>7. /\ e \in Files /\ e.binding = d.binding /\ e.profiles = d.profiles
      /\ e.memory = d.memory /\ e.turns = d.turns /\ e.taskOf = d.taskOf /\ e.setups = d.setups
      /\ e.working = d.working /\ e.states = states /\ e.policies = d.policies
  BY <1>1, <1>5, <1>6 DEF Files
<1>8. BindingFits(e, t) /\ d.memory.revision <= e.memory.revision
  BY <1>2, <1>7 DEF BindingFits
<1>9. FilesInv(e) /\ OnlyOf(d, e, t) /\ IsPending(e, t) /\ Stage(e, t, 1)
  BY <1>1, <1>2, <1>6, <1>7, <1>8, InnerStep
<1>10. Stage(e, t, PresetCount + 5)
  BY <1>1, <1>3, <1>6, <1>7, <1>9 DEF Stage
<1> QED BY <1>1, <1>9, <1>10 DEF StepDone, e

LEMMA PolicyStep ==
  ASSUME NEW d, NEW t \in Tasks, FilesInv(d), IsPending(d, t), Stage(d, t, PresetCount + 5)
  PROVE  StepDone(d, AfterStep(d, t, "policy"), t, PresetCount + 6)
<1> DEFINE e == AfterStep(d, t, "policy")
           chosen == d.setups[t].architecture
           policies == [d.policies EXCEPT ![t] = chosen]
<1>1. /\ IsOpened(d, t) /\ d \in Files /\ PresetCount \in Nat
      /\ d.policies \in [Tasks -> Architectures \cup {None}] /\ chosen \in Architectures
  BY StepFacts, FieldTypes, PendingFacts DEF Stage, FilesInv
<1>2. /\ d.memory \in Memories /\ d.memory.revision \in Nat /\ d.memory # None
      /\ d.working[t].architecture \in {None, d.setups[t].architecture}
      /\ d.states[t] \in {None, Initial} /\ d.policies[t] \in {None, d.setups[t].architecture}
      /\ BindingFits(d, t)
  BY <1>1, OpenedFacts
<1>3. /\ d.working[t].title = TRUE /\ d.working[t].architecture = d.setups[t].architecture
      /\ \A j \in 1 .. PresetCount : d.profiles[Presets[j]] = 1
  BY <1>1 DEF Stage
<1>4. e = IF d.policies[t] = None THEN [d EXCEPT !.policies[t] = chosen] ELSE d
  BY StepKinds, Zenon
<1> HIDE DEF e
<1>5. e = [d EXCEPT !.policies = policies]
  <2>1. CASE d.policies[t] = None
    BY <1>1, <1>4, <2>1 DEF Files
  <2>2. CASE d.policies[t] # None
    <3>1. d.policies[t] = chosen /\ e = d
      BY <1>2, <1>4, <2>2
    <3>2. policies = d.policies
      BY <1>1, <3>1
    <3> QED BY <1>1, <3>1, <3>2 DEF Files
  <2> QED BY <2>1, <2>2
<1>6. policies \in [Tasks -> Architectures \cup {None}] /\ policies[t] = chosen
      /\ \A u \in Tasks \ {t} : policies[u] = d.policies[u]
  BY <1>1
<1> HIDE DEF policies
<1>7. /\ e \in Files /\ e.binding = d.binding /\ e.profiles = d.profiles
      /\ e.memory = d.memory /\ e.turns = d.turns /\ e.taskOf = d.taskOf /\ e.setups = d.setups
      /\ e.working = d.working /\ e.states = d.states /\ e.policies = policies
  BY <1>1, <1>5, <1>6 DEF Files
<1>8. BindingFits(e, t) /\ d.memory.revision <= e.memory.revision
  BY <1>2, <1>7 DEF BindingFits
<1>9. FilesInv(e) /\ OnlyOf(d, e, t) /\ IsPending(e, t) /\ Stage(e, t, 1)
  BY <1>1, <1>2, <1>6, <1>7, <1>8, InnerStep
<1>10. Stage(e, t, PresetCount + 6)
  <2>1. d.states[t] = Initial
    BY <1>1 DEF Stage
  <2> QED BY <1>1, <1>3, <1>6, <1>7, <1>9, <2>1 DEF Stage
<1> QED BY <1>1, <1>9, <1>10 DEF StepDone, e

\* Every profile of PresetSet is one of the presets.
LEMMA PresetsAreNumbered ==
  \A p \in PresetSet : \E j \in 1 .. PresetCount : p = Presets[j]
  BY PlaygroundAssumption DEF PresetSet, PresetCount

LEMMA ReadyStep ==
  ASSUME NEW d, NEW t \in Tasks, FilesInv(d), IsPending(d, t), Stage(d, t, PresetCount + 6)
  PROVE  StepDone(d, AfterStep(d, t, "ready"), t, PresetCount + 7)
<1> DEFINE e == AfterStep(d, t, "ready")
           record == [d.setups[t] EXCEPT !.status = "ready"]
           setups == [d.setups EXCEPT ![t] = record]
<1>1. /\ IsOpened(d, t) /\ d \in Files /\ PresetCount \in Nat
      /\ d.setups \in [Tasks -> Record \cup {None}] /\ d.setups[t] \in Record /\ MemoryInv(d)
      /\ d.setups[t] # None
  BY StepFacts, FieldTypes, PendingFacts DEF Stage, FilesInv
<1>2. /\ d.memory \in Memories /\ d.memory.revision \in Nat /\ d.memory # None
      /\ d.working[t].architecture \in {None, d.setups[t].architecture}
      /\ d.states[t] \in {None, Initial} /\ d.policies[t] \in {None, d.setups[t].architecture}
      /\ BindingFits(d, t)
  BY <1>1, OpenedFacts
<1>3. /\ d.working[t].title = TRUE /\ d.working[t].architecture = d.setups[t].architecture
      /\ \A j \in 1 .. PresetCount : d.profiles[Presets[j]] = 1
  BY <1>1 DEF Stage
<1>4. e = [d EXCEPT !.setups = setups]
  <2>1. e = [d EXCEPT !.setups[t].status = "ready"]
    BY StepKinds, Zenon
  <2> HIDE DEF e
  <2> QED BY <1>1, <2>1 DEF Files
<1>5. /\ record \in Record /\ record # None /\ record.status = "ready"
      /\ record.session = d.setups[t].session /\ record.previous = d.setups[t].previous
      /\ record.architecture = d.setups[t].architecture
  <2>1. record \in Record
    BY <1>1 DEF Record
  <2> QED BY <1>1, <2>1, Present DEF Record
<1>6. /\ setups \in [Tasks -> Record \cup {None}] /\ setups[t] = record
      /\ \A u \in Tasks \ {t} : setups[u] = d.setups[u]
  BY <1>1, <1>5
<1> HIDE DEF setups, e
<1>7. /\ e \in Files /\ e.binding = d.binding /\ e.profiles = d.profiles
      /\ e.memory = d.memory /\ e.turns = d.turns /\ e.taskOf = d.taskOf /\ e.setups = setups
      /\ e.working = d.working /\ e.states = d.states /\ e.policies = d.policies
  BY <1>1, <1>4, <1>6 DEF Files
<1>8. OnlyOf(d, e, t)
  BY <1>2, <1>6, <1>7 DEF OnlyOf
<1> HIDE DEF record
<1>9. \A p \in PresetSet : d.profiles[p] = 1
  BY <1>3, PresetsAreNumbered
<1>10. d.states[t] = Initial /\ d.policies[t] = d.setups[t].architecture
  BY <1>1 DEF Stage
<1>11. IsOpened(e, t)
  BY <1>1, <1>5, <1>6, <1>7 DEF IsOpened, IsReserved, IsOlder
<1>12. IsComplete(e, t)
  <2>1. d.working[t] \in Keys
    BY <1>1, FieldTypes
  <2>2. d.working[t] = [title |-> TRUE, architecture |-> d.setups[t].architecture]
    BY <1>3, <2>1 DEF Keys
  <2>3. << >> # None
    BY InitialIsPresent, Present
  <2> QED BY <1>1, <1>5, <1>6, <1>7, <1>9, <1>10, <1>11, <2>2, <2>3, InitialIsPresent
        DEF IsComplete, IsOpened
<1>13. TaskInv(e, t)
  BY <1>5, <1>6, <1>7, <1>11, <1>12 DEF TaskInv, IsPending, IsOpened
<1>14. MemoryInv(e)
  BY <1>1, <1>5, <1>6, <1>7, <1>11 DEF MemoryInv, IsOpened, IsReserved
<1>15. FilesInv(e)
  BY <1>7, <1>8, <1>13, <1>14, OthersKept DEF FilesInv
<1>16. \A s \in Sessions : e.taskOf[s] = t => s = e.setups[t].session
  BY <1>5, <1>6, <1>7 DEF Stage
<1>17. Stage(e, t, PresetCount + 7)
  BY <1>1, <1>3, <1>5, <1>6, <1>7, <1>10, <1>11, <1>16 DEF Stage
<1> QED BY <1>1, <1>8, <1>15, <1>17 DEF StepDone, e

\* The step of number k finds the files as it needs them and leaves them so
\* that the next one does.
LEMMA StepKeeps ==
  ASSUME NEW d, NEW t \in Tasks, NEW k \in 1 .. Len(Steps),
         FilesInv(d), IsPending(d, t), Stage(d, t, k - 1)
  PROVE  /\ StepFits(d, t, Steps[k])
         /\ StepDone(d, AfterStep(d, t, Steps[k]), t, k)
<1> DEFINE n == PresetCount
<1>1. n \in Nat /\ Len(Steps) = n + 7
  BY StepFacts
<1>2. \/ k = 1 \/ k = 2 \/ k = 3 \/ k - 3 \in 1 .. n
      \/ k = n + 4 \/ k = n + 5 \/ k = n + 6 \/ k = n + 7
  BY <1>1
<1>3. StepFits(d, t, "state") /\ StepFits(d, t, "policy") /\ StepFits(d, t, "ready")
  BY StepKinds, Zenon
<1> HIDE DEF n
<1>4. CASE k = 1
  BY <1>4, StepFacts, MemoryStep
<1>5. CASE k = 2
  <2>1. k - 1 = 1
    BY <1>5
  <2> QED BY <1>5, <2>1, StepFacts, TitleStep
<1>6. CASE k = 3
  <2>1. k - 1 = 2
    BY <1>6
  <2> QED BY <1>6, <2>1, StepFacts, ArchitectureStep
<1>7. CASE k - 3 \in 1 .. n
  <2> DEFINE j == k - 3
  <2>1. j \in 1 .. PresetCount /\ k - 1 = j + 2 /\ k = j + 3 /\ k = 3 + j
    BY <1>1, <1>7 DEF n
  <2> HIDE DEF j
  <2>2. Steps[k] = Presets[j]
    BY <2>1, StepFacts
  <2>3. Stage(d, t, j + 2)
    BY <2>1
  <2>4. StepFits(d, t, Presets[j]) /\ StepDone(d, AfterStep(d, t, Presets[j]), t, j + 3)
    BY <2>1, <2>3, PresetStep
  <2> QED BY <2>1, <2>2, <2>4
<1>8. CASE k = n + 4
  <2>1. k - 1 = n + 3
    BY <1>1, <1>8
  <2>2. Steps[k] = "profile"
    BY <1>8, StepFacts DEF n
  <2> QED BY <1>8, <2>1, <2>2, ProfileStep DEF n
<1>9. CASE k = n + 5
  <2>1. k - 1 = n + 4
    BY <1>1, <1>9
  <2>2. Steps[k] = "state"
    BY <1>9, StepFacts DEF n
  <2> QED BY <1>3, <1>9, <2>1, <2>2, StateStep DEF n
<1>10. CASE k = n + 6
  <2>1. k - 1 = n + 5
    BY <1>1, <1>10
  <2>2. Steps[k] = "policy"
    BY <1>10, StepFacts DEF n
  <2> QED BY <1>3, <1>10, <2>1, <2>2, PolicyStep DEF n
<1>11. CASE k = n + 7
  <2>1. k - 1 = n + 6
    BY <1>1, <1>11
  <2>2. Steps[k] = "ready"
    BY <1>11, StepFacts DEF n
  <2> QED BY <1>3, <1>11, <2>1, <2>2, ReadyStep DEF n
<1> QED BY <1>2, <1>4, <1>5, <1>6, <1>7, <1>8, <1>9, <1>10, <1>11

LEMMA OnlyOfItself ==
  ASSUME NEW d, FilesInv(d), NEW t \in Tasks
  PROVE  OnlyOf(d, d, t)
<1>1. d.memory # None => d.memory.revision \in Nat
  BY FieldTypes DEF FilesInv, Memories
<1> QED BY <1>1 DEF OnlyOf

LEMMA OnlyOfComposes ==
  ASSUME NEW d, NEW e, NEW f, NEW t \in Tasks, FilesInv(d), FilesInv(e), FilesInv(f),
         IsPending(d, t), IsPending(e, t), OnlyOf(d, e, t), OnlyOf(e, f, t)
  PROVE  OnlyOf(d, f, t)
<1>1. d \in Files /\ e \in Files /\ f \in Files /\ d.setups[t] \in Record /\ e.setups[t] \in Record
  BY PendingFacts DEF FilesInv
<1>2. e.setups[t] = d.setups[t]
  <2>1. [d.setups[t] EXCEPT !.status = "ready"].status = "ready"
    BY <1>1 DEF Record
  <2>2. e.setups[t].status = "pending"
    BY PendingFacts
  <2> QED BY <2>1, <2>2 DEF OnlyOf
<1>3. /\ d.memory # None => d.memory.revision \in Nat
      /\ e.memory # None => e.memory.revision \in Nat
      /\ f.memory # None => f.memory.revision \in Nat
  BY <1>1, FieldTypes DEF Memories
<1>4. << >> # None
  BY InitialIsPresent, Present
<1>5. \A u \in Tasks \ {t} :
        /\ f.setups[u] = d.setups[u] /\ f.working[u] = d.working[u]
        /\ f.states[u] = d.states[u] /\ f.policies[u] = d.policies[u]
  BY DEF OnlyOf
<1>6. ASSUME NEW s \in Sessions
      PROVE  \/ f.turns[s] = d.turns[s] /\ f.taskOf[s] = d.taskOf[s]
             \/ /\ s = d.setups[t].session /\ d.turns[s] = None
                /\ f.turns[s] = << >> /\ f.taskOf[s] = t
  <2>1. \/ e.turns[s] = d.turns[s] /\ e.taskOf[s] = d.taskOf[s]
        \/ /\ s = d.setups[t].session /\ d.turns[s] = None
           /\ e.turns[s] = << >> /\ e.taskOf[s] = t
    BY DEF OnlyOf
  <2>2. \/ f.turns[s] = e.turns[s] /\ f.taskOf[s] = e.taskOf[s]
        \/ /\ s = e.setups[t].session /\ e.turns[s] = None
           /\ f.turns[s] = << >> /\ f.taskOf[s] = t
    BY DEF OnlyOf
  <2> QED BY <1>2, <1>4, <2>1, <2>2
<1>7. d.memory # None => f.memory # None /\ d.memory.revision <= f.memory.revision
  <2> SUFFICES ASSUME d.memory # None PROVE f.memory # None /\ d.memory.revision <= f.memory.revision
    OBVIOUS
  <2>1. e.memory # None /\ d.memory.revision <= e.memory.revision
    BY DEF OnlyOf
  <2>2. f.memory # None /\ e.memory.revision <= f.memory.revision
    BY <2>1 DEF OnlyOf
  <2> QED BY <1>3, <2>1, <2>2
<1>8. \A p \in PresetSet : d.profiles[p] = 1 => f.profiles[p] = 1
  BY DEF OnlyOf
<1>9. f.setups[t] \in {d.setups[t], [d.setups[t] EXCEPT !.status = "ready"]}
  BY <1>2 DEF OnlyOf
<1> QED BY <1>5, <1>6, <1>7, <1>8, <1>9 DEF OnlyOf

\* However far a creation gets, the files are sound and it can go on.
LEMMA RunKeeps ==
  ASSUME NEW d, NEW t \in Tasks, FilesInv(d), IsPending(d, t)
  PROVE  /\ CanRun(d, t, Len(Steps))
         /\ \A k \in 0 .. Len(Steps) : StepDone(d, After(d, t, k), t, k)
<1> DEFINE N == Len(Steps)
           Bad == {k \in 0 .. N : ~StepDone(d, After(d, t, k), t, k)}
<1>1. N \in Nat /\ N = PresetCount + 7 /\ PresetCount \in Nat
  BY StepFacts
<1>2. StepDone(d, After(d, t, 0), t, 0)
  <2>1. After(d, t, 0) = d
    BY AfterFacts
  <2>2. Stage(d, t, 0)
    BY <1>1, PendingFacts DEF Stage, IsUnderway
  <2> QED BY <2>1, <2>2, OnlyOfItself DEF StepDone
<1>3. ASSUME NEW k \in 1 .. N, StepDone(d, After(d, t, k - 1), t, k - 1)
      PROVE  /\ StepFits(After(d, t, k - 1), t, Steps[k])
             /\ StepDone(d, After(d, t, k), t, k)
  <2> DEFINE e == After(d, t, k - 1)
             f == After(d, t, k)
  <2>1. f = AfterStep(e, t, Steps[k])
    BY AfterFacts
  <2> HIDE DEF e, f
  <2>2. FilesInv(e) /\ IsPending(e, t) /\ Stage(e, t, k - 1) /\ OnlyOf(d, e, t)
    <3>1. k - 1 < PresetCount + 7
      BY <1>1
    <3> QED BY <1>3, <3>1 DEF StepDone, e
  <2>3. StepFits(e, t, Steps[k]) /\ StepDone(e, f, t, k)
    BY <2>1, <2>2, StepKeeps
  <2>4. OnlyOf(d, f, t)
    BY <2>2, <2>3, OnlyOfComposes DEF StepDone
  <2> QED BY <2>3, <2>4 DEF StepDone, e, f
<1>4. Bad = {}
  <2> SUFFICES ASSUME Bad # {} PROVE FALSE
    OBVIOUS
  <2>1. Bad \in SUBSET Nat
    BY <1>1
  <2>2. PICK k \in Bad : \A j \in Bad : ~(j < k)
    <3> HIDE DEF Bad
    <3> QED BY <2>1, SmallestNumber
  <2>3. k \in 0 .. N /\ ~StepDone(d, After(d, t, k), t, k)
    OBVIOUS
  <2>4. k # 0
    BY <1>2, <2>3
  <2>5. k \in 1 .. N /\ k - 1 \in 0 .. N /\ k - 1 < k
    BY <1>1, <2>3, <2>4
  <2>6. StepDone(d, After(d, t, k - 1), t, k - 1)
    <3>1. k - 1 \notin Bad
      <4> HIDE DEF Bad
      <4> QED BY <2>2, <2>5
    <3> QED BY <2>5, <3>1
  <2> QED BY <1>3, <2>3, <2>5, <2>6
<1>5. \A k \in 0 .. N : StepDone(d, After(d, t, k), t, k)
  BY <1>4
<1>6. ASSUME NEW k \in 1 .. N PROVE StepFits(After(d, t, k - 1), t, Steps[k])
  <2>1. k - 1 \in 0 .. N
    BY <1>1
  <2> QED BY <1>3, <1>5, <2>1
<1> QED BY <1>5, <1>6 DEF CanRun

-----------------------------------------------------------------------------
(* What the other actions do to the files.                                 *)

LEMMA SnapshotFacts ==
  ASSUME NEW d, FilesInv(d)
  PROVE  /\ Snapshot(d) \in {None} \cup Snapshots
         /\ d.memory = None => Snapshot(d) = None
         /\ d.memory # None => Snapshot(d) # None /\ Snapshot(d).memory = d.memory
                              /\ Snapshot(d).turns = d.turns[d.memory.session]
         /\ d.memory # None => /\ d.memory \in Memories /\ d.memory.task \in Tasks
                              /\ d.memory.session \in Sessions /\ d.memory.revision \in Nat
                              /\ d.turns[d.memory.session] \in Seq(Sends)
                              /\ d.taskOf[d.memory.session] = d.memory.task
                              /\ d.setups[d.memory.task] # None
<1>1. d \in Files /\ MemoryInv(d)
  BY DEF FilesInv
<1>2. ASSUME d.memory # None
      PROVE  /\ d.memory \in Memories /\ d.memory.task \in Tasks
             /\ d.memory.session \in Sessions /\ d.memory.revision \in Nat
             /\ d.turns[d.memory.session] \in Seq(Sends)
             /\ d.taskOf[d.memory.session] = d.memory.task
             /\ d.setups[d.memory.task] # None
  <2>1. d.memory \in Memories
    BY <1>1, <1>2, FieldTypes
  <2>2. d.memory.task \in Tasks /\ d.memory.session \in Sessions /\ d.memory.revision \in Nat
    BY <2>1 DEF Memories
  <2>3. d.taskOf[d.memory.session] = d.memory.task /\ d.setups[d.memory.task] # None
    BY <1>1, <1>2 DEF MemoryInv
  <2>4. d.turns[d.memory.session] # None
    BY <1>1, <2>2, <2>3, Present DEF MemoryInv
  <2>5. d.turns[d.memory.session] \in Seq(Sends)
    BY <1>1, <2>2, <2>4, FieldTypes
  <2> QED BY <2>1, <2>2, <2>3, <2>5
<1>3. ASSUME d.memory # None
      PROVE  /\ Snapshot(d) \in Snapshots /\ Snapshot(d).memory = d.memory
             /\ Snapshot(d).turns = d.turns[d.memory.session]
  <2>1. d.working[d.memory.task] \in Keys
    BY <1>1, <1>2, <1>3, FieldTypes
  <2>2. Snapshot(d) = [memory |-> d.memory, working |-> d.working[d.memory.task],
                       turns |-> d.turns[d.memory.session]]
    BY <1>3 DEF Snapshot
  <2> QED BY <1>2, <1>3, <2>1, <2>2 DEF Snapshots
<1>4. d.memory = None => Snapshot(d) = None
  BY DEF Snapshot
<1>5. d.memory # None => Snapshot(d) # None
  BY <1>3, Present
<1> QED BY <1>2, <1>3, <1>4, <1>5

\* The record is made where nothing is pending, for a task and a session that
\* nothing else has.
LEMMA RecordedKeeps ==
  ASSUME NEW t \in Tasks, NEW s \in Sessions, NEW a \in Architectures, NEW p \in PresetSet,
         FilesInv(db), Pending(db) = {}, db.setups[t] = None, IsFresh(s)
  PROVE  /\ FilesInv(Recorded(t, s, a, p)) /\ IsPending(Recorded(t, s, a, p), t)
         /\ Recorded(t, s, a, p).memory = db.memory /\ Recorded(t, s, a, p).working = db.working
         /\ Recorded(t, s, a, p).turns = db.turns /\ Recorded(t, s, a, p).taskOf = db.taskOf
         /\ Recorded(t, s, a, p).states = db.states /\ Recorded(t, s, a, p).policies = db.policies
         /\ Recorded(t, s, a, p).setups[t] # None
         /\ \A u \in Tasks \ {t} : Recorded(t, s, a, p).setups[u] = db.setups[u]
<1> DEFINE d == Recorded(t, s, a, p)
           record == [status |-> "pending", session |-> s, architecture |-> a,
                      preset |-> p, previous |-> Snapshot(db), binding |-> db.binding]
           setups == [db.setups EXCEPT ![t] = record]
<1>1. /\ db \in Files /\ RecordsApart(db) /\ MemoryInv(db) /\ db.binding \in Bindings
      /\ db.setups \in [Tasks -> Record \cup {None}]
  BY FieldTypes DEF FilesInv
<1>2. /\ record \in Record /\ record # None /\ record.status = "pending" /\ record.session = s
      /\ record.architecture = a /\ record.preset = p
      /\ record.previous = Snapshot(db) /\ record.binding = db.binding
  <2>1. record \in Record
    BY <1>1, SnapshotFacts DEF Record
  <2> QED BY <2>1, Present
<1>3. d = [db EXCEPT !.setups = setups]
  BY <1>1 DEF Recorded, Files
<1>4. /\ setups \in [Tasks -> Record \cup {None}] /\ setups[t] = record
      /\ \A u \in Tasks \ {t} : setups[u] = db.setups[u]
  BY <1>1, <1>2
<1> HIDE DEF d, setups, record
<1>5. /\ d \in Files /\ d.setups = setups /\ d.memory = db.memory /\ d.working = db.working
      /\ d.turns = db.turns /\ d.taskOf = db.taskOf /\ d.profiles = db.profiles
      /\ d.binding = db.binding /\ d.states = db.states /\ d.policies = db.policies
  BY <1>1, <1>3, <1>4 DEF Files
<1>6. IsPending(d, t)
  BY <1>2, <1>4, <1>5 DEF IsPending
<1>7. \A u \in Tasks \ {t} : ~IsPending(db, u) /\ ~IsPending(d, u) /\ d.setups[u] = db.setups[u]
  BY <1>4, <1>5 DEF Pending, IsPending
<1>8. ASSUME NEW u \in Tasks \ {t} PROVE TaskInv(d, u)
  BY <1>5, <1>7 DEF FilesInv, TaskInv, IsPending, IsReady, IsBlank, IsComplete, IsOlder
<1>9. IsBlank(db, t)
  BY DEF FilesInv, TaskInv
<1>10. IsUnderway(d, t)
  <2>1. IsUntouched(d, t)
    BY <1>2, <1>4, <1>5, <1>9 DEF IsUntouched, IsBlank, Snapshot, IsFresh
  <2>2. BindingFits(d, t)
    BY <1>2, <1>4, <1>5 DEF BindingFits
  <2> QED BY <1>5, <1>9, <2>1, <2>2 DEF IsUnderway, IsBlank, NoKeys
<1>11. TaskInv(d, t)
  BY <1>2, <1>4, <1>5, <1>6, <1>10 DEF TaskInv, IsPending, IsReady
<1>12. ASSUME NEW u \in Tasks \ {t}, db.setups[u] # None
       PROVE  db.setups[u].session # s /\ db.setups[u].previous # Snapshot(db)
  <2>1. db.setups[u].session # s
    BY <1>12 DEF IsFresh
  <2>2. IsOlder(db, u)
    <3>1. IsReady(db, u)
      BY <1>1, <1>7, <1>12, RecordTypes DEF IsPending, IsReady
    <3> QED BY <3>1 DEF FilesInv, TaskInv
  <2>3. db.setups[u].previous # Snapshot(db)
    <3>1. /\ db.memory # None /\ Snapshot(db) # None /\ Snapshot(db).memory = db.memory
          /\ db.memory.revision \in Nat
      BY <2>2, SnapshotFacts DEF IsOlder
    <3> QED BY <2>2, <3>1 DEF IsOlder
  <2> QED BY <2>1, <2>3
<1>13. RecordsApart(d)
  <2> SUFFICES ASSUME NEW v \in Tasks, NEW u \in Tasks, d.setups[v] # None, d.setups[u] # None, v # u
      PROVE  /\ d.setups[v].session # d.setups[u].session
             /\ d.setups[v].previous # d.setups[u].previous
             /\ ~(IsPending(d, v) /\ IsPending(d, u))
    BY DEF RecordsApart
  <2>1. CASE v = t
    BY <1>2, <1>4, <1>5, <1>7, <1>12, <2>1
  <2>2. CASE u = t
    BY <1>2, <1>4, <1>5, <1>7, <1>12, <2>2
  <2>3. CASE u # t /\ v # t
    BY <1>1, <1>7, <2>3 DEF RecordsApart
  <2> QED BY <2>1, <2>2, <2>3
<1>14. MemoryInv(d)
  <2>1. db.memory # None => db.memory.task \in Tasks
    BY SnapshotFacts
  <2> QED BY <1>1, <1>2, <1>4, <1>5, <2>1 DEF MemoryInv
<1>15. FilesInv(d)
  BY <1>5, <1>8, <1>11, <1>13, <1>14 DEF FilesInv
<1> QED BY <1>2, <1>4, <1>5, <1>6, <1>15 DEF d

\* No turn is lost and none is added.
TurnsKept(d, e) ==
  \A s \in Sessions : /\ d.turns[s] # None => e.turns[s] = d.turns[s]
                      /\ d.turns[s] = None => e.turns[s] \in {None, << >>}

IsSaved(d, m) ==
  \E s \in Sessions : d.turns[s] # None /\ \E i \in DOMAIN d.turns[s] : d.turns[s][i] = m

LEMMA SavedAsBefore ==
  ASSUME NEW d, NEW e, NEW m, TurnsKept(d, e)
  PROVE  IsSaved(e, m) <=> IsSaved(d, m)
<1>1. IsSaved(d, m) => IsSaved(e, m)
  BY DEF TurnsKept, IsSaved
<1>2. ASSUME IsSaved(e, m) PROVE IsSaved(d, m)
  <2>1. PICK s \in Sessions : e.turns[s] # None /\ \E i \in DOMAIN e.turns[s] : e.turns[s][i] = m
    BY <1>2 DEF IsSaved
  <2>2. e.turns[s] # << >>
    BY <2>1
  <2>3. e.turns[s] = d.turns[s]
    BY <2>1, <2>2 DEF TurnsKept
  <2> QED BY <2>1, <2>3 DEF IsSaved
<1> QED BY <1>1, <1>2

\* The step from d to e only carries the current task on.
CarriesOn(d, e) ==
  /\ d.memory # None /\ e.memory # None
  /\ e.setups = d.setups /\ e.working = d.working
  /\ e.policies = d.policies /\ e.profiles = d.profiles
  /\ d.memory.revision <= e.memory.revision /\ e.memory.task = d.memory.task
  /\ e.taskOf[e.memory.session] = d.memory.task
  /\ \A u \in Tasks : \/ e.states[u] = d.states[u]
                      \/ d.states[u] # None /\ e.states[u] # None /\ IsValid(e.states[u])
  /\ \A s \in Sessions : /\ e.taskOf[s] \in {d.taskOf[s], d.memory.task}
                         /\ d.taskOf[s] # None => e.taskOf[s] = d.taskOf[s]
                         /\ e.turns[s] = None <=> e.taskOf[s] = None

LEMMA SettledStep ==
  ASSUME NEW d, NEW e \in Files, FilesInv(d), Pending(d) = {}, CarriesOn(d, e)
  PROVE  FilesInv(e)
<1> USE DEF CarriesOn
<1>1. d \in Files /\ RecordsApart(d) /\ MemoryInv(d) /\ d.setups[d.memory.task] # None
      /\ d.memory.revision \in Nat /\ e.memory.revision \in Nat
  <2>1. e.memory \in Memories
    BY FieldTypes
  <2>2. e.memory.revision \in Nat
    BY <2>1 DEF Memories
  <2> QED BY <2>2, SnapshotFacts DEF FilesInv
<1>2. \A u \in Tasks : ~IsPending(d, u) /\ ~IsPending(e, u)
  BY DEF Pending, IsPending
<1>3. RecordsApart(e)
  BY <1>1, <1>2 DEF RecordsApart
<1>4. MemoryInv(e)
  BY <1>1 DEF MemoryInv
<1>5. ASSUME NEW u \in Tasks PROVE TaskInv(e, u)
  <2>1. TaskInv(d, u) /\ u # None
    BY Present DEF FilesInv
  <2>2. ASSUME e.setups[u] = None PROVE IsBlank(e, u)
    <3>1. IsBlank(d, u) /\ u # d.memory.task
      BY <1>1, <2>1, <2>2 DEF TaskInv
    <3>2. \A s \in Sessions : e.taskOf[s] # u
      BY <3>1 DEF IsBlank
    <3> QED BY <3>1, <3>2 DEF IsBlank
  <2>3. ASSUME IsReady(e, u) PROVE IsComplete(e, u) /\ IsOlder(e, u)
    <3>1. IsReady(d, u) /\ IsComplete(d, u) /\ IsOlder(d, u)
      BY <2>1, <2>3 DEF TaskInv, IsReady
    <3>2. d.setups[u].session \in Sessions /\ d.setups[u].previous \in {None} \cup Snapshots
      BY <1>1, <3>1, RecordTypes DEF IsReady
    <3>3. e.turns[d.setups[u].session] # None /\ e.taskOf[d.setups[u].session] = u
      BY <2>1, <3>1, <3>2 DEF IsComplete
    <3>4. IsComplete(e, u)
      BY <3>1, <3>3 DEF IsComplete
    <3>5. d.setups[u].previous # None => d.setups[u].previous.memory.revision \in Nat
      BY <3>2 DEF Snapshots, Memories
    <3>6. IsOlder(e, u)
      BY <1>1, <3>1, <3>5 DEF IsOlder
    <3> QED BY <3>4, <3>6
  <2> QED BY <1>2, <2>2, <2>3 DEF TaskInv
<1> QED BY <1>3, <1>4, <1>5 DEF FilesInv

\* What a request may rely on once its sources have been resolved.
LEMMA ResolvedFacts ==
  ASSUME NEW d, FilesInv(d), d.memory # None, d.setups[d.memory.task] # None,
         d.setups[d.memory.task].status = "ready"
  PROVE  /\ d \in Files /\ MemoryInv(d) /\ d.memory \in Memories /\ d.memory.task \in Tasks
         /\ d.memory.session \in Sessions /\ d.memory.revision \in Nat
         /\ d.turns[d.memory.session] \in Seq(Sends) /\ d.turns[d.memory.session] # None
         /\ d.taskOf[d.memory.session] = d.memory.task
         /\ IsComplete(d, d.memory.task) /\ d.states[d.memory.task] \in State
         /\ IsValid(d.states[d.memory.task])
<1>1. /\ d \in Files /\ MemoryInv(d) /\ d.memory \in Memories /\ d.memory.task \in Tasks
      /\ d.memory.session \in Sessions /\ d.memory.revision \in Nat
      /\ d.turns[d.memory.session] \in Seq(Sends)
      /\ d.taskOf[d.memory.session] = d.memory.task
  BY SnapshotFacts DEF FilesInv
<1>2. d.turns[d.memory.session] # None
  BY <1>1, Present
<1>3. IsComplete(d, d.memory.task)
  BY <1>1 DEF FilesInv, TaskInv, IsReady
<1>4. d.states[d.memory.task] \in State
  BY <1>1, <1>3, FieldTypes DEF IsComplete
<1> QED BY <1>1, <1>2, <1>3, <1>4 DEF IsComplete

LEMMA SelectProfileKeeps ==
  ASSUME FilesInv(db), NEW p \in PresetSet, SelectProfile(p)
  PROVE  /\ FilesInv(db') /\ db'.turns = db.turns /\ db'.taskOf = db.taskOf
         /\ db'.setups = db.setups /\ db'.states = db.states /\ db'.policies = db.policies
<1> DEFINE chosen == IF db.binding.active = p THEN db.binding
                     ELSE [active |-> p, revision |-> db.binding.revision + 1]
<1>1. /\ db \in Files /\ MemoryInv(db) /\ db.memory # None /\ Pending(db) = {}
      /\ db.memory.revision \in Nat /\ db.taskOf[db.memory.session] = db.memory.task
      /\ db.binding \in Bindings
  BY ResolvedFacts, FieldTypes DEF SelectProfile, ClaimWithoutSetup, SourcesResolve, FilesInv
<1>2. chosen \in Bindings
  BY <1>1 DEF Bindings
<1>3. db' = [db EXCEPT !.binding = chosen]
  BY <1>1 DEF SelectProfile, Selected, Files
<1> HIDE DEF chosen
<1>4. /\ db' \in Files /\ db'.setups = db.setups /\ db'.memory = db.memory /\ db'.working = db.working
      /\ db'.turns = db.turns /\ db'.taskOf = db.taskOf /\ db'.profiles = db.profiles
      /\ db'.states = db.states /\ db'.policies = db.policies
  BY <1>1, <1>2, <1>3 DEF Files
<1>5. \A s \in Sessions : db.turns[s] = None <=> db.taskOf[s] = None
  BY <1>1 DEF MemoryInv
<1>6. /\ db.memory.revision <= db'.memory.revision /\ db'.memory.task = db.memory.task
      /\ db'.memory # None /\ db'.taskOf[db'.memory.session] = db.memory.task
  BY <1>1, <1>4
<1>7. /\ \A u \in Tasks : db'.states[u] = db.states[u]
      /\ \A s \in Sessions : /\ db'.taskOf[s] = db.taskOf[s]
                             /\ db'.turns[s] = None <=> db'.taskOf[s] = None
  BY <1>4, <1>5
<1>8. CarriesOn(db, db')
  BY <1>1, <1>4, <1>6, <1>7 DEF CarriesOn
<1>9. FilesInv(db')
  BY <1>1, <1>4, <1>8, SettledStep
<1> QED BY <1>4, <1>9

LEMMA NewConversationKeeps ==
  ASSUME FilesInv(db), NEW s \in Sessions, NewConversation(s)
  PROVE  /\ FilesInv(db') /\ db'.setups = db.setups /\ db'.states = db.states
         /\ db'.policies = db.policies
         /\ db.turns[s] = None /\ db'.turns = [db.turns EXCEPT ![s] = << >>]
         /\ db'.taskOf = [db.taskOf EXCEPT ![s] = db.memory.task] /\ db.memory.task \in Tasks
<1> DEFINE opened == [task |-> db.memory.task, session |-> s, revision |-> db.memory.revision + 1]
           turns == [db.turns EXCEPT ![s] = << >>]
           taskOf == [db.taskOf EXCEPT ![s] = db.memory.task]
<1>1. /\ db \in Files /\ MemoryInv(db) /\ db.memory # None /\ Pending(db) = {}
      /\ db.memory.revision \in Nat /\ db.memory.task \in Tasks /\ db.memory \in Memories
      /\ db.turns \in [Sessions -> Seq(Sends) \cup {None}]
      /\ db.taskOf \in [Sessions -> Tasks \cup {None}]
      /\ db.turns[s] = None
  BY ResolvedFacts, FieldTypes DEF NewConversation, ClaimWithoutSetup, SourcesResolve, FilesInv, IsFresh
<1>2. /\ opened \in Memories /\ opened.task = db.memory.task /\ opened.session = s
      /\ opened.revision = db.memory.revision + 1
  BY <1>1 DEF Memories
<1>3. turns \in [Sessions -> Seq(Sends) \cup {None}] /\ taskOf \in [Sessions -> Tasks \cup {None}]
      /\ turns[s] = << >> /\ taskOf[s] = db.memory.task
      /\ \A z \in Sessions \ {s} : turns[z] = db.turns[z] /\ taskOf[z] = db.taskOf[z]
  <2>1. << >> \in Seq(Sends)
    BY InitialIsPresent
  <2> QED BY <1>1, <2>1
<1>4. db' = [db EXCEPT !.memory = opened, !.turns = turns, !.taskOf = taskOf]
  BY <1>1 DEF NewConversation, Files
<1>5. opened # None
  BY <1>2, Present
<1> HIDE DEF opened, turns, taskOf
<1>6. /\ db' \in Files /\ db'.setups = db.setups /\ db'.memory = opened /\ db'.working = db.working
      /\ db'.turns = turns /\ db'.taskOf = taskOf /\ db'.profiles = db.profiles
      /\ db'.states = db.states /\ db'.policies = db.policies
  BY <1>1, <1>2, <1>3, <1>4 DEF Files
<1>7. db.memory.revision <= db'.memory.revision /\ db'.taskOf[db'.memory.session] = db.memory.task
  BY <1>1, <1>2, <1>3, <1>6
<1>8. ASSUME NEW z \in Sessions
      PROVE  /\ db'.taskOf[z] \in {db.taskOf[z], db.memory.task}
             /\ db.taskOf[z] # None => db'.taskOf[z] = db.taskOf[z]
             /\ db'.turns[z] = None <=> db'.taskOf[z] = None
  <2>1. db.turns[z] = None <=> db.taskOf[z] = None
    BY <1>1 DEF MemoryInv
  <2>2. << >> # None /\ db.memory.task # None
    BY <1>1, InitialIsPresent, Present
  <2>3. CASE z = s
    BY <1>1, <1>3, <1>6, <2>1, <2>2, <2>3
  <2>4. CASE z # s
    BY <1>3, <1>6, <2>1, <2>4
  <2> QED BY <2>3, <2>4
<1>9. \A u \in Tasks : db'.states[u] = db.states[u]
  BY <1>6
<1>10. db'.memory.task = db.memory.task /\ db'.memory # None
  BY <1>2, <1>5, <1>6
<1>11. CarriesOn(db, db')
  BY <1>1, <1>6, <1>7, <1>8, <1>9, <1>10 DEF CarriesOn
<1>12. FilesInv(db')
  BY <1>1, <1>6, <1>11, SettledStep
<1> QED BY <1>1, <1>6, <1>12 DEF turns, taskOf

LEMMA EventKeeps ==
  ASSUME FilesInv(db), NEW event \in Events, Event(event), EventCommits(event)
  PROVE  /\ FilesInv(db') /\ db'.turns = db.turns /\ db'.taskOf = db.taskOf
         /\ db'.setups = db.setups /\ db'.policies = db.policies
         /\ IsReady(db, db.memory.task) /\ db.memory.task \in Tasks
         /\ event \in AllowedEvents(db.states[db.memory.task])
         /\ db'.states = [db.states EXCEPT ![db.memory.task]
                            = Resolved(db.states[db.memory.task], event)]
<1> DEFINE t == db.memory.task
           next == Resolved(db.states[t], event)
           states == [db.states EXCEPT ![t] = next]
<1>1. /\ db \in Files /\ MemoryInv(db) /\ db.memory # None /\ Pending(db) = {}
      /\ db.memory.revision \in Nat /\ t \in Tasks /\ db.taskOf[db.memory.session] = t
      /\ db.states[t] \in State /\ IsValid(db.states[t]) /\ event \in AllowedEvents(db.states[t])
      /\ db.states \in [Tasks -> State \cup {None}] /\ IsReady(db, t)
  BY ResolvedFacts, FieldTypes DEF Event, ClaimWithoutSetup, FilesInv, IsReady
<1>2. next \in State /\ IsValid(next) /\ next # None
  BY <1>1, ResolvedIsValid, Present
<1>3. states \in [Tasks -> State \cup {None}] /\ states[t] = next
      /\ \A u \in Tasks \ {t} : states[u] = db.states[u]
  BY <1>1, <1>2
<1>4. db' = [db EXCEPT !.states = states]
  BY <1>1 DEF EventCommits, Files
<1> HIDE DEF states, next
<1>5. /\ db' \in Files /\ db'.setups = db.setups /\ db'.memory = db.memory /\ db'.working = db.working
      /\ db'.turns = db.turns /\ db'.taskOf = db.taskOf /\ db'.profiles = db.profiles
      /\ db'.states = states /\ db'.policies = db.policies
  BY <1>1, <1>3, <1>4 DEF Files
<1>6. CarriesOn(db, db')
  <2>1. \A u \in Tasks : \/ db'.states[u] = db.states[u]
                         \/ db.states[u] # None /\ db'.states[u] # None /\ IsValid(db'.states[u])
    BY <1>1, <1>2, <1>3, <1>5, Present
  <2>2. \A s \in Sessions : db'.turns[s] = None <=> db'.taskOf[s] = None
    BY <1>1, <1>5 DEF MemoryInv
  <2> QED BY <1>1, <1>5, <2>1, <2>2 DEF CarriesOn
<1>7. FilesInv(db')
  BY <1>1, <1>5, <1>6, SettledStep
<1> QED BY <1>1, <1>5, <1>7 DEF states, next

LEMMA PairKeeps ==
  ASSUME FilesInv(db), PairSaved, send.id \in Sends, send.session = db.memory.session,
         SourcesResolve(db), Pending(db) = {}
  PROVE  /\ FilesInv(db') /\ db'.taskOf = db.taskOf /\ db'.states = db.states
         /\ db'.setups = db.setups /\ db'.policies = db.policies
         /\ db.memory.session \in Sessions /\ db.memory.task \in Tasks
         /\ db.taskOf[db.memory.session] = db.memory.task
         /\ db.turns[db.memory.session] \in Seq(Sends)
         /\ db'.turns \in [Sessions -> Seq(Sends) \cup {None}]
         /\ db'.turns[db.memory.session] = Append(db.turns[db.memory.session], send.id)
         /\ \A s \in Sessions \ {db.memory.session} : db'.turns[s] = db.turns[s]
<1> DEFINE s == db.memory.session
           longer == Append(db.turns[s], send.id)
           turns == [db.turns EXCEPT ![s] = longer]
<1>1. /\ db \in Files /\ MemoryInv(db) /\ db.memory # None
      /\ db.memory.revision \in Nat /\ db.memory.task \in Tasks /\ s \in Sessions
      /\ db.taskOf[s] = db.memory.task
      /\ db.turns[s] \in Seq(Sends) /\ db.turns[s] # None
      /\ db.turns \in [Sessions -> Seq(Sends) \cup {None}]
  BY ResolvedFacts, FieldTypes DEF SourcesResolve, FilesInv
<1>2. longer \in Seq(Sends) /\ longer # None
  <2>1. longer \in Seq(Sends)
    BY <1>1
  <2> QED BY <2>1, Present
<1>3. turns \in [Sessions -> Seq(Sends) \cup {None}] /\ turns[s] = longer
      /\ \A z \in Sessions \ {s} : turns[z] = db.turns[z]
  BY <1>1, <1>2
<1>4. db' = [db EXCEPT !.turns = turns]
  BY <1>1 DEF PairSaved, Files
<1> HIDE DEF turns, longer
<1>5. /\ db' \in Files /\ db'.setups = db.setups /\ db'.memory = db.memory /\ db'.working = db.working
      /\ db'.turns = turns /\ db'.taskOf = db.taskOf /\ db'.profiles = db.profiles
      /\ db'.states = db.states /\ db'.policies = db.policies
  BY <1>1, <1>3, <1>4 DEF Files
<1>6. CarriesOn(db, db')
  <2>1. \A z \in Sessions : db'.turns[z] = None <=> db'.taskOf[z] = None
    <3> TAKE z \in Sessions
    <3>1. db.turns[z] = None <=> db.taskOf[z] = None
      BY <1>1 DEF MemoryInv
    <3>2. CASE z = s
      BY <1>1, <1>2, <1>3, <1>5, <3>1, <3>2
    <3>3. CASE z # s
      BY <1>3, <1>5, <3>1, <3>3
    <3> QED BY <3>2, <3>3
  <2> QED BY <1>1, <1>5, <2>1 DEF CarriesOn
<1>7. FilesInv(db')
  BY <1>1, <1>5, <1>6, SettledStep
<1> QED BY <1>1, <1>3, <1>5, <1>7 DEF longer

\* A creation, from its record to where it gets.
LEMMA CreationKeeps ==
  ASSUME NEW d, NEW t \in Tasks, NEW k \in 0 .. Len(Steps), FilesInv(d), IsPending(d, t),
         db' = After(d, t, k)
  PROVE  FilesInv(db') /\ TurnsKept(d, db') /\ OnlyOf(d, db', t)
         /\ IF k = Len(Steps) THEN Stage(db', t, k) ELSE IsPending(db', t)
<1>1. StepDone(d, db', t, k) /\ Len(Steps) = PresetCount + 7 /\ PresetCount \in Nat
  BY RunKeeps, StepFacts
<1>2. TurnsKept(d, db')
  BY <1>1 DEF StepDone, OnlyOf, TurnsKept
<1> QED BY <1>1, <1>2 DEF StepDone

-----------------------------------------------------------------------------
(* The inductive invariant.                                                *)

Outcomes == {"unsent", "running", "committed", "failed", "not_attempted", "unknown", "lost"}

\* Nothing has changed under the send in flight.
FlightInv ==
  send # None =>
    /\ send.id \in Sends /\ outcome[send.id] = "running"
    /\ SourcesResolve(db) /\ Pending(db) = {} /\ ~IsFinished(db)
    /\ send.session = db.memory.session /\ send.sources = Sources(db)
    /\ ~unsure.conversation /\ cache[send.session] = db.turns[send.session]

\* A receipt says what is true of its pair, and what is not committed yet is
\* not saved.
ReceiptInv ==
  \A m \in Sends :
    /\ outcome[m] = "committed" => IsSaved(db, m)
    /\ outcome[m] \in {"unsent", "running", "failed", "not_attempted"} => ~IsSaved(db, m)

RuntimeTypes ==
  /\ outcome \in [Sends -> Outcomes]
  /\ cache \in [Sessions -> Seq(Sends) \cup {None}]
  /\ unsure \in [conversation : BOOLEAN, lifecycle : BOOLEAN]

IInv == FilesInv(db) /\ FlightInv /\ ReceiptInv /\ RuntimeTypes /\ RuntimeIsCurrent

-----------------------------------------------------------------------------
LEMMA InitInv == Init => IInv
<1> SUFFICES ASSUME Init PROVE IInv
  OBVIOUS
<1> USE DEF Init
<1>1. db \in Files
  <2>1. NoKeys \in Keys
    BY DEF NoKeys, Keys
  <2>2. [active |-> None, revision |-> 0] \in Bindings
    BY DEF Bindings
  <2> QED BY <2>1, <2>2 DEF Files
<1>2. \A t \in Tasks : TaskInv(db, t)
  BY Present DEF TaskInv, IsBlank, IsPending, IsReady
<1>3. RecordsApart(db) /\ MemoryInv(db)
  BY DEF RecordsApart, MemoryInv
<1>4. FlightInv /\ ReceiptInv /\ RuntimeTypes /\ RuntimeIsCurrent
  BY DEF FlightInv, ReceiptInv, IsSaved, RuntimeTypes, Outcomes, RuntimeIsCurrent
<1> QED BY <1>1, <1>2, <1>3, <1>4 DEF IInv, FilesInv

\* A step of the files with no send in flight keeps what is known of sends.
LEMMA QuietStep ==
  ASSUME IInv, send = None, FilesInv(db'), TurnsKept(db, db'),
         send' = send, outcome' = outcome, cache' = cache,
         unsure' \in [conversation : BOOLEAN, lifecycle : BOOLEAN],
         unsure'.conversation = unsure.conversation
  PROVE  IInv'
<1> USE DEF IInv
<1>1. FlightInv'
  BY DEF FlightInv
<1>2. ReceiptInv'
  BY SavedAsBefore DEF ReceiptInv
<1>3. RuntimeTypes'
  BY DEF RuntimeTypes
<1>4. RuntimeIsCurrent'
  BY DEF RuntimeIsCurrent, TurnsKept
<1> QED BY <1>1, <1>2, <1>3, <1>4

LEMMA SameTurnsKept ==
  ASSUME NEW d, NEW e, e.turns = d.turns
  PROVE  TurnsKept(d, e)
  BY DEF TurnsKept

LEMMA CreateTaskInv ==
  ASSUME IInv, NEW t \in Tasks, NEW s \in Sessions, NEW a \in Architectures, NEW p \in PresetSet,
         CreateTask(t, s, a, p)
  PROVE  IInv'
<1> USE DEF IInv
<1> DEFINE d == Recorded(t, s, a, p)
<1>1. FilesInv(d) /\ IsPending(d, t) /\ d.turns = db.turns
  BY RecordedKeeps DEF CreateTask
<1>2. PICK k \in 0 .. Len(Steps) : db' = After(d, t, k)
  BY DEF CreateTask
<1> HIDE DEF d
<1>3. FilesInv(db') /\ TurnsKept(d, db')
  BY <1>1, <1>2, CreationKeeps
<1>4. TurnsKept(db, db')
  BY <1>1, <1>3 DEF TurnsKept
<1> QED BY <1>3, <1>4, QuietStep DEF CreateTask, Claim, Busy, RuntimeTypes

LEMMA CompleteSetupInv ==
  ASSUME IInv, NEW t \in Tasks, CompleteSetup(t)
  PROVE  IInv'
<1> USE DEF IInv
<1>1. PICK k \in 1 .. Len(Steps) : db' = After(db, t, k)
  BY DEF CompleteSetup
<1>2. k \in 0 .. Len(Steps)
  BY StepFacts
<1>3. FilesInv(db') /\ TurnsKept(db, db')
  BY <1>1, <1>2, CreationKeeps DEF CompleteSetup
<1> QED BY <1>3, QuietStep DEF CompleteSetup, Claim, Busy, RuntimeTypes

LEMMA SelectProfileInv ==
  ASSUME IInv, NEW p \in PresetSet, SelectProfile(p)
  PROVE  IInv'
<1> USE DEF IInv
<1>1. FilesInv(db') /\ TurnsKept(db, db')
  BY SelectProfileKeeps, SameTurnsKept
<1> QED BY <1>1, QuietStep DEF SelectProfile, ClaimWithoutSetup, Claim, Busy, RuntimeTypes

LEMMA NewConversationInv ==
  ASSUME IInv, NEW s \in Sessions, NewConversation(s)
  PROVE  IInv'
<1> USE DEF IInv
<1>1. /\ FilesInv(db') /\ db.turns[s] = None /\ db'.turns = [db.turns EXCEPT ![s] = << >>]
      /\ db.turns \in [Sessions -> Seq(Sends) \cup {None}]
  BY NewConversationKeeps, FieldTypes DEF FilesInv
<1>2. TurnsKept(db, db')
  BY <1>1 DEF TurnsKept
<1> QED BY <1>1, <1>2, QuietStep DEF NewConversation, ClaimWithoutSetup, Claim, Busy, RuntimeTypes

LEMMA EventInv ==
  ASSUME IInv, NEW event \in Events, Event(event)
  PROVE  IInv'
<1> USE DEF IInv
<1>1. FilesInv(db') /\ TurnsKept(db, db')
  <2>1. CASE EventCommits(event)
    BY <2>1, EventKeeps, SameTurnsKept
  <2>2. CASE db' = db
    BY <2>2 DEF TurnsKept
  <2> QED BY <2>1, <2>2 DEF Event
<1>2. /\ unsure' \in [conversation : BOOLEAN, lifecycle : BOOLEAN]
      /\ unsure'.conversation = unsure.conversation
  BY DEF Event, RuntimeTypes
<1> QED BY <1>1, <1>2, QuietStep DEF Event, ClaimWithoutSetup, Claim, Busy

LEMMA StartSendInv ==
  ASSUME IInv, NEW m \in Sends, StartSend(m)
  PROVE  IInv'
<1> USE DEF IInv
<1> DEFINE s == db.memory.session
<1>1. /\ SourcesResolve(db) /\ Pending(db) = {} /\ ~IsFinished(db) /\ ~unsure.conversation
      /\ db' = db /\ unsure' = unsure /\ outcome[m] = "unsent"
      /\ cache' = [cache EXCEPT ![s] = IF @ = None THEN db.turns[s] ELSE @]
      /\ outcome' = [outcome EXCEPT ![m] = "running"]
  BY DEF StartSend, ClaimWithoutSetup, Claim
<1>2. s \in Sessions /\ db.turns[s] \in Seq(Sends) /\ db.turns[s] # None
  BY <1>1, ResolvedFacts DEF SourcesResolve
<1>3. cache'[s] = db.turns[s] /\ \A z \in Sessions \ {s} : cache'[z] = cache[z]
  BY <1>1, <1>2 DEF RuntimeTypes, RuntimeIsCurrent
<1>4. RuntimeTypes'
  <2>1. cache' \in [Sessions -> Seq(Sends) \cup {None}]
    BY <1>1, <1>2 DEF RuntimeTypes
  <2>2. outcome' \in [Sends -> Outcomes]
    BY <1>1 DEF RuntimeTypes, Outcomes
  <2> QED BY <1>1, <2>1, <2>2 DEF RuntimeTypes
<1>5. outcome'[m] = "running" /\ \A q \in Sends \ {m} : outcome'[q] = outcome[q]
  BY <1>1 DEF RuntimeTypes
<1>6. ReceiptInv'
  BY <1>1, <1>5 DEF ReceiptInv
<1>7. FlightInv'
  <2>1. send'.id = m /\ send'.session = s /\ send'.sources = Sources(db)
    BY DEF StartSend
  <2>2. /\ SourcesResolve(db)' /\ (Pending(db) = {})' /\ (~IsFinished(db))'
        /\ Sources(db)' = Sources(db) /\ (db.memory.session)' = s
    BY <1>1
  <2> QED BY <1>1, <1>3, <1>5, <2>1, <2>2 DEF FlightInv
<1>8. RuntimeIsCurrent'
  BY <1>1, <1>3 DEF RuntimeIsCurrent
<1> QED BY <1>1, <1>4, <1>6, <1>7, <1>8

\* A send ends: its receipt is written, and the pair is saved or not.
SendEnds(result) ==
  /\ send # None /\ send' = None
  /\ outcome' = [outcome EXCEPT ![send.id] = result]
  /\ PairSaved \/ db' = db
  /\ unsure' \in [conversation : BOOLEAN, lifecycle : BOOLEAN]
  /\ cache' \in [Sessions -> Seq(Sends) \cup {None}]
  /\ ~unsure'.conversation => \A s \in Sessions : cache'[s] # None => cache'[s] = db'.turns[s]

LEMMA AppendFacts ==
  ASSUME NEW S, NEW q \in Seq(S), NEW x \in S
  PROVE  /\ Append(q, x) \in Seq(S) /\ Len(q) \in Nat
         /\ DOMAIN q = 1 .. Len(q) /\ DOMAIN Append(q, x) = 1 .. (Len(q) + 1)
         /\ \A i \in 1 .. Len(q) : Append(q, x)[i] = q[i]
         /\ Append(q, x)[Len(q) + 1] = x
         /\ Len(Append(q, x)) = Len(q) + 1
  BY AppendProperties

\* What is saved after the pair of the send in flight has been.
LEMMA PairIsAdded ==
  ASSUME IInv, send # None, PairSaved
  PROVE  /\ FilesInv(db') /\ \A m \in Sends : IsSaved(db', m) <=> m = send.id \/ IsSaved(db, m)
         /\ db'.turns[send.session] # db.turns[send.session]
         /\ db'.turns[send.session] = Append(db.turns[send.session], send.id)
         /\ send.session \in Sessions
         /\ \A s \in Sessions \ {send.session} : db'.turns[s] = db.turns[s]
<1> DEFINE s == send.session
           old == db.turns[s]
<1>1. /\ send.id \in Sends /\ s = db.memory.session /\ SourcesResolve(db) /\ Pending(db) = {}
      /\ FilesInv(db)
  BY DEF IInv, FlightInv
<1>2. /\ FilesInv(db') /\ s \in Sessions /\ old \in Seq(Sends)
      /\ db'.turns[s] = Append(old, send.id)
      /\ \A z \in Sessions \ {s} : db'.turns[z] = db.turns[z]
  BY <1>1, PairKeeps
<1>3. /\ Append(old, send.id) \in Seq(Sends) /\ Len(old) \in Nat
      /\ DOMAIN old = 1 .. Len(old) /\ DOMAIN Append(old, send.id) = 1 .. (Len(old) + 1)
      /\ \A i \in 1 .. Len(old) : Append(old, send.id)[i] = old[i]
      /\ Append(old, send.id)[Len(old) + 1] = send.id
      /\ Len(Append(old, send.id)) = Len(old) + 1
  <2> HIDE DEF old, s
  <2>1. old \in Seq(Sends) /\ send.id \in Sends
    BY <1>1, <1>2
  <2> QED BY <2>1, AppendFacts
<1>4. Append(old, send.id) # None /\ old # None /\ Append(old, send.id) # old
  <2> DEFINE longer == Append(old, send.id)
  <2>1. longer \in Seq(Sends) /\ Len(longer) = Len(old) + 1
    BY <1>3
  <2> HIDE DEF longer, old, s
  <2>2. longer # None /\ old # None
    BY <1>2, <2>1, Present
  <2>3. longer # old
    BY <1>3, <2>1
  <2> QED BY <2>2, <2>3 DEF longer
<1> HIDE DEF old, s
<1>5. ASSUME NEW m \in Sends PROVE IsSaved(db', m) <=> m = send.id \/ IsSaved(db, m)
  <2>1. IsSaved(db', send.id)
    <3>1. Len(old) + 1 \in DOMAIN db'.turns[s]
      BY <1>2, <1>3
    <3>2. db'.turns[s][Len(old) + 1] = send.id /\ db'.turns[s] # None
      BY <1>2, <1>3, <1>4
    <3> QED BY <1>2, <3>1, <3>2 DEF IsSaved
  <2>2. ASSUME IsSaved(db, m) PROVE IsSaved(db', m)
    <3>1. PICK z \in Sessions : db.turns[z] # None /\ \E i \in DOMAIN db.turns[z] : db.turns[z][i] = m
      BY <2>2 DEF IsSaved
    <3>2. CASE z # s
      BY <1>2, <3>1, <3>2 DEF IsSaved
    <3>3. CASE z = s
      <4>1. PICK i \in 1 .. Len(old) : old[i] = m
        BY <1>3, <3>1, <3>3 DEF old
      <4>2. i \in DOMAIN db'.turns[s] /\ db'.turns[s][i] = m /\ db'.turns[s] # None
        <5>1. i \in 1 .. (Len(old) + 1)
          BY <1>3, <4>1
        <5>2. Append(old, send.id)[i] = m
          BY <1>3, <4>1
        <5> QED BY <1>2, <1>3, <1>4, <5>1, <5>2
      <4> QED BY <1>2, <4>2 DEF IsSaved
    <3> QED BY <3>2, <3>3
  <2>3. ASSUME IsSaved(db', m), m # send.id PROVE IsSaved(db, m)
    <3>1. PICK z \in Sessions : db'.turns[z] # None /\ \E i \in DOMAIN db'.turns[z] : db'.turns[z][i] = m
      BY <2>3 DEF IsSaved
    <3>2. CASE z # s
      BY <1>2, <3>1, <3>2 DEF IsSaved
    <3>3. CASE z = s
      <4>1. PICK i \in 1 .. (Len(old) + 1) : Append(old, send.id)[i] = m
        BY <1>2, <1>3, <3>1, <3>3
      <4>2. i \in 1 .. Len(old) /\ old[i] = m
        BY <1>3, <2>3, <4>1
      <4> QED BY <1>2, <1>3, <1>4, <4>2 DEF IsSaved, old
    <3> QED BY <3>2, <3>3
  <2> QED BY <2>1, <2>2, <2>3
<1> QED BY <1>2, <1>4, <1>5 DEF s, old

LEMMA SendEndsInv ==
  ASSUME IInv, NEW result \in Outcomes, SendEnds(result),
         result \in {"failed", "not_attempted"} => db' = db,
         result = "committed" => PairSaved,
         result \notin {"unsent", "running"}
  PROVE  IInv'
<1> USE DEF IInv
<1>1. send.id \in Sends /\ outcome[send.id] = "running" /\ send # None
  BY DEF FlightInv, SendEnds
<1>2. /\ outcome'[send.id] = result /\ outcome' \in [Sends -> Outcomes]
      /\ \A m \in Sends \ {send.id} : outcome'[m] = outcome[m]
  BY <1>1 DEF SendEnds, RuntimeTypes
<1>3. FlightInv' /\ RuntimeTypes' /\ RuntimeIsCurrent'
  BY <1>2 DEF SendEnds, FlightInv, RuntimeTypes, RuntimeIsCurrent
<1>4. FilesInv(db')
  BY <1>1, PairIsAdded DEF SendEnds
<1>5. ReceiptInv'
  <2>1. CASE PairSaved
    <3>1. \A m \in Sends : IsSaved(db', m) <=> m = send.id \/ IsSaved(db, m)
      BY <1>1, <2>1, PairIsAdded
    <3>2. db' # db
      BY <1>1, <2>1, PairIsAdded
    <3> QED BY <1>1, <1>2, <3>1, <3>2 DEF ReceiptInv
  <2>2. CASE db' = db
    <3>1. result # "committed"
      BY <1>1, <2>2, PairIsAdded
    <3> QED BY <1>1, <1>2, <2>2, <3>1 DEF ReceiptInv
  <2> QED BY <2>1, <2>2 DEF SendEnds
<1> QED BY <1>3, <1>4, <1>5

LEMMA RereadFacts ==
  ASSUME NEW d \in Files, NEW session \in Sessions
  PROVE  /\ Reread(d, session) \in [Sessions -> Seq(Sends) \cup {None}]
         /\ \A s \in Sessions : Reread(d, session)[s] # None => Reread(d, session)[s] = d.turns[s]
<1>1. d.turns \in [Sessions -> Seq(Sends) \cup {None}]
  BY FieldTypes
<1> QED BY <1>1 DEF Reread

LEMMA SendWithoutCommitInv ==
  ASSUME IInv, SendWithoutCommit
  PROVE  IInv'
<1>1. SendEnds("not_attempted") /\ db' = db
  BY DEF SendWithoutCommit, Receipt, SendEnds, IInv, RuntimeTypes, RuntimeIsCurrent
<1> QED BY <1>1, SendEndsInv DEF Outcomes

LEMMA SendCommitsInv ==
  ASSUME IInv, SendCommits
  PROVE  IInv'
<1> DEFINE s == send.session
<1>1. /\ send # None /\ PairSaved /\ unsure' = unsure
      /\ cache' = [cache EXCEPT ![s] = Append(@, send.id)]
  BY DEF SendCommits, Receipt
<1>2. /\ s \in Sessions /\ db'.turns[s] = Append(db.turns[s], send.id)
      /\ \A z \in Sessions \ {s} : db'.turns[z] = db.turns[z]
      /\ FilesInv(db')
  BY <1>1, PairIsAdded
<1>3. cache[s] = db.turns[s] /\ ~unsure.conversation
  BY <1>1 DEF IInv, FlightInv
<1>4. db'.turns \in [Sessions -> Seq(Sends) \cup {None}] /\ cache \in [Sessions -> Seq(Sends) \cup {None}]
  BY <1>2, FieldTypes DEF IInv, RuntimeTypes, FilesInv
<1>5. cache'[s] = db'.turns[s] /\ \A z \in Sessions \ {s} : cache'[z] = cache[z]
  BY <1>1, <1>2, <1>3, <1>4
<1>6. cache' \in [Sessions -> Seq(Sends) \cup {None}]
  <2>1. db'.turns[s] \in Seq(Sends) \cup {None}
    BY <1>2, <1>4
  <2>2. cache' = [cache EXCEPT ![s] = db'.turns[s]]
    BY <1>1, <1>2, <1>3, <1>4
  <2> HIDE DEF s
  <2> QED BY <1>4, <2>1, <2>2
<1>7. \A z \in Sessions : cache'[z] # None => cache'[z] = db'.turns[z]
  BY <1>2, <1>3, <1>5 DEF IInv, RuntimeIsCurrent
<1>8. SendEnds("committed")
  BY <1>1, <1>6, <1>7 DEF SendCommits, Receipt, SendEnds, IInv, RuntimeTypes
<1> QED BY <1>1, <1>8, SendEndsInv DEF Outcomes

LEMMA SendIsSettledInv ==
  ASSUME IInv, SendIsSettled
  PROVE  IInv'
<1> DEFINE result == IF db'.turns[send.session] = send.sources.snapshot.turns
                     THEN "failed" ELSE "unknown"
<1>1. /\ send # None /\ (PairSaved \/ db' = db) /\ Receipt(result)
      /\ cache' = Reread(db', send.session) /\ unsure' = unsure
  BY DEF SendIsSettled
<1>2. send.sources.snapshot.turns = db.turns[send.session] /\ send.session \in Sessions
  <2>1. /\ send.sources = Sources(db) /\ send.session = db.memory.session /\ db.memory # None
        /\ FilesInv(db)
    BY <1>1 DEF IInv, FlightInv, SourcesResolve
  <2>2. Sources(db).snapshot = Snapshot(db)
    BY DEF Sources
  <2> QED BY <2>1, <2>2, SnapshotFacts
<1>3. PairSaved => db'.turns[send.session] # db.turns[send.session]
  BY <1>1, PairIsAdded
<1>4. result = "failed" => db' = db
  BY <1>1, <1>2, <1>3
<1>5. FilesInv(db')
  BY <1>1, PairIsAdded DEF IInv
<1>6. /\ cache' \in [Sessions -> Seq(Sends) \cup {None}]
      /\ \A s \in Sessions : cache'[s] # None => cache'[s] = db'.turns[s]
  BY <1>1, <1>2, <1>5, RereadFacts DEF FilesInv
<1>7. result \in {"failed", "unknown"}
  OBVIOUS
<1> HIDE DEF result
<1>8. SendEnds(result)
  BY <1>1, <1>6 DEF SendEnds, Receipt, IInv, RuntimeTypes
<1> QED BY <1>4, <1>7, <1>8, SendEndsInv DEF Outcomes

LEMMA SendIsUnsureInv ==
  ASSUME IInv, SendIsUnsure
  PROVE  IInv'
<1>1. /\ send # None /\ (PairSaved \/ db' = db) /\ Receipt("unknown")
      /\ \/ unsure' = [unsure EXCEPT !.conversation = TRUE] /\ cache' = cache
         \/ unsure' = unsure /\ cache' = Reread(db', send.session)
  BY DEF SendIsUnsure
<1>2. send.session \in Sessions /\ unsure \in [conversation : BOOLEAN, lifecycle : BOOLEAN]
      /\ cache \in [Sessions -> Seq(Sends) \cup {None}]
  <2>1. send.session = db.memory.session /\ db.memory # None /\ FilesInv(db)
    BY <1>1 DEF IInv, FlightInv, SourcesResolve
  <2> QED BY <2>1, SnapshotFacts DEF IInv, RuntimeTypes
<1>3. FilesInv(db')
  BY <1>1, PairIsAdded DEF IInv
<1>4. SendEnds("unknown")
  <2>1. CASE unsure' = [unsure EXCEPT !.conversation = TRUE] /\ cache' = cache
    <3>1. unsure' \in [conversation : BOOLEAN, lifecycle : BOOLEAN] /\ unsure'.conversation
      BY <1>2, <2>1
    <3> QED BY <1>1, <1>2, <2>1, <3>1 DEF SendEnds, Receipt
  <2>2. CASE unsure' = unsure /\ cache' = Reread(db', send.session)
    <3>1. /\ cache' \in [Sessions -> Seq(Sends) \cup {None}]
          /\ \A s \in Sessions : cache'[s] # None => cache'[s] = db'.turns[s]
      BY <1>2, <1>3, <2>2, RereadFacts DEF FilesInv
    <3> QED BY <1>1, <1>2, <2>2, <3>1 DEF SendEnds, Receipt
  <2> QED BY <1>1, <2>1, <2>2
<1> QED BY <1>4, SendEndsInv DEF Outcomes

LEMMA ReadCurrentInv ==
  ASSUME IInv, ReadCurrent
  PROVE  IInv'
<1> USE DEF IInv
<1>1. /\ db' = db /\ send' = send /\ outcome' = outcome /\ send = None /\ db.memory # None
      /\ unsure' = [conversation |-> FALSE, lifecycle |-> FALSE]
      /\ cache' = IF unsure.conversation THEN Reread(db, db.memory.session) ELSE cache
  BY DEF ReadCurrent, Busy
<1>2. db.memory.session \in Sessions /\ db \in Files
  BY <1>1, SnapshotFacts DEF FilesInv
<1>3. /\ cache' \in [Sessions -> Seq(Sends) \cup {None}]
      /\ \A s \in Sessions : cache'[s] # None => cache'[s] = db.turns[s]
  <2>1. CASE unsure.conversation
    BY <1>1, <1>2, <2>1, RereadFacts
  <2>2. CASE ~unsure.conversation
    BY <1>1, <2>2 DEF RuntimeIsCurrent, RuntimeTypes
  <2> QED BY <2>1, <2>2
<1>4. RuntimeTypes' /\ RuntimeIsCurrent' /\ FlightInv' /\ ReceiptInv'
  BY <1>1, <1>3 DEF RuntimeTypes, RuntimeIsCurrent, FlightInv, ReceiptInv
<1> QED BY <1>1, <1>4

LEMMA RestartInv ==
  ASSUME IInv, Restart
  PROVE  IInv'
<1> USE DEF IInv
<1>1. /\ db' = db /\ send' = None
      /\ cache' = [s \in Sessions |-> None]
      /\ unsure' = [conversation |-> FALSE, lifecycle |-> FALSE]
      /\ outcome' = IF send # None THEN [outcome EXCEPT ![send.id] = "lost"] ELSE outcome
  BY DEF Restart, Busy
<1>2. \A m \in Sends : outcome'[m] = outcome[m] \/ outcome'[m] = "lost"
  BY <1>1 DEF RuntimeTypes
<1>3. outcome' \in [Sends -> Outcomes]
  BY <1>1 DEF RuntimeTypes, Outcomes
<1>4. RuntimeTypes' /\ RuntimeIsCurrent'
  BY <1>1, <1>3 DEF RuntimeTypes, RuntimeIsCurrent
<1>5. FlightInv' /\ ReceiptInv'
  BY <1>1, <1>2 DEF FlightInv, ReceiptInv
<1> QED BY <1>1, <1>4, <1>5

\* Every step keeps the inductive invariant.
LEMMA StepInv == IInv /\ [Next]_vars => IInv'
<1> SUFFICES ASSUME IInv, [Next]_vars PROVE IInv'
  OBVIOUS
<1>1. CASE UNCHANGED vars
  <2>1. db' = db /\ send' = send /\ outcome' = outcome /\ cache' = cache /\ unsure' = unsure
    BY <1>1 DEF vars
  <2> QED BY <2>1 DEF IInv, FlightInv, ReceiptInv, RuntimeTypes, RuntimeIsCurrent
<1> QED BY <1>1, CreateTaskInv, CompleteSetupInv, SelectProfileInv, NewConversationInv, EventInv,
           StartSendInv, SendWithoutCommitInv, SendCommitsInv, SendIsSettledInv, SendIsUnsureInv,
           ReadCurrentInv, RestartInv
        DEF Next

-----------------------------------------------------------------------------
(* What the invariant says of tasks and of sends.                          *)

LEMMA InvariantHolds == Spec => []IInv
  BY InitInv, StepInv, PTL DEF Spec

\* The five files, the receipts and the runtime histories keep their types, and
\* a profile is stored once per preset.
THEOREM TypesHold == Spec => []TypeOK
<1>1. IInv => TypeOK
  <2> SUFFICES ASSUME IInv PROVE TypeOK
    OBVIOUS
  <2>1. db \in Files /\ RuntimeTypes
    BY DEF IInv, FilesInv
  <2>2. Busy => /\ send.id \in Sends /\ send.session \in Sessions
                /\ outcome[send.id] = "running"
    <3> SUFFICES ASSUME send # None
        PROVE  /\ send.id \in Sends /\ send.session \in Sessions
               /\ outcome[send.id] = "running"
      BY DEF Busy
    <3>1. /\ send.id \in Sends /\ outcome[send.id] = "running"
          /\ send.session = db.memory.session /\ db.memory # None /\ FilesInv(db)
      BY DEF IInv, FlightInv, SourcesResolve
    <3> QED BY <3>1, SnapshotFacts
  <2> QED BY <2>1, <2>2, FieldTypes DEF TypeOK, RuntimeTypes, Outcomes
<1> QED BY <1>1, InvariantHolds, PTL

\* Wherever create_task or _complete was cut off, every later step of it finds
\* the files as it needs them; a task whose setup is ready has all it needs; and
\* however often a request is repeated its reference makes one task.
THEOREM TasksStayWhole == Spec => []TasksAreWhole
<1>1. IInv => TasksAreWhole
  <2> SUFFICES ASSUME IInv PROVE TasksAreWhole
    OBVIOUS
  <2>1. FilesInv(db) /\ RecordsApart(db)
    BY DEF IInv, FilesInv
  <2>2. PendingIsCompletable
    BY <2>1, RunKeeps DEF PendingIsCompletable, Pending
  <2>3. ReadyIsComplete
    BY <2>1 DEF ReadyIsComplete, FilesInv, TaskInv, IsReady, IsComplete
  <2>4. OneTaskPerReference
    <3> DEFINE pending == {t \in Tasks : IsPending(db, t)}
    <3>1. \A t, u \in pending : t = u
      BY <2>1 DEF RecordsApart, IsPending
    <3>2. Cardinality(pending) <= 1
      <4> HIDE DEF pending
      <4>1. CASE pending = {}
        BY <4>1, FS_EmptySet
      <4>2. CASE pending # {}
        <5>1. PICK t \in pending : TRUE
          BY <4>2
        <5>2. pending = {t}
          BY <3>1, <5>1
        <5>3. Cardinality({t}) = 1
          BY FS_Singleton
        <5> QED BY <5>2, <5>3
      <4> QED BY <4>1, <4>2
    <3> QED BY <2>1, <3>2 DEF OneTaskPerReference, RecordsApart
  <2> QED BY <2>2, <2>3, <2>4 DEF TasksAreWhole
<1> QED BY <1>1, InvariantHolds, PTL

\* A receipt of send says what is true of its pair, also after a commit in
\* doubt, and what the coordinator remembers of a conversation is what is stored.
THEOREM SendsStayTrue == Spec => []SendsTellTheTruth
<1>1. IInv => SendsTellTheTruth
  BY DEF IInv, SendsTellTheTruth, ReceiptInv, IsSaved, ReceiptsTellTheTruth
<1> QED BY <1>1, InvariantHolds, PTL

\* No pair is saved under another memory, profile, state or policy than the one
\* it was generated from, whatever happens while send awaits the model.
THEOREM PairsUnderSources == Spec => SavedUnderItsSources
<1>1. IInv => (Busy => Sources(db) = send.sources)
  BY DEF IInv, FlightInv, Busy
<1>2. IInv => [Busy /\ db'.turns # db.turns => Sources(db) = send.sources]_vars
  BY <1>1
<1> QED BY <1>2, InvariantHolds, PTL DEF SavedUnderItsSources

-----------------------------------------------------------------------------
(* The five files implement PlaygroundTasks.                               *)

ReadyTasks(d) == {t \in Tasks : IsReady(d, t)}
TurnsOf(d, t) ==
  {m \in Sends : \E s \in Sessions : d.taskOf[s] = t /\ \E i \in DOMAIN d.turns[s] : d.turns[s][i] = m}
TaskOf(d, t) == [policy |-> d.policies[t], state |-> d.states[t], turns |-> TurnsOf(d, t)]
View(d) == [t \in ReadyTasks(d) |-> TaskOf(d, t)]

LEMMA ViewNow == TaskView = View(db)
  BY DEF TaskView, View, ReadyTasks, TaskOf, TurnsOf, IsReady

LEMMA ViewNext == TaskView' = View(db')
  BY DEF TaskView, View, ReadyTasks, TaskOf, TurnsOf, IsReady

\* A step that moves no ready task, saves no turn and makes no task ready.
SameTasks(d, e) ==
  /\ \A t \in Tasks : /\ IsReady(e, t) <=> IsReady(d, t)
                      /\ IsReady(d, t) => e.policies[t] = d.policies[t] /\ e.states[t] = d.states[t]
  /\ \A t \in Tasks : IsReady(d, t) => TurnsOf(e, t) = TurnsOf(d, t)

LEMMA SameView ==
  ASSUME NEW d, NEW e, SameTasks(d, e)
  PROVE  View(e) = View(d)
<1>1. ReadyTasks(e) = ReadyTasks(d)
  BY DEF SameTasks, ReadyTasks
<1>2. \A t \in ReadyTasks(d) : TaskOf(e, t) = TaskOf(d, t)
  BY DEF SameTasks, ReadyTasks, TaskOf
<1> QED BY <1>1, <1>2 DEF View

\* New conversations have no turns.
LEMMA TurnsOfKept ==
  ASSUME NEW d, NEW e, FilesInv(d), FilesInv(e), TurnsKept(d, e), NEW t \in Tasks,
         \A s \in Sessions : d.taskOf[s] # None => e.taskOf[s] = d.taskOf[s]
  PROVE  TurnsOf(e, t) = TurnsOf(d, t)
<1>1. MemoryInv(d) /\ MemoryInv(e) /\ t # None
  BY Present DEF FilesInv
<1>2. ASSUME NEW s \in Sessions, d.taskOf[s] = t
      PROVE  e.taskOf[s] = t /\ e.turns[s] = d.turns[s]
  BY <1>1, <1>2 DEF MemoryInv, TurnsKept
<1>3. ASSUME NEW s \in Sessions, e.taskOf[s] = t, e.turns[s] # << >>
      PROVE  d.taskOf[s] = t /\ e.turns[s] = d.turns[s]
  <2>1. e.turns[s] # None
    BY <1>1, <1>3 DEF MemoryInv
  <2>2. d.turns[s] # None
    BY <1>3, <2>1 DEF TurnsKept
  <2>3. d.taskOf[s] # None
    BY <1>1, <2>2 DEF MemoryInv
  <2> QED BY <1>3, <2>2, <2>3 DEF TurnsKept
<1>4. TurnsOf(d, t) \subseteq TurnsOf(e, t)
  BY <1>2 DEF TurnsOf
<1>5. TurnsOf(e, t) \subseteq TurnsOf(d, t)
  <2> SUFFICES ASSUME NEW m \in Sends, NEW s \in Sessions, e.taskOf[s] = t,
                      NEW i \in DOMAIN e.turns[s], e.turns[s][i] = m
      PROVE  m \in TurnsOf(d, t)
    BY DEF TurnsOf
  <2>1. e.turns[s] # << >>
    OBVIOUS
  <2>2. d.taskOf[s] = t /\ e.turns[s] = d.turns[s]
    BY <1>3, <2>1
  <2> QED BY <2>2 DEF TurnsOf
<1> QED BY <1>4, <1>5

\* A creation that is cut off shows nothing, and one that ends shows a whole task.
LEMMA CreationView ==
  ASSUME NEW d, NEW e, NEW t \in Tasks, NEW k \in 0 .. Len(Steps),
         FilesInv(d), IsPending(d, t), FilesInv(e), TurnsKept(d, e), OnlyOf(d, e, t),
         IF k = Len(Steps) THEN Stage(e, t, k) ELSE IsPending(e, t)
  PROVE  \/ View(e) = View(d)
         \/ /\ t \notin ReadyTasks(d) /\ d.setups[t].architecture \in Architectures
            /\ View(e) = [u \in ReadyTasks(d) \cup {t} |->
                            IF u = t THEN [policy |-> d.setups[t].architecture,
                                           state |-> Initial, turns |-> {}]
                            ELSE View(d)[u]]
<1>1. /\ d.setups[t] # None /\ d.setups[t].status = "pending" /\ d.setups[t] \in Record
      /\ d.setups[t].architecture \in Architectures /\ d.taskOf[d.setups[t].session] \in {t, None}
      /\ d \in Files
  BY PendingFacts, FieldTypes DEF IsUnderway, IsOpened, IsUntouched, MemoryInv
<1>2. t \notin ReadyTasks(d)
  BY <1>1 DEF ReadyTasks, IsReady
<1>3. \A s \in Sessions : d.taskOf[s] # None => e.taskOf[s] = d.taskOf[s]
  BY <1>1 DEF OnlyOf
<1>4. \A u \in Tasks : TurnsOf(e, u) = TurnsOf(d, u)
  BY <1>3, TurnsOfKept
<1>5. \A u \in Tasks \ {t} : /\ IsReady(e, u) <=> IsReady(d, u)
                            /\ e.policies[u] = d.policies[u] /\ e.states[u] = d.states[u]
  BY DEF OnlyOf, IsReady
<1>6. CASE IsPending(e, t)
  <2>1. ~IsReady(e, t) /\ ~IsReady(d, t)
    BY <1>1, <1>6 DEF IsPending, IsReady
  <2>2. SameTasks(d, e)
    BY <1>4, <1>5, <2>1 DEF SameTasks
  <2> QED BY <2>2, SameView
<1>7. CASE k = Len(Steps)
  <2>1. /\ e.states[t] = Initial /\ e.policies[t] = e.setups[t].architecture
        /\ e.setups[t].status = "ready" /\ IsOpened(e, t)
        /\ \A s \in Sessions : e.taskOf[s] = t => s = e.setups[t].session
    BY <1>7, StepFacts DEF Stage
  <2>2. e.setups[t] # None /\ e.setups[t].architecture = d.setups[t].architecture
    <3>1. [d.setups[t] EXCEPT !.status = "ready"] \in Record
      BY <1>1 DEF Record
    <3>2. [d.setups[t] EXCEPT !.status = "ready"].architecture = d.setups[t].architecture
      BY <1>1 DEF Record
    <3> QED BY <1>1, <3>1, <3>2, Present DEF OnlyOf
  <2>3. IsReady(e, t)
    BY <2>1, <2>2 DEF IsReady
  <2>4. TurnsOf(e, t) = {}
    BY <2>1 DEF TurnsOf, IsOpened
  <2>5. ReadyTasks(e) = ReadyTasks(d) \cup {t}
    BY <1>5, <2>3 DEF ReadyTasks
  <2>6. TaskOf(e, t) = [policy |-> d.setups[t].architecture, state |-> Initial, turns |-> {}]
    BY <2>1, <2>2, <2>4 DEF TaskOf
  <2>7. \A u \in ReadyTasks(d) : u # t /\ u \in Tasks /\ TaskOf(e, u) = View(d)[u]
    BY <1>2, <1>4, <1>5 DEF ReadyTasks, TaskOf, View
  <2>8. View(e) = [u \in ReadyTasks(d) \cup {t} |->
                     IF u = t THEN [policy |-> d.setups[t].architecture,
                                    state |-> Initial, turns |-> {}]
                     ELSE View(d)[u]]
    BY <2>5, <2>6, <2>7 DEF View
  <2> QED BY <1>1, <1>2, <2>8
<1> QED BY <1>6, <1>7

\* The workflow of the promise is that of the playground.
LEMMA SameMachine ==
  /\ Promise!Initial = Initial /\ Promise!Events = Events
  /\ \A state : Promise!AllowedEvents(state) = AllowedEvents(state)
  /\ \A state, event : Promise!Resolved(state, event) = Resolved(state, event)
  BY DEF Promise!Initial, Initial, Promise!Events, Events, Promise!AllowedEvents, AllowedEvents,
         Promise!Resolved, Resolved

LEMMA AppearsWhole ==
  ASSUME NEW d, NEW t \in Tasks, NEW k \in 0 .. Len(Steps), FilesInv(d), IsPending(d, t),
         View(d) = View(db), db' = After(d, t, k)
  PROVE  [Promise!Next]_TaskView
<1>1. FilesInv(db') /\ TurnsKept(d, db') /\ OnlyOf(d, db', t)
      /\ IF k = Len(Steps) THEN Stage(db', t, k) ELSE IsPending(db', t)
  BY CreationKeeps
<1>2. CASE View(db') = View(d)
  BY <1>2, ViewNow, ViewNext
<1>3. CASE /\ t \notin ReadyTasks(d) /\ d.setups[t].architecture \in Architectures
           /\ View(db') = [u \in ReadyTasks(d) \cup {t} |->
                            IF u = t THEN [policy |-> d.setups[t].architecture,
                                           state |-> Initial, turns |-> {}]
                            ELSE View(d)[u]]
  <2>1. DOMAIN TaskView = ReadyTasks(d) /\ \A u \in ReadyTasks(d) : TaskView[u] = View(d)[u]
    BY ViewNow DEF View
  <2>2. TaskView' = [u \in DOMAIN TaskView \cup {t} |->
                      IF u = t THEN [policy |-> d.setups[t].architecture,
                                     state |-> Initial, turns |-> {}]
                      ELSE TaskView[u]]
    BY <1>3, <2>1, ViewNext
  <2>3. Promise!Appear(t)
    BY <1>3, <2>1, <2>2, SameMachine DEF Promise!Appear
  <2> QED BY <2>3 DEF Promise!Next
<1> QED BY <1>1, <1>2, <1>3, CreationView, ZenonT(60)

LEMMA CreateTaskKeepsPromise ==
  ASSUME IInv, NEW t \in Tasks, NEW s \in Sessions, NEW a \in Architectures, NEW p \in PresetSet,
         CreateTask(t, s, a, p)
  PROVE  [Promise!Next]_TaskView
<1> DEFINE d == Recorded(t, s, a, p)
<1>1. /\ FilesInv(d) /\ IsPending(d, t) /\ d.turns = db.turns /\ d.taskOf = db.taskOf
      /\ d.states = db.states /\ d.policies = db.policies
      /\ \A u \in Tasks \ {t} : d.setups[u] = db.setups[u]
  BY RecordedKeeps DEF CreateTask, IInv
<1>2. PICK k \in 0 .. Len(Steps) : db' = After(d, t, k)
  BY DEF CreateTask
<1>3. db.setups[t] = None
  BY DEF CreateTask
<1> HIDE DEF d
<1>4. SameTasks(db, d)
  BY <1>1, <1>3 DEF SameTasks, IsReady, IsPending, TurnsOf
<1>5. View(d) = View(db)
  BY <1>4, SameView
<1> QED BY <1>1, <1>2, <1>5, AppearsWhole

LEMMA CompleteSetupKeepsPromise ==
  ASSUME IInv, NEW t \in Tasks, CompleteSetup(t)
  PROVE  [Promise!Next]_TaskView
<1>1. PICK k \in 1 .. Len(Steps) : db' = After(db, t, k)
  BY DEF CompleteSetup
<1>2. k \in 0 .. Len(Steps)
  BY StepFacts
<1> QED BY <1>1, <1>2, AppearsWhole DEF CompleteSetup, IInv

LEMMA StutterKeepsPromise ==
  ASSUME SameTasks(db, db')
  PROVE  [Promise!Next]_TaskView
  BY SameView, ViewNow, ViewNext

LEMMA EventKeepsPromise ==
  ASSUME IInv, NEW event \in Events, Event(event)
  PROVE  [Promise!Next]_TaskView
<1> DEFINE t == db.memory.task
<1>1. CASE EventCommits(event)
  <2>1. /\ db'.turns = db.turns /\ db'.taskOf = db.taskOf /\ db'.setups = db.setups
        /\ db'.policies = db.policies /\ IsReady(db, t) /\ t \in Tasks
        /\ event \in AllowedEvents(db.states[t])
        /\ db'.states = [db.states EXCEPT ![t] = Resolved(db.states[t], event)]
        /\ db.states \in [Tasks -> State \cup {None}]
    BY <1>1, EventKeeps, FieldTypes DEF IInv, FilesInv
  <2> HIDE DEF t
  <2>2. ReadyTasks(db') = ReadyTasks(db) /\ \A u \in Tasks : TurnsOf(db', u) = TurnsOf(db, u)
    BY <2>1 DEF ReadyTasks, IsReady, TurnsOf
  <2>3. DOMAIN TaskView = ReadyTasks(db) /\ t \in ReadyTasks(db)
        /\ \A u \in ReadyTasks(db) : TaskView[u] = TaskOf(db, u)
    BY <2>1, ViewNow DEF View, ReadyTasks
  <2>4. /\ TaskView[t].state = db.states[t]
        /\ [TaskView[t] EXCEPT !.state = Resolved(db.states[t], event)] = TaskOf(db', t)
    BY <2>1, <2>2, <2>3 DEF TaskOf
  <2>5. \A u \in ReadyTasks(db) \ {t} : TaskOf(db', u) = TaskView[u]
    BY <2>1, <2>2, <2>3 DEF TaskOf, ReadyTasks
  <2>6. TaskView = [u \in ReadyTasks(db) |-> TaskView[u]] /\ TaskView' = [u \in ReadyTasks(db) |-> TaskOf(db', u)]
    BY <2>2, ViewNow, ViewNext DEF View
  <2>7. TaskView' = [TaskView EXCEPT ![t] = [TaskView[t] EXCEPT !.state = Resolved(db.states[t], event)]]
    BY <2>3, <2>4, <2>5, <2>6
  <2>8. Promise!Move(t, event)
    BY <2>1, <2>3, <2>4, <2>7, SameMachine DEF Promise!Move
  <2> QED BY <2>1, <2>8, SameMachine DEF Promise!Next
<1>2. CASE db' = db
  BY <1>2, ViewNow, ViewNext
<1> QED BY <1>1, <1>2 DEF Event

LEMMA NewConversationKeepsPromise ==
  ASSUME IInv, NEW s \in Sessions, NewConversation(s)
  PROVE  [Promise!Next]_TaskView
<1>1. /\ FilesInv(db) /\ FilesInv(db') /\ db'.setups = db.setups /\ db'.states = db.states
      /\ db'.policies = db.policies /\ db.turns[s] = None
      /\ db'.turns = [db.turns EXCEPT ![s] = << >>]
      /\ db'.taskOf = [db.taskOf EXCEPT ![s] = db.memory.task]
      /\ db.turns \in [Sessions -> Seq(Sends) \cup {None}]
      /\ db.taskOf \in [Sessions -> Tasks \cup {None}]
  BY NewConversationKeeps, FieldTypes DEF IInv, FilesInv
<1>2. TurnsKept(db, db')
  BY <1>1 DEF TurnsKept
<1>3. \A z \in Sessions : db.taskOf[z] # None => db'.taskOf[z] = db.taskOf[z]
  BY <1>1 DEF FilesInv, MemoryInv
<1>4. \A t \in Tasks : TurnsOf(db', t) = TurnsOf(db, t)
  BY <1>1, <1>2, <1>3, TurnsOfKept
<1>5. SameTasks(db, db')
  BY <1>1, <1>4 DEF SameTasks, IsReady
<1> QED BY <1>5, StutterKeepsPromise

LEMMA SelectProfileKeepsPromise ==
  ASSUME IInv, NEW p \in PresetSet, SelectProfile(p)
  PROVE  [Promise!Next]_TaskView
<1>1. /\ db'.turns = db.turns /\ db'.taskOf = db.taskOf /\ db'.setups = db.setups
      /\ db'.states = db.states /\ db'.policies = db.policies
  BY SelectProfileKeeps DEF IInv
<1>2. SameTasks(db, db')
  BY <1>1 DEF SameTasks, IsReady, TurnsOf
<1> QED BY <1>2, StutterKeepsPromise

\* A pair is saved once, for the task of its conversation.
LEMMA PairKeepsPromise ==
  ASSUME IInv, send # None, PairSaved
  PROVE  [Promise!Next]_TaskView
<1> DEFINE t == db.memory.task
           s == db.memory.session
           m == send.id
           old == db.turns[s]
<1>1. /\ m \in Sends /\ send.session = s /\ SourcesResolve(db) /\ Pending(db) = {}
      /\ ~IsFinished(db) /\ FilesInv(db) /\ ~IsSaved(db, m)
  BY DEF IInv, FlightInv, ReceiptInv
<1>2. /\ db'.taskOf = db.taskOf /\ db'.states = db.states
      /\ db'.setups = db.setups /\ db'.policies = db.policies
      /\ s \in Sessions /\ t \in Tasks /\ db.taskOf[s] = t
      /\ old \in Seq(Sends) /\ db'.turns[s] = Append(old, m)
      /\ \A z \in Sessions \ {s} : db'.turns[z] = db.turns[z]
      /\ MemoryInv(db)
  BY <1>1, PairKeeps DEF FilesInv
<1>3. IsReady(db, t) /\ db.states[t].node \notin TerminalNodes
  BY <1>1 DEF SourcesResolve, IsReady, IsFinished
<1>4. /\ DOMAIN old = 1 .. Len(old) /\ DOMAIN Append(old, m) = 1 .. (Len(old) + 1)
      /\ \A i \in 1 .. Len(old) : Append(old, m)[i] = old[i]
      /\ Append(old, m)[Len(old) + 1] = m /\ Len(old) \in Nat
  <2> HIDE DEF old, m
  <2>1. old \in Seq(Sends) /\ m \in Sends
    BY <1>1, <1>2
  <2> QED BY <2>1
<1> HIDE DEF t, s, m
<1>5. TurnsOf(db', t) = TurnsOf(db, t) \cup {m}
  <2>1. m \in TurnsOf(db', t)
    <3>1. Len(old) + 1 \in DOMAIN db'.turns[s] /\ db'.turns[s][Len(old) + 1] = m
      BY <1>2, <1>4
    <3> QED BY <1>1, <1>2, <3>1 DEF TurnsOf
  <2>2. ASSUME NEW q \in TurnsOf(db, t) PROVE q \in TurnsOf(db', t)
    <3>1. PICK z \in Sessions : db.taskOf[z] = t /\ \E i \in DOMAIN db.turns[z] : db.turns[z][i] = q
      BY DEF TurnsOf
    <3>2. CASE z = s
      <4>1. PICK i \in 1 .. Len(old) : old[i] = q
        BY <1>4, <3>1, <3>2
      <4>2. i \in 1 .. (Len(old) + 1) /\ Append(old, m)[i] = q
        BY <1>4, <4>1
      <4> QED BY <1>2, <1>4, <4>2 DEF TurnsOf
    <3>3. CASE z # s
      BY <1>2, <3>1, <3>3 DEF TurnsOf
    <3> QED BY <3>2, <3>3
  <2>3. ASSUME NEW q \in TurnsOf(db', t), q # m PROVE q \in TurnsOf(db, t)
    <3>1. PICK z \in Sessions : db.taskOf[z] = t /\ \E i \in DOMAIN db'.turns[z] : db'.turns[z][i] = q
      BY <1>2 DEF TurnsOf
    <3>2. CASE z = s
      <4>1. PICK i \in 1 .. (Len(old) + 1) : Append(old, m)[i] = q
        BY <1>2, <1>4, <3>1, <3>2
      <4>2. i \in 1 .. Len(old) /\ old[i] = q
        BY <1>4, <2>3, <4>1
      <4> QED BY <1>2, <1>4, <4>2 DEF TurnsOf
    <3>3. CASE z # s
      BY <1>2, <3>1, <3>3 DEF TurnsOf
    <3> QED BY <3>2, <3>3
  <2> QED BY <2>1, <2>2, <2>3
<1>6. \A u \in Tasks \ {t} : TurnsOf(db', u) = TurnsOf(db, u)
  BY <1>2 DEF TurnsOf
<1>7. \A u \in Tasks : m \notin TurnsOf(db, u)
  <2> SUFFICES ASSUME NEW u \in Tasks, NEW z \in Sessions, db.taskOf[z] = u,
                      NEW i \in DOMAIN db.turns[z], db.turns[z][i] = m
      PROVE  FALSE
    BY DEF TurnsOf
  <2>1. db.turns[z] # None
    BY <1>2, Present DEF MemoryInv
  <2> QED BY <1>1, <2>1 DEF IsSaved
<1>8. /\ DOMAIN TaskView = ReadyTasks(db) /\ ReadyTasks(db') = ReadyTasks(db) /\ t \in ReadyTasks(db)
      /\ \A u \in ReadyTasks(db) : u \in Tasks /\ TaskView[u] = TaskOf(db, u)
  BY <1>2, <1>3, ViewNow DEF View, ReadyTasks, IsReady
<1>9. /\ TaskView[t].state = db.states[t]
      /\ [TaskView[t] EXCEPT !.turns = TaskView[t].turns \cup {m}] = TaskOf(db', t)
  <2>1. TaskView[t] = [policy |-> db.policies[t], state |-> db.states[t], turns |-> TurnsOf(db, t)]
    BY <1>8 DEF TaskOf
  <2>2. TaskOf(db', t) = [policy |-> db.policies[t], state |-> db.states[t],
                          turns |-> TurnsOf(db, t) \cup {m}]
    BY <1>2, <1>5 DEF TaskOf
  <2> QED BY <2>1, <2>2
<1>10. \A u \in ReadyTasks(db) : u # t => TaskOf(db', u) = TaskView[u]
  BY <1>2, <1>6, <1>8 DEF TaskOf
<1>11. \A u \in ReadyTasks(db) : m \notin TaskView[u].turns
  BY <1>7, <1>8 DEF TaskOf
<1>12. /\ TaskView = [u \in ReadyTasks(db) |-> TaskView[u]]
       /\ TaskView' = [u \in ReadyTasks(db) |-> TaskOf(db', u)]
  BY <1>8, ViewNow, ViewNext DEF View
<1>13. TaskView' = [TaskView EXCEPT ![t] = [TaskView[t] EXCEPT !.turns = TaskView[t].turns \cup {m}]]
  BY <1>8, <1>9, <1>10, <1>12
<1>14. Promise!SaveTurn(t, m)
  BY <1>3, <1>8, <1>9, <1>11, <1>13 DEF Promise!SaveTurn
<1> QED BY <1>1, <1>2, <1>14 DEF Promise!Next

LEMMA StepKeepsPromise ==
  ASSUME IInv, [Next]_vars
  PROVE  [Promise!Next]_TaskView
<1>1. CASE db' = db
  BY <1>1, ViewNow, ViewNext
<1>2. CASE SendWithoutCommit \/ SendCommits \/ SendIsSettled \/ SendIsUnsure
  BY <1>1, <1>2, PairKeepsPromise DEF SendWithoutCommit, SendCommits, SendIsSettled, SendIsUnsure, Receipt
<1>3. ASSUME NEW m \in Sends, StartSend(m) PROVE db' = db
  BY <1>3 DEF StartSend
<1> QED BY <1>1, <1>2, <1>3, CreateTaskKeepsPromise, CompleteSetupKeepsPromise,
           SelectProfileKeepsPromise, NewConversationKeepsPromise, EventKeepsPromise
        DEF Next, vars, ReadCurrent, Restart

\* As clients see it, create_task, submit_event and send over five files act as
\* if tasks were kept in one place: a task appears whole or not at all, moves by
\* the events of its workflow, and a turn is saved once.
THEOREM PromiseIsKept == Spec => KeepsThePromise
<1>1. Init => Promise!Init
  <2> SUFFICES ASSUME Init PROVE Promise!Init
    OBVIOUS
  <2>1. ReadyTasks(db) = {}
    BY DEF Init, ReadyTasks, IsReady
  <2>2. TaskView = [t \in {} |-> TaskOf(db, t)]
    BY <2>1, ViewNow DEF View
  <2> QED BY <2>2 DEF Promise!Init
<1> QED BY <1>1, InvariantHolds, StepKeepsPromise, PTL DEF Spec, KeepsThePromise, Promise!Spec

-----------------------------------------------------------------------------
(* What that says of a task over its life.                                 *)

Task == [policy : Architectures, state : State, turns : SUBSET Sends]

\* Each task that has appeared is in a valid state of the workflow.
TasksAreValid ==
  /\ DOMAIN TaskView \subseteq Tasks
  /\ TaskView \in [DOMAIN TaskView -> Task]
  /\ \A t \in DOMAIN TaskView : IsValid(TaskView[t].state)

\* A finished task never changes again: no event moves it and no turn is added.
FinishedIsFinal ==
  [][\A t \in DOMAIN TaskView : TaskView[t].state.node \in TerminalNodes =>
       t \in DOMAIN TaskView' /\ TaskView'[t] = TaskView[t]]_vars

\* Once there, a task stays, keeps its policy and its turns, and its revision
\* counts its events.
TasksOnlyGrow ==
  [][\A t \in DOMAIN TaskView :
       /\ t \in DOMAIN TaskView'
       /\ TaskView'[t].policy = TaskView[t].policy
       /\ TaskView[t].turns \subseteq TaskView'[t].turns
       /\ \/ TaskView'[t].state = TaskView[t].state
          \/ TaskView'[t].state.revision = TaskView[t].state.revision + 1]_vars

LEMMA TasksAreValidNow == IInv => TasksAreValid
<1> SUFFICES ASSUME IInv PROVE TasksAreValid
  OBVIOUS
<1>1. TaskView = [t \in ReadyTasks(db) |-> TaskOf(db, t)] /\ ReadyTasks(db) \subseteq Tasks
  BY ViewNow DEF View, ReadyTasks
<1>2. ASSUME NEW t \in ReadyTasks(db)
      PROVE  TaskOf(db, t) \in Task /\ IsValid(TaskOf(db, t).state)
  <2>1. t \in Tasks /\ IsReady(db, t) /\ db \in Files /\ IsComplete(db, t)
    BY DEF ReadyTasks, IInv, FilesInv, TaskInv
  <2>2. /\ db.states[t] \in State /\ IsValid(db.states[t])
        /\ db.policies[t] \in Architectures
    BY <2>1, FieldTypes, RecordTypes DEF IsComplete, IsReady
  <2> QED BY <2>2 DEF TaskOf, Task, TurnsOf
<1> QED BY <1>1, <1>2 DEF TasksAreValid

\* Every task that current (playground_service.py) shows as ready is in a valid
\* state, whatever the workflow.
THEOREM TasksStayValid == Spec => []TasksAreValid
  BY InvariantHolds, TasksAreValidNow, PTL

\* Neither an event nor a late answer of send changes a finished task.
THEOREM FinishedTasksAreFinal == Spec => FinishedIsFinal
<1>1. ASSUME IInv, [Next]_vars
      PROVE  \A t \in DOMAIN TaskView : TaskView[t].state.node \in TerminalNodes =>
               t \in DOMAIN TaskView' /\ TaskView'[t] = TaskView[t]
  <2> SUFFICES ASSUME NEW t \in DOMAIN TaskView, TaskView[t].state.node \in TerminalNodes
      PROVE  t \in DOMAIN TaskView' /\ TaskView'[t] = TaskView[t]
    OBVIOUS
  <2>1. [Promise!Next]_TaskView
    BY <1>1, StepKeepsPromise
  <2>2. ASSUME NEW u \in Tasks, Promise!Appear(u)
        PROVE  t \in DOMAIN TaskView' /\ TaskView'[t] = TaskView[t]
    BY <2>2 DEF Promise!Appear
  <2>3. ASSUME NEW u \in Tasks, NEW event \in Events, Promise!Move(u, event)
        PROVE  t \in DOMAIN TaskView' /\ TaskView'[t] = TaskView[t]
    BY <2>3, SameMachine DEF Promise!Move, AllowedEvents
  <2>4. ASSUME NEW u \in Tasks, NEW m \in Sends, Promise!SaveTurn(u, m)
        PROVE  t \in DOMAIN TaskView' /\ TaskView'[t] = TaskView[t]
    BY <2>4 DEF Promise!SaveTurn
  <2> QED BY <2>1, <2>2, <2>3, <2>4, SameMachine DEF Promise!Next
<1> QED BY <1>1, InvariantHolds, PTL DEF Spec, FinishedIsFinal

\* A task never disappears, changes its policy, loses a turn or skips a revision.
THEOREM TasksGrow == Spec => TasksOnlyGrow
<1> DEFINE Grows ==
      \A t \in DOMAIN TaskView :
        /\ t \in DOMAIN TaskView'
        /\ TaskView'[t].policy = TaskView[t].policy
        /\ TaskView[t].turns \subseteq TaskView'[t].turns
        /\ \/ TaskView'[t].state = TaskView[t].state
           \/ TaskView'[t].state.revision = TaskView[t].state.revision + 1
<1>1. ASSUME IInv, [Next]_vars PROVE Grows
  <2>1. [Promise!Next]_TaskView /\ TasksAreValid
    BY <1>1, StepKeepsPromise, TasksAreValidNow
  <2> HIDE DEF TaskView
  <2>2. ASSUME NEW u \in Tasks, Promise!Appear(u) PROVE Grows
    BY <2>2 DEF Promise!Appear
  <2>3. ASSUME NEW u \in Tasks, NEW event \in Events, Promise!Move(u, event) PROVE Grows
    <3> DEFINE next == Resolved(TaskView[u].state, event)
    <3>1. /\ u \in DOMAIN TaskView /\ TaskView[u] \in Task /\ IsValid(TaskView[u].state)
          /\ event \in AllowedEvents(TaskView[u].state)
          /\ TaskView' = [TaskView EXCEPT ![u].state = next]
      BY <2>1, <2>3, SameMachine DEF Promise!Move, TasksAreValid
    <3>2. next.revision = TaskView[u].state.revision + 1
      BY <3>1, ResolvedIsValid DEF Task
    <3> HIDE DEF next
    <3>3. TaskView' = [TaskView EXCEPT ![u] = [TaskView[u] EXCEPT !.state = next]]
      BY <3>1
    <3>4. DOMAIN TaskView' = DOMAIN TaskView /\ TaskView'[u] = [TaskView[u] EXCEPT !.state = next]
          /\ \A t \in DOMAIN TaskView \ {u} : TaskView'[t] = TaskView[t]
      BY <3>1, <3>3
    <3>5. /\ TaskView'[u].policy = TaskView[u].policy /\ TaskView'[u].turns = TaskView[u].turns
          /\ TaskView'[u].state = next
      BY <3>1, <3>4 DEF Task
    <3> QED BY <3>2, <3>4, <3>5
  <2>4. ASSUME NEW u \in Tasks, NEW m \in Sends, Promise!SaveTurn(u, m) PROVE Grows
    <3>1. u \in DOMAIN TaskView /\ TaskView[u] \in Task
      BY <2>1, <2>4 DEF Promise!SaveTurn, TasksAreValid
    <3>2. TaskView' = [TaskView EXCEPT ![u] = [TaskView[u] EXCEPT !.turns = TaskView[u].turns \cup {m}]]
      BY <2>4, <3>1 DEF Promise!SaveTurn
    <3>3. DOMAIN TaskView' = DOMAIN TaskView
          /\ TaskView'[u] = [TaskView[u] EXCEPT !.turns = TaskView[u].turns \cup {m}]
          /\ \A t \in DOMAIN TaskView \ {u} : TaskView'[t] = TaskView[t]
      BY <3>1, <3>2
    <3>4. /\ TaskView'[u].policy = TaskView[u].policy /\ TaskView[u].turns \subseteq TaskView'[u].turns
          /\ TaskView'[u].state = TaskView[u].state
      BY <3>1, <3>3 DEF Task
    <3> QED BY <3>3, <3>4
  <2>5. CASE TaskView' = TaskView
    BY <2>5
  <2> QED BY <2>1, <2>2, <2>3, <2>4, <2>5, SameMachine DEF Promise!Next
<1> QED BY <1>1, InvariantHolds, PTL DEF Spec, TasksOnlyGrow
=============================================================================
