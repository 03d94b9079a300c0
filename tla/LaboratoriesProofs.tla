-------------------------- MODULE LaboratoriesProofs --------------------------
(***************************************************************************)
(* Theorems about the laboratories of the backend, one component after the *)
(* other; each is the specification of that component alone, for any       *)
(* sessions, permits, bounds and budgets.                                  *)
(***************************************************************************)
EXTENDS TokenLab, ContextStrategies, MemoryLabs, ModelExperiments, BenchmarkTasks, Composition,
        Orchestration, WatchClient, FiniteSetTheorems, SequenceTheorems, NaturalsInduction,
        WellFoundedInduction, TLAPS

-----------------------------------------------------------------------------
(* The token lab: permits and the table that holds them.                   *)

Kinds == {"free", "send", "prepare", "checking", "probing"}
Operation == [kind : Kinds, tries : Nat, permit : Permits \cup {NoPermit}]

\* The table is a finite function over permits that were handed out.
TableTyped ==
  /\ DOMAIN turns = LabSessions
  /\ op \in [LabSessions -> Operation]
  /\ attempts \in [Permits -> Nat]
  /\ granted \subseteq Permits
  /\ DOMAIN table \subseteq granted
  /\ IsFiniteSet(DOMAIN table)

\* A session that a handler holds is there.
HeldSessionsExist ==
  \A s \in LabSessions : op[s].kind # "free" => turns[s] \notin {NoRow, Gone}

\* What is in the table, or may still get there, is unused.
UnusedUntilSpent ==
  /\ \A p \in Permits : attempts[p] <= 1
  /\ \A p \in Permits : p \in DOMAIN table \/ p \notin granted => attempts[p] = 0

\* A permit that is being checked stays in the table as it was found, until it
\* expires: nobody but its own session takes it out, and that one is busy.
CheckedPermitsStay ==
  \A s \in LabSessions : op[s].kind = "checking" =>
    /\ op[s].permit \in granted
    /\ op[s].permit \notin expired => op[s].permit \in DOMAIN table
    /\ op[s].permit \in DOMAIN table =>
         table[op[s].permit].session = s /\ table[op[s].permit].counted = turns[s]

TokenLabInv ==
  TableTyped /\ TableIsBounded /\ HeldSessionsExist /\ UnusedUntilSpent /\ CheckedPermitsStay

LEMMA WithoutIsPart ==
  ASSUME NEW t, NEW P
  PROVE  /\ DOMAIN Without(t, P) = DOMAIN t \ P
         /\ \A p \in DOMAIN t \ P : Without(t, P)[p] = t[p]
  BY DEF Without

\* The new table is a part of the old one.
PartOfTable(t) ==
  /\ DOMAIN t \subseteq DOMAIN table
  /\ \A p \in DOMAIN t : t[p] = table[p]

LEMMA SmallerTable ==
  ASSUME TableTyped, TableIsBounded, NEW t, PartOfTable(t)
  PROVE  IsFiniteSet(DOMAIN t) /\ Cardinality(DOMAIN t) <= TableCapacity
<1>1. /\ IsFiniteSet(DOMAIN t) /\ Cardinality(DOMAIN t) <= Cardinality(DOMAIN table)
      /\ Cardinality(DOMAIN t) \in Nat /\ Cardinality(DOMAIN table) \in Nat
  BY FS_Subset, FS_CardinalityType DEF TableTyped, PartOfTable
<1> QED BY <1>1, TokenLabAssumption DEF TableIsBounded

\* A step that takes permits out of the table and lets go of a session, or
\* claims one for something that needs no permit.
LEMMA TableShrinks ==
  ASSUME TokenLabInv, NEW s \in LabSessions, NEW o \in Operation, o.kind # "checking",
         op' = [op EXCEPT ![s] = o], PartOfTable(table'),
         o.kind # "free" => turns'[s] \notin {NoRow, Gone},
         DOMAIN turns' = LabSessions, \A r \in LabSessions \ {s} : turns'[r] = turns[r],
         \A p \in DOMAIN table \ DOMAIN table' : p \in expired \/ table[p].session = s,
         UNCHANGED <<expired, granted, attempts>>
  PROVE  TokenLabInv'
<1>0. IsFiniteSet(DOMAIN table') /\ Cardinality(DOMAIN table') <= TableCapacity
  BY SmallerTable DEF TokenLabInv
<1>1. TableTyped' /\ TableIsBounded'
  <2>1. op \in [LabSessions -> Operation] /\ attempts \in [Permits -> Nat] /\ granted \subseteq Permits
        /\ DOMAIN table \subseteq granted
    BY DEF TokenLabInv, TableTyped
  <2>2. op' \in [LabSessions -> Operation]
    BY <2>1
  <2>3. DOMAIN table' \subseteq granted'
    BY <2>1 DEF PartOfTable
  <2> QED BY <1>0, <2>1, <2>2, <2>3 DEF TableTyped, TableIsBounded
<1>2. HeldSessionsExist'
  BY DEF TokenLabInv, TableTyped, HeldSessionsExist
<1>3. UnusedUntilSpent'
  BY DEF TokenLabInv, UnusedUntilSpent, PartOfTable
<1>4. CheckedPermitsStay'
  BY DEF TokenLabInv, TableTyped, CheckedPermitsStay, PartOfTable
<1> QED BY <1>1, <1>2, <1>3, <1>4 DEF TokenLabInv

LEMMA FreeIsOperation == Free \in Operation /\ Free.kind = "free"
  BY DEF Free, Operation, Kinds

LEMMA PartOfPart ==
  ASSUME NEW t, NEW P, PartOfTable(t)
  PROVE  PartOfTable(Without(t, P)) /\ DOMAIN Without(t, P) = DOMAIN t \ P
<1>1. DOMAIN Without(t, P) = DOMAIN t \ P /\ \A p \in DOMAIN t \ P : Without(t, P)[p] = t[p]
  BY WithoutIsPart
<1> QED BY <1>1 DEF PartOfTable

LEMMA TablePart ==
  ASSUME TokenLabInv
  PROVE  /\ PartOfTable(table) /\ PartOfTable(CleanedUp)
         /\ DOMAIN CleanedUp = DOMAIN table \ expired
         /\ \A p \in DOMAIN table \ DOMAIN CleanedUp : p \in expired
<1>1. PartOfTable(table)
  BY DEF TokenLabInv, TableTyped, PartOfTable
<1>2. PartOfTable(CleanedUp) /\ DOMAIN CleanedUp = DOMAIN table \ expired
  BY <1>1, PartOfPart DEF CleanedUp
<1> QED BY <1>1, <1>2

LEMMA InvalidatedPart ==
  ASSUME NEW t, PartOfTable(t), NEW s \in LabSessions
  PROVE  /\ PartOfTable(Invalidated(t, s))
         /\ \A p \in DOMAIN t \ DOMAIN Invalidated(t, s) : table[p].session = s
<1> DEFINE own == {p \in DOMAIN t : t[p].session = s}
<1>1. PartOfTable(Without(t, own)) /\ DOMAIN Without(t, own) = DOMAIN t \ own
  <2> HIDE DEF own
  <2> QED BY PartOfPart
<1>2. \A p \in own : table[p].session = s
  BY DEF PartOfTable
<1> QED BY <1>1, <1>2 DEF Invalidated

LEMMA TokenLabInitInv == TokenLabInit => TokenLabInv
<1> SUFFICES ASSUME TokenLabInit PROVE TokenLabInv
  OBVIOUS
<1>1. DOMAIN table = {}
  BY DEF TokenLabInit
<1>2. IsFiniteSet(DOMAIN table) /\ Cardinality(DOMAIN table) = 0
  BY <1>1, FS_EmptySet
<1> QED BY <1>1, <1>2, FreeIsOperation, TokenLabAssumption
        DEF TokenLabInit, TokenLabInv, TableTyped, TableIsBounded, HeldSessionsExist,
            UnusedUntilSpent, CheckedPermitsStay, Free

\* Handlers that take nothing but void permits out of the table.
LEMMA SessionSteps ==
  ASSUME TokenLabInv, NEW s \in LabSessions,
         \/ DeleteLabSession(s) \/ BeginSend(s) \/ EndSend(s) \/ BeginPrepare(s)
         \/ NextCandidate(s) \/ PrepareFails(s) \/ ExecuteTooLate(s) \/ EndProbe(s)
  PROVE  TokenLabInv'
<1>0. /\ op \in [LabSessions -> Operation] /\ op[s] \in Operation /\ DOMAIN turns = LabSessions
      /\ op = [op EXCEPT ![s] = op[s]]
      /\ op[s].kind # "free" => turns[s] \notin {NoRow, Gone}
  BY DEF TokenLabInv, TableTyped, HeldSessionsExist
<1>p. PartOfTable(table) /\ PartOfTable(CleanedUp) /\ \A p \in DOMAIN table \ DOMAIN CleanedUp : p \in expired
  BY TablePart
<1>1. CASE DeleteLabSession(s)
  <2>1. /\ op' = [op EXCEPT ![s] = op[s]] /\ op[s].kind = "free" /\ table' = Invalidated(table, s)
        /\ turns' = [turns EXCEPT ![s] = Gone] /\ UNCHANGED <<expired, granted, attempts>>
    BY <1>0, <1>1 DEF DeleteLabSession, Available
  <2>2. PartOfTable(table') /\ \A p \in DOMAIN table \ DOMAIN table' : table[p].session = s
    BY <1>p, <2>1, InvalidatedPart
  <2>3. DOMAIN turns' = LabSessions /\ \A r \in LabSessions \ {s} : turns'[r] = turns[r]
    BY <1>0, <2>1
  <2> QED BY <1>0, <2>1, <2>2, <2>3, TableShrinks
<1>2. CASE BeginSend(s)
  <2> DEFINE o == [op[s] EXCEPT !.kind = "send"]
  <2>1. o \in Operation /\ o.kind = "send" /\ turns[s] \notin {NoRow, Gone}
    BY <1>0, <1>2 DEF BeginSend, Available, Operation, Kinds
  <2>2. op' = [op EXCEPT ![s] = o] /\ UNCHANGED <<turns, table, expired, granted, attempts>>
    BY <1>2 DEF BeginSend
  <2> QED BY <1>0, <1>p, <2>1, <2>2, TableShrinks
<1>3. CASE EndSend(s)
  <2>1. /\ op' = [op EXCEPT ![s] = Free] /\ UNCHANGED <<expired, granted, attempts>>
        /\ \/ turns' = [turns EXCEPT ![s] = @ + 1] /\ table' = Invalidated(table, s)
           \/ UNCHANGED <<turns, table>>
    BY <1>3 DEF EndSend
  <2>2. PartOfTable(table') /\ \A p \in DOMAIN table \ DOMAIN table' : table[p].session = s
    BY <1>p, <2>1, InvalidatedPart
  <2>3. DOMAIN turns' = LabSessions /\ \A r \in LabSessions \ {s} : turns'[r] = turns[r]
    BY <1>0, <2>1
  <2> QED BY <1>0, <2>1, <2>2, <2>3, TableShrinks, FreeIsOperation
<1>4. CASE BeginPrepare(s)
  <2> DEFINE started == [kind |-> "prepare", tries |-> 1, permit |-> NoPermit]
  <2>1. /\ turns[s] \notin {NoRow, Gone} /\ op[s].kind = "free"
        /\ table' = Invalidated(CleanedUp, s) /\ UNCHANGED <<turns, expired, granted, attempts>>
        /\ op' = op \/ op' = [op EXCEPT ![s] = started]
    BY <1>4 DEF BeginPrepare, Available
  <2>2. /\ PartOfTable(table')
        /\ \A p \in DOMAIN CleanedUp \ DOMAIN table' : table[p].session = s
    BY <1>p, <2>1, InvalidatedPart
  <2>3. \A p \in DOMAIN table \ DOMAIN table' : p \in expired \/ table[p].session = s
    BY <1>p, <2>2
  <2>4. started \in Operation /\ started.kind = "prepare"
    BY DEF Operation, Kinds
  <2> HIDE DEF started
  <2>5. CASE op' = [op EXCEPT ![s] = started]
    BY <1>0, <2>1, <2>2, <2>3, <2>4, <2>5, TableShrinks
  <2>6. CASE op' = op
    <3>1. op' = [op EXCEPT ![s] = op[s]]
      BY <1>0, <2>6
    <3> QED BY <1>0, <2>1, <2>2, <2>3, <3>1, TableShrinks
  <2> QED BY <2>1, <2>5, <2>6
<1>5. CASE NextCandidate(s)
  <2> DEFINE o == [op[s] EXCEPT !.tries = op[s].tries + 1]
  <2>1. o \in Operation /\ o.kind = "prepare" /\ turns[s] \notin {NoRow, Gone}
    BY <1>0, <1>5 DEF NextCandidate, Operation, Kinds
  <2>2. op' = [op EXCEPT ![s] = o] /\ UNCHANGED <<turns, table, expired, granted, attempts>>
    BY <1>5 DEF NextCandidate
  <2> QED BY <1>0, <1>p, <2>1, <2>2, TableShrinks
<1>6. CASE PrepareFails(s)
  <2>1. /\ op' = [op EXCEPT ![s] = Free] /\ UNCHANGED <<turns, expired, granted, attempts>>
        /\ table' = CleanedUp \/ table' = table
    BY <1>6 DEF PrepareFails
  <2> QED BY <1>0, <1>p, <2>1, TableShrinks, FreeIsOperation
<1>7. CASE ExecuteTooLate(s)
  <2>1. /\ op' = [op EXCEPT ![s] = Free] /\ UNCHANGED <<turns, expired, granted, attempts>>
        /\ table' = Without(table, {op[s].permit}) /\ op[s].permit \in expired
    BY <1>7 DEF ExecuteTooLate
  <2>2. PartOfTable(table') /\ DOMAIN table' = DOMAIN table \ {op[s].permit}
    BY <1>p, <2>1, PartOfPart
  <2> QED BY <1>0, <2>1, <2>2, TableShrinks, FreeIsOperation
<1>8. CASE EndProbe(s)
  BY <1>0, <1>p, <1>8, TableShrinks, FreeIsOperation DEF EndProbe
<1> QED BY <1>1, <1>2, <1>3, <1>4, <1>5, <1>6, <1>7, <1>8

LEMMA CreateLabStep ==
  ASSUME TokenLabInv, NEW s \in LabSessions, CreateLabSession(s)
  PROVE  TokenLabInv'
<1>1. op[s].kind = "free"
  BY DEF TokenLabInv, HeldSessionsExist, CreateLabSession
<1> QED BY <1>1 DEF TokenLabInv, TableTyped, TableIsBounded, HeldSessionsExist, UnusedUntilSpent,
                    CheckedPermitsStay, CreateLabSession

\* A permit enters the table: there is room, it is new, and nobody checks it.
LEMMA GrantStep ==
  ASSUME TokenLabInv, NEW s \in LabSessions, NEW p \in Permits, Grant(s, p)
  PROVE  TokenLabInv'
<1>0. TableTyped /\ TableIsBounded /\ HeldSessionsExist /\ UnusedUntilSpent /\ CheckedPermitsStay
  BY DEF TokenLabInv
<1>1. /\ PartOfTable(CleanedUp) /\ DOMAIN CleanedUp = DOMAIN table \ expired
      /\ IsFiniteSet(DOMAIN CleanedUp) /\ Cardinality(DOMAIN CleanedUp) \in Nat
  BY <1>0, TablePart, SmallerTable, FS_CardinalityType
<1>2. /\ p \notin granted /\ granted' = granted \cup {p} /\ op' = [op EXCEPT ![s] = Free]
      /\ UNCHANGED <<turns, expired, attempts>>
      /\ Cardinality(DOMAIN CleanedUp) < TableCapacity
      /\ table' = [q \in DOMAIN CleanedUp \cup {p} |->
                     IF q = p THEN [session |-> s, counted |-> turns[s]] ELSE table[q]]
  BY DEF Grant
<1>3. /\ DOMAIN table' = DOMAIN CleanedUp \cup {p} /\ p \notin DOMAIN CleanedUp
      /\ \A q \in DOMAIN CleanedUp : table'[q] = table[q]
  BY <1>0, <1>1, <1>2 DEF TableTyped, PartOfTable
<1>4. IsFiniteSet(DOMAIN table') /\ Cardinality(DOMAIN table') = Cardinality(DOMAIN CleanedUp) + 1
  <2> DEFINE kept == DOMAIN CleanedUp
  <2>1. IsFiniteSet(kept) /\ p \notin kept
    BY <1>1, <1>3
  <2>2. DOMAIN table' = kept \cup {p}
    BY <1>3
  <2>3. IsFiniteSet(kept \cup {p}) /\ Cardinality(kept \cup {p}) = Cardinality(kept) + 1
    <3> HIDE DEF kept
    <3> QED BY <2>1, FS_AddElement
  <2> QED BY <2>2, <2>3
<1>5. TableTyped'
  BY <1>0, <1>1, <1>2, <1>3, <1>4, FreeIsOperation DEF TableTyped, PartOfTable
<1>6. TableIsBounded'
  BY <1>1, <1>2, <1>4, TokenLabAssumption DEF TableIsBounded
<1>7. HeldSessionsExist'
  BY <1>0, <1>2, FreeIsOperation DEF TableTyped, HeldSessionsExist
<1>8. UnusedUntilSpent'
  BY <1>0, <1>1, <1>2, <1>3 DEF UnusedUntilSpent
<1>9. CheckedPermitsStay'
  <2> SUFFICES ASSUME NEW r \in LabSessions, op'[r].kind = "checking"
      PROVE  /\ op'[r].permit \in granted'
             /\ op'[r].permit \notin expired' => op'[r].permit \in DOMAIN table'
             /\ op'[r].permit \in DOMAIN table' =>
                  table'[op'[r].permit].session = r /\ table'[op'[r].permit].counted = turns'[r]
    BY DEF CheckedPermitsStay
  <2>1. r # s /\ op'[r] = op[r] /\ op[r].permit \in granted /\ op[r].permit # p
    BY <1>0, <1>2, FreeIsOperation DEF TableTyped, CheckedPermitsStay
  <2> QED BY <1>0, <1>1, <1>2, <1>3, <2>1 DEF CheckedPermitsStay
<1> QED BY <1>5, <1>6, <1>7, <1>8, <1>9 DEF TokenLabInv

LEMMA ExecuteStep ==
  ASSUME TokenLabInv, NEW s \in LabSessions, NEW p \in Permits, BeginExecute(s, p)
  PROVE  TokenLabInv'
<1>0. /\ TableTyped /\ TableIsBounded /\ HeldSessionsExist /\ UnusedUntilSpent /\ CheckedPermitsStay
      /\ op[s] \in Operation /\ op = [op EXCEPT ![s] = op[s]] /\ DOMAIN turns = LabSessions
  BY DEF TokenLabInv, TableTyped
<1>1. /\ PartOfTable(CleanedUp) /\ DOMAIN CleanedUp = DOMAIN table \ expired
      /\ \A q \in DOMAIN table \ DOMAIN CleanedUp : q \in expired
  BY TablePart
<1>2. /\ op[s].kind = "free" /\ turns[s] \notin {NoRow, Gone} /\ p \in granted
      /\ UNCHANGED <<turns, expired, granted, attempts>>
  BY DEF BeginExecute, Available
<1>3. CASE p \notin DOMAIN CleanedUp \/ CleanedUp[p].session # s
  <2>1. table' = CleanedUp /\ op' = [op EXCEPT ![s] = op[s]]
    BY <1>0, <1>3 DEF BeginExecute
  <2> QED BY <1>0, <1>1, <1>2, <2>1, TableShrinks
<1>4. CASE p \in DOMAIN CleanedUp /\ CleanedUp[p].session = s /\ CleanedUp[p].counted # turns[s]
  <2>1. table' = Without(CleanedUp, {p}) /\ op' = [op EXCEPT ![s] = op[s]]
    BY <1>0, <1>4 DEF BeginExecute
  <2>2. PartOfTable(table') /\ DOMAIN table' = DOMAIN CleanedUp \ {p} /\ table[p].session = s
    <3>1. PartOfTable(Without(CleanedUp, {p})) /\ DOMAIN Without(CleanedUp, {p}) = DOMAIN CleanedUp \ {p}
      BY <1>1, PartOfPart
    <3>2. table[p] = CleanedUp[p]
      BY <1>1, <1>4 DEF PartOfTable
    <3> QED BY <1>4, <2>1, <3>1, <3>2
  <2>3. \A q \in DOMAIN table \ DOMAIN table' : q \in expired \/ table[q].session = s
    BY <1>1, <2>2
  <2> QED BY <1>0, <1>2, <2>1, <2>2, <2>3, TableShrinks
<1>5. CASE p \in DOMAIN CleanedUp /\ CleanedUp[p].session = s /\ CleanedUp[p].counted = turns[s]
  <2> DEFINE o == [kind |-> "checking", tries |-> 0, permit |-> p]
  <2>1. table' = CleanedUp /\ op' = [op EXCEPT ![s] = o]
    BY <1>5 DEF BeginExecute
  <2>2. o \in Operation /\ o.kind = "checking" /\ o.permit = p
    BY DEF Operation, Kinds
  <2> HIDE DEF o
  <2>3. TableTyped' /\ TableIsBounded'
    BY <1>0, <1>1, <1>2, <2>1, <2>2, SmallerTable DEF TableTyped, TableIsBounded, PartOfTable
  <2>4. HeldSessionsExist'
    BY <1>0, <1>2, <2>1 DEF TableTyped, HeldSessionsExist
  <2>5. UnusedUntilSpent'
    BY <1>0, <1>1, <1>2, <2>1 DEF UnusedUntilSpent, PartOfTable
  <2>6. CheckedPermitsStay'
    BY <1>0, <1>1, <1>2, <1>5, <2>1, <2>2 DEF TableTyped, CheckedPermitsStay, PartOfTable
  <2> QED BY <2>3, <2>4, <2>5, <2>6 DEF TokenLabInv
<1> QED BY <1>3, <1>4, <1>5

\* The permit leaves the table in the step that spends it.
LEMMA AttemptStep ==
  ASSUME TokenLabInv, NEW s \in LabSessions, Attempt(s)
  PROVE  TokenLabInv'
<1> DEFINE p == op[s].permit
           o == [op[s] EXCEPT !.kind = "probing"]
<1>0. /\ TableTyped /\ TableIsBounded /\ HeldSessionsExist /\ UnusedUntilSpent /\ CheckedPermitsStay
  BY DEF TokenLabInv
<1>1. /\ op[s].kind = "checking" /\ p \in DOMAIN table /\ p \in granted /\ p \in Permits
      /\ table[p].session = s /\ attempts[p] = 0 /\ turns[s] \notin {NoRow, Gone}
  BY <1>0 DEF Attempt, CheckedPermitsStay, TableTyped, UnusedUntilSpent, HeldSessionsExist
<1>2. /\ table' = Without(table, {p}) /\ op' = [op EXCEPT ![s] = o]
      /\ attempts' = [attempts EXCEPT ![p] = @ + 1] /\ UNCHANGED <<turns, expired, granted>>
  BY DEF Attempt
<1>3. o \in Operation /\ o.kind = "probing"
  BY <1>0 DEF TableTyped, Operation, Kinds
<1>4. PartOfTable(table') /\ DOMAIN table' = DOMAIN table \ {p}
  BY <1>2, TablePart, PartOfPart
<1> HIDE DEF p, o
<1>9. IsFiniteSet(DOMAIN table') /\ Cardinality(DOMAIN table') <= TableCapacity
  BY <1>0, <1>4, SmallerTable
<1>5. TableTyped' /\ TableIsBounded'
  BY <1>0, <1>1, <1>2, <1>3, <1>4, <1>9 DEF TableTyped, TableIsBounded, PartOfTable
<1>6. HeldSessionsExist'
  BY <1>0, <1>1, <1>2 DEF TableTyped, HeldSessionsExist
<1>7. UnusedUntilSpent'
  BY <1>0, <1>1, <1>2, <1>4 DEF TableTyped, UnusedUntilSpent
<1>8. CheckedPermitsStay'
  <2> SUFFICES ASSUME NEW r \in LabSessions, op'[r].kind = "checking"
      PROVE  /\ op'[r].permit \in granted'
             /\ op'[r].permit \notin expired' => op'[r].permit \in DOMAIN table'
             /\ op'[r].permit \in DOMAIN table' =>
                  table'[op'[r].permit].session = r /\ table'[op'[r].permit].counted = turns'[r]
    BY DEF CheckedPermitsStay
  <2>1. r # s /\ op'[r] = op[r]
    BY <1>0, <1>2, <1>3 DEF TableTyped
  <2>2. op[r].permit # p
    BY <1>0, <1>1, <2>1 DEF CheckedPermitsStay
  <2>3. op[r].kind = "checking"
    BY <2>1
  <2>4. op[r].permit \in granted' /\ (op[r].permit \notin expired' => op[r].permit \in DOMAIN table')
    BY <1>0, <1>2, <1>4, <2>2, <2>3 DEF CheckedPermitsStay
  <2>5. ASSUME op[r].permit \in DOMAIN table'
        PROVE  table'[op[r].permit].session = r /\ table'[op[r].permit].counted = turns'[r]
    <3>1. op[r].permit \in DOMAIN table /\ table'[op[r].permit] = table[op[r].permit] /\ turns' = turns
      BY <1>2, <1>4, <2>5 DEF PartOfTable
    <3> QED BY <1>0, <2>3, <3>1 DEF CheckedPermitsStay
  <2> QED BY <2>1, <2>4, <2>5
<1> QED BY <1>5, <1>6, <1>7, <1>8 DEF TokenLabInv

LEMMA ExpiryAndRestart ==
  ASSUME TokenLabInv, (\E p \in Permits : Expires(p)) \/ RestartTokenLab \/ UNCHANGED labVars
  PROVE  TokenLabInv'
<1>0. /\ TableTyped /\ TableIsBounded /\ HeldSessionsExist /\ UnusedUntilSpent /\ CheckedPermitsStay
  BY DEF TokenLabInv
<1>1. CASE (\E p \in Permits : Expires(p)) \/ UNCHANGED labVars
  BY <1>0, <1>1 DEF TokenLabInv, TableTyped, TableIsBounded, HeldSessionsExist, UnusedUntilSpent,
                    CheckedPermitsStay, Expires, labVars
<1>2. CASE RestartTokenLab
  <2>1. DOMAIN table' = {}
    BY <1>2 DEF RestartTokenLab
  <2>2. IsFiniteSet(DOMAIN table') /\ Cardinality(DOMAIN table') = 0
    BY <2>1, FS_EmptySet
  <2> QED BY <1>0, <1>2, <2>1, <2>2, FreeIsOperation, TokenLabAssumption
          DEF RestartTokenLab, TokenLabInv, TableTyped, TableIsBounded, HeldSessionsExist,
              UnusedUntilSpent, CheckedPermitsStay
<1> QED BY <1>1, <1>2

LEMMA TokenLabInvariance == TokenLabSpec => []TokenLabInv
<1>1. TokenLabInv /\ [TokenLabNext]_labVars => TokenLabInv'
  BY SessionSteps, CreateLabStep, GrantStep, ExecuteStep, AttemptStep, ExpiryAndRestart
     DEF TokenLabNext
<1> QED BY <1>1, TokenLabInitInv, PTL DEF TokenLabSpec

\* However many sessions prepare and execute at the same time, the table keeps
\* its bound, a permit is good for one generation, and that one sees the history
\* that was counted (OverflowPreparations, prepare, execute).
THEOREM PreparationsStaySound == TokenLabSpec => []PreparationsAreSound
<1>1. TokenLabInv => PreparationsAreSound
  BY DEF TokenLabInv, UnusedUntilSpent, CheckedPermitsStay, PreparationsAreSound, PermitIsSpentOnce
<1> QED BY <1>1, TokenLabInvariance, PTL

-----------------------------------------------------------------------------
(* The memory labs: one memory file and the services over it.              *)

Chats == [task : Nat, turns : Seq(Nat)]
Receipts == {"running", "committed", "not committed", "error", "failed", "unknown", "lost"}

\* The memory file and its runtime objects; a conversation that is not there has none.
MemoryTyped ==
  /\ memory = [ready |-> memory.ready, task |-> memory.task, chat |-> memory.chat,
               revision |-> memory.revision, working |-> memory.working, long |-> memory.long]
  /\ memory.working \in Seq(SUBSET Keys)
  /\ chats \in Seq(Chats) /\ Len(chats) <= MaxChats
  /\ DOMAIN cache = 1..MaxChats
  /\ \A c \in 1..MaxChats : c \notin DOMAIN chats => cache[c] = NotLoaded
  /\ ~memory.ready => chats = << >> /\ memory.chat = 0

StatesTyped == states \in [1..MaxTasks -> {NoState} \cup TaskStates]

\* In the policies lab a runtime object misses nothing, but while it recovers.
RuntimeFits ==
  lab = "policies" /\ ~recovery =>
     \A c \in DOMAIN chats : cache[c] # NotLoaded => cache[c] = chats[c].turns

\* The send that is awaited is the last one, and its conversation is loaded.
SendKnows ==
  /\ receipts \in Seq(Receipts) /\ sends = Len(receipts)
  /\ holder.kind = "send" =>
       /\ memory.ready /\ sends > 0 /\ receipts[sends] = "running"
       /\ cache[memory.chat] = chats[memory.chat].turns

ReceiptIsTrue(n) ==
  /\ receipts[n] = "committed" => SavedSomewhere(n)
  /\ receipts[n] \in {"not committed", "failed", "running"} => ~SavedSomewhere(n)
  /\ receipts[n] = "error" /\ SavedSomewhere(n) => n \in doubts

ReceiptsAreTrue ==
  /\ \A n \in DOMAIN receipts : ReceiptIsTrue(n)
  /\ \A n : SavedSomewhere(n) => n \in 1..sends

IsFair(a) ==
  /\ a.snapshot = frozen.snapshot
  /\ a.profile.revision = frozen.pair[a.profile.profile]

ProbeIsFair == holder.kind = "probe" => IsFair(holder.sources)

SourcesHold == holder # Nobody => holder.sources = LabSources

LabInv ==
  /\ MemoryTyped /\ BindingIsSound /\ StatesTyped /\ RuntimeFits /\ SendKnows /\ ReceiptsAreTrue
  /\ ProbeIsFair /\ ComparisonIsFair /\ SourcesHold

-----------------------------------------------------------------------------
LEMMA ElementReplaced ==
  ASSUME NEW T, NEW q \in Seq(T), NEW i, NEW e \in T
  PROVE  /\ [q EXCEPT ![i] = e] \in Seq(T) /\ DOMAIN [q EXCEPT ![i] = e] = DOMAIN q
         /\ Len([q EXCEPT ![i] = e]) = Len(q)
<1> DEFINE r == [q EXCEPT ![i] = e]
<1>1. Len(q) \in Nat /\ q \in [1..Len(q) -> T]
  OBVIOUS
<1>2. r \in [1..Len(q) -> T]
  BY <1>1
<1> HIDE DEF r
<1>3. r \in Seq(T) /\ Len(r) = Len(q) /\ DOMAIN r = 1..Len(q)
  BY <1>1, <1>2
<1> QED BY <1>1, <1>3 DEF r

LEMMA ElementAdded ==
  ASSUME NEW T, NEW q \in Seq(T), NEW e \in T
  PROVE  /\ Append(q, e) \in Seq(T) /\ Len(Append(q, e)) = Len(q) + 1 /\ Len(q) \in Nat
         /\ DOMAIN q = 1..Len(q) /\ DOMAIN Append(q, e) = 1..(Len(q) + 1)
         /\ \A i \in 1..Len(q) : Append(q, e)[i] = q[i]
         /\ Append(q, e)[Len(q) + 1] = e
  OBVIOUS

LEMMA NobodySends == Nobody.kind = "none"
  BY DEF Nobody

\* Making a state leaves every other state, and one that is there.
LEMMA StateIsMadeOnce ==
  ASSUME StatesTyped, NEW t, StateCreated(t) \/ UNCHANGED states
  PROVE  StatesTyped' /\ StateNeverReset
<1>1. InitialState \in TaskStates
  BY DEF InitialState, TaskStates
<1>2. CASE StateCreated(t)
  <2>1. states' \in [1..MaxTasks -> {NoState} \cup TaskStates]
    BY <1>1, <1>2 DEF StatesTyped, StateCreated
  <2>2. \A u \in 1..MaxTasks : states[u] # NoState => states'[u] = states[u]
    BY <1>2 DEF StatesTyped, StateCreated
  <2>3. \A u \in 1..MaxTasks : states[u] # NoState => states[u].revision \in Nat
    BY DEF StatesTyped, TaskStates
  <2> QED BY <2>1, <2>2, <2>3 DEF StatesTyped, StateNeverReset
<1>3. CASE UNCHANGED states
  <2>1. \A u \in 1..MaxTasks : states[u] # NoState => states[u].revision \in Nat
    BY DEF StatesTyped, TaskStates
  <2> QED BY <1>3, <2>1 DEF StatesTyped, StateNeverReset
<1> QED BY <1>2, <1>3

LEMMA EventAdvances ==
  ASSUME StatesTyped, states[memory.task] # NoState, EventApplied
  PROVE  StatesTyped' /\ StateNeverReset
<1>1. PICK b \in BOOLEAN :
        states' = [states EXCEPT ![memory.task] = [revision |-> @.revision + 1, implementing |-> b]]
  BY DEF EventApplied
<1>2. \A u \in 1..MaxTasks : states[u] # NoState => states[u] \in TaskStates /\ states[u].revision \in Nat
  BY DEF StatesTyped, TaskStates
<1>3. \A u \in 1..MaxTasks : u = memory.task =>
        /\ states'[u] = [revision |-> states[u].revision + 1, implementing |-> b]
        /\ states'[u] \in TaskStates /\ states'[u].revision = states[u].revision + 1
  BY <1>1, <1>2 DEF StatesTyped, TaskStates
<1>4. \A u \in 1..MaxTasks : u # memory.task => states'[u] = states[u]
  BY <1>1 DEF StatesTyped
<1>5. \A u \in 1..MaxTasks : states'[u] \in {NoState} \cup TaskStates
  BY <1>3, <1>4 DEF StatesTyped
<1>6. states' \in [1..MaxTasks -> {NoState} \cup TaskStates]
  BY <1>1, <1>5 DEF StatesTyped
<1>7. StateNeverReset
  <2> SUFFICES ASSUME NEW u \in 1..MaxTasks, states[u] # NoState
               PROVE  states'[u] # NoState /\ states'[u].revision >= states[u].revision
    BY DEF StateNeverReset
  <2>1. states[u].revision \in Nat
    BY <1>2
  <2>2. CASE u = memory.task
    <3>1. states'[u] \in TaskStates /\ states'[u].revision = states[u].revision + 1
      BY <1>3, <2>2
    <3> QED BY <2>1, <3>1, MemoryLabsAssumption
  <2>3. CASE u # memory.task
    BY <1>4, <2>1, <2>3
  <2> QED BY <2>2, <2>3
<1> QED BY <1>6, <1>7 DEF StatesTyped

\* What stays true as long as memory, conversations and receipts do not change.
LEMMA MemoryStays ==
  ASSUME LabInv, UNCHANGED <<lab, memory, chats, sends, receipts, doubts, recovery>>,
         cache' = cache, holder'.kind = "send" => holder' = holder
  PROVE  MemoryTyped' /\ BindingIsSound' /\ RuntimeFits' /\ SendKnows' /\ ReceiptsAreTrue'
<1>1. \A n : SavedSomewhere(n)' <=> SavedSomewhere(n)
  BY DEF SavedSomewhere
<1> QED BY <1>1 DEF LabInv, MemoryTyped, BindingIsSound, RuntimeFits, SendKnows, ReceiptsAreTrue, ReceiptIsTrue

LEMMA SourcesStay ==
  ASSUME UNCHANGED <<memory, chats, besideMemory>>
  PROVE  LabSources' = LabSources /\ Snapshot' = Snapshot
  BY DEF besideMemory, LabSources, Snapshot, Profile

\* Profiles, bindings and states change only when nobody generates.
LEMMA FilesBesideKeep ==
  ASSUME LabInv,
         \/ InitializeState \/ ApplyEvent \/ PolicyEvent
         \/ \E p \in ProfileIds : CreateProfile(p) \/ EditProfile(p) \/ SelectProfile(p)
  PROVE  LabInv' /\ StateNeverReset
<1>0. holder = Nobody
  BY DEF InitializeState, ApplyEvent, PolicyEvent, CreateProfile, EditProfile, SelectProfile, Claim
<1>1. UNCHANGED <<lab, memoryVars, holder, turnVars, comparisonVars>>
  BY DEF InitializeState, ApplyEvent, PolicyEvent, CreateProfile, EditProfile, SelectProfile, EventApplied
<1>2. StatesTyped' /\ StateNeverReset
  <2>1. CASE InitializeState \/ UNCHANGED states
    BY <2>1, StateIsMadeOnce DEF LabInv, InitializeState
  <2>2. CASE ApplyEvent \/ PolicyEvent
    BY <2>2, EventAdvances DEF LabInv, ApplyEvent, PolicyEvent, TaskSourcesResolved
  <2> QED BY <2>1, <2>2 DEF CreateProfile, EditProfile, SelectProfile
<1>3. MemoryTyped' /\ BindingIsSound' /\ RuntimeFits' /\ SendKnows' /\ ReceiptsAreTrue'
  BY <1>1, MemoryStays DEF memoryVars, turnVars
<1>4. ProbeIsFair' /\ ComparisonIsFair' /\ SourcesHold'
  BY <1>0, <1>1, NobodySends DEF LabInv, ProbeIsFair, ComparisonIsFair, IsFair, SourcesHold, comparisonVars
<1> QED BY <1>2, <1>3, <1>4 DEF LabInv

\* Comparisons and observations keep what they read.
LEMMA ObservationKeeps ==
  ASSUME LabInv, Freeze \/ BeginProbe \/ VerifyLayers \/ ProbeTask \/ EndObservation
  PROVE  LabInv' /\ StateNeverReset
<1>1. UNCHANGED <<lab, memoryVars, besideMemory, turnVars>>
  BY DEF Freeze, BeginProbe, VerifyLayers, ProbeTask, Observes, EndObservation
<1>2. StatesTyped' /\ StateNeverReset
  BY <1>1, StateIsMadeOnce DEF LabInv, besideMemory
<1>3. LabSources' = LabSources
  BY <1>1, SourcesStay DEF memoryVars
<1>4. CASE Freeze
  <2>1. holder' = holder /\ holder = Nobody /\ probes' = {}
    BY <1>4 DEF Freeze, Claim
  <2>2. MemoryTyped' /\ BindingIsSound' /\ RuntimeFits' /\ SendKnows' /\ ReceiptsAreTrue'
    BY <1>1, <2>1, MemoryStays DEF memoryVars, turnVars
  <2>3. ProbeIsFair' /\ ComparisonIsFair' /\ SourcesHold'
    BY <2>1, NobodySends DEF ProbeIsFair, ComparisonIsFair, SourcesHold
  <2> QED BY <1>2, <2>2, <2>3 DEF LabInv
<1>5. CASE BeginProbe \/ VerifyLayers \/ ProbeTask
  <2>1. PICK kind \in {"probe", "verify"} :
          /\ holder' = [kind |-> kind, sources |-> LabSources] /\ UNCHANGED comparisonVars
          /\ kind = "probe" => BeginProbe
    BY <1>5 DEF BeginProbe, VerifyLayers, ProbeTask, Observes
  <2>2. MemoryTyped' /\ BindingIsSound' /\ RuntimeFits' /\ SendKnows' /\ ReceiptsAreTrue'
    BY <1>1, <2>1, MemoryStays DEF memoryVars, turnVars
  <2>3. ASSUME BeginProbe PROVE IsFair(LabSources)
    <3>1. Snapshot = frozen.snapshot /\ profiles = frozen.pair /\ selected.profile # NoProfile
      BY <2>3 DEF BeginProbe, ComparisonHolds, ProfileResolved
    <3> QED BY <3>1 DEF IsFair, LabSources, Profile
  <2>4. ProbeIsFair'
    BY <2>1, <2>3 DEF ProbeIsFair, IsFair, comparisonVars
  <2>5. ComparisonIsFair' /\ SourcesHold'
    BY <1>3, <2>1 DEF LabInv, ComparisonIsFair, SourcesHold, comparisonVars
  <2> QED BY <1>2, <2>2, <2>4, <2>5 DEF LabInv
<1>6. CASE EndObservation
  <2>1. /\ holder' = Nobody /\ frozen' = frozen
        /\ \A a \in probes' : a \in probes \/ (a = holder.sources /\ holder.kind = "probe")
    BY <1>6 DEF EndObservation
  <2>2. MemoryTyped' /\ BindingIsSound' /\ RuntimeFits' /\ SendKnows' /\ ReceiptsAreTrue'
    BY <1>1, <2>1, NobodySends, MemoryStays DEF memoryVars, turnVars
  <2>3. ProbeIsFair' /\ SourcesHold'
    BY <2>1, NobodySends DEF ProbeIsFair, SourcesHold
  <2>4. ASSUME NEW a \in probes' PROVE IsFair(a)
    BY <2>1, <2>4 DEF LabInv, ProbeIsFair, ComparisonIsFair, IsFair
  <2>5. ComparisonIsFair'
    BY <2>1, <2>4 DEF IsFair, ComparisonIsFair
  <2> QED BY <1>2, <2>2, <2>3, <2>5 DEF LabInv
<1> QED BY <1>4, <1>5, <1>6

\* What a change of the memory has to keep while nobody generates.
LEMMA MemoryMoves ==
  ASSUME LabInv, holder = Nobody, UNCHANGED <<lab, holder, turnVars, comparisonVars>>,
         MemoryTyped', BindingIsSound', RuntimeFits', StatesTyped',
         \A n : SavedSomewhere(n)' <=> SavedSomewhere(n)
  PROVE  LabInv'
<1>1. SendKnows'
  BY NobodySends DEF LabInv, SendKnows, turnVars
<1>2. ReceiptsAreTrue'
  BY DEF LabInv, ReceiptsAreTrue, ReceiptIsTrue, turnVars
<1>3. ProbeIsFair' /\ ComparisonIsFair' /\ SourcesHold'
  BY NobodySends DEF LabInv, ProbeIsFair, ComparisonIsFair, SourcesHold, comparisonVars
<1> QED BY <1>1, <1>2, <1>3 DEF LabInv

LEMMA KeysChange ==
  ASSUME LabInv, memory.ready, NEW S \in SUBSET Keys, NEW b, WorkingChanged(S) \/ LongChanged(b)
  PROVE  /\ MemoryTyped' /\ BindingIsSound' /\ UNCHANGED <<chats, cache>>
<1>1. UNCHANGED <<chats, cache>>
  BY DEF WorkingChanged, LongChanged
<1>2. /\ memory' = [ready |-> memory'.ready, task |-> memory'.task, chat |-> memory'.chat,
                    revision |-> memory'.revision, working |-> memory'.working, long |-> memory'.long]
      /\ memory'.ready = memory.ready /\ memory'.task = memory.task /\ memory'.chat = memory.chat
      /\ \/ memory'.working = memory.working
         \/ memory'.working = [memory.working EXCEPT ![memory.task] = S]
  BY DEF LabInv, MemoryTyped, WorkingChanged, LongChanged
<1>3. memory'.working \in Seq(SUBSET Keys) /\ DOMAIN memory'.working = DOMAIN memory.working
  BY <1>2, ElementReplaced, SMTT(30) DEF LabInv, MemoryTyped
<1> QED BY <1>1, <1>2, <1>3 DEF LabInv, MemoryTyped, BindingIsSound

LEMMA ChatIsAdded ==
  ASSUME LabInv, memory.ready, NewTask \/ NewConversation, NewChatLoaded
  PROVE  /\ MemoryTyped' /\ BindingIsSound' /\ (lab' = lab /\ recovery' = recovery => RuntimeFits')
         /\ \A n : SavedSomewhere(n)' <=> SavedSomewhere(n)
<1> DEFINE k == Len(chats) + 1
<1>0. /\ chats \in Seq(Chats) /\ Len(chats) \in Nat /\ k <= MaxChats
      /\ memory.working \in Seq(SUBSET Keys) /\ Len(memory.working) \in Nat /\ MaxChats \in Nat
  BY MemoryStoreAssumption DEF LabInv, MemoryTyped, NewTask, NewConversation
<1>1. PICK t \in Nat :
        /\ chats' = Append(chats, [task |-> t, turns |-> << >>])
        /\ memory' = [ready |-> memory.ready, task |-> t, chat |-> k, revision |-> memory'.revision,
                      working |-> memory'.working, long |-> memory.long]
        /\ \/ t = memory.task /\ memory'.working = memory.working
           \/ t = Len(memory.working) + 1 /\ memory'.working = Append(memory.working, {})
  <2>1. memory.task \in Nat
    BY <1>0 DEF LabInv, BindingIsSound
  <2>2. CASE NewTask
    <3> DEFINE t == Len(memory.working) + 1
    <3>1. t \in Nat
      BY <1>0
    <3>2. chats' = Append(chats, [task |-> t, turns |-> << >>])
      BY <2>2 DEF NewTask
    <3>3. /\ memory' = [ready |-> memory.ready, task |-> t, chat |-> k, revision |-> memory'.revision,
                        working |-> memory'.working, long |-> memory.long]
          /\ memory'.working = Append(memory.working, {})
      BY <2>2 DEF NewTask, LabInv, MemoryTyped
    <3> HIDE DEF t, k
    <3> QED BY <3>1, <3>2, <3>3 DEF t
  <2>3. CASE NewConversation
    BY <2>1, <2>3 DEF NewConversation, LabInv, MemoryTyped
  <2> QED BY <2>2, <2>3
<1>2. /\ chats' \in Seq(Chats) /\ Len(chats') = k /\ DOMAIN chats' = 1..k /\ DOMAIN chats = 1..Len(chats)
      /\ \A c \in 1..Len(chats) : chats'[c] = chats[c]
      /\ chats'[k] = [task |-> t, turns |-> << >>]
  BY <1>0, <1>1 DEF Chats
<1>3. /\ memory'.working \in Seq(SUBSET Keys) /\ t \in DOMAIN memory'.working
      /\ DOMAIN memory.working \subseteq DOMAIN memory'.working
  <2>1. memory.task \in DOMAIN memory.working
    BY DEF LabInv, BindingIsSound
  <2>2. {} \in SUBSET Keys
    OBVIOUS
  <2>3. CASE t = memory.task /\ memory'.working = memory.working
    BY <1>0, <2>1, <2>3
  <2>4. CASE t = Len(memory.working) + 1 /\ memory'.working = Append(memory.working, {})
    <3>1. 1..Len(memory.working) \subseteq 1..t /\ t \in 1..t
      BY <1>0, <2>4
    <3> QED BY <1>0, <2>2, <2>4, <3>1, ElementAdded
  <2> QED BY <1>1, <2>3, <2>4
<1>4. BindingIsSound'
  <2>1. \A c \in 1..k : chats'[c].task \in DOMAIN memory'.working
    <3> SUFFICES ASSUME NEW c \in 1..k PROVE chats'[c].task \in DOMAIN memory'.working
      OBVIOUS
    <3>1. CASE c = k
      BY <1>2, <1>3, <3>1
    <3>2. CASE c # k
      <4>1. c \in 1..Len(chats)
        BY <1>0, <3>2
      <4> QED BY <1>2, <1>3, <4>1 DEF LabInv, BindingIsSound
    <3> QED BY <3>1, <3>2
  <2>2. memory'.task = t /\ memory'.chat = k /\ k \in 1..k
    BY <1>0, <1>1
  <2> QED BY <1>2, <1>3, <2>1, <2>2 DEF BindingIsSound
<1>5. /\ DOMAIN cache' = 1..MaxChats
      /\ \A c \in 1..MaxChats : c # k => cache'[c] = cache[c]
      /\ cache'[k] \in {NotLoaded, << >>}
  <2>1. k \in 1..MaxChats /\ k \notin DOMAIN chats
    BY <1>0 DEF LabInv, MemoryTyped
  <2>2. cache[k] = NotLoaded /\ DOMAIN cache = 1..MaxChats
    BY <2>1 DEF LabInv, MemoryTyped
  <2> QED BY <2>1, <2>2 DEF NewChatLoaded
<1>6. MemoryTyped'
  <2>1. \A c \in 1..MaxChats : c \notin DOMAIN chats' => cache'[c] = NotLoaded
    BY <1>0, <1>2, <1>5 DEF LabInv, MemoryTyped
  <2>2. memory'.ready /\ memory' = [ready |-> memory'.ready, task |-> memory'.task, chat |-> memory'.chat,
                  revision |-> memory'.revision, working |-> memory'.working, long |-> memory'.long]
    BY <1>1
  <2> QED BY <1>0, <1>2, <1>3, <1>5, <2>1, <2>2 DEF MemoryTyped
<1>7. ASSUME lab' = lab, recovery' = recovery PROVE RuntimeFits'
  <2> SUFFICES ASSUME lab = "policies", ~recovery, NEW c \in 1..k, cache'[c] # NotLoaded
               PROVE  cache'[c] = chats'[c].turns
    BY <1>2, <1>7 DEF RuntimeFits
  <2>1. CASE c = k
    BY <1>2, <1>5, <2>1
  <2>2. CASE c # k
    <3>1. c \in 1..Len(chats) /\ c \in 1..MaxChats
      BY <1>0, <2>2
    <3> QED BY <1>2, <1>5, <2>2, <3>1 DEF LabInv, RuntimeFits
  <2> QED BY <2>1, <2>2
<1>8. ASSUME NEW n PROVE SavedSomewhere(n)' <=> SavedSomewhere(n)
  <2>1. chats'[k].turns = << >> /\ \A c \in 1..k : c = k \/ c \in 1..Len(chats)
    BY <1>0, <1>2
  <2>2. 1..Len(chats) \subseteq 1..k
    BY <1>0
  <2> QED BY <1>2, <2>1, <2>2 DEF SavedSomewhere
<1> QED BY <1>4, <1>6, <1>7, <1>8

LEMMA InitializeKeeps == ASSUME LabInv, Initialize PROVE LabInv' /\ StateNeverReset
<1>1. holder = Nobody /\ UNCHANGED <<lab, holder, turnVars, comparisonVars>> /\ InitializeMemory
  BY DEF Initialize, Claim
<1>2. StatesTyped' /\ StateNeverReset
  BY StateIsMadeOnce DEF LabInv, Initialize
<1>3. CASE memory.ready
  <2>1. UNCHANGED memoryVars
    BY <1>1, <1>3 DEF InitializeMemory
  <2>2. MemoryTyped' /\ BindingIsSound' /\ RuntimeFits' /\ \A n : SavedSomewhere(n)' <=> SavedSomewhere(n)
    BY <1>1, <2>1 DEF LabInv, MemoryTyped, BindingIsSound, RuntimeFits, SavedSomewhere, memoryVars, turnVars
  <2> QED BY <1>1, <1>2, <2>2, MemoryMoves
<1>4. CASE ~memory.ready
  <2>1. /\ memory' = [memory EXCEPT !.ready = TRUE, !.task = 1, !.chat = 1, !.working = <<{}>>]
        /\ chats' = <<[task |-> 1, turns |-> << >>]>> /\ cache' = cache /\ chats = << >>
    BY <1>1, <1>4 DEF InitializeMemory, LabInv, MemoryTyped
  <2>2. /\ memory' = [ready |-> TRUE, task |-> 1, chat |-> 1, revision |-> memory.revision,
                      working |-> <<{}>>, long |-> memory.long]
    BY <2>1 DEF LabInv, MemoryTyped
  <2>3. /\ chats' \in Seq(Chats) /\ Len(chats') = 1 /\ DOMAIN chats' = {1} /\ DOMAIN chats = {}
        /\ chats'[1] = [task |-> 1, turns |-> << >>]
    BY <2>1 DEF Chats
  <2>4. <<{}>> \in Seq(SUBSET Keys) /\ DOMAIN <<{}>> = {1}
    OBVIOUS
  <2>5. \A c \in 1..MaxChats : cache'[c] = NotLoaded
    BY <2>1, <2>3 DEF LabInv, MemoryTyped
  <2>6. MemoryTyped'
    <3>1. /\ memory' = [ready |-> memory'.ready, task |-> memory'.task, chat |-> memory'.chat,
                        revision |-> memory'.revision, working |-> memory'.working, long |-> memory'.long]
          /\ memory'.working = <<{}>> /\ memory'.ready
      BY <2>2
    <3>2. DOMAIN cache' = 1..MaxChats /\ Len(chats') <= MaxChats
      BY <2>1, <2>3, MemoryStoreAssumption DEF LabInv, MemoryTyped
    <3> QED BY <2>3, <2>4, <2>5, <3>1, <3>2 DEF MemoryTyped
  <2>7. BindingIsSound'
    BY <2>2, <2>3, <2>4 DEF BindingIsSound
  <2>8. RuntimeFits'
    BY <2>3, <2>5, MemoryStoreAssumption DEF RuntimeFits
  <2>9. ASSUME NEW n PROVE SavedSomewhere(n)' <=> SavedSomewhere(n)
    BY <2>3 DEF SavedSomewhere
  <2> QED BY <1>1, <1>2, <2>6, <2>7, <2>8, <2>9, MemoryMoves
<1> QED BY <1>2, <1>3, <1>4

LEMMA MutateKeeps == ASSUME LabInv, MutateMemory PROVE LabInv' /\ StateNeverReset
<1>1. /\ holder = Nobody /\ UNCHANGED <<lab, holder, turnVars, comparisonVars>> /\ UNCHANGED states
      /\ memory.ready
  BY DEF MutateMemory, Claim, besideMemory
<1>2. StatesTyped' /\ StateNeverReset
  BY <1>1, StateIsMadeOnce DEF LabInv
<1>3. \E S \in SUBSET Keys, b \in BOOLEAN : WorkingChanged(S) \/ LongChanged(b)
  <2>1. memory.working[memory.task] \in SUBSET Keys
    BY <1>1 DEF LabInv, MemoryTyped, BindingIsSound
  <2> QED BY <2>1 DEF MutateMemory
<1>4. MemoryTyped' /\ BindingIsSound' /\ UNCHANGED <<chats, cache>>
  BY <1>1, <1>3, KeysChange
<1>5. RuntimeFits' /\ \A n : SavedSomewhere(n)' <=> SavedSomewhere(n)
  BY <1>1, <1>4 DEF LabInv, RuntimeFits, SavedSomewhere, turnVars
<1> QED BY <1>1, <1>2, <1>4, <1>5, MemoryMoves

LEMMA SetupKeeps == ASSUME LabInv, Setup PROVE LabInv' /\ StateNeverReset
<1>1. holder = Nobody /\ UNCHANGED <<lab, holder, turnVars, comparisonVars>> /\ memory.ready
  BY DEF Setup, Claim
<1>2. StatesTyped' /\ StateNeverReset
  BY StateIsMadeOnce DEF LabInv, Setup
<1>3. \E S \in SUBSET Keys : WorkingChanged(S)
  <2>1. memory.working[memory.task] \in SUBSET Keys
    BY <1>1 DEF LabInv, MemoryTyped, BindingIsSound
  <2>2. \A keys \in 0..NKeys : 1..keys \subseteq Keys
    BY MemoryStoreAssumption DEF Keys
  <2> QED BY <2>1, <2>2 DEF Setup
<1>4. MemoryTyped' /\ BindingIsSound' /\ UNCHANGED <<chats, cache>>
  BY <1>1, <1>3, KeysChange
<1>5. RuntimeFits' /\ \A n : SavedSomewhere(n)' <=> SavedSomewhere(n)
  BY <1>1, <1>4 DEF LabInv, RuntimeFits, SavedSomewhere, turnVars
<1> QED BY <1>1, <1>2, <1>4, <1>5, MemoryMoves

LEMMA TransitionKeeps == ASSUME LabInv, Transition PROVE LabInv' /\ StateNeverReset
<1>1. holder = Nobody /\ UNCHANGED <<lab, holder, turnVars, comparisonVars>> /\ memory.ready
  BY DEF Transition, Claim
<1>2. StatesTyped' /\ StateNeverReset
  BY StateIsMadeOnce DEF LabInv, Transition
<1>3. CASE (NewTask \/ NewConversation) /\ NewChatLoaded
  BY <1>1, <1>2, <1>3, ChatIsAdded, MemoryMoves DEF turnVars
<1>4. CASE LongChanged(FALSE)
  <2>1. MemoryTyped' /\ BindingIsSound' /\ UNCHANGED <<chats, cache>>
    BY <1>1, <1>4, KeysChange
  <2>2. RuntimeFits' /\ \A n : SavedSomewhere(n)' <=> SavedSomewhere(n)
    BY <1>1, <2>1 DEF LabInv, RuntimeFits, SavedSomewhere, turnVars
  <2> QED BY <1>1, <1>2, <2>1, <2>2, MemoryMoves
<1> QED BY <1>3, <1>4 DEF Transition

-----------------------------------------------------------------------------
(* Sends.                                                                  *)

LEMMA PairIsAdded ==
  ASSUME MemoryTyped, BindingIsSound, memory.ready, memory' = memory, NEW turn \in Nat,
         chats' = [chats EXCEPT ![memory.chat].turns = Append(@, turn)]
  PROVE  /\ chats' \in Seq(Chats) /\ Len(chats') = Len(chats) /\ DOMAIN chats' = DOMAIN chats
         /\ \A c \in DOMAIN chats : c # memory.chat => chats'[c] = chats[c]
         /\ chats'[memory.chat].turns = Append(chats[memory.chat].turns, turn)
         /\ BindingIsSound'
         /\ \A n : SavedSomewhere(n)' <=> SavedSomewhere(n) \/ n = turn
<1> DEFINE k == memory.chat
           pairs == chats[k].turns
           e == [chats[k] EXCEPT !.turns = Append(pairs, turn)]
<1>1. k \in DOMAIN chats /\ chats \in Seq(Chats) /\ chats[k] \in Chats
  BY DEF MemoryTyped, BindingIsSound
<1>2. pairs \in Seq(Nat) /\ chats[k].task \in Nat
  BY <1>1 DEF Chats
<1>3. Append(pairs, turn) \in Seq(Nat)
  BY <1>2
<1>4. e \in Chats /\ chats' = [chats EXCEPT ![k] = e]
  BY <1>1, <1>3 DEF Chats
<1>5. e.task = chats[k].task /\ e.turns = Append(pairs, turn)
  BY <1>1 DEF Chats
<1> HIDE DEF e
<1>6. /\ chats' \in Seq(Chats) /\ Len(chats') = Len(chats) /\ DOMAIN chats' = DOMAIN chats
      /\ chats'[k] = e /\ \A c \in DOMAIN chats : c # k => chats'[c] = chats[c]
  BY <1>1, <1>4, ElementReplaced
<1>7. BindingIsSound'
  BY <1>5, <1>6 DEF BindingIsSound
<1>8. ASSUME NEW n PROVE SavedSomewhere(n)' <=> SavedSomewhere(n) \/ n = turn
  <2>1. /\ DOMAIN Append(pairs, turn) = 1..(Len(pairs) + 1) /\ DOMAIN pairs = 1..Len(pairs)
        /\ \A i \in 1..Len(pairs) : Append(pairs, turn)[i] = pairs[i]
        /\ Append(pairs, turn)[Len(pairs) + 1] = turn /\ Len(pairs) \in Nat
    BY <1>2, ElementAdded
  <2>2. 1..Len(pairs) \subseteq 1..(Len(pairs) + 1) /\ Len(pairs) + 1 \in 1..(Len(pairs) + 1)
        /\ \A i \in 1..(Len(pairs) + 1) : i = Len(pairs) + 1 \/ i \in 1..Len(pairs)
    BY <2>1
  <2>3. (\E i \in DOMAIN chats'[k].turns : chats'[k].turns[i] = n)
          <=> (\E i \in DOMAIN pairs : pairs[i] = n) \/ n = turn
    <3> HIDE DEF pairs
    <3> QED BY <1>5, <1>6, <2>1, <2>2, ZenonT(60)
  <2> HIDE DEF k
  <2>4. ASSUME SavedSomewhere(n)' PROVE SavedSomewhere(n) \/ n = turn
    <3>1. PICK c \in DOMAIN chats : \E i \in DOMAIN chats'[c].turns : chats'[c].turns[i] = n
      BY <1>6, <2>4 DEF SavedSomewhere
    <3>2. CASE c = k
      BY <1>1, <2>3, <3>1, <3>2 DEF SavedSomewhere
    <3>3. CASE c # k
      BY <1>6, <3>1, <3>3 DEF SavedSomewhere
    <3> QED BY <3>2, <3>3
  <2>5. ASSUME SavedSomewhere(n) \/ n = turn PROVE SavedSomewhere(n)'
    <3>1. CASE n = turn
      BY <1>1, <1>6, <2>3, <3>1 DEF SavedSomewhere
    <3>2. CASE SavedSomewhere(n)
      <4>1. PICK c \in DOMAIN chats : \E i \in DOMAIN chats[c].turns : chats[c].turns[i] = n
        BY <3>2 DEF SavedSomewhere
      <4>2. CASE c = k
        BY <1>1, <1>6, <2>3, <4>1, <4>2 DEF SavedSomewhere
      <4>3. CASE c # k
        BY <1>6, <4>1, <4>3 DEF SavedSomewhere
      <4> QED BY <4>2, <4>3
    <3> QED BY <2>5, <3>1, <3>2
  <2> QED BY <2>4, <2>5
<1> QED BY <1>5, <1>6, <1>7, <1>8

LEMMA TurnBeginsKeeps ==
  ASSUME LabInv, SendLayers \/ SendPersonalized \/ SendTask \/ Propose
  PROVE  LabInv' /\ StateNeverReset
<1>1. TurnBegins /\ memory.ready /\ holder = Nobody
  BY DEF SendLayers, SendPersonalized, SendTask, Propose, ProfileResolved, TaskSourcesResolved,
         PolicySourcesResolved, Claim
<1>2. /\ UNCHANGED <<lab, memory, chats, besideMemory, doubts, recovery, comparisonVars>>
      /\ holder' = [kind |-> "send", sources |-> LabSources]
      /\ sends' = sends + 1 /\ receipts' = Append(receipts, "running")
      /\ RuntimeTurns(memory.chat) = chats[memory.chat].turns
      /\ cache' = [cache EXCEPT ![memory.chat] = chats[memory.chat].turns]
  BY <1>1 DEF TurnBegins, Snapshot, Loaded
<1>3. StatesTyped' /\ StateNeverReset
  BY <1>2, StateIsMadeOnce DEF LabInv, besideMemory
<1>4. LabSources' = LabSources
  BY <1>2, SourcesStay
<1>5. /\ receipts \in Seq(Receipts) /\ sends = Len(receipts) /\ sends \in Nat
      /\ memory.chat \in DOMAIN chats /\ memory.chat \in 1..MaxChats
  BY <1>1, MemoryStoreAssumption DEF LabInv, SendKnows, BindingIsSound, MemoryTyped
<1>6. /\ receipts' \in Seq(Receipts) /\ Len(receipts') = sends' /\ receipts'[sends'] = "running"
      /\ \A n \in 1..sends : receipts'[n] = receipts[n]
      /\ DOMAIN receipts = 1..sends /\ DOMAIN receipts' = 1..sends'
  <2>1. "running" \in Receipts
    BY DEF Receipts
  <2> QED BY <1>2, <1>5, <2>1, ElementAdded
<1>7. /\ DOMAIN cache' = 1..MaxChats /\ cache'[memory.chat] = chats[memory.chat].turns
      /\ \A c \in 1..MaxChats : c # memory.chat => cache'[c] = cache[c]
  BY <1>2, <1>5 DEF LabInv, MemoryTyped
<1>8. MemoryTyped' /\ BindingIsSound'
  <2>1. \A c \in 1..MaxChats : c \notin DOMAIN chats => cache'[c] = NotLoaded
    BY <1>5, <1>7 DEF LabInv, MemoryTyped
  <2> QED BY <1>2, <1>7, <2>1 DEF LabInv, MemoryTyped, BindingIsSound
<1>9. RuntimeFits'
  <2>1. DOMAIN chats \subseteq 1..MaxChats
    BY MemoryStoreAssumption DEF LabInv, MemoryTyped
  <2> QED BY <1>2, <1>7, <2>1 DEF LabInv, RuntimeFits
<1>10. SendKnows'
  BY <1>1, <1>2, <1>5, <1>6, <1>7 DEF SendKnows
<1>11. ReceiptsAreTrue'
  <2>1. \A n : SavedSomewhere(n)' <=> SavedSomewhere(n)
    BY <1>2 DEF SavedSomewhere
  <2>2. ~SavedSomewhere(sends')
    BY <1>2, <1>5 DEF LabInv, ReceiptsAreTrue
  <2>3. ASSUME NEW n \in DOMAIN receipts' PROVE ReceiptIsTrue(n)'
    <3>1. CASE n = sends'
      BY <1>2, <1>6, <2>1, <2>2, <3>1 DEF ReceiptIsTrue
    <3>2. CASE n # sends'
      <4>1. n \in DOMAIN receipts /\ receipts'[n] = receipts[n]
        BY <1>2, <1>5, <1>6, <2>3, <3>2
      <4> QED BY <1>2, <2>1, <4>1 DEF LabInv, ReceiptsAreTrue, ReceiptIsTrue
    <3> QED BY <3>1, <3>2
  <2>4. \A n : SavedSomewhere(n)' => n \in 1..sends'
    BY <1>2, <1>5, <2>1 DEF LabInv, ReceiptsAreTrue
  <2> QED BY <2>3, <2>4 DEF ReceiptsAreTrue
<1>12. ProbeIsFair' /\ ComparisonIsFair' /\ SourcesHold'
  BY <1>2, <1>4 DEF LabInv, ProbeIsFair, ComparisonIsFair, SourcesHold, comparisonVars
<1> QED BY <1>3, <1>8, <1>9, <1>10, <1>11, <1>12 DEF LabInv

\* What ends a send has to see to: its receipt, and the pair it may have saved.
LEMMA SendEnds ==
  ASSUME LabInv, holder.kind = "send", holder' = Nobody, NEW r \in Receipts, Tells(r),
         UNCHANGED <<lab, memory, besideMemory, sends, comparisonVars>>,
         doubts \subseteq doubts',
         DOMAIN cache' = 1..MaxChats,
         \A c \in 1..MaxChats : c \notin DOMAIN chats => cache'[c] = NotLoaded,
         RuntimeFits',
         \/ chats' = chats /\ r # "committed"
         \/ /\ chats' = [chats EXCEPT ![memory.chat].turns = Append(@, sends)]
            /\ r \in {"committed", "unknown"} \/ (r = "error" /\ sends \in doubts')
  PROVE  LabInv' /\ StateNeverReset
<1>1. StatesTyped' /\ StateNeverReset
  BY StateIsMadeOnce DEF LabInv, besideMemory
<1>2. /\ receipts \in Seq(Receipts) /\ sends = Len(receipts) /\ sends \in Nat /\ sends > 0
      /\ memory.ready /\ receipts[sends] = "running" /\ receipts' = [receipts EXCEPT ![sends] = r]
  BY DEF LabInv, SendKnows, Tells
<1>3. /\ receipts' \in Seq(Receipts) /\ Len(receipts') = sends /\ receipts'[sends] = r
      /\ DOMAIN receipts' = DOMAIN receipts /\ \A n \in DOMAIN receipts : n # sends => receipts'[n] = receipts[n]
  BY <1>2, ElementReplaced
<1>4. MemoryTyped' /\ BindingIsSound'
  <2>1. CASE chats' = chats
    BY <2>1 DEF LabInv, MemoryTyped, BindingIsSound
  <2>2. CASE chats' = [chats EXCEPT ![memory.chat].turns = Append(@, sends)]
    <3>1. /\ chats' \in Seq(Chats) /\ Len(chats') = Len(chats) /\ DOMAIN chats' = DOMAIN chats
          /\ BindingIsSound'
      BY <1>2, <2>2, PairIsAdded DEF LabInv
    <3> QED BY <1>2, <3>1 DEF LabInv, MemoryTyped
  <2> QED BY <2>1, <2>2
<1>5. SendKnows'
  BY <1>3, NobodySends DEF SendKnows
<1>6. ReceiptsAreTrue'
  <2>1. \A n : SavedSomewhere(n)' <=> SavedSomewhere(n) \/ (n = sends /\ chats' # chats)
    <3>1. CASE chats' = chats
      BY <3>1 DEF SavedSomewhere
    <3>2. CASE chats' = [chats EXCEPT ![memory.chat].turns = Append(@, sends)]
      <4>1. \A n : SavedSomewhere(n)' <=> SavedSomewhere(n) \/ n = sends
        BY <1>2, <3>2, PairIsAdded DEF LabInv
      <4>2. ASSUME chats' = chats PROVE \A n : SavedSomewhere(n)' <=> SavedSomewhere(n)
        BY <4>2 DEF SavedSomewhere
      <4> QED BY <4>1, <4>2
    <3> QED BY <3>1, <3>2
  <2>2. ~SavedSomewhere(sends)
    <3>1. sends \in DOMAIN receipts
      BY <1>2
    <3> QED BY <1>2, <3>1 DEF LabInv, ReceiptsAreTrue, ReceiptIsTrue
  <2>3. ASSUME NEW n \in DOMAIN receipts' PROVE ReceiptIsTrue(n)'
    <3>1. CASE n # sends
      BY <1>3, <2>1, <2>3, <3>1 DEF LabInv, ReceiptsAreTrue, ReceiptIsTrue
    <3>2. CASE n = sends /\ chats' = chats /\ r # "committed"
      BY <1>3, <2>1, <2>2, <3>2 DEF ReceiptIsTrue
    <3>3. CASE /\ n = sends /\ chats' = [chats EXCEPT ![memory.chat].turns = Append(@, sends)]
               /\ r \in {"committed", "unknown"} \/ (r = "error" /\ sends \in doubts')
      <4>1. SavedSomewhere(n)'
        BY <1>2, <3>3, PairIsAdded DEF LabInv
      <4> QED BY <1>3, <3>3, <4>1 DEF ReceiptIsTrue
    <3> QED BY <3>1, <3>2, <3>3
  <2>4. \A n : SavedSomewhere(n)' => n \in 1..sends'
    BY <1>2, <2>1 DEF LabInv, ReceiptsAreTrue
  <2> QED BY <2>3, <2>4 DEF ReceiptsAreTrue
<1>7. ProbeIsFair' /\ ComparisonIsFair' /\ SourcesHold'
  BY NobodySends DEF LabInv, ProbeIsFair, ComparisonIsFair, SourcesHold, comparisonVars
<1> QED BY <1>1, <1>4, <1>5, <1>6, <1>7 DEF LabInv

\* A pair that is saved, or in doubt, and the runtime objects beside it.
LEMMA RuntimeAfterPair ==
  ASSUME LabInv, memory.ready, NEW turn \in Nat, memory' = memory,
         chats' = [chats EXCEPT ![memory.chat].turns = Append(@, turn)],
         \A c \in DOMAIN chats : \/ c # memory.chat /\ cache'[c] \in {cache[c], NotLoaded}
                                 \/ c = memory.chat /\ cache'[c] = Append(chats[c].turns, turn),
         UNCHANGED <<lab, recovery>>
  PROVE  RuntimeFits'
<1>1. /\ DOMAIN chats' = DOMAIN chats /\ \A c \in DOMAIN chats : c # memory.chat => chats'[c] = chats[c]
      /\ chats'[memory.chat].turns = Append(chats[memory.chat].turns, turn)
  BY PairIsAdded DEF LabInv
<1> QED BY <1>1, ZenonT(60) DEF LabInv, RuntimeFits

LEMMA SendFacts ==
  ASSUME LabInv, holder.kind = "send"
  PROVE  /\ sends \in Nat /\ memory.ready /\ memory.chat \in DOMAIN chats /\ memory.chat \in 1..MaxChats
         /\ cache[memory.chat] = chats[memory.chat].turns
         /\ DOMAIN chats \subseteq 1..MaxChats /\ DOMAIN cache = 1..MaxChats
         /\ \A c \in 1..MaxChats : c \notin DOMAIN chats => cache[c] = NotLoaded
  BY MemoryStoreAssumption DEF LabInv, SendKnows, MemoryTyped, BindingIsSound

LEMMA LabSendEndsKeeps ==
  ASSUME LabInv, LabSendFails \/ LabSendCommits \/ CommitErrorReported
  PROVE  LabInv' /\ StateNeverReset
<1>1. CASE LabSendFails
  <2>1. /\ holder.kind = "send" /\ holder' = Nobody /\ Tells("not committed")
        /\ UNCHANGED <<lab, memoryVars, besideMemory, sends, doubts, recovery, comparisonVars>>
    BY <1>1 DEF LabSendFails
  <2>2. RuntimeFits'
    BY <2>1 DEF LabInv, RuntimeFits, memoryVars
  <2> QED BY <2>1, <2>2, SendFacts, SendEnds DEF Receipts, memoryVars
<1>2. CASE LabSendCommits
  <2>1. /\ holder.kind = "send" /\ holder' = Nobody /\ Tells("committed")
        /\ UNCHANGED <<lab, memory, besideMemory, sends, doubts, recovery, comparisonVars>>
        /\ chats' = [chats EXCEPT ![memory.chat].turns = Append(@, sends)]
        /\ cache' = [cache EXCEPT ![memory.chat] = Append(@, sends)]
    BY <1>2 DEF LabSendCommits, PairSaved
  <2>2. /\ DOMAIN cache' = 1..MaxChats /\ cache'[memory.chat] = Append(chats[memory.chat].turns, sends)
        /\ \A c \in 1..MaxChats : c # memory.chat => cache'[c] = cache[c]
    BY <2>1, SendFacts
  <2>3. RuntimeFits'
    BY <2>1, <2>2, SendFacts, RuntimeAfterPair
  <2>4. \A c \in 1..MaxChats : c \notin DOMAIN chats => cache'[c] = NotLoaded
    BY <2>1, <2>2, SendFacts
  <2> QED BY <2>1, <2>2, <2>3, <2>4, SendEnds DEF Receipts
<1>3. CASE CommitErrorReported
  <2>1. /\ holder.kind = "send" /\ holder' = Nobody /\ Tells("error") /\ lab # "policies"
        /\ UNCHANGED <<lab, memory, besideMemory, sends, recovery, comparisonVars, cache>>
        /\ \/ chats' = chats /\ doubts' = doubts
           \/ /\ chats' = [chats EXCEPT ![memory.chat].turns = Append(@, sends)]
              /\ doubts' = doubts \cup {sends}
    BY <1>3 DEF CommitErrorReported, PairRolledBack, PairInDoubt
  <2>2. RuntimeFits'
    BY <2>1 DEF RuntimeFits
  <2>3. doubts \subseteq doubts'
    BY <2>1
  <2>4. DOMAIN cache' = 1..MaxChats /\ \A c \in 1..MaxChats : c \notin DOMAIN chats => cache'[c] = NotLoaded
    BY <2>1, SendFacts
  <2> QED BY <2>1, <2>2, <2>3, <2>4, SendEnds DEF Receipts
<1> QED BY <1>1, <1>2, <1>3

LEMMA ReconciledKeeps == ASSUME LabInv, CommitErrorReconciled PROVE LabInv' /\ StateNeverReset
<1>1. /\ holder.kind = "send" /\ holder' = Nobody
      /\ UNCHANGED <<lab, memory, besideMemory, sends, comparisonVars>>
  BY DEF CommitErrorReconciled
<1>2. PICK saved \in BOOLEAN :
        /\ chats' = IF saved THEN [chats EXCEPT ![memory.chat].turns = Append(@, sends)] ELSE chats
        /\ doubts' = IF saved THEN doubts \cup {sends} ELSE doubts
        /\ \/ cache' = FreshCache(memory.chat, saved) /\ Tells(Verdict(saved)) /\ UNCHANGED recovery
           \/ recovery' = TRUE /\ Tells("unknown") /\ UNCHANGED cache
  BY DEF CommitErrorReconciled
<1>3. PICK r \in {"unknown", "failed"} : Tells(r) /\ (saved => r = "unknown")
  BY <1>2 DEF Verdict
<1>4. DOMAIN cache' = 1..MaxChats /\ \A c \in 1..MaxChats : c \notin DOMAIN chats => cache'[c] = NotLoaded
  <2>1. CASE cache' = FreshCache(memory.chat, saved)
    BY <1>1, <2>1, SendFacts DEF FreshCache
  <2>2. CASE cache' = cache
    BY <1>1, <2>2, SendFacts
  <2> QED BY <1>2, <2>1, <2>2
<1>5. RuntimeFits'
  <2>1. CASE recovery' = TRUE
    BY <2>1 DEF RuntimeFits
  <2>2. CASE cache' = FreshCache(memory.chat, saved) /\ UNCHANGED recovery /\ saved
    <3>1. \A c \in DOMAIN chats : \/ c # memory.chat /\ cache'[c] \in {cache[c], NotLoaded}
                                  \/ c = memory.chat /\ cache'[c] = Append(chats[c].turns, sends)
      BY <1>1, <2>2, SendFacts DEF FreshCache
    <3> QED BY <1>1, <1>2, <2>2, <3>1, SendFacts, RuntimeAfterPair
  <2>3. CASE cache' = FreshCache(memory.chat, saved) /\ UNCHANGED recovery /\ ~saved
    <3>1. \A c \in DOMAIN chats : cache'[c] = IF c = memory.chat THEN chats[c].turns ELSE NotLoaded
      BY <1>1, <2>3, SendFacts DEF FreshCache
    <3> QED BY <1>1, <1>2, <2>3, <3>1 DEF RuntimeFits
  <2> QED BY <1>2, <2>1, <2>2, <2>3
<1>6. doubts \subseteq doubts' /\ r \in Receipts /\ r # "committed"
  BY <1>2 DEF Receipts
<1>7. \/ chats' = chats /\ r # "committed"
      \/ /\ chats' = [chats EXCEPT ![memory.chat].turns = Append(@, sends)]
         /\ r \in {"committed", "unknown"} \/ (r = "error" /\ sends \in doubts')
  BY <1>2, <1>3, <1>6
<1> QED BY <1>1, <1>3, <1>4, <1>5, <1>6, <1>7, SendEnds

LEMMA ReconcileKeeps == ASSUME LabInv, Reconcile PROVE LabInv' /\ StateNeverReset
<1>1. /\ holder = Nobody /\ UNCHANGED <<lab, memory, chats, besideMemory, holder, sends, receipts, doubts, comparisonVars>>
      /\ cache' = [c \in 1..MaxChats |-> IF c = memory.chat THEN chats[c].turns ELSE NotLoaded]
      /\ lab = "policies" /\ recovery
  BY DEF Reconcile
<1>2. StatesTyped' /\ StateNeverReset
  BY <1>1, StateIsMadeOnce DEF LabInv, besideMemory
<1>3. \A c \in 1..MaxChats : c \notin DOMAIN chats => cache'[c] = NotLoaded
  BY <1>1 DEF LabInv, MemoryTyped, BindingIsSound
<1>4. MemoryTyped' /\ BindingIsSound'
  BY <1>1, <1>3 DEF LabInv, MemoryTyped, BindingIsSound
<1>5. RuntimeFits'
  <2>1. DOMAIN chats \subseteq 1..MaxChats
    BY MemoryStoreAssumption DEF LabInv, MemoryTyped
  <2> QED BY <1>1, <2>1 DEF RuntimeFits
<1>6. SendKnows' /\ ReceiptsAreTrue'
  <2>1. \A n : SavedSomewhere(n)' <=> SavedSomewhere(n)
    BY <1>1 DEF SavedSomewhere
  <2> QED BY <1>1, <2>1, NobodySends DEF LabInv, SendKnows, ReceiptsAreTrue, ReceiptIsTrue
<1>7. ProbeIsFair' /\ ComparisonIsFair' /\ SourcesHold'
  BY <1>1, NobodySends DEF LabInv, ProbeIsFair, ComparisonIsFair, SourcesHold, comparisonVars
<1> QED BY <1>2, <1>4, <1>5, <1>6, <1>7 DEF LabInv

LEMMA RestartLabKeeps == ASSUME LabInv, RestartLab PROVE LabInv' /\ StateNeverReset
<1>1. /\ UNCHANGED <<lab, memory, chats, besideMemory, sends, doubts>>
      /\ cache' = [c \in 1..MaxChats |-> NotLoaded] /\ holder' = Nobody /\ probes' = {}
      /\ receipts' = [i \in DOMAIN receipts |-> IF receipts[i] = "running" THEN "lost" ELSE receipts[i]]
  BY DEF RestartLab
<1>2. StatesTyped' /\ StateNeverReset
  BY <1>1, StateIsMadeOnce DEF LabInv, besideMemory
<1>3. MemoryTyped' /\ BindingIsSound'
  BY <1>1 DEF LabInv, MemoryTyped, BindingIsSound
<1>4. RuntimeFits'
  <2>1. DOMAIN chats \subseteq 1..MaxChats
    BY MemoryStoreAssumption DEF LabInv, MemoryTyped
  <2> QED BY <1>1, <2>1 DEF RuntimeFits
<1>5. /\ receipts \in Seq(Receipts) /\ sends = Len(receipts) /\ DOMAIN receipts = 1..Len(receipts)
  BY DEF LabInv, SendKnows
<1>6. SendKnows'
  <2>1. receipts' \in [1..Len(receipts) -> Receipts] /\ Len(receipts) \in Nat
    <3>1. "lost" \in Receipts
      BY DEF Receipts
    <3> QED BY <1>1, <1>5, <3>1
  <2>2. receipts' \in Seq(Receipts) /\ Len(receipts') = Len(receipts)
    BY <2>1
  <2> QED BY <1>1, <1>5, <2>2, NobodySends DEF SendKnows
<1>7. ReceiptsAreTrue'
  <2>1. \A n : SavedSomewhere(n)' <=> SavedSomewhere(n)
    BY <1>1 DEF SavedSomewhere
  <2> QED BY <1>1, <2>1 DEF LabInv, ReceiptsAreTrue, ReceiptIsTrue
<1>8. ProbeIsFair' /\ ComparisonIsFair' /\ SourcesHold'
  BY <1>1, NobodySends DEF ProbeIsFair, ComparisonIsFair, SourcesHold
<1> QED BY <1>2, <1>3, <1>4, <1>6, <1>7, <1>8 DEF LabInv

LEMMA LabsStutter == ASSUME LabInv, UNCHANGED labsVars PROVE LabInv'
<1>1. UNCHANGED <<memory, chats, cache, lab, profiles, selected, states, policies, holder, sends, receipts,
                  doubts, recovery, frozen, probes>>
  BY DEF labsVars, memoryVars
<1>2. MemoryTyped' /\ BindingIsSound' /\ RuntimeFits' /\ SendKnows' /\ ReceiptsAreTrue'
  BY <1>1, MemoryStays
<1>3. LabSources' = LabSources
  BY <1>1, SourcesStay DEF besideMemory
<1>4. ProbeIsFair' /\ ComparisonIsFair' /\ SourcesHold'
  BY <1>1, <1>3 DEF LabInv, ProbeIsFair, ComparisonIsFair, IsFair, SourcesHold
<1> QED BY <1>1, <1>2, <1>4 DEF LabInv, StatesTyped

LEMMA LabsBegin == ASSUME MemoryLabsInit PROVE LabInv
<1>1. /\ memory = [ready |-> FALSE, task |-> 0, chat |-> 0, revision |-> 0, working |-> << >>, long |-> FALSE]
      /\ chats = << >> /\ cache = [c \in 1..MaxChats |-> NotLoaded]
      /\ states = [t \in 1..MaxTasks |-> NoState] /\ holder = Nobody /\ sends = 0 /\ receipts = << >>
      /\ probes = {}
  BY DEF MemoryLabsInit, MemoryStoreInit
<1>2. MemoryTyped
  <2>1. << >> \in Seq(SUBSET Keys) /\ << >> \in Seq(Chats) /\ Len(<< >>) = 0
    OBVIOUS
  <2> QED BY <1>1, <2>1, MemoryStoreAssumption DEF MemoryTyped
<1>3. BindingIsSound /\ RuntimeFits /\ StatesTyped
  BY <1>1 DEF BindingIsSound, RuntimeFits, StatesTyped
<1>4. SendKnows
  BY <1>1, NobodySends DEF SendKnows
<1>5. ReceiptsAreTrue
  BY <1>1 DEF ReceiptsAreTrue, SavedSomewhere
<1>6. ProbeIsFair /\ ComparisonIsFair /\ SourcesHold
  BY <1>1, NobodySends DEF ProbeIsFair, ComparisonIsFair, SourcesHold
<1> QED BY <1>2, <1>3, <1>4, <1>5, <1>6 DEF LabInv

\* In all four services: what a generation, a comparison and a receipt rest on
\* stays true, and the state of a task is made once and only advances, for any
\* bounds (MemoryExperimentService, PersonalizationService,
\* TaskStateLabService, InvariantsLabService).
THEOREM MemoryLabsStaySound == MemoryLabsSpec => MemoryLabsAreSound
<1>1. LabInv /\ MemoryLabsNext => LabInv' /\ StateNeverReset
  BY FilesBesideKeep, ObservationKeeps, InitializeKeeps, MutateKeeps, SetupKeeps, TransitionKeeps,
     TurnBeginsKeeps, LabSendEndsKeeps, ReconciledKeeps, ReconcileKeeps, RestartLabKeeps
     DEF MemoryLabsNext
<1>2. LabInv => LabsAreSound
  BY DEF LabInv, SourcesHold, ReceiptsAreTrue, ReceiptIsTrue, RuntimeFits, LabsAreSound,
         SourcesHoldWhileGenerating, LabReceiptsTellTheTruth
<1>3. LabInv' => LabsAreSound'
  BY <1>2, PTL
<1>4. LabInv /\ [MemoryLabsNext]_labsVars
        => LabInv' /\ [LabsAreSound' /\ StateNeverReset]_labsVars
  BY <1>1, <1>3, LabsStutter
<1> QED BY <1>4, LabsBegin, PTL DEF MemoryLabsSpec, MemoryLabsAreSound

-----------------------------------------------------------------------------
\* Every set of numbers that is not empty has a least one.
LEMMA LeastNumber ==
  ASSUME NEW T \in SUBSET Nat, T # {}
  PROVE  \E x \in T : \A y \in T : ~(y < x)
<1>1. PICK x \in T : \A y \in T : ~(<<y, x>> \in OpToRel(<, Nat))
  BY NatLessThanWellFounded, WFMin
<1>2. \A y \in T : ~(y < x)
  BY <1>1 DEF OpToRel
<1> QED BY <1>2

-----------------------------------------------------------------------------
(* Day 19: the chain of three tools and its verifier.                     *)

\* A call is one of the three tools; what it returns is made of its input.
CallFits(c) ==
  /\ DOMAIN c = {"tool", "input", "output", "state", "listed"}
  /\ c.tool \in {"lookup", "summary", "save"}
  /\ c.state \in {"running", "completed", "failed"}
  /\ c.listed \in BOOLEAN
  /\ c.state = "completed" => ToolCheck(c) = "PASS"

CallsFit ==
  /\ Len(calls) \in Nat /\ DOMAIN calls = 1 .. Len(calls)
  /\ \A i \in DOMAIN calls : CallFits(calls[i])

JournalEvents == [kind : {"start", "source", "end"}, call : Nat, process : Nat]

IsStartOf(s, i) == journal[s].kind = "start" /\ journal[s].call = i
IsEndOf(e, i) == journal[e].kind = "end" /\ journal[e].call = i

\* A call has one start, and an end only after it in the same process; what
\* has completed has an end, and a lookup logged what it found.
JournalFits ==
  /\ journal \in Seq(JournalEvents) /\ process \in Nat
  /\ \A n \in DOMAIN journal : journal[n].call \in DOMAIN calls
  /\ \A i \in DOMAIN calls :
       /\ \A m, n \in DOMAIN journal : IsStartOf(m, i) /\ IsStartOf(n, i) => m = n
       /\ \A m, n \in DOMAIN journal : IsEndOf(m, i) /\ IsEndOf(n, i) => m = n
       /\ \E s \in DOMAIN journal :
            /\ IsStartOf(s, i)
            /\ Running(i) => journal[s].process = process
            /\ \A e \in DOMAIN journal :
                 IsEndOf(e, i) => ~Running(i) /\ s < e /\ journal[e].process = journal[s].process
       /\ calls[i].state = "completed" =>
            /\ \E e \in DOMAIN journal : IsEndOf(e, i)
            /\ calls[i].tool = "lookup" =>
                 \E e \in DOMAIN journal : journal[e].kind = "source" /\ journal[e].call = i

\* What was saved is there, unless files were lost.
ReportsFit ==
  /\ slips \in Nat
  /\ \A i \in Completed :
       calls[i].tool = "save" => slips > 0 \/ calls[i].input.report \in reports

\* The response lists what is not to be listed again, and nothing is at work.
ResponseFits ==
  response # Nothing =>
    /\ \A i \in DOMAIN calls : ~Running(i)
    /\ response.listed \in SetToSeqs({i \in DOMAIN calls : calls[i].listed})

BackendFits ==
  /\ sending \in {"new", "reserved", "sent", "received", "told", "stopped"}
  /\ sending \in {"new", "reserved"} => ~dispatched
  /\ sending \in {"reserved", "sent", "received"} => "attempt" \in records
  /\ dispatched => "attempt" \in records
  /\ sending # "told" => told = Nothing /\ "operation" \notin records
  /\ sending = "received" \/ "operation" \in records =>
       response # Nothing /\ "response" \in records
  /\ told # Nothing =>
       /\ told.invocation = "not_sent" => ~dispatched
       /\ told.saved => records \cap {"error", "operation"} # {}

CompositionInv == CallsFit /\ JournalFits /\ ReportsFit /\ ResponseFits /\ BackendFits

-----------------------------------------------------------------------------
(* Verdicts.                                                               *)

\* A pass is a pass of everything, a failure the failure of something.
LEMMA WorstIs ==
  ASSUME NEW S
  PROVE  /\ WorstVerdict(S) \in {"PASS", "FAIL", "NOT_PROVEN"}
         /\ WorstVerdict(S) = "PASS" => "FAIL" \notin S /\ "NOT_PROVEN" \notin S
         /\ WorstVerdict(S) = "FAIL" => "FAIL" \in S
BY DEF WorstVerdict

LEMMA ComparedIs ==
  ASSUME NEW a, NEW b
  PROVE  /\ Compared(a, b) \in {"PASS", "FAIL"}
         /\ Compared(a, b) = "PASS" <=> a = b
BY DEF Compared

LEMMA TheOnly ==
  ASSUME NEW x \in Nat
  PROVE  The({x}) = x
BY DEF The

LEMMA MadeOf ==
  ASSUME NEW x
  PROVE  Report(x).of = x /\ Receipt(x).file = x
BY DEF Report, Receipt

\* A sequence of three that were selected rightly and all parsed.
LEMMA ThreeAreSelected ==
  ASSUME NEW seen, [n \in DOMAIN seen |-> seen[n].tool] = Tools
  PROVE  /\ DOMAIN seen = 1 .. 3
         /\ seen[1].tool = "lookup" /\ seen[2].tool = "summary" /\ seen[3].tool = "save"
<1>1. DOMAIN Tools = 1 .. 3 /\ Tools[1] = "lookup" /\ Tools[2] = "summary" /\ Tools[3] = "save"
  BY DEF Tools
<1> DEFINE tools == [n \in DOMAIN seen |-> seen[n].tool]
<1>2. DOMAIN tools = DOMAIN seen /\ \A n \in DOMAIN seen : tools[n] = seen[n].tool
  OBVIOUS
<1>3. tools = Tools
  OBVIOUS
<1> HIDE DEF tools
<1> QED BY <1>1, <1>2, <1>3

LEMMA FirstsAre ==
  ASSUME NEW seen, Parsed(seen) = 1 .. 3,
         seen[1].tool = "lookup", seen[2].tool = "summary", seen[3].tool = "save"
  PROVE  FirstOf(seen, "lookup") = 1 /\ FirstOf(seen, "summary") = 2 /\ FirstOf(seen, "save") = 3
<1>1. ASSUME NEW n \in 1 .. 3, \A m \in 1 .. 3 : seen[m].tool = seen[n].tool => m = n
      PROVE  FirstOf(seen, seen[n].tool) = n
  <2> DEFINE own == {m \in Parsed(seen) : seen[m].tool = seen[n].tool}
  <2>1. own = {n}
    BY <1>1
  <2>2. The(own) = n
    BY <2>1, TheOnly
  <2> QED BY <2>1, <2>2 DEF FirstOf
<1> QED BY <1>1

-----------------------------------------------------------------------------
(* What is gathered of the journal.                                        *)

LEMMA GatheredIsJournal ==
  ASSUME JournalFits, NEW gathered \in Gatherings
  PROVE  gathered \subseteq DOMAIN journal /\ gathered \subseteq Nat /\ IsFiniteSet(gathered)
<1>1. Len(journal) \in Nat /\ DOMAIN journal = 1 .. Len(journal)
  BY DEF JournalFits
<1>2. gathered \subseteq 1 .. Len(journal)
  <2>1. \A losses \in SUBSET SUBSET (DOMAIN journal) :
          gathered \in {(since .. Len(journal)) \ lost :
                          since \in 1 .. Len(journal) + 1, lost \in losses} =>
            \E since \in 1 .. Len(journal) + 1 : gathered \subseteq since .. Len(journal)
    OBVIOUS
  <2>2. {lines \in SUBSET (DOMAIN journal) : Cardinality(lines) <= MaxLost}
          \in SUBSET SUBSET (DOMAIN journal)
    OBVIOUS
  <2>3. PICK since \in 1 .. Len(journal) + 1 : gathered \subseteq since .. Len(journal)
    BY <2>1, <2>2 DEF Gatherings
  <2> QED BY <1>1, <2>3
<1>3. IsFiniteSet(1 .. Len(journal))
  BY <1>1, FS_Interval
<1>4. gathered \in SUBSET (1 .. Len(journal)) /\ 1 .. Len(journal) \subseteq Nat
  BY <1>1, <1>2
<1>5. IsFiniteSet(gathered)
  BY <1>3, <1>4, FS_Subset
<1> QED BY <1>1, <1>4, <1>5

\* The one end and the one start of a call that is matched.
LEMMA MatchIs ==
  ASSUME JournalFits, NEW gathered \in Gatherings, NEW c,
         Cardinality(EndsOf(c, gathered)) = 1, Cardinality(StartsOf(c, gathered)) = 1
  PROVE  \E s, e \in gathered :
           /\ EndsOf(c, gathered) = {e} /\ StartsOf(c, gathered) = {s}
           /\ The(EndsOf(c, gathered)) = e /\ The(StartsOf(c, gathered)) = s
           /\ IsEndOf(e, journal[e].call) /\ IsStartOf(s, journal[e].call)
           /\ journal[s].process = journal[e].process
           /\ journal[e].call \in Completed /\ Same(calls[journal[e].call], c)
<1>1. gathered \subseteq DOMAIN journal /\ gathered \subseteq Nat /\ IsFiniteSet(gathered)
  BY GatheredIsJournal
<1>2. IsFiniteSet(EndsOf(c, gathered)) /\ IsFiniteSet(StartsOf(c, gathered))
  <2>1. EndsOf(c, gathered) \subseteq gathered /\ StartsOf(c, gathered) \subseteq gathered
    BY DEF EndsOf, StartsOf
  <2> QED BY <1>1, <2>1, FS_Subset
<1>3. PICK e : EndsOf(c, gathered) = {e}
  BY <1>2, FS_Singleton
<1>4. PICK s : StartsOf(c, gathered) = {s}
  BY <1>2, FS_Singleton
<1>5. /\ e \in gathered /\ journal[e].kind = "end"
      /\ calls[journal[e].call].state = "completed" /\ Same(calls[journal[e].call], c)
  BY <1>3 DEF EndsOf
<1>6. /\ s \in gathered /\ journal[s].kind = "start"
      /\ journal[s].call = journal[e].call /\ journal[s].process = journal[e].process
  BY <1>3, <1>4 DEF StartsOf
<1>7. journal[e].call \in Completed
  BY <1>1, <1>5 DEF JournalFits, Completed
<1>8. The(EndsOf(c, gathered)) = e /\ The(StartsOf(c, gathered)) = s
  BY <1>1, <1>3, <1>4, <1>5, <1>6, TheOnly
<1> QED BY <1>3, <1>4, <1>5, <1>6, <1>7, <1>8 DEF IsEndOf, IsStartOf

-----------------------------------------------------------------------------
(* The judgement.                                                          *)

\* Of a chain that passes, every call was made and judged to the letter.
LEMMA PassedIs ==
  ASSUME NEW listed, NEW gathered, NEW disk,
         ChainVerdict(listed, gathered, disk) = "PASS"
  PROVE  LET seen == ListedCalls(listed)
         IN  /\ DOMAIN seen = 1 .. 3 /\ Parsed(seen) = 1 .. 3
             /\ seen[1].tool = "lookup" /\ seen[2].tool = "summary" /\ seen[3].tool = "save"
             /\ seen[1].input.target = "core-ktx"
             /\ Matched(seen, gathered) /\ Temporal(Boundaries(seen, gathered))
             /\ seen[2].input.lookup = seen[1].output /\ seen[3].input.report = seen[2].output
             /\ disk = "read" /\ seen[3].output.file = seen[3].input.report
             /\ FirstOf(seen, "lookup") = 1 /\ FirstOf(seen, "save") = 3
<1> DEFINE seen == ListedCalls(listed)
           first == FirstOf(seen, "lookup")
           second == FirstOf(seen, "summary")
           third == FirstOf(seen, "save")
           verdicts == {ToolExecution(seen, third, gathered, disk), SelectionOrder(seen, gathered),
                        DataTransfer(seen, first, second, third),
                        ReportCorrectness(seen, first, second),
                        FilePersistence(seen, first, third, disk)}
<1>1. WorstVerdict(verdicts) = "PASS"
  BY DEF ChainVerdict
<1>2. /\ ToolExecution(seen, third, gathered, disk) \notin {"FAIL", "NOT_PROVEN"}
      /\ SelectionOrder(seen, gathered) \notin {"FAIL", "NOT_PROVEN"}
      /\ DataTransfer(seen, first, second, third) \notin {"FAIL", "NOT_PROVEN"}
      /\ FilePersistence(seen, first, third, disk) \notin {"FAIL", "NOT_PROVEN"}
  <2>1. \A v \in verdicts : v # "FAIL" /\ v # "NOT_PROVEN"
    BY <1>1, WorstIs
  <2> QED BY <2>1
<1> HIDE DEF seen, first, second, third, verdicts
<1>3. IsCorrelated(seen, gathered) /\ Temporal(Boundaries(seen, gathered))
  BY <1>2 DEF SelectionOrder
<1>4. /\ [n \in DOMAIN seen |-> seen[n].tool] = Tools
      /\ first # 0 => seen[first].input.target = "core-ktx"
      /\ Cardinality(Parsed(seen)) = 3 /\ Matched(seen, gathered)
  BY <1>3 DEF IsCorrelated, RightSelection, first
<1>5. /\ DOMAIN seen = 1 .. 3
      /\ seen[1].tool = "lookup" /\ seen[2].tool = "summary" /\ seen[3].tool = "save"
  BY <1>4, ThreeAreSelected
<1>6. Parsed(seen) = 1 .. 3
  <2>1. Parsed(seen) \in SUBSET (1 .. 3)
    BY <1>5 DEF Parsed
  <2>2. IsFiniteSet(1 .. 3) /\ Cardinality(1 .. 3) = 3
    <3>1. 1 \in Int /\ 3 \in Int
      OBVIOUS
    <3>2. IsFiniteSet(1 .. 3) /\ Cardinality(1 .. 3) = IF 1 > 3 THEN 0 ELSE 3 - 1 + 1
      BY <3>1, FS_Interval, Zenon
    <3> QED BY <3>2
  <2> QED BY <1>4, <2>1, <2>2, FS_Subset
<1>7. first = 1 /\ second = 2 /\ third = 3
  BY <1>5, <1>6, FirstsAre DEF first, second, third
<1>8. seen[2].input.lookup = seen[1].output /\ seen[3].input.report = seen[2].output
  <2>1. WorstVerdict({Compared(seen[2].input.lookup, seen[1].output),
                      Compared(seen[3].input.report, seen[2].output)})
          = DataTransfer(seen, first, second, third)
    BY <1>7 DEF DataTransfer
  <2>2. WorstVerdict({Compared(seen[2].input.lookup, seen[1].output),
                      Compared(seen[3].input.report, seen[2].output)}) = "PASS"
    BY <1>2, <2>1, WorstIs
  <2>3. /\ Compared(seen[2].input.lookup, seen[1].output) # "FAIL"
        /\ Compared(seen[3].input.report, seen[2].output) # "FAIL"
    BY <2>2, WorstIs
  <2> QED BY <2>3 DEF Compared
<1>9. IsRead(third, disk)
  BY <1>2 DEF FilePersistence
<1>10. disk = "read" /\ seen[3].output.file = seen[3].input.report
  BY <1>2, <1>7, <1>9 DEF ToolExecution, IsRead
<1>11. seen[1].input.target = "core-ktx"
  BY <1>4, <1>7
<1> QED BY <1>3, <1>4, <1>5, <1>6, <1>7, <1>8, <1>10, <1>11 DEF seen, first, third

\* A chain that is judged so is one.
LEMMA PassedIsTrue ==
  ASSUME CallsFit, JournalFits, NEW listed, DOMAIN listed = 1 .. Len(listed), Len(listed) \in Nat,
         NEW gathered \in Gatherings, NEW disk \in DiskReadings(listed),
         ChainVerdict(listed, gathered, disk) = "PASS"
  PROVE  /\ Len(listed) = 3
         /\ \E c \in {d \in [1 .. 3 -> Completed] : IsChain(d[1], d[2], d[3])} :
              /\ \A n \in 1 .. 3 : Same(calls[c[n]], calls[listed[n]])
              /\ calls[c[3]].input.report \in reports
              /\ gathered = DOMAIN journal =>
                    \A i \in Completed, n \in 1 .. 3 : Same(calls[i], calls[listed[n]]) => i = c[n]
<1> DEFINE seen == ListedCalls(listed)
<1>1. /\ DOMAIN seen = 1 .. 3 /\ Parsed(seen) = 1 .. 3
      /\ seen[1].tool = "lookup" /\ seen[2].tool = "summary" /\ seen[3].tool = "save"
      /\ seen[1].input.target = "core-ktx"
      /\ Matched(seen, gathered) /\ Temporal(Boundaries(seen, gathered))
      /\ seen[2].input.lookup = seen[1].output /\ seen[3].input.report = seen[2].output
      /\ disk = "read" /\ seen[3].output.file = seen[3].input.report
      /\ FirstOf(seen, "save") = 3
  BY PassedIs
<1>2. DOMAIN seen = DOMAIN listed /\ \A n \in DOMAIN listed : seen[n] = calls[listed[n]]
  BY DEF ListedCalls
<1>3. Len(listed) = 3
  BY <1>1, <1>2
<1>4. seen[3].input.report \in reports
  <2>1. disk \in {"unavailable", IF seen[3].output.file \in reports THEN "read" ELSE "missing"}
    BY <1>1 DEF DiskReadings
  <2> QED BY <1>1, <2>1
<1> HIDE DEF seen
<1>5. \A n \in 1 .. 3 : \E s, e \in gathered :
           /\ EndsOf(seen[n], gathered) = {e}
           /\ The(EndsOf(seen[n], gathered)) = e /\ The(StartsOf(seen[n], gathered)) = s
           /\ IsEndOf(e, journal[e].call) /\ IsStartOf(s, journal[e].call)
           /\ journal[s].process = journal[e].process
           /\ journal[e].call \in Completed /\ Same(calls[journal[e].call], seen[n])
  <2>1. \A n \in 1 .. 3 : /\ Cardinality(EndsOf(seen[n], gathered)) = 1
                          /\ Cardinality(StartsOf(seen[n], gathered)) = 1
    BY <1>1 DEF Matched
  <2> QED BY <2>1, MatchIs
<1> DEFINE E(n) == The(EndsOf(seen[n], gathered))
           S(n) == The(StartsOf(seen[n], gathered))
<1>6. \A n \in 1 .. 3 :
           /\ E(n) \in DOMAIN journal /\ S(n) \in DOMAIN journal
           /\ IsEndOf(E(n), journal[E(n)].call) /\ IsStartOf(S(n), journal[E(n)].call)
           /\ journal[E(n)].call \in Completed /\ Same(calls[journal[E(n)].call], seen[n])
           /\ EndsOf(seen[n], gathered) = {E(n)}
  BY <1>5, GatheredIsJournal
<1>7. Boundaries(seen, gathered) = <<S(1), E(1), S(2), E(2), S(3), E(3)>>
  BY DEF Boundaries
<1>8. PICK c \in [1 .. 3 -> Completed] : \A n \in 1 .. 3 : c[n] = journal[E(n)].call
  <2>1. [n \in 1 .. 3 |-> journal[E(n)].call] \in [1 .. 3 -> Completed]
    BY <1>6
  <2> QED BY <2>1
<1>9. PICK flat : flat = Boundaries(seen, gathered)
  OBVIOUS
<1>10. /\ E(1) = flat[2] /\ S(2) = flat[3] /\ E(2) = flat[4] /\ S(3) = flat[5]
       /\ Len(flat) = 6 /\ DOMAIN flat = 1 .. 6
  <2> HIDE DEF E, S
  <2> QED BY <1>7, <1>9
<1>11. E(1) < S(2) /\ E(2) < S(3) /\ journal[E(1)].process = journal[S(2)].process
       /\ journal[E(2)].process = journal[S(3)].process
  <2>1. Temporal(flat)
    BY <1>1, <1>9
  <2> HIDE DEF E, S
  <2> QED BY <1>10, <2>1 DEF Temporal
<1> HIDE DEF E, S
<1>12. Follows(c[2], c[1]) /\ Follows(c[3], c[2])
  BY <1>6, <1>8, <1>11 DEF Follows, IsEndOf, IsStartOf
<1>13. \A n \in 1 .. 3 : Same(calls[c[n]], seen[n])
  BY <1>6, <1>8
<1>14. /\ calls[c[1]].tool = "lookup" /\ calls[c[2]].tool = "summary" /\ calls[c[3]].tool = "save"
       /\ calls[c[1]].input.target = "core-ktx"
       /\ calls[c[2]].input.lookup = calls[c[1]].output
       /\ calls[c[3]].input.report = calls[c[2]].output
       /\ calls[c[3]].input.report = seen[3].input.report
  BY <1>1, <1>13 DEF Same
<1>15. IsChain(c[1], c[2], c[3])
  BY <1>12, <1>14 DEF IsChain, Tools
<1>16. ASSUME gathered = DOMAIN journal, NEW i \in Completed, NEW n \in 1 .. 3,
              Same(calls[i], seen[n])
       PROVE  i = c[n]
  <2>1. i \in DOMAIN calls /\ calls[i].state = "completed"
    BY DEF Completed
  <2>2. PICK e \in DOMAIN journal : IsEndOf(e, i)
    BY <2>1 DEF JournalFits
  <2>3. e \in EndsOf(seen[n], gathered)
    BY <1>16, <2>1, <2>2 DEF EndsOf, IsEndOf
  <2> QED BY <1>6, <1>8, <2>2, <2>3 DEF IsEndOf
<1> QED BY <1>1, <1>2, <1>3, <1>4, <1>13, <1>14, <1>15, <1>16

\* And of full acceptance.
LEMMA AcceptedIsTrue ==
  ASSUME NEW listed, NEW gathered, NEW disk, NEW final \in {"none", "malformed", "wrong", "right"},
         FullAcceptance(listed, ChainVerdict(listed, gathered, disk), disk, final) = "PASS"
  PROVE  /\ final = "right" /\ ChainVerdict(listed, gathered, disk) = "PASS"
         /\ calls[listed[1]].output.found
<1> DEFINE seen == ListedCalls(listed)
           first == FirstOf(seen, "lookup")
           third == FirstOf(seen, "save")
           chain == ChainVerdict(listed, gathered, disk)
<1>1. WorstVerdict({chain, FinalTextAccuracy(seen, first, third, disk, final),
                    FoundScenario(seen, first)}) = "PASS"
  BY DEF FullAcceptance
<1>2. chain \in {"PASS", "FAIL", "NOT_PROVEN"}
  BY WorstIs DEF ChainVerdict
<1>3. /\ chain = "PASS"
      /\ FinalTextAccuracy(seen, first, third, disk, final) \notin {"FAIL", "NOT_PROVEN"}
      /\ FoundScenario(seen, first) \notin {"FAIL", "NOT_PROVEN"}
  <2> HIDE DEF chain, seen, first, third
  <2> QED BY <1>1, <1>2, WorstIs
<1>4. final = "right"
  <2> HIDE DEF seen, first, third
  <2> QED BY <1>3 DEF FinalTextAccuracy
<1>5. first = 1 /\ 1 \in DOMAIN seen
  BY <1>3, PassedIs
<1>6. seen[first].output.found
  <2> HIDE DEF seen, first, third
  <2> QED BY <1>3 DEF FoundScenario
<1>7. seen[1] = calls[listed[1]]
  BY <1>5 DEF ListedCalls
<1> QED BY <1>3, <1>4, <1>5, <1>6, <1>7

\* A response that lists all calls and is a chain lists every call there is.
LEMMA ChainIsEverything ==
  ASSUME CallsFit, NEW listed \in [1 .. 3 -> Completed],
         listed \in SetToSeqs({i \in DOMAIN calls : calls[i].listed}),
         \A i \in DOMAIN calls : calls[i].listed
  PROVE  \A i \in DOMAIN calls : i = listed[1] \/ i = listed[2] \/ i = listed[3]
<1>1. {i \in DOMAIN calls : calls[i].listed} = 1 .. Len(calls) /\ Len(calls) \in Nat
      /\ DOMAIN calls = 1 .. Len(calls)
  BY DEF CallsFit
<1>2. Cardinality(1 .. Len(calls)) = Len(calls)
  <2>1. Cardinality(1 .. Len(calls)) = IF 1 > Len(calls) THEN 0 ELSE Len(calls) - 1 + 1
    BY <1>1, FS_Interval
  <2> QED BY <1>1, <2>1
<1>3. /\ listed \in [1 .. Len(calls) -> 1 .. Len(calls)]
      /\ \A i, j \in 1 .. Len(calls) : i # j => listed[i] # listed[j]
  BY <1>1, <1>2 DEF SetToSeqs
<1>4. Len(calls) = 3
  <2>1. DOMAIN listed = 1 .. 3 /\ DOMAIN listed = 1 .. Len(calls)
    BY <1>3
  <2> QED BY <1>1, <2>1
<1>5. /\ listed[1] \in 1 .. 3 /\ listed[2] \in 1 .. 3 /\ listed[3] \in 1 .. 3
      /\ listed[1] # listed[2] /\ listed[2] # listed[3] /\ listed[1] # listed[3]
  BY <1>3, <1>4
<1> QED BY <1>1, <1>4, <1>5

\* What is to be said of a chain that is one, whatever was gathered.
LEMMA TrueChainIsSeen ==
  ASSUME CallsFit, JournalFits, ReportsFit, NEW listed \in [1 .. 3 -> Completed],
         listed \in SetToSeqs({i \in DOMAIN calls : calls[i].listed}),
         \A i \in DOMAIN calls : calls[i].listed,
         IsChain(listed[1], listed[2], listed[3]),
         NEW gathered \in Gatherings, NEW disk \in DiskReadings(listed)
  PROVE  LET chain == ChainVerdict(listed, gathered, disk)
         IN  /\ chain = "FAIL" => disk = "missing" /\ slips > 0
             /\ gathered = DOMAIN journal /\ disk = "read" => chain = "PASS"
<1> DEFINE seen == ListedCalls(listed)
<1>1. DOMAIN seen = 1 .. 3 /\ \A n \in 1 .. 3 : seen[n] = calls[listed[n]]
  BY DEF ListedCalls
<1>2. \A n \in 1 .. 3 : listed[n] \in DOMAIN calls /\ seen[n].state = "completed" /\ CallFits(seen[n])
  BY <1>1 DEF Completed, CallsFit
<1>3. /\ seen[1].tool = "lookup" /\ seen[2].tool = "summary" /\ seen[3].tool = "save"
      /\ seen[1].input.target = "core-ktx" /\ seen[2].input.lookup = seen[1].output
      /\ seen[3].input.report = seen[2].output
      /\ Follows(listed[2], listed[1]) /\ Follows(listed[3], listed[2])
  <2> HIDE DEF seen
  <2> QED BY <1>1 DEF IsChain, Tools
<1> HIDE DEF seen
<1>4. Parsed(seen) = 1 .. 3
  BY <1>1, <1>2 DEF Parsed
<1>5. FirstOf(seen, "lookup") = 1 /\ FirstOf(seen, "summary") = 2 /\ FirstOf(seen, "save") = 3
  BY <1>3, <1>4, FirstsAre
<1>6. \A n \in 1 .. 3 : ToolCheck(seen[n]) = "PASS"
  BY <1>2 DEF CallFits
<1>7. seen[2].output = Report(seen[1].output) /\ seen[3].output = Receipt(seen[3].input.report)
  <2>1. Compared(seen[2].output, Report(seen[2].input.lookup)) = "PASS"
    BY <1>2, <1>3, <1>6 DEF ToolCheck
  <2>2. Compared(seen[3].output, Receipt(seen[3].input.report)) = "PASS"
    BY <1>2, <1>3, <1>6 DEF ToolCheck
  <2>3. seen[2].output = Report(seen[2].input.lookup)
    BY <2>1 DEF Compared
  <2>4. seen[3].output = Receipt(seen[3].input.report)
    BY <2>2 DEF Compared
  <2> QED BY <1>3, <2>3, <2>4
<1>8. seen[3].output.file = seen[3].input.report /\ seen[3].output.file = Report(seen[1].output)
  BY <1>3, <1>7, MadeOf
<1>9. RightSelection(seen)
  <2>1. [n \in DOMAIN seen |-> seen[n].tool] = Tools
    <3>1. Tools = [n \in 1 .. 3 |-> IF n = 1 THEN "lookup" ELSE IF n = 2 THEN "summary" ELSE "save"]
      BY DEF Tools
    <3> QED BY <1>1, <1>3, <3>1
  <2> QED BY <1>3, <1>5, <2>1 DEF RightSelection
<1>10. \A n, m \in 1 .. 3 : seen[n].tool = seen[m].tool => n = m
  BY <1>3
<1>11. \A n \in 1 .. 3, i \in DOMAIN calls : Same(calls[i], seen[n]) <=> i = listed[n]
  <2>1. \A n \in 1 .. 3, i \in DOMAIN calls : Same(calls[i], seen[n]) => i = listed[n]
    <3> SUFFICES ASSUME NEW n \in 1 .. 3, NEW i \in DOMAIN calls, Same(calls[i], seen[n])
                 PROVE  i = listed[n]
      OBVIOUS
    <3>1. PICK m \in 1 .. 3 : i = listed[m]
      BY ChainIsEverything
    <3>2. seen[m].tool = seen[n].tool
      BY <1>1, <3>1 DEF Same
    <3> QED BY <1>10, <3>1, <3>2
  <2>2. \A n \in 1 .. 3 : Same(calls[listed[n]], seen[n])
    BY <1>1 DEF Same
  <2> QED BY <2>1, <2>2
<1>12. gathered \subseteq DOMAIN journal /\ gathered \subseteq Nat /\ DOMAIN journal \subseteq Nat
  BY GatheredIsJournal DEF JournalFits
<1>13. \A n \in 1 .. 3 :
         EndsOf(seen[n], gathered) = {e \in gathered : IsEndOf(e, listed[n])}
  <2> SUFFICES ASSUME NEW n \in 1 .. 3
               PROVE  EndsOf(seen[n], gathered) = {e \in gathered : IsEndOf(e, listed[n])}
    OBVIOUS
  <2>1. ASSUME NEW e \in gathered
        PROVE  /\ journal[e].kind = "end" /\ calls[journal[e].call].state = "completed"
                    /\ Same(calls[journal[e].call], seen[n])
                  => IsEndOf(e, listed[n])
               /\ IsEndOf(e, listed[n]) =>
                    /\ journal[e].kind = "end" /\ calls[journal[e].call].state = "completed"
                    /\ Same(calls[journal[e].call], seen[n])
    <3>1. journal[e].call \in DOMAIN calls
      BY <1>12 DEF JournalFits
    <3>2. calls[listed[n]].state = "completed"
      BY <1>1, <1>2
    <3> QED BY <1>11, <3>1, <3>2 DEF IsEndOf
  <2> QED BY <2>1 DEF EndsOf
<1>14. \A n \in 1 .. 3 : \E s, e \in DOMAIN journal :
         /\ IsStartOf(s, listed[n]) /\ IsEndOf(e, listed[n])
         /\ s < e /\ journal[e].process = journal[s].process
         /\ \A m \in DOMAIN journal : (IsStartOf(m, listed[n]) => m = s) /\ (IsEndOf(m, listed[n]) => m = e)
  <2> SUFFICES ASSUME NEW n \in 1 .. 3
               PROVE  \E s, e \in DOMAIN journal :
                        /\ IsStartOf(s, listed[n]) /\ IsEndOf(e, listed[n])
                        /\ s < e /\ journal[e].process = journal[s].process
                        /\ \A m \in DOMAIN journal : /\ IsStartOf(m, listed[n]) => m = s
                                                     /\ IsEndOf(m, listed[n]) => m = e
    OBVIOUS
  <2>1. listed[n] \in DOMAIN calls /\ calls[listed[n]].state = "completed"
    BY <1>1, <1>2
  <2>2. PICK s \in DOMAIN journal :
          /\ IsStartOf(s, listed[n])
          /\ \A e \in DOMAIN journal :
               IsEndOf(e, listed[n]) => s < e /\ journal[e].process = journal[s].process
    BY <2>1 DEF JournalFits
  <2>3. PICK e \in DOMAIN journal : IsEndOf(e, listed[n])
    BY <2>1 DEF JournalFits
  <2>4. \A m \in DOMAIN journal : (IsStartOf(m, listed[n]) => m = s) /\ (IsEndOf(m, listed[n]) => m = e)
    BY <2>1, <2>2, <2>3 DEF JournalFits
  <2> QED BY <2>2, <2>3, <2>4
<1>15. /\ SelectionOrder(seen, gathered) # "FAIL"
       /\ IsCorrelated(seen, gathered) => SelectionOrder(seen, gathered) = "PASS"
  <2> SUFFICES ASSUME IsCorrelated(seen, gathered) PROVE Temporal(Boundaries(seen, gathered))
    BY <1>9 DEF SelectionOrder
  <2> DEFINE E(n) == The(EndsOf(seen[n], gathered))
             S(n) == The(StartsOf(seen[n], gathered))
  <2>1. \A n \in 1 .. 3 : \E s, e \in gathered :
           /\ EndsOf(seen[n], gathered) = {e} /\ E(n) = e /\ S(n) = s
           /\ IsStartOf(s, journal[e].call)
    <3>1. \A n \in 1 .. 3 : /\ Cardinality(EndsOf(seen[n], gathered)) = 1
                            /\ Cardinality(StartsOf(seen[n], gathered)) = 1
      BY <1>4 DEF IsCorrelated, Matched
    <3> QED BY <3>1, MatchIs
  <2>2. \A n \in 1 .. 3 :
          /\ E(n) \in DOMAIN journal /\ S(n) \in DOMAIN journal
          /\ IsEndOf(E(n), listed[n]) /\ IsStartOf(S(n), listed[n])
    <3> SUFFICES ASSUME NEW n \in 1 .. 3
                 PROVE  /\ E(n) \in DOMAIN journal /\ S(n) \in DOMAIN journal
                        /\ IsEndOf(E(n), listed[n]) /\ IsStartOf(S(n), listed[n])
      OBVIOUS
    <3>1. PICK s, e \in gathered :
             /\ EndsOf(seen[n], gathered) = {e} /\ E(n) = e /\ S(n) = s
             /\ IsStartOf(s, journal[e].call)
      BY <2>1
    <3>2. IsEndOf(e, listed[n])
      BY <1>13, <3>1
    <3> HIDE DEF E, S
    <3> QED BY <1>12, <3>1, <3>2 DEF IsEndOf
  <2> HIDE DEF E, S
  <2>3. \A n \in 1 .. 3 : S(n) < E(n) /\ journal[E(n)].process = journal[S(n)].process
    BY <1>14, <2>2
  <2>4. \A n, m \in 1 .. 3 :
          Follows(listed[n], listed[m]) => E(m) < S(n) /\ journal[E(m)].process = journal[S(n)].process
    <3> SUFFICES ASSUME NEW n \in 1 .. 3, NEW m \in 1 .. 3, Follows(listed[n], listed[m])
                 PROVE  E(m) < S(n) /\ journal[E(m)].process = journal[S(n)].process
      OBVIOUS
    <3>1. PICK e, s \in DOMAIN journal :
            /\ IsEndOf(e, listed[m]) /\ IsStartOf(s, listed[n])
            /\ e < s /\ journal[e].process = journal[s].process
      BY DEF Follows, IsEndOf, IsStartOf
    <3>2. e = E(m) /\ s = S(n)
      BY <1>14, <2>2, <3>1
    <3> QED BY <3>1, <3>2
  <2>5. /\ S(1) < E(1) /\ E(1) < S(2) /\ S(2) < E(2) /\ E(2) < S(3) /\ S(3) < E(3)
        /\ journal[E(1)].process = journal[S(1)].process /\ journal[S(2)].process = journal[S(1)].process
        /\ journal[E(2)].process = journal[S(1)].process /\ journal[S(3)].process = journal[S(1)].process
        /\ journal[E(3)].process = journal[S(1)].process
    BY <1>3, <2>3, <2>4
  <2>6. Boundaries(seen, gathered) = <<S(1), E(1), S(2), E(2), S(3), E(3)>>
    BY DEF Boundaries, E, S
  <2>7. PICK flat : flat = Boundaries(seen, gathered)
    OBVIOUS
  <2>8. /\ DOMAIN flat = 1 .. 6 /\ Len(flat) = 6
        /\ flat[1] = S(1) /\ flat[2] = E(1) /\ flat[3] = S(2) /\ flat[4] = E(2)
        /\ flat[5] = S(3) /\ flat[6] = E(3)
    BY <2>6, <2>7
  <2>9. \A x \in 1 .. 6 : journal[flat[x]].process = journal[S(1)].process
    BY <2>5, <2>8
  <2>10. \A x \in 1 .. 5 : flat[x] < flat[x + 1]
    BY <2>5, <2>8
  <2>11. Temporal(flat)
    BY <2>8, <2>9, <2>10 DEF Temporal
  <2> QED BY <2>7, <2>11
<1>16. gathered = DOMAIN journal => IsCorrelated(seen, gathered) /\ SourceIsLogged(seen, gathered)
  <2> SUFFICES ASSUME gathered = DOMAIN journal
               PROVE  IsCorrelated(seen, gathered) /\ SourceIsLogged(seen, gathered)
    OBVIOUS
  <2>1. ASSUME NEW n \in 1 .. 3
        PROVE  \E s, e \in Nat : /\ EndsOf(seen[n], gathered) = {e} /\ StartsOf(seen[n], gathered) = {s}
                                 /\ journal[e].call = listed[n]
    <3>1. PICK s, e \in DOMAIN journal :
             /\ IsStartOf(s, listed[n]) /\ IsEndOf(e, listed[n])
             /\ journal[e].process = journal[s].process
             /\ \A m \in DOMAIN journal : (IsStartOf(m, listed[n]) => m = s) /\ (IsEndOf(m, listed[n]) => m = e)
      BY <1>14
    <3>2. EndsOf(seen[n], gathered) = {e}
      BY <1>13, <3>1
    <3>3. journal[e].call = listed[n]
      BY <3>1 DEF IsEndOf
    <3>4. StartsOf(seen[n], gathered) =
            {m \in gathered : /\ IsStartOf(m, listed[n]) /\ journal[m].process = journal[e].process}
      BY <3>2, <3>3 DEF StartsOf, IsStartOf
    <3>5. StartsOf(seen[n], gathered) = {s}
      BY <3>1, <3>4
    <3> QED BY <1>12, <3>1, <3>2, <3>3, <3>5
  <2>2. \A n \in 1 .. 3 : /\ Cardinality(EndsOf(seen[n], gathered)) = 1
                          /\ Cardinality(StartsOf(seen[n], gathered)) = 1
    <3> SUFFICES ASSUME NEW n \in 1 .. 3
                 PROVE  /\ Cardinality(EndsOf(seen[n], gathered)) = 1
                        /\ Cardinality(StartsOf(seen[n], gathered)) = 1
      OBVIOUS
    <3>1. PICK s, e \in Nat : EndsOf(seen[n], gathered) = {e} /\ StartsOf(seen[n], gathered) = {s}
      BY <2>1
    <3>2. Cardinality({e}) = 1 /\ Cardinality({s}) = 1
      BY FS_Singleton
    <3> QED BY <3>1, <3>2
  <2>3. Cardinality(Parsed(seen)) = 3
    <3>1. 1 \in Int /\ 3 \in Int
      OBVIOUS
    <3>2. Cardinality(1 .. 3) = IF 1 > 3 THEN 0 ELSE 3 - 1 + 1
      BY <3>1, FS_Interval, Zenon
    <3> QED BY <1>4, <3>2
  <2>4. IsCorrelated(seen, gathered)
    BY <1>4, <1>9, <2>2, <2>3 DEF IsCorrelated, Matched
  <2>5. SourceIsLogged(seen, gathered)
    <3>1. PICK e \in Nat : EndsOf(seen[1], gathered) = {e} /\ journal[e].call = listed[1]
      BY <2>1
    <3>2. journal[The(EndsOf(seen[FirstOf(seen, "lookup")], gathered))].call = listed[1]
      BY <1>5, <3>1, TheOnly
    <3>3. listed[1] \in DOMAIN calls /\ calls[listed[1]].state = "completed"
          /\ calls[listed[1]].tool = "lookup"
      BY <1>1, <1>2, <1>3
    <3>4. \E e1 \in DOMAIN journal : journal[e1].kind = "source" /\ journal[e1].call = listed[1]
      BY <3>3 DEF JournalFits
    <3> QED BY <3>2, <3>4 DEF SourceIsLogged
  <2> QED BY <2>4, <2>5
<1>17. DiskReadings(listed) = {"unavailable", IF seen[3].output.file \in reports THEN "read" ELSE "missing"}
  BY <1>5 DEF DiskReadings, seen
<1>18. disk = "missing" => slips > 0
  <2> SUFFICES ASSUME disk = "missing" PROVE slips > 0
    OBVIOUS
  <2>1. seen[3].input.report \notin reports
    BY <1>8, <1>17
  <2>2. listed[3] \in Completed /\ calls[listed[3]].tool = "save"
    BY <1>1, <1>3
  <2> QED BY <1>1, <2>1, <2>2 DEF ReportsFit
<1>19. WorstVerdict({ToolCheck(seen[n]) : n \in DOMAIN seen}) = "PASS"
  <2>1. {ToolCheck(seen[n]) : n \in DOMAIN seen} = {"PASS"}
    BY <1>1, <1>6
  <2> QED BY <2>1 DEF WorstVerdict
<1>20. /\ ToolExecution(seen, 3, gathered, disk) # "FAIL"
       /\ gathered = DOMAIN journal => ToolExecution(seen, 3, gathered, disk) = "PASS"
  <2>1. ~(Len(seen) < 3)
    <3>1. DOMAIN seen = 1 .. 3
      BY <1>1
    <3> QED BY ONLY <3>1, SMTT(30)
  <2> QED BY <1>8, <1>16, <1>19, <2>1 DEF ToolExecution
<1>21. DataTransfer(seen, 1, 2, 3) = "PASS" /\ ReportCorrectness(seen, 1, 2) = "PASS"
  <2>1. /\ Compared(seen[2].input.lookup, seen[1].output) = "PASS"
        /\ Compared(seen[3].input.report, seen[2].output) = "PASS"
        /\ Compared(seen[2].output, Report(seen[1].output)) = "PASS"
    BY <1>3, <1>7 DEF Compared
  <2>2. DataTransfer(seen, 1, 2, 3) = WorstVerdict({"PASS", "PASS"})
    BY <2>1 DEF DataTransfer
  <2>3. WorstVerdict({"PASS", "PASS"}) = "PASS"
    BY DEF WorstVerdict
  <2> QED BY <2>1, <2>2, <2>3 DEF ReportCorrectness
<1>22. /\ FilePersistence(seen, 1, 3, disk) = "FAIL" => disk = "missing"
       /\ disk = "read" => FilePersistence(seen, 1, 3, disk) = "PASS"
  BY <1>8 DEF FilePersistence, Confirmed, IsRead
<1> DEFINE verdicts == {ToolExecution(seen, 3, gathered, disk), SelectionOrder(seen, gathered),
                        DataTransfer(seen, 1, 2, 3), ReportCorrectness(seen, 1, 2),
                        FilePersistence(seen, 1, 3, disk)}
<1>23. ChainVerdict(listed, gathered, disk) = WorstVerdict(verdicts)
  BY <1>5 DEF ChainVerdict, seen
<1>24. WorstVerdict(verdicts) = "FAIL" => disk = "missing"
  <2> SUFFICES ASSUME WorstVerdict(verdicts) = "FAIL" PROVE disk = "missing"
    OBVIOUS
  <2>1. "FAIL" \in verdicts
    BY WorstIs
  <2> QED BY <1>15, <1>20, <1>21, <1>22, <2>1
<1>25. gathered = DOMAIN journal /\ disk = "read" => WorstVerdict(verdicts) = "PASS"
  <2> SUFFICES ASSUME gathered = DOMAIN journal, disk = "read" PROVE WorstVerdict(verdicts) = "PASS"
    OBVIOUS
  <2>1. verdicts = {"PASS"}
    BY <1>15, <1>16, <1>20, <1>21, <1>22
  <2> HIDE DEF verdicts
  <2> QED BY <2>1 DEF WorstVerdict
<1> HIDE DEF verdicts
<1> QED BY <1>18, <1>23, <1>24, <1>25

-----------------------------------------------------------------------------
(* The steps.                                                              *)

LEMMA CompositionBegins == CompositionInit => CompositionInv
<1> SUFFICES ASSUME CompositionInit PROVE CompositionInv
  OBVIOUS
<1>1. CallsFit /\ Completed = {}
  BY DEF CompositionInit, CallsFit, Completed
<1>2. JournalFits
  <2>1. journal \in Seq(JournalEvents) /\ process \in Nat /\ DOMAIN journal = {} /\ DOMAIN calls = {}
    BY DEF CompositionInit
  <2> QED BY <2>1 DEF JournalFits
<1>3. ReportsFit /\ ResponseFits
  BY <1>1 DEF CompositionInit, ReportsFit, ResponseFits
<1>4. BackendFits
  BY DEF CompositionInit, BackendFits
<1> QED BY <1>1, <1>2, <1>3, <1>4 DEF CompositionInv

\* What the backend does leaves the tools alone.
LEMMA ToolsKeep ==
  ASSUME CompositionInv, UNCHANGED <<serverVars, slips, response>>
  PROVE  CallsFit' /\ JournalFits' /\ ReportsFit' /\ ResponseFits'
<1>1. UNCHANGED <<calls, journal, process, reports, slips, response>>
  BY DEF serverVars
<1>2. CallsFit'
  BY <1>1 DEF CompositionInv, CallsFit
<1>3. JournalFits'
  BY <1>1 DEF CompositionInv, JournalFits, IsStartOf, IsEndOf, Running
<1>4. ReportsFit' /\ ResponseFits'
  BY <1>1 DEF CompositionInv, ReportsFit, ResponseFits, Completed, Running
<1> QED BY <1>2, <1>3, <1>4

LEMMA BackendKeeps ==
  ASSUME CompositionInv,
         Reserve \/ Dispatch \/ RequestFails \/ KeepResponse \/ KeepOperation \/ BackendStops
  PROVE  CompositionInv'
<1>1. UNCHANGED <<serverVars, slips, response>>
  BY DEF Reserve, Dispatch, RequestFails, KeepResponse, KeepOperation, BackendStops
<1>2. BackendFits'
  <2>1. BackendFits /\ response' = response
    BY <1>1 DEF CompositionInv
  <2>2. CASE Reserve
    BY <2>1, <2>2 DEF BackendFits, Reserve, Tell
  <2>3. CASE Dispatch
    BY <2>1, <2>3 DEF BackendFits, Dispatch, Tell
  <2>4. CASE RequestFails
    BY <2>1, <2>4 DEF BackendFits, RequestFails, Tell
  <2>5. CASE KeepResponse
    BY <2>1, <2>5 DEF BackendFits, KeepResponse, Tell
  <2>6. CASE KeepOperation
    BY <2>1, <2>6 DEF BackendFits, KeepOperation, Tell, Invocation
  <2>7. CASE BackendStops
    BY <2>1, <2>7 DEF BackendFits, BackendStops
  <2> QED BY <2>2, <2>3, <2>4, <2>5, <2>6, <2>7
<1> QED BY <1>1, <1>2, ToolsKeep DEF CompositionInv

\* And the tools leave the backend alone.
LEMMA RecordsKeep ==
  ASSUME BackendFits, UNCHANGED <<backendVars, response>>
  PROVE  BackendFits'
BY DEF BackendFits, backendVars

\* A call begins: one call more, and its start.
LEMMA CallIsAdded ==
  ASSUME CallsFit, JournalFits, NEW q, DOMAIN q = DOMAIN calls,
         \A i \in DOMAIN calls : /\ CallFits(q[i]) /\ q[i].state = calls[i].state
                                 /\ q[i].tool = calls[i].tool /\ q[i].input = calls[i].input,
         NEW c, CallFits(c), c.state = "running",
         calls' = Append(q, c), journal' = Append(journal, Event("start", Len(calls) + 1)),
         process' = process
  PROVE  /\ CallsFit' /\ JournalFits'
         /\ Completed' = Completed
         /\ \A i \in Completed : calls'[i].tool = calls[i].tool /\ calls'[i].input = calls[i].input
<1>1. Len(calls) \in Nat /\ DOMAIN calls = 1 .. Len(calls) /\ Len(q) = Len(calls)
  BY DEF CallsFit
<1>2. /\ Len(calls') = Len(calls) + 1 /\ DOMAIN calls' = 1 .. Len(calls) + 1
      /\ \A i \in DOMAIN calls : i \in DOMAIN calls' /\ calls'[i] = q[i]
      /\ calls'[Len(calls) + 1] = c
      /\ \A i \in DOMAIN calls' : i \in DOMAIN calls \/ i = Len(calls) + 1
  BY <1>1
<1>3. CallsFit'
  BY <1>1, <1>2 DEF CallsFit
<1>4. PICK k : k = Len(calls) + 1
  OBVIOUS
<1>5. k \in Nat /\ k \notin DOMAIN calls /\ k \in DOMAIN calls' /\ calls'[k] = c
  BY <1>1, <1>2, <1>4
<1>6. PICK s \in Nat : s = Len(journal) + 1
  BY DEF JournalFits
<1>7. PICK event \in JournalEvents :
        /\ event = Event("start", k) /\ event.kind = "start" /\ event.call = k
        /\ event.process = process
  BY <1>5 DEF Event, JournalEvents, JournalFits
<1>8. /\ journal' \in Seq(JournalEvents) /\ DOMAIN journal' = 1 .. s /\ s \in DOMAIN journal'
      /\ DOMAIN journal = 1 .. s - 1 /\ s \notin DOMAIN journal
      /\ \A n \in DOMAIN journal : n \in DOMAIN journal' /\ journal'[n] = journal[n] /\ n < s
      /\ journal'[s] = event
      /\ \A n \in DOMAIN journal' : n \in DOMAIN journal \/ n = s
  BY <1>4, <1>6, <1>7 DEF JournalFits
<1>9. \A i : \A n \in DOMAIN journal :
        (IsStartOf(n, i)' <=> IsStartOf(n, i)) /\ (IsEndOf(n, i)' <=> IsEndOf(n, i))
  BY <1>8 DEF IsStartOf, IsEndOf
<1>10. \A i : (IsStartOf(s, i)' <=> i = k) /\ ~IsEndOf(s, i)'
  BY <1>7, <1>8 DEF IsStartOf, IsEndOf
<1>11. \A n \in DOMAIN journal : ~IsStartOf(n, k) /\ ~IsEndOf(n, k)
  BY <1>5 DEF JournalFits, IsStartOf, IsEndOf
<1>12. \A i \in DOMAIN calls : Running(i)' <=> Running(i)
  BY <1>2 DEF Running
<1>13. \A n \in DOMAIN journal' : journal'[n].call \in DOMAIN calls'
  <2>1. \A n \in DOMAIN journal : journal'[n].call \in DOMAIN calls
    BY <1>8 DEF JournalFits
  <2>2. journal'[s].call = k
    BY <1>7, <1>8
  <2> QED BY <1>2, <1>5, <1>8, <2>1, <2>2
<1>14. ASSUME NEW i \in DOMAIN calls'
       PROVE  /\ \A m, n \in DOMAIN journal' : IsStartOf(m, i)' /\ IsStartOf(n, i)' => m = n
              /\ \A m, n \in DOMAIN journal' : IsEndOf(m, i)' /\ IsEndOf(n, i)' => m = n
              /\ \E b \in DOMAIN journal' :
                   /\ IsStartOf(b, i)'
                   /\ Running(i)' => journal'[b].process = process'
                   /\ \A e \in DOMAIN journal' : IsEndOf(e, i)' =>
                        ~Running(i)' /\ b < e /\ journal'[e].process = journal'[b].process
              /\ calls'[i].state = "completed" =>
                   /\ \E e \in DOMAIN journal' : IsEndOf(e, i)'
                   /\ calls'[i].tool = "lookup" =>
                        \E e \in DOMAIN journal' : journal'[e].kind = "source" /\ journal'[e].call = i
  <2>1. CASE i = k
    <3>1. \A n \in DOMAIN journal' : (IsStartOf(n, i)' <=> n = s) /\ ~IsEndOf(n, i)'
      BY <1>8, <1>9, <1>10, <1>11, <2>1
    <3>2. calls'[i].state = "running"
      BY <1>5, <2>1
    <3>3. journal'[s].process = process'
      BY <1>7, <1>8
    <3> QED BY <1>8, <3>1, <3>2, <3>3
  <2>2. CASE i # k
    <3>1. i \in DOMAIN calls
      BY <1>2, <1>4, <2>2
    <3>2. \A n \in DOMAIN journal' : IsStartOf(n, i)' <=> n \in DOMAIN journal /\ IsStartOf(n, i)
      BY <1>8, <1>9, <1>10, <2>2
    <3>3. \A n \in DOMAIN journal' : IsEndOf(n, i)' <=> n \in DOMAIN journal /\ IsEndOf(n, i)
      BY <1>8, <1>9, <1>10, <2>2
    <3>4. PICK b \in DOMAIN journal :
                   /\ IsStartOf(b, i)
                   /\ Running(i) => journal[b].process = process
                   /\ \A e \in DOMAIN journal : IsEndOf(e, i) =>
                        ~Running(i) /\ b < e /\ journal[e].process = journal[b].process
      BY <3>1 DEF JournalFits
    <3>5. /\ b \in DOMAIN journal' /\ IsStartOf(b, i)'
          /\ Running(i)' => journal'[b].process = process'
          /\ \A e \in DOMAIN journal' : IsEndOf(e, i)' =>
               ~Running(i)' /\ b < e /\ journal'[e].process = journal'[b].process
      BY <1>8, <1>12, <3>1, <3>2, <3>3, <3>4
    <3>6. /\ \A m, n \in DOMAIN journal' : IsStartOf(m, i)' /\ IsStartOf(n, i)' => m = n
          /\ \A m, n \in DOMAIN journal' : IsEndOf(m, i)' /\ IsEndOf(n, i)' => m = n
      BY <3>1, <3>2, <3>3 DEF JournalFits
    <3>7. calls'[i].state = calls[i].state /\ calls'[i].tool = calls[i].tool
      BY <1>2, <3>1
    <3>8. calls'[i].state = "completed" =>
                   /\ \E e \in DOMAIN journal' : IsEndOf(e, i)'
                   /\ calls'[i].tool = "lookup" =>
                        \E e \in DOMAIN journal' : journal'[e].kind = "source" /\ journal'[e].call = i
      <4>1. calls[i].state = "completed" =>
                   /\ \E e \in DOMAIN journal : IsEndOf(e, i)
                   /\ calls[i].tool = "lookup" =>
                        \E e \in DOMAIN journal : journal[e].kind = "source" /\ journal[e].call = i
        BY <3>1 DEF JournalFits
      <4> QED BY <1>8, <1>9, <3>7, <4>1
    <3> QED BY <3>5, <3>6, <3>8
  <2> QED BY <2>1, <2>2
<1>15. process' \in Nat
  BY DEF JournalFits
<1>16. JournalFits'
  BY <1>8, <1>13, <1>14, <1>15 DEF JournalFits
<1>17. Completed' = Completed
  BY <1>2, <1>4, <1>5 DEF Completed
<1>18. \A i \in Completed : calls'[i].tool = calls[i].tool /\ calls'[i].input = calls[i].input
  BY <1>2 DEF Completed
<1> QED BY <1>3, <1>16, <1>17, <1>18

\* A call ends: it is replaced by what it has become, and its end is logged.
LEMMA CallIsEnded ==
  ASSUME CallsFit, JournalFits, NEW i \in DOMAIN calls, Running(i),
         NEW c, CallFits(c), c.state # "running", c.tool = calls[i].tool,
         calls' = [calls EXCEPT ![i] = c], process' = process,
         NEW z \in Nat, journal' \in Seq(JournalEvents), DOMAIN journal' = 1 .. z,
         Len(journal) < z, \A n \in DOMAIN journal : journal'[n] = journal[n],
         \A n \in DOMAIN journal' : n \notin DOMAIN journal =>
           /\ journal'[n].call = i /\ journal'[n].process = process
           /\ journal'[n].kind = IF n = z THEN "end" ELSE "source",
         c.tool = "lookup" => \E n \in DOMAIN journal' : n \notin DOMAIN journal /\ n # z
  PROVE  CallsFit' /\ JournalFits'
<1>1. Len(calls) \in Nat /\ DOMAIN calls = 1 .. Len(calls)
  BY DEF CallsFit
<1>2. DOMAIN calls' = DOMAIN calls /\ calls'[i] = c
      /\ \A j \in DOMAIN calls : j # i => calls'[j] = calls[j]
  OBVIOUS
<1>3. CallsFit'
  <2>1. Len(calls') = Len(calls)
    BY <1>1, <1>2
  <2> QED BY <1>1, <1>2, <2>1 DEF CallsFit
<1>4. /\ Len(journal) \in Nat /\ DOMAIN journal = 1 .. Len(journal)
      /\ \A n \in DOMAIN journal : n \in DOMAIN journal' /\ n < z /\ n \in Nat
      /\ z \in DOMAIN journal' /\ z \notin DOMAIN journal
  BY DEF JournalFits
<1>5. \A j : \A n \in DOMAIN journal :
        (IsStartOf(n, j)' <=> IsStartOf(n, j)) /\ (IsEndOf(n, j)' <=> IsEndOf(n, j))
  BY <1>4 DEF IsStartOf, IsEndOf
<1>6. \A n \in DOMAIN journal' : n \notin DOMAIN journal =>
        \A j : ~IsStartOf(n, j)' /\ (IsEndOf(n, j)' <=> n = z /\ j = i)
  BY DEF IsStartOf, IsEndOf
<1>7. \A n \in DOMAIN journal' : journal'[n].call \in DOMAIN calls'
  BY <1>2, <1>4 DEF JournalFits
<1>8. \A n \in DOMAIN journal : ~IsEndOf(n, i)
  BY DEF JournalFits
<1>9. c.state \in {"completed", "failed"} /\ ~Running(i)'
  BY <1>2 DEF CallFits, Running
<1>10. ASSUME NEW j \in DOMAIN calls'
       PROVE  /\ \A m, n \in DOMAIN journal' : IsStartOf(m, j)' /\ IsStartOf(n, j)' => m = n
              /\ \A m, n \in DOMAIN journal' : IsEndOf(m, j)' /\ IsEndOf(n, j)' => m = n
              /\ \E b \in DOMAIN journal' :
                   /\ IsStartOf(b, j)'
                   /\ Running(j)' => journal'[b].process = process'
                   /\ \A e \in DOMAIN journal' : IsEndOf(e, j)' =>
                        ~Running(j)' /\ b < e /\ journal'[e].process = journal'[b].process
              /\ calls'[j].state = "completed" =>
                   /\ \E e \in DOMAIN journal' : IsEndOf(e, j)'
                   /\ calls'[j].tool = "lookup" =>
                        \E e \in DOMAIN journal' : journal'[e].kind = "source" /\ journal'[e].call = j
  <2>1. j \in DOMAIN calls
    BY <1>2
  <2>2. PICK b \in DOMAIN journal :
               /\ IsStartOf(b, j)
               /\ Running(j) => journal[b].process = process
               /\ \A e \in DOMAIN journal : IsEndOf(e, j) =>
                    ~Running(j) /\ b < e /\ journal[e].process = journal[b].process
    BY <2>1 DEF JournalFits
  <2>3. \A n \in DOMAIN journal' : IsStartOf(n, j)' <=> n \in DOMAIN journal /\ IsStartOf(n, j)
    BY <1>5, <1>6
  <2>4. \A m, n \in DOMAIN journal' : IsStartOf(m, j)' /\ IsStartOf(n, j)' => m = n
    BY <2>1, <2>3 DEF JournalFits
  <2>5. b \in DOMAIN journal' /\ IsStartOf(b, j)' /\ journal'[b] = journal[b] /\ b < z
    BY <1>4, <2>2, <2>3
  <2>6. CASE j = i
    <3>1. \A n \in DOMAIN journal' : IsEndOf(n, j)' <=> n = z
      BY <1>4, <1>5, <1>6, <1>8, <2>6
    <3>2. journal'[z].process = journal'[b].process
      <4>1. journal[b].process = process
        BY <2>2, <2>6
      <4>2. journal'[z].process = process
        BY <1>4
      <4> QED BY <2>5, <4>1, <4>2
    <3>3. \A e \in DOMAIN journal' : IsEndOf(e, j)' =>
                        ~Running(j)' /\ b < e /\ journal'[e].process = journal'[b].process
      BY <1>9, <2>5, <2>6, <3>1, <3>2
    <3>4. calls'[j].tool = "lookup" =>
            \E e \in DOMAIN journal' : journal'[e].kind = "source" /\ journal'[e].call = j
      BY <1>2, <2>6
    <3> QED BY <1>4, <1>9, <2>4, <2>5, <2>6, <3>1, <3>3, <3>4
  <2>7. CASE j # i
    <3>1. \A n \in DOMAIN journal' : IsEndOf(n, j)' <=> n \in DOMAIN journal /\ IsEndOf(n, j)
      BY <1>5, <1>6, <2>7
    <3>2. calls'[j] = calls[j] /\ (Running(j)' <=> Running(j))
      BY <1>2, <2>1, <2>7 DEF Running
    <3>3. \A m, n \in DOMAIN journal' : IsEndOf(m, j)' /\ IsEndOf(n, j)' => m = n
      BY <2>1, <3>1 DEF JournalFits
    <3>4. /\ Running(j)' => journal'[b].process = process'
          /\ \A e \in DOMAIN journal' : IsEndOf(e, j)' =>
                ~Running(j)' /\ b < e /\ journal'[e].process = journal'[b].process
      BY <2>2, <2>5, <3>1, <3>2
    <3>5. calls[j].state = "completed" =>
                   /\ \E e \in DOMAIN journal : IsEndOf(e, j)
                   /\ calls[j].tool = "lookup" =>
                        \E e \in DOMAIN journal : journal[e].kind = "source" /\ journal[e].call = j
      BY <2>1 DEF JournalFits
    <3>6. calls'[j].state = "completed" =>
                   /\ \E e \in DOMAIN journal' : IsEndOf(e, j)'
                   /\ calls'[j].tool = "lookup" =>
                        \E e \in DOMAIN journal' : journal'[e].kind = "source" /\ journal'[e].call = j
      BY <1>4, <1>5, <3>2, <3>5
    <3> QED BY <2>4, <2>5, <3>3, <3>4, <3>6
  <2> QED BY <2>6, <2>7
<1>11. process' \in Nat
  BY DEF JournalFits
<1>12. JournalFits'
  BY <1>7, <1>10, <1>11 DEF JournalFits
<1> QED BY <1>3, <1>12

\* What has become of a call that ended.
LEMMA EndedIs ==
  ASSUME CallsFit, NEW i \in DOMAIN calls, NEW state \in {"completed", "failed"}, NEW output,
         CallEnds(i, state, output)
  PROVE  \E c : /\ calls' = [calls EXCEPT ![i] = c]
                /\ DOMAIN c = {"tool", "input", "output", "state", "listed"}
                /\ c.tool = calls[i].tool /\ c.input = calls[i].input /\ c.listed = calls[i].listed
                /\ c.state = state /\ c.output = output
<1>1. DOMAIN calls[i] = {"tool", "input", "output", "state", "listed"}
  BY DEF CallsFit, CallFits
<1>2. PICK d : d = [calls[i] EXCEPT !.state = state]
  OBVIOUS
<1>3. PICK c : c = [d EXCEPT !.output = output]
  OBVIOUS
<1>4. calls' = [calls EXCEPT ![i] = c]
  BY <1>2, <1>3, Zenon DEF CallEnds
<1>5. /\ DOMAIN d = {"tool", "input", "output", "state", "listed"}
      /\ d.tool = calls[i].tool /\ d.input = calls[i].input /\ d.listed = calls[i].listed
      /\ d.state = state
  BY <1>1, <1>2
<1>6. /\ DOMAIN c = {"tool", "input", "output", "state", "listed"}
      /\ c.tool = d.tool /\ c.input = d.input /\ c.listed = d.listed
      /\ c.state = d.state /\ c.output = output
  BY <1>3, <1>5
<1> QED BY <1>4, <1>5, <1>6

LEMMA ModelCallsKeeps ==
  ASSUME CompositionInv, NEW tool \in ToSet(Tools), ModelCalls(tool)
  PROVE  CompositionInv'
<1>1. PICK slip \in 0 .. 1 : \E input \in Passed(tool, slip) :
        /\ Slip(IF \E i \in DOMAIN calls : calls[i].tool = tool THEN 1 ELSE slip)
        /\ Starts(tool, input)
  BY DEF ModelCalls
<1>2. PICK input : Starts(tool, input)
  BY <1>1
<1>3. PICK c : c = [tool |-> tool, input |-> input, output |-> Nothing, state |-> "running", listed |-> TRUE]
  OBVIOUS
<1>4. /\ calls' = Append(calls, c) /\ journal' = Append(journal, Event("start", Len(calls) + 1))
      /\ UNCHANGED <<backendVars, process, reports, response>>
  BY <1>2, <1>3 DEF Starts
<1>5. tool \in {"lookup", "summary", "save"}
  BY DEF ToSet, Tools
<1>6. CallFits(c) /\ c.state = "running"
  BY <1>3, <1>5 DEF CallFits
<1>7. /\ CallsFit' /\ JournalFits' /\ Completed' = Completed
      /\ \A i \in Completed : calls'[i].tool = calls[i].tool /\ calls'[i].input = calls[i].input
  BY <1>4, <1>6, CallIsAdded DEF CompositionInv, CallsFit
<1>8. slips \in Nat /\ slips' \in Nat /\ slips <= slips'
  <2>1. PICK n \in 0 .. 1 : slips' = slips + n
    BY <1>1 DEF Slip
  <2> QED BY <2>1 DEF CompositionInv, ReportsFit
<1>9. ReportsFit'
  <2>1. \A i \in Completed : calls[i].tool = "save" => slips > 0 \/ calls[i].input.report \in reports
    BY DEF CompositionInv, ReportsFit
  <2>2. slips > 0 => slips' > 0
    BY <1>8
  <2>3. reports' = reports
    BY <1>4
  <2>4. \A i \in Completed' :
          calls'[i].tool = "save" => slips' > 0 \/ calls'[i].input.report \in reports'
    BY <1>7, <2>1, <2>2, <2>3
  <2> QED BY <1>8, <2>4, Zenon DEF ReportsFit
<1>10. ResponseFits' /\ BackendFits'
  BY <1>4, RecordsKeep DEF CompositionInv, ResponseFits, ModelCalls, AtWork
<1> QED BY <1>7, <1>9, <1>10 DEF CompositionInv

LEMMA DeliveredAgainKeeps ==
  ASSUME CompositionInv, NEW i \in DOMAIN calls, DeliveredAgain(i)
  PROVE  CompositionInv'
<1>1. CallFits(calls[i]) /\ Len(calls) \in Nat /\ DOMAIN calls = 1 .. Len(calls)
  BY DEF CompositionInv, CallsFit
<1>2. PICK u : u = [calls[i] EXCEPT !.listed = FALSE]
  OBVIOUS
<1>3. /\ u.tool = calls[i].tool /\ u.input = calls[i].input /\ u.output = calls[i].output
      /\ u.state = calls[i].state /\ u.listed = FALSE
      /\ DOMAIN u = {"tool", "input", "output", "state", "listed"}
  BY <1>1, <1>2 DEF CallFits
<1>4. CallFits(u)
  <2>1. ToolCheck(u) = ToolCheck(calls[i])
    BY <1>3 DEF ToolCheck
  <2> QED BY <1>1, <1>3, <2>1 DEF CallFits
<1>5. PICK d : d = [calls[i] EXCEPT !.output = Nothing]
  OBVIOUS
<1>6. PICK c : c = [d EXCEPT !.state = "running"]
  OBVIOUS
<1>7. CallFits(c) /\ c.state = "running"
  <2>1. /\ DOMAIN d = {"tool", "input", "output", "state", "listed"}
        /\ d.tool = calls[i].tool /\ d.listed = calls[i].listed
    BY <1>1, <1>5 DEF CallFits
  <2>2. /\ DOMAIN c = {"tool", "input", "output", "state", "listed"}
        /\ c.tool = calls[i].tool /\ c.listed = calls[i].listed /\ c.state = "running"
    BY <1>6, <2>1
  <2> QED BY <1>1, <2>2 DEF CallFits
<1>8. PICK q : q = [calls EXCEPT ![i] = u]
  OBVIOUS
<1>9. /\ calls' = Append(q, c) /\ journal' = Append(journal, Event("start", Len(calls) + 1))
      /\ UNCHANGED <<backendVars, process, reports, response>> /\ slips' = slips + 1
  BY <1>2, <1>5, <1>6, <1>8, Zenon DEF DeliveredAgain, Slip
<1>10. /\ DOMAIN q = DOMAIN calls
       /\ \A j \in DOMAIN calls : /\ CallFits(q[j]) /\ q[j].state = calls[j].state
                                  /\ q[j].tool = calls[j].tool /\ q[j].input = calls[j].input
  BY <1>3, <1>4, <1>8 DEF CompositionInv, CallsFit
<1>11. /\ CallsFit' /\ JournalFits' /\ Completed' = Completed
       /\ \A j \in Completed : calls'[j].tool = calls[j].tool /\ calls'[j].input = calls[j].input
  BY <1>7, <1>9, <1>10, CallIsAdded DEF CompositionInv
<1>12. slips' \in Nat /\ slips' > 0
  BY <1>9 DEF CompositionInv, ReportsFit
<1>13. ReportsFit'
  <2>1. slips' > 0 /\ slips' \in Nat
    BY <1>12
  <2>2. \A j \in Completed' :
          calls'[j].tool = "save" => slips' > 0 \/ calls'[j].input.report \in reports'
    BY <2>1, Zenon
  <2> QED BY <2>1, <2>2, Zenon DEF ReportsFit
<1>14. ResponseFits' /\ BackendFits'
  BY <1>9, RecordsKeep DEF CompositionInv, ResponseFits, DeliveredAgain, AtWork
<1> QED BY <1>11, <1>13, <1>14 DEF CompositionInv

\* Something is at work, so there is no response yet.
LEMMA NoResponseYet ==
  ASSUME CompositionInv, NEW i \in DOMAIN calls, Running(i), UNCHANGED <<backendVars, response>>
  PROVE  ResponseFits' /\ BackendFits'
BY RecordsKeep DEF CompositionInv, ResponseFits

LEMMA EventIs ==
  ASSUME JournalFits, NEW i \in Nat, NEW kind \in {"start", "source", "end"}
  PROVE  /\ Event(kind, i) \in JournalEvents
         /\ Event(kind, i).kind = kind /\ Event(kind, i).call = i /\ Event(kind, i).process = process
<1>1. process \in Nat
  BY DEF JournalFits
<1> QED BY <1>1 DEF Event, JournalEvents

\* The journal that one event is added to, as the lemma on ends wants it.
LEMMA EndIsLogged ==
  ASSUME JournalFits, NEW i \in Nat, journal' = Append(journal, Event("end", i))
  PROVE  \E z \in Nat :
           /\ journal' \in Seq(JournalEvents) /\ DOMAIN journal' = 1 .. z /\ Len(journal) < z
           /\ \A n \in DOMAIN journal : journal'[n] = journal[n]
           /\ \A n \in DOMAIN journal' : n \notin DOMAIN journal =>
                /\ journal'[n].call = i /\ journal'[n].process = process
                /\ journal'[n].kind = IF n = z THEN "end" ELSE "source"
<1>1. PICK z \in Nat : z = Len(journal) + 1
  BY DEF JournalFits
<1>2. PICK event \in JournalEvents :
        /\ event = Event("end", i) /\ event.kind = "end" /\ event.call = i /\ event.process = process
  BY EventIs
<1>3. /\ journal' \in Seq(JournalEvents) /\ DOMAIN journal' = 1 .. z /\ Len(journal) < z
      /\ \A n \in DOMAIN journal : journal'[n] = journal[n]
      /\ \A n \in DOMAIN journal' : n \notin DOMAIN journal => n = z /\ journal'[n] = event
  BY <1>1, <1>2 DEF JournalFits
<1> QED BY <1>2, <1>3

LEMMA SummaryEndsKeeps ==
  ASSUME CompositionInv, NEW i \in DOMAIN calls, SummaryEnds(i)
  PROVE  CompositionInv'
<1>1. CallsFit /\ JournalFits /\ i \in Nat
  BY DEF CompositionInv, CallsFit
<1>2. /\ Running(i) /\ calls[i].tool = "summary" /\ process' = process
      /\ UNCHANGED <<backendVars, reports, slips, response>>
      /\ CallEnds(i, "completed", Report(calls[i].input.lookup))
      /\ journal' = Append(journal, Event("end", i))
  BY DEF SummaryEnds
<1>3. PICK c : /\ calls' = [calls EXCEPT ![i] = c]
               /\ DOMAIN c = {"tool", "input", "output", "state", "listed"}
               /\ c.tool = calls[i].tool /\ c.input = calls[i].input /\ c.listed = calls[i].listed
               /\ c.state = "completed" /\ c.output = Report(calls[i].input.lookup)
  BY <1>1, <1>2, EndedIs
<1>4. CallFits(c)
  <2>1. ToolCheck(c) = "PASS"
    BY <1>2, <1>3 DEF ToolCheck, Compared
  <2>2. CallFits(calls[i])
    BY <1>1 DEF CallsFit
  <2> QED BY <1>3, <2>1, <2>2 DEF CallFits
<1>5. CallsFit' /\ JournalFits'
  <2>1. PICK z \in Nat :
           /\ journal' \in Seq(JournalEvents) /\ DOMAIN journal' = 1 .. z /\ Len(journal) < z
           /\ \A n \in DOMAIN journal : journal'[n] = journal[n]
           /\ \A n \in DOMAIN journal' : n \notin DOMAIN journal =>
                /\ journal'[n].call = i /\ journal'[n].process = process
                /\ journal'[n].kind = IF n = z THEN "end" ELSE "source"
    BY <1>1, <1>2, EndIsLogged
  <2>2. c.state # "running" /\ c.tool # "lookup"
    BY <1>2, <1>3
  <2>3. c.tool = "lookup" => \E n \in DOMAIN journal' : n \notin DOMAIN journal /\ n # z
    BY <2>2
  <2>4. calls' = [calls EXCEPT ![i] = c] /\ process' = process /\ Running(i) /\ c.tool = calls[i].tool
    BY <1>2, <1>3
  <2>5. CallFits(c) /\ c.state # "running"
    BY <1>3, <1>4
  <2> QED BY <1>1, <2>1, <2>3, <2>4, <2>5, CallIsEnded
<1>6. ReportsFit'
  <2>1. \A j \in Completed' : j = i \/ (j \in Completed /\ calls'[j] = calls[j])
    BY <1>3 DEF Completed
  <2>2. calls'[i].tool # "save"
    BY <1>2, <1>3
  <2> QED BY <1>2, <2>1, <2>2 DEF CompositionInv, ReportsFit
<1>7. ResponseFits' /\ BackendFits'
  BY <1>2, NoResponseYet
<1> QED BY <1>5, <1>6, <1>7 DEF CompositionInv

LEMMA SaveEndsKeeps ==
  ASSUME CompositionInv, NEW i \in DOMAIN calls, SaveEnds(i)
  PROVE  CompositionInv'
<1>1. CallsFit /\ JournalFits /\ i \in Nat
  BY DEF CompositionInv, CallsFit
<1>2. /\ Running(i) /\ calls[i].tool = "save" /\ process' = process
      /\ UNCHANGED <<backendVars, slips, response>>
      /\ journal' = Append(journal, Event("end", i))
      /\ \/ /\ CallEnds(i, "completed", Receipt(calls[i].input.report))
            /\ reports' = reports \cup {calls[i].input.report}
         \/ CallEnds(i, "failed", Nothing) /\ reports \subseteq reports'
  BY DEF SaveEnds
<1>3. PICK c : /\ calls' = [calls EXCEPT ![i] = c]
               /\ DOMAIN c = {"tool", "input", "output", "state", "listed"}
               /\ c.tool = calls[i].tool /\ c.input = calls[i].input /\ c.listed = calls[i].listed
               /\ \/ c.state = "completed" /\ c.output = Receipt(calls[i].input.report)
                       /\ reports' = reports \cup {calls[i].input.report}
                  \/ c.state = "failed" /\ reports \subseteq reports'
  <2>1. CASE CallEnds(i, "completed", Receipt(calls[i].input.report))
             /\ reports' = reports \cup {calls[i].input.report}
    BY <1>1, <2>1, EndedIs
  <2>2. CASE CallEnds(i, "failed", Nothing) /\ reports \subseteq reports'
    BY <1>1, <2>2, EndedIs
  <2> QED BY <1>2, <2>1, <2>2
<1>4. CallFits(c) /\ c.state # "running"
  <2>1. c.state = "completed" => ToolCheck(c) = "PASS"
    BY <1>2, <1>3 DEF ToolCheck, Compared
  <2>2. CallFits(calls[i])
    BY <1>1 DEF CallsFit
  <2> QED BY <1>3, <2>1, <2>2 DEF CallFits
<1>5. CallsFit' /\ JournalFits'
  <2>1. PICK z \in Nat :
           /\ journal' \in Seq(JournalEvents) /\ DOMAIN journal' = 1 .. z /\ Len(journal) < z
           /\ \A n \in DOMAIN journal : journal'[n] = journal[n]
           /\ \A n \in DOMAIN journal' : n \notin DOMAIN journal =>
                /\ journal'[n].call = i /\ journal'[n].process = process
                /\ journal'[n].kind = IF n = z THEN "end" ELSE "source"
    BY <1>1, <1>2, EndIsLogged
  <2>2. c.tool # "lookup"
    BY <1>2, <1>3
  <2>3. c.tool = "lookup" => \E n \in DOMAIN journal' : n \notin DOMAIN journal /\ n # z
    BY <2>2
  <2>4. calls' = [calls EXCEPT ![i] = c] /\ process' = process /\ Running(i) /\ c.tool = calls[i].tool
    BY <1>2, <1>3
  <2>5. CallFits(c) /\ c.state # "running"
    BY <1>3, <1>4
  <2> QED BY <1>1, <2>1, <2>3, <2>4, <2>5, CallIsEnded
<1>6. ReportsFit'
  <2>1. \A j \in Completed' : j = i \/ (j \in Completed /\ calls'[j] = calls[j])
    BY <1>3 DEF Completed
  <2>2. calls'[i] = c /\ c.input = calls[i].input /\ reports \subseteq reports'
    BY <1>3
  <2>3. i \in Completed' => calls'[i].input.report \in reports'
    BY <1>3, <2>2 DEF Completed
  <2> QED BY <1>2, <2>1, <2>2, <2>3 DEF CompositionInv, ReportsFit
<1>7. ResponseFits' /\ BackendFits'
  BY <1>2, NoResponseYet
<1> QED BY <1>5, <1>6, <1>7 DEF CompositionInv

LEMMA LookupEndsKeeps ==
  ASSUME CompositionInv, NEW i \in DOMAIN calls, LookupEnds(i)
  PROVE  CompositionInv'
<1>1. CallsFit /\ JournalFits /\ i \in Nat
  BY DEF CompositionInv, CallsFit
<1>2. /\ Running(i) /\ calls[i].tool = "lookup" /\ process' = process
      /\ UNCHANGED <<backendVars, reports, slips, response>>
      /\ journal' = journal \o <<Event("source", i), Event("end", i)>>
      /\ \/ \E found \in BOOLEAN : CallEnds(i, "completed", Lookup(i, calls[i].input.target, found))
         \/ CallEnds(i, "failed", Nothing)
  BY DEF LookupEnds
<1>3. PICK c : /\ calls' = [calls EXCEPT ![i] = c]
               /\ DOMAIN c = {"tool", "input", "output", "state", "listed"}
               /\ c.tool = calls[i].tool /\ c.input = calls[i].input /\ c.listed = calls[i].listed
               /\ \/ c.state = "completed" /\ c.output.target = calls[i].input.target
                  \/ c.state = "failed"
  <2>1. ASSUME NEW found \in BOOLEAN, CallEnds(i, "completed", Lookup(i, calls[i].input.target, found))
        PROVE  \E c : /\ calls' = [calls EXCEPT ![i] = c]
                      /\ DOMAIN c = {"tool", "input", "output", "state", "listed"}
                      /\ c.tool = calls[i].tool /\ c.input = calls[i].input /\ c.listed = calls[i].listed
                      /\ c.state = "completed" /\ c.output.target = calls[i].input.target
    <3>1. Lookup(i, calls[i].input.target, found).target = calls[i].input.target
      BY DEF Lookup
    <3> QED BY <1>1, <2>1, <3>1, EndedIs
  <2>2. CASE CallEnds(i, "failed", Nothing)
    BY <1>1, <2>2, EndedIs
  <2> QED BY <1>2, <2>1, <2>2
<1>4. CallFits(c) /\ c.state # "running"
  <2>1. c.state = "completed" => ToolCheck(c) = "PASS"
    BY <1>2, <1>3 DEF ToolCheck, Compared
  <2>2. CallFits(calls[i])
    BY <1>1 DEF CallsFit
  <2> QED BY <1>3, <2>1, <2>2 DEF CallFits
<1>5. PICK z \in Nat :
           /\ journal' \in Seq(JournalEvents) /\ DOMAIN journal' = 1 .. z /\ Len(journal) < z - 1
           /\ \A n \in DOMAIN journal : journal'[n] = journal[n]
           /\ \A n \in DOMAIN journal' : n \notin DOMAIN journal =>
                /\ journal'[n].call = i /\ journal'[n].process = process
                /\ journal'[n].kind = IF n = z THEN "end" ELSE "source"
  <2>1. PICK z \in Nat : z = Len(journal) + 2
    BY <1>1 DEF JournalFits
  <2>2. PICK found \in JournalEvents :
          /\ found = Event("source", i) /\ found.kind = "source" /\ found.call = i
          /\ found.process = process
    BY <1>1, EventIs
  <2>3. PICK event \in JournalEvents :
          /\ event = Event("end", i) /\ event.kind = "end" /\ event.call = i
          /\ event.process = process
    BY <1>1, EventIs
  <2>4. <<found, event>> \in Seq(JournalEvents) /\ Len(<<found, event>>) = 2
    OBVIOUS
  <2>5. /\ journal \in Seq(JournalEvents) /\ Len(journal) \in Nat /\ DOMAIN journal = 1 .. Len(journal)
        /\ journal' = journal \o <<found, event>>
    BY <1>1, <1>2, <2>2, <2>3 DEF JournalFits
  <2>6. /\ journal' \in Seq(JournalEvents) /\ Len(journal') = Len(journal) + 2
        /\ \A n \in 1 .. Len(journal) + 2 :
             journal'[n] = IF n <= Len(journal) THEN journal[n] ELSE <<found, event>>[n - Len(journal)]
    BY <2>4, <2>5, ConcatProperties
  <2>7. /\ journal'[Len(journal) + 1] = found /\ journal'[Len(journal) + 2] = event
        /\ DOMAIN journal' = 1 .. Len(journal) + 2
    BY <2>5, <2>6
  <2>8. \A n \in DOMAIN journal' : n \notin DOMAIN journal => n = z - 1 \/ n = z
    BY <2>1, <2>5, <2>7
  <2>9. \A n \in DOMAIN journal : journal'[n] = journal[n]
    BY <2>5, <2>6
  <2>10. journal'[z - 1] = found /\ journal'[z] = event /\ z # z - 1 /\ Len(journal) < z - 1
    BY <2>1, <2>5, <2>7
  <2>11. DOMAIN journal' = 1 .. z
    BY <2>1, <2>7
  <2>12. ASSUME NEW n \in DOMAIN journal', n \notin DOMAIN journal
         PROVE  /\ journal'[n].call = i /\ journal'[n].process = process
                /\ journal'[n].kind = IF n = z THEN "end" ELSE "source"
    <3>1. CASE n = z
      BY <2>3, <2>10, <3>1
    <3>2. CASE n = z - 1
      BY <2>2, <2>10, <3>2
    <3> QED BY <2>8, <2>12, <3>1, <3>2
  <2>13. \A n \in DOMAIN journal' : n \notin DOMAIN journal =>
           /\ journal'[n].call = i /\ journal'[n].process = process
           /\ journal'[n].kind = IF n = z THEN "end" ELSE "source"
    BY <2>12
  <2>14. journal' \in Seq(JournalEvents)
    BY <2>6
  <2>15. Len(journal) < z - 1
    BY <2>10
  <2> QED BY <2>9, <2>11, <2>13, <2>14, <2>15, Zenon
<1>6. CallsFit' /\ JournalFits'
  <2>1. Len(journal) \in Nat /\ DOMAIN journal = 1 .. Len(journal)
    BY <1>1 DEF JournalFits
  <2>2. z - 1 \in DOMAIN journal' /\ z - 1 \notin DOMAIN journal /\ z - 1 # z /\ Len(journal) < z
    BY <1>5, <2>1
  <2>3. c.tool = "lookup" => \E n \in DOMAIN journal' : n \notin DOMAIN journal /\ n # z
    BY <2>2
  <2>4. calls' = [calls EXCEPT ![i] = c] /\ process' = process /\ Running(i) /\ c.tool = calls[i].tool
    BY <1>2, <1>3
  <2>5. /\ journal' \in Seq(JournalEvents) /\ DOMAIN journal' = 1 .. z /\ Len(journal) < z
        /\ \A n \in DOMAIN journal : journal'[n] = journal[n]
        /\ \A n \in DOMAIN journal' : n \notin DOMAIN journal =>
             /\ journal'[n].call = i /\ journal'[n].process = process
             /\ journal'[n].kind = IF n = z THEN "end" ELSE "source"
    BY <1>5, <2>2
  <2> QED BY <1>1, <1>4, <2>3, <2>4, <2>5, CallIsEnded
<1>7. ReportsFit'
  <2>1. \A j \in Completed' : j = i \/ (j \in Completed /\ calls'[j] = calls[j])
    BY <1>3 DEF Completed
  <2>2. calls'[i].tool # "save"
    BY <1>2, <1>3
  <2> QED BY <1>2, <2>1, <2>2 DEF CompositionInv, ReportsFit
<1>8. ResponseFits' /\ BackendFits'
  BY <1>2, NoResponseYet
<1> QED BY <1>6, <1>7, <1>8 DEF CompositionInv

\* Calls at work come to an end without one in the journal.
LEMMA ServerRestartsKeeps ==
  ASSUME CompositionInv, ServerRestarts
  PROVE  CompositionInv'
<1>1. /\ UNCHANGED <<backendVars, journal, reports, response>> /\ process' = process + 1
      /\ slips' = slips + 1
      /\ calls' = [i \in DOMAIN calls |-> IF Running(i) THEN [calls[i] EXCEPT !.state = "failed"]
                                          ELSE calls[i]]
  BY DEF ServerRestarts, Slip
<1>2. /\ DOMAIN calls' = DOMAIN calls /\ Len(calls) \in Nat /\ DOMAIN calls = 1 .. Len(calls)
      /\ \A i \in DOMAIN calls : CallFits(calls[i])
  BY <1>1 DEF CompositionInv, CallsFit
<1>3. ASSUME NEW i \in DOMAIN calls
      PROVE  /\ CallFits(calls'[i]) /\ calls'[i].tool = calls[i].tool /\ calls'[i].input = calls[i].input
             /\ calls'[i].listed = calls[i].listed
             /\ calls'[i].state = IF Running(i) THEN "failed" ELSE calls[i].state
             /\ ~Running(i) => calls'[i] = calls[i]
  <2>1. CASE Running(i)
    <3>1. PICK c : c = [calls[i] EXCEPT !.state = "failed"]
      OBVIOUS
    <3>2. /\ DOMAIN c = {"tool", "input", "output", "state", "listed"}
          /\ c.tool = calls[i].tool /\ c.listed = calls[i].listed /\ c.state = "failed"
          /\ c.input = calls[i].input
      BY <1>2, <3>1 DEF CallFits
    <3>3. CallFits(c)
      BY <1>2, <3>2 DEF CallFits
    <3>4. calls'[i] = c
      BY <1>1, <2>1, <3>1
    <3> QED BY <2>1, <3>2, <3>3, <3>4
  <2>2. CASE ~Running(i)
    BY <1>1, <1>2, <2>2
  <2> QED BY <2>1, <2>2
<1>4. \A i \in DOMAIN calls : calls'[i].state # "running"
                              /\ (calls'[i].state = "completed" <=> calls[i].state = "completed")
  BY <1>3 DEF Running
<1>5. CallsFit'
  <2>1. Len(calls') = Len(calls)
    BY <1>2
  <2> QED BY <1>2, <1>3, <2>1 DEF CallsFit
<1>6. JournalFits'
  <2>1. \A i \in DOMAIN calls : ~Running(i)'
    BY <1>4 DEF Running
  <2>2. \A n, i : (IsStartOf(n, i)' <=> IsStartOf(n, i)) /\ (IsEndOf(n, i)' <=> IsEndOf(n, i))
    BY <1>1 DEF IsStartOf, IsEndOf
  <2>3. journal' = journal /\ process' \in Nat
    BY <1>1 DEF CompositionInv, JournalFits
  <2>4. JournalFits
    BY DEF CompositionInv
  <2>5. ASSUME NEW i \in DOMAIN calls
        PROVE  /\ \A m, n \in DOMAIN journal : IsStartOf(m, i)' /\ IsStartOf(n, i)' => m = n
               /\ \A m, n \in DOMAIN journal : IsEndOf(m, i)' /\ IsEndOf(n, i)' => m = n
               /\ \E s \in DOMAIN journal :
                    /\ IsStartOf(s, i)'
                    /\ Running(i)' => journal[s].process = process'
                    /\ \A e \in DOMAIN journal :
                         IsEndOf(e, i)' => ~Running(i)' /\ s < e /\ journal[e].process = journal[s].process
               /\ calls'[i].state = "completed" =>
                    /\ \E e \in DOMAIN journal : IsEndOf(e, i)'
                    /\ calls'[i].tool = "lookup" =>
                         \E e \in DOMAIN journal : journal[e].kind = "source" /\ journal[e].call = i
    <3>1. \A m, n \in DOMAIN journal : IsStartOf(m, i) /\ IsStartOf(n, i) => m = n
      BY <2>4 DEF JournalFits
    <3>2. \A m, n \in DOMAIN journal : IsEndOf(m, i) /\ IsEndOf(n, i) => m = n
      BY <2>4 DEF JournalFits
    <3>3. \E s \in DOMAIN journal :
                    /\ IsStartOf(s, i)
                    /\ \A e \in DOMAIN journal :
                         IsEndOf(e, i) => s < e /\ journal[e].process = journal[s].process
      BY <2>4 DEF JournalFits
    <3>4. calls[i].state = "completed" =>
                    /\ \E e \in DOMAIN journal : IsEndOf(e, i)
                    /\ calls[i].tool = "lookup" =>
                         \E e \in DOMAIN journal : journal[e].kind = "source" /\ journal[e].call = i
      BY <2>4 DEF JournalFits
    <3>5. \E s \in DOMAIN journal :
                    /\ IsStartOf(s, i)'
                    /\ Running(i)' => journal[s].process = process'
                    /\ \A e \in DOMAIN journal :
                         IsEndOf(e, i)' => ~Running(i)' /\ s < e /\ journal[e].process = journal[s].process
      BY <2>1, <2>2, <3>3
    <3>6. calls'[i].state = "completed" =>
                    /\ \E e \in DOMAIN journal : IsEndOf(e, i)'
                    /\ calls'[i].tool = "lookup" =>
                         \E e \in DOMAIN journal : journal[e].kind = "source" /\ journal[e].call = i
      BY <1>3, <1>4, <2>2, <3>4
    <3> QED BY <2>2, <3>1, <3>2, <3>5, <3>6
  <2>6. \A n \in DOMAIN journal' : journal'[n].call \in DOMAIN calls'
    BY <1>2, <2>3, <2>4 DEF JournalFits
  <2>7. journal' \in Seq(JournalEvents)
    BY <2>3, <2>4 DEF JournalFits
  <2> QED BY <1>2, <2>3, <2>5, <2>6, <2>7 DEF JournalFits
<1>7. ReportsFit'
  <2>1. slips' > 0 /\ slips' \in Nat
    BY <1>1 DEF CompositionInv, ReportsFit
  <2> QED BY <2>1, Zenon DEF ReportsFit
<1>8. ResponseFits'
  <2> SUFFICES ASSUME response' # Nothing
               PROVE  /\ \A i \in DOMAIN calls' : ~Running(i)'
                      /\ response'.listed \in SetToSeqs({i \in DOMAIN calls' : calls'[i].listed})
    BY DEF ResponseFits
  <2>1. response.listed \in SetToSeqs({i \in DOMAIN calls : calls[i].listed}) /\ response' = response
    BY <1>1 DEF CompositionInv, ResponseFits
  <2>2. {i \in DOMAIN calls' : calls'[i].listed} = {i \in DOMAIN calls : calls[i].listed}
    BY <1>2, <1>3
  <2> QED BY <1>2, <1>4, <2>1, <2>2 DEF Running
<1>9. BackendFits'
  BY <1>1, RecordsKeep DEF CompositionInv
<1> QED BY <1>5, <1>6, <1>7, <1>8, <1>9 DEF CompositionInv

LEMMA ReportsAreLostKeeps ==
  ASSUME CompositionInv, ReportsAreLost
  PROVE  CompositionInv'
<1>1. UNCHANGED <<backendVars, calls, journal, process, response>> /\ slips' = slips + 1
  BY DEF ReportsAreLost, Slip
<1>2. CallsFit' /\ JournalFits' /\ ResponseFits' /\ BackendFits'
  BY <1>1, RecordsKeep
     DEF CompositionInv, CallsFit, JournalFits, ResponseFits, IsStartOf, IsEndOf, Running
<1>3. ReportsFit'
  <2>1. slips' > 0 /\ slips' \in Nat
    BY <1>1 DEF CompositionInv, ReportsFit
  <2> QED BY <2>1, Zenon DEF ReportsFit
<1> QED BY <1>2, <1>3 DEF CompositionInv

LEMMA RespondsKeeps ==
  ASSUME CompositionInv, Responds
  PROVE  CompositionInv'
<1>1. PICK listed \in SetToSeqs({i \in DOMAIN calls : calls[i].listed}) :
        /\ response' = [listed |-> listed]
        /\ Slip(IF \A n \in 1 .. Len(listed) - 1 : listed[n] < listed[n + 1] THEN 0 ELSE 1)
  BY DEF Responds
<1>2. UNCHANGED <<sending, records, told, dispatched, calls, journal, process, reports>>
      /\ sending = "sent" /\ \A i \in DOMAIN calls : ~Running(i)
  BY DEF Responds, AtWork, backendVars, serverVars
<1>3. CallsFit' /\ JournalFits'
  BY <1>2 DEF CompositionInv, CallsFit, JournalFits, IsStartOf, IsEndOf, Running
<1>4. slips \in Nat /\ slips' \in Nat /\ slips <= slips'
  <2>1. PICK n \in 0 .. 1 : slips' = slips + n
    BY <1>1 DEF Slip
  <2> QED BY <2>1 DEF CompositionInv, ReportsFit
<1>5. ReportsFit'
  <2>1. \A i \in Completed : calls[i].tool = "save" => slips > 0 \/ calls[i].input.report \in reports
    BY DEF CompositionInv, ReportsFit
  <2>2. slips > 0 => slips' > 0
    BY <1>4
  <2>3. Completed' = Completed /\ calls' = calls /\ reports' = reports
    BY <1>2 DEF Completed
  <2>4. \A i \in Completed' :
          calls'[i].tool = "save" => slips' > 0 \/ calls'[i].input.report \in reports'
    BY <2>1, <2>2, <2>3
  <2> QED BY <1>4, <2>4, Zenon DEF ReportsFit
<1>6. ResponseFits'
  <2>1. response'.listed = listed
    BY <1>1
  <2> QED BY <1>2, <2>1 DEF ResponseFits, Running
<1>7. BackendFits'
  <2>1. sending # "told" /\ "operation" \notin records /\ told = Nothing
    BY <1>2 DEF CompositionInv, BackendFits
  <2> QED BY <1>2, <2>1 DEF CompositionInv, BackendFits
<1> QED BY <1>3, <1>5, <1>6, <1>7 DEF CompositionInv

LEMMA CompositionInvariance == CompositionSpec => []CompositionInv
<1>1. CompositionInv /\ [CompositionNext]_compositionVars => CompositionInv'
  <2> SUFFICES ASSUME CompositionInv, [CompositionNext]_compositionVars PROVE CompositionInv'
    OBVIOUS
  <2>1. CASE UNCHANGED compositionVars
    <3>1. UNCHANGED <<backendVars, serverVars, slips, response>>
      BY <2>1 DEF compositionVars, backendVars, serverVars
    <3> QED BY <3>1, ToolsKeep, RecordsKeep DEF CompositionInv
  <2> QED BY <2>1, BackendKeeps, ModelCallsKeeps, DeliveredAgainKeeps, LookupEndsKeeps,
             SummaryEndsKeeps, SaveEndsKeeps, ServerRestartsKeeps, ReportsAreLostKeeps,
             RespondsKeeps DEF CompositionNext
<1> QED BY <1>1, CompositionBegins, PTL DEF CompositionSpec

\* Wherever the model, the network and the machines slip, however often, and
\* however much of the journal is lost: a chain that the verifier passes took
\* place and its report was there, with the whole journal each of its calls
\* ended once, one that took place is failed only when its file was lost, and
\* the caller is told truly what left (verify, collect, ReportStore.save,
\* CompositionService.run).
THEOREM ChainStaysTrue == CompositionSpec => []ChainIsTrue
<1>1. CompositionInv => ChainIsTrue
  <2> SUFFICES ASSUME CompositionInv PROVE ChainIsTrue
    OBVIOUS
  <2> DEFINE listed == response.listed
             chains == {c \in [1 .. 3 -> Completed] : IsChain(c[1], c[2], c[3])}
  <2>1. /\ dispatched => "attempt" \in records
        /\ told # Nothing =>
              /\ told.invocation = "not_sent" => ~dispatched
              /\ told.saved => records \cap {"error", "operation"} # {}
        /\ "operation" \in records => "response" \in records /\ response # Nothing
    BY DEF CompositionInv, BackendFits
  <2>2. ASSUME "operation" \in records, NEW gathered \in Gatherings, NEW disk \in DiskReadings(listed)
        PROVE  LET chain == ChainVerdict(listed, gathered, disk)
               IN  /\ chain = "PASS" =>
                        /\ Len(listed) = 3
                        /\ \E c \in chains :
                              /\ \A n \in 1 .. 3 : Same(calls[c[n]], calls[listed[n]])
                              /\ calls[c[3]].input.report \in reports
                              /\ gathered = DOMAIN journal =>
                                    \A i \in Completed, n \in 1 .. 3 :
                                       Same(calls[i], calls[listed[n]]) => i = c[n]
                   /\ \A final \in {"none", "malformed", "wrong", "right"} :
                         FullAcceptance(listed, chain, disk, final) = "PASS" =>
                            final = "right" /\ chain = "PASS" /\ calls[listed[1]].output.found
                   /\ (\A i \in DOMAIN calls : calls[i].listed) /\ listed \in chains =>
                        /\ chain = "FAIL" => disk = "missing" /\ slips > 0
                        /\ gathered = DOMAIN journal /\ disk = "read" => chain = "PASS"
    <3>1. CallsFit /\ JournalFits /\ ReportsFit
      BY DEF CompositionInv
    <3>2. listed \in SetToSeqs({i \in DOMAIN calls : calls[i].listed})
      BY <2>1, <2>2 DEF CompositionInv, ResponseFits
    <3>3. DOMAIN listed = 1 .. Len(listed) /\ Len(listed) \in Nat
      <4> DEFINE shown == {i \in DOMAIN calls : calls[i].listed}
      <4>1. IsFiniteSet(1 .. Len(calls)) /\ shown \in SUBSET (1 .. Len(calls))
        BY <3>1, FS_Interval DEF CallsFit
      <4>2. Cardinality(shown) \in Nat
        BY <4>1, FS_Subset, FS_CardinalityType
      <4>3. listed \in [1 .. Cardinality(shown) -> shown]
        BY <3>2 DEF SetToSeqs
      <4> HIDE DEF shown, listed
      <4> QED BY <4>2, <4>3
    <3> DEFINE chain == ChainVerdict(listed, gathered, disk)
    <3> HIDE DEF listed
    <3>4. chain = "PASS" =>
            /\ Len(listed) = 3
            /\ \E c \in chains : /\ \A n \in 1 .. 3 : Same(calls[c[n]], calls[listed[n]])
                                 /\ calls[c[3]].input.report \in reports
                                 /\ gathered = DOMAIN journal =>
                                       \A i \in Completed, n \in 1 .. 3 :
                                          Same(calls[i], calls[listed[n]]) => i = c[n]
      BY <2>2, <3>1, <3>3, PassedIsTrue
    <3>5. \A final \in {"none", "malformed", "wrong", "right"} :
            FullAcceptance(listed, chain, disk, final) = "PASS" =>
              final = "right" /\ chain = "PASS" /\ calls[listed[1]].output.found
      BY AcceptedIsTrue
    <3>6. (\A i \in DOMAIN calls : calls[i].listed) /\ listed \in chains =>
            /\ chain = "FAIL" => disk = "missing" /\ slips > 0
            /\ gathered = DOMAIN journal /\ disk = "read" => chain = "PASS"
      BY <2>2, <3>1, <3>2, TrueChainIsSeen
    <3> QED BY <3>4, <3>5, <3>6
  <2> QED BY <2>1, <2>2 DEF ChainIsTrue
<1> QED BY <1>1, CompositionInvariance, PTL

-----------------------------------------------------------------------------
(* Day 20: the record of a run of tools.                                   *)

(* A lookup that is passed on, what a call is given and what it returns.   *)
FlowLookups == [id : Nat, library : Libraries, whole : BOOLEAN]
FlowInputs ==
  [about : {"nowinandroid"}] \cup [library : Libraries] \cup [lookup : FlowLookups]
FlowOutputs == (SUBSET Libraries) \cup FlowLookups \cup [summary : FlowLookups] \cup {NoStatus}
FlowActs ==
  [tool : {"research", "lookup", "summary"}, input : FlowInputs,
   state : {"running", "completed", "failed"}, output : FlowOutputs]
FlowEvents == [kind : {"added", "begun", "done", "final"}, call : Nat]

ActFits(a, i) ==
  /\ a.tool = "lookup" =>
       /\ a.input \in [library : Libraries]
       /\ a.state = "completed" =>
            a.output = [id |-> i, library |-> a.input.library, whole |-> TRUE]
  /\ a.tool = "summary" =>
       /\ a.input \in [lookup : FlowLookups]
       /\ a.state = "completed" => a.output = [summary |-> a.input.lookup]

\* A summary was given a lookup that was done, whole or cut.
GivenALookup(q, i) ==
  q[i].tool = "summary" =>
    \E l \in DOMAIN q :
      /\ q[l].tool = "lookup" /\ q[l].state = "completed"
      /\ q[i].input.lookup.id = l
      /\ q[i].input.lookup.whole => q[i].input.lookup = q[l].output

ActsFit ==
  /\ acts \in Seq(FlowActs)
  /\ \A i \in DOMAIN acts : ActFits(acts[i], i) /\ GivenALookup(acts, i)

\* An event is recorded once, and only of what happened; a lookup was recorded
\* as done before the summary it was given to began.
EventFits(q, h, n) ==
  LET i == h[n].call
  IN  /\ h[n].kind # "final" => i \in DOMAIN q
      /\ h[n].kind = "done" =>
           q[i].state # "running" /\ \E m \in DOMAIN h : h[m] = Happened("added", i)
      /\ h[n].kind = "begun" /\ q[i].tool = "summary" =>
           \E m \in 1 .. n - 1 : h[m] = Happened("done", q[i].input.lookup.id)

EventsFit ==
  /\ events \in Seq(FlowEvents)
  /\ \A m, n \in DOMAIN events : events[m] = events[n] => m = n
  /\ \A n \in DOMAIN events : EventFits(acts, events, n)

\* While the stream is whole, and once its last event has come, nothing that
\* happened is missing from the record.
RecordIsWhole ==
  stage = "streaming" \/ status # NoStatus =>
    /\ ~torn
    /\ \A i \in DOMAIN acts : /\ Has("added", i) /\ Has("begun", i)
                              /\ acts[i].state # "running" => Has("done", i)

StagesFit ==
  /\ stage \in {"new", "open", "streaming", "broken", "closed"}
  /\ stage \in {"new", "open"} => acts = <<>> /\ events = <<>> /\ ~sent /\ ~torn
  /\ stage \in {"new", "open", "streaming"} => status = NoStatus /\ "response" \notin files
  /\ stage \in {"new", "open", "streaming", "broken"} => said = "nothing"
  /\ stage = "streaming" => \A n \in DOMAIN events : events[n].kind # "final"
  /\ stage \in {"open", "streaming"} \/ sent => "attempt" \in files
  /\ "response" \in files => status # NoStatus
  /\ status = "completed" => \A i \in DOMAIN acts : acts[i].state # "running"

Tellings ==
  /\ said = "not_sent" => ~sent /\ acts = <<>>
  /\ said = "not_observed" => acts = <<>>
  /\ said = "observed" => acts # <<>>
  /\ (\E i \in DOMAIN acts : Has("done", i)) => said \in {"nothing", "observed"}

OrchestrationInv == ActsFit /\ EventsFit /\ RecordIsWhole /\ StagesFit /\ Tellings

-----------------------------------------------------------------------------
LEMMA HasIsRecorded ==
  ASSUME NEW kind, NEW i
  PROVE  Has(kind, i) <=> \E n \in DOMAIN events : events[n] = Happened(kind, i)
BY DEF Has, ToSet

LEMMA HasIsRecordedNext ==
  ASSUME NEW kind, NEW i
  PROVE  Has(kind, i)' <=> \E n \in DOMAIN events' : events'[n] = Happened(kind, i)
BY DEF Has, ToSet, Happened

LEMMA HappenedFits ==
  ASSUME NEW kind, NEW i
  PROVE  /\ Happened(kind, i).kind = kind /\ Happened(kind, i).call = i
         /\ kind \in {"added", "begun", "done", "final"} /\ i \in Nat =>
              Happened(kind, i) \in FlowEvents
BY DEF Happened, FlowEvents

\* Emit adds a first part of what happened, and all of it if the stream stays.
LEMMA EmitAppends ==
  ASSUME events \in Seq(FlowEvents), NEW h \in Seq(FlowEvents), Emit(h)
  PROVE  \E k \in 0 .. Len(h) :
           /\ events' \in Seq(FlowEvents) /\ Len(events') = Len(events) + k
           /\ \A n \in 1 .. Len(events) : events'[n] = events[n]
           /\ \A n \in 1 .. k : events'[Len(events) + n] = h[n]
           /\ (k = Len(h) /\ UNCHANGED <<stage, torn>>) \/ stage' = "broken"
<1>1. Len(events) \in Nat /\ Len(h) \in Nat
  OBVIOUS
<1>2. CASE events' = events \o h /\ UNCHANGED <<stage, torn>>
  <2>1. /\ events' \in Seq(FlowEvents) /\ Len(events') = Len(events) + Len(h)
        /\ \A n \in 1 .. Len(events) : events'[n] = events[n]
        /\ \A n \in 1 .. Len(h) : events'[Len(events) + n] = h[n]
    BY <1>1, <1>2
  <2>2. PICK k \in 0 .. Len(h) : k = Len(h)
    BY <1>1
  <2>3. /\ events' \in Seq(FlowEvents) /\ Len(events') = Len(events) + k
        /\ \A n \in 1 .. Len(events) : events'[n] = events[n]
        /\ \A n \in 1 .. k : events'[Len(events) + n] = h[n]
        /\ (k = Len(h) /\ UNCHANGED <<stage, torn>>) \/ stage' = "broken"
    BY <1>2, <2>1, <2>2
  <2> QED BY <2>3
<1>3. ASSUME NEW n \in 0 .. Len(h) - 1, events' = events \o SubSeq(h, 1, n), stage' = "broken"
      PROVE  \E k \in 0 .. Len(h) :
               /\ events' \in Seq(FlowEvents) /\ Len(events') = Len(events) + k
               /\ \A m \in 1 .. Len(events) : events'[m] = events[m]
               /\ \A m \in 1 .. k : events'[Len(events) + m] = h[m]
               /\ (k = Len(h) /\ UNCHANGED <<stage, torn>>) \/ stage' = "broken"
  <2>1. SubSeq(h, 1, n) \in Seq(FlowEvents) /\ Len(SubSeq(h, 1, n)) = n
        /\ \A m \in 1 .. n : SubSeq(h, 1, n)[m] = h[m]
    BY <1>1, SubSeqProperties
  <2>2. /\ events' \in Seq(FlowEvents) /\ Len(events') = Len(events) + n
        /\ \A m \in 1 .. Len(events) : events'[m] = events[m]
        /\ \A m \in 1 .. n : events'[Len(events) + m] = h[m]
    BY <1>1, <1>3, <2>1
  <2>3. n \in 0 .. Len(h)
    BY <1>1
  <2> WITNESS n \in 0 .. Len(h)
  <2> QED BY <2>2, <1>3
<1> QED BY <1>2, <1>3 DEF Emit

LEMMA PositionIs ==
  ASSUME EventsFit, NEW kind, NEW i, NEW n \in DOMAIN events, events[n] = Happened(kind, i)
  PROVE  Has(kind, i) /\ Position(kind, i) = n
BY HasIsRecorded DEF EventsFit, Position

LEMMA PositionHolds ==
  ASSUME EventsFit, NEW kind, NEW i, Has(kind, i)
  PROVE  /\ Position(kind, i) \in DOMAIN events
         /\ events[Position(kind, i)] = Happened(kind, i)
         /\ Position(kind, i) \in Nat
<1>1. PICK n \in DOMAIN events : events[n] = Happened(kind, i)
  BY HasIsRecorded
<1>2. Position(kind, i) = n
  BY <1>1, PositionIs
<1>3. n \in Nat
  BY DEF EventsFit
<1> QED BY <1>1, <1>2, <1>3

-----------------------------------------------------------------------------
LEMMA OrchestrationBegins == OrchestrationInit => OrchestrationInv
<1> SUFFICES ASSUME OrchestrationInit PROVE OrchestrationInv
  OBVIOUS
<1>1. acts = <<>> /\ events = <<>> /\ acts \in Seq(FlowActs) /\ events \in Seq(FlowEvents)
      /\ DOMAIN acts = {} /\ DOMAIN events = {}
  BY DEF OrchestrationInit
<1>2. ActsFit /\ EventsFit
  BY <1>1 DEF ActsFit, EventsFit
<1>3. RecordIsWhole /\ StagesFit /\ Tellings
  BY <1>1 DEF RecordIsWhole, StagesFit, Tellings, OrchestrationInit
<1> QED BY <1>2, <1>3 DEF OrchestrationInv

\* Steps that leave the calls and the events alone.
LEMMA RecordStays ==
  ASSUME OrchestrationInv, UNCHANGED <<acts, events>>
  PROVE  ActsFit' /\ EventsFit' /\ \A kind, i : Has(kind, i)' = Has(kind, i)
<1>1. ActsFit'
  BY DEF OrchestrationInv, ActsFit, ActFits, GivenALookup
<1>2. EventsFit'
  BY DEF OrchestrationInv, EventsFit, EventFits, Happened
<1>3. \A kind, i : Has(kind, i)' = Has(kind, i)
  BY DEF Has, Happened
<1> QED BY <1>1, <1>2, <1>3

LEMMA OpenAttemptKeeps == ASSUME OrchestrationInv, OpenAttempt PROVE OrchestrationInv'
<1>1. UNCHANGED <<acts, events>> /\ acts = <<>> /\ DOMAIN acts = {} /\ DOMAIN events = {} /\ ~sent
  BY DEF OrchestrationInv, StagesFit, OpenAttempt
<1>2. ActsFit' /\ EventsFit'
  BY <1>1, RecordStays
<1>3. RecordIsWhole' /\ StagesFit' /\ Tellings'
  BY <1>1 DEF OrchestrationInv, RecordIsWhole, StagesFit, Tellings, OpenAttempt
<1> QED BY <1>2, <1>3 DEF OrchestrationInv

LEMMA StreamRequestKeeps == ASSUME OrchestrationInv, StreamRequest PROVE OrchestrationInv'
<1>1. UNCHANGED <<acts, events>> /\ acts = <<>> /\ DOMAIN acts = {} /\ DOMAIN events = {} /\ ~sent
  BY DEF OrchestrationInv, StagesFit, StreamRequest
<1>2. ActsFit' /\ EventsFit'
  BY <1>1, RecordStays
<1>3. RecordIsWhole'
  BY <1>1 DEF OrchestrationInv, RecordIsWhole, StreamRequest, StagesFit
<1>4. StagesFit'
  BY <1>1 DEF OrchestrationInv, StagesFit, StreamRequest
<1>5. Tellings'
  BY <1>1 DEF OrchestrationInv, Tellings, StagesFit, StreamRequest
<1> QED BY <1>2, <1>3, <1>4, <1>5 DEF OrchestrationInv

LEMMA RecordGrows ==
  ASSUME EventsFit, acts \in Seq(FlowActs), acts' \in Seq(FlowActs), NEW k \in Nat,
         events' \in Seq(FlowEvents), Len(events') = Len(events) + k,
         \A n \in 1 .. Len(events) : events'[n] = events[n],
         \A i \in DOMAIN acts :
           /\ i \in DOMAIN acts' /\ acts'[i].tool = acts[i].tool /\ acts'[i].input = acts[i].input
           /\ acts[i].state # "running" => acts'[i].state # "running",
         \A n \in Len(events) + 1 .. Len(events) + k :
           /\ EventFits(acts', events', n)
           /\ \A m \in 1 .. n - 1 : events'[m] # events'[n]
  PROVE  EventsFit' /\ \A kind, i : Has(kind, i) => Has(kind, i)'
<1>1. /\ Len(events) \in Nat /\ DOMAIN events = 1 .. Len(events)
      /\ DOMAIN events' = 1 .. Len(events) + k
  BY DEF EventsFit
<1>2. ASSUME NEW n \in 1 .. Len(events) PROVE EventFits(acts', events', n)
  <2>1. events'[n] = events[n] /\ EventFits(acts, events, n) /\ n \in DOMAIN events
    BY <1>1, <1>2 DEF EventsFit
  <2>2. \A m \in 1 .. n - 1 : events'[m] = events[m]
    BY <1>1
  <2>3. \A m \in DOMAIN events : m \in DOMAIN events' /\ events'[m] = events[m]
    BY <1>1
  <2>4. events[n].kind # "final" => events[n].call \in DOMAIN acts
    BY <2>1 DEF EventFits
  <2>5. events[n].kind # "final" => events'[n].call \in DOMAIN acts'
    BY <2>1, <2>4
  <2>6. events[n].kind = "done" =>
          acts'[events[n].call].state # "running"
    BY <2>1, <2>4 DEF EventFits
  <2>7. events[n].kind = "done" =>
          \E m \in DOMAIN events' : events'[m] = Happened("added", events[n].call)
    BY <2>1, <2>3 DEF EventFits
  <2>8. events[n].kind = "begun" /\ acts[events[n].call].tool = "summary" =>
          \E m \in 1 .. n - 1 : events[m] = Happened("done", acts[events[n].call].input.lookup.id)
    BY <2>1 DEF EventFits
  <2>9. events[n].kind = "begun" /\ acts'[events[n].call].tool = "summary" =>
          \E m \in 1 .. n - 1 : events'[m] = Happened("done", acts'[events[n].call].input.lookup.id)
    BY <2>1, <2>2, <2>4, <2>8
  <2> QED BY <2>1, <2>5, <2>6, <2>7, <2>9 DEF EventFits
<1>3. \A n \in DOMAIN events' : EventFits(acts', events', n)
  <2>1. \A n \in DOMAIN events' : n \in 1 .. Len(events) \/ n \in Len(events) + 1 .. Len(events) + k
    BY <1>1
  <2> QED BY <2>1, <1>2
<1>4. \A m, n \in DOMAIN events' : events'[m] = events'[n] => m = n
  <2>1. \A m, n \in 1 .. Len(events) : events'[m] = events'[n] => m = n
    BY <1>1 DEF EventsFit
  <2>2. \A m, n \in DOMAIN events' : m < n /\ n > Len(events) => events'[m] # events'[n]
    BY <1>1
  <2>3. \A m, n \in DOMAIN events' :
          \/ m \in 1 .. Len(events) /\ n \in 1 .. Len(events)
          \/ m < n /\ n > Len(events)
          \/ n < m /\ m > Len(events)
          \/ m = n
    BY <1>1
  <2> QED BY <2>1, <2>2, <2>3
<1>5. EventsFit'
  BY <1>3, <1>4 DEF EventsFit, EventFits, Happened
<1>6. \A kind, i : Has(kind, i) => Has(kind, i)'
  <2> SUFFICES ASSUME NEW kind, NEW i, Has(kind, i) PROVE Has(kind, i)'
    OBVIOUS
  <2>1. PICK n \in DOMAIN events : events[n] = Happened(kind, i)
    BY HasIsRecorded
  <2>2. n \in DOMAIN events' /\ events'[n] = Happened(kind, i)
    BY <2>1, <1>1
  <2> QED BY <2>2, HasIsRecordedNext
<1> QED BY <1>5, <1>6

LEMMA TellOutcomeKeeps == ASSUME OrchestrationInv, TellOutcome PROVE OrchestrationInv'
<1>1. UNCHANGED <<acts, events, torn, status, files, sent>> /\ stage = "broken" /\ stage' = "closed"
      /\ said' = InvocationSeen /\ acts \in Seq(FlowActs)
  BY DEF OrchestrationInv, ActsFit, TellOutcome
<1>2. ActsFit' /\ EventsFit' /\ \A kind, i : Has(kind, i)' = Has(kind, i)
  BY <1>1, RecordStays
<1>3. RecordIsWhole'
  BY <1>1, <1>2 DEF OrchestrationInv, RecordIsWhole
<1>4. StagesFit'
  BY <1>1 DEF OrchestrationInv, StagesFit
<1>5. Tellings'
  <2>1. "response" \in files => status # NoStatus
    BY DEF OrchestrationInv, StagesFit
  <2>2. said' = "not_observed" => DOMAIN acts = {}
    BY <1>1, <2>1 DEF InvocationSeen
  <2>3. DOMAIN acts = {} <=> acts = <<>>
    BY <1>1
  <2>4. said' \in {"observed", "not_observed", "unknown"} /\ (said' = "observed" => DOMAIN acts # {})
    BY <1>1 DEF InvocationSeen
  <2>5. (\E i \in DOMAIN acts : Has("done", i)) => said' = "observed"
    BY <1>1 DEF InvocationSeen
  <2>6. (\E i \in DOMAIN acts' : Has("done", i)') => said' = "observed"
    BY <1>1, <1>2, <2>5
  <2> HIDE DEF Has
  <2> QED BY <1>1, <2>2, <2>3, <2>4, <2>6 DEF Tellings
<1> QED BY <1>2, <1>3, <1>4, <1>5 DEF OrchestrationInv

LEMMA FinalResponseKeeps == ASSUME OrchestrationInv, FinalResponse PROVE OrchestrationInv'
<1>1. /\ UNCHANGED <<acts, torn, sent, said>> /\ stage = "streaming" /\ stage' = "broken"
      /\ events' = Append(events, Happened("final", 0))
      /\ acts \in Seq(FlowActs) /\ events \in Seq(FlowEvents) /\ Happened("final", 0) \in FlowEvents
      /\ \A n \in DOMAIN events : events[n].kind # "final"
  BY HappenedFits DEF OrchestrationInv, ActsFit, EventsFit, StagesFit, FinalResponse
<1>2. ActsFit'
  BY <1>1 DEF OrchestrationInv, ActsFit, ActFits, GivenALookup
<1>3. EventsFit' /\ \A kind, i : Has(kind, i) => Has(kind, i)'
  <2>1. /\ events' \in Seq(FlowEvents) /\ Len(events') = Len(events) + 1 /\ Len(events) \in Nat
        /\ \A n \in 1 .. Len(events) : events'[n] = events[n]
        /\ events'[Len(events) + 1] = Happened("final", 0)
    BY <1>1
  <2>2. EventFits(acts', events', Len(events) + 1)
    BY <2>1, HappenedFits DEF EventFits
  <2>3. \A m \in 1 .. Len(events) : events'[m] # events'[Len(events) + 1]
    BY <1>1, <2>1, HappenedFits
  <2>4. \A n \in Len(events) + 1 .. Len(events) + 1 :
          EventFits(acts', events', n) /\ \A m \in 1 .. n - 1 : events'[m] # events'[n]
    <3>1. \A n \in Len(events) + 1 .. Len(events) + 1 : n = Len(events) + 1 /\ n - 1 = Len(events)
      BY <2>1
    <3> QED BY <3>1, <2>2, <2>3
  <2> QED BY <1>1, <2>1, <2>4, RecordGrows DEF OrchestrationInv
<1>4. RecordIsWhole'
  <2>1. RecordIsWhole
    BY DEF OrchestrationInv
  <2>2. /\ ~torn
        /\ \A i \in DOMAIN acts : /\ Has("added", i) /\ Has("begun", i)
                                  /\ acts[i].state # "running" => Has("done", i)
    BY <1>1, <2>1 DEF RecordIsWhole
  <2> HIDE DEF Has
  <2> QED BY <1>1, <1>3, <2>2 DEF RecordIsWhole
<1>5. StagesFit'
  <2>1. "attempt" \in files /\ said = "nothing" /\ "response" \notin files
    BY <1>1 DEF OrchestrationInv, StagesFit
  <2>2. status' \in {"completed", "incomplete"} /\ files' \in {files, files \cup {"response"}}
        /\ (status' = "completed" => \A i \in DOMAIN acts : acts[i].state # "running")
    BY DEF FinalResponse
  <2> QED BY <1>1, <2>1, <2>2, OrchestrationAssumption DEF StagesFit
<1>6. Tellings'
  BY <1>1 DEF OrchestrationInv, Tellings, StagesFit
<1> QED BY <1>2, <1>3, <1>4, <1>5, <1>6 DEF OrchestrationInv

\* What the model may ask is of the right form; a summary is asked of a lookup
\* that is done.
LEMMA AskedFits ==
  ASSUME ActsFit, NEW tool \in {"research", "lookup", "summary"}, NEW input \in Asked(tool)
  PROVE  /\ input \in FlowInputs
         /\ tool = "lookup" => input \in [library : Libraries]
         /\ tool = "summary" =>
              /\ input \in [lookup : FlowLookups]
              /\ \E l \in DOMAIN acts :
                   /\ acts[l].tool = "lookup" /\ acts[l].state = "completed"
                   /\ input.lookup.id = l
                   /\ input.lookup.whole => input.lookup = acts[l].output
<1>1. CASE tool = "research"
  BY <1>1 DEF Asked, FlowInputs
<1>2. CASE tool = "lookup"
  <2>1. LibraryOrder[1] \in Libraries
    BY OrchestrationAssumption DEF Libraries, ToSet
  <2>2. input \in [library : Libraries]
    BY <1>2, <2>1 DEF Asked
  <2> QED BY <1>2, <2>2 DEF FlowInputs
<1>3. CASE tool = "summary"
  <2>1. \A f \in Found : \E l \in DOMAIN acts :
          /\ acts[l].tool = "lookup" /\ acts[l].state = "completed" /\ f = acts[l].output
          /\ f \in FlowLookups /\ f.id = l
    <3> SUFFICES ASSUME NEW l \in DOMAIN acts, acts[l].tool = "lookup", acts[l].state = "completed"
                 PROVE  acts[l].output \in FlowLookups /\ acts[l].output.id = l
      BY DEF Found, Done
    <3>1. l \in Nat /\ acts[l].input \in [library : Libraries]
          /\ acts[l].output = [id |-> l, library |-> acts[l].input.library, whole |-> TRUE]
      <4>1. l \in Nat /\ ActFits(acts[l], l)
        BY DEF ActsFit
      <4> QED BY <4>1 DEF ActFits
    <3> QED BY <3>1 DEF FlowLookups
  <2>2. PICK f \in Found : input \in [lookup : {f, [f EXCEPT !.whole = FALSE]}]
    <3>1. input \in [lookup : Found \cup {[l EXCEPT !.whole = FALSE] : l \in Found}]
      BY <1>3 DEF Asked
    <3> QED BY <3>1
  <2>3. PICK l \in DOMAIN acts : /\ acts[l].tool = "lookup" /\ acts[l].state = "completed"
                                 /\ f = acts[l].output /\ f \in FlowLookups /\ f.id = l
    BY <2>1
  <2>4. /\ [f EXCEPT !.whole = FALSE] \in FlowLookups /\ [f EXCEPT !.whole = FALSE].id = l
        /\ ~[f EXCEPT !.whole = FALSE].whole
    BY <2>3 DEF FlowLookups
  <2>5. input = [lookup |-> input.lookup] /\ input.lookup \in {f, [f EXCEPT !.whole = FALSE]}
    BY <2>2
  <2>6. /\ input.lookup \in FlowLookups /\ input.lookup.id = l
        /\ input.lookup.whole => input.lookup = acts[l].output
    BY <2>3, <2>4, <2>5
  <2>7. input \in [lookup : FlowLookups]
    BY <2>5, <2>6
  <2> QED BY <1>3, <2>3, <2>6, <2>7 DEF FlowInputs
<1> QED BY <1>1, <1>2, <1>3

LEMMA CallBeginsKeeps ==
  ASSUME OrchestrationInv, NEW tool \in {"research", "lookup", "summary"}, CallBegins(tool)
  PROVE  OrchestrationInv'
<1>0. PICK i : i = Len(acts) + 1
  OBVIOUS
<1> DEFINE h == <<Happened("added", i), Happened("begun", i)>>
<1>1. PICK input \in Asked(tool) :
        acts' = Append(acts, [tool |-> tool, input |-> input, state |-> "running",
                              output |-> NoStatus])
  BY DEF CallBegins
<1> DEFINE a == [tool |-> tool, input |-> input, state |-> "running", output |-> NoStatus]
<1>2. /\ stage = "streaming" /\ Emit(h) /\ UNCHANGED <<status, files, sent, said>>
      /\ acts \in Seq(FlowActs) /\ events \in Seq(FlowEvents) /\ ActsFit
  BY <1>0 DEF CallBegins, OrchestrationInv, ActsFit, EventsFit
<1>3. /\ a \in FlowActs /\ ActFits(a, i)
      /\ tool = "summary" => \E l \in DOMAIN acts :
           /\ acts[l].tool = "lookup" /\ acts[l].state = "completed" /\ input.lookup.id = l
           /\ input.lookup.whole => input.lookup = acts[l].output
  <2>1. /\ input \in FlowInputs
        /\ tool = "lookup" => input \in [library : Libraries]
        /\ tool = "summary" => input \in [lookup : FlowLookups]
        /\ tool = "summary" => \E l \in DOMAIN acts :
             /\ acts[l].tool = "lookup" /\ acts[l].state = "completed" /\ input.lookup.id = l
             /\ input.lookup.whole => input.lookup = acts[l].output
    BY <1>2, AskedFits
  <2>2. NoStatus \in FlowOutputs
    BY DEF FlowOutputs
  <2>3. a \in FlowActs
    BY <2>1, <2>2 DEF FlowActs
  <2>4. ActFits(a, i)
    BY <2>1 DEF ActFits
  <2> QED BY <2>1, <2>3, <2>4
<1>a. a.tool = tool /\ a.input = input /\ a.state = "running"
  OBVIOUS
<1> HIDE DEF a
<1>4. /\ acts' \in Seq(FlowActs) /\ DOMAIN acts' = 1 .. i /\ DOMAIN acts = 1 .. Len(acts)
      /\ Len(acts) \in Nat /\ i \in Nat /\ i \notin DOMAIN acts
      /\ \A j \in DOMAIN acts : j \in DOMAIN acts' /\ acts'[j] = acts[j]
      /\ acts'[i] = a /\ i \in DOMAIN acts'
      /\ \A j \in DOMAIN acts' : j \in DOMAIN acts \/ j = i
  BY <1>0, <1>1, <1>2, <1>3 DEF a
<1>5. ActsFit'
  <2>1. \A j \in DOMAIN acts' : j \in DOMAIN acts \/ j = i
    BY <1>4
  <2>2. \A j \in DOMAIN acts : ActFits(acts'[j], j) /\ GivenALookup(acts', j)
    BY <1>4, <1>2 DEF ActsFit, GivenALookup
  <2>3. ActFits(acts'[i], i) /\ GivenALookup(acts', i)
    BY <1>3, <1>4, <1>a DEF GivenALookup
  <2>4. \A j \in DOMAIN acts' : ActFits(acts'[j], j) /\ GivenALookup(acts', j)
    BY <2>1, <2>2, <2>3
  <2> QED BY <1>4, <2>4 DEF ActsFit, ActFits, GivenALookup
<1>6. /\ h \in Seq(FlowEvents) /\ Len(h) = 2
      /\ h[1] = Happened("added", i) /\ h[2] = Happened("begun", i)
  BY <1>4, HappenedFits
<1> HIDE DEF h
<1>7. PICK k \in 0 .. 2 :
        /\ events' \in Seq(FlowEvents) /\ Len(events') = Len(events) + k
        /\ \A n \in 1 .. Len(events) : events'[n] = events[n]
        /\ \A n \in 1 .. k : events'[Len(events) + n] = h[n]
        /\ (k = 2 /\ UNCHANGED <<stage, torn>>) \/ stage' = "broken"
  BY <1>2, <1>6, EmitAppends
<1>8. RecordIsWhole /\ StagesFit /\ EventsFit
  BY DEF OrchestrationInv
<1>9. \A j \in DOMAIN acts : /\ Has("added", j) /\ Has("begun", j)
                             /\ acts[j].state # "running" => Has("done", j)
  BY <1>8, <1>2 DEF RecordIsWhole
<1>10. \A n \in DOMAIN events : events[n].kind # "final" /\ events[n].call \in DOMAIN acts
                                /\ events[n].call # i
  BY <1>8, <1>2, <1>4 DEF StagesFit, EventsFit, EventFits
<1>b. Len(events) \in Nat /\ DOMAIN events = 1 .. Len(events)
  BY <1>2
<1>11. \A n \in Len(events) + 1 .. Len(events) + k :
         EventFits(acts', events', n) /\ \A m \in 1 .. n - 1 : events'[m] # events'[n]
  <2> SUFFICES ASSUME NEW n \in Len(events) + 1 .. Len(events) + k
               PROVE  EventFits(acts', events', n) /\ \A m \in 1 .. n - 1 : events'[m] # events'[n]
    OBVIOUS
  <2>1. \A m \in 1 .. Len(events) : events'[m] = events[m] /\ events'[m].call # i
    BY <1>7, <1>10, <1>b
  <2>2. CASE n = Len(events) + 1
    <3>1. events'[n] = Happened("added", i) /\ n - 1 = Len(events)
      BY <2>2, <1>7, <1>6, <1>b
    <3>2. EventFits(acts', events', n)
      BY <3>1, <1>4 DEF EventFits, Happened
    <3>3. Happened("added", i).call = i
      BY DEF Happened
    <3> QED BY <3>1, <3>2, <3>3, <2>1
  <2>3. CASE n = Len(events) + 2
    <3>1. k = 2 /\ n - 1 = Len(events) + 1
      BY <2>3, <1>b
    <3>2. events'[n] = Happened("begun", i) /\ events'[Len(events) + 1] = Happened("added", i)
      BY <2>3, <3>1, <1>7, <1>6
    <3>3. \A m \in 1 .. n - 1 : events'[m] # events'[n]
      <4>1. \A m \in 1 .. n - 1 : m \in 1 .. Len(events) \/ m = Len(events) + 1
        BY <3>1, <1>b
      <4>2. Happened("begun", i).call = i /\ Happened("begun", i) # Happened("added", i)
        BY DEF Happened
      <4> QED BY <4>1, <4>2, <3>2, <2>1
    <3>4. tool = "summary" => \E m \in 1 .. n - 1 : events'[m] = Happened("done", input.lookup.id)
      <4> SUFFICES ASSUME tool = "summary"
                   PROVE  \E m \in 1 .. n - 1 : events'[m] = Happened("done", input.lookup.id)
        OBVIOUS
      <4>1. Has("done", input.lookup.id)
        BY <1>3, <1>9
      <4>2. PICK m \in DOMAIN events : events[m] = Happened("done", input.lookup.id)
        BY <4>1, HasIsRecorded
      <4>3. m \in 1 .. n - 1 /\ events'[m] = events[m]
        BY <3>1, <1>b, <1>7
      <4> QED BY <4>2, <4>3
    <3>5. EventFits(acts', events', n)
      BY <3>2, <3>4, <1>4, <1>a DEF EventFits, Happened
    <3> QED BY <3>3, <3>5
  <2>4. n = Len(events) + 1 \/ n = Len(events) + 2
    BY <1>b
  <2> QED BY <2>2, <2>3, <2>4
<1>12. EventsFit' /\ \A kind, j : Has(kind, j) => Has(kind, j)'
  <2>1. \A j \in DOMAIN acts :
          /\ j \in DOMAIN acts' /\ acts'[j].tool = acts[j].tool /\ acts'[j].input = acts[j].input
          /\ acts[j].state # "running" => acts'[j].state # "running"
    BY <1>4
  <2>2. k \in Nat
    OBVIOUS
  <2> QED BY <2>1, <2>2, <1>2, <1>4, <1>7, <1>8, <1>11, RecordGrows
<1>13. RecordIsWhole'
  <2>1. status' = NoStatus /\ ~torn
    BY <1>2, <1>8 DEF StagesFit, RecordIsWhole
  <2>2. CASE stage' = "broken"
    BY <2>1, <2>2 DEF RecordIsWhole
  <2>3. CASE k = 2 /\ UNCHANGED <<stage, torn>>
    <3>1. Has("added", i)' /\ Has("begun", i)'
      <4>1. /\ Len(events) + 1 \in DOMAIN events' /\ Len(events) + 2 \in DOMAIN events'
            /\ events'[Len(events) + 1] = Happened("added", i)
            /\ events'[Len(events) + 2] = Happened("begun", i)
        BY <2>3, <1>7, <1>6, <1>b
      <4> QED BY <4>1, HasIsRecordedNext
    <3>2. \A j \in DOMAIN acts' : j \in DOMAIN acts \/ j = i
      BY <1>4
    <3>3. \A j \in DOMAIN acts' : /\ Has("added", j)' /\ Has("begun", j)'
                                  /\ acts'[j].state # "running" => Has("done", j)'
      BY <3>1, <3>2, <1>4, <1>9, <1>12, <1>a
    <3> HIDE DEF Has
    <3> QED BY <3>3, <2>1, <2>3 DEF RecordIsWhole
  <2> QED BY <2>2, <2>3, <1>7
<1>14. StagesFit'
  <2>1. \A n \in DOMAIN events' : events'[n].kind # "final"
    <3>1. \A n \in 1 .. k : n = 1 \/ n = 2
      OBVIOUS
    <3>2. \A n \in 1 .. k : events'[Len(events) + n].kind # "final"
      BY <3>1, <1>6, <1>7 DEF Happened
    <3>3. \A n \in DOMAIN events' : n \in DOMAIN events \/ \E m \in 1 .. k : n = Len(events) + m
      <4> SUFFICES ASSUME NEW n \in DOMAIN events', n \notin DOMAIN events
                   PROVE  n - Len(events) \in 1 .. k /\ n = Len(events) + (n - Len(events))
        OBVIOUS
      <4> QED BY <1>7, <1>b
    <3> QED BY <3>2, <3>3, <1>7, <1>10, <1>b
  <2>2. stage' \in {"streaming", "broken"} /\ UNCHANGED <<status, files, sent, said>>
    BY <1>2, <1>7
  <2>3. status = NoStatus /\ said = "nothing" /\ "attempt" \in files /\ "response" \notin files
    BY <1>2, <1>8 DEF StagesFit
  <2> QED BY <2>1, <2>2, <2>3, OrchestrationAssumption DEF StagesFit
<1>15. Tellings'
  BY <1>2, <1>8 DEF Tellings, StagesFit
<1> QED BY <1>5, <1>12, <1>13, <1>14, <1>15 DEF OrchestrationInv

\* What a call returns fits what it was given.
LEMMA OutputFits ==
  ASSUME ActsFit, NEW i \in DOMAIN acts, NEW output \in OutputOf(i)
  PROVE  /\ output \in FlowOutputs
         /\ acts[i].tool = "lookup" =>
              output = [id |-> i, library |-> acts[i].input.library, whole |-> TRUE]
         /\ acts[i].tool = "summary" => output = [summary |-> acts[i].input.lookup]
<1>1. /\ i \in Nat /\ acts[i] \in FlowActs /\ ActFits(acts[i], i)
      /\ acts[i].tool \in {"research", "lookup", "summary"}
  <2>1. i \in Nat /\ acts[i] \in FlowActs /\ ActFits(acts[i], i)
    BY DEF ActsFit
  <2> QED BY <2>1 DEF FlowActs
<1>2. CASE acts[i].tool = "research"
  <2>1. output \in SUBSET Libraries
    BY <1>2 DEF OutputOf
  <2> QED BY <1>2, <2>1 DEF FlowOutputs
<1>3. CASE acts[i].tool = "lookup"
  <2>1. output = [id |-> i, library |-> acts[i].input.library, whole |-> TRUE]
    BY <1>3 DEF OutputOf
  <2>2. acts[i].input.library \in Libraries
    BY <1>1, <1>3 DEF ActFits
  <2>3. output \in FlowLookups
    BY <2>1, <2>2, <1>1 DEF FlowLookups
  <2> QED BY <1>3, <2>1, <2>3 DEF FlowOutputs
<1>4. CASE acts[i].tool = "summary"
  <2>1. output = [summary |-> acts[i].input.lookup]
    BY <1>4 DEF OutputOf
  <2>2. acts[i].input.lookup \in FlowLookups
    BY <1>1, <1>4 DEF ActFits
  <2>3. output \in [summary : FlowLookups]
    BY <2>1, <2>2
  <2> QED BY <1>4, <2>1, <2>3 DEF FlowOutputs
<1> QED BY <1>1, <1>2, <1>3, <1>4

LEMMA CallIsDoneKeeps ==
  ASSUME OrchestrationInv, NEW i \in DOMAIN acts, CallIsDone(i)
  PROVE  OrchestrationInv'
<1>1. /\ stage = "streaming" /\ acts[i].state = "running" /\ Emit(<<Happened("done", i)>>)
      /\ UNCHANGED <<status, files, sent, said>>
      /\ acts \in Seq(FlowActs) /\ events \in Seq(FlowEvents) /\ ActsFit
      /\ RecordIsWhole /\ StagesFit /\ EventsFit
  BY DEF CallIsDone, OrchestrationInv, ActsFit, EventsFit
<1>2. /\ acts[i] \in FlowActs /\ i \in Nat /\ ActFits(acts[i], i) /\ Len(acts) \in Nat
      /\ DOMAIN acts = 1 .. Len(acts)
  BY <1>1 DEF ActsFit
<1>3. \E b \in FlowActs :
        /\ acts' = [acts EXCEPT ![i] = b] /\ b.tool = acts[i].tool /\ b.input = acts[i].input
        /\ b.state \in {"completed", "failed"} /\ ActFits(b, i)
  <2>1. CASE \E output \in OutputOf(i) :
               acts' = [acts EXCEPT ![i].state = "completed", ![i].output = output]
    <3>1. PICK output \in OutputOf(i) :
            acts' = [acts EXCEPT ![i].state = "completed", ![i].output = output]
      BY <2>1
    <3> DEFINE b == [tool |-> acts[i].tool, input |-> acts[i].input, state |-> "completed",
                     output |-> output]
    <3>2. /\ output \in FlowOutputs
          /\ acts[i].tool = "lookup" =>
               output = [id |-> i, library |-> acts[i].input.library, whole |-> TRUE]
          /\ acts[i].tool = "summary" => output = [summary |-> acts[i].input.lookup]
      BY <1>1, OutputFits
    <3>3. b \in FlowActs
      BY <1>2, <3>2 DEF FlowActs
    <3>4. acts' = [acts EXCEPT ![i] = b]
      <4>1. \E y : /\ y = [acts EXCEPT ![i].state = "completed"]
                  /\ acts' = [y EXCEPT ![i].output = output]
        BY <3>1, Zenon
      <4>2. PICK y : /\ y = [acts EXCEPT ![i].state = "completed"]
                     /\ acts' = [y EXCEPT ![i].output = output]
        BY <4>1
      <4>3. y \in Seq(FlowActs)
        <5>1. [acts[i] EXCEPT !.state = "completed"] \in FlowActs
          BY <1>2 DEF FlowActs
        <5>2. y = [acts EXCEPT ![i] = [acts[i] EXCEPT !.state = "completed"]]
          BY <4>2
        <5> QED BY <5>1, <5>2, <1>1, ElementReplaced
      <4>4. /\ DOMAIN y = DOMAIN acts /\ y[i] = [acts[i] EXCEPT !.state = "completed"]
            /\ acts' = [y EXCEPT ![i] = [y[i] EXCEPT !.output = output]]
        BY <4>2, Zenon
      <4>5. [[acts[i] EXCEPT !.state = "completed"] EXCEPT !.output = output] = b
        <5> DEFINE c == [tool |-> acts[i].tool, input |-> acts[i].input, state |-> "completed",
                         output |-> acts[i].output]
        <5>1. [acts[i] EXCEPT !.state = "completed"] = c
          BY <1>2 DEF FlowActs
        <5>2. [c EXCEPT !.output = output] = b
          OBVIOUS
        <5> QED BY <5>1, <5>2, Zenon
      <4>6. acts' = [y EXCEPT ![i] = b] /\ \A j \in DOMAIN acts : j # i => y[j] = acts[j]
        BY <4>2, <4>4, <4>5, Zenon
      <4> HIDE DEF b
      <4> QED BY <4>3, <4>4, <4>6, <1>1
    <3>5. ActFits(b, i)
      BY <1>2, <3>2 DEF ActFits
    <3> QED BY <3>3, <3>4, <3>5
  <2>2. CASE acts' = [acts EXCEPT ![i].state = "failed"]
    <3> DEFINE b == [tool |-> acts[i].tool, input |-> acts[i].input, state |-> "failed",
                     output |-> acts[i].output]
    <3>3. b \in FlowActs
      BY <1>2 DEF FlowActs
    <3>4. [acts[i] EXCEPT !.state = "failed"] = b
      BY <1>2 DEF FlowActs
    <3>6. acts' = [acts EXCEPT ![i] = b]
      <4>1. acts' = [acts EXCEPT ![i] = [acts[i] EXCEPT !.state = "failed"]]
        BY <2>2, Zenon
      <4> QED BY <3>4, <4>1, Zenon
    <3>5. ActFits(b, i)
      BY <1>2 DEF ActFits
    <3> QED BY <3>3, <3>5, <3>6
  <2> QED BY <2>1, <2>2 DEF CallIsDone
<1>4. PICK b \in FlowActs :
        /\ acts' = [acts EXCEPT ![i] = b] /\ b.tool = acts[i].tool /\ b.input = acts[i].input
        /\ b.state \in {"completed", "failed"} /\ ActFits(b, i)
  BY <1>3
<1>5. /\ acts' \in Seq(FlowActs) /\ DOMAIN acts' = DOMAIN acts /\ acts'[i] = b
      /\ \A j \in DOMAIN acts : j # i => acts'[j] = acts[j]
      /\ \A j \in DOMAIN acts : acts'[j].tool = acts[j].tool /\ acts'[j].input = acts[j].input
                                /\ (acts[j].state # "running" => acts'[j].state # "running")
  BY <1>1, <1>2, <1>4
<1>6. ActsFit'
  <2>1. \A j \in DOMAIN acts' : ActFits(acts'[j], j)
    BY <1>1, <1>4, <1>5 DEF ActsFit
  <2>2. \A j \in DOMAIN acts : GivenALookup(acts', j)
    <3> SUFFICES ASSUME NEW j \in DOMAIN acts, acts'[j].tool = "summary"
                 PROVE  \E l \in DOMAIN acts' :
                          /\ acts'[l].tool = "lookup" /\ acts'[l].state = "completed"
                          /\ acts'[j].input.lookup.id = l
                          /\ acts'[j].input.lookup.whole => acts'[j].input.lookup = acts'[l].output
      BY DEF GivenALookup
    <3>1. PICK l \in DOMAIN acts :
            /\ acts[l].tool = "lookup" /\ acts[l].state = "completed"
            /\ acts[j].input.lookup.id = l
            /\ acts[j].input.lookup.whole => acts[j].input.lookup = acts[l].output
      BY <1>1, <1>5 DEF ActsFit, GivenALookup
    <3>2. l # i /\ acts'[l] = acts[l]
      BY <3>1, <1>1, <1>5
    <3> QED BY <3>1, <3>2, <1>5
  <2>3. \A j \in DOMAIN acts' : ActFits(acts'[j], j) /\ GivenALookup(acts', j)
    BY <2>1, <2>2, <1>5
  <2> QED BY <1>5, <2>3 DEF ActsFit, ActFits, GivenALookup
<1>7. PICK k \in 0 .. 1 :
        /\ events' \in Seq(FlowEvents) /\ Len(events') = Len(events) + k
        /\ \A n \in 1 .. Len(events) : events'[n] = events[n]
        /\ k = 1 => events'[Len(events) + 1] = Happened("done", i)
        /\ (k = 1 /\ UNCHANGED <<stage, torn>>) \/ stage' = "broken"
  <2>1. <<Happened("done", i)>> \in Seq(FlowEvents) /\ Len(<<Happened("done", i)>>) = 1
        /\ <<Happened("done", i)>>[1] = Happened("done", i)
    BY <1>2, HappenedFits
  <2>2. PICK k \in 0 .. 1 :
        /\ events' \in Seq(FlowEvents) /\ Len(events') = Len(events) + k
        /\ \A n \in 1 .. Len(events) : events'[n] = events[n]
        /\ \A n \in 1 .. k : events'[Len(events) + n] = <<Happened("done", i)>>[n]
        /\ (k = 1 /\ UNCHANGED <<stage, torn>>) \/ stage' = "broken"
    BY <1>1, <2>1, EmitAppends
  <2>3. k = 1 => events'[Len(events) + 1] = Happened("done", i)
    BY <2>1, <2>2
  <2> QED BY <2>2, <2>3
<1>8. Len(events) \in Nat /\ DOMAIN events = 1 .. Len(events)
  BY <1>1
<1>9. \A j \in DOMAIN acts : /\ Has("added", j) /\ Has("begun", j)
                             /\ acts[j].state # "running" => Has("done", j)
  BY <1>1 DEF RecordIsWhole
<1>10. \A n \in DOMAIN events : events[n].kind # "final" /\ events[n] # Happened("done", i)
  <2> SUFFICES ASSUME NEW n \in DOMAIN events
               PROVE  events[n].kind # "final" /\ events[n] # Happened("done", i)
    OBVIOUS
  <2>1. EventFits(acts, events, n) /\ events[n].kind # "final"
    BY <1>1 DEF StagesFit, EventsFit
  <2>2. Happened("done", i).kind = "done" /\ Happened("done", i).call = i
    BY DEF Happened
  <2> QED BY <2>1, <2>2, <1>1 DEF EventFits
<1>11. \A n \in Len(events) + 1 .. Len(events) + k :
         EventFits(acts', events', n) /\ \A m \in 1 .. n - 1 : events'[m] # events'[n]
  <2> SUFFICES ASSUME NEW n \in Len(events) + 1 .. Len(events) + k
               PROVE  EventFits(acts', events', n) /\ \A m \in 1 .. n - 1 : events'[m] # events'[n]
    OBVIOUS
  <2>1. k = 1 /\ n = Len(events) + 1 /\ events'[n] = Happened("done", i) /\ n - 1 = Len(events)
    BY <1>7, <1>8
  <2>2. \A m \in 1 .. n - 1 : events'[m] # events'[n]
    BY <2>1, <1>7, <1>8, <1>10
  <2>3. \E m \in DOMAIN events' : events'[m] = Happened("added", i)
    <3>1. PICK m \in DOMAIN events : events[m] = Happened("added", i)
      BY <1>9, HasIsRecorded
    <3> QED BY <3>1, <1>7, <1>8
  <2>4. EventFits(acts', events', n)
    BY <2>1, <2>3, <1>4, <1>5 DEF EventFits, Happened
  <2> QED BY <2>2, <2>4
<1>12. EventsFit' /\ \A kind, j : Has(kind, j) => Has(kind, j)'
  <2>1. k \in Nat
    OBVIOUS
  <2> QED BY <2>1, <1>1, <1>5, <1>7, <1>11, RecordGrows
<1>13. RecordIsWhole'
  <2>1. status' = NoStatus /\ ~torn
    BY <1>1 DEF StagesFit, RecordIsWhole
  <2>2. CASE stage' = "broken"
    BY <2>1, <2>2 DEF RecordIsWhole
  <2>3. CASE k = 1 /\ UNCHANGED <<stage, torn>>
    <3>1. Has("done", i)'
      <4>1. Len(events) + 1 \in DOMAIN events' /\ events'[Len(events) + 1] = Happened("done", i)
        BY <2>3, <1>7, <1>8
      <4> QED BY <4>1, HasIsRecordedNext
    <3>2. \A j \in DOMAIN acts' : /\ Has("added", j)' /\ Has("begun", j)'
                                  /\ acts'[j].state # "running" => Has("done", j)'
      <4> SUFFICES ASSUME NEW j \in DOMAIN acts
                   PROVE  /\ Has("added", j)' /\ Has("begun", j)'
                          /\ acts'[j].state # "running" => Has("done", j)'
        BY <1>5
      <4>1. Has("added", j)' /\ Has("begun", j)'
        BY <1>9, <1>12
      <4>2. acts[j].state # "running" => Has("done", j)'
        BY <1>9, <1>12
      <4>3. j # i => acts'[j] = acts[j]
        BY <1>5
      <4> QED BY <4>1, <4>2, <4>3, <3>1
    <3> HIDE DEF Has
    <3> QED BY <3>2, <2>1, <2>3 DEF RecordIsWhole
  <2> QED BY <2>2, <2>3, <1>7
<1>14. StagesFit'
  <2>1. \A n \in DOMAIN events' : events'[n].kind # "final"
    <3> SUFFICES ASSUME NEW n \in DOMAIN events' PROVE events'[n].kind # "final"
      OBVIOUS
    <3>1. CASE n \in DOMAIN events
      BY <3>1, <1>7, <1>8, <1>10
    <3>2. CASE n \notin DOMAIN events
      <4>1. k = 1 /\ n = Len(events) + 1
        BY <3>2, <1>7, <1>8
      <4> QED BY <4>1, <1>7 DEF Happened
    <3> QED BY <3>1, <3>2
  <2>2. stage' \in {"streaming", "broken"} /\ UNCHANGED <<status, files, sent, said>>
    BY <1>1, <1>7
  <2>3. status = NoStatus /\ said = "nothing" /\ "attempt" \in files /\ "response" \notin files
    BY <1>1 DEF StagesFit
  <2> QED BY <2>1, <2>2, <2>3, OrchestrationAssumption DEF StagesFit
<1>15. Tellings'
  BY <1>1 DEF Tellings, StagesFit
<1> QED BY <1>6, <1>12, <1>13, <1>14, <1>15 DEF OrchestrationInv

LEMMA OrchestrationInvariance == OrchestrationSpec => []OrchestrationInv
<1>1. ASSUME OrchestrationInv, UNCHANGED flowVars PROVE OrchestrationInv'
  <2>1. UNCHANGED <<acts, events>>
    BY <1>1 DEF flowVars
  <2>2. ActsFit' /\ EventsFit' /\ \A kind, i : Has(kind, i)' = Has(kind, i)
    BY <2>1, <1>1, RecordStays
  <2>3. RecordIsWhole' /\ StagesFit' /\ Tellings'
    BY <2>2, <1>1 DEF flowVars, OrchestrationInv, RecordIsWhole, StagesFit, Tellings
  <2> QED BY <2>2, <2>3 DEF OrchestrationInv
<1>2. ASSUME OrchestrationInv, OrchestrationNext PROVE OrchestrationInv'
  BY <1>2, OpenAttemptKeeps, StreamRequestKeeps, TellOutcomeKeeps, FinalResponseKeeps,
     CallBeginsKeeps, CallIsDoneKeeps DEF OrchestrationNext
<1> QED BY <1>1, <1>2, OrchestrationBegins, PTL DEF OrchestrationSpec

-----------------------------------------------------------------------------
(* What the review makes of a record.                                      *)

IsFlow ==
  LET lookups == {i \in DOMAIN acts : acts[i].tool = "lookup"}
      summaries == {i \in DOMAIN acts : acts[i].tool = "summary"}
  IN  /\ Cardinality(lookups) = 2 /\ Cardinality(summaries) = 2
      /\ \A i \in lookups \cup summaries : acts[i].state = "completed"
      /\ \A i, j \in lookups : i # j => acts[i].input # acts[j].input
      /\ \A i \in lookups :
            /\ \E r \in Done("research") :
                  acts[i].input.library \in acts[r].output /\ Before(r, i)
            /\ \E s \in summaries : acts[s].input.lookup = acts[i].output /\ Before(i, s)

LEMMA FirstSourceEndsFirst ==
  ASSUME EventsFit, NEW library, SourcesOf(library) # {}
  PROVE  /\ FirstSource(library) \in SourcesOf(library)
         /\ \A x \in SourcesOf(library) : EndOf(FirstSource(library)) <= EndOf(x)
<1>1. \A r : EndOf(r) \in Nat
  <2>1. Len(events) \in Nat
    BY DEF EventsFit
  <2> QED BY <2>1, PositionHolds DEF EndOf
<1> DEFINE ends == {EndOf(r) : r \in SourcesOf(library)}
<1>2. ends \in SUBSET Nat /\ ends # {}
  BY <1>1
<1>3. PICK e \in ends : \A d \in ends : ~(d < e)
  <2> HIDE DEF ends
  <2> QED BY <1>2, LeastNumber
<1>4. PICK r \in SourcesOf(library) : e = EndOf(r)
  OBVIOUS
<1>5. \A x \in SourcesOf(library) : EndOf(r) <= EndOf(x)
  <2> SUFFICES ASSUME NEW x \in SourcesOf(library) PROVE EndOf(r) <= EndOf(x)
    OBVIOUS
  <2>1. EndOf(x) \in ends
    OBVIOUS
  <2>2. ~(EndOf(x) < EndOf(r)) /\ EndOf(x) \in Nat /\ EndOf(r) \in Nat
    BY <1>1, <1>3, <1>4, <2>1
  <2> QED BY <2>2
<1> QED BY <1>5 DEF FirstSource

LEMMA OrderSays ==
  ASSUME EventsFit, NEW i, NEW j
  PROVE  /\ Order(i, j) \in {"PASS", "FAIL", "NOT_PROVEN"}
         /\ Order(i, j) = "PASS" <=> Before(i, j)
BY DEF Order, Before

LEMMA BranchPasses ==
  ASSUME EventsFit, NEW i, "FAIL" \notin Branch(i), "NOT_PROVEN" \notin Branch(i)
  PROVE  /\ \A x \in SeenDone : acts[x].tool = "lookup" /\ x < i =>
              acts[x].output.library # acts[i].output.library
         /\ SourcesOf(acts[i].output.library) # {}
         /\ Before(FirstSource(acts[i].output.library), i)
         /\ \E s \in Related(i) : acts[s].input.lookup = acts[i].output /\ Before(i, s)
<1>1. \A x \in SeenDone : acts[x].tool = "lookup" /\ x < i =>
        acts[x].output.library # acts[i].output.library
  BY Zenon DEF Branch, Checked
<1>2. /\ SourcesOf(acts[i].output.library) # {}
      /\ Order(FirstSource(acts[i].output.library), i) \notin {"FAIL", "NOT_PROVEN"}
  BY Zenon DEF Branch
<1>3. Cardinality(Related(i)) = 1
  <2>1. Missing \in {"FAIL", "NOT_PROVEN"}
    BY DEF Missing
  <2> QED BY <2>1, Zenon DEF Branch
<1> DEFINE s == CHOOSE x \in Related(i) : TRUE
<1>4. acts[s].input.lookup = acts[i].output /\ Order(i, s) \notin {"FAIL", "NOT_PROVEN"}
  BY <1>3, Zenon DEF Branch, Checked
<1>5. Related(i) # {}
  BY <1>3, FS_EmptySet
<1>6. s \in Related(i)
  BY <1>5
<1> HIDE DEF s
<1> QED BY <1>1, <1>2, <1>4, <1>6, OrderSays

LEMMA BranchFaults ==
  ASSUME NEW i, NEW v \in {"FAIL", "NOT_PROVEN"}, v \in Branch(i)
  PROVE  \/ /\ v = "FAIL"
            /\ \E x \in SeenDone : /\ acts[x].tool = "lookup" /\ x < i
                                   /\ acts[x].output.library = acts[i].output.library
         \/ v = "NOT_PROVEN" /\ SourcesOf(acts[i].output.library) = {}
         \/ /\ SourcesOf(acts[i].output.library) # {}
            /\ v = Order(FirstSource(acts[i].output.library), i)
         \/ Cardinality(Related(i)) # 1 /\ v = Missing
         \/ /\ Cardinality(Related(i)) = 1
            /\ \E s \in Related(i) :
                 \/ v = "FAIL" /\ acts[s].input.lookup # acts[i].output
                 \/ v = Order(i, s)
                 \/ s \notin SeenDone /\ v = Missing
                 \/ s \in SeenDone /\ v = "FAIL" /\ acts[s].output.summary # acts[i].output
<1> DEFINE s == CHOOSE x \in Related(i) : TRUE
           library == acts[i].output.library
           unique == \A x \in SeenDone : acts[x].tool = "lookup" /\ x < i =>
                       acts[x].output.library # library
<1>1. \/ v = Checked(unique)
      \/ v = IF SourcesOf(library) = {} THEN "NOT_PROVEN" ELSE Order(FirstSource(library), i)
      \/ Cardinality(Related(i)) # 1 /\ v = Missing
      \/ /\ Cardinality(Related(i)) = 1
         /\ \/ v = Checked(acts[s].input.lookup = acts[i].output)
            \/ v = Order(i, s)
            \/ v = IF s \notin SeenDone THEN Missing
                   ELSE Checked(acts[s].output.summary = acts[i].output)
  BY Zenon DEF Branch
<1>2. Cardinality(Related(i)) = 1 => s \in Related(i)
  <2>1. Cardinality(Related(i)) = 1 => Related(i) # {}
    BY FS_EmptySet
  <2> QED BY <2>1
<1>3. v = Checked(unique) => v = "FAIL" /\ ~unique
  BY DEF Checked
<1>4. v = Checked(acts[s].input.lookup = acts[i].output) =>
        v = "FAIL" /\ acts[s].input.lookup # acts[i].output
  BY DEF Checked
<1>5. v = Checked(acts[s].output.summary = acts[i].output) =>
        v = "FAIL" /\ acts[s].output.summary # acts[i].output
  BY DEF Checked
<1> HIDE DEF s
<1> QED BY <1>1, <1>2, <1>3, <1>4, <1>5, Zenon

\* What the calls look like in the record, by the invariant.
LEMMA RecordSays ==
  ASSUME OrchestrationInv, stage = "broken"
  PROVE  /\ acts \in Seq(FlowActs) /\ DOMAIN acts \subseteq Nat /\ IsFiniteSet(DOMAIN acts)
         /\ \A i \in DOMAIN acts :
              /\ acts[i].tool \in {"research", "lookup", "summary"}
              /\ acts[i].state \in {"running", "completed", "failed"}
              /\ acts[i].tool = "lookup" =>
                   /\ acts[i].input = [library |-> acts[i].input.library]
                   /\ acts[i].state = "completed" =>
                        /\ acts[i].output.id = i
                        /\ acts[i].output.library = acts[i].input.library
              /\ acts[i].tool = "summary" /\ acts[i].state = "completed" =>
                   acts[i].output.summary = acts[i].input.lookup
         /\ Terminal => ~HasIssues
<1>1. acts \in Seq(FlowActs) /\ \A i \in DOMAIN acts : ActFits(acts[i], i)
  BY DEF OrchestrationInv, ActsFit
<1>2. DOMAIN acts \subseteq Nat /\ IsFiniteSet(DOMAIN acts)
  <2>1. Len(acts) \in Nat /\ DOMAIN acts = 1 .. Len(acts)
    BY <1>1
  <2>2. IsFiniteSet(1 .. Len(acts))
    BY <2>1, FS_Interval
  <2> QED BY <2>1, <2>2
<1>3. ASSUME NEW i \in DOMAIN acts
      PROVE  /\ acts[i].tool \in {"research", "lookup", "summary"}
             /\ acts[i].state \in {"running", "completed", "failed"}
             /\ acts[i].tool = "lookup" =>
                  /\ acts[i].input = [library |-> acts[i].input.library]
                  /\ acts[i].state = "completed" =>
                       /\ acts[i].output.id = i
                       /\ acts[i].output.library = acts[i].input.library
             /\ acts[i].tool = "summary" /\ acts[i].state = "completed" =>
                  acts[i].output.summary = acts[i].input.lookup
  <2>1. acts[i] \in FlowActs /\ ActFits(acts[i], i)
    BY <1>1
  <2>2. acts[i].tool \in {"research", "lookup", "summary"}
        /\ acts[i].state \in {"running", "completed", "failed"}
    BY <2>1 DEF FlowActs
  <2>3. acts[i].tool = "lookup" =>
          /\ acts[i].input = [library |-> acts[i].input.library]
          /\ acts[i].state = "completed" =>
               /\ acts[i].output.id = i
               /\ acts[i].output.library = acts[i].input.library
    BY <2>1 DEF ActFits
  <2>4. acts[i].tool = "summary" /\ acts[i].state = "completed" =>
          acts[i].output.summary = acts[i].input.lookup
    BY <2>1 DEF ActFits
  <2> QED BY <2>2, <2>3, <2>4
<1>4. Terminal => ~HasIssues
  BY DEF Terminal, HasIssues, OrchestrationInv, RecordIsWhole, StagesFit
<1> QED BY <1>1, <1>2, <1>3, <1>4

LEMMA ObservedMeansFlow ==
  ASSUME OrchestrationInv, stage = "broken", ObservedFlow = "PASS"
  PROVE  IsFlow
<1> DEFINE branches == UNION {Branch(i) : i \in {x \in SeenDone : acts[x].tool = "lookup"}}
           checks == {CallCheck(i) : i \in Seen}
           issues == IF HasIssues THEN "NOT_PROVEN" ELSE "PASS"
           V == {WorstOf(checks), BothServers, TwoBranches, issues} \cup branches
<1>1. WorstOf(V) = "PASS"
  BY DEF ObservedFlow
<1>2. "FAIL" \notin V /\ "NOT_PROVEN" \notin V
  <2> HIDE DEF V
  <2> QED BY <1>1 DEF WorstOf
<1>3. /\ WorstOf(checks) \notin {"FAIL", "NOT_PROVEN"}
      /\ TwoBranches \notin {"FAIL", "NOT_PROVEN"} /\ issues # "NOT_PROVEN"
      /\ "FAIL" \notin branches /\ "NOT_PROVEN" \notin branches
  <2> HIDE DEF checks, branches, issues
  <2> QED BY <1>2
<1>4. "FAIL" \notin checks /\ "NOT_PROVEN" \notin checks
  <2> HIDE DEF checks
  <2> QED BY <1>3 DEF WorstOf
<1>5. /\ "response" \in files
      /\ Cardinality(SeenOf("lookup")) = 2 /\ Cardinality(SeenOf("summary")) = 2
  BY <1>3 DEF TwoBranches, Checked, HasIssues
<1>6. Seen = DOMAIN acts /\ \A i : SeenState(i) = acts[i].state
  BY <1>5 DEF Seen, SeenState
<1>7. \A i \in DOMAIN acts : acts[i].state = "completed"
  <2> SUFFICES ASSUME NEW i \in DOMAIN acts PROVE acts[i].state = "completed"
    OBVIOUS
  <2>1. CallCheck(i) \notin {"FAIL", "NOT_PROVEN"}
    BY <1>4, <1>6
  <2>2. acts[i].state \in {"running", "completed", "failed"}
    BY RecordSays
  <2> QED BY <2>1, <2>2, <1>6 DEF CallCheck
<1>8. SeenDone = DOMAIN acts
  BY <1>6, <1>7 DEF SeenDone
<1> DEFINE lookups == {i \in DOMAIN acts : acts[i].tool = "lookup"}
           summaries == {i \in DOMAIN acts : acts[i].tool = "summary"}
<1>9. Cardinality(lookups) = 2 /\ Cardinality(summaries) = 2
  BY <1>5, <1>6 DEF SeenOf
<1>10. \A i \in lookups :
         /\ \A x \in lookups : x < i => acts[x].output.library # acts[i].output.library
         /\ SourcesOf(acts[i].output.library) # {}
         /\ Before(FirstSource(acts[i].output.library), i)
         /\ \E s \in Related(i) : acts[s].input.lookup = acts[i].output /\ Before(i, s)
  <2> SUFFICES ASSUME NEW i \in lookups
               PROVE  /\ \A x \in lookups : x < i => acts[x].output.library # acts[i].output.library
                      /\ SourcesOf(acts[i].output.library) # {}
                      /\ Before(FirstSource(acts[i].output.library), i)
                      /\ \E s \in Related(i) : acts[s].input.lookup = acts[i].output /\ Before(i, s)
    OBVIOUS
  <2>1. Branch(i) \subseteq branches
    BY <1>8
  <2>2. "FAIL" \notin Branch(i) /\ "NOT_PROVEN" \notin Branch(i) /\ EventsFit
    <3> HIDE DEF branches
    <3> QED BY <2>1, <1>3 DEF OrchestrationInv
  <2> QED BY <2>2, <1>8, BranchPasses
<1>11. \A i \in lookups : acts[i].input = [library |-> acts[i].input.library]
                          /\ acts[i].output.library = acts[i].input.library
  BY <1>7, RecordSays
<1>12. ASSUME NEW i \in lookups, NEW j \in lookups, i # j PROVE acts[i].input # acts[j].input
  <2>1. i < j \/ j < i
    BY <1>12, RecordSays
  <2>2. acts[i].output.library # acts[j].output.library
    BY <2>1, <1>10
  <2>3. acts[i].input.library # acts[j].input.library
    BY <2>2, <1>11
  <2> QED BY <2>3
<1>13. ASSUME NEW i \in lookups
       PROVE  /\ \E r \in Done("research") : acts[i].input.library \in acts[r].output /\ Before(r, i)
              /\ \E s \in summaries : acts[s].input.lookup = acts[i].output /\ Before(i, s)
  <2>1. /\ FirstSource(acts[i].output.library) \in SourcesOf(acts[i].output.library)
    BY <1>10, FirstSourceEndsFirst DEF OrchestrationInv
  <2>2. SourcesOf(acts[i].output.library) \subseteq
          {r \in Done("research") : acts[i].input.library \in acts[r].output}
    BY <1>7, <1>8, <1>11 DEF SourcesOf, Done
  <2>3. \E r \in Done("research") : acts[i].input.library \in acts[r].output /\ Before(r, i)
    BY <2>1, <2>2, <1>10
  <2>4. Related(i) \subseteq summaries
    BY <1>6 DEF Related, SeenOf
  <2> QED BY <2>3, <2>4, <1>10
<1> QED BY <1>7, <1>9, <1>12, <1>13 DEF IsFlow

\* A summary that began was given a lookup whose end is on record before it.
LEMMA LookupEndsBeforeSummary ==
  ASSUME EventsFit, NEW s \in DOMAIN acts, acts[s].tool = "summary", Has("begun", s)
  PROVE  Before(acts[s].input.lookup.id, s)
<1> DEFINE l == acts[s].input.lookup.id
<1>1. PICK n \in DOMAIN events : events[n] = Happened("begun", s)
  BY HasIsRecorded
<1>2. EventFits(acts, events, n) /\ events \in Seq(FlowEvents)
  BY DEF EventsFit
<1>3. \E m \in 1 .. n - 1 : events[m] = Happened("done", l)
  BY <1>1, <1>2 DEF EventFits, Happened
<1>4. PICK m \in 1 .. n - 1 : events[m] = Happened("done", l)
  BY <1>3
<1>5. m \in DOMAIN events /\ m < n
  BY <1>2
<1>6. Position("begun", s) = n /\ Has("done", l) /\ Position("done", l) = m
  BY <1>1, <1>4, <1>5, PositionIs
<1> QED BY <1>5, <1>6 DEF Before

\* In a run on its course no lookup that was done counts against it.
LEMMA BranchOnCourse ==
  ASSUME OrchestrationInv, stage = "broken", IsOnCourse,
         NEW i \in SeenDone, acts[i].tool = "lookup"
  PROVE  /\ \A x \in SeenDone : acts[x].tool = "lookup" /\ x < i =>
              acts[x].output.library # acts[i].output.library
         /\ SourcesOf(acts[i].output.library) # {}
         /\ Order(FirstSource(acts[i].output.library), i) # "FAIL"
         /\ \A s \in Related(i) :
              /\ acts[s].input.lookup = acts[i].output
              /\ Order(i, s) # "FAIL"
              /\ s \in SeenDone => acts[s].output.summary = acts[i].output
<1>1. EventsFit /\ ActsFit /\ EventsFit
  BY DEF OrchestrationInv
<1>2. \A j \in SeenDone : j \in DOMAIN acts /\ acts[j].state = "completed"
  <2>1. ASSUME NEW j, Has("done", j) PROVE acts[j].state # "running"
    <3>1. PICK n \in DOMAIN events : events[n] = Happened("done", j)
      BY <2>1, HasIsRecorded
    <3>2. EventFits(acts, events, n)
      BY <1>1 DEF EventsFit
    <3> QED BY <3>1, <3>2 DEF EventFits, Happened
  <2> QED BY <2>1 DEF SeenDone, Seen, SeenState
<1>3. \A j \in SeenDone : acts[j].tool = "lookup" =>
        /\ acts[j].input = [library |-> acts[j].input.library]
        /\ acts[j].output.library = acts[j].input.library /\ acts[j].output.id = j
  BY <1>2, RecordSays
<1>4. ASSUME NEW x \in SeenDone, acts[x].tool = "lookup", x < i
      PROVE  acts[x].output.library # acts[i].output.library
  <2>1. x # i /\ x \in DOMAIN acts /\ i \in DOMAIN acts
    BY <1>2, <1>4, RecordSays
  <2>2. <<acts[x].tool, acts[x].input>> # <<acts[i].tool, acts[i].input>>
    BY <2>1 DEF IsOnCourse
  <2>3. acts[x].input # acts[i].input
    BY <2>2, <1>4
  <2>4. acts[x].input.library # acts[i].input.library
    BY <2>3, <1>3, <1>4
  <2> QED BY <2>4, <1>3, <1>4
<1>5. PICK r \in Done("research") : acts[i].input.library \in acts[r].output /\ Before(r, i)
  BY <1>2 DEF IsOnCourse
<1>6. r \in SourcesOf(acts[i].output.library)
  <2>1. Has("done", r) /\ Has("added", r)
    <3>1. Has("done", r)
      BY <1>5 DEF Before
    <3>2. PICK n \in DOMAIN events : events[n] = Happened("done", r)
      BY <3>1, HasIsRecorded
    <3>3. EventFits(acts, events, n)
      BY <1>1 DEF EventsFit
    <3>4. \E m \in DOMAIN events : events[m] = Happened("added", r)
      BY <3>2, <3>3 DEF EventFits, Happened
    <3> QED BY <3>1, <3>4, HasIsRecorded
  <2>2. r \in SeenDone
    BY <2>1 DEF Done, SeenDone, Seen, SeenState
  <2> QED BY <2>2, <1>3, <1>5 DEF SourcesOf, Done
<1> DEFINE f == FirstSource(acts[i].output.library)
<1>7. EndOf(f) <= EndOf(r)
  BY <1>1, <1>6, FirstSourceEndsFirst
<1>8. Order(f, i) # "FAIL"
  <2>1. Has("done", r) /\ Has("begun", i) /\ Position("done", r) < Position("begun", i)
    BY <1>5 DEF Before
  <2>2. Has("done", f) => Position("done", f) <= Position("done", r)
    BY <1>7, <2>1 DEF EndOf
  <2>3. Position("done", r) \in Nat /\ Position("begun", i) \in Nat
        /\ (Has("done", f) => Position("done", f) \in Nat)
    BY <1>1, <2>1, PositionHolds
  <2>4. Has("done", f) => Before(f, i)
    BY <2>1, <2>2, <2>3 DEF Before
  <2> HIDE DEF f
  <2> QED BY <1>1, <2>4, OrderSays DEF Order
<1>9. ASSUME NEW s \in Related(i)
      PROVE  /\ acts[s].input.lookup = acts[i].output
             /\ Order(i, s) # "FAIL"
             /\ s \in SeenDone => acts[s].output.summary = acts[i].output
  <2>1. s \in DOMAIN acts /\ acts[s].tool = "summary" /\ acts[s].input.lookup.id = i
    BY DEF Related, SeenOf, Seen
  <2>2. acts[s].input.lookup.whole
    BY <2>1 DEF IsOnCourse
  <2>3. acts[s].input.lookup = acts[i].output
    BY <1>1, <2>1, <2>2 DEF ActsFit, GivenALookup
  <2>4. Has("begun", s) => Before(i, s)
    BY <1>1, <2>1, LookupEndsBeforeSummary
  <2>5. Order(i, s) # "FAIL"
    BY <1>1, <2>4, OrderSays DEF Order
  <2>6. s \in SeenDone => acts[s].output.summary = acts[i].output
    BY <1>2, <2>1, <2>3, RecordSays
  <2> QED BY <2>3, <2>5, <2>6
<1> QED BY <1>4, <1>6, <1>8, <1>9

\* A run on its course is not found failed because its record is cut.
LEMMA CutIsNotFailed ==
  ASSUME OrchestrationInv, stage = "broken", IsOnCourse, ~Terminal \/ HasIssues
  PROVE  ObservedFlow # "FAIL"
<1> DEFINE branches == UNION {Branch(i) : i \in {x \in SeenDone : acts[x].tool = "lookup"}}
           checks == {CallCheck(i) : i \in Seen}
           issues == IF HasIssues THEN "NOT_PROVEN" ELSE "PASS"
           V == {WorstOf(checks), BothServers, TwoBranches, issues} \cup branches
<1>1. ~Terminal /\ Missing = "NOT_PROVEN"
  BY RecordSays DEF Missing
<1>2. "FAIL" \notin checks
  <2> SUFFICES ASSUME NEW i \in Seen PROVE CallCheck(i) # "FAIL"
    OBVIOUS
  <2>1. i \in DOMAIN acts /\ acts[i].state # "failed"
    BY DEF Seen, IsOnCourse
  <2>2. SeenState(i) # "failed" /\ (SeenState(i) \in {"running", "completed"})
        /\ (SeenState(i) = "completed" => acts[i].state = "completed")
    BY <2>1, RecordSays DEF SeenState
  <2>3. SeenState(i) = "completed" => Checked(acts[i].tool = "summary" =>
          acts[i].output.summary = acts[i].input.lookup) = "PASS"
    BY <2>1, <2>2, RecordSays DEF Checked
  <2> QED BY <2>2, <2>3 DEF CallCheck
<1>3. WorstOf(checks) # "FAIL"
  <2> HIDE DEF checks
  <2> QED BY <1>2 DEF WorstOf
<1>4. BothServers # "FAIL" /\ TwoBranches # "FAIL" /\ issues # "FAIL"
  BY <1>1 DEF BothServers, TwoBranches
<1>5. "FAIL" \notin branches
  <2> SUFFICES ASSUME NEW i \in SeenDone, acts[i].tool = "lookup", "FAIL" \in Branch(i)
               PROVE  FALSE
    OBVIOUS
  <2> QED BY <1>1, BranchFaults, BranchOnCourse
<1>6. "FAIL" \notin V
  <2> HIDE DEF branches, checks, issues
  <2> QED BY <1>3, <1>4, <1>5
<1>7. ObservedFlow = WorstOf(V)
  BY DEF ObservedFlow
<1> HIDE DEF V
<1> QED BY <1>6, <1>7 DEF WorstOf

\* The whole record of a run that went as it should is found observed.
LEMMA FlowIsObserved ==
  ASSUME OrchestrationInv, stage = "broken", IsOnCourse, IsFlow, Terminal, ~HasIssues
  PROVE  ObservedFlow = "PASS"
<1> DEFINE branches == UNION {Branch(i) : i \in {x \in SeenDone : acts[x].tool = "lookup"}}
           checks == {CallCheck(i) : i \in Seen}
           issues == IF HasIssues THEN "NOT_PROVEN" ELSE "PASS"
           V == {WorstOf(checks), BothServers, TwoBranches, issues} \cup branches
           lookups == {i \in DOMAIN acts : acts[i].tool = "lookup"}
           summaries == {i \in DOMAIN acts : acts[i].tool = "summary"}
<1>1. "response" \in files /\ status = "completed"
  BY DEF Terminal
<1>2. /\ Seen = DOMAIN acts /\ \A i : SeenState(i) = acts[i].state
  BY <1>1 DEF Seen, SeenState
<1>3. \A i \in DOMAIN acts :
        /\ acts[i].state = "completed" /\ Has("added", i) /\ Has("begun", i) /\ Has("done", i)
  <2>1. \A i \in DOMAIN acts : acts[i].state = "completed"
    BY <1>1, RecordSays DEF IsOnCourse, OrchestrationInv, StagesFit
  <2>2. status # NoStatus
    BY <1>1, OrchestrationAssumption
  <2> QED BY <2>1, <2>2 DEF OrchestrationInv, RecordIsWhole
<1>4. SeenDone = DOMAIN acts /\ SeenOf("lookup") = lookups /\ SeenOf("summary") = summaries
  BY <1>2, <1>3 DEF SeenDone, SeenOf
<1>5. /\ Cardinality(lookups) = 2 /\ Cardinality(summaries) = 2
      /\ \A i, j \in lookups : i # j => acts[i].input # acts[j].input
      /\ \A i \in lookups :
           /\ \E r \in Done("research") : acts[i].input.library \in acts[r].output /\ Before(r, i)
           /\ \E s \in summaries : acts[s].input.lookup = acts[i].output /\ Before(i, s)
  BY DEF IsFlow
<1>6. PICK l \in lookups : TRUE
  BY <1>5, FS_EmptySet
<1>7. \A i \in lookups : acts[i].output.id = i
  BY <1>3, RecordSays
<1>8. IsFiniteSet(lookups) /\ IsFiniteSet(summaries)
  <2>1. lookups \subseteq DOMAIN acts /\ summaries \subseteq DOMAIN acts
    OBVIOUS
  <2> HIDE DEF lookups, summaries
  <2> QED BY <2>1, RecordSays, FS_Subset
<1>9. checks = {"PASS"}
  <2>1. \A i \in DOMAIN acts : CallCheck(i) = "PASS"
    <3> SUFFICES ASSUME NEW i \in DOMAIN acts PROVE CallCheck(i) = "PASS"
      OBVIOUS
    <3>1. SeenState(i) = "completed"
      BY <1>2, <1>3
    <3>2. Checked(acts[i].tool = "summary" =>
            acts[i].output.summary = acts[i].input.lookup) = "PASS"
      BY <1>3, RecordSays DEF Checked
    <3> QED BY <3>1, <3>2 DEF CallCheck
  <2> QED BY <2>1, <1>2, <1>6
<1>10. WorstOf(checks) = "PASS"
  BY <1>9 DEF WorstOf
<1>11. BothServers = "PASS"
  <2>1. PICK r \in Done("research") : TRUE
    BY <1>5, <1>6
  <2>2. r \in SeenOf("research") /\ l \in Seen /\ l \notin SeenOf("research")
    BY <2>1, <1>2, <1>6 DEF SeenOf, Done
  <2> QED BY <2>2 DEF BothServers
<1>12. TwoBranches = "PASS" /\ issues = "PASS"
  BY <1>4, <1>5 DEF TwoBranches, Checked
<1>13. ASSUME NEW i \in lookups
       PROVE  Cardinality(Related(i)) = 1 /\ \A s \in Related(i) : Before(i, s)
  <2>1. Related(i) = {s \in summaries : acts[s].input.lookup.id = i}
    BY <1>1, <1>4 DEF Related
  <2>2. PICK s \in summaries : acts[s].input.lookup = acts[i].output /\ Before(i, s)
    BY <1>5
  <2>3. s \in Related(i)
    BY <2>1, <2>2, <1>7
  <2>4. PICK j \in lookups : j # i
    <3>1. Cardinality({i}) = 1
      BY FS_Singleton
    <3>2. Cardinality(lookups) # Cardinality({i})
      BY <3>1, <1>5
    <3>3. lookups # {i}
      <4> HIDE DEF lookups
      <4> QED BY <3>2, Zenon
    <3> QED BY <3>3
  <2>5. PICK t \in summaries : acts[t].input.lookup = acts[j].output
    BY <1>5
  <2>6. acts[t].input.lookup.id = j /\ t # s
    BY <2>2, <2>4, <2>5, <1>7
  <2>7. summaries = {s, t}
    <3>1. /\ {s, t} \subseteq summaries /\ Cardinality({s, t}) = 2 /\ IsFiniteSet({s, t})
      <4>1. IsFiniteSet({s}) /\ Cardinality({s}) = 1
        BY FS_Singleton
      <4>2. {s, t} = {s} \cup {t} /\ t \notin {s}
        BY <2>6
      <4>3. Cardinality({s} \cup {t}) = 1 + 1 /\ IsFiniteSet({s} \cup {t})
        BY <4>1, <4>2, FS_AddElement
      <4> QED BY <4>2, <4>3
    <3> HIDE DEF summaries
    <3> QED BY <3>1, <1>5, <1>8, FS_Subset
  <2>8. Related(i) = {s}
    BY <2>1, <2>3, <2>4, <2>6, <2>7
  <2> QED BY <2>2, <2>8, FS_Singleton
<1>14. "FAIL" \notin branches /\ "NOT_PROVEN" \notin branches
  <2> SUFFICES ASSUME NEW i \in lookups, NEW v \in {"FAIL", "NOT_PROVEN"}, v \in Branch(i)
               PROVE  FALSE
    BY <1>4
  <2>1. /\ i \in SeenDone /\ acts[i].tool = "lookup" /\ EventsFit
    BY <1>4 DEF OrchestrationInv
  <2>2. Order(FirstSource(acts[i].output.library), i) = "PASS"
    <3> DEFINE f == FirstSource(acts[i].output.library)
    <3>1. SourcesOf(acts[i].output.library) # {} /\ Order(f, i) # "FAIL"
      BY <2>1, BranchOnCourse
    <3>2. f \in SeenDone
      BY <2>1, <3>1, FirstSourceEndsFirst DEF SourcesOf
    <3>3. Has("done", f) /\ Has("begun", i)
      BY <3>2, <1>3, <1>4
    <3>4. PICK r \in Done("research") : acts[i].input.library \in acts[r].output /\ Before(r, i)
      BY <1>5
    <3>5. r \in SourcesOf(acts[i].output.library)
      <4>1. acts[i].output.library = acts[i].input.library
        BY <1>3, RecordSays
      <4> QED BY <3>4, <4>1, <1>4 DEF SourcesOf, Done
    <3>6. EndOf(f) <= EndOf(r)
      BY <2>1, <3>5, FirstSourceEndsFirst
    <3>7. Has("done", r) /\ Position("done", r) < Position("begun", i)
      BY <3>4 DEF Before
    <3>8. Position("done", f) <= Position("done", r)
      BY <3>3, <3>6, <3>7 DEF EndOf
    <3>9. Position("done", f) \in Nat /\ Position("done", r) \in Nat /\ Position("begun", i) \in Nat
      BY <2>1, <3>3, <3>7, PositionHolds
    <3>10. Before(f, i)
      BY <3>3, <3>7, <3>8, <3>9 DEF Before
    <3> QED BY <2>1, <3>10, OrderSays
  <2>3. SourcesOf(acts[i].output.library) # {}
    BY <2>1, BranchOnCourse
  <2>4. \A s \in Related(i) :
          /\ Order(i, s) = "PASS" /\ acts[s].input.lookup = acts[i].output
          /\ s \in SeenDone /\ acts[s].output.summary = acts[i].output
    <3> SUFFICES ASSUME NEW s \in Related(i)
                 PROVE  /\ Order(i, s) = "PASS" /\ acts[s].input.lookup = acts[i].output
                        /\ s \in SeenDone /\ acts[s].output.summary = acts[i].output
      OBVIOUS
    <3>1. Order(i, s) = "PASS"
      BY <1>13, <2>1, OrderSays
    <3>2. s \in SeenDone
      BY <1>4 DEF Related
    <3> QED BY <2>1, <3>1, <3>2, BranchOnCourse
  <2>5. ~(\E x \in SeenDone : /\ acts[x].tool = "lookup" /\ x < i
                              /\ acts[x].output.library = acts[i].output.library)
    BY <2>1, BranchOnCourse
  <2> QED BY <2>2, <2>3, <2>4, <2>5, <1>13, BranchFaults
<1>15. V # {} /\ "FAIL" \notin V /\ "NOT_PROVEN" \notin V
  <2> HIDE DEF branches, checks, issues
  <2> QED BY <1>10, <1>11, <1>12, <1>14
<1>16. ObservedFlow = WorstOf(V)
  BY DEF ObservedFlow
<1> HIDE DEF V
<1> QED BY <1>15, <1>16 DEF WorstOf

(* Whatever stops the stream or the recording, and however many calls are    *)
(* at work at once, the review finds the flow of day 20 observed only if it  *)
(* was, says so of every whole record of it, and never finds a run failed    *)
(* that was on its course; the caller is told truly whether anything was     *)
(* sent and called (verify, run).                                            *)
THEOREM FlowStaysTrue == OrchestrationSpec => []FlowIsTrue
<1>1. ASSUME OrchestrationInv PROVE FlowIsTrue
  <2>1. stage = "broken" => /\ ObservedFlow = "PASS" => IsFlow
                            /\ IsOnCourse =>
                                 /\ IsFlow /\ Terminal /\ ~HasIssues => ObservedFlow = "PASS"
                                 /\ ~Terminal \/ HasIssues => ObservedFlow # "FAIL"
    BY <1>1, ObservedMeansFlow, FlowIsObserved, CutIsNotFailed
  <2>2. /\ sent => "attempt" \in files
        /\ said = "not_sent" => ~sent
        /\ said = "not_observed" => acts = <<>>
        /\ said = "observed" => acts # <<>>
        /\ (\E i \in DOMAIN acts : Has("done", i)) => said \in {"nothing", "observed"}
    BY <1>1 DEF OrchestrationInv, StagesFit, Tellings
  <2> HIDE DEF ObservedFlow, IsOnCourse, Terminal, HasIssues
  <2> QED BY <2>1, <2>2, Zenon DEF FlowIsTrue, IsFlow
<1> QED BY <1>1, OrchestrationInvariance, PTL

-----------------------------------------------------------------------------
(* The new versions of a snapshot.                                         *)

IsFreshTo(f, seen, versions, n) ==
  f = [i \in 0 .. n |-> IF i = 0 THEN <<>>
                        ELSE IF versions[i] \in seen \cup ToSet(f[i - 1]) THEN f[i - 1]
                        ELSE Append(f[i - 1], versions[i])]

LEMMA FreshExists ==
  ASSUME NEW seen, NEW versions, NEW n \in Nat
  PROVE  \E f : IsFreshTo(f, seen, versions, n)
<1> DEFINE Next(g, v) == IF v \in seen \cup ToSet(g) THEN g ELSE Append(g, v)
           Step(f, i) == IF i = 0 THEN <<>> ELSE Next(f[i - 1], versions[i])
           Bad == {m \in Nat : ~ \E f : IsFreshTo(f, seen, versions, m)}
<1>1. Bad = {}
  <2> SUFFICES ASSUME Bad # {} PROVE FALSE
    OBVIOUS
  <2>1. PICK m \in Bad : \A k \in Bad : ~(k < m)
    <3>1. Bad \in SUBSET Nat
      OBVIOUS
    <3> HIDE DEF Bad
    <3> QED BY <3>1, LeastNumber
  <2>2. m # 0
    <3> DEFINE one == [i \in 0 .. 0 |-> <<>>]
    <3>1. one = [i \in 0 .. 0 |-> IF i = 0 THEN <<>>
                        ELSE IF versions[i] \in seen \cup ToSet(one[i - 1]) THEN one[i - 1]
                        ELSE Append(one[i - 1], versions[i])]
      OBVIOUS
    <3> HIDE DEF one
    <3>2. IsFreshTo(one, seen, versions, 0)
      BY <3>1 DEF IsFreshTo
    <3> QED BY <3>2
  <2>3. m \in Nat /\ m - 1 \in Nat /\ m - 1 < m
    <3>1. m \in Nat
      BY <2>1
    <3> QED BY <2>2, <3>1
  <2>4. m - 1 \notin Bad
    <3> HIDE DEF Bad
    <3> QED BY <2>1, <2>3
  <2>5. PICK f : IsFreshTo(f, seen, versions, m - 1)
    BY <2>3, <2>4
  <2> DEFINE g == [i \in 0 .. m |-> IF i = m THEN Next(f[m - 1], versions[m]) ELSE f[i]]
  <2>6. \A i \in 0 .. (m - 1) : f[i] = Step(f, i)
    BY <2>5 DEF IsFreshTo
  <2>7. ASSUME NEW i \in 0 .. m PROVE g[i] = Step(g, i)
    <3> HIDE DEF Next
    <3>1. CASE i = m
      <4>1. g[m - 1] = f[m - 1] /\ m # 0
        BY <2>3
      <4> QED BY <3>1, <4>1
    <3>2. CASE i # m
      <4>1. i \in 0 .. (m - 1) /\ g[i] = f[i]
            /\ (i # 0 => i - 1 \in 0 .. m /\ i - 1 # m /\ g[i - 1] = f[i - 1])
        BY <2>3, <3>2
      <4> QED BY <2>6, <4>1
    <3> QED BY <3>1, <3>2
  <2>8. g = [i \in 0 .. m |-> Step(g, i)]
    <3>1. g = [i \in 0 .. m |-> g[i]]
      OBVIOUS
    <3> HIDE DEF g, Step
    <3> QED BY <2>7, <3>1
  <2>9. IsFreshTo(g, seen, versions, m)
    <3> HIDE DEF g
    <3> QED BY <2>8 DEF IsFreshTo
  <2> QED BY <2>1, <2>9
<1> QED BY <1>1

\* They are the versions that were not seen, each once.
LEMMA FreshAre ==
  ASSUME NEW W, NEW seen, NEW versions \in Seq(W)
  PROVE  /\ Fresh(seen, versions) \in Seq(W)
         /\ IsInjective(Fresh(seen, versions))
         /\ ToSet(Fresh(seen, versions)) = ToSet(versions) \ seen
<1> DEFINE n == Len(versions)
           f == CHOOSE g : IsFreshTo(g, seen, versions, n)
           Fine(i) == /\ f[i] \in Seq(W) /\ IsInjective(f[i])
                      /\ ToSet(f[i]) = {versions[k] : k \in 1 .. i} \ seen
           Bad == {i \in 0 .. n : ~Fine(i)}
<1>1. n \in Nat /\ \A i \in 1 .. n : versions[i] \in W
  OBVIOUS
<1>2. IsFreshTo(f, seen, versions, n)
  <2> HIDE DEF n
  <2> QED BY <1>1, FreshExists
<1>3. Fresh(seen, versions) = f[n]
  BY DEF Fresh, IsFreshTo
<1> HIDE DEF f
<1>4. \A i \in 0 .. n : f[i] = IF i = 0 THEN <<>>
                               ELSE IF versions[i] \in seen \cup ToSet(f[i - 1]) THEN f[i - 1]
                               ELSE Append(f[i - 1], versions[i])
  BY <1>2 DEF IsFreshTo
<1>5. Bad = {}
  <2> SUFFICES ASSUME Bad # {} PROVE FALSE
    OBVIOUS
  <2>1. PICK i \in Bad : \A k \in Bad : ~(k < i)
    <3>1. Bad \in SUBSET Nat
      BY <1>1
    <3> HIDE DEF Bad
    <3> QED BY <3>1, LeastNumber
  <2>2. i \in 0 .. n /\ ~Fine(i)
    BY <2>1
  <2>3. Fine(0)
    <3>1. 0 \in 0 .. n
      BY <1>1
    <3>2. f[0] = <<>>
      BY <1>4, <3>1
    <3> QED BY <3>2 DEF ToSet, IsInjective
  <2>4. i # 0 /\ i - 1 \in 0 .. n /\ i - 1 < i
    <3> HIDE DEF Fine
    <3> QED BY <1>1, <2>2, <2>3
  <2>5. Fine(i - 1)
    <3>1. i - 1 \notin Bad
      <4> HIDE DEF Bad
      <4> QED BY <2>1, <2>4
    <3> HIDE DEF Fine
    <3> QED BY <2>4, <3>1
  <2> DEFINE p == f[i - 1]
             v == versions[i]
  <2>6. f[i] = IF v \in seen \cup ToSet(p) THEN p ELSE Append(p, v)
    BY <1>4, <2>2, <2>4
  <2>7. p \in Seq(W) /\ IsInjective(p) /\ ToSet(p) = {versions[k] : k \in 1 .. (i - 1)} \ seen
    BY <2>5
  <2>8. v \in W /\ {versions[k] : k \in 1 .. i} = {versions[k] : k \in 1 .. (i - 1)} \cup {v}
    <3>1. i \in 1 .. n /\ \A k : k \in 1 .. i <=> k \in 1 .. (i - 1) \/ k = i
      BY <1>1, <2>2, <2>4
    <3> QED BY <1>1, <3>1
  <2> HIDE DEF p, v
  <2>9. CASE v \in seen \cup ToSet(p)
    <3>1. {versions[k] : k \in 1 .. i} \ seen = ToSet(p)
      BY <2>7, <2>8, <2>9
    <3> QED BY <2>2, <2>6, <2>7, <2>9, <3>1
  <2>10. CASE v \notin seen \cup ToSet(p)
    <3>1. /\ Append(p, v) \in Seq(W) /\ Len(p) \in Nat /\ DOMAIN p = 1 .. Len(p)
          /\ DOMAIN Append(p, v) = 1 .. (Len(p) + 1)
          /\ \A k \in 1 .. Len(p) : Append(p, v)[k] = p[k]
          /\ Append(p, v)[Len(p) + 1] = v
      BY <2>7, <2>8
    <3>2. ToSet(Append(p, v)) = ToSet(p) \cup {v}
      <4>1. \A k : k \in 1 .. (Len(p) + 1) <=> k \in 1 .. Len(p) \/ k = Len(p) + 1
        BY <3>1
      <4> QED BY <3>1, <4>1 DEF ToSet
    <3>3. IsInjective(Append(p, v))
      <4>1. \A k \in 1 .. Len(p) : p[k] # v
        BY <2>10, <3>1 DEF ToSet
      <4>2. \A k \in 1 .. (Len(p) + 1) : k \in 1 .. Len(p) \/ k = Len(p) + 1
        BY <3>1
      <4> QED BY <2>7, <3>1, <4>1, <4>2 DEF IsInjective
    <3>4. {versions[k] : k \in 1 .. i} \ seen = ToSet(p) \cup {v}
      BY <2>7, <2>8, <2>10
    <3> QED BY <2>2, <2>6, <2>10, <3>1, <3>2, <3>3, <3>4
  <2> QED BY <2>9, <2>10
<1>6. Fine(n)
  <2>1. n \in 0 .. n
    BY <1>1
  <2> HIDE DEF Fine
  <2> QED BY <1>5, <2>1
<1>7. ToSet(versions) = {versions[k] : k \in 1 .. n}
  BY DEF ToSet
<1> HIDE DEF n
<1> QED BY <1>3, <1>6, <1>7

-----------------------------------------------------------------------------
(* The fold over the executions of a watch.                                *)

Versions18 == UNION {ToSet(v) : v \in VersionLists}

LEMMA ListsAreSequences ==
  ASSUME NEW v \in VersionLists
  PROVE  v \in Seq(Versions18)
<1>1. v \in Seq(ToSet(v)) /\ ToSet(v) \subseteq Versions18
  BY WatchClientAssumption DEF Versions18
<1> DEFINE W == ToSet(v)
<1>2. Len(v) \in Nat /\ v \in [1 .. Len(v) -> W]
  <2>1. v \in Seq(W)
    BY <1>1
  <2> HIDE DEF W
  <2> QED BY <2>1
<1>3. W \subseteq Versions18
  BY <1>1
<1> HIDE DEF W
<1>4. v \in [1 .. Len(v) -> Versions18]
  BY <1>2, <1>3
<1> QED BY <1>2, <1>4, IsASeq

LEMMA ExecutionsAre ==
  ASSUME NEW e \in Executions
  PROVE  /\ e.state \in {"succeeded", "failed"} /\ e.versions \in Seq(Versions18)
         /\ ExecutionIsConsistent(e)
         /\ e.outcome = "interrupted" => e.state = "failed"
<1>1. CASE \E v \in VersionLists :
             e = Execution("succeeded", IF v = <<>> THEN "no_versions" ELSE "found", v, TRUE)
  <2>1. PICK v \in VersionLists :
          e = Execution("succeeded", IF v = <<>> THEN "no_versions" ELSE "found", v, TRUE)
    BY <1>1
  <2>2. v \in Seq(Versions18)
    BY ListsAreSequences
  <2>3. /\ e.state = "succeeded" /\ e.versions = v /\ e.checked = TRUE
        /\ e.outcome = IF v = <<>> THEN "no_versions" ELSE "found"
    BY <2>1 DEF Execution
  <2> QED BY <2>2, <2>3 DEF ExecutionIsConsistent
<1>2. CASE e \in {Execution("succeeded", "artifact_not_found", <<>>, TRUE),
                  Execution("failed", "none", <<>>, TRUE),
                  Execution("failed", "interrupted", <<>>, FALSE)}
  <2>1. <<>> \in Seq(Versions18)
    OBVIOUS
  <2>2. e.versions = <<>> /\ e.state \in {"succeeded", "failed"}
        /\ (e.state = "succeeded" => e.outcome = "artifact_not_found" /\ e.checked)
        /\ (e.outcome = "interrupted" => e.state = "failed" /\ ~e.checked)
    BY <1>2 DEF Execution
  <2> QED BY <2>1, <2>2 DEF ExecutionIsConsistent
<1> QED BY <1>1, <1>2 DEF Executions

\* The snapshots among the first executions, and those that differ from the
\* one before.
SnapshotsTo(n) == {m \in 1 .. n : IsComparable(ended[m])}
IsBefore(m, k, S) == m < k /\ \A x \in S : x <= m \/ k <= x
ChangedTo(n) ==
  {k \in SnapshotsTo(n) : \E m \in SnapshotsTo(n) :
      IsBefore(m, k, SnapshotsTo(n)) /\ VersionsAt(m) # VersionsAt(k)}

Aggregates ==
  [comparable : Nat, first : Int, last : Int, changes : Nat, newly : Seq(Versions18),
   previous : SUBSET Versions18, seen : SUBSET Versions18]

\* What the fold holds after the first executions.
FoldFits(a, n) ==
  /\ a \in Aggregates
  /\ a.comparable = Cardinality(SnapshotsTo(n))
  /\ a.comparable = 0 => a.first = -1 /\ a.last = -1 /\ a.newly = <<>> /\ a.changes = 0
  /\ a.comparable # 0 => a.first # -1 /\ a.last # -1 /\ a.changes <= a.comparable - 1
  /\ a.changes = Cardinality(ChangedTo(n))
  /\ a.seen = UNION {VersionsAt(m) : m \in SnapshotsTo(n)}
  /\ \A m \in SnapshotsTo(n) : (\A k \in SnapshotsTo(n) : k <= m) => a.previous = VersionsAt(m)
  /\ IsInjective(a.newly)
  /\ \A m \in SnapshotsTo(n) :
       (\A k \in SnapshotsTo(n) : m <= k) => ToSet(a.newly) = a.seen \ VersionsAt(m)

LEMMA SnapshotsAreFinite ==
  ASSUME NEW n \in Nat
  PROVE  /\ IsFiniteSet(SnapshotsTo(n)) /\ Cardinality(SnapshotsTo(n)) \in Nat
         /\ IsFiniteSet(ChangedTo(n)) /\ Cardinality(ChangedTo(n)) \in Nat
         /\ Cardinality(SnapshotsTo(n)) = 0 <=> SnapshotsTo(n) = {}
<1>1. IsFiniteSet(1 .. n)
  BY FS_Interval
<1>2. SnapshotsTo(n) \subseteq 1 .. n /\ ChangedTo(n) \subseteq 1 .. n
  BY DEF SnapshotsTo, ChangedTo
<1>3. IsFiniteSet(SnapshotsTo(n)) /\ IsFiniteSet(ChangedTo(n))
  BY <1>1, <1>2, FS_Subset
<1> QED BY <1>3, FS_CardinalityType, FS_EmptySet

LEMMA FoldBegins == FoldFits(Nothing18, 0)
<1>1. SnapshotsTo(0) = {} /\ ChangedTo(0) = {}
  BY DEF SnapshotsTo, ChangedTo
<1>2. Cardinality(SnapshotsTo(0)) = 0 /\ Cardinality(ChangedTo(0)) = 0
  BY <1>1, FS_EmptySet
<1>3. Nothing18 \in Aggregates
  BY DEF Nothing18, Aggregates
<1>4. IsInjective(Nothing18.newly)
  BY DEF IsInjective, Nothing18
<1> QED BY <1>1, <1>2, <1>3, <1>4 DEF FoldFits, Nothing18

\* A check that failed or found no library changes nothing.
LEMMA FoldSkips ==
  ASSUME NEW n \in Nat, NEW a, FoldFits(a, n), ~IsComparable(ended[n + 1])
  PROVE  FoldFits(Folded(a, ended[n + 1]), n + 1)
<1>1. \A m : m \in 1 .. (n + 1) <=> m \in 1 .. n \/ m = n + 1
  OBVIOUS
<1>2. SnapshotsTo(n + 1) = SnapshotsTo(n)
  BY <1>1 DEF SnapshotsTo
<1>3. ChangedTo(n + 1) = ChangedTo(n)
  BY <1>2 DEF ChangedTo
<1>4. Folded(a, ended[n + 1]) = a
  BY DEF Folded
<1> QED BY <1>2, <1>3, <1>4 DEF FoldFits

LEMMA SnapshotIsAdded ==
  ASSUME NEW n \in Nat, IsComparable(ended[n + 1])
  PROVE  /\ SnapshotsTo(n + 1) = SnapshotsTo(n) \cup {n + 1} /\ n + 1 \notin SnapshotsTo(n)
         /\ n + 1 \notin ChangedTo(n)
         /\ \A m \in SnapshotsTo(n) : m \in Nat /\ m <= n
         /\ Cardinality(SnapshotsTo(n + 1)) = Cardinality(SnapshotsTo(n)) + 1
<1>1. \A m : m \in 1 .. (n + 1) <=> m \in 1 .. n \/ m = n + 1
  OBVIOUS
<1>2. SnapshotsTo(n + 1) = SnapshotsTo(n) \cup {n + 1}
  BY <1>1 DEF SnapshotsTo
<1>3. n + 1 \notin SnapshotsTo(n) /\ n + 1 \notin ChangedTo(n)
      /\ \A m \in SnapshotsTo(n) : m \in Nat /\ m <= n
  BY DEF SnapshotsTo, ChangedTo
<1>4. Cardinality(SnapshotsTo(n) \cup {n + 1}) = Cardinality(SnapshotsTo(n)) + 1
  BY <1>3, SnapshotsAreFinite, FS_AddElement
<1> QED BY <1>2, <1>3, <1>4

\* The snapshot added changed if it differs from the last one.
LEMMA ChangeIsAdded ==
  ASSUME NEW n \in Nat, NEW a, FoldFits(a, n), IsComparable(ended[n + 1])
  PROVE  ChangedTo(n + 1) =
           ChangedTo(n) \cup (IF a.comparable > 0 /\ VersionsAt(n + 1) # a.previous
                              THEN {n + 1} ELSE {})
<1> DEFINE S == SnapshotsTo(n)
           T == SnapshotsTo(n + 1)
<1>1. /\ T = S \cup {n + 1} /\ n + 1 \notin S /\ \A m \in S : m \in Nat /\ m <= n
  BY SnapshotIsAdded
<1>2. \A k \in S : k \in ChangedTo(n + 1) <=> k \in ChangedTo(n)
  <2> SUFFICES ASSUME NEW k \in S PROVE k \in ChangedTo(n + 1) <=> k \in ChangedTo(n)
    OBVIOUS
  <2>1. \A m \in S : IsBefore(m, k, T) <=> IsBefore(m, k, S)
    BY <1>1 DEF IsBefore
  <2>2. ~IsBefore(n + 1, k, T)
    BY <1>1 DEF IsBefore
  <2> QED BY <1>1, <2>1, <2>2 DEF ChangedTo
<1>3. a.comparable > 0 <=> S # {}
  <2>1. a.comparable = Cardinality(SnapshotsTo(n))
    BY DEF FoldFits
  <2>2. Cardinality(SnapshotsTo(n)) \in Nat
        /\ (Cardinality(SnapshotsTo(n)) = 0 <=> SnapshotsTo(n) = {})
    BY SnapshotsAreFinite
  <2> QED BY <2>1, <2>2
<1>4. n + 1 \in ChangedTo(n + 1) <=> S # {} /\ VersionsAt(n + 1) # a.previous
  <2>1. CASE S = {}
    <3>1. \A m \in T : ~IsBefore(m, n + 1, T)
      BY <1>1, <2>1 DEF IsBefore
    <3> QED BY <2>1, <3>1 DEF ChangedTo
  <2>2. CASE S # {}
    <3>1. PICK m \in S : \A k \in S : k <= m
      <4> DEFINE D == {n - k : k \in S}
      <4>1. D \in SUBSET Nat /\ D # {}
        BY <1>1, <2>2
      <4>2. PICK d \in D : \A x \in D : ~(x < d)
        <5> HIDE DEF D
        <5> QED BY <4>1, LeastNumber
      <4>3. PICK m \in S : d = n - m
        OBVIOUS
      <4>4. \A k \in S : k <= m
        <5> SUFFICES ASSUME NEW k \in S PROVE k <= m
          OBVIOUS
        <5>1. n - k \in D
          OBVIOUS
        <5>2. ~(n - k < n - m)
          BY <4>2, <4>3, <5>1
        <5> QED BY <1>1, <5>2
      <4> QED BY <4>4
    <3>2. a.previous = VersionsAt(m)
      BY <3>1 DEF FoldFits
    <3>3. \A x \in T : IsBefore(x, n + 1, T) <=> x = m
      BY <1>1, <3>1 DEF IsBefore
    <3>4. n + 1 \in T /\ m \in T
      BY <1>1
    <3> QED BY <2>2, <3>2, <3>3, <3>4 DEF ChangedTo
  <2> QED BY <2>1, <2>2
<1>5. ChangedTo(n + 1) \subseteq T /\ ChangedTo(n) \subseteq S
  BY DEF ChangedTo
<1> HIDE DEF S, T
<1> QED BY <1>1, <1>2, <1>3, <1>4, <1>5

LEMMA FoldCounts ==
  ASSUME NEW n \in Nat, NEW a, FoldFits(a, n), IsComparable(ended[n + 1]),
         ended[n + 1].versions \in Seq(Versions18)
  PROVE  FoldFits(Folded(a, ended[n + 1]), n + 1)
<1> DEFINE e == ended[n + 1]
           b == Folded(a, e)
           S == SnapshotsTo(n)
           T == SnapshotsTo(n + 1)
           isChange == a.comparable > 0 /\ VersionsAt(n + 1) # a.previous
<1>1. /\ T = S \cup {n + 1} /\ n + 1 \notin S /\ \A m \in S : m \in Nat /\ m <= n
      /\ Cardinality(T) = Cardinality(S) + 1 /\ n + 1 \notin ChangedTo(n)
  BY SnapshotIsAdded
<1>2. /\ a \in Aggregates /\ a.comparable = Cardinality(S) /\ a.comparable \in Nat
      /\ a.changes = Cardinality(ChangedTo(n)) /\ a.changes \in Nat
      /\ a.comparable = 0 <=> S = {}
  <2>1. a \in Aggregates /\ a.comparable = Cardinality(S) /\ a.changes = Cardinality(ChangedTo(n))
    BY DEF FoldFits
  <2> QED BY <2>1, SnapshotsAreFinite
<1>3. /\ e.versions \in Seq(Versions18) /\ VersionsAt(n + 1) = ToSet(e.versions)
      /\ ToSet(e.versions) \subseteq Versions18 /\ Len(e.versions) \in Nat
  BY DEF VersionsAt, ToSet
<1>4. /\ b.comparable = a.comparable + 1
      /\ b.first = IF a.comparable = 0 THEN Len(e.versions) ELSE a.first
      /\ b.last = Len(e.versions)
      /\ b.changes = a.changes + IF isChange THEN 1 ELSE 0
      /\ b.newly = IF a.comparable = 0 THEN <<>> ELSE a.newly \o Fresh(a.seen, e.versions)
      /\ b.previous = ToSet(e.versions) /\ b.seen = a.seen \cup ToSet(e.versions)
  BY <1>3 DEF Folded
<1>5. /\ Fresh(a.seen, e.versions) \in Seq(Versions18) /\ IsInjective(Fresh(a.seen, e.versions))
      /\ ToSet(Fresh(a.seen, e.versions)) = ToSet(e.versions) \ a.seen
  BY <1>3, FreshAre
<1>6. /\ a.newly \in Seq(Versions18) /\ IsInjective(a.newly) /\ a.seen \in SUBSET Versions18
      /\ a.first \in Int /\ a.last \in Int
  BY <1>2 DEF FoldFits, Aggregates
<1>7. /\ b.newly \in Seq(Versions18)
      /\ S # {} => ToSet(b.newly) = ToSet(a.newly) \cup ToSet(Fresh(a.seen, e.versions))
  <2>1. a.newly \o Fresh(a.seen, e.versions) \in Seq(Versions18)
    BY <1>5, <1>6
  <2>2. ToSet(a.newly \o Fresh(a.seen, e.versions)) =
          ToSet(a.newly) \cup ToSet(Fresh(a.seen, e.versions))
    <3> DEFINE p == a.newly
               q == Fresh(a.seen, e.versions)
    <3>1. /\ p \in Seq(Versions18) /\ q \in Seq(Versions18)
      BY <1>5, <1>6
    <3> HIDE DEF p, q
    <3>2. /\ Len(p) \in Nat /\ Len(q) \in Nat /\ DOMAIN p = 1 .. Len(p) /\ DOMAIN q = 1 .. Len(q)
          /\ DOMAIN (p \o q) = 1 .. (Len(p) + Len(q))
          /\ \A k \in 1 .. Len(p) : (p \o q)[k] = p[k]
          /\ \A k \in 1 .. Len(q) : (p \o q)[Len(p) + k] = q[k]
      BY <3>1
    <3>3. \A k \in 1 .. (Len(p) + Len(q)) :
            k \in 1 .. Len(p) \/ \E m \in 1 .. Len(q) : k = Len(p) + m
      <4> SUFFICES ASSUME NEW k \in 1 .. (Len(p) + Len(q)), k \notin 1 .. Len(p)
                   PROVE  \E m \in 1 .. Len(q) : k = Len(p) + m
        OBVIOUS
      <4>1. k - Len(p) \in 1 .. Len(q) /\ k = Len(p) + (k - Len(p))
        BY <3>2
      <4> QED BY <4>1
    <3>4. \A k \in 1 .. Len(p) : k \in 1 .. (Len(p) + Len(q))
      BY <3>2
    <3>5. \A k \in 1 .. Len(q) : Len(p) + k \in 1 .. (Len(p) + Len(q))
      BY <3>2
    <3>6. ToSet(p \o q) = ToSet(p) \cup ToSet(q)
      <4>1. ASSUME NEW x \in ToSet(p \o q) PROVE x \in ToSet(p) \cup ToSet(q)
        <5>1. PICK k \in 1 .. (Len(p) + Len(q)) : x = (p \o q)[k]
          BY <3>2 DEF ToSet
        <5>2. CASE k \in 1 .. Len(p)
          BY <5>1, <5>2, <3>2 DEF ToSet
        <5>3. CASE \E m \in 1 .. Len(q) : k = Len(p) + m
          BY <5>1, <5>3, <3>2 DEF ToSet
        <5> QED BY <5>2, <5>3, <3>3
      <4>2. ASSUME NEW x \in ToSet(p) PROVE x \in ToSet(p \o q)
        <5>1. PICK k \in 1 .. Len(p) : x = p[k]
          BY <3>2 DEF ToSet
        <5>2. k \in DOMAIN (p \o q) /\ (p \o q)[k] = x
          BY <5>1, <3>2, <3>4
        <5> QED BY <5>2 DEF ToSet
      <4>3. ASSUME NEW x \in ToSet(q) PROVE x \in ToSet(p \o q)
        <5>1. PICK k \in 1 .. Len(q) : x = q[k]
          BY <3>2 DEF ToSet
        <5>2. Len(p) + k \in DOMAIN (p \o q) /\ (p \o q)[Len(p) + k] = x
          BY <5>1, <3>2, <3>5
        <5> QED BY <5>2 DEF ToSet
      <4> QED BY <4>1, <4>2, <4>3
    <3> QED BY <3>6 DEF p, q
  <2> QED BY <1>2, <1>4, <2>1, <2>2
<1>8. ToSet(a.newly) \subseteq a.seen
  <2>1. CASE S = {}
    <3>1. a.newly = <<>>
      BY <1>2, <2>1 DEF FoldFits
    <3> QED BY <3>1 DEF ToSet
  <2>2. CASE S # {}
    <3>1. S \in SUBSET Nat
      BY <1>1
    <3>2. PICK m \in S : \A k \in S : ~(k < m)
      BY <2>2, <3>1, LeastNumber
    <3>3. \A k \in S : m <= k
      BY <1>1, <3>2
    <3>4. ToSet(a.newly) = a.seen \ VersionsAt(m)
      BY <3>3 DEF FoldFits
    <3> QED BY <3>4
  <2> QED BY <2>1, <2>2
<1>9. IsInjective(b.newly)
  <2>1. CASE S = {}
    BY <1>2, <1>4, <2>1 DEF IsInjective
  <2>2. CASE S # {}
    <3> DEFINE p == a.newly
               q == Fresh(a.seen, e.versions)
    <3>1. /\ p \in Seq(Versions18) /\ q \in Seq(Versions18) /\ IsInjective(p) /\ IsInjective(q)
          /\ ToSet(p) \cap ToSet(q) = {} /\ b.newly = p \o q
      BY <1>2, <1>4, <1>5, <1>6, <1>8, <2>2
    <3> HIDE DEF p, q
    <3>2. /\ Len(p) \in Nat /\ Len(q) \in Nat /\ DOMAIN p = 1 .. Len(p) /\ DOMAIN q = 1 .. Len(q)
          /\ DOMAIN (p \o q) = 1 .. (Len(p) + Len(q))
          /\ \A k \in 1 .. Len(p) : (p \o q)[k] = p[k]
          /\ \A k \in 1 .. (Len(p) + Len(q)) : k > Len(p) =>
               (p \o q)[k] = q[k - Len(p)] /\ k - Len(p) \in 1 .. Len(q)
      BY <3>1
    <3>3. \A i \in 1 .. Len(p), j \in 1 .. Len(q) : p[i] # q[j]
      BY <3>1, <3>2 DEF ToSet
    <3>4. ASSUME NEW i \in 1 .. (Len(p) + Len(q)), NEW j \in 1 .. (Len(p) + Len(q)),
                 (p \o q)[i] = (p \o q)[j]
          PROVE  i = j
      <4>1. CASE i <= Len(p) /\ j <= Len(p)
        <5>1. i \in DOMAIN p /\ j \in DOMAIN p
          BY <3>2, <4>1
        <5>2. p[i] = p[j]
          BY <3>2, <3>4, <5>1
        <5> QED BY <3>1, <5>1, <5>2 DEF IsInjective
      <4>2. CASE i > Len(p) /\ j > Len(p)
        <5>1. q[i - Len(p)] = q[j - Len(p)] /\ i - Len(p) \in DOMAIN q /\ j - Len(p) \in DOMAIN q
          BY <3>2, <3>4, <4>2
        <5>2. i - Len(p) = j - Len(p)
          BY <3>1, <5>1 DEF IsInjective
        <5> QED BY <3>2, <5>2
      <4>3. CASE i <= Len(p) /\ j > Len(p)
        BY <3>2, <3>3, <3>4, <4>3
      <4>4. CASE i > Len(p) /\ j <= Len(p)
        BY <3>2, <3>3, <3>4, <4>4
      <4> QED BY <3>2, <4>1, <4>2, <4>3, <4>4
    <3>5. IsInjective(p \o q)
      BY <3>2, <3>4 DEF IsInjective
    <3> QED BY <3>1, <3>5
  <2> QED BY <2>1, <2>2
<1>10. b.changes = Cardinality(ChangedTo(n + 1)) /\ b.changes \in Nat
  <2>1. ChangedTo(n + 1) = ChangedTo(n) \cup (IF isChange THEN {n + 1} ELSE {})
    BY ChangeIsAdded
  <2>2. CASE isChange
    <3>1. Cardinality(ChangedTo(n) \cup {n + 1}) = Cardinality(ChangedTo(n)) + 1
      BY <1>1, SnapshotsAreFinite, FS_AddElement
    <3>2. ChangedTo(n + 1) = ChangedTo(n) \cup {n + 1}
      BY <2>1, <2>2
    <3> HIDE DEF isChange, b
    <3>3. b.changes = a.changes + 1
      BY <2>2, <1>4
    <3>4. b.changes = Cardinality(ChangedTo(n + 1))
      BY <3>1, <3>2, <3>3, <1>2, Zenon
    <3> QED BY <3>3, <3>4, <1>2
  <2>3. CASE ~isChange
    <3>1. ChangedTo(n + 1) = ChangedTo(n)
      BY <2>1, <2>3
    <3> HIDE DEF isChange, b
    <3>2. b.changes = a.changes
      BY <2>3, <1>2, <1>4
    <3> QED BY <3>1, <3>2, <1>2
  <2> QED BY <2>2, <2>3
<1>11. b.changes <= b.comparable - 1
  <2>1. a.comparable = 0 => a.changes = 0 /\ ~isChange
    BY DEF FoldFits
  <2>2. a.comparable # 0 => a.changes <= a.comparable - 1
    BY DEF FoldFits
  <2>3. b.changes = a.changes \/ b.changes = a.changes + 1
    BY <1>2, <1>4
  <2>4. a.comparable = 0 => b.changes = 0
    BY <1>2, <1>4, <2>1
  <2> HIDE DEF b, isChange
  <2> QED BY <1>2, <1>4, <2>2, <2>3, <2>4
<1>12. b \in Aggregates
  <2>1. b = [comparable |-> b.comparable, first |-> b.first, last |-> b.last,
             changes |-> b.changes, newly |-> b.newly, previous |-> b.previous, seen |-> b.seen]
    BY DEF Folded
  <2>2. /\ b.comparable \in Nat /\ b.first \in Int /\ b.last \in Int
        /\ b.previous \in SUBSET Versions18 /\ b.seen \in SUBSET Versions18
    BY <1>2, <1>3, <1>4, <1>6
  <2> HIDE DEF b
  <2>3. [comparable |-> b.comparable, first |-> b.first, last |-> b.last,
         changes |-> b.changes, newly |-> b.newly, previous |-> b.previous, seen |-> b.seen]
          \in Aggregates
    BY <2>2, <1>7, <1>10 DEF Aggregates
  <2> QED BY <2>1, <2>3
<1>13. /\ b.comparable = Cardinality(T) /\ b.comparable # 0
       /\ b.first # -1 /\ b.last # -1
  <2>1. a.comparable # 0 => a.first # -1
    BY DEF FoldFits
  <2> HIDE DEF b
  <2> QED BY <1>1, <1>2, <1>3, <1>4, <2>1
<1>14. b.seen = UNION {VersionsAt(m) : m \in T}
  <2>1. a.seen = UNION {VersionsAt(m) : m \in S}
    BY DEF FoldFits
  <2> HIDE DEF b
  <2> QED BY <1>1, <1>3, <1>4, <2>1
<1>15. \A m \in T : (\A k \in T : k <= m) => b.previous = VersionsAt(m)
  <2>1. \A m \in T : (\A k \in T : k <= m) => m = n + 1
    BY <1>1
  <2> QED BY <2>1, <1>3, <1>4
<1>16. ASSUME NEW m \in T, \A k \in T : m <= k
       PROVE  ToSet(b.newly) = b.seen \ VersionsAt(m)
  <2>1. CASE S = {}
    <3>1. m = n + 1 /\ b.newly = <<>> /\ a.seen = {}
      BY <1>1, <1>2, <1>4, <2>1 DEF FoldFits
    <3>2. ToSet(b.newly) = {}
      BY <3>1 DEF ToSet
    <3> HIDE DEF b
    <3> QED BY <3>1, <3>2, <1>3, <1>4
  <2>2. CASE S # {}
    <3>1. m \in S /\ \A k \in S : m <= k
      BY <1>1, <1>16, <2>2
    <3>2. ToSet(a.newly) = a.seen \ VersionsAt(m) /\ VersionsAt(m) \subseteq a.seen
      BY <3>1 DEF FoldFits
    <3>3. ToSet(b.newly) = ToSet(a.newly) \cup (ToSet(e.versions) \ a.seen)
      BY <1>5, <1>7, <2>2
    <3> HIDE DEF b
    <3> QED BY <3>2, <3>3, <1>4
  <2> QED BY <2>1, <2>2
<1> HIDE DEF b, S, T
<1>17. FoldFits(b, n + 1)
  BY <1>9, <1>10, <1>11, <1>12, <1>13, <1>14, <1>15, <1>16 DEF FoldFits, T
<1> QED BY <1>17 DEF b

IsFoldTo(f, n) ==
  f = [i \in 0 .. n |-> IF i = 0 THEN Nothing18 ELSE Folded(f[i - 1], ended[i])]

LEMMA FoldExists ==
  ASSUME NEW n \in Nat
  PROVE  \E f : IsFoldTo(f, n)
<1> DEFINE Step(f, i) == IF i = 0 THEN Nothing18 ELSE Folded(f[i - 1], ended[i])
           Bad == {m \in Nat : ~ \E f : IsFoldTo(f, m)}
<1>1. Bad = {}
  <2> SUFFICES ASSUME Bad # {} PROVE FALSE
    OBVIOUS
  <2>1. PICK m \in Bad : \A k \in Bad : ~(k < m)
    <3>1. Bad \in SUBSET Nat
      OBVIOUS
    <3> HIDE DEF Bad
    <3> QED BY <3>1, LeastNumber
  <2>2. m # 0
    <3> DEFINE one == [i \in 0 .. 0 |-> Nothing18]
    <3>1. one = [i \in 0 .. 0 |-> IF i = 0 THEN Nothing18 ELSE Folded(one[i - 1], ended[i])]
      OBVIOUS
    <3> HIDE DEF one
    <3>2. IsFoldTo(one, 0)
      BY <3>1 DEF IsFoldTo
    <3> QED BY <3>2
  <2>3. m \in Nat /\ m - 1 \in Nat /\ m - 1 < m
    <3>1. m \in Nat
      BY <2>1
    <3> QED BY <2>2, <3>1
  <2>4. m - 1 \notin Bad
    <3> HIDE DEF Bad
    <3> QED BY <2>1, <2>3
  <2>5. PICK f : IsFoldTo(f, m - 1)
    BY <2>3, <2>4
  <2> DEFINE g == [i \in 0 .. m |-> IF i = m THEN Folded(f[m - 1], ended[m]) ELSE f[i]]
  <2>6. \A i \in 0 .. (m - 1) : f[i] = Step(f, i)
    BY <2>5 DEF IsFoldTo
  <2>7. ASSUME NEW i \in 0 .. m PROVE g[i] = Step(g, i)
    <3>1. CASE i = m
      <4>1. g[m - 1] = f[m - 1] /\ m # 0
        BY <2>3
      <4> QED BY <3>1, <4>1
    <3>2. CASE i # m
      <4>1. i \in 0 .. (m - 1) /\ g[i] = f[i]
            /\ (i # 0 => i - 1 \in 0 .. m /\ i - 1 # m /\ g[i - 1] = f[i - 1])
        BY <2>3, <3>2
      <4> QED BY <2>6, <4>1
    <3> QED BY <3>1, <3>2
  <2>8. g = [i \in 0 .. m |-> Step(g, i)]
    <3>1. g = [i \in 0 .. m |-> g[i]]
      OBVIOUS
    <3> HIDE DEF g, Step
    <3> QED BY <2>7, <3>1
  <2>9. IsFoldTo(g, m)
    <3> HIDE DEF g
    <3> QED BY <2>8 DEF IsFoldTo
  <2> QED BY <2>1, <2>9
<1> QED BY <1>1

\* Whatever the executions were, the fold of all of them is true.
LEMMA AggregateFits ==
  ASSUME ended \in Seq(Executions)
  PROVE  FoldFits(Aggregated, Len(ended))
<1> DEFINE n == Len(ended)
           f == CHOOSE g : IsFoldTo(g, n)
           Bad == {i \in 0 .. n : ~FoldFits(f[i], i)}
<1>1. n \in Nat /\ \A i \in 1 .. n : ended[i] \in Executions
  OBVIOUS
<1>2. IsFoldTo(f, n)
  <2> HIDE DEF n
  <2> QED BY <1>1, FoldExists
<1>3. Aggregated = f[n]
  BY DEF Aggregated, IsFoldTo
<1> HIDE DEF f
<1>4. \A i \in 0 .. n : f[i] = IF i = 0 THEN Nothing18 ELSE Folded(f[i - 1], ended[i])
  BY <1>2 DEF IsFoldTo
<1>5. Bad = {}
  <2> SUFFICES ASSUME Bad # {} PROVE FALSE
    OBVIOUS
  <2>1. PICK i \in Bad : \A k \in Bad : ~(k < i)
    <3>1. Bad \in SUBSET Nat
      BY <1>1
    <3> HIDE DEF Bad
    <3> QED BY <3>1, LeastNumber
  <2>2. i \in 0 .. n /\ ~FoldFits(f[i], i)
    BY <2>1
  <2>3. i # 0
    <3>1. 0 \in 0 .. n
      BY <1>1
    <3>2. f[0] = Nothing18
      BY <1>4, <3>1
    <3> QED BY <2>2, <3>2, FoldBegins
  <2>4. i \in 1 .. n /\ i - 1 \in 0 .. n /\ i - 1 \in Nat /\ i - 1 < i /\ (i - 1) + 1 = i
    BY <1>1, <2>2, <2>3
  <2>5. FoldFits(f[i - 1], i - 1)
    <3>1. i - 1 \notin Bad
      <4> HIDE DEF Bad
      <4> QED BY <2>1, <2>4
    <3> QED BY <2>4, <3>1
  <2> DEFINE j == i - 1
  <2>6. f[i] = Folded(f[j], ended[j + 1]) /\ j \in Nat /\ j + 1 = i
    BY <1>4, <2>2, <2>3, <2>4
  <2>7. ended[j + 1].versions \in Seq(Versions18)
    BY <1>1, <2>4, <2>6, ExecutionsAre
  <2>8. FoldFits(f[j], j)
    BY <2>5
  <2> HIDE DEF j
  <2>9. FoldFits(Folded(f[j], ended[j + 1]), j + 1)
    BY <2>6, <2>7, <2>8, FoldSkips, FoldCounts
  <2> QED BY <2>2, <2>6, <2>9
<1>6. FoldFits(f[n], n)
  <2>1. n \in 0 .. n
    BY <1>1
  <2> QED BY <1>5, <2>1
<1> QED BY <1>3, <1>6

-----------------------------------------------------------------------------
(* The summary that the server gives, at any time.                         *)

EndedFits ==
  /\ budget \in Nat /\ ended \in Seq(Executions) /\ Len(ended) <= budget
  /\ isRunning \in BOOLEAN
  /\ isRunning => Len(ended) < budget

LEMMA SnapshotsAreAll ==
  ASSUME ended \in Seq(Executions)
  PROVE  SnapshotsTo(Len(ended)) = Snapshots /\ ChangedTo(Len(ended)) \subseteq Snapshots
         /\ Len(ended) \in Nat /\ DOMAIN ended = 1 .. Len(ended)
BY DEF SnapshotsTo, ChangedTo, Snapshots

\* Every count of the executions adds up.
LEMMA CountsAddUp ==
  ASSUME ended \in Seq(Executions)
  PROVE  /\ Len(ended) = CountOf(LAMBDA e : e.state = "succeeded", ended)
                           + CountOf(LAMBDA e : e.state = "failed", ended)
         /\ CountOf(LAMBDA e : e.outcome = "interrupted", ended)
              <= CountOf(LAMBDA e : e.state = "failed", ended)
         /\ CountOf(IsComparable, ended) <= CountOf(LAMBDA e : e.state = "succeeded", ended)
         /\ CountOf(IsComparable, ended) = Cardinality(Snapshots)
<1> DEFINE good == {n \in DOMAIN ended : ended[n].state = "succeeded"}
           bad == {n \in DOMAIN ended : ended[n].state = "failed"}
           cut == {n \in DOMAIN ended : ended[n].outcome = "interrupted"}
<1>1. Len(ended) \in Nat /\ DOMAIN ended = 1 .. Len(ended)
      /\ \A n \in DOMAIN ended : ended[n] \in Executions
  OBVIOUS
<1>2. IsFiniteSet(DOMAIN ended) /\ Cardinality(DOMAIN ended) = Len(ended)
  BY <1>1, FS_Interval
<1>3. good \subseteq DOMAIN ended /\ bad \subseteq DOMAIN ended
      /\ good \cup bad = DOMAIN ended /\ good \cap bad = {}
      /\ cut \subseteq bad /\ Snapshots \subseteq good
  BY <1>1, ExecutionsAre DEF Snapshots, IsComparable
<1> HIDE DEF good, bad, cut
<1>4. IsFiniteSet(good) /\ IsFiniteSet(bad)
  BY <1>2, <1>3, FS_Subset
<1>5. Cardinality(DOMAIN ended) = Cardinality(good) + Cardinality(bad)
  <2>1. Cardinality(good \cup bad) =
          Cardinality(good) + Cardinality(bad) - Cardinality(good \cap bad)
    BY <1>4, FS_Union
  <2>2. Cardinality(good \cap bad) = 0
    BY <1>3, FS_EmptySet
  <2>3. Cardinality(good) \in Nat /\ Cardinality(bad) \in Nat
    BY <1>4, FS_CardinalityType
  <2> QED BY <1>3, <2>1, <2>2, <2>3
<1>6. Cardinality(cut) <= Cardinality(bad) /\ Cardinality(Snapshots) <= Cardinality(good)
  BY <1>3, <1>4, FS_Subset
<1>7. /\ CountOf(LAMBDA e : e.state = "succeeded", ended) = Cardinality(good)
      /\ CountOf(LAMBDA e : e.state = "failed", ended) = Cardinality(bad)
      /\ CountOf(LAMBDA e : e.outcome = "interrupted", ended) = Cardinality(cut)
      /\ CountOf(IsComparable, ended) = Cardinality(Snapshots)
  BY DEF CountOf, good, bad, cut, Snapshots
<1> QED BY <1>2, <1>5, <1>6, <1>7

LEMMA SummarySays ==
  /\ Summary.runs = Len(ended)
  /\ Summary.status = (IF Len(ended) = budget THEN "completed" ELSE "active")
  /\ Summary.next = (Len(ended) < budget)
  /\ Summary.executions = ended /\ Summary.running = isRunning
  /\ Summary.successful = CountOf(LAMBDA e : e.state = "succeeded", ended)
  /\ Summary.failed = CountOf(LAMBDA e : e.state = "failed", ended)
  /\ Summary.interrupted = CountOf(LAMBDA e : e.outcome = "interrupted", ended)
  /\ Summary.comparable = Aggregated.comparable
  /\ Summary.first = Aggregated.first /\ Summary.last = Aggregated.last
  /\ Summary.changes = Aggregated.changes /\ Summary.newly = Aggregated.newly
<1> DEFINE good == CountOf(LAMBDA e : e.state = "succeeded", ended)
           bad == CountOf(LAMBDA e : e.state = "failed", ended)
           cut == CountOf(LAMBDA e : e.outcome = "interrupted", ended)
           a == Aggregated
<1>1. Summary =
        [runs |-> Len(ended), status |-> IF Len(ended) = budget THEN "completed" ELSE "active",
         next |-> Len(ended) < budget, executions |-> ended, running |-> isRunning,
         successful |-> good, failed |-> bad, interrupted |-> cut,
         comparable |-> a.comparable, first |-> a.first, last |-> a.last,
         changes |-> a.changes, newly |-> a.newly]
  BY DEF Summary
<1> HIDE DEF good, bad, cut, a
<1>2. /\ Summary.runs = Len(ended)
      /\ Summary.status = (IF Len(ended) = budget THEN "completed" ELSE "active")
      /\ Summary.next = (Len(ended) < budget)
      /\ Summary.executions = ended /\ Summary.running = isRunning
      /\ Summary.successful = good /\ Summary.failed = bad /\ Summary.interrupted = cut
      /\ Summary.comparable = a.comparable
      /\ Summary.first = a.first /\ Summary.last = a.last
      /\ Summary.changes = a.changes /\ Summary.newly = a.newly
  BY <1>1
<1> QED BY <1>2 DEF good, bad, cut, a

\* No state of the watch offends the rules of the client.
LEMMA SummaryIsAccepted ==
  ASSUME EndedFits
  PROVE  SummaryIsConsistent(Summary)
<1>1. /\ ended \in Seq(Executions) /\ Len(ended) \in Nat /\ budget \in Nat /\ Len(ended) <= budget
      /\ isRunning \in BOOLEAN /\ (isRunning => Len(ended) < budget)
  BY DEF EndedFits
<1> DEFINE a == Aggregated
<1>2. FoldFits(a, Len(ended))
  BY <1>1, AggregateFits
<1>3. SnapshotsTo(Len(ended)) = Snapshots /\ DOMAIN ended = 1 .. Len(ended)
  BY <1>1, SnapshotsAreAll
<1>4. /\ a.comparable = Cardinality(Snapshots) /\ a.comparable \in Nat
      /\ a.comparable = 0 => a.first = -1 /\ a.last = -1 /\ a.changes = 0
      /\ a.comparable # 0 => a.first # -1 /\ a.last # -1 /\ a.changes <= a.comparable - 1
      /\ IsInjective(a.newly) /\ a.changes \in Nat
  <2> HIDE DEF a
  <2>1. a \in Aggregates
    BY <1>2 DEF FoldFits
  <2>2. a.comparable \in Nat /\ a.changes \in Nat
    BY <2>1 DEF Aggregates
  <2> QED BY <1>2, <1>3, <2>2 DEF FoldFits
<1> DEFINE s == Summary
<1>5. ReceiptIsConsistent(s)
  <2>1. s.runs = Len(ended) /\ s.next = (Len(ended) < budget)
        /\ s.status = (IF Len(ended) = budget THEN "completed" ELSE "active")
    BY SummarySays
  <2> HIDE DEF s
  <2>2. CASE Len(ended) = budget
    BY <1>1, <2>1, <2>2 DEF ReceiptIsConsistent
  <2>3. CASE Len(ended) # budget
    <3>1. Len(ended) < budget
      BY <1>1, <2>3
    <3>2. s.status = "active" /\ s.next = TRUE /\ s.runs # budget /\ s.runs <= budget
      BY <1>1, <2>1, <2>3, <3>1
    <3> QED BY <3>2 DEF ReceiptIsConsistent
  <2> QED BY <2>2, <2>3
<1>6. \A n \in DOMAIN s.executions : ExecutionIsConsistent(s.executions[n])
  <2>1. s.executions = ended
    BY SummarySays
  <2>2. \A n \in DOMAIN ended : ended[n] \in Executions
    BY <1>1
  <2> HIDE DEF s
  <2> QED BY <2>1, <2>2, ExecutionsAre
<1>7. /\ s.runs = s.successful + s.failed /\ s.interrupted <= s.failed
      /\ s.comparable <= s.successful /\ Len(s.executions) = s.runs
      /\ s.running => s.status # "completed"
  <2>1. /\ Len(ended) = s.successful + s.failed /\ s.interrupted <= s.failed
        /\ Cardinality(Snapshots) <= s.successful
    BY <1>1, CountsAddUp, SummarySays
  <2>2. s.comparable = Cardinality(Snapshots)
    BY <1>4, SummarySays
  <2>3. s.runs = Len(ended) /\ s.executions = ended /\ s.running = isRunning
        /\ s.status = (IF Len(ended) = budget THEN "completed" ELSE "active")
    BY SummarySays
  <2> HIDE DEF s, a
  <2> QED BY <1>1, <2>1, <2>2, <2>3
<1>8. /\ s.successful = CountOf(LAMBDA e : e.state = "succeeded", s.executions)
      /\ s.failed = CountOf(LAMBDA e : e.state = "failed", s.executions)
      /\ s.interrupted = CountOf(LAMBDA e : e.outcome = "interrupted", s.executions)
      /\ s.comparable = CountOf(IsComparable, s.executions)
  <2>1. s.executions = ended
    BY SummarySays
  <2>2. s.comparable = CountOf(IsComparable, ended)
    BY <1>1, <1>4, CountsAddUp, SummarySays
  <2>3. /\ s.successful = CountOf(LAMBDA e : e.state = "succeeded", ended)
        /\ s.failed = CountOf(LAMBDA e : e.state = "failed", ended)
        /\ s.interrupted = CountOf(LAMBDA e : e.outcome = "interrupted", ended)
    BY SummarySays
  <2> HIDE DEF s
  <2> QED BY <2>1, <2>2, <2>3 DEF CountOf
<1>9. /\ (s.comparable = 0) = (s.first = -1) /\ (s.comparable = 0) = (s.last = -1)
      /\ s.changes <= (IF s.comparable = 0 THEN 0 ELSE s.comparable - 1)
      /\ IsInjective(s.newly)
  <2>1. s.comparable = a.comparable /\ s.first = a.first /\ s.last = a.last
        /\ s.changes = a.changes /\ s.newly = a.newly
    BY SummarySays
  <2> HIDE DEF s, a
  <2> QED BY <1>4, <2>1
<1> HIDE DEF s
<1>10. SummaryIsConsistent(s)
  BY <1>5, <1>6, <1>7, <1>8, <1>9 DEF SummaryIsConsistent
<1> QED BY <1>10 DEF s

\* Its changes and new versions are those of the snapshots.
LEMMA SummaryIsTrue ==
  ASSUME ended \in Seq(Executions)
  PROVE  Summary.changes = TrueChanges /\ ToSet(Summary.newly) = TrueNews
<1> DEFINE a == Aggregated
           T == SnapshotsTo(Len(ended))
<1>1. FoldFits(a, Len(ended)) /\ T = Snapshots /\ Snapshots \subseteq Nat /\ Len(ended) \in Nat
  <2>1. Snapshots \subseteq Nat
    BY DEF Snapshots
  <2> QED BY <2>1, AggregateFits, SnapshotsAreAll
<1>2. a.changes = TrueChanges
  <2>1. ChangedTo(Len(ended)) =
          {n \in Snapshots : \E m \in Snapshots : /\ m < n /\ \A k \in Snapshots : k <= m \/ n <= k
                                                  /\ VersionsAt(m) # VersionsAt(n)}
    <3> HIDE DEF a
    <3> QED BY <1>1 DEF ChangedTo, IsBefore
  <2> HIDE DEF a, T
  <2> QED BY <1>1, <2>1, Zenon DEF FoldFits, TrueChanges
<1> DEFINE first == {k \in Snapshots : \A m \in Snapshots : k <= m}
<1>3. ToSet(a.newly) = (UNION {VersionsAt(n) : n \in Snapshots}) \ (UNION {VersionsAt(n) : n \in first})
  <2>1. CASE Snapshots = {}
    <3>1. a.comparable = 0
      <4>1. a.comparable = Cardinality(T)
        BY <1>1 DEF FoldFits
      <4> HIDE DEF a, T
      <4> QED BY <1>1, <2>1, <4>1, FS_EmptySet
    <3>2. a.newly = <<>>
      <4> HIDE DEF a, T
      <4> QED BY <1>1, <3>1 DEF FoldFits
    <3>3. ToSet(a.newly) = {}
      <4> HIDE DEF a
      <4> QED BY <3>2 DEF ToSet
    <3>4. UNION {VersionsAt(n) : n \in Snapshots} = {}
      BY <2>1
    <3> HIDE DEF a, first
    <3> QED BY <3>3, <3>4
  <2>2. CASE Snapshots # {}
    <3>1. PICK m \in Snapshots : \A k \in Snapshots : ~(k < m)
      BY <1>1, <2>2, LeastNumber
    <3>2. \A k \in Snapshots : m <= k
      BY <1>1, <3>1
    <3>3. first = {m}
      <4>1. \A k \in first : k \in Nat /\ m \in Nat /\ k <= m /\ m <= k
        BY <1>1, <3>2
      <4>2. \A k \in first : k = m
        BY <4>1
      <4> QED BY <3>2, <4>2
    <3>4. ToSet(a.newly) = a.seen \ VersionsAt(m) /\ a.seen = UNION {VersionsAt(n) : n \in Snapshots}
      <4> HIDE DEF a
      <4> QED BY <1>1, <3>2 DEF FoldFits
    <3>5. UNION {VersionsAt(n) : n \in first} = VersionsAt(m)
      BY <3>3
    <3> HIDE DEF a, first
    <3> QED BY <3>4, <3>5
  <2> QED BY <2>1, <2>2
<1> QED BY <1>2, <1>3, SummarySays DEF TrueNews

-----------------------------------------------------------------------------
(* The request.                                                            *)

ClientFaults == {"none", "error", "tool_error", "other_tool", "other_target", "unfinished"}

MadeFits ==
  /\ made = <<>> \/ Len(made) \in Nat
  /\ Len(made) \in Nat /\ DOMAIN made = 1 .. Len(made)
  /\ \A n \in DOMAIN made :
       /\ made[n].fault \in ClientFaults
       /\ asked = "summary" /\ made[n].fault = "none" => SummaryIsConsistent(made[n].answer)

RequestFits ==
  /\ at \in {"new", "opened"} => ~left /\ made = <<>>
  /\ at \in {"new", "opened", "sent"} => answered = NoTelling
  /\ at = "opened" /\ asked # "lookup" => "record" \in papers18
  /\ left /\ asked # "lookup" => {"record", "attempt"} \subseteq papers18

ToldIsTrue ==
  answered # NoTelling =>
    /\ answered.invocation = "not_sent" => ~left
    /\ answered.invocation = "not_observed" => made = <<>>
    /\ answered.saved => "kept" \in papers18
    /\ answered.outcome = "completed" =>
         made # <<>> /\ \A n \in DOMAIN made : made[n].fault = "none"
    /\ answered.outcome = "invalid_tool_result" =>
         \E n \in DOMAIN made : made[n].fault \notin {"none", "error", "tool_error"}

WatchClientInv == EndedFits /\ MadeFits /\ RequestFits /\ ToldIsTrue

LEMMA WatchClientBegins == WatchClientInit => WatchClientInv
<1> SUFFICES ASSUME WatchClientInit PROVE WatchClientInv
  OBVIOUS
<1>1. EndedFits
  <2>1. MaxRuns \in Nat /\ budget \in 1 .. MaxRuns /\ ended = <<>> /\ isRunning = FALSE
    BY WatchClientAssumption DEF WatchClientInit
  <2>2. ended \in Seq(Executions) /\ Len(ended) = 0
    BY <2>1
  <2>3. isRunning \in BOOLEAN /\ ~isRunning
    BY <2>1, Zenon
  <2>4. budget \in Nat /\ Len(ended) <= budget
    BY <2>1, <2>2
  <2> QED BY <2>2, <2>3, <2>4, Zenon DEF EndedFits
<1>2. MadeFits
  BY DEF WatchClientInit, MadeFits
<1>3. RequestFits /\ ToldIsTrue
  BY DEF WatchClientInit, RequestFits, ToldIsTrue
<1> QED BY <1>1, <1>2, <1>3 DEF WatchClientInv

\* The rules look at the budget of the watch only.
LEMMA RulesKeep ==
  ASSUME budget' = budget
  PROVE  \A x : SummaryIsConsistent(x)' <=> SummaryIsConsistent(x)
<1>1. \A x : ReceiptIsConsistent(x)' <=> ReceiptIsConsistent(x)
  BY DEF ReceiptIsConsistent
<1> QED BY <1>1, Zenon DEF SummaryIsConsistent, CountOf

\* What was asked and the watch's budget never change, so a call that was
\* judged keeps its judgement.
LEMMA CallsKeep ==
  ASSUME MadeFits, UNCHANGED <<made, asked, budget>>
  PROVE  MadeFits'
<1>1. \A x : SummaryIsConsistent(x)' <=> SummaryIsConsistent(x)
  BY RulesKeep
<1>2. made' = made /\ asked' = asked
  OBVIOUS
<1> QED BY <1>1, <1>2 DEF MadeFits

LEMMA RunStartsKeeps ==
  ASSUME WatchClientInv, RunStarts
  PROVE  WatchClientInv'
<1>1. EndedFits'
  BY DEF WatchClientInv, EndedFits, RunStarts
<1>2. MadeFits'
  BY CallsKeep DEF WatchClientInv, RunStarts
<1>3. RequestFits' /\ ToldIsTrue'
  BY DEF WatchClientInv, RequestFits, ToldIsTrue, RunStarts
<1> QED BY <1>1, <1>2, <1>3 DEF WatchClientInv

LEMMA RunEndsKeeps ==
  ASSUME WatchClientInv, RunEnds
  PROVE  WatchClientInv'
<1>1. EndedFits'
  <2>1. /\ ended \in Seq(Executions) /\ Len(ended) < budget /\ budget \in Nat
        /\ isRunning' = FALSE /\ budget' = budget
    BY DEF WatchClientInv, EndedFits, RunEnds
  <2>2. PICK e \in Executions : ended' = Append(ended, e)
    BY DEF RunEnds
  <2>3. ended' \in Seq(Executions) /\ Len(ended') = Len(ended) + 1 /\ Len(ended) \in Nat
    BY <2>1, <2>2
  <2>4. Executions' = Executions
    BY DEF Executions
  <2>5. isRunning' \in BOOLEAN /\ ~isRunning'
    BY <2>1, Zenon
  <2>6. budget' \in Nat /\ Len(ended') <= budget' /\ ended' \in Seq(Executions')
    BY <2>1, <2>3, <2>4
  <2> QED BY <2>5, <2>6, Zenon DEF EndedFits
<1>2. MadeFits'
  BY CallsKeep DEF WatchClientInv, RunEnds
<1>3. RequestFits' /\ ToldIsTrue'
  BY DEF WatchClientInv, RequestFits, ToldIsTrue, RunEnds
<1> QED BY <1>1, <1>2, <1>3 DEF WatchClientInv

LEMMA OpenRecordKeeps ==
  ASSUME WatchClientInv, OpenRecord
  PROVE  WatchClientInv'
<1>1. EndedFits'
  BY DEF WatchClientInv, EndedFits, OpenRecord, NothingElse
<1>2. MadeFits'
  BY CallsKeep DEF WatchClientInv, OpenRecord, NothingElse
<1>3. RequestFits' /\ ToldIsTrue'
  BY DEF WatchClientInv, RequestFits, ToldIsTrue, OpenRecord, NothingElse, TellPerson
<1> QED BY <1>1, <1>2, <1>3 DEF WatchClientInv

LEMMA SendKeeps ==
  ASSUME WatchClientInv, Send
  PROVE  WatchClientInv'
<1>1. EndedFits'
  BY DEF WatchClientInv, EndedFits, Send, NothingElse
<1>2. MadeFits'
  BY CallsKeep DEF WatchClientInv, Send, NothingElse
<1>3. RequestFits' /\ ToldIsTrue'
  BY DEF WatchClientInv, RequestFits, ToldIsTrue, Send, NothingElse, KeepAndTell, TellPerson
<1> QED BY <1>1, <1>2, <1>3 DEF WatchClientInv

\* The summary a tool answers with is one the client will accept.
LEMMA CallToolKeeps ==
  ASSUME WatchClientInv, CallTool
  PROVE  WatchClientInv'
<1>1. EndedFits'
  BY DEF WatchClientInv, EndedFits, CallTool
<1>2. MadeFits'
  <2>1. PICK fault \in ClientFaults :
          made' = Append(made, [fault |-> fault,
                                answer |-> IF asked = "summary" /\ fault = "none"
                                           THEN Summary ELSE NoTelling])
    BY DEF CallTool, ClientFaults
  <2>2. SummaryIsConsistent(Summary)
    BY SummaryIsAccepted DEF WatchClientInv
  <2>3. PICK c : c = [fault |-> fault, answer |-> IF asked = "summary" /\ fault = "none"
                                                  THEN Summary ELSE NoTelling]
    OBVIOUS
  <2>4. c.fault = fault /\ (asked = "summary" /\ fault = "none" => c.answer = Summary)
    BY <2>3
  <2>5. asked = "summary" /\ c.fault = "none" => SummaryIsConsistent(c.answer)
    BY <2>2, <2>4
  <2>6. made' = Append(made, c)
    BY <2>1, <2>3
  <2>7. Len(made) \in Nat /\ DOMAIN made = 1 .. Len(made)
    BY DEF WatchClientInv, MadeFits
  <2>8. /\ Len(made') = Len(made) + 1 /\ Len(made') \in Nat /\ DOMAIN made' = 1 .. Len(made')
        /\ \A n \in DOMAIN made' : IF n \in DOMAIN made THEN made'[n] = made[n] ELSE made'[n] = c
    BY <2>6, <2>7
  <2>9. UNCHANGED <<asked, budget>>
    BY DEF CallTool
  <2>10. \A x : SummaryIsConsistent(x)' <=> SummaryIsConsistent(x)
    BY <2>9, RulesKeep
  <2>11. \A n \in DOMAIN made' :
           /\ made'[n].fault \in ClientFaults
           /\ asked = "summary" /\ made'[n].fault = "none" => SummaryIsConsistent(made'[n].answer)
    BY <2>1, <2>4, <2>5, <2>8 DEF WatchClientInv, MadeFits
  <2> QED BY <2>8, <2>9, <2>10, <2>11 DEF MadeFits
<1>3. RequestFits' /\ ToldIsTrue'
  BY DEF WatchClientInv, RequestFits, ToldIsTrue, CallTool
<1> QED BY <1>1, <1>2, <1>3 DEF WatchClientInv

LEMMA NoReplyKeeps ==
  ASSUME WatchClientInv, NoReply
  PROVE  WatchClientInv'
<1>1. EndedFits'
  BY DEF WatchClientInv, EndedFits, NoReply, NothingElse
<1>2. MadeFits'
  BY CallsKeep DEF WatchClientInv, NoReply, NothingElse
<1>3. RequestFits' /\ ToldIsTrue'
  BY DEF WatchClientInv, RequestFits, ToldIsTrue, NoReply, NothingElse, KeepAndTell, TellPerson
<1> QED BY <1>1, <1>2, <1>3 DEF WatchClientInv

\* How a call is judged.
LEMMA CallsAreJudged ==
  ASSUME MadeFits, NEW n \in DOMAIN made
  PROVE  /\ CallOutcome(made[n]) = "completed" <=> made[n].fault = "none"
         /\ CallOutcome(made[n]) = "invalid_tool_result" =>
              made[n].fault \notin {"none", "error", "tool_error"}
<1>1. /\ made[n].fault \in ClientFaults
      /\ asked = "summary" /\ made[n].fault = "none" => SummaryIsConsistent(made[n].answer)
  BY DEF MadeFits
<1>2. CASE made[n].fault = "none"
  BY <1>1, <1>2 DEF CallOutcome
<1>3. CASE made[n].fault \in {"error", "tool_error"}
  BY <1>1, <1>3 DEF CallOutcome
<1>4. CASE made[n].fault \in {"other_tool", "other_target", "unfinished"}
  BY <1>1, <1>4 DEF CallOutcome
<1> QED BY <1>1, <1>2, <1>3, <1>4 DEF ClientFaults

\* What normalize answers is true of the calls.
LEMMA NormalizedIsTrue ==
  ASSUME MadeFits,
         NEW reply \in [discovery : BOOLEAN, text : {"none", "text", "refusal"},
                        status : {"completed", "incomplete", "failed"}]
  PROVE  /\ Normalized(reply) = "completed" =>
              made # <<>> /\ \A n \in DOMAIN made : made[n].fault = "none"
         /\ Normalized(reply) = "invalid_tool_result" =>
              \E n \in DOMAIN made : made[n].fault \notin {"none", "error", "tool_error"}
<1> DEFINE wrong == {n \in DOMAIN made : CallOutcome(made[n]) # "completed"}
           first == CHOOSE n \in wrong : \A m \in wrong : n <= m
<1>1. reply.status \in {"completed", "incomplete", "failed"}
  OBVIOUS
<1>2. wrong # {} => first \in wrong
  <2> SUFFICES ASSUME wrong # {} PROVE first \in wrong
    OBVIOUS
  <2>1. wrong \subseteq Nat
    BY DEF MadeFits
  <2>2. PICK n \in wrong : \A m \in wrong : ~(m < n)
    BY <2>1, LeastNumber
  <2>3. \A m \in wrong : n <= m
    BY <2>1, <2>2
  <2> HIDE DEF wrong
  <2> QED BY <2>2, <2>3
<1>3. \A n \in DOMAIN made :
        /\ CallOutcome(made[n]) = "completed" <=> made[n].fault = "none"
        /\ CallOutcome(made[n]) = "invalid_tool_result" =>
             made[n].fault \notin {"none", "error", "tool_error"}
  BY CallsAreJudged
<1>4. wrong \subseteq DOMAIN made
  OBVIOUS
<1>5. Normalized(reply) =
        IF reply.discovery THEN "mcp_error"
        ELSE IF reply.status # "completed" THEN reply.status
        ELSE IF reply.text = "refusal" THEN "refused"
        ELSE IF made = <<>> THEN "not_called"
        ELSE IF wrong # {} THEN CallOutcome(made[first])
        ELSE IF reply.text = "text" THEN "completed" ELSE "model_response_missing"
  BY DEF Normalized
<1>6. wrong = {} => \A n \in DOMAIN made : CallOutcome(made[n]) = "completed"
  OBVIOUS
<1>7. \A n \in wrong : CallOutcome(made[n]) # "completed"
  OBVIOUS
<1> HIDE DEF wrong, first
<1>8. CASE wrong # {} /\ Normalized(reply) = CallOutcome(made[first])
  BY <1>2, <1>3, <1>4, <1>7, <1>8
<1>9. CASE wrong = {} /\ made # <<>> /\ Normalized(reply) = "completed"
  BY <1>3, <1>6, <1>9
<1>10. CASE Normalized(reply) \in {"mcp_error", "incomplete", "failed", "refused", "not_called",
                                   "model_response_missing"}
  BY <1>10
<1> QED BY <1>1, <1>5, <1>8, <1>9, <1>10

LEMMA ReplyKeeps ==
  ASSUME WatchClientInv, Reply
  PROVE  WatchClientInv'
<1>1. EndedFits'
  BY DEF WatchClientInv, EndedFits, Reply, NothingElse
<1>2. MadeFits'
  BY CallsKeep DEF WatchClientInv, Reply, NothingElse
<1>3. PICK reply \in [discovery : BOOLEAN, text : {"none", "text", "refusal"},
                      status : {"completed", "incomplete", "failed"}] :
        KeepAndTell(Normalized(reply), IF made = <<>> THEN "not_observed" ELSE "observed")
  BY DEF Reply
<1>4. PICK outcome : outcome = Normalized(reply)
  OBVIOUS
<1>5. /\ outcome = "completed" => made # <<>> /\ \A n \in DOMAIN made : made[n].fault = "none"
      /\ outcome = "invalid_tool_result" =>
           \E n \in DOMAIN made : made[n].fault \notin {"none", "error", "tool_error"}
  BY <1>4, NormalizedIsTrue DEF WatchClientInv
<1>6. KeepAndTell(outcome, IF made = <<>> THEN "not_observed" ELSE "observed")
  BY <1>3, <1>4
<1>7. RequestFits'
  BY <1>6 DEF WatchClientInv, RequestFits, Reply, NothingElse, KeepAndTell, TellPerson
<1>8. ToldIsTrue'
  <2>1. /\ answered'.outcome = outcome
        /\ answered'.invocation = (IF made = <<>> THEN "not_observed" ELSE "observed")
        /\ answered'.saved => "kept" \in papers18'
    BY <1>6 DEF KeepAndTell, TellPerson
  <2>2. made' = made /\ left' = left
    BY DEF Reply, NothingElse
  <2> QED BY <1>5, <2>1, <2>2 DEF ToldIsTrue
<1> QED BY <1>1, <1>2, <1>7, <1>8 DEF WatchClientInv

LEMMA BackendIsKilledKeeps ==
  ASSUME WatchClientInv, BackendIsKilled
  PROVE  WatchClientInv'
<1>1. EndedFits'
  BY DEF WatchClientInv, EndedFits, BackendIsKilled
<1>2. MadeFits'
  BY CallsKeep DEF WatchClientInv, BackendIsKilled
<1>3. RequestFits' /\ ToldIsTrue'
  BY DEF WatchClientInv, RequestFits, ToldIsTrue, BackendIsKilled
<1> QED BY <1>1, <1>2, <1>3 DEF WatchClientInv

LEMMA WatchClientInvariance == WatchClientSpec => []WatchClientInv
<1>1. WatchClientInv /\ [WatchClientNext]_clientVars => WatchClientInv'
  <2> SUFFICES ASSUME WatchClientInv, [WatchClientNext]_clientVars PROVE WatchClientInv'
    OBVIOUS
  <2>1. CASE UNCHANGED clientVars
    <3>1. EndedFits' /\ RequestFits' /\ ToldIsTrue'
      BY <2>1 DEF WatchClientInv, EndedFits, RequestFits, ToldIsTrue, clientVars
    <3>2. MadeFits'
      BY <2>1, CallsKeep DEF WatchClientInv, clientVars
    <3> QED BY <3>1, <3>2 DEF WatchClientInv
  <2> QED BY <2>1, RunStartsKeeps, RunEndsKeeps, OpenRecordKeeps, SendKeeps, CallToolKeeps,
             NoReplyKeeps, ReplyKeeps, BackendIsKilledKeeps DEF WatchClientNext
<1> QED BY <1>1, WatchClientBegins, PTL DEF WatchClientSpec

(* Whatever versions a lookup finds and however long the watch is: the       *)
(* person is told the truth about what was sent and what was called, the     *)
(* client's rules accept every summary the server can make, and the summary  *)
(* says what the snapshots say (run, normalize, parse_call, aggregate).      *)
THEOREM ClientStaysHonest == WatchClientSpec => []ClientIsHonest
<1>1. WatchClientInv => ClientIsHonest
  <2> SUFFICES ASSUME WatchClientInv PROVE ClientIsHonest
    OBVIOUS
  <2>1. left /\ asked # "lookup" => {"record", "attempt"} \subseteq papers18
    BY DEF WatchClientInv, RequestFits
  <2>2. made # <<>> /\ at = "sent" /\ asked = "summary" =>
          \A n \in DOMAIN made : made[n].fault = "none" => CallOutcome(made[n]) = "completed"
    BY CallsAreJudged DEF WatchClientInv
  <2>3. at = "new" /\ asked = "summary" =>
          Summary.changes = TrueChanges /\ ToSet(Summary.newly) = TrueNews
    BY SummaryIsTrue DEF WatchClientInv, EndedFits
  <2>4. ToldIsTrue
    BY DEF WatchClientInv
  <2> QED BY <2>1, <2>2, <2>3, <2>4 DEF ClientIsHonest, ToldIsTrue
<1> QED BY <1>1, WatchClientInvariance, PTL

-----------------------------------------------------------------------------
(* The context strategies: one run per strategy, its turns and evaluations. *)

(* The first numbers are as many as the last of them.                       *)
LEMMA FirstNumbers == \A n \in Nat : Cardinality(1 .. n) = n
<1> SUFFICES ASSUME NEW n \in Nat PROVE Cardinality(1 .. n) = n
  OBVIOUS
<1>1. n \in Int /\ 1 \in Int /\ (1 > n => n = 0)
  OBVIOUS
<1>2. Cardinality(1 .. n) = IF 1 > n THEN 0 ELSE n - 1 + 1
  BY <1>1, FS_Interval
<1> QED BY <1>1, <1>2

StrategyPairs == [target : Targets, seen : SUBSET Nat]

RunTyped(r) ==
  /\ DOMAIN r = {"exists", "revision", "steps", "checkpoint", "facts", "factsRevision", "outputs"}
  /\ r.revision \in Nat /\ r.steps \in Seq(StrategyPairs) /\ r.checkpoint \in BOOLEAN

\* The steps of a run that its branches share.
RootOf(r) == {i \in DOMAIN r.steps : r.steps[i].target = "root"}

IsIsolated(s, r) ==
  /\ s = "branches" => \A i \in DOMAIN r.steps : r.steps[i].seen = (RootOf(r) \cap 1..(i - 1))
  /\ \A o \in r.outputs :
       /\ Len(r.steps) = LastStep /\ o.revision = r.revision
       /\ s = "branches" =>
            o.context = RootOf(r) \cup {i \in DOMAIN r.steps : r.steps[i].target = o.variant}
       /\ \A p \in r.outputs : p.variant = o.variant => p = o

\* Facts that a run of n steps may have.
FactsFit(facts, n) ==
  /\ \A f, g \in facts : f.key = g.key => f = g
  /\ \A f \in facts : f.step \in 1 .. n /\ f.key \in Assertions[f.step]

RunFits(s, r) ==
  r.exists => /\ RunTyped(r) /\ IsLoadable(s, r) /\ IsIsolated(s, r)
              /\ s = "branches" /\ Len(r.steps) > BranchPoint => r.checkpoint

\* A turn under way still has the run it began with before it.
TurnFits(s, r, t) ==
  /\ DOMAIN t = {"phase", "revision", "facts", "context"}
  /\ r.exists /\ SendIsValid(s, r)
  /\ t.revision = r.revision
  /\ t.context = Sources(s, r, TargetFor(s, Len(r.steps) + 1))
  /\ t.phase \in {"extracting", "answering"}
  /\ t.phase = "extracting" => s = "facts" /\ t.facts = r.facts
  /\ FactsFit(t.facts, Len(r.steps) + 1)

\* So has an evaluation.
EvaluationFits(s, r, v, e) ==
  /\ r.exists /\ Len(r.steps) = LastStep
  /\ e.revision = r.revision /\ e.context = Sources(s, r, v)

WorkFits(s, r, w) ==
  /\ w = [x \in Slots |-> w[x]]
  /\ w["mutation"] # Unclaimed => TurnFits(s, r, w["mutation"]) /\ \A v \in Variants : w[v] = Unclaimed
  /\ \A v \in Variants : w[v] # Unclaimed => EvaluationFits(s, r, v, w[v])

StrategiesInv ==
  /\ runs = [s \in Strategies |-> runs[s]] /\ guard = [s \in Strategies |-> guard[s]]
  /\ \A s \in Strategies : RunFits(s, runs[s]) /\ WorkFits(s, runs[s], guard[s])

LEMMA OneStrategyMoves ==
  ASSUME StrategiesInv, NEW s \in Strategies, NEW r, NEW w,
         runs' = [runs EXCEPT ![s] = r], guard' = [guard EXCEPT ![s] = w],
         RunFits(s, r), WorkFits(s, r, w)
  PROVE  StrategiesInv'
<1>1. runs' = [t \in Strategies |-> IF t = s THEN r ELSE runs[t]]
  BY DEF StrategiesInv
<1>2. guard' = [t \in Strategies |-> IF t = s THEN w ELSE guard[t]]
  BY DEF StrategiesInv
<1>3. runs' = [t \in Strategies |-> runs'[t]] /\ guard' = [t \in Strategies |-> guard'[t]]
  BY <1>1, <1>2
<1>4. ASSUME NEW t \in Strategies
      PROVE  RunFits(t, runs'[t]) /\ WorkFits(t, runs'[t], guard'[t])
  <2>1. CASE t = s
    BY <1>1, <1>2, <2>1
  <2>2. CASE t # s
    BY <1>1, <1>2, <2>2 DEF StrategiesInv
  <2> QED BY <2>1, <2>2
<1> QED BY <1>3, <1>4 DEF StrategiesInv

LEMMA StrategyFacts ==
  ASSUME StrategiesInv, NEW s \in Strategies
  PROVE  /\ RunFits(s, runs[s]) /\ WorkFits(s, runs[s], guard[s])
         /\ runs = [runs EXCEPT ![s] = runs[s]] /\ guard = [guard EXCEPT ![s] = guard[s]]
         /\ \A place \in Slots : \A x : Holds(s, place, x) =>
              guard' = [guard EXCEPT ![s] = [guard[s] EXCEPT ![place] = x]]
<1>1. RunFits(s, runs[s]) /\ WorkFits(s, runs[s], guard[s])
  BY DEF StrategiesInv
<1>2. runs = [runs EXCEPT ![s] = runs[s]] /\ guard = [guard EXCEPT ![s] = guard[s]]
  BY DEF StrategiesInv
<1>3. \A place \in Slots : \A x : Holds(s, place, x) =>
        guard' = [guard EXCEPT ![s] = [guard[s] EXCEPT ![place] = x]]
  BY DEF Holds
<1> QED BY <1>1, <1>2, <1>3

(* A place that ends leaves the others as they were.                        *)
LEMMA SlotIsReleased ==
  ASSUME NEW s \in Strategies, NEW r, NEW w, NEW place \in Slots, WorkFits(s, r, w)
  PROVE  WorkFits(s, r, [w EXCEPT ![place] = Unclaimed])
<1> DEFINE v == [w EXCEPT ![place] = Unclaimed]
<1>1. v = [x \in Slots |-> IF x = place THEN Unclaimed ELSE w[x]]
  BY DEF WorkFits
<1>2. \A x \in Slots : v[x] = IF x = place THEN Unclaimed ELSE w[x]
  BY <1>1
<1>3. v = [x \in Slots |-> v[x]]
  BY <1>1
<1> HIDE DEF v
<1>4. "mutation" \in Slots /\ \A x \in Variants : x \in Slots
  BY DEF Slots
<1> QED BY <1>2, <1>3, <1>4 DEF WorkFits

(* What runs in a place needs a run, and nothing runs beside a mutation.    *)
LEMMA NothingUnderWay ==
  ASSUME NEW s \in Strategies, NEW r, NEW w, WorkFits(s, r, w),
         ~r.exists \/ \A place \in Slots : w[place] = Unclaimed
  PROVE  \A q : WorkFits(s, q, w)
<1>1. "mutation" \in Slots /\ Variants \subseteq Slots
  BY DEF Slots
<1>2. w["mutation"] = Unclaimed /\ \A v \in Variants : w[v] = Unclaimed
  BY <1>1 DEF WorkFits, TurnFits, EvaluationFits
<1> QED BY <1>2 DEF WorkFits

LEMMA StrategiesBegin == ASSUME StrategiesInit PROVE StrategiesInv
<1>1. \A s \in Strategies : runs[s] = NoRun /\ guard[s] = [place \in Slots |-> Unclaimed]
  BY DEF StrategiesInit
<1>2. "mutation" \in Slots /\ Variants \subseteq Slots
  BY DEF Slots
<1>3. \A s \in Strategies : RunFits(s, runs[s]) /\ WorkFits(s, runs[s], guard[s])
  BY <1>1, <1>2 DEF RunFits, WorkFits, NoRun
<1> QED BY <1>3 DEF StrategiesInit, StrategiesInv

LEMMA CreateRunKeeps ==
  ASSUME StrategiesInv, NEW s \in Strategies, CreateRun(s) PROVE StrategiesInv'
<1> DEFINE r == [exists |-> TRUE, revision |-> 0, steps |-> << >>,
                 checkpoint |-> FALSE, facts |-> {}, factsRevision |-> 0, outputs |-> {}]
<1>1. runs' = [runs EXCEPT ![s] = r] /\ guard' = [guard EXCEPT ![s] = guard[s]]
  BY StrategyFacts DEF CreateRun
<1>2. WorkFits(s, r, guard[s])
  BY StrategyFacts, NothingUnderWay DEF CreateRun
<1>3. RunFits(s, r)
  <2>1. RunTyped(r)
    BY DEF RunTyped
  <2>2. IsLoadable(s, r) /\ IsIsolated(s, r)
    BY DEF IsLoadable, IsIsolated, LastStep
  <2>3. ~(Len(r.steps) > BranchPoint)
    BY DEF BranchPoint
  <2> QED BY <2>1, <2>2, <2>3 DEF RunFits
<1> HIDE DEF r
<1> QED BY <1>1, <1>2, <1>3, OneStrategyMoves

(* What a run hands to the turn after its last step.                       *)
LEMMA LoadedFactsFit ==
  ASSUME NEW s, NEW r, RunTyped(r), IsLoadable(s, r)
  PROVE  FactsFit(r.facts, Len(r.steps) + 1)
<1>1. Len(r.steps) \in Nat /\ DOMAIN r.steps = 1 .. Len(r.steps)
  BY DEF RunTyped
<1> QED BY <1>1 DEF IsLoadable, FactsFit

LEMMA BeginTurnKeeps ==
  ASSUME StrategiesInv, NEW s \in Strategies, BeginTurn(s) PROVE StrategiesInv'
<1> DEFINE run == runs[s]
           t == [phase |-> IF s = "facts" THEN "extracting" ELSE "answering",
                 revision |-> run.revision, facts |-> run.facts,
                 context |-> Sources(s, run, TargetFor(s, Len(run.steps) + 1))]
           w == [guard[s] EXCEPT !["mutation"] = t]
<1>1. run.exists /\ ClaimsMutation(s) /\ SendIsValid(s, run) /\ Holds(s, "mutation", t)
      /\ runs' = runs
  BY DEF BeginTurn
<1>2. "mutation" \in Slots /\ Variants \subseteq Slots /\ "mutation" \notin Variants
  BY DEF Slots, Variants
<1>3. guard' = [guard EXCEPT ![s] = w] /\ runs' = [runs EXCEPT ![s] = run]
  BY <1>1, <1>2, StrategyFacts
<1>4. TurnFits(s, run, t)
  <2>1. FactsFit(run.facts, Len(run.steps) + 1)
    BY <1>1, StrategyFacts, LoadedFactsFit DEF RunFits
  <2> QED BY <1>1, <2>1 DEF TurnFits
<1>5. WorkFits(s, run, w)
  <2>1. \A v \in Variants : guard[s][v] = Unclaimed
    BY <1>1, <1>2 DEF ClaimsMutation
  <2>2. guard[s] = [x \in Slots |-> guard[s][x]]
    BY StrategyFacts DEF WorkFits
  <2> HIDE DEF t
  <2>3. w = [x \in Slots |-> w[x]] /\ w["mutation"] = t /\ \A v \in Variants : w[v] = Unclaimed
    BY <1>2, <2>1, <2>2
  <2> HIDE DEF w
  <2> QED BY <1>4, <2>3 DEF WorkFits
<1> HIDE DEF run, t, w
<1>6. RunFits(s, run)
  BY StrategyFacts DEF run
<1> QED BY <1>3, <1>5, <1>6, OneStrategyMoves

(* A patch over the assertions of the next step fits the facts of the run. *)
LEMMA ReducedFits ==
  ASSUME NEW facts, NEW n \in Nat, FactsFit(facts, n),
         NEW keys \in SUBSET Assertions[n + 1],
         \A f \in facts : f.step \in 1 .. n
  PROVE  FactsFit(Reduced(facts, keys, n + 1), n + 1)
<1> DEFINE patch == [key : keys, step : {n + 1}]
           kept == {f \in facts : f.key \notin keys}
<1>1. Reduced(facts, keys, n + 1) = kept \cup patch
  BY DEF Reduced
<1>2. \A f \in patch : f.key \in keys /\ f.step = n + 1
  OBVIOUS
<1>3. \A f, g \in patch : f.key = g.key => f = g
  OBVIOUS
<1>4. \A f, g \in kept : f.key = g.key => f = g
  BY DEF FactsFit
<1>5. \A f \in kept : f.key \notin keys /\ f.step \in 1 .. n /\ f.key \in Assertions[f.step]
  BY DEF FactsFit
<1> HIDE DEF patch, kept
<1>6. \A f, g \in kept \cup patch : f.key = g.key => f = g
  BY <1>2, <1>3, <1>4, <1>5
<1>7. \A f \in kept \cup patch : f.step \in 1 .. n + 1 /\ f.key \in Assertions[f.step]
  BY <1>2, <1>5
<1> QED BY <1>1, <1>6, <1>7 DEF FactsFit

LEMMA ExtractKeeps ==
  ASSUME StrategiesInv, NEW s \in Strategies, Extract(s) PROVE StrategiesInv'
<1> DEFINE t == guard[s]["mutation"]
           run == runs[s]
           n == Len(run.steps)
<1>1. PICK keys \in SUBSET Assertions[n + 1] :
        Holds(s, "mutation",
              [t EXCEPT !.phase = "answering", !.facts = Reduced(t.facts, keys, n + 1)])
  BY DEF Extract
<1> DEFINE u == [t EXCEPT !.phase = "answering", !.facts = Reduced(t.facts, keys, n + 1)]
           w == [guard[s] EXCEPT !["mutation"] = u]
<1>2. t.phase = "extracting" /\ runs' = runs /\ t # Unclaimed
  BY DEF Extract, Unclaimed
<1>3. "mutation" \in Slots /\ Variants \subseteq Slots /\ "mutation" \notin Variants
  BY DEF Slots, Variants
<1>4. guard' = [guard EXCEPT ![s] = w] /\ runs' = [runs EXCEPT ![s] = run]
  BY <1>1, <1>2, <1>3, StrategyFacts
<1>5. TurnFits(s, run, t) /\ \A v \in Variants : guard[s][v] = Unclaimed
  BY <1>2, StrategyFacts DEF WorkFits
<1>6. RunTyped(run) /\ IsLoadable(s, run) /\ RunFits(s, run)
  BY <1>5, StrategyFacts DEF TurnFits, RunFits
<1>7. n \in Nat /\ DOMAIN run.steps = 1 .. n
  BY <1>6 DEF RunTyped
<1>8. FactsFit(t.facts, n) /\ s = "facts"
  BY <1>2, <1>5, <1>6, <1>7 DEF TurnFits, IsLoadable, FactsFit
<1>9. /\ DOMAIN u = {"phase", "revision", "facts", "context"}
      /\ u.phase = "answering" /\ u.revision = t.revision
      /\ u.facts = Reduced(t.facts, keys, n + 1) /\ u.context = t.context
  <2>1. DOMAIN t = {"phase", "revision", "facts", "context"}
    BY <1>5 DEF TurnFits
  <2> HIDE DEF t
  <2> QED BY <2>1
<1>10. FactsFit(Reduced(t.facts, keys, n + 1), n + 1)
  <2>1. \A f \in t.facts : f.step \in 1 .. n
    BY <1>8 DEF FactsFit
  <2> HIDE DEF t, run, n
  <2> QED BY <1>7, <1>8, <2>1, ReducedFits
<1> HIDE DEF u
<1>11. TurnFits(s, run, u)
  BY <1>5, <1>9, <1>10 DEF TurnFits
<1>12. u # Unclaimed
  BY <1>9 DEF Unclaimed
<1>13. WorkFits(s, run, w)
  <2>1. guard[s] = [x \in Slots |-> guard[s][x]]
    BY StrategyFacts DEF WorkFits
  <2>2. w = [x \in Slots |-> w[x]] /\ w["mutation"] = u /\ \A v \in Variants : w[v] = Unclaimed
    BY <1>3, <1>5, <2>1
  <2> HIDE DEF w
  <2> QED BY <1>11, <2>2 DEF WorkFits
<1> HIDE DEF w, run
<1> QED BY <1>4, <1>6, <1>13, OneStrategyMoves

(* A step that only releases a place.                                       *)
LEMMA OnlyReleased ==
  ASSUME StrategiesInv, NEW s \in Strategies, NEW place \in Slots, Releases(s, place), runs' = runs
  PROVE  StrategiesInv'
<1>1. guard' = [guard EXCEPT ![s] = [guard[s] EXCEPT ![place] = Unclaimed]]
  BY StrategyFacts DEF Releases
<1>2. WorkFits(s, runs[s], [guard[s] EXCEPT ![place] = Unclaimed])
  BY StrategyFacts, SlotIsReleased
<1> QED BY <1>1, <1>2, StrategyFacts, OneStrategyMoves

LEMMA TurnFailsKeeps ==
  ASSUME StrategiesInv, NEW s \in Strategies, StrategyTurnFails(s) PROVE StrategiesInv'
BY OnlyReleased DEF StrategyTurnFails, Slots

(* The root of a run with branches are its first six steps.                *)
LEMMA RootIs ==
  ASSUME NEW r, RunTyped(r), IsLoadable("branches", r)
  PROVE  RootOf(r) = {i \in 1 .. Len(r.steps) : i <= BranchPoint}
BY DEF RootOf, RunTyped, IsLoadable, TargetFor, BranchPoint

LEMMA RootIsSix ==
  ASSUME NEW n \in Nat, n >= BranchPoint
  PROVE  Cardinality({i \in 1 .. n : i <= BranchPoint}) = BranchPoint
<1>1. {i \in 1 .. n : i <= BranchPoint} = 1 .. 6
  BY DEF BranchPoint
<1>2. Cardinality(1 .. 6) = 6
  BY FirstNumbers
<1> QED BY <1>1, <1>2 DEF BranchPoint

(* A run that takes its next step, whatever facts come with it.            *)
LEMMA StepIsAdded ==
  ASSUME NEW s \in Strategies, NEW r, NEW q, NEW facts, NEW context,
         r.exists, RunFits(s, r), SendIsValid(s, r),
         FactsFit(facts, Len(r.steps) + 1),
         context = Sources(s, r, TargetFor(s, Len(r.steps) + 1)),
         q = [r EXCEPT
                !.steps = Append(@, [target |-> TargetFor(s, Len(@) + 1), seen |-> context]),
                !.revision = @ + 1, !.facts = facts,
                !.factsRevision = IF s = "facts" THEN r.revision + 1 ELSE @]
  PROVE  RunFits(s, q)
<1> DEFINE n == Len(r.steps)
           step == [target |-> TargetFor(s, n + 1), seen |-> context]
<1>1. RunTyped(r) /\ IsLoadable(s, r) /\ IsIsolated(s, r)
  BY DEF RunFits
<1>2. n \in Nat /\ n < 8 /\ DOMAIN r.steps = 1 .. n
  BY <1>1 DEF RunTyped, SendIsValid, LastStep
<1>3. step \in StrategyPairs
  <2>1. context \in SUBSET Nat
    BY <1>2 DEF Sources
  <2>2. TargetFor(s, n + 1) \in Targets
    BY DEF TargetFor, Targets
  <2> QED BY <2>1, <2>2 DEF StrategyPairs
<1>4. /\ DOMAIN q = DOMAIN r /\ q.steps = Append(r.steps, step)
      /\ q.exists = r.exists /\ q.revision = r.revision + 1 /\ q.checkpoint = r.checkpoint
      /\ q.facts = facts /\ q.outputs = r.outputs
      /\ s = "facts" => q.factsRevision = r.revision + 1
  <2>1. DOMAIN r = {"exists", "revision", "steps", "checkpoint", "facts", "factsRevision",
                    "outputs"}
    BY <1>1 DEF RunTyped
  <2> QED BY <2>1
<1>5. /\ q.steps \in Seq(StrategyPairs) /\ Len(q.steps) = n + 1 /\ DOMAIN q.steps = 1 .. n + 1
      /\ q.steps[n + 1] = step /\ \A i \in 1 .. n : q.steps[i] = r.steps[i]
  <2>1. q.steps = Append(r.steps, step) /\ r.steps \in Seq(StrategyPairs)
    BY <1>1, <1>4 DEF RunTyped
  <2> HIDE DEF step
  <2> QED BY <1>3, <2>1
<1>6. RunTyped(q)
  BY <1>1, <1>5, <1>4 DEF RunTyped
<1>7. \A i \in DOMAIN q.steps : q.steps[i].target = TargetFor(s, i)
  <2> SUFFICES ASSUME NEW i \in 1 .. n + 1 PROVE q.steps[i].target = TargetFor(s, i)
    BY <1>5
  <2>1. CASE i = n + 1
    BY <1>5, <2>1
  <2>2. CASE i \in 1 .. n
    BY <1>1, <1>2, <1>5, <2>2 DEF IsLoadable
  <2> QED BY <1>2, <2>1, <2>2
<1> HIDE DEF step
<1>8. q.checkpoint => s = "branches" /\ n + 1 >= BranchPoint
  <2> SUFFICES ASSUME r.checkpoint PROVE s = "branches" /\ n >= BranchPoint
    BY <1>2, <1>4 DEF BranchPoint
  <2>1. s = "branches"
    BY <1>1 DEF IsLoadable
  <2>2. Cardinality(RootOf(r)) = BranchPoint
    BY <1>1 DEF IsLoadable, RootOf
  <2>3. RootOf(r) = {i \in 1 .. n : i <= BranchPoint}
    BY <1>1, <2>1, RootIs
  <2>4. CASE n < BranchPoint
    <3>1. RootOf(r) = 1 .. n
      BY <1>2, <2>3, <2>4 DEF BranchPoint
    <3>2. Cardinality(1 .. n) = n
      BY <1>2, FirstNumbers
    <3> QED BY <2>2, <2>4, <3>1, <3>2 DEF BranchPoint
  <2> QED BY <1>2, <2>1, <2>4 DEF BranchPoint
<1>9. RootOf(q) = IF s = "branches" THEN {i \in 1 .. n + 1 : i <= BranchPoint} ELSE RootOf(q)
  BY <1>5, <1>7, <1>2 DEF RootOf, TargetFor, BranchPoint
<1>10. IsLoadable(s, q)
  <2>1. Len(q.steps) <= LastStep
    BY <1>2, <1>5 DEF LastStep
  <2>2. q.revision = Len(q.steps) + (IF q.checkpoint THEN 1 ELSE 0)
    BY <1>1, <1>2, <1>5, <1>4 DEF IsLoadable, RunTyped
  <2>3. q.checkpoint => s = "branches" /\ Cardinality(RootOf(q)) = BranchPoint
    BY <1>2, <1>8, <1>9, RootIsSix
  <2>4. s = "facts" => q.factsRevision = q.revision
    BY <1>4
  <2>5. \A f, g \in q.facts : f.key = g.key => f = g
    BY <1>4 DEF FactsFit
  <2>6. \A f \in q.facts : f.step \in DOMAIN q.steps /\ f.key \in Assertions[f.step]
    BY <1>5, <1>4 DEF FactsFit
  <2> QED BY <1>7, <2>1, <2>2, <2>3, <2>4, <2>5, <2>6 DEF IsLoadable, RootOf
<1>11. IsIsolated(s, q)
  <2>1. q.outputs = {}
    <3>1. \A o \in r.outputs : n = 8
      BY <1>1, Zenon DEF IsIsolated, LastStep
    <3> HIDE DEF n
    <3> QED BY <1>2, <1>4, <3>1
  <2>2. ASSUME s = "branches", NEW i \in DOMAIN q.steps
        PROVE  q.steps[i].seen = (RootOf(q) \cap 1..(i - 1))
    <3>1. RootOf(r) = {j \in 1 .. n : j <= BranchPoint}
      BY <1>1, <2>2, RootIs
    <3>2. RootOf(q) = {j \in 1 .. n + 1 : j <= BranchPoint}
      BY <1>9, <2>2
    <3>3. CASE i \in 1 .. n
      <4>1. q.steps[i].seen = (RootOf(r) \cap 1..(i - 1))
        BY <1>1, <1>2, <1>5, <2>2, <3>3 DEF IsIsolated
      <4> QED BY <1>2, <3>1, <3>2, <3>3, <4>1
    <3>4. CASE i = n + 1
      <4>1. q.steps[i].seen = context
        BY <1>5, <3>4 DEF step
      <4>2. context = {j \in 1 .. n : r.steps[j].target \in {"root", TargetFor(s, n + 1)}}
        BY <1>2, <2>2 DEF Sources
      <4>3. \A j \in 1 .. n : r.steps[j].target = TargetFor(s, j)
        BY <1>1, <1>2 DEF IsLoadable
      <4>4. \A j \in 1 .. n :
              r.steps[j].target \in {"root", TargetFor(s, n + 1)} <=> j <= BranchPoint
        BY <1>2, <2>2, <4>3 DEF TargetFor, BranchPoint
      <4>5. context = {j \in 1 .. n : j <= BranchPoint}
        BY <4>2, <4>4
      <4> QED BY <1>2, <3>2, <3>4, <4>1, <4>5
    <3> QED BY <1>2, <1>5, <2>2, <3>3, <3>4
  <2> QED BY <2>1, <2>2 DEF IsIsolated
<1>12. s = "branches" /\ Len(q.steps) > BranchPoint => q.checkpoint
  BY <1>2, <1>5, <1>4 DEF SendIsValid, BranchPoint
<1> QED BY <1>6, <1>10, <1>11, <1>12 DEF RunFits

LEMMA CommitTurnKeeps ==
  ASSUME StrategiesInv, NEW s \in Strategies, CommitTurn(s) PROVE StrategiesInv'
<1> DEFINE t == guard[s]["mutation"]
           run == runs[s]
           q == [run EXCEPT
                   !.steps = Append(@, [target |-> TargetFor(s, Len(@) + 1), seen |-> t.context]),
                   !.revision = @ + 1, !.facts = t.facts,
                   !.factsRevision = IF s = "facts" THEN run.revision + 1 ELSE @]
           w == [guard[s] EXCEPT !["mutation"] = Unclaimed]
<1>1. t.phase = "answering" /\ run.exists /\ SendIsValid(s, run) /\ Releases(s, "mutation")
      /\ t # Unclaimed
  BY DEF CommitTurn, Unclaimed
<1>2. RunFits(s, run) /\ TurnFits(s, run, t) /\ \A v \in Variants : guard[s][v] = Unclaimed
  BY <1>1, StrategyFacts DEF WorkFits
<1>3. RunTyped(run)
  BY <1>1, <1>2 DEF RunFits
<1>4. runs' = [runs EXCEPT ![s] = q]
  BY DEF CommitTurn, StrategiesInv
<1>6. RunFits(s, q)
  BY <1>1, <1>2, StepIsAdded DEF TurnFits
<1>7. "mutation" \in Slots /\ Variants \subseteq Slots
  BY DEF Slots
<1>8. guard' = [guard EXCEPT ![s] = w]
  BY <1>1, <1>7, StrategyFacts DEF Releases
<1>9. \A x \in Slots : w[x] = Unclaimed
  <2>1. guard[s] = [x \in Slots |-> guard[s][x]]
    BY StrategyFacts DEF WorkFits
  <2> QED BY <1>2, <2>1 DEF Slots
<1>10. WorkFits(s, run, w)
  BY <1>7, StrategyFacts, SlotIsReleased
<1> HIDE DEF w, q, run
<1>11. WorkFits(s, q, w)
  BY <1>9, <1>10, NothingUnderWay
<1> QED BY <1>4, <1>6, <1>8, <1>11, OneStrategyMoves

LEMMA CheckpointKeeps ==
  ASSUME StrategiesInv, NEW s \in Strategies, Checkpoint(s) PROVE StrategiesInv'
<1> DEFINE run == runs[s]
           q == [run EXCEPT !.checkpoint = TRUE, !.revision = @ + 1]
<1>1. /\ run.exists /\ ClaimsMutation(s) /\ s = "branches" /\ ~run.checkpoint
      /\ Len(run.steps) = BranchPoint
  BY DEF Checkpoint
<1>2. runs' = [runs EXCEPT ![s] = q] /\ guard' = [guard EXCEPT ![s] = guard[s]]
  <2>1. runs' = [runs EXCEPT ![s].checkpoint = TRUE, ![s].revision = @ + 1] /\ guard' = guard
    BY DEF Checkpoint
  <2>2. s \in DOMAIN runs
    BY DEF StrategiesInv
  <2>3. runs' = [runs EXCEPT ![s] = q]
    BY <2>1, <2>2
  <2> QED BY <2>1, <2>3, StrategyFacts
<1>3. WorkFits(s, q, guard[s])
  BY <1>1, StrategyFacts, NothingUnderWay DEF ClaimsMutation
<1>4. RunTyped(run) /\ IsLoadable(s, run) /\ IsIsolated(s, run)
  BY <1>1, StrategyFacts DEF RunFits
<1>5. /\ DOMAIN q = DOMAIN run /\ q.exists = run.exists /\ q.revision = run.revision + 1
      /\ q.steps = run.steps /\ q.checkpoint = TRUE /\ q.facts = run.facts
      /\ q.factsRevision = run.factsRevision /\ q.outputs = run.outputs
  <2> HIDE DEF run
  <2> QED BY <1>4 DEF RunTyped
<1> HIDE DEF q
<1> HIDE DEF run
<1>6. RunTyped(q)
  <2>1. run.revision + 1 \in Nat
    BY <1>4 DEF RunTyped
  <2> QED BY <1>4, <1>5, <2>1 DEF RunTyped
<1>7. IsLoadable(s, q)
  <2>1. RootOf(run) = {i \in 1 .. Len(run.steps) : i <= BranchPoint}
    BY <1>1, <1>4, RootIs
  <2>2. Cardinality(RootOf(run)) = BranchPoint
    <3>1. Len(run.steps) \in Nat /\ Len(run.steps) >= BranchPoint
      BY <1>1 DEF BranchPoint
    <3> QED BY <2>1, <3>1, RootIsSix
  <2>3. RootOf(q) = RootOf(run)
    BY <1>5 DEF RootOf
  <2>4. q.revision = Len(q.steps) + (IF q.checkpoint THEN 1 ELSE 0)
    <3>1. run.revision = 6 /\ Len(run.steps) = 6
      BY <1>1, <1>4 DEF IsLoadable, BranchPoint
    <3> QED BY <1>5, <3>1
  <2>5. s # "facts"
    BY <1>1
  <2> QED BY <1>1, <1>4, <1>5, <2>2, <2>3, <2>4, <2>5 DEF IsLoadable, RootOf
<1>8. IsIsolated(s, q)
  <2>1. q.outputs = {}
    BY <1>1, <1>4, <1>5 DEF IsIsolated, LastStep, BranchPoint
  <2>2. \A i \in DOMAIN q.steps : q.steps[i].seen = (RootOf(q) \cap 1..(i - 1))
    BY <1>1, <1>4, <1>5 DEF IsIsolated, RootOf
  <2> QED BY <2>1, <2>2 DEF IsIsolated
<1>9. RunFits(s, q)
  BY <1>5, <1>6, <1>7, <1>8 DEF RunFits
<1> QED BY <1>2, <1>3, <1>9, OneStrategyMoves

LEMMA BeginEvaluationKeeps ==
  ASSUME StrategiesInv, NEW s \in Strategies, NEW v \in Variants, BeginEvaluation(s, v)
  PROVE  StrategiesInv'
<1> DEFINE run == runs[s]
           e == [phase |-> "evaluating", revision |-> run.revision, context |-> Sources(s, run, v)]
           w == [guard[s] EXCEPT ![v] = e]
<1>1. run.exists /\ ClaimsVariant(s, v) /\ Len(run.steps) = LastStep /\ Holds(s, v, e)
      /\ runs' = runs
  BY DEF BeginEvaluation
<1>2. "mutation" \in Slots /\ Variants \subseteq Slots /\ "mutation" \notin Variants
  BY DEF Slots, Variants
<1>3. guard' = [guard EXCEPT ![s] = w] /\ runs' = [runs EXCEPT ![s] = run]
  BY <1>1, <1>2, StrategyFacts
<1>4. EvaluationFits(s, run, v, e)
  BY <1>1 DEF EvaluationFits
<1>5. WorkFits(s, run, guard[s]) /\ guard[s]["mutation"] = Unclaimed
  BY <1>1, StrategyFacts DEF ClaimsVariant
<1>6. WorkFits(s, run, w)
  <2>1. guard[s] = [x \in Slots |-> guard[s][x]]
    BY <1>5 DEF WorkFits
  <2> HIDE DEF e
  <2>2. /\ w = [x \in Slots |-> w[x]] /\ w["mutation"] = Unclaimed /\ w[v] = e
        /\ \A u \in Variants : u # v => w[u] = guard[s][u]
    BY <1>2, <1>5, <2>1
  <2> HIDE DEF w
  <2> QED BY <1>4, <1>5, <2>2 DEF WorkFits
<1> HIDE DEF run, w
<1>7. RunFits(s, run)
  BY StrategyFacts DEF run
<1> QED BY <1>3, <1>6, <1>7, OneStrategyMoves

(* An output that is saved replaces the one of its variant, and belongs to *)
(* the finished run.                                                       *)
LEMMA EndEvaluationKeeps ==
  ASSUME StrategiesInv, NEW s \in Strategies, NEW v \in Variants, EndEvaluation(s, v)
  PROVE  StrategiesInv'
<1> DEFINE e == guard[s][v]
           run == runs[s]
           w == [guard[s] EXCEPT ![v] = Unclaimed]
           others == {o \in run.outputs : o.variant # v \/ o.revision # e.revision}
<1>1. e.phase = "evaluating" /\ Releases(s, v) /\ v \in Slots /\ e # Unclaimed
  BY DEF EndEvaluation, Slots, Unclaimed
<1>2. EvaluationFits(s, run, v, e) /\ WorkFits(s, run, guard[s]) /\ RunFits(s, run)
  BY <1>1, StrategyFacts DEF WorkFits
<1>3. CASE runs' = runs
  BY <1>1, <1>3, OnlyReleased
<1>4. ASSUME NEW reply,
             runs' = [runs EXCEPT ![s].outputs = others \cup
                        {[variant |-> v, revision |-> e.revision, context |-> e.context,
                          reply |-> reply]}]
      PROVE  StrategiesInv'
  <2> DEFINE o1 == [variant |-> v, revision |-> e.revision, context |-> e.context,
                    reply |-> reply]
             q == [run EXCEPT !.outputs = others \cup {o1}]
  <2>1. runs' = [runs EXCEPT ![s] = q] /\ guard' = [guard EXCEPT ![s] = w]
    BY <1>1, <1>4, StrategyFacts DEF Releases, StrategiesInv
  <2>2. RunTyped(run) /\ IsLoadable(s, run) /\ IsIsolated(s, run) /\ run.exists
        /\ Len(run.steps) = LastStep /\ e.revision = run.revision
        /\ e.context = Sources(s, run, v)
    BY <1>2 DEF RunFits, EvaluationFits
  <2>3. /\ DOMAIN q = DOMAIN run /\ q.exists = run.exists /\ q.revision = run.revision
        /\ q.steps = run.steps /\ q.checkpoint = run.checkpoint /\ q.facts = run.facts
        /\ q.factsRevision = run.factsRevision /\ q.outputs = others \cup {o1}
    <3> HIDE DEF run, others, o1
    <3> QED BY <2>2 DEF RunTyped
  <2>4. o1.variant = v /\ o1.revision = run.revision /\ o1.context = Sources(s, run, v)
    BY <2>2
  <2>5. \A o \in others : o \in run.outputs /\ o.variant # v
    BY <2>2 DEF IsIsolated
  <2> HIDE DEF q, o1, others
  <2>6. RunTyped(q)
    BY <2>2, <2>3 DEF RunTyped
  <2>7. IsLoadable(s, q)
    BY <2>2, <2>3 DEF IsLoadable
  <2>8. IsIsolated(s, q)
    <3>1. RootOf(q) = RootOf(run)
      BY <2>3 DEF RootOf
    <3>2. s = "branches" => Sources(s, run, v) =
            RootOf(run) \cup {i \in DOMAIN run.steps : run.steps[i].target = v}
      BY DEF Sources, RootOf
    <3>3. s = "branches" => \A i \in DOMAIN q.steps :
            q.steps[i].seen = (RootOf(q) \cap 1..(i - 1))
      BY <2>2, <2>3, <3>1 DEF IsIsolated
    <3>4. \A o \in others \cup {o1} :
            /\ o.revision = run.revision
            /\ s = "branches" =>
                 o.context = RootOf(run) \cup {i \in DOMAIN run.steps :
                                                run.steps[i].target = o.variant}
      BY <2>2, <2>4, <2>5, <3>2 DEF IsIsolated
    <3>5. \A o, p \in others \cup {o1} : p.variant = o.variant => p = o
      BY <2>2, <2>4, <2>5 DEF IsIsolated
    <3> QED BY <2>2, <2>3, <3>1, <3>3, <3>4, <3>5 DEF IsIsolated
  <2>9. RunFits(s, q)
    BY <1>2, <2>2, <2>3, <2>6, <2>7, <2>8 DEF RunFits
  <2>10. WorkFits(s, q, w)
    <3>1. WorkFits(s, run, w)
      BY <1>1, <1>2, SlotIsReleased
    <3>2. w["mutation"] = Unclaimed
      <4>1. guard[s]["mutation"] = Unclaimed /\ guard[s] = [x \in Slots |-> guard[s][x]]
        BY <1>1, <1>2 DEF WorkFits
      <4> QED BY <4>1 DEF Slots
    <3>3. Sources(s, q, v) = Sources(s, run, v) /\ \A u : Sources(s, q, u) = Sources(s, run, u)
      BY <2>3 DEF Sources
    <3> HIDE DEF w, run
    <3> QED BY <2>2, <2>3, <3>1, <3>2, <3>3 DEF WorkFits, EvaluationFits
  <2> HIDE DEF w
  <2> QED BY <2>1, <2>9, <2>10, OneStrategyMoves
<1>5. runs' = runs \/ \E reply \in {"completed", "invalid", "error"} :
        runs' = [runs EXCEPT ![s].outputs = others \cup
                   {[variant |-> v, revision |-> e.revision, context |-> e.context,
                     reply |-> reply]}]
  BY DEF EndEvaluation
<1> HIDE DEF e, others, run
<1> QED BY <1>3, <1>4, <1>5

LEMMA ResetKeeps ==
  ASSUME StrategiesInv, NEW s \in Strategies, Reset(s) PROVE StrategiesInv'
<1>1. runs' = [runs EXCEPT ![s] = NoRun] /\ guard' = [guard EXCEPT ![s] = guard[s]]
  BY StrategyFacts DEF Reset
<1>2. WorkFits(s, NoRun, guard[s])
  BY StrategyFacts, NothingUnderWay DEF Reset, ClaimsMutation
<1>3. RunFits(s, NoRun)
  BY DEF RunFits, NoRun
<1> QED BY <1>1, <1>2, <1>3, OneStrategyMoves

LEMMA RestartStrategiesKeeps == ASSUME StrategiesInv, RestartStrategies PROVE StrategiesInv'
<1>1. \A s \in Strategies : runs'[s] = runs[s] /\ guard'[s] = [place \in Slots |-> Unclaimed]
  BY DEF RestartStrategies
<1>2. "mutation" \in Slots /\ Variants \subseteq Slots
  BY DEF Slots
<1>3. \A s \in Strategies : WorkFits(s, runs'[s], guard'[s])
  BY <1>1, <1>2 DEF WorkFits
<1>4. \A s \in Strategies : RunFits(s, runs'[s])
  BY <1>1 DEF StrategiesInv
<1> QED BY <1>3, <1>4 DEF RestartStrategies, StrategiesInv

LEMMA StrategiesInvariance == StrategiesSpec => []StrategiesInv
<1>1. StrategiesInv /\ [StrategiesNext]_strategyVars => StrategiesInv'
  <2> SUFFICES ASSUME StrategiesInv, [StrategiesNext]_strategyVars PROVE StrategiesInv'
    OBVIOUS
  <2>1. CASE UNCHANGED strategyVars
    BY <2>1 DEF StrategiesInv, strategyVars
  <2>2. CASE RestartStrategies
    BY <2>2, RestartStrategiesKeeps
  <2>3. ASSUME NEW s \in Strategies, StrategyStep(s) PROVE StrategiesInv'
    BY <2>3, CreateRunKeeps, BeginTurnKeeps, ExtractKeeps, CommitTurnKeeps, TurnFailsKeeps,
       CheckpointKeeps, ResetKeeps, BeginEvaluationKeeps, EndEvaluationKeeps DEF StrategyStep
  <2> QED BY <2>1, <2>2, <2>3 DEF StrategiesNext
<1> QED BY <1>1, StrategiesBegin, PTL DEF StrategiesSpec

(* A run of the context lab can always be loaded again, no variant sees    *)
(* the steps of the other one, and an evaluation belongs to the run it is  *)
(* shown with, whatever turns, evaluations, resets and restarts race (load,*)
(* commit_turn, save_output, RunGuard).                                    *)
THEOREM RunsStaySound == StrategiesSpec => []RunsAreSound
<1>1. StrategiesInv => RunsAreSound
  <2> SUFFICES ASSUME StrategiesInv PROVE RunsAreSound
    OBVIOUS
  <2>1. \A s \in Strategies : runs[s].exists => IsLoadable(s, runs[s]) /\ IsIsolated(s, runs[s])
    BY DEF StrategiesInv, RunFits
  <2>2. RunIsLoadable
    BY <2>1 DEF RunIsLoadable
  <2>3. BranchesAreIsolated
    BY <2>1 DEF BranchesAreIsolated, IsIsolated, RootOf
  <2> QED BY <2>2, <2>3 DEF RunsAreSound
<1> QED BY <1>1, StrategiesInvariance, PTL

-----------------------------------------------------------------------------
(* The stateless experiments.                                              *)

Endings == {"completed", "incomplete", "failed", "parse error", "refused", "api error",
            "invalid response", "bad request", "timeout", "upstream error"}
Pipelines == [phase : {"calling", "waiting", "done", "raised"}, calls : Nat, usage : Nat,
              prompt : BOOLEAN, status : Endings \cup {"none"}]

ExperimentTyped ==
  /\ experiment \in Experiments /\ strict \in BOOLEAN
  /\ experiment \in {"reasoning", "benchmark"} => strict
  /\ slot \in [SlotsOf(experiment) -> Pipelines]
  /\ heard \in [SlotsOf(experiment) -> Seq(Responses \cup Faults)]

IsUsable(r, e, b) ==
  /\ r \in Responses /\ r.status = "completed"
  /\ \/ r.content = "valid"
     \/ ~b /\ r.content = "garbled"
     \/ e = "generate" /\ r.content \in {"refusal", "nothing"}
Paid(all) == Cardinality({i \in DOMAIN all : all[i] \in Responses})

\* Until it ends, a slot has heard nothing but the prompt of its second call.
SlotGoesOn(p, all, s, e) ==
  /\ Len(all) = IF p.prompt THEN 1 ELSE 0
  /\ \A i \in DOMAIN all : all[i] \in Responses
  /\ p.usage = Len(all)
  /\ CountsCalls(e) => p.calls = Len(all) + (IF p.phase = "waiting" THEN 1 ELSE 0)
  /\ p.prompt => s = MetaPrompt

\* What a slot leaves when it ends is what a result has to say.
SlotIsAccounted(p, all, s, e, b) ==
  /\ all # << >>
  /\ p.usage = Paid(all) /\ (CountsCalls(e) => p.calls = Len(all))
  /\ p.prompt = (s = MetaPrompt /\ Len(all) = 2)
  /\ p.status = "completed" <=> IsUsable(all[Len(all)], e, b)

SlotFits(p, all, s, e, b) ==
  /\ p.phase \in {"calling", "waiting"} => SlotGoesOn(p, all, s, e)
  /\ p.phase = "done" => SlotIsAccounted(p, all, s, e, b)

SlotsFit == \A s \in SlotsOf(experiment) : SlotFits(slot[s], heard[s], s, experiment, strict)

\* The results that are told say what their slots left.
ResultsFit ==
  answer.is = "results" =>
    \A s \in DOMAIN answer.of : answer.of[s].status # "internal error" =>
      SlotIsAccounted(answer.of[s], heard[s], s, experiment, strict)

ExperimentsInv == ExperimentTyped /\ SlotsFit /\ ResultsFit

(* Usage is counted per response that came back.                           *)
LEMMA PaidGrows ==
  ASSUME NEW all \in Seq(Responses \cup Faults), NEW x \in Responses \cup Faults
  PROVE  Paid(Append(all, x)) = Paid(all) + (IF x \in Responses THEN 1 ELSE 0)
<1> DEFINE Old == {i \in DOMAIN all : all[i] \in Responses}
           New == {i \in DOMAIN Append(all, x) : Append(all, x)[i] \in Responses}
<1>1. /\ Append(all, x) \in Seq(Responses \cup Faults)
      /\ DOMAIN Append(all, x) = 1 .. Len(all) + 1 /\ DOMAIN all = 1 .. Len(all)
      /\ Append(all, x)[Len(all) + 1] = x
      /\ \A i \in 1 .. Len(all) : Append(all, x)[i] = all[i]
  OBVIOUS
<1>2. Len(all) \in Nat
  OBVIOUS
<1>3. IsFiniteSet(Old)
  <2>1. IsFiniteSet(1 .. Len(all))
    BY <1>2, FS_Interval
  <2> QED BY <2>1, <1>1, FS_Subset
<1>4. Len(all) + 1 \notin Old
  BY <1>1, <1>2
<1>5. Cardinality(Old) \in Nat
  BY <1>3, FS_CardinalityType
<1>0. Paid(all) = Cardinality(Old) /\ Paid(Append(all, x)) = Cardinality(New)
  BY DEF Paid
<1>6. CASE x \in Responses
  <2>1. New = Old \cup {Len(all) + 1}
    BY <1>1, <1>2, <1>6
  <2>2. Cardinality(Old \cup {Len(all) + 1}) = Cardinality(Old) + 1
    BY <1>3, <1>4, FS_AddElement
  <2> HIDE DEF Old, New
  <2> QED BY <2>1, <2>2, <1>0, <1>6
<1>7. CASE x \notin Responses
  <2>1. New = Old
    BY <1>1, <1>2, <1>7
  <2> HIDE DEF Old, New
  <2> QED BY <2>1, <1>0, <1>5, <1>7
<1>8. (x \in Responses) \/ (x \notin Responses)
  OBVIOUS
<1> HIDE DEF Old, New
<1> QED BY <1>6, <1>7, <1>8

(* A pipeline that changes in one field.                                   *)
LEMMA PhaseChanges ==
  ASSUME NEW p \in Pipelines, NEW x \in {"calling", "waiting", "done", "raised"}
  PROVE  LET q == [p EXCEPT !.phase = x] IN
         /\ q \in Pipelines /\ q.phase = x /\ q.calls = p.calls /\ q.usage = p.usage
         /\ q.prompt = p.prompt /\ q.status = p.status
BY DEF Pipelines

LEMMA CallsRise ==
  ASSUME NEW p \in Pipelines, NEW b \in BOOLEAN
  PROVE  LET q == [p EXCEPT !.calls = IF b THEN @ + 1 ELSE @] IN
         /\ q \in Pipelines /\ q.calls = IF b THEN p.calls + 1 ELSE p.calls
         /\ q.phase = p.phase
         /\ q.usage = p.usage /\ q.prompt = p.prompt /\ q.status = p.status
BY DEF Pipelines

LEMMA UsageRises ==
  ASSUME NEW p \in Pipelines
  PROVE  LET q == [p EXCEPT !.usage = @ + 1] IN
         /\ q \in Pipelines /\ q.usage = p.usage + 1 /\ q.phase = p.phase
         /\ q.calls = p.calls /\ q.prompt = p.prompt /\ q.status = p.status
BY DEF Pipelines

LEMMA PromptIsKept ==
  ASSUME NEW p \in Pipelines
  PROVE  LET q == [p EXCEPT !.prompt = TRUE] IN
         /\ q \in Pipelines /\ q.prompt = TRUE /\ q.phase = p.phase
         /\ q.calls = p.calls /\ q.usage = p.usage /\ q.status = p.status
BY DEF Pipelines

LEMMA StatusIsSet ==
  ASSUME NEW p \in Pipelines, NEW x \in Endings
  PROVE  LET q == [p EXCEPT !.status = x] IN
         /\ q \in Pipelines /\ q.status = x /\ q.phase = p.phase
         /\ q.calls = p.calls /\ q.usage = p.usage /\ q.prompt = p.prompt
BY DEF Pipelines

(* While a slot goes on, every response was paid for.                      *)
LEMMA PaidSoFar ==
  ASSUME NEW all \in Seq(Responses \cup Faults), NEW p \in Pipelines, NEW s,
         SlotGoesOn(p, all, s, experiment)
  PROVE  Paid(all) = Len(all)
<1>1. {i \in DOMAIN all : all[i] \in Responses} = 1 .. Len(all)
  BY DEF SlotGoesOn
<1>2. Cardinality(1 .. Len(all)) = Len(all)
  BY FirstNumbers
<1> QED BY <1>1, <1>2 DEF Paid

(* The reading of a response by an experiment is success exactly for what  *)
(* is usable to it.                                                        *)
LEMMA StatusSays ==
  ASSUME NEW r \in Responses, strict \in BOOLEAN
  PROVE  /\ strict => (ReasoningStatus(r) = "completed" <=> IsUsable(r, "reasoning", strict))
         /\ GenerateStatus(r) = "completed" <=> IsUsable(r, "generate", strict)
         /\ TemperatureStatus(r) = "completed" <=> IsUsable(r, "temperature", strict)
         /\ strict => (BenchmarkStatus(r) = "completed" <=> IsUsable(r, "benchmark", strict))
BY DEF Responses, ReasoningStatus, GenerateStatus, TemperatureStatus, BenchmarkStatus, IsUsable,
       Parses, HasText

(* A slot that was waiting and hears a response ends accounted for.        *)
LEMMA AnsweredIsAccounted ==
  ASSUME NEW s, NEW p \in Pipelines, NEW q \in Pipelines, NEW all \in Seq(Responses \cup Faults),
         NEW r \in Responses \cup Faults,
         p.phase = "waiting", SlotGoesOn(p, all, s, experiment),
         q.calls = p.calls, q.prompt = p.prompt,
         q.usage = p.usage + (IF r \in Responses THEN 1 ELSE 0),
         q.status = "completed" <=> IsUsable(r, experiment, strict)
  PROVE  SlotIsAccounted(q, Append(all, r), s, experiment, strict)
<1>1. /\ Append(all, r) # << >> /\ Len(Append(all, r)) = Len(all) + 1
      /\ Append(all, r)[Len(all) + 1] = r
      /\ Len(all) \in Nat
  OBVIOUS
<1>2. Paid(Append(all, r)) = Len(all) + (IF r \in Responses THEN 1 ELSE 0)
  BY PaidGrows, PaidSoFar
<1>3. q.usage = Paid(Append(all, r))
  BY <1>2 DEF SlotGoesOn
<1>4. CountsCalls(experiment) => q.calls = Len(all) + 1
  BY DEF SlotGoesOn
<1>5. q.prompt = (s = MetaPrompt /\ Len(all) + 1 = 2)
  BY <1>1 DEF SlotGoesOn, Pipelines
<1> QED BY <1>1, <1>3, <1>4, <1>5 DEF SlotIsAccounted

LEMMA ExperimentsBegin == ASSUME ExperimentsInit PROVE ExperimentsInv
<1>1. ExperimentTyped
  <2>1. NewPipeline \in Pipelines
    BY DEF NewPipeline, Pipelines
  <2>2. << >> \in Seq(Responses \cup Faults)
    OBVIOUS
  <2>3. strict \in BOOLEAN /\ (experiment \in {"reasoning", "benchmark"} => strict)
    BY DEF ExperimentsInit
  <2> QED BY <2>1, <2>2, <2>3 DEF ExperimentsInit, ExperimentTyped
<1>2. SlotsFit
  BY DEF ExperimentsInit, SlotsFit, SlotFits, SlotGoesOn, NewPipeline
<1>3. ResultsFit
  BY DEF ExperimentsInit, ResultsFit, NoAnswer
<1> QED BY <1>1, <1>2, <1>3 DEF ExperimentsInv

(* A step that changes one slot and what it heard, before the answer.      *)
LEMMA OneSlotMoves ==
  ASSUME ExperimentsInv, answer = NoAnswer, answer' = answer, UNCHANGED <<experiment, strict>>,
         NEW s \in SlotsOf(experiment), NEW q \in Pipelines,
         NEW all \in Seq(Responses \cup Faults),
         slot' = [slot EXCEPT ![s] = q], heard' = [heard EXCEPT ![s] = all],
         SlotFits(q, all, s, experiment, strict)
  PROVE  ExperimentsInv'
<1>1. ExperimentTyped'
  BY DEF ExperimentsInv, ExperimentTyped
<1>2. SlotsFit'
  <2> SUFFICES ASSUME NEW t \in SlotsOf(experiment) PROVE SlotFits(slot'[t], heard'[t], t, experiment, strict)
    BY DEF SlotsFit
  <2>1. CASE t = s
    BY <2>1 DEF ExperimentsInv, ExperimentTyped
  <2>2. CASE t # s
    BY <2>2 DEF ExperimentsInv, ExperimentTyped, SlotsFit
  <2> QED BY <2>1, <2>2
<1>3. ResultsFit'
  BY DEF ResultsFit, NoAnswer
<1> QED BY <1>1, <1>2, <1>3 DEF ExperimentsInv

LEMMA NothingMoreHeard ==
  ASSUME ExperimentsInv, NEW s
  PROVE  heard = [heard EXCEPT ![s] = heard[s]]
BY DEF ExperimentsInv, ExperimentTyped

LEMMA SlotFacts ==
  ASSUME ExperimentsInv, NEW s \in DOMAIN slot
  PROVE  /\ s \in SlotsOf(experiment) /\ slot[s] \in Pipelines
         /\ heard[s] \in Seq(Responses \cup Faults) /\ SlotFits(slot[s], heard[s], s, experiment, strict)
BY DEF ExperimentsInv, ExperimentTyped, SlotsFit

LEMMA CallKeeps == ASSUME ExperimentsInv, NEW s, Call(s) PROVE ExperimentsInv'
<1> DEFINE counts == CountsCalls(experiment)
           q == [slot[s] EXCEPT !.phase = "waiting", !.calls = IF counts THEN @ + 1 ELSE @]
<1>1. /\ s \in DOMAIN slot /\ slot[s].phase = "calling"
      /\ slot' = [slot EXCEPT ![s] = q]
      /\ UNCHANGED <<experiment, strict, heard, answer>> /\ answer = NoAnswer
  BY DEF Call, Becomes
<1>2. slot[s] \in Pipelines /\ SlotGoesOn(slot[s], heard[s], s, experiment)
  BY <1>1, SlotFacts DEF SlotFits
<1>3. q \in Pipelines /\ q.phase = "waiting"
      /\ q.calls = (IF counts THEN slot[s].calls + 1 ELSE slot[s].calls)
      /\ q.usage = slot[s].usage /\ q.prompt = slot[s].prompt
  <2> DEFINE p == [slot[s] EXCEPT !.phase = "waiting"]
  <2>1. /\ p \in Pipelines /\ p.phase = "waiting" /\ p.calls = slot[s].calls
        /\ p.usage = slot[s].usage /\ p.prompt = slot[s].prompt
    BY <1>2, PhaseChanges
  <2>2. q = [p EXCEPT !.calls = IF counts THEN @ + 1 ELSE @]
    OBVIOUS
  <2>3. counts \in BOOLEAN
    BY DEF CountsCalls
  <2> HIDE DEF p, q, counts
  <2> QED BY <2>1, <2>2, <2>3, CallsRise
<1>4. SlotGoesOn(q, heard[s], s, experiment)
  <2>1. Len(heard[s]) \in Nat
    BY <1>1, SlotFacts
  <2> QED BY <1>1, <1>2, <1>3, <2>1 DEF SlotGoesOn
<1>5. SlotFits(q, heard[s], s, experiment, strict)
  BY <1>3, <1>4 DEF SlotFits
<1> HIDE DEF q
<1> QED BY <1>1, <1>3, <1>5, SlotFacts, NothingMoreHeard, OneSlotMoves

(* The end of a slot that was waiting, whatever it heard.                  *)
LEMMA SlotEnds ==
  ASSUME ExperimentsInv, answer = NoAnswer, answer' = answer, UNCHANGED <<experiment, strict>>,
         NEW s \in DOMAIN slot, NEW q \in Pipelines, NEW r \in Responses \cup Faults,
         slot[s].phase = "waiting",
         slot' = [slot EXCEPT ![s] = q], heard' = [heard EXCEPT ![s] = Append(@, r)],
         q.phase = "done", q.calls = slot[s].calls, q.prompt = slot[s].prompt,
         q.usage = slot[s].usage + (IF r \in Responses THEN 1 ELSE 0),
         q.status = "completed" <=> IsUsable(r, experiment, strict)
  PROVE  ExperimentsInv'
<1> DEFINE all == Append(heard[s], r)
<1>1. all \in Seq(Responses \cup Faults) /\ heard' = [heard EXCEPT ![s] = all]
  BY SlotFacts
<1>2. SlotGoesOn(slot[s], heard[s], s, experiment)
  BY SlotFacts DEF SlotFits
<1>3. SlotIsAccounted(q, all, s, experiment, strict)
  BY <1>2, SlotFacts, AnsweredIsAccounted
<1>4. SlotFits(q, all, s, experiment, strict)
  BY <1>3 DEF SlotFits
<1> HIDE DEF all
<1> QED BY <1>1, <1>4, SlotFacts, OneSlotMoves

LEMMA FaultsAreUnusable ==
  ASSUME NEW x \in Faults
  PROVE  /\ x \notin Responses /\ x.status \in Endings /\ x.status # "completed"
         /\ ~IsUsable(x, experiment, strict)
BY DEF Faults, Responses, IsUsable, Endings

LEMMA CallFailsKeeps == ASSUME ExperimentsInv, NEW s, CallFails(s) PROVE ExperimentsInv'
<1>1. PICK x \in Faults : Hears(s, x) /\ Becomes(s, Ends(s, x.status))
  BY DEF CallFails
<1> DEFINE q == Ends(s, x.status)
<1>2. /\ s \in DOMAIN slot /\ slot[s].phase = "waiting"
      /\ slot' = [slot EXCEPT ![s] = q] /\ heard' = [heard EXCEPT ![s] = Append(@, x)]
      /\ answer = NoAnswer /\ UNCHANGED <<experiment, strict, answer>>
  BY <1>1 DEF CallFails, Hears, Becomes
<1>3. /\ q \in Pipelines /\ q.phase = "done" /\ q.calls = slot[s].calls
      /\ q.prompt = slot[s].prompt /\ q.usage = slot[s].usage /\ q.status = x.status
  BY <1>2, SlotFacts, FaultsAreUnusable DEF Ends, Pipelines
<1>4. q.usage = slot[s].usage + (IF x \in Responses THEN 1 ELSE 0)
  BY <1>2, <1>3, SlotFacts, FaultsAreUnusable DEF Pipelines
<1> HIDE DEF q
<1> QED BY <1>2, <1>3, <1>4, FaultsAreUnusable, SlotEnds

(* The three experiments whose slots make one call.                        *)
LEMMA ReadingKeeps ==
  ASSUME ExperimentsInv, answer = NoAnswer, NEW s \in DOMAIN slot, slot[s].phase = "waiting",
         NEW r \in Responses, NEW read \in Endings, Hears(s, r),
         Becomes(s, [Ends(s, read) EXCEPT !.usage = @ + 1]),
         read = "completed" <=> IsUsable(r, experiment, strict), UNCHANGED <<experiment, strict, answer>>
  PROVE  ExperimentsInv'
<1> DEFINE q == [Ends(s, read) EXCEPT !.usage = @ + 1]
<1>1. slot' = [slot EXCEPT ![s] = q] /\ heard' = [heard EXCEPT ![s] = Append(@, r)]
  BY DEF Hears, Becomes
<1>2. /\ q \in Pipelines /\ q.phase = "done" /\ q.calls = slot[s].calls
      /\ q.prompt = slot[s].prompt /\ q.usage = slot[s].usage + 1 /\ q.status = read
  <2> DEFINE p == [slot[s] EXCEPT !.phase = "done"]
             o == [p EXCEPT !.status = read]
  <2>1. /\ p \in Pipelines /\ p.phase = "done" /\ p.calls = slot[s].calls
        /\ p.usage = slot[s].usage /\ p.prompt = slot[s].prompt
    BY SlotFacts, PhaseChanges
  <2>2. q = [o EXCEPT !.usage = @ + 1]
    BY DEF Ends
  <2> HIDE DEF p, q
  <2>3. /\ o \in Pipelines /\ o.phase = "done" /\ o.calls = slot[s].calls
        /\ o.usage = slot[s].usage /\ o.prompt = slot[s].prompt /\ o.status = read
    BY <2>1, StatusIsSet
  <2> HIDE DEF o
  <2> QED BY <2>2, <2>3, UsageRises
<1> HIDE DEF q
<1> QED BY <1>1, <1>2, SlotEnds

LEMMA StatusIsAnEnding ==
  ASSUME NEW r \in Responses
  PROVE  /\ GenerateStatus(r) \in Endings /\ TemperatureStatus(r) \in Endings
         /\ BenchmarkStatus(r) \in Endings /\ ReasoningStatus(r) \in Endings
BY DEF Responses, GenerateStatus, TemperatureStatus, BenchmarkStatus, ReasoningStatus, Endings

LEMMA GeneratedKeeps ==
  ASSUME ExperimentsInv, NEW s \in DOMAIN slot, Generated(s) PROVE ExperimentsInv'
<1>1. PICK r \in Responses :
        Hears(s, r) /\ Becomes(s, [Ends(s, GenerateStatus(r)) EXCEPT !.usage = @ + 1])
  BY DEF Generated
<1>2. GenerateStatus(r) \in Endings /\ (GenerateStatus(r) = "completed" <=> IsUsable(r, experiment, strict))
  BY StatusIsAnEnding, StatusSays DEF ExperimentsInv, ExperimentTyped, Generated, Serves
<1> QED BY <1>1, <1>2, ReadingKeeps DEF Generated, Serves

LEMMA TemperatureAnsweredKeeps ==
  ASSUME ExperimentsInv, NEW s \in DOMAIN slot, TemperatureAnswered(s) PROVE ExperimentsInv'
<1>1. PICK r \in Responses :
        Hears(s, r) /\ Becomes(s, [Ends(s, TemperatureStatus(r)) EXCEPT !.usage = @ + 1])
  BY DEF TemperatureAnswered
<1>2. /\ TemperatureStatus(r) \in Endings
      /\ (TemperatureStatus(r) = "completed" <=> IsUsable(r, experiment, strict))
  BY StatusIsAnEnding, StatusSays DEF ExperimentsInv, ExperimentTyped, TemperatureAnswered, Serves
<1> QED BY <1>1, <1>2, ReadingKeeps DEF TemperatureAnswered, Serves

LEMMA ModelAnsweredKeeps ==
  ASSUME ExperimentsInv, NEW s \in DOMAIN slot, ModelAnswered(s) PROVE ExperimentsInv'
<1>1. PICK r \in Responses :
        Hears(s, r) /\ Becomes(s, [Ends(s, BenchmarkStatus(r)) EXCEPT !.usage = @ + 1])
  BY DEF ModelAnswered
<1>2. BenchmarkStatus(r) \in Endings /\ (BenchmarkStatus(r) = "completed" <=> IsUsable(r, experiment, strict))
  BY StatusIsAnEnding, StatusSays DEF ExperimentsInv, ExperimentTyped, ModelAnswered, Serves
<1> QED BY <1>1, <1>2, ReadingKeeps DEF ModelAnswered, Serves

(* The prompt of the meta prompt strategy arrives, and its second call is  *)
(* to be made.                                                             *)
LEMMA PromptArrives ==
  ASSUME ExperimentsInv, answer = NoAnswer, NEW s \in DOMAIN slot, slot[s].phase = "waiting",
         s = MetaPrompt, ~slot[s].prompt, NEW r \in Responses, Hears(s, r),
         Becomes(s, [[slot[s] EXCEPT !.usage = @ + 1] EXCEPT !.prompt = TRUE, !.phase = "calling"]),
         UNCHANGED <<experiment, strict, answer>>
  PROVE  ExperimentsInv'
<1> DEFINE q == [[slot[s] EXCEPT !.usage = @ + 1] EXCEPT !.prompt = TRUE, !.phase = "calling"]
           all == Append(heard[s], r)
<1>1. slot' = [slot EXCEPT ![s] = q] /\ heard' = [heard EXCEPT ![s] = all]
  BY SlotFacts DEF Hears, Becomes
<1>2. /\ q \in Pipelines /\ q.phase = "calling" /\ q.calls = slot[s].calls
      /\ q.prompt = TRUE /\ q.usage = slot[s].usage + 1
  <2> DEFINE p == [slot[s] EXCEPT !.usage = @ + 1]
             o == [p EXCEPT !.prompt = TRUE]
  <2>1. p \in Pipelines /\ p.calls = slot[s].calls /\ p.usage = slot[s].usage + 1
    BY SlotFacts, UsageRises
  <2>2. q = [o EXCEPT !.phase = "calling"]
    OBVIOUS
  <2> HIDE DEF p, q
  <2>3. /\ o \in Pipelines /\ o.calls = slot[s].calls /\ o.usage = slot[s].usage + 1
        /\ o.prompt = TRUE
    BY <2>1, PromptIsKept
  <2> HIDE DEF o
  <2> QED BY <2>2, <2>3, PhaseChanges
<1>3. SlotGoesOn(slot[s], heard[s], s, experiment)
  BY SlotFacts DEF SlotFits
<1>4. /\ all \in Seq(Responses \cup Faults) /\ Len(all) = Len(heard[s]) + 1
      /\ \A i \in DOMAIN all : all[i] = IF i = Len(all) THEN r ELSE heard[s][i]
      /\ \A i \in DOMAIN all : i # Len(all) => i \in DOMAIN heard[s]
  BY SlotFacts
<1>5. SlotGoesOn(q, all, s, experiment)
  BY <1>2, <1>3, <1>4 DEF SlotGoesOn
<1>6. SlotFits(q, all, s, experiment, strict)
  BY <1>2, <1>5 DEF SlotFits
<1> HIDE DEF q, all
<1> QED BY <1>1, <1>2, <1>4, <1>6, SlotFacts, OneSlotMoves

LEMMA StrategyAnsweredKeeps ==
  ASSUME ExperimentsInv, NEW s \in DOMAIN slot, StrategyAnswered(s) PROVE ExperimentsInv'
<1> DEFINE paid == [slot[s] EXCEPT !.usage = @ + 1]
<1>1. PICK r \in Responses :
        /\ Hears(s, r)
        /\ Becomes(s,
             IF s = MetaPrompt /\ ~slot[s].prompt /\ ReasoningStatus(r) = "completed"
             THEN [paid EXCEPT !.prompt = TRUE, !.phase = "calling"]
             ELSE [paid EXCEPT !.phase = "done", !.status = ReasoningStatus(r)])
  BY DEF StrategyAnswered
<1>2. /\ answer = NoAnswer /\ slot[s].phase = "waiting"
      /\ UNCHANGED <<experiment, strict, answer>> /\ strict /\ experiment = "reasoning"
  BY DEF StrategyAnswered, Serves, ExperimentsInv, ExperimentTyped
<1>3. CASE s = MetaPrompt /\ ~slot[s].prompt /\ ReasoningStatus(r) = "completed"
  BY <1>1, <1>2, <1>3, PromptArrives
<1>4. CASE ~(s = MetaPrompt /\ ~slot[s].prompt /\ ReasoningStatus(r) = "completed")
  <2> DEFINE q == [paid EXCEPT !.phase = "done", !.status = ReasoningStatus(r)]
  <2>1. slot' = [slot EXCEPT ![s] = q] /\ heard' = [heard EXCEPT ![s] = Append(@, r)]
    BY <1>1, <1>4 DEF Hears, Becomes
  <2>2. ReasoningStatus(r) \in Endings /\ (ReasoningStatus(r) = "completed" <=> IsUsable(r, experiment, strict))
    BY <1>2, StatusIsAnEnding, StatusSays
  <2>3. /\ q \in Pipelines /\ q.phase = "done" /\ q.calls = slot[s].calls
        /\ q.prompt = slot[s].prompt /\ q.usage = slot[s].usage + 1
        /\ q.status = ReasoningStatus(r)
    <3> DEFINE o == [paid EXCEPT !.phase = "done"]
    <3>1. /\ paid \in Pipelines /\ paid.calls = slot[s].calls
          /\ paid.usage = slot[s].usage + 1 /\ paid.prompt = slot[s].prompt
      BY SlotFacts, UsageRises
    <3>2. q = [o EXCEPT !.status = ReasoningStatus(r)]
      OBVIOUS
    <3> HIDE DEF paid, q
    <3>3. /\ o \in Pipelines /\ o.phase = "done" /\ o.calls = slot[s].calls
          /\ o.usage = slot[s].usage + 1 /\ o.prompt = slot[s].prompt
      BY <3>1, PhaseChanges
    <3> HIDE DEF o
    <3> QED BY <2>2, <3>2, <3>3, StatusIsSet
  <2> HIDE DEF q
  <2> QED BY <1>2, <2>1, <2>2, <2>3, SlotEnds
<1> QED BY <1>3, <1>4

LEMMA SlotRaisesKeeps == ASSUME ExperimentsInv, NEW s, SlotRaises(s) PROVE ExperimentsInv'
<1> DEFINE q == [slot[s] EXCEPT !.phase = "raised"]
<1>1. /\ s \in DOMAIN slot /\ slot' = [slot EXCEPT ![s] = q]
      /\ UNCHANGED <<experiment, strict, heard, answer>> /\ answer = NoAnswer
  BY DEF SlotRaises, Becomes
<1>2. q \in Pipelines /\ q.phase = "raised"
  BY <1>1, SlotFacts DEF Pipelines
<1>3. SlotFits(q, heard[s], s, experiment, strict)
  BY <1>2 DEF SlotFits
<1> HIDE DEF q
<1> QED BY <1>1, <1>2, <1>3, SlotFacts, NothingMoreHeard, OneSlotMoves

(* The results are what the slots left.                                    *)
LEMMA GatherKeeps == ASSUME ExperimentsInv, Gather PROVE ExperimentsInv'
<1>1. UNCHANGED <<experiment, strict, slot, heard>>
  BY DEF Gather
<1>2. ExperimentTyped'
  BY <1>1 DEF ExperimentsInv, ExperimentTyped
<1>3. SlotsFit'
  BY <1>1 DEF ExperimentsInv, SlotsFit
<1>4. ResultsFit'
  <2>1. CASE experiment = "benchmark" /\ \E s \in DOMAIN slot : slot[s].phase = "raised"
    BY <2>1 DEF Gather, ResultsFit
  <2>2. CASE ~(experiment = "benchmark" /\ \E s \in DOMAIN slot : slot[s].phase = "raised")
    <3> DEFINE of == [s \in DOMAIN slot |->
              IF slot[s].phase = "raised"
              THEN [calls |-> 0, usage |-> 0, prompt |-> FALSE, status |-> "internal error"]
              ELSE [calls |-> slot[s].calls, usage |-> slot[s].usage,
                    prompt |-> slot[s].prompt, status |-> slot[s].status]]
    <3>1. answer' = [is |-> "results", of |-> of]
      BY <2>2 DEF Gather
    <3>2. ASSUME NEW s \in DOMAIN slot, of[s].status # "internal error"
          PROVE  SlotIsAccounted(of[s], heard[s], s, experiment, strict)
      <4>1. slot[s].phase = "done"
        BY <3>2 DEF Gather
      <4>2. SlotIsAccounted(slot[s], heard[s], s, experiment, strict)
        BY <4>1, SlotFacts DEF SlotFits
      <4> QED BY <4>1, <4>2 DEF SlotIsAccounted
    <3>3. DOMAIN of = DOMAIN slot
      OBVIOUS
    <3> HIDE DEF of
    <3> QED BY <1>1, <3>1, <3>2, <3>3 DEF ResultsFit
  <2> QED BY <2>1, <2>2
<1> QED BY <1>2, <1>3, <1>4 DEF ExperimentsInv

LEMMA ExperimentsInvariance == ExperimentsSpec => []ExperimentsInv
<1>1. ExperimentsInv /\ [ExperimentsNext]_experimentVars => ExperimentsInv'
  <2> SUFFICES ASSUME ExperimentsInv, [ExperimentsNext]_experimentVars PROVE ExperimentsInv'
    OBVIOUS
  <2>1. CASE UNCHANGED experimentVars
    <3>1. ExperimentTyped'
      BY <2>1 DEF ExperimentsInv, ExperimentTyped, experimentVars
    <3>2. SlotsFit'
      BY <2>1 DEF ExperimentsInv, SlotsFit, experimentVars
    <3>3. ResultsFit'
      BY <2>1 DEF ExperimentsInv, ResultsFit, experimentVars
    <3> QED BY <3>1, <3>2, <3>3 DEF ExperimentsInv
  <2> QED BY <2>1, CallKeeps, CallFailsKeeps, SlotRaisesKeeps, GeneratedKeeps,
             StrategyAnsweredKeeps, TemperatureAnsweredKeeps, ModelAnsweredKeeps, GatherKeeps
          DEF ExperimentsNext
<1> QED BY <1>1, ExperimentsBegin, PTL DEF ExperimentsSpec

(* What the adapters make of a response to a strict experiment.            *)
LEMMA AdaptersPart ==
  ASSUME NEW r \in Responses, strict
  PROVE  /\ r.status # "completed" => TakenBy(r) = {}
         /\ r.status = "completed" =>
              /\ r.content = "valid" => TakenBy(r) = Experiments \cup {"agent"}
              /\ r.content = "garbled" => TakenBy(r) = {"agent"}
              /\ ~HasText(r) => TakenBy(r) = {"generate"}
<1>1. /\ GenerateStatus(r) = "completed" <=> r.status = "completed" /\ r.content # "garbled"
      /\ ReasoningStatus(r) = "completed" <=> r.status = "completed" /\ r.content = "valid"
      /\ TemperatureStatus(r) = "completed" <=> r.status = "completed" /\ r.content = "valid"
      /\ BenchmarkStatus(r) = "completed" <=> r.status = "completed" /\ r.content = "valid"
      /\ AgentStatus(r) = "completed" <=> r.status = "completed" /\ HasText(r)
  BY DEF Responses, GenerateStatus, ReasoningStatus, TemperatureStatus, BenchmarkStatus,
         AgentStatus, HasText, Parses
<1>2. /\ "generate" \in TakenBy(r) <=> GenerateStatus(r) = "completed"
      /\ "reasoning" \in TakenBy(r) <=> ReasoningStatus(r) = "completed"
      /\ "temperature" \in TakenBy(r) <=> TemperatureStatus(r) = "completed"
      /\ "benchmark" \in TakenBy(r) <=> BenchmarkStatus(r) = "completed"
      /\ "agent" \in TakenBy(r) <=> AgentStatus(r) = "completed"
      /\ TakenBy(r) \subseteq Experiments \cup {"agent"}
  BY DEF TakenBy, Experiments
<1> QED BY <1>1, <1>2 DEF Experiments, HasText

(* In every experiment a result accounts for the usage of its slot, where  *)
(* calls are counted for all of them, and is a success only for a last     *)
(* response usable to it, whatever order the slots run in and whichever of *)
(* them fail or raise; and the adapters take the same responses but for    *)
(* text in another shape and no text (generate, run_all, run_model, gather)*)
THEOREM ResultsStayHonest == ExperimentsSpec => []ResultsAreHonest
<1>1. ExperimentsInv => ResultsAreHonest
  <2> SUFFICES ASSUME ExperimentsInv PROVE ResultsAreHonest
    OBVIOUS
  <2>1. AdaptersAgree
    BY AdaptersPart DEF AdaptersAgree
  <2>2. ResultsAreAccounted
    <3> SUFFICES ASSUME answer.is = "results", NEW s \in DOMAIN answer.of,
                        answer.of[s].status # "internal error"
                 PROVE  /\ CountsCalls(experiment) => answer.of[s].calls = Len(heard[s])
                        /\ answer.of[s].usage = Paid(heard[s])
                        /\ answer.of[s].prompt = (s = MetaPrompt /\ Len(heard[s]) = 2)
                        /\ answer.of[s].status = "completed" <=>
                             IsSuccess(heard[s][Len(heard[s])])
      BY DEF ResultsAreAccounted, Paid
    <3>1. SlotIsAccounted(answer.of[s], heard[s], s, experiment, strict)
      BY DEF ExperimentsInv, ResultsFit
    <3>2. ASSUME NEW r PROVE IsSuccess(r) <=> IsUsable(r, experiment, strict)
      BY DEF IsSuccess, IsUsable, Parses, HasText, Responses
    <3> QED BY <3>1, <3>2 DEF SlotIsAccounted
  <2> QED BY <2>1, <2>2 DEF ResultsAreHonest
<1> QED BY <1>1, ExperimentsInvariance, PTL

-----------------------------------------------------------------------------
(* The optimisation task: the solver's loop and the two verifiers.         *)

Optimum == {"A", "C", "F", "G"}
OptimalMask == 101

\* The good masks that the loop has passed, and the best of them so far.
PassedMasks == {m \in Good : m < solver.mask}
TopMasks == {m \in PassedMasks : Worth[m] = solver.value}

SolverFits ==
  /\ DOMAIN solver = {"mask", "value", "best"}
  /\ solver.mask \in 0 .. 256 /\ solver.value \in Int
  /\ solver.best \in Seq(SUBSET FeatureIds)
  /\ solver.mask = 0 => solver.value = -1
  /\ \A m \in PassedMasks : Worth[m] <= solver.value
  /\ solver.mask > 0 => TopMasks # {}
  /\ {solver.best[i] : i \in DOMAIN solver.best} = {SubsetOf(m) : m \in TopMasks}
  /\ Len(solver.best) = Cardinality(TopMasks)

SubmittedFits ==
  submitted # NothingSubmitted =>
    /\ solver.mask = 256
    /\ \E S \in SUBSET FeatureIds, twice \in BOOLEAN, unknown \in BOOLEAN,
          lower \in BOOLEAN, cost \in Int, value \in Int :
         submitted = [is |-> "answer", features |-> S, twice |-> twice, unknown |-> unknown,
                      lower |-> lower, cost |-> cost, value |-> value]

TasksInv == SolverFits /\ SubmittedFits

LEMMA TableIs ==
  ASSUME NEW S \in SUBSET FeatureIds
  PROVE  /\ Cost(S) = (IF "A" \in S THEN 4 ELSE 0) + (IF "B" \in S THEN 6 ELSE 0)
                    + (IF "C" \in S THEN 5 ELSE 0) + (IF "D" \in S THEN 3 ELSE 0)
                    + (IF "E" \in S THEN 7 ELSE 0) + (IF "F" \in S THEN 2 ELSE 0)
                    + (IF "G" \in S THEN 4 ELSE 0) + (IF "H" \in S THEN 5 ELSE 0)
         /\ Value(S) = (IF "A" \in S THEN 8 ELSE 0) + (IF "B" \in S THEN 11 ELSE 0)
                     + (IF "C" \in S THEN 10 ELSE 0) + (IF "D" \in S THEN 6 ELSE 0)
                     + (IF "E" \in S THEN 13 ELSE 0) + (IF "F" \in S THEN 4 ELSE 0)
                     + (IF "G" \in S THEN 7 ELSE 0) + (IF "H" \in S THEN 8 ELSE 0)
<1>1. Cost(S) = TotalOf(FeatureCost, S) /\ Value(S) = TotalOf(FeatureValue, S)
  BY DEF Cost, CostTable, Value, ValueTable
<1>2. TotalOf(FeatureCost, S) =
        (IF "A" \in S THEN 4 ELSE 0) + (IF "B" \in S THEN 6 ELSE 0)
        + (IF "C" \in S THEN 5 ELSE 0) + (IF "D" \in S THEN 3 ELSE 0)
        + (IF "E" \in S THEN 7 ELSE 0) + (IF "F" \in S THEN 2 ELSE 0)
        + (IF "G" \in S THEN 4 ELSE 0) + (IF "H" \in S THEN 5 ELSE 0)
  BY DEF TotalOf, FeatureCost, Features
<1>3. TotalOf(FeatureValue, S) =
        (IF "A" \in S THEN 8 ELSE 0) + (IF "B" \in S THEN 11 ELSE 0)
        + (IF "C" \in S THEN 10 ELSE 0) + (IF "D" \in S THEN 6 ELSE 0)
        + (IF "E" \in S THEN 13 ELSE 0) + (IF "F" \in S THEN 4 ELSE 0)
        + (IF "G" \in S THEN 7 ELSE 0) + (IF "H" \in S THEN 8 ELSE 0)
  BY DEF TotalOf, FeatureValue, Features
<1> QED BY <1>1, <1>2, <1>3

LEMMA FeaturesAre == FeatureIds = {"A", "B", "C", "D", "E", "F", "G", "H"}
<1>1. DOMAIN Features = 1 .. 8
  BY DEF Features
<1>2. /\ Features[1] = "A" /\ Features[2] = "B" /\ Features[3] = "C" /\ Features[4] = "D"
      /\ Features[5] = "E" /\ Features[6] = "F" /\ Features[7] = "G" /\ Features[8] = "H"
  BY DEF Features
<1>3. 1 .. 8 = {1, 2, 3, 4, 5, 6, 7, 8}
  OBVIOUS
<1> HIDE DEF Features
<1> QED BY <1>1, <1>2, <1>3 DEF FeatureIds

LEMMA TotalsAreNumbers ==
  ASSUME NEW S \in SUBSET FeatureIds
  PROVE  Cost(S) \in Int /\ Value(S) \in Int /\ Value(S) >= 0
BY TableIs

(* Both days ask the same of a set of known features.                      *)
LEMMA ViolationsAre ==
  ASSUME NEW S \in SUBSET FeatureIds
  PROVE  Violations(S) = {} <=> FeasibleFeatures(S)
<1> DEFINE names == {"limit", "B with E", "C without F", "A with D", "G with H"}
<1>1. \A v : v \in Violations(S) <=>
        \/ v = "limit" /\ Cost(S) > StoryPointLimit
        \/ v = "B with E" /\ {"B", "E"} \subseteq S
        \/ v = "C without F" /\ "C" \in S /\ "F" \notin S
        \/ v = "A with D" /\ {"A", "D"} \subseteq S
        \/ v = "G with H" /\ {"G", "H"} \subseteq S
  BY DEF Violations
<1>2. Violations(S) = {} <=>
        /\ ~(Cost(S) > StoryPointLimit) /\ ~({"B", "E"} \subseteq S)
        /\ ~("C" \in S /\ "F" \notin S) /\ ~({"A", "D"} \subseteq S) /\ ~({"G", "H"} \subseteq S)
  BY <1>1, Zenon
<1>3. S \cap FeatureIds = S
  OBVIOUS
<1>4. ~(Cost(S) > StoryPointLimit) <=> Cost(S) <= StoryPointLimit
  BY TotalsAreNumbers DEF StoryPointLimit
<1> QED BY <1>2, <1>3, <1>4 DEF FeasibleFeatures

(* The optimum of the task and that there is no other.                     *)
LEMMA OptimumIs ==
  /\ Optimum \in SUBSET FeatureIds /\ FeasibleFeatures(Optimum)
  /\ Cost(Optimum) = 15 /\ Value(Optimum) = 29
<1>1. Optimum \in SUBSET FeatureIds
  BY FeaturesAre DEF Optimum
<1>2. Cost(Optimum) = 15 /\ Value(Optimum) = 29
  BY <1>1, TableIs DEF Optimum
<1>3. Optimum \cap FeatureIds = Optimum
  BY <1>1
<1>4. /\ ~({"B", "E"} \subseteq Optimum) /\ ~({"A", "D"} \subseteq Optimum)
      /\ ~({"G", "H"} \subseteq Optimum) /\ "F" \in Optimum
  BY DEF Optimum
<1> QED BY <1>1, <1>2, <1>3, <1>4 DEF FeasibleFeatures, StoryPointLimit

LEMMA NothingIsBetter ==
  ASSUME NEW S \in SUBSET FeatureIds, FeasibleFeatures(S)
  PROVE  Value(S) <= 29 /\ (Value(S) = 29 => S = Optimum)
<1>1. Cost(S) <= 15
  <2>1. S \cap FeatureIds = S
    OBVIOUS
  <2> QED BY <2>1 DEF FeasibleFeatures, StoryPointLimit
<1>2. /\ ~("B" \in S /\ "E" \in S) /\ ~("A" \in S /\ "D" \in S) /\ ~("G" \in S /\ "H" \in S)
      /\ ("C" \in S => "F" \in S)
  BY DEF FeasibleFeatures
<1>3. Value(S) <= 29 /\ (Value(S) = 29 =>
        /\ "A" \in S /\ "B" \notin S /\ "C" \in S /\ "D" \notin S
        /\ "E" \notin S /\ "F" \in S /\ "G" \in S /\ "H" \notin S)
  BY <1>1, <1>2, TableIs
<1> QED BY <1>3, FeaturesAre DEF Optimum

(* The features of a mask are its bits.                                    *)
LEMMA MaskIs ==
  ASSUME NEW m \in Nat
  PROVE  /\ SubsetOf(m) \in SUBSET FeatureIds
         /\ "A" \in SubsetOf(m) <=> m % 2 = 1
         /\ "B" \in SubsetOf(m) <=> (m \div 2) % 2 = 1
         /\ "C" \in SubsetOf(m) <=> (m \div 4) % 2 = 1
         /\ "D" \in SubsetOf(m) <=> (m \div 8) % 2 = 1
         /\ "E" \in SubsetOf(m) <=> (m \div 16) % 2 = 1
         /\ "F" \in SubsetOf(m) <=> (m \div 32) % 2 = 1
         /\ "G" \in SubsetOf(m) <=> (m \div 64) % 2 = 1
         /\ "H" \in SubsetOf(m) <=> (m \div 128) % 2 = 1
<1>1. DOMAIN Features = 1 .. 8
  BY DEF Features
<1>2. /\ Features[1] = "A" /\ Features[2] = "B" /\ Features[3] = "C" /\ Features[4] = "D"
      /\ Features[5] = "E" /\ Features[6] = "F" /\ Features[7] = "G" /\ Features[8] = "H"
  BY DEF Features
<1>3. \A i, j \in 1 .. 8 : Features[i] = Features[j] => i = j
  <2>1. 1 .. 8 = {1, 2, 3, 4, 5, 6, 7, 8}
    OBVIOUS
  <2> QED BY <1>2, <2>1
<1>4. /\ 2^0 = 1 /\ 2^1 = 2 /\ 2^2 = 4 /\ 2^3 = 8 /\ 2^4 = 16 /\ 2^5 = 32 /\ 2^6 = 64 /\ 2^7 = 128
  OBVIOUS
<1> DEFINE bit(j) == (m \div 2^(j - 1)) % 2 = 1
<1>5. SubsetOf(m) = {Features[i] : i \in {j \in 1 .. 8 : bit(j)}}
  BY <1>1 DEF SubsetOf
<1>6. \A i \in 1 .. 8 : Features[i] \in SubsetOf(m) <=> bit(i)
  BY <1>3, <1>5
<1>7. /\ bit(1) <=> m % 2 = 1
      /\ bit(2) <=> (m \div 2) % 2 = 1
      /\ bit(3) <=> (m \div 4) % 2 = 1
      /\ bit(4) <=> (m \div 8) % 2 = 1
      /\ bit(5) <=> (m \div 16) % 2 = 1
      /\ bit(6) <=> (m \div 32) % 2 = 1
      /\ bit(7) <=> (m \div 64) % 2 = 1
      /\ bit(8) <=> (m \div 128) % 2 = 1
  BY <1>4
<1>8. SubsetOf(m) \in SUBSET FeatureIds
  BY <1>1, <1>5 DEF FeatureIds
<1> HIDE DEF bit
<1>9. /\ 1 \in 1 .. 8 /\ 2 \in 1 .. 8 /\ 3 \in 1 .. 8 /\ 4 \in 1 .. 8
      /\ 5 \in 1 .. 8 /\ 6 \in 1 .. 8 /\ 7 \in 1 .. 8 /\ 8 \in 1 .. 8
  OBVIOUS
<1> QED BY <1>2, <1>6, <1>7, <1>8, <1>9

LEMMA MasksAre == Masks = 0 .. 255
<1>1. Len(Features) = 8 /\ 2^8 = 256
  BY DEF Features
<1> QED BY <1>1 DEF Masks

LEMMA OptimalMaskIs ==
  /\ OptimalMask \in Good /\ SubsetOf(OptimalMask) = Optimum
  /\ \A m \in Masks : SubsetOf(m) = Optimum => m = OptimalMask
<1>1. /\ 101 % 2 = 1 /\ (101 \div 2) % 2 = 0 /\ (101 \div 4) % 2 = 1 /\ (101 \div 8) % 2 = 0
      /\ (101 \div 16) % 2 = 0 /\ (101 \div 32) % 2 = 1 /\ (101 \div 64) % 2 = 1
      /\ (101 \div 128) % 2 = 0
  OBVIOUS
<1>2. SubsetOf(OptimalMask) = Optimum
  <2>1. OptimalMask \in Nat
    BY DEF OptimalMask
  <2>2. /\ SubsetOf(OptimalMask) \in SUBSET FeatureIds
        /\ "A" \in SubsetOf(OptimalMask) /\ "B" \notin SubsetOf(OptimalMask)
        /\ "C" \in SubsetOf(OptimalMask) /\ "D" \notin SubsetOf(OptimalMask)
        /\ "E" \notin SubsetOf(OptimalMask) /\ "F" \in SubsetOf(OptimalMask)
        /\ "G" \in SubsetOf(OptimalMask) /\ "H" \notin SubsetOf(OptimalMask)
    BY <1>1, <2>1, MaskIs DEF OptimalMask
  <2> QED BY <2>2, FeaturesAre DEF Optimum
<1>3. OptimalMask \in Good
  BY <1>2, OptimumIs, MasksAre DEF Good, OptimalMask
<1>4. ASSUME NEW m \in Masks, SubsetOf(m) = Optimum PROVE m = OptimalMask
  <2>1. m \in 0 .. 255
    BY MasksAre
  <2>2. /\ "A" \in SubsetOf(m) /\ "B" \notin SubsetOf(m) /\ "C" \in SubsetOf(m)
        /\ "D" \notin SubsetOf(m) /\ "E" \notin SubsetOf(m) /\ "F" \in SubsetOf(m)
        /\ "G" \in SubsetOf(m) /\ "H" \notin SubsetOf(m)
    BY <1>4 DEF Optimum
  <2>3. /\ m % 2 = 1 /\ (m \div 2) % 2 # 1 /\ (m \div 4) % 2 = 1 /\ (m \div 8) % 2 # 1
        /\ (m \div 16) % 2 # 1 /\ (m \div 32) % 2 = 1 /\ (m \div 64) % 2 = 1
        /\ (m \div 128) % 2 # 1
    BY <2>1, <2>2, MaskIs
  <2>4. m = 101
    BY <2>1, <2>3
  <2> QED BY <2>4 DEF OptimalMask
<1> QED BY <1>2, <1>3, <1>4

LEMMA WorthIs ==
  ASSUME NEW m \in Masks
  PROVE  /\ m \in Nat /\ SubsetOf(m) \in SUBSET FeatureIds
         /\ Worth[m] = Value(SubsetOf(m)) /\ Worth[m] \in Int /\ Worth[m] >= 0
         /\ m \in Good <=> Violations(SubsetOf(m)) = {}
<1>1. m \in Nat
  BY MasksAre
<1>2. SubsetOf(m) \in SUBSET FeatureIds
  BY <1>1, MaskIs
<1>3. Worth[m] = Value(SubsetOf(m))
  BY DEF Worth
<1>4. Value(SubsetOf(m)) \in Int /\ Value(SubsetOf(m)) >= 0
  BY <1>2, TotalsAreNumbers
<1>5. m \in Good <=> Violations(SubsetOf(m)) = {}
  BY <1>2, ViolationsAre DEF Good
<1> QED BY <1>1, <1>2, <1>3, <1>4, <1>5

(* The best of the good masks is one of them.                              *)
LEMMA GoodIsBounded ==
  ASSUME NEW m \in Good
  PROVE  m \in Masks /\ Worth[m] <= 29 /\ (Worth[m] = 29 => m = OptimalMask)
BY WorthIs, NothingIsBetter, OptimalMaskIs DEF Good

LEMMA TasksBegin == ASSUME TasksInit PROVE TasksInv
<1>1. solver = [mask |-> 0, value |-> -1, best |-> << >>] /\ submitted = NothingSubmitted
  BY DEF TasksInit
<1>2. PassedMasks = {} /\ TopMasks = {}
  <2>1. solver.mask = 0 /\ \A m \in Good : m \in 0 .. 255
    BY <1>1, MasksAre DEF Good
  <2>2. \A m \in 0 .. 255 : ~(m < 0)
    OBVIOUS
  <2>3. PassedMasks = {}
    BY <2>1, <2>2 DEF PassedMasks
  <2> QED BY <2>3 DEF TopMasks
<1>3. Cardinality({}) = 0
  BY FS_EmptySet
<1>4. /\ DOMAIN solver = {"mask", "value", "best"} /\ solver.mask = 0 /\ solver.value = -1
      /\ solver.best = << >>
  BY <1>1
<1>5. /\ solver.best \in Seq(SUBSET FeatureIds) /\ Len(solver.best) = 0
      /\ DOMAIN solver.best = {}
  BY <1>4
<1>6. {solver.best[i] : i \in DOMAIN solver.best} = {SubsetOf(m) : m \in TopMasks}
  BY <1>2, <1>5
<1>7. SolverFits
  BY <1>2, <1>3, <1>4, <1>5, <1>6 DEF SolverFits
<1> QED BY <1>1, <1>7 DEF TasksInv, SubmittedFits

LEMMA TopIsFinite == ASSUME SolverFits PROVE IsFiniteSet(TopMasks)
<1>1. IsFiniteSet(0 .. 255)
  <2>1. ASSUME NEW n \in Nat PROVE IsFiniteSet(0 .. n)
    <3>1. 0 \in Int /\ n \in Int
      OBVIOUS
    <3> QED BY <3>1, FS_Interval
  <2>2. 255 \in Nat
    OBVIOUS
  <2> QED BY <2>1, <2>2
<1>2. TopMasks \subseteq 0 .. 255
  BY MasksAre DEF TopMasks, PassedMasks, Good
<1> QED BY <1>1, <1>2, FS_Subset

LEMMA LoopTurnKeeps == ASSUME TasksInv, SolverStep PROVE TasksInv'
<1> DEFINE m == solver.mask
           S == SubsetOf(m)
<1>1. m \in Masks /\ m \in 0 .. 255 /\ submitted' = submitted
  BY MasksAre DEF SolverStep
<1>2. S \in SUBSET FeatureIds /\ Worth[m] = Value(S) /\ Worth[m] \in Int /\ Worth[m] >= 0
      /\ (m \in Good <=> Violations(S) = {})
  BY <1>1, WorthIs
<1>3. submitted = NothingSubmitted
  BY <1>1 DEF TasksInv, SubmittedFits
<1>4. SubmittedFits'
  BY <1>1, <1>3 DEF SubmittedFits, NothingSubmitted
<1>5. SolverFits
  BY DEF TasksInv
<1>6. \A n \in Good : n \in 0 .. 255 /\ Worth[n] \in Int /\ Worth[n] >= 0
  BY WorthIs, MasksAre DEF Good
<1>7. solver.value \in Int /\ solver.best \in Seq(SUBSET FeatureIds)
      /\ DOMAIN solver = {"mask", "value", "best"}
  BY <1>5 DEF SolverFits
<1>10. /\ PassedMasks = {k \in Good : k < m}
       /\ PassedMasks' = {k \in Good : k < solver'.mask}
       /\ TopMasks = {k \in PassedMasks : Worth[k] = solver.value}
       /\ TopMasks' = {k \in PassedMasks' : Worth[k] = solver'.value}
  BY DEF PassedMasks, TopMasks
<1>11. \A k \in PassedMasks : Worth[k] <= solver.value
  BY <1>5 DEF SolverFits
<1>8. CASE Violations(S) # {} \/ Value(S) < solver.value
  <2>1. solver' = [solver EXCEPT !.mask = @ + 1]
    BY <1>8 DEF SolverStep
  <2>2. /\ DOMAIN solver' = {"mask", "value", "best"} /\ solver'.mask = m + 1
        /\ solver'.value = solver.value /\ solver'.best = solver.best
    BY <1>7, <2>1
  <2>3. m > 0
    <3>1. CASE m = 0
      <4>1. FeasibleFeatures(SubsetOf(0))
        <5>1. SubsetOf(0) = {}
          <6>1. \A k \in {1, 2, 4, 8, 16, 32, 64, 128} : (0 \div k) % 2 = 0
            OBVIOUS
          <6>2. 0 \in Nat /\ 0 % 2 = 0
            OBVIOUS
          <6> QED BY <6>1, <6>2, MaskIs, FeaturesAre
        <5> QED BY <5>1, TableIs DEF FeasibleFeatures, StoryPointLimit
      <4>2. Violations(S) = {}
        BY <1>2, <3>1, <4>1, ViolationsAre
      <4>3. solver.value = -1
        BY <1>5, <3>1 DEF SolverFits
      <4> QED BY <1>2, <1>8, <4>2, <4>3
    <3> QED BY <1>1, <3>1
  <2>4. TopMasks' = TopMasks /\ \A n \in PassedMasks' : Worth[n] <= solver.value
    <3> HIDE DEF m, S
    <3>1. PassedMasks' = PassedMasks \cup (IF m \in Good THEN {m} ELSE {})
      <4>1. \A k \in Good : k < m + 1 <=> (k < m \/ k = m)
        BY <1>1, <1>6
      <4>2. PassedMasks' = {k \in Good : k < m \/ k = m}
        BY <1>10, <2>2, <4>1
      <4> QED BY <1>10, <4>2
    <3>2. m \in Good => Worth[m] < solver.value
      BY <1>2, <1>8
    <3> QED BY <1>2, <1>6, <1>7, <1>10, <1>11, <2>2, <3>1, <3>2
  <2>5. /\ {solver.best[i] : i \in DOMAIN solver.best} = {SubsetOf(n) : n \in TopMasks}
        /\ Len(solver.best) = Cardinality(TopMasks) /\ TopMasks # {}
    BY <1>5, <2>3 DEF SolverFits
  <2>6. SolverFits'
    <3> HIDE DEF m, S
    <3>1. m + 1 \in 0 .. 256 /\ m + 1 # 0
      BY <1>1
    <3>2. /\ solver'.mask \in 0 .. 256 /\ solver'.mask # 0 /\ solver'.value \in Int
          /\ solver'.best \in Seq(SUBSET FeatureIds)
          /\ \A n \in PassedMasks' : Worth[n] <= solver'.value
      BY <1>7, <2>2, <2>4, <3>1
    <3>3. /\ {solver'.best[i] : i \in DOMAIN solver'.best} = {SubsetOf(n) : n \in TopMasks'}
          /\ Len(solver'.best) = Cardinality(TopMasks') /\ TopMasks' # {}
      BY <2>2, <2>4, <2>5
    <3> QED BY <2>2, <3>2, <3>3, Zenon DEF SolverFits
  <2> QED BY <1>4, <2>6 DEF TasksInv
<1>9. CASE ~(Violations(S) # {} \/ Value(S) < solver.value)
  <2>1. m \in Good /\ Value(S) >= solver.value
    BY <1>2, <1>7, <1>9
  <2> DEFINE best == IF Value(S) > solver.value THEN <<S>> ELSE Append(solver.best, S)
  <2>2. solver' = [mask |-> m + 1, value |-> Value(S), best |-> best]
    BY <1>9 DEF SolverStep
  <2>3. /\ DOMAIN solver' = {"mask", "value", "best"} /\ solver'.mask = m + 1
        /\ solver'.value = Value(S) /\ solver'.best = best
    BY <2>2
  <2> HIDE DEF best
  <2>4. PassedMasks' = PassedMasks \cup {m}
    <3> HIDE DEF m, S
    <3>1. \A k \in Good : k < m + 1 <=> k < m \/ k = m
      BY <1>1, <1>6
    <3>2. PassedMasks' = {k \in Good : k < m + 1}
      BY <1>10, <2>3
    <3> QED BY <1>10, <2>1, <3>1, <3>2
  <2>5. \A n \in PassedMasks' : Worth[n] <= Value(S)
    <3> HIDE DEF m, S
    <3>1. \A n \in PassedMasks : n \in Good
      BY <1>10
    <3> QED BY <1>2, <1>6, <1>7, <1>11, <2>1, <2>4, <3>1
  <2>6. m \notin PassedMasks /\ m \notin TopMasks
    BY <1>1 DEF PassedMasks, TopMasks
  <2>7. m \in TopMasks'
    BY <1>2, <2>3, <2>4 DEF TopMasks
  <2>8. /\ best \in Seq(SUBSET FeatureIds)
        /\ {best[i] : i \in DOMAIN best} = {SubsetOf(n) : n \in TopMasks'}
        /\ Len(best) = Cardinality(TopMasks')
    <3>1. CASE Value(S) > solver.value
      <4>1. TopMasks' = {m}
        BY <1>2, <1>5, <1>6, <1>7, <2>3, <2>4, <3>1 DEF TopMasks, SolverFits, PassedMasks
      <4>2. Cardinality({m}) = 1
        BY FS_Singleton
      <4>3. best = <<S>>
        BY <3>1 DEF best
      <4> HIDE DEF S
      <4>4. best \in Seq(SUBSET FeatureIds) /\ Len(best) = 1 /\ DOMAIN best = {1} /\ best[1] = S
        BY <1>2, <4>3
      <4>5. S = SubsetOf(m)
        BY DEF S
      <4> QED BY <4>1, <4>2, <4>4, <4>5
    <3>2. CASE ~(Value(S) > solver.value)
      <4>1. Value(S) = solver.value
        BY <1>2, <1>7, <2>1, <3>2
      <4>2. TopMasks' = TopMasks \cup {m}
        BY <1>2, <2>3, <2>4, <4>1 DEF TopMasks
      <4>3. Cardinality(TopMasks') = Cardinality(TopMasks) + 1
        BY <1>5, <2>6, <4>2, TopIsFinite, FS_AddElement
      <4>4. best = Append(solver.best, S)
        BY <3>2 DEF best
      <4>5. S = SubsetOf(m)
        OBVIOUS
      <4> HIDE DEF S
      <4>6. /\ best \in Seq(SUBSET FeatureIds) /\ Len(best) = Len(solver.best) + 1
            /\ DOMAIN best = 1 .. Len(solver.best) + 1 /\ DOMAIN solver.best = 1 .. Len(solver.best)
            /\ Len(solver.best) \in Nat
            /\ best[Len(solver.best) + 1] = S
            /\ \A i \in 1 .. Len(solver.best) : best[i] = solver.best[i]
        BY <1>2, <1>7, <4>4
      <4>7. {best[i] : i \in DOMAIN best} = {solver.best[i] : i \in DOMAIN solver.best} \cup {S}
        <5>1. 1 .. Len(solver.best) + 1 = (1 .. Len(solver.best)) \cup {Len(solver.best) + 1}
          BY <4>6
        <5> QED BY <4>6, <5>1
      <4>8. {SubsetOf(n) : n \in TopMasks'} = {SubsetOf(n) : n \in TopMasks} \cup {S}
        BY <4>2, <4>5
      <4> QED BY <1>5, <4>3, <4>6, <4>7, <4>8 DEF SolverFits
    <3> QED BY <3>1, <3>2
  <2>9. SolverFits'
    <3> HIDE DEF m, S
    <3>1. m + 1 \in 0 .. 256 /\ m + 1 # 0
      BY <1>1
    <3>2. /\ solver'.mask \in 0 .. 256 /\ solver'.mask # 0 /\ solver'.value \in Int
          /\ solver'.best \in Seq(SUBSET FeatureIds)
          /\ \A n \in PassedMasks' : Worth[n] <= solver'.value
      BY <1>2, <2>3, <2>5, <2>8, <3>1
    <3>3. /\ {solver'.best[i] : i \in DOMAIN solver'.best} = {SubsetOf(n) : n \in TopMasks'}
          /\ Len(solver'.best) = Cardinality(TopMasks') /\ TopMasks' # {}
      BY <2>3, <2>7, <2>8
    <3> QED BY <2>3, <3>2, <3>3, Zenon DEF SolverFits
  <2> QED BY <1>4, <2>9 DEF TasksInv
<1> QED BY <1>8, <1>9

LEMMA SubmitKeeps == ASSUME TasksInv, Submit PROVE TasksInv'
<1>1. SolverFits' /\ solver' = solver
  BY DEF TasksInv, Submit, SolverFits, TopMasks, PassedMasks
<1>2. solver.mask = 256
  BY MasksAre DEF TasksInv, SolverFits, Submit
<1>3. PICK S \in SUBSET FeatureIds, twice \in BOOLEAN, unknown \in BOOLEAN,
           lower \in BOOLEAN, c \in Offsets, v \in Offsets :
        submitted' = [is |-> "answer", features |-> S, twice |-> twice /\ S # {},
                      unknown |-> unknown, lower |-> lower /\ S # {},
                      cost |-> Cost(S) + c, value |-> Value(S) + v]
  BY DEF Submit
<1>4. /\ (twice /\ S # {}) \in BOOLEAN /\ (lower /\ S # {}) \in BOOLEAN
      /\ Cost(S) + c \in Int /\ Value(S) + v \in Int
  BY TotalsAreNumbers, OffsetsAssumption
<1>5. SubmittedFits'
  <2> SUFFICES \E S1 \in SUBSET FeatureIds, t \in BOOLEAN, u \in BOOLEAN,
                  l \in BOOLEAN, cost \in Int, value \in Int :
                 submitted' = [is |-> "answer", features |-> S1, twice |-> t, unknown |-> u,
                               lower |-> l, cost |-> cost, value |-> value]
    BY <1>1, <1>2 DEF SubmittedFits
  <2> QED BY <1>3, <1>4, Zenon
<1> QED BY <1>1, <1>5 DEF TasksInv

LEMMA TasksInvariance == TasksSpec => []TasksInv
<1>1. TasksInv /\ [TasksNext]_taskVars => TasksInv'
  <2> SUFFICES ASSUME TasksInv, [TasksNext]_taskVars PROVE TasksInv'
    OBVIOUS
  <2>1. CASE UNCHANGED taskVars
    <3>1. SolverFits'
      BY <2>1 DEF TasksInv, SolverFits, TopMasks, PassedMasks, taskVars
    <3>2. SubmittedFits'
      <4>1. submitted' = submitted /\ solver' = solver
        BY <2>1 DEF taskVars
      <4>2. SubmittedFits
        BY DEF TasksInv
      <4> QED BY <4>1, <4>2 DEF SubmittedFits
    <3> QED BY <3>1, <3>2 DEF TasksInv
  <2> QED BY <2>1, LoopTurnKeeps, SubmitKeeps DEF TasksNext
<1> QED BY <1>1, TasksBegin, PTL DEF TasksSpec

(* When the loop has ended it holds the optimum and nothing else.          *)
LEMMA LoopEndsWithOptimum ==
  ASSUME SolverFits, solver.mask = 256
  PROVE  solver.best = <<Optimum>>
<1>1. PassedMasks = Good
  BY MasksAre DEF PassedMasks, Good
<1>2. solver.value = 29
  <2>1. OptimalMask \in PassedMasks /\ Worth[OptimalMask] = 29
    BY <1>1, OptimalMaskIs, OptimumIs, WorthIs DEF Good
  <2>2. PICK n \in TopMasks : TRUE
    BY DEF SolverFits
  <2>3. Worth[n] <= 29 /\ Worth[n] = solver.value
    BY <1>1, GoodIsBounded DEF TopMasks
  <2> QED BY <2>1, <2>3 DEF SolverFits
<1>3. TopMasks = {OptimalMask}
  BY <1>1, <1>2, GoodIsBounded, OptimalMaskIs, OptimumIs, WorthIs DEF TopMasks, Good
<1>4. Len(solver.best) = 1
  <2>1. Cardinality({OptimalMask}) = 1
    BY FS_Singleton
  <2> QED BY <1>3, <2>1 DEF SolverFits
<1>5. {solver.best[i] : i \in DOMAIN solver.best} = {Optimum}
  <2>1. {SubsetOf(n) : n \in TopMasks} = {SubsetOf(OptimalMask)}
    BY <1>3
  <2> QED BY <2>1, OptimalMaskIs DEF SolverFits
<1>6. solver.best[1] = Optimum
  <2>1. 1 \in DOMAIN solver.best
    BY <1>4 DEF SolverFits
  <2> QED BY <1>5, <2>1
<1> QED BY <1>4, <1>6 DEF SolverFits

LEMMA BestFeasibleIs == BestFeasible = 29
<1> DEFINE values == {Value(S) : S \in {T \in SUBSET FeatureIds : FeasibleFeatures(T)}}
<1>1. 29 \in values
  BY OptimumIs
<1>2. \A x \in values : x \in Int /\ x <= 29
  BY NothingIsBetter, TotalsAreNumbers
<1>3. BestFeasible = CHOOSE x \in values : \A y \in values : x >= y
  BY DEF BestFeasible, Max
<1> HIDE DEF values
<1>4. \E x \in values : \A y \in values : x >= y
  BY <1>1, <1>2
<1>5. BestFeasible \in values /\ \A y \in values : BestFeasible >= y
  BY <1>3, <1>4
<1> QED BY <1>1, <1>2, <1>5

LEMMA VerifiersJudge == ASSUME TasksInv PROVE VerifiersAgree
<1> SUFFICES ASSUME submitted # NothingSubmitted
             PROVE  /\ CorrectDay5(submitted) = (CorrectDay3(submitted) /\ ~submitted.lower)
                    /\ CorrectDay3(submitted) =>
                         /\ submitted.features = {"A", "C", "F", "G"}
                         /\ ~submitted.twice /\ ~submitted.unknown
                         /\ submitted.cost = 15 /\ submitted.value = 29
  BY DEF VerifiersAgree
<1>1. solver.best[1] = Optimum
  BY LoopEndsWithOptimum DEF TasksInv, SubmittedFits
<1>2. PICK S \in SUBSET FeatureIds, twice \in BOOLEAN, unknown \in BOOLEAN,
           lower \in BOOLEAN, cost \in Int, value \in Int :
        submitted = [is |-> "answer", features |-> S, twice |-> twice, unknown |-> unknown,
                     lower |-> lower, cost |-> cost, value |-> value]
  BY DEF TasksInv, SubmittedFits
<1>3. CorrectDay3(submitted) <=>
        /\ Violations(S) = {} /\ ~twice /\ ~unknown /\ Value(S) = 29
        /\ cost = Cost(S) /\ value = Value(S)
  BY <1>1, <1>2, OptimumIs DEF CorrectDay3
<1>4. CorrectDay5(submitted) <=>
        /\ ~twice /\ FeasibleFeatures(Written(submitted))
        /\ cost = Cost(S) /\ value = Value(S) /\ value = 29
  BY <1>2, BestFeasibleIs DEF CorrectDay5
<1>5. FeasibleFeatures(Written(submitted)) <=> Violations(S) = {} /\ ~unknown /\ ~lower
  <2>1. CASE unknown \/ lower
    <3>1. "Z" \notin FeatureIds /\ "lower case" \notin FeatureIds
      BY FeaturesAre
    <3>2. "Z" \in Written(submitted) \/ "lower case" \in Written(submitted)
      BY <1>2, <2>1 DEF Written
    <3> QED BY <2>1, <3>1, <3>2 DEF FeasibleFeatures
  <2>2. CASE ~unknown /\ ~lower
    <3>1. Written(submitted) = S
      BY <1>2, <2>2 DEF Written
    <3> QED BY <2>2, <3>1, ViolationsAre
  <2> QED BY <2>1, <2>2
<1>6. CorrectDay5(submitted) <=> (CorrectDay3(submitted) /\ ~lower)
  BY <1>3, <1>4, <1>5
<1>7. CorrectDay3(submitted) \in BOOLEAN /\ CorrectDay5(submitted) \in BOOLEAN
  BY DEF CorrectDay3, CorrectDay5
<1>8. ASSUME CorrectDay3(submitted)
      PROVE  S = {"A", "C", "F", "G"} /\ ~twice /\ ~unknown /\ cost = 15 /\ value = 29
  <2>1. FeasibleFeatures(S) /\ Value(S) = 29
    BY <1>3, <1>8, ViolationsAre
  <2>2. S = Optimum
    BY <2>1, NothingIsBetter
  <2> QED BY <1>3, <1>8, <2>2, OptimumIs DEF Optimum
<1> QED BY <1>2, <1>6, <1>7, <1>8

(* The loop holds exactly the best of the subsets it has passed and ends   *)
(* with the only optimum; by it, whatever totals an answer reports, only   *)
(* that optimum is correct, and the two verifiers part over lower case and *)
(* nothing else (solve_exhaustively, verify_solution, verify).             *)
THEOREM JudgementStaysExact == TasksSpec => []JudgementIsExact
<1>1. TasksInv => JudgementIsExact
  <2> SUFFICES ASSUME TasksInv PROVE JudgementIsExact
    OBVIOUS
  <2>1. SolverIsExact
    <3> SUFFICES ASSUME solver.mask > 0
                 PROVE  LET passed == {m \in Good : m < solver.mask}
                            best == {m \in passed : \A n \in passed : Worth[n] <= Worth[m]} IN
                        /\ {solver.best[i] : i \in DOMAIN solver.best} = {SubsetOf(m) : m \in best}
                        /\ Len(solver.best) = Cardinality(best)
                        /\ \A m \in best : solver.value = Worth[m]
                        /\ solver.mask \notin Masks => solver.best = <<{"A", "C", "F", "G"}>>
      BY DEF SolverIsExact
    <3> DEFINE best == {m \in PassedMasks : \A n \in PassedMasks : Worth[n] <= Worth[m]}
    <3>1. SolverFits
      BY DEF TasksInv
    <3>2. \A m \in PassedMasks : Worth[m] \in Int
      BY WorthIs DEF PassedMasks, Good
    <3>3. best = TopMasks
      <4>1. PICK t \in TopMasks : TRUE
        BY <3>1 DEF SolverFits
      <4>2. t \in PassedMasks /\ Worth[t] = solver.value
        BY DEF TopMasks
      <4>3. \A m \in PassedMasks : Worth[m] <= solver.value
        BY <3>1 DEF SolverFits
      <4>4. solver.value \in Int
        BY <3>1 DEF SolverFits
      <4> QED BY <3>2, <4>2, <4>3, <4>4 DEF TopMasks
    <3>4. solver.mask \notin Masks => solver.best = <<{"A", "C", "F", "G"}>>
      <4>1. solver.mask \notin Masks => solver.mask = 256
        BY <3>1, MasksAre DEF SolverFits
      <4> QED BY <3>1, <4>1, LoopEndsWithOptimum DEF Optimum
    <3>5. \A m \in best : solver.value = Worth[m]
      BY <3>3 DEF TopMasks
    <3>6. /\ {solver.best[i] : i \in DOMAIN solver.best} = {SubsetOf(m) : m \in best}
          /\ Len(solver.best) = Cardinality(best)
      BY <3>1, <3>3 DEF SolverFits
    <3> QED BY <3>4, <3>5, <3>6 DEF PassedMasks
  <2> QED BY <2>1, VerifiersJudge DEF JudgementIsExact
<1> QED BY <1>1, TasksInvariance, PTL

=============================================================================
