------------------------------- MODULE TokenLab -------------------------------
(***************************************************************************)
(* The token lab (day 08): sessions whose messages are counted before they *)
(* are sent, and OverflowPreparations, an in-memory table of requests made *)
(* to be too large.  A preparation is a permission to try one generation   *)
(* of exactly what was counted, for ten minutes.  Every await of a handler *)
(* is a point where handlers of other sessions run.                        *)
(***************************************************************************)
EXTENDS Naturals, FiniteSets

CONSTANTS
  LabSessions,     \* sessions of the lab
  Permits,         \* preparation ids, each handed out once
  TableCapacity,   \* CAPACITY, 16 in the code
  Candidates,      \* payload sizes tried in one preparation, 4 in the code
  LabTurns,        \* bound on saved turns of a session
  NoPermit, NoRow, Gone   \* marks: no permit, not created, deleted

ASSUME TokenLabAssumption ==
  TableCapacity \in Nat \ {0} /\ Candidates \in Nat \ {0} /\ LabTurns \in Nat

VARIABLES
  turns,     \* per session, the number of saved turns, or NoRow or Gone
  table,     \* _items: permit -> [session, counted], the table in memory
  expired,   \* permits older than TTL_SECONDS
  op,        \* per session, the handler that holds its busy flag
  granted,   \* permits ever handed out
  attempts   \* per permit, the generations attempted under it

labVars == <<turns, table, expired, op, granted, attempts>>

Free == [kind |-> "free", tries |-> 0, permit |-> NoPermit]

TokenLabInit ==
  /\ turns = [s \in LabSessions |-> NoRow]
  /\ table = << >>
  /\ expired = {}
  /\ op = [s \in LabSessions |-> Free]
  /\ granted = {}
  /\ attempts = [p \in Permits |-> 0]

Without(t, P) == [p \in DOMAIN t \ P |-> t[p]]

(* cleanup: rebuilds the table without what has expired.                   *)
CleanedUp == Without(table, expired)

(* begin_turn, ensure_available: the session is there and not busy.        *)
Available(s) == turns[s] \notin {NoRow, Gone} /\ op[s].kind = "free"

(* invalidate(session): its permits leave the table.                       *)
Invalidated(t, s) == Without(t, {p \in DOMAIN t : t[p].session = s})

CreateLabSession(s) ==
  /\ turns[s] = NoRow
  /\ turns' = [turns EXCEPT ![s] = 0]
  /\ UNCHANGED <<table, expired, op, granted, attempts>>

DeleteLabSession(s) ==
  /\ Available(s)
  /\ turns' = [turns EXCEPT ![s] = Gone]
  /\ table' = Invalidated(table, s)
  /\ UNCHANGED <<expired, op, granted, attempts>>

\* Seeded fault: send does not claim the session.
BeginSendUnclaimed(s) ==
  /\ turns[s] \notin {NoRow, Gone} /\ op[s].kind \in {"free", "checking"}
  /\ turns[s] < LabTurns
  /\ turns' = [turns EXCEPT ![s] = @ + 1]
  /\ UNCHANGED <<table, expired, op, granted, attempts>>

BeginSend(s) ==
  /\ Available(s)
  /\ turns[s] < LabTurns
  /\ op' = [op EXCEPT ![s].kind = "send"]
  /\ UNCHANGED <<turns, table, expired, granted, attempts>>

(* A committed turn makes the permits of its session void.                 *)
EndSend(s) ==
  /\ op[s].kind = "send"
  /\ op' = [op EXCEPT ![s] = Free]
  /\ \/ /\ turns' = [turns EXCEPT ![s] = @ + 1]
        /\ table' = Invalidated(table, s)
     \/ UNCHANGED <<turns, table>>       \* count or provider failure, or refusal
  /\ UNCHANGED <<expired, granted, attempts>>

(* prepare, up to its first await: old permits of the session are void     *)
(* even when the table is full.                                            *)
BeginPrepare(s) ==
  LET cleared == Invalidated(CleanedUp, s) IN
  /\ Available(s)
  /\ table' = cleared
  /\ op' = IF Cardinality(DOMAIN cleared) >= TableCapacity THEN op
           ELSE [op EXCEPT ![s] = [kind |-> "prepare", tries |-> 1, permit |-> NoPermit]]
  /\ UNCHANGED <<turns, expired, granted, attempts>>

(* The count lies outside 132000..160000: the next candidate.              *)
NextCandidate(s) ==
  /\ op[s].kind = "prepare" /\ op[s].tries < Candidates
  /\ op' = [op EXCEPT ![s].tries = @ + 1]
  /\ UNCHANGED <<turns, table, expired, granted, attempts>>

\* Seeded fault: the capacity counted before the awaits is not counted again.
GrantUnchecked(s, p) ==
  /\ op[s].kind = "prepare" /\ p \notin granted
  /\ table' = [q \in DOMAIN CleanedUp \cup {p} |->
                 IF q = p THEN [session |-> s, counted |-> turns[s]] ELSE table[q]]
  /\ granted' = granted \cup {p}
  /\ op' = [op EXCEPT ![s] = Free]
  /\ UNCHANGED <<turns, expired, attempts>>

(* The count fits: the table is cleaned and counted again after the await. *)
Grant(s, p) ==
  /\ op[s].kind = "prepare" /\ p \notin granted
  /\ Cardinality(DOMAIN CleanedUp) < TableCapacity
  /\ table' = [q \in DOMAIN CleanedUp \cup {p} |->
                 IF q = p THEN [session |-> s, counted |-> turns[s]] ELSE table[q]]
  /\ granted' = granted \cup {p}
  /\ op' = [op EXCEPT ![s] = Free]
  /\ UNCHANGED <<turns, expired, attempts>>

(* The table has filled meanwhile, the candidates ran out, the count       *)
(* failed or 90 seconds passed.                                            *)
PrepareFails(s) ==
  /\ op[s].kind = "prepare"
  /\ table' = IF Cardinality(DOMAIN CleanedUp) >= TableCapacity THEN CleanedUp ELSE table
  /\ op' = [op EXCEPT ![s] = Free]
  /\ UNCHANGED <<turns, expired, granted, attempts>>

Expires(p) ==
  /\ p \in granted \ expired
  /\ expired' = expired \cup {p}
  /\ UNCHANGED <<turns, table, op, granted, attempts>>

(* execute, up to its await: a permit of another session is left alone, one*)
(* for another history is dropped.                                         *)
BeginExecute(s, p) ==
  LET here == CleanedUp IN
  /\ Available(s) /\ p \in granted
  /\ IF p \notin DOMAIN here \/ here[p].session # s
     THEN table' = here /\ UNCHANGED op
     ELSE IF here[p].counted # turns[s]
          THEN table' = Without(here, {p}) /\ UNCHANGED op
          ELSE /\ table' = here
               /\ op' = [op EXCEPT ![s] = [kind |-> "checking", tries |-> 0, permit |-> p]]
  /\ UNCHANGED <<turns, expired, granted, attempts>>

(* The permit expired while its bytes were hashed in a thread.             *)
ExecuteTooLate(s) ==
  /\ op[s].kind = "checking" /\ op[s].permit \in expired
  /\ table' = Without(table, {op[s].permit})
  /\ op' = [op EXCEPT ![s] = Free]
  /\ UNCHANGED <<turns, expired, granted, attempts>>

\* Seeded fault: the permit stays in the table when it is used.
AttemptKeepsPermit(s) ==
  /\ op[s].kind = "checking" /\ op[s].permit \notin expired
  /\ op' = [op EXCEPT ![s].kind = "probing"]
  /\ attempts' = [attempts EXCEPT ![op[s].permit] = @ + 1]
  /\ UNCHANGED <<turns, table, expired, granted>>

(* The permit is consumed and the one generation entered without an await  *)
(* between; the probe never commits.                                       *)
Attempt(s) ==
  /\ op[s].kind = "checking" /\ op[s].permit \notin expired
  /\ table' = Without(table, {op[s].permit})
  /\ op' = [op EXCEPT ![s].kind = "probing"]
  /\ attempts' = [attempts EXCEPT ![op[s].permit] = @ + 1]
  /\ UNCHANGED <<turns, expired, granted>>

EndProbe(s) ==
  /\ op[s].kind = "probing"
  /\ op' = [op EXCEPT ![s] = Free]
  /\ UNCHANGED <<turns, table, expired, granted, attempts>>

(* The table and the busy flags are in memory only.                        *)
RestartTokenLab ==
  /\ table' = << >>
  /\ op' = [s \in LabSessions |-> Free]
  /\ UNCHANGED <<turns, expired, granted, attempts>>

TokenLabNext ==
  \/ \E s \in LabSessions :
       \/ CreateLabSession(s) \/ DeleteLabSession(s) \/ BeginSend(s) \/ EndSend(s)
       \/ BeginPrepare(s) \/ NextCandidate(s) \/ PrepareFails(s)
       \/ ExecuteTooLate(s) \/ Attempt(s) \/ EndProbe(s)
       \/ \E p \in Permits : Grant(s, p) \/ BeginExecute(s, p)
  \/ \E p \in Permits : Expires(p)
  \/ RestartTokenLab

TokenLabSpec == TokenLabInit /\ [][TokenLabNext]_labVars

-----------------------------------------------------------------------------
(* The table never holds more than its capacity, however many sessions     *)
(* prepare at the same time: each counts the table, waits for a provider   *)
(* and inserts.                                                            *)
TableIsBounded == Cardinality(DOMAIN table) <= TableCapacity

(* A permit is good for one generation, of the session it was made for,    *)
(* and that generation sees the history that was counted, although the     *)
(* check and the use lie on both sides of an await.                        *)
PermitIsSpentOnce ==
  /\ \A p \in Permits : attempts[p] <= 1
  /\ \A s \in LabSessions : op[s].kind = "checking" /\ op[s].permit \in DOMAIN table
       => /\ table[op[s].permit].session = s
          /\ table[op[s].permit].counted = turns[s]

(* What a preparation promises between two awaits, in one formula.         *)
PreparationsAreSound == TableIsBounded /\ PermitIsSpentOnce
=============================================================================
