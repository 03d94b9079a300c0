----------------------- MODULE DependencyWatchLedger -----------------------
(***************************************************************************)
(* The dependency watch service implements the ledger its clients were     *)
(* promised.                                                               *)
(***************************************************************************)
EXTENDS DependencyWatch

Phase(w) ==
    CASE watch[w].status = "none" -> "absent"
      [] watch[w].status = "completed" -> "done"
      [] watch[w].status = "active" /\ Running(w) -> "checking"
      [] OTHER -> "waiting"

Ordered(w) == [origin |-> watch[w].created, interval |-> watch[w].interval,
               budget |-> watch[w].maxRuns]

Slots(w) == [i \in DOMAIN rows[w] |-> rows[w][i].slot]

Ledger == INSTANCE WatchLedger WITH
    phase <- [w \in Watches |-> Phase(w)],
    order <- [w \in Watches |-> Ordered(w)],
    slots <- [w \in Watches |-> Slots(w)]

\* Each watch is a ledger: grid slots only, strictly later ones, exactly the
\* budget and nothing after the end; one check is going at a time, across all
\* watches, processes and restarts.
ImplementsLedger == Ledger!Spec

\* And a check that began ends, whatever becomes of the process that began it:
\* its worker commits it, or the next process to start interrupts it.
ChecksSettle == Ledger!FairSpec
=============================================================================
