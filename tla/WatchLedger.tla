---------------------------- MODULE WatchLedger ----------------------------
(***************************************************************************)
(* What the dependency watch service promises the clients that create      *)
(* watches, whatever processes, crashes and clock changes are behind it:   *)
(* for each watch a finite series of checks on the watch's own grid of     *)
(* slots, each for a later slot than the one before, each spending one of  *)
(* the runs the client asked for, and an end; and one check at a time.     *)
(***************************************************************************)
EXTENDS Integers, Sequences

CONSTANT Watches

VARIABLES
    phase,    \* of a watch: absent | waiting | checking | done
    order,    \* the accepted request: origin of the grid, interval, budget
    slots     \* the slots that were checked, in the order of the checks

ledger == <<phase, order, slots>>

NoOrder == [origin |-> 0, interval |-> 0, budget |-> 0]
Order == [origin : Nat, interval : Nat \ {0}, budget : Nat \ {0}]

OnGrid(w, slot) == \E n \in 1 .. slot : slot = order[w].origin + n * order[w].interval
Later(w, slot) == \A i \in DOMAIN slots[w] : slots[w][i] < slot
Newest(s) == s[Len(s)]

Init ==
    /\ phase = [w \in Watches |-> "absent"]
    /\ order = [w \in Watches |-> NoOrder]
    /\ slots = [w \in Watches |-> <<>>]

Register(w) ==
    /\ phase[w] = "absent"
    /\ phase' = [phase EXCEPT ![w] = "waiting"]
    /\ order'[w] \in Order
    /\ order' = [order EXCEPT ![w] = order'[w]]
    /\ UNCHANGED slots

\* The slot of a check is not fixed in advance: missed slots are passed over.
\* One check is going at a time, of all watches.
Check(w) ==
    /\ phase[w] = "waiting"
    /\ \A v \in Watches : phase[v] # "checking"
    /\ phase' = [phase EXCEPT ![w] = "checking"]
    /\ Len(slots'[w]) = Len(slots[w]) + 1
    /\ OnGrid(w, Newest(slots'[w])) /\ Later(w, Newest(slots'[w]))
    /\ slots' = [slots EXCEPT ![w] = Append(@, Newest(slots'[w]))]
    /\ UNCHANGED order

\* Success, failure and interruption all spend one run.
Settle(w) ==
    /\ phase[w] = "checking"
    /\ phase' = [phase EXCEPT ![w] =
                    IF Len(slots[w]) = order[w].budget THEN "done" ELSE "waiting"]
    /\ UNCHANGED <<order, slots>>

Next == \E w \in Watches : Register(w) \/ Check(w) \/ Settle(w)

Spec == Init /\ [][Next]_ledger

\* A check that began ends.
FairSpec == Spec /\ \A w \in Watches : WF_ledger(Settle(w))
=============================================================================
