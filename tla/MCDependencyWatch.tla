------------------------- MODULE MCDependencyWatch -------------------------
(* Small instances of the dependency watch service. *)
EXTENDS DependencyWatchLedger, TLC

MCTimes == 0 .. 3

\* An hourly-like and a short watch; the budgets cover one run, and a run that
\* follows another.
MCRequests == {[interval |-> 1, maxRuns |-> 2], [interval |-> 2, maxRuns |-> 2]}
MCOneRequest == {[interval |-> 1, maxRuns |-> 2]}

\* The clock moves only where the worker awaits something: no trace of this
\* specification owes anything to time spent in the middle of synchronous code.
AwaitSpec ==
    Init /\ [][Next /\ (clock' # clock => \A p \in Procs : worker[p] # "pass")]_vars

Symmetry == Permutations(Watches) \union Permutations(Procs)
=============================================================================
