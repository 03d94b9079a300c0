---------------------------- MODULE MCWatchSafety ----------------------------
(* Safety of the dependency watch service, in two instances of which the     *)
(* first state chooses one: two watches under outages, for slots, ownership  *)
(* and the ledger; and three watches for two places, for the quotas.         *)
EXTENDS MCDependencyWatch

VARIABLE part    \* the instance

\* Quotas: a short watch, one whose budget is too large for its interval, and an
\* hourly-like one.
MCQuotaRequests ==
    {[interval |-> 1, maxRuns |-> 2], [interval |-> 1, maxRuns |-> 3],
     [interval |-> 2, maxRuns |-> 2]}

\* One process at a time, one disruption, a clock of three readings.
IsQuotaInstance ==
    /\ clock <= 2 /\ disruptions <= 1
    /\ \E p \in Procs : \A q \in Procs \ {p} : pc[q] = "down"

\* Two watches, none refused for its budget.
IsOutageInstance ==
    /\ Cardinality({w \in Watches : watch[w].status # "none"}) <= 2
    /\ \A w \in Watches : [interval |-> watch[w].interval, maxRuns |-> watch[w].maxRuns]
                             \in MCRequests \cup {[interval |-> 0, maxRuns |-> 0]}

IsOfPart == IF part = "quota" THEN IsQuotaInstance ELSE IsOutageInstance

WatchSafetyInit == part \in {"quota", "outages"} /\ Init /\ IsOfPart

WatchSafetySpec ==
    /\ WatchSafetyInit
    /\ [][Next /\ UNCHANGED part /\ IsOfPart']_<<vars, part>>
=============================================================================
