-------------------------- MODULE MCPrivateService --------------------------
(* Two instances in one run, told apart by "part": the code's pool of two   *)
(* threads with a third call ("calls"), and two clients of readyz beside    *)
(* one call that may fail under them ("readiness").  Calls are              *)
(* interchangeable, so they come in one order.  Neither restricts a step    *)
(* that fairness asks for: clients may always stay away.                    *)
EXTENDS PrivateReadiness

CONSTANTS c1, c2, c3

VARIABLE part

MCInit == ServiceInit /\ part \in {"calls", "readiness"}

HasCome(c) == waiter'[c] # "new"

MCNext ==
    /\ ServiceNext /\ UNCHANGED part
    /\ part = "calls" => UNCHANGED readinessVars
    /\ part = "readiness" => ~HasCome(c2)
    /\ (HasCome(c2) => HasCome(c1)) /\ (HasCome(c3) => HasCome(c2))

MCFairSpec ==
    /\ MCInit /\ [][MCNext]_<<serviceVars, part>> /\ Fairness
    /\ \A a \in Askers : WF_serviceVars(Wake(a)) /\ WF_serviceVars(AskTimesOut(a))
=============================================================================
