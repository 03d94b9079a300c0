-------------------------- MODULE PrivateReadiness --------------------------
(***************************************************************************)
(* GET /readyz of the private assistant service beside its chat calls:     *)
(* Service.readiness() with its shared probe, its cache and the chat calls *)
(* that invalidate it.  The chat calls are those of PrivateChat, so that   *)
(* "recovery" is what the calls make of it and can change at every await.  *)
(***************************************************************************)
EXTENDS PrivateChat

CONSTANT Askers     \* clients of GET /readyz

VARIABLES
    asker,      \* new | waiting | woken (the probe it awaits ended) | ready | unready
    got,        \* the value an asker was woken with
    readyValue, \* Service.ready_value
    fresh,      \* clock() - ready_at <= 5
    probeDone,  \* self.probe is None or self.probe.done()
    threads,    \* _probe() calls handed to the one thread of probe_pool, not over
    overtaken   \* history: whose probe began before the last known failure

readinessVars == <<asker, got, readyValue, fresh, probeDone, threads, overtaken>>
serviceVars == <<vars, readinessVars>>

Subjects == Askers \union {"probe", "cache"}

ReadinessTypeOK ==
    /\ TypeOK
    /\ asker \in [Askers -> {"new", "waiting", "woken", "ready", "unready"}]
    /\ got \in [Askers -> BOOLEAN]
    /\ readyValue \in BOOLEAN /\ fresh \in BOOLEAN /\ probeDone \in BOOLEAN
    /\ threads = IF probeDone THEN 0 ELSE 1  \* none queues behind a hung probe
    /\ overtaken \subseteq Subjects

ReadinessInit ==
    /\ asker = [a \in Askers |-> "new"]
    /\ got = [a \in Askers |-> FALSE]
    /\ readyValue = FALSE /\ fresh = FALSE
    /\ probeDone = TRUE /\ threads = 0
    /\ overtaken = {}

-----------------------------------------------------------------------------
(* The cache and the chat calls.                                           *)

\* invalidate(): whatever is known of readiness is older than this failure.
Invalidate ==
    /\ readyValue' = FALSE /\ fresh' = FALSE
    /\ overtaken' = {a \in Askers : asker[a] \in {"waiting", "woken"}}
                        \union (IF probeDone THEN {} ELSE {"probe"})
    /\ UNCHANGED <<asker, got, probeDone, threads>>

\* A chat call ends for its client or for the loop; a failure invalidates.
ChatStep(c) ==
    \/ GiveUp(c) /\ Invalidate
    \/ Finished(c) /\ outcome[c] = "failure" /\ Invalidate
    \/ Finished(c) /\ outcome[c] = "result" /\ UNCHANGED readinessVars
    \/ /\ \/ Admit(c) \/ Refuse(c) \/ Answer(c) \/ FutureDone(c)
          \/ ThreadStep(c) \/ OllamaEnds(c)
       /\ UNCHANGED readinessVars

\* Five seconds pass since the cache was written.
Expire ==
    /\ fresh
    /\ fresh' = FALSE
    /\ UNCHANGED <<vars, asker, got, readyValue, probeDone, threads, overtaken>>

-----------------------------------------------------------------------------
(* readiness() up to its await, the probe, and readiness() after it.       *)

Verdict(value) == IF value THEN "ready" ELSE "unready"

MayAsk(a) == asker[a] \in {"new", "ready", "unready"}

\* Recovery or shutdown is answered at once, and so is a fresh cache.
AskAnsweredAtOnce(a) ==
    /\ MayAsk(a)
    /\ \/ /\ Recovery \/ phase # "open"
          /\ asker' = [asker EXCEPT ![a] = "unready"]
       \/ /\ ~Recovery /\ phase = "open" /\ fresh
          /\ asker' = [asker EXCEPT ![a] = Verdict(readyValue)]
    /\ UNCHANGED <<vars, got, readyValue, fresh, probeDone, threads, overtaken>>

\* Otherwise the asker awaits the running probe, or one it starts.
AskProbe(a) ==
    /\ MayAsk(a)
    /\ ~Recovery /\ phase = "open" /\ ~fresh
    /\ asker' = [asker EXCEPT ![a] = "waiting"]
    /\ IF probeDone
       THEN /\ probeDone' = FALSE
            /\ threads' = threads + 1
            /\ overtaken' = overtaken \ {"probe"}
       ELSE /\ overtaken' = overtaken \union (IF "probe" \in overtaken THEN {a} ELSE {})
            /\ UNCHANGED <<probeDone, threads>>
    /\ UNCHANGED <<vars, got, readyValue, fresh>>

\* _probe() returns and the loop sets the future its askers await.
ProbeEnds ==
    /\ threads > 0 /\ ~probeDone
    /\ threads' = threads - 1
    /\ probeDone' = TRUE
    /\ \E value \in BOOLEAN :
        /\ asker' = [a \in Askers |-> IF asker[a] = "waiting" THEN "woken" ELSE asker[a]]
        /\ got' = [a \in Askers |-> IF asker[a] = "waiting" THEN value ELSE got[a]]
    /\ UNCHANGED <<vars, readyValue, fresh, overtaken>>

\* ready_value and ready_at are written with what asker a learnt.
Remember(a, value) ==
    /\ readyValue' = value /\ fresh' = TRUE
    /\ overtaken' = (overtaken \ {a, "cache"})
                        \union (IF a \in overtaken THEN {"cache"} ELSE {})

\* Seeded fault: recovery and stopping are not looked at again after the await.
WakeUnchecked(a) ==
    /\ asker[a] = "woken"
    /\ Remember(a, got[a])
    /\ asker' = [asker EXCEPT ![a] = Verdict(got[a])]
    /\ UNCHANGED <<vars, got, probeDone, threads>>

\* The await returns the probe's value.
Wake(a) ==
    /\ asker[a] = "woken"
    /\ Remember(a, got[a])
    /\ asker' = [asker EXCEPT ![a] = Verdict(got[a] /\ ~Recovery /\ phase = "open")]
    /\ UNCHANGED <<vars, got, probeDone, threads>>

\* Seeded fault: without shield() the timeout cancels the future, not the thread.
AskTimesOutUnshielded(a) ==
    /\ asker[a] = "waiting"
    /\ Remember(a, FALSE)
    /\ asker' = [asker EXCEPT ![a] = "unready"]
    /\ probeDone' = TRUE
    /\ UNCHANGED <<vars, got, threads>>

\* Seeded fault: the probe is awaited without a timeout.
AskTimesOutNever(a) == FALSE

\* ready_timeout passes first: the asker goes, the probe stays.
AskTimesOut(a) ==
    /\ asker[a] = "waiting"
    /\ Remember(a, FALSE)
    /\ asker' = [asker EXCEPT ![a] = "unready"]
    /\ UNCHANGED <<vars, got, probeDone, threads>>

ServiceInit == Init /\ ReadinessInit

ServiceNext ==
    \/ (Stop \/ Close) /\ UNCHANGED readinessVars
    \/ \E c \in Calls : ChatStep(c)
    \/ Expire \/ ProbeEnds
    \/ \E a \in Askers : AskAnsweredAtOnce(a) \/ AskProbe(a) \/ Wake(a) \/ AskTimesOut(a)

ServiceSpec == ServiceInit /\ [][ServiceNext]_serviceVars

\* The loop runs what is ready and its timers fire; a probe may hang.
ServiceFairSpec ==
    ServiceSpec /\ \A a \in Askers : WF_serviceVars(Wake(a)) /\ WF_serviceVars(AskTimesOut(a))

-----------------------------------------------------------------------------
(* What GET /readyz promises.                                              *)

\* "Ready" is only answered while no call is in doubt and the service is open,
\* whatever happened between the first look and the answer.
ReadyAnswerIsSafe ==
    [][\A a \in Askers : asker[a] # "ready" /\ asker'[a] = "ready" =>
        ~Recovery /\ phase = "open"]_serviceVars

\* An asker is answered, also when the probe hangs.
EveryAskIsAnswered ==
    \A a \in Askers : asker[a] \in {"waiting", "woken"} ~> asker[a] \in {"ready", "unready"}

\* "On a new known failure the cache is invalidated": a fresh positive cache does
\* not rest on a probe that began before the last known failure.
FailureOutlivesProbe == readyValue /\ fresh => "cache" \notin overtaken
=============================================================================
