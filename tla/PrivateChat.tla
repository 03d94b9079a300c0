---------------------------- MODULE PrivateChat ----------------------------
(***************************************************************************)
(* The chat calls of the private assistant service (day 30): Service.chat  *)
(* and its done callback on the event loop, explain_operation() with its   *)
(* CallState on a pool thread, and the Ollama server, which may go on      *)
(* generating for a call that everybody has given up.                      *)
(*                                                                         *)
(* An action is one stretch of event-loop code between two awaits, one     *)
(* step of a pool thread between two uses of the shared CallState, or a    *)
(* step of Ollama.                                                         *)
(***************************************************************************)
EXTENDS Integers, FiniteSets

CONSTANTS
    Calls,      \* identities of the POST /v1/chat requests (uuid4)
    Limit       \* calls that may be owned at once, and threads of the pool (2)

ASSUME CallsAssumption == IsFiniteSet(Calls)
ASSUME LimitAssumption == Limit \in Nat \ {0}

VARIABLES
    waiter,     \* the HTTP side of a call: new | waiting | refused | answered
    jobs,       \* the calls the service owns (self.jobs)
    thread,     \* none | preparing | prepared | begun | calling | parsing | over
    cancelled,  \* CallState.cancelled
    submitted,  \* CallState.submitted
    terminal,   \* CallState.terminal
    outcome,    \* how the thread ended: none | result | failure
    done,       \* job.future.done(), as the event loop sees it
    finished,   \* the done callback _finished has run
    phase,      \* open | stopping | closed
    ollama      \* the generation at Ollama: idle | running | ended

callState == <<cancelled, submitted, terminal>>
vars == <<waiter, jobs, thread, cancelled, submitted, terminal, outcome, done, finished,
          phase, ollama>>

TypeOK ==
    /\ waiter \in [Calls -> {"new", "waiting", "refused", "answered"}]
    /\ jobs \in SUBSET Calls /\ Cardinality(jobs) <= Limit
    /\ thread \in [Calls -> {"none", "preparing", "prepared", "begun", "calling",
                             "parsing", "over"}]
    /\ cancelled \in [Calls -> BOOLEAN]
    /\ submitted \in [Calls -> BOOLEAN]
    /\ terminal \in [Calls -> BOOLEAN]
    /\ outcome \in [Calls -> {"none", "result", "failure"}]
    /\ done \in [Calls -> BOOLEAN]
    /\ finished \in [Calls -> BOOLEAN]
    /\ phase \in {"open", "stopping", "closed"}
    /\ ollama \in [Calls -> {"idle", "running", "ended"}]

Init ==
    /\ waiter = [c \in Calls |-> "new"]
    /\ jobs = {}
    /\ thread = [c \in Calls |-> "none"]
    /\ cancelled = [c \in Calls |-> FALSE]
    /\ submitted = [c \in Calls |-> FALSE]
    /\ terminal = [c \in Calls |-> FALSE]
    /\ outcome = [c \in Calls |-> "none"]
    /\ done = [c \in Calls |-> FALSE]
    /\ finished = [c \in Calls |-> FALSE]
    /\ phase = "open"
    /\ ollama = [c \in Calls |-> "idle"]

-----------------------------------------------------------------------------
(* The event loop.                                                         *)

\* Inference was submitted and its end is not known.
Uncertain(c) == submitted[c] /\ ~terminal[c]

\* Seeded fault: only a thread that ended without an answer counts.
RecoveryOfEnded == \E c \in jobs : Uncertain(c) /\ done[c]

\* Some owned call may still be generating while nobody waits for it.
Recovery == \E c \in jobs : Uncertain(c) /\ (cancelled[c] \/ done[c])

\* Seeded fault: the capacity is compared after the insert it should precede.
HasCapacityForOneMore == Cardinality(jobs) <= Limit

HasCapacity == Cardinality(jobs) < Limit

Admit(c) ==
    /\ waiter[c] = "new"
    /\ ~Recovery /\ phase = "open" /\ HasCapacity
    /\ jobs' = jobs \union {c}
    /\ thread' = [thread EXCEPT ![c] = "preparing"]
    /\ waiter' = [waiter EXCEPT ![c] = "waiting"]
    /\ UNCHANGED <<callState, outcome, done, finished, phase, ollama>>

\* 503 recovery_required or 503 capacity_exceeded.
Refuse(c) ==
    /\ waiter[c] = "new"
    /\ Recovery \/ phase # "open" \/ ~HasCapacity
    /\ waiter' = [waiter EXCEPT ![c] = "refused"]
    /\ UNCHANGED <<jobs, thread, callState, outcome, done, finished, phase, ollama>>

\* The deadline passes, the client disconnects or the handler is cancelled
\* before the future is done: the call is cancelled, not forgotten.
GiveUp(c) ==
    /\ waiter[c] = "waiting" /\ ~done[c]
    /\ cancelled' = [cancelled EXCEPT ![c] = TRUE]
    /\ waiter' = [waiter EXCEPT ![c] = "answered"]
    /\ UNCHANGED <<jobs, thread, submitted, terminal, outcome, done, finished, phase, ollama>>

\* Seeded fault: an error of the thread is not turned into a response.
AnswerOfResult(c) ==
    /\ waiter[c] = "waiting" /\ done[c] /\ outcome[c] = "result"
    /\ waiter' = [waiter EXCEPT ![c] = "answered"]
    /\ UNCHANGED <<jobs, thread, callState, outcome, done, finished, phase, ollama>>

\* The result, or the error the runtime failure stands for.
Answer(c) ==
    /\ waiter[c] = "waiting" /\ done[c]
    /\ waiter' = [waiter EXCEPT ![c] = "answered"]
    /\ UNCHANGED <<jobs, thread, callState, outcome, done, finished, phase, ollama>>

\* The executor reports the end of the thread to the loop.
FutureDone(c) ==
    /\ thread[c] = "over" /\ ~done[c]
    /\ done' = [done EXCEPT ![c] = TRUE]
    /\ UNCHANGED <<waiter, jobs, thread, callState, outcome, finished, phase, ollama>>

\* Seeded fault: the slot is given back whenever the thread is over.
FinishedReleases(c) ==
    /\ done[c] /\ ~finished[c]
    /\ finished' = [finished EXCEPT ![c] = TRUE]
    /\ jobs' = jobs \ {c}
    /\ UNCHANGED <<waiter, thread, callState, outcome, done, phase, ollama>>

\* Seeded fault: a call whose waiter was answered keeps its slot.
FinishedForWaiter(c) ==
    /\ done[c] /\ ~finished[c]
    /\ finished' = [finished EXCEPT ![c] = TRUE]
    /\ jobs' = IF Uncertain(c) \/ cancelled[c] THEN jobs ELSE jobs \ {c}
    /\ UNCHANGED <<waiter, thread, callState, outcome, done, phase, ollama>>

\* _finished: an uncertain call is kept, for good.
Finished(c) ==
    /\ done[c] /\ ~finished[c]
    /\ finished' = [finished EXCEPT ![c] = TRUE]
    /\ jobs' = IF Uncertain(c) THEN jobs ELSE jobs \ {c}
    /\ UNCHANGED <<waiter, thread, callState, outcome, done, phase, ollama>>

\* close(): no admission from here on.
Stop ==
    /\ phase = "open"
    /\ phase' = "stopping"
    /\ UNCHANGED <<waiter, jobs, thread, callState, outcome, done, finished, ollama>>

\* close() has waited for its calls, or for shutdown_timeout.
Close ==
    /\ phase = "stopping"
    /\ phase' = "closed"
    /\ cancelled' = [c \in Calls |-> cancelled[c] \/ c \in jobs]
    /\ UNCHANGED <<waiter, jobs, thread, submitted, terminal, outcome, done, finished, ollama>>

-----------------------------------------------------------------------------
(* The thread of a call: explain_operation().                              *)

\* Index, source, retrieval and metadata, with state.check() between them.
Prepare(c) ==
    /\ thread[c] = "preparing" /\ ~cancelled[c]
    /\ thread' = [thread EXCEPT ![c] = "prepared"]
    /\ UNCHANGED <<waiter, jobs, callState, outcome, done, finished, phase, ollama>>

\* A check finds the call cancelled, or a stage raises, before begin().
PrepareFails(c) ==
    /\ thread[c] \in {"preparing", "prepared"}
    /\ thread' = [thread EXCEPT ![c] = "over"]
    /\ outcome' = [outcome EXCEPT ![c] = "failure"]
    /\ UNCHANGED <<waiter, jobs, callState, done, finished, phase, ollama>>

\* Seeded fault: begin() does not look at cancelled.
BeginAnyway(c) ==
    /\ thread[c] = "prepared"
    /\ submitted' = [submitted EXCEPT ![c] = TRUE]
    /\ thread' = [thread EXCEPT ![c] = "begun"]
    /\ UNCHANGED <<waiter, jobs, cancelled, terminal, outcome, done, finished, phase, ollama>>

\* begin() tests cancelled and sets submitted under one lock, which it gives
\* back before anything is sent.
Begin(c) ==
    /\ thread[c] = "prepared" /\ ~cancelled[c]
    /\ submitted' = [submitted EXCEPT ![c] = TRUE]
    /\ thread' = [thread EXCEPT ![c] = "begun"]
    /\ UNCHANGED <<waiter, jobs, cancelled, terminal, outcome, done, finished, phase, ollama>>

\* generate() posts, whatever became of the call since begin(); from here on
\* Ollama may be generating.
Post(c) ==
    /\ thread[c] = "begun"
    /\ thread' = [thread EXCEPT ![c] = "calling"]
    /\ ollama' = [ollama EXCEPT ![c] = "running"]
    /\ UNCHANGED <<waiter, jobs, callState, outcome, done, finished, phase>>

\* A response with done: true was read.
CallDone(c) ==
    /\ thread[c] = "calling" /\ ollama[c] = "ended"
    /\ terminal' = [terminal EXCEPT ![c] = TRUE]
    /\ thread' = [thread EXCEPT ![c] = "parsing"]
    /\ UNCHANGED <<waiter, jobs, cancelled, submitted, outcome, done, finished, phase, ollama>>

\* Ollama refused the call (HTTP 503, 404) or was not reached: nothing runs.
CallRejected(c) ==
    /\ thread[c] = "calling" /\ ollama[c] = "running"
    /\ ollama' = [ollama EXCEPT ![c] = "ended"]
    /\ terminal' = [terminal EXCEPT ![c] = TRUE]
    /\ thread' = [thread EXCEPT ![c] = "over"]
    /\ outcome' = [outcome EXCEPT ![c] = "failure"]
    /\ UNCHANGED <<waiter, jobs, cancelled, submitted, done, finished, phase>>

\* A read timeout, a broken, oversized or unreadable answer, or one without
\* done: whether Ollama still generates is not known.
CallUnknown(c) ==
    /\ thread[c] = "calling"
    /\ thread' = [thread EXCEPT ![c] = "over"]
    /\ outcome' = [outcome EXCEPT ![c] = "failure"]
    /\ UNCHANGED <<waiter, jobs, callState, done, finished, phase, ollama>>

\* The answer passes the mechanical validation, or not.
Parse(c) ==
    /\ thread[c] = "parsing"
    /\ thread' = [thread EXCEPT ![c] = "over"]
    /\ \E o \in {"result", "failure"} : outcome' = [outcome EXCEPT ![c] = o]
    /\ UNCHANGED <<waiter, jobs, callState, done, finished, phase, ollama>>

-----------------------------------------------------------------------------
\* Ollama ends a generation, whoever waits for it.
OllamaEnds(c) ==
    /\ ollama[c] = "running"
    /\ ollama' = [ollama EXCEPT ![c] = "ended"]
    /\ UNCHANGED <<waiter, jobs, thread, callState, outcome, done, finished, phase>>

Next ==
    \/ Stop \/ Close
    \/ \E c \in Calls :
        \/ Admit(c) \/ Refuse(c) \/ GiveUp(c) \/ Answer(c)
        \/ FutureDone(c) \/ Finished(c)
        \/ Prepare(c) \/ PrepareFails(c) \/ Begin(c) \/ Post(c)
        \/ CallDone(c) \/ CallRejected(c) \/ CallUnknown(c) \/ Parse(c)
        \/ OllamaEnds(c)

Spec == Init /\ [][Next]_vars

\* The loop runs what is scheduled on it and the deadline of a waiter passes;
\* a thread goes on, its calls to Ollama being bounded by timeouts.  Nothing is
\* assumed of Ollama, of clients or of shutdown.
ThreadStep(c) ==
    Prepare(c) \/ PrepareFails(c) \/ Begin(c) \/ Post(c) \/ CallDone(c)
        \/ CallRejected(c) \/ CallUnknown(c) \/ Parse(c)

Fairness ==
    \A c \in Calls :
        /\ WF_vars(GiveUp(c) \/ Answer(c))
        /\ WF_vars(FutureDone(c)) /\ WF_vars(Finished(c))
        /\ WF_vars(ThreadStep(c))

FairSpec == Spec /\ Fairness

-----------------------------------------------------------------------------
(* What the service guarantees.                                            *)

\* A call keeps its slot until its thread is over and Ollama does not generate for
\* it, also when the client has gone, the thread has ended or the service is being
\* closed. So Ollama never works for more than Limit calls of this service, and an
\* admitted call runs at once: the pool queues none that close() would cancel.
GenerationsAreOwned ==
    /\ \A c \in Calls : thread[c] # "none" /\ c \notin jobs =>
           thread[c] = "over" /\ finished[c] /\ ollama[c] # "running"
    /\ Cardinality({c \in Calls : ollama[c] = "running"}) <= Limit
    /\ Cardinality({c \in Calls : thread[c] \notin {"none", "over"}}) <= Limit

\* Ollama generates for the call, or will: its thread is past begin().
MayGenerate(c) == ollama[c] = "running" \/ thread[c] = "begun"

\* No replacement: a call is admitted only when everybody for whom Ollama may be
\* generating, or is about to, is still waiting for the answer.
NoReplacement ==
    [][\A c \in Calls : c \in jobs' \ jobs =>
        \A d \in Calls : MayGenerate(d) => waiter[d] = "waiting"]_vars

\* begin() is passed by no call whose client was already told it failed, and by
\* none after the service was closed.
NoBeginAfterCancel ==
    [][\A c \in Calls : ~submitted[c] /\ submitted'[c] =>
        waiter[c] = "waiting" /\ phase # "closed"]_vars

\* Between begin() and the POST the client may be told 504 and the service closed:
\* inference that starts then is of a call still owned, and the service is in
\* recovery before and after, so that nothing is admitted beside it.
LateInferenceIsInDoubt ==
    [][\A c \in Calls :
        /\ ollama[c] = "idle" /\ ollama'[c] = "running"
        /\ waiter[c] = "answered" \/ phase = "closed"
        => c \in jobs /\ Recovery /\ c \in jobs' /\ Recovery']_vars

\* Every admitted call is answered.
EveryCallIsAnswered == \A c \in Calls : waiter[c] = "waiting" ~> waiter[c] = "answered"

\* A slot comes back once the end of the generation is known, even when that was
\* learnt after the deadline: recovery is not for ever when the call is certain.
SlotsComeBack == \A c \in Calls :
    (c \in jobs) ~> (c \notin jobs \/ (Uncertain(c) /\ thread[c] = "over"))

\* What nobody waits for any more passes no begin(), and if it had passed it then
\* it is generated under recovery, beside no newcomer, whatever the deadline, a
\* disconnect or shutdown did between a look and the step (begin, chat, close).
OwnershipIsRespected == NoReplacement /\ NoBeginAfterCancel /\ LateInferenceIsInDoubt

\* A call is answered by its deadline and its slot comes back once the end of its
\* generation is known, in whichever order thread, callback and waiter go
\* (chat, _finished).
CallsSettle == EveryCallIsAnswered /\ SlotsComeBack
=============================================================================
