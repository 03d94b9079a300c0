------------------------ MODULE PrivateServiceProofs ------------------------
(***************************************************************************)
(* Theorems about the chat calls and the readiness of the private          *)
(* assistant service, for any number of calls and askers and any pool.     *)
(***************************************************************************)
EXTENDS PrivateReadiness, FiniteSetTheorems, TLAPS

-----------------------------------------------------------------------------
(* The inductive invariant of the chat calls.                              *)

\* The three parts of a call go together: what its thread has reached says what
\* the flags of CallState are, and those what Ollama may be doing.
ThreadFits(c) ==
    /\ thread[c] \in {"none", "preparing", "prepared"} => ~submitted[c]
    /\ thread[c] \in {"begun", "calling"} => submitted[c] /\ ~terminal[c]
    /\ thread[c] = "parsing" => submitted[c] /\ terminal[c]
    /\ terminal[c] => submitted[c] /\ ollama[c] = "ended"
    /\ ollama[c] # "idle" <=> submitted[c] /\ thread[c] # "begun"
    /\ done[c] => thread[c] = "over"
    /\ finished[c] => done[c]

\* A call is owned from its admission to the callback of its future, and for good
\* when that callback does not know how the generation ended.
Ownership(c) ==
    c \in jobs <=> thread[c] # "none" /\ (finished[c] => Uncertain(c))

\* A client that went before the end left the call cancelled, and so did the end
\* of the service.
WaiterFits(c) ==
    /\ thread[c] = "none" <=> waiter[c] \in {"new", "refused"}
    /\ waiter[c] = "answered" => cancelled[c] \/ done[c]
    /\ phase = "closed" /\ c \in jobs => cancelled[c]

CallInv(c) == ThreadFits(c) /\ Ownership(c) /\ WaiterFits(c)

IInv == TypeOK /\ \A c \in Calls : CallInv(c)

LEMMA JobsAreFinite ==
    ASSUME IInv
    PROVE  IsFiniteSet(jobs) /\ Cardinality(jobs) \in Nat
  BY CallsAssumption, FS_Subset, FS_CardinalityType DEF IInv, TypeOK

LEMMA InitInv == Init => IInv
<1> SUFFICES ASSUME Init PROVE IInv
  OBVIOUS
<1>1. TypeOK
  BY LimitAssumption, FS_EmptySet DEF Init, TypeOK
<1>2. \A c \in Calls : CallInv(c)
  BY DEF Init, CallInv, ThreadFits, Ownership, WaiterFits, Uncertain
<1> QED BY <1>1, <1>2 DEF IInv

\* What a step leaves alone of a call keeps what the invariant says of it.
LEMMA OtherCalls ==
    ASSUME IInv, NEW c \in Calls, CallInv(c),
           /\ waiter'[c] = waiter[c] /\ thread'[c] = thread[c]
           /\ cancelled'[c] = cancelled[c] /\ submitted'[c] = submitted[c]
           /\ terminal'[c] = terminal[c] /\ done'[c] = done[c]
           /\ finished'[c] = finished[c] /\ ollama'[c] = ollama[c]
           /\ c \in jobs' <=> c \in jobs,
           phase' = "closed" => phase = "closed"
    PROVE  CallInv(c)'
  BY DEF CallInv, ThreadFits, Ownership, WaiterFits, Uncertain

-----------------------------------------------------------------------------
(* One lemma per actor.                                                    *)

LEMMA LoopSteps ==
    ASSUME IInv, NEW c \in Calls,
           \/ Admit(c) \/ Refuse(c) \/ GiveUp(c) \/ Answer(c)
           \/ FutureDone(c) \/ Finished(c)
    PROVE  IInv'
<1>1. CASE Admit(c)
  <2>1. Cardinality(jobs') <= Limit
    <3>1. c \notin jobs
      BY <1>1 DEF IInv, CallInv, Ownership, WaiterFits, Admit
    <3>2. Cardinality(jobs') = Cardinality(jobs) + 1
      BY <1>1, <3>1, JobsAreFinite, FS_AddElement DEF Admit
    <3> QED BY <1>1, <3>2, JobsAreFinite, LimitAssumption DEF Admit, HasCapacity
  <2>2. TypeOK'
    BY <1>1, <2>1 DEF IInv, TypeOK, Admit, callState
  <2>3. CallInv(c)'
    BY <1>1 DEF IInv, TypeOK, CallInv, ThreadFits, Ownership, WaiterFits, Uncertain, Admit, callState
  <2>4. ASSUME NEW d \in Calls, d # c PROVE CallInv(d)'
    BY <1>1, <2>4, OtherCalls DEF IInv, TypeOK, Admit, callState
  <2> QED BY <2>2, <2>3, <2>4 DEF IInv
<1>2. CASE Refuse(c)
  <2>1. TypeOK'
    BY <1>2 DEF IInv, TypeOK, Refuse, callState
  <2>2. CallInv(c)'
    BY <1>2 DEF IInv, TypeOK, CallInv, ThreadFits, Ownership, WaiterFits, Uncertain, Refuse, callState
  <2>3. ASSUME NEW d \in Calls, d # c PROVE CallInv(d)'
    BY <1>2, <2>3, OtherCalls DEF IInv, TypeOK, Refuse, callState
  <2> QED BY <2>1, <2>2, <2>3 DEF IInv
<1>3. CASE GiveUp(c)
  <2>1. TypeOK'
    BY <1>3 DEF IInv, TypeOK, GiveUp
  <2>2. CallInv(c)'
    BY <1>3 DEF IInv, TypeOK, CallInv, ThreadFits, Ownership, WaiterFits, Uncertain, GiveUp
  <2>3. ASSUME NEW d \in Calls, d # c PROVE CallInv(d)'
    BY <1>3, <2>3, OtherCalls DEF IInv, TypeOK, GiveUp
  <2> QED BY <2>1, <2>2, <2>3 DEF IInv
<1>4. CASE Answer(c)
  <2>1. TypeOK'
    BY <1>4 DEF IInv, TypeOK, Answer, callState
  <2>2. CallInv(c)'
    BY <1>4 DEF IInv, TypeOK, CallInv, ThreadFits, Ownership, WaiterFits, Uncertain, Answer, callState
  <2>3. ASSUME NEW d \in Calls, d # c PROVE CallInv(d)'
    BY <1>4, <2>3, OtherCalls DEF IInv, TypeOK, Answer, callState
  <2> QED BY <2>1, <2>2, <2>3 DEF IInv
<1>5. CASE FutureDone(c)
  <2>1. TypeOK'
    BY <1>5 DEF IInv, TypeOK, FutureDone, callState
  <2>2. CallInv(c)'
    BY <1>5 DEF IInv, TypeOK, CallInv, ThreadFits, Ownership, WaiterFits, Uncertain, FutureDone, callState
  <2>3. ASSUME NEW d \in Calls, d # c PROVE CallInv(d)'
    BY <1>5, <2>3, OtherCalls DEF IInv, TypeOK, FutureDone, callState
  <2> QED BY <2>1, <2>2, <2>3 DEF IInv
<1>6. CASE Finished(c)
  <2>1. Cardinality(jobs') <= Limit
    <3>1. Cardinality(jobs \ {c}) \in Nat /\ Cardinality(jobs \ {c}) <= Cardinality(jobs)
      BY JobsAreFinite, FS_Subset, FS_CardinalityType
    <3> QED BY <1>6, <3>1, JobsAreFinite, LimitAssumption DEF IInv, TypeOK, Finished
  <2>2. TypeOK'
    BY <1>6, <2>1 DEF IInv, TypeOK, Finished, callState
  <2>3. CallInv(c)'
    BY <1>6 DEF IInv, TypeOK, CallInv, ThreadFits, Ownership, WaiterFits, Uncertain, Finished, callState
  <2>4. ASSUME NEW d \in Calls, d # c PROVE CallInv(d)'
    BY <1>6, <2>4, OtherCalls DEF IInv, TypeOK, Finished, callState
  <2> QED BY <2>2, <2>3, <2>4 DEF IInv
<1> QED BY <1>1, <1>2, <1>3, <1>4, <1>5, <1>6

LEMMA ShutdownSteps ==
    ASSUME IInv, Stop \/ Close
    PROVE  IInv'
<1>1. CASE Stop
  <2>1. TypeOK'
    BY <1>1 DEF IInv, TypeOK, Stop, callState
  <2>2. ASSUME NEW c \in Calls PROVE CallInv(c)'
    BY <1>1, OtherCalls DEF IInv, Stop, callState
  <2> QED BY <2>1, <2>2 DEF IInv
<1>2. CASE Close
  <2>1. TypeOK'
    BY <1>2 DEF IInv, TypeOK, Close
  <2>2. ASSUME NEW c \in Calls PROVE CallInv(c)'
    BY <1>2 DEF IInv, TypeOK, CallInv, ThreadFits, Ownership, WaiterFits, Uncertain, Close
  <2> QED BY <2>1, <2>2 DEF IInv
<1> QED BY <1>1, <1>2

LEMMA ThreadSteps ==
    ASSUME IInv, NEW c \in Calls, ThreadStep(c) \/ OllamaEnds(c)
    PROVE  IInv'
<1>1. TypeOK'
  <2>1. CASE Prepare(c) \/ PrepareFails(c) \/ CallUnknown(c)
    BY <2>1 DEF IInv, TypeOK, Prepare, PrepareFails, CallUnknown, callState
  <2>2. CASE Begin(c) \/ CallDone(c) \/ CallRejected(c)
    BY <2>2 DEF IInv, TypeOK, Begin, CallDone, CallRejected
  <2>5. CASE Post(c)
    BY <2>5 DEF IInv, TypeOK, Post, callState
  <2>3. CASE Parse(c)
    BY <2>3 DEF IInv, TypeOK, Parse, callState
  <2>4. CASE OllamaEnds(c)
    BY <2>4 DEF IInv, TypeOK, OllamaEnds, callState
  <2> QED BY <2>1, <2>2, <2>3, <2>4, <2>5 DEF ThreadStep
<1>2. CallInv(c)'
  <2> USE DEF IInv, TypeOK, CallInv, ThreadFits, Ownership, WaiterFits, Uncertain
  <2>1. CASE Prepare(c) \/ PrepareFails(c) \/ CallUnknown(c)
    BY <2>1 DEF Prepare, PrepareFails, CallUnknown, callState
  <2>2. CASE Begin(c) \/ CallDone(c) \/ CallRejected(c)
    BY <2>2 DEF Begin, CallDone, CallRejected
  <2>5. CASE Post(c)
    BY <2>5 DEF Post, callState
  <2>3. CASE Parse(c)
    BY <2>3 DEF Parse, callState
  <2>4. CASE OllamaEnds(c)
    BY <2>4 DEF OllamaEnds, callState
  <2> QED BY <2>1, <2>2, <2>3, <2>4, <2>5 DEF ThreadStep
<1>3. ASSUME NEW d \in Calls, d # c PROVE CallInv(d)'
  BY <1>3, OtherCalls
     DEF IInv, TypeOK, ThreadStep, Prepare, PrepareFails, Begin, Post, CallDone,
         CallRejected, CallUnknown, Parse, OllamaEnds, callState
<1> QED BY <1>1, <1>2, <1>3 DEF IInv

LEMMA NextInv == IInv /\ [Next]_vars => IInv'
<1> SUFFICES ASSUME IInv, [Next]_vars PROVE IInv'
  OBVIOUS
<1>1. CASE UNCHANGED vars
  <2>1. TypeOK'
    BY <1>1 DEF IInv, TypeOK, vars, callState
  <2>2. ASSUME NEW c \in Calls PROVE CallInv(c)'
    BY <1>1, OtherCalls DEF IInv, vars, callState
  <2> QED BY <2>1, <2>2 DEF IInv
<1>2. CASE Next
  BY <1>2, LoopSteps, ShutdownSteps, ThreadSteps DEF Next, ThreadStep
<1> QED BY <1>1, <1>2

THEOREM Invariance == Spec => []IInv
  BY InitInv, NextInv, PTL DEF Spec

-----------------------------------------------------------------------------
(* What follows for the calls.                                             *)

\* Every variable keeps its type, and no more calls are owned than the pool has
\* threads (Service.chat).
THEOREM TypeCorrect == Spec => []TypeOK
<1>1. IInv => TypeOK
  BY DEF IInv
<1> QED BY <1>1, Invariance, PTL

LEMMA WorkIsOwned ==
    ASSUME IInv, NEW c \in Calls,
           ollama[c] = "running" \/ thread[c] \notin {"none", "over"}
    PROVE  c \in jobs
  BY DEF IInv, CallInv, ThreadFits, Ownership, Uncertain

LEMMA NoMoreThanOwned ==
    ASSUME IInv, NEW S \in SUBSET Calls, S \subseteq jobs
    PROVE  Cardinality(S) <= Limit
<1>1. Cardinality(S) \in Nat /\ Cardinality(S) <= Cardinality(jobs)
  BY JobsAreFinite, FS_Subset, FS_CardinalityType
<1> QED BY <1>1, JobsAreFinite, LimitAssumption DEF IInv, TypeOK

\* Ollama generates, and threads work, for owned calls only, and so for no more
\* than Limit of them, whoever gave up and however a generation ended (chat,
\* _finished, explain_operation).
THEOREM GenerationsStayOwned == Spec => []GenerationsAreOwned
<1>1. IInv => GenerationsAreOwned
  <2> SUFFICES ASSUME IInv PROVE GenerationsAreOwned
    OBVIOUS
  <2>1. ASSUME NEW c \in Calls, thread[c] # "none", c \notin jobs
        PROVE  thread[c] = "over" /\ finished[c] /\ ollama[c] # "running"
    BY <2>1, WorkIsOwned DEF IInv, TypeOK, CallInv, ThreadFits, Ownership
  <2>2. Cardinality({c \in Calls : ollama[c] = "running"}) <= Limit
    BY WorkIsOwned, NoMoreThanOwned
  <2>3. Cardinality({c \in Calls : thread[c] \notin {"none", "over"}}) <= Limit
    BY WorkIsOwned, NoMoreThanOwned
  <2> QED BY <2>1, <2>2, <2>3 DEF GenerationsAreOwned
<1> QED BY <1>1, Invariance, PTL

Replaces == \E c \in Calls : c \in jobs' \ jobs
AllStillWaitedFor == \A d \in Calls : MayGenerate(d) => waiter[d] = "waiting"

\* When no owned call is in doubt, a client waits for every generation.
LEMMA DoubtIsRecovery ==
    ASSUME IInv, ~Recovery
    PROVE  AllStillWaitedFor
<1> SUFFICES ASSUME NEW d \in Calls, MayGenerate(d)
             PROVE  waiter[d] = "waiting"
  BY DEF AllStillWaitedFor
<1>1. Uncertain(d) /\ d \in jobs
  BY WorkIsOwned DEF IInv, TypeOK, CallInv, ThreadFits, Uncertain, MayGenerate
<1>2. ~cancelled[d] /\ ~done[d]
  BY <1>1 DEF Recovery
<1> QED BY <1>1, <1>2
        DEF IInv, TypeOK, CallInv, ThreadFits, WaiterFits, Uncertain, MayGenerate

LEMMA AdmissionReplacesNobody ==
    ASSUME IInv, [Next]_vars, NEW c \in Calls, c \in jobs' \ jobs
    PROVE  AllStillWaitedFor
<1>1. PICK d \in Calls : Admit(d)
  BY DEF Next, vars, Stop, Close, Refuse, GiveUp, Answer, FutureDone, Finished, Prepare,
         PrepareFails, Begin, Post, CallDone, CallRejected, CallUnknown, Parse, OllamaEnds
<1> QED BY <1>1, DoubtIsRecovery DEF Admit

LEMMA BeginHasItsClient ==
    ASSUME IInv, [Next]_vars, NEW c \in Calls, ~submitted[c], submitted'[c]
    PROVE  waiter[c] = "waiting" /\ phase # "closed"
<1>1. Begin(c)
  BY DEF IInv, TypeOK, Next, vars, callState, Stop, Close, Admit, Refuse, GiveUp, Answer,
         FutureDone, Finished, Prepare, PrepareFails, Begin, Post, CallDone, CallRejected,
         CallUnknown, Parse, OllamaEnds
<1>2. thread[c] = "prepared" /\ ~cancelled[c] /\ ~done[c] /\ c \in jobs
  BY <1>1, WorkIsOwned DEF Begin, IInv, CallInv, ThreadFits
<1> QED BY <1>2 DEF IInv, TypeOK, CallInv, WaiterFits

\* Who is answered while its thread goes on was cancelled, and so was what close()
\* left; a call past begin() and cancelled is what recovery counts.
LEMMA LateInferenceHasItsCall ==
    ASSUME IInv, [Next]_vars, NEW c \in Calls, ollama[c] = "idle", ollama'[c] = "running",
           waiter[c] = "answered" \/ phase = "closed"
    PROVE  c \in jobs /\ Recovery /\ c \in jobs' /\ Recovery'
<1>1. Post(c)
  BY DEF IInv, TypeOK, Next, vars, Stop, Close, Admit, Refuse, GiveUp, Answer, FutureDone,
         Finished, Prepare, PrepareFails, Begin, Post, CallDone, CallRejected, CallUnknown,
         Parse, OllamaEnds
<1>2. c \in jobs /\ Uncertain(c) /\ ~done[c]
  BY <1>1, WorkIsOwned DEF Post, IInv, CallInv, ThreadFits, Uncertain
<1>3. cancelled[c]
  BY <1>2 DEF IInv, TypeOK, CallInv, WaiterFits
<1>4. c \in jobs' /\ Uncertain(c)' /\ cancelled'[c]
  BY <1>1, <1>2, <1>3 DEF Post, callState, Uncertain
<1> QED BY <1>2, <1>3, <1>4 DEF Recovery

\* No call is admitted beside a generation, begun or about to begin, that nobody
\* waits for; begin() is passed by no call answered or left by close(); and what
\* passed it just before is posted under recovery (chat, begin, generate, close).
THEOREM OwnershipStaysRespected == Spec => OwnershipIsRespected
<1>1. IInv /\ [Next]_vars =>
        [\A c \in Calls : c \in jobs' \ jobs =>
            \A d \in Calls : MayGenerate(d) => waiter[d] = "waiting"]_vars
  BY AdmissionReplacesNobody DEF AllStillWaitedFor
<1>2. IInv /\ [Next]_vars =>
        [\A c \in Calls : ~submitted[c] /\ submitted'[c] =>
            waiter[c] = "waiting" /\ phase # "closed"]_vars
  BY BeginHasItsClient
<1>3. IInv /\ [Next]_vars =>
        [\A c \in Calls :
            /\ ollama[c] = "idle" /\ ollama'[c] = "running"
            /\ waiter[c] = "answered" \/ phase = "closed"
            => c \in jobs /\ Recovery /\ c \in jobs' /\ Recovery']_vars
  BY LateInferenceHasItsCall
<1> QED BY <1>1, <1>2, <1>3, Invariance, PTL
        DEF Spec, OwnershipIsRespected, NoReplacement, NoBeginAfterCancel, LateInferenceIsInDoubt

-----------------------------------------------------------------------------
(* Readiness beside the calls.                                             *)

LEMMA StepOfCalls ==
    ASSUME [ServiceNext]_serviceVars
    PROVE  [Next]_vars
<1>1. CASE UNCHANGED serviceVars
  BY <1>1 DEF serviceVars
<1>2. ASSUME NEW c \in Calls, ChatStep(c) PROVE Next
  BY <1>2 DEF ChatStep, ThreadStep, Next
<1>3. CASE (Stop \/ Close) /\ UNCHANGED readinessVars
  BY <1>3 DEF Next
<1>4. ASSUME NEW a \in Askers, AskAnsweredAtOnce(a) \/ AskProbe(a) \/ Wake(a) \/ AskTimesOut(a)
      PROVE  UNCHANGED vars
  BY <1>4 DEF AskAnsweredAtOnce, AskProbe, Wake, AskTimesOut
<1>5. CASE Expire \/ ProbeEnds
  BY <1>5 DEF Expire, ProbeEnds
<1> QED BY <1>1, <1>2, <1>3, <1>4, <1>5 DEF ServiceNext

\* The service with GET /readyz makes no step of the calls that the calls alone
\* could not make, so that what holds of the calls holds beside readiness.
THEOREM ReadinessKeepsCalls == ServiceSpec => Spec
<1>1. ServiceInit => Init
  BY DEF ServiceInit
<1>2. [ServiceNext]_serviceVars => [Next]_vars
  BY StepOfCalls
<1> QED BY <1>1, <1>2, PTL DEF ServiceSpec, Spec

LEMMA ReadinessTyped ==
    ASSUME ReadinessTypeOK, TypeOK', [ServiceNext]_serviceVars
    PROVE  ReadinessTypeOK'
<1>1. CASE UNCHANGED readinessVars
  BY <1>1 DEF ReadinessTypeOK, readinessVars, Subjects
<1>2. CASE Invalidate
  BY <1>2 DEF ReadinessTypeOK, Invalidate, Subjects
<1>3. CASE Expire
  BY <1>3 DEF ReadinessTypeOK, Expire
<1>4. CASE ProbeEnds
  BY <1>4 DEF ReadinessTypeOK, ProbeEnds
<1>5. ASSUME NEW a \in Askers, AskAnsweredAtOnce(a)
      PROVE  ReadinessTypeOK'
  BY <1>5 DEF ReadinessTypeOK, AskAnsweredAtOnce, Verdict
<1>6. ASSUME NEW a \in Askers, AskProbe(a)
      PROVE  ReadinessTypeOK'
  <2>1. asker' \in [Askers -> {"new", "waiting", "woken", "ready", "unready"}]
    BY <1>6 DEF ReadinessTypeOK, AskProbe
  <2>2. overtaken' \subseteq Subjects
    BY <1>6 DEF ReadinessTypeOK, AskProbe, Subjects
  <2>3. probeDone' \in BOOLEAN /\ threads' = IF probeDone' THEN 0 ELSE 1
    <3>1. CASE probeDone
      <4>1. probeDone' = FALSE /\ threads' = 1
        BY <1>6, <3>1 DEF ReadinessTypeOK, AskProbe
      <4> QED BY <4>1
    <3>2. CASE ~probeDone
      <4>1. probeDone' = probeDone /\ threads' = threads
        BY <1>6, <3>2 DEF AskProbe
      <4> QED BY <4>1 DEF ReadinessTypeOK
    <3> QED BY <3>1, <3>2
  <2> QED BY <1>6, <2>1, <2>2, <2>3 DEF ReadinessTypeOK, AskProbe
<1>7. ASSUME NEW a \in Askers, Wake(a) \/ AskTimesOut(a)
      PROVE  ReadinessTypeOK'
  <2>1. asker' \in [Askers -> {"new", "waiting", "woken", "ready", "unready"}]
    BY <1>7 DEF ReadinessTypeOK, Wake, AskTimesOut, Verdict
  <2>2. PICK value \in BOOLEAN : Remember(a, value)
    BY <1>7 DEF ReadinessTypeOK, Wake, AskTimesOut
  <2>3. overtaken' \subseteq Subjects /\ readyValue' \in BOOLEAN /\ fresh' \in BOOLEAN
    BY <2>2 DEF ReadinessTypeOK, Remember, Subjects
  <2>4. UNCHANGED <<got, probeDone, threads>>
    BY <1>7 DEF Wake, AskTimesOut
  <2> QED BY <2>1, <2>3, <2>4 DEF ReadinessTypeOK
<1> QED BY <1>1, <1>2, <1>3, <1>4, <1>5, <1>6, <1>7 DEF ServiceNext, ChatStep, serviceVars

\* Every variable of readiness keeps its type, and no probe waits behind another:
\* the one thread of the probe pool has work exactly while a probe is not done,
\* though askers time out and probes hang (readiness, _probe).
THEOREM ReadinessTypeCorrect == ServiceSpec => []ReadinessTypeOK
<1>1. ServiceInit /\ TypeOK => ReadinessTypeOK
  BY DEF ServiceInit, ReadinessInit, ReadinessTypeOK
<1>2. ReadinessTypeOK /\ TypeOK' /\ [ServiceNext]_serviceVars => ReadinessTypeOK'
  BY ReadinessTyped
<1> QED BY <1>1, <1>2, ReadinessKeepsCalls, TypeCorrect, PTL DEF ServiceSpec

\* "Ready" is answered in no state that forbids it, although the answer is given
\* after an await in which calls fail and the service stops (readiness).
THEOREM ReadyIsAnsweredSafely == ServiceSpec => ReadyAnswerIsSafe
<1>1. ReadinessTypeOK /\ [ServiceNext]_serviceVars =>
        [\A a \in Askers : asker[a] # "ready" /\ asker'[a] = "ready" =>
            ~Recovery /\ phase = "open"]_serviceVars
  <2> SUFFICES ASSUME ReadinessTypeOK, ServiceNext, NEW a \in Askers,
                      asker[a] # "ready", asker'[a] = "ready"
               PROVE  ~Recovery /\ phase = "open"
    OBVIOUS
  <2>1. ~UNCHANGED asker
    OBVIOUS
  <2>2. ~ProbeEnds
    BY DEF ReadinessTypeOK, ProbeEnds
  <2>3. PICK b \in Askers :
          AskAnsweredAtOnce(b) \/ AskProbe(b) \/ Wake(b) \/ AskTimesOut(b)
    BY <2>1, <2>2 DEF ServiceNext, ChatStep, Invalidate, readinessVars, Expire
  <2>4. a = b /\ (AskAnsweredAtOnce(b) \/ Wake(b))
    BY <2>3 DEF ReadinessTypeOK, AskAnsweredAtOnce, AskProbe, Wake, AskTimesOut
  <2>5. CASE AskAnsweredAtOnce(b)
    BY <2>4, <2>5 DEF ReadinessTypeOK, AskAnsweredAtOnce, Verdict
  <2>6. CASE Wake(b)
    BY <2>4, <2>6 DEF ReadinessTypeOK, Wake, Verdict
  <2> QED BY <2>4, <2>5, <2>6
<1> QED BY <1>1, ReadinessTypeCorrect, PTL DEF ServiceSpec, ReadyAnswerIsSafe

\* The two promises of the calls, beside readiness.
THEOREM GenerationsOwnedBesideReadiness == ServiceSpec => []GenerationsAreOwned
  BY ReadinessKeepsCalls, GenerationsStayOwned, PTL

THEOREM OwnershipRespectedBesideReadiness == ServiceSpec => OwnershipIsRespected
  BY ReadinessKeepsCalls, OwnershipStaysRespected, PTL
=============================================================================
