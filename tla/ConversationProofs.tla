------------------------- MODULE ConversationProofs -------------------------
(***************************************************************************)
(* Theorems about the conversation core, for any sessions and requests.    *)
(***************************************************************************)
EXTENDS Conversation, SequenceTheorems, TLAPS

-----------------------------------------------------------------------------
(* The inductive invariant.                                                *)

\* A running turn owns the runtime object of its session, and no turn has
\* changed that object since it captured its context.
Claims ==
  \A r \in Requests : call[r].phase = "generating" =>
    /\ call[r].session \in Sessions
    /\ runtime[call[r].session] # NoObject
    /\ runtime[call[r].session].busy
    /\ call[r].context = runtime[call[r].session].history

OneTurnPerSession ==
  \A q, r \in Requests :
    /\ call[q].phase = "generating" /\ call[r].phase = "generating"
    /\ call[q].session = call[r].session
    => q = r

Call == [phase : Phases, session : Sessions \cup {NoSession}, context : Seq(Requests)]

\* What is saved comes from turns that have ended.
Settled ==
  \A s \in Sessions : stored[s] # Absent =>
    \A r \in Elements(stored[s]) : call[r].phase \notin {"waiting", "generating"}

\* The set of turns an object holds is what the store has, but for doubt.
Follows ==
  \A s \in Sessions : stored[s] # Absent /\ runtime[s] # NoObject =>
    /\ Elements(stored[s]) \subseteq Elements(runtime[s].history) \cup doubtful
    /\ Elements(runtime[s].history) \subseteq Elements(stored[s])

\* A deleted session has no row.
Gone == \A s \in deleted : stored[s] = Absent

\* A request that has been answered or is under way names a session.
Addressed ==
  \A r \in Requests : call[r].phase # "waiting" => call[r].session \in Sessions

IInv == /\ TypeOK /\ Addressed /\ Claims /\ OneTurnPerSession /\ Settled /\ Follows /\ Gone
        /\ ContextIsComplete /\ AnswersTellTheTruth

-----------------------------------------------------------------------------
\* A history stays complete when its turns keep their contexts and the
\* exceptions only grow.
LEMMA SeenStaysSeen ==
  ASSUME NEW h, NEW calls, NEW later, NEW excepted, NEW wider,
         SeesAllBefore(h, calls, excepted),
         \A j \in DOMAIN h : later[h[j]].context = calls[h[j]].context,
         excepted \subseteq wider
  PROVE  SeesAllBefore(h, later, wider)
<1> SUFFICES ASSUME NEW j \in DOMAIN h
    PROVE  /\ \A i \in 1..(j - 1) : h[i] \in Elements(later[h[j]].context) \cup wider
           /\ Elements(later[h[j]].context) \subseteq {h[i] : i \in 1..(j - 1)}
  BY DEF SeesAllBefore
<1>1. /\ \A i \in 1..(j - 1) : h[i] \in Elements(calls[h[j]].context) \cup excepted
      /\ Elements(calls[h[j]].context) \subseteq {h[i] : i \in 1..(j - 1)}
  BY DEF SeesAllBefore
<1>2. later[h[j]].context = calls[h[j]].context
  OBVIOUS
<1>3. \A i \in 1..(j - 1) : h[i] \in Elements(later[h[j]].context) \cup wider
  BY <1>1, <1>2
<1> QED BY <1>1, <1>2, <1>3

LEMMA ElementsOfAppend ==
  ASSUME NEW S, NEW h \in Seq(S), NEW x \in S
  PROVE  /\ Elements(Append(h, x)) = Elements(h) \cup {x}
         /\ Elements(h) \subseteq S
         /\ Append(h, x) \in Seq(S)
         /\ Len(Append(h, x)) = Len(h) + 1
         /\ DOMAIN h = 1..Len(h) /\ DOMAIN Append(h, x) = 1..(Len(h) + 1)
         /\ \A i \in 1..Len(h) : Append(h, x)[i] = h[i]
         /\ Append(h, x)[Len(h) + 1] = x
<1>1. /\ Append(h, x) \in Seq(S) /\ Len(Append(h, x)) = Len(h) + 1
      /\ DOMAIN h = 1..Len(h) /\ DOMAIN Append(h, x) = 1..(Len(h) + 1)
      /\ \A i \in 1..Len(h) : Append(h, x)[i] = h[i] /\ h[i] \in S
      /\ Append(h, x)[Len(h) + 1] = x /\ Len(h) \in Nat
  OBVIOUS
<1>2. Elements(Append(h, x)) = Elements(h) \cup {x}
  <2>1. \A i \in 1..(Len(h) + 1) : i \in 1..Len(h) \/ i = Len(h) + 1
    BY <1>1
  <2>2. 1..Len(h) \subseteq 1..(Len(h) + 1) /\ Len(h) + 1 \in 1..(Len(h) + 1)
    BY <1>1
  <2> QED BY <1>1, <2>1, <2>2, Zenon DEF Elements
<1>3. Elements(h) \subseteq S
  BY <1>1 DEF Elements
<1> QED BY <1>1, <1>2, <1>3

\* A step that leaves the store and the calls alone keeps what is said of them.
LEMMA StoreUntouched ==
  ASSUME IInv, UNCHANGED <<stored, call, doubtful, deleted>>
  PROVE  (Addressed /\ Settled /\ Gone /\ ContextIsComplete /\ AnswersTellTheTruth)'
BY DEF IInv, Addressed, Settled, Gone, ContextIsComplete, AnswersTellTheTruth

LEMMA InitInv == Init => IInv
<1> SUFFICES ASSUME Init PROVE IInv
  OBVIOUS
<1>1. TypeOK
  <2>1. << >> \in Seq(Requests)
    OBVIOUS
  <2> QED BY <2>1 DEF Init, TypeOK, Idle, Phases
<1>2. Addressed /\ Claims /\ OneTurnPerSession /\ Settled /\ Follows /\ Gone /\ ContextIsComplete /\ AnswersTellTheTruth
  BY DEF Init, Addressed, Claims, OneTurnPerSession, Settled, Follows, Gone, ContextIsComplete, AnswersTellTheTruth, Idle
<1> QED BY <1>1, <1>2 DEF IInv

-----------------------------------------------------------------------------
(* Steps outside turns.                                                    *)

LEMMA CreateStep ==
  ASSUME IInv, NEW s \in Sessions, Create(s)
  PROVE  IInv'
<1> USE DEF IInv
<1>1. << >> \in Seq(Requests) /\ DOMAIN << >> = {}
  OBVIOUS
<1>2. /\ stored' \in [Sessions -> Seq(Requests) \cup {Absent}]
      /\ stored'[s] = << >> /\ \A t \in Sessions \ {s} : stored'[t] = stored[t]
      /\ runtime'[s] = [history |-> << >>, busy |-> FALSE]
      /\ \A t \in Sessions \ {s} : runtime'[t] = runtime[t]
      /\ runtime' \in [Sessions -> Object \cup {NoObject}]
  BY <1>1 DEF Create, TypeOK, Object
<1>3. TypeOK'
  BY <1>2 DEF Create, TypeOK
<1>4. Claims' /\ OneTurnPerSession'
  BY <1>2 DEF Create, Claims, OneTurnPerSession, TypeOK
<1>5. Settled' /\ Gone'
  BY <1>1, <1>2 DEF Create, Settled, Gone, Elements, TypeOK
<1>6. Follows'
  <2>1. Elements(<< >>) = {}
    BY <1>1 DEF Elements
  <2> QED BY <1>2, <2>1 DEF Create, Follows
<1>7. ContextIsComplete'
  <2>1. SeesAllBefore(<< >>, call, doubtful)
    BY <1>1 DEF SeesAllBefore
  <2> QED BY <1>2, <2>1 DEF Create, ContextIsComplete
<1>9. Addressed'
  BY DEF Create, Addressed
<1>8. AnswersTellTheTruth'
  <2>1. Elements(<< >>) = {}
    BY <1>1 DEF Elements
  <2>2. \A r \in Requests : call[r].phase = "completed" => call[r].session # s \/ s \in deleted
    BY DEF AnswersTellTheTruth, Create, Elements, TypeOK
  <2> QED BY <1>2, <2>1, <2>2 DEF Create, AnswersTellTheTruth
<1> QED BY <1>3, <1>4, <1>5, <1>6, <1>7, <1>8, <1>9

LEMMA OpenStep ==
  ASSUME IInv, NEW s \in Sessions, Open(s)
  PROVE  IInv'
<1> USE DEF IInv
<1>1. /\ stored[s] # Absent /\ stored[s] \in Seq(Requests)
      /\ runtime'[s] = [history |-> stored[s], busy |-> FALSE]
      /\ runtime' \in [Sessions -> Object \cup {NoObject}]
      /\ \A t \in Sessions \ {s} : runtime'[t] = runtime[t]
  BY DEF Open, Loadable, TypeOK, Object
<1>2. TypeOK'
  BY <1>1 DEF Open, TypeOK
<1>3. Claims' /\ OneTurnPerSession'
  BY <1>1 DEF Open, Claims, OneTurnPerSession, TypeOK
<1>4. Follows'
  BY <1>1 DEF Open, Follows
<1>5. (Addressed /\ Settled /\ Gone /\ ContextIsComplete /\ AnswersTellTheTruth)'
  BY StoreUntouched DEF Open
<1> QED BY <1>2, <1>3, <1>4, <1>5

LEMMA DeleteStep ==
  ASSUME IInv, NEW s \in Sessions, Delete(s)
  PROVE  IInv'
<1> USE DEF IInv
<1>1. /\ stored'[s] = Absent /\ \A t \in Sessions \ {s} : stored'[t] = stored[t]
      /\ stored' \in [Sessions -> Seq(Requests) \cup {Absent}]
      /\ \A t \in Sessions \ {s} : runtime'[t] = runtime[t]
      /\ runtime' \in [Sessions -> Object \cup {NoObject}]
      /\ ~IsBusy(s)
  BY DEF Delete, TypeOK
<1>2. TypeOK'
  BY <1>1 DEF Delete, TypeOK
<1>3. Claims' /\ OneTurnPerSession'
  BY <1>1 DEF Delete, Claims, OneTurnPerSession, IsBusy
<1>4. Settled' /\ Gone' /\ Addressed'
  BY <1>1 DEF Delete, Settled, Gone, Addressed, TypeOK
<1>5. Follows'
  BY <1>1 DEF Delete, Follows
<1>6. ContextIsComplete' /\ AnswersTellTheTruth'
  BY <1>1 DEF Delete, ContextIsComplete, AnswersTellTheTruth, Addressed
<1> QED BY <1>2, <1>3, <1>4, <1>5, <1>6

LEMMA DeleteAgainStep ==
  ASSUME IInv, NEW s \in Sessions, DeleteAgain(s)
  PROVE  IInv'
<1> USE DEF IInv
<1>1. /\ runtime'[s] = NoObject /\ \A t \in Sessions \ {s} : runtime'[t] = runtime[t]
      /\ runtime' \in [Sessions -> Object \cup {NoObject}] /\ ~IsBusy(s)
  BY DEF DeleteAgain, TypeOK
<1>2. TypeOK' /\ Claims' /\ OneTurnPerSession' /\ Follows'
  BY <1>1 DEF DeleteAgain, TypeOK, Claims, OneTurnPerSession, IsBusy, Follows
<1>3. (Addressed /\ Settled /\ Gone /\ ContextIsComplete /\ AnswersTellTheTruth)'
  BY StoreUntouched DEF DeleteAgain
<1> QED BY <1>2, <1>3

LEMMA DeleteFailsStep ==
  ASSUME IInv, NEW s \in Sessions, DeleteFails(s)
  PROVE  IInv'
<1> USE DEF IInv
<1>1. TypeOK' /\ Claims' /\ OneTurnPerSession' /\ Follows'
  BY DEF DeleteFails, RolledBack, TypeOK, Claims, OneTurnPerSession, Follows
<1>2. (Addressed /\ Settled /\ Gone /\ ContextIsComplete /\ AnswersTellTheTruth)'
  BY StoreUntouched DEF DeleteFails, RolledBack
<1> QED BY <1>1, <1>2

LEMMA RestartStep ==
  ASSUME IInv, Restart
  PROVE  IInv'
<1> USE DEF IInv
<1>1. \A r \in Requests :
        /\ call'[r].phase = IF call[r].phase = "generating" THEN "lost" ELSE call[r].phase
        /\ call'[r].session = call[r].session /\ call'[r].context = call[r].context
  BY DEF Restart, TypeOK
<1>2. TypeOK'
  BY DEF Restart, TypeOK, Phases
<1>3. Claims' /\ OneTurnPerSession' /\ Follows' /\ Gone' /\ Addressed'
  BY <1>1 DEF Restart, Claims, OneTurnPerSession, Follows, Gone, Addressed
<1>4. \A s \in Sessions : stored[s] # Absent => Elements(stored[s]) \subseteq Requests
  BY ElementsOfAppend DEF TypeOK, Elements
<1>5. Settled'
  BY <1>1, <1>4 DEF Restart, Settled
<1>6. ContextIsComplete'
  <2>1. ASSUME NEW s \in Sessions, stored[s] # Absent
        PROVE  SeesAllBefore(stored[s], call', doubtful)
    <3>1. SeesAllBefore(stored[s], call, doubtful)
      BY <2>1 DEF ContextIsComplete
    <3>2. \A j \in DOMAIN stored[s] : stored[s][j] \in Requests
      BY <1>4, <2>1 DEF Elements
    <3> QED BY <1>1, <3>1, <3>2 DEF SeesAllBefore
  <2> QED BY <2>1 DEF Restart, ContextIsComplete
<1>7. AnswersTellTheTruth'
  BY <1>1 DEF Restart, AnswersTellTheTruth, Settled
<1> QED BY <1>2, <1>3, <1>5, <1>6, <1>7

-----------------------------------------------------------------------------
(* Steps of a turn.                                                        *)

\* A request that is not waiting for its end may change its own call.
LEMMA CallOfUnsaved ==
  ASSUME IInv, NEW r \in Requests, call[r].phase \in {"waiting", "generating"},
         call' \in [Requests -> Call],
         \A q \in Requests \ {r} : call'[q] = call[q],
         UNCHANGED <<stored, doubtful>>
  PROVE  ContextIsComplete'
<1>1. ASSUME NEW s \in Sessions, stored[s] # Absent
      PROVE  SeesAllBefore(stored[s], call', doubtful)
  <2>1. \A j \in DOMAIN stored[s] : stored[s][j] \in Requests \ {r}
    BY <1>1 DEF IInv, Settled, Elements, TypeOK
  <2>2. SeesAllBefore(stored[s], call, doubtful)
    BY <1>1 DEF IInv, ContextIsComplete
  <2> QED BY <2>1, <2>2 DEF SeesAllBefore
<1> QED BY <1>1 DEF ContextIsComplete

LEMMA StartTurnStep ==
  ASSUME IInv, NEW r \in Requests, NEW s \in Sessions, StartTurn(r, s)
  PROVE  IInv'
<1> USE DEF IInv
<1>1. /\ History(s) \in Seq(Requests)
      /\ runtime'[s] = [history |-> History(s), busy |-> TRUE]
      /\ runtime' \in [Sessions -> Object \cup {NoObject}]
      /\ \A t \in Sessions \ {s} : runtime'[t] = runtime[t]
      /\ ~IsBusy(s) /\ call[r].phase = "waiting"
  BY DEF StartTurn, Loadable, History, TypeOK, Object
<1>2. /\ call'[r] = [phase |-> "generating", session |-> s, context |-> History(s)]
      /\ \A q \in Requests \ {r} : call'[q] = call[q]
      /\ call' \in [Requests -> Call]
  BY <1>1 DEF StartTurn, TypeOK, Phases, Call
<1>3. TypeOK'
  BY <1>1, <1>2 DEF StartTurn, TypeOK, Call
<1>4. Addressed' /\ Gone'
  BY <1>2 DEF StartTurn, Addressed, Gone
<1>5. Claims' /\ OneTurnPerSession'
  <2>1. runtime'[s] # NoObject
    <3>1. runtime'[s] \in Object
      BY <1>1 DEF Object
    <3> QED BY <3>1, DistinctMarks
  <2>2. \A q \in Requests : call[q].phase = "generating" => call[q].session # s
    BY <1>1 DEF Claims, IsBusy
  <2>3. runtime'[s].busy /\ runtime'[s].history = History(s)
    BY <1>1
  <2>4. /\ call'[r].phase = "generating" /\ call'[r].session = s
        /\ call'[r].context = History(s)
    BY <1>2
  <2>5. ASSUME NEW q \in Requests \ {r}, call[q].phase = "generating"
        PROVE  /\ call[q].session \in Sessions \ {s}
               /\ runtime'[call[q].session] = runtime[call[q].session]
    BY <1>1, <2>2, <2>5 DEF Claims
  <2>6. Claims'
    <3> SUFFICES ASSUME NEW q \in Requests, call'[q].phase = "generating"
        PROVE  /\ call'[q].session \in Sessions
               /\ runtime'[call'[q].session] # NoObject
               /\ runtime'[call'[q].session].busy
               /\ call'[q].context = runtime'[call'[q].session].history
      BY DEF Claims
    <3>1. CASE q = r
      BY <2>1, <2>3, <2>4, <3>1
    <3>2. CASE q # r
      <4>1. call'[q] = call[q]
        BY <1>2, <3>2
      <4> QED BY <2>5, <3>2, <4>1 DEF Claims
    <3> QED BY <3>1, <3>2
  <2>7. OneTurnPerSession'
    BY <1>2, <2>2, <2>4 DEF OneTurnPerSession
  <2> QED BY <2>6, <2>7
<1>6. \A t \in Sessions : stored[t] # Absent => r \notin Elements(stored[t])
  BY <1>1 DEF Settled
<1>7. Settled' /\ AnswersTellTheTruth'
  BY <1>2, <1>6 DEF StartTurn, Settled, AnswersTellTheTruth, TypeOK, Elements
<1>8. Follows'
  BY <1>1 DEF StartTurn, Follows, History
<1>9. ContextIsComplete'
  BY <1>1, <1>2, CallOfUnsaved DEF StartTurn
<1> QED BY <1>3, <1>4, <1>5, <1>7, <1>8, <1>9

LEMMA RefusalStep ==
  ASSUME IInv, NEW r \in Requests, NEW s \in Sessions,
         TurnWithoutSession(r, s) \/ TurnWhileBusy(r, s)
  PROVE  IInv'
<1> USE DEF IInv
<1>1. /\ call[r].phase = "waiting" /\ UNCHANGED <<stored, runtime, connected, deleted, doubtful>>
      /\ call'[r].phase = "refused" /\ call'[r].session = s
      /\ \A q \in Requests \ {r} : call'[q] = call[q]
      /\ call' \in [Requests -> Call]
  <2>1. << >> \in Seq(Requests)
    OBVIOUS
  <2>2. [phase |-> "refused", session |-> s, context |-> << >>] \in Call
    BY <2>1 DEF Call, Phases
  <2>3. call \in [Requests -> Call] /\ Refused(r, s)
    BY DEF TurnWithoutSession, TurnWhileBusy, TypeOK, Call
  <2>4. /\ call[r].phase = "waiting"
        /\ UNCHANGED <<stored, runtime, connected, deleted, doubtful>>
    BY DEF TurnWithoutSession, TurnWhileBusy
  <2> QED BY <2>2, <2>3, <2>4 DEF Refused
<1>2. TypeOK' /\ Gone' /\ Follows'
  BY <1>1 DEF TypeOK, Gone, Follows, Call
<1>6. Claims' /\ OneTurnPerSession' /\ Addressed'
  BY <1>1 DEF Claims, OneTurnPerSession, Addressed
<1>3. \A t \in Sessions : stored[t] # Absent =>
         r \notin Elements(stored[t]) /\ Elements(stored[t]) \subseteq Requests
  BY <1>1 DEF Settled, TypeOK, Elements
<1>4. Settled' /\ AnswersTellTheTruth'
  BY <1>1, <1>3 DEF Settled, AnswersTellTheTruth
<1>5. ContextIsComplete'
  BY <1>1, CallOfUnsaved
<1> QED BY <1>2, <1>4, <1>5, <1>6

\* What the end of a turn does to its call and to the object of its session.
LEMMA TurnEndFacts ==
  ASSUME IInv, NEW r \in Requests, call[r].phase = "generating",
         NEW outcome \in {"completed", "failed"}, Answered(r, outcome),
         NEW h \in Seq(Requests), Released(call[r].session, h)
  PROVE  /\ call[r].session \in Sessions
         /\ call'[r].phase = outcome /\ call'[r].session = call[r].session
         /\ call'[r].context = call[r].context
         /\ \A q \in Requests \ {r} : call'[q] = call[q]
         /\ call' \in [Requests -> Call]
         /\ runtime' \in [Sessions -> Object \cup {NoObject}]
         /\ runtime'[call[r].session] = [history |-> h, busy |-> FALSE]
         /\ \A t \in Sessions \ {call[r].session} : runtime'[t] = runtime[t]
         /\ runtime[call[r].session] \in Object
         /\ call[r].context = runtime[call[r].session].history
         /\ Claims' /\ OneTurnPerSession' /\ Addressed'
         /\ \A t \in Sessions : stored[t] # Absent =>
              r \notin Elements(stored[t]) /\ Elements(stored[t]) \subseteq Requests
<1> USE DEF IInv
<1> DEFINE s == call[r].session
<1>1. s \in Sessions /\ runtime[s] \in Object /\ call[r].context = runtime[s].history
  BY DEF Claims, TypeOK
<1>2. /\ call'[r].phase = outcome /\ call'[r].session = s /\ call'[r].context = call[r].context
      /\ \A q \in Requests \ {r} : call'[q] = call[q]
      /\ call' \in [Requests -> Call]
  BY DEF Answered, TypeOK, Phases, Call
<1>3. /\ runtime' \in [Sessions -> Object \cup {NoObject}]
      /\ runtime'[s] = [history |-> h, busy |-> FALSE]
      /\ \A t \in Sessions \ {s} : runtime'[t] = runtime[t]
  BY <1>1 DEF Released, TypeOK, Object
<1>4. Claims'
  <2> SUFFICES ASSUME NEW q \in Requests, call'[q].phase = "generating"
      PROVE  /\ call'[q].session \in Sessions
             /\ runtime'[call'[q].session] # NoObject
             /\ runtime'[call'[q].session].busy
             /\ call'[q].context = runtime'[call'[q].session].history
    BY DEF Claims
  <2>1. q # r /\ call'[q] = call[q]
    BY <1>2
  <2>2. call[q].session # s
    BY <2>1 DEF OneTurnPerSession
  <2>3. call[q].session \in Sessions /\ runtime'[call[q].session] = runtime[call[q].session]
    BY <1>3, <2>1, <2>2 DEF Claims
  <2> QED BY <2>1, <2>3 DEF Claims
<1>7. OneTurnPerSession'
  BY <1>2 DEF OneTurnPerSession
<1>6. Addressed'
  BY <1>1, <1>2 DEF Addressed
<1>5. \A t \in Sessions : stored[t] # Absent =>
         r \notin Elements(stored[t]) /\ Elements(stored[t]) \subseteq Requests
  BY DEF Settled, TypeOK, Elements
<1> QED BY <1>1, <1>2, <1>3, <1>4, <1>5, <1>6, <1>7

\* A turn that ends without a pair: failure, missing session, rolled-back commit.
LEMMA FailureStep ==
  ASSUME IInv, NEW r \in Requests,
         TurnFails(r) \/ CommitMissesSession(r) \/ CommitFails(r)
  PROVE  IInv'
<1> USE DEF IInv
<1> DEFINE s == call[r].session
<1>1. /\ call[r].phase = "generating" /\ Answered(r, "failed")
      /\ Released(s, runtime[s].history) /\ UNCHANGED <<stored, deleted, doubtful>>
      /\ connected' \in BOOLEAN
  BY DEF TurnFails, CommitMissesSession, CommitFails, RolledBack, TypeOK
<1>2. runtime[s].history \in Seq(Requests)
  BY <1>1 DEF Claims, TypeOK, Object
<1> HIDE DEF s
<1>3. /\ s \in Sessions
      /\ call'[r].phase = "failed" /\ call'[r].session = s
      /\ \A q \in Requests \ {r} : call'[q] = call[q]
      /\ call' \in [Requests -> Call]
      /\ runtime' \in [Sessions -> Object \cup {NoObject}]
      /\ runtime'[s] = [history |-> runtime[s].history, busy |-> FALSE]
      /\ \A t \in Sessions \ {s} : runtime'[t] = runtime[t]
      /\ runtime[s] # NoObject
      /\ Claims' /\ OneTurnPerSession' /\ Addressed'
      /\ \A t \in Sessions : stored[t] # Absent =>
           r \notin Elements(stored[t]) /\ Elements(stored[t]) \subseteq Requests
  BY <1>1, <1>2, TurnEndFacts DEF s, Claims
<1>4. TypeOK' /\ Gone'
  BY <1>1, <1>3 DEF TypeOK, Gone, Call
<1>5. Follows'
  BY <1>1, <1>3 DEF Follows
<1>6. Settled'
  BY <1>1, <1>3 DEF Settled
<1>7. AnswersTellTheTruth'
  <2>1. ASSUME NEW q \in Requests \ {r} PROVE call'[q] = call[q]
    BY <1>3
  <2> QED BY <1>1, <1>3, <2>1 DEF AnswersTellTheTruth
<1>8. ContextIsComplete'
  BY <1>1, <1>3, CallOfUnsaved
<1> QED BY <1>3, <1>4, <1>5, <1>6, <1>7, <1>8
\* A pair is saved, whatever the caller is told and the object then holds.
LEMMA PairSaved ==
  ASSUME IInv, NEW r \in Requests, call[r].phase = "generating",
         stored[call[r].session] # Absent,
         stored' = [stored EXCEPT ![call[r].session] = Append(@, r)],
         NEW outcome \in {"completed", "failed"}, Answered(r, outcome),
         NEW h \in Seq(Requests), Released(call[r].session, h),
         doubtful \subseteq doubtful', doubtful' \subseteq doubtful \cup {r},
         deleted' = deleted, connected' = connected,
         outcome = "failed" => r \in doubtful',
         Elements(h) \subseteq Elements(runtime[call[r].session].history) \cup {r},
         Elements(runtime[call[r].session].history) \subseteq Elements(h),
         r \in Elements(h) \cup doubtful'
  PROVE  IInv'
<1> USE DEF IInv
<1> DEFINE s == call[r].session
<1> DEFINE old == stored[s]
<1>1. /\ s \in Sessions
      /\ call'[r].phase = outcome /\ call'[r].session = s
      /\ call'[r].context = call[r].context
      /\ \A q \in Requests \ {r} : call'[q] = call[q]
      /\ call' \in [Requests -> Call]
      /\ runtime' \in [Sessions -> Object \cup {NoObject}]
      /\ runtime'[s] = [history |-> h, busy |-> FALSE]
      /\ \A t \in Sessions \ {s} : runtime'[t] = runtime[t]
      /\ call[r].context = runtime[s].history
      /\ runtime[s] # NoObject
      /\ Claims' /\ OneTurnPerSession' /\ Addressed'
      /\ \A t \in Sessions : stored[t] # Absent =>
           r \notin Elements(stored[t]) /\ Elements(stored[t]) \subseteq Requests
  BY TurnEndFacts DEF Claims
<1>2. /\ old \in Seq(Requests) /\ stored'[s] = Append(old, r)
      /\ \A t \in Sessions \ {s} : stored'[t] = stored[t]
  BY <1>1 DEF TypeOK
<1>3. /\ Elements(Append(old, r)) = Elements(old) \cup {r}
      /\ Append(old, r) \in Seq(Requests)
      /\ DOMAIN old = 1..Len(old) /\ DOMAIN Append(old, r) = 1..(Len(old) + 1)
      /\ \A i \in 1..Len(old) : Append(old, r)[i] = old[i]
      /\ Append(old, r)[Len(old) + 1] = r
      /\ Len(old) \in Nat
  BY <1>2, ElementsOfAppend
<1>4. stored'[s] # Absent
  BY <1>2, <1>3, DistinctMarks
<1>5. s \notin deleted
  BY DEF Gone
<1>14. /\ Elements(h) \subseteq Elements(runtime[s].history) \cup {r}
       /\ Elements(runtime[s].history) \subseteq Elements(h)
       /\ r \in Elements(h) \cup doubtful'
       /\ doubtful \subseteq doubtful'
  OBVIOUS
<1> HIDE DEF s, old
<1>6. TypeOK'
  <2>1. stored' \in [Sessions -> Seq(Requests) \cup {Absent}]
    BY <1>1, <1>2, <1>3 DEF TypeOK, s
  <2> QED BY <1>1, <2>1 DEF TypeOK, Call
<1>7. Settled'
  BY <1>1, <1>2, <1>3 DEF Settled, old
<1>8. Gone'
  BY <1>1, <1>2, <1>5 DEF Gone, TypeOK
<1>9. Follows'
  <2>0. runtime'[s].history = h
    <3>1. runtime'[s] = [history |-> h, busy |-> FALSE]
      BY <1>1
    <3> QED BY <3>1
  <2>5. Elements(stored'[s]) = Elements(old) \cup {r}
    BY <1>2, <1>3
  <2>1. Elements(stored'[s]) = Elements(old) \cup {r} /\ runtime'[s].history = h
    BY <2>0, <2>5
  <2>2. /\ Elements(old) \subseteq Elements(runtime[s].history) \cup doubtful
        /\ Elements(runtime[s].history) \subseteq Elements(old)
    BY <1>1 DEF Follows, s, old
  <2>3. Elements(stored'[s]) \subseteq Elements(runtime'[s].history) \cup doubtful'
    BY <1>14, <2>1, <2>2
  <2>4. Elements(runtime'[s].history) \subseteq Elements(stored'[s])
    BY <1>14, <2>1, <2>2
  <2> QED BY <1>1, <1>2, <2>3, <2>4 DEF Follows
<1>10. ContextIsComplete'
  <2>1. ASSUME NEW t \in Sessions \ {s}, stored[t] # Absent
        PROVE  SeesAllBefore(stored[t], call', doubtful')
    <3>1. SeesAllBefore(stored[t], call, doubtful)
      BY <2>1 DEF ContextIsComplete
    <3>2. \A j \in DOMAIN stored[t] : stored[t][j] \in Requests \ {r}
      BY <1>1, <2>1 DEF Elements
    <3>3. \A j \in DOMAIN stored[t] : call'[stored[t][j]].context = call[stored[t][j]].context
      BY <1>1, <3>2
    <3>4. doubtful \subseteq doubtful'
      OBVIOUS
    <3> QED BY ONLY <3>1, <3>3, <3>4, SeenStaysSeen
  <2>2. SeesAllBefore(Append(old, r), call', doubtful')
    <3>1. SeesAllBefore(old, call, doubtful)
      BY <1>1 DEF ContextIsComplete, s, old
    <3>2. \A j \in 1..Len(old) : old[j] \in Requests \ {r}
      BY <1>1, <1>3 DEF Elements, s, old
    <3>3. /\ Elements(old) \subseteq Elements(call[r].context) \cup doubtful
          /\ Elements(call[r].context) \subseteq Elements(old)
      BY <1>1 DEF Follows, s, old
    <3>4. Elements(old) = {old[i] : i \in 1..Len(old)}
      BY <1>3 DEF Elements
    <3> SUFFICES ASSUME NEW j \in 1..(Len(old) + 1)
        PROVE  /\ \A i \in 1..(j - 1) :
                     Append(old, r)[i] \in Elements(call'[Append(old, r)[j]].context) \cup doubtful'
               /\ Elements(call'[Append(old, r)[j]].context)
                    \subseteq {Append(old, r)[i] : i \in 1..(j - 1)}
      BY <1>3 DEF SeesAllBefore
    <3>5. \A i \in 1..(j - 1) : i \in 1..Len(old) /\ Append(old, r)[i] = old[i]
      BY <1>3
    <3>6. {Append(old, r)[i] : i \in 1..(j - 1)} = {old[i] : i \in 1..(j - 1)}
      BY <3>5
    <3>7. CASE j = Len(old) + 1
      <4>1. Append(old, r)[j] = r /\ j - 1 = Len(old)
        BY <1>3, <3>7
      <4>2. call'[Append(old, r)[j]].context = call[r].context
        BY <1>1, <4>1
      <4>3. {old[i] : i \in 1..(j - 1)} = Elements(old)
        BY <3>4, <4>1
      <4>4. ASSUME NEW i \in 1..(j - 1)
            PROVE  Append(old, r)[i] \in Elements(call[r].context) \cup doubtful'
        BY <1>14, <3>3, <3>4, <3>5
      <4>5. Elements(call[r].context) \subseteq {Append(old, r)[i] : i \in 1..(j - 1)}
        BY <3>3, <3>6, <4>3
      <4>6. \A i \in 1..(j - 1) :
              Append(old, r)[i] \in Elements(call'[Append(old, r)[j]].context) \cup doubtful'
        BY <4>2, <4>4
      <4>7. Elements(call'[Append(old, r)[j]].context)
              \subseteq {Append(old, r)[i] : i \in 1..(j - 1)}
        BY <4>2, <4>5
      <4> QED BY <4>6, <4>7
    <3>8. CASE j \in 1..Len(old)
      <4>1. Append(old, r)[j] = old[j] /\ call'[old[j]] = call[old[j]]
        BY <1>1, <1>3, <3>2, <3>8
      <4>2. /\ \A i \in 1..(j - 1) : old[i] \in Elements(call[old[j]].context) \cup doubtful
            /\ Elements(call[old[j]].context) \subseteq {old[i] : i \in 1..(j - 1)}
        BY <1>3, <3>1, <3>8 DEF SeesAllBefore
      <4>3. call'[Append(old, r)[j]].context = call[old[j]].context
        BY <4>1
      <4>4. Elements(call'[Append(old, r)[j]].context)
              \subseteq {Append(old, r)[i] : i \in 1..(j - 1)}
        BY <3>6, <4>2, <4>3
      <4>5. \A i \in 1..(j - 1) :
              Append(old, r)[i] \in Elements(call'[Append(old, r)[j]].context) \cup doubtful'
        BY <1>14, <3>5, <4>2, <4>3
      <4> QED BY <4>4, <4>5
    <3>9. j = Len(old) + 1 \/ j \in 1..Len(old)
      BY <1>3
    <3> QED BY <3>7, <3>8, <3>9
  <2> QED BY <1>1, <1>2, <2>1, <2>2, ZenonT(60) DEF ContextIsComplete
<1>11. AnswersTellTheTruth'
  <2>1. \A q \in Requests : call'[q].phase = "completed" =>
          \/ call'[q].session \in deleted
          \/ /\ stored'[call'[q].session] # Absent
             /\ q \in Elements(stored'[call'[q].session])
    <3> SUFFICES ASSUME NEW q \in Requests, call'[q].phase = "completed",
                        call'[q].session \notin deleted
        PROVE  /\ stored'[call'[q].session] # Absent
               /\ q \in Elements(stored'[call'[q].session])
      OBVIOUS
    <3>1. CASE q = r
      BY <1>1, <1>2, <1>3, <1>4, <3>1
    <3>2. CASE q # r
      <4>1. call'[q] = call[q] /\ call[q].session \in Sessions
        BY <1>1, <3>2 DEF Addressed
      <4>2. stored[call[q].session] # Absent /\ q \in Elements(stored[call[q].session])
        BY <4>1 DEF AnswersTellTheTruth
      <4>3. CASE call[q].session = s
        BY <1>2, <1>3, <1>4, <4>1, <4>2, <4>3 DEF old
      <4>4. CASE call[q].session # s
        <5>1. stored'[call[q].session] = stored[call[q].session]
          BY <1>2, <4>1, <4>4
        <5> QED BY <4>1, <4>2, <5>1
      <4> QED BY <4>3, <4>4
    <3> QED BY <3>1, <3>2
  <2>2. \A q \in Requests : call'[q].phase \in {"failed", "refused", "lost"} =>
          \A t \in Sessions : stored'[t] # Absent /\ q \in Elements(stored'[t])
            => q \in doubtful'
    <3> SUFFICES ASSUME NEW q \in Requests, call'[q].phase \in {"failed", "refused", "lost"},
                        NEW t \in Sessions, stored'[t] # Absent, q \in Elements(stored'[t])
        PROVE  q \in doubtful'
      OBVIOUS
    <3>1. CASE q = r
      BY <1>1, <3>1
    <3>2. CASE q # r
      <4>1. call'[q] = call[q]
        BY <1>1, <3>2
      <4>2. stored[t] # Absent /\ q \in Elements(stored[t])
        BY <1>2, <1>3, <3>2 DEF s, old
      <4> QED BY <4>1, <4>2 DEF AnswersTellTheTruth
    <3> QED BY <3>1, <3>2
  <2> QED BY <2>1, <2>2 DEF AnswersTellTheTruth
<1> QED BY <1>1, <1>6, <1>7, <1>8, <1>9, <1>10, <1>11

LEMMA CommitStep ==
  ASSUME IInv, NEW r \in Requests, CommitSucceeds(r) \/ CommitInDoubt(r)
  PROVE  IInv'
<1> DEFINE own == runtime[call[r].session].history
<1>1. call[r].phase = "generating" /\ stored[call[r].session] # Absent
      /\ stored' = [stored EXCEPT ![call[r].session] = Append(@, r)]
      /\ deleted' = deleted /\ connected' = connected
  BY DEF CommitSucceeds, CommitInDoubt
<1>2. own \in Seq(Requests)
  BY <1>1 DEF IInv, Claims, TypeOK, Object
<1> HIDE DEF own
<1>3. Append(own, r) \in Seq(Requests) /\ Elements(Append(own, r)) = Elements(own) \cup {r}
  BY <1>2, ElementsOfAppend
<1>4. CASE CommitSucceeds(r)
  <2>1. /\ Answered(r, "completed") /\ doubtful' = doubtful
        /\ Released(call[r].session, Append(own, r))
    BY <1>4 DEF CommitSucceeds, own
  <2> QED BY <1>1, <1>3, <2>1, PairSaved DEF own
<1>5. CASE CommitInDoubt(r)
  <2>1. /\ Answered(r, "failed") /\ doubtful' = doubtful \cup {r}
        /\ Released(call[r].session, own)
    BY <1>5 DEF CommitInDoubt, own
  <2> QED BY <1>1, <1>2, <2>1, PairSaved DEF own
<1> QED BY <1>4, <1>5

-----------------------------------------------------------------------------
LEMMA NextStep ==
  ASSUME IInv, [Next]_vars
  PROVE  IInv'
<1>1. CASE \E s \in Sessions :
             Create(s) \/ Open(s) \/ Delete(s) \/ DeleteAgain(s) \/ DeleteFails(s)
  BY <1>1, CreateStep, OpenStep, DeleteStep, DeleteAgainStep, DeleteFailsStep
<1>2. CASE \E r \in Requests, s \in Sessions :
             StartTurn(r, s) \/ TurnWithoutSession(r, s) \/ TurnWhileBusy(r, s)
  BY <1>2, StartTurnStep, RefusalStep
<1>3. CASE \E r \in Requests : TurnEnds(r)
  BY <1>3, FailureStep, CommitStep DEF TurnEnds
<1>4. CASE Restart
  BY <1>4, RestartStep
<1>5. CASE UNCHANGED vars
  BY <1>5 DEF vars, IInv, TypeOK, Addressed, Claims, OneTurnPerSession, Settled, Follows,
              Gone, ContextIsComplete, AnswersTellTheTruth
<1> QED BY <1>1, <1>2, <1>3, <1>4, <1>5 DEF Next

(* The inductive invariant holds in every reachable state.                 *)
THEOREM Invariance == Spec => []IInv
<1>1. Init => IInv
  BY InitInv
<1>2. IInv /\ [Next]_vars => IInv'
  BY NextStep
<1> QED BY <1>1, <1>2, PTL DEF Spec

(* Every variable keeps its type.                                          *)
THEOREM TypeCorrect == Spec => []TypeOK
<1>1. IInv => TypeOK
  BY DEF IInv
<1> QED BY <1>1, Invariance, PTL

(* No turn is saved between the capture of a context and the commit of its *)
(* answer, so a saved turn was generated from all the turns before it.     *)
THEOREM ContextsAreComplete == Spec => []ContextIsComplete
<1>1. IInv => ContextIsComplete
  BY DEF IInv
<1> QED BY <1>1, Invariance, PTL

(* A client that was told "completed" finds its turn saved; one that was   *)
(* told anything else finds it saved only if the store misreported.        *)
THEOREM AnswersAreTrue == Spec => []AnswersTellTheTruth
<1>1. IInv => AnswersTellTheTruth
  BY DEF IInv
<1> QED BY <1>1, Invariance, PTL

(* No step of the code gives a deleted session its row back.               *)
THEOREM DeletionIsFinal == Spec => DeletedStaysDeleted
<1>1. IInv /\ [Next]_vars => [\A s \in Sessions : s \in deleted => stored'[s] = Absent]_vars
  <2> SUFFICES ASSUME IInv, [Next]_vars, NEW s \in Sessions, s \in deleted
      PROVE  stored'[s] = Absent
    OBVIOUS
  <2>1. IInv' /\ deleted \subseteq deleted'
    <3>1. IInv'
      BY NextStep
    <3>2. deleted \subseteq deleted'
      BY DEF Next, vars, Create, Open, Delete, DeleteAgain, DeleteFails, StartTurn,
             TurnWithoutSession, TurnWhileBusy, TurnEnds, TurnFails, CommitSucceeds,
             CommitMissesSession, CommitFails, CommitInDoubt, Restart, RolledBack
    <3> QED BY <3>1, <3>2
  <2> QED BY <2>1 DEF IInv, Gone
<1> QED BY <1>1, Invariance, PTL DEF Spec, DeletedStaysDeleted

-----------------------------------------------------------------------------
(* The history in memory beside the stored one.                            *)

LEMMA OmitsNothing ==
  ASSUME NEW S, NEW h \in Seq(S), NEW excepted
  PROVE  OmitsOnly(h, h, excepted)
<1> DEFINE place == [i \in DOMAIN h |-> i]
<1>1. place \in [DOMAIN h -> DOMAIN h]
  OBVIOUS
<1>2. /\ \A i, j \in DOMAIN h : i < j => place[i] < place[j]
      /\ \A i \in DOMAIN h : h[i] = h[place[i]]
      /\ \A k \in DOMAIN h : place[k] = k
  OBVIOUS
<1> HIDE DEF place
<1> QED BY <1>1, <1>2 DEF OmitsOnly

\* One more turn is stored, and the commit that stored it reported an error.
LEMMA OmitsOneMore ==
  ASSUME NEW S, NEW h \in Seq(S), NEW g \in Seq(S), NEW x \in S, NEW excepted,
         OmitsOnly(h, g, excepted)
  PROVE  OmitsOnly(h, Append(g, x), excepted \cup {x})
<1>1. PICK place \in [DOMAIN h -> DOMAIN g] :
        /\ \A i, j \in DOMAIN h : i < j => place[i] < place[j]
        /\ \A i \in DOMAIN h : h[i] = g[place[i]]
        /\ \A k \in DOMAIN g : g[k] \in excepted \/ \E i \in DOMAIN h : place[i] = k
  BY DEF OmitsOnly
<1>2. /\ DOMAIN g = 1..Len(g) /\ DOMAIN Append(g, x) = 1..(Len(g) + 1) /\ Len(g) \in Nat
      /\ \A i \in 1..Len(g) : Append(g, x)[i] = g[i]
      /\ Append(g, x)[Len(g) + 1] = x
  BY ElementsOfAppend
<1>3. place \in [DOMAIN h -> DOMAIN Append(g, x)]
  BY <1>1, <1>2
<1>4. \A i \in DOMAIN h : h[i] = Append(g, x)[place[i]]
  BY <1>1, <1>2
<1>5. ASSUME NEW k \in DOMAIN Append(g, x)
      PROVE  Append(g, x)[k] \in excepted \cup {x} \/ \E i \in DOMAIN h : place[i] = k
  BY <1>1, <1>2
<1> QED BY <1>1, <1>3, <1>4, <1>5 DEF OmitsOnly

\* The turn is stored and remembered.
LEMMA OmitsAsBefore ==
  ASSUME NEW S, NEW h \in Seq(S), NEW g \in Seq(S), NEW x \in S, NEW excepted,
         OmitsOnly(h, g, excepted)
  PROVE  OmitsOnly(Append(h, x), Append(g, x), excepted)
<1>1. PICK place \in [DOMAIN h -> DOMAIN g] :
        /\ \A i, j \in DOMAIN h : i < j => place[i] < place[j]
        /\ \A i \in DOMAIN h : h[i] = g[place[i]]
        /\ \A k \in DOMAIN g : g[k] \in excepted \/ \E i \in DOMAIN h : place[i] = k
  BY DEF OmitsOnly
<1>2. /\ DOMAIN g = 1..Len(g) /\ DOMAIN Append(g, x) = 1..(Len(g) + 1) /\ Len(g) \in Nat
      /\ \A i \in 1..Len(g) : Append(g, x)[i] = g[i]
      /\ Append(g, x)[Len(g) + 1] = x
  BY ElementsOfAppend
<1>3. /\ DOMAIN h = 1..Len(h) /\ DOMAIN Append(h, x) = 1..(Len(h) + 1) /\ Len(h) \in Nat
      /\ \A i \in 1..Len(h) : Append(h, x)[i] = h[i]
      /\ Append(h, x)[Len(h) + 1] = x
  BY ElementsOfAppend
<1> DEFINE longer == [i \in 1..(Len(h) + 1) |-> IF i = Len(h) + 1 THEN Len(g) + 1 ELSE place[i]]
<1>4. /\ longer[Len(h) + 1] = Len(g) + 1
      /\ \A i \in 1..Len(h) : longer[i] = place[i] /\ place[i] \in 1..Len(g)
  BY <1>1, <1>2, <1>3
<1>5. longer \in [DOMAIN Append(h, x) -> DOMAIN Append(g, x)]
  BY <1>1, <1>2, <1>3
<1> HIDE DEF longer
<1>6. \A i \in 1..(Len(h) + 1) : i \in 1..Len(h) \/ i = Len(h) + 1
  BY <1>3
<1>7. ASSUME NEW i \in DOMAIN Append(h, x), NEW j \in DOMAIN Append(h, x), i < j
      PROVE  longer[i] < longer[j]
  <2>1. i \in 1..Len(h)
    BY <1>3, <1>7
  <2>2. CASE j \in 1..Len(h)
    BY <1>1, <1>3, <1>4, <1>7, <2>1, <2>2
  <2>3. CASE j = Len(h) + 1
    BY <1>2, <1>4, <2>1, <2>3
  <2> QED BY <1>3, <1>6, <2>2, <2>3
<1>8. \A i \in DOMAIN Append(h, x) : Append(h, x)[i] = Append(g, x)[longer[i]]
  BY <1>1, <1>2, <1>3, <1>4, <1>6
<1>9. ASSUME NEW k \in DOMAIN Append(g, x)
      PROVE  \/ Append(g, x)[k] \in excepted
             \/ \E i \in DOMAIN Append(h, x) : longer[i] = k
  <2>1. CASE k \in 1..Len(g)
    <3>1. Append(g, x)[k] = g[k] /\ (g[k] \in excepted \/ \E i \in DOMAIN h : place[i] = k)
      BY <1>1, <1>2, <2>1
    <3>2. ASSUME NEW i \in DOMAIN h, place[i] = k
          PROVE  i \in DOMAIN Append(h, x) /\ longer[i] = k
      BY <1>3, <1>4, <3>2
    <3> QED BY <3>1, <3>2
  <2>2. CASE k = Len(g) + 1
    <3>1. Len(h) + 1 \in DOMAIN Append(h, x)
      BY <1>3
    <3> QED BY <1>4, <2>2, <3>1
  <2> QED BY <1>2, <2>1, <2>2
<1> QED BY <1>5, <1>7, <1>8, <1>9 DEF OmitsOnly

LEMMA OmitsMoreExcepted ==
  ASSUME NEW h, NEW g, NEW excepted, NEW more, excepted \subseteq more, OmitsOnly(h, g, excepted)
  PROVE  OmitsOnly(h, g, more)
  BY DEF OmitsOnly

\* What RuntimeFollowsStore says of one session.
Followed(s) ==
  runtime[s] # NoObject =>
    \/ stored[s] = Absent /\ s \in deleted
    \/ stored[s] # Absent /\ OmitsOnly(runtime[s].history, stored[s], doubtful)

LEMMA FollowedStep ==
  ASSUME IInv, RuntimeFollowsStore, [Next]_vars
  PROVE  RuntimeFollowsStore'
<1>1. \A s \in Sessions : Followed(s)
  BY DEF RuntimeFollowsStore, Followed
<1>2. /\ stored \in [Sessions -> Seq(Requests) \cup {Absent}]
      /\ runtime \in [Sessions -> Object \cup {NoObject}]
      /\ \A s \in Sessions : runtime[s] # NoObject => runtime[s].history \in Seq(Requests)
  BY DEF IInv, TypeOK, Object
<1>3. ASSUME \A s \in Sessions : Followed(s)' PROVE RuntimeFollowsStore'
  BY <1>3 DEF RuntimeFollowsStore, Followed
\* A session whose row and object stay as they are.
<1>4. ASSUME NEW s \in Sessions, runtime'[s] = runtime[s], stored'[s] = stored[s],
             deleted \subseteq deleted', doubtful \subseteq doubtful'
      PROVE  Followed(s)'
  BY <1>1, <1>4, OmitsMoreExcepted DEF Followed
<1>5. ASSUME NEW s \in Sessions, Create(s) PROVE RuntimeFollowsStore'
  <2>1. runtime'[s] = [history |-> << >>, busy |-> FALSE] /\ stored'[s] = << >>
    BY <1>2, <1>5 DEF Create
  <2>2. Followed(s)'
    <3>1. OmitsOnly(<< >>, << >>, doubtful') /\ << >> # Absent
      BY OmitsNothing, EmptySeq, DistinctMarks
    <3> QED BY <2>1, <3>1 DEF Followed
  <2>3. \A t \in Sessions \ {s} : Followed(t)'
    BY <1>2, <1>4, <1>5 DEF Create
  <2> QED BY <1>3, <2>2, <2>3
\* An object that is made of the stored history, or has it still.
<1>6. ASSUME NEW s \in Sessions, Loadable(s), NEW b,
             runtime' = [runtime EXCEPT ![s] = [history |-> History(s), busy |-> b]],
             UNCHANGED <<stored, deleted, doubtful>>
      PROVE  RuntimeFollowsStore'
  <2>1. runtime'[s].history = History(s)
    <3>1. runtime'[s] = [history |-> History(s), busy |-> b]
      BY <1>2, <1>6
    <3> QED BY <3>1
  <2>2. runtime[s] # NoObject => Followed(s)'
    BY <1>1, <1>6, <2>1 DEF Followed, History
  <2>3. runtime[s] = NoObject => Followed(s)'
    <3> SUFFICES ASSUME runtime[s] = NoObject PROVE Followed(s)'
      OBVIOUS
    <3>1. stored[s] # Absent /\ stored[s] \in Seq(Requests) /\ runtime'[s].history = stored[s]
      BY <1>2, <1>6, <2>1 DEF Loadable, History
    <3>2. OmitsOnly(stored[s], stored[s], doubtful)
      BY <3>1, OmitsNothing
    <3> QED BY <1>6, <3>1, <3>2 DEF Followed
  <2>4. Followed(s)'
    BY <2>2, <2>3
  <2>5. \A t \in Sessions \ {s} : Followed(t)'
    BY <1>2, <1>4, <1>6
  <2> QED BY <1>3, <2>4, <2>5
<1>7. ASSUME NEW s \in Sessions, Open(s) PROVE RuntimeFollowsStore'
  BY <1>6, <1>7 DEF Open, History
<1>8. ASSUME NEW r \in Requests, NEW s \in Sessions, StartTurn(r, s) PROVE RuntimeFollowsStore'
  BY <1>6, <1>8 DEF StartTurn
<1>9. ASSUME NEW s \in Sessions, Delete(s) \/ DeleteAgain(s) PROVE RuntimeFollowsStore'
  <2>1. Followed(s)'
    BY <1>1, <1>2, <1>9 DEF Followed, Delete, DeleteAgain, IInv, TypeOK
  <2>2. \A t \in Sessions \ {s} : Followed(t)'
    BY <1>2, <1>4, <1>9 DEF Delete, DeleteAgain
  <2> QED BY <1>3, <2>1, <2>2
<1>10. ASSUME UNCHANGED <<stored, runtime, deleted, doubtful>> PROVE RuntimeFollowsStore'
  BY <1>10 DEF RuntimeFollowsStore
\* A turn ends without a pair: the object keeps its history.
<1>11. ASSUME NEW r \in Requests, TurnFails(r) \/ CommitMissesSession(r) \/ CommitFails(r)
       PROVE  RuntimeFollowsStore'
  <2>1. /\ call[r].session \in Sessions /\ runtime[call[r].session] # NoObject
        /\ Released(call[r].session, runtime[call[r].session].history)
        /\ UNCHANGED <<stored, deleted, doubtful>>
    BY <1>11 DEF IInv, Claims, TurnFails, CommitMissesSession, CommitFails, RolledBack
  <2> QED BY <1>6, <2>1 DEF Released, Loadable, History
\* A turn ends and its pair is stored.
<1>12. ASSUME NEW r \in Requests, CommitSucceeds(r) \/ CommitInDoubt(r)
       PROVE  RuntimeFollowsStore'
  <2> DEFINE s == call[r].session
             own == runtime[s].history
  <2>1. /\ s \in Sessions /\ runtime[s] # NoObject /\ stored[s] # Absent
        /\ own \in Seq(Requests) /\ stored[s] \in Seq(Requests)
        /\ stored' = [stored EXCEPT ![s] = Append(stored[s], r)] /\ deleted' = deleted
    BY <1>2, <1>12 DEF IInv, Claims, CommitSucceeds, CommitInDoubt
  <2>2. OmitsOnly(own, stored[s], doubtful)
    BY <1>1, <2>1 DEF Followed
  <2>3. stored'[s] = Append(stored[s], r) /\ stored'[s] # Absent
    <3>1. Append(stored[s], r) \in Seq(Requests)
      BY <2>1, ElementsOfAppend
    <3>2. stored'[s] = Append(stored[s], r)
      BY <1>2, <2>1
    <3> QED BY <3>1, <3>2, DistinctMarks
  <2>4. CASE CommitSucceeds(r)
    <3>1. /\ runtime' = [runtime EXCEPT ![s] = [history |-> Append(own, r), busy |-> FALSE]]
          /\ doubtful' = doubtful
      BY <2>4 DEF CommitSucceeds, Released
    <3>2. OmitsOnly(Append(own, r), stored'[s], doubtful')
      BY <2>1, <2>2, <2>3, <3>1, OmitsAsBefore
    <3>3. runtime'[s].history = Append(own, r)
      BY <1>2, <2>1, <3>1
    <3>4. \A t \in Sessions \ {s} : Followed(t)'
      BY <1>2, <1>4, <2>1, <3>1
    <3> QED BY <1>3, <2>3, <3>2, <3>3, <3>4 DEF Followed
  <2>5. CASE CommitInDoubt(r)
    <3>1. /\ runtime' = [runtime EXCEPT ![s] = [history |-> own, busy |-> FALSE]]
          /\ doubtful' = doubtful \cup {r}
      BY <2>5 DEF CommitInDoubt, Released
    <3>2. OmitsOnly(own, stored'[s], doubtful')
      BY <2>1, <2>2, <2>3, <3>1, OmitsOneMore
    <3>3. runtime'[s].history = own
      BY <1>2, <2>1, <3>1
    <3>4. \A t \in Sessions \ {s} : Followed(t)'
      BY <1>2, <1>4, <2>1, <3>1
    <3> QED BY <1>3, <2>3, <3>2, <3>3, <3>4 DEF Followed
  <2> QED BY <1>12, <2>4, <2>5
<1>13. CASE Restart
  BY <1>13 DEF Restart, RuntimeFollowsStore
<1>14. ASSUME NEW s \in Sessions, DeleteFails(s) PROVE RuntimeFollowsStore'
  BY <1>10, <1>14 DEF DeleteFails, RolledBack
<1>15. ASSUME NEW r \in Requests, NEW s \in Sessions, TurnWithoutSession(r, s) \/ TurnWhileBusy(r, s)
       PROVE  RuntimeFollowsStore'
  BY <1>10, <1>15 DEF TurnWithoutSession, TurnWhileBusy
<1>16. CASE UNCHANGED vars
  BY <1>10, <1>16 DEF vars
<1> QED BY <1>5, <1>7, <1>8, <1>9, <1>11, <1>12, <1>13, <1>14, <1>15, <1>16 DEF Next, TurnEnds

(* A runtime object holds the stored turns in their order and lacks only   *)
(* turns whose commit reported an error (commit, get, delete).             *)
THEOREM RuntimeIsTheStore == Spec => []RuntimeFollowsStore
<1>1. Init => RuntimeFollowsStore
  BY DEF Init, RuntimeFollowsStore
<1>2. IInv /\ RuntimeFollowsStore /\ [Next]_vars => RuntimeFollowsStore'
  BY FollowedStep
<1> QED BY <1>1, <1>2, Invariance, PTL DEF Spec
=============================================================================
