---------------------- MODULE HistoryCompressionProofs ----------------------
(***************************************************************************)
(* Theorems about the compressed conversation, for any sessions and        *)
(* requests.  The invariant stands on the one of the conversation core.    *)
(***************************************************************************)
EXTENDS HistoryCompression, ConversationProofs

-----------------------------------------------------------------------------
(* The inductive invariant.                                                *)

\* d is the beginning of h.
IsStart(d, h) == Len(d) <= Len(h) /\ \A i \in 1..Len(d) : d[i] = h[i]

\* No turn of h was durable although its commit failed.
IsSure(h, doubts) == Elements(h) \cap doubts = {}

\* A summary fits the row of its session and the object that stands for it.
\* Row and object differ only where a commit was in doubt.
SessionFits(row, object, digest, doubts) ==
  /\ row = Absent => digest = << >>
  /\ row # Absent =>
       /\ Len(digest) <= Boundary(row)
       /\ IsSure(row, doubts) => IsStart(digest, row)
  /\ row # Absent /\ object # NoObject =>
       /\ Len(object.history) <= Len(row)
       /\ Len(digest) <= Boundary(object.history)
       /\ IsSure(row, doubts) => object.history = row
       /\ IsSure(object.history, doubts) => IsStart(digest, object.history)

SessionsFit ==
  \A s \in Sessions : SessionFits(stored[s], runtime[s], summary[s], doubtful)

\* The operation of a running request works on the beginning of its context.
RequestFits(c, w, doubts) ==
  IF c.phase = "generating"
  THEN /\ w.kind \in {"send", "compare"}
       /\ w.stage \in {"summarising", "answering"}
       /\ w.stage = "summarising" => Len(w.durable) < Boundary(c.context)
       /\ w.stage = "answering" => Len(w.digest) = Boundary(c.context)
       /\ IsSure(c.context, doubts) =>
            /\ IsStart(w.durable, c.context)
            /\ w.stage = "answering" => IsStart(w.digest, c.context)
  ELSE w = NoWork

RequestsFit == \A r \in Requests : RequestFits(call[r], work[r], doubtful)

Work == [kind : {"none", "send", "compare"},
         stage : {"none", "summarising", "answering"},
         durable : Seq(Requests), digest : Seq(Requests)]

RowsTyped == summary \in [Sessions -> Seq(Requests)] /\ work \in [Requests -> Work]

CompressionInv == IInv /\ RowsTyped /\ SessionsFit /\ RequestsFit

-----------------------------------------------------------------------------
(* Boundaries and beginnings.                                              *)

\* The boundary leaves the raw tail, and moves only forward.
LEMMA BoundaryFacts ==
  ASSUME NEW S, NEW h \in Seq(S)
  PROVE  /\ Boundary(h) \in Nat /\ Len(h) \in Nat /\ Boundary(h) <= Len(h)
         /\ Len(h) - Boundary(h) = IF Len(h) < RawTail THEN Len(h) ELSE RawTail
         /\ \A g \in Seq(S) : Len(h) <= Len(g) => Boundary(h) <= Boundary(g)
<1>1. Len(h) \in Nat
  OBVIOUS
<1>2. /\ Boundary(h) \in Nat /\ Boundary(h) <= Len(h)
      /\ Len(h) - Boundary(h) = IF Len(h) < RawTail THEN Len(h) ELSE RawTail
  <2>1. CASE Len(h) > 2
    <3>1. Boundary(h) = Len(h) - 2 /\ ~(Len(h) < RawTail)
      BY <1>1, <2>1 DEF Boundary, RawTail
    <3> QED BY <1>1, <2>1, <3>1 DEF RawTail
  <2>2. CASE ~(Len(h) > 2)
    <3>1. Boundary(h) = 0
      BY <1>1, <2>2 DEF Boundary, RawTail
    <3>2. Len(h) = 2 \/ Len(h) < 2
      <4>1. \A n \in Nat : ~(n > 2) => n = 2 \/ n < 2
        OBVIOUS
      <4> QED BY <1>1, <2>2, <4>1
    <3> QED BY <1>1, <3>1, <3>2 DEF RawTail
  <2> QED BY <2>1, <2>2
<1>3. ASSUME NEW g \in Seq(S), Len(h) <= Len(g) PROVE Boundary(h) <= Boundary(g)
  <2>1. Len(g) \in Nat
    OBVIOUS
  <2> QED BY <1>1, <1>3, <2>1 DEF Boundary, RawTail
<1> QED BY <1>1, <1>2, <1>3

\* What is put after d up to position b of h.
LEMMA ExtensionFacts ==
  ASSUME NEW S, NEW d \in Seq(S), NEW h \in Seq(S), NEW b \in Nat,
         Len(d) <= b, b <= Len(h)
  PROVE  LET e == d \o SubSeq(h, Len(d) + 1, b) IN
         /\ e \in Seq(S) /\ Len(e) = b
         /\ IsStart(d, e)
         /\ IsStart(d, h) => IsStart(e, h)
<1> DEFINE x == SubSeq(h, Len(d) + 1, b)
<1> DEFINE e == d \o x
<1>1. Len(d) \in Nat /\ Len(h) \in Nat /\ \A i \in 1..Len(h) : h[i] \in S
  OBVIOUS
<1>2. \A i \in (Len(d) + 1)..b : h[i] \in S
  BY <1>1
<1>3. /\ x \in Seq(S) /\ Len(x) = b - Len(d)
      /\ \A i \in 1..(b - Len(d)) : x[i] = h[Len(d) + i]
  <2>1. /\ x \in Seq(S)
        /\ Len(x) = IF Len(d) + 1 <= b THEN b - (Len(d) + 1) + 1 ELSE 0
        /\ \A i \in 1..(b - (Len(d) + 1) + 1) : x[i] = h[(Len(d) + 1) + i - 1]
    BY <1>1, <1>2, SubSeqProperties
  <2> HIDE DEF x
  <2>2. b - (Len(d) + 1) + 1 = b - Len(d)
    BY <1>1
  <2>3. \A i \in 1..(b - Len(d)) : (Len(d) + 1) + i - 1 = Len(d) + i
    BY <1>1
  <2> QED BY <1>1, <2>1, <2>2, <2>3
<1> HIDE DEF x
<1>4. /\ e \in Seq(S) /\ Len(e) = Len(d) + Len(x)
      /\ \A i \in 1..(Len(d) + Len(x)) : e[i] = IF i <= Len(d) THEN d[i] ELSE x[i - Len(d)]
  BY <1>3, ConcatProperties
<1> HIDE DEF e
<1>5. Len(e) = b
  BY <1>1, <1>3, <1>4
<1>6. IsStart(d, e)
  BY <1>1, <1>3, <1>4, <1>5 DEF IsStart
<1>7. ASSUME IsStart(d, h) PROVE IsStart(e, h)
  <2>1. ASSUME NEW i \in 1..b PROVE e[i] = h[i]
    <3>1. CASE i <= Len(d)
      <4>1. i \in 1..Len(d)
        BY <1>1, <3>1
      <4> QED BY <1>1, <1>3, <1>4, <1>7, <3>1, <4>1 DEF IsStart
    <3>2. CASE i > Len(d)
      <4>1. i - Len(d) \in 1..(b - Len(d)) /\ Len(d) + (i - Len(d)) = i
        BY <1>1, <3>2
      <4>2. x[i - Len(d)] = h[i]
        BY <1>3, <4>1
      <4>3. e[i] = x[i - Len(d)]
        BY <1>1, <1>3, <1>4, <3>2
      <4> QED BY <4>2, <4>3
    <3> QED BY <1>1, <3>1, <3>2
  <2> QED BY <1>1, <1>5, <2>1 DEF IsStart
<1> QED BY <1>4, <1>5, <1>6, <1>7 DEF e, x

\* The beginning of a sequence, read back from it.
LEMMA StartIsSubSeq ==
  ASSUME NEW S, NEW d \in Seq(S), NEW h \in Seq(S), IsStart(d, h)
  PROVE  SubSeq(h, 1, Len(d)) = d
<1>1. /\ Len(d) \in Nat /\ Len(d) <= Len(h) /\ Len(h) \in Nat
      /\ \A i \in 1..Len(d) : d[i] = h[i] /\ h[i] \in S
  BY DEF IsStart
<1>2. /\ SubSeq(h, 1, Len(d)) \in Seq(S) /\ Len(SubSeq(h, 1, Len(d))) = Len(d)
      /\ \A i \in 1..Len(d) : SubSeq(h, 1, Len(d))[i] = h[i]
  <2>1. /\ SubSeq(h, 1, Len(d)) \in Seq(S)
        /\ Len(SubSeq(h, 1, Len(d))) = IF 1 <= Len(d) THEN Len(d) - 1 + 1 ELSE 0
        /\ \A i \in 1..(Len(d) - 1 + 1) : SubSeq(h, 1, Len(d))[i] = h[1 + i - 1]
    BY <1>1, SubSeqProperties
  <2>2. Len(d) - 1 + 1 = Len(d) /\ \A i \in 1..Len(d) : 1 + i - 1 = i
    BY <1>1
  <2> QED BY <1>1, <2>1, <2>2
<1> QED BY <1>1, <1>2, SeqEqual

LEMMA WholeIsEqual ==
  ASSUME NEW S, NEW e \in Seq(S), NEW h \in Seq(S), IsStart(e, h), Len(e) = Len(h)
  PROVE  e = h
BY SeqEqual DEF IsStart

-----------------------------------------------------------------------------
(* What a step leaves alone.                                               *)

LEMMA Typed ==
  ASSUME CompressionInv
  PROVE  /\ \A s \in Sessions :
              /\ summary[s] \in Seq(Requests)
              /\ stored[s] # Absent => stored[s] \in Seq(Requests)
              /\ runtime[s] # NoObject => runtime[s].history \in Seq(Requests)
         /\ \A r \in Requests :
              /\ call[r].context \in Seq(Requests)
              /\ work[r].durable \in Seq(Requests) /\ work[r].digest \in Seq(Requests)
BY DEF CompressionInv, IInv, TypeOK, RowsTyped, Work, Object

\* Objects that are dropped, kept or loaded fit their rows.
LEMMA ObjectsReloaded ==
  ASSUME CompressionInv, UNCHANGED <<stored, summary, doubtful>>,
         \A s \in Sessions :
           \/ runtime'[s] = NoObject
           \/ runtime[s] # NoObject /\ runtime'[s].history = runtime[s].history
           \/ stored[s] # Absent /\ runtime'[s].history = stored[s]
  PROVE  SessionsFit'
<1> SUFFICES ASSUME NEW s \in Sessions
    PROVE  SessionFits(stored[s], runtime'[s], summary[s], doubtful)
  BY DEF SessionsFit
<1>1. SessionFits(stored[s], runtime[s], summary[s], doubtful)
  BY DEF CompressionInv, SessionsFit
<1>2. CASE runtime'[s] = NoObject
  BY <1>1, <1>2 DEF SessionFits
<1>3. CASE runtime[s] # NoObject /\ runtime'[s].history = runtime[s].history
  BY <1>1, <1>3 DEF SessionFits
<1>4. CASE stored[s] # Absent /\ runtime'[s].history = stored[s]
  <2>1. Len(stored[s]) \in Nat
    BY <1>4, Typed
  <2> QED BY <1>1, <1>4, <2>1 DEF SessionFits
<1> QED BY <1>2, <1>3, <1>4

\* The sessions other than s are left alone, but for more doubt.
LEMMA OtherSessionsFit ==
  ASSUME CompressionInv, NEW s \in Sessions, doubtful \subseteq doubtful',
         \A t \in Sessions \ {s} :
           stored'[t] = stored[t] /\ runtime'[t] = runtime[t] /\ summary'[t] = summary[t],
         SessionFits(stored'[s], runtime'[s], summary'[s], doubtful')
  PROVE  SessionsFit'
<1>1. ASSUME NEW t \in Sessions \ {s}
      PROVE  SessionFits(stored'[t], runtime'[t], summary'[t], doubtful')
  <2>1. SessionFits(stored[t], runtime[t], summary[t], doubtful)
    BY DEF CompressionInv, SessionsFit
  <2>2. \A h : IsSure(h, doubtful') => IsSure(h, doubtful)
    BY DEF IsSure
  <2>3. SessionFits(stored[t], runtime[t], summary[t], doubtful')
    BY <2>1, <2>2 DEF SessionFits
  <2> QED BY <2>3
<1> QED BY <1>1 DEF SessionsFit

\* The requests other than r are left alone, but for more doubt.
LEMMA OtherRequestsFit ==
  ASSUME CompressionInv, NEW r \in Requests, doubtful \subseteq doubtful',
         \A q \in Requests \ {r} : call'[q] = call[q] /\ work'[q] = work[q],
         RequestFits(call'[r], work'[r], doubtful')
  PROVE  RequestsFit'
<1>1. ASSUME NEW q \in Requests \ {r}
      PROVE  RequestFits(call'[q], work'[q], doubtful')
  <2>1. RequestFits(call[q], work[q], doubtful)
    BY DEF CompressionInv, RequestsFit
  <2>2. \A h : IsSure(h, doubtful') => IsSure(h, doubtful)
    BY DEF IsSure
  <2>3. RequestFits(call[q], work[q], doubtful')
    BY <2>1, <2>2 DEF RequestFits
  <2> QED BY <1>1, <2>3
<1> QED BY <1>1 DEF RequestsFit

\* A request that has ended has nothing left to do.
LEMMA EndedFits ==
  ASSUME CompressionInv, NEW r \in Requests, WorkDone(r)
  PROVE  /\ work'[r] = NoWork
         /\ \A q \in Requests \ {r} : work'[q] = work[q]
         /\ work' \in [Requests -> Work]
<1>1. << >> \in Seq(Requests)
  OBVIOUS
<1>2. NoWork \in Work
  BY <1>1 DEF NoWork, Work
<1> QED BY <1>2 DEF WorkDone, CompressionInv, RowsTyped

LEMMA CompressionInitInv == CompressionInit => CompressionInv
<1> SUFFICES ASSUME CompressionInit PROVE CompressionInv
  OBVIOUS
<1>1. IInv
  BY InitInv DEF CompressionInit
<1>2. << >> \in Seq(Requests)
  OBVIOUS
<1>3. RowsTyped
  BY <1>2 DEF CompressionInit, RowsTyped, NoWork, Work
<1>4. SessionsFit /\ RequestsFit
  BY DEF CompressionInit, Init, Idle, SessionsFit, SessionFits, RequestsFit, RequestFits
<1> QED BY <1>1, <1>3, <1>4 DEF CompressionInv

-----------------------------------------------------------------------------
(* Steps of the core that the summary has no part in.                      *)

LEMMA CreateFits ==
  ASSUME CompressionInv, NEW s \in Sessions, Create(s), UNCHANGED <<summary, work>>
  PROVE  CompressionInv'
<1>1. IInv'
  BY NextStep DEF Next, CompressionInv
<1>2. RowsTyped' /\ RequestsFit'
  BY DEF CompressionInv, RowsTyped, RequestsFit, Create
<1>3. SessionsFit'
  <2>1. /\ stored'[s] = << >> /\ runtime'[s].history = << >> /\ summary[s] = << >>
        /\ \A t \in Sessions \ {s} : stored'[t] = stored[t] /\ runtime'[t] = runtime[t]
    BY DEF Create, CompressionInv, IInv, TypeOK, SessionsFit, SessionFits
  <2>2. Len(<< >>) = 0 /\ Boundary(<< >>) = 0 /\ << >> \in Seq(Requests)
    BY DEF Boundary, RawTail
  <2>3. << >> # Absent
    BY <2>2, DistinctMarks
  <2>4. IsStart(<< >>, << >>)
    BY <2>2 DEF IsStart
  <2>5. SessionFits(stored'[s], runtime'[s], summary'[s], doubtful')
    BY <2>1, <2>2, <2>3, <2>4 DEF SessionFits
  <2> QED BY <2>1, <2>5, OtherSessionsFit DEF Create
<1> QED BY <1>1, <1>2, <1>3 DEF CompressionInv

LEMMA QuietStep ==
  ASSUME CompressionInv, NEW s \in Sessions, Open(s) \/ DeleteAgain(s) \/ DeleteFails(s),
         UNCHANGED <<summary, work>>
  PROVE  CompressionInv'
<1>1. IInv'
  BY NextStep DEF Next, CompressionInv
<1>2. UNCHANGED <<stored, call, doubtful>>
  BY DEF Open, DeleteAgain, DeleteFails, RolledBack
<1>3. RowsTyped' /\ RequestsFit'
  BY <1>2 DEF CompressionInv, RowsTyped, RequestsFit
<1>4. \A t \in Sessions : \/ runtime'[t] = NoObject
                          \/ runtime'[t] = runtime[t]
                          \/ stored[t] # Absent /\ runtime'[t].history = stored[t]
  BY DEF Open, DeleteAgain, DeleteFails, Loadable, CompressionInv, IInv, TypeOK
<1>5. SessionsFit'
  BY <1>2, <1>4, ObjectsReloaded
<1> QED BY <1>1, <1>3, <1>5 DEF CompressionInv

LEMMA RefusalFits ==
  ASSUME CompressionInv, NEW r \in Requests, NEW s \in Sessions,
         TurnWithoutSession(r, s) \/ TurnWhileBusy(r, s), UNCHANGED <<summary, work>>
  PROVE  CompressionInv'
<1>1. IInv'
  BY NextStep DEF Next, CompressionInv
<1>2. /\ UNCHANGED <<stored, runtime, doubtful>> /\ call[r].phase = "waiting"
      /\ call'[r].phase = "refused" /\ \A q \in Requests \ {r} : call'[q] = call[q]
  BY DEF TurnWithoutSession, TurnWhileBusy, Refused, CompressionInv, IInv, TypeOK
<1>3. RowsTyped' /\ SessionsFit'
  BY <1>2 DEF CompressionInv, RowsTyped, SessionsFit
<1>4. RequestFits(call'[r], work'[r], doubtful')
  <2>1. work[r] = NoWork
    BY <1>2 DEF CompressionInv, RequestsFit, RequestFits
  <2> QED BY <1>2, <2>1 DEF RequestFits
<1>5. RequestsFit'
  BY <1>2, <1>4, OtherRequestsFit
<1> QED BY <1>1, <1>3, <1>5 DEF CompressionInv

LEMMA DeleteFits ==
  ASSUME CompressionInv, NEW s \in Sessions, DeleteBoth(s)
  PROVE  CompressionInv'
<1>1. IInv'
  BY NextStep DEF Next, CompressionInv, DeleteBoth
<1>2. /\ stored'[s] = Absent /\ summary'[s] = << >>
      /\ \A t \in Sessions \ {s} :
           stored'[t] = stored[t] /\ runtime'[t] = runtime[t] /\ summary'[t] = summary[t]
      /\ UNCHANGED <<call, work, doubtful>>
  BY DEF DeleteBoth, Delete, CompressionInv, IInv, TypeOK, RowsTyped
<1>3. << >> \in Seq(Requests)
  OBVIOUS
<1>4. RowsTyped' /\ RequestsFit'
  BY <1>2, <1>3 DEF DeleteBoth, CompressionInv, RowsTyped, RequestsFit
<1>5. SessionsFit'
  BY <1>2, OtherSessionsFit DEF SessionFits
<1> QED BY <1>1, <1>4, <1>5 DEF CompressionInv

LEMMA RestartFits ==
  ASSUME CompressionInv, Restart, work' = [r \in Requests |-> NoWork], UNCHANGED summary
  PROVE  CompressionInv'
<1>1. IInv'
  BY NextStep DEF Next, CompressionInv
<1>2. << >> \in Seq(Requests)
  OBVIOUS
<1>3. RowsTyped'
  BY <1>2 DEF CompressionInv, RowsTyped, NoWork, Work
<1>4. SessionsFit'
  BY ObjectsReloaded DEF Restart
<1>5. RequestsFit'
  <2>1. \A r \in Requests : call'[r].phase # "generating"
    BY DEF Restart, CompressionInv, IInv, TypeOK
  <2> QED BY <2>1 DEF RequestsFit, RequestFits
<1> QED BY <1>1, <1>3, <1>4, <1>5 DEF CompressionInv

-----------------------------------------------------------------------------
(* Steps of an operation.                                                  *)

\* The history a request captures, and the summary it reads beside it.
LEMMA CapturedFits ==
  ASSUME CompressionInv, NEW s \in Sessions, Loadable(s)
  PROVE  /\ History(s) \in Seq(Requests)
         /\ IsSure(History(s), doubtful) => IsStart(summary[s], History(s))
<1>1. History(s) \in Seq(Requests)
  BY Typed DEF History, Loadable
<1>2. SessionFits(stored[s], runtime[s], summary[s], doubtful)
  BY DEF CompressionInv, SessionsFit
<1>3. CASE stored[s] = Absent
  <2>1. summary[s] = << >> /\ Len(<< >>) = 0
    BY <1>2, <1>3 DEF SessionFits
  <2> QED BY <1>1, <2>1 DEF IsStart
<1>4. CASE stored[s] # Absent
  BY <1>1, <1>2, <1>4 DEF SessionFits, History
<1> QED BY <1>1, <1>3, <1>4

LEMMA BeginStep ==
  ASSUME CompressionInv, NEW r \in Requests, NEW s \in Sessions, Begin(r, s)
  PROVE  CompressionInv'
<1> DEFINE h == History(s)
<1>1. IInv' /\ StartTurn(r, s)
  BY NextStep DEF Next, CompressionInv, Begin
<1>2. /\ UNCHANGED <<stored, summary, doubtful>> /\ Loadable(s)
      /\ call'[r] = [phase |-> "generating", session |-> s, context |-> h]
      /\ \A q \in Requests \ {r} : call'[q] = call[q]
      /\ runtime'[s].history = h /\ \A t \in Sessions \ {s} : runtime'[t] = runtime[t]
  BY <1>1 DEF Begin, StartTurn, CompressionInv, IInv, TypeOK
<1>3. h \in Seq(Requests) /\ (IsSure(h, doubtful) => IsStart(summary[s], h))
      /\ summary[s] \in Seq(Requests)
  BY <1>2, CapturedFits, Typed
<1>4. PICK kind \in {"send", "compare"} :
        work' = [work EXCEPT ![r] =
          [kind |-> kind, durable |-> summary[s], digest |-> summary[s],
           stage |-> IF Boundary(h) = Len(summary[s]) THEN "answering" ELSE "summarising"]]
  BY DEF Begin
<1>5. /\ work'[r].kind = kind /\ work'[r].durable = summary[s] /\ work'[r].digest = summary[s]
      /\ work'[r].stage = IF Boundary(h) = Len(summary[s]) THEN "answering" ELSE "summarising"
      /\ \A q \in Requests \ {r} : work'[q] = work[q]
      /\ work' \in [Requests -> Work]
  BY <1>3, <1>4 DEF CompressionInv, RowsTyped, Work
<1>6. Len(summary[s]) <= Boundary(h)
  <2>1. Boundary(h) \in Nat /\ Len(<< >>) = 0
    BY <1>3, BoundaryFacts
  <2> QED BY <2>1 DEF Begin, IsValidFor
<1>7. Boundary(h) \in Nat /\ Len(summary[s]) \in Nat
  BY <1>3, BoundaryFacts
<1>8. SessionsFit'
  <2>1. \/ runtime[s] # NoObject /\ h = runtime[s].history
        \/ stored[s] # Absent /\ h = stored[s]
    BY <1>2 DEF Loadable, History
  <2>2. \A t \in Sessions : \/ runtime'[t] = NoObject
                            \/ runtime[t] # NoObject /\ runtime'[t].history = runtime[t].history
                            \/ stored[t] # Absent /\ runtime'[t].history = stored[t]
    BY <1>2, <2>1
  <2> QED BY <1>2, <2>2, ObjectsReloaded
<1> HIDE DEF h
<1>9. RequestsFit'
  <2>1. RequestFits(call'[r], work'[r], doubtful')
    BY <1>2, <1>3, <1>5, <1>6, <1>7 DEF RequestFits
  <2> QED BY <1>2, <1>5, <2>1, OtherRequestsFit
<1>10. RowsTyped'
  BY <1>2, <1>5 DEF CompressionInv, RowsTyped
<1> QED BY <1>1, <1>8, <1>9, <1>10 DEF CompressionInv

\* An operation that ends where it began leaves the core as a failed turn does.
LEMMA BeginFailsStep ==
  ASSUME CompressionInv, NEW r \in Requests, NEW s \in Sessions, BeginFails(r, s)
  PROVE  CompressionInv'
<1> USE DEF IInv
<1> DEFINE h == History(s)
<1>0. IInv
  BY DEF CompressionInv
<1>1. /\ UNCHANGED <<stored, connected, deleted, doubtful, summary, work>> /\ Loadable(s)
      /\ ~IsBusy(s) /\ call[r].phase = "waiting" /\ h \in Seq(Requests)
  BY CapturedFits DEF BeginFails
<1>2. /\ call'[r] = [phase |-> "failed", session |-> s, context |-> h]
      /\ \A q \in Requests \ {r} : call'[q] = call[q]
      /\ call' \in [Requests -> Call]
  BY <1>0, <1>1 DEF BeginFails, TypeOK, Phases, Call
<1>3. /\ runtime'[s] = [history |-> h, busy |-> FALSE]
      /\ \A t \in Sessions \ {s} : runtime'[t] = runtime[t]
      /\ runtime' \in [Sessions -> Object \cup {NoObject}]
  BY <1>0, <1>1 DEF BeginFails, TypeOK, Object
<1>4. \/ runtime[s] # NoObject /\ h = runtime[s].history
      \/ stored[s] # Absent /\ h = stored[s]
  BY <1>1 DEF Loadable, History
<1> HIDE DEF h
<1>5. TypeOK'
  BY <1>0, <1>1, <1>2, <1>3 DEF TypeOK, Call
<1>5a. Addressed' /\ Gone'
  <2>1. \A q \in Requests : q = r \/ q \in Requests \ {r}
    OBVIOUS
  <2> QED BY <1>0, <1>1, <1>2, <2>1 DEF Addressed, Gone
<1>6. \A q \in Requests : call[q].phase = "generating" => call[q].session # s /\ q # r
  BY <1>0, <1>1 DEF Claims, IsBusy
<1>7. Claims' /\ OneTurnPerSession'
  <2>1. \A q \in Requests : call'[q].phase = "generating" =>
          /\ q # r /\ call'[q] = call[q] /\ call[q].session \in Sessions \ {s}
          /\ runtime'[call[q].session] = runtime[call[q].session]
    BY <1>0, <1>2, <1>3, <1>6 DEF Claims
  <2> QED BY <1>0, <2>1 DEF Claims, OneTurnPerSession
<1>8. Follows'
  <2>1. runtime'[s].history = h
    BY <1>3
  <2> QED BY <1>0, <1>1, <1>3, <1>4, <2>1 DEF Follows
<1>9. \A t \in Sessions : stored[t] # Absent =>
        r \notin Elements(stored[t]) /\ Elements(stored[t]) \subseteq Requests
  BY <1>0, <1>1 DEF Settled, TypeOK, Elements
<1>10. Settled' /\ AnswersTellTheTruth'
  <2>1. \A q \in Requests : q # r => call'[q] = call[q]
    BY <1>2
  <2> QED BY <1>0, <1>1, <1>2, <1>9, <2>1 DEF Settled, AnswersTellTheTruth
<1>11. ContextIsComplete'
  BY <1>0, <1>1, <1>2, CallOfUnsaved
<1>12. SessionsFit'
  <2>1. \A t \in Sessions : \/ runtime'[t] = NoObject
                            \/ runtime[t] # NoObject /\ runtime'[t].history = runtime[t].history
                            \/ stored[t] # Absent /\ runtime'[t].history = stored[t]
    <3>1. runtime'[s].history = h
      BY <1>3
    <3>2. \A t \in Sessions : t = s \/ t \in Sessions \ {s}
      OBVIOUS
    <3> QED BY <1>3, <1>4, <3>1, <3>2
  <2> QED BY <1>1, <2>1, ObjectsReloaded
<1>13. RequestsFit'
  <2>1. work[r] = NoWork
    BY <1>1 DEF CompressionInv, RequestsFit, RequestFits
  <2>2. RequestFits(call'[r], work'[r], doubtful')
    BY <1>1, <1>2, <2>1 DEF RequestFits
  <2> QED BY <1>1, <1>2, <2>2, OtherRequestsFit
<1>14. RowsTyped'
  BY <1>1 DEF CompressionInv, RowsTyped
<1> QED BY <1>5, <1>5a, <1>7, <1>8, <1>10, <1>11, <1>12, <1>13, <1>14 DEF CompressionInv

\* The summary a request was given, extended to the boundary of its context.
LEMMA CandidateFacts ==
  ASSUME CompressionInv, NEW r \in Requests,
         call[r].phase = "generating", work[r].stage = "summarising"
  PROVE  /\ Candidate(r) \in Seq(Requests)
         /\ Len(Candidate(r)) = Boundary(call[r].context)
         /\ Len(work[r].durable) < Len(Candidate(r)) /\ IsStart(work[r].durable, Candidate(r))
         /\ IsSure(call[r].context, doubtful) => IsStart(Candidate(r), call[r].context)
<1> DEFINE h == call[r].context
<1> DEFINE d == work[r].durable
<1>1. h \in Seq(Requests) /\ d \in Seq(Requests)
  BY Typed
<1>2. Len(d) < Boundary(h) /\ (IsSure(h, doubtful) => IsStart(d, h))
  BY DEF CompressionInv, RequestsFit, RequestFits
<1>3. Boundary(h) \in Nat /\ Boundary(h) <= Len(h) /\ Len(d) \in Nat
  BY <1>1, BoundaryFacts
<1>4. Candidate(r) = d \o SubSeq(h, Len(d) + 1, Boundary(h))
  BY DEF Candidate, Extended
<1> HIDE DEF h, d
<1>5. Len(d) <= Boundary(h)
  BY <1>2, <1>3
<1>6. LET e == d \o SubSeq(h, Len(d) + 1, Boundary(h)) IN
      /\ e \in Seq(Requests) /\ Len(e) = Boundary(h)
      /\ IsStart(d, e) /\ (IsStart(d, h) => IsStart(e, h))
  BY <1>1, <1>3, <1>5, ExtensionFacts
<1>7. /\ Candidate(r) \in Seq(Requests) /\ Len(Candidate(r)) = Boundary(h)
      /\ IsStart(d, Candidate(r)) /\ (IsStart(d, h) => IsStart(Candidate(r), h))
  BY <1>4, <1>6
<1> QED BY <1>2, <1>7 DEF h, d

\* The candidate becomes what the request answers with.
LEMMA PreparedFits ==
  ASSUME CompressionInv, NEW r \in Requests, NEW kind \in {"send", "compare"},
         IsSummarising(r, kind), Prepared(r), UNCHANGED <<call, doubtful>>
  PROVE  RequestsFit' /\ work' \in [Requests -> Work]
<1>1. /\ Candidate(r) \in Seq(Requests)
      /\ Len(Candidate(r)) = Boundary(call[r].context)
      /\ IsSure(call[r].context, doubtful) => IsStart(Candidate(r), call[r].context)
  BY CandidateFacts DEF IsSummarising
<1>2. /\ work'[r].kind = work[r].kind /\ work'[r].durable = work[r].durable
      /\ work'[r].stage = "answering" /\ work'[r].digest = Candidate(r)
      /\ \A q \in Requests \ {r} : work'[q] = work[q]
      /\ work' \in [Requests -> Work]
  BY <1>1 DEF Prepared, CompressionInv, RowsTyped, Work
<1>3. RequestFits(call[r], work[r], doubtful)
  BY DEF CompressionInv, RequestsFit
<1>4. RequestFits(call[r], work'[r], doubtful)
  BY <1>1, <1>2, <1>3 DEF RequestFits, IsSummarising
<1>5. RequestsFit'
  BY <1>2, <1>4, OtherRequestsFit
<1> QED BY <1>2, <1>5

\* The candidate becomes the row of the session the request holds.
LEMMA ReplacedFits ==
  ASSUME CompressionInv, NEW r \in Requests, IsSummarising(r, "send"),
         Replaces(r, call[r].session), UNCHANGED <<stored, doubtful>>,
         runtime'[call[r].session] # NoObject,
         runtime'[call[r].session].history = runtime[call[r].session].history,
         \A t \in Sessions \ {call[r].session} : runtime'[t] = runtime[t]
  PROVE  SessionsFit' /\ summary' \in [Sessions -> Seq(Requests)]
<1> DEFINE s == call[r].session
<1> DEFINE h == call[r].context
<1> DEFINE e == Candidate(r)
<1>1. s \in Sessions /\ runtime[s] # NoObject /\ h = runtime[s].history
  BY DEF IsSummarising, CompressionInv, IInv, Claims
<1>2. /\ e \in Seq(Requests) /\ Len(e) = Boundary(h)
      /\ IsSure(h, doubtful) => IsStart(e, h)
  BY CandidateFacts DEF IsSummarising
<1>3. /\ stored[s] # Absent /\ stored[s] \in Seq(Requests) /\ h \in Seq(Requests)
  BY <1>1, Typed DEF Replaces
<1>4. /\ summary'[s] = e /\ \A t \in Sessions \ {s} : summary'[t] = summary[t]
      /\ summary' \in [Sessions -> Seq(Requests)]
  BY <1>1, <1>2 DEF Replaces, CompressionInv, RowsTyped
<1> HIDE DEF e, h, s
<1>5. Len(h) <= Len(stored[s]) /\ (IsSure(stored[s], doubtful) => h = stored[s])
  BY <1>1, <1>3 DEF CompressionInv, SessionsFit, SessionFits
<1>6. Boundary(h) \in Nat /\ Boundary(h) <= Boundary(stored[s])
  BY <1>3, <1>5, BoundaryFacts
<1>7. SessionFits(stored'[s], runtime'[s], summary'[s], doubtful')
  BY <1>1, <1>2, <1>3, <1>4, <1>5, <1>6 DEF SessionFits, s
<1>8. SessionsFit'
  BY <1>1, <1>4, <1>7, OtherSessionsFit DEF s
<1> QED BY <1>4, <1>8

LEMMA SummarySavedStep ==
  ASSUME CompressionInv, NEW r \in Requests, SummarySaved(r)
  PROVE  CompressionInv'
<1>1. IInv'
  BY NextStep DEF SummarySaved, CompressionInv
<1>2. RequestsFit' /\ work' \in [Requests -> Work]
  BY PreparedFits DEF SummarySaved, vars
<1>3. SessionsFit' /\ summary' \in [Sessions -> Seq(Requests)]
  <2>1. runtime[call[r].session] # NoObject
    BY DEF SummarySaved, IsSummarising, CompressionInv, IInv, Claims
  <2> QED BY <2>1, ReplacedFits DEF SummarySaved, vars
<1> QED BY <1>1, <1>2, <1>3 DEF CompressionInv, RowsTyped

LEMMA ComparePreparesStep ==
  ASSUME CompressionInv, NEW r \in Requests, ComparePrepares(r)
  PROVE  CompressionInv'
<1>1. IInv' /\ UNCHANGED <<stored, runtime, call, doubtful, summary>>
  BY NextStep DEF ComparePrepares, CompressionInv, vars
<1>2. RequestsFit' /\ work' \in [Requests -> Work]
  BY PreparedFits DEF ComparePrepares, vars
<1> QED BY <1>1, <1>2 DEF CompressionInv, SessionsFit, RowsTyped

\* What the end of an operation leaves of the request and of the other sessions.
LEMMA EndFacts ==
  ASSUME CompressionInv, NEW r \in Requests, call[r].phase = "generating",
         NEW outcome \in {"completed", "failed"}, Answered(r, outcome),
         NEW h \in Seq(Requests), Released(call[r].session, h),
         WorkDone(r), doubtful \subseteq doubtful'
  PROVE  /\ RequestsFit' /\ work' \in [Requests -> Work]
         /\ call[r].session \in Sessions /\ runtime[call[r].session] # NoObject
         /\ runtime'[call[r].session] # NoObject
         /\ runtime'[call[r].session].history = h
         /\ \A t \in Sessions \ {call[r].session} : runtime'[t] = runtime[t]
<1> DEFINE s == call[r].session
<1>1. IInv
  BY DEF CompressionInv
<1>2. /\ call'[r].phase = outcome /\ \A q \in Requests \ {r} : call'[q] = call[q]
      /\ runtime' \in [Sessions -> Object \cup {NoObject}]
      /\ runtime'[s] = [history |-> h, busy |-> FALSE]
      /\ \A t \in Sessions \ {s} : runtime'[t] = runtime[t]
      /\ s \in Sessions /\ runtime[s] \in Object
  BY <1>1, TurnEndFacts
<1>3. [history |-> h, busy |-> FALSE] \in Object
  BY DEF Object
<1>4. runtime'[s] # NoObject /\ runtime[s] # NoObject /\ runtime'[s].history = h
  <2> HIDE DEF s
  <2>1. runtime'[s] \in Object
    BY <1>2, <1>3
  <2>2. runtime'[s].history = h
    BY <1>2
  <2> QED BY <1>2, <2>1, <2>2, DistinctMarks
<1>5. /\ work'[r] = NoWork /\ \A q \in Requests \ {r} : work'[q] = work[q]
      /\ work' \in [Requests -> Work]
  BY EndedFits
<1>6. RequestFits(call'[r], work'[r], doubtful')
  BY <1>2, <1>5 DEF RequestFits
<1>7. RequestsFit'
  <2>1. \A q \in Requests \ {r} : call'[q] = call[q] /\ work'[q] = work[q]
    BY <1>2, <1>5
  <2> QED BY <1>6, <2>1, OtherRequestsFit
<1> QED BY <1>2, <1>4, <1>5, <1>7

\* The operation ends and saves nothing more.
LEMMA FailedEndStep ==
  ASSUME CompressionInv, NEW r \in Requests,
         TurnFails(r) \/ CommitMissesSession(r) \/ CommitFails(r),
         WorkDone(r), UNCHANGED summary
  PROVE  CompressionInv'
<1>1. IInv'
  BY NextStep DEF Next, TurnEnds, CompressionInv
<1>2. /\ call[r].phase = "generating" /\ Answered(r, "failed")
      /\ Released(call[r].session, runtime[call[r].session].history)
      /\ UNCHANGED <<stored, doubtful>>
  BY DEF TurnFails, CommitMissesSession, CommitFails, RolledBack
<1>3. runtime[call[r].session].history \in Seq(Requests)
  BY <1>2, Typed DEF CompressionInv, IInv, Claims
<1>4. /\ RequestsFit' /\ work' \in [Requests -> Work]
      /\ runtime[call[r].session] # NoObject
      /\ runtime'[call[r].session].history = runtime[call[r].session].history
      /\ \A t \in Sessions \ {call[r].session} : runtime'[t] = runtime[t]
  BY <1>2, <1>3, EndFacts
<1>5. SessionsFit'
  <2>1. \A t \in Sessions : \/ runtime'[t] = NoObject
                            \/ runtime[t] # NoObject /\ runtime'[t].history = runtime[t].history
                            \/ stored[t] # Absent /\ runtime'[t].history = stored[t]
    BY <1>4
  <2> QED BY <1>2, <2>1, ObjectsReloaded
<1> QED BY <1>1, <1>4, <1>5 DEF CompressionInv, RowsTyped

LEMMA SummaryInDoubtStep ==
  ASSUME CompressionInv, NEW r \in Requests, SummaryInDoubt(r)
  PROVE  CompressionInv'
<1>1. /\ TurnFails(r) /\ WorkDone(r) /\ UNCHANGED <<stored, doubtful>>
      /\ IsSummarising(r, "send") /\ Replaces(r, call[r].session)
      /\ call[r].phase = "generating" /\ Answered(r, "failed")
      /\ Released(call[r].session, runtime[call[r].session].history)
  BY DEF SummaryInDoubt, IsSummarising, TurnFails
<1>2. IInv'
  BY <1>1, NextStep DEF Next, TurnEnds, CompressionInv
<1>3. runtime[call[r].session].history \in Seq(Requests)
  BY <1>1, Typed DEF CompressionInv, IInv, Claims
<1>4. /\ RequestsFit' /\ work' \in [Requests -> Work]
      /\ runtime'[call[r].session] # NoObject
      /\ runtime'[call[r].session].history = runtime[call[r].session].history
      /\ \A t \in Sessions \ {call[r].session} : runtime'[t] = runtime[t]
  BY <1>1, <1>3, EndFacts
<1>5. SessionsFit' /\ summary' \in [Sessions -> Seq(Requests)]
  BY <1>1, <1>4, ReplacedFits
<1> QED BY <1>2, <1>4, <1>5 DEF CompressionInv, RowsTyped

\* Appending a turn keeps a beginning, moves no boundary back, adds no doubt.
LEMMA AppendFacts ==
  ASSUME NEW S, NEW h \in Seq(S), NEW x \in S, NEW d \in Seq(S), Len(d) <= Boundary(h)
  PROVE  /\ Append(h, x) \in Seq(S) /\ Len(Append(h, x)) = Len(h) + 1 /\ Len(h) \in Nat
         /\ Len(d) <= Boundary(Append(h, x))
         /\ IsStart(d, h) => IsStart(d, Append(h, x))
         /\ \A doubts : IsSure(Append(h, x), doubts) => IsSure(h, doubts) /\ x \notin doubts
<1>1. /\ Append(h, x) \in Seq(S) /\ Len(Append(h, x)) = Len(h) + 1
      /\ Elements(Append(h, x)) = Elements(h) \cup {x}
      /\ \A i \in 1..Len(h) : Append(h, x)[i] = h[i]
  BY ElementsOfAppend
<1>2. Len(h) \in Nat /\ Len(d) \in Nat /\ Boundary(h) \in Nat /\ Boundary(h) <= Len(h)
  BY BoundaryFacts
<1>3. Boundary(h) <= Boundary(Append(h, x)) /\ Boundary(Append(h, x)) \in Nat
  <2>1. \A g \in Seq(S) : Len(h) <= Len(g) => Boundary(h) <= Boundary(g)
    BY BoundaryFacts
  <2>2. Len(h) <= Len(Append(h, x))
    BY <1>1, <1>2
  <2>3. Boundary(Append(h, x)) \in Nat
    BY <1>1, BoundaryFacts
  <2> QED BY <1>1, <2>1, <2>2, <2>3
<1>4. ASSUME IsStart(d, h) PROVE IsStart(d, Append(h, x))
  BY <1>1, <1>2, <1>4 DEF IsStart
<1>5. \A doubts : IsSure(Append(h, x), doubts) => IsSure(h, doubts) /\ x \notin doubts
  BY <1>1 DEF IsSure
<1>6. Len(d) <= Boundary(Append(h, x))
  BY <1>2, <1>3
<1> QED BY <1>1, <1>2, <1>4, <1>5, <1>6

\* A pair is saved, and the client and the object hear of it or do not.
LEMMA SavedEndStep ==
  ASSUME CompressionInv, NEW r \in Requests, CommitSucceeds(r) \/ CommitInDoubt(r),
         WorkDone(r), UNCHANGED summary
  PROVE  CompressionInv'
<1> DEFINE s == call[r].session
<1> DEFINE row == stored[s]
<1> DEFINE h == runtime[s].history
<1>1. IInv'
  BY NextStep DEF Next, TurnEnds, CompressionInv
<1>2. /\ call[r].phase = "generating" /\ row # Absent
      /\ stored' = [stored EXCEPT ![s] = Append(@, r)] /\ doubtful \subseteq doubtful'
  BY DEF CommitSucceeds, CommitInDoubt
<1>3. s \in Sessions /\ runtime[s] # NoObject
  BY <1>2 DEF CompressionInv, IInv, Claims
<1>4. row \in Seq(Requests) /\ h \in Seq(Requests) /\ summary[s] \in Seq(Requests)
  BY <1>2, <1>3, Typed
<1>5. SessionFits(row, runtime[s], summary[s], doubtful)
  BY <1>3 DEF CompressionInv, SessionsFit
<1>6. /\ stored'[s] = Append(row, r) /\ \A t \in Sessions \ {s} : stored'[t] = stored[t]
  BY <1>2, <1>3 DEF CompressionInv, IInv, TypeOK
<1> HIDE DEF row
<1>7. /\ Append(row, r) \in Seq(Requests) /\ Len(Append(row, r)) = Len(row) + 1
      /\ Len(row) \in Nat
      /\ Len(summary[s]) <= Boundary(Append(row, r))
      /\ IsStart(summary[s], row) => IsStart(summary[s], Append(row, r))
      /\ \A doubts : IsSure(Append(row, r), doubts) => IsSure(row, doubts) /\ r \notin doubts
  BY <1>2, <1>4, <1>5, AppendFacts DEF SessionFits
<1>8. /\ Append(h, r) \in Seq(Requests) /\ Len(Append(h, r)) = Len(h) + 1 /\ Len(h) \in Nat
      /\ Len(summary[s]) <= Boundary(Append(h, r))
      /\ IsStart(summary[s], h) => IsStart(summary[s], Append(h, r))
      /\ \A doubts : IsSure(Append(h, r), doubts) => IsSure(h, doubts) /\ r \notin doubts
  BY <1>2, <1>3, <1>4, <1>5, AppendFacts DEF SessionFits
<1>9. \A x : IsSure(x, doubtful') => IsSure(x, doubtful)
  BY <1>2 DEF IsSure
<1>10. Append(row, r) # Absent
  BY <1>7, DistinctMarks
<1> HIDE DEF h
<1>11. /\ RequestsFit' /\ work' \in [Requests -> Work]
       /\ \A t \in Sessions \ {s} : runtime'[t] = runtime[t]
       /\ runtime'[s] # NoObject
       /\ \/ runtime'[s].history = Append(h, r)
          \/ runtime'[s].history = h /\ r \in doubtful'
  <2>1. CASE CommitSucceeds(r)
    <3>1. Answered(r, "completed") /\ Released(s, Append(h, r))
      BY <2>1 DEF CommitSucceeds, h
    <3> QED BY <1>2, <1>8, <3>1, EndFacts
  <2>2. CASE CommitInDoubt(r)
    <3>1. Answered(r, "failed") /\ Released(s, h) /\ r \in doubtful'
      BY <2>2 DEF CommitInDoubt, h
    <3> QED BY <1>2, <1>4, <3>1, EndFacts
  <2> QED BY <2>1, <2>2
<1>12. SessionFits(stored'[s], runtime'[s], summary'[s], doubtful')
  <2>1. /\ Len(h) <= Len(row) /\ Len(summary[s]) <= Boundary(h)
        /\ IsSure(row, doubtful) => h = row /\ IsStart(summary[s], row)
        /\ IsSure(h, doubtful) => IsStart(summary[s], h)
    BY <1>2, <1>3, <1>5 DEF SessionFits, h
  <2>2. IsSure(Append(row, r), doubtful') =>
          /\ r \notin doubtful' /\ h = row /\ IsStart(summary[s], Append(row, r))
    BY <1>7, <1>9, <2>1
  <2>3. CASE runtime'[s].history = Append(h, r)
    <3>1. Len(Append(h, r)) <= Len(Append(row, r))
      BY <1>7, <1>8, <2>1
    <3>2. IsSure(Append(h, r), doubtful') => IsStart(summary[s], Append(h, r))
      BY <1>8, <1>9, <2>1
    <3> QED BY <1>6, <1>7, <1>8, <1>10, <2>2, <2>3, <3>1, <3>2 DEF SessionFits
  <2>4. CASE runtime'[s].history = h /\ r \in doubtful'
    <3>1. Len(h) <= Len(Append(row, r))
      BY <1>7, <1>8, <2>1
    <3> QED BY <1>6, <1>7, <1>9, <1>10, <2>1, <2>2, <2>4, <3>1 DEF SessionFits
  <2> QED BY <1>11, <2>3, <2>4
<1>13. SessionsFit'
  BY <1>2, <1>3, <1>6, <1>11, <1>12, OtherSessionsFit
<1> QED BY <1>1, <1>11, <1>13 DEF CompressionInv, RowsTyped

LEMMA CompressionNextStep ==
  ASSUME CompressionInv, [CompressionNext]_compressionVars
  PROVE  CompressionInv'
<1>1. CASE \E s \in Sessions :
             \/ (Create(s) \/ Open(s) \/ DeleteAgain(s) \/ DeleteFails(s))
                  /\ UNCHANGED <<summary, work>>
             \/ DeleteBoth(s)
  BY <1>1, CreateFits, QuietStep, DeleteFits
<1>2. CASE \E r \in Requests, s \in Sessions :
             \/ Begin(r, s) \/ BeginFails(r, s)
             \/ (TurnWithoutSession(r, s) \/ TurnWhileBusy(r, s)) /\ UNCHANGED <<summary, work>>
  BY <1>2, BeginStep, BeginFailsStep, RefusalFits
<1>3. CASE \E r \in Requests :
             \/ SummarySaved(r) \/ SummaryInDoubt(r) \/ ComparePrepares(r)
             \/ EndsWithoutCommit(r)
  BY <1>3, SummarySavedStep, SummaryInDoubtStep, ComparePreparesStep, FailedEndStep
     DEF EndsWithoutCommit
<1>4. CASE \E r \in Requests : SummaryNotSaved(r)
  <2>1. PICK r \in Requests : SummaryNotSaved(r)
    BY <1>4
  <2>2. CommitFails(r) /\ WorkDone(r) /\ UNCHANGED summary
    BY <2>1 DEF SummaryNotSaved, CommitFails, IsSummarising
  <2> QED BY <2>2, FailedEndStep
<1>5. CASE \E r \in Requests : EndsAtCommit(r)
  BY <1>5, FailedEndStep, SavedEndStep DEF EndsAtCommit
<1>6. CASE Restart /\ work' = [r \in Requests |-> NoWork] /\ UNCHANGED summary
  BY <1>6, RestartFits
<1>7. CASE UNCHANGED compressionVars
  <2>1. IInv'
    BY <1>7, NextStep DEF compressionVars, vars, CompressionInv
  <2> QED BY <1>7, <2>1 DEF compressionVars, CompressionInv, RowsTyped, SessionsFit, RequestsFit
<1> QED BY <1>1, <1>2, <1>3, <1>4, <1>5, <1>6, <1>7 DEF CompressionNext

-----------------------------------------------------------------------------
(* The invariant of compression holds in every reachable state.            *)
THEOREM CompressionInvariance == CompressionSpec => []CompressionInv
<1>1. CompressionInit => CompressionInv
  BY CompressionInitInv
<1>2. CompressionInv /\ [CompressionNext]_compressionVars => CompressionInv'
  BY CompressionNextStep
<1> QED BY <1>1, <1>2, PTL DEF CompressionSpec

(* Every variable keeps its type, and no summarizer is asked for nothing.  *)
THEOREM CompressionTypeCorrect == CompressionSpec => []CompressionTypeOK
<1>1. CompressionInv => CompressionTypeOK
  <2> SUFFICES ASSUME CompressionInv PROVE CompressionTypeOK
    OBVIOUS
  <2>1. TypeOK /\ RowsTyped
    BY DEF CompressionInv, IInv
  <2>2. ASSUME NEW r \in Requests, work[r].stage = "summarising"
        PROVE  Boundary(call[r].context) > Len(work[r].durable)
    <3>1. RequestFits(call[r], work[r], doubtful)
      BY DEF CompressionInv, RequestsFit
    <3>2. Len(work[r].durable) < Boundary(call[r].context)
      BY <2>2, <3>1 DEF RequestFits, NoWork
    <3>3. Len(work[r].durable) \in Nat /\ Boundary(call[r].context) \in Nat
      BY Typed, BoundaryFacts
    <3> QED BY <3>2, <3>3
  <2> QED BY <2>1, <2>2 DEF CompressionTypeOK, RowsTyped, Work
<1> QED BY <1>1, CompressionInvariance, PTL

(* For conversations of any length: what is sent is the whole conversation *)
(* once and in order, the last two turns raw, but where a commit was in    *)
(* doubt.                                                                  *)
THEOREM ContextsAreWhole == CompressionSpec => []ContextIsWhole
<1>1. CompressionInv => ContextIsWhole
  <2> SUFFICES ASSUME CompressionInv, NEW r \in Requests, NEW kind \in {"send", "compare"},
                      IsAnswering(r, kind), Elements(call[r].context) \cap doubtful = {}
      PROVE  /\ SentContext(r) = call[r].context
             /\ Len(call[r].context) - Len(work[r].digest)
                  = IF Len(call[r].context) < RawTail THEN Len(call[r].context) ELSE RawTail
    BY DEF ContextIsWhole
  <2> DEFINE h == call[r].context
  <2> DEFINE d == work[r].digest
  <2>1. h \in Seq(Requests) /\ d \in Seq(Requests)
    BY Typed
  <2>2. RequestFits(call[r], work[r], doubtful)
    BY DEF CompressionInv, RequestsFit
  <2>3. Len(d) = Boundary(h) /\ IsStart(d, h)
    BY <2>2 DEF RequestFits, IsAnswering, IsSure
  <2>4. SentContext(r) = d \o SubSeq(h, Len(d) + 1, Len(h))
    BY DEF SentContext
  <2> HIDE DEF h, d
  <2>5. /\ Boundary(h) \in Nat /\ Len(h) \in Nat /\ Boundary(h) <= Len(h)
        /\ Len(h) - Boundary(h) = IF Len(h) < RawTail THEN Len(h) ELSE RawTail
    BY <2>1, BoundaryFacts
  <2>6. Len(d) <= Len(h)
    BY <2>3, <2>5
  <2>7. LET e == d \o SubSeq(h, Len(d) + 1, Len(h)) IN
        e \in Seq(Requests) /\ Len(e) = Len(h) /\ IsStart(e, h)
    BY <2>1, <2>3, <2>5, <2>6, ExtensionFacts
  <2>8. SentContext(r) = h
    BY <2>1, <2>4, <2>7, WholeIsEqual
  <2> QED BY <2>3, <2>5, <2>8 DEF h, d
<1> QED BY <1>1, CompressionInvariance, PTL

(* A row the program wrote is never refused as corrupt, not after a failed *)
(* pair and not after a restart, and no row outlives its session.          *)
THEOREM SummariesAreReadable == CompressionSpec => []SummaryIsReadable
<1>1. CompressionInv => SummaryIsReadable
  BY DEF CompressionInv, SessionsFit, SessionFits, SummaryIsReadable, IsValidFor
<1> QED BY <1>1, CompressionInvariance, PTL

\* What one step may do to the summary of a session.
LEMMA AdvanceStep ==
  ASSUME CompressionInv, [CompressionNext]_compressionVars, NEW s \in Sessions,
         summary'[s] # summary[s]
  PROVE  \/ stored'[s] = Absent
         \/ /\ Len(summary[s]) < Len(summary'[s])
            /\ SubSeq(summary'[s], 1, Len(summary[s])) = summary[s]
            /\ \E r \in Requests : IsSummarising(r, "send") /\ call[r].session = s
<1>1. CASE \E t \in Sessions : DeleteBoth(t)
  <2>1. PICK t \in Sessions : DeleteBoth(t)
    BY <1>1
  <2>2. stored'[t] = Absent /\ \A u \in Sessions \ {t} : summary'[u] = summary[u]
    BY <2>1 DEF DeleteBoth, Delete, CompressionInv, IInv, TypeOK, RowsTyped
  <2> QED BY <2>2
<1>2. CASE \E r \in Requests : SummarySaved(r) \/ SummaryInDoubt(r)
  <2>1. PICK r \in Requests : IsSummarising(r, "send") /\ Replaces(r, call[r].session)
    BY <1>2 DEF SummarySaved, SummaryInDoubt
  <2>2. /\ Candidate(r) \in Seq(Requests) /\ Len(work[r].durable) < Len(Candidate(r))
        /\ IsStart(work[r].durable, Candidate(r))
    BY <2>1, CandidateFacts DEF IsSummarising
  <2>3. call[r].session \in Sessions
    BY <2>1 DEF IsSummarising, CompressionInv, IInv, Claims
  <2>4. /\ call[r].session = s /\ summary[s] = work[r].durable /\ summary'[s] = Candidate(r)
    BY <2>1, <2>3 DEF Replaces, CompressionInv, RowsTyped
  <2>5. SubSeq(summary'[s], 1, Len(summary[s])) = summary[s]
    BY <2>2, <2>4, Typed, StartIsSubSeq
  <2> QED BY <2>1, <2>2, <2>4, <2>5
<1>3. CASE UNCHANGED summary
  BY <1>3
<1> QED
  BY <1>1, <1>2, <1>3 DEF CompressionNext, compressionVars, Begin, BeginFails,
     SummaryNotSaved, ComparePrepares, EndsWithoutCommit, EndsAtCommit

(* No failure takes a summary back and no comparison leaves a trace: a row *)
(* grows under a send that holds its session, or goes with the session.    *)
THEOREM SummariesAdvance == CompressionSpec => SummaryOnlyAdvances
<1>1. CompressionInv /\ [CompressionNext]_compressionVars =>
        [\A s \in Sessions : summary'[s] # summary[s] =>
           \/ stored'[s] = Absent
           \/ /\ Len(summary[s]) < Len(summary'[s])
              /\ SubSeq(summary'[s], 1, Len(summary[s])) = summary[s]
              /\ \E r \in Requests : IsSummarising(r, "send") /\ call[r].session = s]_compressionVars
  BY AdvanceStep
<1> QED BY <1>1, CompressionInvariance, PTL DEF CompressionSpec, SummaryOnlyAdvances
=============================================================================
