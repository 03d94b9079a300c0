------------------------- MODULE HistoryCompression -------------------------
(***************************************************************************)
(* Day 09: the conversation core with a rolling summary.  Before the       *)
(* generation a turn may await a summarizer and save what it returns in a  *)
(* row beside the session; a comparison claims the session the same way,   *)
(* summarises for itself and saves nothing.                                *)
(*                                                                         *)
(* The boundary of a summary lies between pairs, so it is counted in turns *)
(* where the code counts messages: a tail of four messages is two turns.   *)
(* A summary is the sequence of turns its text was made from; the empty    *)
(* one stands for a session that has no row.                               *)
(***************************************************************************)
EXTENDS Conversation

VARIABLES
  summary,       \* per session, the turns its row covers
  work           \* per request, its operation beyond what call tells

compressionVars == <<stored, runtime, call, connected, deleted, doubtful, summary, work>>

RawTail == 2

NoWork == [kind |-> "none", stage |-> "none", durable |-> << >>, digest |-> << >>]

CompressionInit == Init /\ summary = [s \in Sessions |-> << >>]
                        /\ work = [r \in Requests |-> NoWork]

(* How many turns of a history its summary has to cover.                   *)
Boundary(history) == IF Len(history) > RawTail THEN Len(history) - RawTail ELSE 0

(* validate_summary: a summary leaves the raw tail of the history alone.   *)
IsValidFor(digest, history) == digest = << >> \/ Len(digest) <= Boundary(history)

\* Seeded fault: the slice replays what the last summary covers.
ExtendedFromStart(durable, history) == durable \o SubSeq(history, 1, Boundary(history))

(* What the summarizer makes of the last summary and the turns that have   *)
(* become eligible since.                                                  *)
Extended(durable, history) ==
  durable \o SubSeq(history, Len(durable) + 1, Boundary(history))

(* The summary and the raw turns that are sent before the new message.     *)
SentContext(r) ==
  work[r].digest \o SubSeq(call[r].context, Len(work[r].digest) + 1, Len(call[r].context))

-----------------------------------------------------------------------------
(* POST messages or compare: claim the session and read its summary.  The  *)
(* summarizer is asked only when the boundary has moved.                   *)
Begin(r, s) ==
  /\ StartTurn(r, s)
  /\ connected /\ IsValidFor(summary[s], History(s))
  /\ \E kind \in {"send", "compare"} :
       work' = [work EXCEPT ![r] =
         [kind |-> kind, durable |-> summary[s], digest |-> summary[s],
          stage |-> IF Boundary(History(s)) = Len(summary[s])
                    THEN "answering" ELSE "summarising"]]
  /\ UNCHANGED summary

(* The summary cannot be read or is not one of this history: the operation *)
(* ends where it began.                                                    *)
BeginFails(r, s) ==
  /\ call[r].phase = "waiting"
  /\ Loadable(s) /\ ~IsBusy(s)
  /\ ~(connected /\ IsValidFor(summary[s], History(s)))
  /\ runtime' = [runtime EXCEPT ![s] = [history |-> History(s), busy |-> FALSE]]
  /\ call' = [call EXCEPT ![r] = [phase |-> "failed", session |-> s, context |-> History(s)]]
  /\ UNCHANGED <<stored, connected, deleted, doubtful, summary, work>>

IsSummarising(r, kind) ==
  call[r].phase = "generating" /\ work[r].kind = kind /\ work[r].stage = "summarising"
IsAnswering(r, kind) ==
  call[r].phase = "generating" /\ work[r].kind = kind /\ work[r].stage = "answering"

WorkDone(r) == work' = [work EXCEPT ![r] = NoWork]
Candidate(r) == Extended(work[r].durable, call[r].context)
Prepared(r) == work' = [work EXCEPT ![r].stage = "answering", ![r].digest = Candidate(r)]

(* The row is replaced under the transaction that compares it with the one *)
(* read before the await; its foreign key needs the session.               *)
Replaces(r, s) ==
  /\ connected /\ stored[s] # Absent /\ summary[s] = work[r].durable
  /\ summary' = [summary EXCEPT ![s] = Candidate(r)]

SummarySaved(r) ==
  /\ IsSummarising(r, "send")
  /\ Replaces(r, call[r].session)
  /\ Prepared(r)
  /\ UNCHANGED vars

(* The row was not written, and the summary that was paid for is not used. *)
SummaryNotSaved(r) ==
  LET s == call[r].session IN
  /\ IsSummarising(r, "send")
  /\ RolledBack
  /\ Released(s, runtime[s].history)
  /\ Answered(r, "failed")
  /\ WorkDone(r)
  /\ UNCHANGED summary

(* COMMIT reports an error after the summary became durable.               *)
SummaryInDoubt(r) ==
  LET s == call[r].session IN
  /\ IsSummarising(r, "send")
  /\ Replaces(r, s)
  /\ Released(s, runtime[s].history)
  /\ Answered(r, "failed")
  /\ WorkDone(r)
  /\ UNCHANGED <<stored, connected, deleted, doubtful>>

\* Seeded fault: a comparison prepared by the policy of a send, which saves.
ComparePreparesAsSend(r) ==
  /\ IsSummarising(r, "compare")
  /\ Replaces(r, call[r].session)
  /\ Prepared(r)
  /\ UNCHANGED vars

(* A comparison keeps its candidate to itself.                             *)
ComparePrepares(r) ==
  /\ IsSummarising(r, "compare")
  /\ Prepared(r)
  /\ UNCHANGED <<vars, summary>>

(* The summarizer, the token count or the generation fails, the deadline   *)
(* passes, or a comparison is done: nothing more is saved.                 *)
EndsWithoutCommit(r) == TurnFails(r) /\ WorkDone(r) /\ UNCHANGED summary

EndsAtCommit(r) ==
  /\ IsAnswering(r, "send")
  /\ CommitSucceeds(r) \/ CommitMissesSession(r) \/ CommitFails(r) \/ CommitInDoubt(r)
  /\ WorkDone(r)
  /\ UNCHANGED summary

\* Seeded fault: the summary table without ON DELETE CASCADE.
DeleteLeavesSummary(s) == Delete(s) /\ UNCHANGED <<summary, work>>

(* The row of the summary goes with the session's.                         *)
DeleteBoth(s) ==
  /\ Delete(s)
  /\ summary' = [summary EXCEPT ![s] = << >>]
  /\ UNCHANGED work

CompressionNext ==
  \/ \E s \in Sessions :
       \/ (Create(s) \/ Open(s) \/ DeleteAgain(s) \/ DeleteFails(s)) /\ UNCHANGED <<summary, work>>
       \/ DeleteBoth(s)
  \/ \E r \in Requests, s \in Sessions :
       \/ Begin(r, s) \/ BeginFails(r, s)
       \/ (TurnWithoutSession(r, s) \/ TurnWhileBusy(r, s)) /\ UNCHANGED <<summary, work>>
  \/ \E r \in Requests :
       \/ SummarySaved(r) \/ SummaryNotSaved(r) \/ SummaryInDoubt(r)
       \/ ComparePrepares(r) \/ EndsWithoutCommit(r) \/ EndsAtCommit(r)
  \/ Restart /\ work' = [r \in Requests |-> NoWork] /\ UNCHANGED summary

CompressionSpec == CompressionInit /\ [][CompressionNext]_compressionVars

-----------------------------------------------------------------------------
(* Type invariant; and nobody waits for a summarizer that has nothing new  *)
(* to digest.                                                              *)
CompressionTypeOK ==
  /\ TypeOK
  /\ summary \in [Sessions -> Seq(Requests)]
  /\ work \in [Requests -> [kind : {"none", "send", "compare"},
                            stage : {"none", "summarising", "answering"},
                            durable : Seq(Requests), digest : Seq(Requests)]]
  /\ \A r \in Requests : work[r].stage = "summarising" =>
       Boundary(call[r].context) > Len(work[r].durable)

(* The model is sent every turn of the conversation once and in order, the *)
(* older ones in the summary and the last two raw: no gap between summary  *)
(* and tail and no overlap, whatever failed, was saved or restarted since  *)
(* the summary began.  A history with a doubtful turn is the exception:    *)
(* the summary may have been made while the process did not know of it.    *)
ContextIsWhole ==
  \A r \in Requests : \A kind \in {"send", "compare"} :
    IsAnswering(r, kind) /\ Elements(call[r].context) \cap doubtful = {} =>
      /\ SentContext(r) = call[r].context
      /\ Len(call[r].context) - Len(work[r].digest)
           = IF Len(call[r].context) < RawTail THEN Len(call[r].context) ELSE RawTail

(* A summary is never refused as corrupt when the program wrote it: it     *)
(* fits the stored turns and the runtime history, also where these differ, *)
(* and it is gone with its session.                                        *)
SummaryIsReadable ==
  \A s \in Sessions :
    IF stored[s] = Absent THEN summary[s] = << >>
    ELSE /\ IsValidFor(summary[s], stored[s])
         /\ runtime[s] # NoObject => IsValidFor(summary[s], runtime[s].history)

(* A summary changes only by growing, under a send that holds its session, *)
(* until the session is deleted: no failure afterwards takes it back, and  *)
(* no comparison leaves a trace.                                           *)
SummaryOnlyAdvances ==
  [][\A s \in Sessions : summary'[s] # summary[s] =>
       \/ stored'[s] = Absent
       \/ /\ Len(summary[s]) < Len(summary'[s])
          /\ SubSeq(summary'[s], 1, Len(summary[s])) = summary[s]
          /\ \E r \in Requests : IsSummarising(r, "send") /\ call[r].session = s]_compressionVars

(* As the specification of day 9 has it: after a commit that was not       *)
(* confirmed the state is what the store says.  So an operation begins on  *)
(* the stored turns of its session.  The code keeps the runtime history,   *)
(* which lacks a turn whose commit was in doubt.                           *)
DoubtIsReadBack ==
  [][\A r \in Requests : call[r].phase = "waiting" /\ call'[r].phase = "generating" =>
       LET s == call'[r].session IN
       stored[s] # Absent => call'[r].context = stored[s]]_compressionVars
=============================================================================
