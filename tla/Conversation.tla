---------------------------- MODULE Conversation ----------------------------
(***************************************************************************)
(* The conversation core of the backend (days 06 to 09): SimpleAgent runs  *)
(* a turn, AgentSessionManager keeps one runtime object per session and    *)
(* SQLiteConversationStore keeps the confirmed turns.  All handlers run on *)
(* one event loop and only the generation suspends them, so a handler is   *)
(* one action up to that await and one action after it.                    *)
(*                                                                         *)
(* A turn is the user/assistant pair that one message request commits; it  *)
(* is named by its request.  The context a turn was generated from is the  *)
(* sequence of turns its request captured.                                 *)
(***************************************************************************)
EXTENDS Naturals, Sequences

CONSTANTS
  Sessions,      \* the session ids the store may hand out
  Requests,      \* the message requests, each sent once
  NoSession,     \* a request that has not been sent
  Absent,        \* no row in the store
  NoObject       \* no object in the manager's dictionary


VARIABLES
  stored,        \* per session, its confirmed turns, or Absent
  runtime,       \* per session, the AgentSession object, or NoObject
  call,          \* per request, where its handler stands
  connected,     \* the store still has its connection
  deleted,       \* the sessions whose row was once deleted
  doubtful       \* turns that are durable although their commit failed

vars == <<stored, runtime, call, connected, deleted, doubtful>>

Object == [history : Seq(Requests), busy : BOOLEAN]

ASSUME DistinctMarks ==
  Absent \notin Seq(Requests) /\ NoSession \notin Sessions /\ NoObject \notin Object

Idle == [phase |-> "waiting", session |-> NoSession, context |-> << >>]

Init ==
  /\ stored = [s \in Sessions |-> Absent]
  /\ runtime = [s \in Sessions |-> NoObject]
  /\ call = [r \in Requests |-> Idle]
  /\ connected = TRUE
  /\ deleted = {}
  /\ doubtful = {}

Elements(h) == {h[i] : i \in DOMAIN h}

(* A commit the caller is told has failed: the transaction was rolled back *)
(* and, where the rollback itself failed, the connection closed.           *)
RolledBack ==
  /\ connected' \in {connected, FALSE}
  /\ UNCHANGED <<stored, deleted, doubtful>>

Refused(r, s) ==
  call' = [call EXCEPT ![r] = [phase |-> "refused", session |-> s, context |-> << >>]]
Answered(r, outcome) == call' = [call EXCEPT ![r].phase = outcome]

(* The runtime history of s as AgentSessionManager.get finds or loads it.  *)
Loadable(s) == runtime[s] # NoObject \/ (connected /\ stored[s] # Absent)
History(s) == IF runtime[s] # NoObject THEN runtime[s].history ELSE stored[s]
IsBusy(s) == runtime[s] # NoObject /\ runtime[s].busy

-----------------------------------------------------------------------------
(* POST /sessions: the row first, then the object.  A creation that fails  *)
(* is one whose id no client ever learns.                                  *)
Create(s) ==
  /\ connected
  /\ stored[s] = Absent /\ runtime[s] = NoObject /\ s \notin deleted
  /\ stored' = [stored EXCEPT ![s] = << >>]
  /\ runtime' = [runtime EXCEPT ![s] = [history |-> << >>, busy |-> FALSE]]
  /\ UNCHANGED <<call, connected, deleted, doubtful>>

(* GET /sessions/{id}: loads a session the process has not met.            *)
Open(s) ==
  /\ Loadable(s) /\ runtime[s] = NoObject
  /\ runtime' = [runtime EXCEPT ![s] = [history |-> stored[s], busy |-> FALSE]]
  /\ UNCHANGED <<stored, call, connected, deleted, doubtful>>

\* Seeded fault: begin_turn without ensure_available.
StartTurnUnclaimed(r, s) ==
  /\ call[r].phase = "waiting"
  /\ Loadable(s)
  /\ runtime' = [runtime EXCEPT ![s] = [history |-> History(s), busy |-> TRUE]]
  /\ call' = [call EXCEPT ![r] = [phase |-> "generating", session |-> s,
                                  context |-> History(s)]]
  /\ UNCHANGED <<stored, connected, deleted, doubtful>>

(* POST messages, up to the await: find the session, claim it, capture the *)
(* context.                                                                *)
StartTurn(r, s) ==
  /\ call[r].phase = "waiting"
  /\ Loadable(s) /\ ~IsBusy(s)
  /\ runtime' = [runtime EXCEPT ![s] = [history |-> History(s), busy |-> TRUE]]
  /\ call' = [call EXCEPT ![r] = [phase |-> "generating", session |-> s,
                                  context |-> History(s)]]
  /\ UNCHANGED <<stored, connected, deleted, doubtful>>

(* 404 or 500: no such session, or the store cannot be read.               *)
TurnWithoutSession(r, s) ==
  /\ call[r].phase = "waiting"
  /\ runtime[s] = NoObject
  /\ s \in deleted \/ stored[s] # Absent
  /\ Refused(r, s)
  /\ UNCHANGED <<stored, runtime, connected, deleted, doubtful>>

(* 409: another turn of the session is running.                            *)
TurnWhileBusy(r, s) ==
  /\ call[r].phase = "waiting"
  /\ IsBusy(s)
  /\ Refused(r, s)
  /\ UNCHANGED <<stored, runtime, connected, deleted, doubtful>>

\* Seeded fault: end_turn left out of the finally clause.
ReleasedNever(s, history) ==
  runtime' = [runtime EXCEPT ![s] = [history |-> history, busy |-> TRUE]]

(* end_turn, in the finally clause of every path of a turn.                *)
Released(s, history) ==
  runtime' = [runtime EXCEPT ![s] = [history |-> history, busy |-> FALSE]]

(* The provider fails, refuses, is cut off or cancelled, or the token      *)
(* count forbids the generation.                                           *)
TurnFails(r) ==
  LET s == call[r].session IN
  /\ call[r].phase = "generating"
  /\ Released(s, runtime[s].history)
  /\ Answered(r, "failed")
  /\ UNCHANGED <<stored, connected, deleted, doubtful>>

(* AgentSession.commit: the store first, the runtime history after it.     *)
CommitSucceeds(r) ==
  LET s == call[r].session IN
  /\ call[r].phase = "generating"
  /\ connected /\ stored[s] # Absent
  /\ stored' = [stored EXCEPT ![s] = Append(@, r)]
  /\ Released(s, Append(runtime[s].history, r))
  /\ Answered(r, "completed")
  /\ UNCHANGED <<connected, deleted, doubtful>>

\* Seeded fault: append_turn makes the session row anew when it is missing.
CommitRecreatesSession(r) ==
  LET s == call[r].session IN
  /\ call[r].phase = "generating"
  /\ connected /\ stored[s] = Absent
  /\ stored' = [stored EXCEPT ![s] = <<r>>]
  /\ Released(s, Append(runtime[s].history, r))
  /\ Answered(r, "completed")
  /\ UNCHANGED <<connected, deleted, doubtful>>

(* append_turn finds no session row: SessionNotFound.                      *)
CommitMissesSession(r) ==
  LET s == call[r].session IN
  /\ call[r].phase = "generating"
  /\ connected /\ stored[s] = Absent
  /\ Released(s, runtime[s].history)
  /\ Answered(r, "failed")
  /\ UNCHANGED <<stored, connected, deleted, doubtful>>

\* Seeded fault: a storage error swallowed: the answer is sent as if committed.
CommitFailureSwallowed(r) ==
  LET s == call[r].session IN
  /\ call[r].phase = "generating"
  /\ RolledBack
  /\ Released(s, Append(runtime[s].history, r))
  /\ Answered(r, "completed")

\* Seeded fault: the runtime history assigned before append_turn.
CommitPublishesFirst(r) ==
  LET s == call[r].session IN
  /\ call[r].phase = "generating"
  /\ RolledBack
  /\ Released(s, Append(runtime[s].history, r))
  /\ Answered(r, "failed")

CommitFails(r) ==
  LET s == call[r].session IN
  /\ call[r].phase = "generating"
  /\ RolledBack
  /\ Released(s, runtime[s].history)
  /\ Answered(r, "failed")

(* COMMIT reports an error after the pair became durable.                  *)
CommitInDoubt(r) ==
  LET s == call[r].session IN
  /\ call[r].phase = "generating"
  /\ connected /\ stored[s] # Absent
  /\ stored' = [stored EXCEPT ![s] = Append(@, r)]
  /\ doubtful' = doubtful \cup {r}
  /\ Released(s, runtime[s].history)
  /\ Answered(r, "failed")
  /\ UNCHANGED <<connected, deleted>>

(* DELETE /sessions/{id}: refused while a turn runs; the object goes only  *)
(* after the row.                                                          *)
Delete(s) ==
  /\ ~IsBusy(s) /\ connected /\ stored[s] # Absent
  /\ stored' = [stored EXCEPT ![s] = Absent]
  /\ deleted' = deleted \cup {s}
  /\ \/ runtime' = [runtime EXCEPT ![s] = NoObject]
     \/ UNCHANGED runtime                      \* COMMIT reported an error
  /\ UNCHANGED <<call, connected, doubtful>>

(* Deleting a session whose row is gone drops what the process still has.  *)
DeleteAgain(s) ==
  /\ runtime[s] # NoObject /\ ~IsBusy(s) /\ connected /\ stored[s] = Absent
  /\ runtime' = [runtime EXCEPT ![s] = NoObject]
  /\ UNCHANGED <<stored, call, connected, deleted, doubtful>>

DeleteFails(s) ==
  /\ ~IsBusy(s) /\ connected /\ stored[s] # Absent
  /\ RolledBack
  /\ UNCHANGED <<runtime, call>>

(* The process ends and starts again: only the database is left.           *)
Restart ==
  /\ runtime' = [s \in Sessions |-> NoObject]
  /\ call' = [r \in Requests |-> IF call[r].phase = "generating"
                                 THEN [call[r] EXCEPT !.phase = "lost"] ELSE call[r]]
  /\ connected' = TRUE
  /\ UNCHANGED <<stored, deleted, doubtful>>

TurnEnds(r) == \/ TurnFails(r) \/ CommitSucceeds(r) \/ CommitMissesSession(r)
               \/ CommitFails(r) \/ CommitInDoubt(r)

Next ==
  \/ \E s \in Sessions : Create(s) \/ Open(s) \/ Delete(s) \/ DeleteAgain(s) \/ DeleteFails(s)
  \/ \E r \in Requests, s \in Sessions :
       StartTurn(r, s) \/ TurnWithoutSession(r, s) \/ TurnWhileBusy(r, s)
  \/ \E r \in Requests : TurnEnds(r)
  \/ Restart

(* The provider client has a timeout, so a generation ends one way or      *)
(* another.                                                                *)
Spec == Init /\ [][Next]_vars
FairSpec == Spec /\ \A r \in Requests : WF_vars(TurnEnds(r))

-----------------------------------------------------------------------------
Phases == {"waiting", "generating", "completed", "failed", "refused", "lost"}

(* Type invariant.                                                         *)
TypeOK ==
  /\ stored \in [Sessions -> Seq(Requests) \cup {Absent}]
  /\ runtime \in [Sessions -> Object \cup {NoObject}]
  /\ call \in [Requests -> [phase : Phases, session : Sessions \cup {NoSession},
                            context : Seq(Requests)]]
  /\ connected \in BOOLEAN
  /\ deleted \subseteq Sessions
  /\ doubtful \subseteq Requests

(* Every saved turn was generated from all the turns saved before it: no   *)
(* turn is saved between the capture of a context and the commit of its    *)
(* answer.  A turn whose commit failed and is durable all the same is the  *)
(* one kind of turn a later one may not have seen.                         *)
SeesAllBefore(h, calls, excepted) ==
  \A j \in DOMAIN h :
    /\ \A i \in 1..(j - 1) : h[i] \in Elements(calls[h[j]].context) \cup excepted
    /\ Elements(calls[h[j]].context) \subseteq {h[i] : i \in 1..(j - 1)}

ContextIsComplete ==
  \A s \in Sessions : stored[s] # Absent => SeesAllBefore(stored[s], call, doubtful)

(* What a client was told is true: an answered turn is in the store until  *)
(* its session is deleted, and a turn reported failed or refused, or cut   *)
(* off before its commit, is in no session, but for the doubtful ones.     *)
AnswersTellTheTruth ==
  \A r \in Requests :
    /\ call[r].phase = "completed" =>
         LET s == call[r].session IN
         s \in deleted \/ (stored[s] # Absent /\ r \in Elements(stored[s]))
    /\ call[r].phase \in {"failed", "refused", "lost"} =>
         \A s \in Sessions : stored[s] # Absent /\ r \in Elements(stored[s])
           => r \in doubtful

(* h is g with some of the turns excepted left out: in the same order and  *)
(* with nothing of its own.                                                *)
OmitsOnly(h, g, excepted) ==
  \E place \in [DOMAIN h -> DOMAIN g] :
    /\ \A i, j \in DOMAIN h : i < j => place[i] < place[j]
    /\ \A i \in DOMAIN h : h[i] = g[place[i]]
    /\ \A k \in DOMAIN g : g[k] \in excepted \/ \E i \in DOMAIN h : place[i] = k

(* A runtime object holds the saved turns of its session, in their order,  *)
(* and lacks doubtful ones at most; the row it stands for is there unless  *)
(* a delete was reported failed.                                           *)
RuntimeFollowsStore ==
  \A s \in Sessions : runtime[s] # NoObject =>
    \/ stored[s] = Absent /\ s \in deleted
    \/ stored[s] # Absent /\ OmitsOnly(runtime[s].history, stored[s], doubtful)

(* A deleted session never comes back: a turn that ends after the delete   *)
(* cannot save its pair.                                                   *)
DeletedStaysDeleted ==
  [][\A s \in Sessions : s \in deleted => stored'[s] = Absent]_vars

(* A busy session becomes free again, whatever ends its turn.              *)
SessionBecomesFree ==
  \A s \in Sessions : IsBusy(s) ~> ~IsBusy(s)
=============================================================================
