------------------------------ MODULE RagDialogs ------------------------------
(***************************************************************************)
(* Stateful RAG dialogs (day 25): the backend's Day25ChatService over its  *)
(* store, and the phone's Day25ViewModel.  A message is sent with the      *)
(* revision its sender saw.  Requests may arrive late or not at all,       *)
(* answers may be lost, the phone's process may die, the backend may       *)
(* restart; the phone never repeats a send by itself, it reads.            *)
(***************************************************************************)
EXTENDS RagMemory, SequencesExt

CONSTANTS
  Dialogs,     \* session ids, each created once
  RagSends,    \* bound on requests sent
  RagDeaths,   \* bound on deaths of the phone's process and restarts
  NoDialog, EmptyDraft, NoPending, NoRequest   \* marks

Request25 == [number : Nat, dialog : Dialogs, message : Messages, seen : Seq(Messages)]
Pending25 == [revision : Nat, message : Messages]

ASSUME RagDialogsAssumption ==
  /\ NoDialog \notin Dialogs /\ EmptyDraft \notin Messages
  /\ NoRequest \notin Request25 /\ NoPending \notin Pending25

VARIABLES
  dialog,   \* per id: [state, users, memory], the store
  turn,     \* per id: the turn being processed, which holds the busy claim
  phone,    \* the view model
  kept,     \* the id in the phone's preferences
  sent,     \* requests on their way to the backend
  answers,  \* answers on their way to the phone
  counts    \* requests sent, and deaths and restarts so far

ragVars == <<dialog, turn, phone, kept, sent, answers, counts>>

Idle25 == [phase |-> "none", request |-> NoRequest, memory |-> {}]

Cold ==
  [ready |-> FALSE, known |-> FALSE, id |-> NoDialog, persisted |-> FALSE,
   seen |-> << >>, draft |-> EmptyDraft, does |-> "idle", request |-> NoRequest,
   recovery |-> FALSE, pending |-> NoPending]

RagInit ==
  /\ dialog = [d \in Dialogs |-> [state |-> "new", users |-> << >>, memory |-> {}]]
  /\ turn = [d \in Dialogs |-> Idle25]
  /\ phone = Cold
  /\ kept = NoDialog
  /\ sent = {} /\ answers = {}
  /\ counts = [sends |-> 0, deaths |-> 0]

Revision(d) == Len(dialog[d].users)

\* Seeded fault: the revision a sender saw is not compared with the stored one.
IsStaleNever(d, request) == FALSE

(* Both send and commit_turn refuse a revision the dialog has left behind. *)
IsStale(d, request) == Len(request.seen) # Revision(d)

-----------------------------------------------------------------------------
(* The backend.                                                            *)

Answer(request, committed, code) ==
  answers' = IF phone.request # request THEN answers
             ELSE answers \cup {[request |-> request, committed |-> committed, code |-> code]}

(* send, up to its first await: claim, read, compare.                      *)
Arrives(request) ==
  LET d == request.dialog IN
  /\ request \in sent
  /\ sent' = sent \ {request}
  /\ IF turn[d].phase # "none" \/ dialog[d].state # "open" \/ IsStale(d, request)
     THEN /\ Answer(request, FALSE, "refused")
          /\ UNCHANGED turn
     ELSE /\ turn' = [turn EXCEPT ![d] = [phase |-> "working", request |-> request,
                                           memory |-> dialog[d].memory]]
          /\ UNCHANGED answers
  /\ UNCHANGED <<dialog, phone, kept, counts>>

(* The runtime gate failed or the model abstained: memory stays.           *)
Abstains(d) ==
  /\ turn[d].phase = "working"
  /\ turn' = [turn EXCEPT ![d].phase = "candidate"]
  /\ UNCHANGED <<dialog, phone, kept, sent, answers, counts>>

(* An answer with a patch that reduce_memory accepts.                      *)
Proposes(d, patch) ==
  LET reduced == ReduceMemory(dialog[d].memory, patch, turn[d].request.message,
                              Revision(d) + 1) IN
  /\ turn[d].phase = "working"
  /\ reduced.ok
  /\ turn' = [turn EXCEPT ![d].phase = "candidate", ![d].memory = reduced.items]
  /\ UNCHANGED <<dialog, phone, kept, sent, answers, counts>>

(* Retrieval, generation, the grounding or the patch was refused, or the   *)
(* transaction failed: nothing is stored.                                  *)
TurnEndsEmpty(d) ==
  /\ turn[d].phase \in {"working", "candidate"}
  /\ turn' = [turn EXCEPT ![d] = Idle25]
  /\ Answer(turn[d].request, FALSE, "refused")
  /\ UNCHANGED <<dialog, phone, kept, sent, counts>>

Candidate(d) ==
  [dialog[d] EXCEPT !.users = Append(@, turn[d].request.message), !.memory = turn[d].memory]

(* commit_turn: turn, history and memory in one transaction, read back     *)
(* before it is committed.                                                 *)
CommitRagTurn(d) ==
  /\ turn[d].phase = "candidate"
  /\ ~IsStale(d, turn[d].request)
  /\ IsReadable(Candidate(d).users, Candidate(d).memory)
  /\ dialog' = [dialog EXCEPT ![d] = Candidate(d)]
  /\ turn' = [turn EXCEPT ![d] = Idle25]
  /\ Answer(turn[d].request, TRUE, "accepted")
  /\ UNCHANGED <<phone, kept, sent, counts>>

(* The claims and the turns in progress are in memory only.                *)
BackendRestarts ==
  /\ counts.deaths < RagDeaths
  /\ turn' = [d \in Dialogs |-> Idle25]
  /\ counts' = [counts EXCEPT !.deaths = @ + 1]
  /\ UNCHANGED <<dialog, phone, kept, sent, answers>>

RequestIsLost(request) ==
  /\ request \in sent
  /\ sent' = sent \ {request}
  /\ UNCHANGED <<dialog, turn, phone, kept, answers, counts>>

-----------------------------------------------------------------------------
(* The phone.                                                              *)

Failed(p) == [p EXCEPT !.does = "idle", !.request = NoRequest, !.recovery = TRUE]

\* Seeded fault: any turn with the expected number counts as the pending one.
ConfirmedByNumber(d) ==
  phone.pending # NoPending /\ Revision(d) > phone.pending.revision

(* The message sent last is the turn that follows the revision it named.   *)
Confirmed(d) ==
  /\ phone.pending # NoPending
  /\ Revision(d) > phone.pending.revision
  /\ dialog[d].users[phone.pending.revision + 1] = phone.pending.message

(* read: the kept id, then the dialog; it settles what is pending.         *)
ReadDialog ==
  LET id == IF phone.known THEN phone.id ELSE kept
      p == [phone EXCEPT !.known = TRUE, !.id = id, !.ready = TRUE,
                         !.persisted = phone.persisted \/ ~phone.known]
  IN /\ phone.does = "idle" /\ (~phone.ready \/ phone.recovery)
     /\ \/ /\ id = NoDialog
           /\ phone' = [p EXCEPT !.recovery = FALSE]
        \/ /\ id # NoDialog /\ dialog[id].state = "open" /\ turn[id].phase = "none"
           /\ phone' = [p EXCEPT !.recovery = FALSE, !.seen = dialog[id].users,
                                 !.draft = IF Confirmed(id) THEN EmptyDraft ELSE @,
                                 !.pending = NoPending]
        \/ /\ id # NoDialog       \* 404, 409 or no answer
           /\ phone' = Failed(p)
        \/ /\ ~phone.known        \* the preferences cannot be read
           /\ phone' = Failed([phone EXCEPT !.ready = TRUE])
     /\ UNCHANGED <<dialog, turn, kept, sent, answers, counts>>

(* The composer is open whenever nothing runs, also while the outcome of the *)
(* last send is unknown.  Erasing a draft by hand is left out.              *)
Types(m) ==
  /\ phone.does = "idle" /\ phone.draft # m
  /\ phone' = [phone EXCEPT !.draft = m]
  /\ UNCHANGED <<dialog, turn, kept, sent, answers, counts>>

CanSend == /\ phone.does = "idle" /\ phone.ready /\ phone.known
           /\ ~phone.recovery /\ phone.draft # EmptyDraft

(* send, without a dialog: create one; a lost answer leaves it an orphan.  *)
CreateDialog(d) ==
  /\ CanSend /\ phone.id = NoDialog /\ dialog[d].state = "new"
  /\ dialog' = [dialog EXCEPT ![d].state = "open"]
  /\ \/ phone' = [phone EXCEPT !.id = d, !.persisted = FALSE, !.seen = << >>, !.does = "saving"]
     \/ UNCHANGED phone
  /\ UNCHANGED <<turn, kept, sent, answers, counts>>

(* send, with one: an id that was never saved is saved first.              *)
SaveDialog ==
  /\ \/ phone.does = "saving"
     \/ CanSend /\ phone.id # NoDialog /\ ~phone.persisted
  /\ \/ kept' = phone.id /\ phone' = [phone EXCEPT !.persisted = TRUE, !.does = "saved"]
     \/ phone' = [phone EXCEPT !.does = "idle"] /\ UNCHANGED kept
  /\ UNCHANGED <<dialog, turn, sent, answers, counts>>

(* The one dispatch of the message.                                        *)
Dispatch ==
  LET request == [number |-> counts.sends, dialog |-> phone.id, message |-> phone.draft,
                  seen |-> phone.seen]
  IN /\ \/ phone.does = "saved"
        \/ CanSend /\ phone.id # NoDialog /\ phone.persisted
     /\ counts.sends < RagSends
     /\ sent' = sent \cup {request}
     /\ counts' = [counts EXCEPT !.sends = @ + 1]
     /\ phone' = [phone EXCEPT !.does = "sending", !.request = request,
                    !.pending = [revision |-> Len(phone.seen), message |-> phone.draft]]
     /\ UNCHANGED <<dialog, turn, kept, answers>>

AnswerComes(a) ==
  /\ a \in answers
  /\ answers' = answers \ {a}
  /\ phone' = IF a.request # phone.request THEN phone
              ELSE IF a.committed
              THEN [phone EXCEPT !.does = "idle", !.request = NoRequest, !.draft = EmptyDraft,
                      !.seen = Append(a.request.seen, a.request.message), !.pending = NoPending]
              ELSE Failed(phone)
  /\ UNCHANGED <<dialog, turn, kept, sent, counts>>

(* Time runs out or the answer is lost: the outcome is unknown.            *)
GivesUp ==
  /\ phone.does = "sending"
  /\ answers' = {}
  /\ phone' = Failed(phone)
  /\ UNCHANGED <<dialog, turn, kept, sent, counts>>

(* reset: the dialog is deleted first, then forgotten.                     *)
ResetDialog ==
  LET d == phone.id IN
  /\ phone.does = "idle" /\ phone.known
  /\ \/ /\ d # NoDialog /\ (turn[d].phase # "none" \/ RagDeaths > 0)
        /\ phone' = Failed(phone)      \* 409, or no answer and no effect
        /\ UNCHANGED <<dialog, kept>>
     \/ /\ d # NoDialog => turn[d].phase = "none"
        /\ dialog' = IF d = NoDialog THEN dialog
                     ELSE [dialog EXCEPT ![d] = [state |-> "gone", users |-> << >>, memory |-> {}]]
        /\ \/ /\ kept' = NoDialog
              /\ phone' = [Cold EXCEPT !.ready = TRUE, !.known = TRUE, !.persisted = TRUE]
           \/ /\ phone' = Failed(phone)   \* answer lost, or preferences not cleared
              /\ UNCHANGED kept
  /\ UNCHANGED <<turn, sent, answers, counts>>

PhoneDies ==
  /\ counts.deaths < RagDeaths
  /\ phone' = Cold /\ answers' = {}
  /\ counts' = [counts EXCEPT !.deaths = @ + 1]
  /\ UNCHANGED <<dialog, turn, kept, sent>>

Patches(d) ==
  LET changes == Change({x.id : x \in dialog[d].memory})
  IN {<< >>} \cup {<<c>> : c \in changes} \cup (changes \X changes)

RagNext ==
  \/ \E request \in sent : Arrives(request) \/ RequestIsLost(request)
  \/ \E d \in Dialogs :
       \/ Abstains(d) \/ TurnEndsEmpty(d) \/ CommitRagTurn(d) \/ CreateDialog(d)
       \/ \E patch \in Patches(d) : Proposes(d, patch)
  \/ \E m \in Messages : Types(m)
  \/ \E a \in answers : AnswerComes(a)
  \/ ReadDialog \/ SaveDialog \/ Dispatch \/ GivesUp \/ ResetDialog
  \/ BackendRestarts \/ PhoneDies

RagSpec == RagInit /\ [][RagNext]_ragVars

-----------------------------------------------------------------------------
(* A turn is only ever added to the dialog its sender saw, turn by turn,   *)
(* although a request carries no more than a count of turns and may arrive *)
(* after others, after a restart or after the phone gave it up.            *)
TurnsFollowWhatWasSeen ==
  \A d \in Dialogs : turn[d].phase # "none" => turn[d].request.seen = dialog[d].users

(* The composer is emptied only when the message sent last is a turn of the *)
(* dialog, unless the dialog was reset or the process died.                *)
DraftsAreNotLost ==
  (/\ phone.draft # EmptyDraft /\ phone'.draft = EmptyDraft
   /\ phone.id # NoDialog /\ phone'.id = phone.id /\ phone'.known)
    => phone.pending # NoPending /\ phone.pending.message \in ToSet(dialog[phone.id].users)

(* A candidate that passed the checks of a turn is never refused by the    *)
(* store when it reads it back: every quote is found in its turn.          *)
AcceptedIsReadable ==
  \A d \in Dialogs : turn[d].phase = "candidate" =>
    ~IsStale(d, turn[d].request) /\ IsReadable(Candidate(d).users, Candidate(d).memory)

(* A turn joins the dialog its sender saw, and leaves it readable.         *)
TurnsAreSound == TurnsFollowWhatWasSeen /\ AcceptedIsReadable

(* What a dialog keeps is sound, and what the person sent is not lost        *)
(* (service.send, Store.commit_turn, Day25ViewModel).                        *)
DialogsAreSound == [][TurnsAreSound' /\ DraftsAreNotLost]_ragVars
=============================================================================
