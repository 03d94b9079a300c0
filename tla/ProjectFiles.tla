------------------------------ MODULE ProjectFiles ------------------------------
(***************************************************************************)
(* The project files assistant (day 34).  A run directory is prepared from *)
(* three sources, a model stages candidates for one target document, and a *)
(* person approves or rejects the one it settles on.  Everything the       *)
(* commands share is on disk: a state file, an exclusive decision, a lock, *)
(* the target and a receipt, written one after another by processes that   *)
(* may fail or be killed between any two.                                  *)
(*                                                                         *)
(* One person, who starts one run of the model per directory, as the       *)
(* backend's README says; decisions may be typed in several windows.  The  *)
(* person may edit the target by hand, but not while a command is between  *)
(* its last look at the target and its writing.                            *)
(***************************************************************************)
EXTENDS Naturals, FiniteSets

CONSTANTS
  Drafts,           \* candidates the model may stage
  Commands,         \* apply and reject commands, each run once
  ModelCalls, ToolCalls,   \* Limits, 16 and 15 in the code
  NoDraft           \* mark: no candidate

ASSUME ProjectFilesAssumption ==
  /\ ModelCalls \in Nat /\ ToolCalls \in Nat
  /\ Drafts \cap {NoDraft, "base", "part", "edited"} = {}

VARIABLES
  fresh,       \* scenario A: the target does not exist beforehand
  origin,      \* the checkout still has the sources of the manifest
  target,      \* contents of the target: base, part of one, a draft or edited
  temporary,   \* a temporary file lies beside the target
  status,      \* state.json
  decision, receipt,     \* decision.json, receipt.json; NoDraft when missing
  apply_lock,  \* apply.lock exists
  staged,      \* candidates on disk
  runner,      \* the process that talks to the model
  command      \* per command, its program counter and what it has read

filesVars == <<fresh, origin, target, temporary, status, decision, receipt, apply_lock,
               staged, runner, command>>
diskVars == <<target, temporary, decision, receipt, apply_lock>>

NotStarted == [pc |-> "new", draft |-> NoDraft, saw |-> "none"]

(* prepare: a new directory; dirty or changed sources make none.           *)
ProjectFilesInit ==
  /\ fresh \in BOOLEAN /\ origin = TRUE
  /\ target = "base" /\ temporary = FALSE
  /\ status = [is |-> "prepared", draft |-> NoDraft]
  /\ decision = [is |-> "none", draft |-> NoDraft] /\ receipt = NoDraft
  /\ apply_lock = FALSE /\ staged = {}
  /\ runner = [pc |-> "new", calls |-> 0, tools |-> 0, read |-> FALSE, draft |-> NoDraft]
  /\ command = [p \in Commands |-> NotStarted]

(* assert_sources; inventory against what prepare left, or with the draft. *)
SourcesHold == origin
Initial == SourcesHold /\ target = "base" /\ ~temporary
InventoryIs(d) == target = d /\ ~temporary

SetState(is, d) == status' = [is |-> is, draft |-> d]

-----------------------------------------------------------------------------
StartRunner ==
  /\ runner.pc = "new" /\ status.is = "prepared" /\ Initial
  /\ runner' = [runner EXCEPT !.pc = "asking"]
  /\ SetState("running", NoDraft)
  /\ UNCHANGED <<fresh, origin, diskVars, staged, command>>

(* One request and its answer: either a tool call or the final text.       *)
AskModel ==
  /\ runner.pc = "asking" /\ runner.calls < ModelCalls
  /\ \E pc \in {"tool", "final"} : runner' = [runner EXCEPT !.calls = @ + 1, !.pc = pc]
  /\ UNCHANGED <<fresh, origin, diskVars, status, staged, command>>

(* list_files, read_file, search_text, or a call refused with an error.    *)
LookAround ==
  /\ runner.pc = "tool" /\ runner.tools < ToolCalls
  /\ \E r \in {runner.read, Initial} :
       runner' = [runner EXCEPT !.tools = @ + 1, !.pc = "asking", !.read = r]
  /\ UNCHANGED <<fresh, origin, diskVars, status, staged, command>>

(* stage_file: a new folder for the candidate; the target is not touched,  *)
(* and an existing one has to have been read.                              *)
StageFile(d) ==
  /\ runner.pc = "tool" /\ runner.tools < ToolCalls
  /\ Initial /\ runner.read /\ d \notin staged
  /\ staged' = staged \cup {d}
  /\ runner' = [runner EXCEPT !.tools = @ + 1, !.pc = "asking", !.draft = d]
  /\ UNCHANGED <<fresh, origin, diskVars, status, command>>

FinishRun ==
  /\ runner.pc = "final" /\ runner.draft # NoDraft /\ Initial
  /\ SetState("awaiting_review", runner.draft)
  /\ runner' = [runner EXCEPT !.pc = "ended"]
  /\ UNCHANGED <<fresh, origin, diskVars, staged, command>>

(* A budget, a timeout, a refusal or the disk ends the run; the process    *)
(* may also die without a word.                                            *)
RunFails ==
  /\ runner.pc \in {"asking", "tool", "final"}
  /\ SetState("error", NoDraft) \/ UNCHANGED status
  /\ runner' = [runner EXCEPT !.pc = "ended"]
  /\ UNCHANGED <<fresh, origin, diskVars, staged, command>>

-----------------------------------------------------------------------------
At(p, pc) == command[p].pc = pc
Goes(p, pc) == command' = [command EXCEPT ![p].pc = pc]
runVars == <<fresh, origin, staged, runner>>

(* reject up to its first write; apply up to the lock: candidate and state *)
(* are read, and answered at once when the candidate is applied already.   *)
StartReject(p, d) ==
  /\ At(p, "new") /\ SourcesHold /\ d \in staged
  /\ status = [is |-> "awaiting_review", draft |-> d]
  /\ command' = [command EXCEPT ![p] = [pc |-> "rejecting", draft |-> d, saw |-> status.is]]
  /\ UNCHANGED <<runVars, diskVars, status>>

StartApply(p, d) ==
  /\ At(p, "new") /\ SourcesHold /\ d \in staged
  /\ status.is \in {"awaiting_review", "applying", "applied"} /\ status.draft = d
  /\ command' = [command EXCEPT ![p] = [pc |-> IF status.is = "applied" THEN "done" ELSE "locking",
                                        draft |-> d, saw |-> status.is]]
  /\ UNCHANGED <<runVars, diskVars, status>>

Decide(p, is) ==
  /\ decision.is = "none"
  /\ decision' = [is |-> is, draft |-> command[p].draft]

RejectDecides(p) ==
  /\ At(p, "rejecting") /\ Decide(p, "reject") /\ Goes(p, "rejected")
  /\ UNCHANGED <<runVars, target, temporary, receipt, apply_lock, status>>

RejectSaved(p) ==
  /\ At(p, "rejected") /\ SetState("rejected", command[p].draft) /\ Goes(p, "done")
  /\ UNCHANGED <<runVars, diskVars>>

TakeLock(p) ==
  /\ At(p, "locking") /\ ~apply_lock
  /\ apply_lock' = TRUE /\ Goes(p, "locked")
  /\ UNCHANGED <<runVars, target, temporary, decision, receipt, status>>

(* An earlier command got as far as applying: the disk has to show that it *)
(* wrote everything, the target is not replaced again.                     *)
Reconcile(p) ==
  /\ At(p, "locked") /\ command[p].saw = "applying" /\ SourcesHold
  /\ InventoryIs(command[p].draft)
  /\ Goes(p, "written")
  /\ UNCHANGED <<runVars, diskVars, status>>

\* Seeded fault: the decision is written without regard to an earlier one.
ApproveAgain(p) ==
  /\ At(p, "locked") /\ command[p].saw = "awaiting_review" /\ Initial
  /\ decision' = [is |-> "approve", draft |-> command[p].draft] /\ Goes(p, "approved")
  /\ UNCHANGED <<runVars, target, temporary, receipt, apply_lock, status>>

Approve(p) ==
  /\ At(p, "locked") /\ command[p].saw = "awaiting_review" /\ Initial
  /\ Decide(p, "approve") /\ Goes(p, "approved")
  /\ UNCHANGED <<runVars, target, temporary, receipt, apply_lock, status>>

MarkApplying(p) ==
  /\ At(p, "approved") /\ SetState("applying", command[p].draft) /\ Goes(p, "marked")
  /\ UNCHANGED <<runVars, diskVars>>

(* A new target is created exclusively and filled; an existing one is      *)
(* replaced by a temporary file beside it, after a second look.            *)
CreateTarget(p) ==
  /\ At(p, "marked") /\ fresh /\ target = "base"
  /\ target' = "part" /\ Goes(p, "writing")
  /\ UNCHANGED <<runVars, temporary, decision, receipt, apply_lock, status>>

FillTarget(p) ==
  /\ At(p, "writing")
  /\ target' = command[p].draft /\ Goes(p, "written")
  /\ UNCHANGED <<runVars, temporary, decision, receipt, apply_lock, status>>

MakeTemporary(p) ==
  /\ At(p, "marked") /\ ~fresh
  /\ temporary' = TRUE /\ Goes(p, "temporary")
  /\ UNCHANGED <<runVars, target, decision, receipt, apply_lock, status>>

\* Seeded fault: the target is not looked at again before it is replaced.
LookAgainNot(p) ==
  /\ At(p, "temporary") /\ SourcesHold /\ Goes(p, "replacing")
  /\ UNCHANGED <<runVars, diskVars, status>>

LookAgain(p) ==
  /\ At(p, "temporary") /\ SourcesHold /\ target = "base" /\ Goes(p, "replacing")
  /\ UNCHANGED <<runVars, diskVars, status>>

ReplaceTarget(p) ==
  /\ At(p, "replacing")
  /\ target' = command[p].draft /\ temporary' = FALSE /\ Goes(p, "written")
  /\ UNCHANGED <<runVars, decision, receipt, apply_lock, status>>

(* Read back, then receipt, state and lock.                                *)
WriteReceipt(p) ==
  /\ At(p, "written") /\ SourcesHold /\ InventoryIs(command[p].draft)
  /\ receipt' = command[p].draft /\ Goes(p, "receipted")
  /\ UNCHANGED <<runVars, target, temporary, decision, apply_lock, status>>

MarkApplied(p) ==
  /\ At(p, "receipted") /\ SetState("applied", command[p].draft) /\ Goes(p, "unlocking")
  /\ UNCHANGED <<runVars, diskVars>>

HoldsLock(p) == command[p].pc \notin {"new", "rejecting", "rejected", "locking", "done"}
HasTemporary(p) == command[p].pc \in {"temporary", "replacing"}

(* Any step may fail, and everything ends in the same clean-up, unless the *)
(* process is killed: then lock and temporary file stay.                   *)
CommandEnds(p) ==
  /\ command[p].pc \notin {"new", "done"}
  /\ apply_lock' = (apply_lock /\ ~HoldsLock(p))
  /\ temporary' = (temporary /\ ~HasTemporary(p))
  /\ Goes(p, "done")
  /\ UNCHANGED <<runVars, target, decision, receipt, status>>

CommandIsKilled(p) ==
  /\ command[p].pc \notin {"new", "done"} /\ Goes(p, "done")
  /\ UNCHANGED <<runVars, diskVars, status>>

(* The person clears up after a command that was killed.                   *)
ClearLock ==
  /\ apply_lock \/ temporary
  /\ \A p \in Commands : ~HoldsLock(p)
  /\ apply_lock' = FALSE /\ temporary' = FALSE
  /\ UNCHANGED <<runVars, target, decision, receipt, status, command>>

EditTarget ==
  /\ target # "edited"
  /\ \A p \in Commands : command[p].pc \notin {"writing", "replacing"}
  /\ target' = "edited"
  /\ UNCHANGED <<runVars, temporary, decision, receipt, apply_lock, status, command>>

ChangeOrigin ==
  /\ origin /\ origin' = FALSE
  /\ UNCHANGED <<fresh, diskVars, status, staged, runner, command>>

ProjectFilesNext ==
  \/ StartRunner \/ AskModel \/ LookAround \/ FinishRun \/ RunFails
  \/ \E d \in Drafts : StageFile(d)
  \/ \E p \in Commands :
       \/ \E d \in Drafts : StartReject(p, d) \/ StartApply(p, d)
       \/ RejectDecides(p) \/ RejectSaved(p) \/ TakeLock(p) \/ Reconcile(p) \/ Approve(p)
       \/ MarkApplying(p) \/ CreateTarget(p) \/ FillTarget(p) \/ MakeTemporary(p)
       \/ LookAgain(p) \/ ReplaceTarget(p) \/ WriteReceipt(p) \/ MarkApplied(p)
       \/ CommandEnds(p) \/ CommandIsKilled(p)
  \/ ClearLock \/ EditTarget \/ ChangeOrigin

ProjectFilesSpec == ProjectFilesInit /\ [][ProjectFilesNext]_filesVars

-----------------------------------------------------------------------------
(* The files of a run agree, however commands race, fail and are killed:   *)
(* the target only ever holds a draft that was approved, a rejection keeps *)
(* it out for good, and a run is called applied only when the approved     *)
(* draft was read back from the disk.                                      *)
RunTellsTheTruth ==
  /\ target \in Drafts \cup {"part"} => decision.is = "approve"
  /\ target \in Drafts => decision.draft = target
  /\ decision.is = "reject" => receipt = NoDraft /\ status.is \notin {"applying", "applied"}
  /\ status.is = "rejected" => decision = [is |-> "reject", draft |-> status.draft]
  /\ receipt # NoDraft => decision = [is |-> "approve", draft |-> receipt]
  /\ status.is = "applied" => receipt = status.draft /\ target \in {receipt, "edited"}

(* The target is written once, from what the candidate was made against:   *)
(* an edit of the person or an earlier draft, whole or in part, is never   *)
(* replaced, whatever state the run was left in.                           *)
TargetIsNeverOverwritten ==
  target' \in Drafts \cup {"part"} /\ target' # target =>
     \/ target = "base"
     \/ target = "part" /\ \E p \in Commands : At(p, "writing")

(* What a run says is true and what the person wrote survives it (apply,    *)
(* reject, runner.run).                                                    *)
ApplicationIsSound == [][RunTellsTheTruth' /\ TargetIsNeverOverwritten]_filesVars
=============================================================================
