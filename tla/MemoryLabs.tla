------------------------------- MODULE MemoryLabs -------------------------------
(***************************************************************************)
(* The services of days 11 to 14 over one memory file each: memory layers, *)
(* personalization with profiles, a task state machine, and coding         *)
(* policies with validated turns.  Each keeps a busy flag for its whole    *)
(* service, because a generation is awaited between the reading of its     *)
(* sources and the commit of its pair, and each spreads its state over     *)
(* several files that no transaction spans.  lab says which of the four    *)
(* services the behaviour is of.                                           *)
(*                                                                         *)
(* A request names the snapshot and revisions its client last read; one    *)
(* that names others is refused before anything changes, so the actions    *)
(* are those of requests that name the current ones.                       *)
(***************************************************************************)
EXTENDS MemoryStore

CONSTANTS
  ProfileIds,    \* profiles, 1.. in the order they are made
  MaxSends,      \* bound on sends
  NoProfile, NoState, NoComparison

TaskStates == [revision : Nat, implementing : BOOLEAN]
ASSUME MemoryLabsAssumption == NoState \notin TaskStates

VARIABLES
  lab,         \* "layers", "profiles", "tasks" or "policies"
  profiles,    \* per profile, its revision, or NoProfile
  selected,    \* active_profile_id and the revision of that binding
  states,      \* per task, its state row, or NoState
  policies,    \* the tasks that have their immutable policy
  holder,      \* what the operation that holds the busy flag works from
  sends,       \* number of sends so far; a send is its number
  receipts,    \* per send, what the client was told
  doubts,      \* pairs that are durable although their commit failed
  recovery,    \* recovery_required of the policies lab
  frozen,      \* the comparison of the profiles lab, in memory
  probes       \* what the probes of the current comparison were made from

labsVars == <<memoryVars, lab, profiles, selected, states, policies, holder, sends,
              receipts, doubts, recovery, frozen, probes>>
besideMemory == <<profiles, selected, states, policies>>
turnVars == <<sends, receipts, doubts, recovery>>
comparisonVars == <<frozen, probes>>

Labs == {"layers", "profiles", "tasks", "policies"}
Nobody == [kind |-> "none"]

MemoryLabsInit ==
  /\ MemoryStoreInit
  /\ lab \in Labs
  /\ profiles = [p \in ProfileIds |-> NoProfile]
  /\ selected = [profile |-> NoProfile, revision |-> 0]
  /\ states = [t \in 1..MaxTasks |-> NoState]
  /\ policies = {}
  /\ holder = Nobody /\ sends = 0 /\ receipts = << >> /\ doubts = {} /\ recovery = FALSE
  /\ frozen = NoComparison /\ probes = {}

-----------------------------------------------------------------------------
\* Seeded fault: the memory is changed without a claim.
ClaimIgnored == ~recovery

(* claim: one operation of the service at a time; the policies lab first   *)
(* makes up for a commit in doubt, see Reconcile.                          *)
Claim == holder = Nobody /\ ~recovery

HasProfiles == lab \in {"profiles", "tasks"}
HasStates == lab \in {"tasks", "policies"}

Profile == [profile |-> selected.profile, binding |-> selected.revision,
            revision |-> IF selected.profile = NoProfile THEN 0 ELSE profiles[selected.profile]]

(* All a generation is made from.                                          *)
LabSources == [snapshot |-> Snapshot, profile |-> Profile, state |-> states[memory.task],
               policy |-> memory.task \in policies]

-----------------------------------------------------------------------------
(* resolve of the profiles lab; resolve_sources of the tasks and of the    *)
(* policies lab: what each wants of its sources before a generation.       *)
ProfileResolved == memory.ready /\ selected.profile # NoProfile

TaskSourcesResolved ==
  memory.ready /\ states[memory.task] # NoState /\ selected.profile # NoProfile

PolicySourcesResolved ==
  /\ memory.ready /\ states[memory.task] # NoState /\ states[memory.task].implementing
  /\ selected.profile # NoProfile /\ memory.task \in policies
  /\ memory.working[memory.task] = Keys

InitialState == [revision |-> 0, implementing |-> FALSE]
\* Seeded fault: an initial state replaces the one the task has reached.
StateReset(t) == states' = [states EXCEPT ![t] = InitialState]
(* create_initial: idempotent.                                             *)
StateCreated(t) == states' = [states EXCEPT ![t] = IF @ = NoState THEN InitialState ELSE @]

(* initialize; the state is made in another file after the memory.         *)
Initialize ==
  /\ Claim
  /\ InitializeMemory
  /\ IF HasStates THEN StateCreated(memory'.task) \/ UNCHANGED states ELSE UNCHANGED states
  /\ UNCHANGED <<lab, profiles, selected, policies, holder, turnVars, comparisonVars>>

(* initialize-state of the tasks lab: repairs a task without a state.      *)
InitializeState ==
  /\ lab = "tasks" /\ Claim /\ memory.ready
  /\ StateCreated(memory.task)
  /\ UNCHANGED <<lab, memoryVars, profiles, selected, policies, holder, turnVars, comparisonVars>>

MutateMemory ==
  /\ lab # "policies" /\ Claim /\ memory.ready /\ memory.revision < MaxRevision
  /\ \/ \E k \in Keys : WorkingChanged(memory.working[memory.task] \cup {k})
                        \/ WorkingChanged(memory.working[memory.task] \ {k})
     \/ \E b \in BOOLEAN : LongChanged(b)
  /\ UNCHANGED <<lab, besideMemory, holder, turnVars, comparisonVars>>

(* lifecycle: the memory moves first, then the state is made.  The policies*)
(* and tasks labs know no other repair than initialize-state and setup.    *)
Transition ==
  /\ Claim /\ memory.ready
  /\ \/ NewTask /\ NewChatLoaded
        /\ IF HasStates THEN StateCreated(memory'.task) \/ UNCHANGED states ELSE UNCHANGED states
     \/ NewConversation /\ NewChatLoaded /\ UNCHANGED states
     \/ memory.long /\ LongChanged(FALSE) /\ UNCHANGED states       \* clear-long-term
  /\ UNCHANGED <<lab, profiles, selected, policies, holder, turnVars, comparisonVars>>

-----------------------------------------------------------------------------
CreateProfile(p) ==
  /\ HasProfiles /\ Claim /\ memory.ready
  /\ profiles[p] = NoProfile /\ \A q \in ProfileIds : q < p => profiles[q] # NoProfile
  /\ profiles' = [profiles EXCEPT ![p] = 0]
  /\ UNCHANGED <<lab, memoryVars, selected, states, policies, holder, turnVars, comparisonVars>>

(* edit: compare and set; equal fields leave the revision alone.           *)
EditProfile(p) ==
  /\ HasProfiles /\ Claim /\ profiles[p] # NoProfile /\ profiles[p] < MaxRevision
  /\ profiles' = [profiles EXCEPT ![p] = @ + 1]
  /\ UNCHANGED <<lab, memoryVars, selected, states, policies, holder, turnVars, comparisonVars>>

SelectProfile(p) ==
  /\ HasProfiles /\ Claim /\ profiles[p] # NoProfile
  /\ selected.profile # p /\ selected.revision < MaxRevision
  /\ selected' = [profile |-> p, revision |-> selected.revision + 1]
  /\ UNCHANGED <<lab, memoryVars, profiles, states, policies, holder, turnVars, comparisonVars>>

(* freeze: the memory and two profiles as they are now.                    *)
Freeze ==
  /\ lab = "profiles" /\ Claim /\ ProfileResolved
  /\ Len(Snapshot.turns) = 1 /\ \A p \in ProfileIds : profiles[p] # NoProfile
  /\ frozen' = [snapshot |-> Snapshot, pair |-> profiles]
  /\ probes' = {}
  /\ UNCHANGED <<lab, memoryVars, besideMemory, holder, turnVars>>

\* Seeded fault: the profiles are not compared with the frozen ones.
ComparisonHoldsLoosely == frozen # NoComparison /\ Snapshot = frozen.snapshot
ComparisonHolds ==
  frozen # NoComparison /\ Snapshot = frozen.snapshot /\ profiles = frozen.pair

(* probe of the profiles lab: the frozen input under the active profile.   *)
BeginProbe ==
  /\ lab = "profiles" /\ Claim /\ ProfileResolved
  /\ ComparisonHolds
  /\ holder' = [kind |-> "probe", sources |-> LabSources]
  /\ UNCHANGED <<lab, memoryVars, besideMemory, turnVars, comparisonVars>>

(* verify of the layers lab, probe of the tasks lab: a generation that is  *)
(* observed and never committed.                                           *)
Observes ==
  /\ holder' = [kind |-> "verify", sources |-> LabSources]
  /\ UNCHANGED <<lab, memoryVars, besideMemory, turnVars, comparisonVars>>

VerifyLayers == lab = "layers" /\ Claim /\ memory.ready /\ Observes
ProbeTask == lab = "tasks" /\ Claim /\ TaskSourcesResolved /\ Observes

EndObservation ==
  /\ holder.kind \in {"probe", "verify"}
  /\ probes' = IF holder.kind = "probe" THEN probes \cup {holder.sources} ELSE probes
  /\ holder' = Nobody
  /\ UNCHANGED <<lab, memoryVars, besideMemory, turnVars, frozen>>

-----------------------------------------------------------------------------
(* resolve of the machine and compare_and_set of the row.                  *)
EventApplied ==
  /\ states[memory.task].revision < MaxRevision
  /\ \E b \in BOOLEAN : states' = [states EXCEPT ![memory.task] =
       [revision |-> @.revision + 1, implementing |-> b]]
  /\ UNCHANGED <<lab, memoryVars, profiles, selected, policies, holder, turnVars, comparisonVars>>

ApplyEvent == lab = "tasks" /\ Claim /\ TaskSourcesResolved /\ EventApplied
PolicyEvent ==
  lab = "policies" /\ Claim /\ memory.ready /\ states[memory.task] # NoState /\ EventApplied

(* setup of the policies lab: key by key, profile, selection, state,       *)
(* policy; it may stop after any of them and be called again.              *)
Setup ==
  /\ lab = "policies" /\ Claim /\ memory.ready
  /\ \E keys \in 0..NKeys, more \in 0..4 :
       /\ more > 0 => keys = NKeys
       /\ WorkingChanged(memory.working[memory.task] \cup 1..keys)
       /\ profiles' = IF more > 0 /\ profiles[1] = NoProfile
                      THEN [profiles EXCEPT ![1] = 0] ELSE profiles
       /\ selected' = IF more > 1 /\ selected.profile = NoProfile
                      THEN [profile |-> 1, revision |-> 1] ELSE selected
       /\ IF more > 2 THEN StateCreated(memory.task) ELSE UNCHANGED states
       /\ policies' = IF more > 3 THEN policies \cup {memory.task} ELSE policies
  /\ UNCHANGED <<lab, holder, turnVars, comparisonVars>>

-----------------------------------------------------------------------------
(* A turn up to its await.  The context policy compares the runtime        *)
(* history with the snapshot's and refuses a runtime that missed a durable *)
(* pair.                                                                   *)
TurnBegins ==
  /\ sends < MaxSends
  /\ RuntimeTurns(memory.chat) = Snapshot.turns
  /\ Loaded(memory.chat)
  /\ holder' = [kind |-> "send", sources |-> LabSources]
  /\ sends' = sends + 1
  /\ receipts' = Append(receipts, "running")
  /\ UNCHANGED <<lab, memory, chats, besideMemory, doubts, recovery, comparisonVars>>

SendLayers == lab = "layers" /\ Claim /\ memory.ready /\ TurnBegins
SendPersonalized == lab = "profiles" /\ Claim /\ ProfileResolved /\ TurnBegins
SendTask == lab = "tasks" /\ Claim /\ TaskSourcesResolved /\ TurnBegins
Propose == lab = "policies" /\ Claim /\ PolicySourcesResolved /\ TurnBegins

Tells(r) == receipts' = [receipts EXCEPT ![sends] = r]

(* Provider failure, unusable answer, validation error, and in the policies*)
(* lab a memory that contradicts the policy.                               *)
LabSendFails ==
  /\ holder.kind = "send"
  /\ Tells("not committed") /\ holder' = Nobody
  /\ UNCHANGED <<lab, memoryVars, besideMemory, sends, doubts, recovery, comparisonVars>>

(* In the policies lab a refusal is a reply, and is committed like one.    *)
LabSendCommits ==
  /\ holder.kind = "send"
  /\ PairSaved(sends)
  /\ Tells("committed") /\ holder' = Nobody
  /\ UNCHANGED <<lab, memory, besideMemory, sends, doubts, recovery, comparisonVars>>

(* Days 11 to 13: a storage error is answered with 500 and nothing else.   *)
CommitErrorReported ==
  /\ holder.kind = "send" /\ lab # "policies"
  /\ \/ PairRolledBack /\ UNCHANGED doubts
     \/ PairInDoubt(sends) /\ doubts' = doubts \cup {sends}
  /\ Tells("error") /\ holder' = Nobody
  /\ UNCHANGED <<lab, memory, besideMemory, sends, recovery, comparisonVars>>

\* Seeded fault: an unknown commit is called failed without looking.
VerdictGuessed(saved) == "failed"
(* Day 14: the history, read anew, tells a rolled back pair from a saved one. *)
Verdict(saved) == IF saved THEN "unknown" ELSE "failed"

FreshCache(c, saved) ==
  [d \in 1..MaxChats |-> IF d = c THEN IF saved THEN Append(chats[c].turns, sends)
                                                ELSE chats[c].turns
                         ELSE NotLoaded]

CommitErrorReconciled ==
  /\ holder.kind = "send" /\ lab = "policies"
  /\ \E saved \in BOOLEAN :
       /\ chats' = IF saved THEN [chats EXCEPT ![memory.chat].turns = Append(@, sends)] ELSE chats
       /\ doubts' = IF saved THEN doubts \cup {sends} ELSE doubts
       /\ \/ cache' = FreshCache(memory.chat, saved) /\ Tells(Verdict(saved)) /\ UNCHANGED recovery
          \/ recovery' = TRUE /\ Tells("unknown") /\ UNCHANGED cache
  /\ holder' = Nobody
  /\ UNCHANGED <<lab, memory, besideMemory, sends, comparisonVars>>

(* current or the next claim, while recovery is required: the runtime      *)
(* objects are thrown away and the current conversation is read again.     *)
Reconcile ==
  /\ lab = "policies" /\ recovery /\ holder = Nobody
  /\ cache' = [c \in 1..MaxChats |-> IF c = memory.chat THEN chats[c].turns ELSE NotLoaded]
  /\ recovery' = FALSE
  /\ UNCHANGED <<lab, memory, chats, besideMemory, holder, sends, receipts, doubts, comparisonVars>>

RestartLab ==
  /\ cache' = [c \in 1..MaxChats |-> NotLoaded]
  /\ holder' = Nobody /\ recovery' = FALSE
  /\ frozen' = NoComparison /\ probes' = {}
  /\ receipts' = [i \in DOMAIN receipts |-> IF receipts[i] = "running" THEN "lost" ELSE receipts[i]]
  /\ UNCHANGED <<lab, memory, chats, besideMemory, sends, doubts>>

MemoryLabsNext ==
  \/ Initialize \/ InitializeState \/ MutateMemory \/ Transition
  \/ \E p \in ProfileIds : CreateProfile(p) \/ EditProfile(p) \/ SelectProfile(p)
  \/ Freeze \/ BeginProbe \/ VerifyLayers \/ ProbeTask \/ EndObservation
  \/ ApplyEvent \/ PolicyEvent \/ Setup
  \/ SendLayers \/ SendPersonalized \/ SendTask \/ Propose
  \/ LabSendFails \/ LabSendCommits \/ CommitErrorReported
  \/ CommitErrorReconciled \/ Reconcile \/ RestartLab

MemoryLabsSpec == MemoryLabsInit /\ [][MemoryLabsNext]_labsVars

-----------------------------------------------------------------------------
(* While a generation is awaited nothing it was made from changes: neither *)
(* memory, conversation and task, nor profile, binding, state or policy.   *)
(* The pair committed afterwards, with no second look at any of them, is   *)
(* therefore an answer to the memory it joins.                             *)
SourcesHoldWhileGenerating ==
  /\ BindingIsSound
  /\ holder # Nobody => holder.sources = LabSources

(* The probes of one comparison saw the same memory and conversation, and  *)
(* the profiles as they were frozen, whatever was edited between them.     *)
ComparisonIsFair ==
  \A a \in probes :
    /\ a.snapshot = frozen.snapshot
    /\ a.profile.revision = frozen.pair[a.profile.profile]

(* A task's state is made once and then only advances, although making it  *)
(* is repeated by every repair of a half-done initialize, setup or         *)
(* lifecycle call.                                                         *)
StateNeverReset ==
  \A t \in 1..MaxTasks : states[t] # NoState =>
     states'[t] # NoState /\ states'[t].revision >= states[t].revision

(* What a client was told of a send is true.  A pair reported as not       *)
(* committed or failed is in no conversation, a pair reported as an error  *)
(* only if its commit was in doubt, and in the policies lab a runtime      *)
(* object never misses a durable pair once recovery is over.               *)
SavedSomewhere(n) == \E c \in DOMAIN chats : \E i \in DOMAIN chats[c].turns : chats[c].turns[i] = n
LabReceiptsTellTheTruth ==
  /\ \A n \in DOMAIN receipts :
       /\ receipts[n] = "committed" => SavedSomewhere(n)
       /\ receipts[n] \in {"not committed", "failed", "running"} => ~SavedSomewhere(n)
       /\ receipts[n] = "error" /\ SavedSomewhere(n) => n \in doubts
  /\ lab = "policies" /\ ~recovery =>
       \A c \in DOMAIN chats : cache[c] # NotLoaded => cache[c] = chats[c].turns

(* The three together: what a generation, a comparison and a receipt rest  *)
(* on stays true.                                                          *)
LabsAreSound ==
  SourcesHoldWhileGenerating /\ ComparisonIsFair /\ LabReceiptsTellTheTruth

(* The results of the labs rest on what was stored, and the state of a task *)
(* is made once (the services of days 11 to 14).                            *)
MemoryLabsAreSound == [][LabsAreSound' /\ StateNeverReset]_labsVars
=============================================================================
