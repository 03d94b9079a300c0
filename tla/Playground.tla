----------------------------- MODULE Playground -----------------------------
(***************************************************************************)
(* The agent playground (day 15).  Five SQLite files keep the memory, the  *)
(* profiles, the task states, the coding policies and the setup records;   *)
(* one creation writes all five, one transaction after another, and a      *)
(* storage error or a crash may stop it after any of them.  Handlers run   *)
(* to their end on the event loop, but for send, which awaits the model.   *)
(*                                                                         *)
(* The owner of memory and profiles is the only one and left out.  The     *)
(* policy of a task stands for its required architecture.                  *)
(***************************************************************************)
EXTENDS TaskMachine, Sequences, FiniteSets

CONSTANTS
  Tasks, Sessions, Sends,   \* ids the handlers may draw, and the send requests
  Presets,                  \* PROFILE_PRESETS, a sequence
  Architectures,
  None,
  MaxRevision, MaxBinding   \* bounds of event and profile selection

PresetSet == {Presets[i] : i \in DOMAIN Presets}
Memories == [task : Tasks, session : Sessions, revision : Nat]
Keys == [title : BOOLEAN, architecture : Architectures \cup {None}]
Snapshots == [memory : Memories, working : Keys, turns : Seq(Sends)]
Bindings == [active : PresetSet \cup {None}, revision : Nat]
Record == [status : {"pending", "ready"}, session : Sessions, architecture : Architectures,
           preset : PresetSet, previous : {None} \cup Snapshots, binding : Bindings]

\* What is stored is told from what is missing, and a preset from the other steps.
ASSUME PlaygroundAssumption ==
  /\ Presets \in Seq(PresetSet)
  /\ PresetSet \cap {"memory", "title", "architecture", "profile", "state", "policy", "ready"} = {}
  /\ None \notin Tasks \cup State \cup Seq(Sends) \cup Memories \cup Snapshots \cup Record

VARIABLES
  db,         \* the five files
  send,       \* the send in flight, or None
  outcome,    \* per send request, what its receipt says
  cache,      \* the coordinator's runtime histories, or None where not loaded
  unsure      \* reconciliation_required, of the coordinator and the lifecycle

vars == <<db, send, outcome, cache, unsure>>

NoKeys == [title |-> FALSE, architecture |-> None]

Init ==
  /\ db = [memory |-> None,
           working |-> [t \in Tasks |-> NoKeys],
           turns |-> [s \in Sessions |-> None],
           taskOf |-> [s \in Sessions |-> None],
           profiles |-> [p \in PresetSet |-> 0],
           binding |-> [active |-> None, revision |-> 0],
           states |-> [t \in Tasks |-> None],
           policies |-> [t \in Tasks |-> None],
           setups |-> [t \in Tasks |-> None]]
  /\ send = None
  /\ outcome = [m \in Sends |-> "unsent"]
  /\ cache = [s \in Sessions |-> None]
  /\ unsure = [conversation |-> FALSE, lifecycle |-> FALSE]

(* The digest of the memory that clients refer to.                         *)
Snapshot(d) ==
  IF d.memory = None THEN None
  ELSE [memory |-> d.memory, working |-> d.working[d.memory.task],
        turns |-> d.turns[d.memory.session]]

IsPending(d, t) == d.setups[t] # None /\ d.setups[t].status = "pending"

\* Seeded fault: pending() that finds nothing.
PendingUnseen(d) == {}

Pending(d) == {t \in Tasks : IsPending(d, t)}

Busy == send # None

\* Seeded fault: a claim that does not look at busy.
ClaimWhileBusy == ~unsure.conversation /\ ~unsure.lifecycle

(* PlaygroundService.claim, and the same of a request that is no setup.    *)
Claim == ~Busy /\ ~unsure.conversation /\ ~unsure.lifecycle

\* Seeded fault: a claim that does not look for a pending setup.
ClaimDuringSetup == Claim

ClaimWithoutSetup == Claim /\ Pending(db) = {}

(* resolve_sources, for a request that refers to what is stored.           *)
SourcesResolve(d) ==
  /\ d.memory # None
  /\ LET t == d.memory.task IN
     /\ d.states[t] # None
     /\ d.binding.active # None
     /\ d.policies[t] # None
     /\ d.setups[t] # None /\ d.setups[t].status = "ready"
     /\ d.setups[t].architecture = d.policies[t]
     /\ d.working[t] = [title |-> TRUE, architecture |-> d.policies[t]]

Sources(d) == [snapshot |-> Snapshot(d), binding |-> d.binding,
               state |-> d.states[d.memory.task], policy |-> d.policies[d.memory.task]]

IsFresh(s) == db.turns[s] = None /\ \A t \in Tasks : db.setups[t] # None => db.setups[t].session # s

-----------------------------------------------------------------------------
\* Seeded fault: the record is marked ready before the policy is written.
StepsReadyEarly ==
  <<"memory", "title", "architecture">> \o Presets \o <<"profile", "state", "ready", "policy">>

(* _complete: nine transactions for two presets, each safe to repeat.      *)
Steps == <<"memory", "title", "architecture">> \o Presets \o <<"profile", "state", "policy", "ready">>

(* create_reserved.                                                        *)
IsReserved(d, t) == d.memory # None /\ d.memory.task = t /\ d.memory.session = d.setups[t].session

Reserved(d, t) ==
  LET s == d.setups[t].session IN
  [d EXCEPT !.memory = [task |-> t, session |-> s,
                        revision |-> IF d.memory = None THEN 0 ELSE d.memory.revision + 1],
            !.turns[s] = << >>, !.taskOf[s] = t]

WithKeys(d, t, keys) == [d EXCEPT !.working[t] = keys, !.memory.revision = @ + 1]

(* SQLiteProfileStore.select.                                              *)
Selected(d, p) ==
  IF d.binding.active = p THEN d
  ELSE [d EXCEPT !.binding = [active |-> p, revision |-> d.binding.revision + 1]]

(* The conflicts that _complete looks for before it writes.                *)
MemoryFits(d, t) == IsReserved(d, t) \/ Snapshot(d) = d.setups[t].previous

ContentFits(d, t) ==
  /\ d.turns[d.setups[t].session] = << >>
  /\ d.working[t].architecture \in {None, d.setups[t].architecture}
  /\ d.states[t] \in {None, Initial}
  /\ d.policies[t] \in {None, d.setups[t].architecture}

BindingFits(d, t) ==
  LET previous == d.setups[t].binding
      preset == d.setups[t].preset IN
  d.binding \in {previous, [active |-> preset,
                            revision |-> previous.revision + IF previous.active = preset THEN 0 ELSE 1]}

StepFits(d, t, step) ==
  CASE step = "memory"                    -> MemoryFits(d, t)
    [] step \in {"title", "architecture"} -> ContentFits(d, t)
    [] step \in PresetSet                 -> d.profiles[step] <= 1
    [] step = "profile"                   -> BindingFits(d, t)
    [] OTHER                              -> TRUE

\* Seeded fault: _preset creates a profile without looking for it.
WithPresetAnew(d, p) == [d EXCEPT !.profiles[p] = @ + 1]

WithPreset(d, p) == [d EXCEPT !.profiles[p] = IF @ = 0 THEN 1 ELSE @]

AfterStep(d, t, step) ==
  CASE step = "memory"       -> IF IsReserved(d, t) THEN d ELSE Reserved(d, t)
    [] step = "title"        -> IF d.working[t].title THEN d
                                ELSE WithKeys(d, t, [title |-> TRUE, architecture |-> d.working[t].architecture])
    [] step = "architecture" -> IF d.working[t].architecture # None THEN d
                                ELSE WithKeys(d, t, [title |-> d.working[t].title,
                                                     architecture |-> d.setups[t].architecture])
    [] step \in PresetSet    -> WithPreset(d, step)
    [] step = "profile"      -> Selected(d, d.setups[t].preset)
    [] step = "state"        -> IF d.states[t] = None THEN [d EXCEPT !.states[t] = Initial] ELSE d
    [] step = "policy"       -> IF d.policies[t] = None
                                THEN [d EXCEPT !.policies[t] = d.setups[t].architecture] ELSE d
    [] step = "ready"        -> [d EXCEPT !.setups[t].status = "ready"]

(* The files after the first k steps, and whether the k+1st may be taken.  *)
After(d, t, k) ==
  LET run[i \in 0..Len(Steps)] == IF i = 0 THEN d ELSE AfterStep(run[i - 1], t, Steps[i]) IN run[k]

CanRun(d, t, k) == \A i \in 1..k : StepFits(After(d, t, i - 1), t, Steps[i])

-----------------------------------------------------------------------------
(* POST /create-task: the choices are recorded, then completed as far as   *)
(* the storage lets.                                                       *)
Recorded(t, s, architecture, preset) ==
  [db EXCEPT !.setups[t] = [status |-> "pending", session |-> s, architecture |-> architecture,
                            preset |-> preset, previous |-> Snapshot(db), binding |-> db.binding]]

CreateTask(t, s, architecture, preset) ==
  /\ Claim /\ Pending(db) = {}
  /\ db.memory = None \/ SourcesResolve(db)
  /\ db.setups[t] = None /\ IsFresh(s)
  /\ LET d == Recorded(t, s, architecture, preset) IN
     \E k \in 0..Len(Steps) : CanRun(d, t, k) /\ db' = After(d, t, k)
  /\ UNCHANGED <<send, outcome, cache, unsure>>

(* POST /complete-setup.                                                   *)
CompleteSetup(t) ==
  /\ Claim /\ IsPending(db, t)
  /\ \E k \in 1..Len(Steps) : CanRun(db, t, k) /\ db' = After(db, t, k)
  /\ UNCHANGED <<send, outcome, cache, unsure>>

(* POST /select-profile.                                                   *)
SelectProfile(p) ==
  /\ ClaimWithoutSetup /\ SourcesResolve(db)
  /\ db.profiles[p] = 1 /\ db.binding.revision < MaxBinding
  /\ db' = Selected(db, p)
  /\ UNCHANGED <<send, outcome, cache, unsure>>

(* POST /new-conversation.                                                 *)
NewConversation(s) ==
  /\ ClaimWithoutSetup /\ SourcesResolve(db) /\ IsFresh(s)
  /\ db' = [db EXCEPT !.memory = [task |-> db.memory.task, session |-> s,
                                  revision |-> db.memory.revision + 1],
                      !.turns[s] = << >>, !.taskOf[s] = db.memory.task]
  /\ UNCHANGED <<send, outcome, cache, unsure>>

(* POST /events: an allowed event is applied by compare-and-set.  Where    *)
(* the outcome of the write is unknown the read that ends the handler      *)
(* settles it, unless it fails too.                                        *)
EventCommits(event) ==
  LET t == db.memory.task IN
  db' = [db EXCEPT !.states[t] = Resolved(@, event)]

Event(event) ==
  /\ ClaimWithoutSetup /\ db.memory # None
  /\ LET t == db.memory.task IN
     /\ db.setups[t] # None /\ db.setups[t].status = "ready" /\ db.states[t] # None
     /\ event \in AllowedEvents(db.states[t]) /\ db.states[t].revision < MaxRevision
  /\ \/ EventCommits(event) /\ UNCHANGED unsure
     \/ (EventCommits(event) \/ UNCHANGED db) /\ unsure' = [unsure EXCEPT !.lifecycle = TRUE]
  /\ UNCHANGED <<send, outcome, cache>>

-----------------------------------------------------------------------------
(* reconcile: a new session manager that has loaded the current session.   *)
Reread(d, session) == [s \in Sessions |-> IF s = session THEN d.turns[s] ELSE None]

\* Seeded fault: send that does not look whether the task is finished.
IsFinishedNever(d) == FALSE

IsFinished(d) == d.states[d.memory.task].node \in TerminalNodes

(* POST /send up to the await of the model.                                *)
StartSend(m) ==
  LET s == db.memory.session IN
  /\ ClaimWithoutSetup /\ SourcesResolve(db)
  /\ ~IsFinished(db)
  /\ outcome[m] = "unsent"
  /\ cache' = [cache EXCEPT ![s] = IF @ = None THEN db.turns[s] ELSE @]
  /\ send' = [id |-> m, session |-> s, sources |-> Sources(db), matches |-> cache'[s] = db.turns[s]]
  /\ outcome' = [outcome EXCEPT ![m] = "running"]
  /\ UNCHANGED <<db, unsure>>

Receipt(result) ==
  /\ send # None
  /\ outcome' = [outcome EXCEPT ![send.id] = result]
  /\ send' = None

PairSaved == db' = [db EXCEPT !.turns[send.session] = Append(@, send.id)]

(* Nothing is committed: the stored history differs from the runtime one,  *)
(* generation or validation fails, or the request is cancelled.            *)
SendWithoutCommit ==
  /\ Receipt("not_attempted")
  /\ UNCHANGED <<db, cache, unsure>>

SendCommits ==
  /\ Receipt("committed") /\ send.matches
  /\ PairSaved
  /\ cache' = [cache EXCEPT ![send.session] = Append(@, send.id)]
  /\ UNCHANGED unsure

\* Seeded fault: an unknown commit reported as failed without reading again.
SendIsSettledBlindly ==
  /\ send # None /\ send.matches
  /\ PairSaved \/ UNCHANGED db
  /\ Receipt("failed")
  /\ UNCHANGED <<cache, unsure>>

(* The commit fails and the history is read again: it has the pair or not. *)
SendIsSettled ==
  /\ send # None /\ send.matches
  /\ PairSaved \/ UNCHANGED db
  /\ Receipt(IF db'.turns[send.session] = send.sources.snapshot.turns THEN "failed" ELSE "unknown")
  /\ cache' = Reread(db', send.session)
  /\ UNCHANGED unsure

(* The history cannot be read again: by the coordinator, or by the read    *)
(* that ends the handler as well.                                          *)
SendIsUnsure ==
  /\ send # None /\ send.matches
  /\ PairSaved \/ UNCHANGED db
  /\ Receipt("unknown")
  /\ \/ unsure' = [unsure EXCEPT !.conversation = TRUE] /\ UNCHANGED cache
     \/ UNCHANGED unsure /\ cache' = Reread(db', send.session)

(* GET /current, and the read that ends every handler.                     *)
ReadCurrent ==
  /\ db.memory # None /\ ~Busy
  /\ unsure.conversation \/ unsure.lifecycle
  /\ cache' = IF unsure.conversation THEN Reread(db, db.memory.session) ELSE cache
  /\ unsure' = [conversation |-> FALSE, lifecycle |-> FALSE]
  /\ UNCHANGED <<db, send, outcome>>

(* The process ends and starts again: only the files are left.             *)
Restart ==
  /\ send' = None
  /\ outcome' = IF Busy THEN [outcome EXCEPT ![send.id] = "lost"] ELSE outcome
  /\ cache' = [s \in Sessions |-> None]
  /\ unsure' = [conversation |-> FALSE, lifecycle |-> FALSE]
  /\ UNCHANGED db

Next ==
  \/ \E t \in Tasks, s \in Sessions, a \in Architectures, p \in PresetSet : CreateTask(t, s, a, p)
  \/ \E t \in Tasks : CompleteSetup(t)
  \/ \E p \in PresetSet : SelectProfile(p)
  \/ \E s \in Sessions : NewConversation(s)
  \/ \E event \in Events : Event(event)
  \/ \E m \in Sends : StartSend(m)
  \/ SendWithoutCommit \/ SendCommits \/ SendIsSettled \/ SendIsUnsure
  \/ ReadCurrent \/ Restart

Spec == Init /\ [][Next]_vars

-----------------------------------------------------------------------------
(* Type invariant.  A profile is stored once per preset.                   *)
TypeOK ==
  /\ db.memory \in {None} \cup Memories /\ db.working \in [Tasks -> Keys]
  /\ db.turns \in [Sessions -> Seq(Sends) \cup {None}]
  /\ db.taskOf \in [Sessions -> Tasks \cup {None}]
  /\ db.profiles \in [PresetSet -> 0..1]
  /\ db.binding \in Bindings
  /\ db.states \in [Tasks -> State \cup {None}]
  /\ db.policies \in [Tasks -> Architectures \cup {None}]
  /\ db.setups \in [Tasks -> Record \cup {None}]
  /\ Busy => /\ send.id \in Sends /\ send.session \in Sessions
             /\ outcome[send.id] = "running"
  /\ outcome \in [Sends -> {"unsent", "running", "committed", "failed", "not_attempted",
                            "unknown", "lost"}]
  /\ cache \in [Sessions -> Seq(Sends) \cup {None}]
  /\ unsure \in [conversation : BOOLEAN, lifecycle : BOOLEAN]

(* Wherever a creation was cut off, the same record can be completed: none *)
(* of the conflicts _complete looks for can have arisen.                   *)
PendingIsCompletable ==
  \A t \in Pending(db) : CanRun(db, t, Len(Steps))

(* A task whose setup is ready has everything a later request needs, with  *)
(* the values the record chose.                                            *)
ReadyIsComplete ==
  \A t \in Tasks : db.setups[t] # None /\ db.setups[t].status = "ready" =>
    LET record == db.setups[t] IN
    /\ db.working[t] = [title |-> TRUE, architecture |-> record.architecture]
    /\ db.policies[t] = record.architecture
    /\ db.states[t] # None /\ IsValid(db.states[t])
    /\ db.turns[record.session] # None /\ db.taskOf[record.session] = t
    /\ \A p \in PresetSet : db.profiles[p] = 1

(* A reference makes one task: however often a client repeats its request  *)
(* no two records start from the same snapshot, and one at most is open.   *)
OneTaskPerReference ==
  /\ \A t, u \in Tasks : db.setups[t] # None /\ db.setups[u] # None
       /\ db.setups[t].previous = db.setups[u].previous => t = u
  /\ Cardinality({t \in Tasks : IsPending(db, t)}) <= 1

(* What the coordinator remembers of a conversation is what is stored,     *)
(* unless a reading again is required: a send is not turned away for a     *)
(* history that differs.                                                   *)
RuntimeIsCurrent ==
  ~unsure.conversation =>
    \A s \in Sessions : cache[s] # None => cache[s] = db.turns[s]

(* A receipt says of the pair what is true of it.                          *)
ReceiptsTellTheTruth ==
  \A m \in Sends :
    LET isSaved == \E s \in Sessions : db.turns[s] # None
                     /\ \E i \in DOMAIN db.turns[s] : db.turns[s][i] = m IN
    /\ outcome[m] = "committed" => isSaved
    /\ outcome[m] \in {"failed", "not_attempted"} => ~isSaved

(* A pair is saved under the memory, profile, state and policy it was      *)
(* generated from.                                                         *)
SavedUnderItsSources ==
  [][Busy /\ db'.turns # db.turns => Sources(db) = send.sources]_vars

(* The five files together keep the promise of PlaygroundTasks.            *)
TaskView ==
  [t \in {u \in Tasks : db.setups[u] # None /\ db.setups[u].status = "ready"} |->
     [policy |-> db.policies[t], state |-> db.states[t],
      turns |-> {m \in Sends : \E s \in Sessions :
                   /\ db.taskOf[s] = t
                   /\ \E i \in DOMAIN db.turns[s] : db.turns[s][i] = m}]]

Promise == INSTANCE PlaygroundTasks WITH tasks <- TaskView
KeepsThePromise == Promise!Spec

(* Tasks are whole: one for a reference, and each complete or completable   *)
(* from what its record says (create_task, _complete, current).             *)
TasksAreWhole == PendingIsCompletable /\ ReadyIsComplete /\ OneTaskPerReference

(* What is remembered and what was answered agree with what is stored,      *)
(* also after a commit in doubt (send, synchronize, submit_event).          *)
SendsTellTheTruth == RuntimeIsCurrent /\ ReceiptsTellTheTruth
=============================================================================
