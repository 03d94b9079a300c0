------------------------------ MODULE MemoryStore ------------------------------
(***************************************************************************)
(* The memory file of the labs of days 11 to 14: one owner, a current task *)
(* with its working memory, a current conversation of that task, long-term *)
(* memory, and a revision that every change raises.  The conversations of  *)
(* the file are read through runtime objects that are loaded once.  The    *)
(* operations below are transactions: their callers, the labs, decide when *)
(* they may run.  Tasks and conversations are numbered as they are made.   *)
(***************************************************************************)
EXTENDS Naturals, Sequences, FiniteSets

CONSTANTS
  MaxTasks, MaxChats,   \* bounds on tasks and conversations
  NKeys,                \* keys a working memory may hold
  MaxRevision,          \* bound on revisions
  NotLoaded             \* mark: no runtime object

ASSUME MemoryStoreAssumption ==
  /\ MaxTasks \in Nat \ {0} /\ MaxChats \in Nat \ {0}
  /\ NKeys \in Nat /\ MaxRevision \in Nat

VARIABLES
  memory,   \* owner's binding and both memories; made when ready
  chats,    \* per conversation, its task and its saved turns
  cache     \* per conversation, the turns of its runtime object, or NotLoaded

memoryVars == <<memory, chats, cache>>

Keys == 1..NKeys

MemoryStoreInit ==
  /\ memory = [ready |-> FALSE, task |-> 0, chat |-> 0, revision |-> 0,
               working |-> << >>, long |-> FALSE]
  /\ chats = << >>
  /\ cache = [c \in 1..MaxChats |-> NotLoaded]

(* read: the snapshot whose digest a request has to name.                  *)
Snapshot == [task |-> memory.task, chat |-> memory.chat, revision |-> memory.revision,
             working |-> memory.working[memory.task], long |-> memory.long,
             turns |-> chats[memory.chat].turns]

(* What the labs' policy finds in the runtime: the object, loaded if need be. *)
RuntimeTurns(c) == IF cache[c] # NotLoaded THEN cache[c] ELSE chats[c].turns
Loaded(c) == cache' = [cache EXCEPT ![c] = RuntimeTurns(c)]

(* initialize: owner, first task and conversation in one transaction.      *)
InitializeMemory ==
  IF memory.ready THEN UNCHANGED memoryVars
  ELSE /\ memory' = [memory EXCEPT !.ready = TRUE, !.task = 1, !.chat = 1, !.working = <<{}>>]
       /\ chats' = <<[task |-> 1, turns |-> << >>]>>
       /\ UNCHANGED cache

(* mutate: set or remove one key, nothing when that changes nothing.       *)
WorkingChanged(S) ==
  /\ memory' = [memory EXCEPT !.working[memory.task] = S,
                              !.revision = @ + Cardinality(S \ memory.working[memory.task])
                                             + Cardinality(memory.working[memory.task] \ S)]
  /\ UNCHANGED <<chats, cache>>

LongChanged(b) ==
  /\ memory' = [memory EXCEPT !.long = b, !.revision = IF b = memory.long THEN @ ELSE @ + 1]
  /\ UNCHANGED <<chats, cache>>

\* Seeded fault: a new task starts with the working memory of the old one.
NewTaskCopies ==
  /\ Len(memory.working) < MaxTasks /\ Len(chats) < MaxChats
  /\ memory' = [memory EXCEPT !.task = Len(memory.working) + 1, !.chat = Len(chats) + 1,
       !.revision = @ + 1, !.working = Append(@, @[memory.task])]
  /\ chats' = Append(chats, [task |-> memory.task, turns |-> << >>])

(* transition new-task: a task, its empty memory and its conversation.     *)
NewTask ==
  /\ Len(memory.working) < MaxTasks /\ Len(chats) < MaxChats
  /\ memory' = [memory EXCEPT !.task = Len(memory.working) + 1, !.chat = Len(chats) + 1,
       !.revision = @ + 1, !.working = Append(@, {})]
  /\ chats' = Append(chats, [task |-> Len(memory.working) + 1, turns |-> << >>])

(* transition new-conversation: another conversation of the same task.     *)
NewConversation ==
  /\ Len(chats) < MaxChats
  /\ memory' = [memory EXCEPT !.chat = Len(chats) + 1, !.revision = @ + 1]
  /\ chats' = Append(chats, [task |-> memory.task, turns |-> << >>])

(* After a transition the new conversation is loaded; that read may fail   *)
(* with the transition durable.                                            *)
NewChatLoaded ==
  \/ cache' = [cache EXCEPT ![Len(chats) + 1] = << >>]
  \/ UNCHANGED cache

(* AgentSession.commit for the current conversation: the pair is saved,    *)
(* rolled back, or durable although the commit is reported failed.         *)
PairSaved(turn) ==
  /\ chats' = [chats EXCEPT ![memory.chat].turns = Append(@, turn)]
  /\ cache' = [cache EXCEPT ![memory.chat] = Append(@, turn)]
PairRolledBack == UNCHANGED <<chats, cache>>
PairInDoubt(turn) ==
  /\ chats' = [chats EXCEPT ![memory.chat].turns = Append(@, turn)]
  /\ UNCHANGED cache

(* A file MemoryStore.read accepts: the current conversation belongs to    *)
(* the current task, and every conversation to a task there is.            *)
BindingIsSound ==
  memory.ready =>
    /\ memory.task \in DOMAIN memory.working /\ memory.chat \in DOMAIN chats
    /\ chats[memory.chat].task = memory.task
    /\ \A c \in DOMAIN chats : chats[c].task \in DOMAIN memory.working
=============================================================================
