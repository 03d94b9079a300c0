-------------------------- MODULE DependencyWatch --------------------------
(***************************************************************************)
(* The dependency watch service (day-18-dependency-watch): a SQLite store  *)
(* of watches and of their executions, one asyncio worker that claims due  *)
(* slots and looks versions up, and the processes that serve the store one *)
(* at a time under an advisory file lock.                                  *)
(*                                                                         *)
(* Durable state is watch and rows; everything else but the wall clock     *)
(* belongs to a process and is lost when that process goes down.  Every    *)
(* action is one SQLite transaction, or one stretch of event-loop code     *)
(* between two awaits.                                                     *)
(***************************************************************************)
EXTENDS Integers, Sequences, FiniteSets

CONSTANTS
    Watches,         \* watch identities, each drawn by at most one create
    Requests,        \* create inputs of the valid shape: [interval, maxRuns]
    Procs,           \* service processes that may be started on the database
    NoProc,          \* nobody holds the owner lock
    Times,           \* readings of the wall clock, which may go back
    MaxActive,       \* quota of active watches (5 in the code)
    ShortBound,      \* an interval below this one is a short one (3600 s)
    AllowShort,      \* the server configuration admits short intervals
    MaxShortRuns,    \* budget of a watch with a short interval (3)
    MaxDisruptions   \* bound on crashes, failures and stops in a behaviour

ASSUME WatchesAssumption == IsFiniteSet(Watches)
ASSUME RequestsAssumption ==
    Requests \subseteq [interval : Nat \ {0}, maxRuns : Nat \ {0}]
ASSUME ProcsAssumption == NoProc \notin Procs
ASSUME TimesAssumption == Times \subseteq Nat
ASSUME BoundsAssumption ==
    /\ {MaxActive, ShortBound, MaxShortRuns, MaxDisruptions} \subseteq Nat
    /\ AllowShort \in BOOLEAN

VARIABLES
    watch,    \* table watches: one row per identity, status "none" before create
    rows,     \* table executions, per watch, in the order of insertion
    clock,    \* the wall clock, utc_ms()
    lock,     \* holder of the OwnerLock
    pc,       \* a process is down, starting, serving or draining
    ready,    \* state["ready"] of a process
    healthy,  \* store.healthy of a process
    worker,   \* none | idle (between passes) | pass | lookup
    passNow,  \* the clock reading of a pass of run_due_jobs, NoRun outside one
    batch,    \* watches that store.due returned and the pass has not reached
    run,      \* the claimed run a worker is looking up
    disruptions    \* crashes, failures and stops so far

durable == <<watch, rows>>
process == <<pc, ready, healthy, worker, passNow, batch, run>>
vars == <<watch, rows, clock, lock, pc, ready, healthy, worker, passNow, batch, run, disruptions>>

NoRun == -1                \* next_run_at IS NULL
Terminal == {"succeeded", "failed", "interrupted"}
Row == [slot : Nat, state : Terminal \union {"running"}]
WatchRow == [status : {"none", "active", "completed"}, interval : Nat, maxRuns : Nat,
             created : Nat, next : Nat \union {NoRun}, runs : Nat, skipped : Nat]
Blank == [status |-> "none", interval |-> 0, maxRuns |-> 0, created |-> 0,
          next |-> NoRun, runs |-> 0, skipped |-> 0]
NoneClaimed == [watch |-> "none", slot |-> NoRun]

TypeOK ==
    /\ watch \in [Watches -> WatchRow]
    /\ rows \in [Watches -> Seq(Row)]
    /\ clock \in Times
    /\ lock \in Procs \union {NoProc}
    /\ pc \in [Procs -> {"down", "starting", "serving", "draining"}]
    /\ ready \in [Procs -> BOOLEAN]
    /\ healthy \in [Procs -> BOOLEAN]
    /\ worker \in [Procs -> {"none", "idle", "pass", "lookup"}]
    /\ passNow \in [Procs -> Times \union {NoRun}]
    /\ batch \in [Procs -> SUBSET Watches]
    /\ run \in [Procs -> [watch : Watches \union {"none"}, slot : Nat \union {NoRun}]]
    /\ disruptions \in 0 .. MaxDisruptions

Init ==
    /\ watch = [w \in Watches |-> Blank]
    /\ rows = [w \in Watches |-> <<>>]
    /\ clock \in Times
    /\ lock = NoProc
    /\ pc = [p \in Procs |-> "down"]
    /\ ready = [p \in Procs |-> FALSE]
    /\ healthy = [p \in Procs |-> FALSE]
    /\ worker = [p \in Procs |-> "none"]
    /\ passNow = [p \in Procs |-> NoRun]
    /\ batch = [p \in Procs |-> {}]
    /\ run = [p \in Procs |-> NoneClaimed]
    /\ disruptions = 0

-----------------------------------------------------------------------------
(* The store: what the transactions read and write.                        *)

Larger(a, b) == IF a >= b THEN a ELSE b

Running(w) == \E i \in DOMAIN rows[w] : rows[w][i].state = "running"
Active == {w \in Watches : watch[w].status = "active"}
Due(now) == {w \in Active : watch[w].next <= now}
IsShort(interval) == interval < ShortBound

\* How many grid slots a claim at now passes over, and the slot it takes.
Skipped(w, now) == (now - watch[w].next) \div watch[w].interval
ClaimedSlot(w, now) == watch[w].next + Skipped(w, now) * watch[w].interval

Claimable(w, now) ==
    /\ watch[w].status = "active"
    /\ watch[w].next <= now
    /\ ~Running(w)

\* Seeded fault: the next slot follows the clock alone, so a clock that was set
\* back names a slot again.
FollowingClockOnly(w, slot, now, recovery) ==
    IF recovery
    THEN slot + watch[w].interval
    ELSE watch[w].created + ((now - watch[w].created) \div watch[w].interval + 1) * watch[w].interval

\* The grid slot after a terminal run: the first one in the future of an
\* ordinary run, the very next one of a recovered run.
FollowingSlot(w, slot, now, recovery) ==
    LET base == slot + watch[w].interval
        future == watch[w].created
                    + ((now - watch[w].created) \div watch[w].interval + 1) * watch[w].interval
    IN  IF recovery THEN base ELSE Larger(base, future)

\* Seeded fault: the update names the watch instead of the run.
SettledEveryRow(w, outcome) ==
    [i \in DOMAIN rows[w] |-> [rows[w][i] EXCEPT !.state = outcome]]

\* The executions of a watch once its running one has this outcome.
Settled(w, outcome) ==
    [i \in DOMAIN rows[w] |->
        IF rows[w][i].state = "running" THEN [rows[w][i] EXCEPT !.state = outcome] ELSE rows[w][i]]

\* Seeded fault: an interrupted run does not spend the budget.
CompletedCount(s) == Cardinality({i \in DOMAIN s : s[i].state \in {"succeeded", "failed"}})

TerminalCount(s) == Cardinality({i \in DOMAIN s : s[i].state \in Terminal})
RunningSlot(w) == rows[w][CHOOSE i \in DOMAIN rows[w] : rows[w][i].state = "running"].slot

\* Seeded fault: the slot that follows is counted as passed over.
PassedOverInclusive(w, slot, next) == (next - slot) \div watch[w].interval

\* The grid slots strictly between a terminal run and the one that follows.
PassedOver(w, slot, next) == (next - slot) \div watch[w].interval - 1

\* _terminalize: the watch row that is written with the terminal execution.
Advanced(w, now, recovery) ==
    LET slot == RunningSlot(w)
        total == TerminalCount(Settled(w, "failed"))
        next == FollowingSlot(w, slot, now, recovery)
        completed == total >= watch[w].maxRuns
    IN  [watch[w] EXCEPT !.runs = total,
                         !.status = IF completed THEN "completed" ELSE "active",
                         !.next = IF completed THEN NoRun ELSE next,
                         !.skipped = @ + PassedOver(w, slot, next)]

-----------------------------------------------------------------------------
(* Process life cycle: lifespan() of server.py under run.py and systemd.    *)

\* Seeded fault: the store is opened without the owner lock.
LaunchUnlocked(p) ==
    /\ pc[p] = "down"
    /\ lock' = p
    /\ pc' = [pc EXCEPT ![p] = "starting"]
    /\ UNCHANGED <<durable, clock, ready, healthy, worker, passNow, batch, run, disruptions>>

\* The owner lock is taken before the store is opened.
Launch(p) ==
    /\ pc[p] = "down"
    /\ lock = NoProc
    /\ lock' = p
    /\ pc' = [pc EXCEPT ![p] = "starting"]
    /\ UNCHANGED <<durable, clock, ready, healthy, worker, passNow, batch, run, disruptions>>

\* Seeded fault: a new process does not look at the runs it inherits.
RecoverNothing(p) ==
    /\ pc[p] = "starting"
    /\ pc' = [pc EXCEPT ![p] = "serving"]
    /\ ready' = [ready EXCEPT ![p] = TRUE]
    /\ healthy' = [healthy EXCEPT ![p] = TRUE]
    /\ worker' = [worker EXCEPT ![p] = "idle"]
    /\ UNCHANGED <<durable, clock, lock, passNow, batch, run, disruptions>>

\* recover() commits before the store is published and the worker starts.
Recover(p) ==
    /\ pc[p] = "starting"
    /\ rows' = [w \in Watches |-> IF Running(w) THEN Settled(w, "interrupted") ELSE rows[w]]
    /\ watch' = [w \in Watches |-> IF Running(w) THEN Advanced(w, clock, TRUE) ELSE watch[w]]
    /\ pc' = [pc EXCEPT ![p] = "serving"]
    /\ ready' = [ready EXCEPT ![p] = TRUE]
    /\ healthy' = [healthy EXCEPT ![p] = TRUE]
    /\ worker' = [worker EXCEPT ![p] = "idle"]
    /\ UNCHANGED <<clock, lock, passNow, batch, run, disruptions>>

\* Between two awaits the worker holds the event loop: no tool call and no
\* step of the lifespan runs in the middle of a pass.
LoopIsFree(p) == worker[p] # "pass"

\* SIGTERM: the stop event is set, the worker is not cancelled yet.
Stop(p) ==
    /\ pc[p] = "serving" /\ LoopIsFree(p)
    /\ disruptions < MaxDisruptions
    /\ disruptions' = disruptions + 1
    /\ pc' = [pc EXCEPT ![p] = "draining"]
    /\ ready' = [ready EXCEPT ![p] = FALSE]
    /\ UNCHANGED <<durable, clock, lock, healthy, worker, passNow, batch, run>>

\* What is left of a process that is gone: the OS drops its lock.
Gone(p) ==
    /\ lock' = IF lock = p THEN NoProc ELSE lock
    /\ pc' = [pc EXCEPT ![p] = "down"]
    /\ ready' = [ready EXCEPT ![p] = FALSE]
    /\ healthy' = [healthy EXCEPT ![p] = FALSE]
    /\ worker' = [worker EXCEPT ![p] = "none"]
    /\ batch' = [batch EXCEPT ![p] = {}]
    /\ run' = [run EXCEPT ![p] = NoneClaimed]
    /\ passNow' = [passNow EXCEPT ![p] = NoRun]
    /\ UNCHANGED <<durable, clock>>

\* The worker task is cancelled at its await and the lock is released.
Exit(p) ==
    /\ pc[p] = "draining" /\ LoopIsFree(p)
    /\ Gone(p)
    /\ UNCHANGED disruptions

\* The process dies, or cannot open or recover the store, at any point.
Crash(p) ==
    /\ pc[p] # "down"
    /\ disruptions < MaxDisruptions
    /\ disruptions' = disruptions + 1
    /\ Gone(p)

-----------------------------------------------------------------------------
(* Tool calls.                                                             *)

\* Seeded fault: the limits are compared after the insert they should precede.
AdmittedOneMore(request) ==
    /\ IsShort(request.interval) => AllowShort /\ request.maxRuns <= MaxShortRuns
    /\ Cardinality(Active) <= MaxActive
    /\ IsShort(request.interval) => \A w \in Active : ~IsShort(watch[w].interval)

\* Seeded fault: the count alone limits the active watches.
AdmittedByCount(request) ==
    /\ IsShort(request.interval) => AllowShort /\ request.maxRuns <= MaxShortRuns
    /\ Cardinality(Active) < MaxActive

Admitted(request) ==
    /\ IsShort(request.interval) => AllowShort /\ request.maxRuns <= MaxShortRuns
    /\ Cardinality(Active) < MaxActive
    /\ IsShort(request.interval) => \A w \in Active : ~IsShort(watch[w].interval)

Create(p, w, request) ==
    /\ ready[p] /\ healthy[p] /\ LoopIsFree(p)
    /\ watch[w].status = "none"
    /\ Admitted(request)
    /\ watch' = [watch EXCEPT ![w] =
           [status |-> "active", interval |-> request.interval, maxRuns |-> request.maxRuns,
            created |-> clock, next |-> clock + request.interval, runs |-> 0, skipped |-> 0]]
    /\ UNCHANGED <<rows, clock, lock, process, disruptions>>

\* A transaction of a tool call fails: the store of this process is unusable.
ToolStorageError(p) ==
    /\ ready[p] /\ healthy[p] /\ LoopIsFree(p)
    /\ disruptions < MaxDisruptions
    /\ disruptions' = disruptions + 1
    /\ healthy' = [healthy EXCEPT ![p] = FALSE]
    /\ UNCHANGED <<durable, clock, lock, pc, ready, worker, passNow, batch, run>>

-----------------------------------------------------------------------------
(* The worker: run_due_jobs() of scheduler.py.                             *)

BeginPass(p) ==
    /\ pc[p] = "serving" /\ healthy[p]
    /\ worker[p] = "idle"
    /\ Due(clock) # {}
    /\ passNow' = [passNow EXCEPT ![p] = clock]
    /\ batch' = [batch EXCEPT ![p] = Due(clock)]
    /\ worker' = [worker EXCEPT ![p] = "pass"]
    /\ UNCHANGED <<durable, clock, lock, pc, ready, healthy, run, disruptions>>

\* The next watch of the pass, by next_run_at; the claim uses the reading of
\* the clock the pass began with.
Claim(p, w) ==
    /\ worker[p] = "pass" /\ healthy[p]
    /\ w \in batch[p]
    /\ \A v \in batch[p] : watch[w].next <= watch[v].next
    /\ batch' = [batch EXCEPT ![p] = @ \ {w}]
    /\ IF Claimable(w, passNow[p])
       THEN LET slot == ClaimedSlot(w, passNow[p]) IN
            /\ rows' = [rows EXCEPT ![w] = Append(@, [slot |-> slot, state |-> "running"])]
            /\ watch' = [watch EXCEPT ![w].skipped = @ + Skipped(w, passNow[p])]
            /\ run' = [run EXCEPT ![p] = [watch |-> w, slot |-> slot]]
            /\ worker' = [worker EXCEPT ![p] = "lookup"]
       ELSE UNCHANGED <<rows, watch, run, worker>>
    /\ UNCHANGED <<clock, lock, pc, ready, healthy, passNow, disruptions>>

\* The execution row a worker claimed is still running.
StillRunning(p) ==
    \E i \in DOMAIN rows[run[p].watch] :
        rows[run[p].watch][i] = [slot |-> run[p].slot, state |-> "running"]

\* The lookup returned or raised LookupFailure, and finish() commits it; a row
\* that is no longer running is left alone.
Finish(p, outcome) ==
    /\ worker[p] = "lookup" /\ healthy[p]
    /\ LET w == run[p].watch IN
       IF StillRunning(p)
       THEN /\ rows' = [rows EXCEPT ![w] = Settled(w, outcome)]
            /\ watch' = [watch EXCEPT ![w] = Advanced(w, clock, FALSE)]
       ELSE UNCHANGED durable
    /\ worker' = [worker EXCEPT ![p] = "pass"]
    /\ run' = [run EXCEPT ![p] = NoneClaimed]
    /\ UNCHANGED <<clock, lock, pc, ready, healthy, passNow, batch, disruptions>>

EndPass(p) ==
    /\ worker[p] = "pass"
    /\ batch[p] = {}
    /\ worker' = [worker EXCEPT ![p] = "idle"]
    /\ passNow' = [passNow EXCEPT ![p] = NoRun]
    /\ UNCHANGED <<durable, clock, lock, pc, ready, healthy, batch, run, disruptions>>

\* Seeded fault: the end of the worker does not stop the process.
WorkerGoneUnnoticed(p) ==
    /\ worker' = [worker EXCEPT ![p] = "none"]
    /\ batch' = [batch EXCEPT ![p] = {}]
    /\ run' = [run EXCEPT ![p] = NoneClaimed]
    /\ passNow' = [passNow EXCEPT ![p] = NoRun]
    /\ UNCHANGED <<durable, clock, lock, pc, ready>>

WorkerGone(p) ==
    /\ worker' = [worker EXCEPT ![p] = "none"]
    /\ batch' = [batch EXCEPT ![p] = {}]
    /\ run' = [run EXCEPT ![p] = NoneClaimed]
    /\ ready' = [ready EXCEPT ![p] = FALSE]
    /\ pc' = [pc EXCEPT ![p] = "draining"]
    /\ passNow' = [passNow EXCEPT ![p] = NoRun]
    /\ UNCHANGED <<durable, clock, lock>>

\* A store call of the worker, or an unexpected error of the lookup, kills the
\* worker task; worker_done() withdraws readiness and stops the process.
WorkerFails(p) ==
    /\ worker[p] # "none"
    /\ disruptions < MaxDisruptions
    /\ disruptions' = disruptions + 1
    /\ \E h \in {healthy[p], FALSE} : healthy' = [healthy EXCEPT ![p] = h]
    /\ WorkerGone(p)

\* Once a tool call found the store broken, the next store call of the worker
\* raises as well.
WorkerMeetsBrokenStore(p) ==
    /\ worker[p] # "none"
    /\ ~healthy[p]
    /\ WorkerGone(p)
    /\ UNCHANGED <<healthy, disruptions>>

-----------------------------------------------------------------------------
\* The wall clock moves, in either direction.
Tick ==
    /\ clock' \in Times \ {clock}
    /\ UNCHANGED <<durable, lock, process, disruptions>>

Next ==
    \/ Tick
    \/ \E p \in Procs :
        \/ Launch(p) \/ Recover(p) \/ Stop(p) \/ Exit(p) \/ Crash(p)
        \/ \E w \in Watches, request \in Requests : Create(p, w, request)
        \/ ToolStorageError(p)
        \/ BeginPass(p) \/ EndPass(p)
        \/ \E w \in Watches : Claim(p, w)
        \/ \E outcome \in {"succeeded", "failed"} : Finish(p, outcome)
        \/ WorkerFails(p) \/ WorkerMeetsBrokenStore(p)

Spec == Init /\ [][Next]_vars

\* The loop of the worker, the bounded lookup (15 s) and the steps of a starting
\* or stopping process always get their turn; systemd, or the operator who
\* stopped the service, starts it again.  Ticks, tool calls, stops and failures
\* are left to the environment.
Fairness ==
    /\ WF_vars(\E p \in Procs : Launch(p))
    /\ \A p \in Procs :
        /\ WF_vars(Recover(p)) /\ WF_vars(Exit(p))
        /\ WF_vars(BeginPass(p)) /\ WF_vars(EndPass(p))
        /\ WF_vars(\E w \in Watches : Claim(p, w))
        /\ WF_vars(\E outcome \in {"succeeded", "failed"} : Finish(p, outcome))
        /\ WF_vars(WorkerMeetsBrokenStore(p))

FairSpec == Spec /\ Fairness

-----------------------------------------------------------------------------
(* What the service guarantees.                                            *)

\* Every slot of the grid created_at + N * interval before the next one was
\* either executed or counted in skipped_slots, once: the two places that count
\* skipped slots (claim and _terminalize) agree with next_run_at after late
\* passes, clock jumps and recoveries.
SlotAccounting ==
    \A w \in Active :
        LET expected == watch[w].created
                          + watch[w].interval * (1 + watch[w].runs + watch[w].skipped)
        IN  IF Running(w) THEN RunningSlot(w) = expected ELSE watch[w].next = expected

\* A slot has at most one execution, in slot order, and the slot a watch waits
\* for has none, so UNIQUE(watch_id, scheduled_at) never refuses a claim, even
\* when the clock is set back or a run was recovered.
OneExecutionPerSlot ==
    \A w \in Watches :
        /\ \A i, j \in DOMAIN rows[w] : i < j => rows[w][i].slot < rows[w][j].slot
        /\ watch[w].status = "active" /\ ~Running(w) =>
               \A i \in DOMAIN rows[w] : rows[w][i].slot < watch[w].next

\* No watch is executed more often than max_runs, failures and interruptions
\* included, and it is completed exactly when the budget is spent.
BudgetHeld ==
    \A w \in Watches : watch[w].status # "none" =>
        /\ Len(rows[w]) <= watch[w].maxRuns
        /\ watch[w].runs = Cardinality({i \in DOMAIN rows[w] : rows[w][i].state # "running"})
        /\ watch[w].status = "completed" <=> watch[w].runs = watch[w].maxRuns
        /\ watch[w].status = "completed" <=> watch[w].next = NoRun

\* The row a worker is looking up is still running and its process still owns
\* the database: no recovery, of this process or another, ends a run under the
\* worker that will commit its result.
WorkerOwnsItsRun ==
    \A p \in Procs : worker[p] = "lookup" => lock = p /\ StillRunning(p)

\* A process that answers summaries shows no run left over by an earlier
\* process: what is running is what its own worker is looking up.
ReadyMeansRecovered ==
    \A p \in Procs : ready[p] =>
        \A w \in Watches : Running(w) => worker[p] = "lookup" /\ run[p].watch = w

\* The quotas of create hold in every state, not only in the one create read:
\* at most MaxActive active watches, whatever was created and completed before,
\* and among them at most one short one, whose budget is a short one too.
QuotaHeld ==
    /\ Cardinality(Active) <= MaxActive
    /\ \A w \in Active : IsShort(watch[w].interval) => watch[w].maxRuns <= MaxShortRuns
    /\ \A v, w \in Active :
        IsShort(watch[v].interval) /\ IsShort(watch[w].interval) => v = w

\* What history says is final: an execution that ended keeps its outcome, no
\* execution disappears, and a completed watch is never touched again.
HistoryIsAppendOnly ==
    [][\A w \in Watches :
        /\ \A i \in DOMAIN rows[w] :
            /\ i \in DOMAIN rows'[w] /\ rows'[w][i].slot = rows[w][i].slot
            /\ rows[w][i].state # "running" => rows'[w][i] = rows[w][i]
        /\ watch[w].status = "completed" => watch'[w] = watch[w] /\ rows'[w] = rows[w]]_vars

\* A due watch is not left waiting: it gets its run, unless the clock is set
\* back before its slot.  One watch cannot starve another, and a worker that
\* died does not leave a service that schedules nothing.
DueIsServed == \A w \in Watches :
    (w \in Due(clock)) ~> (w \notin Due(clock) \/ Running(w))

\* What the specification of the service says of a restart after an outage: the
\* one check that is made is for the last due slot.  The claim works with the
\* reading of the clock its pass began with, so a slot that falls due while the
\* pass looks other watches up is not the one that is executed.
LastDueSlotIsClaimed ==
    [][\A w \in Watches : Len(rows'[w]) > Len(rows[w]) =>
        rows'[w][Len(rows'[w])].slot + watch[w].interval > clock]_vars

\* The grid, the counters and the rows of a watch agree in every state, whatever
\* the clock, failures and recoveries did (claim, _terminalize).
SlotsAndBudgets == SlotAccounting /\ OneExecutionPerSlot /\ BudgetHeld

\* A run belongs to one worker of one process, from claim to its end (OwnerLock,
\* recover, lifespan).
OwnershipHolds == WorkerOwnsItsRun /\ ReadyMeansRecovered
=============================================================================
