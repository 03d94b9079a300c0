--------------------------- MODULE OllamaAttempts ---------------------------
(* The day-29 driver (day-29-local-assistant-optimization/driver.py): every  *)
(* attempt against the local Ollama is announced in a journal, run by a      *)
(* worker process under a deadline and closed in the journal.  A worker can  *)
(* be killed and a driver can die while Ollama goes on with the inference,   *)
(* so the journal is the gate: an attempt without an end, or one whose end   *)
(* does not know what became of the server, stops all further work of that   *)
(* journal.  The gate is one of its file only: the command line writes the   *)
(* ledger, and whoever executes a corrected prompt or the compact contract   *)
(* names a file of its own.  One operator starts one driver at a time.  Time *)
(* is counted in whole minutes, of which a short attempt takes none.         *)
EXTENDS Naturals, Sequences, FiniteSets, SequencesExt

CONSTANTS
    ModelOrder,          \* sequence of the candidate models
    SuiteScenarios,      \* sequence of the scenarios of the quality suite
    CandidateScenarios,  \* sequence of those of the rag and variation stages
    MaxCalls,            \* inferences a journal may hold (32)
    MaxMinutes,          \* minutes after which nothing is begun (90)
    Overrun,             \* bound: minutes it takes to spawn, kill and reap a worker
    Files,               \* the journals
    Ledger,              \* the one of the command line
    DriverCommands,      \* bound: commands the operator gives
    NoScenario

ASSUME OllamaAttemptsAssumption ==
    /\ MaxCalls \in Nat /\ MaxMinutes \in Nat /\ Overrun \in Nat /\ DriverCommands \in Nat
    /\ Ledger \in Files

VARIABLES
    journals,   \* of every file the attempts, in the order they were announced
    path,       \* the file the driver writes
    plan,       \* the jobs it still has to execute
    current,    \* position of the attempt it waits for, or 0
    workers,    \* the worker processes, with what they would report
    server,     \* the attempts whose inference runs at Ollama
    given       \* history: commands given

driverVars == <<journals, path, plan, current, workers, server, given>>

Job(m, c, op, sid, v) ==
    [model |-> m, config |-> c, operation |-> op, scenario |-> sid, variant |-> v]

OllamaAttemptsInit ==
    /\ journals = [f \in Files |-> <<>>] /\ path = Ledger /\ plan = <<>> /\ current = 0
    /\ workers = {} /\ server = {} /\ given = 0

Metadata(m, c) == Job(m, c, "metadata", NoScenario, "none")

\* suite: every model is inspected, loaded and asked the scenarios.
SuiteOf(m) ==
    <<Metadata(m, "baseline"), Job(m, "baseline", "load", NoScenario, "none")>>
      \o [i \in DOMAIN SuiteScenarios |->
            Job(m, "baseline", "chat", SuiteScenarios[i], "none")]

\* The rows of a candidate's baseline in the ledger, all completed.
ReviewedBaseline(m) ==
    LET journal == journals[Ledger]
        rows == {i \in DOMAIN journal :
                    /\ journal[i].status # "started"
                    /\ journal[i].job \in {Job(m, "baseline", "chat", s, "none") :
                                              s \in ToSet(SuiteScenarios)}}
    IN  /\ {journal[i].job.scenario : i \in rows} = ToSet(SuiteScenarios)
        /\ Cardinality(rows) = Len(SuiteScenarios)
        /\ \A i \in rows : journal[i].status = "completed"

CandidateJobs(m, c, op) ==
    <<Metadata(m, c)>> \o [i \in DOMAIN CandidateScenarios |->
                             Job(m, c, op, CandidateScenarios[i], "none")]

\* The operator gives a command: the suite or a stage of a reviewed candidate,
\* in the ledger, or executes one S4 or S6 job of a corrected prompt or of the
\* compact contract in a file of his choice.
GiveCommand ==
    /\ plan = <<>> /\ current = 0 /\ given < DriverCommands
    /\ given' = given + 1
    /\ \/ /\ path' = Ledger
          /\ \/ plan' = FlattenSeq([i \in DOMAIN ModelOrder |-> SuiteOf(ModelOrder[i])])
             \/ \E m \in ToSet(ModelOrder) :
                   \/ plan' = SuiteOf(m)
                   \/ ReviewedBaseline(m) /\ plan' = CandidateJobs(m, "baseline", "rag")
                   \/ ReviewedBaseline(m) /\ plan' = CandidateJobs(m, "variation", "chat")
       \/ \E s \in {"S4", "S6"}, v \in {"prompt", "compact"} :
             /\ path' \in Files
             /\ plan' = <<Job(ModelOrder[Len(ModelOrder)], "baseline", "chat", s, v)>>
    /\ UNCHANGED <<journals, current, workers, server>>

Inferences(j) == {i \in DOMAIN j : j[i].job.operation # "metadata"}
Elapsed(j) ==
    LET upTo[n \in 0 .. Len(j)] == IF n = 0 THEN 0 ELSE upTo[n - 1] + j[n].minutes
    IN  upTo[Len(j)]

\* Seeded fault: only ends are looked at, an attempt without one is forgotten.
BlockedByEnds(j) == \E i \in DOMAIN j : j[i].cleanup = "unknown"

\* history: an attempt has no end, or its end does not know of the server.
Blocks(j, i) == j[i].status = "started" \/ j[i].cleanup = "unknown"
Blocked(j) == \E i \in DOMAIN j : Blocks(j, i)

HasCompleted(j, sid, v) ==
    \E i \in DOMAIN j :
       j[i].status = "completed" /\ j[i].job.scenario = sid /\ j[i].job.variant = v

\* Journals are kept apart: a compact journal holds compact attempts only, and
\* a corrected prompt is tried only where every attempt was corrected.
VariantFits(j, job) ==
    LET variants == {j[i].job.variant : i \in DOMAIN j}
    IN  /\ job.variant = "compact" \/ "compact" \in variants
              => variants \subseteq {job.variant}
        /\ job.variant = "prompt" => variants \subseteq {"prompt"}
        /\ job.variant # "none" /\ job.scenario = "S6" => HasCompleted(j, "S4", job.variant)

\* Ended attempts with the job's model and configuration.
Previous(j, job) ==
    {i \in Inferences(j) :
        /\ j[i].status # "started"
        /\ j[i].job.model = job.model /\ j[i].job.config = job.config}

\* Seeded fault: a failed configuration may go on with another scenario.
NotTriedScenario(j, job) ==
    \A i \in Previous(j, job) :
       j[i].job.operation # job.operation \/ j[i].job.scenario # job.scenario

NotTried(j, job) ==
    \A i \in Previous(j, job) :
       /\ j[i].status = "completed"
       /\ j[i].job.operation # job.operation \/ j[i].job.scenario # job.scenario

GateOpen(j, job) ==
    /\ ~Blocked(j)
    /\ Cardinality(Inferences(j)) < MaxCalls
    /\ Elapsed(j) < MaxMinutes
    /\ VariantFits(j, job)
    /\ job.operation # "metadata" => NotTried(j, job)

\* The deadline of a job's worker.
Limit(j, job) ==
    LET own == IF job.operation \in {"metadata", "load"} THEN 1 ELSE 3
        left == MaxMinutes - Elapsed(j)
    IN  IF own < left THEN own ELSE left

\* execute: the start is appended to the file and the worker spawned.
Announce ==
    LET journal == journals[path]
    IN  /\ plan # <<>> /\ current = 0 /\ GateOpen(journal, Head(plan))
        /\ journals' = [journals EXCEPT ![path] =
                          Append(journal, [job |-> Head(plan), status |-> "started",
                                           cleanup |-> "none", minutes |-> 0])]
        /\ current' = Len(journal) + 1
        /\ workers' = workers \cup {[attempt |-> <<path, Len(journal) + 1>>, phase |-> "begun",
                                     cleanup |-> "no_inference"]}
        /\ UNCHANGED <<path, plan, server, given>>

\* A closed gate raises: the driver ends.
GateStops ==
    /\ plan # <<>> /\ current = 0 /\ ~GateOpen(journals[path], Head(plan))
    /\ plan' = <<>>
    /\ UNCHANGED <<journals, path, current, workers, server, given>>

RecordOf(a) == journals[a[1]][a[2]]
JobOf(w) == RecordOf(w.attempt).job
Becomes(w, phase, cleanup) ==
    workers' = (workers \ {w}) \cup {[w EXCEPT !.phase = phase, !.cleanup = cleanup]}

\* run_worker calls the embedding model, then the candidate.
CallServer(w) ==
    /\ \/ w.phase = "begun" /\ JobOf(w).operation # "metadata"
       \/ w.phase = "retrieved"
    /\ Becomes(w, IF w.phase = "begun" /\ JobOf(w).operation = "rag"
                  THEN "embedding" ELSE "generating", "unknown")
    /\ server' = server \cup {w.attempt}
    /\ UNCHANGED <<journals, path, plan, current, given>>

\* Ollama ends an inference, whoever still waits for it.
ServerEnds(a) ==
    /\ server' = server \ {a}
    /\ workers' = {IF w.attempt # a THEN w
                   ELSE [w EXCEPT !.phase = IF @ = "embedding" THEN "retrieved"
                                            ELSE IF @ = "generating" THEN "answered" ELSE @,
                                  !.cleanup = IF w.phase \in {"embedding", "generating"}
                                              THEN "response_completed" ELSE @] : w \in workers}
    /\ UNCHANGED <<journals, path, plan, current, given>>

\* The connection breaks while the server goes on.
AnswerIsLost(w) ==
    /\ w.phase \in {"embedding", "generating"}
    /\ Becomes(w, "broken", "unknown")
    /\ UNCHANGED <<journals, path, plan, current, server, given>>

\* After a failure the suite leaves the model, or everything when it does not
\* know whether the server is still busy.
RestOfPlan(status, cleanup) ==
    IF status = "completed" THEN Tail(plan)
    ELSE IF cleanup = "unknown" THEN <<>>
    ELSE SelectSeq(Tail(plan), LAMBDA j : j.model # Head(plan).model)

\* Seeded fault: a worker that was killed is taken to have ended its call.
CloseAttemptKilled(status, cleanup, minutes) ==
    /\ journals' = [journals EXCEPT ![path][current].status = status,
                                    ![path][current].minutes = minutes,
                                    ![path][current].cleanup = "response_completed"]
    /\ plan' = RestOfPlan(status, cleanup) /\ current' = 0
    /\ UNCHANGED <<path, server, given>>

\* The end is appended to the journal.
CloseAttempt(status, cleanup, minutes) ==
    /\ journals' = [journals EXCEPT ![path][current].status = status,
                                    ![path][current].minutes = minutes,
                                    ![path][current].cleanup = cleanup]
    /\ plan' = RestOfPlan(status, cleanup) /\ current' = 0
    /\ UNCHANGED <<path, server, given>>

\* client_wall_seconds: from before the spawn until the worker has reported or
\* was reaped, so the deadline of the attempt does not bound it.
WallMinutes(w) == 0 .. (Limit(journals[path], JobOf(w)) + Overrun)

\* The worker reports.  Profile, packing or validation may fail on the way.
WorkerReports(w) ==
    /\ w.attempt = <<path, current>>
    /\ w.phase \in {"begun", "retrieved", "answered", "broken"}
    /\ workers' = workers \ {w}
    /\ \E minutes \in WallMinutes(w) :
          \/ CloseAttempt("error", w.cleanup, minutes)
          \/ /\ w.phase = "answered" \/ JobOf(w).operation = "metadata"
             /\ CloseAttempt("completed", w.cleanup, minutes)

\* bounded: past the deadline, or on Ctrl+C, the worker is killed and reaped,
\* and a worker that crashes says nothing (deadline, cancelled, worker_error):
\* what the server does is not known.
WorkerIsKilled(w) ==
    /\ w.attempt = <<path, current>>
    /\ workers' = workers \ {w}
    /\ \E minutes \in WallMinutes(w) : CloseAttempt("killed", "unknown", minutes)

\* An orphan ends with nobody to report to.
OrphanEnds(w) ==
    /\ w.attempt # <<path, current>>
    /\ workers' = workers \ {w}
    /\ UNCHANGED <<journals, path, plan, current, server, given>>

\* The driver itself is killed: the attempt has no end, its worker may survive.
DriverDies ==
    /\ plan # <<>>
    /\ plan' = <<>> /\ current' = 0
    /\ UNCHANGED <<journals, path, workers, server, given>>

OllamaAttemptsNext ==
    \/ GiveCommand \/ Announce \/ GateStops \/ DriverDies
    \/ \E w \in workers : \/ CallServer(w) \/ AnswerIsLost(w) \/ WorkerReports(w)
                          \/ WorkerIsKilled(w) \/ OrphanEnds(w)
    \/ \E a \in server : ServerEnds(a)

OllamaAttemptsSpec == OllamaAttemptsInit /\ [][OllamaAttemptsNext]_driverVars

-----------------------------------------------------------------------------
\* No job of a model and configuration follows one that failed or was the same.
NothingIsTriedAgain(j) ==
    \A i, k \in Inferences(j) :
       i < k /\ j[i].job.model = j[k].job.model /\ j[i].job.config = j[k].job.config
          => /\ j[i].status = "completed"
             /\ \/ j[i].job.operation # j[k].job.operation
                \/ j[i].job.scenario # j[k].job.scenario

\* Every attempt was begun within the minutes: the last alone may overrun them.
BudgetIsKept(j) ==
    /\ Cardinality(Inferences(j)) <= MaxCalls
    /\ j # <<>> => Elapsed(Front(j)) < MaxMinutes
    /\ Elapsed(j) <= MaxMinutes + Overrun

VariantsAreApart(j) ==
    \A i \in DOMAIN j :
       /\ j[i].job.variant = "compact" => \A k \in DOMAIN j : j[k].job.variant = "compact"
       /\ j[i].job.variant # "none" /\ j[i].job.scenario = "S6" =>
             \E k \in 1 .. (i - 1) : /\ j[k].status = "completed" /\ j[k].job.scenario = "S4"
                                     /\ j[k].job.variant = j[i].job.variant

(* Though workers are killed and drivers die while Ollama works, it works    *)
(* for one attempt of a journal at most, and whatever it works for is on     *)
(* record as perhaps running: the attempt waited for, or one that keeps its  *)
(* journal closed.  An attempt of another journal may run beside it, for the *)
(* gate looks at one file.  In each journal no job is attempted twice and a  *)
(* configuration that failed is not tried on; it holds no more calls than    *)
(* allowed, and no attempt begins when the minutes are used, which the last  *)
(* may overrun by what it takes to reap its worker; and a variant's S6       *)
(* follows its completed S4 in a file whose attempts are not mixed (history, *)
(* execute, bounded, run_worker).                                            *)
GateHolds ==
    /\ \A a, b \in server : a[1] = b[1] => a = b
    /\ \A a \in server : Blocks(journals[a[1]], a[2])
    /\ \A f \in Files : /\ NothingIsTriedAgain(journals[f]) /\ BudgetIsKept(journals[f])
                        /\ VariantsAreApart(journals[f])
=============================================================================
