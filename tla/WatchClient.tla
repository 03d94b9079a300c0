----------------------------- MODULE WatchClient -----------------------------
(* The backend's clients of the first MCP servers: day 17 looks a library up *)
(* (backend/app/mcp_lab_service.py), day 18 creates a dependency watch or    *)
(* reads the summary of one (dependency_watch_service.py).  One request goes *)
(* to the provider, whose model calls the tools; the answer lists the calls  *)
(* and the client judges each.  A watch cannot be created twice by mistake,  *)
(* so day 18 writes its attempt down before it sends.  The summary is the    *)
(* server's fold over the executions (day-18-dependency-watch/storage.py),   *)
(* which the client checks by rules of its own (dependency_watch_models.py). *)
EXTENDS Integers, FiniteSets, SequencesExt

CONSTANTS
    VersionLists,   \* what a lookup may find, in the order of the source
    MaxRuns,        \* bound on the budget of the watch
    NoTelling

ASSUME WatchClientAssumption ==
    MaxRuns \in Nat /\ \A v \in VersionLists : v \in Seq(ToSet(v))

VARIABLES
    ended,     \* the ended executions of the watch selected, in the order of their slots
    budget,    \* max_runs of the watch
    isRunning, \* one more execution is running
    asked,     \* what the person asks: "lookup", "create" or "summary"
    at,        \* where the client's request stands
    papers18,  \* files written: "record" (opened), "attempt", "kept" (filled)
    made,      \* history: calls the model made, with what the tool answered
    left,      \* history: the request was sent
    answered   \* what the person is told, or NoTelling

clientVars == <<ended, budget, isRunning, asked, at, papers18, made, left, answered>>

WatchClientInit ==
    /\ ended = <<>> /\ budget \in 1 .. MaxRuns /\ isRunning = FALSE
    /\ asked \in {"lookup", "create", "summary"}
    /\ at = "new" /\ papers18 = {} /\ made = <<>> /\ left = FALSE
    /\ answered = NoTelling

-----------------------------------------------------------------------------
(* The server's summary                                                      *)

Execution(state, outcome, versions, checked) ==
    [state |-> state, outcome |-> outcome, versions |-> versions, checked |-> checked]

\* A lookup ends with versions, without, unfound or failed; a run that a
\* restart interrupted checked nothing.
Executions ==
    {Execution("succeeded", IF v = <<>> THEN "no_versions" ELSE "found", v, TRUE) : v \in VersionLists}
      \cup {Execution("succeeded", "artifact_not_found", <<>>, TRUE),
            Execution("failed", "none", <<>>, TRUE), Execution("failed", "interrupted", <<>>, FALSE)}

RunStarts ==
    /\ asked = "summary" /\ ~isRunning /\ Len(ended) < budget
    /\ isRunning' = TRUE
    /\ UNCHANGED <<ended, budget, asked, at, papers18, made, left, answered>>
RunEnds ==
    /\ isRunning
    /\ isRunning' = FALSE /\ \E e \in Executions : ended' = Append(ended, e)
    /\ UNCHANGED <<budget, asked, at, papers18, made, left, answered>>

IsComparable(e) == e.state = "succeeded" /\ e.outcome \in {"found", "no_versions"}

Nothing18 == [comparable |-> 0, first |-> -1, last |-> -1, changes |-> 0, newly |-> <<>>,
              previous |-> {}, seen |-> {}]

\* Seeded fault: only what the newest snapshot adds to the one before is new.
FoldOnLast(a, e) ==
    IF ~IsComparable(e) THEN a
    ELSE [comparable |-> a.comparable + 1,
          first |-> IF a.comparable = 0 THEN Len(e.versions) ELSE a.first,
          last |-> Len(e.versions),
          changes |-> a.changes + IF a.comparable > 0 /\ ToSet(e.versions) # a.previous THEN 1 ELSE 0,
          newly |-> IF a.comparable = 0 THEN <<>>
                    ELSE a.newly \o SelectSeq(e.versions, LAMBDA v : v \notin a.previous),
          previous |-> ToSet(e.versions), seen |-> a.seen]

\* The versions of a snapshot that were not seen before, each once, in its order.
Fresh(seen, versions) ==
    LET found[n \in 0 .. Len(versions)] ==
          IF n = 0 THEN <<>>
          ELSE IF versions[n] \in seen \cup ToSet(found[n - 1]) THEN found[n - 1]
          ELSE Append(found[n - 1], versions[n])
    IN  found[Len(versions)]

\* aggregate: failed checks and libraries not found are gaps, not empty lists;
\* a version is new once, however often it comes and goes.
Folded(a, e) ==
    IF ~IsComparable(e) THEN a
    ELSE [comparable |-> a.comparable + 1,
          first |-> IF a.comparable = 0 THEN Len(e.versions) ELSE a.first,
          last |-> Len(e.versions),
          changes |-> a.changes + IF a.comparable > 0 /\ ToSet(e.versions) # a.previous THEN 1 ELSE 0,
          newly |-> IF a.comparable = 0 THEN <<>> ELSE a.newly \o Fresh(a.seen, e.versions),
          previous |-> ToSet(e.versions), seen |-> a.seen \cup ToSet(e.versions)]

Aggregated ==
    LET after[n \in 0 .. Len(ended)] ==
          IF n = 0 THEN Nothing18 ELSE Folded(after[n - 1], ended[n])
    IN  after[Len(ended)]

CountOf(Test(_), s) == Cardinality({n \in DOMAIN s : Test(s[n])})

Summary ==
    LET a == Aggregated
    IN  [runs |-> Len(ended), status |-> IF Len(ended) = budget THEN "completed" ELSE "active",
         next |-> Len(ended) < budget, executions |-> ended, running |-> isRunning,
         successful |-> CountOf(LAMBDA e : e.state = "succeeded", ended),
         failed |-> CountOf(LAMBDA e : e.state = "failed", ended),
         interrupted |-> CountOf(LAMBDA e : e.outcome = "interrupted", ended),
         comparable |-> a.comparable, first |-> a.first, last |-> a.last,
         changes |-> a.changes, newly |-> a.newly]

-----------------------------------------------------------------------------
(* The client's rules                                                        *)

\* WatchReceipt, WatchExecution and WatchSummary.
ReceiptIsConsistent(s) ==
    /\ s.runs <= budget
    /\ (s.status = "completed") = (s.runs = budget)
    /\ (s.status = "completed") = ~s.next

ExecutionIsConsistent(e) ==
    /\ e.state = "succeeded" =>
          /\ e.outcome \in {"found", "no_versions", "artifact_not_found"} /\ e.checked
          /\ (e.outcome = "found") = (e.versions # <<>>)
    /\ e.state # "succeeded" => e.versions = <<>>
    /\ e.outcome = "interrupted" => ~e.checked

SummaryIsConsistent(s) ==
    /\ ReceiptIsConsistent(s)
    /\ \A n \in DOMAIN s.executions : ExecutionIsConsistent(s.executions[n])
    /\ s.runs = s.successful + s.failed /\ s.interrupted <= s.failed
    /\ s.comparable <= s.successful /\ Len(s.executions) = s.runs
    /\ s.running => s.status # "completed"
    /\ s.successful = CountOf(LAMBDA e : e.state = "succeeded", s.executions)
    /\ s.failed = CountOf(LAMBDA e : e.state = "failed", s.executions)
    /\ s.interrupted = CountOf(LAMBDA e : e.outcome = "interrupted", s.executions)
    /\ s.comparable = CountOf(IsComparable, s.executions)
    /\ (s.comparable = 0) = (s.first = -1) /\ (s.comparable = 0) = (s.last = -1)
    /\ s.changes <= IF s.comparable = 0 THEN 0 ELSE s.comparable - 1
    /\ IsInjective(s.newly)

\* Seeded fault: the tool that answered is not looked at.
CallOutcomeAnyTool(c) ==
    CASE c.fault = "error" -> "unclassified_error"
      [] c.fault = "tool_error" -> "tool_error"
      [] c.fault \in {"other_target", "unfinished"} -> "invalid_tool_result"
      [] OTHER -> "completed"

\* parse_call: an error is opaque; another tool, another watch or library than
\* was asked for, an unfinished call or facts that disagree are refused.
CallOutcome(c) ==
    CASE c.fault = "error" -> "unclassified_error"
      [] c.fault = "tool_error" -> "tool_error"
      [] c.fault \in {"other_tool", "other_target", "unfinished"} -> "invalid_tool_result"
      [] OTHER -> IF asked = "summary" /\ ~SummaryIsConsistent(c.answer)
                  THEN "invalid_tool_result" ELSE "completed"

\* normalize: the first thing that is wrong names the outcome.
Normalized(reply) ==
    LET wrong == {n \in DOMAIN made : CallOutcome(made[n]) # "completed"}
        first == CHOOSE n \in wrong : \A m \in wrong : n <= m
    IN  IF reply.discovery THEN "mcp_error"
        ELSE IF reply.status # "completed" THEN reply.status
        ELSE IF reply.text = "refusal" THEN "refused"
        ELSE IF made = <<>> THEN "not_called"
        ELSE IF wrong # {} THEN CallOutcome(made[first])
        ELSE IF reply.text = "text" THEN "completed" ELSE "model_response_missing"

-----------------------------------------------------------------------------
(* The request                                                               *)

NothingElse == UNCHANGED <<ended, budget, isRunning, asked, made>>

TellPerson(outcome, invocation, saved) ==
    /\ at' = "told"
    /\ answered' = [outcome |-> outcome, invocation |-> invocation, saved |-> saved]

\* What is told is kept in the record, if it can be; day 17 keeps nothing.
KeepAndTell(outcome, invocation) ==
    \/ /\ asked # "lookup"
       /\ papers18' = papers18 \cup {"kept"} /\ TellPerson(outcome, invocation, TRUE)
    \/ UNCHANGED papers18 /\ TellPerson(outcome, invocation, FALSE)

\* The record is opened before anything else.
OpenRecord ==
    /\ at = "new" /\ left' = left /\ NothingElse
    /\ \/ /\ asked # "lookup" /\ UNCHANGED papers18
          /\ TellPerson("evidence_storage_error", "not_sent", FALSE)
       \/ /\ at' = "opened" /\ UNCHANGED answered
          /\ papers18' = IF asked = "lookup" THEN {} ELSE {"record"}

\* Seeded fault: the attempt is written when the answer is there.
SendUnannounced ==
    /\ at = "opened" /\ NothingElse
    /\ \/ KeepAndTell("configuration_error", "not_sent") /\ UNCHANGED left
       \/ at' = "sent" /\ left' = TRUE /\ UNCHANGED <<answered, papers18>>

\* The endpoint and the token are checked; the attempt is on disk, or nothing
\* is sent.
Send ==
    /\ at = "opened" /\ NothingElse
    /\ \/ KeepAndTell("configuration_error", "not_sent") /\ UNCHANGED left
       \/ /\ asked # "lookup"
          /\ TellPerson("evidence_storage_error", "not_sent", FALSE)
          /\ UNCHANGED <<left, papers18>>
       \/ /\ at' = "sent" /\ left' = TRUE /\ UNCHANGED answered
          /\ papers18' = IF asked = "lookup" THEN {} ELSE papers18 \cup {"attempt"}

\* The model calls a tool; the call may go wrong in ways the client is to see.
CallTool ==
    /\ at = "sent" /\ Len(made) < 2
    /\ \E fault \in {"none", "error", "tool_error", "other_tool", "other_target", "unfinished"} :
          made' = Append(made, [fault |-> fault,
                                answer |-> IF asked = "summary" /\ fault = "none"
                                           THEN Summary ELSE NoTelling])
    /\ UNCHANGED <<ended, budget, isRunning, asked, at, papers18, left, answered>>

\* The deadline passes or the provider errs.
NoReply ==
    /\ at = "sent" /\ UNCHANGED left /\ NothingElse
    /\ KeepAndTell("provider_error", "unknown")

Reply ==
    /\ at = "sent" /\ UNCHANGED left /\ NothingElse
    /\ \E reply \in [discovery : BOOLEAN, text : {"none", "text", "refusal"},
                     status : {"completed", "incomplete", "failed"}] :
          KeepAndTell(Normalized(reply), IF made = <<>> THEN "not_observed" ELSE "observed")

BackendIsKilled ==
    /\ at \in {"opened", "sent"}
    /\ at' = "killed"
    /\ UNCHANGED <<ended, budget, isRunning, asked, papers18, made, left, answered>>

WatchClientNext ==
    \/ RunStarts \/ RunEnds \/ OpenRecord \/ Send \/ CallTool \/ NoReply \/ Reply \/ BackendIsKilled

WatchClientSpec == WatchClientInit /\ [][WatchClientNext]_clientVars

-----------------------------------------------------------------------------

\* What the summary ought to say, from the snapshots that can be compared.
Snapshots == {n \in DOMAIN ended : IsComparable(ended[n])}
VersionsAt(n) == ToSet(ended[n].versions)
TrueChanges ==
    Cardinality({n \in Snapshots :
                    \E m \in Snapshots : /\ m < n /\ \A k \in Snapshots : k <= m \/ n <= k
                                         /\ VersionsAt(m) # VersionsAt(n)})
TrueNews ==
    (UNION {VersionsAt(n) : n \in Snapshots})
      \ (UNION {VersionsAt(n) : n \in {k \in Snapshots : \A m \in Snapshots : k <= m}})

(* A request that the person is told was not sent was not, so no watch was   *)
(* created by it; one that was sent left its attempt on disk first, whatever *)
(* becomes of the backend.  "completed" is told only if every call made was  *)
(* of the tool asked for and its result is of the target of the call itself, *)
(* and always if so: a create or lookup is held against the arguments that   *)
(* the model gave it, never against the prompt, a summary also against the   *)
(* watch of the request.  Of a summary, "always" says that no state of the   *)
(* watch offends the client's own rules; its changes and new versions are    *)
(* those of the snapshots (run, normalize, parse_call, WatchSummary,         *)
(* aggregate).                                                               *)
ClientIsHonest ==
    /\ left /\ asked # "lookup" => {"record", "attempt"} \subseteq papers18
    /\ answered # NoTelling =>
          /\ answered.invocation = "not_sent" => ~left
          /\ answered.invocation = "not_observed" => made = <<>>
          /\ answered.saved => "kept" \in papers18
          /\ answered.outcome = "completed" =>
                made # <<>> /\ \A n \in DOMAIN made : made[n].fault = "none"
          /\ answered.outcome = "invalid_tool_result" =>
                \E n \in DOMAIN made : made[n].fault \notin {"none", "error", "tool_error"}
    /\ made # <<>> /\ at = "sent" /\ asked = "summary" =>
          \A n \in DOMAIN made : made[n].fault = "none" => CallOutcome(made[n]) = "completed"
    /\ at = "new" /\ asked = "summary" =>
          Summary.changes = TrueChanges /\ ToSet(Summary.newly) = TrueNews
==============================================================================
