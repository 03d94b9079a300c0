---------------------------- MODULE Orchestration ----------------------------
(* The orchestration of day 20: one streamed request in which the provider's *)
(* model researches a repository at one MCP server, looks up two libraries   *)
(* it found at another and has each lookup summarised, and the review that   *)
(* tells from the recorded events and response whether the run went that way *)
(* (backend/app/mcp_orchestration_service.py, day-20-mcp-orchestration/      *)
(* verify.py).  The stream may break and the recording may stop anywhere.    *)
(* A research is the libraries it mentions; a lookup is its id, its library  *)
(* and whether it was passed on whole.                                       *)
EXTENDS Naturals, FiniteSets, SequencesExt


CONSTANTS
    LibraryOrder, \* the libraries a research may mention, as they are first asked for
    AtOnce,       \* bound: calls at work at once
    FlowSlips,    \* bound: what goes wrong at the model or at the tools
    NoStatus

ASSUME OrchestrationAssumption ==
    /\ FlowSlips \in Nat /\ AtOnce \in Nat
    /\ 1 \in DOMAIN LibraryOrder
    /\ NoStatus \notin {"completed", "incomplete"}

Libraries == ToSet(LibraryOrder)

VARIABLES
    stage,     \* "new", "open", "streaming", "broken" or "closed"
    acts,      \* the calls at the provider, in the order they began
    events,    \* the events recorded in events.jsonl
    torn,      \* its last line is cut
    status,    \* of the final response, once it was sent
    files,     \* the other files of the attempt
    sent,      \* history: the request was sent
    said,      \* invocation the caller is told
    missteps

flowVars == <<stage, acts, events, torn, status, files, sent, said, missteps>>

OrchestrationInit ==
    /\ stage = "new" /\ acts = <<>> /\ events = <<>> /\ torn = FALSE
    /\ status = NoStatus /\ files = {} /\ sent = FALSE
    /\ said = "nothing" /\ missteps = 0

Misstep(n) == missteps + n <= FlowSlips /\ missteps' = missteps + n

-----------------------------------------------------------------------------
(* The recorder                                                              *)

Happened(kind, i) == [kind |-> kind, call |-> i]
Has(kind, i) == Happened(kind, i) \in ToSet(events)

\* A configuration that is refused, a directory that cannot be made and a
\* client that cannot be built send nothing.
OpenAttempt ==
    /\ stage = "new"
    /\ \/ stage' = "closed" /\ said' = "not_sent" /\ files' \in {{}, {"attempt"}}
       \/ stage' = "open" /\ files' = {"attempt"} /\ UNCHANGED said
    /\ UNCHANGED <<acts, events, torn, status, sent, missteps>>

StreamRequest ==
    /\ stage = "open"
    /\ \/ /\ stage' = "closed" /\ said' = "not_sent"
          /\ UNCHANGED sent
       \/ /\ stage' = "streaming" /\ sent' = TRUE /\ UNCHANGED said
    /\ UNCHANGED <<acts, events, torn, status, files, missteps>>

\* Seeded fault: a stream that broke after calls is told as one without any.
InvocationOfStatus == IF status = NoStatus THEN "unknown" ELSE "observed"

InvocationSeen ==
    IF \E i \in DOMAIN acts : Has("done", i) \/ (status # NoStatus /\ "response" \in files)
    THEN "observed"
    ELSE IF "response" \in files THEN "not_observed" ELSE "unknown"

\* Every event is recorded and flushed as it comes, until the stream breaks.
Emit(happened) ==
    \/ /\ events' = events \o happened
       /\ UNCHANGED <<stage, torn>>
    \/ \E n \in 0 .. Len(happened) - 1 :
          /\ events' = events \o SubSeq(happened, 1, n)
          /\ stage' = "broken" /\ torn' \in BOOLEAN

\* The caller is told what was seen, if the backend lives on.
TellOutcome ==
    /\ stage = "broken"
    /\ stage' = "closed" /\ said' = InvocationSeen
    /\ UNCHANGED <<acts, events, torn, status, files, sent, missteps>>

-----------------------------------------------------------------------------
(* The provider, its model and the two servers                               *)

Done(tool) == {i \in DOMAIN acts : acts[i].tool = tool /\ acts[i].state = "completed"}
Mentioned == UNION {acts[i].output : i \in Done("research")}
Found == {acts[i].output : i \in Done("lookup")}

\* What the model may ask; with a slip, a library no research has mentioned yet
\* or one asked before, and a lookup passed on cut or more than once.
Asked(tool) ==
    CASE tool = "research" -> {[about |-> "nowinandroid"]}
      [] tool = "lookup" ->
           [library : IF \E i \in DOMAIN acts : acts[i].tool = "lookup" THEN Libraries
                      ELSE {LibraryOrder[1]}]
      [] tool = "summary" -> [lookup : Found \cup {[l EXCEPT !.whole = FALSE] : l \in Found}]

IsProper(tool, input) ==
    /\ \A i \in DOMAIN acts : acts[i].tool = tool => acts[i].input # input
    /\ tool = "lookup" => input.library \in Mentioned
    /\ tool = "summary" => input.lookup.whole

CallBegins(tool) ==
    /\ stage = "streaming"
    /\ Cardinality({i \in DOMAIN acts : acts[i].state = "running"}) < AtOnce
    /\ \E input \in Asked(tool) :
          /\ Misstep(IF IsProper(tool, input) THEN 0 ELSE 1)
          /\ acts' = Append(acts, [tool |-> tool, input |-> input, state |-> "running",
                                   output |-> NoStatus])
    /\ Emit(<<Happened("added", Len(acts) + 1), Happened("begun", Len(acts) + 1)>>)
    /\ UNCHANGED <<status, files, sent, said>>

OutputOf(i) ==
    CASE acts[i].tool = "research" -> {Libraries} \cup {{l} : l \in Libraries}
      [] acts[i].tool = "lookup" -> {[id |-> i, library |-> acts[i].input.library, whole |-> TRUE]}
      [] acts[i].tool = "summary" -> {[summary |-> acts[i].input.lookup]}

CallIsDone(i) ==
    /\ stage = "streaming" /\ acts[i].state = "running"
    /\ \/ /\ \E output \in OutputOf(i) :
                acts' = [acts EXCEPT ![i].state = "completed", ![i].output = output]
          /\ UNCHANGED missteps
       \/ acts' = [acts EXCEPT ![i].state = "failed"] /\ Misstep(1)
    /\ Emit(<<Happened("done", i)>>)
    /\ UNCHANGED <<status, files, sent, said>>

\* The final event carries the whole response, which is kept beside the events.
FinalResponse ==
    /\ stage = "streaming"
    /\ \/ status' = "completed" /\ \A i \in DOMAIN acts : acts[i].state # "running"
       \/ status' = "incomplete"
    /\ events' = Append(events, Happened("final", 0))
    /\ files' \in {files, files \cup {"response"}}
    /\ stage' = "broken"
    /\ UNCHANGED <<acts, torn, sent, said, missteps>>

OrchestrationNext ==
    \/ OpenAttempt \/ StreamRequest \/ TellOutcome \/ FinalResponse
    \/ \E tool \in {"research", "lookup", "summary"} : CallBegins(tool)
    \/ \E i \in DOMAIN acts : CallIsDone(i)

OrchestrationSpec == OrchestrationInit /\ [][OrchestrationNext]_flowVars

-----------------------------------------------------------------------------
(* The review                                                                *)

WorstOf(verdicts) ==
    IF "FAIL" \in verdicts THEN "FAIL"
    ELSE IF verdicts = {} \/ "NOT_PROVEN" \in verdicts THEN "NOT_PROVEN" ELSE "PASS"
Checked(holds) == IF holds THEN "PASS" ELSE "FAIL"

\* load_attempt: what is missing or cut is an issue.
HasIssues == torn \/ "response" \notin files
Terminal == "response" \in files /\ status = "completed"

\* Seeded fault: what is missing from a record that is cut counts against it.
MissingIsFailure == "FAIL"

\* What is missing is a failure only in a complete record of a complete run.
Missing == IF Terminal /\ ~HasIssues THEN "FAIL" ELSE "NOT_PROVEN"

\* The calls are taken from the response, else from the events.
Seen == {i \in DOMAIN acts : "response" \in files \/ Has("added", i)}
SeenState(i) == IF "response" \in files \/ Has("done", i) THEN acts[i].state ELSE "running"
SeenDone == {i \in Seen : SeenState(i) = "completed"}
SeenOf(tool) == {i \in Seen : acts[i].tool = tool}

Position(kind, i) == CHOOSE n \in DOMAIN events : events[n] = Happened(kind, i)

\* Seeded fault: the order of the starts is taken for the order of the work.
OrderOfStarts(parent, child) ==
    IF ~(Has("begun", parent) /\ Has("begun", child)) THEN "NOT_PROVEN"
    ELSE Checked(Position("begun", parent) < Position("begun", child))

\* order: the parent was done before the child began.
Order(parent, child) ==
    IF ~(Has("done", parent) /\ Has("begun", child)) THEN "NOT_PROVEN"
    ELSE IF Position("done", parent) < Position("begun", child) THEN "PASS"
    ELSE IF /\ Has("begun", parent) /\ Has("done", child)
            /\ Position("done", child) < Position("begun", parent) THEN "FAIL"
    ELSE "NOT_PROVEN"

CallCheck(i) ==
    CASE SeenState(i) = "failed" -> "FAIL"
      [] SeenState(i) = "running" -> "NOT_PROVEN"
      [] OTHER -> Checked(acts[i].tool = "summary" => acts[i].output.summary = acts[i].input.lookup)

\* The researches that mention a library; the one done first is its source.
SourcesOf(library) ==
    {r \in SeenDone : acts[r].tool = "research" /\ library \in acts[r].output}
EndOf(r) == IF Has("done", r) THEN Position("done", r) ELSE Len(events) + 1
FirstSource(library) ==
    CHOOSE r \in SourcesOf(library) : \A x \in SourcesOf(library) : EndOf(r) <= EndOf(x)

\* Summaries that were given this lookup, by its id.
Related(i) ==
    {s \in SeenOf("summary") : /\ "response" \in files \/ Has("done", s)
                               /\ acts[s].input.lookup.id = i}

Branch(i) ==
    LET library == acts[i].output.library
        unique == \A x \in SeenDone : acts[x].tool = "lookup" /\ x < i => acts[x].output.library # library
        researched == IF SourcesOf(library) = {} THEN "NOT_PROVEN"
                      ELSE Order(FirstSource(library), i)
    IN  {Checked(unique), researched}
          \cup IF Cardinality(Related(i)) # 1 THEN {Missing}
               ELSE LET s == CHOOSE x \in Related(i) : TRUE
                    IN  {Checked(acts[s].input.lookup = acts[i].output), Order(i, s),
                         IF s \notin SeenDone THEN Missing
                         ELSE Checked(acts[s].output.summary = acts[i].output)}

BothServers ==
    IF SeenOf("research") # {} /\ Seen # SeenOf("research") THEN "PASS" ELSE Missing
TwoBranches ==
    IF Terminal THEN Checked(Cardinality(SeenOf("lookup")) = 2 /\ Cardinality(SeenOf("summary")) = 2)
    ELSE "NOT_PROVEN"

ObservedFlow ==
    WorstOf({WorstOf({CallCheck(i) : i \in Seen}), BothServers, TwoBranches,
             IF HasIssues THEN "NOT_PROVEN" ELSE "PASS"}
              \cup UNION {Branch(i) : i \in {x \in SeenDone : acts[x].tool = "lookup"}})

-----------------------------------------------------------------------------

Before(i, j) ==
    /\ Has("done", i) /\ Has("begun", j) /\ Position("done", i) < Position("begun", j)

\* So far the calls went as they should.
IsOnCourse ==
    /\ \A i, j \in DOMAIN acts : i # j => <<acts[i].tool, acts[i].input>> # <<acts[j].tool, acts[j].input>>
    /\ \A i \in DOMAIN acts :
          /\ acts[i].state # "failed"
          /\ acts[i].tool = "lookup" =>
                \E r \in Done("research") : acts[i].input.library \in acts[r].output /\ Before(r, i)
          /\ acts[i].tool = "summary" => acts[i].input.lookup.whole

(* The flow is found observed only if each of two libraries was looked up    *)
(* after a research that mentions it had ended, and its whole lookup         *)
(* summarised after that, with nothing else looked up or summarised; a whole *)
(* record of such a run is found observed; and a run on its course whose     *)
(* stream broke or whose record is cut is never found failed (verify).  The  *)
(* caller is told "not sent" only of a request that was not, and "not        *)
(* observed" only when no call was made (run).                               *)
FlowIsTrue ==
    /\ sent => "attempt" \in files
    /\ said = "not_sent" => ~sent
    /\ said = "not_observed" => acts = <<>>
    /\ said = "observed" => acts # <<>>
    /\ (\E i \in DOMAIN acts : Has("done", i)) => said \in {"nothing", "observed"}
    /\ stage = "broken" =>
         LET lookups == {i \in DOMAIN acts : acts[i].tool = "lookup"}
             summaries == {i \in DOMAIN acts : acts[i].tool = "summary"}
             isFlow == /\ Cardinality(lookups) = 2 /\ Cardinality(summaries) = 2
                       /\ \A i \in lookups \cup summaries : acts[i].state = "completed"
                       /\ \A i, j \in lookups : i # j => acts[i].input # acts[j].input
                       /\ \A i \in lookups :
                             /\ \E r \in Done("research") :
                                   acts[i].input.library \in acts[r].output /\ Before(r, i)
                             /\ \E s \in summaries : acts[s].input.lookup = acts[i].output /\ Before(i, s)
         IN  /\ ObservedFlow = "PASS" => isFlow
             /\ IsOnCourse => /\ isFlow /\ Terminal /\ ~HasIssues => ObservedFlow = "PASS"
                              /\ ~Terminal \/ HasIssues => ObservedFlow # "FAIL"
==============================================================================
