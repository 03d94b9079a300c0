----------------------------- MODULE Composition -----------------------------
(* The composition of day 19: one request in which the provider's model calls *)
(* three tools of an MCP server in turn (look up the versions, summarise     *)
(* them, save the report), and the verifier that judges afterwards, from the *)
(* recorded response, the server's journal and the saved file, whether that  *)
(* is what happened (backend/app/mcp_composition_service.py,                 *)
(* day-19-mcp-composition/composition, collect.py and verify.py).            *)
(* A lookup is its id, whether versions were found and whether it is whole;  *)
(* a report is the lookup it was made of and whether it is unaltered.        *)
EXTENDS Naturals, FiniteSets, SequencesExt

CONSTANTS
    MaxSlips,       \* bound: slips of the model, the network and the machines
    MaxLost,        \* bound: lines of the journal that are lost
    Nothing

ASSUME CompositionAssumption == MaxSlips \in Nat /\ MaxLost \in Nat

VARIABLES
    sending,     \* where the backend's request stands
    records,     \* files written to the attempt's directory
    told,        \* what the caller was told, or Nothing
    dispatched,  \* history: the request left the backend
    calls,       \* the calls that reached the server, in the order they began
    journal,     \* the server's events
    process,     \* process of the server
    reports,     \* published reports
    slips,
    response     \* the provider's response, or Nothing

compositionVars ==
    <<sending, records, told, dispatched, calls, journal, process, reports, slips, response>>
backendVars == <<sending, records, told, dispatched>>
serverVars == <<calls, journal, process, reports>>

CompositionInit ==
    /\ sending = "new" /\ records = {} /\ told = Nothing /\ dispatched = FALSE
    /\ calls = <<>> /\ journal = <<>> /\ process = 1 /\ reports = {}
    /\ slips = 0 /\ response = Nothing

Slip(n) == slips + n <= MaxSlips /\ slips' = slips + n

-----------------------------------------------------------------------------
(* The backend                                                               *)

Tell(invocation, saved) ==
    /\ sending' = "told"
    /\ told' = [invocation |-> invocation, saved |-> saved]

\* Seeded fault: the request leaves before its attempt is on disk.
ReserveLater ==
    /\ sending = "new"
    /\ sending' = "reserved"
    /\ UNCHANGED <<records, told, dispatched, serverVars, slips, response>>

\* The configuration is checked; attempt.json is written and response.json
\* opened before anything is sent.
Reserve ==
    /\ sending = "new"
    /\ \/ Tell("not_sent", FALSE) /\ records' \in {{}, {"attempt"}}
       \/ /\ sending' = "reserved" /\ records' = {"attempt"}
          /\ UNCHANGED told
    /\ UNCHANGED <<dispatched, serverVars, slips, response>>

\* Without a key there is no client.
Dispatch ==
    /\ sending = "reserved"
    /\ \/ /\ Tell("not_sent", FALSE)
          /\ UNCHANGED dispatched
       \/ /\ sending' = "sent" /\ dispatched' = TRUE
          /\ UNCHANGED told
    /\ UNCHANGED <<records, serverVars, slips, response>>

\* Seeded fault: a request that failed is taken not to have reached anyone.
RequestFailsUnsent ==
    /\ sending = "sent"
    /\ Tell("not_sent", TRUE) /\ records' = records \cup {"error"}
    /\ UNCHANGED <<dispatched, serverVars, slips, response>>

\* The deadline passes or the provider errs: nobody knows what was done.
RequestFails ==
    /\ sending = "sent"
    /\ \/ Tell("unknown", TRUE) /\ records' = records \cup {"error"}
       \/ Tell("unknown", FALSE) /\ UNCHANGED records
    /\ UNCHANGED <<dispatched, serverVars, slips, response>>

\* The native response is kept as received, then its projection.
KeepResponse ==
    /\ sending = "sent" /\ response # Nothing
    /\ \/ /\ sending' = "received" /\ records' = records \cup {"response"}
          /\ UNCHANGED told
       \/ Tell("unknown", FALSE) /\ UNCHANGED records
    /\ UNCHANGED <<dispatched, serverVars, slips, response>>

Invocation(listed) == IF listed = <<>> THEN "not_observed" ELSE "observed"

KeepOperation ==
    /\ sending = "received"
    /\ \/ Tell(Invocation(response.listed), TRUE) /\ records' = records \cup {"operation"}
       \/ Tell(Invocation(response.listed), FALSE) /\ UNCHANGED records
    /\ UNCHANGED <<dispatched, serverVars, slips, response>>

BackendStops ==
    /\ sending \in {"reserved", "sent", "received"}
    /\ sending' = "stopped"
    /\ UNCHANGED <<records, told, dispatched, serverVars, slips, response>>

-----------------------------------------------------------------------------
(* The tools                                                                 *)

Tools == <<"lookup", "summary", "save">>

Lookup(id, target, found) == [id |-> id, target |-> target, found |-> found, whole |-> TRUE]
Report(lookup) == [of |-> lookup, unaltered |-> TRUE]
Receipt(report) == [file |-> report]

Event(kind, i) == [kind |-> kind, call |-> i, process |-> process]

Completed == {i \in DOMAIN calls : calls[i].state = "completed"}
OutputsOf(tool) == {calls[i].output : i \in {j \in Completed : calls[j].tool = tool}}

\* What the model may pass on: what it was told to, or with a slip another
\* library, a lookup cut short, one made up, or a report it changed.
Passed(tool, slip) ==
    CASE tool = "lookup" -> [target : {IF slip = 0 THEN "core-ktx" ELSE "other"}]
      [] tool = "summary" ->
           [lookup : IF slip = 0 THEN OutputsOf("lookup")
                     ELSE {Lookup(0, "core-ktx", TRUE)}
                            \cup {[l EXCEPT !.whole = FALSE] :
                                     l \in {k \in OutputsOf("lookup") : k.found}}]
      [] tool = "save" ->
           LET lookups == OutputsOf("lookup")
                            \cup {calls[i].input.lookup :
                                     i \in {j \in DOMAIN calls : calls[j].tool = "summary"}}
           IN  [report : IF slip = 0 THEN {Report(l) : l \in lookups}
                         ELSE {[Report(l) EXCEPT !.unaltered = FALSE] : l \in lookups}]

Running(i) == calls[i].state = "running"

\* ObservedTool.run: the event of the start, then the tool.
Starts(tool, input) ==
    /\ calls' = Append(calls, [tool |-> tool, input |-> input, output |-> Nothing,
                               state |-> "running", listed |-> TRUE])
    /\ journal' = Append(journal, Event("start", Len(calls) + 1))
    /\ UNCHANGED <<backendVars, process, reports, response>>

\* The provider at work: what it still calls when the backend has given up is
\* left out, as no record of it is ever judged.
AtWork == sending = "sent" /\ response = Nothing

\* The model calls a tool; to call one again is a slip too.
ModelCalls(tool) ==
    /\ AtWork
    /\ \E slip \in 0 .. 1 : \E input \in Passed(tool, slip) :
          /\ Slip(IF \E i \in DOMAIN calls : calls[i].tool = tool THEN 1 ELSE slip)
          /\ Starts(tool, input)

\* The answer of a call got lost: it is delivered again, and the response will
\* list it once.
DeliveredAgain(i) ==
    /\ AtWork /\ calls[i].listed
    /\ Slip(1)
    /\ calls' = Append([calls EXCEPT ![i] = [@ EXCEPT !.listed = FALSE]],
                       [calls[i] EXCEPT !.output = Nothing, !.state = "running"])
    /\ journal' = Append(journal, Event("start", Len(calls) + 1))
    /\ UNCHANGED <<backendVars, process, reports, response>>

CallEnds(i, state, output) ==
    calls' = [calls EXCEPT ![i] = [@ EXCEPT !.state = state, !.output = output]]

\* The lookup logs what it found at the source, then the tool its end.
LookupEnds(i) ==
    /\ Running(i) /\ calls[i].tool = "lookup"
    /\ \/ \E found \in BOOLEAN : CallEnds(i, "completed", Lookup(i, calls[i].input.target, found))
       \/ CallEnds(i, "failed", Nothing)
    /\ journal' = journal \o <<Event("source", i), Event("end", i)>>
    /\ UNCHANGED <<backendVars, process, reports, slips, response>>

SummaryEnds(i) ==
    /\ Running(i) /\ calls[i].tool = "summary"
    /\ CallEnds(i, "completed", Report(calls[i].input.lookup))
    /\ journal' = Append(journal, Event("end", i))
    /\ UNCHANGED <<backendVars, process, reports, slips, response>>

\* Seeded fault: the receipt is given before the link is made.
SaveEndsUnlinked(i) ==
    /\ Running(i) /\ calls[i].tool = "save"
    /\ CallEnds(i, "completed", Receipt(calls[i].input.report)) /\ UNCHANGED reports
    /\ journal' = Append(journal, Event("end", i))
    /\ UNCHANGED <<backendVars, process, slips, response>>

\* ReportStore.save: written aside, linked under its own hash and read back.
\* An error may come after the link.
SaveEnds(i) ==
    /\ Running(i) /\ calls[i].tool = "save"
    /\ LET report == calls[i].input.report
       IN  \/ CallEnds(i, "completed", Receipt(report)) /\ reports' = reports \cup {report}
           \/ CallEnds(i, "failed", Nothing) /\ reports' \in {reports, reports \cup {report}}
    /\ journal' = Append(journal, Event("end", i))
    /\ UNCHANGED <<backendVars, process, slips, response>>

\* The server is killed: the calls at work get no end.
ServerRestarts ==
    /\ Slip(1)
    /\ process' = process + 1
    /\ calls' = [i \in DOMAIN calls |-> IF Running(i) THEN [calls[i] EXCEPT !.state = "failed"]
                                        ELSE calls[i]]
    /\ UNCHANGED <<backendVars, journal, reports, response>>

ReportsAreLost ==
    /\ reports # {}
    /\ Slip(1)
    /\ reports' = {}
    /\ UNCHANGED <<backendVars, calls, journal, process, response>>

\* The provider ends the response when no call is at work.  The items need not
\* be in the order of the calls.
Responds ==
    /\ AtWork
    /\ \A i \in DOMAIN calls : ~Running(i)
    /\ \E listed \in SetToSeqs({i \in DOMAIN calls : calls[i].listed}) :
          /\ Slip(IF \A n \in 1 .. Len(listed) - 1 : listed[n] < listed[n + 1] THEN 0 ELSE 1)
          /\ response' = [listed |-> listed]
    /\ UNCHANGED <<backendVars, serverVars>>

CompositionNext ==
    \/ Reserve \/ Dispatch \/ RequestFails \/ KeepResponse \/ KeepOperation \/ BackendStops
    \/ \E tool \in ToSet(Tools) : ModelCalls(tool)
    \/ \E i \in DOMAIN calls : \/ DeliveredAgain(i)
                               \/ LookupEnds(i) \/ SummaryEnds(i) \/ SaveEnds(i)
    \/ ServerRestarts \/ ReportsAreLost \/ Responds

CompositionSpec == CompositionInit /\ [][CompositionNext]_compositionVars

-----------------------------------------------------------------------------
(* The verifier                                                              *)

\* The worst of several verdicts.
WorstVerdict(verdicts) ==
    IF "FAIL" \in verdicts THEN "FAIL"
    ELSE IF "NOT_PROVEN" \in verdicts THEN "NOT_PROVEN" ELSE "PASS"

Compared(a, b) == IF a = b THEN "PASS" ELSE "FAIL"

\* What the tool must return for the input it really got.
ToolCheck(c) ==
    IF c.state # "completed" THEN "FAIL"
    ELSE CASE c.tool = "lookup" -> Compared(c.output.target, c.input.target)
           [] c.tool = "summary" -> Compared(c.output, Report(c.input.lookup))
           [] c.tool = "save" -> Compared(c.output, Receipt(c.input.report))

ListedCalls(listed) == [n \in DOMAIN listed |-> calls[listed[n]]]

\* The positions, in what is seen of the calls, of those that could be parsed.
Parsed(seen) == {n \in DOMAIN seen : seen[n].state = "completed"}

The(S) == CHOOSE x \in S : \A y \in S : x <= y

\* The position of the first parsed call of a tool, or 0.
FirstOf(seen, tool) ==
    LET own == {n \in Parsed(seen) : seen[n].tool = tool}
    IN  IF own = {} THEN 0 ELSE The(own)

Same(c, d) == c.tool = d.tool /\ c.input = d.input /\ c.output = d.output

EndsOf(c, gathered) ==
    {e \in gathered : /\ journal[e].kind = "end"
                      /\ calls[journal[e].call].state = "completed"
                      /\ Same(calls[journal[e].call], c)}
StartsOf(c, gathered) ==
    {s \in gathered : /\ journal[s].kind = "start"
                      /\ \E e \in EndsOf(c, gathered) : /\ journal[s].call = journal[e].call
                                                        /\ journal[s].process = journal[e].process}

\* Every parsed call has exactly one start and one end in the journal.
Matched(seen, gathered) ==
    \A n \in Parsed(seen) : /\ Cardinality(EndsOf(seen[n], gathered)) = 1
                            /\ Cardinality(StartsOf(seen[n], gathered)) = 1

\* The start and the end of each of the three calls.
Boundaries(seen, gathered) ==
    LET start(n) == The(StartsOf(seen[n], gathered))
        end(n) == The(EndsOf(seen[n], gathered))
    IN  <<start(1), end(1), start(2), end(2), start(3), end(3)>>

\* Seeded fault: only the ends are compared, overlapping calls are in order.
TemporalEnds(flat) ==
    /\ \A x, y \in DOMAIN flat : journal[flat[x]].process = journal[flat[y]].process
    /\ flat[2] < flat[4] /\ flat[4] < flat[6]

\* One process, and each call starts after the one before it ended.
Temporal(flat) ==
    /\ \A x, y \in DOMAIN flat : journal[flat[x]].process = journal[flat[y]].process
    /\ \A x \in 1 .. Len(flat) - 1 : flat[x] < flat[x + 1]

\* Three calls with the right names, in the right order, about the library
\* asked for.
RightSelection(seen) ==
    LET first == FirstOf(seen, "lookup")
    IN  /\ [n \in DOMAIN seen |-> seen[n].tool] = Tools
        /\ first # 0 => seen[first].input.target = "core-ktx"

IsCorrelated(seen, gathered) ==
    RightSelection(seen) /\ Cardinality(Parsed(seen)) = 3 /\ Matched(seen, gathered)

SelectionOrder(seen, gathered) ==
    IF ~RightSelection(seen) THEN "FAIL"
    ELSE IF ~IsCorrelated(seen, gathered) THEN "NOT_PROVEN"
    ELSE IF Temporal(Boundaries(seen, gathered)) THEN "PASS" ELSE "FAIL"

\* The lookup of the matched call logged what it found.
SourceIsLogged(seen, gathered) ==
    LET lookup == journal[The(EndsOf(seen[FirstOf(seen, "lookup")], gathered))].call
    IN  \E e \in gathered : journal[e].kind = "source" /\ journal[e].call = lookup

DataTransfer(seen, first, second, third) ==
    WorstVerdict({IF first = 0 \/ second = 0 THEN "NOT_PROVEN"
                  ELSE Compared(seen[second].input.lookup, seen[first].output),
                  IF second = 0 \/ third = 0 THEN "NOT_PROVEN"
                  ELSE Compared(seen[third].input.report, seen[second].output)})

\* The file under the receipt's name was read, and holds the report that is to
\* be made of the lookup.
IsRead(third, disk) == disk = "read" /\ third # 0
Confirmed(seen, first, third, disk) ==
    /\ IsRead(third, disk) /\ first # 0
    /\ seen[third].output.file = Report(seen[first].output)

ToolExecution(seen, third, gathered, disk) ==
    LET worst == WorstVerdict({ToolCheck(seen[n]) : n \in DOMAIN seen})
    IN  IF IsRead(third, disk) /\ seen[third].output.file # seen[third].input.report THEN "FAIL"
        ELSE IF \/ worst = "PASS" /\ Len(seen) < 3
                \/ IsCorrelated(seen, gathered) /\ ~SourceIsLogged(seen, gathered)
             THEN "NOT_PROVEN" ELSE worst

ReportCorrectness(seen, first, second) ==
    IF first = 0 \/ second = 0 THEN "NOT_PROVEN"
    ELSE Compared(seen[second].output, Report(seen[first].output))

FilePersistence(seen, first, third, disk) ==
    IF disk = "missing" THEN "FAIL"
    ELSE IF ~IsRead(third, disk) THEN "NOT_PROVEN"
    ELSE IF /\ Confirmed(seen, first, third, disk)
            /\ seen[third].output.file = seen[third].input.report
         THEN "PASS" ELSE "FAIL"

FinalTextAccuracy(seen, first, third, disk, final) ==
    IF final = "malformed" THEN "FAIL"
    ELSE IF final = "none" \/ first = 0 THEN "NOT_PROVEN"
    ELSE IF final = "wrong" THEN "FAIL"
    ELSE IF Confirmed(seen, first, third, disk) THEN "PASS" ELSE "NOT_PROVEN"

FoundScenario(seen, first) ==
    IF first = 0 THEN "NOT_PROVEN" ELSE IF seen[first].output.found THEN "PASS" ELSE "FAIL"

\* verify: of the calls the response lists, the events gathered from the
\* journal and what was read of the file under the receipt's name.
ChainVerdict(listed, gathered, disk) ==
    LET seen == ListedCalls(listed)
        first == FirstOf(seen, "lookup")
        second == FirstOf(seen, "summary")
        third == FirstOf(seen, "save")
    IN  WorstVerdict({ToolExecution(seen, third, gathered, disk),
                      SelectionOrder(seen, gathered),
                      DataTransfer(seen, first, second, third),
                      ReportCorrectness(seen, first, second),
                      FilePersistence(seen, first, third, disk)})

\* The verdict on the chain, the final text and what was found.
FullAcceptance(listed, chain, disk, final) ==
    LET seen == ListedCalls(listed)
        first == FirstOf(seen, "lookup")
        third == FirstOf(seen, "save")
    IN  WorstVerdict({chain, FinalTextAccuracy(seen, first, third, disk, final),
                      FoundScenario(seen, first)})

\* collect: the operator reads the file, or cannot, or it is not there.
DiskReadings(listed) ==
    LET seen == ListedCalls(listed)
        third == FirstOf(seen, "save")
    IN  IF third = 0 THEN {"unavailable"}
        ELSE {"unavailable", IF seen[third].output.file \in reports THEN "read" ELSE "missing"}

\* collect_events: since any time, and any lines may be lost.
Gatherings ==
    LET losses == {lines \in SUBSET (DOMAIN journal) : Cardinality(lines) <= MaxLost}
    IN  {(since .. Len(journal)) \ lost : since \in 1 .. Len(journal) + 1, lost \in losses}

-----------------------------------------------------------------------------

\* j began in the same process after i had ended.
Follows(j, i) ==
    \E e, s \in DOMAIN journal :
       /\ journal[e].kind = "end" /\ journal[e].call = i
       /\ journal[s].kind = "start" /\ journal[s].call = j
       /\ e < s /\ journal[e].process = journal[s].process

IsChain(i, j, k) ==
    /\ <<calls[i].tool, calls[j].tool, calls[k].tool>> = Tools
    /\ calls[i].input.target = "core-ktx"
    /\ calls[j].input.lookup = calls[i].output
    /\ calls[k].input.report = calls[j].output
    /\ Follows(j, i) /\ Follows(k, j)

(* Whatever is gathered of the journal, the verifier says PASS only if the   *)
(* three tools ran one after the other on unaltered data in one process, the *)
(* response lists no other call and the file holds the report.  A call that  *)
(* was delivered again and is listed once may hide behind lost lines; with   *)
(* the whole journal a PASS also says that none of the three ended twice.    *)
(* With the whole journal and the file read the verifier does pass such a    *)
(* chain, if no call was delivered again, and it fails one only if its file  *)
(* was lost afterwards (verify, ReportStore.save).  No request leaves before *)
(* its attempt is on disk, the caller is never told that a request was not   *)
(* sent that was, and a record said to be saved is on disk                   *)
(* (CompositionService.run).                                                 *)
ChainIsTrue ==
    /\ dispatched => "attempt" \in records
    /\ told # Nothing =>
          /\ told.invocation = "not_sent" => ~dispatched
          /\ told.saved => records \cap {"error", "operation"} # {}
    /\ "operation" \in records =>
         /\ "response" \in records
         /\ LET listed == response.listed
                chains == {c \in [1 .. 3 -> Completed] : IsChain(c[1], c[2], c[3])}
            IN  \A gathered \in Gatherings, disk \in DiskReadings(listed) :
                   LET chain == ChainVerdict(listed, gathered, disk)
                   IN  /\ chain = "PASS" =>
                            /\ Len(listed) = 3
                            /\ \E c \in chains :
                                  /\ \A n \in 1 .. 3 : Same(calls[c[n]], calls[listed[n]])
                                  /\ calls[c[3]].input.report \in reports
                                  /\ gathered = DOMAIN journal =>
                                        \A i \in Completed, n \in 1 .. 3 :
                                           Same(calls[i], calls[listed[n]]) => i = c[n]
                       /\ \A final \in {"none", "malformed", "wrong", "right"} :
                             FullAcceptance(listed, chain, disk, final) = "PASS" =>
                                final = "right" /\ chain = "PASS" /\ calls[listed[1]].output.found
                       /\ (\A i \in DOMAIN calls : calls[i].listed) /\ listed \in chains =>
                            /\ chain = "FAIL" => disk = "missing" /\ slips > 0
                            /\ gathered = DOMAIN journal /\ disk = "read" => chain = "PASS"
=============================================================================
