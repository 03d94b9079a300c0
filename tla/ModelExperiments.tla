---------------------------- MODULE ModelExperiments ----------------------------
(***************************************************************************)
(* The stateless experiments: generate (day 1), reasoning strategies (day  *)
(* 3), temperatures (day 4) and the model benchmark (day 5).  A request    *)
(* fans out into slots that call the provider at the same time; each slot  *)
(* counts its usage, and where the result has such a field its calls, and  *)
(* ends in a result of its own; the request is answered when every slot    *)
(* has ended.                                                              *)
(*                                                                         *)
(* A response of the provider is its status and what its text is worth; a  *)
(* result is told by its status, or by its error where it carries one.     *)
(***************************************************************************)
EXTENDS Naturals, Sequences, FiniteSets

Experiments == {"generate", "reasoning", "temperature", "benchmark"}
SlotsOf(e) == CASE e = "generate" -> {1} [] e = "reasoning" -> 1..4 [] OTHER -> 1..3
MetaPrompt == 3       \* the strategy that makes two calls

Responses == [status : {"completed", "incomplete", "failed"},
              content : {"valid", "garbled", "refusal", "nothing"}]
Faults == [status : {"bad request", "timeout", "upstream error"}, content : {"nothing"}]

VARIABLES
  experiment,   \* the request being served, or none
  strict,       \* structured output is asked for
  slot,         \* per slot, its pipeline: phase, counts and result
  heard,        \* per slot, what came back of its calls, in order
  answer        \* what the client got

experimentVars == <<experiment, strict, slot, heard, answer>>

NewPipeline == [phase |-> "calling", calls |-> 0, usage |-> 0, prompt |-> FALSE,
                status |-> "none"]
NoAnswer == [is |-> "none"]

ExperimentsInit ==
  /\ experiment \in Experiments
  /\ strict \in IF experiment \in {"reasoning", "benchmark"} THEN {TRUE} ELSE BOOLEAN
  /\ slot = [s \in SlotsOf(experiment) |-> NewPipeline]
  /\ heard = [s \in SlotsOf(experiment) |-> << >>]
  /\ answer = NoAnswer

HasText(r) == r.content \in {"valid", "garbled"}
Parses(r) == r.content = "valid" \/ (~strict /\ r.content = "garbled")

-----------------------------------------------------------------------------
(* What each experiment makes of a response.                               *)
GenerateStatus(r) ==   \* a completed response without text is a completed result
  IF r.status = "completed" /\ strict /\ HasText(r) /\ ~Parses(r) THEN "parse error"
  ELSE r.status

ReasoningStatus(r) ==
  IF r.status # "completed" THEN "incomplete"
  ELSE IF HasText(r) /\ Parses(r) THEN "completed" ELSE "parse error"

TemperatureStatus(r) ==
  IF r.status = "incomplete" THEN "incomplete"
  ELSE IF r.status # "completed" THEN "failed"
  ELSE IF HasText(r) /\ Parses(r) THEN "completed" ELSE "parse error"

BenchmarkStatus(r) ==
  IF r.status = "incomplete" THEN "incomplete"
  ELSE IF r.content = "refusal" THEN "refused"
  ELSE IF r.status # "completed" THEN "api error"
  ELSE IF Parses(r) THEN "completed" ELSE "invalid response"

\* Seeded fault: text is taken from a response that was cut off.
AgentStatusCutOff(r) ==
  IF HasText(r) THEN "completed"
  ELSE IF r.status = "incomplete" THEN "incomplete"
  ELSE IF r.content = "refusal" THEN "refused"
  ELSE IF r.status = "failed" THEN "upstream error" ELSE "invalid response"

(* The adapter of all agents, from day 6 on: any text will do.             *)
AgentStatus(r) ==
  IF r.status = "incomplete" THEN "incomplete"
  ELSE IF r.content = "refusal" THEN "refused"
  ELSE IF r.status = "completed" /\ HasText(r) THEN "completed"
  ELSE IF r.status = "failed" THEN "upstream error" ELSE "invalid response"

-----------------------------------------------------------------------------
Hears(s, x) == heard' = [heard EXCEPT ![s] = Append(@, x)]
Ends(s, status) == [slot[s] EXCEPT !.phase = "done", !.status = status]
Becomes(s, pipeline) == slot' = [slot EXCEPT ![s] = pipeline]
Serves(e) == experiment = e /\ answer = NoAnswer
CountsCalls(e) == e \in {"reasoning", "benchmark"}      \* api_call_count

\* Seeded fault: a call is not counted before it is made.
CallUncounted(s) ==
  /\ answer = NoAnswer /\ s \in DOMAIN slot /\ slot[s].phase = "calling"
  /\ Becomes(s, [slot[s] EXCEPT !.phase = "waiting"])
  /\ UNCHANGED <<experiment, strict, heard, answer>>

(* _create_response, run_model: the count rises before the call.           *)
Call(s) ==
  /\ answer = NoAnswer /\ s \in DOMAIN slot /\ slot[s].phase = "calling"
  /\ Becomes(s, [slot[s] EXCEPT !.phase = "waiting",
                              !.calls = IF CountsCalls(experiment) THEN @ + 1 ELSE @])
  /\ UNCHANGED <<experiment, strict, heard, answer>>

(* The call fails: usage and prompt of an earlier call are kept.           *)
CallFails(s) ==
  /\ answer = NoAnswer /\ s \in DOMAIN slot /\ slot[s].phase = "waiting"
  /\ \E x \in Faults : Hears(s, x) /\ Becomes(s, Ends(s, x.status))
  /\ UNCHANGED <<experiment, strict, answer>>

Generated(s) ==
  /\ Serves("generate") /\ slot[s].phase = "waiting"
  /\ \E r \in Responses :
       Hears(s, r) /\ Becomes(s, [Ends(s, GenerateStatus(r)) EXCEPT !.usage = @ + 1])
  /\ UNCHANGED <<experiment, strict, answer>>

(* One call of a strategy; the first of the meta prompt strategy writes    *)
(* the prompt of the second.                                               *)
StrategyAnswered(s) ==
  /\ Serves("reasoning") /\ slot[s].phase = "waiting"
  /\ \E r \in Responses :
       /\ Hears(s, r)
       /\ LET paid == [slot[s] EXCEPT !.usage = @ + 1] IN
          Becomes(s,
            IF s = MetaPrompt /\ ~slot[s].prompt /\ ReasoningStatus(r) = "completed"
            THEN [paid EXCEPT !.prompt = TRUE, !.phase = "calling"]
            ELSE [paid EXCEPT !.phase = "done", !.status = ReasoningStatus(r)])
  /\ UNCHANGED <<experiment, strict, answer>>

\* Seeded fault: usage is taken after the check that raises.
TemperatureAnsweredFree(s) ==
  /\ Serves("temperature") /\ slot[s].phase = "waiting"
  /\ \E r \in Responses :
       Hears(s, r) /\ Becomes(s, [Ends(s, TemperatureStatus(r)) EXCEPT
                                    !.usage = IF r.status = "completed" THEN @ + 1 ELSE @])
  /\ UNCHANGED <<experiment, strict, answer>>

TemperatureAnswered(s) ==
  /\ Serves("temperature") /\ slot[s].phase = "waiting"
  /\ \E r \in Responses :
       Hears(s, r) /\ Becomes(s, [Ends(s, TemperatureStatus(r)) EXCEPT !.usage = @ + 1])
  /\ UNCHANGED <<experiment, strict, answer>>

ModelAnswered(s) ==
  /\ Serves("benchmark") /\ slot[s].phase = "waiting"
  /\ \E r \in Responses :
       Hears(s, r) /\ Becomes(s, [Ends(s, BenchmarkStatus(r)) EXCEPT !.usage = @ + 1])
  /\ UNCHANGED <<experiment, strict, answer>>

(* A slot is cancelled or fails outside its handlers.                      *)
SlotRaises(s) ==
  /\ answer = NoAnswer /\ s \in DOMAIN slot /\ experiment # "generate"
  /\ slot[s].phase \in {"calling", "waiting"}
  /\ Becomes(s, [slot[s] EXCEPT !.phase = "raised"])
  /\ UNCHANGED <<experiment, strict, heard, answer>>

(* gather: every slot has ended.  Reasoning and temperatures put an        *)
(* internal error with no calls in the place of a slot that raised, the    *)
(* benchmark raises instead of inventing counts.                           *)
Gather ==
  /\ answer = NoAnswer
  /\ \A s \in DOMAIN slot : slot[s].phase \in {"done", "raised"}
  /\ answer' =
       IF experiment = "benchmark" /\ \E s \in DOMAIN slot : slot[s].phase = "raised"
       THEN [is |-> "error"]
       ELSE [is |-> "results", of |-> [s \in DOMAIN slot |->
              IF slot[s].phase = "raised"
              THEN [calls |-> 0, usage |-> 0, prompt |-> FALSE, status |-> "internal error"]
              ELSE [calls |-> slot[s].calls, usage |-> slot[s].usage,
                    prompt |-> slot[s].prompt, status |-> slot[s].status]]]
  /\ UNCHANGED <<experiment, strict, slot, heard>>

ExperimentsNext ==
  \/ \E s \in 1..4 :
       \/ Call(s) \/ CallFails(s) \/ SlotRaises(s)
       \/ s \in DOMAIN slot /\ (Generated(s) \/ StrategyAnswered(s) \/ TemperatureAnswered(s)
                                \/ ModelAnswered(s))
  \/ Gather

ExperimentsSpec == ExperimentsInit /\ [][ExperimentsNext]_experimentVars

-----------------------------------------------------------------------------
(* A success has text that can be read; day 1 and 2 ask for no text at all.*)
IsSuccess(r) ==
  /\ r \in Responses /\ r.status = "completed"
  /\ Parses(r) \/ (experiment = "generate" /\ ~HasText(r))

(* A result says what its slot cost and why it ended, whatever happened to *)
(* the other slots: the usage of every response that came back, unusable   *)
(* ones included; where calls are counted all that were made, failed ones  *)
(* included; the prompt that was generated; and completion only for a last *)
(* response that was complete and not unreadable, which the result of      *)
(* generate alone also says of one without text.                           *)
ResultsAreAccounted ==
  answer.is = "results" => \A s \in DOMAIN answer.of :
    LET result == answer.of[s]
        all == heard[s] IN
    result.status # "internal error" =>
      /\ CountsCalls(experiment) => result.calls = Len(all)
      /\ result.usage = Cardinality({i \in DOMAIN all : all[i] \in Responses})
      /\ result.prompt = (s = MetaPrompt /\ Len(all) = 2)
      /\ result.status = "completed" <=> IsSuccess(all[Len(all)])

\* The adapters that take a response for a completed one.
TakenBy(r) ==
  {e \in Experiments \cup {"agent"} : "completed" =
     CASE e = "generate" -> GenerateStatus(r) [] e = "reasoning" -> ReasoningStatus(r)
       [] e = "temperature" -> TemperatureStatus(r) [] e = "benchmark" -> BenchmarkStatus(r)
       [] OTHER -> AgentStatus(r)}

(* The experiments and the agents read responses in code of their own. Of  *)
(* what a strict experiment is given, nobody takes what was cut off or     *)
(* failed and everybody what is complete and readable; they part only at a *)
(* text in another shape, which is an answer to the agents alone, and at a *)
(* complete response with no text, a refusal included, which generate      *)
(* alone reports as completed.                                             *)
AdaptersAgree ==
  \A s \in DOMAIN heard : \A i \in DOMAIN heard[s] :
    LET r == heard[s][i] IN
    (r \in Responses /\ strict) =>
      /\ r.status # "completed" => TakenBy(r) = {}
      /\ r.status = "completed" =>
           /\ r.content = "valid" => TakenBy(r) = Experiments \cup {"agent"}
           /\ r.content = "garbled" => TakenBy(r) = {"agent"}
           /\ ~HasText(r) => TakenBy(r) = {"generate"}

(* A reader of the results is told what happened, and no two adapters part *)
(* over a response but in the two ways named.                              *)
ResultsAreHonest == ResultsAreAccounted /\ AdaptersAgree
=============================================================================
