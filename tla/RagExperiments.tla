--------------------------- MODULE RagExperiments ---------------------------
(* The experiments of days 22 to 25 (first_rag, rewrite_filter_rag,          *)
(* grounded_rag, stateful_rag/experiment.py): a process walks the questions, *)
(* sends each phase to the provider once and writes what it knows to a       *)
(* folder, before the call and after it.  Nothing is resumed or replayed, so *)
(* the folder is all that is left of a run that stops.  Day 24 keeps the     *)
(* support labels in a second file, review.json, written after each record;  *)
(* the labels a person edits later, in any day's review, are left out.       *)
(*                                                                           *)
(* An outcome of an embedding is "near" or "far" (the best hit reaches the   *)
(* threshold or does not), "bad" (an unusable vector) or "error"; one of a   *)
(* generation is "answered", "abstains" or "invalid" (completed, and what    *)
(* the validator makes of it), "failed" or "timeout".  The folder belongs to *)
(* one process at a time.                                                    *)
EXTENDS Naturals, Sequences

CONSTANTS
    Scripts,        \* sequence of the sequences of questions, one per scenario
    ReopenAfter     \* position in a script after which the store is reopened

ASSUME RagExperimentsAssumption ==
    /\ Len(Scripts) \in Nat \ {0} /\ DOMAIN Scripts = 1 .. Len(Scripts)
    /\ \A s \in DOMAIN Scripts :
          Len(Scripts[s]) \in Nat \ {0} /\ DOMAIN Scripts[s] = 1 .. Len(Scripts[s])
    /\ ReopenAfter \in Nat

VARIABLES
    pipeline,   \* which experiment the folder holds
    stage,      \* the process on the folder: "none", "run" or "compare"
    place,      \* script, question and phase the process is at
    step,       \* what it does next
    record,     \* the questions' records in its memory
    evidence,   \* the folder: records, statuses, the hash of the retrievals
    truth,      \* history: what the provider was asked and answered
    stored,     \* the day-25 store: the turns committed
    written,    \* the folder: the questions that have a record in it
    review      \* the folder: day 24's support labels, "none" until the file is there

experimentsVars ==
    <<pipeline, stage, place, step, record, evidence, truth, stored, written, review>>
filesOnDisk == <<written, review>>

Pipelines == {"eval", "search", "direct", "rag", "rewrite", "grounded", "stateful"}
PhaseNames == {"retrieval", "direct", "rag", "rewrite", "enhanced", "generation"}
Asked == UNION {{<<s, n>> : n \in DOMAIN Scripts[s]} : s \in DOMAIN Scripts}
Embeddings == {"near", "far", "bad", "error"}
Answers == {"answered", "abstains", "invalid"}
OutcomesOf(p) ==
    CASE p = "retrieval" -> Embeddings
      [] p = "generation" -> Answers \cup {"failed", "timeout"}
      [] OTHER -> {"answered", "failed", "timeout"}      \* never validated

Route ==
    CASE pipeline = "eval" -> <<"retrieval", "direct", "rag">>
      [] pipeline = "search" -> <<"retrieval">>
      [] pipeline = "direct" -> <<"direct">>
      [] pipeline = "rag" -> <<"retrieval", "rag">>
      [] pipeline = "rewrite" -> IF stage = "compare" THEN <<"enhanced">>
                                 ELSE <<"rewrite", "retrieval">>
      [] pipeline = "grounded" -> <<"generation">>
      [] pipeline = "stateful" -> <<"retrieval", "generation">>

Question == <<place.script, place.number>>
Phase == Route[place.phase]
Here == record[Question]

NotDispatched == [status |-> "not_dispatched", attempted |-> FALSE, outcome |-> "none"]

\* core.gate over the frozen hits: below the threshold, the runtime abstains.
GatedRecord(hits) ==
    [phases |-> [p \in PhaseNames |-> NotDispatched], found |-> hits,
     processing |-> IF hits = "far" THEN "accepted" ELSE "pending",
     origin |-> IF hits = "far" THEN "runtime_gate" ELSE "none",
     commit |-> "not_attempted"]

NewRecord == GatedRecord("not_computed")

\* retrieval_hash: everything of the records but the enhanced answers.
HashOf(records) ==
    [q \in Asked |-> [records[q] EXCEPT !.phases["enhanced"] = NotDispatched]]

RagExperimentsInit ==
    /\ pipeline \in Pipelines
    /\ record \in IF pipeline = "grounded"
                  THEN [Asked -> {GatedRecord("near"), GatedRecord("far")}]
                  ELSE {[q \in Asked |-> NewRecord]}
    /\ evidence = [run |-> "partial", compare |-> "not_dispatched",
                   records |-> record, hash |-> "none", lost |-> {}]
    /\ stage = "run" /\ step = "prepare"
    /\ place = [script |-> 1, number |-> 1, phase |-> 1]
    /\ truth = [q \in Asked |-> [p \in PhaseNames |-> <<>>]]
    /\ stored = {}
    /\ written = {}
    /\ review = [q \in Asked |-> "none"]

\* The set-up writes a record per question, in their order, before any call.
IsAhead(p, q) == p[1] < q[1] \/ (p[1] = q[1] /\ p[2] < q[2])

WriteRecord ==
    /\ step = "prepare"
    /\ \E q \in Asked \ written :
          /\ \A p \in Asked : IsAhead(p, q) => p \in written
          /\ written' = written \cup {q}
    /\ UNCHANGED <<pipeline, stage, place, step, record, evidence, truth, stored, review>>

\* support_default: what review.json says of the support of a result.
Support(r) ==
    IF r.processing # "accepted" THEN "unavailable"
    ELSE IF r.origin = "none" THEN "pending" ELSE "N/A"

\* Day 24's review follows its records; the walk begins.
EndSetup ==
    /\ step = "prepare" /\ written = Asked
    /\ review' = IF pipeline = "grounded" THEN [q \in Asked |-> Support(record[q])] ELSE review
    /\ step' = "decide"
    /\ UNCHANGED <<pipeline, stage, place, record, evidence, truth, stored, written>>

IsSetUp ==
    /\ written = Asked
    /\ pipeline = "grounded" => \A q \in Asked : review[q] # "none"

\* write_json: the record in memory replaces the one in the folder.
Saved(r) ==
    /\ record' = [record EXCEPT ![Question] = r]
    /\ evidence' = [evidence EXCEPT !.records[Question] = r]

\* The next phase of the question, the next question of the script, or the
\* first of the next script; a day-25 scenario is left at its first failure.
AtNextPhase == [place EXCEPT !.phase = @ + 1]
AtNextScript == [script |-> place.script + 1, number |-> 1, phase |-> 1]
AtNextQuestion ==
    IF place.number < Len(Scripts[place.script])
    THEN [place EXCEPT !.number = @ + 1, !.phase = 1] ELSE AtNextScript
Onward == IF place.phase < Len(Route) THEN AtNextPhase ELSE AtNextQuestion
Walking == stage # "none" /\ place.script \in DOMAIN Scripts

\* The phase this one needs, and the reason it is not dispatched.
Unavailable(r) ==
    \/ Phase = "rag" /\ r.phases["retrieval"].status # "completed"
    \/ Phase = "enhanced" /\ r.found \notin {"near", "far"}
    \/ Phase = "retrieval" /\ pipeline = "rewrite"
       /\ r.phases["rewrite"].status # "completed"
    \/ Phase = "generation" /\ pipeline = "grounded" /\ r.found = "far"

Skip ==
    /\ Walking /\ step = "decide" /\ Unavailable(Here)
    /\ place' = Onward
    /\ UNCHANGED <<pipeline, stage, step, record, evidence, truth, stored, filesOnDisk>>

WithPhase(r, status, outcome) ==
    [r EXCEPT !.phases[Phase] = [status |-> status, attempted |-> TRUE, outcome |-> outcome]]

\* Seeded fault: the checkpoint before the call stays in memory.
SendUnsaved ==
    /\ Walking /\ step = "decide" /\ ~Unavailable(Here)
    /\ record' = [record EXCEPT ![Question] = WithPhase(Here, "unknown", "none")]
    /\ step' = "call"
    /\ UNCHANGED <<pipeline, stage, place, evidence, truth, stored, filesOnDisk>>

\* attempted and "unknown" reach the folder before the provider is called.
SaveAndSend ==
    /\ Walking /\ step = "decide" /\ ~Unavailable(Here)
    /\ Saved(WithPhase([Here EXCEPT !.processing = IF Phase = "generation"
                                                   THEN "unknown" ELSE @], "unknown", "none"))
    /\ step' = "call"
    /\ UNCHANGED <<pipeline, stage, place, truth, stored, filesOnDisk>>

\* Seeded fault: a timeout is recorded like any other failure.
PhaseStatusFlat(outcome) ==
    CASE outcome \in Answers \cup {"near", "far"} -> "completed"
      [] outcome \in {"failed", "timeout"} -> "failed"
      [] OTHER -> "error"

\* What the record says of an outcome.  A timeout leaves the call unknown, and
\* so does a vector that day 23 or 25 cannot use.
PhaseStatus(outcome) ==
    CASE outcome \in Answers \cup {"near", "far"} -> "completed"
      [] outcome = "failed" -> "failed"
      [] outcome = "bad" /\ pipeline \in {"rewrite", "stateful"} -> "unknown"
      [] outcome = "error" /\ pipeline = "stateful" -> "unknown"
      [] outcome = "timeout" -> "unknown"
      [] OTHER -> "error"

CallPhase ==
    /\ Walking /\ step = "call"
    /\ \E outcome \in OutcomesOf(Phase) :
          truth' = [truth EXCEPT ![Question][Phase] = Append(@, outcome)]
    /\ step' = IF Phase = "retrieval" THEN "vector" ELSE "reply"
    /\ UNCHANGED <<pipeline, stage, place, record, evidence, stored, filesOnDisk>>

Heard == LET t == truth[Question][Phase] IN t[Len(t)]

\* The vector is saved before the search, so that it outlives its failure.
KeepVector ==
    /\ Walking /\ step = "vector" /\ Heard \in {"near", "far"}
    /\ pipeline # "stateful"
    /\ Saved(WithPhase(Here, IF pipeline = "rewrite" THEN "completed" ELSE "unknown", Heard))
    /\ step' = "search"
    /\ UNCHANGED <<pipeline, stage, place, truth, stored, filesOnDisk>>

SearchEnds ==
    /\ Walking
    /\ \/ step = "search"
       \/ step = "vector" /\ (Heard \in {"bad", "error"} \/ pipeline = "stateful")
    /\ LET found == IF Heard \in {"near", "far"} THEN Heard
                    ELSE IF Heard = "error" /\ pipeline = "rewrite" THEN "not_computed"
                    ELSE "error"
       IN  Saved([WithPhase(Here, PhaseStatus(Heard), Heard) EXCEPT !.found = found])
    /\ step' = IF pipeline # "stateful" THEN "decide"
               ELSE IF Heard = "near" THEN "decide"
               ELSE IF Heard = "far" THEN "commit" ELSE "stopped"
    /\ place' = IF pipeline # "stateful" THEN Onward
                ELSE IF Heard = "near" THEN AtNextPhase ELSE place
    /\ UNCHANGED <<pipeline, stage, truth, stored, filesOnDisk>>

\* The raw reply is saved before anything is made of it.
KeepReply ==
    /\ Walking /\ step = "reply"
    /\ Saved(WithPhase(Here, PhaseStatus(Heard), Heard))
    /\ IF Phase = "generation"
       THEN /\ step' = "validate" /\ UNCHANGED place
       ELSE /\ step' = "decide" /\ place' = Onward
    /\ UNCHANGED <<pipeline, stage, truth, stored, filesOnDisk>>

\* What validation makes of a reply.
Processed(outcome) ==
    CASE outcome \in {"answered", "abstains"} -> "accepted"
      [] outcome = "invalid" -> "validation_failed"
      [] OTHER -> PhaseStatus(outcome)
OriginOf(outcome) == IF outcome = "abstains" THEN "model_semantic" ELSE "none"

ValidateReply ==
    /\ Walking /\ step = "validate"
    /\ Saved([Here EXCEPT !.processing = Processed(Heard), !.origin = OriginOf(Heard)])
    /\ step' = IF pipeline = "grounded" THEN "review"
               ELSE IF Processed(Heard) = "accepted" THEN "commit" ELSE "stopped"
    /\ UNCHANGED <<pipeline, stage, place, truth, stored, filesOnDisk>>

\* Seeded fault: the review is left as the set-up wrote it.
WriteReviewNot ==
    /\ Walking /\ step = "review"
    /\ step' = "decide" /\ place' = Onward
    /\ UNCHANGED <<pipeline, stage, record, evidence, truth, stored, filesOnDisk>>

\* Day 24: the second file, and on to the next question.
WriteReview ==
    /\ Walking /\ step = "review"
    /\ review' = [review EXCEPT ![Question] = Support(Here)]
    /\ step' = "decide" /\ place' = Onward
    /\ UNCHANGED <<pipeline, stage, record, evidence, truth, stored, written>>

\* Day 25: "unknown" is saved, the store commits, "committed" is saved.
AnnounceCommit ==
    /\ Walking /\ step = "commit"
    /\ Saved([Here EXCEPT !.commit = "unknown"])
    /\ step' = "store"
    /\ UNCHANGED <<pipeline, stage, place, truth, stored, filesOnDisk>>

\* Seeded fault: the turn is reported committed before the store commits it.
CommitTurnEarly ==
    /\ Walking /\ step = "store"
    /\ Saved([Here EXCEPT !.commit = "committed"])
    /\ step' = "committed"
    /\ UNCHANGED <<pipeline, stage, place, truth, stored, filesOnDisk>>

StoreTurn ==
    /\ Walking /\ step = "store"
    /\ \/ stored' = stored \cup {Question} /\ step' = "committed"
       \/ UNCHANGED stored /\ step' = "stopped"         \* storage_unknown
    /\ UNCHANGED <<pipeline, stage, place, record, evidence, truth, filesOnDisk>>

ReportCommit ==
    /\ Walking /\ step = "committed"
    /\ Saved([Here EXCEPT !.commit = "committed"])
    /\ step' = IF place.number = ReopenAfter THEN "reopen" ELSE "decide"
    /\ place' = IF place.number = ReopenAfter THEN place ELSE AtNextQuestion
    /\ UNCHANGED <<pipeline, stage, truth, stored, filesOnDisk>>

\* The store and the service are opened anew, and the state they read is
\* compared with the one the confirmed turns led to.
Reopen ==
    /\ Walking /\ step = "reopen"
    /\ evidence' = [evidence EXCEPT !.lost = @ \cup
            ({<<place.script, n>> : n \in 1 .. place.number} \ stored)]
    /\ step' = "decide" /\ place' = AtNextQuestion
    /\ UNCHANGED <<pipeline, stage, record, truth, stored, filesOnDisk>>

LeaveScenario ==
    /\ Walking /\ step = "stopped"
    /\ place' = AtNextScript /\ step' = "decide"
    /\ UNCHANGED <<pipeline, stage, record, evidence, truth, stored, filesOnDisk>>

AllCommitted == \A q \in Asked : record[q].commit = "committed"

\* The walk is over: the status, and day 23's hash of the retrievals, are saved.
FinishWalk ==
    /\ stage # "none" /\ place.script \notin DOMAIN Scripts
    /\ evidence' =
          IF stage = "compare" THEN [evidence EXCEPT !.compare = "finished"]
          ELSE [evidence EXCEPT
                  !.run = IF pipeline = "stateful" /\ ~AllCommitted THEN "partial" ELSE "finished",
                  !.hash = IF pipeline = "rewrite" THEN HashOf(record) ELSE @]
    /\ stage' = "none" /\ step' = "decide"
    /\ UNCHANGED <<pipeline, place, record, truth, stored, filesOnDisk>>

\* An unexpected exception, a failed write or a killed process.
StopsHalfway ==
    /\ stage # "none" /\ stage' = "none" /\ step' = "decide"
    /\ UNCHANGED <<pipeline, place, record, evidence, truth, stored, filesOnDisk>>

\* load_saved of day 23: the retrieval is the one that was frozen.
RewriteReadable ==
    evidence.run = "finished" => HashOf(evidence.records) = evidence.hash

\* load_saved of day 24, a record: it follows from its gate and its reply.
RecordReadable(q) ==
    LET r == evidence.records[q]  g == r.phases["generation"]
    IN  IF r.found = "far"
        THEN /\ g = NotDispatched
             /\ r.processing = "accepted" /\ r.origin = "runtime_gate"
        ELSE IF g.attempted
             THEN r.processing \in {"accepted", "validation_failed"} =>
                    /\ g.outcome \in Answers
                    /\ r.processing = Processed(g.outcome)
                    /\ r.origin = OriginOf(g.outcome)
             ELSE r.processing # "accepted"

\* load_saved of day 24, a review nobody has edited: an abstention has no support.
ReviewReadable(q) == Support(evidence.records[q]) = "N/A" <=> review[q] = "N/A"

GroundedReadable ==
    IsSetUp /\ \A q \in Asked : RecordReadable(q) /\ ReviewReadable(q)

\* Seeded fault: an interrupted comparison may be started again.
CompareIsOpenAgain == RewriteReadable /\ evidence.run = "finished"

CompareIsOpen ==
    /\ IsSetUp /\ RewriteReadable /\ evidence.run = "finished"
    /\ evidence.compare = "not_dispatched"
    /\ \A q \in Asked : ~evidence.records[q].phases["enhanced"].attempted

\* The second command of day 23, in a process of its own, reads the folder.
Compare ==
    /\ pipeline = "rewrite" /\ stage = "none" /\ CompareIsOpen
    /\ stage' = "compare" /\ step' = "decide"
    /\ place' = [script |-> 1, number |-> 1, phase |-> 1]
    /\ record' = evidence.records
    /\ evidence' = [evidence EXCEPT !.compare = "partial"]
    /\ UNCHANGED <<pipeline, truth, stored, filesOnDisk>>

RagExperimentsNext ==
    \/ WriteRecord \/ EndSetup
    \/ Skip \/ SaveAndSend \/ CallPhase \/ KeepVector \/ SearchEnds \/ KeepReply
    \/ ValidateReply \/ WriteReview \/ AnnounceCommit \/ StoreTurn \/ ReportCommit \/ Reopen
    \/ LeaveScenario \/ FinishWalk \/ StopsHalfway \/ Compare

RagExperimentsSpec == RagExperimentsInit /\ [][RagExperimentsNext]_experimentsVars

(* What the folder says of a call is never less than what happened: a call   *)
(* is made at most once, is marked attempted by then, and no call is made    *)
(* before the folder is set up; "completed" and "failed" are what the        *)
(* provider said, and a timeout stays unknown; a turn reported committed is  *)
(* in the store, also once reopened, and one in the store was announced      *)
(* (run_experiment, retrieve, compare, run_eval, send).                      *)
EvidenceIsHonest ==
    /\ \A q \in Asked, p \in PhaseNames :
          LET said == evidence.records[q].phases[p]  asked == truth[q][p]
          IN  /\ Len(asked) <= 1
              /\ asked # <<>> => said.attempted /\ IsSetUp
              /\ said.status = "completed" => \E t \in Answers \cup {"near", "far"} : asked = <<t>>
              /\ said.status = "failed" => asked = <<"failed">>
              /\ evidence.run = "finished" /\ stage = "none" /\ p # "enhanced"
                    /\ said.status = "unknown" => asked \in {<<"timeout">>, <<"bad">>}
    /\ \A q \in Asked :
          /\ evidence.records[q].commit = "committed" => q \in stored
          /\ q \in stored => evidence.records[q].commit # "not_attempted"
    /\ evidence.lost = {}

\* The review says something else of the support than its record.
IsBehind(q) == review[q] # Support(evidence.records[q])

(* Whatever stops the process, and wherever, once the folder is set up: day  *)
(* 23's frozen retrieval keeps its hash through the comparison; day 24's     *)
(* records follow from the gate and the raw reply saved before them, the     *)
(* review is behind in one question at most, and the report refuses it only  *)
(* there, only in a run that did not finish, and only for a model's own      *)
(* abstention (load_saved of both days; run_eval writes the record and then  *)
(* the review).                                                              *)
SavedRunIsReadable ==
    IsSetUp =>
      CASE pipeline = "rewrite" -> RewriteReadable
        [] pipeline = "grounded" ->
             /\ \A q \in Asked : RecordReadable(q)
             /\ \A q, other \in Asked : IsBehind(q) /\ IsBehind(other) => q = other
             /\ \A q \in Asked : ~ReviewReadable(q) =>
                  /\ evidence.run = "partial"
                  /\ evidence.records[q].origin = "model_semantic"
        [] OTHER -> TRUE

(* A folder can be believed and read, however its run ended.                 *)
FolderIsSound == EvidenceIsHonest /\ SavedRunIsReadable

(* The comment of load_saved, "An interruption can leave review one          *)
(* checkpoint behind the raw result": the report renders a day-24 folder     *)
(* whose run was interrupted anywhere after its set-up.                      *)
InterruptedRunIsReadable ==
    pipeline = "grounded" /\ stage = "none" /\ IsSetUp => GroundedReadable
=============================================================================
