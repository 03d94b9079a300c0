---------------------------- MODULE CitedAnswers ----------------------------
(* The mechanical checks of answers that cite their sources: day 24's        *)
(* validator (grounded_rag/core.py), the plain and the grounded answers of   *)
(* the local assistant (explain.py, grounded_explain.py) and the compact     *)
(* contract of day 29 (compact_contract.py).  Four parsers written one after *)
(* the other are to agree on what an exact citation is.                      *)
(*                                                                           *)
(* A chunk stands for its identity and its text; a quote is in the text of   *)
(* some chunks (ExcerptsIn) and may be too long.  Texts that only have to be *)
(* nonblank are left out, and so are the shape of the JSON and its types.    *)
(* Every step judges one answer of one of the shapes.                        *)
EXTENDS Naturals, Sequences, FiniteSets, SequencesExt

CONSTANTS
    Chunks,         \* chunks of the index
    Selected,       \* those in the context
    Excerpts, LongExcerpts,
    ExcerptsIn(_),  \* the quotes a chunk's text contains
    LineCount,      \* lines of the Kotlin file
    MaxCitations    \* bound: citations and sources of an answer

ASSUME CitedAnswersAssumption ==
    Selected \subseteq Chunks /\ LongExcerpts \subseteq Excerpts /\ LineCount \in Nat

VARIABLES
    paper,      \* the answer, and the shape it has
    verdict     \* "unread", "accepted" or "refused"

papersVars == <<paper, verdict>>

\* ------------------------------------------------------------ what is cited
Cite(c, q) == [chunk |-> c, quote |-> q]
SmallSeq(S, n) == UNION {[1 .. k -> S] : k \in 0 .. n}
Citations == SmallSeq({Cite(c, q) : c \in Chunks, q \in Excerpts}, MaxCitations)

\* Seeded fault: a quote of another chunk of the context is taken.
ExactAnywhere(cite) ==
    cite.chunk \in Selected /\ cite.quote \notin LongExcerpts
    /\ \E c \in Selected : cite.quote \in ExcerptsIn(c)

\* A citation quotes a selected chunk word for word, and not too much of it.
Exact(cite) ==
    /\ cite.chunk \in Selected
    /\ cite.quote \notin LongExcerpts
    /\ cite.quote \in ExcerptsIn(cite.chunk)

CitesExactly(cites) ==
    /\ cites # <<>> /\ IsInjective(cites)
    /\ \A i \in DOMAIN cites : Exact(cites[i])

\* Seeded fault: line 0 is let through.
LinesAreValidFromZero(lines) ==
    lines # <<>> /\ IsInjective(lines) /\ \A i \in DOMAIN lines : lines[i] <= LineCount
LinesAreValid(lines) ==
    /\ lines # <<>> /\ IsInjective(lines)
    /\ \A i \in DOMAIN lines : 1 <= lines[i] /\ lines[i] <= LineCount

\* ------------------------------------------------- plain and grounded answers
\* explain.parse_explanation: facts on lines, or limitations instead.
PlainAccepted(a) ==
    /\ \A i \in DOMAIN a.facts : LinesAreValid(a.facts[i])
    /\ a.facts # <<>> \/ a.limited

\* References name elements of the answer, each once.
RefersTo(refs, n) ==
    refs # <<>> /\ IsInjective(refs) /\ ToSet(refs) \subseteq 1 .. n

\* grounded_explain.parse: observations on lines, rules with exact citations,
\* applications of the ones to the others.  Identities are the positions.
GroundedAccepted(a, status) ==
    /\ \A i \in DOMAIN a.observations : LinesAreValid(a.observations[i])
    /\ \A i \in DOMAIN a.rules : CitesExactly(a.rules[i])
    /\ \A i \in DOMAIN a.applications :
          /\ RefersTo(a.applications[i].observations, Len(a.observations))
          /\ RefersTo(a.applications[i].rules, Len(a.rules))
    /\ status # "candidates_provided" => a.rules = <<>> /\ a.applications = <<>>
    /\ (status # "candidates_provided" \/ a.rules = <<>> \/ a.observations = <<>>) => a.limited

\* Seeded fault: the compact contract forgets the status of the retrieval.
CompactAcceptedAnyhow(a, status) ==
    /\ \A i \in DOMAIN a.observations : LinesAreValid(a.observations[i])
    /\ \A i \in DOMAIN a.applications : LinesAreValid(a.applications[i].lines)
                                        /\ CitesExactly(a.applications[i].cites)
    /\ (a.applications = <<>> \/ a.observations = <<>>) => a.limited

\* compact_contract.parse: a rule, its citations and its lines in one element.
CompactAccepted(a, status) ==
    /\ \A i \in DOMAIN a.observations : LinesAreValid(a.observations[i])
    /\ \A i \in DOMAIN a.applications :
          /\ LinesAreValid(a.applications[i].lines)
          /\ CitesExactly(a.applications[i].cites)
    /\ status # "candidates_provided" => a.applications = <<>>
    /\ (status # "candidates_provided" \/ a.applications = <<>> \/ a.observations = <<>>)
          => a.limited

\* The baseline answer a compact one abbreviates.
Expanded(a) ==
    LET n == Len(a.observations)
        applied == DOMAIN a.applications
    IN  [observations |-> a.observations \o [i \in applied |-> a.applications[i].lines],
         rules |-> [i \in applied |-> a.applications[i].cites],
         applications |-> [i \in applied |-> [observations |-> <<n + i>>, rules |-> <<i>>]],
         limited |-> a.limited]

\* ------------------------------------------------------------------ day 24
\* A source names a chunk and, rightly or not, its document and section.
Sources24 == SmallSeq({[chunk |-> c, named |-> b] : c \in Chunks, b \in BOOLEAN}, MaxCitations)

\* core.validate of an answered candidate: no error of any kind.
ValidatedAccepted(a) ==
    LET named == {a.sources[i].chunk : i \in DOMAIN a.sources}
    IN  /\ a.sources # <<>> /\ a.cites # <<>>
        /\ Cardinality(named) = Len(a.sources)
        /\ \A i \in DOMAIN a.sources : a.sources[i].chunk \in Selected /\ a.sources[i].named
        /\ named = {a.cites[i].chunk : i \in DOMAIN a.cites}
        /\ IsInjective(a.cites)
        /\ \A i \in DOMAIN a.cites : Exact(a.cites[i])

\* ------------------------------------------------------------------- judging
Statuses == {"not_requested", "no_candidates", "candidates_provided"}
LineLists == {<<>>, <<1>>, <<LineCount>>, <<1, 1>>, <<0>>, <<LineCount + 1>>}

CompactAnswers ==
    [observations : SmallSeq(LineLists, 1), limited : BOOLEAN,
     applications : SmallSeq([lines : LineLists, cites : Citations], 1)]
GroundedAnswers ==
    [observations : SmallSeq({<<1>>, <<0>>}, 2), limited : BOOLEAN, rules : SmallSeq(Citations, 1),
     applications : SmallSeq([observations : {<<>>, <<1>>, <<2>>, <<1, 1>>},
                              rules : {<<>>, <<1>>, <<2>>}], 1)]
Day24Answers == [sources : Sources24, cites : Citations]
PlainAnswers == [facts : SmallSeq(LineLists, 2), limited : BOOLEAN]

Papers ==
    [shape : {"compact"}, answer : CompactAnswers, status : Statuses]
      \cup [shape : {"grounded"}, answer : GroundedAnswers, status : Statuses]
      \cup [shape : {"day24"}, answer : Day24Answers, status : {"candidates_provided"}]
      \cup [shape : {"plain"}, answer : PlainAnswers, status : {"not_requested"}]

CitedAnswersInit ==
    /\ paper \in Papers
    /\ verdict = "unread"

Accepted ==
    CASE paper.shape = "compact" -> CompactAccepted(paper.answer, paper.status)
      [] paper.shape = "grounded" -> GroundedAccepted(paper.answer, paper.status)
      [] paper.shape = "day24" -> ValidatedAccepted(paper.answer)
      [] paper.shape = "plain" -> PlainAccepted(paper.answer)

JudgeAnswer ==
    /\ verdict = "unread"
    /\ verdict' = IF Accepted THEN "accepted" ELSE "refused"
    /\ UNCHANGED paper

CitedAnswersSpec == CitedAnswersInit /\ [][JudgeAnswer]_papersVars

(* An answer one parser accepts is good for the others: the compact one      *)
(* expands to an acceptable grounded answer, a grounded one without          *)
(* documents has acceptable plain facts, and day 24's citations are those of *)
(* a rule; and whatever is accepted cites only text of the context, in the   *)
(* chunk it names, and lines of the file (parse, parse_explanation,          *)
(* validate).                                                                *)
CitationsAgree ==
    verdict = "accepted" =>
       LET a == paper.answer
       IN  CASE paper.shape = "compact" -> GroundedAccepted(Expanded(a), paper.status)
             [] paper.shape = "grounded" ->
                   /\ paper.status = "not_requested" =>
                         PlainAccepted([facts |-> a.observations, limited |-> a.limited])
                   /\ \A r \in ToSet(a.rules) : \A i \in DOMAIN r :
                         r[i].chunk \in Selected /\ r[i].quote \in ExcerptsIn(r[i].chunk)
             [] paper.shape = "day24" ->
                   GroundedAccepted([observations |-> <<>>, rules |-> <<a.cites>>,
                                     applications |-> <<>>, limited |-> TRUE], paper.status)
             [] paper.shape = "plain" ->
                   \A i \in DOMAIN a.facts : ToSet(a.facts[i]) \subseteq 1 .. LineCount
=============================================================================
