--------------------------- MODULE AssistantsProofs ---------------------------
(***************************************************************************)
(* Theorems about the assistants' components, one component after the      *)
(* other; each is the specification of that component alone, for any       *)
(* models, scenarios, budgets, scripts, chunks and documents.              *)
(***************************************************************************)
EXTENDS Integers, OllamaAttempts, CitedAnswers, RagExperiments, KnowledgeIndex, ProjectFiles,
        RagDialogs, FiniteSetTheorems, SequenceTheorems, WellFoundedInduction, TLAPS

-----------------------------------------------------------------------------
(* Sums along a journal.                                                   *)

\* Induction in the form the provers accept: a set of numbers has a least one.
LEMMA LeastNumber ==
  ASSUME NEW T \in SUBSET Nat, T # {}
  PROVE  \E x \in T : \A y \in T : ~(y < x)
<1>1. PICK x \in T : \A y \in T : ~(<<y, x>> \in OpToRel(<, Nat))
  BY NatLessThanWellFounded, WFMin
<1>2. \A y \in T : ~(y < x)
  BY <1>1 DEF OpToRel
<1> QED BY <1>2

\* The attempts of a journal, whatever their jobs are.
Attempts(J) ==
  [job : J, status : {"started", "completed", "error", "killed"},
   cleanup : {"none", "no_inference", "unknown", "response_completed"}, minutes : Nat]

LEMMA MoreJobs ==
  ASSUME NEW J, NEW K, J \subseteq K, NEW j \in Seq(Attempts(J))
  PROVE  j \in Seq(Attempts(K))
<1>1. Attempts(J) \subseteq Attempts(K)
  BY DEF Attempts
<1>2. Len(j) \in Nat /\ j \in [1 .. Len(j) -> Attempts(J)]
  OBVIOUS
<1>3. j \in [1 .. Len(j) -> Attempts(K)]
  BY <1>1, <1>2
<1> QED BY <1>2, <1>3, IsASeq

\* t holds the minutes of every prefix of the journal.
IsTotal(j, t) ==
  /\ t[0] = 0
  /\ \A n \in 1 .. Len(j) : t[n] = t[n - 1] + j[n].minutes

LEMMA TotalsExist ==
  ASSUME NEW J, NEW j \in Seq(Attempts(J))
  PROVE  \E t : IsTotal(j, t) /\ t \in [0 .. Len(j) -> Nat]
<1>0. Len(j) \in Nat /\ \A n \in 1 .. Len(j) : j[n] \in Attempts(J) /\ j[n].minutes \in Nat
  <2>1. Len(j) \in Nat /\ \A n \in 1 .. Len(j) : j[n] \in Attempts(J)
    OBVIOUS
  <2> QED BY <2>1 DEF Attempts
<1> DEFINE IsTotalTo(m, t) == /\ t \in [0 .. m -> Nat]
                              /\ t[0] = 0
                              /\ \A n \in 1 .. m : t[n] = t[n - 1] + j[n].minutes
           Bad == {m \in 0 .. Len(j) : ~ \E t : IsTotalTo(m, t)}
<1>1. Bad = {}
  <2> SUFFICES ASSUME Bad # {} PROVE FALSE
    OBVIOUS
  <2>1. PICK m \in Bad : \A k \in Bad : ~(k < m)
    <3>1. Bad \in SUBSET Nat
      OBVIOUS
    <3> HIDE DEF Bad
    <3> QED BY <3>1, LeastNumber
  <2>2. m # 0
    <3>1. IsTotalTo(0, [n \in 0 .. 0 |-> 0])
      OBVIOUS
    <3> QED BY <3>1
  <2>3. m \in Nat /\ m - 1 \in 0 .. Len(j) /\ m \in 1 .. Len(j) /\ m - 1 \notin Bad
    <3>1. m \in 0 .. Len(j)
      BY <2>1
    <3>2. m \in Nat /\ m - 1 \in 0 .. Len(j) /\ m \in 1 .. Len(j) /\ m - 1 < m
      <4> HIDE DEF Bad
      <4> QED BY <1>0, <2>2, <3>1
    <3>3. m - 1 \notin Bad
      <4> HIDE DEF Bad
      <4> QED BY <2>1, <3>2
    <3> QED BY <3>2, <3>3
  <2>4. PICK t : IsTotalTo(m - 1, t)
    BY <2>3
  <2>5. j[m].minutes \in Nat
    BY <1>0, <2>3
  <2> DEFINE u == [n \in 0 .. m |-> IF n = m THEN t[m - 1] + j[m].minutes ELSE t[n]]
  <2>6. u \in [0 .. m -> Nat]
    BY <2>3, <2>4, <2>5
  <2>7. \A n \in 1 .. m : u[n] = u[n - 1] + j[n].minutes
    BY <2>3, <2>4
  <2>8. u[0] = 0
    BY <2>3, <2>4
  <2>9. IsTotalTo(m, u)
    BY <2>6, <2>7, <2>8
  <2> HIDE DEF u
  <2> QED BY <2>1, <2>9
<1>2. \E t : IsTotalTo(Len(j), t)
  BY <1>1
<1> QED BY <1>2 DEF IsTotal

\* Totals of two journals agree as far as the journals do.
LEMMA TotalsAgree ==
  ASSUME NEW J, NEW j \in Seq(Attempts(J)), NEW k \in Seq(Attempts(J)), NEW t, NEW u,
         IsTotal(j, t), IsTotal(k, u), NEW m \in Nat, m <= Len(j), m <= Len(k),
         \A n \in 1 .. m : j[n].minutes = k[n].minutes
  PROVE  t[m] = u[m]
<1> DEFINE Bad == {n \in 0 .. m : t[n] # u[n]}
<1>0. Len(j) \in Nat /\ Len(k) \in Nat
  OBVIOUS
<1>1. Bad = {}
  <2> SUFFICES ASSUME Bad # {} PROVE FALSE
    OBVIOUS
  <2>1. PICK n \in Bad : \A i \in Bad : ~(i < n)
    <3>1. Bad \in SUBSET Nat
      OBVIOUS
    <3> HIDE DEF Bad
    <3> QED BY <3>1, LeastNumber
  <2>2. n \in 1 .. m /\ n \in 1 .. Len(j) /\ n \in 1 .. Len(k) /\ n - 1 \in 0 .. m /\ n - 1 < n
    BY <1>0, <2>1 DEF IsTotal
  <2>3. t[n - 1] = u[n - 1]
    BY <2>1, <2>2
  <2> QED BY <2>1, <2>2, <2>3 DEF IsTotal
<1> QED BY <1>1

LEMMA ElapsedIsTotal ==
  ASSUME NEW J, NEW j \in Seq(Attempts(J))
  PROVE  \E t : IsTotal(j, t) /\ Elapsed(j) = t[Len(j)] /\ Elapsed(j) \in Nat
<1> DEFINE Step(g) == [n \in 0 .. Len(j) |-> IF n = 0 THEN 0 ELSE g[n - 1] + j[n].minutes]
           sums == CHOOSE g : g = Step(g)
<1>0. Len(j) \in Nat
  OBVIOUS
<1>1. PICK t : IsTotal(j, t) /\ t \in [0 .. Len(j) -> Nat]
  BY TotalsExist
<1>2. t = Step(t)
  BY <1>1 DEF IsTotal
<1>3. sums = Step(sums)
  BY <1>2
<1>4. Elapsed(j) = sums[Len(j)]
  BY DEF Elapsed
<1> HIDE DEF sums
<1>5. IsTotal(j, sums)
  <2>1. \A n \in 0 .. Len(j) : sums[n] = IF n = 0 THEN 0 ELSE sums[n - 1] + j[n].minutes
    BY <1>3
  <2>2. 0 \in 0 .. Len(j) /\ \A n \in 1 .. Len(j) : n \in 0 .. Len(j) /\ n # 0
    BY <1>0
  <2> QED BY <2>1, <2>2 DEF IsTotal
<1>6. sums[Len(j)] = t[Len(j)]
  BY <1>0, <1>1, <1>5, TotalsAgree
<1> QED BY <1>0, <1>1, <1>4, <1>5, <1>6

LEMMA ElapsedOfNone == Elapsed(<< >>) = 0
<1>1. << >> \in Seq(Attempts({})) /\ Len(<< >>) = 0
  OBVIOUS
<1>2. PICK t : IsTotal(<< >>, t) /\ Elapsed(<< >>) = t[0]
  BY <1>1, ElapsedIsTotal
<1> QED BY <1>2 DEF IsTotal

\* What the last attempt took is added to what those before it took.
LEMMA ElapsedOfLast ==
  ASSUME NEW J, NEW j \in Seq(Attempts(J)), NEW k \in Seq(Attempts(J)), NEW n \in Nat,
         Len(j) \in {n, n + 1}, Len(k) = n + 1, \A i \in 1 .. n : j[i].minutes = k[i].minutes
  PROVE  /\ Len(j) = n => Elapsed(k) = Elapsed(j) + k[n + 1].minutes
         /\ Len(j) = n + 1 => Elapsed(k) = Elapsed(j) - j[n + 1].minutes + k[n + 1].minutes
<1>1. PICK t : IsTotal(j, t) /\ Elapsed(j) = t[Len(j)] /\ Elapsed(j) \in Nat
  BY ElapsedIsTotal
<1>2. PICK u : IsTotal(k, u) /\ Elapsed(k) = u[n + 1] /\ Elapsed(k) \in Nat
  BY ElapsedIsTotal
<1>3. t[n] = u[n]
  BY <1>1, <1>2, TotalsAgree
<1>4. n + 1 \in 1 .. (n + 1) /\ n + 1 - 1 = n
  OBVIOUS
<1>5. u[n + 1] = u[n] + k[n + 1].minutes
  BY <1>2, <1>4 DEF IsTotal
<1>6. CASE Len(j) = n
  BY <1>1, <1>2, <1>3, <1>5, <1>6
<1>7. CASE Len(j) = n + 1
  <2>1. k[n + 1].minutes \in Nat /\ j[n + 1].minutes \in Nat
    <3>1. k[n + 1] \in Attempts(J) /\ j[n + 1] \in Attempts(J)
      BY <1>4, <1>7
    <3> QED BY <3>1 DEF Attempts
  <2>2. t[n + 1] = t[n] + j[n + 1].minutes
    BY <1>1, <1>4, <1>7 DEF IsTotal
  <2>3. t[n] \in Nat
    <3>1. PICK v : IsTotal(j, v) /\ v \in [0 .. Len(j) -> Nat]
      BY TotalsExist
    <3>2. t[n] = v[n]
      BY <1>1, <1>7, <3>1, TotalsAgree
    <3> QED BY <1>7, <3>1, <3>2
  <2> QED BY <1>1, <1>2, <1>3, <1>5, <1>7, <2>1, <2>2, <2>3
<1> QED BY <1>6, <1>7

-----------------------------------------------------------------------------
(* The day-29 driver and its journals.                                     *)

JournalTyped(j) == \E J : j \in Seq(Attempts(J))

\* One attempt of a journal at most keeps its gate closed.
OneBlocks(j) == \A i, k \in DOMAIN j : Blocks(j, i) /\ Blocks(j, k) => i = k

JournalInv(j) ==
  /\ JournalTyped(j) /\ OneBlocks(j)
  /\ NothingIsTriedAgain(j) /\ BudgetIsKept(j) /\ VariantsAreApart(j)

JournalsSound ==
  /\ DOMAIN journals = Files /\ path \in Files
  /\ \A f \in Files : JournalInv(journals[f])

\* The driver waits for the last attempt, which has spent nothing yet.
IsLast(j, n) ==
  /\ n = Len(j) /\ n \in DOMAIN j
  /\ j[n].status = "started" /\ j[n].minutes = 0 /\ Elapsed(j) < MaxMinutes

CurrentIsLast == current # 0 => IsLast(journals[path], current)

WorkerPhases == {"begun", "embedding", "retrieved", "generating", "answered", "broken"}
Worker ==
  [attempt : Files \X Nat, phase : WorkerPhases,
   cleanup : {"no_inference", "unknown", "response_completed"}]

OnRecord(a) == a \in Files \X Nat /\ a[2] \in DOMAIN journals[a[1]]

\* A worker, orphan or not, belongs to an attempt without an end; while its
\* inference runs it would report that it does not know.
WorkersKnown ==
  /\ \A w \in workers :
       /\ w \in Worker /\ OnRecord(w.attempt)
       /\ RecordOf(w.attempt).status = "started"
       /\ w.attempt \in server => w.cleanup = "unknown"
  /\ \A v, w \in workers : v.attempt = w.attempt => v = w

\* Whatever Ollama works on keeps the gate of its journal closed.
ServerIsGuarded == \A a \in server : OnRecord(a) /\ Blocks(journals[a[1]], a[2])

DriverInv == JournalsSound /\ CurrentIsLast /\ WorkersKnown /\ ServerIsGuarded

LEMMA JournalFacts ==
  ASSUME NEW j, JournalTyped(j)
  PROVE  /\ Len(j) \in Nat /\ DOMAIN j = 1 .. Len(j)
         /\ Elapsed(j) \in Nat
         /\ IsFiniteSet(Inferences(j)) /\ Cardinality(Inferences(j)) \in Nat
<1>1. PICK J : j \in Seq(Attempts(J))
  BY DEF JournalTyped
<1>2. Len(j) \in Nat /\ DOMAIN j = 1 .. Len(j)
  BY <1>1
<1>3. Elapsed(j) \in Nat
  BY <1>1, ElapsedIsTotal
<1>4. IsFiniteSet(1 .. Len(j)) /\ Inferences(j) \subseteq 1 .. Len(j)
  <2>1. 1 \in Int /\ Len(j) \in Int
    BY <1>2
  <2>2. IsFiniteSet(1 .. Len(j))
    BY <2>1, FS_Interval, Zenon
  <2>3. Inferences(j) \subseteq 1 .. Len(j)
    BY <1>2 DEF Inferences
  <2> QED BY <2>2, <2>3
<1>5. IsFiniteSet(Inferences(j)) /\ Cardinality(Inferences(j)) \in Nat
  BY <1>4, FS_Subset, FS_CardinalityType
<1> QED BY <1>2, <1>3, <1>5

LEMMA DriverInitInv == OllamaAttemptsInit => DriverInv
<1> SUFFICES ASSUME OllamaAttemptsInit PROVE DriverInv
  OBVIOUS
<1>1. /\ journals = [f \in Files |-> << >>] /\ path \in Files /\ current = 0
      /\ workers = {} /\ server = {}
  BY OllamaAttemptsAssumption DEF OllamaAttemptsInit
<1>2. JournalInv(<< >>)
  <2>1. << >> \in Seq(Attempts({})) /\ DOMAIN << >> = {}
    OBVIOUS
  <2>2. Inferences(<< >>) = {} /\ Elapsed(<< >>) = 0
    BY <2>1, ElapsedOfNone DEF Inferences
  <2>3. BudgetIsKept(<< >>)
    BY <2>2, FS_EmptySet, OllamaAttemptsAssumption DEF BudgetIsKept
  <2> QED BY <2>1, <2>2, <2>3
          DEF JournalInv, JournalTyped, OneBlocks, NothingIsTriedAgain, VariantsAreApart
<1> QED BY <1>1, <1>2 DEF DriverInv, JournalsSound, CurrentIsLast, WorkersKnown, ServerIsGuarded

\* Steps that write nothing to a journal; a driver that waits goes on waiting.
LEMMA QuietStep ==
  ASSUME DriverInv, journals' = journals, path' \in Files, current' \in {0, current},
         current' # 0 => path' = path, WorkersKnown', ServerIsGuarded'
  PROVE  DriverInv'
<1>1. JournalsSound'
  BY DEF DriverInv, JournalsSound
<1>2. CurrentIsLast'
  BY DEF DriverInv, CurrentIsLast
<1> QED BY <1>1, <1>2 DEF DriverInv

\* What a worker does alone: it stays at its attempt.
LEMMA WorkerStep ==
  ASSUME DriverInv, journals' = journals, path' = path, current' = current,
         NEW w \in workers, NEW v \in Worker, v.attempt = w.attempt,
         v.attempt \in server' => v.cleanup = "unknown",
         server' \subseteq server \cup {w.attempt},
         workers' = (workers \ {w}) \cup {v}
  PROVE  DriverInv'
<1>1. w \in Worker /\ OnRecord(w.attempt) /\ RecordOf(w.attempt).status = "started"
  BY DEF DriverInv, WorkersKnown
<1>2. \A a : OnRecord(a)' <=> OnRecord(a)
  BY DEF OnRecord
<1>3. \A a : RecordOf(a)' = RecordOf(a)
  BY DEF RecordOf
<1>4. WorkersKnown'
  <2>1. \A u \in workers \ {w} : u.attempt # w.attempt
    BY DEF DriverInv, WorkersKnown
  <2>2. ASSUME NEW u \in workers'
        PROVE  /\ u \in Worker /\ OnRecord(u.attempt)' /\ RecordOf(u.attempt)'.status = "started"
               /\ u.attempt \in server' => u.cleanup = "unknown"
    <3>1. CASE u = v
      BY <1>1, <1>2, <1>3, <3>1
    <3>2. CASE u \in workers \ {w}
      BY <1>2, <1>3, <2>1, <3>2 DEF DriverInv, WorkersKnown
    <3> QED BY <3>1, <3>2
  <2>3. \A t, u \in workers' : t.attempt = u.attempt => t = u
    BY <2>1 DEF DriverInv, WorkersKnown
  <2> QED BY <2>2, <2>3 DEF WorkersKnown
<1>5. ServerIsGuarded'
  <2>1. \A a \in server' : OnRecord(a) /\ Blocks(journals[a[1]], a[2])
    BY <1>1 DEF DriverInv, ServerIsGuarded, Blocks, RecordOf
  <2> QED BY <1>2, <2>1 DEF ServerIsGuarded
<1> QED BY <1>4, <1>5, QuietStep DEF DriverInv, JournalsSound

LEMMA QuietSteps ==
  ASSUME DriverInv,
         \/ GiveCommand \/ GateStops \/ DriverDies
         \/ \E w \in workers : CallServer(w) \/ AnswerIsLost(w) \/ OrphanEnds(w)
         \/ \E a \in server : ServerEnds(a)
         \/ UNCHANGED driverVars
  PROVE  DriverInv'
<1>0. WorkersKnown /\ ServerIsGuarded /\ path \in Files
  BY DEF DriverInv, JournalsSound
<1>1. CASE GiveCommand \/ GateStops \/ DriverDies \/ UNCHANGED driverVars
  <2>1. /\ journals' = journals /\ current' \in {0, current} /\ path' \in Files
        /\ current' # 0 => path' = path
        /\ workers' = workers /\ server' = server
    BY <1>0, <1>1, OllamaAttemptsAssumption DEF GiveCommand, GateStops, DriverDies, driverVars
  <2>2. WorkersKnown' /\ ServerIsGuarded'
    BY <1>0, <2>1 DEF WorkersKnown, ServerIsGuarded, OnRecord, RecordOf
  <2> QED BY <2>1, <2>2, QuietStep
<1>2. ASSUME NEW w \in workers, CallServer(w) PROVE DriverInv'
  <2> DEFINE phase == IF w.phase = "begun" /\ JobOf(w).operation = "rag" THEN "embedding" ELSE "generating"
             called == [w EXCEPT !.phase = phase, !.cleanup = "unknown"]
  <2>1. /\ journals' = journals /\ path' = path /\ current' = current
        /\ server' = server \cup {w.attempt} /\ workers' = (workers \ {w}) \cup {called}
    BY <1>2 DEF CallServer, Becomes
  <2>2. w \in Worker
    BY <1>0 DEF WorkersKnown
  <2>3. called \in Worker /\ called.attempt = w.attempt /\ called.cleanup = "unknown"
    <3> HIDE DEF phase
    <3>1. phase \in WorkerPhases
      BY DEF phase, WorkerPhases
    <3> QED BY <2>2, <3>1 DEF Worker
  <2> HIDE DEF called
  <2> QED BY <2>1, <2>3, WorkerStep
<1>3. ASSUME NEW w \in workers, AnswerIsLost(w) PROVE DriverInv'
  <2> DEFINE broken == [w EXCEPT !.phase = "broken", !.cleanup = "unknown"]
  <2>1. /\ journals' = journals /\ path' = path /\ current' = current /\ server' = server
        /\ workers' = (workers \ {w}) \cup {broken}
    BY <1>3 DEF AnswerIsLost, Becomes
  <2>2. w \in Worker
    BY <1>0 DEF WorkersKnown
  <2>3. broken \in Worker /\ broken.attempt = w.attempt /\ broken.cleanup = "unknown"
    BY <2>2 DEF Worker, WorkerPhases
  <2> HIDE DEF broken
  <2> QED BY <2>1, <2>3, WorkerStep
<1>4. ASSUME NEW w \in workers, OrphanEnds(w) PROVE DriverInv'
  <2>1. /\ journals' = journals /\ path' = path /\ current' = current /\ server' = server
        /\ workers' \subseteq workers
    BY <1>4 DEF OrphanEnds
  <2>2. WorkersKnown' /\ ServerIsGuarded'
    BY <1>0, <2>1 DEF WorkersKnown, ServerIsGuarded, OnRecord, RecordOf
  <2> QED BY <1>0, <2>1, <2>2, QuietStep
<1>5. ASSUME NEW a \in server, ServerEnds(a) PROVE DriverInv'
  <2> DEFINE phase(w) == IF w.phase = "embedding" THEN "retrieved"
                         ELSE IF w.phase = "generating" THEN "answered" ELSE w.phase
             cleanup(w) == IF w.phase \in {"embedding", "generating"}
                           THEN "response_completed" ELSE w.cleanup
             after(w) == IF w.attempt # a THEN w
                         ELSE [w EXCEPT !.phase = phase(w), !.cleanup = cleanup(w)]
  <2>1. /\ journals' = journals /\ path' = path /\ current' = current /\ server' = server \ {a}
        /\ workers' = {after(w) : w \in workers}
    BY <1>5 DEF ServerEnds
  <2>2. ASSUME NEW w \in workers
        PROVE  /\ after(w) \in Worker /\ after(w).attempt = w.attempt
               /\ after(w).attempt \in server \ {a} => after(w).cleanup = "unknown"
    <3>1. w \in Worker /\ (w.attempt \in server => w.cleanup = "unknown")
      BY <1>0, <2>2 DEF WorkersKnown
    <3>2. phase(w) \in WorkerPhases /\ cleanup(w) \in {"no_inference", "unknown", "response_completed"}
      BY <3>1 DEF Worker, WorkerPhases
    <3> HIDE DEF phase, cleanup
    <3> QED BY <3>1, <3>2 DEF Worker
  <2> HIDE DEF after
  <2>3. WorkersKnown'
    BY <1>0, <2>1, <2>2 DEF WorkersKnown, OnRecord, RecordOf
  <2>4. ServerIsGuarded'
    BY <1>0, <2>1 DEF ServerIsGuarded, OnRecord
  <2> QED BY <1>0, <2>1, <2>3, <2>4, QuietStep
<1> QED BY <1>1, <1>2, <1>3, <1>4, <1>5

\* A journal whose gate is open for a job stays sound with its start.
LEMMA AnnouncedJournal ==
  ASSUME NEW j, JournalInv(j), NEW job, GateOpen(j, job), NEW new,
         new = [job |-> job, status |-> "started", cleanup |-> "none", minutes |-> 0]
  PROVE  /\ JournalInv(Append(j, new)) /\ IsLast(Append(j, new), Len(j) + 1)
         /\ Len(j) \in Nat /\ \A i \in DOMAIN j : ~Blocks(j, i)
<1> DEFINE n == Len(j)
           k == Append(j, new)
<1>0. /\ JournalTyped(j) /\ OneBlocks(j) /\ NothingIsTriedAgain(j) /\ BudgetIsKept(j)
      /\ VariantsAreApart(j)
  BY DEF JournalInv
<1>2. \A i \in DOMAIN j : ~Blocks(j, i)
  BY DEF GateOpen, Blocked
<1>4. n \in Nat /\ DOMAIN j = 1 .. n /\ Elapsed(j) \in Nat
  BY <1>0, JournalFacts
<1>5. PICK J : j \in Seq(Attempts(J))
  BY <1>0 DEF JournalTyped
<1>7. new.job = job /\ new.status = "started" /\ new.cleanup = "none" /\ new.minutes = 0
  OBVIOUS
<1>6. /\ j \in Seq(Attempts(J \cup {job})) /\ k \in Seq(Attempts(J \cup {job}))
      /\ Len(k) = n + 1 /\ DOMAIN k = 1 .. (n + 1)
      /\ k[n + 1] = new /\ \A i \in 1 .. n : k[i] = j[i]
  <2>1. new \in Attempts(J \cup {job})
    BY DEF Attempts
  <2>2. j \in Seq(Attempts(J \cup {job}))
    BY <1>5, MoreJobs
  <2> QED BY <2>1, <2>2
<1>15. Front(k) = j
  <2>1. k # << >> /\ Front(k) = [i \in 1 .. n |-> k[i]]
    BY <1>4, <1>6 DEF Front
  <2>2. j = [i \in 1 .. n |-> j[i]]
    BY <1>4, <1>5
  <2> QED BY <1>6, <2>1, <2>2
<1> HIDE DEF k
<1>8. Elapsed(k) = Elapsed(j)
  <2>1. Elapsed(k) = Elapsed(j) + k[n + 1].minutes
    <3> HIDE DEF n
    <3> QED BY <1>4, <1>6, ElapsedOfLast DEF n
  <2> QED BY <1>4, <1>6, <1>7, <2>1
<1>9. Elapsed(j) < MaxMinutes /\ Cardinality(Inferences(j)) < MaxCalls
  BY DEF GateOpen
<1>10. JournalTyped(k)
  BY <1>6 DEF JournalTyped
<1>11. BudgetIsKept(k)
  <2> DEFINE before == Inferences(j)
             after == Inferences(k)
  <2>1. after \subseteq before \cup {n + 1}
    BY <1>4, <1>6 DEF Inferences
  <2>2. /\ IsFiniteSet(before) /\ Cardinality(before) \in Nat /\ n + 1 \notin before
    BY <1>0, <1>4, JournalFacts DEF Inferences
  <2>3. Cardinality(after) <= MaxCalls
    <3> HIDE DEF before, after
    <3>1. IsFiniteSet(before \cup {n + 1}) /\ Cardinality(before \cup {n + 1}) = Cardinality(before) + 1
      BY <2>2, FS_AddElement
    <3>2. /\ Cardinality(after) <= Cardinality(before \cup {n + 1})
          /\ Cardinality(after) \in Nat
      BY <2>1, <3>1, FS_Subset, FS_CardinalityType
    <3> QED BY <1>9, <2>2, <3>1, <3>2, OllamaAttemptsAssumption DEF before
  <2>4. Elapsed(k) <= MaxMinutes + Overrun /\ Elapsed(Front(k)) < MaxMinutes
    BY <1>4, <1>8, <1>9, <1>15, OllamaAttemptsAssumption
  <2> QED BY <2>3, <2>4 DEF BudgetIsKept
<1>12. OneBlocks(k)
  BY <1>2, <1>4, <1>6 DEF OneBlocks, Blocks
<1>13. NothingIsTriedAgain(k)
  BY <1>0, <1>2, <1>4, <1>6, <1>7
     DEF NothingIsTriedAgain, Inferences, GateOpen, NotTried, Previous, Blocks
<1>14. VariantsAreApart(k)
  <2>1. /\ job.variant = "compact" => \A i \in 1 .. n : j[i].job.variant = "compact"
        /\ \A i \in 1 .. n : j[i].job.variant = "compact" => job.variant = "compact"
        /\ job.variant # "none" /\ job.scenario = "S6" =>
             \E i \in 1 .. n : /\ j[i].status = "completed"
                               /\ j[i].job.scenario = "S4" /\ j[i].job.variant = job.variant
    BY <1>4 DEF GateOpen, VariantFits, HasCompleted
  <2> SUFFICES ASSUME NEW i \in 1 .. (n + 1)
      PROVE  /\ k[i].job.variant = "compact" =>
                   \A m \in 1 .. (n + 1) : k[m].job.variant = "compact"
             /\ k[i].job.variant # "none" /\ k[i].job.scenario = "S6" =>
                   \E m \in 1 .. (i - 1) :
                      /\ k[m].status = "completed" /\ k[m].job.scenario = "S4"
                      /\ k[m].job.variant = k[i].job.variant
    BY <1>6 DEF VariantsAreApart
  <2>2. CASE i = n + 1
    BY <1>4, <1>6, <1>7, <2>1, <2>2
  <2>3. CASE i \in 1 .. n
    <3>1. k[i].job.variant = "compact" => \A m \in 1 .. (n + 1) : k[m].job.variant = "compact"
      <4> SUFFICES ASSUME k[i].job.variant = "compact", NEW m \in 1 .. (n + 1)
                   PROVE  k[m].job.variant = "compact"
        OBVIOUS
      <4>1. j[i].job.variant = "compact"
        BY <1>6, <2>3
      <4>2. CASE m = n + 1
        BY <1>6, <1>7, <2>1, <2>3, <4>1, <4>2
      <4>3. CASE m \in 1 .. n
        BY <1>0, <1>4, <1>6, <2>3, <4>1, <4>3 DEF VariantsAreApart
      <4> QED BY <1>4, <4>2, <4>3
    <3>2. k[i].job.variant # "none" /\ k[i].job.scenario = "S6" =>
             \E m \in 1 .. (i - 1) :
                /\ k[m].status = "completed" /\ k[m].job.scenario = "S4"
                /\ k[m].job.variant = k[i].job.variant
      BY <1>0, <1>4, <1>6, <2>3 DEF VariantsAreApart
    <3> QED BY <3>1, <3>2
  <2> QED BY <1>4, <2>2, <2>3
<1>16. IsLast(k, n + 1)
  BY <1>4, <1>6, <1>7, <1>8, <1>9 DEF IsLast
<1> QED BY <1>2, <1>4, <1>10, <1>11, <1>12, <1>13, <1>14, <1>16 DEF JournalInv, k

\* An attempt is announced: the gate of the file was open, so no worker belongs
\* to it, Ollama works for none of its attempts, and each of them has its end.
LEMMA AnnounceStep ==
  ASSUME DriverInv, Announce
  PROVE  DriverInv'
<1> DEFINE j == journals[path]
           new == [job |-> Head(plan), status |-> "started", cleanup |-> "none", minutes |-> 0]
<1> PICK name, begun : /\ name = <<path, Len(j) + 1>>
                       /\ begun = [attempt |-> name, phase |-> "begun", cleanup |-> "no_inference"]
  OBVIOUS
<1>0. DOMAIN journals = Files /\ path \in Files /\ (\A f \in Files : JournalInv(journals[f]))
      /\ WorkersKnown /\ ServerIsGuarded
  BY DEF DriverInv, JournalsSound
<1>1. /\ journals' = [journals EXCEPT ![path] = Append(j, new)] /\ path' = path
      /\ current' = Len(j) + 1 /\ server' = server /\ workers' = workers \cup {begun}
      /\ GateOpen(j, Head(plan))
  BY DEF Announce
<1>2. /\ JournalInv(Append(j, new)) /\ IsLast(Append(j, new), Len(j) + 1)
      /\ Len(j) \in Nat /\ \A i \in DOMAIN j : ~Blocks(j, i)
  BY <1>0, <1>1, AnnouncedJournal
<1>3. /\ DOMAIN journals' = Files /\ journals'[path] = Append(j, new)
      /\ \A f \in Files \ {path} : journals'[f] = journals[f]
  BY <1>0, <1>1
<1>4. ASSUME NEW a, OnRecord(a), Blocks(journals[a[1]], a[2])
      PROVE  a[1] # path /\ OnRecord(a)' /\ RecordOf(a)' = RecordOf(a) /\ a # name
  <2>1. a[1] # path
    BY <1>2, <1>4 DEF OnRecord
  <2>2. a[1] \in Files \ {path}
    BY <1>4, <2>1 DEF OnRecord
  <2> QED BY <1>3, <1>4, <2>1, <2>2 DEF OnRecord, RecordOf
<1>5. OnRecord(name)' /\ RecordOf(name)'.status = "started"
  <2>1. name[1] = path /\ name[2] = Len(j) + 1 /\ name \in Files \X Nat
    BY <1>0, <1>2
  <2> QED BY <1>2, <1>3, <2>1 DEF OnRecord, RecordOf, IsLast
<1>6. \A w \in workers : /\ OnRecord(w.attempt) /\ Blocks(journals[w.attempt[1]], w.attempt[2])
                         /\ RecordOf(w.attempt).status = "started"
  BY <1>0 DEF WorkersKnown, Blocks, RecordOf
<1>7. name \notin server
  BY <1>0, <1>4 DEF ServerIsGuarded
<1>8. begun \in Worker /\ begun.attempt = name
  BY <1>0, <1>2 DEF Worker, WorkerPhases
<1>9. WorkersKnown'
  <2>1. \A w \in workers : w.attempt # name
    BY <1>4, <1>6
  <2>2. ASSUME NEW w \in workers'
        PROVE  /\ w \in Worker /\ OnRecord(w.attempt)' /\ RecordOf(w.attempt)'.status = "started"
               /\ w.attempt \in server' => w.cleanup = "unknown"
    <3>1. CASE w = begun
      BY <1>1, <1>5, <1>7, <1>8, <3>1
    <3>2. CASE w \in workers
      BY <1>0, <1>1, <1>4, <1>6, <3>2 DEF WorkersKnown
    <3> QED BY <1>1, <3>1, <3>2
  <2>3. \A v, w \in workers' : v.attempt = w.attempt => v = w
    BY <1>0, <1>1, <1>8, <2>1 DEF WorkersKnown
  <2> QED BY <2>2, <2>3 DEF WorkersKnown
<1>10. ServerIsGuarded'
  <2>1. ASSUME NEW a \in server'
        PROVE  OnRecord(a)' /\ Blocks(journals'[a[1]], a[2])
    <3>1. OnRecord(a) /\ Blocks(journals[a[1]], a[2])
      BY <1>0, <1>1, <2>1 DEF ServerIsGuarded
    <3>2. OnRecord(a)' /\ RecordOf(a)' = RecordOf(a)
      BY <1>4, <3>1
    <3> QED BY <3>1, <3>2 DEF Blocks, RecordOf
  <2> QED BY <2>1 DEF ServerIsGuarded, Blocks
<1>11. JournalsSound'
  <2>1. \A f \in Files : JournalInv(journals'[f])
    BY <1>0, <1>2, <1>3
  <2>2. \A f \in Files : JournalInv(journals[f])'
    BY <2>1 DEF JournalInv, JournalTyped, OneBlocks, Blocks, NothingIsTriedAgain, BudgetIsKept,
               VariantsAreApart, Inferences, Elapsed
  <2> QED BY <1>0, <1>1, <1>3, <2>2 DEF JournalsSound
<1>12. CurrentIsLast'
  <2>1. IsLast(journals'[path'], current')
    BY <1>1, <1>2, <1>3
  <2> QED BY <2>1 DEF CurrentIsLast, IsLast, Elapsed
<1> QED BY <1>9, <1>10, <1>11, <1>12 DEF DriverInv

\* A journal stays sound when its last attempt gets its end, which may be as
\* late as the deadline and what it takes to reap the worker.
LEMMA ClosedSound ==
  ASSUME NEW J, NEW j \in Seq(Attempts(J)), NEW k \in Seq(Attempts(J)), JournalInv(j),
         NEW n, IsLast(j, n), Len(k) = Len(j), DOMAIN k = DOMAIN j,
         \A i \in DOMAIN j \ {n} : k[i] = j[i], k[n].job = j[n].job,
         Elapsed(j) + k[n].minutes <= MaxMinutes + Overrun
  PROVE  JournalInv(k)
<1>0. /\ JournalTyped(j) /\ OneBlocks(j) /\ NothingIsTriedAgain(j) /\ BudgetIsKept(j)
      /\ VariantsAreApart(j)
  BY DEF JournalInv
<1>1. Len(j) \in Nat /\ DOMAIN j = 1 .. Len(j) /\ Elapsed(j) \in Nat
  BY <1>0, JournalFacts
<1>3. /\ n = Len(j) /\ n \in 1 .. Len(j) /\ j[n].status = "started" /\ j[n].minutes = 0
      /\ Elapsed(j) < MaxMinutes
  BY <1>1 DEF IsLast
<1>9. \A i \in DOMAIN j : k[i].job = j[i].job
  OBVIOUS
<1>10. Inferences(k) = Inferences(j)
  BY <1>9 DEF Inferences
<1>11. Elapsed(k) = Elapsed(j) + k[n].minutes
  <2> DEFINE m == Len(j) - 1
  <2>1. m \in Nat /\ Len(j) = m + 1 /\ \A i \in 1 .. m : j[i].minutes = k[i].minutes
    BY <1>1, <1>3
  <2>2. Elapsed(k) = Elapsed(j) - j[m + 1].minutes + k[m + 1].minutes
    <3>1. /\ k \in Seq(Attempts(J)) /\ Len(k) = m + 1 /\ Len(j) \in {m, m + 1}
          /\ \A i \in 1 .. m : j[i].minutes = k[i].minutes
      BY <2>1
    <3> HIDE DEF m
    <3> QED BY <2>1, <3>1, ElapsedOfLast, ZenonT(60)
  <2> QED BY <1>1, <1>3, <2>1, <2>2
<1>12. JournalTyped(k)
  BY DEF JournalTyped
<1>13. BudgetIsKept(k)
  <2>1. Front(k) = Front(j) /\ j # << >>
    <3>1. Front(k) = [i \in 1 .. (Len(j) - 1) |-> k[i]] /\ Front(j) = [i \in 1 .. (Len(j) - 1) |-> j[i]]
      BY <1>1, <1>3 DEF Front
    <3>2. \A i \in 1 .. (Len(j) - 1) : k[i] = j[i]
      BY <1>1, <1>3
    <3> QED BY <1>3, <3>1, <3>2
  <2>2. Elapsed(Front(k)) < MaxMinutes /\ Cardinality(Inferences(k)) <= MaxCalls
    BY <1>0, <1>10, <2>1 DEF BudgetIsKept
  <2> QED BY <1>11, <2>2 DEF BudgetIsKept
<1>14. OneBlocks(k)
  BY <1>0, <1>3 DEF OneBlocks, Blocks
<1>15. NothingIsTriedAgain(k)
  <2> SUFFICES ASSUME NEW i \in Inferences(k), NEW m \in Inferences(k), i < m,
                      k[i].job.model = k[m].job.model, k[i].job.config = k[m].job.config
      PROVE  /\ k[i].status = "completed"
             /\ \/ k[i].job.operation # k[m].job.operation
                \/ k[i].job.scenario # k[m].job.scenario
    BY DEF NothingIsTriedAgain
  <2>1. i \in Inferences(j) /\ m \in Inferences(j) /\ i \in DOMAIN j /\ m \in DOMAIN j
    BY <1>10 DEF Inferences
  <2>2. i # n
    BY <1>1, <1>3, <2>1
  <2> QED BY <1>0, <1>9, <2>1, <2>2 DEF NothingIsTriedAgain
<1>16. VariantsAreApart(k)
  <2> SUFFICES ASSUME NEW i \in DOMAIN j
      PROVE  /\ k[i].job.variant = "compact" => \A m \in DOMAIN j : k[m].job.variant = "compact"
             /\ k[i].job.variant # "none" /\ k[i].job.scenario = "S6" =>
                   \E m \in 1 .. (i - 1) :
                      /\ k[m].status = "completed" /\ k[m].job.scenario = "S4"
                      /\ k[m].job.variant = k[i].job.variant
    BY DEF VariantsAreApart
  <2>1. /\ j[i].job.variant = "compact" => \A m \in DOMAIN j : j[m].job.variant = "compact"
        /\ j[i].job.variant # "none" /\ j[i].job.scenario = "S6" =>
             \E m \in 1 .. (i - 1) :
                /\ j[m].status = "completed" /\ j[m].job.scenario = "S4"
                /\ j[m].job.variant = j[i].job.variant
    BY <1>0 DEF VariantsAreApart
  <2>2. \A m \in 1 .. (i - 1) : m \in DOMAIN j \ {n}
    BY <1>1, <1>3
  <2> QED BY <1>9, <2>1, <2>2
<1> QED BY <1>12, <1>13, <1>14, <1>15, <1>16 DEF JournalInv

\* The end of the attempt the driver waits for.
LEMMA CloseStep ==
  ASSUME DriverInv, NEW w \in workers, w.attempt = <<path, current>>, workers' = workers \ {w},
         NEW mark \in {"completed", "error", "killed"},
         NEW cleanup \in {"no_inference", "unknown", "response_completed"},
         NEW minutes \in WallMinutes(w),
         CloseAttempt(mark, cleanup, minutes), w.attempt \in server => cleanup = "unknown"
  PROVE  DriverInv'
<1> DEFINE j == journals[path]
           n == current
<1> PICK ended : ended = [j[n] EXCEPT !.status = mark, !.minutes = minutes, !.cleanup = cleanup]
  OBVIOUS
<1> PICK k : k = [j EXCEPT ![n] = ended]
  OBVIOUS
<1>0. DOMAIN journals = Files /\ path \in Files /\ (\A f \in Files : JournalInv(journals[f]))
      /\ CurrentIsLast /\ WorkersKnown /\ ServerIsGuarded
  BY DEF DriverInv, JournalsSound
<1>1. OnRecord(<<path, n>>) /\ n \in DOMAIN j /\ DOMAIN j = 1 .. Len(j) /\ Len(j) \in Nat
      /\ Elapsed(j) \in Nat
  BY <1>0, JournalFacts DEF WorkersKnown, OnRecord, JournalInv
<1>2. n # 0 /\ IsLast(j, n)
  BY <1>0, <1>1 DEF CurrentIsLast
<1>3. minutes \in Nat /\ Elapsed(j) + minutes <= MaxMinutes + Overrun
  <2>1. Limit(j, JobOf(w)) \in Nat /\ Elapsed(j) + Limit(j, JobOf(w)) <= MaxMinutes
    BY <1>1, <1>2, OllamaAttemptsAssumption DEF Limit, IsLast
  <2> QED BY <1>1, <2>1, OllamaAttemptsAssumption DEF WallMinutes
<1>4. /\ JournalInv(k) /\ DOMAIN k = DOMAIN j
      /\ k[n].cleanup = cleanup /\ \A i \in DOMAIN j \ {n} : k[i] = j[i]
  <2>1. PICK J : j \in Seq(Attempts(J))
    BY <1>0 DEF JournalInv, JournalTyped
  <2>2. JournalInv(j) /\ IsLast(j, n) /\ j[n] \in Attempts(J)
    BY <1>0, <1>1, <1>2, <2>1
  <2>3. /\ ended \in Attempts(J) /\ ended.job = j[n].job
        /\ ended.minutes = minutes /\ ended.cleanup = cleanup
    BY <1>3, <2>2 DEF Attempts
  <2>4. /\ k \in Seq(Attempts(J)) /\ Len(k) = Len(j) /\ DOMAIN k = DOMAIN j
        /\ k[n] = ended /\ \A i \in DOMAIN j \ {n} : k[i] = j[i]
    BY <1>1, <2>1, <2>3
  <2>5. Elapsed(j) + k[n].minutes <= MaxMinutes + Overrun /\ k[n].job = j[n].job
    BY <1>3, <2>3, <2>4
  <2>6. JournalInv(k)
    <3> HIDE DEF j, n
    <3> QED BY ONLY <2>1, <2>2, <2>4, <2>5, ClosedSound
  <2> QED BY <2>3, <2>4, <2>6
<1>5. /\ journals' = [journals EXCEPT ![path] = k] /\ path' = path /\ current' = 0
      /\ server' = server
  <2>1. PICK J : j \in Seq(Attempts(J))
    BY <1>0 DEF JournalInv, JournalTyped
  <2>2. j[n] \in Attempts(J)
    BY <1>1, <2>1
  <2> QED BY <1>0, <1>1, <2>1, <2>2 DEF CloseAttempt, Attempts
<1>6. /\ DOMAIN journals' = Files /\ journals'[path] = k
      /\ \A f \in Files \ {path} : journals'[f] = journals[f]
  BY <1>0, <1>5
<1>7. ASSUME NEW a, OnRecord(a)
      PROVE  OnRecord(a)' /\ (a # w.attempt => RecordOf(a)' = RecordOf(a))
  <2>1. a \in Files \X Nat /\ a[2] \in DOMAIN journals[a[1]] /\ a = <<a[1], a[2]>>
    BY <1>7 DEF OnRecord
  <2>2. CASE a[1] = path
    BY <1>4, <1>6, <2>1, <2>2 DEF OnRecord, RecordOf
  <2>3. CASE a[1] # path
    BY <1>6, <2>1, <2>3 DEF OnRecord, RecordOf
  <2> QED BY <2>2, <2>3
<1>8. WorkersKnown'
  BY <1>0, <1>5, <1>7 DEF WorkersKnown
<1>9. ServerIsGuarded'
  <2>1. ASSUME NEW a \in server
        PROVE  OnRecord(a)' /\ Blocks(journals'[a[1]], a[2])
    <3>1. OnRecord(a) /\ Blocks(journals[a[1]], a[2])
      BY <1>0, <2>1 DEF ServerIsGuarded
    <3>2. CASE a = w.attempt
      <4>1. cleanup = "unknown" /\ a[1] = path /\ a[2] = n
        BY <2>1, <3>2
      <4> QED BY <1>4, <1>6, <1>7, <3>1, <4>1 DEF Blocks
    <3>3. CASE a # w.attempt
      BY <1>7, <3>1, <3>3 DEF Blocks, RecordOf
    <3> QED BY <3>2, <3>3
  <2> QED BY <1>5, <2>1 DEF ServerIsGuarded, Blocks
<1>10. JournalsSound'
  <2>1. \A f \in Files : JournalInv(journals'[f])
    BY <1>0, <1>4, <1>6
  <2>2. \A f \in Files : JournalInv(journals[f])'
    BY <2>1 DEF JournalInv, JournalTyped, OneBlocks, Blocks, NothingIsTriedAgain, BudgetIsKept,
               VariantsAreApart, Inferences, Elapsed
  <2> QED BY <1>0, <1>5, <1>6, <2>2 DEF JournalsSound
<1>11. CurrentIsLast'
  BY <1>5 DEF CurrentIsLast
<1> QED BY <1>8, <1>9, <1>10, <1>11 DEF DriverInv

LEMMA ReportSteps ==
  ASSUME DriverInv, NEW w \in workers, WorkerReports(w) \/ WorkerIsKilled(w)
  PROVE  DriverInv'
<1>1. /\ w.attempt \in server => w.cleanup = "unknown"
      /\ w.cleanup \in {"no_inference", "unknown", "response_completed"}
  BY DEF DriverInv, WorkersKnown, Worker
<1>2. w.attempt = <<path, current>> /\ workers' = workers \ {w}
  BY DEF WorkerReports, WorkerIsKilled
<1>3. CASE WorkerReports(w)
  <2>1. PICK mark \in {"error", "completed"}, minutes \in WallMinutes(w) :
          CloseAttempt(mark, w.cleanup, minutes)
    BY <1>3 DEF WorkerReports
  <2>2. mark \in {"completed", "error", "killed"}
    BY <2>1
  <2> QED BY <1>1, <1>2, <2>1, <2>2, CloseStep
<1>4. CASE WorkerIsKilled(w)
  <2>1. PICK minutes \in WallMinutes(w) : CloseAttempt("killed", "unknown", minutes)
    BY <1>4 DEF WorkerIsKilled
  <2> QED BY <1>2, <2>1, CloseStep
<1> QED BY <1>3, <1>4

LEMMA DriverInvariance == OllamaAttemptsSpec => []DriverInv
<1>1. DriverInv /\ [OllamaAttemptsNext]_driverVars => DriverInv'
  BY QuietSteps, AnnounceStep, ReportSteps DEF OllamaAttemptsNext
<1> QED BY <1>1, DriverInitInv, PTL DEF OllamaAttemptsSpec

\* For any files, models, scenarios, calls and minutes, and although workers are
\* killed and drivers die while Ollama works: one inference of a journal at a
\* time, none that is not on record, no second try, no more calls than allowed
\* and none begun late, variants apart (history, execute).
THEOREM DriverKeepsGate == OllamaAttemptsSpec => []GateHolds
<1>1. DriverInv => GateHolds
  <2> SUFFICES ASSUME DriverInv, NEW a \in server, NEW b \in server, a[1] = b[1] PROVE a = b
    BY DEF DriverInv, JournalsSound, JournalInv, ServerIsGuarded, GateHolds
  <2>1. /\ a \in Files \X Nat /\ b \in Files \X Nat
        /\ a[2] \in DOMAIN journals[a[1]] /\ b[2] \in DOMAIN journals[a[1]]
        /\ Blocks(journals[a[1]], a[2]) /\ Blocks(journals[a[1]], b[2]) /\ OneBlocks(journals[a[1]])
    BY DEF DriverInv, JournalsSound, JournalInv, ServerIsGuarded, OnRecord
  <2>2. a[2] = b[2]
    BY <2>1 DEF OneBlocks
  <2> QED BY <2>1, <2>2
<1> QED BY <1>1, DriverInvariance, PTL

-----------------------------------------------------------------------------
(* The checks of answers that cite their sources.                          *)

LEMMA SmallSeqIsSeq ==
  ASSUME NEW S, NEW n \in Nat, NEW s \in SmallSeq(S, n)
  PROVE  s \in Seq(S) /\ Len(s) \in Nat /\ DOMAIN s = 1 .. Len(s)
<1>1. PICK k \in 0 .. n : s \in [1 .. k -> S]
  BY DEF SmallSeq
<1> QED BY <1>1

\* A compact answer and the baseline answer it abbreviates.
LEMMA CompactExpands ==
  ASSUME NEW a \in CompactAnswers, NEW mark \in Statuses, CompactAccepted(a, mark)
  PROVE  GroundedAccepted(Expanded(a), mark)
<1> DEFINE n == Len(a.observations)
           m == Len(a.applications)
           lines == [i \in 1 .. m |-> a.applications[i].lines]
           e == Expanded(a)
<1>1. /\ a.observations \in Seq(LineLists) /\ n \in Nat /\ DOMAIN a.observations = 1 .. n
      /\ m \in Nat /\ DOMAIN a.applications = 1 .. m
  BY SmallSeqIsSeq DEF CompactAnswers
<1>n. n \in Nat /\ m \in Nat /\ n = Len(a.observations)
  BY <1>1
<1>2. /\ \A i \in 1 .. n : LinesAreValid(a.observations[i])
      /\ \A i \in 1 .. m : LinesAreValid(a.applications[i].lines) /\ CitesExactly(a.applications[i].cites)
      /\ mark # "candidates_provided" => a.applications = << >>
      /\ (mark # "candidates_provided" \/ a.applications = << >> \/ a.observations = << >>) => a.limited
  BY <1>1 DEF CompactAccepted
<1>3. /\ e.observations = a.observations \o lines /\ e.limited = a.limited
      /\ e.rules = [i \in 1 .. m |-> a.applications[i].cites]
      /\ e.applications = [i \in 1 .. m |-> [observations |-> <<n + i>>, rules |-> <<i>>]]
  BY <1>1 DEF Expanded
<1>4. /\ Len(e.observations) = n + m /\ DOMAIN e.observations = 1 .. (n + m)
      /\ \A i \in 1 .. n : e.observations[i] = a.observations[i]
      /\ \A i \in 1 .. m : e.observations[n + i] = a.applications[i].lines
  <2>1. lines \in Seq({a.applications[i].lines : i \in 1 .. m}) /\ Len(lines) = m
    BY <1>1
  <2> DEFINE L == LineLists \cup {a.applications[i].lines : i \in 1 .. m}
  <2>2. a.observations \in Seq(L) /\ lines \in Seq(L)
    BY <1>1
  <2>3. \A i \in 1 .. m : lines[i] = a.applications[i].lines
    OBVIOUS
  <2> HIDE DEF lines, L, m
  <2>4. e.observations \in Seq(L) /\ Len(e.observations) = n + m
    <3> DEFINE o == a.observations
    <3>1. o \in Seq(L) /\ lines \in Seq(L) /\ Len(lines) = m /\ Len(o) = n
      BY <2>1, <2>2
    <3> HIDE DEF o, n
    <3>2. o \o lines \in Seq(L) /\ Len(o \o lines) = n + m
      BY <3>1
    <3> QED BY <1>3, <3>2 DEF o
  <2>5. \A i \in 1 .. n : e.observations[i] = a.observations[i]
    BY <1>3, <1>n, <2>1, <2>2
  <2>6. \A i \in 1 .. m : e.observations[n + i] = lines[i]
    BY <1>3, <1>n, <2>1, <2>2
  <2> QED BY <2>3, <2>4, <2>5, <2>6
<1>5. Len(e.rules) = m /\ DOMAIN e.rules = 1 .. m /\ Len(e.applications) = m /\ DOMAIN e.applications = 1 .. m
  BY <1>1, <1>3
<1> HIDE DEF e, n, m
<1>6. \A i \in DOMAIN e.observations : LinesAreValid(e.observations[i])
  <2> SUFFICES ASSUME NEW i \in 1 .. (n + m) PROVE LinesAreValid(e.observations[i])
    BY <1>4
  <2>1. CASE i \in 1 .. n
    BY <1>2, <1>4, <2>1
  <2>2. CASE i \notin 1 .. n
    <3>1. i - n \in 1 .. m /\ n + (i - n) = i
      BY <1>n, <2>2
    <3> QED BY <1>2, <1>4, <3>1
  <2> QED BY <2>1, <2>2
<1>7. \A i \in DOMAIN e.rules : CitesExactly(e.rules[i])
  BY <1>2, <1>3, <1>5
<1>8. \A i \in DOMAIN e.applications :
        /\ RefersTo(e.applications[i].observations, Len(e.observations))
        /\ RefersTo(e.applications[i].rules, Len(e.rules))
  <2> SUFFICES ASSUME NEW i \in 1 .. m
      PROVE  RefersTo(<<n + i>>, n + m) /\ RefersTo(<<i>>, m)
    BY <1>3, <1>4, <1>5, <1>n
  <2>1. ASSUME NEW k \in Nat, NEW x \in 1 .. k PROVE RefersTo(<<x>>, k)
    BY <2>1 DEF RefersTo, IsInjective, ToSet
  <2>2. n + i \in 1 .. (n + m) /\ n + m \in Nat
    BY <1>n
  <2> QED BY <1>n, <2>1, <2>2
<1>9. mark # "candidates_provided" => e.rules = << >> /\ e.applications = << >>
  BY <1>1, <1>2, <1>3
<1>10. (mark # "candidates_provided" \/ e.rules = << >> \/ e.observations = << >>) => e.limited
  <2>1. e.rules = << >> => m = 0
    BY <1>5, <1>n
  <2>2. e.observations = << >> => n = 0
    BY <1>n, <1>4
  <2>3. (m = 0 => a.applications = << >>) /\ (n = 0 => a.observations = << >>)
    BY <1>1 DEF n, m
  <2> QED BY <1>2, <1>3, <2>1, <2>2, <2>3
<1>11. GroundedAccepted(e, mark)
  BY <1>6, <1>7, <1>8, <1>9, <1>10 DEF GroundedAccepted
<1> QED BY <1>11 DEF e

\* A rule of a grounded answer cites selected text, in the chunk it names.
LEMMA RulesCiteContext ==
  ASSUME NEW a, NEW mark, GroundedAccepted(a, mark), NEW r \in ToSet(a.rules), NEW i \in DOMAIN r
  PROVE  r[i].chunk \in Selected /\ r[i].quote \in ExcerptsIn(r[i].chunk)
BY DEF GroundedAccepted, CitesExactly, Exact, ToSet

LEMMA ObservationsArePlain ==
  ASSUME NEW a \in GroundedAnswers, GroundedAccepted(a, "not_requested")
  PROVE  PlainAccepted([facts |-> a.observations, limited |-> a.limited])
BY DEF GroundedAccepted, PlainAccepted

\* What day 24 lets through is a grounded answer of one rule.
LEMMA ValidatedIsGrounded ==
  ASSUME NEW a \in Day24Answers, ValidatedAccepted(a)
  PROVE  GroundedAccepted([observations |-> <<>>, rules |-> <<a.cites>>,
                           applications |-> <<>>, limited |-> TRUE], "candidates_provided")
<1>1. CitesExactly(a.cites)
  BY DEF ValidatedAccepted, CitesExactly
<1> QED BY <1>1 DEF GroundedAccepted

LEMMA PlainLinesExist ==
  ASSUME NEW a \in PlainAnswers, PlainAccepted(a), NEW i \in DOMAIN a.facts
  PROVE  ToSet(a.facts[i]) \subseteq 1 .. LineCount
<1>1. a.facts[i] \in LineLists
  <2>1. a.facts \in Seq(LineLists) /\ DOMAIN a.facts = 1 .. Len(a.facts)
    BY SmallSeqIsSeq DEF PlainAnswers
  <2> QED BY <2>1
<1>2. \A n \in DOMAIN a.facts[i] : a.facts[i][n] \in Nat
  BY <1>1, CitedAnswersAssumption DEF LineLists
<1> QED BY <1>2, CitedAnswersAssumption DEF PlainAccepted, LinesAreValid, ToSet

PapersInv == paper \in Papers /\ (verdict = "accepted" => Accepted)

\* The four parsers agree: for any chunks, context, quotes and file, what the
\* compact contract, the grounded parser, day 24 or the plain parser accepts is
\* acceptable to the others and cites what is there.
THEOREM ParsersAgree == CitedAnswersSpec => []CitationsAgree
<1>1. CitedAnswersInit => PapersInv
  BY DEF CitedAnswersInit, PapersInv
<1>2. PapersInv /\ [JudgeAnswer]_papersVars => PapersInv'
  BY DEF PapersInv, JudgeAnswer, papersVars, Accepted
<1>3. PapersInv => CitationsAgree
  <2> SUFFICES ASSUME paper \in Papers, Accepted PROVE CitationsAgree
    BY DEF PapersInv, CitationsAgree
  <2> DEFINE a == paper.answer
  <2>1. CASE paper \in [shape : {"compact"}, answer : CompactAnswers, status : Statuses]
    <3>1. paper.shape = "compact" /\ a \in CompactAnswers /\ paper.status \in Statuses
      BY <2>1
    <3>2. CompactAccepted(a, paper.status)
      BY <3>1 DEF Accepted
    <3>3. GroundedAccepted(Expanded(a), paper.status)
      BY <3>1, <3>2, CompactExpands
    <3> QED BY <3>1, <3>3 DEF CitationsAgree
  <2>2. CASE paper \in [shape : {"grounded"}, answer : GroundedAnswers, status : Statuses]
    <3>1. paper.shape = "grounded" /\ a \in GroundedAnswers
      BY <2>2
    <3>2. GroundedAccepted(a, paper.status)
      BY <3>1 DEF Accepted
    <3>3. paper.status = "not_requested" =>
            PlainAccepted([facts |-> a.observations, limited |-> a.limited])
      BY <3>1, <3>2, ObservationsArePlain
    <3>4. \A r \in ToSet(a.rules) : \A i \in DOMAIN r :
            r[i].chunk \in Selected /\ r[i].quote \in ExcerptsIn(r[i].chunk)
      BY <3>2, RulesCiteContext
    <3> QED BY <3>1, <3>3, <3>4 DEF CitationsAgree
  <2>3. CASE paper \in [shape : {"day24"}, answer : Day24Answers, status : {"candidates_provided"}]
    <3>1. paper.shape = "day24" /\ a \in Day24Answers /\ paper.status = "candidates_provided"
      BY <2>3
    <3>2. ValidatedAccepted(a)
      BY <3>1 DEF Accepted
    <3>3. GroundedAccepted([observations |-> <<>>, rules |-> <<a.cites>>,
                            applications |-> <<>>, limited |-> TRUE], paper.status)
      BY <3>1, <3>2, ValidatedIsGrounded
    <3> QED BY <3>1, <3>3 DEF CitationsAgree
  <2>4. CASE paper \in [shape : {"plain"}, answer : PlainAnswers, status : {"not_requested"}]
    <3>1. paper.shape = "plain" /\ a \in PlainAnswers
      BY <2>4
    <3>2. PlainAccepted(a)
      BY <3>1 DEF Accepted
    <3>3. \A i \in DOMAIN a.facts : ToSet(a.facts[i]) \subseteq 1 .. LineCount
      BY <3>1, <3>2, PlainLinesExist
    <3> QED BY <3>1, <3>3 DEF CitationsAgree
  <2> QED BY <2>1, <2>2, <2>3, <2>4 DEF Papers
<1> QED BY <1>1, <1>2, <1>3, PTL DEF CitedAnswersSpec

-----------------------------------------------------------------------------
(* The experiments and the folder they leave.                              *)

Outcomes == Embeddings \cup Answers \cup {"failed", "timeout"}
PhaseRecord ==
  [status : {"not_dispatched", "unknown", "completed", "failed", "error"}, attempted : BOOLEAN,
   outcome : Outcomes \cup {"none"}]
QuestionRecord ==
  [phases : [PhaseNames -> PhaseRecord], found : {"near", "far", "not_computed", "error"},
   processing : {"accepted", "pending", "unknown", "validation_failed", "failed", "error", "completed"},
   origin : {"runtime_gate", "none", "model_semantic"},
   commit : {"not_attempted", "unknown", "committed"}]
Records == [Asked -> QuestionRecord]
Folders ==
  [run : {"partial", "finished"}, compare : {"not_dispatched", "partial", "finished"},
   records : Records, hash : {"none"} \cup Records, lost : {{}}]
Steps == {"prepare", "review", "decide", "call", "vector", "search", "reply", "validate", "commit", "store",
          "committed", "reopen", "stopped"}
Positions == Nat \ {0}

\* The folder holds what the process holds, and nothing was ever lost.
FolderTyped ==
  /\ pipeline \in Pipelines /\ stage \in {"none", "run", "compare"} /\ step \in Steps
  /\ place \in [script : Positions, number : Positions, phase : Positions]
  /\ record \in Records
  /\ evidence \in Folders
  /\ evidence.records = record
  /\ truth \in [Asked -> [PhaseNames -> Seq(Outcomes)]]

\* The process is on the route of its stage; behind the scripts it does nothing.
PlaceOnRoute ==
  stage # "none" =>
    /\ place.script \in DOMAIN Scripts => /\ place.number \in DOMAIN Scripts[place.script]
                                          /\ place.phase \in DOMAIN Route
    /\ place.script \notin DOMAIN Scripts => step = "decide"
    /\ stage = "compare" => pipeline = "rewrite" /\ evidence.run = "finished"
    /\ stage = "run" => evidence.run = "partial"

\* What a phase's record may say when the provider was asked and answered so.
HonestPhase(said, asked) ==
  /\ Len(asked) <= 1
  /\ asked # <<>> => said.attempted
  /\ said.status = "completed" => \E t \in Answers \cup {"near", "far"} : asked = <<t>>
  /\ said.status = "failed" => asked = <<"failed">>

PhasesHonest == \A q \in Asked, p \in PhaseNames : HonestPhase(record[q].phases[p], truth[q][p])

\* Phase k of question q comes after a place.
Beyond(pl, q, k) ==
  \/ q[1] > pl.script
  \/ q[1] = pl.script /\ q[2] > pl.number
  \/ q = <<pl.script, pl.number>> /\ k > pl.phase

\* No phase is called twice: those ahead were not called yet.
NothingAheadCalled ==
  stage # "none" => \A q \in Asked, k \in DOMAIN Route :
    Beyond(place, q, k) \/ (q = Question /\ k = place.phase /\ step \in {"decide", "call"})
      => truth[q][Route[k]] = <<>>

InCall == step \in {"call", "vector", "search", "reply"}

\* What the process knows of the phase it is at.
StepKnows ==
  Walking =>
    /\ InCall \/ step = "validate" => Here.phases[Phase].attempted
    /\ step \in {"call", "vector"} => Here.phases[Phase].status = "unknown"
    /\ step \in {"vector", "search", "reply", "validate"} =>
         \E h \in OutcomesOf(Phase) : truth[Question][Phase] = <<h>>
    /\ step \in {"vector", "search"} => Phase = "retrieval"
    /\ step = "search" => Heard \in {"near", "far"}
    /\ step = "reply" => Phase # "retrieval"
    /\ step = "validate" =>
         /\ Phase = "generation"
         /\ Here.phases[Phase].status = PhaseStatus(Heard) /\ Here.phases[Phase].outcome = Heard
    /\ step \in {"commit", "store", "committed", "reopen", "stopped"} => pipeline = "stateful"
    /\ step = "review" => pipeline = "grounded"

\* A call that stays unknown timed out or gave a vector that cannot be used.
UnknownIsExplained ==
  pipeline # "stateful" /\ (stage # "none" \/ evidence.run = "finished") =>
    \A q \in Asked, p \in PhaseNames \ {"enhanced"} :
      record[q].phases[p].status = "unknown" =>
        \/ truth[q][p] \in {<<"timeout">>, <<"bad">>}
        \/ stage = "run" /\ Walking /\ InCall /\ q = Question /\ p = Phase

\* Day 25: the questions that were not touched yet.
Untouched(q) ==
  \/ q[1] > place.script \/ (q[1] = place.script /\ q[2] > place.number)
  \/ q = Question /\ step = "decide" /\ place.phase = 1

\* Day 25: what holds of the turn at work.
TurnAtWork ==
  /\ \A n \in 1 .. (place.number - 1) : <<place.script, n>> \in stored
  /\ step \in {"decide", "call", "vector", "search", "reply", "validate", "commit"}
       => Here.commit = "not_attempted"
  /\ place.phase = 1 => Here.phases["generation"] = NotDispatched
  /\ place.phase = 2 => Here.phases["retrieval"].status = "completed"
  /\ step \in {"commit", "store", "committed", "reopen"} =>
       \A p \in PhaseNames : Here.phases[p].status # "unknown"
  /\ step \in {"store", "committed"} => Here.commit = "unknown"
  /\ step \in {"committed", "reopen"} => Question \in stored

\* Day 25: a turn is committed after all its phases are known, and the turns of
\* a scenario before the one at work are in the store.
TurnsInOrder ==
  pipeline = "stateful" =>
    /\ \A q \in Asked : record[q].commit = "committed" =>
         \A p \in PhaseNames : record[q].phases[p].status # "unknown"
    /\ \A q \in Asked, p \in PhaseNames \ {"retrieval", "generation"} : record[q].phases[p] = NotDispatched
    /\ evidence.run = "finished" => AllCommitted
    /\ stage # "none" => \A q \in Asked : Untouched(q) => record[q] = NewRecord
    /\ Walking => TurnAtWork

\* Day 24: what load_saved asks of the records.
RecordsReadable == \A q \in Asked : RecordReadable(q)

\* Day 24: while the generation is under way the result is not there yet.
GroundedInOrder ==
  pipeline = "grounded" =>
    /\ RecordsReadable
    /\ Walking /\ step \in {"call", "reply", "validate"} =>
         Here.processing = "unknown" /\ Here.found # "far"

CommitsAreStored ==
  \A q \in Asked :
    /\ record[q].commit = "committed" => q \in stored
    /\ q \in stored => record[q].commit # "not_attempted"

FolderInv ==
  /\ FolderTyped /\ PlaceOnRoute /\ PhasesHonest /\ NothingAheadCalled /\ StepKnows
  /\ UnknownIsExplained /\ TurnsInOrder /\ GroundedInOrder /\ CommitsAreStored
  /\ pipeline = "rewrite" => RewriteReadable

-----------------------------------------------------------------------------

\* Until the folder is set up no call was made and no turn begun.
NothingBegan ==
  /\ evidence.run = "partial" /\ \A q \in Asked, p \in PhaseNames : truth[q][p] = <<>>
  /\ pipeline = "stateful" => \A q \in Asked : record[q] = NewRecord

Prepared ==
  /\ review \in [Asked -> {"none", "N/A", "pending", "unavailable"}]
  /\ step = "prepare" \/ ~IsSetUp => NothingBegan
  /\ ~IsSetUp => stage = "none" \/ step = "prepare"

\* Day 24: a result the gate did not give came from a reply.
AcceptedWasAnswered ==
  pipeline = "grounded" =>
    \A q \in Asked : record[q].processing = "accepted" /\ record[q].found # "far"
                        => truth[q]["generation"] # <<>>

\* Day 24: the review is behind only in the question at work, between the two
\* writes or where the run stopped between them.
ReviewFollows ==
  pipeline = "grounded" =>
    \A q \in Asked : review[q] \notin {"none", Support(record[q])} =>
      /\ q = Question /\ review[q] = "unavailable" /\ evidence.run = "partial"
      /\ record[q].found # "far" /\ record[q].phases["generation"].attempted
      /\ stage # "none" => step = "review"

ReviewInv == Prepared /\ AcceptedWasAnswered /\ ReviewFollows

LEMMA AskedPairs ==
  /\ \A q \in Asked : /\ q = <<q[1], q[2]>> /\ q[1] \in DOMAIN Scripts
                      /\ q[2] \in DOMAIN Scripts[q[1]] /\ q[1] \in Nat /\ q[2] \in Nat
  /\ \A s \in DOMAIN Scripts : \A n \in DOMAIN Scripts[s] : <<s, n>> \in Asked
  /\ \A s \in DOMAIN Scripts : s \in Nat /\ DOMAIN Scripts[s] \subseteq Nat
<1>1. \A s \in DOMAIN Scripts : s \in Nat /\ DOMAIN Scripts[s] \subseteq Nat
  BY RagExperimentsAssumption
<1> QED BY <1>1 DEF Asked

LEMMA RouteFacts ==
  ASSUME FolderTyped, stage # "none", stage = "compare" => pipeline = "rewrite"
  PROVE  /\ Len(Route) \in Nat \ {0} /\ DOMAIN Route = 1 .. Len(Route)
         /\ \A k \in DOMAIN Route : Route[k] \in PhaseNames
         /\ \A j, k \in DOMAIN Route : Route[j] = Route[k] => j = k
         /\ stage = "compare" => Route = <<"enhanced">>
         /\ stage = "run" => \A k \in DOMAIN Route : Route[k] # "enhanced"
         /\ pipeline = "stateful" => Route = <<"retrieval", "generation">>
         /\ pipeline = "grounded" => Route = <<"generation">>
         /\ pipeline \notin {"stateful", "grounded"} => \A k \in DOMAIN Route : Route[k] # "generation"
<1>1. /\ pipeline \in {"eval", "search", "direct", "rag", "rewrite", "grounded", "stateful"}
      /\ stage \in {"run", "compare"}
  BY DEF FolderTyped, Pipelines
<1>2. CASE pipeline = "eval"
  <2>1. Route = <<"retrieval", "direct", "rag">> BY <1>2 DEF Route
  <2> QED BY <1>1, <1>2, <2>1 DEF PhaseNames
<1>3. CASE pipeline = "search"
  <2>1. Route = <<"retrieval">> BY <1>3 DEF Route
  <2> QED BY <1>1, <1>3, <2>1 DEF PhaseNames
<1>4. CASE pipeline = "direct"
  <2>1. Route = <<"direct">> BY <1>4 DEF Route
  <2> QED BY <1>1, <1>4, <2>1 DEF PhaseNames
<1>5. CASE pipeline = "rag"
  <2>1. Route = <<"retrieval", "rag">> BY <1>5 DEF Route
  <2> QED BY <1>1, <1>5, <2>1 DEF PhaseNames
<1>6. CASE pipeline = "rewrite" /\ stage = "compare"
  <2>1. Route = <<"enhanced">> BY <1>6 DEF Route
  <2> QED BY <1>1, <1>6, <2>1 DEF PhaseNames
<1>7. CASE pipeline = "rewrite" /\ stage = "run"
  <2>1. Route = <<"rewrite", "retrieval">> BY <1>7 DEF Route
  <2> QED BY <1>1, <1>7, <2>1 DEF PhaseNames
<1>8. CASE pipeline = "grounded"
  <2>1. Route = <<"generation">> BY <1>8 DEF Route
  <2> QED BY <1>1, <1>8, <2>1 DEF PhaseNames
<1>9. CASE pipeline = "stateful"
  <2>1. Route = <<"retrieval", "generation">> BY <1>9 DEF Route
  <2> QED BY <1>1, <1>9, <2>1 DEF PhaseNames
<1> QED BY <1>1, <1>2, <1>3, <1>4, <1>5, <1>6, <1>7, <1>8, <1>9

\* The question and the phase the process is at.
LEMMA AtWork ==
  ASSUME FolderInv, Walking
  PROVE  /\ Question \in Asked /\ Question = <<place.script, place.number>>
         /\ place.phase \in DOMAIN Route /\ Phase \in PhaseNames /\ Phase = Route[place.phase]
         /\ Here \in QuestionRecord /\ Here = record[Question]
         /\ place.script \in Nat /\ place.number \in Nat /\ place.phase \in Nat
<1>1. /\ place.script \in DOMAIN Scripts /\ place.number \in DOMAIN Scripts[place.script]
      /\ place.phase \in DOMAIN Route /\ stage # "none" /\ FolderTyped
      /\ stage = "compare" => pipeline = "rewrite"
  BY DEF FolderInv, PlaceOnRoute, Walking
<1>2. Question \in Asked
  BY <1>1, AskedPairs DEF Question
<1>3. Phase \in PhaseNames
  BY <1>1, RouteFacts DEF Phase
<1> QED BY <1>1, <1>2, <1>3 DEF FolderTyped, Records, Here, Question, Phase, Positions

\* The phases of each experiment.
LEMMA PhaseFacts ==
  ASSUME FolderInv, Walking
  PROVE  /\ stage \in {"run", "compare"}
         /\ stage = "compare" => Phase = "enhanced" /\ pipeline = "rewrite"
         /\ stage = "run" => Phase # "enhanced"
         /\ pipeline = "grounded" => Phase = "generation"
         /\ Phase = "generation" => pipeline \in {"stateful", "grounded"}
<1>1. FolderTyped /\ stage \in {"run", "compare"} /\ (stage = "compare" => pipeline = "rewrite")
  BY DEF FolderInv, FolderTyped, PlaceOnRoute, Walking
<1>2. place.phase \in DOMAIN Route /\ Phase = Route[place.phase]
  BY AtWork
<1>3. stage = "compare" => Phase = "enhanced" /\ pipeline = "rewrite"
  <2>1. stage = "compare" => Route = <<"enhanced">>
    BY <1>1, RouteFacts
  <2> QED BY <1>1, <1>2, <2>1
<1>4. pipeline = "grounded" => Phase = "generation"
  <2>1. pipeline = "grounded" => Route = <<"generation">>
    BY <1>1, RouteFacts
  <2> QED BY <1>2, <2>1
<1>5. stage = "run" => Phase # "enhanced"
  BY <1>1, <1>2, RouteFacts
<1>6. Phase = "generation" => pipeline \in {"stateful", "grounded"}
  BY <1>1, <1>2, RouteFacts
<1> QED BY <1>1, <1>3, <1>4, <1>5, <1>6

\* Where a walking process may go.
NextPlace(pl) ==
  \/ pl \in {AtNextQuestion, AtNextScript}
  \/ pl = AtNextPhase /\ place.phase < Len(Route)

LEMMA OnwardIsNext == ASSUME TRUE PROVE NextPlace(Onward)
BY DEF NextPlace, Onward

LEMMA NextPlaceFacts ==
  ASSUME FolderInv, Walking, NEW pl, NextPlace(pl)
  PROVE  /\ pl \in [script : Positions, number : Positions, phase : Positions]
         /\ pl.script \in DOMAIN Scripts =>
              pl.number \in DOMAIN Scripts[pl.script] /\ pl.phase \in DOMAIN Route
         /\ \A q \in Asked, k \in DOMAIN Route :
              Beyond(pl, q, k) \/ (q = <<pl.script, pl.number>> /\ k = pl.phase) => Beyond(place, q, k)
<1>1. /\ place \in [script : Positions, number : Positions, phase : Positions]
      /\ place.script \in DOMAIN Scripts /\ place.number \in DOMAIN Scripts[place.script]
      /\ place.phase \in DOMAIN Route /\ stage # "none" /\ FolderTyped
      /\ stage = "compare" => pipeline = "rewrite"
  BY DEF FolderInv, FolderTyped, PlaceOnRoute, Walking
<1>2. Len(Route) \in Nat \ {0} /\ DOMAIN Route = 1 .. Len(Route)
  BY <1>1, RouteFacts
<1>3. \A s \in DOMAIN Scripts : Len(Scripts[s]) \in Nat \ {0} /\ DOMAIN Scripts[s] = 1 .. Len(Scripts[s])
  BY RagExperimentsAssumption
<1>4. \A q \in Asked : q[1] \in Nat /\ q[2] \in Nat
  BY AskedPairs
<1>5. CASE pl = AtNextPhase /\ place.phase < Len(Route)
  BY <1>1, <1>2, <1>4, <1>5 DEF AtNextPhase, Beyond, Positions
<1>6. CASE pl = AtNextScript
  <2>1. pl = [script |-> place.script + 1, number |-> 1, phase |-> 1]
    BY <1>6 DEF AtNextScript
  <2> QED BY <1>1, <1>2, <1>3, <1>4, <2>1 DEF Beyond, Positions
<1>7. CASE pl = AtNextQuestion /\ place.number < Len(Scripts[place.script])
  <2>1. pl = [script |-> place.script, number |-> place.number + 1, phase |-> 1]
    BY <1>1, <1>7 DEF AtNextQuestion
  <2>2. /\ pl.script = place.script /\ pl.number = place.number + 1 /\ pl.phase = 1
        /\ pl \in [script : Positions, number : Positions, phase : Positions]
    BY <1>1, <2>1 DEF Positions
  <2>3. pl.number \in DOMAIN Scripts[pl.script] /\ pl.phase \in DOMAIN Route
    BY <1>1, <1>2, <1>3, <1>7, <2>2 DEF Positions
  <2>4. \A q \in Asked, k \in DOMAIN Route :
          Beyond(pl, q, k) \/ (q = <<pl.script, pl.number>> /\ k = pl.phase) => Beyond(place, q, k)
    BY <1>1, <1>4, <2>2 DEF Beyond, Positions
  <2> QED BY <2>2, <2>3, <2>4
<1> QED BY <1>5, <1>6, <1>7 DEF NextPlace, AtNextQuestion

\* A step of a walking process: it stays where it is in the middle of a phase,
\* or goes to the next place and decides there.
WalkStep ==
  /\ Walking /\ UNCHANGED <<pipeline, stage>> /\ evidence'.run = evidence.run
  /\ \/ place' = place /\ step' \in Steps \ {"decide"}
     \/ NextPlace(place') /\ step' = "decide"

\* Only the phase at work is touched, in the records and at the provider.
OnlyHere ==
  \A q \in Asked, p \in PhaseNames :
    q # Question \/ p # Phase =>
      record'[q].phases[p] = record[q].phases[p] /\ truth'[q][p] = truth[q][p]

LEMMA SameRoute ==
  ASSUME UNCHANGED <<pipeline, stage>>
  PROVE  Route' = Route
BY DEF Route

LEMMA SamePlace ==
  ASSUME UNCHANGED <<pipeline, stage, place>>
  PROVE  Question' = Question /\ Phase' = Phase /\ Walking' = Walking
BY SameRoute DEF Question, Phase, Walking

LEMMA WalkIsTyped ==
  ASSUME FolderInv, WalkStep
  PROVE  /\ pipeline' \in Pipelines /\ stage' \in {"none", "run", "compare"} /\ step' \in Steps
         /\ place' \in [script : Positions, number : Positions, phase : Positions]
<1>1. Walking /\ FolderTyped
  BY DEF FolderInv, WalkStep
<1>2. NextPlace(place') => place' \in [script : Positions, number : Positions, phase : Positions]
  BY <1>1, NextPlaceFacts
<1> QED BY <1>1, <1>2 DEF FolderTyped, WalkStep, Steps

LEMMA WalkStaysOnRoute ==
  ASSUME FolderInv, WalkStep
  PROVE  PlaceOnRoute'
<1>1. Walking /\ PlaceOnRoute /\ stage' = stage /\ pipeline' = pipeline /\ evidence'.run = evidence.run
  BY DEF FolderInv, WalkStep
<1>2. Route' = Route
  BY SameRoute DEF WalkStep
<1>3. CASE place' = place
  BY <1>1, <1>2, <1>3 DEF PlaceOnRoute, Walking
<1>4. CASE NextPlace(place') /\ step' = "decide"
  <2>1. place'.script \in DOMAIN Scripts =>
          place'.number \in DOMAIN Scripts[place'.script] /\ place'.phase \in DOMAIN Route
    BY <1>1, <1>4, NextPlaceFacts
  <2> QED BY <1>1, <1>2, <1>4, <2>1 DEF PlaceOnRoute
<1> QED BY <1>3, <1>4 DEF WalkStep

LEMMA WalkStaysHonest ==
  ASSUME FolderInv, WalkStep, OnlyHere,
         HonestPhase(record'[Question].phases[Phase], truth'[Question][Phase])
  PROVE  PhasesHonest'
BY DEF FolderInv, OnlyHere, PhasesHonest, HonestPhase

LEMMA WalkCallsOnce ==
  ASSUME FolderInv, WalkStep, OnlyHere,
         step' = "call" => truth'[Question][Phase] = <<>>
  PROVE  NothingAheadCalled'
<1>1. Walking /\ NothingAheadCalled /\ stage # "none" /\ FolderTyped /\ stage' = stage
      /\ (stage = "compare" => pipeline = "rewrite")
  BY DEF FolderInv, WalkStep, Walking, PlaceOnRoute
<1>2. Route' = Route
  BY SameRoute DEF WalkStep
<1>3. \A j, k \in DOMAIN Route : Route[k] \in PhaseNames /\ (Route[j] = Route[k] => j = k)
  BY <1>1, RouteFacts
<1>4. /\ place.phase \in DOMAIN Route /\ Phase = Route[place.phase] /\ place.phase \in Nat
      /\ Question = <<place.script, place.number>> /\ place.script \in Nat /\ place.number \in Nat
  BY <1>1, AtWork
<1>5. \A q \in Asked, k \in DOMAIN Route :
        Beyond(place, q, k) => (q # Question \/ Route[k] # Phase)
  <2> SUFFICES ASSUME NEW q \in Asked, NEW k \in DOMAIN Route, Beyond(place, q, k),
                      q = Question, Route[k] = Phase
               PROVE  FALSE
    OBVIOUS
  <2>1. k = place.phase
    BY <1>3, <1>4
  <2>2. q[1] = place.script /\ q[2] = place.number
    BY <1>4
  <2> QED BY <1>4, <2>1, <2>2 DEF Beyond
<1>6. \A q \in Asked, k \in DOMAIN Route : Beyond(place, q, k) => truth'[q][Route[k]] = <<>>
  BY <1>1, <1>3, <1>5 DEF OnlyHere, NothingAheadCalled
<1>7. CASE place' = place /\ step' # "decide"
  <2>1. \A q \in Asked, k \in DOMAIN Route :
          q = Question /\ k = place.phase /\ step' = "call" => truth'[q][Route[k]] = <<>>
    BY <1>4
  <2>2. \A q \in Asked, k \in DOMAIN Route' :
          Beyond(place', q, k) \/ (q = Question' /\ k = place'.phase /\ step' \in {"decide", "call"})
            => truth'[q][Route'[k]] = <<>>
    BY <1>2, <1>6, <1>7, <2>1 DEF Question
  <2> QED BY <2>2 DEF NothingAheadCalled, Beyond
<1>8. CASE NextPlace(place')
  <2>1. \A q \in Asked, k \in DOMAIN Route :
          Beyond(place', q, k) \/ (q = <<place'.script, place'.number>> /\ k = place'.phase)
            => Beyond(place, q, k)
    BY <1>1, <1>8, NextPlaceFacts
  <2>2. \A q \in Asked, k \in DOMAIN Route' :
          Beyond(place', q, k) \/ (q = Question' /\ k = place'.phase /\ step' \in {"decide", "call"})
            => truth'[q][Route'[k]] = <<>>
    BY <1>2, <1>6, <2>1 DEF Question
  <2> QED BY <2>2 DEF NothingAheadCalled, Beyond
<1> QED BY <1>7, <1>8 DEF WalkStep

LEMMA WalkExplains ==
  ASSUME FolderInv, WalkStep, OnlyHere,
         record'[Question].phases[Phase].status = "unknown" =>
           \/ truth'[Question][Phase] \in {<<"timeout">>, <<"bad">>}
           \/ Phase = "enhanced" \/ pipeline = "stateful"
           \/ place' = place /\ step' \in {"call", "vector", "search", "reply"}
  PROVE  UnknownIsExplained'
<1> SUFFICES ASSUME pipeline # "stateful",
                    NEW q \in Asked, NEW p \in PhaseNames \ {"enhanced"},
                    record'[q].phases[p].status = "unknown"
             PROVE  \/ truth'[q][p] \in {<<"timeout">>, <<"bad">>}
                    \/ stage' = "run" /\ Walking' /\ InCall' /\ q = Question' /\ p = Phase'
  BY DEF UnknownIsExplained, WalkStep
<1>1. Walking /\ stage \in {"run", "compare"} /\ UnknownIsExplained /\ FolderTyped /\ stage' = stage
      /\ (stage = "compare" => pipeline = "rewrite")
  BY DEF FolderInv, FolderTyped, WalkStep, Walking, PlaceOnRoute
<1>2. CASE q # Question \/ p # Phase
  <2>1. record[q].phases[p].status = "unknown" /\ truth'[q][p] = truth[q][p]
    BY <1>2 DEF OnlyHere
  <2>2. truth[q][p] \in {<<"timeout">>, <<"bad">>}
    BY <1>1, <1>2, <2>1 DEF UnknownIsExplained
  <2> QED BY <2>1, <2>2
<1>3. CASE q = Question /\ p = Phase
  <2>1. CASE place' = place /\ step' \in {"call", "vector", "search", "reply"}
    <3>1. stage # "compare"
      <4> SUFFICES ASSUME stage = "compare" PROVE FALSE
        OBVIOUS
      <4>1. Route = <<"enhanced">> /\ place.phase \in DOMAIN Route /\ Phase = Route[place.phase]
        BY <1>1, RouteFacts, AtWork
      <4> QED BY <1>3, <4>1
    <3>2. Question' = Question /\ Phase' = Phase /\ Walking' = Walking
      BY <2>1, SamePlace DEF WalkStep
    <3> QED BY <1>1, <1>3, <2>1, <3>1, <3>2 DEF InCall
  <2> QED BY <1>3, <2>1
<1> QED BY <1>2, <1>3

\* Where the records keep their stored and announced turns.
LEMMA WalkKeepsCommits ==
  ASSUME FolderInv, UNCHANGED stored,
         \A q \in Asked : record'[q].commit = record[q].commit
  PROVE  CommitsAreStored'
BY DEF FolderInv, CommitsAreStored

\* Day 23: during the comparison only the enhanced answers change.
Frozen(r) == [r EXCEPT !.phases["enhanced"] = NotDispatched]

LEMMA FrozenStays ==
  ASSUME NEW r \in QuestionRecord, Phase = "enhanced", NEW mark, NEW outcome
  PROVE  Frozen(WithPhase(r, mark, outcome)) = Frozen(r)
<1> DEFINE said == [status |-> mark, attempted |-> TRUE, outcome |-> outcome]
           phases == r.phases
           w == WithPhase(r, mark, outcome)
<1>1. w = [r EXCEPT !.phases = [phases EXCEPT !["enhanced"] = said]]
  BY DEF WithPhase
<1>2. w.phases = [phases EXCEPT !["enhanced"] = said]
  BY <1>1 DEF QuestionRecord
<1>3. [w.phases EXCEPT !["enhanced"] = NotDispatched] = [phases EXCEPT !["enhanced"] = NotDispatched]
  BY <1>2 DEF QuestionRecord
<1> DEFINE rest == [phases EXCEPT !["enhanced"] = NotDispatched]
<1>4. Frozen(w) = [w EXCEPT !.phases = rest] /\ Frozen(r) = [r EXCEPT !.phases = rest]
  BY <1>3 DEF Frozen
<1>5. [w EXCEPT !.phases = rest] = [r EXCEPT !.phases = rest]
  <2> HIDE DEF said, rest, phases, w
  <2> QED BY <1>1 DEF QuestionRecord
<1> QED BY <1>4, <1>5

LEMMA WalkKeepsRewrite ==
  ASSUME FolderInv, WalkStep, evidence'.hash = evidence.hash, evidence'.records = record',
         stage = "compare" => \A q \in Asked : Frozen(record'[q]) = Frozen(record[q])
  PROVE  (pipeline = "rewrite" => RewriteReadable)'
<1> SUFFICES ASSUME pipeline = "rewrite", evidence.run = "finished"
             PROVE  HashOf(record') = evidence.hash
  BY DEF WalkStep, RewriteReadable
<1>1. stage = "compare" /\ evidence.records = record /\ HashOf(record) = evidence.hash
  BY DEF FolderInv, FolderTyped, WalkStep, Walking, PlaceOnRoute, RewriteReadable
<1>2. HashOf(record') = HashOf(record)
  BY <1>1 DEF HashOf, Frozen
<1> QED BY <1>1, <1>2

\* Day 24: what load_saved asks of one record.
GroundedRecord(r) ==
  IF r.found = "far"
  THEN r.phases["generation"] = NotDispatched /\ r.processing = "accepted" /\ r.origin = "runtime_gate"
  ELSE IF r.phases["generation"].attempted
       THEN r.processing \in {"accepted", "validation_failed"} =>
              /\ r.phases["generation"].outcome \in Answers
              /\ r.processing = Processed(r.phases["generation"].outcome)
              /\ r.origin = OriginOf(r.phases["generation"].outcome)
       ELSE r.processing # "accepted"

LEMMA ReadablePerRecord ==
  RecordsReadable <=> \A q \in Asked : GroundedRecord(evidence.records[q])
BY DEF RecordsReadable, RecordReadable, GroundedRecord

LEMMA SameReading ==
  ASSUME UNCHANGED pipeline
  PROVE  RecordsReadable' <=> \A q \in Asked : GroundedRecord(evidence'.records[q])
<1>1. \A outcome : PhaseStatus(outcome)' = PhaseStatus(outcome)
  BY DEF PhaseStatus
<1>2. \A outcome : Processed(outcome)' = Processed(outcome) /\ OriginOf(outcome)' = OriginOf(outcome)
  BY <1>1 DEF Processed, OriginOf
<1> QED BY <1>2 DEF RecordsReadable, RecordReadable, GroundedRecord, Processed, PhaseStatus, OriginOf

LEMMA WalkKeepsGrounded ==
  ASSUME FolderInv, WalkStep, evidence'.records = record',
         \A q \in Asked : q # Question => record'[q] = record[q],
         pipeline = "grounded" =>
           /\ GroundedRecord(record'[Question])
           /\ step' \in {"call", "reply", "validate"} =>
                record'[Question].processing = "unknown" /\ record'[Question].found # "far"
  PROVE  GroundedInOrder'
<1> SUFFICES ASSUME pipeline = "grounded" PROVE GroundedInOrder'
  BY DEF GroundedInOrder, WalkStep
<1>1. RecordsReadable /\ evidence.records = record
  BY DEF FolderInv, GroundedInOrder, FolderTyped
<1>2. \A q \in Asked : GroundedRecord(record'[q])
  BY <1>1, ReadablePerRecord
<1>3. RecordsReadable'
  BY <1>2, SameReading DEF WalkStep
<1>4. step' \in {"call", "reply", "validate"} => Question' = Question
  BY SamePlace DEF WalkStep
<1> QED BY <1>3, <1>4 DEF GroundedInOrder, Here

-----------------------------------------------------------------------------
(* Day 25 alone: one stage, two phases, and the turns in order.            *)

LEMMA StatefulRoute ==
  ASSUME FolderInv, Walking, pipeline = "stateful"
  PROVE  /\ stage = "run" /\ Route = <<"retrieval", "generation">>
         /\ place.phase \in {1, 2} /\ (place.phase = 1 <=> Phase = "retrieval")
         /\ (place.phase = 2 <=> Phase = "generation")
         /\ evidence.run = "partial" /\ place.number \in Nat /\ place.script \in Nat
<1>1. FolderTyped /\ stage # "none" /\ PlaceOnRoute
  BY DEF FolderInv, Walking
<1>2. stage = "run" /\ evidence.run = "partial"
  BY <1>1 DEF FolderTyped, PlaceOnRoute
<1>3. Route = <<"retrieval", "generation">>
  BY <1>1, <1>2, RouteFacts
<1>4. place.phase \in DOMAIN Route /\ Phase = Route[place.phase] /\ place.number \in Nat /\ place.script \in Nat
  BY AtWork
<1> QED BY <1>2, <1>3, <1>4

LEMMA TurnsStay ==
  ASSUME FolderInv, WalkStep, place' = place, step' # "decide", pipeline = "stateful",
         stored \subseteq stored',
         \A q \in Asked : q # Question => record'[q] = record[q],
         NEW r, record'[Question] = r,
         r.commit = "committed" => \A p \in PhaseNames : r.phases[p].status # "unknown",
         \A p \in PhaseNames \ {"retrieval", "generation"} : r.phases[p] = NotDispatched,
         step' \in {"call", "vector", "search", "reply", "validate", "commit"}
           => r.commit = "not_attempted",
         Phase = "retrieval" => r.phases["generation"] = NotDispatched,
         Phase = "generation" => r.phases["retrieval"].status = "completed",
         step' \in {"commit", "store", "committed", "reopen"} =>
           \A p \in PhaseNames : r.phases[p].status # "unknown",
         step' \in {"store", "committed"} => r.commit = "unknown",
         step' \in {"committed", "reopen"} => Question \in stored'
  PROVE  TurnsInOrder'
<1>1. Walking /\ stage' = stage /\ pipeline' = pipeline /\ evidence'.run = evidence.run /\ TurnsInOrder
  BY DEF WalkStep, FolderInv
<1>2. /\ stage = "run" /\ place.phase \in {1, 2} /\ (place.phase = 1 => Phase = "retrieval")
      /\ (place.phase = 2 => Phase = "generation") /\ evidence.run = "partial"
      /\ place.number \in Nat /\ place.script \in Nat
  BY <1>1, StatefulRoute
<1>3. Question' = Question /\ Walking' = Walking /\ Question \in Asked
      /\ Question = <<place.script, place.number>>
  BY <1>1, SamePlace, AtWork
<1>4. Here' = r
  BY <1>3 DEF Here
<1>5. \A q \in Asked : record'[q].commit = "committed" =>
        \A p \in PhaseNames : record'[q].phases[p].status # "unknown"
  BY <1>1 DEF TurnsInOrder
<1>6. \A q \in Asked, p \in PhaseNames \ {"retrieval", "generation"} :
        record'[q].phases[p] = NotDispatched
  BY <1>1 DEF TurnsInOrder
<1>7. \A q \in Asked :
        q[1] > place.script \/ (q[1] = place.script /\ q[2] > place.number)
          => q # Question /\ record[q] = NewRecord
  <2> TAKE q \in Asked
  <2>1. q[1] > place.script \/ (q[1] = place.script /\ q[2] > place.number) => record[q] = NewRecord
    BY <1>1, <1>2 DEF TurnsInOrder, Untouched
  <2> QED BY <1>2, <1>3, <2>1
<1>8. \A n \in 1 .. (place.number - 1) : <<place.script, n>> \in stored'
  BY <1>1 DEF TurnsInOrder, TurnAtWork
<1>9. TurnAtWork'
  BY <1>2, <1>3, <1>4, <1>8 DEF TurnAtWork
<1>10. \A q \in Asked : Untouched(q)' => record'[q] = NewRecord
  BY <1>7 DEF Untouched
<1> QED BY <1>1, <1>2, <1>5, <1>6, <1>9, <1>10 DEF TurnsInOrder

LEMMA TurnsGoOn ==
  ASSUME FolderInv, WalkStep, NextPlace(place'), step' = "decide", pipeline = "stateful",
         stored \subseteq stored',
         \A q \in Asked : q # Question => record'[q] = record[q],
         NEW r, record'[Question] = r,
         r.commit = "committed" => \A p \in PhaseNames : r.phases[p].status # "unknown",
         \A p \in PhaseNames \ {"retrieval", "generation"} : r.phases[p] = NotDispatched,
         place' = AtNextPhase =>
           r.commit = "not_attempted" /\ r.phases["retrieval"].status = "completed",
         place' = AtNextQuestion /\ place.number < Len(Scripts[place.script]) => Question \in stored'
  PROVE  TurnsInOrder'
<1>1. Walking /\ stage' = stage /\ pipeline' = pipeline /\ evidence'.run = evidence.run /\ TurnsInOrder
  BY DEF WalkStep, FolderInv
<1>2. /\ stage = "run" /\ place.phase \in {1, 2} /\ evidence.run = "partial" /\ Len(Route) = 2
      /\ place.number \in Nat /\ place.script \in Nat
  BY <1>1, StatefulRoute
<1>3. Question \in Asked /\ Question = <<place.script, place.number>>
      /\ place \in [script : Positions, number : Positions, phase : Positions]
  BY <1>1, AtWork DEF FolderInv, FolderTyped
<1>4. \A q \in Asked : q = <<q[1], q[2]>> /\ q[1] \in Nat /\ q[2] \in Nat
  BY AskedPairs
<1>5. \A q \in Asked :
        q[1] > place.script \/ (q[1] = place.script /\ q[2] > place.number)
          => record'[q] = NewRecord
  <2> TAKE q \in Asked
  <2>1. q[1] > place.script \/ (q[1] = place.script /\ q[2] > place.number) => record[q] = NewRecord
    BY <1>1, <1>2 DEF TurnsInOrder, Untouched
  <2> QED BY <1>2, <1>3, <2>1
<1>6. \A q \in Asked : record'[q].commit = "committed" =>
        \A p \in PhaseNames : record'[q].phases[p].status # "unknown"
  BY <1>1 DEF TurnsInOrder
<1>7. \A q \in Asked, p \in PhaseNames \ {"retrieval", "generation"} :
        record'[q].phases[p] = NotDispatched
  BY <1>1 DEF TurnsInOrder
<1>8. \A n \in 1 .. (place.number - 1) : <<place.script, n>> \in stored'
  BY <1>1 DEF TurnsInOrder, TurnAtWork
<1>9. CASE place' = AtNextPhase /\ place.phase < Len(Route)
  <2>1. place'.script = place.script /\ place'.number = place.number /\ place'.phase = 2
    BY <1>2, <1>3, <1>9 DEF AtNextPhase
  <2>2. Question' = Question /\ Here' = r
    BY <1>3, <2>1 DEF Question, Here
  <2>3. TurnAtWork'
    BY <1>8, <1>9, <2>1, <2>2 DEF TurnAtWork
  <2>4. \A q \in Asked : Untouched(q)' => record'[q] = NewRecord
    BY <1>5, <2>1 DEF Untouched
  <2> QED BY <1>1, <1>2, <1>6, <1>7, <2>3, <2>4 DEF TurnsInOrder
<1>10. ASSUME place'.phase = 1,
              \A q \in Asked : \/ q[1] > place'.script
                               \/ (q[1] = place'.script /\ q[2] >= place'.number)
                 => q[1] > place.script \/ (q[1] = place.script /\ q[2] > place.number),
              \A n \in 1 .. (place'.number - 1) : <<place'.script, n>> \in stored',
              place'.number \in Nat
       PROVE  TurnsInOrder'
  <2>1. \A q \in Asked : q[1] > place'.script \/ (q[1] = place'.script /\ q[2] >= place'.number)
          => record'[q] = NewRecord
    BY <1>5, <1>10
  <2>2. \A q \in Asked : q = Question' => record'[q] = NewRecord
    BY <1>4, <1>10, <2>1 DEF Question
  <2>3. \A q \in Asked : (q[1] > place'.script \/ (q[1] = place'.script /\ q[2] > place'.number)
                          \/ q = Question')  => record'[q] = NewRecord
    BY <1>4, <1>10, <2>1, <2>2
  <2>4. Walking' => Question' \in Asked
    <3>1. PlaceOnRoute'
      BY WalkStaysOnRoute
    <3> QED BY <3>1, AskedPairs DEF Walking, PlaceOnRoute, Question
  <2>5. Walking' => Here' = NewRecord
    BY <2>2, <2>4 DEF Here
  <2>6. NewRecord.commit = "not_attempted" /\ NewRecord.phases["generation"] = NotDispatched
    BY DEF NewRecord, GatedRecord, PhaseNames
  <2>7. Walking' => /\ Here'.commit = "not_attempted"
                    /\ Here'.phases["generation"] = NotDispatched
    BY <2>5, <2>6
  <2>8. Walking' => TurnAtWork'
    BY <1>10, <2>7 DEF TurnAtWork
  <2>9. \A q \in Asked : Untouched(q)' => record'[q] = NewRecord
    BY <2>3 DEF Untouched
  <2> QED BY <1>1, <1>2, <1>6, <1>7, <2>8, <2>9 DEF TurnsInOrder
<1>11. CASE place' = AtNextScript
  <2>1. place'.script = place.script + 1 /\ place'.number = 1 /\ place'.phase = 1
    BY <1>11 DEF AtNextScript
  <2>2. \A q \in Asked : \/ q[1] > place'.script
                         \/ (q[1] = place'.script /\ q[2] >= place'.number)
          => q[1] > place.script \/ (q[1] = place.script /\ q[2] > place.number)
    BY <1>2, <1>4, <2>1
  <2> QED BY <1>10, <2>1, <2>2
<1>12. CASE place' = AtNextQuestion /\ place.number < Len(Scripts[place.script])
  <2>1. place' = [script |-> place.script, number |-> place.number + 1, phase |-> 1]
    BY <1>3, <1>12 DEF AtNextQuestion
  <2>2. place'.script = place.script /\ place'.number = place.number + 1 /\ place'.phase = 1
    BY <2>1
  <2>3. \A q \in Asked : \/ q[1] > place'.script
                         \/ (q[1] = place'.script /\ q[2] >= place'.number)
          => q[1] > place.script \/ (q[1] = place.script /\ q[2] > place.number)
    BY <1>2, <1>4, <2>2
  <2>4. \A n \in 1 .. (place'.number - 1) : <<place'.script, n>> \in stored'
    <3>1. Question \in stored'
      BY <1>12
    <3> QED BY <1>2, <1>3, <1>8, <2>2, <3>1
  <2> QED BY <1>2, <1>10, <2>2, <2>3, <2>4
<1> QED BY <1>9, <1>11, <1>12 DEF NextPlace, AtNextQuestion

-----------------------------------------------------------------------------
(* A saved record, and what a step that saves one keeps.                   *)

LEMMA WithPhaseFacts ==
  ASSUME NEW r \in QuestionRecord, Phase \in PhaseNames,
         NEW mark \in {"not_dispatched", "unknown", "completed", "failed", "error"},
         NEW outcome \in Outcomes \cup {"none"}
  PROVE  /\ WithPhase(r, mark, outcome) \in QuestionRecord
         /\ WithPhase(r, mark, outcome).phases[Phase] =
              [status |-> mark, attempted |-> TRUE, outcome |-> outcome]
         /\ \A p \in PhaseNames : p # Phase => WithPhase(r, mark, outcome).phases[p] = r.phases[p]
         /\ WithPhase(r, mark, outcome).found = r.found
         /\ WithPhase(r, mark, outcome).processing = r.processing
         /\ WithPhase(r, mark, outcome).origin = r.origin
         /\ WithPhase(r, mark, outcome).commit = r.commit
<1>1. r.phases \in [PhaseNames -> PhaseRecord]
  BY DEF QuestionRecord
<1>2. [status |-> mark, attempted |-> TRUE, outcome |-> outcome] \in PhaseRecord
  BY DEF PhaseRecord
<1> DEFINE said == [status |-> mark, attempted |-> TRUE, outcome |-> outcome]
           phases == [r.phases EXCEPT ![Phase] = said]
<1>3. phases \in [PhaseNames -> PhaseRecord] /\ phases[Phase] = said
      /\ \A p \in PhaseNames : p # Phase => phases[p] = r.phases[p]
  BY <1>1, <1>2
<1>4. WithPhase(r, mark, outcome) = [r EXCEPT !.phases = phases]
  BY DEF WithPhase
<1> HIDE DEF phases
<1> QED BY <1>3, <1>4 DEF QuestionRecord

LEMMA SavedHere ==
  ASSUME FolderInv, Walking, NEW r \in QuestionRecord, Saved(r)
  PROVE  /\ record' \in Records /\ record'[Question] = r
         /\ \A q \in Asked : q # Question => record'[q] = record[q]
         /\ evidence' \in Folders /\ evidence'.records = record'
         /\ evidence'.run = evidence.run /\ evidence'.hash = evidence.hash
<1>1. Question \in Asked
  BY AtWork
<1>2. record \in Records /\ evidence \in Folders /\ evidence.records = record
  BY DEF FolderInv, FolderTyped
<1>3. record' = [record EXCEPT ![Question] = r] /\ record' \in Records
  BY <1>1, <1>2 DEF Saved, Records
<1>4. evidence' = [evidence EXCEPT !.records = record']
  BY <1>2, <1>3 DEF Saved
<1> QED BY <1>1, <1>2, <1>3, <1>4 DEF Folders, Records

\* What every step keeps, apart from what the process knows and day 25's turns.
FolderCore ==
  /\ FolderTyped /\ PlaceOnRoute /\ PhasesHonest /\ NothingAheadCalled
  /\ UnknownIsExplained /\ GroundedInOrder
  /\ pipeline = "rewrite" => RewriteReadable

LEMMA SaveKeeps ==
  ASSUME FolderInv, WalkStep, NEW r \in QuestionRecord, Saved(r), UNCHANGED truth,
         \A p \in PhaseNames : p # Phase => r.phases[p] = Here.phases[p],
         HonestPhase(r.phases[Phase], truth[Question][Phase]),
         step' = "call" => step = "decide",
         r.phases[Phase].status = "unknown" =>
           \/ truth[Question][Phase] \in {<<"timeout">>, <<"bad">>}
           \/ Phase = "enhanced" \/ pipeline = "stateful"
           \/ place' = place /\ step' \in {"call", "vector", "search", "reply"},
         stage = "compare" => Frozen(r) = Frozen(Here),
         pipeline = "grounded" =>
           /\ GroundedRecord(r)
           /\ step' \in {"call", "reply", "validate"} => r.processing = "unknown" /\ r.found # "far"
  PROVE  FolderCore'
<1>1. Walking /\ evidence'.run = evidence.run
  BY DEF WalkStep
<1>2. /\ record' \in Records /\ record'[Question] = r
      /\ \A q \in Asked : q # Question => record'[q] = record[q]
      /\ evidence' \in Folders /\ evidence'.records = record' /\ evidence'.hash = evidence.hash
  BY <1>1, SavedHere
<1>3. Question \in Asked /\ Phase \in PhaseNames /\ Here = record[Question]
      /\ Phase = Route[place.phase] /\ place.phase \in DOMAIN Route
  BY <1>1, AtWork
<1>4. OnlyHere
  BY <1>2, <1>3 DEF OnlyHere
<1>5. FolderTyped'
  BY <1>2, WalkIsTyped DEF FolderInv, FolderTyped
<1>6. PlaceOnRoute'
  BY WalkStaysOnRoute
<1>7. PhasesHonest'
  BY <1>2, <1>4, WalkStaysHonest
<1>8. step = "decide" => truth[Question][Phase] = <<>>
  BY <1>1, <1>3 DEF FolderInv, NothingAheadCalled, Walking
<1>9. NothingAheadCalled'
  BY <1>4, <1>8, WalkCallsOnce
<1>10. UnknownIsExplained'
  BY <1>2, <1>4, WalkExplains
<1>11. GroundedInOrder'
  BY <1>2, WalkKeepsGrounded
<1>12. stage = "compare" => \A q \in Asked : Frozen(record'[q]) = Frozen(record[q])
  BY <1>2, <1>3
<1>13. (pipeline = "rewrite" => RewriteReadable)'
  BY <1>2, <1>12, WalkKeepsRewrite
<1> QED BY <1>5, <1>6, <1>7, <1>9, <1>10, <1>11, <1>13 DEF FolderCore

\* Nothing is saved and nobody is called: the process only goes on.
LEMMA GoingOnKeeps ==
  ASSUME FolderInv, WalkStep, UNCHANGED <<record, evidence, truth>>,
         step' \notin {"call", "reply", "validate"},
         step \in {"decide", "review", "stopped", "store", "reopen"}
  PROVE  FolderCore'
<1>1. Walking /\ evidence.records = record /\ FolderTyped /\ PhasesHonest /\ GroundedInOrder
  BY DEF WalkStep, FolderInv, FolderTyped
<1>2. Question \in Asked /\ Phase \in PhaseNames
  BY <1>1, AtWork
<1>3. OnlyHere
  BY DEF OnlyHere
<1>4. FolderTyped' /\ PlaceOnRoute'
  BY <1>1, WalkIsTyped, WalkStaysOnRoute DEF FolderTyped
<1>5. PhasesHonest'
  BY <1>1 DEF PhasesHonest, HonestPhase
<1>6. NothingAheadCalled'
  BY <1>3, WalkCallsOnce
<1>7. GroundedInOrder'
  <2>1. RecordsReadable' <=> RecordsReadable
    BY SameReading, ReadablePerRecord DEF WalkStep
  <2> QED BY <1>1, <2>1 DEF GroundedInOrder, WalkStep
<1>8. (pipeline = "rewrite" => RewriteReadable)'
  BY <1>1, WalkKeepsRewrite
<1>9. UnknownIsExplained'
  <2>1. record'[Question].phases[Phase].status = "unknown" =>
          \/ truth'[Question][Phase] \in {<<"timeout">>, <<"bad">>}
          \/ Phase = "enhanced" \/ pipeline = "stateful"
    BY <1>1, <1>2 DEF FolderInv, UnknownIsExplained, Walking, InCall
  <2> QED BY <1>3, <2>1, WalkExplains
<1> QED BY <1>4, <1>5, <1>6, <1>7, <1>8, <1>9 DEF FolderCore

-----------------------------------------------------------------------------
(* Every step of the experiments keeps the folder sound.                   *)

LEMMA FolderParts ==
  ASSUME FolderCore', StepKnows', TurnsInOrder', CommitsAreStored'
  PROVE  FolderInv'
BY DEF FolderInv, FolderCore

LEMMA DecidingKnowsNothing == ASSUME step' = "decide" PROVE StepKnows'
BY DEF StepKnows, InCall

LEMMA OtherPipelines == ASSUME UNCHANGED pipeline, pipeline # "stateful" PROVE TurnsInOrder'
BY DEF TurnsInOrder

\* What the process heard of the phase it is at.
LEMMA WhatItHeard ==
  ASSUME FolderInv, Walking, step \in {"vector", "search", "reply", "validate"}
  PROVE  /\ truth[Question][Phase] = <<Heard>> /\ Heard \in OutcomesOf(Phase) /\ Heard \in Outcomes
         /\ Here.phases[Phase].attempted
<1>1. PICK h \in OutcomesOf(Phase) : truth[Question][Phase] = <<h>>
  BY DEF FolderInv, StepKnows
<1>2. Heard = h
  BY <1>1 DEF Heard
<1>3. h \in Outcomes
  BY <1>1 DEF OutcomesOf, Outcomes, Embeddings, Answers
<1>4. Here.phases[Phase].attempted
  BY DEF FolderInv, StepKnows, InCall
<1> QED BY <1>1, <1>2, <1>3, <1>4

LEMMA SkipKeeps == ASSUME FolderInv, Skip PROVE FolderInv'
<1>1. WalkStep /\ NextPlace(place') /\ step' = "decide" /\ step = "decide" /\ Walking
      /\ UNCHANGED <<record, evidence, truth, stored>>
  BY OnwardIsNext DEF Skip, WalkStep
<1>2. FolderCore'
  BY <1>1, GoingOnKeeps
<1>3. pipeline # "stateful"
  <2> SUFFICES ASSUME pipeline = "stateful" PROVE FALSE
    OBVIOUS
  <2>1. Phase \in {"retrieval", "generation"}
    BY <1>1, StatefulRoute
  <2> QED BY <2>1 DEF Skip, Unavailable
<1>4. TurnsInOrder'
  BY <1>1, <1>3, OtherPipelines DEF WalkStep
<1>5. CommitsAreStored'
  BY <1>1, WalkKeepsCommits
<1> QED BY <1>1, <1>2, <1>4, <1>5, FolderParts, DecidingKnowsNothing

LEMMA SaveAndSendKeeps == ASSUME FolderInv, SaveAndSend PROVE FolderInv'
<1> DEFINE begun == [Here EXCEPT !.processing = IF Phase = "generation" THEN "unknown" ELSE @]
           r == WithPhase(begun, "unknown", "none")
<1>1. Walking /\ step = "decide" /\ ~Unavailable(Here) /\ Saved(r) /\ step' = "call"
      /\ UNCHANGED <<pipeline, stage, place, truth, stored>>
  BY DEF SaveAndSend
<1>2. /\ Question \in Asked /\ Phase \in PhaseNames /\ Here \in QuestionRecord /\ Here = record[Question]
      /\ Phase = Route[place.phase] /\ place.phase \in DOMAIN Route
  BY <1>1, AtWork
<1>3. /\ begun \in QuestionRecord /\ begun.phases = Here.phases /\ begun.found = Here.found
      /\ begun.commit = Here.commit /\ begun.origin = Here.origin
      /\ begun.processing = IF Phase = "generation" THEN "unknown" ELSE Here.processing
  BY <1>2 DEF QuestionRecord
<1> HIDE DEF begun
<1>4. /\ r \in QuestionRecord
      /\ r.phases[Phase] = [status |-> "unknown", attempted |-> TRUE, outcome |-> "none"]
      /\ \A p \in PhaseNames : p # Phase => r.phases[p] = Here.phases[p]
      /\ r.found = Here.found /\ r.commit = Here.commit
      /\ r.processing = IF Phase = "generation" THEN "unknown" ELSE Here.processing
  BY <1>2, <1>3, WithPhaseFacts
<1>5. stage = "compare" => Frozen(r) = Frozen(Here)
  <2> SUFFICES ASSUME stage = "compare" PROVE Frozen(r) = Frozen(Here)
    OBVIOUS
  <2>1. Phase = "enhanced"
    <3>1. Route = <<"enhanced">>
      BY <1>1, RouteFacts DEF FolderInv, PlaceOnRoute, Walking
    <3> QED BY <1>2, <3>1
  <2>2. begun = Here
    BY <1>2, <2>1 DEF begun, QuestionRecord
  <2> QED BY <1>2, <2>1, <2>2, FrozenStays
<1> HIDE DEF r
<1>6. WalkStep
  <2>1. evidence'.run = evidence.run
    BY <1>1, <1>4, SavedHere
  <2> QED BY <1>1, <2>1 DEF WalkStep, Steps
<1>7. truth[Question][Phase] = <<>>
  BY <1>1, <1>2 DEF FolderInv, NothingAheadCalled, Walking
<1>8. HonestPhase(r.phases[Phase], truth[Question][Phase])
  BY <1>4, <1>7 DEF HonestPhase
<1>9. pipeline = "grounded" => Phase = "generation" /\ r.processing = "unknown" /\ r.found # "far"
  <2> SUFFICES ASSUME pipeline = "grounded" PROVE Phase = "generation" /\ Here.found # "far"
    BY <1>4
  <2>1. Route = <<"generation">>
    BY <1>1, RouteFacts DEF FolderInv, PlaceOnRoute, Walking
  <2>2. Phase = "generation"
    BY <1>2, <2>1
  <2> QED BY <1>1, <2>2 DEF Unavailable
<1>10. FolderCore'
  BY <1>1, <1>4, <1>5, <1>6, <1>8, <1>9, SaveKeeps DEF GroundedRecord
<1>11. record'[Question] = r /\ \A q \in Asked : q # Question => record'[q] = record[q]
  BY <1>1, <1>4, SavedHere
<1>12. StepKnows'
  <2>1. Question' = Question /\ Phase' = Phase
    BY <1>1, SamePlace
  <2> QED BY <1>1, <1>4, <1>11, <2>1 DEF StepKnows, Here, InCall
<1>13. CommitsAreStored'
  BY <1>1, <1>2, <1>4, <1>11, WalkKeepsCommits
<1>14. TurnsInOrder'
  <2>1. CASE pipeline # "stateful"
    BY <1>1, <2>1, OtherPipelines
  <2>2. CASE pipeline = "stateful"
    <3>1. TurnsInOrder /\ TurnAtWork
      BY <1>1, <2>2 DEF FolderInv, TurnsInOrder
    <3>2. (place.phase = 1 <=> Phase = "retrieval") /\ (place.phase = 2 <=> Phase = "generation")
          /\ Phase \in {"retrieval", "generation"}
      BY <1>1, <2>2, StatefulRoute
    <3>3. Here.commit = "not_attempted"
      BY <1>1, <3>1 DEF TurnAtWork
    <3>4. \A p \in PhaseNames \ {"retrieval", "generation"} : r.phases[p] = NotDispatched
      BY <1>2, <1>4, <2>2, <3>1, <3>2 DEF TurnsInOrder
    <3>5. Phase = "retrieval" => r.phases["generation"] = NotDispatched
      BY <1>4, <3>1, <3>2 DEF TurnAtWork, PhaseNames
    <3>6. Phase = "generation" => r.phases["retrieval"].status = "completed"
      BY <1>4, <3>1, <3>2 DEF TurnAtWork, PhaseNames
    <3> QED BY <1>1, <1>4, <1>6, <1>11, <2>2, <3>3, <3>4, <3>5, <3>6, TurnsStay
  <2> QED BY <2>1, <2>2
<1> QED BY <1>10, <1>12, <1>13, <1>14, FolderParts

LEMMA CallPhaseKeeps == ASSUME FolderInv, CallPhase PROVE FolderInv'
<1>1. PICK outcome \in OutcomesOf(Phase) :
        truth' = [truth EXCEPT ![Question][Phase] = Append(@, outcome)]
  BY DEF CallPhase
<1>2. /\ Walking /\ step = "call" /\ step' = IF Phase = "retrieval" THEN "vector" ELSE "reply"
      /\ UNCHANGED <<pipeline, stage, place, record, evidence, stored>>
  BY DEF CallPhase
<1>3. /\ Question \in Asked /\ Phase \in PhaseNames /\ Here = record[Question]
      /\ Phase = Route[place.phase] /\ place.phase \in DOMAIN Route
  BY <1>2, AtWork
<1>4. truth[Question][Phase] = <<>>
  BY <1>2, <1>3 DEF FolderInv, NothingAheadCalled, Walking
<1>5. outcome \in Outcomes
  BY <1>1 DEF OutcomesOf, Outcomes, Embeddings, Answers
<1>6. truth \in [Asked -> [PhaseNames -> Seq(Outcomes)]]
  BY DEF FolderInv, FolderTyped
<1>7. truth' = [truth EXCEPT ![Question] = [truth[Question] EXCEPT ![Phase] = <<outcome>>]]
  <2>1. Append(truth[Question][Phase], outcome) = <<outcome>>
    BY <1>4
  <2> QED BY <1>1, <1>3, <1>6, <2>1
<1>8. /\ truth' \in [Asked -> [PhaseNames -> Seq(Outcomes)]]
      /\ truth'[Question][Phase] = <<outcome>>
      /\ \A q \in Asked, p \in PhaseNames : q # Question \/ p # Phase => truth'[q][p] = truth[q][p]
  <2>1. <<outcome>> \in Seq(Outcomes)
    BY <1>5
  <2>2. [truth[Question] EXCEPT ![Phase] = <<outcome>>] \in [PhaseNames -> Seq(Outcomes)]
    BY <1>3, <1>6, <2>1
  <2> QED BY <1>3, <1>6, <1>7, <2>2
<1>9. Here.phases[Phase].attempted /\ Here.phases[Phase].status = "unknown"
  BY <1>2 DEF FolderInv, StepKnows, InCall
<1>10. WalkStep /\ OnlyHere
  BY <1>2, <1>8 DEF WalkStep, Steps, OnlyHere
<1>11. Question' = Question /\ Phase' = Phase /\ Walking' = Walking /\ Here' = Here
  BY <1>2, SamePlace DEF Here
<1>12. FolderTyped' /\ PlaceOnRoute'
  <2>1. FolderTyped
    BY DEF FolderInv
  <2> QED BY <1>2, <1>8, <1>10, <2>1, WalkIsTyped, WalkStaysOnRoute DEF FolderTyped
<1>13. PhasesHonest'
  <2>1. HonestPhase(record'[Question].phases[Phase], truth'[Question][Phase])
    BY <1>2, <1>3, <1>8, <1>9 DEF HonestPhase
  <2> QED BY <1>10, <2>1, WalkStaysHonest
<1>14. NothingAheadCalled'
  BY <1>2, <1>10, WalkCallsOnce
<1>15. UnknownIsExplained'
  BY <1>2, <1>10, WalkExplains
<1>16. GroundedInOrder'
  <2>1. GroundedInOrder /\ evidence.records = record
    BY DEF FolderInv, FolderTyped
  <2>2. RecordsReadable' <=> RecordsReadable
    BY <1>2, SameReading, ReadablePerRecord
  <2> QED BY <1>2, <1>11, <2>1, <2>2 DEF GroundedInOrder
<1>17. (pipeline = "rewrite" => RewriteReadable)'
  <2>1. evidence'.records = record'
    BY <1>12 DEF FolderTyped
  <2> QED BY <1>2, <1>10, <2>1, WalkKeepsRewrite
<1>18. StepKnows'
  <2>1. OutcomesOf(Phase)' = OutcomesOf(Phase)
    BY <1>11 DEF OutcomesOf
  <2>2. step' \in {"vector", "reply"} /\ (step' = "vector" <=> Phase = "retrieval")
    BY <1>2
  <2>3. truth'[Question'][Phase'] = <<outcome>> /\ outcome \in OutcomesOf(Phase)'
    BY <1>8, <1>11, <2>1
  <2>4. Here'.phases[Phase'].attempted /\ Here'.phases[Phase'].status = "unknown"
    BY <1>9, <1>11
  <2> QED BY <1>11, <2>2, <2>3, <2>4 DEF StepKnows, InCall
<1>19. CommitsAreStored'
  BY <1>2, WalkKeepsCommits
<1>20. TurnsInOrder'
  <2>1. CASE pipeline # "stateful"
    BY <1>2, <2>1, OtherPipelines
  <2>2. CASE pipeline = "stateful"
    <3>1. TurnsInOrder /\ TurnAtWork
      BY <1>2, <2>2 DEF FolderInv, TurnsInOrder
    <3>2. (place.phase = 1 <=> Phase = "retrieval") /\ (place.phase = 2 <=> Phase = "generation")
      BY <1>2, <2>2, StatefulRoute
    <3>3. /\ record'[Question] = Here
          /\ Here.commit = "not_attempted"
          /\ \A p \in PhaseNames \ {"retrieval", "generation"} : Here.phases[p] = NotDispatched
          /\ Phase = "retrieval" => Here.phases["generation"] = NotDispatched
          /\ Phase = "generation" => Here.phases["retrieval"].status = "completed"
      BY <1>2, <1>3, <2>2, <3>1, <3>2 DEF TurnsInOrder, TurnAtWork
    <3> QED BY <1>2, <1>10, <2>2, <3>3, TurnsStay
  <2> QED BY <2>1, <2>2
<1> QED BY <1>12, <1>13, <1>14, <1>15, <1>16, <1>17, <1>18, <1>19, <1>20, FolderParts DEF FolderCore

\* A record that differs from the one at work in the phase, and the reasons a
\* step may give for it; steps that save what they heard.
LEMMA KeepVectorKeeps == ASSUME FolderInv, KeepVector PROVE FolderInv'
<1> DEFINE mark == IF pipeline = "rewrite" THEN "completed" ELSE "unknown"
           r == WithPhase(Here, mark, Heard)
<1>1. Walking /\ step = "vector" /\ Heard \in {"near", "far"} /\ pipeline # "stateful" /\ Saved(r)
      /\ step' = "search" /\ UNCHANGED <<pipeline, stage, place, truth, stored>>
  BY DEF KeepVector
<1>2. /\ Question \in Asked /\ Phase \in PhaseNames /\ Here \in QuestionRecord /\ Here = record[Question]
      /\ Phase = Route[place.phase] /\ place.phase \in DOMAIN Route
  BY <1>1, AtWork
<1>3. truth[Question][Phase] = <<Heard>> /\ Heard \in OutcomesOf(Phase) /\ Heard \in Outcomes
  BY <1>1, WhatItHeard
<1>4. Phase = "retrieval"
  BY <1>1 DEF FolderInv, StepKnows
<1>5. /\ r \in QuestionRecord
      /\ r.phases[Phase] = [status |-> mark, attempted |-> TRUE, outcome |-> Heard]
      /\ \A p \in PhaseNames : p # Phase => r.phases[p] = Here.phases[p]
      /\ r.commit = Here.commit
  BY <1>2, <1>3, WithPhaseFacts
<1> HIDE DEF r
<1>6. WalkStep
  <2>1. evidence'.run = evidence.run
    BY <1>1, <1>5, SavedHere
  <2> QED BY <1>1, <2>1 DEF WalkStep, Steps
<1>7. HonestPhase(r.phases[Phase], truth[Question][Phase])
  BY <1>1, <1>3, <1>5 DEF HonestPhase
<1>8. stage # "compare" /\ pipeline # "grounded"
  BY <1>1, <1>4, PhaseFacts
<1>9. FolderCore'
  BY <1>1, <1>5, <1>6, <1>7, <1>8, SaveKeeps
<1>10. record'[Question] = r /\ \A q \in Asked : q # Question => record'[q] = record[q]
  BY <1>1, <1>5, SavedHere
<1>11. StepKnows'
  <2>1. Question' = Question /\ Phase' = Phase /\ Walking'
    BY <1>1, SamePlace
  <2>2. OutcomesOf(Phase)' = OutcomesOf(Phase) /\ Heard' = Heard /\ Here' = r
    BY <1>1, <1>10, <2>1 DEF OutcomesOf, Heard, Here
  <2> QED BY <1>1, <1>3, <1>4, <1>5, <2>1, <2>2 DEF StepKnows, InCall
<1>12. CommitsAreStored'
  BY <1>1, <1>2, <1>5, <1>10, WalkKeepsCommits
<1> QED BY <1>1, <1>9, <1>11, <1>12, FolderParts, OtherPipelines

LEMMA StatusFacts ==
  ASSUME NEW outcome \in Outcomes
  PROVE  /\ PhaseStatus(outcome) \in {"unknown", "completed", "failed", "error"}
         /\ PhaseStatus(outcome) = "completed" <=> outcome \in Answers \cup {"near", "far"}
         /\ PhaseStatus(outcome) = "failed" => outcome = "failed"
         /\ PhaseStatus(outcome) = "unknown" => outcome \in {"timeout", "bad"} \/ pipeline = "stateful"
         /\ Processed(outcome) \in {"unknown", "completed", "failed", "error", "accepted", "validation_failed"}
         /\ Processed(outcome) = "accepted" => outcome \in {"answered", "abstains"}
         /\ Processed(outcome) = "validation_failed" => outcome = "invalid"
BY DEF PhaseStatus, Processed, Outcomes, Embeddings, Answers

\* Day 25: the records of the turn at work.
LEMMA TurnRecords ==
  ASSUME FolderInv, Walking, pipeline = "stateful"
  PROVE  /\ TurnAtWork /\ Phase \in {"retrieval", "generation"}
         /\ \A p \in PhaseNames \ {"retrieval", "generation"} : Here.phases[p] = NotDispatched
         /\ Here.commit = "committed" => \A p \in PhaseNames : Here.phases[p].status # "unknown"
         /\ Phase = "retrieval" => Here.phases["generation"] = NotDispatched
         /\ Phase = "generation" => Here.phases["retrieval"].status = "completed"
<1>1. TurnsInOrder /\ TurnAtWork
  BY DEF FolderInv, TurnsInOrder
<1>2. (place.phase = 1 <=> Phase = "retrieval") /\ (place.phase = 2 <=> Phase = "generation")
      /\ Phase \in {"retrieval", "generation"}
  BY StatefulRoute
<1>3. Question \in Asked /\ Here = record[Question]
  BY AtWork
<1>4. \A p \in PhaseNames \ {"retrieval", "generation"} : Here.phases[p] = NotDispatched
  BY <1>1, <1>3 DEF TurnsInOrder
<1>5. Here.commit = "committed" => \A p \in PhaseNames : Here.phases[p].status # "unknown"
  BY <1>1, <1>3 DEF TurnsInOrder
<1>6. /\ Phase = "retrieval" => Here.phases["generation"] = NotDispatched
      /\ Phase = "generation" => Here.phases["retrieval"].status = "completed"
  BY <1>1, <1>2 DEF TurnAtWork
<1> QED BY <1>1, <1>2, <1>4, <1>5, <1>6

LEMMA SearchEndsKeeps == ASSUME FolderInv, SearchEnds PROVE FolderInv'
<1> DEFINE found == IF Heard \in {"near", "far"} THEN Heard
                    ELSE IF Heard = "error" /\ pipeline = "rewrite" THEN "not_computed"
                    ELSE "error"
           w == WithPhase(Here, PhaseStatus(Heard), Heard)
           r == [w EXCEPT !.found = found]
<1>1. /\ Walking /\ step \in {"vector", "search"} /\ Saved(r)
      /\ step' = IF pipeline # "stateful" THEN "decide"
                 ELSE IF Heard = "near" THEN "decide"
                 ELSE IF Heard = "far" THEN "commit" ELSE "stopped"
      /\ place' = IF pipeline # "stateful" THEN Onward
                  ELSE IF Heard = "near" THEN AtNextPhase ELSE place
      /\ UNCHANGED <<pipeline, stage, truth, stored>>
  BY DEF SearchEnds
<1>2. /\ Question \in Asked /\ Phase \in PhaseNames /\ Here \in QuestionRecord /\ Here = record[Question]
      /\ Phase = Route[place.phase] /\ place.phase \in DOMAIN Route
  BY <1>1, AtWork
<1>3. truth[Question][Phase] = <<Heard>> /\ Heard \in Outcomes
  BY <1>1, WhatItHeard
<1>4. Phase = "retrieval"
  BY <1>1 DEF FolderInv, StepKnows
<1>5. /\ PhaseStatus(Heard) \in {"unknown", "completed", "failed", "error"}
      /\ PhaseStatus(Heard) = "completed" <=> Heard \in Answers \cup {"near", "far"}
      /\ PhaseStatus(Heard) = "failed" => Heard = "failed"
      /\ PhaseStatus(Heard) = "unknown" => Heard \in {"timeout", "bad"} \/ pipeline = "stateful"
  BY <1>3, StatusFacts
<1>6. /\ w \in QuestionRecord
      /\ w.phases[Phase] = [status |-> PhaseStatus(Heard), attempted |-> TRUE, outcome |-> Heard]
      /\ \A p \in PhaseNames : p # Phase => w.phases[p] = Here.phases[p]
      /\ w.commit = Here.commit
  BY <1>2, <1>3, <1>5, WithPhaseFacts
<1> HIDE DEF w
<1>7. r \in QuestionRecord /\ r.phases = w.phases /\ r.commit = w.commit
  <2>1. found \in {"near", "far", "not_computed", "error"}
    OBVIOUS
  <2> HIDE DEF found
  <2> QED BY <1>6, <2>1 DEF QuestionRecord
<1> HIDE DEF r
<1>8. stage # "compare" /\ pipeline # "grounded"
  BY <1>1, <1>4, PhaseFacts
<1>9. pipeline = "stateful" => AtNextPhase = [place EXCEPT !.phase = 2] /\ place.phase < Len(Route)
  <2> SUFFICES ASSUME pipeline = "stateful"
               PROVE  AtNextPhase = [place EXCEPT !.phase = 2] /\ place.phase < Len(Route)
    OBVIOUS
  <2>1. Route = <<"retrieval", "generation">> /\ place.phase = 1
    BY <1>1, <1>4, StatefulRoute
  <2>2. Len(Route) = 2
    BY <2>1
  <2> QED BY <2>1, <2>2 DEF AtNextPhase
<1>10. (place' = place /\ step' \in {"commit", "stopped"}) \/ (NextPlace(place') /\ step' = "decide")
  <2>1. CASE pipeline # "stateful"
    BY <1>1, <2>1, OnwardIsNext
  <2>2. CASE pipeline = "stateful"
    BY <1>1, <1>9, <2>2 DEF NextPlace
  <2> QED BY <2>1, <2>2
<1>11. WalkStep
  <2>1. evidence'.run = evidence.run
    BY <1>1, <1>7, SavedHere
  <2> QED BY <1>1, <1>10, <2>1 DEF WalkStep, Steps
<1>12. HonestPhase(r.phases[Phase], truth[Question][Phase])
  BY <1>3, <1>5, <1>6, <1>7 DEF HonestPhase
<1>13. r.phases[Phase].status = "unknown" =>
         truth[Question][Phase] \in {<<"timeout">>, <<"bad">>} \/ pipeline = "stateful"
  BY <1>3, <1>5, <1>6, <1>7
<1>14. FolderCore'
  BY <1>1, <1>6, <1>7, <1>8, <1>10, <1>11, <1>12, <1>13, SaveKeeps
<1>15. record'[Question] = r /\ \A q \in Asked : q # Question => record'[q] = record[q]
  BY <1>1, <1>7, SavedHere
<1>16. StepKnows'
  BY <1>1, <1>10 DEF StepKnows, InCall
<1>17. CommitsAreStored'
  BY <1>1, <1>2, <1>6, <1>7, <1>15, WalkKeepsCommits
<1>18. TurnsInOrder'
  <2>1. CASE pipeline # "stateful"
    BY <1>1, <2>1, OtherPipelines
  <2>2. CASE pipeline = "stateful"
    <3>1. /\ TurnAtWork
          /\ \A p \in PhaseNames \ {"retrieval", "generation"} : Here.phases[p] = NotDispatched
          /\ Here.phases["generation"] = NotDispatched
      BY <1>1, <1>4, <2>2, TurnRecords
    <3>2. r.commit = "not_attempted"
      BY <1>1, <1>6, <1>7, <3>1 DEF TurnAtWork
    <3>3. /\ \A p \in PhaseNames \ {"retrieval", "generation"} : r.phases[p] = NotDispatched
          /\ r.phases["generation"] = NotDispatched
      BY <1>4, <1>6, <1>7, <3>1 DEF PhaseNames
    <3>4. Heard \in {"near", "far"} => r.phases["retrieval"].status = "completed"
      BY <1>4, <1>5, <1>6, <1>7
    <3>5. CASE Heard = "near"
      <4>1. place' = AtNextPhase /\ step' = "decide" /\ NextPlace(place')
        BY <1>1, <1>9, <2>2, <3>5 DEF NextPlace
      <4>2. place' # AtNextQuestion
        <5>1. place \in [script : Positions, number : Positions, phase : Positions]
          BY DEF FolderInv, FolderTyped
        <5>2. place'.phase = 2
          BY <1>9, <2>2, <4>1, <5>1
        <5>3. AtNextQuestion.phase = 1
          BY <5>1 DEF AtNextQuestion, AtNextScript
        <5> QED BY <5>2, <5>3
      <4> QED BY <1>1, <1>11, <1>15, <2>2, <3>2, <3>3, <3>4, <3>5, <4>1, <4>2, TurnsGoOn
    <3>6. CASE Heard # "near"
      <4>1. place' = place /\ step' \in {"commit", "stopped"} /\ (step' = "commit" <=> Heard = "far")
        BY <1>1, <2>2, <3>6
      <4>2. step' = "commit" => \A p \in PhaseNames : r.phases[p].status # "unknown"
        <5> SUFFICES ASSUME step' = "commit", NEW p \in PhaseNames PROVE r.phases[p].status # "unknown"
          OBVIOUS
        <5>1. NotDispatched.status # "unknown"
          BY DEF NotDispatched
        <5> QED BY <3>3, <3>4, <4>1, <5>1
      <4> QED BY <1>1, <1>4, <1>11, <1>15, <2>2, <3>2, <3>3, <4>1, <4>2, TurnsStay
    <3> QED BY <3>5, <3>6
  <2> QED BY <2>1, <2>2
<1> QED BY <1>14, <1>16, <1>17, <1>18, FolderParts

LEMMA KeepReplyKeeps == ASSUME FolderInv, KeepReply PROVE FolderInv'
<1> DEFINE r == WithPhase(Here, PhaseStatus(Heard), Heard)
<1>1. /\ Walking /\ step = "reply" /\ Saved(r) /\ UNCHANGED <<pipeline, stage, truth, stored>>
      /\ Phase = "generation" => step' = "validate" /\ place' = place
      /\ Phase # "generation" => step' = "decide" /\ place' = Onward
  BY DEF KeepReply
<1>2. /\ Question \in Asked /\ Phase \in PhaseNames /\ Here \in QuestionRecord /\ Here = record[Question]
      /\ Phase = Route[place.phase] /\ place.phase \in DOMAIN Route
  BY <1>1, AtWork
<1>3. truth[Question][Phase] = <<Heard>> /\ Heard \in OutcomesOf(Phase) /\ Heard \in Outcomes
  BY <1>1, WhatItHeard
<1>4. /\ PhaseStatus(Heard) \in {"unknown", "completed", "failed", "error"}
      /\ PhaseStatus(Heard) = "completed" <=> Heard \in Answers \cup {"near", "far"}
      /\ PhaseStatus(Heard) = "failed" => Heard = "failed"
      /\ PhaseStatus(Heard) = "unknown" => Heard \in {"timeout", "bad"} \/ pipeline = "stateful"
  BY <1>3, StatusFacts
<1>5. /\ r \in QuestionRecord
      /\ r.phases[Phase] = [status |-> PhaseStatus(Heard), attempted |-> TRUE, outcome |-> Heard]
      /\ \A p \in PhaseNames : p # Phase => r.phases[p] = Here.phases[p]
      /\ r.commit = Here.commit /\ r.found = Here.found /\ r.processing = Here.processing
  BY <1>2, <1>3, <1>4, WithPhaseFacts
<1>6. stage = "compare" => Frozen(r) = Frozen(Here)
  <2>1. stage = "compare" => Phase = "enhanced"
    BY <1>1, PhaseFacts
  <2> QED BY <1>2, <2>1, FrozenStays
<1> HIDE DEF r
<1>7. WalkStep
  <2>1. evidence'.run = evidence.run
    BY <1>1, <1>5, SavedHere
  <2> QED BY <1>1, <2>1, OnwardIsNext DEF WalkStep, Steps
<1>8. HonestPhase(r.phases[Phase], truth[Question][Phase])
  BY <1>3, <1>4, <1>5 DEF HonestPhase
<1>9. r.phases[Phase].status = "unknown" =>
        truth[Question][Phase] \in {<<"timeout">>, <<"bad">>} \/ pipeline = "stateful"
  BY <1>3, <1>4, <1>5
<1>10. pipeline = "grounded" => Phase = "generation" /\ r.processing = "unknown" /\ r.found # "far"
  <2>1. pipeline = "grounded" => Phase = "generation"
    BY <1>1, PhaseFacts
  <2> QED BY <1>1, <1>5, <2>1 DEF FolderInv, GroundedInOrder
<1>11. FolderCore'
  BY <1>1, <1>5, <1>6, <1>7, <1>8, <1>9, <1>10, SaveKeeps DEF GroundedRecord
<1>12. record'[Question] = r /\ \A q \in Asked : q # Question => record'[q] = record[q]
  BY <1>1, <1>5, SavedHere
<1>13. StepKnows'
  <2>1. CASE Phase # "generation"
    BY <1>1, <2>1, DecidingKnowsNothing
  <2>2. CASE Phase = "generation"
    <3>1. Question' = Question /\ Phase' = Phase /\ step' = "validate"
      BY <1>1, <2>2, SamePlace
    <3>2. OutcomesOf(Phase)' = OutcomesOf(Phase) /\ Heard' = Heard /\ Here' = r
          /\ PhaseStatus(Heard)' = PhaseStatus(Heard)
      BY <1>1, <1>12, <3>1 DEF OutcomesOf, Heard, Here, PhaseStatus
    <3>3. truth'[Question'][Phase'] = <<Heard>> /\ Heard \in OutcomesOf(Phase)'
      BY <1>1, <1>3, <3>1, <3>2
    <3>4. Here'.phases[Phase'] = [status |-> PhaseStatus(Heard)', attempted |-> TRUE, outcome |-> Heard']
      BY <1>5, <3>1, <3>2
    <3> QED BY <2>2, <3>1, <3>3, <3>4 DEF StepKnows, InCall
  <2> QED BY <2>1, <2>2
<1>14. CommitsAreStored'
  BY <1>1, <1>2, <1>5, <1>12, WalkKeepsCommits
<1>15. TurnsInOrder'
  <2>1. CASE pipeline # "stateful"
    BY <1>1, <2>1, OtherPipelines
  <2>2. CASE pipeline = "stateful"
    <3>1. /\ TurnAtWork /\ Phase \in {"retrieval", "generation"}
          /\ \A p \in PhaseNames \ {"retrieval", "generation"} : Here.phases[p] = NotDispatched
          /\ Phase = "generation" => Here.phases["retrieval"].status = "completed"
      BY <1>1, <2>2, TurnRecords
    <3>2. Phase = "generation" /\ step' = "validate" /\ place' = place
      BY <1>1, <3>1 DEF FolderInv, StepKnows
    <3>3. r.commit = "not_attempted"
      BY <1>1, <1>5, <3>1 DEF TurnAtWork
    <3>4. /\ \A p \in PhaseNames \ {"retrieval", "generation"} : r.phases[p] = NotDispatched
          /\ r.phases["retrieval"].status = "completed"
      BY <1>5, <3>1, <3>2 DEF PhaseNames
    <3> QED BY <1>1, <1>7, <1>12, <2>2, <3>2, <3>3, <3>4, TurnsStay
  <2> QED BY <2>1, <2>2
<1> QED BY <1>11, <1>13, <1>14, <1>15, FolderParts

LEMMA ValidateReplyKeeps == ASSUME FolderInv, ValidateReply PROVE FolderInv'
<1> DEFINE r == [Here EXCEPT !.processing = Processed(Heard), !.origin = OriginOf(Heard)]
<1>1. /\ Walking /\ step = "validate" /\ Saved(r) /\ UNCHANGED <<pipeline, stage, truth, stored>>
      /\ place' = place
      /\ step' = IF pipeline = "grounded" THEN "review"
                 ELSE IF Processed(Heard) = "accepted" THEN "commit" ELSE "stopped"
  BY DEF ValidateReply
<1>2. /\ Question \in Asked /\ Phase \in PhaseNames /\ Here \in QuestionRecord /\ Here = record[Question]
      /\ Phase = Route[place.phase] /\ place.phase \in DOMAIN Route
  BY <1>1, AtWork
<1>3. truth[Question][Phase] = <<Heard>> /\ Heard \in Outcomes /\ Here.phases[Phase].attempted
  BY <1>1, WhatItHeard
<1>4. /\ Phase = "generation"
      /\ Here.phases[Phase].status = PhaseStatus(Heard) /\ Here.phases[Phase].outcome = Heard
  BY <1>1 DEF FolderInv, StepKnows
<1>5. /\ PhaseStatus(Heard) = "completed" <=> Heard \in Answers \cup {"near", "far"}
      /\ PhaseStatus(Heard) = "unknown" => Heard \in {"timeout", "bad"} \/ pipeline = "stateful"
      /\ Processed(Heard) \in {"unknown", "completed", "failed", "error", "accepted", "validation_failed"}
      /\ Processed(Heard) = "accepted" => Heard \in {"answered", "abstains"}
      /\ Processed(Heard) = "validation_failed" => Heard = "invalid"
  BY <1>3, StatusFacts
<1>6. /\ r \in QuestionRecord /\ r.phases = Here.phases /\ r.commit = Here.commit /\ r.found = Here.found
      /\ r.processing = Processed(Heard) /\ r.origin = OriginOf(Heard)
  <2>1. OriginOf(Heard) \in {"runtime_gate", "none", "model_semantic"}
    BY DEF OriginOf
  <2> DEFINE a == Processed(Heard)  b == OriginOf(Heard)
  <2>2. r = [Here EXCEPT !.processing = a, !.origin = b] /\ a = Processed(Heard) /\ b = OriginOf(Heard)
    OBVIOUS
  <2> HIDE DEF r, a, b
  <2>3. r = [phases |-> Here.phases, found |-> Here.found, processing |-> a, origin |-> b,
             commit |-> Here.commit]
    BY <1>2, <2>2 DEF QuestionRecord
  <2>4. a \in {"accepted", "pending", "unknown", "validation_failed", "failed", "error", "completed"}
        /\ b \in {"runtime_gate", "none", "model_semantic"}
    BY <1>5, <2>1, <2>2
  <2>5. /\ Here.phases \in [PhaseNames -> PhaseRecord]
        /\ Here.found \in {"near", "far", "not_computed", "error"}
        /\ Here.commit \in {"not_attempted", "unknown", "committed"}
    BY <1>2 DEF QuestionRecord
  <2>6. r \in QuestionRecord
    BY <2>3, <2>4, <2>5 DEF QuestionRecord
  <2> QED BY <2>2, <2>3, <2>6
<1> HIDE DEF r
<1>7. stage # "compare" /\ pipeline \in {"stateful", "grounded"}
  BY <1>1, <1>4, PhaseFacts
<1>8. WalkStep
  <2>1. evidence'.run = evidence.run
    BY <1>1, <1>6, SavedHere
  <2> QED BY <1>1, <2>1 DEF WalkStep, Steps
<1>9. HonestPhase(r.phases[Phase], truth[Question][Phase])
  BY <1>2, <1>6 DEF FolderInv, PhasesHonest
<1>10. r.phases[Phase].status = "unknown" =>
         truth[Question][Phase] \in {<<"timeout">>, <<"bad">>} \/ pipeline = "stateful"
  BY <1>3, <1>4, <1>5, <1>6
<1>11. pipeline = "grounded" => GroundedRecord(r) /\ step' = "review"
  <2> SUFFICES ASSUME pipeline = "grounded" PROVE GroundedRecord(r)
    BY <1>1
  <2>1. r.found # "far"
    BY <1>1, <1>6 DEF FolderInv, GroundedInOrder
  <2> QED BY <1>3, <1>4, <1>5, <1>6, <2>1 DEF GroundedRecord, Answers
<1>12. FolderCore'
  BY <1>1, <1>6, <1>7, <1>8, <1>9, <1>10, <1>11, SaveKeeps
<1>13. record'[Question] = r /\ \A q \in Asked : q # Question => record'[q] = record[q]
  BY <1>1, <1>6, SavedHere
<1>14. StepKnows'
  <2>1. \/ step' = "review" /\ pipeline' = "grounded"
        \/ step' \in {"commit", "stopped"} /\ pipeline' = "stateful"
    BY <1>1, <1>7
  <2> QED BY <2>1 DEF StepKnows, InCall
<1>15. CommitsAreStored'
  BY <1>1, <1>2, <1>6, <1>13, WalkKeepsCommits
<1>16. TurnsInOrder'
  <2>1. CASE pipeline # "stateful"
    BY <1>1, <2>1, OtherPipelines
  <2>2. CASE pipeline = "stateful"
    <3>1. /\ TurnAtWork
          /\ \A p \in PhaseNames \ {"retrieval", "generation"} : r.phases[p] = NotDispatched
          /\ r.phases["retrieval"].status = "completed"
      BY <1>1, <1>4, <1>6, <2>2, TurnRecords
    <3>2. r.commit = "not_attempted"
      BY <1>1, <1>6, <3>1 DEF TurnAtWork
    <3>3. place' = place /\ step' \in {"commit", "stopped"}
          /\ (step' = "commit" => Processed(Heard) = "accepted")
      BY <1>1, <2>2
    <3>4. step' = "commit" => \A p \in PhaseNames : r.phases[p].status # "unknown"
      <4> SUFFICES ASSUME step' = "commit", NEW p \in PhaseNames PROVE r.phases[p].status # "unknown"
        OBVIOUS
      <4>1. NotDispatched.status # "unknown"
        BY DEF NotDispatched
      <4>2. r.phases["generation"].status = "completed"
        BY <1>4, <1>5, <1>6, <3>3 DEF Answers
      <4> QED BY <3>1, <4>1, <4>2
    <3> QED BY <1>1, <1>4, <1>8, <1>13, <2>2, <3>1, <3>2, <3>3, <3>4, TurnsStay
  <2> QED BY <2>1, <2>2
<1> QED BY <1>12, <1>14, <1>15, <1>16, FolderParts

LEMMA WriteReviewKeeps == ASSUME FolderInv, WriteReview PROVE FolderInv'
<1>1. /\ Walking /\ step = "review" /\ step' = "decide" /\ place' = Onward
      /\ UNCHANGED <<pipeline, stage, record, evidence, truth, stored>>
  BY DEF WriteReview
<1>2. pipeline = "grounded"
  BY <1>1 DEF FolderInv, StepKnows
<1>3. WalkStep
  BY <1>1, OnwardIsNext DEF WalkStep
<1>4. FolderCore'
  BY <1>1, <1>3, GoingOnKeeps
<1>5. CommitsAreStored'
  BY <1>1, WalkKeepsCommits
<1>6. TurnsInOrder'
  BY <1>1, <1>2, OtherPipelines
<1> QED BY <1>1, <1>4, <1>5, <1>6, FolderParts, DecidingKnowsNothing

LEMMA PlacesDiffer ==
  ASSUME FolderInv
  PROVE  /\ AtNextQuestion # AtNextPhase /\ AtNextScript # AtNextPhase
         /\ place.number < Len(Scripts[place.script]) => AtNextScript # AtNextQuestion
<1>1. place \in [script : Positions, number : Positions, phase : Positions]
  BY DEF FolderInv, FolderTyped
<1>2. AtNextPhase.phase = place.phase + 1 /\ AtNextPhase.script = place.script
  BY <1>1 DEF AtNextPhase
<1>3. AtNextScript.phase = 1 /\ AtNextScript.script = place.script + 1
  BY DEF AtNextScript
<1>4. place.number < Len(Scripts[place.script]) =>
        AtNextQuestion = [script |-> place.script, number |-> place.number + 1, phase |-> 1]
  BY <1>1 DEF AtNextQuestion
<1>5. AtNextQuestion.phase = 1
  BY <1>3, <1>4 DEF AtNextQuestion
<1>6. place.number < Len(Scripts[place.script]) => AtNextQuestion.script = place.script
  BY <1>4
<1> QED BY <1>1, <1>2, <1>3, <1>5, <1>6 DEF Positions

\* Only the commit of the record changes.
LEMMA CommitSaved ==
  ASSUME FolderInv, WalkStep, UNCHANGED truth, step' # "call", pipeline = "stateful",
         NEW c \in {"not_attempted", "unknown", "committed"}, NEW r,
         r = [Here EXCEPT !.commit = c], Saved(r)
  PROVE  /\ FolderCore' /\ r.phases = Here.phases /\ r.commit = c
         /\ record'[Question] = r /\ \A q \in Asked : q # Question => record'[q] = record[q]
<1>1. /\ Walking /\ Question \in Asked /\ Phase \in PhaseNames /\ Here \in QuestionRecord
      /\ Here = record[Question]
  BY AtWork DEF WalkStep
<1>2. r \in QuestionRecord /\ r.phases = Here.phases /\ r.commit = c
  BY <1>1 DEF QuestionRecord
<1>3. HonestPhase(r.phases[Phase], truth[Question][Phase])
  BY <1>1, <1>2 DEF FolderInv, PhasesHonest
<1>4. stage # "compare"
  BY <1>1, PhaseFacts
<1>5. FolderCore'
  BY <1>2, <1>3, <1>4, SaveKeeps
<1>6. record'[Question] = r /\ \A q \in Asked : q # Question => record'[q] = record[q]
  BY <1>1, <1>2, SavedHere
<1> QED BY <1>2, <1>5, <1>6

LEMMA AnnounceCommitKeeps == ASSUME FolderInv, AnnounceCommit PROVE FolderInv'
<1> DEFINE r == [Here EXCEPT !.commit = "unknown"]
<1>1. /\ Walking /\ step = "commit" /\ Saved(r) /\ step' = "store"
      /\ UNCHANGED <<pipeline, stage, place, truth, stored>>
  BY DEF AnnounceCommit
<1>2. pipeline = "stateful"
  BY <1>1 DEF FolderInv, StepKnows
<1>3. WalkStep
  <2>1. Here \in QuestionRecord
    BY <1>1, AtWork
  <2>2. r \in QuestionRecord
    BY <2>1 DEF QuestionRecord
  <2>3. evidence'.run = evidence.run
    BY <1>1, <2>2, SavedHere
  <2> QED BY <1>1, <2>3 DEF WalkStep, Steps
<1>4. r = [Here EXCEPT !.commit = "unknown"]
  OBVIOUS
<1> HIDE DEF r
<1>5. /\ FolderCore' /\ r.phases = Here.phases /\ r.commit = "unknown"
      /\ record'[Question] = r /\ \A q \in Asked : q # Question => record'[q] = record[q]
  BY <1>1, <1>2, <1>3, <1>4, CommitSaved
<1>6. StepKnows'
  BY <1>1, <1>2 DEF StepKnows, InCall
<1>7. CommitsAreStored'
  BY <1>1, <1>5 DEF FolderInv, CommitsAreStored
<1>8. TurnsInOrder'
  <2>1. /\ TurnAtWork
        /\ \A p \in PhaseNames \ {"retrieval", "generation"} : Here.phases[p] = NotDispatched
        /\ Phase = "retrieval" => Here.phases["generation"] = NotDispatched
        /\ Phase = "generation" => Here.phases["retrieval"].status = "completed"
    BY <1>1, <1>2, TurnRecords
  <2>2. \A p \in PhaseNames : r.phases[p].status # "unknown"
    BY <1>1, <1>5, <2>1 DEF TurnAtWork
  <2> QED BY <1>1, <1>2, <1>3, <1>5, <2>1, <2>2, TurnsStay
<1> QED BY <1>5, <1>6, <1>7, <1>8, FolderParts

LEMMA StoreTurnKeeps == ASSUME FolderInv, StoreTurn PROVE FolderInv'
<1>1. /\ Walking /\ step = "store" /\ UNCHANGED <<pipeline, stage, place, record, evidence, truth>>
      /\ \/ stored' = stored \cup {Question} /\ step' = "committed"
         \/ stored' = stored /\ step' = "stopped"
  BY DEF StoreTurn
<1>2. pipeline = "stateful" /\ WalkStep
  BY <1>1 DEF FolderInv, StepKnows, WalkStep, Steps
<1>3. FolderCore'
  BY <1>1, <1>2, GoingOnKeeps
<1>4. Question \in Asked /\ Here = record[Question]
  BY <1>1, AtWork
<1>5. /\ TurnAtWork
      /\ \A p \in PhaseNames \ {"retrieval", "generation"} : Here.phases[p] = NotDispatched
      /\ Phase = "retrieval" => Here.phases["generation"] = NotDispatched
      /\ Phase = "generation" => Here.phases["retrieval"].status = "completed"
  BY <1>1, <1>2, TurnRecords
<1>6. Here.commit = "unknown" /\ \A p \in PhaseNames : Here.phases[p].status # "unknown"
  BY <1>1, <1>5 DEF TurnAtWork
<1>7. StepKnows'
  BY <1>1, <1>2 DEF StepKnows, InCall
<1>8. CommitsAreStored'
  BY <1>1, <1>4, <1>6 DEF FolderInv, CommitsAreStored
<1>9. TurnsInOrder'
  <2>1. record'[Question] = Here /\ place' = place /\ step' \in {"committed", "stopped"}
        /\ (step' = "committed" => Question \in stored') /\ stored \subseteq stored'
    BY <1>1, <1>4
  <2> QED BY <1>1, <1>2, <1>5, <1>6, <2>1, TurnsStay
<1> QED BY <1>3, <1>7, <1>8, <1>9, FolderParts

LEMMA ReportCommitKeeps == ASSUME FolderInv, ReportCommit PROVE FolderInv'
<1> DEFINE r == [Here EXCEPT !.commit = "committed"]
<1>1. /\ Walking /\ step = "committed" /\ Saved(r) /\ UNCHANGED <<pipeline, stage, truth, stored>>
      /\ \/ step' = "reopen" /\ place' = place
         \/ step' = "decide" /\ place' = AtNextQuestion
  BY DEF ReportCommit
<1>2. pipeline = "stateful"
  BY <1>1 DEF FolderInv, StepKnows
<1>3. WalkStep
  <2>1. Here \in QuestionRecord
    BY <1>1, AtWork
  <2>2. r \in QuestionRecord
    BY <2>1 DEF QuestionRecord
  <2>3. evidence'.run = evidence.run
    BY <1>1, <2>2, SavedHere
  <2> QED BY <1>1, <2>3 DEF WalkStep, Steps, NextPlace
<1>4. r = [Here EXCEPT !.commit = "committed"]
  OBVIOUS
<1> HIDE DEF r
<1>5. /\ FolderCore' /\ r.phases = Here.phases /\ r.commit = "committed"
      /\ record'[Question] = r /\ \A q \in Asked : q # Question => record'[q] = record[q]
  BY <1>1, <1>2, <1>3, <1>4, CommitSaved
<1>6. /\ TurnAtWork
      /\ \A p \in PhaseNames \ {"retrieval", "generation"} : r.phases[p] = NotDispatched
      /\ Phase = "retrieval" => r.phases["generation"] = NotDispatched
      /\ Phase = "generation" => r.phases["retrieval"].status = "completed"
  BY <1>1, <1>2, <1>5, TurnRecords
<1>7. Question \in stored /\ \A p \in PhaseNames : r.phases[p].status # "unknown"
  BY <1>1, <1>5, <1>6 DEF TurnAtWork
<1>8. StepKnows'
  BY <1>1, <1>2 DEF StepKnows, InCall
<1>9. CommitsAreStored'
  BY <1>1, <1>5, <1>7 DEF FolderInv, CommitsAreStored
<1>10. TurnsInOrder'
  <2>1. CASE step' = "reopen" /\ place' = place
    BY <1>1, <1>2, <1>3, <1>5, <1>6, <1>7, <2>1, TurnsStay
  <2>2. CASE step' = "decide" /\ place' = AtNextQuestion
    <3>1. NextPlace(place') /\ place' # AtNextPhase
      BY <2>2, PlacesDiffer DEF NextPlace
    <3> QED BY <1>1, <1>2, <1>3, <1>5, <1>6, <1>7, <2>2, <3>1, TurnsGoOn
  <2> QED BY <1>1, <2>1, <2>2
<1> QED BY <1>5, <1>8, <1>9, <1>10, FolderParts

\* What the store holds when it is opened again is what was confirmed.
LEMMA ReopenKeeps == ASSUME FolderInv, Reopen PROVE FolderInv' /\ evidence' = evidence
<1>1. /\ Walking /\ step = "reopen" /\ step' = "decide" /\ place' = AtNextQuestion
      /\ evidence' = [evidence EXCEPT !.lost = @ \cup
            ({<<place.script, n>> : n \in 1 .. place.number} \ stored)]
      /\ UNCHANGED <<pipeline, stage, record, truth, stored>>
  BY DEF Reopen
<1>2. pipeline = "stateful"
  BY <1>1 DEF FolderInv, StepKnows
<1>3. /\ TurnAtWork
      /\ \A p \in PhaseNames \ {"retrieval", "generation"} : Here.phases[p] = NotDispatched
      /\ Here.commit = "committed" => \A p \in PhaseNames : Here.phases[p].status # "unknown"
  BY <1>1, <1>2, TurnRecords
<1>4. Question \in Asked /\ Here = record[Question] /\ Question = <<place.script, place.number>>
      /\ place.number \in Nat
  BY <1>1, AtWork
<1>5. Question \in stored /\ \A n \in 1 .. (place.number - 1) : <<place.script, n>> \in stored
  BY <1>1, <1>3 DEF TurnAtWork
<1>6. \A n \in 1 .. place.number : <<place.script, n>> \in stored
  BY <1>4, <1>5
<1>7. evidence' = evidence
  <2>1. {<<place.script, n>> : n \in 1 .. place.number} \ stored = {}
    BY <1>6
  <2>2. evidence \in Folders
    BY DEF FolderInv, FolderTyped
  <2>3. evidence' = [evidence EXCEPT !.lost = evidence.lost \cup {}]
    BY <1>1, <2>1
  <2>4. evidence.lost \cup {} = evidence.lost
    OBVIOUS
  <2> QED BY <2>2, <2>3, <2>4 DEF Folders
<1>8. WalkStep /\ NextPlace(place')
  BY <1>1, <1>7 DEF WalkStep, NextPlace
<1>9. FolderCore'
  BY <1>1, <1>7, <1>8, GoingOnKeeps
<1>10. CommitsAreStored'
  BY <1>1, WalkKeepsCommits
<1>11. TurnsInOrder'
  <2>1. place' # AtNextPhase /\ record'[Question] = Here /\ stored \subseteq stored'
    BY <1>1, <1>4, PlacesDiffer
  <2> QED BY <1>1, <1>2, <1>3, <1>5, <1>8, <2>1, TurnsGoOn
<1> QED BY <1>1, <1>7, <1>9, <1>10, <1>11, FolderParts, DecidingKnowsNothing

LEMMA LeaveScenarioKeeps == ASSUME FolderInv, LeaveScenario PROVE FolderInv'
<1>1. /\ Walking /\ step = "stopped" /\ step' = "decide" /\ place' = AtNextScript
      /\ UNCHANGED <<pipeline, stage, record, evidence, truth, stored>>
  BY DEF LeaveScenario
<1>2. pipeline = "stateful"
  BY <1>1 DEF FolderInv, StepKnows
<1>3. WalkStep /\ NextPlace(place')
  BY <1>1 DEF WalkStep, NextPlace
<1>4. FolderCore'
  BY <1>1, <1>3, GoingOnKeeps
<1>5. CommitsAreStored'
  BY <1>1, WalkKeepsCommits
<1>6. TurnsInOrder'
  <2>1. Question \in Asked /\ Here = record[Question]
    BY <1>1, AtWork
  <2>2. /\ \A p \in PhaseNames \ {"retrieval", "generation"} : Here.phases[p] = NotDispatched
        /\ Here.commit = "committed" => \A p \in PhaseNames : Here.phases[p].status # "unknown"
    BY <1>1, <1>2, TurnRecords
  <2>3. place' # AtNextPhase /\ ~(place' = AtNextQuestion /\ place.number < Len(Scripts[place.script]))
        /\ record'[Question] = Here /\ stored \subseteq stored'
    BY <1>1, <2>1, PlacesDiffer
  <2> QED BY <1>1, <1>2, <1>3, <2>2, <2>3, TurnsGoOn
<1> QED BY <1>1, <1>4, <1>5, <1>6, FolderParts, DecidingKnowsNothing

LEMMA HashIsARecord ==
  ASSUME NEW r \in Records
  PROVE  HashOf(r) \in Records
<1>1. NotDispatched \in PhaseRecord
  BY DEF NotDispatched, PhaseRecord
<1>2. \A q \in Asked : [r[q] EXCEPT !.phases["enhanced"] = NotDispatched] \in QuestionRecord
  BY <1>1 DEF Records, QuestionRecord
<1> QED BY <1>2 DEF HashOf, Records

\* A process that ends leaves what it saved, and nothing it does not explain.
LEMMA EndKeeps ==
  ASSUME FolderInv, stage # "none", stage' = "none", step' = "decide",
         UNCHANGED <<pipeline, place, record, truth, stored>>,
         evidence' \in Folders, evidence'.records = evidence.records,
         evidence'.run = "finished" =>
           /\ ~Walking \/ stage = "compare"
           /\ pipeline = "stateful" => AllCommitted
           /\ pipeline = "rewrite" => HashOf(record) = evidence'.hash
  PROVE  FolderInv'
<1>1. FolderTyped' /\ evidence.records = record
  BY DEF FolderInv, FolderTyped, Steps
<1>2. PlaceOnRoute' /\ NothingAheadCalled' /\ StepKnows' /\ ~Walking'
  BY DEF PlaceOnRoute, NothingAheadCalled, StepKnows, Walking
<1>3. PhasesHonest' /\ CommitsAreStored'
  BY DEF FolderInv, PhasesHonest, HonestPhase, CommitsAreStored
<1>4. UnknownIsExplained'
  BY DEF FolderInv, UnknownIsExplained
<1>5. TurnsInOrder'
  <2>1. AllCommitted' <=> AllCommitted
    BY DEF AllCommitted
  <2> QED BY <1>2, <2>1 DEF FolderInv, TurnsInOrder
<1>6. GroundedInOrder'
  <2>1. RecordsReadable' <=> RecordsReadable
    BY SameReading, ReadablePerRecord
  <2> QED BY <1>2, <2>1 DEF FolderInv, GroundedInOrder
<1>7. (pipeline = "rewrite" => RewriteReadable)'
  BY <1>1 DEF RewriteReadable, HashOf
<1> QED BY <1>1, <1>2, <1>3, <1>4, <1>5, <1>6, <1>7, FolderParts DEF FolderCore

LEMMA FinishWalkKeeps == ASSUME FolderInv, FinishWalk PROVE FolderInv'
<1>1. /\ stage # "none" /\ ~Walking /\ stage' = "none" /\ step' = "decide"
      /\ UNCHANGED <<pipeline, place, record, truth, stored>>
  BY DEF FinishWalk, Walking
<1>2. evidence \in Folders /\ record \in Records /\ stage \in {"run", "compare"}
      /\ evidence.records = record
  BY <1>1 DEF FolderInv, FolderTyped
<1>3. CASE stage = "compare"
  <2>1. evidence' = [evidence EXCEPT !.compare = "finished"]
    BY <1>3 DEF FinishWalk
  <2>2. evidence' \in Folders /\ evidence'.records = evidence.records /\ evidence'.hash = evidence.hash
    BY <1>2, <2>1 DEF Folders
  <2>3. pipeline = "rewrite" /\ HashOf(record) = evidence.hash
    BY <1>1, <1>2, <1>3 DEF FolderInv, PlaceOnRoute, RewriteReadable
  <2> QED BY <1>1, <1>3, <2>2, <2>3, EndKeeps
<1>4. CASE stage = "run"
  <2> DEFINE run == IF pipeline = "stateful" /\ ~AllCommitted THEN "partial" ELSE "finished"
             hash == IF pipeline = "rewrite" THEN HashOf(record) ELSE evidence.hash
  <2>1. evidence' = [evidence EXCEPT !.run = run, !.hash = hash]
    BY <1>4 DEF FinishWalk
  <2>2. /\ hash \in {"none"} \cup Records /\ run \in {"partial", "finished"}
        /\ run = "finished" /\ pipeline = "stateful" => AllCommitted
        /\ pipeline = "rewrite" => HashOf(record) = hash
    BY <1>2, HashIsARecord DEF Folders
  <2> HIDE DEF run, hash
  <2>3. evidence' = [run |-> run, compare |-> evidence.compare, records |-> evidence.records,
                     hash |-> hash, lost |-> evidence.lost]
    BY <1>2, <2>1 DEF Folders
  <2>4. evidence' \in Folders /\ evidence'.records = evidence.records /\ evidence'.hash = hash
        /\ evidence'.run = run
    BY <1>2, <2>2, <2>3 DEF Folders
  <2> QED BY <1>1, <2>2, <2>4, EndKeeps
<1> QED BY <1>2, <1>3, <1>4

LEMMA StopsHalfwayKeeps == ASSUME FolderInv, StopsHalfway PROVE FolderInv'
<1>1. /\ stage # "none" /\ stage' = "none" /\ step' = "decide"
      /\ UNCHANGED <<pipeline, place, record, evidence, truth, stored>>
  BY DEF StopsHalfway
<1>2. evidence \in Folders /\ evidence.records = record /\ stage \in {"run", "compare"}
  BY <1>1 DEF FolderInv, FolderTyped
<1>3. evidence.run = "finished" => /\ stage = "compare"
                                   /\ pipeline = "stateful" => AllCommitted
                                   /\ pipeline = "rewrite" => HashOf(record) = evidence.hash
  BY <1>1, <1>2 DEF FolderInv, PlaceOnRoute, TurnsInOrder, RewriteReadable
<1> QED BY <1>1, <1>2, <1>3, EndKeeps

LEMMA CompareKeeps == ASSUME FolderInv, Compare PROVE FolderInv'
<1>1. /\ pipeline = "rewrite" /\ stage = "none" /\ stage' = "compare" /\ step' = "decide"
      /\ place' = [script |-> 1, number |-> 1, phase |-> 1]
      /\ record' = evidence.records /\ evidence' = [evidence EXCEPT !.compare = "partial"]
      /\ UNCHANGED <<pipeline, truth, stored>>
      /\ evidence.run = "finished" /\ RewriteReadable
      /\ \A q \in Asked : ~evidence.records[q].phases["enhanced"].attempted
  BY DEF Compare, CompareIsOpen
<1>2. evidence \in Folders /\ evidence.records = record /\ FolderTyped
  BY DEF FolderInv, FolderTyped
<1>3. evidence' \in Folders /\ evidence'.records = record /\ evidence'.run = "finished"
      /\ evidence'.hash = evidence.hash /\ record' = record
  BY <1>1, <1>2 DEF Folders
<1>4. FolderTyped'
  BY <1>1, <1>2, <1>3 DEF FolderTyped, Steps, Positions
<1>5. Route' = <<"enhanced">>
  BY <1>1 DEF Route
<1>6. PlaceOnRoute'
  <2>1. 1 \in DOMAIN Scripts /\ 1 \in DOMAIN Scripts[1]
    BY RagExperimentsAssumption
  <2>2. 1 \in DOMAIN Route'
    BY <1>5
  <2> QED BY <1>1, <1>3, <2>1, <2>2 DEF PlaceOnRoute
<1>7. PhasesHonest' /\ CommitsAreStored'
  BY <1>1, <1>3 DEF FolderInv, PhasesHonest, HonestPhase, CommitsAreStored
<1>8. \A q \in Asked : truth[q]["enhanced"] = <<>>
  BY <1>1, <1>2 DEF FolderInv, PhasesHonest, HonestPhase, PhaseNames
<1>9. NothingAheadCalled'
  BY <1>1, <1>5, <1>8 DEF NothingAheadCalled
<1>10. StepKnows' /\ TurnsInOrder'
  BY <1>1, DecidingKnowsNothing, OtherPipelines
<1>11. UnknownIsExplained'
  BY <1>1, <1>3 DEF FolderInv, UnknownIsExplained
<1>12. GroundedInOrder'
  BY <1>1 DEF GroundedInOrder
<1>13. (pipeline = "rewrite" => RewriteReadable)'
  BY <1>1, <1>2, <1>3 DEF RewriteReadable, HashOf
<1> QED BY <1>4, <1>6, <1>7, <1>9, <1>10, <1>11, <1>12, <1>13, FolderParts DEF FolderCore

LEMMA FolderStarts == ASSUME RagExperimentsInit PROVE FolderInv
<1>1. /\ pipeline \in Pipelines /\ stage = "run" /\ step = "prepare"
      /\ place = [script |-> 1, number |-> 1, phase |-> 1]
      /\ truth = [q \in Asked |-> [p \in PhaseNames |-> <<>>]] /\ stored = {}
      /\ evidence = [run |-> "partial", compare |-> "not_dispatched",
                     records |-> record, hash |-> "none", lost |-> {}]
      /\ pipeline = "grounded" => record \in [Asked -> {GatedRecord("near"), GatedRecord("far")}]
      /\ pipeline # "grounded" => record = [q \in Asked |-> NewRecord]
  BY DEF RagExperimentsInit
<1>2. \A q \in Asked : record[q] \in {GatedRecord("near"), GatedRecord("far"), NewRecord}
      /\ (pipeline = "grounded" => record[q] \in {GatedRecord("near"), GatedRecord("far")})
      /\ (pipeline # "grounded" => record[q] = NewRecord)
  BY <1>1
<1>3. \A f \in {"near", "far", "not_computed", "error"} :
        /\ GatedRecord(f) \in QuestionRecord
        /\ \A p \in PhaseNames : GatedRecord(f).phases[p] = NotDispatched
        /\ GatedRecord(f).commit = "not_attempted" /\ GatedRecord(f).found = f
        /\ f = "far" => GatedRecord(f).processing = "accepted" /\ GatedRecord(f).origin = "runtime_gate"
        /\ f # "far" => GatedRecord(f).processing = "pending"
  <2> TAKE f \in {"near", "far", "not_computed", "error"}
  <2>1. NotDispatched \in PhaseRecord
    BY DEF NotDispatched, PhaseRecord
  <2>2. [p \in PhaseNames |-> NotDispatched] \in [PhaseNames -> PhaseRecord]
    BY <2>1
  <2> QED BY <2>2 DEF GatedRecord, QuestionRecord
<1>4. \A q \in Asked : /\ record[q] \in QuestionRecord /\ record[q].commit = "not_attempted"
                       /\ \A p \in PhaseNames : record[q].phases[p] = NotDispatched
  BY <1>2, <1>3 DEF NewRecord
<1>5. NotDispatched.status = "not_dispatched" /\ NotDispatched.attempted = FALSE
  BY DEF NotDispatched
<1>6. record \in Records
  <2>1. record = [q \in Asked |-> record[q]]
    BY <1>1
  <2> QED BY <1>4, <2>1 DEF Records
<1>7. \A q \in Asked, p \in PhaseNames : truth[q][p] = <<>>
  BY <1>1
<1>8. FolderTyped
  <2>1. truth \in [Asked -> [PhaseNames -> Seq(Outcomes)]]
    BY <1>1
  <2> QED BY <1>1, <1>6, <2>1 DEF FolderTyped, Folders, Steps, Positions
<1>9. PlaceOnRoute
  <2>1. 1 \in DOMAIN Scripts /\ 1 \in DOMAIN Scripts[1]
    BY RagExperimentsAssumption
  <2>2. 1 \in DOMAIN Route
    BY <1>1, <1>8, RouteFacts
  <2> QED BY <1>1, <2>1, <2>2 DEF PlaceOnRoute
<1>10. PhasesHonest
  BY <1>4, <1>5, <1>7 DEF PhasesHonest, HonestPhase
<1>11. NothingAheadCalled
  BY <1>1, <1>7, <1>8, RouteFacts DEF NothingAheadCalled
<1>12. StepKnows
  BY <1>1 DEF StepKnows, InCall
<1>13. UnknownIsExplained
  BY <1>4, <1>5 DEF UnknownIsExplained
<1>14. TurnsInOrder
  <2> SUFFICES ASSUME pipeline = "stateful" PROVE TurnsInOrder
    BY DEF TurnsInOrder
  <2>1. \A q \in Asked : record[q] = NewRecord
    BY <1>2
  <2>2. Walking => Question \in Asked
    BY <1>9, AskedPairs DEF Walking, PlaceOnRoute, Question
  <2>3. Walking => Here.commit = "not_attempted" /\ Here.phases["generation"] = NotDispatched
    BY <1>4, <2>2 DEF Here, PhaseNames
  <2>4. Walking => TurnAtWork
    BY <1>1, <2>3 DEF TurnAtWork
  <2> QED BY <1>1, <1>4, <2>1, <2>4 DEF TurnsInOrder
<1>15. GroundedInOrder
  <2> SUFFICES ASSUME pipeline = "grounded" PROVE GroundedInOrder
    BY DEF GroundedInOrder
  <2>1. \A q \in Asked : GroundedRecord(record[q])
    BY <1>2, <1>3, <1>4, <1>5 DEF GroundedRecord, PhaseNames
  <2> QED BY <1>1, <2>1, ReadablePerRecord DEF GroundedInOrder
<1>16. CommitsAreStored
  BY <1>1, <1>4 DEF CommitsAreStored
<1>17. RewriteReadable
  BY <1>1 DEF RewriteReadable
<1> QED BY <1>8, <1>9, <1>10, <1>11, <1>12, <1>13, <1>14, <1>15, <1>16, <1>17 DEF FolderInv

LEMMA FolderStutters ==
  ASSUME FolderInv, UNCHANGED <<pipeline, stage, place, step, record, evidence, truth, stored>>
  PROVE  FolderInv'
<1>1. Route' = Route /\ Question' = Question /\ Phase' = Phase /\ Walking' = Walking /\ Here' = Here
      /\ Heard' = Heard /\ InCall' = InCall
  BY SameRoute, SamePlace DEF Here, Heard, InCall, Question, Phase
<1>2. FolderTyped' /\ PlaceOnRoute' /\ PhasesHonest' /\ CommitsAreStored'
  BY <1>1 DEF FolderInv, FolderTyped, PlaceOnRoute, PhasesHonest, HonestPhase, CommitsAreStored
<1>3. NothingAheadCalled'
  BY <1>1 DEF FolderInv, NothingAheadCalled, Beyond
<1>4. StepKnows'
  <2>1. OutcomesOf(Phase)' = OutcomesOf(Phase) /\ PhaseStatus(Heard)' = PhaseStatus(Heard)
    BY <1>1 DEF OutcomesOf, PhaseStatus
  <2> QED BY <1>1, <2>1 DEF FolderInv, StepKnows
<1>5. UnknownIsExplained'
  BY <1>1 DEF FolderInv, UnknownIsExplained
<1>6. TurnsInOrder'
  <2>1. TurnAtWork' = TurnAtWork /\ AllCommitted' = AllCommitted
    BY <1>1 DEF TurnAtWork, AllCommitted
  <2>2. \A q \in Asked : Untouched(q)' = Untouched(q)
    BY <1>1 DEF Untouched
  <2> QED BY <1>1, <2>1, <2>2 DEF FolderInv, TurnsInOrder
<1>7. GroundedInOrder'
  <2>1. RecordsReadable' <=> RecordsReadable
    BY SameReading, ReadablePerRecord
  <2> QED BY <1>1, <2>1 DEF FolderInv, GroundedInOrder
<1>8. (pipeline = "rewrite" => RewriteReadable)'
  BY DEF FolderInv, RewriteReadable, HashOf
<1> QED BY <1>2, <1>3, <1>4, <1>5, <1>6, <1>7, <1>8, FolderParts DEF FolderCore

-----------------------------------------------------------------------------
(* The set-up of a folder, and day 24's second file.                       *)

LEMMA EndSetupKeeps == ASSUME FolderInv, Prepared, EndSetup PROVE FolderInv'
<1>1. /\ step = "prepare" /\ step' = "decide" /\ NothingBegan
      /\ UNCHANGED <<pipeline, stage, place, record, evidence, truth, stored>>
  BY DEF EndSetup, Prepared
<1>2. Route' = Route /\ Question' = Question /\ Phase' = Phase /\ Walking' = Walking /\ Here' = Here
  BY <1>1, SameRoute, SamePlace DEF Here
<1>3. FolderTyped' /\ PlaceOnRoute' /\ PhasesHonest' /\ CommitsAreStored'
  BY <1>1, <1>2
     DEF FolderInv, FolderTyped, Steps, PlaceOnRoute, PhasesHonest, HonestPhase, CommitsAreStored
<1>4. NothingAheadCalled'
  <2>1. stage # "none" => \A k \in DOMAIN Route : Route[k] \in PhaseNames
    BY RouteFacts DEF FolderInv, PlaceOnRoute
  <2> QED BY <1>1, <1>2, <2>1 DEF NothingAheadCalled, NothingBegan
<1>5. UnknownIsExplained'
  BY <1>1, <1>2 DEF FolderInv, UnknownIsExplained, InCall
<1>6. TurnsInOrder'
  <2> SUFFICES ASSUME pipeline = "stateful" PROVE TurnsInOrder'
    BY <1>1, OtherPipelines
  <2>1. TurnsInOrder /\ \A q \in Asked : record[q] = NewRecord
    BY <1>1 DEF FolderInv, NothingBegan
  <2>2. NewRecord.commit = "not_attempted"
    BY DEF NewRecord, GatedRecord
  <2>3. Walking => Here.commit = "not_attempted"
    BY <2>1, <2>2, AtWork
  <2>4. Walking => TurnAtWork'
    BY <1>1, <1>2, <2>1, <2>3 DEF TurnsInOrder, TurnAtWork
  <2>5. AllCommitted' <=> AllCommitted
    BY <1>1 DEF AllCommitted
  <2> QED BY <1>1, <1>2, <2>1, <2>4, <2>5 DEF TurnsInOrder
<1>7. GroundedInOrder'
  <2>1. RecordsReadable' <=> RecordsReadable
    BY <1>1, SameReading, ReadablePerRecord
  <2> QED BY <1>1, <2>1 DEF FolderInv, GroundedInOrder
<1>8. (pipeline = "rewrite" => RewriteReadable)'
  BY <1>1 DEF FolderInv, RewriteReadable, HashOf
<1> QED BY <1>1, <1>3, <1>4, <1>5, <1>6, <1>7, <1>8, FolderParts, DecidingKnowsNothing
        DEF FolderCore

LEMMA WriteRecordKeeps ==
  ASSUME FolderInv, ReviewInv, WriteRecord
  PROVE  FolderInv' /\ ReviewInv'
<1>1. step = "prepare" /\ UNCHANGED <<pipeline, stage, place, step, record, evidence, truth, stored, review>>
  BY DEF WriteRecord
<1>2. FolderInv'
  BY <1>1, FolderStutters
<1>3. Prepared'
  BY <1>1 DEF ReviewInv, Prepared, NothingBegan
<1>4. AcceptedWasAnswered' /\ ReviewFollows'
  BY <1>1 DEF ReviewInv, AcceptedWasAnswered, ReviewFollows, Question
<1> QED BY <1>2, <1>3, <1>4 DEF ReviewInv

\* The review as it is written: the label every record calls for.
LEMMA SupportLabels == \A r : Support(r) \in {"N/A", "pending", "unavailable"}
BY DEF Support

LEMMA EndSetupReviews == ASSUME ReviewInv, EndSetup PROVE ReviewInv'
<1>1. /\ step = "prepare" /\ step' = "decide" /\ NothingBegan /\ written = Asked
      /\ UNCHANGED <<pipeline, stage, place, record, evidence, truth, stored, written>>
      /\ pipeline = "grounded" => review' = [q \in Asked |-> Support(record[q])]
      /\ pipeline # "grounded" => review' = review
  BY DEF ReviewInv, Prepared, EndSetup
<1>2. IsSetUp'
  BY <1>1, SupportLabels DEF IsSetUp
<1>3. review' \in [Asked -> {"none", "N/A", "pending", "unavailable"}]
  BY <1>1, SupportLabels DEF ReviewInv, Prepared
<1>4. Prepared'
  BY <1>1, <1>2, <1>3 DEF Prepared
<1>5. AcceptedWasAnswered' /\ ReviewFollows'
  BY <1>1 DEF ReviewInv, AcceptedWasAnswered, ReviewFollows
<1> QED BY <1>4, <1>5 DEF ReviewInv

\* A process at work that leaves the review alone and needs none.
LEMMA ReviewGoesOn ==
  ASSUME ReviewInv, stage # "none", step \notin {"prepare", "review"}, step' # "prepare",
         UNCHANGED <<pipeline, written, review>>,
         pipeline = "grounded" => \A q \in Asked :
           /\ Support(record'[q]) = Support(record[q])
           /\ record'[q].processing = "accepted" /\ record'[q].found # "far"
                => truth'[q]["generation"] # <<>>
  PROVE  ReviewInv'
<1>1. IsSetUp' /\ review' \in [Asked -> {"none", "N/A", "pending", "unavailable"}]
  BY DEF ReviewInv, Prepared, IsSetUp
<1>2. Prepared' /\ AcceptedWasAnswered'
  BY <1>1 DEF Prepared, AcceptedWasAnswered
<1>3. pipeline = "grounded" => \A q \in Asked : review[q] \in {"none", Support(record[q])}
  BY DEF ReviewInv, ReviewFollows
<1>4. ReviewFollows'
  BY <1>3 DEF ReviewFollows
<1> QED BY <1>2, <1>4 DEF ReviewInv

LEMMA SkipReviews == ASSUME ReviewInv, Skip PROVE ReviewInv'
BY ReviewGoesOn DEF Skip, Walking, ReviewInv, AcceptedWasAnswered, filesOnDisk

LEMMA SaveAndSendReviews == ASSUME FolderInv, ReviewInv, SaveAndSend PROVE ReviewInv'
<1> DEFINE begun == [Here EXCEPT !.processing = IF Phase = "generation" THEN "unknown" ELSE @]
           r == WithPhase(begun, "unknown", "none")
<1>1. /\ Walking /\ step = "decide" /\ ~Unavailable(Here) /\ Saved(r) /\ step' = "call"
      /\ UNCHANGED <<pipeline, stage, place, truth, written, review>>
  BY DEF SaveAndSend, filesOnDisk
<1>2. /\ Question \in Asked /\ Phase \in PhaseNames /\ Here \in QuestionRecord /\ Here = record[Question]
      /\ Phase = Route[place.phase] /\ place.phase \in DOMAIN Route
  BY <1>1, AtWork
<1>3. CASE pipeline # "grounded"
  BY <1>1, <1>3, ReviewGoesOn DEF Walking
<1>4. CASE pipeline = "grounded"
  <2>1. Phase = "generation" /\ Here.found # "far"
    BY <1>1, <1>4, PhaseFacts DEF Unavailable
  <2>2. begun \in QuestionRecord /\ begun.processing = "unknown"
    BY <1>2, <2>1 DEF QuestionRecord
  <2> HIDE DEF begun
  <2>3. /\ r \in QuestionRecord /\ r.processing = "unknown"
        /\ r.phases[Phase] = [status |-> "unknown", attempted |-> TRUE, outcome |-> "none"]
    BY <1>2, <2>2, WithPhaseFacts
  <2> HIDE DEF r
  <2>4. record'[Question] = r /\ \A q \in Asked : q # Question => record'[q] = record[q]
    BY <1>1, <2>3, SavedHere
  <2>5. truth[Question]["generation"] = <<>>
    BY <1>1, <1>2, <2>1 DEF FolderInv, NothingAheadCalled, Walking
  <2>6. Here.processing # "accepted"
    BY <1>2, <1>4, <2>1, <2>5 DEF ReviewInv, AcceptedWasAnswered
  <2>7. Support(r) = Support(Here)
    BY <2>3, <2>6 DEF Support
  <2> QED BY <1>1, <1>2, <1>4, <2>3, <2>4, <2>7, ReviewGoesOn DEF Walking, ReviewInv, AcceptedWasAnswered
<1> QED BY <1>3, <1>4

LEMMA CallPhaseReviews == ASSUME FolderInv, ReviewInv, CallPhase PROVE ReviewInv'
<1>1. PICK outcome \in OutcomesOf(Phase) :
        truth' = [truth EXCEPT ![Question][Phase] = Append(@, outcome)]
  BY DEF CallPhase
<1>2. /\ Walking /\ step = "call" /\ step' \in {"vector", "reply"}
      /\ UNCHANGED <<pipeline, stage, place, record, written, review>>
  BY DEF CallPhase, filesOnDisk
<1>3. \A q \in Asked, p \in PhaseNames : truth[q][p] # <<>> => truth'[q][p] # <<>>
  <2>1. truth \in [Asked -> [PhaseNames -> Seq(Outcomes)]] /\ outcome \in Outcomes
    BY DEF FolderInv, FolderTyped, OutcomesOf, Outcomes, Embeddings, Answers
  <2>2. Question \in Asked /\ Phase \in PhaseNames
    BY <1>2, AtWork
  <2>3. truth'[Question][Phase] = Append(truth[Question][Phase], outcome)
    BY <1>1, <2>1, <2>2
  <2>4. truth'[Question][Phase] # <<>>
    <3>1. \A t \in Seq(Outcomes) : Append(t, outcome) # <<>>
      BY <2>1
    <3> QED BY <2>1, <2>2, <2>3, <3>1
  <2>5. \A q \in Asked, p \in PhaseNames : q # Question \/ p # Phase => truth'[q][p] = truth[q][p]
    BY <1>1, <2>1, <2>2
  <2> QED BY <2>4, <2>5
<1> QED BY <1>2, <1>3, ReviewGoesOn DEF Walking, ReviewInv, AcceptedWasAnswered, PhaseNames

LEMMA KeepReplyReviews == ASSUME FolderInv, ReviewInv, KeepReply PROVE ReviewInv'
<1> DEFINE r == WithPhase(Here, PhaseStatus(Heard), Heard)
<1>1. /\ Walking /\ step = "reply" /\ Saved(r) /\ step' \in {"validate", "decide"}
      /\ UNCHANGED <<pipeline, stage, truth, written, review>>
  BY DEF KeepReply, filesOnDisk
<1>2. Question \in Asked /\ Phase \in PhaseNames /\ Here \in QuestionRecord /\ Here = record[Question]
  BY <1>1, AtWork
<1>3. Heard \in Outcomes /\ PhaseStatus(Heard) \in {"unknown", "completed", "failed", "error"}
  BY <1>1, WhatItHeard, StatusFacts
<1>4. /\ r \in QuestionRecord /\ r.found = Here.found /\ r.processing = Here.processing
      /\ r.phases[Phase] = [status |-> PhaseStatus(Heard), attempted |-> TRUE, outcome |-> Heard]
      /\ r.origin = Here.origin
  BY <1>2, <1>3, WithPhaseFacts
<1> HIDE DEF r
<1>5. record'[Question] = r /\ \A q \in Asked : q # Question => record'[q] = record[q]
  BY <1>1, <1>4, SavedHere
<1>6. \A q \in Asked : /\ Support(record'[q]) = Support(record[q])
                       /\ record'[q].processing = record[q].processing
                       /\ record'[q].found = record[q].found
  BY <1>2, <1>4, <1>5 DEF Support
<1> QED BY <1>1, <1>6, ReviewGoesOn DEF Walking, ReviewInv, AcceptedWasAnswered

\* Between the two writes the review of an answer is still "unavailable".
LEMMA ValidateReplyReviews == ASSUME FolderInv, ReviewInv, ValidateReply PROVE ReviewInv'
<1> DEFINE r == [Here EXCEPT !.processing = Processed(Heard), !.origin = OriginOf(Heard)]
<1>1. /\ Walking /\ step = "validate" /\ Saved(r)
      /\ step' = IF pipeline = "grounded" THEN "review"
                 ELSE IF Processed(Heard) = "accepted" THEN "commit" ELSE "stopped"
      /\ UNCHANGED <<pipeline, stage, place, truth, written, review>>
  BY DEF ValidateReply, filesOnDisk
<1>2. /\ Question \in Asked /\ Phase \in PhaseNames /\ Here \in QuestionRecord /\ Here = record[Question]
  BY <1>1, AtWork
<1>3. CASE pipeline # "grounded"
  BY <1>1, <1>3, ReviewGoesOn DEF Walking
<1>4. CASE pipeline = "grounded"
  <2>1. truth[Question][Phase] = <<Heard>> /\ Heard \in Outcomes /\ Here.phases[Phase].attempted
        /\ Phase = "generation"
    BY <1>1, <1>4, WhatItHeard, PhaseFacts
  <2>2. Here.processing = "unknown" /\ Here.found # "far" /\ evidence.run = "partial"
    BY <1>1, <1>4, PhaseFacts DEF FolderInv, GroundedInOrder, PlaceOnRoute
  <2>3. r \in QuestionRecord /\ r.phases = Here.phases /\ r.found = Here.found
    <3> DEFINE a == Processed(Heard)  b == OriginOf(Heard)
    <3>1. /\ a \in {"unknown", "completed", "failed", "error", "accepted", "validation_failed"}
          /\ b \in {"runtime_gate", "none", "model_semantic"}
      BY <2>1, StatusFacts DEF OriginOf
    <3>2. r = [Here EXCEPT !.processing = a, !.origin = b]
      OBVIOUS
    <3> HIDE DEF r, a, b
    <3>3. r = [phases |-> Here.phases, found |-> Here.found, processing |-> a, origin |-> b,
               commit |-> Here.commit]
      BY <1>2, <3>2 DEF QuestionRecord
    <3>4. /\ Here.phases \in [PhaseNames -> PhaseRecord]
          /\ Here.found \in {"near", "far", "not_computed", "error"}
          /\ Here.commit \in {"not_attempted", "unknown", "committed"}
      BY <1>2 DEF QuestionRecord
    <3> QED BY <3>1, <3>3, <3>4 DEF QuestionRecord
  <2> HIDE DEF r
  <2>4. /\ record'[Question] = r /\ \A q \in Asked : q # Question => record'[q] = record[q]
        /\ evidence'.run = evidence.run
    BY <1>1, <2>3, SavedHere
  <2>5. /\ \A q \in Asked : review[q] \in {"none", Support(record[q])}
        /\ review[Question] \in {"none", "unavailable"}
    BY <1>1, <1>2, <1>4, <2>2 DEF ReviewInv, ReviewFollows, Support, Walking
  <2>6. Question' = Question /\ step' = "review" /\ pipeline' = "grounded"
    BY <1>1, <1>4, SamePlace
  <2>7. ReviewFollows'
    <3> SUFFICES ASSUME NEW q \in Asked, review'[q] \notin {"none", Support(record'[q])}
                 PROVE  /\ q = Question' /\ review'[q] = "unavailable" /\ evidence'.run = "partial"
                        /\ record'[q].found # "far" /\ record'[q].phases["generation"].attempted
                        /\ stage' # "none" => step' = "review"
      BY DEF ReviewFollows
    <3>1. q = Question
      BY <1>1, <2>4, <2>5
    <3> QED BY <1>1, <2>1, <2>2, <2>3, <2>4, <2>5, <2>6, <3>1
  <2>8. AcceptedWasAnswered'
    <3>1. \A q \in Asked : q # Question => record'[q] = record[q]
      BY <2>4
    <3> QED BY <1>1, <1>4, <2>1, <3>1 DEF ReviewInv, AcceptedWasAnswered
  <2>9. Prepared'
    BY <1>1, <2>6 DEF ReviewInv, Prepared, Walking, IsSetUp
  <2> QED BY <2>7, <2>8, <2>9 DEF ReviewInv
<1> QED BY <1>3, <1>4

LEMMA WriteReviewReviews == ASSUME FolderInv, ReviewInv, WriteReview PROVE ReviewInv'
<1>1. /\ Walking /\ step = "review" /\ step' = "decide"
      /\ review' = [review EXCEPT ![Question] = Support(Here)]
      /\ UNCHANGED <<pipeline, stage, record, truth, written>>
  BY DEF WriteReview
<1>2. Question \in Asked /\ Here = record[Question]
  BY <1>1, AtWork
<1>3. review \in [Asked -> {"none", "N/A", "pending", "unavailable"}] /\ IsSetUp
  BY <1>1 DEF ReviewInv, Prepared, Walking
<1>4. /\ review' \in [Asked -> {"none", "N/A", "pending", "unavailable"}]
      /\ review'[Question] = Support(Here) /\ \A q \in Asked : q # Question => review'[q] = review[q]
  BY <1>1, <1>2, <1>3, SupportLabels
<1>5. IsSetUp'
  BY <1>1, <1>3, <1>4, SupportLabels DEF IsSetUp
<1>6. pipeline = "grounded" => \A q \in Asked : review'[q] \in {"none", Support(record'[q])}
  BY <1>1, <1>2, <1>4 DEF ReviewInv, ReviewFollows
<1>7. ReviewFollows'
  BY <1>1, <1>6 DEF ReviewFollows
<1>8. AcceptedWasAnswered'
  BY <1>1 DEF ReviewInv, AcceptedWasAnswered
<1> QED BY <1>1, <1>4, <1>5, <1>7, <1>8 DEF ReviewInv, Prepared

LEMMA StopsHalfwayReviews == ASSUME ReviewInv, StopsHalfway PROVE ReviewInv'
<1>1. /\ stage' = "none" /\ step' = "decide"
      /\ UNCHANGED <<pipeline, place, record, evidence, truth, written, review>>
  BY DEF StopsHalfway, filesOnDisk
<1> QED BY <1>1 DEF ReviewInv, Prepared, NothingBegan, IsSetUp, AcceptedWasAnswered, ReviewFollows,
                    Question

LEMMA FinishWalkReviews == ASSUME FolderInv, ReviewInv, FinishWalk PROVE ReviewInv'
<1>1. /\ stage # "none" /\ place.script \notin DOMAIN Scripts /\ step' = "decide"
      /\ UNCHANGED <<pipeline, place, record, truth, written, review>>
  BY DEF FinishWalk, filesOnDisk
<1>2. step = "decide"
  BY <1>1 DEF FolderInv, PlaceOnRoute
<1> QED BY <1>1, <1>2, ReviewGoesOn DEF ReviewInv, AcceptedWasAnswered

\* The other steps are not day 24's.
LEMMA OthersReview ==
  ASSUME FolderInv, ReviewInv,
         KeepVector \/ SearchEnds \/ AnnounceCommit \/ StoreTurn \/ ReportCommit \/ Reopen
           \/ LeaveScenario
  PROVE  ReviewInv'
<1>1. Walking /\ step \notin {"prepare", "review"} /\ step' # "prepare"
      /\ UNCHANGED <<pipeline, written, review>>
  BY DEF KeepVector, SearchEnds, AnnounceCommit, StoreTurn, ReportCommit, Reopen, LeaveScenario,
         filesOnDisk
<1>2. pipeline # "grounded"
  <2>1. step \in {"vector", "search", "commit", "store", "committed", "reopen", "stopped"}
    BY DEF KeepVector, SearchEnds, AnnounceCommit, StoreTurn, ReportCommit, Reopen, LeaveScenario
  <2> QED BY <1>1, <2>1, PhaseFacts DEF FolderInv, StepKnows
<1> QED BY <1>1, <1>2, ReviewGoesOn DEF Walking

LEMMA CompareReviews == ASSUME ReviewInv, Compare PROVE ReviewInv'
<1>1. /\ pipeline = "rewrite" /\ IsSetUp /\ step' = "decide"
      /\ UNCHANGED <<pipeline, written, review>>
  BY DEF Compare, CompareIsOpen, filesOnDisk
<1> QED BY <1>1 DEF ReviewInv, Prepared, IsSetUp, AcceptedWasAnswered, ReviewFollows

LEMMA ReviewStarts == ASSUME RagExperimentsInit PROVE ReviewInv
<1>1. /\ step = "prepare" /\ review = [q \in Asked |-> "none"]
      /\ truth = [q \in Asked |-> [p \in PhaseNames |-> <<>>]]
      /\ evidence = [run |-> "partial", compare |-> "not_dispatched",
                     records |-> record, hash |-> "none", lost |-> {}]
      /\ pipeline # "grounded" => record = [q \in Asked |-> NewRecord]
  BY DEF RagExperimentsInit
<1>2. NothingBegan
  BY <1>1 DEF NothingBegan
<1>3. Prepared
  BY <1>1, <1>2 DEF Prepared
<1>4. AcceptedWasAnswered
  <2> SUFFICES ASSUME pipeline = "grounded", NEW q \in Asked, record[q].found # "far"
               PROVE  record[q].processing # "accepted"
    BY DEF AcceptedWasAnswered
  <2>1. record[q] \in {GatedRecord("near"), GatedRecord("far")}
    BY DEF RagExperimentsInit
  <2>2. GatedRecord("near").processing = "pending" /\ GatedRecord("far").found = "far"
    BY DEF GatedRecord
  <2> QED BY <2>1, <2>2
<1>5. ReviewFollows
  BY <1>1 DEF ReviewFollows
<1> QED BY <1>3, <1>4, <1>5 DEF ReviewInv

LEMMA FolderIsBelievable == ASSUME FolderInv, ReviewInv PROVE FolderIsSound
<1>1. evidence.records = record /\ evidence.lost = {} /\ TurnsInOrder /\ UnknownIsExplained
      /\ PhasesHonest /\ CommitsAreStored
  <2>1. evidence \in Folders /\ evidence.records = record
    BY DEF FolderInv, FolderTyped
  <2> QED BY <2>1 DEF FolderInv, Folders
<1>2. \A q \in Asked, p \in PhaseNames : HonestPhase(evidence.records[q].phases[p], truth[q][p])
  BY <1>1 DEF PhasesHonest
<1>3. ASSUME NEW q \in Asked, NEW p \in PhaseNames, evidence.run = "finished", stage = "none",
             p # "enhanced", evidence.records[q].phases[p].status = "unknown"
      PROVE  truth[q][p] \in {<<"timeout">>, <<"bad">>}
  <2>1. pipeline # "stateful"
    BY <1>1, <1>3 DEF TurnsInOrder, AllCommitted
  <2> QED BY <1>1, <1>3, <2>1 DEF UnknownIsExplained
<1>4. EvidenceIsHonest
  <2>1. \A q \in Asked, p \in PhaseNames : truth[q][p] # <<>> => IsSetUp
    BY DEF ReviewInv, Prepared, NothingBegan
  <2> QED BY <1>1, <1>2, <1>3, <2>1 DEF EvidenceIsHonest, HonestPhase, CommitsAreStored
<1>5. CASE pipeline = "grounded"
  <2>1. \A q \in Asked : RecordReadable(q)
    BY <1>5 DEF FolderInv, GroundedInOrder, RecordsReadable
  <2>2. ASSUME NEW q \in Asked, IsSetUp, IsBehind(q)
        PROVE  /\ q = Question /\ review[q] = "unavailable" /\ evidence.run = "partial"
               /\ record[q].found # "far" /\ record[q].phases["generation"].attempted
    BY <1>1, <1>5, <2>2 DEF ReviewInv, ReviewFollows, IsBehind, IsSetUp
  <2>3. ASSUME NEW q \in Asked, IsSetUp, ~ReviewReadable(q)
        PROVE  evidence.run = "partial" /\ evidence.records[q].origin = "model_semantic"
    <3>1. IsBehind(q)
      BY <2>3 DEF ReviewReadable, IsBehind
    <3>2. Support(record[q]) = "N/A"
      BY <1>1, <2>2, <2>3, <3>1 DEF ReviewReadable
    <3>3. record[q].processing = "accepted" /\ record[q].origin # "none"
      BY <3>2 DEF Support
    <3>4. record[q].origin = OriginOf(record[q].phases["generation"].outcome)
      BY <1>1, <2>1, <2>2, <2>3, <3>1, <3>3 DEF RecordReadable
    <3> QED BY <1>1, <2>2, <2>3, <3>1, <3>3, <3>4 DEF OriginOf
  <2> QED BY <1>4, <1>5, <2>1, <2>2, <2>3 DEF FolderIsSound, SavedRunIsReadable
<1>6. CASE pipeline # "grounded"
  BY <1>4, <1>6 DEF FolderInv, SavedRunIsReadable, FolderIsSound
<1> QED BY <1>5, <1>6

\* Days 22 to 25, for any scripts and any point of reopening: whatever stops a
\* run, the folder never claims less than what the provider was asked or more
\* than it answered, and nothing was asked before it was complete.  What it holds
\* can be read back, but for one day-24 abstention whose review was not written.
THEOREM FolderStaysSound == RagExperimentsSpec => []FolderIsSound
<1>1. RagExperimentsInit => FolderInv /\ ReviewInv
  BY FolderStarts, ReviewStarts
<1>2. FolderInv /\ ReviewInv /\ [RagExperimentsNext]_experimentsVars => FolderInv' /\ ReviewInv'
  <2> SUFFICES ASSUME FolderInv, ReviewInv, [RagExperimentsNext]_experimentsVars
               PROVE  FolderInv' /\ ReviewInv'
    OBVIOUS
  <2>1. CASE Skip BY <2>1, SkipKeeps, SkipReviews
  <2>2. CASE SaveAndSend BY <2>2, SaveAndSendKeeps, SaveAndSendReviews
  <2>3. CASE CallPhase BY <2>3, CallPhaseKeeps, CallPhaseReviews
  <2>4. CASE KeepVector BY <2>4, KeepVectorKeeps, OthersReview
  <2>5. CASE SearchEnds BY <2>5, SearchEndsKeeps, OthersReview
  <2>6. CASE KeepReply BY <2>6, KeepReplyKeeps, KeepReplyReviews
  <2>7. CASE ValidateReply BY <2>7, ValidateReplyKeeps, ValidateReplyReviews
  <2>8. CASE AnnounceCommit BY <2>8, AnnounceCommitKeeps, OthersReview
  <2>9. CASE StoreTurn BY <2>9, StoreTurnKeeps, OthersReview
  <2>10. CASE ReportCommit BY <2>10, ReportCommitKeeps, OthersReview
  <2>11. CASE Reopen BY <2>11, ReopenKeeps, OthersReview
  <2>12. CASE LeaveScenario BY <2>12, LeaveScenarioKeeps, OthersReview
  <2>13. CASE FinishWalk BY <2>13, FinishWalkKeeps, FinishWalkReviews
  <2>14. CASE StopsHalfway BY <2>14, StopsHalfwayKeeps, StopsHalfwayReviews
  <2>15. CASE Compare BY <2>15, CompareKeeps, CompareReviews
  <2>16. CASE UNCHANGED experimentsVars
    <3>1. UNCHANGED <<pipeline, stage, place, step, record, evidence, truth, stored>>
      BY <2>16 DEF experimentsVars
    <3>2. ReviewInv'
      BY <2>16 DEF ReviewInv, Prepared, NothingBegan, IsSetUp, AcceptedWasAnswered, ReviewFollows,
                   Question, experimentsVars
    <3> QED BY <3>1, <3>2, FolderStutters
  <2>17. CASE WriteRecord BY <2>17, WriteRecordKeeps
  <2>18. CASE EndSetup BY <2>18, EndSetupKeeps, EndSetupReviews DEF ReviewInv
  <2>19. CASE WriteReview BY <2>19, WriteReviewKeeps, WriteReviewReviews
  <2> QED BY <2>1, <2>2, <2>3, <2>4, <2>5, <2>6, <2>7, <2>8, <2>9, <2>10, <2>11, <2>12,
             <2>13, <2>14, <2>15, <2>16, <2>17, <2>18, <2>19 DEF RagExperimentsNext
<1>3. FolderInv /\ ReviewInv => FolderIsSound
  BY FolderIsBelievable
<1> QED BY <1>1, <1>2, <1>3, PTL DEF RagExperimentsSpec

-----------------------------------------------------------------------------
(* The knowledge folder and its index.                                     *)

Compositions == [Documents -> Texts \cup {NoText}]
Scans == [Documents -> Texts \cup {NoText, Unread}]
Histories == [Documents -> SUBSET (Texts \cup {NoText})]
Policies == [includes : {AllMarkdown} \cup SUBSET Documents, excludes : SUBSET Documents]
Indexes == [policy : Policies, sources : Compositions, model : EmbeddingModels]
Showings == [step : {"reading", "accepted"}, policy : Policies, snapshot : Scans,
             previous : Indexes \cup {NoIndex}, rebuild : BOOLEAN, accepted : BOOLEAN]
IndexingRuns == [step : {"embedding", "embedded"}, policy : Policies, snapshot : Scans,
               accepted : BOOLEAN, model : EmbeddingModels]
Rescans == [step : {"rescanning"}, policy : Policies, snapshot : Scans, accepted : BOOLEAN,
            model : EmbeddingModels, again : Scans, held : Histories]
Checks == [step : {"checking", "read"}, mode : {"text", "vector"}, index : Indexes,
           seen : Scans, held : Histories]
Findings == [step : {"hits"}, ranked : Indexes, returned : Indexes, query : EmbeddingModels,
             held : Histories]

KnowledgeTyped ==
  /\ folder \in Compositions /\ index \in Indexes \cup {NoIndex} /\ embedding \in EmbeddingModels
  /\ indexer \in {IdleIndexer} \cup Showings \cup IndexingRuns \cup Rescans
  /\ searcher \in {IdleSearcher} \cup Checks \cup Findings

\* Nobody publishes between a command's look at the index and its own writing.
PreviousIsCurrent == indexer.step \in {"reading", "accepted"} => indexer.previous = index

\* A command that goes on without asking has nothing new to show.
UnaskedIsShown ==
  indexer.step \in {"accepted", "embedding", "embedded", "rescanning"} /\ ~indexer.accepted =>
     Present(indexer.snapshot) = shown

\* What a scan has read, or found missing, was so since it began.
ScanIsTrue(r, scan, policy) ==
  \A d \in Documents : /\ folder[d] \in r.held[d]
                       /\ Selects(policy, d) => scan[d] = Unread \/ scan[d] \in r.held[d]
ScansAreTrue ==
  /\ indexer.step = "rescanning" => ScanIsTrue(indexer, indexer.again, indexer.policy)
  /\ searcher.step = "checking" => ScanIsTrue(searcher, searcher.seen, searcher.index.policy)
  /\ searcher.step = "read" => HasHeld(searcher, searcher.index.sources, searcher.index.policy)

KnowledgeInv ==
  KnowledgeTyped /\ PreviousIsCurrent /\ UnaskedIsShown /\ ScansAreTrue /\ IndexIsAccepted

LEMMA PolicyIsTyped ==
  ASSUME NEW old \in Policies, NEW a \in Arguments
  PROVE  PolicyFrom(old, a) \in Policies
<1>1. PICK i \in {Kept, AllMarkdown} \cup (SUBSET Documents \ {{}}), e \in {Kept} \cup SUBSET Documents :
         a = [includes |-> i, excludes |-> e]
  BY DEF Arguments
<1>2. OpenPolicy \in Policies
  BY DEF OpenPolicy, Policies
<1> DEFINE base == IF a.includes = AllMarkdown THEN OpenPolicy ELSE old
<1>3. base \in Policies
  BY <1>2
<1> HIDE DEF base
<1>4. /\ base.includes \in {AllMarkdown} \cup SUBSET Documents
      /\ base.excludes \in SUBSET Documents
  BY <1>3 DEF Policies
<1>5. (IF a.includes \in {Kept, AllMarkdown} THEN base.includes ELSE a.includes)
        \in {AllMarkdown} \cup SUBSET Documents
  BY <1>1, <1>4
<1>6. (IF a.excludes = Kept THEN base.excludes ELSE a.excludes) \in SUBSET Documents
  BY <1>1, <1>4
<1> QED BY <1>5, <1>6 DEF PolicyFrom, Policies, base

LEMMA ListingIsTyped ==
  ASSUME KnowledgeTyped, NEW policy
  PROVE  Listed(policy) \in Scans /\ HeldNow \in Histories
BY DEF Listed, HeldNow, KnowledgeTyped, Compositions, Scans, Histories

\* A listing says nothing that is not so.
LEMMA ListingIsTrue ==
  ASSUME KnowledgeTyped, NEW r, r.held = HeldNow, NEW policy
  PROVE  ScanIsTrue(r, Listed(policy), policy)
BY DEF Listed, HeldNow, KnowledgeTyped, Compositions, ScanIsTrue

\* And a file that is read is read as it is.
LEMMA ReadingIsTrue ==
  ASSUME KnowledgeTyped, NEW r, NEW policy, NEW scan \in Scans, ScanIsTrue(r, scan, policy),
         NEW s \in ReadOneMore(scan), NEW q, q.held = r.held
  PROVE  s \in Scans /\ ScanIsTrue(q, s, policy)
<1>1. PICK d \in Documents : s = [scan EXCEPT ![d] = folder[d]]
  BY DEF ReadOneMore, Unreads
<1>2. folder[d] \in Texts \cup {NoText}
  BY DEF KnowledgeTyped, Compositions
<1>3. s \in Scans
  BY <1>1, <1>2 DEF Scans
<1>4. \A e \in Documents : s[e] = scan[e] \/ s[e] = folder[e]
  BY <1>1 DEF Scans
<1> QED BY <1>3, <1>4 DEF ScanIsTrue

\* A scan that has read all it listed is a composition, and has been held.
LEMMA FinishedIsTrue ==
  ASSUME NEW r, NEW policy, NEW scan \in Scans, ScanIsTrue(r, scan, policy), Unreads(scan) = {}
  PROVE  scan \in Compositions /\ HasHeld(r, scan, policy)
<1>1. \A d \in Documents : scan[d] # Unread
  BY DEF Unreads
<1> QED BY <1>1 DEF ScanIsTrue, HasHeld, Scans, Compositions

\* Where nothing was added or deleted the composition is the same.
LEMMA UnaskedIsPrevious ==
  ASSUME NEW i \in Showings, ~NeedsApproval(i)
  PROVE  i.previous # NoIndex /\ Present(i.snapshot) = Present(i.previous.sources)
<1>1. i.previous # NoIndex /\ Added(i.snapshot, Before(i)) = {} /\ Deleted(i.snapshot, Before(i)) = {}
  BY DEF NeedsApproval
<1>2. Before(i) = i.previous.sources
  BY <1>1 DEF Before
<1> QED BY <1>1, <1>2 DEF Added, Deleted

\* A step of the indexing command alone keeps the invariant if it keeps these.
LEMMA CommandKeeps ==
  ASSUME KnowledgeInv, UNCHANGED <<folder, index, embedding, searcher, shown>>,
         indexer' \in {IdleIndexer} \cup Showings \cup IndexingRuns \cup Rescans,
         PreviousIsCurrent', UnaskedIsShown',
         indexer'.step = "rescanning" => ScanIsTrue(indexer, indexer.again, indexer.policy)'
  PROVE  KnowledgeInv'
<1>1. KnowledgeTyped' /\ IndexIsAccepted'
  BY DEF KnowledgeInv, KnowledgeTyped, IndexIsAccepted, HasHeld
<1>2. ScansAreTrue'
  BY DEF KnowledgeInv, ScansAreTrue, ScanIsTrue, HasHeld
<1> QED BY <1>1, <1>2 DEF KnowledgeInv

LEMMA IdleKeeps ==
  ASSUME KnowledgeInv, UNCHANGED <<folder, index, embedding, searcher, shown>>, indexer' = IdleIndexer
  PROVE  KnowledgeInv'
<1>1. PreviousIsCurrent' /\ UnaskedIsShown' /\ indexer'.step # "rescanning"
  BY DEF PreviousIsCurrent, UnaskedIsShown, IdleIndexer
<1> QED BY <1>1, CommandKeeps

LEMMA ShowKeeps ==
  ASSUME KnowledgeInv, NEW a \in Arguments, NEW rebuild \in BOOLEAN, ShowSelection(a, rebuild)
  PROVE  KnowledgeInv'
<1> DEFINE old == IF index = NoIndex THEN OpenPolicy ELSE index.policy
           policy == PolicyFrom(old, a)
<1>1. old \in Policies
  BY DEF KnowledgeInv, KnowledgeTyped, Indexes, OpenPolicy, Policies
<1>2. policy \in Policies
  BY <1>1, PolicyIsTyped
<1>3. Listed(policy) \in Scans
  BY ListingIsTyped DEF KnowledgeInv
<1>4. indexer' = [step |-> "reading", policy |-> policy, snapshot |-> Listed(policy),
                  previous |-> index, rebuild |-> rebuild, accepted |-> FALSE]
      /\ UNCHANGED <<folder, index, embedding, searcher, shown>>
  BY DEF ShowSelection
<1> HIDE DEF policy
<1>5. indexer' \in Showings /\ indexer'.step = "reading" /\ indexer'.previous = index
  BY <1>2, <1>3, <1>4 DEF Showings, KnowledgeInv, KnowledgeTyped
<1>6. PreviousIsCurrent' /\ UnaskedIsShown'
  BY <1>4, <1>5 DEF PreviousIsCurrent, UnaskedIsShown
<1> QED BY <1>4, <1>5, <1>6, CommandKeeps

LEMMA DocumentKeeps == ASSUME KnowledgeInv, ReadDocument PROVE KnowledgeInv'
<1>1. indexer \in Showings /\ indexer.step = "reading" /\ indexer.previous = index
  BY DEF ReadDocument, KnowledgeInv, KnowledgeTyped, PreviousIsCurrent, IdleIndexer, IndexingRuns, Rescans
<1>2. UNCHANGED <<folder, index, embedding, searcher, shown>>
  BY DEF ReadDocument
<1>3. ASSUME NEW s \in ReadOneMore(indexer.snapshot), indexer' = [indexer EXCEPT !.snapshot = s]
      PROVE  KnowledgeInv'
  <2>1. s \in Scans
    <3>1. PICK d \in Documents : s = [indexer.snapshot EXCEPT ![d] = folder[d]]
      BY <1>3 DEF ReadOneMore, Unreads
    <3>2. folder[d] \in Texts \cup {NoText} /\ indexer.snapshot \in Scans
      BY <1>1 DEF KnowledgeInv, KnowledgeTyped, Compositions, Showings
    <3> QED BY <3>1, <3>2 DEF Scans
  <2>2. indexer' \in Showings /\ indexer'.step = "reading" /\ indexer'.previous = index
    BY <1>1, <1>3, <2>1 DEF Showings
  <2>3. PreviousIsCurrent' /\ UnaskedIsShown'
    BY <1>2, <2>2 DEF PreviousIsCurrent, UnaskedIsShown
  <2> QED BY <1>2, <2>2, <2>3, CommandKeeps
<1> QED BY <1>2, <1>3, IdleKeeps DEF ReadDocument

LEMMA AcceptKeeps == ASSUME KnowledgeInv, AcceptSelection PROVE KnowledgeInv'
<1>1. indexer \in Showings /\ indexer.step = "reading" /\ indexer.previous = index
  BY DEF AcceptSelection, KnowledgeInv, KnowledgeTyped, PreviousIsCurrent, IdleIndexer, IndexingRuns, Rescans
<1>2. UNCHANGED <<folder, index, embedding, searcher, shown>>
  BY DEF AcceptSelection
<1>3. CASE indexer' = IdleIndexer
  BY <1>2, <1>3, IdleKeeps
<1>4. CASE indexer' = [indexer EXCEPT !.step = "accepted", !.accepted = TRUE]
  <2>1. indexer' \in Showings /\ indexer'.step = "accepted" /\ indexer'.accepted /\ indexer'.previous = index
    BY <1>1, <1>4 DEF Showings
  <2>2. PreviousIsCurrent' /\ UnaskedIsShown'
    BY <1>2, <2>1 DEF PreviousIsCurrent, UnaskedIsShown
  <2> QED BY <1>2, <2>1, <2>2, CommandKeeps
<1>5. CASE ~NeedsApproval(indexer) /\ indexer' = [indexer EXCEPT !.step = "accepted"]
  <2>1. /\ indexer' \in Showings /\ indexer'.step = "accepted" /\ indexer'.previous = index
        /\ indexer'.snapshot = indexer.snapshot
    BY <1>1, <1>5 DEF Showings
  <2>2. Present(indexer.snapshot) = shown
    BY <1>1, <1>5, UnaskedIsPrevious DEF KnowledgeInv, IndexIsAccepted
  <2>3. Present(indexer'.snapshot) = shown'
    BY <1>2, <2>1, <2>2 DEF Present
  <2>4. PreviousIsCurrent' /\ UnaskedIsShown'
    BY <1>2, <2>1, <2>3 DEF PreviousIsCurrent, UnaskedIsShown
  <2> QED BY <1>2, <2>1, <2>4, CommandKeeps
<1> QED BY <1>3, <1>4, <1>5 DEF AcceptSelection

LEMMA CheckProfileKeeps == ASSUME KnowledgeInv, CheckProfile PROVE KnowledgeInv'
<1>1. indexer \in Showings /\ indexer.step = "accepted"
  BY DEF CheckProfile, KnowledgeInv, KnowledgeTyped, IdleIndexer, IndexingRuns, Rescans
<1>2. UNCHANGED <<folder, index, embedding, searcher, shown>>
  BY DEF CheckProfile
<1>3. CASE indexer' = IdleIndexer
  BY <1>2, <1>3, IdleKeeps
<1>4. CASE indexer' = [step |-> "embedding", policy |-> indexer.policy, snapshot |-> indexer.snapshot,
                       accepted |-> indexer.accepted, model |-> embedding]
  <2>1. /\ indexer' \in IndexingRuns /\ indexer'.step = "embedding"
        /\ indexer'.snapshot = indexer.snapshot /\ indexer'.accepted = indexer.accepted
    BY <1>1, <1>4 DEF Showings, IndexingRuns, KnowledgeInv, KnowledgeTyped
  <2>2. PreviousIsCurrent' /\ UnaskedIsShown'
    BY <1>1, <1>2, <2>1 DEF KnowledgeInv, PreviousIsCurrent, UnaskedIsShown, Present
  <2> QED BY <1>2, <2>1, <2>2, CommandKeeps
<1> QED BY <1>3, <1>4 DEF CheckProfile

LEMMA EmbedKeeps == ASSUME KnowledgeInv, EmbedChunks PROVE KnowledgeInv'
<1>1. indexer \in IndexingRuns /\ indexer.step = "embedding"
  BY DEF EmbedChunks, KnowledgeInv, KnowledgeTyped, IdleIndexer, Showings, Rescans
<1>2. UNCHANGED <<folder, index, embedding, searcher, shown>>
  BY DEF EmbedChunks
<1>3. CASE indexer' = IdleIndexer
  BY <1>2, <1>3, IdleKeeps
<1>4. CASE indexer' = [indexer EXCEPT !.step = "embedded"]
  <2>1. /\ indexer' \in IndexingRuns /\ indexer'.step = "embedded"
        /\ indexer'.snapshot = indexer.snapshot /\ indexer'.accepted = indexer.accepted
    BY <1>1, <1>4 DEF IndexingRuns
  <2>2. PreviousIsCurrent' /\ UnaskedIsShown'
    BY <1>1, <1>2, <2>1 DEF KnowledgeInv, PreviousIsCurrent, UnaskedIsShown, Present
  <2> QED BY <1>2, <2>1, <2>2, CommandKeeps
<1> QED BY <1>3, <1>4 DEF EmbedChunks

LEMMA RescanKeeps == ASSUME KnowledgeInv, Rescan PROVE KnowledgeInv'
<1>1. indexer \in IndexingRuns /\ indexer.step = "embedded"
  BY DEF Rescan, KnowledgeInv, KnowledgeTyped, IdleIndexer, Showings, Rescans
<1>2. /\ UNCHANGED <<folder, index, embedding, searcher, shown>>
      /\ indexer' = [step |-> "rescanning", policy |-> indexer.policy, snapshot |-> indexer.snapshot,
                     accepted |-> indexer.accepted, model |-> indexer.model,
                     again |-> Listed(indexer.policy), held |-> HeldNow]
  BY DEF Rescan
<1>3. Listed(indexer.policy) \in Scans /\ HeldNow \in Histories
  BY ListingIsTyped DEF KnowledgeInv
<1>4. /\ indexer' \in Rescans /\ indexer'.step = "rescanning" /\ indexer'.held = HeldNow
      /\ indexer'.again = Listed(indexer.policy) /\ indexer'.policy = indexer.policy
      /\ indexer'.snapshot = indexer.snapshot /\ indexer'.accepted = indexer.accepted
  BY <1>1, <1>2, <1>3 DEF IndexingRuns, Rescans
<1>5. ScanIsTrue(indexer', Listed(indexer.policy), indexer.policy)
  BY <1>4, ListingIsTrue DEF KnowledgeInv
<1>6. ScanIsTrue(indexer, indexer.again, indexer.policy)'
  BY <1>2, <1>4, <1>5 DEF ScanIsTrue, Selects
<1>7. PreviousIsCurrent' /\ UnaskedIsShown'
  BY <1>1, <1>2, <1>4 DEF KnowledgeInv, PreviousIsCurrent, UnaskedIsShown, Present
<1> QED BY <1>2, <1>4, <1>6, <1>7, CommandKeeps

LEMMA ReadOnceMoreKeeps == ASSUME KnowledgeInv, ReadOnceMore PROVE KnowledgeInv'
<1>1. indexer \in Rescans /\ ScanIsTrue(indexer, indexer.again, indexer.policy)
  BY DEF ReadOnceMore, KnowledgeInv, KnowledgeTyped, ScansAreTrue, IdleIndexer, Showings, IndexingRuns
<1>2. UNCHANGED <<folder, index, embedding, searcher, shown>>
  BY DEF ReadOnceMore
<1>3. ASSUME NEW s \in ReadOneMore(indexer.again), indexer' = [indexer EXCEPT !.again = s]
      PROVE  KnowledgeInv'
  <2>1. indexer'.held = indexer.held
    BY <1>1, <1>3 DEF Rescans
  <2>2. s \in Scans /\ ScanIsTrue(indexer', s, indexer.policy)
    <3>1. indexer.again \in Scans
      BY <1>1 DEF Rescans
    <3> QED BY <1>1, <1>3, <2>1, <3>1, ReadingIsTrue DEF KnowledgeInv
  <2>3. /\ indexer' \in Rescans /\ indexer'.step = "rescanning" /\ indexer'.again = s
        /\ indexer'.policy = indexer.policy /\ indexer'.snapshot = indexer.snapshot
        /\ indexer'.accepted = indexer.accepted
    BY <1>1, <1>3, <2>2 DEF Rescans
  <2>4. ScanIsTrue(indexer, indexer.again, indexer.policy)'
    BY <1>2, <2>2, <2>3 DEF ScanIsTrue, Selects
  <2>5. PreviousIsCurrent' /\ UnaskedIsShown'
    BY <1>1, <1>2, <2>3 DEF KnowledgeInv, PreviousIsCurrent, UnaskedIsShown, Present, Rescans
  <2> QED BY <1>2, <2>3, <2>4, <2>5, CommandKeeps
<1> QED BY <1>2, <1>3, IdleKeeps DEF ReadOnceMore

LEMMA PublishKeeps == ASSUME KnowledgeInv, PublishIndex PROVE KnowledgeInv' /\ PublishedIsCurrent
<1>1. indexer \in Rescans /\ ScanIsTrue(indexer, indexer.again, indexer.policy)
      /\ Unreads(indexer.again) = {}
  BY DEF PublishIndex, KnowledgeInv, KnowledgeTyped, ScansAreTrue, IdleIndexer, Showings, IndexingRuns
<1>2. UNCHANGED <<folder, embedding, searcher, edits, commands>> /\ indexer' = IdleIndexer
  BY DEF PublishIndex
<1>3. CASE UNCHANGED <<index, shown>>
  BY <1>2, <1>3, IdleKeeps DEF PublishedIsCurrent
<1>4. CASE /\ indexer.again = indexer.snapshot
           /\ index' = [policy |-> StoredPolicy(indexer), sources |-> indexer.snapshot,
                        model |-> indexer.model]
           /\ shown' = IF indexer.accepted THEN Present(indexer.snapshot) ELSE shown
  <2>1. StoredPolicy(indexer) \in Policies
    BY <1>1 DEF StoredPolicy, Rescans, Policies, Present, Scans
  <2>2. indexer.again \in Compositions /\ HasHeld(indexer, indexer.again, indexer.policy)
    <3>1. indexer.again \in Scans
      BY <1>1 DEF Rescans
    <3> QED BY <1>1, <3>1, FinishedIsTrue
  <2>3. index' \in Indexes /\ index'.sources = indexer.snapshot
    BY <1>1, <1>4, <2>1, <2>2 DEF Indexes, Rescans
  <2>4. Present(indexer.snapshot) = shown'
    BY <1>1, <1>4 DEF KnowledgeInv, UnaskedIsShown, Rescans
  <2>5. PublishedIsCurrent
    BY <1>4, <2>2, <2>3 DEF PublishedIsCurrent
  <2>6. KnowledgeTyped' /\ PreviousIsCurrent' /\ UnaskedIsShown'
    BY <1>2, <2>3 DEF KnowledgeInv, KnowledgeTyped, PreviousIsCurrent, UnaskedIsShown, IdleIndexer
  <2>7. ScansAreTrue'
    BY <1>2 DEF KnowledgeInv, ScansAreTrue, ScanIsTrue, HasHeld, IdleIndexer
  <2>8. IndexIsAccepted'
    BY <1>2, <2>3, <2>4 DEF KnowledgeInv, IndexIsAccepted, HasHeld, Present
  <2> QED BY <2>5, <2>6, <2>7, <2>8 DEF KnowledgeInv
<1> QED BY <1>3, <1>4 DEF PublishIndex, SameHashes

\* A step of the search alone keeps the invariant if it keeps these.
LEMMA SearchKeepsParts ==
  ASSUME KnowledgeInv, UNCHANGED <<folder, index, embedding, indexer, shown>>,
         searcher' \in {IdleSearcher} \cup Checks \cup Findings,
         searcher'.step = "checking" => ScanIsTrue(searcher, searcher.seen, searcher.index.policy)',
         searcher'.step = "read" =>
           HasHeld(searcher', searcher'.index.sources, searcher'.index.policy),
         searcher'.step = "hits" =>
           /\ searcher'.ranked = searcher'.returned
           /\ searcher'.query = searcher'.returned.model
           /\ HasHeld(searcher', searcher'.returned.sources, searcher'.returned.policy)
  PROVE  KnowledgeInv'
<1>1. KnowledgeTyped' /\ PreviousIsCurrent' /\ UnaskedIsShown'
  BY DEF KnowledgeInv, KnowledgeTyped, PreviousIsCurrent, UnaskedIsShown, Present
<1>2. ScansAreTrue'
  BY DEF KnowledgeInv, ScansAreTrue, ScanIsTrue, HasHeld
<1>3. IndexIsAccepted'
  BY DEF KnowledgeInv, IndexIsAccepted, HasHeld, Present
<1> QED BY <1>1, <1>2, <1>3 DEF KnowledgeInv

LEMMA SearchStopsKeeps ==
  ASSUME KnowledgeInv, UNCHANGED <<folder, index, embedding, indexer, shown>>, searcher' = IdleSearcher
  PROVE  KnowledgeInv'
<1>1. searcher'.step = "idle"
  BY DEF IdleSearcher
<1> QED BY <1>1, SearchKeepsParts

LEMMA BeginSearchKeeps == ASSUME KnowledgeInv, BeginSearch PROVE KnowledgeInv'
<1>1. UNCHANGED <<folder, index, embedding, indexer, shown>> /\ index \in Indexes
  BY DEF BeginSearch, KnowledgeInv, KnowledgeTyped
<1>2. PICK mode \in {"text", "vector"} :
        searcher' = [step |-> "checking", mode |-> mode, index |-> index,
                     seen |-> Listed(index.policy), held |-> HeldNow]
  BY DEF BeginSearch
<1>3. Listed(index.policy) \in Scans /\ HeldNow \in Histories
  BY ListingIsTyped DEF KnowledgeInv
<1>4. /\ searcher' \in Checks /\ searcher'.step = "checking" /\ searcher'.held = HeldNow
      /\ searcher'.seen = Listed(index.policy) /\ searcher'.index = index
  BY <1>1, <1>2, <1>3 DEF Checks
<1>5. ScanIsTrue(searcher', Listed(index.policy), index.policy)
  BY <1>4, ListingIsTrue DEF KnowledgeInv
<1>6. ScanIsTrue(searcher, searcher.seen, searcher.index.policy)'
  BY <1>1, <1>4, <1>5 DEF ScanIsTrue, Selects
<1> QED BY <1>1, <1>4, <1>6, SearchKeepsParts

LEMMA ReadToCheckKeeps == ASSUME KnowledgeInv, ReadToCheck PROVE KnowledgeInv'
<1>1. searcher \in Checks /\ searcher.step = "checking"
      /\ ScanIsTrue(searcher, searcher.seen, searcher.index.policy)
  BY DEF ReadToCheck, KnowledgeInv, KnowledgeTyped, ScansAreTrue, IdleSearcher, Findings
<1>2. UNCHANGED <<folder, index, embedding, indexer, shown>>
  BY DEF ReadToCheck
<1>3. ASSUME NEW s \in ReadOneMore(searcher.seen), searcher' = [searcher EXCEPT !.seen = s]
      PROVE  KnowledgeInv'
  <2>1. searcher'.held = searcher.held
    BY <1>1, <1>3 DEF Checks
  <2>2. s \in Scans /\ ScanIsTrue(searcher', s, searcher.index.policy)
    <3>1. searcher.seen \in Scans
      BY <1>1 DEF Checks
    <3>2. PICK q : q = searcher' /\ q.held = searcher.held
      BY <2>1
    <3>3. PICK scan, policy : scan = searcher.seen /\ policy = searcher.index.policy
      OBVIOUS
    <3>4. KnowledgeTyped /\ scan \in Scans /\ ScanIsTrue(searcher, scan, policy) /\ s \in ReadOneMore(scan)
      BY <1>1, <1>3, <3>1, <3>3 DEF KnowledgeInv
    <3>5. s \in Scans /\ ScanIsTrue(q, s, policy)
      BY <3>2, <3>4, ReadingIsTrue
    <3> QED BY <3>2, <3>3, <3>5
  <2>3. /\ searcher' \in Checks /\ searcher'.step = "checking" /\ searcher'.seen = s
        /\ searcher'.index = searcher.index
    BY <1>1, <1>3, <2>2 DEF Checks
  <2>4. ScanIsTrue(searcher, searcher.seen, searcher.index.policy)'
    BY <1>2, <2>2, <2>3 DEF ScanIsTrue, Selects
  <2> QED BY <1>2, <2>3, <2>4, SearchKeepsParts
<1> QED BY <1>2, <1>3, SearchStopsKeeps DEF ReadToCheck

LEMMA FolderIsCheckedKeeps == ASSUME KnowledgeInv, FolderIsChecked PROVE KnowledgeInv'
<1>1. searcher \in Checks /\ Unreads(searcher.seen) = {}
      /\ ScanIsTrue(searcher, searcher.seen, searcher.index.policy)
  BY DEF FolderIsChecked, KnowledgeInv, KnowledgeTyped, ScansAreTrue, IdleSearcher, Findings
<1>2. UNCHANGED <<folder, index, embedding, indexer, shown>>
  BY DEF FolderIsChecked
<1>3. CASE searcher' = IdleSearcher
  BY <1>2, <1>3, SearchStopsKeeps
<1>4. CASE searcher.seen = searcher.index.sources /\ searcher' = [searcher EXCEPT !.step = "read"]
  <2>1. HasHeld(searcher, searcher.seen, searcher.index.policy)
    <3>1. searcher.seen \in Scans
      BY <1>1 DEF Checks
    <3> QED BY <1>1, <3>1, FinishedIsTrue
  <2>2. /\ searcher' \in Checks /\ searcher'.step = "read" /\ searcher'.index = searcher.index
        /\ searcher'.held = searcher.held
    BY <1>1, <1>4 DEF Checks
  <2>3. HasHeld(searcher', searcher'.index.sources, searcher'.index.policy)
    BY <1>4, <2>1, <2>2 DEF HasHeld
  <2> QED BY <1>2, <2>2, <2>3, SearchKeepsParts
<1> QED BY <1>3, <1>4 DEF FolderIsChecked, IsFresh

LEMMA RankKeeps == ASSUME KnowledgeInv, RankChunks PROVE KnowledgeInv'
<1>1. searcher \in Checks /\ searcher.step = "read"
      /\ HasHeld(searcher, searcher.index.sources, searcher.index.policy)
  BY DEF RankChunks, KnowledgeInv, KnowledgeTyped, ScansAreTrue, IdleSearcher, Findings
<1>2. UNCHANGED <<folder, index, embedding, indexer, shown>>
  BY DEF RankChunks
<1>3. CASE searcher' = IdleSearcher
  BY <1>2, <1>3, SearchStopsKeeps
<1>4. CASE searcher' = [step |-> "hits", ranked |-> searcher.index, returned |-> searcher.index,
                        query |-> searcher.index.model, held |-> searcher.held]
  <2>1. searcher.index \in Indexes /\ searcher.index.model \in EmbeddingModels
        /\ searcher.held \in Histories
    BY <1>1 DEF Checks, Indexes
  <2>2. /\ searcher' \in Findings /\ searcher'.step = "hits" /\ searcher'.ranked = searcher'.returned
        /\ searcher'.query = searcher'.returned.model /\ searcher'.returned = searcher.index
        /\ searcher'.held = searcher.held
    BY <1>4, <2>1 DEF Findings
  <2>3. HasHeld(searcher', searcher'.returned.sources, searcher'.returned.policy)
    BY <1>1, <2>2 DEF HasHeld
  <2> QED BY <1>2, <2>2, <2>3, SearchKeepsParts
<1> QED BY <1>3, <1>4 DEF RankChunks, IndexIsSame

LEMMA SearchKeeps ==
  ASSUME KnowledgeInv, BeginSearch \/ ReadToCheck \/ FolderIsChecked \/ RankChunks \/ TakeHits
  PROVE  KnowledgeInv'
BY BeginSearchKeeps, ReadToCheckKeeps, FolderIsCheckedKeeps, RankKeeps, SearchStopsKeeps DEF TakeHits

\* What has been held stays so, and an edit is held as well.
LEMMA HoldingGrows ==
  ASSUME NEW r \in Rescans \cup Checks, NEW d \in Documents, NEW text \in Texts \cup {NoText}
  PROVE  /\ Holds(r, d, text).held \in Histories
         /\ \A e \in Documents : r.held[e] \subseteq Holds(r, d, text).held[e]
         /\ r.step \in {"rescanning", "checking"} => text \in Holds(r, d, text).held[d]
         /\ r \in Rescans => /\ Holds(r, d, text) \in Rescans
                             /\ Holds(r, d, text).again = r.again /\ Holds(r, d, text).policy = r.policy
                             /\ Holds(r, d, text).snapshot = r.snapshot
                             /\ Holds(r, d, text).accepted = r.accepted
         /\ r \in Checks => /\ Holds(r, d, text) \in Checks /\ Holds(r, d, text).step = r.step
                            /\ Holds(r, d, text).seen = r.seen /\ Holds(r, d, text).index = r.index
<1>1. r.held \in Histories
  BY DEF Rescans, Checks
<1> DEFINE h == [r.held EXCEPT ![d] = @ \cup {text}]
<1>2. h \in Histories /\ (\A e \in Documents : r.held[e] \subseteq h[e]) /\ text \in h[d]
  BY <1>1 DEF Histories
<1> HIDE DEF h
<1>3. CASE r.step \in {"rescanning", "checking"}
  <2>1. Holds(r, d, text) = [r EXCEPT !.held = h]
    BY <1>3 DEF Holds, h
  <2> QED BY <1>2, <2>1 DEF Rescans, Checks
<1>4. CASE r.step \notin {"rescanning", "checking"}
  BY <1>1, <1>4 DEF Holds
<1> QED BY <1>3, <1>4

LEMMA EditKeeps == ASSUME KnowledgeInv, EditFolder PROVE KnowledgeInv'
<1>1. UNCHANGED <<index, embedding, shown>>
  BY DEF EditFolder
<1>2. PICK d \in Documents, text \in Texts \cup {NoText} :
        /\ folder' = [folder EXCEPT ![d] = text]
        /\ indexer' = Holds(indexer, d, text) /\ searcher' = Holds(searcher, d, text)
  BY DEF EditFolder
<1>3. folder' \in Compositions /\ \A e \in Documents : folder'[e] = IF e = d THEN text ELSE folder[e]
  BY <1>2 DEF KnowledgeInv, KnowledgeTyped, Compositions
<1>4. indexer.step # "rescanning" => indexer' = indexer
  BY <1>2 DEF Holds, KnowledgeInv, KnowledgeTyped, IdleIndexer, Showings, IndexingRuns, Rescans
<1>5. ASSUME indexer.step = "rescanning"
      PROVE  /\ indexer' \in Rescans /\ ScanIsTrue(indexer, indexer.again, indexer.policy)'
             /\ indexer'.snapshot = indexer.snapshot /\ indexer'.accepted = indexer.accepted
  <2>1. indexer \in Rescans
    BY <1>5 DEF KnowledgeInv, KnowledgeTyped, IdleIndexer, Showings, IndexingRuns
  <2>2. ScanIsTrue(indexer, indexer.again, indexer.policy)
    BY <1>5 DEF KnowledgeInv, ScansAreTrue
  <2>3. /\ indexer' \in Rescans /\ indexer'.again = indexer.again /\ indexer'.policy = indexer.policy
        /\ indexer'.snapshot = indexer.snapshot /\ indexer'.accepted = indexer.accepted
        /\ \A e \in Documents : indexer.held[e] \subseteq indexer'.held[e]
        /\ text \in indexer'.held[d]
    BY <1>2, <1>5, <2>1, HoldingGrows
  <2> QED BY <1>3, <2>2, <2>3 DEF ScanIsTrue, Selects
<1>6. searcher \notin Checks => searcher' = searcher
  BY <1>2 DEF Holds, KnowledgeInv, KnowledgeTyped, IdleSearcher, Findings
<1>7. ASSUME searcher \in Checks
      PROVE  /\ searcher' \in Checks /\ searcher'.step = searcher.step
             /\ searcher'.index = searcher.index
             /\ searcher.step = "checking" => ScanIsTrue(searcher, searcher.seen, searcher.index.policy)'
             /\ \A e \in Documents : searcher.held[e] \subseteq searcher'.held[e]
  <2>1. searcher.step = "checking" => ScanIsTrue(searcher, searcher.seen, searcher.index.policy)
    BY DEF KnowledgeInv, ScansAreTrue
  <2>2. /\ searcher' \in Checks /\ searcher'.step = searcher.step /\ searcher'.index = searcher.index
        /\ searcher'.seen = searcher.seen
        /\ \A e \in Documents : searcher.held[e] \subseteq searcher'.held[e]
        /\ searcher.step = "checking" => text \in searcher'.held[d]
    BY <1>2, <1>7, HoldingGrows
  <2> QED BY <1>3, <2>1, <2>2 DEF ScanIsTrue, Selects
<1>8. KnowledgeTyped'
  BY <1>1, <1>3, <1>4, <1>5, <1>6, <1>7 DEF KnowledgeInv, KnowledgeTyped
<1>9. PreviousIsCurrent' /\ UnaskedIsShown'
  <2>1. indexer.step # "rescanning" => PreviousIsCurrent' /\ UnaskedIsShown'
    BY <1>1, <1>4 DEF KnowledgeInv, PreviousIsCurrent, UnaskedIsShown, Present
  <2>2. indexer.step = "rescanning" => PreviousIsCurrent' /\ UnaskedIsShown'
    BY <1>1, <1>5 DEF KnowledgeInv, PreviousIsCurrent, UnaskedIsShown, Present, Rescans
  <2> QED BY <2>1, <2>2
<1>10. ScansAreTrue'
  <2>1. indexer'.step = "rescanning" => ScanIsTrue(indexer, indexer.again, indexer.policy)'
    BY <1>4, <1>5
  <2>2. searcher'.step = "checking" => ScanIsTrue(searcher, searcher.seen, searcher.index.policy)'
    <3>1. searcher'.step = "checking" => searcher \in Checks
      BY <1>6 DEF KnowledgeInv, KnowledgeTyped, IdleSearcher, Findings
    <3> QED BY <1>7, <3>1
  <2>3. searcher'.step = "read" => HasHeld(searcher', searcher'.index.sources, searcher'.index.policy)
    <3>1. searcher'.step = "read" => searcher \in Checks
      BY <1>6 DEF KnowledgeInv, KnowledgeTyped, IdleSearcher, Findings
    <3> QED BY <1>7, <3>1 DEF KnowledgeInv, ScansAreTrue, HasHeld
  <2> QED BY <2>1, <2>2, <2>3 DEF ScansAreTrue, HasHeld
<1>11. IndexIsAccepted'
  <2>1. searcher'.step = "hits" => searcher' = searcher
    BY <1>6, <1>7 DEF Checks
  <2> QED BY <1>1, <2>1 DEF KnowledgeInv, IndexIsAccepted, HasHeld, Present
<1> QED BY <1>8, <1>9, <1>10, <1>11 DEF KnowledgeInv

LEMMA PullKeeps == ASSUME KnowledgeInv, PullModel \/ UNCHANGED knowledgeVars PROVE KnowledgeInv'
<1>1. UNCHANGED <<folder, index, indexer, searcher, shown>>
  BY DEF PullModel, knowledgeVars
<1>2. embedding' \in EmbeddingModels
  BY DEF PullModel, knowledgeVars, KnowledgeInv, KnowledgeTyped
<1>3. KnowledgeTyped' /\ PreviousIsCurrent' /\ UnaskedIsShown'
  BY <1>1, <1>2 DEF KnowledgeInv, KnowledgeTyped, PreviousIsCurrent, UnaskedIsShown, Present
<1>4. ScansAreTrue' /\ IndexIsAccepted'
  BY <1>1 DEF KnowledgeInv, ScansAreTrue, ScanIsTrue, HasHeld, IndexIsAccepted, Present
<1> QED BY <1>3, <1>4 DEF KnowledgeInv

LEMMA KnowledgeStep == ASSUME KnowledgeInv, [KnowledgeIndexNext]_knowledgeVars
                       PROVE  KnowledgeInv' /\ PublishedIsCurrent
<1>1. CASE PublishIndex
  BY <1>1, PublishKeeps
<1>2. CASE \E a \in Arguments, rebuild \in BOOLEAN : ShowSelection(a, rebuild)
  BY <1>2, ShowKeeps DEF ShowSelection, PublishedIsCurrent
<1>3. CASE ReadDocument \/ AcceptSelection \/ CheckProfile \/ EmbedChunks \/ Rescan \/ ReadOnceMore
  BY <1>3, DocumentKeeps, AcceptKeeps, CheckProfileKeeps, EmbedKeeps, RescanKeeps, ReadOnceMoreKeeps
     DEF ReadDocument, AcceptSelection, CheckProfile, EmbedChunks, Rescan, ReadOnceMore,
         PublishedIsCurrent
<1>4. CASE BeginSearch \/ ReadToCheck \/ FolderIsChecked \/ RankChunks \/ TakeHits
  BY <1>4, SearchKeeps
     DEF BeginSearch, ReadToCheck, FolderIsChecked, RankChunks, TakeHits, PublishedIsCurrent
<1>5. CASE EditFolder \/ PullModel \/ UNCHANGED knowledgeVars
  BY <1>5, EditKeeps, PullKeeps DEF EditFolder, PullModel, knowledgeVars, PublishedIsCurrent
<1> QED BY <1>1, <1>2, <1>3, <1>4, <1>5 DEF KnowledgeIndexNext

\* Whatever the folder, the arguments and the answers of the person: an index is
\* what was accepted, holds no text that was out of date when the scan before its
\* publication began, and the hits of a search are of one index, no text of which
\* was out of date when the search began (knowledge_command, write, fresh, search).
THEOREM IndexStaysSound == KnowledgeIndexSpec => IndexIsSound
<1>1. KnowledgeIndexInit => KnowledgeInv
  BY DEF KnowledgeIndexInit, KnowledgeInv, KnowledgeTyped, PreviousIsCurrent, UnaskedIsShown,
         ScansAreTrue, IndexIsAccepted, IdleIndexer, IdleSearcher, Compositions
<1>2. KnowledgeInv /\ [KnowledgeIndexNext]_knowledgeVars => KnowledgeInv' /\ PublishedIsCurrent
  BY KnowledgeStep
<1>3. KnowledgeInv' => IndexIsAccepted'
  BY DEF KnowledgeInv
<1>4. KnowledgeInv /\ [KnowledgeIndexNext]_knowledgeVars
        => KnowledgeInv' /\ [IndexIsAccepted' /\ PublishedIsCurrent]_knowledgeVars
  BY <1>2, <1>3
<1> QED BY <1>1, <1>4, PTL DEF KnowledgeIndexSpec, IndexIsSound

-----------------------------------------------------------------------------
(* The files of a run and its decision.                                    *)

Approving == {"approved", "marked", "writing", "temporary", "replacing", "written"}
Reporting == {"receipted", "unlocking"}
Counters == {"new", "rejecting", "rejected", "locking", "locked", "done"} \cup Approving \cup Reporting
States == {"prepared", "running", "awaiting_review", "error", "applying", "applied", "rejected"}

FilesTyped ==
  /\ target \in {"base", "part", "edited"} \cup Drafts
  /\ status \in [is : States, draft : Drafts \cup {NoDraft}]
  /\ decision \in [is : {"none", "approve", "reject"}, draft : Drafts \cup {NoDraft}]
  /\ receipt \in Drafts \cup {NoDraft}
  /\ command \in [Commands -> [pc : Counters, draft : Drafts \cup {NoDraft},
                               saw : States \cup {"none"}]]
  /\ \A p \in Commands : command[p].pc # "new" => command[p].draft \in Drafts

\* The lock is somebody's: two commands never both write.
LockExcludes ==
  \A p \in Commands : HoldsLock(p) =>
     apply_lock /\ \A q \in Commands : HoldsLock(q) => q = p

Approves(d) == decision = [is |-> "approve", draft |-> d]

\* What a command is about to write follows from what it has decided or read.
Knows(p) ==
  /\ command[p].pc \in Approving \cup Reporting => Approves(command[p].draft)
  /\ command[p].pc \in {"locking", "locked"} /\ command[p].saw = "applying" => Approves(command[p].draft)
  /\ command[p].pc = "rejected" => decision = [is |-> "reject", draft |-> command[p].draft]
  /\ command[p].pc = "writing" => target = "part"
  /\ command[p].pc = "replacing" => target = "base"
  /\ command[p].pc \in Reporting => receipt = command[p].draft /\ target \in {receipt, "edited"}

CommandsKnow == \A p \in Commands : Knows(p)

\* A state file that speaks of applying names the draft that was approved.
StatusIsApproved ==
  status.is \in {"applying", "applied"} => status.draft \in Drafts /\ Approves(status.draft)

FilesInv == FilesTyped /\ LockExcludes /\ CommandsKnow /\ StatusIsApproved /\ RunTellsTheTruth

\* A command that takes no lock, or has it already, leaves the exclusion alone.
LEMMA LockStays ==
  ASSUME FilesTyped, LockExcludes, NEW p \in Commands, NEW pc,
         Goes(p, pc), HoldsLock(p) \/ pc \in {"rejected", "done"}, apply_lock => apply_lock'
  PROVE  LockExcludes'
<1>1. \A q \in Commands : q # p => command'[q] = command[q]
  BY DEF Goes, FilesTyped
<1>2. command'[p].pc = pc
  BY DEF Goes, FilesTyped
<1>3. \A q \in Commands : HoldsLock(q)' => HoldsLock(q)
  BY <1>1, <1>2 DEF HoldsLock
<1> QED BY <1>3 DEF LockExcludes

\* A command goes on with its draft and what it saw.
LEMMA GoesOn ==
  ASSUME FilesTyped, NEW p \in Commands, NEW pc \in Counters, Goes(p, pc), command[p].pc # "new"
  PROVE  /\ command' \in [Commands -> [pc : Counters, draft : Drafts \cup {NoDraft},
                                       saw : States \cup {"none"}]]
         /\ command'[p].pc = pc /\ command'[p].draft = command[p].draft /\ command'[p].saw = command[p].saw
         /\ command[p].draft \in Drafts
         /\ \A q \in Commands : q # p => command'[q] = command[q]
         /\ \A q \in Commands : command'[q].pc # "new" => command'[q].draft \in Drafts
<1>1. command[p] \in [pc : Counters, draft : Drafts \cup {NoDraft}, saw : States \cup {"none"}]
  BY DEF FilesTyped
<1>2. command' = [command EXCEPT ![p] = [command[p] EXCEPT !.pc = pc]]
  BY DEF Goes
<1>3. [command[p] EXCEPT !.pc = pc] \in [pc : Counters, draft : Drafts \cup {NoDraft}, saw : States \cup {"none"}]
  BY <1>1
<1>4. /\ command' \in [Commands -> [pc : Counters, draft : Drafts \cup {NoDraft}, saw : States \cup {"none"}]]
      /\ command'[p] = [command[p] EXCEPT !.pc = pc]
      /\ \A q \in Commands : q # p => command'[q] = command[q]
  BY <1>2, <1>3 DEF FilesTyped
<1>5. command[p].draft \in Drafts
  BY DEF FilesTyped
<1> QED BY <1>1, <1>4, <1>5 DEF FilesTyped

\* The run of the model touches neither target nor decision, and its state is
\* none of those that applying and rejecting leave.
LEMMA RunnerKeeps ==
  ASSUME FilesInv, StartRunner \/ AskModel \/ LookAround \/ FinishRun \/ RunFails
                     \/ (\E d \in Drafts : StageFile(d)) \/ ChangeOrigin \/ UNCHANGED filesVars,
         runner.draft \in Drafts \cup {NoDraft}
  PROVE  FilesInv' /\ TargetIsNeverOverwritten
<1>1. UNCHANGED <<target, decision, receipt, apply_lock, command>>
  BY DEF StartRunner, AskModel, LookAround, FinishRun, RunFails, StageFile, ChangeOrigin, filesVars, diskVars
<1>2. \/ UNCHANGED status
      \/ \E is \in {"running", "awaiting_review", "error"}, d \in Drafts \cup {NoDraft} :
            status' = [is |-> is, draft |-> d]
  BY DEF StartRunner, AskModel, LookAround, FinishRun, RunFails, StageFile, ChangeOrigin, filesVars, SetState
<1>3. FilesTyped' /\ LockExcludes' /\ CommandsKnow'
  BY <1>1, <1>2 DEF FilesInv, FilesTyped, LockExcludes, CommandsKnow, Knows, States, HoldsLock, Approves
<1>4. StatusIsApproved' /\ RunTellsTheTruth'
  BY <1>1, <1>2 DEF FilesInv, StatusIsApproved, RunTellsTheTruth, Approves
<1> QED BY <1>1, <1>3, <1>4 DEF FilesInv, TargetIsNeverOverwritten

LEMMA StartKeeps ==
  ASSUME FilesInv, NEW p \in Commands, NEW d \in Drafts, StartReject(p, d) \/ StartApply(p, d)
  PROVE  FilesInv'
<1>1. UNCHANGED <<target, decision, receipt, apply_lock, status>>
  BY DEF StartReject, StartApply, runVars, diskVars
<1>2. PICK pc \in {"rejecting", "locking", "done"} :
        /\ command' = [command EXCEPT ![p] = [pc |-> pc, draft |-> d, saw |-> status.is]]
        /\ pc = "locking" => status.draft = d
  BY DEF StartReject, StartApply
<1>3. /\ command'[p] = [pc |-> pc, draft |-> d, saw |-> status.is]
      /\ \A q \in Commands : q # p => command'[q] = command[q]
      /\ FilesTyped'
  BY <1>1, <1>2 DEF FilesInv, FilesTyped, Counters
<1>4. \A q \in Commands : HoldsLock(q)' => HoldsLock(q)
  BY <1>3 DEF HoldsLock
<1>5. LockExcludes'
  BY <1>1, <1>4 DEF LockExcludes, FilesInv
<1>6. pc = "locking" /\ status.is = "applying" => Approves(d)
  BY <1>2 DEF FilesInv, StatusIsApproved
<1>7. CommandsKnow'
  <2> SUFFICES ASSUME NEW q \in Commands PROVE Knows(q)'
    BY DEF CommandsKnow
  <2>1. CASE q # p
    BY <1>1, <1>3, <2>1 DEF FilesInv, CommandsKnow, Knows, Approves
  <2>2. CASE q = p
    BY <1>1, <1>2, <1>3, <2>2, <1>6 DEF Knows, Approves, Approving, Reporting
  <2> QED BY <2>1, <2>2
<1> QED BY <1>1, <1>3, <1>5, <1>7 DEF FilesInv, StatusIsApproved, RunTellsTheTruth, Approves

\* What a command knows stays true beside another one that writes.
LEMMA OthersKnow ==
  ASSUME FilesInv, NEW p \in Commands, NEW q \in Commands, command'[q] = command[q],
         decision.is # "none" => decision' = decision,
         \/ HoldsLock(p) /\ p # q
         \/ UNCHANGED <<target, receipt>>
         \/ UNCHANGED receipt /\ target' = "edited" /\ command[q].pc \notin {"writing", "replacing"}
  PROVE  Knows(q)'
<1>1. Knows(q) /\ (HoldsLock(p) /\ p # q => ~HoldsLock(q))
  BY DEF FilesInv, CommandsKnow, LockExcludes
<1>2. CASE HoldsLock(p) /\ p # q
  <2>1. command[q].pc \in {"new", "rejecting", "rejected", "locking", "done"}
    BY <1>1, <1>2 DEF HoldsLock
  <2> QED BY <1>1, <2>1 DEF Knows, Approves, Approving, Reporting
<1>3. CASE UNCHANGED <<target, receipt>>
  BY <1>1, <1>3 DEF Knows, Approves, Approving, Reporting
<1>4. CASE UNCHANGED receipt /\ target' = "edited" /\ command[q].pc \notin {"writing", "replacing"}
  BY <1>1, <1>4 DEF Knows, Approves, Approving, Reporting
<1> QED BY <1>2, <1>3, <1>4

\* A step of one command: enough to look at that command.
LEMMA CommandStep ==
  ASSUME FilesInv, NEW p \in Commands, NEW pc \in Counters, Goes(p, pc), command[p].pc # "new",
         target' \in {"base", "part", "edited"} \cup Drafts,
         status' \in [is : States, draft : Drafts \cup {NoDraft}],
         decision' \in [is : {"none", "approve", "reject"}, draft : Drafts \cup {NoDraft}],
         receipt' \in Drafts \cup {NoDraft},
         decision.is # "none" => decision' = decision,
         HoldsLock(p) \/ UNCHANGED <<target, receipt>>,
         HoldsLock(p) \/ pc \in {"rejected", "done"}, apply_lock' = apply_lock,
         Knows(p)'
  PROVE  FilesTyped' /\ LockExcludes' /\ CommandsKnow'
<1>1. FilesTyped /\ LockExcludes
  BY DEF FilesInv
<1>2. FilesTyped'
  BY <1>1, GoesOn DEF FilesTyped
<1>3. LockExcludes'
  BY <1>1, LockStays
<1>4. ASSUME NEW q \in Commands, q # p PROVE Knows(q)'
  <2>1. command'[q] = command[q]
    BY <1>1, <1>4, GoesOn
  <2> QED BY <1>4, <2>1, OthersKnow
<1> QED BY <1>2, <1>3, <1>4 DEF CommandsKnow

LEMMA RejectKeeps ==
  ASSUME FilesInv, NEW p \in Commands, RejectDecides(p) \/ RejectSaved(p)
  PROVE  FilesInv'
<1>0. FilesTyped /\ Knows(p) /\ RunTellsTheTruth /\ StatusIsApproved
  BY DEF FilesInv, CommandsKnow
<1>1. UNCHANGED <<target, receipt, apply_lock>>
  BY DEF RejectDecides, RejectSaved, diskVars
<1>2. CASE RejectDecides(p)
  <2>1. command[p].pc = "rejecting" /\ Goes(p, "rejected")
    BY <1>2 DEF RejectDecides, At
  <2>2. /\ command'[p].pc = "rejected" /\ command'[p].draft = command[p].draft
        /\ command[p].draft \in Drafts
    BY <1>0, <2>1, GoesOn DEF Counters
  <2>3. decision.is = "none" /\ decision' = [is |-> "reject", draft |-> command[p].draft] /\ status' = status
    BY <1>2 DEF RejectDecides, Decide
  <2>4. Knows(p)'
    BY <2>2, <2>3 DEF Knows, Approving, Reporting
  <2>5. decision' \in [is : {"none", "approve", "reject"}, draft : Drafts \cup {NoDraft}]
    BY <2>2, <2>3
  <2>6. FilesTyped' /\ LockExcludes' /\ CommandsKnow'
    BY <1>0, <1>1, <2>1, <2>3, <2>4, <2>5, CommandStep DEF FilesTyped, Counters
  <2>7. StatusIsApproved' /\ RunTellsTheTruth'
    BY <1>0, <1>1, <2>3 DEF StatusIsApproved, RunTellsTheTruth, Approves
  <2> QED BY <2>6, <2>7 DEF FilesInv
<1>3. CASE RejectSaved(p)
  <2>1. command[p].pc = "rejected" /\ Goes(p, "done") /\ decision' = decision
    BY <1>3 DEF RejectSaved, At, diskVars
  <2>2. command'[p].pc = "done" /\ command[p].draft \in Drafts
    BY <1>0, <2>1, GoesOn DEF Counters
  <2>3. status' = [is |-> "rejected", draft |-> command[p].draft]
    BY <1>3 DEF RejectSaved, SetState
  <2>4. Knows(p)' /\ decision = [is |-> "reject", draft |-> command[p].draft]
    BY <1>0, <2>1, <2>2 DEF Knows, Approving, Reporting
  <2>5. status' \in [is : States, draft : Drafts \cup {NoDraft}]
    BY <2>2, <2>3 DEF States
  <2>6. FilesTyped' /\ LockExcludes' /\ CommandsKnow'
    BY <1>0, <1>1, <2>1, <2>4, <2>5, CommandStep DEF FilesTyped, Counters
  <2>7. StatusIsApproved' /\ RunTellsTheTruth'
    BY <1>0, <1>1, <2>1, <2>3, <2>4 DEF StatusIsApproved, RunTellsTheTruth, Approves
  <2> QED BY <2>6, <2>7 DEF FilesInv
<1> QED BY <1>2, <1>3

LEMMA TakeLockKeeps == ASSUME FilesInv, NEW p \in Commands, TakeLock(p) PROVE FilesInv'
<1>0. FilesTyped /\ Knows(p) /\ LockExcludes
  BY DEF FilesInv, CommandsKnow
<1>1. /\ UNCHANGED <<target, decision, receipt, status>> /\ command[p].pc = "locking"
      /\ Goes(p, "locked") /\ ~apply_lock /\ apply_lock'
  BY DEF TakeLock, At, runVars
<1>2. /\ command'[p].pc = "locked" /\ command'[p].draft = command[p].draft
      /\ command'[p].saw = command[p].saw /\ FilesTyped'
      /\ \A q \in Commands : q # p => command'[q] = command[q]
  BY <1>0, <1>1, GoesOn DEF Counters, FilesTyped
<1>3. \A q \in Commands : HoldsLock(q)' => q = p
  BY <1>0, <1>1, <1>2 DEF LockExcludes, HoldsLock
<1>4. LockExcludes'
  BY <1>1, <1>3 DEF LockExcludes
<1>5. Knows(p)'
  BY <1>0, <1>1, <1>2 DEF Knows, Approves, Approving, Reporting
<1>6. \A q \in Commands : q # p => Knows(q)'
  BY <1>1, <1>2, OthersKnow
<1>7. StatusIsApproved' /\ RunTellsTheTruth'
  BY <1>1 DEF FilesInv, StatusIsApproved, RunTellsTheTruth, Approves
<1> QED BY <1>2, <1>4, <1>5, <1>6, <1>7 DEF FilesInv, CommandsKnow

\* The steps of an apply that leave the target alone.
LEMMA ApplyKeeps ==
  ASSUME FilesInv, NEW p \in Commands,
         Reconcile(p) \/ Approve(p) \/ MarkApplying(p) \/ MakeTemporary(p) \/ LookAgain(p)
  PROVE  FilesInv' /\ target' = target
<1>0. FilesTyped /\ Knows(p) /\ RunTellsTheTruth /\ StatusIsApproved
  BY DEF FilesInv, CommandsKnow
<1>1. UNCHANGED <<target, receipt, apply_lock>>
  BY DEF Reconcile, Approve, MarkApplying, MakeTemporary, LookAgain, diskVars, runVars
<1>2. CASE Approve(p)
  <2>1. command[p].pc = "locked" /\ Goes(p, "approved") /\ HoldsLock(p)
    BY <1>2 DEF Approve, At, HoldsLock
  <2>2. command'[p].pc = "approved" /\ command'[p].draft = command[p].draft /\ command[p].draft \in Drafts
    BY <1>0, <2>1, GoesOn DEF Counters, Approving
  <2>3. decision.is = "none" /\ decision' = [is |-> "approve", draft |-> command[p].draft] /\ status' = status
    BY <1>2 DEF Approve, Decide
  <2>4. Knows(p)' /\ decision' \in [is : {"none", "approve", "reject"}, draft : Drafts \cup {NoDraft}]
    BY <2>2, <2>3 DEF Knows, Approves, Reporting
  <2>5. FilesTyped' /\ LockExcludes' /\ CommandsKnow'
    BY <1>0, <1>1, <2>1, <2>3, <2>4, CommandStep DEF FilesTyped, Counters, Approving
  <2>6. StatusIsApproved' /\ RunTellsTheTruth'
    BY <1>0, <1>1, <2>3 DEF StatusIsApproved, RunTellsTheTruth, Approves
  <2> QED BY <1>1, <2>5, <2>6 DEF FilesInv
<1>3. CASE MarkApplying(p)
  <2>1. command[p].pc = "approved" /\ Goes(p, "marked") /\ HoldsLock(p) /\ decision' = decision
    BY <1>3 DEF MarkApplying, At, HoldsLock, diskVars
  <2>2. command'[p].pc = "marked" /\ command'[p].draft = command[p].draft /\ command[p].draft \in Drafts
    BY <1>0, <2>1, GoesOn DEF Counters, Approving
  <2>3. status' = [is |-> "applying", draft |-> command[p].draft]
    BY <1>3 DEF MarkApplying, SetState
  <2>4. Knows(p)' /\ Approves(command[p].draft)
    BY <1>0, <2>1, <2>2 DEF Knows, Approves, Approving, Reporting
  <2>5. status' \in [is : States, draft : Drafts \cup {NoDraft}]
    BY <2>2, <2>3 DEF States
  <2>6. FilesTyped' /\ LockExcludes' /\ CommandsKnow'
    BY <1>0, <1>1, <2>1, <2>4, <2>5, CommandStep DEF FilesTyped, Counters, Approving
  <2>7. StatusIsApproved' /\ RunTellsTheTruth'
    BY <1>0, <1>1, <2>1, <2>2, <2>3, <2>4 DEF StatusIsApproved, RunTellsTheTruth, Approves
  <2> QED BY <1>1, <2>6, <2>7 DEF FilesInv
<1>4. CASE Reconcile(p) \/ MakeTemporary(p) \/ LookAgain(p)
  <2>1. PICK pc \in {"written", "temporary", "replacing"} :
          /\ Goes(p, pc) /\ command[p].pc \in {"locked", "marked", "temporary"}
          /\ pc = "written" => command[p].saw = "applying" /\ command[p].pc = "locked"
          /\ pc # "written" => command[p].pc \in Approving
          /\ pc = "replacing" => target = "base"
    BY <1>4 DEF Reconcile, MakeTemporary, LookAgain, At, Approving
  <2>2. UNCHANGED <<decision, status>> /\ HoldsLock(p)
    BY <1>4 DEF Reconcile, MakeTemporary, LookAgain, diskVars, runVars, At, HoldsLock
  <2>3. command'[p].pc = pc /\ command'[p].draft = command[p].draft
    BY <1>0, <2>1, GoesOn DEF Counters, Approving
  <2>4. Knows(p)'
    BY <1>0, <1>1, <2>1, <2>2, <2>3 DEF Knows, Approves, Reporting
  <2>5. FilesTyped' /\ LockExcludes' /\ CommandsKnow'
    BY <1>0, <1>1, <2>1, <2>2, <2>4, CommandStep DEF FilesTyped, Counters, Approving
  <2>6. StatusIsApproved' /\ RunTellsTheTruth'
    BY <1>0, <1>1, <2>2 DEF StatusIsApproved, RunTellsTheTruth, Approves
  <2> QED BY <1>1, <2>5, <2>6 DEF FilesInv
<1> QED BY <1>2, <1>3, <1>4

\* The steps that write the target, under the lock: it is what it was when the
\* draft was made, or the part this command has written.
LEMMA WriteKeeps ==
  ASSUME FilesInv, NEW p \in Commands, CreateTarget(p) \/ FillTarget(p) \/ ReplaceTarget(p)
  PROVE  FilesInv' /\ TargetIsNeverOverwritten
<1>0. FilesTyped /\ Knows(p) /\ RunTellsTheTruth /\ StatusIsApproved
  BY DEF FilesInv, CommandsKnow
<1>1. UNCHANGED <<decision, receipt, apply_lock, status>>
  BY DEF CreateTarget, FillTarget, ReplaceTarget, runVars
<1>2. PICK pc \in {"writing", "written"} :
        /\ Goes(p, pc) /\ command[p].pc \in {"marked", "writing", "replacing"}
        /\ pc = "writing" => target = "base" /\ target' = "part"
        /\ pc = "written" => target' = command[p].draft /\ command[p].pc \in {"writing", "replacing"}
  BY DEF CreateTarget, FillTarget, ReplaceTarget, At
<1>3. HoldsLock(p) /\ command[p].pc \in Approving
  BY <1>2 DEF HoldsLock, Approving
<1>4. command'[p].pc = pc /\ command'[p].draft = command[p].draft /\ command[p].draft \in Drafts
  BY <1>0, <1>2, GoesOn DEF Counters, Approving
<1>5. Approves(command[p].draft) /\ target \in {"base", "part"}
  BY <1>0, <1>2, <1>3 DEF Knows
<1>6. Knows(p)'
  BY <1>1, <1>2, <1>4, <1>5 DEF Knows, Approves, Reporting
<1>7. FilesTyped' /\ LockExcludes' /\ CommandsKnow'
  BY <1>0, <1>1, <1>2, <1>3, <1>4, <1>6, CommandStep DEF FilesTyped, Counters, Approving
<1>8. StatusIsApproved' /\ RunTellsTheTruth'
  <2>1. status.is # "applied"
    BY <1>0, <1>5, ProjectFilesAssumption DEF StatusIsApproved, RunTellsTheTruth
  <2>2. target' \in Drafts => target' = command[p].draft
    BY <1>2, ProjectFilesAssumption
  <2> QED BY <1>0, <1>1, <1>5, <2>1, <2>2 DEF StatusIsApproved, RunTellsTheTruth, Approves
<1>9. TargetIsNeverOverwritten
  BY <1>0, <1>2, <1>5 DEF TargetIsNeverOverwritten, Knows, At
<1> QED BY <1>7, <1>8, <1>9 DEF FilesInv

LEMMA ReportKeeps ==
  ASSUME FilesInv, NEW p \in Commands, WriteReceipt(p) \/ MarkApplied(p)
  PROVE  FilesInv' /\ target' = target
<1>0. FilesTyped /\ Knows(p) /\ RunTellsTheTruth /\ StatusIsApproved
  BY DEF FilesInv, CommandsKnow
<1>1. UNCHANGED <<target, decision, apply_lock>> /\ HoldsLock(p)
  BY DEF WriteReceipt, MarkApplied, diskVars, runVars, At, HoldsLock
<1>2. CASE WriteReceipt(p)
  <2>1. /\ command[p].pc = "written" /\ Goes(p, "receipted") /\ status' = status
        /\ receipt' = command[p].draft /\ target = command[p].draft
    BY <1>2 DEF WriteReceipt, At, InventoryIs
  <2>2. command'[p].pc = "receipted" /\ command'[p].draft = command[p].draft /\ command[p].draft \in Drafts
    BY <1>0, <2>1, GoesOn DEF Counters, Reporting
  <2>3. Approves(command[p].draft)
    BY <1>0, <2>1 DEF Knows, Approving
  <2>4. Knows(p)'
    BY <1>1, <2>1, <2>2, <2>3 DEF Knows, Approves
  <2>5. FilesTyped' /\ LockExcludes' /\ CommandsKnow'
    BY <1>0, <1>1, <2>1, <2>2, <2>4, CommandStep DEF FilesTyped, Counters, Reporting
  <2>6. StatusIsApproved' /\ RunTellsTheTruth'
    BY <1>0, <1>1, <2>1, <2>3 DEF StatusIsApproved, RunTellsTheTruth, Approves
  <2> QED BY <1>1, <2>5, <2>6 DEF FilesInv
<1>3. CASE MarkApplied(p)
  <2>1. command[p].pc = "receipted" /\ Goes(p, "unlocking") /\ receipt' = receipt
    BY <1>3 DEF MarkApplied, At, diskVars
  <2>2. command'[p].pc = "unlocking" /\ command'[p].draft = command[p].draft /\ command[p].draft \in Drafts
    BY <1>0, <2>1, GoesOn DEF Counters, Reporting
  <2>3. status' = [is |-> "applied", draft |-> command[p].draft]
    BY <1>3 DEF MarkApplied, SetState
  <2>4. Approves(command[p].draft) /\ receipt = command[p].draft /\ target \in {receipt, "edited"}
    BY <1>0, <2>1 DEF Knows, Reporting
  <2>5. Knows(p)'
    BY <1>1, <2>1, <2>2, <2>4 DEF Knows, Approves
  <2>6. status' \in [is : States, draft : Drafts \cup {NoDraft}]
    BY <2>2, <2>3 DEF States
  <2>7. FilesTyped' /\ LockExcludes' /\ CommandsKnow'
    BY <1>0, <1>1, <2>1, <2>5, <2>6, CommandStep DEF FilesTyped, Counters, Reporting
  <2>8. StatusIsApproved' /\ RunTellsTheTruth'
    BY <1>0, <1>1, <2>1, <2>2, <2>3, <2>4 DEF StatusIsApproved, RunTellsTheTruth, Approves
  <2> QED BY <1>1, <2>7, <2>8 DEF FilesInv
<1> QED BY <1>2, <1>3

\* However a command ends, with its lock or without it, nothing else changes.
LEMMA EndingKeeps ==
  ASSUME FilesInv, NEW p \in Commands, CommandEnds(p) \/ CommandIsKilled(p)
  PROVE  FilesInv' /\ target' = target
<1>0. FilesTyped /\ LockExcludes /\ RunTellsTheTruth /\ StatusIsApproved
  BY DEF FilesInv
<1>1. /\ UNCHANGED <<target, decision, receipt, status>>
      /\ command[p].pc # "new" /\ Goes(p, "done")
      /\ (apply_lock => apply_lock') \/ HoldsLock(p)
  <2>1. CASE CommandEnds(p)
    <3>1. apply_lock' = (apply_lock /\ ~HoldsLock(p))
      BY <2>1 DEF CommandEnds
    <3>2. (apply_lock => apply_lock') \/ HoldsLock(p)
      BY <3>1, Zenon
    <3> QED BY <2>1, <3>2 DEF CommandEnds
  <2>2. CASE CommandIsKilled(p)
    BY <2>2 DEF CommandIsKilled, diskVars
  <2> QED BY <2>1, <2>2
<1>2. /\ command'[p].pc = "done" /\ FilesTyped'
      /\ \A q \in Commands : q # p => command'[q] = command[q]
  BY <1>0, <1>1, GoesOn DEF Counters, FilesTyped
<1>3. LockExcludes'
  <2>1. CASE apply_lock => apply_lock'
    BY <1>0, <1>1, <2>1, LockStays
  <2>2. CASE HoldsLock(p)
    BY <1>0, <1>2, <2>2 DEF LockExcludes, HoldsLock
  <2> QED BY <1>1, <2>1, <2>2
<1>4. Knows(p)'
  BY <1>2 DEF Knows, Approving, Reporting
<1>5. \A q \in Commands : q # p => Knows(q)'
  BY <1>1, <1>2, OthersKnow
<1>6. StatusIsApproved' /\ RunTellsTheTruth'
  BY <1>0, <1>1 DEF StatusIsApproved, RunTellsTheTruth, Approves
<1> QED BY <1>1, <1>2, <1>3, <1>4, <1>5, <1>6 DEF FilesInv, CommandsKnow

LEMMA PersonKeeps ==
  ASSUME FilesInv, ClearLock \/ EditTarget
  PROVE  FilesInv' /\ TargetIsNeverOverwritten
<1>0. FilesTyped /\ LockExcludes /\ RunTellsTheTruth /\ StatusIsApproved /\ CommandsKnow
  BY DEF FilesInv
<1>1. UNCHANGED <<decision, receipt, status, command>>
  BY DEF ClearLock, EditTarget, runVars
<1>2. CASE ClearLock
  <2>1. target' = target /\ \A p \in Commands : ~HoldsLock(p)
    BY <1>2 DEF ClearLock
  <2>2. LockExcludes'
    BY <1>1, <2>1 DEF LockExcludes, HoldsLock
  <2>3. FilesTyped' /\ CommandsKnow'
    BY <1>0, <1>1, <2>1 DEF FilesTyped, CommandsKnow, Knows, Approves
  <2> QED BY <1>0, <1>1, <2>1, <2>2, <2>3
          DEF FilesInv, StatusIsApproved, RunTellsTheTruth, Approves, TargetIsNeverOverwritten
<1>3. CASE EditTarget
  <2>1. /\ target' = "edited" /\ apply_lock' = apply_lock
        /\ \A p \in Commands : command[p].pc \notin {"writing", "replacing"}
    BY <1>3 DEF EditTarget
  <2>2. CommandsKnow'
    BY <1>0, <1>1, <2>1 DEF CommandsKnow, Knows, Approves
  <2>3. FilesTyped' /\ LockExcludes'
    BY <1>0, <1>1, <2>1 DEF FilesTyped, LockExcludes, HoldsLock
  <2>4. "edited" \notin Drafts \cup {"part"}
    BY ProjectFilesAssumption
  <2> QED BY <1>0, <1>1, <2>1, <2>2, <2>3, <2>4
          DEF FilesInv, StatusIsApproved, RunTellsTheTruth, Approves, TargetIsNeverOverwritten
<1> QED BY <1>2, <1>3

RunnerTyped ==
  /\ runner = [pc |-> runner.pc, calls |-> runner.calls, tools |-> runner.tools,
               read |-> runner.read, draft |-> runner.draft]
  /\ runner.draft \in Drafts \cup {NoDraft}

LEMMA RunnerStaysTyped == ASSUME RunnerTyped, [ProjectFilesNext]_filesVars PROVE RunnerTyped'
<1>1. CASE UNCHANGED runner
  BY <1>1 DEF RunnerTyped
<1>2. CASE StartRunner \/ AskModel \/ FinishRun \/ RunFails
  BY <1>2 DEF RunnerTyped, StartRunner, AskModel, FinishRun, RunFails
<1>3. CASE LookAround
  BY <1>3 DEF LookAround, RunnerTyped
<1>4. ASSUME NEW d \in Drafts, StageFile(d) PROVE RunnerTyped'
  BY <1>4 DEF RunnerTyped, StageFile
<1>5. ASSUME NEW p \in Commands, NEW d \in Drafts, StartReject(p, d) \/ StartApply(p, d)
      PROVE  UNCHANGED runner
  BY <1>5 DEF StartReject, StartApply, runVars
<1>6. ASSUME NEW p \in Commands,
             \/ RejectDecides(p) \/ RejectSaved(p) \/ TakeLock(p) \/ Reconcile(p) \/ Approve(p)
             \/ MarkApplying(p) \/ CreateTarget(p) \/ FillTarget(p) \/ MakeTemporary(p)
             \/ LookAgain(p) \/ ReplaceTarget(p) \/ WriteReceipt(p) \/ MarkApplied(p)
             \/ CommandEnds(p) \/ CommandIsKilled(p)
      PROVE  UNCHANGED runner
  BY <1>6 DEF RejectDecides, RejectSaved, TakeLock, Reconcile, Approve, MarkApplying, CreateTarget,
     FillTarget, MakeTemporary, LookAgain, ReplaceTarget, WriteReceipt, MarkApplied, CommandEnds,
     CommandIsKilled, runVars
<1>7. CASE ClearLock \/ EditTarget \/ ChangeOrigin \/ UNCHANGED filesVars
  BY <1>1, <1>7 DEF ClearLock, EditTarget, ChangeOrigin, filesVars, runVars
<1> QED BY <1>1, <1>2, <1>3, <1>4, <1>5, <1>6, <1>7 DEF ProjectFilesNext

LEMMA FilesStep ==
  ASSUME FilesInv, RunnerTyped, [ProjectFilesNext]_filesVars
  PROVE  FilesInv' /\ TargetIsNeverOverwritten
<1>0. runner.draft \in Drafts \cup {NoDraft}
  BY DEF RunnerTyped
<1>1. CASE StartRunner \/ AskModel \/ LookAround \/ FinishRun \/ RunFails
             \/ (\E d \in Drafts : StageFile(d)) \/ ChangeOrigin \/ UNCHANGED filesVars
  BY <1>0, <1>1, RunnerKeeps
<1>2. ASSUME NEW p \in Commands, NEW d \in Drafts, StartReject(p, d) \/ StartApply(p, d)
      PROVE  FilesInv' /\ target' = target
  BY <1>2, StartKeeps DEF StartReject, StartApply, diskVars
<1>3. ASSUME NEW p \in Commands, RejectDecides(p) \/ RejectSaved(p) \/ TakeLock(p)
      PROVE  FilesInv' /\ target' = target
  BY <1>3, RejectKeeps, TakeLockKeeps DEF RejectDecides, RejectSaved, TakeLock, diskVars
<1>4. ASSUME NEW p \in Commands,
             Reconcile(p) \/ Approve(p) \/ MarkApplying(p) \/ MakeTemporary(p) \/ LookAgain(p)
      PROVE  FilesInv' /\ target' = target
  BY <1>4, ApplyKeeps
<1>5. ASSUME NEW p \in Commands, CreateTarget(p) \/ FillTarget(p) \/ ReplaceTarget(p)
      PROVE  FilesInv' /\ TargetIsNeverOverwritten
  BY <1>5, WriteKeeps
<1>6. ASSUME NEW p \in Commands, WriteReceipt(p) \/ MarkApplied(p) \/ CommandEnds(p) \/ CommandIsKilled(p)
      PROVE  FilesInv' /\ target' = target
  BY <1>6, ReportKeeps, EndingKeeps
<1>7. CASE ClearLock \/ EditTarget
  BY <1>7, PersonKeeps
<1>8. target' = target => TargetIsNeverOverwritten
  BY DEF TargetIsNeverOverwritten
<1> QED BY <1>1, <1>2, <1>3, <1>4, <1>5, <1>6, <1>7, <1>8 DEF ProjectFilesNext

\* However apply and reject commands race, fail and are killed, what the files
\* of a run say is true, and the target is written only over what the draft was
\* made from (apply, reject, runner.run).
THEOREM ApplicationStaysSound == ProjectFilesSpec => ApplicationIsSound
<1>1. ProjectFilesInit => FilesInv /\ RunnerTyped
  <2> SUFFICES ASSUME ProjectFilesInit PROVE FilesInv /\ RunnerTyped
    OBVIOUS
  <2>1. FilesTyped /\ RunnerTyped
    BY DEF ProjectFilesInit, FilesTyped, RunnerTyped, NotStarted, States, Counters
  <2>2. \A p \in Commands : command[p].pc = "new"
    BY DEF ProjectFilesInit, NotStarted
  <2>3. LockExcludes /\ CommandsKnow
    BY <2>2 DEF LockExcludes, HoldsLock, CommandsKnow, Knows, Approving, Reporting
  <2>4. StatusIsApproved /\ RunTellsTheTruth
    BY ProjectFilesAssumption DEF ProjectFilesInit, StatusIsApproved, RunTellsTheTruth
  <2> QED BY <2>1, <2>3, <2>4 DEF FilesInv
<1>2. FilesInv /\ RunnerTyped /\ [ProjectFilesNext]_filesVars
        => FilesInv' /\ RunnerTyped' /\ [RunTellsTheTruth' /\ TargetIsNeverOverwritten]_filesVars
  BY FilesStep, RunnerStaysTyped DEF FilesInv
<1> QED BY <1>1, <1>2, PTL DEF ProjectFilesSpec, ApplicationIsSound

-----------------------------------------------------------------------------
(* The task memory of a dialog.                                            *)

\* An item of a reduced memory is an old one or a quote of the new message.
Sourced(items, previous, message, number) ==
  \A x \in items : x \in previous \/ (x.turn = number /\ x.text \in QuotesOf[message])

Progress(s) == s = [ok |-> s.ok, items |-> s.items, seen |-> s.seen]

LEMMA ChangeIsSourced ==
  ASSUME NEW previous, NEW message, NEW number, NEW s, NEW c, NEW position,
         Progress(s), Sourced(s.items, previous, message, number)
  PROVE  /\ Progress(Applied(previous, message, number, s, c, position))
         /\ Sourced(Applied(previous, message, number, s, c, position).items, previous, message, number)
<1> DEFINE item == [id |-> IF c.item = NoItem THEN <<number, position>> ELSE c.item,
                    field |-> c.field, text |-> c.quote, turn |-> number]
           held == {x \in s.items : ~(x.field = c.field /\ x.id = c.item)}
           next(items) == [ok |-> TRUE, items |-> items, seen |-> s.seen \cup {Identity(c)}]
           r == Applied(previous, message, number, s, c, position)
<1>1. \/ r = [s EXCEPT !.ok = FALSE]
      \/ r = next(held) \/ r = next(s.items)
      \/ c.quote \in QuotesOf[message] /\ r = next(held \cup {item})
  BY DEF Applied, Refused
<1>2. CASE r = [s EXCEPT !.ok = FALSE]
  BY <1>2 DEF Progress
<1>3. Sourced(held, previous, message, number)
  BY DEF Sourced
<1>4. c.quote \in QuotesOf[message] => Sourced(held \cup {item}, previous, message, number)
  BY <1>3 DEF Sourced
<1> HIDE DEF r, held, item
<1>5. \A items : Progress(next(items)) /\ next(items).items = items
  BY DEF Progress
<1>6. Sourced(s.items, previous, message, number)
  OBVIOUS
<1> DEFINE Good(q) == Progress(q) /\ Sourced(q.items, previous, message, number)
<1>7. \A items : Sourced(items, previous, message, number) => Good(next(items))
  <2> HIDE DEF next
  <2> QED BY <1>5
<1>8. CASE r # [s EXCEPT !.ok = FALSE]
  <2>1. Good(r)
    <3> HIDE DEF Good, next
    <3> QED BY <1>1, <1>3, <1>4, <1>6, <1>7, <1>8
  <2> QED BY <2>1 DEF r
<1> QED BY <1>2, <1>8 DEF r

\* The reduction after each change of a patch, as a function of its number.
IsReduction(f, previous, patch, message, number, n) ==
  f = [i \in 0..n |-> IF i = 0 THEN [ok |-> TRUE, items |-> previous, seen |-> {}]
                      ELSE Applied(previous, message, number, f[i - 1], patch[i], i)]

LEMMA ReductionsExist ==
  ASSUME NEW previous, NEW patch, NEW message, NEW number, NEW n \in Nat
  PROVE  \E f : IsReduction(f, previous, patch, message, number, n)
<1> DEFINE Is(f, m) == IsReduction(f, previous, patch, message, number, m)
           Bad == {m \in Nat : ~ \E f : Is(f, m)}
<1>1. Bad = {}
  <2> SUFFICES ASSUME Bad # {} PROVE FALSE
    OBVIOUS
  <2>1. PICK m \in Bad : \A k \in Bad : ~(k < m)
    <3>1. Bad \in SUBSET Nat
      OBVIOUS
    <3> HIDE DEF Bad
    <3> QED BY <3>1, LeastNumber
  <2>2. m # 0
    <3> DEFINE start == [ok |-> TRUE, items |-> previous, seen |-> {}]
               one == [i \in 0..0 |-> start]
    <3>1. one = [i \in 0..0 |-> IF i = 0 THEN start
                                ELSE Applied(previous, message, number, one[i - 1], patch[i], i)]
      OBVIOUS
    <3>2. Is(one, 0)
      BY <3>1 DEF IsReduction
    <3> QED BY <3>2
  <2>3. m \in Nat /\ m - 1 \in Nat /\ m - 1 < m
    <3>1. m \in Nat
      BY <2>1
    <3> QED BY <2>2, <3>1
  <2>4. m - 1 \notin Bad
    <3> HIDE DEF Bad
    <3> QED BY <2>1, <2>3
  <2>5. PICK f : Is(f, m - 1)
    BY <2>3, <2>4
  <2> DEFINE g == [i \in 0..m |-> IF i = m THEN Applied(previous, message, number, f[m - 1], patch[m], m)
                                  ELSE f[i]]
             Step(h, i) == IF i = 0 THEN [ok |-> TRUE, items |-> previous, seen |-> {}]
                           ELSE Applied(previous, message, number, h[i - 1], patch[i], i)
  <2>6. \A i \in 0..(m - 1) : f[i] = Step(f, i)
    BY <2>5 DEF IsReduction
  <2>7. ASSUME NEW i \in 0..m PROVE g[i] = Step(g, i)
    <3>1. CASE i = m
      <4>1. g[m - 1] = f[m - 1] /\ m # 0
        BY <2>3
      <4> QED BY <3>1, <4>1
    <3>2. CASE i # m
      <4>1. i \in 0..(m - 1) /\ g[i] = f[i] /\ (i # 0 => i - 1 \in 0..m /\ i - 1 # m /\ g[i - 1] = f[i - 1])
        BY <2>3, <3>2
      <4> QED BY <2>6, <4>1
    <3> QED BY <3>1, <3>2
  <2>8. g = [i \in 0..m |-> Step(g, i)]
    <3>1. g = [i \in 0..m |-> g[i]]
      OBVIOUS
    <3> HIDE DEF g, Step
    <3> QED BY <2>7, <3>1
  <2>9. Is(g, m)
    <3> HIDE DEF g
    <3> QED BY <2>8 DEF IsReduction
  <2> HIDE DEF Is
  <2> QED BY <2>1, <2>9
<1> QED BY <1>1

LEMMA PatchIsSourced ==
  ASSUME NEW previous, NEW patch, NEW message, NEW number, Len(patch) \in Nat
  PROVE  Sourced(AllApplied(previous, patch, message, number).items, previous, message, number)
<1> DEFINE n == Len(patch)
           f == CHOOSE h : IsReduction(h, previous, patch, message, number, n)
           start == [ok |-> TRUE, items |-> previous, seen |-> {}]
           Fine(i) == Progress(f[i]) /\ Sourced(f[i].items, previous, message, number)
           Bad == {i \in 0..n : ~Fine(i)}
<1>1. IsReduction(f, previous, patch, message, number, n)
  BY ReductionsExist
<1>2. AllApplied(previous, patch, message, number) = f[n]
  BY DEF AllApplied, IsReduction
<1> HIDE DEF f
<1>3. \A i \in 0..n : f[i] = IF i = 0 THEN start ELSE Applied(previous, message, number, f[i - 1], patch[i], i)
  BY <1>1 DEF IsReduction
<1>4. Bad = {}
  <2> SUFFICES ASSUME Bad # {} PROVE FALSE
    OBVIOUS
  <2>1. PICK i \in Bad : \A k \in Bad : ~(k < i)
    <3>1. Bad \in SUBSET Nat
      OBVIOUS
    <3> HIDE DEF Bad
    <3> QED BY <3>1, LeastNumber
  <2>2. i \in 0..n /\ ~Fine(i)
    BY <2>1
  <2>3. Fine(0)
    <3>0. 0 \in 0..n
      OBVIOUS
    <3>1. f[0] = start
      <4> HIDE DEF start, n, Bad
      <4> QED BY <1>3, <3>0
    <3> QED BY <3>1 DEF Progress, Sourced
  <2>4. i # 0 /\ i - 1 \in 0..n /\ i - 1 < i
    <3> HIDE DEF Fine
    <3> QED BY <2>2, <2>3
  <2>5. Fine(i - 1)
    <3>1. i - 1 \notin Bad
      <4> HIDE DEF Bad
      <4> QED BY <2>1, <2>4
    <3> HIDE DEF Fine
    <3> QED BY <2>4, <3>1
  <2>6. f[i] = Applied(previous, message, number, f[i - 1], patch[i], i)
    BY <1>3, <2>2, <2>4
  <2>7. Fine(i)
    <3> DEFINE s == f[i - 1]
    <3>1. Progress(s) /\ Sourced(s.items, previous, message, number)
      BY <2>5
    <3> HIDE DEF s
    <3>2. /\ Progress(Applied(previous, message, number, s, patch[i], i))
          /\ Sourced(Applied(previous, message, number, s, patch[i], i).items, previous, message, number)
      BY <3>1, ChangeIsSourced
    <3> QED BY <2>6, <3>2 DEF s
  <2> QED BY <2>2, <2>7
<1>5. Fine(n)
  <2> HIDE DEF Fine
  <2> QED BY <1>4
<1> QED BY <1>2, <1>5

LEMMA ElementsOfLonger ==
  ASSUME NEW users \in Seq(Messages), NEW message \in Messages
  PROVE  /\ Append(users, message) \in Seq(Messages) /\ Len(Append(users, message)) = Len(users) + 1
         /\ Len(users) \in Nat
         /\ \A i \in 1..Len(users) : Append(users, message)[i] = users[i]
         /\ Append(users, message)[Len(users) + 1] = message
  OBVIOUS

\* What is found again in its turn still is when a turn was added.
LEMMA StaysReadable ==
  ASSUME NEW users \in Seq(Messages), NEW message \in Messages, NEW items, IsReadable(users, items)
  PROVE  IsReadable(Append(users, message), items)
<1> DEFINE longer == Append(users, message)
<1>1. Len(longer) = Len(users) + 1 /\ Len(users) \in Nat /\ \A i \in 1..Len(users) : longer[i] = users[i]
  BY ElementsOfLonger
<1>2. ASSUME NEW x \in items
      PROVE  x.turn \in 1..Len(longer) /\ x.text \in QuotesOf[longer[x.turn]]
  <2>1. x.turn \in 1..Len(users) /\ x.text \in QuotesOf[users[x.turn]]
    BY DEF IsReadable
  <2> HIDE DEF longer
  <2> QED BY <1>1, <2>1
<1> QED BY <1>2 DEF IsReadable

\* What reduce_memory accepts can be read back with the turn it comes from.
LEMMA ReducedIsReadable ==
  ASSUME NEW users \in Seq(Messages), NEW message \in Messages, NEW items, NEW patch, Len(patch) \in Nat,
         IsReadable(users, items), ReduceMemory(items, patch, message, Len(users) + 1).ok
  PROVE  IsReadable(Append(users, message), ReduceMemory(items, patch, message, Len(users) + 1).items)
<1> DEFINE longer == Append(users, message)
           all == AllApplied(items, patch, message, Len(users) + 1)
<1>1. /\ Len(longer) = Len(users) + 1 /\ Len(users) \in Nat
      /\ \A i \in 1..Len(users) : longer[i] = users[i]
      /\ longer[Len(users) + 1] = message
  BY ElementsOfLonger
<1>2. /\ ReduceMemory(items, patch, message, Len(users) + 1).items = all.items
      /\ TaskMemoryIsValid(all.items)
  BY DEF ReduceMemory
<1>3. Sourced(all.items, items, message, Len(users) + 1)
  BY PatchIsSourced
<1> HIDE DEF all, longer
<1>4. ASSUME NEW x \in all.items
      PROVE  x.turn \in 1..Len(longer) /\ x.text \in QuotesOf[longer[x.turn]]
  <2>1. CASE x \in items
    <3>1. x.turn \in 1..Len(users) /\ x.text \in QuotesOf[users[x.turn]]
      BY <2>1 DEF IsReadable
    <3> QED BY <1>1, <3>1
  <2>2. CASE x.turn = Len(users) + 1 /\ x.text \in QuotesOf[message]
    BY <1>1, <2>2
  <2> QED BY <1>3, <2>1, <2>2 DEF Sourced
<1> QED BY <1>2, <1>4 DEF IsReadable, longer

-----------------------------------------------------------------------------
(* The phone and the backend.                                              *)

Begins(s, users) == Len(s) <= Len(users) /\ \A i \in 1..Len(s) : users[i] = s[i]

\* A dialog was made, and while it is open the turns s are its first ones.
Follows(d, s) ==
  dialog[d].state # "new" /\ (dialog[d].state = "open" => Begins(s, dialog[d].users))

DialogFits(d) ==
  /\ dialog[d] = [state |-> dialog[d].state, users |-> dialog[d].users, memory |-> dialog[d].memory]
  /\ dialog[d].state \in {"new", "open", "gone"}
  /\ dialog[d].users \in Seq(Messages)
  /\ dialog[d].state = "new" => dialog[d].users = << >>
  /\ IsReadable(dialog[d].users, dialog[d].memory)

RequestFits(r) == r \in Request25 /\ r.number < counts.sends /\ Follows(r.dialog, r.seen)

\* A turn being processed follows what its open dialog has, which nobody else
\* changes, and leaves it readable.
TurnFits(d) ==
  /\ turn[d] = [phase |-> turn[d].phase, request |-> turn[d].request, memory |-> turn[d].memory]
  /\ turn[d].phase \in {"none", "working", "candidate"}
  /\ turn[d].phase # "none" =>
       /\ RequestFits(turn[d].request) /\ turn[d].request.dialog = d
       /\ dialog[d].state = "open" /\ turn[d].request.seen = dialog[d].users
  /\ turn[d].phase = "working" => turn[d].memory = dialog[d].memory
  /\ turn[d].phase = "candidate" =>
       IsReadable(Append(dialog[d].users, turn[d].request.message), turn[d].memory)

\* An accepted answer tells of a turn that is stored, while the phone waits for it.
AnswerFits(a) ==
  /\ a.request \in Request25 /\ a.request.number < counts.sends
  /\ a.committed => /\ Follows(a.request.dialog, Append(a.request.seen, a.request.message))
                    /\ a.request = phone.request => dialog[a.request.dialog].state = "open"

\* The phone has seen turns of its dialog; what it sends is pending and its draft.
PhoneFits ==
  /\ phone = [ready |-> phone.ready, known |-> phone.known, id |-> phone.id,
              persisted |-> phone.persisted, seen |-> phone.seen, draft |-> phone.draft,
              does |-> phone.does, request |-> phone.request, recovery |-> phone.recovery,
              pending |-> phone.pending]
  /\ phone.id \in Dialogs \cup {NoDialog} /\ kept \in Dialogs \cup {NoDialog}
  /\ phone.draft \in Messages \cup {EmptyDraft} /\ phone.seen \in Seq(Messages)
  /\ phone.does \in {"idle", "saving", "saved", "sending"}
  /\ ~phone.known => phone.id = NoDialog /\ phone.seen = << >>
  /\ phone.id # NoDialog => Follows(phone.id, phone.seen)
  /\ kept # NoDialog => Follows(kept, << >>)
  /\ phone.pending # NoPending => phone.pending \in Pending25
  /\ phone.does # "idle" => phone.id # NoDialog /\ phone.draft # EmptyDraft /\ phone.known
  /\ phone.does # "sending" => phone.request = NoRequest
  /\ phone.does = "sending" =>
       /\ phone.request \in Request25 /\ phone.request.number < counts.sends
       /\ phone.request.dialog = phone.id /\ phone.request.message = phone.draft
       /\ phone.pending # NoPending /\ phone.pending.message = phone.draft

CountsFit == counts = [sends |-> counts.sends, deaths |-> counts.deaths] /\ counts.sends \in Nat

DialogInv ==
  /\ DOMAIN dialog = Dialogs /\ DOMAIN turn = Dialogs
  /\ \A d \in Dialogs : DialogFits(d) /\ TurnFits(d)
  /\ \A r \in sent : RequestFits(r)
  /\ \A a \in answers : AnswerFits(a)
  /\ PhoneFits /\ CountsFit

\* Records with some of their fields replaced.
LEMMA DialogRebuilt ==
  ASSUME NEW x, x = [state |-> x.state, users |-> x.users, memory |-> x.memory], NEW u, NEW m
  PROVE  [x EXCEPT !.users = u, !.memory = m] = [state |-> x.state, users |-> u, memory |-> m]
<1>1. \E y, z : /\ y = [x EXCEPT !.users = u] /\ z = [y EXCEPT !.memory = m]
                /\ z = [x EXCEPT !.users = u, !.memory = m]
  BY Zenon
<1>2. PICK y, z : /\ y = [x EXCEPT !.users = u] /\ z = [y EXCEPT !.memory = m]
                  /\ z = [x EXCEPT !.users = u, !.memory = m]
  BY <1>1, Zenon
<1>3. z = [state |-> x.state, users |-> u, memory |-> m]
  <2>1. y = [x EXCEPT !.users = u] /\ z = [y EXCEPT !.memory = m]
    BY <1>2, Zenon
  <2> QED BY <2>1
<1> QED BY <1>2, <1>3, Zenon

LEMMA TurnRebuilt ==
  ASSUME NEW x, x = [phase |-> x.phase, request |-> x.request, memory |-> x.memory], NEW q, NEW m
  PROVE  [x EXCEPT !.phase = q, !.memory = m] = [phase |-> q, request |-> x.request, memory |-> m]
<1>1. \E y, z : /\ y = [x EXCEPT !.phase = q] /\ z = [y EXCEPT !.memory = m]
                /\ z = [x EXCEPT !.phase = q, !.memory = m]
  BY Zenon
<1>2. PICK y, z : /\ y = [x EXCEPT !.phase = q] /\ z = [y EXCEPT !.memory = m]
                  /\ z = [x EXCEPT !.phase = q, !.memory = m]
  BY <1>1, Zenon
<1>3. z = [phase |-> q, request |-> x.request, memory |-> m]
  <2>1. y = [x EXCEPT !.phase = q] /\ z = [y EXCEPT !.memory = m]
    BY <1>2, Zenon
  <2> QED BY <2>1
<1> QED BY <1>2, <1>3, Zenon

LEMMA InvIsSound ==
  ASSUME DialogInv
  PROVE  TurnsAreSound
<1>1. TurnsFollowWhatWasSeen
  BY DEF DialogInv, TurnFits, TurnsFollowWhatWasSeen
<1>2. ASSUME NEW d \in Dialogs, turn[d].phase = "candidate"
      PROVE  ~IsStale(d, turn[d].request) /\ IsReadable(Candidate(d).users, Candidate(d).memory)
  <2>1. /\ turn[d].request.seen = dialog[d].users /\ DialogFits(d)
        /\ IsReadable(Append(dialog[d].users, turn[d].request.message), turn[d].memory)
    BY <1>2 DEF DialogInv, TurnFits
  <2>2. /\ Candidate(d).users = Append(dialog[d].users, turn[d].request.message)
        /\ Candidate(d).memory = turn[d].memory
    BY <2>1 DEF Candidate, DialogFits
  <2>3. ~IsStale(d, turn[d].request)
    BY <2>1 DEF IsStale, Revision
  <2> QED BY <2>1, <2>2, <2>3
<1> QED BY <1>1, <1>2 DEF TurnsAreSound, AcceptedIsReadable

-----------------------------------------------------------------------------
(* What a step leaves true of the turns that somebody saw.                 *)

\* How the store of a dialog may change.
MovesOn(d) ==
  \/ dialog'[d] = dialog[d]
  \/ dialog[d].state # "new" /\ dialog'[d].state = "gone"
  \/ dialog[d].state = "new" /\ dialog'[d].state = "open" /\ dialog'[d].users = << >>
  \/ /\ dialog[d].state = "open" /\ dialog'[d].state = "open"
     /\ \E m \in Messages : dialog'[d].users = Append(dialog[d].users, m)

AllGo == \A d \in Dialogs : MovesOn(d)

LEMMA NothingBegins == ASSUME NEW users \in Seq(Messages) PROVE Begins(<< >>, users)
  BY DEF Begins

LEMMA BeginsItself == ASSUME NEW users \in Seq(Messages) PROVE Begins(users, users)
  BY DEF Begins

LEMMA SameLength ==
  ASSUME NEW users \in Seq(Messages), NEW s \in Seq(Messages), Begins(s, users), Len(s) = Len(users)
  PROVE  s = users
  BY SeqEqual DEF Begins

LEMMA FollowsStill ==
  ASSUME NEW d \in Dialogs, DialogFits(d), NEW s \in Seq(Messages), Follows(d, s), MovesOn(d)
  PROVE  Follows(d, s)'
<1>1. CASE dialog'[d] = dialog[d]
  BY <1>1 DEF Follows
<1>2. CASE dialog'[d].state = "gone"
  BY <1>2 DEF Follows
<1>3. CASE /\ dialog[d].state = "open" /\ dialog'[d].state = "open"
           /\ \E m \in Messages : dialog'[d].users = Append(dialog[d].users, m)
  <2>1. PICK m \in Messages : dialog'[d].users = Append(dialog[d].users, m)
    BY <1>3
  <2> DEFINE users == dialog[d].users
             longer == Append(users, m)
  <2>2. /\ Len(longer) = Len(users) + 1 /\ Len(users) \in Nat /\ Len(s) \in Nat
        /\ \A i \in 1..Len(users) : longer[i] = users[i]
    BY ElementsOfLonger DEF DialogFits
  <2>3. Begins(s, users)
    BY <1>3 DEF Follows
  <2> HIDE DEF users, longer
  <2>4. Begins(s, longer)
    BY <2>2, <2>3 DEF Begins
  <2> QED BY <1>3, <2>1, <2>4 DEF Follows, longer, users
<1> QED BY <1>1, <1>2, <1>3 DEF MovesOn, Follows

LEMMA RequestStays ==
  ASSUME DialogInv, AllGo, NEW r, RequestFits(r), counts'.sends \in Nat, counts.sends <= counts'.sends
  PROVE  RequestFits(r)'
<1>1. r \in Request25 /\ r.number < counts.sends /\ Follows(r.dialog, r.seen) /\ counts.sends \in Nat
  BY DEF RequestFits, DialogInv, CountsFit
<1>2. r.dialog \in Dialogs /\ r.seen \in Seq(Messages) /\ r.number \in Nat
  BY <1>1 DEF Request25
<1>3. Follows(r.dialog, r.seen)'
  BY <1>1, <1>2, FollowsStill DEF AllGo, DialogInv
<1> QED BY <1>1, <1>2, <1>3 DEF RequestFits

\* Answers on their way stay true when the phone stops waiting, or waits for the
\* same or for a new one.
LEMMA AnswerStays ==
  ASSUME DialogInv, AllGo, NEW a, AnswerFits(a), counts'.sends \in Nat, counts.sends <= counts'.sends,
         \/ phone'.request = NoRequest
         \/ phone'.request = phone.request /\ \A d \in Dialogs : dialog'[d].state = dialog[d].state
         \/ phone'.request.number = counts.sends
  PROVE  AnswerFits(a)'
<1>1. a.request \in Request25 /\ a.request.number < counts.sends /\ counts.sends \in Nat
  BY DEF AnswerFits, DialogInv, CountsFit
<1>2. /\ a.request.dialog \in Dialogs /\ a.request.seen \in Seq(Messages) /\ a.request.number \in Nat
      /\ a.request.message \in Messages
  BY <1>1 DEF Request25
<1> DEFINE d == a.request.dialog
           s == Append(a.request.seen, a.request.message)
<1>3. s \in Seq(Messages)
  BY <1>2, ElementsOfLonger
<1>4. a.committed => Follows(d, s) /\ (a.request = phone.request => dialog[d].state = "open")
  BY DEF AnswerFits
<1>5. DialogFits(d) /\ MovesOn(d)
  BY <1>2 DEF AllGo, DialogInv
<1>6. a.committed => Follows(d, s)'
  <2> HIDE DEF s, d
  <2> QED BY <1>2, <1>3, <1>4, <1>5, FollowsStill DEF d
<1>7. a.committed /\ a.request = phone'.request => dialog'[d].state = "open"
  BY <1>1, <1>2, <1>4, RagDialogsAssumption
<1> QED BY <1>1, <1>2, <1>6, <1>7 DEF AnswerFits

\* The phone does nothing.
LEMMA PhoneStays ==
  ASSUME DialogInv, AllGo, UNCHANGED <<phone, kept>>, counts'.sends = counts.sends
  PROVE  PhoneFits'
<1>1. PhoneFits /\ \A d \in Dialogs : DialogFits(d) /\ MovesOn(d)
  BY DEF DialogInv, AllGo
<1>2. phone.id # NoDialog => Follows(phone.id, phone.seen)'
  BY <1>1, FollowsStill DEF PhoneFits
<1>3. kept # NoDialog => Follows(kept, << >>)'
  <2>1. << >> \in Seq(Messages)
    OBVIOUS
  <2> QED BY <1>1, <2>1, FollowsStill DEF PhoneFits
<1> QED BY <1>1, <1>2, <1>3 DEF PhoneFits

-----------------------------------------------------------------------------
(* The steps of the backend.                                               *)

LEMMA TurnStays ==
  ASSUME DialogInv, NEW d \in Dialogs, dialog'[d] = dialog[d], turn'[d] = turn[d],
         counts'.sends \in Nat, counts.sends <= counts'.sends
  PROVE  TurnFits(d)'
<1>1. TurnFits(d)
  BY DEF DialogInv
<1>2. ASSUME turn[d].phase # "none" PROVE RequestFits(turn[d].request)'
  <2>1. RequestFits(turn[d].request) /\ turn[d].request.dialog = d /\ turn[d].request.number \in Nat
    BY <1>1, <1>2 DEF TurnFits, RequestFits, Request25
  <2> QED BY <2>1 DEF RequestFits, Follows, DialogInv, CountsFit
<1> QED BY <1>1, <1>2 DEF TurnFits

LEMMA IdleFits == ASSUME NEW d, turn'[d] = Idle25 PROVE TurnFits(d)'
  BY DEF TurnFits, Idle25

LEMMA BackendKeeps ==
  ASSUME DialogInv, UNCHANGED <<dialog, phone, kept>>, CountsFit', counts'.sends = counts.sends,
         sent' \subseteq sent, DOMAIN turn' = Dialogs, \A d \in Dialogs : TurnFits(d)',
         \A a \in answers' : a \in answers \/ AnswerFits(a)'
  PROVE  DialogInv'
<1>1. AllGo
  BY DEF AllGo, MovesOn
<1>2. \A d \in Dialogs : DialogFits(d)'
  BY DEF DialogInv, DialogFits
<1>3. counts.sends <= counts'.sends /\ counts'.sends \in Nat
  BY DEF DialogInv, CountsFit
<1>4. \A r \in sent' : RequestFits(r)'
  BY <1>1, <1>3, RequestStays DEF DialogInv
<1>5. \A a \in answers' : AnswerFits(a)'
  BY <1>1, <1>3, AnswerStays DEF DialogInv
<1>6. PhoneFits'
  BY <1>1, PhoneStays
<1> QED BY <1>2, <1>4, <1>5, <1>6 DEF DialogInv

LEMMA RefusalFits ==
  ASSUME DialogInv, NEW r, RequestFits(r), Answer(r, FALSE, "refused"), counts' = counts
  PROVE  \A a \in answers' : a \in answers \/ AnswerFits(a)'
<1> SUFFICES ASSUME NEW a \in answers', a \notin answers PROVE AnswerFits(a)'
  OBVIOUS
<1>1. a = [request |-> r, committed |-> FALSE, code |-> "refused"]
  BY DEF Answer
<1> QED BY <1>1 DEF AnswerFits, RequestFits

\* One dialog's turn changes.
LEMMA OneTurn ==
  ASSUME DialogInv, NEW d \in Dialogs, NEW t, turn' = [turn EXCEPT ![d] = t],
         dialog' = dialog, counts' = counts, turn'[d] = t => TurnFits(d)'
  PROVE  DOMAIN turn' = Dialogs /\ turn'[d] = t /\ \A e \in Dialogs : TurnFits(e)'
<1>1. DOMAIN turn' = Dialogs /\ turn'[d] = t /\ \A e \in Dialogs \ {d} : turn'[e] = turn[e]
  BY DEF DialogInv
<1>2. counts'.sends \in Nat /\ counts.sends <= counts'.sends
  BY DEF DialogInv, CountsFit
<1>3. \A e \in Dialogs \ {d} : TurnFits(e)'
  BY <1>1, <1>2, TurnStays
<1> QED BY <1>1, <1>3

LEMMA ArrivesKeeps == ASSUME DialogInv, NEW r \in sent, Arrives(r) PROVE DialogInv'
<1> DEFINE d == r.dialog
           begun == [phase |-> "working", request |-> r, memory |-> dialog[d].memory]
<1>1. RequestFits(r) /\ d \in Dialogs /\ r.seen \in Seq(Messages)
  BY DEF DialogInv, RequestFits, Request25
<1>2. UNCHANGED <<dialog, phone, kept, counts>> /\ sent' \subseteq sent
  BY DEF Arrives
<1>3. CASE Answer(r, FALSE, "refused") /\ UNCHANGED turn
  <2>1. \A e \in Dialogs : TurnFits(e)'
    BY <1>2, <1>3, TurnStays DEF DialogInv, CountsFit
  <2> QED BY <1>1, <1>2, <1>3, <2>1, RefusalFits, BackendKeeps DEF DialogInv, CountsFit
<1>4. CASE /\ dialog[d].state = "open" /\ ~IsStale(d, r)
           /\ turn' = [turn EXCEPT ![d] = begun] /\ answers' = answers
  <2>1. r.seen = dialog[d].users
    <3>1. Begins(r.seen, dialog[d].users) /\ dialog[d].users \in Seq(Messages)
      BY <1>1, <1>4 DEF RequestFits, Follows, DialogInv, DialogFits
    <3> QED BY <1>1, <1>4, <3>1, SameLength DEF IsStale, Revision
  <2>2. turn'[d] = begun => TurnFits(d)'
    BY <1>1, <1>2, <1>4, <2>1 DEF TurnFits, RequestFits, Follows
  <2>3. DOMAIN turn' = Dialogs /\ \A e \in Dialogs : TurnFits(e)'
    <3> HIDE DEF begun, d
    <3> QED BY <1>1, <1>2, <1>4, <2>2, OneTurn
  <2> QED BY <1>2, <1>4, <2>3, BackendKeeps DEF DialogInv, CountsFit
<1> QED BY <1>3, <1>4 DEF Arrives

LEMMA AbstainsKeeps == ASSUME DialogInv, NEW d \in Dialogs, Abstains(d) PROVE DialogInv'
<1> DEFINE t == [turn[d] EXCEPT !.phase = "candidate"]
<1>1. /\ turn[d].phase = "working" /\ turn' = [turn EXCEPT ![d] = t]
      /\ UNCHANGED <<dialog, phone, kept, sent, answers, counts>>
  BY DEF Abstains
<1>2. TurnFits(d) /\ DialogFits(d)
  BY DEF DialogInv
<1>3. t = [phase |-> "candidate", request |-> turn[d].request, memory |-> dialog[d].memory]
  BY <1>1, <1>2 DEF TurnFits
<1>4. IsReadable(Append(dialog[d].users, turn[d].request.message), dialog[d].memory)
  BY <1>1, <1>2, StaysReadable DEF TurnFits, DialogFits, RequestFits, Request25
<1>5. turn'[d] = t => TurnFits(d)'
  BY <1>1, <1>2, <1>3, <1>4 DEF TurnFits, RequestFits, Follows
<1>6. DOMAIN turn' = Dialogs /\ \A e \in Dialogs : TurnFits(e)'
  <2> HIDE DEF t
  <2> QED BY <1>1, <1>5, OneTurn
<1> QED BY <1>1, <1>6, BackendKeeps DEF DialogInv, CountsFit

LEMMA ProposesKeeps ==
  ASSUME DialogInv, NEW d \in Dialogs, NEW patch \in Patches(d), Proposes(d, patch)
  PROVE  DialogInv'
<1> DEFINE reduced == ReduceMemory(dialog[d].memory, patch, turn[d].request.message, Revision(d) + 1)
           t == [turn[d] EXCEPT !.phase = "candidate", !.memory = reduced.items]
<1>1. /\ turn[d].phase = "working" /\ reduced.ok /\ turn' = [turn EXCEPT ![d] = t]
      /\ UNCHANGED <<dialog, phone, kept, sent, answers, counts>>
  <2> HIDE DEF reduced
  <2>1. turn' = [turn EXCEPT ![d].phase = "candidate", ![d].memory = reduced.items]
    BY DEF Proposes, reduced
  <2>2. turn' = [turn EXCEPT ![d] = t]
    <3> DEFINE items == reduced.items
    <3> HIDE DEF items
    <3>1. turn' = [turn EXCEPT ![d].phase = "candidate", ![d].memory = items]
      BY <2>1 DEF items
    <3>2. turn' = [turn EXCEPT ![d] = [turn[d] EXCEPT !.phase = "candidate", !.memory = items]]
      BY <3>1 DEF DialogInv
    <3> QED BY <3>2 DEF items
  <2> QED BY <2>2 DEF Proposes, reduced
<1>2. TurnFits(d) /\ DialogFits(d)
  BY DEF DialogInv
<1>3. t = [phase |-> "candidate", request |-> turn[d].request, memory |-> reduced.items]
  <2> HIDE DEF reduced
  <2>1. turn[d] = [phase |-> turn[d].phase, request |-> turn[d].request, memory |-> turn[d].memory]
    BY <1>2 DEF TurnFits
  <2> QED BY <2>1, TurnRebuilt, Zenon
<1>4. Len(patch) \in Nat
  <2> DEFINE changes == Change({x.id : x \in dialog[d].memory})
  <2>1. patch = << >> \/ (\E c \in changes : patch = <<c>>) \/ patch \in changes \X changes
    BY DEF Patches
  <2> HIDE DEF changes
  <2>2. CASE patch \in changes \X changes
    <3>1. PICK a, b : patch = <<a, b>>
      BY <2>2
    <3> QED BY <3>1
  <2> QED BY <2>1, <2>2
<1>5. IsReadable(Append(dialog[d].users, turn[d].request.message), reduced.items)
  <2>1. /\ dialog[d].users \in Seq(Messages) /\ turn[d].request.message \in Messages
        /\ IsReadable(dialog[d].users, dialog[d].memory)
    BY <1>1, <1>2 DEF TurnFits, DialogFits, RequestFits, Request25
  <2> QED BY <1>1, <1>4, <2>1, ReducedIsReadable DEF Revision
<1> HIDE DEF reduced
<1>6. turn'[d] = t => TurnFits(d)'
  BY <1>1, <1>2, <1>3, <1>5 DEF TurnFits, RequestFits, Follows
<1>7. DOMAIN turn' = Dialogs /\ \A e \in Dialogs : TurnFits(e)'
  <2> HIDE DEF t
  <2> QED BY <1>1, <1>6, OneTurn
<1> QED BY <1>1, <1>7, BackendKeeps DEF DialogInv, CountsFit

LEMMA EmptyEndKeeps == ASSUME DialogInv, NEW d \in Dialogs, TurnEndsEmpty(d) PROVE DialogInv'
<1>1. /\ turn[d].phase # "none" /\ turn' = [turn EXCEPT ![d] = Idle25]
      /\ Answer(turn[d].request, FALSE, "refused")
      /\ UNCHANGED <<dialog, phone, kept, sent, counts>>
  BY DEF TurnEndsEmpty
<1>2. RequestFits(turn[d].request)
  BY <1>1 DEF DialogInv, TurnFits
<1>3. DOMAIN turn' = Dialogs /\ \A e \in Dialogs : TurnFits(e)'
  BY <1>1, OneTurn, IdleFits
<1>4. \A a \in answers' : a \in answers \/ AnswerFits(a)'
  BY <1>1, <1>2, RefusalFits
<1> QED BY <1>1, <1>3, <1>4, BackendKeeps DEF DialogInv, CountsFit

LEMMA RestartKeeps == ASSUME DialogInv, BackendRestarts PROVE DialogInv'
<1>1. /\ turn' = [d \in Dialogs |-> Idle25] /\ counts' = [counts EXCEPT !.deaths = @ + 1]
      /\ UNCHANGED <<dialog, phone, kept, sent, answers>>
  BY DEF BackendRestarts
<1>2. DOMAIN turn' = Dialogs /\ \A d \in Dialogs : TurnFits(d)'
  BY <1>1, IdleFits
<1>3. CountsFit' /\ counts'.sends = counts.sends
  BY <1>1 DEF DialogInv, CountsFit
<1> QED BY <1>1, <1>2, <1>3, BackendKeeps

LEMMA LossKeeps == ASSUME DialogInv, NEW r \in sent, RequestIsLost(r) PROVE DialogInv'
<1>1. sent' \subseteq sent /\ UNCHANGED <<dialog, turn, phone, kept, answers, counts>>
  BY DEF RequestIsLost
<1>2. \A d \in Dialogs : TurnFits(d)'
  BY <1>1, TurnStays DEF DialogInv, CountsFit
<1> QED BY <1>1, <1>2, BackendKeeps DEF DialogInv, CountsFit

LEMMA CommitKeeps == ASSUME DialogInv, NEW d \in Dialogs, CommitRagTurn(d) PROVE DialogInv'
<1> DEFINE r == turn[d].request
           longer == Append(dialog[d].users, r.message)
<1>1. /\ turn[d].phase = "candidate" /\ dialog' = [dialog EXCEPT ![d] = Candidate(d)]
      /\ turn' = [turn EXCEPT ![d] = Idle25] /\ Answer(r, TRUE, "accepted")
      /\ UNCHANGED <<phone, kept, sent, counts>>
  BY DEF CommitRagTurn
<1>2. /\ DialogFits(d) /\ RequestFits(r) /\ r.dialog = d /\ dialog[d].state = "open"
      /\ r.seen = dialog[d].users /\ r.message \in Messages /\ dialog[d].users \in Seq(Messages)
      /\ IsReadable(longer, turn[d].memory)
  BY <1>1 DEF DialogInv, TurnFits, DialogFits, RequestFits, Request25
<1>3. Candidate(d) = [state |-> "open", users |-> longer, memory |-> turn[d].memory]
  <2> HIDE DEF longer
  <2>1. Candidate(d) = [dialog[d] EXCEPT !.users = longer, !.memory = turn[d].memory]
    <3>1. Candidate(d) = [dialog[d] EXCEPT !.users = Append(dialog[d].users, turn[d].request.message),
                                           !.memory = turn[d].memory]
      BY <1>2 DEF Candidate, DialogFits
    <3> QED BY <3>1 DEF longer
  <2>3. /\ dialog[d].state = "open"
        /\ dialog[d] = [state |-> dialog[d].state, users |-> dialog[d].users, memory |-> dialog[d].memory]
    BY <1>2 DEF DialogFits
  <2>4. [dialog[d] EXCEPT !.users = longer, !.memory = turn[d].memory]
          = [state |-> dialog[d].state, users |-> longer, memory |-> turn[d].memory]
    BY <2>3, DialogRebuilt, Zenon
  <2> QED BY <2>1, <2>3, <2>4, Zenon
<1>4. longer \in Seq(Messages)
  BY <1>2, ElementsOfLonger
<1> HIDE DEF r, longer
<1>5. /\ DOMAIN dialog' = Dialogs /\ DOMAIN turn' = Dialogs
      /\ dialog'[d].state = "open" /\ dialog'[d].users = longer /\ dialog'[d].memory = turn[d].memory
      /\ turn'[d] = Idle25 /\ DialogFits(d)'
      /\ \A e \in Dialogs \ {d} : dialog'[e] = dialog[e] /\ turn'[e] = turn[e]
  BY <1>1, <1>2, <1>3, <1>4 DEF DialogInv, DialogFits
<1>6. AllGo
  BY <1>2, <1>5 DEF AllGo, MovesOn, r, longer
<1>7. counts'.sends \in Nat /\ counts.sends <= counts'.sends /\ CountsFit'
  BY <1>1 DEF DialogInv, CountsFit
<1>8. \A e \in Dialogs : DialogFits(e)' /\ TurnFits(e)'
  <2>1. ASSUME NEW e \in Dialogs \ {d} PROVE DialogFits(e)' /\ TurnFits(e)'
    BY <1>5, <1>7, TurnStays DEF DialogInv, DialogFits
  <2> QED BY <1>5, <2>1, IdleFits
<1>9. \A q \in sent' : RequestFits(q)'
  BY <1>1, <1>6, <1>7, RequestStays DEF DialogInv
<1>10. ASSUME NEW a \in answers' PROVE AnswerFits(a)'
  <2>1. CASE a \in answers
    <3>1. AnswerFits(a) /\ phone'.request = phone.request
          /\ \A e \in Dialogs : dialog'[e].state = dialog[e].state
      BY <1>1, <1>2, <1>5, <2>1 DEF DialogInv
    <3> QED BY <1>6, <1>7, <3>1, AnswerStays
  <2>2. CASE a = [request |-> r, committed |-> TRUE, code |-> "accepted"]
    <3>1. Begins(longer, longer)
      BY <1>4, BeginsItself
    <3>2. Append(r.seen, r.message) = longer
      BY <1>2 DEF longer, r
    <3> QED BY <1>1, <1>2, <1>5, <2>2, <3>1, <3>2 DEF AnswerFits, RequestFits, Follows
  <2> QED BY <1>1, <2>1, <2>2 DEF Answer
<1>11. PhoneFits'
  BY <1>1, <1>6, PhoneStays
<1> QED BY <1>5, <1>7, <1>8, <1>9, <1>10, <1>11 DEF DialogInv

-----------------------------------------------------------------------------
(* The steps of the phone.                                                 *)

LEMMA EmptyIsReadable == IsReadable(<< >>, {})
<1>1. \A f : OfField({}, f) = {}
  BY DEF OfField
<1>2. Cardinality({}) = 0
  BY FS_EmptySet
<1> QED BY <1>1, <1>2, RagMemoryAssumption DEF IsReadable, TaskMemoryIsValid

\* The phone alone acts.
LEMMA PhoneKeeps ==
  ASSUME DialogInv, UNCHANGED <<dialog, turn>>, CountsFit', counts.sends <= counts'.sends,
         \A r \in sent' : r \in sent \/ RequestFits(r)', answers' \subseteq answers,
         phone'.request \in {NoRequest, phone.request} \/ phone'.request.number = counts.sends,
         PhoneFits'
  PROVE  DialogInv'
<1>1. AllGo /\ counts'.sends \in Nat
  BY DEF AllGo, MovesOn, CountsFit
<1>2. \A d \in Dialogs : DialogFits(d)' /\ TurnFits(d)'
  BY <1>1, TurnStays DEF DialogInv, DialogFits
<1>3. \A r \in sent' : RequestFits(r)'
  BY <1>1, RequestStays DEF DialogInv
<1>4. \A a \in answers' : AnswerFits(a)'
  <2>1. \A d \in Dialogs : dialog'[d].state = dialog[d].state
    OBVIOUS
  <2> QED BY <1>1, <2>1, AnswerStays DEF DialogInv
<1> QED BY <1>2, <1>3, <1>4 DEF DialogInv

\* A phone that stops waiting keeps what it has seen and its draft.
LEMMA FailedPhone ==
  ASSUME PhoneFits, phone' = Failed(phone)
  PROVE  phone' = [ready |-> phone.ready, known |-> phone.known, id |-> phone.id,
                   persisted |-> phone.persisted, seen |-> phone.seen, draft |-> phone.draft,
                   does |-> "idle", request |-> NoRequest, recovery |-> TRUE,
                   pending |-> phone.pending]
<1> DEFINE z == [phone EXCEPT !.does = "idle", !.request = NoRequest, !.recovery = TRUE]
<1>1. \E y1, y2 : /\ y1 = [phone EXCEPT !.does = "idle"] /\ y2 = [y1 EXCEPT !.request = NoRequest]
                  /\ z = [y2 EXCEPT !.recovery = TRUE]
  BY Zenon
<1>2. phone' = z
  BY Zenon DEF Failed
<1> HIDE DEF z
<1>3. PICK y1, y2 : /\ y1 = [phone EXCEPT !.does = "idle"] /\ y2 = [y1 EXCEPT !.request = NoRequest]
                    /\ z = [y2 EXCEPT !.recovery = TRUE]
  BY <1>1, Zenon
<1>4. phone = [ready |-> phone.ready, known |-> phone.known, id |-> phone.id,
               persisted |-> phone.persisted, seen |-> phone.seen, draft |-> phone.draft,
               does |-> phone.does, request |-> phone.request, recovery |-> phone.recovery,
               pending |-> phone.pending]
  BY DEF PhoneFits
<1> QED BY <1>2, <1>3, <1>4

LEMMA NothingFollows == ASSUME DialogInv, NEW d \in Dialogs, NEW s, Follows(d, s) PROVE Follows(d, << >>)
  BY NothingBegins DEF Follows, DialogInv, DialogFits

LEMMA ReadKeeps == ASSUME DialogInv, ReadDialog PROVE DialogInv' /\ DraftsAreNotLost
<1> DEFINE id == IF phone.known THEN phone.id ELSE kept
           p == [phone EXCEPT !.known = TRUE, !.id = id, !.ready = TRUE,
                              !.persisted = phone.persisted \/ ~phone.known]
           read == [p EXCEPT !.recovery = FALSE, !.seen = dialog[id].users,
                             !.draft = IF Confirmed(id) THEN EmptyDraft ELSE @,
                             !.pending = NoPending]
<1>1. phone.does = "idle" /\ UNCHANGED <<dialog, turn, kept, sent, answers, counts>>
  BY DEF ReadDialog
<1>2. PhoneFits /\ CountsFit
  BY DEF DialogInv
<1>3. id \in Dialogs \cup {NoDialog} /\ (id # NoDialog => Follows(id, phone.seen))
  BY <1>2 DEF PhoneFits
<1>4. /\ p = [ready |-> TRUE, known |-> TRUE, id |-> id,
              persisted |-> phone.persisted \/ ~phone.known, seen |-> phone.seen, draft |-> phone.draft,
              does |-> "idle", request |-> NoRequest, recovery |-> phone.recovery,
              pending |-> phone.pending]
  <2> DEFINE was == phone.persisted \/ ~phone.known
  <2> HIDE DEF id, was
  <2>1. /\ phone.does = "idle" /\ phone.request = NoRequest
        /\ phone = [ready |-> phone.ready, known |-> phone.known, id |-> phone.id,
                    persisted |-> phone.persisted, seen |-> phone.seen, draft |-> phone.draft,
                    does |-> phone.does, request |-> phone.request, recovery |-> phone.recovery,
                    pending |-> phone.pending]
    BY <1>1, <1>2 DEF PhoneFits
  <2>2. [phone EXCEPT !.known = TRUE, !.id = id, !.ready = TRUE, !.persisted = was]
          = [ready |-> TRUE, known |-> TRUE, id |-> id, persisted |-> was, seen |-> phone.seen,
             draft |-> phone.draft, does |-> phone.does, request |-> phone.request,
             recovery |-> phone.recovery, pending |-> phone.pending]
    <3> HIDE DEF p, read
    <3> DEFINE z == [phone EXCEPT !.known = TRUE, !.id = id, !.ready = TRUE, !.persisted = was]
    <3>1. \E y1, y2, y3 : /\ y1 = [phone EXCEPT !.known = TRUE] /\ y2 = [y1 EXCEPT !.id = id]
                          /\ y3 = [y2 EXCEPT !.ready = TRUE] /\ z = [y3 EXCEPT !.persisted = was]
      BY Zenon
    <3> HIDE DEF z
    <3>2. PICK y1, y2, y3 : /\ y1 = [phone EXCEPT !.known = TRUE] /\ y2 = [y1 EXCEPT !.id = id]
                            /\ y3 = [y2 EXCEPT !.ready = TRUE] /\ z = [y3 EXCEPT !.persisted = was]
      BY <3>1, Zenon
    <3>3. z = [ready |-> TRUE, known |-> TRUE, id |-> id, persisted |-> was, seen |-> phone.seen,
               draft |-> phone.draft, does |-> phone.does, request |-> phone.request,
               recovery |-> phone.recovery, pending |-> phone.pending]
      BY <2>1, <3>2
    <3> QED BY <3>3, Zenon DEF z
  <2> QED BY <2>1, <2>2, Zenon DEF was
<1>5. CASE phone' = [p EXCEPT !.recovery = FALSE] \/ phone' = Failed(p)
  <2> HIDE DEF id
  <2>1. PhoneFits' /\ phone'.request = NoRequest /\ phone'.draft = phone.draft
    <3> HIDE DEF p
    <3>1. \E b \in BOOLEAN :
            phone' = [ready |-> TRUE, known |-> TRUE, id |-> id,
                      persisted |-> phone.persisted \/ ~phone.known, seen |-> phone.seen,
                      draft |-> phone.draft, does |-> "idle", request |-> NoRequest,
                      recovery |-> b, pending |-> phone.pending]
      BY <1>4, <1>5 DEF Failed
    <3> QED BY <1>1, <1>2, <1>3, <3>1 DEF PhoneFits, Follows
  <2> QED BY <1>1, <1>2, <2>1, PhoneKeeps DEF DraftsAreNotLost, CountsFit
<1>6. CASE id # NoDialog /\ dialog[id].state = "open" /\ phone' = read
  <2>1. /\ dialog[id].users \in Seq(Messages) /\ id \in Dialogs
        /\ Begins(dialog[id].users, dialog[id].users)
    BY <1>3, <1>6, BeginsItself DEF DialogInv, DialogFits
  <2>2. Confirmed(id) =>
          /\ phone.pending \in Pending25 /\ phone.pending # NoPending
          /\ Len(dialog[id].users) > phone.pending.revision
          /\ dialog[id].users[phone.pending.revision + 1] = phone.pending.message
    BY <1>2 DEF Confirmed, Revision, PhoneFits
  <2>3. Confirmed(id) => phone.pending.message \in ToSet(dialog[id].users)
    <3> HIDE DEF id
    <3> SUFFICES ASSUME Confirmed(id) PROVE phone.pending.message \in ToSet(dialog[id].users)
      OBVIOUS
    <3>1. /\ phone.pending.revision + 1 \in 1..Len(dialog[id].users)
          /\ dialog[id].users[phone.pending.revision + 1] = phone.pending.message
      <4>1. phone.pending.revision \in Nat
        BY <2>2 DEF Pending25
      <4> QED BY <2>1, <2>2, <4>1
    <3>2. DOMAIN dialog[id].users = 1..Len(dialog[id].users)
      BY <2>1
    <3> QED BY <3>1, <3>2 DEF ToSet
  <2> DEFINE left == IF Confirmed(id) THEN EmptyDraft ELSE phone.draft
  <2>4. phone' = [ready |-> TRUE, known |-> TRUE, id |-> id,
                  persisted |-> phone.persisted \/ ~phone.known, seen |-> dialog[id].users,
                  draft |-> left, does |-> "idle", request |-> NoRequest,
                  recovery |-> FALSE, pending |-> NoPending]
    <3> HIDE DEF p, id
    <3> QED BY <1>4, <1>6
  <2>5. left \in Messages \cup {EmptyDraft}
    BY <1>2 DEF PhoneFits
  <2>6. PhoneFits' /\ phone'.request = NoRequest
    <3> HIDE DEF left, id
    <3>1. PICK was : phone' = [ready |-> TRUE, known |-> TRUE, id |-> id, persisted |-> was,
                               seen |-> dialog[id].users, draft |-> left, does |-> "idle",
                               request |-> NoRequest, recovery |-> FALSE, pending |-> NoPending]
      BY <2>4, Zenon
    <3>2. /\ phone'.id = id /\ phone'.seen = dialog[id].users /\ phone'.request = NoRequest
          /\ phone'.known /\ phone'.draft = left /\ phone'.does = "idle" /\ phone'.pending = NoPending
      BY <3>1
    <3>3. Follows(phone.id, phone.seen)'
      <4>1. dialog' = dialog /\ dialog[id].state = "open"
        BY <1>1, <1>6
      <4> QED BY <2>1, <3>2, <4>1 DEF Follows
    <3>4. /\ kept' = kept /\ kept \in Dialogs \cup {NoDialog}
          /\ kept # NoDialog => Follows(kept, << >>)'
      BY <1>1, <1>2 DEF PhoneFits, Follows
    <3>5. PhoneFits'
      BY <2>1, <2>5, <3>1, <3>2, <3>3, <3>4 DEF PhoneFits
    <3> QED BY <3>2, <3>5
  <2>7. DraftsAreNotLost
    <3> SUFFICES ASSUME phone.draft # EmptyDraft, phone'.draft = EmptyDraft, phone.id # NoDialog
                 PROVE  /\ phone.pending # NoPending
                        /\ phone.pending.message \in ToSet(dialog[phone.id].users)
      BY DEF DraftsAreNotLost
    <3>1. id = phone.id /\ Confirmed(id)
      BY <1>2, <2>4 DEF PhoneFits
    <3> QED BY <2>2, <2>3, <3>1
  <2> QED BY <1>1, <1>2, <2>6, <2>7, PhoneKeeps DEF CountsFit
<1>7. CASE ~phone.known /\ phone' = Failed([phone EXCEPT !.ready = TRUE])
  <2>1. phone' = [ready |-> TRUE, known |-> phone.known, id |-> phone.id,
                  persisted |-> phone.persisted, seen |-> phone.seen, draft |-> phone.draft,
                  does |-> "idle", request |-> NoRequest, recovery |-> TRUE,
                  pending |-> phone.pending]
    BY <1>2, <1>7 DEF Failed, PhoneFits
  <2>2. PhoneFits'
    BY <1>1, <1>2, <2>1 DEF PhoneFits, Follows
  <2> QED BY <1>1, <1>2, <2>1, <2>2, PhoneKeeps DEF DraftsAreNotLost, CountsFit
<1> QED BY <1>5, <1>6, <1>7 DEF ReadDialog

LEMMA TypesKeeps == ASSUME DialogInv, NEW m \in Messages, Types(m) PROVE DialogInv' /\ DraftsAreNotLost
<1>1. /\ phone.does = "idle" /\ phone' = [phone EXCEPT !.draft = m]
      /\ UNCHANGED <<dialog, turn, kept, sent, answers, counts>>
  BY DEF Types
<1>2. PhoneFits /\ CountsFit /\ m # EmptyDraft
  BY RagDialogsAssumption DEF DialogInv
<1>3. phone' = [ready |-> phone.ready, known |-> phone.known, id |-> phone.id,
                persisted |-> phone.persisted, seen |-> phone.seen, draft |-> m,
                does |-> "idle", request |-> phone.request, recovery |-> phone.recovery,
                pending |-> phone.pending]
  BY <1>1, <1>2 DEF PhoneFits
<1>4. PhoneFits'
  BY <1>1, <1>2, <1>3 DEF PhoneFits, Follows
<1> QED BY <1>1, <1>2, <1>3, <1>4, PhoneKeeps DEF DraftsAreNotLost, CountsFit

LEMMA CreateKeeps == ASSUME DialogInv, NEW d \in Dialogs, CreateDialog(d) PROVE DialogInv' /\ DraftsAreNotLost
<1> DEFINE opened == [phone EXCEPT !.id = d, !.persisted = FALSE, !.seen = << >>, !.does = "saving"]
<1>1. /\ phone.does = "idle" /\ phone.known /\ phone.draft # EmptyDraft /\ phone.id = NoDialog
      /\ dialog[d].state = "new" /\ dialog' = [dialog EXCEPT ![d].state = "open"]
      /\ phone' = opened \/ phone' = phone
      /\ UNCHANGED <<turn, kept, sent, answers, counts>>
  BY DEF CreateDialog, CanSend
<1>2. PhoneFits /\ CountsFit /\ DialogFits(d) /\ TurnFits(d) /\ NoDialog # d
  BY RagDialogsAssumption DEF DialogInv
<1>3. dialog[d].users = << >>
  BY <1>1, <1>2 DEF DialogFits
<1>4. /\ dialog'[d] = [state |-> "open", users |-> << >>, memory |-> dialog[d].memory]
      /\ DOMAIN dialog' = Dialogs /\ \A e \in Dialogs \ {d} : dialog'[e] = dialog[e]
  <2>1. dialog'[d] = [dialog[d] EXCEPT !.state = "open"] /\ DOMAIN dialog' = Dialogs
        /\ \A e \in Dialogs \ {d} : dialog'[e] = dialog[e]
    BY <1>1 DEF DialogInv
  <2>2. dialog[d] = [state |-> dialog[d].state, users |-> << >>, memory |-> dialog[d].memory]
    BY <1>2, <1>3 DEF DialogFits
  <2> HIDE DEF opened
  <2>3. dialog'[d] = [state |-> "open", users |-> << >>, memory |-> dialog[d].memory]
    <3>1. dialog'[d] = [dialog[d] EXCEPT !.state = "open"]
      BY <2>1
    <3> QED BY <2>2, <3>1
  <2> QED BY <2>1, <2>3
<1>5. AllGo
  <2> HIDE DEF opened
  <2>1. dialog[d].state = "new"
    BY <1>1
  <2>2. dialog'[d].state = "open" /\ dialog'[d].users = << >>
    BY <1>4
  <2>3. MovesOn(d)
    BY <2>1, <2>2 DEF MovesOn
  <2>4. \A e \in Dialogs \ {d} : MovesOn(e)
    BY <1>4 DEF MovesOn
  <2> QED BY <2>3, <2>4 DEF AllGo
<1>6. counts'.sends \in Nat /\ counts.sends <= counts'.sends /\ CountsFit'
  BY <1>1, <1>2 DEF CountsFit
<1>7. \A e \in Dialogs : DialogFits(e)' /\ TurnFits(e)'
  <2>1. ASSUME NEW e \in Dialogs \ {d} PROVE DialogFits(e)' /\ TurnFits(e)'
    BY <1>1, <1>4, <1>6, TurnStays DEF DialogInv, DialogFits
  <2>2. TurnFits(d)'
    BY <1>1, <1>2 DEF TurnFits
  <2>3. DialogFits(d)'
    <3>1. << >> \in Seq(Messages) /\ IsReadable(<< >>, dialog[d].memory)
      BY <1>2, <1>3 DEF DialogFits
    <3> QED BY <1>4, <3>1 DEF DialogFits
  <2> QED BY <2>1, <2>2, <2>3
<1>8. \A r \in sent' : RequestFits(r)'
  BY <1>1, <1>5, <1>6, RequestStays DEF DialogInv
<1>9. Follows(d, << >>)' /\ (kept # NoDialog => Follows(kept, << >>)')
  <2>1. << >> \in Seq(Messages) /\ Begins(<< >>, << >>)
    <3>1. << >> \in Seq(Messages)
      OBVIOUS
    <3> QED BY <3>1, NothingBegins
  <2>2. ASSUME NEW e \in Dialogs, Follows(e, << >>) PROVE Follows(e, << >>)'
    <3>1. DialogFits(e) /\ MovesOn(e)
      BY <1>5 DEF AllGo, DialogInv
    <3> QED BY <2>1, <2>2, <3>1, FollowsStill
  <2>3. kept' = kept /\ (kept # NoDialog => kept \in Dialogs /\ Follows(kept, << >>))
    <3>1. kept # NoDialog => kept \in Dialogs /\ Follows(kept, << >>)
      BY <1>2 DEF PhoneFits
    <3>2. kept' = kept
      BY <1>1
    <3> QED BY <3>1, <3>2
  <2>6. kept # NoDialog => Follows(kept, << >>)'
    BY <2>2, <2>3
  <2>4. dialog'[d].state = "open" /\ dialog'[d].users = << >>
    BY <1>4
  <2>5. Follows(d, << >>)'
    BY <2>1, <2>4 DEF Follows
  <2> QED BY <2>5, <2>6
<1>10. PhoneFits' /\ phone'.request = NoRequest /\ phone'.draft = phone.draft
  <2>1. CASE phone' = opened
    <3>1. phone' = [ready |-> phone.ready, known |-> phone.known, id |-> d, persisted |-> FALSE,
                    seen |-> << >>, draft |-> phone.draft, does |-> "saving", request |-> phone.request,
                    recovery |-> phone.recovery, pending |-> phone.pending]
      <4>1. \E y1, y2, y3 : /\ y1 = [phone EXCEPT !.id = d] /\ y2 = [y1 EXCEPT !.persisted = FALSE]
                            /\ y3 = [y2 EXCEPT !.seen = << >>] /\ opened = [y3 EXCEPT !.does = "saving"]
        BY Zenon
      <4> HIDE DEF opened
      <4>2. PICK y1, y2, y3 : /\ y1 = [phone EXCEPT !.id = d] /\ y2 = [y1 EXCEPT !.persisted = FALSE]
                              /\ y3 = [y2 EXCEPT !.seen = << >>] /\ opened = [y3 EXCEPT !.does = "saving"]
        BY <4>1, Zenon
      <4>3. phone = [ready |-> phone.ready, known |-> phone.known, id |-> phone.id,
                     persisted |-> phone.persisted, seen |-> phone.seen, draft |-> phone.draft,
                     does |-> phone.does, request |-> phone.request, recovery |-> phone.recovery,
                     pending |-> phone.pending]
        BY <1>2 DEF PhoneFits
      <4> QED BY <2>1, <4>2, <4>3
    <3>2. << >> \in Seq(Messages)
      OBVIOUS
    <3> QED BY <1>1, <1>2, <1>9, <3>1, <3>2 DEF PhoneFits
  <2>2. CASE phone' = phone
    BY <1>1, <1>2, <1>9, <2>2 DEF PhoneFits
  <2> QED BY <1>1, <2>1, <2>2
<1>11. \A a \in answers' : AnswerFits(a)'
  BY <1>1, <1>5, <1>6, <1>10, AnswerStays DEF DialogInv
<1>12. DialogInv'
  BY <1>1, <1>4, <1>6, <1>7, <1>8, <1>10, <1>11 DEF DialogInv
<1> QED BY <1>10, <1>12 DEF DraftsAreNotLost

LEMMA DialogSaveKeeps == ASSUME DialogInv, SaveDialog PROVE DialogInv' /\ DraftsAreNotLost
<1>1. /\ phone.does = "saving" \/ (CanSend /\ phone.id # NoDialog)
      /\ \/ kept' = phone.id /\ phone' = [phone EXCEPT !.persisted = TRUE, !.does = "saved"]
         \/ phone' = [phone EXCEPT !.does = "idle"] /\ kept' = kept
      /\ UNCHANGED <<dialog, turn, sent, answers, counts>>
  BY DEF SaveDialog
<1>2. PhoneFits /\ CountsFit
  BY DEF DialogInv
<1>3. /\ phone.id \in Dialogs /\ phone.id # NoDialog /\ phone.known /\ phone.draft # EmptyDraft
      /\ phone.request = NoRequest
  BY <1>1, <1>2 DEF PhoneFits, CanSend
<1>4. Follows(phone.id, << >>)
  BY <1>2, <1>3, NothingFollows DEF PhoneFits
<1>5. phone = [ready |-> phone.ready, known |-> phone.known, id |-> phone.id,
               persisted |-> phone.persisted, seen |-> phone.seen, draft |-> phone.draft,
               does |-> phone.does, request |-> phone.request, recovery |-> phone.recovery,
               pending |-> phone.pending]
  BY <1>2 DEF PhoneFits
<1>6. CASE kept' = phone.id /\ phone' = [phone EXCEPT !.persisted = TRUE, !.does = "saved"]
  <2> DEFINE z == [phone EXCEPT !.persisted = TRUE, !.does = "saved"]
  <2>1. \E y : y = [phone EXCEPT !.persisted = TRUE] /\ z = [y EXCEPT !.does = "saved"]
    BY Zenon
  <2>2. phone' = z
    BY <1>6, Zenon
  <2> HIDE DEF z
  <2>3. PICK y : y = [phone EXCEPT !.persisted = TRUE] /\ z = [y EXCEPT !.does = "saved"]
    BY <2>1, Zenon
  <2>4. phone' = [ready |-> phone.ready, known |-> phone.known, id |-> phone.id,
                  persisted |-> TRUE, seen |-> phone.seen, draft |-> phone.draft,
                  does |-> "saved", request |-> phone.request, recovery |-> phone.recovery,
                  pending |-> phone.pending]
    BY <1>5, <2>2, <2>3
  <2>5. PhoneFits'
    <3>1. kept' = phone.id
      BY <1>6, Zenon
    <3> QED BY <1>1, <1>2, <1>3, <1>4, <2>4, <3>1 DEF PhoneFits, Follows
  <2> QED BY <1>1, <1>2, <1>3, <2>4, <2>5, PhoneKeeps DEF DraftsAreNotLost, CountsFit
<1>7. CASE phone' = [phone EXCEPT !.does = "idle"] /\ kept' = kept
  <2>1. phone' = [ready |-> phone.ready, known |-> phone.known, id |-> phone.id,
                  persisted |-> phone.persisted, seen |-> phone.seen, draft |-> phone.draft,
                  does |-> "idle", request |-> phone.request, recovery |-> phone.recovery,
                  pending |-> phone.pending]
    BY <1>5, <1>7
  <2>2. PhoneFits'
    BY <1>1, <1>2, <1>3, <1>7, <2>1 DEF PhoneFits, Follows
  <2> QED BY <1>1, <1>2, <1>3, <2>1, <2>2, PhoneKeeps DEF DraftsAreNotLost, CountsFit
<1> QED BY <1>1, <1>6, <1>7

LEMMA DispatchKeeps == ASSUME DialogInv, Dispatch PROVE DialogInv' /\ DraftsAreNotLost
<1> SUFFICES ASSUME NEW r, NEW waits,
                    r = [number |-> counts.sends, dialog |-> phone.id, message |-> phone.draft,
                         seen |-> phone.seen],
                    waits = [revision |-> Len(phone.seen), message |-> phone.draft]
             PROVE  DialogInv' /\ DraftsAreNotLost
  OBVIOUS
<1>1. /\ phone.does = "saved" \/ (CanSend /\ phone.id # NoDialog)
      /\ sent' = sent \cup {r} /\ counts' = [counts EXCEPT !.sends = @ + 1]
      /\ phone' = [phone EXCEPT !.does = "sending", !.request = r, !.pending = waits]
      /\ UNCHANGED <<dialog, turn, kept, answers>>
  BY Zenon DEF Dispatch
<1>12. sent' = sent \cup {r} /\ UNCHANGED <<dialog, turn, kept, answers>>
  BY <1>1, Zenon
<1>13. counts' = [counts EXCEPT !.sends = @ + 1]
  BY <1>1, Zenon
<1>2. PhoneFits /\ CountsFit
  BY DEF DialogInv
<1>3. /\ phone.id \in Dialogs /\ phone.id # NoDialog /\ phone.known /\ phone.draft \in Messages
      /\ phone.seen \in Seq(Messages) /\ phone.draft # EmptyDraft
  BY <1>1, <1>2 DEF PhoneFits, CanSend
<1>4. counts.sends \in Nat /\ counts'.sends = counts.sends + 1 /\ CountsFit'
  BY <1>2, <1>13 DEF CountsFit
<1>5. /\ r \in Request25 /\ r.number = counts.sends /\ r.dialog = phone.id
      /\ r.message = phone.draft /\ r.seen = phone.seen
  BY <1>3, <1>4 DEF Request25
<1>6. waits \in Pending25 /\ waits.message = phone.draft
  BY <1>3 DEF Pending25
<1>7. RequestFits(r)'
  BY <1>2, <1>3, <1>4, <1>5, <1>12 DEF RequestFits, PhoneFits, Follows
<1>8. phone' = [ready |-> phone.ready, known |-> phone.known, id |-> phone.id,
                persisted |-> phone.persisted, seen |-> phone.seen, draft |-> phone.draft,
                does |-> "sending", request |-> r, recovery |-> phone.recovery,
                pending |-> waits]
  <2> DEFINE z == [phone EXCEPT !.does = "sending", !.request = r, !.pending = waits]
  <2>1. \E y1, y2 : /\ y1 = [phone EXCEPT !.does = "sending"] /\ y2 = [y1 EXCEPT !.request = r]
                    /\ z = [y2 EXCEPT !.pending = waits]
    BY Zenon
  <2>2. phone' = z
    BY <1>1, Zenon
  <2> HIDE DEF z
  <2>3. PICK y1, y2 : /\ y1 = [phone EXCEPT !.does = "sending"] /\ y2 = [y1 EXCEPT !.request = r]
                      /\ z = [y2 EXCEPT !.pending = waits]
    BY <2>1, Zenon
  <2>4. phone = [ready |-> phone.ready, known |-> phone.known, id |-> phone.id,
                 persisted |-> phone.persisted, seen |-> phone.seen, draft |-> phone.draft,
                 does |-> phone.does, request |-> phone.request, recovery |-> phone.recovery,
                 pending |-> phone.pending]
    BY <1>2 DEF PhoneFits
  <2> QED BY <2>2, <2>3, <2>4
<1>9. PhoneFits'
  <2>1. kept' = kept /\ UNCHANGED dialog
    BY <1>12
  <2>2. phone'.request.number < counts'.sends
    BY <1>4, <1>5, <1>8
  <2>3. waits # NoPending
    BY <1>6, RagDialogsAssumption
  <2> QED BY <1>2, <1>3, <1>5, <1>6, <1>8, <2>1, <2>2, <2>3 DEF PhoneFits, Follows
<1>10. /\ UNCHANGED <<dialog, turn>> /\ counts.sends <= counts'.sends
       /\ \A q \in sent' : q \in sent \/ RequestFits(q)'
       /\ answers' \subseteq answers /\ phone'.request.number = counts.sends
  BY <1>4, <1>5, <1>7, <1>8, <1>12
<1>11. DialogInv'
  BY <1>4, <1>9, <1>10, PhoneKeeps
<1> QED BY <1>8, <1>11 DEF DraftsAreNotLost

LEMMA ComesKeeps == ASSUME DialogInv, NEW a \in answers, AnswerComes(a) PROVE DialogInv' /\ DraftsAreNotLost
<1> DEFINE users == dialog[phone.id].users
           longer == Append(a.request.seen, a.request.message)
<1>1. answers' \subseteq answers /\ UNCHANGED <<dialog, turn, kept, sent, counts>>
  BY DEF AnswerComes
<1>2. PhoneFits /\ CountsFit /\ AnswerFits(a)
  BY DEF DialogInv
<1>3. phone = [ready |-> phone.ready, known |-> phone.known, id |-> phone.id,
               persisted |-> phone.persisted, seen |-> phone.seen, draft |-> phone.draft,
               does |-> phone.does, request |-> phone.request, recovery |-> phone.recovery,
               pending |-> phone.pending]
  BY <1>2 DEF PhoneFits
<1>4. CASE phone' = phone
  <2>1. PhoneFits'
    BY <1>1, <1>2, <1>4 DEF PhoneFits, Follows
  <2> QED BY <1>1, <1>2, <1>4, <2>1, PhoneKeeps DEF DraftsAreNotLost, CountsFit
<1>5. CASE /\ a.request = phone.request /\ a.committed
           /\ phone' = [phone EXCEPT !.does = "idle", !.request = NoRequest, !.draft = EmptyDraft,
                          !.seen = longer, !.pending = NoPending]
  <2>1. /\ phone.request \in Request25 /\ phone.does = "sending" /\ phone.request.dialog = phone.id
        /\ phone.request.message = phone.draft /\ phone.id \in Dialogs /\ phone.known
        /\ phone.pending # NoPending /\ phone.pending.message = phone.draft
    <3>1. phone.request \in Request25 /\ phone.request # NoRequest
      BY <1>2, <1>5, RagDialogsAssumption DEF AnswerFits
    <3> QED BY <1>2, <3>1 DEF PhoneFits
  <2>2. a.request.seen \in Seq(Messages) /\ a.request.message \in Messages
    BY <1>5, <2>1 DEF Request25
  <2>3. longer \in Seq(Messages)
    BY <2>2, ElementsOfLonger
  <2>4. Follows(phone.id, longer) /\ dialog[phone.id].state = "open"
    BY <1>2, <1>5, <2>1 DEF AnswerFits
  <2>5. phone.draft \in ToSet(users)
    <3>1. users \in Seq(Messages) /\ Begins(longer, users)
      BY <2>1, <2>4 DEF DialogInv, DialogFits, Follows
    <3>2. Len(longer) = Len(a.request.seen) + 1 /\ Len(a.request.seen) \in Nat
          /\ longer[Len(a.request.seen) + 1] = phone.draft
      BY <1>5, <2>1, <2>2, ElementsOfLonger
    <3> DEFINE n == Len(a.request.seen) + 1
    <3> HIDE DEF users, longer
    <3>3. n \in 1..Len(longer) /\ Len(longer) <= Len(users) /\ Len(users) \in Nat
      BY <3>1, <3>2 DEF Begins
    <3>4. users[n] = phone.draft /\ n \in 1..Len(users)
      BY <3>1, <3>2, <3>3 DEF Begins
    <3>5. DOMAIN users = 1..Len(users)
      BY <3>1
    <3> QED BY <3>4, <3>5 DEF ToSet
  <2> HIDE DEF longer, users
  <2>6. phone' = [ready |-> phone.ready, known |-> phone.known, id |-> phone.id,
                  persisted |-> phone.persisted, seen |-> longer, draft |-> EmptyDraft,
                  does |-> "idle", request |-> NoRequest, recovery |-> phone.recovery,
                  pending |-> NoPending]
    <3> DEFINE z == [phone EXCEPT !.does = "idle", !.request = NoRequest, !.draft = EmptyDraft,
                       !.seen = longer, !.pending = NoPending]
    <3>1. \E y1, y2, y3, y4 :
            /\ y1 = [phone EXCEPT !.does = "idle"] /\ y2 = [y1 EXCEPT !.request = NoRequest]
            /\ y3 = [y2 EXCEPT !.draft = EmptyDraft] /\ y4 = [y3 EXCEPT !.seen = longer]
            /\ z = [y4 EXCEPT !.pending = NoPending]
      BY Zenon
    <3>2. phone' = z
      BY <1>5, Zenon
    <3> HIDE DEF z
    <3>3. PICK y1, y2, y3, y4 :
            /\ y1 = [phone EXCEPT !.does = "idle"] /\ y2 = [y1 EXCEPT !.request = NoRequest]
            /\ y3 = [y2 EXCEPT !.draft = EmptyDraft] /\ y4 = [y3 EXCEPT !.seen = longer]
            /\ z = [y4 EXCEPT !.pending = NoPending]
      BY <3>1, Zenon
    <3> QED BY <1>3, <3>2, <3>3
  <2>7. PhoneFits'
    <3>1. \A l \in Seq(Messages) : Follows(phone.id, l) => Follows(phone.id, l)'
      BY <1>1, <2>6 DEF Follows
    <3> QED BY <1>1, <1>2, <2>1, <2>3, <2>4, <2>6 DEF PhoneFits, Follows
  <2>8. DraftsAreNotLost
    BY <2>1, <2>5 DEF DraftsAreNotLost, users
  <2> QED BY <1>1, <1>2, <2>6, <2>7, <2>8, PhoneKeeps DEF CountsFit
<1>6. CASE phone' = Failed(phone)
  <2>1. phone' = [ready |-> phone.ready, known |-> phone.known, id |-> phone.id,
                  persisted |-> phone.persisted, seen |-> phone.seen, draft |-> phone.draft,
                  does |-> "idle", request |-> NoRequest, recovery |-> TRUE,
                  pending |-> phone.pending]
    BY <1>2, <1>6, FailedPhone
  <2>2. PhoneFits'
    BY <1>1, <1>2, <2>1 DEF PhoneFits, Follows
  <2> QED BY <1>1, <1>2, <2>1, <2>2, PhoneKeeps DEF DraftsAreNotLost, CountsFit
<1> QED BY <1>4, <1>5, <1>6, Zenon DEF AnswerComes

LEMMA GivesUpKeeps == ASSUME DialogInv, GivesUp PROVE DialogInv' /\ DraftsAreNotLost
<1>1. answers' \subseteq answers /\ phone' = Failed(phone) /\ UNCHANGED <<dialog, turn, kept, sent, counts>>
  BY DEF GivesUp
<1>2. PhoneFits /\ CountsFit
  BY DEF DialogInv
<1>3. phone' = [ready |-> phone.ready, known |-> phone.known, id |-> phone.id,
                persisted |-> phone.persisted, seen |-> phone.seen, draft |-> phone.draft,
                does |-> "idle", request |-> NoRequest, recovery |-> TRUE,
                pending |-> phone.pending]
  BY <1>1, <1>2, FailedPhone
<1>4. PhoneFits'
  BY <1>1, <1>2, <1>3 DEF PhoneFits, Follows
<1> QED BY <1>1, <1>2, <1>3, <1>4, PhoneKeeps DEF DraftsAreNotLost, CountsFit

LEMMA DeathKeeps == ASSUME DialogInv, PhoneDies PROVE DialogInv' /\ DraftsAreNotLost
<1>1. /\ phone' = Cold /\ answers' = {} /\ counts' = [counts EXCEPT !.deaths = @ + 1]
      /\ UNCHANGED <<dialog, turn, kept, sent>>
  BY DEF PhoneDies
<1>2. PhoneFits /\ CountsFit
  BY DEF DialogInv
<1>3. CountsFit' /\ counts'.sends = counts.sends /\ counts.sends \in Nat
  BY <1>1, <1>2 DEF CountsFit
<1>4. /\ phone' = Cold /\ answers' = {} /\ UNCHANGED <<dialog, turn, kept, sent>>
  BY <1>1, Zenon
<1>5. PhoneFits'
  <2>1. << >> \in Seq(Messages)
    OBVIOUS
  <2> QED BY <1>2, <1>4, <2>1 DEF PhoneFits, Follows, Cold
<1>6. phone'.request = NoRequest /\ ~phone'.known
  BY <1>4 DEF Cold
<1>7. DialogInv'
  BY <1>3, <1>4, <1>5, <1>6, PhoneKeeps
<1> QED BY <1>6, <1>7 DEF DraftsAreNotLost

\* The store after a reset of dialog d, or of none.
LEMMA ResetStore ==
  ASSUME DialogInv, NEW d \in Dialogs \cup {NoDialog}, d # NoDialog => turn[d].phase = "none",
         d # NoDialog => Follows(d, << >>),
         dialog' = IF d = NoDialog THEN dialog
                   ELSE [dialog EXCEPT ![d] = [state |-> "gone", users |-> << >>, memory |-> {}]],
         UNCHANGED <<turn, sent, answers, counts>>
  PROVE  /\ AllGo /\ DOMAIN dialog' = Dialogs
         /\ \A e \in Dialogs : DialogFits(e)' /\ TurnFits(e)'
         /\ \A r \in sent' : RequestFits(r)'
<1>1. /\ DOMAIN dialog' = Dialogs /\ \A e \in Dialogs \ {d} : dialog'[e] = dialog[e]
      /\ d # NoDialog => dialog'[d] = [state |-> "gone", users |-> << >>, memory |-> {}]
  BY DEF DialogInv
<1>2. AllGo
  BY <1>1 DEF AllGo, MovesOn, Follows
<1>3. counts'.sends \in Nat /\ counts.sends <= counts'.sends
  BY DEF DialogInv, CountsFit
<1>4. ASSUME NEW e \in Dialogs \ {d} PROVE DialogFits(e)' /\ TurnFits(e)'
  BY <1>1, <1>3, <1>4, TurnStays DEF DialogInv, DialogFits
<1>5. ASSUME d \in Dialogs PROVE DialogFits(d)' /\ TurnFits(d)'
  <2>1. d # NoDialog
    BY <1>5, RagDialogsAssumption
  <2>2. DialogFits(d)'
    <3>1. << >> \in Seq(Messages)
      OBVIOUS
    <3>2. /\ dialog'[d].state = "gone" /\ dialog'[d].users = << >> /\ dialog'[d].memory = {}
          /\ dialog'[d] = [state |-> "gone", users |-> << >>, memory |-> {}]
      BY <1>1, <2>1
    <3> QED BY <3>1, <3>2, EmptyIsReadable DEF DialogFits
  <2>3. TurnFits(d)'
    BY <1>5, <2>1 DEF TurnFits, DialogInv
  <2> QED BY <2>2, <2>3
<1>6. \A r \in sent' : RequestFits(r)'
  BY <1>2, <1>3, RequestStays DEF DialogInv
<1> QED BY <1>1, <1>2, <1>4, <1>5, <1>6

LEMMA ResetKeeps == ASSUME DialogInv, ResetDialog PROVE DialogInv' /\ DraftsAreNotLost
<1> DEFINE d == phone.id
           forgotten == [Cold EXCEPT !.ready = TRUE, !.known = TRUE, !.persisted = TRUE]
<1>1. phone.does = "idle" /\ UNCHANGED <<turn, sent, answers, counts>>
  BY DEF ResetDialog
<1>2. PhoneFits /\ CountsFit
  BY DEF DialogInv
<1>3. CountsFit' /\ counts.sends <= counts'.sends /\ counts'.sends \in Nat
  BY <1>1, <1>2 DEF CountsFit
<1>4. CASE phone' = Failed(phone) /\ UNCHANGED <<dialog, kept>>
  <2>1. phone' = [ready |-> phone.ready, known |-> phone.known, id |-> phone.id,
                  persisted |-> phone.persisted, seen |-> phone.seen, draft |-> phone.draft,
                  does |-> "idle", request |-> NoRequest, recovery |-> TRUE,
                  pending |-> phone.pending]
    BY <1>2, <1>4, FailedPhone
  <2>2. PhoneFits'
    BY <1>1, <1>2, <1>4, <2>1 DEF PhoneFits, Follows
  <2> QED BY <1>1, <1>3, <1>4, <2>1, <2>2, PhoneKeeps DEF DraftsAreNotLost
<1>5. CASE /\ d # NoDialog => turn[d].phase = "none"
           /\ dialog' = IF d = NoDialog THEN dialog
                        ELSE [dialog EXCEPT ![d] = [state |-> "gone", users |-> << >>, memory |-> {}]]
           /\ (kept' = NoDialog /\ phone' = forgotten) \/ (phone' = Failed(phone) /\ kept' = kept)
  <2>1. d \in Dialogs \cup {NoDialog} /\ (d # NoDialog => Follows(d, << >>))
    <3>1. d \in Dialogs \cup {NoDialog} /\ (d # NoDialog => Follows(d, phone.seen))
      BY <1>2 DEF PhoneFits
    <3> HIDE DEF d
    <3> QED BY <3>1, NothingFollows
  <2>2. /\ AllGo /\ DOMAIN dialog' = Dialogs
        /\ \A e \in Dialogs : DialogFits(e)' /\ TurnFits(e)'
        /\ \A r \in sent' : RequestFits(r)'
    <3> HIDE DEF d, forgotten
    <3> QED BY <1>1, <1>5, <2>1, ResetStore
  <2>3. CASE kept' = NoDialog /\ phone' = forgotten
    <3>1. forgotten = [ready |-> TRUE, known |-> TRUE, id |-> NoDialog, persisted |-> TRUE,
                   seen |-> << >>, draft |-> EmptyDraft, does |-> "idle", request |-> NoRequest,
                   recovery |-> FALSE, pending |-> NoPending]
      <4>1. \E y1, y2 : /\ y1 = [Cold EXCEPT !.ready = TRUE] /\ y2 = [y1 EXCEPT !.known = TRUE]
                        /\ forgotten = [y2 EXCEPT !.persisted = TRUE]
        BY Zenon
      <4> HIDE DEF forgotten
      <4>2. PICK y1, y2 : /\ y1 = [Cold EXCEPT !.ready = TRUE] /\ y2 = [y1 EXCEPT !.known = TRUE]
                          /\ forgotten = [y2 EXCEPT !.persisted = TRUE]
        BY <4>1, Zenon
      <4> QED BY <4>2 DEF Cold
    <3>2. << >> \in Seq(Messages)
      OBVIOUS
    <3> HIDE DEF forgotten
    <3>3. PhoneFits' /\ phone'.request = NoRequest /\ phone'.id = NoDialog
      BY <2>3, <3>1, <3>2 DEF PhoneFits
    <3>4. \A a \in answers' : AnswerFits(a)'
      BY <1>1, <1>3, <2>2, <3>3, AnswerStays DEF DialogInv
    <3>5. DialogInv'
      BY <1>1, <1>3, <2>2, <3>3, <3>4 DEF DialogInv
    <3> QED BY <3>3, <3>5 DEF DraftsAreNotLost
  <2>4. CASE phone' = Failed(phone) /\ kept' = kept
    <3>1. phone' = [ready |-> phone.ready, known |-> phone.known, id |-> phone.id,
                    persisted |-> phone.persisted, seen |-> phone.seen, draft |-> phone.draft,
                    does |-> "idle", request |-> NoRequest, recovery |-> TRUE,
                    pending |-> phone.pending]
      BY <1>2, <2>4, FailedPhone
    <3>2. ASSUME NEW e \in Dialogs, NEW s \in Seq(Messages), Follows(e, s) PROVE Follows(e, s)'
      <4>1. DialogFits(e) /\ MovesOn(e)
        BY <2>2 DEF AllGo, DialogInv
      <4> QED BY <3>2, <4>1, FollowsStill
    <3>3. phone.id # NoDialog => Follows(phone.id, phone.seen)'
      <4>1. phone.id # NoDialog => phone.id \in Dialogs /\ Follows(phone.id, phone.seen)
        BY <1>2 DEF PhoneFits
      <4>2. phone'.id = phone.id /\ phone'.seen = phone.seen /\ phone.seen \in Seq(Messages)
        BY <1>2, <3>1 DEF PhoneFits
      <4> QED BY <3>2, <4>1, <4>2
    <3>4. kept # NoDialog => Follows(kept, << >>)'
      <4>1. kept # NoDialog => kept \in Dialogs /\ Follows(kept, << >>)
        BY <1>2 DEF PhoneFits
      <4>2. << >> \in Seq(Messages) /\ kept' = kept
        BY <2>4
      <4> QED BY <3>2, <4>1, <4>2
    <3>5. PhoneFits'
      BY <1>1, <1>2, <2>4, <3>1, <3>3, <3>4 DEF PhoneFits
    <3>6. \A a \in answers' : AnswerFits(a)'
      BY <1>1, <1>3, <2>2, <3>1, AnswerStays DEF DialogInv
    <3>7. DialogInv'
      BY <1>1, <1>3, <2>2, <3>5, <3>6 DEF DialogInv
    <3> QED BY <3>1, <3>7 DEF DraftsAreNotLost
  <2> QED BY <1>5, <2>3, <2>4
<1> QED BY <1>4, <1>5, Zenon DEF ResetDialog

-----------------------------------------------------------------------------
(* All steps.                                                              *)

LEMMA DialogInit == ASSUME RagInit PROVE DialogInv
<1>1. << >> \in Seq(Messages) /\ Begins(<< >>, << >>)
  <2>1. << >> \in Seq(Messages)
    OBVIOUS
  <2> QED BY <2>1, NothingBegins
<1>2. /\ DOMAIN dialog = Dialogs /\ DOMAIN turn = Dialogs
      /\ \A d \in Dialogs : DialogFits(d) /\ TurnFits(d)
  BY <1>1, EmptyIsReadable DEF RagInit, DialogFits, TurnFits, Idle25
<1>3. PhoneFits
  BY <1>1 DEF RagInit, Cold, PhoneFits
<1> QED BY <1>2, <1>3 DEF RagInit, DialogInv, CountsFit

LEMMA DialogStep == ASSUME DialogInv, [RagNext]_ragVars PROVE DialogInv' /\ [TurnsAreSound' /\ DraftsAreNotLost]_ragVars
<1>1. ASSUME phone' = phone PROVE DraftsAreNotLost
  BY <1>1 DEF DraftsAreNotLost
<1>2. CASE UNCHANGED ragVars
  <2>1. DialogInv'
    BY <1>2, BackendKeeps, TurnStays DEF ragVars, DialogInv, CountsFit
  <2> QED BY <1>2, <2>1
<1>3. ASSUME NEW r \in sent, Arrives(r) PROVE DialogInv' /\ DraftsAreNotLost
  BY <1>1, <1>3, ArrivesKeeps DEF Arrives
<1>4. ASSUME NEW r \in sent, RequestIsLost(r) PROVE DialogInv' /\ DraftsAreNotLost
  BY <1>1, <1>4, LossKeeps DEF RequestIsLost
<1>5. ASSUME NEW d \in Dialogs, Abstains(d) PROVE DialogInv' /\ DraftsAreNotLost
  <2>1. phone' = phone
    BY <1>5, Zenon DEF Abstains
  <2> QED BY <1>1, <1>5, <2>1, AbstainsKeeps
<1>6. ASSUME NEW d \in Dialogs, TurnEndsEmpty(d) PROVE DialogInv' /\ DraftsAreNotLost
  BY <1>1, <1>6, EmptyEndKeeps DEF TurnEndsEmpty
<1>7. ASSUME NEW d \in Dialogs, CommitRagTurn(d) PROVE DialogInv' /\ DraftsAreNotLost
  BY <1>1, <1>7, CommitKeeps DEF CommitRagTurn
<1>8. ASSUME NEW d \in Dialogs, NEW patch \in Patches(d), Proposes(d, patch)
      PROVE  DialogInv' /\ DraftsAreNotLost
  <2>1. phone' = phone
    BY <1>8, Zenon DEF Proposes
  <2> QED BY <1>1, <1>8, <2>1, ProposesKeeps
<1>9. ASSUME BackendRestarts PROVE DialogInv' /\ DraftsAreNotLost
  <2>1. phone' = phone
    BY <1>9, Zenon DEF BackendRestarts
  <2> QED BY <1>1, <1>9, <2>1, RestartKeeps
<1>10. CASE RagNext
  <2>1. DialogInv' /\ DraftsAreNotLost
    BY <1>3, <1>4, <1>5, <1>6, <1>7, <1>8, <1>9, <1>10, CreateKeeps, TypesKeeps, ComesKeeps,
       ReadKeeps, DialogSaveKeeps, DispatchKeeps, GivesUpKeeps, ResetKeeps, DeathKeeps, Zenon DEF RagNext
  <2>2. TurnsAreSound'
    BY <2>1, InvIsSound, PTL
  <2> QED BY <2>1, <2>2
<1> QED BY <1>2, <1>10

\* What a dialog keeps is sound, and what the person typed is not lost: in every step of
\* any number of dialogs (service.send, Store.commit_turn, Day25ViewModel).
THEOREM DialogsStaySound == RagSpec => DialogsAreSound
<1>1. RagInit => DialogInv
  BY DialogInit
<1>2. DialogInv /\ [RagNext]_ragVars => DialogInv' /\ [TurnsAreSound' /\ DraftsAreNotLost]_ragVars
  BY DialogStep
<1> QED BY <1>1, <1>2, PTL DEF RagSpec, DialogsAreSound
=============================================================================
