----------------------- MODULE DependencyWatchProofs -----------------------
(***************************************************************************)
(* Theorems about the dependency watch service, for any number of watches  *)
(* and processes, any requests and any behaviour of the clock.             *)
(***************************************************************************)
EXTENDS DependencyWatchLedger, SequenceTheorems, FiniteSetTheorems, TLAPS

-----------------------------------------------------------------------------
(* The inductive invariant.                                                *)

\* The owner of the lock is the only process that is not down; a worker lives
\* in a process that has recovered the store, and outlives its readiness.
Lifecycle ==
    \A p \in Procs :
        /\ pc[p] # "down" <=> lock = p
        /\ ready[p] => pc[p] = "serving"
        /\ pc[p] = "serving" => worker[p] # "none"
        /\ worker[p] # "none" => pc[p] \in {"serving", "draining"}
        /\ passNow[p] = NoRun <=> worker[p] \in {"none", "idle"}

\* A worker is responsible for whatever is running in the store.
WorkerSettles ==
    \A p \in Procs :
        /\ worker[p] # "none" =>
            \A w \in Watches : Running(w) => worker[p] = "lookup" /\ run[p].watch = w
        /\ worker[p] = "lookup" =>
            /\ run[p].watch \in Watches
            /\ Running(run[p].watch)
            /\ run[p].slot = rows[run[p].watch][Len(rows[run[p].watch])].slot

\* The watch and its executions fit each other.
Consistent(w) ==
    /\ \A i \in 1 .. Len(rows[w]) : rows[w][i].state = "running" => i = Len(rows[w])
    /\ watch[w].status = "none" => Len(rows[w]) = 0
    /\ watch[w].status # "none" =>
        /\ watch[w].interval >= 1 /\ watch[w].maxRuns >= 1
        /\ watch[w].runs = Len(rows[w]) - (IF Running(w) THEN 1 ELSE 0)
    /\ watch[w].status = "active" =>
        /\ watch[w].next # NoRun
        /\ watch[w].runs < watch[w].maxRuns
    /\ watch[w].status = "completed" =>
        /\ watch[w].next = NoRun
        /\ ~Running(w)
        /\ watch[w].runs = watch[w].maxRuns

SlotsInOrder(w) ==
    /\ \A i, j \in 1 .. Len(rows[w]) : i < j => rows[w][i].slot < rows[w][j].slot
    /\ watch[w].status = "active" /\ ~Running(w) =>
        \A i \in 1 .. Len(rows[w]) : rows[w][i].slot < watch[w].next

ExpectedSlot(w) == watch[w].created + watch[w].interval * (1 + watch[w].runs + watch[w].skipped)

SlotsAccounted(w) ==
    watch[w].status = "active" =>
        IF Running(w) THEN rows[w][Len(rows[w])].slot = ExpectedSlot(w)
                      ELSE watch[w].next = ExpectedSlot(w)

WatchInv(w) == Consistent(w) /\ SlotsInOrder(w) /\ SlotsAccounted(w)

IInv == TypeOK /\ Lifecycle /\ WorkerSettles /\ \A w \in Watches : WatchInv(w)

-----------------------------------------------------------------------------
(* Arithmetic of the grid, and the executions of one watch.                *)

LEMMA DivisionOnGrid ==
    ASSUME NEW a \in Int, NEW b \in Nat, b >= 1
    PROVE  /\ a \div b \in Int
           /\ a >= 0 => a \div b >= 0
           /\ a >= b => a \div b >= 1
           /\ \A k \in Int : (k * b) \div b = k
  BY SMT

LEMMA ProductIsNat ==
    ASSUME NEW a \in Nat, NEW b \in Nat
    PROVE  a * b \in Nat
  BY SMT

\* What a run's end leaves of the executions.
LEMMA SettledRows ==
    ASSUME NEW w \in Watches, rows[w] \in Seq(Row), Consistent(w), Running(w),
           NEW outcome \in Terminal
    PROVE  /\ Settled(w, outcome) \in Seq(Row)
           /\ Len(Settled(w, outcome)) = Len(rows[w])
           /\ Len(rows[w]) \in Nat \ {0}
           /\ \A i \in 1 .. Len(rows[w]) :
                /\ Settled(w, outcome)[i].slot = rows[w][i].slot
                /\ Settled(w, outcome)[i].state \in Terminal
                /\ rows[w][i].state # "running" => Settled(w, outcome)[i] = rows[w][i]
           /\ RunningSlot(w) = rows[w][Len(rows[w])].slot
           /\ rows[w][Len(rows[w])].state = "running"
<1>1. /\ Len(rows[w]) \in Nat
      /\ DOMAIN rows[w] = 1 .. Len(rows[w])
      /\ \A i \in 1 .. Len(rows[w]) : rows[w][i] \in Row
  BY LenProperties, ElementOfSeq
<1>2. PICK i \in 1 .. Len(rows[w]) : rows[w][i].state = "running"
  BY <1>1 DEF Running
<1>3. i = Len(rows[w]) /\ Len(rows[w]) \in Nat \ {0}
  BY <1>1, <1>2 DEF Consistent
<1>4. RunningSlot(w) = rows[w][Len(rows[w])].slot
  <2>1. \A j \in DOMAIN rows[w] : rows[w][j].state = "running" => j = Len(rows[w])
    BY <1>1 DEF Consistent
  <2>2. (CHOOSE j \in DOMAIN rows[w] : rows[w][j].state = "running") = Len(rows[w])
    BY <1>1, <1>2, <1>3, <2>1
  <2> QED BY <2>2 DEF RunningSlot
<1>5. \A j \in 1 .. Len(rows[w]) :
        /\ Settled(w, outcome)[j] \in Row
        /\ Settled(w, outcome)[j].slot = rows[w][j].slot
        /\ Settled(w, outcome)[j].state \in Terminal
        /\ rows[w][j].state # "running" => Settled(w, outcome)[j] = rows[w][j]
  BY <1>1 DEF Settled, Row, Terminal
<1>6. Settled(w, outcome) \in Seq(Row) /\ Len(Settled(w, outcome)) = Len(rows[w])
  <2>1. Settled(w, outcome) \in [1 .. Len(rows[w]) -> Row]
    BY <1>1, <1>5 DEF Settled
  <2>2. Settled(w, outcome) \in Seq(Row)
    BY <1>1, <2>1, SeqDef
  <2> QED BY <1>1, <2>1, <2>2, LenProperties
<1> QED BY <1>2, <1>3, <1>4, <1>5, <1>6

LEMMA CountOfTerminal ==
    ASSUME NEW s \in Seq(Row), \A i \in 1 .. Len(s) : s[i].state \in Terminal
    PROVE  TerminalCount(s) = Len(s)
<1>1. DOMAIN s = 1 .. Len(s) /\ Len(s) \in Nat
  BY LenProperties
<1>2. {i \in DOMAIN s : s[i].state \in Terminal} = 1 .. Len(s)
  BY <1>1
<1>3. Cardinality(1 .. Len(s)) = Len(s)
  BY <1>1, FS_Interval
<1> QED BY <1>2, <1>3 DEF TerminalCount

LEMMA NextSlotIsLater ==
    ASSUME NEW w \in Watches, watch[w] \in WatchRow, watch[w].interval >= 1,
           NEW slot \in Nat, NEW now \in Nat, NEW recovery \in BOOLEAN
    PROVE  /\ FollowingSlot(w, slot, now, recovery) \in Nat
           /\ FollowingSlot(w, slot, now, recovery) >= slot + watch[w].interval
<1> DEFINE n == (now - watch[w].created) \div watch[w].interval + 1
<1>1. watch[w].interval \in Nat /\ watch[w].created \in Nat
  BY DEF WatchRow
<1>2. n \in Int
  BY <1>1, DivisionOnGrid
<1>3. n * watch[w].interval \in Int
  BY <1>1, <1>2
<1> HIDE DEF n
<1>4. FollowingSlot(w, slot, now, recovery) =
        IF recovery THEN slot + watch[w].interval
        ELSE Larger(slot + watch[w].interval, watch[w].created + n * watch[w].interval)
  BY DEF FollowingSlot, n
<1> QED BY <1>1, <1>3, <1>4 DEF Larger

\* The slot that follows a slot of the grid is on the grid.
LEMMA NextSlotIsOnGrid ==
    ASSUME NEW w \in Watches, watch[w] \in WatchRow, watch[w].interval >= 1,
           NEW m \in Int, NEW slot \in Nat, slot = watch[w].created + watch[w].interval * m,
           NEW now \in Nat, NEW recovery \in BOOLEAN
    PROVE  \E k \in Int : FollowingSlot(w, slot, now, recovery) = slot + k * watch[w].interval
<1> DEFINE n == (now - watch[w].created) \div watch[w].interval + 1
           step == watch[w].interval
           created == watch[w].created
<1>1. step \in Nat /\ created \in Nat
  BY DEF WatchRow
<1>2. n \in Int
  <2>1. now - watch[w].created \in Int
    BY <1>1
  <2>2. (now - watch[w].created) \div watch[w].interval \in Int
    BY <1>1, <2>1, DivisionOnGrid
  <2> QED BY <2>2
<1>3. \/ FollowingSlot(w, slot, now, recovery) = slot + step
      \/ FollowingSlot(w, slot, now, recovery) = created + n * step
  BY DEF FollowingSlot, Larger
<1> HIDE DEF n
<1>4. slot + step = slot + 1 * step
  BY <1>1
<1>5. created + n * step = slot + (n - m) * step /\ n - m \in Int
  <2>1. (n - m) * step = n * step - step * m
    BY <1>1, <1>2, SMT
  <2>2. n * step \in Int /\ step * m \in Int
    BY <1>1, <1>2, SMT
  <2> QED BY <1>1, <1>2, <2>1, <2>2
<1> QED BY <1>3, <1>4, <1>5

\* A run that ends, committed or recovered, leaves its watch in order: waiting
\* for a later slot, or completed.
LEMMA RunEnds ==
    ASSUME NEW w \in Watches, watch[w] \in WatchRow, rows[w] \in Seq(Row),
           WatchInv(w), Running(w),
           NEW now \in Nat, NEW recovery \in BOOLEAN, NEW outcome \in Terminal,
           rows'[w] = Settled(w, outcome), watch'[w] = Advanced(w, now, recovery)
    PROVE  /\ rows'[w] \in Seq(Row) /\ watch'[w] \in WatchRow
           /\ WatchInv(w)' /\ ~Running(w)'
<1> DEFINE len == Len(rows[w])
           slot == RunningSlot(w)
           next == FollowingSlot(w, slot, now, recovery)
           total == TerminalCount(Settled(w, "failed"))
<1>1. /\ rows'[w] \in Seq(Row) /\ Len(rows'[w]) = len /\ len \in Nat \ {0}
      /\ \A i \in 1 .. len : rows'[w][i].slot = rows[w][i].slot /\ rows'[w][i].state \in Terminal
      /\ slot = rows[w][len].slot
      /\ \A i \in 1 .. len : rows[w][i].slot \in Nat
  <2>1. \A i \in 1 .. len : rows[w][i].slot \in Nat
    <3>1. \A i \in 1 .. len : rows[w][i] \in Row
      BY ElementOfSeq
    <3> QED BY <3>1 DEF Row
  <2> QED BY <2>1, SettledRows DEF WatchInv
<1>2. ~Running(w)'
  <2>1. DOMAIN rows'[w] = 1 .. len
    BY <1>1, LenProperties
  <2> QED BY <1>1, <2>1 DEF Running, Terminal
<1>3. total = len
  <2>1. /\ Settled(w, "failed") \in Seq(Row) /\ Len(Settled(w, "failed")) = len
        /\ \A i \in 1 .. len : Settled(w, "failed")[i].state \in Terminal
    BY SettledRows DEF WatchInv, Terminal
  <2> QED BY <2>1, CountOfTerminal
<1>4. /\ watch[w].status = "active" /\ watch[w].interval >= 1 /\ watch[w].maxRuns >= 1
      /\ watch[w].runs = len - 1 /\ len <= watch[w].maxRuns
      /\ watch[w].interval \in Nat /\ watch[w].maxRuns \in Nat /\ watch[w].created \in Nat
      /\ watch[w].skipped \in Nat /\ watch[w].runs \in Nat
  <2>1. watch[w].status \in {"none", "active", "completed"}
    BY DEF WatchRow
  <2>2. watch[w].status = "active"
    BY <1>1, <2>1 DEF WatchInv, Consistent
  <2> QED BY <1>1, <2>2 DEF WatchInv, Consistent, WatchRow
<1>5. next \in Nat /\ next >= slot + watch[w].interval /\ slot \in Nat
  <2>1. slot \in Nat
    BY <1>1
  <2> QED BY <1>4, <2>1, NextSlotIsLater
<1>6. PassedOver(w, slot, next) \in Nat
  <2>1. next - slot >= watch[w].interval /\ next - slot \in Int
    BY <1>4, <1>5
  <2>2. (next - slot) \div watch[w].interval \in Int /\ (next - slot) \div watch[w].interval >= 1
    BY <1>4, <2>1, DivisionOnGrid
  <2> QED BY <2>2 DEF PassedOver
<1>7. watch'[w] = [watch[w] EXCEPT !.runs = len,
                      !.status = IF len >= watch[w].maxRuns THEN "completed" ELSE "active",
                      !.next = IF len >= watch[w].maxRuns THEN NoRun ELSE next,
                      !.skipped = watch[w].skipped + PassedOver(w, slot, next)]
  BY <1>3 DEF Advanced
<1> HIDE DEF next, slot, total
<1>8. /\ watch'[w] \in WatchRow
      /\ watch'[w].runs = len
      /\ watch'[w].interval = watch[w].interval
      /\ watch'[w].created = watch[w].created
      /\ watch'[w].maxRuns = watch[w].maxRuns
      /\ watch'[w].skipped = watch[w].skipped + PassedOver(w, slot, next)
      /\ watch'[w].status = IF len >= watch[w].maxRuns THEN "completed" ELSE "active"
      /\ watch'[w].next = IF len >= watch[w].maxRuns THEN NoRun ELSE next
  <2>1. watch[w].skipped + PassedOver(w, slot, next) \in Nat
    BY <1>4, <1>6
  <2>2. /\ len \in Nat
        /\ (IF len >= watch[w].maxRuns THEN NoRun ELSE next) \in Nat \union {NoRun}
    BY <1>1, <1>4, <1>5
  <2>3. watch'[w] \in WatchRow
    BY <1>7, <2>1, <2>2 DEF WatchRow
  <2>4. DOMAIN watch[w] = {"status", "interval", "maxRuns", "created", "next", "runs", "skipped"}
    BY DEF WatchRow
  <2> QED BY <1>7, <2>3, <2>4
<1>9. Consistent(w)'
  <2>1. \A i \in 1 .. Len(rows'[w]) : rows'[w][i].state # "running"
    BY <1>1 DEF Terminal
  <2>2. watch'[w].status # "none"
    BY <1>8
  <2>3. /\ watch'[w].interval >= 1 /\ watch'[w].maxRuns >= 1
        /\ watch'[w].runs = Len(rows'[w]) - 0
    BY <1>1, <1>4, <1>8
  <2>4. watch'[w].status = "active" =>
            watch'[w].next # NoRun /\ watch'[w].runs < watch'[w].maxRuns
    BY <1>1, <1>4, <1>5, <1>8 DEF NoRun
  <2>5. watch'[w].status = "completed" =>
            watch'[w].next = NoRun /\ watch'[w].runs = watch'[w].maxRuns
    BY <1>1, <1>4, <1>8
  <2> QED BY <1>2, <2>1, <2>2, <2>3, <2>4, <2>5 DEF Consistent
<1>10. SlotsInOrder(w)'
  <2>1. \A i \in 1 .. len : rows[w][i].slot <= slot
    BY <1>1 DEF WatchInv, SlotsInOrder
  <2>2. \A i \in 1 .. len : rows[w][i].slot < next
    BY <1>1, <1>4, <1>5, <2>1, SMTT(30)
  <2> QED BY <1>1, <1>2, <1>8, <2>2 DEF WatchInv, SlotsInOrder
<1>11. SlotsAccounted(w)'
  <2> DEFINE step == watch[w].interval
             m == 1 + watch[w].runs + watch[w].skipped
  <2>1. step \in Nat /\ step >= 1 /\ m \in Int /\ slot \in Nat
    BY <1>4, <1>5
  <2>2. slot = watch[w].created + step * m
    BY <1>1, <1>4 DEF WatchInv, SlotsAccounted, ExpectedSlot
  <2>3. PICK k \in Int : next = slot + k * step
    BY <2>1, <2>2, NextSlotIsOnGrid, ZenonT(60) DEF next
  <2>4. PassedOver(w, slot, next) = k - 1
    <3>1. k * step \in Int /\ next - slot = k * step
      BY <2>1, <2>3, <1>5
    <3>2. (k * step) \div step = k
      BY <2>1, DivisionOnGrid
    <3> QED BY <3>1, <3>2 DEF PassedOver
  <2>5. 1 + watch'[w].runs + watch'[w].skipped = m + k
    <3>1. watch'[w].runs = len /\ watch'[w].skipped = watch[w].skipped + (k - 1)
      BY <1>8, <2>4
    <3>2. len \in Int /\ watch[w].skipped \in Int /\ watch[w].runs = len - 1
      BY <1>1, <1>4
    <3>3. ASSUME NEW a \in Int, NEW b \in Int
          PROVE  1 + a + (b + (k - 1)) = 1 + (a - 1) + b + k
      OBVIOUS
    <3>4. 1 + len + (watch[w].skipped + (k - 1)) = 1 + (len - 1) + watch[w].skipped + k
      BY <3>2, <3>3
    <3> QED BY <3>1, <3>2, <3>4
  <2>6. step * (m + k) = step * m + k * step /\ step * m \in Int /\ k * step \in Int
    BY <2>1
  <2> HIDE DEF m
  <2>7. next = watch[w].created + step * (m + k)
    <3> DEFINE before == step * m
               after == k * step
    <3>1. before \in Int /\ after \in Int /\ step * (m + k) = before + after
      BY <2>6
    <3>2. next = (watch[w].created + before) + after
      BY <2>2, <2>3
    <3> HIDE DEF before, after
    <3> QED BY <1>4, <3>1, <3>2
  <2> QED BY <1>2, <1>8, <2>5, <2>7 DEF SlotsAccounted, ExpectedSlot
<1> QED BY <1>1, <1>2, <1>8, <1>9, <1>10, <1>11 DEF WatchInv

\* A claim takes a slot of the grid that is not before the awaited one, and
\* counts what it passes over.
LEMMA RunBegins ==
    ASSUME NEW w \in Watches, watch[w] \in WatchRow, rows[w] \in Seq(Row), WatchInv(w),
           NEW now \in Nat, Claimable(w, now),
           rows'[w] = Append(rows[w], [slot |-> ClaimedSlot(w, now), state |-> "running"]),
           watch'[w] = [watch[w] EXCEPT !.skipped = @ + Skipped(w, now)]
    PROVE  /\ rows'[w] \in Seq(Row) /\ watch'[w] \in WatchRow
           /\ WatchInv(w)' /\ Running(w)'
           /\ rows'[w][Len(rows'[w])].slot = ClaimedSlot(w, now)
           /\ ClaimedSlot(w, now) \in Nat
<1> DEFINE len == Len(rows[w])
           slot == ClaimedSlot(w, now)
           k == Skipped(w, now)
           step == watch[w].interval
<1>1. /\ len \in Nat
      /\ DOMAIN rows[w] = 1 .. len
      /\ \A i \in 1 .. len : rows[w][i] \in Row
  BY LenProperties, ElementOfSeq
<1>2. /\ watch[w].status = "active" /\ ~Running(w) /\ watch[w].next <= now
      /\ watch[w].next \in Nat /\ step \in Nat /\ step >= 1
      /\ watch[w].created \in Nat /\ watch[w].skipped \in Nat
      /\ watch[w].maxRuns \in Nat /\ watch[w].maxRuns >= 1
      /\ watch[w].runs = len /\ watch[w].runs < watch[w].maxRuns
  <2>1. watch[w].status = "active" /\ ~Running(w) /\ watch[w].next <= now
    BY DEF Claimable
  <2> QED BY <1>1, <2>1 DEF WatchInv, Consistent, WatchRow
<1>3. k \in Nat
  <2>1. now - watch[w].next \in Int /\ now - watch[w].next >= 0
    BY <1>2
  <2>2. Skipped(w, now) \in Int /\ Skipped(w, now) >= 0
    BY <1>2, <2>1, DivisionOnGrid DEF Skipped
  <2> QED BY <2>2
<1>4. slot = watch[w].next + k * step /\ k * step \in Nat
  BY <1>2, <1>3, ProductIsNat DEF ClaimedSlot
<1> HIDE DEF k, slot
<1>5. slot \in Nat /\ slot >= watch[w].next
  BY <1>2, <1>4
<1>6. [slot |-> slot, state |-> "running"] \in Row
  BY <1>5 DEF Row
<1>7. /\ rows'[w] \in Seq(Row) /\ Len(rows'[w]) = len + 1
      /\ \A i \in 1 .. len : rows'[w][i] = rows[w][i]
      /\ rows'[w][len + 1] = [slot |-> slot, state |-> "running"]
  BY <1>1, <1>6 DEF slot
<1>8. /\ watch'[w] \in WatchRow
      /\ watch'[w].skipped = watch[w].skipped + k
      /\ \A f \in {"status", "interval", "maxRuns", "created", "next", "runs"} :
            watch'[w][f] = watch[w][f]
  <2>1. watch'[w] = [watch[w] EXCEPT !.skipped = watch[w].skipped + k]
    BY DEF k
  <2>2. watch[w].skipped + k \in Nat
    BY <1>2, <1>3
  <2> QED BY <2>1, <2>2 DEF WatchRow
<1>9. Running(w)'
  <2>1. DOMAIN rows'[w] = 1 .. len + 1
    BY <1>7, LenProperties
  <2> QED BY <1>1, <1>7, <2>1 DEF Running
<1>10. Consistent(w)'
  <2>1. \A i \in 1 .. len : rows[w][i].state # "running"
    BY <1>1, <1>2 DEF Running
  <2>2. \A i \in 1 .. Len(rows'[w]) : rows'[w][i].state = "running" => i = Len(rows'[w])
    BY <1>1, <1>7, <2>1
  <2> QED BY <1>1, <1>2, <1>7, <1>8, <1>9, <2>2 DEF Consistent, NoRun
<1>11. SlotsInOrder(w)'
  <2>1. \A i \in 1 .. len : rows[w][i].slot < slot
    <3>1. \A i \in 1 .. len : rows[w][i].slot < watch[w].next /\ rows[w][i].slot \in Nat
      BY <1>1, <1>2 DEF WatchInv, SlotsInOrder, Row
    <3> QED BY <1>2, <1>5, <3>1
  <2>2. \A i, j \in 1 .. len + 1 : i < j => rows'[w][i].slot < rows'[w][j].slot
    BY <1>1, <1>7, <2>1 DEF WatchInv, SlotsInOrder
  <2> QED BY <1>7, <1>9, <2>2 DEF SlotsInOrder
<1>12. SlotsAccounted(w)'
  <2> DEFINE m == 1 + watch[w].runs + watch[w].skipped
  <2>1. m \in Int /\ watch[w].next = watch[w].created + step * m
    BY <1>1, <1>2 DEF WatchInv, SlotsAccounted, ExpectedSlot
  <2>2. 1 + watch'[w].runs + watch'[w].skipped = m + k
    BY <1>1, <1>2, <1>3, <1>8
  <2> HIDE DEF m
  <2>3. step * (m + k) = step * m + k * step /\ step * m \in Int
    BY <1>2, <1>3, <2>1
  <2>4. slot = watch[w].created + step * (m + k)
    BY <1>2, <1>4, <2>1, <2>3, SMTT(30)
  <2> QED BY <1>7, <1>8, <1>9, <2>2, <2>4 DEF SlotsAccounted, ExpectedSlot
<1> QED BY <1>5, <1>7, <1>8, <1>9, <1>10, <1>11, <1>12 DEF WatchInv, slot

LEMMA WatchKept ==
    ASSUME NEW w \in Watches, watch'[w] = watch[w], rows'[w] = rows[w]
    PROVE  /\ Running(w)' <=> Running(w)
           /\ WatchInv(w) => WatchInv(w)'
  BY DEF Running, WatchInv, Consistent, SlotsInOrder, SlotsAccounted, ExpectedSlot

\* The store does not change: what the invariant says of it is kept.
LEMMA StoreKept ==
    ASSUME IInv, UNCHANGED durable
    PROVE  /\ \A w \in Watches : Running(w)' <=> Running(w)
           /\ \A w \in Watches : WatchInv(w)'
           /\ (watch \in [Watches -> WatchRow])' /\ (rows \in [Watches -> Seq(Row)])'
  BY WatchKept DEF durable, IInv, TypeOK

LEMMA InitInv == Init => IInv
<1> SUFFICES ASSUME Init PROVE IInv
  OBVIOUS
<1>1. TypeOK
  <2>1. Blank \in WatchRow
    BY DEF Blank, WatchRow, NoRun
  <2>2. <<>> \in Seq(Row)
    BY EmptySeq
  <2> QED BY <2>1, <2>2, BoundsAssumption DEF Init, TypeOK, NoneClaimed, NoRun
<1>2. \A w \in Watches : ~Running(w) /\ Len(rows[w]) = 0
  BY EmptySeq DEF Init, Running
<1>3. Lifecycle
  BY ProcsAssumption DEF Init, Lifecycle
<1>4. WorkerSettles
  BY DEF Init, WorkerSettles
<1>5. \A w \in Watches : WatchInv(w)
  BY <1>2 DEF Init, Blank, WatchInv, Consistent, SlotsInOrder, SlotsAccounted
<1> QED BY <1>1, <1>3, <1>4, <1>5 DEF IInv

-----------------------------------------------------------------------------
(* One lemma per kind of action.                                           *)

LEMMA LifeCycleSteps ==
    ASSUME IInv, NEW p \in Procs,
           Launch(p) \/ Stop(p) \/ Exit(p) \/ Crash(p)
    PROVE  IInv'
<1>1. UNCHANGED durable
  BY DEF Launch, Stop, Exit, Crash, Gone
<1>2. /\ \A w \in Watches : Running(w)' <=> Running(w)
      /\ \A w \in Watches : WatchInv(w)'
      /\ (watch \in [Watches -> WatchRow])' /\ (rows \in [Watches -> Seq(Row)])'
  BY <1>1, StoreKept
<1>3. TypeOK'
  <2>1. CASE Launch(p)
    BY <1>2, <2>1 DEF IInv, TypeOK, Launch
  <2>2. CASE Stop(p)
    BY <1>2, <2>2, BoundsAssumption DEF IInv, TypeOK, Stop
  <2>3. CASE Exit(p)
    BY <1>2, <2>3 DEF IInv, TypeOK, Exit, Gone, NoneClaimed
  <2>4. CASE Crash(p)
    BY <1>2, <2>4, BoundsAssumption DEF IInv, TypeOK, Crash, Gone, NoneClaimed
  <2> QED BY <2>1, <2>2, <2>3, <2>4
<1>4. Lifecycle'
  <2>1. CASE Launch(p)
    BY <2>1, ProcsAssumption DEF IInv, TypeOK, Lifecycle, Launch
  <2>2. CASE Stop(p)
    BY <2>2 DEF IInv, TypeOK, Lifecycle, Stop
  <2>3. CASE Exit(p) \/ Crash(p)
    BY <2>3, ProcsAssumption DEF IInv, TypeOK, Lifecycle, Exit, Crash, Gone
  <2> QED BY <2>1, <2>2, <2>3
<1>5. WorkerSettles'
  <2>1. CASE Launch(p) \/ Stop(p)
    BY <1>1, <1>2, <2>1 DEF IInv, TypeOK, WorkerSettles, Launch, Stop, durable
  <2>2. CASE Exit(p) \/ Crash(p)
    BY <1>1, <1>2, <2>2 DEF IInv, TypeOK, WorkerSettles, Exit, Crash, Gone, durable
  <2> QED BY <2>1, <2>2
<1> QED BY <1>2, <1>3, <1>4, <1>5 DEF IInv

LEMMA QuietSteps ==
    ASSUME IInv, NEW p \in Procs,
           \/ ToolStorageError(p) \/ BeginPass(p) \/ EndPass(p)
           \/ WorkerFails(p) \/ WorkerMeetsBrokenStore(p)
    PROVE  IInv'
<1>1. UNCHANGED durable
  BY DEF ToolStorageError, BeginPass, EndPass, WorkerFails, WorkerMeetsBrokenStore, WorkerGone
<1>2. /\ \A w \in Watches : Running(w)' <=> Running(w)
      /\ \A w \in Watches : WatchInv(w)'
      /\ (watch \in [Watches -> WatchRow])' /\ (rows \in [Watches -> Seq(Row)])'
  BY <1>1, StoreKept
<1>3. TypeOK'
  <2>1. CASE ToolStorageError(p)
    BY <1>2, <2>1, BoundsAssumption DEF IInv, TypeOK, ToolStorageError
  <2>2. CASE BeginPass(p)
    BY <1>2, <2>2 DEF IInv, TypeOK, BeginPass, Due, Active
  <2>3. CASE EndPass(p)
    BY <1>2, <2>3 DEF IInv, TypeOK, EndPass
  <2>4. CASE WorkerFails(p) \/ WorkerMeetsBrokenStore(p)
    <3>1. /\ healthy' \in [Procs -> BOOLEAN]
          /\ disruptions' \in 0 .. MaxDisruptions
      <4>1. CASE WorkerFails(p)
        <5>1. PICK h \in {healthy[p], FALSE} : healthy' = [healthy EXCEPT ![p] = h]
          BY <4>1 DEF WorkerFails
        <5>2. h \in BOOLEAN /\ healthy \in [Procs -> BOOLEAN]
          BY DEF IInv, TypeOK
        <5>3. disruptions' \in 0 .. MaxDisruptions
          BY <4>1, BoundsAssumption DEF IInv, TypeOK, WorkerFails
        <5> QED BY <5>1, <5>2, <5>3
      <4>2. CASE WorkerMeetsBrokenStore(p)
        BY <4>2 DEF IInv, TypeOK, WorkerMeetsBrokenStore
      <4> QED BY <2>4, <4>1, <4>2
    <3>2. WorkerGone(p)
      BY <2>4 DEF WorkerFails, WorkerMeetsBrokenStore
    <3> QED BY <1>2, <3>1, <3>2 DEF IInv, TypeOK, WorkerGone, NoneClaimed
  <2> QED BY <2>1, <2>2, <2>3, <2>4
<1>4. Lifecycle'
  <2>1. CASE ToolStorageError(p)
    BY <2>1 DEF IInv, TypeOK, Lifecycle, ToolStorageError
  <2>2. CASE BeginPass(p)
    BY <2>2, TimesAssumption DEF IInv, TypeOK, Lifecycle, BeginPass, NoRun
  <2>3. CASE EndPass(p)
    BY <2>3 DEF IInv, TypeOK, Lifecycle, EndPass
  <2>4. CASE WorkerFails(p) \/ WorkerMeetsBrokenStore(p)
    BY <2>4 DEF IInv, TypeOK, Lifecycle, WorkerFails, WorkerMeetsBrokenStore, WorkerGone
  <2> QED BY <2>1, <2>2, <2>3, <2>4
<1>5. WorkerSettles'
  <2>1. CASE ToolStorageError(p)
    BY <1>1, <1>2, <2>1 DEF IInv, TypeOK, WorkerSettles, ToolStorageError, durable
  <2>2. CASE BeginPass(p) \/ EndPass(p)
    BY <1>1, <1>2, <2>2, SMTT(30) DEF IInv, TypeOK, WorkerSettles, BeginPass, EndPass, durable
  <2>3. CASE WorkerFails(p) \/ WorkerMeetsBrokenStore(p)
    <3>1. WorkerGone(p)
      BY <2>3 DEF WorkerFails, WorkerMeetsBrokenStore
    <3> QED BY <1>1, <1>2, <3>1 DEF IInv, TypeOK, WorkerSettles, WorkerGone, durable
  <2> QED BY <2>1, <2>2, <2>3
<1> QED BY <1>2, <1>3, <1>4, <1>5 DEF IInv

LEMMA RecoverStep ==
    ASSUME IInv, NEW p \in Procs, Recover(p)
    PROVE  IInv'
<1>1. clock \in Nat
  BY TimesAssumption DEF IInv, TypeOK
<1>2. ASSUME NEW w \in Watches
      PROVE  /\ rows'[w] \in Seq(Row) /\ watch'[w] \in WatchRow
             /\ WatchInv(w)' /\ ~Running(w)'
  <2>1. watch[w] \in WatchRow /\ rows[w] \in Seq(Row) /\ WatchInv(w)
    BY DEF IInv, TypeOK
  <2>2. CASE Running(w)
    <3>1. rows'[w] = Settled(w, "interrupted") /\ watch'[w] = Advanced(w, clock, TRUE)
      BY <2>2 DEF Recover
    <3>2. "interrupted" \in Terminal
      BY DEF Terminal
    <3> QED BY <1>1, <2>1, <2>2, <3>1, <3>2, RunEnds
  <2>3. CASE ~Running(w)
    <3>1. rows'[w] = rows[w] /\ watch'[w] = watch[w]
      BY <2>3 DEF Recover
    <3> QED BY <2>1, <2>3, <3>1, WatchKept
  <2> QED BY <2>2, <2>3
<1>3. TypeOK'
  <2>1. rows' \in [Watches -> Seq(Row)] /\ watch' \in [Watches -> WatchRow]
    BY <1>2 DEF Recover
  <2> QED BY <2>1 DEF IInv, TypeOK, Recover
<1>4. Lifecycle'
  BY DEF IInv, TypeOK, Lifecycle, Recover
<1>5. WorkerSettles'
  <2>1. \A q \in Procs : worker'[q] # "lookup"
    <3>1. \A q \in Procs \ {p} : worker[q] = "none"
      BY ProcsAssumption DEF IInv, Lifecycle, Recover
    <3> QED BY <3>1 DEF IInv, TypeOK, Recover
  <2> QED BY <1>2, <2>1 DEF WorkerSettles
<1> QED BY <1>2, <1>3, <1>4, <1>5 DEF IInv

\* While a worker is between two runs, nothing is running at all.
LEMMA PassMeansNothingRuns ==
    ASSUME IInv, NEW p \in Procs, worker[p] \in {"idle", "pass"}
    PROVE  \A w \in Watches : ~Running(w)
  BY DEF IInv, WorkerSettles

\* No other process has a worker.
LEMMA OneWorker ==
    ASSUME IInv, NEW p \in Procs, pc[p] # "down", NEW q \in Procs, q # p
    PROVE  worker[q] = "none" /\ ~ready[q]
  BY DEF IInv, Lifecycle

LEMMA CreateStep ==
    ASSUME IInv, NEW p \in Procs, NEW w \in Watches, NEW request \in Requests,
           Create(p, w, request)
    PROVE  IInv'
<1> DEFINE created == [status |-> "active", interval |-> request.interval,
                       maxRuns |-> request.maxRuns, created |-> clock,
                       next |-> clock + request.interval, runs |-> 0, skipped |-> 0]
<1>1. /\ clock \in Nat /\ request.interval \in Nat \ {0} /\ request.maxRuns \in Nat \ {0}
      /\ watch'[w] = created /\ rows' = rows
      /\ \A v \in Watches \ {w} : watch'[v] = watch[v]
  BY TimesAssumption, RequestsAssumption DEF IInv, TypeOK, Create
<1>2. created \in WatchRow
  BY <1>1 DEF WatchRow
<1>3. watch' \in [Watches -> WatchRow]
  BY <1>2 DEF IInv, TypeOK, Create
<1>4. Len(rows[w]) = 0 /\ rows[w] \in Seq(Row)
  BY DEF IInv, TypeOK, WatchInv, Consistent, Create
<1>5. \A v \in Watches : Running(v)' <=> Running(v)
  BY <1>1 DEF Running
<1>6. WatchInv(w)'
  <2>1. ~Running(w)'
    <3>1. DOMAIN rows[w] = 1 .. 0
      BY <1>4, LenProperties
    <3> QED BY <1>1, <3>1 DEF Running
  <2>2. Len(rows'[w]) = 0 /\ watch'[w] = created
    BY <1>1, <1>4
  <2>3. Consistent(w)'
    <3>1. /\ watch'[w].status = "active" /\ watch'[w].interval >= 1 /\ watch'[w].maxRuns >= 1
          /\ watch'[w].runs = 0 /\ watch'[w].runs < watch'[w].maxRuns /\ watch'[w].next # NoRun
      BY <1>1 DEF NoRun
    <3>2. watch'[w].runs = Len(rows'[w]) - 0
      BY <2>2, <3>1
    <3>3. ~(\E i \in 1 .. Len(rows'[w]) : TRUE)
      BY <2>2
    <3>4. watch'[w].runs = Len(rows'[w]) - (IF Running(w)' THEN 1 ELSE 0)
      BY <2>1, <3>2
    <3> QED BY <2>2, <3>1, <3>3, <3>4 DEF Consistent
  <2>4. SlotsInOrder(w)'
    BY <2>2 DEF SlotsInOrder
  <2>5. SlotsAccounted(w)'
    <3>1. clock + request.interval = clock + request.interval * (1 + 0 + 0)
      BY <1>1
    <3> QED BY <2>1, <2>2, <3>1 DEF SlotsAccounted, ExpectedSlot
  <2> QED BY <2>3, <2>4, <2>5 DEF WatchInv
<1>7. \A v \in Watches : WatchInv(v)'
  BY <1>1, <1>6, WatchKept DEF IInv
<1>8. TypeOK' /\ Lifecycle'
  BY <1>3 DEF IInv, TypeOK, Lifecycle, Create, process
<1>9. WorkerSettles'
  BY <1>1, <1>5 DEF IInv, WorkerSettles, Create, process
<1> QED BY <1>7, <1>8, <1>9 DEF IInv

LEMMA ClaimStep ==
    ASSUME IInv, NEW p \in Procs, NEW w \in Watches, Claim(p, w)
    PROVE  IInv'
<1>1. pc[p] # "down" /\ worker[p] = "pass" /\ \A v \in Watches : ~Running(v)
  BY PassMeansNothingRuns DEF IInv, Lifecycle, Claim
<1>2. CASE ~Claimable(w, passNow[p])
  <2>1. UNCHANGED durable
    BY <1>2 DEF Claim, durable
  <2>2. TypeOK'
    BY <1>2 DEF IInv, TypeOK, Claim
  <2>3. Lifecycle' /\ WorkerSettles'
    BY <1>2, <2>1, StoreKept DEF IInv, Lifecycle, WorkerSettles, Claim, durable
  <2> QED BY <2>1, <2>2, <2>3, StoreKept DEF IInv
<1>3. CASE Claimable(w, passNow[p])
  <2> DEFINE now == passNow[p]
             slot == ClaimedSlot(w, now)
  <2>1. now \in Nat
    BY <1>1, TimesAssumption DEF IInv, TypeOK, Lifecycle
  <2>2. watch[w] \in WatchRow /\ rows[w] \in Seq(Row) /\ WatchInv(w)
    BY DEF IInv, TypeOK
  <2>3. /\ rows'[w] = Append(rows[w], [slot |-> slot, state |-> "running"])
        /\ watch'[w] = [watch[w] EXCEPT !.skipped = @ + Skipped(w, now)]
        /\ \A v \in Watches \ {w} : rows'[v] = rows[v] /\ watch'[v] = watch[v]
        /\ run' = [run EXCEPT ![p] = [watch |-> w, slot |-> slot]]
        /\ worker' = [worker EXCEPT ![p] = "lookup"]
    BY <1>3 DEF IInv, TypeOK, Claim
  <2>4. /\ rows'[w] \in Seq(Row) /\ watch'[w] \in WatchRow
        /\ WatchInv(w)' /\ Running(w)'
        /\ rows'[w][Len(rows'[w])].slot = slot
    BY <1>3, <2>1, <2>2, <2>3, RunBegins
  <2>5. \A v \in Watches \ {w} : WatchInv(v)' /\ ~Running(v)'
    BY <1>1, <2>3, WatchKept DEF IInv
  <2>6. rows' \in [Watches -> Seq(Row)] /\ watch' \in [Watches -> WatchRow]
    <3>1. /\ \A v \in Watches : rows'[v] \in Seq(Row) /\ watch'[v] \in WatchRow
      BY <2>3, <2>4 DEF IInv, TypeOK
    <3>2. /\ rows' = [rows EXCEPT ![w] = rows'[w]]
          /\ watch' = [watch EXCEPT ![w] = watch'[w]]
      BY <1>3, <2>3 DEF Claim, IInv, TypeOK
    <3> QED BY <3>1, <3>2 DEF IInv, TypeOK
  <2>7. slot \in Nat
    BY <1>3, <2>1, <2>2, <2>3, RunBegins
  <2> HIDE DEF slot
  <2>8. TypeOK'
    BY <2>3, <2>6, <2>7 DEF IInv, TypeOK, Claim
  <2>9. Lifecycle'
    BY <1>1, <2>1, <2>3 DEF IInv, TypeOK, Lifecycle, Claim, NoRun
  <2>10. WorkerSettles'
    BY <1>1, <2>3, <2>4, <2>5, OneWorker DEF IInv, TypeOK, WorkerSettles
  <2> QED BY <2>4, <2>5, <2>8, <2>9, <2>10 DEF IInv
<1> QED BY <1>2, <1>3

LEMMA FinishStep ==
    ASSUME IInv, NEW p \in Procs, NEW outcome \in {"succeeded", "failed"},
           Finish(p, outcome)
    PROVE  IInv'
<1>0. PICK w \in Watches : w = run[p].watch
  BY DEF IInv, WorkerSettles, Finish
<1>1. /\ worker[p] = "lookup" /\ pc[p] # "down" /\ w \in Watches /\ Running(w)
      /\ \A v \in Watches \ {w} : ~Running(v)
      /\ run[p].slot = rows[w][Len(rows[w])].slot
  BY <1>0 DEF IInv, WorkerSettles, Lifecycle, Finish
<1>2. watch[w] \in WatchRow /\ rows[w] \in Seq(Row) /\ WatchInv(w) /\ clock \in Nat
  BY <1>1, TimesAssumption DEF IInv, TypeOK
<1>3. StillRunning(p)
  <2>1. /\ Len(rows[w]) \in DOMAIN rows[w]
        /\ rows[w][Len(rows[w])].state = "running"
        /\ rows[w][Len(rows[w])] \in Row
    BY <1>1, <1>2, SettledRows, LenProperties, ElementOfSeq DEF WatchInv, Terminal
  <2> QED BY <1>0, <1>1, <2>1 DEF StillRunning, Row
<1>4. /\ rows' = [rows EXCEPT ![w] = Settled(w, outcome)]
      /\ watch' = [watch EXCEPT ![w] = Advanced(w, clock, FALSE)]
      /\ worker' = [worker EXCEPT ![p] = "pass"]
      /\ run' = [run EXCEPT ![p] = NoneClaimed]
  BY <1>0, <1>3 DEF Finish
<1>5. /\ rows'[w] = Settled(w, outcome) /\ watch'[w] = Advanced(w, clock, FALSE)
      /\ \A v \in Watches \ {w} : rows'[v] = rows[v] /\ watch'[v] = watch[v]
  BY <1>1, <1>4 DEF IInv, TypeOK
<1>6. /\ rows'[w] \in Seq(Row) /\ watch'[w] \in WatchRow
      /\ WatchInv(w)' /\ ~Running(w)'
  <2>1. outcome \in Terminal
    BY DEF Terminal
  <2> QED BY <1>1, <1>2, <1>5, <2>1, RunEnds
<1>7. \A v \in Watches : WatchInv(v)' /\ ~Running(v)'
  BY <1>1, <1>5, <1>6, WatchKept DEF IInv
<1>8. TypeOK'
  <2>1. rows' \in [Watches -> Seq(Row)] /\ watch' \in [Watches -> WatchRow]
    BY <1>1, <1>4, <1>5, <1>6 DEF IInv, TypeOK
  <2>2. UNCHANGED <<clock, lock, pc, ready, healthy, passNow, batch, disruptions>>
    BY DEF Finish
  <2>3. run' \in [Procs -> [watch : Watches \union {"none"}, slot : Nat \union {NoRun}]]
    BY <1>4 DEF IInv, TypeOK, NoneClaimed
  <2> QED BY <1>4, <2>1, <2>2, <2>3 DEF IInv, TypeOK
<1>9. Lifecycle'
  BY <1>1, <1>4 DEF IInv, TypeOK, Lifecycle, Finish
<1>10. WorkerSettles'
  BY <1>1, <1>4, <1>7, OneWorker DEF IInv, TypeOK, WorkerSettles
<1> QED BY <1>7, <1>8, <1>9, <1>10 DEF IInv

LEMMA TickStep == ASSUME IInv, Tick \/ UNCHANGED vars PROVE IInv'
<1>1. UNCHANGED durable /\ UNCHANGED process /\ UNCHANGED <<lock, disruptions>>
  BY DEF Tick, vars, durable, process
<1>2. clock' \in Times
  BY DEF Tick, vars, IInv, TypeOK
<1>3. TypeOK' /\ Lifecycle' /\ WorkerSettles'
  BY <1>1, <1>2, StoreKept DEF IInv, TypeOK, Lifecycle, WorkerSettles, durable, process
<1> QED BY <1>1, <1>3, StoreKept DEF IInv

LEMMA NextInv == IInv /\ [Next]_vars => IInv'
<1> SUFFICES ASSUME IInv, [Next]_vars PROVE IInv'
  OBVIOUS
<1> USE LifeCycleSteps, QuietSteps, RecoverStep, CreateStep, ClaimStep, FinishStep, TickStep
<1> QED BY DEF Next

THEOREM Invariance == Spec => []IInv
  BY InitInv, NextInv, PTL DEF Spec

-----------------------------------------------------------------------------
(* What follows from it.                                                   *)

\* Every variable keeps its type; in particular skipped_slots never becomes
\* negative and no slot lies before the epoch, whatever the clock does.
THEOREM TypeCorrect == Spec => []TypeOK
<1>1. IInv => TypeOK
  BY DEF IInv
<1> QED BY <1>1, Invariance, PTL

\* Two processes never work on one database: the run a worker will commit is
\* still running, and its process holds the lock.
THEOREM WorkerOwnership == Spec => []WorkerOwnsItsRun
<1>1. IInv => WorkerOwnsItsRun
  <2> SUFFICES ASSUME IInv, NEW p \in Procs, worker[p] = "lookup"
               PROVE  lock = p /\ StillRunning(p)
    BY DEF WorkerOwnsItsRun
  <2> DEFINE w == run[p].watch
  <2>1. lock = p /\ w \in Watches /\ Running(w) /\ run[p].slot = rows[w][Len(rows[w])].slot
    BY DEF IInv, Lifecycle, WorkerSettles
  <2>2. rows[w] \in Seq(Row) /\ Consistent(w)
    BY <2>1 DEF IInv, TypeOK, WatchInv
  <2>3. /\ Len(rows[w]) \in DOMAIN rows[w]
        /\ rows[w][Len(rows[w])].state = "running"
        /\ rows[w][Len(rows[w])] \in Row
    BY <2>1, <2>2, SettledRows, LenProperties, ElementOfSeq DEF Terminal
  <2> QED BY <2>1, <2>3 DEF StillRunning, Row
<1> QED BY <1>1, Invariance, PTL

\* A process never answers while a run of an earlier process is left over.
THEOREM RecoveredWhenReady == Spec => []ReadyMeansRecovered
<1>1. IInv => ReadyMeansRecovered
  BY DEF IInv, Lifecycle, WorkerSettles, ReadyMeansRecovered
<1> QED BY <1>1, Invariance, PTL

\* A claim is never refused by the unique index: slots are executed at most
\* once, in order, and the awaited slot has not been executed.
THEOREM SlotsAreUnique == Spec => []OneExecutionPerSlot
<1>1. IInv => OneExecutionPerSlot
  <2>1. IInv => \A w \in Watches : DOMAIN rows[w] = 1 .. Len(rows[w])
    BY LenProperties DEF IInv, TypeOK
  <2> QED BY <2>1 DEF IInv, WatchInv, SlotsInOrder, OneExecutionPerSlot
<1> QED BY <1>1, Invariance, PTL

\* Every slot before the awaited one was executed or counted as skipped, once.
THEOREM SlotsAreAccounted == Spec => []SlotAccounting
<1>1. IInv => SlotAccounting
  <2> SUFFICES ASSUME IInv, NEW w \in Active
               PROVE  IF Running(w) THEN RunningSlot(w) = ExpectedSlot(w)
                                    ELSE watch[w].next = ExpectedSlot(w)
    BY DEF SlotAccounting, ExpectedSlot
  <2>1. w \in Watches /\ watch[w].status = "active" /\ WatchInv(w) /\ rows[w] \in Seq(Row)
    BY DEF Active, IInv, TypeOK
  <2>2. Running(w) => RunningSlot(w) = rows[w][Len(rows[w])].slot
    BY <2>1, SettledRows DEF WatchInv, Terminal
  <2> QED BY <2>1, <2>2 DEF WatchInv, SlotsAccounted
<1> QED BY <1>1, Invariance, PTL

\* No watch is executed more often than its budget, interruptions included, and
\* it is completed exactly when the budget is spent.
THEOREM BudgetIsHeld == Spec => []BudgetHeld
<1>1. IInv => BudgetHeld
  <2> SUFFICES ASSUME IInv, NEW w \in Watches, watch[w].status # "none"
               PROVE  /\ Len(rows[w]) <= watch[w].maxRuns
                      /\ watch[w].runs =
                            Cardinality({i \in DOMAIN rows[w] : rows[w][i].state # "running"})
                      /\ watch[w].status = "completed" <=> watch[w].runs = watch[w].maxRuns
                      /\ watch[w].status = "completed" <=> watch[w].next = NoRun
    BY DEF BudgetHeld
  <2>1. /\ watch[w] \in WatchRow /\ rows[w] \in Seq(Row) /\ Consistent(w)
        /\ Len(rows[w]) \in Nat /\ DOMAIN rows[w] = 1 .. Len(rows[w])
    BY LenProperties DEF IInv, TypeOK, WatchInv
  <2>2. watch[w].status \in {"active", "completed"} /\ watch[w].runs \in Nat /\ watch[w].maxRuns \in Nat
    BY <2>1 DEF WatchRow
  <2>3. watch[w].runs = Len(rows[w]) - (IF Running(w) THEN 1 ELSE 0)
    BY <2>1 DEF Consistent
  <2>4. {i \in DOMAIN rows[w] : rows[w][i].state # "running"} = 1 .. watch[w].runs
    <3>1. CASE Running(w)
      <4>1. rows[w][Len(rows[w])].state = "running" /\ Len(rows[w]) \in Nat \ {0}
        BY <2>1, <3>1, SettledRows DEF Terminal
      <4>2. \A i \in 1 .. Len(rows[w]) : rows[w][i].state = "running" <=> i = Len(rows[w])
        BY <2>1, <4>1 DEF Consistent
      <4> QED BY <2>1, <2>3, <3>1, <4>1, <4>2
    <3>2. CASE ~Running(w)
      BY <2>1, <2>3, <3>2 DEF Running
    <3> QED BY <3>1, <3>2
  <2>5. watch[w].runs = Cardinality({i \in DOMAIN rows[w] : rows[w][i].state # "running"})
    <3>1. Cardinality(1 .. watch[w].runs) = watch[w].runs
      BY <2>2, FS_Interval, SMTT(30)
    <3> QED BY <2>4, <3>1
  <2>6. /\ watch[w].status = "active" => watch[w].runs < watch[w].maxRuns /\ watch[w].next # NoRun
        /\ watch[w].status = "completed" =>
              watch[w].runs = watch[w].maxRuns /\ watch[w].next = NoRun /\ ~Running(w)
    BY <2>1 DEF Consistent
  <2>7. Len(rows[w]) <= watch[w].maxRuns
    <3>1. CASE Running(w)
      BY <2>1, <2>2, <2>3, <2>6, <3>1
    <3>2. CASE ~Running(w)
      BY <2>1, <2>2, <2>3, <2>6, <3>2
    <3> QED BY <3>1, <3>2
  <2>8. /\ watch[w].status = "completed" <=> watch[w].runs = watch[w].maxRuns
        /\ watch[w].status = "completed" <=> watch[w].next = NoRun
    BY <2>2, <2>6
  <2> QED BY <2>5, <2>7, <2>8
<1> QED BY <1>1, Invariance, PTL

-----------------------------------------------------------------------------
(* Steps.                                                                  *)

\* An executed run is never rewritten, and a completed watch never touched.
Kept(w) ==
    /\ \A i \in DOMAIN rows[w] :
        /\ i \in DOMAIN rows'[w] /\ rows'[w][i].slot = rows[w][i].slot
        /\ rows[w][i].state # "running" => rows'[w][i] = rows[w][i]
    /\ watch[w].status = "completed" => watch'[w] = watch[w] /\ rows'[w] = rows[w]

LEMMA KeptWhenSettled ==
    ASSUME IInv, NEW w \in Watches, Running(w), NEW outcome \in Terminal,
           rows'[w] = Settled(w, outcome)
    PROVE  Kept(w)
<1>1. rows[w] \in Seq(Row) /\ Consistent(w)
  BY DEF IInv, TypeOK, WatchInv
<1>2. DOMAIN rows'[w] = 1 .. Len(rows[w]) /\ DOMAIN rows[w] = 1 .. Len(rows[w])
  BY <1>1, LenProperties DEF Settled
<1>3. \A i \in 1 .. Len(rows[w]) :
        /\ rows'[w][i].slot = rows[w][i].slot
        /\ rows[w][i].state # "running" => rows'[w][i] = rows[w][i]
  BY <1>1, SettledRows
<1>4. watch[w].status # "completed"
  BY <1>1 DEF Consistent
<1> QED BY <1>2, <1>3, <1>4 DEF Kept

LEMMA StepKeepsHistory ==
    ASSUME IInv, [Next]_vars, NEW w \in Watches
    PROVE  Kept(w)
<1>1. CASE rows'[w] = rows[w] /\ (watch'[w] = watch[w] \/ watch[w].status # "completed")
  BY <1>1 DEF Kept
<1>2. ASSUME NEW p \in Procs, Recover(p) PROVE Kept(w)
  <2>1. CASE Running(w)
    <3>1. rows'[w] = Settled(w, "interrupted") /\ "interrupted" \in Terminal
      BY <1>2, <2>1 DEF Recover, Terminal
    <3> QED BY <2>1, <3>1, KeptWhenSettled
  <2>2. CASE ~Running(w)
    BY <1>1, <1>2, <2>2 DEF Recover
  <2> QED BY <2>1, <2>2
<1>3. ASSUME NEW p \in Procs, NEW outcome \in {"succeeded", "failed"}, Finish(p, outcome)
      PROVE  Kept(w)
  <2>1. run[p].watch \in Watches /\ Running(run[p].watch) /\ outcome \in Terminal
    BY <1>3 DEF IInv, WorkerSettles, Finish, Terminal
  <2>2. \/ UNCHANGED durable
        \/ /\ rows' = [rows EXCEPT ![run[p].watch] = Settled(run[p].watch, outcome)]
           /\ watch' = [watch EXCEPT ![run[p].watch] = Advanced(run[p].watch, clock, FALSE)]
    BY <1>3 DEF Finish
  <2>3. CASE UNCHANGED durable
    BY <1>1, <2>3 DEF durable
  <2>4. CASE /\ rows' = [rows EXCEPT ![run[p].watch] = Settled(run[p].watch, outcome)]
             /\ watch' = [watch EXCEPT ![run[p].watch] = Advanced(run[p].watch, clock, FALSE)]
    <3>1. CASE w = run[p].watch
      <4>1. rows'[w] = Settled(w, outcome)
        BY <2>4, <3>1 DEF IInv, TypeOK
      <4> QED BY <2>1, <3>1, <4>1, KeptWhenSettled
    <3>2. CASE w # run[p].watch
      BY <1>1, <2>4, <3>2 DEF IInv, TypeOK
    <3> QED BY <3>1, <3>2
  <2> QED BY <2>2, <2>3, <2>4
<1>4. ASSUME NEW p \in Procs, NEW v \in Watches, Claim(p, v) PROVE Kept(w)
  <2>1. CASE ~Claimable(v, passNow[p])
    BY <1>1, <1>4, <2>1 DEF Claim
  <2>2. CASE Claimable(v, passNow[p]) /\ w # v
    BY <1>1, <1>4, <2>2 DEF Claim, IInv, TypeOK
  <2>3. CASE Claimable(v, passNow[p]) /\ w = v
    <3>1. /\ rows[w] \in Seq(Row) /\ watch[w].status = "active"
          /\ rows'[w] = Append(rows[w], [slot |-> ClaimedSlot(w, passNow[p]), state |-> "running"])
      BY <1>4, <2>3 DEF Claim, Claimable, IInv, TypeOK
    <3>2. /\ DOMAIN rows[w] = 1 .. Len(rows[w]) /\ Len(rows[w]) \in Nat
          /\ DOMAIN rows'[w] = 1 .. Len(rows[w]) + 1
          /\ \A i \in 1 .. Len(rows[w]) : rows'[w][i] = rows[w][i]
      BY <3>1, LenProperties
    <3> QED BY <3>1, <3>2 DEF Kept
  <2> QED BY <2>1, <2>2, <2>3
<1>5. ASSUME NEW p \in Procs, NEW v \in Watches, NEW request \in Requests, Create(p, v, request)
      PROVE  Kept(w)
  BY <1>1, <1>5 DEF Create, IInv, TypeOK
<1>6. ASSUME UNCHANGED durable PROVE Kept(w)
  BY <1>1, <1>6 DEF durable
<1>7. CASE Tick \/ UNCHANGED vars
  BY <1>6, <1>7 DEF Tick, vars, durable
<1>8. ASSUME NEW p \in Procs,
             \/ Launch(p) \/ Stop(p) \/ Exit(p) \/ Crash(p) \/ ToolStorageError(p)
             \/ BeginPass(p) \/ EndPass(p) \/ WorkerFails(p) \/ WorkerMeetsBrokenStore(p)
      PROVE  Kept(w)
  BY <1>6, <1>8 DEF Launch, Stop, Exit, Crash, Gone, ToolStorageError, BeginPass, EndPass,
                    WorkerFails, WorkerMeetsBrokenStore, WorkerGone, durable
<1> QED BY <1>2, <1>3, <1>4, <1>5, <1>7, <1>8 DEF Next

\* The history of a watch is final: outcomes are never rewritten, executions
\* never disappear, a completed watch is never touched again.
THEOREM HistoryIsFinal == Spec => HistoryIsAppendOnly
<1>1. IInv /\ [Next]_vars => [\A w \in Watches : Kept(w)]_vars
  BY StepKeepsHistory
<1>2. [\A w \in Watches : Kept(w)]_vars =>
        [\A w \in Watches :
            /\ \A i \in DOMAIN rows[w] :
                /\ i \in DOMAIN rows'[w] /\ rows'[w][i].slot = rows[w][i].slot
                /\ rows[w][i].state # "running" => rows'[w][i] = rows[w][i]
            /\ watch[w].status = "completed" => watch'[w] = watch[w] /\ rows'[w] = rows[w]]_vars
  BY DEF Kept
<1> QED BY <1>1, <1>2, Invariance, PTL DEF Spec, HistoryIsAppendOnly

\* Slots, counters and rows agree, for every grid, budget, clock and failure.
THEOREM SlotsAndBudgetsAgree == Spec => []SlotsAndBudgets
BY SlotsAreAccounted, SlotsAreUnique, BudgetIsHeld, PTL DEF SlotsAndBudgets

\* A run belongs to one worker of one process until it ends.
THEOREM RunsAreOwned == Spec => []OwnershipHolds
BY WorkerOwnership, RecoveredWhenReady, PTL DEF OwnershipHolds

-----------------------------------------------------------------------------
(* The three ways in which a step changes the store.                       *)

\* At most one run is in the store, though a process may have died with it.
AtMostOneRuns == \A v, w \in Watches : Running(v) /\ Running(w) => v = w

StrongInv == IInv /\ AtMostOneRuns

Created(w, request) ==
    /\ watch[w].status = "none" /\ Admitted(request)
    /\ watch' = [watch EXCEPT ![w] =
           [status |-> "active", interval |-> request.interval, maxRuns |-> request.maxRuns,
            created |-> clock, next |-> clock + request.interval, runs |-> 0, skipped |-> 0]]
    /\ rows' = rows

Begun(w, now) ==
    /\ Claimable(w, now) /\ \A v \in Watches : ~Running(v)
    /\ rows' = [rows EXCEPT ![w] = Append(@, [slot |-> ClaimedSlot(w, now), state |-> "running"])]
    /\ watch' = [watch EXCEPT ![w].skipped = @ + Skipped(w, now)]

Ended(w, outcome, now, recovery) ==
    /\ Running(w) /\ \A v \in Watches \ {w} : ~Running(v)
    /\ rows' = [rows EXCEPT ![w] = Settled(w, outcome)]
    /\ watch' = [watch EXCEPT ![w] = Advanced(w, now, recovery)]

LEMMA StoreStep ==
    ASSUME StrongInv, [Next]_vars
    PROVE  \/ UNCHANGED durable
           \/ \E w \in Watches, request \in Requests : Created(w, request)
           \/ \E w \in Watches, now \in Nat : Begun(w, now)
           \/ \E w \in Watches, outcome \in Terminal, now \in Nat, recovery \in BOOLEAN :
                 Ended(w, outcome, now, recovery)
<1>0. /\ rows \in [Watches -> Seq(Row)] /\ watch \in [Watches -> WatchRow] /\ clock \in Nat
      /\ {"succeeded", "failed", "interrupted"} \subseteq Terminal
  BY TimesAssumption DEF StrongInv, IInv, TypeOK, Terminal
<1>1. ASSUME NEW p \in Procs, Recover(p), NEW w \in Watches, Running(w)
      PROVE  Ended(w, "interrupted", clock, TRUE)
  <2>1. \A v \in Watches \ {w} : ~Running(v)
    BY <1>1 DEF StrongInv, AtMostOneRuns
  <2>2. /\ rows' = [v \in Watches |-> IF v = w THEN Settled(w, "interrupted") ELSE rows[v]]
        /\ watch' = [v \in Watches |-> IF v = w THEN Advanced(w, clock, TRUE) ELSE watch[v]]
    BY <1>1, <2>1 DEF Recover
  <2>3. /\ rows' = [rows EXCEPT ![w] = Settled(w, "interrupted")]
        /\ watch' = [watch EXCEPT ![w] = Advanced(w, clock, TRUE)]
    BY <1>0, <2>2
  <2> QED BY <1>1, <2>1, <2>3 DEF Ended
<1>2. ASSUME NEW p \in Procs, Recover(p), \A w \in Watches : ~Running(w)
      PROVE  UNCHANGED durable
  <2>1. rows' = [w \in Watches |-> rows[w]] /\ watch' = [w \in Watches |-> watch[w]]
    BY <1>2 DEF Recover
  <2> QED BY <1>0, <2>1 DEF durable
<1>3. ASSUME NEW p \in Procs, NEW outcome \in {"succeeded", "failed"}, Finish(p, outcome)
      PROVE  \/ UNCHANGED durable
             \/ \E w \in Watches : Ended(w, outcome, clock, FALSE)
  <2>1. run[p].watch \in Watches /\ Running(run[p].watch)
    BY <1>3 DEF StrongInv, IInv, WorkerSettles, Finish
  <2>2. \A v \in Watches \ {run[p].watch} : ~Running(v)
    BY <2>1 DEF StrongInv, AtMostOneRuns
  <2> QED BY <1>3, <2>1, <2>2 DEF Finish, Ended
<1>4. ASSUME NEW p \in Procs, NEW w \in Watches, Claim(p, w)
      PROVE  UNCHANGED durable \/ \E now \in Nat : Begun(w, now)
  <2>1. passNow[p] \in Nat
    BY <1>4, TimesAssumption DEF StrongInv, IInv, TypeOK, Lifecycle, Claim
  <2>2. \A v \in Watches : ~Running(v)
    BY <1>4, PassMeansNothingRuns DEF StrongInv, Claim
  <2>3. CASE Claimable(w, passNow[p])
    BY <1>4, <2>1, <2>2, <2>3 DEF Claim, Begun
  <2>4. CASE ~Claimable(w, passNow[p])
    BY <1>4, <2>4 DEF Claim, durable
  <2> QED BY <2>3, <2>4
<1>5. ASSUME NEW p \in Procs, NEW w \in Watches, NEW request \in Requests, Create(p, w, request)
      PROVE  Created(w, request)
  BY <1>5 DEF Create, Created
<1>6. CASE Tick \/ UNCHANGED vars
  BY <1>6 DEF Tick, vars, durable
<1>7. ASSUME NEW p \in Procs,
             \/ Launch(p) \/ Stop(p) \/ Exit(p) \/ Crash(p) \/ ToolStorageError(p)
             \/ BeginPass(p) \/ EndPass(p) \/ WorkerFails(p) \/ WorkerMeetsBrokenStore(p)
      PROVE  UNCHANGED durable
  BY <1>7 DEF Launch, Stop, Exit, Crash, Gone, ToolStorageError, BeginPass, EndPass,
              WorkerFails, WorkerMeetsBrokenStore, WorkerGone, durable
<1> QED BY <1>0, <1>1, <1>2, <1>3, <1>4, <1>5, <1>6, <1>7 DEF Next

LEMMA OneRunsStep == StrongInv /\ [Next]_vars => AtMostOneRuns'
<1> SUFFICES ASSUME StrongInv, [Next]_vars PROVE AtMostOneRuns'
  OBVIOUS
<1>0. rows \in [Watches -> Seq(Row)]
  BY DEF StrongInv, IInv, TypeOK
<1>1. ASSUME rows' = rows PROVE AtMostOneRuns'
  BY <1>1 DEF StrongInv, AtMostOneRuns, Running
<1>2. ASSUME NEW w \in Watches, \A v \in Watches \ {w} : ~Running(v) /\ rows'[v] = rows[v]
      PROVE  AtMostOneRuns'
  <2>1. \A v \in Watches \ {w} : ~Running(v)'
    BY <1>2 DEF Running
  <2> QED BY <2>1 DEF AtMostOneRuns
<1>3. ASSUME NEW w \in Watches, NEW now \in Nat, Begun(w, now) PROVE AtMostOneRuns'
  BY <1>0, <1>2, <1>3 DEF Begun
<1>4. ASSUME NEW w \in Watches, NEW outcome \in Terminal, NEW now \in Nat,
             NEW recovery \in BOOLEAN, Ended(w, outcome, now, recovery)
      PROVE  AtMostOneRuns'
  BY <1>0, <1>2, <1>4 DEF Ended
<1> QED BY <1>1, <1>3, <1>4, StoreStep DEF durable, Created

LEMMA StrongInvariance == Spec => []StrongInv
<1>1. Init => AtMostOneRuns
  BY EmptySeq DEF Init, AtMostOneRuns, Running
<1>2. StrongInv /\ [Next]_vars => StrongInv'
  BY NextInv, OneRunsStep DEF StrongInv
<1>3. Init => StrongInv
  BY <1>1, InitInv DEF StrongInv
<1> QED BY <1>2, <1>3, PTL DEF Spec

\* The end of a run changes nothing of what its client asked for.
LEMMA AdvancedKeepsOrder ==
    ASSUME NEW w \in Watches, watch[w] \in WatchRow, NEW now, NEW recovery \in BOOLEAN
    PROVE  /\ Advanced(w, now, recovery).status \in {"active", "completed"}
           /\ Advanced(w, now, recovery).interval = watch[w].interval
           /\ Advanced(w, now, recovery).created = watch[w].created
           /\ Advanced(w, now, recovery).maxRuns = watch[w].maxRuns
<1>1. DOMAIN watch[w] = {"status", "interval", "maxRuns", "created", "next", "runs", "skipped"}
  BY DEF WatchRow
<1> QED BY <1>1 DEF Advanced

\* A watch that has a run is active.
LEMMA RunningIsActive ==
    ASSUME IInv, NEW w \in Watches, Running(w)
    PROVE  watch[w].status = "active"
<1>1. watch[w] \in WatchRow /\ rows[w] \in Seq(Row) /\ Consistent(w)
  BY DEF IInv, TypeOK, WatchInv
<1>2. Len(rows[w]) # 0
  BY <1>1, SettledRows DEF Terminal
<1> QED BY <1>1, <1>2 DEF Consistent, WatchRow

-----------------------------------------------------------------------------
(* Quotas.                                                                 *)

LEMMA QuotaStep == StrongInv /\ QuotaHeld /\ [Next]_vars => QuotaHeld'
<1> SUFFICES ASSUME StrongInv, QuotaHeld, [Next]_vars PROVE QuotaHeld'
  OBVIOUS
<1>1. /\ watch \in [Watches -> WatchRow] /\ IInv
      /\ IsFiniteSet(Active) /\ Cardinality(Active) \in Nat /\ MaxActive \in Nat
  BY WatchesAssumption, BoundsAssumption, FS_Subset, FS_CardinalityType
     DEF StrongInv, IInv, TypeOK, Active
<1>2. ASSUME Active' \subseteq Active,
             \A w \in Active' : /\ watch'[w].interval = watch[w].interval
                                /\ watch'[w].maxRuns = watch[w].maxRuns
      PROVE  QuotaHeld'
  <2>1. Cardinality(Active') <= Cardinality(Active) /\ Cardinality(Active') \in Nat
    BY <1>1, <1>2, FS_Subset, FS_CardinalityType
  <2>2. Cardinality(Active') <= MaxActive
    BY <1>1, <2>1 DEF QuotaHeld
  <2> QED BY <1>2, <2>2 DEF QuotaHeld, IsShort
<1>3. CASE UNCHANGED durable
  BY <1>2, <1>3 DEF durable, Active
<1>4. ASSUME NEW w \in Watches, NEW request \in Requests, Created(w, request)
      PROVE  QuotaHeld'
  <2>1. Active' = Active \union {w} /\ w \notin Active
    BY <1>1, <1>4 DEF Created, Active
  <2>2. Cardinality(Active') = Cardinality(Active) + 1
    BY <1>1, <2>1, FS_AddElement
  <2>3. Cardinality(Active') <= MaxActive
    BY <1>1, <1>4, <2>2 DEF Created, Admitted
  <2>4. /\ watch'[w].interval = request.interval
        /\ watch'[w].maxRuns = request.maxRuns
        /\ \A v \in Active : watch'[v] = watch[v]
    BY <1>1, <1>4, <2>1 DEF Created, Active
  <2> QED BY <1>4, <2>1, <2>3, <2>4 DEF QuotaHeld, Created, Admitted, IsShort
<1>5. ASSUME NEW w \in Watches, NEW now \in Nat, Begun(w, now) PROVE QuotaHeld'
  <2>1. \A v \in Watches :
          /\ watch'[v].status = watch[v].status /\ watch'[v].interval = watch[v].interval
          /\ watch'[v].maxRuns = watch[v].maxRuns
    BY <1>1, <1>5 DEF Begun, WatchRow
  <2> QED BY <1>2, <2>1 DEF Active
<1>6. ASSUME NEW w \in Watches, NEW outcome \in Terminal, NEW now \in Nat,
             NEW recovery \in BOOLEAN, Ended(w, outcome, now, recovery)
      PROVE  QuotaHeld'
  <2>1. watch[w].status = "active"
    BY <1>1, <1>6, RunningIsActive DEF Ended
  <2>2. /\ watch'[w].interval = watch[w].interval
        /\ watch'[w].maxRuns = watch[w].maxRuns
        /\ \A v \in Watches \ {w} : watch'[v] = watch[v]
    BY <1>1, <1>6, AdvancedKeepsOrder DEF Ended
  <2> QED BY <1>2, <2>1, <2>2 DEF Active
<1> QED BY <1>3, <1>4, <1>5, <1>6, StoreStep

\* The quotas of create hold in every state: they are read and taken in one
\* transaction, and no other step makes a watch active or changes an interval.
THEOREM QuotasAreHeld == Spec => []QuotaHeld
<1>1. Init => QuotaHeld
  <2> SUFFICES ASSUME Init PROVE QuotaHeld
    OBVIOUS
  <2>1. Active = {}
    BY DEF Init, Active, Blank
  <2>2. Cardinality(Active) = 0
    BY <2>1, FS_EmptySet
  <2> QED BY <2>1, <2>2, BoundsAssumption DEF QuotaHeld
<1> QED BY <1>1, QuotaStep, StrongInvariance, PTL DEF Spec

-----------------------------------------------------------------------------
(* The service implements the ledger: each way in which a step changes the *)
(* store is a step of the ledger, and every other step a stutter.          *)

PhaseOf == [w \in Watches |-> Phase(w)]
OrderOf == [w \in Watches |-> Ordered(w)]
SlotsOf == [w \in Watches |-> Slots(w)]

LEMMA LedgerInit == Init => Ledger!Init
<1> SUFFICES ASSUME Init PROVE Ledger!Init
  OBVIOUS
<1>1. ASSUME NEW w \in Watches
      PROVE  Phase(w) = "absent" /\ Ordered(w) = Ledger!NoOrder /\ Slots(w) = <<>>
  <2>1. watch[w] = Blank /\ rows[w] = <<>>
    BY DEF Init
  <2>2. DOMAIN rows[w] = 1 .. 0
    BY <2>1
  <2>3. Slots(w) = [i \in 1 .. 0 |-> rows[w][i].slot]
    BY <2>2 DEF Slots
  <2>4. Slots(w) = <<>>
    BY <2>3
  <2> QED BY <2>1, <2>4 DEF Phase, Ordered, Blank, Ledger!NoOrder
<1> QED BY <1>1 DEF Ledger!Init

LEMMA MappedUnchanged ==
    ASSUME NEW w \in Watches, watch'[w] = watch[w], rows'[w] = rows[w]
    PROVE  Phase(w)' = Phase(w) /\ Ordered(w)' = Ordered(w) /\ Slots(w)' = Slots(w)
  BY DEF Phase, Ordered, Slots, Running

\* The mapped functions when one watch changed.
LEMMA MappedExcept ==
    ASSUME NEW w \in Watches,
           \A v \in Watches \ {w} : watch'[v] = watch[v] /\ rows'[v] = rows[v]
    PROVE  /\ PhaseOf' = [PhaseOf EXCEPT ![w] = Phase(w)']
           /\ OrderOf' = [OrderOf EXCEPT ![w] = Ordered(w)']
           /\ SlotsOf' = [SlotsOf EXCEPT ![w] = Slots(w)']
<1>1. \A v \in Watches \ {w} :
        Phase(v)' = Phase(v) /\ Ordered(v)' = Ordered(v) /\ Slots(v)' = Slots(v)
  BY MappedUnchanged
<1>2. PhaseOf' = [PhaseOf EXCEPT ![w] = Phase(w)']
  BY <1>1 DEF PhaseOf
<1>3. OrderOf' = [OrderOf EXCEPT ![w] = Ordered(w)']
  BY <1>1 DEF OrderOf
<1>4. SlotsOf' = [SlotsOf EXCEPT ![w] = Slots(w)']
  BY <1>1 DEF SlotsOf
<1> QED BY <1>2, <1>3, <1>4

LEMMA CreateRegisters ==
    ASSUME StrongInv, NEW w \in Watches, NEW request \in Requests, Created(w, request)
    PROVE  Ledger!Register(w)
<1>1. /\ watch \in [Watches -> WatchRow] /\ rows' = rows /\ clock \in Nat
      /\ rows[w] \in Seq(Row) /\ Consistent(w) /\ watch[w].status = "none"
      /\ request.interval \in Nat \ {0} /\ request.maxRuns \in Nat \ {0}
      /\ \A v \in Watches \ {w} : watch'[v] = watch[v] /\ rows'[v] = rows[v]
  BY TimesAssumption, RequestsAssumption DEF StrongInv, IInv, TypeOK, WatchInv, Created
<1>2. /\ watch'[w].status = "active" /\ watch'[w].created = clock
      /\ watch'[w].interval = request.interval /\ watch'[w].maxRuns = request.maxRuns
  BY <1>1 DEF Created
<1>3. ~Running(w) /\ ~Running(w)'
  <2>1. ~Running(w)
    BY <1>1, RunningIsActive DEF StrongInv
  <2> QED BY <1>1, <2>1 DEF Running
<1>4. Phase(w) = "absent" /\ Phase(w)' = "waiting"
  BY <1>1, <1>2, <1>3 DEF Phase
<1>5. Ordered(w)' \in Ledger!Order
  BY <1>1, <1>2 DEF Ordered, Ledger!Order
<1>6. Slots(w)' = Slots(w)
  BY <1>1 DEF Slots
<1>7. /\ PhaseOf[w] = "absent" /\ PhaseOf' = [PhaseOf EXCEPT ![w] = "waiting"]
      /\ OrderOf'[w] \in Ledger!Order /\ OrderOf' = [OrderOf EXCEPT ![w] = OrderOf'[w]]
      /\ SlotsOf' = SlotsOf
  <2>1. SlotsOf' = SlotsOf
    BY <1>1 DEF SlotsOf, Slots
  <2> QED BY <1>1, <1>4, <1>5, <2>1, MappedExcept DEF PhaseOf, OrderOf
<1> QED BY <1>7 DEF Ledger!Register, PhaseOf, OrderOf, SlotsOf

\* A positive multiple of the interval is at least its factor.
LEMMA FactorBelowProduct ==
    ASSUME NEW a \in Nat, NEW b \in Nat, b >= 1
    PROVE  a <= b * a
<1>1. (b - 1) * a \in Nat
  BY ProductIsNat
<1>2. b * a = (b - 1) * a + a
  BY SMT
<1> QED BY <1>1, <1>2

LEMMA ClaimChecks ==
    ASSUME StrongInv, NEW w \in Watches, NEW now \in Nat, Begun(w, now)
    PROVE  Ledger!Check(w)
<1> DEFINE slot == ClaimedSlot(w, now)
           len == Len(rows[w])
<1>1. /\ watch[w] \in WatchRow /\ rows[w] \in Seq(Row) /\ WatchInv(w)
      /\ Claimable(w, now) /\ watch[w].status = "active" /\ \A v \in Watches : ~Running(v)
      /\ rows'[w] = Append(rows[w], [slot |-> slot, state |-> "running"])
      /\ watch'[w] = [watch[w] EXCEPT !.skipped = @ + Skipped(w, now)]
      /\ \A v \in Watches \ {w} : watch'[v] = watch[v] /\ rows'[v] = rows[v]
  BY DEF StrongInv, IInv, TypeOK, Begun, Claimable
<1>2. /\ rows'[w] \in Seq(Row) /\ watch'[w] \in WatchRow
      /\ WatchInv(w)' /\ Running(w)'
      /\ rows'[w][Len(rows'[w])].slot = slot /\ slot \in Nat
  BY <1>1, RunBegins
<1>3. /\ watch'[w].status = "active" /\ watch'[w].created = watch[w].created
      /\ watch'[w].interval = watch[w].interval /\ watch'[w].maxRuns = watch[w].maxRuns
  BY <1>1 DEF WatchRow
<1> HIDE DEF slot
<1>4. Phase(w) = "waiting" /\ Phase(w)' = "checking" /\ \A v \in Watches : Phase(v) # "checking"
  BY <1>1, <1>2, <1>3 DEF Phase
<1>5. Ordered(w)' = Ordered(w)
  BY <1>3 DEF Ordered
<1>6. /\ len \in Nat /\ DOMAIN rows[w] = 1 .. len
      /\ DOMAIN rows'[w] = 1 .. len + 1
      /\ \A i \in 1 .. len : rows'[w][i] = rows[w][i]
      /\ rows'[w][len + 1].slot = slot
  BY <1>1, LenProperties
<1>7. /\ Slots(w) \in Seq(Nat) /\ Len(Slots(w)) = len
      /\ \A i \in 1 .. len : Slots(w)[i] = rows[w][i].slot
  <2>1. \A i \in 1 .. len : rows[w][i].slot \in Nat
    <3>1. \A i \in 1 .. len : rows[w][i] \in Row
      BY <1>1, ElementOfSeq
    <3> QED BY <3>1 DEF Row
  <2>2. Slots(w) \in [1 .. len -> Nat]
    BY <1>6, <2>1 DEF Slots
  <2> QED BY <1>6, <2>2, SeqDef, LenProperties DEF Slots
<1>8. Slots(w)' = Append(Slots(w), slot)
  <2>1. Slots(w)' = [i \in 1 .. len + 1 |-> rows'[w][i].slot]
    BY <1>6 DEF Slots
  <2>2. Append(Slots(w), slot) = [i \in 1 .. len + 1 |-> IF i = len + 1 THEN slot ELSE Slots(w)[i]]
    <3>1. /\ Append(Slots(w), slot) \in Seq(Nat)
          /\ Len(Append(Slots(w), slot)) = len + 1
          /\ \A i \in 1 .. len : Append(Slots(w), slot)[i] = Slots(w)[i]
          /\ Append(Slots(w), slot)[len + 1] = slot
      BY <1>2, <1>6, <1>7, AppendProperties
    <3>2. Append(Slots(w), slot) = [i \in 1 .. len + 1 |-> Append(Slots(w), slot)[i]]
      BY <1>6, <3>1, LenProperties
    <3> QED BY <1>6, <3>1, <3>2
  <2> QED BY <1>6, <1>7, <2>1, <2>2
<1>9. Len(Slots(w)') = len + 1 /\ Ledger!Newest(Slots(w)') = slot
  BY <1>2, <1>6, <1>7, <1>8 DEF Ledger!Newest
<1>10. Ledger!Later(w, slot)
  <2>1. \A i \in 1 .. len : rows[w][i].slot < slot
    BY <1>2, <1>6, SMTT(30) DEF WatchInv, SlotsInOrder
  <2>2. DOMAIN Slots(w) = 1 .. len
    BY <1>6 DEF Slots
  <2> QED BY <1>7, <2>1, <2>2 DEF Ledger!Later
<1>11. Ledger!OnGrid(w, slot)
  <2> DEFINE n == 1 + watch'[w].runs + watch'[w].skipped
             step == watch[w].interval
  <2>1. n \in Nat \ {0} /\ step \in Nat /\ step >= 1 /\ watch[w].created \in Nat
    <3>1. watch'[w].runs \in Nat /\ watch'[w].skipped \in Nat
      BY <1>2 DEF WatchRow
    <3>2. step \in Nat /\ watch[w].created \in Nat
      BY <1>1 DEF WatchRow
    <3>3. step >= 1
      BY <1>1 DEF WatchInv, Consistent
    <3> QED BY <3>1, <3>2, <3>3
  <2>2. slot = watch[w].created + step * n
    BY <1>2, <1>3 DEF WatchInv, SlotsAccounted, ExpectedSlot
  <2> HIDE DEF n, step
  <2>3. n <= step * n /\ step * n \in Nat /\ step * n = n * step
    BY <2>1, FactorBelowProduct, ProductIsNat, SMT
  <2>4. n \in 1 .. slot /\ slot = watch[w].created + n * step
    BY <2>1, <2>2, <2>3
  <2> QED BY <2>4 DEF Ledger!OnGrid, Ordered, step
<1>12. /\ PhaseOf[w] = "waiting" /\ \A v \in Watches : PhaseOf[v] # "checking"
       /\ PhaseOf' = [PhaseOf EXCEPT ![w] = "checking"]
       /\ OrderOf' = OrderOf
       /\ SlotsOf[w] = Slots(w) /\ SlotsOf'[w] = Slots(w)'
       /\ SlotsOf' = [SlotsOf EXCEPT ![w] = Append(Slots(w), slot)]
  <2>1. OrderOf' = [OrderOf EXCEPT ![w] = OrderOf[w]]
    BY <1>1, <1>5, MappedExcept DEF OrderOf
  <2>2. OrderOf' = OrderOf
    BY <2>1 DEF OrderOf
  <2> QED BY <1>1, <1>4, <1>8, <2>2, MappedExcept DEF PhaseOf, SlotsOf
<1> QED BY <1>7, <1>9, <1>10, <1>11, <1>12 DEF Ledger!Check, PhaseOf, OrderOf, SlotsOf

LEMMA EndSettles ==
    ASSUME StrongInv, NEW w \in Watches, NEW outcome \in Terminal, NEW now \in Nat,
           NEW recovery \in BOOLEAN, Ended(w, outcome, now, recovery)
    PROVE  Ledger!Settle(w)
<1>1. /\ watch[w] \in WatchRow /\ rows[w] \in Seq(Row) /\ WatchInv(w) /\ Running(w)
      /\ watch[w].status = "active"
      /\ rows'[w] = Settled(w, outcome) /\ watch'[w] = Advanced(w, now, recovery)
      /\ \A v \in Watches \ {w} : watch'[v] = watch[v] /\ rows'[v] = rows[v]
  BY RunningIsActive DEF StrongInv, IInv, TypeOK, Ended
<1>2. /\ rows'[w] \in Seq(Row) /\ watch'[w] \in WatchRow /\ Consistent(w)' /\ ~Running(w)'
  BY <1>1, RunEnds DEF WatchInv
<1>3. /\ watch'[w].status \in {"active", "completed"} /\ watch'[w].created = watch[w].created
      /\ watch'[w].interval = watch[w].interval /\ watch'[w].maxRuns = watch[w].maxRuns
  BY <1>1, AdvancedKeepsOrder
<1>4. /\ Len(rows'[w]) = Len(rows[w]) /\ Len(rows[w]) \in Nat
      /\ DOMAIN rows[w] = 1 .. Len(rows[w]) /\ DOMAIN rows'[w] = 1 .. Len(rows[w])
      /\ \A i \in 1 .. Len(rows[w]) : rows'[w][i].slot = rows[w][i].slot
  BY <1>1, <1>2, SettledRows, LenProperties DEF WatchInv
<1>5. Slots(w)' = Slots(w) /\ Len(Slots(w)) = Len(rows[w])
  <2>1. Slots(w)' = Slots(w)
    BY <1>4 DEF Slots
  <2> QED BY <1>4, <2>1 DEF Slots
<1>6. Ordered(w)' = Ordered(w) /\ Ordered(w).budget = watch[w].maxRuns
  BY <1>3 DEF Ordered
<1>7. /\ Phase(w) = "checking"
      /\ Phase(w)' = IF Len(rows[w]) = watch[w].maxRuns THEN "done" ELSE "waiting"
  <2>1. watch'[w].runs = Len(rows[w]) /\ watch'[w].maxRuns \in Nat
    BY <1>2, <1>3, <1>4 DEF Consistent, WatchRow
  <2>2. watch'[w].status = "completed" <=> Len(rows[w]) = watch[w].maxRuns
    BY <1>2, <1>3, <2>1 DEF Consistent
  <2> QED BY <1>1, <1>2, <1>3, <2>2 DEF Phase
<1>8. /\ PhaseOf[w] = "checking" /\ OrderOf' = OrderOf /\ SlotsOf' = SlotsOf
      /\ PhaseOf' = [PhaseOf EXCEPT ![w] =
            IF Len(SlotsOf[w]) = OrderOf[w].budget THEN "done" ELSE "waiting"]
  <2>1. OrderOf' = [OrderOf EXCEPT ![w] = OrderOf[w]] /\ SlotsOf' = [SlotsOf EXCEPT ![w] = SlotsOf[w]]
    BY <1>1, <1>5, <1>6, MappedExcept DEF OrderOf, SlotsOf
  <2>2. OrderOf' = OrderOf /\ SlotsOf' = SlotsOf
    BY <2>1 DEF OrderOf, SlotsOf
  <2>3. SlotsOf[w] = Slots(w) /\ OrderOf[w] = Ordered(w) /\ PhaseOf[w] = Phase(w)
    BY DEF SlotsOf, OrderOf, PhaseOf
  <2> QED BY <1>1, <1>5, <1>6, <1>7, <2>2, <2>3, MappedExcept
<1> QED BY <1>8 DEF Ledger!Settle, PhaseOf, OrderOf, SlotsOf

\* Whatever processes, crashes, recoveries and clock changes are behind it, the
\* service is the ledger its clients were promised: slots of the grid, strictly
\* later each time, one check at a time, exactly the budget, nothing afterwards.
THEOREM LedgerIsImplemented == Spec => ImplementsLedger
<1>1. StrongInv /\ [Next]_vars => [Ledger!Next]_Ledger!ledger
  <2> SUFFICES ASSUME StrongInv, [Next]_vars PROVE [Ledger!Next]_Ledger!ledger
    OBVIOUS
  <2>1. CASE UNCHANGED durable
    <3>1. PhaseOf' = PhaseOf /\ OrderOf' = OrderOf /\ SlotsOf' = SlotsOf
      BY <2>1, MappedUnchanged DEF durable, PhaseOf, OrderOf, SlotsOf
    <3> QED BY <3>1 DEF Ledger!ledger, PhaseOf, OrderOf, SlotsOf
  <2>2. ASSUME NEW w \in Watches, NEW request \in Requests, Created(w, request)
        PROVE  Ledger!Next
    BY <2>2, CreateRegisters DEF Ledger!Next
  <2>3. ASSUME NEW w \in Watches, NEW now \in Nat, Begun(w, now) PROVE Ledger!Next
    BY <2>3, ClaimChecks DEF Ledger!Next
  <2>4. ASSUME NEW w \in Watches, NEW outcome \in Terminal, NEW now \in Nat,
               NEW recovery \in BOOLEAN, Ended(w, outcome, now, recovery)
        PROVE  Ledger!Next
    BY <2>4, EndSettles DEF Ledger!Next
  <2> QED BY <2>1, <2>2, <2>3, <2>4, StoreStep
<1> QED BY <1>1, LedgerInit, StrongInvariance, PTL DEF Spec, ImplementsLedger, Ledger!Spec
=============================================================================
