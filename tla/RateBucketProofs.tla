-------------------------- MODULE RateBucketProofs --------------------------
(***************************************************************************)
(* Proofs about the token bucket, for every capacity, rate and clock bound.*)
(* The inductive invariant says of each accepted take that what is left in *)
(* the bucket and what was accepted since it have flowed in since it, and  *)
(* of each promise that the inflow until then fills a token, not sooner.   *)
(***************************************************************************)
EXTENDS RateBucket, TLAPS

\* What is left and what was accepted since take i is covered by the inflow.
Covered ==
    \A i \in DOMAIN accepted :
        parts + (Len(accepted) - i + 1) * Token <= Full + (updated - accepted[i]) * PerMinute

\* Nothing was accepted after the clock was last read.
InThePast == \A i \in DOMAIN accepted : accepted[i] <= updated

\* The promise is the first second that fills a token.
PromiseExact ==
    promise # NoPromise =>
        /\ parts + (promise - updated) * PerMinute >= Token
        /\ parts + (promise - 1 - updated) * PerMinute < Token

IInv == TypeOK /\ Covered /\ InThePast /\ PromiseExact /\ WindowBound

-----------------------------------------------------------------------------
\* The inflow over two adjoining stretches adds up.
LEMMA InflowAdds ==
    ASSUME NEW a \in Int, NEW b \in Int, NEW c \in Int
    PROVE  (b - a) * PerMinute + (c - b) * PerMinute = (c - a) * PerMinute
BY BucketAssumption, SMT

\* A longer stretch brings no less.
LEMMA InflowGrows ==
    ASSUME NEW a \in Int, NEW b \in Int, a <= b
    PROVE  a * PerMinute <= b * PerMinute
BY BucketAssumption, SMT

\* What was covered stays covered: x has flowed in since a take, y more since.
LEMMA StillCovered ==
    ASSUME NEW p \in Int, NEW q \in Int, NEW n \in Int, NEW f \in Int,
           NEW x \in Int, NEW y \in Int, NEW z \in Int, x + y = z,
           p + n * Token <= f + x, q <= p + y
    PROVE  q + n * Token <= f + z /\ (q - Token) + (n + 1) * Token <= f + z
BY SMT DEF Token

\* The division of the source rounds up: the wait fills the gap, a second less
\* does not.
LEMMA WaitIsExact ==
    ASSUME NEW level \in 0 .. Token - 1
    PROVE  /\ RetryAfter(level) \in Nat \ {0}
           /\ level + RetryAfter(level) * PerMinute >= Token
           /\ level + (RetryAfter(level) - 1) * PerMinute < Token
<1> DEFINE gap == Token - level
           wait == RetryAfter(level)
<1>1. gap \in 1 .. Token /\ level \in Int
  BY DEF Token
<1>2. wait = (gap + PerMinute - 1) \div PerMinute
  BY DEF RetryAfter
<1>3. wait \in Int /\ wait * PerMinute <= gap + PerMinute - 1
        /\ gap + PerMinute - 1 < (wait + 1) * PerMinute
  <2> HIDE DEF gap
  <2> QED BY <1>1, <1>2, BucketAssumption, SMT DEF Token
<1>4. (wait + 1) * PerMinute = wait * PerMinute + PerMinute
        /\ (wait - 1) * PerMinute = wait * PerMinute - PerMinute
  BY <1>3, BucketAssumption, SMT
<1>5. wait * PerMinute >= gap /\ (wait - 1) * PerMinute < gap
  <2> HIDE DEF gap, wait
  <2> QED BY <1>1, <1>3, <1>4, BucketAssumption DEF Token
<1>6. wait > 0
  <2> SUFFICES ASSUME wait <= 0 PROVE FALSE
    BY <1>3
  <2> HIDE DEF gap, wait
  <2>1. wait * PerMinute <= 0 * PerMinute
    BY <1>3, InflowGrows
  <2>2. 0 * PerMinute = 0 /\ wait * PerMinute \in Int /\ gap \in 1 .. Token
    BY <1>1, <1>3, BucketAssumption, SMT
  <2>3. wait * PerMinute >= gap
    BY <1>5
  <2> QED BY <2>1, <2>2, <2>3 DEF Token
<1>7. level + wait * PerMinute >= Token /\ level + (wait - 1) * PerMinute < Token
  <2>1. wait * PerMinute \in Int /\ (wait - 1) * PerMinute \in Int
    BY <1>3, BucketAssumption, SMT
  <2> HIDE DEF wait
  <2> QED BY <2>1, <1>1, <1>5 DEF Token
<1> QED
  BY <1>3, <1>6, <1>7

\* What a take finds is a level of the bucket, no more than what flowed in.
LEMMA FilledBounds ==
    ASSUME TypeOK
    PROVE  /\ Filled \in 0 .. Full
           /\ Filled <= parts + (now - updated) * PerMinute
           /\ Filled = Full \/ Filled = parts + (now - updated) * PerMinute
           /\ Full \in Nat /\ Full >= Token
<1>1. now - updated \in Nat /\ parts \in 0 .. Full
  BY DEF TypeOK
<1>2. Full \in Nat /\ Full >= Token
  BY BucketAssumption, SMT DEF Full, Token
<1>3. (now - updated) * PerMinute \in Nat
  BY <1>1, BucketAssumption, SMT
<1> QED
  BY <1>1, <1>2, <1>3 DEF Filled

-----------------------------------------------------------------------------
LEMMA InitInv == Init => IInv
<1> SUFFICES ASSUME Init PROVE IInv
  OBVIOUS
<1>1. Full \in Nat
  BY BucketAssumption, SMT DEF Full, Token
<1>2. TypeOK
  BY <1>1, BucketAssumption DEF Init, TypeOK, NoPromise
<1>3. Covered /\ InThePast /\ WindowBound /\ PromiseExact
  BY DEF Init, Covered, InThePast, WindowBound, PromiseExact, NoPromise
<1> QED
  BY <1>2, <1>3 DEF IInv

LEMMA AcceptStep ==
    ASSUME IInv, Accept
    PROVE  IInv'
<1> USE DEF IInv
<1>1. Filled \in 0 .. Full /\ Filled <= parts + (now - updated) * PerMinute
        /\ Full \in Nat /\ Token \in Nat
  BY FilledBounds DEF Token
<1>2. now \in 0 .. MaxNow /\ updated \in 0 .. now /\ parts \in 0 .. Full
        /\ accepted \in Seq(0 .. now) /\ MaxNow \in Nat
  BY BucketAssumption DEF TypeOK
<1>3. /\ now' = now /\ updated' = now /\ parts' = Filled - Token
      /\ accepted' = Append(accepted, now) /\ promise' = NoPromise
      /\ Filled >= Token
  BY DEF Accept
<1>4. /\ accepted' \in Seq(0 .. now)
      /\ Len(accepted') = Len(accepted) + 1
      /\ DOMAIN accepted = 1 .. Len(accepted) /\ DOMAIN accepted' = 1 .. Len(accepted) + 1
      /\ \A i \in DOMAIN accepted : accepted'[i] = accepted[i] /\ accepted[i] \in 0 .. now
      /\ accepted'[Len(accepted) + 1] = now
      /\ Len(accepted) \in Nat
  BY <1>2, <1>3
<1>5. TypeOK'
  BY <1>1, <1>2, <1>3, <1>4 DEF TypeOK, Token
<1>6. InThePast'
  BY <1>2, <1>3, <1>4 DEF InThePast
<1>7. PromiseExact'
  BY <1>3 DEF PromiseExact
<1>8. Covered'
  <2> SUFFICES ASSUME NEW i \in 1 .. Len(accepted) + 1
               PROVE  parts' + (Len(accepted) + 1 - i + 1) * Token
                        <= Full + (now - accepted'[i]) * PerMinute
    BY <1>3, <1>4 DEF Covered, Full, Token
  <2>1. CASE i = Len(accepted) + 1
    <3>1. now - accepted'[i] = 0
      BY <2>1, <1>2, <1>4
    <3>2. (now - accepted'[i]) * PerMinute = 0
      BY <3>1, BucketAssumption, SMT
    <3> QED BY <2>1, <3>2, <1>1, <1>3, <1>4 DEF Token
  <2>2. CASE i \in DOMAIN accepted
    <3>1. parts + (Len(accepted) - i + 1) * Token <= Full + (updated - accepted[i]) * PerMinute
      BY <2>2 DEF Covered
    <3>2. (updated - accepted[i]) * PerMinute + (now - updated) * PerMinute
            = (now - accepted[i]) * PerMinute
      <4>1. accepted[i] \in Int /\ updated \in Int /\ now \in Int
        BY <2>2, <1>2, <1>4
      <4> QED BY <4>1, InflowAdds
    <3>3. /\ (updated - accepted[i]) * PerMinute \in Int
          /\ (now - updated) * PerMinute \in Int
          /\ (now - accepted[i]) * PerMinute \in Int
      BY <2>2, <1>2, <1>4, BucketAssumption, SMT
    <3>4. accepted'[i] = accepted[i]
      BY <2>2, <1>4
    <3>5. Filled \in Int /\ parts \in Int /\ Len(accepted) - i + 1 \in Int
      BY <2>2, <1>1, <1>2, <1>4
    <3>6. (Filled - Token) + (Len(accepted) - i + 1 + 1) * Token
            <= Full + (now - accepted[i]) * PerMinute
      BY <3>1, <3>2, <3>3, <3>5, <1>1, StillCovered
    <3>7. Len(accepted) - i + 1 + 1 = Len(accepted) + 1 - i + 1
      BY <2>2, <1>4
    <3> QED BY <3>4, <3>6, <3>7, <1>3
  <2> QED BY <2>1, <2>2, <1>4
<1>9. WindowBound'
  <2> SUFFICES ASSUME NEW i \in 1 .. Len(accepted) + 1, NEW j \in i .. Len(accepted) + 1
               PROVE  (j - i + 1) * Token <= Full + (accepted'[j] - accepted'[i]) * PerMinute
    BY <1>4 DEF WindowBound, Full, Token
  <2>1. CASE j = Len(accepted) + 1
    <3>1. parts' + (Len(accepted') - i + 1) * Token <= Full + (updated' - accepted'[i]) * PerMinute
      BY <1>8, <1>4 DEF Covered, Full, Token
    <3>2. accepted'[j] = now /\ updated' = now /\ accepted'[i] \in Int
      BY <2>1, <1>2, <1>3, <1>4
    <3>3. (now - accepted'[i]) * PerMinute \in Int
      BY <3>2, <1>2, BucketAssumption, SMT
    <3> QED BY <2>1, <3>1, <3>2, <3>3, <1>1, <1>3, <1>4 DEF Token
  <2>2. CASE j \in 1 .. Len(accepted)
    <3>1. i \in DOMAIN accepted /\ j \in i .. Len(accepted)
      BY <2>2, <1>4
    <3> QED BY <3>1, <1>4 DEF WindowBound
  <2> QED BY <2>1, <2>2, <1>4
<1> QED
  BY <1>5, <1>6, <1>7, <1>8, <1>9

LEMMA RefuseStep ==
    ASSUME IInv, Refuse
    PROVE  IInv'
<1> USE DEF IInv
<1>1. Filled \in 0 .. Token - 1 /\ Filled <= parts + (now - updated) * PerMinute
        /\ Full \in Nat /\ Full >= Token /\ Token \in Nat
  BY FilledBounds DEF Refuse, Token
<1>2. now \in 0 .. MaxNow /\ updated \in 0 .. now /\ parts \in 0 .. Full
        /\ accepted \in Seq(0 .. now) /\ MaxNow \in Nat
  BY BucketAssumption DEF TypeOK
<1>3. /\ now' = now /\ updated' = now /\ parts' = Filled
      /\ accepted' = accepted /\ promise' = now + RetryAfter(Filled)
  BY DEF Refuse
<1>4. /\ RetryAfter(Filled) \in Nat \ {0}
      /\ Filled + RetryAfter(Filled) * PerMinute >= Token
      /\ Filled + (RetryAfter(Filled) - 1) * PerMinute < Token
  BY <1>1, WaitIsExact
<1>5. TypeOK'
  BY <1>1, <1>2, <1>3, <1>4 DEF TypeOK, Full, Token
<1>6. InThePast'
  BY <1>2, <1>3 DEF InThePast
<1>7. PromiseExact'
  <2>1. promise' - updated' = RetryAfter(Filled)
          /\ promise' - 1 - updated' = RetryAfter(Filled) - 1
    BY <1>2, <1>3, <1>4
  <2> QED BY <2>1, <1>3, <1>4 DEF PromiseExact, Token
<1>8. Covered'
  <2> SUFFICES ASSUME NEW i \in DOMAIN accepted
               PROVE  parts' + (Len(accepted) - i + 1) * Token
                        <= Full + (now - accepted[i]) * PerMinute
    BY <1>3 DEF Covered, Full, Token
  <2>1. parts + (Len(accepted) - i + 1) * Token <= Full + (updated - accepted[i]) * PerMinute
    BY DEF Covered
  <2>2. accepted[i] \in 0 .. now /\ i \in Nat /\ Len(accepted) \in Nat
    BY <1>2
  <2>3. (updated - accepted[i]) * PerMinute + (now - updated) * PerMinute
          = (now - accepted[i]) * PerMinute
    <3>1. accepted[i] \in Int /\ updated \in Int /\ now \in Int
      BY <2>2, <1>2
    <3> QED BY <3>1, InflowAdds
  <2>4. /\ (updated - accepted[i]) * PerMinute \in Int
        /\ (now - updated) * PerMinute \in Int
        /\ (now - accepted[i]) * PerMinute \in Int
    BY <2>2, <1>2, BucketAssumption, SMT
  <2>5. Filled \in Int /\ parts \in Int /\ Len(accepted) - i + 1 \in Int
    BY <2>2, <1>1, <1>2
  <2>6. Filled + (Len(accepted) - i + 1) * Token <= Full + (now - accepted[i]) * PerMinute
    BY <2>1, <2>3, <2>4, <2>5, <1>1, StillCovered
  <2> QED BY <2>6, <1>3
<1>9. WindowBound'
  BY <1>3 DEF WindowBound, Full, Token
<1> QED
  BY <1>5, <1>6, <1>7, <1>8, <1>9

LEMMA TickStep ==
    ASSUME IInv, Tick
    PROVE  IInv'
<1> USE DEF IInv
<1>1. now' = now + 1 /\ now + 1 <= MaxNow
        /\ UNCHANGED <<parts, updated, accepted, promise>>
  BY BucketAssumption DEF Tick, TypeOK
<1>2. accepted \in Seq(0 .. now + 1)
  BY BucketAssumption DEF TypeOK
<1>3. TypeOK'
  BY <1>1, <1>2, BucketAssumption DEF TypeOK, Full, Token
<1> QED
  BY <1>1, <1>3 DEF Covered, InThePast, PromiseExact, WindowBound, Full, Token

\* The invariant holds in every state of the bucket.
THEOREM Invariance == Spec => []IInv
<1>1. IInv /\ [Next]_vars => IInv'
  <2> SUFFICES ASSUME IInv, [Next]_vars PROVE IInv'
    OBVIOUS
  <2>1. CASE Accept
    BY <2>1, AcceptStep
  <2>2. CASE Refuse
    BY <2>2, RefuseStep
  <2>3. CASE Tick
    BY <2>3, TickStep
  <2>4. CASE UNCHANGED vars
    BY <2>4 DEF vars, IInv, TypeOK, Covered, InThePast, PromiseExact, WindowBound, Full, Token
  <2> QED BY <2>1, <2>2, <2>3, <2>4 DEF Next, Take
<1> QED
  BY <1>1, InitInv, PTL DEF Spec

\* A bucket stays a bucket: tokens never negative, never more than the capacity,
\* and never read at a later time than now.
THEOREM TypeCorrect == Spec => []TypeOK
BY Invariance, PTL DEF IInv

\* However requests are spread, a stretch of time sees no more accepted ones than
\* the capacity and the inflow allow: the rate limit of Bucket.take.
THEOREM RateIsLimited == Spec => []WindowBound
BY Invariance, PTL DEF IInv

\* Retry-After of a refusal is exact: the token is there then ...
THEOREM RetryAfterSuffices == Spec => []RetryAfterIsEnough
<1>1. IInv => RetryAfterIsEnough
  <2> SUFFICES ASSUME IInv, promise # NoPromise, now >= promise PROVE Filled >= Token
    BY DEF RetryAfterIsEnough
  <2>1. promise \in Nat /\ now \in Nat /\ updated \in Nat /\ parts \in Int
    BY BucketAssumption DEF IInv, TypeOK
  <2>2. (promise - updated) * PerMinute <= (now - updated) * PerMinute
    BY <2>1, InflowGrows
  <2>3. (promise - updated) * PerMinute \in Int /\ (now - updated) * PerMinute \in Int
    BY <2>1, BucketAssumption, SMT
  <2>4. parts + (promise - updated) * PerMinute >= Token
    BY DEF IInv, PromiseExact
  <2> QED BY <2>1, <2>2, <2>3, <2>4, FilledBounds DEF IInv, Token
<1> QED
  BY <1>1, Invariance, PTL

\* ... and was not there a second earlier.
THEOREM RetryAfterIsTight == Spec => []RetryAfterIsNeeded
<1>1. IInv => RetryAfterIsNeeded
  <2> SUFFICES ASSUME IInv, promise # NoPromise, now < promise PROVE Filled < Token
    BY DEF RetryAfterIsNeeded
  <2>1. promise \in Nat /\ now \in Nat /\ updated \in Nat /\ parts \in Int
    BY BucketAssumption DEF IInv, TypeOK
  <2>2. (now - updated) * PerMinute <= (promise - 1 - updated) * PerMinute
    BY <2>1, InflowGrows
  <2>3. (promise - 1 - updated) * PerMinute \in Int /\ (now - updated) * PerMinute \in Int
    BY <2>1, BucketAssumption, SMT
  <2>4. parts + (promise - 1 - updated) * PerMinute < Token
    BY DEF IInv, PromiseExact
  <2> QED BY <2>1, <2>2, <2>3, <2>4, FilledBounds DEF IInv, Token
<1> QED
  BY <1>1, Invariance, PTL

\* The limit of every window and the exactness of Retry-After together, for every
\* capacity and rate.
THEOREM LimitIsKept == Spec => []LimitIsExact
BY RateIsLimited, RetryAfterSuffices, RetryAfterIsTight, PTL DEF LimitIsExact
=============================================================================
