----------------------------- MODULE RateBucket -----------------------------
(***************************************************************************)
(* The token bucket in front of every authenticated route of the private   *)
(* assistant service (class Bucket): one bucket per token label and route  *)
(* kind, filled at PerMinute / 60 tokens a second up to Capacity, read     *)
(* with a monotonic clock.                                                 *)
(*                                                                         *)
(* A token is 60 parts, so that a second adds PerMinute of them and the    *)
(* arithmetic stays in the integers; the clock is read in whole seconds.   *)
(***************************************************************************)
EXTENDS Integers, Sequences

CONSTANTS
    Capacity,   \* 2 for chat, 5 for status
    PerMinute,  \* 6 for chat, 30 for status
    MaxNow      \* bound on the clock

ASSUME BucketAssumption ==
    /\ Capacity \in Nat \ {0} /\ PerMinute \in Nat \ {0}
    /\ MaxNow \in Nat

VARIABLES
    now,        \* time.monotonic(), in seconds
    parts,      \* Bucket.tokens, in parts
    updated,    \* Bucket.updated
    accepted,   \* history: when a take was accepted
    promise     \* history: when Retry-After said a take would be, NoPromise if it did not

vars == <<now, parts, updated, accepted, promise>>

Token == 60
Full == Capacity * Token
NoPromise == -1

TypeOK ==
    /\ now \in 0 .. MaxNow
    /\ parts \in 0 .. Full
    /\ updated \in 0 .. now
    /\ accepted \in Seq(0 .. now)
    /\ promise \in Nat \union {NoPromise}

Init ==
    /\ now = 0
    /\ parts = Full
    /\ updated = 0
    /\ accepted = <<>>
    /\ promise = NoPromise

-----------------------------------------------------------------------------
\* What a take finds in the bucket.
Filled ==
    LET level == parts + (now - updated) * PerMinute
    IN  IF level <= Full THEN level ELSE Full

\* Seeded fault: the wait is rounded down.
RetryAfterFloor(level) == IF (Token - level) \div PerMinute < 1 THEN 1
                                                                ELSE (Token - level) \div PerMinute

\* Seeded fault: the wait for a whole token, whatever is left in the bucket.
RetryAfterEmpty(level) == (Token + PerMinute - 1) \div PerMinute

\* max(1, ceil((1 - tokens) / rate)), for level < Token.
RetryAfter(level) == (Token - level + PerMinute - 1) \div PerMinute

Accept ==
    /\ Filled >= Token
    /\ parts' = Filled - Token
    /\ updated' = now
    /\ accepted' = Append(accepted, now)
    /\ promise' = NoPromise
    /\ UNCHANGED now

\* Seeded fault: the level is written back but not the time it was read at.
RefuseForgetsWhen ==
    /\ Filled < Token
    /\ parts' = Filled
    /\ promise' = now + RetryAfter(Filled)
    /\ UNCHANGED <<now, updated, accepted>>

\* 429 rate_limited: what flowed in is kept.
Refuse ==
    /\ Filled < Token
    /\ parts' = Filled
    /\ updated' = now
    /\ promise' = now + RetryAfter(Filled)
    /\ UNCHANGED <<now, accepted>>

Take == Accept \/ Refuse

Tick ==
    /\ now < MaxNow
    /\ now' = now + 1
    /\ UNCHANGED <<parts, updated, accepted, promise>>

Next == Take \/ Tick

Spec == Init /\ [][Next]_vars

-----------------------------------------------------------------------------
(* What the bucket guarantees.                                             *)

\* Over any stretch of time, however the requests are spread and however many
\* are refused, no more is accepted than the capacity and what flows in.
WindowBound ==
    \A i \in DOMAIN accepted : \A j \in i .. Len(accepted) :
        (j - i + 1) * Token <= Full + (accepted[j] - accepted[i]) * PerMinute

\* A client that waits for as long as Retry-After says is accepted, unless
\* another request of its label was accepted before it; refused ones do no harm.
RetryAfterIsEnough == promise # NoPromise /\ now >= promise => Filled >= Token

\* And it is not told to wait a second too long.
RetryAfterIsNeeded == promise # NoPromise /\ now < promise => Filled < Token

\* The limit holds in every window and Retry-After is exact (Bucket.take).
LimitIsExact == WindowBound /\ RetryAfterIsEnough /\ RetryAfterIsNeeded
=============================================================================
