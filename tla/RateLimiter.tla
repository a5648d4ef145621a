---------------------------- MODULE RateLimiter -----------------------------
(***************************************************************************)
(* A bandwidth limit: the token bucket that all connections of one         *)
(* direction share, and the connections that sleep for what they lack.     *)
(*                                                                         *)
(* Time is counted in ticks of one unit of data each, so rate and wait are *)
(* whole numbers; f64 rounding and the unlimited bucket are left out.  The *)
(* semaphore is given back with the bucket's lock, before the sleep.       *)
(***************************************************************************)
EXTENDS Naturals, FiniteSets

CONSTANTS
    Connections,   \* the tasks that share the limiter
    BlockSizes,    \* sizes of the blocks they pass
    BucketSize,    \* max_tokens: two seconds' worth
    MaxTime,       \* bound on the ticks
    MaxLimitChanges \* bound on set_bandwidth_limits

ASSUME RateAssumption ==
    /\ IsFiniteSet(Connections) /\ BlockSizes \subseteq Nat \ {0}
    /\ {BucketSize, MaxTime, MaxLimitChanges} \subseteq Nat

VARIABLES
    now,       \* the time
    tokens,    \* bucket.tokens
    updated,   \* bucket.last_update
    wake,      \* when a connection's sleep ends
    passing,   \* the size it sleeps for, 0 when it does not sleep
    passed,    \* history: the data passed so far
    renewals   \* buckets that set_bandwidth_limits has put in place

rateVars == <<now, tokens, updated, wake, passing, passed, renewals>>

RateInit ==
    /\ now = 0 /\ tokens = BucketSize /\ updated = 0 /\ passed = 0 /\ renewals = 0
    /\ wake = [c \in Connections |-> 0] /\ passing = [c \in Connections |-> 0]

(* Mutant: the bucket has no size. *)
RefilledOver == tokens + (now - updated)

Refilled == LET n == tokens + (now - updated) IN IF n > BucketSize THEN BucketSize ELSE n

(* Mutant: the time is not taken over, and refills again. *)
AcquireTwice(c, n) ==
    /\ passing[c] = 0 /\ Refilled >= n
    /\ tokens' = Refilled - n /\ passed' = passed + n
    /\ UNCHANGED <<now, updated, wake, passing, renewals>>

(* What is missing is slept for; the refill of the sleep is not booked.    *)
Acquire(c, n) ==
    /\ passing[c] = 0 /\ updated' = now
    /\ IF Refilled >= n
       THEN /\ tokens' = Refilled - n /\ passed' = passed + n
            /\ UNCHANGED <<wake, passing>>
       ELSE /\ tokens' = 0
            /\ wake' = [wake EXCEPT ![c] = now + (n - Refilled)]
            /\ passing' = [passing EXCEPT ![c] = n]
            /\ UNCHANGED passed
    /\ UNCHANGED <<now, renewals>>

(* The block goes on: to the disk, or to the peer. *)
Passes(c) ==
    /\ passing[c] > 0 /\ wake[c] <= now
    /\ passed' = passed + passing[c]
    /\ passing' = [passing EXCEPT ![c] = 0] /\ wake' = [wake EXCEPT ![c] = 0]
    /\ UNCHANGED <<now, tokens, updated, renewals>>

(* set_download_limit or set_upload_limit: a new, full bucket.             *)
ChangeLimit ==
    /\ renewals < MaxLimitChanges /\ renewals' = renewals + 1
    /\ tokens' = BucketSize /\ updated' = now
    /\ UNCHANGED <<now, wake, passing, passed>>

Tick ==
    /\ now < MaxTime /\ now' = now + 1
    /\ UNCHANGED <<tokens, updated, wake, passing, passed, renewals>>

RateNext ==
    \/ \E c \in Connections : Passes(c) \/ \E n \in BlockSizes : Acquire(c, n)
    \/ ChangeLimit \/ Tick

RateSpec == RateInit /\ [][RateNext]_rateVars

-----------------------------------------------------------------------------
RateTypeOK ==
    /\ {now, updated} \subseteq 0 .. MaxTime /\ tokens \in 0 .. BucketSize
    /\ {wake, passing} \subseteq [Connections -> Nat] /\ passed \in Nat
    /\ renewals \in 0 .. MaxLimitChanges

(* How far the limit is from being one: besides the full buckets, one      *)
(* unit per tick for each connection and one for the bucket, since the     *)
(* time a connection sleeps for its own block also refills the bucket, and *)
(* another connection may sleep for its block at the same time.            *)
RateBounded ==
    passed <= BucketSize * (1 + renewals) + (Cardinality(Connections) + 1) * now

=============================================================================
