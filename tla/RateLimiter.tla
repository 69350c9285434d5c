---------------------------- MODULE RateLimiter ----------------------------
(***************************************************************************)
(* The rate limiter of policy runs (rbh-policy/src/ratelimit.rs): a bucket *)
(* of actions and a bucket of bytes, each refilled at its rate and never   *)
(* above one second's worth.  One caller, the dispatcher of a run, is in   *)
(* acquire at a time.                                                      *)
(*                                                                         *)
(* Units.  A second is Second ticks of the clock, and the buckets are      *)
(* counted in 1/Second of an action or of a byte, so that a tick refills   *)
(* exactly the rate.  The code uses f64 and a continuous clock.            *)
(***************************************************************************)
EXTENDS Integers

CONSTANTS
  Second,   \* ticks per second
  Sizes,    \* sizes of the entries the limiter is asked for
  MaxClock, \* the clock is exact below this bound
  MaxIdle   \* bound on the time since the last refill

None == -1

ASSUME RateAssumption ==
  /\ Second \in Nat \ {0}
  /\ Sizes \subseteq Nat
  /\ MaxClock \in Nat
  /\ MaxIdle \in Nat

VARIABLES
  limit,   \* RateLimit: [max_per_sec, max_bytes_per_sec], None: unlimited
  tokens,  \* Bucket.tokens
  bytes,   \* Bucket.bytes
  idle,    \* now - Bucket.last_refill
  want,    \* the size acquire was called with; None: no call
  asleep,  \* acquire is in its sleep
  clock,   \* time since the limiter was built
  grants,  \* calls of acquire that returned
  volume   \* bytes they were called with

bucketVars == <<tokens, bytes, idle>>
limiterVars == <<limit, tokens, bytes, idle, want, asleep, clock, grants, volume>>

Least(a, b) == IF a <= b THEN a ELSE b

Limits == [max_per_sec : Nat \cup {None}, max_bytes_per_sec : Nat \cup {None}]

HasTokens == limit.max_per_sec # None
HasBytes  == limit.max_bytes_per_sec # None

LimiterTypeOK ==
  /\ limit \in Limits
  /\ tokens \in Int /\ bytes \in Int /\ idle \in Nat
  /\ want \in Sizes \cup {None}
  /\ asleep \in BOOLEAN
  /\ clock \in Nat /\ grants \in Nat /\ volume \in Nat

(* from_spec: both buckets start full. *)
from_spec(l) ==
  /\ limit = l
  /\ tokens = IF l.max_per_sec = None THEN 0 ELSE l.max_per_sec * Second
  /\ bytes = IF l.max_bytes_per_sec = None THEN 0
                                           ELSE l.max_bytes_per_sec * Second
  /\ idle = 0
  /\ want = None
  /\ asleep = FALSE
  /\ clock = 0
  /\ grants = 0
  /\ volume = 0

-----------------------------------------------------------------------------
(* Fault: every refill fills the bucket.                                   *)
refillFull(level, rate) == rate * Second

(* Bucket::refill for one bucket. *)
refill(level, rate) == Least(level + idle * rate, rate * Second)

Tokens == IF HasTokens THEN refill(tokens, limit.max_per_sec) ELSE tokens
Bytes  == IF HasBytes THEN refill(bytes, limit.max_bytes_per_sec) ELSE bytes

TokenOk == HasTokens => Tokens >= Second
ByteOk  == HasBytes => Bytes >= want * Second

(* The call returns: both buckets are debited under the lock. *)
Grant ==
  /\ tokens' = IF HasTokens THEN Tokens - Second ELSE tokens
  /\ bytes' = IF HasBytes THEN Bytes - want * Second ELSE bytes
  /\ idle' = 0
  /\ want' = None
  /\ asleep' = FALSE
  /\ grants' = grants + 1
  /\ volume' = volume + want

(* The call goes on: only the refill has happened. *)
Postpone(sleep) ==
  /\ tokens' = Tokens
  /\ bytes' = Bytes
  /\ idle' = 0
  /\ asleep' = sleep
  /\ UNCHANGED <<want, grants, volume>>

Acquire(n) ==
  /\ want = None
  /\ n \in Sizes
  /\ want' = n
  /\ UNCHANGED <<limit, bucketVars, asleep, clock, grants, volume>>

(* The loop of acquire, first critical section: debit or compute a wait. *)
Check ==
  /\ want # None
  /\ ~asleep
  /\ IF TokenOk /\ ByteOk THEN Grant ELSE Postpone(TRUE)
  /\ UNCHANGED <<limit, clock>>

(* Fault: an entry above the bucket's size is treated like any other.      *)
WakeAgain ==
  /\ asleep
  /\ idle > 0
  /\ Postpone(FALSE)
  /\ UNCHANGED <<limit, clock>>

(* Second critical section, after a sleep of at least a millisecond: an    *)
(* entry larger than the bucket is let through as soon as the bucket is    *)
(* positive and a token is there; any other goes back to the loop.         *)
Wake ==
  /\ asleep
  /\ idle > 0
  /\ IF HasBytes /\ want > limit.max_bytes_per_sec /\ Bytes > 0 /\ TokenOk
     THEN Grant
     ELSE Postpone(FALSE)
  /\ UNCHANGED <<limit, clock>>

Tick ==
  /\ clock' = Least(clock + 1, MaxClock)
  /\ idle' = Least(idle + 1, MaxIdle)
  /\ UNCHANGED <<limit, tokens, bytes, want, asleep, grants, volume>>

LimiterStep == Check \/ Wake

LimiterNext == (\E n \in Sizes : Acquire(n)) \/ LimiterStep \/ Tick

LimiterInit == \E l \in Limits : from_spec(l)

LimiterSpec == LimiterInit /\ [][LimiterNext]_limiterVars

-----------------------------------------------------------------------------
(* Over any time since the start of a run no more actions were let through *)
(* than the rate allows plus one second's burst, and no more bytes than    *)
(* that plus the one entry that may overdraw the bucket: "Over a           *)
(* multi-second horizon the averages hold" (ratelimit.rs).                 *)
RateHolds ==
  clock < MaxClock =>
    /\ HasTokens => grants * Second <= limit.max_per_sec * (clock + Second)
    /\ HasBytes => \E n \in Sizes \cup {0} :
         (volume - n) * Second <= limit.max_bytes_per_sec * (clock + Second)
=============================================================================
