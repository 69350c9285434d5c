---------------------------- MODULE PolicyProofs ----------------------------
(***************************************************************************)
(* What every policy run keeps, for every catalog, policy, rate and number *)
(* of workers: the averages of the rate limiter (RateHolds, for any caller *)
(* of the limiter and inside a run), the completion barrier                *)
(* (CompletionBarrier), the caps (CapsHold) and the counts (CountsAddUp).  *)
(*                                                                         *)
(* Rates.  RateHolds is not inductive: it says nothing of what the buckets *)
(* hold.  What was granted, what is in a bucket and what the bucket is due *)
(* since its last refill never exceed together what has flowed in          *)
(* (Ledger); and a bucket is never below zero, or, for bytes, below minus  *)
(* one entry.                                                              *)
(*                                                                         *)
(* Barrier.  The invariant adds what the dispatch loop keeps: an entry     *)
(* waiting in the queue is there once and has no worker yet, so that       *)
(* spawning never replaces a worker whose action is running; and a permit  *)
(* is taken before a worker is spawned, so that the busy workers are       *)
(* bounded.                                                                *)
(*                                                                         *)
(* Caps and counts.  Each candidate is spawned, skipped or in the queue,   *)
(* and what was spent is the sum of what was spawned; the lemmas on sums   *)
(* are proved by least counterexample.                                     *)
(***************************************************************************)
EXTENDS PolicyRun, FiniteSetTheorems, WellFoundedInduction, TLAPS

(* What a bucket of rate r has handed out, holds and is due, against what  *)
(* it was filled with.                                                     *)
Ledger(out, level, r) ==
  clock < MaxClock => out * Second + level + r * idle <= r * (clock + Second)

TokenLedger ==
  HasTokens => Ledger(grants, tokens, limit.max_per_sec) /\ tokens >= 0

ByteLedger ==
  HasBytes => /\ Ledger(volume, bytes, limit.max_bytes_per_sec)
              /\ \E n \in Sizes \cup {0} : bytes + n * Second >= 0

(* The inductive invariant of the limiter. *)
LimiterInv == LimiterTypeOK /\ TokenLedger /\ ByteLedger

-----------------------------------------------------------------------------
(* Refilling a bucket moves at most what it is due into it (Bucket::refill *)
(* in ratelimit.rs), and never lowers it below what it was or below zero.  *)
LEMMA RefillBounds ==
  ASSUME NEW level \in Int, NEW r \in Nat, idle \in Nat
  PROVE  /\ refill(level, r) \in Int
         /\ refill(level, r) <= level + r * idle
         /\ refill(level, r) >= level \/ refill(level, r) >= 0
  <1>1. Second \in Nat
    BY RateAssumption, Zenon
  <1>2. r * Second \in Nat /\ idle * r \in Nat /\ idle * r = r * idle
    BY <1>1
  <1>3. QED
    BY <1>2 DEF refill, Least

(* A refill keeps the ledger. *)
LEMMA RefillLedger ==
  ASSUME NEW out \in Nat, NEW level \in Int, NEW r \in Nat, NEW new \in Int,
         idle \in Nat, clock \in Nat, MaxClock \in Nat,
         Ledger(out, level, r), new <= level + r * idle
  PROVE  clock < MaxClock => out * Second + new + r * 0 <= r * (clock + Second)
  <1>1. Second \in Nat
    BY RateAssumption, Zenon
  <1>2. r * 0 = 0 /\ r * idle \in Nat /\ out * Second \in Nat /\ r * (clock + Second) \in Nat
    BY <1>1
  <1>3. QED
    BY <1>2 DEF Ledger

(* Time that passes adds no more to what is due than to what flowed in.    *)
LEMMA TickLedger ==
  ASSUME NEW out \in Nat, NEW level \in Int, NEW r \in Nat,
         idle \in Nat, clock \in Nat, MaxClock \in Nat,
         NEW idle2 \in Nat, NEW clock2 \in Nat, idle2 <= idle + 1,
         clock2 < MaxClock => clock2 = clock + 1 /\ clock < MaxClock,
         Ledger(out, level, r)
  PROVE  clock2 < MaxClock => out * Second + level + r * idle2 <= r * (clock2 + Second)
  <1> SUFFICES ASSUME clock2 < MaxClock
               PROVE  out * Second + level + r * idle2 <= r * (clock2 + Second)
    BY Zenon
  <1>1. Second \in Nat
    BY RateAssumption, Zenon
  <1>2. r * idle2 <= r * (idle + 1)
    <2>1. PICK d \in Nat : idle + 1 = idle2 + d
      <3>1. idle + 1 - idle2 \in Nat /\ idle + 1 = idle2 + (idle + 1 - idle2)
        OBVIOUS
      <3>2. QED
        BY <3>1, Zenon
    <2>2. r * (idle2 + d) = r * idle2 + r * d /\ r * d \in Nat /\ r * idle2 \in Nat
      OBVIOUS
    <2>3. QED
      BY <2>1, <2>2
  <1>3. r * (idle + 1) = r * idle + r
    OBVIOUS
  <1>4. r * (clock + 1 + Second) = r * (clock + Second) + r
    BY <1>1
  <1>5. out * Second \in Nat /\ r * idle \in Nat /\ r * idle2 \in Nat /\ r * (clock + Second) \in Nat
    BY <1>1
  <1>6. out * Second + level + r * idle <= r * (clock + Second)
    BY Zenon DEF Ledger
  <1>7. clock2 + Second = clock + 1 + Second
    BY <1>1, Zenon
  <1>8. QED
    BY <1>2, <1>3, <1>4, <1>5, <1>6, <1>7

-----------------------------------------------------------------------------
(* Both buckets start full and nothing was granted. *)
LEMMA LimiterStarts ==
  ASSUME NEW l \in Limits, from_spec(l)
  PROVE  LimiterInv
  <1>1. Second \in Nat /\ Sizes \subseteq Nat
    BY RateAssumption, Zenon
  <1>2. LimiterTypeOK
    <2>1. l.max_per_sec # None => l.max_per_sec * Second \in Int
      BY <1>1 DEF Limits
    <2>2. l.max_bytes_per_sec # None => l.max_bytes_per_sec * Second \in Int
      BY <1>1 DEF Limits
    <2>3. tokens \in Int /\ bytes \in Int
      BY <2>1, <2>2 DEF from_spec
    <2>4. QED
      BY <2>3, Zenon DEF from_spec, LimiterTypeOK
  <1>3. TokenLedger
    <2> SUFFICES ASSUME HasTokens
                 PROVE  Ledger(grants, tokens, limit.max_per_sec) /\ tokens >= 0
      BY Zenon DEF TokenLedger
    <2> DEFINE r == l.max_per_sec
    <2>1. r \in Nat /\ tokens = r * Second /\ idle = 0 /\ clock = 0 /\ grants = 0 /\ limit = l
      BY Zenon DEF HasTokens, from_spec, Limits
    <2>2. r * Second \in Nat /\ r * 0 = 0 /\ 0 * Second = 0 /\ r * (0 + Second) = r * Second
      BY <1>1, <2>1
    <2>3. QED
      BY <2>1, <2>2 DEF Ledger
  <1>4. ByteLedger
    <2> SUFFICES ASSUME HasBytes
                 PROVE  /\ Ledger(volume, bytes, limit.max_bytes_per_sec)
                        /\ \E n \in Sizes \cup {0} : bytes + n * Second >= 0
      BY Zenon DEF ByteLedger
    <2> DEFINE r == l.max_bytes_per_sec
    <2>1. r \in Nat /\ bytes = r * Second /\ idle = 0 /\ clock = 0 /\ volume = 0 /\ limit = l
      BY Zenon DEF HasBytes, from_spec, Limits
    <2>2. r * Second \in Nat /\ r * 0 = 0 /\ 0 * Second = 0 /\ r * (0 + Second) = r * Second
      BY <1>1, <2>1
    <2>3. Ledger(volume, bytes, limit.max_bytes_per_sec)
      BY <2>1, <2>2 DEF Ledger
    <2>4. bytes + 0 * Second >= 0
      BY <2>1, <2>2
    <2>5. QED
      BY <2>3, <2>4, Zenon
  <1>5. QED
    BY <1>2, <1>3, <1>4, Zenon DEF LimiterInv

(* A grant takes one action and one entry from what the buckets hold after *)
(* a refill; a token was there, and for bytes either the entry fitted or   *)
(* the bucket was positive (the two critical sections of acquire).         *)
LEMMA GrantKeeps ==
  ASSUME LimiterInv, want # None, Grant, UNCHANGED <<limit, clock>>, TokenOk,
         HasBytes => Bytes >= 0
  PROVE  LimiterInv'
  <1>1. /\ Second \in Nat /\ MaxClock \in Nat /\ Sizes \subseteq Nat /\ Second > 0
        /\ want \in Sizes /\ want \in Nat
        /\ limit \in Limits /\ tokens \in Int /\ bytes \in Int /\ idle \in Nat
        /\ clock \in Nat /\ grants \in Nat /\ volume \in Nat
    BY RateAssumption DEF LimiterInv, LimiterTypeOK
  <1>2. HasTokens => /\ limit.max_per_sec \in Nat
                     /\ Tokens \in Int
                     /\ Tokens <= tokens + limit.max_per_sec * idle
    BY <1>1, RefillBounds, Zenon DEF HasTokens, Limits, Tokens
  <1>3. HasBytes => /\ limit.max_bytes_per_sec \in Nat
                    /\ Bytes \in Int
                    /\ Bytes <= bytes + limit.max_bytes_per_sec * idle
    BY <1>1, RefillBounds, Zenon DEF HasBytes, Limits, Bytes
  <1>4. want * Second \in Nat
    BY <1>1
  <1>5. LimiterTypeOK'
    <2>1. tokens' \in Int
      BY <1>1, <1>2 DEF Grant
    <2>2. bytes' \in Int
      BY <1>1, <1>3, <1>4 DEF Grant
    <2>3. grants' \in Nat /\ volume' \in Nat
      BY <1>1 DEF Grant
    <2>4. QED
      BY <1>1, <2>1, <2>2, <2>3, Zenon DEF Grant, LimiterTypeOK
  <1>6. TokenLedger'
    <2> SUFFICES ASSUME HasTokens'
                 PROVE  Ledger(grants, tokens, limit.max_per_sec)' /\ tokens' >= 0
      BY Zenon DEF TokenLedger
    <2> DEFINE r == limit.max_per_sec
    <2>1. HasTokens /\ r \in Nat /\ r' = r
      BY <1>2, Zenon DEF HasTokens
    <2>2. Ledger(grants, tokens, r)
      BY <2>1, Zenon DEF LimiterInv, TokenLedger
    <2>3. clock < MaxClock => grants * Second + Tokens + r * 0 <= r * (clock + Second)
      BY <1>1, <1>2, <2>1, <2>2, RefillLedger, Zenon
    <2>4. grants' * Second = grants * Second + Second
      BY <1>1 DEF Grant
    <2>5. tokens' = Tokens - Second /\ Tokens >= Second
      BY <2>1, Zenon DEF Grant, TokenOk
    <2>6. grants * Second \in Nat /\ r * 0 \in Int /\ r * (clock + Second) \in Nat
      BY <1>1, <2>1
    <2>7. clock < MaxClock => grants' * Second + tokens' + r * 0 <= r * (clock + Second)
      BY <1>1, <1>2, <2>1, <2>3, <2>4, <2>5, <2>6
    <2>8. Ledger(grants, tokens, limit.max_per_sec)'
      BY <2>1, <2>7, Zenon DEF Ledger, Grant
    <2>9. QED
      BY <1>1, <1>2, <2>1, <2>5, <2>8
  <1>7. ByteLedger'
    <2> SUFFICES ASSUME HasBytes'
                 PROVE  /\ Ledger(volume, bytes, limit.max_bytes_per_sec)'
                        /\ \E n \in Sizes \cup {0} : bytes' + n * Second >= 0
      BY Zenon DEF ByteLedger
    <2> DEFINE r == limit.max_bytes_per_sec
    <2>1. HasBytes /\ r \in Nat /\ r' = r
      BY <1>3, Zenon DEF HasBytes
    <2>2. Ledger(volume, bytes, r)
      BY <2>1, Zenon DEF LimiterInv, ByteLedger
    <2>3. clock < MaxClock => volume * Second + Bytes + r * 0 <= r * (clock + Second)
      BY <1>1, <1>3, <2>1, <2>2, RefillLedger, Zenon
    <2>4. volume' * Second = volume * Second + want * Second
      BY <1>1 DEF Grant
    <2>5. bytes' = Bytes - want * Second
      BY <2>1, Zenon DEF Grant
    <2>6. volume * Second \in Nat /\ r * 0 \in Int /\ r * (clock + Second) \in Nat
      BY <1>1, <2>1
    <2>7. clock < MaxClock => volume' * Second + bytes' + r * 0 <= r * (clock + Second)
      BY <1>1, <1>3, <1>4, <2>1, <2>3, <2>4, <2>5, <2>6
    <2>8. Ledger(volume, bytes, limit.max_bytes_per_sec)'
      BY <2>1, <2>7, Zenon DEF Ledger, Grant
    <2>9. bytes' + want * Second >= 0
      BY <1>3, <1>4, <2>1, <2>5
    <2>10. QED
      BY <1>1, <2>8, <2>9, Zenon
  <1>8. QED
    BY <1>5, <1>6, <1>7, Zenon DEF LimiterInv

(* A call that goes on has only refilled the buckets. *)
LEMMA PostponeKeeps ==
  ASSUME LimiterInv, NEW sleep \in BOOLEAN, Postpone(sleep), UNCHANGED <<limit, clock>>
  PROVE  LimiterInv'
  <1>1. /\ Second \in Nat /\ MaxClock \in Nat /\ Sizes \subseteq Nat
        /\ want \in Sizes \cup {None} /\ limit \in Limits
        /\ tokens \in Int /\ bytes \in Int /\ idle \in Nat
        /\ clock \in Nat /\ grants \in Nat /\ volume \in Nat
    BY RateAssumption, Zenon DEF LimiterInv, LimiterTypeOK
  <1>2. HasTokens => /\ limit.max_per_sec \in Nat
                     /\ Tokens \in Int
                     /\ Tokens <= tokens + limit.max_per_sec * idle
                     /\ Tokens >= tokens \/ Tokens >= 0
    BY <1>1, RefillBounds, Zenon DEF HasTokens, Limits, Tokens
  <1>3. HasBytes => /\ limit.max_bytes_per_sec \in Nat
                    /\ Bytes \in Int
                    /\ Bytes <= bytes + limit.max_bytes_per_sec * idle
                    /\ Bytes >= bytes \/ Bytes >= 0
    BY <1>1, RefillBounds, Zenon DEF HasBytes, Limits, Bytes
  <1>4. LimiterTypeOK'
    <2>1. Tokens \in Int
      BY <1>1, <1>2, Zenon DEF Tokens
    <2>2. Bytes \in Int
      BY <1>1, <1>3, Zenon DEF Bytes
    <2>3. QED
      BY <1>1, <2>1, <2>2, Zenon DEF Postpone, LimiterTypeOK
  <1>5. TokenLedger'
    <2> SUFFICES ASSUME HasTokens'
                 PROVE  Ledger(grants, tokens, limit.max_per_sec)' /\ tokens' >= 0
      BY Zenon DEF TokenLedger
    <2> DEFINE r == limit.max_per_sec
    <2>1. HasTokens /\ r \in Nat /\ r' = r
      BY <1>2, Zenon DEF HasTokens
    <2>2. Ledger(grants, tokens, r) /\ tokens >= 0
      BY <2>1, Zenon DEF LimiterInv, TokenLedger
    <2>3. clock < MaxClock => grants * Second + Tokens + r * 0 <= r * (clock + Second)
      BY <1>1, <1>2, <2>1, <2>2, RefillLedger, Zenon
    <2>4. Ledger(grants, tokens, limit.max_per_sec)'
      BY <2>1, <2>3, Zenon DEF Ledger, Postpone
    <2>5. tokens' >= 0
      BY <1>1, <1>2, <2>1, <2>2 DEF Postpone
    <2>6. QED
      BY <2>4, <2>5, Zenon
  <1>6. ByteLedger'
    <2> SUFFICES ASSUME HasBytes'
                 PROVE  /\ Ledger(volume, bytes, limit.max_bytes_per_sec)'
                        /\ \E n \in Sizes \cup {0} : bytes' + n * Second >= 0
      BY Zenon DEF ByteLedger
    <2> DEFINE r == limit.max_bytes_per_sec
    <2>1. HasBytes /\ r \in Nat /\ r' = r
      BY <1>3, Zenon DEF HasBytes
    <2>2. Ledger(volume, bytes, r)
      BY <2>1, Zenon DEF LimiterInv, ByteLedger
    <2>3. PICK n \in Sizes \cup {0} : bytes + n * Second >= 0
      BY <2>1, Zenon DEF LimiterInv, ByteLedger
    <2>4. clock < MaxClock => volume * Second + Bytes + r * 0 <= r * (clock + Second)
      BY <1>1, <1>3, <2>1, <2>2, RefillLedger, Zenon
    <2>5. Ledger(volume, bytes, limit.max_bytes_per_sec)'
      BY <2>1, <2>4, Zenon DEF Ledger, Postpone
    <2>6. n * Second \in Nat
      BY <1>1
    <2>7. bytes' + n * Second >= 0
      BY <1>1, <1>3, <2>1, <2>3, <2>6 DEF Postpone
    <2>8. QED
      BY <2>5, <2>7, Zenon
  <1>7. QED
    BY <1>4, <1>5, <1>6, Zenon DEF LimiterInv

(* Time passes. *)
LEMMA TickKeeps ==
  ASSUME LimiterInv, Tick
  PROVE  LimiterInv'
  <1>1. /\ Second \in Nat /\ MaxClock \in Nat /\ MaxIdle \in Nat /\ limit \in Limits
        /\ tokens \in Int /\ bytes \in Int /\ idle \in Nat
        /\ clock \in Nat /\ grants \in Nat /\ volume \in Nat
    BY RateAssumption, Zenon DEF LimiterInv, LimiterTypeOK
  <1>2. /\ idle' \in Nat /\ clock' \in Nat /\ idle' <= idle + 1
        /\ clock' < MaxClock => clock' = clock + 1 /\ clock < MaxClock
    BY <1>1 DEF Tick, Least
  <1>3. UNCHANGED <<limit, tokens, bytes, want, asleep, grants, volume>>
    BY Zenon DEF Tick
  <1>4. LimiterTypeOK'
    BY <1>2, <1>3, Zenon DEF LimiterInv, LimiterTypeOK
  <1>5. TokenLedger'
    <2> SUFFICES ASSUME HasTokens
                 PROVE  Ledger(grants, tokens, limit.max_per_sec)' /\ tokens' >= 0
      BY <1>3, Zenon DEF TokenLedger, HasTokens
    <2> DEFINE r == limit.max_per_sec
    <2>1. r \in Nat /\ Ledger(grants, tokens, r) /\ tokens >= 0
      BY <1>1, Zenon DEF HasTokens, Limits, LimiterInv, TokenLedger
    <2>2. clock' < MaxClock => grants * Second + tokens + r * idle' <= r * (clock' + Second)
      BY <1>1, <1>2, <2>1, TickLedger, Zenon
    <2>3. QED
      BY <1>3, <2>1, <2>2, Zenon DEF Ledger
  <1>6. ByteLedger'
    <2> SUFFICES ASSUME HasBytes
                 PROVE  /\ Ledger(volume, bytes, limit.max_bytes_per_sec)'
                        /\ \E n \in Sizes \cup {0} : bytes' + n * Second >= 0
      BY <1>3, Zenon DEF ByteLedger, HasBytes
    <2> DEFINE r == limit.max_bytes_per_sec
    <2>1. r \in Nat /\ Ledger(volume, bytes, r)
      BY <1>1, Zenon DEF HasBytes, Limits, LimiterInv, ByteLedger
    <2>2. clock' < MaxClock => volume * Second + bytes + r * idle' <= r * (clock' + Second)
      BY <1>1, <1>2, <2>1, TickLedger, ZenonT(30)
    <2>3. Ledger(volume, bytes, limit.max_bytes_per_sec)'
      BY <1>3, <2>1, <2>2, Zenon DEF Ledger
    <2>4. \E n \in Sizes \cup {0} : bytes' + n * Second >= 0
      BY <1>3, Zenon DEF LimiterInv, ByteLedger
    <2>5. QED
      BY <2>3, <2>4, Zenon
  <1>7. QED
    BY <1>4, <1>5, <1>6, Zenon DEF LimiterInv

(* A step of acquire, of time, or none. *)
LEMMA LimiterKeeps ==
  ASSUME LimiterInv,
         \/ \E n \in Sizes : Acquire(n)
         \/ LimiterStep
         \/ Tick
         \/ UNCHANGED limiterVars
  PROVE  LimiterInv'
  <1>1. CASE \E n \in Sizes : Acquire(n)
    <2>1. PICK n \in Sizes : Acquire(n)
      BY <1>1, Zenon
    <2>2. QED
      BY <2>1, Zenon DEF Acquire, bucketVars, LimiterInv, LimiterTypeOK, TokenLedger, ByteLedger, Ledger,
                  HasTokens, HasBytes
  <1>2. CASE Check
    <2>1. UNCHANGED <<limit, clock>> /\ want # None
      BY <1>2, Zenon DEF Check
    <2>2. CASE TokenOk /\ ByteOk
      <3>1. Grant
        BY <1>2, <2>2, Zenon DEF Check
      <3>2. HasBytes => Bytes >= 0
        <4>1. SUFFICES ASSUME HasBytes PROVE Bytes >= 0
          BY Zenon
        <4>2. want \in Nat /\ Second \in Nat /\ Bytes \in Int /\ Bytes >= want * Second
          BY <2>1, <2>2, <4>1, RateAssumption, RefillBounds, Zenon
             DEF LimiterInv, LimiterTypeOK, ByteOk, Bytes, HasBytes, Limits
        <4>3. want * Second \in Nat
          BY <4>2
        <4>4. QED
          BY <4>2, <4>3
      <3>3. QED
        BY <2>1, <2>2, <3>1, <3>2, GrantKeeps, Zenon
    <2>3. CASE ~(TokenOk /\ ByteOk)
      BY <1>2, <2>1, <2>3, PostponeKeeps, Zenon DEF Check
    <2>4. QED
      BY <2>2, <2>3, Zenon
  <1>3. CASE Wake
    <2>1. UNCHANGED <<limit, clock>>
      BY <1>3, Zenon DEF Wake
    <2>2. CASE Postpone(FALSE)
      BY <2>1, <2>2, PostponeKeeps, Zenon
    <2>3. CASE HasBytes /\ want > limit.max_bytes_per_sec /\ Bytes > 0 /\ TokenOk /\ Grant
      <3>1. want # None
        BY <2>3 DEF HasBytes, None, Limits, LimiterInv, LimiterTypeOK
      <3>2. Bytes >= 0
        <4>1. Bytes \in Int
          BY <2>3, RefillBounds, Zenon DEF LimiterInv, LimiterTypeOK, Bytes, HasBytes, Limits
        <4>2. QED
          BY <2>3, <4>1
      <3>3. QED
        BY <2>1, <2>3, <3>1, <3>2, GrantKeeps, Zenon
    <2>4. QED
      BY <1>3, <2>2, <2>3, Zenon DEF Wake
  <1>4. CASE Tick
    BY <1>4, TickKeeps, Zenon
  <1>5. CASE UNCHANGED limiterVars
    BY <1>5, Zenon DEF limiterVars, LimiterInv, LimiterTypeOK, TokenLedger, ByteLedger, Ledger,
                HasTokens, HasBytes
  <1>6. QED
    BY <1>1, <1>2, <1>3, <1>4, <1>5, Zenon DEF LimiterStep

(* What the buckets hold bounds what was granted. *)
LEMMA LimiterRate ==
  ASSUME LimiterInv
  PROVE  RateHolds
  <1>1. /\ Second \in Nat /\ Sizes \subseteq Nat /\ limit \in Limits
        /\ tokens \in Int /\ bytes \in Int /\ idle \in Nat
        /\ clock \in Nat /\ grants \in Nat /\ volume \in Nat
    BY RateAssumption, Zenon DEF LimiterInv, LimiterTypeOK
  <1> SUFFICES ASSUME clock < MaxClock
               PROVE  /\ HasTokens => grants * Second <= limit.max_per_sec * (clock + Second)
                      /\ HasBytes => \E n \in Sizes \cup {0} :
                           (volume - n) * Second <= limit.max_bytes_per_sec * (clock + Second)
    BY Zenon DEF RateHolds
  <1>2. ASSUME HasTokens
        PROVE  grants * Second <= limit.max_per_sec * (clock + Second)
    <2> DEFINE r == limit.max_per_sec
    <2>1. r \in Nat /\ tokens >= 0 /\ grants * Second + tokens + r * idle <= r * (clock + Second)
      BY <1>1, <1>2, Zenon DEF HasTokens, Limits, LimiterInv, TokenLedger, Ledger
    <2>2. grants * Second \in Nat /\ r * idle \in Nat /\ r * (clock + Second) \in Nat
      BY <1>1, <2>1
    <2>3. QED
      BY <1>1, <2>1, <2>2
  <1>3. ASSUME HasBytes
        PROVE  \E n \in Sizes \cup {0} :
                 (volume - n) * Second <= limit.max_bytes_per_sec * (clock + Second)
    <2> DEFINE r == limit.max_bytes_per_sec
    <2>1. r \in Nat /\ volume * Second + bytes + r * idle <= r * (clock + Second)
      BY <1>1, <1>3, Zenon DEF HasBytes, Limits, LimiterInv, ByteLedger, Ledger
    <2>2. PICK n \in Sizes \cup {0} : bytes + n * Second >= 0
      BY <1>3, Zenon DEF LimiterInv, ByteLedger
    <2>3. n \in Nat
      BY <1>1
    <2>4. (volume - n) * Second = volume * Second - n * Second
      BY <1>1, <2>3
    <2>5. volume * Second \in Nat /\ n * Second \in Nat /\ r * idle \in Nat
          /\ r * (clock + Second) \in Nat
      BY <1>1, <2>1, <2>3
    <2>6. (volume - n) * Second <= r * (clock + Second)
      BY <1>1, <2>1, <2>2, <2>4, <2>5
    <2>7. QED
      BY <2>6, Zenon
  <1>4. QED
    BY <1>2, <1>3, Zenon

-----------------------------------------------------------------------------
(* Whoever calls acquire, one call at a time, the averages hold            *)
(* (RateLimiter::acquire in ratelimit.rs).                                 *)
THEOREM LimiterKeepsRate == LimiterSpec => []RateHolds
  <1>1. LimiterInit => LimiterInv
    BY LimiterStarts, Zenon DEF LimiterInit
  <1>2. LimiterInv /\ [LimiterNext]_limiterVars => LimiterInv'
    BY LimiterKeeps, Zenon DEF LimiterNext
  <1>3. LimiterInv => RateHolds
    BY LimiterRate, Zenon
  <1>4. QED
    BY <1>1, <1>2, <1>3, PTL DEF LimiterSpec

(* In a policy run the limiter is stepped only by the dispatcher, between  *)
(* Acquire and the gate it opens (dispatch loops of task.rs).              *)
LEMMA RunLimiter ==
  /\ Init => LimiterInv
  /\ LimiterInv /\ [Next]_vars => LimiterInv'
  <1>1. Init => LimiterInv
    <2> SUFFICES ASSUME Init PROVE LimiterInv
      BY Zenon
    <2>1. policy.rate \in Limits /\ from_spec(policy.rate)
      BY PolicyAssumption, Zenon DEF Init
    <2>2. QED
      BY <2>1, LimiterStarts, Zenon
  <1>2. LimiterInv /\ [Next]_vars => LimiterInv'
    <2> SUFFICES ASSUME LimiterInv, [Next]_vars PROVE LimiterInv'
      BY Zenon
    <2>1. CASE Limit
      <3>1. \/ UNCHANGED limiterVars
            \/ \E n \in Sizes : Acquire(n)
            \/ LimiterStep
        BY <2>1, Zenon DEF Limit, Acquire
      <3>2. QED
        BY <3>1, LimiterKeeps, Zenon
    <2>2. CASE Time
      BY <2>2, LimiterKeeps, Zenon DEF Time
    <2>3. CASE UNCHANGED limiterVars
      BY <2>3, LimiterKeeps, Zenon
    <2>4. Begin \/ Query \/ QueryFails \/ Dispatch \/ Permit \/ Join \/ Cancel \/ Done
            => UNCHANGED limiterVars
      BY Zenon DEF Begin, Query, QueryFails, Dispatch, Permit, Join, Cancel, Done, vars
    <2>5. ASSUME NEW e \in Ids, Worker(e) \/ StrayEnds(e)
          PROVE  UNCHANGED limiterVars
      BY <2>5, Zenon DEF Worker, StrayEnds, Start, Try, Finish, TimedOut, Backoff, workerFrame
    <2>6. UNCHANGED vars => UNCHANGED limiterVars
      BY Zenon DEF vars
    <2>7. QED
      BY <2>1, <2>2, <2>3, <2>4, <2>5, <2>6, Zenon DEF Next
  <1>3. QED
    BY <1>1, <1>2, Zenon

(* No worker, retry, timeout or cancellation of a policy run lets more     *)
(* through than the averages (dispatch loops of task.rs).                  *)
THEOREM RunKeepsRate == Spec => []RateHolds
  <1>1. LimiterInv => RateHolds
    BY LimiterRate, Zenon
  <1>2. QED
    BY <1>1, RunLimiter, PTL DEF Spec

-----------------------------------------------------------------------------
(* The completion barrier                                                  *)

Busy == {e \in Ids : worker[e] \in Active}

(* Types of the variables the barrier depends on. *)
BarrierTypes ==
  /\ policy \in Policies
  /\ worker \in [Ids -> Active \cup Final \cup {"none"}]
  /\ running \in [Ids -> Int]
  /\ unrecorded \subseteq Ids
  /\ queue \in Seq(Ids)

(* What waits in the queue waits there once, and has no worker. *)
Waiting ==
  /\ \A i, j \in 1..Len(queue) : queue[i] = queue[j] => i = j
  /\ \A i \in 1..Len(queue) : worker[queue[i]] = "none"

Phases ==
  /\ pc \in {"begin", "query"} => \A e \in Ids : worker[e] = "none"
  /\ pc = "end" => \A e \in Ids : worker[e] \notin Active
  /\ pc \in {"limit", "permit"} => queue # <<>>

Exact == Backend => \A e \in Ids \ unrecorded : running[e] = Awaited(e)
Bounded == Backend => Cardinality(Busy) <= Concurrency

(* The inductive invariant. *)
BarrierInv == BarrierTypes /\ Waiting /\ Phases /\ Exact /\ Bounded

-----------------------------------------------------------------------------
(* The busy workers are finitely many. *)
LEMMA BusyFinite ==
  /\ IsFiniteSet(Busy)
  /\ Cardinality(Busy) \in Nat
  <1>1. IsFiniteSet(Ids) /\ Busy \subseteq Ids
    BY PolicyAssumption, Zenon DEF Ids, Busy
  <1>2. IsFiniteSet(Busy)
    BY <1>1, FS_Subset, Zenon
  <1>3. QED
    BY <1>2, FS_CardinalityType, Zenon

(* Everything but the first element of a queue without repetitions. *)
LEMMA TailWaits ==
  ASSUME NEW q \in Seq(Ids), q # <<>>,
         \A i, j \in 1..Len(q) : q[i] = q[j] => i = j
  PROVE  /\ Tail(q) \in Seq(Ids)
         /\ \A i, j \in 1..Len(Tail(q)) : Tail(q)[i] = Tail(q)[j] => i = j
         /\ \A i \in 1..Len(Tail(q)) : i + 1 \in 1..Len(q) /\ Tail(q)[i] = q[i + 1] /\ Tail(q)[i] # Head(q)
         /\ Head(q) \in Ids
  <1>1. /\ Len(q) \in Nat /\ Len(q) > 0 /\ Len(Tail(q)) = Len(q) - 1
        /\ Tail(q) \in Seq(Ids) /\ Head(q) = q[1] /\ q[1] \in Ids
    OBVIOUS
  <1>2. \A i \in 1..Len(Tail(q)) : i + 1 \in 1..Len(q) /\ Tail(q)[i] = q[i + 1]
    BY <1>1
  <1>3. \A i \in 1..Len(Tail(q)) : Tail(q)[i] # Head(q)
    <2> TAKE i \in 1..Len(Tail(q))
    <2>1. i + 1 \in 1..Len(q) /\ 1 \in 1..Len(q) /\ i + 1 # 1
      BY <1>1, <1>2
    <2>2. q[i + 1] # q[1]
      BY <2>1, Zenon
    <2>3. QED
      BY <1>1, <1>2, <2>2, Zenon
  <1>4. \A i, j \in 1..Len(Tail(q)) : Tail(q)[i] = Tail(q)[j] => i = j
    <2> TAKE i, j \in 1..Len(Tail(q))
    <2>1. HAVE Tail(q)[i] = Tail(q)[j]
    <2>2. i + 1 \in 1..Len(q) /\ j + 1 \in 1..Len(q) /\ q[i + 1] = q[j + 1]
      BY <1>2, <2>1, Zenon
    <2>3. i + 1 = j + 1
      BY <2>2, Zenon
    <2>4. QED
      BY <1>1, <2>3
  <1>5. QED
    BY <1>1, <1>2, <1>3, <1>4, Zenon

(* The pages of the query: sequences of distinct entries. *)
LEMMA CandidatesAreDistinct ==
  ASSUME policy \in Policies, NEW s \in Candidates
  PROVE  s \in Seq(Ids) /\ \A i, j \in 1..Len(s) : s[i] = s[j] => i = j
  <1> DEFINE M == {e \in Ids : Selected(Rows[e])}
             n == Least(policy.max_count, Cardinality(M))
  <1>1. IsFiniteSet(M)
    BY PolicyAssumption, FS_Subset, Zenon DEF Ids
  <1>2. n \in Nat
    BY <1>1, FS_CardinalityType, PolicyAssumption, Zenon DEF Least
  <1>3. s \in [1..n -> M] /\ IsInjective(s)
    BY Zenon DEF Candidates
  <1> HIDE DEF n, M
  <1>4. M \subseteq Ids
    BY Zenon DEF M
  <1>5. s \in [1..n -> Ids]
    BY <1>3, <1>4, Zenon
  <1>6. s \in Seq(Ids) /\ Len(s) = n
    BY <1>2, <1>5
  <1>7. QED
    BY <1>3, <1>6, Zenon DEF IsInjective

-----------------------------------------------------------------------------
(* No worker has begun. *)
LEMMA BarrierStarts == Init => BarrierInv
  <1> SUFFICES ASSUME Init PROVE BarrierInv
    BY Zenon
  <1>1. BarrierTypes /\ Waiting /\ Phases
    BY DEF Init, BarrierTypes, Waiting, Phases, Active
  <1>2. Exact
    BY Zenon DEF Init, Exact, Awaited
  <1>3. Busy = {}
    BY Zenon DEF Init, Busy, Active
  <1>4. Bounded
    BY <1>3, FS_EmptySet, PolicyAssumption DEF Bounded, Concurrency, Init
  <1>5. QED
    BY <1>1, <1>2, <1>4, Zenon DEF BarrierInv

(* Steps of the run that touch no worker and no queue. *)
LEMMA QuietKeeps ==
  ASSUME BarrierInv,
         UNCHANGED <<policy, queue, worker, running, unrecorded>>,
         Phases'
  PROVE  BarrierInv'
  <1>1. Busy' = Busy /\ Backend' = Backend /\ Concurrency' = Concurrency
    BY Zenon DEF Busy, Backend, Concurrency
  <1>2. \A e : Awaited(e)' = Awaited(e)
    BY Zenon DEF Awaited
  <1>3. BarrierTypes' /\ Waiting'
    BY Zenon DEF BarrierInv, BarrierTypes, Waiting
  <1>4. Exact' /\ Bounded'
    BY <1>1, <1>2, Zenon DEF BarrierInv, Exact, Bounded
  <1>5. QED
    BY <1>3, <1>4, Zenon DEF BarrierInv

(* A worker goes from one active state to another or ends, and what is     *)
(* running for it follows.                                                 *)
LEMMA WorkerKeeps ==
  ASSUME BarrierInv, NEW e \in Ids, NEW w \in Active \cup Final,
         worker[e] \in Active,
         worker' = [worker EXCEPT ![e] = w],
         NEW k \in Int, running' = [running EXCEPT ![e] = k],
         unrecorded' \in {unrecorded, unrecorded \cup {e}},
         Backend /\ e \notin unrecorded' => k = IF w \in {"exec", "late"} THEN 1 ELSE 0,
         UNCHANGED <<policy, pc, queue>>
  PROVE  BarrierInv'
  <1>0. /\ policy \in Policies
        /\ worker \in [Ids -> Active \cup Final \cup {"none"}]
        /\ running \in [Ids -> Int] /\ unrecorded \subseteq Ids /\ queue \in Seq(Ids)
    BY Zenon DEF BarrierInv, BarrierTypes
  <1>1. BarrierTypes'
    BY <1>0, Zenon DEF BarrierTypes
  <1>2. \A i \in 1..Len(queue) : queue[i] \in Ids /\ worker[queue[i]] = "none"
    BY <1>0 DEF BarrierInv, Waiting
  <1>3. \A i \in 1..Len(queue) : queue[i] # e
    BY <1>2, Zenon DEF Active
  <1>4. Waiting'
    <2>1. \A i, j \in 1..Len(queue) : queue[i] = queue[j] => i = j
      BY Zenon DEF BarrierInv, Waiting
    <2>2. \A i \in 1..Len(queue) : worker'[queue[i]] = "none"
      BY <1>0, <1>2, <1>3, Zenon
    <2>3. QED
      BY <2>1, <2>2, Zenon DEF Waiting
  <1>5. Phases'
    <2>1. pc \notin {"begin", "query", "end"}
      BY Zenon DEF BarrierInv, Phases, Active
    <2>2. QED
      BY <2>1, Zenon DEF BarrierInv, Phases
  <1>6. Exact'
    <2> SUFFICES ASSUME Backend', NEW x \in Ids, x \notin unrecorded'
                 PROVE  running'[x] = Awaited(x)'
      BY Zenon DEF Exact
    <2>1. Backend
      BY Zenon DEF Backend
    <2>2. CASE x = e
      BY <1>0, <2>1, <2>2, Zenon DEF Awaited
    <2>3. CASE x # e
      <3>1. running[x] = Awaited(x)
        BY <2>1, Zenon DEF BarrierInv, Exact
      <3>2. QED
        BY <1>0, <2>3, <3>1, Zenon DEF Awaited
    <2>4. QED
      BY <2>2, <2>3, Zenon
  <1>7. Bounded'
    <2> SUFFICES ASSUME Backend PROVE Cardinality(Busy') <= Concurrency
      BY Zenon DEF Bounded, Backend, Concurrency
    <2>1. Busy' \subseteq Busy
      BY <1>0, Zenon DEF Busy
    <2>2. Cardinality(Busy') <= Cardinality(Busy) /\ Cardinality(Busy') \in Nat
      BY <2>1, BusyFinite, FS_Subset, FS_CardinalityType, Zenon
    <2>3. Cardinality(Busy) <= Concurrency /\ Concurrency \in Nat
      BY <1>0, PolicyAssumption, Zenon DEF BarrierInv, Bounded, Concurrency
    <2>4. QED
      BY <2>2, <2>3, BusyFinite
  <1>8. QED
    BY <1>1, <1>4, <1>5, <1>6, <1>7, Zenon DEF BarrierInv

(* The entry at the head of the queue leaves it: skipped, or given a new   *)
(* worker, for which the backend path holds a permit.                      *)
LEMMA HeadLeaves ==
  ASSUME BarrierInv, queue # <<>>, queue' = Tail(queue), pc' = "dispatch",
         UNCHANGED <<policy, running, unrecorded>>,
         \/ UNCHANGED worker
         \/ /\ worker' = [worker EXCEPT ![Head1] = IF Backend THEN "try" ELSE "start"]
            /\ Backend => Cardinality(Busy) < Concurrency
  PROVE  BarrierInv'
  <1>0. /\ policy \in Policies
        /\ worker \in [Ids -> Active \cup Final \cup {"none"}]
        /\ running \in [Ids -> Int] /\ unrecorded \subseteq Ids /\ queue \in Seq(Ids)
        /\ \A i, j \in 1..Len(queue) : queue[i] = queue[j] => i = j
        /\ \A i \in 1..Len(queue) : worker[queue[i]] = "none"
    BY Zenon DEF BarrierInv, BarrierTypes, Waiting
  <1>1. /\ Tail(queue) \in Seq(Ids)
        /\ \A i, j \in 1..Len(Tail(queue)) : Tail(queue)[i] = Tail(queue)[j] => i = j
        /\ \A i \in 1..Len(Tail(queue)) :
             i + 1 \in 1..Len(queue) /\ Tail(queue)[i] = queue[i + 1] /\ Tail(queue)[i] # Head1
        /\ Head1 \in Ids
    BY <1>0, TailWaits, Zenon DEF Head1
  <1>2. worker[Head1] = "none"
    <2>1. 1 \in 1..Len(queue) /\ Head1 = queue[1]
      BY <1>0 DEF Head1
    <2>2. QED
      BY <1>0, <2>1, Zenon
  <1>3. worker' \in [Ids -> Active \cup Final \cup {"none"}]
    BY <1>0, Zenon DEF Active
  <1>4. \A x \in Ids : x # Head1 => worker'[x] = worker[x]
    BY <1>0, Zenon
  <1>5. BarrierTypes'
    BY <1>0, <1>1, <1>3, Zenon DEF BarrierTypes
  <1>6. Waiting'
    <2>1. \A i \in 1..Len(Tail(queue)) : worker'[Tail(queue)[i]] = "none"
      <3> TAKE i \in 1..Len(Tail(queue))
      <3>1. i + 1 \in 1..Len(queue) /\ Tail(queue)[i] = queue[i + 1] /\ queue[i + 1] # Head1
        BY <1>1, Zenon
      <3>2. queue[i + 1] \in Ids /\ worker[queue[i + 1]] = "none"
        BY <1>0, <3>1
      <3>3. QED
        BY <1>4, <3>1, <3>2, Zenon
    <2>2. QED
      BY <1>1, <2>1, Zenon DEF Waiting
  <1>7. Phases'
    BY Zenon DEF Phases
  <1>8. Exact'
    <2> SUFFICES ASSUME Backend', NEW x \in Ids, x \notin unrecorded
                 PROVE  running[x] = Awaited(x)'
      BY Zenon DEF Exact
    <2>1. running[x] = Awaited(x)
      BY Zenon DEF BarrierInv, Exact, Backend
    <2>2. CASE x # Head1
      BY <1>4, <2>1, <2>2, Zenon DEF Awaited
    <2>3. CASE x = Head1
      <3>1. running[x] = 0
        BY <1>2, <2>1, <2>3, Zenon DEF Awaited
      <3>2. worker'[x] \in {"none", "try", "start"}
        BY <1>0, <1>1, <1>2, <2>3, Zenon
      <3>3. QED
        BY <3>1, <3>2, Zenon DEF Awaited
    <2>4. QED
      BY <2>2, <2>3, Zenon
  <1>9. Bounded'
    <2> SUFFICES ASSUME Backend PROVE Cardinality(Busy') <= Concurrency
      BY Zenon DEF Bounded, Backend, Concurrency
    <2>1. Concurrency \in Nat /\ Cardinality(Busy) <= Concurrency
      BY <1>0, PolicyAssumption, Zenon DEF BarrierInv, Bounded, Concurrency
    <2>2. CASE UNCHANGED worker
      <3>1. Busy' = Busy
        BY <2>2, Zenon DEF Busy
      <3>2. QED
        BY <2>1, <3>1, Zenon
    <2>3. CASE /\ worker' = [worker EXCEPT ![Head1] = "try"]
               /\ Cardinality(Busy) < Concurrency
      <3>1. Busy' = Busy \cup {Head1}
        BY <1>0, <1>1, <2>3 DEF Busy, Active
      <3>2. Head1 \notin Busy
        BY <1>2, Zenon DEF Busy, Active
      <3>3. Cardinality(Busy') = Cardinality(Busy) + 1
        BY <3>1, <3>2, BusyFinite, FS_AddElement, Zenon
      <3>4. QED
        BY <2>1, <2>3, <3>3, BusyFinite
    <2>4. QED
      BY <2>2, <2>3, Zenon
  <1>10. QED
    BY <1>5, <1>6, <1>7, <1>8, <1>9, Zenon DEF BarrierInv

-----------------------------------------------------------------------------
(* The actions of the run itself. *)
LEMMA RunStepKeeps ==
  ASSUME BarrierInv,
         Begin \/ QueryFails \/ Join \/ Cancel \/ Time \/ Done \/ UNCHANGED vars
  PROVE  BarrierInv'
  <1>1. UNCHANGED <<policy, queue, worker, running, unrecorded>>
    BY Zenon DEF Begin, QueryFails, Join, Cancel, Time, Done, vars, runVars
  <1>2. Phases'
    <2>1. CASE Begin
      BY <2>1, Zenon DEF Begin, End, BarrierInv, Phases, Active
    <2>2. CASE QueryFails
      BY <2>2, Zenon DEF QueryFails, End, BarrierInv, Phases, Active
    <2>3. CASE Join
      BY <2>3, Zenon DEF Join, End, Phases
    <2>4. CASE Cancel \/ Time \/ Done \/ UNCHANGED vars
      BY <2>4, Zenon DEF Cancel, Time, Done, vars, runVars, BarrierInv, Phases
    <2>5. QED
      BY <2>1, <2>2, <2>3, <2>4, Zenon
  <1>3. QED
    BY <1>1, <1>2, QuietKeeps, Zenon

(* The query fills the queue with distinct candidates (PolicyRunTask::run). *)
LEMMA QueryKeeps ==
  ASSUME BarrierInv, Query
  PROVE  BarrierInv'
  <1>0. /\ UNCHANGED <<policy, worker, running, unrecorded>>
        /\ pc = "query" /\ cands' \in Candidates
        /\ \/ pc' = "end" /\ UNCHANGED queue
           \/ pc' = "dispatch" /\ queue' = cands'
    BY Zenon DEF Query, End
  <1>1. \A e \in Ids : worker[e] = "none"
    BY <1>0, Zenon DEF BarrierInv, Phases
  <1>2. Phases'
    BY <1>0, <1>1, Zenon DEF Phases, Active
  <1>3. CASE UNCHANGED queue
    BY <1>0, <1>2, <1>3, QuietKeeps, Zenon
  <1>4. CASE queue' = cands'
    <2>1. policy \in Policies
      BY Zenon DEF BarrierInv, BarrierTypes
    <2>2. queue' \in Seq(Ids) /\ \A i, j \in 1..Len(queue') : queue'[i] = queue'[j] => i = j
      BY <1>0, <1>4, <2>1, CandidatesAreDistinct, Zenon
    <2>3. BarrierTypes'
      BY <1>0, <2>2, Zenon DEF BarrierInv, BarrierTypes
    <2>4. Waiting'
      <3>1. \A i \in 1..Len(queue') : worker'[queue'[i]] = "none"
        BY <1>0, <1>1, <2>2
      <3>2. QED
        BY <2>2, <3>1, Zenon DEF Waiting
    <2>5. Busy' = Busy /\ Backend' = Backend /\ Concurrency' = Concurrency
      BY <1>0, Zenon DEF Busy, Backend, Concurrency
    <2>6. \A e : Awaited(e)' = Awaited(e)
      BY <1>0, Zenon DEF Awaited
    <2>7. Exact' /\ Bounded'
      BY <1>0, <2>5, <2>6, Zenon DEF BarrierInv, Exact, Bounded
    <2>8. QED
      BY <1>2, <2>3, <2>4, <2>7, Zenon DEF BarrierInv
  <1>5. QED
    BY <1>0, <1>3, <1>4, Zenon

(* Taking the next candidate keeps the invariant (dispatch_backend_action). *)
LEMMA DispatchKeeps ==
  ASSUME BarrierInv, Dispatch
  PROVE  BarrierInv'
  <1>0. UNCHANGED <<policy, worker, running, unrecorded>> /\ pc = "dispatch"
    BY Zenon DEF Dispatch
  <1>1. CASE queue # <<>> /\ queue' = Tail(queue) /\ UNCHANGED pc
    BY <1>0, <1>1, HeadLeaves, Zenon
  <1>2. CASE UNCHANGED queue /\ (pc' = "join" \/ (queue # <<>> /\ pc' = Gates[1]))
    <2>1. pc' \in {"join", "limit", "permit"} /\ (pc' # "join" => queue # <<>>)
      BY <1>2, Zenon DEF Gates
    <2>2. Phases'
      BY <1>2, <2>1, Zenon DEF Phases
    <2>3. QED
      BY <1>0, <1>2, <2>2, QuietKeeps, Zenon
  <1>3. QED
    BY <1>1, <1>2, Zenon DEF Dispatch

(* Passing a gate: only the second one spawns, and on the backend path     *)
(* that is the semaphore.                                                  *)
LEMMA PassKeeps ==
  ASSUME BarrierInv, NEW gate \in {"limit", "permit"}, pc = gate, Pass(gate),
         UNCHANGED <<policy, running, unrecorded>>,
         Backend /\ gate = "permit" => Cardinality(Busy) < Concurrency
  PROVE  BarrierInv'
  <1>0. queue # <<>>
    BY Zenon DEF BarrierInv, Phases
  <1>1. CASE gate = Gates[1]
    <2>1. pc' \in {"limit", "permit"} /\ UNCHANGED <<queue, worker>>
      BY <1>1, Zenon DEF Pass, Gates
    <2>2. Phases'
      BY <1>0, <2>1, Zenon DEF Phases
    <2>3. QED
      BY <2>1, <2>2, QuietKeeps, Zenon
  <1>2. CASE gate # Gates[1]
    <2>1. Backend => gate = "permit"
      BY <1>2, Zenon DEF Gates
    <2>2. /\ pc' = "dispatch" /\ queue' = Tail(queue)
          /\ worker' = [worker EXCEPT ![Head1] = IF Backend THEN "try" ELSE "start"]
      BY <1>2, Zenon DEF Pass
    <2>3. QED
      BY <1>0, <2>1, <2>2, HeadLeaves, Zenon
  <1>3. QED
    BY <1>1, <1>2, Zenon

(* Waiting for the limiter keeps the invariant (RateLimiter::acquire). *)
LEMMA LimitKeeps ==
  ASSUME BarrierInv, Limit
  PROVE  BarrierInv'
  <1>0. pc = "limit" /\ UNCHANGED <<policy, running, unrecorded>>
    BY Zenon DEF Limit
  <1>1. CASE Pass("limit")
    BY <1>0, <1>1, PassKeeps, Zenon
  <1>2. CASE UNCHANGED <<pc, queue, worker>>
    <2>1. Phases'
      BY <1>2, Zenon DEF BarrierInv, Phases
    <2>2. QED
      BY <1>0, <1>2, <2>1, QuietKeeps, Zenon
  <1>3. QED
    BY <1>1, <1>2, Zenon DEF Limit

(* A worker is spawned only with a permit (the semaphore of the dispatch loops). *)
LEMMA PermitKeeps ==
  ASSUME BarrierInv, Permit
  PROVE  BarrierInv'
  <1>1. /\ pc = "permit" /\ Pass("permit") /\ UNCHANGED <<policy, running, unrecorded>>
        /\ Cardinality(Busy) < Concurrency
    BY Zenon DEF Permit, Busy
  <1>2. QED
    BY <1>1, PassKeeps, Zenon

(* The actions of a worker. *)
LEMMA WorkerStepKeeps ==
  ASSUME BarrierInv, NEW e \in Ids, Worker(e)
  PROVE  BarrierInv'
  <1>0. /\ worker \in [Ids -> Active \cup Final \cup {"none"}]
        /\ running \in [Ids -> Int] /\ unrecorded \subseteq Ids
        /\ Backend /\ e \notin unrecorded => running[e] = Awaited(e)
    BY Zenon DEF BarrierInv, BarrierTypes, Exact
  <1>1. \A k \in Int : k = running[e] => running = [running EXCEPT ![e] = k]
    BY <1>0, Zenon
  <1>2. running[e] \in Int
    BY <1>0, Zenon
  <1>3. CASE Start(e) \/ Backoff(e)
    <2>1. PICK w \in {"skipped", "try"} : worker' = [worker EXCEPT ![e] = w]
      BY <1>3, Zenon DEF Start, Backoff, Becomes
    <2>2. /\ worker[e] \in {"start", "backoff"} /\ UNCHANGED <<running, unrecorded, policy, pc, queue>>
          /\ w \in Active \cup Final /\ w \notin {"exec", "late"}
      BY <1>3, Zenon DEF Start, Backoff, workerFrame, Active, Final
    <2>3. Backend /\ e \notin unrecorded => running[e] = 0
      BY <1>0, <2>2, Zenon DEF Awaited
    <2>4. QED
      BY <1>1, <1>2, <2>1, <2>2, <2>3, WorkerKeeps, Zenon DEF Active
  <1>4. CASE Try(e)
    <2>1. worker[e] = "try" /\ UNCHANGED <<unrecorded, policy, pc, queue>>
      BY <1>4, Zenon DEF Try, workerFrame
    <2>2. Backend /\ e \notin unrecorded => running[e] = 0
      BY <1>0, <2>1, Zenon DEF Awaited
    <2>3. CASE cancelled
      <3>1. PICK w \in {"skipped", "failed"} : worker' = [worker EXCEPT ![e] = w]
        BY <1>4, <2>3, Zenon DEF Try, Becomes
      <3>2. UNCHANGED running
        BY <1>4, <2>3, Zenon DEF Try
      <3>3. QED
        BY <1>1, <1>2, <2>1, <2>2, <3>1, <3>2, WorkerKeeps, Zenon DEF Active, Final
    <2>4. CASE ~cancelled
      <3>1. /\ worker' = [worker EXCEPT ![e] = "exec"]
            /\ running' = [running EXCEPT ![e] = running[e] + 1]
        BY <1>4, <2>4, Zenon DEF Try, Becomes
      <3>2. running[e] + 1 \in Int /\ (Backend /\ e \notin unrecorded => running[e] + 1 = 1)
        BY <1>2, <2>2
      <3>3. QED
        BY <2>1, <3>1, <3>2, WorkerKeeps, Zenon DEF Active
    <2>5. QED
      BY <2>3, <2>4, Zenon
  <1>5. ASSUME NEW r \in {"success", "skipped", "fatal", "retry"}
        PROVE  After(e, r) \in (Active \cup Final) \ {"exec", "late"}
    BY <1>5, Zenon DEF After, Active, Final
  <1>6. Results \subseteq {"success", "skipped", "fatal", "retry"}
    BY Zenon DEF Results
  <1>7. ASSUME NEW r \in Results, Finish(e, r)
        PROVE  BarrierInv'
    <2>1. /\ worker[e] \in {"exec", "late"} /\ UNCHANGED <<unrecorded, policy, pc, queue>>
          /\ worker' = [worker EXCEPT ![e] = After(e, r)]
          /\ running' = [running EXCEPT ![e] = running[e] - 1]
      BY <1>7, Zenon DEF Finish, Becomes, workerFrame
    <2>2. After(e, r) \in (Active \cup Final) \ {"exec", "late"}
      BY <1>5, <1>6, Zenon
    <2>3. Backend /\ e \notin unrecorded => running[e] = 1
      BY <1>0, <2>1, Zenon DEF Awaited
    <2>4. running[e] - 1 \in Int /\ (Backend /\ e \notin unrecorded => running[e] - 1 = 0)
      BY <1>2, <2>3
    <2>5. QED
      BY <2>1, <2>2, <2>4, WorkerKeeps, Zenon DEF Active
  <1>8. CASE TimedOut(e)
    <2>1. worker[e] = "exec" /\ UNCHANGED <<policy, pc, queue>>
      BY <1>8, Zenon DEF TimedOut, workerFrame
    <2>2. Backend /\ e \notin unrecorded => running[e] = 1
      BY <1>0, <2>1, Zenon DEF Awaited
    <2>3. After(e, "retry") \in (Active \cup Final) \ {"exec", "late"}
      BY <1>5, Zenon
    <2>4. CASE worker' = [worker EXCEPT ![e] = "late"] /\ UNCHANGED <<running, unrecorded>>
      BY <1>1, <1>2, <2>1, <2>2, <2>4, WorkerKeeps, Zenon DEF Active
    <2>5. CASE /\ worker' = [worker EXCEPT ![e] = After(e, "retry")] /\ UNCHANGED running
               /\ unrecorded' = unrecorded \cup {e}
      <3>1. e \in unrecorded'
        BY <2>5, Zenon
      <3>2. QED
        BY <1>1, <1>2, <2>1, <2>3, <2>5, <3>1, WorkerKeeps, Zenon DEF Active
    <2>6. CASE /\ ~Backend /\ worker' = [worker EXCEPT ![e] = After(e, "retry")]
               /\ running' \in {running, [running EXCEPT ![e] = running[e] - 1]}
               /\ UNCHANGED unrecorded
      <3>1. PICK k \in Int : running' = [running EXCEPT ![e] = k]
        <4>1. running[e] - 1 \in Int
          BY <1>2
        <4>2. QED
          BY <1>1, <1>2, <2>6, <4>1, Zenon
      <3>2. QED
        BY <2>1, <2>3, <2>6, <3>1, WorkerKeeps, Zenon DEF Active
    <2>7. QED
      BY <1>8, <2>4, <2>5, <2>6, Zenon DEF TimedOut, Becomes
  <1>9. QED
    BY <1>3, <1>4, <1>7, <1>8, Zenon DEF Worker

(* An execution nobody waits for can only end for an entry outside the     *)
(* barrier.                                                                *)
LEMMA StrayKeeps ==
  ASSUME BarrierInv, NEW e \in Ids, StrayEnds(e)
  PROVE  BarrierInv'
  <1>0. /\ running \in [Ids -> Int] /\ running[e] > Awaited(e)
        /\ running' = [running EXCEPT ![e] = running[e] - 1]
        /\ UNCHANGED <<policy, pc, queue, worker, unrecorded>>
    BY Zenon DEF BarrierInv, BarrierTypes, StrayEnds, workerFrame
  <1>1. Awaited(e) \in Int /\ running[e] \in Int /\ running[e] - 1 \in Int
    BY <1>0 DEF Awaited
  <1>2. running[e] # Awaited(e)
    BY <1>0, <1>1
  <1>3. Busy' = Busy /\ Backend' = Backend /\ Concurrency' = Concurrency
    BY <1>0, Zenon DEF Busy, Backend, Concurrency
  <1>4. \A x : Awaited(x)' = Awaited(x)
    BY <1>0, Zenon DEF Awaited
  <1>5. BarrierTypes' /\ Waiting' /\ Phases'
    BY <1>0, <1>1, Zenon DEF BarrierInv, BarrierTypes, Waiting, Phases
  <1>6. Bounded'
    BY <1>3, Zenon DEF BarrierInv, Bounded
  <1>7. Exact'
    <2> SUFFICES ASSUME Backend, NEW x \in Ids \ unrecorded
                 PROVE  running'[x] = Awaited(x)
      BY <1>0, <1>3, <1>4, Zenon DEF Exact
    <2>1. running[x] = Awaited(x)
      BY Zenon DEF BarrierInv, Exact
    <2>2. x # e
      BY <1>2, <2>1, Zenon
    <2>3. QED
      BY <1>0, <2>1, <2>2, Zenon
  <1>8. QED
    BY <1>5, <1>6, <1>7, Zenon DEF BarrierInv

(* The invariant is the barrier: what runs is awaited by a busy worker, and *)
(* when the run is over no worker is busy.                                  *)
LEMMA BarrierImplies ==
  ASSUME BarrierInv
  PROVE  CompletionBarrier
  <1> SUFFICES ASSUME Backend
               PROVE  /\ \A e \in Ids \ unrecorded : running[e] = Awaited(e)
                      /\ pc = "end" => \A e \in Ids \ unrecorded : running[e] = 0
                      /\ Cardinality({e \in Ids \ unrecorded : running[e] > 0}) <= Concurrency
    BY Zenon DEF CompletionBarrier
  <1>1. \A e \in Ids \ unrecorded : running[e] = Awaited(e)
    BY Zenon DEF BarrierInv, Exact
  <1>2. pc = "end" => \A e \in Ids \ unrecorded : running[e] = 0
    BY <1>1, Zenon DEF BarrierInv, Phases, Awaited, Active
  <1> DEFINE R == {e \in Ids \ unrecorded : running[e] > 0}
  <1>3. R \subseteq Busy
    <2>1. \A e \in R : Awaited(e) > 0
      BY <1>1, Zenon
    <2>2. QED
      BY <2>1 DEF Awaited, Busy, Active
  <1>4. Cardinality(R) <= Cardinality(Busy) /\ Cardinality(R) \in Nat
    BY <1>3, BusyFinite, FS_Subset, FS_CardinalityType, Zenon
  <1>5. Cardinality(Busy) <= Concurrency /\ Concurrency \in Nat
    BY PolicyAssumption, Zenon DEF BarrierInv, BarrierTypes, Bounded, Concurrency
  <1>6. Cardinality(R) <= Concurrency
    BY <1>4, <1>5, BusyFinite
  <1>7. QED
    BY <1>1, <1>2, <1>6, Zenon

(* Every step of a run keeps the invariant. *)
LEMMA BarrierStep ==
  BarrierInv /\ [Next]_vars => BarrierInv'
  <1> SUFFICES ASSUME BarrierInv, [Next]_vars PROVE BarrierInv'
    BY Zenon
  <1>1. CASE Begin \/ QueryFails \/ Join \/ Cancel \/ Time \/ Done \/ UNCHANGED vars
    BY <1>1, RunStepKeeps, Zenon
  <1>2. CASE Query
    BY <1>2, QueryKeeps, Zenon
  <1>3. CASE Dispatch
    BY <1>3, DispatchKeeps, Zenon
  <1>4. CASE Limit
    BY <1>4, LimitKeeps, Zenon
  <1>5. CASE Permit
    BY <1>5, PermitKeeps, Zenon
  <1>6. CASE \E e \in Ids : Worker(e) \/ StrayEnds(e)
    BY <1>6, WorkerStepKeeps, StrayKeeps, Zenon
  <1>7. QED
    BY <1>1, <1>2, <1>3, <1>4, <1>5, <1>6, Zenon DEF Next

(* On the backend path no two executions of one entry's action overlap, at *)
(* most nb_threads actions run at once and none outlives the run, unless   *)
(* its timeout could not be recorded: for every catalog, policy and order  *)
(* of timeouts, retries and cancellations                                  *)
(* (execute_backend_action_with_completion_barrier in task.rs).            *)
THEOREM BarrierHolds == Spec => []CompletionBarrier
  <1>1. BarrierInv => CompletionBarrier
    BY BarrierImplies, Zenon
  <1>2. QED
    BY <1>1, BarrierStarts, BarrierStep, PTL DEF Spec

-----------------------------------------------------------------------------
(* The caps and the counts                                                 *)
(*                                                                         *)
(* Neither CapsHold nor CountsAddUp is inductive.  What they rest on is    *)
(* that each candidate is in exactly one place: spawned, skipped or in the *)
(* queue (Balance), that what was spent is the size of the spawned entries *)
(* and of the one at a gate (Volume), and that a worker which may begin    *)
(* one more attempt has one left (Tries).                                  *)

Spawned == {e \in Ids : worker[e] # "none"}
AtGate  == IF pc \in {"limit", "permit"} THEN {Head1} ELSE {}

RunTypes ==
  /\ pc \in {"begin", "query", "dispatch", "permit", "limit", "join", "end"}
  /\ cands \in Seq(Ids)
  /\ spent \in Nat /\ skips \in Nat
  /\ attempt \in [Ids -> Nat] /\ running \in [Ids -> Nat]
  /\ \A e \in Ids : running[e] >= Awaited(e)
  /\ cancelled \in BOOLEAN
  /\ outcome \in {"none", "cancelled", "error", "misconfigured", "empty",
                  "success", "partial", "failed"}
  /\ outcome # "none" <=> pc = "end"

(* Before the dispatch nothing is queued, skipped or spawned. *)
Early == pc \in {"begin", "query"} => queue = <<>> /\ cands = <<>> /\ skips = 0

Balance ==
  /\ outcome # "misconfigured" => Cardinality(Spawned) + skips + Len(queue) = Len(cands)
  /\ outcome = "misconfigured" => Spawned = {}
  /\ Len(cands) <= policy.max_count

Stopped ==
  pc \in {"join", "end"} /\ queue # <<>> => cancelled \/ policy.max_volume # None

Labelled ==
  outcome \in {"empty", "success", "partial", "failed"} =>
    /\ outcome \in {"empty", "success"} <=> With("failed") = 0
    /\ outcome = "empty" <=> cands = <<>>

Volume ==
  /\ SumOf(Spawned \cup AtGate) = spent
  /\ policy.max_volume # None => spent <= policy.max_volume

Single ==
  policy.skip_hardlinked => \A e \in Spawned \cup AtGate : Rows[e].nlink <= 1

Tries ==
  \A e \in Ids :
    /\ attempt[e] <= Attempts
    /\ worker[e] \in {"none", "start"} => attempt[e] = 0
    /\ worker[e] \in {"try", "backoff"} => attempt[e] < Attempts

Counts ==
  /\ RunTypes /\ Early /\ Balance /\ Stopped
  /\ Labelled /\ Volume /\ Single /\ Tries

(* The inductive invariant. *)
CountInv == LimiterInv /\ BarrierInv /\ Counts

-----------------------------------------------------------------------------
(* Sums of sizes.  SumOf folds over a set in an order of its own; what it  *)
(* computes is proved by least counterexamples.                            *)

(* Every set of natural numbers that is not empty has a least element. *)
LEMMA LeastElement ==
  ASSUME NEW T, T \subseteq Nat, T # {}
  PROVE  \E m \in T : \A n \in T : m <= n
  <1> DEFINE less == OpToRel(<, Nat)
  <1>1. \A x, y \in Nat : y < x => <<y, x>> \in less
    BY Zenon DEF OpToRel
  <1>2. IsWellFoundedOn(less, Nat)
    BY NatLessThanWellFounded, Zenon
  <1> HIDE DEF less
  <1>3. PICK x \in T : \A y \in T : ~(<<y, x>> \in less)
    BY <1>2, WFMin, ZenonT(30)
  <1>4. x \in Nat
    BY Zenon
  <1>5. ASSUME NEW n \in T PROVE x <= n
    <2>1. n \in Nat /\ <<n, x>> \notin less
      BY <1>3, Zenon
    <2>2. ~(n < x)
      BY <1>1, <1>4, <2>1, Zenon
    <2>3. QED
      BY <1>4, <2>1, <2>2
  <1>6. QED
    BY <1>5, Zenon

First(s) == CHOOSE e \in s : TRUE

(* g adds the sizes up, on the sets D. *)
Adds(g, D) ==
  g = [s \in D |-> IF s = {} THEN 0 ELSE Rows[First(s)].size + g[s \ {First(s)}]]

(* The subsets of the catalog are finite, and taking an element out makes  *)
(* them smaller by one.                                                    *)
LEMMA SubsetFacts ==
  ASSUME NEW s \in SUBSET Ids
  PROVE  /\ IsFiniteSet(s) /\ Cardinality(s) \in Nat
         /\ Cardinality(s) = 0 <=> s = {}
         /\ \A e \in s : Cardinality(s \ {e}) = Cardinality(s) - 1
         /\ \A e \in Ids \ s : Cardinality(s \cup {e}) = Cardinality(s) + 1
         /\ s # {} => First(s) \in s
         /\ \A e \in s : Rows[e].size \in Nat
  <1>1. IsFiniteSet(s)
    BY PolicyAssumption, FS_Subset, Zenon DEF Ids
  <1>2. QED
    BY <1>1, FS_CardinalityType, FS_EmptySet, FS_RemoveElement, FS_AddElement,
       PolicyAssumption, RateAssumption, Zenon DEF First, Ids

(* There is such a function on all sets of catalog rows. *)
LEMMA SumExists == \E g \in [SUBSET Ids -> Nat] : Adds(g, SUBSET Ids)
  <1> DEFINE Upto(n) == {s \in SUBSET Ids : Cardinality(s) <= n}
             Good(n) == \E g \in [Upto(n) -> Nat] : Adds(g, Upto(n))
             bad     == {n \in Nat : ~Good(n)}
  <1>1. Good(0)
    <2> DEFINE g == [s \in Upto(0) |-> 0]
    <2>1. \A s \in Upto(0) : s = {}
      <3> TAKE s \in Upto(0)
      <3>1. Cardinality(s) = 0
        BY SubsetFacts
      <3>2. QED
        BY <3>1, SubsetFacts, Zenon
    <2>2. Adds(g, Upto(0)) /\ g \in [Upto(0) -> Nat]
      BY <2>1, Zenon DEF Adds
    <2>3. QED
      BY <2>2, Zenon
  <1>2. ASSUME NEW n \in Nat, Good(n) PROVE Good(n + 1)
    <2>1. PICK g \in [Upto(n) -> Nat] : Adds(g, Upto(n))
      BY <1>2, Zenon
    <2> DEFINE add(s) == IF s = {} THEN 0 ELSE Rows[First(s)].size + g[s \ {First(s)}]
               h == [s \in Upto(n + 1) |-> add(s)]
    <2>2. \A s \in Upto(n) : s \in Upto(n + 1) /\ g[s] = add(s)
      <3> TAKE s \in Upto(n)
      <3>1. s \in Upto(n + 1)
        BY SubsetFacts
      <3>2. QED
        BY <2>1, <3>1, Zenon DEF Adds
    <2>3. \A s \in Upto(n + 1) : s # {} => First(s) \in s /\ s \ {First(s)} \in Upto(n)
      <3> SUFFICES ASSUME NEW s \in Upto(n + 1), s # {}
                   PROVE  First(s) \in s /\ s \ {First(s)} \in Upto(n)
        BY Zenon
      <3>1. First(s) \in s /\ Cardinality(s) \in Nat
        BY SubsetFacts, Zenon
      <3>2. Cardinality(s \ {First(s)}) = Cardinality(s) - 1
        BY <3>1, SubsetFacts, Zenon
      <3>3. QED
        BY <3>1, <3>2
    <2>4. \A s \in Upto(n + 1) : add(s) \in Nat
      <3> SUFFICES ASSUME NEW s \in Upto(n + 1), s # {}
                   PROVE  Rows[First(s)].size + g[s \ {First(s)}] \in Nat
        BY Zenon
      <3>1. First(s) \in s /\ s \ {First(s)} \in Upto(n)
        BY <2>3, Zenon
      <3>2. Rows[First(s)].size \in Nat
        BY <3>1, SubsetFacts, Zenon
      <3>3. g[s \ {First(s)}] \in Nat
        BY <3>1, Zenon
      <3>4. QED
        BY <3>2, <3>3
    <2>5. \A s \in Upto(n) : h[s] = g[s]
      BY <2>2, Zenon
    <2> HIDE DEF Upto
    <2>6. h \in [Upto(n + 1) -> Nat]
      BY <2>4, Zenon
    <2>7. \A s \in Upto(n + 1) :
            add(s) = IF s = {} THEN 0 ELSE Rows[First(s)].size + h[s \ {First(s)}]
      BY <2>3, <2>5, Zenon
    <2>8. Adds(h, Upto(n + 1))
      BY <2>7, Zenon DEF Adds
    <2>9. QED
      BY <2>6, <2>8, Zenon
  <1> HIDE DEF Good
  <1>3. bad = {}
    <2> SUFFICES ASSUME bad # {} PROVE FALSE
      BY Zenon
    <2>1. PICK m \in bad : \A n \in bad : m <= n
      BY LeastElement, Zenon
    <2>2. m # 0
      BY <1>1, <2>1, Zenon
    <2>3. m - 1 \in Nat /\ ~(m <= m - 1) /\ (m - 1) + 1 = m
      BY <2>2
    <2>4. m - 1 \notin bad
      BY <2>1, <2>3, Zenon
    <2>5. Good((m - 1) + 1)
      BY <1>2, <2>3, <2>4, Zenon
    <2>6. QED
      BY <2>3, <2>5, Zenon
  <1> DEFINE n == Cardinality(Ids)
  <1>4. n \in Nat /\ Good(n)
    BY <1>3, SubsetFacts, Zenon
  <1>5. Upto(n) = SUBSET Ids
    <2>1. \A s \in SUBSET Ids : Cardinality(s) <= n
      BY PolicyAssumption, FS_Subset, Zenon DEF Ids
    <2>2. QED
      BY <2>1, Zenon
  <1>6. QED
    BY <1>4, <1>5, Zenon DEF Good

(* Two functions that add the sizes up agree on the subsets of a set. *)
LEMMA SumUnique ==
  ASSUME NEW S \in SUBSET Ids, NEW g, NEW h, Adds(g, SUBSET Ids), Adds(h, SUBSET S)
  PROVE  \A s \in SUBSET S : h[s] = g[s]
  <1> DEFINE bad == {s \in SUBSET S : h[s] # g[s]}
             sizes == {Cardinality(s) : s \in bad}
  <1> SUFFICES ASSUME bad # {} PROVE FALSE
    BY Zenon
  <1>1. sizes \subseteq Nat /\ sizes # {}
    BY SubsetFacts
  <1>2. PICK m \in sizes : \A n \in sizes : m <= n
    BY <1>1, LeastElement, Zenon
  <1>3. PICK s \in bad : Cardinality(s) = m
    BY <1>2, Zenon
  <1>4. s \in SUBSET Ids /\ s \in SUBSET S /\ h[s] # g[s]
    BY Zenon
  <1>5. s # {}
    BY <1>4, Zenon DEF Adds
  <1>6. First(s) \in s
    BY <1>4, <1>5, SubsetFacts, Zenon
  <1>7. Cardinality(s \ {First(s)}) = m - 1 /\ m \in Nat
    BY <1>3, <1>4, <1>6, SubsetFacts, Zenon
  <1>8. s \ {First(s)} \notin bad
    <2> SUFFICES ASSUME s \ {First(s)} \in bad PROVE FALSE
      BY Zenon
    <2>1. m - 1 \in sizes
      BY <1>7, Zenon
    <2>2. QED
      BY <1>2, <1>7, <2>1
  <1>9. h[s \ {First(s)}] = g[s \ {First(s)}]
    BY <1>4, <1>8, Zenon
  <1>10. QED
    BY <1>4, <1>5, <1>9, ZenonT(30) DEF Adds

(* SumOf is that function (MapThenSumSet of the library). *)
LEMMA SumIs ==
  \E g \in [SUBSET Ids -> Nat] :
    Adds(g, SUBSET Ids) /\ \A S \in SUBSET Ids : SumOf(S) = g[S]
  <1>1. PICK g \in [SUBSET Ids -> Nat] : Adds(g, SUBSET Ids)
    BY SumExists, Zenon
  <1>2. ASSUME NEW S \in SUBSET Ids PROVE SumOf(S) = g[S]
    <2> DEFINE Sums(h) == h = [s \in SUBSET S |->
                                 IF s = {} THEN 0
                                 ELSE Rows[CHOOSE x \in s : TRUE].size
                                        + h[s \ {CHOOSE x \in s : TRUE}]]
               iter == CHOOSE h : Sums(h)
               part == [s \in SUBSET S |-> g[s]]
    <2>1. SumOf(S) = iter[S]
      BY Zenon DEF SumOf, MapThenSumSet, MapThenFoldSet
    <2>2. \A s \in SUBSET S : s \in SUBSET Ids /\ s \ {First(s)} \in SUBSET S
      BY Zenon
    <2>3. Sums(part)
      <3>1. \A s \in SUBSET S : g[s] = IF s = {} THEN 0 ELSE Rows[First(s)].size + g[s \ {First(s)}]
        BY <1>1, <2>2, Zenon DEF Adds
      <3>2. \A s \in SUBSET S : part[s \ {First(s)}] = g[s \ {First(s)}]
        BY <2>2, Zenon
      <3>3. \A s \in SUBSET S : g[s] = IF s = {} THEN 0 ELSE Rows[First(s)].size + part[s \ {First(s)}]
        BY <3>1, <3>2, Zenon
      <3> HIDE DEF part
      <3>4. part = [s \in SUBSET S |-> IF s = {} THEN 0 ELSE Rows[First(s)].size + part[s \ {First(s)}]]
        <4>1. part = [s \in SUBSET S |-> g[s]]
          BY Zenon DEF part
        <4>. QED
          BY <3>3, <4>1, Zenon
      <3>. QED
        BY <3>4, Zenon DEF First
    <2>4. Sums(iter)
      <3> HIDE DEF Sums
      <3>1. QED
        BY <2>3, Zenon
    <2>5. Adds(iter, SUBSET S)
      BY <2>4, Zenon DEF Adds, First
    <2> HIDE DEF iter
    <2>6. \A s \in SUBSET S : iter[s] = g[s]
      BY <1>1, <2>5, SumUnique, Zenon
    <2>7. QED
      BY <2>1, <2>6, Zenon
  <1>3. QED
    BY <1>1, <1>2, Zenon

(* The sum of a set and one more element, whatever the order of the fold. *)
LEMMA SumAdds ==
  /\ SumOf({}) = 0
  /\ \A S \in SUBSET Ids : SumOf(S) \in Nat
  /\ \A S \in SUBSET Ids : \A e \in Ids \ S : SumOf(S \cup {e}) = SumOf(S) + Rows[e].size
  <1>1. PICK g \in [SUBSET Ids -> Nat] :
          Adds(g, SUBSET Ids) /\ \A S \in SUBSET Ids : SumOf(S) = g[S]
    BY SumIs, Zenon
  <1>2. g[{}] = 0
    BY <1>1, Zenon DEF Adds
  <1> DEFINE Fails(S) == \E e \in Ids \ S : g[S \cup {e}] # g[S] + Rows[e].size
             bad   == {S \in SUBSET Ids : Fails(S)}
             sizes == {Cardinality(S) : S \in bad}
  <1>3. bad = {}
    <2> SUFFICES ASSUME bad # {} PROVE FALSE
      BY Zenon
    <2> HIDE DEF Fails
    <2>1. sizes \subseteq Nat /\ sizes # {}
      BY SubsetFacts
    <2>2. PICK m \in sizes : \A n \in sizes : m <= n
      BY <2>1, LeastElement, Zenon
    <2>3. PICK S \in bad : Cardinality(S) = m
      BY <2>2, Zenon
    <2>4. PICK e \in Ids \ S : g[S \cup {e}] # g[S] + Rows[e].size
      BY Zenon DEF Fails
    <2> DEFINE T == S \cup {e}
               y == First(T)
    <2>5. S \in SUBSET Ids /\ T \in SUBSET Ids /\ T # {} /\ g[T] # g[S] + Rows[e].size
      BY <2>4, Zenon
    <2>6. y \in T
      BY <2>5, SubsetFacts, ZenonT(30)
    <2>7. g[T] = Rows[y].size + g[T \ {y}]
      BY <1>1, <2>5, ZenonT(30) DEF Adds
    <2> HIDE DEF y, T
    <2>8. Rows[y].size \in Nat /\ Rows[e].size \in Nat
      BY <2>5, <2>6, SubsetFacts, Zenon DEF T
    <2>9. CASE y = e
      <3>1. T \ {y} = S
        BY <2>9, Zenon DEF T
      <3>2. g[S] \in Nat
        BY <2>5, Zenon
      <3>3. QED
        BY <2>5, <2>7, <2>8, <2>9, <3>1, <3>2
    <2>10. CASE y # e
      <3> DEFINE R == S \ {y}
      <3>1. y \in S /\ R \in SUBSET Ids /\ y \in Ids \ R /\ e \in Ids \ R
        BY <2>5, <2>6, <2>10, Zenon DEF T
      <3>2. T \ {y} = R \cup {e} /\ R \cup {y} = S
        BY <2>10, <3>1, Zenon DEF T
      <3>3. Cardinality(R) = m - 1 /\ m \in Nat
        BY <2>3, <2>5, <3>1, SubsetFacts, Zenon
      <3>4. R \notin bad
        <4> SUFFICES ASSUME R \in bad PROVE FALSE
          BY Zenon
        <4>1. m - 1 \in sizes
          BY <3>3, Zenon
        <4>2. QED
          BY <2>2, <3>3, <4>1
      <3>5. g[R \cup {e}] = g[R] + Rows[e].size /\ g[R \cup {y}] = g[R] + Rows[y].size
        BY <3>1, <3>4, Zenon DEF Fails
      <3>6. g[R] \in Nat
        BY <3>1, Zenon
      <3>7. g[T] = g[S] + Rows[e].size
        <4>1. g[T] = Rows[y].size + g[R \cup {e}]
          BY <2>7, <3>2, Zenon
        <4>2. g[S] = g[R \cup {y}]
          BY <3>2, Zenon
        <4> HIDE DEF R
        <4>3. QED
          BY <2>8, <3>5, <3>6, <4>1, <4>2
      <3>8. QED
        BY <2>5, <3>7, Zenon
    <2>11. QED
      BY <2>9, <2>10, Zenon
  <1>4. \A S \in SUBSET Ids : SumOf(S) = g[S] /\ g[S] \in Nat
    BY <1>1, Zenon
  <1>5. ASSUME NEW S \in SUBSET Ids, NEW e \in Ids \ S
        PROVE  SumOf(S \cup {e}) = SumOf(S) + Rows[e].size
    <2>1. g[S \cup {e}] = g[S] + Rows[e].size
      BY <1>3, Zenon
    <2>2. S \cup {e} \in SUBSET Ids
      BY Zenon
    <2>3. SumOf(S \cup {e}) = g[S \cup {e}] /\ SumOf(S) = g[S]
      BY <1>4, <2>2, Zenon
    <2>4. QED
      BY <2>1, <2>3, Zenon
  <1>6. QED
    BY <1>2, <1>4, <1>5, Zenon

(* A part never sums up to more than the whole. *)
LEMMA SumGrows ==
  ASSUME NEW S \in SUBSET Ids, NEW T \in SUBSET S
  PROVE  SumOf(T) <= SumOf(S)
  <1> DEFINE bad   == {R \in SUBSET S : T \subseteq R /\ ~(SumOf(T) <= SumOf(R))}
             sizes == {Cardinality(R) : R \in bad}
  <1> SUFFICES ASSUME bad # {} PROVE FALSE
    BY Zenon
  <1>1. sizes \subseteq Nat /\ sizes # {}
    BY SubsetFacts
  <1>2. PICK m \in sizes : \A n \in sizes : m <= n
    BY <1>1, LeastElement, Zenon
  <1>3. PICK R \in bad : Cardinality(R) = m
    BY <1>2, Zenon
  <1>4. R \in SUBSET Ids /\ T \subseteq R /\ ~(SumOf(T) <= SumOf(R))
    BY Zenon
  <1>5. T # R
    BY <1>4, SumAdds
  <1>6. PICK e \in R : e \notin T
    BY <1>4, <1>5, Zenon
  <1> DEFINE Q == R \ {e}
  <1>7. Q \in SUBSET Ids /\ e \in Ids \ Q /\ Q \cup {e} = R /\ T \subseteq Q
    BY <1>4, <1>6, Zenon
  <1>8. Cardinality(Q) = m - 1 /\ m \in Nat
    BY <1>3, <1>4, SubsetFacts, Zenon
  <1>9. Q \notin bad
    <2> SUFFICES ASSUME Q \in bad PROVE FALSE
      BY Zenon
    <2>1. m - 1 \in sizes
      BY <1>8, Zenon
    <2>2. QED
      BY <1>2, <1>8, <2>1
  <1>10. SumOf(T) <= SumOf(Q)
    BY <1>7, <1>9, Zenon
  <1>11. SumOf(R) = SumOf(Q) + Rows[e].size
    BY <1>7, SumAdds, ZenonT(30)
  <1>12. SumOf(T) \in Nat /\ SumOf(Q) \in Nat /\ Rows[e].size \in Nat
    BY <1>4, <1>7, SumAdds, SubsetFacts, Zenon
  <1>13. QED
    BY <1>4, <1>10, <1>11, <1>12

-----------------------------------------------------------------------------
(* The steps of a run                                                      *)

(* What the other parts of the invariant say of the queue and the workers. *)
LEMMA QueueFacts ==
  ASSUME BarrierInv
  PROVE  /\ policy \in Policies /\ queue \in Seq(Ids)
         /\ worker \in [Ids -> Active \cup Final \cup {"none"}]
         /\ Spawned \in SUBSET Ids /\ Cardinality(Spawned) \in Nat
         /\ Len(queue) \in Nat
         /\ pc \in {"limit", "permit"} => queue # <<>>
         /\ queue # <<>> =>
              /\ Head1 \in Ids \ Spawned
              /\ Rows[Head1].size \in Nat /\ Rows[Head1].nlink \in Nat
              /\ Tail(queue) \in Seq(Ids) /\ Len(Tail(queue)) = Len(queue) - 1
         /\ Attempts \in Nat \ {0}
         /\ policy.max_volume \in Nat \cup {None} /\ policy.max_count \in Nat
  <1>1. /\ policy \in Policies /\ queue \in Seq(Ids)
        /\ worker \in [Ids -> Active \cup Final \cup {"none"}]
        /\ pc \in {"limit", "permit"} => queue # <<>>
        /\ Len(queue) \in Nat
    BY DEF BarrierInv, BarrierTypes, Phases
  <1>2. Spawned \in SUBSET Ids /\ Cardinality(Spawned) \in Nat
    BY SubsetFacts, Zenon DEF Spawned
  <1>3. ASSUME queue # <<>>
        PROVE  /\ Head1 \in Ids \ Spawned
               /\ Rows[Head1].size \in Nat /\ Rows[Head1].nlink \in Nat
               /\ Tail(queue) \in Seq(Ids) /\ Len(Tail(queue)) = Len(queue) - 1
    <2>1. 1 \in 1..Len(queue) /\ Head1 = queue[1] /\ queue[1] \in Ids
      BY <1>1, <1>3 DEF Head1
    <2>2. worker[Head1] = "none"
      BY <2>1, Zenon DEF BarrierInv, Waiting
    <2>3. Rows[Head1].size \in Nat /\ Rows[Head1].nlink \in Nat
      BY <2>1, PolicyAssumption, RateAssumption, Zenon DEF Ids
    <2>4. QED
      BY <1>1, <1>3, <2>1, <2>2, <2>3 DEF Spawned
  <1>4. Attempts \in Nat \ {0} /\ policy.max_volume \in Nat \cup {None} /\ policy.max_count \in Nat
    BY <1>1, PolicyAssumption DEF Attempts
  <1>5. QED
    BY <1>1, <1>2, <1>3, <1>4, Zenon

(* No candidate is known and no worker was spawned. *)
LEMMA CountStarts == Init => Counts
  <1> SUFFICES ASSUME Init PROVE Counts
    BY Zenon
  <1>1. Spawned = {} /\ AtGate = {}
    BY Zenon DEF Init, Spawned, AtGate
  <1>2. BarrierInv
    BY BarrierStarts, Zenon
  <1>3. RunTypes /\ Early /\ Stopped /\ Labelled
    <2>1. \A e \in Ids : running[e] = 0 /\ Awaited(e) = 0
      BY Zenon DEF Init, Awaited
    <2>2. RunTypes
      <3>1. cancelled = FALSE /\ cands = <<>>
        BY Zenon DEF Init
      <3>5. cands \in Seq(Ids)
        BY <3>1
      <3>6. cancelled \in BOOLEAN
        BY <3>1, Zenon
      <3>2. attempt \in [Ids -> Nat] /\ running \in [Ids -> Nat]
        BY Zenon DEF Init
      <3>3. \A e \in Ids : running[e] >= Awaited(e)
        BY <2>1
      <3>4. QED
        BY <3>2, <3>3, <3>5, <3>6, Zenon DEF Init, RunTypes
    <2>3. Early /\ Stopped /\ Labelled
      BY Zenon DEF Init, Early, Stopped, Labelled
    <2>4. QED
      BY <2>2, <2>3, Zenon
  <1>4. Balance
    <2>1. Cardinality({}) = 0 /\ Len(<<>>) = 0
      BY FS_EmptySet, Zenon
    <2>2. QED
      BY <1>1, <1>2, <2>1, QueueFacts DEF Init, Balance
  <1>5. Volume
    <2>1. Spawned \cup AtGate = {}
      BY <1>1, Zenon
    <2>2. SumOf(Spawned \cup AtGate) = 0
      BY <2>1, SumAdds, Zenon
    <2>3. policy.max_volume # None => 0 <= policy.max_volume
      BY <1>2, QueueFacts
    <2>4. QED
      BY <2>2, <2>3, Zenon DEF Init, Volume
  <1>6. Single /\ Tries
    BY <1>1, <1>2, QueueFacts DEF Init, Single, Tries
  <1>7. QED
    BY <1>3, <1>4, <1>5, <1>6, Zenon DEF Counts

(* Steps that change neither the candidates nor a worker. *)
LEMMA QuietCounts ==
  ASSUME Counts, BarrierInv,
         UNCHANGED <<policy, queue, cands, spent, skips, worker, attempt>>,
         RunTypes', Early', Stopped', Labelled', AtGate' = AtGate,
         outcome' = "misconfigured" <=> outcome = "misconfigured"
  PROVE  Counts'
  <1>1. Spawned' = Spawned /\ Attempts' = Attempts
    BY Zenon DEF Spawned, Attempts
  <1>2. Balance' /\ Volume' /\ Single' /\ Tries'
    BY <1>1, Zenon DEF Counts, Balance, Volume, Single, Tries
  <1>3. QED
    BY <1>2, Zenon DEF Counts

(* The steps before the query, the cancellation and the passing of time. *)
LEMMA IdleCounts ==
  ASSUME Counts, BarrierInv, Begin \/ QueryFails \/ Cancel \/ Time \/ Done \/ UNCHANGED vars
  PROVE  Counts'
  <1>0. UNCHANGED <<policy, queue, cands, spent, skips, worker, attempt, running>>
    BY Zenon DEF Begin, QueryFails, Cancel, Time, Done, vars, runVars
  <1>1. CASE Begin \/ QueryFails
    <2>1. /\ pc \in {"begin", "query"} /\ pc' \in {"query", "end"} /\ UNCHANGED cancelled
          /\ outcome = "none" /\ outcome' \in {"none", "cancelled", "error"}
          /\ outcome' # "none" <=> pc' = "end"
      BY <1>1, Zenon DEF Begin, QueryFails, End, Counts, RunTypes
    <2>2. queue = <<>> /\ cands = <<>> /\ skips = 0
      BY <2>1, Zenon DEF Counts, Early
    <2>3. RunTypes'
      BY <1>0, <2>1, Zenon DEF Counts, RunTypes, Awaited
    <2>4. Early' /\ Stopped' /\ Labelled' /\ AtGate' = AtGate
      BY <1>0, <2>1, <2>2, Zenon DEF Early, Stopped, Labelled, AtGate
    <2>5. QED
      BY <1>0, <2>1, <2>3, <2>4, QuietCounts, Zenon
  <1>2. CASE Cancel \/ Time \/ Done \/ UNCHANGED vars
    <2>1. UNCHANGED <<pc, outcome>> /\ (cancelled' = cancelled \/ cancelled' = TRUE)
      BY <1>2, Zenon DEF Cancel, Time, Done, vars, runVars
    <2>2. RunTypes'
      BY <1>0, <2>1, Zenon DEF Counts, RunTypes, Awaited
    <2>3. AtGate' = AtGate /\ With("failed")' = With("failed")
      BY <1>0, <2>1, Zenon DEF AtGate, Head1, With
    <2>4. Early' /\ Stopped' /\ Labelled'
      BY <1>0, <2>1, <2>3, Zenon DEF Counts, Early, Stopped, Labelled
    <2>5. QED
      BY <1>0, <2>1, <2>2, <2>3, <2>4, QuietCounts, Zenon
  <1>3. QED
    BY <1>1, <1>2, Zenon

(* The workers with a given result are among the spawned. *)
LEMMA WithFacts ==
  ASSUME NEW w, w # "none"
  PROVE  With(w) \in Nat /\ With(w) <= Cardinality(Spawned)
  <1>1. {e \in Ids : worker[e] = w} \subseteq Spawned /\ Spawned \in SUBSET Ids
    BY Zenon DEF Spawned
  <1>2. QED
    BY <1>1, SubsetFacts, FS_Subset, Zenon DEF With

(* The run is labelled by what its workers returned (finish_run). *)
LEMMA JoinCounts ==
  ASSUME Counts, BarrierInv, Join
  PROVE  Counts'
  <1>0. /\ UNCHANGED <<policy, queue, cands, spent, skips, worker, attempt, running, cancelled>>
        /\ pc = "join" /\ pc' = "end"
        /\ outcome' = Label(Len(cands), With("success"), With("failed"))
    BY Zenon DEF Join, End
  <1>1. outcome = "none" /\ cands \in Seq(Ids) /\ skips \in Nat
    BY <1>0, Zenon DEF Counts, RunTypes
  <1>2. outcome' \in {"empty", "success", "partial", "failed"}
    BY <1>0, Zenon DEF Label
  <1>3. RunTypes'
    BY <1>0, <1>2, Zenon DEF Counts, RunTypes, Awaited
  <1>4. AtGate = {} /\ AtGate' = {} /\ With("failed")' = With("failed")
    BY <1>0, Zenon DEF AtGate, With
  <1>5. Early' /\ Stopped'
    BY <1>0, Zenon DEF Counts, Early, Stopped
  <1>6. Labelled'
    <2>1. Cardinality(Spawned) + skips + Len(queue) = Len(cands)
      BY <1>1, Zenon DEF Counts, Balance
    <2>2. /\ With("failed") \in Nat /\ With("failed") <= Cardinality(Spawned)
          /\ Cardinality(Spawned) \in Nat /\ Len(queue) \in Nat /\ Len(cands) \in Nat
      BY <1>1, WithFacts, QueueFacts
    <2>3. Len(cands) = 0 => With("failed") = 0
      BY <1>1, <2>1, <2>2
    <2>4. Len(cands) = 0 <=> cands = <<>>
      BY <1>1
    <2>5. outcome' \in {"empty", "success"} <=> With("failed") = 0
      BY <1>0, Zenon DEF Label
    <2>6. outcome' = "empty" <=> cands = <<>>
      BY <1>0, <2>3, <2>4, Zenon DEF Label
    <2>7. QED
      BY <1>0, <1>4, <2>5, <2>6, Zenon DEF Labelled
  <1>7. QED
    BY <1>0, <1>1, <1>2, <1>3, <1>4, <1>5, <1>6, QuietCounts, Zenon

(* The page of the query is no longer than max_count. *)
LEMMA CandidatesAreFew ==
  ASSUME policy \in Policies, NEW s \in Candidates
  PROVE  Len(s) <= policy.max_count
  <1> DEFINE M == {e \in Ids : Selected(Rows[e])}
             n == Least(policy.max_count, Cardinality(M))
  <1>1. M \in SUBSET Ids
    BY Zenon
  <1>2. n \in Nat /\ n <= policy.max_count
    BY <1>1, SubsetFacts, PolicyAssumption, SMTT(30) DEF Least
  <1>3. s \in [1..n -> M]
    BY Zenon DEF Candidates
  <1> HIDE DEF n, M
  <1>4. Len(s) = n
    BY <1>2, <1>3
  <1>5. QED
    BY <1>2, <1>4, Zenon

(* The query fills the queue, or the run ends at once (PolicyRunTask::run). *)
LEMMA QueryCounts ==
  ASSUME Counts, BarrierInv, Query
  PROVE  Counts'
  <1>0. /\ UNCHANGED <<policy, spent, worker, attempt, running, cancelled>>
        /\ pc = "query" /\ cands' \in Candidates
    BY Zenon DEF Query
  <1>1. /\ queue = <<>> /\ skips = 0 /\ spent \in Nat /\ outcome = "none"
        /\ \A e \in Ids : worker[e] = "none"
    BY <1>0, Zenon DEF Counts, RunTypes, Early, BarrierInv, Phases
  <1>2. /\ Spawned = {} /\ Spawned' = {} /\ Cardinality({}) = 0
        /\ AtGate = {} /\ Attempts' = Attempts
    BY <1>0, <1>1, FS_EmptySet, Zenon DEF Spawned, AtGate, Attempts
  <1>3. cands' \in Seq(Ids) /\ Len(cands') \in Nat /\ Len(cands') <= policy.max_count
    BY <1>0, QueueFacts, CandidatesAreDistinct, CandidatesAreFew
  <1>4. /\ pc' \in {"end", "dispatch"} /\ (outcome' # "none" <=> pc' = "end")
        /\ outcome' \in {"none", "misconfigured", "empty", "success"}
        /\ outcome' # "misconfigured" => skips' + Len(queue') = Len(cands')
        /\ skips' \in Nat /\ (pc' = "end" => queue' = <<>>)
        /\ outcome' \in {"empty", "success"} => (outcome' = "empty" <=> cands' = <<>>)
    <2>1. Len(<<>>) = 0 /\ (Len(cands') = 0 <=> cands' = <<>>)
      BY <1>3
    <2>2. CASE skips' = Len(cands') /\ End(Label(Len(cands'), 0, 0)) /\ UNCHANGED queue
      BY <1>1, <1>3, <2>1, <2>2 DEF End, Label
    <2>3. CASE End("misconfigured") /\ UNCHANGED <<skips, queue>>
      BY <1>1, <2>3, Zenon DEF End
    <2>4. CASE pc' = "dispatch" /\ queue' = cands' /\ UNCHANGED <<skips, outcome>>
      BY <1>1, <1>3, <2>4
    <2>5. QED
      BY <2>2, <2>3, <2>4, Zenon DEF Query
  <1>5. RunTypes'
    BY <1>0, <1>3, <1>4, Zenon DEF Counts, RunTypes, Awaited
  <1>6. Early' /\ Stopped' /\ AtGate' = {}
    BY <1>4, Zenon DEF Early, Stopped, AtGate
  <1>7. With("failed")' = 0
    <2>1. {e \in Ids : worker'[e] = "failed"} = {}
      BY <1>0, <1>1, Zenon
    <2>2. QED
      BY <1>2, <2>1, Zenon DEF With
  <1>8. Labelled'
    BY <1>4, <1>7, Zenon DEF Labelled
  <1>9. Balance'
    BY <1>0, <1>2, <1>3, <1>4, FS_EmptySet DEF Balance
  <1>10. Volume' /\ Single' /\ Tries'
    BY <1>0, <1>2, <1>6, Zenon DEF Counts, Volume, Single, Tries
  <1>11. QED
    BY <1>5, <1>6, <1>8, <1>9, <1>10, Zenon DEF Counts

(* One round of the dispatch loop: the caps are checked before an entry is *)
(* taken.                                                                  *)
LEMMA DispatchCounts ==
  ASSUME Counts, BarrierInv, Dispatch
  PROVE  Counts'
  <1>0. /\ UNCHANGED <<policy, cands, worker, attempt, running, cancelled, outcome>>
        /\ pc = "dispatch" /\ outcome = "none" /\ spent \in Nat /\ skips \in Nat
        /\ SumOf(Spawned) = spent
    <2>1. Spawned \cup {} = Spawned
      BY Zenon
    <2>2. QED
      BY <2>1, Zenon DEF Dispatch, Counts, RunTypes, Volume, AtGate
  <1>1. Spawned' = Spawned /\ Attempts' = Attempts /\ AtGate = {}
    BY <1>0, Zenon DEF Spawned, Attempts, AtGate
  <1>2. Cardinality(Spawned) + skips + Len(queue) = Len(cands) /\ Len(cands) <= policy.max_count
    BY <1>0, Zenon DEF Counts, Balance
  <1>3. Tries' /\ Labelled'
    BY <1>0, <1>1, Zenon DEF Counts, Tries, Labelled
  <1>4. CASE pc' = "join" /\ UNCHANGED <<queue, spent, skips>>
    <2>1. queue # <<>> => cancelled \/ policy.max_volume # None
      <3>1. Gates[1] # "join"
        BY Zenon DEF Gates
      <3>2. queue # <<>> /\ ~cancelled => OverVolume
        BY <1>0, <1>4, <3>1, Zenon DEF Dispatch
      <3>3. QED
        BY <3>2, Zenon DEF OverVolume
    <2>2. RunTypes' /\ Early' /\ Stopped' /\ AtGate' = {}
      BY <1>0, <1>4, <2>1, Zenon DEF Counts, RunTypes, Awaited, Early, Stopped, AtGate
    <2>3. QED
      BY <1>0, <1>1, <1>3, <1>4, <2>2, QuietCounts, Zenon
  <1>5. CASE queue # <<>> /\ queue' = Tail(queue) /\ skips' = skips + 1 /\ UNCHANGED <<pc, spent>>
    <2>1. RunTypes' /\ Early' /\ Stopped' /\ AtGate' = {}
      BY <1>0, <1>5 DEF Counts, RunTypes, Awaited, Early, Stopped, AtGate
    <2>2. Balance'
      <3>1. /\ Len(queue') = Len(queue) - 1 /\ Len(queue) \in Nat
            /\ Cardinality(Spawned) \in Nat
        BY <1>5, QueueFacts, Zenon
      <3>2. QED
        BY <1>0, <1>1, <1>2, <1>5, <3>1 DEF Balance
    <2>3. Volume' /\ Single'
      BY <1>0, <1>1, <1>5, <2>1, Zenon DEF Counts, Volume, Single
    <2>4. QED
      BY <1>3, <2>1, <2>2, <2>3, Zenon DEF Counts
  <1>6. CASE /\ queue # <<>> /\ ~Hardlinked /\ ~OverVolume
             /\ spent' = spent + Rows[Head1].size /\ pc' = Gates[1] /\ UNCHANGED <<queue, skips>>
    <2>1. pc' \in {"limit", "permit"} /\ AtGate' = {Head1}
      BY <1>6, Zenon DEF Gates, AtGate, Head1
    <2>2. /\ Head1 \in Ids \ Spawned /\ Rows[Head1].size \in Nat /\ Rows[Head1].nlink \in Nat
          /\ policy.max_volume \in Nat \cup {None} /\ Spawned \in SUBSET Ids
      BY <1>6, QueueFacts, Zenon
    <2>3. RunTypes' /\ Early' /\ Stopped'
      BY <1>0, <1>6, <2>1, <2>2 DEF Counts, RunTypes, Awaited, Early, Stopped
    <2>4. Balance'
      BY <1>0, <1>1, <1>2, <1>6, Zenon DEF Balance
    <2>5. Volume'
      <3>1. SumOf(Spawned \cup {Head1}) = spent + Rows[Head1].size
        BY <1>0, <2>2, SumAdds, Zenon
      <3>2. policy.max_volume # None => spent + Rows[Head1].size <= policy.max_volume
        BY <1>0, <1>6, <2>2 DEF OverVolume
      <3>3. (Spawned \cup AtGate)' = Spawned \cup {Head1}
        BY <1>1, <2>1, Zenon
      <3>4. QED
        BY <1>0, <1>6, <3>1, <3>2, <3>3, Zenon DEF Volume
    <2>6. Single'
      BY <1>0, <1>1, <1>6, <2>1, <2>2 DEF Counts, Single, Hardlinked
    <2>7. QED
      BY <1>3, <2>3, <2>4, <2>5, <2>6, Zenon DEF Counts
  <1>7. QED
    BY <1>4, <1>5, <1>6, Zenon DEF Dispatch

(* The entry at the head passes a gate; after the second one it has a      *)
(* worker.                                                                 *)
LEMMA PassCounts ==
  ASSUME Counts, BarrierInv, NEW gate \in {"limit", "permit"}, pc = gate, Pass(gate),
         UNCHANGED <<policy, cands, spent, skips, attempt, running, cancelled, outcome>>
  PROVE  Counts'
  <1>0. /\ outcome = "none" /\ queue # <<>> /\ AtGate = {Head1} /\ Head1 \in Ids \ Spawned
        /\ Len(queue) \in Nat /\ Cardinality(Spawned) \in Nat /\ skips \in Nat
        /\ worker \in [Ids -> Active \cup Final \cup {"none"}]
    BY QueueFacts, Zenon DEF Counts, RunTypes, AtGate
  <1>1. CASE gate = Gates[1]
    <2>1. pc' \in {"limit", "permit"} /\ UNCHANGED <<queue, worker>>
      BY <1>1, Zenon DEF Pass, Gates
    <2>2. AtGate' = AtGate
      BY <2>1, Zenon DEF AtGate, Head1
    <2>3. RunTypes' /\ Early' /\ Stopped' /\ Labelled'
      BY <1>0, <2>1, Zenon DEF Counts, RunTypes, Awaited, Early, Stopped, Labelled
    <2>4. QED
      BY <2>1, <2>2, <2>3, QuietCounts, Zenon
  <1>2. CASE gate # Gates[1]
    <2>1. PICK w \in {"try", "start"} :
            pc' = "dispatch" /\ queue' = Tail(queue) /\ worker' = [worker EXCEPT ![Head1] = w]
      BY <1>2, Zenon DEF Pass
    <2>2. /\ Spawned' = Spawned \cup {Head1} /\ AtGate' = {} /\ Attempts' = Attempts
          /\ (Spawned \cup AtGate)' = Spawned \cup AtGate
      BY <1>0, <2>1, Zenon DEF Spawned, AtGate, Attempts
    <2>3. /\ Cardinality(Spawned') = Cardinality(Spawned) + 1
          /\ Len(queue') = Len(queue) - 1
      <3>1. Spawned \in SUBSET Ids
        BY Zenon DEF Spawned
      <3>2. QED
        BY <1>0, <2>1, <2>2, <3>1, SubsetFacts, QueueFacts, Zenon
    <2>4. \A e \in Ids : e # Head1 => worker'[e] = worker[e]
      BY <1>0, <2>1, Zenon
    <2>5. worker[Head1] = "none" /\ worker'[Head1] = w
      BY <1>0, <2>1, Zenon DEF Spawned
    <2>6. \A e \in Ids : Awaited(e)' = Awaited(e)
      BY <2>4, <2>5, Zenon DEF Awaited
    <2>7. RunTypes' /\ Early' /\ Stopped' /\ Labelled'
      BY <1>0, <2>1, <2>6, Zenon DEF Counts, RunTypes, Early, Stopped, Labelled
    <2>8. Balance'
      BY <1>0, <2>3 DEF Counts, Balance
    <2>9. Volume' /\ Single'
      BY <2>2, Zenon DEF Counts, Volume, Single
    <2>10. Tries'
      <3>1. Attempts \in Nat \ {0} /\ attempt[Head1] = 0
        BY <1>0, <2>5, QueueFacts, Zenon DEF Counts, Tries
      <3>2. QED
        BY <1>0, <2>2, <2>4, <2>5, <3>1, SMTT(30) DEF Counts, Tries
    <2>11. QED
      BY <2>7, <2>8, <2>9, <2>10, Zenon DEF Counts
  <1>3. QED
    BY <1>1, <1>2, Zenon

(* The dispatcher waits for the limiter or for a permit. *)
LEMMA GateCounts ==
  ASSUME Counts, BarrierInv, Limit \/ Permit
  PROVE  Counts'
  <1>0. UNCHANGED <<policy, cands, spent, skips, attempt, running, cancelled, outcome>>
    BY Zenon DEF Limit, Permit
  <1>1. CASE pc = "limit" /\ Pass("limit")
    BY <1>0, <1>1, PassCounts, Zenon
  <1>2. CASE pc = "permit" /\ Pass("permit")
    BY <1>0, <1>2, PassCounts, Zenon
  <1>3. CASE pc = "limit" /\ UNCHANGED <<pc, queue, worker>>
    <2>1. AtGate' = AtGate /\ outcome = "none"
      BY <1>3, Zenon DEF AtGate, Head1, Counts, RunTypes
    <2>2. RunTypes' /\ Early' /\ Stopped' /\ Labelled'
      BY <1>0, <1>3, <2>1, Zenon DEF Counts, RunTypes, Awaited, Early, Stopped, Labelled
    <2>3. QED
      BY <1>0, <1>3, <2>1, <2>2, QuietCounts, Zenon
  <1>4. QED
    BY <1>1, <1>2, <1>3, Zenon DEF Limit, Permit

(* A worker goes on: it keeps its entry, and the attempts follow its state. *)
LEMMA WorkerCounts ==
  ASSUME Counts, BarrierInv, NEW e \in Ids, NEW w \in Active \cup Final,
         worker[e] \in Active,
         worker' = [worker EXCEPT ![e] = w],
         NEW k \in Nat, running' = [running EXCEPT ![e] = k],
         w \in {"exec", "late"} => k >= 1,
         NEW n \in Nat, attempt' = [attempt EXCEPT ![e] = n],
         n <= Attempts, w # "start", w \in {"try", "backoff"} => n < Attempts,
         UNCHANGED <<policy, pc, queue, cands, spent, skips, cancelled, outcome>>
  PROVE  Counts'
  <1>0. worker \in [Ids -> Active \cup Final \cup {"none"}]
        /\ running \in [Ids -> Nat] /\ attempt \in [Ids -> Nat]
    BY QueueFacts, Zenon DEF Counts, RunTypes
  <1>1. w # "none" /\ worker[e] # "none"
    BY Zenon DEF Active, Final
  <1>2. Spawned' = Spawned /\ Attempts' = Attempts /\ AtGate' = AtGate
    BY <1>0, <1>1, Zenon DEF Spawned, Attempts, AtGate, Head1
  <1>3. pc # "end" /\ outcome = "none"
    BY Zenon DEF BarrierInv, Phases, Counts, RunTypes
  <1>4. \A x \in Ids : running'[x] >= Awaited(x)'
    <2> TAKE x \in Ids
    <2>1. CASE x = e
      BY <1>0, <2>1 DEF Awaited
    <2>2. CASE x # e
      BY <1>0, <2>2, Zenon DEF Awaited, Counts, RunTypes
    <2>3. QED
      BY <2>1, <2>2, Zenon
  <1>5. running' \in [Ids -> Nat] /\ attempt' \in [Ids -> Nat]
    BY <1>0, Zenon
  <1>6. RunTypes'
    BY <1>4, <1>5, Zenon DEF Counts, RunTypes
  <1>7. Early' /\ Stopped' /\ Labelled'
    BY <1>3, Zenon DEF Counts, Early, Stopped, Labelled
  <1>8. Balance' /\ Volume' /\ Single'
    BY <1>2, Zenon DEF Counts, Balance, Volume, Single
  <1>9. Tries'
    <2> SUFFICES ASSUME NEW x \in Ids
                 PROVE  /\ attempt'[x] <= Attempts
                        /\ worker'[x] \in {"none", "start"} => attempt'[x] = 0
                        /\ worker'[x] \in {"try", "backoff"} => attempt'[x] < Attempts
      BY <1>2, Zenon DEF Tries
    <2>1. CASE x = e
      BY <1>0, <1>1, <2>1, Zenon
    <2>2. CASE x # e
      BY <1>0, <2>2, Zenon DEF Counts, Tries
    <2>3. QED
      BY <2>1, <2>2, Zenon
  <1>10. QED
    BY <1>6, <1>7, <1>8, <1>9, Zenon DEF Counts

(* The actions of a worker. *)
LEMMA WorkerStepCounts ==
  ASSUME Counts, BarrierInv, NEW e \in Ids, Worker(e)
  PROVE  Counts'
  <1>0. /\ running \in [Ids -> Nat] /\ attempt \in [Ids -> Nat] /\ Attempts \in Nat \ {0}
        /\ running[e] \in Nat /\ attempt[e] \in Nat /\ attempt[e] <= Attempts
        /\ worker[e] \in {"none", "start"} => attempt[e] = 0
        /\ worker[e] \in {"try", "backoff"} => attempt[e] < Attempts
        /\ running[e] >= Awaited(e)
    BY QueueFacts, Zenon DEF Counts, RunTypes, Tries
  <1>1. running = [running EXCEPT ![e] = running[e]] /\ attempt = [attempt EXCEPT ![e] = attempt[e]]
    BY <1>0, Zenon
  <1>2. CASE Start(e) \/ Backoff(e)
    <2>1. PICK w \in {"skipped", "try"} : worker' = [worker EXCEPT ![e] = w]
      BY <1>2, Zenon DEF Start, Backoff, Becomes
    <2>2. /\ worker[e] \in {"start", "backoff"}
          /\ UNCHANGED <<running, attempt, policy, pc, queue, cands, spent, skips, cancelled, outcome>>
      BY <1>2, Zenon DEF Start, Backoff, workerFrame
    <2>3. attempt[e] < Attempts
      BY <1>0, <2>2
    <2>4. w \in Active \cup Final /\ worker[e] \in Active
      BY <2>2, Zenon DEF Active, Final
    <2>5. QED
      BY <1>0, <1>1, <2>1, <2>2, <2>3, <2>4, WorkerCounts, Zenon
  <1>3. CASE Try(e)
    <2>1. /\ worker[e] = "try" /\ attempt[e] < Attempts /\ worker[e] \in Active
          /\ UNCHANGED <<policy, pc, queue, cands, spent, skips, cancelled, outcome>>
      BY <1>0, <1>3, Zenon DEF Try, workerFrame, Active
    <2>2. CASE cancelled
      <3>1. PICK w \in {"skipped", "failed"} : worker' = [worker EXCEPT ![e] = w]
        BY <1>3, <2>2, Zenon DEF Try, Becomes
      <3>2. UNCHANGED <<running, attempt>> /\ w \in Active \cup Final
        BY <1>3, <2>2, Zenon DEF Try, Final
      <3>3. QED
        BY <1>0, <1>1, <2>1, <3>1, <3>2, WorkerCounts, Zenon
    <2>3. CASE ~cancelled
      <3>1. /\ worker' = [worker EXCEPT ![e] = "exec"]
            /\ running' = [running EXCEPT ![e] = running[e] + 1]
            /\ attempt' = [attempt EXCEPT ![e] = attempt[e] + 1]
        BY <1>3, <2>3, Zenon DEF Try, Becomes
      <3>2. /\ running[e] + 1 \in Nat /\ attempt[e] + 1 \in Nat /\ running[e] + 1 >= 1
            /\ attempt[e] + 1 <= Attempts /\ "exec" \in Active \cup Final
        BY <1>0, <2>1 DEF Active
      <3>3. PICK w \in Active \cup Final : w = "exec"
        BY <3>2, Zenon
      <3>4. w # "start" /\ w \notin {"try", "backoff"} /\ worker' = [worker EXCEPT ![e] = w]
        BY <3>1, <3>3, Zenon
      <3>5. QED
        BY <2>1, <3>1, <3>2, <3>4, WorkerCounts, Zenon
    <2>4. QED
      BY <2>2, <2>3, Zenon
  <1>4. ASSUME NEW r \in {"success", "skipped", "fatal", "retry"}
        PROVE  /\ After(e, r) \in (Active \cup Final) \ {"exec", "late", "start"}
               /\ After(e, r) \in {"try", "backoff"} => attempt[e] < Attempts
    BY Zenon DEF After, Active, Final
  <1>5. ASSUME NEW r \in Results, Finish(e, r)
        PROVE  Counts'
    <2>1. /\ worker[e] \in {"exec", "late"}
          /\ UNCHANGED <<attempt, policy, pc, queue, cands, spent, skips, cancelled, outcome>>
          /\ worker' = [worker EXCEPT ![e] = After(e, r)]
          /\ running' = [running EXCEPT ![e] = running[e] - 1]
      BY <1>5, Zenon DEF Finish, Becomes, workerFrame
    <2>2. /\ After(e, r) \in (Active \cup Final) \ {"exec", "late", "start"}
          /\ After(e, r) \in {"try", "backoff"} => attempt[e] < Attempts
      BY <1>4, Zenon DEF Results
    <2>3. running[e] - 1 \in Nat /\ running[e] - 1 >= 0 /\ worker[e] \in Active
      BY <1>0, <2>1 DEF Awaited, Active
    <2>4. QED
      BY <1>0, <1>1, <2>1, <2>2, <2>3, WorkerCounts, Zenon
  <1>6. CASE TimedOut(e)
    <2>1. /\ worker[e] = "exec" /\ worker[e] \in Active
          /\ UNCHANGED <<attempt, policy, pc, queue, cands, spent, skips, cancelled, outcome>>
      BY <1>6, Zenon DEF TimedOut, workerFrame, Active
    <2>2. /\ After(e, "retry") \in (Active \cup Final) \ {"exec", "late", "start"}
          /\ After(e, "retry") \in {"try", "backoff"} => attempt[e] < Attempts
      BY <1>4, Zenon
    <2>3. running[e] >= 1 /\ running[e] - 1 \in Nat
      BY <1>0, <2>1 DEF Awaited
    <2>4. CASE worker' = [worker EXCEPT ![e] = "late"] /\ UNCHANGED running
      <3>1. PICK w \in Active \cup Final : w = "late"
        BY Zenon DEF Active
      <3>2. w # "start" /\ w \notin {"try", "backoff"} /\ worker' = [worker EXCEPT ![e] = w]
        BY <2>4, <3>1, Zenon
      <3>3. QED
        BY <1>0, <1>1, <2>1, <2>3, <2>4, <3>2, WorkerCounts, ZenonT(30)
    <2>5. CASE /\ worker' = [worker EXCEPT ![e] = After(e, "retry")]
               /\ running' \in {running, [running EXCEPT ![e] = running[e] - 1]}
      <3>1. PICK k \in Nat : running' = [running EXCEPT ![e] = k]
        BY <1>0, <1>1, <2>3, <2>5, Zenon
      <3>2. k >= 0
        OBVIOUS
      <3>3. QED
        BY <1>0, <1>1, <2>1, <2>2, <2>5, <3>1, <3>2, WorkerCounts, ZenonT(30)
    <2>6. QED
      BY <1>6, <2>4, <2>5, Zenon DEF TimedOut, Becomes
  <1>7. QED
    BY <1>2, <1>3, <1>5, <1>6, Zenon DEF Worker

(* An execution that nobody waits for ends. *)
LEMMA StrayCounts ==
  ASSUME Counts, BarrierInv, NEW e \in Ids, StrayEnds(e)
  PROVE  Counts'
  <1>0. /\ running \in [Ids -> Nat] /\ running[e] > Awaited(e)
        /\ running' = [running EXCEPT ![e] = running[e] - 1]
        /\ UNCHANGED <<policy, pc, queue, cands, spent, skips, worker, attempt, cancelled, outcome>>
    BY Zenon DEF StrayEnds, workerFrame, Counts, RunTypes
  <1>1. \A x \in Ids : Awaited(x)' = Awaited(x) /\ Awaited(x) \in Nat
    BY <1>0, Zenon DEF Awaited
  <1>2. running' \in [Ids -> Nat] /\ \A x \in Ids : running'[x] >= Awaited(x)'
    BY <1>0, <1>1 DEF Counts, RunTypes
  <1>3. RunTypes'
    BY <1>0, <1>2, Zenon DEF Counts, RunTypes
  <1>4. AtGate' = AtGate /\ With("failed")' = With("failed")
    BY <1>0, Zenon DEF AtGate, Head1, With
  <1>5. Early' /\ Stopped' /\ Labelled'
    BY <1>0, <1>4, Zenon DEF Counts, Early, Stopped, Labelled
  <1>6. QED
    BY <1>0, <1>3, <1>4, <1>5, QuietCounts, Zenon

(* The invariant holds in every state of every run. *)
LEMMA CountsHold == Spec => []CountInv
  <1>1. Init => CountInv
    BY RunLimiter, BarrierStarts, CountStarts, Zenon DEF CountInv
  <1>2. CountInv /\ [Next]_vars => CountInv'
    <2> SUFFICES ASSUME CountInv, [Next]_vars PROVE CountInv'
      BY Zenon
    <2>1. LimiterInv' /\ BarrierInv' /\ Counts /\ BarrierInv
      BY RunLimiter, BarrierStep, Zenon DEF CountInv
    <2>2. CASE Begin \/ QueryFails \/ Cancel \/ Time \/ Done \/ UNCHANGED vars
      BY <2>1, <2>2, IdleCounts, Zenon DEF CountInv
    <2>3. CASE Query
      BY <2>1, <2>3, QueryCounts, Zenon DEF CountInv
    <2>4. CASE Dispatch
      BY <2>1, <2>4, DispatchCounts, Zenon DEF CountInv
    <2>5. CASE Limit \/ Permit
      BY <2>1, <2>5, GateCounts, Zenon DEF CountInv
    <2>6. CASE Join
      BY <2>1, <2>6, JoinCounts, Zenon DEF CountInv
    <2>7. CASE \E e \in Ids : Worker(e) \/ StrayEnds(e)
      BY <2>1, <2>7, WorkerStepCounts, StrayCounts, Zenon DEF CountInv
    <2>8. QED
      BY <2>2, <2>3, <2>4, <2>5, <2>6, <2>7, Zenon DEF Next
  <1>3. QED
    BY <1>1, <1>2, PTL DEF Spec

-----------------------------------------------------------------------------
(* The bytes of the entries whose action was started never exceed          *)
(* max_volume, no entry with other names is touched under skip_hardlinked, *)
(* no more than max_count entries are touched and none more often than     *)
(* max_attempts, for every catalog and policy, whatever is retried, times  *)
(* out or is cancelled (dispatch loops of task.rs).                        *)
THEOREM RunKeepsCaps == Spec => []CapsHold
  <1>1. ASSUME CountInv PROVE CapsHold
    <2> DEFINE started == {e \in Ids : attempt[e] > 0}
    <2>0. BarrierInv /\ Counts
      BY <1>1, Zenon DEF CountInv
    <2>1. started \in SUBSET Spawned /\ Spawned \in SUBSET Ids
      BY <2>0 DEF Counts, Tries, Spawned
    <2>2. /\ Cardinality(started) \in Nat /\ Cardinality(started) <= Cardinality(Spawned)
          /\ Cardinality(Spawned) \in Nat
      BY <2>1, SubsetFacts, FS_Subset, Zenon
    <2>3. Cardinality(started) <= policy.max_count
      <3>1. /\ Len(cands) \in Nat /\ skips \in Nat /\ Len(queue) \in Nat
            /\ policy.max_count \in Nat /\ Len(cands) <= policy.max_count
        BY <2>0, QueueFacts DEF Counts, RunTypes, Balance
      <3>2. CASE outcome = "misconfigured"
        <4>1. Cardinality(Spawned) = 0
          BY <2>0, <3>2, FS_EmptySet, Zenon DEF Counts, Balance
        <4>2. QED
          BY <2>2, <3>1, <4>1
      <3>3. CASE outcome # "misconfigured"
        <4>1. Cardinality(Spawned) + skips + Len(queue) = Len(cands)
          BY <2>0, <3>3, Zenon DEF Counts, Balance
        <4>2. QED
          BY <2>2, <3>1, <4>1
      <3>4. QED
        BY <3>2, <3>3, Zenon
    <2>4. policy.max_volume # None => SumOf(started) <= policy.max_volume
      <3> SUFFICES ASSUME policy.max_volume # None
                   PROVE  SumOf(started) <= policy.max_volume
        BY Zenon
      <3>1. /\ SumOf(Spawned \cup AtGate) = spent /\ spent <= policy.max_volume
            /\ policy.max_volume \in Nat /\ spent \in Nat
        BY <2>0, QueueFacts, Zenon DEF Counts, Volume, RunTypes
      <3>2. Spawned \cup AtGate \in SUBSET Ids
        BY <2>0, <2>1, QueueFacts, Zenon DEF AtGate
      <3>3. started \in SUBSET (Spawned \cup AtGate) /\ started \in SUBSET Ids
        BY <2>1, Zenon
      <3> HIDE DEF started
      <3>4. SumOf(started) <= SumOf(Spawned \cup AtGate) /\ SumOf(started) \in Nat
        BY <3>2, <3>3, SumGrows, SumAdds, Zenon
      <3>5. QED
        BY <3>1, <3>4
    <2>5. policy.skip_hardlinked => \A e \in started : Rows[e].nlink <= 1
      BY <2>0, <2>1, Zenon DEF Counts, Single
    <2>6. \A e \in Ids : attempt[e] <= Attempts
      BY <2>0, Zenon DEF Counts, Tries
    <2>7. QED
      BY <2>3, <2>4, <2>5, <2>6, Zenon DEF CapsHold
  <1>2. QED
    BY <1>1, CountsHold, PTL

(* The result counts every candidate exactly once unless the run was       *)
(* cancelled or stopped by its volume cap, and a run with a failed action  *)
(* is never reported as a success or as empty (finish_run in task.rs).     *)
THEOREM RunCountsAddUp == Spec => []CountsAddUp
  <1>1. ASSUME CountInv PROVE CountsAddUp
    <2>0. LimiterTypeOK /\ BarrierInv /\ Counts
      BY <1>1, Zenon DEF CountInv, LimiterInv
    <2>1. TypeOK
      BY <2>0, Zenon DEF TypeOK, BarrierInv, BarrierTypes, Counts, RunTypes
    <2> SUFFICES ASSUME outcome \in {"empty", "success", "partial", "failed"}
                 PROVE  /\ With("success") + With("skipped") + With("failed") + skips + Len(queue)
                             = Len(cands)
                        /\ queue # <<>> => cancelled \/ policy.max_volume # None
                        /\ outcome \in {"empty", "success"} <=> With("failed") = 0
                        /\ outcome = "empty" <=> cands = <<>>
      BY <2>1, Zenon DEF CountsAddUp
    <2>2. pc = "end" /\ Cardinality(Spawned) + skips + Len(queue) = Len(cands)
      BY <2>0, Zenon DEF Counts, RunTypes, Balance
    <2>3. With("success") + With("skipped") + With("failed") = Cardinality(Spawned)
      <3> DEFINE A == {e \in Ids : worker[e] = "success"}
                 B == {e \in Ids : worker[e] = "skipped"}
                 C == {e \in Ids : worker[e] = "failed"}
      <3>1. A \in SUBSET Ids /\ B \in SUBSET Ids /\ C \in SUBSET Ids
        BY Zenon
      <3>2. Spawned = (A \cup B) \cup C
        BY <2>0, <2>2, QueueFacts, Zenon DEF BarrierInv, Phases, Spawned, Active, Final
      <3>3. A \cap B = {} /\ (A \cup B) \cap C = {}
        BY Zenon
      <3>4. With("success") = Cardinality(A) /\ With("skipped") = Cardinality(B)
            /\ With("failed") = Cardinality(C)
        BY Zenon DEF With
      <3> HIDE DEF A, B, C
      <3>5. /\ Cardinality({}) = 0 /\ IsFiniteSet(A) /\ IsFiniteSet(B) /\ IsFiniteSet(C)
            /\ Cardinality(A) \in Nat /\ Cardinality(B) \in Nat /\ Cardinality(C) \in Nat
        BY <3>1, SubsetFacts, FS_EmptySet, Zenon
      <3>6. IsFiniteSet(A \cup B) /\ Cardinality(A \cup B) = Cardinality(A) + Cardinality(B)
        <4>1. /\ IsFiniteSet(A \cup B)
              /\ Cardinality(A \cup B) = Cardinality(A) + Cardinality(B) - Cardinality(A \cap B)
          BY <3>5, FS_Union, Zenon
        <4>2. Cardinality(A \cap B) = 0
          BY <3>3, <3>5, Zenon
        <4>3. QED
          BY <3>5, <4>1, <4>2
      <3>7. Cardinality((A \cup B) \cup C) = Cardinality(A \cup B) + Cardinality(C)
        <4> DEFINE D == A \cup B
        <4>1. IsFiniteSet(D) /\ D \cap C = {}
          BY <3>3, <3>6, Zenon
        <4> HIDE DEF D
        <4>2. Cardinality(D \cup C) = Cardinality(D) + Cardinality(C) - Cardinality(D \cap C)
          BY <3>5, <4>1, FS_Union, Zenon
        <4>3. Cardinality(D) \in Nat
          BY <4>1, FS_CardinalityType, Zenon
        <4>4. Cardinality(D \cap C) = 0
          BY <3>5, <4>1, Zenon
        <4>5. Cardinality(D \cup C) = Cardinality(D) + Cardinality(C)
          BY <3>5, <4>2, <4>3, <4>4
        <4>6. QED
          BY <4>5, Zenon DEF D
      <3>8. QED
        BY <3>2, <3>4, <3>5, <3>6, <3>7, Zenon
    <2>4. /\ queue # <<>> => cancelled \/ policy.max_volume # None
          /\ outcome \in {"empty", "success"} <=> With("failed") = 0
          /\ outcome = "empty" <=> cands = <<>>
      BY <2>0, <2>2, Zenon DEF Counts, Stopped, Labelled
    <2>5. QED
      BY <2>2, <2>3, <2>4, Zenon
  <1>2. QED
    BY <1>1, CountsHold, PTL
=============================================================================
