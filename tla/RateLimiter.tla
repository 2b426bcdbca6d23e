---------------------------- MODULE RateLimiter -----------------------------
(***************************************************************************)
(* The token buckets in front of every request (service/rate_limit.py,     *)
(* web/rate_limit_middleware.py).  A check runs on the event loop without  *)
(* an await, so it is one step.  A bucket holds up to Capacity tokens and  *)
(* fills up in Period seconds; tokens are counted in 1/Period of one.      *)
(***************************************************************************)
EXTENDS Pool

CONSTANTS
    Callers,    \* keys: principals, or the addresses of those without a bearer
    Capacity,   \* Capacity[k]: requests a Period of k's tier
    Period,     \* seconds in which an empty bucket fills up
    MaxKeys     \* max_keys

ASSUME LimiterAssumption ==
    /\ Capacity \in [Callers -> Nat \ {0}]
    /\ Period \in Nat \ {0} /\ MaxKeys \in Nat \ {0}

VARIABLES
    buckets,   \* the buckets, least recently checked first
    \* history
    passed,    \* passed[k]: when k was let in, since its bucket may have been dropped
    others,    \* others[k]: the callers checked since k was
    told       \* told[k]: when k was told to come back, 0 if it was not refused

limiterVars == <<buckets, passed, others, told>>

LimiterInit ==
    /\ buckets = <<>>
    /\ passed = [k \in Callers |-> <<>>]
    /\ others = [k \in Callers |-> {}]
    /\ told = [k \in Callers |-> 0]

-----------------------------------------------------------------------------
Full(k) == Capacity[k] * Period
Places(k) == {i \in DOMAIN buckets : buckets[i].key = k}
OfCaller(k) == {buckets[i] : i \in Places(k)}

\* move_to_end leaves the order of the others as it is.
OfOthers(k) ==
    IF Places(k) = {} THEN buckets
    ELSE LET i == CHOOSE j \in Places(k) : TRUE
         IN SubSeq(buckets, 1, i - 1) \o SubSeq(buckets, i + 1, Len(buckets))

\* Seeded fault: a bucket is filled without looking at its size.
TokensUncapped(k) ==
    IF OfCaller(k) = {} THEN Full(k)
    ELSE LET b == CHOOSE x \in OfCaller(k) : TRUE
         IN b.tokens + (now - b.last) * Capacity[k]

\* A new bucket is full; another has been filling up since its last check.
Tokens(k) ==
    IF OfCaller(k) = {} THEN Full(k)
    ELSE LET b == CHOOSE x \in OfCaller(k) : TRUE
             tokens == b.tokens + (now - b.last) * Capacity[k]
         IN IF tokens > Full(k) THEN Full(k) ELSE tokens

Admits(k) == Tokens(k) >= Period

\* retry_after, rounded up to seconds, at least one
RetryAfter(k) ==
    LET seconds == (Period - Tokens(k) + Capacity[k] - 1) \div Capacity[k]
    IN IF seconds < 1 THEN 1 ELSE seconds

\* Seeded fault: room is made one bucket late.
EvictLate(all) == IF Len(all) > MaxKeys + 1 THEN Tail(all) ELSE all

\* The bucket least recently checked makes room.
Evict(all) == IF Len(all) > MaxKeys THEN Tail(all) ELSE all

\* check, whatever its answer
Charge(k) ==
    LET left == Tokens(k) - (IF Admits(k) THEN Period ELSE 0)
        all == Append(OfOthers(k), [key |-> k, tokens |-> left, last |-> now])
        dropped == Cardinality(others[k]) >= MaxKeys
    IN
    /\ buckets' = Evict(all)
    /\ others' = [x \in Callers |-> IF x = k THEN {} ELSE others[x] \cup {k}]
    /\ passed' = [passed EXCEPT ![k] = (IF dropped THEN <<>> ELSE @)
                                         \o (IF Admits(k) THEN <<now>> ELSE <<>>)]
    /\ told' = [told EXCEPT ![k] = IF Admits(k) THEN 0 ELSE now + RetryAfter(k)]

\* The buckets live in the process.
LimiterStop ==
    /\ buckets' = <<>>
    /\ passed' = [k \in Callers |-> <<>>] /\ others' = [k \in Callers |-> {}]
    /\ told' = [k \in Callers |-> 0]

-----------------------------------------------------------------------------
LimiterTypeOK ==
    /\ Len(buckets) <= MaxKeys
    /\ \A i \in DOMAIN buckets :
           /\ buckets[i].key \in Callers /\ buckets[i].last \in 1..now
           /\ buckets[i].tokens \in 0..Full(buckets[i].key)
    /\ passed \in [Callers -> Seq(1..MaxTime)]
    /\ others \in [Callers -> SUBSET Callers]
    /\ told \in [Callers -> Nat]

\* RateLimiter.check: in any interval a caller is let in at most as often as a
\* full bucket and its refill allow -- across evictions, as long as fewer than
\* max_keys others were checked in between -- and one who waits as long as the
\* refusal said is let in.
RateKept ==
    \A k \in Callers :
        /\ \A i, j \in DOMAIN passed[k] :
               i <= j => (j - i + 1) * Period
                           <= Capacity[k] * (Period + passed[k][j] - passed[k][i])
        /\ told[k] \in 1..now => Admits(k)
=============================================================================
