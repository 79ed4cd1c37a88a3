----------------------------- MODULE RateLimit ------------------------------
(***************************************************************************)
(* The rate limiter every request passes (rate_limit.rs): one shard of it, *)
(* under its mutex, with a token bucket for each client address.  Logins   *)
(* and other requests draw on the same bucket, each with limits of its     *)
(* own, and buckets are dropped when they are stale or too many.           *)
(*                                                                         *)
(* A bucket is refilled when it is used, for the ticks since its last use; *)
(* STALE ticks fill it whatever the rate, so its age counts no further.    *)
(***************************************************************************)
EXTENDS Integers, FiniteSets

CONSTANTS
    Addresses,        \* client addresses of one shard
    MAX_TOKENS, REFILL,            \* the general limits, tokens and per tick
    LOGIN_TOKENS, LOGIN_REFILL,    \* the stricter ones of a login
    STALE,            \* ticks after which a bucket is stale (10 minutes)
    CLEANUP,          \* ticks between cleanups (a minute)
    MAX_BUCKETS

ASSUME RateLimitAssumption ==
    /\ MAX_TOKENS \in Nat \ {0} /\ REFILL \in Nat
    /\ LOGIN_TOKENS \in 1 .. MAX_TOKENS /\ LOGIN_REFILL \in 0 .. REFILL
    /\ STALE \in Nat \ {0} /\ CLEANUP \in Nat \ {0}
    /\ LOGIN_TOKENS =< STALE * LOGIN_REFILL
    /\ MAX_TOKENS =< STALE * REFILL
    /\ MAX_BUCKETS \in Nat \ {0}

VARIABLES
    buckets,       \* the addresses that have a bucket
    amount,        \* the tokens in it after its last use
    age,           \* ticks since then
    cleanedAgo,    \* ticks since last_cleanup
    credit,        \* history: the tokens of a bucket that is never dropped
    over,          \* history: addresses let through without such a token
    evicted        \* history: addresses whose bucket had to make room

limitVars == <<buckets, amount, age, cleanedAgo, credit, over, evicted>>

LimitTypeOK ==
    /\ buckets \subseteq Addresses /\ Cardinality(buckets) =< MAX_BUCKETS
    /\ amount \in [Addresses -> 0 .. MAX_TOKENS]
    /\ age \in [Addresses -> 0 .. STALE]
    /\ cleanedAgo \in 0 .. CLEANUP
    /\ credit \in [Addresses -> 0 .. MAX_TOKENS]
    /\ over \subseteq Addresses /\ evicted \subseteq Addresses

LimitInit ==
    /\ buckets = {}
    /\ amount = [a \in Addresses |-> 0]
    /\ age = [a \in Addresses |-> 0]
    /\ cleanedAgo = 0
    /\ credit = [a \in Addresses |-> MAX_TOKENS]
    /\ over = {} /\ evicted = {}

AtMost(n, limit) == IF n < limit THEN n ELSE limit

\* TokenBucket::new or the bucket that is kept, refilled by consume.
Refilled(a, kept, max, rate) ==
    IF a \in kept THEN AtMost(amount[a] + age[a] * rate, max) ELSE max

\* Bug: a bucket is dropped one tick before it must be full.
FreshTooFew == {a \in buckets : age[a] < STALE - 1}

\* The buckets the sweeps retain.
Fresh == {a \in buckets : age[a] < STALE}

SweepDue == cleanedAgo = CLEANUP \/ Cardinality(buckets) >= MAX_BUCKETS

Swept == IF SweepDue THEN Fresh ELSE buckets

\* The buckets a request of a may find: what the sweep left and, if there is still
\* no room for a new one, without the one used least lately.
Room(a) ==
    IF a \notin Swept /\ Cardinality(Swept) >= MAX_BUCKETS
    THEN {Swept \ {b} : b \in {x \in Swept : \A y \in Swept : age[y] =< age[x]}}
    ELSE {Swept}

\* RateLimitMiddleware::call, for a path that is not exempt.
LimitRequest(a, login) ==
    LET max  == IF login THEN LOGIN_TOKENS ELSE MAX_TOKENS
        rate == IF login THEN LOGIN_REFILL ELSE REFILL
    IN  \E kept \in Room(a) :
        \E tokens \in {Refilled(a, kept, max, rate)} :
          /\ buckets' = kept \cup {a}
          /\ amount' = [amount EXCEPT ![a] = IF tokens >= 1 THEN tokens - 1 ELSE tokens]
          /\ age' = [age EXCEPT ![a] = 0]
          /\ cleanedAgo' = IF SweepDue THEN 0 ELSE cleanedAgo
          /\ credit' = [credit EXCEPT ![a] = IF tokens >= 1 /\ @ > 0 THEN @ - 1 ELSE @]
          /\ over' = IF tokens >= 1 /\ credit[a] = 0 THEN over \cup {a} ELSE over
          /\ evicted' = evicted \cup (Swept \ kept)

LimitTick ==
    /\ age' = [a \in Addresses |-> IF a \in buckets THEN AtMost(age[a] + 1, STALE) ELSE age[a]]
    /\ cleanedAgo' = AtMost(cleanedAgo + 1, CLEANUP)
    /\ credit' = [a \in Addresses |-> AtMost(credit[a] + REFILL, MAX_TOKENS)]
    /\ UNCHANGED <<buckets, amount, over, evicted>>

LimitNext ==
    \/ LimitTick
    \/ \E a \in Addresses, login \in BOOLEAN : LimitRequest(a, login)

LimitSpec == LimitInit /\ [][LimitNext]_limitVars

-----------------------------------------------------------------------------
(* Properties *)

\* Dropping stale buckets gives nobody more than the limit: an address is let
\* through at most MAX_TOKENS times at once and REFILL times a tick after that,
\* whatever it mixes, unless its bucket was evicted to make room for others.
WithinRate == over \subseteq evicted

=============================================================================
