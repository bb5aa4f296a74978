------------------------------- MODULE ApiKeys -------------------------------
(***************************************************************************)
(* API keys of the OTLP receivers: authentication (auth/apiKeyAuth), the   *)
(* token bucket of each key (middleware/perKeyRateLimit), the usage        *)
(* counters (middleware/trackApiKeyUsage) and the routes that create,      *)
(* limit, lock and revoke keys.  From the body of a request to its handler *)
(* nothing awaits, so a request is one step.                               *)
(*                                                                         *)
(* The two granularities of the usage buckets are counted alike and are    *)
(* one counter here; tokens are counted in fractions of 1/Unit.            *)
(***************************************************************************)
EXTENDS Integers, FiniteSets

CONSTANTS
    ApiKeyIds,     \* ids of keys; never used twice
    Rates,         \* limits: fractions of a token refilled in a tick
    DefaultRate,   \* OTLP_PER_KEY_RATE_LIMIT_RPM, the limit of a key without
    MaxTeamRate,   \* the largest limit a team lead may set
    Unit,          \* the fractions that make a token
    BurstTicks,    \* OTLP_RATE_LIMIT_BURST_SECONDS
    MaxTicks,      \* bound: time
    MaxRequests    \* bound: requests of each key

Unlimited == 0
NoRate == -1      \* NULL in rate_limit_rpm

ASSUME ApiKeyConstants ==
    /\ Rates \subseteq Nat \ {0}
    /\ DefaultRate \in Rates \cup {Unlimited}
    /\ Unit \in Nat \ {0} /\ BurstTicks \in Nat \ {0}
    /\ MaxTicks \in Nat /\ MaxRequests \in Nat

VARIABLES
    apiKey,   \* team_api_keys: status, limit and admin lock
    bucket,   \* perKeyRateLimit.buckets
    pending,  \* trackApiKeyUsage.accumulator
    stored,   \* api_key_usage_buckets
    clock,    \* time
    since,    \* history: when the bucket was made and what it let pass
    tally     \* history: what was let pass, refused, and not stored in time

keyVars == <<apiKey, bucket, pending, stored, clock, since, tally>>

Counts == [count : 0..MaxRequests, rejected : 0..MaxRequests]
Zero == [count |-> 0, rejected |-> 0]
Plus(x, y) == [count |-> x.count + y.count, rejected |-> x.rejected + y.rejected]
NoBucket == [tokens |-> 0, capacity |-> 0, rate |-> 0, last |-> 0]

Usable(k) == apiKey[k].status = "active"
EffectiveRate(k) == IF apiKey[k].rate = NoRate THEN DefaultRate ELSE apiKey[k].rate

\* Math.ceil of the burst, in fractions of a token.
Capacity(rate) == ((rate * BurstTicks + Unit - 1) \div Unit) * Unit
NewBucket(rate) == [tokens |-> Capacity(rate), capacity |-> Capacity(rate),
                    rate |-> rate, last |-> clock]
BucketOf(k) == IF bucket[k] # NoBucket THEN bucket[k] ELSE NewBucket(EffectiveRate(k))

Least(x, y) == IF x <= y THEN x ELSE y
\* Mutant: a refused request does not move lastRefillAt.
RefilledFromStart(b) ==
    LET tokens == Least(b.capacity, b.tokens + (clock - b.last) * b.rate)
    IN  [b EXCEPT !.tokens = tokens, !.last = IF tokens < Unit THEN @ ELSE clock]
\* refillBucket.
Refilled(b) ==
    [b EXCEPT !.tokens = Least(b.capacity, b.tokens + (clock - b.last) * b.rate),
              !.last = clock]

\* setRateLimit and the rest keep the counters of a bucket that was there.
Since(k) == IF bucket[k] # NoBucket THEN since[k] ELSE [time |-> clock, passed |-> 0]

----------------------------------------------------------------------------
(* A request with an existing key; others are answered 401. *)

MayAsk(k) == Usable(k) /\ tally[k].passed + tally[k].refused < MaxRequests

\* A key without limit has no bucket.
PassUnlimited(k) ==
    /\ MayAsk(k) /\ EffectiveRate(k) = Unlimited
    /\ pending' = [pending EXCEPT ![k].count = @ + 1]
    /\ tally' = [tally EXCEPT ![k].passed = @ + 1]
    /\ UNCHANGED <<apiKey, bucket, stored, clock, since>>

Pass(k) ==
    LET b == Refilled(BucketOf(k))
    IN  /\ MayAsk(k) /\ EffectiveRate(k) # Unlimited
        /\ b.tokens >= Unit
        /\ bucket' = [bucket EXCEPT ![k] = [b EXCEPT !.tokens = @ - Unit]]
        /\ since' = [since EXCEPT ![k] = [Since(k) EXCEPT !.passed = @ + 1]]
        /\ pending' = [pending EXCEPT ![k].count = @ + 1]
        /\ tally' = [tally EXCEPT ![k].passed = @ + 1]
        /\ UNCHANGED <<apiKey, stored, clock>>

\* 429: counted as rejected by the limiter; the usage middleware is not reached.
Refuse(k) ==
    LET b == Refilled(BucketOf(k))
    IN  /\ MayAsk(k) /\ EffectiveRate(k) # Unlimited
        /\ b.tokens < Unit
        /\ bucket' = [bucket EXCEPT ![k] = b]
        /\ since' = [since EXCEPT ![k] = Since(k)]
        /\ pending' = [pending EXCEPT ![k].rejected = @ + 1]
        /\ tally' = [tally EXCEPT ![k].refused = @ + 1]
        /\ UNCHANGED <<apiKey, stored, clock>>

----------------------------------------------------------------------------
(* The flusher and the end of the process. *)

\* Mutant: the accumulator is not replaced when it is stored.
AfterFlushKept == pending
\* The accumulator is swapped for an empty one before it is stored.
AfterFlush == [k \in ApiKeyIds |-> Zero]

Flush ==
    /\ \E k \in ApiKeyIds : pending[k] # Zero
    /\ pending' = AfterFlush
    /\ stored' = [k \in ApiKeyIds |-> Plus(stored[k], pending[k])]
    /\ UNCHANGED <<apiKey, bucket, clock, since, tally>>

\* The shutdown does not call stopUsageFlusher or flush and ends with
\* process.exit, which does not run beforeExit: what is pending is lost, as
\* after a crash, and so are the buckets.
RestartServer ==
    /\ pending' = [k \in ApiKeyIds |-> Zero]
    /\ bucket' = [k \in ApiKeyIds |-> NoBucket]
    /\ tally' = [k \in ApiKeyIds |-> [tally[k] EXCEPT !.lost = Plus(@, pending[k])]]
    /\ UNCHANGED <<apiKey, stored, clock, since>>

----------------------------------------------------------------------------
(* The routes. *)

CreateKey(k) ==
    /\ apiKey[k].status = "new"
    /\ apiKey' = [apiKey EXCEPT ![k].status = "active"]
    /\ UNCHANGED <<bucket, pending, stored, clock, since, tally>>

\* The bucket of a revoked key stays: its id is never used again.
RevokeKey(k) ==
    /\ Usable(k)
    /\ apiKey' = [apiKey EXCEPT ![k].status = "revoked"]
    /\ UNCHANGED <<bucket, pending, stored, clock, since, tally>>

\* evictBucket.
Evict(k) == [bucket EXCEPT ![k] = NoBucket]

SetLimit(k, rate, locked) ==
    /\ Usable(k)
    /\ apiKey' = [apiKey EXCEPT ![k].rate = rate, ![k].locked = locked]
    /\ bucket' = Evict(k)
    /\ UNCHANGED <<pending, stored, clock, since, tally>>

\* The route of team leads: a positive limit or none, unless an admin locked it.
TeamSetsLimit(k, rate) ==
    /\ ~apiKey[k].locked
    /\ rate # Unlimited /\ rate <= MaxTeamRate
    /\ SetLimit(k, rate, FALSE)

\* The route of admins: updateRateLimit, or with admin_locked setAdminLock,
\* where COALESCE keeps the limit if none is given.
AdminSetsLimit(k, rate) == SetLimit(k, rate, apiKey[k].locked)
AdminLocks(k, rate, locked) ==
    SetLimit(k, IF rate = NoRate THEN apiKey[k].rate ELSE rate, locked)

Advance ==
    /\ clock < MaxTicks
    /\ clock' = clock + 1
    /\ UNCHANGED <<apiKey, bucket, pending, stored, since, tally>>

----------------------------------------------------------------------------
KeyInit ==
    /\ apiKey = [k \in ApiKeyIds |-> [status |-> "new", rate |-> NoRate, locked |-> FALSE]]
    /\ bucket = [k \in ApiKeyIds |-> NoBucket]
    /\ pending = [k \in ApiKeyIds |-> Zero]
    /\ stored = [k \in ApiKeyIds |-> Zero]
    /\ clock = 0
    /\ since = [k \in ApiKeyIds |-> [time |-> 0, passed |-> 0]]
    /\ tally = [k \in ApiKeyIds |-> [passed |-> 0, refused |-> 0, lost |-> Zero]]

AnyRate == Rates \cup {NoRate, Unlimited}
KeyNext ==
    \/ \E k \in ApiKeyIds :
          \/ PassUnlimited(k) \/ Pass(k) \/ Refuse(k)
          \/ CreateKey(k) \/ RevokeKey(k)
          \/ \E rate \in AnyRate :
                \/ TeamSetsLimit(k, rate)
                \/ AdminSetsLimit(k, rate)
                \/ \E locked \in BOOLEAN : AdminLocks(k, rate, locked)
    \/ Flush \/ RestartServer \/ Advance

KeySpec == KeyInit /\ [][KeyNext]_keyVars

----------------------------------------------------------------------------
(* Properties. *)

KeyTypeOK ==
    /\ apiKey \in [ApiKeyIds -> [status : {"new", "active", "revoked"},
                                 rate : AnyRate, locked : BOOLEAN]]
    /\ bucket \in [ApiKeyIds -> [tokens : Nat, capacity : Nat, rate : Nat, last : 0..MaxTicks]]
    /\ \A k \in ApiKeyIds : bucket[k].tokens <= bucket[k].capacity
    /\ pending \in [ApiKeyIds -> Counts]
    /\ stored \in [ApiKeyIds -> Counts]
    /\ clock \in 0..MaxTicks
    /\ since \in [ApiKeyIds -> [time : 0..MaxTicks, passed : 0..MaxRequests]]
    /\ tally \in [ApiKeyIds -> [passed : 0..MaxRequests, refused : 0..MaxRequests,
                                lost : Counts]]

\* Since its limit was last set, or the process started, a key has let pass no
\* more requests than one burst and what its present limit refilled since.
RateKept == \A k \in ApiKeyIds :
    (bucket[k] # NoBucket /\ Usable(k)) =>
        Unit * since[k].passed <=
            Capacity(EffectiveRate(k)) + EffectiveRate(k) * (clock - since[k].time)

\* Every request is counted exactly once, as passed or as rejected: it is
\* pending, stored, or was pending when a process ended.
UsageConserved == \A k \in ApiKeyIds :
    Plus(Plus(pending[k], stored[k]), tally[k].lost) =
        [count |-> tally[k].passed, rejected |-> tally[k].refused]

\* What the limiter and the counters promise together.
KeysAreMetered == RateKept /\ UsageConserved
=============================================================================
