----------------------------- MODULE ServerProofs -----------------------------
(***************************************************************************)
(* Proofs about parts of the server that share a module: API keys with     *)
(* their limits, accounts, the metadata of manifests, the reports with     *)
(* their listeners and histories, the daily cleanup, and what the parsers  *)
(* make of a report.  They share no variable, and each theorem is about    *)
(* the specification of its own part.                                      *)
(*                                                                         *)
(* KeyInv adds to the types what both results on keys need: the three      *)
(* places a request may be counted in add up to the requests there were,   *)
(* and what a bucket holds together with what it let pass never exceeds    *)
(* one burst and the refill up to its last use.                            *)
(*                                                                         *)
(* AdminRemains is inductive on the types.  OneBootstrapAdmin needs that   *)
(* nobody without a row has a role, so that the first login of an empty    *)
(* database finds no admin; it is proved as "any two of them are equal".   *)
(*                                                                         *)
(* A parser is a fold over a list.  FoldStages makes a fold the last of a  *)
(* list of stages, so that a fact about the first k elements is carried to *)
(* k + 1.  The fact for metrics is EntriesSay, for spans GroupsSay: what   *)
(* is gathered so far says, of each dependency, what the set of the        *)
(* elements read so far says.  SaidInv carries it to the stored rows: a    *)
(* row and the last report that names its dependency Agree.                *)
(***************************************************************************)
EXTENDS ApiKeys, Accounts, ManifestMetadata, Ingestion, Reports, Retention,
        MigrationsProofs, FiniteSetTheorems, TLAPS

----------------------------------------------------------------------------
(* ApiKeys. *)


Bucket == [tokens : Nat, capacity : Nat, rate : Nat, last : 0..MaxTicks]
Key == [status : {"new", "active", "revoked"}, rate : AnyRate, locked : BOOLEAN]
Usage == [count : Nat, rejected : Nat]

\* The counters of a key: nobody is counted twice, and no more requests than
\* there may be.
CountedOnce(k) ==
    /\ pending[k] \in Usage /\ stored[k] \in Usage /\ tally[k].lost \in Usage
    /\ tally[k].passed \in Nat /\ tally[k].refused \in Nat
    /\ tally[k].passed + tally[k].refused <= MaxRequests
    /\ pending[k].count + stored[k].count + tally[k].lost.count = tally[k].passed
    /\ pending[k].rejected + stored[k].rejected + tally[k].lost.rejected = tally[k].refused
    /\ since[k].passed <= tally[k].passed

\* The bucket of a key works with the key's limit, and it has not given out
\* more than it was filled with.
Metered(k) ==
    bucket[k] # NoBucket =>
        /\ bucket[k].rate = EffectiveRate(k) /\ bucket[k].rate # Unlimited
        /\ bucket[k].capacity = Capacity(bucket[k].rate)
        /\ bucket[k].tokens <= bucket[k].capacity
        /\ since[k].time <= bucket[k].last /\ bucket[k].last <= clock
        /\ bucket[k].tokens + Unit * since[k].passed
              <= Capacity(bucket[k].rate) + bucket[k].rate * (bucket[k].last - since[k].time)

\* The shape of the state.
Shape ==
    /\ apiKey \in [ApiKeyIds -> Key]
    /\ bucket \in [ApiKeyIds -> Bucket]
    /\ pending \in [ApiKeyIds -> Usage]
    /\ stored \in [ApiKeyIds -> Usage]
    /\ clock \in 0..MaxTicks
    /\ since \in [ApiKeyIds -> [time : 0..MaxTicks, passed : Nat]]
    /\ tally \in [ApiKeyIds -> [passed : Nat, refused : Nat, lost : Usage]]

KeyInv == Shape /\ \A k \in ApiKeyIds : CountedOnce(k) /\ Metered(k)

----------------------------------------------------------------------------
(* Arithmetic. *)

\* Numbers of fractions.
LEMMA CapacityIsNat ==
    ASSUME NEW rate \in Nat
    PROVE  Capacity(rate) \in Nat
  <1> DEFINE n == rate * BurstTicks + Unit - 1
  <1>1. BurstTicks \in Nat /\ Unit \in Nat /\ Unit >= 1
    BY ApiKeyConstants
  <1>2. rate * BurstTicks \in Nat
    BY <1>1
  <1>3. n \in Nat
    BY <1>1, <1>2
  <1> HIDE DEF n
  <1>4. n \div Unit \in Nat
    BY <1>1, <1>3
  <1>5. (n \div Unit) * Unit \in Nat
    BY <1>1, <1>4
  <1> QED
    BY <1>5 DEF Capacity, n

\* A refill over two stretches of time is the refill over both.
LEMMA RefillAdds ==
    ASSUME NEW r \in Nat, NEW x \in Int, NEW y \in Int, NEW z \in Int
    PROVE  r * (y - x) + (z - y) * r = r * (z - x)
  OBVIOUS

\* Time only adds to the refill.
LEMMA RefillGrows ==
    ASSUME NEW r \in Nat, NEW x \in Int, NEW y \in Int, x <= y
    PROVE  r * x <= r * y /\ r * x \in Int /\ r * y \in Int /\ (x >= 0 => r * x >= 0)
  OBVIOUS

----------------------------------------------------------------------------
(* The bucket of a request. *)

\* The limits there may be are numbers.
LEMMA RatesAreNat ==
    ASSUME NEW rate \in AnyRate
    PROVE  (rate # NoRate => rate \in Nat) /\ DefaultRate \in Nat
  <1>1. Rates \subseteq Nat /\ DefaultRate \in Rates \cup {0}
    BY ApiKeyConstants DEF Unlimited
  <1> QED
    BY <1>1 DEF AnyRate, Unlimited

\* What is counted of a key are numbers.
LEMMA CountersAreNat ==
    ASSUME Shape, NEW k \in ApiKeyIds
    PROVE  /\ pending[k].count \in Nat /\ pending[k].rejected \in Nat
           /\ stored[k].count \in Nat /\ stored[k].rejected \in Nat
           /\ tally[k].lost.count \in Nat /\ tally[k].lost.rejected \in Nat
           /\ tally[k].passed \in Nat /\ tally[k].refused \in Nat
           /\ since[k].passed \in Nat
  BY DEF Shape, Usage

\* The bucket a request finds, refilled, is metered up to now.
LEMMA RefilledMetered ==
    ASSUME KeyInv, NEW k \in ApiKeyIds, EffectiveRate(k) # Unlimited,
           NEW b, b = Refilled(BucketOf(k))
    PROVE  /\ b \in Bucket /\ b.rate = EffectiveRate(k)
           /\ b.capacity = Capacity(b.rate) /\ b.tokens <= b.capacity
           /\ b.last = clock /\ Since(k).time <= clock
           /\ Since(k) \in [time : 0..MaxTicks, passed : Nat]
           /\ Since(k).passed <= tally[k].passed
           /\ b.tokens + Unit * Since(k).passed
                <= Capacity(b.rate) + b.rate * (clock - Since(k).time)
  <1>1. /\ apiKey[k] \in Key /\ bucket[k] \in Bucket
        /\ since[k] \in [time : 0..MaxTicks, passed : Nat] /\ clock \in 0..MaxTicks
        /\ since[k].passed <= tally[k].passed /\ tally[k].passed \in Nat
    BY DEF KeyInv, Shape, CountedOnce
  <1>2. EffectiveRate(k) \in Nat
    BY <1>1, RatesAreNat DEF EffectiveRate, Key
  <1>3. Unit \in Nat /\ MaxTicks \in Nat
    BY ApiKeyConstants
  <1> DEFINE a == BucketOf(k)
             rate == EffectiveRate(k)
             time == Since(k).time
             passed == Since(k).passed
  <1>4. /\ a \in Bucket /\ a.rate = rate /\ a.capacity = Capacity(rate)
        /\ a.tokens <= a.capacity /\ a.last <= clock
        /\ Since(k) \in [time : 0..MaxTicks, passed : Nat] /\ time <= a.last
        /\ Since(k).passed <= tally[k].passed
        /\ a.tokens + Unit * passed <= Capacity(rate) + rate * (a.last - time)
    <2>1. CASE bucket[k] # NoBucket
      BY <1>1, <2>1 DEF BucketOf, Since, KeyInv, Metered
    <2>2. CASE bucket[k] = NoBucket
      <3>1. /\ a = NewBucket(rate) /\ Since(k) = [time |-> clock, passed |-> 0]
        BY <2>2 DEF BucketOf, Since
      <3>2. Capacity(rate) \in Nat
        BY <1>2, CapacityIsNat
      <3>3. rate * (clock - clock) = 0 /\ Unit * 0 = 0
        BY <1>1, <1>2, <1>3
      <3> HIDE DEF rate, a
      <3> QED
        BY <1>1, <1>2, <3>1, <3>2, <3>3 DEF NewBucket, Bucket, rate
    <2> QED
      BY <2>1, <2>2
  <1> HIDE DEF a, rate, time, passed
  <1>5. /\ a.tokens \in Nat /\ a.last \in 0..MaxTicks /\ Capacity(rate) \in Nat
        /\ time \in Int /\ passed \in Nat /\ rate \in Nat /\ clock \in Int
    BY <1>1, <1>2, <1>4, CapacityIsNat DEF Bucket, rate, time, passed
  <1>6. clock - a.last >= 0 /\ (clock - a.last) * rate \in Nat
    BY <1>1, <1>4, <1>5
  <1>7. Least(a.capacity, a.tokens + (clock - a.last) * rate) \in Nat
    BY <1>4, <1>5, <1>6 DEF Least
  <1>8. Least(a.capacity, a.tokens + (clock - a.last) * rate)
            <= a.tokens + (clock - a.last) * rate
    BY <1>4, <1>5, <1>6 DEF Least
  <1>9. Least(a.capacity, a.tokens + (clock - a.last) * rate) <= a.capacity
    BY <1>4, <1>5, <1>6 DEF Least
  <1>10. b = [tokens |-> Least(a.capacity, a.tokens + (clock - a.last) * rate),
              capacity |-> a.capacity, rate |-> a.rate, last |-> clock]
    BY <1>4 DEF Refilled, Bucket, a
  <1>11. rate * (a.last - time) + (clock - a.last) * rate = rate * (clock - time)
    BY <1>5, RefillAdds
  <1>12. /\ Unit * passed \in Int /\ rate * (a.last - time) \in Int
         /\ rate * (clock - time) \in Int
    BY <1>3, <1>5
  <1>13. b.tokens + Unit * passed <= Capacity(rate) + rate * (clock - time)
    BY <1>4, <1>5, <1>6, <1>7, <1>8, <1>10, <1>11, <1>12
  <1>14. /\ b.rate = rate /\ b.capacity = a.capacity /\ b.last = clock
         /\ b.tokens <= b.capacity /\ b \in Bucket
    BY <1>1, <1>4, <1>7, <1>9, <1>10 DEF Bucket
  <1>15. time <= clock
    BY <1>1, <1>4, <1>5
  <1> QED
    BY <1>4, <1>13, <1>14, <1>15 DEF rate, time, passed

\* A request changes only what belongs to its key.
LEMMA OneKey ==
    ASSUME KeyInv, NEW k \in ApiKeyIds, Shape', apiKey' = apiKey, clock' = clock,
           \A q \in ApiKeyIds \ {k} :
                /\ bucket'[q] = bucket[q] /\ since'[q] = since[q]
                /\ pending'[q] = pending[q] /\ stored'[q] = stored[q] /\ tally'[q] = tally[q],
           CountedOnce(k)', Metered(k)'
    PROVE  KeyInv'
  BY DEF KeyInv, CountedOnce, Metered, EffectiveRate

\* A request is counted once: passed ...
LEMMA OneMorePassed ==
    ASSUME Shape, Shape', NEW k \in ApiKeyIds, CountedOnce(k),
           tally[k].passed + tally[k].refused < MaxRequests,
           stored' = stored,
           pending'[k] = [count |-> pending[k].count + 1, rejected |-> pending[k].rejected],
           tally'[k] = [passed |-> tally[k].passed + 1, refused |-> tally[k].refused,
                        lost |-> tally[k].lost],
           since'[k].passed <= tally[k].passed + 1
    PROVE  CountedOnce(k)'
  <1>1. /\ pending'[k] \in Usage /\ stored'[k] \in Usage /\ tally'[k].lost \in Usage
    BY DEF Shape
  <1>2. /\ pending'[k].count = pending[k].count + 1
        /\ pending'[k].rejected = pending[k].rejected
        /\ tally'[k].passed = tally[k].passed + 1
        /\ tally'[k].refused = tally[k].refused
        /\ tally'[k].lost = tally[k].lost /\ stored'[k] = stored[k]
    OBVIOUS
  <1>3. MaxRequests \in Nat
    BY ApiKeyConstants
  <1> QED
    BY <1>1, <1>2, <1>3, CountersAreNat DEF CountedOnce

\* ... or refused.
LEMMA OneMoreRefused ==
    ASSUME Shape, Shape', NEW k \in ApiKeyIds, CountedOnce(k),
           tally[k].passed + tally[k].refused < MaxRequests,
           stored' = stored,
           pending'[k] = [count |-> pending[k].count, rejected |-> pending[k].rejected + 1],
           tally'[k] = [passed |-> tally[k].passed, refused |-> tally[k].refused + 1,
                        lost |-> tally[k].lost],
           since'[k].passed <= tally[k].passed
    PROVE  CountedOnce(k)'
  <1>1. /\ pending'[k] \in Usage /\ stored'[k] \in Usage /\ tally'[k].lost \in Usage
    BY DEF Shape
  <1>2. /\ pending'[k].count = pending[k].count
        /\ pending'[k].rejected = pending[k].rejected + 1
        /\ tally'[k].passed = tally[k].passed
        /\ tally'[k].refused = tally[k].refused + 1
        /\ tally'[k].lost = tally[k].lost /\ stored'[k] = stored[k]
    OBVIOUS
  <1>3. MaxRequests \in Nat
    BY ApiKeyConstants
  <1> QED
    BY <1>1, <1>2, <1>3, CountersAreNat DEF CountedOnce

\* A request that is let pass takes a token.
LEMMA PassStep ==
    ASSUME KeyInv, NEW k \in ApiKeyIds, Pass(k)
    PROVE  KeyInv'
  <1> DEFINE b == Refilled(BucketOf(k))
             c == [b EXCEPT !.tokens = @ - Unit]
  <1>1. /\ b \in Bucket /\ b.rate = EffectiveRate(k) /\ b.rate # Unlimited
        /\ b.capacity = Capacity(b.rate) /\ b.tokens <= b.capacity
        /\ b.last = clock /\ Since(k).time <= clock
        /\ Since(k) \in [time : 0..MaxTicks, passed : Nat]
        /\ Since(k).passed <= tally[k].passed
        /\ b.tokens + Unit * Since(k).passed
                <= Capacity(b.rate) + b.rate * (clock - Since(k).time)
    BY RefilledMetered DEF Pass
  <1>2. /\ b.tokens >= Unit /\ bucket' = [bucket EXCEPT ![k] = c]
        /\ since' = [since EXCEPT ![k] = [Since(k) EXCEPT !.passed = @ + 1]]
        /\ pending' = [pending EXCEPT ![k].count = @ + 1]
        /\ tally' = [tally EXCEPT ![k].passed = @ + 1]
        /\ UNCHANGED <<apiKey, stored, clock>>
        /\ tally[k].passed + tally[k].refused < MaxRequests
    BY DEF Pass, MayAsk
  <1> HIDE DEF b
  <1>3. Shape /\ CountedOnce(k) /\ Unit \in Nat
    BY ApiKeyConstants DEF KeyInv
  <1>4. c \in Bucket /\ c.rate = b.rate /\ c.capacity = b.capacity /\ c.last = b.last
        /\ c.tokens = b.tokens - Unit
    BY <1>1, <1>2, <1>3 DEF Bucket
  <1> HIDE DEF c
  <1>5. since'[k] = [time |-> Since(k).time, passed |-> Since(k).passed + 1]
    BY <1>1, <1>2, <1>3 DEF Shape
  <1>6. /\ pending'[k] = [count |-> pending[k].count + 1, rejected |-> pending[k].rejected]
        /\ tally'[k] = [passed |-> tally[k].passed + 1, refused |-> tally[k].refused,
                        lost |-> tally[k].lost]
    BY <1>2, <1>3 DEF Shape, Usage
  <1>7. /\ since'[k] \in [time : 0..MaxTicks, passed : Nat] /\ pending'[k] \in Usage
        /\ tally'[k] \in [passed : Nat, refused : Nat, lost : Usage]
    BY <1>1, <1>3, <1>5, <1>6 DEF Shape, Usage
  <1>8. Shape'
    BY <1>2, <1>3, <1>4, <1>7 DEF Shape
  <1>9. CountedOnce(k)'
    <2>1. since'[k].passed <= tally[k].passed + 1
      BY <1>1, <1>3, <1>5, CountersAreNat
    <2> QED
      BY <1>2, <1>3, <1>6, <1>8, <2>1, OneMorePassed
  <1>10. Unit * (Since(k).passed + 1) = Unit * Since(k).passed + Unit
    BY <1>1, <1>3
  <1>11. Metered(k)'
    <2>1. bucket'[k] = c
      BY <1>2, <1>3 DEF Shape
    <2>2. EffectiveRate(k)' = EffectiveRate(k)
      BY <1>2 DEF EffectiveRate
    <2>3. /\ c.tokens \in Int /\ Unit * Since(k).passed \in Int
          /\ Capacity(b.rate) \in Int /\ b.rate * (clock - Since(k).time) \in Int
          /\ b.tokens \in Int
      BY <1>1, <1>3, <1>4 DEF Bucket, Shape
    <2>4. c.tokens + Unit * (Since(k).passed + 1)
             <= Capacity(b.rate) + b.rate * (clock - Since(k).time)
      BY <1>1, <1>3, <1>4, <1>10, <2>3
    <2>5. c.tokens <= c.capacity
      BY <1>1, <1>3, <1>4 DEF Bucket
    <2> QED
      BY <1>1, <1>2, <1>4, <1>5, <2>1, <2>2, <2>4, <2>5 DEF Metered, Bucket
  <1>12. \A q \in ApiKeyIds \ {k} :
            /\ bucket'[q] = bucket[q] /\ since'[q] = since[q]
            /\ pending'[q] = pending[q] /\ stored'[q] = stored[q] /\ tally'[q] = tally[q]
    BY <1>2, <1>3 DEF Shape
  <1> QED
    BY <1>2, <1>8, <1>9, <1>11, <1>12, OneKey

\* A refused request only refills the bucket.
LEMMA RefuseStep ==
    ASSUME KeyInv, NEW k \in ApiKeyIds, Refuse(k)
    PROVE  KeyInv'
  <1> DEFINE b == Refilled(BucketOf(k))
  <1>1. /\ b \in Bucket /\ b.rate = EffectiveRate(k) /\ b.rate # Unlimited
        /\ b.capacity = Capacity(b.rate) /\ b.tokens <= b.capacity
        /\ b.last = clock /\ Since(k).time <= clock
        /\ Since(k) \in [time : 0..MaxTicks, passed : Nat]
        /\ Since(k).passed <= tally[k].passed
        /\ b.tokens + Unit * Since(k).passed
                <= Capacity(b.rate) + b.rate * (clock - Since(k).time)
    BY RefilledMetered DEF Refuse
  <1>2. /\ bucket' = [bucket EXCEPT ![k] = b]
        /\ since' = [since EXCEPT ![k] = Since(k)]
        /\ pending' = [pending EXCEPT ![k].rejected = @ + 1]
        /\ tally' = [tally EXCEPT ![k].refused = @ + 1]
        /\ UNCHANGED <<apiKey, stored, clock>>
        /\ tally[k].passed + tally[k].refused < MaxRequests
    BY DEF Refuse, MayAsk
  <1> HIDE DEF b
  <1>3. Shape /\ CountedOnce(k)
    BY DEF KeyInv
  <1>4. bucket'[k] = b /\ since'[k] = Since(k)
    BY <1>2, <1>3 DEF Shape
  <1>5. /\ pending'[k] = [count |-> pending[k].count, rejected |-> pending[k].rejected + 1]
        /\ tally'[k] = [passed |-> tally[k].passed, refused |-> tally[k].refused + 1,
                        lost |-> tally[k].lost]
    BY <1>2, <1>3 DEF Shape, Usage
  <1>6. /\ pending'[k] \in Usage
        /\ tally'[k] \in [passed : Nat, refused : Nat, lost : Usage]
    BY <1>3, <1>5 DEF Shape, Usage
  <1>7. Shape'
    BY <1>1, <1>2, <1>3, <1>6 DEF Shape
  <1>8. CountedOnce(k)'
    BY <1>1, <1>2, <1>3, <1>4, <1>5, <1>7, OneMoreRefused
  <1>9. EffectiveRate(k)' = EffectiveRate(k)
    BY <1>2 DEF EffectiveRate
  <1>10. clock <= clock
    BY <1>3 DEF Shape
  <1>11. Metered(k)'
    BY <1>1, <1>2, <1>4, <1>9, <1>10 DEF Metered
  <1>12. \A q \in ApiKeyIds \ {k} :
            /\ bucket'[q] = bucket[q] /\ since'[q] = since[q]
            /\ pending'[q] = pending[q] /\ stored'[q] = stored[q] /\ tally'[q] = tally[q]
    BY <1>2, <1>3 DEF Shape
  <1> QED
    BY <1>2, <1>7, <1>8, <1>11, <1>12, OneKey

\* A request of a key without limit touches no bucket.
LEMMA PassUnlimitedStep ==
    ASSUME KeyInv, NEW k \in ApiKeyIds, PassUnlimited(k)
    PROVE  KeyInv'
  <1>1. /\ pending' = [pending EXCEPT ![k].count = @ + 1]
        /\ tally' = [tally EXCEPT ![k].passed = @ + 1]
        /\ UNCHANGED <<apiKey, bucket, stored, clock, since>>
        /\ tally[k].passed + tally[k].refused < MaxRequests
    BY DEF PassUnlimited, MayAsk
  <1>2. Shape /\ CountedOnce(k) /\ Metered(k)
    BY DEF KeyInv
  <1>3. /\ pending'[k] = [count |-> pending[k].count + 1, rejected |-> pending[k].rejected]
        /\ tally'[k] = [passed |-> tally[k].passed + 1, refused |-> tally[k].refused,
                        lost |-> tally[k].lost]
    BY <1>1, <1>2 DEF Shape, Usage
  <1>4. /\ pending'[k] \in Usage
        /\ tally'[k] \in [passed : Nat, refused : Nat, lost : Usage]
    BY <1>2, <1>3 DEF Shape, Usage
  <1>5. Shape'
    BY <1>1, <1>2, <1>4 DEF Shape
  <1>6. since'[k].passed <= tally[k].passed + 1
    BY <1>1, <1>2, CountersAreNat DEF CountedOnce
  <1>7. CountedOnce(k)'
    BY <1>1, <1>2, <1>3, <1>5, <1>6, OneMorePassed
  <1>8. Metered(k)'
    BY <1>1, <1>2 DEF Metered, EffectiveRate
  <1>9. \A q \in ApiKeyIds \ {k} :
            /\ bucket'[q] = bucket[q] /\ since'[q] = since[q]
            /\ pending'[q] = pending[q] /\ stored'[q] = stored[q] /\ tally'[q] = tally[q]
    BY <1>1, <1>2 DEF Shape
  <1> QED
    BY <1>1, <1>5, <1>7, <1>8, <1>9, OneKey

\* Sums of counters are counters.
LEMMA PlusIsUsage ==
    ASSUME NEW x \in Usage, NEW y \in Usage
    PROVE  /\ Plus(x, y) \in Usage
           /\ Plus(x, y).count = x.count + y.count
           /\ Plus(x, y).rejected = x.rejected + y.rejected
  BY DEF Plus, Usage

\* The flusher moves what is pending to the stored counters.
LEMMA FlushStep ==
    ASSUME KeyInv, Flush
    PROVE  KeyInv'
  <1>1. /\ pending' = [k \in ApiKeyIds |-> Zero]
        /\ stored' = [k \in ApiKeyIds |-> Plus(stored[k], pending[k])]
        /\ UNCHANGED <<apiKey, bucket, clock, since, tally>>
    BY DEF Flush, AfterFlush
  <1>2. Shape
    BY DEF KeyInv
  <1>3. Zero \in Usage /\ Zero.count = 0 /\ Zero.rejected = 0
    BY DEF Zero, Usage
  <1>4. \A k \in ApiKeyIds : Plus(stored[k], pending[k]) \in Usage
    BY <1>2, PlusIsUsage DEF Shape
  <1>5. Shape'
    BY <1>1, <1>2, <1>3, <1>4 DEF Shape
  <1>6. ASSUME NEW k \in ApiKeyIds
        PROVE  CountedOnce(k)' /\ Metered(k)'
    <2>1. CountedOnce(k) /\ Metered(k)
      BY DEF KeyInv
    <2>2. /\ stored'[k].count = stored[k].count + pending[k].count
          /\ stored'[k].rejected = stored[k].rejected + pending[k].rejected
          /\ pending'[k].count = 0 /\ pending'[k].rejected = 0
      BY <1>1, <1>2, <1>3, PlusIsUsage DEF Shape
    <2>3. pending'[k] \in Usage /\ stored'[k] \in Usage
      BY <1>5 DEF Shape
    <2>4. CountedOnce(k)'
      BY <1>1, <1>2, <2>1, <2>2, <2>3, CountersAreNat DEF CountedOnce
    <2> QED
      BY <1>1, <2>1, <2>4 DEF Metered, EffectiveRate
  <1> QED
    BY <1>5, <1>6 DEF KeyInv

\* A restart loses what is pending, and the buckets.
LEMMA RestartStep ==
    ASSUME KeyInv, RestartServer
    PROVE  KeyInv'
  <1>1. /\ pending' = [k \in ApiKeyIds |-> Zero]
        /\ bucket' = [k \in ApiKeyIds |-> NoBucket]
        /\ UNCHANGED <<apiKey, stored, clock, since>>
    BY DEF RestartServer
  <1>2. Shape /\ 0 \in 0..MaxTicks
    BY ApiKeyConstants DEF KeyInv
  <1>3. Zero \in Usage /\ Zero.count = 0 /\ Zero.rejected = 0 /\ NoBucket \in Bucket
    BY <1>2 DEF Zero, Usage, NoBucket, Bucket
  <1>4. ASSUME NEW k \in ApiKeyIds
        PROVE  tally'[k] = [passed |-> tally[k].passed, refused |-> tally[k].refused,
                            lost |-> Plus(tally[k].lost, pending[k])]
    BY <1>2 DEF RestartServer, Shape
  <1>5. ASSUME NEW k \in ApiKeyIds
        PROVE  /\ tally'[k].lost \in Usage /\ tally'[k].passed = tally[k].passed
               /\ tally'[k].refused = tally[k].refused
               /\ tally'[k].lost.count = tally[k].lost.count + pending[k].count
               /\ tally'[k].lost.rejected = tally[k].lost.rejected + pending[k].rejected
    <2> DEFINE lost == Plus(tally[k].lost, pending[k])
    <2>1. tally[k].lost \in Usage /\ pending[k] \in Usage
      BY <1>2 DEF Shape
    <2>2. /\ lost \in Usage /\ lost.count = tally[k].lost.count + pending[k].count
          /\ lost.rejected = tally[k].lost.rejected + pending[k].rejected
      BY <2>1, PlusIsUsage
    <2>3. tally'[k] = [passed |-> tally[k].passed, refused |-> tally[k].refused,
                       lost |-> lost]
      BY <1>4
    <2> HIDE DEF lost
    <2> QED
      BY <2>2, <2>3
  <1>6. tally' \in [ApiKeyIds -> [passed : Nat, refused : Nat, lost : Usage]]
    <2>1. tally' = [k \in ApiKeyIds |-> tally'[k]]
      BY DEF RestartServer
    <2>2. ASSUME NEW k \in ApiKeyIds
          PROVE  tally'[k] \in [passed : Nat, refused : Nat, lost : Usage]
      <3> DEFINE lost == Plus(tally[k].lost, pending[k])
      <3>1. tally'[k] = [passed |-> tally[k].passed, refused |-> tally[k].refused,
                         lost |-> lost]
        BY <1>4
      <3> HIDE DEF lost
      <3>2. tally'[k].lost \in Usage
        BY <1>5
      <3> QED
        BY <1>2, <3>1, <3>2, CountersAreNat
    <2> QED
      BY <2>1, <2>2
  <1>7. Shape'
    BY <1>1, <1>2, <1>3, <1>6 DEF Shape
  <1>8. ASSUME NEW k \in ApiKeyIds
        PROVE  CountedOnce(k)' /\ Metered(k)'
    <2>1. CountedOnce(k)
      BY DEF KeyInv
    <2>2. pending'[k].count = 0 /\ pending'[k].rejected = 0 /\ stored'[k] = stored[k]
      BY <1>1, <1>3
    <2>3. pending'[k] \in Usage /\ stored'[k] \in Usage /\ since'[k] = since[k]
      BY <1>1, <1>7 DEF Shape
    <2>4. CountedOnce(k)'
      BY <1>2, <1>5, <2>1, <2>2, <2>3, CountersAreNat DEF CountedOnce
    <2> QED
      BY <1>1, <2>4 DEF Metered
  <1> QED
    BY <1>7, <1>8 DEF KeyInv

----------------------------------------------------------------------------
(* The routes. *)

\* A route that sets limits drops the bucket.
LEMMA SetLimitStep ==
    ASSUME KeyInv, NEW k \in ApiKeyIds, NEW rate \in AnyRate, NEW locked \in BOOLEAN,
           SetLimit(k, rate, locked)
    PROVE  KeyInv'
  <1>1. /\ apiKey' = [apiKey EXCEPT ![k].rate = rate, ![k].locked = locked]
        /\ bucket' = [bucket EXCEPT ![k] = NoBucket]
        /\ UNCHANGED <<pending, stored, clock, since, tally>>
    BY DEF SetLimit, Evict
  <1>2. Shape /\ 0 \in 0..MaxTicks
    BY ApiKeyConstants DEF KeyInv
  <1>3. NoBucket \in Bucket
    BY <1>2 DEF NoBucket, Bucket
  <1>4. apiKey' \in [ApiKeyIds -> Key]
    BY <1>1, <1>2 DEF Shape, Key
  <1>5. Shape'
    BY <1>1, <1>2, <1>3, <1>4 DEF Shape
  <1>6. ASSUME NEW q \in ApiKeyIds
        PROVE  CountedOnce(q)' /\ Metered(q)'
    <2>1. CountedOnce(q)'
      BY <1>1 DEF KeyInv, CountedOnce
    <2>2. CASE q = k
      BY <1>1, <1>2, <2>1, <2>2 DEF Metered, Shape
    <2>3. CASE q # k
      <3>1. bucket'[q] = bucket[q] /\ apiKey'[q] = apiKey[q]
        BY <1>1, <1>2, <2>3 DEF Shape
      <3> QED
        BY <1>1, <2>1, <3>1 DEF KeyInv, Metered, EffectiveRate
    <2> QED
      BY <2>2, <2>3
  <1> QED
    BY <1>5, <1>6 DEF KeyInv

\* Creating or revoking a key changes no limit.
LEMMA StatusStep ==
    ASSUME KeyInv, NEW k \in ApiKeyIds, CreateKey(k) \/ RevokeKey(k)
    PROVE  KeyInv'
  <1>1. PICK s \in {"active", "revoked"} : apiKey' = [apiKey EXCEPT ![k].status = s]
    BY DEF CreateKey, RevokeKey
  <1>2. UNCHANGED <<bucket, pending, stored, clock, since, tally>>
    BY DEF CreateKey, RevokeKey
  <1>3. Shape
    BY DEF KeyInv
  <1>4. apiKey' \in [ApiKeyIds -> Key]
    BY <1>1, <1>3 DEF Shape, Key
  <1>5. \A q \in ApiKeyIds : apiKey'[q].rate = apiKey[q].rate
    BY <1>1, <1>3 DEF Shape, Key
  <1>6. Shape'
    BY <1>2, <1>3, <1>4 DEF Shape
  <1>7. \A q \in ApiKeyIds : CountedOnce(q)' /\ Metered(q)'
    BY <1>2, <1>5 DEF KeyInv, CountedOnce, Metered, EffectiveRate
  <1> QED
    BY <1>6, <1>7 DEF KeyInv

\* Time passes.
LEMMA AdvanceStep ==
    ASSUME KeyInv, Advance
    PROVE  KeyInv'
  <1>1. /\ clock' = clock + 1 /\ clock < MaxTicks
        /\ UNCHANGED <<apiKey, bucket, pending, stored, since, tally>>
    BY DEF Advance
  <1>2. Shape /\ clock \in 0..MaxTicks /\ MaxTicks \in Nat
    BY ApiKeyConstants DEF KeyInv, Shape
  <1>3. clock' \in 0..MaxTicks
    BY <1>1, <1>2
  <1>4. Shape'
    BY <1>1, <1>2, <1>3 DEF Shape
  <1>5. ASSUME NEW k \in ApiKeyIds
        PROVE  CountedOnce(k)' /\ Metered(k)'
    <2>1. CountedOnce(k)'
      BY <1>1 DEF KeyInv, CountedOnce
    <2>2. bucket[k].last \in 0..MaxTicks
      BY <1>2 DEF Shape, Bucket
    <2>3. bucket[k].last <= clock => bucket[k].last <= clock'
      BY <1>1, <1>2, <2>2
    <2> QED
      BY <1>1, <2>1, <2>3 DEF KeyInv, Metered, EffectiveRate
  <1> QED
    BY <1>4, <1>5 DEF KeyInv

----------------------------------------------------------------------------
(* The specification. *)

\* It holds when the server starts.
LEMMA KeyInitInv == KeyInit => KeyInv
  <1> SUFFICES ASSUME KeyInit PROVE KeyInv
    OBVIOUS
  <1>1. MaxTicks \in Nat /\ MaxRequests \in Nat /\ 0 \in 0..MaxTicks
    BY ApiKeyConstants
  <1>2. Zero \in Usage /\ Zero.count = 0 /\ Zero.rejected = 0 /\ NoBucket \in Bucket
    BY <1>1 DEF Zero, Usage, NoBucket, Bucket
  <1>3. apiKey \in [ApiKeyIds -> Key]
    BY DEF KeyInit, Key, AnyRate
  <1>4. /\ since \in [ApiKeyIds -> [time : 0..MaxTicks, passed : Nat]]
        /\ tally \in [ApiKeyIds -> [passed : Nat, refused : Nat, lost : Usage]]
    BY <1>1, <1>2 DEF KeyInit
  <1>5. Shape
    BY <1>1, <1>2, <1>3, <1>4 DEF KeyInit, Shape
  <1>6. ASSUME NEW k \in ApiKeyIds
        PROVE  CountedOnce(k) /\ Metered(k)
    <2>1. /\ pending[k] = Zero /\ stored[k] = Zero /\ bucket[k] = NoBucket
          /\ tally[k] = [passed |-> 0, refused |-> 0, lost |-> Zero] /\ since[k].passed = 0
      BY DEF KeyInit
    <2> QED
      BY <1>1, <1>2, <2>1 DEF CountedOnce, Metered
  <1> QED
    BY <1>5, <1>6 DEF KeyInv

\* And every step keeps it.
LEMMA KeyStep == KeyInv /\ [KeyNext]_keyVars => KeyInv'
  <1> SUFFICES ASSUME KeyInv, [KeyNext]_keyVars PROVE KeyInv'
    OBVIOUS
  <1>1. ASSUME NEW k \in ApiKeyIds,
               PassUnlimited(k) \/ Pass(k) \/ Refuse(k) \/ CreateKey(k) \/ RevokeKey(k)
        PROVE  KeyInv'
    BY <1>1, PassUnlimitedStep, PassStep, RefuseStep, StatusStep
  <1>2. ASSUME NEW k \in ApiKeyIds, NEW rate \in AnyRate, TeamSetsLimit(k, rate)
        PROVE  KeyInv'
    BY <1>2, SetLimitStep DEF TeamSetsLimit
  <1>3. ASSUME NEW k \in ApiKeyIds
        PROVE  apiKey[k].rate \in AnyRate /\ apiKey[k].locked \in BOOLEAN
    BY DEF KeyInv, Shape, Key
  <1>4. ASSUME NEW k \in ApiKeyIds, NEW rate \in AnyRate, AdminSetsLimit(k, rate)
        PROVE  KeyInv'
    BY <1>3, <1>4, SetLimitStep DEF AdminSetsLimit
  <1>5. ASSUME NEW k \in ApiKeyIds, NEW rate \in AnyRate, NEW locked \in BOOLEAN,
               AdminLocks(k, rate, locked)
        PROVE  KeyInv'
    <2> DEFINE r == IF rate = NoRate THEN apiKey[k].rate ELSE rate
    <2>1. r \in AnyRate /\ SetLimit(k, r, locked)
      BY <1>3, <1>5 DEF AdminLocks
    <2> HIDE DEF r
    <2> QED
      BY <2>1, SetLimitStep
  <1>6. CASE UNCHANGED keyVars
    BY <1>6 DEF keyVars, KeyInv, Shape, CountedOnce, Metered, EffectiveRate
  <1> QED
    BY <1>1, <1>2, <1>4, <1>5, <1>6, FlushStep, RestartStep, AdvanceStep DEF KeyNext

\* The inductive invariant.
THEOREM KeyInvariant == KeySpec => []KeyInv
  BY KeyInitInv, KeyStep, PTL DEF KeySpec

\* Every count stays within the requests there were, every bucket within its
\* capacity: no sum of counters overshoots, no refill overfills.
THEOREM KeyTypes == KeySpec => []KeyTypeOK
  <1>1. KeyInv => KeyTypeOK
    <2> SUFFICES ASSUME KeyInv PROVE KeyTypeOK
      OBVIOUS
    <2>1. Shape /\ MaxRequests \in Nat
      BY ApiKeyConstants DEF KeyInv
    <2>2. ASSUME NEW k \in ApiKeyIds
          PROVE  /\ pending[k] \in Counts /\ stored[k] \in Counts /\ tally[k].lost \in Counts
                 /\ tally[k].passed \in 0..MaxRequests /\ tally[k].refused \in 0..MaxRequests
                 /\ since[k].passed \in 0..MaxRequests
      <3>1. /\ tally[k].passed \in 0..MaxRequests /\ tally[k].refused \in 0..MaxRequests
            /\ since[k].passed \in 0..MaxRequests
            /\ pending[k].count \in 0..MaxRequests /\ pending[k].rejected \in 0..MaxRequests
            /\ stored[k].count \in 0..MaxRequests /\ stored[k].rejected \in 0..MaxRequests
            /\ tally[k].lost.count \in 0..MaxRequests
            /\ tally[k].lost.rejected \in 0..MaxRequests
        BY <2>1, CountersAreNat DEF KeyInv, CountedOnce
      <3>2. pending[k] \in Usage /\ stored[k] \in Usage /\ tally[k].lost \in Usage
        BY <2>1 DEF Shape
      <3> QED
        BY <3>1, <3>2 DEF Usage, Counts
    <2>3. \A k \in ApiKeyIds : bucket[k].tokens <= bucket[k].capacity
      <3> SUFFICES ASSUME NEW k \in ApiKeyIds
                   PROVE  bucket[k].tokens <= bucket[k].capacity
        OBVIOUS
      <3>1. CASE bucket[k] = NoBucket
        BY <3>1 DEF NoBucket
      <3>2. CASE bucket[k] # NoBucket
        BY <3>2 DEF KeyInv, Metered
      <3> QED
        BY <3>1, <3>2
    <2>4. since \in [ApiKeyIds -> [time : 0..MaxTicks, passed : 0..MaxRequests]]
      BY <2>1, <2>2 DEF Shape
    <2>5. tally \in [ApiKeyIds -> [passed : 0..MaxRequests, refused : 0..MaxRequests,
                                   lost : Counts]]
      BY <2>1, <2>2 DEF Shape
    <2>6. pending \in [ApiKeyIds -> Counts] /\ stored \in [ApiKeyIds -> Counts]
      BY <2>1, <2>2 DEF Shape
    <2> QED
      BY <2>1, <2>3, <2>4, <2>5, <2>6 DEF KeyTypeOK, Shape, Key, Bucket
  <1> QED
    BY <1>1, KeyInvariant, PTL

\* A key lets pass no more than one burst and the refill of its present limit
\* since that limit was set, and every request is counted exactly once.
THEOREM MeteredAlways == KeySpec => []KeysAreMetered
  <1>1. KeyInv => KeysAreMetered
    <2> SUFFICES ASSUME KeyInv PROVE KeysAreMetered
      OBVIOUS
    <2>1. Shape
      BY DEF KeyInv
    <2>2. ASSUME NEW k \in ApiKeyIds, bucket[k] # NoBucket
          PROVE  Unit * since[k].passed <=
                   Capacity(EffectiveRate(k)) + EffectiveRate(k) * (clock - since[k].time)
      <3> DEFINE rate == bucket[k].rate
                 early == bucket[k].last - since[k].time
                 late == clock - since[k].time
      <3>1. /\ rate = EffectiveRate(k) /\ bucket[k].last <= clock
            /\ bucket[k].tokens + Unit * since[k].passed <= Capacity(rate) + rate * early
        BY <2>2 DEF KeyInv, Metered
      <3>2. /\ bucket[k].tokens \in Nat /\ rate \in Nat /\ bucket[k].last \in Int
            /\ since[k].time \in Int /\ clock \in Int /\ since[k].passed \in Nat
        BY <2>1 DEF Shape, Bucket
      <3>3. early \in Int /\ late \in Int /\ early <= late
        BY <3>1, <3>2
      <3>4. Capacity(rate) \in Nat /\ Unit * since[k].passed \in Int
        BY <3>2, CapacityIsNat, ApiKeyConstants
      <3> HIDE DEF rate, early, late
      <3>5. rate * early <= rate * late /\ rate * early \in Int /\ rate * late \in Int
        BY <3>2, <3>3, RefillGrows
      <3>6. Unit * since[k].passed <= Capacity(rate) + rate * late
        BY <3>1, <3>2, <3>4, <3>5
      <3> QED
        BY <3>1, <3>6 DEF late
    <2>3. ASSUME NEW k \in ApiKeyIds
          PROVE  Plus(Plus(pending[k], stored[k]), tally[k].lost) =
                     [count |-> tally[k].passed, rejected |-> tally[k].refused]
      BY DEF KeyInv, CountedOnce, Plus
    <2> QED
      BY <2>2, <2>3 DEF KeysAreMetered, RateKept, UsageConserved
  <1> QED
    BY <1>1, KeyInvariant, PTL

----------------------------------------------------------------------------
(* Accounts. *)


UserRow == [status : {"none", "active", "inactive"}, role : Roles]
Login == [phase : {"none", "issued", "awaiting"}, sub : Users \cup {Nobody}, empty : BOOLEAN]

\* The admins no admin made.
Bootstrapped == {u \in Users : user[u].role = "admin"} \ promoted

\* The types; a callback under way is somebody's, and only rows have a role.
AccountInv ==
    /\ AccountTypeOK
    /\ \A s \in Sessions : login[s].phase = "awaiting" => login[s].sub \in Users
    /\ \A u \in Users : user[u].role = "admin" => user[u].status # "none"

OneAtMost(S) == \A u, v \in S : u = v

----------------------------------------------------------------------------
(* Counting. *)

\* Who is counted when more than one is counted: somebody else, too.
LEMMA AnotherOne ==
    ASSUME NEW S \in SUBSET Users, NEW u, Cardinality(S) > 1
    PROVE  \E v \in S : v # u
  <1> SUFFICES ASSUME S \subseteq {u}
               PROVE  FALSE
    OBVIOUS
  <1>1. IsFiniteSet({u}) /\ Cardinality({u}) = 1
    BY FS_Singleton
  <1>2. Cardinality(S) <= 1
    BY <1>1, FS_Subset
  <1>3. Cardinality(S) \in Nat
    BY <1>1, FS_Subset, FS_CardinalityType
  <1> QED
    BY <1>2, <1>3

\* A set with no two different members has at most one.
LEMMA CountOne ==
    ASSUME NEW S, OneAtMost(S)
    PROVE  Cardinality(S) <= 1
  <1>1. CASE S = {}
    BY <1>1, FS_EmptySet
  <1>2. CASE S # {}
    <2>1. PICK u \in S : S = {u}
      BY <1>2 DEF OneAtMost
    <2> QED
      BY <2>1, FS_Singleton
  <1> QED
    BY <1>1, <1>2

----------------------------------------------------------------------------
(* The users. *)

\* What a step may do to the users: nothing, add one, make an active one
\* inactive or the other way round, or change a role.
LEMMA UserSteps ==
    ASSUME AccountInv, [AccountNext]_accountVars
    PROVE  \/ user' = user /\ promoted' = promoted
           \/ \E u \in Users, role \in Roles :
                /\ u \notin Existing
                /\ user' = [user EXCEPT ![u] = [status |-> "active", role |-> role]]
                /\ \/ Existing = {} /\ role = "admin" /\ promoted' = promoted
                   \/ Existing # {} /\ role = "user" /\ promoted' = promoted
                   \/ Existing # {} /\ ActiveAdmins # {} /\ role = "admin"
                      /\ promoted' = promoted \cup {u}
           \/ \E u \in Existing :
                /\ user' = [user EXCEPT ![u].status = "inactive"]
                /\ user[u].role = "admin" /\ Active(u) => Cardinality(ActiveAdmins) > 1
                /\ promoted' = promoted
           \/ \E u \in Existing :
                /\ user' = [user EXCEPT ![u].status = "active"]
                /\ promoted' = promoted
           \/ \E u \in Existing, role \in Roles :
                /\ user' = [user EXCEPT ![u].role = role]
                /\ user[u].role = "admin" /\ role = "user" => Cardinality(ActiveAdmins) > 1
                /\ promoted' = IF role = "admin" THEN promoted \cup {u} ELSE promoted
  <1>1. /\ user \in [Users -> UserRow]
        /\ \A s \in Sessions : session[s] \in Users \cup {Nobody}
    BY DEF AccountInv, AccountTypeOK, UserRow
  <1>2. ASSUME NEW s \in Sessions, Admin(s)
        PROVE  Existing # {} /\ ActiveAdmins # {}
    BY <1>1, <1>2 DEF Admin, Authenticated, Active, Existing, ActiveAdmins
  <1>3. ASSUME NEW s \in Sessions, NEW u \in Users, NEW role \in Roles, CreateUser(s, u, role)
        PROVE  /\ u \notin Existing /\ Existing # {} /\ ActiveAdmins # {}
               /\ user' = [user EXCEPT ![u] = [status |-> "active", role |-> role]]
               /\ promoted' = IF role = "admin" THEN promoted \cup {u} ELSE promoted
    BY <1>2, <1>3 DEF CreateUser
  <1>4. ASSUME NEW s \in Sessions, EndCallback(s)
        PROVE  /\ promoted' = promoted
               /\ \/ user' = user
                  \/ \E u \in Users, role \in Roles :
                        /\ u \notin Existing
                        /\ user' = [user EXCEPT ![u] = [status |-> "active", role |-> role]]
                        /\ Existing = {} <=> role = "admin"
    <2>1. login[s].sub \in Users
      BY <1>4 DEF EndCallback, AccountInv
    <2>2. (IF FirstUser(s) THEN "admin" ELSE "user") \in Roles
      BY DEF Roles
    <2> QED
      BY <1>4, <2>1, <2>2 DEF EndCallback, FirstUser
  <1>5. ASSUME NEW s \in Sessions, NEW u \in Users, Deactivate(s, u)
        PROVE  /\ u \in Existing /\ promoted' = promoted
               /\ user' = [user EXCEPT ![u].status = "inactive"]
               /\ user[u].role = "admin" /\ Active(u) => Cardinality(ActiveAdmins) > 1
    BY <1>5 DEF Deactivate, CountActiveAdmins
  <1>6. ASSUME NEW s \in Sessions, NEW u \in Users, Reactivate(s, u)
        PROVE  /\ u \in Existing /\ promoted' = promoted
               /\ user' = [user EXCEPT ![u].status = "active"]
    BY <1>6 DEF Reactivate, Existing
  <1>7. ASSUME NEW s \in Sessions, NEW u \in Users, NEW role \in Roles, UpdateRole(s, u, role)
        PROVE  /\ u \in Existing
               /\ user' = [user EXCEPT ![u].role = role]
               /\ user[u].role = "admin" /\ role = "user" => Cardinality(ActiveAdmins) > 1
               /\ promoted' = IF role = "admin" THEN promoted \cup {u} ELSE promoted
    BY <1>7 DEF UpdateRole, CountActiveAdmins
  <1>8. ASSUME NEW s \in Sessions,
               \/ StartLogin(s) \/ FailCallback(s) \/ Logout(s) \/ Refuse401(s)
               \/ \E u \in Users : StartCallback(s, u) \/ LocalLogin(s, u)
               \/ \E t \in TeamIds :
                    \/ CreateTeam(s, t) \/ DeleteTeam(s, t) \/ ChangeServices(s, t)
                    \/ \E u \in Users :
                          \/ RemoveMember(s, t, u)
                          \/ \E role \in MemberRoles : \/ AddMember(s, t, u, role)
                                                       \/ UpdateMember(s, t, u, role)
        PROVE  user' = user /\ promoted' = promoted
    BY <1>8 DEF StartLogin, FailCallback, Logout, Refuse401, StartCallback, LocalLogin,
                CreateTeam, DeleteTeam, ChangeServices, RemoveMember, AddMember, UpdateMember
  <1>9. CASE UNCHANGED accountVars
    BY <1>9 DEF accountVars
  <1>10. \A role \in Roles : role = "admin" \/ role = "user"
    BY DEF Roles
  <1>11. CASE AccountNext
    <2>1. PICK s \in Sessions : 
            \/ StartLogin(s) \/ EndCallback(s) \/ FailCallback(s) \/ Logout(s) \/ Refuse401(s)
            \/ \E u \in Users :
                  \/ StartCallback(s, u) \/ LocalLogin(s, u)
                  \/ Deactivate(s, u) \/ Reactivate(s, u)
                  \/ \E role \in Roles : CreateUser(s, u, role) \/ UpdateRole(s, u, role)
            \/ \E t \in TeamIds :
                  \/ CreateTeam(s, t) \/ DeleteTeam(s, t) \/ ChangeServices(s, t)
                  \/ \E u \in Users :
                        \/ RemoveMember(s, t, u)
                        \/ \E role \in MemberRoles : \/ AddMember(s, t, u, role)
                                                     \/ UpdateMember(s, t, u, role)
      BY <1>11 DEF AccountNext
    <2>2. CASE EndCallback(s)
      BY <1>4, <1>10, <2>2
    <2>3. ASSUME NEW u \in Users, Deactivate(s, u) \/ Reactivate(s, u)
          PROVE  \/ \E v \in Existing :
                    /\ user' = [user EXCEPT ![v].status = "inactive"]
                    /\ user[v].role = "admin" /\ Active(v) => Cardinality(ActiveAdmins) > 1
                    /\ promoted' = promoted
                 \/ \E v \in Existing :
                    /\ user' = [user EXCEPT ![v].status = "active"]
                    /\ promoted' = promoted
      BY <1>5, <1>6, <2>3
    <2>4. ASSUME NEW u \in Users, NEW role \in Roles, CreateUser(s, u, role)
          PROVE  \E v \in Users, r \in Roles :
                /\ v \notin Existing
                /\ user' = [user EXCEPT ![v] = [status |-> "active", role |-> r]]
                /\ \/ Existing # {} /\ r = "user" /\ promoted' = promoted
                   \/ Existing # {} /\ ActiveAdmins # {} /\ r = "admin"
                      /\ promoted' = promoted \cup {v}
      BY <1>3, <1>10, <2>4
    <2> QED
      BY <1>7, <1>8, <2>1, <2>2, <2>3, <2>4
  <1> QED
    BY <1>9, <1>11

\* The rows of users stay in order, and only rows have a role.
LEMMA UserRowsStep ==
    ASSUME AccountInv, [AccountNext]_accountVars
    PROVE  /\ user' \in [Users -> UserRow] /\ promoted' \subseteq Users
           /\ \A u \in Users : user'[u].role = "admin" => user'[u].status # "none"
  <1>1. /\ user \in [Users -> UserRow] /\ promoted \subseteq Users
        /\ \A u \in Users : user[u].role = "admin" => user[u].status # "none"
    BY DEF AccountInv, AccountTypeOK, UserRow
  <1>2. ASSUME NEW u \in Users, NEW row \in UserRow, user' = [user EXCEPT ![u] = row],
               row.status # "none", promoted' \subseteq promoted \cup {u}
        PROVE  /\ user' \in [Users -> UserRow] /\ promoted' \subseteq Users
               /\ \A v \in Users : user'[v].role = "admin" => user'[v].status # "none"
    BY <1>1, <1>2
  <1>3. \A u \in Users : u \in Existing <=> user[u].status # "none"
    BY DEF Existing
  <1>4. ASSUME NEW u \in Users, NEW role \in Roles,
               user' = [user EXCEPT ![u] = [status |-> "active", role |-> role]],
               promoted' \subseteq promoted \cup {u}
        PROVE  /\ user' \in [Users -> UserRow] /\ promoted' \subseteq Users
               /\ \A v \in Users : user'[v].role = "admin" => user'[v].status # "none"
    <2>1. [status |-> "active", role |-> role] \in UserRow
      BY DEF UserRow
    <2> QED
      BY <1>2, <1>4, <2>1
  <1>5. ASSUME NEW u \in Existing, NEW status \in {"active", "inactive"},
               user' = [user EXCEPT ![u].status = status], promoted' = promoted
        PROVE  /\ user' \in [Users -> UserRow] /\ promoted' \subseteq Users
               /\ \A v \in Users : user'[v].role = "admin" => user'[v].status # "none"
    <2>1. u \in Users
      BY DEF Existing
    <2>2. /\ [user[u] EXCEPT !.status = status] \in UserRow
          /\ [user[u] EXCEPT !.status = status].status # "none"
      BY <1>1, <2>1 DEF UserRow
    <2>3. user' = [user EXCEPT ![u] = [user[u] EXCEPT !.status = status]]
      BY <1>1, <1>5, <2>1
    <2> QED
      BY <1>2, <1>5, <2>1, <2>2, <2>3
  <1>6. ASSUME NEW u \in Existing, NEW role \in Roles,
               user' = [user EXCEPT ![u].role = role], promoted' \subseteq promoted \cup {u}
        PROVE  /\ user' \in [Users -> UserRow] /\ promoted' \subseteq Users
               /\ \A v \in Users : user'[v].role = "admin" => user'[v].status # "none"
    <2>1. u \in Users
      BY DEF Existing
    <2>2. /\ [user[u] EXCEPT !.role = role] \in UserRow
          /\ [user[u] EXCEPT !.role = role].status # "none"
      BY <1>1, <1>3, <2>1 DEF UserRow
    <2>3. user' = [user EXCEPT ![u] = [user[u] EXCEPT !.role = role]]
      BY <1>1, <1>6, <2>1
    <2> QED
      BY <1>2, <1>6, <2>1, <2>2, <2>3
  <1>7. \/ UNCHANGED <<user, promoted>>
        \/ \E u \in Users, role \in Roles :
              /\ user' = [user EXCEPT ![u] = [status |-> "active", role |-> role]]
              /\ promoted' \subseteq promoted \cup {u}
        \/ \E u \in Existing, status \in {"active", "inactive"} :
              user' = [user EXCEPT ![u].status = status] /\ promoted' = promoted
        \/ \E u \in Existing, role \in Roles :
              /\ user' = [user EXCEPT ![u].role = role]
              /\ promoted' \subseteq promoted \cup {u}
    BY UserSteps
  <1>8. CASE UNCHANGED <<user, promoted>>
    BY <1>1, <1>8
  <1> QED
    BY <1>4, <1>5, <1>6, <1>7, <1>8

\* An active admin is left, whatever an admin did to another or to himself.
LEMMA AdminStep ==
    ASSUME AccountInv, AdminRemains, [AccountNext]_accountVars
    PROVE  AdminRemains'
  <1>1. /\ user \in [Users -> UserRow]
        /\ \A u \in Users : u \in ActiveAdmins <=> user[u].status = "active" /\ user[u].role = "admin"
        /\ \A u \in Users : u \in ActiveAdmins'
                              <=> user'[u].status = "active" /\ user'[u].role = "admin"
        /\ \A u \in Users : u \in Existing <=> user[u].status # "none"
        /\ ActiveAdmins \subseteq Users /\ Existing \subseteq Users
    BY DEF AccountInv, AccountTypeOK, UserRow, ActiveAdmins, Active, Existing
  <1>2. ASSUME NEW v \in ActiveAdmins, user'[v] = user[v]
        PROVE  AdminRemains'
    BY <1>1, <1>2 DEF AdminRemains
  <1>3. ASSUME NEW u, Cardinality(ActiveAdmins) > 1
        PROVE  \E v \in ActiveAdmins : v # u
    BY <1>1, <1>3, AnotherOne
  <1>4. CASE UNCHANGED <<user, promoted>>
    BY <1>4 DEF AdminRemains, ActiveAdmins, Active, Existing
  <1>5. ASSUME NEW u \in Users, NEW role \in Roles, u \notin Existing,
               user' = [user EXCEPT ![u] = [status |-> "active", role |-> role]],
               Existing = {} => role = "admin"
        PROVE  AdminRemains'
    <2>1. CASE Existing = {}
      BY <1>1, <1>5, <2>1 DEF AdminRemains
    <2>2. CASE Existing # {}
      <3>1. PICK v \in ActiveAdmins : TRUE
        BY <2>2 DEF AdminRemains
      <3>2. v # u /\ v \in Users
        BY <1>1, <1>5
      <3> QED
        BY <1>1, <1>2, <1>5, <3>2
    <2> QED
      BY <2>1, <2>2
  <1>6. ASSUME NEW u \in Existing, user' = [user EXCEPT ![u].status = "inactive"],
               user[u].role = "admin" /\ Active(u) => Cardinality(ActiveAdmins) > 1
        PROVE  AdminRemains'
    <2>1. \E v \in ActiveAdmins : v # u
      <3>1. CASE u \in ActiveAdmins
        BY <1>1, <1>3, <1>6, <3>1 DEF Active
      <3>2. CASE u \notin ActiveAdmins
        BY <1>6, <3>2 DEF AdminRemains
      <3> QED
        BY <3>1, <3>2
    <2> QED
      BY <1>1, <1>2, <1>6, <2>1
  <1>7. ASSUME NEW u \in Existing, user' = [user EXCEPT ![u].status = "active"]
        PROVE  AdminRemains'
    <2>1. PICK v \in ActiveAdmins : TRUE
      BY <1>7 DEF AdminRemains
    <2>2. v \in ActiveAdmins'
      BY <1>1, <1>7, <2>1 DEF UserRow
    <2> QED
      BY <2>2 DEF AdminRemains
  <1>8. ASSUME NEW u \in Existing, NEW role \in Roles,
               user' = [user EXCEPT ![u].role = role],
               user[u].role = "admin" /\ role = "user" => Cardinality(ActiveAdmins) > 1
        PROVE  AdminRemains'
    <2>1. CASE role = "admin"
      <3>1. PICK v \in ActiveAdmins : TRUE
        BY <1>8 DEF AdminRemains
      <3>2. v \in ActiveAdmins'
        BY <1>1, <1>8, <2>1, <3>1 DEF UserRow
      <3> QED
        BY <3>2 DEF AdminRemains
    <2>2. CASE role = "user"
      <3>1. \E v \in ActiveAdmins : v # u
        <4>1. CASE u \in ActiveAdmins
          BY <1>1, <1>3, <1>8, <2>2, <4>1
        <4>2. CASE u \notin ActiveAdmins
          BY <1>8, <4>2 DEF AdminRemains
        <4> QED
          BY <4>1, <4>2
      <3> QED
        BY <1>1, <1>2, <1>8, <3>1
    <2> QED
      BY <2>1, <2>2 DEF Roles
  <1> QED
    BY <1>4, <1>5, <1>6, <1>7, <1>8, UserSteps

\* No second admin appears whom no admin made.
LEMMA BootstrapStep ==
    ASSUME AccountInv, OneAtMost(Bootstrapped), [AccountNext]_accountVars
    PROVE  OneAtMost(Bootstrapped')
  <1>1. /\ user \in [Users -> UserRow]
        /\ \A u \in Users : u \in Bootstrapped <=> user[u].role = "admin" /\ u \notin promoted
        /\ \A u \in Users : u \in Bootstrapped' <=> user'[u].role = "admin" /\ u \notin promoted'
        /\ Bootstrapped' \subseteq Users /\ Existing \subseteq Users
    BY DEF AccountInv, AccountTypeOK, UserRow, Bootstrapped, Existing
  <1>2. ASSUME Bootstrapped' \subseteq Bootstrapped
        PROVE  OneAtMost(Bootstrapped')
    BY <1>2 DEF OneAtMost
  <1>3. CASE UNCHANGED <<user, promoted>>
    BY <1>1, <1>2, <1>3
  <1>4. ASSUME NEW u \in Users, Existing = {}, promoted' = promoted,
               user' = [user EXCEPT ![u] = [status |-> "active", role |-> "admin"]]
        PROVE  OneAtMost(Bootstrapped')
    <2>1. \A v \in Users \ {u} : user'[v].role # "admin"
      BY <1>1, <1>4 DEF AccountInv, Existing
    <2> QED
      BY <1>1, <2>1 DEF OneAtMost
  <1>5. ASSUME NEW u \in Users, NEW role \in Roles,
               \/ user' = [user EXCEPT ![u] = [status |-> "active", role |-> role]]
               \/ user' = [user EXCEPT ![u].role = role],
               promoted' = IF role = "admin" THEN promoted \cup {u} ELSE promoted
        PROVE  OneAtMost(Bootstrapped')
    <2>1. \A v \in Users : v \in Bootstrapped' => v \in Bootstrapped
      BY <1>1, <1>5 DEF UserRow, Roles
    <2> QED
      BY <1>1, <1>2, <2>1
  <1>6. ASSUME NEW u \in Existing, NEW status, promoted' = promoted,
               user' = [user EXCEPT ![u].status = status]
        PROVE  OneAtMost(Bootstrapped')
    <2>1. \A v \in Users : v \in Bootstrapped' => v \in Bootstrapped
      BY <1>1, <1>6 DEF UserRow
    <2> QED
      BY <1>1, <1>2, <2>1
  <1>7. \/ UNCHANGED <<user, promoted>>
        \/ \E u \in Users : /\ Existing = {} /\ promoted' = promoted
                            /\ user' = [user EXCEPT ![u] = [status |-> "active", role |-> "admin"]]
        \/ \E u \in Users, role \in Roles :
              /\ \/ user' = [user EXCEPT ![u] = [status |-> "active", role |-> role]]
                 \/ user' = [user EXCEPT ![u].role = role]
              /\ promoted' = IF role = "admin" THEN promoted \cup {u} ELSE promoted
        \/ \E u \in Existing, status \in {"active", "inactive"} :
              user' = [user EXCEPT ![u].status = status] /\ promoted' = promoted
    BY <1>1, UserSteps
  <1> QED
    BY <1>3, <1>4, <1>5, <1>6, <1>7

----------------------------------------------------------------------------
(* Sessions, logins and teams. *)

\* Logins in the sessions, and whose sessions they are.
LEMMA SessionsStep ==
    ASSUME AccountInv, [AccountNext]_accountVars
    PROVE  /\ mode' \in {"local", "oidc"}
           /\ session' \in [Sessions -> Users \cup {Nobody}]
           /\ login' \in [Sessions -> Login]
           /\ \A s \in Sessions : login'[s].phase = "awaiting" => login'[s].sub \in Users
  <1> DEFINE Goal ==
        /\ mode' \in {"local", "oidc"}
        /\ session' \in [Sessions -> Users \cup {Nobody}]
        /\ login' \in [Sessions -> Login]
        /\ \A s \in Sessions : login'[s].phase = "awaiting" => login'[s].sub \in Users
  <1>1. /\ mode \in {"local", "oidc"}
        /\ session \in [Sessions -> Users \cup {Nobody}]
        /\ login \in [Sessions -> Login]
        /\ \A s \in Sessions : login[s].phase = "awaiting" => login[s].sub \in Users
    BY DEF AccountInv, AccountTypeOK, Login
  <1>2. ASSUME NEW s \in Sessions, NEW x \in Login, NEW u \in Users \cup {Nobody},
               x.phase = "awaiting" => x.sub \in Users,
               mode' = mode, login' = [login EXCEPT ![s] = x],
               session' \in {session, [session EXCEPT ![s] = u]}
        PROVE  Goal
    BY <1>1, <1>2
  <1>3. /\ NoLogin \in Login /\ NoLogin.phase # "awaiting"
        /\ [NoLogin EXCEPT !.phase = "issued"] \in Login
        /\ [NoLogin EXCEPT !.phase = "issued"].phase # "awaiting"
    BY DEF NoLogin, Login
  <1>4. ASSUME NEW s \in Sessions, StartLogin(s) \/ FailCallback(s)
        PROVE  Goal
    BY <1>2, <1>3, <1>4 DEF StartLogin, FailCallback
  <1>5. ASSUME NEW s \in Sessions, Logout(s) \/ Refuse401(s)
        PROVE  Goal
    BY <1>2, <1>3, <1>5 DEF Logout, Refuse401
  <1>6. ASSUME NEW s \in Sessions, NEW u \in Users, StartCallback(s, u)
        PROVE  Goal
    <2> DEFINE x == [phase |-> "awaiting", sub |-> u, empty |-> Existing = {}]
    <2>1. x \in Login /\ x.sub \in Users
      BY DEF Login
    <2> QED
      BY <1>2, <1>6, <2>1 DEF StartCallback
  <1>7. ASSUME NEW s \in Sessions, EndCallback(s)
        PROVE  Goal
    <2>1. login[s].sub \in Users
      BY <1>1, <1>7 DEF EndCallback
    <2> QED
      BY <1>2, <1>3, <1>7, <2>1 DEF EndCallback
  <1>8. ASSUME NEW s \in Sessions, NEW u \in Users, LocalLogin(s, u)
        PROVE  Goal
    BY <1>1, <1>8 DEF LocalLogin
  <1>9. CASE UNCHANGED <<mode, session, login>>
    BY <1>1, <1>9
  <1>10. ASSUME NEW s \in Sessions,
                \/ \E u \in Users :
                     \/ Deactivate(s, u) \/ Reactivate(s, u)
                     \/ \E role \in Roles : CreateUser(s, u, role) \/ UpdateRole(s, u, role)
                \/ \E t \in TeamIds :
                     \/ CreateTeam(s, t) \/ DeleteTeam(s, t) \/ ChangeServices(s, t)
                     \/ \E u \in Users :
                           \/ RemoveMember(s, t, u)
                           \/ \E role \in MemberRoles : \/ AddMember(s, t, u, role)
                                                        \/ UpdateMember(s, t, u, role)
         PROVE  UNCHANGED <<mode, session, login>>
    BY <1>10 DEF Deactivate, Reactivate, CreateUser, UpdateRole, CreateTeam, DeleteTeam,
                 ChangeServices, RemoveMember, AddMember, UpdateMember
  <1>11. CASE UNCHANGED accountVars
    BY <1>9, <1>11 DEF accountVars
  <1> QED
    BY <1>4, <1>5, <1>6, <1>7, <1>8, <1>9, <1>10, <1>11 DEF AccountNext

\* Teams and their members.
LEMMA TeamsStep ==
    ASSUME AccountInv, [AccountNext]_accountVars
    PROVE  /\ member' \in [TeamIds -> [Users -> MemberRoles \cup {"none"}]]
           /\ team' \in [TeamIds -> [status : {"none", "exists", "deleted"},
                                     services : BOOLEAN]]
  <1> DEFINE Goal ==
        /\ member' \in [TeamIds -> [Users -> MemberRoles \cup {"none"}]]
        /\ team' \in [TeamIds -> [status : {"none", "exists", "deleted"},
                                  services : BOOLEAN]]
  <1>1. /\ member \in [TeamIds -> [Users -> MemberRoles \cup {"none"}]]
        /\ team \in [TeamIds -> [status : {"none", "exists", "deleted"},
                                 services : BOOLEAN]]
    BY DEF AccountInv, AccountTypeOK
  <1>2. ASSUME NEW s \in Sessions, NEW t \in TeamIds,
               CreateTeam(s, t) \/ ChangeServices(s, t)
        PROVE  Goal
    BY <1>1, <1>2 DEF CreateTeam, ChangeServices
  <1>3. ASSUME NEW s \in Sessions, NEW t \in TeamIds, DeleteTeam(s, t)
        PROVE  Goal
    BY <1>1, <1>3 DEF DeleteTeam
  <1>4. ASSUME NEW s \in Sessions, NEW u \in Users, Deactivate(s, u)
        PROVE  Goal
    BY <1>1, <1>4 DEF Deactivate
  <1>5. ASSUME NEW s \in Sessions, NEW t \in TeamIds, NEW u \in Users,
               NEW role \in MemberRoles \cup {"none"},
               member' = [member EXCEPT ![t][u] = role], team' = team
        PROVE  Goal
    BY <1>1, <1>5
  <1>6. ASSUME NEW s \in Sessions, NEW t \in TeamIds, NEW u \in Users,
               \/ RemoveMember(s, t, u)
               \/ \E role \in MemberRoles : AddMember(s, t, u, role) \/ UpdateMember(s, t, u, role)
        PROVE  Goal
    BY <1>5, <1>6 DEF RemoveMember, AddMember, UpdateMember
  <1>7. ASSUME NEW s \in Sessions,
               \/ StartLogin(s) \/ EndCallback(s) \/ FailCallback(s) \/ Logout(s)
               \/ Refuse401(s)
               \/ \E u \in Users :
                    \/ StartCallback(s, u) \/ LocalLogin(s, u) \/ Reactivate(s, u)
                    \/ \E role \in Roles : CreateUser(s, u, role) \/ UpdateRole(s, u, role)
        PROVE  UNCHANGED <<member, team>>
    BY <1>7 DEF StartLogin, EndCallback, FailCallback, Logout, Refuse401, StartCallback,
                LocalLogin, Reactivate, CreateUser, UpdateRole
  <1>8. CASE UNCHANGED accountVars
    BY <1>1, <1>8 DEF accountVars
  <1> QED
    BY <1>1, <1>2, <1>3, <1>4, <1>6, <1>7, <1>8 DEF AccountNext

----------------------------------------------------------------------------
(* The theorems. *)

\* The invariant is inductive.
LEMMA AccountStep == AccountInv /\ [AccountNext]_accountVars => AccountInv'
  BY UserRowsStep, SessionsStep, TeamsStep
     DEF AccountInv, AccountTypeOK, UserRow, Login

\* At the start there is nobody, or the admin bootstrapped in the local mode.
LEMMA AccountStart ==
    ASSUME AccountInit
    PROVE  AccountInv /\ AdminRemains /\ OneAtMost(Bootstrapped)
  <1>1. user \in [Users -> UserRow]
    BY DEF AccountInit, NoUser, UserRow, Roles
  <1>2. NoLogin \in Login /\ NoLogin.phase # "awaiting"
    BY DEF NoLogin, Login
  <1>3. \A u \in Users : user[u].role = "admin" =>
            user[u].status = "active" /\ u = FirstLocal
    BY DEF AccountInit, NoUser
  <1>4. AccountInv
    BY <1>1, <1>2, <1>3 DEF AccountInit, AccountInv, AccountTypeOK, UserRow, Login, MemberRoles
  <1>5. AdminRemains
    BY AccountConstants
       DEF AccountInit, AdminRemains, Existing, ActiveAdmins, Active, NoUser
  <1> QED
    BY <1>3, <1>4, <1>5 DEF OneAtMost, Bootstrapped

\* The invariant holds in every reachable state.
LEMMA AccountInvariant == AccountSpec => []AccountInv
  BY AccountStart, AccountStep, PTL DEF AccountSpec

\* Users, members, teams, sessions and logins are of their types.
THEOREM AccountTypes == AccountSpec => []AccountTypeOK
  <1>1. AccountInv => AccountTypeOK
    BY DEF AccountInv
  <1> QED
    BY <1>1, AccountInvariant, PTL

\* A system with users has an active admin: the last one can neither be
\* deactivated nor demoted, by anybody, in any order of requests.
THEOREM AnAdminRemains == AccountSpec => []AdminRemains
  <1>1. AccountInit => AdminRemains
    BY AccountStart
  <1>2. AccountInv /\ AdminRemains /\ [AccountNext]_accountVars => AdminRemains'
    BY AdminStep
  <1> QED
    BY <1>1, <1>2, AccountInvariant, PTL DEF AccountSpec

\* Of the first logins under way at once in an empty database, only one makes
\* an admin of its user.
THEOREM OneAdminIsBootstrapped == AccountSpec => []OneBootstrapAdmin
  <1>1. AccountInit => OneAtMost(Bootstrapped)
    BY AccountStart
  <1>2. AccountInv /\ OneAtMost(Bootstrapped) /\ [AccountNext]_accountVars
            => OneAtMost(Bootstrapped)'
    BY BootstrapStep DEF OneAtMost
  <1>3. OneAtMost(Bootstrapped) => OneBootstrapAdmin
    BY CountOne DEF OneBootstrapAdmin, Bootstrapped
  <1> QED
    BY <1>1, <1>2, <1>3, AccountInvariant, PTL DEF AccountSpec

----------------------------------------------------------------------------
(* ManifestMetadata. *)

\* What a sync makes of an alias, an override and an association.
LEMMA AliasSynced ==
    ASSUME MetaTypeOK, NEW t \in Teams, NEW m \in Manifest, NEW remove, NEW n \in Aliases
    PROVE  /\ AliasAfter(t, m, remove, n) \in
                 [to : Canonicals \cup {None}, owner : Teams \cup {Manual, None}]
           /\ AliasAfter(t, m, remove, n).to = None <=> AliasAfter(t, m, remove, n).owner = None
           /\ alias[n].owner \notin {t, None} => AliasAfter(t, m, remove, n) = alias[n]
  <1>1. /\ alias[n] \in [to : Canonicals \cup {None}, owner : Teams \cup {Manual, None}]
        /\ alias[n].to = None <=> alias[n].owner = None
        /\ m.aliases[n] \in Canonicals \cup {None}
    BY DEF MetaTypeOK, Manifest
  <1> QED
    BY <1>1, MetadataConstants DEF AliasAfter, NoAlias

LEMMA OverrideSynced ==
    ASSUME MetaTypeOK, NEW t \in Teams, NEW m \in Manifest, NEW remove, NEW byUser,
           NEW c \in Canonicals
    PROVE  /\ OverrideAfter(t, m, remove, byUser, c) \in
                 [value : Values \cup {None}, managed : BOOLEAN]
           /\ ~override[t][c].managed /\ m.overrides[c] = None =>
                 OverrideAfter(t, m, remove, byUser, c) = override[t][c]
  <1>1. /\ override[t][c] \in [value : Values \cup {None}, managed : BOOLEAN]
        /\ m.overrides[c] \in Values \cup {None}
    BY DEF MetaTypeOK, Manifest
  <1> QED
    BY <1>1 DEF OverrideAfter, NoOverride, Managed

\* An association keeps its marks unless the sync removes it; what a manifest
\* neither manages nor names is left alone.
LEMMA LinkSynced ==
    ASSUME MetaTypeOK, NEW t, NEW m \in Manifest, NEW remove, NEW d \in Deps, NEW s \in Targets,
           NEW after, after = LinkAfter(t, m, remove, d, s)
    PROVE  /\ after \in {NoLink} \cup SUBSET Marks
           /\ \/ after = NoLink
              \/ after = link[d][s]
              \/ link[d][s] = NoLink /\ after = {"managed"}
              \/ link[d][s] # NoLink /\ after = link[d][s] \cup {"managed"}
           /\ ("managed" \notin link[d][s] /\ \A a \in m.associations : a.dep # d \/ a.target # s)
                 => after = link[d][s]
  <1> DEFINE entries == {a \in m.associations : a.dep = d /\ a.target = s}
             marks   == IF entries # {} THEN Adopted(link[d][s]) ELSE link[d][s]
             listed  == \E a \in entries : EntryName(d, a.byRaw) = Effective(d)
  <1>1. link[d][s] \in {NoLink} \cup SUBSET Marks /\ "managed" \in Marks
    BY DEF MetaTypeOK, Marks
  <1>2. after = IF TeamOf[d] # t THEN link[d][s]
                ELSE IF remove /\ "managed" \in marks /\ ~listed THEN NoLink ELSE marks
    BY DEF LinkAfter
  <1>3. \/ marks = link[d][s]
        \/ link[d][s] = NoLink /\ marks = {"managed"}
        \/ link[d][s] # NoLink /\ marks = link[d][s] \cup {"managed"}
    BY DEF Adopted
  <1>4. (\A a \in m.associations : a.dep # d \/ a.target # s) => marks = link[d][s]
    OBVIOUS
  <1> HIDE DEF entries, marks, listed
  <1> QED
    BY <1>1, <1>2, <1>3, <1>4

\* A row that is written in place of another, by a route.
LEMMA LinkWritten ==
    ASSUME MetaTypeOK, NEW d \in Deps, NEW s \in Targets, NEW marks \in {NoLink} \cup SUBSET Marks
    PROVE  /\ [link EXCEPT ![d][s] = marks] \in [Deps -> [Targets -> {NoLink} \cup SUBSET Marks]]
           /\ \A e \in Deps, x \in Targets :
                 [link EXCEPT ![d][s] = marks][e][x] =
                    IF e = d /\ x = s THEN marks ELSE link[e][x]
  BY DEF MetaTypeOK

\* What a step may make of an association.
LinkStep(d, s) ==
    \/ link'[d][s] \in {link[d][s], NoLink}
    \/ link[d][s] = NoLink
    \/ link'[d][s] = link[d][s] \cup {"managed"}
    \/ link'[d][s] = link[d][s] \cup {"dismissed"}
    \/ link'[d][s] = link[d][s] \ {"suggested"}

LEMMA MetaSteps ==
    ASSUME MetaTypeOK, MetaNext
    PROVE  MetaTypeOK' /\ \A d \in Deps, s \in Targets : LinkStep(d, s)
  <1> USE MetadataConstants
  <1>1. ASSUME NEW t \in Teams, NEW m \in Manifests, NEW r \in Removals, NEW byUser \in BOOLEAN,
               SyncMetadata(t, m, r, byUser)
        PROVE  MetaTypeOK' /\ \A d \in Deps, s \in Targets : LinkStep(d, s)
    <2>1. m \in Manifest
      OBVIOUS
    <2>2. /\ alias' \in [Aliases -> [to : Canonicals \cup {None},
                                     owner : Teams \cup {Manual, None}]]
          /\ \A n \in Aliases : alias'[n].to = None <=> alias'[n].owner = None
      BY <1>1, <2>1, AliasSynced DEF SyncMetadata
    <2>3. override' \in [Teams -> [Canonicals -> [value : Values \cup {None}, managed : BOOLEAN]]]
      BY <1>1, <2>1, OverrideSynced DEF SyncMetadata, MetaTypeOK
    <2>4. link' \in [Deps -> [Targets -> {NoLink} \cup SUBSET Marks]]
      BY <1>1, <2>1, LinkSynced DEF SyncMetadata
    <2>5. ASSUME NEW d \in Deps, NEW s \in Targets
          PROVE  LinkStep(d, s)
      <3>1. link'[d][s] = LinkAfter(t, m, r.associations, d, s)
        BY <1>1 DEF SyncMetadata
      <3> QED
        BY <2>1, <3>1, LinkSynced DEF LinkStep
    <2> QED
      BY <1>1, <2>2, <2>3, <2>4, <2>5 DEF SyncMetadata, MetaTypeOK
  <1>2. ASSUME NEW d \in Deps, ReportDependency(d)
        PROVE  MetaTypeOK' /\ \A e \in Deps, s \in Targets : LinkStep(e, s)
    <2>1. alias[RawName[d]].to \in Canonicals \cup {None}
      BY DEF MetaTypeOK
    <2> QED
      BY <1>2, <2>1 DEF ReportDependency, MetaTypeOK, LinkStep
  <1>3. ASSUME NEW n \in Aliases, NEW c \in Canonicals, CreateAlias(n, c) \/ UpdateAlias(n, c)
        PROVE  MetaTypeOK' /\ \A d \in Deps, s \in Targets : LinkStep(d, s)
    <2>1. CASE CreateAlias(n, c)
      BY <2>1 DEF CreateAlias, MetaTypeOK, LinkStep
    <2>2. CASE UpdateAlias(n, c)
      <3>1. alias[n].owner # None
        BY <2>2 DEF UpdateAlias, MetaTypeOK, NoAlias
      <3> QED
        BY <2>2, <3>1 DEF UpdateAlias, MetaTypeOK, LinkStep
    <2> QED
      BY <1>3, <2>1, <2>2
  <1>4. ASSUME NEW n \in Aliases, DeleteAlias(n)
        PROVE  MetaTypeOK' /\ \A d \in Deps, s \in Targets : LinkStep(d, s)
    BY <1>4 DEF DeleteAlias, NoAlias, MetaTypeOK, LinkStep
  <1>5. ASSUME NEW t \in Teams, NEW c \in Canonicals, NEW v \in Values,
               UpsertOverride(t, c, v)
        PROVE  MetaTypeOK' /\ \A d \in Deps, s \in Targets : LinkStep(d, s)
    BY <1>5 DEF UpsertOverride, MetaTypeOK, LinkStep
  <1>6. ASSUME NEW t \in Teams, NEW c \in Canonicals, DeleteOverride(t, c)
        PROVE  MetaTypeOK' /\ \A d \in Deps, s \in Targets : LinkStep(d, s)
    BY <1>6 DEF DeleteOverride, NoOverride, MetaTypeOK, LinkStep
  <1>7. ASSUME NEW d \in Deps, NEW s \in Targets,
               \/ Suggest(d, s) \/ CreateLink(d, s) \/ ConfirmLink(d, s)
               \/ DismissLink(d, s) \/ DeleteLink(d, s)
        PROVE  MetaTypeOK' /\ \A e \in Deps, x \in Targets : LinkStep(e, x)
    <2>1. link[d][s] \in {NoLink} \cup SUBSET Marks
      BY DEF MetaTypeOK
    <2>2. {"suggested"} \in SUBSET Marks /\ {} \in SUBSET Marks
      BY DEF Marks
    <2>3. PICK marks \in {NoLink} \cup SUBSET Marks :
             /\ link' = [link EXCEPT ![d][s] = marks] /\ UNCHANGED <<alias, canon, override>>
             /\ \/ marks = NoLink \/ link[d][s] = NoLink
                \/ marks = link[d][s] \cup {"dismissed"}
                \/ marks = link[d][s] \ {"suggested"}
      <3>1. CASE Suggest(d, s)
        BY <2>2, <3>1 DEF Suggest, Linked
      <3>2. CASE CreateLink(d, s)
        BY <2>2, <3>2 DEF CreateLink, Linked
      <3>3. CASE ConfirmLink(d, s)
        <4>1. link[d][s] \ {"suggested"} \in SUBSET Marks
          BY <2>1, <3>3 DEF ConfirmLink, Linked
        <4> QED
          BY <3>3, <4>1 DEF ConfirmLink, MetaTypeOK
      <3>4. CASE DismissLink(d, s)
        <4>1. link[d][s] \cup {"dismissed"} \in SUBSET Marks
          BY <2>1, <3>4 DEF DismissLink, Linked, Marks
        <4> QED
          BY <3>4, <4>1 DEF DismissLink, MetaTypeOK
      <3>5. CASE DeleteLink(d, s)
        BY <3>5 DEF DeleteLink
      <3> QED
        BY <1>7, <3>1, <3>2, <3>3, <3>4, <3>5
    <2>4. link' \in [Deps -> [Targets -> {NoLink} \cup SUBSET Marks]]
      BY <2>3, LinkWritten
    <2>5. MetaTypeOK'
      BY <2>3, <2>4 DEF MetaTypeOK
    <2>6. ASSUME NEW e \in Deps, NEW x \in Targets
          PROVE  LinkStep(e, x)
      <3>1. link'[e][x] = IF e = d /\ x = s THEN marks ELSE link[e][x]
        BY <2>3, LinkWritten
      <3> QED
        BY <2>3, <3>1 DEF LinkStep
    <2> QED
      BY <2>5, <2>6
  <1> QED
    BY <1>1, <1>2, <1>3, <1>4, <1>5, <1>6, <1>7 DEF MetaNext

\* Aliases, overrides and associations keep their types; an alias has an owner
\* exactly when it has a name to stand for.
THEOREM MetadataTypes == MetaSpec => []MetaTypeOK
  <1>1. MetaInit => MetaTypeOK
    BY DEF MetaInit, MetaTypeOK, NoAlias, NoOverride
  <1>2. MetaTypeOK /\ [MetaNext]_metaVars => MetaTypeOK'
    <2>1. MetaTypeOK /\ UNCHANGED metaVars => MetaTypeOK'
      BY DEF metaVars, MetaTypeOK
    <2> QED
      BY <2>1, MetaSteps
  <1> QED
    BY <1>1, <1>2, PTL DEF MetaSpec

\* syncAliases, syncCanonicalOverrides, syncAssociations: in every state, the
\* next sync of any team, with any manifest and policy, leaves alone what is
\* not its own, and keeps the associations it lists.
THEOREM MetadataIsKept == MetaSpec => []MetadataKept
  <1>1. MetaTypeOK => MetadataKept
    <2> SUFFICES ASSUME MetaTypeOK
                 PROVE  MetadataKept
      OBVIOUS
    <2>1. Manifests \subseteq Manifest
      BY MetadataConstants
    <2>2. SyncKeepsForeign
      BY <2>1, AliasSynced, OverrideSynced, LinkSynced DEF SyncKeepsForeign
    <2>3. ListedLinksStay
      <3> SUFFICES ASSUME NEW m \in Manifests, NEW r \in Removals, NEW a \in m.associations,
                          EntryName(a.dep, a.byRaw) =
                             (IF canon[a.dep] = None THEN RawName[a.dep] ELSE canon[a.dep])
                   PROVE  "managed" \in LinkAfter(TeamOf[a.dep], m, r.associations, a.dep, a.target)
        BY DEF ListedLinksStay
      <3> DEFINE entries == {b \in m.associations : b.dep = a.dep /\ b.target = a.target}
      <3>1. a \in entries
        OBVIOUS
      <3>2. \E b \in entries : EntryName(a.dep, b.byRaw) = Effective(a.dep)
        BY <3>1 DEF Effective
      <3>3. "managed" \in Adopted(link[a.dep][a.target])
        BY DEF Adopted
      <3>4. LinkAfter(TeamOf[a.dep], m, r.associations, a.dep, a.target) =
               Adopted(link[a.dep][a.target])
        BY <3>1, <3>2 DEF LinkAfter
      <3> QED
        BY <3>3, <3>4
    <2> QED
      BY <2>2, <2>3 DEF MetadataKept
  <1> QED
    BY <1>1, MetadataTypes, PTL

\* AutoAssociator, adoption, routes: as long as its row exists, a dismissed
\* association stays dismissed, in every step.
THEOREM DismissedNeverRevived == MetaSpec => DismissedNotRevived
  <1>1. MetaTypeOK /\ [MetaNext]_metaVars =>
           [\A d \in Deps, s \in Targets :
              "dismissed" \in link[d][s] => "dismissed" \in link'[d][s] \/ ~Linked(d, s)']_metaVars
    <2> SUFFICES ASSUME MetaTypeOK, MetaNext, NEW d \in Deps, NEW s \in Targets,
                        "dismissed" \in link[d][s]
                 PROVE  "dismissed" \in link'[d][s] \/ ~Linked(d, s)'
      OBVIOUS
    <2>1. LinkStep(d, s)
      BY MetaSteps
    <2>2. link[d][s] # NoLink
      BY MetadataConstants DEF NoLink, Marks
    <2> QED
      BY <2>1, <2>2 DEF LinkStep, Linked
  <1> QED
    BY <1>1, MetadataTypes, PTL DEF MetaSpec, DismissedNotRevived

----------------------------------------------------------------------------
(* Ingestion. *)

\* With a poll settled, the changes it waits to tell are excepted.
Settling == IF batch.phase = "settled" THEN DOMAIN batch.changes ELSE {}
EventsPending == \A d \in Reported \ (excused \cup Settling) : told[d] = Heard(health[d])

BatchOK ==
    \/ batch = NoBatch
    \/ batch = Fetching
    \/ /\ batch.phase = "settled" /\ batch.result \in PollErrors \cup {"up"}
       /\ DOMAIN batch.changes \subseteq Reported
       /\ batch.changes \in [DOMAIN batch.changes -> Health]

IngestInv == IngestTypeOK /\ BatchOK /\ EventsPending /\ HistoryAgrees

\* Not a dependency.
LEMMA PollsApart == Polls \notin Reported
  <1>1. Cardinality(Reported) \in Nat /\ Reported = 1..Cardinality(Reported)
    BY IngestionConstants, FS_CardinalityType
  <1> QED
    BY <1>1 DEF Polls

\* The last row of a history after a result: it tells the result, or there is
\* none and the result is a success.
LEMMA RecordedTells ==
    ASSUME NEW last, NEW now
    PROVE  /\ Recorded(last, now) \in {last, now}
           /\ \/ Recorded(last, now) = now
              \/ Recorded(last, now) = Unreported /\ now = "up"
  BY DEF Recorded, IsUp

\* A report that is stored, in whole or up to a failure, and the histories.
LEMMA ReportStored ==
    ASSUME IngestInv, NEW report \in Responses, NEW f \in Failures(report), NEW polls,
           polls \subseteq {Polls}, StoreReport(report, f, polls)
    PROVE  /\ health' \in [Reported -> Health \cup {Unreported}]
           /\ entry' \in [Reported -> Health \cup {Unreported}]
           /\ gaps' \subseteq Reported \cup {Polls}
           /\ Polls \in gaps' <=> Polls \in polls
           /\ \A d \in Reported \ gaps' :
                 entry'[d] = health'[d] \/ (entry'[d] = Unreported /\ health'[d] = "up")
  <1> USE DEF IngestInv
  <1>1. /\ DOMAIN report \subseteq Reported
        /\ \A d \in DOMAIN report : report[d] \in Health
    BY IngestionConstants DEF Health
  <1>2. /\ Entered(report, f) \subseteq Stored(report, f)
        /\ Stored(report, f) \subseteq DOMAIN report
    BY DEF Entered, Stored
  <1>3. /\ health' = [d \in Reported |-> IF d \in Stored(report, f) THEN report[d] ELSE health[d]]
        /\ entry' = [d \in Reported |->
              IF d \in Entered(report, f) THEN Recorded(entry[d], report[d]) ELSE entry[d]]
        /\ gaps' = (gaps \ (Entered(report, f) \cup {Polls}))
                    \cup (Stored(report, f) \ Entered(report, f)) \cup polls
    BY DEF StoreReport
  <1>4. /\ health \in [Reported -> Health \cup {Unreported}]
        /\ entry \in [Reported -> Health \cup {Unreported}]
        /\ gaps \subseteq Reported \cup {Polls}
    BY DEF IngestTypeOK
  <1>5. health' \in [Reported -> Health \cup {Unreported}]
    BY <1>1, <1>2, <1>3, <1>4
  <1>6. entry' \in [Reported -> Health \cup {Unreported}]
    <2> SUFFICES ASSUME NEW d \in Reported
                 PROVE  (IF d \in Entered(report, f) THEN Recorded(entry[d], report[d]) ELSE entry[d])
                           \in Health \cup {Unreported}
      BY <1>3
    <2> QED
      BY <1>1, <1>2, <1>4, RecordedTells
  <1>7. gaps' \subseteq Reported \cup {Polls} /\ (Polls \in gaps' <=> Polls \in polls)
    BY <1>1, <1>2, <1>3, <1>4, PollsApart
  <1>8. ASSUME NEW d \in Reported \ gaps'
        PROVE  entry'[d] = health'[d] \/ (entry'[d] = Unreported /\ health'[d] = "up")
    <2>1. CASE d \in Entered(report, f)
      BY <1>2, <1>3, <2>1, RecordedTells
    <2>2. CASE d \notin Entered(report, f)
      <3>1. d \notin Stored(report, f) /\ d # Polls
        BY <1>3, <2>2, PollsApart
      <3>2. d \notin gaps
        BY <1>3, <2>2, <3>1
      <3> QED
        BY <1>3, <2>2, <3>1, <3>2 DEF HistoryAgrees
    <2> QED
      BY <2>1, <2>2
  <1> QED
    BY <1>5, <1>6, <1>7, <1>8

\* What the listeners may assume of a dependency after a report: if its change
\* is neither waiting nor excused, they heard its health.
LEMMA ListenersAgree ==
    ASSUME IngestInv, NEW report \in Responses, NEW f \in Failures(report), NEW polls,
           StoreReport(report, f, polls), NEW d \in Reported
    PROVE  /\ Baseline(report, f)[d] \in {"up", "down", Unreported}
           /\ d \in Changes(report, f) => Heard(report[d]) = Heard(health'[d])
           /\ d \notin Changes(report, f) \cup excused \cup Settling =>
                 Baseline(report, f)[d] = Heard(health'[d])
  <1> USE DEF IngestInv
  <1>1. /\ DOMAIN report \subseteq Reported
        /\ \A e \in DOMAIN report : report[e] \in Health
    BY IngestionConstants DEF Health
  <1>2. Stored(report, f) \subseteq DOMAIN report
    BY DEF Stored
  <1>3. health'[d] = IF d \in Stored(report, f) THEN report[d] ELSE health[d]
    BY DEF StoreReport
  <1>4. Baseline(report, f)[d] =
           IF d \in Stored(report, f) /\ health[d] = Unreported THEN Heard(report[d]) ELSE told[d]
    BY DEF Baseline
  <1>5. \A h \in Health : Heard(h) = IF h = "up" THEN "up" ELSE "down"
    BY IngestionConstants DEF Health, Heard
  <1>6. /\ health[d] \in Health \cup {Unreported}
        /\ told[d] \in {"up", "down", Unreported}
        /\ d \notin excused \cup Settling => told[d] = Heard(health[d])
    BY DEF IngestTypeOK, EventsPending
  <1>7. Baseline(report, f)[d] \in {"up", "down", Unreported}
    BY <1>1, <1>2, <1>4, <1>5, <1>6
  <1>8. d \in Changes(report, f) => Heard(report[d]) = Heard(health'[d])
    BY <1>3 DEF Changes
  <1>9. ASSUME d \notin Changes(report, f) \cup excused \cup Settling
        PROVE  Baseline(report, f)[d] = Heard(health'[d])
    <2>1. CASE d \notin Stored(report, f)
      BY <1>3, <1>4, <1>6, <1>9, <2>1
    <2>2. CASE d \in Stored(report, f) /\ health[d] = Unreported
      BY <1>3, <1>4, <2>2
    <2>3. CASE d \in Stored(report, f) /\ health[d] # Unreported
      <3>1. (health[d] = "up") = (report[d] = "up")
        BY <1>9, <2>3 DEF Changes, HealthChanged, IsUp
      <3> QED
        BY <1>1, <1>2, <1>3, <1>4, <1>5, <1>6, <1>9, <2>3, <3>1
    <2> QED
      BY <2>1, <2>2, <2>3
  <1> QED
    BY <1>7, <1>8, <1>9

\* A push or a manual poll tells the listeners in the step that stores.
LEMMA AnnouncedTells ==
    ASSUME IngestInv, NEW report \in Responses, NEW f \in Failures(report), NEW polls,
           Announce(report, f, polls), batch' = batch
    PROVE  /\ told' \in [Reported -> {"up", "down", Unreported}]
           /\ excused' \subseteq Reported
           /\ EventsPending'
  <1> USE DEF IngestInv
  <1>1. StoreReport(report, f, polls)
    BY DEF Announce
  <1>2. Changes(report, f) \subseteq DOMAIN report /\ DOMAIN report \subseteq Reported
    BY IngestionConstants DEF Changes, Stored
  <1>3. \A d \in Changes(report, f) : Heard(report[d]) \in {"up", "down"}
    BY <1>2, IngestionConstants DEF Heard
  <1>4. Settling' = Settling
    BY DEF Settling
  <1>5. excused \subseteq Reported
    BY DEF IngestTypeOK
  <1>6. CASE f = NoFailure
    <2>1. /\ told' = [d \in Reported |-> IF d \in Changes(report, f)
                        THEN Heard(report[d]) ELSE Baseline(report, f)[d]]
          /\ excused' = excused \ Changes(report, f)
      BY <1>6 DEF Announce
    <2>2. told' \in [Reported -> {"up", "down", Unreported}]
      BY <1>1, <1>3, <2>1, ListenersAgree
    <2>3. \A d \in Reported \ (excused' \cup Settling') : told'[d] = Heard(health'[d])
      BY <1>1, <1>4, <2>1, ListenersAgree
    <2> QED
      BY <1>5, <2>1, <2>2, <2>3 DEF EventsPending, Heard
  <1>7. CASE f # NoFailure
    <2>1. told' = Baseline(report, f) /\ excused' = excused \cup Changes(report, f)
      BY <1>7 DEF Announce
    <2>2. told' \in [Reported -> {"up", "down", Unreported}]
      <3>1. told' = [d \in Reported |-> Baseline(report, f)[d]]
        BY <2>1 DEF Baseline
      <3> QED
        BY <1>1, <3>1, ListenersAgree
    <2>3. \A d \in Reported \ (excused' \cup Settling') : told'[d] = Heard(health'[d])
      BY <1>1, <1>4, <2>1, ListenersAgree
    <2> QED
      BY <1>2, <1>5, <2>1, <2>2, <2>3 DEF EventsPending, Heard
  <1> QED
    BY <1>6, <1>7

LEMMA IngestStarts == IngestInit => IngestInv
  BY IngestionConstants DEF IngestInit, IngestInv, IngestTypeOK, BatchOK, EventsPending, HistoryAgrees, Heard,
         NoBatch, Settling

\* The last poll and its history, after a result that was recorded.
PollsAgree == Polls \notin gaps => pollEntry = pollState \/ (pollEntry = Unreported /\ pollState = "up")

LEMMA PushKeeps ==
    ASSUME IngestInv, NEW report \in Responses, NEW f \in Failures(report), Push(report, f)
    PROVE  IngestInv'
  <1> USE DEF IngestInv
  <1> DEFINE polls == IF f = NoFailure THEN {Polls} ELSE gaps \cap {Polls}
  <1>1. /\ Announce(report, f, polls) /\ UNCHANGED <<batch, pollEntry>>
        /\ pollState' = IF f = NoFailure THEN "up" ELSE pollState
    BY DEF Push
  <1>2. StoreReport(report, f, polls) /\ polls \subseteq {Polls}
    BY <1>1 DEF Announce
  <1>3. Polls \notin polls => f # NoFailure /\ Polls \notin gaps
    OBVIOUS
  <1> HIDE DEF polls
  <1>4. IngestTypeOK'
    BY <1>1, <1>2, AnnouncedTells, ReportStored DEF IngestTypeOK
  <1>5. HistoryAgrees'
    BY <1>1, <1>2, <1>3, ReportStored DEF HistoryAgrees
  <1>6. BatchOK'
    BY <1>1 DEF BatchOK
  <1> QED
    BY <1>1, <1>4, <1>5, <1>6, AnnouncedTells

LEMMA PollNowKeeps ==
    ASSUME IngestInv, NEW report \in Responses, NEW f \in Failures(report),
           NEW err \in PollErrors, PollNow(report, f, err)
    PROVE  IngestInv'
  <1> USE DEF IngestInv
  <1> DEFINE result == IF f = NoFailure THEN "up" ELSE err
  <1>1. /\ Announce(report, f, {}) /\ batch' = batch
        /\ pollState' = result /\ pollEntry' = Recorded(pollEntry, result)
    BY DEF PollNow
  <1>2. StoreReport(report, f, {}) /\ {} \subseteq {Polls}
    BY <1>1 DEF Announce
  <1>3. result \in PollErrors \cup {"up"}
    OBVIOUS
  <1> HIDE DEF result
  <1>4. IngestTypeOK'
    BY <1>1, <1>2, <1>3, AnnouncedTells, ReportStored, RecordedTells DEF IngestTypeOK
  <1>5. HistoryAgrees'
    BY <1>1, <1>2, ReportStored, RecordedTells DEF HistoryAgrees
  <1>6. BatchOK'
    BY <1>1 DEF BatchOK
  <1> QED
    BY <1>1, <1>4, <1>5, <1>6, AnnouncedTells

LEMMA PollReportsKeeps ==
    ASSUME IngestInv, NEW report \in Responses, NEW f \in Failures(report),
           NEW err \in PollErrors, PollReports(report, f, err)
    PROVE  IngestInv'
  <1> USE DEF IngestInv
  <1> DEFINE polls == gaps \cap {Polls}
             found == Changes(report, f)
  <1>1. /\ batch = Fetching /\ StoreReport(report, f, polls)
        /\ told' = Baseline(report, f)
        /\ UNCHANGED <<pollState, pollEntry>>
        /\ batch' = IF f = NoFailure THEN Settled("up", Restrict(report, found))
                                     ELSE Settled(err, << >>)
        /\ excused' = IF f = NoFailure THEN excused ELSE excused \cup found
    BY DEF PollReports
  <1>2. polls \subseteq {Polls} /\ (Polls \in polls <=> Polls \in gaps)
    OBVIOUS
  <1>3. found \subseteq DOMAIN report /\ DOMAIN report \subseteq Reported
    BY IngestionConstants DEF Changes, Stored
  <1>4. Settling = {}
    BY <1>1 DEF Settling, Fetching
  <1>5. BatchOK' /\ (f = NoFailure => Settling' = found) /\ batch'.phase = "settled"
    <2>1. CASE f = NoFailure
      <3>1. batch' = [phase |-> "settled", result |-> "up", changes |-> Restrict(report, found)]
        BY <1>1, <2>1 DEF Settled
      <3>2. Restrict(report, found) \in [found -> Health] /\ DOMAIN Restrict(report, found) = found
        <4>1. \A d \in found : report[d] \in Health
          BY <1>3, IngestionConstants DEF Health
        <4> QED
          BY <4>1 DEF Restrict
      <3> HIDE DEF found
      <3> QED
        BY <1>3, <2>1, <3>1, <3>2 DEF BatchOK, Settling
    <2>2. CASE f # NoFailure
      <3>1. batch' = [phase |-> "settled", result |-> err, changes |-> << >>]
        BY <1>1, <2>2 DEF Settled
      <3> QED
        BY <2>2, <3>1 DEF BatchOK
    <2> QED
      BY <2>1, <2>2
  <1>6. told' \in [Reported -> {"up", "down", Unreported}]
    <2>1. told' = [d \in Reported |-> Baseline(report, f)[d]]
      BY <1>1 DEF Baseline
    <2> QED
      BY <1>1, <2>1, ListenersAgree
  <1>7. EventsPending'
    <2>1. \A d \in Reported : d \notin found \cup excused =>
             told'[d] = Heard(health'[d])
      BY <1>1, <1>4, ListenersAgree
    <2>2. found \cup excused \subseteq excused' \cup Settling'
      BY <1>1, <1>5
    <2> HIDE DEF found
    <2> QED
      BY <2>1, <2>2 DEF EventsPending, Heard
  <1> HIDE DEF polls
  <1>8. IngestTypeOK'
    <2>1. excused' \subseteq Reported
      BY <1>1, <1>3 DEF IngestTypeOK
    <2> QED
      BY <1>1, <1>2, <1>5, <1>6, <2>1, ReportStored DEF IngestTypeOK
  <1>9. HistoryAgrees'
    BY <1>1, <1>2, ReportStored DEF HistoryAgrees
  <1> QED
    BY <1>5, <1>7, <1>8, <1>9

\* The batch is processed: what it emits is heard, and what was overtaken by a
\* push, or never emitted, stays excused.
LEMMA ProcessBatchKeeps ==
    ASSUME IngestInv, NEW upTo \in Reaches, ProcessBatch(upTo)
    PROVE  IngestInv'
  <1> USE DEF IngestInv
  <1> DEFINE emitted == {d \in DOMAIN batch.changes : d < upTo}
  <1>1. /\ batch.phase = "settled" /\ batch' = NoBatch /\ UNCHANGED <<health, entry>>
        /\ told' = [d \in Reported |-> IF d \in emitted THEN Heard(batch.changes[d]) ELSE told[d]]
        /\ excused' = (excused \cup DOMAIN batch.changes)
                      \ {d \in emitted : Heard(batch.changes[d]) = Heard(health[d])}
        /\ pollState' = IF upTo = -1 THEN pollState ELSE batch.result
        /\ pollEntry' = IF upTo <= 0 THEN pollEntry ELSE Recorded(pollEntry, batch.result)
        /\ gaps' = CASE upTo = -1 -> gaps
                     [] upTo = 0 -> gaps \cup {Polls}
                     [] OTHER -> gaps \ {Polls}
    BY DEF ProcessBatch
  <1>2. /\ batch.result \in PollErrors \cup {"up"}
        /\ DOMAIN batch.changes \subseteq Reported
        /\ \A d \in DOMAIN batch.changes : batch.changes[d] \in Health
    BY <1>1 DEF BatchOK, NoBatch, Fetching
  <1>3. Settling = DOMAIN batch.changes /\ Settling' = {}
    BY <1>1 DEF Settling, NoBatch
  <1>4. emitted \subseteq DOMAIN batch.changes
    OBVIOUS
  <1>5. \A d \in emitted : Heard(batch.changes[d]) \in {"up", "down"}
    BY <1>2 DEF Heard, Health
  <1> HIDE DEF emitted
  <1>6. told' \in [Reported -> {"up", "down", Unreported}]
    BY <1>1, <1>5 DEF IngestTypeOK
  <1>7. EventsPending'
    <2> SUFFICES ASSUME NEW d \in Reported, d \notin excused'
                 PROVE  told'[d] = Heard(health[d])
      BY <1>1, <1>3 DEF EventsPending, Heard
    <2>1. CASE d \in emitted
      BY <1>1, <1>4, <2>1
    <2>2. CASE d \notin emitted
      <3>1. d \notin excused \cup Settling
        BY <1>1, <1>3, <2>2
      <3> QED
        BY <1>1, <2>2, <3>1 DEF EventsPending
    <2> QED
      BY <2>1, <2>2
  <1>8. IngestTypeOK'
    <2>1. pollEntry' \in PollErrors \cup {"up", Unreported}
      BY <1>1, <1>2, RecordedTells DEF IngestTypeOK
    <2>2. gaps' \subseteq Reported \cup {Polls}
      BY <1>1 DEF IngestTypeOK
    <2>3. excused' \subseteq Reported
      BY <1>1, <1>2 DEF IngestTypeOK
    <2> QED
      BY <1>1, <1>2, <1>6, <2>1, <2>2, <2>3 DEF IngestTypeOK, NoBatch
  <1>9. HistoryAgrees'
    <2>1. \A d \in Reported \ gaps' : d \notin gaps
      BY <1>1, PollsApart
    <2>2. \A d \in Reported \ gaps' :
             entry'[d] = health'[d] \/ (entry'[d] = Unreported /\ health'[d] = "up")
      BY <1>1, <2>1 DEF HistoryAgrees
    <2>3. PollsAgree'
      <3>1. CASE upTo = -1
        BY <1>1, <3>1 DEF HistoryAgrees, PollsAgree
      <3>2. CASE upTo = 0
        BY <1>1, <3>2 DEF PollsAgree
      <3>3. CASE upTo # -1 /\ upTo # 0
        <4>1. ~(upTo <= 0)
          <5>1. Cardinality(Reported) \in Nat
            BY IngestionConstants, FS_CardinalityType
          <5> QED
            BY <3>3, <5>1 DEF Reaches
        <4> QED
          BY <1>1, <3>3, <4>1, RecordedTells DEF PollsAgree
      <3> QED
        BY <3>1, <3>2, <3>3
    <2> QED
      BY <2>2, <2>3 DEF HistoryAgrees, PollsAgree
  <1>10. BatchOK'
    BY <1>1 DEF BatchOK
  <1> QED
    BY <1>7, <1>8, <1>9, <1>10

LEMMA IngestSteps == IngestInv /\ [IngestNext]_ingestVars => IngestInv'
  <1> SUFFICES ASSUME IngestInv, [IngestNext]_ingestVars
               PROVE  IngestInv'
    OBVIOUS
  <1> USE DEF IngestInv
  <1>1. CASE StartPoll
    BY <1>1 DEF StartPoll, IngestTypeOK, BatchOK, EventsPending, HistoryAgrees, Heard, Settling,
                NoBatch, Fetching
  <1>2. ASSUME NEW err \in PollErrors, PollFails(err)
        PROVE  IngestInv'
    <2>1. /\ batch' = [phase |-> "settled", result |-> err, changes |-> << >>]
          /\ Settling = {} /\ DOMAIN << >> = {}
      BY <1>2 DEF PollFails, Settled, Settling, Fetching
    <2>2. BatchOK' /\ Settling' = {} /\ batch'.phase = "settled"
      BY <2>1 DEF BatchOK, Settling
    <2> QED
      BY <1>2, <2>1, <2>2 DEF PollFails, IngestTypeOK, EventsPending, HistoryAgrees, Heard
  <1>3. CASE Crash
    <2>1. /\ batch' = NoBatch /\ UNCHANGED <<health, entry, pollState, pollEntry, told, gaps>>
          /\ excused' = excused \cup Settling
      BY <1>3 DEF Crash, Settling
    <2>2. Settling \subseteq Reported
      BY DEF Settling, BatchOK, NoBatch, Fetching
    <2>3. Settling' = {} /\ BatchOK' /\ batch'.phase = "none"
      BY <2>1 DEF Settling, BatchOK, NoBatch
    <2> HIDE DEF Settling
    <2> QED
      BY <2>1, <2>2, <2>3 DEF IngestTypeOK, EventsPending, HistoryAgrees, Heard
  <1>4. CASE PrunePolls
    <2>1. Settling' = Settling
      BY <1>4 DEF PrunePolls, Settling
    <2> QED
      BY <1>4, <2>1, PollsApart DEF PrunePolls, IngestTypeOK, BatchOK, EventsPending,
                                    HistoryAgrees, Heard
  <1>5. ASSUME NEW d \in Reported, PruneErrors(d)
        PROVE  IngestInv'
    <2>1. Settling' = Settling /\ gaps' = gaps \cup {d} /\ d # Polls
      BY <1>5, PollsApart DEF PruneErrors, Settling
    <2>2. \A e \in Reported : e # d => entry'[e] = entry[e]
      BY <1>5 DEF PruneErrors, IngestTypeOK
    <2>3. HistoryAgrees'
      BY <1>5, <2>1, <2>2 DEF PruneErrors, HistoryAgrees
    <2>4. IngestTypeOK'
      BY <1>5, <2>1 DEF PruneErrors, IngestTypeOK
    <2> QED
      BY <1>5, <2>1, <2>3, <2>4 DEF PruneErrors, BatchOK, EventsPending, Heard
  <1>6. CASE UNCHANGED ingestVars
    BY <1>6 DEF ingestVars, IngestTypeOK, BatchOK, EventsPending, HistoryAgrees, Heard, Settling
  <1> QED
    BY <1>1, <1>2, <1>3, <1>4, <1>5, <1>6, PushKeeps, PollNowKeeps, PollReportsKeeps,
       ProcessBatchKeeps DEF IngestNext

\* upsert, recorders, listeners: the types, the settled batch with the changes
\* of dependencies it knows, and who may disagree with whom meanwhile.
THEOREM ReportsConsistent == IngestSpec => []IngestInv
  BY IngestStarts, IngestSteps, PTL DEF IngestSpec

\* Once no poll is settled, the listeners know every dependency as the table
\* does, and the histories end with the present: whichever of polls, manual
\* polls and pushes came, and whatever failed, but for the named exceptions.
THEOREM ReportsAlwaysKept == IngestSpec => []ReportsAreKept
  <1>1. IngestInv => ReportsAreKept
    BY DEF IngestInv, EventsPending, Settling, ReportsAreKept, EventsAgree
  <1> QED
    BY <1>1, ReportsConsistent, PTL

----------------------------------------------------------------------------
(* Retention. *)

\* What the process remembers of the days agrees with what it did on them:
\* the last day it ended a cleanup on is not to come, and the latest of all it
\* began or ended one on, and one that ended on a day began on it or was
\* carried over from the day before.
CleanedOrCarried(d) == begun[d] = 1 \/ CarriedOver(d)
DaysRemembered ==
    /\ \A d \in Days : begun[d] \in {0, 1} /\ ended[d] \in {0, 1}
    /\ checked.at <= slot
    /\ keeper.last # NoDay => keeper.up /\ keeper.last <= Day(slot) /\ ended[keeper.last] = 1
    /\ keeper.up => \A d \in Days :
          begun[d] = 1 \/ ended[d] = 1 => keeper.last # NoDay /\ d <= keeper.last
    /\ \A d \in Days : ended[d] = 1 => CleanedOrCarried(d)
    /\ checked.reached /\ ~checked.failed => CleanedOrCarried(Day(checked.at))

RetentionInv == RetentionTypeOK /\ DaysRemembered

\* A day is a natural number and the days follow each other.
LEMMA DaysFollow ==
    ASSUME NEW t \in Slots
    PROVE  /\ Day(t) \in Nat /\ Day(t) \in Days
           /\ t + 1 \in Slots => Day(t + 1) \in {Day(t), Day(t) + 1}
  <1>1. t \in Nat /\ SlotsPerDay \in Nat /\ SlotsPerDay > 0
    BY RetentionConstants DEF Slots
  <1>2. Day(t) \in Days
    BY DEF Days
  <1> DEFINE k == SlotsPerDay
             x == t \div k
             y == (t + 1) \div k
  <1>3. /\ x \in Nat /\ y \in Nat /\ k * x <= t /\ t < k * x + k
        /\ k * y <= t + 1 /\ t + 1 < k * y + k
    BY <1>1, SMTT(30)
  <1> HIDE DEF k, x, y
  <1>4. k \in Nat /\ k > 0
    BY <1>1 DEF k
  <1>5. ASSUME NEW u \in Nat, NEW v \in Nat, u < v
        PROVE  k * u + k <= k * v
    <2>1. u + 1 <= v /\ k * (u + 1) = k * u + k
      BY <1>4, <1>5
    <2>2. \A a, b \in Nat : a <= b => k * a <= k * b
      BY <1>4
    <2> QED
      BY <2>1, <2>2
  <1>6. k * x \in Nat /\ k * y \in Nat /\ k * (x + 1) = k * x + k
    BY <1>3, <1>4
  <1>7. ~(y < x)
    BY <1>1, <1>3, <1>4, <1>5, <1>6
  <1>8. ~(x + 1 < y)
    <2>1. x + 1 < y => k * (x + 1) + k <= k * y
      BY <1>3, <1>5
    <2> QED
      BY <1>1, <1>3, <1>4, <1>6, <2>1
  <1>9. y \in {x, x + 1}
    BY <1>3, <1>7, <1>8
  <1> QED
    BY <1>2, <1>3, <1>9 DEF Day, x, y, k

\* A cleanup removes rows, whatever table it stops at.
LEMMA CleanedTypes ==
    ASSUME RetentionTypeOK, NEW n, NEW k, ClockAt(n, k) \in Slots
    PROVE  Cleaned(n, k) \in [Range(Tables) -> SUBSET Slots]
  <1>1. rows \in [Range(Tables) -> SUBSET Slots]
    BY DEF RetentionTypeOK
  <1>2. WrittenAt(ClockAt(n, k)) \in SUBSET Slots
    BY DEF WrittenAt
  <1>3. \A table \in Range(Tables) : \A S :
           (rows[table] \ S) \cup WrittenAt(ClockAt(n, k)) \in SUBSET Slots
    BY <1>1, <1>2
  <1> QED
    BY <1>1, <1>3 DEF Cleaned

LEMMA RetentionStarts == RetentionInit => RetentionInv
  <1> SUFFICES ASSUME RetentionInit
               PROVE  RetentionInv
    OBVIOUS
  <1> USE DEF RetentionInit
  <1>1. 0 \in Slots /\ slot = 0
    BY RetentionConstants DEF Slots
  <1>2. Day(0) \in Days
    BY <1>1, DaysFollow
  <1>3. MaxRetention \in Nat /\ 1 \in 1..MaxRetention
    BY RetentionConstants
  <1>4. RetentionTypeOK
    BY <1>1, <1>3 DEF RetentionTypeOK, NeverChecked, SettingOf, NoDay
  <1>5. DaysRemembered
    BY <1>1, <1>2 DEF DaysRemembered, NeverChecked, NoDay
  <1> QED
    BY <1>4, <1>5 DEF RetentionInv

\* One check: a cleanup that succeeds is the first one of the day it began and
\* of the day it ended, and one that is not due on a day whose time has come
\* has been done, or carried over from the day before.
LEMMA CheckKeeps ==
    ASSUME RetentionInv, keeper.up, NEW n, NEW k, Check(n, k),
           settings' = settings, cached' = cached
    PROVE  RetentionInv'
  <1> USE DEF RetentionInv
  <1> DEFINE today == Day(slot)
             until == Day(slot')
  <1>1. /\ slot \in Slots /\ today \in Days /\ today \in Nat
        /\ keeper \in [up : BOOLEAN, last : {NoDay} \cup Days]
        /\ begun \in [Days -> Nat] /\ ended \in [Days -> Nat]
    BY DaysFollow DEF RetentionTypeOK
  <1>2. \A d \in Days : d \in Nat
    BY DaysFollow DEF Days
  <1>3. today = DateOf(slot) /\ until = DateOf(slot')
    BY DEF Day, DateOf
  <1>4. ASSUME Due(slot)
        PROVE  /\ slot' \in Slots /\ slot <= slot' /\ slot' = ClockAt(n, k)
               /\ until \in Days /\ until \in Nat /\ until \in {today, today + 1}
    <2>1. slot' \in Slots /\ slot' = ClockAt(n, k)
      BY <1>4 DEF Check
    <2>2. slot' \in {slot, slot + 1}
      BY <2>1 DEF ClockAt
    <2>3. slot \in Nat
      BY <1>1 DEF Slots
    <2>4. slot <= slot'
      BY <2>2, <2>3
    <2>5. until \in Days /\ until \in Nat
      BY <2>1, DaysFollow
    <2>6. until \in {today, today + 1}
      <3>1. CASE slot' = slot
        BY <3>1
      <3>2. CASE slot' = slot + 1
        BY <1>1, <2>1, <3>2, DaysFollow
      <3> QED
        BY <2>2, <3>1, <3>2
    <2> QED
      BY <2>1, <2>4, <2>5, <2>6
  <1>5. ASSUME Due(slot), NEW d \in Days, today <= d
        PROVE  begun[d] = 0 /\ ended[d] = 0
    <2>1. keeper.last # today
      BY <1>3, <1>5 DEF Due
    <2>2. begun[d] = 1 \/ ended[d] = 1 => keeper.last # NoDay /\ d <= keeper.last
      BY DEF DaysRemembered
    <2>3. keeper.last # NoDay => keeper.last \in Nat /\ keeper.last <= today
      BY <1>1, <1>2 DEF DaysRemembered
    <2>4. begun[d] \in {0, 1} /\ ended[d] \in {0, 1} /\ d \in Nat
      BY <1>2 DEF DaysRemembered
    <2> HIDE DEF today
    <2> QED
      BY <1>1, <1>5, <2>1, <2>2, <2>3, <2>4
  <1>6. CASE Due(slot) /\ n > Len(Tables)
    <2>1. /\ rows' = Cleaned(n, k)
          /\ keeper' = [keeper EXCEPT !.last = until]
          /\ begun' = [begun EXCEPT ![today] = begun[today] + 1]
          /\ ended' = [ended EXCEPT ![until] = ended[until] + 1]
          /\ checked' = [at |-> slot, failed |-> FALSE, reached |-> TRUE]
      BY <1>3, <1>6 DEF Check
    <2>2. /\ slot' \in Slots /\ slot <= slot' /\ slot' = ClockAt(n, k)
          /\ until \in Days /\ until \in Nat /\ until \in {today, today + 1}
      BY <1>4, <1>6
    <2>3. today <= until
      BY <1>1, <2>2
    <2>4. begun[today] = 0 /\ ended[today] = 0 /\ begun[until] = 0 /\ ended[until] = 0
      BY <1>1, <1>5, <1>6, <2>2, <2>3
    <2>5. /\ keeper' \in [up : BOOLEAN, last : {NoDay} \cup Days]
          /\ keeper'.last = until /\ keeper'.up
      BY <1>1, <2>1, <2>2
    <2>6. /\ begun' \in [Days -> Nat] /\ begun'[today] = 1
          /\ \A d \in Days : d # today => begun'[d] = begun[d]
          /\ ended' \in [Days -> Nat] /\ ended'[until] = 1
          /\ \A d \in Days : d # until => ended'[d] = ended[d]
      BY <1>1, <2>1, <2>2, <2>4
    <2>7. RetentionTypeOK'
      BY <1>1, <2>1, <2>2, <2>5, <2>6, CleanedTypes DEF RetentionTypeOK, SettingOf
    <2>8. \A d \in Days : begun[d] = 1 \/ ended[d] = 1 => d <= today
      <3> SUFFICES ASSUME NEW d \in Days, begun[d] = 1 \/ ended[d] = 1
                   PROVE  d <= today
        OBVIOUS
      <3>1. keeper.last # NoDay /\ d <= keeper.last /\ keeper.last <= today
        BY DEF DaysRemembered
      <3> QED
        BY <1>1, <1>2, <3>1
    <2>9. until # NoDay
      BY <2>2 DEF NoDay
    <2>10. \A d \in Days : begun[d] \in {0, 1} /\ ended[d] \in {0, 1}
      BY DEF DaysRemembered
    <2>11. \A d \in Days : ended[d] = 1 => CleanedOrCarried(d)
      BY DEF DaysRemembered
    <2> HIDE DEF today, until
    <2>12. \A d \in Days : begun'[d] \in {0, 1} /\ ended'[d] \in {0, 1}
      BY <1>1, <2>2, <2>6, <2>10
    <2>13. \A d \in Days : begun'[d] = 1 \/ ended'[d] = 1 => d <= until
      <3> SUFFICES ASSUME NEW d \in Days, begun'[d] = 1 \/ ended'[d] = 1
                   PROVE  d <= until
        OBVIOUS
      <3>1. d = today \/ d = until \/ begun[d] = 1 \/ ended[d] = 1
        BY <2>6
      <3>2. d \in Nat
        BY <1>2
      <3> QED
        BY <1>1, <2>2, <2>3, <2>8, <3>1, <3>2
    <2>14. ASSUME NEW d \in Days, ended'[d] = 1
           PROVE  CleanedOrCarried(d)'
      <3>1. CASE d = today
        BY <2>6, <3>1 DEF CleanedOrCarried
      <3>2. CASE d = until /\ d # today
        <4>1. begun'[d] = 0
          BY <2>4, <2>6, <3>2
        <4>2. d - 1 = today
          BY <1>1, <2>2, <3>2
        <4> QED
          BY <1>1, <2>6, <2>14, <4>1, <4>2 DEF CleanedOrCarried, CarriedOver
      <3>3. CASE d # until /\ d # today
        <4>1. CleanedOrCarried(d) /\ ended[d] = 1 /\ begun'[d] = begun[d]
          BY <2>6, <2>11, <2>14, <3>3
        <4>2. \A c \in Days : begun[c] = 1 => begun'[c] = 1
          BY <2>6
        <4> QED
          BY <2>14, <4>1, <4>2 DEF CleanedOrCarried, CarriedOver
      <3> QED
        BY <3>1, <3>2, <3>3
    <2>15. Day(slot)' = until /\ Day(checked.at)' = today
      BY <2>1 DEF Day, until, today
    <2>16. CleanedOrCarried(Day(checked.at))'
      BY <2>6, <2>15 DEF CleanedOrCarried
    <2>17. until <= until
      BY <2>2
    <2>18. checked.at' = slot
      BY <2>1
    <2> QED
      BY <2>2, <2>5, <2>6, <2>7, <2>9, <2>12, <2>13, <2>14, <2>15, <2>16, <2>17, <2>18
         DEF DaysRemembered
  <1>7. CASE Due(slot) /\ ~(n > Len(Tables))
    <2>1. /\ rows' = Cleaned(n, k)
          /\ keeper' = [keeper EXCEPT !.last = keeper.last]
          /\ begun' = [begun EXCEPT ![today] = begun[today]]
          /\ ended' = [ended EXCEPT ![until] = ended[until]]
          /\ checked' = [at |-> slot, failed |-> TRUE, reached |-> TRUE]
      BY <1>3, <1>7 DEF Check
    <2>2. keeper' = keeper /\ begun' = begun /\ ended' = ended
      BY <1>1, <2>1
    <2>3. slot' \in Slots /\ slot <= slot' /\ slot' = ClockAt(n, k) /\ today <= until
          /\ until \in Nat
      BY <1>1, <1>4, <1>7
    <2>4. RetentionTypeOK'
      BY <1>1, <2>1, <2>2, <2>3, CleanedTypes DEF RetentionTypeOK, SettingOf
    <2>5. keeper.last # NoDay => keeper.last <= until
      <3>1. keeper.last # NoDay => keeper.last \in Nat /\ keeper.last <= today
        BY <1>1, <1>2 DEF DaysRemembered
      <3> HIDE DEF today, until
      <3> QED
        BY <1>1, <2>3, <3>1
    <2>6. Day(slot)' = until
      BY DEF Day
    <2> HIDE DEF until
    <2>7. DaysRemembered'
      BY <2>1, <2>2, <2>3, <2>5, <2>6 DEF DaysRemembered, CleanedOrCarried, CarriedOver
    <2> QED
      BY <2>4, <2>7
  <1>8. CASE ~Due(slot)
    <2>1. /\ checked' = [at |-> slot, failed |-> FALSE, reached |-> Reached(slot)]
          /\ UNCHANGED <<slot, rows, keeper, begun, ended>>
      BY <1>8 DEF Check
    <2>2. Reached(slot) \in BOOLEAN
      BY DEF Reached
    <2>3. RetentionTypeOK'
      BY <1>1, <2>1, <2>2 DEF RetentionTypeOK, SettingOf
    <2>4. Reached(slot) => CleanedOrCarried(today)
      <3>1. Reached(slot) => keeper.last = today
        BY <1>3, <1>8 DEF Due
      <3>2. today # NoDay
        BY <1>1 DEF NoDay
      <3>3. keeper.last # NoDay => ended[keeper.last] = 1
        BY DEF DaysRemembered
      <3> HIDE DEF today
      <3> QED
        BY <1>1, <3>1, <3>2, <3>3 DEF DaysRemembered
    <2>5. slot <= slot
      BY <1>1 DEF Slots
    <2>6. DaysRemembered'
      BY <2>1, <2>4, <2>5 DEF DaysRemembered, Day, CleanedOrCarried, CarriedOver
    <2> QED
      BY <2>3, <2>6
  <1> QED
    BY <1>6, <1>7, <1>8

LEMMA RetentionSteps == RetentionInv /\ [RetentionNext]_retentionVars => RetentionInv'
  <1> SUFFICES ASSUME RetentionInv, [RetentionNext]_retentionVars
               PROVE  RetentionInv'
    OBVIOUS
  <1> USE DEF RetentionInv
  <1>1. slot \in Nat /\ MaxSlots \in Nat
    BY RetentionConstants DEF RetentionTypeOK, Slots
  <1>2. \A d \in Days : d \in Nat
    BY DaysFollow DEF Days
  <1>3. CASE Tick
    <2>1. slot' = slot + 1 /\ slot' \in Slots
      BY <1>1, <1>3 DEF Tick, Slots
    <2>2. RetentionTypeOK'
      <3>1. rows' \in [Range(Tables) -> SUBSET Slots]
        BY <1>3, <2>1 DEF Tick, RetentionTypeOK
      <3> QED
        BY <1>3, <2>1, <3>1 DEF Tick, RetentionTypeOK, SettingOf
    <2>3. Day(slot) \in Nat /\ Day(slot') \in Nat /\ Day(slot) <= Day(slot')
      BY <2>1, DaysFollow DEF RetentionTypeOK
    <2>4. keeper.last # NoDay => keeper.last <= Day(slot')
      <3>1. keeper.last # NoDay => keeper.last \in Nat
        BY <1>2 DEF RetentionTypeOK
      <3> QED
        BY <2>3, <3>1 DEF DaysRemembered
    <2>5. checked.at <= slot'
      BY <1>1, <2>1 DEF DaysRemembered, RetentionTypeOK, Slots
    <2>6. DaysRemembered'
      BY <1>3, <2>4, <2>5 DEF Tick, DaysRemembered, Day, CleanedOrCarried, CarriedOver
    <2> QED
      BY <2>2, <2>6
  <1>4. CASE Stop
    <2>1. keeper' = [up |-> FALSE, last |-> NoDay]
      BY <1>4 DEF Stop
    <2>2. RetentionTypeOK'
      BY <1>4 DEF Stop, RetentionTypeOK, SettingOf
    <2>3. DaysRemembered'
      BY <1>4, <2>1 DEF Stop, DaysRemembered, Day, CleanedOrCarried, CarriedOver
    <2> QED
      BY <2>2, <2>3
  <1>5. CASE Restart
    <2>1. keeper.last = NoDay /\ keeper' = [up |-> TRUE, last |-> NoDay]
      BY <1>5 DEF Restart, DaysRemembered, RetentionTypeOK
    <2>2. begun' = [d \in Days |-> 0] /\ ended' = [d \in Days |-> 0]
      BY <1>5 DEF Restart, RetentionTypeOK
    <2>3. cached' \in SettingOf
      BY <1>5 DEF Restart, RetentionTypeOK, SettingOf
    <2>4. 0 \in Slots /\ 0 <= slot
      BY <1>1 DEF Slots
    <2>5. RetentionTypeOK'
      <3>1. checked' \in [at : Slots, failed : BOOLEAN, reached : BOOLEAN]
        BY <1>5, <2>4 DEF Restart, NeverChecked
      <3>2. begun' \in [Days -> Nat] /\ ended' \in [Days -> Nat]
        BY <2>2
      <3> QED
        BY <1>5, <2>1, <2>3, <3>1, <3>2 DEF Restart, RetentionTypeOK
    <2>6. DaysRemembered'
      BY <1>5, <2>1, <2>2, <2>4 DEF Restart, DaysRemembered, NeverChecked
    <2> QED
      BY <2>5, <2>6
  <1>6. CASE \E n \in Statements : \E k \in 1..(n + 1) : Interval(n, k)
    BY <1>6, CheckKeeps DEF Interval
  <1>7. ASSUME NEW time \in Times, SetTime(time)
        PROVE  RetentionInv'
    <2>1. RetentionTypeOK'
      BY <1>7 DEF SetTime, RetentionTypeOK, SettingOf
    <2>2. DaysRemembered'
      BY <1>7 DEF SetTime, DaysRemembered, Day, CleanedOrCarried, CarriedOver
    <2> QED
      BY <2>1, <2>2
  <1>8. ASSUME NEW days \in DaysInputs, SetDays(days)
        PROVE  RetentionInv'
    <2>1. RetentionTypeOK'
      BY <1>8 DEF SetDays, RetentionTypeOK, SettingOf
    <2>2. DaysRemembered'
      BY <1>8 DEF SetDays, DaysRemembered, Day, CleanedOrCarried, CarriedOver
    <2> QED
      BY <2>1, <2>2
  <1>9. ASSUME NEW days, SetSpanDays(days)
        PROVE  RetentionInv'
    <2>1. RetentionTypeOK'
      BY <1>9 DEF SetSpanDays, RetentionTypeOK, SettingOf
    <2>2. DaysRemembered'
      BY <1>9 DEF SetSpanDays, DaysRemembered, Day, CleanedOrCarried, CarriedOver
    <2> QED
      BY <2>1, <2>2
  <1>10. CASE UNCHANGED retentionVars
    BY <1>10 DEF retentionVars, RetentionTypeOK, DaysRemembered, Day, SettingOf,
                 CleanedOrCarried, CarriedOver
  <1> QED
    BY <1>3, <1>4, <1>5, <1>6, <1>7, <1>8, <1>9, <1>10 DEF RetentionNext

\* DataRetentionService keeps its types, and what it remembers of the days is
\* what it did on them: a day it ended a cleanup on and began none on is the
\* one after a day it began one on.
THEOREM DaysAreRemembered == RetentionSpec => []RetentionInv
  BY RetentionStarts, RetentionSteps, PTL DEF RetentionSpec

\* checkAndRun: a day whose time has come is cleaned up once, whenever the
\* checks come, whichever tables fail, and however the time is moved, or is
\* skipped because the cleanup of the day before ended on it.
THEOREM CleanedEveryDay == RetentionSpec => []CleanedDaily
  <1>1. RetentionInv => CleanedDaily
    BY DEF RetentionInv, DaysRemembered, CleanedDaily, CleanedOrCarried
  <1> QED
    BY <1>1, DaysAreRemembered, PTL

----------------------------------------------------------------------------
(* Reports. *)

\* The steps of the folds that parse and store reports, by name, and what
\* the community modules' FoldLeft does with one of them: a function on sets
\* of indexes, from the largest down.
Step(how, acc, x) ==
    CASE how = "line" -> ReadLine(acc, x)
      [] how = "point" -> ReadPoint(acc, x)
      [] how = "item" -> MappedItem(acc, x)
      [] how = "span" -> GroupedSpan(acc, x)
      [] how = "trace" -> Grouped(acc, x)
      [] how = "row" -> StoreRow(acc, x)
      [] how = "metrics" -> MetricsEntry(acc, x)
      [] how = "traces" -> TracesEntry(acc, x)
      [] OTHER -> acc + x

Fold(g, how, base, seq, n) ==
    g = [s \in SUBSET (1..n) |-> IF s = {} THEN base ELSE Step(how, g[s \ {Max(s)}], seq[Max(s)])]

LEMMA MaxIs ==
    ASSUME NEW n \in Nat, NEW s \in SUBSET (1..n), s # {}
    PROVE  /\ Max(s) \in s /\ \A y \in s : y <= Max(s)
           /\ s \ {Max(s)} \in SUBSET (1..(Max(s) - 1))
  <1>0. \A y \in s : y \in 1..n
    OBVIOUS
  <1>1. \E m \in s : \A y \in s : y <= m
    <2> DEFINE T == {n - y : y \in s}
    <2>1. T \subseteq Nat
      BY <1>0
    <2>6. T # {}
      OBVIOUS
    <2>2. PICK t \in T : \A u \in T : t <= u
      <3> HIDE DEF T
      <3> QED
        BY <2>1, <2>6, NatLeast
    <2>3. PICK m \in s : t = n - m
      BY <2>2
    <2>4. \A y \in s : n - y \in T
      OBVIOUS
    <2> HIDE DEF T
    <2> QED
      BY <1>0, <2>2, <2>3, <2>4
  <1>2. Max(s) \in s /\ \A y \in s : Max(s) >= y
    BY <1>1 DEF Max
  <1>3. Max(s) \in 1..n
    BY <1>0, <1>2
  <1> HIDE DEF Max
  <1>4. \A y \in s : y <= Max(s)
    BY <1>0, <1>2, <1>3
  <1>5. \A y \in s \ {Max(s)} : y \in 1..(Max(s) - 1)
    BY <1>0, <1>3, <1>4
  <1> QED
    BY <1>2, <1>4, <1>5

LEMMA FoldsExist ==
    ASSUME NEW how, NEW base, NEW seq, NEW n \in Nat
    PROVE  \E g : Fold(g, how, base, seq, n)
  <1> DEFINE T == {m \in 0..n : \E g : Fold(g, how, base, seq, m)}
  <1>1. 0 \in T
    <2> DEFINE g == [s \in SUBSET (1..0) |-> base]
    <2>1. \A s \in SUBSET (1..0) : s = {}
      OBVIOUS
    <2>2. Fold(g, how, base, seq, 0)
      BY <2>1 DEF Fold
    <2> QED
      BY <2>2
  <1>2. ASSUME NEW m \in 0..n, m \in T, m < n
        PROVE  m + 1 \in T
    <2>1. PICK g : Fold(g, how, base, seq, m)
      BY <1>2
    <2> DEFINE h == [s \in SUBSET (1..(m + 1)) |->
                        IF m + 1 \in s THEN Step(how, g[s \ {m + 1}], seq[m + 1]) ELSE g[s]]
    <2>2. ASSUME NEW s \in SUBSET (1..(m + 1))
          PROVE  h[s] = IF s = {} THEN base ELSE Step(how, h[s \ {Max(s)}], seq[Max(s)])
      <3>1. CASE m + 1 \in s
        <4>1. Max(s) = m + 1
          <5>1. Max(s) \in s /\ m + 1 <= Max(s)
            <6>1. m + 1 \in Nat /\ s # {}
              BY <3>1
            <6> QED
              BY <3>1, <6>1, MaxIs
          <5>2. Max(s) \in 1..(m + 1)
            BY <5>1
          <5> QED
            BY <5>1, <5>2
        <4>2. s \ {m + 1} \in SUBSET (1..(m + 1)) /\ m + 1 \notin s \ {m + 1}
          OBVIOUS
        <4>3. h[s \ {m + 1}] = g[s \ {m + 1}]
          BY <4>2
        <4>4. h[s] = Step(how, g[s \ {m + 1}], seq[m + 1])
          BY <3>1
        <4> HIDE DEF h
        <4> QED
          BY <3>1, <4>1, <4>3, <4>4
      <3>2. CASE m + 1 \notin s
        <4>1. s \in SUBSET (1..m) /\ h[s] = g[s]
          BY <3>2
        <4>2. g[s] = IF s = {} THEN base ELSE Step(how, g[s \ {Max(s)}], seq[Max(s)])
          BY <2>1, <4>1 DEF Fold
        <4>3. m + 1 \notin s \ {Max(s)} /\ s \ {Max(s)} \in SUBSET (1..(m + 1))
          BY <3>2
        <4>4. h[s \ {Max(s)}] = g[s \ {Max(s)}]
          BY <4>3
        <4> HIDE DEF h
        <4> QED
          BY <4>1, <4>2, <4>4
      <3> QED
        BY <3>1, <3>2
    <2>3. h = [s \in SUBSET (1..(m + 1)) |-> h[s]]
      OBVIOUS
    <2> HIDE DEF h
    <2>4. h = [s \in SUBSET (1..(m + 1)) |->
                  IF s = {} THEN base ELSE Step(how, h[s \ {Max(s)}], seq[Max(s)])]
      BY <2>2, <2>3
    <2>5. Fold(h, how, base, seq, m + 1)
      BY <2>4 DEF Fold
    <2> QED
      BY <1>2, <2>5
  <1> HIDE DEF T
  <1>3. n \in T
    BY <1>1, <1>2, UpTo
  <1> QED
    BY <1>3 DEF T

\* The value after each of the first n elements.
StageOf(r, how, base, seq, n) ==
    r[0] = base /\ \A k \in 1..n : r[k] = Step(how, r[k - 1], seq[k])

Folded(how, base, seq) == LET n == Len(seq) IN (CHOOSE g : Fold(g, how, base, seq, n))[1..n]

LEMMA FoldStages ==
    ASSUME NEW how, NEW base, NEW seq, Len(seq) \in Nat
    PROVE  \E r : StageOf(r, how, base, seq, Len(seq)) /\ Folded(how, base, seq) = r[Len(seq)]
  <1> DEFINE n == Len(seq)
             g == CHOOSE f : Fold(f, how, base, seq, n)
             r == [k \in 0..n |-> g[1..k]]
  <1>1. Fold(g, how, base, seq, n)
    BY FoldsExist
  <1>2. Folded(how, base, seq) = g[1..n]
    BY DEF Folded
  <1> HIDE DEF g
  <1>3. r[0] = base
    <2>1. 1..0 = {} /\ {} \in SUBSET (1..n)
      OBVIOUS
    <2>2. g[{}] = base
      BY <1>1, <2>1 DEF Fold
    <2> QED
      BY <2>1, <2>2
  <1>4. ASSUME NEW k \in 1..n
        PROVE  r[k] = Step(how, r[k - 1], seq[k])
    <2>1. 1..k \in SUBSET (1..n) /\ 1..k # {} /\ k \in 1..k
      OBVIOUS
    <2>2. Max(1..k) = k
      <3>1. Max(1..k) \in 1..k /\ k <= Max(1..k)
        BY <2>1, MaxIs
      <3> QED
        BY <3>1
    <2>3. (1..k) \ {k} = 1..(k - 1)
      OBVIOUS
    <2>4. g[1..k] = Step(how, g[(1..k) \ {k}], seq[k])
      BY <1>1, <2>1, <2>2 DEF Fold
    <2>5. r[k] = g[1..k] /\ r[k - 1] = g[1..(k - 1)]
      OBVIOUS
    <2> HIDE DEF r
    <2> QED
      BY <2>3, <2>4, <2>5
  <1>5. StageOf(r, how, base, seq, n)
    <2> HIDE DEF r
    <2> QED
      BY <1>3, <1>4 DEF StageOf
  <1>6. r[n] = g[1..n]
    OBVIOUS
  <1> HIDE DEF r
  <1> QED
    BY <1>2, <1>5, <1>6


LEMMA LinesFold ==
    ASSUME NEW base, NEW seq, DOMAIN seq = 1..Len(seq)
    PROVE  FoldLeft(ReadLine, base, seq) = Folded("line", base, seq)
  <1> DEFINE D == 1..Len(seq)
             Is(g) == g = [s \in SUBSET D |->
                              IF s = {} THEN base ELSE ReadLine(g[s \ {Max(s)}], seq[Max(s)])]
  <1>1. \A a, x : Step("line", a, x) = ReadLine(a, x)
    BY DEF Step
  <1>2. FoldLeft(ReadLine, base, seq) = (CHOOSE g : Is(g))[D]
    BY DEF FoldLeft, MapThenFoldSet
  <1>3. \A g : Is(g) <=> Fold(g, "line", base, seq, Len(seq))
    BY <1>1 DEF Fold
  <1> QED
    BY <1>2, <1>3 DEF Folded

LEMMA PointsFold ==
    ASSUME NEW base, NEW seq, DOMAIN seq = 1..Len(seq)
    PROVE  FoldLeft(ReadPoint, base, seq) = Folded("point", base, seq)
  <1> DEFINE D == 1..Len(seq)
             Is(g) == g = [s \in SUBSET D |->
                              IF s = {} THEN base ELSE ReadPoint(g[s \ {Max(s)}], seq[Max(s)])]
  <1>1. \A a, x : Step("point", a, x) = ReadPoint(a, x)
    BY DEF Step
  <1>2. FoldLeft(ReadPoint, base, seq) = (CHOOSE g : Is(g))[D]
    BY DEF FoldLeft, MapThenFoldSet
  <1>3. \A g : Is(g) <=> Fold(g, "point", base, seq, Len(seq))
    BY <1>1 DEF Fold
  <1> QED
    BY <1>2, <1>3 DEF Folded

LEMMA ItemsFold ==
    ASSUME NEW base, NEW seq, DOMAIN seq = 1..Len(seq)
    PROVE  FoldLeft(MappedItem, base, seq) = Folded("item", base, seq)
  <1> DEFINE D == 1..Len(seq)
             Is(g) == g = [s \in SUBSET D |->
                              IF s = {} THEN base ELSE MappedItem(g[s \ {Max(s)}], seq[Max(s)])]
  <1>1. \A a, x : Step("item", a, x) = MappedItem(a, x)
    BY DEF Step
  <1>2. FoldLeft(MappedItem, base, seq) = (CHOOSE g : Is(g))[D]
    BY DEF FoldLeft, MapThenFoldSet
  <1>3. \A g : Is(g) <=> Fold(g, "item", base, seq, Len(seq))
    BY <1>1 DEF Fold
  <1> QED
    BY <1>2, <1>3 DEF Folded

LEMMA SpansFold ==
    ASSUME NEW base, NEW seq, DOMAIN seq = 1..Len(seq)
    PROVE  FoldLeft(GroupedSpan, base, seq) = Folded("span", base, seq)
  <1> DEFINE D == 1..Len(seq)
             Is(g) == g = [s \in SUBSET D |->
                              IF s = {} THEN base ELSE GroupedSpan(g[s \ {Max(s)}], seq[Max(s)])]
  <1>1. \A a, x : Step("span", a, x) = GroupedSpan(a, x)
    BY DEF Step
  <1>2. FoldLeft(GroupedSpan, base, seq) = (CHOOSE g : Is(g))[D]
    BY DEF FoldLeft, MapThenFoldSet
  <1>3. \A g : Is(g) <=> Fold(g, "span", base, seq, Len(seq))
    BY <1>1 DEF Fold
  <1> QED
    BY <1>2, <1>3 DEF Folded

LEMMA GroupsFold ==
    ASSUME NEW base, NEW seq, DOMAIN seq = 1..Len(seq)
    PROVE  FoldLeft(Grouped, base, seq) = Folded("trace", base, seq)
  <1> DEFINE D == 1..Len(seq)
             Is(g) == g = [s \in SUBSET D |->
                              IF s = {} THEN base ELSE Grouped(g[s \ {Max(s)}], seq[Max(s)])]
  <1>1. \A a, x : Step("trace", a, x) = Grouped(a, x)
    BY DEF Step
  <1>2. FoldLeft(Grouped, base, seq) = (CHOOSE g : Is(g))[D]
    BY DEF FoldLeft, MapThenFoldSet
  <1>3. \A g : Is(g) <=> Fold(g, "trace", base, seq, Len(seq))
    BY <1>1 DEF Fold
  <1> QED
    BY <1>2, <1>3 DEF Folded

LEMMA MetricsFold ==
    ASSUME NEW base, NEW seq, DOMAIN seq = 1..Len(seq)
    PROVE  FoldLeft(MetricsEntry, base, seq) = Folded("metrics", base, seq)
  <1> DEFINE D == 1..Len(seq)
             Is(g) == g = [s \in SUBSET D |->
                              IF s = {} THEN base ELSE MetricsEntry(g[s \ {Max(s)}], seq[Max(s)])]
  <1>1. \A a, x : Step("metrics", a, x) = MetricsEntry(a, x)
    BY DEF Step
  <1>2. FoldLeft(MetricsEntry, base, seq) = (CHOOSE g : Is(g))[D]
    BY DEF FoldLeft, MapThenFoldSet
  <1>3. \A g : Is(g) <=> Fold(g, "metrics", base, seq, Len(seq))
    BY <1>1 DEF Fold
  <1> QED
    BY <1>2, <1>3 DEF Folded

LEMMA TracesFold ==
    ASSUME NEW base, NEW seq, DOMAIN seq = 1..Len(seq)
    PROVE  FoldLeft(TracesEntry, base, seq) = Folded("traces", base, seq)
  <1> DEFINE D == 1..Len(seq)
             Is(g) == g = [s \in SUBSET D |->
                              IF s = {} THEN base ELSE TracesEntry(g[s \ {Max(s)}], seq[Max(s)])]
  <1>1. \A a, x : Step("traces", a, x) = TracesEntry(a, x)
    BY DEF Step
  <1>2. FoldLeft(TracesEntry, base, seq) = (CHOOSE g : Is(g))[D]
    BY DEF FoldLeft, MapThenFoldSet
  <1>3. \A g : Is(g) <=> Fold(g, "traces", base, seq, Len(seq))
    BY <1>1 DEF Fold
  <1> QED
    BY <1>2, <1>3 DEF Folded

LEMMA RowsFold ==
    ASSUME NEW base, NEW seq, DOMAIN seq = 1..Len(seq)
    PROVE  FoldLeft(StoreRow, base, seq) = Folded("row", base, seq)
  <1> DEFINE D == 1..Len(seq)
             Is(g) == g = [s \in SUBSET D |->
                              IF s = {} THEN base ELSE StoreRow(g[s \ {Max(s)}], seq[Max(s)])]
  <1>1. \A a, x : Step("row", a, x) = StoreRow(a, x)
    BY DEF Step
  <1>2. FoldLeft(StoreRow, base, seq) = (CHOOSE g : Is(g))[D]
    BY DEF FoldLeft, MapThenFoldSet
  <1>3. \A g : Is(g) <=> Fold(g, "row", base, seq, Len(seq))
    BY <1>1 DEF Fold
  <1> QED
    BY <1>2, <1>3 DEF Folded

LEMMA NumbersFold ==
    ASSUME NEW base, NEW seq, DOMAIN seq = 1..Len(seq)
    PROVE  FoldLeft(LAMBDA a, b : a + b, base, seq) = Folded("number", base, seq)
  <1> DEFINE D == 1..Len(seq)
             Is(g) == g = [s \in SUBSET D |->
                              IF s = {} THEN base ELSE g[s \ {Max(s)}] + seq[Max(s)]]
  <1>1. \A a, x : Step("number", a, x) = a + x
    BY DEF Step
  <1>2. FoldLeft(LAMBDA a, b : a + b, base, seq) = (CHOOSE g : Is(g))[D]
    BY DEF FoldLeft, MapThenFoldSet
  <1>3. \A g : Is(g) <=> Fold(g, "number", base, seq, Len(seq))
    BY <1>1 DEF Fold
  <1> QED
    BY <1>2, <1>3 DEF Folded

----------------------------------------------------------------------------
(* What the parsers make of a report. *)

PercentileValues == {Absent} \cup {PercentilesOf(h) : h \in Buckets}
ReportRow == [healthy : BOOLEAN, state : 0..2, latency : Nat, skipped : BOOLEAN,
              percentiles : PercentileValues]
Facts == [name : ReportedDeps, row : ReportRow]
RowsOfReporter == [ReportedDeps -> Maybe(ReportRow)]

LEMMA RowIs ==
    ASSUME NEW h \in BOOLEAN, NEW s \in 0..2, NEW l \in Nat, NEW k \in BOOLEAN,
           NEW p \in PercentileValues
    PROVE  Row(h, s, l, k, p) \in ReportRow
  BY DEF Row, ReportRow

LEMMA DefaultsFit ==
    ASSUME NEW body \in Items
    PROVE  ParseDefault(body).deps \in Seq(Facts)
  <1> DEFINE items == body.items
             deps == [k \in DOMAIN items |-> Found(items[k].name, DefaultRow(items[k]))]
  <1>1. items \in Seq(ReportItem)
    BY ReportConstants
  <1>2. CASE body.root = "list" /\ \A k \in DOMAIN body.items : GoodItem(body.items[k])
    <2>1. ASSUME NEW k \in DOMAIN items
          PROVE  Found(items[k].name, DefaultRow(items[k])) \in Facts
      <3> DEFINE i == items[k]
                 healthy == i.healthy # FALSE
                 state == IF i.flat THEN (IF healthy THEN 0 ELSE 2)
                          ELSE IF i.state = Absent THEN 0 ELSE i.state
      <3>1. i \in ReportItem /\ i.name # Absent
        BY <1>1, <1>2 DEF GoodItem
      <3>2. i.name \in ReportedDeps /\ i.latency \in Nat /\ i.skipped \in BOOLEAN
        BY <3>1 DEF ReportItem, Maybe
      <3>3. state \in 0..2
        BY <3>1 DEF ReportItem, Maybe
      <3>4. Absent \in PercentileValues
        BY DEF PercentileValues
      <3>5. DefaultRow(i) = Row(healthy, state, i.latency, i.skipped, Absent)
        BY DEF DefaultRow
      <3>6. healthy \in BOOLEAN
        OBVIOUS
      <3> HIDE DEF healthy, state, i
      <3>7. DefaultRow(i) \in ReportRow
        BY <3>2, <3>3, <3>4, <3>5, <3>6, RowIs
      <3> QED
        BY <3>2, <3>7 DEF Found, Facts, i
    <2>2. ParseDefault(body).deps = deps
      BY <1>2 DEF ParseDefault, Parsed
    <2>3. deps \in [1..Len(items) -> Facts] /\ Len(items) \in Nat
      BY <1>1, <2>1
    <2> HIDE DEF deps
    <2> QED
      BY <2>2, <2>3
  <1>3. CASE ~(body.root = "list" /\ \A k \in DOMAIN body.items : GoodItem(body.items[k]))
    BY <1>3 DEF ParseDefault, Refused
  <1> QED
    BY <1>2, <1>3

LEMMA MappedFit ==
    ASSUME NEW body \in Items
    PROVE  ParseMapped(body).deps \in Seq(Facts)
  <1> DEFINE items == body.items
             n == Len(items)
             base == Parsed(<<>>, {})
             Typed(acc) == DOMAIN acc = {"ok", "deps", "warnings"} /\ acc.deps \in Seq(Facts)
  <1>1. items \in Seq(ReportItem) /\ n \in Nat /\ DOMAIN items = 1..n
    BY ReportConstants
  <1>2. PICK r : StageOf(r, "item", base, items, n) /\ Folded("item", base, items) = r[n]
    BY <1>1, FoldStages
  <1> DEFINE T == {k \in 0..n : Typed(r[k])}
  <1>3. 0 \in T
    <2>1. r[0] = base
      BY <1>2 DEF StageOf
    <2>2. Typed(base)
      BY DEF Parsed
    <2> QED
      BY <1>1, <2>1, <2>2
  <1>4. ASSUME NEW k \in 0..n, k \in T, k < n
        PROVE  k + 1 \in T
    <2> DEFINE i == items[k + 1]
               acc == r[k]
    <2>1. k + 1 \in 1..n /\ Typed(acc)
      BY <1>1, <1>4
    <2>2. r[k + 1] = MappedItem(acc, i)
      <3>1. r[k + 1] = Step("item", r[(k + 1) - 1], items[k + 1])
        BY <1>2, <2>1 DEF StageOf
      <3> QED
        BY <1>1, <3>1 DEF Step
    <2>3. i \in ReportItem
      BY <1>1, <2>1
    <2> HIDE DEF i, acc
    <2>4. Typed(MappedItem(acc, i))
      <3>1. CASE GoodItem(i)
        <4> DEFINE healthy == i.skipped \/ i.healthy = TRUE
                   state == IF healthy THEN 0 ELSE 2
        <4>1. i.name \in ReportedDeps /\ i.latency \in Nat /\ i.skipped \in BOOLEAN
          BY <2>3, <3>1 DEF ReportItem, Maybe, GoodItem
        <4>2. healthy \in BOOLEAN /\ state \in 0..2 /\ Absent \in PercentileValues
          BY DEF PercentileValues
        <4>3. MappedRow(i) = Row(healthy, state, i.latency, i.skipped, Absent)
          BY DEF MappedRow
        <4> HIDE DEF healthy, state
        <4>4. MappedRow(i) \in ReportRow
          BY <4>1, <4>2, <4>3, RowIs
        <4>5. Found(i.name, MappedRow(i)) \in Facts
          BY <4>1, <4>4 DEF Found, Facts
        <4>6. MappedItem(acc, i) = [acc EXCEPT !.deps = Append(@, Found(i.name, MappedRow(i)))]
          BY <3>1 DEF MappedItem
        <4> QED
          BY <2>1, <4>5, <4>6
      <3>2. CASE ~GoodItem(i)
        BY <2>1, <3>2 DEF MappedItem
      <3> QED
        BY <3>1, <3>2
    <2> HIDE DEF Typed
    <2> QED
      BY <1>1, <2>1, <2>2, <2>4
  <1>5. n \in T
    <2> HIDE DEF T, n
    <2> QED
      BY <1>1, <1>3, <1>4, UpTo
  <1>6. Typed(FoldLeft(MappedItem, base, items))
    <2>1. FoldLeft(MappedItem, base, items) = Folded("item", base, items)
      BY <1>1, ItemsFold
    <2> HIDE DEF Typed
    <2> QED
      BY <2>1, <1>2, <1>5
  <1>7. Refused.deps \in Seq(Facts)
    BY DEF Refused
  <1> QED
    BY <1>6, <1>7 DEF ParseMapped

----------------------------------------------------------------------------
(* Entries of metrics: a point sets one field. *)

EntryFits(e) ==
    /\ "state" \in DOMAIN e => e["state"] \in 0..2
    /\ "latency" \in DOMAIN e => e["latency"] \in Nat
    /\ "percentiles" \in DOMAIN e => e["percentiles"] \in PercentileValues
EntriesFit(entries) ==
    /\ IsFiniteSet(DOMAIN entries) /\ DOMAIN entries \subseteq ReportedDeps
    /\ \A d \in DOMAIN entries : EntryFits(entries[d])

LEMMA EntrySet ==
    ASSUME NEW e, EntryFits(e), NEW f, NEW v,
           f = "state" => v \in 0..2, f = "latency" => v \in Nat,
           f = "percentiles" => v \in PercentileValues
    PROVE  EntryFits(SetField(e, f, v))
  <1> DEFINE s == SetField(e, f, v)
  <1>1. /\ DOMAIN s = DOMAIN e \cup {f} /\ s[f] = v
        /\ \A x \in DOMAIN e : x # f => s[x] = e[x]
    BY DEF SetField
  <1> HIDE DEF s
  <1>2. EntryFits(s)
    BY <1>1 DEF EntryFits
  <1> QED
    BY <1>2 DEF s

LEMMA EntriesSet ==
    ASSUME NEW entries, EntriesFit(entries), NEW d \in ReportedDeps, NEW e, EntryFits(e)
    PROVE  EntriesFit(SetField(entries, d, e))
  <1> DEFINE s == SetField(entries, d, e)
  <1>1. /\ DOMAIN s = DOMAIN entries \cup {d} /\ s[d] = e
        /\ \A x \in DOMAIN entries : x # d => s[x] = entries[x]
    BY DEF SetField
  <1>2. IsFiniteSet(DOMAIN entries \cup {d})
    BY FS_AddElement DEF EntriesFit
  <1> HIDE DEF s
  <1>3. EntriesFit(s)
    BY <1>1, <1>2 DEF EntriesFit
  <1> QED
    BY <1>3 DEF s

LEMMA NoEntryFits == EntryFits(<< >>) /\ EntriesFit(<< >>)
  <1>1. DOMAIN << >> = {}
    OBVIOUS
  <1>2. IsFiniteSet({})
    BY FS_EmptySet
  <1> QED
    BY <1>1, <1>2 DEF EntryFits, EntriesFit

LEMMA EntryOfFits ==
    ASSUME NEW entries, EntriesFit(entries), NEW d
    PROVE  EntryFits(EntryOf(entries, d))
  BY NoEntryFits DEF EntryOf, EntriesFit

LEMMA NamesInOrder ==
    ASSUME NEW S, IsFiniteSet(S)
    PROVE  /\ Cardinality(S) \in Nat /\ SetToSeq(S) \in [1..Cardinality(S) -> S]
           /\ IsInjective(SetToSeq(S))
           /\ \A x \in S : \E k \in 1..Cardinality(S) : SetToSeq(S)[k] = x
  <1> DEFINE Lists(f, n) == f \in [1..n -> S] /\ IsInjective(f)
             n == Cardinality(S)
             names == SetToSeq(S)
  <1>1. PICK k \in Nat : ExistsBijection(1..k, S)
    BY FS_NatBijection
  <1>2. n = k
    BY <1>1, FS_CountingElements
  <1>3. PICK f : f \in Bijection(1..k, S)
    BY <1>1 DEF ExistsBijection
  <1>4. Lists(f, k)
    BY <1>3 DEF Bijection, Injection, IsInjective
  <1>5. Lists(names, n)
    BY <1>2, <1>4 DEF SetToSeq
  <1>6. ExistsBijection(1..n, Range(names))
    <2>1. names \in Bijection(1..n, Range(names))
      BY <1>5 DEF Bijection, Injection, Surjection, IsInjective, Range
    <2> QED
      BY <2>1 DEF ExistsBijection
  <1>7. Range(names) \subseteq S
    BY <1>5 DEF Range
  <1>8. Cardinality(Range(names)) = n /\ n \in Nat
    BY <1>1, <1>2, <1>6, FS_CountingElements
  <1>9. Range(names) = S
    BY <1>7, <1>8, FS_Subset
  <1>10. \A x \in S : \E j \in 1..n : names[j] = x
    BY <1>5, <1>9 DEF Range
  <1> QED
    BY <1>5, <1>8, <1>10

LEMMA ParsedRowsFit ==
    ASSUME NEW entries, EntriesFit(entries), NEW chosen \in {Defaults, Custom}
    PROVE  ParsedRows(entries, chosen) \in Seq(Facts)
  <1> DEFINE names == SetToSeq(DOMAIN entries)
             n == Cardinality(DOMAIN entries)
             found == [k \in DOMAIN names |-> Found(names[k], MetricRow(entries[names[k]], chosen))]
  <1>1. n \in Nat /\ names \in [1..n -> DOMAIN entries]
    BY NamesInOrder DEF EntriesFit
  <1> HIDE DEF names
  <1>2. ASSUME NEW e, EntryFits(e)
        PROVE  MetricRow(e, chosen) \in ReportRow
    <2> DEFINE state == Field(e, "state", 0)
               healthy == IF "healthy" \in DOMAIN e THEN e.healthy = chosen.healthyValue
                          ELSE state # 2
               latency == Field(e, "latency", 0) * chosen.unit
               skipped == Field(e, "skipped", 0) = 1
               percentiles == Field(e, "percentiles", Absent)
    <2>1. state \in 0..2
      BY <1>2 DEF Field, EntryFits
    <2>2. healthy \in BOOLEAN /\ skipped \in BOOLEAN
      OBVIOUS
    <2>3. latency \in Nat
      <3>1. Field(e, "latency", 0) \in Nat
        BY <1>2 DEF Field, EntryFits
      <3>2. chosen.unit \in Nat
        BY DEF Defaults, Custom
      <3> QED
        BY <3>1, <3>2
    <2>4. percentiles \in PercentileValues
      BY <1>2 DEF Field, EntryFits, PercentileValues
    <2>5. MetricRow(e, chosen) = Row(healthy, state, latency, skipped, percentiles)
      BY DEF MetricRow
    <2> HIDE DEF state, healthy, latency, skipped, percentiles
    <2> QED
      BY <2>1, <2>2, <2>3, <2>4, <2>5, RowIs
  <1>3. ASSUME NEW k \in 1..n
        PROVE  Found(names[k], MetricRow(entries[names[k]], chosen)) \in Facts
    <2>1. names[k] \in DOMAIN entries
      BY <1>1
    <2>2. names[k] \in ReportedDeps /\ EntryFits(entries[names[k]])
      BY <2>1 DEF EntriesFit
    <2> QED
      BY <1>2, <2>2 DEF Found, Facts
  <1>4. found \in [1..n -> Facts]
    BY <1>1, <1>3
  <1>5. ParsedRows(entries, chosen) = found
    BY DEF ParsedRows, names
  <1> HIDE DEF found
  <1> QED
    BY <1>1, <1>4, <1>5

LEMMA LinesFit ==
    ASSUME NEW lines \in Texts
    PROVE  EntriesFit(FoldLeft(ReadLine, [entries |-> << >>, warnings |-> {}], lines).entries)
  <1> DEFINE n == Len(lines)
             base == [entries |-> << >>, warnings |-> {}]
             Typed(acc) == DOMAIN acc = {"entries", "warnings"} /\ EntriesFit(acc.entries)
  <1>1. lines \in Seq(ReportPoint) /\ n \in Nat /\ DOMAIN lines = 1..n
    BY ReportConstants
  <1>2. PICK r : StageOf(r, "line", base, lines, n) /\ Folded("line", base, lines) = r[n]
    BY <1>1, FoldStages
  <1> DEFINE T == {k \in 0..n : Typed(r[k])}
  <1>3. 0 \in T
    <2>1. r[0] = base
      BY <1>2 DEF StageOf
    <2>2. Typed(base)
      BY NoEntryFits
    <2> QED
      BY <1>1, <2>1, <2>2
  <1>4. ASSUME NEW k \in 0..n, k \in T, k < n
        PROVE  k + 1 \in T
    <2> DEFINE p == lines[k + 1]
               acc == r[k]
    <2>1. k + 1 \in 1..n /\ Typed(acc)
      BY <1>1, <1>4
    <2>2. r[k + 1] = ReadLine(acc, p)
      <3>1. r[k + 1] = Step("line", r[(k + 1) - 1], lines[k + 1])
        BY <1>2, <2>1 DEF StageOf
      <3> QED
        BY <1>1, <3>1 DEF Step
    <2>3. p \in ReportPoint
      BY <1>1, <2>1
    <2> HIDE DEF p, acc
    <2>4. Typed(ReadLine(acc, p))
      <3>1. CASE p.kind # "malformed" /\ p.field # Absent /\ p.dep # Absent
        <4> DEFINE new == SetField(EntryOf(acc.entries, p.dep), p.field, p.value)
        <4>1. /\ p.dep \in ReportedDeps /\ p.value \in Nat /\ p.field \in Fields
              /\ p.field = "state" => p.value \in 0..2
          BY <2>3, <3>1 DEF ReportPoint, Maybe
        <4>2. EntryFits(new)
          <5>1. p.field # "percentiles"
            BY <4>1 DEF Fields
          <5> QED
            BY <2>1, <4>1, <5>1, EntryOfFits, EntrySet
        <4>3. EntriesFit(SetField(acc.entries, p.dep, new))
          BY <2>1, <4>1, <4>2, EntriesSet
        <4>4. ReadLine(acc, p) = [acc EXCEPT !.entries = SetField(acc.entries, p.dep, new)]
          BY <3>1 DEF ReadLine
        <4> HIDE DEF new
        <4> QED
          BY <2>1, <4>3, <4>4
      <3>2. CASE ~(p.kind # "malformed" /\ p.field # Absent /\ p.dep # Absent)
        BY <2>1, <3>2 DEF ReadLine
      <3> QED
        BY <3>1, <3>2
    <2> HIDE DEF Typed
    <2> QED
      BY <1>1, <2>1, <2>2, <2>4
  <1>5. n \in T
    <2> HIDE DEF T, n
    <2> QED
      BY <1>1, <1>3, <1>4, UpTo
  <1> DEFINE acc == FoldLeft(ReadLine, base, lines)
  <1>6. EntriesFit(acc.entries)
    <2>1. acc = Folded("line", base, lines)
      BY <1>1, LinesFold
    <2> HIDE DEF acc
    <2> QED
      BY <2>1, <1>2, <1>5
  <1> QED
    BY <1>6

LEMMA TextFits ==
    ASSUME NEW lines \in Texts, NEW chosen \in {Defaults, Custom}
    PROVE  ParseText(lines, chosen).deps \in Seq(Facts)
  <1> DEFINE acc == FoldLeft(ReadLine, [entries |-> << >>, warnings |-> {}], lines)
  <1>1. EntriesFit(acc.entries)
    BY LinesFit
  <1>2. ParseText(lines, chosen).deps = ParsedRows(acc.entries, chosen)
    BY DEF ParseText, Parsed
  <1> HIDE DEF acc
  <1> QED
    BY <1>1, <1>2, ParsedRowsFit

----------------------------------------------------------------------------
(* Histograms: the sums of the buckets only grow, and where they first     *)
(* cross a quantile the bucket is not empty.                               *)

LEMMA SumsAre ==
    ASSUME NEW counts \in Seq(Nat)
    PROVE  /\ DOMAIN Sums(counts) = 1..Len(counts) /\ Len(Sums(counts)) = Len(counts)
           /\ \A k \in 1..Len(counts) :
                 /\ Sums(counts)[k] \in Nat
                 /\ Sums(counts)[k] = (IF k = 1 THEN 0 ELSE Sums(counts)[k - 1]) + counts[k]
  <1> DEFINE n == Len(counts)
             all == [k \in 1..n |-> SumTo(counts, k)]
  <1>1. n \in Nat /\ DOMAIN counts = 1..n /\ \A k \in 1..n : counts[k] \in Nat
    OBVIOUS
  <1>2. PICK r : StageOf(r, "number", 0, counts, n)
    BY <1>1, FoldStages
  <1>3. r[0] = 0 /\ \A k \in 1..n : r[k] = r[k - 1] + counts[k]
    BY <1>2 DEF StageOf, Step
  <1>4. ASSUME NEW k \in 0..n
        PROVE  SumTo(counts, k) = r[k]
    <2> DEFINE some == SubSeq(counts, 1, k)
    <2>1. Len(some) = k /\ DOMAIN some = 1..k /\ \A j \in 1..k : some[j] = counts[j]
      BY <1>1
    <2> HIDE DEF some, n
    <2>2. PICK s : StageOf(s, "number", 0, some, k) /\ Folded("number", 0, some) = s[k]
      BY <1>1, <2>1, FoldStages
    <2> DEFINE T == {j \in 0..k : s[j] = r[j]}
    <2>3. 0 \in T
      BY <1>1, <1>3, <2>2 DEF StageOf
    <2>4. ASSUME NEW j \in 0..k, j \in T, j < k
          PROVE  j + 1 \in T
      <3>1. j + 1 \in 1..k /\ j + 1 \in 1..n /\ (j + 1) - 1 = j
        BY <1>1, <2>4
      <3>2. s[j + 1] = s[j] + some[j + 1]
        BY <2>2, <3>1 DEF StageOf, Step
      <3>3. r[j + 1] = r[j] + counts[j + 1]
        BY <1>3, <3>1
      <3> QED
        BY <2>1, <2>4, <3>1, <3>2, <3>3
    <2>5. k \in T
      <3> HIDE DEF T
      <3> QED
        BY <1>1, <2>3, <2>4, UpTo
    <2>6. SumTo(counts, k) = Folded("number", 0, some)
      BY <2>1, NumbersFold DEF SumTo, some
    <2> QED
      BY <2>2, <2>5, <2>6
  <1>5. \A k \in 0..n : r[k] \in Nat
    <2> DEFINE T == {k \in 0..n : r[k] \in Nat}
    <2>1. 0 \in T /\ \A k \in 0..n : k \in T /\ k < n => k + 1 \in T
      BY <1>1, <1>3
    <2>2. \A m \in 0..n : m \in T
      <3> SUFFICES ASSUME NEW m \in 0..n
                   PROVE  m \in T
        OBVIOUS
      <3>1. m \in Nat /\ \A k \in 0..m : k \in 0..n /\ (k < m => k < n)
        BY <1>1
      <3> HIDE DEF T
      <3> QED
        BY <2>1, <3>1, UpTo
    <2> QED
      BY <2>2
  <1>6. Sums(counts) = all
    <2>1. DOMAIN counts = 1..n
      BY <1>1
    <2> HIDE DEF n
    <2> QED
      BY <2>1 DEF Sums
  <1>7. \A k \in 1..n : all[k] = r[k]
    BY <1>4
  <1>8. DOMAIN all = 1..n /\ Len(all) = n
    <2> HIDE DEF n
    <2> QED
      BY <1>1
  <1> HIDE DEF all, n
  <1>9. ASSUME NEW k \in 1..n
        PROVE  /\ all[k] \in Nat
               /\ all[k] = (IF k = 1 THEN 0 ELSE all[k - 1]) + counts[k]
    <2>1. r[k] = r[k - 1] + counts[k] /\ r[k] \in Nat
      BY <1>1, <1>3, <1>5
    <2>2. k # 1 => k - 1 \in 1..n
      BY <1>1
    <2> QED
      BY <1>3, <1>7, <2>1, <2>2
  <1> QED
    BY <1>6, <1>8, <1>9 DEF n

LEMMA RoundedIsInt ==
    ASSUME NEW a \in Int, NEW b \in Nat, b > 0
    PROVE  Rounded(a, b) \in Int
  BY DEF Rounded

LEMMA RoundedIsNat ==
    ASSUME NEW a \in Nat, NEW b \in Nat, b > 0
    PROVE  Rounded(a, b) \in Nat
  BY DEF Rounded

\* A unit of time is a positive fraction of a millisecond.
LEMMA MultiplierIs ==
    ASSUME NEW h
    PROVE  /\ Multiplier(h)[1] \in Nat /\ Multiplier(h)[1] > 0
           /\ Multiplier(h)[2] \in Nat /\ Multiplier(h)[2] > 0
  <1>1. Multiplier(h) \in {<<1, 1>>, <<1, 1000>>, <<1, 1000000>>, <<1000, 1>>}
    BY DEF Multiplier
  <1> QED
    BY <1>1

LEMMA ProductIsPositive ==
    ASSUME NEW a \in Nat, a > 0, NEW b \in Nat, b > 0
    PROVE  a * b \in Nat /\ a * b > 0
  OBVIOUS

LEMMA HundredthsIsInt ==
    ASSUME NEW h, NEW a \in Int, NEW c \in Nat, c > 0
    PROVE  InHundredths(h, a, c) \in Int
  <1>1. \A m \in Nat : m * a \in Int
    OBVIOUS
  <1>2. Multiplier(h)[1] * a \in Int
    BY <1>1, MultiplierIs
  <1>3. Multiplier(h)[2] * c \in Nat /\ Multiplier(h)[2] * c > 0
    BY MultiplierIs, ProductIsPositive
  <1> QED
    BY <1>2, <1>3, RoundedIsInt DEF InHundredths

LEMMA HundredthsIsNat ==
    ASSUME NEW h, NEW a \in Nat, NEW c \in Nat, c > 0
    PROVE  InHundredths(h, a, c) \in Nat
  <1>1. \A m \in Nat : m * a \in Nat
    OBVIOUS
  <1>2. Multiplier(h)[1] * a \in Nat
    BY <1>1, MultiplierIs
  <1>3. Multiplier(h)[2] * c \in Nat /\ Multiplier(h)[2] * c > 0
    BY MultiplierIs, ProductIsPositive
  <1> QED
    BY <1>2, <1>3, RoundedIsNat DEF InHundredths

LEMMA TotalIsNat ==
    ASSUME NEW h \in Buckets
    PROVE  Total(h) \in Nat
  <1>1. h.counts \in Seq(Nat) /\ h.count \in Maybe(Nat)
    BY DEF Buckets
  <1>2. CASE h.count = Absent /\ h.counts # <<>>
    <2>1. Len(h.counts) \in 1..Len(h.counts)
      BY <1>1, <1>2
    <2>2. Total(h) = Sums(h.counts)[Len(h.counts)]
      BY <1>1, <1>2, SumsAre DEF Total, Last
    <2> QED
      BY <1>1, <2>1, <2>2, SumsAre
  <1> QED
    BY <1>1, <1>2 DEF Total, Maybe

LEMMA PercentileIsInt ==
    ASSUME NEW h \in Buckets, Total(h) # 0, h.bounds # <<>>, NEW q \in Nat, q > 0
    PROVE  Percentile(h, q) \in Int
  <1> DEFINE n == Len(h.counts)
             b == Len(h.bounds)
             sums == Sums(h.counts)
             crossed == {i \in DOMAIN h.counts : sums[i] * 100 >= Total(h) * q}
             m == Min(crossed)
  <1>1. /\ h.counts \in Seq(Nat) /\ h.bounds \in Seq(Nat) /\ n \in Nat /\ b \in Nat /\ b > 0
        /\ n <= b + 1 /\ Total(h) \in Nat
    BY TotalIsNat DEF Buckets
  <1>2. \A k \in 1..n : /\ sums[k] \in Nat
                        /\ sums[k] = (IF k = 1 THEN 0 ELSE sums[k - 1]) + h.counts[k]
    BY <1>1, SumsAre
  <1>3. /\ \A k \in 1..n : h.counts[k] \in Nat
        /\ \A k \in 1..b : h.bounds[k] \in Nat
        /\ DOMAIN h.counts = 1..n
    BY <1>1
  <1>4. Last(h.bounds) \in Nat
    BY <1>1, <1>3 DEF Last
  <1> DEFINE Below == Total(h) * q
  <1>5. Below \in Nat /\ Below > 0
    <2>1. \A x, y \in Nat : x # 0 /\ y > 0 => x * y \in Nat /\ x * y > 0
      OBVIOUS
    <2> QED
      BY <1>1, <2>1
  <1> HIDE DEF sums
  <1>6. CASE crossed = {}
    <2>1. Percentile(h, q) = LastBound(h)
      BY <1>6 DEF Percentile, sums
    <2>2. 100 * Last(h.bounds) \in Int
      BY <1>4
    <2> QED
      BY <2>1, <2>2, HundredthsIsInt DEF LastBound
  <1>7. CASE crossed # {}
    <2> HIDE DEF Below
    <2>1. /\ crossed \subseteq 1..n
          /\ \A i \in 1..n : i \in crossed <=> sums[i] * 100 >= Below
      BY <1>3 DEF Below
    <2> HIDE DEF crossed
    <2>2. m \in crossed /\ \A i \in crossed : m <= i
      <3>1. PICK i \in crossed : \A j \in crossed : i <= j
        <4>1. crossed \subseteq Nat
          BY <1>1, <2>1
        <4> QED
          BY <1>7, <4>1, NatLeast
      <3> QED
        BY <3>1 DEF Min
    <2> HIDE DEF m, n, b
    <2>3. m \in 1..n /\ h.counts[m] > 0
      <3>1. m \in 1..n /\ sums[m] * 100 >= Below
        BY <2>1, <2>2
      <3>2. CASE m = 1
        <4>1. sums[m] = h.counts[m]
          BY <1>1, <1>2, <1>3, <3>1, <3>2
        <4> QED
          BY <1>3, <1>5, <3>1, <4>1
      <3>3. CASE m # 1
        <4>1. m - 1 \in 1..n /\ m - 1 \notin crossed
          BY <1>1, <2>1, <2>2, <3>1, <3>3
        <4>2. sums[m - 1] \in Nat /\ ~(sums[m - 1] * 100 >= Below)
          BY <1>2, <2>1, <4>1
        <4>3. sums[m] = sums[m - 1] + h.counts[m]
          BY <1>2, <3>1, <3>3
        <4> QED
          BY <1>3, <1>5, <3>1, <4>2, <4>3
      <3> QED
        BY <3>2, <3>3
    <2> DEFINE lower == IF m = 1 THEN 0 ELSE h.bounds[m - 1]
               upper == IF m <= b THEN h.bounds[m] ELSE Last(h.bounds)
               before == IF m = 1 THEN 0 ELSE sums[m - 1]
               weighted == (Below - 100 * before) * (upper - lower)
               whole == 100 * lower * h.counts[m] + weighted
    <2>4. lower \in Nat /\ upper \in Nat /\ before \in Nat
      BY <1>1, <1>2, <1>3, <1>4, <2>3
    <2>5. Percentile(h, q) = InHundredths(h, whole, h.counts[m])
      <3>1. Percentile(h, q) = Interpolated(h, m, q)
        BY <1>7 DEF Percentile, crossed, m, sums
      <3> QED
        BY <3>1 DEF Interpolated, sums, b, Below
    <2> HIDE DEF lower, upper, before
    <2>6. weighted \in Int
      BY <1>5, <2>4
    <2>7. whole \in Int
      BY <1>3, <2>3, <2>4, <2>6
    <2> HIDE DEF whole
    <2> QED
      BY <1>3, <2>3, <2>5, <2>7, HundredthsIsInt
  <1> QED
    BY <1>6, <1>7

LEMMA AverageIsInt ==
    ASSUME NEW h \in Buckets
    PROVE  Average(h) \in Int
  <1>1. Total(h) \in Nat /\ h.sum \in Maybe(Nat)
    BY TotalIsNat DEF Buckets
  <1>2. CASE Total(h) # 0 /\ h.sum # Absent
    <2>1. 100 * h.sum \in Int
      BY <1>1, <1>2 DEF Maybe
    <2>2. InHundredths(h, 100 * h.sum, Total(h)) \in Int
      BY <1>1, <1>2, <2>1, HundredthsIsInt
    <2> QED
      BY <1>2, <2>2 DEF Average
  <1>3. CASE Total(h) # 0 /\ h.sum = Absent /\ h.bounds # <<>>
    <2>1. Percentile(h, 50) \in Int
      BY <1>3, PercentileIsInt
    <2> QED
      BY <1>3, <2>1 DEF Average
  <1> QED
    BY <1>2, <1>3 DEF Average

LEMMA PointFits ==
    ASSUME NEW p \in ReportPoint, NEW e, EntryFits(e), p.kind = "gauge" => p.field # Absent
    PROVE  EntryFits(PointEntry(e, p))
  <1>1. /\ p.kind = "histogram" => p.buckets \in Buckets
        /\ p.field # Absent => p.field \in Fields /\ p.value \in Nat
        /\ p.field = "state" => p.value \in 0..2
    BY DEF ReportPoint, Maybe
  <1>2. CASE p.kind = "histogram"
    <2> DEFINE h == p.buckets
               with == IF "latency" \notin DOMAIN e /\ Average(h) > 0
                       THEN SetField(e, "latency", MeanLatency(h)) ELSE e
    <2>1. Average(h) \in Int /\ PercentilesOf(h) \in PercentileValues
      BY <1>1, <1>2, AverageIsInt DEF PercentileValues
    <2>2. EntryFits(with)
      <3>1. CASE "latency" \notin DOMAIN e /\ Average(h) > 0
        <4>1. Average(h) \in Nat
          BY <2>1, <3>1
        <4>2. MeanLatency(h) \in Nat
          BY <4>1, RoundedIsNat DEF MeanLatency
        <4> QED
          BY <3>1, <4>2, EntrySet
      <3> QED
        BY <3>1
    <2>3. PointEntry(e, p) = SetField(with, "percentiles", PercentilesOf(h))
      BY <1>2 DEF PointEntry, WithHistogram
    <2> HIDE DEF with, h
    <2> QED
      BY <2>1, <2>2, <2>3, EntrySet
  <1>3. CASE p.kind # "histogram" /\ p.field # Absent
    <2>1. p.field # "percentiles"
      BY <1>1, <1>3 DEF Fields
    <2>2. PointEntry(e, p) = SetField(e, p.field, p.value)
      BY <1>3 DEF PointEntry
    <2> QED
      BY <1>1, <1>3, <2>1, <2>2, EntrySet
  <1> QED
    BY <1>2, <1>3 DEF PointEntry

LEMMA PointEntriesFit ==
    ASSUME NEW points \in Seq(ReportPoint)
    PROVE  EntriesFit(FoldLeft(ReadPoint, [ok |-> TRUE, entries |-> << >>], points).entries)
  <1> DEFINE n == Len(points)
             base == [ok |-> TRUE, entries |-> << >>]
             Typed(acc) == DOMAIN acc = {"ok", "entries"} /\ EntriesFit(acc.entries)
  <1>1. n \in Nat /\ DOMAIN points = 1..n
    OBVIOUS
  <1>2. PICK r : StageOf(r, "point", base, points, n) /\ Folded("point", base, points) = r[n]
    BY <1>1, FoldStages
  <1> DEFINE T == {k \in 0..n : Typed(r[k])}
  <1>3. 0 \in T
    <2>1. r[0] = base
      BY <1>2 DEF StageOf
    <2>2. Typed(base)
      BY NoEntryFits
    <2> QED
      BY <1>1, <2>1, <2>2
  <1>4. ASSUME NEW k \in 0..n, k \in T, k < n
        PROVE  k + 1 \in T
    <2> DEFINE p == points[k + 1]
               acc == r[k]
    <2>1. k + 1 \in 1..n /\ Typed(acc)
      BY <1>1, <1>4
    <2>2. r[k + 1] = ReadPoint(acc, p)
      <3>1. r[k + 1] = Step("point", r[(k + 1) - 1], points[k + 1])
        BY <1>2, <2>1 DEF StageOf
      <3> QED
        BY <1>1, <3>1 DEF Step
    <2>3. p \in ReportPoint
      BY <1>1, <2>1
    <2> HIDE DEF p, acc
    <2>4. Typed(ReadPoint(acc, p))
      <3>1. CASE ~acc.ok \/ (p.kind = "gauge" /\ p.field = Absent)
        BY <2>1, <3>1 DEF ReadPoint
      <3>2. CASE ~(~acc.ok \/ (p.kind = "gauge" /\ p.field = Absent)) /\ p.dep = Absent
        <4>1. ReadPoint(acc, p) = [acc EXCEPT !.ok = p.kind # "gauge"]
          BY <3>2 DEF ReadPoint
        <4> QED
          BY <2>1, <4>1
      <3>3. CASE ~(~acc.ok \/ (p.kind = "gauge" /\ p.field = Absent)) /\ p.dep # Absent
        <4> DEFINE new == PointEntry(EntryOf(acc.entries, p.dep), p)
        <4>1. p.dep \in ReportedDeps
          BY <2>3, <3>3 DEF ReportPoint, Maybe
        <4>2. EntryFits(EntryOf(acc.entries, p.dep))
          BY <2>1, EntryOfFits
        <4>3. EntryFits(new)
          BY <2>3, <3>3, <4>2, PointFits
        <4>4. ReadPoint(acc, p) = [acc EXCEPT !.entries = SetField(acc.entries, p.dep, new)]
          BY <3>3 DEF ReadPoint
        <4> HIDE DEF new
        <4>5. EntriesFit(SetField(acc.entries, p.dep, new))
          BY <2>1, <4>1, <4>3, EntriesSet
        <4> QED
          BY <2>1, <4>4, <4>5
      <3> QED
        BY <3>1, <3>2, <3>3
    <2> HIDE DEF Typed
    <2> QED
      BY <1>1, <2>1, <2>2, <2>4
  <1>5. n \in T
    <2> HIDE DEF T, n
    <2> QED
      BY <1>1, <1>3, <1>4, UpTo
  <1> DEFINE acc == FoldLeft(ReadPoint, base, points)
  <1>6. EntriesFit(acc.entries)
    <2>1. acc = Folded("point", base, points)
      BY <1>1, PointsFold
    <2> HIDE DEF acc
    <2> QED
      BY <2>1, <1>2, <1>5
  <1> QED
    BY <1>6

LEMMA PointsFit ==
    ASSUME NEW points \in Seq(ReportPoint), NEW chosen \in {Defaults, Custom}
    PROVE  ParsePoints(points, chosen).deps \in Seq(Facts)
  <1> DEFINE acc == FoldLeft(ReadPoint, [ok |-> TRUE, entries |-> << >>], points)
  <1>1. EntriesFit(acc.entries)
    BY PointEntriesFit
  <1>2. ParsePoints(points, chosen).deps = IF acc.ok THEN ParsedRows(acc.entries, chosen) ELSE <<>>
    BY DEF ParsePoints, Parsed, Refused
  <1> HIDE DEF acc
  <1>3. ParsedRows(acc.entries, chosen) \in Seq(Facts) /\ <<>> \in Seq(Facts)
    BY <1>1, ParsedRowsFit
  <1> QED
    BY <1>2, <1>3

----------------------------------------------------------------------------
(* Groups of spans. *)

SpanGroup == [total : Nat, count : Nat \ {0}, error : BOOLEAN]
SpanDependency == [dep : ReportedDeps, ms : Nat, error : BOOLEAN]
GroupsFit(groups) ==
    /\ IsFiniteSet(DOMAIN groups) /\ DOMAIN groups \subseteq ReportedDeps
    /\ \A d \in DOMAIN groups : groups[d] \in SpanGroup

LEMMA GroupedFits ==
    ASSUME NEW groups, GroupsFit(groups), NEW s, s.dep \in ReportedDeps, s.ms \in Nat,
           s.error \in BOOLEAN
    PROVE  GroupsFit(Grouped(groups, s))
  <1> DEFINE none == [total |-> 0, count |-> 0, error |-> FALSE]
             g == Field(groups, s.dep, none)
             total == g.total + s.ms
             count == g.count + 1
             error == g.error \/ s.error
             new == [total |-> total, count |-> count, error |-> error]
             all == SetField(groups, s.dep, new)
  <1>1. g.total \in Nat /\ g.count \in Nat
    <2>1. CASE s.dep \in DOMAIN groups
      <3>1. g = groups[s.dep] /\ groups[s.dep] \in SpanGroup
        BY <2>1 DEF Field, GroupsFit
      <3> HIDE DEF g
      <3> QED
        BY <3>1 DEF SpanGroup
    <2>2. CASE s.dep \notin DOMAIN groups
      <3>1. g = none
        BY <2>2 DEF Field
      <3> HIDE DEF g
      <3> QED
        BY <3>1
    <2> QED
      BY <2>1, <2>2
  <1>2. Grouped(groups, s) = all
    BY DEF Grouped
  <1> HIDE DEF g
  <1>3. total \in Nat /\ count \in Nat \ {0} /\ error \in BOOLEAN
    BY <1>1
  <1> HIDE DEF total, count, error
  <1>4. new \in SpanGroup
    BY <1>3 DEF SpanGroup
  <1> HIDE DEF new
  <1>5. /\ DOMAIN all = DOMAIN groups \cup {s.dep} /\ all[s.dep] = new
        /\ \A x \in DOMAIN groups : x # s.dep => all[x] = groups[x]
    BY DEF SetField
  <1>6. IsFiniteSet(DOMAIN groups \cup {s.dep})
    BY FS_AddElement DEF GroupsFit
  <1> HIDE DEF all
  <1>7. GroupsFit(all)
    BY <1>4, <1>5, <1>6 DEF GroupsFit
  <1> QED
    BY <1>2, <1>7

LEMMA NoGroupFits == GroupsFit(<< >>)
  <1>1. DOMAIN << >> = {} /\ IsFiniteSet({})
    BY FS_EmptySet
  <1> QED
    BY <1>1 DEF GroupsFit

LEMMA SpansFit ==
    ASSUME NEW spans \in Seq(ReportSpan)
    PROVE  TraceDependencies(spans) \in Seq(SpanDependency)
  <1> DEFINE n == Len(spans)
             base == << >>
  <1>1. n \in Nat /\ DOMAIN spans = 1..n
    OBVIOUS
  <1>2. PICK r : StageOf(r, "span", base, spans, n) /\ Folded("span", base, spans) = r[n]
    BY <1>1, FoldStages
  <1> DEFINE T == {k \in 0..n : GroupsFit(r[k])}
  <1>3. 0 \in T
    BY <1>1, <1>2, NoGroupFits DEF StageOf
  <1>4. ASSUME NEW k \in 0..n, k \in T, k < n
        PROVE  k + 1 \in T
    <2>1. k + 1 \in 1..n /\ GroupsFit(r[k])
      BY <1>1, <1>4
    <2>2. r[k + 1] = GroupedSpan(r[k], spans[k + 1])
      <3>1. r[k + 1] = Step("span", r[(k + 1) - 1], spans[k + 1])
        BY <1>2, <2>1 DEF StageOf
      <3> QED
        BY <1>1, <3>1 DEF Step
    <2>3. spans[k + 1] \in ReportSpan
      BY <1>1, <2>1
    <2>4. Discovers(spans[k + 1]) => GroupsFit(Grouped(r[k], spans[k + 1]))
      BY <2>1, <2>3, GroupedFits DEF Discovers, ReportSpan, Maybe
    <2>5. GroupsFit(GroupedSpan(r[k], spans[k + 1]))
      BY <2>1, <2>4 DEF GroupedSpan
    <2> QED
      BY <1>1, <2>1, <2>2, <2>5
  <1>5. n \in T
    <2> HIDE DEF T, n
    <2> QED
      BY <1>1, <1>3, <1>4, UpTo
  <1> DEFINE groups == FoldLeft(GroupedSpan, base, spans)
             names == SetToSeq(DOMAIN groups)
             m == Cardinality(DOMAIN groups)
             of(k) == [dep |-> names[k], ms |-> Rounded(groups[names[k]].total, groups[names[k]].count),
                       error |-> groups[names[k]].error]
             all == [k \in DOMAIN names |-> of(k)]
  <1>6. GroupsFit(groups)
    <2>1. groups = Folded("span", base, spans)
      BY <1>1, SpansFold
    <2> HIDE DEF groups
    <2> QED
      BY <2>1, <1>2, <1>5
  <1>7. TraceDependencies(spans) = all
    BY DEF TraceDependencies
  <1> HIDE DEF groups
  <1>8. m \in Nat /\ names \in [1..m -> DOMAIN groups]
    BY <1>6, NamesInOrder DEF GroupsFit
  <1> HIDE DEF names, m
  <1>9. ASSUME NEW k \in 1..m
        PROVE  of(k) \in SpanDependency
    <2>1. names[k] \in DOMAIN groups
      BY <1>8
    <2> DEFINE g == groups[names[k]]
    <2>2. g \in SpanGroup /\ names[k] \in ReportedDeps
      BY <1>6, <2>1 DEF GroupsFit
    <2> HIDE DEF g
    <2>3. Rounded(g.total, g.count) \in Nat /\ g.error \in BOOLEAN
      BY <2>2, RoundedIsNat DEF SpanGroup
    <2>4. of(k) = [dep |-> names[k], ms |-> Rounded(g.total, g.count), error |-> g.error]
      BY DEF g
    <2> HIDE DEF of
    <2> QED
      BY <2>2, <2>3, <2>4 DEF SpanDependency
  <1> HIDE DEF of
  <1>10. all \in [1..m -> SpanDependency]
    BY <1>8, <1>9
  <1> HIDE DEF all
  <1> QED
    BY <1>7, <1>8, <1>10

LEMMA BridgedFits ==
    ASSUME NEW deps \in Seq(SpanDependency)
    PROVE  Bridged(deps) \in Seq(Facts)
  <1> DEFINE n == Len(deps)
             base == << >>
  <1>1. n \in Nat /\ DOMAIN deps = 1..n
    OBVIOUS
  <1>2. PICK r : StageOf(r, "trace", base, deps, n) /\ Folded("trace", base, deps) = r[n]
    BY <1>1, FoldStages
  <1> DEFINE T == {k \in 0..n : GroupsFit(r[k])}
  <1>3. 0 \in T
    BY <1>1, <1>2, NoGroupFits DEF StageOf
  <1>4. ASSUME NEW k \in 0..n, k \in T, k < n
        PROVE  k + 1 \in T
    <2>1. k + 1 \in 1..n /\ GroupsFit(r[k])
      BY <1>1, <1>4
    <2>2. r[k + 1] = Grouped(r[k], deps[k + 1])
      <3>1. r[k + 1] = Step("trace", r[(k + 1) - 1], deps[k + 1])
        BY <1>2, <2>1 DEF StageOf
      <3> QED
        BY <1>1, <3>1 DEF Step
    <2>3. deps[k + 1] \in SpanDependency
      BY <1>1, <2>1
    <2>4. GroupsFit(Grouped(r[k], deps[k + 1]))
      BY <2>1, <2>3, GroupedFits DEF SpanDependency
    <2> QED
      BY <1>1, <2>1, <2>2, <2>4
  <1>5. n \in T
    <2> HIDE DEF T, n
    <2> QED
      BY <1>1, <1>3, <1>4, UpTo
  <1> DEFINE groups == FoldLeft(Grouped, base, deps)
             names == SetToSeq(DOMAIN groups)
             m == Cardinality(DOMAIN groups)
             row(g) == Row(~g.error, IF g.error THEN 2 ELSE 0, Rounded(g.total, g.count), FALSE, Absent)
             all == [k \in DOMAIN names |-> Found(names[k], row(groups[names[k]]))]
  <1>6. GroupsFit(groups)
    <2>1. groups = Folded("trace", base, deps)
      BY <1>1, GroupsFold
    <2> HIDE DEF groups
    <2> QED
      BY <2>1, <1>2, <1>5
  <1>7. Bridged(deps) = all
    BY DEF Bridged
  <1> HIDE DEF groups
  <1>8. m \in Nat /\ names \in [1..m -> DOMAIN groups]
    BY <1>6, NamesInOrder DEF GroupsFit
  <1> HIDE DEF names, m
  <1>9. ASSUME NEW g \in SpanGroup
        PROVE  row(g) \in ReportRow
    <2>1. Rounded(g.total, g.count) \in Nat
      BY RoundedIsNat DEF SpanGroup
    <2>2. (IF g.error THEN 2 ELSE 0) \in 0..2 /\ (~g.error) \in BOOLEAN /\ FALSE \in BOOLEAN
          /\ Absent \in PercentileValues
      BY DEF PercentileValues
    <2> QED
      BY <2>1, <2>2, RowIs
  <1> HIDE DEF row
  <1>10. ASSUME NEW k \in 1..m
         PROVE  Found(names[k], row(groups[names[k]])) \in Facts
    <2>1. names[k] \in DOMAIN groups
      BY <1>8
    <2>2. groups[names[k]] \in SpanGroup /\ names[k] \in ReportedDeps
      BY <1>6, <2>1 DEF GroupsFit
    <2> QED
      BY <1>9, <2>2 DEF Found, Facts
  <1>11. all \in [1..m -> Facts]
    BY <1>8, <1>10
  <1> HIDE DEF all
  <1> QED
    BY <1>7, <1>8, <1>11

----------------------------------------------------------------------------
(* Storing. *)

LEMMA UpsertedFits ==
    ASSUME NEW old \in RowsOfReporter, NEW deps \in Seq(Facts)
    PROVE  Upserted(old, deps) \in RowsOfReporter
  <1> DEFINE n == Len(deps)
  <1>1. n \in Nat /\ DOMAIN deps = 1..n
    OBVIOUS
  <1>2. PICK r : StageOf(r, "row", old, deps, n) /\ Folded("row", old, deps) = r[n]
    BY <1>1, FoldStages
  <1> DEFINE T == {k \in 0..n : r[k] \in RowsOfReporter}
  <1>3. 0 \in T
    BY <1>1, <1>2 DEF StageOf
  <1>4. ASSUME NEW k \in 0..n, k \in T, k < n
        PROVE  k + 1 \in T
    <2>1. k + 1 \in 1..n /\ r[k] \in RowsOfReporter
      BY <1>1, <1>4
    <2>2. r[k + 1] = StoreRow(r[k], deps[k + 1])
      <3>1. r[k + 1] = Step("row", r[(k + 1) - 1], deps[k + 1])
        BY <1>2, <2>1 DEF StageOf
      <3> QED
        BY <1>1, <3>1 DEF Step
    <2>3. deps[k + 1] \in Facts
      BY <1>1, <2>1
    <2>4. deps[k + 1].row \in Maybe(ReportRow)
      BY <2>3 DEF Facts, Maybe
    <2>5. StoreRow(r[k], deps[k + 1]) \in RowsOfReporter
      BY <2>1, <2>4 DEF StoreRow, RowsOfReporter
    <2> QED
      BY <1>1, <2>1, <2>2, <2>5
  <1>5. n \in T
    <2> HIDE DEF T, n
    <2> QED
      BY <1>1, <1>3, <1>4, UpTo
  <1>6. Upserted(old, deps) = Folded("row", old, deps)
    BY <1>1, RowsFold DEF Upserted
  <1> QED
    BY <1>2, <1>5, <1>6

ReporterRow == {NoReporter} \cup [format : Formats, schema : Schemas]
ReporterRows == [Reporters -> ReporterRow]
RowsOfReporters == [Reporters -> RowsOfReporter]
\* Only a service that is there has dependencies.
RowsBelong(services, found) ==
    /\ services \in ReporterRows /\ found \in RowsOfReporters
    /\ \A n \in Reporters : services[n] = NoReporter => \A d \in ReportedDeps : found[n][d] = Absent
ReportInv == RowsBelong(reporters, depRows)

LEMMA IsThere == ASSUME NEW row, row.format \in Formats PROVE row # NoReporter
  BY ReportConstants DEF Formats, NoReporter

LEMMA RowBelongs ==
    ASSUME NEW services, NEW found, RowsBelong(services, found), NEW n \in Reporters,
           services[n] # NoReporter, NEW deps \in Seq(Facts)
    PROVE  RowsBelong(services, [found EXCEPT ![n] = Upserted(@, deps)])
  <1> DEFINE new == Upserted(found[n], deps)
             all == [found EXCEPT ![n] = new]
  <1>1. new \in RowsOfReporter
    BY UpsertedFits DEF RowsBelong, RowsOfReporters
  <1> HIDE DEF new
  <1>2. /\ all \in RowsOfReporters
        /\ \A k \in Reporters : k # n => all[k] = found[k]
    BY <1>1 DEF RowsBelong, RowsOfReporters
  <1> HIDE DEF all
  <1>3. RowsBelong(services, all)
    BY <1>2 DEF RowsBelong
  <1> QED
    BY <1>3 DEF all, new

LEMMA ReporterBelongs ==
    ASSUME NEW services, NEW found, RowsBelong(services, found), NEW n \in Reporters,
           NEW row \in [format : Formats, schema : Schemas]
    PROVE  RowsBelong([services EXCEPT ![n] = row], found)
  <1> DEFINE all == [services EXCEPT ![n] = row]
  <1>1. row \in ReporterRow /\ row # NoReporter
    BY IsThere DEF ReporterRow
  <1>2. /\ all \in ReporterRows /\ all[n] = row
        /\ \A k \in Reporters : k # n => all[k] = services[k]
    BY <1>1 DEF RowsBelong, ReporterRows
  <1> HIDE DEF all
  <1>3. RowsBelong(all, found)
    BY <1>1, <1>2 DEF RowsBelong
  <1> QED
    BY <1>3 DEF all

\* The values that a push passes from entry to entry.
Pushed(acc) ==
    /\ DOMAIN acc = {"reporters", "depRows", "said", "warnings", "parser", "list"}
    /\ RowsBelong(acc.reporters, acc.depRows)

LEMMA RegisteredFits ==
    ASSUME NEW acc, Pushed(acc), NEW n \in Reporters
    PROVE  Pushed(Registered(acc, n)) /\ Registered(acc, n).reporters[n] # NoReporter
  <1> DEFINE new == [format |-> "otlp", schema |-> "none"]
  <1>1. CASE acc.reporters[n] = NoReporter
    <2>1. new \in [format : Formats, schema : Schemas] /\ new # NoReporter
      <3>1. new.format \in Formats
        BY DEF Formats
      <3> QED
        BY <3>1, IsThere DEF Schemas
    <2> HIDE DEF new
    <2>2. Registered(acc, n) = [acc EXCEPT !.reporters = [acc.reporters EXCEPT ![n] = new]]
      BY <1>1 DEF Registered, new
    <2>3. RowsBelong([acc.reporters EXCEPT ![n] = new], acc.depRows)
      BY <2>1, ReporterBelongs DEF Pushed
    <2>4. [acc.reporters EXCEPT ![n] = new][n] = new
      BY DEF Pushed, RowsBelong, ReporterRows
    <2> DEFINE all == [acc.reporters EXCEPT ![n] = new]
    <2> HIDE DEF all
    <2>5. Registered(acc, n).reporters = all /\ Registered(acc, n).depRows = acc.depRows
      BY <2>2 DEF all, Pushed
    <2> QED
      BY <2>1, <2>2, <2>3, <2>4, <2>5 DEF Pushed, all
  <1>2. CASE acc.reporters[n] # NoReporter
    BY <1>2 DEF Registered, Pushed
  <1> QED
    BY <1>1, <1>2

LEMMA EntryStoredFits ==
    ASSUME NEW acc, Pushed(acc), NEW n \in Reporters, acc.reporters[n] # NoReporter,
           NEW deps \in Seq(Facts), NEW report
    PROVE  Pushed(EntryStored(acc, n, deps, report))
  <1> DEFINE new == [acc.depRows EXCEPT ![n] = Upserted(@, deps)]
             s == EntryStored(acc, n, deps, report)
  <1>1. RowsBelong(acc.reporters, new)
    BY RowBelongs DEF Pushed
  <1>2. DOMAIN s = DOMAIN acc /\ s.reporters = acc.reporters /\ s.depRows = new
    BY DEF EntryStored, Pushed
  <1> HIDE DEF s, new
  <1>3. Pushed(s)
    BY <1>1, <1>2 DEF Pushed
  <1> QED
    BY <1>3 DEF s

LEMMA ListPushed ==
    ASSUME NEW acc, Pushed(acc)
    PROVE  /\ \A v : Pushed([acc EXCEPT !.list = v])
           /\ \A v, w : /\ Pushed([acc EXCEPT !.parser = v, !.list = w])
                        /\ [acc EXCEPT !.parser = v, !.list = w].reporters = acc.reporters
  BY DEF Pushed

LEMMA MetricsEntryFits ==
    ASSUME NEW acc, Pushed(acc), NEW e \in [name : Maybe(Reporters), list : Seq(ReportPoint)]
    PROVE  Pushed(MetricsEntry(acc, e))
  <1>1. CASE e.name = Absent
    BY <1>1, ListPushed DEF MetricsEntry, Nameless
  <1>2. CASE e.name # Absent
    <2> DEFINE n == e.name
               with == Registered(acc, n)
               chosen == Settings(with.reporters[n].schema)
               result == ParsePoints(e.list, chosen)
               report == Report("points", chosen, e.list)
    <2>1. n \in Reporters /\ e.list \in Seq(ReportPoint)
      BY <1>2 DEF Maybe
    <2>2. Pushed(with) /\ with.reporters[n] # NoReporter
      BY <2>1, RegisteredFits
    <2>3. MetricsEntry(acc, e) =
             IF result.ok THEN EntryStored(with, n, result.deps, report)
             ELSE [with EXCEPT !.list = @ \cup {<<"rejected", n>>}]
      BY <1>2 DEF MetricsEntry
    <2>4. result.deps \in Seq(Facts)
      <3>1. chosen \in {Defaults, Custom}
        BY DEF Settings
      <3> HIDE DEF chosen
      <3> QED
        BY <2>1, <3>1, PointsFit
    <2> HIDE DEF n, with, result, report
    <2>5. Pushed(EntryStored(with, n, result.deps, report))
      BY <2>1, <2>2, <2>4, EntryStoredFits
    <2>6. Pushed([with EXCEPT !.list = with.list \cup {<<"rejected", n>>}])
      BY <2>2, ListPushed
    <2> QED
      BY <2>3, <2>5, <2>6
  <1> QED
    BY <1>1, <1>2

LEMMA TracesEntryFits ==
    ASSUME NEW acc, Pushed(acc), NEW e \in [name : Maybe(Reporters), list : Seq(ReportSpan)]
    PROVE  Pushed(TracesEntry(acc, e))
  <1>1. CASE e.name = Absent
    BY <1>1, ListPushed DEF TracesEntry, Nameless
  <1>2. CASE e.name # Absent
    <2> DEFINE n == e.name
               with == Registered(acc, n)
               kept == with.parser \cup Unnamed(e.list)
               more == with.list \cup kept
               warned == [with EXCEPT !.parser = kept, !.list = more]
               deps == Bridged(TraceDependencies(e.list))
               report == Report("spans", Defaults, e.list)
    <2>1. n \in Reporters /\ e.list \in Seq(ReportSpan)
      BY <1>2 DEF Maybe
    <2>2. Pushed(with) /\ with.reporters[n] # NoReporter
      BY <2>1, RegisteredFits
    <2>3. TracesEntry(acc, e) = EntryStored(warned, n, deps, report)
      BY <1>2 DEF TracesEntry
    <2>4. deps \in Seq(Facts)
      BY <2>1, SpansFit, BridgedFits
    <2> HIDE DEF n, with, kept, more, deps, report
    <2>5. Pushed(warned) /\ warned.reporters = with.reporters
      BY <2>2, ListPushed
    <2> HIDE DEF warned
    <2> QED
      BY <2>1, <2>2, <2>3, <2>4, <2>5, EntryStoredFits
  <1> QED
    BY <1>1, <1>2

\* A push of metrics and one of traces, entry by entry.
LEMMA MetricsPushed ==
    ASSUME NEW base, Pushed(base), NEW request \in MetricPushes
    PROVE  Pushed(FoldLeft(MetricsEntry, base, request))
  <1> DEFINE n == Len(request)
  <1>1. /\ n \in Nat /\ DOMAIN request = 1..n
        /\ \A k \in 1..n : request[k] \in [name : Maybe(Reporters), list : Seq(ReportPoint)]
    <2> DEFINE Entry == [name : Maybe(Reporters), list : Seq(ReportPoint)]
    <2>1. request \in Seq(Entry)
      BY ReportConstants DEF Pushes
    <2> HIDE DEF Entry
    <2>2. /\ n \in Nat /\ DOMAIN request = 1..n
          /\ \A k \in 1..n : request[k] \in Entry
      BY <2>1
    <2> QED
      BY <2>2 DEF Entry
  <1>2. PICK r : StageOf(r, "metrics", base, request, n) /\ Folded("metrics", base, request) = r[n]
    BY <1>1, FoldStages
  <1> DEFINE T == {k \in 0..n : Pushed(r[k])}
  <1>3. 0 \in T
    BY <1>1, <1>2 DEF StageOf
  <1>4. ASSUME NEW k \in 0..n, k \in T, k < n
        PROVE  k + 1 \in T
    <2>1. k + 1 \in 1..n /\ Pushed(r[k])
      BY <1>1, <1>4
    <2>2. r[k + 1] = MetricsEntry(r[k], request[k + 1])
      <3>1. r[k + 1] = Step("metrics", r[(k + 1) - 1], request[k + 1])
        BY <1>2, <2>1 DEF StageOf
      <3> QED
        BY <1>1, <3>1 DEF Step
    <2>3. Pushed(MetricsEntry(r[k], request[k + 1]))
      BY <1>1, <2>1, MetricsEntryFits
    <2> QED
      BY <1>1, <2>1, <2>2, <2>3
  <1>5. n \in T
    <2> HIDE DEF T, n
    <2> QED
      BY <1>1, <1>3, <1>4, UpTo
  <1>6. FoldLeft(MetricsEntry, base, request) = Folded("metrics", base, request)
    BY <1>1, MetricsFold
  <1> QED
    BY <1>2, <1>5, <1>6

LEMMA TracesPushed ==
    ASSUME NEW base, Pushed(base), NEW request \in TracePushes
    PROVE  Pushed(FoldLeft(TracesEntry, base, request))
  <1> DEFINE n == Len(request)
  <1>1. /\ n \in Nat /\ DOMAIN request = 1..n
        /\ \A k \in 1..n : request[k] \in [name : Maybe(Reporters), list : Seq(ReportSpan)]
    <2> DEFINE Entry == [name : Maybe(Reporters), list : Seq(ReportSpan)]
    <2>1. request \in Seq(Entry)
      BY ReportConstants DEF Pushes
    <2> HIDE DEF Entry
    <2>2. /\ n \in Nat /\ DOMAIN request = 1..n
          /\ \A k \in 1..n : request[k] \in Entry
      BY <2>1
    <2> QED
      BY <2>2 DEF Entry
  <1>2. PICK r : StageOf(r, "traces", base, request, n) /\ Folded("traces", base, request) = r[n]
    BY <1>1, FoldStages
  <1> DEFINE T == {k \in 0..n : Pushed(r[k])}
  <1>3. 0 \in T
    BY <1>1, <1>2 DEF StageOf
  <1>4. ASSUME NEW k \in 0..n, k \in T, k < n
        PROVE  k + 1 \in T
    <2>1. k + 1 \in 1..n /\ Pushed(r[k])
      BY <1>1, <1>4
    <2>2. r[k + 1] = TracesEntry(r[k], request[k + 1])
      <3>1. r[k + 1] = Step("traces", r[(k + 1) - 1], request[k + 1])
        BY <1>2, <2>1 DEF StageOf
      <3> QED
        BY <1>1, <3>1 DEF Step
    <2>3. Pushed(TracesEntry(r[k], request[k + 1]))
      BY <1>1, <2>1, TracesEntryFits
    <2> QED
      BY <1>1, <2>1, <2>2, <2>3
  <1>5. n \in T
    <2> HIDE DEF T, n
    <2> QED
      BY <1>1, <1>3, <1>4, UpTo
  <1>6. FoldLeft(TracesEntry, base, request) = Folded("traces", base, request)
    BY <1>1, TracesFold
  <1> QED
    BY <1>2, <1>5, <1>6

LEMMA PollSteps ==
    ASSUME ReportInv, NEW n \in EditedReporters, reporters[n].format \in Formats,
           NEW result, result.deps \in Seq(Facts), NEW report, PollStored(n, result, report)
    PROVE  ReportInv'
  <1>1. n \in Reporters /\ reporters[n] # NoReporter
    BY ReportConstants, IsThere
  <1>2. RowsBelong(reporters, [depRows EXCEPT ![n] = Upserted(@, result.deps)])
    BY <1>1, RowBelongs DEF ReportInv
  <1> QED
    BY <1>2 DEF ReportInv, PollStored

LEMMA ReportSteps ==
    ASSUME ReportInv, [ReportNext]_reportVars
    PROVE  ReportInv'
  <1>1. CASE UNCHANGED reportVars \/ RestartReceiver
    BY <1>1 DEF reportVars, RestartReceiver, ReportInv
  <1>2. ASSUME NEW n \in EditedReporters, NEW f \in Formats \cup {Absent}, NEW s \in Schemas,
               CreateReporter(n, f, s)
        PROVE  ReportInv'
    <2> DEFINE row == [format |-> IF f = Absent THEN "default" ELSE f, schema |-> CleanSchema(f, s)]
    <2>1. row \in [format : Formats, schema : Schemas]
      BY DEF CleanSchema, Formats, Schemas
    <2>2. reporters' = [reporters EXCEPT ![n] = row] /\ UNCHANGED depRows
      BY <1>2 DEF CreateReporter
    <2> HIDE DEF row
    <2> QED
      BY <2>1, <2>2, ReportConstants, ReporterBelongs DEF ReportInv
  <1>3. ASSUME NEW n \in EditedReporters, NEW f \in Formats \cup {Absent},
               NEW s \in Schemas \cup {Absent}, UpdateReporter(n, f, s)
        PROVE  ReportInv'
    <2> DEFINE old == reporters[n]
               row == [format |-> IF f = Absent THEN old.format ELSE f,
                       schema |-> IF s = Absent THEN old.schema
                                  ELSE IF f = Absent THEN s ELSE CleanSchema(f, s)]
    <2>1. n \in Reporters /\ old \in [format : Formats, schema : Schemas]
      BY <1>3, ReportConstants DEF UpdateReporter, Exists, ReportInv, RowsBelong, ReporterRows, ReporterRow
    <2>2. reporters' = [reporters EXCEPT ![n] = row] /\ UNCHANGED depRows
      BY <1>3 DEF UpdateReporter
    <2> HIDE DEF old
    <2>3. row \in [format : Formats, schema : Schemas]
      BY <2>1 DEF CleanSchema, Formats, Schemas
    <2> HIDE DEF row
    <2> QED
      BY <2>1, <2>2, <2>3, ReporterBelongs DEF ReportInv
  <1>4. ASSUME NEW n \in EditedReporters, DeleteReporter(n)
        PROVE  ReportInv'
    <2>1. /\ reporters' = [reporters EXCEPT ![n] = NoReporter]
          /\ depRows' = [depRows EXCEPT ![n] = NoRows]
      BY <1>4 DEF DeleteReporter
    <2>2. n \in Reporters /\ NoReporter \in ReporterRow /\ NoRows \in RowsOfReporter
          /\ \A d \in ReportedDeps : NoRows[d] = Absent
      BY ReportConstants DEF ReporterRow, NoRows, RowsOfReporter, Maybe
    <2>3. reporters' \in ReporterRows /\ depRows' \in RowsOfReporters
      BY <2>1, <2>2 DEF ReportInv, RowsBelong, ReporterRows, RowsOfReporters
    <2>4. /\ depRows'[n] = NoRows
          /\ \A k \in Reporters : k # n => reporters'[k] = reporters[k] /\ depRows'[k] = depRows[k]
      BY <2>1, <2>2 DEF ReportInv, RowsBelong, ReporterRows, RowsOfReporters
    <2> QED
      BY <2>2, <2>3, <2>4 DEF ReportInv, RowsBelong
  <1>5. ASSUME NEW n \in EditedReporters, NEW body \in Items, PollJson(n, body)
        PROVE  ReportInv'
    <2> DEFINE s == reporters[n]
               result == CASE s.schema = "none" -> ParseDefault(body)
                           [] s.schema = "mapping" -> ParseMapped(body)
                           [] s.schema = "metric" -> Refused
               how == IF s.schema = "none" THEN "default" ELSE "mapped"
               report == Report(how, Defaults, body.items)
    <2>1. s.format \in Formats /\ PollStored(n, result, report)
      BY <1>5 DEF PollJson, Formats
    <2>2. s.schema \in Schemas
      BY ReportConstants DEF ReportInv, RowsBelong, ReporterRows, ReporterRow, NoReporter, Schemas
    <2>3. Refused.deps \in Seq(Facts)
      BY DEF Refused
    <2>4. result.deps \in Seq(Facts)
      BY <2>2, <2>3, DefaultsFit, MappedFit DEF Schemas
    <2> HIDE DEF result, report
    <2> QED
      BY <2>1, <2>4, PollSteps
  <1>6. ASSUME NEW n \in EditedReporters, NEW lines \in Texts, PollText(n, lines)
        PROVE  ReportInv'
    <2> DEFINE chosen == Settings(reporters[n].schema)
               result == ParseText(lines, chosen)
               report == Report("text", chosen, lines)
    <2>1. reporters[n].format \in Formats /\ PollStored(n, result, report)
      BY <1>6 DEF PollText, Formats
    <2>2. chosen \in {Defaults, Custom}
      BY DEF Settings
    <2> HIDE DEF chosen
    <2>3. result.deps \in Seq(Facts)
      BY <2>2, TextFits
    <2> HIDE DEF result, report
    <2> QED
      BY <2>1, <2>3, PollSteps
  <1> DEFINE base == [reporters |-> reporters, depRows |-> depRows, said |-> said,
                      warnings |-> pollWarnings, parser |-> spanWarnings, list |-> {}]
  <1>7. Pushed(base)
    BY DEF Pushed, ReportInv
  <1>8. ASSUME NEW request \in MetricPushes, PushMetrics(request)
        PROVE  ReportInv'
    <2> DEFINE acc == FoldLeft(MetricsEntry, base, request)
    <2>1. reporters' = acc.reporters /\ depRows' = acc.depRows
      BY <1>8 DEF PushMetrics, Received
    <2> HIDE DEF base
    <2>2. Pushed(acc)
      BY <1>7, MetricsPushed
    <2> HIDE DEF acc
    <2> QED
      BY <2>1, <2>2 DEF Pushed, ReportInv
  <1>9. ASSUME NEW request \in TracePushes, PushTraces(request)
        PROVE  ReportInv'
    <2> DEFINE acc == FoldLeft(TracesEntry, base, request)
    <2>1. reporters' = acc.reporters /\ depRows' = acc.depRows
      BY <1>9 DEF PushTraces, Received
    <2> HIDE DEF base
    <2>2. Pushed(acc)
      BY <1>7, TracesPushed
    <2> HIDE DEF acc
    <2> QED
      BY <2>1, <2>2 DEF Pushed, ReportInv
  <1> QED
    BY <1>1, <1>2, <1>3, <1>4, <1>5, <1>6, <1>8, <1>9 DEF ReportNext

LEMMA ReportStarts == ReportInit => ReportInv
  <1> SUFFICES ASSUME ReportInit
               PROVE  ReportInv
    OBVIOUS
  <1>1. NoReporter \in ReporterRow /\ NoRows \in RowsOfReporter
        /\ \A d \in ReportedDeps : NoRows[d] = Absent
    BY DEF ReporterRow, NoRows, RowsOfReporter, Maybe
  <1> QED
    BY <1>1 DEF ReportInit, ReportInv, RowsBelong, ReporterRows, RowsOfReporters

LEMMA ReportInvTypes == ReportInv => ReportTypeOK
  <1> SUFFICES ASSUME ReportInv
               PROVE  ReportTypeOK
    OBVIOUS
  <1>1. ASSUME NEW n \in Reporters, Exists(n)
        PROVE  reporters[n].format \in Formats /\ reporters[n].schema \in Schemas
    <2>1. reporters[n] \in [format : Formats, schema : Schemas]
      BY <1>1 DEF Exists, ReportInv, RowsBelong, ReporterRows, ReporterRow
    <2> QED
      BY <2>1
  <1>2. ASSUME NEW n \in Reporters, NEW d \in ReportedDeps, depRows[n][d] # Absent
        PROVE  Exists(n) /\ depRows[n][d] \in ReportRow
    BY <1>2 DEF ReportInv, RowsBelong, RowsOfReporters, RowsOfReporter, Maybe, Exists
  <1>3. ASSUME NEW row \in ReportRow
        PROVE  /\ row.healthy \in BOOLEAN /\ row.state \in 0..2
               /\ row.latency \in Nat /\ row.skipped \in BOOLEAN
    BY DEF ReportRow
  <1> QED
    BY <1>1, <1>2, <1>3 DEF ReportTypeOK

\* The rows of dependencies are well typed and only of services that are
\* there, whatever the formats carry and in whichever order.
THEOREM ReportTypes == ReportSpec => []ReportTypeOK
  <1>1. ReportInv /\ [ReportNext]_reportVars => ReportInv'
    BY ReportSteps
  <1> QED
    BY <1>1, ReportStarts, ReportInvTypes, PTL DEF ReportSpec

----------------------------------------------------------------------------
(* Percentiles: where the sums cross a quantile, interpolation stays in    *)
(* the bucket, and a higher quantile is not crossed earlier.               *)

LEMMA DivMono ==
    ASSUME NEW a \in Int, NEW b \in Int, a <= b, NEW k \in Nat, k > 0
    PROVE  (a \div k) <= (b \div k)
  <1> DEFINE x == a \div k
             y == b \div k
  <1>1. x \in Int /\ y \in Int /\ k * x <= a /\ b < k * y + k
    OBVIOUS
  <1> HIDE DEF x, y
  <1>2. ASSUME y < x
        PROVE  FALSE
    <2>1. y + 1 <= x
      BY <1>1, <1>2
    <2>2. k * (y + 1) <= k * x
      <3>1. \A u, v \in Int : u <= v => k * u <= k * v
        OBVIOUS
      <3> QED
        BY <1>1, <2>1, <3>1
    <2>3. k * (y + 1) = k * y + k
      BY <1>1
    <2>4. k * x \in Int /\ k * y \in Int
      BY <1>1
    <2> QED
      BY <1>1, <2>2, <2>3, <2>4
  <1> QED
    BY <1>1, <1>2 DEF x, y

LEMMA RoundedMono ==
    ASSUME NEW a \in Int, NEW b \in Int, a <= b, NEW k \in Nat, k > 0
    PROVE  Rounded(a, k) <= Rounded(b, k)
  <1>1. 2 * a + k \in Int /\ 2 * b + k \in Int /\ 2 * a + k <= 2 * b + k
        /\ 2 * k \in Nat /\ 2 * k > 0
    OBVIOUS
  <1> QED
    BY <1>1, DivMono DEF Rounded

LEMMA RoundedOfMultiple ==
    ASSUME NEW w \in Nat, NEW k \in Nat, k > 0
    PROVE  Rounded(w * k, k) = w
  <1> DEFINE x == (2 * (w * k) + k) \div (2 * k)
  <1>1. w * k \in Nat
    OBVIOUS
  <1>2. x \in Int /\ (2 * k) * x <= 2 * (w * k) + k /\ 2 * (w * k) + k < (2 * k) * x + 2 * k
    BY <1>1
  <1>3. (2 * k) * x = 2 * (k * x) /\ k * x \in Int /\ w * k = k * w /\ k * w \in Int
    BY <1>2
  <1> HIDE DEF x
  <1>4. ASSUME NEW u \in Int, NEW v \in Int, u < v
        PROVE  k * u + k <= k * v
    <2>1. u + 1 <= v /\ k * (u + 1) = k * u + k
      BY <1>4
    <2>2. \A s, t \in Int : s <= t => k * s <= k * t
      OBVIOUS
    <2>3. k * (u + 1) <= k * v
      BY <2>1, <2>2
    <2> QED
      BY <2>1, <2>3
  <1>5. ~ x < w
    <2>1. ASSUME x < w PROVE FALSE
      <3>1. k * x + k <= k * w
        BY <1>2, <1>4, <2>1
      <3> QED
        BY <1>2, <1>3, <3>1
    <2> QED
      BY <2>1
  <1>6. ~ w < x
    <2>1. ASSUME w < x PROVE FALSE
      <3>1. k * w + k <= k * x
        BY <1>2, <1>4, <2>1
      <3> QED
        BY <1>2, <1>3, <3>1
    <2> QED
      BY <2>1
  <1>7. x = w
    BY <1>2, <1>5, <1>6
  <1> QED
    BY <1>7 DEF Rounded, x

\* A quotient does not depend on a common factor.
LEMMA DivScale ==
    ASSUME NEW a \in Int, NEW k \in Nat, k > 0, NEW c \in Nat, c > 0
    PROVE  (a * c) \div (k * c) = a \div k
  <1> DEFINE q == a \div k
             m == k * c
             x == (a * c) \div m
  <1>1. q \in Int /\ k * q <= a /\ a + 1 <= k * q + k
    OBVIOUS
  <1> HIDE DEF q
  <1>2. m \in Nat /\ m > 0 /\ a * c \in Int
    BY ProductIsPositive
  <1>3. m * q <= a * c /\ a * c < m * q + m /\ m * q \in Int
    <2>1. \A u, v \in Int : u <= v => u * c <= v * c
      OBVIOUS
    <2>2. k * q \in Int
      BY <1>1
    <2>3. (k * q) * c <= a * c /\ (a + 1) * c <= (k * q + k) * c
      BY <1>1, <2>1, <2>2
    <2>4. (a + 1) * c = a * c + c
      OBVIOUS
    <2>5. (k * q) * c = m * q /\ (k * q + k) * c = m * q + m
      BY <1>1
    <2>6. m * q \in Int
      BY <1>1, <1>2
    <2> HIDE DEF m
    <2> QED
      BY <1>2, <2>3, <2>4, <2>5, <2>6
  <1> HIDE DEF m
  <1>4. x \in Int /\ m * x <= a * c /\ a * c < m * x + m /\ m * x \in Int
    BY <1>2
  <1> HIDE DEF x
  <1>5. ASSUME NEW u \in Int, NEW v \in Int, u < v
        PROVE  m * u + m <= m * v
    <2>1. u + 1 <= v /\ m * (u + 1) = m * u + m
      BY <1>2, <1>5
    <2>2. \A i, j \in Int : i <= j => m * i <= m * j
      BY <1>2
    <2> QED
      BY <2>1, <2>2
  <1> DEFINE z == a * c
             mx == m * x
             mq == m * q
  <1>6. ~ x < q
    <2>1. ASSUME x < q PROVE FALSE
      <3>1. mx + m <= mq
        BY <1>1, <1>4, <1>5, <2>1
      <3>2. mx \in Int /\ mq \in Int /\ z \in Int /\ z < mx + m /\ mq <= z
        BY <1>2, <1>3, <1>4
      <3> HIDE DEF mx, mq, z
      <3> QED
        BY <1>2, <3>1, <3>2
    <2> QED
      BY <2>1
  <1>7. ~ q < x
    <2>1. ASSUME q < x PROVE FALSE
      <3>1. mq + m <= mx
        BY <1>1, <1>4, <1>5, <2>1
      <3>2. mx \in Int /\ mq \in Int /\ z \in Int /\ z < mq + m /\ mx <= z
        BY <1>2, <1>3, <1>4
      <3> HIDE DEF mx, mq, z
      <3> QED
        BY <1>2, <3>1, <3>2
    <2> QED
      BY <2>1
  <1>8. x = q
    BY <1>1, <1>4, <1>6, <1>7
  <1> QED
    BY <1>8 DEF x, q, m

LEMMA HundredthsMono ==
    ASSUME NEW h, NEW a \in Int, NEW b \in Int, a <= b, NEW c \in Nat, c > 0
    PROVE  InHundredths(h, a, c) <= InHundredths(h, b, c)
  <1> DEFINE m == Multiplier(h)[1]
  <1>1. m \in Nat
    BY MultiplierIs
  <1> HIDE DEF m
  <1>2. m * a \in Int /\ m * b \in Int /\ m * a <= m * b
    BY <1>1
  <1>3. Multiplier(h)[2] * c \in Nat /\ Multiplier(h)[2] * c > 0
    BY MultiplierIs, ProductIsPositive
  <1> QED
    BY <1>2, <1>3, RoundedMono DEF InHundredths, m

LEMMA HundredthsOfMultiple ==
    ASSUME NEW h, NEW a \in Int, NEW c \in Nat, c > 0
    PROVE  InHundredths(h, a * c, c) = InHundredths(h, a, 1)
  <1> DEFINE m == Multiplier(h)[1]
             k == Multiplier(h)[2]
             y == 2 * (m * a) + k
  <1>1. m \in Nat /\ k \in Nat /\ k > 0
    BY MultiplierIs
  <1>2. /\ InHundredths(h, a * c, c) = (2 * (m * (a * c)) + k * c) \div (2 * (k * c))
        /\ InHundredths(h, a, 1) = (2 * (m * a) + k * 1) \div (2 * (k * 1))
    BY DEF InHundredths, Rounded
  <1> HIDE DEF m, k
  <1>3. 2 * (m * (a * c)) + k * c = y * c /\ 2 * (k * c) = (2 * k) * c
    <2>1. m * a \in Int /\ m * (a * c) = (m * a) * c
      BY <1>1
    <2>2. \A w \in Int : 2 * (w * c) + k * c = (2 * w + k) * c
      BY <1>1
    <2> QED
      BY <1>1, <2>1, <2>2
  <1>4. y \in Int /\ 2 * k \in Nat /\ 2 * k > 0
    BY <1>1
  <1>5. y = 2 * (m * a) + k * 1 /\ 2 * k = 2 * (k * 1)
    BY <1>1
  <1> HIDE DEF y
  <1>6. (y * c) \div ((2 * k) * c) = y \div (2 * k)
    BY <1>4, DivScale
  <1> QED
    BY <1>2, <1>3, <1>5, <1>6

Ascending(h) == \A i, j \in DOMAIN h.bounds : i <= j => h.bounds[i] <= h.bounds[j]
LowerOf(h, i) == IF i = 1 THEN 0 ELSE h.bounds[i - 1]
UpperOf(h, i) == IF i <= Len(h.bounds) THEN h.bounds[i] ELSE Last(h.bounds)
BeforeOf(h, i) == IF i = 1 THEN 0 ELSE Sums(h.counts)[i - 1]

\* The bucket where the sums first reach the share of a quantile.
CrossesAt(h, m, share) ==
    /\ m \in 1..Len(h.counts) /\ h.counts[m] > 0
    /\ BeforeOf(h, m) * 100 < share /\ share <= Sums(h.counts)[m] * 100
    /\ \A i \in 1..Len(h.counts) : i < m => Sums(h.counts)[i] * 100 < share
InBucket(h, m, share) ==
    InHundredths(h, 100 * LowerOf(h, m) * h.counts[m]
                      + (share - 100 * BeforeOf(h, m)) * (UpperOf(h, m) - LowerOf(h, m)), h.counts[m])
NoneCrosses(h, share) == \A i \in 1..Len(h.counts) : Sums(h.counts)[i] * 100 < share

LEMMA BucketsAre ==
    ASSUME NEW h \in Buckets
    PROVE  /\ Len(h.counts) \in Nat /\ Len(h.bounds) \in Nat
           /\ DOMAIN h.counts = 1..Len(h.counts) /\ DOMAIN h.bounds = 1..Len(h.bounds)
           /\ Len(h.counts) <= Len(h.bounds) + 1
           /\ \A k \in 1..Len(h.counts) : h.counts[k] \in Nat /\ Sums(h.counts)[k] \in Nat
           /\ \A k \in 1..Len(h.bounds) : h.bounds[k] \in Nat
           /\ h.bounds # <<>> => Len(h.bounds) > 0 /\ Last(h.bounds) = h.bounds[Len(h.bounds)]
  <1>1. h.counts \in Seq(Nat) /\ h.bounds \in Seq(Nat) /\ Len(h.counts) <= Len(h.bounds) + 1
    BY DEF Buckets
  <1>2. \A k \in 1..Len(h.counts) : Sums(h.counts)[k] \in Nat
    BY <1>1, SumsAre
  <1> DEFINE b == h.bounds
  <1>3. b \in Seq(Nat) /\ (b # <<>> => Len(b) > 0)
    BY <1>1
  <1>4. Last(b) = b[Len(b)]
    BY DEF Last
  <1> QED
    BY <1>1, <1>2, <1>3, <1>4

LEMMA PercentileCrosses ==
    ASSUME NEW h \in Buckets, Total(h) # 0, h.bounds # <<>>, NEW q \in Nat, q > 0
    PROVE  \/ NoneCrosses(h, Total(h) * q) /\ Percentile(h, q) = LastBound(h)
           \/ \E m \in 1..Len(h.counts) : /\ CrossesAt(h, m, Total(h) * q)
                                          /\ Percentile(h, q) = InBucket(h, m, Total(h) * q)
  <1> DEFINE n == Len(h.counts)
             sums == Sums(h.counts)
             share == Total(h) * q
             crossed == {i \in DOMAIN h.counts : sums[i] * 100 >= share}
             m == Min(crossed)
  <1>1. /\ n \in Nat /\ DOMAIN h.counts = 1..n /\ Total(h) \in Nat /\ h.counts \in Seq(Nat)
        /\ \A k \in 1..n : h.counts[k] \in Nat
    BY BucketsAre, TotalIsNat DEF Buckets
  <1>2. \A k \in 1..n : /\ sums[k] \in Nat
                        /\ sums[k] = (IF k = 1 THEN 0 ELSE sums[k - 1]) + h.counts[k]
    BY <1>1, SumsAre
  <1>3. share \in Nat /\ share > 0
    <2>1. \A x, y \in Nat : x # 0 /\ y > 0 => x * y \in Nat /\ x * y > 0
      OBVIOUS
    <2> QED
      BY <1>1, <2>1
  <1>4. CASE crossed = {}
    <2>1. Percentile(h, q) = LastBound(h)
      BY <1>4 DEF Percentile
    <2>2. ASSUME NEW i \in 1..n
          PROVE  sums[i] * 100 < share
      <3>1. ~ (sums[i] * 100 >= share) /\ sums[i] \in Nat
        BY <1>1, <1>2, <1>4
      <3> HIDE DEF sums, share
      <3> QED
        BY <1>3, <3>1
    <2> QED
      BY <2>1, <2>2 DEF NoneCrosses
  <1>5. CASE crossed # {}
    <2>1. /\ crossed \subseteq 1..n
          /\ \A i \in 1..n : i \in crossed <=> sums[i] * 100 >= share
      BY <1>1
    <2>2. Percentile(h, q) = InBucket(h, m, share)
      BY <1>5 DEF Percentile, Interpolated, InBucket, LowerOf, UpperOf, BeforeOf
    <2> HIDE DEF sums, share, crossed, n
    <2>3. m \in crossed /\ \A i \in crossed : m <= i
      <3>1. PICK i \in crossed : \A j \in crossed : i <= j
        <4>1. crossed \subseteq Nat
          BY <1>1, <2>1
        <4> QED
          BY <1>5, <4>1, NatLeast
      <3> QED
        BY <3>1 DEF Min
    <2> HIDE DEF m
    <2>4. m \in 1..n /\ m \in Nat /\ share <= sums[m] * 100
      <3>1. m \in 1..n /\ sums[m] * 100 >= share /\ sums[m] \in Nat
        BY <1>2, <2>1, <2>3
      <3> QED
        BY <1>1, <1>3, <3>1
    <2>5. ASSUME NEW i \in 1..n, i < m
          PROVE  sums[i] * 100 < share
      <3>1. i \notin crossed
        BY <1>1, <2>3, <2>4, <2>5
      <3> QED
        BY <1>2, <1>3, <2>1, <3>1
    <2> DEFINE before == IF m = 1 THEN 0 ELSE sums[m - 1]
    <2>6. before \in Nat /\ before * 100 < share
      <3>1. CASE m = 1
        BY <1>3, <3>1
      <3>2. CASE m # 1
        <4>1. m - 1 \in 1..n /\ m - 1 < m
          BY <1>1, <2>4, <3>2
        <4> QED
          BY <1>2, <2>5, <3>2, <4>1
      <3> QED
        BY <3>1, <3>2
    <2>7. sums[m] = before + h.counts[m] /\ h.counts[m] \in Nat /\ sums[m] \in Nat
      BY <1>1, <1>2, <2>4
    <2> HIDE DEF before
    <2>8. h.counts[m] > 0
      BY <1>3, <2>4, <2>6, <2>7
    <2>9. BeforeOf(h, m) = before
      BY DEF BeforeOf, before, sums
    <2>10. CrossesAt(h, m, share)
      BY <2>4, <2>5, <2>6, <2>8, <2>9 DEF CrossesAt, sums, n
    <2> QED
      BY <2>2, <2>4, <2>10 DEF share, n
  <1> QED
    BY <1>4, <1>5

\* Within the bucket: not below its lower bound, nor beyond its upper bound.
LEMMA InBounds ==
    ASSUME NEW h \in Buckets, Ascending(h), h.bounds # <<>>, NEW share \in Nat,
           NEW m \in 1..Len(h.counts), CrossesAt(h, m, share)
    PROVE  /\ LowerOf(h, m) \in Nat /\ UpperOf(h, m) \in Nat /\ InBucket(h, m, share) \in Nat
           /\ InHundredths(h, 100 * LowerOf(h, m), 1) <= InBucket(h, m, share)
           /\ InBucket(h, m, share) <= InHundredths(h, 100 * UpperOf(h, m), 1)
           /\ LowerOf(h, m) <= UpperOf(h, m)
           /\ InHundredths(h, 100 * UpperOf(h, m), 1) <= LastBound(h)
  <1> DEFINE n == Len(h.counts)
             b == Len(h.bounds)
             l == LowerOf(h, m)
             u == UpperOf(h, m)
             before == BeforeOf(h, m)
             c == h.counts[m]
             over == share - 100 * before
             w == u - l
  <1>1. /\ n \in Nat /\ b \in Nat /\ b > 0 /\ n <= b + 1 /\ m \in 1..n
        /\ \A k \in 1..b : h.bounds[k] \in Nat
        /\ \A k \in 1..n : Sums(h.counts)[k] \in Nat
        /\ Last(h.bounds) = h.bounds[b]
        /\ \A i, j \in 1..b : i <= j => h.bounds[i] <= h.bounds[j]
        /\ c \in Nat /\ h.counts \in Seq(Nat)
    BY BucketsAre DEF Ascending, Buckets
  <1>2. l \in Nat /\ u \in Nat /\ l <= u /\ u <= Last(h.bounds)
    <2>1. CASE m = 1
      <3>1. l = 0 /\ u = h.bounds[1] /\ 1 \in 1..b /\ b \in 1..b
        BY <1>1, <2>1 DEF LowerOf, UpperOf
      <3> HIDE DEF l, u, b
      <3> QED
        BY <1>1, <3>1
    <2>2. CASE m # 1 /\ m <= b
      <3>1. l = h.bounds[m - 1] /\ u = h.bounds[m] /\ m - 1 \in 1..b /\ m \in 1..b /\ b \in 1..b
        BY <1>1, <2>2 DEF LowerOf, UpperOf
      <3> HIDE DEF l, u, b
      <3> QED
        BY <1>1, <3>1
    <2>3. CASE ~ (m <= b)
      <3>1. l = h.bounds[b] /\ u = Last(h.bounds) /\ b \in 1..b
        BY <1>1, <2>3 DEF LowerOf, UpperOf
      <3> HIDE DEF l, u, b
      <3> QED
        BY <1>1, <3>1
    <2> QED
      BY <1>1, <2>1, <2>2, <2>3
  <1>3. before \in Nat /\ before * 100 < share /\ c > 0
    <2>1. before * 100 < share /\ c > 0
      BY DEF CrossesAt
    <2>2. before \in Nat
      <3>1. m # 1 => m - 1 \in 1..n
        BY <1>1
      <3> QED
        BY <1>1, <3>1 DEF BeforeOf
    <2> QED
      BY <2>1, <2>2
  <1>4. share <= 100 * before + 100 * c
    <2>1. share <= Sums(h.counts)[m] * 100
      BY DEF CrossesAt
    <2>2. Sums(h.counts)[m] = before + c
      BY <1>1, SumsAre DEF BeforeOf
    <2> HIDE DEF before, c
    <2> QED
      BY <1>1, <1>3, <2>1, <2>2
  <1>5. InBucket(h, m, share) = InHundredths(h, 100 * l * c + over * w, c)
    BY DEF InBucket
  <1>6. InHundredths(h, 100 * u, 1) <= LastBound(h)
    <2>1. Last(h.bounds) \in Nat
      BY <1>1
    <2>2. 100 * u \in Int /\ 100 * Last(h.bounds) \in Int /\ 100 * u <= 100 * Last(h.bounds)
      BY <1>2, <2>1
    <2> QED
      BY <2>2, HundredthsMono DEF LastBound
  <1> HIDE DEF l, u, before, c
  <1>7. over \in Nat /\ over <= 100 * c /\ w \in Nat
    BY <1>1, <1>2, <1>3, <1>4
  <1>8. w = u - l
    OBVIOUS
  <1> HIDE DEF over, w
  <1> DEFINE v == over * w
             x == 100 * l * c + v
             a == 100 * l
             z == 100 * u
  <1>9. v \in Nat /\ v <= (100 * w) * c
    <2>1. \A i, j \in Nat : i <= j => i * w <= j * w
      BY <1>7
    <2>2. over * w <= (100 * c) * w
      BY <1>1, <1>7, <2>1
    <2>3. (100 * c) * w = (100 * w) * c
      BY <1>1, <1>7
    <2> QED
      BY <1>7, <2>2, <2>3
  <1> HIDE DEF v
  <1>10. /\ a \in Nat /\ z \in Nat /\ a * c \in Nat /\ z * c \in Nat /\ x \in Nat
         /\ a * c <= x /\ x <= z * c
    <2>1. a \in Nat /\ z \in Nat /\ z = a + 100 * w
      <3>1. \A i, j, k \in Nat : k = j - i => 100 * j = 100 * i + 100 * k
        OBVIOUS
      <3>2. l \in Nat /\ u \in Nat
        BY <1>2
      <3>3. z = a + 100 * w
        BY <1>7, <1>8, <3>1, <3>2
      <3> QED
        BY <3>2, <3>3
    <2>2. a * c \in Nat /\ z * c = a * c + (100 * w) * c /\ (100 * w) * c \in Nat
      <3>1. \A i, j \in Nat : (i + j) * c = i * c + j * c /\ i * c \in Nat
        BY <1>1
      <3>2. 100 * w \in Nat
        BY <1>7
      <3> HIDE DEF a, z
      <3> QED
        BY <2>1, <3>1, <3>2
    <2>3. x = a * c + v
      OBVIOUS
    <2> HIDE DEF a, z, x
    <2> QED
      BY <1>9, <2>1, <2>2, <2>3
  <1>11. InBucket(h, m, share) = InHundredths(h, x, c)
    BY <1>5 DEF v
  <1> HIDE DEF x, a, z
  <1>12. /\ InHundredths(h, a * c, c) <= InHundredths(h, x, c)
         /\ InHundredths(h, x, c) <= InHundredths(h, z * c, c)
         /\ InHundredths(h, x, c) \in Nat
    BY <1>1, <1>3, <1>10, HundredthsMono, HundredthsIsNat
  <1>13. /\ InHundredths(h, a * c, c) = InHundredths(h, a, 1)
         /\ InHundredths(h, z * c, c) = InHundredths(h, z, 1)
    BY <1>1, <1>3, <1>10, HundredthsOfMultiple
  <1> QED
    BY <1>2, <1>6, <1>11, <1>12, <1>13 DEF l, u, a, z

LEMMA BoundIsNat ==
    ASSUME NEW h \in Buckets, h.bounds # <<>>
    PROVE  LastBound(h) \in Nat
  <1>1. 100 * Last(h.bounds) \in Nat
    BY BucketsAre
  <1> QED
    BY <1>1, HundredthsIsNat DEF LastBound

LEMMA PercentileWithin ==
    ASSUME NEW h \in Buckets, Ascending(h), Total(h) # 0, h.bounds # <<>>, NEW q \in Nat, q > 0
    PROVE  Percentile(h, q) \in Nat /\ Percentile(h, q) <= LastBound(h)
  <1>1. LastBound(h) \in Nat /\ Total(h) * q \in Nat
    <2>1. \A x, y \in Nat : x * y \in Nat
      OBVIOUS
    <2> QED
      BY <2>1, BoundIsNat, TotalIsNat
  <1>2. CASE Percentile(h, q) = LastBound(h)
    BY <1>1, <1>2
  <1>3. ASSUME NEW m \in 1..Len(h.counts), CrossesAt(h, m, Total(h) * q),
               Percentile(h, q) = InBucket(h, m, Total(h) * q)
        PROVE  Percentile(h, q) \in Nat /\ Percentile(h, q) <= LastBound(h)
    <2> DEFINE x == InBucket(h, m, Total(h) * q)
               y == InHundredths(h, 100 * UpperOf(h, m), 1)
    <2>1. /\ UpperOf(h, m) \in Nat /\ x \in Nat /\ x <= y /\ y <= LastBound(h)
      BY <1>1, <1>3, InBounds
    <2>2. y \in Nat
      <3>1. 100 * UpperOf(h, m) \in Nat
        BY <2>1
      <3> QED
        BY <3>1, HundredthsIsNat
    <2>3. Percentile(h, q) = x
      BY <1>3
    <2> HIDE DEF x, y
    <2> QED
      BY <1>1, <2>1, <2>2, <2>3
  <1> QED
    BY <1>2, <1>3, PercentileCrosses

LEMMA PercentileGrows ==
    ASSUME NEW h \in Buckets, Ascending(h), Total(h) # 0, h.bounds # <<>>,
           NEW p \in Nat, NEW q \in Nat, p > 0, p <= q
    PROVE  Percentile(h, p) <= Percentile(h, q)
  <1> DEFINE n == Len(h.counts)
             s == Total(h) * p
             t == Total(h) * q
             x == Percentile(h, p)
             y == Percentile(h, q)
  <1> SUFFICES x <= y
    OBVIOUS
  <1>1. s \in Nat /\ t \in Nat /\ s <= t
    <2>1. \A k \in Nat : k * p \in Nat /\ k * q \in Nat /\ k * p <= k * q
      OBVIOUS
    <2> QED
      BY <2>1, TotalIsNat
  <1>2. /\ n \in Nat /\ \A k \in 1..n : h.counts[k] \in Nat /\ Sums(h.counts)[k] \in Nat
        /\ Len(h.bounds) \in Nat /\ DOMAIN h.bounds = 1..Len(h.bounds) /\ n <= Len(h.bounds) + 1
        /\ \A k \in 1..Len(h.bounds) : h.bounds[k] \in Nat
    BY BucketsAre
  <1>3. x \in Nat /\ y \in Nat /\ x <= LastBound(h)
    BY PercentileWithin
  <1>4. \/ NoneCrosses(h, s) /\ x = LastBound(h)
        \/ \E m \in 1..n : CrossesAt(h, m, s) /\ x = InBucket(h, m, s)
    BY PercentileCrosses
  <1>5. \/ NoneCrosses(h, t) /\ y = LastBound(h)
        \/ \E m \in 1..n : CrossesAt(h, m, t) /\ y = InBucket(h, m, t)
    BY PercentileCrosses
  <1> HIDE DEF n, s, t, x, y
  <1>6. CASE y = LastBound(h)
    BY <1>3, <1>6
  <1>7. ASSUME NEW j \in 1..n, CrossesAt(h, j, t), y = InBucket(h, j, t)
        PROVE  x <= y
    <2>1. Sums(h.counts)[j] * 100 >= s
      BY <1>1, <1>2, <1>7 DEF CrossesAt
    <2>2. ~ NoneCrosses(h, s)
      BY <1>1, <1>2, <2>1 DEF NoneCrosses, n
    <2>3. PICK i \in 1..n : CrossesAt(h, i, s) /\ x = InBucket(h, i, s)
      BY <1>4, <2>2
    <2>4. i <= j
      <3>1. j < i => Sums(h.counts)[j] * 100 < s
        BY <2>3 DEF CrossesAt, n
      <3> QED
        BY <1>1, <1>2, <2>1, <3>1
    <2>5. CASE i = j
      <3> DEFINE w == UpperOf(h, i) - LowerOf(h, i)
                 b == BeforeOf(h, i)
                 c == h.counts[i]
                 l == 100 * LowerOf(h, i) * c
      <3>1. w \in Nat /\ b \in Nat /\ c \in Nat /\ c > 0 /\ l \in Nat
        <4>1. UpperOf(h, i) \in Nat /\ LowerOf(h, i) \in Nat /\ LowerOf(h, i) <= UpperOf(h, i)
          BY <1>1, <2>3, InBounds DEF n
        <4>2. b \in Nat /\ c \in Nat /\ c > 0
          <5>1. i # 1 => i - 1 \in 1..n
            BY <1>2
          <5> QED
            BY <1>2, <2>3, <5>1 DEF BeforeOf, CrossesAt
        <4>3. \A u, v \in Nat : 100 * u * v \in Nat
          OBVIOUS
        <4> QED
          BY <4>1, <4>2, <4>3
      <3>2. x = InHundredths(h, l + (s - 100 * b) * w, c)
        BY <2>3 DEF InBucket
      <3>3. y = InHundredths(h, l + (t - 100 * b) * w, c)
        BY <1>7, <2>5 DEF InBucket
      <3> HIDE DEF w, b, c, l
      <3> DEFINE d == s - 100 * b
                 e == t - 100 * b
      <3>4. d \in Int /\ e \in Int /\ d <= e
        BY <1>1, <3>1
      <3> HIDE DEF d, e
      <3> DEFINE f == d * w
                 g == e * w
      <3>5. f \in Int /\ g \in Int /\ f <= g
        BY <3>1, <3>4
      <3> HIDE DEF f, g
      <3>6. l + f \in Int /\ l + g \in Int /\ l + f <= l + g
        BY <3>1, <3>5
      <3>7. InHundredths(h, l + f, c) <= InHundredths(h, l + g, c)
        BY <3>1, <3>6, HundredthsMono
      <3> QED
        BY <3>2, <3>3, <3>7 DEF f, g, d, e
    <2>6. CASE i # j
      <3>1. UpperOf(h, i) = h.bounds[i] /\ LowerOf(h, j) = h.bounds[j - 1]
            /\ i \in 1..Len(h.bounds) /\ j - 1 \in 1..Len(h.bounds) /\ i <= j - 1
        BY <1>2, <2>4, <2>6 DEF UpperOf, LowerOf
      <3>2. UpperOf(h, i) <= LowerOf(h, j)
        BY <1>2, <3>1 DEF Ascending
      <3> DEFINE u == InHundredths(h, 100 * UpperOf(h, i), 1)
                 l == InHundredths(h, 100 * LowerOf(h, j), 1)
      <3>3. x <= u /\ UpperOf(h, i) \in Nat
        BY <1>1, <2>3, InBounds DEF n
      <3>4. l <= y /\ LowerOf(h, j) \in Nat
        BY <1>1, <1>7, InBounds DEF n
      <3>5. u <= l /\ u \in Int /\ l \in Int
        <4>1. 100 * UpperOf(h, i) \in Int /\ 100 * LowerOf(h, j) \in Int
              /\ 100 * UpperOf(h, i) <= 100 * LowerOf(h, j)
          BY <3>2, <3>3, <3>4
        <4> QED
          BY <4>1, HundredthsMono, HundredthsIsInt
      <3> HIDE DEF u, l
      <3> QED
        BY <1>3, <3>3, <3>4, <3>5
    <2> QED
      BY <2>5, <2>6
  <1> QED
    BY <1>5, <1>6, <1>7

\* The percentiles of a histogram are in order, and within its bounds.
LEMMA PercentilesOrdered ==
    ASSUME NEW h \in Buckets, Ascending(h)
    PROVE  LET p == PercentilesOf(h) IN
           /\ p \in Maybe(Seq(Int))
           /\ p # Absent => /\ p[1] <= p[2] /\ p[2] <= p[3]
                            /\ h.bounds # <<>> => p[3] <= LastBound(h)
  <1> DEFINE Zeros == Total(h) = 0 \/ (h.bounds = <<>> /\ h.counts = <<>>)
  <1>1. CASE Zeros
    <2>1. PercentilesOf(h) = <<0, 0, 0>>
      BY <1>1 DEF PercentilesOf
    <2>2. h.bounds # <<>> => 0 <= LastBound(h)
      BY BoundIsNat
    <2> QED
      BY <2>1, <2>2 DEF Maybe
  <1>2. CASE ~ Zeros /\ h.bounds = <<>>
    BY <1>2 DEF PercentilesOf, Maybe
  <1>3. CASE ~ Zeros /\ h.bounds # <<>>
    <2> DEFINE a == Percentile(h, 50)
               b == Percentile(h, 95)
               c == Percentile(h, 99)
    <2>1. PercentilesOf(h) = <<a, b, c>>
      BY <1>3 DEF PercentilesOf
    <2>2. a \in Nat /\ b \in Nat /\ c \in Nat /\ c <= LastBound(h)
      BY <1>3, PercentileWithin
    <2>3. a <= b /\ b <= c
      BY <1>3, PercentileGrows
    <2> HIDE DEF a, b, c
    <2>4. <<a, b, c>> \in Seq(Int)
      BY <2>2
    <2> QED
      BY <2>1, <2>2, <2>3, <2>4 DEF Maybe
  <1> QED
    BY <1>1, <1>2, <1>3

LEMMA AverageIsNat ==
    ASSUME NEW h \in Buckets, Ascending(h)
    PROVE  Average(h) \in Nat
  <1>1. Total(h) \in Nat /\ h.sum \in Maybe(Nat)
    BY TotalIsNat DEF Buckets
  <1>2. CASE Total(h) # 0 /\ h.sum # Absent
    <2>1. 100 * h.sum \in Nat
      BY <1>1, <1>2 DEF Maybe
    <2>2. InHundredths(h, 100 * h.sum, Total(h)) \in Nat
      BY <1>1, <1>2, <2>1, HundredthsIsNat
    <2> QED
      BY <1>2, <2>2 DEF Average
  <1>3. CASE Total(h) # 0 /\ h.sum = Absent /\ h.bounds # <<>>
    <2>1. Percentile(h, 50) \in Nat
      BY <1>3, PercentileWithin
    <2> QED
      BY <1>3, <2>1 DEF Average
  <1> QED
    BY <1>2, <1>3 DEF Average

----------------------------------------------------------------------------
(* Entries say what the points say that were read.                         *)

Sets(p, f) == p.kind # "histogram" /\ p.field = f
EntrySays(e, S) ==
    /\ \A f \in Fields, p \in S : Sets(p, f) => f \in DOMAIN e /\ e[f] = p.value
    /\ \A f \in Fields : f # "latency" /\ f \in DOMAIN e => \E p \in S : Sets(p, f)
    /\ "latency" \in DOMAIN e =>
          \/ \E p \in S : Sets(p, "latency")
          \/ \E p \in S : p.kind = "histogram" /\ e["latency"] = MeanLatency(p.buckets)
    /\ \A p \in S : p.kind = "histogram" =>
          /\ Average(p.buckets) > 0 => "latency" \in DOMAIN e
          /\ "percentiles" \in DOMAIN e /\ e["percentiles"] = PercentilesOf(p.buckets)
    /\ "percentiles" \in DOMAIN e => \E p \in S : p.kind = "histogram"

\* A point of the same dependency.
LEMMA PointSays ==
    ASSUME NEW S, NEW p \in ReportPoint, NEW e, EntrySays(e, S), SaidOnce(S \cup {p}),
           p.dep # Absent, \A q \in S : q.dep = p.dep
    PROVE  EntrySays(PointEntry(e, p), S \cup {p})
  <1>1. "percentiles" \notin Fields /\ "latency" \in Fields /\ Absent \notin Fields
    BY ReportsSayOnce DEF Fields
  <1>2. \A q \in S : /\ p.kind = "histogram" /\ q.kind = "histogram" => p.buckets = q.buckets
                     /\ \A f \in Fields : Sets(p, f) /\ Sets(q, f) => p.value = q.value
    BY DEF SaidOnce, Sets
  <1>3. CASE p.kind = "histogram"
    <2> DEFINE h == p.buckets
               with == IF "latency" \notin DOMAIN e /\ Average(h) > 0
                       THEN SetField(e, "latency", MeanLatency(h)) ELSE e
               new == SetField(with, "percentiles", PercentilesOf(h))
    <2>1. PointEntry(e, p) = new
      BY <1>3 DEF PointEntry, WithHistogram
    <2>2. /\ DOMAIN with = DOMAIN e \cup (IF Average(h) > 0 THEN {"latency"} ELSE {})
          /\ \A x \in DOMAIN e : with[x] = e[x]
          /\ "latency" \in DOMAIN with /\ "latency" \notin DOMAIN e => with["latency"] = MeanLatency(h)
      BY DEF SetField
    <2> HIDE DEF with
    <2>3. /\ DOMAIN new = DOMAIN with \cup {"percentiles"}
          /\ new["percentiles"] = PercentilesOf(h)
          /\ \A x \in DOMAIN with : x # "percentiles" => new[x] = with[x]
      BY DEF SetField
    <2> HIDE DEF new
    <2>4. \A f \in Fields : ~ Sets(p, f)
      BY <1>3 DEF Sets
    <2>5. \A f \in Fields, q \in S : Sets(q, f) => f \in DOMAIN new /\ new[f] = q.value
      BY <1>1, <2>2, <2>3 DEF EntrySays
    <2>6. \A f \in Fields : f # "latency" /\ f \in DOMAIN new => \E q \in S : Sets(q, f)
      BY <1>1, <2>2, <2>3 DEF EntrySays
    <2>7. "latency" \in DOMAIN new =>
             \/ \E q \in S : Sets(q, "latency")
             \/ \E q \in S \cup {p} : q.kind = "histogram" /\ new["latency"] = MeanLatency(q.buckets)
      <3>1. CASE "latency" \in DOMAIN e
        <4>1. new["latency"] = e["latency"]
          BY <1>1, <2>2, <2>3, <3>1
        <4> QED
          BY <3>1, <4>1 DEF EntrySays
      <3>2. CASE "latency" \notin DOMAIN e
        BY <1>1, <1>3, <2>2, <2>3, <3>2 DEF h
      <3> QED
        BY <3>1, <3>2
    <2>8. \A q \in S \cup {p} : q.kind = "histogram" =>
             /\ Average(q.buckets) > 0 => "latency" \in DOMAIN new
             /\ "percentiles" \in DOMAIN new /\ new["percentiles"] = PercentilesOf(q.buckets)
      <3>1. \A q \in S \cup {p} : q.kind = "histogram" => q.buckets = h
        BY <1>2, <1>3
      <3>2. Average(h) > 0 => "latency" \in DOMAIN new
        BY <2>2, <2>3
      <3> QED
        BY <2>3, <3>1, <3>2
    <2> QED
      BY <1>3, <2>1, <2>4, <2>5, <2>6, <2>7, <2>8 DEF EntrySays
  <1>4. CASE p.kind # "histogram" /\ p.field # Absent
    <2> DEFINE new == SetField(e, p.field, p.value)
    <2>1. PointEntry(e, p) = new
      BY <1>4 DEF PointEntry
    <2>2. /\ DOMAIN new = DOMAIN e \cup {p.field} /\ new[p.field] = p.value
          /\ \A x \in DOMAIN e : x # p.field => new[x] = e[x]
      BY DEF SetField
    <2> HIDE DEF new
    <2>3. p.field \in Fields /\ \A f \in Fields : Sets(p, f) <=> f = p.field
      BY <1>4 DEF ReportPoint, Maybe, Sets
    <2>4. \A f \in Fields, q \in S \cup {p} : Sets(q, f) => f \in DOMAIN new /\ new[f] = q.value
      BY <1>2, <2>2, <2>3 DEF EntrySays
    <2>5. \A f \in Fields : f # "latency" /\ f \in DOMAIN new => \E q \in S \cup {p} : Sets(q, f)
      BY <2>2, <2>3 DEF EntrySays
    <2>6. "latency" \in DOMAIN new =>
             \/ \E q \in S \cup {p} : Sets(q, "latency")
             \/ \E q \in S \cup {p} : q.kind = "histogram" /\ new["latency"] = MeanLatency(q.buckets)
      BY <1>1, <2>2, <2>3 DEF EntrySays
    <2>7. \A q \in S \cup {p} : q.kind = "histogram" =>
             /\ Average(q.buckets) > 0 => "latency" \in DOMAIN new
             /\ "percentiles" \in DOMAIN new /\ new["percentiles"] = PercentilesOf(q.buckets)
      BY <1>1, <1>4, <2>2, <2>3 DEF EntrySays
    <2>8. "percentiles" \in DOMAIN new => \E q \in S \cup {p} : q.kind = "histogram"
      BY <1>1, <2>2, <2>3 DEF EntrySays
    <2> QED
      BY <2>1, <2>4, <2>5, <2>6, <2>7, <2>8 DEF EntrySays
  <1>5. CASE p.kind # "histogram" /\ p.field = Absent
    <2>1. PointEntry(e, p) = e /\ \A f \in Fields : ~ Sets(p, f)
      BY <1>1, <1>5 DEF PointEntry, Sets
    <2> QED
      BY <1>1, <1>5, <2>1 DEF EntrySays
  <1> QED
    BY <1>3, <1>4, <1>5

\* What is said of each dependency.
Of(S, d) == {p \in S : p.dep = d}
EntriesSay(entries, S) ==
    \A d \in ReportedDeps \ {Absent} : EntrySays(EntryOf(entries, d), Of(S, d))

LEMMA NothingSaid == EntriesSay(<< >>, {})
  <1>1. DOMAIN << >> = {} /\ \A d : Of({}, d) = {}
    BY DEF Of
  <1>2. EntrySays(<< >>, {})
    BY <1>1 DEF EntrySays
  <1> QED
    BY <1>1, <1>2 DEF EntriesSay, EntryOf

LEMMA OneMoreSays ==
    ASSUME NEW S, NEW p \in ReportPoint, NEW entries, EntriesSay(entries, S),
           SaidOnce(S \cup {p}), p.dep # Absent
    PROVE  EntriesSay(SetField(entries, p.dep, PointEntry(EntryOf(entries, p.dep), p)), S \cup {p})
  <1> DEFINE d == p.dep
             new == PointEntry(EntryOf(entries, d), p)
             all == SetField(entries, d, new)
  <1>1. /\ DOMAIN all = DOMAIN entries \cup {d} /\ all[d] = new
        /\ \A x \in DOMAIN entries : x # d => all[x] = entries[x]
    BY DEF SetField
  <1>2. d \in ReportedDeps \ {Absent}
    BY DEF ReportPoint, Maybe
  <1>3. EntrySays(new, Of(S, d) \cup {p})
    <2>1. EntrySays(EntryOf(entries, d), Of(S, d))
      BY <1>2 DEF EntriesSay
    <2>2. SaidOnce(Of(S, d) \cup {p}) /\ \A q \in Of(S, d) : q.dep = d
      <3>1. Of(S, d) \cup {p} \subseteq S \cup {p}
        BY DEF Of
      <3> QED
        BY <3>1 DEF SaidOnce, Of
    <2> QED
      BY <2>1, <2>2, PointSays
  <1> HIDE DEF all, new
  <1>4. ASSUME NEW x \in ReportedDeps \ {Absent}
        PROVE  EntrySays(EntryOf(all, x), Of(S \cup {p}, x))
    <2>1. CASE x = d
      <3>1. EntryOf(all, x) = new /\ Of(S \cup {p}, x) = Of(S, d) \cup {p}
        BY <1>1, <2>1 DEF EntryOf, Of
      <3> QED
        BY <1>3, <3>1
    <2>2. CASE x # d
      <3>1. EntryOf(all, x) = EntryOf(entries, x) /\ Of(S \cup {p}, x) = Of(S, x)
        BY <1>1, <2>2 DEF EntryOf, Of
      <3> QED
        BY <3>1 DEF EntriesSay
    <2> QED
      BY <2>1, <2>2
  <1>5. EntriesSay(all, S \cup {p})
    BY <1>4 DEF EntriesSay
  <1> QED
    BY <1>5 DEF all, new

LEMMA SilentSays ==
    ASSUME NEW S, NEW p, NEW entries, EntriesSay(entries, S),
           p.dep = Absent \/ (p.kind # "histogram" /\ p.field = Absent)
    PROVE  EntriesSay(entries, S \cup {p})
  <1> SUFFICES ASSUME NEW x \in ReportedDeps \ {Absent}
               PROVE  EntrySays(EntryOf(entries, x), Of(S \cup {p}, x))
    BY DEF EntriesSay
  <1> DEFINE e == EntryOf(entries, x)
  <1>1. EntrySays(e, Of(S, x))
    BY DEF EntriesSay
  <1> HIDE DEF e
  <1>2. CASE p.dep # x
    <2>1. Of(S \cup {p}, x) = Of(S, x)
      BY <1>2 DEF Of
    <2> QED
      BY <1>1, <2>1 DEF e
  <1>3. CASE p.dep = x
    <2>1. Of(S \cup {p}, x) = Of(S, x) \cup {p}
      BY <1>3 DEF Of
    <2>2. p.kind # "histogram" /\ \A f \in Fields : ~ Sets(p, f)
      BY <1>3, ReportsSayOnce DEF Sets
    <2>3. EntrySays(e, Of(S, x) \cup {p})
      BY <1>1, <2>2 DEF EntrySays, Fields
    <2> QED
      BY <2>1, <2>3 DEF e
  <1> QED
    BY <1>2, <1>3

----------------------------------------------------------------------------
(* Rows that say what a report means.                                      *)

InOrder(p, report, d) ==
    p # Absent =>
        /\ p[1] <= p[2] /\ p[2] <= p[3]
        /\ \A h \in HistogramOf(report, d) : h.bounds # <<>> => p[3] <= LastBound(h)
Says(row, report, d) == RowMeans(row, report, d) /\ InOrder(row.percentiles, report, d)
Faithful(deps, report) ==
    /\ \A k \in DOMAIN deps : /\ deps[k].name \in Names(report)
                              /\ Says(deps[k].row, report, deps[k].name)
    /\ \A d \in Names(report) : \E k \in DOMAIN deps : deps[k].name = d

LEMMA MetricRowSays ==
    ASSUME NEW report, NEW d, d # Absent, NEW chosen \in {Defaults, Custom},
           NEW S, S = PointsOf(report, d),
           S \subseteq ReportPoint, SaidOnce(S),
           report.how \in {"text", "points"}, report.settings = chosen,
           report.how = "text" => \A p \in S : p.kind # "histogram",
           NEW e, EntrySays(e, S), EntryFits(e)
    PROVE  Says(MetricRow(e, chosen), report, d)
  <1> DEFINE stated(f, default) == Told(report, d, f, default)
             row == MetricRow(e, chosen)
  <1>1. /\ "state" \in Fields /\ "healthy" \in Fields /\ "latency" \in Fields /\ "skipped" \in Fields
        /\ "state" # "latency" /\ "healthy" # "latency" /\ "skipped" # "latency"
    BY DEF Fields
  <1>2. \A p, q \in S : p.dep = q.dep /\ p.dep = d
    BY DEF PointsOf
  <1>3. \A f : Tells(report, d, f) = {p \in S : Sets(p, f)}
    BY DEF Tells, Sets
  <1>4. \A f \in Fields : \A p, q \in S : Sets(p, f) /\ Sets(q, f) => p.value = q.value
    BY <1>2 DEF SaidOnce, Sets
  <1>5. ASSUME NEW f \in Fields, NEW p \in S, Sets(p, f), NEW default
        PROVE  f \in DOMAIN e /\ stated(f, default) = e[f]
    <2>1. Tells(report, d, f) # {} /\ \A q \in Tells(report, d, f) : q.value = e[f]
      BY <1>3, <1>5 DEF EntrySays
    <2>2. f \in DOMAIN e
      BY <1>5 DEF EntrySays
    <2> QED
      BY <2>1, <2>2 DEF Told
  <1>6. ASSUME NEW f \in Fields, \A p \in S : ~ Sets(p, f), NEW default
        PROVE  stated(f, default) = default
    <2>1. Tells(report, d, f) = {}
      BY <1>3, <1>6
    <2> QED
      BY <2>1 DEF Told
  <1>7. ASSUME NEW f \in Fields, f # "latency", NEW default
        PROVE  stated(f, default) = IF f \in DOMAIN e THEN e[f] ELSE default
    <2>1. CASE f \in DOMAIN e
      <3>1. PICK p \in S : Sets(p, f)
        BY <1>7, <2>1 DEF EntrySays
      <3> HIDE DEF stated
      <3> QED
        BY <1>5, <2>1, <3>1
    <2>2. CASE f \notin DOMAIN e
      <3>1. \A p \in S : ~ Sets(p, f)
        BY <2>2 DEF EntrySays
      <3> HIDE DEF stated
      <3> QED
        BY <1>6, <2>2, <3>1
    <2> QED
      BY <2>1, <2>2
  <1>8. \A p, q \in S : p.kind = "histogram" /\ q.kind = "histogram" => p.buckets = q.buckets
    BY <1>2 DEF SaidOnce
  <1>9. ASSUME NEW p \in S, p.kind = "histogram"
        PROVE  /\ p.buckets \in Buckets /\ Ascending(p.buckets)
               /\ HistogramOf(report, d) = {p.buckets}
    <2>1. p.buckets \in Buckets
      BY <1>9 DEF ReportPoint
    <2>2. Ascending(p.buckets)
      BY <1>9 DEF SaidOnce, Ascending
    <2>3. HistogramOf(report, d) = {q.buckets : q \in {x \in S : x.kind = "histogram"}}
      BY DEF HistogramOf
    <2>4. HistogramOf(report, d) = {p.buckets}
      BY <1>8, <1>9, <2>3
    <2> QED
      BY <2>1, <2>2, <2>4
  <1> DEFINE latency == IF "latency" \in DOMAIN e THEN e["latency"] ELSE 0
             mean == MeanLatency(CHOOSE h \in HistogramOf(report, d) : TRUE)
             from == FromHistogram(report, d)
  <1>0. Tells(report, d, "latency") = {p \in S : Sets(p, "latency")}
    BY <1>3
  <1>10. from => latency = mean
    <2> SUFFICES ASSUME from
                 PROVE  latency = mean
      OBVIOUS
    <2>1. \A p \in S : ~ Sets(p, "latency")
      BY <1>0 DEF FromHistogram
    <2>2. PICK p \in S : p.kind = "histogram"
      BY DEF FromHistogram, HistogramOf, PointsOf
    <2> DEFINE a == MeanLatency(p.buckets)
    <2>3. HistogramOf(report, d) = {p.buckets} /\ Average(p.buckets) \in Nat
      BY <1>9, <2>2, AverageIsNat
    <2>4. mean = a
      BY <2>3
    <2>5. Average(p.buckets) = 0 => a = 0
      BY DEF MeanLatency, Rounded
    <2>6. /\ Average(p.buckets) > 0 => "latency" \in DOMAIN e
          /\ "latency" \in DOMAIN e => e["latency"] = a
      BY <1>8, <2>1, <2>2 DEF EntrySays
    <2> HIDE DEF mean, a
    <2> QED
      BY <2>3, <2>4, <2>5, <2>6
  <1>22. ~ from => latency = stated("latency", 0)
    <2> SUFFICES ASSUME ~ from
                 PROVE  latency = stated("latency", 0)
      OBVIOUS
    <2>1. CASE \E p \in S : Sets(p, "latency")
      <3>1. PICK p \in S : Sets(p, "latency")
        BY <2>1
      <3>2. "latency" \in DOMAIN e /\ stated("latency", 0) = e["latency"]
        <4> HIDE DEF stated
        <4> QED
          BY <1>1, <1>5, <3>1
      <3> QED
        BY <3>2
    <2>2. CASE \A p \in S : ~ Sets(p, "latency")
      <3>1. stated("latency", 0) = 0
        <4> HIDE DEF stated
        <4> QED
          BY <1>1, <1>6, <2>2
      <3>2. \A p \in S : p.kind # "histogram"
        BY <1>0, <2>2 DEF FromHistogram, HistogramOf, PointsOf
      <3>3. "latency" \notin DOMAIN e
        BY <2>2, <3>2 DEF EntrySays
      <3> QED
        BY <3>1, <3>3
    <2> QED
      BY <2>1, <2>2
  <1> DEFINE state == IF "state" \in DOMAIN e THEN e["state"] ELSE 0
             skips == IF "skipped" \in DOMAIN e THEN e["skipped"] ELSE 0
             percentiles == IF "percentiles" \in DOMAIN e THEN e["percentiles"] ELSE Absent
  <1>11. stated("state", 0) = state /\ stated("skipped", 0) = skips
    <2> HIDE DEF stated
    <2> QED
      BY <1>1, <1>7
  <1>12. (Tells(report, d, "healthy") = {}) <=> ("healthy" \notin DOMAIN e)
    <2>1. Tells(report, d, "healthy") = {p \in S : Sets(p, "healthy")}
      BY <1>3
    <2> QED
      BY <1>1, <2>1 DEF EntrySays
  <1>13. "healthy" \in DOMAIN e => stated("healthy", 0) = e["healthy"]
    <2> HIDE DEF stated
    <2> QED
      BY <1>1, <1>7
  <1>14. InOrder(percentiles, report, d)
    <2>1. CASE "percentiles" \in DOMAIN e
      <3>1. PICK p \in S : p.kind = "histogram"
        BY <2>1 DEF EntrySays
      <3>2. percentiles = PercentilesOf(p.buckets)
        BY <2>1, <3>1 DEF EntrySays
      <3> HIDE DEF percentiles
      <3> DEFINE h == p.buckets
      <3>3. h \in Buckets /\ Ascending(h) /\ HistogramOf(report, d) = {h}
        BY <1>9, <3>1
      <3>4. percentiles = PercentilesOf(h)
        BY <3>2
      <3> HIDE DEF h
      <3> QED
        BY <3>3, <3>4, PercentilesOrdered DEF InOrder
    <2>2. CASE "percentiles" \notin DOMAIN e
      BY <2>2 DEF InOrder
    <2> QED
      BY <2>1, <2>2
  <1>15. /\ row.healthy = IF "healthy" \in DOMAIN e THEN e["healthy"] = chosen.healthyValue
                          ELSE state # 2
         /\ row.latency = latency * chosen.unit
         /\ row.skipped = (skips = 1) /\ row.percentiles = percentiles
    BY DEF MetricRow, Row, Field
  <1>16. Meaning(report, d) = PointMeaning(report, d)
    BY DEF Meaning
  <1> DEFINE well == IF Tells(report, d, "healthy") = {} THEN stated("state", 0) # 2
                      ELSE stated("healthy", 0) = chosen.healthyValue
             skip == stated("skipped", 0) = 1
             late == IF from THEN mean ELSE chosen.unit * stated("latency", 0)
  <1>17. PointMeaning(report, d) = [healthy |-> skip \/ well, latency |-> late, skipped |-> skip]
    BY DEF PointMeaning, SkippedPoints, HealthyPoints
  <1>23. LET meant == Meaning(report, d)
         IN  meant.healthy = (skip \/ well) /\ meant.latency = late /\ meant.skipped = skip
    <2> HIDE DEF well, skip, late
    <2> QED
      BY <1>16, <1>17
  <1>24. well = row.healthy /\ well \in BOOLEAN /\ skip \in BOOLEAN /\ skip = row.skipped
    <2> DEFINE fine == IF "healthy" \in DOMAIN e THEN e["healthy"] = chosen.healthyValue
                       ELSE state # 2
               none == skips = 1
    <2>1. row.healthy = fine /\ row.skipped = none
      BY <1>15
    <2> HIDE DEF row, stated, state, skips
    <2>2. well <=> fine
      BY <1>11, <1>12, <1>13
    <2>3. skip <=> none
      BY <1>11
    <2>4. well \in BOOLEAN /\ fine \in BOOLEAN /\ skip \in BOOLEAN /\ none \in BOOLEAN
      OBVIOUS
    <2> HIDE DEF well, fine, skip, none
    <2> QED
      BY <2>1, <2>2, <2>3, <2>4
  <1> HIDE DEF row, stated, mean, latency, state, skips, percentiles, well, skip
  <1>18. latency * chosen.unit = chosen.unit * latency
    <2>1. latency \in Nat
      BY DEF latency, EntryFits
    <2>2. chosen.unit \in Nat
      BY DEF Defaults, Custom
    <2> QED
      BY <2>1, <2>2
  <1>25. report.how # "mapped"
    OBVIOUS
  <1>19. HealthAsMeant(row, report, Meaning(report, d))
    <2> DEFINE meant == Meaning(report, d)
    <2>1. meant.healthy = (skip \/ well) /\ meant.skipped = skip
      BY <1>23
    <2> HIDE DEF meant
    <2> QED
      BY <1>24, <1>25, <2>1 DEF HealthAsMeant, meant
  <1>20. LatencyAsMeant(row, report, d, Meaning(report, d))
    <2> DEFINE meant == Meaning(report, d)
    <2>1. meant.latency = late /\ row.latency = chosen.unit * latency
      BY <1>15, <1>18, <1>23
    <2>2. CASE from /\ report.how = "text"
      <3>1. \A p \in S : p.kind # "histogram"
        BY <2>2
      <3> QED
        BY <2>2, <3>1 DEF FromHistogram, HistogramOf, PointsOf
    <2>3. CASE from /\ report.how = "points"
      BY <1>10, <2>1, <2>3 DEF LatencyAsMeant
    <2>4. CASE ~ from
      BY <1>22, <2>1, <2>4 DEF LatencyAsMeant
    <2> QED
      BY <2>2, <2>3, <2>4
  <1>26. RowMeans(row, report, d)
    BY <1>19, <1>20, <1>23, <1>24 DEF RowMeans
  <1>21. Says(row, report, d)
    BY <1>14, <1>15, <1>26 DEF Says
  <1> QED
    BY <1>21 DEF row

----------------------------------------------------------------------------
(* The metrics of a report, whatever the order of its lines or points.     *)

\* What the first k elements of a list say.
First(list, k) == {list[j] : j \in 1..k}

LEMMA FirstsAre ==
    ASSUME NEW list, Len(list) \in Nat, DOMAIN list = 1..Len(list)
    PROVE  /\ First(list, 0) = {} /\ First(list, Len(list)) = Range(list)
           /\ \A k \in 0..Len(list) : First(list, k) \subseteq Range(list)
           /\ \A k \in 0..Len(list) : k < Len(list) =>
                 First(list, k + 1) = First(list, k) \cup {list[k + 1]}
  <1> DEFINE n == Len(list)
  <1>1. First(list, 0) = {}
    BY DEF First
  <1>2. First(list, n) = Range(list)
    BY DEF First, Range
  <1>3. ASSUME NEW k \in 0..n
        PROVE  First(list, k) \subseteq Range(list)
    <2>1. 1..k \subseteq 1..n
      OBVIOUS
    <2> QED
      BY <2>1 DEF First, Range
  <1>4. ASSUME NEW k \in 0..n, k < n
        PROVE  First(list, k + 1) = First(list, k) \cup {list[k + 1]}
    <2>1. 1..(k + 1) = (1..k) \cup {k + 1}
      OBVIOUS
    <2> QED
      BY <2>1 DEF First
  <1> QED
    BY <1>1, <1>2, <1>3, <1>4

\* The dependencies that points tell of, and the names of a report of points.
Notes(how, p) == IF how = "text" THEN p.kind = "gauge" /\ p.field # Absent
                 ELSE p.kind # "gauge" \/ p.field # Absent
NotedBy(how, S) == {p.dep : p \in {q \in S : Notes(how, q)}} \ {Absent}

LEMMA RowsOfEntries ==
    ASSUME NEW how \in {"text", "points"}, NEW chosen \in {Defaults, Custom}, NEW list,
           Range(list) \subseteq ReportPoint, SaidOnce(Range(list)),
           NEW entries, EntriesFit(entries), EntriesSay(entries, Range(list)),
           DOMAIN entries = NotedBy(how, Range(list)),
           how = "text" => \A p \in Range(list) : p.kind # "histogram"
    PROVE  Faithful(ParsedRows(entries, chosen), Report(how, chosen, list))
  <1> DEFINE report == Report(how, chosen, list)
             deps == ParsedRows(entries, chosen)
             names == SetToSeq(DOMAIN entries)
             n == Cardinality(DOMAIN entries)
             S == Range(list)
  <1>1. /\ n \in Nat /\ names \in [1..n -> DOMAIN entries]
        /\ \A x \in DOMAIN entries : \E k \in 1..n : names[k] = x
    BY NamesInOrder DEF EntriesFit
  <1>2. deps = [k \in DOMAIN names |-> Found(names[k], MetricRow(entries[names[k]], chosen))]
    BY DEF ParsedRows
  <1>3. report.how = how /\ report.settings = chosen /\ report.facts = S
    BY DEF Report
  <1> HIDE DEF report, deps, names, n
  <1>4. Names(report) = DOMAIN entries
    BY <1>3 DEF Names, NotedBy, Notes
  <1>5. ASSUME NEW k \in 1..n
        PROVE  deps[k].name = names[k] /\ deps[k].row = MetricRow(entries[names[k]], chosen)
    BY <1>1, <1>2 DEF Found
  <1>6. ASSUME NEW d \in DOMAIN entries
        PROVE  Says(MetricRow(entries[d], chosen), report, d)
    <2> DEFINE e == entries[d]
               P == Of(S, d)
    <2>1. d \in ReportedDeps \ {Absent} /\ EntryFits(e)
      BY DEF EntriesFit, NotedBy
    <2>2. EntrySays(e, P)
      <3>1. EntryOf(entries, d) = e
        BY DEF EntryOf
      <3> QED
        BY <2>1, <3>1 DEF EntriesSay
    <2>3. P = PointsOf(report, d) /\ P \subseteq S
      BY <1>3 DEF PointsOf, Of
    <2>4. SaidOnce(P)
      BY <2>3 DEF SaidOnce
    <2>7. report.how = "text" => \A p \in P : p.kind # "histogram"
      BY <1>3, <2>3
    <2> HIDE DEF e, P, S
    <2>5. P \subseteq ReportPoint
      BY <2>3 DEF S
    <2>6. Says(MetricRow(e, chosen), report, d)
      BY <1>3, <2>1, <2>2, <2>3, <2>4, <2>5, <2>7, MetricRowSays
    <2> QED
      BY <2>6 DEF e
  <1>7. DOMAIN deps = 1..n
    BY <1>1, <1>2
  <1>8. Faithful(deps, report)
    BY <1>1, <1>4, <1>5, <1>6, <1>7 DEF Faithful
  <1> QED
    BY <1>8 DEF deps, report

LEMMA TextSays ==
    ASSUME NEW lines \in Texts, NEW chosen \in {Defaults, Custom}
    PROVE  /\ ParseText(lines, chosen).ok
           /\ Faithful(ParseText(lines, chosen).deps, Report("text", chosen, lines))
  <1> DEFINE n == Len(lines)
             base == [entries |-> << >>, warnings |-> {}]
             S(k) == First(lines, k)
             Right(acc, k) == /\ DOMAIN acc = {"entries", "warnings"}
                              /\ EntriesSay(acc.entries, S(k))
                              /\ DOMAIN acc.entries = NotedBy("text", S(k))
  <1>1. lines \in Seq(ReportPoint) /\ n \in Nat /\ DOMAIN lines = 1..n
    BY ReportConstants
  <1>2. /\ S(0) = {} /\ S(n) = Range(lines)
        /\ \A k \in 0..n : S(k) \subseteq Range(lines)
        /\ \A k \in 0..n : k < n => S(k + 1) = S(k) \cup {lines[k + 1]}
    BY <1>1, FirstsAre
  <1>3. /\ SaidOnce(Range(lines)) /\ Absent \notin Fields
        /\ \A l \in Range(lines) : l.kind = "gauge" \/ (l.kind = "malformed" /\ l.field = Absent)
    BY ReportsSayOnce
  <1> HIDE DEF S
  <1>4. PICK r : StageOf(r, "line", base, lines, n) /\ Folded("line", base, lines) = r[n]
    BY <1>1, FoldStages
  <1> DEFINE T == {k \in 0..n : Right(r[k], k)}
  <1>5. 0 \in T
    <2>1. r[0] = base
      BY <1>4 DEF StageOf
    <2>2. Right(base, 0)
      <3>1. DOMAIN << >> = {} /\ NotedBy("text", {}) = {}
        BY DEF NotedBy
      <3> QED
        BY <1>2, <3>1, NothingSaid
    <2> HIDE DEF Right
    <2> QED
      BY <1>1, <2>1, <2>2
  <1>6. ASSUME NEW k \in 0..n, k \in T, k < n
        PROVE  k + 1 \in T
    <2> DEFINE p == lines[k + 1]
               acc == r[k]
               P == S(k)
    <2>1. k + 1 \in 1..n /\ Right(acc, k)
      BY <1>1, <1>6
    <2>2. r[k + 1] = ReadLine(acc, p)
      <3>1. r[k + 1] = Step("line", r[(k + 1) - 1], lines[k + 1])
        BY <1>4, <2>1 DEF StageOf
      <3> QED
        BY <1>1, <3>1 DEF Step
    <2>3. /\ p \in ReportPoint /\ S(k + 1) = P \cup {p} /\ SaidOnce(P \cup {p})
          /\ p.kind = "gauge" \/ (p.kind = "malformed" /\ p.field = Absent)
      <3>1. p \in ReportPoint /\ p \in Range(lines)
        BY <1>1, <2>1 DEF Range
      <3>2. S(k + 1) = P \cup {p}
        BY <1>2, <1>6
      <3>3. P \cup {p} \subseteq Range(lines)
        BY <1>2, <3>1
      <3> HIDE DEF p, P
      <3>4. SaidOnce(P \cup {p})
        BY <1>3, <3>3 DEF SaidOnce
      <3> QED
        BY <1>3, <3>1, <3>2, <3>4
    <2>4. DOMAIN acc = {"entries", "warnings"} /\ EntriesSay(acc.entries, P)
          /\ DOMAIN acc.entries = NotedBy("text", P)
      BY <2>1
    <2> HIDE DEF p, acc, P
    <2>5. NotedBy("text", P \cup {p}) =
             NotedBy("text", P) \cup (IF Notes("text", p) /\ p.dep # Absent THEN {p.dep} ELSE {})
      BY DEF NotedBy
    <2> DEFINE now == ReadLine(acc, p)
    <2>6. /\ DOMAIN now = {"entries", "warnings"} /\ EntriesSay(now.entries, P \cup {p})
          /\ DOMAIN now.entries = NotedBy("text", P \cup {p})
      <3>1. CASE p.kind # "malformed" /\ p.field # Absent /\ p.dep # Absent
        <4> DEFINE new == PointEntry(EntryOf(acc.entries, p.dep), p)
                   all == SetField(acc.entries, p.dep, new)
        <4>1. new = SetField(EntryOf(acc.entries, p.dep), p.field, p.value)
          BY <2>3, <3>1 DEF PointEntry
        <4>2. now = [acc EXCEPT !.entries = all]
          BY <3>1, <4>1 DEF ReadLine
        <4>3. EntriesSay(all, P \cup {p})
          BY <2>3, <2>4, <3>1, OneMoreSays
        <4>4. DOMAIN all = DOMAIN acc.entries \cup {p.dep}
          BY DEF SetField
        <4>5. Notes("text", p)
          BY <2>3, <3>1 DEF Notes
        <4> HIDE DEF all, now
        <4> QED
          BY <2>4, <2>5, <3>1, <4>2, <4>3, <4>4, <4>5
      <3>2. CASE ~ (p.kind # "malformed" /\ p.field # Absent /\ p.dep # Absent)
        <4>1. now.entries = acc.entries /\ DOMAIN now = {"entries", "warnings"}
          BY <2>4, <3>2 DEF ReadLine
        <4>2. ~ (Notes("text", p) /\ p.dep # Absent)
          BY <2>3, <3>2 DEF Notes
        <4>3. p.dep = Absent \/ (p.kind # "histogram" /\ p.field = Absent)
          BY <2>3, <3>2
        <4>4. EntriesSay(acc.entries, P \cup {p})
          BY <2>4, <4>3, SilentSays
        <4> HIDE DEF now
        <4> QED
          BY <2>4, <2>5, <4>1, <4>2, <4>4
      <3> QED
        BY <3>1, <3>2
    <2>7. Right(r[k + 1], k + 1)
      BY <2>2, <2>3, <2>6
    <2> HIDE DEF Right
    <2> QED
      BY <1>1, <2>1, <2>7
  <1>7. n \in T
    <2> HIDE DEF T, n
    <2> QED
      BY <1>1, <1>5, <1>6, UpTo
  <1> DEFINE acc == FoldLeft(ReadLine, base, lines)
  <1>8. EntriesSay(acc.entries, Range(lines)) /\ DOMAIN acc.entries = NotedBy("text", Range(lines))
    <2>1. acc = Folded("line", base, lines)
      BY <1>1, LinesFold
    <2> HIDE DEF acc
    <2> QED
      BY <1>2, <1>4, <1>7, <2>1
  <1>9. EntriesFit(acc.entries)
    BY LinesFit
  <1>10. ParseText(lines, chosen).deps = ParsedRows(acc.entries, chosen) /\ ParseText(lines, chosen).ok
    BY DEF ParseText, Parsed
  <1> HIDE DEF acc
  <1>11. Range(lines) \subseteq ReportPoint
    BY <1>1 DEF Range
  <1>12. \A l \in Range(lines) : l.kind # "histogram"
    BY <1>3
  <1> QED
    BY <1>3, <1>8, <1>9, <1>10, <1>11, <1>12, RowsOfEntries

LEMMA PointsSay ==
    ASSUME NEW points \in Seq(ReportPoint), SaidOnce(Range(points)),
           NEW chosen \in {Defaults, Custom}, ParsePoints(points, chosen).ok
    PROVE  Faithful(ParsePoints(points, chosen).deps, Report("points", chosen, points))
  <1> DEFINE n == Len(points)
             base == [ok |-> TRUE, entries |-> << >>]
             S(k) == First(points, k)
             Right(acc, k) == /\ DOMAIN acc = {"ok", "entries"}
                              /\ acc.ok => /\ EntriesSay(acc.entries, S(k))
                                           /\ DOMAIN acc.entries = NotedBy("points", S(k))
  <1>1. points \in Seq(ReportPoint) /\ n \in Nat /\ DOMAIN points = 1..n
    OBVIOUS
  <1>2. /\ S(0) = {} /\ S(n) = Range(points)
        /\ \A k \in 0..n : S(k) \subseteq Range(points)
        /\ \A k \in 0..n : k < n => S(k + 1) = S(k) \cup {points[k + 1]}
    BY <1>1, FirstsAre
  <1> HIDE DEF S
  <1>4. PICK r : StageOf(r, "point", base, points, n) /\ Folded("point", base, points) = r[n]
    BY <1>1, FoldStages
  <1> DEFINE T == {k \in 0..n : Right(r[k], k)}
  <1>5. 0 \in T
    <2>1. r[0] = base
      BY <1>4 DEF StageOf
    <2>2. Right(base, 0)
      <3>1. DOMAIN << >> = {} /\ NotedBy("points", {}) = {}
        BY DEF NotedBy
      <3> QED
        BY <1>2, <3>1, NothingSaid
    <2> HIDE DEF Right
    <2> QED
      BY <1>1, <2>1, <2>2
  <1>6. ASSUME NEW k \in 0..n, k \in T, k < n
        PROVE  k + 1 \in T
    <2> DEFINE p == points[k + 1]
               acc == r[k]
               P == S(k)
    <2>1. k + 1 \in 1..n /\ Right(acc, k)
      BY <1>1, <1>6
    <2>2. r[k + 1] = ReadPoint(acc, p)
      <3>1. r[k + 1] = Step("point", r[(k + 1) - 1], points[k + 1])
        BY <1>4, <2>1 DEF StageOf
      <3> QED
        BY <1>1, <3>1 DEF Step
    <2>3. /\ p \in ReportPoint /\ S(k + 1) = P \cup {p} /\ SaidOnce(P \cup {p})
      <3>1. p \in ReportPoint /\ p \in Range(points)
        BY <1>1, <2>1 DEF Range
      <3>2. S(k + 1) = P \cup {p}
        BY <1>2, <1>6
      <3>3. P \cup {p} \subseteq Range(points)
        BY <1>2, <3>1
      <3> HIDE DEF p, P
      <3>4. SaidOnce(P \cup {p})
        BY <3>3 DEF SaidOnce
      <3> QED
        BY <3>1, <3>2, <3>4
    <2>4. /\ DOMAIN acc = {"ok", "entries"}
          /\ acc.ok => EntriesSay(acc.entries, P) /\ DOMAIN acc.entries = NotedBy("points", P)
      BY <2>1
    <2> HIDE DEF p, acc, P
    <2>5. NotedBy("points", P \cup {p}) =
             NotedBy("points", P) \cup (IF Notes("points", p) /\ p.dep # Absent THEN {p.dep} ELSE {})
      BY DEF NotedBy
    <2> DEFINE now == ReadPoint(acc, p)
    <2>6. /\ DOMAIN now = {"ok", "entries"}
          /\ now.ok => /\ EntriesSay(now.entries, P \cup {p})
                       /\ DOMAIN now.entries = NotedBy("points", P \cup {p})
      <3>1. CASE ~ acc.ok
        BY <2>4, <3>1 DEF ReadPoint
      <3>2. CASE acc.ok /\ Notes("points", p) /\ p.dep # Absent
        <4> DEFINE new == PointEntry(EntryOf(acc.entries, p.dep), p)
                   all == SetField(acc.entries, p.dep, new)
        <4>1. now = [acc EXCEPT !.entries = all]
          BY <3>2 DEF ReadPoint, Notes
        <4>2. EntriesSay(all, P \cup {p})
          BY <2>3, <2>4, <3>2, OneMoreSays
        <4>3. DOMAIN all = DOMAIN acc.entries \cup {p.dep}
          BY DEF SetField
        <4> HIDE DEF all, now
        <4> QED
          BY <2>4, <2>5, <3>2, <4>1, <4>2, <4>3
      <3>3. CASE acc.ok /\ ~ (Notes("points", p) /\ p.dep # Absent)
        <4>1. DOMAIN now = {"ok", "entries"} /\ now.entries = acc.entries
          BY <2>4, <3>3 DEF ReadPoint, Notes
        <4>2. p.dep = Absent \/ (p.kind # "histogram" /\ p.field = Absent)
          BY <3>3 DEF Notes
        <4>3. EntriesSay(acc.entries, P \cup {p})
          BY <2>4, <3>3, <4>2, SilentSays
        <4> HIDE DEF now
        <4> QED
          BY <2>4, <2>5, <3>3, <4>1, <4>3
      <3> QED
        BY <3>1, <3>2, <3>3
    <2>7. Right(r[k + 1], k + 1)
      BY <2>2, <2>3, <2>6
    <2> HIDE DEF Right
    <2> QED
      BY <1>1, <2>1, <2>7
  <1>7. n \in T
    <2> HIDE DEF T, n
    <2> QED
      BY <1>1, <1>5, <1>6, UpTo
  <1> DEFINE acc == FoldLeft(ReadPoint, base, points)
  <1>8. acc.ok => /\ EntriesSay(acc.entries, Range(points))
                  /\ DOMAIN acc.entries = NotedBy("points", Range(points))
    <2>1. acc = Folded("point", base, points)
      BY <1>1, PointsFold
    <2> HIDE DEF acc
    <2> QED
      BY <1>2, <1>4, <1>7, <2>1
  <1>9. EntriesFit(acc.entries)
    BY PointEntriesFit
  <1>10. acc.ok /\ ParsePoints(points, chosen).deps = ParsedRows(acc.entries, chosen)
    BY DEF ParsePoints, Parsed, Refused
  <1> HIDE DEF acc
  <1>11. Range(points) \subseteq ReportPoint
    BY <1>1 DEF Range
  <1> QED
    BY <1>8, <1>9, <1>10, <1>11, RowsOfEntries

----------------------------------------------------------------------------
(* The items of a report: one good item of a name.                         *)

LEMMA ItemSays ==
    ASSUME NEW report, report.how \in {"default", "mapped"},
           NEW i \in report.facts, GoodItem(i), i \in ReportItem,
           \A j \in report.facts : GoodItem(j) /\ j.name = i.name => j = i
    PROVE  /\ report.how = "default" => Says(DefaultRow(i), report, i.name)
           /\ report.how = "mapped" => Says(MappedRow(i), report, i.name)
  <1> DEFINE d == i.name
             meant == Meaning(report, d)
             fine == i.healthy = TRUE
  <1>1. (CHOOSE j \in report.facts : GoodItem(j) /\ j.name = d) = i
    OBVIOUS
  <1>2. Meaning(report, d) = ItemMeaning(report, d)
    BY DEF Meaning
  <1>3. /\ meant.healthy = (i.skipped \/ fine) /\ meant.latency = i.latency
        /\ meant.skipped = i.skipped
    BY <1>1, <1>2 DEF ItemMeaning
  <1>4. DefaultRow(i).percentiles = Absent /\ MappedRow(i).percentiles = Absent
    BY DEF DefaultRow, MappedRow, Row
  <1>5. InOrder(Absent, report, d)
    BY DEF InOrder
  <1>6. i.skipped \in BOOLEAN /\ (i.skipped \/ i.healthy \in BOOLEAN)
    BY DEF ReportItem, GoodItem, Maybe
  <1>7. fine \in BOOLEAN
    OBVIOUS
  <1>8. CASE report.how = "default"
    <2> DEFINE row == DefaultRow(i)
               well == i.healthy # FALSE
    <2>1. row.healthy = well /\ row.latency = i.latency /\ row.skipped = i.skipped
      BY DEF DefaultRow, Row
    <2>2. well \in BOOLEAN /\ (i.skipped \/ (well <=> fine))
      BY <1>6
    <2> HIDE DEF d, meant, row, well, fine
    <2>3. well = (i.skipped \/ fine) \/ (i.skipped /\ ~ well)
      BY <1>6, <1>7, <2>2
    <2>4. HealthAsMeant(row, report, meant)
      BY <1>3, <1>8, <2>1, <2>3 DEF HealthAsMeant
    <2>5. RowMeans(row, report, d)
      BY <1>3, <2>1, <2>4 DEF RowMeans, LatencyAsMeant, meant
    <2>6. Says(row, report, d)
      BY <1>4, <1>5, <2>5 DEF Says, row
    <2> QED
      BY <1>8, <2>6 DEF d, row
  <1>9. CASE report.how = "mapped"
    <2> DEFINE row == MappedRow(i)
    <2>1. /\ row.healthy = (i.skipped \/ fine) /\ row.latency = i.latency
          /\ row.skipped = i.skipped
      BY DEF MappedRow, Row
    <2> HIDE DEF d, meant, row, fine
    <2>2. RowMeans(row, report, d)
      BY <1>3, <2>1 DEF RowMeans, HealthAsMeant, LatencyAsMeant, meant
    <2>3. Says(row, report, d)
      BY <1>4, <1>5, <2>2 DEF Says, row
    <2> QED
      BY <1>9, <2>3 DEF d, row
  <1> QED
    BY <1>8, <1>9

LEMMA DefaultSays ==
    ASSUME NEW body \in Items, ParseDefault(body).ok
    PROVE  Faithful(ParseDefault(body).deps, Report("default", Defaults, body.items))
  <1> DEFINE items == body.items
             report == Report("default", Defaults, items)
             deps == ParseDefault(body).deps
  <1>1. \A k \in DOMAIN items : GoodItem(items[k])
    BY DEF ParseDefault, Refused
  <1>2. deps = [k \in DOMAIN items |-> Found(items[k].name, DefaultRow(items[k]))]
    BY <1>1 DEF ParseDefault, Refused, Parsed
  <1>3. \A i, j \in Range(items) : GoodItem(i) /\ GoodItem(j) /\ i.name = j.name => i = j
    BY ReportsSayOnce
  <1>4. report.how = "default" /\ report.facts = Range(items)
    BY DEF Report
  <1> HIDE DEF report, items, deps
  <1>5. Names(report) = {i.name : i \in {j \in Range(items) : GoodItem(j)}}
    BY <1>4 DEF Names
  <1>6. DOMAIN deps = DOMAIN items /\ \A k \in DOMAIN items : /\ deps[k].name = items[k].name
                                                           /\ deps[k].row = DefaultRow(items[k])
    BY <1>2 DEF Found
  <1>7. ASSUME NEW k \in DOMAIN items
        PROVE  /\ items[k].name \in Names(report)
               /\ Says(DefaultRow(items[k]), report, items[k].name)
    <2> DEFINE i == items[k]
    <2>1. i \in Range(items) /\ GoodItem(i) /\ i \in ReportItem
      BY <1>1, ReportConstants DEF Range, items
    <2> HIDE DEF i
    <2>2. i.name \in Names(report)
      BY <1>5, <2>1
    <2>3. Says(DefaultRow(i), report, i.name)
      BY <1>3, <1>4, <2>1, ItemSays
    <2> QED
      BY <2>2, <2>3 DEF i
  <1>8. ASSUME NEW d \in Names(report)
        PROVE  \E k \in DOMAIN items : items[k].name = d
    BY <1>5 DEF Range
  <1>9. Faithful(deps, report)
    BY <1>6, <1>7, <1>8 DEF Faithful
  <1> QED
    BY <1>9 DEF deps, report, items

LEMMA MappedSays ==
    ASSUME NEW body \in Items, ParseMapped(body).ok
    PROVE  Faithful(ParseMapped(body).deps, Report("mapped", Defaults, body.items))
  <1> DEFINE items == body.items
             n == Len(items)
             base == Parsed(<<>>, {})
             report == Report("mapped", Defaults, items)
             D == {Found(i.name, MappedRow(i)) : i \in {j \in Range(items) : GoodItem(j)}}
             Right(acc, k) ==
                /\ DOMAIN acc = {"ok", "deps", "warnings"} /\ acc.deps \in Seq(D)
                /\ \A i \in First(items, k) : GoodItem(i) =>
                      \E j \in DOMAIN acc.deps : acc.deps[j].name = i.name
  <1>1. items \in Seq(ReportItem) /\ n \in Nat /\ DOMAIN items = 1..n
    BY ReportConstants
  <1>2. /\ First(items, 0) = {} /\ First(items, n) = Range(items)
        /\ \A k \in 0..n : k < n => First(items, k + 1) = First(items, k) \cup {items[k + 1]}
    BY <1>1, FirstsAre
  <1>3. PICK r : StageOf(r, "item", base, items, n) /\ Folded("item", base, items) = r[n]
    BY <1>1, FoldStages
  <1> DEFINE T == {k \in 0..n : Right(r[k], k)}
  <1>4. 0 \in T
    <2>1. r[0] = base
      BY <1>3 DEF StageOf
    <2>2. Right(base, 0)
      BY <1>2 DEF Parsed
    <2> HIDE DEF Right
    <2> QED
      BY <1>1, <2>1, <2>2
  <1>5. ASSUME NEW k \in 0..n, k \in T, k < n
        PROVE  k + 1 \in T
    <2> DEFINE i == items[k + 1]
               acc == r[k]
    <2>1. k + 1 \in 1..n /\ Right(acc, k)
      BY <1>1, <1>5
    <2>2. r[k + 1] = MappedItem(acc, i)
      <3>1. r[k + 1] = Step("item", r[(k + 1) - 1], items[k + 1])
        BY <1>3, <2>1 DEF StageOf
      <3> QED
        BY <1>1, <3>1 DEF Step
    <2>3. i \in Range(items) /\ First(items, k + 1) = First(items, k) \cup {i}
      BY <1>1, <1>2, <1>5, <2>1 DEF Range
    <2> HIDE DEF i, acc
    <2> DEFINE now == MappedItem(acc, i)
    <2>4. Right(now, k + 1)
      <3>1. CASE GoodItem(i)
        <4> DEFINE x == Found(i.name, MappedRow(i))
                   old == acc.deps
                   new == Append(old, x)
        <4>1. x \in D /\ x.name = i.name
          BY <2>3, <3>1 DEF Found
        <4>2. now = [acc EXCEPT !.deps = new]
          BY <3>1 DEF MappedItem
        <4>3. old \in Seq(D) /\ DOMAIN acc = {"ok", "deps", "warnings"}
          BY <2>1
        <4> HIDE DEF x, D
        <4>4. /\ new \in Seq(D) /\ new[Len(old) + 1] = x /\ Len(old) + 1 \in DOMAIN new
              /\ \A j \in DOMAIN old : j \in DOMAIN new /\ new[j] = old[j]
          BY <4>1, <4>3
        <4>5. \A j \in First(items, k) : GoodItem(j) => \E m \in DOMAIN old : old[m].name = j.name
          BY <2>1
        <4>6. now.deps = new /\ DOMAIN now = {"ok", "deps", "warnings"}
          BY <4>2, <4>3
        <4> HIDE DEF new, old, now
        <4>7. \A j \in First(items, k) \cup {i} : GoodItem(j) =>
                 \E m \in DOMAIN new : new[m].name = j.name
          BY <4>1, <4>4, <4>5
        <4> QED
          BY <2>3, <4>4, <4>6, <4>7
      <3>2. CASE ~ GoodItem(i)
        <4>1. now.deps = acc.deps /\ DOMAIN now = {"ok", "deps", "warnings"}
          BY <2>1, <3>2 DEF MappedItem
        <4> HIDE DEF now
        <4> QED
          BY <2>1, <2>3, <3>2, <4>1
      <3> QED
        BY <3>1, <3>2
    <2> HIDE DEF Right
    <2> QED
      BY <1>1, <2>1, <2>2, <2>4
  <1>6. n \in T
    <2> HIDE DEF T, n
    <2> QED
      BY <1>1, <1>4, <1>5, UpTo
  <1> DEFINE acc == FoldLeft(MappedItem, base, items)
             deps == acc.deps
  <1>7. /\ deps \in Seq(D)
        /\ \A i \in Range(items) : GoodItem(i) => \E j \in DOMAIN deps : deps[j].name = i.name
    <2>1. acc = Folded("item", base, items)
      BY <1>1, ItemsFold
    <2> HIDE DEF acc, D
    <2> QED
      BY <1>2, <1>3, <1>6, <2>1
  <1>8. ParseMapped(body) = acc
    BY DEF ParseMapped, Refused
  <1>9. \A i, j \in Range(items) : GoodItem(i) /\ GoodItem(j) /\ i.name = j.name => i = j
    BY ReportsSayOnce
  <1>10. report.how = "mapped" /\ report.facts = Range(items)
    BY DEF Report
  <1> HIDE DEF report, items, deps, acc
  <1>11. Names(report) = {i.name : i \in {j \in Range(items) : GoodItem(j)}}
    BY <1>10 DEF Names
  <1>12. ASSUME NEW k \in DOMAIN deps
         PROVE  deps[k].name \in Names(report) /\ Says(deps[k].row, report, deps[k].name)
    <2>1. deps[k] \in D
      BY <1>7
    <2>2. PICK i \in Range(items) : GoodItem(i) /\ deps[k] = Found(i.name, MappedRow(i))
      BY <2>1
    <2>3. deps[k].name = i.name /\ deps[k].row = MappedRow(i)
      BY <2>2 DEF Found
    <2>5. i \in ReportItem
      BY <1>1, <2>2 DEF Range
    <2>4. Says(MappedRow(i), report, i.name)
      BY <1>9, <1>10, <2>2, <2>5, ItemSays
    <2> QED
      BY <1>11, <2>2, <2>3, <2>4
  <1>13. \A d \in Names(report) : \E k \in DOMAIN deps : deps[k].name = d
    BY <1>7, <1>11
  <1>14. Faithful(deps, report)
    BY <1>12, <1>13 DEF Faithful
  <1> QED
    BY <1>8, <1>14 DEF deps, report, items

----------------------------------------------------------------------------
(* The milliseconds of a set of spans: a recursion over its subsets that   *)
(* takes any span first, and so whichever one likes.                       *)

OneOf(s) == CHOOSE x \in s : TRUE
SumOn(g, D) == g = [s \in D |-> IF s = {} THEN 0 ELSE OneOf(s).ms + g[s \ {OneOf(s)}]]
Ms(S) == MapThenSumSet(LAMBDA s : s.ms, S)

LEMMA OneOfIs == ASSUME NEW s, s # {} PROVE OneOf(s) \in s
  BY DEF OneOf

LEMMA MsIs == ASSUME NEW S PROVE Ms(S) = (CHOOSE g : SumOn(g, SUBSET S))[S]
  BY DEF Ms, MapThenSumSet, MapThenFoldSet, SumOn, OneOf

LEMMA SmallerIs ==
    ASSUME NEW s, IsFiniteSet(s), NEW x \in s
    PROVE  /\ IsFiniteSet(s \ {x}) /\ Cardinality(s) \in Nat /\ Cardinality(s) > 0
           /\ Cardinality(s \ {x}) = Cardinality(s) - 1
  <1>1. Cardinality(s) \in Nat /\ IsFiniteSet(s \ {x}) /\ Cardinality(s \ {x}) = Cardinality(s) - 1
    BY FS_RemoveElement, FS_CardinalityType
  <1>2. Cardinality(s \ {x}) \in Nat
    BY <1>1, FS_CardinalityType
  <1> QED
    BY <1>1, <1>2

LEMMA SumExists ==
    ASSUME NEW S, IsFiniteSet(S)
    PROVE  \E g : SumOn(g, SUBSET S)
  <1> DEFINE n == Cardinality(S)
             Level(m) == {s \in SUBSET S : Cardinality(s) <= m}
             T == {m \in 0..n : \E g : SumOn(g, Level(m))}
  <1>1. n \in Nat /\ \A s \in SUBSET S : IsFiniteSet(s) /\ Cardinality(s) \in 0..n
    BY FS_CardinalityType, FS_Subset
  <1>2. 0 \in T
    <2> DEFINE g == [s \in Level(0) |-> 0]
    <2>1. \A s \in Level(0) : s = {}
      <3>1. \A s \in Level(0) : Cardinality(s) = 0 /\ IsFiniteSet(s)
        BY <1>1
      <3> QED
        BY <3>1, FS_EmptySet
    <2>2. SumOn(g, Level(0))
      BY <2>1 DEF SumOn
    <2> QED
      BY <1>1, <2>2
  <1>3. ASSUME NEW m \in 0..n, m \in T, m < n
        PROVE  m + 1 \in T
    <2>1. PICK g : SumOn(g, Level(m))
      BY <1>3
    <2> DEFINE h == [s \in Level(m + 1) |->
                        IF s = {} THEN 0 ELSE OneOf(s).ms + g[s \ {OneOf(s)}]]
    <2>2. ASSUME NEW s \in Level(m + 1), s # {}
          PROVE  h[s \ {OneOf(s)}] = g[s \ {OneOf(s)}]
      <3> DEFINE t == s \ {OneOf(s)}
      <3>1. t \in SUBSET S /\ Cardinality(t) <= m
        <4>1. Cardinality(s) \in Nat /\ Cardinality(t) = Cardinality(s) - 1
          BY <1>1, <2>2, OneOfIs, SmallerIs
        <4> QED
          BY <4>1
      <3>2. t \in Level(m) /\ t \in Level(m + 1)
        <4>1. Cardinality(t) \in 0..n
          BY <1>1, <3>1
        <4> QED
          BY <3>1, <4>1
      <3> HIDE DEF t, Level
      <3>3. g[t] = IF t = {} THEN 0 ELSE OneOf(t).ms + g[t \ {OneOf(t)}]
        BY <2>1, <3>2 DEF SumOn
      <3>4. h[t] = IF t = {} THEN 0 ELSE OneOf(t).ms + g[t \ {OneOf(t)}]
        BY <3>2
      <3> QED
        BY <3>3, <3>4 DEF t
    <2>3. \A s \in Level(m + 1) : h[s] = IF s = {} THEN 0 ELSE OneOf(s).ms + g[s \ {OneOf(s)}]
      OBVIOUS
    <2>4. h = [s \in Level(m + 1) |-> h[s]]
      OBVIOUS
    <2> HIDE DEF h, Level
    <2>5. h = [s \in Level(m + 1) |-> IF s = {} THEN 0 ELSE OneOf(s).ms + h[s \ {OneOf(s)}]]
      BY <2>2, <2>3, <2>4
    <2>6. SumOn(h, Level(m + 1))
      BY <2>5 DEF SumOn
    <2>7. m + 1 \in 0..n
      BY <1>1, <1>3
    <2> QED
      BY <2>6, <2>7
  <1>4. n \in T
    <2> HIDE DEF T, n
    <2> QED
      BY <1>1, <1>2, <1>3, UpTo
  <1>5. Level(n) = SUBSET S
    BY <1>1
  <1> HIDE DEF Level
  <1> QED
    BY <1>4, <1>5

\* Any element may be taken first.
InAnyOrder(g, S) ==
    /\ g[{}] = 0 /\ \A s \in SUBSET S : g[s] \in Nat
    /\ \A s \in SUBSET S : \A x \in s : g[s] = x.ms + g[s \ {x}]
Timed(S) == \A x \in S : x.ms \in Nat
LEMMA SumOrder ==
    ASSUME NEW S, IsFiniteSet(S), Timed(S), NEW g, SumOn(g, SUBSET S)
    PROVE  InAnyOrder(g, S)
  <1>0. \A x \in S : x.ms \in Nat
    BY DEF Timed
  <1> DEFINE n == Cardinality(S)
             Good(s) == g[s] \in Nat /\ \A x \in s : g[s] = x.ms + g[s \ {x}]
             T == {m \in 0..n : \A s \in SUBSET S : Cardinality(s) <= m => Good(s)}
  <1>1. n \in Nat /\ \A s \in SUBSET S : IsFiniteSet(s) /\ Cardinality(s) \in 0..n
    BY FS_CardinalityType, FS_Subset
  <1>2. \A s \in SUBSET S : s # {} => g[s] = OneOf(s).ms + g[s \ {OneOf(s)}]
    BY DEF SumOn
  <1>3. g[{}] = 0
    BY DEF SumOn
  <1>4. 0 \in T
    <2>1. \A s \in SUBSET S : Cardinality(s) <= 0 => s = {}
      BY <1>1, FS_EmptySet
    <2>2. Good({})
      BY <1>3
    <2>3. 0 \in 0..n
      BY <1>1
    <2> HIDE DEF Good, n
    <2> QED
      BY <2>1, <2>2, <2>3
  <1>5. ASSUME NEW m \in 0..n, m \in T, m < n
        PROVE  m + 1 \in T
    <2>1. ASSUME NEW s \in SUBSET S, Cardinality(s) = m + 1
          PROVE  Good(s)
      <3> DEFINE c == OneOf(s)
      <3>1. s # {}
        BY <1>1, <2>1, FS_EmptySet
      <3>2. c \in s /\ c.ms \in Nat
        BY <1>0, <3>1, OneOfIs
      <3>3. ASSUME NEW x \in s
            PROVE  Good(s \ {x}) /\ s \ {x} \in SUBSET S
        <4>1. Cardinality(s \ {x}) <= m
          BY <1>1, <2>1, SmallerIs
        <4> HIDE DEF Good
        <4> QED
          BY <1>5, <4>1
      <3>4. g[s] = c.ms + g[s \ {c}]
        BY <1>2, <3>1
      <3> HIDE DEF c
      <3>5. ASSUME NEW x \in s
            PROVE  g[s] = x.ms + g[s \ {x}]
        <4>1. CASE x = c
          BY <3>4, <4>1
        <4>2. CASE x # c
          <5> DEFINE both == s \ {x, c}
          <5>1. g[s \ {c}] = x.ms + g[both]
            <6>1. x \in s \ {c} /\ (s \ {c}) \ {x} = both
              BY <4>2
            <6> QED
              BY <3>2, <3>3, <6>1
          <5>2. g[s \ {x}] = c.ms + g[both]
            <6>1. c \in s \ {x} /\ (s \ {x}) \ {c} = both
              BY <3>2, <4>2
            <6> QED
              BY <3>3, <6>1
          <5>3. g[both] \in Nat /\ x.ms \in Nat
            <6>1. c \in s \ {x} /\ (s \ {x}) \ {c} = both /\ Cardinality(s \ {x}) = m
              BY <1>1, <2>1, <3>2, <4>2, SmallerIs
            <6>3. both \in SUBSET S /\ Cardinality(both) <= m
              <7> DEFINE u == s \ {x}
              <7>1. u \in SUBSET S /\ c \in u /\ Cardinality(u) = m /\ u \ {c} = both
                BY <6>1
              <7> HIDE DEF u, both
              <7>2. IsFiniteSet(u)
                BY <1>1, <7>1
              <7>3. Cardinality(both) = m - 1 /\ m \in Nat
                BY <1>1, <7>1, <7>2, SmallerIs
              <7> QED
                BY <7>1, <7>3
            <6>4. x.ms \in Nat
              BY <1>0
            <6> HIDE DEF Good
            <6>5. Good(both)
              BY <1>5, <6>3
            <6> QED
              BY <6>4, <6>5 DEF Good
          <5> HIDE DEF both
          <5> QED
            BY <3>2, <3>4, <5>1, <5>2, <5>3
        <4> QED
          BY <4>1, <4>2
      <3>6. g[s] \in Nat
        BY <3>2, <3>3, <3>4
      <3> QED
        BY <3>5, <3>6
    <2>2. ASSUME NEW s \in SUBSET S, Cardinality(s) <= m + 1
          PROVE  Good(s)
      <3>1. Cardinality(s) <= m \/ Cardinality(s) = m + 1
        BY <1>1, <2>2
      <3> HIDE DEF Good
      <3> QED
        BY <1>5, <2>1, <3>1
    <2>3. m + 1 \in 0..n
      BY <1>1, <1>5
    <2> HIDE DEF Good, n
    <2> QED
      BY <2>2, <2>3
  <1>6. ASSUME NEW s \in SUBSET S
        PROVE  Good(s)
    <2> DEFINE k == Cardinality(s)
    <2>1. k \in Nat /\ k <= k /\ k \in 0..n /\ \A m \in 0..k : m \in 0..n /\ (m < k => m < n)
      BY <1>1
    <2>2. k \in T
      <3> HIDE DEF T, n, k
      <3> QED
        BY <1>4, <1>5, <2>1, UpTo
    <2> HIDE DEF Good, k, n
    <2>3. \A q \in SUBSET S : Cardinality(q) <= k => Good(q)
      BY <2>2
    <2> QED
      BY <2>1, <2>3 DEF k
  <1> QED
    BY <1>3, <1>6 DEF InAnyOrder

LEMMA MsOneMore ==
    ASSUME NEW S, IsFiniteSet(S), NEW x, x \notin S, Timed(S \cup {x})
    PROVE  Ms({}) = 0 /\ Ms(S) \in Nat /\ Ms(S \cup {x}) = Ms(S) + x.ms
  <1> DEFINE R == S \cup {x}
             n == Cardinality(S)
             g == CHOOSE f : SumOn(f, SUBSET S)
             h == CHOOSE f : SumOn(f, SUBSET R)
  <1>1. IsFiniteSet(R)
    BY FS_AddElement
  <1>2. SumOn(g, SUBSET S) /\ SumOn(h, SUBSET R)
    BY <1>1, SumExists
  <1>3. Ms(S) = g[S] /\ Ms(R) = h[R]
    BY MsIs
  <1> HIDE DEF g, h
  <1>4. /\ g[{}] = 0 /\ \A s \in SUBSET S : g[s] \in Nat
        /\ \A s \in SUBSET S : \A y \in s : g[s] = y.ms + g[s \ {y}]
    <2>1. Timed(S)
      BY DEF Timed
    <2>2. InAnyOrder(g, S)
      BY <1>2, <2>1, SumOrder
    <2> QED
      BY <2>2 DEF InAnyOrder
  <1>5. /\ h[{}] = 0 /\ \A s \in SUBSET R : h[s] \in Nat
        /\ \A s \in SUBSET R : \A y \in s : h[s] = y.ms + h[s \ {y}]
    <2> HIDE DEF R
    <2>1. InAnyOrder(h, R)
      BY <1>1, <1>2, SumOrder DEF R
    <2> QED
      BY <2>1 DEF InAnyOrder
  <1>6. n \in Nat /\ \A s \in SUBSET S : IsFiniteSet(s) /\ Cardinality(s) \in 0..n
    BY FS_CardinalityType, FS_Subset
  <1> DEFINE T == {m \in 0..n : \A s \in SUBSET S : Cardinality(s) = m => h[s] = g[s]}
  <1>7. 0 \in T
    <2>1. \A s \in SUBSET S : Cardinality(s) = 0 => s = {}
      BY <1>6, FS_EmptySet
    <2>2. 0 \in 0..n
      BY <1>6
    <2> HIDE DEF n
    <2> QED
      BY <1>4, <1>5, <2>1, <2>2
  <1>8. ASSUME NEW m \in 0..n, m \in T, m < n
        PROVE  m + 1 \in T
    <2>1. ASSUME NEW s \in SUBSET S, Cardinality(s) = m + 1
          PROVE  h[s] = g[s]
      <3>1. PICK y \in s : TRUE
        BY <1>6, <2>1, FS_EmptySet
      <3>2. Cardinality(s \ {y}) = m
        BY <1>6, <2>1, SmallerIs
      <3>3. h[s \ {y}] = g[s \ {y}]
        BY <1>8, <3>2
      <3>4. g[s] = y.ms + g[s \ {y}]
        BY <1>4
      <3>5. h[s] = y.ms + h[s \ {y}]
        <4>1. s \in SUBSET R
          OBVIOUS
        <4> QED
          BY <1>5, <4>1
      <3> QED
        BY <3>3, <3>4, <3>5
    <2>2. m + 1 \in 0..n
      BY <1>6, <1>8
    <2> HIDE DEF n
    <2> QED
      BY <2>1, <2>2
  <1>9. n \in T
    <2> HIDE DEF T, n
    <2> QED
      BY <1>6, <1>7, <1>8, UpTo
  <1>10. h[S] = g[S]
    BY <1>9
  <1>11. h[R] = x.ms + h[R \ {x}] /\ R \ {x} = S
    BY <1>5
  <1>12. Ms({}) = 0
    <2>1. IsFiniteSet({})
      BY FS_EmptySet
    <2> DEFINE f == CHOOSE e : SumOn(e, SUBSET {})
    <2>2. SumOn(f, SUBSET {})
      BY <2>1, SumExists
    <2>3. Ms({}) = f[{}]
      BY MsIs
    <2> HIDE DEF f
    <2> QED
      BY <2>2, <2>3 DEF SumOn
  <1>13. x.ms \in Nat /\ g[S] \in Nat
    BY <1>4 DEF Timed
  <1>14. h[R] = x.ms + g[S]
    BY <1>10, <1>11
  <1>15. Ms(S \cup {x}) = Ms(S) + x.ms
    <2> HIDE DEF R
    <2>1. Ms(R) = Ms(S) + x.ms
      BY <1>3, <1>13, <1>14
    <2> QED
      BY <2>1 DEF R
  <1> QED
    BY <1>3, <1>12, <1>13, <1>15

----------------------------------------------------------------------------
(* The spans of a dependency: their groups hold the sum of their times,    *)
(* how many there are and whether one failed.                              *)

GroupSays(g, P) ==
    /\ g.total = Ms(P) /\ g.count = Cardinality(P)
    /\ g.error \in BOOLEAN /\ (g.error <=> \E s \in P : s.error)
GroupsSay(groups, S) ==
    /\ DOMAIN groups = {s.dep : s \in S}
    /\ \A d \in DOMAIN groups : GroupSays(groups[d], Of(S, d))
NoGroup == [total |-> 0, count |-> 0, error |-> FALSE]

LEMMA OneMoreSpan ==
    ASSUME NEW P, IsFiniteSet(P), NEW s, s \notin P, Timed(P \cup {s}), s.error \in BOOLEAN,
           NEW g, GroupSays(g, P) \/ (P = {} /\ g = NoGroup)
    PROVE  GroupSays([total |-> g.total + s.ms, count |-> g.count + 1,
                      error |-> g.error \/ s.error], P \cup {s})
  <1> DEFINE new == [total |-> g.total + s.ms, count |-> g.count + 1, error |-> g.error \/ s.error]
             R == P \cup {s}
  <1>1. Ms({}) = 0 /\ Ms(P) \in Nat /\ Ms(R) = Ms(P) + s.ms
    BY MsOneMore
  <1>2. Cardinality(R) = Cardinality(P) + 1
    BY FS_AddElement
  <1>3. Cardinality({}) = 0
    BY FS_EmptySet
  <1>4. GroupSays(g, P)
    <2>1. CASE P = {} /\ g = NoGroup
      <3>1. g.total = 0 /\ g.count = 0 /\ g.error = FALSE
        BY <2>1 DEF NoGroup
      <3>2. g.error \in BOOLEAN /\ (g.error <=> \E x \in P : x.error)
        BY <2>1, <3>1
      <3> QED
        BY <1>1, <1>3, <2>1, <3>1, <3>2 DEF GroupSays
    <2> QED
      BY <2>1
  <1>5. new.total = g.total + s.ms /\ new.count = g.count + 1
    OBVIOUS
  <1>6. new.error \in BOOLEAN /\ (new.error <=> g.error \/ s.error)
    BY <1>4 DEF GroupSays
  <1>7. (\E x \in R : x.error) <=> (\E x \in P : x.error) \/ s.error
    OBVIOUS
  <1> HIDE DEF new, R
  <1>8. GroupSays(new, R)
    BY <1>1, <1>2, <1>4, <1>5, <1>6, <1>7 DEF GroupSays
  <1> QED
    BY <1>8 DEF new, R

LEMMA OneMoreGrouped ==
    ASSUME NEW S, IsFiniteSet(S), NEW s, s \notin S, Timed(S \cup {s}), s.error \in BOOLEAN,
           NEW groups, GroupsSay(groups, S)
    PROVE  GroupsSay(Grouped(groups, s), S \cup {s})
  <1> DEFINE d == s.dep
             P == Of(S, d)
             g == Field(groups, d, NoGroup)
             new == [total |-> g.total + s.ms, count |-> g.count + 1, error |-> g.error \/ s.error]
             all == SetField(groups, d, new)
  <1>1. Grouped(groups, s) = all
    BY DEF Grouped, NoGroup
  <1>2. GroupSays(g, P) \/ (P = {} /\ g = NoGroup)
    <2>1. CASE d \in DOMAIN groups
      <3>1. g = groups[d]
        BY <2>1 DEF Field
      <3> HIDE DEF g, P
      <3> QED
        BY <2>1, <3>1 DEF GroupsSay, P
    <2>2. CASE d \notin DOMAIN groups
      BY <2>2 DEF Field, GroupsSay, Of
    <2> QED
      BY <2>1, <2>2
  <1>3. IsFiniteSet(P) /\ s \notin P /\ Timed(P \cup {s})
    BY FS_Subset DEF Of, Timed
  <1> HIDE DEF g, P
  <1>4. GroupSays(new, P \cup {s})
    BY <1>2, <1>3, OneMoreSpan
  <1> HIDE DEF new
  <1>5. /\ DOMAIN all = DOMAIN groups \cup {d} /\ all[d] = new
        /\ \A x \in DOMAIN groups : x # d => all[x] = groups[x]
    BY DEF SetField
  <1> HIDE DEF all
  <1>6. DOMAIN all = {x.dep : x \in S \cup {s}}
    BY <1>5 DEF GroupsSay
  <1>7. ASSUME NEW x \in DOMAIN all
        PROVE  GroupSays(all[x], Of(S \cup {s}, x))
    <2>1. CASE x = d
      <3>1. Of(S \cup {s}, x) = P \cup {s}
        BY <2>1 DEF Of, P
      <3> QED
        BY <1>4, <1>5, <2>1, <3>1
    <2>2. CASE x # d
      <3>1. Of(S \cup {s}, x) = Of(S, x)
        BY <2>2 DEF Of
      <3> QED
        BY <1>5, <2>2, <3>1 DEF GroupsSay
    <2> QED
      BY <2>1, <2>2
  <1> HIDE DEF d
  <1>8. GroupsSay(all, S \cup {s})
    BY <1>6, <1>7 DEF GroupsSay
  <1> QED
    BY <1>1, <1>8

LEMMA NothingGrouped == GroupsSay(<< >>, {})
  <1>1. DOMAIN << >> = {}
    OBVIOUS
  <1> QED
    BY <1>1 DEF GroupsSay

\* The first fold: over spans of different ids.
LEMMA SpansSay ==
    ASSUME NEW spans \in Seq(ReportSpan),
           \A j, k \in DOMAIN spans : spans[j].id = spans[k].id => j = k
    PROVE  /\ GroupsFit(FoldLeft(GroupedSpan, << >>, spans))
           /\ GroupsSay(FoldLeft(GroupedSpan, << >>, spans), {s \in Range(spans) : Discovers(s)})
  <1> DEFINE n == Len(spans)
             base == << >>
             S(k) == First(spans, k)
             Found2(k) == {s \in S(k) : Discovers(s)}
             Right(acc, k) == GroupsFit(acc) /\ IsFiniteSet(S(k)) /\ GroupsSay(acc, Found2(k))
  <1>1. n \in Nat /\ DOMAIN spans = 1..n /\ \A k \in 1..n : spans[k] \in ReportSpan
    OBVIOUS
  <1>2. /\ S(0) = {} /\ S(n) = Range(spans)
        /\ \A k \in 0..n : S(k) \subseteq Range(spans)
        /\ \A k \in 0..n : k < n => S(k + 1) = S(k) \cup {spans[k + 1]}
    BY <1>1, FirstsAre
  <1>3. ASSUME NEW k \in 0..n, k < n
        PROVE  spans[k + 1] \notin S(k)
    <2>1. \A j \in 1..k : j \in 1..n /\ j # k + 1 /\ k + 1 \in 1..n
      BY <1>1, <1>3
    <2> QED
      BY <1>1, <2>1 DEF First
  <1>4. Range(spans) \subseteq ReportSpan
    BY <1>1 DEF Range
  <1> HIDE DEF S
  <1>5. PICK r : StageOf(r, "span", base, spans, n) /\ Folded("span", base, spans) = r[n]
    BY <1>1, FoldStages
  <1> DEFINE T == {k \in 0..n : Right(r[k], k)}
  <1>6. 0 \in T
    <2>1. r[0] = base
      BY <1>5 DEF StageOf
    <2>2. Found2(0) = {}
      BY <1>2
    <2>3. Right(base, 0)
      BY <1>2, <2>2, NothingGrouped, NoGroupFits, FS_EmptySet
    <2> HIDE DEF Right
    <2> QED
      BY <1>1, <2>1, <2>3
  <1>7. ASSUME NEW k \in 0..n, k \in T, k < n
        PROVE  k + 1 \in T
    <2> DEFINE s == spans[k + 1]
               acc == r[k]
               P == Found2(k)
    <2>1. k + 1 \in 1..n /\ Right(acc, k)
      BY <1>1, <1>7
    <2>2. r[k + 1] = GroupedSpan(acc, s)
      <3>1. r[k + 1] = Step("span", r[(k + 1) - 1], spans[k + 1])
        BY <1>5, <2>1 DEF StageOf
      <3> QED
        BY <1>1, <3>1 DEF Step
    <2>3. s \in ReportSpan /\ s \notin S(k) /\ S(k + 1) = S(k) \cup {s}
      BY <1>1, <1>2, <1>3, <1>7, <2>1
    <2>4. S(k) \subseteq ReportSpan
      BY <1>2, <1>4
    <2> HIDE DEF s, acc
    <2>5. IsFiniteSet(S(k + 1)) /\ IsFiniteSet(P) /\ s \notin P
      BY <2>1, <2>3, FS_AddElement, FS_Subset
    <2>6. CASE Discovers(s)
      <3>1. Found2(k + 1) = P \cup {s}
        BY <2>3, <2>6
      <3>2. s.dep \in ReportedDeps /\ s.ms \in Nat /\ s.error \in BOOLEAN
        BY <2>3, <2>6 DEF ReportSpan, Discovers, Maybe
      <3>3. Timed(P \cup {s})
        BY <2>3, <2>4 DEF Timed, ReportSpan
      <3>4. GroupsFit(acc) /\ GroupsSay(acc, P)
        BY <2>1
      <3> HIDE DEF P
      <3>5. GroupsFit(Grouped(acc, s)) /\ GroupsSay(Grouped(acc, s), P \cup {s})
        BY <2>5, <3>2, <3>3, <3>4, GroupedFits, OneMoreGrouped
      <3>6. r[k + 1] = Grouped(acc, s)
        BY <2>2, <2>6 DEF GroupedSpan
      <3> HIDE DEF Found2
      <3>7. Right(r[k + 1], k + 1)
        BY <2>5, <3>1, <3>5, <3>6
      <3> HIDE DEF Right
      <3> QED
        BY <1>1, <2>1, <3>7
    <2>7. CASE ~ Discovers(s)
      <3>1. Found2(k + 1) = P
        BY <2>3, <2>7
      <3>2. r[k + 1] = acc
        BY <2>2, <2>7 DEF GroupedSpan
      <3> HIDE DEF Found2
      <3>3. Right(r[k + 1], k + 1)
        BY <2>1, <2>5, <3>1, <3>2
      <3> HIDE DEF Right
      <3> QED
        BY <1>1, <2>1, <3>3
    <2> QED
      BY <2>6, <2>7
  <1>8. n \in T
    <2> HIDE DEF T, n
    <2> QED
      BY <1>1, <1>6, <1>7, UpTo
  <1> DEFINE all == FoldLeft(GroupedSpan, base, spans)
  <1>9. all = Folded("span", base, spans)
    BY <1>1, SpansFold
  <1>10. Found2(n) = {s \in Range(spans) : Discovers(s)}
    BY <1>2
  <1> HIDE DEF all, Found2
  <1>11. GroupsFit(all) /\ GroupsSay(all, Found2(n))
    BY <1>5, <1>8, <1>9
  <1> QED
    BY <1>10, <1>11 DEF all

\* The second fold: over dependencies of different names.
LEMMA TracesSay ==
    ASSUME NEW deps \in Seq(SpanDependency),
           \A j, k \in DOMAIN deps : deps[j].dep = deps[k].dep => j = k
    PROVE  /\ GroupsFit(FoldLeft(Grouped, << >>, deps))
           /\ GroupsSay(FoldLeft(Grouped, << >>, deps), Range(deps))
  <1> DEFINE n == Len(deps)
             base == << >>
             S(k) == First(deps, k)
             Right(acc, k) == GroupsFit(acc) /\ IsFiniteSet(S(k)) /\ GroupsSay(acc, S(k))
  <1>1. n \in Nat /\ DOMAIN deps = 1..n /\ \A k \in 1..n : deps[k] \in SpanDependency
    OBVIOUS
  <1>2. /\ S(0) = {} /\ S(n) = Range(deps)
        /\ \A k \in 0..n : S(k) \subseteq Range(deps)
        /\ \A k \in 0..n : k < n => S(k + 1) = S(k) \cup {deps[k + 1]}
    BY <1>1, FirstsAre
  <1>3. ASSUME NEW k \in 0..n, k < n
        PROVE  deps[k + 1] \notin S(k)
    <2>1. \A j \in 1..k : j \in 1..n /\ j # k + 1 /\ k + 1 \in 1..n
      BY <1>1, <1>3
    <2> QED
      BY <1>1, <2>1 DEF First
  <1>4. Range(deps) \subseteq SpanDependency
    BY <1>1 DEF Range
  <1> HIDE DEF S
  <1>5. PICK r : StageOf(r, "trace", base, deps, n) /\ Folded("trace", base, deps) = r[n]
    BY <1>1, FoldStages
  <1> DEFINE T == {k \in 0..n : Right(r[k], k)}
  <1>6. 0 \in T
    <2>1. r[0] = base
      BY <1>5 DEF StageOf
    <2>2. Right(base, 0)
      BY <1>2, NothingGrouped, NoGroupFits, FS_EmptySet
    <2> HIDE DEF Right
    <2> QED
      BY <1>1, <2>1, <2>2
  <1>7. ASSUME NEW k \in 0..n, k \in T, k < n
        PROVE  k + 1 \in T
    <2> DEFINE s == deps[k + 1]
               acc == r[k]
               P == S(k)
    <2>1. k + 1 \in 1..n /\ GroupsFit(acc) /\ IsFiniteSet(P) /\ GroupsSay(acc, P)
      BY <1>1, <1>7
    <2>2. r[k + 1] = Grouped(acc, s)
      <3>1. r[k + 1] = Step("trace", r[(k + 1) - 1], deps[k + 1])
        BY <1>5, <2>1 DEF StageOf
      <3> QED
        BY <1>1, <3>1 DEF Step
    <2>3. s \in SpanDependency /\ s \notin P /\ S(k + 1) = P \cup {s} /\ P \subseteq SpanDependency
      BY <1>1, <1>2, <1>3, <1>4, <1>7, <2>1
    <2> HIDE DEF s, acc, P
    <2>4. s.dep \in ReportedDeps /\ s.ms \in Nat /\ s.error \in BOOLEAN /\ Timed(P \cup {s})
      BY <2>3 DEF SpanDependency, Timed
    <2>5. /\ GroupsFit(Grouped(acc, s)) /\ GroupsSay(Grouped(acc, s), P \cup {s})
          /\ IsFiniteSet(P \cup {s})
      BY <2>1, <2>3, <2>4, GroupedFits, OneMoreGrouped, FS_AddElement
    <2>6. Right(r[k + 1], k + 1)
      BY <2>2, <2>3, <2>5
    <2> HIDE DEF Right
    <2> QED
      BY <1>1, <2>1, <2>6
  <1>8. n \in T
    <2> HIDE DEF T, n
    <2> QED
      BY <1>1, <1>6, <1>7, UpTo
  <1> DEFINE all == FoldLeft(Grouped, base, deps)
  <1>9. all = Folded("trace", base, deps)
    BY <1>1, GroupsFold
  <1> HIDE DEF all
  <1>10. GroupsFit(all) /\ GroupsSay(all, S(n))
    BY <1>5, <1>8, <1>9
  <1> QED
    BY <1>2, <1>10 DEF all

LEMMA BridgedSays ==
    ASSUME NEW spans \in Seq(ReportSpan),
           \A j, k \in DOMAIN spans : spans[j].id = spans[k].id => j = k
    PROVE  Faithful(Bridged(TraceDependencies(spans)), Report("spans", Defaults, spans))
  <1> DEFINE groups == FoldLeft(GroupedSpan, << >>, spans)
             S == {s \in Range(spans) : Discovers(s)}
             names == SetToSeq(DOMAIN groups)
             m == Cardinality(DOMAIN groups)
             of(k) == [dep |-> names[k], ms |-> Rounded(groups[names[k]].total, groups[names[k]].count),
                       error |-> groups[names[k]].error]
             deps == TraceDependencies(spans)
  <1>1. GroupsFit(groups) /\ GroupsSay(groups, S)
    BY SpansSay
  <1>2. deps = [k \in DOMAIN names |-> of(k)]
    BY DEF TraceDependencies
  <1> HIDE DEF groups, S
  <1>3. /\ m \in Nat /\ names \in [1..m -> DOMAIN groups] /\ IsInjective(names)
        /\ \A d \in DOMAIN groups : \E k \in 1..m : names[k] = d
    BY <1>1, NamesInOrder DEF GroupsFit
  <1> HIDE DEF names, m
  <1>4. deps \in Seq(SpanDependency)
    BY SpansFit
  <1> HIDE DEF deps
  <1>0. \A k \in DOMAIN deps : deps[k] \in SpanDependency
    BY <1>4
  <1>5. DOMAIN deps = 1..m /\ DOMAIN names = 1..m
    BY <1>2, <1>3
  <1>6. ASSUME NEW k \in 1..m
        PROVE  /\ deps[k].dep = names[k] /\ deps[k].error = groups[names[k]].error
               /\ deps[k].ms = Rounded(groups[names[k]].total, groups[names[k]].count)
    BY <1>2, <1>5
  <1> HIDE DEF of
  <1>7. \A j, k \in DOMAIN deps : deps[j].dep = deps[k].dep => j = k
    BY <1>3, <1>5, <1>6 DEF IsInjective
  <1> DEFINE again == FoldLeft(Grouped, << >>, deps)
             order == SetToSeq(DOMAIN again)
             l == Cardinality(DOMAIN again)
             row(g) == Row(~g.error, IF g.error THEN 2 ELSE 0, Rounded(g.total, g.count), FALSE, Absent)
             all == Bridged(deps)
             report == Report("spans", Defaults, spans)
  <1>8. GroupsFit(again) /\ GroupsSay(again, Range(deps))
    BY <1>4, <1>7, TracesSay
  <1>9. all = [k \in DOMAIN order |-> Found(order[k], row(again[order[k]]))]
    BY DEF Bridged
  <1> HIDE DEF again
  <1>10. /\ l \in Nat /\ order \in [1..l -> DOMAIN again]
         /\ \A d \in DOMAIN again : \E k \in 1..l : order[k] = d
    BY <1>8, NamesInOrder DEF GroupsFit
  <1> HIDE DEF order, l, all
  <1>11. report.how = "spans" /\ report.facts = Range(spans)
    BY DEF Report
  <1> HIDE DEF report
  <1>12. Names(report) = DOMAIN groups
    <2>1. Names(report) = {s.dep : s \in S}
      BY <1>11 DEF Names, S
    <2> QED
      BY <1>1, <2>1 DEF GroupsSay
  <1>13. DOMAIN again = DOMAIN groups
    <2>1. DOMAIN again = {x.dep : x \in Range(deps)}
      BY <1>8 DEF GroupsSay
    <2>2. {x.dep : x \in Range(deps)} = {deps[k].dep : k \in 1..m}
      BY <1>5 DEF Range
    <2>3. {deps[k].dep : k \in 1..m} = DOMAIN groups
      <3>1. \A k \in 1..m : deps[k].dep = names[k] /\ names[k] \in DOMAIN groups
        BY <1>3, <1>6
      <3>2. \A d \in DOMAIN groups : \E k \in 1..m : deps[k].dep = d
        BY <1>3, <3>1
      <3> DEFINE A == {deps[k].dep : k \in 1..m}
                 D == DOMAIN groups
      <3>3. A \subseteq D
        BY <3>1
      <3>4. D \subseteq A
        BY <3>2
      <3> HIDE DEF A, D
      <3>5. A = D
        BY <3>3, <3>4
      <3> QED
        BY <3>5 DEF A, D
    <2> QED
      BY <2>1, <2>2, <2>3
  <1>14. ASSUME NEW d \in DOMAIN groups
         PROVE  Says(row(again[d]), report, d)
    <2> DEFINE g == groups[d]
               x == again[d]
               P == Of(S, d)
    <2>1. g \in SpanGroup /\ GroupSays(g, P)
      BY <1>1 DEF GroupsFit, GroupsSay
    <2>2. PICK k \in 1..m : names[k] = d
      BY <1>3
    <2> DEFINE t == deps[k]
    <2>3. t.dep = d /\ t.error = g.error /\ t.ms = Rounded(g.total, g.count)
      BY <1>6, <2>2
    <2>4. t \in SpanDependency
      BY <1>0, <1>5
    <2>5. Of(Range(deps), d) = {t}
      BY <1>5, <1>7, <2>3 DEF Of, Range
    <2>6. GroupSays(x, {t})
      BY <1>8, <1>13, <2>5 DEF GroupsSay
    <2>7. Ms({t}) = t.ms /\ Cardinality({t}) = 1 /\ t.ms \in Nat /\ t.error \in BOOLEAN
      <3>1. t.ms \in Nat /\ t.error \in BOOLEAN
        BY <2>4 DEF SpanDependency
      <3> HIDE DEF t
      <3>2. Timed({} \cup {t}) /\ t \notin {} /\ {} \cup {t} = {t} /\ IsFiniteSet({})
        BY <3>1, FS_EmptySet DEF Timed
      <3>3. Ms({}) = 0 /\ Ms({t}) = Ms({}) + t.ms
        BY <3>2, MsOneMore
      <3>4. Cardinality({t}) = 1
        BY FS_Singleton
      <3> QED
        BY <3>1, <3>3, <3>4
    <2> HIDE DEF g, x, t, P
    <2>8. x.total = t.ms /\ x.count = 1 /\ x.error = t.error
      <3>1. x.total = t.ms /\ x.count = 1
        BY <2>6, <2>7 DEF GroupSays
      <3>2. x.error \in BOOLEAN /\ (x.error <=> t.error)
        BY <2>6 DEF GroupSays
      <3>3. x.error = t.error
        BY <2>7, <3>2
      <3> QED
        BY <3>1, <3>3
    <2>9. Rounded(x.total, x.count) = Rounded(Ms(P), Cardinality(P))
      <3>1. Rounded(t.ms * 1, 1) = t.ms /\ t.ms * 1 = t.ms
        BY <2>7, RoundedOfMultiple
      <3> QED
        BY <2>1, <2>3, <2>8, <3>1 DEF GroupSays
    <2>10. x.error \in BOOLEAN /\ (x.error <=> \E s \in P : s.error)
      BY <2>1, <2>3, <2>8 DEF GroupSays
    <2>11. P = {s \in report.facts : Discovers(s) /\ s.dep = d}
      BY <1>11 DEF P, S, Of
    <2>12. Meaning(report, d) = SpanMeaning(report, d)
      BY <1>11 DEF Meaning
    <2>13. SpanMeaning(report, d) =
              [healthy |-> \A s \in P : ~s.error, latency |-> Rounded(Ms(P), Cardinality(P)),
               skipped |-> FALSE]
      BY <2>11 DEF SpanMeaning, Ms
    <2> DEFINE new == row(x)
    <2>14. /\ new.healthy = ~x.error /\ new.latency = Rounded(x.total, x.count)
           /\ new.skipped = FALSE /\ new.percentiles = Absent
      BY DEF Row
    <2>15. (~x.error) = (\A s \in P : ~s.error)
      BY <2>10
    <2> HIDE DEF new
    <2>16. Meaning(report, d).healthy = new.healthy
      <3>1. Meaning(report, d).healthy = (\A s \in P : ~s.error)
        BY <2>12, <2>13
      <3> QED
        BY <2>14, <2>15, <3>1
    <2>17. Meaning(report, d).latency = new.latency /\ Meaning(report, d).skipped = new.skipped
      <3>1. Meaning(report, d).latency = Rounded(Ms(P), Cardinality(P))
        BY <2>12, <2>13
      <3>2. Meaning(report, d).skipped = FALSE
        BY <2>12, <2>13
      <3> QED
        BY <2>9, <2>14, <3>1, <3>2
    <2>18. InOrder(new.percentiles, report, d)
      BY <2>14 DEF InOrder
    <2>19. Says(new, report, d)
      BY <2>16, <2>17, <2>18 DEF Says, RowMeans, HealthAsMeant, LatencyAsMeant
    <2> QED
      BY <2>19 DEF new, x
  <1> HIDE DEF row
  <1>15. DOMAIN all = 1..l /\ \A k \in 1..l : /\ all[k].name = order[k]
                                              /\ all[k].row = row(again[order[k]])
    BY <1>9, <1>10 DEF Found
  <1>16. Faithful(all, report)
    <2>1. ASSUME NEW k \in DOMAIN all
          PROVE  all[k].name \in Names(report) /\ Says(all[k].row, report, all[k].name)
      <3> DEFINE d == order[k]
      <3>1. d \in DOMAIN groups
        BY <1>10, <1>13, <1>15
      <3>2. all[k].name = d /\ all[k].row = row(again[d])
        BY <1>15
      <3> HIDE DEF d
      <3> QED
        BY <1>12, <1>14, <3>1, <3>2
    <2>2. ASSUME NEW d \in Names(report)
          PROVE  \E k \in DOMAIN all : all[k].name = d
      <3>1. d \in DOMAIN again
        BY <1>12, <1>13
      <3>2. PICK k \in 1..l : order[k] = d
        BY <1>10, <3>1
      <3>3. k \in DOMAIN all /\ all[k].name = d
        BY <1>15, <3>2
      <3> QED
        BY <3>3
    <2> QED
      BY <2>1, <2>2 DEF Faithful
  <1> QED
    BY <1>16 DEF all, deps, report

----------------------------------------------------------------------------
(* Storing what a report means. *)

LEMMA MappedIsHeeded ==
    ASSUME NEW body \in Items, body.root # "none"
    PROVE  ParseMapped(body).ok
  <1> DEFINE items == body.items
             n == Len(items)
             base == Parsed(<<>>, {})
             Right(acc) == DOMAIN acc = {"ok", "deps", "warnings"} /\ acc.ok
  <1>1. items \in Seq(ReportItem) /\ n \in Nat /\ DOMAIN items = 1..n
    BY ReportConstants
  <1>2. PICK r : StageOf(r, "item", base, items, n) /\ Folded("item", base, items) = r[n]
    BY <1>1, FoldStages
  <1> DEFINE T == {k \in 0..n : Right(r[k])}
  <1>3. 0 \in T
    <2>1. r[0] = base
      BY <1>2 DEF StageOf
    <2>2. Right(base)
      BY DEF Parsed
    <2> HIDE DEF Right
    <2> QED
      BY <1>1, <2>1, <2>2
  <1>4. ASSUME NEW k \in 0..n, k \in T, k < n
        PROVE  k + 1 \in T
    <2>1. k + 1 \in 1..n /\ Right(r[k])
      BY <1>1, <1>4
    <2>2. r[k + 1] = MappedItem(r[k], items[k + 1])
      <3>1. r[k + 1] = Step("item", r[(k + 1) - 1], items[k + 1])
        BY <1>2, <2>1 DEF StageOf
      <3> QED
        BY <1>1, <3>1 DEF Step
    <2>3. Right(r[k + 1])
      BY <2>1, <2>2 DEF MappedItem
    <2> HIDE DEF Right
    <2> QED
      BY <1>1, <2>1, <2>3
  <1>5. n \in T
    <2> HIDE DEF T, n
    <2> QED
      BY <1>1, <1>3, <1>4, UpTo
  <1> DEFINE acc == FoldLeft(MappedItem, base, items)
  <1>6. acc.ok
    <2>1. acc = Folded("item", base, items)
      BY <1>1, ItemsFold
    <2> HIDE DEF acc
    <2> QED
      BY <1>2, <1>5, <2>1
  <1>7. ParseMapped(body) = acc
    BY DEF ParseMapped
  <1> HIDE DEF acc
  <1> QED
    BY <1>6, <1>7

AllReports == [how : {"default", "mapped", "text", "points", "spans"},
               settings : {Defaults, Custom},
               facts : SUBSET (ReportItem \cup ReportPoint \cup ReportSpan)]
SaidOfReporter == [ReportedDeps -> Maybe(AllReports)]
SaidOfReporters == [Reporters -> SaidOfReporter]

LEMMA ReportIs ==
    ASSUME NEW how \in {"default", "mapped", "text", "points", "spans"},
           NEW chosen \in {Defaults, Custom}, NEW list,
           \/ list \in Seq(ReportItem) \/ list \in Seq(ReportPoint) \/ list \in Seq(ReportSpan)
    PROVE  Report(how, chosen, list) \in AllReports
  <1>1. Range(list) \in SUBSET (ReportItem \cup ReportPoint \cup ReportSpan)
    <2> DEFINE All == ReportItem \cup ReportPoint \cup ReportSpan
    <2>1. \A k \in DOMAIN list : list[k] \in All
      <3>1. CASE list \in Seq(ReportItem)
        BY <3>1
      <3>2. CASE list \in Seq(ReportPoint)
        BY <3>2
      <3>3. CASE list \in Seq(ReportSpan)
        BY <3>3
      <3> QED
        BY <3>1, <3>2, <3>3
    <2> HIDE DEF All
    <2>2. Range(list) \in SUBSET All
      BY <2>1 DEF Range
    <2> QED
      BY <2>2 DEF All
  <1> QED
    BY <1>1 DEF Report, AllReports

LEMMA ReportIsThere == Absent \notin AllReports
  BY ReportsSayOnce DEF AllReports

LEMMA RowIsThere == Absent \notin ReportRow
  <1> DEFINE All == [healthy : BOOLEAN, state : 0..2, latency : Nat, skipped : BOOLEAN,
                     percentiles : Maybe(Seq(Int))]
  <1>1. Absent \notin All
    BY ReportsSayOnce
  <1>2. ASSUME NEW h \in Buckets
        PROVE  PercentilesOf(h) \in Maybe(Seq(Int))
    <2>1. Total(h) # 0 /\ h.bounds # <<>> =>
             /\ Percentile(h, 50) \in Int /\ Percentile(h, 95) \in Int /\ Percentile(h, 99) \in Int
      BY PercentileIsInt
    <2>2. \A x, y, z \in Int : <<x, y, z>> \in Seq(Int)
      OBVIOUS
    <2> QED
      BY <2>1, <2>2 DEF PercentilesOf, Maybe
  <1>3. PercentileValues \subseteq Maybe(Seq(Int))
    BY <1>2 DEF PercentileValues, Maybe
  <1>4. ReportRow \subseteq All
    BY <1>3 DEF ReportRow
  <1> HIDE DEF All
  <1> QED
    BY <1>1, <1>4

\* A row and the last report that names its dependency.
Agree(row, report, d) ==
    \/ row = Absent /\ report = Absent
    \/ row # Absent /\ report # Absent /\ Says(row, report, d)

LEMMA UpsertedSays ==
    ASSUME NEW old \in RowsOfReporter, NEW deps \in Seq(Facts), NEW report \in AllReports,
           Faithful(deps, report), NEW before,
           \A d \in ReportedDeps : Agree(old[d], before[d], d)
    PROVE  \A d \in ReportedDeps :
              Agree(Upserted(old, deps)[d], IF d \in Names(report) THEN report ELSE before[d], d)
  <1> DEFINE n == Len(deps)
             Named(k, d) == \E j \in 1..k : deps[j].name = d
             Right(acc, k) ==
                /\ acc \in RowsOfReporter
                /\ \A d \in ReportedDeps : IF Named(k, d) THEN acc[d] # Absent /\ Says(acc[d], report, d)
                                           ELSE acc[d] = old[d]
  <1>1. n \in Nat /\ DOMAIN deps = 1..n /\ \A k \in 1..n : deps[k] \in Facts
    OBVIOUS
  <1>2. PICK r : StageOf(r, "row", old, deps, n) /\ Folded("row", old, deps) = r[n]
    BY <1>1, FoldStages
  <1> DEFINE T == {k \in 0..n : Right(r[k], k)}
  <1>3. 0 \in T
    <2>1. r[0] = old
      BY <1>2 DEF StageOf
    <2>2. \A d : ~ Named(0, d)
      OBVIOUS
    <2> HIDE DEF Named
    <2>3. Right(old, 0)
      BY <2>2
    <2> HIDE DEF Right
    <2> QED
      BY <1>1, <2>1, <2>3
  <1>4. ASSUME NEW k \in 0..n, k \in T, k < n
        PROVE  k + 1 \in T
    <2> DEFINE x == deps[k + 1]
               acc == r[k]
               now == [acc EXCEPT ![x.name] = x.row]
    <2>1. k + 1 \in 1..n /\ Right(acc, k)
      BY <1>1, <1>4
    <2>2. r[k + 1] = now
      <3>1. r[k + 1] = Step("row", r[(k + 1) - 1], deps[k + 1])
        BY <1>2, <2>1 DEF StageOf
      <3>2. r[k + 1] = StoreRow(r[k], deps[k + 1])
        BY <1>1, <3>1 DEF Step
      <3> QED
        BY <3>2 DEF StoreRow
    <2>3. x \in Facts /\ x.name \in Names(report) /\ Says(x.row, report, x.name)
      BY <1>1, <2>1 DEF Faithful
    <2>4. \A d : Named(k + 1, d) <=> Named(k, d) \/ x.name = d
      <3>1. 1..(k + 1) = (1..k) \cup {k + 1}
        BY <1>1
      <3> QED
        BY <3>1
    <2> HIDE DEF x, acc, Named
    <2>5. x.name \in ReportedDeps /\ x.row \in ReportRow /\ x.row # Absent
      BY <2>3, RowIsThere DEF Facts
    <2>6. acc \in [ReportedDeps -> Maybe(ReportRow)]
      BY <2>1 DEF RowsOfReporter
    <2>7. /\ now \in RowsOfReporter /\ now[x.name] = x.row
          /\ \A d \in ReportedDeps : d # x.name => now[d] = acc[d]
      BY <2>5, <2>6 DEF Maybe, RowsOfReporter
    <2> HIDE DEF now
    <2>8. Right(now, k + 1)
      BY <2>1, <2>3, <2>4, <2>5, <2>7
    <2> HIDE DEF Right
    <2> QED
      BY <1>1, <2>1, <2>2, <2>8
  <1>5. n \in T
    <2> HIDE DEF T, n
    <2> QED
      BY <1>1, <1>3, <1>4, UpTo
  <1>6. Upserted(old, deps) = r[n]
    BY <1>1, <1>2, RowsFold DEF Upserted
  <1>7. \A d : Named(n, d) <=> d \in Names(report)
    BY <1>1 DEF Faithful
  <1>8. report # Absent
    BY ReportIsThere
  <1> HIDE DEF Named, n
  <1> QED
    BY <1>5, <1>6, <1>7, <1>8 DEF Agree

\* A refused report stores nothing.
LEMMA NothingUpserted ==
    ASSUME NEW old
    PROVE  Upserted(old, <<>>) = old
  <1> DEFINE none == <<>>
  <1>1. Len(none) = 0 /\ DOMAIN none = 1..Len(none)
    OBVIOUS
  <1> HIDE DEF none
  <1>2. PICK r : StageOf(r, "row", old, none, Len(none)) /\ Folded("row", old, none) = r[Len(none)]
    BY <1>1, FoldStages
  <1>3. Upserted(old, none) = r[0] /\ r[0] = old
    BY <1>1, <1>2, RowsFold DEF Upserted, StageOf
  <1> QED
    BY <1>3 DEF none

Agreed(found, stated) ==
    /\ found \in RowsOfReporters /\ stated \in SaidOfReporters
    /\ \A n \in Reporters, d \in ReportedDeps : Agree(found[n][d], stated[n][d], d)

LEMMA StoredAgrees ==
    ASSUME NEW found, NEW stated, Agreed(found, stated), NEW n \in Reporters,
           NEW deps \in Seq(Facts), NEW report \in AllReports, Faithful(deps, report)
    PROVE  Agreed([found EXCEPT ![n] = Upserted(@, deps)],
                  [stated EXCEPT ![n] = [d \in ReportedDeps |->
                      IF d \in Names(report) THEN report ELSE @[d]]])
  <1> DEFINE new == Upserted(found[n], deps)
             now == [d \in ReportedDeps |-> IF d \in Names(report) THEN report ELSE stated[n][d]]
             all == [found EXCEPT ![n] = new]
             last == [stated EXCEPT ![n] = now]
  <1>1. found[n] \in RowsOfReporter /\ stated[n] \in SaidOfReporter
    BY DEF Agreed, RowsOfReporters, SaidOfReporters
  <1>2. new \in RowsOfReporter
    BY <1>1, UpsertedFits
  <1>3. now \in SaidOfReporter
    BY <1>1 DEF SaidOfReporter, Maybe
  <1>4. \A d \in ReportedDeps : Agree(new[d], now[d], d)
    <2> DEFINE before == stated[n]
    <2>1. \A d \in ReportedDeps : Agree(found[n][d], before[d], d)
      BY DEF Agreed
    <2>2. \A d \in ReportedDeps : now[d] = IF d \in Names(report) THEN report ELSE before[d]
      OBVIOUS
    <2> HIDE DEF before, now
    <2>3. \A d \in ReportedDeps :
             Agree(new[d], IF d \in Names(report) THEN report ELSE before[d], d)
      BY <1>1, <2>1, UpsertedSays
    <2> HIDE DEF new
    <2> QED
      BY <2>2, <2>3
  <1> HIDE DEF new, now
  <1>5. /\ all \in RowsOfReporters /\ all[n] = new
        /\ \A k \in Reporters : k # n => all[k] = found[k]
    BY <1>2 DEF Agreed, RowsOfReporters
  <1>6. /\ last \in SaidOfReporters /\ last[n] = now
        /\ \A k \in Reporters : k # n => last[k] = stated[k]
    BY <1>3 DEF Agreed, SaidOfReporters
  <1> HIDE DEF all, last
  <1>7. Agreed(all, last)
    BY <1>4, <1>5, <1>6 DEF Agreed
  <1> QED
    BY <1>7 DEF all, last, new, now

\* The values of a push, with what they say.
PushedSays(acc) == Pushed(acc) /\ Agreed(acc.depRows, acc.said)

LEMMA ListSays ==
    ASSUME NEW acc, PushedSays(acc)
    PROVE  /\ \A v : PushedSays([acc EXCEPT !.list = v])
           /\ \A v, w : /\ PushedSays([acc EXCEPT !.parser = v, !.list = w])
                        /\ [acc EXCEPT !.parser = v, !.list = w].reporters = acc.reporters
  <1>1. ASSUME NEW v
        PROVE  PushedSays([acc EXCEPT !.list = v])
    <2> DEFINE new == [acc EXCEPT !.list = v]
    <2>1. Pushed(new) /\ new.depRows = acc.depRows /\ new.said = acc.said
      BY ListPushed DEF PushedSays, Pushed
    <2> HIDE DEF new
    <2>2. PushedSays(new)
      BY <2>1 DEF PushedSays
    <2> QED
      BY <2>2 DEF new
  <1>2. ASSUME NEW v, NEW w
        PROVE  /\ PushedSays([acc EXCEPT !.parser = v, !.list = w])
               /\ [acc EXCEPT !.parser = v, !.list = w].reporters = acc.reporters
    <2> DEFINE new == [acc EXCEPT !.parser = v, !.list = w]
    <2>1. /\ Pushed(new) /\ new.reporters = acc.reporters
          /\ new.depRows = acc.depRows /\ new.said = acc.said
      BY ListPushed DEF PushedSays, Pushed
    <2> HIDE DEF new
    <2>2. PushedSays(new)
      BY <2>1 DEF PushedSays
    <2> QED
      BY <2>1, <2>2 DEF new
  <1> QED
    BY <1>1, <1>2

LEMMA RegisteredSays ==
    ASSUME NEW acc, PushedSays(acc), NEW n \in Reporters
    PROVE  PushedSays(Registered(acc, n)) /\ Registered(acc, n).reporters[n] # NoReporter
  <1> DEFINE new == Registered(acc, n)
  <1>1. Pushed(new) /\ new.reporters[n] # NoReporter
    BY RegisteredFits DEF PushedSays
  <1>2. new.depRows = acc.depRows /\ new.said = acc.said
    BY DEF Registered, PushedSays, Pushed
  <1> HIDE DEF new
  <1>3. PushedSays(new)
    BY <1>1, <1>2 DEF PushedSays
  <1> QED
    BY <1>1, <1>3 DEF new

LEMMA EntryStoredSays ==
    ASSUME NEW acc, PushedSays(acc), NEW n \in Reporters, acc.reporters[n] # NoReporter,
           NEW deps \in Seq(Facts), NEW report \in AllReports, Faithful(deps, report)
    PROVE  PushedSays(EntryStored(acc, n, deps, report))
  <1> DEFINE found == [acc.depRows EXCEPT ![n] = Upserted(@, deps)]
             last == [acc.said EXCEPT ![n] = [d \in ReportedDeps |->
                         IF d \in Names(report) THEN report ELSE @[d]]]
             s == EntryStored(acc, n, deps, report)
  <1>1. Pushed(s)
    BY EntryStoredFits DEF PushedSays
  <1>2. Agreed(found, last)
    BY StoredAgrees DEF PushedSays
  <1>3. s.depRows = found /\ s.said = last
    BY DEF EntryStored, Pushed, PushedSays
  <1> HIDE DEF s, found, last
  <1>4. PushedSays(s)
    BY <1>1, <1>2, <1>3 DEF PushedSays
  <1> QED
    BY <1>4 DEF s

LEMMA MetricsEntrySays ==
    ASSUME NEW acc, PushedSays(acc), NEW e \in [name : Maybe(Reporters), list : Seq(ReportPoint)],
           SaidOnce(Range(e.list))
    PROVE  PushedSays(MetricsEntry(acc, e))
  <1>1. CASE e.name = Absent
    BY <1>1, ListSays DEF MetricsEntry, Nameless
  <1>2. CASE e.name # Absent
    <2> DEFINE n == e.name
               with == Registered(acc, n)
               chosen == Settings(with.reporters[n].schema)
               result == ParsePoints(e.list, chosen)
               report == Report("points", chosen, e.list)
    <2>1. n \in Reporters /\ e.list \in Seq(ReportPoint)
      BY <1>2 DEF Maybe
    <2>2. PushedSays(with) /\ with.reporters[n] # NoReporter
      BY <2>1, RegisteredSays
    <2>3. MetricsEntry(acc, e) =
             IF result.ok THEN EntryStored(with, n, result.deps, report)
             ELSE [with EXCEPT !.list = @ \cup {<<"rejected", n>>}]
      BY <1>2 DEF MetricsEntry
    <2>4. chosen \in {Defaults, Custom}
      BY DEF Settings
    <2> HIDE DEF chosen
    <2>5. /\ result.deps \in Seq(Facts) /\ report \in AllReports
          /\ result.ok => Faithful(result.deps, report)
      BY <2>1, <2>4, PointsFit, PointsSay, ReportIs
    <2> HIDE DEF n, with, result, report
    <2>6. result.ok => PushedSays(EntryStored(with, n, result.deps, report))
      BY <2>1, <2>2, <2>5, EntryStoredSays
    <2>7. PushedSays([with EXCEPT !.list = with.list \cup {<<"rejected", n>>}])
      BY <2>2, ListSays
    <2> QED
      BY <2>3, <2>6, <2>7
  <1> QED
    BY <1>1, <1>2

LEMMA TracesEntrySays ==
    ASSUME NEW acc, PushedSays(acc), NEW e \in [name : Maybe(Reporters), list : Seq(ReportSpan)],
           \A j, k \in DOMAIN e.list : e.list[j].id = e.list[k].id => j = k
    PROVE  PushedSays(TracesEntry(acc, e))
  <1>1. CASE e.name = Absent
    BY <1>1, ListSays DEF TracesEntry, Nameless
  <1>2. CASE e.name # Absent
    <2> DEFINE n == e.name
               with == Registered(acc, n)
               kept == with.parser \cup Unnamed(e.list)
               more == with.list \cup kept
               warned == [with EXCEPT !.parser = kept, !.list = more]
               deps == Bridged(TraceDependencies(e.list))
               report == Report("spans", Defaults, e.list)
    <2>1. n \in Reporters /\ e.list \in Seq(ReportSpan)
      BY <1>2 DEF Maybe
    <2>2. PushedSays(with) /\ with.reporters[n] # NoReporter
      BY <2>1, RegisteredSays
    <2>3. TracesEntry(acc, e) = EntryStored(warned, n, deps, report)
      BY <1>2 DEF TracesEntry
    <2>4. deps \in Seq(Facts) /\ report \in AllReports /\ Faithful(deps, report)
      BY <2>1, SpansFit, BridgedFits, BridgedSays, ReportIs
    <2> HIDE DEF n, with, kept, more, deps, report
    <2>5. PushedSays(warned) /\ warned.reporters = with.reporters
      BY <2>2, ListSays
    <2> HIDE DEF warned
    <2> QED
      BY <2>1, <2>2, <2>3, <2>4, <2>5, EntryStoredSays
  <1> QED
    BY <1>1, <1>2

LEMMA MetricsPushedSays ==
    ASSUME NEW base, PushedSays(base), NEW request \in MetricPushes
    PROVE  PushedSays(FoldLeft(MetricsEntry, base, request))
  <1> DEFINE n == Len(request)
  <1>1. /\ n \in Nat /\ DOMAIN request = 1..n
        /\ \A k \in 1..n : request[k] \in [name : Maybe(Reporters), list : Seq(ReportPoint)]
    <2> DEFINE Entry == [name : Maybe(Reporters), list : Seq(ReportPoint)]
    <2>1. request \in Seq(Entry)
      BY ReportConstants DEF Pushes
    <2> HIDE DEF Entry
    <2>2. /\ n \in Nat /\ DOMAIN request = 1..n
          /\ \A k \in 1..n : request[k] \in Entry
      BY <2>1
    <2> QED
      BY <2>2 DEF Entry
  <1>2. PICK r : StageOf(r, "metrics", base, request, n) /\ Folded("metrics", base, request) = r[n]
    BY <1>1, FoldStages
  <1> DEFINE T == {k \in 0..n : PushedSays(r[k])}
  <1>3. 0 \in T
    BY <1>1, <1>2 DEF StageOf
  <1>4. ASSUME NEW k \in 0..n, k \in T, k < n
        PROVE  k + 1 \in T
    <2>1. k + 1 \in 1..n /\ PushedSays(r[k])
      BY <1>1, <1>4
    <2>2. r[k + 1] = MetricsEntry(r[k], request[k + 1])
      <3>1. r[k + 1] = Step("metrics", r[(k + 1) - 1], request[k + 1])
        BY <1>2, <2>1 DEF StageOf
      <3> QED
        BY <1>1, <3>1 DEF Step
    <2>3. SaidOnce(Range(request[k + 1].list))
      <3>1. request[k + 1] \in Range(request)
        BY <1>1, <2>1 DEF Range
      <3> QED
        BY <3>1, ReportsSayOnce
    <2>4. PushedSays(MetricsEntry(r[k], request[k + 1]))
      BY <1>1, <2>1, <2>3, MetricsEntrySays
    <2> QED
      BY <1>1, <2>1, <2>2, <2>4
  <1>5. n \in T
    <2> HIDE DEF T, n
    <2> QED
      BY <1>1, <1>3, <1>4, UpTo
  <1>6. FoldLeft(MetricsEntry, base, request) = Folded("metrics", base, request)
    BY <1>1, MetricsFold
  <1> QED
    BY <1>2, <1>5, <1>6

LEMMA TracesPushedSays ==
    ASSUME NEW base, PushedSays(base), NEW request \in TracePushes
    PROVE  PushedSays(FoldLeft(TracesEntry, base, request))
  <1> DEFINE n == Len(request)
  <1>1. /\ n \in Nat /\ DOMAIN request = 1..n
        /\ \A k \in 1..n : request[k] \in [name : Maybe(Reporters), list : Seq(ReportSpan)]
    <2> DEFINE Entry == [name : Maybe(Reporters), list : Seq(ReportSpan)]
    <2>1. request \in Seq(Entry)
      BY ReportConstants DEF Pushes
    <2> HIDE DEF Entry
    <2>2. /\ n \in Nat /\ DOMAIN request = 1..n
          /\ \A k \in 1..n : request[k] \in Entry
      BY <2>1
    <2> QED
      BY <2>2 DEF Entry
  <1>2. PICK r : StageOf(r, "traces", base, request, n) /\ Folded("traces", base, request) = r[n]
    BY <1>1, FoldStages
  <1> DEFINE T == {k \in 0..n : PushedSays(r[k])}
  <1>3. 0 \in T
    BY <1>1, <1>2 DEF StageOf
  <1>4. ASSUME NEW k \in 0..n, k \in T, k < n
        PROVE  k + 1 \in T
    <2>1. k + 1 \in 1..n /\ PushedSays(r[k])
      BY <1>1, <1>4
    <2>2. r[k + 1] = TracesEntry(r[k], request[k + 1])
      <3>1. r[k + 1] = Step("traces", r[(k + 1) - 1], request[k + 1])
        BY <1>2, <2>1 DEF StageOf
      <3> QED
        BY <1>1, <3>1 DEF Step
    <2> DEFINE e == request[k + 1]
    <2>3. \A i, j \in DOMAIN e.list : e.list[i].id = e.list[j].id => i = j
      <3>1. e \in Range(request)
        BY <1>1, <2>1 DEF Range
      <3> HIDE DEF e
      <3> QED
        BY <3>1, ReportsSayOnce
    <2>4. PushedSays(TracesEntry(r[k], request[k + 1]))
      BY <1>1, <2>1, <2>3, TracesEntrySays
    <2> QED
      BY <1>1, <2>1, <2>2, <2>4
  <1>5. n \in T
    <2> HIDE DEF T, n
    <2> QED
      BY <1>1, <1>3, <1>4, UpTo
  <1>6. FoldLeft(TracesEntry, base, request) = Folded("traces", base, request)
    BY <1>1, TracesFold
  <1> QED
    BY <1>2, <1>5, <1>6

SaidInv == ReportInv /\ Agreed(depRows, said)

LEMMA PollSays ==
    ASSUME SaidInv, NEW n \in EditedReporters,
           NEW result, result.deps \in Seq(Facts), NEW report \in AllReports,
           IF result.ok THEN Faithful(result.deps, report) ELSE result.deps = <<>>,
           PollStored(n, result, report)
    PROVE  Agreed(depRows, said)'
  <1>1. n \in Reporters /\ Agreed(depRows, said)
    BY ReportConstants DEF SaidInv
  <1>2. depRows' = [depRows EXCEPT ![n] = Upserted(@, result.deps)]
    BY DEF PollStored
  <1>3. CASE result.ok
    <2>1. said' = [said EXCEPT ![n] = [d \in ReportedDeps |->
                      IF d \in Names(report) THEN report ELSE @[d]]]
      BY <1>3 DEF PollStored, Heeded
    <2> DEFINE deps == result.deps
               found == [depRows EXCEPT ![n] = Upserted(@, deps)]
               last == [said EXCEPT ![n] = [d \in ReportedDeps |->
                          IF d \in Names(report) THEN report ELSE @[d]]]
    <2>2. Agreed(found, last)
      <3>1. deps \in Seq(Facts) /\ Faithful(deps, report)
        BY <1>3
      <3> HIDE DEF deps
      <3> QED
        BY <1>1, <3>1, StoredAgrees
    <2>3. depRows' = found /\ said' = last
      BY <1>2, <2>1
    <2> HIDE DEF found, last
    <2> QED
      BY <2>2, <2>3
  <1>4. CASE ~ result.ok
    <2>1. Upserted(depRows[n], result.deps) = depRows[n]
      BY <1>4, NothingUpserted
    <2>2. depRows' = depRows
      BY <1>1, <1>2, <2>1 DEF Agreed, RowsOfReporters
    <2>3. said' = said
      BY <1>4 DEF PollStored
    <2> QED
      BY <1>1, <2>2, <2>3
  <1> QED
    BY <1>3, <1>4

LEMMA SaidSteps ==
    ASSUME SaidInv, [ReportNext]_reportVars
    PROVE  SaidInv'
  <1>0. ReportInv'
    BY ReportSteps DEF SaidInv
  <1>1. CASE UNCHANGED <<depRows, said>>
    BY <1>0, <1>1 DEF SaidInv
  <1>4. ASSUME NEW n \in EditedReporters, DeleteReporter(n)
        PROVE  SaidInv'
    <2>1. /\ depRows' = [depRows EXCEPT ![n] = NoRows]
          /\ said' = [said EXCEPT ![n] = NoRows]
      BY <1>4 DEF DeleteReporter
    <2>2. /\ n \in Reporters /\ NoRows \in RowsOfReporter /\ NoRows \in SaidOfReporter
          /\ \A d \in ReportedDeps : Agree(NoRows[d], NoRows[d], d)
      BY ReportConstants DEF NoRows, RowsOfReporter, SaidOfReporter, Maybe, Agree
    <2>3. /\ depRows' \in RowsOfReporters /\ depRows'[n] = NoRows
          /\ \A k \in Reporters : k # n => depRows'[k] = depRows[k]
      BY <2>1, <2>2 DEF SaidInv, Agreed, RowsOfReporters
    <2>4. /\ said' \in SaidOfReporters /\ said'[n] = NoRows
          /\ \A k \in Reporters : k # n => said'[k] = said[k]
      BY <2>1, <2>2 DEF SaidInv, Agreed, SaidOfReporters
    <2>5. Agreed(depRows', said')
      BY <2>2, <2>3, <2>4 DEF SaidInv, Agreed
    <2> QED
      BY <1>0, <2>5 DEF SaidInv
  <1>5. ASSUME NEW n \in EditedReporters, NEW body \in Items, PollJson(n, body)
        PROVE  SaidInv'
    <2> DEFINE s == reporters[n]
               result == CASE s.schema = "none" -> ParseDefault(body)
                           [] s.schema = "mapping" -> ParseMapped(body)
                           [] s.schema = "metric" -> Refused
               how == IF s.schema = "none" THEN "default" ELSE "mapped"
               report == Report(how, Defaults, body.items)
    <2>1. s.format \in Formats /\ PollStored(n, result, report)
      BY <1>5 DEF PollJson, Formats
    <2>2. s.schema \in Schemas
      BY <2>1, ReportConstants, IsThere
         DEF SaidInv, ReportInv, RowsBelong, ReporterRows, ReporterRow, NoReporter, Schemas
    <2>3. Refused.deps = <<>> /\ Refused.deps \in Seq(Facts) /\ ~ Refused.ok
      BY DEF Refused
    <2>4. body.items \in Seq(ReportItem)
      BY ReportConstants
    <2>5. report \in AllReports
      <3>1. how \in {"default", "mapped", "text", "points", "spans"}
        OBVIOUS
      <3> HIDE DEF how
      <3> QED
        BY <2>4, <3>1, ReportIs
    <2>6. /\ result.deps \in Seq(Facts)
          /\ IF result.ok THEN Faithful(result.deps, report) ELSE result.deps = <<>>
      <3>1. CASE s.schema = "none"
        <4>1. result = ParseDefault(body) /\ report = Report("default", Defaults, body.items)
          BY <3>1
        <4>2. ~ ParseDefault(body).ok => ParseDefault(body) = Refused
          BY DEF ParseDefault, Parsed
        <4> HIDE DEF result, report
        <4> QED
          BY <2>3, <4>1, <4>2, DefaultsFit, DefaultSays
      <3>2. CASE s.schema = "mapping"
        <4>1. result = ParseMapped(body) /\ report = Report("mapped", Defaults, body.items)
          BY <3>2
        <4>2. ~ ParseMapped(body).ok => ParseMapped(body) = Refused
          <5>1. body.root = "none" => ParseMapped(body) = Refused
            BY DEF ParseMapped
          <5> QED
            BY <5>1, MappedIsHeeded
        <4> HIDE DEF result, report
        <4> QED
          BY <2>3, <4>1, <4>2, MappedFit, MappedSays
      <3>3. CASE s.schema = "metric"
        <4>1. result = Refused
          BY <3>3
        <4> HIDE DEF result, report
        <4> QED
          BY <2>3, <4>1
      <3> QED
        BY <2>2, <3>1, <3>2, <3>3 DEF Schemas
    <2> HIDE DEF result, report
    <2> QED
      BY <1>0, <2>1, <2>5, <2>6, PollSays DEF SaidInv
  <1>6. ASSUME NEW n \in EditedReporters, NEW lines \in Texts, PollText(n, lines)
        PROVE  SaidInv'
    <2> DEFINE chosen == Settings(reporters[n].schema)
               result == ParseText(lines, chosen)
               report == Report("text", chosen, lines)
    <2>1. PollStored(n, result, report)
      BY <1>6 DEF PollText
    <2>2. chosen \in {Defaults, Custom} /\ lines \in Seq(ReportPoint)
      BY ReportConstants DEF Settings
    <2> HIDE DEF chosen
    <2>3. /\ result.deps \in Seq(Facts) /\ report \in AllReports
          /\ result.ok /\ Faithful(result.deps, report)
      BY <2>2, TextFits, TextSays, ReportIs
    <2> HIDE DEF result, report
    <2> QED
      BY <1>0, <2>1, <2>3, PollSays DEF SaidInv
  <1> DEFINE base == [reporters |-> reporters, depRows |-> depRows, said |-> said,
                      warnings |-> pollWarnings, parser |-> spanWarnings, list |-> {}]
  <1>7. PushedSays(base)
    <2>1. Pushed(base) /\ base.depRows = depRows /\ base.said = said
      BY DEF Pushed, ReportInv, SaidInv
    <2> HIDE DEF base
    <2> QED
      BY <2>1 DEF PushedSays, SaidInv
  <1>8. ASSUME NEW request \in MetricPushes, PushMetrics(request)
        PROVE  SaidInv'
    <2> DEFINE acc == FoldLeft(MetricsEntry, base, request)
    <2>1. depRows' = acc.depRows /\ said' = acc.said
      BY <1>8 DEF PushMetrics, Received
    <2> HIDE DEF base
    <2>2. PushedSays(acc)
      BY <1>7, MetricsPushedSays
    <2> HIDE DEF acc
    <2> QED
      BY <1>0, <2>1, <2>2 DEF PushedSays, SaidInv
  <1>9. ASSUME NEW request \in TracePushes, PushTraces(request)
        PROVE  SaidInv'
    <2> DEFINE acc == FoldLeft(TracesEntry, base, request)
    <2>1. depRows' = acc.depRows /\ said' = acc.said
      BY <1>9 DEF PushTraces, Received
    <2> HIDE DEF base
    <2>2. PushedSays(acc)
      BY <1>7, TracesPushedSays
    <2> HIDE DEF acc
    <2> QED
      BY <1>0, <2>1, <2>2 DEF PushedSays, SaidInv
  <1> QED
    BY <1>1, <1>4, <1>5, <1>6, <1>8, <1>9
       DEF ReportNext, reportVars, CreateReporter, UpdateReporter, RestartReceiver

LEMMA SaidStarts == ReportInit => SaidInv
  <1> SUFFICES ASSUME ReportInit
               PROVE  SaidInv
    OBVIOUS
  <1>1. /\ NoRows \in RowsOfReporter /\ NoRows \in SaidOfReporter
        /\ \A d \in ReportedDeps : Agree(NoRows[d], NoRows[d], d)
    BY DEF NoRows, RowsOfReporter, SaidOfReporter, Maybe, Agree
  <1>2. /\ depRows = [n \in Reporters |-> NoRows] /\ said = [n \in Reporters |-> NoRows]
    BY DEF ReportInit
  <1>3. Agreed(depRows, said)
    BY <1>1, <1>2 DEF Agreed, RowsOfReporters, SaidOfReporters
  <1> QED
    BY <1>3, ReportStarts DEF SaidInv

LEMMA SaidIsRead == SaidInv => RowsSayReport /\ PercentilesInOrder
  <1> SUFFICES ASSUME SaidInv
               PROVE  RowsSayReport /\ PercentilesInOrder
    OBVIOUS
  <1>1. ASSUME NEW n \in Reporters, NEW d \in ReportedDeps
        PROVE  Agree(depRows[n][d], said[n][d], d)
    BY DEF SaidInv, Agreed
  <1>2. RowsSayReport
    BY <1>1 DEF RowsSayReport, Agree, Says
  <1>3. PercentilesInOrder
    <2>1. ASSUME NEW n \in Reporters, NEW d \in ReportedDeps, depRows[n][d] # Absent
          PROVE  InOrder(depRows[n][d].percentiles, said[n][d], d)
      BY <1>1, <2>1 DEF Agree, Says
    <2> QED
      BY <2>1 DEF PercentilesInOrder, InOrder
  <1> QED
    BY <1>2, <1>3

\* Every row says what the last report that names its dependency means, and its
\* percentiles are in order, for reports and pushes of any length.
THEOREM ReportsSayWhatTheyMean == ReportSpec => [](RowsSayReport /\ PercentilesInOrder)
  <1>1. SaidInv /\ [ReportNext]_reportVars => SaidInv'
    BY SaidSteps
  <1> QED
    BY <1>1, SaidStarts, SaidIsRead, PTL DEF ReportSpec
=============================================================================
