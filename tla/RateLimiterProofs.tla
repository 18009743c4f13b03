-------------------------- MODULE RateLimiterProofs --------------------------
(***************************************************************************)
(* Theorems about RateLimiter: for any number of requests, paths and       *)
(* addresses, any rate, any burst, any time after which idle buckets go,   *)
(* and clock readings that reach the buckets in any order.                 *)
(***************************************************************************)
EXTENDS RateLimiter, FiniteSetTheorems, TLAPS

KeyOf(r) == <<call[r].path, ClientKey(call[r])>>

Granted(path, a, from, to) == {r \in Allowed(path, a) : at[r] \in from..to}

(***************************************************************************)
(* What a bucket has taken from a window that begins at from.  The balance *)
(* of a bucket grows by no more than Rate from one reading to the next,    *)
(* forwards and backwards, and pays for every request that it lets in; so  *)
(* the bucket's last reading and its balance bound what was let in since   *)
(* from.  A bucket that is dropped may have lacked up to Early of being    *)
(* full at any reading that can still come.                                *)
(***************************************************************************)
Owed(k, from) ==
    IF k \in DOMAIN buckets
    THEN Burst + Rate * (buckets[k].last - from) - buckets[k].tokens
    ELSE Rate * (now - MaxWait - from)

\* The readings a bucket has served, or all that can still come, have got to x.
Reached(k, x) ==
    IF k \in DOMAIN buckets
    THEN \E g \in Requests : outcome[g] = "allowed" /\ KeyOf(g) = k /\ x <= at[g]
    ELSE x <= now - MaxWait

\* A window into which a reading can still fall has met d drops of the bucket, each an
\* Idle after the one before.
WindowsPaid ==
    \A path \in Paths, a \in Addresses \ Trusted : \A from, to \in Nat :
        LET G == Granted(path, a, from, to)
        IN  G # {} /\ now <= to + MaxWait =>
              \E d \in Nat :
                 /\ from + Idle * d <= to /\ Reached(<<path, a>>, from + Idle * d)
                 /\ Cost * Cardinality(G) <= Owed(<<path, a>>, from) + Early * d

Allotted(from, to) == Burst + Rate * (to - from) + Early * ((to - from) \div Idle)

WindowsBounded ==
    \A path \in Paths, a \in Addresses \ Trusted : \A from, to \in Nat :
        from <= to => Cost * Cardinality(Granted(path, a, from, to)) <= Allotted(from, to)

ReadingsInTime ==
    \A r \in Requests :
        /\ outcome[r] # "none" => call[r] \in Calls /\ at[r] <= now
        /\ outcome[r] = "arrived" => now <= at[r] + MaxWait

\* A bucket has at least what it was refilled since one of the requests it let in, and
\* its last reading is not much older than that request's.
BucketsSpent ==
    \A k \in DOMAIN buckets :
        /\ buckets[k].last <= now
        /\ \E g \in Requests :
             /\ outcome[g] = "allowed" /\ KeyOf(g) = k
             /\ buckets[k].tokens >= Rate * (buckets[k].last - at[g])
             /\ buckets[k].last + MaxWait >= at[g]

\* The last reading of a bucket is not much older than any that it served, or that a
\* bucket before it did.
ReadingsFollow ==
    \A k \in DOMAIN buckets, g \in Requests :
        outcome[g] = "allowed" /\ KeyOf(g) = k => at[g] <= buckets[k].last + MaxWait

FinitelyMany == IsFiniteSet({r \in Requests : outcome[r] = "allowed"})

LimiterInv ==
    /\ TypeOK
    /\ ReadingsInTime
    /\ FinitelyMany
    /\ BucketsSpent
    /\ ReadingsFollow
    /\ RefusedOnlyWhenSpent
    /\ WindowsPaid
    /\ WindowsBounded
-----------------------------------------------------------------------------
(***************************************************************************)
(* Arithmetic.                                                             *)
(***************************************************************************)
\* Refills are integers, add up, and grow with time.
LEMMA Refills ==
    /\ \A d \in Int : Rate * d \in Int /\ d * Rate = Rate * d
    /\ \A d, e \in Int : Rate * (d + e) = Rate * d + Rate * e
    /\ \A d, e \in Int : d <= e => Rate * d <= Rate * e
    /\ \A d \in Int : 0 <= d => 0 <= Rate * d
    /\ Rate * 0 = 0
BY LimiterAssumption

\* What is refilled between two readings, by way of a third, and by a later one.
LEMMA Between ==
    ASSUME NEW x \in Int, NEW y \in Int, NEW z \in Int
    PROVE  /\ Rate * (x - z) \in Int /\ Rate * (x - y) \in Int /\ Rate * (y - z) \in Int
           /\ Rate * (x - z) = Rate * (x - y) + Rate * (y - z)
           /\ x <= y => Rate * (x - z) <= Rate * (y - z)
BY LimiterAssumption

\* A burst lets at least one request in, and prices are natural numbers.
LEMMA BurstCovers == Cost \in Nat /\ Burst \in Nat /\ 0 < Cost /\ Cost <= Burst
<1>1. Cost \in Nat \ {0} /\ Burst \in Nat \ {0} /\ Burst % Cost = 0
  BY LimiterAssumption
<1>2. Burst < Cost => Burst % Cost = Burst
  BY <1>1
<1> QED  BY <1>1, <1>2

\* A request that is let in adds its price.
LEMMA Prices == \A n \in Nat : Cost * n \in Nat /\ Cost * (n + 1) = Cost * n + Cost /\ Cost * 0 = 0
BY BurstCovers

\* So does a drop.  What is refilled in an Idle, with Early, is a burst.
LEMMA Drops ==
    /\ Idle \in Nat /\ 0 < Idle /\ Idle * 0 = 0
    /\ Early \in Nat /\ Early * 0 = 0
    /\ Rate * Idle \in Int /\ Burst <= Rate * Idle + Early
    /\ \A d \in Nat : /\ Idle * d \in Nat /\ Idle * (d + 1) = Idle * d + Idle
                     /\ Early * d \in Nat /\ Early * (d + 1) = Early * d + Early
<1>1. Idle \in Nat /\ 0 < Idle
  BY LimiterAssumption DEF Idle
<1>2. Rate * Idle \in Int /\ Burst \in Nat
  BY <1>1, LimiterAssumption
<1>3. Early \in Nat /\ Burst <= Rate * Idle + Early
  BY <1>2 DEF Early
<1>4. \A e \in Nat : e * 0 = 0 /\ \A d \in Nat : e * d \in Nat /\ e * (d + 1) = e * d + e
  OBVIOUS
<1> QED  BY <1>1, <1>2, <1>3, <1>4

\* Drops an Idle apart are no more than there are Idles.
LEMMA DropsFit ==
    ASSUME NEW x \in Nat, NEW d \in Nat, Idle * d <= x
    PROVE  Early * d <= Early * (x \div Idle) /\ Early * (x \div Idle) \in Nat
<1>1. \A i \in Nat \ {0} : x \div i \in Nat /\ x < i * (x \div i + 1)
  OBVIOUS
<1>2. x \div Idle \in Nat /\ x < Idle * (x \div Idle + 1)
  BY <1>1, Drops
<1>3. \A i \in Nat \ {0}, q \in Nat : i * d < i * (q + 1) => d <= q
  OBVIOUS
<1>4. Idle * (x \div Idle + 1) \in Int /\ Idle * d \in Int
  BY <1>2, Drops
<1>5. d <= x \div Idle
  BY <1>2, <1>3, <1>4, Drops
<1>6. \A e, q \in Nat : e * q \in Nat /\ (d <= q => e * d <= e * q)
  OBVIOUS
<1> QED  BY <1>2, <1>5, <1>6, Drops

\* What a window may get is an integer, no less than a burst.
LEMMA Allotment ==
    ASSUME NEW from \in Nat, NEW to \in Nat, from <= to
    PROVE  /\ Allotted(from, to) \in Int /\ Allotted(from, to) >= 0
           /\ to - from \in Nat /\ Rate * (to - from) \in Int
<1>1. to - from \in Nat
  OBVIOUS
<1>2. Rate * (to - from) \in Int /\ 0 <= Rate * (to - from)
  BY <1>1, Refills
<1>3. Early * ((to - from) \div Idle) \in Nat
  <2>1. Idle * 0 <= to - from
    BY <1>1, Drops
  <2> QED  BY <1>1, <2>1, DropsFit
<1> QED  BY <1>1, <1>2, <1>3, BurstCovers DEF Allotted
-----------------------------------------------------------------------------
(***************************************************************************)
(* What Allow works with: the bucket a request finds or gets, and its      *)
(* balance at the request's reading.                                       *)
(***************************************************************************)
Found(r) == IF KeyOf(r) \in Kept(at[r]) THEN buckets[KeyOf(r)] ELSE Full(at[r])
Balance(r) == Refilled(Found(r), at[r])

\* The balance is what the bucket had and a refill from its last reading to this one,
\* capped; a new bucket has a burst.
LEMMA Balances ==
    ASSUME LimiterInv, NEW r \in Requests, Allow(r)
    PROVE  /\ at[r] \in Nat /\ at[r] <= now /\ now <= at[r] + MaxWait /\ now \in Nat
           /\ call[r] \in Calls /\ KeyOf(r) \in Keys
           /\ Balance(r) \in Int /\ Balance(r) <= Burst
           /\ KeyOf(r) \in Kept(at[r]) =>
                LET b == buckets[KeyOf(r)]
                IN  /\ b.tokens \in Int /\ b.last \in Nat
                    /\ Balance(r) <= b.tokens + Rate * (at[r] - b.last)
                    /\ Balance(r) < Burst => Balance(r) = b.tokens + Rate * (at[r] - b.last)
           /\ KeyOf(r) \notin Kept(at[r]) => Balance(r) = Burst
<1>1. /\ outcome[r] = "arrived" /\ at[r] \in Nat /\ now \in Nat /\ call[r] \in Calls
      /\ at[r] <= now /\ now <= at[r] + MaxWait
  BY DEF Allow, LimiterInv, TypeOK, ReadingsInTime
<1>2. KeyOf(r) \in Keys
  BY <1>1 DEF KeyOf, ClientKey, Keys, Calls
<1>3. CASE KeyOf(r) \in Kept(at[r])
  <2>1. KeyOf(r) \in DOMAIN buckets /\ Found(r) = buckets[KeyOf(r)]
    BY <1>3 DEF Kept, Found
  <2>2. buckets[KeyOf(r)].tokens \in Int /\ buckets[KeyOf(r)].last \in Nat
    BY <2>1 DEF LimiterInv, TypeOK
  <2>3. /\ Rate * (at[r] - buckets[KeyOf(r)].last) \in Int
        /\ (at[r] - buckets[KeyOf(r)].last) * Rate = Rate * (at[r] - buckets[KeyOf(r)].last)
    BY <1>1, <2>2, LimiterAssumption
  <2> QED  BY <1>1, <1>2, <1>3, <2>1, <2>2, <2>3, BurstCovers DEF Balance, Refilled
<1>4. CASE KeyOf(r) \notin Kept(at[r])
  <2>1. Found(r) = [tokens |-> Burst, last |-> at[r]]
    BY <1>4 DEF Found, Full
  <2>2. (at[r] - at[r]) * Rate = 0
    BY <1>1, Refills
  <2>3. Balance(r) = Burst
    BY <2>1, <2>2, BurstCovers DEF Balance, Refilled
  <2> QED  BY <1>1, <1>2, <1>4, <2>3, BurstCovers
<1> QED  BY <1>3, <1>4

\* What Allow does, in these terms.
LEMMA AllowStep ==
    ASSUME LimiterInv, NEW r \in Requests, Allow(r)
    PROVE  /\ outcome[r] = "arrived"
           /\ outcome' = [outcome EXCEPT ![r] = IF Balance(r) < Cost THEN "refused" ELSE "allowed"]
           /\ DOMAIN buckets' = Kept(at[r]) \cup {KeyOf(r)}
           /\ \A j \in Kept(at[r]) \ {KeyOf(r)} : j \in DOMAIN buckets /\ buckets'[j] = buckets[j]
           /\ buckets'[KeyOf(r)].last = at[r]
           /\ buckets'[KeyOf(r)].tokens = IF Balance(r) < Cost THEN Balance(r) ELSE Balance(r) - Cost
           /\ lastTrim' \in {lastTrim, at[r]}
           /\ UNCHANGED <<now, call, at>>
<1>1. buckets' = [j \in Kept(at[r]) \cup {KeyOf(r)} |->
                    IF j # KeyOf(r) THEN buckets[j]
                    ELSE IF Balance(r) < Cost THEN Refused(Found(r), at[r])
                    ELSE [tokens |-> Balance(r) - Cost, last |-> at[r]]]
  BY DEF Allow, KeyOf, Found, Balance
<1>2. Kept(at[r]) \subseteq DOMAIN buckets
  BY DEF Kept
<1>3. Refused(Found(r), at[r]) = [tokens |-> Balance(r), last |-> at[r]]
  BY DEF Refused, Balance
<1>4. /\ outcome[r] = "arrived"
      /\ outcome' = [outcome EXCEPT ![r] = IF Balance(r) < Cost THEN "refused" ELSE "allowed"]
      /\ lastTrim' \in {lastTrim, at[r]} /\ UNCHANGED <<now, call, at>>
  BY DEF Allow, KeyOf, Found, Balance
<1> QED  BY <1>1, <1>2, <1>3, <1>4

\* A step that changes no outcome but of a request that arrives keeps what was granted.
LEMMA GrantedKept ==
    ASSUME LimiterInv,
           \A r \in Requests : \/ outcome'[r] = outcome[r] /\ call'[r] = call[r] /\ at'[r] = at[r]
                               \/ outcome[r] # "allowed" /\ outcome'[r] # "allowed"
    PROVE  /\ FinitelyMany'
           /\ \A path, a, from, to : Granted(path, a, from, to)' = Granted(path, a, from, to)
<1>1. {r \in Requests : outcome'[r] = "allowed"} = {r \in Requests : outcome[r] = "allowed"}
  OBVIOUS
<1> QED  BY <1>1 DEF LimiterInv, FinitelyMany, Granted, Allowed

\* What was granted in a window is a finite set.
LEMMA GrantedFinite ==
    ASSUME FinitelyMany, NEW path, NEW a, NEW from, NEW to
    PROVE  /\ IsFiniteSet(Granted(path, a, from, to))
           /\ Cardinality(Granted(path, a, from, to)) \in Nat
<1>1. Granted(path, a, from, to) \in SUBSET {r \in Requests : outcome[r] = "allowed"}
  BY DEF Granted, Allowed
<1> QED  BY <1>1, FS_Subset, FS_CardinalityType DEF FinitelyMany
-----------------------------------------------------------------------------
(***************************************************************************)
(* What the windows of a bucket owe.                                       *)
(***************************************************************************)
\* A debt is an integer.
LEMMA OwedInt ==
    ASSUME TypeOK, NEW k, NEW from \in Nat
    PROVE  Owed(k, from) \in Int
<1>1. k \in DOMAIN buckets => buckets[k].last \in Nat /\ buckets[k].tokens \in Int
  BY DEF TypeOK
<1>2. \A x \in Int : Rate * (x - from) \in Int
  BY LimiterAssumption
<1>3. now - MaxWait \in Int /\ Burst \in Int
  BY LimiterAssumption DEF TypeOK
<1>4. CASE k \in DOMAIN buckets
  <2>0. buckets[k].last - from \in Int
    BY <1>1, <1>4
  <2>1. Rate * (buckets[k].last - from) \in Int
    BY <2>0, Refills
  <2>2. Owed(k, from) = Burst + Rate * (buckets[k].last - from) - buckets[k].tokens
    BY <1>4 DEF Owed
  <2> QED  BY <1>1, <1>3, <1>4, <2>1, <2>2
<1>5. CASE k \notin DOMAIN buckets
  <2>1. Owed(k, from) = Rate * (now - MaxWait - from)
    BY <1>5 DEF Owed
  <2> QED  BY <1>2, <1>3, <2>1
<1> QED  BY <1>4, <1>5

\* A bucket that is dropped has no more than Early to it beyond what any reading to come
\* will bring, and every reading it served is more than an Idle older.
LEMMA DroppedIsPaid ==
    ASSUME LimiterInv, NEW k \in DOMAIN buckets, NEW t \in Nat, k \notin Kept(t), NEW from \in Nat
    PROVE  /\ Owed(k, from) <= Rate * (t - MaxWait - from) + Early
           /\ \A g \in Requests : outcome[g] = "allowed" /\ KeyOf(g) = k => at[g] + Idle <= t - MaxWait
<1> DEFINE last == buckets[k].last
           tokens == buckets[k].tokens
<1>1. last \in Nat /\ tokens \in Int /\ MaxWait \in Nat /\ KeepFor \in Nat /\ Burst \in Nat
  BY LimiterAssumption DEF LimiterInv, TypeOK
<1>2. last + KeepFor < t
  BY <1>1 DEF Kept
<1>3. PICK g \in Requests : tokens >= Rate * (last - at[g]) /\ last + MaxWait >= at[g]
  BY DEF LimiterInv, BucketsSpent
<1>4. at[g] \in Nat
  BY DEF LimiterInv, TypeOK
<1>5. Rate * (last - at[g]) >= Rate * (0 - MaxWait) /\ Rate * (last - at[g]) \in Int /\ Rate * (0 - MaxWait) \in Int
  <2>1. 0 - MaxWait \in Int /\ last - at[g] \in Int /\ 0 - MaxWait <= last - at[g]
    BY <1>1, <1>3, <1>4
  <2> QED  BY <2>1, Refills
<1>6. Rate * (KeepFor - 2 * MaxWait) + Early >= Burst /\ Rate * (KeepFor - 2 * MaxWait) \in Int
  BY Drops DEF Idle
<1>7. Rate * (last - from) + Rate * (KeepFor - 2 * MaxWait) - Rate * (0 - MaxWait)
        = Rate * (last + KeepFor - MaxWait - from)
  BY <1>1, LimiterAssumption
<1>8. Rate * (last + KeepFor - MaxWait - from) <= Rate * (t - MaxWait - from)
  <2>1. last + KeepFor - MaxWait - from \in Int /\ t - MaxWait - from \in Int
        /\ last + KeepFor - MaxWait - from <= t - MaxWait - from
    BY <1>1, <1>2
  <2> QED  BY <2>1, Refills
<1>9. Owed(k, from) = Burst + Rate * (last - from) - tokens
  BY DEF Owed
<1>10. /\ Rate * (last - from) \in Int /\ Rate * (last + KeepFor - MaxWait - from) \in Int
       /\ Rate * (t - MaxWait - from) \in Int
  BY <1>1, LimiterAssumption
<1>11. Owed(k, from) <= Rate * (t - MaxWait - from) + Early
  BY <1>1, <1>3, <1>5, <1>6, <1>7, <1>8, <1>9, <1>10, Drops
<1>12. ASSUME NEW q \in Requests, outcome[q] = "allowed", KeyOf(q) = k PROVE at[q] + Idle <= t - MaxWait
  <2>1. at[q] \in Nat /\ at[q] <= last + MaxWait
    BY <1>12 DEF LimiterInv, TypeOK, ReadingsFollow
  <2> QED  BY <1>1, <1>2, <2>1 DEF Idle
<1> QED  BY <1>11, <1>12

\* What a bucket's windows owe may lack when r takes the mutex: Early, if r drops it.
Lacking(k, r) == IF k \in DOMAIN buckets \ Kept(at[r]) THEN Early ELSE 0

\* Apart from that Allow never lowers what a bucket's windows owe, and raises it by the
\* price of what it lets in.
LEMMA OwedGrows ==
    ASSUME LimiterInv, NEW r \in Requests, Allow(r), NEW k, NEW from \in Nat
    PROVE  /\ Owed(k, from)' + Lacking(k, r) >= Owed(k, from)
           /\ k = KeyOf(r) /\ Balance(r) >= Cost =>
                Owed(k, from)' + Lacking(k, r) >= Owed(k, from) + Cost
<1> DEFINE t == at[r]
           B == Balance(r)
<1>1. /\ t \in Nat /\ t <= now /\ now <= t + MaxWait /\ now \in Nat /\ MaxWait \in Nat
      /\ B \in Int /\ B <= Burst /\ Cost \in Nat /\ Burst \in Nat /\ 0 < Cost /\ Cost <= Burst
  BY Balances, BurstCovers, LimiterAssumption
<1>2. Owed(k, from) \in Int /\ TypeOK /\ Lacking(k, r) \in Nat
  BY OwedInt, Drops DEF LimiterInv, Lacking
<1>3. CASE k = KeyOf(r)
  <2>1. Owed(k, from)' = Burst + Rate * (t - from) - (IF B < Cost THEN B ELSE B - Cost)
    BY <1>3, AllowStep DEF Owed
  <2>2. Rate * (t - from) \in Int
    BY <1>1, LimiterAssumption
  <2>3. CASE k \in Kept(t)
    <3>1. /\ k \in DOMAIN buckets /\ buckets[k].tokens \in Int /\ buckets[k].last \in Nat
          /\ B <= buckets[k].tokens + Rate * (t - buckets[k].last)
      BY <1>3, <2>3, Balances DEF Kept
    <3>2. Owed(k, from) = Burst + Rate * (buckets[k].last - from) - buckets[k].tokens
      BY <3>1 DEF Owed
    <3>3. /\ Rate * (t - from) = Rate * (t - buckets[k].last) + Rate * (buckets[k].last - from)
          /\ Rate * (t - buckets[k].last) \in Int /\ Rate * (buckets[k].last - from) \in Int
      BY <1>1, <3>1, Between
    <3> QED  BY <1>1, <1>2, <2>1, <2>2, <3>1, <3>2, <3>3
  <2>4. CASE k \notin Kept(t)
    <3>1. B = Burst
      BY <1>3, <2>4, Balances
    <3>2. Owed(k, from)' = Rate * (t - from) + Cost
      BY <1>1, <2>1, <2>2, <3>1
    <3>3. Owed(k, from) <= Rate * (t - from) + Lacking(k, r)
      <4>1. CASE k \in DOMAIN buckets
        <5>1. Owed(k, from) <= Rate * (t - MaxWait - from) + Lacking(k, r)
          BY <1>1, <2>4, <4>1, DroppedIsPaid DEF Lacking
        <5>2. t - MaxWait - from \in Int /\ t - from \in Int /\ t - MaxWait - from <= t - from
          BY <1>1
        <5>3. Rate * (t - MaxWait - from) <= Rate * (t - from) /\ Rate * (t - MaxWait - from) \in Int
          BY <5>2, Refills
        <5> QED  BY <1>2, <2>2, <5>1, <5>3
      <4>2. CASE k \notin DOMAIN buckets
        <5>1. Owed(k, from) = Rate * (now - MaxWait - from)
          BY <4>2 DEF Owed
        <5>2. now - MaxWait - from \in Int /\ t - from \in Int /\ now - MaxWait - from <= t - from
          BY <1>1
        <5>3. Rate * (now - MaxWait - from) <= Rate * (t - from) /\ Rate * (now - MaxWait - from) \in Int
          BY <5>2, Refills
        <5> QED  BY <1>2, <2>2, <5>1, <5>3
      <4> QED  BY <4>1, <4>2
    <3> QED  BY <1>1, <1>2, <2>2, <3>2, <3>3
  <2> QED  BY <2>3, <2>4
<1>4. CASE k # KeyOf(r)
  <2>1. CASE k \in Kept(t)
    <3>1. k \in DOMAIN buckets /\ k \in DOMAIN buckets' /\ buckets'[k] = buckets[k]
      BY <1>4, <2>1, AllowStep
    <3>2. Owed(k, from)' = Owed(k, from)
      BY <3>1 DEF Owed
    <3> QED  BY <1>2, <1>4, <3>2
  <2>2. CASE k \notin Kept(t)
    <3>1. k \notin DOMAIN buckets' /\ now' = now
      BY <1>4, <2>2, AllowStep
    <3>2. Owed(k, from)' = Rate * (now - MaxWait - from)
      BY <3>1 DEF Owed
    <3>3. CASE k \in DOMAIN buckets
      <4>1. Owed(k, from) <= Rate * (t - MaxWait - from) + Lacking(k, r)
        BY <1>1, <2>2, <3>3, DroppedIsPaid DEF Lacking
      <4>2. t - MaxWait - from \in Int /\ now - MaxWait - from \in Int
            /\ t - MaxWait - from <= now - MaxWait - from
        BY <1>1
      <4>3. /\ Rate * (t - MaxWait - from) <= Rate * (now - MaxWait - from)
            /\ Rate * (t - MaxWait - from) \in Int /\ Rate * (now - MaxWait - from) \in Int
        BY <4>2, Refills
      <4> QED  BY <1>2, <1>4, <3>2, <4>1, <4>3
    <3>4. CASE k \notin DOMAIN buckets
      <4>1. Owed(k, from) = Rate * (now - MaxWait - from)
        BY <3>4 DEF Owed
      <4> QED  BY <1>2, <1>4, <3>2, <4>1
    <3> QED  BY <3>3, <3>4
  <2> QED  BY <2>1, <2>2
<1> QED  BY <1>3, <1>4

\* What a bucket's readings have reached they have reached after Allow, and an Idle more
\* if the bucket is dropped.
LEMMA ReachedGrows ==
    ASSUME LimiterInv, NEW r \in Requests, Allow(r), NEW k, NEW x \in Int, Reached(k, x)
    PROVE  /\ Reached(k, x)'
           /\ k \in DOMAIN buckets \ Kept(at[r]) => x + Idle <= now - MaxWait /\ Reached(k, x + Idle)'
<1> DEFINE t == at[r]
<1>1. /\ t \in Nat /\ t <= now /\ now <= t + MaxWait /\ now \in Nat /\ MaxWait \in Nat
      /\ Balance(r) \in Int /\ Cost <= Burst /\ Cost \in Nat /\ Idle \in Nat
      /\ KeyOf(r) \notin Kept(t) => Balance(r) = Burst
  BY Balances, BurstCovers, LimiterAssumption, Drops
<1>2. \A g \in Requests : at[g] \in Nat
  BY DEF LimiterInv, TypeOK
<1>3. /\ \A g \in Requests : outcome[g] = "allowed" =>
            outcome'[g] = "allowed" /\ KeyOf(g)' = KeyOf(g) /\ at'[g] = at[g]
      /\ KeyOf(r)' = KeyOf(r) /\ at'[r] = t /\ now' = now
      /\ KeyOf(r) \notin Kept(t) => outcome'[r] = "allowed"
      /\ DOMAIN buckets' = Kept(t) \cup {KeyOf(r)}
  <2>1. outcome \in [Requests -> {"none", "arrived", "allowed", "refused"}]
    BY DEF LimiterInv, TypeOK
  <2>2. /\ outcome[r] = "arrived" /\ call' = call /\ at' = at /\ now' = now
        /\ outcome' = [outcome EXCEPT ![r] = IF Balance(r) < Cost THEN "refused" ELSE "allowed"]
        /\ DOMAIN buckets' = Kept(t) \cup {KeyOf(r)}
    BY AllowStep
  <2>3. \A g \in Requests : KeyOf(g)' = KeyOf(g)
    BY <2>2 DEF KeyOf, ClientKey
  <2>4. \A g \in Requests : outcome[g] = "allowed" => outcome'[g] = "allowed"
    BY <2>1, <2>2
  <2>5. KeyOf(r) \notin Kept(t) => outcome'[r] = "allowed"
    <3>1. KeyOf(r) \notin Kept(t) => ~(Balance(r) < Cost)
      BY <1>1, BurstCovers
    <3> QED  BY <2>1, <2>2, <3>1
  <2> QED  BY <2>2, <2>3, <2>4, <2>5
\* A bucket that r creates, and one that nobody has, have reached what is still to come.
<1>4. ASSUME k \notin Kept(t), NEW y \in Int, y <= now - MaxWait PROVE Reached(k, y)'
  <2>1. CASE k = KeyOf(r)
    <3>1. y <= at'[r] /\ outcome'[r] = "allowed" /\ KeyOf(r)' = k /\ k \in DOMAIN buckets'
      BY <1>1, <1>3, <1>4, <2>1
    <3> QED  BY <3>1 DEF Reached
  <2>2. CASE k # KeyOf(r)
    BY <1>3, <1>4, <2>2 DEF Reached
  <2> QED  BY <2>1, <2>2
<1>5. CASE k \in Kept(t)
  <2>1. k \in DOMAIN buckets /\ k \in DOMAIN buckets'
    BY <1>3, <1>5 DEF Kept
  <2>2. PICK g \in Requests : outcome[g] = "allowed" /\ KeyOf(g) = k /\ x <= at[g]
    BY <2>1 DEF Reached
  <2>3. outcome'[g] = "allowed" /\ KeyOf(g)' = k /\ x <= at'[g]
    BY <1>3, <2>2
  <2> QED  BY <1>5, <2>1, <2>3 DEF Reached
<1>6. CASE k \in DOMAIN buckets \ Kept(t)
  <2>1. PICK g \in Requests : outcome[g] = "allowed" /\ KeyOf(g) = k /\ x <= at[g]
    BY <1>6 DEF Reached
  <2>2. at[g] + Idle <= t - MaxWait
    <3>1. 0 \in Nat
      OBVIOUS
    <3> QED  BY <1>1, <1>6, <2>1, <3>1, DroppedIsPaid
  <2>3. x <= now - MaxWait /\ x + Idle <= now - MaxWait /\ x + Idle \in Int
    BY <1>1, <1>2, <2>1, <2>2
  <2> QED  BY <1>4, <1>6, <2>3
<1>7. CASE k \notin DOMAIN buckets
  <2>1. x <= now - MaxWait /\ k \notin Kept(t)
    BY <1>7 DEF Reached, Kept
  <2> QED  BY <1>4, <1>7, <2>1
<1> QED  BY <1>5, <1>6, <1>7
-----------------------------------------------------------------------------
(***************************************************************************)
(* LimiterInv is inductive.                                                *)
(***************************************************************************)
\* Nothing is let in before the first request, and an empty window is within bounds.
LEMMA InitLimiter == Init => LimiterInv
<1> SUFFICES ASSUME Init PROVE LimiterInv
  OBVIOUS
<1>1. TypeOK
  BY DEF Init, TypeOK
<1>2. ReadingsInTime /\ BucketsSpent /\ ReadingsFollow /\ RefusedOnlyWhenSpent
  BY DEF Init, ReadingsInTime, BucketsSpent, ReadingsFollow, RefusedOnlyWhenSpent
<1>3. {r \in Requests : outcome[r] = "allowed"} = {}
  BY DEF Init
<1>4. \A path, a, from, to : Granted(path, a, from, to) = {}
  BY <1>3 DEF Granted, Allowed
<1>5. FinitelyMany
  BY <1>3, FS_EmptySet DEF FinitelyMany
<1>6. WindowsPaid
  BY <1>4 DEF WindowsPaid
<1>7. WindowsBounded
  <2> SUFFICES ASSUME NEW path \in Paths, NEW a \in Addresses \ Trusted, NEW from \in Nat, NEW to \in Nat,
                      from <= to
               PROVE  Cost * Cardinality(Granted(path, a, from, to)) <= Allotted(from, to)
    BY DEF WindowsBounded
  <2>1. Cost * Cardinality(Granted(path, a, from, to)) = 0
    BY <1>4, FS_EmptySet, Prices
  <2> QED  BY <2>1, Allotment
<1> QED  BY <1>1, <1>2, <1>5, <1>6, <1>7 DEF LimiterInv

\* Where nothing is granted, no request refused and no bucket touched, windows owe no less
\* as time goes on.
LEMMA QuietStep ==
    ASSUME LimiterInv, TypeOK', now <= now', UNCHANGED buckets,
           \A r \in Requests : \/ outcome'[r] = outcome[r] /\ call'[r] = call[r] /\ at'[r] = at[r]
                               \/ outcome[r] = "none" /\ outcome'[r] = "arrived"
    PROVE  /\ FinitelyMany' /\ BucketsSpent' /\ ReadingsFollow' /\ RefusedOnlyWhenSpent'
           /\ WindowsPaid' /\ WindowsBounded'
<1>1. /\ FinitelyMany'
      /\ \A path, a, from, to : Granted(path, a, from, to)' = Granted(path, a, from, to)
  <2>1. \A r \in Requests : \/ outcome'[r] = outcome[r] /\ call'[r] = call[r] /\ at'[r] = at[r]
                            \/ outcome[r] # "allowed" /\ outcome'[r] # "allowed"
    OBVIOUS
  <2> QED  BY <2>1, GrantedKept
<1>2. now \in Nat /\ now' \in Nat
  BY DEF LimiterInv, TypeOK
<1>3. \A g \in Requests : outcome[g] = "allowed" =>
        outcome'[g] = "allowed" /\ call'[g] = call[g] /\ at'[g] = at[g]
  OBVIOUS
<1>4. BucketsSpent'
  <2> SUFFICES ASSUME NEW k \in DOMAIN buckets
               PROVE  /\ buckets[k].last <= now'
                      /\ \E g \in Requests :
                           /\ outcome'[g] = "allowed" /\ KeyOf(g)' = k
                           /\ buckets[k].tokens >= Rate * (buckets[k].last - at'[g])
                           /\ buckets[k].last + MaxWait >= at'[g]
    BY DEF BucketsSpent
  <2>1. PICK g \in Requests :
             /\ outcome[g] = "allowed" /\ KeyOf(g) = k
             /\ buckets[k].tokens >= Rate * (buckets[k].last - at[g])
             /\ buckets[k].last + MaxWait >= at[g]
    BY DEF LimiterInv, BucketsSpent
  <2>2. outcome'[g] = "allowed" /\ KeyOf(g)' = k /\ at'[g] = at[g]
    BY <1>3, <2>1 DEF KeyOf, ClientKey
  <2>3. buckets[k].last <= now /\ buckets[k].last \in Nat
    BY DEF LimiterInv, BucketsSpent, TypeOK
  <2> QED  BY <1>2, <2>1, <2>2, <2>3
<1>5. RefusedOnlyWhenSpent'
  <2> SUFFICES ASSUME NEW r \in Requests, outcome'[r] = "refused"
               PROVE  \E g \in Requests :
                        /\ outcome'[g] = "allowed"
                        /\ call'[g].path = call'[r].path /\ ClientKey(call'[g]) = ClientKey(call'[r])
                        /\ Rate * (at'[r] - at'[g]) < Cost
    BY DEF RefusedOnlyWhenSpent, ClientKey
  <2>1. outcome[r] = "refused" /\ call'[r] = call[r] /\ at'[r] = at[r]
    OBVIOUS
  <2> QED  BY <1>3, <2>1 DEF LimiterInv, RefusedOnlyWhenSpent
<1>6. WindowsPaid'
  <2> SUFFICES ASSUME NEW path \in Paths, NEW a \in Addresses \ Trusted, NEW from \in Nat, NEW to \in Nat,
                      Granted(path, a, from, to) # {}, now' <= to + MaxWait
               PROVE  \E d \in Nat :
                         /\ from + Idle * d <= to /\ Reached(<<path, a>>, from + Idle * d)'
                         /\ Cost * Cardinality(Granted(path, a, from, to))
                              <= Owed(<<path, a>>, from)' + Early * d
    BY <1>1 DEF WindowsPaid
  <2> DEFINE k == <<path, a>>
             C == Cost * Cardinality(Granted(path, a, from, to))
  <2>0. now <= to + MaxWait /\ MaxWait \in Nat
    BY <1>2, LimiterAssumption
  <2>1. PICK d \in Nat : /\ from + Idle * d <= to /\ Reached(k, from + Idle * d)
                         /\ C <= Owed(k, from) + Early * d
    BY <2>0 DEF LimiterInv, WindowsPaid
  <2>2. Owed(k, from) \in Int /\ Early * d \in Nat /\ Idle * d \in Nat
    BY OwedInt, Drops DEF LimiterInv
  <2>3. C \in Nat
    BY GrantedFinite, Prices DEF LimiterInv
  <2>4. CASE k \in DOMAIN buckets
    <3>1. Owed(k, from)' = Owed(k, from)
      BY <2>4 DEF Owed
    <3>2. PICK g \in Requests : outcome[g] = "allowed" /\ KeyOf(g) = k /\ from + Idle * d <= at[g]
      BY <2>1, <2>4 DEF Reached
    <3>3. outcome'[g] = "allowed" /\ KeyOf(g)' = k /\ at'[g] = at[g]
      BY <1>3, <3>2 DEF KeyOf, ClientKey
    <3>4. Reached(k, from + Idle * d)'
      BY <2>4, <3>2, <3>3 DEF Reached
    <3> QED  BY <2>1, <3>1, <3>4
  <2>5. CASE k \notin DOMAIN buckets
    <3>1. Owed(k, from) = Rate * (now - MaxWait - from) /\ Owed(k, from)' = Rate * (now' - MaxWait - from)
      BY <2>5 DEF Owed
    <3>2. /\ now - MaxWait - from \in Int /\ now' - MaxWait - from \in Int
          /\ now - MaxWait - from <= now' - MaxWait - from
      BY <1>2, LimiterAssumption
    <3>3. Owed(k, from) <= Owed(k, from)' /\ Owed(k, from)' \in Int
      BY <3>1, <3>2, Refills
    <3>4. Reached(k, from + Idle * d)'
      BY <1>2, <2>0, <2>1, <2>2, <2>5 DEF Reached
    <3>5. C <= Owed(k, from)' + Early * d
      BY <2>1, <2>2, <2>3, <3>3
    <3> QED  BY <2>1, <3>4, <3>5
  <2> QED  BY <2>4, <2>5
<1>7. WindowsBounded'
  BY <1>1 DEF LimiterInv, WindowsBounded
<1>8. ReadingsFollow'
  <2> SUFFICES ASSUME NEW k \in DOMAIN buckets, NEW g \in Requests,
                      outcome'[g] = "allowed", KeyOf(g)' = k
               PROVE  at'[g] <= buckets[k].last + MaxWait
    BY DEF ReadingsFollow
  <2>1. outcome[g] = "allowed" /\ KeyOf(g) = k /\ at'[g] = at[g]
    BY DEF KeyOf, ClientKey
  <2> QED  BY <2>1 DEF LimiterInv, ReadingsFollow
<1> QED  BY <1>1, <1>4, <1>5, <1>6, <1>7, <1>8

\* A request that takes the mutex: its bucket pays for it, or shows why it is refused.
LEMMA AllowKeeps ==
    ASSUME LimiterInv, NEW r \in Requests, Allow(r)
    PROVE  LimiterInv'
<1> DEFINE t == at[r]
           B == Balance(r)
           k == KeyOf(r)
<1>1. /\ t \in Nat /\ t <= now /\ now <= t + MaxWait /\ now \in Nat /\ MaxWait \in Nat
      /\ B \in Int /\ B <= Burst /\ Cost \in Nat /\ Burst \in Nat /\ 0 < Cost /\ Cost <= Burst
      /\ call[r] \in Calls /\ k \in Keys
  BY Balances, BurstCovers, LimiterAssumption
<1>2. /\ outcome[r] = "arrived" /\ now' = now /\ call' = call /\ at' = at
      /\ outcome' = [outcome EXCEPT ![r] = IF B < Cost THEN "refused" ELSE "allowed"]
      /\ DOMAIN buckets' = Kept(t) \cup {k}
      /\ \A j \in Kept(t) \ {k} : j \in DOMAIN buckets /\ buckets'[j] = buckets[j]
      /\ buckets'[k].last = t
      /\ buckets'[k].tokens = IF B < Cost THEN B ELSE B - Cost
      /\ lastTrim' \in {lastTrim, t}
  BY AllowStep
<1>3. /\ outcome \in [Requests -> {"none", "arrived", "allowed", "refused"}]
      /\ call \in [Requests -> Calls \cup {NoCall}] /\ at \in [Requests -> Nat]
      /\ DOMAIN buckets \subseteq Keys
      /\ \A j \in DOMAIN buckets :
           buckets[j].last \in Nat /\ buckets[j].tokens \in Int /\ buckets[j].tokens <= Burst
      /\ lastTrim \in Nat \cup {Never}
  BY DEF LimiterInv, TypeOK
<1>4. \A q \in Requests : outcome'[q] = IF q = r THEN IF B < Cost THEN "refused" ELSE "allowed"
                                         ELSE outcome[q]
  BY <1>2, <1>3
<1>5. \A q : KeyOf(q)' = KeyOf(q)
  BY <1>2 DEF KeyOf, ClientKey
<1>6. TypeOK'
  <2>1. \A j \in DOMAIN buckets' :
          /\ j \in Keys /\ buckets'[j].last \in Nat
          /\ buckets'[j].tokens \in Int /\ buckets'[j].tokens <= Burst
    BY <1>1, <1>2, <1>3
  <2>2. outcome' \in [Requests -> {"none", "arrived", "allowed", "refused"}]
    BY <1>2, <1>3
  <2> QED  BY <1>1, <1>2, <1>3, <2>1, <2>2 DEF TypeOK
<1>7. ReadingsInTime'
  <2>1. ReadingsInTime
    BY DEF LimiterInv
  <2> QED  BY <1>1, <1>2, <1>4, <2>1 DEF ReadingsInTime
<1>8. FinitelyMany'
  <2>1. IsFiniteSet({q \in Requests : outcome[q] = "allowed"} \cup {r})
    BY FS_AddElement DEF LimiterInv, FinitelyMany
  <2>2. {q \in Requests : outcome'[q] = "allowed"}
          \subseteq {q \in Requests : outcome[q] = "allowed"} \cup {r}
    BY <1>4
  <2> QED  BY <2>1, <2>2, FS_Subset DEF FinitelyMany
<1>9. \A g \in Requests : outcome[g] = "allowed" => g # r /\ outcome'[g] = "allowed"
  BY <1>2, <1>4
\* If a request finds less than its price, its bucket was there and tells what it spent.
<1>10. ASSUME B < Cost
       PROVE  \E g \in Requests : /\ outcome[g] = "allowed" /\ KeyOf(g) = k
                                  /\ B >= Rate * (t - at[g]) /\ t + MaxWait >= at[g]
  <2>1. k \in Kept(t) /\ B < Burst
    BY <1>1, <1>10, Balances
  <2> DEFINE b == buckets[k]
  <2>2. /\ b.tokens \in Int /\ b.last \in Nat /\ B = b.tokens + Rate * (t - b.last)
        /\ k \in DOMAIN buckets
    BY <2>1, Balances DEF Kept
  <2>3. PICK g \in Requests : /\ outcome[g] = "allowed" /\ KeyOf(g) = k
                              /\ b.tokens >= Rate * (b.last - at[g])
    BY <2>2 DEF LimiterInv, BucketsSpent
  <2>4. at[g] \in Nat /\ at[g] <= now
    BY <1>3, <2>3 DEF LimiterInv, ReadingsInTime
  <2>5. /\ Rate * (t - at[g]) = Rate * (t - b.last) + Rate * (b.last - at[g])
        /\ Rate * (t - b.last) \in Int /\ Rate * (b.last - at[g]) \in Int
    <3>1. t \in Int /\ b.last \in Int /\ at[g] \in Int
      BY <1>1, <2>2, <2>4
    <3> QED  BY <3>1, Between
  <2>6. B >= Rate * (t - at[g])
    BY <1>1, <2>2, <2>3, <2>5
  <2>7. t + MaxWait >= at[g]
    BY <1>1, <2>4
  <2> QED  BY <2>3, <2>6, <2>7
<1>11. BucketsSpent'
  <2> SUFFICES ASSUME NEW j \in DOMAIN buckets'
               PROVE  /\ buckets'[j].last <= now'
                      /\ \E g \in Requests :
                           /\ outcome'[g] = "allowed" /\ KeyOf(g)' = j
                           /\ buckets'[j].tokens >= Rate * (buckets'[j].last - at'[g])
                           /\ buckets'[j].last + MaxWait >= at'[g]
    BY DEF BucketsSpent
  <2>1. CASE j # k
    <3>1. j \in DOMAIN buckets /\ buckets'[j] = buckets[j]
      BY <1>2, <2>1
    <3>2. /\ buckets[j].last <= now
          /\ \E g \in Requests :
               /\ outcome[g] = "allowed" /\ KeyOf(g) = j
               /\ buckets[j].tokens >= Rate * (buckets[j].last - at[g])
               /\ buckets[j].last + MaxWait >= at[g]
      BY <3>1 DEF LimiterInv, BucketsSpent
    <3> QED  BY <1>2, <1>5, <1>9, <3>1, <3>2
  <2>2. CASE j = k /\ B < Cost
    <3>1. buckets'[j].last = t /\ buckets'[j].tokens = B
      BY <1>2, <2>2
    <3> QED  BY <1>1, <1>2, <1>5, <1>9, <1>10, <2>2, <3>1
  <2>3. CASE j = k /\ ~(B < Cost)
    <3>1. buckets'[j].last = t /\ buckets'[j].tokens = B - Cost
      BY <1>2, <2>3
    <3>2. outcome'[r] = "allowed" /\ KeyOf(r)' = j /\ at'[r] = t
      BY <1>2, <1>4, <1>5, <2>3
    <3>3. Rate * (t - t) = 0
      <4>1. t - t = 0
        BY <1>1
      <4> QED  BY <4>1, Refills
    <3> QED  BY <1>1, <1>2, <2>3, <3>1, <3>2, <3>3
  <2> QED  BY <2>1, <2>2, <2>3
<1>12. RefusedOnlyWhenSpent'
  <2> SUFFICES ASSUME NEW q \in Requests, outcome'[q] = "refused"
               PROVE  \E g \in Requests :
                        /\ outcome'[g] = "allowed"
                        /\ call[g].path = call[q].path /\ ClientKey(call[g]) = ClientKey(call[q])
                        /\ Rate * (at[q] - at[g]) < Cost
    BY <1>2 DEF RefusedOnlyWhenSpent, ClientKey
  <2>1. CASE q # r
    <3>1. outcome[q] = "refused"
      BY <1>4, <2>1
    <3> QED  BY <1>9, <3>1 DEF LimiterInv, RefusedOnlyWhenSpent
  <2>2. CASE q = r
    <3>1. B < Cost
      BY <1>4, <2>2
    <3>2. PICK g \in Requests : outcome[g] = "allowed" /\ KeyOf(g) = k /\ B >= Rate * (t - at[g])
      BY <1>10, <3>1
    <3>3. Rate * (t - at[g]) < Cost
      <4>1. t - at[g] \in Int
        BY <1>1, <1>3, <3>2
      <4>2. Rate * (t - at[g]) \in Int
        BY <4>1, Refills
      <4> QED  BY <1>1, <3>1, <3>2, <4>2
    <3>4. call[g].path = call[r].path /\ ClientKey(call[g]) = ClientKey(call[r])
      BY <3>2 DEF KeyOf
    <3> QED  BY <1>9, <2>2, <3>2, <3>3, <3>4
  <2> QED  BY <2>1, <2>2
\* The debt of an allowed request's own bucket grows by its price; others do not shrink.
<1>13. ASSUME NEW path \in Paths, NEW a \in Addresses \ Trusted, NEW from \in Nat, NEW to \in Nat
       PROVE  LET G == Granted(path, a, from, to)
                  j == <<path, a>>
              IN  \/ G' = G
                  \/ /\ G' = G \cup {r} /\ r \notin G
                     /\ k = j /\ B >= Cost /\ from <= t /\ t <= to
  <2> DEFINE G == Granted(path, a, from, to)
  <2>1. G = {q \in Requests : /\ outcome[q] = "allowed" /\ call[q].path = path /\ call[q].remote = a
                              /\ at[q] \in from..to}
    BY DEF Granted, Allowed
  <2>2. G' = {q \in Requests : /\ outcome'[q] = "allowed" /\ call[q].path = path /\ call[q].remote = a
                               /\ at[q] \in from..to}
    BY <1>2 DEF Granted, Allowed
  <2>3. r \notin G
    BY <1>2, <2>1
  <2>4. CASE r \in G'
    <3>1. B >= Cost
      BY <1>1, <1>4, <2>2, <2>4
    <3>2. call[r].path = path /\ call[r].remote = a /\ from <= t /\ t <= to
      BY <1>1, <2>2, <2>4
    <3>3. k = <<path, a>>
      BY <3>2 DEF KeyOf, ClientKey
    <3>4. G' = G \cup {r}
      BY <1>4, <2>1, <2>2, <2>4
    <3> QED  BY <2>3, <3>1, <3>2, <3>3, <3>4
  <2>5. CASE r \notin G'
    <3>1. G' = G
      BY <1>4, <2>1, <2>2, <2>3, <2>5
    <3> QED  BY <3>1
  <2> QED  BY <2>4, <2>5
<1>14. WindowsPaid'
  <2> SUFFICES ASSUME NEW path \in Paths, NEW a \in Addresses \ Trusted, NEW from \in Nat, NEW to \in Nat,
                      Granted(path, a, from, to)' # {}, now <= to + MaxWait
               PROVE  \E d \in Nat :
                         /\ from + Idle * d <= to /\ Reached(<<path, a>>, from + Idle * d)'
                         /\ Cost * Cardinality(Granted(path, a, from, to)')
                              <= Owed(<<path, a>>, from)' + Early * d
    BY <1>2 DEF WindowsPaid
  <2> DEFINE G == Granted(path, a, from, to)
             j == <<path, a>>
  <2>1. Owed(j, from) \in Int /\ Owed(j, from)' \in Int
    <3>1. Owed(j, from) \in Int
      BY OwedInt DEF LimiterInv
    <3>2. CASE j \in DOMAIN buckets'
      <4>1. buckets'[j].last \in Nat /\ buckets'[j].tokens \in Int
        BY <1>6, <3>2 DEF TypeOK
      <4>2. buckets'[j].last - from \in Int
        BY <4>1
      <4>3. Rate * (buckets'[j].last - from) \in Int
        BY <4>2, Refills
      <4>4. Owed(j, from)' = Burst + Rate * (buckets'[j].last - from) - buckets'[j].tokens
        BY <3>2 DEF Owed
      <4> QED  BY <1>1, <3>1, <4>1, <4>3, <4>4
    <3>3. CASE j \notin DOMAIN buckets'
      <4>1. now - MaxWait - from \in Int
        BY <1>1
      <4>2. Owed(j, from)' = Rate * (now - MaxWait - from)
        BY <1>2, <3>3 DEF Owed
      <4> QED  BY <3>1, <4>1, <4>2, Refills
    <3> QED  BY <3>2, <3>3
  <2>2. /\ Owed(j, from)' + Lacking(j, r) >= Owed(j, from)
        /\ k = j /\ B >= Cost => Owed(j, from)' + Lacking(j, r) >= Owed(j, from) + Cost
    BY OwedGrows
  <2>3. IsFiniteSet(G) /\ Cardinality(G) \in Nat
    BY GrantedFinite DEF LimiterInv
  <2>4. Cost * Cardinality(G) \in Nat /\ Cost * (Cardinality(G) + 1) = Cost * Cardinality(G) + Cost
    BY <2>3, Prices
\* One drop more if r drops the bucket; the window is then open for another Idle.
  <2>5. ASSUME G # {}
        PROVE  \E d \in Nat :
                  /\ from + Idle * d <= to /\ Reached(j, from + Idle * d)'
                  /\ Cost * Cardinality(G) + (IF k = j /\ B >= Cost THEN Cost ELSE 0)
                       <= Owed(j, from)' + Early * d
    <3>1. PICK d \in Nat : /\ from + Idle * d <= to /\ Reached(j, from + Idle * d)
                           /\ Cost * Cardinality(G) <= Owed(j, from) + Early * d
      BY <2>5 DEF LimiterInv, WindowsPaid
    <3>2. /\ Idle \in Nat /\ Early \in Nat /\ Idle * d \in Nat /\ Early * d \in Nat /\ d + 1 \in Nat
          /\ Idle * (d + 1) = Idle * d + Idle /\ Early * (d + 1) = Early * d + Early
      BY Drops
    <3>3. from + Idle * d \in Int /\ from + Idle * (d + 1) = from + Idle * d + Idle
      BY <3>2
    <3>4. /\ Reached(j, from + Idle * d)'
          /\ j \in DOMAIN buckets \ Kept(t) =>
               /\ from + Idle * (d + 1) <= now - MaxWait
               /\ Reached(j, from + Idle * (d + 1))'
      BY <3>1, <3>3, ReachedGrows
    <3>5. CASE j \in DOMAIN buckets \ Kept(t)
      <4>1. Lacking(j, r) = Early
        BY <3>5 DEF Lacking
      <4>2. from + Idle * (d + 1) <= to
        BY <1>1, <3>2, <3>4, <3>5
      <4>3. Cost * Cardinality(G) + (IF k = j /\ B >= Cost THEN Cost ELSE 0)
              <= Owed(j, from)' + Early * (d + 1)
        BY <1>1, <2>1, <2>2, <2>4, <3>1, <3>2, <4>1
      <4> QED  BY <3>2, <3>4, <3>5, <4>2, <4>3
    <3>6. CASE j \notin DOMAIN buckets \ Kept(t)
      <4>1. Lacking(j, r) = 0
        BY <3>6 DEF Lacking
      <4>2. Cost * Cardinality(G) + (IF k = j /\ B >= Cost THEN Cost ELSE 0)
              <= Owed(j, from)' + Early * d
        BY <1>1, <2>1, <2>2, <2>4, <3>1, <3>2, <4>1
      <4> QED  BY <3>1, <3>4, <4>2
    <3> QED  BY <3>5, <3>6
  <2>6. CASE G' = G
    <3>1. PICK d \in Nat :
                  /\ from + Idle * d <= to /\ Reached(j, from + Idle * d)'
                  /\ Cost * Cardinality(G) + (IF k = j /\ B >= Cost THEN Cost ELSE 0)
                       <= Owed(j, from)' + Early * d
      BY <2>5, <2>6
    <3>2. Early * d \in Nat
      BY Drops
    <3>3. Cost * Cardinality(G) <= Owed(j, from)' + Early * d
      BY <1>1, <2>1, <2>4, <3>1, <3>2
    <3> QED  BY <2>6, <3>1, <3>3
  <2>7. CASE G' = G \cup {r} /\ r \notin G /\ k = j /\ B >= Cost /\ from <= t /\ t <= to
    <3>1. Cardinality(G') = Cardinality(G) + 1
      BY <2>3, <2>7, FS_AddElement
    <3>2. Cost * Cardinality(G') = Cost * Cardinality(G) + Cost
      BY <2>4, <3>1
    <3>3. CASE G # {}
      BY <2>5, <2>7, <3>2, <3>3
    <3>4. CASE G = {}
      <4>1. Cost * Cardinality(G) = 0
        BY <3>4, FS_EmptySet, Prices
      <4>2. Owed(j, from)' = Burst + Rate * (t - from) - (B - Cost)
        BY <1>1, <1>2, <2>7 DEF Owed
      <4>3. t - from \in Int /\ 0 <= t - from
        BY <1>1, <2>7
      <4>4. Rate * (t - from) \in Int /\ 0 <= Rate * (t - from)
        BY <4>3, Refills
      <4>5. Cost * Cardinality(G') <= Owed(j, from)' + Early * 0
        BY <1>1, <3>2, <4>1, <4>2, <4>4, Drops
      <4>6. from + Idle * 0 = from /\ 0 \in Nat
        BY Drops
      <4>7. Reached(j, from)'
        <5>1. outcome'[r] = "allowed" /\ KeyOf(r)' = j /\ at'[r] = t /\ j \in DOMAIN buckets'
          BY <1>1, <1>2, <1>4, <1>5, <2>7
        <5> QED  BY <2>7, <5>1 DEF Reached
      <4>8. from <= to
        BY <1>1, <2>7
      <4> QED  BY <4>5, <4>6, <4>7, <4>8
    <3> QED  BY <3>3, <3>4
  <2> QED  BY <1>13, <2>6, <2>7
<1>15. WindowsBounded'
  <2> SUFFICES ASSUME NEW path \in Paths, NEW a \in Addresses \ Trusted, NEW from \in Nat, NEW to \in Nat,
                      from <= to
               PROVE  Cost * Cardinality(Granted(path, a, from, to)') <= Allotted(from, to)
    BY DEF WindowsBounded
  <2> DEFINE G == Granted(path, a, from, to)
             j == <<path, a>>
  <2>1. CASE G' = G
    <3>1. Cost * Cardinality(G) <= Allotted(from, to)
      BY DEF LimiterInv, WindowsBounded
    <3> QED  BY <2>1, <3>1
  <2>2. CASE G' = G \cup {r} /\ r \notin G /\ k = j /\ B >= Cost /\ from <= t /\ t <= to
    <3>0. now' <= to + MaxWait /\ G' # {}
      BY <1>1, <1>2, <2>2
    <3>1. PICK d \in Nat : /\ from + Idle * d <= to
                           /\ Cost * Cardinality(G') <= Owed(j, from)' + Early * d
      BY <1>14, <3>0 DEF WindowsPaid
    <3>2. Owed(j, from)' = Burst + Rate * (t - from) - (B - Cost)
      BY <1>1, <1>2, <2>2 DEF Owed
    <3>3. t - from \in Int /\ to - from \in Int /\ to - from \in Nat /\ t - from <= to - from
      BY <1>1, <2>2
    <3>4. Rate * (t - from) \in Int /\ Rate * (to - from) \in Int /\ Rate * (t - from) <= Rate * (to - from)
      <4>1. t - from \in Int /\ to - from \in Int /\ t - from <= to - from
        BY <3>3
      <4> QED  BY <4>1, Refills
    <3>5. IsFiniteSet(G) /\ Cardinality(G) \in Nat
      BY GrantedFinite DEF LimiterInv
    <3>6. Cost * Cardinality(G') \in Nat
      <4>1. Cardinality(G') = Cardinality(G) + 1
        BY <2>2, <3>5, FS_AddElement
      <4> QED  BY <3>5, <4>1, Prices
    <3>7. /\ Early * d \in Nat /\ Early * ((to - from) \div Idle) \in Nat
          /\ Early * d <= Early * ((to - from) \div Idle)
      <4>1. Idle * d \in Nat /\ Early * d \in Nat
        BY Drops
      <4>2. Idle * d <= to - from
        BY <3>1, <4>1
      <4> QED  BY <3>3, <4>1, <4>2, DropsFit
    <3>8. Allotted(from, to) = Burst + Rate * (to - from) + Early * ((to - from) \div Idle)
      BY DEF Allotted
    <3> QED  BY <1>1, <2>2, <3>1, <3>2, <3>4, <3>6, <3>7, <3>8
  <2> QED  BY <1>13, <2>1, <2>2
<1>16. ReadingsFollow'
  <2> SUFFICES ASSUME NEW j \in DOMAIN buckets', NEW g \in Requests,
                      outcome'[g] = "allowed", KeyOf(g) = j
               PROVE  at[g] <= buckets'[j].last + MaxWait
    BY <1>2, <1>5 DEF ReadingsFollow
  <2>1. CASE j = k
    <3>1. at[g] \in Nat /\ at[g] <= now
      <4>1. outcome[g] # "none"
        BY <1>2, <1>4
      <4> QED  BY <1>3, <4>1 DEF LimiterInv, ReadingsInTime
    <3> QED  BY <1>1, <1>2, <2>1, <3>1
  <2>2. CASE j # k
    <3>1. j \in DOMAIN buckets /\ buckets'[j] = buckets[j] /\ outcome[g] = "allowed"
      BY <1>2, <1>4, <2>2
    <3> QED  BY <3>1 DEF LimiterInv, ReadingsFollow
  <2> QED  BY <2>1, <2>2
<1> QED  BY <1>6, <1>7, <1>8, <1>11, <1>12, <1>14, <1>15, <1>16 DEF LimiterInv

\* Every step keeps it.
LEMMA NextLimiter == LimiterInv /\ [Next]_vars => LimiterInv'
<1> SUFFICES ASSUME LimiterInv, [Next]_vars PROVE LimiterInv'
  OBVIOUS
<1>1. TypeOK /\ ReadingsInTime
  BY DEF LimiterInv
<1>2. CASE UNCHANGED vars
  <2>1. TypeOK' /\ ReadingsInTime'
    BY <1>1, <1>2 DEF vars, TypeOK, ReadingsInTime
  <2>2. /\ now <= now' /\ UNCHANGED buckets
        /\ \A r \in Requests : outcome'[r] = outcome[r] /\ call'[r] = call[r] /\ at'[r] = at[r]
    BY <1>1, <1>2 DEF vars, TypeOK
  <2> QED  BY <2>1, <2>2, QuietStep DEF LimiterInv
<1>3. CASE Tick
  <2>1. TypeOK'
    BY <1>1, <1>3 DEF Tick, TypeOK
  <2>2. ReadingsInTime'
    <3>1. MaxWait \in Nat /\ now \in Nat /\ \A r \in Requests : at[r] \in Nat
      BY <1>1, LimiterAssumption DEF TypeOK
    <3>2. /\ now' = now + 1 /\ UNCHANGED <<call, at, outcome>>
          /\ \A r \in Requests : outcome[r] = "arrived" => now - at[r] < MaxWait
      BY <1>3 DEF Tick
    <3> QED  BY <1>1, <3>1, <3>2 DEF ReadingsInTime
  <2>3. /\ now <= now' /\ UNCHANGED buckets
        /\ \A r \in Requests : outcome'[r] = outcome[r] /\ call'[r] = call[r] /\ at'[r] = at[r]
    BY <1>1, <1>3 DEF Tick, TypeOK
  <2> QED  BY <2>1, <2>2, <2>3, QuietStep DEF LimiterInv
<1>4. ASSUME NEW r \in Requests, NEW c \in Calls, Arrive(r, c) PROVE LimiterInv'
  <2>1. /\ outcome[r] = "none" /\ outcome' = [outcome EXCEPT ![r] = "arrived"]
        /\ call' = [call EXCEPT ![r] = c] /\ at' = [at EXCEPT ![r] = now]
        /\ now' = now /\ buckets' = buckets /\ lastTrim' = lastTrim
    BY <1>4 DEF Arrive
  <2>2. TypeOK'
    BY <1>1, <2>1 DEF TypeOK
  <2>3. /\ outcome'[r] = "arrived" /\ call'[r] = c /\ at'[r] = now
        /\ \A q \in Requests \ {r} : outcome'[q] = outcome[q] /\ call'[q] = call[q] /\ at'[q] = at[q]
    BY <1>1, <2>1 DEF TypeOK
  <2>4. ReadingsInTime'
    <3>1. MaxWait \in Nat /\ now \in Nat
      BY <1>1, LimiterAssumption DEF TypeOK
    <3> QED  BY <1>1, <2>1, <2>3, <3>1 DEF ReadingsInTime
  <2>5. /\ now <= now' /\ UNCHANGED buckets
        /\ \A q \in Requests : \/ outcome'[q] = outcome[q] /\ call'[q] = call[q] /\ at'[q] = at[q]
                               \/ outcome[q] = "none" /\ outcome'[q] = "arrived"
    BY <1>1, <2>1, <2>3 DEF TypeOK
  <2> QED  BY <2>2, <2>4, <2>5, QuietStep DEF LimiterInv
<1>5. ASSUME NEW r \in Requests, Allow(r) PROVE LimiterInv'
  BY <1>5, AllowKeeps
<1> QED  BY <1>2, <1>3, <1>4, <1>5 DEF Next

\* LimiterInv holds in every state.
LEMMA LimiterInvariant == Spec => []LimiterInv
<1> QED  BY InitLimiter, NextLimiter, PTL DEF Spec
-----------------------------------------------------------------------------
(***************************************************************************)
(* Theorems.                                                               *)
(***************************************************************************)
\* The state keeps its types; no balance exceeds the burst (allow).
THEOREM LimiterTypes == Spec => []TypeOK
<1>1. LimiterInv => TypeOK
  BY DEF LimiterInv
<1> QED  BY <1>1, LimiterInvariant, PTL

\* Within any window of readings a peer that is no trusted proxy gets a burst, what the
\* window refills, and, where the rate is too slow to fill a bucket before it is dropped,
\* what one drop gives back for each Idle of the window: whatever headers it sends and
\* whatever order its requests reach the mutex in (allow, clientKey, trim).
THEOREM WindowsAreBounded == Spec => []WindowBound
<1>1. LimiterInv => WindowBound
  <2>1. LimiterInv => now \in Nat
    BY DEF LimiterInv, TypeOK
  <2> QED  BY <2>1 DEF LimiterInv, WindowBound, WindowsBounded, Granted, Allotted
<1> QED  BY <1>1, LimiterInvariant, PTL

\* Whoever is refused shares a bucket with a request let in less than a refill before its
\* own reading, or later: refusals cost nothing (allow).
THEOREM RefusedWhenSpent == Spec => []RefusedOnlyWhenSpent
<1>1. LimiterInv => RefusedOnlyWhenSpent
  BY DEF LimiterInv
<1> QED  BY <1>1, LimiterInvariant, PTL
=============================================================================
