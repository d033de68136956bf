--------------------------- MODULE RateLimitProofs ---------------------------
(***************************************************************************)
(* The table of the rate limiter stays within its capacity, no key keeps   *)
(* its place longer than a window after its last attempt, and what it      *)
(* grants and refuses is right, for every set of keys and every setting of *)
(* the limits.                                                             *)
(*                                                                         *)
(* PlacesAreRecent is not inductive: an expired bucket leaves only when    *)
(* all buckets ahead of it leave.  InOrder says why none of them is in the *)
(* way: the order of the table is that of the keys' last attempts.         *)
(*                                                                         *)
(* NeverMoreThanAttempts is about a key's grants, which the table forgets  *)
(* when it evicts the key: GrantInv says that a bucket is the end of its   *)
(* key's grants, and that all the grants before it are over.               *)
(***************************************************************************)
EXTENDS RateLimit, FiniteSetTheorems, SequenceTheorems, TLAPS

Typed ==
    /\ clock \in Times /\ swept \in Times
    /\ bucket \in [Keys -> Seq(Times)]
    /\ ahead \in [Keys -> SUBSET Keys]
    /\ called \in [Keys -> Times \cup {Never}]

Small(set) == IsFiniteSet(set) /\ Cardinality(set) <= Capacity

\* A bucket holds no attempt that is newer than the last one of its key.
Recorded ==
    /\ swept <= clock
    /\ \A k \in Keys : called[k] <= swept
    /\ \A k \in Keys : \A i \in 1 .. Len(bucket[k]) : bucket[k][i] <= called[k]

InOrder ==
    \A k \in Buckets : ahead[k] \subseteq Buckets /\ \A j \in ahead[k] : called[j] <= called[k]

IInv == Typed /\ Small(Buckets) /\ Recorded /\ InOrder /\ PlacesAreRecent

-------------------------------------------------------------------------------

\* A bucket that is not evicted belongs to a key that tried in the window.
LEMMA KeptTried ==
    ASSUME IInv, NEW k \in Buckets \ Evicted
    PROVE  k \in Keys /\ called[k] > clock - Seconds
<1>0. clock \in Int /\ Seconds \in Int BY LimitAssumption DEF IInv, Typed, Times
<1>1. ASSUME NEW j \in Buckets, ~Expired(j) PROVE called[j] > clock - Seconds
  <2>1. j \in Keys /\ bucket[j] \in Seq(Times) /\ Len(bucket[j]) \in 1 .. Len(bucket[j])
    BY EmptySeq DEF IInv, Typed, Buckets
  <2>2. bucket[j][Len(bucket[j])] <= called[j] BY <2>1 DEF IInv, Recorded
  <2>3. bucket[j][Len(bucket[j])] \in Int /\ called[j] \in Int
    BY <2>1, LimitAssumption DEF IInv, Typed, Times, Never
  <2>. QED BY <1>0, <1>1, <2>2, <2>3 DEF Expired, Outside
<1>2. k \in Keys /\ k \in Buckets BY DEF Buckets
<1>3. CASE ~Expired(k) BY <1>1, <1>2, <1>3
<1>4. CASE Expired(k)
  <2>1. PICK j \in ahead[k] : ~Expired(j) BY <1>2, <1>4 DEF Evicted
  <2>2. j \in Buckets /\ called[j] <= called[k] BY <1>2, <2>1 DEF IInv, InOrder
  <2>3. called[j] \in Int /\ called[k] \in Int
    BY <1>2, <2>2, LimitAssumption DEF IInv, Typed, Times, Never, Buckets
  <2>. QED BY <1>0, <1>1, <1>2, <2>1, <2>2, <2>3
<1>. QED BY <1>3, <1>4

\* What is left of the table by the first loop of allow.
LEMMA KeptTable ==
    ASSUME IInv, NEW kept, kept = Buckets \ Evicted
    PROVE  /\ kept \subseteq Keys /\ kept \subseteq Buckets
           /\ IsFiniteSet(kept) /\ Cardinality(kept) <= Capacity /\ Cardinality(kept) \in Nat
           /\ Remaining(kept) \in [Keys -> Seq(Times)]
           /\ \A k \in Keys : Remaining(kept)[k] # <<>> <=> k \in kept
<1>1. kept \subseteq Buckets /\ kept \subseteq Keys BY DEF Buckets
<1>2. IsFiniteSet(kept) /\ Cardinality(kept) <= Cardinality(Buckets)
      /\ Cardinality(Buckets) \in Nat /\ Cardinality(kept) \in Nat
  BY <1>1, FS_Subset, FS_CardinalityType DEF IInv, Small
<1>3. Cardinality(kept) <= Capacity BY <1>2, LimitAssumption DEF IInv, Small
<1>4. Remaining(kept) \in [Keys -> Seq(Times)] BY <1>1 DEF IInv, Typed, Remaining
<1>5. \A k \in Keys : Remaining(kept)[k] # <<>> <=> k \in kept BY <1>1 DEF Remaining, Buckets
<1>. QED BY <1>1, <1>2, <1>3, <1>4, <1>5

LEMMA SubSeqTyped ==
    ASSUME NEW s \in Seq(Times), NEW first \in 1 .. Len(s) + 1
    PROVE  SubSeq(s, first, Len(s)) \in Seq(Times)
<1>1. Len(s) \in Nat /\ \A i \in first .. Len(s) : s[i] \in Times BY LenProperties
<1>. QED BY <1>1, SubSeqProperties

LEMMA Extended ==
    ASSUME NEW s \in Seq(Times), NEW now \in Times, \A i \in 1 .. Len(s) : s[i] <= now
    PROVE  /\ Append(s, now) \in Seq(Times) /\ Append(s, now) # <<>>
           /\ \A i \in 1 .. Len(Append(s, now)) : Append(s, now)[i] <= now
<1>1. /\ Append(s, now) \in Seq(Times) /\ Append(s, now) # <<>>
      /\ Len(Append(s, now)) = Len(s) + 1 /\ Len(s) \in Nat
      /\ \A i \in 1 .. Len(s) : Append(s, now)[i] = s[i]
      /\ Append(s, now)[Len(s) + 1] = now
  BY AppendProperties
<1>2. now <= now BY DEF Times
<1>3. ASSUME NEW i \in 1 .. Len(Append(s, now)) PROVE Append(s, now)[i] <= now
  <2>1. i \in 1 .. Len(s) \/ i = Len(s) + 1 BY <1>1
  <2>. QED BY <1>1, <1>2, <2>1
<1>. QED BY <1>1, <1>3

LEMMA LongNotEmpty ==
    ASSUME NEW s \in Seq(Times), Len(s) >= Attempts PROVE s # <<>>
BY LimitAssumption

\* The second loop and the new attempt: the bucket of the key afterwards.
LEMMA Counted ==
    ASSUME NEW times \in Seq(Times), NEW now \in Times, NEW first \in 1 .. Len(times) + 1,
           \A i \in 1 .. Len(times) : times[i] <= now,
           NEW inside, inside = SubSeq(times, first, Len(times)),
           NEW result,
           \/ result = Append(inside, now)
           \/ result = inside /\ Len(inside) >= Attempts
    PROVE  /\ result \in Seq(Times) /\ result # <<>>
           /\ \A i \in 1 .. Len(result) : result[i] <= now
<1>0. Len(times) \in Nat BY LenProperties
<1>1. /\ inside \in Seq(Times)
      /\ \A i \in 1 .. Len(inside) : inside[i] <= now
  <2>1. CASE first = Len(times) + 1
    <3>1. inside = <<>> BY <2>1, <1>0, SubSeqProperties
    <3>. QED BY <3>1
  <2>2. CASE first <= Len(times)
    <3>1. first \in 1 .. Len(times) + 1 /\ Len(times) \in first - 1 .. Len(times) BY <1>0, <2>2
    <3>2. /\ inside \in Seq(Times) /\ Len(inside) = Len(times) - first + 1
          /\ \A i \in 1 .. Len(times) - first + 1 : inside[i] = times[first + i - 1]
      BY <1>0, <2>2, <3>1, SubSeqProperties
    <3>3. \A i \in 1 .. Len(inside) : first + i - 1 \in 1 .. Len(times) BY <1>0, <3>2
    <3>. QED BY <3>2, <3>3
  <2>. QED BY <1>0, <2>1, <2>2
<1>2. CASE result = Append(inside, now) BY <1>1, <1>2, Extended
<1>3. CASE result = inside /\ Len(inside) >= Attempts BY <1>1, <1>3, LongNotEmpty
<1>. QED BY <1>2, <1>3

-------------------------------------------------------------------------------

\* Both ways through allow leave the buckets that were kept in order.  `after' are
\* the buckets afterwards and `order' what is ahead of each.
LEMMA OrderKept ==
    ASSUME IInv, NEW key \in Keys, Allow(key),
           NEW kept, kept = Buckets \ Evicted,
           Buckets' \in {kept, kept \cup {key}},
           \A k \in kept \ {key} : ahead'[k] \subseteq (ahead[k] \cap kept) \ {key},
           key \in Buckets' => ahead'[key] \subseteq kept \ {key}
    PROVE  InOrder' /\ PlacesAreRecent'
<1>1. /\ called' = [called EXCEPT ![key] = clock] /\ swept' = clock
      /\ called \in [Keys -> Times \cup {Never}] /\ clock \in Int /\ clock <= clock
      /\ swept <= clock /\ swept \in Int
  BY DEF IInv, Typed, Recorded, Allow, Times
<1>2. \A k \in Keys : called[k] \in Int /\ called[k] <= clock
  BY <1>1, LimitAssumption DEF IInv, Recorded, Times, Never
<1>3. kept \subseteq Buckets /\ kept \subseteq Keys BY DEF Buckets
<1>4. \A k \in kept \ {key} : called'[k] = called[k] BY <1>1, <1>3
<1>5. called'[key] = clock BY <1>1
<1>6. InOrder'
  <2>1. SUFFICES ASSUME NEW k \in Buckets'
                 PROVE  ahead'[k] \subseteq Buckets'
                        /\ \A j \in ahead'[k] : called'[j] <= called'[k]
    BY DEF InOrder
  <2>2. CASE k = key BY <1>2, <1>3, <1>4, <1>5, <2>2
  <2>3. CASE k # key
    <3>1. k \in kept \ {key} BY <2>3
    <3>2. \A j \in ahead[k] : called[j] <= called[k] BY <1>3, <3>1 DEF IInv, InOrder
    <3>. QED BY <1>4, <3>1, <3>2
  <2>. QED BY <2>2, <2>3
<1>7. PlacesAreRecent'
  <2>1. SUFFICES ASSUME NEW k \in Buckets' PROVE called'[k] > swept' - Seconds
    BY DEF PlacesAreRecent
  <2>2. CASE k = key BY <1>1, <1>5, <2>2, LimitAssumption
  <2>3. CASE k # key
    <3>1. k \in kept \ {key} BY <2>3
    <3>. QED BY <1>1, <1>4, <3>1, KeptTried
  <2>. QED BY <2>2, <2>3
<1>. QED BY <1>6, <1>7

LEMMA RefusedNew ==
    ASSUME IInv, NEW key \in Keys, Allow(key), RefuseNew(key, Buckets \ Evicted) PROVE IInv'
<1>. DEFINE kept == Buckets \ Evicted
<1>1. /\ kept \subseteq Keys /\ kept \subseteq Buckets
      /\ IsFiniteSet(kept) /\ Cardinality(kept) <= Capacity
      /\ Remaining(kept) \in [Keys -> Seq(Times)]
      /\ \A k \in Keys : Remaining(kept)[k] # <<>> <=> k \in kept
  BY KeptTable
<1>2. /\ key \notin kept /\ bucket' = Remaining(kept)
      /\ ahead' = [k \in Keys |-> IF k \in kept THEN ahead[k] \cap kept ELSE {}]
  BY DEF RefuseNew
<1>3. /\ called' = [called EXCEPT ![key] = clock] /\ swept' = clock /\ clock' = clock
      /\ clock \in Times /\ swept \in Times /\ called \in [Keys -> Times \cup {Never}]
      /\ ahead \in [Keys -> SUBSET Keys] /\ clock <= clock /\ swept <= clock
  BY DEF Allow, IInv, Typed, Recorded, Times
<1>4. Buckets' = kept BY <1>1, <1>2 DEF Buckets
<1>5. Typed' BY <1>1, <1>2, <1>3 DEF Typed
<1>6. Small(Buckets)' BY <1>1, <1>4 DEF Small
<1>7. Recorded'
  <2>1. \A k \in Keys : called'[k] <= swept'
    BY <1>3, LimitAssumption DEF IInv, Recorded, Times, Never
  <2>2. ASSUME NEW k \in Keys, NEW i \in 1 .. Len(bucket'[k])
        PROVE  bucket'[k][i] <= called'[k]
    <3>1. CASE k \in kept
      BY <1>2, <1>3, <3>1 DEF IInv, Recorded, Remaining
    <3>2. CASE k \notin kept
      <4>1. bucket'[k] = <<>> BY <1>1, <1>2, <3>2
      <4>. QED BY <4>1
    <3>. QED BY <3>1, <3>2
  <2>. QED BY <1>3, <2>1, <2>2 DEF Recorded
<1>8. InOrder' /\ PlacesAreRecent'
  <2>1. \A k \in kept \ {key} : ahead'[k] \subseteq (ahead[k] \cap kept) \ {key}
    BY <1>1, <1>2
  <2>2. key \in Buckets' => ahead'[key] \subseteq kept \ {key} BY <1>2, <1>4
  <2>. QED BY <1>4, <2>1, <2>2, OrderKept
<1>. QED BY <1>5, <1>6, <1>7, <1>8 DEF IInv

LEMMA CountedOne ==
    ASSUME IInv, NEW key \in Keys, Allow(key), Count(key, Buckets \ Evicted) PROVE IInv'
<1>. DEFINE kept == Buckets \ Evicted
            times == Remaining(kept)[key]
<1>1. /\ kept \subseteq Keys /\ kept \subseteq Buckets
      /\ IsFiniteSet(kept) /\ Cardinality(kept) <= Capacity /\ Cardinality(kept) \in Nat
      /\ Remaining(kept) \in [Keys -> Seq(Times)]
      /\ \A k \in Keys : Remaining(kept)[k] # <<>> <=> k \in kept
  BY KeptTable
<1>2. /\ called' = [called EXCEPT ![key] = clock] /\ swept' = clock /\ clock' = clock
      /\ clock \in Times /\ swept \in Times /\ called \in [Keys -> Times \cup {Never}]
      /\ ahead \in [Keys -> SUBSET Keys] /\ clock <= clock /\ swept <= clock
      /\ \A k \in Keys : called[k] <= swept
  BY DEF Allow, IInv, Typed, Recorded, Times
<1>3. \A i \in 1 .. Len(times) : times[i] <= clock
  <2>1. CASE key \in kept
    <3>1. times = bucket[key] BY <2>1 DEF Remaining
    <3>2. bucket[key] \in Seq(Times) BY DEF IInv, Typed
    <3>3. ASSUME NEW i \in 1 .. Len(bucket[key]) PROVE bucket[key][i] <= clock
      <4>1. bucket[key][i] <= called[key] BY DEF IInv, Recorded
      <4>2. bucket[key][i] \in Times BY <3>2
      <4>3. called[key] \in Int /\ clock \in Int /\ swept \in Int
        BY <1>2, LimitAssumption DEF Times, Never
      <4>. QED BY <1>2, <4>1, <4>2, <4>3 DEF Times
    <3>. QED BY <3>1, <3>3
  <2>2. CASE key \notin kept
    <3>1. times = <<>> BY <2>2 DEF Remaining
    <3>. QED BY <3>1
  <2>. QED BY <2>1, <2>2
<1>4. PICK first \in 1 .. Len(times) + 1 :
        IF Len(SubSeq(times, first, Len(times))) < Attempts
        THEN bucket' = [Remaining(kept) EXCEPT ![key] =
                            Append(SubSeq(times, first, Len(times)), clock)]
        ELSE bucket' = [Remaining(kept) EXCEPT ![key] = SubSeq(times, first, Len(times))]
  BY DEF Count
<1>5. PICK result :
        /\ bucket' = [Remaining(kept) EXCEPT ![key] = result]
        /\ result \in Seq(Times) /\ result # <<>>
        /\ \A i \in 1 .. Len(result) : result[i] <= clock
  <2>. DEFINE inside == SubSeq(times, first, Len(times))
  <2>1. times \in Seq(Times) BY <1>1
  <2>2. CASE Len(inside) < Attempts
    <3>1. bucket' = [Remaining(kept) EXCEPT ![key] = Append(inside, clock)] BY <1>4, <2>2
    <3>2. /\ Append(inside, clock) \in Seq(Times) /\ Append(inside, clock) # <<>>
          /\ \A i \in 1 .. Len(Append(inside, clock)) : Append(inside, clock)[i] <= clock
      BY <1>2, <1>3, <2>1, Counted
    <3>. QED BY <3>1, <3>2
  <2>3. CASE ~(Len(inside) < Attempts)
    <3>1. bucket' = [Remaining(kept) EXCEPT ![key] = inside] BY <1>4, <2>3
    <3>2. Len(inside) >= Attempts
      <4>1. Len(inside) \in Nat BY <2>1, LenProperties, SubSeqTyped
      <4>. QED BY <2>3, <4>1, LimitAssumption
    <3>3. /\ inside \in Seq(Times) /\ inside # <<>>
          /\ \A i \in 1 .. Len(inside) : inside[i] <= clock
      BY <1>2, <1>3, <2>1, <3>2, Counted
    <3>. QED BY <3>1, <3>3
  <2>. QED BY <2>2, <2>3
<1>6. bucket'[key] = result /\ \A k \in Keys \ {key} : bucket'[k] = Remaining(kept)[k]
  BY <1>1, <1>5
<1>7. Buckets' = kept \cup {key} BY <1>1, <1>5, <1>6 DEF Buckets
<1>8. ahead' = Order(key, kept) BY DEF Count
<1>9. Typed' BY <1>1, <1>2, <1>5, <1>8 DEF Typed, Order
<1>10. Small(Buckets)'
  <2>1. key \in kept \/ Cardinality(kept) + 1 <= Capacity
    BY <1>1, LimitAssumption DEF Count, Full
  <2>. QED BY <1>1, <1>7, <2>1, FS_AddElement DEF Small
<1>11. Recorded'
  <2>1. \A k \in Keys : called'[k] <= swept'
    BY <1>2, LimitAssumption DEF Times, Never
  <2>2. ASSUME NEW k \in Keys, NEW i \in 1 .. Len(bucket'[k])
        PROVE  bucket'[k][i] <= called'[k]
    <3>1. CASE k = key BY <1>2, <1>5, <1>6, <3>1
    <3>2. CASE k # key /\ k \in kept
      BY <1>2, <1>6, <3>2 DEF IInv, Recorded, Remaining
    <3>3. CASE k # key /\ k \notin kept
      <4>1. bucket'[k] = <<>> BY <1>1, <1>6, <3>3
      <4>. QED BY <4>1
    <3>. QED BY <3>1, <3>2, <3>3
  <2>. QED BY <1>2, <2>1, <2>2 DEF Recorded
<1>12. InOrder' /\ PlacesAreRecent'
  <2>1. \A k \in kept \ {key} : ahead'[k] \subseteq (ahead[k] \cap kept) \ {key}
    BY <1>1, <1>8 DEF Order
  <2>2. ahead'[key] \subseteq kept \ {key} BY <1>8 DEF Order
  <2>. QED BY <1>7, <2>1, <2>2, OrderKept
<1>. QED BY <1>9, <1>10, <1>11, <1>12 DEF IInv

LEMMA Started == Init => IInv
<1>. SUFFICES ASSUME Init PROVE IInv OBVIOUS
<1>1. Buckets = {} BY DEF Init, Buckets
<1>2. Typed BY LimitAssumption DEF Init, Typed, Times, Never
<1>3. Small(Buckets) BY <1>1, FS_EmptySet, LimitAssumption DEF Small
<1>4. Recorded BY LimitAssumption DEF Init, Recorded, Never
<1>. QED BY <1>1, <1>2, <1>3, <1>4 DEF IInv, InOrder, PlacesAreRecent

LEMMA Stepped == IInv /\ [Next]_vars => IInv'
<1>. SUFFICES ASSUME IInv, [Next]_vars PROVE IInv' OBVIOUS
<1>1. CASE Advance
  <2>1. clock' \in Times /\ clock < clock' /\ UNCHANGED <<bucket, ahead, called, swept>>
    BY <1>1, LimitAssumption DEF Advance, IInv, Typed, Times
  <2>2. Buckets' = Buckets BY <2>1 DEF Buckets
  <2>3. swept <= clock'
    BY <2>1, LimitAssumption DEF IInv, Typed, Recorded, Times
  <2>. QED
    BY <2>1, <2>2, <2>3 DEF IInv, Typed, Small, Recorded, InOrder, PlacesAreRecent
<1>2. ASSUME NEW key \in Keys, Allow(key) PROVE IInv'
  BY <1>2, RefusedNew, CountedOne DEF Allow
<1>3. CASE UNCHANGED vars
  BY <1>3 DEF vars, IInv, Typed, Small, Recorded, InOrder, PlacesAreRecent, Buckets
<1>. QED BY <1>1, <1>2, <1>3 DEF Next

\* RateLimit.allow: the table is never larger than its capacity, whatever is evicted.
THEOREM TypeCorrect == Spec => []TypeOK
<1>1. IInv => TypeOK BY DEF IInv, Typed, Small, TypeOK
<1>. QED BY <1>1, Started, Stepped, PTL DEF Spec

\* RateLimit.allow: an expired bucket behind an active one does not keep its place
\* beyond the window, since every attempt, granted or refused, moves its bucket to the
\* end of the table.
THEOREM RecentPlaces == Spec => []PlacesAreRecent
<1>1. IInv => PlacesAreRecent BY DEF IInv
<1>. QED BY <1>1, Started, Stepped, PTL DEF Spec

-------------------------------------------------------------------------------
\* The grants.  A bucket is what is left of the history of its key: what it lacks was
\* granted outside the window.  NeverMoreThanAttempts says nothing of buckets, and
\* RefusesOnlyExcess compares a bucket with the history: both follow from this.

Left(times, past) ==
    /\ Len(times) <= Len(past)
    /\ \A i \in 1 .. Len(times) : times[i] = past[Len(past) - Len(times) + i]
    /\ \A i \in 1 .. Len(past) - Len(times) : Outside(past[i])

Ascending(past) ==
    /\ \A i, j \in 1 .. Len(past) : i <= j => past[i] <= past[j]
    /\ \A i \in 1 .. Len(past) : past[i] <= clock

GrantInv ==
    /\ clock \in Times /\ bucket \in [Keys -> Seq(Times)] /\ granted \in [Keys -> Seq(Times)]
    /\ \A k \in Keys :
           /\ Len(granted[k]) <= Attempts + 1 /\ Len(bucket[k]) <= Attempts
           /\ Left(bucket[k], granted[k]) /\ Ascending(granted[k])
    /\ NeverMoreThanAttempts

LEMMA OutsideIs ==
    ASSUME clock \in Times, NEW t \in Times PROVE Outside(t) <=> t + Seconds <= clock
  BY LimitAssumption DEF Times, Outside

\* A bucket that is evicted has nothing inside the window.
LEMMA RemainingLeft ==
    ASSUME GrantInv, NEW kept, kept = Buckets \ Evicted, NEW k \in Keys
    PROVE  /\ Left(Remaining(kept)[k], granted[k])
           /\ Remaining(kept)[k] \in Seq(Times) /\ Len(Remaining(kept)[k]) <= Attempts
<1>. DEFINE past == granted[k]
            times == bucket[k]
<1>1. /\ past \in Seq(Times) /\ times \in Seq(Times) /\ Len(past) \in Nat /\ Len(times) \in Nat
      /\ Left(times, past) /\ Ascending(past) /\ Len(times) <= Attempts /\ clock \in Times
  BY LenProperties DEF GrantInv
<1>2. CASE k \in kept \/ times = <<>> BY <1>1, <1>2, EmptySeq DEF Remaining
<1>3. CASE k \notin kept /\ times # <<>>
  <2>1. k \in Evicted BY <1>3 DEF Buckets
  <2>2. Len(times) \in 1 .. Len(times) /\ Len(past) \in 1 .. Len(past)
    BY <1>1, <1>3, EmptySeq DEF Left
  <2>3. times[Len(times)] = past[Len(past)]
    <3>1. times[Len(times)] = past[Len(past) - Len(times) + Len(times)]
      BY <1>1, <2>2 DEF Left
    <3>2. Len(past) - Len(times) + Len(times) = Len(past) BY <1>1
    <3>. QED BY <3>1, <3>2
  <2>4. Outside(past[Len(past)]) BY <2>1, <2>3 DEF Evicted, Expired
  <2>5. ASSUME NEW i \in 1 .. Len(past) PROVE Outside(past[i])
    <3>1. past[i] <= past[Len(past)] BY <1>1, <2>2 DEF Ascending
    <3>2. past[i] \in Times /\ past[Len(past)] \in Times BY <1>1, <2>2, ElementOfSeq
    <3>. QED BY <1>1, <2>4, <3>1, <3>2, LimitAssumption DEF Outside, Times
  <2>6. Remaining(kept)[k] = <<>> BY <1>3 DEF Remaining
  <2>7. Len(<<>>) = 0 /\ <<>> \in Seq(Times) /\ 0 <= Attempts BY LimitAssumption
  <2>8. Left(<<>>, past) BY <1>1, <2>5, <2>7 DEF Left
  <2>. QED BY <2>6, <2>7, <2>8
<1>. QED BY <1>2, <1>3

\* What the second loop drops is outside the window as well.
LEMMA TrimLeft ==
    ASSUME NEW past \in Seq(Times), NEW times \in Seq(Times), Left(times, past),
           NEW first \in 1 .. Len(times) + 1, Trims(times, first),
           NEW inside, inside = SubSeq(times, first, Len(times))
    PROVE  /\ inside \in Seq(Times) /\ Len(inside) = Len(times) - first + 1
           /\ \A i \in 1 .. Len(inside) : inside[i] = times[first + i - 1]
           /\ Left(inside, past)
<1>1. Len(times) \in Nat /\ Len(past) \in Nat BY LenProperties
<1>2. /\ inside \in Seq(Times) /\ Len(inside) = Len(times) - first + 1
      /\ \A i \in 1 .. Len(inside) : inside[i] = times[first + i - 1]
  <2>1. CASE first = Len(times) + 1
    <3>1. inside = <<>> /\ Len(<<>>) = 0 /\ <<>> \in Seq(Times)
      BY <1>1, <2>1, SubSeqProperties, EmptySeq
    <3>. QED BY <1>1, <2>1, <3>1
  <2>2. CASE first <= Len(times)
    <3>1. Len(times) \in first - 1 .. Len(times) BY <1>1, <2>2
    <3>. QED BY <1>1, <2>2, <3>1, SubSeqProperties
  <2>. QED BY <1>1, <2>1, <2>2
<1>3. \A i \in 1 .. Len(inside) : first + i - 1 \in 1 .. Len(times) BY <1>1, <1>2
<1>4. \A i \in 1 .. Len(inside) : inside[i] = past[Len(past) - Len(inside) + i]
  <2>. TAKE i \in 1 .. Len(inside)
  <2>1. inside[i] = past[Len(past) - Len(times) + (first + i - 1)] BY <1>2, <1>3 DEF Left
  <2>2. Len(past) - Len(times) + (first + i - 1) = Len(past) - Len(inside) + i
    BY <1>1, <1>2
  <2>. QED BY <2>1, <2>2
<1>5. \A i \in 1 .. Len(past) - Len(inside) : Outside(past[i])
  <2>. TAKE i \in 1 .. Len(past) - Len(inside)
  <2>1. CASE i <= Len(past) - Len(times)
    <3>1. i \in 1 .. Len(past) - Len(times) BY <1>1, <2>1
    <3>. QED BY <3>1 DEF Left
  <2>2. CASE i > Len(past) - Len(times)
    <3>. DEFINE j == i - (Len(past) - Len(times))
    <3>1. j \in 1 .. first - 1 /\ j \in 1 .. Len(times) /\ i = Len(past) - Len(times) + j
      BY <1>1, <1>2, <2>2
    <3>2. Outside(times[j]) BY <3>1 DEF Trims
    <3>3. times[j] = past[Len(past) - Len(times) + j] BY <3>1 DEF Left
    <3>. QED BY <3>1, <3>2, <3>3
  <2>. QED BY <1>1, <1>2, <2>1, <2>2
<1>6. Len(inside) <= Len(past) BY <1>1, <1>2 DEF Left
<1>. QED BY <1>2, <1>4, <1>5, <1>6 DEF Left

\* A new grant: the history forgets its oldest one when it is full.
LEMMA GrantLeft ==
    ASSUME clock \in Times, NEW past \in Seq(Times), NEW inside \in Seq(Times),
           Len(past) <= Attempts + 1, Len(inside) < Attempts,
           Left(inside, past), Ascending(past),
           NEW longer, longer = Append(Latest(past), clock)
    PROVE  /\ longer \in Seq(Times) /\ Len(longer) <= Attempts + 1
           /\ Append(inside, clock) \in Seq(Times) /\ Len(Append(inside, clock)) <= Attempts
           /\ Left(Append(inside, clock), longer) /\ Ascending(longer)
           /\ Len(longer) > Attempts => longer[Attempts + 1] - longer[1] >= Seconds
<1>. DEFINE n == Len(past)
            m == Len(inside)
            d == IF n > Attempts THEN 1 ELSE 0
            kept == Latest(past)
            more == Append(inside, clock)
<1>0. n \in Nat /\ m \in Nat /\ Attempts \in Nat \ {0} /\ Seconds \in Nat \ {0} /\ m <= n
  BY LenProperties, LimitAssumption DEF Left
<1>1. /\ kept \in Seq(Times) /\ Len(kept) = n - d /\ d \in {0, 1}
      /\ \A i \in 1 .. Len(kept) : kept[i] = past[i + d]
  <2>1. CASE n > Attempts
    <3>1. past # <<>> BY <1>0, <2>1, EmptySeq
    <3>2. kept = Tail(past) BY <2>1 DEF Latest
    <3>. QED BY <1>0, <2>1, <3>1, <3>2, HeadTailProperties
  <2>2. CASE ~(n > Attempts) BY <1>0, <2>2 DEF Latest
  <2>. QED BY <2>1, <2>2
<1>2. Len(kept) <= Attempts /\ m <= Len(kept) BY <1>0, <1>1
<1>3. \A i \in 1 .. Len(kept) : i + d \in 1 .. n BY <1>0, <1>1
<1>. HIDE DEF kept, d, n, m
<1>4. /\ longer \in Seq(Times) /\ Len(longer) = Len(kept) + 1
      /\ longer[Len(kept) + 1] = clock
      /\ \A i \in 1 .. Len(kept) : longer[i] = kept[i]
  BY <1>1, AppendProperties DEF kept
<1>5. /\ more \in Seq(Times) /\ Len(more) = m + 1 /\ more[m + 1] = clock
      /\ \A i \in 1 .. m : more[i] = inside[i]
  BY AppendProperties DEF m
<1>6. Len(longer) <= Attempts + 1 /\ Len(more) <= Attempts /\ Len(kept) \in Nat
  BY <1>0, <1>1, <1>2, <1>4, <1>5 DEF m
<1>. HIDE DEF more
<1>7. \A i \in 1 .. Len(kept) : longer[i] = past[i + d] /\ longer[i] \in Times
  BY <1>1, <1>3, <1>4, ElementOfSeq DEF n
<1>8. \A i \in 1 .. Len(longer) : i \in 1 .. Len(kept) \/ i = Len(kept) + 1
  BY <1>4, <1>6
<1>9. \A i \in 1 .. Len(kept) - m : Outside(longer[i])
  <2>. TAKE i \in 1 .. Len(kept) - m
  <2>1. i + d \in 1 .. n - m /\ i \in 1 .. Len(kept) BY <1>0, <1>1, <1>2, <1>6
  <2>. QED BY <1>7, <2>1 DEF Left, n, m
<1>10. Left(more, longer)
  <2>1. ASSUME NEW i \in 1 .. m PROVE more[i] = longer[Len(longer) - Len(more) + i]
    <3>1. inside[i] = past[n - m + i] BY DEF Left, n, m
    <3>2. Len(longer) - Len(more) + i = Len(kept) - m + i BY <1>0, <1>4, <1>5, <1>6
    <3>3. Len(kept) - m + i \in 1 .. Len(kept) BY <1>0, <1>2, <1>6
    <3>4. (Len(kept) - m + i) + d = n - m + i BY <1>0, <1>1, <1>6
    <3>. QED BY <1>5, <1>7, <3>1, <3>2, <3>3, <3>4
  <2>2. more[m + 1] = longer[Len(longer) - Len(more) + (m + 1)]
    <3>1. Len(longer) - Len(more) + (m + 1) = Len(kept) + 1 BY <1>0, <1>4, <1>5, <1>6
    <3>. QED BY <1>4, <1>5, <3>1
  <2>3. \A i \in 1 .. Len(more) : i \in 1 .. m \/ i = m + 1 BY <1>0, <1>5
  <2>4. \A i \in 1 .. Len(more) : more[i] = longer[Len(longer) - Len(more) + i]
    BY <2>1, <2>2, <2>3
  <2>5. Len(longer) - Len(more) = Len(kept) - m /\ Len(more) <= Len(longer)
    BY <1>0, <1>2, <1>4, <1>5, <1>6
  <2>. QED BY <1>9, <2>4, <2>5 DEF Left
<1>11. Ascending(longer)
  <2>1. \A i \in 1 .. Len(kept) : longer[i] <= clock BY <1>3, <1>7 DEF Ascending, n
  <2>2. clock <= clock BY DEF Times
  <2>3. \A i \in 1 .. Len(longer) : longer[i] <= clock BY <1>4, <1>8, <2>1, <2>2
  <2>4. ASSUME NEW i \in 1 .. Len(longer), NEW j \in 1 .. Len(longer), i <= j
        PROVE  longer[i] <= longer[j]
    <3>1. CASE j = Len(kept) + 1 BY <1>4, <2>3, <3>1
    <3>2. CASE j \in 1 .. Len(kept)
      <4>1. i \in 1 .. Len(kept) BY <1>6, <2>4, <3>2
      <4>2. i + d <= j + d /\ i + d \in 1 .. n /\ j + d \in 1 .. n
        BY <1>1, <1>3, <1>6, <2>4, <3>2, <4>1
      <4>. QED BY <1>7, <3>2, <4>1, <4>2 DEF Ascending, n
    <3>. QED BY <1>8, <3>1, <3>2
  <2>. QED BY <2>3, <2>4 DEF Ascending
<1>12. ASSUME Len(longer) > Attempts PROVE longer[Attempts + 1] - longer[1] >= Seconds
  <2>1. Len(kept) = Attempts /\ 1 \in 1 .. Len(kept) - m /\ 1 \in 1 .. Len(kept)
    BY <1>0, <1>2, <1>4, <1>6, <1>12 DEF m
  <2>2. Outside(longer[1]) /\ longer[1] \in Times BY <1>7, <1>9, <2>1
  <2>3. longer[Attempts + 1] = clock BY <1>4, <2>1
  <2>. QED BY <1>0, <2>2, <2>3, OutsideIs DEF Times
<1>. QED BY <1>4, <1>5, <1>6, <1>10, <1>11, <1>12 DEF more

\* A grant shows in the history, even when the oldest one is forgotten for it: the
\* place of the newest grant outside the window moves.
LEMMA GrantShows ==
    ASSUME clock \in Times, NEW past \in Seq(Times), NEW inside \in Seq(Times),
           Len(past) <= Attempts + 1, Len(inside) < Attempts, Left(inside, past),
           Len(inside) > 0 => ~Outside(inside[1])
    PROVE  Append(Latest(past), clock) # past
<1>. DEFINE n == Len(past)
            m == Len(inside)
            longer == Append(Latest(past), clock)
<1>0. n \in Nat /\ m \in Nat /\ Attempts \in Nat \ {0} /\ Seconds \in Nat \ {0} /\ m <= n
  BY LenProperties, LimitAssumption DEF Left
<1>1. CASE n <= Attempts
  <2>1. Latest(past) = past BY <1>0, <1>1 DEF Latest
  <2>2. Len(longer) = n + 1 BY <2>1, AppendProperties
  <2>. QED BY <1>0, <2>2
<1>2. CASE n > Attempts
  <2>1. n = Attempts + 1 /\ past # <<>> BY <1>0, <1>2, EmptySeq
  <2>2. Latest(past) = Tail(past) BY <1>2 DEF Latest
  <2>3. /\ Tail(past) \in Seq(Times) /\ Len(Tail(past)) = Attempts
        /\ \A i \in 1 .. Attempts : Tail(past)[i] = past[i + 1]
    BY <1>0, <2>1, HeadTailProperties
  <2>4. longer[Attempts + 1] = clock /\ \A i \in 1 .. Attempts : longer[i] = past[i + 1]
    BY <2>2, <2>3, AppendProperties
  <2>. HIDE DEF longer
  <2>5. CASE m = 0
    <3>1. Attempts + 1 \in 1 .. n - m BY <1>0, <2>1, <2>5
    <3>2. Outside(past[Attempts + 1]) BY <3>1 DEF Left
    <3>3. ~Outside(clock) BY <1>0 DEF Outside, Times
    <3>. QED BY <2>4, <3>2, <3>3 DEF longer
  <2>6. CASE m > 0
    <3>1. n - m \in 1 .. Attempts /\ n - m \in 1 .. n - m /\ 1 \in 1 .. m
      BY <1>0, <2>1, <2>6
    <3>2. Outside(past[n - m]) /\ inside[1] = past[n - m + 1] BY <3>1 DEF Left
    <3>3. longer[n - m] = past[n - m + 1] BY <2>4, <3>1
    <3>. QED BY <2>6, <3>2, <3>3 DEF longer
  <2>. QED BY <1>0, <2>5, <2>6
<1>. QED BY <1>0, <1>1, <1>2

\* One call of allow.
LEMMA AllowedGrants ==
    ASSUME IInv, GrantInv, NEW key \in Keys, Allow(key) PROVE GrantInv'
<1>. DEFINE kept == Buckets \ Evicted
            times == Remaining(kept)[key]
<1>1. clock' = clock /\ clock \in Times BY DEF Allow, GrantInv
<1>2. \A k \in Keys : Left(Remaining(kept)[k], granted[k])
                      /\ Len(Remaining(kept)[k]) <= Attempts
  BY RemainingLeft
<1>3. /\ Remaining(kept) \in [Keys -> Seq(Times)] /\ granted \in [Keys -> Seq(Times)]
      /\ \A k \in Keys : Len(granted[k]) <= Attempts + 1 /\ Ascending(granted[k])
      /\ \A k \in Keys : Len(granted[k]) > Attempts
             => granted[k][Attempts + 1] - granted[k][1] >= Seconds
  BY KeptTable DEF GrantInv, NeverMoreThanAttempts
<1>4. CASE RefuseNew(key, kept)
  <2>1. bucket' = Remaining(kept) /\ granted' = granted BY <1>4 DEF RefuseNew
  <2>. QED
    BY <1>1, <1>2, <1>3, <2>1 DEF GrantInv, NeverMoreThanAttempts, Left, Ascending, Outside
<1>5. CASE Count(key, kept)
  <2>1. PICK first \in 1 .. Len(times) + 1 :
            /\ Trims(times, first)
            /\ LET inside == SubSeq(times, first, Len(times))
               IN  IF Len(inside) < Attempts
                   THEN /\ bucket' = [Remaining(kept) EXCEPT ![key] = Append(inside, clock)]
                        /\ granted' = [granted EXCEPT
                                           ![key] = Append(Latest(granted[key]), clock)]
                   ELSE /\ bucket' = [Remaining(kept) EXCEPT ![key] = inside]
                        /\ granted' = granted
    BY <1>5 DEF Count
  <2>. DEFINE inside == SubSeq(times, first, Len(times))
  <2>2. times \in Seq(Times) /\ Len(times) \in Nat /\ Left(times, granted[key])
        /\ granted[key] \in Seq(Times) /\ Len(times) <= Attempts
    BY <1>2, <1>3, LenProperties
  <2>3. /\ inside \in Seq(Times) /\ Len(inside) = Len(times) - first + 1
        /\ Left(inside, granted[key])
    <3>1. Trims(times, first) BY <2>1
    <3>. HIDE DEF times
    <3>2. /\ inside \in Seq(Times) /\ Len(inside) = Len(times) - first + 1
          /\ \A i \in 1 .. Len(inside) : inside[i] = times[first + i - 1]
          /\ Left(inside, granted[key])
      BY <2>2, <3>1, TrimLeft
    <3>. QED BY <3>2
  <2>4. Len(inside) <= Attempts BY <2>2, <2>3, LimitAssumption
  <2>5. PICK new, past :
            /\ bucket' = [Remaining(kept) EXCEPT ![key] = new]
            /\ granted' = [granted EXCEPT ![key] = past]
            /\ new \in Seq(Times) /\ past \in Seq(Times)
            /\ Len(past) <= Attempts + 1 /\ Len(new) <= Attempts
            /\ Left(new, past) /\ Ascending(past)
            /\ Len(past) > Attempts => past[Attempts + 1] - past[1] >= Seconds
    <3>1. CASE Len(inside) < Attempts
      <4>. DEFINE past == Append(Latest(granted[key]), clock)
      <4>1. /\ past \in Seq(Times) /\ Len(past) <= Attempts + 1
            /\ Append(inside, clock) \in Seq(Times) /\ Len(Append(inside, clock)) <= Attempts
            /\ Left(Append(inside, clock), past) /\ Ascending(past)
            /\ Len(past) > Attempts => past[Attempts + 1] - past[1] >= Seconds
        BY <1>1, <1>3, <2>2, <2>3, <3>1, GrantLeft
      <4>2. /\ bucket' = [Remaining(kept) EXCEPT ![key] = Append(inside, clock)]
            /\ granted' = [granted EXCEPT ![key] = past]
        BY <2>1, <3>1
      <4>. HIDE DEF past, inside
      <4>. QED BY <4>1, <4>2
    <3>2. CASE ~(Len(inside) < Attempts)
      <4>1. bucket' = [Remaining(kept) EXCEPT ![key] = inside] /\ granted' = granted
        BY <2>1, <3>2
      <4>2. granted' = [granted EXCEPT ![key] = granted[key]] BY <1>3, <4>1
      <4>. HIDE DEF inside
      <4>. QED BY <1>3, <2>2, <2>3, <2>4, <4>1, <4>2
    <3>. QED BY <3>1, <3>2
  <2>6. /\ bucket' \in [Keys -> Seq(Times)] /\ granted' \in [Keys -> Seq(Times)]
        /\ bucket'[key] = new /\ granted'[key] = past
        /\ \A k \in Keys \ {key} :
               bucket'[k] = Remaining(kept)[k] /\ granted'[k] = granted[k]
    BY <1>3, <2>5
  <2>7. ASSUME NEW k \in Keys
        PROVE  /\ Len(granted'[k]) <= Attempts + 1 /\ Len(bucket'[k]) <= Attempts
               /\ Left(bucket'[k], granted'[k]) /\ Ascending(granted'[k])
               /\ Len(granted'[k]) > Attempts
                      => granted'[k][Attempts + 1] - granted'[k][1] >= Seconds
    <3>1. CASE k = key BY <2>5, <2>6, <3>1
    <3>2. CASE k # key BY <1>2, <1>3, <2>6, <3>2
    <3>. QED BY <3>1, <3>2
  <2>. QED
    BY <1>1, <2>6, <2>7 DEF GrantInv, NeverMoreThanAttempts, Left, Ascending, Outside
<1>. QED BY <1>4, <1>5 DEF Allow

LEMMA GrantsStarted == Init => GrantInv
<1>. SUFFICES ASSUME Init PROVE GrantInv OBVIOUS
<1>1. clock \in Times /\ Attempts \in Nat BY LimitAssumption DEF Init, Times
<1>2. <<>> \in Seq(Times) /\ Len(<<>>) = 0 OBVIOUS
<1>3. Left(<<>>, <<>>) /\ Ascending(<<>>) BY <1>2 DEF Left, Ascending
<1>. QED BY <1>1, <1>2, <1>3 DEF Init, GrantInv, NeverMoreThanAttempts

LEMMA StaysOutside ==
    ASSUME NEW now \in Times, NEW later \in Times, now < later,
           NEW t \in Times, t <= now - Seconds
    PROVE  t <= later - Seconds
  BY LimitAssumption DEF Times

LEMMA GrantsStepped == IInv /\ GrantInv /\ [Next]_vars => GrantInv'
<1>. SUFFICES ASSUME IInv, GrantInv, [Next]_vars PROVE GrantInv' OBVIOUS
<1>1. CASE Advance
  <2>1. clock' \in Times /\ clock < clock' /\ UNCHANGED <<bucket, granted>> /\ clock \in Times
    BY <1>1, LimitAssumption DEF Advance, GrantInv, Times
  <2>2. ASSUME NEW k \in Keys
        PROVE  /\ Left(bucket[k], granted[k])' /\ Ascending(granted[k])'
    <3>1. granted[k] \in Seq(Times) /\ Left(bucket[k], granted[k]) /\ Ascending(granted[k])
      BY DEF GrantInv
    <3>2. \A i \in 1 .. Len(granted[k]) : granted[k][i] \in Times BY <3>1, ElementOfSeq
    <3>3. \A i \in 1 .. Len(granted[k]) : granted[k][i] <= clock'
      BY <2>1, <3>1, <3>2 DEF Ascending, Times
    <3>4. \A t \in Times : t <= clock - Seconds => t <= clock' - Seconds
      BY <2>1, StaysOutside
    <3>5. \A i \in 1 .. Len(granted[k]) - Len(bucket[k]) : i \in 1 .. Len(granted[k])
      <4>1. bucket[k] \in Seq(Times) BY DEF GrantInv
      <4>2. Len(bucket[k]) \in Nat /\ Len(granted[k]) \in Nat BY <3>1, <4>1, LenProperties
      <4>. QED BY <4>2
    <3>6. \A i \in 1 .. Len(granted[k]) - Len(bucket[k]) : Outside(granted[k][i])'
      BY <2>1, <3>1, <3>2, <3>4, <3>5 DEF Left, Outside
    <3>. QED BY <2>1, <3>1, <3>3, <3>6 DEF Left, Ascending
  <2>. QED BY <2>1, <2>2 DEF GrantInv, NeverMoreThanAttempts
<1>2. ASSUME NEW key \in Keys, Allow(key) PROVE GrantInv' BY <1>2, AllowedGrants
<1>3. CASE UNCHANGED vars
  BY <1>3 DEF vars, GrantInv, NeverMoreThanAttempts, Left, Ascending, Outside
<1>. QED BY <1>1, <1>2, <1>3 DEF Next

\* RateLimit.allow: whatever is evicted and however many attempts are refused in
\* between, a key is never granted more than the limit in a window.
THEOREM NeverExceedsAttempts == Spec => []NeverMoreThanAttempts
<1>1. GrantInv => NeverMoreThanAttempts BY DEF GrantInv
<1>. QED BY <1>1, Started, Stepped, GrantsStarted, GrantsStepped, PTL DEF Spec

\* RateLimit.allow: refused attempts do not count, and a bucket never holds an attempt
\* that is over; a key that is refused has used up its window or found the table full.
THEOREM AlwaysRefusesExcess == Spec => RefusesOnlyExcess
<1>. DEFINE Fair(k) == Allow(k) /\ granted'[k] = granted[k]
                => UsedUp(k) \/ Cardinality(Buckets' \ {k}) >= Capacity
<1>1. ASSUME IInv, GrantInv, NEW k \in Keys, Allow(k), granted'[k] = granted[k]
      PROVE  UsedUp(k) \/ Cardinality(Buckets' \ {k}) >= Capacity
  <2>. DEFINE kept == Buckets \ Evicted
              times == Remaining(kept)[k]
  <2>1. /\ kept \subseteq Keys /\ Remaining(kept) \in [Keys -> Seq(Times)]
        /\ \A j \in Keys : Remaining(kept)[j] # <<>> <=> j \in kept
    BY <1>1, KeptTable
  <2>2. CASE RefuseNew(k, kept)
    <3>1. Buckets' = kept /\ k \notin kept /\ Full(kept)
      BY <2>1, <2>2 DEF RefuseNew, Buckets
    <3>2. kept \ {k} = kept BY <3>1
    <3>. QED BY <3>1, <3>2 DEF Full
  <2>3. CASE Count(k, kept)
    <3>1. PICK first \in 1 .. Len(times) + 1 :
              /\ Trims(times, first)
              /\ \/ ~(Len(SubSeq(times, first, Len(times))) < Attempts)
                 \/ granted' = [granted EXCEPT ![k] = Append(Latest(granted[k]), clock)]
      BY <2>3 DEF Count
    <3>. DEFINE inside == SubSeq(times, first, Len(times))
    <3>2. /\ times \in Seq(Times) /\ Len(times) \in Nat /\ Left(times, granted[k])
          /\ granted \in [Keys -> Seq(Times)] /\ Len(granted[k]) \in Nat
          /\ Len(times) <= Attempts /\ clock \in Times
      BY <1>1, <2>1, RemainingLeft, LenProperties DEF GrantInv
    <3>3. /\ inside \in Seq(Times) /\ Len(inside) = Len(times) - first + 1
          /\ \A i \in 1 .. Len(inside) : inside[i] = times[first + i - 1]
          /\ Left(inside, granted[k])
      <4>1. Trims(times, first) BY <3>1
      <4>. HIDE DEF times
      <4>. QED BY <3>2, <4>1, TrimLeft
    <3>4. Len(inside) > 0 => ~Outside(inside[1])
      <4>. SUFFICES ASSUME Len(inside) > 0 PROVE ~Outside(inside[1]) OBVIOUS
      <4>1. first <= Len(times) /\ 1 \in 1 .. Len(inside) /\ first + 1 - 1 = first
        BY <3>2, <3>3
      <4>2. inside[1] = times[first] BY <3>3, <4>1
      <4>. HIDE DEF inside
      <4>. QED BY <3>1, <4>1, <4>2 DEF Trims
    <3>. HIDE DEF inside
    <3>5. ~(Len(inside) < Attempts)
      <4>. SUFFICES ASSUME Len(inside) < Attempts PROVE FALSE OBVIOUS
      <4>1. granted' = [granted EXCEPT ![k] = Append(Latest(granted[k]), clock)]
        BY <3>1 DEF inside
      <4>2. granted'[k] = Append(Latest(granted[k]), clock) BY <3>2, <4>1
      <4>3. granted[k] \in Seq(Times) /\ Len(granted[k]) <= Attempts + 1
        BY <1>1, <3>2 DEF GrantInv
      <4>4. Append(Latest(granted[k]), clock) # granted[k]
        BY <3>2, <3>3, <3>4, <4>3, GrantShows
      <4>. QED BY <1>1, <4>2, <4>4
    <3>6. first = 1 /\ Len(times) = Attempts /\ 1 \in 1 .. Len(times)
      BY <3>2, <3>3, <3>5, LimitAssumption
    <3>7. ~Outside(times[1]) BY <3>1, <3>6 DEF Trims
    <3>8. times[1] = granted[k][Len(granted[k]) - Attempts + 1] /\ Len(granted[k]) >= Attempts
      BY <3>2, <3>6 DEF Left
    <3>9. times[1] \in Times BY <3>2, <3>6, ElementOfSeq
    <3>. QED BY <3>2, <3>7, <3>8, <3>9, LimitAssumption DEF UsedUp, Outside, Times
  <2>. QED BY <1>1, <2>2, <2>3 DEF Allow
<1>2. IInv /\ GrantInv => [\A k \in Keys : Fair(k)]_vars BY <1>1
<1>. QED
  BY <1>2, Started, Stepped, GrantsStarted, GrantsStepped, PTL DEF Spec, RefusesOnlyExcess
===============================================================================
