------------------------------- MODULE RateLimit -------------------------------
(***************************************************************************)
(* The relay's limiter of password attempts: class RateLimit of            *)
(* remoteinput/registry.py.  The relay asks it for the peer's address and  *)
(* for the target's ID before it checks a password.                        *)
(*                                                                         *)
(* The table is an OrderedDict from keys to the times of granted attempts. *)
(* A key without a bucket has the empty sequence here (a bucket is never   *)
(* left empty), and the order of the dict is, for each key, the set of the *)
(* buckets ahead of its own.  Every attempt moves its bucket to the end,   *)
(* also one that is refused, so the order is not that of the last grants.  *)
(***************************************************************************)
EXTENDS Integers, Sequences, FiniteSets

CONSTANTS
    Keys,      \* addresses and IDs
    Attempts,  \* attempts granted in a window, 8
    Seconds,   \* ticks of a window, 60 s
    Capacity,  \* buckets in the table, 10000
    MaxClock   \* bound: last tick of the clock

ASSUME LimitAssumption ==
    /\ Attempts \in Nat \ {0} /\ Seconds \in Nat \ {0} /\ Capacity \in Nat \ {0}
    /\ MaxClock \in Nat

VARIABLES
    clock,
    bucket, ahead,
    \* --- history ---
    granted,  \* for each key the times of its last Attempts + 1 granted attempts
    called,   \* for each key the time of the last attempt, granted or not
    swept     \* the time of the last attempt of any key

vars == <<clock, bucket, ahead, granted, called, swept>>

Never == -Seconds

Init ==
    /\ clock = 0 /\ swept = 0
    /\ bucket = [k \in Keys |-> <<>>]
    /\ ahead = [k \in Keys |-> {}]
    /\ granted = [k \in Keys |-> <<>>]
    /\ called = [k \in Keys |-> Never]

-------------------------------------------------------------------------------

Buckets == {k \in Keys : bucket[k] # <<>>}

Outside_Late(t) == t < clock - Seconds
Outside(t) == t <= clock - Seconds

\* The newest attempt of a bucket is outside the window.
Expired_OldestAttempt(k) == Outside(bucket[k][1])
Expired(k) == Outside(bucket[k][Len(bucket[k])])

\* The first loop of allow drops expired buckets from the front until one is not.
Evicted == {k \in Buckets : Expired(k) /\ \A j \in ahead[k] : Expired(j)}

\* The second loop drops attempts from the front of a bucket until one is inside.
Trims(times, first) ==
    /\ \A i \in 1 .. first - 1 : Outside(times[i])
    /\ first <= Len(times) => ~Outside(times[first])

\* move_to_end.
Order_OfInsertion(key, kept) ==
    [k \in Keys |-> IF k = key /\ k \notin kept THEN kept
                    ELSE IF k \in kept THEN ahead[k] \cap kept ELSE {}]

Order(key, kept) ==
    [k \in Keys |-> IF k = key THEN kept \ {key}
                    ELSE IF k \in kept THEN (ahead[k] \cap kept) \ {key} ELSE {}]

Remaining(kept) == [k \in Keys |-> IF k \in kept THEN bucket[k] ELSE <<>>]

Full_OffByOne(kept) == Cardinality(kept) > Capacity
Full(kept) == Cardinality(kept) >= Capacity

\* A new key finds the table full.
RefuseNew(key, kept) ==
    /\ key \notin kept /\ Full(kept)
    /\ bucket' = Remaining(kept)
    /\ ahead' = [k \in Keys |-> IF k \in kept THEN ahead[k] \cap kept ELSE {}]
    /\ UNCHANGED granted

\* What the history keeps when an attempt is added.
Latest(times) == IF Len(times) > Attempts THEN Tail(times) ELSE times

Count(key, kept) ==
    /\ key \in kept \/ ~Full(kept)
    /\ \E first \in 1 .. Len(Remaining(kept)[key]) + 1 :
        LET times == Remaining(kept)[key]
            inside == SubSeq(times, first, Len(times))
        IN  /\ Trims(times, first)
            /\ IF Len(inside) < Attempts
               THEN /\ bucket' = [Remaining(kept) EXCEPT ![key] = Append(inside, clock)]
                    /\ granted' = [granted EXCEPT ![key] = Append(Latest(@), clock)]
               ELSE /\ bucket' = [Remaining(kept) EXCEPT ![key] = inside]
                    /\ UNCHANGED granted
    /\ ahead' = Order(key, kept)

Allow(key) ==
    /\ LET kept == Buckets \ Evicted IN RefuseNew(key, kept) \/ Count(key, kept)
    /\ called' = [called EXCEPT ![key] = clock]
    /\ swept' = clock
    /\ UNCHANGED clock

Advance ==
    /\ clock < MaxClock /\ clock' = clock + 1
    /\ UNCHANGED <<bucket, ahead, granted, called, swept>>

Next == Advance \/ \E key \in Keys : Allow(key)

Spec == Init /\ [][Next]_vars

-------------------------------------------------------------------------------

Times == 0 .. MaxClock

\* The type invariant; the table never exceeds its capacity.
TypeOK ==
    /\ clock \in Times /\ swept \in Times
    /\ bucket \in [Keys -> Seq(Times)]
    /\ ahead \in [Keys -> SUBSET Keys]
    /\ called \in [Keys -> Times \cup {Never}]
    /\ Cardinality(Buckets) <= Capacity

\* No key is granted more than Attempts in any window of Seconds, whatever is evicted
\* in between ("Do not evict active buckets"): of Attempts + 1 successive grants the
\* first is outside the window of the last.
NeverMoreThanAttempts ==
    \A k \in Keys : Len(granted[k]) > Attempts =>
        granted[k][Attempts + 1] - granted[k][1] >= Seconds

\* The last Attempts grants of a key are in the window that ends now.
UsedUp(k) ==
    /\ Len(granted[k]) >= Attempts
    /\ granted[k][Len(granted[k]) - Attempts + 1] > clock - Seconds

\* An attempt is refused only when its key was granted Attempts in the window, or the
\* table is full of other keys: the attempts that were refused do not count.
RefusesOnlyExcess ==
    [][\A k \in Keys :
        Allow(k) /\ granted'[k] = granted[k]
            => UsedUp(k) \/ Cardinality(Buckets' \ {k}) >= Capacity]_vars

\* A key keeps its place in the table no longer than Seconds after its last attempt,
\* although an expired bucket can hide behind one that is not: the key that fills the
\* table is one that still tries.
PlacesAreRecent == \A k \in Buckets : called[k] > swept - Seconds
===============================================================================
