------------------------- MODULE LocalRateLimitProofs -------------------------
(***************************************************************************)
(* Proofs about LocalRateLimit: however many addresses call, the map keeps *)
(* to its bound and its promises to the addresses it has room for.         *)
(***************************************************************************)
EXTENDS LocalRateLimit, FiniteSetTheorems, TLAPS

LEMMA Rule ==
  /\ MaximumEntries \in Nat \ {0} /\ MaximumAttempts \in Nat \ {0}
  /\ Window \in Nat \ {0} /\ Block \in Nat \ {0}
  /\ MaxTime \in Nat /\ MaxCount \in Nat
BY LocalAssumption

----------------------------------------------------------------------------
(* Windows *)

LEMMA Windows ==
  ASSUME NEW at \in Nat
  PROVE  /\ WindowStart(at) \in Nat /\ WindowStart(at) <= at
         /\ at < WindowStart(at) + Window
         /\ \E p \in Nat : WindowStart(at) = p * Window
<1>1. Window \in Nat \ {0}
  BY Rule
<1>2. at % Window \in 0 .. Window - 1 /\ at - (at % Window) \in Nat
  BY <1>1
<1>3. at - (at % Window) = (at \div Window) * Window /\ at \div Window \in Nat
  BY <1>1
<1>4. WindowStart(at) = at - (at % Window)
  BY DEF WindowStart
<1>5. \E p \in Nat : WindowStart(at) = p * Window
  BY <1>3, <1>4
<1> QED
  BY <1>1, <1>2, <1>4, <1>5

\* Two windows that contain the same instant are one.
LEMMA OneWindow ==
  ASSUME NEW p \in Nat, NEW q \in Nat, NEW at \in Nat,
         p * Window <= at, at < p * Window + Window,
         q * Window <= at, at < q * Window + Window
  PROVE  p = q
<1>1. Window \in Nat \ {0}
  BY Rule
<1>2. ASSUME NEW a \in Nat, NEW b \in Nat, a < b
      PROVE  a * Window + Window <= b * Window
  BY <1>1, <1>2
<1>3. p * Window \in Nat /\ q * Window \in Nat
  BY <1>1
<1> QED
  BY <1>1, <1>2, <1>3

LEMMA SameWindow ==
  ASSUME NEW start \in Nat, NEW at \in Nat, start = WindowStart(start),
         start <= at, at < start + Window
  PROVE  WindowStart(at) = start
<1>1. PICK p \in Nat : WindowStart(at) = p * Window
  BY Windows
<1>2. PICK q \in Nat : start = q * Window
  BY Windows
<1>3. p * Window <= at /\ at < p * Window + Window
  BY <1>1, Windows
<1>4. p = q
  BY <1>2, <1>3, OneWindow
<1> QED
  BY <1>1, <1>2, <1>4

LEMMA StartsAWindow ==
  ASSUME NEW at \in Nat
  PROVE  WindowStart(WindowStart(at)) = WindowStart(at)
<1>1. PICK start \in Nat : start = WindowStart(at)
  BY Windows
<1>2. PICK p \in Nat : start = p * Window
  BY <1>1, Windows
<1>3. PICK q \in Nat : WindowStart(start) = q * Window
  BY Windows
<1>4. q * Window <= start /\ start < q * Window + Window
  BY <1>3, Windows
<1>5. p * Window <= start /\ start < p * Window + Window
  BY <1>2, Rule
<1>6. p = q
  BY <1>4, <1>5, OneWindow
<1> QED
  BY <1>1, <1>2, <1>3, <1>6

----------------------------------------------------------------------------
(* The order of the map and what it drops *)

\* The newest are fewer than the map may hold: no two entries have equally many
\* newer ones.
LEMMA NewestBound ==
  ASSUME Ordered, NEW keys \in SUBSET Known, Known \subseteq Network, IsFiniteSet(keys)
  PROVE  /\ NewestOf(keys) \subseteq keys /\ IsFiniteSet(NewestOf(keys))
         /\ Cardinality(NewestOf(keys)) <= MaximumEntries - 1
<1> DEFINE rank == [k \in keys |-> Cardinality(newer[k] \cap keys)]
           newest == NewestOf(keys)
<1>1. newest \subseteq keys /\ IsFiniteSet(newest) /\ Cardinality(newest) \in Nat
  BY FS_Subset, FS_CardinalityType DEF NewestOf
<1>2. \A k \in keys : IsFiniteSet(newer[k] \cap keys) /\ rank[k] \in Nat
  BY FS_Subset, FS_CardinalityType
<1>3. ASSUME NEW j \in keys, NEW k \in keys, j \in newer[k]
      PROVE  rank[j] < rank[k]
  <2>1. newer[j] \cap keys \in SUBSET (newer[k] \cap keys)
    BY <1>3 DEF Ordered
  <2>2. newer[j] \cap keys # newer[k] \cap keys
    BY <1>3 DEF Ordered
  <2> QED
    BY <1>2, <2>1, <2>2, FS_Subset
<1>4. SUFFICES ASSUME Cardinality(newest) > MaximumEntries - 1 PROVE FALSE
  BY <1>1, Rule DEF NewestOf
<1>5. \A k \in newest : k \in keys /\ rank[k] < MaximumEntries - 1
  BY DEF NewestOf
<1> HIDE DEF newest, rank
<1>6. ASSUME NEW j \in keys, NEW k \in keys, j # k
      PROVE  rank[j] # rank[k]
  <2>1. j \in newer[k] \/ k \in newer[j]
    BY <1>6 DEF Ordered
  <2>2. rank[j] \in Nat /\ rank[k] \in Nat
    BY <1>2
  <2> QED
    BY <1>3, <2>1, <2>2
<1> DEFINE ranks == [k \in newest |-> rank[k]]
<1>7. /\ IsFiniteSet(0 .. MaximumEntries - 2)
      /\ Cardinality(0 .. MaximumEntries - 2) = MaximumEntries - 1
  BY FS_Interval, Rule
<1>8. ranks \in [newest -> 0 .. MaximumEntries - 2]
  <2>1. ASSUME NEW k \in newest PROVE rank[k] \in 0 .. MaximumEntries - 2
    <3>1. rank[k] \in Nat /\ rank[k] < MaximumEntries - 1
      BY <1>2, <1>5
    <3> QED
      BY <3>1, Rule
  <2> QED
    BY <2>1
<1>9. Cardinality(0 .. MaximumEntries - 2) < Cardinality(newest)
  BY <1>1, <1>4, <1>7, Rule
<1> HIDE DEF ranks
<1>10. PICK j \in newest, k \in newest : j # k /\ ranks[j] = ranks[k]
  BY <1>1, <1>7, <1>8, <1>9, FS_PigeonHole
<1>11. rank[j] = rank[k]
  BY <1>10 DEF ranks
<1> QED
  BY <1>5, <1>6, <1>10, <1>11

\* What is left is less than a full map, and it drops an entry that matters only
\* when as many newer ones take its place.
LEMMA PrunedFacts ==
  ASSUME LocalInv
  PROVE  /\ Pruned \subseteq Known /\ IsFiniteSet(Pruned)
         /\ Cardinality(Pruned) <= MaximumEntries - 1
         /\ \A k \in Known : Live(k) /\ Cardinality(newer[k]) < MaximumEntries - 1
              => k \in Pruned
         /\ \A k \in Known : Live(k) /\ Cardinality(Known) < MaximumEntries
              => k \in Pruned
<1> DEFINE live == {k \in Known : Live(k)}
<1>1. /\ Ordered /\ Known \subseteq Network /\ IsFiniteSet(Known)
      /\ live \in SUBSET Known /\ IsFiniteSet(live)
  BY FS_Subset DEF LocalInv, TypeOK
<1>2. /\ Pruned \subseteq live /\ IsFiniteSet(Pruned)
      /\ Cardinality(Pruned) <= MaximumEntries - 1
  BY <1>1, NewestBound DEF Pruned
<1>3. ASSUME NEW k \in Known, Live(k), Cardinality(newer[k]) < MaximumEntries - 1
      PROVE  k \in Pruned
  <2>1. newer[k] \cap live \in SUBSET newer[k] /\ IsFiniteSet(newer[k])
    BY <1>1 DEF Ordered
  <2>2. Cardinality(newer[k] \cap live) <= Cardinality(newer[k])
    BY <2>1, FS_Subset
  <2>3. Cardinality(newer[k] \cap live) \in Nat /\ Cardinality(newer[k]) \in Nat
    BY <2>1, FS_Subset, FS_CardinalityType
  <2> QED
    BY <1>3, <2>2, <2>3, Rule DEF Pruned, NewestOf
<1>4. ASSUME NEW k \in Known, Live(k), Cardinality(Known) < MaximumEntries
      PROVE  k \in Pruned
  <2>1. /\ newer[k] \cap live \in SUBSET (Known \ {k}) /\ IsFiniteSet(Known \ {k})
        /\ Cardinality(Known \ {k}) = Cardinality(Known) - 1
    BY <1>1, FS_RemoveElement DEF Ordered
  <2>2. Cardinality(newer[k] \cap live) <= Cardinality(Known \ {k})
    BY <2>1, FS_Subset
  <2>3. Cardinality(newer[k] \cap live) \in Nat /\ Cardinality(Known) \in Nat
    BY <1>1, <2>1, FS_Subset, FS_CardinalityType
  <2> QED
    BY <1>4, <2>1, <2>2, <2>3, Rule DEF Pruned, NewestOf
<1> QED
  BY <1>1, <1>2, <1>3, <1>4

----------------------------------------------------------------------------
(* A call *)

\* The entry a call counts in is of the current window, and has counted every
\* admission of that window that the map remembers.
LEMMA FoundFacts ==
  ASSUME LocalInv, NEW key \in Network, NEW f, f = Found(key),
         NEW past \in [0 .. MaxTime -> Nat],
         \A w \in 0 .. MaxTime :
           past[w] = IF key \in Known \ Pruned THEN 0 ELSE admitted[key][w]
  PROVE  /\ f \in Entry /\ f.start = WindowStart(now)
         /\ \A w \in 0 .. MaxTime :
              /\ w = f.start => past[w] <= f.count
              /\ w > f.start => past[w] = 0
         /\ key \in Pruned /\ entries[key].blocked > now =>
              f.blocked = entries[key].blocked
<1>1. /\ now \in Nat /\ Pruned \subseteq Known /\ entries \in [Known -> Entry]
      /\ admitted \in [Network -> [0 .. MaxTime -> Nat]]
      /\ WindowStart(now) \in Nat /\ WindowStart(now) <= now
      /\ now < WindowStart(now) + Window /\ Window \in Nat \ {0}
  <2>1. now \in Nat /\ TypeOK
    BY Rule DEF LocalInv, TypeOK
  <2>2. Pruned \subseteq Known
    BY PrunedFacts
  <2> QED
    BY <2>1, <2>2, Windows, Rule DEF TypeOK
<1>2. CASE key \notin Pruned
  <2>1. f = [count |-> 0, start |-> WindowStart(now), blocked |-> 0]
    BY <1>2 DEF Found
  <2>2. \A w \in 0 .. MaxTime : past[w] = 0
    BY <1>2 DEF LocalInv, NoCalls
  <2> QED
    BY <1>1, <1>2, <2>1, <2>2 DEF Entry
<1>3. CASE key \in Pruned
  <2>1. PICK e \in Entry : e = entries[key]
    BY <1>1, <1>3
  <2>5. /\ f = Renewed(e) /\ Counts(key)
        /\ \A w \in 0 .. MaxTime : past[w] = admitted[key][w]
    BY <1>1, <1>3, <2>1 DEF Found, LocalInv
  <2>2. /\ e.start \in Nat /\ e.count \in Nat /\ e.blocked \in Nat
        /\ e.start = WindowStart(e.start) /\ e.start <= now
        /\ \A w \in 0 .. MaxTime : /\ w = e.start => past[w] <= e.count
                                   /\ w > e.start => past[w] = 0
    BY <2>1, <2>5 DEF Counts, Entry
  <2>3. CASE now >= e.start + Window
    <3>1. f = [e EXCEPT !.count = 0, !.start = WindowStart(now),
                        !.blocked = IF e.blocked > now THEN e.blocked ELSE 0]
      BY <2>3, <2>5 DEF Renewed
    <3>2. /\ f \in Entry /\ f.start = WindowStart(now) /\ f.count = 0
          /\ f.blocked = IF e.blocked > now THEN e.blocked ELSE 0
      <4>1. PICK blocked \in Nat : blocked = IF e.blocked > now THEN e.blocked ELSE 0
        BY <2>2
      <4>2. f = [e EXCEPT !.count = 0, !.start = WindowStart(now), !.blocked = blocked]
        BY <3>1, <4>1
      <4>3. PICK start \in Nat : start = WindowStart(now)
        BY <1>1
      <4> DEFINE none == 0
      <4>6. none \in Nat
        OBVIOUS
      <4> HIDE DEF none
      <4>4. f = [e EXCEPT !.count = none, !.start = start, !.blocked = blocked]
        BY <4>2, <4>3 DEF none
      <4>5. f \in Entry /\ f.start = start /\ f.count = none /\ f.blocked = blocked
        BY <4>4, <4>6 DEF Entry
      <4> QED
        BY <4>1, <4>3, <4>5 DEF none
    <3>3. WindowStart(now) > e.start
      BY <1>1, <2>2, <2>3
    <3>4. ASSUME NEW w \in 0 .. MaxTime, w >= f.start
          PROVE  past[w] = 0
      <4>1. w \in Int /\ w > e.start
        BY <1>1, <2>2, <3>2, <3>3, <3>4
      <4>2. \A v \in 0 .. MaxTime : v > e.start => past[v] = 0
        BY <2>2
      <4> QED
        BY <4>1, <4>2
    <3>5. key \in Pruned /\ entries[key].blocked > now => f.blocked = entries[key].blocked
      BY <2>1, <3>2
    <3>6. \A w \in 0 .. MaxTime : (w = f.start => past[w] <= f.count)
                                 /\ (w > f.start => past[w] = 0)
      BY <1>1, <3>2, <3>4
    <3> QED
      BY <3>2, <3>5, <3>6
  <2>4. CASE now < e.start + Window
    <3>1. f = e
      BY <1>1, <2>5, <2>2, <2>4 DEF Renewed
    <3>2. WindowStart(now) = e.start
      BY <1>1, <2>2, <2>4, SameWindow
    <3>3. \A w \in 0 .. MaxTime : /\ w = f.start => past[w] <= f.count
                                  /\ w > f.start => past[w] = 0
      BY <2>2, <3>1
    <3> QED
      BY <2>1, <3>1, <3>2, <3>3
  <2> QED
    BY <1>1, <2>2, <2>3, <2>4, Rule
<1> QED
  BY <1>2, <1>3

\* A call counts; it is refused while the entry is blocked, which it becomes
\* when the count exceeds the maximum.
LEMMA CountedFacts ==
  ASSUME now \in Nat, NEW f \in Entry, NEW e, e = Counted(f)
  PROVE  /\ e \in Entry /\ e.start = f.start /\ e.count = f.count + 1
         /\ e.blocked <= now => f.count + 1 <= MaximumAttempts
         /\ f.blocked > now => e.blocked = f.blocked
<1>1. f.count \in Nat /\ f.count + 1 \in Nat /\ f.start \in Nat /\ f.blocked \in Nat
  BY DEF Entry
<1>2. PICK blocked \in Nat :
        blocked = IF f.count + 1 > MaximumAttempts /\ f.blocked <= now
                  THEN now + Block ELSE f.blocked
  BY <1>1, Rule
<1>3. e = [f EXCEPT !.count = f.count + 1, !.blocked = blocked]
  BY <1>2 DEF Counted
<1>4. e \in Entry /\ e.count = f.count + 1 /\ e.start = f.start /\ e.blocked = blocked
  BY <1>1, <1>3 DEF Entry
<1> QED
  BY <1>1, <1>2, <1>4, Rule

\* The order after a call is one again, with the caller last.
LEMMA Reordered ==
  ASSUME LocalInv, NEW key \in Network, Consume(key)
  PROVE  /\ newer' \in [Network -> SUBSET Network] /\ since' = newer'
         /\ \A k \in Network : newer'[k] = IF k = key THEN {} ELSE newer[k] \cup {key}
         /\ Known' = Pruned \cup {key} /\ Ordered'
<1>1. /\ newer \in [Network -> SUBSET Network] /\ since = newer
      /\ newer' = [k \in Network |-> IF k = key THEN {} ELSE newer[k] \cup {key}]
      /\ since' = [k \in Network |-> IF k = key THEN {} ELSE since[k] \cup {key}]
  BY DEF LocalInv, TypeOK, Consume, Last
<1>2. /\ newer' \in [Network -> SUBSET Network] /\ since' = newer'
      /\ \A k \in Network : newer'[k] = IF k = key THEN {} ELSE newer[k] \cup {key}
  BY <1>1
<1>3. Known' = Pruned \cup {key} /\ Pruned \subseteq Known
  BY PrunedFacts DEF Consume, Known
<1>4. ASSUME NEW k \in Network
      PROVE  IsFiniteSet(newer'[k]) /\ k \notin newer'[k]
  <2>1. IsFiniteSet(newer[k]) /\ k \notin newer[k]
    BY DEF LocalInv, Ordered
  <2>2. IsFiniteSet(newer[k] \cup {key}) /\ IsFiniteSet({})
    BY <2>1, FS_AddElement, FS_EmptySet
  <2> QED
    BY <1>2, <2>1, <2>2
<1>5. ASSUME NEW k \in Network, NEW j \in newer'[k]
      PROVE  newer'[j] \subseteq newer'[k]
  <2>1. k # key /\ (j = key \/ j \in newer[k]) /\ j \in Network
    BY <1>1, <1>2, <1>5
  <2> QED
    BY <1>2, <2>1 DEF LocalInv, Ordered
<1>6. ASSUME NEW j \in Known', NEW k \in Known'
      PROVE  j = k \/ j \in newer'[k] \/ k \in newer'[j]
  <2>1. (j = key \/ j \in Known) /\ (k = key \/ k \in Known)
    BY <1>3, <1>6
  <2>2. j \in Network /\ k \in Network
    BY <2>1 DEF LocalInv, TypeOK
  <2> QED
    BY <1>2, <2>1, <2>2 DEF LocalInv, Ordered
<1> QED
  BY <1>2, <1>3, <1>4, <1>5, <1>6 DEF Ordered

LEMMA ConsumeStep ==
  ASSUME LocalInv, NEW key \in Network, Consume(key)
  PROVE  LocalInv'
<1>1. /\ TypeOK /\ Ordered /\ AllowedWithinBudget /\ RecentRemembered
      /\ now \in Nat /\ now' = now
      /\ until \in [Network -> Nat] /\ admitted \in [Network -> [0 .. MaxTime -> Nat]]
      /\ entries \in [Known -> Entry] /\ Known \subseteq Network
  BY Rule DEF LocalInv, TypeOK, Consume
<1>2. /\ Pruned \subseteq Known /\ IsFiniteSet(Pruned)
      /\ Cardinality(Pruned) <= MaximumEntries - 1
      /\ \A k \in Known : Live(k) /\ Cardinality(newer[k]) < MaximumEntries - 1
           => k \in Pruned
  BY PrunedFacts
<1> DEFINE past == [w \in 0 .. MaxTime |->
                     IF key \in Known \ Pruned THEN 0 ELSE admitted[key][w]]
<1>3. past \in [0 .. MaxTime -> Nat]
  BY <1>1
<1>4. PICK f : f = Found(key)
  OBVIOUS
<1>5. /\ f \in Entry /\ f.start = WindowStart(now)
      /\ \A w \in 0 .. MaxTime :
           /\ w = f.start => past[w] <= f.count
           /\ w > f.start => past[w] = 0
  BY <1>3, <1>4, FoundFacts
<1>6. PICK e : e = Counted(f)
  OBVIOUS
<1>7. /\ e \in Entry /\ e.start = f.start /\ e.count = f.count + 1
      /\ e.blocked <= now => f.count + 1 <= MaximumAttempts
  BY <1>1, <1>5, <1>6, CountedFacts
<1>8. /\ entries' = [k \in Pruned \cup {key} |-> IF k = key THEN e ELSE entries[k]]
      /\ until' = [until EXCEPT ![key] = Larger(e.start + Window, e.blocked)]
      /\ admitted' = [k \in Network |-> [w \in 0 .. MaxTime |->
           (IF k \in Known \ Pruned THEN 0 ELSE admitted[k][w])
             + IF k = key /\ w = WindowStart(now) /\ e.blocked <= now THEN 1 ELSE 0]]
  BY <1>4, <1>6 DEF Consume
<1>9. /\ e.start \in Nat /\ e.count \in Nat /\ e.blocked \in Nat /\ f.count \in Nat
      /\ e.start = WindowStart(e.start) /\ e.start <= now
      /\ Larger(e.start + Window, e.blocked) \in Nat
  <2>1. e.start \in Nat /\ e.count \in Nat /\ e.blocked \in Nat /\ f.count \in Nat
    BY <1>5, <1>7 DEF Entry
  <2>2. e.start = WindowStart(now)
    BY <1>5, <1>7
  <2>3. e.start = WindowStart(e.start) /\ e.start <= now
    BY <1>1, <2>2, Windows, StartsAWindow
  <2> QED
    BY <2>1, <2>3, Rule DEF Larger
<1>10. /\ newer' \in [Network -> SUBSET Network] /\ since' = newer'
       /\ \A k \in Network : newer'[k] = IF k = key THEN {} ELSE newer[k] \cup {key}
       /\ Known' = Pruned \cup {key} /\ Ordered'
  BY Reordered
<1>11. IsFiniteSet(Known') /\ Cardinality(Known') <= MaximumEntries
  BY <1>2, <1>10, FS_AddElement, FS_CardinalityType, Rule
<1>12. ASSUME NEW k \in Network, Cardinality(since'[k]) < MaximumEntries - 1
       PROVE  k \in Known' \/ until'[k] <= now'
  <2>1. CASE k = key
    BY <1>10, <2>1
  <2>2. CASE k # key
    <3>1. until'[k] = until[k] /\ newer'[k] = newer[k] \cup {key} /\ IsFiniteSet(newer[k])
      BY <1>1, <1>8, <1>10, <2>2 DEF Ordered
    <3>2. Cardinality(newer[k]) < MaximumEntries - 1
      <4>1. newer[k] \in SUBSET (newer[k] \cup {key}) /\ IsFiniteSet(newer[k] \cup {key})
        BY <3>1, FS_AddElement
      <4>2. Cardinality(newer[k]) <= Cardinality(newer[k] \cup {key})
        BY <4>1, FS_Subset
      <4>3. Cardinality(newer[k]) \in Nat /\ Cardinality(newer[k] \cup {key}) \in Nat
        BY <3>1, <4>1, FS_CardinalityType
      <4> QED
        BY <1>10, <1>12, <3>1, <4>2, <4>3, Rule
    <3>3. CASE k \in Known
      <4>1. Live(k) => k \in Pruned
        BY <1>2, <3>2, <3>3
      <4>2. ~Live(k) => until[k] <= now
        BY <1>1, <3>3 DEF LocalInv, Counts, Larger, Live
      <4> QED
        BY <1>1, <1>10, <3>1, <4>1, <4>2
    <3>4. CASE k \notin Known
      BY <1>1, <3>1, <3>2, <3>4 DEF RecentRemembered, LocalInv, TypeOK
    <3> QED
      BY <3>3, <3>4
  <2> QED
    BY <2>1, <2>2
<1>13. \A k \in Network, w \in 0 .. MaxTime :
         admitted'[k][w] = (IF k \in Known \ Pruned THEN 0 ELSE admitted[k][w])
             + IF k = key /\ w = WindowStart(now) /\ e.blocked <= now THEN 1 ELSE 0
  BY <1>8
<1>14. TypeOK'
  <2>1. entries' \in [Known' -> Entry] /\ Known' \subseteq Network
    BY <1>1, <1>2, <1>7, <1>8, <1>10
  <2>2. until' \in [Network -> Nat]
    BY <1>1, <1>8, <1>9
  <2>3. admitted' \in [Network -> [0 .. MaxTime -> Nat]]
    <3>1. ASSUME NEW k \in Network, NEW w \in 0 .. MaxTime
          PROVE  (IF k \in Known \ Pruned THEN 0 ELSE admitted[k][w])
                   + (IF k = key /\ w = WindowStart(now) /\ e.blocked <= now THEN 1 ELSE 0)
                   \in Nat
      <4>1. admitted[k][w] \in Nat
        BY <1>1
      <4> QED
        BY <4>1
    <3> QED
      BY <1>8, <3>1
  <2>4. now' \in 0 .. MaxTime
    BY <1>1 DEF TypeOK
  <2> QED
    BY <1>10, <2>1, <2>2, <2>3, <2>4 DEF TypeOK
<1>15. ASSUME NEW k \in Network, NEW w \in 0 .. MaxTime
       PROVE  admitted'[k][w] <= MaximumAttempts
  <2>1. admitted[k][w] \in Nat /\ admitted[k][w] <= MaximumAttempts
    BY <1>1 DEF AllowedWithinBudget
  <2>2. CASE k = key /\ w = WindowStart(now) /\ e.blocked <= now
    <3>1. past[w] \in Nat /\ past[w] <= f.count /\ f.count + 1 <= MaximumAttempts
      BY <1>3, <1>5, <1>7, <2>2
    <3>2. admitted'[k][w] = past[w] + 1
      BY <1>13, <2>2
    <3> QED
      BY <1>9, <3>1, <3>2, Rule
  <2>3. CASE ~(k = key /\ w = WindowStart(now) /\ e.blocked <= now)
    <3>1. admitted'[k][w] = 0 \/ admitted'[k][w] = admitted[k][w]
      BY <1>13, <2>1, <2>3
    <3> QED
      BY <2>1, <3>1, Rule
  <2> QED
    BY <2>2, <2>3
<1>16. ASSUME NEW k \in Known' PROVE Counts(k)'
  <2>1. CASE k = key
    <3>1. entries'[k] = e /\ until'[k] = Larger(e.start + Window, e.blocked)
      BY <1>1, <1>8, <2>1
    <3>2. ASSUME NEW w \in 0 .. MaxTime
          PROVE  /\ w = e.start => admitted'[k][w] <= e.count
                 /\ w > e.start => admitted'[k][w] = 0
      <4>1. past[w] \in Nat /\ w \in Nat
        BY <1>3
      <4>2. /\ w = e.start => past[w] <= f.count
            /\ w > e.start => past[w] = 0
        BY <1>5, <1>7
      <4>3. \/ admitted'[k][w] = past[w]
            \/ w = e.start /\ admitted'[k][w] = past[w] + 1
        BY <1>5, <1>7, <1>13, <2>1, <4>1
      <4> QED
        BY <1>7, <1>9, <4>1, <4>2, <4>3
    <3> QED
      BY <1>1, <1>9, <3>1, <3>2 DEF Counts, WindowStart
  <2>2. CASE k # key
    <3>1. /\ k \in Pruned /\ Counts(k) /\ entries'[k] = entries[k]
          /\ until'[k] = until[k]
      BY <1>1, <1>2, <1>8, <1>10, <2>2 DEF LocalInv
    <3>2. ASSUME NEW w \in 0 .. MaxTime PROVE admitted'[k][w] = admitted[k][w]
      <4>1. admitted[k][w] \in Nat /\ k \in Network
        BY <1>1, <1>2, <3>1
      <4>2. admitted'[k][w] = admitted[k][w] + 0
        BY <1>13, <2>2, <3>1, <4>1
      <4> QED
        BY <4>1, <4>2
    <3> QED
      BY <1>1, <3>1, <3>2 DEF Counts, WindowStart
  <2> QED
    BY <2>1, <2>2
<1>17. ASSUME NEW k \in Network \ Known' PROVE admitted'[k] = NoCalls'
  <2>1. k # key /\ k \notin Pruned
    BY <1>10
  <2>2. ASSUME NEW w \in 0 .. MaxTime PROVE admitted'[k][w] = 0
    <3>1. admitted'[k][w] = (IF k \in Known THEN 0 ELSE admitted[k][w]) + 0
      BY <1>13, <2>1
    <3>2. k \notin Known => admitted[k][w] = 0
      BY DEF LocalInv, NoCalls
    <3> QED
      BY <3>1, <3>2
  <2>3. admitted'[k] \in [0 .. MaxTime -> Nat]
    BY <1>14 DEF TypeOK
  <2> QED
    BY <2>2, <2>3 DEF NoCalls
<1>18. AllowedWithinBudget' /\ RecentRemembered'
  BY <1>11, <1>12, <1>15 DEF AllowedWithinBudget, RecentRemembered
<1> QED
  BY <1>10, <1>11, <1>14, <1>16, <1>17, <1>18 DEF LocalInv

----------------------------------------------------------------------------
(* The clock, a restart and the whole *)

LEMMA TickStep ==
  ASSUME LocalInv, Tick
  PROVE  LocalInv'
<1>1. /\ now \in 0 .. MaxTime /\ now' = now + 1 /\ now < MaxTime
      /\ UNCHANGED <<entries, newer, allowed, since, until, admitted>>
      /\ MaxTime \in Nat
  BY Rule DEF LocalInv, TypeOK, Tick
<1>2. TypeOK' /\ Ordered' /\ AllowedWithinBudget' /\ IsFiniteSet(Known)'
  BY <1>1 DEF LocalInv, TypeOK, Ordered, AllowedWithinBudget, Known
<1>3. RecentRemembered'
  BY <1>1 DEF LocalInv, TypeOK, RecentRemembered, Known
<1>4. ASSUME NEW k \in Known' PROVE Counts(k)'
  <2>1. Counts(k) /\ entries[k] \in Entry
    BY <1>1 DEF LocalInv, TypeOK, Known
  <2> QED
    BY <1>1, <2>1 DEF Counts, Entry, WindowStart
<1>5. \A k \in Network \ Known' : admitted'[k] = NoCalls'
  BY <1>1 DEF LocalInv, NoCalls, Known
<1> QED
  BY <1>2, <1>3, <1>4, <1>5 DEF LocalInv

Empty ==
  /\ now \in 0 .. MaxTime /\ entries = EmptyMap /\ newer = Nobody /\ since = Nobody
  /\ until = [k \in Network |-> 0] /\ admitted = [k \in Network |-> NoCalls]

LEMMA EmptyIsFine == Empty => LocalInv
<1> SUFFICES ASSUME Empty PROVE LocalInv
  OBVIOUS
<1>1. Known = {} /\ IsFiniteSet({}) /\ Cardinality({}) = 0
  BY FS_EmptySet DEF Empty, Known, EmptyMap
<1>2. TypeOK
  BY <1>1 DEF Empty, TypeOK, EmptyMap, Nobody, NoCalls
<1>3. Ordered
  BY <1>1 DEF Empty, Ordered, Nobody
<1>4. AllowedWithinBudget /\ RecentRemembered
  BY <1>1, Rule DEF Empty, AllowedWithinBudget, RecentRemembered, NoCalls
<1> QED
  BY <1>1, <1>2, <1>3, <1>4 DEF Empty, LocalInv

LEMMA LocalStep == LocalInv /\ [Next]_vars => LocalInv'
<1> SUFFICES ASSUME LocalInv, [Next]_vars PROVE LocalInv'
  OBVIOUS
<1>1. CASE \E key \in Network : Consume(key)
  BY <1>1, ConsumeStep
<1>2. CASE Tick
  BY <1>2, TickStep
<1>3. CASE Restart
  <2>1. Empty'
    BY <1>3 DEF Restart, LocalInv, TypeOK, Empty, EmptyMap, Nobody, NoCalls
  <2>2. Empty' => LocalInv'
    BY EmptyIsFine, PTL
  <2> QED
    BY <2>1, <2>2
<1>4. CASE UNCHANGED vars
  <2>1. /\ now' = now /\ entries' = entries /\ newer' = newer /\ since' = since
        /\ until' = until /\ admitted' = admitted /\ Known' = Known
    BY <1>4 DEF vars, Known
  <2>2. TypeOK' /\ Ordered' /\ AllowedWithinBudget' /\ RecentRemembered'
    BY <2>1 DEF LocalInv, TypeOK, Ordered, AllowedWithinBudget, RecentRemembered
  <2>3. \A k \in Known : Counts(k)'
    BY <2>1 DEF LocalInv, Counts, WindowStart
  <2> QED
    BY <2>1, <2>2, <2>3 DEF LocalInv, NoCalls
<1> QED
  BY <1>1, <1>2, <1>3, <1>4 DEF Next

\* Whoever calls and whatever is evicted, the map is in one order, keeps to its
\* bound and has counted what its entries have been admitted for.
THEOREM LocalInvariance == Spec => []LocalInv
<1>1. Init => LocalInv
  BY EmptyIsFine, Rule DEF Init, Empty
<1> QED
  BY <1>1, LocalStep, PTL DEF Spec

\* An address the map remembers is allowed no more attempts in a window than the
\* rule says, whatever the other addresses do.
THEOREM AllowedInBudget == Spec => []AllowedWithinBudget
<1>1. LocalInv => AllowedWithinBudget
  BY DEF LocalInv
<1> QED
  BY <1>1, LocalInvariance, PTL

\* The map never exceeds its bound, and a flood of addresses makes it forget only
\* those that have been quiet longer than as many others as it has room for.
THEOREM RecentAreRemembered == Spec => []RecentRemembered
<1>1. LocalInv => RecentRemembered
  BY DEF LocalInv
<1> QED
  BY <1>1, LocalInvariance, PTL

\* While the map has room, a blocked address is refused until its block is over,
\* and no call of its own prolongs or ends the block.
THEOREM BlocksKept == Spec => BlockKept
<1>1. ASSUME LocalInv, NEW k \in Network, k \in Known, entries[k].blocked > now,
             Consume(k), Cardinality(Known) < MaximumEntries
      PROVE  ~allowed' /\ entries'[k].blocked = entries[k].blocked
  <2>1. now \in Nat /\ entries[k] \in Entry
    BY <1>1, Rule DEF LocalInv, TypeOK
  <2>2. Live(k)
    BY <1>1, <2>1 DEF Live, Entry
  <2>3. k \in Pruned
    BY <1>1, <2>2, PrunedFacts
  <2> DEFINE past == [w \in 0 .. MaxTime |->
                       IF k \in Known \ Pruned THEN 0 ELSE admitted[k][w]]
  <2>4. past \in [0 .. MaxTime -> Nat]
    BY <1>1 DEF LocalInv, TypeOK
  <2>5. PICK f : f = Found(k)
    OBVIOUS
  <2>6. f \in Entry /\ f.blocked = entries[k].blocked
    BY <1>1, <2>3, <2>4, <2>5, FoundFacts
  <2>7. PICK e : e = Counted(f)
    OBVIOUS
  <2>8. e.blocked = entries[k].blocked
    BY <1>1, <2>1, <2>6, <2>7, CountedFacts
  <2>9. entries'[k] = e /\ allowed' = (e.blocked <= now)
    BY <1>1, <2>5, <2>7 DEF Consume
  <2>10. ~(e.blocked <= now)
    BY <1>1, <2>1, <2>8 DEF Entry
  <2> QED
    BY <2>8, <2>9, <2>10, Zenon
<1>2. LocalInv /\ [Next]_vars =>
        [\A k \in Network :
           /\ k \in Known /\ entries[k].blocked > now
           /\ Consume(k) /\ Cardinality(Known) < MaximumEntries
           => ~allowed' /\ entries'[k].blocked = entries[k].blocked]_vars
  BY <1>1
<1> QED
  BY <1>2, LocalInvariance, PTL DEF Spec, BlockKept
===============================================================================
