----------------------------- MODULE LocalRateLimit ---------------------------
(***************************************************************************)
(* LocalNetworkRateLimiter: the limit one API process keeps in memory for  *)
(* each client address, in front of the persistent one.  consume is one    *)
(* synchronous call.  Its Map, which iterates in insertion order, is a     *)
(* function and the order of its keys here.                                *)
(***************************************************************************)
EXTENDS Integers, FiniteSets

CONSTANTS
  Network,         \* client addresses
  MaximumEntries,
  MaximumAttempts, Window, Block,   \* the rule
  MaxTime,         \* bound on the clock
  MaxCount         \* bound on the attempts of an address in a window

ASSUME LocalAssumption ==
  /\ {MaximumEntries, MaximumAttempts, Window, Block} \subseteq Nat \ {0}
  /\ MaxTime \in Nat /\ MaxCount \in Nat

VARIABLES
  now,
  entries,   \* the Map
  newer,     \* its order: the addresses inserted after an address
  allowed,   \* the answer to the last call
  since,     \* history: the addresses that have called since an address did
  until,     \* history: when the address's last entry stopped mattering
  admitted   \* history: calls allowed by address and window since the address
             \* was last forgotten

vars == <<now, entries, newer, allowed, since, until, admitted>>

Larger(a, b) == IF a > b THEN a ELSE b

Known == DOMAIN entries

WindowStart(at) == at - (at % Window)

NoCalls == [w \in 0 .. MaxTime |-> 0]

EmptyMap == [k \in {} |-> 0]

Nobody == [k \in Network |-> {}]

Init ==
  /\ now = 0 /\ entries = EmptyMap /\ newer = Nobody /\ allowed = TRUE
  /\ since = Nobody /\ until = [k \in Network |-> 0]
  /\ admitted = [k \in Network |-> NoCalls]

Live(k) == ~(entries[k].blocked <= now /\ entries[k].start + Window <= now)

\* Drops the oldest while the map is full, the caller's own entry included.
NewestOf(keys) ==
  {k \in keys : Cardinality(newer[k] \cap keys) < MaximumEntries - 1}

Pruned == NewestOf({k \in Known : Live(k)})

\* Variant: a new window forgets the block.
RenewedFresh(e) ==
  IF now >= e.start + Window
  THEN [e EXCEPT !.count = 0, !.start = WindowStart(now), !.blocked = 0] ELSE e

\* A new window starts a new count; a block that lasts goes over to it.
Renewed(e) ==
  IF now >= e.start + Window
  THEN [e EXCEPT !.count = 0, !.start = WindowStart(now),
                 !.blocked = IF @ > now THEN @ ELSE 0]
  ELSE e

\* Variant: the attempt that reaches the maximum may be followed by another.
CountedLate(e) ==
  [e EXCEPT !.count = @ + 1,
     !.blocked = IF e.count > MaximumAttempts /\ @ <= now
                 THEN now + Block ELSE @]

Counted(e) ==
  [e EXCEPT !.count = @ + 1,
     !.blocked = IF e.count + 1 > MaximumAttempts /\ @ <= now
                 THEN now + Block ELSE @]

\* Variant: the entry keeps its place in the map.
InPlace(key) ==
  IF key \in Pruned THEN newer
  ELSE [k \in Network |-> IF k = key THEN {} ELSE newer[k] \cup {key}]

\* delete, then set: the entry becomes the newest.
Last(key) == [k \in Network |-> IF k = key THEN {} ELSE newer[k] \cup {key}]

Found(key) ==
  IF key \in Pruned THEN Renewed(entries[key])
  ELSE [count |-> 0, start |-> WindowStart(now), blocked |-> 0]

Consume(key) ==
  LET e == Counted(Found(key)) IN
  /\ Found(key).count < MaxCount
  /\ entries' = [k \in Pruned \cup {key} |-> IF k = key THEN e ELSE entries[k]]
  /\ newer' = Last(key)
  /\ allowed' = (e.blocked <= now)
  /\ since' = [k \in Network |-> IF k = key THEN {} ELSE since[k] \cup {key}]
  /\ until' = [until EXCEPT ![key] = Larger(e.start + Window, e.blocked)]
  /\ admitted' = [k \in Network |-> [w \in 0 .. MaxTime |->
       (IF k \in Known \ Pruned THEN 0 ELSE admitted[k][w])
         + IF k = key /\ w = WindowStart(now) /\ e.blocked <= now THEN 1 ELSE 0]]
  /\ UNCHANGED now

Tick ==
  /\ now < MaxTime
  /\ now' = now + 1
  /\ UNCHANGED <<entries, newer, allowed, since, until, admitted>>

\* The map does not survive the process.
Restart ==
  /\ entries' = EmptyMap /\ newer' = Nobody
  /\ since' = Nobody /\ until' = [k \in Network |-> 0]
  /\ admitted' = [k \in Network |-> NoCalls]
  /\ UNCHANGED <<now, allowed>>

Next == (\E key \in Network : Consume(key)) \/ Tick \/ Restart

Spec == Init /\ [][Next]_vars

----------------------------------------------------------------------------

\* While the map remembers an address, it allows no more of its attempts in a
\* window than the rule does.
AllowedWithinBudget ==
  \A k \in Network : \A w \in 0 .. MaxTime : admitted[k][w] <= MaximumAttempts

\* An address that is blocked is refused, across window boundaries too, unless
\* the map is full: then a call may evict the caller's own block
\* (local-network-rate-limiter.spec.ts, "preserves an active block").
BlockKept ==
  [][\A k \in Network :
       /\ k \in Known /\ entries[k].blocked > now
       /\ Consume(k) /\ Cardinality(Known) < MaximumEntries
       => ~allowed' /\ entries'[k].blocked = entries[k].blocked]_vars

\* The map keeps to its bound, and yet the addresses served last are remembered
\* as long as their entries matter: what a flood of addresses evicts is the
\* address that has been quiet longest.
RecentRemembered ==
  /\ Cardinality(Known) <= MaximumEntries
  /\ \A k \in Network :
       Cardinality(since[k]) < MaximumEntries - 1 => k \in Known \/ until[k] <= now

----------------------------------------------------------------------------
(* The inductive invariant behind the safety properties *)

Entry == [count: Nat, start: Nat, blocked: Nat]

TypeOK ==
  /\ now \in 0 .. MaxTime
  /\ Known \subseteq Network /\ entries \in [Known -> Entry]
  /\ newer \in [Network -> SUBSET Network]
  /\ since = newer
  /\ until \in [Network -> Nat]
  /\ admitted \in [Network -> [0 .. MaxTime -> Nat]]

\* The order of the map is one: of two entries one is the newer.
Ordered ==
  /\ \A k \in Network : IsFiniteSet(newer[k]) /\ k \notin newer[k]
  /\ \A k \in Network : \A j \in newer[k] : newer[j] \subseteq newer[k]
  /\ \A j, k \in Known : j = k \/ j \in newer[k] \/ k \in newer[j]

\* An entry is of the window it was last counted in: later ones have admitted
\* nothing, and this one no more than was counted.
Counts(k) ==
  LET e == entries[k] IN
  /\ e.start = WindowStart(e.start) /\ e.start <= now
  /\ until[k] = Larger(e.start + Window, e.blocked)
  /\ \A w \in 0 .. MaxTime :
       /\ w = e.start => admitted[k][w] <= e.count
       /\ w > e.start => admitted[k][w] = 0

LocalInv ==
  /\ TypeOK /\ Ordered /\ AllowedWithinBudget
  /\ IsFiniteSet(Known) /\ RecentRemembered
  /\ \A k \in Known : Counts(k)
  /\ \A k \in Network \ Known : admitted[k] = NoCalls
==============================================================================
