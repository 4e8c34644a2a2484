------------------------ MODULE LoginRateLimitProofs ------------------------
(***************************************************************************)
(* Proofs about LoginRateLimit, for any number of attempts in flight, any  *)
(* keys and any rules: the counters of a window are exact, no window       *)
(* admits more than its rule, a block is honoured and it is not prolonged. *)
(* The invariant is IInv: what an attempt has written and not committed is *)
(* still the upsert of the committed row, because a row has one writer.    *)
(***************************************************************************)
EXTENDS LoginRateLimit, WellFoundedInduction, TLAPS

----------------------------------------------------------------------------
(* The helpers.                                                             *)

(* A set of numbers below a bound has a largest one: max() is defined. *)
LEMMA LargestExists ==
  ASSUME NEW S \in SUBSET Nat, S # {},
         NEW bound \in Nat, \A x \in S : x <= bound
  PROVE  \E m \in S : \A x \in S : x <= m
<1> DEFINE Gaps == {bound - x : x \in S}
           Less == {ss \in Nat \X Nat : ss[1] < ss[2]}
<1>1. Gaps \subseteq Nat /\ Gaps # {}
  <2>1. \A x \in S : bound - x \in Nat
    OBVIOUS
  <2> QED
    BY <2>1
<1>2. PICK g \in Gaps : \A h \in Gaps : ~(<<h, g>> \in Less)
  <2>1. IsWellFoundedOn(Less, Nat)
    BY NatLessThanWellFounded DEF OpToRel
  <2> HIDE DEF Gaps, Less
  <2> QED
    BY <1>1, <2>1, WFMin
<1>3. \A h \in Gaps : g <= h
  <2> SUFFICES ASSUME NEW h \in Gaps PROVE g <= h
    OBVIOUS
  <2>1. g \in Nat /\ h \in Nat
    BY <1>1
  <2> HIDE DEF Gaps
  <2>2. ~(h < g)
    BY <1>2, <2>1
  <2> QED
    BY <2>1, <2>2
<1>4. PICK m \in S : g = bound - m
  BY <1>2
<1>5. \A x \in S : bound - m <= bound - x
  BY <1>3, <1>4
<1> QED
  BY <1>4, <1>5

(* A rule is made of positive numbers. *)
LEMMA RuleTypes ==
  ASSUME NEW d \in Dimension
  PROVE  /\ Rule[d].max \in Nat \ {0}
         /\ Rule[d].window \in Nat \ {0}
         /\ Rule[d].block \in Nat \ {0}
<1>1. Rule[d] \in [max: Nat \ {0}, window: Nat \ {0}, block: Nat \ {0}]
  BY RuleAssumption
<1> QED
  BY <1>1

(* A window starts no later than any instant in it. *)
LEMMA WindowBounds ==
  ASSUME NEW d \in Dimension, NEW at \in Nat
  PROVE  WindowStart(d, at) \in Nat /\ WindowStart(d, at) <= at
<1> DEFINE w == Rule[d].window
<1>1. w \in Nat \ {0}
  BY RuleTypes
<1> HIDE DEF w
<1>2. (at \div w) * w \in 0 .. at
  BY <1>1
<1> QED
  BY <1>2 DEF WindowStart, w

(* The keys of an attempt in flight are keys, and name their dimension. *)
LEMMA KeysAreKeys ==
  ASSUME NEW d \in Dimension, NEW subject \in Subject, NEW ip \in Network
  PROVE  KeyOf(d, subject, ip) \in Key /\ KeyOf(d, subject, ip).dim = d
<1>1. CASE d = "Network"
  BY <1>1 DEF KeyOf, Key
<1>2. CASE d = "Identity"
  BY <1>2 DEF KeyOf, Key
<1>3. CASE d = "IdentityNetwork"
  BY <1>3 DEF KeyOf, Key
<1> QED
  BY <1>1, <1>2, <1>3 DEF Dimension

LEMMA RequestTypes ==
  ASSUME TypeOK, NEW p \in Worker
  PROVE  /\ req[p] \in Request
         /\ req[p].subject \in Subject \cup {None}
         /\ req[p].ip \in Network \cup {None}
         /\ req[p].at \in 0 .. MaxTime /\ req[p].at \in Nat
         /\ req[p].todo \in SUBSET Dimension
         /\ req[p].turn \in Dimension
         /\ req[p].prior \in Nat /\ req[p].latest \in Nat
         /\ req[p].due \in BOOLEAN
         /\ req[p].pend \in [Dimension -> Row]
<1>1. req[p] \in Request
  BY DEF TypeOK
<1> QED
  BY <1>1, RuleAssumption DEF Request

LEMMA SlotsAreSlots ==
  ASSUME TypeOK, NEW p \in Worker, Advances(p), InFlight(p),
         NEW d \in Dimension
  PROVE  SlotOf(p, d) \in Slot /\ SlotOf(p, d)[1].dim = d
<1>1. req[p].subject \in Subject /\ req[p].ip \in Network
  BY DEF Advances
<1>2. req[p].at \in 0 .. MaxTime
  BY RequestTypes
<1>3. WindowStart(d, req[p].at) \in 0 .. MaxTime
  BY <1>2, WindowBounds, RuleAssumption
<1> QED
  BY <1>1, <1>3, KeysAreKeys DEF SlotOf, Slot

LEMMA SlotDimension ==
  ASSUME NEW k \in Slot
  PROVE  k[1].dim \in Dimension
BY DEF Slot, Key, Dimension

LEMMA RowTypes ==
  ASSUME NEW row \in Row
  PROVE  /\ row.count \in Nat /\ row.created \in Nat
         /\ row.blocked \in Nat /\ row.expires \in Nat
BY DEF Row

(* What an upsert does to a row: one more attempt, a block kept or, above   *)
(* the limit, set.                                                          *)
LEMMA UpsertedRow ==
  ASSUME NEW row \in Row, NEW d \in Dimension, NEW at \in 0 .. MaxTime
  PROVE  /\ Upserted(row, d, at) \in Row
         /\ Upserted(row, d, at).count = row.count + 1
         /\ Upserted(row, d, at) # NoRow
         /\ row.blocked # 0 => Upserted(row, d, at).blocked = row.blocked
         /\ row.blocked <= MaxTime + Rule[d].block =>
              Upserted(row, d, at).blocked <= MaxTime + Rule[d].block
         /\ Upserted(row, d, at).blocked = 0 =>
              Upserted(row, d, at).count <= Rule[d].max
<1>1. /\ row.count \in Nat /\ row.created \in Nat
      /\ row.blocked \in Nat /\ row.expires \in Nat
  BY RowTypes
<1>2. at \in Nat /\ at <= MaxTime /\ MaxTime \in Nat
  BY RuleAssumption
<1>3. /\ Rule[d].max \in Nat \ {0} /\ Rule[d].window \in Nat \ {0}
      /\ Rule[d].block \in Nat \ {0}
  BY RuleTypes
<1> DEFINE max == Rule[d].max
           block == Rule[d].block
           blocked == BlockedUntil(row, d, at)
<1>4. /\ blocked \in Nat
      /\ row.blocked # 0 => blocked = row.blocked
      /\ row.blocked <= MaxTime + block => blocked <= MaxTime + block
      /\ blocked = 0 => row.count + 1 <= max
  BY <1>1, <1>2, <1>3 DEF BlockedUntil, Exceeds
<1>5. WindowStart(d, at) \in Nat
  BY <1>2, WindowBounds
<1>6. Larger(row.expires, ExpiresAt(d, at)) \in Nat
  BY <1>1, <1>3, <1>5 DEF Larger, ExpiresAt
<1> HIDE DEF blocked
<1>7. Upserted(row, d, at) =
        [count |-> row.count + 1,
         created |-> IF row.count = 0 THEN at ELSE row.created,
         blocked |-> blocked,
         expires |-> Larger(row.expires, ExpiresAt(d, at))]
  BY DEF Upserted, blocked
<1>8. Upserted(row, d, at) \in Row
  BY <1>1, <1>2, <1>4, <1>6, <1>7 DEF Row
<1>9. /\ Upserted(row, d, at).count = row.count + 1
      /\ Upserted(row, d, at).blocked = blocked
  BY <1>7
<1>10. Upserted(row, d, at) # NoRow
  BY <1>1, <1>9 DEF NoRow
<1> QED
  BY <1>4, <1>8, <1>9, <1>10

(* max(blocked_until) of a key is a block whenever the key has one. *)
LEMMA PriorBlockSeen ==
  ASSUME TypeOK, BlocksEnd, NEW key \in Key, NEW at \in Nat
  PROVE  /\ PriorBlock(key, at) \in Nat
         /\ ActiveBlocks(key, at) # {} => PriorBlock(key, at) > 0
<1> DEFINE S == ActiveBlocks(key, at)
           bound == MaxTime + Rule[key.dim].block
<1>1. \A w \in 0 .. MaxTime :
        /\ <<key, w>> \in Slot /\ <<key, w>>[1] = key
        /\ rows[<<key, w>>].blocked \in Nat
        /\ rows[<<key, w>>].blocked <= bound
  <2> SUFFICES ASSUME NEW w \in 0 .. MaxTime
               PROVE  /\ <<key, w>> \in Slot /\ <<key, w>>[1] = key
                      /\ rows[<<key, w>>].blocked \in Nat
                      /\ rows[<<key, w>>].blocked <= bound
    OBVIOUS
  <2>1. <<key, w>> \in Slot /\ <<key, w>>[1] = key
    BY DEF Slot
  <2>2. rows[<<key, w>>] \in Row
    BY <2>1 DEF TypeOK
  <2> QED
    BY <2>1, <2>2 DEF BlocksEnd, Row
<1>2. bound \in Nat
  <2>1. key.dim \in Dimension
    BY DEF Key, Dimension
  <2> QED
    BY <2>1, RuleTypes, RuleAssumption
<1> HIDE DEF bound
<1>3. S \in SUBSET Nat /\ \A b \in S : b <= bound /\ b > at
  BY <1>1 DEF ActiveBlocks
<1>4. CASE S = {}
  BY <1>4 DEF PriorBlock
<1>5. CASE S # {}
  <2>1. \E m \in S : \A c \in S : c <= m
    BY <1>2, <1>3, <1>5, LargestExists
  <2>2. PriorBlock(key, at) = CHOOSE b \in S : \A c \in S : c <= b
    BY <1>5 DEF PriorBlock
  <2>3. PriorBlock(key, at) \in S
    <3> HIDE DEF S
    <3> QED
      BY <2>1, <2>2
  <2>4. PriorBlock(key, at) \in Nat /\ PriorBlock(key, at) > at
    BY <1>3, <2>3
  <2> QED
    BY <2>4
<1> QED
  BY <1>4, <1>5

----------------------------------------------------------------------------
(* The steps that leave the committed rows alone.                           *)

Label == {"idle", "next", "consume", "commit", "admitted", "refused"}

(* A move changes one attempt. *)
LEMMA MoveFrame ==
  ASSUME TypeOK, NEW p \in Worker, NEW label \in Label, NEW r \in Request,
         Move(p, label, r)
  PROVE  /\ pc'[p] = label /\ req'[p] = r
         /\ \A q \in Worker \ {p} : pc'[q] = pc[q] /\ req'[q] = req[q]
         /\ pc' \in [Worker -> Label] /\ req' \in [Worker -> Request]
BY DEF TypeOK, Move, Label

(* The invariant after a move that writes a row nobody else is writing. *)
LEMMA Moved ==
  ASSUME IInv, NEW p \in Worker, NEW label \in Label, NEW r \in Request,
         Move(p, label, r), UNCHANGED <<rows, tally>>,
         now' \in 0 .. MaxTime, sent' \in Nat,
         Advances(p)', Written(p)', DueSeen(p)',
         \A q \in Worker \ {p} : \A d, e \in Dimension :
           r.pend[d] # NoRow /\ req[q].pend[e] # NoRow =>
             SlotOf(p, d)' # SlotOf(q, e)
  PROVE  IInv'
<1>1. /\ TypeOK /\ OneWriter /\ BlocksEnd /\ CountsAreExact
      /\ AdmittedAreCounted /\ AdmittedWithinBudget
      /\ \A q \in Worker : Advances(q) /\ Written(q) /\ DueSeen(q)
  BY DEF IInv
<1>2. /\ pc'[p] = label /\ req'[p] = r
      /\ \A q \in Worker \ {p} : pc'[q] = pc[q] /\ req'[q] = req[q]
      /\ pc' \in [Worker -> Label] /\ req' \in [Worker -> Request]
  BY <1>1, MoveFrame
<1>3. TypeOK'
  BY <1>1, <1>2 DEF TypeOK, Label
<1>4. ASSUME NEW q \in Worker, NEW d \in Dimension, q # p
      PROVE  SlotOf(q, d)' = SlotOf(q, d)
  BY <1>2, <1>4 DEF SlotOf
<1>5. \A q \in Worker : Advances(q)' /\ Written(q)' /\ DueSeen(q)'
  <2> SUFFICES ASSUME NEW q \in Worker, q # p
               PROVE  Advances(q)' /\ Written(q)' /\ DueSeen(q)'
    OBVIOUS
  <2>1. pc'[q] = pc[q] /\ req'[q] = req[q]
    BY <1>2
  <2>2. Advances(q) /\ Written(q) /\ DueSeen(q)
    BY <1>1
  <2>3. Advances(q)'
    BY <2>1, <2>2 DEF Advances, InFlight
  <2>4. Written(q)'
    BY <1>4, <2>1, <2>2 DEF Written, InFlight
  <2>5. \A d \in Dimension :
          ActiveBlocks(KeyOf(d, req[q].subject, req[q].ip), req[q].at)'
            = ActiveBlocks(KeyOf(d, req[q].subject, req[q].ip), req[q].at)
    BY <2>1 DEF ActiveBlocks, KeyOf
  <2>6. req[q].todo \subseteq Dimension
    BY <1>1, RequestTypes
  <2>7. DueSeen(q)'
    BY <2>1, <2>2, <2>5, <2>6 DEF DueSeen, InFlight
  <2> QED
    BY <2>3, <2>4, <2>7
<1>6. OneWriter'
  <2> SUFFICES ASSUME NEW q \in Worker, NEW s \in Worker,
                      NEW d \in Dimension, NEW e \in Dimension, q # s,
                      req'[q].pend[d] # NoRow, req'[s].pend[e] # NoRow
               PROVE  SlotOf(q, d)' # SlotOf(s, e)'
    BY DEF OneWriter
  <2>1. CASE q = p
    <3>1. SlotOf(s, e)' = SlotOf(s, e) /\ req'[s] = req[s]
      BY <1>2, <1>4, <2>1
    <3> QED
      BY <1>2, <2>1, <3>1
  <2>2. CASE s = p
    <3>1. SlotOf(q, d)' = SlotOf(q, d) /\ req'[q] = req[q]
      BY <1>2, <1>4, <2>2
    <3> QED
      BY <1>2, <2>2, <3>1
  <2>3. CASE q # p /\ s # p
    <3>1. /\ SlotOf(q, d)' = SlotOf(q, d) /\ req'[q] = req[q]
          /\ SlotOf(s, e)' = SlotOf(s, e) /\ req'[s] = req[s]
      BY <1>2, <1>4, <2>3
    <3> QED
      BY <1>1, <3>1 DEF OneWriter
  <2> QED
    BY <2>1, <2>2, <2>3
<1>7. /\ BlocksEnd' /\ CountsAreExact'
      /\ AdmittedAreCounted' /\ AdmittedWithinBudget'
  BY <1>1 DEF BlocksEnd, CountsAreExact, AdmittedAreCounted,
              AdmittedWithinBudget
<1> QED
  BY <1>3, <1>5, <1>6, <1>7 DEF IInv

LEMMA NoReqTypes ==
  /\ NoRow \in Row /\ NoReq \in Request
  /\ [NoReq EXCEPT !.todo = {}] \in Request
  /\ \A d \in Dimension :
       NoReq.pend[d] = NoRow /\ [NoReq EXCEPT !.todo = {}].pend[d] = NoRow
<1>1. NoRow \in Row
  BY DEF NoRow, Row
<1>2. [d \in Dimension |-> NoRow] \in [Dimension -> Row]
  BY <1>1
<1>3. 0 \in 0 .. MaxTime /\ "Network" \in Dimension
  BY RuleAssumption DEF Dimension
<1>4. NoReq \in Request
  BY <1>2, <1>3 DEF NoReq, Request
<1>5. [NoReq EXCEPT !.todo = {}] \in Request
  BY <1>2, <1>3 DEF NoReq, Request
<1>6. \A d \in Dimension :
        NoReq.pend[d] = NoRow /\ [NoReq EXCEPT !.todo = {}].pend[d] = NoRow
  BY DEF NoReq
<1> QED
  BY <1>1, <1>4, <1>5, <1>6

(* An attempt that ends, or is refused, leaves nothing written. *)
LEMMA Left ==
  ASSUME IInv, NEW p \in Worker, NEW label \in {"idle", "refused"},
         NEW r \in Request, Move(p, label, r),
         \A d \in Dimension : r.pend[d] = NoRow,
         UNCHANGED <<rows, tally>>, now' \in 0 .. MaxTime, sent' \in Nat
  PROVE  IInv'
<1>1. label \in Label
  BY DEF Label
<1>2. pc'[p] = label /\ req'[p] = r
  BY <1>1, MoveFrame DEF IInv
<1>3. Advances(p)' /\ DueSeen(p)'
  BY <1>2 DEF Advances, DueSeen, InFlight
<1>4. Written(p)'
  BY <1>2 DEF Written, InFlight
<1> QED
  BY <1>1, <1>3, <1>4, Moved

LEMMA BeginStep ==
  ASSUME IInv, NEW p \in Worker, NEW subject \in Subject, NEW ip \in Network,
         Begin(p, subject, ip)
  PROVE  IInv'
<1> DEFINE due == \E d \in Dimension : ActiveBlocks(KeyOf(d, subject, ip), now) # {}
           r == [NoReq EXCEPT !.subject = subject, !.ip = ip, !.at = now,
                              !.due = due]
<1>1. Move(p, "next", r)
  BY DEF Begin
<1>2. TypeOK /\ now \in 0 .. MaxTime /\ sent \in Nat
  BY DEF IInv, TypeOK
<1>3. due \in BOOLEAN
  OBVIOUS
<1> HIDE DEF due
<1>4. /\ r.subject = subject /\ r.ip = ip /\ r.at = now /\ r.due = due
      /\ r.todo = Dimension
      /\ \A d \in Dimension : r.pend[d] = NoRow
  BY DEF NoReq
<1>5. r \in Request
  BY <1>2, <1>3, NoReqTypes DEF Request
<1> HIDE DEF r
<1>6. pc'[p] = "next" /\ req'[p] = r
  BY <1>1, <1>2, <1>5, MoveFrame DEF Label
<1>7. rows' = rows /\ tally' = tally /\ now' = now /\ sent' = sent + 1
  BY DEF Begin
<1>8. Advances(p)'
  BY <1>4, <1>6 DEF Advances
<1>9. Written(p)'
  BY <1>4, <1>6 DEF Written
<1>10. DueSeen(p)'
  <2> SUFFICES ASSUME due
               PROVE  \E d \in Dimension :
                        ActiveBlocks(KeyOf(d, req[p].subject, req[p].ip),
                                     req[p].at)' # {}
    BY <1>4, <1>6 DEF DueSeen
  <2>1. PICK d \in Dimension : ActiveBlocks(KeyOf(d, subject, ip), now) # {}
    BY DEF due
  <2>2. ActiveBlocks(KeyOf(d, req[p].subject, req[p].ip), req[p].at)'
          = ActiveBlocks(KeyOf(d, subject, ip), now)
    BY <1>4, <1>6, <1>7 DEF ActiveBlocks, KeyOf
  <2> QED
    BY <2>1, <2>2
<1> QED
  BY <1>1, <1>2, <1>4, <1>5, <1>7, <1>8, <1>9, <1>10, Moved DEF Label

LEMMA StartUpsertStep ==
  ASSUME IInv, NEW p \in Worker, StartUpsert(p)
  PROVE  IInv'
<1>1. /\ TypeOK /\ BlocksEnd /\ OneWriter
      /\ Advances(p) /\ Written(p) /\ DueSeen(p)
      /\ now \in 0 .. MaxTime /\ sent \in Nat
  BY DEF IInv, TypeOK
<1>2. pc[p] = "next" /\ InFlight(p)
  BY DEF StartUpsert, InFlight
<1>3. /\ req[p].subject \in Subject /\ req[p].ip \in Network
      /\ req[p].at \in Nat /\ req[p].latest \in Nat
      /\ req[p].todo \in SUBSET Dimension
  BY <1>1, <1>2, RequestTypes DEF Advances
<1> DEFINE prior(d) ==
             PriorBlock(KeyOf(d, req[p].subject, req[p].ip), req[p].at)
<1>4. PICK d \in Turn(req[p].todo) :
        Move(p, "consume", [req[p] EXCEPT !.turn = d, !.prior = prior(d)])
  BY DEF StartUpsert
<1>5. d \in req[p].todo /\ d \in Dimension
  <2>1. Turn(req[p].todo) \subseteq req[p].todo
    BY DEF Turn
  <2> QED
    BY <1>3, <2>1
<1>6. /\ prior(d) \in Nat
      /\ ActiveBlocks(KeyOf(d, req[p].subject, req[p].ip), req[p].at) # {} =>
           prior(d) > 0
  BY <1>1, <1>3, <1>5, KeysAreKeys, PriorBlockSeen
<1> HIDE DEF prior
<1> DEFINE r == [req[p] EXCEPT !.turn = d, !.prior = prior(d)]
<1>7. /\ r.subject = req[p].subject /\ r.ip = req[p].ip /\ r.at = req[p].at
      /\ r.todo = req[p].todo /\ r.turn = d /\ r.prior = prior(d)
      /\ r.latest = req[p].latest /\ r.pend = req[p].pend /\ r.due = req[p].due
      /\ r \in Request
  BY <1>1, <1>5, <1>6, RequestTypes DEF Request
<1> HIDE DEF r
<1>8. Move(p, "consume", r)
  BY <1>4 DEF r
<1>9. rows' = rows /\ tally' = tally /\ now' = now /\ sent' = sent
  BY DEF StartUpsert
<1>10. pc'[p] = "consume" /\ req'[p] = r
  BY <1>1, <1>7, <1>8, MoveFrame DEF Label
<1>11. Advances(p)'
  BY <1>3, <1>5, <1>7, <1>10 DEF Advances
<1>12. \A e \in Dimension : SlotOf(p, e)' = SlotOf(p, e)
  BY <1>7, <1>10 DEF SlotOf
<1>13. Written(p)'
  BY <1>1, <1>2, <1>7, <1>9, <1>10, <1>12 DEF Written, InFlight
<1>14. DueSeen(p)'
  <2>1. \A e \in Dimension :
          ActiveBlocks(KeyOf(e, req[p].subject, req[p].ip), req[p].at)'
            = ActiveBlocks(KeyOf(e, req[p].subject, req[p].ip), req[p].at)
    BY <1>7, <1>9, <1>10 DEF ActiveBlocks, KeyOf
  <2> SUFFICES ASSUME req[p].due
               PROVE  \/ req[p].latest > 0
                      \/ prior(d) > 0
                      \/ \E e \in req[p].todo :
                           /\ e # d
                           /\ ActiveBlocks(KeyOf(e, req[p].subject, req[p].ip),
                                          req[p].at)' # {}
    BY <1>7, <1>10 DEF DueSeen
  <2>2. \/ req[p].latest > 0
        \/ \E e \in req[p].todo :
             ActiveBlocks(KeyOf(e, req[p].subject, req[p].ip), req[p].at) # {}
    BY <1>1, <1>2 DEF DueSeen
  <2> QED
    BY <1>3, <1>6, <2>1, <2>2
<1>15. \A q \in Worker \ {p} : \A e, f \in Dimension :
         r.pend[e] # NoRow /\ req[q].pend[f] # NoRow =>
           SlotOf(p, e)' # SlotOf(q, f)
  BY <1>1, <1>7, <1>12 DEF OneWriter
<1> QED
  BY <1>1, <1>7, <1>8, <1>9, <1>11, <1>13, <1>14, <1>15, Moved DEF Label

LEMMA ConsumeStep ==
  ASSUME IInv, NEW p \in Worker, Consume(p)
  PROVE  IInv'
<1> DEFINE d == req[p].turn
           row == rows[SlotOf(p, d)]
           new == Upserted(row, d, req[p].at)
           label == IF req[p].todo = {d} THEN "commit" ELSE "next"
           latest == Larger(req[p].latest, Larger(req[p].prior, new.blocked))
           r == [req[p] EXCEPT !.todo = @ \ {d}, !.pend[d] = new,
                               !.latest = latest]
<1>1. /\ TypeOK /\ OneWriter /\ Advances(p) /\ Written(p) /\ DueSeen(p)
      /\ now \in 0 .. MaxTime /\ sent \in Nat
  BY DEF IInv, TypeOK
<1>2. /\ pc[p] = "consume" /\ InFlight(p) /\ ~Busy(p, SlotOf(p, d))
      /\ rows' = rows /\ tally' = tally /\ now' = now /\ sent' = sent
  BY DEF Consume, InFlight
<1>3. \/ Move(p, "refused", [NoReq EXCEPT !.todo = {}])
      \/ Move(p, label, r)
  BY DEF Consume
<1>4. CASE Move(p, "refused", [NoReq EXCEPT !.todo = {}])
  BY <1>1, <1>2, <1>4, NoReqTypes, Left
<1>5. CASE Move(p, label, r)
  <2>1. /\ req[p].subject \in Subject /\ req[p].ip \in Network
        /\ d \in req[p].todo /\ d \in Dimension
    BY <1>1, <1>2, RequestTypes DEF Advances
  <2>2. /\ req[p].at \in 0 .. MaxTime /\ req[p].latest \in Nat
        /\ req[p].prior \in Nat /\ req[p].todo \in SUBSET Dimension
        /\ req[p].pend \in [Dimension -> Row]
    BY <1>1, RequestTypes
  <2>3. row \in Row
    BY <1>1, <1>2, <2>1, SlotsAreSlots DEF TypeOK
  <2>4. new \in Row /\ new # NoRow
    <3> HIDE DEF row, d
    <3> QED
      BY <2>1, <2>2, <2>3, UpsertedRow
  <2>5. new.blocked \in Nat
    <3> HIDE DEF new
    <3> QED
      BY <2>4, RowTypes
  <2>6. /\ latest \in Nat /\ latest >= req[p].latest
        /\ latest >= req[p].prior /\ latest >= new.blocked
    <3> HIDE DEF new
    <3> QED
      BY <2>2, <2>5 DEF Larger
  <2> HIDE DEF latest, new
  <2>7. /\ r.subject = req[p].subject /\ r.ip = req[p].ip
        /\ r.at = req[p].at /\ r.todo = req[p].todo \ {d}
        /\ r.turn = req[p].turn /\ r.prior = req[p].prior
        /\ r.latest = latest /\ r.due = req[p].due
        /\ r.pend = [req[p].pend EXCEPT ![d] = new]
    BY <1>1, RequestTypes DEF Request
  <2>8. r \in Request
    <3>1. [req[p].pend EXCEPT ![d] = new] \in [Dimension -> Row]
      BY <2>2, <2>4
    <3>2. req[p] \in Request
      BY <1>1, RequestTypes
    <3> HIDE DEF d
    <3> QED
      BY <2>2, <2>6, <3>1, <3>2 DEF Request
  <2>9. /\ r.pend[d] = new
        /\ \A e \in Dimension \ {d} : r.pend[e] = req[p].pend[e]
    BY <2>1, <2>2, <2>7
  <2> HIDE DEF r
  <2>10. label \in Label
    BY DEF Label
  <2>11. pc'[p] = label /\ req'[p] = r
    BY <1>1, <1>5, <2>8, <2>10, MoveFrame
  <2>12. InFlight(p)' /\ pc'[p] # "consume" /\ pc'[p] # "admitted"
    BY <2>11 DEF InFlight
  <2>13. Advances(p)'
    BY <2>1, <2>7, <2>11, <2>12 DEF Advances
  <2>14. \A e \in Dimension : SlotOf(p, e)' = SlotOf(p, e)
    BY <2>7, <2>11 DEF SlotOf
  <2>15. Written(p)'
    <3> SUFFICES ASSUME NEW e \in Dimension
                 PROVE  IF e \notin r.todo
                        THEN /\ r.pend[e] = Upserted(rows[SlotOf(p, e)], e, req[p].at)'
                             /\ r.pend[e].blocked <= r.latest
                        ELSE r.pend[e] = NoRow
      BY <2>11, <2>12 DEF Written
    <3>0. Upserted(rows[SlotOf(p, e)], e, req[p].at)'
            = Upserted(rows[SlotOf(p, e)], e, req[p].at)
      BY <1>2, <2>7, <2>11, <2>14
    <3>1. CASE e = d
      BY <2>6, <2>7, <2>9, <3>0, <3>1 DEF new
    <3>2. CASE e # d /\ e \in req[p].todo
      BY <1>1, <2>7, <2>9, <3>2 DEF Written
    <3>3. CASE e # d /\ e \notin req[p].todo
      <4>1. /\ req[p].pend[e] = Upserted(rows[SlotOf(p, e)], e, req[p].at)
            /\ req[p].pend[e].blocked <= req[p].latest
        BY <1>1, <1>2, <3>3 DEF Written
      <4>2. req[p].pend[e].blocked \in Nat
        BY <2>2, RowTypes
      <4> QED
        BY <2>2, <2>6, <2>7, <2>9, <3>0, <3>3, <4>1, <4>2
    <3> QED
      BY <3>1, <3>2, <3>3
  <2>16. DueSeen(p)'
    <3>1. \A e \in Dimension :
            ActiveBlocks(KeyOf(e, req[p].subject, req[p].ip), req[p].at)'
              = ActiveBlocks(KeyOf(e, req[p].subject, req[p].ip), req[p].at)
      BY <1>2, <2>7, <2>11 DEF ActiveBlocks, KeyOf
    <3> SUFFICES ASSUME req[p].due
                 PROVE  \/ latest > 0
                        \/ \E e \in req[p].todo \ {d} :
                             ActiveBlocks(KeyOf(e, req[p].subject, req[p].ip),
                                          req[p].at)' # {}
      BY <2>7, <2>11, <2>12 DEF DueSeen
    <3>2. \/ req[p].latest > 0
          \/ req[p].prior > 0
          \/ \E e \in req[p].todo :
               /\ e # d
               /\ ActiveBlocks(KeyOf(e, req[p].subject, req[p].ip),
                              req[p].at) # {}
      BY <1>1, <1>2 DEF DueSeen
    <3> QED
      BY <2>2, <2>6, <3>1, <3>2
  <2>17. \A q \in Worker \ {p} : \A e, f \in Dimension :
           r.pend[e] # NoRow /\ req[q].pend[f] # NoRow =>
             SlotOf(p, e)' # SlotOf(q, f)
    <3> SUFFICES ASSUME NEW q \in Worker \ {p}, NEW e \in Dimension,
                        NEW f \in Dimension,
                        r.pend[e] # NoRow, req[q].pend[f] # NoRow
                 PROVE  SlotOf(p, e) # SlotOf(q, f)
      BY <2>14
    <3>1. CASE e = d
      BY <1>2, <3>1 DEF Busy
    <3>2. CASE e # d
      BY <1>1, <2>9, <3>2 DEF OneWriter
    <3> QED
      BY <3>1, <3>2
  <2> QED
    BY <1>1, <1>2, <1>5, <2>8, <2>10, <2>13, <2>15, <2>16, <2>17, Moved
<1> QED
  BY <1>3, <1>4, <1>5

----------------------------------------------------------------------------
(* The commit.                                                              *)

SlotsOf(p) == {SlotOf(p, d) : d \in Dimension}

(* A commit upserts the row of each of its slots as it is committed then,   *)
(* and the blocks it sets are those the attempt remembers.                  *)
LEMMA CommitRows ==
  ASSUME IInv, NEW p \in Worker, Commit(p)
  PROVE  /\ SlotsOf(p) \subseteq Slot
         /\ rows' \in [Slot -> Row]
         /\ \A k \in Slot \ SlotsOf(p) :
              rows'[k] = rows[k] /\ tally'[k] = tally[k]
         /\ \A k \in SlotsOf(p) :
              /\ rows'[k] = Upserted(rows[k], k[1].dim, req[p].at)
              /\ rows'[k].blocked <= req[p].latest
              /\ tally'[k] =
                   [counted |-> tally[k].counted + 1,
                    admitted |-> tally[k].admitted
                                   + IF req[p].latest = 0 THEN 1 ELSE 0]
<1>1. /\ TypeOK /\ Advances(p) /\ Written(p)
  BY DEF IInv
<1>2. pc[p] = "commit" /\ InFlight(p) /\ req[p].todo = {}
  BY <1>1 DEF Commit, InFlight, Advances
<1>3. \A d \in Dimension :
        /\ SlotOf(p, d) \in Slot /\ SlotOf(p, d)[1].dim = d
        /\ req[p].pend[d] = Upserted(rows[SlotOf(p, d)], d, req[p].at)
        /\ req[p].pend[d].blocked <= req[p].latest
        /\ req[p].pend[d] \in Row
  BY <1>1, <1>2, SlotsAreSlots, RequestTypes DEF Written
<1>4. /\ rows' = [k \in Slot |-> IF k \in SlotsOf(p)
                                THEN req[p].pend[k[1].dim] ELSE rows[k]]
      /\ tally' = [k \in Slot |->
           IF k \notin SlotsOf(p) THEN tally[k]
           ELSE [counted |-> tally[k].counted + 1,
                 admitted |-> tally[k].admitted
                                + IF req[p].latest = 0 THEN 1 ELSE 0]]
  BY DEF Commit, SlotsOf
<1>5. rows \in [Slot -> Row]
  BY <1>1 DEF TypeOK
<1>6. SlotsOf(p) \subseteq Slot
  BY <1>3 DEF SlotsOf
<1>7. \A k \in SlotsOf(p) :
        /\ req[p].pend[k[1].dim] = Upserted(rows[k], k[1].dim, req[p].at)
        /\ req[p].pend[k[1].dim].blocked <= req[p].latest
        /\ req[p].pend[k[1].dim] \in Row
  BY <1>3 DEF SlotsOf
<1>8. \A k \in Slot : rows'[k] \in Row
  BY <1>4, <1>5, <1>7
<1> QED
  BY <1>4, <1>6, <1>7, <1>8

LEMMA CommitUpserts ==
  ASSUME IInv, NEW p \in Worker, Commit(p), NEW k \in SlotsOf(p)
  PROVE  /\ k \in Slot /\ rows[k] \in Row /\ rows'[k] \in Row
         /\ rows'[k].count = rows[k].count + 1
         /\ rows[k].blocked # 0 => rows'[k].blocked = rows[k].blocked
         /\ rows[k].blocked <= MaxTime + Rule[k[1].dim].block =>
              rows'[k].blocked <= MaxTime + Rule[k[1].dim].block
         /\ rows'[k].blocked = 0 => rows'[k].count <= Rule[k[1].dim].max
<1>1. /\ k \in Slot /\ rows[k] \in Row
      /\ rows'[k] = Upserted(rows[k], k[1].dim, req[p].at)
  BY CommitRows DEF IInv, TypeOK
<1>2. k[1].dim \in Dimension /\ req[p].at \in 0 .. MaxTime
  BY <1>1, SlotDimension, RequestTypes DEF IInv
<1> QED
  BY <1>1, <1>2, UpsertedRow

(* No step clears a block or moves it. *)
LEMMA CommitKeepsBlocks ==
  ASSUME IInv, NEW p \in Worker, Commit(p)
  PROVE  \A k \in Slot : rows[k].blocked # 0 =>
           rows'[k].blocked = rows[k].blocked
<1> SUFFICES ASSUME NEW k \in Slot, rows[k].blocked # 0
             PROVE  rows'[k].blocked = rows[k].blocked
  OBVIOUS
<1>1. CASE k \in SlotsOf(p)
  BY <1>1, CommitUpserts
<1>2. CASE k \notin SlotsOf(p)
  BY <1>2, CommitRows
<1> QED
  BY <1>1, <1>2

(* A key that is blocked stays blocked. *)
LEMMA BlocksRemain ==
  ASSUME IInv, NEW p \in Worker, Commit(p), NEW key \in Key, NEW at \in Nat,
         ActiveBlocks(key, at) # {}
  PROVE  {rows'[<<key, w>>].blocked :
            w \in {v \in 0 .. MaxTime : rows'[<<key, v>>].blocked > at}} # {}
<1>1. PICK w \in 0 .. MaxTime : rows[<<key, w>>].blocked > at
  BY DEF ActiveBlocks
<1>2. <<key, w>> \in Slot
  BY DEF Slot
<1>3. rows[<<key, w>>].blocked # 0
  BY <1>1
<1>4. rows'[<<key, w>>].blocked = rows[<<key, w>>].blocked
  BY <1>2, <1>3, CommitKeepsBlocks
<1>5. rows'[<<key, w>>].blocked > at
  BY <1>1, <1>4
<1> QED
  BY <1>5

(* The counters of a commit: one more attempt in each slot, and one more    *)
(* admitted only where the row still allows it.                             *)
LEMMA CommitCounts ==
  ASSUME IInv, NEW p \in Worker, Commit(p)
  PROVE  /\ tally' \in [Slot -> [counted : Nat, admitted : Nat]]
         /\ CountsAreExact' /\ AdmittedAreCounted' /\ AdmittedWithinBudget'
<1>1. /\ TypeOK /\ CountsAreExact /\ AdmittedAreCounted /\ AdmittedWithinBudget
  BY DEF IInv
<1>2. \A k \in Slot : tally[k].counted \in Nat /\ tally[k].admitted \in Nat
  BY <1>1 DEF TypeOK
<1>3. req[p].latest \in Nat
  BY <1>1, RequestTypes
<1>4. ASSUME NEW k \in Slot
      PROVE  /\ tally'[k] \in [counted : Nat, admitted : Nat]
             /\ rows'[k].count = tally'[k].counted
             /\ tally'[k].admitted <= tally'[k].counted
             /\ tally'[k].admitted <= Rule[k[1].dim].max
  <2>1. /\ rows[k].count = tally[k].counted
        /\ tally[k].admitted <= tally[k].counted
        /\ tally[k].admitted <= Rule[k[1].dim].max
    BY <1>1 DEF CountsAreExact, AdmittedAreCounted, AdmittedWithinBudget
  <2>2. CASE k \notin SlotsOf(p)
    <3>1. rows'[k] = rows[k] /\ tally'[k] = tally[k]
      BY <2>2, CommitRows
    <3>2. tally[k] \in [counted : Nat, admitted : Nat]
      BY <1>1 DEF TypeOK
    <3> QED
      BY <2>1, <3>1, <3>2
  <2>3. CASE k \in SlotsOf(p)
    <3>1. /\ tally'[k] = [counted |-> tally[k].counted + 1,
                         admitted |-> tally[k].admitted
                                        + IF req[p].latest = 0 THEN 1 ELSE 0]
          /\ rows'[k].blocked <= req[p].latest
      BY <2>3, CommitRows
    <3>2. /\ rows'[k].count = rows[k].count + 1
          /\ rows'[k] \in Row
          /\ rows'[k].blocked = 0 => rows'[k].count <= Rule[k[1].dim].max
      BY <2>3, CommitUpserts
    <3>3. rows'[k].blocked \in Nat
      BY <3>2, RowTypes
    <3>4. Rule[k[1].dim].max \in Nat
      BY SlotDimension, RuleTypes
    <3>5. /\ tally'[k].counted = tally[k].counted + 1
          /\ tally'[k].admitted = tally[k].admitted
                                     + IF req[p].latest = 0 THEN 1 ELSE 0
          /\ tally'[k] \in [counted : Nat, admitted : Nat]
      BY <1>2, <3>1
    <3>6. CASE req[p].latest = 0
      <4>1. rows'[k].blocked = 0
        BY <3>1, <3>3, <3>6
      <4> QED
        BY <1>2, <2>1, <3>2, <3>4, <3>5, <3>6, <4>1
    <3>7. CASE req[p].latest # 0
      BY <1>2, <2>1, <3>2, <3>4, <3>5, <3>7
    <3> QED
      BY <3>6, <3>7
  <2> QED
    BY <2>2, <2>3
<1>5. tally' = [k \in Slot |-> tally'[k]]
  BY DEF Commit
<1> QED
  BY <1>4, <1>5 DEF CountsAreExact, AdmittedAreCounted, AdmittedWithinBudget

(* The slots an attempt in flight has written are not those of a commit. *)
LEMMA OthersWritten ==
  ASSUME IInv, NEW p \in Worker, Commit(p),
         NEW q \in Worker, q # p, InFlight(q),
         NEW d \in Dimension, d \notin req[q].todo
  PROVE  rows'[SlotOf(q, d)] = rows[SlotOf(q, d)]
<1>1. /\ TypeOK /\ OneWriter
      /\ \A s \in Worker : Advances(s) /\ Written(s)
  BY DEF IInv
<1>2. pc[p] = "commit" /\ InFlight(p) /\ req[p].todo = {}
  BY <1>1 DEF Commit, InFlight, Advances
<1>3. ASSUME NEW s \in Worker, InFlight(s),
             NEW e \in Dimension, e \notin req[s].todo
      PROVE  SlotOf(s, e) \in Slot /\ req[s].pend[e] # NoRow
  <2>1. SlotOf(s, e) \in Slot
    BY <1>1, <1>3, SlotsAreSlots
  <2>2. rows[SlotOf(s, e)] \in Row /\ req[s].at \in 0 .. MaxTime
    BY <1>1, <2>1, RequestTypes DEF TypeOK
  <2>3. req[s].pend[e] = Upserted(rows[SlotOf(s, e)], e, req[s].at)
    BY <1>1, <1>3 DEF Written
  <2> QED
    BY <2>1, <2>2, <2>3, UpsertedRow
<1>4. SlotOf(q, d) \notin SlotsOf(p)
  <2> SUFFICES ASSUME NEW e \in Dimension
               PROVE  SlotOf(p, e) # SlotOf(q, d)
    BY DEF SlotsOf
  <2>1. req[p].pend[e] # NoRow /\ req[q].pend[d] # NoRow
    BY <1>2, <1>3
  <2> QED
    BY <1>1, <2>1 DEF OneWriter
<1>5. SlotOf(q, d) \in Slot
  BY <1>3
<1> QED
  BY <1>4, <1>5, CommitRows

LEMMA CommitStep ==
  ASSUME IInv, NEW p \in Worker, Commit(p)
  PROVE  IInv'
<1> DEFINE allowed == req[p].latest = 0
           label == IF allowed THEN "admitted" ELSE "idle"
           r == IF allowed
                THEN [req[p] EXCEPT !.pend = [d \in Dimension |-> NoRow]]
                ELSE NoReq
<1>1. /\ TypeOK /\ OneWriter /\ BlocksEnd
      /\ \A q \in Worker : Advances(q) /\ Written(q) /\ DueSeen(q)
  BY DEF IInv
<1>2. /\ pc[p] = "commit" /\ InFlight(p) /\ req[p].todo = {}
      /\ now' = now /\ sent' = sent
  BY <1>1 DEF Commit, InFlight, Advances
<1>3. Move(p, label, r)
  BY DEF Commit, End
<1>4. /\ label \in Label /\ label \in {"admitted", "idle"}
      /\ \A d \in Dimension : r.pend[d] = NoRow
      /\ label = "admitted" => allowed /\ r.due = req[p].due
  <2>1. CASE allowed
    BY <1>1, <2>1, RequestTypes DEF Label, Request
  <2>2. CASE ~allowed
    BY <2>2, NoReqTypes DEF Label
  <2> QED
    BY <2>1, <2>2
<1>5. r \in Request
  <2>1. [d \in Dimension |-> NoRow] \in [Dimension -> Row]
    BY NoReqTypes
  <2>2. req[p] \in Request
    BY <1>1, RequestTypes
  <2> QED
    BY <2>1, <2>2, NoReqTypes DEF Request
<1> HIDE DEF r, label
<1>6. /\ pc'[p] = label /\ req'[p] = r
      /\ \A q \in Worker \ {p} : pc'[q] = pc[q] /\ req'[q] = req[q]
      /\ pc' \in [Worker -> Label] /\ req' \in [Worker -> Request]
  BY <1>1, <1>3, <1>4, <1>5, MoveFrame
<1>7. TypeOK'
  BY <1>1, <1>2, <1>6, CommitRows, CommitCounts DEF TypeOK, Label
<1>8. ~InFlight(p)'
  BY <1>4, <1>6 DEF InFlight
<1>9. Advances(p)'
  BY <1>4, <1>6, <1>8 DEF Advances
<1>10. Written(p)'
  BY <1>4, <1>6, <1>8 DEF Written
<1>11. DueSeen(p)'
  <2>1. ASSUME allowed
        PROVE  ~req[p].due
    BY <1>1, <1>2, <2>1 DEF DueSeen
  <2> QED
    BY <1>4, <1>6, <1>8, <2>1 DEF DueSeen
<1>12. ASSUME NEW q \in Worker, q # p
       PROVE  Advances(q)' /\ Written(q)' /\ DueSeen(q)'
  <2>1. pc'[q] = pc[q] /\ req'[q] = req[q]
    BY <1>6, <1>12
  <2>2. Advances(q) /\ Written(q) /\ DueSeen(q)
    BY <1>1
  <2>3. Advances(q)'
    BY <2>1, <2>2 DEF Advances, InFlight
  <2>4. InFlight(q)' <=> InFlight(q)
    BY <2>1 DEF InFlight
  <2>5. Written(q)'
    <3> SUFFICES ASSUME NEW d \in Dimension
                 PROVE  IF InFlight(q) /\ d \notin req[q].todo
                        THEN /\ req[q].pend[d] =
                                  Upserted(rows[SlotOf(q, d)], d, req[q].at)'
                             /\ req[q].pend[d].blocked <= req[q].latest
                        ELSE req[q].pend[d] = NoRow
      BY <2>1, <2>4 DEF Written
    <3>1. CASE InFlight(q) /\ d \notin req[q].todo
      <4>1. SlotOf(q, d)' = SlotOf(q, d)
        BY <2>1 DEF SlotOf
      <4>2. rows[SlotOf(q, d)]' = rows[SlotOf(q, d)]
        BY <1>12, <3>1, <4>1, OthersWritten
      <4>3. Upserted(rows[SlotOf(q, d)], d, req[q].at)'
              = Upserted(rows[SlotOf(q, d)], d, req[q].at)
        BY <2>1, <4>2
      <4> QED
        BY <2>2, <3>1, <4>3 DEF Written
    <3>2. CASE ~(InFlight(q) /\ d \notin req[q].todo)
      BY <2>2, <3>2 DEF Written
    <3> QED
      BY <3>1, <3>2
  <2>6. DueSeen(q)'
    <3>1. CASE InFlight(q) /\ req[q].due
      <4>1. /\ req[q].subject \in Subject /\ req[q].ip \in Network
            /\ req[q].at \in Nat /\ req[q].todo \in SUBSET Dimension
        BY <1>1, <2>2, <3>1, RequestTypes DEF Advances
      <4>2. ASSUME NEW d \in Dimension,
                   ActiveBlocks(KeyOf(d, req[q].subject, req[q].ip),
                                req[q].at) # {}
            PROVE  ActiveBlocks(KeyOf(d, req[q].subject, req[q].ip),
                                req[q].at)' # {}
        <5>1. KeyOf(d, req[q].subject, req[q].ip) \in Key
          BY <4>1, KeysAreKeys
        <5> DEFINE key == KeyOf(d, req[q].subject, req[q].ip)
        <5>2. key' = key
          BY <2>1 DEF KeyOf
        <5> HIDE DEF key
        <5>3. ActiveBlocks(key, req[q].at)'
                = {rows'[<<key, w>>].blocked :
                     w \in {v \in 0 .. MaxTime :
                             rows'[<<key, v>>].blocked > req[q].at}}
          BY <2>1, <5>2 DEF ActiveBlocks
        <5>4. ActiveBlocks(key, req[q].at) # {} /\ key \in Key
          BY <4>2, <5>1 DEF key
        <5>5. ActiveBlocks(key, req[q].at)' # {}
          BY <4>1, <5>3, <5>4, BlocksRemain
        <5> QED
          BY <5>5 DEF key
      <4> QED
        BY <2>1, <2>2, <2>4, <3>1, <4>1, <4>2 DEF DueSeen
    <3>2. CASE ~(InFlight(q) /\ req[q].due)
      BY <2>1, <2>2, <2>4, <3>2 DEF DueSeen
    <3> QED
      BY <3>1, <3>2
  <2> QED
    BY <2>3, <2>5, <2>6
<1>13. OneWriter'
  <2>1. \A q \in Worker : \A d \in Dimension :
          req'[q].pend[d] # NoRow =>
            /\ q # p /\ req[q].pend[d] # NoRow
            /\ SlotOf(q, d)' = SlotOf(q, d)
    BY <1>4, <1>6 DEF SlotOf
  <2> QED
    BY <1>1, <2>1 DEF OneWriter
<1>14. BlocksEnd'
  <2> SUFFICES ASSUME NEW k \in Slot
               PROVE  rows'[k].blocked <= MaxTime + Rule[k[1].dim].block
    BY DEF BlocksEnd
  <2>1. rows[k].blocked <= MaxTime + Rule[k[1].dim].block
    BY <1>1 DEF BlocksEnd
  <2>2. CASE k \in SlotsOf(p)
    BY <2>1, <2>2, CommitUpserts
  <2>3. CASE k \notin SlotsOf(p)
    BY <2>1, <2>3, CommitRows
  <2> QED
    BY <2>2, <2>3
<1> QED
  BY <1>7, <1>9, <1>10, <1>11, <1>12, <1>13, <1>14, CommitCounts DEF IInv

----------------------------------------------------------------------------
(* The theorems.                                                            *)

LEMMA Initially == Init => IInv
<1> SUFFICES ASSUME Init PROVE IInv
  OBVIOUS
<1>1. TypeOK
  BY NoReqTypes, RuleAssumption DEF Init, TypeOK
<1>2. ASSUME NEW p \in Worker
      PROVE  Advances(p) /\ Written(p) /\ DueSeen(p)
  <2>1. pc[p] = "idle" /\ req[p] = NoReq
    BY DEF Init
  <2> QED
    BY <2>1, NoReqTypes DEF Advances, Written, DueSeen, InFlight
<1>3. OneWriter
  BY NoReqTypes DEF OneWriter, Init
<1>4. ASSUME NEW k \in Slot
      PROVE  /\ rows[k].count = 0 /\ rows[k].blocked = 0
             /\ tally[k].counted = 0 /\ tally[k].admitted = 0
             /\ Rule[k[1].dim].max \in Nat
             /\ MaxTime + Rule[k[1].dim].block \in Nat
  <2>1. k[1].dim \in Dimension
    BY SlotDimension
  <2>2. rows[k] = NoRow /\ tally[k] = [counted |-> 0, admitted |-> 0]
    BY DEF Init
  <2> QED
    BY <2>1, <2>2, RuleTypes, RuleAssumption DEF NoRow
<1>5. BlocksEnd /\ CountsAreExact /\ AdmittedAreCounted /\ AdmittedWithinBudget
  <2>1. \A n \in Nat : 0 <= n
    OBVIOUS
  <2> QED
    BY <1>4, <2>1 DEF BlocksEnd, CountsAreExact, AdmittedAreCounted,
                      AdmittedWithinBudget
<1> QED
  BY <1>1, <1>2, <1>3, <1>5 DEF IInv

LEMMA Unchanged ==
  ASSUME IInv, UNCHANGED <<rows, pc, req, tally>>,
         now' \in 0 .. MaxTime, sent' \in Nat
  PROVE  IInv'
<1>1. TypeOK'
  BY DEF IInv, TypeOK
<1>2. ASSUME NEW p \in Worker
      PROVE  Advances(p)' /\ Written(p)' /\ DueSeen(p)'
  <2>1. Advances(p) /\ Written(p) /\ DueSeen(p)
    BY DEF IInv
  <2>2. Advances(p)'
    BY <2>1 DEF Advances, InFlight
  <2>3. Written(p)'
    BY <2>1 DEF Written, InFlight, SlotOf
  <2>4. DueSeen(p)'
    BY <2>1 DEF DueSeen, InFlight, ActiveBlocks
  <2> QED
    BY <2>2, <2>3, <2>4
<1>3. OneWriter'
  BY DEF IInv, OneWriter, SlotOf
<1>4. /\ BlocksEnd' /\ CountsAreExact'
      /\ AdmittedAreCounted' /\ AdmittedWithinBudget'
  BY DEF IInv, BlocksEnd, CountsAreExact, AdmittedAreCounted,
         AdmittedWithinBudget
<1> QED
  BY <1>1, <1>2, <1>3, <1>4 DEF IInv

LEMMA NextKeeps == IInv /\ [Next]_vars => IInv'
<1> SUFFICES ASSUME IInv, [Next]_vars PROVE IInv'
  OBVIOUS
<1>1. now \in 0 .. MaxTime /\ sent \in Nat
  BY DEF IInv, TypeOK
<1>2. ASSUME NEW p \in Worker, NEW s \in Subject, NEW ip \in Network,
             Begin(p, s, ip)
      PROVE  IInv'
  BY <1>2, BeginStep
<1>3. ASSUME NEW p \in Worker, StartUpsert(p)
      PROVE  IInv'
  BY <1>3, StartUpsertStep
<1>4. ASSUME NEW p \in Worker, Consume(p)
      PROVE  IInv'
  BY <1>4, ConsumeStep
<1>5. ASSUME NEW p \in Worker, Commit(p)
      PROVE  IInv'
  BY <1>5, CommitStep
<1>6. ASSUME NEW p \in Worker, Answer(p) \/ ReturnRefused(p) \/ Rollback(p)
      PROVE  IInv'
  <2>1. /\ Move(p, "idle", NoReq) /\ UNCHANGED <<rows, tally>>
        /\ now' = now /\ sent' = sent
    BY <1>6 DEF Answer, ReturnRefused, Rollback, End
  <2> QED
    BY <1>1, <2>1, NoReqTypes, Left
<1>7. CASE Tick
  <2>1. now' \in 0 .. MaxTime
    BY <1>1, <1>7, RuleAssumption DEF Tick
  <2> QED
    BY <1>1, <1>7, <2>1, Unchanged DEF Tick
<1>8. CASE BoundsReached
  BY <1>1, <1>8, Unchanged DEF BoundsReached, vars
<1>9. CASE UNCHANGED vars
  BY <1>1, <1>9, Unchanged DEF vars
<1> QED
  BY <1>2, <1>3, <1>4, <1>5, <1>6, <1>7, <1>8, <1>9 DEF Next, Step

(* Every reachable state satisfies the inductive invariant. *)
THEOREM Invariance == Spec => []IInv
BY Initially, NextKeeps, PTL DEF Spec

(* No key admits more attempts in a window than its rule allows: the upsert *)
(* waits for the row's writer, so the count it compares is never stale.     *)
THEOREM WithinBudget == Spec => []AdmittedWithinBudget
<1>1. IInv => AdmittedWithinBudget
  BY DEF IInv
<1> QED
  BY <1>1, Invariance, PTL

(* Every committed attempt is counted exactly once in each of its windows. *)
THEOREM ExactCounts == Spec => []CountsAreExact
<1>1. IInv => CountsAreExact
  BY DEF IInv
<1> QED
  BY <1>1, Invariance, PTL

(* An attempt that begins while one of its keys is blocked is not admitted: *)
(* blocks are never cleared, and each upsert reads those of its key.        *)
THEOREM BlocksHonoured == Spec => []BlockHonoured
<1>1. IInv => BlockHonoured
  BY DEF IInv, BlockHonoured, DueSeen
<1> QED
  BY <1>1, Invariance, PTL

(* No step moves the block of a window, whatever is insisted. *)
THEOREM BlocksNotExtended == Spec => BlockNotExtended
<1>1. IInv /\ [Next]_vars =>
        [\A k \in Slot : rows[k].blocked # 0 =>
           rows'[k].blocked = rows[k].blocked]_vars
  <2> SUFFICES ASSUME IInv, Next, rows' # rows
               PROVE  \A k \in Slot : rows[k].blocked # 0 =>
                        rows'[k].blocked = rows[k].blocked
    BY DEF vars
  <2>1. PICK p \in Worker : Commit(p)
    BY DEF Next, Step, Begin, StartUpsert, Consume, Answer, ReturnRefused,
           Rollback, Tick, BoundsReached, vars
  <2> QED
    BY <2>1, CommitKeepsBlocks
<1> QED
  BY <1>1, Invariance, PTL DEF Spec, BlockNotExtended

----------------------------------------------------------------------------
(* Waits *)

\* The attempts go through their dimensions in the order of the list.
LEMMA TurnsStep ==
  ASSUME IInv, \A p \in Worker : InTurn(p), [Next]_vars
  PROVE  \A p \in Worker : InTurn(p)'
<1> USE DEF IInv, TypeOK
<1>1. ASSUME NEW p \in Worker, NEW label, NEW r, Move(p, label, r),
             label \in {"next", "consume", "commit"} =>
               /\ "Network" \in r.todo => "Identity" \in r.todo
               /\ "Identity" \in r.todo => "IdentityNetwork" \in r.todo
               /\ label = "consume" => r.turn \in Turn(r.todo)
      PROVE  \A q \in Worker : InTurn(q)'
  <2> TAKE q \in Worker
  <2>1. CASE q = p
    <3>1. pc'[q] = label /\ req'[q] = r
      BY <1>1, <2>1 DEF Move
    <3> QED
      BY <1>1, <3>1 DEF InTurn, InFlight, Turn
  <2>2. CASE q # p
    <3>1. pc'[q] = pc[q] /\ req'[q] = req[q]
      BY <1>1, <2>2 DEF Move
    <3> QED
      BY <3>1 DEF InTurn, InFlight, Turn
  <2> QED
    BY <2>1, <2>2
<1>2. ASSUME NEW p \in Worker, NEW s \in Subject, NEW ip \in Network, Begin(p, s, ip)
      PROVE  \A q \in Worker : InTurn(q)'
  <2> DEFINE r == [NoReq EXCEPT !.subject = s, !.ip = ip, !.at = now,
                 !.due = \E d \in Dimension :
                           ActiveBlocks(KeyOf(d, s, ip), now) # {}]
  <2>1. Move(p, "next", r) /\ r.todo = Dimension
    BY <1>2 DEF Begin, NoReq
  <2> HIDE DEF r
  <2> QED
    BY <1>1, <2>1 DEF Dimension
<1>3. ASSUME NEW p \in Worker, StartUpsert(p)
      PROVE  \A q \in Worker : InTurn(q)'
  <2> DEFINE r(d) == [req[p] EXCEPT !.turn = d,
           !.prior = PriorBlock(KeyOf(d, req[p].subject, req[p].ip), req[p].at)]
  <2>1. PICK d \in Turn(req[p].todo) : Move(p, "consume", r(d))
    BY <1>3 DEF StartUpsert
  <2>3. r(d).todo = req[p].todo /\ r(d).turn = d
    BY RequestTypes DEF Request
  <2> HIDE DEF r
  <2>2. InTurn(p) /\ InFlight(p)
    BY <1>3 DEF StartUpsert, InFlight
  <2> QED
    BY <1>1, <2>1, <2>2, <2>3 DEF InTurn
<1>4. ASSUME NEW p \in Worker, Consume(p)
      PROVE  \A q \in Worker : InTurn(q)'
  <2>1. CASE Move(p, "refused", [NoReq EXCEPT !.todo = {}])
    BY <1>1, <2>1
  <2>2. CASE ~Move(p, "refused", [NoReq EXCEPT !.todo = {}])
    <3> DEFINE d == req[p].turn
               new == Upserted(rows[SlotOf(p, d)], d, req[p].at)
               r == [req[p] EXCEPT !.todo = @ \ {d}, !.pend[d] = new,
                      !.latest = Larger(@, Larger(req[p].prior, new.blocked))]
               label == IF req[p].todo = {d} THEN "commit" ELSE "next"
    <3>1. Move(p, label, r) /\ r.todo = req[p].todo \ {d} /\ label # "consume"
      BY <1>4, <2>2, RequestTypes DEF Consume, Request
    <3> HIDE DEF r, label
    <3>2. InTurn(p) /\ InFlight(p) /\ pc[p] = "consume"
      BY <1>4 DEF Consume, InFlight
    <3>3. /\ "Network" \in r.todo => "Identity" \in r.todo
          /\ "Identity" \in r.todo => "IdentityNetwork" \in r.todo
      BY <3>1, <3>2, RequestTypes DEF InTurn, Turn, Dimension
    <3> QED
      BY <1>1, <3>1, <3>3
  <2> QED
    BY <2>1, <2>2
<1>5. ASSUME NEW p \in Worker,
             Commit(p) \/ Answer(p) \/ ReturnRefused(p) \/ Rollback(p)
      PROVE  \A q \in Worker : InTurn(q)'
  <2>1. PICK label \in {"idle", "admitted"} : \E r : Move(p, label, r)
    BY <1>5 DEF Commit, Answer, ReturnRefused, Rollback, End
  <2> QED
    BY <1>1, <2>1
<1>6. CASE UNCHANGED <<pc, req>>
  BY <1>6 DEF InTurn, InFlight, Turn
<1> QED
  BY <1>2, <1>3, <1>4, <1>5, <1>6 DEF Next, Step, Tick, BoundsReached, vars

LEMMA TurnsKept == Spec => [](\A p \in Worker : InTurn(p))
<1> DEFINE Turns == \A p \in Worker : InTurn(p)
<1>1. Init => Turns
  BY DEF Init, InTurn, InFlight
<1>2. IInv /\ Turns /\ [Next]_vars => Turns'
  BY TurnsStep
<1> HIDE DEF Turns
<1>3. Spec => []Turns
  BY <1>1, <1>2, Invariance, PTL DEF Spec
<1> QED
  BY <1>3 DEF Turns

\* An attempt waits for one that waits, if it does, for a later dimension.
LEMMA WaitsAhead ==
  ASSUME IInv, \A p \in Worker : InTurn(p),
         NEW p \in Worker, NEW q \in Worker, WaitsFor(p, q), pc[q] = "consume"
  PROVE  \/ req[p].turn = "Network" /\ req[q].turn # "Network"
         \/ req[p].turn = "Identity" /\ req[q].turn = "IdentityNetwork"
<1>1. PICK d \in Dimension :
        req[q].pend[d] # NoRow /\ SlotOf(q, d) = SlotOf(p, req[p].turn)
  BY DEF WaitsFor
<1>2. d = req[p].turn
  BY <1>1 DEF SlotOf, KeyOf
<1>3. d \notin req[q].todo
  BY <1>1 DEF IInv, Written
<1>4. InFlight(q) /\ req[q].turn \in Turn(req[q].todo) /\ InTurn(q)
  BY DEF InTurn, InFlight
<1>5. req[q].turn \in req[q].todo /\ req[q].todo \subseteq Dimension
  BY RequestTypes DEF IInv, Advances
<1> QED
  BY <1>2, <1>3, <1>4, <1>5 DEF InTurn, Turn, Dimension

\* However many attempts meet on the rows of the three dimensions, one of any
\* set of them waits for none of the others.
THEOREM NoAttemptsDeadlock == Spec => []NoDeadlock
<1>1. ASSUME IInv, \A p \in Worker : InTurn(p), NEW S \in SUBSET Worker,
             \A p \in S : \E q \in S : WaitsFor(p, q)
      PROVE  S = {}
  <2>1. \A p \in S : /\ pc[p] = "consume" /\ p \in Worker
                     /\ req[p].turn \in Dimension
    BY <1>1, RequestTypes DEF WaitsFor, IInv
  <2>2. \A p, q \in S : WaitsFor(p, q) =>
          \/ req[p].turn = "Network" /\ req[q].turn # "Network"
          \/ req[p].turn = "Identity" /\ req[q].turn = "IdentityNetwork"
    BY <1>1, <2>1, WaitsAhead
  <2>3. \A p \in S : req[p].turn # "IdentityNetwork"
    BY <1>1, <2>2
  <2>4. \A p \in S : req[p].turn # "Identity"
    BY <1>1, <2>2, <2>3
  <2>5. \A p \in S : req[p].turn # "Network"
    BY <1>1, <2>1, <2>2, <2>3, <2>4 DEF Dimension
  <2> QED
    BY <2>1, <2>3, <2>4, <2>5 DEF Dimension
<1>2. IInv /\ (\A p \in Worker : InTurn(p)) => NoDeadlock
  BY <1>1 DEF NoDeadlock
<1> QED
  BY <1>2, Invariance, TurnsKept, PTL
==============================================================================
