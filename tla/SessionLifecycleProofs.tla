----------------------- MODULE SessionLifecycleProofs ------------------------
(***************************************************************************)
(* Proofs about SessionLifecycle for any workers, users, tokens and bounds.*)
(* IInv of that module is inductive; the theorems at the end follow.       *)
(***************************************************************************)
EXTENDS SessionLifecycle, TLAPS

----------------------------------------------------------------------------
(* Types of the rows and contexts the actions build *)

LEMMA NewSessionType ==
  ASSUME NEW u \in User, NEW org \in Org \cup {None},
         NEW version \in Nat \cup {None}, NEW at \in Nat,
         NEW parent \in Token \cup {None}
  PROVE  NewSession(u, org, version, at, parent) \in SessionRow
BY PolicyAssumption, StoreAssumption DEF NewSession, SessionRow

LEMMA NoCtxType == NoCtx \in Ctx
BY DEF NoCtx, Ctx, MaxAttempts

LEMMA ProceedType ==
  ASSUME TypeOK, NEW p \in Worker, NEW label \in Labels, NEW c \in Ctx,
         Proceed(p, label, c)
  PROVE  /\ pc' \in [Worker -> Labels] /\ ctx' \in [Worker -> Ctx]
         /\ pc'[p] = label /\ ctx'[p] = c
         /\ \A q \in Worker \ {p} : pc'[q] = pc[q] /\ ctx'[q] = ctx[q]
BY DEF TypeOK, Proceed

\* The locks of a worker that takes one more, or drops all it has.
LEMMA TakeLocks ==
  ASSUME TypeOK, LockExclusion, NEW p \in Worker, NEW res \in Resource,
         NEW mode \in {"S", "X"}, Take(p, res, mode)
  PROVE  /\ locks' \in [Worker -> SUBSET Lock]
         /\ \A q \in Worker \ {p} : locks'[q] = locks[q]
         /\ locks'[p] = locks[p] \cup {[res |-> res, mode |-> mode]}
         /\ LockExclusion'
<1> DEFINE new == [res |-> res, mode |-> mode]
<1>1. new \in Lock
  BY DEF Lock
<1>2. locks' \in [Worker -> SUBSET Lock]
  BY <1>1 DEF TypeOK, StoreTypeOK, Take
<1>3. \A q \in Worker \ {p} : locks'[q] = locks[q]
  BY DEF TypeOK, StoreTypeOK, Take
<1>4. locks'[p] = locks[p] \cup {new}
  BY DEF TypeOK, StoreTypeOK, Take
<1>5. \A q \in Worker \ {p} : \A l \in locks[q] :
        l.res = new.res => new.mode = "S" /\ l.mode = "S"
  BY DEF Take, CanLock
<1>6. LockExclusion'
  BY <1>3, <1>4, <1>5 DEF LockExclusion
<1> QED
  BY <1>2, <1>3, <1>4, <1>6

LEMMA ReleaseLocks ==
  ASSUME TypeOK, LockExclusion, NEW p \in Worker, Release(p)
  PROVE  /\ locks' \in [Worker -> SUBSET Lock]
         /\ \A q \in Worker \ {p} : locks'[q] = locks[q]
         /\ locks'[p] = {}
         /\ LockExclusion'
<1>1. locks' \in [Worker -> SUBSET Lock]
  BY DEF TypeOK, StoreTypeOK, Release
<1>2. /\ \A q \in Worker \ {p} : locks'[q] = locks[q]
      /\ locks'[p] = {}
  BY DEF TypeOK, StoreTypeOK, Release
<1>3. LockExclusion'
  BY <1>2 DEF LockExclusion
<1> QED
  BY <1>1, <1>2, <1>3

----------------------------------------------------------------------------
(* Frames: what a step of one worker leaves alone *)

\* The part of the invariant that speaks of one worker.
LocalInv(p) ==
  Captured(p) /\ HoldsOld(p) /\ HoldsUser(p) /\ HoldsCredential(p)

\* The steps at which a transaction may hold a lock the invariant speaks of.
HoldingSteps == (ReplaceSteps \ {"lockSession"}) \cup {"insertLogin"}

\* A step that changes no row another transaction has locked, and inserts none
\* that another one has pending.
LEMMA RowFrame ==
  ASSUME IInv, NEW p \in Worker, NEW label \in Labels, NEW c \in Ctx,
         Proceed(p, label, c),
         UNCHANGED <<now, authorityRows>>,
         sessions' \in [Token -> SessionRow \cup {None}],
         \A q \in Worker \ {p} : pc[q] \in HoldingSteps \ {"insertLogin"} =>
           sessions'[ctx[q].token] = sessions[ctx[q].token],
         locks' \in [Worker -> SUBSET Lock],
         \A q \in Worker \ {p} : locks'[q] = locks[q],
         LockExclusion', LocalInv(p)', PendingApart', RenewalIsLinear'
  PROVE  IInv'
<1>1. /\ pc' \in [Worker -> Labels] /\ ctx' \in [Worker -> Ctx]
      /\ pc'[p] = label /\ ctx'[p] = c
      /\ \A q \in Worker \ {p} : pc'[q] = pc[q] /\ ctx'[q] = ctx[q]
  BY ProceedType DEF IInv
<1>2. TypeOK'
  BY <1>1 DEF IInv, TypeOK, StoreTypeOK, authorityRows
<1>3. ASSUME NEW q \in Worker
      PROVE  (Captured(q) /\ HoldsOld(q) /\ HoldsUser(q) /\ HoldsCredential(q))'
  <2>1. CASE q = p
    BY <2>1 DEF LocalInv
  <2>2. CASE q # p
    <3>1. /\ pc'[q] = pc[q] /\ ctx'[q] = ctx[q] /\ locks'[q] = locks[q]
          /\ users' = users /\ credentials' = credentials
      BY <2>2, <1>1 DEF authorityRows
    <3>2. Captured(q) /\ HoldsOld(q) /\ HoldsUser(q) /\ HoldsCredential(q)
      BY DEF IInv
    <3>3. Captured(q)'
      BY <3>1, <3>2 DEF Captured
    <3>4. pc[q] \in ReplaceSteps \ {"lockSession"} =>
            sessions'[ctx[q].token] = sessions[ctx[q].token]
      BY <2>2 DEF HoldingSteps, ReplaceSteps
    <3>5. HoldsOld(q)'
      BY <3>1, <3>2, <3>4 DEF HoldsOld, Holds, Unrevoked, Exists
    <3>6. HoldsUser(q)' /\ HoldsCredential(q)'
      BY <3>1, <3>2 DEF HoldsUser, HoldsCredential, Holds
    <3> QED
      BY <3>3, <3>5, <3>6
  <2> QED
    BY <2>1, <2>2
<1> QED
  BY <1>2, <1>3 DEF IInv

\* A step that changes no row: the invariant follows from its local part.
LEMMA LocalFrame ==
  ASSUME IInv, NEW p \in Worker, NEW label \in Labels, NEW c \in Ctx,
         Proceed(p, label, c), label # "commit",
         UNCHANGED <<now, authorityRows, sessions>>,
         locks' \in [Worker -> SUBSET Lock],
         \A q \in Worker \ {p} : locks'[q] = locks[q],
         LockExclusion',
         LocalInv(p)'
  PROVE  IInv'
<1>1. /\ pc'[p] = label /\ ctx'[p] = c
      /\ \A q \in Worker \ {p} : pc'[q] = pc[q] /\ ctx'[q] = ctx[q]
  BY ProceedType DEF IInv
<1>2. PendingApart'
  BY <1>1 DEF IInv, PendingApart, Exists
<1>3. RenewalIsLinear'
  BY DEF IInv, RenewalIsLinear, Exists
<1>4. sessions' \in [Token -> SessionRow \cup {None}]
  BY DEF IInv, TypeOK, StoreTypeOK
<1> QED
  BY <1>2, <1>3, <1>4, RowFrame

\* A request that ends without changing a row.
LEMMA FinishFrame ==
  ASSUME IInv, NEW p \in Worker, Finish(p),
         UNCHANGED <<now, authorityRows, sessions>>
  PROVE  IInv'
<1>1. /\ locks' \in [Worker -> SUBSET Lock]
      /\ \A q \in Worker \ {p} : locks'[q] = locks[q]
      /\ locks'[p] = {}
      /\ LockExclusion'
  BY ReleaseLocks DEF IInv, Finish
<1>2. "idle" \in Labels /\ NoCtx \in Ctx
  BY NoCtxType DEF Labels
<1>3. Proceed(p, "idle", NoCtx)
  BY DEF Finish
<1>4. pc'[p] = "idle" /\ ctx'[p] = NoCtx
  BY <1>2, <1>3, ProceedType DEF IInv
<1>5. LocalInv(p)'
  BY <1>1, <1>4 DEF LocalInv, Captured, CapturedAt, HoldsOld, HoldsUser,
     HoldsCredential, TxSteps, ReplaceSteps
<1> QED
  BY <1>1, <1>2, <1>3, <1>5, LocalFrame

\* A step outside any transaction, or up to a transaction's first lock.
LEMMA OutsideFrame ==
  ASSUME IInv, NEW p \in Worker, NEW label \in Labels, NEW c \in Ctx,
         Proceed(p, label, c), UNCHANGED storeVars,
         label \notin HoldingSteps,
         CapturedAt(label, c)
  PROVE  IInv'
<1>1. pc'[p] = label /\ ctx'[p] = c
  BY ProceedType DEF IInv
<1>2. locks' = locks
  BY DEF storeVars
<1>3. LocalInv(p)'
  BY <1>1, <1>2 DEF LocalInv, Captured, HoldsOld, HoldsUser, HoldsCredential,
     HoldingSteps, ReplaceSteps
<1>4. LockExclusion' /\ locks' \in [Worker -> SUBSET Lock]
  BY <1>2 DEF IInv, LockExclusion, TypeOK, StoreTypeOK
<1>5. label # "commit"
  BY DEF HoldingSteps, ReplaceSteps
<1>6. UNCHANGED <<now, authorityRows, sessions>>
  BY DEF storeVars, authorityRows
<1> QED
  BY <1>2, <1>3, <1>4, <1>5, <1>6, LocalFrame

----------------------------------------------------------------------------
(* The steps outside transactions *)

\* What the invariant says of the worker that moves.
LEMMA WorkerFacts ==
  ASSUME IInv, NEW p \in Worker
  PROVE  /\ pc[p] \in Labels /\ ctx[p] \in Ctx /\ locks[p] \subseteq Lock
         /\ now \in Nat
         /\ \A t \in Token : sessions[t] \in SessionRow \cup {None}
         /\ CapturedAt(pc[p], ctx[p])
         /\ HoldsOld(p) /\ HoldsUser(p) /\ HoldsCredential(p)
BY DEF IInv, TypeOK, StoreTypeOK, Captured

LEMMA RequestStep ==
  ASSUME IInv, NEW p \in Worker, NEW kind \in Kind, NEW t \in Token,
         Request(p, kind, t)
  PROVE  IInv'
<1> DEFINE c == [ctx[p] EXCEPT !.kind = kind, !.token = t]
<1>1. c \in Ctx /\ c.kind = kind /\ c.token = t
  BY WorkerFacts, KindAssumption DEF Ctx
<1>2. kind \in {"session", "logout", "renew"} /\ pc[p] = "idle"
      /\ Proceed(p, "find", c) /\ UNCHANGED storeVars
  BY DEF Request
<1>3. CapturedAt("find", c)
  BY <1>1, <1>2 DEF CapturedAt, TxSteps, ReplaceSteps
<1> HIDE DEF c
<1>4. "find" \in Labels /\ "find" \notin HoldingSteps /\ "idle" \notin TxSteps
  BY DEF Labels, HoldingSteps, TxSteps, ReplaceSteps
<1> QED
  BY <1>1, <1>2, <1>3, <1>4, OutsideFrame

LEMMA FindForValidationStep ==
  ASSUME IInv, NEW p \in Worker, FindForValidation(p)
  PROVE  IInv'
<1> DEFINE t == ctx[p].token
           c == [ctx[p] EXCEPT !.row = sessions[t]]
<1>1. pc[p] = "find" /\ UNCHANGED <<now, authorityRows, sessions>>
  BY DEF FindForValidation
<1>2. CASE Finish(p)
  BY <1>1, <1>2, FinishFrame
<1>3. CASE Exists(t) /\ Proceed(p, "validate", c) /\ UNCHANGED locks
  <2>1. t \in Token /\ ctx[p].kind \in {"session", "logout", "renew"}
    BY <1>1, WorkerFacts DEF CapturedAt
  <2>2. sessions[t] \in SessionRow
    BY <1>3, <2>1, WorkerFacts DEF Exists
  <2>3. c \in Ctx /\ c.token = t /\ c.kind = ctx[p].kind /\ c.row = sessions[t]
    BY <2>2, WorkerFacts DEF Ctx
  <2>4. CapturedAt("validate", c)
    BY <2>1, <2>2, <2>3 DEF CapturedAt, TxSteps, ReplaceSteps
  <2> HIDE DEF c
  <2>5. /\ "validate" \in Labels /\ "validate" \notin HoldingSteps
        /\ "find" \notin TxSteps
    BY DEF Labels, HoldingSteps, TxSteps, ReplaceSteps
  <2>6. UNCHANGED storeVars
    BY <1>1, <1>3 DEF storeVars, authorityRows
  <2> QED
    BY <1>1, <1>3, <2>3, <2>4, <2>5, <2>6, OutsideFrame
<1> QED
  BY <1>2, <1>3 DEF FindForValidation

\* Where validation leads, and with which context.
LEMMA AfterValidationFacts ==
  ASSUME IInv, NEW p \in Worker, pc[p] \in {"validate", "touch"}
  PROVE  /\ AfterValidation(ctx[p].kind) \in Labels \ HoldingSteps
         /\ AfterValidation(ctx[p].kind) \notin TxSteps
         /\ Validated(p) \in Ctx
         /\ CapturedAt(AfterValidation(ctx[p].kind), Validated(p))
<1> DEFINE kind == ctx[p].kind
           t == ctx[p].token
           u == ctx[p].row.user
           c == [NoCtx EXCEPT !.kind = kind, !.token = t, !.user = u]
<1>1. kind \in {"session", "logout", "renew"} /\ t \in Token
      /\ ctx[p].row \in SessionRow
  BY WorkerFacts DEF CapturedAt
<1>2. u \in User
  BY <1>1 DEF SessionRow
<1>3. c \in Ctx /\ c.kind = kind /\ c.token = t /\ c.user = u
  BY <1>1, <1>2, NoCtxType DEF Ctx
<1>4. CASE kind = "session"
  BY <1>4, NoCtxType DEF AfterValidation, Validated, Labels, HoldingSteps,
     TxSteps, ReplaceSteps, CapturedAt
<1>5. CASE kind # "session"
  <2>1. Validated(p) = c
    BY <1>5 DEF Validated
  <2>2. AfterValidation(kind) \in {"logout", "identity"}
    BY <1>1, <1>5 DEF AfterValidation
  <2> HIDE DEF c, kind, t, u
  <2>3. CapturedAt(AfterValidation(kind), c)
    BY <1>1, <1>2, <1>3, <2>2 DEF CapturedAt, TxSteps, ReplaceSteps
  <2>4. AfterValidation(kind) \in Labels \ HoldingSteps
        /\ AfterValidation(kind) \notin TxSteps
    BY <2>2 DEF Labels, HoldingSteps, TxSteps, ReplaceSteps
  <2> QED
    BY <1>3, <2>1, <2>3, <2>4 DEF kind
<1> QED
  BY <1>4, <1>5

LEMMA ValidateSessionStep ==
  ASSUME IInv, NEW p \in Worker, ValidateSession(p)
  PROVE  IInv'
<1> DEFINE c == [ctx[p] EXCEPT !.at = now]
           after == AfterValidation(ctx[p].kind)
<1>1. pc[p] = "validate" /\ UNCHANGED <<now, authorityRows, sessions>>
  BY DEF ValidateSession
<1>2. "validate" \notin TxSteps
  BY DEF TxSteps, ReplaceSteps
<1>3. CASE Finish(p)
  BY <1>1, <1>3, FinishFrame
<1>4. CASE Proceed(p, "touch", c) /\ UNCHANGED locks
  <2>1. c \in Ctx /\ c.token = ctx[p].token /\ c.kind = ctx[p].kind
        /\ c.row = ctx[p].row
    BY WorkerFacts DEF Ctx
  <2>2. CapturedAt("validate", ctx[p])
    BY <1>1, WorkerFacts
  <2>3. CapturedAt("touch", c)
    BY <2>1, <2>2 DEF CapturedAt, TxSteps, ReplaceSteps
  <2> HIDE DEF c
  <2>4. "touch" \in Labels /\ "touch" \notin HoldingSteps
    BY DEF Labels, HoldingSteps, ReplaceSteps
  <2>5. UNCHANGED storeVars
    BY <1>1, <1>4 DEF storeVars, authorityRows
  <2> QED
    BY <1>1, <1>2, <1>4, <2>1, <2>3, <2>4, <2>5, OutsideFrame
<1>5. CASE Proceed(p, after, Validated(p)) /\ UNCHANGED locks
  <2>1. UNCHANGED storeVars
    BY <1>1, <1>5 DEF storeVars, authorityRows
  <2>2. /\ after \in Labels \ HoldingSteps
        /\ Validated(p) \in Ctx /\ CapturedAt(after, Validated(p))
    BY <1>1, AfterValidationFacts
  <2> HIDE DEF after
  <2> QED
    BY <1>1, <1>2, <1>5, <2>1, <2>2, OutsideFrame
<1> QED
  BY <1>3, <1>4, <1>5 DEF ValidateSession

----------------------------------------------------------------------------
(* The steps that edit session rows in place *)

\* Rows are edited, none is added or removed, none loses its revocation, and
\* none is locked by a worker outside Mine.
EditedInPlace(Mine) ==
  /\ sessions' \in [Token -> SessionRow \cup {None}]
  /\ \A t \in Token : sessions'[t] # sessions[t] =>
       /\ Exists(t) /\ sessions'[t] # None
       /\ sessions'[t].parent = sessions[t].parent
       /\ sessions[t].revoked # None => sessions'[t].revoked # None
       /\ \A q \in Worker \ Mine : ~Holds(q, SessionLock(t), "X")

LEMMA EditFacts ==
  ASSUME IInv, NEW Mine \in SUBSET Worker, EditedInPlace(Mine)
  PROVE  /\ RenewalIsLinear'
         /\ \A q \in Worker \ Mine : pc[q] \in HoldingSteps \ {"insertLogin"} =>
              sessions'[ctx[q].token] = sessions[ctx[q].token]
         /\ \A t \in Token : sessions'[t] = None <=> sessions[t] = None
<1>1. \A t \in Token : sessions'[t] = None <=> sessions[t] = None
  BY DEF EditedInPlace, Exists
<1>2. \A t \in Token : Exists(t) =>
        /\ sessions'[t].parent = sessions[t].parent
        /\ sessions[t].revoked # None => sessions'[t].revoked # None
  BY DEF EditedInPlace
<1>3. RenewalIsLinear'
  BY <1>1, <1>2 DEF IInv, RenewalIsLinear, Exists
<1>4. ASSUME NEW q \in Worker \ Mine, pc[q] \in HoldingSteps \ {"insertLogin"}
      PROVE  sessions'[ctx[q].token] = sessions[ctx[q].token]
  <2>1. ctx[q].token \in Token /\ Holds(q, SessionLock(ctx[q].token), "X")
    BY <1>4, WorkerFacts DEF HoldingSteps, ReplaceSteps, CapturedAt, HoldsOld
  <2> QED
    BY <2>1 DEF EditedInPlace
<1> QED
  BY <1>1, <1>3, <1>4

LEMMA EditFrame ==
  ASSUME IInv, NEW p \in Worker, NEW label \in Labels, NEW c \in Ctx,
         Proceed(p, label, c), UNCHANGED <<now, authorityRows>>,
         EditedInPlace({p}), label \notin HoldingSteps, CapturedAt(label, c),
         locks' \in [Worker -> SUBSET Lock],
         \A q \in Worker \ {p} : locks'[q] = locks[q],
         LockExclusion'
  PROVE  IInv'
<1>1. /\ pc'[p] = label /\ ctx'[p] = c
      /\ \A q \in Worker \ {p} : pc'[q] = pc[q] /\ ctx'[q] = ctx[q]
  BY ProceedType DEF IInv
<1>2. LocalInv(p)'
  BY <1>1 DEF LocalInv, Captured, HoldsOld, HoldsUser, HoldsCredential,
     HoldingSteps, ReplaceSteps
<1>3. /\ RenewalIsLinear'
      /\ \A q \in Worker \ {p} : pc[q] \in HoldingSteps \ {"insertLogin"} =>
           sessions'[ctx[q].token] = sessions[ctx[q].token]
      /\ \A t \in Token : sessions'[t] = None <=> sessions[t] = None
  BY EditFacts
<1>4. PendingApart'
  <2>1. \A q \in Worker : pc'[q] = "commit" => q # p /\ ctx[q].fresh \in Token
    BY <1>1, WorkerFacts DEF HoldingSteps, ReplaceSteps, CapturedAt
  <2> QED
    BY <1>1, <1>3, <2>1 DEF IInv, PendingApart, Exists
<1>5. sessions' \in [Token -> SessionRow \cup {None}]
  BY DEF EditedInPlace
<1> QED
  BY <1>2, <1>3, <1>4, <1>5, RowFrame

LEMMA TouchLastSeenIfDueStep ==
  ASSUME IInv, NEW p \in Worker, TouchLastSeenIfDue(p)
  PROVE  IInv'
<1> DEFINE t == ctx[p].token
           at == ctx[p].at
           after == AfterValidation(ctx[p].kind)
<1>1. /\ pc[p] = "touch" /\ UNCHANGED <<now, authorityRows>>
      /\ UNCHANGED locks /\ Proceed(p, after, Validated(p))
      /\ Touchable(t, at) => CanLock(p, SessionLock(t), "X")
      /\ sessions' = IF Touchable(t, at)
                     THEN [sessions EXCEPT ![t].seen = at] ELSE sessions
  BY DEF TouchLastSeenIfDue
<1>2. t \in Token /\ at \in Nat
  BY <1>1, WorkerFacts DEF CapturedAt, Ctx
<1>3. EditedInPlace({p})
  <2>1. CASE Touchable(t, at)
    <3>1. sessions[t] # None /\ sessions[t] \in SessionRow
      BY <1>2, <2>1, WorkerFacts DEF Touchable, Unrevoked, Exists
    <3> DEFINE new == [sessions[t] EXCEPT !.seen = at]
    <3>2. /\ new \in SessionRow /\ new.parent = sessions[t].parent
          /\ new.revoked = sessions[t].revoked
      BY <1>2, <3>1 DEF SessionRow
    <3>3. sessions' = [sessions EXCEPT ![t] = new]
      BY <1>1, <2>1
    <3> HIDE DEF new
    <3>4. new # None
      BY <3>2, NoneAssumption
    <3>5. \A q \in Worker \ {p} : ~Holds(q, SessionLock(t), "X")
      BY <1>1, <2>1 DEF CanLock, Holds
    <3> QED
      BY <1>2, <3>1, <3>2, <3>3, <3>4, <3>5
      DEF EditedInPlace, Exists, IInv, TypeOK, StoreTypeOK
  <2>2. CASE ~Touchable(t, at)
    BY <1>1, <2>2 DEF EditedInPlace, IInv, TypeOK, StoreTypeOK
  <2> QED
    BY <2>1, <2>2
<1>4. /\ after \in Labels \ HoldingSteps
      /\ Validated(p) \in Ctx /\ CapturedAt(after, Validated(p))
  BY <1>1, AfterValidationFacts
<1>5. /\ locks' \in [Worker -> SUBSET Lock] /\ locks' = locks /\ LockExclusion'
  BY <1>1 DEF IInv, TypeOK, StoreTypeOK, LockExclusion
<1> HIDE DEF after
<1> QED
  BY <1>1, <1>3, <1>4, <1>5, EditFrame

\* Revoking an unrevoked session edits its row in place.
LEMMA RevokedRow ==
  ASSUME NEW row \in SessionRow, NEW at \in Nat
  PROVE  LET new == [row EXCEPT !.revoked = at] IN
         /\ new \in SessionRow /\ new # None
         /\ new.parent = row.parent /\ new.revoked = at /\ at # None
<1> DEFINE new == [row EXCEPT !.revoked = at]
<1>1. new \in SessionRow /\ new.parent = row.parent /\ new.revoked = at
  BY DEF SessionRow
<1>2. new # None /\ at # None
  BY <1>1, NoneAssumption, StoreAssumption
<1> QED
  BY <1>1, <1>2

LEMMA RevokeSessionStep ==
  ASSUME IInv, NEW p \in Worker, RevokeSession(p)
  PROVE  IInv'
<1> DEFINE c == [ctx[p] EXCEPT !.at = now]
<1>1. pc[p] = "logout" /\ Proceed(p, "revoke", c) /\ UNCHANGED storeVars
  BY DEF RevokeSession
<1>2. c \in Ctx /\ c.token = ctx[p].token /\ c.user = ctx[p].user
  BY WorkerFacts DEF Ctx
<1>3. CapturedAt("logout", ctx[p])
  BY <1>1, WorkerFacts
<1>4. CapturedAt("revoke", c)
  BY <1>2, <1>3 DEF CapturedAt, TxSteps, ReplaceSteps
<1> HIDE DEF c
<1>5. "revoke" \in Labels /\ "revoke" \notin HoldingSteps /\ "logout" \notin TxSteps
  BY DEF Labels, HoldingSteps, TxSteps, ReplaceSteps
<1> QED
  BY <1>1, <1>2, <1>4, <1>5, OutsideFrame

LEMMA RevokeByTokenHashStep ==
  ASSUME IInv, NEW p \in Worker, RevokeByTokenHash(p)
  PROVE  IInv'
<1> DEFINE t == ctx[p].token
           at == ctx[p].at
           new == [sessions[t] EXCEPT !.revoked = at]
<1>1. /\ pc[p] = "revoke" /\ Finish(p) /\ UNCHANGED <<now, authorityRows>>
      /\ Unrevoked(t) => CanLock(p, SessionLock(t), "X")
      /\ sessions' = IF Unrevoked(t)
                     THEN [sessions EXCEPT ![t].revoked = at] ELSE sessions
  BY DEF RevokeByTokenHash
<1>2. t \in Token /\ at \in Nat
  BY <1>1, WorkerFacts DEF CapturedAt, Ctx
<1>3. EditedInPlace({p})
  <2>1. CASE Unrevoked(t)
    <3>1. sessions[t] # None /\ sessions[t] \in SessionRow
      BY <1>2, <2>1, WorkerFacts DEF Unrevoked, Exists
    <3>2. /\ new \in SessionRow /\ new # None
          /\ new.parent = sessions[t].parent /\ new.revoked # None
      BY <1>2, <3>1, RevokedRow
    <3>3. sessions' = [sessions EXCEPT ![t] = new]
      BY <1>1, <2>1
    <3> HIDE DEF new
    <3>4. \A q \in Worker \ {p} : ~Holds(q, SessionLock(t), "X")
      BY <1>1, <2>1 DEF CanLock, Holds
    <3> QED
      BY <1>2, <3>1, <3>2, <3>3, <3>4
      DEF EditedInPlace, Exists, IInv, TypeOK, StoreTypeOK
  <2>2. CASE ~Unrevoked(t)
    BY <1>1, <2>2 DEF EditedInPlace, IInv, TypeOK, StoreTypeOK
  <2> QED
    BY <2>1, <2>2
<1>4. /\ Proceed(p, "idle", NoCtx) /\ NoCtx \in Ctx /\ "idle" \in Labels
      /\ "idle" \notin HoldingSteps /\ CapturedAt("idle", NoCtx)
  BY <1>1, NoCtxType
  DEF Finish, Labels, HoldingSteps, TxSteps, ReplaceSteps, CapturedAt
<1>5. /\ locks' \in [Worker -> SUBSET Lock] /\ LockExclusion' /\ locks'[p] = {}
      /\ \A q \in Worker \ {p} : locks'[q] = locks[q]
  BY <1>1, ReleaseLocks DEF Finish, IInv
<1> QED
  BY <1>1, <1>3, <1>4, <1>5, EditFrame

LEMMA CommitRevocationsStep ==
  ASSUME IInv, NEW p \in Worker, CommitRevocations(p)
  PROVE  IInv'
<1> DEFINE at == ctx[p].at
           new(t) == [sessions[t] EXCEPT !.revoked = at]
           Revoked(t) == t \in ctx[p].snapshot /\ Unrevoked(t)
<1>1. /\ pc[p] = "revokeRows" /\ Release(p) /\ Proceed(p, "revokedAll", ctx[p])
      /\ UNCHANGED <<now, authorityRows>>
      /\ \A t \in ctx[p].snapshot : Locked(p, t)
      /\ sessions' = [t \in Token |-> IF Revoked(t) THEN new(t) ELSE sessions[t]]
  BY DEF CommitRevocations, Goto
<1>2. at \in Nat /\ ctx[p] \in Ctx /\ ctx[p].user \in User
  BY <1>1, WorkerFacts DEF CapturedAt, TxSteps, Ctx
<1>3. ASSUME NEW t \in Token, Revoked(t)
      PROVE  /\ Exists(t) /\ new(t) \in SessionRow /\ new(t) # None
             /\ new(t).parent = sessions[t].parent /\ new(t).revoked # None
             /\ \A q \in Worker \ {p} : ~Holds(q, SessionLock(t), "X")
  <2>1. sessions[t] # None /\ sessions[t] \in SessionRow
    BY <1>3, WorkerFacts DEF Unrevoked, Exists
  <2>2. \A q \in Worker \ {p} : ~Holds(q, SessionLock(t), "X")
    BY <1>1, <1>3 DEF Locked, Holds, IInv, LockExclusion
  <2> QED
    BY <1>2, <2>1, <2>2, RevokedRow DEF Exists
<1> HIDE DEF new, Revoked
<1>4. EditedInPlace({p})
  BY <1>1, <1>3 DEF EditedInPlace, IInv, TypeOK, StoreTypeOK
<1>5. /\ "revokedAll" \in Labels /\ "revokedAll" \notin HoldingSteps
      /\ CapturedAt("revokedAll", ctx[p])
  BY <1>2 DEF Labels, HoldingSteps, TxSteps, ReplaceSteps, CapturedAt
<1>6. /\ locks' \in [Worker -> SUBSET Lock] /\ LockExclusion' /\ locks'[p] = {}
      /\ \A q \in Worker \ {p} : locks'[q] = locks[q]
  BY <1>1, ReleaseLocks DEF IInv
<1> QED
  BY <1>1, <1>2, <1>4, <1>5, <1>6, EditFrame

----------------------------------------------------------------------------
(* Up to the first lock of a renewal, a login or a bulk revocation *)

LEMMA FindIdentityStep ==
  ASSUME IInv, NEW p \in Worker, FindIdentity(p)
  PROVE  IInv'
<1>1. pc[p] = "identity" /\ UNCHANGED <<now, authorityRows, sessions>>
  BY DEF FindIdentity
<1>2. CASE Finish(p)
  BY <1>1, <1>2, FinishFrame
<1>3. CASE Proceed(p, "credential", ctx[p]) /\ UNCHANGED locks
  <2>1. CapturedAt("credential", ctx[p])
    BY <1>1, WorkerFacts DEF CapturedAt, TxSteps, ReplaceSteps
  <2>2. /\ "credential" \in Labels /\ "credential" \notin HoldingSteps
        /\ "identity" \notin TxSteps
    BY DEF Labels, HoldingSteps, TxSteps, ReplaceSteps
  <2>3. UNCHANGED storeVars
    BY <1>1, <1>3 DEF storeVars, authorityRows
  <2> QED
    BY <1>1, <1>3, <2>1, <2>2, <2>3, WorkerFacts, OutsideFrame
<1> QED
  BY <1>2, <1>3 DEF FindIdentity

LEMMA FindCredentialStep ==
  ASSUME IInv, NEW p \in Worker, FindCredential(p)
  PROVE  IInv'
<1> DEFINE c == [ctx[p] EXCEPT !.hash = credentials[ctx[p].user]]
<1>1. /\ pc[p] = "credential" /\ Proceed(p, "verify", c)
      /\ UNCHANGED <<now, authorityRows, sessions, locks>>
  BY DEF FindCredential
<1>2. CapturedAt("credential", ctx[p])
  BY <1>1, WorkerFacts
<1>3. credentials[ctx[p].user] \in Nat
  BY <1>2 DEF CapturedAt, IInv, TypeOK, StoreTypeOK
<1>4. c \in Ctx /\ c.token = ctx[p].token /\ c.user = ctx[p].user
  BY <1>3, WorkerFacts DEF Ctx
<1>5. CapturedAt("verify", c)
  BY <1>2, <1>4 DEF CapturedAt, TxSteps, ReplaceSteps
<1> HIDE DEF c
<1>6. /\ "verify" \in Labels /\ "verify" \notin HoldingSteps
      /\ "credential" \notin TxSteps
  BY DEF Labels, HoldingSteps, TxSteps, ReplaceSteps
<1>7. UNCHANGED storeVars
  BY <1>1 DEF storeVars, authorityRows
<1> QED
  BY <1>1, <1>4, <1>5, <1>6, <1>7, OutsideFrame

LEMMA FindPasswordIdentityStep ==
  ASSUME IInv, NEW p \in Worker, FindPasswordIdentity(p)
  PROVE  IInv'
BY FindIdentityStep, FindCredentialStep DEF FindPasswordIdentity

LEMMA VerifyPasswordStep ==
  ASSUME IInv, NEW p \in Worker, VerifyPassword(p)
  PROVE  IInv'
<1>1. pc[p] = "verify" /\ UNCHANGED <<now, authorityRows, sessions>>
  BY DEF VerifyPassword
<1>2. CASE Finish(p)
  BY <1>1, <1>2, FinishFrame
<1>3. ASSUME NEW t \in Token, UNCHANGED locks,
             Proceed(p, "lockSession",
               [ctx[p] EXCEPT !.fresh = t, !.at = now])
      PROVE  IInv'
  <2> DEFINE c == [ctx[p] EXCEPT !.fresh = t, !.at = now]
  <2>1. CapturedAt("verify", ctx[p])
    BY <1>1, WorkerFacts
  <2>2. c \in Ctx /\ c.token = ctx[p].token /\ c.user = ctx[p].user
        /\ c.fresh = t
    BY WorkerFacts DEF Ctx
  <2>3. CapturedAt("lockSession", c)
    BY <2>1, <2>2 DEF CapturedAt, TxSteps, ReplaceSteps
  <2>4. Proceed(p, "lockSession", c)
    BY <1>3
  <2> HIDE DEF c
  <2>5. /\ "lockSession" \in Labels /\ "lockSession" \notin HoldingSteps
        /\ "verify" \notin TxSteps
    BY DEF Labels, HoldingSteps, TxSteps, ReplaceSteps
  <2>6. UNCHANGED storeVars
    BY <1>1, <1>3 DEF storeVars, authorityRows
  <2> QED
    BY <1>1, <2>2, <2>3, <2>4, <2>5, <2>6, OutsideFrame
<1> QED
  BY <1>2, <1>3 DEF VerifyPassword

LEMMA CreateSessionStep ==
  ASSUME IInv, NEW p \in Worker, NEW u \in User, CreateSession(p, u)
  PROVE  IInv'
<1>1. PICK t \in Token : Proceed(p, "lockLogin",
        [ctx[p] EXCEPT !.kind = "login", !.user = u, !.at = now, !.fresh = t])
  BY DEF CreateSession
<1> DEFINE c == [ctx[p] EXCEPT !.kind = "login", !.user = u, !.at = now,
                               !.fresh = t]
<1>2. pc[p] = "idle" /\ UNCHANGED storeVars /\ Proceed(p, "lockLogin", c)
  BY <1>1 DEF CreateSession
<1>3. c \in Ctx /\ c.user = u /\ c.fresh = t
  BY WorkerFacts DEF Ctx
<1>4. CapturedAt("lockLogin", c)
  BY <1>3 DEF CapturedAt, TxSteps, ReplaceSteps
<1> HIDE DEF c
<1>5. /\ "lockLogin" \in Labels /\ "lockLogin" \notin HoldingSteps
      /\ "idle" \notin TxSteps
  BY DEF Labels, HoldingSteps, TxSteps, ReplaceSteps
<1> QED
  BY <1>2, <1>3, <1>4, <1>5, OutsideFrame

LEMMA RevokeAllSessionsStep ==
  ASSUME IInv, NEW p \in Worker, NEW u \in User, RevokeAllSessions(p, u)
  PROVE  IInv'
<1> DEFINE c == [ctx[p] EXCEPT !.kind = "revokeAll", !.user = u, !.at = now]
<1>1. pc[p] = "idle" /\ UNCHANGED storeVars /\ Proceed(p, "snapshot", c)
  BY DEF RevokeAllSessions
<1>2. c \in Ctx /\ c.user = u
  BY WorkerFacts DEF Ctx
<1>3. CapturedAt("snapshot", c)
  BY <1>2 DEF CapturedAt, TxSteps, ReplaceSteps
<1> HIDE DEF c
<1>4. /\ "snapshot" \in Labels /\ "snapshot" \notin HoldingSteps
      /\ "idle" \notin TxSteps
  BY DEF Labels, HoldingSteps, TxSteps, ReplaceSteps
<1> QED
  BY <1>1, <1>2, <1>3, <1>4, OutsideFrame

LEMMA RevokeAllForUserStep ==
  ASSUME IInv, NEW p \in Worker, RevokeAllForUser(p)
  PROVE  IInv'
<1> DEFINE seen == {t \in Token :
                     Unrevoked(t) /\ sessions[t].user = ctx[p].user}
           out == users[ctx[p].user] # "Active"
           c == [ctx[p] EXCEPT !.snapshot = seen, !.lockout = out]
<1>1. pc[p] = "snapshot" /\ UNCHANGED storeVars /\ Proceed(p, "revokeRows", c)
  BY DEF RevokeAllForUser
<1>2. seen \in SUBSET Token /\ out \in BOOLEAN
  OBVIOUS
<1>3. c \in Ctx /\ c.user = ctx[p].user
  <2> HIDE DEF seen, out
  <2> QED
    BY <1>2, WorkerFacts DEF Ctx
<1>4. CapturedAt("revokeRows", c)
  BY <1>1, <1>3, WorkerFacts DEF CapturedAt, TxSteps, ReplaceSteps
<1> HIDE DEF c
<1>5. /\ "revokeRows" \in Labels /\ "revokeRows" \notin HoldingSteps
      /\ "snapshot" \notin TxSteps
  BY DEF Labels, HoldingSteps, TxSteps, ReplaceSteps
<1> QED
  BY <1>1, <1>3, <1>4, <1>5, OutsideFrame

----------------------------------------------------------------------------
(* The steps of a transaction that take a lock *)

\* A step that takes one lock more and changes no row.
LEMMA AcquireFrame ==
  ASSUME IInv, NEW p \in Worker, NEW label \in Labels, NEW c \in Ctx,
         Proceed(p, label, c), label # "commit",
         UNCHANGED <<now, authorityRows, sessions>>,
         NEW res \in Resource, NEW mode \in {"S", "X"}, Acquire(p, res, mode),
         locks'[p] = locks[p] \cup {[res |-> res, mode |-> mode]}
           => LocalInv(p)'
  PROVE  IInv'
<1>1. Take(p, res, mode)
  BY DEF Acquire
<1>2. /\ locks' \in [Worker -> SUBSET Lock]
      /\ \A q \in Worker \ {p} : locks'[q] = locks[q]
      /\ locks'[p] = locks[p] \cup {[res |-> res, mode |-> mode]}
      /\ LockExclusion'
  BY <1>1, TakeLocks DEF IInv
<1> QED
  BY <1>2, LocalFrame

LEMMA LockSessionStep ==
  ASSUME IInv, NEW p \in Worker, LockSession(p)
  PROVE  IInv'
<1> DEFINE t == ctx[p].token
           c == [ctx[p] EXCEPT !.row = sessions[t]]
           res == SessionLock(t)
<1>1. pc[p] = "lockSession" /\ UNCHANGED <<now, authorityRows, sessions>>
  BY DEF LockSession
<1>2. CASE Finish(p)
  BY <1>1, <1>2, FinishFrame
<1>3. CASE Unrevoked(t) /\ Acquire(p, res, "X") /\ Proceed(p, "lockUser", c)
  <2>1. CapturedAt("lockSession", ctx[p])
    BY <1>1, WorkerFacts
  <2>2. t \in Token
    BY <2>1 DEF CapturedAt, ReplaceSteps
  <2>3. c \in Ctx /\ c.token = t /\ c.user = ctx[p].user
        /\ c.fresh = ctx[p].fresh /\ c.row = sessions[t]
    BY <2>2, WorkerFacts DEF Ctx
  <2>4. CapturedAt("lockUser", c)
    BY <2>1, <2>3 DEF CapturedAt, TxSteps, ReplaceSteps
  <2> HIDE DEF c
  <2>5. res \in Resource /\ "lockUser" \in Labels
    BY <2>2 DEF Resource, SessionLock, Labels, TxSteps, ReplaceSteps
  <2>6. pc'[p] = "lockUser" /\ ctx'[p] = c
    BY <1>3, <2>3, <2>5, ProceedType DEF IInv
  <2>7. ASSUME locks'[p] = locks[p] \cup {[res |-> res, mode |-> "X"]}
        PROVE  LocalInv(p)'
    <3>1. Captured(p)'
      BY <2>4, <2>6 DEF Captured
    <3>2. HoldsOld(p)'
      BY <1>1, <1>3, <2>3, <2>6, <2>7 DEF HoldsOld, Holds, Unrevoked, Exists
    <3> QED
      BY <2>6, <3>1, <3>2 DEF LocalInv, HoldsUser, HoldsCredential,
         TxSteps, ReplaceSteps
  <2> QED
    BY <1>1, <1>3, <2>3, <2>5, <2>7, AcquireFrame
<1> QED
  BY <1>2, <1>3 DEF LockSession

\* What a renewal holds after it takes one more lock.
LEMMA StillHeld ==
  ASSUME IInv, NEW p \in Worker, NEW c \in Ctx, ctx'[p] = c,
         c.token = ctx[p].token, c.user = ctx[p].user, c.row = ctx[p].row,
         c.hash = ctx[p].hash, locks[p] \subseteq locks'[p],
         UNCHANGED <<now, authorityRows, sessions>>
  PROVE  /\ pc[p] \in ReplaceSteps \ {"lockSession"} => HoldsOld(p)'
         /\ pc[p] \in ReplaceSteps \ {"lockSession", "lockUser"} =>
              /\ [res |-> UserLock(c.user), mode |-> "S"] \in locks'[p]
              /\ users'[c.user] = "Active"
         /\ pc[p] \in ReplaceSteps \ {"lockSession", "lockUser",
                                      "lockCredential"} =>
              HoldsCredential(p)'
<1>1. HoldsOld(p) /\ HoldsUser(p) /\ HoldsCredential(p)
  BY DEF IInv
<1>2. UNCHANGED <<users, credentials, sessions>>
  BY DEF authorityRows
<1>3. ASSUME pc[p] \in ReplaceSteps \ {"lockSession"}
      PROVE  HoldsOld(p)'
  BY <1>1, <1>2, <1>3 DEF HoldsOld, Holds, Unrevoked, Exists
<1>4. ASSUME pc[p] \in ReplaceSteps \ {"lockSession", "lockUser"}
      PROVE  /\ [res |-> UserLock(c.user), mode |-> "S"] \in locks'[p]
             /\ users'[c.user] = "Active"
  BY <1>1, <1>2, <1>4 DEF HoldsUser, Holds
<1>5. ASSUME pc[p] \in ReplaceSteps \ {"lockSession", "lockUser",
                                      "lockCredential"}
      PROVE  HoldsCredential(p)'
  BY <1>1, <1>2, <1>5 DEF HoldsCredential, Holds
<1> QED
  BY <1>3, <1>4, <1>5

LEMMA LockUserStep ==
  ASSUME IInv, NEW p \in Worker, LockUser(p)
  PROVE  IInv'
<1> DEFINE u == ctx[p].user
           res == UserLock(u)
<1>1. pc[p] = "lockUser" /\ UNCHANGED <<now, authorityRows, sessions>>
  BY DEF LockUser
<1>2. CASE Finish(p)
  BY <1>1, <1>2, FinishFrame
<1>3. CASE /\ users[u] = "Active" /\ Acquire(p, res, "S")
           /\ Proceed(p, "lockCredential", ctx[p])
  <2>1. CapturedAt("lockUser", ctx[p]) /\ ctx[p] \in Ctx
    BY <1>1, WorkerFacts
  <2>2. u \in User
    BY <2>1 DEF CapturedAt, TxSteps, ReplaceSteps
  <2>3. CapturedAt("lockCredential", ctx[p])
    BY <2>1 DEF CapturedAt, TxSteps, ReplaceSteps
  <2>4. res \in Resource /\ "lockCredential" \in Labels
    BY <2>2 DEF Resource, UserLock, Labels, TxSteps, ReplaceSteps
  <2>5. pc'[p] = "lockCredential" /\ ctx'[p] = ctx[p]
    BY <1>3, <2>1, <2>4, ProceedType DEF IInv
  <2>6. ASSUME locks'[p] = locks[p] \cup {[res |-> res, mode |-> "S"]}
        PROVE  LocalInv(p)'
    <3>1. Captured(p)'
      BY <2>3, <2>5 DEF Captured
    <3>2. HoldsOld(p)'
      BY <1>1, <2>1, <2>5, <2>6, StillHeld DEF ReplaceSteps
    <3>3. HoldsUser(p)'
      BY <1>1, <1>3, <2>5, <2>6 DEF HoldsUser, Holds, authorityRows
    <3>4. HoldsCredential(p)'
      BY <2>5 DEF HoldsCredential
    <3> QED
      BY <2>5, <3>1, <3>2, <3>3, <3>4 DEF LocalInv, TxSteps, ReplaceSteps
  <2> QED
    BY <1>1, <1>3, <2>1, <2>4, <2>6, AcquireFrame
<1> QED
  BY <1>2, <1>3 DEF LockUser, Goto

LEMMA LockCredentialStep ==
  ASSUME IInv, NEW p \in Worker, LockCredential(p)
  PROVE  IInv'
<1> DEFINE u == ctx[p].user
           res == CredentialLock(u)
           next == IF ctx[p].row.org = None THEN "write" ELSE "lockMembership"
<1>1. pc[p] = "lockCredential" /\ UNCHANGED <<now, authorityRows, sessions>>
  BY DEF LockCredential
<1>2. CASE Finish(p)
  BY <1>1, <1>2, FinishFrame
<1>3. CASE /\ credentials[u] = ctx[p].hash /\ Acquire(p, res, "S")
           /\ Proceed(p, next, ctx[p])
  <2>1. CapturedAt("lockCredential", ctx[p]) /\ ctx[p] \in Ctx
    BY <1>1, WorkerFacts
  <2>2. u \in User /\ ctx[p].token \in Token
    BY <2>1 DEF CapturedAt, TxSteps, ReplaceSteps
  <2>3. next = "lockMembership" => ctx[p].row.org \in Org
    <3>1. ctx[p].row \in SessionRow
      BY <1>1, <2>2, WorkerFacts DEF HoldsOld, ReplaceSteps, Unrevoked, Exists
    <3> QED
      BY <3>1 DEF SessionRow
  <2>4. next \in {"write", "lockMembership"}
    OBVIOUS
  <2> HIDE DEF next
  <2>5. CapturedAt(next, ctx[p])
    BY <2>1, <2>3, <2>4 DEF CapturedAt, TxSteps, ReplaceSteps
  <2>6. res \in Resource /\ next \in Labels /\ next # "commit"
    BY <2>2, <2>4 DEF Resource, CredentialLock, Labels, TxSteps, ReplaceSteps
  <2>7. pc'[p] = next /\ ctx'[p] = ctx[p]
    BY <1>3, <2>1, <2>6, ProceedType DEF IInv
  <2>8. ASSUME locks'[p] = locks[p] \cup {[res |-> res, mode |-> "S"]}
        PROVE  LocalInv(p)'
    <3>1. Captured(p)'
      BY <2>5, <2>7 DEF Captured
    <3>2. /\ HoldsOld(p)'
          /\ [res |-> UserLock(u), mode |-> "S"] \in locks'[p]
          /\ users'[u] = "Active"
      BY <1>1, <2>1, <2>7, <2>8, StillHeld DEF ReplaceSteps
    <3>3. HoldsUser(p)'
      BY <2>4, <2>7, <3>2 DEF HoldsUser, Holds
    <3>4. HoldsCredential(p)'
      BY <1>1, <1>3, <2>7, <2>8 DEF HoldsCredential, Holds, authorityRows
    <3> QED
      BY <2>4, <2>7, <3>1, <3>2, <3>3, <3>4 DEF LocalInv, TxSteps, ReplaceSteps
  <2> QED
    BY <1>1, <1>3, <2>1, <2>6, <2>8, AcquireFrame
<1> QED
  BY <1>2, <1>3 DEF LockCredential, Goto

\* The membership and the organization of the old session's selection.
LEMMA AcquireOnward ==
  ASSUME IInv, NEW p \in Worker,
         pc[p] \in {"lockMembership", "lockOrganization"},
         NEW label \in {"lockOrganization", "write"}, NEW c \in Ctx,
         c.token = ctx[p].token, c.user = ctx[p].user, c.row = ctx[p].row,
         c.hash = ctx[p].hash, c.fresh = ctx[p].fresh,
         Proceed(p, label, c), UNCHANGED <<now, authorityRows, sessions>>,
         NEW res \in Resource, Acquire(p, res, "S")
  PROVE  IInv'
<1>1. CapturedAt(pc[p], ctx[p])
  BY WorkerFacts
<1>2. CapturedAt(label, c)
  BY <1>1 DEF CapturedAt, TxSteps, ReplaceSteps
<1>3. label \in Labels /\ label # "commit"
  BY DEF Labels, TxSteps, ReplaceSteps
<1>4. pc'[p] = label /\ ctx'[p] = c
  BY <1>3, ProceedType DEF IInv
<1>5. ASSUME locks'[p] = locks[p] \cup {[res |-> res, mode |-> "S"]}
      PROVE  LocalInv(p)'
  <2>1. Captured(p)'
    BY <1>2, <1>4 DEF Captured
  <2>2. /\ HoldsOld(p)' /\ HoldsCredential(p)'
        /\ [res |-> UserLock(c.user), mode |-> "S"] \in locks'[p]
        /\ users'[c.user] = "Active"
    BY <1>4, <1>5, StillHeld DEF ReplaceSteps
  <2>3. HoldsUser(p)'
    BY <1>4, <2>2 DEF HoldsUser, Holds
  <2> QED
    BY <1>4, <2>1, <2>2, <2>3 DEF LocalInv, TxSteps, ReplaceSteps
<1> QED
  BY <1>3, <1>5, AcquireFrame

LEMMA LockMembershipStep ==
  ASSUME IInv, NEW p \in Worker, LockMembership(p)
  PROVE  IInv'
<1> DEFINE u == ctx[p].user
           o == ctx[p].row.org
           v == memberships[<<u, o>>].version
           c == [ctx[p] EXCEPT !.version = v]
           res == MembershipLock(u, o)
<1>1. pc[p] = "lockMembership" /\ UNCHANGED <<now, authorityRows, sessions>>
      /\ Acquire(p, res, "S")
  BY DEF LockMembership
<1>2. u \in User /\ o \in Org /\ ctx[p] \in Ctx
  BY <1>1, WorkerFacts DEF CapturedAt, TxSteps, ReplaceSteps
<1>3. v \in Nat
  BY <1>2 DEF IInv, TypeOK, StoreTypeOK, MembershipRow
<1>4. res \in Resource
  BY <1>2 DEF Resource, MembershipLock
<1> HIDE DEF v
<1>5. /\ c \in Ctx /\ c.token = ctx[p].token /\ c.user = u
      /\ c.row = ctx[p].row /\ c.hash = ctx[p].hash /\ c.fresh = ctx[p].fresh
  BY <1>2, <1>3 DEF Ctx
<1> HIDE DEF c, res
<1>6. CASE Proceed(p, "lockOrganization", c)
  BY <1>1, <1>4, <1>5, <1>6, AcquireOnward
<1>7. CASE Proceed(p, "write", ctx[p])
  BY <1>1, <1>2, <1>4, <1>7, AcquireOnward
<1> QED
  BY <1>6, <1>7 DEF LockMembership, Goto, c, v

LEMMA LockOrganizationStep ==
  ASSUME IInv, NEW p \in Worker, LockOrganization(p)
  PROVE  IInv'
<1> DEFINE o == ctx[p].row.org
           kept == [ctx[p] EXCEPT !.org = o]
           dropped == [ctx[p] EXCEPT !.version = None]
           res == OrganizationLock(o)
<1>1. pc[p] = "lockOrganization" /\ UNCHANGED <<now, authorityRows, sessions>>
      /\ Acquire(p, res, "S")
  BY DEF LockOrganization
<1>2. o \in Org /\ ctx[p] \in Ctx
  BY <1>1, WorkerFacts DEF CapturedAt
<1>3. res \in Resource
  BY <1>2 DEF Resource, OrganizationLock
<1>4. /\ kept \in Ctx /\ kept.token = ctx[p].token /\ kept.user = ctx[p].user
      /\ kept.row = ctx[p].row /\ kept.hash = ctx[p].hash
      /\ kept.fresh = ctx[p].fresh
  BY <1>2 DEF Ctx
<1>5. /\ dropped \in Ctx /\ dropped.token = ctx[p].token
      /\ dropped.user = ctx[p].user /\ dropped.row = ctx[p].row
      /\ dropped.hash = ctx[p].hash /\ dropped.fresh = ctx[p].fresh
  BY <1>2 DEF Ctx
<1> HIDE DEF kept, dropped, res
<1>6. CASE Proceed(p, "write", kept)
  BY <1>1, <1>3, <1>4, <1>6, AcquireOnward
<1>7. CASE Proceed(p, "write", dropped)
  BY <1>1, <1>3, <1>5, <1>7, AcquireOnward
<1> QED
  BY <1>6, <1>7 DEF LockOrganization, kept, dropped

LEMMA LockLoginUserStep ==
  ASSUME IInv, NEW p \in Worker, LockLoginUser(p)
  PROVE  IInv'
<1> DEFINE u == ctx[p].user
           res == UserLock(u)
<1>1. pc[p] = "lockLogin" /\ UNCHANGED <<now, authorityRows, sessions>>
  BY DEF LockLoginUser
<1>2. CASE Finish(p)
  BY <1>1, <1>2, FinishFrame
<1>3. CASE /\ users[u] = "Active" /\ Acquire(p, res, "X")
           /\ Proceed(p, "insertLogin", ctx[p])
  <2>1. CapturedAt("lockLogin", ctx[p]) /\ ctx[p] \in Ctx
    BY <1>1, WorkerFacts
  <2>2. u \in User
    BY <2>1 DEF CapturedAt, TxSteps, ReplaceSteps
  <2>3. CapturedAt("insertLogin", ctx[p])
    BY <2>1 DEF CapturedAt, TxSteps, ReplaceSteps
  <2>4. res \in Resource /\ "insertLogin" \in Labels
    BY <2>2 DEF Resource, UserLock, Labels, TxSteps, ReplaceSteps
  <2>5. pc'[p] = "insertLogin" /\ ctx'[p] = ctx[p]
    BY <1>3, <2>1, <2>4, ProceedType DEF IInv
  <2>6. ASSUME locks'[p] = locks[p] \cup {[res |-> res, mode |-> "X"]}
        PROVE  LocalInv(p)'
    <3>1. Captured(p)'
      BY <2>3, <2>5 DEF Captured
    <3>2. HoldsUser(p)'
      BY <1>1, <1>3, <2>5, <2>6 DEF HoldsUser, Holds, ReplaceSteps, authorityRows
    <3> QED
      BY <2>5, <3>1, <3>2 DEF LocalInv, HoldsOld, HoldsCredential,
         TxSteps, ReplaceSteps
  <2> QED
    BY <1>1, <1>3, <2>1, <2>4, <2>6, AcquireFrame
<1> QED
  BY <1>2, <1>3 DEF LockLoginUser, Goto

LEMMA RevokeRowStep ==
  ASSUME IInv, NEW p \in Worker, RevokeRow(p)
  PROVE  IInv'
<1>1. PICK t \in ctx[p].snapshot : Acquire(p, SessionLock(t), "X")
  BY DEF RevokeRow
<1>2. /\ pc[p] = "revokeRows" /\ UNCHANGED <<now, authorityRows, sessions>>
      /\ pc' = pc /\ ctx' = ctx
  BY DEF RevokeRow, lifeVars
<1>3. Proceed(p, "revokeRows", ctx[p])
  BY <1>2 DEF Proceed, IInv, TypeOK
<1>4. t \in Token /\ ctx[p] \in Ctx
  BY WorkerFacts DEF Ctx
<1>5. SessionLock(t) \in Resource /\ "revokeRows" \in Labels
  BY <1>4 DEF Resource, SessionLock, Labels, TxSteps
<1>6. LocalInv(p)'
  <2>1. Captured(p)'
    BY <1>2 DEF IInv, Captured
  <2> QED
    BY <1>2, <2>1 DEF LocalInv, HoldsOld, HoldsUser, HoldsCredential,
       TxSteps, ReplaceSteps
<1> QED
  BY <1>1, <1>2, <1>3, <1>4, <1>5, <1>6, AcquireFrame

----------------------------------------------------------------------------
(* The steps that write a new session *)

LEMMA WriteReplacementStep ==
  ASSUME IInv, NEW p \in Worker, WriteReplacement(p)
  PROVE  IInv'
<1> DEFINE c == [ctx[p] EXCEPT !.revokeAt = now]
<1>1. pc[p] = "write" /\ UNCHANGED <<now, authorityRows, sessions>>
  BY DEF WriteReplacement
<1>2. CASE Finish(p)
  BY <1>1, <1>2, FinishFrame
<1>3. CASE /\ ~Pending(ctx[p].fresh) /\ ~Exists(ctx[p].fresh)
           /\ Proceed(p, "commit", c) /\ UNCHANGED locks
  <2>1. CapturedAt("write", ctx[p])
    BY <1>1, WorkerFacts
  <2>2. /\ c \in Ctx /\ c.token = ctx[p].token /\ c.user = ctx[p].user
        /\ c.row = ctx[p].row /\ c.hash = ctx[p].hash
        /\ c.fresh = ctx[p].fresh
    BY WorkerFacts DEF Ctx
  <2>3. CapturedAt("commit", c)
    BY <2>1, <2>2 DEF CapturedAt, TxSteps, ReplaceSteps
  <2> HIDE DEF c
  <2>4. "commit" \in Labels
    BY DEF Labels, TxSteps, ReplaceSteps
  <2>5. /\ pc'[p] = "commit" /\ ctx'[p] = c
        /\ \A q \in Worker \ {p} : pc'[q] = pc[q] /\ ctx'[q] = ctx[q]
    BY <1>3, <2>2, <2>4, ProceedType DEF IInv
  <2>6. LocalInv(p)'
    <3>1. Captured(p)'
      BY <2>3, <2>5 DEF Captured
    <3>2. /\ HoldsOld(p)' /\ HoldsCredential(p)'
          /\ [res |-> UserLock(c.user), mode |-> "S"] \in locks'[p]
          /\ users'[c.user] = "Active"
      BY <1>1, <1>3, <2>2, <2>5, StillHeld DEF ReplaceSteps
    <3>3. HoldsUser(p)'
      BY <2>5, <3>2 DEF HoldsUser, Holds
    <3> QED
      BY <2>5, <3>1, <3>2, <3>3 DEF LocalInv, TxSteps, ReplaceSteps
  <2>7. PendingApart'
    <3>1. \A q \in Worker \ {p} : pc[q] = "commit" => ctx[q].fresh # c.fresh
      BY <1>3, <2>2 DEF Pending
    <3> QED
      BY <1>1, <1>3, <2>2, <2>5, <3>1 DEF IInv, PendingApart, Exists
  <2>8. RenewalIsLinear' /\ LockExclusion' /\ locks' \in [Worker -> SUBSET Lock]
        /\ sessions' \in [Token -> SessionRow \cup {None}]
    BY <1>1, <1>3 DEF IInv, RenewalIsLinear, Exists, LockExclusion, TypeOK,
       StoreTypeOK
  <2>9. UNCHANGED <<now, authorityRows>>
    BY <1>1
  <2> QED
    BY <1>1, <1>3, <2>2, <2>4, <2>6, <2>7, <2>8, <2>9, RowFrame
<1> QED
  BY <1>2, <1>3 DEF WriteReplacement

\* What one inserted row does to the invariant of the others.
LEMMA InsertFrame ==
  ASSUME IInv, NEW p \in Worker, Finish(p), UNCHANGED <<now, authorityRows>>,
         sessions' \in [Token -> SessionRow \cup {None}],
         NEW fresh \in Token, ~Exists(fresh),
         NEW old,
         \A t \in Token \ {fresh, old} : sessions'[t] = sessions[t],
         \A q \in Worker \ {p} : pc[q] = "commit" =>
            ctx[q].fresh # fresh /\ ctx[q].fresh # old,
         \A q \in Worker \ {p} :
            pc[q] \in HoldingSteps \ {"insertLogin"} => ctx[q].token # old,
         RenewalIsLinear'
  PROVE  IInv'
<1>1. Proceed(p, "idle", NoCtx) /\ Release(p) /\ "idle" \in Labels /\ NoCtx \in Ctx
  BY NoCtxType DEF Finish, Labels
<1>2. /\ pc'[p] = "idle" /\ ctx'[p] = NoCtx
      /\ \A q \in Worker \ {p} : pc'[q] = pc[q] /\ ctx'[q] = ctx[q]
  BY <1>1, ProceedType DEF IInv
<1>3. /\ locks' \in [Worker -> SUBSET Lock] /\ LockExclusion' /\ locks'[p] = {}
      /\ \A q \in Worker \ {p} : locks'[q] = locks[q]
  BY <1>1, ReleaseLocks DEF IInv
<1>4. LocalInv(p)'
  BY <1>2, <1>3 DEF LocalInv, Captured, CapturedAt, HoldsOld, HoldsUser,
     HoldsCredential, TxSteps, ReplaceSteps
<1>5. ASSUME NEW q \in Worker \ {p}, pc[q] \in HoldingSteps \ {"insertLogin"}
      PROVE  sessions'[ctx[q].token] = sessions[ctx[q].token]
  <2>1. ctx[q].token \in Token /\ Exists(ctx[q].token)
    BY <1>5, WorkerFacts DEF HoldingSteps, ReplaceSteps, CapturedAt, HoldsOld,
       Unrevoked
  <2> QED
    BY <1>5, <2>1
<1>6. PendingApart'
  <2>1. \A q \in Worker : pc'[q] = "commit" => q # p /\ ctx[q].fresh \in Token
    BY <1>2, WorkerFacts DEF ReplaceSteps, CapturedAt
  <2> QED
    BY <1>2, <2>1 DEF IInv, PendingApart, Exists
<1> QED
  BY <1>1, <1>3, <1>4, <1>5, <1>6, RowFrame

LEMMA CommitReplacementStep ==
  ASSUME IInv, NEW p \in Worker, CommitReplacement(p)
  PROVE  IInv'
<1> DEFINE fresh == ctx[p].fresh
           old == ctx[p].token
           new == NewSession(ctx[p].user, ctx[p].org, ctx[p].version,
                             ctx[p].at, old)
           revoked == [sessions[old] EXCEPT !.revoked = ctx[p].revokeAt]
<1>1. /\ pc[p] = "commit" /\ Finish(p) /\ UNCHANGED <<now, authorityRows>>
      /\ sessions' = [sessions EXCEPT ![fresh] = new,
                                     ![old].revoked = ctx[p].revokeAt]
  BY DEF CommitReplacement
<1>2. /\ fresh \in Token /\ old \in Token /\ ctx[p].user \in User
      /\ ctx[p] \in Ctx
  BY <1>1, WorkerFacts DEF CapturedAt, TxSteps, ReplaceSteps
<1>3. /\ ~Exists(fresh) /\ Unrevoked(old) /\ Exists(old)
      /\ Holds(p, SessionLock(old), "X")
  BY <1>1, WorkerFacts DEF IInv, PendingApart, HoldsOld, ReplaceSteps, Unrevoked
<1>4. fresh # old
  BY <1>3
<1>5. new \in SessionRow /\ new.parent = old
  <2>1. /\ ctx[p].org \in Org \cup {None} /\ ctx[p].version \in Nat \cup {None}
        /\ ctx[p].at \in Nat
    BY <1>2 DEF Ctx
  <2>2. new \in SessionRow
    BY <1>2, <2>1, NewSessionType
  <2> QED
    BY <2>2 DEF NewSession
<1>6. /\ revoked \in SessionRow /\ revoked # None
      /\ revoked.parent = sessions[old].parent /\ revoked.revoked # None
  <2>1. sessions[old] \in SessionRow /\ ctx[p].revokeAt \in Nat
    BY <1>2, <1>3, WorkerFacts DEF Exists, Ctx
  <2> QED
    BY <2>1, RevokedRow
<1>7. /\ sessions'[fresh] = new /\ sessions'[old] = revoked
      /\ \A t \in Token \ {fresh, old} : sessions'[t] = sessions[t]
      /\ DOMAIN sessions' = Token
      /\ sessions' = [t \in Token |-> sessions'[t]]
  BY <1>1, <1>2, <1>4 DEF IInv, TypeOK, StoreTypeOK
<1> HIDE DEF new, revoked
<1>8. sessions' \in [Token -> SessionRow \cup {None}]
  <2>1. \A t \in Token : sessions'[t] \in SessionRow \cup {None}
    BY <1>5, <1>6, <1>7, WorkerFacts
  <2> QED
    BY <1>7, <2>1
<1>9. \A q \in Worker \ {p} : pc[q] = "commit" =>
        ctx[q].fresh # fresh /\ ctx[q].fresh # old
  BY <1>1, <1>3 DEF IInv, PendingApart
<1>10. ASSUME NEW q \in Worker \ {p}, pc[q] \in HoldingSteps \ {"insertLogin"}
       PROVE  ctx[q].token # old
  <2>1. Holds(q, SessionLock(ctx[q].token), "X")
    BY <1>10, WorkerFacts DEF HoldingSteps, ReplaceSteps, HoldsOld
  <2> QED
    BY <1>3, <2>1 DEF IInv, LockExclusion, Holds
<1>11. RenewalIsLinear'
  <2>1. \A s \in Token : Exists(s) => sessions[s].parent # old
    BY <1>2, <1>3 DEF IInv, RenewalIsLinear, Unrevoked
  <2>2. \A s \in Token : Exists(s) => sessions[s].parent # fresh
    BY <1>2, <1>3 DEF IInv, RenewalIsLinear
  <2>3. \A s \in Token \ {fresh} :
          /\ sessions'[s] # None <=> Exists(s)
          /\ Exists(s) => sessions'[s].parent = sessions[s].parent
          /\ Exists(s) /\ sessions[s].revoked # None => sessions'[s].revoked # None
    BY <1>3, <1>6, <1>7 DEF Exists
  <2>4. sessions'[fresh] # None /\ sessions'[fresh].parent = old
        /\ sessions'[old].revoked # None /\ sessions'[old] # None
    BY <1>5, <1>6, <1>7, NoneAssumption
  <2>5. ASSUME NEW s \in Token, NEW t \in Token, sessions'[s] # None,
               sessions'[t] # None, sessions'[s].parent # None,
               sessions'[s].parent = sessions'[t].parent
        PROVE  s = t
    BY <2>1, <2>3, <2>4, <2>5 DEF IInv, RenewalIsLinear
  <2>6. ASSUME NEW s \in Token, NEW t \in Token, sessions'[s] # None,
               sessions'[s].parent = t
        PROVE  sessions'[t] # None /\ sessions'[t].revoked # None
    <3>1. CASE s = fresh
      BY <2>4, <2>6, <3>1
    <3>2. CASE s # fresh
      BY <2>2, <2>3, <2>6, <3>2 DEF IInv, RenewalIsLinear
    <3> QED
      BY <3>1, <3>2
  <2> QED
    BY <2>5, <2>6 DEF RenewalIsLinear, Exists
<1> HIDE DEF fresh, old
<1> QED
  BY <1>1, <1>2, <1>3, <1>7, <1>8, <1>9, <1>10, <1>11, InsertFrame

LEMMA RetryStep ==
  ASSUME IInv, NEW p \in Worker, pc[p] = "insertLogin", Retry(p),
         UNCHANGED <<now, authorityRows, sessions>>
  PROVE  IInv'
<1>1. PICK t \in Token : Proceed(p, "lockLogin",
        [ctx[p] EXCEPT !.fresh = t, !.attempt = @ + 1])
  BY DEF Retry
<1> DEFINE n == ctx[p].attempt + 1
           c == [ctx[p] EXCEPT !.fresh = t, !.attempt = n]
<1>2. n \in 1 .. MaxAttempts
  BY WorkerFacts DEF Retry, Ctx, MaxAttempts
<1>3. Proceed(p, "lockLogin", c)
  BY <1>1
<1> HIDE DEF n
<1>4. c \in Ctx /\ c.user = ctx[p].user /\ c.fresh = t
  BY <1>2, WorkerFacts DEF Ctx
<1>5. CapturedAt("lockLogin", c)
  BY <1>4, WorkerFacts DEF CapturedAt, TxSteps, ReplaceSteps
<1> HIDE DEF c
<1>6. "lockLogin" \in Labels
  BY DEF Labels, TxSteps
<1>7. pc'[p] = "lockLogin" /\ ctx'[p] = c
  BY <1>3, <1>4, <1>6, ProceedType DEF IInv
<1>8. /\ locks' \in [Worker -> SUBSET Lock] /\ LockExclusion' /\ locks'[p] = {}
      /\ \A q \in Worker \ {p} : locks'[q] = locks[q]
  BY ReleaseLocks DEF Retry, IInv
<1>9. LocalInv(p)'
  BY <1>5, <1>7, <1>8 DEF LocalInv, Captured, HoldsOld, HoldsUser,
     HoldsCredential, ReplaceSteps
<1> QED
  BY <1>3, <1>4, <1>6, <1>8, <1>9, LocalFrame

LEMMA InsertSessionStep ==
  ASSUME IInv, NEW p \in Worker, InsertSession(p)
  PROVE  IInv'
<1> DEFINE fresh == ctx[p].fresh
           new == NewSession(ctx[p].user, None, None, ctx[p].at, None)
<1>1. pc[p] = "insertLogin" /\ UNCHANGED <<now, authorityRows>> /\ ~Pending(fresh)
  BY DEF InsertSession
<1>2. CASE UNCHANGED sessions /\ Retry(p)
  BY <1>1, <1>2, RetryStep
<1>3. CASE UNCHANGED sessions /\ Finish(p)
  BY <1>1, <1>3, FinishFrame
<1>4. CASE ~Exists(fresh) /\ sessions' = [sessions EXCEPT ![fresh] = new] /\ Finish(p)
  <2>1. fresh \in Token /\ ctx[p].user \in User /\ ctx[p].at \in Nat
    BY <1>1, WorkerFacts DEF CapturedAt, TxSteps, Ctx
  <2>2. new \in SessionRow /\ new.parent = None
    BY <2>1, NewSessionType DEF NewSession
  <2> HIDE DEF new
  <2>3. /\ sessions'[fresh] = new
        /\ \A t \in Token \ {fresh} : sessions'[t] = sessions[t]
        /\ sessions' \in [Token -> SessionRow \cup {None}]
    BY <1>4, <2>1, <2>2 DEF IInv, TypeOK, StoreTypeOK
  <2>4. \A s \in Token : Exists(s) => sessions[s].parent # fresh
    BY <1>4, <2>1 DEF IInv, RenewalIsLinear
  <2>5. RenewalIsLinear'
    BY <2>1, <2>2, <2>3, <2>4, StoreAssumption DEF IInv, RenewalIsLinear, Exists
  <2>6. \A q \in Worker \ {p} : pc[q] = "commit" => ctx[q].fresh # fresh
    BY <1>1 DEF Pending
  <2>7. \A q \in Worker \ {p} :
          pc[q] \in HoldingSteps \ {"insertLogin"} => ctx[q].token # fresh
    BY <1>4, WorkerFacts DEF HoldingSteps, HoldsOld, Unrevoked
  <2> HIDE DEF fresh
  <2> QED
    BY <1>1, <1>4, <2>1, <2>3, <2>5, <2>6, <2>7, InsertFrame
<1> QED
  BY <1>1, <1>2, <1>3, <1>4 DEF InsertSession

----------------------------------------------------------------------------
(* The steps that belong to no worker *)

\* A selection, by workers Mine that run no request of this module: it edits a
\* row that nobody else has locked.
LEMMA SelectionFrame ==
  ASSUME IInv, NEW Mine \in SUBSET Worker, \A p \in Mine : pc[p] = "idle",
         NEW t \in Token, NEW o \in Org, NEW v \in Nat, Unrevoked(t),
         \A q \in Worker \ Mine : ~Holds(q, SessionLock(t), "X"),
         sessions' = [sessions EXCEPT ![t].org = o, ![t].version = v],
         UNCHANGED <<now, authorityRows, lifeVars>>,
         locks' \in [Worker -> SUBSET Lock], LockExclusion',
         \A q \in Worker \ Mine : locks'[q] = locks[q]
  PROVE  IInv'
<1> DEFINE new == [sessions[t] EXCEPT !.org = o, !.version = v]
<1>1. /\ pc' = pc /\ ctx' = ctx
      /\ UNCHANGED <<now, users, credentials, memberships, orgs>>
  BY DEF lifeVars, authorityRows
<1>2. sessions[t] \in SessionRow /\ Exists(t)
  BY DEF Unrevoked, Exists, IInv, TypeOK, StoreTypeOK
<1>3. sessions' = [sessions EXCEPT ![t] = new]
  BY <1>2 DEF IInv, TypeOK, StoreTypeOK
<1>4. /\ new \in SessionRow /\ new.parent = sessions[t].parent
      /\ new.revoked = sessions[t].revoked
  BY <1>2 DEF SessionRow
<1> HIDE DEF new
<1>5. EditedInPlace(Mine)
  BY <1>2, <1>3, <1>4, NoneAssumption
  DEF EditedInPlace, IInv, TypeOK, StoreTypeOK
<1>6. /\ RenewalIsLinear'
      /\ \A q \in Worker \ Mine : pc[q] \in HoldingSteps \ {"insertLogin"} =>
           sessions'[ctx[q].token] = sessions[ctx[q].token]
      /\ \A s \in Token : sessions'[s] = None <=> sessions[s] = None
  BY <1>5, EditFacts
<1>7. TypeOK'
  BY <1>1, <1>5 DEF IInv, TypeOK, StoreTypeOK, EditedInPlace
<1>8. PendingApart'
  <2>1. \A q \in Worker : pc[q] = "commit" => ctx[q].fresh \in Token
    BY WorkerFacts DEF CapturedAt, ReplaceSteps
  <2> QED
    BY <1>1, <1>6, <2>1 DEF IInv, PendingApart, Exists
<1>9. ASSUME NEW q \in Worker
      PROVE  (Captured(q) /\ HoldsOld(q) /\ HoldsUser(q) /\ HoldsCredential(q))'
  <2>1. Captured(q) /\ HoldsOld(q) /\ HoldsUser(q) /\ HoldsCredential(q)
    BY DEF IInv
  <2>2. CASE q \in Mine
    <3>1. pc'[q] = "idle" /\ Captured(q)'
      BY <1>1, <2>1, <2>2 DEF Captured
    <3> QED
      BY <3>1 DEF HoldsOld, HoldsUser, HoldsCredential, ReplaceSteps
  <2>3. CASE q \notin Mine
    <3>1. locks'[q] = locks[q]
      BY <2>3
    <3>2. Captured(q)' /\ HoldsUser(q)' /\ HoldsCredential(q)'
      BY <1>1, <2>1, <3>1 DEF Captured, HoldsUser, HoldsCredential, Holds
    <3>3. HoldsOld(q)'
      BY <1>1, <1>6, <2>1, <2>3, <3>1 DEF HoldsOld, Holds, Unrevoked, Exists,
         HoldingSteps, ReplaceSteps
    <3> QED
      BY <3>2, <3>3
  <2> QED
    BY <2>2, <2>3
<1> QED
  BY <1>6, <1>7, <1>8, <1>9 DEF IInv

LEMMA SelectOrganizationStep ==
  ASSUME IInv, NEW t \in Token, SelectOrganization(t)
  PROVE  IInv'
<1> DEFINE Version(o) == memberships[<<sessions[t].user, o>>].version
<1>1. PICK o \in Org :
        sessions' = [sessions EXCEPT ![t].org = o, ![t].version = Version(o)]
  BY DEF SelectOrganization
<1>2. /\ Unrevoked(t) /\ \A q \in Worker : ~Holds(q, SessionLock(t), "X")
      /\ UNCHANGED <<now, authorityRows, lifeVars, locks>>
  BY DEF SelectOrganization, Unlocked, Holds
<1>3. Version(o) \in Nat
  <2>1. sessions[t] \in SessionRow
    BY <1>2 DEF Unrevoked, Exists, IInv, TypeOK, StoreTypeOK
  <2>2. sessions[t].user \in User
    BY <2>1 DEF SessionRow
  <2> QED
    BY <2>2 DEF IInv, TypeOK, StoreTypeOK, MembershipRow
<1>4. locks' \in [Worker -> SUBSET Lock] /\ LockExclusion'
  BY <1>2 DEF IInv, TypeOK, StoreTypeOK, LockExclusion
<1> HIDE DEF Version
<1> DEFINE v == Version(o)
<1>5. /\ v \in Nat
      /\ sessions' = [sessions EXCEPT ![t].org = o, ![t].version = v]
  BY <1>1, <1>3
<1> HIDE DEF v
<1> DEFINE Mine == {}
<1>6. /\ Mine \in SUBSET Worker /\ \A p \in Mine : pc[p] = "idle"
      /\ \A q \in Worker \ Mine : ~Holds(q, SessionLock(t), "X")
      /\ \A q \in Worker \ Mine : locks'[q] = locks[q]
  BY <1>2
<1> HIDE DEF Mine
<1> QED
  BY <1>2, <1>4, <1>5, <1>6, SelectionFrame

\* Operators change only rows that no transaction has locked.
LEMMA EnvironmentStep ==
  ASSUME IInv, Environment, UNCHANGED lifeVars
  PROVE  IInv'
<1>1. pc' = pc /\ ctx' = ctx /\ sessions' = sessions /\ locks' = locks
  BY DEF lifeVars, Environment, Tick, DisableUser, ChangePassword,
     ChangeMembership, ChangeOrganization
<1>2. TypeOK'
  <2>1. CASE Tick
    BY <1>1, <2>1 DEF Tick, authorityRows, IInv, TypeOK, StoreTypeOK
  <2>2. ASSUME NEW u \in User, DisableUser(u) \/ ChangePassword(u)
        PROVE  TypeOK'
    BY <1>1, <2>2 DEF DisableUser, ChangePassword, IInv, TypeOK, StoreTypeOK, Status
  <2>3. ASSUME NEW u \in User, NEW o \in Org, ChangeMembership(u, o)
        PROVE  TypeOK'
    <3>1. PICK status \in Status, role \in Role :
            memberships' = [memberships EXCEPT ![<<u, o>>] =
              [status |-> status, role |-> role, version |-> @.version + 1]]
      BY <2>3 DEF ChangeMembership
    <3> DEFINE v == memberships[<<u, o>>].version + 1
               row == [status |-> status, role |-> role, version |-> v]
    <3>2. v \in Nat \ {0}
      BY DEF IInv, TypeOK, StoreTypeOK, MembershipRow
    <3>3. memberships' = [memberships EXCEPT ![<<u, o>>] = row]
      BY <3>1
    <3> HIDE DEF v
    <3>4. row \in MembershipRow
      BY <3>2 DEF MembershipRow
    <3> HIDE DEF row
    <3>5. memberships' \in [User \X Org -> MembershipRow]
      BY <3>3, <3>4 DEF IInv, TypeOK, StoreTypeOK
    <3> QED
      BY <1>1, <2>3, <3>5 DEF ChangeMembership, IInv, TypeOK, StoreTypeOK
  <2>4. ASSUME NEW o \in Org, ChangeOrganization(o)
        PROVE  TypeOK'
    BY <1>1, <2>4 DEF ChangeOrganization, IInv, TypeOK, StoreTypeOK, Status
  <2> QED
    BY <2>1, <2>2, <2>3, <2>4 DEF Environment
<1>3. LockExclusion' /\ PendingApart' /\ RenewalIsLinear'
  BY <1>1 DEF IInv, LockExclusion, PendingApart, RenewalIsLinear, Exists
<1>4. \A u \in User : (\E q \in Worker : \E m \in {"S", "X"} :
        Holds(q, UserLock(u), m)) => users'[u] = users[u]
  BY DEF Environment, Tick, DisableUser, ChangePassword, ChangeMembership,
     ChangeOrganization, Unlocked, Holds, UserLock, authorityRows,
     IInv, TypeOK, StoreTypeOK
<1>5. \A u \in User : (\E q \in Worker : Holds(q, CredentialLock(u), "S")) =>
        credentials'[u] = credentials[u]
  BY DEF Environment, Tick, DisableUser, ChangePassword, ChangeMembership,
     ChangeOrganization, Unlocked, Holds, CredentialLock, authorityRows,
     IInv, TypeOK, StoreTypeOK
<1>6. ASSUME NEW q \in Worker
      PROVE  (Captured(q) /\ HoldsOld(q) /\ HoldsUser(q) /\ HoldsCredential(q))'
  <2>1. Captured(q) /\ HoldsOld(q) /\ HoldsUser(q) /\ HoldsCredential(q)
    BY DEF IInv
  <2>2. pc[q] \in ReplaceSteps \cup {"insertLogin"} => ctx[q].user \in User
    BY <2>1 DEF Captured, CapturedAt, TxSteps
  <2>3. Captured(q)' /\ HoldsOld(q)'
    BY <1>1, <2>1 DEF Captured, HoldsOld, Holds, Unrevoked, Exists
  <2>4. HoldsUser(q)'
    BY <1>1, <1>4, <2>1, <2>2 DEF HoldsUser, Holds
  <2>5. HoldsCredential(q)'
    BY <1>1, <1>5, <2>1, <2>2 DEF HoldsCredential, Holds
  <2> QED
    BY <2>3, <2>4, <2>5
<1> QED
  BY <1>2, <1>3, <1>6 DEF IInv

----------------------------------------------------------------------------
(* The invariant *)

LEMMA InitInvariant == Init => IInv
<1> SUFFICES ASSUME Init PROVE IInv
  OBVIOUS
<1>1. PICK owner \in [Opened -> User] :
        sessions = [t \in Token |-> IF t \in Opened
          THEN NewSession(owner[t], None, None, 0, None) ELSE None]
  BY DEF Init, StoreInit
<1>2. ASSUME NEW t \in Token
      PROVE  /\ sessions[t] \in SessionRow \cup {None}
             /\ Exists(t) => sessions[t].parent = None
  <2>1. CASE t \in Opened
    <3>1. owner[t] \in User
      BY <2>1
    <3>2. NewSession(owner[t], None, None, 0, None) \in SessionRow
      BY <3>1, NewSessionType
    <3> QED
      BY <1>1, <2>1, <3>2 DEF NewSession
  <2>2. CASE t \notin Opened
    BY <1>1, <2>2 DEF Exists
  <2> QED
    BY <2>1, <2>2
<1>3. sessions \in [Token -> SessionRow \cup {None}]
  BY <1>1, <1>2
<1>4. memberships \in [User \X Org -> MembershipRow]
  BY DEF Init, StoreInit, MembershipRow
<1>5. TypeOK
  BY <1>3, <1>4, NoCtxType DEF Init, StoreInit, TypeOK, StoreTypeOK, Labels, Status
<1>6. \A p \in Worker : pc[p] = "idle" /\ ctx[p] = NoCtx /\ locks[p] = {}
  BY DEF Init, StoreInit
<1>7. LockExclusion /\ PendingApart
  BY <1>6 DEF LockExclusion, PendingApart
<1>8. \A p \in Worker :
        Captured(p) /\ HoldsOld(p) /\ HoldsUser(p) /\ HoldsCredential(p)
  BY <1>6 DEF Captured, CapturedAt, HoldsOld, HoldsUser, HoldsCredential,
     TxSteps, ReplaceSteps
<1>9. RenewalIsLinear
  BY <1>2, StoreAssumption DEF RenewalIsLinear
<1> QED
  BY <1>5, <1>7, <1>8, <1>9 DEF IInv

\* A worker's own step, whatever it is.
LEMMA WorkerStep ==
  ASSUME IInv, NEW p \in Worker, Start(p) \/ Step(p) \/ Rollback(p)
  PROVE  IInv'
<1>1. CASE Start(p)
  BY <1>1, RequestStep, CreateSessionStep, RevokeAllSessionsStep DEF Start
<1>2. CASE Validate(p)
  BY <1>2, FindForValidationStep, ValidateSessionStep, TouchLastSeenIfDueStep
  DEF Validate
<1>3. CASE Logout(p)
  BY <1>3, RevokeSessionStep, RevokeByTokenHashStep DEF Logout
<1>4. CASE Renew(p)
  <2>1. CASE Replace(p)
    BY <2>1, LockSessionStep, LockUserStep, LockCredentialStep,
       LockMembershipStep, LockOrganizationStep, WriteReplacementStep,
       CommitReplacementStep DEF Replace
  <2> QED
    BY <1>4, <2>1, FindPasswordIdentityStep, VerifyPasswordStep DEF Renew
<1>5. CASE Login(p)
  BY <1>5, LockLoginUserStep, InsertSessionStep DEF Login
<1>6. CASE RevokeAll(p)
  <2>1. CASE RevocationsRefused(p) \/ ReturnFromRevokeAll(p)
    BY <2>1, FinishFrame DEF RevocationsRefused, ReturnFromRevokeAll
  <2> QED
    BY <1>6, <2>1, RevokeAllForUserStep, RevokeRowStep, CommitRevocationsStep
    DEF RevokeAll
<1>7. CASE Rollback(p)
  BY <1>7, FinishFrame DEF Rollback
<1> QED
  BY <1>1, <1>2, <1>3, <1>4, <1>5, <1>6, <1>7 DEF Step

LEMMA NextInvariant == IInv /\ [Next]_vars => IInv'
<1> SUFFICES ASSUME IInv, [Next]_vars PROVE IInv'
  OBVIOUS
<1>1. CASE UNCHANGED vars
  BY <1>1 DEF vars, storeVars, lifeVars, IInv, TypeOK, StoreTypeOK, LockExclusion,
     Captured, HoldsOld, HoldsUser, HoldsCredential, Holds,
     Unrevoked, Exists, PendingApart, RenewalIsLinear
<1>2. CASE Next
  BY <1>2, WorkerStep, SelectOrganizationStep, EnvironmentStep DEF Next
<1> QED
  BY <1>1, <1>2

\* Every reachable state satisfies the inductive invariant: locks exclude each
\* other, and what a transaction read under a lock is still what is there.
THEOREM Invariance == Spec => []IInv
<1>1. Init => IInv
  BY InitInvariant
<1>2. IInv /\ [Next]_vars => IInv'
  BY NextInvariant
<1> QED
  BY <1>1, <1>2, PTL DEF Spec

----------------------------------------------------------------------------
(* What follows *)

\* Every variable keeps its type; the row and context types rule out a NULL
\* where the code dereferences a column.
THEOREM TypeCorrectness == Spec => []TypeOK
<1>1. IInv => TypeOK
  BY DEF IInv
<1> QED
  BY <1>1, Invariance, PTL

\* A session is replaced by at most one renewal and is revoked together with
\* the birth of its replacement, for any number of concurrent requests.
THEOREM RenewalLinearity == Spec => []RenewalIsLinear
<1>1. IInv => RenewalIsLinear
  BY DEF IInv
<1> QED
  BY <1>1, Invariance, PTL

\* The steps that write session rows; every other step leaves them alone.
LEMMA WorkerWriters ==
  ASSUME NEW p \in Worker, Start(p) \/ Step(p) \/ Rollback(p)
  PROVE  \/ UNCHANGED sessions \/ TouchLastSeenIfDue(p)
         \/ RevokeByTokenHash(p) \/ CommitReplacement(p)
         \/ InsertSession(p) \/ CommitRevocations(p)
<1>1. CASE Start(p)
  BY <1>1 DEF Start, Request, CreateSession, RevokeAllSessions, storeVars
<1>2. CASE Validate(p) \/ Logout(p) \/ Login(p)
  BY <1>2 DEF Validate, Logout, Login, FindForValidation, ValidateSession,
     RevokeSession, LockLoginUser, storeVars
<1>3. CASE Renew(p)
  BY <1>3 DEF Renew, Replace, FindPasswordIdentity, FindIdentity,
     FindCredential, VerifyPassword,
     LockSession, LockUser, LockCredential, LockMembership,
     LockOrganization, WriteReplacement
<1>4. CASE RevokeAll(p) \/ Rollback(p)
  BY <1>4 DEF RevokeAll, RevokeAllForUser, RevokeRow, RevocationsRefused,
     ReturnFromRevokeAll, Rollback, storeVars
<1> QED
  BY <1>1, <1>2, <1>3, <1>4 DEF Step

LEMMA SessionWriters ==
  ASSUME [Next]_vars
  PROVE  \/ UNCHANGED sessions
         \/ \E p \in Worker :
              \/ TouchLastSeenIfDue(p) \/ RevokeByTokenHash(p)
              \/ CommitReplacement(p) \/ InsertSession(p)
              \/ CommitRevocations(p)
         \/ \E t \in Token : SelectOrganization(t)
<1>1. CASE UNCHANGED vars
  BY <1>1 DEF vars, storeVars
<1>2. CASE Environment
  BY <1>2 DEF Environment, Tick, DisableUser, ChangePassword, ChangeMembership,
     ChangeOrganization
<1> QED
  BY <1>1, <1>2, WorkerWriters DEF Next

\* A row that a step writes over was unrevoked, or was not there.
LEMMA RevokedRowsStay ==
  ASSUME IInv, [Next]_vars, NEW t \in Token, Exists(t),
         sessions[t].revoked # None
  PROVE  sessions'[t] = sessions[t]
<1>1. CASE UNCHANGED sessions
  BY <1>1
<1>2. ASSUME NEW p \in Worker, TouchLastSeenIfDue(p)
      PROVE  sessions'[t] = sessions[t]
  BY <1>2 DEF TouchLastSeenIfDue, Touchable, Unrevoked, IInv, TypeOK, StoreTypeOK
<1>3. ASSUME NEW p \in Worker, RevokeByTokenHash(p)
      PROVE  sessions'[t] = sessions[t]
  BY <1>3 DEF RevokeByTokenHash, Unrevoked, IInv, TypeOK, StoreTypeOK
<1>4. ASSUME NEW p \in Worker, CommitReplacement(p)
      PROVE  sessions'[t] = sessions[t]
  <2>1. pc[p] = "commit" /\ ~Exists(ctx[p].fresh) /\ Unrevoked(ctx[p].token)
    BY <1>4, WorkerFacts DEF CommitReplacement, IInv, PendingApart, HoldsOld,
       ReplaceSteps
  <2>2. t # ctx[p].fresh /\ t # ctx[p].token
    BY <2>1 DEF Unrevoked
  <2> QED
    BY <1>4, <2>2 DEF CommitReplacement, IInv, TypeOK, StoreTypeOK
<1>5. ASSUME NEW p \in Worker, InsertSession(p)
      PROVE  sessions'[t] = sessions[t]
  BY <1>5 DEF InsertSession, IInv, TypeOK, StoreTypeOK
<1>6. ASSUME NEW p \in Worker, CommitRevocations(p)
      PROVE  sessions'[t] = sessions[t]
  BY <1>6 DEF CommitRevocations, Unrevoked
<1>7. ASSUME NEW s \in Token, SelectOrganization(s)
      PROVE  sessions'[t] = sessions[t]
  BY <1>7 DEF SelectOrganization, Unrevoked, IInv, TypeOK, StoreTypeOK
<1> QED
  BY <1>1, <1>2, <1>3, <1>4, <1>5, <1>6, <1>7, SessionWriters

\* A revoked session never changes again, whatever touches, renewals, logouts,
\* bulk revocations and selections are in flight when it is revoked.
THEOREM RevocationFinality == Spec => RevocationIsFinal
<1>1. IInv /\ [Next]_vars =>
        [\A t \in Token : Exists(t) /\ sessions[t].revoked # None =>
           sessions'[t] = sessions[t]]_vars
  BY RevokedRowsStay
<1> QED
  BY <1>1, Invariance, PTL DEF Spec, RevocationIsFinal

\* A session comes into being by a login's or a renewal's step, as its row.
LEMMA NewRow ==
  ASSUME IInv, [Next]_vars, NEW t \in Token, ~Exists(t), sessions'[t] # None
  PROVE  \E p \in Worker :
           \/ /\ CommitReplacement(p) /\ t = ctx[p].fresh
              /\ sessions'[t] = NewSession(ctx[p].user, ctx[p].org,
                                           ctx[p].version, ctx[p].at, ctx[p].token)
           \/ /\ InsertSession(p) /\ t = ctx[p].fresh
              /\ sessions'[t] = NewSession(ctx[p].user, None, None, ctx[p].at, None)
<1>1. ASSUME NEW p \in Worker,
             TouchLastSeenIfDue(p) \/ RevokeByTokenHash(p) \/ CommitRevocations(p)
      PROVE  FALSE
  <2>1. TouchLastSeenIfDue(p) => sessions'[t] = sessions[t]
    BY DEF TouchLastSeenIfDue, Touchable, Unrevoked, Exists, IInv, TypeOK,
       StoreTypeOK
  <2>2. RevokeByTokenHash(p) => sessions'[t] = sessions[t]
    BY DEF RevokeByTokenHash, Unrevoked, Exists, IInv, TypeOK, StoreTypeOK
  <2>3. CommitRevocations(p) => sessions'[t] = sessions[t]
    BY DEF CommitRevocations, Unrevoked, Exists
  <2> QED
    BY <1>1, <2>1, <2>2, <2>3 DEF Exists
<1>2. ASSUME NEW s \in Token, SelectOrganization(s)
      PROVE  FALSE
  BY <1>2 DEF SelectOrganization, Unrevoked, Exists, IInv, TypeOK, StoreTypeOK
<1>3. ASSUME NEW p \in Worker, CommitReplacement(p)
      PROVE  t = ctx[p].fresh /\ sessions'[t] =
               NewSession(ctx[p].user, ctx[p].org, ctx[p].version,
                          ctx[p].at, ctx[p].token)
  <2>1. pc[p] = "commit" /\ Exists(ctx[p].token)
    BY <1>3, WorkerFacts DEF CommitReplacement, HoldsOld, ReplaceSteps, Unrevoked
  <2>2. t # ctx[p].token
    BY <2>1
  <2>3. t = ctx[p].fresh
    BY <1>3, <2>2 DEF CommitReplacement, Exists, IInv, TypeOK, StoreTypeOK
  <2> QED
    BY <1>3, <2>2, <2>3 DEF CommitReplacement, IInv, TypeOK, StoreTypeOK
<1>4. ASSUME NEW p \in Worker, InsertSession(p)
      PROVE  t = ctx[p].fresh /\ sessions'[t] =
               NewSession(ctx[p].user, None, None, ctx[p].at, None)
  BY <1>4 DEF InsertSession, Exists, IInv, TypeOK, StoreTypeOK
<1> QED
  BY <1>1, <1>2, <1>3, <1>4, SessionWriters DEF Exists

\* Whoever brings it into being holds the user's lock, and the credential's.
LEMMA NewRowAuthority ==
  ASSUME IInv, [Next]_vars, NEW t \in Token, ~Exists(t), sessions'[t] # None
  PROVE  /\ users[sessions'[t].user] = "Active"
         /\ sessions'[t].parent # None => \E p \in Worker :
              /\ pc[p] = "commit" /\ ctx[p].fresh = t
              /\ ctx[p].hash = credentials[sessions'[t].user]
<1>1. ASSUME NEW p \in Worker, CommitReplacement(p), t = ctx[p].fresh,
             sessions'[t].user = ctx[p].user
      PROVE  /\ users[sessions'[t].user] = "Active"
             /\ pc[p] = "commit" /\ ctx[p].fresh = t
             /\ ctx[p].hash = credentials[sessions'[t].user]
  BY <1>1, WorkerFacts DEF CommitReplacement, HoldsUser, HoldsCredential,
     ReplaceSteps
<1>2. ASSUME NEW p \in Worker, InsertSession(p), sessions'[t].user = ctx[p].user
      PROVE  users[sessions'[t].user] = "Active"
  BY <1>2, WorkerFacts DEF InsertSession, HoldsUser
<1>3. \A u, org, version, at, parent :
        /\ NewSession(u, org, version, at, parent).user = u
        /\ NewSession(u, org, version, at, parent).parent = parent
  BY DEF NewSession
<1> QED
  BY <1>1, <1>2, <1>3, NewRow

\* A session is born only for an Active user and, by renewal, only while the
\* password hash that was verified before the transaction is still current.
THEOREM BornUnderCurrentCredential == Spec => CreatedUnderCurrentCredential
<1>1. IInv /\ [Next]_vars =>
        [\A t \in Token : ~Exists(t) /\ sessions'[t] # None =>
           LET row == sessions'[t] IN
           /\ users[row.user] = "Active"
           /\ row.parent # None => \E p \in Worker :
                /\ pc[p] = "commit" /\ ctx[p].fresh = t
                /\ ctx[p].hash = credentials[row.user]]_vars
  BY NewRowAuthority
<1> QED
  BY <1>1, Invariance, PTL DEF Spec, CreatedUnderCurrentCredential

\* The one step that writes last_seen_at of a row that is there.
LEMMA SeenMoves ==
  ASSUME IInv, [Next]_vars, NEW t \in Token, Exists(t),
         sessions'[t].seen # sessions[t].seen
  PROVE  \E p \in Worker :
           Touchable(t, ctx[p].at) /\ sessions'[t].seen = ctx[p].at
<1>1. sessions[t] \in SessionRow /\ sessions \in [Token -> SessionRow \cup {None}]
  BY DEF IInv, TypeOK, StoreTypeOK, Exists
<1>2. \A p \in Worker : ~RevokeByTokenHash(p)
  BY <1>1 DEF RevokeByTokenHash, SessionRow
<1>3. \A p \in Worker : ~CommitRevocations(p)
  BY <1>1 DEF CommitRevocations, SessionRow
<1>4. ASSUME NEW s \in Token, SelectOrganization(s) PROVE FALSE
  <2>1. PICK o \in Org : sessions' = [sessions EXCEPT
          ![s].org = o, ![s].version = memberships[<<sessions[s].user, o>>].version]
    BY <1>4 DEF SelectOrganization
  <2> DEFINE v == memberships[<<sessions[s].user, o>>].version
             new == [sessions[s] EXCEPT !.org = o, !.version = v]
  <2>2. sessions[s] \in SessionRow
    BY <1>1, <1>4 DEF SelectOrganization, Unrevoked, Exists
  <2>3. sessions' = [sessions EXCEPT ![s] = new]
    BY <1>1, <2>1, <2>2
  <2> HIDE DEF v
  <2>4. new.seen = sessions[s].seen
    BY <2>2 DEF SessionRow
  <2> HIDE DEF new
  <2> QED
    BY <1>1, <2>3, <2>4
<1>5. ASSUME NEW p \in Worker, CommitReplacement(p) PROVE FALSE
  <2>1. t # ctx[p].fresh
    BY <1>5 DEF CommitReplacement, IInv, PendingApart
  <2> QED
    BY <1>1, <1>5, <2>1 DEF CommitReplacement, SessionRow
<1>6. \A p \in Worker : ~InsertSession(p)
  BY <1>1 DEF InsertSession
<1>7. ASSUME NEW p \in Worker, TouchLastSeenIfDue(p)
      PROVE  Touchable(t, ctx[p].at) /\ sessions'[t].seen = ctx[p].at
  BY <1>1, <1>7 DEF TouchLastSeenIfDue, SessionRow
<1> QED
  BY <1>2, <1>3, <1>4, <1>5, <1>6, <1>7, SessionWriters

\* The touch's WHERE clause earns the new instant: the row was unrevoked, due,
\* and live at it.
LEMMA TouchableRows ==
  ASSUME NEW t \in Token, sessions[t] \in SessionRow, NEW at \in Nat,
         Touchable(t, at)
  PROVE  /\ sessions[t].revoked = None
         /\ sessions[t].seen + TouchInterval <= at
         /\ ~RowExpired(sessions[t], at)
<1>1. sessions[t].expires \in Nat /\ sessions[t].seen \in Nat
  BY DEF SessionRow
<1> QED
  BY <1>1, PolicyAssumption DEF Touchable, Unrevoked, RowExpired, IsExpired,
     EffectiveDeadline

\* However late a touch arrives, last_seen_at moves by at least an interval, on
\* an unrevoked session, to an instant at which it was live.
THEOREM TouchesEarned == Spec => TouchIsEarned
<1>1. ASSUME IInv, [Next]_vars, NEW t \in Token, Exists(t),
             sessions'[t].seen # sessions[t].seen
      PROVE  /\ sessions[t].revoked = None
             /\ sessions[t].seen + TouchInterval <= sessions'[t].seen
             /\ ~RowExpired(sessions[t], sessions'[t].seen)
  <2>1. PICK p \in Worker :
          Touchable(t, ctx[p].at) /\ sessions'[t].seen = ctx[p].at
    BY <1>1, SeenMoves
  <2>2. ctx[p].at \in Nat /\ sessions[t] \in SessionRow
    BY <1>1, WorkerFacts DEF Ctx, Exists
  <2> QED
    BY <2>1, <2>2, TouchableRows
<1>2. IInv /\ [Next]_vars =>
        [\A t \in Token : Exists(t) /\ sessions'[t].seen # sessions[t].seen =>
           LET row == sessions[t]
               at == sessions'[t].seen IN
           /\ row.revoked = None
           /\ row.seen + TouchInterval <= at
           /\ ~RowExpired(row, at)]_vars
  BY <1>1
<1> QED
  BY <1>2, Invariance, PTL DEF Spec, TouchIsEarned

----------------------------------------------------------------------------
(* The order of the locks *)

\* A worker's step moves no other worker and touches no other's locks.
LEMMA OneMoves ==
  ASSUME TypeOK, NEW p \in Worker, Start(p) \/ Step(p) \/ Rollback(p),
         NEW q \in Worker \ {p}
  PROVE  pc'[q] = pc[q] /\ ctx'[q] = ctx[q] /\ locks'[q] = locks[q]
<1> DEFINE Stays == pc'[q] = pc[q] /\ ctx'[q] = ctx[q]
<1>1. \A label, c : Proceed(p, label, c) => Stays
  BY DEF Proceed, TypeOK
<1>2. Release(p) => locks'[q] = locks[q]
  BY DEF Release, TypeOK, StoreTypeOK
<1>3. \A res, mode : Acquire(p, res, mode) => locks'[q] = locks[q]
  BY DEF Acquire, Take, TypeOK, StoreTypeOK
<1>4. Finish(p) => Stays /\ locks'[q] = locks[q]
  BY <1>1, <1>2 DEF Finish
<1>5. Start(p) => Stays /\ locks'[q] = locks[q]
  BY <1>1 DEF Start, Request, CreateSession, RevokeAllSessions, storeVars
<1>6. Validate(p) \/ Logout(p) => Stays /\ locks'[q] = locks[q]
  BY <1>1, <1>4 DEF Validate, FindForValidation, ValidateSession,
     TouchLastSeenIfDue, Logout, RevokeSession, RevokeByTokenHash, storeVars
<1>7. Renew(p) => Stays /\ locks'[q] = locks[q]
  <2>1. FindPasswordIdentity(p) \/ VerifyPassword(p)
        => Stays /\ locks'[q] = locks[q]
    BY <1>1, <1>4 DEF FindPasswordIdentity, FindIdentity, FindCredential,
       VerifyPassword
  <2>2. LockSession(p) \/ LockUser(p) \/ LockCredential(p)
        => Stays /\ locks'[q] = locks[q]
    BY <1>1, <1>3, <1>4 DEF LockSession, LockUser, LockCredential, Goto
  <2>3. LockMembership(p) \/ LockOrganization(p)
        => Stays /\ locks'[q] = locks[q]
    BY <1>1, <1>3 DEF LockMembership, LockOrganization, Goto
  <2>4. WriteReplacement(p) \/ CommitReplacement(p)
        => Stays /\ locks'[q] = locks[q]
    BY <1>1, <1>4 DEF WriteReplacement, CommitReplacement
  <2> QED
    BY <2>1, <2>2, <2>3, <2>4 DEF Renew, Replace
<1>8. Login(p) => Stays /\ locks'[q] = locks[q]
  BY <1>1, <1>2, <1>3, <1>4 DEF Login, LockLoginUser, InsertSession, Retry, Goto
<1>9. RevokeAll(p) => Stays /\ locks'[q] = locks[q]
  BY <1>1, <1>2, <1>3, <1>4 DEF RevokeAll, RevokeAllForUser, RevokeRow,
     RevocationsRefused, CommitRevocations, ReturnFromRevokeAll, Goto,
     storeVars, lifeVars
<1>10. Rollback(p) => Stays /\ locks'[q] = locks[q]
  BY <1>4 DEF Rollback
<1> QED
  BY <1>5, <1>6, <1>7, <1>8, <1>9, <1>10 DEF Step

LEMMA Ranks ==
  /\ \A l \in Lock : LockRank(l.res[1]) \in 1 .. 5
  /\ \A label : WantedRank(label) \in 1 .. 6
<1>1. ASSUME NEW l \in Lock PROVE LockRank(l.res[1]) \in 1 .. 5
  <2>1. l.res[1] \in {"session", "user", "credential", "membership", "organization"}
    BY DEF Lock, Resource
  <2> QED
    BY <2>1 DEF LockRank
<1>2. \A label : WantedRank(label) \in 1 .. 6
  BY DEF WantedRank
<1> QED
  BY <1>1, <1>2

\* The locks a worker holds are all of tables before the one it waits for.
Ordered(label, held) ==
  label # "revokeRows" => \A l \in held : LockRank(l.res[1]) < WantedRank(label)

\* Taking the lock it waits for leads a worker to a step of a later rank.
LEMMA OrderClimbs ==
  ASSUME NEW held \in SUBSET Lock, NEW label, NEW next, NEW res, NEW mode,
         label # "revokeRows", Ordered(label, held),
         LockRank(res[1]) = WantedRank(label),
         WantedRank(label) < WantedRank(next)
  PROVE  Ordered(next, held \cup {[res |-> res, mode |-> mode]})
<1>1. WantedRank(label) \in Int /\ WantedRank(next) \in Int
  BY Ranks
<1>2. ASSUME NEW l \in held PROVE LockRank(l.res[1]) < WantedRank(next)
  <2>1. LockRank(l.res[1]) \in Int /\ LockRank(l.res[1]) < WantedRank(label)
    BY Ranks DEF Ordered
  <2> QED
    BY <1>1, <2>1
<1> QED
  BY <1>2 DEF Ordered

OutsideFree(p) == pc[p] \notin TxSteps => locks[p] = {}

\* A worker that leaves a transaction leaves its locks.
LEMMA NothingOutside ==
  ASSUME IInv, NEW p \in Worker, OutsideFree(p),
         Start(p) \/ Step(p) \/ Rollback(p)
  PROVE  OutsideFree(p)'
<1>1. \A label, c : Proceed(p, label, c) => pc'[p] = label
  BY DEF Proceed, IInv, TypeOK
<1>2. Finish(p) \/ Release(p) => OutsideFree(p)'
  BY DEF Finish, Release, IInv, TypeOK, StoreTypeOK, OutsideFree
<1>3. CASE Start(p) \/ Validate(p) \/ Logout(p)
  <2>1. \/ Finish(p)
        \/ /\ locks' = locks
           /\ pc[p] \in {"idle", "find", "validate", "touch", "logout"}
    BY <1>3 DEF Start, Request, CreateSession, RevokeAllSessions, Validate,
       FindForValidation, ValidateSession, TouchLastSeenIfDue, Logout,
       RevokeSession, RevokeByTokenHash, storeVars
  <2> QED
    BY <1>2, <2>1 DEF OutsideFree, TxSteps, ReplaceSteps
<1>4. CASE FindPasswordIdentity(p) \/ VerifyPassword(p)
  <2>1. Finish(p) \/ (locks' = locks /\ pc[p] \in {"identity", "credential", "verify"})
    BY <1>4 DEF FindPasswordIdentity, FindIdentity, FindCredential,
       VerifyPassword
  <2> QED
    BY <1>2, <2>1 DEF OutsideFree, TxSteps, ReplaceSteps
<1>5. CASE Replace(p) \/ Login(p) \/ Rollback(p)
  <2>1. \/ Finish(p) \/ Release(p)
        \/ pc'[p] \in ReplaceSteps \cup {"insertLogin"}
    BY <1>1, <1>5 DEF Replace, LockSession, LockUser, LockCredential,
       LockMembership, LockOrganization, WriteReplacement, CommitReplacement,
       Login, LockLoginUser, InsertSession, Retry, Rollback, Goto, ReplaceSteps
  <2> QED
    BY <1>2, <2>1 DEF OutsideFree, TxSteps
<1>6. CASE RevokeAll(p)
  <2>1. pc'[p] = "revokeRows" \/ Finish(p) \/ Release(p)
    BY <1>1, <1>6 DEF RevokeAll, RevokeAllForUser, RevokeRow,
       RevocationsRefused, CommitRevocations, ReturnFromRevokeAll, lifeVars
  <2> QED
    BY <1>2, <2>1 DEF OutsideFree, TxSteps
<1> QED
  BY <1>3, <1>4, <1>5, <1>6 DEF Step, Renew

\* A worker's step leaves its locks in order.
LEMMA OrderKept ==
  ASSUME IInv, LockOrder, NEW p \in Worker, OutsideFree(p),
         Start(p) \/ Step(p) \/ Rollback(p)
  PROVE  Ordered(pc'[p], locks'[p])
<1>1. CASE pc'[p] \notin TxSteps \/ locks'[p] = {} \/ pc'[p] = "revokeRows"
  BY <1>1, NothingOutside DEF OutsideFree, Ordered
<1>2. ASSUME pc'[p] \in TxSteps, locks'[p] # {}, pc'[p] # "revokeRows"
      PROVE  Ordered(pc'[p], locks'[p])
  <2>1. \A label, c : Proceed(p, label, c) => pc'[p] = label
    BY DEF Proceed, IInv, TypeOK
  <2>2. ~Release(p) /\ ~Finish(p)
    BY <1>2 DEF Release, Finish, IInv, TypeOK, StoreTypeOK
  <2>3. \A res, mode : Acquire(p, res, mode) =>
          locks'[p] = locks[p] \cup {[res |-> res, mode |-> mode]}
    BY DEF Acquire, Take, IInv, TypeOK, StoreTypeOK
  <2>4. pc[p] # "revokeRows" => Ordered(pc[p], locks[p])
    BY DEF LockOrder, Ordered
  <2>5. locks[p] \in SUBSET Lock
    BY DEF IInv, TypeOK, StoreTypeOK
  <2>6. ASSUME UNCHANGED locks
        PROVE  pc[p] \in TxSteps
    BY <1>2, <2>6 DEF OutsideFree
  <2>7. ASSUME NEW res, NEW mode, Acquire(p, res, mode), pc[p] # "revokeRows",
                LockRank(res[1]) = WantedRank(pc[p]),
                WantedRank(pc[p]) < WantedRank(pc'[p])
         PROVE  Ordered(pc'[p], locks'[p])
    <3>1. Ordered(pc'[p], locks[p] \cup {[res |-> res, mode |-> mode]})
      BY <2>4, <2>5, <2>7, OrderClimbs
    <3> QED
      BY <2>3, <2>7, <3>1
  <2>8. CASE LockSession(p)
    <3> DEFINE res == SessionLock(ctx[p].token)
    <3>1. pc[p] = "lockSession" /\ pc'[p] = "lockUser" /\ Acquire(p, res, "X")
      BY <2>1, <2>2, <2>8 DEF LockSession
    <3>2. LockRank(res[1]) = 1
      BY DEF SessionLock, LockRank
    <3>3. WantedRank("lockSession") = 1 /\ WantedRank("lockUser") = 2
      BY DEF WantedRank
    <3> HIDE DEF res
    <3> QED
      BY <2>7, <3>1, <3>2, <3>3
  <2>9. CASE LockUser(p)
    <3> DEFINE res == UserLock(ctx[p].user)
    <3>1. pc[p] = "lockUser" /\ pc'[p] = "lockCredential" /\ Acquire(p, res, "S")
      BY <2>1, <2>2, <2>9 DEF LockUser, Goto
    <3>2. LockRank(res[1]) = 2
      BY DEF UserLock, LockRank
    <3>3. WantedRank("lockUser") = 2 /\ WantedRank("lockCredential") = 3
      BY DEF WantedRank
    <3> HIDE DEF res
    <3> QED
      BY <2>7, <3>1, <3>2, <3>3
  <2>10. CASE LockCredential(p)
    <3> DEFINE res == CredentialLock(ctx[p].user)
    <3>1. /\ pc[p] = "lockCredential" /\ pc'[p] \in {"write", "lockMembership"}
          /\ Acquire(p, res, "S")
      BY <2>1, <2>2, <2>10 DEF LockCredential, Goto
    <3>2. LockRank(res[1]) = 3
      BY DEF CredentialLock, LockRank
    <3>3. /\ WantedRank("lockCredential") = 3 /\ WantedRank("write") = 6
          /\ WantedRank("lockMembership") = 4
      BY DEF WantedRank
    <3> HIDE DEF res
    <3> QED
      BY <2>7, <3>1, <3>2, <3>3
  <2>11. CASE LockMembership(p)
    <3> DEFINE res == MembershipLock(ctx[p].user, ctx[p].row.org)
    <3>1. /\ pc[p] = "lockMembership" /\ pc'[p] \in {"write", "lockOrganization"}
          /\ Acquire(p, res, "S")
      BY <2>1, <2>2, <2>11 DEF LockMembership, Goto
    <3>2. LockRank(res[1]) = 4
      BY DEF MembershipLock, LockRank
    <3>3. /\ WantedRank("lockMembership") = 4 /\ WantedRank("write") = 6
          /\ WantedRank("lockOrganization") = 5
      BY DEF WantedRank
    <3> HIDE DEF res
    <3> QED
      BY <2>7, <3>1, <3>2, <3>3
  <2>12. CASE LockOrganization(p)
    <3> DEFINE res == OrganizationLock(ctx[p].row.org)
    <3>1. /\ pc[p] = "lockOrganization" /\ pc'[p] = "write"
          /\ Acquire(p, res, "S")
      BY <2>1, <2>2, <2>12 DEF LockOrganization
    <3>2. LockRank(res[1]) = 5
      BY DEF OrganizationLock, LockRank
    <3>3. WantedRank("lockOrganization") = 5 /\ WantedRank("write") = 6
      BY DEF WantedRank
    <3> HIDE DEF res
    <3> QED
      BY <2>7, <3>1, <3>2, <3>3
  <2>13. CASE LockLoginUser(p)
    <3> DEFINE res == UserLock(ctx[p].user)
    <3>1. pc[p] = "lockLogin" /\ pc'[p] = "insertLogin" /\ Acquire(p, res, "X")
      BY <2>1, <2>2, <2>13 DEF LockLoginUser, Goto
    <3>2. LockRank(res[1]) = 2
      BY DEF UserLock, LockRank
    <3>3. WantedRank("lockLogin") = 2 /\ WantedRank("insertLogin") = 6
      BY DEF WantedRank
    <3> HIDE DEF res
    <3> QED
      BY <2>7, <3>1, <3>2, <3>3
  <2>14. CASE WriteReplacement(p)
    <3>1. pc[p] = "write" /\ pc'[p] = "commit" /\ UNCHANGED locks
      BY <2>1, <2>2, <2>14 DEF WriteReplacement
    <3>2. WantedRank("write") = WantedRank("commit")
      BY DEF WantedRank
    <3> QED
      BY <2>4, <3>1, <3>2 DEF Ordered
  <2>15. CASE Start(p) \/ Validate(p) \/ Logout(p)
    <3>1. UNCHANGED locks /\ pc[p] \in {"idle", "find", "validate", "touch", "logout"}
      BY <2>2, <2>15 DEF Start, Request, CreateSession, RevokeAllSessions,
         Validate, FindForValidation, ValidateSession, TouchLastSeenIfDue,
         Logout, RevokeSession, RevokeByTokenHash, storeVars
    <3> QED
      BY <2>6, <3>1 DEF TxSteps, ReplaceSteps
  <2>16. CASE FindPasswordIdentity(p) \/ VerifyPassword(p)
    <3>1. UNCHANGED locks /\ pc[p] \in {"identity", "credential", "verify"}
      BY <2>2, <2>16 DEF FindPasswordIdentity, FindIdentity, FindCredential,
         VerifyPassword
    <3> QED
      BY <2>6, <3>1 DEF TxSteps, ReplaceSteps
  <2>17. CASE InsertSession(p) \/ CommitReplacement(p) \/ Rollback(p)
    BY <2>2, <2>17 DEF InsertSession, Retry, CommitReplacement, Rollback
  <2>18. CASE RevokeAll(p)
    <3>1. /\ pc'[p] = "revokeRows" \/ Release(p) \/ Finish(p)
      BY <2>1, <2>18 DEF RevokeAll, RevokeAllForUser, RevokeRow,
         RevocationsRefused, CommitRevocations, ReturnFromRevokeAll, lifeVars
    <3> QED
      BY <1>2, <2>2, <3>1
  <2> QED
    BY <2>8, <2>9, <2>10, <2>11, <2>12, <2>13, <2>14, <2>15, <2>16, <2>17, <2>18
    DEF Step, Renew, Replace, Login
<1> QED
  BY <1>1, <1>2

\* Every transaction takes its locks in the order Session, User, credential,
\* Membership, Organization: no cycle of waits between them is possible.
THEOREM LocksOrdered == Spec => []LockOrder
<1>1. Init => LockOrder /\ NoLocksOutside
  BY DEF Init, StoreInit, LockOrder, NoLocksOutside
<1>2. ASSUME IInv, LockOrder, NoLocksOutside, [Next]_vars
      PROVE  LockOrder' /\ NoLocksOutside'
  <2>1. CASE UNCHANGED <<pc, locks>>
    BY <1>2, <2>1 DEF LockOrder, NoLocksOutside
  <2>2. ASSUME NEW p \in Worker, Start(p) \/ Step(p) \/ Rollback(p)
        PROVE  LockOrder' /\ NoLocksOutside'
    <3>1. OutsideFree(p)
      BY <1>2 DEF NoLocksOutside, OutsideFree
    <3>2. Ordered(pc'[p], locks'[p]) /\ OutsideFree(p)'
      BY <1>2, <2>2, <3>1, OrderKept, NothingOutside
    <3>3. \A q \in Worker \ {p} : pc'[q] = pc[q] /\ locks'[q] = locks[q]
      BY <1>2, <2>2, OneMoves DEF IInv
    <3> QED
      BY <1>2, <3>2, <3>3
      DEF LockOrder, Ordered, NoLocksOutside, OutsideFree
  <2>3. CASE Environment /\ UNCHANGED lifeVars
    BY <2>1, <2>3 DEF Environment, Tick, DisableUser, ChangePassword,
       ChangeMembership, ChangeOrganization, lifeVars
  <2>4. CASE \E t \in Token : SelectOrganization(t)
    BY <2>1, <2>4 DEF SelectOrganization, lifeVars
  <2> QED
    BY <1>2, <2>1, <2>2, <2>3, <2>4 DEF Next, vars, storeVars, lifeVars
<1> QED
  BY <1>1, <1>2, Invariance, PTL DEF Spec

==============================================================================
