---------------------------- MODULE LoginRateLimit ----------------------------
(***************************************************************************)
(* The persistent limit on password attempts: PersistentLoginRateLimiter   *)
(* and PrismaLoginRateLimitStore, used by any number of concurrent logins  *)
(* and renewals.  An attempt is one transaction with one upsert for each   *)
(* of three dimensions; the upsert reads the earlier blocks of its key in  *)
(* the snapshot its statement starts with, and then waits for the row of   *)
(* the current window.                                                     *)
(***************************************************************************)
EXTENDS Integers

CONSTANTS
  Worker,       \* attempts that can be in flight
  Subject,      \* emails of logins and user ids of renewals; their HMAC
                \* purposes differ, so no email is ever a user id
  Network,      \* client addresses
  Rule,         \* the RateLimitRuleConfig of each dimension
  None,         \* no subject or network in a key
  MaxTime,      \* bound on the clock
  MaxRequests   \* bound on the attempts of a behaviour

Dimension == {"Network", "Identity", "IdentityNetwork"}

ASSUME RuleAssumption ==
  /\ Rule \in [Dimension -> [max: Nat \ {0}, window: Nat \ {0}, block: Nat \ {0}]]
  /\ None \notin Subject \cup Network
  /\ MaxTime \in Nat /\ MaxRequests \in Nat

VARIABLES
  now,     \* the clock of the API processes
  rows,    \* committed rows by key and start of the window
  pc,      \* pc[p]: the next step of attempt p
  req,     \* req[p]: what attempt p has captured, read and written
  sent,    \* attempts so far
  tally    \* history: attempts committed and admitted, by key and window

vars == <<now, rows, pc, req, sent, tally>>

Key ==
  [dim: {"Network"}, subject: {None}, ip: Network]
    \cup [dim: {"Identity"}, subject: Subject, ip: {None}]
    \cup [dim: {"IdentityNetwork"}, subject: Subject, ip: Network]

KeyOf(d, subject, ip) ==
  [dim |-> d, subject |-> IF d = "Network" THEN None ELSE subject,
   ip |-> IF d = "Identity" THEN None ELSE ip]

\* blocked 0 is NULL: a block always ends after instant 0.
NoRow == [count |-> 0, created |-> 0, blocked |-> 0, expires |-> 0]

Slot == Key \X (0 .. MaxTime)

\* pend: the rows written and not committed; due: history, whether one of the
\* keys was blocked already when the attempt began.
NoReq ==
  [subject |-> None, ip |-> None, at |-> 0, todo |-> Dimension,
   turn |-> "Network", prior |-> 0, latest |-> 0,
   pend |-> [d \in Dimension |-> NoRow], due |-> FALSE]

Larger(a, b) == IF a > b THEN a ELSE b

WindowStart(d, at) == (at \div Rule[d].window) * Rule[d].window

SlotOf(p, d) ==
  <<KeyOf(d, req[p].subject, req[p].ip), WindowStart(d, req[p].at)>>

Init ==
  /\ now = 0 /\ sent = 0
  /\ rows = [k \in Slot |-> NoRow]
  /\ pc = [p \in Worker |-> "idle"]
  /\ req = [p \in Worker |-> NoReq]
  /\ tally = [k \in Slot |-> [counted |-> 0, admitted |-> 0]]

Move(p, label, r) ==
  /\ pc' = [pc EXCEPT ![p] = label]
  /\ req' = [req EXCEPT ![p] = r]

End(p) == Move(p, "idle", NoReq)

ActiveBlocks(key, at) ==
  {rows[<<key, w>>].blocked :
     w \in {v \in 0 .. MaxTime : rows[<<key, v>>].blocked > at}}

Begin(p, subject, ip) ==
  /\ pc[p] = "idle" /\ sent < MaxRequests
  /\ sent' = sent + 1
  /\ Move(p, "next", [NoReq EXCEPT !.subject = subject, !.ip = ip, !.at = now,
       !.due = \E d \in Dimension : ActiveBlocks(KeyOf(d, subject, ip), now) # {}])
  /\ UNCHANGED <<now, rows, tally>>

\* Variant: the three upserts are sent together.
AnyTurn(todo) == todo

\* The order of the list of attempts.
Turn(todo) ==
  CASE "Network" \in todo -> {"Network"}
    [] "Network" \notin todo /\ "Identity" \in todo -> {"Identity"}
    [] OTHER -> todo

\* Variant: the block of an earlier window is not looked for.
NoPriorBlock(key, at) == 0

\* max(blocked_until) over the rows of the key that still block.
PriorBlock(key, at) ==
  LET active == ActiveBlocks(key, at) IN
  IF active = {} THEN 0 ELSE CHOOSE b \in active : \A c \in active : c <= b

\* prior_block: the snapshot of the statement.
StartUpsert(p) ==
  /\ pc[p] = "next" /\ req[p].todo # {}
  /\ \E d \in Turn(req[p].todo) :
       Move(p, "consume", [req[p] EXCEPT !.turn = d,
         !.prior = PriorBlock(KeyOf(d, req[p].subject, req[p].ip), req[p].at)])
  /\ UNCHANGED <<now, rows, sent, tally>>

\* Variant: the row is read and written without waiting for its writer.
NeverBusy(p, slot) == FALSE

\* The row of the slot has an uncommitted writer.
Busy(p, slot) ==
  \E q \in Worker \ {p} : \E d \in Dimension :
    req[q].pend[d] # NoRow /\ SlotOf(q, d) = slot

\* Variant: the count before this attempt is compared.
ExceedsBefore(count, d) == count > Rule[d].max + 1

Exceeds(count, d) == count > Rule[d].max

\* Variant: every excess attempt starts the block anew.
BlockRestarted(row, d, at) ==
  IF Exceeds(row.count + 1, d) THEN at + Rule[d].block ELSE row.blocked

\* The first excess attempt of a window blocks, the later ones keep its block.
BlockedUntil(row, d, at) ==
  IF Exceeds(row.count + 1, d) /\ row.blocked = 0
  THEN at + Rule[d].block ELSE row.blocked

ExpiresAt(d, at) == WindowStart(d, at) + Rule[d].window + Rule[d].block

\* INSERT ... ON CONFLICT DO UPDATE: the row an upsert leaves of the committed
\* row it waited for.
Upserted(row, d, at) ==
  [count |-> row.count + 1,
   created |-> IF row.count = 0 THEN at ELSE row.created,
   blocked |-> BlockedUntil(row, d, at),
   expires |-> Larger(row.expires, ExpiresAt(d, at))]

\* A row created by a later clock fails
\* ck_identity_rate_limit_windows__lifecycle, updated_at >= created_at, and with
\* it the attempt.
Consume(p) ==
  LET d == req[p].turn
      row == rows[SlotOf(p, d)]
      new == Upserted(row, d, req[p].at) IN
  /\ pc[p] = "consume"
  /\ ~Busy(p, SlotOf(p, d))
  /\ \/ /\ req[p].at < row.created
        /\ Move(p, "refused", [NoReq EXCEPT !.todo = {}])
     \/ /\ req[p].at >= row.created
        /\ Move(p, IF req[p].todo = {d} THEN "commit" ELSE "next",
             [req[p] EXCEPT !.todo = @ \ {d}, !.pend[d] = new,
               !.latest = Larger(@, Larger(req[p].prior, new.blocked))])
  /\ UNCHANGED <<now, rows, sent, tally>>

\* The three rows become visible at once; any block denies the attempt.
Commit(p) ==
  LET slots == {SlotOf(p, d) : d \in Dimension}
      allowed == req[p].latest = 0 IN
  /\ pc[p] = "commit"
  /\ rows' = [k \in Slot |->
       IF k \in slots THEN req[p].pend[k[1].dim] ELSE rows[k]]
  /\ tally' = [k \in Slot |->
       IF k \notin slots THEN tally[k]
       ELSE [counted |-> tally[k].counted + 1,
             admitted |-> tally[k].admitted + IF allowed THEN 1 ELSE 0]]
  /\ IF allowed
     THEN Move(p, "admitted", [req[p] EXCEPT
            !.pend = [d \in Dimension |-> NoRow]])
     ELSE End(p)
  /\ UNCHANGED <<now, sent>>

\* The credential is right, or it is not: neither touches the counters.
Answer(p) ==
  /\ pc[p] = "admitted" /\ End(p)
  /\ UNCHANGED <<now, rows, sent, tally>>

ReturnRefused(p) ==
  /\ pc[p] = "refused" /\ End(p)
  /\ UNCHANGED <<now, rows, sent, tally>>

\* The transaction fails at any point before its commit.
Rollback(p) ==
  /\ pc[p] \in {"next", "consume", "commit"} /\ End(p)
  /\ UNCHANGED <<now, rows, sent, tally>>

Tick ==
  /\ now < MaxTime
  /\ now' = now + 1
  /\ UNCHANGED <<rows, pc, req, sent, tally>>

\* Every bound is used up and every attempt answered.
BoundsReached ==
  /\ sent = MaxRequests /\ now = MaxTime /\ \A p \in Worker : pc[p] = "idle"
  /\ UNCHANGED vars

Step(p) ==
  StartUpsert(p) \/ Consume(p) \/ Commit(p) \/ Answer(p) \/ ReturnRefused(p)

Next ==
  \/ \E p \in Worker :
       \/ \E s \in Subject, ip \in Network : Begin(p, s, ip)
       \/ Step(p) \/ Rollback(p)
  \/ Tick \/ BoundsReached

Spec == Init /\ [][Next]_vars

\* PostgreSQL serves the waiters of a row in order.
FairSpec == Spec /\ \A p \in Worker : SF_vars(Step(p))

----------------------------------------------------------------------------

\* No key admits more attempts in a window than its rule allows, however many
\* of them run at once (login-rate-limit.spec.ts, "blocks only after the exact
\* threshold").
AdmittedWithinBudget ==
  \A k \in Slot : tally[k].admitted <= Rule[k[1].dim].max

\* Every committed attempt is counted once in each of its windows.
CountsAreExact == \A k \in Slot : rows[k].count = tally[k].counted

\* An attempt that begins while one of its keys is blocked, by this window or
\* an earlier one, is not admitted.
BlockHonoured == \A p \in Worker : pc[p] = "admitted" => ~req[p].due

\* Insisting does not prolong the block of a window ("sin bloqueo permanente
\* por pocos intentos", SECURITY.md, section 7).
BlockNotExtended ==
  [][\A k \in Slot : rows[k].blocked # 0 =>
       rows'[k].blocked = rows[k].blocked]_vars

\* An upsert waits for the writers of its row.
WaitsFor(p, q) ==
  /\ p # q /\ pc[p] = "consume"
  /\ \E d \in Dimension :
       req[q].pend[d] # NoRow /\ SlotOf(q, d) = SlotOf(p, req[p].turn)

\* However many attempts share their rows, no circle of them waits for each
\* other: all write the three rows of theirs in the same order.
NoDeadlock ==
  \A S \in SUBSET Worker :
    S # {} => \E p \in S : \A q \in S : ~WaitsFor(p, q)

\* Every attempt is decided.
EveryAttemptEnds == \A p \in Worker : pc[p] # "idle" ~> pc[p] = "idle"

----------------------------------------------------------------------------
(* The inductive invariant. *)

Row == [count : Nat, created : Nat, blocked : Nat, expires : Nat]

Request ==
  [subject : Subject \cup {None}, ip : Network \cup {None}, at : 0 .. MaxTime,
   todo : SUBSET Dimension, turn : Dimension, prior : Nat, latest : Nat,
   pend : [Dimension -> Row], due : BOOLEAN]

TypeOK ==
  /\ now \in 0 .. MaxTime /\ sent \in Nat
  /\ rows \in [Slot -> Row]
  /\ pc \in [Worker ->
       {"idle", "next", "consume", "commit", "admitted", "refused"}]
  /\ req \in [Worker -> Request]
  /\ tally \in [Slot -> [counted : Nat, admitted : Nat]]

InFlight(p) == pc[p] \in {"next", "consume", "commit"}

\* The keys of an attempt are keys, and it takes its dimensions one by one.
Advances(p) ==
  /\ InFlight(p) => req[p].subject \in Subject /\ req[p].ip \in Network
  /\ pc[p] = "consume" => req[p].turn \in req[p].todo
  /\ pc[p] = "commit" => req[p].todo = {}

\* The dimensions are written in the order of the list.
InTurn(p) ==
  InFlight(p) =>
    /\ "Network" \in req[p].todo => "Identity" \in req[p].todo
    /\ "Identity" \in req[p].todo => "IdentityNetwork" \in req[p].todo
    /\ pc[p] = "consume" => req[p].turn \in Turn(req[p].todo)

\* What an attempt has written is the upsert of the row that is still
\* committed, and it remembers the latest block of what it has written.
Written(p) ==
  \A d \in Dimension :
    IF InFlight(p) /\ d \notin req[p].todo
    THEN /\ req[p].pend[d] = Upserted(rows[SlotOf(p, d)], d, req[p].at)
         /\ req[p].pend[d].blocked <= req[p].latest
    ELSE req[p].pend[d] = NoRow

\* A row has one writer.
OneWriter ==
  \A p, q \in Worker : \A d, e \in Dimension :
    /\ p # q /\ req[p].pend[d] # NoRow /\ req[q].pend[e] # NoRow
    => SlotOf(p, d) # SlotOf(q, e)

\* A block that was there when the attempt began has been seen, or its
\* dimension is still to come.
DueSeen(p) ==
  /\ InFlight(p) /\ req[p].due =>
       \/ req[p].latest > 0
       \/ pc[p] = "consume" /\ req[p].prior > 0
       \/ \E d \in req[p].todo :
            /\ pc[p] = "consume" => d # req[p].turn
            /\ ActiveBlocks(KeyOf(d, req[p].subject, req[p].ip), req[p].at) # {}
  /\ pc[p] = "admitted" => ~req[p].due

BlocksEnd == \A k \in Slot : rows[k].blocked <= MaxTime + Rule[k[1].dim].block

AdmittedAreCounted == \A k \in Slot : tally[k].admitted <= tally[k].counted

IInv ==
  /\ TypeOK
  /\ \A p \in Worker : Advances(p) /\ Written(p) /\ DueSeen(p)
  /\ OneWriter /\ BlocksEnd
  /\ CountsAreExact /\ AdmittedAreCounted /\ AdmittedWithinBudget

----------------------------------------------------------------------------

\* What the test says, that concurrent attempts are counted: none is lost to
\* an error.
AttemptsAreCounted == \A p \in Worker : pc[p] # "refused"
==============================================================================
