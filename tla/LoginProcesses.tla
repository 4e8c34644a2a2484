----------------------------- MODULE LoginProcesses ---------------------------
(***************************************************************************)
(* The processes behind Login: the API, which serves logins between its    *)
(* bootstrap and its loss, and the tool create-development-user, a process *)
(* of its own each time, that connects, provisions and disconnects.  Each  *)
(* has a client, and may be lost at any moment.                            *)
(***************************************************************************)
EXTENDS Login

CONSTANT Api

ASSUME ApiAssumption == Api \notin Worker

VARIABLES
  pool, connected, step, role, verified,
  phase     \* what each process is doing

\* A worker is a process while it runs the tool, and else a request of the API.
Process == Worker \cup {Api}

Client == INSTANCE PrismaClientLifecycle

clientVars == <<pool, connected, step, role, verified>>

processVars == <<vars, clientVars, phase>>

Phases == {"none", "starting", "running", "finally"}

ProcessInit ==
  /\ Init /\ Client!ClientInit
  /\ phase = [p \in Process |-> "none"]

Enter(p, next) == phase' = [phase EXCEPT ![p] = next]

\* node dist/main.js, or node create-development-user.mjs.
Start(p) ==
  /\ phase[p] = "none"
  /\ p \in Worker => pc[p] = "idle"
  /\ Client!Connect(p) /\ Enter(p, "starting")
  /\ UNCHANGED vars

\* The bootstrap awaits onModuleInit before it listens, and ends if connect
\* throws; the tool has its finally.
Starting(p) ==
  /\ phase[p] = "starting"
  /\ \/ (Client!Open(p) \/ Client!Verify(p))
        /\ Enter(p, IF connected'[p] THEN "running" ELSE "starting")
     \/ Client!Release(p) /\ Enter(p, IF p = Api THEN "none" ELSE "finally")
  /\ UNCHANGED vars

Serve(p) ==
  /\ phase[Api] = "running" /\ phase[p] = "none"
  /\ \/ \E u \in User, secret \in Secret : Execute(p, u, secret)
     \/ Step(p)
     \/ Fail({p})
  /\ UNCHANGED <<clientVars, phase>>

\* Returned or thrown, provisioning ends in the finally.
Provisioning(p) ==
  /\ p \in Worker /\ phase[p] = "running"
  /\ \/ \E u \in User, secret \in Secret : Provision(p, u, secret)
     \/ Step(p)
     \/ Fail({p})
  /\ Enter(p, IF pc'[p] = "idle" THEN "finally" ELSE "running")
  /\ UNCHANGED clientVars

Finally(p) ==
  /\ phase[p] = "finally"
  /\ \/ Client!Disconnect(p) /\ UNCHANGED phase
     \/ Client!Close(p) /\ Enter(p, "none")
     \/ ~connected[p] /\ Enter(p, "none") /\ UNCHANGED clientVars
  /\ UNCHANGED vars

\* What runs in process p.
InFlight(p) ==
  {w \in Worker : pc[w] # "idle" /\ (IF phase[w] = "none" THEN Api ELSE w) = p}

Lose(p) ==
  /\ phase[p] # "none"
  /\ Client!Kill(p) /\ Enter(p, "none")
  /\ IF InFlight(p) = {} THEN UNCHANGED vars ELSE Fail(InFlight(p))

Operate ==
  /\ \E u \in User :
       \/ DisableUser(u) \/ RevokeAll(u)
       \/ \E secret \in Secret : ChangePassword(u, secret)
  /\ UNCHANGED <<clientVars, phase>>

Alter == Client!AlterRole /\ UNCHANGED <<vars, phase>>

ProcessNext ==
  \/ \E p \in Process : Start(p) \/ Starting(p) \/ Finally(p) \/ Lose(p)
  \/ \E p \in Worker : Serve(p) \/ Provisioning(p)
  \/ Operate \/ Alter

ProcessSpec == ProcessInit /\ [][ProcessNext]_processVars

----------------------------------------------------------------------------

\* Whatever runs, logins in the API or the tool's provisioning, runs on
\* connections that were opened under a restricted role: a process serves
\* nothing before the check has passed, and nothing is left of a process that
\* was lost (session-repository.spec.ts, "unsafeLifecycle").
VerifiedBeforeUse ==
  \A w \in Worker : pc[w] # "idle" =>
    LET p == IF phase[w] = "none" THEN Api ELSE w IN pool[p] /\ verified[p]

\* A process that has ended holds no connection, whichever of its steps failed:
\* the disconnect of the finally passes over a client whose connect threw, so
\* connect has closed it.
NothingLeftOpen ==
  \A p \in Process : phase[p] = "none" => ~pool[p]

----------------------------------------------------------------------------
(* The inductive invariant behind them *)

\* What a process holds in each phase.  A client is connected from a check that
\* passed to its close, and one that is not, and is not opening, holds nothing.
PhaseOf(p) ==
  /\ connected[p] => pool[p] /\ verified[p]
  /\ phase[p] = "none" => step[p] = "none" /\ ~pool[p] /\ ~connected[p]
  /\ phase[p] = "starting" => step[p] \in {"connect", "verify", "release"} /\ ~connected[p]
  /\ step[p] = "verify" => pool[p]
  /\ phase[p] = "running" => step[p] = "none" /\ connected[p]
  /\ phase[p] = "finally" =>
       step[p] \in {"none", "disconnect"} /\ (connected[p] \/ (step[p] = "none" /\ ~pool[p]))

\* A login or a provisioning runs in a process that is running.
RunsInside(w) ==
  pc[w] # "idle" => phase[IF phase[w] = "none" THEN Api ELSE w] = "running"

ProcessIInv ==
  /\ pc \in [Worker -> Labels]
  /\ phase \in [Process -> Phases]
  /\ step \in [Process -> {"none", "connect", "verify", "release", "disconnect"}]
  /\ <<pool, connected, verified>> \in
       [Process -> BOOLEAN] \X [Process -> BOOLEAN] \X [Process -> BOOLEAN]
  /\ \A p \in Process : PhaseOf(p)
  /\ \A w \in Worker : RunsInside(w)
==============================================================================
