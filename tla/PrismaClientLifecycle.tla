-------------------------- MODULE PrismaClientLifecycle -----------------------
(***************************************************************************)
(* PrismaClientLifecycle: the one database client of a process, opened by  *)
(* connect, which checks that the role it runs under is restricted, and    *)
(* closed by disconnect.  A process makes its calls one after the other.   *)
(***************************************************************************)
CONSTANT Process

VARIABLES
  pool,       \* whether the client of each process holds connections
  connected,  \* its flag #connected
  step,       \* the await its running call is at, "none" without a call
  role,       \* the database role, as the identity query describes it
  verified    \* history: whether these connections passed the check

clientVars == <<pool, connected, step, role, verified>>

Roles == {"restricted", "privileged"}

ClientInit ==
  /\ pool = [p \in Process |-> FALSE]
  /\ connected = pool /\ verified = pool
  /\ step = [p \in Process |-> "none"]
  /\ role \in Roles

At(p, from, to) == step[p] = from /\ step' = [step EXCEPT ![p] = to]

\* connect on a connected client returns at once.
Connect(p) ==
  /\ ~connected[p] /\ At(p, "none", "connect")
  /\ UNCHANGED <<pool, connected, role, verified>>

\* Opening fails, or leaves a pool whatever follows.
Open(p) ==
  /\ \/ At(p, "connect", "release") /\ UNCHANGED pool
     \/ At(p, "connect", "verify") /\ pool' = [pool EXCEPT ![p] = TRUE]
  /\ UNCHANGED <<connected, role, verified>>

\* Variant: the promise of the check is not awaited.
VerifyUnawaited(p) ==
  /\ At(p, "verify", "none")
  /\ connected' = [connected EXCEPT ![p] = TRUE]
  /\ verified' = [verified EXCEPT ![p] = role = "restricted"]
  /\ UNCHANGED <<pool, role>>

\* assertSafeRuntimeDatabaseIdentity: the role is not a superuser, does not
\* bypass row-level security and owns neither the database nor the schema.
Verify(p) ==
  /\ \/ /\ role = "restricted" /\ At(p, "verify", "none")
        /\ connected' = [connected EXCEPT ![p] = TRUE]
        /\ verified' = [verified EXCEPT ![p] = TRUE]
     \/ At(p, "verify", "release") /\ UNCHANGED <<connected, verified>>
  /\ UNCHANGED <<pool, role>>

\* Variant: the catch throws without closing the client.
ReleaseNothing(p) ==
  /\ At(p, "release", "none")
  /\ UNCHANGED <<pool, connected, role, verified>>

\* The catch of connect closes what was opened; connect then throws.
Release(p) ==
  /\ At(p, "release", "none")
  /\ pool' = [pool EXCEPT ![p] = FALSE]
  /\ UNCHANGED <<connected, role, verified>>

\* disconnect on a client that is not connected returns at once.
Disconnect(p) ==
  /\ connected[p] /\ At(p, "none", "disconnect")
  /\ UNCHANGED <<pool, connected, role, verified>>

Close(p) ==
  /\ At(p, "disconnect", "none")
  /\ pool' = [pool EXCEPT ![p] = FALSE]
  /\ connected' = [connected EXCEPT ![p] = FALSE]
  /\ verified' = [verified EXCEPT ![p] = FALSE]
  /\ UNCHANGED role

\* The process is lost, and its connections with it.
Kill(p) ==
  /\ step' = [step EXCEPT ![p] = "none"]
  /\ pool' = [pool EXCEPT ![p] = FALSE]
  /\ connected' = [connected EXCEPT ![p] = FALSE]
  /\ verified' = [verified EXCEPT ![p] = FALSE]
  /\ UNCHANGED role

\* ALTER ROLE, or a change of owner, by an operator.
AlterRole ==
  /\ role' \in Roles \ {role}
  /\ UNCHANGED <<pool, connected, step, verified>>
==============================================================================
