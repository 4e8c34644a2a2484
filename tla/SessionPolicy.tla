---------------------------- MODULE SessionPolicy ----------------------------
(***************************************************************************)
(* The lifetime policy of a BCM session (identity/domain/session-policy.ts *)
(* and the relations server-config.ts enforces between its parameters).    *)
(* Instants and durations are natural numbers of one abstract time unit.   *)
(***************************************************************************)
EXTENDS Integers

CONSTANTS
  IdleTimeout,       \* idleTimeoutMilliseconds
  AbsoluteLifetime,  \* absoluteLifetimeMilliseconds
  TouchInterval      \* touchIntervalMilliseconds

\* loadSessionConfig refuses a touch interval that is not shorter than the
\* idle timeout and an idle timeout longer than the absolute lifetime.
ASSUME PolicyAssumption ==
  /\ IdleTimeout \in Nat /\ AbsoluteLifetime \in Nat /\ TouchInterval \in Nat
  /\ 0 < TouchInterval /\ TouchInterval < IdleTimeout
  /\ IdleTimeout <= AbsoluteLifetime

EffectiveDeadline(expires, seen) ==
  IF expires <= seen + IdleTimeout THEN expires ELSE seen + IdleTimeout

IsExpired(now, expires, seen) == now >= EffectiveDeadline(expires, seen)

IsTouchDue(now, seen) == now - seen >= TouchInterval
==============================================================================
