--------------------------- MODULE SessionContract ----------------------------
(***************************************************************************)
(* What the API promises of sessions, whoever works on them: a session is  *)
(* issued once to a user, handed over at most once, to the same user and   *)
(* in the instant that ends it, and never comes back once ended.           *)
(* SessionLifecycle and AuthHttp are both shown to keep this promise.      *)
(***************************************************************************)
CONSTANTS User, Token, None

VARIABLE life   \* life[t]: the session of token t, None as long as there is none

Session == [user: User, parent: Token \cup {None}, state: {"open", "ended"}]

Fresh(u, parent) == [user |-> u, parent |-> parent, state |-> "open"]

Open(t) == life[t] # None /\ life[t].state = "open"

Init == life \in [Token -> {Fresh(u, None) : u \in User} \cup {None}]

\* A login.
Issue(t, u) ==
  /\ life[t] = None
  /\ life' = [life EXCEPT ![t] = Fresh(u, None)]

\* A renewal: s ends and t goes on in its place.
HandOver(s, t) ==
  /\ Open(s) /\ life[t] = None
  /\ life' = [life EXCEPT ![s].state = "ended", ![t] = Fresh(life[s].user, s)]

\* A logout, a revocation of all sessions of one user.
End(u) ==
  \E S \in SUBSET {t \in Token : Open(t) /\ life[t].user = u} :
    life' = [t \in Token |->
      IF t \in S THEN [life[t] EXCEPT !.state = "ended"] ELSE life[t]]

\* Steps change something; the others are the stuttering of Spec.
Next ==
  /\ life' # life
  /\ \/ \E t \in Token, u \in User : Issue(t, u)
     \/ \E s, t \in Token : HandOver(s, t)
     \/ \E u \in User : End(u)

Spec == Init /\ [][Next]_life
==============================================================================
