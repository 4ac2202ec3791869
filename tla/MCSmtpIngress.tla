--------------------------- MODULE MCSmtpIngress ---------------------------
(***************************************************************************)
(* Instances of SmtpIngress for TLC: connections of one client, an address *)
(* of the host itself, one of a domain that comes and goes and one without *)
(* a domain.                                                               *)
(***************************************************************************)
EXTENDS SmtpIngress, TLC

CONSTANTS c1, c2, me, alice, bob, root, home, corp

OneClient == c1 :> me @@ c2 :> me
Swap == Permutations({c1, c2})
TwoDomains == alice :> home @@ bob :> corp @@ root :> NoDomain

\* The bounds on exploration: the connections hold two recipients between
\* them, so that at most one has a message for two; while one is in DATA the
\* other is between commands, as DATA shares nothing with DATA or with
\* greylisting, and so it is while one has a recipient without a domain, which
\* is never greylisted.  The address of the host goes through all an account
\* may, the hosted one is only created, and the third has none.
TwoRecipients == Len(rcpts[c1]) + Len(rcpts[c2]) <= 2
OneMessage == \A s, q \in Conns :
  s # q /\ pc[s] \in {"lookup", "local", "remote"} => pc[q] = "ready"
Apart == \A s, q \in Conns :
  s # q /\ root \in Addressed(s) => pc[q] = "ready" /\ rcpts[q] = <<>>
Accounts == account[root] = "none" /\ account[bob] \in {"none", "live"}
Bounds == TwoRecipients /\ OneMessage /\ Apart /\ Accounts
=============================================================================
