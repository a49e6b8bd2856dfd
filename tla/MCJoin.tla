------------------------------- MODULE MCJoin -------------------------------
(***************************************************************************)
(* Small instances of the two halves of joining a conversation.            *)
(***************************************************************************)
EXTENDS Join

User(p) == [peer |-> p, sub |-> p, tenant |-> TRUE, signed |-> TRUE, issuer |-> TRUE,
            audience |-> TRUE, expired |-> FALSE, cnf |-> "device", pop |-> "key",
            protocol |-> TRUE]

Setting(x, y, req, st) == [opts |-> [a |-> x, b |-> y], requirePoP |-> req, stored |-> st]

\* Two tabs of one user; tabs of two users; tabs whose token or client falls
\* short in each way, one of them of an account that has no room for a key.
Settings == {
  Setting(User("p1"), User("p1"), TRUE, {}),
  Setting(User("p1"), User("p2"), TRUE, {}),
  Setting([User("p1") EXCEPT !.cnf = "none"], [User("p2") EXCEPT !.protocol = FALSE], TRUE, {}),
  Setting([User("p1") EXCEPT !.pop = "none"], [User("p2") EXCEPT !.tenant = FALSE],
          FALSE, {"past", "older"}),
  Setting([User("p1") EXCEPT !.pop = "none"], [User("p2") EXCEPT !.expired = TRUE], TRUE, {}),
  Setting([User("p1") EXCEPT !.sub = "p2"], [User("p2") EXCEPT !.cnf = "bad"], TRUE, {})}

\* The first tab may ask for every challenge, the second joins once
Requests == [a |-> 4, b |-> 2]
=============================================================================
