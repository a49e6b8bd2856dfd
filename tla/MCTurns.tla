------------------------------ MODULE MCTurns ------------------------------
(***************************************************************************)
(* Small instances of the components of an agent turn.                     *)
(***************************************************************************)
EXTENDS Turns

\* Three runs on one session key: two peers of an account, one of them also on the
\* control lane
Origins == <<[acct |-> 1, peer |-> 1, key |-> 1], [acct |-> 1, peer |-> 2, key |-> 1],
             [acct |-> 1, peer |-> 2, key |-> 1]>>
OriginAt(r) == Origins[r]

\* One approval that names no account, so that it goes to two of them
OneAccount(x) == 1
BothAccounts(i) == {1, 2}

\* Two turns with a run each, one of them with two invocations that share an id
RunTurn(r) == IF r = "a" THEN 1 ELSE 2
FirstRun(v) == "a"
SharedIds(v) == IF v = 1 THEN {1, 2} ELSE {1}
=============================================================================
