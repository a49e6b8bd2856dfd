----------------------------- MODULE MCStorage -----------------------------
(***************************************************************************)
(* Small instances of what an account keeps on disk.                       *)
(***************************************************************************)
EXTENDS Storage

\* Two processes of one tuple and one of another; the second is an offline rotation
SecondTuple(p) == IF p = 3 THEN 2 ELSE 1

\* Two keys that normalize to one; a flat configuration with a legacy credential, one
\* with a named account, one with a base URL in the channel's nats.credentials
ToDefault(k) == "default"
Inputs == {[tenant |-> 0, saas |-> 0], [tenant |-> 0, saas |-> 2], [tenant |-> 2, saas |-> 1]}
Cred(s) == [there |-> s # 0, mode |-> "unset", saas |-> s, own |-> FALSE]
Leaf(there, s) == [there |-> there, off |-> FALSE, tenant |-> 0, saas |-> 0, cred |-> Cred(s), jwt |-> FALSE]
Config(top, base, named) ==
    [top |-> [tenant |-> top, saas |-> top], base |-> base, acct |-> [k \in Raw |-> Leaf(k \in named, 0)]]
Configs ==
    {[cfg |-> Config(0, Leaf(FALSE, 0), {}), legacy |-> {"default"}],
     [cfg |-> Config(2, Leaf(FALSE, 0), {"Default"}), legacy |-> {}],
     [cfg |-> Config(2, Leaf(TRUE, 2), {}), legacy |-> {}]}
=============================================================================
