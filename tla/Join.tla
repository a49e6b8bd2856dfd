-------------------------------- MODULE Join --------------------------------
(***************************************************************************)
(* The two halves of joining a conversation: the registration (Register)   *)
(* and the cached key set tokens are verified with (Jwks).  They share no  *)
(* state on the questions asked of them, so a behaviour runs one of them.  *)
(***************************************************************************)
EXTENDS Register

CONSTANTS Verifier, Warmer, Kid, TTL, MaxTime

VARIABLES
  part,
  src, published, cache, op, call, clock

J == INSTANCE Jwks

\* Callers are finitely many and either verify or warm up, and a fetched set is fresh
\* for some time.
JwksConstants ==
  /\ IsFiniteSet(J!Caller)
  /\ Verifier \cap Warmer = {}
  /\ TTL \in Nat \ {0}
ASSUME JwksAssumption == JwksConstants

jwks == <<src, published, cache, op, call, clock>>
joinVars == <<part, vars, jwks>>

\* The component that does not run in a behaviour stays in one of its initial states.
JoinInit ==
  /\ part \in {"jwks", "register"}
  /\ J!Init /\ Init
  /\ part # "jwks" => src = "url" /\ published = {}
  /\ part # "register" => opts = (CHOOSE s \in Start : TRUE).opts

JoinNext ==
  \/ part = "jwks" /\ J!Next /\ UNCHANGED <<part, vars>>
  \/ part = "register" /\ Next /\ UNCHANGED <<part, jwks>>

JoinSpec == JoinInit /\ [][JoinNext]_joinVars

\* A token is refused only for what the issuer answered, and verified only with a
\* key fetched less than a TTL ago: Jwks!IssuerDecides.
IssuerDecides == part = "jwks" => J!IssuerDecides
=============================================================================
