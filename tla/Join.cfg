\* Two verifications and one warm-up share the refetch; one key id is enough to be
\* published or not, and three ticks to outlive a TTL of two.  Bounded counters run
\* out: a deadlock is not an error.
SPECIFICATION JoinSpec
CONSTANTS
  Verifier = {"v1", "v2"}
  Warmer = {"w"}
  Kid = {"k"}
  TTL = 2
  MaxTime = 3
  Tab = {"a", "b"}
  Peer = {"p1", "p2"}
  Start <- Settings
  Tries = 2
  MaxNonces = 2
  MaxPeers = 1
  MaxKeys = 2
  MaxIssued = 3
  MaxSeq <- Requests
  MaxDrops = 1
INVARIANTS
  IssuerDecides
  LockedOutForCause
  Tables
CHECK_DEADLOCK FALSE
