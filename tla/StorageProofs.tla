--------------------------- MODULE StorageProofs ---------------------------
(***************************************************************************)
(* What an account keeps on disk survives whatever process dies between    *)
(* whatever two writes: its conversation keys through a rotation           *)
(* (KeyStore), and its credential and its keys through the migration of    *)
(* the legacy files (Migration).  And the credential it connects with was  *)
(* issued for it, by the SaaS it is configured for (Setup).                *)
(***************************************************************************)
EXTENDS Storage, TLAPS

(***************************************************************************)
(* KeyStore.                                                               *)
(***************************************************************************)
KeyMap == [Peer -> Nat]
Doc == [st : {"none", "ok", "bad", "new", "foreign"}, m : KeyMap]
GatewayState ==
    [pc : {"down", "up", "look", "archive", "empty", "reset", "persist", "label"}, loaded : BOOLEAN,
     cache : KeyMap, peer : Peer \cup {0}, next : KeyMap]
Invocation ==
    [pc : {"idle", "lock", "plan", "gens", "keys", "readback", "release", "done", "dead"},
     all : BOOLEAN, peer : Peer \cup {0}, digest : SUBSET Peer, before : KeyMap, k : KeyMap, g : KeyMap,
     out : {"none", "dry", "refused", "failed", "ok", "unverified", "cleanup"}]
KeyTypes ==
    /\ keys \in Doc /\ gens \in Doc /\ gw \in GatewayState /\ cli \in [Cli -> Invocation]
    /\ made \in Nat /\ handed \in KeyMap /\ rot \in KeyMap
    /\ reviewed \in SUBSET SUBSET Peer /\ retired \in SUBSET (Peer \X Nat)

\* The steps of a command that go with the lock
Holding == {"plan", "gens", "keys", "readback", "release"}
\* Writers exclude each other: the gateway and the commands by the operator's
\* obligation, the commands by the lock file.
OneWriter ==
    /\ gw.pc # "down" => \A c \in Cli : ~Busy(c)
    /\ \A c \in Cli : cli[c].pc \in Holding => lock = c

\* A document that cannot be read has no keys; a key's number is that of its making.
DocInv ==
    /\ keys.st # "ok" => keys.m = None
    /\ made > 0
    /\ \A q \in Peer : keys.m[q] <= made
    /\ "keys" \in future => keys.st \in {"new", "foreign"}

\* No key that was replaced has the number of the newest one.
RetiredAreOlder == \A q \in Peer, n \in Nat : <<q, n>> \in retired => n < made

\* What the gateway has in memory is on disk, or new.
GatewayInv ==
    /\ gw.pc = "down" => gw.cache = None
    /\ \A q \in Peer : gw.cache[q] # 0 => gw.cache[q] = keys.m[q]
    /\ gw.pc = "archive" => keys.st = "bad"
    /\ gw.pc = "empty" => keys.st = "none"
    /\ gw.pc \in {"empty", "reset"} => rot = None /\ handed = None /\ gw.cache = None
    /\ gw.pc = "persist" => /\ Readable(keys) /\ gw.peer \in Peer /\ gw.next[gw.peer] = made
                            /\ keys.m[gw.peer] = 0
                            /\ \A q \in Peer \ {gw.peer} : gw.next[q] = keys.m[q]
                            /\ RetiredAreOlder
    /\ gw.pc = "label" => gw.peer \in Peer /\ gw.cache = keys.m /\ keys.st = "ok"

\* A command's candidates give its targets the newest key and a label.
Planned(c) ==
    /\ keys.st = "ok" /\ cli[c].before = keys.m
    /\ \A q \in Targets(c, cli[c].before) : q \in Peer /\ keys.m[q] # 0 /\ cli[c].k[q] = made /\ cli[c].g[q] > 0
    /\ \A q \in Peer \ Targets(c, cli[c].before) : cli[c].k[q] = keys.m[q]
    /\ \A q \in Peer : keys.m[q] < made
    /\ RetiredAreOlder
    /\ \A q \in Peer : rot[q] > 0 => cli[c].g[q] >= rot[q]
    /\ cli[c].all => Of(cli[c].before) = cli[c].digest
\* It replaced the keys of the reviewed peers and no others.
Committed(c) ==
    /\ keys = Written(cli[c].k)
    /\ cli[c].all => {q \in Peer : cli[c].k[q] # cli[c].before[q]} = cli[c].digest
Candidate(c) ==
    /\ cli[c].pc \in {"gens", "keys"} => Planned(c)
    /\ cli[c].pc = "keys" => gens = Written(cli[c].g)
    /\ cli[c].pc = "readback" \/ (cli[c].pc = "release" /\ cli[c].out = "ok") => Committed(c)
    /\ cli[c].pc = "readback" => gens = Written(cli[c].g)
    /\ cli[c].out # "unverified"
    /\ cli[c].pc \in {"lock", "plan"} /\ ~cli[c].all => cli[c].peer \in Peer
CandidateInv == \A c \in Cli : Candidate(c)

\* A replaced key is gone; a rotated one has its generation on record; a key that a
\* device holds is the peer's.
RetiredInv ==
    /\ \A q \in Peer, n \in Nat : <<q, n>> \in retired => n # 0 /\ n <= made /\ keys.m[q] # n
    /\ \A q \in Peer : rot[q] > 0 => keys.m[q] # 0 /\ Labels[q] >= rot[q]
    /\ \A q \in Peer : handed[q] # 0 => keys.m[q] = handed[q]

KeyInv == KeyTypes /\ OneWriter /\ DocInv /\ GatewayInv /\ CandidateInv /\ RetiredInv

(***************************************************************************)
(* While the gateway runs no command does; a command that holds the lock   *)
(* is the only one past it.                                                *)
(***************************************************************************)
LEMMA NoCommand ==
    ASSUME KeyInv, gw.pc # "down" \/ \A c \in Cli : ~Busy(c), cli' = cli
    PROVE  OneWriter' /\ CandidateInv'
<1>1. \A c \in Cli : ~Busy(c)
  BY DEF KeyInv, OneWriter
<1>2. \A c \in Cli : ~Busy(c)' /\ cli'[c].pc \notin Holding /\ cli'[c].pc # "lock"
  BY <1>1 DEF Busy, Holding
<1>3. OneWriter'
  BY <1>2 DEF OneWriter
<1>4. CandidateInv'
  BY <1>2 DEF KeyInv, CandidateInv, Candidate, Holding
<1> QED  BY <1>3, <1>4

LEMMA OtherCommands ==
    ASSUME KeyInv, KeyStoreConstants, NEW c \in Cli, NEW d \in Cli, d # c, cli'[d] = cli[d],
           cli[c].pc \in Holding \/ UNCHANGED <<keys, gens, made, retired, rot>>
    PROVE  Candidate(d)'
<1>1. CASE cli[c].pc \in Holding
  <2>1. lock = c /\ cli[d].pc \notin Holding
    BY <1>1 DEF KeyInv, OneWriter
  <2> QED  BY <2>1 DEF KeyInv, CandidateInv, Candidate, Holding
<1>2. CASE UNCHANGED <<keys, gens, made, retired, rot>>
  <2>1. Candidate(d)
    BY DEF KeyInv, CandidateInv
  <2>2. Planned(d)' <=> Planned(d)
    BY <1>2 DEF Planned, Targets, RetiredAreOlder, Of
  <2>3. Committed(d)' <=> Committed(d)
    BY <1>2 DEF Committed, Written
  <2> QED  BY <1>2, <2>1, <2>2, <2>3 DEF Candidate, Written
<1> QED  BY <1>1, <1>2

LEMMA GatewayIsDown ==
    ASSUME KeyInv, NEW c \in Cli, Busy(c) \/ gw.pc = "down", gw' = gw
    PROVE  gw.pc = "down" /\ gw.cache = None /\ GatewayInv'
<1>1. gw.pc = "down"
  BY DEF KeyInv, OneWriter
<1> QED  BY <1>1 DEF KeyInv, GatewayInv, None, KeyTypes

(***************************************************************************)
(* The gateway's steps.                                                    *)
(***************************************************************************)
LEMMA KeyInitInv == Init => KeyInv
<1> SUFFICES ASSUME Init PROVE KeyInv
  OBVIOUS
<1>1. None \in KeyMap /\ One \in KeyMap
  BY DEF None, One, KeyMap
<1>2. keys \in Doc /\ gens \in Doc /\ keys.m \in {None, One} /\ (keys.st # "ok" => keys.m = None)
  BY <1>1 DEF Init, Doc, Written
<1>3. cli \in [Cli -> Invocation]
  BY <1>1 DEF Init, Cleared, Invocation
<1>4. KeyTypes
  BY <1>1, <1>2, <1>3 DEF Init, KeyTypes, GatewayState
<1>5. \A c \in Cli : cli[c].pc = "idle" /\ cli[c].out = "none"
  BY DEF Init, Cleared
<1>6. OneWriter
  BY <1>5 DEF Init, OneWriter, Holding
<1>7. DocInv
  BY <1>2 DEF Init, DocInv, None, One
<1>8. GatewayInv
  BY DEF Init, GatewayInv, None
<1>9. CandidateInv
  BY <1>5 DEF CandidateInv, Candidate
<1>10. RetiredInv
  BY DEF Init, RetiredInv, None
<1> QED  BY <1>4, <1>6, <1>7, <1>8, <1>9, <1>10 DEF KeyInv

\* A step that leaves the documents and the ghosts as they are
LEMMA DocsUntouched ==
    ASSUME KeyInv, UNCHANGED <<keys, gens, made, future, retired, rot, handed>>
    PROVE  DocInv' /\ RetiredInv'
BY DEF KeyInv, DocInv, RetiredInv, Labels, Content, None

LEMMA StartKeeps == ASSUME KeyInv, Start PROVE KeyInv'
<1>1. KeyTypes'
  BY DEF KeyInv, KeyTypes, Start, Disk, Ghosts, GatewayState, None, KeyMap
<1>2. OneWriter' /\ CandidateInv'
  BY NoCommand DEF Start
<1>3. DocInv' /\ RetiredInv'
  BY DocsUntouched DEF Start, Disk, Ghosts
<1>4. GatewayInv'
  BY DEF KeyInv, KeyTypes, GatewayState, Start, GatewayInv, None, Disk, Ghosts
<1> QED  BY <1>1, <1>2, <1>3, <1>4 DEF KeyInv

LEMMA DownKeeps == ASSUME KeyInv, Down PROVE KeyInv'
<1>1. KeyTypes'
  BY DEF KeyInv, KeyTypes, Down, Ghosts, GatewayState, None, KeyMap
<1>2. OneWriter' /\ CandidateInv'
  BY NoCommand DEF Down
<1>3. DocInv' /\ RetiredInv'
  BY DocsUntouched DEF Down, Ghosts
<1>4. GatewayInv'
  BY DEF KeyInv, KeyTypes, GatewayState, Down, GatewayInv, None, Ghosts
<1> QED  BY <1>1, <1>2, <1>3, <1>4 DEF KeyInv

LEMMA LoadKeeps == ASSUME KeyInv, NEW q \in Peer, Load(q) PROVE KeyInv'
<1>1. Fresh \in KeyMap /\ (keys.st # "ok" => keys.m = None)
  BY DEF KeyInv, KeyTypes, Doc, DocInv, Fresh, Content, None, KeyMap
<1>2. Readable(keys) => Fresh = keys.m
  BY <1>1 DEF Fresh, Content
<1>3. KeyTypes'
  BY <1>1 DEF KeyInv, KeyTypes, Load, Disk, Ghosts, GatewayState
<1>4. OneWriter' /\ CandidateInv'
  BY NoCommand DEF Load
<1>5. DocInv' /\ RetiredInv'
  BY DocsUntouched DEF Load, Disk, Ghosts
<1>6. GatewayInv'
  BY <1>1, <1>2 DEF KeyInv, KeyTypes, GatewayState, Load, GatewayInv, Quarantines, Disk, Ghosts
<1> QED  BY <1>3, <1>4, <1>5, <1>6 DEF KeyInv

LEMMA ArchiveKeeps == ASSUME KeyInv, Archive PROVE KeyInv'
<1>0. None \in KeyMap
  BY DEF None, KeyMap
<1>1. KeyTypes'
  <2>1. gw' \in GatewayState
    BY <1>0 DEF KeyInv, KeyTypes, Archive, Gw, GatewayState
  <2>2. keys' \in Doc /\ handed' \in KeyMap /\ rot' \in KeyMap
    BY <1>0 DEF KeyInv, KeyTypes, Archive, Doc
  <2> QED  BY <2>1, <2>2 DEF KeyInv, KeyTypes, Archive
<1>2. OneWriter' /\ CandidateInv'
  BY NoCommand DEF Archive
<1>3. CASE Gw("up") /\ UNCHANGED <<keys, handed, rot>>
  <2>1. DocInv' /\ RetiredInv'
    BY <1>3, DocsUntouched DEF Archive
  <2>2. GatewayInv'
    BY <1>3 DEF KeyInv, KeyTypes, GatewayState, Gw, Archive, GatewayInv
  <2> QED  BY <1>1, <1>2, <2>1, <2>2 DEF KeyInv
<1>4. CASE /\ keys' = [st |-> "none", m |-> None] /\ handed' = None /\ rot' = None
           /\ gw' = [gw EXCEPT !.pc = "empty", !.loaded = TRUE, !.cache = None]
  <2>1. keys.st = "bad"
    BY DEF KeyInv, GatewayInv, Archive
  <2>2. DocInv'
    BY <1>4, <2>1 DEF KeyInv, KeyTypes, DocInv, None, Archive
  <2>3. RetiredInv'
    BY <1>4 DEF KeyInv, KeyTypes, RetiredInv, None, Archive
  <2>4. GatewayInv'
    BY <1>4 DEF KeyInv, KeyTypes, GatewayState, GatewayInv, None, Archive
  <2> QED  BY <1>1, <1>2, <2>2, <2>3, <2>4 DEF KeyInv
<1> QED  BY <1>3, <1>4 DEF Archive

LEMMA PersistEmptyKeeps == ASSUME KeyInv, PersistEmpty PROVE KeyInv'
<1>0. None \in KeyMap
  BY DEF None, KeyMap
<1>1. KeyTypes'
  BY <1>0 DEF KeyInv, KeyTypes, PersistEmpty, Gw, GatewayState, Doc, Written, Ghosts
<1>2. OneWriter' /\ CandidateInv'
  BY NoCommand DEF PersistEmpty
<1>3. keys.st = "none" /\ keys.m = None /\ keys'.m = None
  BY DEF KeyInv, GatewayInv, DocInv, PersistEmpty, Written
<1>4. DocInv'
  BY <1>3 DEF KeyInv, KeyTypes, DocInv, None, PersistEmpty, Written
<1>5. RetiredInv'
  BY <1>3 DEF KeyInv, KeyTypes, RetiredInv, None, PersistEmpty, Ghosts, Labels, Content
<1>6. GatewayInv'
  BY <1>3 DEF KeyInv, KeyTypes, GatewayState, GatewayInv, None, PersistEmpty, Gw, Ghosts
<1> QED  BY <1>1, <1>2, <1>4, <1>5, <1>6 DEF KeyInv

LEMMA ResetGenerationsKeeps == ASSUME KeyInv, ResetGenerations PROVE KeyInv'
<1>0. None \in KeyMap
  BY DEF None, KeyMap
<1>1. KeyTypes'
  BY <1>0 DEF KeyInv, KeyTypes, ResetGenerations, Gw, GatewayState, Doc, Written, Ghosts
<1>2. OneWriter' /\ CandidateInv'
  BY NoCommand DEF ResetGenerations
<1>3. DocInv'
  BY DEF KeyInv, DocInv, ResetGenerations
<1>4. rot = None
  BY DEF KeyInv, GatewayInv, ResetGenerations
<1>5. RetiredInv'
  BY <1>4 DEF KeyInv, RetiredInv, None, ResetGenerations, Ghosts
<1>6. GatewayInv'
  BY DEF KeyInv, KeyTypes, GatewayState, GatewayInv, ResetGenerations, Gw, Ghosts
<1> QED  BY <1>1, <1>2, <1>3, <1>5, <1>6 DEF KeyInv
(***************************************************************************)
(* getOrCreate.                                                            *)
(***************************************************************************)
LEMMA GetOrCreateKeeps == ASSUME KeyInv, NEW q \in Peer, GetOrCreate(q) PROVE KeyInv'
<1>1. gw.pc # "down" /\ UNCHANGED <<cli, future, keys, gens, lock, temps, reviewed, retired, rot>>
  BY DEF GetOrCreate, Disk
<1>2. OneWriter' /\ CandidateInv'
  BY <1>1, NoCommand
<1>3. /\ Fresh \in KeyMap /\ (Readable(keys) => Fresh = keys.m)
      /\ gw \in GatewayState /\ made \in Nat /\ handed \in KeyMap /\ gw.cache \in KeyMap /\ keys.m \in KeyMap
  BY DEF KeyInv, KeyTypes, Doc, GatewayState, DocInv, Fresh, Content, None, KeyMap, Readable
<1>4. CASE gw.cache[q] # 0
  <2>1. gw' = [gw EXCEPT !.pc = "up"] /\ handed' = [handed EXCEPT ![q] = gw.cache[q]] /\ made' = made
    BY <1>4 DEF GetOrCreate, Gw
  <2>2. gw.cache[q] = keys.m[q]
    BY <1>4 DEF KeyInv, GatewayInv
  <2>3. KeyTypes'
    BY <1>1, <1>3, <2>1 DEF KeyInv, KeyTypes, GatewayState, KeyMap
  <2>4. DocInv'
    BY <1>1, <2>1 DEF KeyInv, DocInv
  <2>5. RetiredInv'
    BY <1>1, <1>3, <2>1, <2>2 DEF KeyInv, RetiredInv, Labels, Content, KeyMap
  <2>6. GatewayInv'
    BY <1>1, <1>3, <2>1 DEF KeyInv, GatewayInv, GatewayState
  <2> QED  BY <1>2, <2>3, <2>4, <2>5, <2>6 DEF KeyInv
<1>5. CASE gw' = [gw EXCEPT !.pc = "up"] /\ UNCHANGED <<handed, made>>
  <2>3. KeyTypes'
    BY <1>1, <1>3, <1>5 DEF KeyInv, KeyTypes, GatewayState
  <2>4. DocInv' /\ RetiredInv'
    BY <1>1, <1>5, DocsUntouched
  <2>6. GatewayInv'
    BY <1>1, <1>3, <1>5 DEF KeyInv, GatewayInv, GatewayState
  <2> QED  BY <1>2, <2>3, <2>4, <2>6 DEF KeyInv
<1>6. CASE /\ Readable(keys) /\ gw' = [gw EXCEPT !.pc = "up", !.cache = Fresh] /\ made' = made
           /\ handed' = handed \/ handed' = [handed EXCEPT ![q] = Fresh[q]]
  <2>1. Fresh = keys.m
    BY <1>3, <1>6
  <2>3. KeyTypes'
    BY <1>1, <1>3, <1>6 DEF KeyInv, KeyTypes, GatewayState, KeyMap
  <2>4. DocInv'
    BY <1>1, <1>6 DEF KeyInv, DocInv
  <2>5. RetiredInv'
    BY <1>1, <1>3, <1>6, <2>1 DEF KeyInv, RetiredInv, Labels, Content, KeyMap
  <2>6. GatewayInv'
    BY <1>1, <1>3, <1>6, <2>1 DEF KeyInv, GatewayInv, GatewayState
  <2> QED  BY <1>2, <2>3, <2>4, <2>5, <2>6 DEF KeyInv
<1>7. CASE /\ Readable(keys) /\ Fresh[q] = 0 /\ made' = made + 1 /\ handed' = handed
           /\ gw' = [gw EXCEPT !.pc = "persist", !.peer = q, !.next = [Fresh EXCEPT ![q] = made + 1]]
  <2>1. Fresh = keys.m
    BY <1>3, <1>7
  <2>2. [Fresh EXCEPT ![q] = made + 1] \in KeyMap
    BY <1>3 DEF KeyMap
  <2>3. KeyTypes'
    <3>1. gw' \in GatewayState
      BY <1>3, <1>7, <2>2 DEF GatewayState
    <3>2. made' \in Nat
      BY <1>3, <1>7
    <3> QED  BY <1>1, <1>7, <3>1, <3>2 DEF KeyInv, KeyTypes
  <2>4. DocInv'
    BY <1>1, <1>3, <1>7 DEF KeyInv, DocInv, KeyMap
  <2>5. RetiredInv' /\ RetiredAreOlder'
    BY <1>1, <1>3, <1>7 DEF KeyInv, RetiredInv, RetiredAreOlder, Labels, Content
  <2>6. gw'.pc = "persist" /\ gw'.peer = q /\ gw'.next = [Fresh EXCEPT ![q] = made + 1] /\ gw'.cache = gw.cache
    BY <1>3, <1>7 DEF GatewayState
  <2>7. gw'.next[q] = made' /\ \A p \in Peer \ {q} : gw'.next[p] = keys.m[p]
    BY <1>3, <1>7, <2>1, <2>6 DEF KeyMap
  <2>8. GatewayInv'
    BY <1>1, <1>7, <2>1, <2>5, <2>6, <2>7 DEF KeyInv, GatewayInv, Readable
  <2> QED  BY <1>2, <2>3, <2>4, <2>5, <2>8 DEF KeyInv
<1> QED
  BY <1>4, <1>5, <1>6, <1>7, <1>3 DEF GetOrCreate, Gw

LEMMA PersistKeeps == ASSUME KeyInv, Persist PROVE KeyInv'
<1>1. gw.pc = "persist" /\ UNCHANGED <<gens, lock, temps, cli, made, future, reviewed, handed, retired>>
  BY DEF Persist
<1>2. OneWriter' /\ CandidateInv'
  BY <1>1, NoCommand
<1>3. gw \in GatewayState /\ gw.next \in KeyMap /\ keys \in Doc /\ keys.m \in KeyMap /\ rot \in KeyMap /\ made \in Nat
  BY DEF KeyInv, KeyTypes, GatewayState, Doc
<1>4. CASE Gw("up") /\ UNCHANGED <<keys, rot>>
  <2>1. KeyTypes'
    <3>1. gw' \in GatewayState
      BY <1>3, <1>4 DEF GatewayState, Gw
    <3> QED  BY <1>1, <1>4, <3>1 DEF KeyInv, KeyTypes
  <2>2. DocInv' /\ RetiredInv'
    BY <1>1, <1>4, DocsUntouched
  <2>3. GatewayInv'
    BY <1>1, <1>3, <1>4 DEF KeyInv, GatewayInv, GatewayState, Gw
  <2> QED  BY <1>2, <2>1, <2>2, <2>3 DEF KeyInv
<1>5. CASE /\ keys' = Written(gw.next) /\ rot' = [rot EXCEPT ![gw.peer] = 0]
           /\ gw' = [gw EXCEPT !.pc = "label", !.cache = gw.next, !.next = None]
  <2>1. /\ Readable(keys) /\ gw.peer \in Peer /\ gw.next[gw.peer] = made /\ keys.m[gw.peer] = 0
        /\ \A q \in Peer \ {gw.peer} : gw.next[q] = keys.m[q]
        /\ RetiredAreOlder
    BY <1>1 DEF KeyInv, GatewayInv
  <2>2. keys'.st = "ok" /\ keys'.m = gw.next /\ None \in KeyMap
    BY <1>5 DEF Written, None, KeyMap
  <2>3. KeyTypes'
    BY <1>1, <1>3, <1>5, <2>2 DEF KeyInv, KeyTypes, GatewayState, Doc, Written, KeyMap
  <2>4. DocInv'
    <3>1. "keys" \notin future
      BY <2>1 DEF KeyInv, DocInv, Readable
    <3> QED  BY <1>1, <1>3, <2>1, <2>2, <3>1 DEF KeyInv, DocInv, KeyMap
  <2>5. RetiredInv'
    <3>1. \A q \in Peer, n \in Nat : <<q, n>> \in retired => n # 0 /\ n <= made /\ gw.next[q] # n
      BY <1>3, <2>1 DEF KeyInv, RetiredInv, RetiredAreOlder
    <3>2. \A q \in Peer : rot'[q] > 0 => q # gw.peer /\ rot'[q] = rot[q]
      BY <1>3, <1>5, <2>1 DEF KeyMap
    <3>3. Labels' = Labels
      BY <1>1 DEF Labels, Content, None
    <3>4. \A q \in Peer : rot'[q] > 0 => gw.next[q] # 0 /\ Labels[q] >= rot'[q]
      BY <2>1, <3>2 DEF KeyInv, RetiredInv
    <3>5. \A q \in Peer : handed[q] # 0 => gw.next[q] = handed[q]
      BY <2>1 DEF KeyInv, RetiredInv
    <3> QED  BY <1>1, <2>2, <3>1, <3>3, <3>4, <3>5 DEF RetiredInv
  <2>6. GatewayInv'
    BY <1>1, <1>3, <1>5, <2>1, <2>2 DEF GatewayInv, GatewayState
  <2> QED  BY <1>2, <2>3, <2>4, <2>5, <2>6 DEF KeyInv
<1> QED  BY <1>4, <1>5 DEF Persist

LEMMA LabelKeeps == ASSUME KeyInv, Label PROVE KeyInv'
<1>1. gw.pc = "label" /\ gw' = [gw EXCEPT !.pc = "up"] /\ UNCHANGED <<keys, lock, temps, cli, made, future, reviewed, retired, rot>>
  BY DEF Label, Gw
<1>2. OneWriter' /\ CandidateInv'
  BY <1>1, NoCommand
<1>3. /\ gw \in GatewayState /\ keys \in Doc /\ keys.m \in KeyMap /\ Labels \in KeyMap /\ rot \in KeyMap /\ handed \in KeyMap
  BY DEF KeyInv, KeyTypes, GatewayState, Doc, Labels, Content, None, KeyMap
<1>4. gw.peer \in Peer /\ gw.cache = keys.m /\ keys.st = "ok" /\ Fresh = keys.m
  BY <1>1 DEF KeyInv, GatewayInv, Fresh, Content
<1>5. Compact(Labels, Fresh) \in KeyMap /\ \A q \in Peer : keys.m[q] # 0 => Compact(Labels, Fresh)[q] = Labels[q]
  BY <1>3, <1>4 DEF Compact, KeyMap
<1>6. handed' = [handed EXCEPT ![gw.peer] = keys.m[gw.peer]]
  BY <1>4 DEF Label
<1>7. \/ gens' = gens
      \/ Labels[gw.peer] = 0 /\ gens' = Written([Compact(Labels, Fresh) EXCEPT ![gw.peer] = 1])
  BY DEF Label
<1>8. gens' \in Doc /\ Labels' \in KeyMap /\ \A q \in Peer : keys.m[q] # 0 => Labels'[q] >= Labels[q]
  <2>1. CASE gens' = gens
    BY <1>3, <2>1 DEF KeyInv, KeyTypes, Labels, Content, None, KeyMap
  <2>2. CASE Labels[gw.peer] = 0 /\ gens' = Written([Compact(Labels, Fresh) EXCEPT ![gw.peer] = 1])
    <3> DEFINE l == [Compact(Labels, Fresh) EXCEPT ![gw.peer] = 1]
    <3>1. l \in KeyMap
      BY <1>5 DEF KeyMap
    <3>2. \A q \in Peer : keys.m[q] # 0 => l[q] >= Labels[q]
      BY <1>3, <1>4, <1>5, <2>2 DEF KeyMap
    <3>3. gens' = [st |-> "ok", m |-> l] /\ Labels' = l
      BY <2>2 DEF Written, Labels, Content
    <3> QED  BY <3>1, <3>2, <3>3 DEF Doc
  <2> QED  BY <1>7, <2>1, <2>2
<1>9. KeyTypes'
  BY <1>1, <1>3, <1>6, <1>8, <1>4 DEF KeyInv, KeyTypes, GatewayState, KeyMap
<1>10. DocInv'
  BY <1>1 DEF KeyInv, DocInv
<1>11. RetiredInv'
  <2>1. \A q \in Peer : rot[q] > 0 => Labels'[q] >= rot[q]
    BY <1>3, <1>8 DEF KeyInv, RetiredInv, KeyMap
  <2>2. \A q \in Peer : handed'[q] # 0 => keys.m[q] = handed'[q]
    BY <1>3, <1>6 DEF KeyInv, RetiredInv, KeyMap
  <2> QED  BY <1>1, <2>1, <2>2 DEF KeyInv, RetiredInv
<1>12. GatewayInv'
  BY <1>1, <1>3 DEF KeyInv, GatewayInv, GatewayState
<1> QED  BY <1>2, <1>9, <1>10, <1>11, <1>12 DEF KeyInv
(***************************************************************************)
(* The command's steps.                                                    *)
(***************************************************************************)
\* A step of c that touches neither the documents nor another command, and leaves c
\* where it plans nothing.
LEMMA CommandAlone ==
    ASSUME KeyInv, KeyStoreConstants, NEW c \in Cli, NEW r \in Invocation,
           gw.pc = "down", gw' = gw, cli' = [cli EXCEPT ![c] = r],
           UNCHANGED <<keys, gens, made, future, retired, rot, handed>>, reviewed' \in SUBSET SUBSET Peer,
           r.pc \in {"lock", "done", "dead"} \/ (r.pc \in Holding /\ lock' = c),
           lock' = lock \/ lock = 0 \/ cli[c].pc \in Holding,
           Candidate(c)'
    PROVE  KeyInv'
<1>1. /\ cli'[c] = r /\ \A d \in Cli : d # c => cli'[d] = cli[d]
      /\ cli' \in [Cli -> Invocation]
  BY DEF KeyInv, KeyTypes
<1>2. KeyTypes'
  BY <1>1 DEF KeyInv, KeyTypes
<1>3. GatewayInv'
  BY GatewayIsDown DEF KeyInv, GatewayInv
<1>4. DocInv' /\ RetiredInv'
  BY DocsUntouched
<1>5. CandidateInv'
  BY <1>1, OtherCommands DEF CandidateInv
<1>6. OneWriter'
  <2>1. gw'.pc = "down"
    OBVIOUS
  <2>2. ASSUME NEW d \in Cli, cli'[d].pc \in Holding PROVE lock' = d
    <3>1. CASE d = c
      BY <1>1, <2>2, <3>1 DEF Holding
    <3>2. CASE d # c
      <4>1. lock = d
        BY <1>1, <2>2, <3>2 DEF KeyInv, OneWriter
      <4>2. lock # 0 /\ cli[c].pc \notin Holding
        BY <3>2, <4>1 DEF KeyInv, OneWriter, KeyStoreConstants
      <4> QED  BY <4>1, <4>2
    <3> QED  BY <3>1, <3>2
  <2> QED  BY <2>1, <2>2 DEF OneWriter
<1> QED  BY <1>2, <1>3, <1>4, <1>5, <1>6 DEF KeyInv

LEMMA ClearedIsIdle ==
    ASSUME NEW pc \in {"done", "dead"}, NEW out \in {"none", "dry", "refused", "failed", "ok", "cleanup"}
    PROVE  Cleared(pc, out) \in Invocation /\ Cleared(pc, out).pc = pc /\ Cleared(pc, out).out = out
BY DEF Cleared, Invocation, None, KeyMap

\* A command that ends, by a report or a crash
LEMMA EndKeeps ==
    ASSUME KeyInv, KeyStoreConstants, NEW c \in Cli,
           NEW pc \in {"done", "dead"}, NEW out \in {"none", "dry", "refused", "failed", "ok", "cleanup"},
           gw.pc = "down", gw' = gw, cli' = [cli EXCEPT ![c] = Cleared(pc, out)],
           UNCHANGED <<keys, gens, made, future, retired, rot, handed>>, reviewed' \in SUBSET SUBSET Peer,
           lock' = lock \/ cli[c].pc \in Holding
    PROVE  KeyInv'
<1>1. Cleared(pc, out) \in Invocation /\ Cleared(pc, out).pc = pc /\ Cleared(pc, out).out = out
  BY ClearedIsIdle
<1>2. cli'[c] = Cleared(pc, out)
  BY DEF KeyInv, KeyTypes
<1>3. Candidate(c)'
  BY <1>1, <1>2 DEF Candidate
<1> QED  BY <1>1, <1>3, CommandAlone

LEMMA DryRunKeeps == ASSUME KeyInv, KeyStoreConstants, NEW c \in Cli, DryRun(c) PROVE KeyInv'
<1>1. reviewed' \in SUBSET SUBSET Peer
  <2>1. Digest(Fresh) \in SUBSET Peer
    BY DEF Digest, Of
  <2> QED  BY <2>1 DEF KeyInv, KeyTypes, DryRun, Disk
<1> QED  BY <1>1, EndKeeps DEF DryRun, Report, Disk

LEMMA ApplyKeeps ==
    ASSUME KeyInv, KeyStoreConstants, NEW c \in Cli, NEW all \in BOOLEAN, NEW q \in Peer,
           NEW digest \in SUBSET Peer, NEW ignore \in BOOLEAN, Apply(c, all, q, digest, ignore)
    PROVE  KeyInv'
<1>1. gw.pc = "down" /\ UNCHANGED <<gw, made, future, keys, gens, lock, temps, reviewed, handed, retired, rot>>
  BY DEF Apply, Disk, Ghosts
<1>2. reviewed' \in SUBSET SUBSET Peer
  BY <1>1 DEF KeyInv, KeyTypes
<1>3. CASE Report(c, "refused")
  BY <1>1, <1>2, <1>3, EndKeeps DEF Report
<1>4. CASE cli' = [cli EXCEPT ![c].pc = "lock", ![c].all = all, ![c].peer = q, ![c].digest = digest]
  <2> DEFINE r == [cli[c] EXCEPT !.pc = "lock", !.all = all, !.peer = q, !.digest = digest]
  <2>1. cli[c] \in Invocation
    BY DEF KeyInv, KeyTypes
  <2>2. r \in Invocation /\ r.pc = "lock" /\ r.peer = q /\ r.out = cli[c].out
    BY <2>1 DEF Invocation
  <2>3. cli' = [cli EXCEPT ![c] = r] /\ cli'[c] = r
    BY <1>4 DEF KeyInv, KeyTypes
  <2>4. cli[c].out # "unverified"
    BY DEF KeyInv, CandidateInv, Candidate
  <2> HIDE DEF r
  <2>5. Candidate(c)'
    BY <2>2, <2>3, <2>4 DEF Candidate
  <2> QED  BY <1>1, <1>2, <2>2, <2>3, <2>5, CommandAlone
<1> QED  BY <1>3, <1>4 DEF Apply

LEMMA AcquireLockKeeps == ASSUME KeyInv, KeyStoreConstants, NEW c \in Cli, AcquireLock(c) PROVE KeyInv'
<1>1. /\ gw.pc = "down" /\ cli[c].pc = "lock"
      /\ UNCHANGED <<gw, made, future, keys, gens, temps, reviewed, handed, retired, rot>>
  BY DEF AcquireLock, Ghosts, KeyInv, OneWriter, Busy
<1>2. reviewed' \in SUBSET SUBSET Peer
  BY <1>1 DEF KeyInv, KeyTypes
<1>3. CASE Report(c, "refused") /\ UNCHANGED lock
  BY <1>1, <1>2, <1>3, EndKeeps DEF Report
<1>4. CASE lock = 0 /\ lock' = c /\ cli' = [cli EXCEPT ![c].pc = "plan"]
  <2> DEFINE r == [cli[c] EXCEPT !.pc = "plan"]
  <2>1. cli[c] \in Invocation
    BY DEF KeyInv, KeyTypes
  <2>2. r \in Invocation /\ r.pc = "plan" /\ r.peer = cli[c].peer /\ r.all = cli[c].all /\ r.out = cli[c].out
    BY <2>1 DEF Invocation
  <2>3. cli' = [cli EXCEPT ![c] = r] /\ cli'[c] = r
    BY <1>4 DEF KeyInv, KeyTypes
  <2>4. cli[c].out # "unverified" /\ (~cli[c].all => cli[c].peer \in Peer)
    BY <1>1 DEF KeyInv, CandidateInv, Candidate
  <2> HIDE DEF r
  <2>5. Candidate(c)'
    BY <2>2, <2>3, <2>4 DEF Candidate
  <2>6. r.pc \in Holding
    BY <2>2 DEF Holding
  <2> QED  BY <1>1, <1>2, <1>4, <2>2, <2>3, <2>5, <2>6, CommandAlone
<1> QED  BY <1>3, <1>4 DEF AcquireLock, LockFree

LEMMA ReadbackKeeps == ASSUME KeyInv, KeyStoreConstants, NEW c \in Cli, Readback(c) PROVE KeyInv'
<1>1. /\ gw.pc = "down" /\ cli[c].pc = "readback" /\ lock = c
      /\ UNCHANGED <<gw, made, future, keys, gens, lock, temps, reviewed, handed, retired, rot>>
  BY DEF Readback, Disk, Ghosts, KeyInv, OneWriter, Busy, Holding
<1>2. reviewed' \in SUBSET SUBSET Peer
  BY <1>1 DEF KeyInv, KeyTypes
<1>3. Committed(c) /\ gens = Written(cli[c].g)
  BY <1>1 DEF KeyInv, CandidateInv, Candidate
<1> DEFINE r == [cli[c] EXCEPT !.pc = "release", !.out = "ok"]
<1>4. cli[c] \in Invocation
  BY DEF KeyInv, KeyTypes
<1>5. /\ r \in Invocation /\ r.pc = "release" /\ r.out = "ok"
      /\ r.all = cli[c].all /\ r.k = cli[c].k /\ r.before = cli[c].before /\ r.digest = cli[c].digest
  BY <1>4 DEF Invocation
<1>6. cli' = [cli EXCEPT ![c] = r] /\ cli'[c] = r
  BY <1>3 DEF KeyInv, KeyTypes, Readback, Gives, Committed
<1> HIDE DEF r
<1>7. Committed(c)'
  BY <1>1, <1>3, <1>5, <1>6 DEF Committed
<1>8. Candidate(c)'
  BY <1>5, <1>6, <1>7 DEF Candidate
<1>9. r.pc \in Holding
  BY <1>5 DEF Holding
<1> QED  BY <1>1, <1>2, <1>5, <1>6, <1>8, <1>9, CommandAlone

LEMMA ReleaseLockKeeps == ASSUME KeyInv, KeyStoreConstants, NEW c \in Cli, ReleaseLock(c) PROVE KeyInv'
<1>1. /\ gw.pc = "down" /\ cli[c].pc \in Holding
      /\ UNCHANGED <<gw, made, future, keys, gens, temps, reviewed, handed, retired, rot>>
  BY DEF ReleaseLock, Ghosts, KeyInv, OneWriter, Busy, Holding
<1>2. reviewed' \in SUBSET SUBSET Peer
  BY <1>1 DEF KeyInv, KeyTypes
<1>3. cli[c].out \in {"none", "dry", "refused", "failed", "ok", "cleanup"}
  BY DEF KeyInv, KeyTypes, Invocation, CandidateInv, Candidate
<1> QED  BY <1>1, <1>2, <1>3, EndKeeps DEF ReleaseLock, Report

LEMMA CrashCliKeeps == ASSUME KeyInv, KeyStoreConstants, NEW c \in Cli, CrashCli(c) PROVE KeyInv'
<1>1. gw.pc = "down" /\ UNCHANGED <<gw, lock, made, future, keys, gens, reviewed, handed, retired, rot>>
  BY DEF CrashCli, Ghosts, KeyInv, OneWriter, Busy
<1>2. reviewed' \in SUBSET SUBSET Peer
  BY <1>1 DEF KeyInv, KeyTypes
<1> QED  BY <1>1, <1>2, EndKeeps DEF CrashCli

LEMMA InspectedKeeps == ASSUME KeyInv, Inspected PROVE KeyInv'
<1>1. OneWriter' /\ CandidateInv'
  BY NoCommand DEF Inspected
<1>2. DocInv' /\ RetiredInv'
  BY DocsUntouched DEF Inspected, Ghosts
<1>3. KeyTypes'
  BY DEF KeyInv, KeyTypes, Inspected, Ghosts
<1>4. GatewayInv'
  BY DEF KeyInv, GatewayInv, Inspected, None
<1> QED  BY <1>1, <1>2, <1>3, <1>4 DEF KeyInv
LEMMA CandidatesKeeps == ASSUME KeyInv, KeyStoreConstants, NEW c \in Cli, Candidates(c) PROVE KeyInv'
<1>1. /\ gw.pc = "down" /\ cli[c].pc = "plan" /\ lock = c
      /\ UNCHANGED <<gw, future, keys, gens, lock, temps, reviewed, handed, retired, rot>>
  BY DEF Candidates, Disk, Ghosts, KeyInv, OneWriter, Busy, Holding
<1>2. reviewed' \in SUBSET SUBSET Peer
  BY <1>1 DEF KeyInv, KeyTypes
<1>3. cli[c] \in Invocation /\ cli[c].out # "unverified" /\ (~cli[c].all => cli[c].peer \in Peer)
  BY <1>1 DEF KeyInv, KeyTypes, CandidateInv, Candidate
<1>4. CASE cli' = [cli EXCEPT ![c].pc = "release", ![c].out = "failed"] /\ UNCHANGED made
  <2> DEFINE r == [cli[c] EXCEPT !.pc = "release", !.out = "failed"]
  <2>1. r \in Invocation /\ r.pc = "release" /\ r.out = "failed"
    BY <1>3 DEF Invocation
  <2>2. cli' = [cli EXCEPT ![c] = r] /\ cli'[c] = r
    BY <1>4 DEF KeyInv, KeyTypes
  <2> HIDE DEF r
  <2>3. Candidate(c)' /\ r.pc \in Holding
    BY <2>1, <2>2 DEF Candidate, Holding
  <2> QED  BY <1>1, <1>2, <1>4, <2>1, <2>2, <2>3, CommandAlone
<1>5. CASE Readable(keys) /\ Allowed(c, Fresh) /\ made' = made + 1
           /\ cli' = [cli EXCEPT ![c].pc = "gens", ![c].before = Fresh,
                         ![c].k = [q \in Peer |-> IF q \in Targets(c, Fresh) THEN made + 1 ELSE Fresh[q]],
                         ![c].g = [q \in Peer |-> IF q \in Targets(c, Fresh) THEN Compact(Labels, Fresh)[q] + 1
                                                  ELSE Compact(Labels, Fresh)[q]]]
  <2> DEFINE T == Targets(c, Fresh)
             k == [q \in Peer |-> IF q \in T THEN made + 1 ELSE Fresh[q]]
             l == Compact(Labels, Fresh)
             g == [q \in Peer |-> IF q \in T THEN l[q] + 1 ELSE l[q]]
             r == [cli[c] EXCEPT !.pc = "gens", !.before = Fresh, !.k = k, !.g = g]
  <2>0. made' = made + 1 /\ Allowed(c, Fresh)
    BY <1>5, Zenon
  <2>1. keys.st = "ok" /\ Fresh = keys.m
    BY <1>3, <1>5 DEF Readable, Allowed, Fresh, Content, None, Of
  <2>2. made \in Nat /\ keys.m \in KeyMap /\ Labels \in KeyMap /\ rot \in KeyMap
    BY DEF KeyInv, KeyTypes, Doc, Labels, Content, None, KeyMap
  <2>3. T \in SUBSET Peer /\ \A q \in T : keys.m[q] # 0
    BY <1>3, <1>5, <2>1 DEF Targets, Allowed, Of
  <2>4. l \in KeyMap /\ \A q \in Peer : keys.m[q] # 0 => l[q] = Labels[q]
    BY <2>1, <2>2 DEF Compact, KeyMap
  <2> HIDE DEF T, l
  <2>5. k \in KeyMap /\ g \in KeyMap
    BY <2>1, <2>2, <2>4 DEF KeyMap
  <2>6. /\ \A q \in T : k[q] = made + 1 /\ g[q] > 0
        /\ \A q \in Peer \ T : k[q] = keys.m[q]
        /\ \A q \in Peer : g[q] >= l[q]
    BY <2>1, <2>2, <2>3, <2>4 DEF KeyMap
  <2> HIDE DEF k, g
  <2>7. /\ r \in Invocation /\ r.pc = "gens" /\ r.before = Fresh /\ r.k = k /\ r.g = g
        /\ r.all = cli[c].all /\ r.digest = cli[c].digest /\ r.peer = cli[c].peer /\ r.out = cli[c].out
    BY <1>3, <2>1, <2>2, <2>5 DEF Invocation
  <2>8. cli' = [cli EXCEPT ![c] = r]
    BY <1>5 DEF KeyInv, KeyTypes, T, k, g, l
  <2> HIDE DEF r
  <2>9. cli'[c] = r /\ cli' \in [Cli -> Invocation] /\ \A d \in Cli : d # c => cli'[d] = cli[d]
    BY <2>7, <2>8 DEF KeyInv, KeyTypes
  <2>10. Targets(c, cli[c].before)' = T
    BY <2>7, <2>9 DEF Targets, T
  <2>11. RetiredInv' /\ RetiredAreOlder'
    BY <1>1, <2>0, <2>2 DEF KeyInv, RetiredInv, RetiredAreOlder, Labels, Content
  <2>12. DocInv' /\ \A q \in Peer : keys.m[q] < made'
    BY <1>1, <2>0, <2>2 DEF KeyInv, DocInv, KeyMap
  <2>13. \A q \in Peer : rot[q] > 0 => g[q] >= rot[q]
    BY <2>2, <2>4, <2>5, <2>6 DEF KeyInv, RetiredInv, KeyMap
  <2>14. cli[c].all => Of(Fresh) = cli[c].digest
    BY <1>5 DEF Allowed, Digest
  <2>15. Planned(c)'
    <3>1. keys'.st = "ok" /\ cli'[c].before = keys'.m
      BY <1>1, <2>1, <2>7, <2>9
    <3>2. (cli'[c].all => Of(cli'[c].before) = cli'[c].digest)
      BY <2>7, <2>9, <2>14
    <3> QED  BY <1>1, <2>0, <2>3, <2>6, <2>7, <2>9, <2>10, <2>11, <2>12, <2>13, <3>1, <3>2 DEF Planned, Of
  <2>16. Candidate(c)'
    BY <1>3, <2>7, <2>9, <2>15 DEF Candidate
  <2>17. CandidateInv'
    <3>1. cli[c].pc \in Holding
      BY <1>1 DEF Holding
    <3> QED  BY <2>9, <2>16, <3>1, OtherCommands DEF CandidateInv
  <2>18. OneWriter'
    BY <1>1, <2>9 DEF KeyInv, OneWriter, Holding
  <2>19. GatewayInv'
    BY <1>1, GatewayIsDown DEF KeyInv, GatewayInv
  <2>20. KeyTypes'
    <3>1. made' \in Nat
      BY <2>0, <2>2
    <3> QED  BY <1>1, <2>9, <3>1 DEF KeyInv, KeyTypes
  <2> QED  BY <2>11, <2>12, <2>17, <2>18, <2>19, <2>20 DEF KeyInv
<1> QED  BY <1>4, <1>5 DEF Candidates

LEMMA WriteGensKeeps == ASSUME KeyInv, KeyStoreConstants, NEW c \in Cli, WriteGens(c) PROVE KeyInv'
<1>1. /\ gw.pc = "down" /\ cli[c].pc = "gens" /\ lock = c
      /\ UNCHANGED <<gw, made, future, keys, lock, temps, reviewed, handed, retired, rot>>
  BY DEF WriteGens, Ghosts, KeyInv, OneWriter, Busy, Holding
<1>2. reviewed' \in SUBSET SUBSET Peer
  BY <1>1 DEF KeyInv, KeyTypes
<1>3. cli[c] \in Invocation /\ cli[c].g \in KeyMap /\ Planned(c)
  BY <1>1 DEF KeyInv, KeyTypes, CandidateInv, Candidate, Invocation
<1>4. CASE Gives(c, "release", "failed") /\ UNCHANGED gens
  <2> DEFINE r == [cli[c] EXCEPT !.pc = "release", !.out = "failed"]
  <2>1. r \in Invocation /\ r.pc = "release" /\ r.out = "failed"
    BY <1>3 DEF Invocation
  <2>2. cli' = [cli EXCEPT ![c] = r] /\ cli'[c] = r
    BY <1>4 DEF KeyInv, KeyTypes, Gives
  <2> HIDE DEF r
  <2>3. Candidate(c)' /\ r.pc \in Holding
    BY <2>1, <2>2 DEF Candidate, Holding
  <2> QED  BY <1>1, <1>2, <1>4, <2>1, <2>2, <2>3, CommandAlone
<1>5. CASE Gives(c, "keys", "none") /\ gens' = Written(cli[c].g)
  <2> DEFINE r == [cli[c] EXCEPT !.pc = "keys", !.out = "none"]
  <2>1. /\ r \in Invocation /\ r.pc = "keys" /\ r.out = "none"
        /\ r.all = cli[c].all /\ r.digest = cli[c].digest /\ r.before = cli[c].before
        /\ r.peer = cli[c].peer /\ r.k = cli[c].k /\ r.g = cli[c].g
    BY <1>3 DEF Invocation
  <2>2. cli' = [cli EXCEPT ![c] = r]
    BY <1>5 DEF KeyInv, KeyTypes, Gives
  <2> HIDE DEF r
  <2>3. cli'[c] = r /\ cli' \in [Cli -> Invocation] /\ \A d \in Cli : d # c => cli'[d] = cli[d]
    BY <2>1, <2>2 DEF KeyInv, KeyTypes
  <2>4. Planned(c)'
    <3>1. Targets(c, cli[c].before)' = Targets(c, cli[c].before)
      BY <2>1, <2>3 DEF Targets, Of
    <3>2. RetiredAreOlder'
      BY <1>1, <1>3 DEF Planned, RetiredAreOlder
    <3> QED  BY <1>1, <1>3, <2>1, <2>3, <3>1, <3>2 DEF Planned, Of
  <2>5. Candidate(c)'
    BY <1>5, <2>1, <2>3, <2>4 DEF Candidate, Written
  <2>6. CandidateInv'
    <3>1. cli[c].pc \in Holding
      BY <1>1 DEF Holding
    <3> QED  BY <2>3, <2>5, <3>1, OtherCommands DEF CandidateInv
  <2>7. OneWriter'
    BY <1>1, <2>3 DEF KeyInv, OneWriter, Holding
  <2>8. GatewayInv'
    BY <1>1, GatewayIsDown DEF KeyInv, GatewayInv
  <2>9. KeyTypes'
    BY <1>1, <1>3, <1>5, <2>3 DEF KeyInv, KeyTypes, Doc, Written
  <2>10. DocInv'
    BY <1>1 DEF KeyInv, DocInv
  <2>11. Labels' = cli[c].g
    BY <1>5 DEF Labels, Content, Written
  <2>12. RetiredInv'
    BY <1>1, <1>3, <2>11 DEF KeyInv, RetiredInv, Planned
  <2> QED  BY <2>6, <2>7, <2>8, <2>9, <2>10, <2>12 DEF KeyInv
<1> QED  BY <1>4, <1>5 DEF WriteGens

LEMMA WriteKeysKeeps == ASSUME KeyInv, KeyStoreConstants, NEW c \in Cli, WriteKeys(c) PROVE KeyInv'
<1>1. /\ gw.pc = "down" /\ cli[c].pc = "keys" /\ lock = c
      /\ UNCHANGED <<gens, lock, temps, gw, made, future, reviewed>>
  BY DEF WriteKeys, KeyInv, OneWriter, Busy, Holding
<1>2. reviewed' \in SUBSET SUBSET Peer
  BY <1>1 DEF KeyInv, KeyTypes
<1>3. cli[c] \in Invocation /\ cli[c].k \in KeyMap /\ cli[c].g \in KeyMap /\ Planned(c) /\ gens = Written(cli[c].g)
  BY <1>1 DEF KeyInv, KeyTypes, CandidateInv, Candidate, Invocation
<1>4. CASE Gives(c, "release", "failed") /\ UNCHANGED <<keys, retired, rot, handed>>
  <2> DEFINE r == [cli[c] EXCEPT !.pc = "release", !.out = "failed"]
  <2>1. r \in Invocation /\ r.pc = "release" /\ r.out = "failed"
    BY <1>3 DEF Invocation
  <2>2. cli' = [cli EXCEPT ![c] = r] /\ cli'[c] = r
    BY <1>4 DEF KeyInv, KeyTypes, Gives
  <2> HIDE DEF r
  <2>3. Candidate(c)' /\ r.pc \in Holding
    BY <2>1, <2>2 DEF Candidate, Holding
  <2> QED  BY <1>1, <1>2, <1>4, <2>1, <2>2, <2>3, CommandAlone
<1> DEFINE hit == Targets(c, cli[c].before)
<1>5. CASE /\ Gives(c, "readback", "none") /\ keys' = Written(cli[c].k)
           /\ retired' = retired \cup {<<q, keys.m[q]>> : q \in hit}
           /\ rot' = [q \in Peer |-> IF q \in hit THEN cli[c].g[q] ELSE rot[q]]
           /\ handed' = [q \in Peer |-> IF q \in hit THEN 0 ELSE handed[q]]
  <2> DEFINE r == [cli[c] EXCEPT !.pc = "readback", !.out = "none"]
  <2>1. /\ r \in Invocation /\ r.pc = "readback" /\ r.out = "none"
        /\ r.all = cli[c].all /\ r.digest = cli[c].digest /\ r.before = cli[c].before
        /\ r.peer = cli[c].peer /\ r.k = cli[c].k /\ r.g = cli[c].g
    BY <1>3 DEF Invocation
  <2>2. cli' = [cli EXCEPT ![c] = r]
    BY <1>5 DEF KeyInv, KeyTypes, Gives
  <2> HIDE DEF r
  <2>3. cli'[c] = r /\ cli' \in [Cli -> Invocation] /\ \A d \in Cli : d # c => cli'[d] = cli[d]
    BY <2>1, <2>2 DEF KeyInv, KeyTypes
  <2>4. /\ hit \in SUBSET Peer /\ cli[c].before = keys.m /\ keys.st = "ok"
        /\ \A q \in hit : keys.m[q] # 0 /\ cli[c].k[q] = made /\ cli[c].g[q] > 0
        /\ \A q \in Peer \ hit : cli[c].k[q] = keys.m[q]
        /\ \A q \in Peer : keys.m[q] < made
        /\ RetiredAreOlder
        /\ \A q \in Peer : rot[q] > 0 => cli[c].g[q] >= rot[q]
    BY <1>3 DEF Planned
  <2>5. cli[c].all => hit = cli[c].digest
    BY <1>3 DEF Planned, Targets
  <2> HIDE DEF hit
  <2>6. made \in Nat /\ keys.m \in KeyMap /\ rot \in KeyMap /\ handed \in KeyMap /\ retired \in SUBSET (Peer \X Nat)
    BY DEF KeyInv, KeyTypes, Doc
  <2>7. keys'.st = "ok" /\ keys'.m = cli[c].k /\ Labels' = cli[c].g
    BY <1>1, <1>3, <1>5 DEF Written, Labels, Content
  <2>8. KeyTypes'
    <3>1. rot' \in KeyMap /\ handed' \in KeyMap
      BY <1>3, <1>5, <2>6 DEF KeyMap
    <3>2. retired' \in SUBSET (Peer \X Nat)
      BY <1>5, <2>4, <2>6 DEF KeyMap
    <3>3. keys' \in Doc
      BY <1>3, <1>5 DEF Doc, Written
    <3> QED  BY <1>1, <2>3, <3>1, <3>2, <3>3 DEF KeyInv, KeyTypes
  <2>9. Committed(c)'
    <3>1. {q \in Peer : cli[c].k[q] # cli[c].before[q]} = hit
      <4>1. \A q \in hit : cli[c].k[q] # keys.m[q]
        BY <2>4, <2>6 DEF KeyMap
      <4> QED  BY <2>4, <4>1
    <3> QED  BY <1>5, <2>1, <2>3, <2>5, <3>1 DEF Committed, Written
  <2>10. Candidate(c)'
    BY <1>1, <1>3, <2>1, <2>3, <2>9 DEF Candidate, Written
  <2>11. CandidateInv'
    <3>1. cli[c].pc \in Holding
      BY <1>1 DEF Holding
    <3> QED  BY <2>3, <2>10, <3>1, OtherCommands DEF CandidateInv
  <2>12. OneWriter'
    BY <1>1, <2>3 DEF KeyInv, OneWriter, Holding
  <2>13. GatewayInv'
    BY <1>1, GatewayIsDown
  <2>14. DocInv'
    <3>1. "keys" \notin future
      BY <2>4 DEF KeyInv, DocInv
    <3>2. \A q \in Peer : cli[c].k[q] <= made
      BY <2>4, <2>6 DEF KeyMap
    <3> QED  BY <1>1, <2>7, <3>1, <3>2 DEF KeyInv, DocInv
  <2>15. RetiredInv'
    <3>1. ASSUME NEW q \in Peer, NEW n \in Nat, <<q, n>> \in retired' PROVE n # 0 /\ n <= made /\ cli[c].k[q] # n
      <4>1. CASE <<q, n>> \in retired
        <5>1. n < made /\ n # 0 /\ keys.m[q] # n
          BY <4>1, <2>4 DEF KeyInv, RetiredInv, RetiredAreOlder
        <5> QED  BY <2>4, <2>6, <5>1
      <4>2. CASE q \in hit /\ n = keys.m[q]
        BY <2>4, <2>6, <4>2 DEF KeyMap
      <4> QED  BY <1>5, <3>1, <4>1, <4>2
    <3>2. ASSUME NEW q \in Peer, rot'[q] > 0 PROVE cli[c].k[q] # 0 /\ cli[c].g[q] >= rot'[q]
      <4>1. CASE q \in hit
        <5>1. rot'[q] = cli[c].g[q] /\ cli[c].k[q] = made
          BY <1>5, <2>4, <4>1
        <5> QED  BY <1>3, <5>1 DEF KeyInv, DocInv, KeyMap
      <4>2. CASE q \notin hit
        <5>1. rot'[q] = rot[q] /\ cli[c].k[q] = keys.m[q]
          BY <1>5, <2>4, <4>2
        <5> QED  BY <2>4, <3>2, <5>1 DEF KeyInv, RetiredInv
      <4> QED  BY <4>1, <4>2
    <3>3. ASSUME NEW q \in Peer, handed'[q] # 0 PROVE cli[c].k[q] = handed'[q]
      <4>1. q \notin hit /\ handed'[q] = handed[q]
        BY <1>5, <3>3
      <4> QED  BY <2>4, <3>3, <4>1 DEF KeyInv, RetiredInv
    <3> QED  BY <1>1, <2>7, <3>1, <3>2, <3>3 DEF RetiredInv
  <2> QED  BY <2>8, <2>11, <2>12, <2>13, <2>14, <2>15 DEF KeyInv
<1> QED  BY <1>4, <1>5 DEF WriteKeys

LEMMA KeyNextKeeps == ASSUME KeyInv, KeyStoreConstants, [Next]_vars PROVE KeyInv'
<1>1. CASE Gateway
  BY <1>1, StartKeeps, DownKeeps, ArchiveKeeps, PersistEmptyKeeps, ResetGenerationsKeeps, PersistKeeps,
     LabelKeeps, LoadKeeps, GetOrCreateKeeps DEF Gateway
<1>2. CASE Inspected
  BY <1>2, InspectedKeeps
<1>3. ASSUME NEW c \in Cli, Command(c) PROVE KeyInv'
  <2>1. ASSUME Invoked(c) PROVE KeyInv'
    <3>1. reviewed \in SUBSET SUBSET Peer
      BY DEF KeyInv, KeyTypes
    <3> QED  BY <2>1, <3>1, ApplyKeeps DEF Invoked
  <2> QED
    BY <1>3, <2>1, DryRunKeeps, AcquireLockKeeps, CandidatesKeeps, WriteGensKeeps, WriteKeysKeeps,
       ReadbackKeeps, ReleaseLockKeeps, CrashCliKeeps DEF Command
<1>4. CASE UNCHANGED vars
  <2>1. UNCHANGED <<keys, gens, lock, temps, gw, cli, reviewed, made, handed, retired, rot, future>>
    BY <1>4 DEF vars
  <2>2. KeyTypes' /\ OneWriter'
    BY <2>1 DEF KeyInv, KeyTypes, OneWriter, Busy
  <2>3. DocInv' /\ RetiredInv'
    BY <2>1, DocsUntouched
  <2>4. RetiredAreOlder' <=> RetiredAreOlder
    BY <2>1 DEF RetiredAreOlder
  <2>5. GatewayInv'
    BY <2>1, <2>4 DEF KeyInv, GatewayInv
  <2>6. ASSUME NEW c \in Cli PROVE Candidate(c)'
    <3>1. Planned(c)' <=> Planned(c)
      BY <2>1, <2>4 DEF Planned, Targets, Of
    <3>2. Committed(c)' <=> Committed(c)
      BY <2>1 DEF Committed, Written
    <3> QED  BY <2>1, <3>1, <3>2 DEF KeyInv, CandidateInv, Candidate, Written
  <2> QED  BY <2>2, <2>3, <2>5, <2>6 DEF KeyInv, CandidateInv
<1> QED  BY <1>1, <1>2, <1>3, <1>4 DEF Next

\* Whatever process dies between whatever two writes of
\* conversation-key-store.ts and rotate-conversation-key-cli.ts, a key that a rotation
\* replaced comes back nowhere, the one that replaced it has its generation on
\* record, and a key that a device holds stays the peer's key: for every number of
\* peers, of rotation commands and of keys, and every size of the documents.
THEOREM KeysSurviveRotation == StorageSpec => []KeysAreKept
<1> KeyStoreConstants
  BY KeyStoreAssumption
<1>1. KeyInv => KeysAreKept
  <2> SUFFICES ASSUME KeyInv PROVE KeysAreKept
    OBVIOUS
  <2>1. ASSUME NEW q \in Peer PROVE <<q, keys.m[q]>> \notin retired /\ <<q, gw.cache[q]>> \notin retired
    <3>1. keys.m[q] \in Nat /\ gw.cache[q] \in Nat
      BY DEF KeyInv, KeyTypes, Doc, GatewayState, KeyMap
    <3>2. gw.cache[q] # 0 => gw.cache[q] = keys.m[q]
      BY DEF KeyInv, GatewayInv
    <3> QED  BY <3>1, <3>2 DEF KeyInv, RetiredInv
  <2>2. RotationIsFinal
    BY <2>1 DEF KeyInv, RetiredInv, CandidateInv, Candidate, RotationIsFinal
  <2>3. ASSUME NEW c \in Cli, cli[c].pc = "release", cli[c].out = "ok", cli[c].all
        PROVE  {q \in Peer : keys.m[q] # cli[c].before[q]} = cli[c].digest
    BY <2>3 DEF KeyInv, CandidateInv, Candidate, Committed, Written
  <2>4. KeysSurvive
    BY <2>3 DEF KeyInv, RetiredInv, DocInv, KeysSurvive
  <2> QED  BY <2>2, <2>4 DEF KeysAreKept
<1>2. StorageInit => KeyInv
  BY KeyInitInv DEF StorageInit
<1>3. KeyInv /\ [StorageNext]_storageVars => KeyInv'
  <2>1. [StorageNext]_storageVars => [Next]_vars
    BY DEF StorageNext, storageVars
  <2> QED BY <2>1, KeyNextKeeps
<1> QED BY <1>1, <1>2, <1>3, PTL DEF StorageSpec

(***************************************************************************)
(* Migration.                                                              *)
(***************************************************************************)
Source == [dir : BOOLEAN, cred : Tuple \cup {0, M!Bad}, keys : {"none", "bad", "K"}]
TupleState ==
    [claimed : BOOLEAN, claim : Proc \cup {0}, src : Source, done : {"no", "migrated", "fresh"},
     cred : {"none", "old", "v2"}, keys : {"none", "empty", "K"}, meta : BOOLEAN, arch : BOOLEAN]
\* A process that writes nothing of its tuple's
Calm == {"mutex", "stale", "held", "unlock", "unlockFail", "claimed", "done", "failed"}
Process ==
    [pc : Calm \cup {"new", "empty", "archive", "unlink", "moving", "credential", "keys", "verify", "dead"},
     mode : {"none", "move", "resume", "exact", "setAside"}, seen : Source, old : BOOLEAN,
     keys : {"none", "empty", "K"}]
MigrationTypes ==
    /\ legacy \in Source /\ aside \in BOOLEAN
    /\ tup \in [Tuple -> TupleState] /\ proc \in [Proc -> Process]

\* The v1 directory is in one place: where it was, or moved under one tuple's claim.
OneSource ==
    /\ ~legacy.dir => legacy = M!NoDir
    /\ \A s \in Tuple : /\ tup[s].src.dir => legacy = M!NoDir /\ \A o \in Tuple \ {s} : ~tup[o].src.dir
                        /\ ~tup[s].src.dir => tup[s].src = M!NoDir
\* What a tuple has published is what its source held.
TupleOK(s) ==
    /\ M!LegacySource(tup[s]).cred = s /\ M!LegacySource(tup[s]).keys = "K" => tup[s].keys # "empty"
    /\ tup[s].keys = "K" => tup[s].src.keys = "K"
    /\ tup[s].meta => tup[s].cred # "none" \/ tup[s].arch
    /\ tup[s].done # "no" => /\ tup[s].cred = "v2" /\ tup[s].keys = M!Adopts(tup[s].src.keys)
                             /\ tup[s].src.dir \/ ~legacy.dir
TupleInv == \A s \in Tuple : TupleOK(s)
AsideInv ==
    aside => /\ legacy.keys # "K" /\ legacy.cred \notin Tuple
             /\ \A s \in Tuple : tup[s].src.keys # "K" /\ tup[s].src.cred \notin Tuple

\* An exact source: what the process inspected is still there, or in its archive.
ExactOK(p) ==
    /\ proc[p].keys = M!Adopts(proc[p].seen.keys)
    /\ ~proc[p].seen.dir => proc[p].seen = M!NoDir /\ legacy = M!NoDir /\ tup[TupleOf(p)].src = M!NoDir
    /\ proc[p].old => proc[p].seen.dir /\ tup[TupleOf(p)].src = proc[p].seen
    /\ tup[TupleOf(p)].arch \/ tup[TupleOf(p)].cred # "none"
    /\ proc[p].pc = "unlink" => tup[TupleOf(p)].arch
    /\ proc[p].pc \in {"credential", "keys", "verify"} /\ proc[p].seen.dir => tup[TupleOf(p)].src = proc[p].seen
\* No process publishes an empty store over keys that prove a tuple, and one that
\* publishes keys has them from its tuple's archive.
ProcOK(p) ==
    /\ proc[p].pc \in {"archive", "unlink", "moving"} => proc[p].mode = "exact"
    /\ proc[p].mode = "exact" => ExactOK(p)
    /\ proc[p].mode = "setAside" => proc[p].seen.cred \notin Tuple /\ proc[p].seen.keys # "none"
    /\ proc[p].pc = "empty" => legacy.keys = "none" /\ \A s \in Tuple : tup[s].src.keys = "none"
    /\ proc[p].pc \in {"keys", "verify"} /\ proc[p].mode # "exact" =>
          tup[TupleOf(p)].src.dir /\ proc[p].keys = M!Adopts(tup[TupleOf(p)].src.keys)
ProcInv == \A p \in Proc : ProcOK(p)
MigrationInv == MigrationTypes /\ OneSource /\ TupleInv /\ AsideInv /\ ProcInv

(***************************************************************************)
(* A step is one process's, and writes at most its tuple's files.          *)
(***************************************************************************)
OnlyProcess(p) == proc' \in [Proc -> Process] /\ \A q \in Proc \ {p} : proc'[q] = proc[q]
\* What the other processes of the tuple rely on stays: the archive, and a proof.
Grows(s) ==
    /\ tup' \in [Tuple -> TupleState] /\ \A o \in Tuple \ {s} : tup'[o] = tup[o]
    /\ tup'[s].src = tup[s].src
    /\ tup[s].arch => tup'[s].arch
    /\ tup[s].arch \/ tup[s].cred # "none" => tup'[s].arch \/ tup'[s].cred # "none"

LEMMA SourcesStay ==
    ASSUME MigrationInv, NEW s \in Tuple, Grows(s)
    PROVE  \A o \in Tuple : tup'[o].src = tup[o].src
BY DEF Grows

LEMMA TupleStep ==
    ASSUME MigrationInv, MigrationConstants, NEW p \in Proc, NEW s \in Tuple, OnlyProcess(p), Grows(s),
           UNCHANGED <<legacy, aside>>, TupleOK(s)', ProcOK(p)'
    PROVE  MigrationInv'
<1>1. \A o \in Tuple : tup'[o].src = tup[o].src
  BY SourcesStay
<1>2. MigrationTypes'
  BY DEF MigrationInv, MigrationTypes, OnlyProcess, Grows
<1>3. OneSource'
  BY <1>1 DEF MigrationInv, OneSource, M!NoDir
<1>4. TupleInv'
  <2>1. ASSUME NEW o \in Tuple, o # s PROVE TupleOK(o)'
    BY <2>1 DEF MigrationInv, TupleInv, TupleOK, Grows, M!LegacySource
  <2> QED  BY <2>1 DEF TupleInv
<1>5. AsideInv'
  BY <1>1 DEF MigrationInv, AsideInv
<1>6. ProcInv'
  <2>1. ASSUME NEW q \in Proc, q # p PROVE ProcOK(q)'
    <3>1. proc'[q] = proc[q] /\ ProcOK(q) /\ TupleOf(q) \in Tuple
      BY <2>1 DEF OnlyProcess, MigrationInv, ProcInv, MigrationConstants
    <3>2. /\ tup[TupleOf(q)].arch => tup'[TupleOf(q)].arch
          /\ tup[TupleOf(q)].arch \/ tup[TupleOf(q)].cred # "none"
                => tup'[TupleOf(q)].arch \/ tup'[TupleOf(q)].cred # "none"
      BY <3>1 DEF Grows
    <3>3. ExactOK(q) => ExactOK(q)'
      BY <1>1, <3>1, <3>2 DEF ExactOK, M!NoDir
    <3> QED  BY <1>1, <3>1, <3>3 DEF ProcOK
  <2> QED  BY <2>1 DEF ProcInv
<1> QED  BY <1>2, <1>3, <1>4, <1>5, <1>6 DEF MigrationInv

LEMMA GotoStep ==
    ASSUME MigrationInv, NEW p \in Proc, NEW pc \in Calm \cup {"empty", "archive", "unlink", "moving", "credential", "keys", "verify"},
           M!Goto(p, pc)
    PROVE  /\ OnlyProcess(p) /\ proc'[p].pc = pc /\ proc'[p].mode = proc[p].mode
           /\ proc'[p].seen = proc[p].seen /\ proc'[p].old = proc[p].old /\ proc'[p].keys = proc[p].keys
BY DEF MigrationInv, MigrationTypes, M!Goto, OnlyProcess, Process, Calm

\* A process that goes on where it writes nothing
LEMMA CalmProcess ==
    ASSUME MigrationInv, MigrationConstants, NEW p \in Proc, NEW pc \in Calm, M!Goto(p, pc),
           Grows(TupleOf(p)), legacy' = legacy
    PROVE  OnlyProcess(p) /\ ProcOK(p)'
<1>1. /\ OnlyProcess(p) /\ proc'[p].pc = pc /\ proc'[p].mode = proc[p].mode
      /\ proc'[p].seen = proc[p].seen /\ proc'[p].old = proc[p].old /\ proc'[p].keys = proc[p].keys
  BY GotoStep
<1>2. ProcOK(p) /\ TupleOf(p) \in Tuple
  BY DEF MigrationInv, ProcInv, MigrationConstants
<1>3. pc \notin {"archive", "unlink", "moving", "empty", "credential", "keys", "verify"}
  BY DEF Calm
<1>4. ExactOK(p) => ExactOK(p)'
  BY <1>1, <1>2, <1>3 DEF ExactOK, Grows, M!NoDir
<1> QED  BY <1>1, <1>2, <1>3, <1>4 DEF ProcOK

LEMMA TuplesStay ==
    ASSUME MigrationInv, NEW s \in Tuple, UNCHANGED <<legacy, tup>>
    PROVE  Grows(s) /\ TupleOK(s)'
BY DEF MigrationInv, MigrationTypes, TupleInv, TupleOK, Grows, M!LegacySource, M!Adopts

LEMMA CalmStep ==
    ASSUME MigrationInv, MigrationConstants, NEW p \in Proc, NEW pc \in Calm, M!Goto(p, pc),
           UNCHANGED <<legacy, aside, tup>>
    PROVE  MigrationInv'
<1>1. TupleOf(p) \in Tuple
  BY DEF MigrationConstants
<1> QED  BY <1>1, TuplesStay, CalmProcess, TupleStep

LEMMA MigrationInitInv == ASSUME MigrationConstants PROVE M!Init => MigrationInv
<1> SUFFICES ASSUME M!Init PROVE MigrationInv
  OBVIOUS
<1>1. M!NoDir \in Source
  BY DEF M!NoDir, Source
<1>2. /\ legacy \in Source /\ (~legacy.dir => legacy = M!NoDir) /\ aside = FALSE
  BY <1>1 DEF M!Init, Source
<1>3. PICK exact \in SUBSET Tuple :
          tup = [s \in Tuple |-> [claimed |-> FALSE, claim |-> 0, src |-> M!NoDir, done |-> "no",
                    cred |-> IF s \in exact THEN "old" ELSE "none", keys |-> "none",
                    meta |-> FALSE, arch |-> FALSE]]
  BY DEF M!Init
<1>4. /\ tup \in [Tuple -> TupleState]
      /\ \A s \in Tuple : /\ tup[s].src = M!NoDir /\ tup[s].keys = "none" /\ tup[s].done = "no" /\ ~tup[s].meta
  BY <1>1, <1>3 DEF TupleState
<1>5. proc \in [Proc -> Process] /\ \A p \in Proc : proc[p].pc = "new" /\ proc[p].mode = "none"
  BY <1>1 DEF M!Init, Process
<1>6. OneSource
  BY <1>2, <1>4 DEF OneSource, M!NoDir
<1>7. TupleInv
  BY <1>4 DEF TupleInv, TupleOK
<1>8. AsideInv /\ ProcInv
  BY <1>2, <1>5 DEF AsideInv, ProcInv, ProcOK
<1> QED  BY <1>2, <1>4, <1>5, <1>6, <1>7, <1>8 DEF MigrationInv, MigrationTypes
(***************************************************************************)
(* The steps up to the claim.                                              *)
(***************************************************************************)
LEMMA PlanStep ==
    ASSUME MigrationInv, MigrationConstants, NEW p \in Proc, NEW mode \in {"move", "resume", "exact", "setAside"},
           NEW seen \in Source, NEW k \in {"empty", "K"}, M!Plan(p, mode, seen, k), UNCHANGED <<legacy, aside, tup>>,
           mode = "setAside" => seen.cred \notin Tuple /\ seen.keys # "none",
           mode = "exact" => /\ k = M!Adopts(seen.keys)
                             /\ ~seen.dir => seen = M!NoDir /\ legacy = M!NoDir /\ tup[TupleOf(p)].src = M!NoDir
                             /\ tup[TupleOf(p)].src.dir => seen = tup[TupleOf(p)].src
                             /\ tup[TupleOf(p)].arch \/ tup[TupleOf(p)].cred # "none"
    PROVE  MigrationInv'
<1> DEFINE r == [pc |-> "mutex", mode |-> mode, seen |-> seen, old |-> tup[TupleOf(p)].src.dir, keys |-> k]
<1>1. TupleOf(p) \in Tuple /\ tup[TupleOf(p)].src.dir \in BOOLEAN
  BY DEF MigrationConstants, MigrationInv, MigrationTypes, TupleState, Source
<1>2. r \in Process
  BY <1>1 DEF Process, Calm
<1>3. OnlyProcess(p) /\ proc'[p] = r
  BY <1>2 DEF MigrationInv, MigrationTypes, M!Plan, M!T, OnlyProcess
<1>4. mode = "exact" => ExactOK(p)'
  BY <1>3 DEF ExactOK, M!NoDir
<1>5. ProcOK(p)'
  BY <1>3, <1>4 DEF ProcOK
<1> QED  BY <1>1, <1>3, <1>5, TuplesStay, TupleStep

LEMMA InspectKeeps == ASSUME MigrationInv, MigrationConstants, NEW p \in Proc, M!Inspect(p) PROVE MigrationInv'
<1> DEFINE s == TupleOf(p)
<1>1. s \in Tuple /\ legacy \in Source /\ tup[s].src \in Source /\ UNCHANGED <<legacy, aside, tup>>
  BY DEF MigrationConstants, MigrationInv, MigrationTypes, TupleState, M!Inspect, M!Same
<1>2. ASSUME M!Goto(p, "done") \/ M!Fail(p) PROVE MigrationInv'
  BY <1>1, <1>2, CalmStep DEF M!Fail, Calm
<1>3. ASSUME NEW k PROVE M!Adopts(k) \in {"empty", "K"}
  BY DEF M!Adopts
<1>4. ASSUME M!InspectExact(p) PROVE MigrationInv'
  <2> DEFINE from == M!LegacySource(tup[s])
  <2>1. CASE M!Fail(p)
    BY <1>2, <2>1
  <2>2. CASE M!Plan(p, "exact", from, M!Adopts(from.keys)) /\ M!ExactOwned(tup[s])
    <3>1. from \in Source /\ (tup[s].src.dir => from = tup[s].src)
      BY <1>1 DEF M!LegacySource
    <3>2. ~from.dir => from = M!NoDir /\ legacy = M!NoDir /\ tup[s].src = M!NoDir
      BY <1>1 DEF M!LegacySource, MigrationInv, OneSource
    <3>3. tup[s].arch \/ tup[s].cred # "none"
      BY <2>2 DEF M!ExactOwned
    <3>4. M!Plan(p, "exact", from, M!Adopts(from.keys))
      BY <2>2
    <3> HIDE DEF from
    <3> QED  BY <1>1, <1>3, <3>1, <3>2, <3>3, <3>4, PlanStep
  <2> QED  BY <1>4, <2>1, <2>2 DEF M!InspectExact, M!T
<1>5. ASSUME M!InspectLegacy(p) PROVE MigrationInv'
  <2>1. CASE M!Plan(p, "move", legacy, M!Adopts(legacy.keys))
    BY <1>1, <1>3, <2>1, PlanStep
  <2>2. CASE M!Plan(p, "setAside", legacy, "empty") /\ ~M!OwnedByOther(s) /\ legacy.cred # s /\ legacy.keys # "none"
    <3>1. legacy.cred \notin Tuple
      BY <2>2 DEF M!OwnedByOther
    <3> QED  BY <1>1, <2>2, <3>1, PlanStep
  <2> QED  BY <1>2, <1>5, <2>1, <2>2 DEF M!InspectLegacy
<1>6. ASSUME M!Plan(p, "resume", tup[s].src, M!Adopts(tup[s].src.keys)) PROVE MigrationInv'
  BY <1>1, <1>3, <1>6, PlanStep
<1> QED  BY <1>2, <1>4, <1>5, <1>6 DEF M!Inspect, M!T

LEMMA MutexKeeps ==
    ASSUME MigrationInv, MigrationConstants, NEW p \in Proc,
           M!AcquireMutex(p) \/ M!ArchiveStaleMutex(p) \/ M!ReleaseMutex(p)
    PROVE  MigrationInv'
<1>1. PICK pc \in Calm : M!Goto(p, pc)
  BY DEF M!AcquireMutex, M!ArchiveStaleMutex, M!ReleaseMutex, M!Fail, Calm
<1>2. UNCHANGED <<legacy, aside, tup>>
  BY DEF M!AcquireMutex, M!ArchiveStaleMutex, M!ReleaseMutex
<1> QED  BY <1>1, <1>2, CalmStep

\* A process that dies or starts over
LEMMA ResetKeeps ==
    ASSUME MigrationInv, MigrationConstants, NEW p \in Proc, M!Crash(p) \/ M!Again(p)
    PROVE  MigrationInv'
<1>1. M!NoDir \in Source
  BY DEF M!NoDir, Source
<1>2. OnlyProcess(p) /\ proc'[p].pc \in {"dead", "new"} /\ proc'[p].mode = "none"
  <2>1. PICK pc \in {"dead", "new"} :
          proc' = [proc EXCEPT ![p] = [pc |-> pc, mode |-> "none", seen |-> M!NoDir, old |-> FALSE, keys |-> "none"]]
    BY DEF M!Crash, M!Again
  <2>2. [pc |-> pc, mode |-> "none", seen |-> M!NoDir, old |-> FALSE, keys |-> "none"] \in Process
    BY <1>1 DEF Process
  <2> QED  BY <2>1, <2>2 DEF MigrationInv, MigrationTypes, OnlyProcess
<1>3. ProcOK(p)'
  BY <1>2 DEF ProcOK
<1>4. TupleOf(p) \in Tuple /\ UNCHANGED <<legacy, aside, tup>>
  BY DEF MigrationConstants, M!Crash, M!Again, M!Same
<1> QED  BY <1>2, <1>3, <1>4, TuplesStay, TupleStep

\* A write to the tuple's own files that leaves its source as it was
LEMMA OwnFiles ==
    ASSUME MigrationInv, NEW s \in Tuple, NEW t \in TupleState, tup' = [tup EXCEPT ![s] = t], t.src = tup[s].src,
           tup[s].arch => t.arch, tup[s].arch \/ tup[s].cred # "none" => t.arch \/ t.cred # "none"
    PROVE  Grows(s) /\ tup'[s] = t
BY DEF MigrationInv, MigrationTypes, Grows

LEMMA ClaimKeeps == ASSUME MigrationInv, MigrationConstants, NEW p \in Proc, M!Claim(p) PROVE MigrationInv'
<1> DEFINE s == TupleOf(p)
<1>1. s \in Tuple /\ tup[s] \in TupleState /\ UNCHANGED <<legacy, aside>>
  BY DEF MigrationConstants, MigrationInv, MigrationTypes, M!Claim
<1>2. PICK pc \in {"unlock", "unlockFail"} : M!Goto(p, pc)
  BY DEF M!Claim
<1>3. CASE tup' = tup
  BY <1>1, <1>2, <1>3, CalmStep DEF Calm
<1>4. CASE tup' = [tup EXCEPT ![s].claimed = TRUE,
                       ![s].claim = IF M!T(p).claim \in {0, p} \/ ~M!Alive(M!T(p).claim) THEN p ELSE @]
  <2>1. PICK c \in Proc \cup {0} : tup' = [tup EXCEPT ![s].claimed = TRUE, ![s].claim = c]
    <3>1. tup[s].claim \in Proc \cup {0}
      BY <1>1 DEF TupleState
    <3> QED  BY <1>4, <3>1
  <2> DEFINE t == [tup[s] EXCEPT !.claimed = TRUE, !.claim = c]
  <2>2. /\ t \in TupleState /\ t.src = tup[s].src /\ t.arch = tup[s].arch /\ t.cred = tup[s].cred
        /\ t.keys = tup[s].keys /\ t.meta = tup[s].meta /\ t.done = tup[s].done
    BY <1>1 DEF TupleState
  <2>3. tup' = [tup EXCEPT ![s] = t]
    BY <1>1, <2>1 DEF MigrationInv, MigrationTypes
  <2> HIDE DEF t
  <2>4. Grows(s) /\ tup'[s] = t
    BY <1>1, <2>2, <2>3, OwnFiles
  <2>5. TupleOK(s)'
    BY <1>1, <2>2, <2>4 DEF MigrationInv, TupleInv, TupleOK, M!LegacySource
  <2>6. OnlyProcess(p) /\ ProcOK(p)'
    BY <1>1, <1>2, <2>4, CalmProcess DEF Calm
  <2> QED  BY <1>1, <2>4, <2>5, <2>6, TupleStep
<1> QED  BY <1>3, <1>4 DEF M!Claim
(***************************************************************************)
(* Keys that prove no tuple are set aside, and an empty store published.   *)
(***************************************************************************)
LEMMA SetAsideKeeps == ASSUME MigrationInv, MigrationConstants, NEW p \in Proc, M!SetAside(p) PROVE MigrationInv'
<1>1. UNCHANGED tup /\ proc[p].pc = "held" /\ proc[p].mode = "setAside" /\ tup \in [Tuple -> TupleState]
  BY DEF M!SetAside, M!At, MigrationInv, MigrationTypes
<1>2. CASE M!Goto(p, "unlockFail") /\ UNCHANGED <<legacy, aside>>
  BY <1>1, <1>2, CalmStep DEF Calm
<1>3. CASE /\ legacy = proc[p].seen /\ legacy' = [legacy EXCEPT !.keys = "none"]
           /\ aside' = (aside \/ legacy.keys = "K") /\ M!Goto(p, "empty")
  <2>1. legacy.cred \notin Tuple /\ legacy.keys # "none" /\ legacy \in Source
    BY <1>1, <1>3 DEF MigrationInv, MigrationTypes, ProcInv, ProcOK
  <2>2. legacy.dir /\ legacy # M!NoDir
    BY <2>1 DEF MigrationInv, OneSource, M!NoDir
  <2>3. legacy' \in Source /\ legacy'.dir /\ legacy'.cred = legacy.cred /\ legacy'.keys = "none"
    BY <1>3, <2>1, <2>2 DEF Source
  <2>4. \A s \in Tuple : ~tup[s].src.dir /\ tup[s].src = M!NoDir
    BY <2>2 DEF MigrationInv, OneSource
  <2>5. \A s \in Tuple : tup[s].src.keys = "none" /\ tup[s].src.cred = 0 /\ tup[s].keys # "K"
    <3>1. \A s \in Tuple : tup[s].src.keys = "none" /\ tup[s].src.cred = 0
      BY <2>4 DEF M!NoDir
    <3> QED  BY <3>1 DEF MigrationInv, TupleInv, TupleOK
  <2>6. /\ OnlyProcess(p) /\ proc'[p].pc = "empty" /\ proc'[p].mode = proc[p].mode
        /\ proc'[p].seen = proc[p].seen
    BY <1>3, GotoStep
  <2>7. MigrationTypes'
    BY <1>1, <1>3, <2>3, <2>6 DEF MigrationInv, MigrationTypes, OnlyProcess
  <2>8. OneSource'
    BY <1>1, <2>3, <2>4 DEF OneSource
  <2>9. TupleInv'
    <3>1. ASSUME NEW s \in Tuple PROVE TupleOK(s)'
      <4>1. tup'[s] = tup[s] /\ M!LegacySource(tup[s])' = legacy'
        BY <1>1, <2>4 DEF M!LegacySource
      <4> QED  BY <2>2, <2>3, <2>4, <4>1 DEF MigrationInv, TupleInv, TupleOK
    <3> QED  BY <3>1 DEF TupleInv
  <2>10. AsideInv'
    BY <1>1, <2>1, <2>3, <2>5 DEF AsideInv, MigrationConstants
  <2>11. ProcOK(p)'
    BY <1>1, <2>3, <2>5, <2>6 DEF MigrationInv, ProcInv, ProcOK
  <2>12. ASSUME NEW q \in Proc, q # p PROVE ProcOK(q)'
    <3>1. proc'[q] = proc[q] /\ ProcOK(q)
      BY <2>6, <2>12 DEF OnlyProcess, MigrationInv, ProcInv
    <3>2. proc[q].mode = "exact" => ExactOK(q)'
      BY <1>1, <2>2, <3>1 DEF ProcOK, ExactOK
    <3> QED  BY <1>1, <2>3, <2>5, <3>1, <3>2 DEF ProcOK
  <2> QED  BY <2>7, <2>8, <2>9, <2>10, <2>11, <2>12 DEF MigrationInv, ProcInv
<1> QED  BY <1>2, <1>3 DEF M!SetAside

LEMMA PublishEmptyKeeps == ASSUME MigrationInv, MigrationConstants, NEW p \in Proc, M!PublishEmpty(p) PROVE MigrationInv'
<1> DEFINE s == TupleOf(p)
           k == IF tup[s].keys = "none" THEN "empty" ELSE tup[s].keys
           t == [tup[s] EXCEPT !.keys = k]
<1>1. s \in Tuple /\ tup[s] \in TupleState /\ UNCHANGED <<legacy, aside>> /\ proc[p].pc = "empty"
  BY DEF MigrationConstants, MigrationInv, MigrationTypes, M!PublishEmpty, M!At
<1>2. PICK pc \in {"unlock", "unlockFail"} : M!Goto(p, pc)
  BY DEF M!PublishEmpty
<1>3. k \in {"empty", "K"} /\ (tup[s].keys # "none" => k = tup[s].keys) /\ (k = "K" => tup[s].keys = "K")
  BY <1>1 DEF TupleState
<1>4. tup' = [tup EXCEPT ![s] = t]
  BY <1>1 DEF MigrationInv, MigrationTypes, M!PublishEmpty
<1> HIDE DEF k
<1>5. /\ t \in TupleState /\ t.src = tup[s].src /\ t.arch = tup[s].arch /\ t.cred = tup[s].cred
      /\ t.keys = k /\ t.meta = tup[s].meta /\ t.done = tup[s].done
  BY <1>1, <1>3 DEF TupleState
<1> HIDE DEF t
<1>6. Grows(s) /\ tup'[s] = t
  BY <1>1, <1>4, <1>5, OwnFiles
<1>7. legacy.keys = "none" /\ tup[s].src.keys = "none"
  BY <1>1 DEF MigrationInv, ProcInv, ProcOK
<1>9. TupleOK(s) /\ (tup[s].done # "no" => tup[s].keys # "none")
  BY <1>1 DEF MigrationInv, TupleInv, TupleOK, M!Adopts
<1>10. TupleOK(s)'
  <2>1. M!LegacySource(tup[s])'.keys # "K"
    BY <1>1, <1>5, <1>6, <1>7 DEF M!LegacySource
  <2>2. tup'[s].keys = "K" => tup'[s].src.keys = "K"
    BY <1>3, <1>5, <1>6, <1>9 DEF TupleOK
  <2>3. tup'[s].meta => tup'[s].cred # "none" \/ tup'[s].arch
    BY <1>5, <1>6, <1>9 DEF TupleOK
  <2>4. tup'[s].done # "no" => /\ tup'[s].cred = "v2" /\ tup'[s].keys = M!Adopts(tup'[s].src.keys)
                               /\ tup'[s].src.dir \/ ~legacy'.dir
    BY <1>1, <1>3, <1>5, <1>6, <1>9 DEF TupleOK
  <2> QED  BY <2>1, <2>2, <2>3, <2>4 DEF TupleOK
<1>11. OnlyProcess(p) /\ ProcOK(p)'
  BY <1>1, <1>2, <1>6, CalmProcess DEF Calm
<1> QED  BY <1>1, <1>6, <1>10, <1>11, TupleStep

(***************************************************************************)
(* The exact source.                                                       *)
(***************************************************************************)
LEMMA PublishJournalKeeps == ASSUME MigrationInv, MigrationConstants, NEW p \in Proc, M!PublishJournal(p) PROVE MigrationInv'
<1> DEFINE s == TupleOf(p)
           t == [tup[s] EXCEPT !.meta = TRUE]
<1>1. /\ s \in Tuple /\ tup[s] \in TupleState /\ UNCHANGED <<legacy, aside>> /\ proc[p].mode = "exact"
      /\ ProcOK(p) /\ ExactOK(p)
  BY DEF MigrationConstants, MigrationInv, MigrationTypes, M!PublishJournal, ProcInv, ProcOK
<1>2. CASE M!Fail(p) /\ UNCHANGED tup
  BY <1>1, <1>2, CalmStep DEF M!Fail, Calm
<1>3. CASE tup' = [tup EXCEPT ![s].meta = TRUE] /\ M!Goto(p, "archive")
  <2>1. /\ t \in TupleState /\ t.src = tup[s].src /\ t.arch = tup[s].arch /\ t.cred = tup[s].cred
        /\ t.keys = tup[s].keys /\ t.done = tup[s].done
    BY <1>1 DEF TupleState
  <2>2. tup' = [tup EXCEPT ![s] = t]
    BY <1>1, <1>3 DEF MigrationInv, MigrationTypes
  <2> HIDE DEF t
  <2>3. Grows(s) /\ tup'[s] = t
    BY <1>1, <2>1, <2>2, OwnFiles
  <2>4. tup[s].arch \/ tup[s].cred # "none"
    BY <1>1 DEF ExactOK
  <2>5. TupleOK(s)'
    BY <1>1, <2>1, <2>3, <2>4 DEF MigrationInv, TupleInv, TupleOK, M!LegacySource
  <2>6. /\ OnlyProcess(p) /\ proc'[p].pc = "archive" /\ proc'[p].mode = proc[p].mode
        /\ proc'[p].seen = proc[p].seen /\ proc'[p].old = proc[p].old /\ proc'[p].keys = proc[p].keys
    BY <1>3, GotoStep
  <2>7. ExactOK(p)'
    BY <1>1, <2>1, <2>3, <2>6 DEF ExactOK, M!NoDir
  <2>8. ProcOK(p)'
    BY <1>1, <2>6, <2>7 DEF ProcOK
  <2> QED  BY <1>1, <2>3, <2>5, <2>6, <2>8, TupleStep
<1> QED  BY <1>2, <1>3 DEF M!PublishJournal

LEMMA ArchiveExactKeeps == ASSUME MigrationInv, MigrationConstants, NEW p \in Proc, M!ArchiveExact(p) PROVE MigrationInv'
<1> DEFINE s == TupleOf(p)
<1>1. /\ s \in Tuple /\ tup[s] \in TupleState /\ UNCHANGED <<legacy, aside>> /\ proc[p].mode = "exact"
      /\ ProcOK(p) /\ ExactOK(p)
  BY DEF MigrationConstants, MigrationInv, MigrationTypes, M!ArchiveExact, M!At, ProcInv, ProcOK
<1>2. CASE M!Fail(p) /\ tup' = [tup EXCEPT ![s].meta = FALSE]
  <2> DEFINE t == [tup[s] EXCEPT !.meta = FALSE]
  <2>1. /\ t \in TupleState /\ t.src = tup[s].src /\ t.arch = tup[s].arch /\ t.cred = tup[s].cred
        /\ t.keys = tup[s].keys /\ t.done = tup[s].done /\ t.meta = FALSE
    BY <1>1 DEF TupleState
  <2>2. tup' = [tup EXCEPT ![s] = t]
    BY <1>1, <1>2 DEF MigrationInv, MigrationTypes
  <2> HIDE DEF t
  <2>3. Grows(s) /\ tup'[s] = t
    BY <1>1, <2>1, <2>2, OwnFiles
  <2>4. TupleOK(s)'
    BY <1>1, <2>1, <2>3 DEF MigrationInv, TupleInv, TupleOK, M!LegacySource
  <2>5. OnlyProcess(p) /\ ProcOK(p)'
    BY <1>1, <1>2, <2>3, CalmProcess DEF Calm, M!Fail
  <2> QED  BY <1>1, <2>3, <2>4, <2>5, TupleStep
<1>3. CASE M!Goto(p, "unlink") /\ (tup' = [tup EXCEPT ![s].arch = TRUE] \/ (tup' = tup /\ tup[s].arch))
  <2> DEFINE t == [tup[s] EXCEPT !.arch = TRUE]
  <2>1. /\ t \in TupleState /\ t.src = tup[s].src /\ t.arch = TRUE /\ t.cred = tup[s].cred
        /\ t.keys = tup[s].keys /\ t.done = tup[s].done
    BY <1>1 DEF TupleState
  <2>2. tup' = [tup EXCEPT ![s] = t]
    BY <1>1, <1>3 DEF MigrationInv, MigrationTypes, TupleState
  <2> HIDE DEF t
  <2>3. Grows(s) /\ tup'[s] = t
    BY <1>1, <2>1, <2>2, OwnFiles
  <2>4. TupleOK(s)'
    BY <1>1, <2>1, <2>3 DEF MigrationInv, TupleInv, TupleOK, M!LegacySource
  <2>5. /\ OnlyProcess(p) /\ proc'[p].pc = "unlink" /\ proc'[p].mode = proc[p].mode
        /\ proc'[p].seen = proc[p].seen /\ proc'[p].old = proc[p].old /\ proc'[p].keys = proc[p].keys
    BY <1>3, GotoStep
  <2>6. ExactOK(p)'
    BY <1>1, <2>1, <2>3, <2>5 DEF ExactOK, M!NoDir
  <2>7. ProcOK(p)'
    BY <1>1, <2>5, <2>6 DEF ProcOK
  <2> QED  BY <1>1, <2>3, <2>4, <2>5, <2>7, TupleStep
<1> QED  BY <1>2, <1>3 DEF M!ArchiveExact, M!T

LEMMA UnlinkExactKeeps == ASSUME MigrationInv, MigrationConstants, NEW p \in Proc, M!UnlinkExact(p) PROVE MigrationInv'
<1> DEFINE s == TupleOf(p)
           c == IF tup[s].cred = "old" THEN "none" ELSE tup[s].cred
           t == [tup[s] EXCEPT !.cred = c]
<1>1. /\ s \in Tuple /\ tup[s] \in TupleState /\ UNCHANGED <<legacy, aside>> /\ proc[p].mode = "exact"
      /\ ProcOK(p) /\ ExactOK(p) /\ tup[s].arch /\ M!Goto(p, "moving")
  BY DEF MigrationConstants, MigrationInv, MigrationTypes, M!UnlinkExact, M!At, ProcInv, ProcOK, ExactOK
<1>2. c \in {"none", "old", "v2"} /\ (tup[s].cred = "v2" => c = "v2")
  BY <1>1 DEF TupleState
<1>3. tup' = [tup EXCEPT ![s] = t]
  BY <1>1 DEF MigrationInv, MigrationTypes, M!UnlinkExact
<1> HIDE DEF c
<1>4. /\ t \in TupleState /\ t.src = tup[s].src /\ t.arch = tup[s].arch /\ t.cred = c
      /\ t.keys = tup[s].keys /\ t.done = tup[s].done
  BY <1>1, <1>2 DEF TupleState
<1> HIDE DEF t
<1>5. Grows(s) /\ tup'[s] = t
  BY <1>1, <1>3, <1>4, OwnFiles
<1>6. TupleOK(s)'
  BY <1>1, <1>2, <1>4, <1>5 DEF MigrationInv, TupleInv, TupleOK, M!LegacySource
<1>7. /\ OnlyProcess(p) /\ proc'[p].pc = "moving" /\ proc'[p].mode = proc[p].mode
      /\ proc'[p].seen = proc[p].seen /\ proc'[p].old = proc[p].old /\ proc'[p].keys = proc[p].keys
  BY <1>1, GotoStep
<1>8. ExactOK(p)'
  BY <1>1, <1>4, <1>5, <1>7 DEF ExactOK, M!NoDir
<1>9. ProcOK(p)'
  BY <1>1, <1>7, <1>8 DEF ProcOK
<1> QED  BY <1>1, <1>5, <1>6, <1>7, <1>9, TupleStep
(***************************************************************************)
(* The move and what is published from it.                                 *)
(***************************************************************************)
LEMMA RenameKeeps ==
    ASSUME MigrationInv, MigrationConstants, NEW p \in Proc, M!Goto(p, "credential"), UNCHANGED aside,
           legacy.dir, legacy = proc[p].seen, tup' = [tup EXCEPT ![TupleOf(p)].src = legacy], legacy' = M!NoDir,
           proc[p].mode = "exact" => ~proc[p].old, proc[p].mode \in {"exact", "move", "resume"}
    PROVE  MigrationInv'
<1> DEFINE s == TupleOf(p)
           t == [tup[s] EXCEPT !.src = legacy]
<1>1. s \in Tuple /\ tup[s] \in TupleState /\ legacy \in Source /\ M!NoDir \in Source /\ tup \in [Tuple -> TupleState]
  BY DEF MigrationConstants, MigrationInv, MigrationTypes, M!NoDir, Source
<1>2. /\ t \in TupleState /\ t.src = legacy /\ t.arch = tup[s].arch /\ t.cred = tup[s].cred
      /\ t.keys = tup[s].keys /\ t.done = tup[s].done /\ t.meta = tup[s].meta
  BY <1>1 DEF TupleState
<1>3. tup' = [tup EXCEPT ![s] = t]
  BY <1>1
<1> HIDE DEF t
<1>4. tup' \in [Tuple -> TupleState] /\ tup'[s] = t /\ \A o \in Tuple \ {s} : tup'[o] = tup[o]
  BY <1>1, <1>2, <1>3
<1>5. ~M!NoDir.dir /\ M!NoDir.keys = "none" /\ M!NoDir.cred = 0 /\ 0 \notin Tuple
  BY DEF M!NoDir, MigrationConstants
<1>6. \A o \in Tuple : ~tup[o].src.dir /\ tup[o].src = M!NoDir
  BY <1>5 DEF MigrationInv, OneSource
<1>7. \A o \in Tuple : tup[o].keys # "K" /\ tup[o].done = "no"
  BY <1>1, <1>5, <1>6 DEF MigrationInv, TupleInv, TupleOK
<1>8. /\ OnlyProcess(p) /\ proc'[p].pc = "credential" /\ proc'[p].mode = proc[p].mode
      /\ proc'[p].seen = proc[p].seen /\ proc'[p].old = proc[p].old /\ proc'[p].keys = proc[p].keys
  BY GotoStep
<1>9. MigrationTypes'
  BY <1>1, <1>4, <1>8 DEF MigrationInv, MigrationTypes, OnlyProcess
<1>10. OneSource'
  BY <1>1, <1>2, <1>4, <1>5, <1>6 DEF OneSource
<1>11. TupleInv'
  <2>1. TupleOK(s)'
    <3>1. M!LegacySource(tup[s])' = legacy /\ M!LegacySource(tup[s]) = legacy
      BY <1>1, <1>2, <1>4, <1>6 DEF M!LegacySource
    <3> QED  BY <1>1, <1>2, <1>4, <1>7, <3>1 DEF MigrationInv, TupleInv, TupleOK
  <2>2. ASSUME NEW o \in Tuple, o # s PROVE TupleOK(o)'
    <3>1. M!LegacySource(tup[o])' = M!NoDir /\ tup'[o] = tup[o]
      BY <1>4, <1>6, <2>2 DEF M!LegacySource
    <3> QED  BY <1>5, <1>7, <3>1 DEF MigrationInv, TupleInv, TupleOK
  <2> QED  BY <2>1, <2>2 DEF TupleInv
<1>12. AsideInv'
  BY <1>1, <1>2, <1>4, <1>5 DEF MigrationInv, AsideInv
<1>13. ProcOK(p)'
  <2>1. proc[p].mode = "exact" => ExactOK(p)'
    <3>1. proc[p].mode = "exact" => ExactOK(p)
      BY DEF MigrationInv, ProcInv, ProcOK
    <3> QED  BY <1>1, <1>2, <1>4, <1>8, <3>1 DEF ExactOK
  <2> QED  BY <1>8, <2>1 DEF ProcOK
<1>14. ASSUME NEW q \in Proc, q # p PROVE ProcOK(q)'
  <2>1. proc'[q] = proc[q] /\ ProcOK(q) /\ TupleOf(q) \in Tuple
    BY <1>8, <1>14 DEF OnlyProcess, MigrationInv, ProcInv, MigrationConstants
  <2>2. ExactOK(q) => proc[q].seen.dir /\ ~proc[q].old /\ proc[q].pc \notin {"credential", "keys", "verify"}
    BY <1>5, <1>6, <2>1 DEF ExactOK
  <2>3. /\ tup'[TupleOf(q)].arch = tup[TupleOf(q)].arch
        /\ tup'[TupleOf(q)].cred = tup[TupleOf(q)].cred
    BY <1>2, <1>4, <2>1
  <2>4. ExactOK(q) => ExactOK(q)'
    BY <2>1, <2>2, <2>3 DEF ExactOK
  <2>5. proc[q].pc = "empty" => legacy'.keys = "none" /\ \A o \in Tuple : tup'[o].src.keys = "none"
    BY <1>2, <1>4, <1>5, <2>1 DEF ProcOK
  <2>6. ~(proc[q].pc \in {"keys", "verify"} /\ proc[q].mode # "exact")
    BY <1>6, <2>1 DEF ProcOK
  <2> QED  BY <2>1, <2>4, <2>5, <2>6 DEF ProcOK
<1> QED  BY <1>9, <1>10, <1>11, <1>12, <1>13, <1>14 DEF MigrationInv, ProcInv

LEMMA MoveSourceKeeps == ASSUME MigrationInv, MigrationConstants, NEW p \in Proc, M!MoveSource(p) PROVE MigrationInv'
<1> DEFINE s == TupleOf(p)
           rename == IF proc[p].mode = "exact" THEN proc[p].seen.dir /\ ~proc[p].old ELSE ~tup[s].src.dir
<1>1. /\ s \in Tuple /\ UNCHANGED aside /\ ProcOK(p) /\ proc[p].mode \in {"exact", "move", "resume"}
  BY DEF MigrationConstants, MigrationInv, M!MoveSource, M!At, ProcInv, ProcOK
<1>2. CASE M!Fail(p) /\ UNCHANGED <<legacy, tup>>
  BY <1>1, <1>2, CalmStep DEF M!Fail, Calm
<1>3. CASE /\ rename /\ legacy.dir /\ legacy = proc[p].seen /\ M!Goto(p, "credential")
           /\ tup' = [tup EXCEPT ![s].src = legacy] /\ legacy' = M!NoDir
  <2>1. proc[p].mode = "exact" => ~proc[p].old
    BY <1>3
  <2> QED  BY <1>1, <1>3, <2>1, RenameKeeps
<1>4. CASE ~rename /\ UNCHANGED <<legacy, tup>> /\ M!Goto(p, "credential")
  <2>1. /\ OnlyProcess(p) /\ proc'[p].pc = "credential" /\ proc'[p].mode = proc[p].mode
        /\ proc'[p].seen = proc[p].seen /\ proc'[p].old = proc[p].old /\ proc'[p].keys = proc[p].keys
    BY <1>4, GotoStep
  <2>2. proc[p].mode = "exact" => ExactOK(p)'
    BY <1>1, <1>4, <2>1 DEF ProcOK, ExactOK, M!NoDir
  <2>3. ProcOK(p)'
    BY <1>1, <2>1, <2>2 DEF ProcOK
  <2> QED  BY <1>1, <1>4, <2>1, <2>3, TuplesStay, TupleStep
<1> QED  BY <1>2, <1>3, <1>4 DEF M!MoveSource, M!T, M!MoveIsSafe
\* What a process past its tuple's credential is to publish
LEMMA HasTheKeys ==
    ASSUME MigrationInv, MigrationConstants, NEW p \in Proc, proc[p].pc \in {"keys", "verify"}
    PROVE  /\ proc[p].keys = M!Adopts(tup[TupleOf(p)].src.keys)
           /\ tup[TupleOf(p)].src.dir \/ legacy = M!NoDir
<1>1. ProcOK(p)
  BY DEF MigrationInv, ProcInv
<1>2. CASE proc[p].mode = "exact"
  BY <1>1, <1>2 DEF ProcOK, ExactOK, M!NoDir
<1>3. CASE proc[p].mode # "exact"
  BY <1>1, <1>3 DEF ProcOK
<1> QED  BY <1>2, <1>3

LEMMA PublishCredentialKeeps ==
    ASSUME MigrationInv, MigrationConstants, NEW p \in Proc, M!PublishCredential(p) PROVE MigrationInv'
<1> DEFINE s == TupleOf(p)
           t == [tup[s] EXCEPT !.cred = "v2"]
           k == IF proc[p].mode = "exact" THEN proc[p].keys ELSE M!Adopts(tup[s].src.keys)
           r == [proc[p] EXCEPT !.pc = "keys", !.keys = k]
<1>1. /\ s \in Tuple /\ tup[s] \in TupleState /\ proc[p] \in Process /\ UNCHANGED <<legacy, aside>>
      /\ ProcOK(p) /\ proc[p].pc = "credential"
  BY DEF MigrationConstants, MigrationInv, MigrationTypes, M!PublishCredential, M!At, ProcInv
<1>2. CASE M!Fail(p) /\ UNCHANGED tup
  BY <1>1, <1>2, CalmStep DEF M!Fail, Calm
<1>3. CASE /\ proc[p].mode = "exact" \/ M!Proven(p)
           /\ tup' = [tup EXCEPT ![s].cred = "v2"]
           /\ proc' = [proc EXCEPT ![p].pc = "keys",
                         ![p].keys = IF proc[p].mode = "exact" THEN @ ELSE M!Adopts(tup[s].src.keys)]
  <2>1. /\ t \in TupleState /\ t.src = tup[s].src /\ t.arch = tup[s].arch /\ t.cred = "v2"
        /\ t.keys = tup[s].keys /\ t.done = tup[s].done /\ t.meta = tup[s].meta
    BY <1>1 DEF TupleState
  <2>2. tup' = [tup EXCEPT ![s] = t]
    BY <1>1, <1>3 DEF MigrationInv, MigrationTypes
  <2> HIDE DEF t
  <2>3. Grows(s) /\ tup'[s] = t
    BY <1>1, <2>1, <2>2, OwnFiles
  <2>4. TupleOK(s)'
    BY <1>1, <2>1, <2>3 DEF MigrationInv, TupleInv, TupleOK, M!LegacySource
  <2>5. k \in {"none", "empty", "K"} /\ (proc[p].mode = "exact" => k = proc[p].keys)
        /\ (proc[p].mode # "exact" => k = M!Adopts(tup[s].src.keys))
    BY <1>1 DEF Process, M!Adopts
  <2>6. proc' = [proc EXCEPT ![p] = r]
    BY <1>1, <1>3 DEF MigrationInv, MigrationTypes
  <2> HIDE DEF k
  <2>7. /\ r \in Process /\ r.pc = "keys" /\ r.keys = k
        /\ r.mode = proc[p].mode /\ r.seen = proc[p].seen /\ r.old = proc[p].old
    BY <1>1, <2>5 DEF Process
  <2> HIDE DEF r
  <2>8. OnlyProcess(p) /\ proc'[p] = r
    BY <2>6, <2>7 DEF MigrationInv, MigrationTypes, OnlyProcess
  <2>9. proc[p].mode = "exact" => ExactOK(p)'
    BY <1>1, <2>1, <2>3, <2>5, <2>7, <2>8 DEF ProcOK, ExactOK, M!NoDir
  <2>10. proc[p].mode # "exact" => tup[s].src.dir
    <3>1. proc[p].mode # "exact" => tup[s].src.cred = s
      BY <1>3 DEF M!Proven, M!T
    <3> QED  BY <1>1, <3>1 DEF MigrationInv, OneSource, M!NoDir, MigrationConstants
  <2>11. ProcOK(p)'
    BY <1>1, <2>1, <2>3, <2>5, <2>7, <2>8, <2>9, <2>10 DEF ProcOK
  <2> QED  BY <1>1, <2>3, <2>4, <2>8, <2>11, TupleStep
<1> QED  BY <1>2, <1>3 DEF M!PublishCredential, M!T

LEMMA PublishKeysKeeps == ASSUME MigrationInv, MigrationConstants, NEW p \in Proc, M!PublishKeys(p) PROVE MigrationInv'
<1> DEFINE s == TupleOf(p)
           k == IF tup[s].keys = "none" THEN proc[p].keys ELSE tup[s].keys
           t == [tup[s] EXCEPT !.keys = k]
<1>1. /\ s \in Tuple /\ tup[s] \in TupleState /\ proc[p] \in Process /\ UNCHANGED <<legacy, aside>>
      /\ ProcOK(p) /\ proc[p].pc = "keys" /\ TupleOK(s)
  BY DEF MigrationConstants, MigrationInv, MigrationTypes, M!PublishKeys, M!At, ProcInv, TupleInv
<1>2. /\ proc[p].keys = M!Adopts(tup[s].src.keys) /\ (tup[s].src.dir \/ legacy = M!NoDir)
  BY <1>1, HasTheKeys
<1>3. tup' = [tup EXCEPT ![s] = t]
  BY <1>1 DEF MigrationInv, MigrationTypes, M!PublishKeys
<1>4. /\ k \in {"empty", "K"} /\ (tup[s].keys # "none" => k = tup[s].keys)
      /\ (tup[s].keys = "none" => k = M!Adopts(tup[s].src.keys))
  BY <1>1, <1>2 DEF TupleState, M!Adopts
<1> HIDE DEF k
<1>5. /\ t \in TupleState /\ t.src = tup[s].src /\ t.arch = tup[s].arch /\ t.cred = tup[s].cred
      /\ t.keys = k /\ t.done = tup[s].done /\ t.meta = tup[s].meta
  BY <1>1, <1>4 DEF TupleState
<1> HIDE DEF t
<1>6. Grows(s) /\ tup'[s] = t
  BY <1>1, <1>3, <1>5, OwnFiles
<1>7. TupleOK(s)'
  <2>1. M!LegacySource(tup[s])' = M!LegacySource(tup[s])
    BY <1>1, <1>5, <1>6 DEF M!LegacySource
  <2>2. M!LegacySource(tup[s]).cred = s => tup[s].src.dir /\ M!LegacySource(tup[s]) = tup[s].src
    BY <1>1, <1>2 DEF M!LegacySource, M!NoDir, MigrationConstants
  <2>3. M!LegacySource(tup[s]).cred = s /\ M!LegacySource(tup[s]).keys = "K" => k # "empty"
    BY <1>1, <1>4, <2>2 DEF TupleOK, M!Adopts
  <2>4. k = "K" => tup[s].src.keys = "K"
    BY <1>1, <1>4 DEF TupleOK, M!Adopts
  <2>5. tup[s].done # "no" => k = tup[s].keys
    BY <1>1, <1>4 DEF TupleOK, M!Adopts
  <2> QED  BY <1>1, <1>5, <1>6, <2>1, <2>3, <2>4, <2>5 DEF TupleOK
<1>8. CASE M!Fail(p)
  <2>1. OnlyProcess(p) /\ ProcOK(p)'
    BY <1>1, <1>6, <1>8, CalmProcess DEF M!Fail, Calm
  <2> QED  BY <1>1, <1>6, <1>7, <2>1, TupleStep
<1>9. CASE M!Goto(p, "verify")
  <2>1. /\ OnlyProcess(p) /\ proc'[p].pc = "verify" /\ proc'[p].mode = proc[p].mode
        /\ proc'[p].seen = proc[p].seen /\ proc'[p].old = proc[p].old /\ proc'[p].keys = proc[p].keys
    BY <1>9, GotoStep
  <2>2. proc[p].mode = "exact" => ExactOK(p)'
    BY <1>1, <1>5, <1>6, <2>1 DEF ProcOK, ExactOK, M!NoDir
  <2>3. ProcOK(p)'
    BY <1>1, <1>5, <1>6, <2>1, <2>2 DEF ProcOK
  <2> QED  BY <1>1, <1>6, <1>7, <2>1, <2>3, TupleStep
<1> QED  BY <1>8, <1>9 DEF M!PublishKeys

LEMMA CompleteKeeps == ASSUME MigrationInv, MigrationConstants, NEW p \in Proc, M!Complete(p) PROVE MigrationInv'
<1> DEFINE s == TupleOf(p)
           d == IF proc[p].keys = "K" THEN "migrated" ELSE "fresh"
           t == [tup[s] EXCEPT !.done = d]
<1>1. /\ s \in Tuple /\ tup[s] \in TupleState /\ proc[p] \in Process /\ UNCHANGED <<legacy, aside>>
      /\ proc[p].pc = "verify" /\ TupleOK(s)
  BY DEF MigrationConstants, MigrationInv, MigrationTypes, M!Complete, M!At, TupleInv
<1>2. /\ proc[p].keys = M!Adopts(tup[s].src.keys) /\ (tup[s].src.dir \/ legacy = M!NoDir)
  BY <1>1, HasTheKeys
<1>3. CASE M!Fail(p) /\ UNCHANGED tup
  BY <1>1, <1>3, CalmStep DEF M!Fail, Calm
<1>4. CASE M!Verified(p) /\ tup' = [tup EXCEPT ![s].done = d] /\ M!Goto(p, "done")
  <2>1. d \in {"migrated", "fresh"}
    OBVIOUS
  <2>2. tup' = [tup EXCEPT ![s] = t]
    BY <1>1, <1>4 DEF MigrationInv, MigrationTypes
  <2>3. tup[s].cred = "v2" /\ tup[s].keys = proc[p].keys
    BY <1>4 DEF M!Verified, M!T
  <2>4. M!Goto(p, "done")
    BY <1>4
  <2> HIDE DEF d
  <2>5. /\ t \in TupleState /\ t.src = tup[s].src /\ t.arch = tup[s].arch /\ t.cred = tup[s].cred
        /\ t.keys = tup[s].keys /\ t.done = d /\ t.meta = tup[s].meta
    BY <1>1, <2>1 DEF TupleState
  <2> HIDE DEF t
  <2>6. Grows(s) /\ tup'[s] = t
    BY <1>1, <2>2, <2>5, OwnFiles
  <2>7. TupleOK(s)'
    <3>1. M!LegacySource(tup[s])' = M!LegacySource(tup[s])
      BY <1>1, <2>5, <2>6 DEF M!LegacySource
    <3>2. tup[s].src.dir \/ ~legacy.dir
      BY <1>2 DEF M!NoDir
    <3> QED  BY <1>1, <1>2, <2>3, <2>5, <2>6, <3>1, <3>2 DEF TupleOK
  <2>8. OnlyProcess(p) /\ ProcOK(p)'
    BY <1>1, <2>4, <2>6, CalmProcess DEF Calm
  <2> QED  BY <1>1, <2>6, <2>7, <2>8, TupleStep
<1> QED  BY <1>3, <1>4 DEF M!Complete

LEMMA MigrationNextKeeps == ASSUME MigrationInv, MigrationConstants, [M!Next]_(M!vars) PROVE MigrationInv'
<1>1. CASE M!Next
  <2>1. PICK p \in Proc :
      \/ M!Inspect(p) \/ M!AcquireMutex(p) \/ M!ArchiveStaleMutex(p) \/ M!Claim(p) \/ M!ReleaseMutex(p)
      \/ M!SetAside(p) \/ M!PublishEmpty(p) \/ M!PublishJournal(p) \/ M!ArchiveExact(p) \/ M!UnlinkExact(p)
      \/ M!MoveSource(p) \/ M!PublishCredential(p) \/ M!PublishKeys(p) \/ M!Complete(p) \/ M!Crash(p) \/ M!Again(p)
    BY <1>1 DEF M!Next
  <2> QED
    BY <2>1, InspectKeeps, MutexKeeps, ClaimKeeps, SetAsideKeeps, PublishEmptyKeeps, PublishJournalKeeps,
       ArchiveExactKeeps, UnlinkExactKeeps, MoveSourceKeeps, PublishCredentialKeeps, PublishKeysKeeps,
       CompleteKeeps, ResetKeeps
<1>2. CASE UNCHANGED M!vars
  <2>1. UNCHANGED <<legacy, aside, tup, proc>>
    BY <1>2 DEF M!vars
  <2>2. MigrationTypes' /\ OneSource' /\ AsideInv'
    BY <2>1 DEF MigrationInv, MigrationTypes, OneSource, AsideInv, M!NoDir
  <2>3. TupleInv'
    BY <2>1, TuplesStay DEF TupleInv
  <2>4. ASSUME NEW p \in Proc PROVE ProcOK(p)'
    <3>1. ExactOK(p) <=> ExactOK(p)'
      BY <2>1 DEF ExactOK, M!NoDir
    <3> QED  BY <2>1, <3>1 DEF MigrationInv, ProcInv, ProcOK
  <2> QED  BY <2>2, <2>3, <2>4 DEF MigrationInv, ProcInv
<1> QED  BY <1>1, <1>2

\* legacy-storage-migration.ts, over any number of processes, tuples, crashes and
\* resumed runs: keys whose directory proves a tuple are never set aside, and no other
\* store is published for it; keys are adopted once at most; a tuple's proof is on
\* disk until its v2 credential is; and a completed migration has published what its
\* source held.  The argument needs the single rename and the second look at what was
\* inspected, and neither the mutex nor the claim.
THEOREM MigrationIsSafe == StorageSpec => []MigrationKeeps
<1> MigrationConstants
  BY MigrationAssumption
<1>1. MigrationInv => M!MigrationKeeps
  <2> SUFFICES ASSUME MigrationInv PROVE M!MigrationKeeps
    OBVIOUS
  <2>1. ASSUME NEW s \in Tuple
        PROVE  /\ M!LegacySource(tup[s]).cred = s /\ M!LegacySource(tup[s]).keys = "K" => tup[s].keys \in {"none", "K"}
               /\ tup[s].keys = "K" => tup[s].src.keys = "K" /\ ~aside
               /\ tup[s].keys = "K" => \A o \in Tuple \ {s} : tup[o].keys # "K"
               /\ tup[s].meta \/ tup[s].src.cred = s => tup[s].cred # "none" \/ tup[s].arch \/ tup[s].src.cred = s
               /\ tup[s].done # "no" => tup[s].cred = "v2" /\ tup[s].keys = M!Adopts(tup[s].src.keys)
    <3>1. TupleOK(s) /\ tup[s].keys \in {"none", "empty", "K"}
      BY DEF MigrationInv, TupleInv, MigrationTypes, TupleState
    <3>2. tup[s].keys = "K" => tup[s].src.keys = "K" /\ ~aside
      BY <3>1 DEF TupleOK, MigrationInv, AsideInv
    <3>3. \A o \in Tuple : tup[o].keys = "K" => tup[o].src.dir
      BY DEF MigrationInv, TupleInv, TupleOK, OneSource, M!NoDir
    <3>4. tup[s].keys = "K" => \A o \in Tuple \ {s} : tup[o].keys # "K"
      BY <3>3 DEF MigrationInv, OneSource
    <3> QED  BY <3>1, <3>2, <3>4 DEF TupleOK
  <2>2. aside => /\ legacy.keys # "K" /\ legacy.cred \notin Tuple
                 /\ \A s \in Tuple : tup[s].src.keys # "K" /\ tup[s].src.cred # s
    BY DEF MigrationInv, AsideInv
  <2> QED  BY <2>1, <2>2 DEF M!MigrationKeeps
<1> DEFINE OfMigration == part = "migrate" => MigrationInv
<1>2. StorageInit => OfMigration
  BY MigrationInitInv DEF StorageInit
<1>3. OfMigration /\ [StorageNext]_storageVars => OfMigration'
  <2> SUFFICES ASSUME OfMigration, [StorageNext]_storageVars, part' = "migrate" PROVE MigrationInv'
    OBVIOUS
  <2>1. part = "migrate" /\ [M!Next]_(M!vars)
    BY DEF StorageNext, storageVars, migrateVars, M!vars
  <2> QED BY <2>1, MigrationNextKeeps
<1>4. OfMigration => MigrationKeeps
  BY <1>1 DEF MigrationKeeps
<1> QED BY <1>2, <1>3, <1>4, PTL DEF StorageSpec

-----------------------------------------------------------------------------
(***************************************************************************)
(* Setup.  What channels add, the gateway and the diagnoses resolve from a *)
(* configuration agree, and every document was issued.                     *)
(***************************************************************************)
CredentialDoc ==
    [st : {"none", "ok", "new", "junk", "old"}, tenant : OrUnset(Tenant), acct : Raw,
     saas : OrUnset(Saas), key : Nat]
Expectation == [tenant : OrUnset(Tenant), acct : Raw, saas : OrUnset(Saas)]
Adding ==
    [pc : {"idle", "inspect", "load", "poll", "save", "probe", "flush", "done"}, id : Raw, exp : Expectation,
     key : Nat, out : {"none", "kept", "refused", "failed", "acquired"}, fresh : BOOLEAN,
     link : {"no", "dialing", "open", "silent"}]
Environment == [saas : OrUnset(Saas), own : BOOLEAN]
Verdict == [by : {"doctor", "wizard"}, id : Raw]

SetupTypes ==
    /\ Sane(cfg) /\ env \in Environment
    /\ docs \in [Tenant \X Raw -> CredentialDoc] /\ oldCred \in [Raw -> CredentialDoc]
    /\ adding \in [Adder -> Adding] /\ minted \in Nat /\ verdict \subseteq Verdict

\* Whatever document names a tenant was issued.
Issued(doc) == doc.tenant # A!Unset => <<doc.saas, doc.tenant, doc.acct, doc.key>> \in issued
IssuedInv ==
    /\ \A t \in Tenant, i \in Raw : Issued(docs[<<t, i>>])
    /\ \A i \in Raw : Issued(oldCred[i])
    /\ \A p \in Adder : adding[p].pc = "save" =>
          <<adding[p].exp.saas, adding[p].exp.tenant, adding[p].exp.acct, adding[p].key>> \in issued
    /\ A!DialIsBound

Match(exp) == exp.tenant \in Tenant /\ A!At(exp).st = "ok" /\ A!Bound(exp, A!At(exp))
\* An answer that is current was given for what the gateway expects, and by the
\* document it will find.
Current(a) ==
    a.fresh =>
        /\ a.id \in A!Listed(cfg) \/ A!Collides(cfg, a.id)
        /\ a.exp.saas # A!Unset => a.exp = A!RuntimeExpects(cfg, a.id)
        /\ a.out \in {"acquired", "kept"} =>
              /\ a.exp.saas # A!Unset /\ Match(a.exp)
              /\ a.out = "acquired" => A!At(a.exp).key = a.key
\* An invocation past its inspection knows its SaaS.
Placed(a) ==
    /\ a.pc \notin {"idle", "done"} => a.exp.tenant \in Tenant
    /\ a.pc \notin {"idle", "inspect", "done"} => a.exp.saas # A!Unset
    /\ a.pc \in {"idle", "inspect", "load", "poll", "save"} => a.out = "none" /\ a.link = "no"
CurrentInv == \A p \in Adder : Placed(adding[p]) /\ Current(adding[p])
\* A verdict that is right of the account
Right(v) ==
    /\ v.id \in A!Listed(cfg)
    /\ v.by = "doctor" => A!Served(cfg, v.id) /\ A!Dialable(cfg, v.id)
    /\ v.by = "doctor" \/ A!Enrolled(cfg, v.id) => Match(A!RuntimeExpects(cfg, v.id))
VerdictInv == \A v \in verdict : Right(v)
SetupInv == SetupTypes /\ IssuedInv /\ CurrentInv /\ VerdictInv

-----------------------------------------------------------------------------
\* What the gateway expects is well formed.
LEMMA RuntimeTypes ==
    ASSUME SetupConstants, NEW c, Sane(c), env \in Environment, NEW i \in Raw
    PROVE  /\ A!RuntimeExpects(c, i) \in Expectation
           /\ A!RuntimeExpects(c, i).tenant \in Tenant
           /\ A!RuntimeExpects(c, i).saas # A!Unset
           /\ A!RuntimeExpects(c, i).acct = i
<1>1. /\ c.acct[i] \in LeafConfig /\ c.base \in LeafConfig /\ c.top \in Given
  BY DEF Sane, AccountConfig
<1> QED
  BY <1>1 DEF SetupConstants, LeafConfig, CredentialConfig, Given, OrUnset, Environment, Expectation, A!RuntimeExpects,
    A!Identity, A!Account, A!Merge, A!First, A!Resolve, A!Unset

\* What channels add resolves, if it resolves a SaaS at all, is what the gateway
\* expects, if the configuration has what the operator passed.
LEMMA SetupIsRuntime ==
    ASSUME SetupConstants, NEW c, Sane(c), env \in Environment, NEW i \in Raw, NEW in \in Given,
           in.tenant # A!Unset => A!Account(c, i).tenant = in.tenant,
           in.saas # A!Unset => A!Account(c, i).saas = in.saas
    PROVE  /\ A!SetupExpects(c, i, in) \in Expectation
           /\ A!SetupExpects(c, i, in).tenant \in Tenant
           /\ A!SetupExpects(c, i, in).saas # A!Unset => A!SetupExpects(c, i, in) = A!RuntimeExpects(c, i)
<1>1. /\ c.acct[i] \in LeafConfig /\ c.base \in LeafConfig /\ c.top \in Given
  BY DEF Sane, AccountConfig
<1> DEFINE acc == A!Account(c, i)
<1>2. acc.tenant \in OrUnset(Tenant) /\ acc.saas \in OrUnset(Saas) /\ acc.cred \in CredentialConfig
  BY <1>1 DEF LeafConfig, OrUnset, A!Account, A!Merge, A!First, A!Unset
<1>3. /\ A!Identity(c, i).tenant \in Tenant /\ A!Identity(c, i).saas \in OrUnset(Saas)
      /\ acc.tenant # A!Unset => A!Identity(c, i).tenant = acc.tenant
      /\ acc.saas # A!Unset => A!Identity(c, i).saas = acc.saas
  <2> HIDE DEF acc
  <2>1. acc = A!Account(c, i)
    BY DEF acc
  <2> QED BY <1>1, <1>2, <2>1 DEF A!Identity, A!First, A!Unset, Given, OrUnset, SetupConstants
<1> DEFINE idt == A!Identity(c, i)
<1>4. /\ A!SetupExpects(c, i, in) =
           [tenant |-> A!First(in.tenant, idt.tenant), acct |-> i,
            saas |-> A!First(env.saas, A!First(acc.cred.saas, A!First(A!First(in.saas, idt.saas), A!Unset)))]
      /\ A!RuntimeExpects(c, i) =
           [tenant |-> idt.tenant, acct |-> i,
            saas |-> A!First(env.saas, A!First(acc.cred.saas, A!First(A!First(idt.saas, c.top.saas), 1)))]
  BY DEF A!SetupExpects, A!RuntimeExpects, A!Given, A!Resolve
<1>5. /\ in.tenant # A!Unset => idt.tenant = in.tenant
      /\ in.saas # A!Unset => idt.saas = in.saas
  BY <1>3
<1>6. acc.cred.saas \in OrUnset(Saas) /\ idt.tenant \in Tenant /\ idt.saas \in OrUnset(Saas)
  BY <1>2, <1>3 DEF CredentialConfig
<1> HIDE DEF acc, idt
<1> QED BY <1>4, <1>5, <1>6 DEF A!First, A!Unset, Given, OrUnset, Environment, Expectation, SetupConstants

\* What was written holds what the operator passed.
LEMMA WrittenHolds ==
    ASSUME SetupConstants, NEW c, Sane(c), NEW i \in Raw, NEW in \in Given
    PROVE  /\ Sane(A!Written(c, i, in))
           /\ in.tenant # A!Unset => A!Account(A!Written(c, i, in), i).tenant = in.tenant
           /\ in.saas # A!Unset => A!Account(A!Written(c, i, in), i).saas = in.saas
           /\ i \in A!Listed(A!Written(c, i, in)) \/ A!Collides(A!Written(c, i, in), i)
<1>1. /\ c.acct[i] \in LeafConfig /\ c.base \in LeafConfig /\ c.top \in Given /\ c.acct \in [Raw -> LeafConfig]
      /\ c \in AccountConfig
  BY DEF Sane, AccountConfig
<1>2. A!Account(c, i).tenant \in OrUnset(Tenant) /\ A!Account(c, i).jwt \in BOOLEAN
  BY <1>1 DEF LeafConfig, OrUnset, A!Account, A!Merge, A!First, A!Unset
<1> DEFINE patch(l) == A!Patched(l, A!Account(c, i), in)
<1>3. ASSUME NEW l \in LeafConfig
      PROVE  /\ patch(l) \in LeafConfig /\ patch(l).there
             /\ in.tenant # A!Unset => patch(l).tenant = in.tenant
             /\ in.saas # A!Unset => patch(l).saas = in.saas
  <2> DEFINE acc == A!Account(c, i)
  <2>1. acc.tenant \in OrUnset(Tenant) /\ acc.jwt \in BOOLEAN
    BY <1>2
  <2> HIDE DEF acc
  <2>2. patch(l) = A!Patched(l, acc, in)
    BY DEF acc
  <2> HIDE DEF patch
  <2>3. CASE in.saas # A!Unset
    <3>1. patch(l) = [l EXCEPT !.there = TRUE, !.tenant = A!First(in.tenant, A!First(acc.tenant, 1)),
             !.saas = in.saas, !.jwt = l.jwt \/ acc.jwt,
             !.cred = [there |-> TRUE, mode |-> "enrolled", saas |-> l.cred.saas, own |-> l.cred.own]]
      BY <2>2, <2>3 DEF A!Patched, LeafConfig
    <3> DEFINE ten == A!First(in.tenant, A!First(acc.tenant, 1))
               cr == [there |-> TRUE, mode |-> "enrolled", saas |-> l.cred.saas, own |-> l.cred.own]
               jw == l.jwt \/ acc.jwt
    <3>2. ten \in OrUnset(Tenant) /\ (in.tenant # A!Unset => ten = in.tenant)
      BY <2>1 DEF OrUnset, Given, A!First, A!Unset, SetupConstants
    <3>3. cr \in CredentialConfig /\ in.saas \in OrUnset(Saas) /\ jw \in BOOLEAN
      BY <2>1 DEF CredentialConfig, LeafConfig, Given
    <3> HIDE DEF ten, cr, jw
    <3>4. patch(l) = [l EXCEPT !.there = TRUE, !.tenant = ten, !.saas = in.saas, !.jwt = jw, !.cred = cr]
      BY <3>1 DEF ten, cr, jw
    <3> QED BY <3>2, <3>3, <3>4 DEF LeafConfig
  <2>4. CASE in.saas = A!Unset
    <3>1. patch(l) = [l EXCEPT !.there = TRUE, !.tenant = A!First(in.tenant, l.tenant)]
      BY <2>2, <2>4 DEF A!Patched
    <3> QED BY <2>4, <3>1 DEF LeafConfig, CredentialConfig, Given, OrUnset, A!First, A!Unset, SetupConstants
  <2> QED BY <2>3, <2>4
<1>4. CASE i = Default /\ A!Named(c) = {}
  <2>1. A!Written(c, i, in) = [c EXCEPT !.base = patch(c.base)]
    BY <1>4 DEF A!Written
  <2>2. c.acct[i] = A!NoLeaf
    BY <1>4 DEF A!Named, Sane
  <2> HIDE DEF patch
  <2> DEFINE w == A!Written(c, i, in)
  <2>3. w.base = patch(c.base) /\ w.acct = c.acct /\ w \in AccountConfig
    BY <1>1, <1>3, <2>1 DEF AccountConfig
  <2> HIDE DEF w
  <2>4. Sane(w)
    BY <2>3 DEF Sane
  <2>5. A!Account(w, i).tenant = patch(c.base).tenant /\ A!Account(w, i).saas = patch(c.base).saas
    BY <2>2, <2>3 DEF A!Account, A!Merge, A!First, A!NoLeaf, A!Unset
  <2>6. Sane(A!Written(c, i, in)) /\ A!Account(w, i) = A!Account(A!Written(c, i, in), i)
    BY <2>4 DEF w
  <2>7. i \in A!Listed(w)
    BY <1>4, <2>3 DEF A!Listed, A!Named
  <2>8. A!Listed(w) = A!Listed(A!Written(c, i, in))
    BY DEF w
  <2> QED BY <1>1, <1>3, <2>5, <2>6, <2>7, <2>8
<1>5. CASE ~(i = Default /\ A!Named(c) = {})
  <2>1. A!Written(c, i, in) = [c EXCEPT !.acct[i] = patch(c.acct[i])]
    BY <1>5 DEF A!Written
  <2> HIDE DEF patch
  <2> DEFINE w == A!Written(c, i, in)
  <2>3. /\ w.base = c.base /\ w.acct = [c.acct EXCEPT ![i] = patch(c.acct[i])] /\ w \in AccountConfig
    BY <1>1, <1>3, <2>1 DEF AccountConfig
  <2> HIDE DEF w
  <2>4. /\ w.acct[i] = patch(c.acct[i]) /\ w.acct[i].there
        /\ \A j \in Raw \ {i} : w.acct[j] = c.acct[j]
    BY <1>1, <1>3, <2>3
  <2>5. Sane(w)
    BY <2>3, <2>4 DEF Sane
  <2>6. /\ in.tenant # A!Unset => A!Account(w, i).tenant = in.tenant
        /\ in.saas # A!Unset => A!Account(w, i).saas = in.saas
    BY <1>1, <1>3, <2>4 DEF A!Account, A!Merge, A!First
  <2>7. i \in A!Listed(w) \/ A!Collides(w, i)
    BY <2>4 DEF A!Listed, A!Named
  <2> QED BY <2>5, <2>6, <2>7 DEF w
<1> QED BY <1>4, <1>5

-----------------------------------------------------------------------------
\* What evaluates to a match is at the path, whole, bound and issued.
LEMMA EvaluatesToMatch ==
    ASSUME SetupConstants, SetupInv, NEW exp \in Expectation, exp.tenant \in Tenant
    PROVE  /\ A!Found(exp) \in CredentialDoc /\ Issued(A!Found(exp))
           /\ A!Evaluate(exp, A!Found(exp)) = "match" =>
                 /\ A!Found(exp).st = "ok" /\ A!Bound(exp, A!Found(exp))
                 /\ <<exp.saas, exp.tenant, exp.acct, A!Found(exp).key>> \in issued
<1>1. /\ A!At(exp) \in CredentialDoc /\ Issued(A!At(exp)) /\ exp.acct \in Raw
      /\ oldCred[exp.acct] \in CredentialDoc /\ Issued(oldCred[exp.acct])
  BY DEF SetupInv, SetupTypes, IssuedInv, A!At, Expectation
<1>2. ASSUME NEW d \in CredentialDoc
      PROVE  A!Upgraded(d) \in CredentialDoc /\ (Issued(d) => Issued(A!Upgraded(d)))
  BY DEF A!Upgraded, CredentialDoc, Issued
<1>3. A!Found(exp) \in CredentialDoc /\ Issued(A!Found(exp))
  BY <1>1, <1>2 DEF A!Found
<1> DEFINE d == A!Found(exp)
<1>4. d \in CredentialDoc /\ Issued(d)
  BY <1>3
<1> HIDE DEF d
<1>5. A!Evaluate(exp, d) = "match" => d.st = "ok" /\ A!Bound(exp, d)
  BY <1>4 DEF A!Evaluate, A!Whole, CredentialDoc
<1>6. A!Bound(exp, d) => <<exp.saas, exp.tenant, exp.acct, d.key>> \in issued
  BY <1>4 DEF A!Bound, Issued, SetupConstants
<1>7. d = A!Found(exp)
  BY DEF d
<1> QED BY <1>3, <1>5, <1>6, <1>7

\* The documents after a change of one of them.
LEMMA DocumentStep ==
    ASSUME SetupConstants, SetupInv, NEW t \in Tenant, NEW i \in Raw, NEW d \in CredentialDoc,
           docs' = [docs EXCEPT ![<<t, i>>] = d], Issued(d)', issued \subseteq issued'
    PROVE  /\ docs' \in [Tenant \X Raw -> CredentialDoc]
           /\ docs'[<<t, i>>] = d
           /\ \A u \in Tenant, j \in Raw : <<u, j>> # <<t, i>> => docs'[<<u, j>>] = docs[<<u, j>>]
           /\ \A u \in Tenant, j \in Raw : Issued(docs[<<u, j>>])'
<1>1. docs \in [Tenant \X Raw -> CredentialDoc] /\ <<t, i>> \in Tenant \X Raw
  BY DEF SetupInv, SetupTypes
<1>2. /\ docs' \in [Tenant \X Raw -> CredentialDoc] /\ docs'[<<t, i>>] = d
      /\ \A k \in Tenant \X Raw : k # <<t, i>> => docs'[k] = docs[k]
  BY <1>1
<1>3. ASSUME NEW u \in Tenant, NEW j \in Raw PROVE Issued(docs[<<u, j>>])'
  <2>1. CASE <<u, j>> = <<t, i>>
    BY <1>2, <2>1 DEF Issued
  <2>2. CASE <<u, j>> # <<t, i>>
    <3>1. docs'[<<u, j>>] = docs[<<u, j>>] /\ Issued(docs[<<u, j>>])
      BY <1>2, <2>2 DEF SetupInv, IssuedInv
    <3> QED BY <3>1 DEF Issued
  <2> QED BY <2>1, <2>2
<1> QED BY <1>2, <1>3

\* Loading what is persisted keeps the documents in order, and leaves what matches.
LEMMA LoadedDocuments ==
    ASSUME SetupConstants, SetupInv, NEW exp \in Expectation, exp.tenant \in Tenant,
           A!LoadPersisted(exp), issued' = issued
    PROVE  /\ docs' \in [Tenant \X Raw -> CredentialDoc] /\ oldCred' \in [Raw -> CredentialDoc]
           /\ \A t \in Tenant, i \in Raw : Issued(docs[<<t, i>>])'
           /\ \A i \in Raw : Issued(oldCred[i])'
           /\ \A t \in Tenant, i \in Raw : docs[<<t, i>>].st = "ok" => docs'[<<t, i>>] = docs[<<t, i>>]
           /\ docs'[<<exp.tenant, exp.acct>>] = A!Found(exp)
<1>1. A!Found(exp) \in CredentialDoc /\ Issued(A!Found(exp)) /\ exp.acct \in Raw
  BY EvaluatesToMatch DEF Expectation
<1>0. PICK d \in CredentialDoc : d = A!Found(exp)
  BY <1>1
<1>2. d \in CredentialDoc /\ Issued(d) /\ docs' = [docs EXCEPT ![<<exp.tenant, exp.acct>>] = d]
  BY <1>0, <1>1 DEF A!LoadPersisted
<1>3. A!At(exp).st = "ok" => d = A!At(exp)
  BY <1>0 DEF A!Found, A!Migrates
<1>4. Issued(d)'
  BY <1>2 DEF Issued
<1>5. /\ docs' \in [Tenant \X Raw -> CredentialDoc]
      /\ docs'[<<exp.tenant, exp.acct>>] = d
      /\ \A u \in Tenant, j \in Raw :
             <<u, j>> # <<exp.tenant, exp.acct>> => docs'[<<u, j>>] = docs[<<u, j>>]
      /\ \A u \in Tenant, j \in Raw : Issued(docs[<<u, j>>])'
  BY <1>1, <1>2, <1>4, DocumentStep
<1>6. \A t \in Tenant, i \in Raw : docs[<<t, i>>].st = "ok" => docs'[<<t, i>>] = docs[<<t, i>>]
  BY <1>3, <1>5 DEF A!At
<1>7. oldCred' \in [Raw -> CredentialDoc] /\ \A i \in Raw : Issued(oldCred[i])'
  <2>1. oldCred \in [Raw -> CredentialDoc] /\ \A i \in Raw : Issued(oldCred[i])
    BY DEF SetupInv, SetupTypes, IssuedInv
  <2>2. A!NoDoc \in CredentialDoc /\ A!NoDoc.tenant = A!Unset
    BY DEF A!NoDoc, CredentialDoc, OrUnset, SetupConstants
  <2>3. oldCred' = oldCred \/ oldCred' = [oldCred EXCEPT ![exp.acct] = A!NoDoc]
    BY DEF A!LoadPersisted
  <2> QED BY <2>1, <2>2, <2>3 DEF Issued
<1> QED BY <1>0, <1>5, <1>6, <1>7

-----------------------------------------------------------------------------
\* A step that leaves the configuration and whatever document matched leaves every
\* answer and every verdict right.
MatchesStay ==
    /\ UNCHANGED <<cfg, env>>
    /\ \A t \in Tenant, i \in Raw : docs[<<t, i>>].st = "ok" => docs'[<<t, i>>] = docs[<<t, i>>]

LEMMA CalmSetup ==
    ASSUME SetupConstants, SetupInv, MatchesStay
    PROVE  /\ \A i : A!RuntimeExpects(cfg, i)' = A!RuntimeExpects(cfg, i)
           /\ \A exp \in Expectation : Match(exp) => Match(exp)' /\ A!At(exp)' = A!At(exp)
           /\ \A a \in Adding : Current(a) => Current(a)'
           /\ verdict' \subseteq verdict => VerdictInv'
<1> USE DEF MatchesStay
<1>1. \A i : A!RuntimeExpects(cfg, i)' = A!RuntimeExpects(cfg, i)
  BY DEF A!RuntimeExpects, A!Identity, A!Account, A!Resolve
<1>2. ASSUME NEW exp \in Expectation, Match(exp) PROVE Match(exp)' /\ A!At(exp)' = A!At(exp)
  BY <1>2 DEF Match, A!At, A!Bound, Expectation
<1>3. ASSUME verdict' \subseteq verdict, NEW v \in verdict' PROVE Right(v)'
  <2>1. Right(v) /\ v.id \in Raw
    BY <1>3 DEF SetupInv, VerdictInv, SetupTypes, Verdict
  <2>2. PICK i \in Raw : i = v.id
    BY <2>1
  <2>3. PICK exp \in Expectation : exp = A!RuntimeExpects(cfg, i)
    BY RuntimeTypes DEF SetupInv, SetupTypes
  <2>4. A!RuntimeExpects(cfg, i)' = exp
    BY <1>1, <2>3
  <2>5. Match(exp) => Match(A!RuntimeExpects(cfg, i))'
    BY <1>2, <2>4 DEF Match, A!At, A!Bound
  <2>6. /\ A!Listed(cfg)' = A!Listed(cfg) /\ A!Served(cfg, i)' = A!Served(cfg, i)
        /\ A!Dialable(cfg, i)' = A!Dialable(cfg, i) /\ A!Enrolled(cfg, i)' = A!Enrolled(cfg, i)
    BY DEF A!Listed, A!Named, A!Collides, A!Served, A!Enabled, A!HasConfig, A!Dialable, A!Enrolled, A!Account
  <2> HIDE DEF MatchesStay
  <2> QED BY <2>1, <2>2, <2>3, <2>5, <2>6 DEF Right
<1>4. ASSUME NEW a \in Adding, Current(a) PROVE Current(a)'
  <2>1. a.exp \in Expectation
    BY DEF Adding
  <2>2. /\ A!RuntimeExpects(cfg, a.id)' = A!RuntimeExpects(cfg, a.id)
        /\ A!Listed(cfg)' = A!Listed(cfg) /\ A!Collides(cfg, a.id)' = A!Collides(cfg, a.id)
    BY <1>1 DEF A!Listed, A!Named, A!Collides
  <2> HIDE DEF MatchesStay
  <2> QED BY <1>2, <1>4, <2>1, <2>2 DEF Current
<1> QED BY <1>1, <1>2, <1>3, <1>4 DEF VerdictInv

\* One invocation's step among the others'.
LEMMA AddingStep ==
    ASSUME SetupConstants, SetupInv, MatchesStay, NEW p \in Adder, NEW a \in Adding,
           adding' = [adding EXCEPT ![p] = a], Placed(a), Current(a)',
           issued \subseteq issued',
           a.pc = "save" => <<a.exp.saas, a.exp.tenant, a.exp.acct, a.key>> \in issued'
    PROVE  /\ adding' \in [Adder -> Adding] /\ CurrentInv'
           /\ \A q \in Adder : adding'[q].pc = "save" =>
                 <<adding'[q].exp.saas, adding'[q].exp.tenant, adding'[q].exp.acct, adding'[q].key>> \in issued'
<1>1. adding \in [Adder -> Adding]
  BY DEF SetupInv, SetupTypes
<1>2. adding' \in [Adder -> Adding] /\ adding'[p] = a /\ \A q \in Adder \ {p} : adding'[q] = adding[q]
  BY <1>1
<1>3. ASSUME NEW q \in Adder
      PROVE  /\ Placed(adding[q])' /\ Current(adding[q])'
             /\ adding'[q].pc = "save" =>
                 <<adding'[q].exp.saas, adding'[q].exp.tenant, adding'[q].exp.acct, adding'[q].key>> \in issued'
  <2>1. CASE q = p
    <3>1. Current(adding[q])' <=> Current(a)'
      BY <1>2, <2>1 DEF Current
    <3> QED BY <1>2, <2>1, <3>1 DEF Placed
  <2>2. CASE q # p
    <3>1. PICK b \in Adding : b = adding[q]
      BY <1>1
    <3>2. Placed(b) /\ Current(b) /\ adding'[q] = b
          /\ (b.pc = "save" => <<b.exp.saas, b.exp.tenant, b.exp.acct, b.key>> \in issued)
      BY <1>2, <2>2, <3>1 DEF SetupInv, CurrentInv, IssuedInv
    <3>3. Current(b)'
      BY <3>2, CalmSetup
    <3>4. Current(adding[q])'
      BY <3>2, <3>3 DEF Current
    <3> QED BY <3>2, <3>4 DEF Placed
  <2> QED BY <2>1, <2>2
<1> QED BY <1>2, <1>3 DEF CurrentInv

\* Of what is stale nothing is claimed any more.
LEMMA StaleStep ==
    ASSUME SetupConstants, SetupInv, NEW ps, ps = A!Stale(adding)
    PROVE  /\ ps \in [Adder -> Adding]
           /\ \A q \in Adder : /\ Placed(ps[q]) /\ ~ps[q].fresh
                               /\ ps[q].pc = "save" => ps[q] = [adding[q] EXCEPT !.fresh = FALSE]
<1>1. adding \in [Adder -> Adding] /\ \A q \in Adder : Placed(adding[q])
  BY DEF SetupInv, SetupTypes, CurrentInv
<1>2. ps = [q \in Adder |-> IF adding[q].pc = "done" /\ adding[q].link = "no" THEN A!Cleared("done", "none")
                           ELSE [adding[q] EXCEPT !.fresh = FALSE]]
  BY DEF A!Stale
<1>3. A!Cleared("done", "none") \in Adding /\ Placed(A!Cleared("done", "none"))
  BY DEF A!Cleared, Adding, A!NoExp, Placed, Expectation, OrUnset, SetupConstants
<1>4. ASSUME NEW q \in Adder
      PROVE  /\ [adding[q] EXCEPT !.fresh = FALSE] \in Adding
             /\ Placed([adding[q] EXCEPT !.fresh = FALSE])
             /\ ~[adding[q] EXCEPT !.fresh = FALSE].fresh
  BY <1>1 DEF Adding, Placed
<1>5. ~A!Cleared("done", "none").fresh /\ A!Cleared("done", "none").pc = "done"
  BY DEF A!Cleared
<1> QED BY <1>2, <1>3, <1>4, <1>5

\* The files are well formed after a step, and nothing in them is made up.
DocsFine ==
    /\ docs' \in [Tenant \X Raw -> CredentialDoc] /\ oldCred' \in [Raw -> CredentialDoc]
    /\ \A t \in Tenant, i \in Raw : Issued(docs[<<t, i>>])'
    /\ \A i \in Raw : Issued(oldCred[i])'

LEMMA DocsStay ==
    ASSUME SetupInv, UNCHANGED <<docs, oldCred>>, issued \subseteq issued'
    PROVE  DocsFine
<1>1. /\ docs \in [Tenant \X Raw -> CredentialDoc] /\ oldCred \in [Raw -> CredentialDoc]
      /\ \A t \in Tenant, i \in Raw : Issued(docs[<<t, i>>])
      /\ \A i \in Raw : Issued(oldCred[i])
  BY DEF SetupInv, SetupTypes, IssuedInv
<1>2. \A i \in Raw : Issued(oldCred[i])'
  BY <1>1 DEF Issued
<1>3. \A t \in Tenant, i \in Raw : Issued(docs[<<t, i>>])'
  BY <1>1 DEF Issued
<1> QED BY <1>1, <1>2, <1>3 DEF DocsFine

\* A step of an invocation keeps the invariant if it leaves the files in order and
\* itself where it should be.
LEMMA InvocationStep ==
    ASSUME SetupConstants, SetupInv, MatchesStay, DocsFine, NEW p \in Adder, NEW a \in Adding,
           adding' = [adding EXCEPT ![p] = a], Placed(a), Current(a)',
           issued \subseteq issued', UNCHANGED <<conn, verdict>>, minted' \in Nat,
           a.pc = "save" => <<a.exp.saas, a.exp.tenant, a.exp.acct, a.key>> \in issued'
    PROVE  SetupInv'
<1>1. /\ adding' \in [Adder -> Adding] /\ CurrentInv'
      /\ \A q \in Adder : adding'[q].pc = "save" =>
             <<adding'[q].exp.saas, adding'[q].exp.tenant, adding'[q].exp.acct, adding'[q].key>> \in issued'
  BY AddingStep
<1>2. VerdictInv'
  BY CalmSetup
<1>3. SetupTypes'
  <2>1. Sane(cfg)'
    BY DEF Sane, SetupInv, SetupTypes, MatchesStay
  <2>2. verdict' \subseteq Verdict /\ env' \in Environment
    BY DEF SetupInv, SetupTypes, MatchesStay
  <2> QED BY <1>1, <2>1, <2>2 DEF SetupTypes, DocsFine
<1>4. A!DialIsBound'
  BY DEF SetupInv, IssuedInv, A!DialIsBound
<1>5. IssuedInv'
  BY <1>1, <1>4 DEF IssuedInv, DocsFine
<1> QED BY <1>1, <1>2, <1>3, <1>5 DEF SetupInv

\* An invocation that gives up claims nothing.
LEMMA GivesUp ==
    ASSUME SetupConstants, NEW out \in {"refused", "failed", "none"}
    PROVE  /\ A!Cleared("done", out) \in Adding /\ Placed(A!Cleared("done", out))
           /\ Current(A!Cleared("done", out))' /\ A!Cleared("done", out).pc = "done"
<1>1. PICK a : a = A!Cleared("done", out)
  OBVIOUS
<1>2. a \in Adding /\ ~a.fresh /\ a.pc = "done" /\ a.link = "no"
  BY <1>1 DEF A!Cleared, Adding, A!NoExp, Expectation, OrUnset, SetupConstants
<1>3. Placed(a)
  BY <1>2 DEF Placed
<1>4. Current(a)'
  BY <1>2 DEF Current
<1>5. Current(A!Cleared("done", out))'
  BY <1>1, <1>4 DEF Current, A!Cleared, A!NoExp
<1> QED BY <1>1, <1>2, <1>3, <1>5

\* The same as a step.
LEMMA GiveUpStep ==
    ASSUME SetupConstants, SetupInv, MatchesStay, DocsFine, NEW p \in Adder, NEW out \in {"refused", "failed"},
           adding' = [adding EXCEPT ![p] = A!Cleared("done", out)],
           issued \subseteq issued', UNCHANGED <<conn, verdict>>, minted' \in Nat
    PROVE  SetupInv'
<1>1. PICK a : a = A!Cleared("done", out)
  OBVIOUS
<1>2. a \in Adding /\ Placed(a) /\ a.pc = "done" /\ ~a.fresh
  BY <1>1, GivesUp DEF A!Cleared
<1>3. Current(a)'
  BY <1>2 DEF Current
<1>4. adding' = [adding EXCEPT ![p] = a]
  BY <1>1
<1> QED BY <1>2, <1>3, <1>4, InvocationStep

\* And one that finds its document keeps it.
LEMMA KeepStep ==
    ASSUME SetupConstants, SetupInv, MatchesStay, DocsFine, NEW p \in Adder,
           adding[p].pc \in {"inspect", "load"}, adding[p].exp.saas # A!Unset, A!Ends(p, "kept") \/ A!Probes(p, "kept"),
           NEW d \in CredentialDoc, docs'[<<adding[p].exp.tenant, adding[p].exp.acct>>] = d,
           d.st = "ok", A!Bound(adding[p].exp, d),
           issued \subseteq issued', UNCHANGED <<conn, verdict>>, minted' \in Nat
    PROVE  SetupInv'
<1>1. adding \in [Adder -> Adding]
  BY DEF SetupInv, SetupTypes
<1>2. PICK b \in Adding : b = adding[p]
  BY <1>1
<1>3. Placed(b) /\ Current(b) /\ b.exp \in Expectation
  BY <1>2 DEF SetupInv, CurrentInv, Adding
<1>4. PICK a : /\ adding' = [adding EXCEPT ![p] = a]
               /\ \/ a = [b EXCEPT !.pc = "done", !.out = "kept"]
                  \/ a = [b EXCEPT !.pc = "probe", !.out = "kept", !.link = "dialing"]
  BY <1>1, <1>2 DEF A!Ends, A!Probes
<1>5. a \in Adding /\ a.pc \in {"done", "probe"} /\ a.out = "kept" /\ a.fresh = b.fresh /\ a.exp = b.exp /\ a.id = b.id
  BY <1>4 DEF Adding
<1>6. adding' = [adding EXCEPT ![p] = a]
  BY <1>4
<1>7. Placed(a)
  BY <1>2, <1>3, <1>5 DEF Placed
<1>8. Match(a.exp)'
  <2>1. b.exp.tenant \in Tenant
    BY <1>2, <1>3 DEF Placed
  <2>2. A!At(a.exp)' = d
    BY <1>2, <1>5 DEF A!At
  <2>3. A!Bound(a.exp, A!At(a.exp))'
    BY <1>2, <1>5, <2>2 DEF A!Bound
  <2> QED BY <1>5, <2>1, <2>2, <2>3 DEF Match
<1>9. Current(a)'
  <2>1. Current(b)'
    BY <1>3, CalmSetup
  <2>2. a.exp.saas # A!Unset
    BY <1>2, <1>5
  <2> QED BY <1>5, <1>8, <2>1, <2>2 DEF Current
<1> QED BY <1>5, <1>6, <1>7, <1>9, InvocationStep

-----------------------------------------------------------------------------
LEMMA SetupInitInv == ASSUME SetupConstants PROVE A!Init => SetupInv
<1> SUFFICES ASSUME A!Init PROVE SetupInv
  OBVIOUS
<1>1. PICK x \in Starts : cfg = x.cfg
  BY DEF A!Init
<1>2. Sane(cfg)
  BY <1>1 DEF SetupConstants
<1>3. A!NoDoc \in CredentialDoc /\ A!NoDoc.tenant = A!Unset
  BY DEF A!NoDoc, CredentialDoc, OrUnset, SetupConstants
<1>4. /\ docs = [k \in Tenant \X Raw |-> A!NoDoc]
      /\ docs \in [Tenant \X Raw -> CredentialDoc]
      /\ \A t \in Tenant, i \in Raw : docs[<<t, i>>] = A!NoDoc
  BY <1>3 DEF A!Init
<1>5. /\ oldCred \in [Raw -> CredentialDoc]
      /\ \A i \in Raw : \/ oldCred[i] = A!NoDoc
                        \/ oldCred[i] = [st |-> "old", tenant |-> 1, acct |-> i, saas |-> 1, key |-> 0]
  <2>1. PICK c \in Starts : oldCred = [i \in Raw |-> IF i \in c.legacy
             THEN [st |-> "old", tenant |-> 1, acct |-> i, saas |-> 1, key |-> 0] ELSE A!NoDoc]
    BY DEF A!Init
  <2>2. \A i \in Raw : [st |-> "old", tenant |-> 1, acct |-> i, saas |-> 1, key |-> 0] \in CredentialDoc
    BY DEF CredentialDoc, OrUnset, SetupConstants
  <2> QED BY <1>3, <2>1, <2>2
<1>6. \A i \in Raw : Issued(oldCred[i])
  <2> SUFFICES ASSUME NEW i \in Raw, oldCred[i].tenant # A!Unset
               PROVE  <<oldCred[i].saas, oldCred[i].tenant, oldCred[i].acct, oldCred[i].key>> \in issued
    BY DEF Issued
  <2>1. oldCred[i] = [st |-> "old", tenant |-> 1, acct |-> i, saas |-> 1, key |-> 0]
    BY <1>3, <1>5
  <2>2. <<oldCred[i].saas, oldCred[i].tenant, i, 0>> \in issued
    BY <2>1 DEF A!Init
  <2> QED BY <2>1, <2>2
<1>7. \A t \in Tenant, i \in Raw : Issued(docs[<<t, i>>])
  BY <1>3, <1>4 DEF Issued
<1>8. adding \in [Adder -> Adding] /\ \A p \in Adder : /\ adding[p].pc = "idle" /\ ~adding[p].fresh
                                                       /\ adding[p].link = "no" /\ adding[p].out = "none"
  BY DEF A!Init, A!Cleared, Adding, A!NoExp, Expectation, OrUnset, SetupConstants
<1>9. CurrentInv
  BY <1>8 DEF CurrentInv, Placed, Current
<1>10. IssuedInv
  BY <1>6, <1>7, <1>8 DEF IssuedInv, A!Init, A!DialIsBound, A!NoConn
<1>11. SetupTypes /\ VerdictInv
  BY <1>2, <1>4, <1>5, <1>8 DEF SetupTypes, VerdictInv, A!Init, OrUnset, Environment, A!NoVerdict
<1> QED BY <1>9, <1>10, <1>11 DEF SetupInv

\* Loading for an expectation is calm.
LEMMA LoadIsCalm ==
    ASSUME SetupConstants, SetupInv, NEW exp \in Expectation, exp.tenant \in Tenant,
           A!LoadPersisted(exp), UNCHANGED <<cfg, env, issued>>
    PROVE  MatchesStay /\ DocsFine
BY LoadedDocuments DEF MatchesStay, DocsFine

LEMMA InvocationTypes ==
    ASSUME SetupInv, NEW p \in Adder
    PROVE  /\ adding \in [Adder -> Adding] /\ adding[p] \in Adding /\ adding[p].exp \in Expectation
           /\ Placed(adding[p]) /\ Current(adding[p]) /\ minted \in Nat
BY DEF SetupInv, SetupTypes, CurrentInv, Adding

LEMMA InspectKeepsSetup ==
    ASSUME SetupConstants, SetupInv, NEW p \in Adder, A!Inspect(p) PROVE SetupInv'
<1>1. PICK b \in Adding : b = adding[p]
  BY InvocationTypes
<1>2. /\ adding \in [Adder -> Adding] /\ Placed(b) /\ Current(b) /\ b.exp \in Expectation /\ minted \in Nat
      /\ b.pc = "inspect" /\ b.exp.tenant \in Tenant
      /\ UNCHANGED <<cfg, env, issued, conn, verdict, minted, edits>>
  BY <1>1, InvocationTypes DEF A!Inspect, Placed
<1>3. CASE ~A!Enrolled(cfg, adding[p].id) \/ adding[p].exp.saas = A!Unset
  <2>1. A!Ends(p, "refused") /\ UNCHANGED <<docs, oldCred>>
    BY <1>3 DEF A!Inspect
  <2>2. MatchesStay /\ DocsFine
    BY <1>2, <2>1, DocsStay DEF MatchesStay
  <2>3. adding' = [adding EXCEPT ![p] = A!Cleared("done", "refused")]
    BY <2>1 DEF A!Ends
  <2> QED BY <1>2, <2>2, <2>3, GiveUpStep
<1>4. CASE ~(~A!Enrolled(cfg, adding[p].id) \/ adding[p].exp.saas = A!Unset)
  <2> DEFINE status == A!Evaluate(adding[p].exp, A!Found(adding[p].exp))
  <2>1. /\ A!LoadPersisted(adding[p].exp) /\ adding[p].exp.saas # A!Unset
        /\ \/ status = "match" /\ A!Ends(p, "kept")
           \/ status = "absent" /\ adding' = [adding EXCEPT ![p].pc = "load"]
           \/ A!Ends(p, "refused")
    BY <1>4 DEF A!Inspect
  <2>2. MatchesStay /\ DocsFine
    BY <1>1, <1>2, <2>1, LoadIsCalm
  <2>3. CASE status = "match" /\ A!Ends(p, "kept")
    <3>1. PICK d \in CredentialDoc : d = A!Found(adding[p].exp)
      BY <1>1, <1>2, EvaluatesToMatch
    <3>2. d.st = "ok" /\ A!Bound(adding[p].exp, d) /\ docs'[<<adding[p].exp.tenant, adding[p].exp.acct>>] = d
      BY <1>1, <1>2, <2>1, <2>3, <3>1, EvaluatesToMatch, LoadedDocuments
    <3> HIDE DEF status
    <3> QED BY <1>1, <1>2, <2>1, <2>2, <2>3, <3>1, <3>2, KeepStep
  <2>4. CASE adding' = [adding EXCEPT ![p].pc = "load"]
    <3>1. PICK a : a = [b EXCEPT !.pc = "load"]
      OBVIOUS
    <3>2. a \in Adding /\ a.pc = "load" /\ a.fresh = b.fresh /\ a.exp = b.exp /\ a.id = b.id
          /\ a.link = b.link /\ a.out = b.out
      BY <3>1 DEF Adding
    <3>3. adding' = [adding EXCEPT ![p] = a]
      BY <1>1, <1>2, <2>4, <3>1
    <3>4. Placed(a)
      BY <1>1, <1>2, <2>1, <3>2 DEF Placed
    <3>5. Current(b)' /\ b.out = "none"
      BY <1>2, <2>2, CalmSetup DEF Placed
    <3>6. Current(a)'
      BY <3>2, <3>5 DEF Current
    <3> HIDE DEF status
    <3> QED BY <1>2, <2>2, <3>2, <3>3, <3>4, <3>6, InvocationStep
  <2>5. CASE A!Ends(p, "refused")
    <3>1. adding' = [adding EXCEPT ![p] = A!Cleared("done", "refused")]
      BY <2>5 DEF A!Ends
    <3> QED BY <1>2, <2>2, <3>1, GiveUpStep
  <2> QED BY <2>1, <2>3, <2>4, <2>5
<1> QED BY <1>3, <1>4

LEMMA LoadKeepsSetup ==
    ASSUME SetupConstants, SetupInv, NEW p \in Adder, A!Load(p) PROVE SetupInv'
<1>1. PICK b \in Adding : b = adding[p]
  BY InvocationTypes
<1>2. /\ adding \in [Adder -> Adding] /\ Placed(b) /\ Current(b) /\ b.exp \in Expectation /\ minted \in Nat
      /\ b.pc = "load" /\ b.exp.tenant \in Tenant /\ b.exp.saas # A!Unset /\ b.exp.acct \in Raw
      /\ UNCHANGED <<cfg, env, issued, conn, verdict, edits>>
  BY <1>1, InvocationTypes DEF A!Load, Placed, Expectation
<1>3. /\ A!Found(b.exp) \in CredentialDoc /\ Issued(A!Found(b.exp))
      /\ A!At(b.exp) \in CredentialDoc /\ Issued(A!At(b.exp))
  BY <1>2, EvaluatesToMatch DEF SetupInv, SetupTypes, IssuedInv, A!At, Expectation
<1>4. PICK d : d = IF A!Proves(b.exp, A!At(b.exp)) THEN A!Upgraded(A!At(b.exp)) ELSE A!Found(b.exp)
  OBVIOUS
<1>5. d \in CredentialDoc /\ Issued(d)
  <2>1. ASSUME NEW x \in CredentialDoc PROVE A!Upgraded(x) \in CredentialDoc /\ (Issued(x) => Issued(A!Upgraded(x)))
    BY DEF A!Upgraded, CredentialDoc, Issued
  <2> QED BY <1>3, <1>4, <2>1
<1>6. /\ docs' = [docs EXCEPT ![<<b.exp.tenant, b.exp.acct>>] = d]
      /\ oldCred' = IF A!Migrates(b.exp) THEN [oldCred EXCEPT ![b.exp.acct] = A!NoDoc] ELSE oldCred
      /\ \/ A!Evaluate(b.exp, d) = "match" /\ A!Probes(p, "kept") /\ minted' = minted
         \/ minted' = minted + 1 /\ adding' = [adding EXCEPT ![p].pc = "poll", ![p].key = minted + 1]
         \/ A!Ends(p, "refused") /\ minted' = minted
  BY <1>1, <1>4 DEF A!Load
<1>7. Issued(d)'
  BY <1>2, <1>5 DEF Issued
<1>8. /\ docs' \in [Tenant \X Raw -> CredentialDoc]
      /\ docs'[<<b.exp.tenant, b.exp.acct>>] = d
      /\ \A u \in Tenant, j \in Raw : <<u, j>> # <<b.exp.tenant, b.exp.acct>> => docs'[<<u, j>>] = docs[<<u, j>>]
      /\ \A u \in Tenant, j \in Raw : Issued(docs[<<u, j>>])'
  <2>1. issued \subseteq issued'
    BY <1>2
  <2> HIDE DEF A!At
  <2> QED BY <1>2, <1>5, <1>6, <1>7, <2>1, DocumentStep
<1>9. A!At(b.exp).st = "ok" => d = A!At(b.exp)
  BY <1>4 DEF A!Found, A!Migrates, A!Proves
<1>10. MatchesStay
  BY <1>2, <1>8, <1>9 DEF MatchesStay, A!At
<1>11. DocsFine
  <2>1. oldCred \in [Raw -> CredentialDoc] /\ \A i \in Raw : Issued(oldCred[i])
    BY DEF SetupInv, SetupTypes, IssuedInv
  <2>2. A!NoDoc \in CredentialDoc /\ A!NoDoc.tenant = A!Unset
    BY DEF A!NoDoc, CredentialDoc, OrUnset, SetupConstants
  <2>3. oldCred' = oldCred \/ oldCred' = [oldCred EXCEPT ![b.exp.acct] = A!NoDoc]
    BY <1>6
  <2>4. oldCred' \in [Raw -> CredentialDoc] /\ \A i \in Raw : Issued(oldCred[i])'
    BY <1>2, <2>1, <2>2, <2>3 DEF Issued
  <2> QED BY <1>8, <2>4 DEF DocsFine
<1>12. CASE A!Evaluate(b.exp, d) = "match" /\ A!Probes(p, "kept") /\ minted' = minted
  <2>1. d.st = "ok" /\ A!Bound(b.exp, d)
    BY <1>5, <1>12 DEF A!Evaluate, A!Whole, CredentialDoc
  <2>2. issued \subseteq issued'
    BY <1>2
  <2> QED BY <1>1, <1>2, <1>5, <1>8, <1>10, <1>11, <1>12, <2>1, <2>2, KeepStep
<1>13. CASE minted' = minted + 1 /\ adding' = [adding EXCEPT ![p].pc = "poll", ![p].key = minted + 1]
  <2>0. PICK n \in Nat : n = minted + 1
    BY <1>2
  <2>1. PICK a : a = [b EXCEPT !.pc = "poll", !.key = n]
    OBVIOUS
  <2>2. a \in Adding /\ a.pc = "poll" /\ a.fresh = b.fresh /\ a.exp = b.exp /\ a.id = b.id
        /\ a.link = b.link /\ a.out = b.out
    BY <2>1 DEF Adding
  <2>3. adding' = [adding EXCEPT ![p] = a]
    BY <1>1, <1>2, <1>13, <2>0, <2>1
  <2>4. Placed(a)
    BY <1>2, <2>2 DEF Placed
  <2>5. Current(b)' /\ b.out = "none"
    BY <1>2, <1>10, CalmSetup DEF Placed
  <2>6. Current(a)'
    BY <2>2, <2>5 DEF Current
  <2>7. minted' \in Nat
    BY <1>2, <1>13
  <2> QED BY <1>2, <1>10, <1>11, <2>2, <2>3, <2>4, <2>6, <2>7, InvocationStep
<1>14. CASE A!Ends(p, "refused") /\ minted' = minted
  <2>1. adding' = [adding EXCEPT ![p] = A!Cleared("done", "refused")]
    BY <1>14 DEF A!Ends
  <2> QED BY <1>2, <1>10, <1>11, <1>14, <2>1, GiveUpStep
<1> QED BY <1>6, <1>12, <1>13, <1>14

LEMMA PollKeepsSetup ==
    ASSUME SetupConstants, SetupInv, NEW p \in Adder, A!Poll(p) PROVE SetupInv'
<1>1. PICK b \in Adding : b = adding[p]
  BY InvocationTypes
<1>2. /\ adding \in [Adder -> Adding] /\ Placed(b) /\ Current(b) /\ minted \in Nat /\ b.pc = "poll"
      /\ UNCHANGED <<cfg, env, docs, oldCred, conn, verdict, minted, edits>> /\ issued \subseteq issued'
  BY <1>1, InvocationTypes DEF A!Poll
<1>3. MatchesStay /\ DocsFine
  BY <1>2, DocsStay DEF MatchesStay
<1>4. CASE A!Ends(p, "failed") /\ UNCHANGED issued
  <2>1. adding' = [adding EXCEPT ![p] = A!Cleared("done", "failed")]
    BY <1>4 DEF A!Ends
  <2> QED BY <1>2, <1>3, <2>1, GiveUpStep
<1>5. CASE /\ issued' = issued \cup {<<b.exp.saas, b.exp.tenant, b.exp.acct, b.key>>}
           /\ adding' = [adding EXCEPT ![p].pc = "save"]
  <2>1. PICK a : a = [b EXCEPT !.pc = "save"]
    OBVIOUS
  <2>2. a \in Adding /\ a.pc = "save" /\ a.fresh = b.fresh /\ a.exp = b.exp /\ a.id = b.id
        /\ a.link = b.link /\ a.out = b.out /\ a.key = b.key
    BY <2>1 DEF Adding
  <2>3. adding' = [adding EXCEPT ![p] = a]
    BY <1>1, <1>2, <1>5, <2>1
  <2>4. Placed(a)
    BY <1>2, <2>2 DEF Placed
  <2>5. Current(b)' /\ b.out = "none"
    BY <1>2, <1>3, CalmSetup DEF Placed
  <2>6. Current(a)'
    BY <2>2, <2>5 DEF Current
  <2>7. <<a.exp.saas, a.exp.tenant, a.exp.acct, a.key>> \in issued'
    BY <1>5, <2>2
  <2> QED BY <1>2, <1>3, <2>2, <2>3, <2>4, <2>6, <2>7, InvocationStep
<1> QED BY <1>1, <1>4, <1>5 DEF A!Poll

LEMMA SaveKeepsSetup ==
    ASSUME SetupConstants, SetupInv, NEW p \in Adder, A!Save(p) PROVE SetupInv'
<1>1. PICK b \in Adding : b = adding[p]
  BY InvocationTypes
<1>2. /\ adding \in [Adder -> Adding] /\ Placed(b) /\ Current(b) /\ minted \in Nat /\ b.pc = "save"
      /\ b.exp \in Expectation /\ b.exp.tenant \in Tenant /\ b.exp.acct \in Raw /\ b.exp.saas # A!Unset
      /\ UNCHANGED <<cfg, env, oldCred, issued, conn, verdict, minted, edits>>
      /\ <<b.exp.saas, b.exp.tenant, b.exp.acct, b.key>> \in issued
  BY <1>1, InvocationTypes DEF A!Save, Placed, Expectation, SetupInv, IssuedInv
<1>3. CASE A!Ends(p, "failed") /\ UNCHANGED docs
  <2>1. adding' = [adding EXCEPT ![p] = A!Cleared("done", "failed")]
    BY <1>3 DEF A!Ends
  <2>2. MatchesStay /\ DocsFine
    BY <1>2, <1>3, DocsStay DEF MatchesStay
  <2> QED BY <1>2, <2>1, <2>2, GiveUpStep
<1>4. CASE /\ A!At(b.exp).st = "none"
           /\ docs' = [docs EXCEPT ![<<b.exp.tenant, b.exp.acct>>] = A!Document(b.exp, b.key)]
           /\ adding' = [adding EXCEPT ![p].pc = "probe", ![p].out = "acquired", ![p].link = "dialing"]
  <2>1. PICK d : d = A!Document(b.exp, b.key)
    OBVIOUS
  <2>2. /\ d \in CredentialDoc /\ d.st = "ok" /\ A!Bound(b.exp, d) /\ d.key = b.key
        /\ Issued(d)'
    <3>1. /\ d.st = "ok" /\ d.key = b.key /\ d.tenant = b.exp.tenant /\ d.acct = b.exp.acct
          /\ d.saas = b.exp.saas
      BY <2>1 DEF A!Document
    <3>2. d \in CredentialDoc
      BY <1>2, <2>1 DEF A!Document, CredentialDoc, Expectation, Adding
    <3>3. Issued(d)'
      BY <1>2, <3>1 DEF Issued
    <3> QED BY <3>1, <3>2, <3>3 DEF A!Bound
  <2>3. /\ docs' \in [Tenant \X Raw -> CredentialDoc]
        /\ docs'[<<b.exp.tenant, b.exp.acct>>] = d
        /\ \A u \in Tenant, j \in Raw : <<u, j>> # <<b.exp.tenant, b.exp.acct>> => docs'[<<u, j>>] = docs[<<u, j>>]
        /\ \A u \in Tenant, j \in Raw : Issued(docs[<<u, j>>])'
    <3>1. docs' = [docs EXCEPT ![<<b.exp.tenant, b.exp.acct>>] = d] /\ issued \subseteq issued'
      BY <1>2, <1>4, <2>1
    <3> QED BY <1>2, <2>2, <3>1, DocumentStep
  <2>4. MatchesStay
    BY <1>2, <1>4, <2>3 DEF MatchesStay, A!At
  <2>5. DocsFine
    <3>1. oldCred' \in [Raw -> CredentialDoc] /\ \A i \in Raw : Issued(oldCred[i])'
      BY <1>2 DEF SetupInv, SetupTypes, IssuedInv, Issued
    <3> QED BY <2>3, <3>1 DEF DocsFine
  <2>6. PICK a : a = [b EXCEPT !.pc = "probe", !.out = "acquired", !.link = "dialing"]
    OBVIOUS
  <2>7. a \in Adding /\ a.pc = "probe" /\ a.fresh = b.fresh /\ a.exp = b.exp /\ a.id = b.id
        /\ a.link = "dialing" /\ a.out = "acquired" /\ a.key = b.key
    BY <2>6 DEF Adding
  <2>8. adding' = [adding EXCEPT ![p] = a]
    BY <1>1, <1>2, <1>4, <2>6
  <2>9. Placed(a)
    BY <1>2, <2>7 DEF Placed
  <2>10. Current(b)'
    BY <1>2, <2>4, CalmSetup
  <2>11. A!At(a.exp)' = d
    BY <2>3, <2>7 DEF A!At
  <2>12. Match(a.exp)'
    <3>1. A!Bound(a.exp, A!At(a.exp))'
      BY <2>2, <2>7, <2>11 DEF A!Bound
    <3> QED BY <1>2, <2>2, <2>7, <2>11, <3>1 DEF Match
  <2>13. Current(a)'
    BY <1>2, <2>2, <2>7, <2>10, <2>11, <2>12 DEF Current
  <2> QED BY <1>2, <2>4, <2>5, <2>7, <2>8, <2>9, <2>13, InvocationStep
<1> QED BY <1>1, <1>3, <1>4 DEF A!Save, A!MayWrite, A!Probes

LEMMA ProbeKeepsSetup ==
    ASSUME SetupConstants, SetupInv, NEW p \in Adder, A!Probe(p) \/ A!Flushed(p) \/ A!Late(p) \/ A!Dies(p)
    PROVE  SetupInv'
<1>1. PICK b \in Adding : b = adding[p]
  BY InvocationTypes
<1>2. /\ adding \in [Adder -> Adding] /\ Placed(b) /\ Current(b) /\ minted \in Nat
      /\ UNCHANGED <<cfg, env, docs, oldCred, issued, conn, verdict, minted, edits>>
  BY <1>1, InvocationTypes DEF A!Probe, A!Flushed, A!Late, A!Dies
<1>3. MatchesStay /\ DocsFine
  BY <1>2, DocsStay DEF MatchesStay
<1>4. ASSUME NEW pc \in {"flush", "done"}, NEW link \in {"no", "open", "dialing", "silent"},
             adding' = [adding EXCEPT ![p].pc = pc, ![p].link = link],
             b.pc \in {"probe", "flush", "done"}, pc = "flush" => b.pc = "probe"
      PROVE  SetupInv'
  <2>1. PICK a : a = [b EXCEPT !.pc = pc, !.link = link]
    OBVIOUS
  <2>2. a \in Adding /\ a.pc = pc /\ a.fresh = b.fresh /\ a.exp = b.exp /\ a.id = b.id
        /\ a.link = link /\ a.out = b.out /\ a.key = b.key
    BY <2>1 DEF Adding
  <2>3. adding' = [adding EXCEPT ![p] = a]
    BY <1>1, <1>2, <1>4, <2>1
  <2>4. Placed(a)
    BY <1>2, <1>4, <2>2 DEF Placed
  <2>5. Current(b)'
    BY <1>2, <1>3, CalmSetup
  <2>6. Current(a)'
    BY <2>2, <2>5 DEF Current
  <2> QED BY <1>2, <1>3, <2>2, <2>3, <2>4, <2>6, InvocationStep
<1>5. CASE A!Probe(p)
  <2>1. CASE adding' = [adding EXCEPT ![p].pc = "flush", ![p].link = "open"]
    BY <1>1, <1>4, <1>5, <2>1 DEF A!Probe
  <2>2. CASE adding' = [adding EXCEPT ![p].pc = "done", ![p].link = "no"]
    BY <1>1, <1>4, <1>5, <2>2 DEF A!Probe
  <2>3. ASSUME NEW link \in {"dialing", "silent"}, adding' = [adding EXCEPT ![p].pc = "done", ![p].link = link]
        PROVE  SetupInv'
    BY <1>1, <1>4, <1>5, <2>3 DEF A!Probe
  <2> QED BY <1>5, <2>1, <2>2, <2>3 DEF A!Probe
<1>6. CASE A!Flushed(p)
  BY <1>1, <1>4, <1>6 DEF A!Flushed
<1>7. CASE A!Late(p)
  <2>1. [b EXCEPT !.link = "no"] = [b EXCEPT !.pc = "done", !.link = "no"]
    BY <1>1, <1>7 DEF A!Late, Adding
  <2>2. adding' = [adding EXCEPT ![p].pc = "done", ![p].link = "no"]
    BY <1>1, <1>2, <1>7, <2>1 DEF A!Late
  <2> QED BY <1>1, <1>4, <1>7, <2>2 DEF A!Late
<1>8. CASE A!Dies(p)
  BY <1>2, <1>3, <1>8, GiveUpStep DEF A!Dies
<1> QED BY <1>5, <1>6, <1>7, <1>8

LEMMA ApplyKeepsSetup ==
    ASSUME SetupConstants, SetupInv, NEW p \in Adder, NEW raw \in Raw, NEW in \in Input, A!Apply(p, raw, in)
    PROVE  SetupInv'
<1>1. PICK i \in Raw : i = Normal(raw)
  BY DEF SetupConstants
<1>2. PICK c : c = A!Written(cfg, i, in)
  OBVIOUS
<1>3. PICK ps : ps = A!Stale(adding)
  OBVIOUS
<1>4. PICK exp : exp = A!SetupExpects(c, i, in)
  OBVIOUS
<1>5. PICK a : a = [A!Cleared("inspect", "none") EXCEPT !.id = i, !.exp = exp, !.fresh = TRUE]
  OBVIOUS
<1>6. /\ cfg' = c /\ adding' = [ps EXCEPT ![p] = a] /\ verdict' = {}
      /\ UNCHANGED <<env, docs, oldCred, issued, conn, minted, edits>>
  BY <1>1, <1>2, <1>3, <1>4, <1>5 DEF A!Apply, A!NoVerdict
<1>7. in \in Given /\ Sane(cfg) /\ env \in Environment /\ minted \in Nat
  BY DEF SetupConstants, SetupInv, SetupTypes
<1>8. /\ Sane(c)
      /\ in.tenant # A!Unset => A!Account(c, i).tenant = in.tenant
      /\ in.saas # A!Unset => A!Account(c, i).saas = in.saas
      /\ i \in A!Listed(c) \/ A!Collides(c, i)
  BY <1>2, <1>7, WrittenHolds
<1>9. /\ exp \in Expectation /\ exp.tenant \in Tenant
      /\ exp.saas # A!Unset => exp = A!RuntimeExpects(c, i)
  BY <1>4, <1>7, <1>8, SetupIsRuntime
<1>10. a \in Adding /\ a.pc = "inspect" /\ a.out = "none" /\ a.link = "no" /\ a.exp = exp /\ a.id = i
  BY <1>5, <1>9 DEF A!Cleared, Adding
<1>11. Placed(a)
  BY <1>9, <1>10 DEF Placed
<1>12. Current(a)'
  <2>1. A!RuntimeExpects(cfg, i)' = A!RuntimeExpects(c, i)
    BY <1>6 DEF A!RuntimeExpects, A!Identity, A!Account, A!Resolve
  <2>2. A!Listed(cfg)' = A!Listed(c) /\ A!Collides(cfg, i)' = A!Collides(c, i)
    BY <1>6 DEF A!Listed, A!Named, A!Collides
  <2> QED BY <1>8, <1>9, <1>10, <2>1, <2>2 DEF Current
<1>13. /\ ps \in [Adder -> Adding]
       /\ \A q \in Adder : /\ Placed(ps[q]) /\ ~ps[q].fresh
                           /\ ps[q].pc = "save" => ps[q] = [adding[q] EXCEPT !.fresh = FALSE]
  BY <1>3, StaleStep
<1>14. adding' \in [Adder -> Adding] /\ adding'[p] = a /\ \A q \in Adder \ {p} : adding'[q] = ps[q]
  BY <1>6, <1>10, <1>13
<1>15. CurrentInv'
  <2> SUFFICES ASSUME NEW q \in Adder PROVE Placed(adding[q])' /\ Current(adding[q])'
    BY DEF CurrentInv
  <2>1. CASE q = p
    BY <1>11, <1>12, <1>14, <2>1 DEF Placed, Current
  <2>2. CASE q # p
    BY <1>13, <1>14, <2>2 DEF Placed, Current
  <2> QED BY <2>1, <2>2
<1>16. \A q \in Adder : adding'[q].pc = "save" =>
          <<adding'[q].exp.saas, adding'[q].exp.tenant, adding'[q].exp.acct, adding'[q].key>> \in issued'
  <2> SUFFICES ASSUME NEW q \in Adder, adding'[q].pc = "save"
               PROVE  <<adding'[q].exp.saas, adding'[q].exp.tenant, adding'[q].exp.acct, adding'[q].key>> \in issued'
    OBVIOUS
  <2>1. q # p /\ adding'[q] = [adding[q] EXCEPT !.fresh = FALSE]
    BY <1>10, <1>13, <1>14
  <2>2. adding[q] \in Adding
    BY DEF SetupInv, SetupTypes
  <2>3. /\ adding'[q].pc = adding[q].pc /\ adding'[q].exp = adding[q].exp /\ adding'[q].key = adding[q].key
    BY <2>1, <2>2 DEF Adding
  <2> QED BY <1>6, <2>3 DEF SetupInv, IssuedInv
<1>17. DocsFine
  BY <1>6, DocsStay
<1>18. IssuedInv'
  <2>1. A!DialIsBound'
    BY <1>6 DEF SetupInv, IssuedInv, A!DialIsBound
  <2> QED BY <1>16, <1>17, <2>1 DEF IssuedInv, DocsFine
<1>19. SetupTypes'
  <2>1. Sane(cfg)'
    BY <1>6, <1>8 DEF Sane
  <2> QED BY <1>6, <1>7, <1>14, <1>17, <2>1 DEF SetupTypes, DocsFine
<1>20. VerdictInv'
  BY <1>6 DEF VerdictInv
<1> QED BY <1>15, <1>18, <1>19, <1>20 DEF SetupInv

-----------------------------------------------------------------------------
\* A step of the gateway or of a diagnosis: it may load, dial and judge.
LEMMA LookStep ==
    ASSUME SetupConstants, SetupInv, MatchesStay, DocsFine, UNCHANGED <<adding, issued, minted>>,
           A!DialIsBound', VerdictInv', verdict' \subseteq Verdict
    PROVE  SetupInv'
<1>1. adding \in [Adder -> Adding] /\ minted \in Nat /\ Sane(cfg) /\ env \in Environment
  BY DEF SetupInv, SetupTypes
<1>2. ASSUME NEW q \in Adder PROVE Placed(adding[q])' /\ Current(adding[q])'
  <2>1. PICK b \in Adding : b = adding[q]
    BY <1>1
  <2>2. Placed(b) /\ Current(b) /\ adding'[q] = b
    BY <2>1 DEF SetupInv, CurrentInv
  <2>3. Current(b)'
    BY <2>2, CalmSetup
  <2> QED BY <2>2, <2>3 DEF Placed, Current
<1>3. CurrentInv'
  BY <1>2 DEF CurrentInv
<1>4. IssuedInv'
  <2>1. \A q \in Adder : adding'[q].pc = "save" =>
          <<adding'[q].exp.saas, adding'[q].exp.tenant, adding'[q].exp.acct, adding'[q].key>> \in issued'
    BY DEF SetupInv, IssuedInv
  <2> QED BY <2>1 DEF IssuedInv, DocsFine
<1>5. SetupTypes'
  <2>1. Sane(cfg)'
    BY <1>1 DEF Sane, MatchesStay
  <2> QED BY <1>1, <2>1 DEF SetupTypes, DocsFine, MatchesStay
<1> QED BY <1>3, <1>4, <1>5 DEF SetupInv

\* A document that was loaded and matches is what is found from then on.
LEMMA JudgedIsFound ==
    ASSUME SetupConstants, SetupInv, NEW i \in Raw, NEW exp, exp = A!RuntimeExpects(cfg, i),
           A!LoadPersisted(exp), UNCHANGED <<cfg, env, issued>>
    PROVE  /\ MatchesStay /\ DocsFine /\ exp \in Expectation /\ exp.tenant \in Tenant
           /\ A!Evaluate(exp, A!Found(exp)) = "match" => Match(A!RuntimeExpects(cfg, i))'
<1>1. exp \in Expectation /\ exp.tenant \in Tenant
  BY RuntimeTypes DEF SetupInv, SetupTypes
<1>2. MatchesStay /\ DocsFine
  BY <1>1, LoadIsCalm
<1>3. ASSUME A!Evaluate(exp, A!Found(exp)) = "match" PROVE Match(A!RuntimeExpects(cfg, i))'
  <2>1. PICK d : d = A!Found(exp)
    OBVIOUS
  <2>2. d.st = "ok" /\ A!Bound(exp, d) /\ docs'[<<exp.tenant, exp.acct>>] = d
    BY <1>1, <1>3, <2>1, EvaluatesToMatch, LoadedDocuments
  <2>3. A!RuntimeExpects(cfg, i)' = exp
    BY <1>2, CalmSetup
  <2> QED BY <1>1, <2>2, <2>3 DEF Match, A!At, A!Bound
<1> QED BY <1>1, <1>2, <1>3

LEMMA ServeKeepsSetup ==
    ASSUME SetupConstants, SetupInv, NEW i \in Raw, A!Serve(i) PROVE SetupInv'
<1>1. PICK exp : exp = A!RuntimeExpects(cfg, i)
  OBVIOUS
<1>2. /\ A!LoadPersisted(exp) /\ conn' = A!Consumed(exp)
      /\ UNCHANGED <<cfg, env, adding, issued, verdict, minted, edits>>
  BY <1>1 DEF A!Serve
<1>3. MatchesStay /\ DocsFine /\ exp \in Expectation /\ exp.tenant \in Tenant
  BY <1>1, <1>2, JudgedIsFound
<1>4. A!DialIsBound'
  <2>1. CASE A!Evaluate(exp, A!Found(exp)) = "match"
    <3>1. <<exp.saas, exp.tenant, exp.acct, A!Found(exp).key>> \in issued
      BY <1>3, <2>1, EvaluatesToMatch
    <3>2. PICK k : k = A!Found(exp).key
      OBVIOUS
    <3>3. conn' = [on |-> TRUE, exp |-> exp, key |-> k]
      BY <1>2, <2>1, <3>2 DEF A!Consumed
    <3> QED BY <1>2, <3>1, <3>2, <3>3 DEF A!DialIsBound
  <2>2. CASE A!Evaluate(exp, A!Found(exp)) # "match"
    BY <1>2, <2>2 DEF A!Consumed, A!DialIsBound, SetupInv, IssuedInv
  <2> QED BY <2>1, <2>2
<1>5. VerdictInv' /\ verdict' \subseteq Verdict
  BY <1>2, <1>3, CalmSetup DEF SetupInv, SetupTypes
<1> QED BY <1>2, <1>3, <1>4, <1>5, LookStep

\* A verdict on an account that is listed and whose document matches, or none.
LEMMA JudgeStep ==
    ASSUME SetupConstants, SetupInv, NEW i \in Raw, NEW exp, exp = A!RuntimeExpects(cfg, i),
           A!LoadPersisted(exp), UNCHANGED <<cfg, env, adding, issued, conn, minted>>, NEW v \in Verdict,
           \/ verdict' = {}
           \/ /\ verdict' = {v} /\ v.id = i /\ i \in A!Listed(cfg) /\ A!Evaluate(exp, A!Found(exp)) = "match"
              /\ v.by = "doctor" => A!Served(cfg, i) /\ A!Dialable(cfg, i)
    PROVE  SetupInv'
<1>1. /\ MatchesStay /\ DocsFine
      /\ A!Evaluate(exp, A!Found(exp)) = "match" => Match(A!RuntimeExpects(cfg, i))'
  BY JudgedIsFound
<1>2. A!DialIsBound'
  BY DEF A!DialIsBound, SetupInv, IssuedInv
<1>3. /\ A!Listed(cfg)' = A!Listed(cfg) /\ A!Served(cfg, i)' = A!Served(cfg, i)
      /\ A!Dialable(cfg, i)' = A!Dialable(cfg, i)
  BY DEF A!Listed, A!Named, A!Collides, A!Served, A!Enabled, A!HasConfig, A!Dialable, A!Enrolled, A!Account
<1>4. VerdictInv' /\ verdict' \subseteq Verdict
  <2>1. verdict' # {} => Right(v)'
    BY <1>1, <1>3 DEF Right
  <2> QED BY <2>1 DEF VerdictInv
<1> QED BY <1>1, <1>2, <1>4, LookStep

\* No verdict, and nothing loaded.
LEMMA NoVerdictStep ==
    ASSUME SetupConstants, SetupInv, UNCHANGED <<cfg, env, docs, oldCred, adding, issued, conn, minted>>,
           verdict' = {}
    PROVE  SetupInv'
<1>1. MatchesStay /\ DocsFine
  BY DocsStay DEF MatchesStay
<1>2. A!DialIsBound'
  BY DEF A!DialIsBound, SetupInv, IssuedInv
<1>3. VerdictInv' /\ verdict' \subseteq Verdict
  BY DEF VerdictInv
<1> QED BY <1>1, <1>2, <1>3, LookStep

LEMMA DiagnosisKeepsSetup ==
    ASSUME SetupConstants, SetupInv, NEW i \in Raw,
           A!Doctor(i) \/ A!WizardStatus(i) \/ (\E reachable \in BOOLEAN : A!ProbeAccount(i, reachable))
    PROVE  SetupInv'
<1>0. PICK dv \in Verdict, wv \in Verdict :
          /\ dv = [by |-> "doctor", id |-> i] /\ A!InOrder("doctor", i) = {dv}
          /\ wv = [by |-> "wizard", id |-> i] /\ A!InOrder("wizard", i) = {wv}
  BY DEF Verdict, A!InOrder
<1>1. CASE A!Doctor(i)
  <2>1. PICK exp : exp = A!RuntimeExpects(cfg, i)
    OBVIOUS
  <2>2. A!Judge("doctor", i, A!Served(cfg, i) /\ A!Dialable(cfg, i), exp)
    BY <1>1, <2>1 DEF A!Doctor
  <2>3. CASE A!Served(cfg, i) /\ A!Dialable(cfg, i)
    <3>1. /\ A!LoadPersisted(exp) /\ UNCHANGED <<cfg, env, adding, issued, conn, minted>>
          /\ verdict' = IF A!Evaluate(exp, A!Found(exp)) = "match" THEN {dv} ELSE {}
          /\ i \in A!Listed(cfg)
      BY <1>0, <2>2, <2>3 DEF A!Judge, A!NoVerdict, A!Served
    <3> QED BY <1>0, <2>1, <2>3, <3>1, JudgeStep
  <2>4. CASE ~(A!Served(cfg, i) /\ A!Dialable(cfg, i))
    <3>1. verdict' = {} /\ UNCHANGED <<cfg, env, docs, oldCred, adding, issued, conn, minted>>
      BY <2>2, <2>4 DEF A!Judge, A!NoVerdict
    <3> QED BY <3>1, NoVerdictStep
  <2> QED BY <2>3, <2>4
<1>2. CASE A!WizardStatus(i)
  <2> DEFINE in == [tenant |-> A!Unset, saas |-> A!Unset]
  <2>1. PICK exp : exp = A!SetupExpects(cfg, i, in)
    OBVIOUS
  <2>2. \/ A!Judge("wizard", i, i \in A!Listed(cfg) /\ exp.saas # A!Unset, exp)
        \/ /\ ~A!Enrolled(cfg, i) /\ verdict' = IF i \in A!Listed(cfg) /\ A!Account(cfg, i).jwt THEN {wv} ELSE {}
           /\ UNCHANGED <<cfg, env, docs, oldCred, adding, issued, conn, minted>>
    BY <1>0, <1>2, <2>1 DEF A!WizardStatus, A!NoVerdict
  <2>3. CASE A!Judge("wizard", i, i \in A!Listed(cfg) /\ exp.saas # A!Unset, exp)
              /\ i \in A!Listed(cfg) /\ exp.saas # A!Unset
    <3>1. in \in Given /\ in.tenant = A!Unset /\ in.saas = A!Unset
      BY DEF Given, OrUnset
    <3>2. Sane(cfg) /\ env \in Environment
      BY DEF SetupInv, SetupTypes
    <3>3. exp = A!RuntimeExpects(cfg, i)
      <4> HIDE DEF in
      <4> QED BY <2>1, <2>3, <3>1, <3>2, SetupIsRuntime
    <3>4. /\ A!LoadPersisted(exp) /\ UNCHANGED <<cfg, env, adding, issued, conn, minted>>
          /\ verdict' = IF A!Evaluate(exp, A!Found(exp)) = "match" THEN {wv} ELSE {}
      BY <1>0, <2>3 DEF A!Judge, A!NoVerdict
    <3> QED BY <1>0, <2>3, <3>3, <3>4, JudgeStep
  <2>4. CASE A!Judge("wizard", i, i \in A!Listed(cfg) /\ exp.saas # A!Unset, exp)
              /\ ~(i \in A!Listed(cfg) /\ exp.saas # A!Unset)
    <3>1. verdict' = {} /\ UNCHANGED <<cfg, env, docs, oldCred, adding, issued, conn, minted>>
      BY <2>4 DEF A!Judge, A!NoVerdict
    <3> QED BY <3>1, NoVerdictStep
  <2>5. CASE /\ ~A!Enrolled(cfg, i) /\ verdict' = IF i \in A!Listed(cfg) /\ A!Account(cfg, i).jwt THEN {wv} ELSE {}
             /\ UNCHANGED <<cfg, env, docs, oldCred, adding, issued, conn, minted>>
    <3>1. MatchesStay /\ DocsFine
      BY <2>5, DocsStay DEF MatchesStay
    <3>2. A!DialIsBound'
      BY <2>5 DEF A!DialIsBound, SetupInv, IssuedInv
    <3>3. verdict' # {} => Right(wv)'
      <4>1. A!Listed(cfg)' = A!Listed(cfg) /\ A!Enrolled(cfg, i)' = A!Enrolled(cfg, i)
        BY <2>5 DEF A!Listed, A!Named, A!Collides, A!Enrolled, A!Account
      <4> QED BY <1>0, <2>5, <4>1 DEF Right
    <3>4. VerdictInv' /\ verdict' \subseteq Verdict
      BY <2>5, <3>3 DEF VerdictInv
    <3> QED BY <2>5, <3>1, <3>2, <3>4, LookStep
  <2> QED BY <2>2, <2>3, <2>4, <2>5
<1>3. ASSUME NEW reachable \in BOOLEAN, A!ProbeAccount(i, reachable) PROVE SetupInv'
  <2>1. PICK exp : exp = A!RuntimeExpects(cfg, i)
    OBVIOUS
  <2>2. /\ A!LoadPersisted(exp) /\ UNCHANGED <<cfg, env, adding, issued, conn, minted>>
        /\ \/ verdict' = {}
           \/ verdict' = {dv} /\ A!Evaluate(exp, A!Found(exp)) = "match"
        /\ i \in A!Listed(cfg) /\ A!Served(cfg, i) /\ A!Dialable(cfg, i)
    BY <1>0, <1>3, <2>1 DEF A!ProbeAccount, A!NoVerdict, A!Served
  <2> QED BY <1>0, <2>1, <2>2, JudgeStep
<1> QED BY <1>1, <1>2, <1>3

-----------------------------------------------------------------------------
\* What the operator changes leaves no answer and no verdict current.
LEMMA EditStep ==
    ASSUME SetupConstants, SetupInv, A!Edit, Sane(cfg)', env' \in Environment, DocsFine,
           UNCHANGED <<issued, conn, minted>>
    PROVE  SetupInv'
<1>1. PICK ps : ps = A!Stale(adding)
  OBVIOUS
<1>2. adding' = ps /\ verdict' = {}
  BY <1>1 DEF A!Edit, A!NoVerdict
<1>3. /\ ps \in [Adder -> Adding]
      /\ \A q \in Adder : /\ Placed(ps[q]) /\ ~ps[q].fresh
                          /\ ps[q].pc = "save" => ps[q] = [adding[q] EXCEPT !.fresh = FALSE]
  BY <1>1, StaleStep
<1>4. CurrentInv'
  BY <1>2, <1>3 DEF CurrentInv, Placed, Current
<1>5. \A q \in Adder : adding'[q].pc = "save" =>
          <<adding'[q].exp.saas, adding'[q].exp.tenant, adding'[q].exp.acct, adding'[q].key>> \in issued'
  <2> SUFFICES ASSUME NEW q \in Adder, adding'[q].pc = "save"
               PROVE  <<adding'[q].exp.saas, adding'[q].exp.tenant, adding'[q].exp.acct, adding'[q].key>> \in issued'
    OBVIOUS
  <2>1. adding'[q] = [adding[q] EXCEPT !.fresh = FALSE] /\ adding[q] \in Adding
    BY <1>2, <1>3 DEF SetupInv, SetupTypes
  <2>2. /\ adding'[q].pc = adding[q].pc /\ adding'[q].exp = adding[q].exp /\ adding'[q].key = adding[q].key
    BY <2>1 DEF Adding
  <2> QED BY <2>2 DEF SetupInv, IssuedInv
<1>6. A!DialIsBound'
  BY DEF SetupInv, IssuedInv, A!DialIsBound
<1>7. IssuedInv'
  BY <1>5, <1>6 DEF IssuedInv, DocsFine
<1>8. SetupTypes'
  <2>1. minted \in Nat
    BY DEF SetupInv, SetupTypes
  <2> QED BY <1>2, <1>3, <2>1 DEF SetupTypes, DocsFine
<1>9. VerdictInv'
  BY <1>2 DEF VerdictInv
<1> QED BY <1>4, <1>7, <1>8, <1>9 DEF SetupInv

\* One account's settings after an edit.
LEMMA LeafEdit ==
    ASSUME NEW c, Sane(c), NEW i \in Raw, NEW l \in LeafConfig, l.there \/ l = A!NoLeaf,
           NEW w, w = [c EXCEPT !.acct[i] = l]
    PROVE  Sane(w)
<1>1. c \in AccountConfig /\ c.acct \in [Raw -> LeafConfig]
  BY DEF Sane, AccountConfig
<1>2. PICK f : f = [c.acct EXCEPT ![i] = l]
  OBVIOUS
<1>3. f \in [Raw -> LeafConfig] /\ f[i] = l /\ \A j \in Raw \ {i} : f[j] = c.acct[j]
  BY <1>1, <1>2
<1>4. w = [c EXCEPT !.acct = f]
  BY <1>1, <1>2 DEF AccountConfig
<1>5. w \in AccountConfig /\ w.acct = f
  BY <1>1, <1>3, <1>4 DEF AccountConfig
<1> QED BY <1>3, <1>5 DEF Sane

\* The channel's settings after an edit.
LEMMA BaseEdit ==
    ASSUME NEW c, Sane(c), NEW l \in LeafConfig, NEW w, w = [c EXCEPT !.base = l]
    PROVE  Sane(w)
<1>1. c \in AccountConfig
  BY DEF Sane
<1>2. w \in AccountConfig /\ w.acct = c.acct
  BY <1>1 DEF AccountConfig
<1> QED BY <1>2 DEF Sane

LEMMA EditConfigKeepsSetup ==
    ASSUME SetupConstants, SetupInv, NEW i \in Raw, A!EditConfig(i) PROVE SetupInv'
<1>1. /\ A!Edit /\ UNCHANGED <<env, docs, oldCred, issued, conn, minted>>
      /\ Sane(cfg) /\ env \in Environment
  BY DEF A!EditConfig, SetupInv, SetupTypes
<1>2. DocsFine
  BY <1>1, DocsStay
<1>3. PICK c : c = cfg
  OBVIOUS
<1>4. Sane(c) /\ c.base \in LeafConfig /\ c.acct \in [Raw -> LeafConfig] /\ c.acct[i] \in LeafConfig
      /\ c \in AccountConfig
  BY <1>1, <1>3 DEF Sane, AccountConfig
<1>5. PICK w : w = cfg'
  OBVIOUS
<1>6. Sane(w)
  <2>1. CASE cfg' = [cfg EXCEPT !.base.off = ~@]
    <3>1. [c.base EXCEPT !.off = ~@] \in LeafConfig
      BY <1>4 DEF LeafConfig
    <3>2. w = [c EXCEPT !.base = [c.base EXCEPT !.off = ~@]]
      BY <1>3, <1>4, <1>5, <2>1 DEF AccountConfig
    <3> QED BY <1>4, <3>1, <3>2, BaseEdit
  <2>2. ASSUME NEW sa \in Saas, cfg' = [cfg EXCEPT !.base.saas = sa] PROVE Sane(w)
    <3>1. [c.base EXCEPT !.saas = sa] \in LeafConfig
      BY <1>4 DEF LeafConfig, OrUnset
    <3>2. w = [c EXCEPT !.base = [c.base EXCEPT !.saas = sa]]
      BY <1>3, <1>4, <1>5, <2>2 DEF AccountConfig
    <3> QED BY <1>4, <3>1, <3>2, BaseEdit
  <2>3. CASE cfg' = [cfg EXCEPT !.acct[i] = A!NoLeaf]
    <3>1. A!NoLeaf \in LeafConfig
      BY DEF A!NoLeaf, A!NoCred, LeafConfig, CredentialConfig, OrUnset
    <3> QED BY <1>3, <1>4, <1>5, <2>3, <3>1, LeafEdit
  <2>4. ASSUME NEW cr \in CredentialConfig, cfg.acct[i].there, cfg' = [cfg EXCEPT !.acct[i].cred = cr]
        PROVE  Sane(w)
    <3>1. PICK l : l = [c.acct[i] EXCEPT !.cred = cr]
      OBVIOUS
    <3>2. l \in LeafConfig /\ l.there
      BY <1>3, <1>4, <2>4, <3>1 DEF LeafConfig
    <3>3. w = [c EXCEPT !.acct[i] = l]
      BY <1>3, <1>4, <1>5, <2>4, <3>1 DEF AccountConfig
    <3> QED BY <1>4, <3>2, <3>3, LeafEdit
  <2>5. ASSUME NEW t \in Tenant, cfg.acct[i].there, cfg' = [cfg EXCEPT !.acct[i].tenant = t]
        PROVE  Sane(w)
    <3>1. PICK l : l = [c.acct[i] EXCEPT !.tenant = t]
      OBVIOUS
    <3>2. l \in LeafConfig /\ l.there
      BY <1>3, <1>4, <2>5, <3>1 DEF LeafConfig, OrUnset
    <3>3. w = [c EXCEPT !.acct[i] = l]
      BY <1>3, <1>4, <1>5, <2>5, <3>1 DEF AccountConfig
    <3> QED BY <1>4, <3>2, <3>3, LeafEdit
  <2>6. /\ \A sa \in Saas, own \in BOOLEAN :
              [there |-> TRUE, mode |-> "unset", saas |-> sa, own |-> own] \in CredentialConfig
        /\ [there |-> TRUE, mode |-> "static", saas |-> A!Unset, own |-> TRUE] \in CredentialConfig
    BY DEF CredentialConfig, OrUnset
  <2>7. ASSUME NEW pin \in BOOLEAN, NEW cr \in CredentialConfig, cfg.acct[i].there,
               cfg' = [cfg EXCEPT !.acct[i].jwt = pin, !.acct[i].cred = cr]
        PROVE  Sane(w)
    <3>1. PICK l : l = [c.acct[i] EXCEPT !.jwt = pin, !.cred = cr]
      OBVIOUS
    <3>2. l \in LeafConfig /\ l.there
      BY <1>3, <1>4, <2>7, <3>1 DEF LeafConfig
    <3>3. w = [c EXCEPT !.acct[i] = l]
      BY <1>3, <1>4, <1>5, <2>7, <3>1 DEF AccountConfig
    <3> QED BY <1>4, <3>2, <3>3, LeafEdit
  <2> QED BY <2>1, <2>2, <2>3, <2>4, <2>5, <2>6, <2>7 DEF A!EditConfig
<1>7. Sane(cfg)'
  BY <1>5, <1>6 DEF Sane
<1> QED BY <1>1, <1>2, <1>7, EditStep

LEMMA EditEnvKeepsSetup == ASSUME SetupConstants, SetupInv, A!EditEnv PROVE SetupInv'
<1>1. /\ A!Edit /\ UNCHANGED <<cfg, docs, oldCred, issued, conn, minted>> /\ env' \in Environment
  BY DEF A!EditEnv, OrUnset, Environment
<1>2. DocsFine
  BY <1>1, DocsStay
<1>3. Sane(cfg)'
  BY <1>1 DEF Sane, SetupInv, SetupTypes
<1> QED BY <1>1, <1>2, <1>3, EditStep

LEMMA EditFileKeepsSetup ==
    ASSUME SetupConstants, SetupInv, NEW t \in Tenant, NEW i \in Raw, A!EditFile(t, i) PROVE SetupInv'
<1>1. /\ A!Edit /\ UNCHANGED <<cfg, env, oldCred, issued, conn, minted>>
      /\ Sane(cfg) /\ env \in Environment /\ docs \in [Tenant \X Raw -> CredentialDoc]
      /\ \A u \in Tenant, j \in Raw : Issued(docs[<<u, j>>])
  BY DEF A!EditFile, SetupInv, SetupTypes, IssuedInv
<1>2. PICK d \in CredentialDoc : docs' = [docs EXCEPT ![<<t, i>>] = d] /\ Issued(d)
  <2>1. CASE docs' = [docs EXCEPT ![<<t, i>>] = A!NoDoc]
    <3>1. A!NoDoc \in CredentialDoc /\ Issued(A!NoDoc)
      BY DEF A!NoDoc, CredentialDoc, OrUnset, SetupConstants, Issued
    <3> QED BY <2>1, <3>1
  <2>2. ASSUME NEW k \in Tenant \X Raw, docs' = [docs EXCEPT ![<<t, i>>] = docs[k]]
        PROVE  \E d \in CredentialDoc : docs' = [docs EXCEPT ![<<t, i>>] = d] /\ Issued(d)
    <3>1. PICK u \in Tenant, j \in Raw : k = <<u, j>>
      OBVIOUS
    <3>2. docs[k] \in CredentialDoc
      BY <1>1
    <3>3. Issued(docs[k])
      BY <1>1, <3>1
    <3> QED BY <2>2, <3>2, <3>3
  <2>3. ASSUME NEW st \in {"junk", "new", "old"}, docs' = [docs EXCEPT ![<<t, i>>] = [@ EXCEPT !.st = st]]
        PROVE  \E d \in CredentialDoc : docs' = [docs EXCEPT ![<<t, i>>] = d] /\ Issued(d)
    <3>1. PICK b \in CredentialDoc : b = docs[<<t, i>>]
      BY <1>1
    <3>2. PICK d : d = [b EXCEPT !.st = st]
      OBVIOUS
    <3>3. d \in CredentialDoc /\ Issued(d)
      BY <1>1, <3>1, <3>2 DEF CredentialDoc, Issued
    <3>4. docs' = [docs EXCEPT ![<<t, i>>] = d]
      BY <1>1, <2>3, <3>1, <3>2
    <3> QED BY <3>3, <3>4
  <2> QED BY <2>1, <2>2, <2>3 DEF A!EditFile
<1>3. Issued(d)'
  BY <1>1, <1>2 DEF Issued
<1>4. /\ docs' \in [Tenant \X Raw -> CredentialDoc]
      /\ \A u \in Tenant, j \in Raw : Issued(docs[<<u, j>>])'
  <2>1. issued \subseteq issued'
    BY <1>1
  <2> QED BY <1>2, <1>3, <2>1, DocumentStep
<1>5. DocsFine
  <2>1. oldCred' \in [Raw -> CredentialDoc] /\ \A j \in Raw : Issued(oldCred[j])'
    BY <1>1 DEF SetupInv, SetupTypes, IssuedInv, Issued
  <2> QED BY <1>4, <2>1 DEF DocsFine
<1>6. Sane(cfg)'
  BY <1>1 DEF Sane
<1> QED BY <1>1, <1>5, <1>6, EditStep

LEMMA SetupNextKeeps == ASSUME SetupConstants, SetupInv, [A!Next]_(A!vars) PROVE SetupInv'
<1>1. ASSUME NEW p \in Adder, A!Invocation(p) PROVE SetupInv'
  BY <1>1, InspectKeepsSetup, LoadKeepsSetup, PollKeepsSetup, SaveKeepsSetup, ProbeKeepsSetup, ApplyKeepsSetup
     DEF A!Invocation
<1>2. ASSUME NEW i \in Raw,
             \/ A!Serve(i) \/ A!Doctor(i) \/ A!WizardStatus(i) \/ A!EditConfig(i)
             \/ \E reachable \in BOOLEAN : A!ProbeAccount(i, reachable)
      PROVE  SetupInv'
  BY <1>2, ServeKeepsSetup, DiagnosisKeepsSetup, EditConfigKeepsSetup
<1>3. CASE UNCHANGED A!vars
  <2>1. UNCHANGED <<cfg, env, docs, oldCred, adding, issued, conn, verdict, minted>>
    BY <1>3 DEF A!vars
  <2>2. MatchesStay /\ DocsFine
    BY <2>1, DocsStay DEF MatchesStay
  <2>3. A!DialIsBound' /\ verdict' \subseteq Verdict
    BY <2>1 DEF A!DialIsBound, SetupInv, SetupTypes, IssuedInv
  <2>4. VerdictInv'
    BY <2>1, <2>2, CalmSetup
  <2> QED BY <2>1, <2>2, <2>3, <2>4, LookStep
<1> QED BY <1>1, <1>2, <1>3, EditEnvKeepsSetup, EditFileKeepsSetup DEF A!Next

OfSetup == part = "add" => SetupInv
LEMMA SetupHolds == StorageSpec => []OfSetup
<1> SetupConstants
  BY SetupAssumption
<1>1. StorageInit => OfSetup
  BY SetupInitInv DEF StorageInit, OfSetup
<1>2. OfSetup /\ [StorageNext]_storageVars => OfSetup'
  <2> SUFFICES ASSUME OfSetup, [StorageNext]_storageVars, part' = "add" PROVE SetupInv'
    BY DEF OfSetup
  <2>1. part = "add" /\ [A!Next]_(A!vars)
    BY DEF StorageNext, storageVars, addVars, A!vars
  <2> QED BY <2>1, SetupNextKeeps DEF OfSetup
<1> QED BY <1>1, <1>2, PTL DEF StorageSpec

\* consume-credentials.ts: an account is connected with what the SaaS that its
\* configuration and environment named had issued for that tenant and account.
THEOREM AccountsDialTheirOwn == StorageSpec => []DialIsBound
<1>1. SetupInv => A!DialIsBound
  BY DEF SetupInv, IssuedInv
<1>2. OfSetup => DialIsBound
  BY <1>1 DEF OfSetup, DialIsBound
<1> QED BY <1>2, SetupHolds, PTL

\* setup.ts, nats-account-runtime.ts, doctor.ts, setup-wizard.ts: what channels add
\* acquired or kept is what the gateway finds by its own path, for an account that it
\* lists unless another spelling is configured too; what the doctor or a probe finds in
\* order the gateway dials, and what the wizard finds in order is listed and, if it is
\* not static, in place.
THEOREM AnswersAreServed == StorageSpec => []AcquiredIsServed
<1>1. SetupInv => A!AcquiredIsServed
  <2> SUFFICES ASSUME SetupInv PROVE A!AcquiredIsServed
    OBVIOUS
  <2>1. ASSUME NEW exp, Match(exp) PROVE A!Evaluate(exp, A!At(exp)) = "match"
    <3>1. PICK d : d = A!At(exp)
      OBVIOUS
    <3>2. d.st = "ok" /\ A!Bound(exp, d)
      BY <2>1, <3>1 DEF Match
    <3>3. A!Evaluate(exp, d) = "match"
      BY <3>2 DEF A!Evaluate, A!Whole
    <3> QED BY <3>1, <3>3
  <2>2. ASSUME NEW p \in Adder, adding[p].fresh, adding[p].out \in {"acquired", "kept"}
        PROVE  /\ adding[p].id \in A!Listed(cfg) \/ A!Collides(cfg, adding[p].id)
               /\ A!InPlace(adding[p].id)
               /\ adding[p].out = "acquired" => A!At(A!RuntimeExpects(cfg, adding[p].id)).key = adding[p].key
    <3>1. PICK a : a = adding[p]
      OBVIOUS
    <3>2. /\ a.id \in A!Listed(cfg) \/ A!Collides(cfg, a.id)
          /\ a.exp = A!RuntimeExpects(cfg, a.id) /\ Match(a.exp)
          /\ a.out = "acquired" => A!At(a.exp).key = a.key
      BY <2>2, <3>1 DEF SetupInv, CurrentInv, Current
    <3> QED BY <2>1, <3>1, <3>2 DEF A!InPlace
  <2>3. ASSUME NEW v \in verdict
        PROVE  /\ v.id \in A!Listed(cfg)
               /\ v.by = "doctor" => A!Served(cfg, v.id) /\ A!Dialable(cfg, v.id)
               /\ v.by = "doctor" \/ A!Enrolled(cfg, v.id) => A!InPlace(v.id)
    <3>1. Right(v)
      BY <2>3 DEF SetupInv, VerdictInv
    <3> QED BY <2>1, <3>1 DEF Right, A!InPlace
  <2> QED BY <2>2, <2>3 DEF A!AcquiredIsServed
<1>2. OfSetup => AcquiredIsServed
  BY <1>1 DEF OfSetup, AcquiredIsServed
<1> QED BY <1>2, SetupHolds, PTL
=============================================================================
