-------------------------------- MODULE Turn --------------------------------
(***************************************************************************)
(* Tool activity and the verdict of a turn (packages/plugin/src/           *)
(* inbound.ts).  One process-wide subscription to the host's agent events  *)
(* serves every turn: an event is routed by its run id to the sink of the  *)
(* turn that runs it, and a lifecycle event leaves a verdict for the turn  *)
(* to read when it ends.  The sink gives each tool invocation one public   *)
(* id, though the host names it by a tool call id, an item id, both or     *)
(* neither, and keeps back what the host marked hidden.                    *)
(*                                                                         *)
(* An upstream id is a number, a tool call id smaller than the item id of  *)
(* the same invocation; a generated id is a number above them all.         *)
(***************************************************************************)
EXTENDS Naturals, FiniteSets, Sequences

CONSTANTS
    Turn, Agent, Inv,   \* turns, agent runs and tool invocations
    TurnOf(_),          \* the turn that starts a run
    RunOf(_),           \* the run of an invocation
    IdsOf(_),           \* its upstream ids, possibly none
    MaxId,              \* bound: the largest upstream id
    MaxTracked,         \* MAX_TRACKED_RUNS
    MaxRestarts         \* bound: starts and stops of the subscription

VARIABLES
    turn,       \* each turn: stage, teardown generation at its start, runs, last run...
    acts,       \* each turn's sink: calls, aliases, hidden markers
    sinks,      \* agentRunToolActivitySinks, oldest first: Seq of [run, turn]
    verdicts,   \* agentRunVerdicts, oldest first: Seq of [run, v]
    sub,        \* the subscription: [on, down, starts]; down: toolActivityTeardownGeneration
    inv,        \* the host's invocations: st, ids named so far, hidden or not, public ids shown
    ended       \* how each agent run ended
vars == <<turn, acts, sinks, verdicts, sub, inv, ended>>

EmptySink == [calls |-> <<>>, alias |-> [k \in Agent \X (1..MaxId) |-> 0], gen |-> 0, hidden |-> {}]
Init ==
    /\ turn = [t \in Turn |-> [stage |-> "new", down |-> 0, runs |-> {}, run |-> "none",
                               bad |-> FALSE, out |-> "none"]]
    /\ acts = [t \in Turn |-> EmptySink]
    /\ sinks = <<>> /\ verdicts = <<>> /\ sub = [on |-> TRUE, down |-> 0, starts |-> 0]
    /\ inv = [v \in Inv |-> [st |-> "new", ids |-> {}, hid |-> FALSE, pub |-> {}]]
    /\ ended = [r \in Agent |-> "no"]

(***************************************************************************)
(* createToolActivityCorrelation.  `c' is one sink; a call is its index.   *)
(***************************************************************************)
Smallest(S) == CHOOSE i \in S : \A j \in S : i <= j
Only(S) == IF Cardinality(S) = 1 THEN CHOOSE x \in S : TRUE ELSE 0
NextGeneratedId(c) == MaxId + c.gen + 1
Used(c) == {c.calls[k].id : k \in DOMAIN c.calls}
\* createCall: the first upstream id unless it is taken
CreateCall(c, r, ids, active) ==
    LET own == ids # {} /\ Smallest(ids) \notin Used(c)
        id == IF own THEN Smallest(ids) ELSE NextGeneratedId(c)
    IN  [c EXCEPT !.calls = Append(@, [id |-> id, run |-> r, active |-> active]),
                  !.gen = IF own THEN @ ELSE @ + 1]
\* bind: an alias follows a new start, or an active call where the old one is over.
Bind(c, k, r, ids, replace) ==
    [c EXCEPT !.alias = [a \in DOMAIN @ |->
        IF a[1] = r /\ a[2] \in ids
           /\ (replace \/ @[a] = 0 \/ (c.calls[k].active /\ ~c.calls[@[a]].active)) THEN k ELSE @[a]]]
\* aliasedCall
Aliased(c, r, ids) ==
    LET m == {c.alias[<<r, i>>] : i \in ids} \ {0}
        live == {k \in m : c.calls[k].active}
    IN  IF Cardinality(live) = 1 THEN Only(live) ELSE Only(m)
\* soleActiveCall
SoleActive(c, r) == Only({k \in DOMAIN c.calls : c.calls[k].active /\ c.calls[k].run = r})
StartReusesAlias(c, r, ids) == Aliased(c, r, ids)   \* variant: a finished call is started again
\* The call that a start goes on with: only one that is still active
StartTarget(c, r, ids) ==
    LET k == Aliased(c, r, ids) IN IF k # 0 /\ c.calls[k].active THEN k ELSE 0
\* A start is canonical ("start": the tool's own event or its item) or that of a
\* command or patch item derived from the tool ("derived").
Starts == {"start", "derived"}
\* start, update and complete: the call and the correlation after it
Correlate(c, phase, r, ids) ==
    LET k == IF phase \in Starts THEN StartTarget(c, r, ids)
             ELSE IF Aliased(c, r, ids) # 0 THEN Aliased(c, r, ids) ELSE SoleActive(c, r)
        c1 == IF k = 0 THEN CreateCall(c, r, ids, TRUE) ELSE c
        n == IF k = 0 THEN Len(c1.calls) ELSE k
        c2 == [c1 EXCEPT !.calls[n].active = phase # "end"]
    IN  [c |-> Bind(c2, n, r, ids, phase \in Starts /\ k = 0 /\ ids # {}), id |-> c2.calls[n].id]

(***************************************************************************)
(* createHiddenToolActivityTracker: markers are disjoint sets of aliases.  *)
(***************************************************************************)
Keys(r, ids) == {<<r, i>> : i \in ids}
Matching(h, keys) == {m \in h : m \cap keys # {}}
Hide(h, keys) == IF keys = {} THEN h ELSE (h \ Matching(h, keys)) \cup {keys \cup UNION Matching(h, keys)}
Retired(h, keys) == h \ Matching(h, keys)

(***************************************************************************)
(* createAgentToolActivitySink: one event of an invocation.  A canonical   *)
(* start without the flag makes a reused id visible again; a derived one,  *)
(* that never has the flag, does not.  The output of a command before its  *)
(* end is only looked at for its ids: an update of a hidden invocation,    *)
(* nothing for one that is shown.                                          *)
(***************************************************************************)
Sink(c, v, phase, ids, flagged) ==
    LET keys == Keys(RunOf(v), ids)
        c1 == IF phase = "start" /\ ~flagged THEN [c EXCEPT !.hidden = Retired(@, keys)] ELSE c
        shown == Correlate(c1, phase, RunOf(v), ids)
    IN  IF flagged THEN [c |-> [c1 EXCEPT !.hidden = Hide(@, keys)], pub |-> {}]
        ELSE IF Matching(c1.hidden, keys) # {} THEN [c |-> [c1 EXCEPT !.hidden = Hide(@, keys)], pub |-> {}]
        ELSE [c |-> shown.c, pub |-> {shown.id}]

\* A Map has one entry for a key.
Find(s, r) == IF \E k \in DOMAIN s : s[k].run = r THEN CHOOSE k \in DOMAIN s : s[k].run = r ELSE 0
\* The entries at the places `ks', in order
At(s, ks) == [n \in 1..Cardinality(ks) |-> s[CHOOSE k \in ks : Cardinality({j \in ks : j <= k}) = n]]
Without(s, rs) == At(s, {k \in DOMAIN s : s[k].run \notin rs})
\* A Map's set at its limit: the oldest other entry goes first.
Track(s, e) ==
    IF Find(s, e.run) # 0 THEN [s EXCEPT ![Find(s, e.run)] = e]
    ELSE Append(IF Len(s) >= MaxTracked THEN Tail(s) ELSE s, e)

Live(v) == inv[v].st = "live"
\* Events of it may still come: it is live, or between its first terminal and its last.
Open(v) == inv[v].st \in {"live", "ending"}
Lonely(v) == \A w \in Inv \ {v} : RunOf(w) = RunOf(v) => ~Live(w)
\* Another invocation of the run that is shown was named by it.
Taken(v, i) == \E w \in Inv \ {v} : RunOf(w) = RunOf(v) /\ ~inv[w].hid /\ i \in inv[w].ids
\* What the host may send of an invocation, as the pinned runtime does: a canonical
\* start, flagged if it is hidden, that names the tool call id its item ids derive
\* from; then, in any order, starts of its items (canonical ones flagged as the first,
\* derived ones not), updates and a terminal; then more terminals.  An event names an
\* id that was named before, or none that another one showed while nothing else is
\* live.  A terminal names no id for the first time that another one has shown.
\* An invocation without ids runs alone in its run, with one start and one terminal,
\* and an id is used again once the last event of its invocation has come.
HostMay(v, phase, ids, flagged) ==
    /\ turn[TurnOf(RunOf(v))].stage = "run" /\ RunOf(v) \in turn[TurnOf(RunOf(v))].runs
    /\ ids \subseteq IdsOf(v) /\ (ids = {}) = (IdsOf(v) = {})
    /\ \A w \in Inv : w # v /\ RunOf(w) = RunOf(v) =>
          (Live(w) => IdsOf(w) # {}) /\ (Open(w) => IdsOf(w) \cap IdsOf(v) = {})
    /\ IdsOf(v) = {} => Lonely(v)
    /\ flagged => ids # {}
    /\ inv[v].st = "new" => phase = "start" /\ (IdsOf(v) # {} => Smallest(IdsOf(v)) \in ids)
    /\ inv[v].st # "new" =>
          /\ Open(v) /\ (inv[v].st = "ending" => phase = "end" /\ ids # {})
          /\ phase \in Starts => ids \cap inv[v].ids # {}
          /\ flagged => inv[v].hid
          /\ phase = "start" /\ inv[v].hid => flagged
          /\ phase = "end" => \A i \in ids \ inv[v].ids : ~Taken(v, i)
          /\ \/ ids = {} \/ ids \cap inv[v].ids # {}
             \/ ~inv[v].hid /\ Live(v) /\ Lonely(v) /\ \A i \in ids : ~Taken(v, i)
\* The listener of startAgentLifecycleSubscription, for a tool event
ToolEvent(v, phase, ids, flagged) ==
    /\ HostMay(v, phase, ids, flagged)
    /\ LET k == IF sub.on THEN Find(sinks, RunOf(v)) ELSE 0
           t == sinks[k].turn
           e == Sink(acts[t], v, phase, ids, flagged)
       IN  /\ acts' = IF k = 0 THEN acts ELSE [acts EXCEPT ![t] = e.c]
           /\ inv' = [inv EXCEPT ![v] = [st |-> IF phase = "end" THEN "ending" ELSE "live",
                                         ids |-> @.ids \cup ids,
                                         hid |-> IF @.st = "new" THEN flagged ELSE @.hid,
                                         pub |-> IF k = 0 THEN @.pub ELSE @.pub \cup {<<t, i>> : i \in e.pub}]]
    /\ UNCHANGED <<turn, sinks, verdicts, sub, ended>>
\* The host has nothing more to tell of an invocation.
LastEvent(v) ==
    /\ inv[v].st = "ending"
    /\ inv' = [inv EXCEPT ![v].st = "over"]
    /\ UNCHANGED <<turn, acts, sinks, verdicts, sub, ended>>
\* The same listener for the end of a run, an aborted one counted with the good ones.
\* The host ends a run while its turn waits.
LifecycleEvent(r, v) ==
    /\ ended[r] = "no" /\ r \in turn[TurnOf(r)].runs /\ turn[TurnOf(r)].stage = "run"
    /\ ended' = [ended EXCEPT ![r] = v]
    /\ verdicts' = IF sub.on THEN Track(verdicts, [run |-> r, v |-> v]) ELSE verdicts
    /\ UNCHANGED <<turn, acts, sinks, sub, inv>>

\* startAgentLifecycleSubscription, again after a stop or over a live one: run state stays.
Subscribe ==
    /\ sub.starts < MaxRestarts
    /\ sub' = [sub EXCEPT !.on = TRUE, !.starts = @ + 1]
    /\ UNCHANGED <<turn, acts, sinks, verdicts, inv, ended>>
\* stopAgentLifecycleSubscription
Unsubscribe ==
    /\ sub.on
    /\ sub' = [sub EXCEPT !.on = FALSE, !.down = @ + 1]
    /\ sinks' = <<>> /\ verdicts' = <<>>
    /\ UNCHANGED <<turn, acts, inv, ended>>

(***************************************************************************)
(* handleInboundMessage, as far as runs and the verdict go.                *)
(***************************************************************************)
Begin(t) ==
    /\ turn[t].stage = "new"
    /\ turn' = [turn EXCEPT ![t].stage = "run", ![t].down = sub.down]
    /\ UNCHANGED <<acts, sinks, verdicts, sub, inv, ended>>
\* onAgentRunStart: a turn may start several runs, and only of its own generation
\* does it register a sink.
MayRegister(t) == sub.on /\ turn[t].down = sub.down
RunStart(r) ==
    LET t == TurnOf(r) IN
    /\ turn[t].stage = "run" /\ r \notin turn[t].runs
    /\ turn' = [turn EXCEPT ![t].runs = @ \cup {r}, ![t].run = r]
    /\ sinks' = IF MayRegister(t) THEN Track(sinks, [run |-> r, turn |-> t]) ELSE sinks
    /\ UNCHANGED <<acts, verdicts, sub, inv, ended>>
\* deliver: an error payload
ErrorPayload(t) ==
    /\ turn[t].stage = "run" /\ turn[t].runs # {} /\ ~turn[t].bad
    /\ turn' = [turn EXCEPT ![t].bad = TRUE]
    /\ UNCHANGED <<acts, sinks, verdicts, sub, inv, ended>>
\* The finally block: the verdict of the last run decides, and an error payload
\* only where there is none.
Verdict(t) == LET k == Find(verdicts, turn[t].run) IN IF k = 0 THEN "none" ELSE verdicts[k].v
Outcome(t, threw) ==
    IF threw \/ Verdict(t) = "error" \/ (Verdict(t) = "none" /\ turn[t].bad) THEN "error" ELSE "ok"
Finish(t, threw) ==
    /\ turn[t].stage = "run"
    /\ turn' = [turn EXCEPT ![t].stage = "over", ![t].bad = @ \/ threw, ![t].out = Outcome(t, threw)]
    \* unregisterAgentRunToolActivitySink takes only the turn's own sink.
    /\ sinks' = At(sinks, {k \in DOMAIN sinks : ~(sinks[k].run \in turn[t].runs /\ sinks[k].turn = t)})
    /\ verdicts' = Without(verdicts, turn[t].runs)
    /\ acts' = [acts EXCEPT ![t] = EmptySink]      \* nothing refers to it any more
    /\ UNCHANGED <<sub, inv, ended>>

Next ==
    \/ Subscribe \/ Unsubscribe
    \/ \E t \in Turn : Begin(t) \/ ErrorPayload(t) \/ \E b \in BOOLEAN : Finish(t, b)
    \/ \E r \in Agent : RunStart(r) \/ \E v \in {"ok", "error"} : LifecycleEvent(r, v)
    \/ \E v \in Inv : LastEvent(v)
    \/ \E v \in Inv, phase \in Starts \cup {"update", "end"}, ids \in SUBSET (1..MaxId), b \in BOOLEAN :
          ToolEvent(v, phase, ids, b)
Spec == Init /\ [][Next]_vars

-----------------------------------------------------------------------------
\* Tool activity reaches the turn that ran the tool and nobody else: every sink is
\* of a live turn of this generation; an invocation has one public id in its own
\* turn however its events name it, no two share one although the host reuses ids,
\* and a hidden one never shows.  An outcome of error has a cause in the turn's own
\* last run.
ActivityIsItsTurns ==
    /\ \A k \in DOMAIN sinks : LET t == sinks[k].turn IN
          turn[t].stage = "run" /\ turn[t].down = sub.down /\ sinks[k].run \in turn[t].runs
    /\ \A v \in Inv :
          /\ Cardinality(inv[v].pub) <= (IF inv[v].hid THEN 0 ELSE 1)
          /\ \A p \in inv[v].pub : p[1] = TurnOf(RunOf(v))
          /\ \A w \in Inv \ {v} : inv[v].pub \cap inv[w].pub = {}
    /\ \A t \in Turn : turn[t].out = "error" =>
          turn[t].bad \/ (turn[t].run # "none" /\ ended[turn[t].run] = "error")
=============================================================================
