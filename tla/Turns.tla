------------------------------- MODULE Turns -------------------------------
(***************************************************************************)
(* The four components of an agent turn.  They share no state on the       *)
(* questions asked of them, so a behaviour runs one of them, and the state *)
(* space is the sum of theirs and not the product.                         *)
(***************************************************************************)
EXTENDS Naturals, FiniteSets, Sequences

CONSTANTS
    Run, OriginOf(_), Presence, MaxPoisoned, MaxNow, MaxEpoch,
    Approval, Device, AcctOf(_), Configured, Approver, For(_), BindCap, PendingCap, ResolvedCap,
        MaxFrames, MaxLeaves,
    MaxMsg, MaxLen, MaxBlocks, MaxFlips,
    Turn, Agent, Inv, TurnOf(_), RunOf(_), IdsOf(_), MaxId, MaxTracked, MaxRestarts

\* The clock starts at 1; the stores of approvals have room for one.
OriginConstants == MaxNow \in Nat /\ MaxNow >= 1
ASSUME OriginAssumption == OriginConstants
ApprovalConstants == PendingCap \in Nat \ {0} /\ ResolvedCap \in Nat \ {0}
ASSUME ApprovalAssumption == ApprovalConstants

VARIABLES
    part,
    now, handle, made, claims, epoch, barrier, trusted, poisoned, global, asked,
    core, bound, pending, resolved, entries, inbox, on, synced, cards, wire, left, gone,
    draft, msgs, blocks, finals, stage,
    turn, acts, sinks, verdicts, sub, inv, ended

Origin == INSTANCE OriginLease
Approve == INSTANCE Approvals
Draft == INSTANCE Drafts WITH d <- draft
Activity == INSTANCE Turn
\* The ids of an invocation derive from its tool call id, the smallest of them, so
\* invocations of a run that share an id share that one.
ActivityConstants ==
    /\ MaxId \in Nat /\ MaxTracked \in Nat \ {0} /\ "none" \notin Agent
    /\ \A r \in Agent : TurnOf(r) \in Turn
    /\ \A v \in Inv : RunOf(v) \in Agent /\ IdsOf(v) \subseteq 1..MaxId
    /\ \A v, w \in Inv : RunOf(v) = RunOf(w) /\ IdsOf(v) \cap IdsOf(w) # {} =>
          Activity!Smallest(IdsOf(v)) = Activity!Smallest(IdsOf(w))
ASSUME ActivityAssumption == ActivityConstants

originVars == <<now, handle, made, claims, epoch, barrier, trusted, poisoned, global, asked>>
approveVars == <<core, bound, pending, resolved, entries, inbox, on, synced, cards, wire, left, gone>>
draftVars == <<draft, msgs, blocks, finals, stage>>
activityVars == <<turn, acts, sinks, verdicts, sub, inv, ended>>
vars == <<part, originVars, approveVars, draftVars, activityVars>>
Init ==
    /\ part \in {"origin", "approve", "draft", "activity"}
    /\ Origin!Init /\ Approve!Init /\ Draft!Init /\ Activity!Init
Next ==
    \/ part = "origin" /\ Origin!Next /\ UNCHANGED <<part, approveVars, draftVars, activityVars>>
    \/ part = "approve" /\ Approve!Next /\ UNCHANGED <<part, originVars, draftVars, activityVars>>
    \/ part = "draft" /\ Draft!Next /\ UNCHANGED <<part, originVars, approveVars, activityVars>>
    \/ part = "activity" /\ Activity!Next /\ UNCHANGED <<part, originVars, approveVars, draftVars>>
Spec == Init /\ [][Next]_vars

\* OriginLease: a request is shown only to the peer whose run made it.
OriginIsTheRun == part = "origin" => Origin!OriginIsTheRun
\* Approvals: a device that is up to date agrees with the plugin on every card.
CardsAgree == part = "approve" => Approve!CardsAgree
\* Drafts: a bubble has one owner, and bubbles stay in the order of the messages.
BubblesKeepTheirPlace == part = "draft" => Draft!BubblesKeepTheirPlace
\* Turn: tool activity reaches the turn that ran the tool, under one id.
ActivityIsItsTurns == part = "activity" => Activity!ActivityIsItsTurns
=============================================================================
