---------------------------- MODULE Conversation ----------------------------
(***************************************************************************)
(* What a session promises to who reads its transcript, with no requests,  *)
(* reads or commits in sight: one turn is said after another, each knows   *)
(* its number, and each is what the turns before it call for.  Nothing     *)
(* said is changed or taken back.                                          *)
(*                                                                         *)
(* TurnFlow.tla is the detailed specification; ImplementsConversation in   *)
(* TurnFlowProofs.tla shows that it implements this one.                   *)
(***************************************************************************)
EXTENDS SopGraph, Naturals, Sequences

CONSTANTS
    Sops,       \* procedures
    Graph,      \* Graph[s]: the graph of s, see SopGraph
    None        \* no procedure, no action, no state

VARIABLE said   \* the turns, in their order

ConversationInit == said = <<>>

SaidTurns == {said[i] : i \in DOMAIN said}

\* What turn's procedure takes to be visited once turn has told the state.
VisitedAt(turn) ==
    Visited(Graph[turn.sop], {t.action : t \in SaidTurns}, {t.state : t \in SaidTurns} \cup {turn.state})

\* A gated turn takes an action that its procedure allows after what was said.
Gated(turn) ==
    /\ turn.kind = "gated" /\ turn.sop \in Sops
    /\ turn.action \in Allowed(Graph[turn.sop], VisitedAt(turn))

\* An advisory turn keeps to the vocabulary of its procedure, in any order.
Advised(turn) ==
    /\ turn.kind = "advisory" /\ turn.sop \in Sops
    /\ turn.action \in Graph[turn.sop].actions
    /\ turn.state \in Graph[turn.sop].states \cup {None}

\* A turn without a procedure opens the conversation, or there was none to take.
Undecided(turn) ==
    /\ turn.kind = "intake"
    /\ turn.starved \/ said = <<>>

Say(turn) ==
    /\ said' = Append(said, turn)
    /\ turn.index = Len(said)
    /\ Gated(turn) \/ Advised(turn) \/ Undecided(turn)

ConversationNext == \E n \in DOMAIN said' : Say(said'[n])

ConversationSpec == ConversationInit /\ [][ConversationNext]_said
=============================================================================
