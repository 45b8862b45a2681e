--------------------------- MODULE MCConversation ---------------------------
(* What a user decides: the answers to forms, the verdict on a gated call, a rewind.  *)
(* The three share no state, so one behaviour exercises one of them; the others rest  *)
(* before their first step, the gate with a call that was refused.  The wraps are     *)
(* interchangeable.                                                                   *)
EXTENDS ConfirmResume, Rewind, Permission, TLC

VARIABLE part   \* the component this behaviour exercises

GateRests ==
    /\ gated = [tool |-> "read", tier |-> "mutating", planOk |-> FALSE, protected |-> "no",
                out |-> FALSE, runs |-> FALSE]
    /\ seat = [desktop |-> FALSE, isolated |-> FALSE, explicit |-> FALSE, subagent |-> FALSE]
    /\ mode = "default" /\ rules = [deny |-> FALSE, ask |-> FALSE, allow |-> FALSE, script |-> FALSE]
    /\ granted = FALSE /\ at = "refused" /\ question = "none" /\ answer = "none"

ConversationInit ==
    /\ part \in {"confirm", "rewind", "gate"}
    /\ Init /\ RewindInit
    /\ part = "rewind" \/ ~remote
    /\ \/ part = "gate" /\ GateInit
       \/ part # "gate" /\ GateRests

ConversationNext ==
    \/ part = "confirm" /\ Next /\ UNCHANGED <<part, rewindVars, gateVars>>
    \/ part = "rewind" /\ RewindNext /\ UNCHANGED <<part, vars, gateVars>>
    \/ part = "gate" /\ GateNext /\ UNCHANGED <<part, vars, rewindVars>>

conversationVars == <<part, vars, rewindVars, gateVars>>
ConversationSpec == ConversationInit /\ [][ConversationNext]_conversationVars

Symmetry == Permutations(Wraps)

\* What a project has strayed from it never returns to (strayed only grows), and the
\* properties of Rewind say nothing of it: the search does not go on from there.
NotStrayed == strayed = {}
=============================================================================
