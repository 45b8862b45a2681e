----------------------------- MODULE MCServices -----------------------------
(* What must eventually happen beside the turn broker, and the safety of sub-agents and  *)
(* of the event stream.  The components share no state, so one behaviour exercises one   *)
(* of them and the others rest in their initial state, where nothing fair is enabled.    *)
EXTENDS ProcessRegistry, Subagents, TurnTail

CONSTANTS Wraps, Questions, MaxContinues, ConfirmEvents, ConfirmTurns, EarlyFailure

VARIABLES
    part,   \* the component this behaviour exercises
    history, phase, msg, status, out, fail, round, sawAny, dangling, sawError, turns, ran, vote, broken

CR == INSTANCE ConfirmResume WITH MaxEvents <- ConfirmEvents, MaxTurns <- ConfirmTurns

confirmVars == <<history, phase, msg, status, out, fail, round, sawAny, dangling, sawError,
                 turns, ran, vote, broken>>

ServicesInit ==
    /\ part \in {"process", "subagents", "tail", "confirm"}
    /\ Init /\ SubInit /\ TailInit /\ CR!Init
    /\ part = "process" \/ \A p \in Procs : stage[p] = "over"

ServicesNext ==
    /\ UNCHANGED part
    /\ \/ part = "process" /\ Next /\ UNCHANGED <<subVars, tailVars, confirmVars>>
       \/ part = "subagents" /\ SubNext /\ UNCHANGED <<vars, tailVars, confirmVars>>
       \/ part = "tail" /\ TailNext /\ UNCHANGED <<vars, subVars, confirmVars>>
       \/ part = "confirm" /\ CR!Next /\ UNCHANGED <<vars, subVars, tailVars>>

servicesVars == <<part, vars, subVars, tailVars, confirmVars>>
ServicesSpec ==
    /\ ServicesInit /\ [][ServicesNext]_servicesVars
    /\ PumpFairness /\ SubFairness /\ TailFairness
    /\ WF_confirmVars(CR!Run)

\* ConfirmResume's TurnsEnd: a turn that the form plugin and the broker continue by
\* themselves comes to its end.
ConfirmTurnsEnd == CR!TurnsEnd
=============================================================================
