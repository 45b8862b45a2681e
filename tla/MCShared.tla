------------------------------ MODULE MCShared ------------------------------
(* What several parties share: the wiki of a tenant and the sandbox of a session.  The   *)
(* two share no state, so one behaviour exercises one of them; the other rests in its    *)
(* initial state, where nothing fair is enabled.                                         *)
EXTENDS Wiki, BringUp

VARIABLE part   \* the component this behaviour exercises

SandboxRests ==
    /\ backend = (CHOOSE b \in Backends : TRUE) /\ sandbox = NoBox
    /\ home = [c \in Tools |-> CHOOSE l \in Loops : TRUE]

SharedInit ==
    /\ part \in {"wiki", "sandbox"}
    /\ WikiInit /\ BringInit
    /\ part = "sandbox" \/ SandboxRests

SharedNext ==
    \/ part = "wiki" /\ WikiNext /\ UNCHANGED <<part, bringVars>>
    \/ part = "sandbox" /\ BringNext /\ UNCHANGED <<part, wikiVars>>

sharedVars == <<part, wikiVars, bringVars>>
SharedSpec ==
    SharedInit /\ [][SharedNext]_sharedVars /\ WikiFairness /\ BringFairness
=============================================================================
