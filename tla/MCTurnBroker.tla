---------------------------- MODULE MCTurnBroker ----------------------------
(* TLC: messages are interchangeable in the safety run.  The liveness run is bounded  *)
(* by what a behaviour combines: two retries, or a retry and an expiry, or a third    *)
(* message, which a request needs to meet a turn that is closing.  The bound keeps     *)
(* back clients and time, never a task or a request that is under way.                *)
EXTENDS TurnBroker, FiniteSets, TLC

CONSTANT Third   \* the message that is sent only when nothing is retried

Symmetry == Permutations(Msgs)

Load == (IF req[Third] = "new" THEN 0 ELSE 2) + retries + Cardinality(expired)
LoadBound == Load' <= 2
=============================================================================
