------------------------------ MODULE TurnSlot ------------------------------
(***************************************************************************)
(* What the turn broker promises about the turns of one session, without   *)
(* tasks, queues or cancellations: turns are created in order, a turn is   *)
(* created only when no other one runs, and each ends once and for good.   *)
(***************************************************************************)
EXTENDS Integers

CONSTANT MaxTurns   \* bound: turns of the session

VARIABLE life       \* life[t]: "none", "running" or how turn t ended

SlotTurns == 1..MaxTurns
Endings == {"done", "error", "aborted"}

SlotInit == life = [t \in SlotTurns |-> "none"]

\* Turn n is the next one to be created.
Fresh(n) ==
    /\ n \in SlotTurns /\ life[n] = "none"
    /\ \A t \in SlotTurns : t < n => life[t] # "none"

Free(except) == \A t \in SlotTurns \ except : life[t] # "running"

\* A turn starts on an idle session.
Enter(n) ==
    /\ Fresh(n) /\ Free({})
    /\ life' = [life EXCEPT ![n] = "running"]

\* The running turn ends.
Leave(t, how) ==
    /\ t \in SlotTurns /\ life[t] = "running" /\ how \in Endings
    /\ life' = [life EXCEPT ![t] = how]

\* The running turn ends and the next one takes its place in the same step: a
\* follow-up turn, or a send-now whose stopped turn had not recorded its end.
HandOver(t, how, n) ==
    /\ t \in SlotTurns /\ life[t] = "running" /\ how \in Endings
    /\ Fresh(n) /\ Free({t})
    /\ life' = [life EXCEPT ![t] = how, ![n] = "running"]

SlotNext ==
    \/ \E n \in SlotTurns : Enter(n)
    \/ \E t \in SlotTurns, how \in Endings : Leave(t, how)
    \/ \E t, n \in SlotTurns, how \in Endings : HandOver(t, how, n)

SlotSpec == SlotInit /\ [][SlotNext]_life
=============================================================================
