-------------------------- MODULE TurnBrokerProofs --------------------------
(***************************************************************************)
(* Theorems about TurnBroker, for every number of texts, turns, retries    *)
(* and cancellations, and for stubborn tasks and failing storage too.      *)
(*                                                                         *)
(* Every step of the broker moves the session's turn slot in one of three  *)
(* ways (SlotStep): turns end, a turn grows old, or a turn starts on the   *)
(* idle slot.  That single-flight, final ends and the refinement of        *)
(* TurnSlot follow from SlotStep alone; that the broker takes no other     *)
(* step needs, beside SlotInv, an invariant about tasks that still unwind  *)
(* after their turn was given up (TaskInv).                                *)
(*                                                                         *)
(* The theorems about tasks, tool calls, the history and the queued texts  *)
(* each add one invariant to these: EndedTasks and CallInv (one driver,    *)
(* answered calls), StoredInv (answered texts stay), MailInv (a text is in *)
(* one place at a time) and TookInv (a queued text is accounted for).      *)
(***************************************************************************)
EXTENDS TurnBroker, TLAPS, SequenceTheorems

USE TurnBrokerAssumption

-----------------------------------------------------------------------------
(* Type correctness.  The type of the history counts (never negative)      *)
(* needs two facts about the run: a turn that is storing texts holds at    *)
(* least one, and the texts of the session's last event are in the         *)
(* history.                                                                *)

DrainHolds == \A t \in Turns : task[t] = "drain" => hand[t] # <<>> /\ steps[t] < MaxSteps
LastIsStored == \A i \in DOMAIN lastUser : copies[lastUser[i]] > 0

TypeInv == TypeOK /\ DrainHolds /\ LastIsStored

-----------------------------------------------------------------------------
(* Sequences, and the parts of the state that an action leaves alone.      *)

LEMMA WithoutType ==
    ASSUME NEW S, NEW s \in Seq(S), NEW i \in DOMAIN s
    PROVE  Without(s, i) \in Seq(S)
BY DEF Without

LEMMA TableFrame == TableOK /\ UNCHANGED tableVars => TableOK'
BY DEF TableOK, tableVars
LEMMA TaskFrame == TaskOK /\ UNCHANGED taskVars => TaskOK'
BY DEF TaskOK, taskVars
LEMMA MailFrame == MailOK /\ UNCHANGED mailVars => MailOK'
BY DEF MailOK, mailVars
LEMMA SessFrame == SessOK /\ LastIsStored /\ UNCHANGED sessVars => SessOK' /\ LastIsStored'
BY DEF SessOK, LastIsStored, sessVars
LEMMA ReqFrame == ReqOK /\ UNCHANGED reqVars => ReqOK'
BY DEF ReqOK, reqVars

LEMMA CurIsTurn ==
    ASSUME TypeOK, NEW st, Busy(st) PROVE Cur \in Turns
BY DEF TypeOK, TableOK, Busy, Cur, NoTurn

LEMMA StartTypes ==
    ASSUME TypeOK, NEW texts \in Seq(Msgs), NEW st \in [Turns -> Statuses],
           NEW tk \in [Turns -> Phases], StartTurn(texts, st, tk),
           retries' \in 0..MaxRetries, expired' = expired
    PROVE  TableOK' /\ status' \in [Turns -> Statuses] /\ task' \in [Turns -> Phases]
<1>1. count + 1 \in Turns /\ count \in 0..MaxTurns
    BY DEF StartTurn, TypeOK, TableOK
<1>2. CurAfterGc \in 0..MaxTurns
    BY DEF CurAfterGc, TypeOK, TableOK, NoTurn
<1>3. status' \in [Turns -> Statuses] /\ task' \in [Turns -> Phases]
    BY DEF StartTurn, Statuses, Phases
<1>4. message' \in [Turns -> Seq(Msgs)] /\ orphanOf' \in [Turns -> 0..MaxTurns]
    BY <1>2 DEF StartTurn, TypeOK, TableOK, NoTurn
<1>5. count' \in 0..MaxTurns /\ latest' \in 0..MaxTurns /\ known' \subseteq Turns
    BY <1>1 DEF StartTurn, TypeOK, TableOK, Turns
<1> QED
    BY <1>3, <1>4, <1>5 DEF TypeOK, TableOK

LEMMA StartForTypes ==
    ASSUME TypeInv, NEW m \in Msgs, StartFor(m) PROVE TypeInv'
<1>1. <<m>> \in Seq(Msgs)
    OBVIOUS
<1>2. TableOK' /\ status' \in [Turns -> Statuses] /\ task' \in [Turns -> Phases]
    BY <1>1, StartTypes DEF StartFor, TypeInv, TypeOK, TaskOK, TableOK
<1>3. TaskOK'
    BY <1>2 DEF StartFor, TypeInv, TypeOK, TaskOK
<1>4. MailOK' /\ SessOK'
    BY DEF StartFor, TypeInv, TypeOK, MailOK, SessOK, mailVars, sessVars
<1>5. ReqOK'
    BY DEF StartFor, TypeInv, TypeOK, ReqOK, Requests
<1>6. DrainHolds' /\ LastIsStored'
    BY DEF StartFor, StartTurn, TypeInv, TypeOK, TaskOK, DrainHolds, LastIsStored, mailVars, sessVars
<1> QED
    BY <1>2, <1>3, <1>4, <1>5, <1>6 DEF TypeInv, TypeOK, DrainHolds, LastIsStored

LEMMA AnswerTypes ==
    ASSUME TypeInv, NEW m, NEW r \in Requests, Answer(m, r) PROVE TypeInv'
BY TableFrame, TaskFrame, MailFrame, SessFrame
   DEF Answer, TypeInv, TypeOK, DrainHolds, LastIsStored, ReqOK, taskVars, mailVars

LEMMA EnqueueTypes ==
    ASSUME TypeInv, NEW m \in Msgs, EnqueuePass(m) PROVE TypeInv'
<1>1. CASE ~Busy(status)
    BY <1>1, StartForTypes DEF EnqueuePass
<1>2. CASE Busy(status) /\ ~accepting[Cur]
    BY <1>2, AnswerTypes DEF EnqueuePass, Requests
<1>3. CASE Busy(status) /\ accepting[Cur]
    <2>1. MailOK'
        <3>1. Cur \in Turns
            BY <1>3, CurIsTurn DEF TypeInv
        <3>2. Append(queue[Cur], m) \in Seq(Msgs) /\ took[Cur] \cup {m} \in SUBSET Msgs
            BY <3>1 DEF TypeInv, TypeOK, MailOK
        <3>3. /\ queue' = [queue EXCEPT ![Cur] = Append(queue[Cur], m)]
              /\ took' = [took EXCEPT ![Cur] = took[Cur] \cup {m}]
              /\ hand' = hand /\ unstored' = unstored
            BY <1>3 DEF EnqueuePass
        <3>4. queue' \in [Turns -> Seq(Msgs)]
            BY <3>2, <3>3 DEF TypeInv, TypeOK, MailOK
        <3>5. took' \in [Turns -> SUBSET Msgs]
            BY <3>2, <3>3 DEF TypeInv, TypeOK, MailOK
        <3> QED
            BY <3>3, <3>4, <3>5 DEF TypeInv, TypeOK, MailOK
    <2>2. ReqOK'
        BY <1>3 DEF EnqueuePass, TypeInv, TypeOK, ReqOK, Requests
    <2> QED
        BY <1>3, <2>1, <2>2, TableFrame, TaskFrame, SessFrame
           DEF EnqueuePass, TypeInv, TypeOK, DrainHolds, LastIsStored, taskVars
<1> QED
    BY <1>1, <1>2, <1>3

LEMMA CancelTypes ==
    ASSUME TypeOK, NEW ts \in SUBSET Turns, Cancel(ts)
    PROVE  cancel' \in [Turns -> BOOLEAN] /\ hits' \in [Turns -> 0..MaxHits]
BY DEF Cancel, TypeOK, TaskOK

-----------------------------------------------------------------------------
(* Requests.                                                               *)

LEMMA InterruptTypes ==
    ASSUME TypeInv, NEW m \in Msgs, PostInterrupt(m) PROVE TypeInv'
<1>1. CASE ~Busy(status)
    BY <1>1, StartForTypes DEF PostInterrupt
<1>2. CASE Busy(status)
    <2>1. Cur \in Turns
        BY <1>2, CurIsTurn DEF TypeInv
    <2>2. cancel' \in [Turns -> BOOLEAN] /\ hits' \in [Turns -> 0..MaxHits]
        BY <1>2, <2>1, CancelTypes DEF PostInterrupt, TypeInv
    <2>3. TaskOK'
        BY <1>2, <2>2 DEF PostInterrupt, TypeInv, TypeOK, TaskOK
    <2>4. MailOK'
        <3>1. <<>> \in Seq(Msgs)
            OBVIOUS
        <3>2. queue' \in [Turns -> Seq(Msgs)]
            BY <1>2, <3>1 DEF PostInterrupt, TypeInv, TypeOK, MailOK
        <3> QED
            BY <1>2, <3>2 DEF PostInterrupt, TypeInv, TypeOK, MailOK
    <2>5. queue[Cur] \in Seq(Msgs) /\ Cur \in 0..MaxTurns
        BY <2>1 DEF TypeInv, TypeOK, MailOK, Turns
    <2>6. ReqOK'
        <3>1. req' \in [Msgs -> Requests] /\ target' \in [Msgs -> 0..MaxTurns]
            BY <1>2, <2>5 DEF PostInterrupt, TypeInv, TypeOK, ReqOK, Requests
        <3>2. carried' \in [Msgs -> Seq(Msgs)]
            BY <1>2, <2>5 DEF PostInterrupt, TypeInv, TypeOK, ReqOK
        <3>3. waiting' \in Seq(Msgs)
            <4>1. waiting' = Append(waiting, m) /\ waiting \in Seq(Msgs)
                BY <1>2 DEF PostInterrupt, TypeInv, TypeOK, ReqOK
            <4> QED
                BY <4>1
        <3> QED
            BY <3>1, <3>2, <3>3 DEF ReqOK
    <2> QED
        BY <1>2, <2>3, <2>4, <2>6, TableFrame, SessFrame
           DEF PostInterrupt, TypeInv, TypeOK, DrainHolds, LastIsStored
<1> QED
    BY <1>1, <1>2

LEMMA ResumeInterruptTypes ==
    ASSUME TypeInv, NEW m \in Msgs, InterruptGoesOn(m) PROVE TypeInv'
<1> DEFINE t == target[m]
           st == IF status[t] = "running" THEN [status EXCEPT ![t] = "aborted"] ELSE status
<1>1. st \in [Turns -> Statuses]
    BY DEF TypeInv, TypeOK, TaskOK, Statuses, Terminal
<1>2. waiting' \in Seq(Msgs)
    BY WithoutType DEF InterruptGoesOn, ResumeInterrupt, TypeInv, TypeOK, ReqOK
<1>3. CASE Busy(st)
    <2>1. TableOK' /\ SessOK' /\ MailOK' /\ LastIsStored'
        BY <1>3, TableFrame, SessFrame, MailFrame
           DEF InterruptGoesOn, ResumeInterrupt, TypeInv, TypeOK, DrainHolds, LastIsStored
    <2>2. TaskOK'
        BY <1>1, <1>3 DEF InterruptGoesOn, ResumeInterrupt, TypeInv, TypeOK, TaskOK
    <2>3. ReqOK'
        BY <1>2, <1>3 DEF InterruptGoesOn, ResumeInterrupt, TypeInv, TypeOK, ReqOK, Requests
    <2> QED
        BY <1>3, <2>1, <2>2, <2>3
           DEF InterruptGoesOn, ResumeInterrupt, TypeInv, TypeOK, DrainHolds, LastIsStored, mailVars
<1>4. CASE ~Busy(st)
    <2>1. Append(carried[m], m) \in Seq(Msgs)
        BY DEF TypeInv, TypeOK, ReqOK
    <2>2. StartTurn(Append(carried[m], m), st, task) /\ UNCHANGED <<expired, retries>>
        BY <1>4 DEF InterruptGoesOn, ResumeInterrupt
    <2>3. TableOK' /\ status' \in [Turns -> Statuses] /\ task' \in [Turns -> Phases]
        <3>1. retries' \in 0..MaxRetries /\ task \in [Turns -> Phases] /\ TypeOK
            BY <2>2 DEF TypeInv, TypeOK, TableOK, TaskOK
        <3> HIDE DEF st
        <3> QED
            BY <1>1, <2>1, <2>2, <3>1, StartTypes
    <2>4. SessOK' /\ MailOK' /\ LastIsStored'
        BY <1>4, SessFrame, MailFrame
           DEF InterruptGoesOn, ResumeInterrupt, TypeInv, TypeOK, DrainHolds, LastIsStored
    <2>5. TaskOK'
        BY <2>3 DEF InterruptGoesOn, ResumeInterrupt, TypeInv, TypeOK, TaskOK
    <2>6. ReqOK'
        <3>1. <<>> \in Seq(Msgs)
            OBVIOUS
        <3>2. carried' \in [Msgs -> Seq(Msgs)]
            BY <1>4, <3>1 DEF InterruptGoesOn, ResumeInterrupt, TypeInv, TypeOK, ReqOK
        <3>3. req' \in [Msgs -> Requests]
            BY <1>4 DEF InterruptGoesOn, ResumeInterrupt, TypeInv, TypeOK, ReqOK, Requests
        <3> QED
            BY <1>2, <3>2, <3>3 DEF InterruptGoesOn, ResumeInterrupt, TypeInv, TypeOK, ReqOK
    <2>7. DrainHolds'
        BY <2>2 DEF InterruptGoesOn, ResumeInterrupt, StartTurn, TypeInv, TypeOK, TaskOK,
                    DrainHolds, mailVars
    <2> QED
        BY <2>3, <2>4, <2>5, <2>6, <2>7 DEF TypeInv, TypeOK, DrainHolds, LastIsStored
<1> QED
    BY <1>3, <1>4

LEMMA ClientTypes == ASSUME TypeInv, Client PROVE TypeInv'
<1>1. ASSUME NEW m \in Msgs, PostStart(m) PROVE TypeInv'
    BY <1>1, StartForTypes, AnswerTypes DEF PostStart, Requests
<1>2. ASSUME NEW m \in Msgs, PostQueue(m) PROVE TypeInv'
    BY <1>2, EnqueueTypes DEF PostQueue
<1>3. ASSUME NEW m \in Msgs, PostInterrupt(m) PROVE TypeInv'
    BY <1>3, InterruptTypes
<1>4. ASSUME NEW m \in Msgs, NEW t \in Turns, Withdraw(m, t) PROVE TypeInv'
    <2>1. MailOK'
        BY <1>4, WithoutType DEF Withdraw, TypeInv, TypeOK, MailOK
    <2>2. ReqOK'
        BY <1>4 DEF Withdraw, TypeInv, TypeOK, ReqOK, Requests
    <2> QED
        BY <1>4, <2>1, <2>2, TableFrame, TaskFrame, SessFrame
           DEF Withdraw, TypeInv, TypeOK, DrainHolds, LastIsStored, taskVars
<1>5. ASSUME NEW ts \in SUBSET Turns, Cancel(ts),
             UNCHANGED <<tableVars, status, task, accepting, out, steps, followup,
                         mailVars, sessVars, reqVars>>
      PROVE  TypeInv'
    <2>1. TaskOK'
        BY <1>5, CancelTypes DEF TypeInv, TypeOK, TaskOK
    <2> QED
        BY <1>5, <2>1, TableFrame, MailFrame, SessFrame, ReqFrame
           DEF TypeInv, TypeOK, DrainHolds, LastIsStored, mailVars
<1>6. ASSUME NEW t \in Turns, Abort(t) PROVE TypeInv'
    BY <1>5, <1>6 DEF Abort
<1>7. CASE AbortSession
    BY <1>5, <1>7 DEF AbortSession, TypeInv, TypeOK, TableOK
<1>8. ASSUME NEW t \in Turns, Expire(t) PROVE TypeInv'
    <2>1. TableOK'
        BY <1>8 DEF Expire, TypeInv, TypeOK, TableOK
    <2> QED
        BY <1>8, <2>1, TaskFrame, MailFrame, SessFrame, ReqFrame
           DEF Expire, TypeInv, TypeOK, DrainHolds, LastIsStored, taskVars, mailVars
<1>9. CASE RetryLast
    <2>1. Cur \in Turns
        BY <1>9 DEF RetryLast, Cur, NoTurn, TypeInv, TypeOK, TableOK
    <2>2. message[Cur] \in Seq(Msgs) /\ retries' \in 0..MaxRetries
        BY <1>9, <2>1 DEF RetryLast, TypeInv, TypeOK, TableOK
    <2>3. TableOK' /\ status' \in [Turns -> Statuses] /\ task' \in [Turns -> Phases]
        BY <1>9, <2>2, StartTypes DEF RetryLast, TypeInv, TypeOK, TaskOK
    <2>4. TaskOK'
        BY <1>9, <2>3 DEF RetryLast, TypeInv, TypeOK, TaskOK
    <2>5. DrainHolds'
        BY <1>9 DEF RetryLast, StartTurn, TypeInv, TypeOK, TaskOK, DrainHolds, mailVars
    <2> QED
        BY <1>9, <2>3, <2>4, <2>5, MailFrame, SessFrame, ReqFrame
           DEF RetryLast, TypeInv, TypeOK, DrainHolds, LastIsStored
<1> QED
    BY <1>1, <1>2, <1>3, <1>4, <1>6, <1>7, <1>8, <1>9 DEF Client

LEMMA ResumeTypes == ASSUME TypeInv, NEW m \in Msgs, Resume(m) PROVE TypeInv'
<1>1. CASE PollAgain(m)
    BY <1>1, EnqueueTypes DEF PollAgain
<1>2. CASE PollGivesUp(m)
    BY <1>2, AnswerTypes DEF PollGivesUp, Requests
<1>3. CASE InterruptGoesOn(m)
    BY <1>3, ResumeInterruptTypes
<1> QED
    BY <1>1, <1>2, <1>3 DEF Resume

-----------------------------------------------------------------------------
(* The turn's own task.  GoTo and FinishAndEnd keep the types of the task's *)
(* variables; a step that leaves `drain' aside cannot break DrainHolds.     *)

LEMMA GoToTypes ==
    ASSUME TypeOK, NEW t \in Turns, NEW p \in Phases, GoTo(t, p)
    PROVE  task' \in [Turns -> Phases]
BY DEF GoTo, TypeOK, TaskOK

LEMMA FinishTypes ==
    ASSUME TypeOK, NEW t \in Turns, NEW s \in Statuses, FinishAndEnd(t, s)
    PROVE  /\ task' \in [Turns -> Phases] /\ status' \in [Turns -> Statuses]
           /\ accepting' \in [Turns -> BOOLEAN]
BY DEF FinishAndEnd, TypeOK, TaskOK, Phases

\* A step of turn t that ends elsewhere than in "drain" and takes no text into
\* another turn's hand.
LEMMA DrainKept ==
    ASSUME TypeInv, NEW t \in Turns, NEW p \in Phases \ {"drain"},
           task' = [task EXCEPT ![t] = p],
           \A u \in Turns \ {t} : hand'[u] = hand[u] /\ steps'[u] = steps[u]
    PROVE  DrainHolds'
BY DEF TypeInv, TypeOK, TaskOK, DrainHolds

\* A step that forgets which texts the last event had, and removes no event.
LEMMA SessKept ==
    ASSUME TypeInv, lastUser' = <<>>, copies' = copies, open' \subseteq Turns
    PROVE  SessOK' /\ LastIsStored'
<1>1. lastUser' \in Seq(Msgs) /\ DOMAIN lastUser' = {}
    OBVIOUS
<1> QED
    BY <1>1 DEF TypeInv, TypeOK, SessOK, LastIsStored
LEMMA MoreSteps ==
    ASSUME TypeOK, NEW t \in Turns, steps[t] < MaxSteps,
           steps' = [steps EXCEPT ![t] = @ + 1]
    PROVE  steps' \in [Turns -> 0..MaxSteps]
BY DEF TypeOK, TaskOK

LEMMA PruneAndStoreTypes ==
    ASSUME TypeInv, NEW t \in Turns, PruneAndStore(t) PROVE TypeInv'
<1> DEFINE pruned == IF Prunes(t) THEN Texts(message[orphanOf[t]]) ELSE {}
           kept == [m \in Msgs |-> IF m \in pruned THEN copies[m] - 1 ELSE copies[m]]
<1>1. \A m \in pruned : copies[m] > 0
    BY DEF Prunes, Texts, TypeInv, LastIsStored
<1>2. kept \in [Msgs -> Nat]
    BY <1>1 DEF TypeInv, TypeOK, SessOK
<1>3. message[t] \in Seq(Msgs)
    BY DEF TypeInv, TypeOK, TableOK
<1>4. copies' = [m \in Msgs |-> IF m \in Texts(message[t]) THEN kept[m] + 1 ELSE kept[m]]
    BY DEF PruneAndStore
<1>5. copies' \in [Msgs -> Nat]
    <2> HIDE DEF kept
    <2> QED
        BY <1>2, <1>4
<1>6. SessOK'
    BY <1>3, <1>5 DEF PruneAndStore, TypeInv, TypeOK, SessOK
<1>7. LastIsStored'
    <2> SUFFICES ASSUME NEW i \in DOMAIN message[t] PROVE copies'[message[t][i]] > 0
        BY DEF PruneAndStore, LastIsStored
    <2>1. message[t][i] \in Texts(message[t]) /\ message[t][i] \in Msgs
        BY <1>3 DEF Texts
    <2> HIDE DEF kept
    <2> QED
        BY <1>2, <1>4, <2>1
<1>8. TaskOK'
    BY GoToTypes DEF PruneAndStore, TypeInv, TypeOK, TaskOK, Phases
<1>9. DrainHolds'
    BY DrainKept DEF PruneAndStore, GoTo, Phases, mailVars
<1> QED
    BY <1>6, <1>7, <1>8, <1>9, TableFrame, MailFrame, ReqFrame DEF PruneAndStore, TypeInv, TypeOK

LEMMA TakeQueueTypes ==
    ASSUME TypeInv, NEW t \in Turns, TakeQueue(t) PROVE TypeInv'
<1>1. hand' \in [Turns -> Seq(Msgs)]
    BY DEF TakeQueue, TypeInv, TypeOK, MailOK
<1>2. queue' \in [Turns -> Seq(Msgs)]
    <2>1. <<>> \in Seq(Msgs)
        OBVIOUS
    <2> QED
        BY <2>1 DEF TakeQueue, TypeInv, TypeOK, MailOK
<1>3. MailOK'
    BY <1>1, <1>2 DEF TakeQueue, TypeInv, TypeOK, MailOK
<1>4. TaskOK'
    BY GoToTypes DEF TakeQueue, TypeInv, TypeOK, TaskOK, Phases
<1>5. DrainHolds'
    BY DEF TakeQueue, GoTo, DrainHolds, TypeInv, TypeOK, TaskOK, MailOK
<1> QED
    BY <1>3, <1>4, <1>5, TableFrame, SessFrame, ReqFrame DEF TakeQueue, TypeInv, TypeOK

LEMMA DeliverTypes ==
    ASSUME TypeInv, NEW t \in Turns, Deliver(t) PROVE TypeInv'
<1>1. /\ hand[t] \in Seq(Msgs) /\ hand[t] # <<>> /\ steps[t] < MaxSteps
    BY DEF Deliver, At, TypeInv, TypeOK, MailOK, DrainHolds
<1>2. Head(hand[t]) \in Msgs /\ Tail(hand[t]) \in Seq(Msgs)
    BY <1>1
<1>3. hand' \in [Turns -> Seq(Msgs)]
    BY <1>2 DEF Deliver, TypeInv, TypeOK, MailOK
<1>4. MailOK'
    BY <1>3 DEF Deliver, TypeInv, TypeOK, MailOK
<1>5. copies' \in [Msgs -> Nat]
    BY <1>2 DEF Deliver, TypeInv, TypeOK, SessOK
<1>6. SessOK' /\ LastIsStored'
    <2>1. lastUser' \in Seq(Msgs) /\ DOMAIN lastUser' = {}
        BY DEF Deliver
    <2> QED
        BY <1>5, <2>1 DEF Deliver, TypeInv, TypeOK, SessOK, LastIsStored
<1>7. CASE Len(hand[t]) = 1
    <2>1. steps' \in [Turns -> 0..MaxSteps] /\ task' \in [Turns -> Phases]
        BY <1>1, <1>7, MoreSteps, GoToTypes DEF Deliver, TypeInv, Phases
    <2>2. TaskOK'
        BY <2>1 DEF Deliver, TypeInv, TypeOK, TaskOK
    <2>3. \A u \in Turns \ {t} : hand'[u] = hand[u] /\ steps'[u] = steps[u]
        BY <1>7 DEF Deliver, TypeInv, TypeOK, MailOK, TaskOK
    <2>4. DrainHolds'
        BY <1>7, <2>3, DrainKept DEF Deliver, GoTo, Phases
    <2> QED
        BY <1>4, <1>6, <2>2, <2>4, TableFrame, ReqFrame DEF Deliver, TypeInv, TypeOK
<1>8. CASE Len(hand[t]) # 1
    <2>1. Tail(hand[t]) # <<>>
        <3>1. Len(hand[t]) \in Nat /\ Len(hand[t]) # 0
            BY <1>1
        <3>2. Len(Tail(hand[t])) = Len(hand[t]) - 1
            BY <1>1
        <3>3. Len(Tail(hand[t])) # 0 /\ Len(<<>>) = 0
            BY <1>8, <3>1, <3>2
        <3> QED
            BY ONLY <3>3
    <2>2. UNCHANGED <<task, steps>>
        BY <1>8 DEF Deliver
    <2>3. hand' = [hand EXCEPT ![t] = Tail(hand[t])]
        BY DEF Deliver
    <2>4. DrainHolds'
        BY <2>1, <2>2, <2>3 DEF DrainHolds, TypeInv, TypeOK, MailOK
    <2>5. TaskOK'
        BY <2>2 DEF Deliver, TypeInv, TypeOK, TaskOK
    <2> QED
        BY <1>4, <1>6, <2>4, <2>5, TableFrame, ReqFrame DEF Deliver, TypeInv, TypeOK
<1> QED
    BY <1>7, <1>8

LEMMA DeliveryFailsTypes ==
    ASSUME TypeInv, NEW t \in Turns, DeliveryFails(t) PROVE TypeInv'
<1>1. <<>> \in Seq(Msgs)
    OBVIOUS
<1>2. MailOK'
    BY <1>1 DEF DeliveryFails, TypeInv, TypeOK, MailOK
<1>3. steps' \in [Turns -> 0..MaxSteps] /\ task' \in [Turns -> Phases]
    BY MoreSteps, GoToTypes DEF DeliveryFails, At, TypeInv, DrainHolds, Phases
<1>4. TaskOK'
    BY <1>3 DEF DeliveryFails, TypeInv, TypeOK, TaskOK
<1>5. \A u \in Turns \ {t} : hand'[u] = hand[u] /\ steps'[u] = steps[u]
    BY DEF DeliveryFails, TypeInv, TypeOK, MailOK, TaskOK
<1>6. DrainHolds'
    BY <1>5, DrainKept DEF DeliveryFails, GoTo, Phases
<1> QED
    BY <1>2, <1>4, <1>6, TableFrame, SessFrame, ReqFrame DEF DeliveryFails, TypeInv, TypeOK

\* A step that only moves the task, ends the turn, or leaves the session with
\* another last event.
LEMMA QuietStepTypes ==
    ASSUME TypeInv, NEW t \in Turns, NEW p \in Phases \ {"drain"},
           task' = [task EXCEPT ![t] = p],
           status' \in [Turns -> Statuses], cancel' \in [Turns -> BOOLEAN],
           accepting' \in [Turns -> BOOLEAN], out' \in [Turns -> BOOLEAN],
           UNCHANGED <<tableVars, steps, followup, hits, queue, hand, took, reqVars>>,
           unstored' \subseteq Turns, SessOK', LastIsStored'
    PROVE  TypeInv'
<1>1. TaskOK'
    BY DEF TypeInv, TypeOK, TaskOK
<1>2. DrainHolds'
    BY DrainKept
<1>3. MailOK'
    BY DEF TypeInv, TypeOK, MailOK
<1> QED
    BY <1>1, <1>2, <1>3, TableFrame, ReqFrame DEF TypeInv, TypeOK

LEMMA CallModelTypes ==
    ASSUME TypeInv, NEW t \in Turns, CallModel(t) PROVE TypeInv'
<1>1. steps' \in [Turns -> 0..MaxSteps] /\ task' \in [Turns -> Phases]
    BY MoreSteps, GoToTypes DEF CallModel, TypeInv, Phases
<1>2. TaskOK'
    BY <1>1 DEF CallModel, TypeInv, TypeOK, TaskOK
<1>3. \A u \in Turns \ {t} : hand'[u] = hand[u] /\ steps'[u] = steps[u]
    BY DEF CallModel, TypeInv, TypeOK, TaskOK, mailVars
<1>4. DrainHolds'
    BY <1>3, DrainKept DEF CallModel, GoTo, Phases
<1> QED
    BY <1>2, <1>4, TableFrame, MailFrame, SessFrame, ReqFrame DEF CallModel, TypeInv, TypeOK

LEMMA FinishDoneTypes ==
    ASSUME TypeInv, NEW t \in Turns, FinishDone(t) PROVE TypeInv'
<1> DEFINE left == queue[t]
           st == [status EXCEPT ![t] = "done"]
           tk == [task EXCEPT ![t] = "ended"]
<1>1. st \in [Turns -> Statuses] /\ tk \in [Turns -> Phases] /\ left \in Seq(Msgs)
    BY DEF TypeInv, TypeOK, TaskOK, MailOK, Statuses, Terminal, Phases
<1>2. SessOK' /\ LastIsStored' /\ ReqOK'
    BY SessFrame, ReqFrame DEF FinishDone, TypeInv, TypeOK
<1>3. accepting' \in [Turns -> BOOLEAN] /\ UNCHANGED <<cancel, out, steps, hits, hand, unstored>>
    BY DEF FinishDone, TypeInv, TypeOK, TaskOK
<1>4. TypeOK /\ <<>> \in Seq(Msgs)
    BY DEF TypeInv
<1>5. CASE left = <<>>
    <2>1. status' = st /\ task' = tk /\ UNCHANGED <<tableVars, followup, queue, took>>
        BY <1>5 DEF FinishDone
    <2>2. TaskOK'
        BY <1>1, <1>3, <2>1 DEF TypeInv, TypeOK, TaskOK
    <2>3. DrainHolds'
        BY <1>3, <2>1 DEF TypeInv, TypeOK, TaskOK, DrainHolds
    <2> QED
        BY <1>2, <1>3, <2>1, <2>2, <2>3, TableFrame, MailFrame DEF TypeInv, TypeOK, mailVars
<1>6. CASE left # <<>> /\ Busy(st)
    <2>1. Cur \in Turns
        BY <1>4, <1>6, CurIsTurn
    <2>2. /\ status' = st /\ task' = tk /\ UNCHANGED tableVars
          /\ followup' = [followup EXCEPT ![t] = Cur]
          /\ took' = [took EXCEPT ![Cur] = took[Cur] \cup Texts(left)]
          /\ queue' = [queue EXCEPT ![t] = <<>>, ![Cur] = @ \o left]
        BY <1>6 DEF FinishDone
    <2>3. TaskOK'
        BY <1>1, <1>3, <2>1, <2>2 DEF TypeInv, TypeOK, TaskOK, Turns
    <2>4. DrainHolds'
        BY <1>3, <2>2 DEF TypeInv, TypeOK, TaskOK, DrainHolds
    <2>5. took' \in [Turns -> SUBSET Msgs]
        <3>1. Texts(left) \in SUBSET Msgs
            BY <1>1 DEF Texts
        <3> QED
            BY <2>1, <2>2, <3>1 DEF TypeInv, TypeOK, MailOK
    <2>6. queue' \in [Turns -> Seq(Msgs)]
        <3>1. Cur # t
            BY <1>6 DEF Busy, TypeInv, TypeOK, TaskOK
        <3>2. queue[Cur] \o left \in Seq(Msgs)
            BY <1>1, <2>1 DEF TypeInv, TypeOK, MailOK
        <3>3. queue' = [queue EXCEPT ![t] = <<>>, ![Cur] = queue[Cur] \o left]
            BY <2>1, <2>2, <3>1 DEF TypeInv, TypeOK, MailOK
        <3> HIDE DEF left
        <3> QED
            BY <1>4, <3>2, <3>3 DEF TypeInv, TypeOK, MailOK
    <2> QED
        BY <1>2, <1>3, <2>2, <2>3, <2>4, <2>5, <2>6, TableFrame DEF TypeInv, TypeOK, MailOK
<1>7. CASE left # <<>> /\ ~Busy(st)
    <2>1. /\ StartTurn(left, st, tk) /\ UNCHANGED <<expired, retries, took>>
          /\ queue' = [queue EXCEPT ![t] = <<>>]
          /\ followup' = [followup EXCEPT ![t] = count + 1]
        BY <1>7 DEF FinishDone
    <2>2. TableOK' /\ status' \in [Turns -> Statuses] /\ task' \in [Turns -> Phases]
        <3>1. retries' \in 0..MaxRetries
            BY <2>1 DEF TypeInv, TypeOK, TableOK
        <3> HIDE DEF st, tk, left
        <3> QED
            BY <1>1, <1>4, <2>1, <3>1, StartTypes
    <2>3. followup' \in [Turns -> 0..MaxTurns]
        BY <2>1 DEF StartTurn, Turns, TypeInv, TypeOK, TaskOK
    <2>4. TaskOK'
        BY <1>3, <2>2, <2>3 DEF TypeInv, TypeOK, TaskOK
    <2>5. queue' \in [Turns -> Seq(Msgs)]
        BY <1>4, <2>1 DEF TypeInv, TypeOK, MailOK
    <2>6. MailOK'
        BY <1>3, <2>1, <2>5 DEF TypeInv, TypeOK, MailOK
    <2>7. DrainHolds'
        BY <1>3, <2>1 DEF StartTurn, TypeInv, TypeOK, TaskOK, DrainHolds
    <2> QED
        BY <1>2, <2>2, <2>4, <2>6, <2>7 DEF TypeInv, TypeOK
<1> QED
    BY <1>5, <1>6, <1>7

LEMMA CancelSeenTypes ==
    ASSUME TypeInv, NEW t \in Turns, CancelSeen(t) PROVE TypeInv'
<1>1. PICK p \in {"closing", "ended"} : task' = [task EXCEPT ![t] = p]
    BY DEF CancelSeen, GoTo, FinishAndEnd
<1>2. TaskOK'
    <2>1. CASE t \in open
        BY <2>1, <1>1 DEF CancelSeen, GoTo, TypeInv, TypeOK, TaskOK, Phases
    <2>2. CASE t \notin open
        BY <2>2, FinishTypes DEF CancelSeen, TypeInv, TypeOK, TaskOK, Statuses, Terminal
    <2> QED
        BY <2>1, <2>2
<1>3. MailOK'
    <2>1. <<>> \in Seq(Msgs)
        OBVIOUS
    <2> QED
        BY <2>1 DEF CancelSeen, TypeInv, TypeOK, MailOK
<1>4. DrainHolds'
    BY <1>1, DrainKept DEF CancelSeen, TypeInv, TypeOK, MailOK, Phases
<1> QED
    BY <1>2, <1>3, <1>4, TableFrame, SessFrame, ReqFrame DEF CancelSeen, TypeInv, TypeOK

LEMMA DriveTypes == ASSUME TypeInv, NEW t \in Turns, Drive(t) PROVE TypeInv'
<1>1. /\ status \in [Turns -> Statuses] /\ cancel \in [Turns -> BOOLEAN]
      /\ accepting \in [Turns -> BOOLEAN] /\ out \in [Turns -> BOOLEAN]
      /\ SessOK /\ LastIsStored /\ TypeOK /\ open \subseteq Turns /\ task \in [Turns -> Phases]
      /\ unstored \subseteq Turns
    BY DEF TypeInv, TypeOK, TaskOK, SessOK, MailOK
<1>2. CASE Begin(t)
    BY <1>1, <1>2, QuietStepTypes, SessFrame DEF Begin, GoTo, Phases, mailVars
<1>3. CASE CallTool(t)
    BY <1>1, <1>3, QuietStepTypes, SessKept DEF CallTool, GoTo, Phases, mailVars
<1>4. CASE ToolReturns(t)
    <2>1. SessOK' /\ LastIsStored'
        BY <1>1, <1>4 DEF ToolReturns, SessOK, LastIsStored
    <2>2. PICK p \in {"model", "reply"} : task' = [task EXCEPT ![t] = p]
        BY <1>4 DEF ToolReturns, GoTo
    <2> QED
        BY <1>1, <1>4, <2>1, <2>2, QuietStepTypes DEF ToolReturns, Phases, mailVars
<1>5. CASE Reply(t)
    BY <1>1, <1>5, QuietStepTypes, SessKept DEF Reply, GoTo, Phases, mailVars
<1>6. CASE AutoContinue(t)
    BY <1>1, <1>6, QuietStepTypes, SessKept DEF AutoContinue, GoTo, Phases, mailVars
<1>7. CASE RunRaises(t)
    BY <1>1, <1>7, QuietStepTypes, FinishTypes, SessFrame
       DEF RunRaises, FinishAndEnd, Phases, Statuses, Terminal, mailVars
<1>8. CASE ErrorEvent(t)
    BY <1>1, <1>8, QuietStepTypes, FinishTypes, SessKept
       DEF ErrorEvent, FinishAndEnd, Phases, Statuses, Terminal, mailVars
<1>9. CASE CloseCalls(t) \/ CloseFails(t)
    <2>1. SessOK' /\ LastIsStored'
        BY <1>1, <1>9, SessFrame DEF CloseCalls, CloseFails, SessOK, LastIsStored
    <2> QED
        BY <1>1, <1>9, <2>1, QuietStepTypes, FinishTypes
           DEF CloseCalls, CloseFails, FinishAndEnd, Phases, Statuses, Terminal, mailVars
<1>10. CASE CancelledUnborn(t) \/ CancelledClosing(t)
    <2>1. /\ task' = [task EXCEPT ![t] = "ended"] /\ cancel' = [cancel EXCEPT ![t] = FALSE]
          /\ UNCHANGED <<tableVars, status, accepting, out, steps, followup, hits,
                         mailVars, sessVars, reqVars>>
        BY <1>10 DEF CancelledUnborn, CancelledClosing, GoTo
    <2>2. cancel' \in [Turns -> BOOLEAN]
        BY <1>1, <2>1
    <2>3. SessOK' /\ LastIsStored'
        BY <1>1, <2>1, SessFrame
    <2> QED
        BY <1>1, <2>1, <2>2, <2>3, QuietStepTypes DEF Phases, mailVars
<1>11. CASE OnDone(t)
    <2>1. TaskOK'
        BY <1>11 DEF OnDone, TypeInv, TypeOK, TaskOK, Statuses, Terminal
    <2>2. DrainHolds'
        BY <1>11 DEF OnDone, TypeInv, DrainHolds, mailVars
    <2> QED
        BY <1>11, <2>1, <2>2, TableFrame, MailFrame, SessFrame, ReqFrame DEF OnDone, TypeInv, TypeOK
<1> QED
    BY <1>2, <1>3, <1>4, <1>5, <1>6, <1>7, <1>8, <1>9, <1>10, <1>11, PruneAndStoreTypes,
       TakeQueueTypes, DeliverTypes, DeliveryFailsTypes, CallModelTypes, FinishDoneTypes,
       CancelSeenTypes DEF Drive, Cancelled

-----------------------------------------------------------------------------
(* The theorem.                                                            *)

LEMMA TypeInvInit == Init => TypeInv
<1> SUFFICES ASSUME Init PROVE TypeInv
    OBVIOUS
<1>1. <<>> \in Seq(Msgs)
    OBVIOUS
<1>2. TableOK /\ TaskOK /\ DrainHolds
    BY <1>1 DEF Init, TableOK, TaskOK, DrainHolds, NoTurn, Statuses, Phases
<1>3. MailOK /\ SessOK /\ LastIsStored
    BY <1>1 DEF Init, MailOK, SessOK, LastIsStored
<1>4. ReqOK
    BY <1>1 DEF Init, ReqOK, Requests, NoTurn
<1> QED
    BY <1>2, <1>3, <1>4 DEF TypeInv, TypeOK

LEMMA TypeInvNext == TypeInv /\ [Next]_vars => TypeInv'
<1> SUFFICES ASSUME TypeInv, [Next]_vars PROVE TypeInv'
    OBVIOUS
<1>1. CASE UNCHANGED vars
    BY <1>1, TableFrame, TaskFrame, MailFrame, SessFrame, ReqFrame
       DEF vars, TypeInv, TypeOK, DrainHolds, taskVars, mailVars
<1> QED
    BY <1>1, ClientTypes, ResumeTypes, DriveTypes DEF Next

THEOREM TypeInvHolds == Spec => []TypeInv
<1>1. TypeInv /\ UNCHANGED vars => TypeInv'
    BY TypeInvNext
<1> QED
    BY TypeInvInit, TypeInvNext, PTL DEF Spec

\* Type correctness of the broker's state, for every number of texts, turns and
\* cancellations.  The part that is not bookkeeping is copies[m] \in Nat: the
\* orphan prune of turns.py never removes an event that is not in the history.
THEOREM TypeCorrect == Spec => []TypeOK
BY TypeInvHolds, PTL DEF TypeInv

-----------------------------------------------------------------------------
(* The turn slot and the tasks.                                            *)

\* Turns are created in order, only the newest one can run, and a running turn
\* is never forgotten.
SlotInv ==
    /\ count \in 0..MaxTurns
    /\ latest = count
    /\ status \in [Turns -> Statuses]
    /\ expired \subseteq 1..count
    /\ \A t \in Turns : status[t] = "none" <=> t > count
    /\ \A t \in Turns : status[t] = "running" => t = count /\ t \in known /\ t \notin expired

\* A turn with a recorded end whose task goes on was given up by a send-now: it
\* is recorded as aborted, and its task is about to see a cancellation or is
\* storing the answers of its open calls.
Unwinding(t) == cancel[t] \/ task[t] \in {"closing", "ended"}

TaskInv ==
    /\ \A t \in Turns : task[t] = "none" <=> status[t] = "none"
    /\ \A t \in Turns : status[t] \in Terminal /\ task[t] # "ended" =>
          status[t] = "aborted" /\ Unwinding(t)
    /\ \A m \in Msgs : req[m] = "stopping" =>
          target[m] \in Turns /\ status[target[m]] # "none" /\ Unwinding(target[m])

-----------------------------------------------------------------------------
(* The three ways in which a step moves the slot.                          *)

\* Statuses that differ from the current ones only by turns that ended.
Endings(st) ==
    /\ st \in [Turns -> Statuses]
    /\ \A t \in Turns : st[t] # status[t] => status[t] = "running" /\ st[t] \in Terminal

Ends == Endings(status') /\ UNCHANGED <<count, latest, known, expired>>

Ages ==
    /\ \E t \in Turns : status[t] \in Terminal /\ expired' = expired \cup {t}
    /\ UNCHANGED <<count, latest, known, status>>

StartsFrom(st) ==
    /\ Endings(st) /\ ~Busy(st)
    /\ count + 1 \in Turns /\ count' = count + 1 /\ latest' = count + 1
    /\ status' = [st EXCEPT ![count + 1] = "running"]
    /\ known' = (known \ expired) \cup {count + 1}
    /\ expired' = expired

Starts == \E st \in [Turns -> Statuses] : StartsFrom(st)

SlotStep == Ends \/ Ages \/ Starts

LEMMA SlotInvInit == Init => SlotInv
BY DEF Init, SlotInv, Turns, Statuses, NoTurn

LEMMA NothingEnds == SlotInv => Endings(status)
BY DEF SlotInv, Endings

LEMMA QuietIsEnds ==
    ASSUME SlotInv, UNCHANGED <<count, latest, known, expired, status>> PROVE SlotStep
BY DEF SlotStep, Ends, SlotInv, Endings

LEMMA IdleWhenNotBusy ==
    ASSUME SlotInv, NEW st, Endings(st), ~Busy(st)
    PROVE  \A t \in Turns : st[t] # "running"
BY DEF SlotInv, Endings, Busy, Cur, NoTurn, Turns, Statuses, Terminal

LEMMA StartTurnStarts ==
    ASSUME NEW st, Endings(st), ~Busy(st),
           NEW texts, NEW tk, StartTurn(texts, st, tk), expired' = expired
    PROVE  SlotStep
<1>1. StartsFrom(st) /\ st \in [Turns -> Statuses]
    BY DEF StartTurn, StartsFrom, Endings
<1> QED
    BY <1>1 DEF SlotStep, Starts

LEMMA SlotStepKeepsSlotInv == SlotInv /\ SlotStep => SlotInv'
<1> SUFFICES ASSUME SlotInv, SlotStep PROVE SlotInv'
    OBVIOUS
<1>1. CASE Ends
    BY <1>1 DEF Ends, SlotInv, Endings, Terminal, Turns
<1>2. CASE Ages
    BY <1>2 DEF Ages, SlotInv, Terminal, Turns
<1>3. ASSUME NEW st \in [Turns -> Statuses], StartsFrom(st) PROVE SlotInv'
    <2>1. \A t \in Turns : st[t] # "running"
        BY <1>3, IdleWhenNotBusy DEF StartsFrom
    <2>2. \A t \in Turns : st[t] = "none" <=> t > count
        BY <1>3 DEF SlotInv, StartsFrom, Endings, Terminal
    <2>3. status' \in [Turns -> Statuses]
        BY <1>3 DEF StartsFrom, Statuses
    <2> QED
        BY <1>3, <2>1, <2>2, <2>3 DEF SlotInv, StartsFrom, Turns
<1> QED
    BY <1>1, <1>2, <1>3 DEF SlotStep, Starts

-----------------------------------------------------------------------------
(* Every step is a SlotStep.                                               *)

LEMMA StartForStarts ==
    ASSUME SlotInv, ~Busy(status), NEW m, StartFor(m) PROVE SlotStep
BY NothingEnds, StartTurnStarts DEF StartFor

LEMMA AnswerIsQuiet == ASSUME SlotInv, NEW m, NEW r, Answer(m, r) PROVE SlotStep
BY QuietIsEnds DEF Answer, tableVars, taskVars

LEMMA ClientSlotStep == ASSUME SlotInv, Client PROVE SlotStep
<1>1. ASSUME NEW m \in Msgs, PostStart(m) PROVE SlotStep
    BY <1>1, StartForStarts, AnswerIsQuiet DEF PostStart
<1>2. ASSUME NEW m \in Msgs, PostQueue(m) PROVE SlotStep
    BY <1>2, StartForStarts, AnswerIsQuiet, QuietIsEnds
       DEF PostQueue, EnqueuePass, tableVars, taskVars
<1>3. ASSUME NEW m \in Msgs, PostInterrupt(m) PROVE SlotStep
    BY <1>3, StartForStarts, QuietIsEnds DEF PostInterrupt, tableVars
<1>4. ASSUME NEW m \in Msgs, NEW t \in Turns, Withdraw(m, t) PROVE SlotStep
    BY <1>4, QuietIsEnds DEF Withdraw, tableVars, taskVars
<1>5. ASSUME NEW t \in Turns, Abort(t) PROVE SlotStep
    BY <1>5, QuietIsEnds DEF Abort, tableVars
<1>6. ASSUME NEW t \in Turns, Expire(t) PROVE SlotStep
    BY <1>6 DEF Expire, taskVars, SlotStep, Ages
<1>7. CASE AbortSession
    BY <1>7, QuietIsEnds DEF AbortSession, tableVars
<1>8. CASE RetryLast
    BY <1>8, NothingEnds, StartTurnStarts DEF RetryLast, Busy
<1> QED
    BY <1>1, <1>2, <1>3, <1>4, <1>5, <1>6, <1>7, <1>8 DEF Client

LEMMA ResumeSlotStep == ASSUME SlotInv, NEW m \in Msgs, Resume(m) PROVE SlotStep
<1>1. CASE PollAgain(m)
    BY <1>1, StartForStarts, AnswerIsQuiet, QuietIsEnds
       DEF PollAgain, EnqueuePass, tableVars, taskVars
<1>2. CASE PollGivesUp(m)
    BY <1>2, AnswerIsQuiet DEF PollGivesUp
<1>3. CASE InterruptGoesOn(m)
    <2> DEFINE t == target[m]
               st == IF status[t] = "running" THEN [status EXCEPT ![t] = "aborted"] ELSE status
    <2>1. Endings(st)
        BY DEF Endings, SlotInv, Statuses, Terminal
    <2>2. CASE Busy(st)
        <3>1. status' = st /\ UNCHANGED tableVars
            BY <1>3, <2>2 DEF InterruptGoesOn, ResumeInterrupt
        <3> QED
            BY <3>1, <2>1 DEF SlotStep, Ends, tableVars
    <2>3. CASE ~Busy(st)
        <3>1. StartTurn(Append(carried[m], m), st, task) /\ expired' = expired
            BY <1>3, <2>3 DEF InterruptGoesOn, ResumeInterrupt
        <3> QED
            BY <3>1, <2>1, <2>3, StartTurnStarts
    <2> QED
        BY <2>2, <2>3
<1> QED
    BY <1>1, <1>2, <1>3 DEF Resume

\* A task that may go on, and is not closing, is the task of a running turn.
LEMMA GoesOnIsRunning ==
    ASSUME SlotInv, TaskInv, NEW t \in Turns, NEW p, At(t, p), p \notin {"none", "closing", "ended"}
    PROVE  status[t] = "running"
BY DEF SlotInv, TaskInv, At, Unwinding, Statuses

\* The end a task records: of a running turn, or again the "aborted" of a turn
\* that was given up while its task was still unwinding.
LEMMA FinishEnds ==
    ASSUME SlotInv, NEW t \in Turns, NEW s \in Terminal, FinishAndEnd(t, s),
           status[t] \in {"running", s}, UNCHANGED tableVars
    PROVE  SlotStep
BY DEF FinishAndEnd, SlotStep, Ends, Endings, SlotInv, Statuses, Terminal, tableVars

LEMMA UnwindsAsAborted ==
    ASSUME SlotInv, TaskInv, NEW t \in Turns, task[t] # "none", task[t] # "ended"
    PROVE  status[t] \in {"running", "aborted"}
BY DEF SlotInv, TaskInv, Statuses

LEMMA DriveSlotStep ==
    ASSUME SlotInv, TaskInv, NEW t \in Turns, Drive(t) PROVE SlotStep
<1>1. CASE Begin(t) \/ PruneAndStore(t) \/ TakeQueue(t) \/ Deliver(t) \/ DeliveryFails(t)
           \/ CallModel(t) \/ CallTool(t) \/ ToolReturns(t) \/ Reply(t) \/ AutoContinue(t)
           \/ CancelledUnborn(t) \/ CancelledClosing(t)
    BY <1>1, QuietIsEnds
       DEF Begin, PruneAndStore, TakeQueue, Deliver, DeliveryFails, CallModel, CallTool,
           ToolReturns, Reply, AutoContinue, CancelledUnborn, CancelledClosing, tableVars
<1>2. CASE FinishDone(t)
    <2> DEFINE left == queue[t]
               st == [status EXCEPT ![t] = "done"]
               tk == [task EXCEPT ![t] = "ended"]
    <2>1. status[t] = "running"
        BY <1>2, GoesOnIsRunning DEF FinishDone
    <2>2. Endings(st)
        BY <2>1 DEF Endings, SlotInv, Statuses, Terminal
    <2>3. CASE left = <<>> \/ Busy(st)
        <3>1. status' = st /\ UNCHANGED tableVars
            BY <1>2, <2>3 DEF FinishDone
        <3> QED
            BY <2>2, <3>1 DEF SlotStep, Ends, tableVars
    <2>4. CASE left # <<>> /\ ~Busy(st)
        <3>1. StartTurn(left, st, tk) /\ expired' = expired
            BY <1>2, <2>4 DEF FinishDone
        <3> QED
            BY <2>2, <2>4, <3>1, StartTurnStarts
    <2> QED
        BY <2>3, <2>4
<1>3. CASE RunRaises(t)
    BY <1>3, GoesOnIsRunning, FinishEnds DEF RunRaises, Terminal
<1>4. CASE ErrorEvent(t)
    BY <1>4, GoesOnIsRunning, FinishEnds DEF ErrorEvent, Terminal
<1>5. CASE CloseCalls(t) \/ CloseFails(t)
    BY <1>5, UnwindsAsAborted, FinishEnds DEF CloseCalls, CloseFails, At, Terminal
<1>6. CASE CancelSeen(t)
    <2>1. CASE t \in open
        BY <1>6, <2>1, QuietIsEnds DEF CancelSeen, tableVars
    <2>2. CASE t \notin open
        BY <1>6, <2>2, UnwindsAsAborted, FinishEnds DEF CancelSeen, Terminal
    <2> QED
        BY <2>1, <2>2
<1>7. CASE OnDone(t)
    BY <1>7 DEF OnDone, SlotStep, Ends, Endings, SlotInv, Statuses, Terminal, tableVars
<1> QED
    BY <1>1, <1>2, <1>3, <1>4, <1>5, <1>6, <1>7 DEF Drive, Cancelled

LEMMA NextSlotStep == SlotInv /\ TaskInv /\ [Next]_vars => SlotStep
<1> SUFFICES ASSUME SlotInv, TaskInv, [Next]_vars PROVE SlotStep
    OBVIOUS
<1>1. CASE UNCHANGED vars
    BY <1>1, QuietIsEnds DEF vars, tableVars, taskVars
<1> QED
    BY <1>1, ClientSlotStep, ResumeSlotStep, DriveSlotStep DEF Next

-----------------------------------------------------------------------------
(* TaskInv is kept.                                                        *)

LEMMA TaskInvInit == Init => TaskInv
BY DEF Init, TaskInv, Terminal, NoTurn

\* What a step must not do: forget a turn, or stop an unwinding.
LEMMA TaskInvKept ==
    ASSUME TaskInv,
           \A t \in Turns : task'[t] = "none" <=> status'[t] = "none",
           \A t \in Turns : status[t] # "none" => status'[t] # "none",
           \A t \in Turns : status[t] # "none" /\ Unwinding(t) => Unwinding(t)',
           \A t \in Turns : status'[t] \in Terminal /\ task'[t] # "ended" =>
                status'[t] = "aborted" /\ Unwinding(t)',
           \A m \in Msgs : req'[m] = "stopping" => req[m] = "stopping" /\ target'[m] = target[m]
    PROVE  TaskInv'
BY DEF TaskInv

LEMMA TaskInvQuiet ==
    ASSUME TaskInv, UNCHANGED <<status, task, cancel>>,
           \A m \in Msgs : req'[m] = "stopping" => req[m] = "stopping" /\ target'[m] = target[m]
    PROVE  TaskInv'
BY DEF TaskInv, Unwinding

\* A turn starts on statuses and tasks in which ended turns are ended, or given up.
LEMMA StartKeepsTaskInv ==
    ASSUME TypeOK, SlotInv, TaskInv, NEW texts,
           NEW st \in [Turns -> Statuses], NEW tk \in [Turns -> Phases],
           StartTurn(texts, st, tk), cancel' = cancel,
           \A t \in Turns : tk[t] = "none" <=> task[t] = "none",
           \A t \in Turns : st[t] = "none" <=> status[t] = "none",
           \A t \in Turns : task[t] \in {"closing", "ended"} => tk[t] \in {"closing", "ended"},
           \A t \in Turns : st[t] \in Terminal /\ tk[t] # "ended" =>
                st[t] = "aborted" /\ (cancel[t] \/ tk[t] = "closing"),
           \A m \in Msgs : req'[m] = "stopping" => req[m] = "stopping" /\ target'[m] = target[m]
    PROVE  TaskInv'
<1> DEFINE n == count + 1
<1>1. /\ n \in Turns /\ status' = [st EXCEPT ![n] = "running"]
      /\ task' = [tk EXCEPT ![n] = "created"]
    BY DEF StartTurn
<1>2. status[n] = "none" /\ n # count
    BY <1>1 DEF SlotInv, Turns
<1>3. \A t \in Turns : t # n => status'[t] = st[t] /\ task'[t] = tk[t]
    BY <1>1
<1>4. status'[n] = "running" /\ task'[n] = "created"
    BY <1>1
<1> HIDE DEF n
<1>5. \A t \in Turns : task'[t] = "none" <=> status'[t] = "none"
    BY <1>3, <1>4 DEF TaskInv
<1>6. \A t \in Turns : status[t] # "none" => status'[t] # "none"
    BY <1>2, <1>3
<1>7. \A t \in Turns : status[t] # "none" /\ Unwinding(t) => Unwinding(t)'
    BY <1>2, <1>3 DEF Unwinding
<1>8. \A t \in Turns : status'[t] \in Terminal /\ task'[t] # "ended" =>
                status'[t] = "aborted" /\ Unwinding(t)'
    BY <1>3, <1>4 DEF Terminal, Unwinding
<1> QED
    BY <1>5, <1>6, <1>7, <1>8, TaskInvKept

LEMMA StartForKeepsTaskInv ==
    ASSUME TypeOK, SlotInv, TaskInv, NEW m \in Msgs, StartFor(m) PROVE TaskInv'
<1>1. \A x \in Msgs : req'[x] = "stopping" => req[x] = "stopping" /\ target'[x] = target[x]
    BY DEF StartFor, TypeOK, ReqOK
<1>2. \A t \in Turns : status[t] \in Terminal /\ task[t] # "ended" =>
          status[t] = "aborted" /\ (cancel[t] \/ task[t] = "closing")
    BY DEF TaskInv, Unwinding
<1> QED
    BY <1>1, <1>2, StartKeepsTaskInv DEF StartFor, TypeOK, TaskOK, TaskInv

LEMMA AnswerKeepsTaskInv ==
    ASSUME TypeOK, TaskInv, NEW m \in Msgs, NEW r \in Requests \ {"stopping"}, Answer(m, r)
    PROVE  TaskInv'
BY TaskInvQuiet DEF Answer, TypeOK, ReqOK, taskVars

LEMMA EnqueueKeepsTaskInv ==
    ASSUME TypeOK, SlotInv, TaskInv, NEW m \in Msgs, EnqueuePass(m) PROVE TaskInv'
<1>1. CASE ~Busy(status)
    BY <1>1, StartForKeepsTaskInv DEF EnqueuePass
<1>2. CASE Busy(status) /\ ~accepting[Cur]
    BY <1>2, AnswerKeepsTaskInv DEF EnqueuePass, Requests
<1>3. CASE Busy(status) /\ accepting[Cur]
    BY <1>3, TaskInvQuiet DEF EnqueuePass, TypeOK, ReqOK, taskVars
<1> QED
    BY <1>1, <1>2, <1>3

\* A cancellation reaches every task it is sent to that has not ended.
LEMMA CancelUnwinds ==
    ASSUME TypeOK, TaskInv, NEW ts \in SUBSET Turns, Cancel(ts), UNCHANGED <<status, task>>
    PROVE  /\ \A t \in Turns : Unwinding(t) => Unwinding(t)'
           /\ \A t \in ts : Unwinding(t)'
BY DEF Cancel, Unwinding, TypeOK, TaskOK

LEMMA CancelKeepsTaskInv ==
    ASSUME TypeOK, TaskInv, NEW ts \in SUBSET Turns, Cancel(ts),
           UNCHANGED <<status, task, reqVars>>
    PROVE  TaskInv'
BY CancelUnwinds, TaskInvKept DEF TaskInv, reqVars

LEMMA InterruptKeepsTaskInv ==
    ASSUME TypeOK, SlotInv, TaskInv, NEW m \in Msgs, PostInterrupt(m) PROVE TaskInv'
<1>1. CASE ~Busy(status)
    BY <1>1, StartForKeepsTaskInv DEF PostInterrupt
<1>2. CASE Busy(status)
    <2>1. Cur \in Turns /\ status[Cur] = "running"
        BY <1>2, CurIsTurn DEF Busy
    <2>2. Cancel({Cur}) /\ UNCHANGED <<status, task>>
        BY <1>2 DEF PostInterrupt, tableVars
    <2>3. /\ \A t \in Turns : Unwinding(t) => Unwinding(t)'
          /\ \A t \in {Cur} : Unwinding(t)'
        BY <2>1, <2>2, CancelUnwinds, {Cur} \in SUBSET Turns
    <2>4. \A x \in Msgs : x # m => req'[x] = req[x] /\ target'[x] = target[x]
        BY <1>2 DEF PostInterrupt, TypeOK, ReqOK
    <2>5. target'[m] = Cur
        BY <1>2 DEF PostInterrupt, TypeOK, ReqOK
    <2>6. Cur' = Cur
        BY <1>2 DEF PostInterrupt, tableVars, Cur
    <2> QED
        BY <2>1, <2>2, <2>3, <2>4, <2>5, <2>6 DEF TaskInv
<1> QED
    BY <1>1, <1>2

LEMMA ClientKeepsTaskInv == ASSUME TypeOK, SlotInv, TaskInv, Client PROVE TaskInv'
<1>1. ASSUME NEW m \in Msgs, PostStart(m) PROVE TaskInv'
    BY <1>1, StartForKeepsTaskInv, AnswerKeepsTaskInv DEF PostStart, Requests
<1>2. ASSUME NEW m \in Msgs, PostQueue(m) PROVE TaskInv'
    BY <1>2, EnqueueKeepsTaskInv DEF PostQueue
<1>3. ASSUME NEW m \in Msgs, PostInterrupt(m) PROVE TaskInv'
    BY <1>3, InterruptKeepsTaskInv
<1>4. ASSUME NEW m \in Msgs, NEW t \in Turns, Withdraw(m, t) PROVE TaskInv'
    BY <1>4, TaskInvQuiet DEF Withdraw, TypeOK, ReqOK, taskVars
<1>5. ASSUME NEW t \in Turns, Abort(t) PROVE TaskInv'
    BY <1>5, CancelKeepsTaskInv, {t} \in SUBSET Turns DEF Abort
<1>6. ASSUME NEW t \in Turns, Expire(t) PROVE TaskInv'
    BY <1>6, TaskInvQuiet DEF Expire, taskVars, reqVars
<1>7. CASE AbortSession
    BY <1>7, CancelKeepsTaskInv DEF AbortSession, TypeOK, TableOK
<1>8. CASE RetryLast
    <2>1. \A t \in Turns : status[t] \in Terminal /\ task[t] # "ended" =>
              status[t] = "aborted" /\ (cancel[t] \/ task[t] = "closing")
        BY DEF TaskInv, Unwinding
    <2> QED
        BY <1>8, <2>1, StartKeepsTaskInv DEF RetryLast, TypeOK, TaskOK, TaskInv, reqVars
<1> QED
    BY <1>1, <1>2, <1>3, <1>4, <1>5, <1>6, <1>7, <1>8 DEF Client

LEMMA ResumeKeepsTaskInv ==
    ASSUME TypeOK, SlotInv, TaskInv, NEW m \in Msgs, Resume(m) PROVE TaskInv'
<1>1. CASE PollAgain(m)
    BY <1>1, EnqueueKeepsTaskInv DEF PollAgain
<1>2. CASE PollGivesUp(m)
    BY <1>2, AnswerKeepsTaskInv DEF PollGivesUp, Requests
<1>3. CASE InterruptGoesOn(m)
    <2> DEFINE t == target[m]
               st == IF status[t] = "running" THEN [status EXCEPT ![t] = "aborted"] ELSE status
    <2>1. t \in Turns /\ status[t] # "none" /\ Unwinding(t)
        BY <1>3 DEF InterruptGoesOn, ResumeInterrupt, TaskInv
    <2>2. \A x \in Msgs : req'[x] = "stopping" => req[x] = "stopping" /\ target'[x] = target[x]
        BY <1>3 DEF InterruptGoesOn, ResumeInterrupt, TypeOK, ReqOK
    <2>3. /\ st \in [Turns -> Statuses]
          /\ \A u \in Turns : st[u] = "none" <=> status[u] = "none"
        BY <2>1 DEF TypeOK, TaskOK, Statuses, Terminal
    <2>4. \A u \in Turns : st[u] \in Terminal /\ task[u] # "ended" =>
              st[u] = "aborted" /\ (cancel[u] \/ task[u] = "closing")
        BY <2>1 DEF TypeOK, TaskOK, TaskInv, Unwinding
    <2>5. CASE Busy(st)
        <3>1. status' = st /\ task' = task /\ cancel' = cancel
            BY <1>3, <2>5 DEF InterruptGoesOn, ResumeInterrupt
        <3> HIDE DEF st
        <3> QED
            BY <2>2, <2>3, <2>4, <3>1, TaskInvKept DEF TaskInv, Unwinding
    <2>6. CASE ~Busy(st)
        <3>1. StartTurn(Append(carried[m], m), st, task) /\ cancel' = cancel
            BY <1>3, <2>6 DEF InterruptGoesOn, ResumeInterrupt
        <3> HIDE DEF st
        <3> QED
            BY <2>2, <2>3, <2>4, <3>1, StartKeepsTaskInv DEF TypeOK, TaskOK
    <2> QED
        BY <2>5, <2>6
<1> QED
    BY <1>1, <1>2, <1>3 DEF Resume

\* A step of a running turn's task that may go on, to anywhere.
LEMMA MoveKeepsTaskInv ==
    ASSUME TypeOK, SlotInv, TaskInv, NEW t \in Turns, NEW p, At(t, p),
           p \notin {"none", "closing", "ended"},
           NEW q \in Phases \ {"none"}, task' = [task EXCEPT ![t] = q],
           UNCHANGED <<status, cancel, req, target>>
    PROVE  TaskInv'
<1>1. status[t] = "running" /\ ~Unwinding(t)
    BY GoesOnIsRunning DEF At, Unwinding
<1>2. \A u \in Turns \ {t} : Unwinding(u) => Unwinding(u)'
    BY DEF Unwinding, TypeOK, TaskOK
<1> QED
    BY <1>1, <1>2, TaskInvKept DEF TypeOK, TaskOK, TaskInv, Terminal

\* A task that ends, with or without recording how.
LEMMA EndKeepsTaskInv ==
    ASSUME TypeOK, TaskInv, NEW t \in Turns, status[t] # "none",
           task' = [task EXCEPT ![t] = "ended"],
           \/ status' = status
           \/ \E s \in Terminal : status' = [status EXCEPT ![t] = s],
           \A u \in Turns \ {t} : cancel'[u] = cancel[u],
           UNCHANGED <<req, target>>
    PROVE  TaskInv'
<1>1. task'[t] = "ended" /\ \A u \in Turns \ {t} : task'[u] = task[u] /\ status'[u] = status[u]
    BY DEF TypeOK, TaskOK
<1>2. status'[t] # "none"
    BY DEF TypeOK, TaskOK, Terminal
<1>3. \A u \in Turns : status[u] # "none" /\ Unwinding(u) => Unwinding(u)'
    BY <1>1 DEF Unwinding
<1>4. \A u \in Turns : task'[u] = "none" <=> status'[u] = "none"
    BY <1>1, <1>2 DEF TaskInv
<1>5. \A u \in Turns : status'[u] \in Terminal /\ task'[u] # "ended" =>
          status'[u] = "aborted" /\ Unwinding(u)'
    BY <1>1, <1>3 DEF TaskInv, Terminal
<1> QED
    BY <1>1, <1>2, <1>3, <1>4, <1>5, TaskInvKept

LEMMA DriveKeepsTaskInv ==
    ASSUME TypeOK, SlotInv, TaskInv, NEW t \in Turns, Drive(t) PROVE TaskInv'
<1>0. \A p : task[t] = p /\ p # "none" => status[t] # "none"
    BY DEF TaskInv
<1>1. CASE Begin(t) \/ PruneAndStore(t) \/ TakeQueue(t) \/ CallModel(t) \/ CallTool(t)
           \/ Reply(t) \/ AutoContinue(t) \/ DeliveryFails(t)
    BY <1>1, MoveKeepsTaskInv
       DEF Begin, PruneAndStore, TakeQueue, CallModel, CallTool, Reply, AutoContinue,
           DeliveryFails, GoTo, Phases, reqVars
<1>2. CASE ToolReturns(t)
    <2>1. PICK q \in {"model", "reply"} : task' = [task EXCEPT ![t] = q]
        BY <1>2 DEF ToolReturns, GoTo
    <2> QED
        BY <1>2, <2>1, MoveKeepsTaskInv DEF ToolReturns, Phases, reqVars
<1>3. CASE Deliver(t)
    <2>1. CASE Len(hand[t]) = 1
        BY <1>3, <2>1, MoveKeepsTaskInv DEF Deliver, GoTo, Phases, reqVars
    <2>2. CASE Len(hand[t]) # 1
        BY <1>3, <2>2, TaskInvQuiet DEF Deliver, reqVars
    <2> QED
        BY <2>1, <2>2
<1>4. CASE FinishDone(t)
    <2> DEFINE left == queue[t]
               st == [status EXCEPT ![t] = "done"]
               tk == [task EXCEPT ![t] = "ended"]
    <2>1. status[t] = "running" /\ task[t] # "none" /\ cancel' = cancel /\ UNCHANGED <<req, target>>
        BY <1>4, GoesOnIsRunning DEF FinishDone, At, reqVars
    <2>2. CASE left = <<>> \/ Busy(st)
        <3>1. status' = st /\ task' = tk
            BY <1>4, <2>2 DEF FinishDone
        <3> QED
            BY <2>1, <3>1, EndKeepsTaskInv DEF Terminal
    <2>3. CASE left # <<>> /\ ~Busy(st)
        <3>1. StartTurn(left, st, tk)
            BY <1>4, <2>3 DEF FinishDone
        <3>2. st \in [Turns -> Statuses] /\ tk \in [Turns -> Phases]
            BY DEF TypeOK, TaskOK, Statuses, Terminal, Phases
        <3>3. tk[t] = "ended" /\ st[t] = "done"
            BY DEF TypeOK, TaskOK
        <3>4. \A u \in Turns \ {t} : tk[u] = task[u] /\ st[u] = status[u]
            BY DEF TypeOK, TaskOK
        <3> HIDE DEF st, tk, left
        <3>5. /\ \A u \in Turns : tk[u] = "none" <=> task[u] = "none"
              /\ \A u \in Turns : st[u] = "none" <=> status[u] = "none"
              /\ \A u \in Turns : task[u] \in {"closing", "ended"} => tk[u] \in {"closing", "ended"}
            BY <2>1, <3>3, <3>4
        <3>6. \A u \in Turns : st[u] \in Terminal /\ tk[u] # "ended" =>
                  st[u] = "aborted" /\ (cancel[u] \/ tk[u] = "closing")
            BY <3>3, <3>4 DEF TaskInv, Unwinding
        <3> QED
            BY <2>1, <3>1, <3>2, <3>5, <3>6, StartKeepsTaskInv
    <2> QED
        BY <2>2, <2>3
<1>5. CASE RunRaises(t) \/ ErrorEvent(t) \/ CloseCalls(t) \/ CloseFails(t)
    BY <1>0, <1>5, EndKeepsTaskInv
       DEF RunRaises, ErrorEvent, CloseCalls, CloseFails, FinishAndEnd, At, Terminal, reqVars
<1>6. CASE CancelledUnborn(t) \/ CancelledClosing(t)
    <2>1. \A u \in Turns \ {t} : cancel'[u] = cancel[u]
        BY <1>6 DEF CancelledUnborn, CancelledClosing, TypeOK, TaskOK
    <2> QED
        BY <1>0, <1>6, <2>1, EndKeepsTaskInv DEF CancelledUnborn, CancelledClosing, GoTo, reqVars
<1>7. CASE CancelSeen(t)
    <2>1. status[t] # "none" /\ \A u \in Turns \ {t} : cancel'[u] = cancel[u]
        BY <1>0, <1>7 DEF CancelSeen, TypeOK, TaskOK
    <2>2. CASE t \notin open
        BY <1>7, <2>1, <2>2, EndKeepsTaskInv DEF CancelSeen, FinishAndEnd, Terminal, reqVars
    <2>3. CASE t \in open
        <3>1. status' = status /\ task' = [task EXCEPT ![t] = "closing"] /\ UNCHANGED <<req, target>>
            BY <1>7, <2>3 DEF CancelSeen, GoTo, reqVars
        <3>2. task'[t] = "closing" /\ \A u \in Turns \ {t} : task'[u] = task[u]
            BY <3>1 DEF TypeOK, TaskOK
        <3>3. status[t] \in {"running", "aborted"}
            BY <1>7, UnwindsAsAborted DEF CancelSeen
        <3> QED
            BY <2>1, <3>1, <3>2, <3>3, TaskInvKept DEF TaskInv, Unwinding, Terminal
    <2> QED
        BY <2>2, <2>3
<1>8. CASE OnDone(t)
    <2>1. /\ task' = task /\ cancel' = cancel /\ UNCHANGED <<req, target>>
          /\ task[t] = "ended" /\ status' = [status EXCEPT ![t] = "aborted"]
        BY <1>8 DEF OnDone, reqVars
    <2> QED
        BY <2>1, TaskInvKept DEF TypeOK, TaskOK, TaskInv, Unwinding
<1> QED
    BY <1>1, <1>2, <1>3, <1>4, <1>5, <1>6, <1>7, <1>8 DEF Drive, Cancelled

LEMMA NextKeepsTaskInv == TypeOK /\ SlotInv /\ TaskInv /\ [Next]_vars => TaskInv'
<1> SUFFICES ASSUME TypeOK, SlotInv, TaskInv, [Next]_vars PROVE TaskInv'
    OBVIOUS
<1>1. CASE UNCHANGED vars
    BY <1>1, TaskInvQuiet DEF vars, taskVars, reqVars
<1> QED
    BY <1>1, ClientKeepsTaskInv, ResumeKeepsTaskInv, DriveKeepsTaskInv DEF Next

-----------------------------------------------------------------------------
(* Queues: texts wait only on a turn that runs, or that failed or was      *)
(* stopped.                                                                *)

QueueInv == \A t \in Turns : queue[t] # <<>> => status[t] \notin {"none", "done"}

LEMMA QueueInvInit == Init => QueueInv
BY DEF Init, QueueInv

LEMMA QueueInvKept ==
    ASSUME QueueInv,
           \A t \in Turns : queue'[t] # <<>> => queue[t] # <<>> \/ status'[t] = "running",
           \A t \in Turns : status'[t] \in {status[t], "running", "error", "aborted"}
    PROVE  QueueInv'
BY DEF QueueInv

LEMMA StartKeepsQueueInv ==
    ASSUME QueueInv, NEW texts, NEW st \in [Turns -> Statuses], NEW tk,
           StartTurn(texts, st, tk), queue' = queue,
           \A t \in Turns : st[t] \in {status[t], "aborted"}
    PROVE  QueueInv'
BY QueueInvKept DEF StartTurn

LEMMA EnqueueKeepsQueueInv ==
    ASSUME TypeOK, QueueInv, NEW m \in Msgs, EnqueuePass(m) PROVE QueueInv'
<1>1. CASE ~Busy(status)
    BY <1>1, StartKeepsQueueInv DEF EnqueuePass, StartFor, TypeOK, TaskOK, mailVars
<1>2. CASE Busy(status) /\ ~accepting[Cur]
    BY <1>2 DEF EnqueuePass, Answer, QueueInv, taskVars, mailVars
<1>3. CASE Busy(status) /\ accepting[Cur]
    <2>1. Cur \in Turns /\ status[Cur] = "running" /\ status' = status
        BY <1>3, CurIsTurn DEF Busy, EnqueuePass, taskVars
    <2>2. \A t \in Turns : t # Cur => queue'[t] = queue[t]
        BY <1>3 DEF EnqueuePass, TypeOK, MailOK
    <2> QED
        BY <2>1, <2>2 DEF QueueInv
<1> QED
    BY <1>1, <1>2, <1>3

LEMMA ClientKeepsQueueInv == ASSUME TypeOK, QueueInv, Client PROVE QueueInv'
<1>1. ASSUME NEW m \in Msgs, PostStart(m) PROVE QueueInv'
    BY <1>1, StartKeepsQueueInv
       DEF PostStart, StartFor, Answer, TypeOK, TaskOK, QueueInv, taskVars, mailVars
<1>2. ASSUME NEW m \in Msgs, PostQueue(m) PROVE QueueInv'
    BY <1>2, EnqueueKeepsQueueInv DEF PostQueue
<1>3. ASSUME NEW m \in Msgs, PostInterrupt(m) PROVE QueueInv'
    <2>1. CASE ~Busy(status)
        BY <1>3, <2>1, StartKeepsQueueInv DEF PostInterrupt, StartFor, TypeOK, TaskOK, mailVars
    <2>2. CASE Busy(status)
        <3>1. status' = status /\ queue' = [queue EXCEPT ![Cur] = <<>>]
            BY <1>3, <2>2 DEF PostInterrupt
        <3> QED
            BY <3>1, QueueInvKept DEF TypeOK, MailOK
    <2> QED
        BY <2>1, <2>2
<1>4. ASSUME NEW m \in Msgs, NEW t \in Turns, Withdraw(m, t) PROVE QueueInv'
    <2>1. queue[t] # <<>> /\ status' = status
        BY <1>4 DEF Withdraw, taskVars
    <2>2. \A u \in Turns \ {t} : queue'[u] = queue[u]
        BY <1>4 DEF Withdraw, TypeOK, MailOK
    <2> QED
        BY <2>1, <2>2 DEF QueueInv
<1>5. ASSUME NEW t \in Turns, Abort(t) \/ Expire(t) PROVE QueueInv'
    BY <1>5 DEF Abort, Expire, QueueInv, taskVars, mailVars
<1>6. CASE AbortSession
    BY <1>6 DEF AbortSession, QueueInv, mailVars
<1>7. CASE RetryLast
    BY <1>7, StartKeepsQueueInv DEF RetryLast, TypeOK, TaskOK, mailVars
<1> QED
    BY <1>1, <1>2, <1>3, <1>4, <1>5, <1>6, <1>7 DEF Client

LEMMA ResumeKeepsQueueInv ==
    ASSUME TypeOK, QueueInv, NEW m \in Msgs, Resume(m) PROVE QueueInv'
<1>1. CASE PollAgain(m)
    BY <1>1, EnqueueKeepsQueueInv DEF PollAgain
<1>2. CASE PollGivesUp(m)
    BY <1>2 DEF PollGivesUp, Answer, QueueInv, taskVars, mailVars
<1>3. CASE InterruptGoesOn(m)
    <2> DEFINE t == target[m]
               st == IF status[t] = "running" THEN [status EXCEPT ![t] = "aborted"] ELSE status
    <2>1. st \in [Turns -> Statuses] /\ \A u \in Turns : st[u] \in {status[u], "aborted"}
        BY DEF TypeOK, TaskOK, Statuses, Terminal
    <2>2. queue' = queue
        BY <1>3 DEF InterruptGoesOn, ResumeInterrupt, mailVars
    <2>3. CASE Busy(st)
        <3>1. status' = st
            BY <1>3, <2>3 DEF InterruptGoesOn, ResumeInterrupt
        <3> HIDE DEF st
        <3> QED
            BY <2>1, <2>2, <3>1, QueueInvKept
    <2>4. CASE ~Busy(st)
        <3>1. StartTurn(Append(carried[m], m), st, task)
            BY <1>3, <2>4 DEF InterruptGoesOn, ResumeInterrupt
        <3> HIDE DEF st
        <3> QED
            BY <2>1, <2>2, <3>1, StartKeepsQueueInv
    <2> QED
        BY <2>3, <2>4
<1> QED
    BY <1>1, <1>2, <1>3 DEF Resume

\* The sweep: what is left in the queue of a turn that ends "done" goes to the
\* turn that runs, or to the follow-up turn's message.
LEMMA FinishDoneKeepsQueueInv ==
    ASSUME TypeOK, QueueInv, NEW t \in Turns, FinishDone(t) PROVE QueueInv'
<1> DEFINE left == queue[t]
           st == [status EXCEPT ![t] = "done"]
           tk == [task EXCEPT ![t] = "ended"]
<1>1. st[t] = "done" /\ \A u \in Turns \ {t} : st[u] = status[u]
    BY DEF TypeOK, TaskOK
<1>2. CASE left = <<>>
    <2>1. status' = st /\ queue' = queue
        BY <1>2 DEF FinishDone
    <2> QED
        BY <1>1, <1>2, <2>1 DEF QueueInv
<1>3. CASE left # <<>> /\ Busy(st)
    <2>1. status' = st /\ queue' = [queue EXCEPT ![t] = <<>>, ![Cur] = @ \o left]
        BY <1>3 DEF FinishDone
    <2>2. Cur \in Turns \ {t} /\ st[Cur] = "running"
        BY <1>1, <1>3, CurIsTurn DEF Busy
    <2>3. queue'[t] = <<>> /\ \A u \in Turns \ {t, Cur} : queue'[u] = queue[u]
        BY <2>1, <2>2 DEF TypeOK, MailOK
    <2> HIDE DEF st
    <2> QED
        BY <1>1, <2>1, <2>2, <2>3 DEF QueueInv
<1>4. CASE left # <<>> /\ ~Busy(st)
    <2>1. StartTurn(left, st, tk) /\ queue' = [queue EXCEPT ![t] = <<>>]
        BY <1>4 DEF FinishDone
    <2>2. queue'[t] = <<>> /\ \A u \in Turns \ {t} : queue'[u] = queue[u]
        BY <2>1 DEF TypeOK, MailOK
    <2>3. \A u \in Turns : status'[u] \in {st[u], "running"}
        BY <2>1 DEF StartTurn, TypeOK, TaskOK
    <2> QED
        BY <1>1, <2>2, <2>3 DEF QueueInv
<1> QED
    BY <1>2, <1>3, <1>4

LEMMA DriveKeepsQueueInv ==
    ASSUME TypeOK, QueueInv, NEW t \in Turns, Drive(t) PROVE QueueInv'
<1>1. CASE Begin(t) \/ PruneAndStore(t) \/ Deliver(t) \/ DeliveryFails(t)
           \/ CallModel(t) \/ CallTool(t) \/ ToolReturns(t) \/ Reply(t) \/ AutoContinue(t)
           \/ CancelledUnborn(t) \/ CancelledClosing(t)
    BY <1>1 DEF Begin, PruneAndStore, Deliver, DeliveryFails, CallModel, CallTool, ToolReturns,
           Reply, AutoContinue, CancelledUnborn, CancelledClosing, QueueInv, mailVars
<1>2. CASE TakeQueue(t)
    BY <1>2, QueueInvKept DEF TakeQueue, TypeOK, MailOK
<1>3. CASE FinishDone(t)
    BY <1>3, FinishDoneKeepsQueueInv
<1>4. ASSUME NEW s \in {"error", "aborted"}, status' = [status EXCEPT ![t] = s], queue' = queue
      PROVE  QueueInv'
    BY <1>4, QueueInvKept DEF TypeOK, TaskOK
<1>5. CASE RunRaises(t) \/ ErrorEvent(t) \/ CloseCalls(t) \/ CloseFails(t) \/ OnDone(t)
    BY <1>4, <1>5 DEF RunRaises, ErrorEvent, CloseCalls, CloseFails, OnDone, FinishAndEnd, mailVars
<1>6. CASE CancelSeen(t)
    BY <1>4, <1>6 DEF CancelSeen, FinishAndEnd, QueueInv
<1> QED
    BY <1>1, <1>2, <1>3, <1>5, <1>6 DEF Drive, Cancelled

LEMMA NextKeepsQueueInv == TypeOK /\ QueueInv /\ [Next]_vars => QueueInv'
<1> SUFFICES ASSUME TypeOK, QueueInv, [Next]_vars PROVE QueueInv'
    OBVIOUS
<1>1. CASE UNCHANGED vars
    BY <1>1 DEF vars, taskVars, mailVars, QueueInv
<1> QED
    BY <1>1, ClientKeepsQueueInv, ResumeKeepsQueueInv, DriveKeepsQueueInv DEF Next

-----------------------------------------------------------------------------
(* The theorems.                                                           *)

\* The inductive invariant of the broker.
IInv == TypeInv /\ SlotInv /\ TaskInv /\ QueueInv

\* The slot, the tasks and the queues stay in step with each other.
THEOREM IInvHolds == Spec => []IInv
<1>1. Init => IInv
    BY TypeInvInit, SlotInvInit, TaskInvInit, QueueInvInit DEF IInv
<1>2. IInv /\ [Next]_vars => IInv'
    BY TypeInvNext, NextSlotStep, SlotStepKeepsSlotInv, NextKeepsTaskInv, NextKeepsQueueInv
       DEF IInv, TypeInv
<1> QED
    BY <1>1, <1>2, PTL DEF Spec

\* Single-flight (the promise of the class TurnBroker): whatever the order of
\* starts, queued messages, send-nows, follow-ups and retries, and even when a
\* stopped task outlives the wait of a send-now, only the newest turn of a session
\* is ever reported as running, and it can be found.
THEOREM SingleFlightHolds == Spec => []SingleFlight
<1>1. IInv => SingleFlight
    BY DEF IInv, SlotInv, SingleFlight, Cur
<1> QED
    BY <1>1, IInvHolds, PTL

\* A turn that ended "done" leaves no text in its queue, and no text is queued on
\* a turn that was never started (the leftover sweep of _drive).
THEOREM NoUnreadQueueHolds == Spec => []NoUnreadQueue
<1>1. IInv => NoUnreadQueue
    BY DEF IInv, TypeInv, TypeOK, TaskOK, QueueInv, NoUnreadQueue, Statuses, Terminal
<1> QED
    BY <1>1, IInvHolds, PTL

\* The recorded end of a turn is final: no later finish(), by the turn's task, its
\* done-callback or a send-now, replaces it with another end.
THEOREM TerminalIsFinalHolds == Spec => TerminalIsFinal
<1>1. SlotInv /\ SlotStep => \A t \in Turns : status[t] \in Terminal => status'[t] = status[t]
    <2> SUFFICES ASSUME SlotInv, SlotStep, NEW t \in Turns, status[t] \in Terminal
                 PROVE  status'[t] = status[t]
        OBVIOUS
    <2>1. CASE Ends \/ Ages
        BY <2>1 DEF Ends, Ages, Endings, Terminal
    <2>2. ASSUME NEW st \in [Turns -> Statuses], StartsFrom(st) PROVE status'[t] = status[t]
        <3>1. st[t] = status[t] /\ t # count + 1
            BY <2>2 DEF StartsFrom, Endings, SlotInv, Terminal, Turns
        <3> QED
            BY <2>2, <3>1 DEF StartsFrom
    <2> QED
        BY <2>1, <2>2 DEF SlotStep, Starts
<1>2. IInv /\ [Next]_vars => \A t \in Turns : status[t] \in Terminal => status'[t] = status[t]
    BY <1>1, NextSlotStep DEF IInv, TypeInv
<1> QED
    BY <1>2, IInvHolds, PTL DEF Spec, TerminalIsFinal

-----------------------------------------------------------------------------
(* The broker implements TurnSlot.                                         *)

\* Ended turns, at most one of them in a step.
LEMMA EndingIsOne ==
    ASSUME SlotInv, NEW st, Endings(st)
    PROVE  \/ st = status
           \/ /\ count \in Turns /\ status[count] = "running"
              /\ \E how \in Terminal : st = [status EXCEPT ![count] = how]
<1>1. \A t \in Turns : t # count => st[t] = status[t]
    BY DEF SlotInv, Endings
<1>2. CASE count \in Turns /\ st[count] # status[count]
    <2>1. st = [status EXCEPT ![count] = st[count]]
        BY <1>1, <1>2 DEF SlotInv, Endings
    <2> QED
        BY <1>2, <2>1 DEF Endings
<1>3. CASE ~(count \in Turns /\ st[count] # status[count])
    BY <1>1, <1>3 DEF SlotInv, Endings
<1> QED
    BY <1>2, <1>3

LEMMA SlotStepRefines == SlotInv /\ SlotStep => [Slot!SlotNext]_status
<1> SUFFICES ASSUME SlotInv, SlotStep, status' # status PROVE Slot!SlotNext
    OBVIOUS
<1> USE DEF Slot!SlotTurns, Slot!Endings, Terminal, Turns
<1>1. CASE Ends
    <2>1. PICK how \in Terminal : /\ count \in Turns /\ status[count] = "running"
                                  /\ status' = [status EXCEPT ![count] = how]
        BY <1>1, EndingIsOne DEF Ends
    <2> QED
        BY <2>1 DEF Slot!SlotNext, Slot!Leave
<1>2. ASSUME NEW st \in [Turns -> Statuses], StartsFrom(st) PROVE Slot!SlotNext
    <2> DEFINE n == count + 1
    <2>1. n \in Turns /\ status' = [st EXCEPT ![n] = "running"] /\ Endings(st)
        BY <1>2 DEF StartsFrom
    <2>2. Slot!Fresh(n)
        BY <2>1 DEF Slot!Fresh, SlotInv
    <2>3. \A t \in Turns : t # count => status[t] # "running"
        BY DEF SlotInv
    <2>4. CASE st = status
        <3>1. Slot!Free({})
            BY <1>2, <2>4, IdleWhenNotBusy DEF StartsFrom, Slot!Free
        <3> QED
            BY <2>1, <2>2, <2>4, <3>1 DEF Slot!SlotNext, Slot!Enter
    <2>5. CASE st # status
        <3>1. PICK how \in Terminal : /\ count \in Turns /\ status[count] = "running"
                                      /\ st = [status EXCEPT ![count] = how]
            BY <2>1, <2>5, EndingIsOne
        <3>2. status' = [status EXCEPT ![count] = how, ![n] = "running"]
            BY <2>1, <3>1
        <3>3. Slot!Free({count})
            BY <2>3 DEF Slot!Free
        <3> QED
            BY <2>1, <2>2, <3>1, <3>2, <3>3 DEF Slot!SlotNext, Slot!HandOver
    <2> QED
        BY <2>4, <2>5
<1> QED
    BY <1>1, <1>2 DEF SlotStep, Ages, Starts

\* The broker, with its tasks, queues and cancellations, implements the turn slot
\* of TurnSlot: turns are created in order, one on an idle session or in the place
\* of one that ends in the same step, and each ends once.
THEOREM SlotImplemented == Spec => ImplementsSlot
<1>1. Init => Slot!SlotInit
    BY DEF Init, Slot!SlotInit, Slot!SlotTurns, Turns
<1>2. IInv /\ [Next]_vars => [Slot!SlotNext]_status
    BY NextSlotStep, SlotStepRefines DEF IInv, TypeInv
<1> QED
    BY <1>1, <1>2, IInvHolds, PTL DEF Spec, ImplementsSlot, Slot!SlotSpec

-----------------------------------------------------------------------------
(* One task at a time, and the answers to the calls a stop cut off.  Both  *)
(* hold while no task outlives the wait of a send-now.                     *)

\* A turn whose end is recorded has no task any more.
EndedTasks == \A t \in Turns : status[t] \in Terminal => task[t] = "ended"

\* What was cancelled was hit, and what is hit again while it answers its open
\* calls was hit twice.
HitInv ==
    \A t \in Turns : /\ cancel[t] => hits[t] >= 1
                     /\ task[t] = "closing" => hits[t] >= 1
                     /\ task[t] = "closing" /\ cancel[t] => hits[t] >= 2

\* A call is without an answer while its tool runs, while the answer is being
\* stored, and after an error, a second stop or a failure of the storage.
OpenInv ==
    \A t \in open : \/ task[t] \in {"tool", "closing"}
                    \/ /\ task[t] = "ended"
                       /\ status[t] = "error" \/ hits[t] >= 2 \/ t \in unstored

\* A swallowed failure is remembered.
LEMMA NextRemembers == ASSUME Next PROVE unstored \subseteq unstored'
<1>1. ASSUME Client PROVE unstored' = unstored
    BY <1>1 DEF Client, PostStart, PostQueue, PostInterrupt, EnqueuePass, StartFor, Answer, Withdraw,
                Abort, AbortSession, RetryLast, Expire, mailVars
<1>2. ASSUME NEW m \in Msgs, Resume(m) PROVE unstored' = unstored
    BY <1>2 DEF Resume, PollAgain, PollGivesUp, EnqueuePass, StartFor, Answer, InterruptGoesOn,
                ResumeInterrupt, mailVars
<1>3. ASSUME NEW t \in Turns, Drive(t) PROVE unstored \subseteq unstored'
    BY <1>3 DEF Drive, Begin, PruneAndStore, TakeQueue, Deliver, DeliveryFails, CallModel, CallTool,
                ToolReturns, Reply, AutoContinue, FinishDone, RunRaises, ErrorEvent, CloseCalls,
                CloseFails, Cancelled, CancelledUnborn, CancelSeen, CancelledClosing, OnDone, mailVars
<1> QED
    BY <1>1, <1>2, <1>3 DEF Next

CallInv == HitInv /\ OpenInv

LEMMA EndedTasksKept ==
    ASSUME EndedTasks,
           \A t \in Turns : status'[t] \in Terminal =>
               task'[t] = "ended" \/ (status'[t] = status[t] /\ task'[t] = task[t])
    PROVE  EndedTasks'
BY DEF EndedTasks

LEMMA StartKeepsEndedTasks ==
    ASSUME TypeOK, NEW texts, NEW st \in [Turns -> Statuses], NEW tk \in [Turns -> Phases],
           StartTurn(texts, st, tk),
           \A t \in Turns : st[t] \in Terminal => tk[t] = "ended"
    PROVE  EndedTasks'
BY DEF StartTurn, EndedTasks, Terminal

LEMMA NextKeepsEndedTasks ==
    ASSUME ~Stubborn, TypeOK, SlotInv, TaskInv, EndedTasks, Next PROVE EndedTasks'
<1>0. /\ status \in [Turns -> Statuses] /\ task \in [Turns -> Phases]
      /\ \A t \in Turns : status[t] \in Terminal => task[t] = "ended"
    BY DEF TypeOK, TaskOK, EndedTasks
<1>1. ASSUME NEW m \in Msgs, StartFor(m) PROVE EndedTasks'
    BY <1>0, <1>1, StartKeepsEndedTasks DEF StartFor
<1>2. ASSUME UNCHANGED <<status, task>> PROVE EndedTasks'
    BY <1>2 DEF EndedTasks
<1>3. ASSUME NEW m \in Msgs, EnqueuePass(m) PROVE EndedTasks'
    BY <1>1, <1>2, <1>3 DEF EnqueuePass, Answer, taskVars
<1>4. CASE Client
    <2>1. ASSUME NEW m \in Msgs, PostStart(m) \/ PostQueue(m) \/ PostInterrupt(m) PROVE EndedTasks'
        BY <1>1, <1>2, <1>3, <2>1 DEF PostStart, PostQueue, PostInterrupt, Answer, taskVars
    <2>2. ASSUME NEW m \in Msgs, NEW t \in Turns, Withdraw(m, t) PROVE EndedTasks'
        BY <1>2, <2>2 DEF Withdraw, taskVars
    <2>3. ASSUME NEW t \in Turns, Abort(t) \/ Expire(t) PROVE EndedTasks'
        BY <1>2, <2>3 DEF Abort, Expire, taskVars
    <2>4. CASE AbortSession
        BY <1>2, <2>4 DEF AbortSession
    <2>5. CASE RetryLast
        BY <1>0, <2>5, StartKeepsEndedTasks DEF RetryLast
    <2> QED
        BY <1>4, <2>1, <2>2, <2>3, <2>4, <2>5 DEF Client
<1>5. ASSUME NEW m \in Msgs, Resume(m) PROVE EndedTasks'
    <2>1. CASE PollAgain(m) \/ PollGivesUp(m)
        BY <1>2, <1>3, <2>1 DEF PollAgain, PollGivesUp, Answer, taskVars
    <2>2. CASE InterruptGoesOn(m)
        <3> DEFINE t == target[m]
                   st == IF status[t] = "running" THEN [status EXCEPT ![t] = "aborted"] ELSE status
        <3>1. task[t] = "ended"
            BY <2>2 DEF InterruptGoesOn, ResumeInterrupt, WaitOver
        <3>2. st \in [Turns -> Statuses] /\ \A u \in Turns : st[u] \in Terminal => task[u] = "ended"
            BY <1>0, <3>1 DEF Statuses, Terminal
        <3>3. \/ status' = st /\ task' = task
              \/ StartTurn(Append(carried[m], m), st, task)
            BY <2>2 DEF InterruptGoesOn, ResumeInterrupt
        <3> HIDE DEF st
        <3> QED
            BY <1>0, <3>2, <3>3, StartKeepsEndedTasks DEF EndedTasks
    <2> QED
        BY <1>5, <2>1, <2>2 DEF Resume
<1>6. ASSUME NEW t \in Turns, Drive(t) PROVE EndedTasks'
    <2>1. ASSUME task[t] # "ended", status' = status, NEW p, task' = [task EXCEPT ![t] = p]
          PROVE  EndedTasks'
        BY <1>0, <2>1 DEF EndedTasks
    <2>2. ASSUME NEW s, FinishAndEnd(t, s) PROVE EndedTasks'
        BY <1>0, <2>2 DEF EndedTasks, FinishAndEnd
    <2>3. CASE Begin(t) \/ PruneAndStore(t) \/ TakeQueue(t) \/ DeliveryFails(t) \/ CallModel(t)
               \/ CallTool(t) \/ ToolReturns(t) \/ Reply(t) \/ AutoContinue(t)
               \/ CancelledUnborn(t) \/ CancelledClosing(t)
        BY <2>1, <2>3 DEF Begin, PruneAndStore, TakeQueue, DeliveryFails, CallModel, CallTool,
           ToolReturns, Reply, AutoContinue, CancelledUnborn, CancelledClosing, At, GoTo
    <2>4. CASE Deliver(t)
        BY <1>2, <2>1, <2>4 DEF Deliver, At, GoTo
    <2>5. CASE FinishDone(t)
        <3> DEFINE left == queue[t]
                   st == [status EXCEPT ![t] = "done"]
                   tk == [task EXCEPT ![t] = "ended"]
        <3>1. /\ st \in [Turns -> Statuses] /\ tk \in [Turns -> Phases]
              /\ \A u \in Turns : st[u] \in Terminal => tk[u] = "ended"
            BY <1>0 DEF Statuses, Terminal, Phases
        <3>2. \/ status' = st /\ task' = tk
              \/ StartTurn(left, st, tk)
            BY <2>5 DEF FinishDone
        <3> HIDE DEF st, tk, left
        <3> QED
            BY <3>1, <3>2, StartKeepsEndedTasks DEF EndedTasks
    <2>6. CASE RunRaises(t) \/ ErrorEvent(t) \/ CloseCalls(t) \/ CloseFails(t)
        BY <2>2, <2>6 DEF RunRaises, ErrorEvent, CloseCalls, CloseFails
    <2>7. CASE CancelSeen(t)
        BY <2>1, <2>2, <2>7 DEF CancelSeen, GoTo
    <2>8. CASE OnDone(t)
        BY <1>0, <2>8 DEF OnDone, EndedTasks
    <2> QED
        BY <1>6, <2>3, <2>4, <2>5, <2>6, <2>7, <2>8 DEF Drive, Cancelled
<1> QED
    BY <1>4, <1>5, <1>6 DEF Next

-----------------------------------------------------------------------------
LEMMA CallInvQuiet ==
    ASSUME CallInv, unstored \subseteq unstored', UNCHANGED <<status, task, cancel, hits, open>>
    PROVE  CallInv'
BY DEF CallInv, HitInv, OpenInv

\* The statuses st at a start differ from the current ones by ends of turns.
LEMMA StartKeepsCallInv ==
    ASSUME TypeOK, SlotInv, TaskInv, CallInv, NEW texts, NEW st \in [Turns -> Statuses],
           NEW tk \in [Turns -> Phases], StartTurn(texts, st, tk),
           \A t \in Turns : tk[t] # task[t] => tk[t] = "ended" /\ t \notin open,
           \A t \in Turns : status[t] = "error" => st[t] = "error",
           unstored \subseteq unstored', UNCHANGED <<cancel, hits, open>>
    PROVE  CallInv'
<1> DEFINE n == count + 1
<1>1. n \in Turns /\ status' = [st EXCEPT ![n] = "running"] /\ task' = [tk EXCEPT ![n] = "created"]
    BY DEF StartTurn
<1>2. status[n] = "none" /\ task[n] = "none"
    BY <1>1 DEF SlotInv, TaskInv, Turns
<1>3. n \notin open
    BY <1>2 DEF CallInv, OpenInv
<1>4. task'[n] = "created" /\ \A t \in Turns \ {n} : status'[t] = st[t] /\ task'[t] = tk[t]
    BY <1>1
<1> HIDE DEF n
<1>5. HitInv'
    BY <1>4 DEF CallInv, HitInv
<1>6. OpenInv'
    BY <1>3, <1>4 DEF CallInv, OpenInv, TypeOK, SessOK
<1> QED
    BY <1>5, <1>6 DEF CallInv

LEMMA CancelKeepsCallInv ==
    ASSUME TypeOK, CallInv, NEW ts \in SUBSET Turns, Cancel(ts), UNCHANGED <<status, task, open>>,
           unstored \subseteq unstored'
    PROVE  CallInv'
<1>1. \A t \in Turns : hits[t] \in Nat /\ hits'[t] \in Nat /\ hits'[t] >= hits[t]
    BY DEF Cancel, TypeOK, TaskOK
<1>2. \A t \in Turns : cancel'[t] => cancel[t] \/ hits'[t] >= hits[t] + 1
    BY DEF Cancel, TypeOK, TaskOK
<1>3. HitInv'
    <2> SUFFICES ASSUME NEW t \in Turns
                 PROVE  /\ cancel'[t] => hits'[t] >= 1
                        /\ task[t] = "closing" => hits'[t] >= 1
                        /\ task[t] = "closing" /\ cancel'[t] => hits'[t] >= 2
        BY DEF HitInv
    <2>1. /\ cancel[t] => hits[t] >= 1
          /\ task[t] = "closing" => hits[t] >= 1
          /\ task[t] = "closing" /\ cancel[t] => hits[t] >= 2
        BY DEF CallInv, HitInv
    <2> QED
        BY <1>1, <1>2, <2>1
<1>4. OpenInv'
    BY <1>1 DEF CallInv, OpenInv, TypeOK, SessOK
<1> QED
    BY <1>3, <1>4 DEF CallInv

LEMMA NextKeepsCallInv ==
    ASSUME TypeOK, SlotInv, TaskInv, CallInv, Next PROVE CallInv'
<1>0. /\ status \in [Turns -> Statuses] /\ task \in [Turns -> Phases]
      /\ cancel \in [Turns -> BOOLEAN] /\ hits \in [Turns -> 0..MaxHits] /\ open \subseteq Turns
      /\ unstored \subseteq unstored'
    BY NextRemembers DEF TypeOK, TaskOK, SessOK
<1>1. ASSUME NEW m \in Msgs, StartFor(m) PROVE CallInv'
    BY <1>0, <1>1, StartKeepsCallInv DEF StartFor, sessVars
<1>3. ASSUME NEW m \in Msgs, EnqueuePass(m) PROVE CallInv'
    BY <1>0, <1>1, CallInvQuiet, <1>3 DEF EnqueuePass, Answer, taskVars, sessVars
<1>4. CASE Client
    <2>1. ASSUME NEW m \in Msgs, PostStart(m) \/ PostQueue(m) PROVE CallInv'
        BY <1>0, <1>1, CallInvQuiet, <1>3, <2>1 DEF PostStart, PostQueue, Answer, taskVars, sessVars
    <2>2. ASSUME NEW m \in Msgs, PostInterrupt(m) PROVE CallInv'
        <3>1. CASE ~Busy(status)
            BY <1>1, <2>2, <3>1 DEF PostInterrupt
        <3>2. CASE Busy(status)
            <4>1. Cur \in Turns
                BY <3>2, CurIsTurn
            <4> QED
                BY <1>0, <2>2, <3>2, <4>1, CancelKeepsCallInv, {Cur} \in SUBSET Turns
                   DEF PostInterrupt, sessVars
        <3> QED
            BY <3>1, <3>2
    <2>3. ASSUME NEW m \in Msgs, NEW t \in Turns, Withdraw(m, t) PROVE CallInv'
        BY <1>0, CallInvQuiet, <2>3 DEF Withdraw, taskVars, sessVars
    <2>4. ASSUME NEW t \in Turns, Abort(t) PROVE CallInv'
        BY <1>0, <2>4, CancelKeepsCallInv, {t} \in SUBSET Turns DEF Abort, sessVars
    <2>5. ASSUME NEW t \in Turns, Expire(t) PROVE CallInv'
        BY <1>0, CallInvQuiet, <2>5 DEF Expire, taskVars, sessVars
    <2>6. CASE AbortSession
        BY <1>0, <2>6, CancelKeepsCallInv DEF AbortSession, sessVars, TypeOK, TableOK
    <2>7. CASE RetryLast
        BY <1>0, <2>7, StartKeepsCallInv DEF RetryLast, sessVars
    <2> QED
        BY <1>4, <2>1, <2>2, <2>3, <2>4, <2>5, <2>6, <2>7 DEF Client
<1>5. ASSUME NEW m \in Msgs, Resume(m) PROVE CallInv'
    <2>1. CASE PollAgain(m) \/ PollGivesUp(m)
        BY <1>0, CallInvQuiet, <1>3, <2>1 DEF PollAgain, PollGivesUp, Answer, taskVars, sessVars
    <2>2. CASE InterruptGoesOn(m)
        <3> DEFINE t == target[m]
                   st == IF status[t] = "running" THEN [status EXCEPT ![t] = "aborted"] ELSE status
        <3>1. st \in [Turns -> Statuses] /\ \A u \in Turns : status[u] = "error" => st[u] = "error"
            BY <1>0 DEF Statuses, Terminal
        <3>2. UNCHANGED <<cancel, hits, open>>
            BY <2>2 DEF InterruptGoesOn, ResumeInterrupt, sessVars
        <3>3. \/ status' = st /\ task' = task
              \/ StartTurn(Append(carried[m], m), st, task)
            BY <2>2 DEF InterruptGoesOn, ResumeInterrupt
        <3> HIDE DEF st
        <3>4. CASE status' = st /\ task' = task
            BY <1>0, <3>1, <3>2, <3>4 DEF CallInv, HitInv, OpenInv
        <3> QED
            BY <1>0, <3>1, <3>2, <3>3, <3>4, StartKeepsCallInv
    <2> QED
        BY <1>5, <2>1, <2>2 DEF Resume
<1>6. ASSUME NEW t \in Turns, Drive(t) PROVE CallInv'
    <2>0. t \in open => \/ task[t] \in {"tool", "closing"}
                        \/ /\ task[t] = "ended"
                           /\ status[t] = "error" \/ hits[t] >= 2 \/ t \in unstored
        BY DEF CallInv, OpenInv
    <2>1. ASSUME t \notin open', open' \ {t} = open \ {t}, task'[t] # "closing",
                 \A u \in Turns \ {t} : /\ task'[u] = task[u] /\ status'[u] = status[u]
                                        /\ cancel'[u] = cancel[u],
                 hits' = hits, cancel'[t] => cancel[t]
          PROVE  CallInv'
        BY <1>0, <2>1 DEF CallInv, HitInv, OpenInv
    <2>2. CASE Begin(t) \/ PruneAndStore(t) \/ TakeQueue(t) \/ DeliveryFails(t) \/ CallModel(t)
               \/ ToolReturns(t) \/ Reply(t) \/ AutoContinue(t) \/ CancelledUnborn(t)
        BY <1>0, <2>0, <2>1, <2>2
           DEF Begin, PruneAndStore, TakeQueue, DeliveryFails, CallModel, ToolReturns, Reply,
               AutoContinue, CancelledUnborn, At, GoTo, sessVars
    <2>3. CASE Deliver(t)
        BY <1>0, <2>0, <2>1, <2>3 DEF Deliver, At, GoTo
    <2>4. CASE CallTool(t)
        BY <1>0, <2>4 DEF CallTool, At, GoTo, CallInv, HitInv, OpenInv
    <2>5. CASE FinishDone(t)
        <3> DEFINE left == queue[t]
                   st == [status EXCEPT ![t] = "done"]
                   tk == [task EXCEPT ![t] = "ended"]
        <3>1. /\ st \in [Turns -> Statuses] /\ tk \in [Turns -> Phases]
              /\ \A u \in Turns \ {t} : st[u] = status[u] /\ tk[u] = task[u]
              /\ tk[t] = "ended"
            BY <1>0 DEF Statuses, Terminal, Phases
        <3>2. \/ status' = st /\ task' = tk
              \/ StartTurn(left, st, tk)
            BY <2>5 DEF FinishDone
        <3>3. t \notin open /\ status[t] = "running" /\ UNCHANGED <<cancel, hits, open>>
            BY <2>0, <2>5, GoesOnIsRunning DEF FinishDone, At, sessVars
        <3> HIDE DEF st, tk, left
        <3>4. CASE status' = st /\ task' = tk
            BY <2>1, <3>1, <3>3, <3>4
        <3>5. CASE StartTurn(left, st, tk)
            BY <1>0, <3>1, <3>3, <3>5, StartKeepsCallInv
        <3> QED
            BY <3>2, <3>4, <3>5
    <2>6. CASE RunRaises(t) \/ ErrorEvent(t)
        BY <1>0, <2>0, <2>6
           DEF RunRaises, ErrorEvent, FinishAndEnd, At, CallInv, HitInv, OpenInv, sessVars
    <2>7. CASE CloseCalls(t)
        BY <1>0, <2>1, <2>7 DEF CloseCalls, FinishAndEnd
    <2>11. CASE CloseFails(t)
        BY <1>0, <2>11 DEF CloseFails, FinishAndEnd, sessVars, At, CallInv, HitInv, OpenInv
    <2>8. CASE CancelSeen(t)
        <3>1. CASE t \in open
            BY <1>0, <2>8, <3>1 DEF CancelSeen, GoTo, sessVars, CallInv, HitInv, OpenInv
        <3>2. CASE t \notin open
            BY <1>0, <2>1, <2>8, <3>2 DEF CancelSeen, FinishAndEnd, sessVars
        <3> QED
            BY <3>1, <3>2
    <2>9. CASE CancelledClosing(t)
        BY <1>0, <2>9 DEF CancelledClosing, GoTo, sessVars, CallInv, HitInv, OpenInv
    <2>10. CASE OnDone(t)
        BY <1>0, <2>0, <2>10 DEF OnDone, sessVars, CallInv, HitInv, OpenInv
    <2> QED
        BY <1>6, <2>2, <2>3, <2>4, <2>5, <2>6, <2>7, <2>8, <2>9, <2>10, <2>11 DEF Drive, Cancelled
<1> QED
    BY <1>4, <1>5, <1>6 DEF Next

\* Cancellations are counted, and open calls are where CallInv says they are.
THEOREM CallInvHolds == Spec => []CallInv
<1>1. Init => CallInv
    BY DEF Init, CallInv, HitInv, OpenInv
<1>2. IInv /\ CallInv /\ [Next]_vars => CallInv'
    BY NextKeepsCallInv, CallInvQuiet
       DEF IInv, TypeInv, vars, taskVars, sessVars, mailVars
<1> QED
    BY <1>1, <1>2, IInvHolds, PTL DEF Spec

LEMMA EndedTasksHolds == Spec => [](~Stubborn => EndedTasks)
<1>1. Init => EndedTasks
    BY DEF Init, EndedTasks, Terminal
<1>2. IInv /\ (~Stubborn => EndedTasks) /\ [Next]_vars => (~Stubborn => EndedTasks')
    BY NextKeepsEndedTasks DEF IInv, TypeInv, vars, taskVars, EndedTasks
<1>3. IInv /\ (~Stubborn => EndedTasks) /\ [Next]_vars => (~Stubborn => EndedTasks)'
    BY <1>2
<1> QED
    BY <1>1, <1>3, IInvHolds, PTL DEF Spec

\* One task drives the agent on a session at a time, whatever starts, send-nows,
\* follow-ups and retries race for the slot, as long as no stopped task outlives
\* the 15 s that interrupt_and_start waits for it.
THEOREM OneDriverHolds == Spec => [](~Stubborn => OneDriver)
<1>1. IInv /\ (~Stubborn => EndedTasks) => (~Stubborn => OneDriver)
    <2> SUFFICES ASSUME IInv, EndedTasks,
                        NEW t \in Turns, task[t] \notin {"none", "ended"}
                 PROVE  t = count
        BY DEF OneDriver
    <2>1. status[t] = "running"
        BY DEF IInv, SlotInv, TaskInv, EndedTasks, Statuses
    <2> QED
        BY <2>1 DEF IInv, SlotInv
<1> QED
    BY <1>1, IInvHolds, EndedTasksHolds, PTL

\* A turn that was stopped once ends with every tool call answered, so that the
\* next model request is accepted: _close_interrupted_calls runs before the end is
\* recorded, unless a send-now gave the task up after its 15 s.
THEOREM StoppedOnceIsAnsweredHolds == Spec => [](~Stubborn => StoppedOnceIsAnswered)
<1>1. IInv /\ CallInv /\ (~Stubborn => EndedTasks) => (~Stubborn => StoppedOnceIsAnswered)
    BY DEF IInv, TypeInv, TypeOK, TaskOK, CallInv, OpenInv, EndedTasks, StoppedOnceIsAnswered, Terminal
<1> QED
    BY <1>1, IInvHolds, CallInvHolds, EndedTasksHolds, PTL

-----------------------------------------------------------------------------
(* The texts of an answered turn stay in the history.                      *)

\* The turn runs and its message is stored.
Speaks(t) == status[t] = "running" /\ task[t] \in {"model", "drain", "gen", "tool", "reply"}

\* The texts of a turn that speaks or has spoken are in the history, and those
\* that a prune could take are there twice: the last event is another turn's.
StoredInv ==
    /\ \A t \in Turns : status[t] = "none" => ~out[t]
    /\ \A t \in Turns : Speaks(t) \/ out[t] => \A m \in Texts(message[t]) : copies[m] >= 1
    /\ \A t \in Turns : out[t] => \A m \in Texts(lastUser) \cap Texts(message[t]) : copies[m] >= 2

LEMMA StoredInvKept ==
    ASSUME TypeOK, StoredInv, message' = message, copies' \in [Msgs -> Nat],
           \A m \in Msgs : copies'[m] >= copies[m],
           \A t \in Turns : status'[t] = "none" => status[t] = "none" /\ out'[t] = out[t],
           \A t \in Turns : Speaks(t)' => Speaks(t),
           \/ lastUser' = lastUser /\ out' = out
           \/ lastUser' = <<>> /\ \A t \in Turns : out'[t] => out[t] \/ Speaks(t)
    PROVE  StoredInv'
<1>1. \A t \in Turns : Texts(message[t]) \subseteq Msgs
    BY DEF TypeOK, TableOK, Texts
<1>2. Texts(<<>>) = {}
    BY DEF Texts
<1>3. copies \in [Msgs -> Nat] /\ Texts(lastUser) \subseteq Msgs
    BY DEF TypeOK, SessOK, Texts
<1>4. ASSUME NEW t \in Turns, status'[t] = "none" PROVE ~out'[t]
    BY <1>4 DEF StoredInv
<1>5. ASSUME NEW t \in Turns, Speaks(t)' \/ out'[t], NEW m \in Texts(message[t])
      PROVE  copies'[m] >= 1
    <2>1. copies[m] >= 1 /\ m \in Msgs
        BY <1>1, <1>5 DEF StoredInv
    <2> QED
        BY <1>3, <2>1
<1>6. ASSUME NEW t \in Turns, out'[t], NEW m \in Texts(lastUser') \cap Texts(message[t])
      PROVE  copies'[m] >= 2
    <2>1. lastUser' = lastUser /\ out' = out
        BY <1>2, <1>6
    <2>2. copies[m] >= 2 /\ m \in Msgs
        BY <1>1, <1>6, <2>1 DEF StoredInv
    <2> QED
        BY <1>3, <2>2
<1>7. \A s : Texts(s)' = Texts(s')
    BY DEF Texts
<1> QED
    BY <1>4, <1>5, <1>6, <1>7 DEF StoredInv, Texts

LEMMA StartKeepsStoredInv ==
    ASSUME TypeOK, SlotInv, StoredInv, NEW texts, NEW st \in [Turns -> Statuses],
           NEW tk \in [Turns -> Phases], StartTurn(texts, st, tk),
           \A t \in Turns : st[t] = "running" => status[t] = "running",
           \A t \in Turns : st[t] = "none" => status[t] = "none",
           \A t \in Turns : tk[t] # task[t] => tk[t] = "ended",
           UNCHANGED <<out, copies, lastUser>>
    PROVE  StoredInv'
<1> DEFINE n == count + 1
<1>1. /\ n \in Turns /\ status' = [st EXCEPT ![n] = "running"] /\ task' = [tk EXCEPT ![n] = "created"]
      /\ message' = [message EXCEPT ![n] = texts]
    BY DEF StartTurn
<1>2. status[n] = "none"
    BY <1>1 DEF SlotInv, Turns
<1>3. ~out[n]
    BY <1>1, <1>2 DEF StoredInv
<1>4. task'[n] = "created" /\ \A t \in Turns \ {n} : /\ status'[t] = st[t] /\ task'[t] = tk[t]
                                                     /\ message'[t] = message[t]
    BY <1>1 DEF TypeOK, TableOK
<1>5. status'[n] = "running"
    BY <1>1
<1> HIDE DEF n
<1>6. ASSUME NEW t \in Turns, Speaks(t)' PROVE t # n /\ Speaks(t)
    <2>1. t # n
        BY <1>4, <1>6 DEF Speaks
    <2>2. tk[t] = task[t]
        BY <1>4, <1>6, <2>1 DEF Speaks
    <2> QED
        BY <1>4, <1>6, <2>1, <2>2 DEF Speaks
<1>7. \A t \in Turns : status'[t] = "none" => ~out'[t]
    BY <1>4, <1>5 DEF StoredInv
<1>8. ASSUME NEW t \in Turns, Speaks(t)' \/ out'[t]
      PROVE  \A m \in Texts(message[t])' : copies'[m] >= 1
    <2>1. Texts(message[t])' = Texts(message[t]) /\ (Speaks(t) \/ out[t])
        BY <1>3, <1>4, <1>6, <1>8 DEF Texts
    <2> QED
        BY <2>1 DEF StoredInv
<1>9. ASSUME NEW t \in Turns, out'[t]
      PROVE  \A m \in Texts(lastUser)' \cap Texts(message[t])' : copies'[m] >= 2
    <2>1. /\ Texts(message[t])' = Texts(message[t]) /\ out[t]
          /\ Texts(lastUser)' = Texts(lastUser)
        BY <1>3, <1>4, <1>9 DEF Texts
    <2> QED
        BY <2>1 DEF StoredInv
<1> QED
    BY <1>7, <1>8, <1>9 DEF StoredInv

LEMMA PruneKeepsStoredInv ==
    ASSUME TypeInv, SlotInv, TaskInv, StoredInv, NEW t \in Turns, PruneAndStore(t)
    PROVE  StoredInv'
<1> DEFINE pruned == IF Prunes(t) THEN Texts(message[orphanOf[t]]) ELSE {}
           kept == [m \in Msgs |-> IF m \in pruned THEN copies[m] - 1 ELSE copies[m]]
<1>1. /\ copies' = [m \in Msgs |-> IF m \in Texts(message[t]) THEN kept[m] + 1 ELSE kept[m]]
      /\ lastUser' = message[t]
      /\ task' = [task EXCEPT ![t] = "model"]
      /\ UNCHANGED <<status, out, message>>
    BY DEF PruneAndStore, GoTo, tableVars
<1>2. status[t] = "running"
    BY GoesOnIsRunning DEF PruneAndStore
<1>3. pruned \subseteq Texts(lastUser) /\ \A m \in pruned : copies[m] >= 1
    BY DEF Prunes, Texts, TypeInv, LastIsStored, TypeOK, SessOK
<1>4. copies \in [Msgs -> Nat] /\ \A u \in Turns : Texts(message[u]) \subseteq Msgs
    BY DEF TypeInv, TypeOK, SessOK, TableOK, Texts
<1>5. \A m \in Msgs : /\ kept[m] \in Nat /\ (m \notin pruned => kept[m] = copies[m])
                      /\ (m \in pruned => kept[m] + 1 = copies[m])
    BY <1>3, <1>4
<1> HIDE DEF kept, pruned
<1>6. \A m \in Msgs : copies'[m] = IF m \in Texts(message[t]) THEN kept[m] + 1 ELSE kept[m]
    BY <1>1
<1>7. ASSUME NEW u \in Turns, out[u], NEW m \in Texts(message[u])
      PROVE  copies'[m] >= 1 /\ (m \in Texts(message[t]) => copies'[m] >= 2)
    <2>1. m \in Msgs /\ copies[m] >= 1 /\ (m \in pruned => copies[m] >= 2)
        BY <1>3, <1>4, <1>7 DEF StoredInv
    <2> QED
        BY <1>4, <1>5, <1>6, <2>1
<1>8. ASSUME NEW u \in Turns, Speaks(u)', NEW m \in Texts(message[u]) PROVE copies'[m] >= 1
    <2>1. u = t
        BY <1>1, <1>2, <1>8 DEF Speaks, SlotInv
    <2> QED
        BY <1>4, <1>5, <1>6, <2>1
<1>9. \A u \in Turns : status[u] = "none" => ~out[u]
    BY DEF StoredInv
<1> QED
    BY <1>1, <1>7, <1>8, <1>9 DEF StoredInv, Texts

LEMMA NextKeepsStoredInv ==
    ASSUME TypeInv, TypeInv', SlotInv, TaskInv, StoredInv, Next PROVE StoredInv'
<1>0. /\ status \in [Turns -> Statuses] /\ task \in [Turns -> Phases]
      /\ out \in [Turns -> BOOLEAN] /\ TypeOK /\ copies \in [Msgs -> Nat] /\ copies' \in [Msgs -> Nat]
      /\ \A m \in Msgs : copies[m] >= copies[m]
    BY DEF TypeInv, TypeOK, TaskOK, SessOK
<1>1. ASSUME NEW m \in Msgs, StartFor(m) PROVE StoredInv'
    BY <1>0, <1>1, StartKeepsStoredInv DEF StartFor, sessVars
<1>2. ASSUME UNCHANGED <<status, task, message, out, copies, lastUser>> PROVE StoredInv'
    BY <1>2 DEF StoredInv, Speaks, Texts
<1>3. ASSUME NEW m \in Msgs, EnqueuePass(m) PROVE StoredInv'
    BY <1>1, <1>2, <1>3 DEF EnqueuePass, Answer, tableVars, taskVars, sessVars
<1>4. CASE Client
    <2>1. ASSUME NEW m \in Msgs, PostStart(m) \/ PostQueue(m) \/ PostInterrupt(m) PROVE StoredInv'
        BY <1>1, <1>2, <1>3, <2>1
           DEF PostStart, PostQueue, PostInterrupt, Answer, tableVars, taskVars, sessVars
    <2>2. ASSUME NEW m \in Msgs, NEW t \in Turns, Withdraw(m, t) PROVE StoredInv'
        BY <1>2, <2>2 DEF Withdraw, tableVars, taskVars, sessVars
    <2>3. ASSUME NEW t \in Turns, Abort(t) \/ Expire(t) PROVE StoredInv'
        BY <1>2, <2>3 DEF Abort, Expire, tableVars, taskVars, sessVars
    <2>4. CASE AbortSession
        BY <1>2, <2>4 DEF AbortSession, tableVars, sessVars
    <2>5. CASE RetryLast
        BY <1>0, <2>5, StartKeepsStoredInv DEF RetryLast, sessVars
    <2> QED
        BY <1>4, <2>1, <2>2, <2>3, <2>4, <2>5 DEF Client
<1>5. ASSUME NEW m \in Msgs, Resume(m) PROVE StoredInv'
    <2>1. CASE PollAgain(m) \/ PollGivesUp(m)
        BY <1>2, <1>3, <2>1 DEF PollAgain, PollGivesUp, Answer, tableVars, taskVars, sessVars
    <2>2. CASE InterruptGoesOn(m)
        <3> DEFINE t == target[m]
                   st == IF status[t] = "running" THEN [status EXCEPT ![t] = "aborted"] ELSE status
        <3>1. /\ st \in [Turns -> Statuses]
              /\ \A u \in Turns : st[u] = "running" => status[u] = "running"
              /\ \A u \in Turns : st[u] = "none" => status[u] = "none"
            BY <1>0 DEF Statuses, Terminal
        <3>2. UNCHANGED <<out, copies, lastUser>>
            BY <2>2 DEF InterruptGoesOn, ResumeInterrupt, sessVars
        <3>3. \/ status' = st /\ task' = task /\ message' = message
              \/ StartTurn(Append(carried[m], m), st, task)
            BY <2>2 DEF InterruptGoesOn, ResumeInterrupt, tableVars
        <3> HIDE DEF st
        <3>4. CASE status' = st /\ task' = task /\ message' = message
            BY <1>0, <3>1, <3>2, <3>4, StoredInvKept DEF Speaks
        <3> QED
            BY <1>0, <3>1, <3>2, <3>3, <3>4, StartKeepsStoredInv
    <2> QED
        BY <1>5, <2>1, <2>2 DEF Resume
<1>6. ASSUME NEW t \in Turns, Drive(t) PROVE StoredInv'
    <2>1. ASSUME NEW p, At(t, p), p \in {"model", "drain", "gen", "tool", "reply"},
                 \A u \in Turns \ {t} : status'[u] = status[u] /\ task'[u] = task[u] /\ out'[u] = out[u],
                 status'[t] # "none", message' = message,
                 \A m \in Msgs : copies'[m] >= copies[m],
                 (lastUser' = lastUser /\ out' = out) \/ lastUser' = <<>>
          PROVE  StoredInv'
        <3>1. Speaks(t)
            BY <2>1, GoesOnIsRunning DEF At, Speaks
        <3> QED
            BY <1>0, <2>1, <3>1, StoredInvKept DEF Speaks
    <2>2. ASSUME \A u \in Turns \ {t} : status'[u] = status[u] /\ task'[u] = task[u],
                 status[t] # "none", status'[t] # "none",
                 task'[t] \in {"begin", "ended", "closing"} \/ status'[t] # "running",
                 UNCHANGED <<message, copies, out, lastUser>>
          PROVE  StoredInv'
        BY <1>0, <2>2, StoredInvKept DEF Speaks
    <2>3. CASE Begin(t) \/ CancelledUnborn(t) \/ CancelledClosing(t)
        BY <1>0, <2>2, <2>3 DEF Begin, CancelledUnborn, CancelledClosing, At, GoTo, TaskInv,
           tableVars, sessVars
    <2>4. CASE PruneAndStore(t)
        BY <2>4, PruneKeepsStoredInv
    <2>5. CASE TakeQueue(t) \/ DeliveryFails(t) \/ CallModel(t) \/ CallTool(t) \/ ToolReturns(t)
               \/ Reply(t) \/ AutoContinue(t)
        <3>1. status[t] # "none"
            BY <2>5 DEF TakeQueue, DeliveryFails, CallModel, CallTool, ToolReturns, Reply,
               AutoContinue, At, TaskInv
        <3> QED
            BY <1>0, <2>1, <2>5, <3>1
               DEF TakeQueue, DeliveryFails, CallModel, CallTool, ToolReturns, Reply,
                   AutoContinue, GoTo, tableVars, sessVars
    <2>6. CASE Deliver(t)
        <3>1. status[t] # "none" /\ At(t, "drain") /\ hand[t] # <<>> /\ hand[t] \in Seq(Msgs)
            BY <2>6 DEF Deliver, At, TaskInv, TypeInv, DrainHolds, TypeOK, MailOK
        <3>2. Head(hand[t]) \in Msgs
            BY <3>1
        <3>3. \A m \in Msgs : copies'[m] >= copies[m]
            BY <1>0, <2>6, <3>2 DEF Deliver
        <3> QED
            BY <1>0, <2>1, <2>6, <3>1, <3>3 DEF Deliver, GoTo, tableVars
    <2>7. CASE FinishDone(t)
        <3> DEFINE left == queue[t]
                   st == [status EXCEPT ![t] = "done"]
                   tk == [task EXCEPT ![t] = "ended"]
        <3>1. /\ st \in [Turns -> Statuses] /\ tk \in [Turns -> Phases]
              /\ \A u \in Turns \ {t} : st[u] = status[u] /\ tk[u] = task[u]
              /\ st[t] = "done" /\ tk[t] = "ended"
            BY <1>0 DEF Statuses, Terminal, Phases
        <3>2. \/ status' = st /\ task' = tk /\ message' = message
              \/ StartTurn(left, st, tk)
            BY <2>7 DEF FinishDone, tableVars
        <3>3. At(t, "reply") /\ UNCHANGED <<out, copies, lastUser>> /\ status[t] # "none"
            BY <2>7 DEF FinishDone, sessVars, At, TaskInv
        <3> HIDE DEF st, tk, left
        <3>4. CASE status' = st /\ task' = tk /\ message' = message
            BY <2>2, <3>1, <3>3, <3>4
        <3>5. CASE StartTurn(left, st, tk)
            BY <1>0, <3>1, <3>3, <3>5, StartKeepsStoredInv
        <3> QED
            BY <3>2, <3>4, <3>5
    <2>8. CASE RunRaises(t)
        BY <1>0, <2>2, <2>8 DEF RunRaises, FinishAndEnd, At, TaskInv, tableVars, sessVars
    <2>9. CASE ErrorEvent(t)
        BY <1>0, <2>1, <2>9 DEF ErrorEvent, FinishAndEnd, tableVars
    <2>10. CASE CloseCalls(t) \/ CloseFails(t)
        BY <1>0, <2>2, <2>10 DEF CloseCalls, CloseFails, FinishAndEnd, At, TaskInv, tableVars, sessVars
    <2>11. CASE CancelSeen(t)
        BY <1>0, <2>2, <2>11 DEF CancelSeen, GoTo, FinishAndEnd, TaskInv, tableVars, sessVars
    <2>12. CASE OnDone(t)
        BY <1>0, <2>2, <2>12 DEF OnDone, tableVars, sessVars
    <2> QED
        BY <1>6, <2>3, <2>4, <2>5, <2>6, <2>7, <2>8, <2>9, <2>10, <2>11, <2>12 DEF Drive, Cancelled
<1> QED
    BY <1>4, <1>5, <1>6 DEF Next

\* The texts of a turn that speaks or has spoken are in the history, beyond the
\* reach of a prune.
THEOREM StoredInvHolds == Spec => []StoredInv
<1>1. Init => StoredInv
    BY DEF Init, StoredInv, Speaks, Texts
<1>2. IInv /\ IInv' /\ StoredInv /\ [Next]_vars => StoredInv'
    BY NextKeepsStoredInv
       DEF IInv, vars, tableVars, taskVars, sessVars, StoredInv, Speaks, Texts
<1> QED
    BY <1>1, <1>2, IInvHolds, PTL DEF Spec

\* What an answered turn said to the model is never pruned, whatever fails and is
\* retried after it (_prune_orphan).
THEOREM AnsweredStaysHolds == Spec => []AnsweredStays
<1>1. IInv /\ StoredInv => AnsweredStays
    <2> SUFFICES ASSUME IInv, StoredInv, NEW t \in Turns, out[t], NEW m \in Texts(message[t])
                 PROVE  copies[m] > 0
        BY DEF AnsweredStays
    <2>1. copies[m] >= 1 /\ copies[m] \in Nat
        BY DEF StoredInv, IInv, TypeInv, TypeOK, SessOK, TableOK, Texts
    <2> QED
        BY <2>1
<1> QED
    BY <1>1, IInvHolds, StoredInvHolds, PTL

-----------------------------------------------------------------------------
(* Where a text can be.  A text is held in one place at a time -- one      *)
(* queue, or the hands of one turn's plugin -- until it is fixed: stored,  *)
(* or part of a turn's message, or carried by a send-now.                  *)

Fixed(m) ==
    \/ copies[m] > 0
    \/ \E t \in Turns : m \in Texts(message[t])
    \/ \E n \in Msgs : m \in Texts(carried[n])

Held(t) == Texts(queue[t]) \cup Texts(hand[t])

Once(s) == \A i, j \in DOMAIN s : s[i] = s[j] => i = j

\* Requests whose text is nowhere in the broker.
Unheard == {"new", "polling", "stopping", "withdrawn"}

MailInv ==
    /\ \A t \in Turns : Once(queue[t]) /\ Once(hand[t]) /\ Texts(queue[t]) \cap Texts(hand[t]) = {}
    /\ \A t, u \in Turns : t # u => Held(t) \cap Held(u) = {}
    /\ \A t \in Turns : \A m \in Held(t) : ~Fixed(m) /\ req[m] = "queued"
    /\ \A m \in Msgs : req[m] \in Unheard => ~Fixed(m)

LEMMA PrimedTexts == \A s : Texts(s)' = Texts(s')
BY DEF Texts

LEMMA TextsAreMsgs ==
    ASSUME TypeOK PROVE \A t \in Turns : Held(t) \subseteq Msgs
BY DEF TypeOK, MailOK, Held, Texts

LEMMA EmptyTexts == Texts(<<>>) = {} /\ Once(<<>>)
BY DEF Texts, Once

LEMMA AppendTexts ==
    ASSUME NEW s \in Seq(Msgs), NEW m \in Msgs
    PROVE  /\ Texts(Append(s, m)) = Texts(s) \cup {m}
           /\ Once(s) /\ m \notin Texts(s) => Once(Append(s, m))
<1>1. /\ DOMAIN Append(s, m) = DOMAIN s \cup {Len(s) + 1} /\ DOMAIN s = 1..Len(s) /\ Len(s) \in Nat
      /\ Append(s, m)[Len(s) + 1] = m /\ \A i \in DOMAIN s : Append(s, m)[i] = s[i]
    OBVIOUS
<1>2. Texts(Append(s, m)) = Texts(s) \cup {m}
    BY <1>1 DEF Texts
<1>3. ASSUME Once(s), m \notin Texts(s) PROVE Once(Append(s, m))
    BY <1>1, <1>3 DEF Texts, Once
<1> QED
    BY <1>2, <1>3

LEMMA TailTexts ==
    ASSUME NEW s \in Seq(Msgs), s # <<>>, Once(s)
    PROVE  Head(s) \in Texts(s) /\ Texts(Tail(s)) = Texts(s) \ {Head(s)} /\ Once(Tail(s))
<1>1. /\ Len(s) \in Nat \ {0} /\ DOMAIN s = 1..Len(s) /\ DOMAIN Tail(s) = 1..(Len(s) - 1)
      /\ Head(s) = s[1] /\ \A i \in 1..(Len(s) - 1) : Tail(s)[i] = s[i + 1]
    OBVIOUS
<1>2. Head(s) \in Texts(s)
    BY <1>1 DEF Texts
<1>3. Once(Tail(s))
    BY <1>1 DEF Once
<1>4. ASSUME NEW x \in Texts(Tail(s)) PROVE x \in Texts(s) /\ x # Head(s)
    BY <1>1 DEF Texts, Once
<1>5. ASSUME NEW x \in Texts(s), x # Head(s) PROVE x \in Texts(Tail(s))
    <2>1. PICK i \in 1..Len(s) : x = s[i]
        BY <1>1 DEF Texts
    <2>2. i - 1 \in 1..(Len(s) - 1) /\ Tail(s)[i - 1] = x
        BY <1>1, <1>5, <2>1
    <2> QED
        BY <1>1, <2>2 DEF Texts
<1> QED
    BY <1>2, <1>3, <1>4, <1>5

LEMMA WithoutTexts ==
    ASSUME NEW s \in Seq(Msgs), Once(s), NEW i \in DOMAIN s
    PROVE  Texts(Without(s, i)) = Texts(s) \ {s[i]} /\ Once(Without(s, i))
<1> DEFINE w == Without(s, i)
<1>1. /\ DOMAIN s = 1..Len(s) /\ Len(s) \in Nat /\ i \in 1..Len(s)
      /\ DOMAIN w = 1..(Len(s) - 1)
      /\ \A j \in 1..(Len(s) - 1) : w[j] = IF j < i THEN s[j] ELSE s[j + 1]
    BY DEF Without
<1> HIDE DEF w
<1>2. Once(w)
    BY <1>1 DEF Once
<1>3. ASSUME NEW x \in Texts(w) PROVE x \in Texts(s) /\ x # s[i]
    <2>1. PICK j \in 1..(Len(s) - 1) : x = w[j]
        BY <1>1 DEF Texts
    <2> QED
        BY <1>1, <2>1 DEF Texts, Once
<1>4. ASSUME NEW x \in Texts(s), x # s[i] PROVE x \in Texts(w)
    <2>1. PICK k \in 1..Len(s) : x = s[k]
        BY <1>1 DEF Texts
    <2>2. CASE k < i
        <3>1. k \in 1..(Len(s) - 1) /\ w[k] = x
            BY <1>1, <2>1, <2>2
        <3> QED
            BY <1>1, <3>1 DEF Texts
    <2>3. CASE k > i
        <3>1. k - 1 \in 1..(Len(s) - 1) /\ w[k - 1] = x
            BY <1>1, <2>1, <2>3
        <3> QED
            BY <1>1, <3>1 DEF Texts
    <2> QED
        BY <1>1, <1>4, <2>1, <2>2, <2>3
<1>5. Texts(w) = Texts(s) \ {s[i]}
    BY <1>3, <1>4
<1> QED
    BY <1>2, <1>5 DEF w

\* A step that puts no text into a queue or a hand, fixes the texts N, and
\* answers requests whose texts it does not leave behind.
LEMMA MailStep ==
    ASSUME TypeOK, MailInv, NEW N,
           \A t \in Turns : /\ Texts(queue'[t]) \subseteq Texts(queue[t]) /\ Once(queue'[t])
                            /\ Texts(hand'[t]) \subseteq Texts(hand[t]) /\ Once(hand'[t]),
           \A x \in Msgs : Fixed(x)' => Fixed(x) \/ x \in N,
           \A x \in N : req'[x] \notin Unheard /\ \A t \in Turns : x \notin Held(t)',
           \A x \in Msgs : req'[x] # req[x] =>
               (req'[x] \in Unheard => ~Fixed(x)) /\ \A t \in Turns : x \notin Held(t)'
    PROVE  MailInv'
<1>1. \A t \in Turns : Held(t)' \subseteq Held(t) /\ Held(t)' \subseteq Msgs
    <2>1. \A t \in Turns : Held(t)' = Texts(queue'[t]) \cup Texts(hand'[t])
        BY DEF Held, Texts
    <2>2. \A t \in Turns : Held(t)' \subseteq Held(t)
        BY <2>1 DEF Held
    <2> QED
        BY <2>2, TextsAreMsgs
<1>2. ASSUME NEW t \in Turns
      PROVE  Once(queue'[t]) /\ Once(hand'[t]) /\ Texts(queue'[t]) \cap Texts(hand'[t]) = {}
    BY DEF MailInv
<1>3. ASSUME NEW t \in Turns, NEW u \in Turns, t # u PROVE Held(t)' \cap Held(u)' = {}
    BY <1>1, <1>3 DEF MailInv
<1>4. ASSUME NEW t \in Turns, NEW m \in Held(t)' PROVE ~Fixed(m)' /\ req'[m] = "queued"
    BY <1>1, <1>4 DEF MailInv
<1>5. ASSUME NEW m \in Msgs, req'[m] \in Unheard PROVE ~Fixed(m)'
    BY <1>5 DEF MailInv
<1>6. \A t \in Turns : /\ Once(queue[t])' = Once(queue'[t]) /\ Once(hand[t])' = Once(hand'[t])
                       /\ Texts(queue[t])' = Texts(queue'[t]) /\ Texts(hand[t])' = Texts(hand'[t])
    BY DEF Once, Texts
<1> QED
    BY <1>2, <1>3, <1>4, <1>5, <1>6 DEF MailInv, Unheard

\* What the start of a turn fixes.
LEMMA StartFixes ==
    ASSUME TypeOK, NEW texts, NEW st, NEW tk, StartTurn(texts, st, tk), copies' = copies,
           \A n \in Msgs : Texts(carried'[n]) \subseteq Texts(carried[n])
    PROVE  \A x \in Msgs : Fixed(x)' => Fixed(x) \/ x \in Texts(texts)
<1>1. \A t \in Turns : message'[t] = texts \/ message'[t] = message[t]
    BY DEF StartTurn, TypeOK, TableOK
<1> QED
    BY <1>1, PrimedTexts DEF Fixed, Texts

\* A step that moves no text.
LEMMA MailQuiet ==
    ASSUME TypeOK, MailInv, UNCHANGED <<queue, hand>>,
           \A x \in Msgs : Fixed(x)' => Fixed(x),
           \A x \in Msgs : req'[x] # req[x] =>
               (req'[x] \in Unheard => ~Fixed(x)) /\ \A t \in Turns : x \notin Held(t)
    PROVE  MailInv'
<1> DEFINE N == {}
<1>1. \A t \in Turns : Held(t)' = Held(t)
    BY DEF Held, Texts
<1>2. \A t \in Turns : Once(queue[t]) /\ Once(hand[t])
    BY DEF MailInv
<1>3. \A t \in Turns : /\ Texts(queue'[t]) \subseteq Texts(queue[t]) /\ Once(queue'[t])
                       /\ Texts(hand'[t]) \subseteq Texts(hand[t]) /\ Once(hand'[t])
    BY <1>2
<1>4. \A x \in N : req'[x] \notin Unheard /\ \A t \in Turns : x \notin Held(t)'
    OBVIOUS
<1>5. \A x \in Msgs : req'[x] # req[x] =>
          (req'[x] \in Unheard => ~Fixed(x)) /\ \A t \in Turns : x \notin Held(t)'
    BY <1>1
<1>6. \A x \in Msgs : Fixed(x)' => Fixed(x) \/ x \in N
    OBVIOUS
<1> HIDE DEF N
<1> QED
    BY <1>3, <1>4, <1>5, <1>6, MailStep

\* A request that is not answered has its text nowhere.
LEMMA UnheardIsNowhere ==
    ASSUME MailInv, NEW m \in Msgs, req[m] \in Unheard
    PROVE  ~Fixed(m) /\ \A t \in Turns : m \notin Held(t)
BY DEF MailInv, Unheard

LEMMA StartForMail ==
    ASSUME TypeOK, MailInv, NEW m \in Msgs, req[m] \in Unheard, StartFor(m) PROVE MailInv'
<1>1. /\ req' = [req EXCEPT ![m] = "started"] /\ StartTurn(<<m>>, status, task)
      /\ UNCHANGED <<queue, hand, copies, carried>>
    BY DEF StartFor, mailVars, sessVars
<1>2. Texts(<<m>>) = {m}
    BY DEF Texts
<1> DEFINE N == {m}
<1>3. \A x \in Msgs : Fixed(x)' => Fixed(x) \/ x \in N
    BY <1>1, <1>2, StartFixes
<1>4. \A t \in Turns : m \notin Held(t) /\ Held(t)' = Held(t)
    BY <1>1, UnheardIsNowhere DEF Held, Texts
<1>5. req'[m] = "started" /\ \A x \in Msgs \ {m} : req'[x] = req[x]
    BY <1>1 DEF TypeOK, ReqOK
<1>6. \A t \in Turns : /\ Texts(queue'[t]) \subseteq Texts(queue[t]) /\ Once(queue'[t])
                       /\ Texts(hand'[t]) \subseteq Texts(hand[t]) /\ Once(hand'[t])
    BY <1>1 DEF MailInv
<1>7. \A x \in N : req'[x] \notin Unheard /\ \A t \in Turns : x \notin Held(t)'
    BY <1>4, <1>5 DEF Unheard
<1>8. \A x \in Msgs : req'[x] # req[x] =>
          (req'[x] \in Unheard => ~Fixed(x)) /\ \A t \in Turns : x \notin Held(t)'
    BY <1>4, <1>5 DEF Unheard
<1> HIDE DEF N
<1> QED
    BY <1>3, <1>6, <1>7, <1>8, MailStep

\* What stays fixed, or loose, when no history count, message or carried text changes.
LEMMA FixedSame ==
    ASSUME UNCHANGED <<copies, message, carried>> PROVE \A x : Fixed(x)' = Fixed(x)
BY DEF Fixed, Texts

LEMMA AnswerMail ==
    ASSUME TypeOK, MailInv, NEW m \in Msgs, req[m] \in Unheard, NEW r, Answer(m, r) PROVE MailInv'
<1>1. req' = [req EXCEPT ![m] = r] /\ UNCHANGED <<queue, hand, copies, carried, message>>
    BY DEF Answer, mailVars, sessVars, tableVars
<1>2. \A x \in Msgs : req'[x] # req[x] => x = m
    BY <1>1 DEF TypeOK, ReqOK
<1> QED
    BY <1>1, <1>2, UnheardIsNowhere, FixedSame, MailQuiet

LEMMA EnqueueMail ==
    ASSUME TypeOK, MailInv, NEW m \in Msgs, req[m] \in Unheard, EnqueuePass(m) PROVE MailInv'
<1>1. CASE ~Busy(status)
    BY <1>1, StartForMail DEF EnqueuePass
<1>2. CASE Busy(status) /\ ~accepting[Cur]
    BY <1>2, AnswerMail DEF EnqueuePass
<1>3. CASE Busy(status) /\ accepting[Cur]
    <2> DEFINE c == Cur
    <2>1. /\ c \in Turns /\ req' = [req EXCEPT ![m] = "queued"]
          /\ queue' = [queue EXCEPT ![c] = Append(queue[c], m)]
          /\ UNCHANGED <<hand, copies, carried, message>>
        BY <1>3, CurIsTurn DEF EnqueuePass, tableVars, sessVars
    <2> HIDE DEF c
    <2>2. queue \in [Turns -> Seq(Msgs)] /\ req'[m] = "queued" /\ \A x \in Msgs \ {m} : req'[x] = req[x]
        BY <2>1 DEF TypeOK, MailOK, ReqOK
    <2>3. ~Fixed(m) /\ \A t \in Turns : m \notin Held(t)
        BY UnheardIsNowhere
    <2>4. /\ queue'[c] = Append(queue[c], m) /\ \A t \in Turns \ {c} : queue'[t] = queue[t]
          /\ queue[c] \in Seq(Msgs)
        BY <2>1, <2>2
    <2>5. Texts(queue'[c]) = Texts(queue[c]) \cup {m} /\ Once(queue'[c])
        BY <2>1, <2>3, <2>4, AppendTexts DEF Held, MailInv
    <2>6. \A t \in Turns : Held(t)' = IF t = c THEN Held(t) \cup {m} ELSE Held(t)
        <3>1. \A t \in Turns : Held(t)' = Texts(queue'[t]) \cup Texts(hand'[t])
            BY DEF Held, Texts
        <3> QED
            BY <2>1, <2>4, <2>5, <3>1 DEF Held
    <2>7. \A t \in Turns : /\ Once(queue[t])' = Once(queue'[t]) /\ Once(hand[t])' = Once(hand[t])
                           /\ Texts(queue[t])' = Texts(queue'[t]) /\ Texts(hand[t])' = Texts(hand[t])
        BY <2>1 DEF Once, Texts
    <2>8. ASSUME NEW t \in Turns
          PROVE  Once(queue'[t]) /\ Once(hand[t]) /\ Texts(queue'[t]) \cap Texts(hand[t]) = {}
        <3>1. Once(queue[t]) /\ Once(hand[t]) /\ Texts(queue[t]) \cap Texts(hand[t]) = {}
            BY DEF MailInv
        <3>2. m \notin Texts(hand[t])
            BY <2>3 DEF Held
        <3> QED
            BY <2>1, <2>4, <2>5, <3>1, <3>2
    <2>9. ASSUME NEW t \in Turns, NEW u \in Turns, t # u PROVE Held(t)' \cap Held(u)' = {}
        BY <2>3, <2>6, <2>9 DEF MailInv
    <2>10. ASSUME NEW t \in Turns, NEW x \in Held(t)' PROVE ~Fixed(x)' /\ req'[x] = "queued"
        <3>1. x \in Msgs /\ (x = m \/ x \in Held(t))
            BY <2>6, TextsAreMsgs
        <3> QED
            BY <2>1, <2>2, <2>3, <3>1, FixedSame DEF MailInv
    <2>11. ASSUME NEW x \in Msgs, req'[x] \in Unheard PROVE ~Fixed(x)'
        BY <2>1, <2>2, <2>11, FixedSame DEF MailInv, Unheard
    <2> QED
        BY <2>7, <2>8, <2>9, <2>10, <2>11 DEF MailInv, Unheard
<1> QED
    BY <1>1, <1>2, <1>3

LEMMA InterruptMail ==
    ASSUME TypeOK, MailInv, NEW m \in Msgs, PostInterrupt(m) PROVE MailInv'
<1>0. req[m] = "new" /\ req[m] \in Unheard
    BY DEF PostInterrupt, Unheard
<1>1. CASE ~Busy(status)
    BY <1>0, <1>1, StartForMail DEF PostInterrupt
<1>2. CASE Busy(status)
    <2> DEFINE c == Cur
    <2>1. /\ c \in Turns /\ req' = [req EXCEPT ![m] = "stopping"]
          /\ queue' = [queue EXCEPT ![c] = <<>>] /\ carried' = [carried EXCEPT ![m] = queue[c]]
          /\ UNCHANGED <<hand, copies, message>>
        BY <1>2, CurIsTurn DEF PostInterrupt, tableVars, sessVars
    <2> HIDE DEF c
    <2>2. req'[m] = "stopping" /\ \A x \in Msgs \ {m} : req'[x] = req[x]
        BY <2>1 DEF TypeOK, ReqOK
    <2>3. ~Fixed(m) /\ \A t \in Turns : m \notin Held(t)
        BY <1>0, UnheardIsNowhere
    <2>4. queue'[c] = <<>> /\ \A t \in Turns \ {c} : queue'[t] = queue[t]
        BY <2>1 DEF TypeOK, MailOK
    <2>5. \A t \in Turns : /\ Texts(queue'[t]) \subseteq Texts(queue[t]) /\ Once(queue'[t])
                           /\ Texts(hand'[t]) \subseteq Texts(hand[t]) /\ Once(hand'[t])
        BY <2>1, <2>4, EmptyTexts DEF MailInv
    <2>6. \A t \in Turns : Held(t)' = IF t = c THEN Texts(hand[t]) ELSE Held(t)
        <3>1. \A t \in Turns : Held(t)' = Texts(queue'[t]) \cup Texts(hand'[t])
            BY DEF Held, Texts
        <3> QED
            BY <2>1, <2>4, <3>1, EmptyTexts DEF Held
    <2>7. \A n \in Msgs : carried'[n] = queue[c] \/ carried'[n] = carried[n]
        BY <2>1 DEF TypeOK, ReqOK
    <2>8. \A x \in Msgs : Fixed(x)' => Fixed(x) \/ x \in Texts(queue[c])
        BY <2>1, <2>7 DEF Fixed, Texts
    <2>9. ASSUME NEW x \in Texts(queue[c])
          PROVE  req'[x] \notin Unheard /\ \A t \in Turns : x \notin Held(t)'
        <3>1. x \in Held(c) /\ x \in Msgs /\ req[x] = "queued" /\ x \notin Texts(hand[c])
            BY <2>1, TextsAreMsgs DEF Held, MailInv
        <3>2. x # m /\ req'[x] = "queued"
            BY <2>1, <2>2, <2>3, <3>1
        <3>3. \A t \in Turns \ {c} : x \notin Held(t)
            BY <2>1, <3>1 DEF MailInv
        <3> QED
            BY <2>6, <3>1, <3>2, <3>3 DEF Unheard
    <2>10. \A x \in Msgs : req'[x] # req[x] =>
               (req'[x] \in Unheard => ~Fixed(x)) /\ \A t \in Turns : x \notin Held(t)'
        BY <2>2, <2>3, <2>6 DEF Held
    <2> QED
        BY <2>5, <2>8, <2>9, <2>10, MailStep
<1> QED
    BY <1>1, <1>2

LEMMA WithdrawMail ==
    ASSUME TypeOK, MailInv, NEW m \in Msgs, NEW t \in Turns, Withdraw(m, t) PROVE MailInv'
<1>1. PICK i \in DOMAIN queue[t] :
          queue[t][i] = m /\ queue' = [queue EXCEPT ![t] = Without(queue[t], i)]
    BY DEF Withdraw
<1>2. /\ req' = [req EXCEPT ![m] = "withdrawn"] /\ UNCHANGED <<hand, copies, message, carried>>
    BY DEF Withdraw, tableVars, sessVars
<1>3. /\ queue'[t] = Without(queue[t], i) /\ queue[t] \in Seq(Msgs)
      /\ \A u \in Turns \ {t} : queue'[u] = queue[u]
    BY <1>1 DEF TypeOK, MailOK
<1>4. Texts(queue'[t]) = Texts(queue[t]) \ {m} /\ Once(queue'[t])
    BY <1>1, <1>3, WithoutTexts DEF MailInv
<1>5. \A u \in Turns : /\ Texts(queue'[u]) \subseteq Texts(queue[u]) /\ Once(queue'[u])
                       /\ Texts(hand'[u]) \subseteq Texts(hand[u]) /\ Once(hand'[u])
    BY <1>2, <1>3, <1>4 DEF MailInv
<1>6. m \in Texts(queue[t]) /\ m \in Held(t) /\ ~Fixed(m)
    BY <1>1 DEF Texts, Held, MailInv
<1>7. ASSUME NEW u \in Turns PROVE m \notin Held(u)'
    <2>1. Held(u)' = Texts(queue'[u]) \cup Texts(hand[u])
        BY <1>2 DEF Held, Texts
    <2>2. CASE u = t
        BY <1>4, <1>6, <2>1, <2>2 DEF MailInv
    <2>3. CASE u # t
        BY <1>3, <1>6, <2>1, <2>3 DEF MailInv, Held
    <2> QED
        BY <2>2, <2>3
<1>8. \A x \in Msgs : req'[x] # req[x] => x = m
    BY <1>2 DEF TypeOK, ReqOK
<1> DEFINE N == {}
<1>9. \A x \in Msgs : Fixed(x)' => Fixed(x) \/ x \in N
    BY <1>2, FixedSame
<1>10. \A x \in N : req'[x] \notin Unheard /\ \A u \in Turns : x \notin Held(u)'
    OBVIOUS
<1>11. \A x \in Msgs : req'[x] # req[x] =>
           (req'[x] \in Unheard => ~Fixed(x)) /\ \A u \in Turns : x \notin Held(u)'
    BY <1>6, <1>7, <1>8
<1> HIDE DEF N
<1> QED
    BY <1>5, <1>9, <1>10, <1>11, MailStep

LEMMA RetryMail == ASSUME TypeOK, MailInv, RetryLast PROVE MailInv'
<1>1. Cur \in Turns
    BY DEF RetryLast, Cur, NoTurn, TypeOK, TableOK
<1>2. StartTurn(message[Cur], status, task) /\ UNCHANGED <<queue, hand, req, copies, carried>>
    BY DEF RetryLast, mailVars, sessVars, reqVars
<1>3. \A x \in Msgs : Fixed(x)' => Fixed(x)
    BY <1>1, <1>2, StartFixes DEF Fixed
<1> QED
    BY <1>2, <1>3, MailQuiet

LEMMA InterruptGoesOnMail ==
    ASSUME TypeOK, MailInv, NEW m \in Msgs, InterruptGoesOn(m) PROVE MailInv'
<1> DEFINE t == target[m]
           st == IF status[t] = "running" THEN [status EXCEPT ![t] = "aborted"] ELSE status
<1>0. req[m] = "stopping" /\ req[m] \in Unheard /\ UNCHANGED <<queue, hand, copies>>
    BY DEF InterruptGoesOn, ResumeInterrupt, Unheard, mailVars, sessVars
<1>1. ~Fixed(m) /\ \A u \in Turns : m \notin Held(u)
    BY <1>0, UnheardIsNowhere
<1>2. CASE Busy(st)
    <2>1. req' = [req EXCEPT ![m] = "refused"] /\ UNCHANGED <<message, carried>>
        BY <1>2 DEF InterruptGoesOn, ResumeInterrupt, tableVars
    <2>2. \A x \in Msgs : req'[x] # req[x] => x = m
        BY <2>1 DEF TypeOK, ReqOK
    <2> QED
        BY <1>0, <1>1, <2>1, <2>2, FixedSame, MailQuiet
<1>3. CASE ~Busy(st)
    <2> DEFINE texts == Append(carried[m], m)
               N == {m}
    <2>1. /\ req' = [req EXCEPT ![m] = "started"] /\ carried' = [carried EXCEPT ![m] = <<>>]
          /\ StartTurn(texts, st, task)
        BY <1>3 DEF InterruptGoesOn, ResumeInterrupt
    <2>2. Texts(texts) = Texts(carried[m]) \cup {m}
        BY AppendTexts DEF TypeOK, ReqOK
    <2>3. carried'[m] = <<>> /\ \A n \in Msgs \ {m} : carried'[n] = carried[n]
        BY <2>1 DEF TypeOK, ReqOK
    <2>4. \A n \in Msgs : Texts(carried'[n]) \subseteq Texts(carried[n])
        BY <2>3, EmptyTexts
    <2> HIDE DEF texts, st
    <2>5. \A x \in Msgs : Fixed(x)' => Fixed(x) \/ x \in Texts(texts)
        BY <1>0, <2>1, <2>4, StartFixes
    <2>6. \A x \in Msgs : Fixed(x)' => Fixed(x) \/ x \in N
        BY <2>2, <2>5 DEF Fixed
    <2>7. \A u \in Turns : m \notin Held(u) /\ Held(u)' = Held(u)
        BY <1>0, <1>1 DEF Held, Texts
    <2>8. req'[m] = "started" /\ \A x \in Msgs \ {m} : req'[x] = req[x]
        BY <2>1 DEF TypeOK, ReqOK
    <2>9. \A u \in Turns : /\ Texts(queue'[u]) \subseteq Texts(queue[u]) /\ Once(queue'[u])
                           /\ Texts(hand'[u]) \subseteq Texts(hand[u]) /\ Once(hand'[u])
        BY <1>0 DEF MailInv
    <2>10. \A x \in N : req'[x] \notin Unheard /\ \A u \in Turns : x \notin Held(u)'
        BY <2>7, <2>8 DEF Unheard
    <2>11. \A x \in Msgs : req'[x] # req[x] =>
               (req'[x] \in Unheard => ~Fixed(x)) /\ \A u \in Turns : x \notin Held(u)'
        BY <2>7, <2>8 DEF Unheard
    <2> HIDE DEF N
    <2> QED
        BY <2>6, <2>9, <2>10, <2>11, MailStep
<1> QED
    BY <1>2, <1>3

LEMMA TakeQueueMail ==
    ASSUME TypeOK, MailInv, NEW t \in Turns, TakeQueue(t) PROVE MailInv'
<1>1. /\ hand' = [hand EXCEPT ![t] = queue[t]] /\ queue' = [queue EXCEPT ![t] = <<>>]
      /\ UNCHANGED <<copies, message, carried, req>>
    BY DEF TakeQueue, tableVars, sessVars, reqVars
<1>2. /\ hand'[t] = queue[t] /\ queue'[t] = <<>>
      /\ \A u \in Turns \ {t} : hand'[u] = hand[u] /\ queue'[u] = queue[u]
    BY <1>1 DEF TypeOK, MailOK
<1>3. \A u \in Turns : Held(u)' = Texts(queue'[u]) \cup Texts(hand'[u])
    BY DEF Held, Texts
<1>4. \A u \in Turns : Held(u)' \subseteq Held(u)
    BY <1>2, <1>3, EmptyTexts DEF Held
<1>5. \A u \in Turns : /\ Once(queue[u])' = Once(queue'[u]) /\ Once(hand[u])' = Once(hand'[u])
                       /\ Texts(queue[u])' = Texts(queue'[u]) /\ Texts(hand[u])' = Texts(hand'[u])
    BY DEF Once, Texts
<1>6. ASSUME NEW u \in Turns
      PROVE  Once(queue'[u]) /\ Once(hand'[u]) /\ Texts(queue'[u]) \cap Texts(hand'[u]) = {}
    BY <1>2, EmptyTexts DEF MailInv
<1>7. ASSUME NEW u \in Turns, NEW v \in Turns, u # v PROVE Held(u)' \cap Held(v)' = {}
    BY <1>4, <1>7 DEF MailInv
<1>8. ASSUME NEW u \in Turns, NEW x \in Held(u)' PROVE ~Fixed(x)' /\ req'[x] = "queued"
    BY <1>1, <1>4, <1>8, FixedSame DEF MailInv
<1>9. ASSUME NEW x \in Msgs, req'[x] \in Unheard PROVE ~Fixed(x)'
    BY <1>1, <1>9, FixedSame DEF MailInv
<1> QED
    BY <1>5, <1>6, <1>7, <1>8, <1>9 DEF MailInv, Unheard

LEMMA DeliverMail ==
    ASSUME TypeInv, MailInv, NEW t \in Turns, Deliver(t) PROVE MailInv'
<1> DEFINE h == Head(hand[t])
           N == {h}
<1>0. TypeOK /\ hand[t] \in Seq(Msgs) /\ hand[t] # <<>>
    BY DEF Deliver, At, TypeInv, DrainHolds, TypeOK, MailOK
<1>1. /\ copies' = [copies EXCEPT ![h] = @ + 1] /\ hand' = [hand EXCEPT ![t] = Tail(hand[t])]
      /\ UNCHANGED <<message, queue, carried, req>>
    BY DEF Deliver, tableVars, reqVars
<1>2. hand'[t] = Tail(hand[t]) /\ \A u \in Turns \ {t} : hand'[u] = hand[u]
    BY <1>0, <1>1 DEF TypeOK, MailOK
<1>3. h \in Texts(hand[t]) /\ Texts(hand'[t]) = Texts(hand[t]) \ {h} /\ Once(hand'[t])
    BY <1>0, <1>2, TailTexts DEF MailInv
<1>4. h \in Held(t) /\ h \in Msgs /\ req[h] = "queued"
    BY <1>0, <1>3, TextsAreMsgs DEF Held, MailInv
<1> HIDE DEF h
<1>5. \A x \in Msgs \ {h} : copies'[x] = copies[x]
    BY <1>0, <1>1 DEF TypeOK, SessOK
<1>6. \A x \in Msgs : Fixed(x)' => Fixed(x) \/ x \in N
    BY <1>1, <1>5 DEF Fixed, Texts
<1>7. ASSUME NEW u \in Turns PROVE h \notin Held(u)'
    <2>1. Held(u)' = Texts(queue[u]) \cup Texts(hand'[u])
        BY <1>1 DEF Held, Texts
    <2>2. CASE u = t
        BY <1>3, <2>1, <2>2 DEF MailInv
    <2>3. CASE u # t
        BY <1>2, <1>4, <2>1, <2>3 DEF MailInv, Held
    <2> QED
        BY <2>2, <2>3
<1>8. \A u \in Turns : /\ Texts(queue'[u]) \subseteq Texts(queue[u]) /\ Once(queue'[u])
                       /\ Texts(hand'[u]) \subseteq Texts(hand[u]) /\ Once(hand'[u])
    BY <1>1, <1>2, <1>3 DEF MailInv
<1>9. \A x \in N : req'[x] \notin Unheard /\ \A u \in Turns : x \notin Held(u)'
    BY <1>1, <1>4, <1>7 DEF Unheard
<1>10. \A x \in Msgs : req'[x] # req[x] =>
           (req'[x] \in Unheard => ~Fixed(x)) /\ \A u \in Turns : x \notin Held(u)'
    BY <1>1
<1> HIDE DEF N
<1> QED
    BY <1>0, <1>6, <1>8, <1>9, <1>10, MailStep

\* A step that may drop what a plugin holds, and moves no other text.
LEMMA DropMail ==
    ASSUME TypeOK, MailInv, \A t \in Turns : hand'[t] = hand[t] \/ hand'[t] = <<>>,
           queue' = queue, req' = req, \A x \in Msgs : Fixed(x)' => Fixed(x)
    PROVE  MailInv'
<1> DEFINE N == {}
<1>1. \A t \in Turns : /\ Texts(queue'[t]) \subseteq Texts(queue[t]) /\ Once(queue'[t])
                       /\ Texts(hand'[t]) \subseteq Texts(hand[t]) /\ Once(hand'[t])
    BY EmptyTexts DEF MailInv
<1>2. \A x \in N : req'[x] \notin Unheard /\ \A t \in Turns : x \notin Held(t)'
    OBVIOUS
<1>3. \A x \in Msgs : Fixed(x)' => Fixed(x) \/ x \in N
    OBVIOUS
<1>4. \A x \in Msgs : req'[x] # req[x] =>
          (req'[x] \in Unheard => ~Fixed(x)) /\ \A t \in Turns : x \notin Held(t)'
    OBVIOUS
<1> HIDE DEF N
<1> QED
    BY <1>1, <1>2, <1>3, <1>4, MailStep

LEMMA PruneFixes ==
    ASSUME TypeInv, NEW t \in Turns, PruneAndStore(t)
    PROVE  \A x \in Msgs : Fixed(x)' => Fixed(x)
<1> DEFINE pruned == IF Prunes(t) THEN Texts(message[orphanOf[t]]) ELSE {}
           kept == [m \in Msgs |-> IF m \in pruned THEN copies[m] - 1 ELSE copies[m]]
<1>1. /\ copies' = [m \in Msgs |-> IF m \in Texts(message[t]) THEN kept[m] + 1 ELSE kept[m]]
      /\ UNCHANGED <<message, carried>> /\ copies \in [Msgs -> Nat]
    BY DEF PruneAndStore, tableVars, reqVars, TypeInv, TypeOK, SessOK
<1>2. \A x \in Msgs : kept[x] > 0 => copies[x] > 0
    BY <1>1
<1>3. \A x \in Msgs : copies'[x] > 0 => x \in Texts(message[t]) \/ copies[x] > 0
    <2> HIDE DEF kept
    <2> QED
        BY <1>1, <1>2
<1>4. \A s : Texts(s)' = Texts(s')
    BY PrimedTexts
<1> QED
    BY <1>1, <1>3 DEF Fixed, Texts

\* The sweep finds no other turn running: the texts go to the follow-up turn.
LEMMA SweepIsAlone ==
    ASSUME SlotInv, TaskInv, NEW t \in Turns, At(t, "reply")
    PROVE  Cur = t /\ status[t] = "running"
BY GoesOnIsRunning DEF SlotInv, Cur

LEMMA FinishDoneMail ==
    ASSUME TypeOK, SlotInv, TaskInv, MailInv, NEW t \in Turns, FinishDone(t) PROVE MailInv'
<1> DEFINE left == queue[t]
           st == [status EXCEPT ![t] = "done"]
           tk == [task EXCEPT ![t] = "ended"]
           N == Texts(left)
<1>0. /\ UNCHANGED <<hand, copies, carried, req>> /\ ~Busy(st)
    BY SweepIsAlone DEF FinishDone, sessVars, reqVars, Busy, TypeOK, TaskOK
<1>1. CASE left = <<>>
    <2>1. UNCHANGED <<message, queue>>
        BY <1>1 DEF FinishDone, tableVars
    <2> QED
        BY <1>0, <2>1, FixedSame, MailQuiet
<1>2. CASE left # <<>>
    <2>1. StartTurn(left, st, tk) /\ queue' = [queue EXCEPT ![t] = <<>>]
        BY <1>0, <1>2 DEF FinishDone
    <2>2. queue'[t] = <<>> /\ \A u \in Turns \ {t} : queue'[u] = queue[u]
        BY <2>1 DEF TypeOK, MailOK
    <2>3. \A u \in Turns : /\ Texts(queue'[u]) \subseteq Texts(queue[u]) /\ Once(queue'[u])
                           /\ Texts(hand'[u]) \subseteq Texts(hand[u]) /\ Once(hand'[u])
        BY <1>0, <2>2, EmptyTexts DEF MailInv
    <2>4. \A x \in Msgs : Fixed(x)' => Fixed(x) \/ x \in N
        <3> HIDE DEF left, st, tk
        <3> QED
            BY <1>0, <2>1, StartFixes
    <2>5. ASSUME NEW x \in N PROVE req'[x] \notin Unheard /\ \A u \in Turns : x \notin Held(u)'
        <3>1. x \in Held(t) /\ req[x] = "queued" /\ x \notin Texts(hand[t])
            BY DEF Held, MailInv
        <3>2. \A u \in Turns : Held(u)' = Texts(queue'[u]) \cup Texts(hand[u])
            BY <1>0 DEF Held, Texts
        <3>3. \A u \in Turns \ {t} : x \notin Held(u)
            BY <3>1 DEF MailInv
        <3> QED
            BY <1>0, <2>2, <3>1, <3>2, <3>3, EmptyTexts DEF Held, Unheard
    <2>6. \A x \in Msgs : req'[x] # req[x] =>
              (req'[x] \in Unheard => ~Fixed(x)) /\ \A u \in Turns : x \notin Held(u)'
        BY <1>0
    <2> HIDE DEF N
    <2> QED
        BY <2>3, <2>4, <2>5, <2>6, MailStep
<1> QED
    BY <1>1, <1>2

LEMMA NextKeepsMailInv ==
    ASSUME TypeInv, SlotInv, TaskInv, MailInv, Next PROVE MailInv'
<1>0. TypeOK /\ hand \in [Turns -> Seq(Msgs)]
    BY DEF TypeInv, TypeOK, MailOK
<1>1. ASSUME UNCHANGED <<queue, hand, copies, message, carried, req>> PROVE MailInv'
    BY <1>0, <1>1, FixedSame, MailQuiet
<1>2. CASE Client
    <2>1. ASSUME NEW m \in Msgs, PostStart(m) \/ PostQueue(m) PROVE MailInv'
        BY <1>0, <2>1, StartForMail, AnswerMail, EnqueueMail DEF PostStart, PostQueue, Unheard
    <2>2. ASSUME NEW m \in Msgs, PostInterrupt(m) PROVE MailInv'
        BY <1>0, <2>2, InterruptMail
    <2>3. ASSUME NEW m \in Msgs, NEW t \in Turns, Withdraw(m, t) PROVE MailInv'
        BY <1>0, <2>3, WithdrawMail
    <2>4. ASSUME NEW t \in Turns, Abort(t) \/ Expire(t) PROVE MailInv'
        BY <1>1, <2>4 DEF Abort, Expire, tableVars, mailVars, sessVars, reqVars
    <2>5. CASE AbortSession
        BY <1>1, <2>5 DEF AbortSession, tableVars, mailVars, sessVars, reqVars
    <2>6. CASE RetryLast
        BY <1>0, <2>6, RetryMail
    <2> QED
        BY <1>2, <2>1, <2>2, <2>3, <2>4, <2>5, <2>6 DEF Client
<1>3. ASSUME NEW m \in Msgs, Resume(m) PROVE MailInv'
    BY <1>0, <1>3, EnqueueMail, AnswerMail, InterruptGoesOnMail
       DEF Resume, PollAgain, PollGivesUp, Unheard
<1>4. ASSUME NEW t \in Turns, Drive(t) PROVE MailInv'
    <2>1. CASE Begin(t) \/ CallModel(t) \/ CallTool(t) \/ ToolReturns(t) \/ Reply(t)
               \/ AutoContinue(t) \/ RunRaises(t) \/ ErrorEvent(t) \/ CloseCalls(t) \/ CloseFails(t)
               \/ CancelledUnborn(t) \/ CancelledClosing(t) \/ OnDone(t)
        BY <1>1, <2>1
           DEF Begin, CallModel, CallTool, ToolReturns, Reply, AutoContinue, RunRaises, ErrorEvent,
               CloseCalls, CloseFails, CancelledUnborn, CancelledClosing, OnDone, tableVars, mailVars,
               sessVars, reqVars
    <2>2. CASE PruneAndStore(t)
        BY <1>0, <2>2, PruneFixes, MailQuiet DEF PruneAndStore, mailVars, reqVars
    <2>3. CASE DeliveryFails(t) \/ CancelSeen(t)
        BY <1>0, <2>3, FixedSame, DropMail
           DEF DeliveryFails, CancelSeen, tableVars, sessVars, reqVars
    <2> QED
        BY <1>0, <1>4, <2>1, <2>2, <2>3, TakeQueueMail, DeliverMail, FinishDoneMail
           DEF Drive, Cancelled
<1> QED
    BY <1>2, <1>3, <1>4 DEF Next

\* A text is in one place at a time, whatever queues, sweeps and send-nows do.
THEOREM MailInvHolds == Spec => []MailInv
<1>1. Init => MailInv
    BY DEF Init, MailInv, Once, Held, Fixed, Texts, Unheard
<1>2. IInv /\ MailInv /\ UNCHANGED vars => MailInv'
    BY FixedSame, MailQuiet
       DEF IInv, TypeInv, vars, tableVars, mailVars, sessVars, reqVars
<1>3. IInv /\ MailInv /\ [Next]_vars => MailInv'
    BY <1>2, NextKeepsMailInv DEF IInv
<1> QED
    BY <1>1, <1>3, IInvHolds, PTL DEF Spec

\* A withdrawal that the server confirmed is never undone: the text was in one
\* queue only, and no send-now, sweep or model call took it before.
THEOREM WithdrawnIsGoneHolds == Spec => []WithdrawnIsGone
<1>1. IInv /\ MailInv => WithdrawnIsGone
    <2> SUFFICES ASSUME IInv, MailInv, NEW m \in Msgs, req[m] = "withdrawn"
                 PROVE  /\ copies[m] = 0
                        /\ \A t \in Turns : m \notin Texts(queue[t]) \cup Texts(hand[t]) \cup Texts(message[t])
                        /\ \A n \in Msgs : m \notin Texts(carried[n])
        BY DEF WithdrawnIsGone
    <2>1. ~Fixed(m) /\ \A t \in Turns : m \notin Held(t)
        BY UnheardIsNowhere DEF Unheard
    <2>2. copies[m] \in Nat
        BY DEF IInv, TypeInv, TypeOK, SessOK
    <2> QED
        BY <2>1, <2>2 DEF Fixed, Held
<1> QED
    BY <1>1, IInvHolds, MailInvHolds, PTL

-----------------------------------------------------------------------------
(* What was queued on a turn is not lost when the turn ends "done".        *)

\* The text waits to be said: in a queue, a plugin's hands, a turn's message,
\* or with a send-now.
Placed(m) ==
    \/ \E t \in Turns : m \in Held(t) \cup Texts(message[t])
    \/ \E n \in Msgs : m \in Texts(carried[n])

\* The text is in the history, and no turn can say or prune it again.
Delivered(m) == copies[m] > 0 /\ ~Placed(m)

Settled == {"queued", "withdrawn"}

\* A plugin holds texts only while it stores them.
HandInv == \A t \in Turns : hand[t] # <<>> => task[t] = "drain"

\* The turn runs, nobody stopped it, and the storage has taken all it was given.
Running(t) == status[t] = "running" /\ ~Unwinding(t) /\ t \notin unstored

TookInv ==
    /\ \A t \in Turns : \A m \in took[t] : req[m] \in Settled
    /\ \A t \in Turns : status[t] = "none" => took[t] = {}
    /\ \A t \in Turns : followup[t] <= count
    /\ \A t \in Turns : Running(t) =>
          \A m \in took[t] : m \in Held(t) \/ Delivered(m) \/ req[m] = "withdrawn"
    /\ \A t \in Turns : status[t] = "done" /\ t \notin unstored =>
          \A m \in took[t] : \/ Delivered(m) \/ req[m] = "withdrawn"
                             \/ followup[t] # NoTurn /\ m \in Texts(message[followup[t]])

LEMMA SamePlaces ==
    ASSUME TypeOK, UNCHANGED <<message, carried>>, \A t \in Turns : Held(t)' \subseteq Held(t)
    PROVE  \A x : Placed(x)' => Placed(x)
<1>1. \A t \in Turns : Texts(message[t])' = Texts(message[t])
    BY DEF Texts
<1>2. \A t \in Msgs : Texts(carried[t])' = Texts(carried[t])
    BY DEF Texts
<1> QED
    BY <1>1, <1>2 DEF Placed

LEMMA StartPlaces ==
    ASSUME TypeOK, NEW texts, NEW st, NEW tk, StartTurn(texts, st, tk),
           \A t \in Turns : Held(t)' \subseteq Held(t),
           \A n \in Msgs : Texts(carried'[n]) \subseteq Texts(carried[n])
    PROVE  \A x : Placed(x)' => Placed(x) \/ x \in Texts(texts)
<1>1. \A t \in Turns : message'[t] = texts \/ message'[t] = message[t]
    BY DEF StartTurn, TypeOK, TableOK
<1>2. \A t \in Turns : Texts(message[t])' = Texts(message'[t])
    BY DEF Texts
<1>3. \A t \in Msgs : Texts(carried[t])' = Texts(carried'[t])
    BY DEF Texts
<1> QED
    BY <1>1, <1>2, <1>3 DEF Placed

LEMMA HeldKept ==
    ASSUME \A t \in Turns : /\ Texts(queue'[t]) \subseteq Held(t)
                            /\ Texts(hand'[t]) \subseteq Held(t)
    PROVE  \A t \in Turns : Held(t)' \subseteq Held(t)
<1>1. \A t \in Turns : Held(t)' = Texts(queue'[t]) \cup Texts(hand'[t])
    BY DEF Held, Texts
<1> QED
    BY <1>1

LEMMA HeldSame ==
    ASSUME UNCHANGED <<queue, hand>> PROVE \A t \in Turns : Held(t)' = Held(t)
BY DEF Held, Texts

\* A text whose request was queued or withdrawn keeps that answer, unless it is
\* withdrawn now, and stays delivered.
SettledStays ==
    \A x \in Msgs : req[x] \in Settled =>
        /\ req'[x] = req[x] \/ req'[x] = "withdrawn"
        /\ Delivered(x) => Delivered(x)'

LEMMA SettledFrame ==
    ASSUME TypeOK, UNCHANGED <<message, carried, copies>>, \A t \in Turns : Held(t)' \subseteq Held(t),
           \A x \in Msgs : req[x] \in Settled => req'[x] = req[x] \/ req'[x] = "withdrawn"
    PROVE  SettledStays
BY SamePlaces DEF SettledStays, Delivered

LEMMA SettledStart ==
    ASSUME TypeOK, NEW texts, NEW st, NEW tk, StartTurn(texts, st, tk), copies' = copies,
           \A t \in Turns : Held(t)' \subseteq Held(t),
           \A n \in Msgs : Texts(carried'[n]) \subseteq Texts(carried[n]),
           \A x \in Msgs : req[x] \in Settled => req'[x] = req[x],
           \A x \in Texts(texts) : Placed(x) \/ req[x] \notin Settled
    PROVE  SettledStays
BY StartPlaces DEF SettledStays, Delivered

LEMMA SettledStartFor ==
    ASSUME TypeOK, NEW m \in Msgs, req[m] \notin Settled, StartFor(m) PROVE SettledStays
<1>1. /\ req' = [req EXCEPT ![m] = "started"] /\ StartTurn(<<m>>, status, task)
      /\ UNCHANGED <<queue, hand, copies, carried>>
    BY DEF StartFor, mailVars, sessVars
<1>2. Texts(<<m>>) = {m}
    BY DEF Texts
<1>3. \A x \in Msgs : req[x] \in Settled => req'[x] = req[x]
    BY <1>1 DEF TypeOK, ReqOK
<1>4. \A x \in Texts(<<m>>) : Placed(x) \/ req[x] \notin Settled
    BY <1>2
<1>5. \A t \in Turns : Held(t)' \subseteq Held(t)
    BY <1>1, HeldSame
<1>6. \A n \in Msgs : Texts(carried'[n]) \subseteq Texts(carried[n])
    BY <1>1
<1> DEFINE texts == <<m>>
<1> HIDE DEF texts
<1> QED
    BY <1>1, <1>3, <1>4, <1>5, <1>6, SettledStart DEF texts

LEMMA SettledAnswer ==
    ASSUME TypeOK, NEW m \in Msgs, req[m] \notin Settled, NEW r, Answer(m, r) PROVE SettledStays
<1>1. req' = [req EXCEPT ![m] = r] /\ UNCHANGED <<queue, hand, copies, carried, message>>
    BY DEF Answer, mailVars, sessVars, tableVars
<1>2. \A x \in Msgs : req[x] \in Settled => req'[x] = req[x]
    BY <1>1 DEF TypeOK, ReqOK
<1>3. \A t \in Turns : Held(t)' \subseteq Held(t)
    BY <1>1, HeldSame
<1> QED
    BY <1>1, <1>2, <1>3, SettledFrame

LEMMA SettledEnqueue ==
    ASSUME TypeOK, NEW m \in Msgs, req[m] \notin Settled, EnqueuePass(m) PROVE SettledStays
<1>1. CASE ~Busy(status)
    BY <1>1, SettledStartFor DEF EnqueuePass
<1>2. CASE Busy(status) /\ ~accepting[Cur]
    BY <1>2, SettledAnswer DEF EnqueuePass
<1>3. CASE Busy(status) /\ accepting[Cur]
    <2> DEFINE c == Cur
    <2>1. /\ c \in Turns /\ req' = [req EXCEPT ![m] = "queued"]
          /\ queue' = [queue EXCEPT ![c] = Append(queue[c], m)]
          /\ UNCHANGED <<hand, copies, carried, message>>
        BY <1>3, CurIsTurn DEF EnqueuePass, tableVars, sessVars
    <2> HIDE DEF c
    <2>2. queue[c] \in Seq(Msgs) /\ \A x \in Msgs \ {m} : req'[x] = req[x]
        BY <2>1 DEF TypeOK, MailOK, ReqOK
    <2>3. queue'[c] = Append(queue[c], m) /\ \A t \in Turns \ {c} : queue'[t] = queue[t]
        BY <2>1 DEF TypeOK, MailOK
    <2>4. Texts(queue'[c]) = Texts(queue[c]) \cup {m}
        BY <2>2, <2>3, AppendTexts
    <2>5. \A t \in Turns : Held(t)' \subseteq Held(t) \cup {m}
        <3>1. \A t \in Turns : Held(t)' = Texts(queue'[t]) \cup Texts(hand[t])
            BY <2>1 DEF Held, Texts
        <3> QED
            BY <2>3, <2>4, <3>1 DEF Held
    <2>6. \A x : x # m /\ Placed(x)' => Placed(x)
        <3>1. \A t \in Turns : Texts(message[t])' = Texts(message[t])
            BY <2>1 DEF Texts
        <3>2. \A t \in Msgs : Texts(carried[t])' = Texts(carried[t])
            BY <2>1 DEF Texts
        <3> QED
            BY <2>5, <3>1, <3>2 DEF Placed
    <2> QED
        BY <2>1, <2>2, <2>6 DEF SettledStays, Delivered
<1> QED
    BY <1>1, <1>2, <1>3

LEMMA SettledInterrupt ==
    ASSUME TypeOK, NEW m \in Msgs, PostInterrupt(m) PROVE SettledStays
<1>0. req[m] = "new" /\ req[m] \notin Settled
    BY DEF PostInterrupt, Settled
<1>1. CASE ~Busy(status)
    BY <1>0, <1>1, SettledStartFor DEF PostInterrupt
<1>2. CASE Busy(status)
    <2> DEFINE c == Cur
    <2>1. /\ c \in Turns /\ req' = [req EXCEPT ![m] = "stopping"]
          /\ queue' = [queue EXCEPT ![c] = <<>>] /\ carried' = [carried EXCEPT ![m] = queue[c]]
          /\ UNCHANGED <<hand, copies, message>>
        BY <1>2, CurIsTurn DEF PostInterrupt, tableVars, sessVars
    <2> HIDE DEF c
    <2>2. \A x \in Msgs : req[x] \in Settled => req'[x] = req[x]
        BY <1>0, <2>1 DEF TypeOK, ReqOK
    <2>3. \A t \in Turns : Held(t)' \subseteq Held(t)
        <3>1. \A t \in Turns : queue'[t] = <<>> \/ queue'[t] = queue[t]
            BY <2>1 DEF TypeOK, MailOK
        <3> QED
            BY <2>1, <3>1, EmptyTexts, HeldKept DEF Held
    <2>4. \A n \in Msgs : carried'[n] = queue[c] \/ carried'[n] = carried[n]
        BY <2>1 DEF TypeOK, ReqOK
    <2>5. \A x : Placed(x)' => Placed(x)
        <3>1. \A t \in Turns : Texts(message[t])' = Texts(message[t])
            BY <2>1 DEF Texts
        <3>2. \A t \in Msgs : Texts(carried[t])' = Texts(carried'[t])
            BY DEF Texts
        <3>3. Texts(queue[c]) \subseteq Held(c)
            BY DEF Held
        <3> QED
            BY <2>1, <2>3, <2>4, <3>1, <3>2, <3>3 DEF Placed
    <2> QED
        BY <2>1, <2>2, <2>5 DEF SettledStays, Delivered
<1> QED
    BY <1>1, <1>2

LEMMA SettledWithdraw ==
    ASSUME TypeOK, MailInv, NEW m \in Msgs, NEW t \in Turns, Withdraw(m, t) PROVE SettledStays
<1>1. PICK i \in DOMAIN queue[t] :
          queue[t][i] = m /\ queue' = [queue EXCEPT ![t] = Without(queue[t], i)]
    BY DEF Withdraw
<1>2. /\ req' = [req EXCEPT ![m] = "withdrawn"] /\ UNCHANGED <<hand, copies, message, carried>>
    BY DEF Withdraw, tableVars, sessVars
<1>3. /\ queue'[t] = Without(queue[t], i) /\ queue[t] \in Seq(Msgs)
      /\ \A u \in Turns \ {t} : queue'[u] = queue[u]
    BY <1>1 DEF TypeOK, MailOK
<1>4. Texts(queue'[t]) \subseteq Texts(queue[t])
    BY <1>1, <1>3, WithoutTexts DEF MailInv
<1>5. \A u \in Turns : Held(u)' \subseteq Held(u)
    BY <1>2, <1>3, <1>4, HeldKept DEF Held
<1>6. \A x \in Msgs : req'[x] = req[x] \/ req'[x] = "withdrawn"
    BY <1>2 DEF TypeOK, ReqOK
<1> QED
    BY <1>2, <1>5, <1>6, SettledFrame

LEMMA SettledInterruptGoesOn ==
    ASSUME TypeOK, NEW m \in Msgs, InterruptGoesOn(m) PROVE SettledStays
<1> DEFINE t == target[m]
           st == IF status[t] = "running" THEN [status EXCEPT ![t] = "aborted"] ELSE status
<1>0. req[m] \notin Settled /\ UNCHANGED <<queue, hand, copies>>
    BY DEF InterruptGoesOn, ResumeInterrupt, Settled, mailVars, sessVars
<1>1. \A u \in Turns : Held(u)' \subseteq Held(u)
    BY <1>0, HeldSame
<1>2. CASE Busy(st)
    <2>1. req' = [req EXCEPT ![m] = "refused"] /\ UNCHANGED <<message, carried>>
        BY <1>2 DEF InterruptGoesOn, ResumeInterrupt, tableVars
    <2>2. \A x \in Msgs : req[x] \in Settled => req'[x] = req[x]
        BY <1>0, <2>1 DEF TypeOK, ReqOK
    <2> QED
        BY <1>0, <1>1, <2>1, <2>2, SettledFrame
<1>3. CASE ~Busy(st)
    <2> DEFINE texts == Append(carried[m], m)
    <2>1. /\ req' = [req EXCEPT ![m] = "started"] /\ carried' = [carried EXCEPT ![m] = <<>>]
          /\ StartTurn(texts, st, task)
        BY <1>3 DEF InterruptGoesOn, ResumeInterrupt
    <2>2. Texts(texts) = Texts(carried[m]) \cup {m}
        BY AppendTexts DEF TypeOK, ReqOK
    <2>3. \A n \in Msgs : Texts(carried'[n]) \subseteq Texts(carried[n])
        BY <2>1, EmptyTexts DEF TypeOK, ReqOK
    <2>4. \A x \in Msgs : req[x] \in Settled => req'[x] = req[x]
        BY <1>0, <2>1 DEF TypeOK, ReqOK
    <2> HIDE DEF texts, st
    <2>5. \A x \in Texts(texts) : Placed(x) \/ req[x] \notin Settled
        BY <1>0, <2>2 DEF Placed
    <2> QED
        BY <1>0, <1>1, <2>1, <2>3, <2>4, <2>5, SettledStart
<1> QED
    BY <1>2, <1>3

LEMMA SettledRetry == ASSUME TypeOK, RetryLast PROVE SettledStays
<1>1. Cur \in Turns
    BY DEF RetryLast, Cur, NoTurn, TypeOK, TableOK
<1>2. StartTurn(message[Cur], status, task) /\ UNCHANGED <<queue, hand, req, copies, carried>>
    BY DEF RetryLast, mailVars, sessVars, reqVars
<1>3. \A x \in Texts(message[Cur]) : Placed(x)
    BY <1>1 DEF Placed
<1>4. \A t \in Turns : Held(t)' \subseteq Held(t)
    BY <1>2, HeldSame
<1> QED
    BY <1>2, <1>3, <1>4, SettledStart

LEMMA SettledPrune == ASSUME TypeInv, NEW t \in Turns, PruneAndStore(t) PROVE SettledStays
<1> DEFINE pruned == IF Prunes(t) THEN Texts(message[orphanOf[t]]) ELSE {}
           kept == [m \in Msgs |-> IF m \in pruned THEN copies[m] - 1 ELSE copies[m]]
<1>1. /\ copies' = [m \in Msgs |-> IF m \in Texts(message[t]) THEN kept[m] + 1 ELSE kept[m]]
      /\ UNCHANGED <<message, carried, queue, hand, req>> /\ TypeOK
    BY DEF PruneAndStore, tableVars, reqVars, mailVars, TypeInv
<1>2. \A x \in pruned : Placed(x)
    <2> SUFFICES ASSUME NEW x \in pruned PROVE Placed(x)
        OBVIOUS
    <2>1. Prunes(t) /\ x \in Texts(message[orphanOf[t]])
        OBVIOUS
    <2>2. orphanOf[t] \in Turns
        BY <2>1 DEF Prunes, TypeInv, TypeOK, TableOK, NoTurn, Turns
    <2> QED
        BY <2>1, <2>2 DEF Placed
<1>3. \A x \in Msgs : ~Placed(x) => kept[x] = copies[x] /\ x \notin Texts(message[t])
    BY <1>2 DEF Placed
<1> HIDE DEF kept
<1>4. \A x \in Msgs : ~Placed(x) => copies'[x] = copies[x]
    BY <1>1, <1>3
<1>5. \A u \in Turns : Held(u)' \subseteq Held(u)
    BY <1>1, HeldSame
<1> QED
    BY <1>1, <1>4, <1>5, SamePlaces DEF SettledStays, Delivered

LEMMA SettledDeliver ==
    ASSUME TypeInv, MailInv, NEW t \in Turns, Deliver(t) PROVE SettledStays
<1> DEFINE h == Head(hand[t])
<1>0. TypeOK /\ hand[t] \in Seq(Msgs) /\ hand[t] # <<>>
    BY DEF Deliver, At, TypeInv, DrainHolds, TypeOK, MailOK
<1>1. /\ copies' = [copies EXCEPT ![h] = @ + 1] /\ hand' = [hand EXCEPT ![t] = Tail(hand[t])]
      /\ UNCHANGED <<message, queue, carried, req>>
    BY DEF Deliver, tableVars, reqVars
<1>2. hand'[t] = Tail(hand[t]) /\ \A u \in Turns \ {t} : hand'[u] = hand[u]
    BY <1>0, <1>1 DEF TypeOK, MailOK
<1>3. Texts(hand'[t]) \subseteq Texts(hand[t]) /\ h \in Texts(hand[t])
    BY <1>0, <1>2, TailTexts DEF MailInv
<1>4. \A u \in Turns : Held(u)' \subseteq Held(u)
    BY <1>1, <1>2, <1>3, HeldKept DEF Held
<1>5. Placed(h)
    BY <1>3 DEF Placed, Held
<1> HIDE DEF h
<1>6. \A x \in Msgs : ~Placed(x) => copies'[x] = copies[x]
    BY <1>0, <1>1, <1>5 DEF TypeOK, SessOK
<1> QED
    BY <1>0, <1>1, <1>4, <1>6, SamePlaces DEF SettledStays, Delivered

LEMMA SettledFinishDone ==
    ASSUME TypeOK, SlotInv, TaskInv, NEW t \in Turns, FinishDone(t) PROVE SettledStays
<1> DEFINE left == queue[t]
           st == [status EXCEPT ![t] = "done"]
           tk == [task EXCEPT ![t] = "ended"]
<1>0. /\ UNCHANGED <<hand, copies, carried, req>> /\ ~Busy(st)
    BY SweepIsAlone DEF FinishDone, sessVars, reqVars, Busy, TypeOK, TaskOK
<1>1. CASE left = <<>>
    <2>1. UNCHANGED <<message, queue>>
        BY <1>1 DEF FinishDone, tableVars
    <2> QED
        BY <1>0, <2>1, HeldSame, SettledFrame
<1>2. CASE left # <<>>
    <2>1. StartTurn(left, st, tk) /\ queue' = [queue EXCEPT ![t] = <<>>]
        BY <1>0, <1>2 DEF FinishDone
    <2>2. \A u \in Turns : queue'[u] = <<>> \/ queue'[u] = queue[u]
        BY <2>1 DEF TypeOK, MailOK
    <2>3. \A u \in Turns : Held(u)' \subseteq Held(u)
        BY <1>0, <2>2, EmptyTexts, HeldKept DEF Held
    <2>4. \A x \in Texts(left) : Placed(x)
        BY DEF Placed, Held
    <2> HIDE DEF left, st, tk
    <2> QED
        BY <1>0, <2>1, <2>3, <2>4, SettledStart
<1> QED
    BY <1>1, <1>2

LEMMA NextSettles ==
    ASSUME TypeInv, SlotInv, TaskInv, MailInv, Next PROVE SettledStays
<1>0. TypeOK /\ hand \in [Turns -> Seq(Msgs)] /\ queue \in [Turns -> Seq(Msgs)]
    BY DEF TypeInv, TypeOK, MailOK
<1>1. ASSUME UNCHANGED <<queue, hand, copies, message, carried, req>> PROVE SettledStays
    BY <1>0, <1>1, HeldSame, SettledFrame
<1>2. CASE Client
    <2>1. ASSUME NEW m \in Msgs, PostStart(m) \/ PostQueue(m) PROVE SettledStays
        BY <1>0, <2>1, SettledStartFor, SettledAnswer, SettledEnqueue
           DEF PostStart, PostQueue, Settled
    <2>2. ASSUME NEW m \in Msgs, PostInterrupt(m) PROVE SettledStays
        BY <1>0, <2>2, SettledInterrupt
    <2>3. ASSUME NEW m \in Msgs, NEW t \in Turns, Withdraw(m, t) PROVE SettledStays
        BY <1>0, <2>3, SettledWithdraw
    <2>4. ASSUME NEW t \in Turns, Abort(t) \/ Expire(t) PROVE SettledStays
        BY <1>1, <2>4 DEF Abort, Expire, tableVars, mailVars, sessVars, reqVars
    <2>5. CASE AbortSession
        BY <1>1, <2>5 DEF AbortSession, tableVars, mailVars, sessVars, reqVars
    <2>6. CASE RetryLast
        BY <1>0, <2>6, SettledRetry
    <2> QED
        BY <1>2, <2>1, <2>2, <2>3, <2>4, <2>5, <2>6 DEF Client
<1>3. ASSUME NEW m \in Msgs, Resume(m) PROVE SettledStays
    BY <1>0, <1>3, SettledEnqueue, SettledAnswer, SettledInterruptGoesOn
       DEF Resume, PollAgain, PollGivesUp, Settled
<1>4. ASSUME NEW t \in Turns, Drive(t) PROVE SettledStays
    <2>1. CASE Begin(t) \/ CallModel(t) \/ CallTool(t) \/ ToolReturns(t) \/ Reply(t)
               \/ AutoContinue(t) \/ RunRaises(t) \/ ErrorEvent(t) \/ CloseCalls(t) \/ CloseFails(t)
               \/ CancelledUnborn(t) \/ CancelledClosing(t) \/ OnDone(t)
        BY <1>1, <2>1
           DEF Begin, CallModel, CallTool, ToolReturns, Reply, AutoContinue, RunRaises, ErrorEvent,
               CloseCalls, CloseFails, CancelledUnborn, CancelledClosing, OnDone, tableVars, mailVars,
               sessVars, reqVars
    <2>2. CASE TakeQueue(t) \/ DeliveryFails(t) \/ CancelSeen(t)
        <3>1. \A u \in Turns : /\ queue'[u] \in {queue[u], <<>>}
                               /\ hand'[u] \in {hand[u], queue[u], <<>>}
            BY <1>0, <2>2 DEF TakeQueue, DeliveryFails, CancelSeen
        <3>2. \A u \in Turns : Held(u)' \subseteq Held(u)
            BY <3>1, EmptyTexts, HeldKept DEF Held
        <3> QED
            BY <1>0, <2>2, <3>2, SettledFrame
               DEF TakeQueue, DeliveryFails, CancelSeen, tableVars, sessVars, reqVars
    <2> QED
        BY <1>0, <1>4, <2>1, <2>2, SettledPrune, SettledDeliver, SettledFinishDone
           DEF Drive, Cancelled
<1> QED
    BY <1>2, <1>3, <1>4 DEF Next

-----------------------------------------------------------------------------
LEMMA HandInvKept ==
    ASSUME HandInv, \A t \in Turns : \/ hand'[t] = hand[t] /\ task'[t] = task[t]
                                     \/ hand'[t] = <<>> \/ task'[t] = "drain"
    PROVE  HandInv'
BY DEF HandInv

LEMMA StartKeepsHandInv ==
    ASSUME TypeOK, SlotInv, TaskInv, HandInv, NEW texts, NEW st, NEW tk \in [Turns -> Phases],
           StartTurn(texts, st, tk), hand' = hand,
           \A t \in Turns : tk[t] = task[t] \/ hand[t] = <<>>
    PROVE  HandInv'
<1> DEFINE n == count + 1
<1>1. n \in Turns /\ task' = [tk EXCEPT ![n] = "created"] /\ status[n] = "none"
    BY DEF StartTurn, SlotInv, Turns
<1>2. hand[n] = <<>>
    BY <1>1 DEF HandInv, TaskInv
<1> HIDE DEF n
<1> QED
    BY <1>1, <1>2 DEF HandInv

LEMMA NextKeepsHandInv ==
    ASSUME TypeInv, SlotInv, TaskInv, HandInv, Next PROVE HandInv'
<1>0. TypeOK /\ hand \in [Turns -> Seq(Msgs)] /\ task \in [Turns -> Phases]
    BY DEF TypeInv, TypeOK, MailOK, TaskOK
<1>1. ASSUME UNCHANGED <<hand, task>> PROVE HandInv'
    BY <1>1 DEF HandInv
<1>2. ASSUME NEW m \in Msgs, StartFor(m) PROVE HandInv'
    BY <1>0, <1>2, StartKeepsHandInv DEF StartFor, mailVars
<1>3. ASSUME NEW m \in Msgs, EnqueuePass(m) PROVE HandInv'
    BY <1>1, <1>2, <1>3 DEF EnqueuePass, Answer, taskVars, mailVars
<1>4. CASE Client
    <2>1. ASSUME NEW m \in Msgs, PostStart(m) \/ PostQueue(m) \/ PostInterrupt(m) PROVE HandInv'
        BY <1>1, <1>2, <1>3, <2>1 DEF PostStart, PostQueue, PostInterrupt, Answer, taskVars, mailVars
    <2>2. ASSUME NEW m \in Msgs, NEW t \in Turns, Withdraw(m, t) PROVE HandInv'
        BY <1>1, <2>2 DEF Withdraw, taskVars
    <2>3. ASSUME NEW t \in Turns, Abort(t) \/ Expire(t) PROVE HandInv'
        BY <1>1, <2>3 DEF Abort, Expire, taskVars, mailVars
    <2>4. CASE AbortSession
        BY <1>1, <2>4 DEF AbortSession, mailVars
    <2>5. CASE RetryLast
        BY <1>0, <2>5, StartKeepsHandInv DEF RetryLast, mailVars
    <2> QED
        BY <1>4, <2>1, <2>2, <2>3, <2>4, <2>5 DEF Client
<1>5. ASSUME NEW m \in Msgs, Resume(m) PROVE HandInv'
    <2>1. CASE PollAgain(m) \/ PollGivesUp(m)
        BY <1>1, <1>3, <2>1 DEF PollAgain, PollGivesUp, Answer, taskVars, mailVars
    <2>2. CASE InterruptGoesOn(m)
        <3> DEFINE t == target[m]
                   st == IF status[t] = "running" THEN [status EXCEPT ![t] = "aborted"] ELSE status
        <3>1. hand' = hand /\ (task' = task \/ StartTurn(Append(carried[m], m), st, task))
            BY <2>2 DEF InterruptGoesOn, ResumeInterrupt, mailVars
        <3> HIDE DEF st
        <3> QED
            BY <1>0, <1>1, <3>1, StartKeepsHandInv
    <2> QED
        BY <1>5, <2>1, <2>2 DEF Resume
<1>6. ASSUME NEW t \in Turns, Drive(t) PROVE HandInv'
    <2>0. task[t] # "drain" => hand[t] = <<>>
        BY DEF HandInv
    <2>1. ASSUME \A u \in Turns \ {t} : hand'[u] = hand[u] /\ task'[u] = task[u],
                 hand'[t] = <<>> \/ task'[t] = "drain"
          PROVE  HandInv'
        BY <2>1, HandInvKept
    <2>2. CASE Begin(t) \/ PruneAndStore(t) \/ CallModel(t) \/ CallTool(t) \/ ToolReturns(t)
               \/ Reply(t) \/ AutoContinue(t) \/ RunRaises(t) \/ ErrorEvent(t) \/ CloseCalls(t) \/ CloseFails(t)
               \/ CancelledUnborn(t) \/ CancelledClosing(t)
        BY <1>0, <2>0, <2>1, <2>2
           DEF Begin, PruneAndStore, CallModel, CallTool, ToolReturns, Reply, AutoContinue,
               RunRaises, ErrorEvent, CloseCalls, CloseFails, CancelledUnborn, CancelledClosing, At, GoTo,
               FinishAndEnd, mailVars
    <2>3. CASE TakeQueue(t) \/ DeliveryFails(t)
        BY <1>0, <2>1, <2>3 DEF TakeQueue, DeliveryFails, GoTo
    <2>4. CASE Deliver(t)
        <3>1. hand' = [hand EXCEPT ![t] = Tail(hand[t])]
            BY <2>4 DEF Deliver
        <3>2. CASE Len(hand[t]) = 1
            <4>0. hand[t] \in Seq(Msgs) /\ hand[t] # <<>>
                BY <1>0, <2>4 DEF Deliver, At, TypeInv, DrainHolds
            <4>1. Tail(hand[t]) \in Seq(Msgs) /\ Len(Tail(hand[t])) = 0
                BY <3>2, <4>0
            <4>2. Tail(hand[t]) = <<>>
                BY <4>1, EmptySeq
            <4> QED
                BY <1>0, <2>1, <2>4, <3>1, <3>2, <4>2 DEF Deliver, GoTo
        <3>3. CASE Len(hand[t]) # 1
            <4>1. task' = task /\ task[t] = "drain"
                BY <2>4, <3>3 DEF Deliver, At
            <4> QED
                BY <1>0, <2>1, <3>1, <4>1
        <3> QED
            BY <3>2, <3>3
    <2>5. CASE FinishDone(t)
        <3> DEFINE left == queue[t]
                   st == [status EXCEPT ![t] = "done"]
                   tk == [task EXCEPT ![t] = "ended"]
        <3>1. /\ tk \in [Turns -> Phases] /\ \A u \in Turns \ {t} : tk[u] = task[u]
              /\ hand[t] = <<>> /\ hand' = hand
            BY <1>0, <2>0, <2>5 DEF FinishDone, At, Phases
        <3>2. task' = tk \/ StartTurn(left, st, tk)
            BY <2>5 DEF FinishDone
        <3> HIDE DEF st, tk, left
        <3> QED
            BY <1>0, <2>1, <3>1, <3>2, StartKeepsHandInv
    <2>6. CASE CancelSeen(t)
        BY <1>0, <2>1, <2>6 DEF CancelSeen, GoTo, FinishAndEnd
    <2>7. CASE OnDone(t)
        BY <1>1, <2>7 DEF OnDone, mailVars
    <2> QED
        BY <1>6, <2>2, <2>3, <2>4, <2>5, <2>6, <2>7 DEF Drive, Cancelled
<1> QED
    BY <1>4, <1>5, <1>6 DEF Next

-----------------------------------------------------------------------------
\* Every queued text of a running turn that is not being stopped is accounted for.
\* A step that queues nothing and does not finish a turn as "done".
LEMMA TookStep ==
    ASSUME TypeOK, SlotInv, TookInv, SettledStays, took' = took, followup' = followup, unstored \subseteq unstored',
           count' \in Nat, count' >= count,
           \A t \in Turns : status'[t] = "none" => status[t] = "none",
           \A t \in Turns : status'[t] = "done" => status[t] = "done",
           \A t \in Turns : t <= count => message'[t] = message[t],
           \A t \in Turns : Running(t)' => \/ status[t] = "none"
                                           \/ Running(t) /\ \A x \in took[t] \cap Held(t) :
                                                 x \in Held(t)' \/ Delivered(x)' \/ req'[x] = "withdrawn"
    PROVE  TookInv'
<1>0. /\ took \in [Turns -> SUBSET Msgs] /\ followup \in [Turns -> 0..MaxTurns] /\ count \in 0..MaxTurns
    BY DEF TypeOK, TaskOK, MailOK, TableOK
<1>1. \A t \in Turns : \A x \in took[t] :
          /\ x \in Msgs /\ req[x] \in Settled /\ req'[x] \in Settled
          /\ req[x] = "withdrawn" => req'[x] = "withdrawn"
          /\ Delivered(x) => Delivered(x)'
    BY <1>0 DEF TookInv, SettledStays, Settled
<1>2. ASSUME NEW t \in Turns, status'[t] = "none" PROVE took[t] = {}
    BY <1>2 DEF TookInv
<1>3. ASSUME NEW t \in Turns PROVE followup[t] <= count'
    <2>1. followup[t] <= count
        BY DEF TookInv
    <2> QED
        BY <1>0, <2>1
<1>4. ASSUME NEW t \in Turns, Running(t)', NEW x \in took[t]
      PROVE  x \in Held(t)' \/ Delivered(x)' \/ req'[x] = "withdrawn"
    <2>1. status[t] # "none"
        BY <1>4 DEF TookInv
    <2>2. x \in Held(t) \/ Delivered(x) \/ req[x] = "withdrawn"
        BY <1>4, <2>1 DEF TookInv, Running
    <2> QED
        BY <1>1, <1>4, <2>1, <2>2
<1>5. ASSUME NEW t \in Turns, status'[t] = "done", t \notin unstored', NEW x \in took[t]
      PROVE  \/ Delivered(x)' \/ req'[x] = "withdrawn"
             \/ followup[t] # NoTurn /\ x \in Texts(message'[followup[t]])
    <2>1. \/ Delivered(x) \/ req[x] = "withdrawn"
          \/ followup[t] # NoTurn /\ x \in Texts(message[followup[t]])
        BY <1>5 DEF TookInv
    <2>2. followup[t] <= count /\ (followup[t] # NoTurn => followup[t] \in Turns)
        BY <1>0 DEF TookInv, NoTurn, Turns
    <2> QED
        BY <1>1, <2>1, <2>2
<1>6. \A t \in Turns : Texts(message[followup[t]])' = Texts(message'[followup[t]])
    BY DEF Texts
<1> QED
    BY <1>1, <1>2, <1>3, <1>4, <1>5, <1>6 DEF TookInv, Running

\* The same, for a step that takes no text out of a running turn's queue or hands.
LEMMA TookQuiet ==
    ASSUME TypeOK, SlotInv, TookInv, SettledStays, took' = took, followup' = followup, unstored \subseteq unstored',
           UNCHANGED <<count, message>>,
           \A t \in Turns : status'[t] = "none" => status[t] = "none",
           \A t \in Turns : status'[t] = "done" => status[t] = "done",
           \A t \in Turns : Running(t)' => Running(t) /\ Held(t) \subseteq Held(t)'
    PROVE  TookInv'
<1>1. count' \in Nat /\ count' >= count
    BY DEF TypeOK, TableOK
<1> QED
    BY <1>1, TookStep

LEMMA StartKeepsTookInv ==
    ASSUME TypeOK, SlotInv, TookInv, SettledStays, NEW texts, NEW st \in [Turns -> Statuses],
           StartTurn(texts, st, task), UNCHANGED <<took, unstored, followup, cancel, queue, hand>>,
           \A t \in Turns : st[t] \in {status[t], "aborted"},
           \A t \in Turns : st[t] = "none" => status[t] = "none"
    PROVE  TookInv'
<1> DEFINE n == count + 1
<1>1. /\ n \in Turns /\ count' = n /\ message' = [message EXCEPT ![n] = texts]
      /\ status' = [st EXCEPT ![n] = "running"] /\ task' = [task EXCEPT ![n] = "created"]
    BY DEF StartTurn
<1>2. status[n] = "none" /\ count \in Nat /\ n > count
    BY <1>1 DEF SlotInv, Turns
<1> HIDE DEF n
<1>3. status'[n] = "running" /\ \A t \in Turns \ {n} : status'[t] = st[t]
    BY <1>1
<1>4. \A t \in Turns \ {n} : task'[t] = task[t] /\ message'[t] = message[t]
    BY <1>1 DEF TypeOK, TaskOK, TableOK
<1>5. ASSUME NEW t \in Turns, Running(t)' PROVE status[t] = "none" \/ (Running(t) /\ Held(t)' = Held(t))
    <2>1. CASE t = n
        BY <1>2, <2>1
    <2>2. CASE t # n
        BY <1>3, <1>4, <1>5, <2>2, HeldSame DEF Running, Unwinding
    <2> QED
        BY <2>1, <2>2
<1>6. /\ count' \in Nat /\ count' >= count
      /\ \A t \in Turns : t <= count => message'[t] = message[t]
    <2>1. \A t \in Turns : t <= count => t # n
        BY <1>2 DEF Turns
    <2> QED
        BY <1>1, <1>2, <1>4, <2>1 DEF Turns
<1>7. /\ \A t \in Turns : status'[t] = "none" => status[t] = "none"
      /\ \A t \in Turns : status'[t] = "done" => status[t] = "done"
    BY <1>3
<1> QED
    BY <1>5, <1>6, <1>7, TookStep

LEMMA StartForTook ==
    ASSUME TypeOK, SlotInv, TookInv, SettledStays, NEW m \in Msgs, StartFor(m) PROVE TookInv'
BY StartKeepsTookInv DEF StartFor, mailVars, TypeOK, TaskOK

LEMMA FrameTook ==
    ASSUME TypeOK, SlotInv, TookInv, SettledStays,
           UNCHANGED <<took, unstored, followup, count, message, status, task, cancel, queue, hand>>
    PROVE  TookInv'
BY TookQuiet, HeldSame DEF Running, Unwinding

LEMMA EnqueueTook ==
    ASSUME TypeOK, SlotInv, TaskInv, TookInv, SettledStays, NEW m \in Msgs, EnqueuePass(m)
    PROVE  TookInv'
<1>1. CASE ~Busy(status)
    BY <1>1, StartForTook DEF EnqueuePass
<1>2. CASE Busy(status) /\ ~accepting[Cur]
    BY <1>2, FrameTook DEF EnqueuePass, Answer, tableVars, taskVars, mailVars
<1>3. CASE Busy(status) /\ accepting[Cur]
    <2>0. PICK c \in Turns : c = Cur
        BY <1>3, CurIsTurn
    <2>1. /\ c \in Turns /\ status[c] = "running" /\ req' = [req EXCEPT ![m] = "queued"]
          /\ queue' = [queue EXCEPT ![c] = Append(queue[c], m)]
          /\ took' = [took EXCEPT ![c] = took[c] \cup {m}]
          /\ UNCHANGED <<hand, unstored, followup, count, message, status, task, cancel>>
        BY <1>3, <2>0 DEF EnqueuePass, Busy, tableVars, taskVars
    <2>2. queue[c] \in Seq(Msgs) /\ took \in [Turns -> SUBSET Msgs] /\ req'[m] = "queued"
        BY <2>1 DEF TypeOK, MailOK, ReqOK
    <2>3. queue'[c] = Append(queue[c], m) /\ \A t \in Turns \ {c} : queue'[t] = queue[t]
        BY <2>1 DEF TypeOK, MailOK
    <2>4. Texts(queue'[c]) = Texts(queue[c]) \cup {m}
        BY <2>2, <2>3, AppendTexts
    <2>5. /\ m \in Held(c)'
          /\ \A t \in Turns : Held(t) \subseteq Held(t)'
        <3>1. \A t \in Turns : Held(t)' = Texts(queue'[t]) \cup Texts(hand[t])
            BY <2>1 DEF Held, Texts
        <3> QED
            BY <2>1, <2>3, <2>4, <3>1 DEF Held
    <2>6. /\ took'[c] = took[c] \cup {m} /\ \A t \in Turns \ {c} : took'[t] = took[t]
        BY <2>1, <2>2
    <2>7. \A t \in Turns : \A x \in took[t] :
              /\ x \in Msgs /\ req[x] \in Settled /\ req'[x] \in Settled
              /\ req[x] = "withdrawn" => req'[x] = "withdrawn"
              /\ Delivered(x) => Delivered(x)'
        BY <2>2 DEF TookInv, SettledStays, Settled
    <2>8. ASSUME NEW t \in Turns, NEW x \in took'[t] PROVE req'[x] \in Settled
        BY <2>2, <2>6, <2>7, <2>8 DEF Settled
    <2>9. ASSUME NEW t \in Turns, status[t] = "none" PROVE took'[t] = {}
        BY <2>1, <2>6, <2>9 DEF TookInv
    <2>10. ASSUME NEW t \in Turns, Running(t), NEW x \in took'[t]
           PROVE  x \in Held(t)' \/ Delivered(x)' \/ req'[x] = "withdrawn"
        <3>1. CASE x \in took[t]
            BY <2>5, <2>7, <2>10, <3>1 DEF TookInv, Running
        <3>2. CASE x \notin took[t]
            BY <2>5, <2>6, <2>10, <3>2
        <3> QED
            BY <3>1, <3>2
    <2>11. ASSUME NEW t \in Turns, status[t] = "done", t \notin unstored, NEW x \in took'[t]
           PROVE  \/ Delivered(x)' \/ req'[x] = "withdrawn"
                  \/ followup[t] # NoTurn /\ x \in Texts(message[followup[t]])
        <3>1. took'[t] = took[t]
            BY <2>1, <2>6, <2>11
        <3> QED
            BY <2>7, <2>11, <3>1 DEF TookInv
    <2>12. /\ \A t \in Turns : Running(t)' = Running(t)
           /\ \A t \in Turns : Texts(message[followup[t]])' = Texts(message[followup[t]])
           /\ \A t \in Turns : followup'[t] <= count'
        BY <2>1 DEF Running, Unwinding, Texts, TookInv
    <2> QED
        BY <2>1, <2>8, <2>9, <2>10, <2>11, <2>12 DEF TookInv, Running
<1> QED
    BY <1>1, <1>2, <1>3

\* A cancellation: the turns it reaches are unwinding from now on.
LEMMA CancelTook ==
    ASSUME TypeOK, SlotInv, TaskInv, TookInv, SettledStays, NEW ts \in SUBSET Turns, Cancel(ts),
           UNCHANGED <<took, unstored, followup, count, message, status, task, hand>>,
           \A t \in Turns : t \in ts \/ queue'[t] = queue[t]
    PROVE  TookInv'
<1>1. /\ \A t \in Turns : Unwinding(t) => Unwinding(t)'
      /\ \A t \in ts : Unwinding(t)'
    BY CancelUnwinds
<1>2. ASSUME NEW t \in Turns, Running(t)' PROVE Running(t) /\ Held(t) \subseteq Held(t)'
    <2>1. t \notin ts /\ Running(t) /\ queue'[t] = queue[t]
        BY <1>1, <1>2 DEF Running
    <2> QED
        BY <2>1 DEF Held, Texts
<1> QED
    BY <1>2, TookQuiet

LEMMA ClientTook ==
    ASSUME TypeOK, SlotInv, TaskInv, MailInv, TookInv, SettledStays, Client PROVE TookInv'
<1>1. ASSUME NEW m \in Msgs, PostStart(m) PROVE TookInv'
    BY <1>1, StartForTook, FrameTook DEF PostStart, Answer, tableVars, taskVars, mailVars
<1>2. ASSUME NEW m \in Msgs, PostQueue(m) PROVE TookInv'
    BY <1>2, EnqueueTook DEF PostQueue
<1>3. ASSUME NEW m \in Msgs, PostInterrupt(m) PROVE TookInv'
    <2>1. CASE ~Busy(status)
        BY <1>3, <2>1, StartForTook DEF PostInterrupt
    <2>2. CASE Busy(status)
        <3>1. /\ Cur \in Turns /\ Cancel({Cur}) /\ queue' = [queue EXCEPT ![Cur] = <<>>]
              /\ UNCHANGED <<took, unstored, followup, count, message, status, task, hand>>
            BY <1>3, <2>2, CurIsTurn DEF PostInterrupt, tableVars
        <3>2. \A t \in Turns : t \in {Cur} \/ queue'[t] = queue[t]
            BY <3>1 DEF TypeOK, MailOK
        <3>3. {Cur} \in SUBSET Turns
            BY <3>1
        <3> QED
            BY <3>1, <3>2, <3>3, CancelTook
    <2> QED
        BY <2>1, <2>2
<1>4. ASSUME NEW m \in Msgs, NEW t \in Turns, Withdraw(m, t) PROVE TookInv'
    <2>1. PICK i \in DOMAIN queue[t] :
              queue[t][i] = m /\ queue' = [queue EXCEPT ![t] = Without(queue[t], i)]
        BY <1>4 DEF Withdraw
    <2>2. /\ req' = [req EXCEPT ![m] = "withdrawn"]
          /\ UNCHANGED <<took, unstored, followup, count, message, status, task, cancel, hand>>
        BY <1>4 DEF Withdraw, tableVars, taskVars
    <2>3. /\ queue'[t] = Without(queue[t], i) /\ queue[t] \in Seq(Msgs)
          /\ \A u \in Turns \ {t} : queue'[u] = queue[u]
        BY <2>1 DEF TypeOK, MailOK
    <2>4. Texts(queue'[t]) = Texts(queue[t]) \ {m} /\ req'[m] = "withdrawn"
        BY <2>1, <2>2, <2>3, WithoutTexts DEF MailInv, TypeOK, ReqOK
    <2>5. \A u \in Turns : Held(u)' = Texts(queue'[u]) \cup Texts(hand[u])
        BY <2>2 DEF Held, Texts
    <2>6. \A u \in Turns : \A x \in Held(u) : x \in Held(u)' \/ x = m
        BY <2>3, <2>4, <2>5 DEF Held
    <2>7. \A u \in Turns : Running(u)' => Running(u)
        BY <2>2 DEF Running, Unwinding
    <2>8. count' \in Nat /\ count' >= count
        BY <2>2 DEF TypeOK, TableOK
    <2> QED
        BY <2>2, <2>4, <2>6, <2>7, <2>8, TookStep
<1>5. ASSUME NEW t \in Turns, Abort(t) PROVE TookInv'
    BY <1>5, CancelTook, {t} \in SUBSET Turns DEF Abort, tableVars, mailVars
<1>6. ASSUME NEW t \in Turns, Expire(t) PROVE TookInv'
    BY <1>6, FrameTook DEF Expire, taskVars, mailVars
<1>7. CASE AbortSession
    BY <1>7, CancelTook DEF AbortSession, tableVars, mailVars, TypeOK, TableOK
<1>8. CASE RetryLast
    BY <1>8, StartKeepsTookInv DEF RetryLast, mailVars, TypeOK, TaskOK
<1> QED
    BY <1>1, <1>2, <1>3, <1>4, <1>5, <1>6, <1>7, <1>8 DEF Client

LEMMA ResumeTook ==
    ASSUME TypeOK, SlotInv, TaskInv, MailInv, TookInv, SettledStays, NEW m \in Msgs, Resume(m)
    PROVE  TookInv'
<1>1. CASE PollAgain(m)
    BY <1>1, EnqueueTook DEF PollAgain
<1>2. CASE PollGivesUp(m)
    BY <1>2, FrameTook DEF PollGivesUp, Answer, tableVars, taskVars, mailVars
<1>3. CASE InterruptGoesOn(m)
    <2> DEFINE t == target[m]
               st == IF status[t] = "running" THEN [status EXCEPT ![t] = "aborted"] ELSE status
    <2>1. /\ st \in [Turns -> Statuses] /\ \A u \in Turns : st[u] \in {status[u], "aborted"}
        BY DEF TypeOK, TaskOK, Statuses, Terminal
    <2>2. UNCHANGED <<took, unstored, followup, cancel, queue, hand>>
        BY <1>3 DEF InterruptGoesOn, ResumeInterrupt, mailVars
    <2>3. CASE Busy(st)
        <3>1. status' = st /\ task' = task /\ UNCHANGED <<count, message>>
            BY <1>3, <2>3 DEF InterruptGoesOn, ResumeInterrupt, tableVars
        <3> HIDE DEF st
        <3>2. \A u \in Turns : Running(u)' => Running(u)
            BY <2>1, <2>2, <3>1 DEF Running, Unwinding
        <3>3. \A u \in Turns : Held(u)' = Held(u)
            BY <2>2, HeldSame
        <3> QED
            BY <2>1, <2>2, <3>1, <3>2, <3>3, TookQuiet
    <2>4. CASE ~Busy(st)
        <3>1. StartTurn(Append(carried[m], m), st, task)
            BY <1>3, <2>4 DEF InterruptGoesOn, ResumeInterrupt
        <3> HIDE DEF st
        <3> QED
            BY <2>1, <2>2, <3>1, StartKeepsTookInv
    <2> QED
        BY <2>3, <2>4
<1> QED
    BY <1>1, <1>2, <1>3 DEF Resume

LEMMA DeliverTook ==
    ASSUME TypeInv, SlotInv, TaskInv, MailInv, TookInv, SettledStays, NEW t \in Turns, Deliver(t)
    PROVE  TookInv'
<1>0. TypeOK /\ hand[t] \in Seq(Msgs) /\ hand[t] # <<>>
    BY DEF Deliver, At, TypeInv, DrainHolds, TypeOK, MailOK
<1>1. PICK h \in Msgs : h = Head(hand[t])
    BY <1>0
<1>2. /\ copies' = [copies EXCEPT ![h] = copies[h] + 1] /\ hand' = [hand EXCEPT ![t] = Tail(hand[t])]
      /\ UNCHANGED <<message, queue, carried, req, took, unstored, followup, count, status, cancel>>
      /\ task'[t] \notin {"closing", "ended"} \/ ~Running(t)'
    BY <1>0, <1>1 DEF Deliver, At, GoTo, Running, Unwinding, tableVars, reqVars, TypeOK, TaskOK
<1>3. hand'[t] = Tail(hand[t]) /\ \A u \in Turns \ {t} : hand'[u] = hand[u]
    BY <1>0, <1>2 DEF TypeOK, MailOK
<1>4. h \in Texts(hand[t]) /\ Texts(hand'[t]) = Texts(hand[t]) \ {h}
    BY <1>0, <1>1, <1>3, TailTexts DEF MailInv
<1>5. h \in Held(t) /\ ~Fixed(h)
    BY <1>4 DEF Held, MailInv
<1>6. \A u \in Turns : Held(u)' = Texts(queue[u]) \cup Texts(hand'[u])
    BY <1>2 DEF Held, Texts
<1>7. ASSUME NEW u \in Turns PROVE h \notin Held(u)'
    <2>1. CASE u = t
        BY <1>4, <1>6, <2>1 DEF MailInv
    <2>2. CASE u # t
        BY <1>3, <1>5, <1>6, <2>2 DEF MailInv, Held
    <2> QED
        BY <2>1, <2>2
<1>8. Delivered(h)'
    <2>1. copies'[h] > 0
        BY <1>0, <1>2 DEF TypeOK, SessOK
    <2>2. ~Placed(h)'
        BY <1>2, <1>5, <1>7 DEF Placed, Fixed, Texts
    <2> QED
        BY <2>1, <2>2 DEF Delivered
<1>9. \A u \in Turns : \A x \in Held(u) : x \in Held(u)' \/ x = h
    BY <1>3, <1>4, <1>6 DEF Held
<1>10. \A u \in Turns : Running(u)' => Running(u)
    <2>1. At(t, "drain") /\ \A u \in Turns \ {t} : task'[u] = task[u]
        BY <1>0 DEF Deliver, GoTo, TypeOK, TaskOK
    <2> QED
        BY <1>2, <2>1 DEF Running, Unwinding, At
<1>11. count' \in Nat /\ count' >= count
    BY <1>0, <1>2 DEF TypeOK, TableOK
<1> QED
    BY <1>0, <1>2, <1>8, <1>9, <1>10, <1>11, TookStep

\* The leftover sweep hands every text still queued to the follow-up turn.
LEMMA FinishDoneTook ==
    ASSUME TypeOK, SlotInv, TaskInv, HandInv, TookInv, SettledStays, NEW t \in Turns, FinishDone(t)
    PROVE  TookInv'
<1> DEFINE left == queue[t]
           st == [status EXCEPT ![t] = "done"]
           tk == [task EXCEPT ![t] = "ended"]
<1>0. /\ status[t] = "running" /\ hand[t] = <<>> /\ (t \notin unstored => Running(t))
      /\ UNCHANGED <<hand, unstored, req, cancel>> /\ ~Busy(st)
    BY SweepIsAlone DEF FinishDone, HandInv, At, Running, Unwinding, sessVars, reqVars, Busy,
       TypeOK, TaskOK
<1>1. /\ st[t] = "done" /\ tk[t] = "ended"
      /\ \A u \in Turns \ {t} : st[u] = status[u] /\ status[u] # "running"
    BY <1>0 DEF TypeOK, TaskOK, SlotInv
<1>2. /\ took \in [Turns -> SUBSET Msgs] /\ followup \in [Turns -> 0..MaxTurns] /\ count \in 0..MaxTurns
    BY DEF TypeOK, TaskOK, MailOK, TableOK
<1>3. \A u \in Turns : \A x \in took[u] :
          /\ x \in Msgs /\ req[x] \in Settled /\ req'[x] \in Settled
          /\ req[x] = "withdrawn" => req'[x] = "withdrawn"
          /\ Delivered(x) => Delivered(x)'
    BY <1>2 DEF TookInv, SettledStays, Settled
<1>4. t \in unstored \/ \A x \in took[t] : x \in Texts(left) \/ Delivered(x)' \/ req'[x] = "withdrawn"
    BY <1>0, <1>3, EmptyTexts DEF TookInv, Running, Held
<1>5. ASSUME NEW u \in Turns \ {t}, status[u] = "done", u \notin unstored, NEW x \in took[u]
      PROVE  \/ Delivered(x)' \/ req'[x] = "withdrawn"
             \/ followup[u] # NoTurn /\ x \in Texts(message[followup[u]])
    BY <1>3, <1>5 DEF TookInv
<1>6. \A u \in Turns : followup[u] <= count /\ (followup[u] # NoTurn => followup[u] \in Turns)
    BY <1>2 DEF TookInv, NoTurn, Turns
<1>7. CASE left = <<>>
    <2>1. status' = st /\ UNCHANGED <<count, message, followup, took>>
        BY <1>7 DEF FinishDone, tableVars
    <2>2. \A u \in Turns : Texts(message[followup[u]])' = Texts(message[followup[u]])
        BY <2>1 DEF Texts
    <2>3. \A u \in Turns : status'[u] # "running"
        BY <1>1, <2>1
    <2>4. \A u \in Turns : status'[u] = "none" => took'[u] = {}
        BY <1>1, <2>1 DEF TookInv
    <2>5. ASSUME NEW u \in Turns, status'[u] = "done", u \notin unstored, NEW x \in took[u]
          PROVE  \/ Delivered(x)' \/ req'[x] = "withdrawn"
                 \/ followup[u] # NoTurn /\ x \in Texts(message[followup[u]])
        <3>1. CASE u = t
            BY <1>4, <1>7, <2>5, <3>1, EmptyTexts
        <3>2. CASE u # t
            BY <1>1, <1>5, <2>1, <2>5, <3>2
        <3> QED
            BY <3>1, <3>2
    <2> HIDE DEF st
    <2> QED
        BY <1>0, <1>3, <1>6, <2>1, <2>2, <2>3, <2>4, <2>5 DEF TookInv, Running
<1>8. CASE left # <<>>
    <2> DEFINE n == count + 1
    <2>1. /\ StartTurn(left, st, tk) /\ followup' = [followup EXCEPT ![t] = n] /\ took' = took
        BY <1>0, <1>8 DEF FinishDone
    <2>2. /\ n \in Turns /\ count' = n /\ message' = [message EXCEPT ![n] = left]
          /\ status' = [st EXCEPT ![n] = "running"]
        BY <2>1 DEF StartTurn
    <2>3. status[n] = "none" /\ count \in Nat /\ n > count /\ n # t /\ n # NoTurn
        BY <1>0, <2>2 DEF SlotInv, Turns, NoTurn
    <2>4. /\ message'[n] = left /\ \A u \in Turns \ {n} : message'[u] = message[u]
          /\ followup'[t] = n /\ \A u \in Turns \ {t} : followup'[u] = followup[u]
        BY <1>2, <2>1, <2>2 DEF TypeOK, TableOK
    <2>5. /\ status'[n] = "running" /\ status'[t] = "done"
          /\ \A u \in Turns \ {t, n} : status'[u] = status[u]
        BY <1>1, <2>2, <2>3 DEF TypeOK, TaskOK
    <2> HIDE DEF n, st, tk
    <2>6. \A u \in Turns : followup'[u] <= count'
        <3>1. n \in Nat /\ followup'[t] <= n
            BY <2>2, <2>4 DEF Turns
        <3>2. ASSUME NEW u \in Turns, u # t PROVE followup'[u] <= n
            <4>1. followup'[u] = followup[u] /\ followup[u] \in Nat /\ followup[u] <= count
                BY <1>2, <1>6, <2>4, <3>2
            <4> QED
                BY <2>3, <3>1, <4>1
        <3> QED
            BY <2>2, <3>1, <3>2
    <2>7. \A u \in Turns : status'[u] = "none" => took'[u] = {}
        BY <2>1, <2>5 DEF TookInv, Running
    <2>8. \A u \in Turns : status'[u] = "running" => took'[u] = {}
        BY <1>1, <2>1, <2>3, <2>5 DEF TookInv, Running
    <2>9. ASSUME NEW u \in Turns, status'[u] = "done", u \notin unstored, NEW x \in took[u]
          PROVE  \/ Delivered(x)' \/ req'[x] = "withdrawn"
                 \/ followup'[u] # NoTurn /\ x \in Texts(message'[followup'[u]])
        <3>1. CASE u = t
            BY <1>4, <2>3, <2>4, <2>9, <3>1
        <3>2. CASE u # t
            <4>1. u # n /\ status[u] = "done" /\ followup'[u] = followup[u]
                BY <2>4, <2>5, <2>9, <3>2
            <4>2. followup[u] # NoTurn => message'[followup[u]] = message[followup[u]]
                BY <1>2, <1>6, <2>3, <2>4
            <4> QED
                BY <1>5, <2>9, <3>2, <4>1, <4>2
        <3> QED
            BY <3>1, <3>2
    <2>10. \A u \in Turns : Texts(message[followup[u]])' = Texts(message'[followup'[u]])
        BY DEF Texts
    <2> QED
        BY <1>0, <1>3, <2>1, <2>6, <2>7, <2>8, <2>9, <2>10 DEF TookInv, Running
<1> QED
    BY <1>7, <1>8

LEMMA DriveTook ==
    ASSUME TypeInv, SlotInv, TaskInv, HandInv, MailInv, TookInv, SettledStays,
           NEW t \in Turns, Drive(t)
    PROVE  TookInv'
<1>0. /\ TypeOK /\ hand \in [Turns -> Seq(Msgs)] /\ queue \in [Turns -> Seq(Msgs)]
      /\ status \in [Turns -> Statuses] /\ task \in [Turns -> Phases] /\ cancel \in [Turns -> BOOLEAN]
      /\ task[t] # "drain" => hand[t] = <<>>
      /\ task[t] # "none" => status[t] # "none"
    BY DEF TypeInv, TypeOK, MailOK, TaskOK, HandInv, TaskInv
<1>1. ASSUME \A u \in Turns \ {t} : /\ status'[u] = status[u] /\ task'[u] = task[u]
                                     /\ cancel'[u] = cancel[u],
             UNCHANGED <<took, followup, count, message>>, unstored \subseteq unstored',
             status'[t] # "none", status'[t] = "done" => status[t] = "done",
             \A u \in Turns : Running(u)' => Held(u) \subseteq Held(u)',
             Running(t)' => Running(t)
      PROVE  TookInv'
    <2>1. \A u \in Turns : Running(u)' => Running(u) /\ Held(u) \subseteq Held(u)'
        BY <1>1 DEF Running, Unwinding
    <2> QED
        BY <1>0, <1>1, <2>1, TookQuiet
<1>2. CASE Begin(t) \/ PruneAndStore(t) \/ CallModel(t) \/ CallTool(t) \/ ToolReturns(t)
           \/ Reply(t) \/ AutoContinue(t)
    <2>1. UNCHANGED <<took, unstored, followup, count, message, status, cancel, queue, hand>>
        BY <1>2 DEF Begin, PruneAndStore, CallModel, CallTool, ToolReturns, Reply, AutoContinue,
                    tableVars, mailVars
    <2>2. \E p : /\ At(t, p) /\ p \notin {"none", "closing", "ended"}
        BY <1>2 DEF Begin, PruneAndStore, CallModel, CallTool, ToolReturns, Reply, AutoContinue
    <2>3. \A u \in Turns \ {t} : task'[u] = task[u]
        BY <1>0, <1>2 DEF Begin, PruneAndStore, CallModel, CallTool, ToolReturns, Reply,
                          AutoContinue, GoTo
    <2>4. Running(t)' => Running(t)
        BY <2>1, <2>2 DEF Running, Unwinding, At
    <2>5. \A u \in Turns : Held(u)' = Held(u)
        BY <2>1, HeldSame
    <2>6. status[t] # "none"
        BY <1>0, <2>2 DEF At
    <2> QED
        BY <1>1, <2>1, <2>3, <2>4, <2>5, <2>6
<1>3. CASE TakeQueue(t)
    <2>1. /\ UNCHANGED <<took, unstored, followup, count, message, status, cancel>>
          /\ At(t, "model") /\ \A u \in Turns \ {t} : task'[u] = task[u]
          /\ hand' = [hand EXCEPT ![t] = queue[t]] /\ queue' = [queue EXCEPT ![t] = <<>>]
        BY <1>0, <1>3 DEF TakeQueue, GoTo, tableVars
    <2>2. /\ hand'[t] = queue[t] /\ hand[t] = <<>>
          /\ \A u \in Turns \ {t} : hand'[u] = hand[u] /\ queue'[u] = queue[u]
        BY <1>0, <2>1 DEF At
    <2>3. \A u \in Turns : Held(u)' = Texts(queue'[u]) \cup Texts(hand'[u])
        BY DEF Held, Texts
    <2>4. \A u \in Turns : Held(u) \subseteq Held(u)'
        BY <2>2, <2>3, EmptyTexts DEF Held
    <2>5. (Running(t)' => Running(t)) /\ status[t] # "none"
        BY <1>0, <2>1 DEF Running, Unwinding, At
    <2> QED
        BY <1>1, <2>1, <2>4, <2>5
<1>4. CASE RunRaises(t) \/ ErrorEvent(t) \/ CloseCalls(t) \/ CloseFails(t) \/ OnDone(t)
    <2>1. /\ UNCHANGED <<took, followup, count, message, cancel, queue, hand>>
          /\ unstored \subseteq unstored' /\ status'[t] \in {"error", "aborted"}
          /\ \A u \in Turns \ {t} : status'[u] = status[u] /\ task'[u] = task[u]
        BY <1>0, <1>4 DEF RunRaises, ErrorEvent, CloseCalls, CloseFails, OnDone, FinishAndEnd, tableVars, mailVars
    <2>2. \A u \in Turns : Held(u)' = Held(u)
        BY <2>1, HeldSame
    <2> QED
        BY <1>1, <2>1, <2>2 DEF Running
<1>5. CASE CancelledUnborn(t) \/ CancelledClosing(t)
    <2>1. /\ UNCHANGED <<took, unstored, followup, count, message, status, queue, hand>>
          /\ task'[t] = "ended" /\ status[t] # "none"
          /\ \A u \in Turns \ {t} : task'[u] = task[u] /\ cancel'[u] = cancel[u]
        BY <1>0, <1>5 DEF CancelledUnborn, CancelledClosing, GoTo, tableVars, mailVars
    <2>2. \A u \in Turns : Held(u)' = Held(u)
        BY <2>1, HeldSame
    <2> QED
        BY <1>1, <2>1, <2>2 DEF Running, Unwinding
<1>6. CASE CancelSeen(t)
    <2>1. /\ UNCHANGED <<took, unstored, followup, count, message, queue>>
          /\ task'[t] \in {"closing", "ended"} /\ status[t] # "none"
          /\ status'[t] \in {status[t], "aborted"}
          /\ \A u \in Turns \ {t} : /\ task'[u] = task[u] /\ cancel'[u] = cancel[u]
                                    /\ hand'[u] = hand[u] /\ status'[u] = status[u]
        BY <1>0, <1>6 DEF CancelSeen, GoTo, FinishAndEnd, tableVars
    <2>2. ~Running(t)'
        BY <2>1 DEF Running, Unwinding
    <2>3. \A u \in Turns \ {t} : Held(u)' = Held(u)
        BY <2>1 DEF Held, Texts
    <2> QED
        BY <1>1, <2>1, <2>2, <2>3
<1>7. CASE DeliveryFails(t)
    <2>1. /\ UNCHANGED <<took, followup, count, message, status, cancel, queue>>
          /\ unstored \subseteq unstored' /\ t \in unstored' /\ At(t, "drain")
          /\ \A u \in Turns \ {t} : task'[u] = task[u] /\ hand'[u] = hand[u]
        BY <1>0, <1>7 DEF DeliveryFails, GoTo, tableVars
    <2>2. ~Running(t)' /\ status[t] # "none"
        BY <1>0, <2>1 DEF Running, At
    <2>3. \A u \in Turns \ {t} : Held(u)' = Held(u)
        BY <2>1 DEF Held, Texts
    <2> QED
        BY <1>1, <2>1, <2>2, <2>3
<1> QED
    BY <1>0, <1>2, <1>3, <1>4, <1>5, <1>6, <1>7, DeliverTook, FinishDoneTook DEF Drive, Cancelled

LEMMA NextKeepsTookInv ==
    ASSUME TypeInv, SlotInv, TaskInv, HandInv, MailInv, TookInv, Next
    PROVE  TookInv'
<1>1. SettledStays /\ TypeOK
    BY NextSettles DEF TypeInv
<1> QED
    BY <1>1, ClientTook, ResumeTook, DriveTook DEF Next

LEMMA HandInvHolds == Spec => []HandInv
<1>1. Init => HandInv
    BY DEF Init, HandInv
<1>2. IInv /\ HandInv /\ [Next]_vars => HandInv'
    BY NextKeepsHandInv DEF IInv, HandInv, vars, mailVars, taskVars
<1> QED
    BY <1>1, <1>2, IInvHolds, PTL DEF Spec

LEMMA TookInvHolds == Spec => []TookInv
<1>1. Init => TookInv
    BY DEF Init, TookInv, NoTurn
<1>2. IInv /\ UNCHANGED vars /\ TookInv => TookInv'
    BY DEF vars, tableVars, taskVars, mailVars, sessVars, reqVars, TookInv, Running, Held, Delivered, Placed,
           Unwinding, Texts
<1>3. ASSUME IInv, HandInv, MailInv, TookInv, [Next]_vars PROVE TookInv'
    BY <1>2, <1>3, NextKeepsTookInv DEF IInv
<1> QED
    BY <1>1, <1>3, IInvHolds, HandInvHolds, MailInvHolds, PTL DEF Spec

\* A message that was accepted into the queue of a turn which then ends "done" was
\* delivered, withdrawn, or is what the follow-up turn says, unless an append of the
\* mid-turn plugin failed in that turn.
THEOREM DoneLosesNothingHolds == Spec => []DoneLosesNothing
<1>1. IInv /\ TookInv => DoneLosesNothing
    BY DEF TookInv, DoneLosesNothing, Delivered
<1> QED
    BY <1>1, IInvHolds, TookInvHolds, PTL

=============================================================================
