----------------------------- MODULE TurnBroker -----------------------------
(***************************************************************************)
(* The durable-turn broker of service/turns.py with its HTTP routes        *)
(* (service/turn_routes.py) and the plugin that hands mid-turn messages to *)
(* the model (plugins/midturn_messages.py), for ONE session.               *)
(*                                                                         *)
(* A turn is an asyncio task that drives one agent run.  Everything runs   *)
(* on one event loop, so an action is the code between two suspension      *)
(* points.  `Condition` blocks in turns.py never suspend while they hold   *)
(* the lock, hence Turn.finish and Turn.push are part of the step that     *)
(* calls them.                                                             *)
(***************************************************************************)
EXTENDS Integers, Sequences, FiniteSets

CONSTANTS
    Msgs,          \* the texts users send; each is sent by one request
    MaxTurns,      \* bound: turns the broker ever creates
    MaxRetries,    \* bound: calls of POST /api/turns/retry-last
    MaxSteps,      \* bound: model steps of one turn
    MaxHits,       \* bound: cancellations that reach one turn's task
    MaxExpired,    \* bound: turns that grow old enough to be garbage collected
    Stubborn,      \* may a cancelled task outlive the 15 s wait of send-now?
    StorageFails   \* may the session service fail while a mid-turn text or the answer
                   \* of an interrupted call is stored?  The broker only warns then.

ASSUME TurnBrokerAssumption ==
    /\ MaxTurns \in Nat /\ MaxRetries \in Nat /\ MaxHits \in Nat /\ MaxExpired \in Nat
    /\ MaxSteps \in Nat \ {0}
    /\ Stubborn \in BOOLEAN /\ StorageFails \in BOOLEAN

Turns == 1..MaxTurns
NoTurn == 0

Terminal == {"done", "error", "aborted"}
Statuses == {"none", "running"} \cup Terminal

\* Where a turn's task is suspended.
Phases == {"none", "created", "begin", "model", "drain", "gen", "tool",
           "reply", "closing", "ended"}

\* Where a request that brings a message stands.
Requests == {"new", "polling", "stopping", "started", "queued", "refused", "withdrawn"}

VARIABLES
    count,       \* turns created so far
    latest,      \* _latest_by_session
    known,       \* _turns: what get() and latest_for() still find
    expired,     \* finished more than _FINISHED_TTL_S ago
    retries,     \* retry-last calls so far
    status,      \* Turn.status
    task,        \* where the turn's task is suspended
    cancel,      \* a cancellation is due at the task's next resumption
    accepting,   \* Turn.accepting
    queue,       \* Turn.queue
    hand,        \* texts the plugin took from the queue and is still storing
    message,     \* Turn.new_message, as the texts of its parts
    out,         \* Turn.model_events > 0
    steps,       \* model steps taken
    followup,    \* Turn.followup_id
    orphanOf,    \* Turn.prune_orphan_of
    copies,      \* session history: user events that carry each text
    lastUser,    \* the texts of the session's last event when it is a turn's message
    open,        \* turns whose tool call is in the history without an answer
    req,         \* progress of the request that brings a message
    carried,     \* texts a send-now took over from the turn it stops
    target,      \* the turn a send-now stops
    waiting,     \* send-nows in the order they began to wait for that turn's task
    took,        \* history variable: texts ever queued on a turn
    unstored,    \* history variable: turns for which such a failure was swallowed
    hits         \* history variable: cancellations a turn's task received

tableVars == <<count, latest, known, expired, retries, message, orphanOf>>
taskVars  == <<status, task, cancel, accepting, out, steps, followup, hits>>
mailVars  == <<queue, hand, took, unstored>>
sessVars  == <<copies, lastUser, open>>
reqVars   == <<req, carried, target, waiting>>
vars == <<tableVars, taskVars, mailVars, sessVars, reqVars>>

Texts(s) == {s[i] : i \in DOMAIN s}

\* s without its i-th element.
Without(s, i) == SubSeq(s, 1, i - 1) \o SubSeq(s, i + 1, Len(s))

Init ==
    /\ count = 0 /\ latest = NoTurn /\ known = {} /\ expired = {} /\ retries = 0
    /\ message = [t \in Turns |-> <<>>]
    /\ orphanOf = [t \in Turns |-> NoTurn]
    /\ status = [t \in Turns |-> "none"]
    /\ task = [t \in Turns |-> "none"]
    /\ cancel = [t \in Turns |-> FALSE]
    /\ accepting = [t \in Turns |-> TRUE]
    /\ out = [t \in Turns |-> FALSE]
    /\ steps = [t \in Turns |-> 0]
    /\ followup = [t \in Turns |-> NoTurn]
    /\ hits = [t \in Turns |-> 0]
    /\ queue = [t \in Turns |-> <<>>]
    /\ hand = [t \in Turns |-> <<>>]
    /\ took = [t \in Turns |-> {}]
    /\ unstored = {}
    /\ copies = [m \in Msgs |-> 0]
    /\ lastUser = <<>>
    /\ open = {}
    /\ req = [m \in Msgs |-> "new"]
    /\ carried = [m \in Msgs |-> <<>>]
    /\ target = [m \in Msgs |-> NoTurn]
    /\ waiting = <<>>

-----------------------------------------------------------------------------
(* Looking turns up, starting and finishing them.                          *)

\* latest_for(): the newest turn, unless it was garbage collected.
Cur == IF latest \in known THEN latest ELSE NoTurn
Busy(st) == Cur # NoTurn /\ st[Cur] = "running"

\* What start() sees after _gc() dropped the expired turns.
CurAfterGc == IF latest \in known \ expired THEN latest ELSE NoTurn

\* start() when it does not raise.  st and tk are the statuses and tasks at the
\* call: a caller may have finished a turn in the same step.
StartTurn(texts, st, tk) ==
    LET n == count + 1 IN
    /\ n \in Turns
    /\ count' = n
    /\ latest' = n
    /\ known' = (known \ expired) \cup {n}
    /\ message' = [message EXCEPT ![n] = texts]
    /\ orphanOf' = [orphanOf EXCEPT ![n] =
           IF CurAfterGc # NoTurn /\ st[CurAfterGc] = "error" /\ ~out[CurAfterGc]
           THEN CurAfterGc ELSE NoTurn]
    /\ status' = [st EXCEPT ![n] = "running"]
    /\ task' = [tk EXCEPT ![n] = "created"]

\* Turn.finish() by the turn's own task, which returns right after it.
FinishAndEnd(t, s) ==
    /\ accepting' = [accepting EXCEPT ![t] = FALSE]
    /\ status' = [status EXCEPT ![t] = s]
    /\ task' = [task EXCEPT ![t] = "ended"]

\* task.cancel() on a set of turns; it does nothing to a task that has ended.
Cancel(ts) ==
    LET hit == {t \in ts : task[t] # "ended"} IN
    /\ \A t \in hit : hits[t] < MaxHits
    /\ cancel' = [t \in Turns |-> cancel[t] \/ t \in hit]
    /\ hits' = [t \in Turns |-> IF t \in hit THEN hits[t] + 1 ELSE hits[t]]

-----------------------------------------------------------------------------
(* Requests of the clients.                                                *)

StartFor(m) ==
    /\ req' = [req EXCEPT ![m] = "started"]
    /\ StartTurn(<<m>>, status, task)
    /\ UNCHANGED <<expired, retries, cancel, accepting, out, steps, followup, hits,
                   mailVars, sessVars, carried, target, waiting>>

\* What a request does when it only changes its own standing.
Answer(m, r) ==
    /\ req' = [req EXCEPT ![m] = r]
    /\ UNCHANGED <<tableVars, taskVars, mailVars, sessVars, carried, target, waiting>>

\* POST /api/turns: 409 while a turn runs.
PostStart_Overtakes(m) == req[m] = "new" /\ StartFor(m)

PostStart(m) ==
    /\ req[m] = "new"
    /\ IF Busy(status) THEN Answer(m, "refused") ELSE StartFor(m)

\* One pass of the loop in enqueue(): queue on the running turn, start a turn
\* when none runs, else sleep and look again.
EnqueuePass(m) ==
    IF ~Busy(status) THEN StartFor(m)
    ELSE IF ~accepting[Cur] THEN Answer(m, "polling")
    ELSE /\ req' = [req EXCEPT ![m] = "queued"]
         /\ queue' = [queue EXCEPT ![Cur] = Append(@, m)]
         /\ took' = [took EXCEPT ![Cur] = @ \cup {m}]
         /\ UNCHANGED <<hand, unstored, tableVars, taskVars, sessVars, carried, target, waiting>>

\* POST /api/turns with ifBusy=queue.
PostQueue(m) == req[m] = "new" /\ EnqueuePass(m)

Closing == Busy(status) /\ ~accepting[Cur]

PollAgain_OnlyQueues(m) == req[m] = "polling" /\ Busy(status) /\ accepting[Cur] /\ EnqueuePass(m)

PollAgain(m) == req[m] = "polling" /\ ~Closing /\ EnqueuePass(m)

\* The hundredth look still finds the turn closing: RuntimeError, 409.
PollGivesUp(m) == req[m] = "polling" /\ Closing /\ Answer(m, "refused")

\* POST /api/turns with ifBusy=interrupt, up to the wait for the stopped task.
PostInterrupt(m) ==
    /\ req[m] = "new"
    /\ IF ~Busy(status) THEN StartFor(m)
       ELSE /\ req' = [req EXCEPT ![m] = "stopping"]
            /\ target' = [target EXCEPT ![m] = Cur]
            /\ waiting' = Append(waiting, m)
            /\ carried' = [carried EXCEPT ![m] = queue[Cur]]
            /\ queue' = [queue EXCEPT ![Cur] = <<>>]
            /\ accepting' = [accepting EXCEPT ![Cur] = FALSE]
            /\ Cancel({Cur})
            /\ UNCHANGED <<tableVars, status, task, out, steps, followup, hand, took, unstored, sessVars>>

\* Waiters of one task resume in the order they began to wait.
FirstToResume(m, i) ==
    waiting[i] = m /\ \A j \in DOMAIN waiting : j < i => target[waiting[j]] # target[m]

WaitOver_NoWait(t) == TRUE

\* The wait of a send-now is over: the task ended, or 15 s went by while the
\* run was still unwinding.
WaitOver(t) == task[t] = "ended" \/ (Stubborn /\ task[t] \in {"gen", "tool", "closing"})

\* ... and from the wait's end.  The turn may still read "running" (the
\* done-callback lags, or the wait timed out): it is finished as aborted here.
\* start() raises when another request was faster.
ResumeInterrupt(m, checked) ==
    LET t == target[m]
        st == IF status[t] = "running" THEN [status EXCEPT ![t] = "aborted"] ELSE status
    IN
    /\ req[m] = "stopping" /\ WaitOver(t)
    /\ \E i \in DOMAIN waiting : FirstToResume(m, i) /\ waiting' = Without(waiting, i)
    /\ IF checked /\ Busy(st)
       THEN /\ req' = [req EXCEPT ![m] = "refused"]
            /\ status' = st
            /\ UNCHANGED <<tableVars, task, carried>>
       ELSE /\ req' = [req EXCEPT ![m] = "started"]
            /\ carried' = [carried EXCEPT ![m] = <<>>]
            /\ StartTurn(Append(carried[m], m), st, task)
            /\ UNCHANGED <<expired, retries>>
    /\ UNCHANGED <<cancel, accepting, out, steps, followup, hits, mailVars, sessVars, target>>

InterruptGoesOn_Unchecked(m) == ResumeInterrupt(m, FALSE)

InterruptGoesOn(m) == ResumeInterrupt(m, TRUE)

\* DELETE /api/turns/{turn}/queue/{item}: succeeds while the text is queued.
Withdraw(m, t) ==
    /\ t \in known
    /\ \E i \in DOMAIN queue[t] :
          queue[t][i] = m /\ queue' = [queue EXCEPT ![t] = Without(@, i)]
    /\ req' = [req EXCEPT ![m] = "withdrawn"]
    /\ UNCHANGED <<tableVars, taskVars, hand, took, unstored, sessVars, carried, target, waiting>>

\* POST /api/turns/{turn}/abort.
Abort(t) ==
    /\ t \in known /\ status[t] = "running"
    /\ Cancel({t})
    /\ UNCHANGED <<tableVars, status, task, accepting, out, steps, followup, mailVars, sessVars, reqVars>>

\* The middleware ahead of DELETE .../sessions/{id}: stop every running turn.
AbortSession ==
    LET running == {t \in known : status[t] = "running"} IN
    /\ running # {}
    /\ Cancel(running)
    /\ UNCHANGED <<tableVars, status, task, accepting, out, steps, followup, mailVars, sessVars, reqVars>>

RetryLast_Anytime ==
    /\ retries < MaxRetries
    /\ Cur # NoTurn
    /\ retries' = retries + 1
    /\ StartTurn(message[Cur], status, task)
    /\ UNCHANGED <<expired, cancel, accepting, out, steps, followup, hits, mailVars, sessVars, reqVars>>

\* POST /api/turns/retry-last: the latest turn's message again, if it failed.
RetryLast ==
    /\ retries < MaxRetries
    /\ Cur # NoTurn /\ status[Cur] = "error"
    /\ retries' = retries + 1
    /\ StartTurn(message[Cur], status, task)
    /\ UNCHANGED <<expired, cancel, accepting, out, steps, followup, hits, mailVars, sessVars, reqVars>>

\* Ten minutes pass after a turn's end; the next start() forgets the turn.
Expire(t) ==
    /\ Cardinality(expired) < MaxExpired
    /\ t \in known \ expired /\ status[t] \in Terminal
    /\ expired' = expired \cup {t}
    /\ UNCHANGED <<count, latest, known, retries, message, orphanOf,
                   taskVars, mailVars, sessVars, reqVars>>

-----------------------------------------------------------------------------
(* The task of a turn: _drive, and the agent run inside it.                *)

\* The task may go on: it was not cancelled since it was suspended at p.
At(t, p) == task[t] = p /\ ~cancel[t]
GoTo(t, p) == task' = [task EXCEPT ![t] = p]

\* The task's first step, up to `await get_runner`.
Begin(t) ==
    /\ At(t, "created")
    /\ GoTo(t, "begin")
    /\ UNCHANGED <<tableVars, status, cancel, accepting, out, steps, followup, hits,
                   mailVars, sessVars, reqVars>>

Prunes_AnyOrphan(t) == orphanOf[t] # NoTurn

\* The failed turn's event goes only when it is still the session's last one and
\* carries the same texts.
Prunes(t) == orphanOf[t] # NoTurn /\ lastUser # <<>> /\ lastUser = message[orphanOf[t]]

\* _prune_orphan, then run_async stores the turn's message.
PruneAndStore(t) ==
    LET pruned == IF Prunes(t) THEN Texts(message[orphanOf[t]]) ELSE {}
        kept == [m \in Msgs |-> IF m \in pruned THEN copies[m] - 1 ELSE copies[m]]
    IN
    /\ At(t, "begin")
    /\ GoTo(t, "model")
    /\ copies' = [m \in Msgs |-> IF m \in Texts(message[t]) THEN kept[m] + 1 ELSE kept[m]]
    /\ lastUser' = message[t]
    /\ UNCHANGED <<tableVars, status, cancel, accepting, out, steps, followup, hits,
                   open, mailVars, reqVars>>

TakeQueue_Copies(t) ==
    /\ At(t, "model") /\ steps[t] < MaxSteps
    /\ queue[t] # <<>>
    /\ GoTo(t, "drain")
    /\ hand' = [hand EXCEPT ![t] = queue[t]]
    /\ UNCHANGED <<tableVars, status, cancel, accepting, out, steps, followup, hits,
                   queue, took, unstored, sessVars, reqVars>>

\* before_model_callback takes the queue -- unless a specialist holds control.
TakeQueue(t) ==
    /\ At(t, "model") /\ steps[t] < MaxSteps
    /\ queue[t] # <<>>
    /\ GoTo(t, "drain")
    /\ hand' = [hand EXCEPT ![t] = queue[t]]
    /\ queue' = [queue EXCEPT ![t] = <<>>]
    /\ UNCHANGED <<tableVars, status, cancel, accepting, out, steps, followup, hits,
                   took, unstored, sessVars, reqVars>>

\* _deliver stores one text as a user event of the running invocation.
Deliver(t) ==
    /\ At(t, "drain")
    /\ copies' = [copies EXCEPT ![Head(hand[t])] = @ + 1]
    /\ lastUser' = <<>>
    /\ hand' = [hand EXCEPT ![t] = Tail(@)]
    /\ IF Len(hand[t]) = 1
       THEN GoTo(t, "gen") /\ steps' = [steps EXCEPT ![t] = @ + 1]
       ELSE UNCHANGED <<task, steps>>
    /\ UNCHANGED <<tableVars, status, cancel, accepting, out, followup, hits,
                   queue, took, unstored, open, reqVars>>

\* append_event raised: the callback gives up on what it holds and the model
\* call goes on.
DeliveryFails(t) ==
    /\ StorageFails
    /\ At(t, "drain")
    /\ hand' = [hand EXCEPT ![t] = <<>>]
    /\ unstored' = unstored \cup {t}
    /\ GoTo(t, "gen")
    /\ steps' = [steps EXCEPT ![t] = @ + 1]
    /\ UNCHANGED <<tableVars, status, cancel, accepting, out, followup, hits,
                   queue, took, sessVars, reqVars>>

\* A model step that leaves the queue alone: it is empty, or the agent that
\* speaks is not the coordinator.
CallModel(t) ==
    /\ At(t, "model") /\ steps[t] < MaxSteps
    /\ GoTo(t, "gen")
    /\ steps' = [steps EXCEPT ![t] = @ + 1]
    /\ UNCHANGED <<tableVars, status, cancel, accepting, out, followup, hits,
                   mailVars, sessVars, reqVars>>

\* The model calls a tool; the event is stored and pushed before the tool runs.
CallTool(t) ==
    /\ At(t, "gen")
    /\ GoTo(t, "tool")
    /\ out' = [out EXCEPT ![t] = TRUE]
    /\ open' = open \cup {t}
    /\ lastUser' = <<>>
    /\ UNCHANGED <<tableVars, status, cancel, accepting, steps, followup, hits,
                   mailVars, copies, reqVars>>

ToolReturns(t) ==
    /\ At(t, "tool")
    /\ GoTo(t, IF steps[t] < MaxSteps THEN "model" ELSE "reply")
    /\ open' = open \ {t}
    /\ UNCHANGED <<tableVars, status, cancel, accepting, out, steps, followup, hits,
                   mailVars, copies, lastUser, reqVars>>

\* The model speaks; the round ends after one more suspension.
Reply(t) ==
    /\ At(t, "gen")
    /\ GoTo(t, "reply")
    /\ out' = [out EXCEPT ![t] = TRUE]
    /\ lastUser' = <<>>
    /\ UNCHANGED <<tableVars, status, cancel, accepting, steps, followup, hits,
                   mailVars, copies, open, reqVars>>

\* The round left a handback dangling: _drive continues with one more round.
AutoContinue(t) ==
    /\ At(t, "reply") /\ steps[t] < MaxSteps
    /\ GoTo(t, "model")
    /\ lastUser' = <<>>
    /\ UNCHANGED <<tableVars, status, cancel, accepting, out, steps, followup, hits,
                   mailVars, copies, open, reqVars>>

FinishDone_NoSweep(t) ==
    /\ At(t, "reply")
    /\ FinishAndEnd(t, "done")
    /\ UNCHANGED <<tableVars, cancel, out, steps, followup, hits, mailVars, sessVars, reqVars>>

FinishDone_NoFollowup(t) ==
    /\ At(t, "reply")
    /\ FinishAndEnd(t, "done")
    /\ queue' = [queue EXCEPT ![t] = <<>>]
    /\ UNCHANGED <<tableVars, cancel, out, steps, followup, hits, hand, took, unstored, sessVars, reqVars>>

\* The leftover sweep: stop accepting, take the queue, finish, and start the
\* follow-up turn -- or, if another turn runs, add the texts to its queue.
FinishDone(t) ==
    LET left == queue[t]
        st == [status EXCEPT ![t] = "done"]
        tk == [task EXCEPT ![t] = "ended"]
    IN
    /\ At(t, "reply")
    /\ accepting' = [accepting EXCEPT ![t] = FALSE]
    /\ IF left = <<>>
       THEN /\ status' = st /\ task' = tk
            /\ UNCHANGED <<tableVars, followup, queue, took>>
       ELSE IF Busy(st)
       THEN /\ status' = st /\ task' = tk
            /\ queue' = [queue EXCEPT ![t] = <<>>, ![Cur] = @ \o left]
            /\ took' = [took EXCEPT ![Cur] = @ \cup Texts(left)]
            /\ followup' = [followup EXCEPT ![t] = Cur]
            /\ UNCHANGED tableVars
       ELSE /\ StartTurn(left, st, tk)
            /\ queue' = [queue EXCEPT ![t] = <<>>]
            /\ followup' = [followup EXCEPT ![t] = count + 1]
            /\ UNCHANGED <<expired, retries, took>>
    /\ UNCHANGED <<cancel, out, steps, hits, hand, unstored, sessVars, reqVars>>

\* An exception out of get_runner or the run: Turn.finish("error").
RunRaises(t) ==
    /\ \E p \in {"begin", "model", "gen", "tool", "reply"} : At(t, p)
    /\ FinishAndEnd(t, "error")
    /\ UNCHANGED <<tableVars, cancel, out, steps, followup, hits, mailVars, sessVars, reqVars>>

\* The run's last event is a model error: finish("error") without a sweep.
ErrorEvent(t) ==
    /\ At(t, "gen")
    /\ FinishAndEnd(t, "error")
    /\ out' = [out EXCEPT ![t] = TRUE]
    /\ lastUser' = <<>>
    /\ UNCHANGED <<tableVars, cancel, steps, followup, hits, mailVars, copies, open, reqVars>>

-----------------------------------------------------------------------------
(* Cancellation.                                                           *)

\* Cancelled before its first step: the body of _drive never runs.
CancelledUnborn(t) ==
    /\ task[t] = "created" /\ cancel[t]
    /\ GoTo(t, "ended")
    /\ cancel' = [cancel EXCEPT ![t] = FALSE]
    /\ UNCHANGED <<tableVars, status, accepting, out, steps, followup, hits,
                   mailVars, sessVars, reqVars>>

CancelSeen_LeavesCall(t) ==
    /\ task[t] \in {"begin", "model", "drain", "gen", "tool", "reply"} /\ cancel[t]
    /\ cancel' = [cancel EXCEPT ![t] = FALSE]
    /\ hand' = [hand EXCEPT ![t] = <<>>]
    /\ FinishAndEnd(t, "aborted")
    /\ UNCHANGED <<tableVars, out, steps, followup, hits, queue, took, unstored, sessVars, reqVars>>

\* CancelledError at a suspension point of the run.  With a tool call pending
\* the handler first answers it, otherwise it finishes at once.  What the
\* mid-turn callback held in its local variable goes with its frame.
CancelSeen(t) ==
    /\ task[t] \in {"begin", "model", "drain", "gen", "tool", "reply"} /\ cancel[t]
    /\ cancel' = [cancel EXCEPT ![t] = FALSE]
    /\ hand' = [hand EXCEPT ![t] = <<>>]
    /\ IF t \in open
       THEN GoTo(t, "closing") /\ UNCHANGED <<status, accepting>>
       ELSE FinishAndEnd(t, "aborted")
    /\ UNCHANGED <<tableVars, out, steps, followup, hits, queue, took, unstored, sessVars, reqVars>>

\* _close_interrupted_calls stores the answers, then finish("aborted").
CloseCalls(t) ==
    /\ At(t, "closing")
    /\ open' = open \ {t}
    /\ FinishAndEnd(t, "aborted")
    /\ UNCHANGED <<tableVars, cancel, out, steps, followup, hits, mailVars, copies, lastUser, reqVars>>

\* get_session or append_event raises, or the session is gone: the call stays
\* open, and the turn finishes all the same.
CloseFails(t) ==
    /\ StorageFails
    /\ At(t, "closing")
    /\ unstored' = unstored \cup {t}
    /\ FinishAndEnd(t, "aborted")
    /\ UNCHANGED <<tableVars, cancel, out, steps, followup, hits, queue, hand, took, sessVars, reqVars>>

\* A second cancellation while the answers are being stored escapes _drive.
CancelledClosing(t) ==
    /\ task[t] = "closing" /\ cancel[t]
    /\ cancel' = [cancel EXCEPT ![t] = FALSE]
    /\ GoTo(t, "ended")
    /\ UNCHANGED <<tableVars, status, accepting, out, steps, followup, hits,
                   mailVars, sessVars, reqVars>>

OnDone_Always(t) ==
    /\ task[t] = "ended" /\ status[t] # "aborted"
    /\ status' = [status EXCEPT ![t] = "aborted"]
    /\ accepting' = [accepting EXCEPT ![t] = FALSE]
    /\ UNCHANGED <<tableVars, task, cancel, out, steps, followup, hits, mailVars, sessVars, reqVars>>

OnDone_Never(t) == FALSE /\ UNCHANGED vars

\* _on_done: a task that ended without recording a terminal state.
OnDone(t) ==
    /\ task[t] = "ended" /\ status[t] = "running"
    /\ status' = [status EXCEPT ![t] = "aborted"]
    /\ accepting' = [accepting EXCEPT ![t] = FALSE]
    /\ UNCHANGED <<tableVars, task, cancel, out, steps, followup, hits, mailVars, sessVars, reqVars>>

-----------------------------------------------------------------------------
\* A request, or the passing of time.
Client ==
    \/ \E m \in Msgs : PostStart(m) \/ PostQueue(m) \/ PostInterrupt(m)
    \/ \E m \in Msgs, t \in Turns : Withdraw(m, t)
    \/ \E t \in Turns : Abort(t) \/ Expire(t)
    \/ AbortSession
    \/ RetryLast

\* A request that is already inside the broker goes on.
Resume(m) == PollAgain(m) \/ PollGivesUp(m) \/ InterruptGoesOn(m)

Cancelled(t) == CancelledUnborn(t) \/ CancelSeen(t) \/ CancelledClosing(t)

\* The event loop runs the task of turn t, or its done-callback.
Drive(t) ==
    \/ Begin(t) \/ PruneAndStore(t)
    \/ TakeQueue(t) \/ Deliver(t) \/ DeliveryFails(t) \/ CallModel(t)
    \/ CallTool(t) \/ ToolReturns(t) \/ Reply(t) \/ AutoContinue(t)
    \/ FinishDone(t) \/ RunRaises(t) \/ ErrorEvent(t)
    \/ CloseCalls(t) \/ CloseFails(t) \/ Cancelled(t) \/ OnDone(t)

Next ==
    \/ Client
    \/ \E m \in Msgs : Resume(m)
    \/ \E t \in Turns : Drive(t)

Spec == Init /\ [][Next]_vars

\* The event loop is fair to every task and to every waiting request; the run
\* itself ends because its model steps are bounded.
Fairness ==
    /\ \A t \in Turns : WF_vars(Drive(t))
    /\ \A m \in Msgs : WF_vars(Resume(m))

FairSpec == Spec /\ Fairness

-----------------------------------------------------------------------------
(* Properties.                                                             *)

TableOK ==
    /\ count \in 0..MaxTurns /\ latest \in 0..MaxTurns
    /\ known \subseteq Turns /\ expired \subseteq Turns
    /\ retries \in 0..MaxRetries
    /\ message \in [Turns -> Seq(Msgs)]
    /\ orphanOf \in [Turns -> 0..MaxTurns]
TaskOK ==
    /\ status \in [Turns -> Statuses]
    /\ task \in [Turns -> Phases]
    /\ cancel \in [Turns -> BOOLEAN]
    /\ accepting \in [Turns -> BOOLEAN]
    /\ out \in [Turns -> BOOLEAN]
    /\ steps \in [Turns -> 0..MaxSteps]
    /\ followup \in [Turns -> 0..MaxTurns]
    /\ hits \in [Turns -> 0..MaxHits]
MailOK ==
    /\ queue \in [Turns -> Seq(Msgs)]
    /\ hand \in [Turns -> Seq(Msgs)]
    /\ took \in [Turns -> SUBSET Msgs]
    /\ unstored \subseteq Turns
SessOK ==
    /\ copies \in [Msgs -> Nat]
    /\ lastUser \in Seq(Msgs)
    /\ open \subseteq Turns
ReqOK ==
    /\ req \in [Msgs -> Requests]
    /\ carried \in [Msgs -> Seq(Msgs)]
    /\ target \in [Msgs -> 0..MaxTurns]
    /\ waiting \in Seq(Msgs)

\* Every variable keeps its type; in particular a history count never gets
\* negative, so that a prune only removes an event that is there.
TypeOK == TableOK /\ TaskOK /\ MailOK /\ SessOK /\ ReqOK

\* "Single-flight per session": of all turns ever created only the newest one
\* can be running, whatever order starts, interrupts, follow-ups and retries
\* come in, and its queue is the only one a follow-up can be added to.
SingleFlight ==
    \A t \in Turns : status[t] = "running" => t = count /\ t = Cur

\* Only one task at a time drives the agent on a session.  It needs ~Stubborn: a
\* send-now that waited 15 s in vain starts its turn beside the task it gave up.
OneDriver ==
    \A t, u \in Turns :
        task[t] \notin {"none", "ended"} /\ task[u] \notin {"none", "ended"} => t = u

\* A message never sits in a queue nobody will read: a turn that ended "done"
\* has an empty queue, and a queued text is on a turn that still runs or that
\* ended in a way whose snapshot hands it back to the client.
NoUnreadQueue ==
    \A t \in Turns : queue[t] # <<>> => status[t] \in {"running", "error", "aborted"}

\* A turn that ends "done" loses none of the texts that were ever queued on it:
\* each is in the history, was withdrawn, or is in the follow-up turn's message.
\* A turn whose plugin met a failing append is left out: it may have lost texts.
DoneLosesNothing ==
    \A t \in Turns : status[t] = "done" /\ t \notin unstored =>
        \A m \in took[t] :
            \/ copies[m] > 0
            \/ req[m] = "withdrawn"
            \/ followup[t] # NoTurn /\ m \in Texts(message[followup[t]])

\* A withdrawal the server confirmed holds: the text is in no queue, in no
\* plugin's hands, in no turn's message and not in the history.
WithdrawnIsGone ==
    \A m \in Msgs : req[m] = "withdrawn" =>
        /\ copies[m] = 0
        /\ \A t \in Turns : m \notin Texts(queue[t]) \cup Texts(hand[t]) \cup Texts(message[t])
        /\ \A n \in Msgs : m \notin Texts(carried[n])

\* The orphan prune takes back only what the model never spoke to: the texts of
\* a turn that produced model output are in the history for good, whatever is
\* retried, pruned and retried again after it.
AnsweredStays ==
    \A t \in Turns : out[t] => \A m \in Texts(message[t]) : copies[m] > 0

\* Every tool call that a stop cut off is answered before the turn ends, so that
\* the next model request is accepted.  Two ways are left in which a stopped turn
\* ends with its call open: a second stop hit the answering itself, or the storage
\* failed under it and the failure was swallowed.
StoppedOnceIsAnswered ==
    \A t \in Turns : status[t] = "aborted" /\ t \in open => hits[t] >= 2 \/ t \in unstored

\* "carried in front of the new message rather than dropped": a send-now that
\* took over queued texts and then fails has lost none of them.
CarriedNotDropped ==
    \A m \in Msgs : req[m] = "refused" =>
        \A i \in DOMAIN carried[m] : copies[carried[m][i]] > 0

\* "Each drained message is persisted as an ordinary user event": what the plugin
\* of a running turn no longer holds is in the history, but for the one text whose
\* own append failed.
DrainedIsPersisted ==
    [][\A t \in Turns : status'[t] = "running" =>
          \A m \in Texts(hand[t]) \ Texts(hand'[t]) : copies'[m] > 0 \/ m = Head(hand[t])]_vars

\* "prune it first so the transcript doesn't grow a duplicate": a text is twice
\* in the history only if a turn that carried it got as far as model output.
NoDuplicate ==
    \A m \in Msgs :
        copies[m] <= 1 + Cardinality({t \in Turns : out[t] /\ m \in Texts(message[t])})

\* Terminal states are final: a turn whose end was recorded is never reported
\* with another end, although its task may still be unwinding.
TerminalIsFinal ==
    [][\A t \in Turns : status[t] \in Terminal => status'[t] = status[t]]_vars

\* The broker implements the session's turn slot: ordered creation, one running
\* turn, and an end that is recorded once.
Slot == INSTANCE TurnSlot WITH life <- status
ImplementsSlot == Slot!SlotSpec

\* Every started turn reaches a terminal state.
TurnsEnd == \A t \in Turns : status[t] = "running" ~> status[t] \in Terminal

\* Every request that waits inside the broker is answered.
RequestsEnd == \A m \in Msgs : req[m] \in {"polling", "stopping"} ~> req[m] \notin {"polling", "stopping"}

=============================================================================
