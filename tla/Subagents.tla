----------------------------- MODULE Subagents ------------------------------
(***************************************************************************)
(* The explorers of one session (tools/subagents.py): spawn_explorers      *)
(* starts background tasks, collect_explorers waits for some of them, a    *)
(* semaphore caps how many run, a deadline ends each, and what is left is  *)
(* cancelled when the turn ends or the session is deleted.                 *)
(*                                                                         *)
(* The tool calls of one model response run concurrently, so two collects  *)
(* may overlap.  A collect holds on to the bucket it found in _REGISTRY    *)
(* while it waits; _REGISTRY may hold another one when it resumes.         *)
(***************************************************************************)
EXTENDS Naturals, FiniteSets

CONSTANTS
    Kids,      \* explorers that may be spawned
    Calls,     \* calls of collect_explorers under way at a time
    Slots,     \* ADK_CC_SUBAGENTS_MAX
    MaxTurns   \* bound: turns (invocations) of the session

ASSUME SubagentsAssumption == Slots \in Nat \ {0} /\ MaxTurns \in Nat

VARIABLES
    kid,        \* [Kids -> its asyncio task]
    spawner,    \* [Kids -> the turn that spawned it], 0 before
    buckets,    \* the buckets there have been; a bucket is a set of explorers
    registered, \* _REGISTRY[session]: an index into buckets, 0 when there is none
    call,       \* [Calls -> the collect under way]
    turnNr,     \* the newest turn
    turnState,  \* "none", "running", "ended" (after_run ran), "stopped" (it did not)
    reports,    \* history variable: [Kids -> how often it was reported]
    overlapped, \* history variable: two collects have been under way at once
    strayed     \* history variable: a turn was stopped and left explorers behind

subVars == <<kid, spawner, buckets, registered, call, turnNr, turnState, reports,
             overlapped, strayed>>

NoCall == [at |-> "none", bucket |-> 0, of |-> {}, mode |-> "all", timed |-> FALSE]

SubInit ==
    /\ kid = [k \in Kids |-> "unborn"] /\ spawner = [k \in Kids |-> 0]
    /\ buckets = <<>> /\ registered = 0
    /\ call = [c \in Calls |-> NoCall]
    /\ turnNr = 0 /\ turnState = "none"
    /\ reports = [k \in Kids |-> 0] /\ overlapped = FALSE /\ strayed = FALSE

TaskDone(k) == kid[k] \in {"done", "cancelled"}
Live(k) == kid[k] \in {"queued", "running", "cancelling"}
\* cancel() asks; the task unwinds later.
AfterCancel(ks) == [k \in Kids |-> IF k \in ks /\ Live(k) THEN "cancelling" ELSE kid[k]]

InBucket(b) == IF b = 0 THEN {} ELSE buckets[b]
WithoutIn(b, ks) == IF b = 0 THEN buckets ELSE [buckets EXCEPT ![b] = @ \ ks]

-----------------------------------------------------------------------------
(* The turn.                                                               *)

BeginTurn ==
    /\ turnState # "running" /\ turnNr < MaxTurns
    /\ turnNr' = turnNr + 1 /\ turnState' = "running"
    /\ UNCHANGED <<kid, spawner, buckets, registered, call, reports, overlapped, strayed>>

\* cancel_children, for one turn's explorers or for all of them.
CancelChildren_KeepsTasks(ks) ==
    /\ UNCHANGED kid
    /\ buckets' = WithoutIn(registered, ks)
    /\ registered' = IF InBucket(registered) \ ks = {} THEN 0 ELSE registered

CancelChildren(ks) ==
    /\ kid' = AfterCancel(ks \cap InBucket(registered))
    /\ buckets' = WithoutIn(registered, ks)
    /\ registered' = IF InBucket(registered) \ ks = {} THEN 0 ELSE registered

\* after_run_callback, once no tool call is under way.
EndTurn ==
    /\ turnState = "running" /\ \A c \in Calls : call[c].at = "none"
    /\ turnState' = "ended"
    /\ CancelChildren({k \in Kids : spawner[k] = turnNr})
    /\ UNCHANGED <<spawner, call, turnNr, reports, overlapped, strayed>>

\* Stop, or a model error: the collects are cancelled, after_run does not run.
StopTurn ==
    /\ turnState = "running" /\ turnState' = "stopped"
    /\ call' = [c \in Calls |-> NoCall]
    /\ strayed' = (strayed \/ \E k \in InBucket(registered) : Live(k))
    /\ UNCHANGED <<kid, spawner, buckets, registered, turnNr, reports, overlapped>>

\* abort_session of a delete.
DeleteTurn ==
    /\ turnState' = IF turnState = "running" THEN "stopped" ELSE turnState
    /\ turnState # "none"
    /\ call' = [c \in Calls |-> NoCall]
    /\ CancelChildren(Kids)
    /\ UNCHANGED <<spawner, turnNr, reports, overlapped, strayed>>

-----------------------------------------------------------------------------
(* spawn_explorers.                                                        *)

Spawn(ks) ==
    /\ turnState = "running" /\ ks # {} /\ \A k \in ks : kid[k] = "unborn"
    /\ kid' = [k \in Kids |-> IF k \in ks THEN "queued" ELSE kid[k]]
    /\ spawner' = [k \in Kids |-> IF k \in ks THEN turnNr ELSE spawner[k]]
    /\ IF registered = 0
       THEN /\ registered' = Cardinality(DOMAIN buckets) + 1
            /\ buckets' = [b \in 1 .. registered' |-> IF b = registered' THEN ks ELSE buckets[b]]
       ELSE /\ buckets' = [buckets EXCEPT ![registered] = @ \cup ks]
            /\ UNCHANGED registered
    /\ UNCHANGED <<call, turnNr, turnState, reports, overlapped, strayed>>

-----------------------------------------------------------------------------
(* The explorer: waits for the semaphore, runs, ends or fails (both are    *)
(* results), or is stopped by its deadline, which counts from the spawn.   *)

KidIs(k, st) == kid' = [kid EXCEPT ![k] = st]
KidKeeps == UNCHANGED <<spawner, buckets, registered, call, turnNr, turnState, reports,
                        overlapped, strayed>>

Holders == {k \in Kids : kid[k] = "running"}

Acquire(k) == kid[k] = "queued" /\ Cardinality(Holders) < Slots /\ KidIs(k, "running") /\ KidKeeps
Explore(k) == kid[k] = "running" /\ KidIs(k, "done") /\ KidKeeps

Deadline_OnceStarted(k) == kid[k] = "running" /\ KidIs(k, "done") /\ KidKeeps
Deadline(k) == kid[k] \in {"queued", "running"} /\ KidIs(k, "done") /\ KidKeeps
Unwind(k) == kid[k] = "cancelling" /\ KidIs(k, "cancelled") /\ KidKeeps

-----------------------------------------------------------------------------
(* collect_explorers.                                                      *)

\* The explorers of the call that asyncio.wait would have to wait for.
Pending(c) == {k \in c.of : ~TaskDone(k)}
MayReturn(c) ==
    \/ Pending(c) = {}
    \/ c.mode = "first_done" /\ Pending(c) # c.of
    \/ c.timed

\* It reports what is done, takes it out of its bucket, cancels the rest when it was
\* told to, and forgets the session's bucket when ITS bucket is empty.
Popped_Nothing(c) == {}
Popped(c) == c.of \ Pending(c)

RegisteredAfter_None(b) == 0
RegisteredAfter(b) == IF buckets'[b] = {} THEN 0 ELSE registered

Return(c, discard) ==
    LET dropped == IF discard THEN Pending(c) \cap InBucket(c.bucket) ELSE {} IN
    /\ reports' = [k \in Kids |-> IF k \in c.of \ Pending(c) THEN reports[k] + 1 ELSE reports[k]]
    /\ buckets' = WithoutIn(c.bucket, Popped(c) \cup dropped)
    /\ kid' = AfterCancel(dropped)
    /\ registered' = RegisteredAfter(c.bucket)

Asked(of, mode, timed) ==
    [at |-> "waiting", bucket |-> registered, of |-> of, mode |-> mode, timed |-> timed]

\* Ids that are not in the bucket are passed over; with none left it answers at once.
Collect(c) ==
    /\ turnState = "running" /\ call[c].at = "none"
    /\ \E of \in (SUBSET InBucket(registered)) \ {{}}, mode \in {"all", "first_done"}, timed \in BOOLEAN :
         LET asked == Asked(of, mode, timed) IN
         \/ /\ MayReturn([asked EXCEPT !.timed = FALSE])
            /\ \E discard \in BOOLEAN : Return(asked, discard)
            /\ UNCHANGED call
         \/ /\ ~MayReturn([asked EXCEPT !.timed = FALSE])
            /\ call' = [call EXCEPT ![c] = asked]
            /\ UNCHANGED <<kid, buckets, registered, reports>>
    /\ overlapped' = (overlapped \/ \E d \in Calls : call[d].at # "none")
    /\ UNCHANGED <<spawner, turnNr, turnState, strayed>>

Collected(c) ==
    /\ call[c].at = "waiting" /\ MayReturn(call[c])
    /\ \E discard \in BOOLEAN : Return(call[c], discard)
    /\ call' = [call EXCEPT ![c] = NoCall]
    /\ UNCHANGED <<spawner, turnNr, turnState, overlapped, strayed>>

-----------------------------------------------------------------------------

SubNext ==
    \/ BeginTurn \/ EndTurn \/ StopTurn \/ DeleteTurn
    \/ \E ks \in SUBSET Kids : Spawn(ks)
    \/ \E k \in Kids : Acquire(k) \/ Explore(k) \/ Deadline(k) \/ Unwind(k)
    \/ \E c \in Calls : Collect(c) \/ Collected(c)

\* The event loop wakes a collect whose wait is over, the timer of a deadline fires and
\* a cancelled task unwinds.  Nothing says that an explorer ends by itself.
SubFairness ==
    /\ \A k \in Kids : WF_subVars(Deadline(k)) /\ WF_subVars(Unwind(k))
    /\ \A c \in Calls : WF_subVars(Collected(c))

SubSpec == SubInit /\ [][SubNext]_subVars
SubFairSpec == SubSpec /\ SubFairness

-----------------------------------------------------------------------------
(* Properties.                                                             *)

\* As long as no two collects overlap, an explorer is reported once, however collects
\* with "first_done", time-outs, ids and cancellations follow one another.
ReportedOnce == ~overlapped => \A k \in Kids : reports[k] <= 1

\* As long as no two collects overlap, what a running turn has spawned and neither
\* collected nor discarded is in the session's bucket: it can be collected, it is shown
\* and the end of the turn will find it.
NoneForgotten ==
    ~overlapped => \A k \in Kids :
        /\ turnState = "running" /\ spawner[k] = turnNr /\ reports[k] = 0
        /\ kid[k] \in {"queued", "running", "done"}
        => k \in InBucket(registered)

\* No explorer works on for a turn that ended normally or whose session was deleted: it
\* has been told to stop (while no two collects overlapped and no turn was stopped).
EndLeavesNone ==
    ~overlapped /\ ~strayed /\ turnState # "running" =>
        \A k \in Kids : kid[k] \notin {"queued", "running"}

\* A collect that waits for every explorer, without a time-out, comes back: the deadline
\* counts from the spawn, so neither a stuck explorer nor a full semaphore holds it.
CollectReturns == \A c \in Calls : call[c].at = "waiting" ~> call[c].at = "none"

\* subagents.py:26-29: "a stray explorer must not outlive the turn that spawned it".
\* The Stop button cancels the turn's task only, and after_run does not run then.
StraysDieWithTheTurn ==
    ~overlapped /\ turnState # "running" => \A k \in Kids : kid[k] \notin {"queued", "running"}
=============================================================================
