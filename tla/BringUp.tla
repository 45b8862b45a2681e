------------------------------ MODULE BringUp -------------------------------
(***************************************************************************)
(* The first tool calls of a turn bring the sandbox of their session up    *)
(* (sandbox/backends).  They share one backend object, run concurrently,   *)
(* and some run on an event loop of their own: a script of the code        *)
(* executor has a thread with a private loop, and explorers use the        *)
(* backend of their parent.  Each backend serializes them in its own way:  *)
(*   docker   a threading.Lock, acquired in a worker thread                *)
(*   daytona  an asyncio.Lock per event loop                               *)
(*   service  a threading.Lock, acquired on the event loop                 *)
(* The control plane (Docker daemon, Daytona, sandbox service) is outside. *)
(***************************************************************************)
EXTENDS Naturals, FiniteSets

CONSTANTS
    Tools,       \* calls that need the sandbox
    Loops,       \* event loops they run on
    Backends,    \* backends to explore, of "docker", "daytona", "service"
    MaxTries,    \* _create_max_attempts
    MaxOutages,  \* bound: what goes wrong outside
    MaxDrops     \* bound: calls that are cancelled

ASSUME BringUpAssumption ==
    /\ Backends \subseteq {"docker", "daytona", "service"}
    /\ MaxTries \in Nat \ {0} /\ MaxOutages \in Nat /\ MaxDrops \in Nat

VARIABLES
    backend,  \* the backend of the session
    home,     \* [Tools -> Loops]: the loop the call runs on
    at,       \* [Tools -> where the call stands]
    holder,   \* who holds the threading.Lock, {} or a call
    inside,   \* the calls that hold the asyncio.Lock of their loop
    cached,   \* the box the backend object remembers, 0 for None
    sandbox,  \* the box that has the session's name: its number, state, configuration
    made,     \* boxes made so far
    got,      \* [Tools -> the box the call is dealing with or returned], 0 for none
    tries,    \* [Tools -> attempts to create]
    closing,  \* the box a close() under way is about to remove, 0 for none
    outages, drops

bringVars == <<backend, home, at, holder, inside, cached, sandbox, made, got, tries, closing,
               outages, drops>>

NoBox == [nr |-> 0, is |-> "none", fits |-> TRUE]
Box(n, s) == [nr |-> n, is |-> s, fits |-> TRUE]

\* A box may be left from an earlier boot, stopped, or made under other settings.
BringInit ==
    /\ backend \in Backends /\ home \in [Tools -> Loops]
    /\ at = [c \in Tools |-> "idle"] /\ holder = {} /\ inside = {} /\ cached = 0
    /\ sandbox \in {NoBox} \cup [nr : {1}, is : {"stopped", "running"}, fits : BOOLEAN]
    /\ backend = "service" => sandbox = NoBox
    /\ backend = "daytona" => sandbox.fits
    /\ made = sandbox.nr /\ closing = 0 /\ outages = 0 /\ drops = 0
    /\ got = [c \in Tools |-> 0] /\ tries = [c \in Tools |-> 1]

\* A call blocked in acquire() blocks the thread of its loop, and every call on it.
Blocked(l) == \E c \in Tools : home[c] = l /\ at[c] = "blocked"
At(c, s) == at[c] = s /\ ~Blocked(home[c])

Moves(c, s) == at' = [at EXCEPT ![c] = s]
Takes(c, b) == got' = [got EXCEPT ![c] = b]
Released_LoopLockOnly(c) == inside' = inside \ {c} /\ UNCHANGED holder

Released(c) == holder' = holder \ {c} /\ inside' = inside \ {c}
Outage == outages < MaxOutages /\ outages' = outages + 1

\* The call returns a sandbox, which the backend remembers, or raises; the lock is released.
Returns(c, b) == Moves(c, "returned") /\ Takes(c, b) /\ cached' = b /\ Released(c)
Raises(c) == Moves(c, "raised") /\ Takes(c, 0) /\ Released(c)

-----------------------------------------------------------------------------
(* Getting to the lock.                                                    *)

\* docker: acquire() runs in a worker thread, also when a container is remembered.
AsksForLock(c) ==
    /\ backend = "docker" /\ At(c, "idle") /\ Moves(c, "asking")
    /\ UNCHANGED <<backend, home, holder, inside, cached, sandbox, made, got, tries, closing,
                   outages, drops>>

LockGranted(c) ==
    /\ At(c, "asking") /\ holder = {} /\ holder' = {c} /\ Moves(c, "looking")
    /\ UNCHANGED <<backend, home, inside, cached, sandbox, made, got, tries, closing,
                   outages, drops>>

\* daytona: a remembered sandbox is enough; otherwise the lock of this loop, and the
\* memory is read again under it.
LoopFree(l) == \A d \in inside : home[d] # l

EnsuresWorkspace(c) ==
    /\ backend = "daytona"
    /\ At(c, "idle") \/ (At(c, "queued") /\ LoopFree(home[c]))
    /\ \/ cached # 0 /\ Moves(c, "returned") /\ Takes(c, cached) /\ UNCHANGED inside
       \/ /\ cached = 0 /\ LoopFree(home[c])
          /\ Moves(c, "posting") /\ inside' = inside \cup {c} /\ UNCHANGED got
       \/ cached = 0 /\ ~LoopFree(home[c]) /\ Moves(c, "queued") /\ UNCHANGED <<got, inside>>
    /\ UNCHANGED <<backend, home, holder, cached, sandbox, made, tries, closing, outages,
                   drops>>

\* The lock alone decides; the memory is not read again under it.
EnsuresSession_NoSecondLook(c) ==
    /\ backend = "service"
    /\ At(c, "idle") \/ (at[c] = "blocked" /\ holder = {})
    /\ IF cached # 0 /\ at[c] = "idle"
       THEN Moves(c, "returned") /\ Takes(c, cached) /\ UNCHANGED holder
       ELSE IF holder = {} THEN Moves(c, "posting") /\ holder' = {c} /\ UNCHANGED got
       ELSE Moves(c, "blocked") /\ UNCHANGED <<got, holder>>
    /\ UNCHANGED <<backend, home, inside, cached, sandbox, made, tries, closing, outages,
                   drops>>

\* service: acquire() on the loop.  Nothing is awaited between it and the POST but the
\* token, so a call that gets the lock goes on to the POST.
EnsuresSession(c) ==
    /\ backend = "service"
    /\ At(c, "idle") \/ (at[c] = "blocked" /\ holder = {})
    /\ IF cached # 0 THEN Moves(c, "returned") /\ Takes(c, cached) /\ UNCHANGED holder
       ELSE IF holder = {} THEN Moves(c, "posting") /\ holder' = {c} /\ UNCHANGED got
       ELSE Moves(c, "blocked") /\ UNCHANGED <<got, holder>>
    /\ UNCHANGED <<backend, home, inside, cached, sandbox, made, tries, closing, outages,
                   drops>>

-----------------------------------------------------------------------------
(* docker, under the lock; every step is a call to the daemon in a thread. *)

\* The remembered container is reloaded; if it is not running it is forgotten.
Reloads(c) ==
    /\ At(c, "looking")
    /\ IF cached # 0 /\ sandbox.nr = cached /\ sandbox.is = "running"
       THEN Returns(c, cached)
       ELSE Moves(c, "listing") /\ cached' = 0 /\ UNCHANGED <<got, holder, inside>>
    /\ UNCHANGED <<backend, home, sandbox, made, tries, closing, outages, drops>>

Adopts(c, b) ==
    IF b.fits THEN Returns(c, b.nr)
    ELSE Moves(c, "removing") /\ Takes(c, b.nr) /\ UNCHANGED <<cached, holder, inside>>

ListsByName(c) ==
    /\ At(c, "listing")
    /\ \/ sandbox.is = "running" /\ Adopts(c, sandbox)
       \/ /\ sandbox.is # "running" /\ Takes(c, sandbox.nr)
          /\ Moves(c, IF sandbox.is = "none" THEN "spawning" ELSE "starting")
          /\ UNCHANGED <<cached, holder, inside>>
    /\ UNCHANGED <<backend, home, sandbox, made, tries, closing, outages, drops>>

StartsStopped(c) ==
    /\ At(c, "starting")
    /\ \/ /\ sandbox.nr = got[c] /\ sandbox' = [sandbox EXCEPT !.is = "running"]
          /\ Adopts(c, sandbox) /\ UNCHANGED outages
       \/ /\ IF sandbox.nr = got[c] THEN Outage ELSE UNCHANGED outages
          /\ Moves(c, "discarding") /\ UNCHANGED <<sandbox, got, cached, holder, inside>>
    /\ UNCHANGED <<backend, home, made, tries, closing, drops>>

\* remove() of a container that would not start; it raises when the container is gone.
Discards(c) ==
    /\ At(c, "discarding")
    /\ IF sandbox.nr = got[c]
       THEN sandbox' = NoBox /\ Moves(c, "spawning") /\ UNCHANGED <<got, holder, inside>>
       ELSE Raises(c) /\ UNCHANGED sandbox
    /\ UNCHANGED <<backend, home, cached, made, tries, closing, outages, drops>>

\* remove(force=True) of a container with other settings; its failure is ignored.
RemovesOutdated(c) ==
    /\ At(c, "removing") /\ Moves(c, "spawning")
    /\ \/ sandbox' = (IF sandbox.nr = got[c] THEN NoBox ELSE sandbox) /\ UNCHANGED outages
       \/ sandbox.nr = got[c] /\ Outage /\ UNCHANGED sandbox
    /\ UNCHANGED <<backend, home, holder, inside, cached, made, got, tries, closing, drops>>

\* run(name=...) raises when the name is taken.
Spawns(c) ==
    /\ At(c, "spawning")
    /\ \/ /\ sandbox = NoBox /\ made' = made + 1 /\ sandbox' = Box(made + 1, "running")
          /\ Returns(c, made + 1) /\ UNCHANGED outages
       \/ /\ IF sandbox = NoBox THEN Outage ELSE UNCHANGED outages
          /\ Raises(c) /\ UNCHANGED <<sandbox, made, cached>>
    /\ UNCHANGED <<backend, home, tries, closing, drops>>

-----------------------------------------------------------------------------
(* daytona, under the lock of the loop.                                    *)

\* Out of patience (attempts or total wait), or asleep before the next attempt.
BacksOff(c) ==
    \/ tries[c] < MaxTries /\ Moves(c, "backoff") /\ Takes(c, 0) /\ UNCHANGED <<holder, inside>>
    \/ Raises(c)

\* The name is free: the sandbox is made.  Taken: 409.  No capacity, a rate limit or a
\* 5xx, which may hide that it was made: back off.  A permanent error raises.
PostsSandbox(c) ==
    /\ backend = "daytona" /\ At(c, "posting")
    /\ \/ /\ sandbox = NoBox /\ made' = made + 1 /\ sandbox' = Box(made + 1, "creating")
          /\ Moves(c, "polling") /\ Takes(c, made + 1) /\ UNCHANGED <<holder, inside, outages>>
       \/ /\ sandbox # NoBox /\ Moves(c, "adopting")
          /\ UNCHANGED <<sandbox, made, got, holder, inside, outages>>
       \/ /\ Outage /\ BacksOff(c)
          /\ \/ UNCHANGED <<sandbox, made>>
             \/ sandbox = NoBox /\ made' = made + 1 /\ sandbox' = Box(made + 1, "creating")
    /\ UNCHANGED <<backend, home, cached, tries, closing, drops>>

PostsAgain(c) ==
    /\ At(c, "backoff") /\ Moves(c, "posting") /\ tries' = [tries EXCEPT ![c] = @ + 1]
    /\ UNCHANGED <<backend, home, holder, inside, cached, sandbox, made, got, closing,
                   outages, drops>>

\* After a 409 the sandbox is looked up by name; without one the 409 is raised.
AdoptsByName(c) ==
    /\ At(c, "adopting")
    /\ IF sandbox = NoBox THEN Raises(c)
       ELSE Moves(c, "waking") /\ Takes(c, sandbox.nr) /\ UNCHANGED <<holder, inside>>
    /\ UNCHANGED <<backend, home, cached, sandbox, made, tries, closing, outages, drops>>

\* Best effort: a wake that fails is noticed by the poll.
WakesIfStopped(c) ==
    /\ At(c, "waking") /\ Moves(c, "polling")
    /\ \/ /\ sandbox' = IF sandbox.nr = got[c] /\ sandbox.is = "stopped"
                    THEN [sandbox EXCEPT !.is = "running"] ELSE sandbox
          /\ UNCHANGED outages
       \/ Outage /\ UNCHANGED sandbox
    /\ UNCHANGED <<backend, home, holder, inside, cached, made, got, tries, closing, drops>>

\* The time to start is over, which counts as an outage but is never put off by their bound.
TooLate ==
    /\ sandbox.is = "creating"
    /\ outages' = IF outages <= MaxOutages THEN outages + 1 ELSE outages

\* started: done.  Gone, failed for good, or not started in time: raise.  A 5xx answer to
\* a poll backs off to another create.
PollsUntilStarted(c) ==
    /\ At(c, "polling")
    /\ \/ /\ sandbox.nr = got[c] /\ sandbox.is = "running"
          /\ Returns(c, got[c]) /\ UNCHANGED outages
       \/ /\ sandbox.nr # got[c] \/ sandbox.is = "stopped"
          /\ Raises(c) /\ UNCHANGED <<cached, outages>>
       \/ TooLate /\ Raises(c) /\ UNCHANGED cached
       \/ Outage /\ (BacksOff(c) \/ Raises(c)) /\ UNCHANGED cached
    /\ UNCHANGED <<backend, home, sandbox, made, tries, closing, drops>>

-----------------------------------------------------------------------------
(* service, under the lock: each POST makes a session.                     *)

PostsSession(c) ==
    /\ backend = "service" /\ At(c, "posting")
    /\ \/ /\ made' = made + 1 /\ sandbox' = Box(made + 1, "running")
          /\ Returns(c, made + 1) /\ UNCHANGED outages
       \/ Outage /\ Raises(c) /\ UNCHANGED <<sandbox, made, cached>>
    /\ UNCHANGED <<backend, home, tries, closing, drops>>

-----------------------------------------------------------------------------
(* Cancelled calls.                                                        *)

\* The call unwinds and what it holds is released.  Its request may have reached the
\* control plane: a POST has made its sandbox.  A worker thread goes on: one that waits for
\* the lock ("astray") will take it, one that creates the container ("orphan") will create it.
Dropped(c) ==
    /\ drops < MaxDrops /\ drops' = drops + 1 /\ ~Blocked(home[c])
    /\ at[c] \notin {"idle", "returned", "raised", "dropped", "astray", "orphan", "leaked"}
    /\ Released(c) /\ Takes(c, 0)
    /\ \/ Moves(c, "dropped")
       \/ at[c] = "asking" /\ Moves(c, "astray")
       \/ at[c] = "spawning" /\ Moves(c, "orphan")
    /\ \/ UNCHANGED <<sandbox, made>>
       \/ /\ at[c] = "posting" /\ sandbox = NoBox
          /\ made' = made + 1 /\ sandbox' = Box(made + 1, "creating")
       \/ /\ sandbox.nr = got[c] /\ UNCHANGED made
          /\ \/ at[c] = "starting" /\ sandbox' = [sandbox EXCEPT !.is = "running"]
             \/ at[c] \in {"removing", "discarding"} /\ sandbox' = NoBox
    /\ UNCHANGED <<backend, home, cached, tries, closing, outages>>

\* Nobody will release what such a thread acquires.
LockLeaks(c) ==
    /\ at[c] = "astray" /\ holder = {} /\ holder' = {c} /\ Moves(c, "leaked")
    /\ UNCHANGED <<backend, home, inside, cached, sandbox, made, got, tries, closing,
                   outages, drops>>

OrphanSpawns(c) ==
    /\ at[c] = "orphan" /\ Moves(c, "dropped")
    /\ IF sandbox = NoBox THEN made' = made + 1 /\ sandbox' = Box(made + 1, "running")
       ELSE UNCHANGED <<sandbox, made>>
    /\ UNCHANGED <<backend, home, holder, inside, cached, got, tries, closing, outages, drops>>

-----------------------------------------------------------------------------
(* The end of the turn, and the outside.                                   *)

\* docker: the container is forgotten, then stopped and removed, unless a background
\* process lives in it (nothing more happens).  daytona: it is stopped, not forgotten.
Closes ==
    /\ closing = 0 /\ cached # 0 /\ Outage
    /\ \/ /\ backend = "docker" /\ cached' = 0 /\ closing' \in {0, cached} /\ UNCHANGED sandbox
       \/ /\ backend = "daytona" /\ sandbox.nr = cached
          /\ sandbox' = [sandbox EXCEPT !.is = "stopped"]
          /\ UNCHANGED <<cached, closing>>
    /\ UNCHANGED <<backend, home, at, holder, inside, made, got, tries, drops>>

CloseRemoves ==
    /\ closing # 0 /\ closing' = 0
    /\ sandbox' = IF sandbox.nr = closing THEN NoBox ELSE sandbox
    /\ UNCHANGED <<backend, home, at, holder, inside, cached, made, got, tries, outages, drops>>

BoxStarts ==
    /\ sandbox.is = "creating" /\ sandbox' = [sandbox EXCEPT !.is = "running"]
    /\ UNCHANGED <<backend, home, at, holder, inside, cached, made, got, tries, closing,
                   outages, drops>>

BoxLost ==
    /\ backend # "service" /\ sandbox # NoBox /\ Outage
    /\ sandbox' \in {NoBox, [sandbox EXCEPT !.is = "stopped"]}
    /\ UNCHANGED <<backend, home, at, holder, inside, cached, made, got, tries, closing, drops>>

-----------------------------------------------------------------------------
\* What the loop of a call, its threads and the time limits of its requests bring about.
Goes(c) ==
    \/ AsksForLock(c) \/ LockGranted(c) \/ EnsuresWorkspace(c) \/ EnsuresSession(c)
    \/ Reloads(c) \/ ListsByName(c) \/ StartsStopped(c) \/ Discards(c) \/ RemovesOutdated(c)
    \/ Spawns(c)
    \/ PostsSandbox(c) \/ PostsAgain(c) \/ AdoptsByName(c) \/ WakesIfStopped(c)
    \/ PollsUntilStarted(c) \/ PostsSession(c)

BringNext ==
    \/ \E c \in Tools : Goes(c) \/ Dropped(c) \/ LockLeaks(c) \/ OrphanSpawns(c)
    \/ Closes \/ CloseRemoves \/ BoxStarts \/ BoxLost

BringSpec == BringInit /\ [][BringNext]_bringVars

\* A loop runs its ready tasks, a worker thread gets a lock that stays free, and every
\* request and every sleep has a limit.  No call has to begin.
BringFairness == \A c \in Tools : WF_bringVars(at[c] # "idle" /\ Goes(c))
FairBringSpec == BringSpec /\ BringFairness

-----------------------------------------------------------------------------
Over(c) == at[c] \in {"returned", "raised", "dropped", "astray", "orphan", "leaked"}

\* A tool call that needs the sandbox comes back, with the sandbox or an error: however the
\* calls spread over event loops (docker_backend.py:221-231, daytona_backend.py:486-493),
\* whoever of them fails or is cancelled.  Excepted are the lock a cancelled call of the
\* docker backend leaks, and the service backend (LockHeldBriefly).
BringUpEnds ==
    \A c \in Tools :
        (backend # "service" /\ ~Over(c) /\ at[c] # "idle")
            ~> (Over(c) \/ \E d \in Tools : at[d] = "leaked")

\* Concurrent first calls share one sandbox: while nothing goes wrong outside, every call
\* that returns has the same one (sandbox_service_backend.py:174-175, and the adoption by
\* name of the other two), and unless one was cancelled none of them fails.
CallsShareOneBox ==
    outages = 0 =>
        /\ \A c, d \in Tools : at[c] = "returned" /\ at[d] = "returned" => got[c] = got[d]
        /\ drops = 0 => \A c \in Tools : at[c] # "raised"

\* The lock of the service backend is "held briefly across one HTTP POST"
\* (sandbox_service_backend.py:176).
LockHeldBriefly == \A c \in Tools : (backend = "service" /\ holder = {c}) ~> (holder # {c})
=============================================================================
