------------------------------ MODULE TurnTail ------------------------------
(***************************************************************************)
(* The event buffer of one turn and the clients that read it: the driver   *)
(* pushes what the runner stored, Turn.tail sends the buffer from a cursor *)
(* on (service/turns.py), the stream route ends it with a turn_end that    *)
(* names the follow-up turn (service/turn_routes.py), and the web client   *)
(* reopens a session by loading it and asking for its latest turn          *)
(* (web/src/shared/pages/ChatPage.tsx).                                    *)
(*                                                                         *)
(* An event is its number: the runner appends 1, 2, 3 ... to the session.  *)
(***************************************************************************)
EXTENDS Naturals, Sequences

CONSTANTS
    Clients,
    MaxEvents,   \* bound: events of the turn
    MaxReopens   \* bound: times each client opens the session or the stream

ASSUME TurnTailAssumption == MaxEvents \in Nat /\ MaxReopens \in Nat

VARIABLES
    saved,      \* events in the session file
    pushed,     \* Turn.events: the numbers pushed, in order
    over,       \* is Turn.status terminal?
    driver,     \* the turn's task: "driving", "cancelled", "ended"
    followed,   \* Turn.followup_id is set
    swept,      \* history variable: the turn left messages to a follow-up
    late,       \* history variable: an event was pushed after the turn was over
    client      \* [Clients -> what the client is doing and shows]

tailVars == <<saved, pushed, over, driver, followed, swept, late, client>>

Away == [at |-> "away", i |-> 0, upto |-> 0, last |-> FALSE, from |-> 0,
         got |-> <<>>, shown |-> {}, next |-> FALSE, opened |-> 0]

TailInit ==
    /\ saved = 0 /\ pushed = <<>> /\ over = FALSE /\ driver = "driving"
    /\ followed = FALSE /\ swept = FALSE /\ late = FALSE
    /\ client = [c \in Clients |-> Away]

-----------------------------------------------------------------------------
(* The driver.  The runner stores an event before it yields it.            *)

ClientsKeep == UNCHANGED client

SaveEvent ==
    /\ driver # "ended" /\ saved = Len(pushed) /\ saved < MaxEvents
    /\ saved' = saved + 1
    /\ UNCHANGED <<pushed, over, driver, followed, swept, late>> /\ ClientsKeep

Push ==
    /\ driver # "ended" /\ saved > Len(pushed)
    /\ pushed' = Append(pushed, saved) /\ late' = (late \/ over)
    /\ UNCHANGED <<saved, over, driver, followed, swept>> /\ ClientsKeep

\* The last round is over.  finish and _start_followup run with no await in between.
FinishDone(leftover) ==
    /\ driver = "driving" /\ saved = Len(pushed) /\ driver' = "ended"
    /\ over' = TRUE /\ swept' = leftover /\ followed' = leftover

EndOfRound ==
    /\ \E leftover \in BOOLEAN : FinishDone(leftover)
    /\ UNCHANGED <<saved, pushed, late>> /\ ClientsKeep

\* An exception, or an error event nobody spoke past; nothing is swept.
FinishError ==
    /\ driver = "driving" /\ driver' = "ended" /\ over' = TRUE
    /\ UNCHANGED <<saved, pushed, followed, swept, late>> /\ ClientsKeep

\* abort, or the first half of start_interrupting.
CancelDriver ==
    /\ driver = "driving" /\ driver' = "cancelled"
    /\ UNCHANGED <<saved, pushed, over, followed, swept, late>> /\ ClientsKeep

\* start_interrupting gives up waiting after 15 s; the task may still be at work.
GiveUpWaiting ==
    /\ driver = "cancelled" /\ ~over /\ over' = TRUE
    /\ UNCHANGED <<saved, pushed, driver, followed, swept, late>> /\ ClientsKeep

\* The cancelled task answers the calls it interrupted, in the session only.
FinishAborted ==
    /\ driver = "cancelled" /\ driver' = "ended" /\ over' = TRUE
    /\ saved' \in {saved, saved + 1}
    /\ UNCHANGED <<pushed, followed, swept, late>> /\ ClientsKeep

-----------------------------------------------------------------------------
(* Turn.tail for one client.                                               *)

Streaming(c) == client[c].at \in {"waiting", "sending"}
DriverKeeps == UNCHANGED <<saved, pushed, over, driver, followed, swept, late>>

Attached(c, cursor, shown) ==
    [client[c] EXCEPT !.at = "waiting", !.i = cursor, !.from = cursor, !.got = <<>>,
                      !.shown = shown, !.next = FALSE]

\* Under the lock: the rest of the buffer and whether the turn is over.
TakeChunk(c) ==
    /\ client[c].at = "waiting"
    /\ client[c].i < Len(pushed) \/ over
    /\ client' = [client EXCEPT ![c].at = "sending", ![c].upto = Len(pushed), ![c].last = over]
    /\ DriverKeeps

\* One payload; the consumer may be slow, the buffer grows meanwhile.
SendOne(c) ==
    /\ client[c].at = "sending" /\ client[c].i < client[c].upto
    /\ LET e == pushed[client[c].i + 1] IN
       client' = [client EXCEPT ![c].i = @ + 1, ![c].got = Append(@, e),
                                ![c].shown = @ \cup {e}]
    /\ DriverKeeps

\* The chunk is out: is that the end?  A turn_end carries what followup_id is by now.
IsLast_PastTheEnd(c) == client[c].last /\ client[c].i > Len(pushed)
IsLast(c) == client[c].last /\ client[c].i >= Len(pushed)

\* Where the next chunk begins.
NextFrom_EndOfBuffer(c) == Len(pushed)
NextFrom(c) == client[c].i

ChunkDone(c) ==
    /\ client[c].at = "sending" /\ client[c].i >= client[c].upto
    /\ client' = [client EXCEPT ![c].at = IF IsLast(c) THEN "ended" ELSE "waiting",
                                ![c].i = NextFrom(c),
                                ![c].next = IsLast(c) /\ followed]
    /\ DriverKeeps

-----------------------------------------------------------------------------
(* The client.                                                             *)

Opens(c) == ~Streaming(c) /\ client[c].at # "loaded" /\ client[c].opened < MaxReopens

\* GET /stream?cursor=: from the start, or from where a snapshot, which may be old, said
\* that the buffer ends.
OpenStream(c) ==
    /\ Opens(c)
    /\ \E cursor \in 0 .. Len(pushed) :
         client' = [client EXCEPT ![c] = [Attached(c, cursor, {}) EXCEPT !.opened = @ + 1]]
    /\ DriverKeeps

\* ChatPage loads the session and shows its events ...
LoadSession(c) ==
    /\ Opens(c)
    /\ client' = [client EXCEPT ![c] =
                    [Away EXCEPT !.at = "loaded", !.shown = 1 .. saved,
                                 !.opened = client[c].opened + 1]]
    /\ DriverKeeps

\* ... then asks for the latest turn, and attaches from 0 when that is still running.
AskLatest(c) ==
    /\ client[c].at = "loaded"
    /\ client' = [client EXCEPT ![c] = IF over THEN [@ EXCEPT !.at = "settled"]
                                       ELSE Attached(c, 0, client[c].shown)]
    /\ DriverKeeps

\* A closed tab, a lost connection: the turn does not notice.
Disconnect(c) ==
    /\ Streaming(c)
    /\ client' = [client EXCEPT ![c] = [Away EXCEPT !.opened = client[c].opened]]
    /\ DriverKeeps

-----------------------------------------------------------------------------

TailNext ==
    \/ SaveEvent \/ Push \/ EndOfRound \/ FinishError \/ CancelDriver \/ GiveUpWaiting
    \/ FinishAborted
    \/ \E c \in Clients :
        \/ TakeChunk(c) \/ SendOne(c) \/ ChunkDone(c)
        \/ OpenStream(c) \/ LoadSession(c) \/ AskLatest(c) \/ Disconnect(c)

\* The event loop resumes a generator whose condition was notified and whose consumer
\* reads on.  Nothing says that the driver ever ends.
TailFairness ==
    \A c \in Clients : WF_tailVars(TakeChunk(c)) /\ WF_tailVars(SendOne(c)) /\ WF_tailVars(ChunkDone(c))

TailSpec == TailInit /\ [][TailNext]_tailVars
TailFairSpec == TailSpec /\ TailFairness

-----------------------------------------------------------------------------
(* Properties.                                                             *)

\* What a client has received is the buffer from its cursor on, without a gap or a
\* repetition, and once its stream ended normally it is all of it, however pushes, the
\* end of the turn and slow consumers interleave (Turn.tail reads the end of the turn
\* together with the chunk).  Late events of an interrupted turn are nobody's.  The end of
\* a turn that left messages behind names the follow-up, so that the client goes on to it.
StreamIsExact ==
    \A c \in Clients :
        /\ Streaming(c) => client[c].got = SubSeq(pushed, client[c].from + 1, client[c].i)
        /\ client[c].at = "ended" /\ ~late =>
              client[c].got = SubSeq(pushed, client[c].from + 1, Len(pushed))
        /\ client[c].at = "ended" /\ swept => client[c].next

\* A stream does not outlive its turn: once the turn is over every open stream comes to
\* an end or is dropped.
StreamsEnd ==
    \A c \in Clients : (Streaming(c) /\ over) ~> ~Streaming(c)

\* analysis/durable-runs-design.md:94 calls a reopened session a non-event.  A turn
\* that ends between the load and the question for the latest turn is not attached to,
\* and what it stored in between is not shown.
ReopenShowsTheTurn ==
    \A c \in Clients : client[c].at = "settled" /\ driver = "ended" /\ ~late =>
        1 .. Len(pushed) \subseteq client[c].shown
=============================================================================
