# TLA+ verification of adk-cc

adk-cc is an agent server: a Python back end over Google ADK (`agents/adk_cc`),
a React client (`web`) and a desktop shell (`src-tauri`). A user keeps sessions;
a session is a history of events; a *turn* drives the agent over that history,
calling models and tools, and may be stopped, overtaken, queued behind, retried
or parked on a form the user has to answer. This directory holds TLA+ models of
the parts whose correctness depends on the order in which things happen, the TLC
configurations that check them, and proofs for TLAPS.

Paths below are relative to `agents/adk_cc/` unless they start otherwise.

## Inventory

| Part | State it keeps | Operations | What is hard |
|---|---|---|---|
| Turn broker (`service/turns.py`) | table of turns, latest turn per session; per turn: status, task, queue, accepting, event buffer, follow-up | start, queue, send-now, withdraw, abort, abort for delete, retry-last, the driving task with its rounds, tail | many clients and several tasks on one event loop; cancellation at any suspension; a 15 s wait; hand-over to a follow-up turn |
| Turn routes (`service/turn_routes.py`) and the web client's stream loop | none; the client's cursor and what it shows | HTTP handlers over the broker, the event stream | check before await, act after; a slow reader meets the end of the turn |
| Mid-turn messages (`plugins/midturn_messages.py`) | the texts it took from the queue (a local variable) | deliver before a model call | failure or cancellation half way |
| Confirmation forms (`plugins/confirmation_form_ui.py`) | none of its own: everything is read off the session's events | rename a gate to a form, stash or bundle answers, silence the model while a batch is open | answers one request at a time, repeated, late, changed, retried |
| Permission engine and plugin (`permissions/`, `plugins/permissions.py`) | rules, mode, grants | decide a tool call, ask, resume | a dozen early returns; a paused call is decided again under another mode |
| Session store (`service/file_session_service.py`) | one JSON-lines file per session, the ids that were deleted | create, get, append, truncate, delete last event, delete | late appends after a delete; torn lines; re-creation |
| Context guard and compaction (`plugins/precompact.py`, `plugins/context_guard.py`, `POST /api/compact`) | summaries in the history | fold a prefix before a run, in a turn, beside a turn | a fold must not hide a call that waits for its answer; a refused turn must recover |
| Checkpoints (`service/desktop_checkpoint.py`, `plugins/checkpoint.py`, the restore route) | shadow git repository, log of at most 20 entries | snapshot, restore, rewind | the snapshot taken before a restore; files and conversation in two steps |
| Process registry (`sandbox/process_registry.py`) with its writers: host and container back ends, code executor, Stop routes and tool, the application's start and end | one persisted record per command; a pidfile per foreground run | launch, pump, probe, finalize, stop, forget, cap, quit, sweep | the launch, the pump or probe, a Stop and a restart write one record; process group numbers are reused |
| Sandbox bring-up (`sandbox/backends/{docker,daytona,sandbox_service}_backend.py`) | the remembered container or sandbox, a lock | ensure, adopt, create with back-off, poll, close | one backend object used from several event loops and threads |
| Sub-agents (`tools/subagents.py`) | child tasks in a bucket per session, a semaphore | spawn, collect, cancel | deadlines, overlapping collects, cleanup when the parent ends |
| Identity (`identity/`) | accounts, refresh tokens | sign-in, rotate, log out, change, disable and delete members | calls interleave between store operations |
| Wiki (`wiki/`, `tools/wiki.py`, wiki routes of `service/admin_routes.py`) | inboxes, pages, review queue | capture, merge, nightly fold, human edit, delete and decision | a run holds a page across model calls and may die at each of them |
| Memory (`memory/`, `plugins/memory.py`, `service/memory_scheduler.py`) | episodic captures, semantic items with history | capture, corroborate, consolidate, compact | passes take a lock, captures do not |
| Tasks, artifacts, docstore, credentials | files with atomic writes | CRUD | last writer wins |
| Models, tools, skills, settings, UI, desktop shell | mostly content or external systems | | |

The broker is the hub: the routes and the UI call it, its task calls ADK, ADK
calls the plugins (permissions, forms, checkpoints, compaction, memory), the plugins
read and append session events, tools reach the sandbox and its processes, and
the next decision of the broker is read off the events. `PROJECT.json` lists every part
and, under `hazards`, the places where it can go wrong in a way a test hardly
reaches.

What makes each part correct:

- broker: one running turn per session and one driver; a recorded end is final;
  no text a user sent is lost, doubled or stuck; every stop answers the call it
  cut off; every turn and every waiting request ends;
- stream: a reader misses and repeats nothing and learns the follow-up turn;
- forms: a gated tool runs once, with the user's last choice, with its whole
  batch; nothing is answered on the user's behalf; no answer is forgotten;
- permissions: what is denied at the moment it would run does not run; a more
  permissive mode never decides more strictly;
- session store: what was appended is read back; a deleted session stays deleted;
- compaction: no fold hides a call that waits; a refusal is no loop;
- checkpoints: files and conversation go back together, and stay back;
- process registry: no background process runs out of sight; a finished record
  stays finished; nothing outlives a graceful quit;
- bring-up: concurrent first calls share one sandbox, and each comes back;
- sub-agents: each explorer is reported once, none is forgotten, none survives
  the normal end of its turn; a collect returns;
- identity: a chain of refresh tokens has one live token; a disabled member has none;
- wiki: a note that was merged stays readable, a note that waits is worked off;
- memory: a fact that was folded is not forgotten.

## Modules

| Module | What it is |
|---|---|
| `TurnBroker` | the turn broker, its HTTP routes and the mid-turn message plugin, for one session |
| `TurnSlot` | the abstract specification of a session's turns that `TurnBroker` implements |
| `TurnTail` | the event buffer of one turn and the clients that read it |
| `ConfirmResume` | the rounds of a turn and the confirmation forms, over the session's event history |
| `Permission` | one gated tool call: the plugin's callback and `decide()` |
| `SessionStore` | one session's file and everyone who touches it |
| `Compaction` | one session's history and everyone who folds it |
| `Rewind` | checkpoints and rewind of one desktop session |
| `ProcessRegistry` | the process registry and everything that writes to it |
| `BringUp` | the first tool calls of a turn bring the sandbox up, in three back ends |
| `Subagents` | the explorers of one session |
| `Identity` | accounts and refresh tokens of one organisation |
| `Wiki` | one tenant's wiki |
| `Memory` | one user's long-term memory |
| `TurnBrokerProofs`, `ProcessRegistryProofs`, `IdentityProofs`, `WikiProofs`, `MemoryProofs` | proofs about the module of the name |
| `ConversationProofs` | proofs about `ConfirmResume`, `Rewind` and `Permission` |
| `SessionProofs` | proofs about `SessionStore` and `Compaction` |
| `ServicesProofs` | proofs about `TurnTail`, `Subagents` and `BringUp` |
| `MCTurnBroker` | symmetry and the load bound of the broker's runs |
| `MCConversation` | composes `ConfirmResume`, `Rewind` and `Permission` for TLC |
| `MCWorkspace` | composes `SessionStore`, `Identity`, `Compaction`, `ProcessRegistry` and `Memory` |
| `MCServices` | composes `ProcessRegistry`, `Subagents`, `TurnTail` and `ConfirmResume` with fairness |
| `MCShared` | composes `Wiki` and `BringUp` with fairness |

The components of an `MC` module share no state in the code (a session's file, a
user's memory and a tenant's wiki are different things under different locks), so a
behaviour exercises one of them (`part`) and the others rest in their initial state: the
run is the union of the components' runs, not their product.

Operators with an underscore in their name (`Boot_ForgetsAll`, `FinishDone_NoSweep`)
are plausible bugs: each stands before the definition it alters, is used by no
specification, and breaks a property of a run when it takes that definition's place.
`PROJECT.json` lists them under `mutants`.

### TurnBroker

All of `turns.py` runs on one asyncio loop, so an action is the code between two
suspension points. `Turn.finish` and `Turn.push` take an `asyncio.Condition` that
nobody holds across an await, and are part of the step that calls them.

| Variables | Code |
|---|---|
| `latest`, `known`, `count` | `_latest_by_session`, `_turns`, turns created |
| `expired` | finished longer than `_FINISHED_TTL_S` ago; the next `start()` collects them |
| `status`, `accepting`, `queue`, `message`, `out`, `followup`, `orphanOf` | fields of `Turn` (`model_events > 0` is `out`) |
| `task`, `cancel`, `hits` | the suspension the task stands at, a pending cancellation, the number it received |
| `hand` | the local list of the plugin's drain |
| `copies`, `lastUser`, `open` | what the properties need of the history: how often each text is stored, whether the last event is a turn's message, which turns have an unanswered tool call |
| `req`, `carried`, `target`, `waiting` | where each request stands, the texts a send-now carries, the turn it stops, the order of the waiters |

| Actions | Code |
|---|---|
| `PostStart`, `PostQueue`, `PostInterrupt` | `POST /api/turns` with its three `ifBusy` values |
| `PollAgain`, `PollGivesUp` | the loop of `enqueue()` |
| `InterruptGoesOn` | `start_interrupting` after its wait of at most 15 s |
| `Withdraw`, `Abort`, `AbortSession`, `RetryLast`, `Expire` | the other routes, and time |
| `Begin`, `PruneAndStore` | `_drive` up to the agent run; `_prune_orphan`; the message is stored |
| `TakeQueue`, `Deliver`, `DeliveryFails`, `CallModel` | the mid-turn plugin before a model call |
| `CallTool`, `ToolReturns`, `Reply`, `AutoContinue` | events of the run |
| `FinishDone`, `RunRaises`, `ErrorEvent` | the three uncancelled ends of `_drive` (sweep and follow-up belong to the first) |
| `CancelledUnborn`, `CancelSeen`, `CloseCalls`, `CancelledClosing`, `OnDone` | cancellation at each suspension, and the done-callback |

The agent run is ADK's: the model sees of it the order in which it stores events,
calls the plugin and suspends. Content is left out except for the identity of
each user text, because the properties are about which text is where.
Storage that fails and a task that outlives the 15 s wait are switches
(`StorageFails`, `Stubborn`), so that what needs their absence is visible. A failing append
meets the drain (`DeliveryFails`) and the closing of a stopped turn (`CloseFails`: the broker
logs a warning, the turn ends "aborted" and its call stays open, as it does when the session is
gone); `unstored` remembers the turns it happened to.

### TurnTail

An event is its number in the session. The driver stores an event (`SaveEvent`) and
then pushes it (`Push`); `FinishDone` within `EndOfRound`, `FinishError`, `CancelDriver`,
`GiveUpWaiting` (a send-now's 15 s) and `FinishAborted` are the ends. `Turn.tail` is
`TakeChunk` (under the condition: the chunk and whether the turn is over, together),
`SendOne` (a yield to a slow consumer) and `ChunkDone`; the stream's `turn_end` names the
follow-up. The client is `OpenStream` (any cursor up to the end of the buffer), `LoadSession` and `AskLatest`
(`web/src/shared/pages/ChatPage.tsx`) and `Disconnect`.

### ConfirmResume

One session, one turn at a time (that only one runs is `TurnBroker`'s
`SingleFlight`). The state is the event `history` and `_drive`'s locals. The
readings `Outstanding`, `Resolved`, `Stashed`, `Pending`, `NeedsReply` are the functions
of the same purpose in `confirmation_form_ui.py` and `turns.py`; events are reduced to a
kind, the ids they name and the choices they carry. `Received` is
`on_user_message_callback` (stash or bundle), `Silenced` is the guard of
`before_model_callback`, and `EndDone`, `EndInError`, `Continue` are the end of a round.
`ToolRaises` is a pass over a bundle that raises half way: some tools have run, the bundle is the
last event, and the next turn's prune may take it (`broken` remembers whose pass it was).
`HandsBack` is a specialist's marker, whose guard looks at its own invocation only; the
coordinator goes on after it and may park a call while the marker still dangles.

### Permission

`Decide` is `permissions/engine.py:decide` with every step in its order (`Floor` is steps
1 to 1d, `Unsafe` 1e and 1f, `ByRules` 2c, 3 and 4). `BeforeTool` is
`before_tool_callback`: the skill-script gate, the scope gate, then the decision, with the
grants and remembered rules each answer leaves. The callback runs again with the
user's answer; in between the mode may be switched (`SwitchMode`) and another call may
leave a grant (`GrantMeanwhile`). What classifiers and rule matchers say of a call is
data, and every combination they can return is an initial state.

### SessionStore

`file` is the sequence of lines, `marked` the membership in `_deleted`. No method of the
service suspends while it works, so each is one step and its callers interleave: turns
and compactions write (`Write`, `WriteFails` leaves a torn line that the next append
joins), the middleware cancels and goes on (`AbortBeforeDelete`) before ADK's handler
deletes (`DeleteSession`), `CreateSession` forgets the mark before it looks for the file,
`TruncateBefore` and `DeleteLast` rewrite it, `CrashWhole` loses the process and the marks. A delete
may leave the file (the unlink's failure is swallowed), and a creation may fail after it has
discarded the mark (`CreateFails`). `dead` are the writers whose session was deleted under them.

### Compaction

An event has the calls it makes, the answers it brings, and a size of one unit when it is
large. `BeforeRun` is `precompact.py`, `GuardCompacts` and `Refuse` the ladder of
`context_guard.py` before a model call, `ManualStart` and `ManualAppend` the two halves of
`POST /api/compact` around its model call, `AdkCompacts` ADK's own compactor as `agent.py`
configures it, behind the pin. `ClampHead` is `_clamp_head_pending`, `PendingIds`
`_pending_ids_name_aware` of `context/compaction_pin.py`. The turn around
them (`UserWrites`, `UserReplies`, `UserApproves`, `Resume`, `ModelWrites`, `ModelCalls`,
`ToolsReturn`) produces the histories they meet.
What is large is a message (`prose`) or a tool result (`fat`), which the guard can rewrite away;
the text beside a call is small. The two sides measure differently, as in the code: precompact
and ADK count the history by the estimate (`Measured`), the guard takes the larger of that and of
what the model counted last (`usage`, which no fold makes smaller), times a `correction` it learns
from every reply (`Counts`; `TokensPerUnit` is what a tokenizer may count where the code
estimates one). A fold may fail, which is swallowed (`AppendsFail`). `left` remembers of a turn
that follows a refused one whether, when it began, there was more that a forced fold may cover
than it covered. A history of three events is never folded (`precompact.py:390`), and
`RejectRecovers` leaves it out.

### Rewind

A work tree is the set of invocations whose change it contains; a commit is named by its
tree. `CallTool` takes the plugin's snapshot, then the tool runs (`ToolDone`). A restore is
`RestoreAsked`, `RestoreSaves` (its own snapshot first), `RestoreResets`, `RestoreLists`,
`RestoreTruncates`. On a local project these hold the loop to the end; on a remote one each await
lets turns and other restores go on in between, up to the last answer of the device (`Awaits`,
`MayGoOn`). A reset may fail or be killed half way (`ResetStops`: any part of the difference is
there, the rest not), and a failed write of the log is swallowed. `strayed` names what happened
that the properties exempt: a restore while a turn or another restore runs, a failed snapshot
before it, a reset that stopped half way, a log that was not written, a truncation that failed or
was cut off by a crash, a checkpoint of a later invocation of a turn, one without an invocation, a
target that its own snapshot pushed over the cap. It only grows, and the passing run does not
search on from a state that has strayed (`NotStrayed`); the ways in which it matters have runs of
their own.

### ProcessRegistry

A command has a record (`rec`, and in `group` whose number the record holds), an actual
process (`proc`) and the code that launches it (`stage`). Statuses "exited" and "failed"
are one, since no code tells them apart. `terminate()` blocks the loop until the group
is dead and is one step for coroutines; foreground runs and container commands are
threads, so their checks and marks are separate steps (`FinalizeCheck` and
`FinalizeMark`, `KillSent` and `KillMark`, `ProbeLook` and `ProbeMark`, `BoxRemove` and
`BoxRemoved`). A process group number is tracked by whom it names: the process itself,
an earlier run whose pidfile was never deleted, or a stranger (`strangers`) once the
number was free to be reused. `Crash` loses every coroutine and thread, `Quit` is
the lifespan's `terminate_all()`, and `Boot` removes left-over containers and sweeps.

Abstracted: trimming and copying of logs, guessing of ports, failures of the index
file's own write, the age order in which the history cap drops finished runs (any
finished run may go), two runs of identical code at the same time. `Boot` merges
container cleanup with the sweep, which the code performs at the first
`get_registry()`. The docker, ssh, e2b and remote back ends do not launch here.

### BringUp

Several calls (`Tools`) on one or more event loops need the sandbox of one session. Each
back end serializes them in its own way, and that is the point of the module:
docker acquires a `threading.Lock` in a worker thread (`AsksForLock`, `LockGranted`), then
reloads, lists by name, starts, discards, removes or spawns; daytona has an `asyncio.Lock`
per loop (`LoopFree`), posts with back-off, adopts by name after a 409, wakes and polls; the
sandbox service acquires a `threading.Lock` on the loop (`EnsuresSession`; a call that is
`Blocked` stands still with every call of its loop). A cancelled call (`Dropped`) releases
what it holds, but its worker thread goes on: it may acquire the lock that nobody will
release (`LockLeaks`) or still create the container (`OrphanSpawns`). `Closes`,
`CloseRemoves`, `BoxStarts` and `BoxLost` are the end of a turn and the outside.

### Subagents

`kid` is each explorer's task, `buckets` the buckets there have been, `registered` the one
`_REGISTRY` names. A collect keeps the bucket it found while it waits (`Collect`,
`Collected`). `Acquire` is the semaphore, `Deadline` the limit of an explorer, `Unwind` a
cancelled task; `EndTurn` is `after_run_callback`, which a stopped turn does not reach
(`StopTurn`), `DeleteTurn` the session delete.

### Identity

Service calls run in worker threads and interleave between store operations, each of
which is atomic under a file lock. A request holds the record it read; an update writes that
record as it was changed. `RotateRead`, `RotateCheckUser`, `RotateRefuse`, `RotateSwap`,
`ChainStep`, `ChainKill` are `rotate_refresh_token` and `_revoke_chain`; `LogoutRead`,
`LogoutWrite` the logout; `StartOperation`, `Guard` and the writes of `Plan` the account
operations and the login. A change of password looks at the password, not at the status, and
ends with the fresh token its route answers with; `reopened` remembers the members who got one
while they were disabled.

### Wiki

A note is who wrote it, under which spelling of the topic, and what it says; what the model
makes of it is left open. `CollectNotes`, `ReadPage`, `Decide`, `WritePage`, `Archive`,
`SlugDone` are a merge, `StartFold`, `ReadOther`, `FoldOne`, `WriteFold` a nightly fold, each
step up to the next await. `Resolve` is `conflict.resolve` with the protection of edited
pages, `Override` `human_override`. `HumanEdit`, `HumanDelete`, `Adjudicate` are the
administrator's routes, which take no lock; `SlugFails` and `CutOff` are failures.
`Canonical` says under which slug each note of an inbox is read, in the order of reading: a known
spelling stays, another one joins the first known page or, when the verifier refuses or fails,
keeps its own. `review` is the record of a claim in the review queue: "pending", then what the
administrator decided; it is never opened again, and whoever has a record and no `decision` in
force is skipped.

### Memory

A capture is filed (`AddEpisodic`) or corroborates an item (`CorroborateReads`,
`CorroborateWrites`, without the lock); a turn or the scheduler runs a pass under
`consolidation_lock` (`PassBegins`, `MergeOther`, `ShelveOther`, `FoldReads`, `FoldWrites`,
`Mark`, `Sweep`), and the scheduler then compacts (`CompactReads`, `CompactShelves`,
`CompactWrites`). `ServerKilled` ends every job. Which capture is the newest and what is
stale is left open; the topics are spellings of one subject.

## Runs

| Run | Question | Instance | Distinct states |
|---|---|---|---|
| `MCTurnBroker` | is the slot exclusive with one driver, is no text of a turn that ended well lost, does a withdrawal hold, are cut-off calls answered, is `TurnSlot` implemented? | 3 texts, 3 turns, 2 model steps, 2 cancellations per turn, symmetric texts | 117,797 |
| `MCTurnRetry` | does a prune leave what the model answered, does every turn and every waiting request end? | 3 texts, 4 turns, 2 retries, 1 expiry, failing storage, stubborn tasks | 173,976 |
| `MCConversation` | does a gated tool run once, as last voted; is no vote forgotten, no silent round taken for an answer? Do files and chat go back together? Are the modes ordered and does nothing denied run? | 2 wraps, 1 question, 9 events, 4 turns; 3 invocations, 2 checkpoints, 2 rewinds, 1 mishap; every call, seat, mode and rule set | @MCConversation@ |
| `MCWorkspace` | does a deleted session stay deleted and a file hold what was stored; one live token per chain, none of a disabled member; no fold of a parked call; no process out of sight, finished for good, clean quit, run records close; no fact forgotten? | see below | @MCWorkspace@ |
| `MCServices` | are explorers reported once, none forgotten or left, streams exact; do collects return, streams and continued turns end, pumps see the end? | see below | @MCServices@ |
| `MCShared` | does an archived note stay on a page, is no note left that nobody has looked at; do concurrent first calls share one sandbox, and does each come back? | see below | @MCShared@ |

Each of these stops at the violation it shows; what it means is said under the findings:

| Run | Property | Instance |
|---|---|---|
| `MCTurnCarried` | `CarriedNotDropped` | 4 texts, 4 turns |
| `MCRewindTurn` | `WholeTurnUndone` | 3 invocations, 2 checkpoints |
| `MCCompactionLoop` | `RejectRecovers`, no fold failing | 9 events, 4 invocations, no threshold, a tokenizer that counts 2 |
| `MCWikiEdit` | `EditsSurvive` | 1 page, 2 users, 2 notes |
| `MCWikiReject` | `RejectedStaysOut` | 1 page, 2 users, 2 notes |
| `MCSandboxFreeze` | `LockHeldBriefly` | 2 calls on one loop |

`CHECK_DEADLOCK FALSE` everywhere: a session, a wiki or a registry may stay idle, and the
bounds end behaviours.

Why the bounds are enough.

- Broker: a race needs the running turn, its stopper and one competitor; three texts give
  two competitors, and three turns give a turn, its follow-up and a turn after it. Two
  model steps let the plugin drain once before and once after a tool call; two
  cancellations let one hit the answering of the first. A retry chain needs a failed turn,
  its retry and a second failure before another message, hence four turns.
  `MCTurnRetry` has an ACTION_CONSTRAINT, `LoadBound`: a behaviour combines two retries, or
  a retry and an expiry, or a third message. It keeps back clients and time, never a fair
  action, so the liveness verdict is not of its making.
- Forms: a batch of two is the smallest that has a half; nine events hold gate, two stashes,
  a bundle, results and an injected continue with a failed turn between them. For liveness
  (`MCServices`) 21 events are more than three turns can produce.
- Rewind: with a log of two, a third snapshot evicts; three invocations give a turn of two and
  another one; two rewinds let the second restore what the first has undone, or overlap it. One
  mishap is enough to stray, and what follows is not looked at.
- Gate: no bound; one call has finitely many cases and all are initial states.
- Store: two drivers and a compactor, five lines, three births (created, deleted, created
  again and once more), two faults (a torn line, a failed unlink or creation, a crash).
- Identity: two members, two overlapping calls, three tokens (a login, a rotation and a
  replay's victim), two account operations.
- Compaction: eight events and four invocations, so that a call parked in the first is covered
  by a head computed in a later one; `Threshold` 2 and `RejectLine` 3 in units of large
  events, a tokenizer that counts 2 where the code estimates 1, folds that may fail.
- Registry: commands of different kinds meet only in `Quit` and `Boot`, which treat each record
  on its own, so a behaviour takes two commands of one kind (`Mixes`); two are needed for the
  shared container and for the cap of 1. Two stops give a process that survives a crash, is
  adopted, and meets a quit. The numbers of one host and one container command are reused.
- Memory: two topics and two texts, two turns and the scheduler, three captures, one sweep,
  one kill: a pass, a capture during it and a corroboration that overlaps both.
- Sub-agents: two explorers, two collects, one slot (one explorer always queues), two turns.
- Stream: four events, one client that opens three times; clients do not interact.
- Wiki: two spellings, two users (a quorum of two, one of them citing), two notes, two runs of
  which one folds, one fold, two troubles (edits, deletions, decisions, failures: an acceptance
  and the death of the run that honours it). Two notes make two pages and their fold, or a page
  and a note that comes while it is merged. For the safety, three notes (5.2 million states) show
  nothing new, and the theorem holds for any number.
- Sandbox: three back ends, one cancellation; three calls are a holder, a waiter and one that finds the memory set; two loops
  make the daytona locks independent; two outages spoil an attempt and its retry.

### What the findings say

- A send-now that carries queued texts and then finds the session busy refuses its
  own message and drops theirs (`service/turns.py:473-484`).
- Restoring a checkpoint of a turn's second invocation takes the chat back to the
  turn's beginning and the files only to the answer (`service/file_session_service.py:378-383`).
- A page an administrator corrects while a merge waits for the model is written back
  as the run had read it (`wiki/librarian.py:490`).
- The run that honours a human rejection replaces it by its own, so the rejected claim is
  published when it is captured again (`wiki/librarian.py:532`).
- The sandbox service's lock is held across an await on the loop that a second first call
  blocks: the server stands still (`sandbox/backends/sandbox_service_backend.py:282`).
- The guard refuses on what the model counted last, times its correction; precompact measures the
  history by the estimate, so a turn may be refused again and again while nothing is folded
  (`plugins/precompact.py:392-402`, `plugins/context_guard.py:304-312`).

Further disagreements with a document or comment that the models contain are definitions in the
modules, whose comment quotes the promise. The table above keeps a run for one disagreement of a
kind; for these, a configuration beside the modules, where one is named, lets TLC show the
violation:

- `OneDriver` with tasks that outlive the 15 s wait of a send-now (`MCTurnStubborn.cfg`, module
  `MCTurnBroker`): such a task drives the session beside the next turn (`service/turns.py:473`).
- `DrainedIsPersisted` (`MCTurnDrain.cfg`, `MCTurnBroker`): an append that raises while the queue
  is drained loses the texts behind it, and the turn ends "done"
  (`plugins/midturn_messages.py:70-79`).
- `VotesSurvive` when a run fails before it stores its message (`MCConfirmVotes.cfg`,
  `ConfirmResume`): the prune compares text parts only; form submissions have none, so an older
  stashed vote is deleted in place of the failed one (`service/turns.py:606-612`).
- `ResolvedStays` (`MCConfirmRerun.cfg`, `ConfirmResume`): when a tool of a resumed batch raises,
  the next turn's prune takes the bundle for the failed message: the batch is open again and its
  tools run a second time (`service/turns.py:606-615`).
- `NeverNudgesParked` (`MCConfirmNudge.cfg`, `ConfirmResume`): a handback marker followed by a
  parked call still dangles, and the parked run gets a "Continue." (`service/turns.py:747-771`).
- `MenuListsSurvivors` (`MCRewindEvicted.cfg`, `Rewind`): a restore whose own snapshot pushes its
  target over the cap leaves the checkpoints of undone turns in the menu
  (`service/desktop_checkpoint.py:503`).
- `FilesAndChatTogether` (`MCRewindOverlap.cfg`, `Rewind`): two restores of a remote project
  interleave; the files end at one checkpoint and the conversation at the other
  (`service/desktop_routes.py:369`).
- `DeadRunsStayOut` (`MCStoreReborn.cfg`, `SessionStore`): a run whose session was deleted under
  it writes into the session that is created under the same id
  (`service/file_session_service.py:244`).
- `StaysLoadable` (`MCStoreTorn.cfg`, `SessionStore`): one torn line makes a session unreadable,
  although corrupt lines are to be skipped (`service/file_session_service.py:202` against `208`).
- `DisabledStaysOut` (`MCIdentityDisabled.cfg`, `Identity`): a change of password issues a refresh
  token to a disabled member. It is refused while the member is disabled, but nothing has revoked
  it (`service/identity_routes.py:260-278`).
- `ReplayKillsChain` (`MCIdentityReplay.cfg`, `Identity`): when two rotations of one token race,
  the loser walks the chain from a record without a successor and leaves the winner's token live
  (`identity/service.py:232-237`).
- `AcceptedIsMerged` (`MCWikiAccepted.cfg`, `Wiki`): an acceptance is used up by the first run
  that honours it, also when that run dies before it writes the page; the claim's record stays
  closed, so a note of it that is left or comes later is neither merged nor listed in the queue
  (`wiki/librarian.py:384-389`).
- `NoDuplicate` (TurnBroker): a mid-turn text stored after a failed turn's message hides that
  message from the prune, and the retry stores it again (`turns.py:606-612`).
- `StoppedIsStopped`, `KilledVerdictStands` (ProcessRegistry): `stop_process` reports a container
  process as stopped that keeps running (`tools/processes.py:151`); a foreground run stopped
  while its environment is built reads running again (`process_registry.py:190-198`).
- `AnswersKeepTheirCalls` (Compaction): a kept tail may begin with the answer of a folded call
  (`docs/02-architecture.md:400`).
- `DangerWasAsked` (Permission): the answer to a skill script's question also approves the command's
  danger, which was not shown (`permissions.py:363-364`).
- `StraysDieWithTheTurn` (Subagents): a stopped turn leaves its explorers running
  (`subagents.py:26-29`).
- `ReopenShowsTheTurn` (TurnTail): an event stored between loading a session and asking for its turn
  is not shown when the turn ends meanwhile (`analysis/durable-runs-design.md:94`).
- `RaisesWhatItRepeats` (Memory): a corroboration may raise an item that by then says something else
  (`memory/store.py:219`).

And without a name: two parallel demotions pass the last-administrator guard
(`identity/service.py:512`); an update may re-create a deleted account; a docker or container
call cancelled while its thread waits in `acquire()` leaks the lock
(`docker_backend.py:232`), which `MCShared` exempts by name; a cancelled spawn that
completes makes the next call's creation fail; a crash between a page's write and the archiving
folds a claim twice; a nightly fold killed between deletion and write loses its notes (`cut`);
a login that read the account before it was disabled still issues a token (`crossed`);
collects that overlap may report twice or forget a bucket (`overlapped`); a rejected claim under
another spelling has another hash; a fold drops the other page's
protection; an unlocked corroboration overwrites what a pass wrote (`overwritten`), and a
capture repeated during a pass is marked as folded with the old one. In the registry: a container
command survives a graceful quit until the next start; a Stop that reads a stale
pidfile answers success; a foreground run that survives a crash is swept as "unknown"; the
sweep adopts a reused group number; a container launch that timed out or was cancelled may
run without a number on record; any failed probe is taken for a removed container. The
properties are stated so that they hold with these.

## Fairness

- `TurnBroker!Fairness`: weak fairness of `Drive(t)` for each turn and `Resume(m)` for each
  request: the event loop runs every ready task and every expired sleep. Clients are
  not fair, and within `Drive` the model may go on calling tools up to `MaxSteps`.
- `ConfirmResume`: weak fairness of `Run`, the one task.
- `PumpFairness`: of each `Pump(p)`, whose child-exit callback is on the loop; that a
  process dies, that anybody stops one or that the application comes back is not assumed.
- `SubFairness`: timers fire, cancelled tasks unwind, a collect whose wait is over is woken. That an
  explorer ends by itself is not assumed.
- `TailFairness`: a generator whose condition was notified goes on and its consumer reads. That
  the driver ends is not assumed.
- `WikiFairness`: some run takes a step: the scheduler's loop outlives a failed tick and comes
  round again, and a run goes on as its awaits return. Users and administrators are not fair.
- `BringFairness`: a call that has begun goes on: loops run ready tasks, a thread gets a lock
  that stays free, requests and sleeps have limits. No call has to begin, and that the
  control plane starts a sandbox is not assumed.

Model calls that never return are outside these models: ADK and the
provider bound them, not this code.

## Proofs

All theorems hold for every value of the constants under the named assumptions
(`TurnBrokerAssumption` and its kin), which only give the bounds their types, keep kinds of
actors apart and make the sets that are ordered sets of numbers.

`TurnBroker`. The inductive invariant is
`IInv == TypeInv /\ SlotInv /\ TaskInv /\ QueueInv`.

- `TypeInv` adds to `TypeOK` that texts counted as the last event are in
  the history. Without it a prune could take a count below zero.
- `SlotInv`: turns are created in order, the newest is the indexed one, and a
  running turn is the newest, known and not expired.
- `TaskInv`: a task that goes on after its turn's end was recorded belongs to an
  aborted turn and is unwinding. It is why such a task cannot
  record another end, also with `Stubborn` tasks.
- `QueueInv`: a queue with texts is on a turn that runs or ended in error or by a stop.

`NextSlotStep` shows that every step moves the slot in one of three ways (turns end, a
turn grows old, a turn starts on the idle slot); `SingleFlightHolds`,
`TerminalIsFinalHolds` and the refinement `SlotImplemented` rest on that lemma alone,
`NoUnreadQueueHolds` on `QueueInv`, `TypeCorrect` on `TypeInv`. Four further invariants are
proved on top of `IInv`:

- `EndedTasks`: a turn whose end is recorded has no task, if no task outlives the 15 s wait.
  `OneDriverHolds` is `[](~Stubborn => OneDriver)`; with `Stubborn` two tasks do drive one
  session, which is why `interrupt_and_start` waits.
- `CallInv`: a call is open only while its tool runs, while its answer is being stored, after an
  error, or after a second stop. With `EndedTasks` it gives `StoppedOnceIsAnsweredHolds`, also
  under `~Stubborn`: a task that send-now gave up closes its calls later than its turn ends. A
  close that failed is in `unstored`.
- `StoredInv`: what a turn that speaks has said is in the history, and stored a second time if it
  is within reach of a prune. `AnsweredStaysHolds` follows without a condition.
- `MailInv`: a text is in one place at a time (one queue, the hands of one plugin, a message, a
  send-now), and one whose request has no answer yet is nowhere. `WithdrawnIsGoneHolds` follows.
  `TookInv` and `HandInv` add where a text that was taken from a queue can be;
  `DoneLosesNothingHolds` follows, with failing storage too: what such a failure may lose is on a
  turn in `unstored`.

`ConfirmResume`. `FormTypes` types the history and says that the message of the running turn is
about forms the history shows; `BundleInv` that a bundle is never of a form that is already resolved, so that
`RunsOnceHolds`: only a bundle that was run and could be pruned again would run twice, and that is
one whose pass raised (`broken`). `SilentRoundIsOwedHolds` compares what answers a form (a bundle)
with what the broker takes for an answer. `OrphanInv` says what the prune may take, the message of a turn that
failed and whose votes the user was told had failed, and `VoteInv` that the latest stash of every open form, and a
bundle whose tools are about to run, is the user's last vote: from it `VotesSurviveHolds` and
`RunsAsVotedHolds`, both for `~EarlyFailure`. With `EarlyFailure` the first is false, as
`MCConfirmVotes.cfg` shows.

`Rewind`. `RewindInv`, which holds as long as nothing has `strayed`, has four parts.

- `ProjectInv`: the work tree is the changes of the invocations that the conversation mentions; from the reset
  to the truncation of the chat, those before the target's.
- `TurnInv`: nothing runs during a restore, and an invocation that has not called a
  tool has changed nothing.
- `MenuInv`: a checkpoint of invocation i holds the mentioned changes before i (`Faithful`), and the
  menu is in the order of the invocations. It is why a restore may be chosen from anywhere in the menu.
- `TargetInv`: the target is faithful and not in the middle of a turn, it is in the menu until the menu is cut at it, and
  what stays is older.

`FilesMatchChatHolds` is its first part; `UndoneStaysUndoneHolds` follows because a faithful target
holds a subset of what is there. `KeptIsPast` says that the conversation is cut where the files are.

`ProcessRegistry`. `IInv == TypeOK /\ LaunchInv /\ ChannelInv /\ HostInv`.

- `LaunchInv`: while a background launch is under way its record is "starting" and
  has no number. A Stop needs a number, so nothing finishes the record before
  the launch does, and the launch's `mark_started`, which does not look at the status,
  revives nothing. A foreground run has no such protection (its number is
  in the pidfile): that is `KilledVerdictStands`.
- `ChannelInv`: only a process whose launch is over is pumped, probed or killed.
- `HostInv`: a host process with a number on record is dead once its record
  is finished or gone, once Stop said so, and after a quit.

From it follow `NoHiddenHostHolds`, `PanelTellsTruthHolds`, `QuitLeavesNoHostHolds`, and
with one lemma per action group the action properties `FinishedForGoodHolds` and
`HostKilledStaysHolds`. `PanelTellsTruth` and `HostKilledStays` are proved and in no run.
`LiveRunsListed` and `BoxedNumbersStayInside` are stated beside them and in no run either; added to
`MCWorkspace.cfg` they hold. `RunInv` is about the foreground runs: a run has no process before it is handed to
exec, and the Stop that reads its own number closes its record; so what a sweep finds open it
closes, unless a stranger answers for the number (`RunRecordsCloseHolds`).

`SessionStore`. `StoreInv`: while a session is gone there is no file, and either the id is marked,
so that an append is dropped, or nobody is left to write (a crash forgets the marks, and the
writers with them). That is `NoRebirthHolds`. `FileInv`: a file that loads has exactly the
kept events; a torn line makes it unloadable for good, and every other write adds the event to
both. That is `LoadsWhatWasKeptHolds`.

`Compaction`. `HistoryInv`: every fold of the history, the one a compaction has computed and not
yet appended included, ends below the first call that still waits, and an answered call stays
answered; so a fold that was allowed when it was computed may still be appended
(`ParkedCallStaysHolds`).
`Permission`. `ModesClimb` and `AllowRuleHelps` compare `Decide` between modes and with an allow
rule, case by case, from `GateTypes`; `ModesAreOrderedHolds` follows.
`RunsOnlyWhatIsNotDeniedHolds` needs that the rules an answer adds never turn a decision into a
denial (`RulesAfterAllows`).

`Identity`. `IdentityInv == IdentityTypes /\ NamesOK /\ OneLivePerChain`. A call that holds a record
only writes it back revoked, and the one step that adds a live token to a chain, the swap,
revokes the live one in the same step; `NamesOK` says that a record names itself, so that the
write-back lands where it was read. `OneLivePerChainHolds` is its last conjunct. `DisabledInv`: while account operations come
one at a time, each still reads what it will write (`ReadIsCurrent`), so only the first write of
"disable" can leave a disabled member with a live token, and then the revocation is that call's next
write (`DisabledCovered`); a rotation that overlaps it replaces a live token of the same member.
A change of password issues its token after its own revocation; if the member is disabled by then,
they are in `reopened` until the next revocation. `DisabledHasNoSessionHolds` follows.

`Memory`. `MemoryInv`: one pass at a time (`OnePass`); the copy a pass will write back still covers
the item (`CopyCovers`), so does what a corroboration holds (`RaiseCovered`); what is about to be
marked is already said somewhere (`MarksFolded`: write, then mark). Every step lets items say more
or accounts for it in `overwritten` (`Grows`). `FactsSurviveHolds` and `MemoryTypesHold` follow.

`Wiki`. `WikiInv`: one run at a time (`OneRun`); its copies have every note of the pages it will
replace or delete (`CopyCovers`), what it is about to archive is on the page
(`OutIsPublished`), and an archived note is on a page or with a fold that has deleted its page
(`Readable`, `OnlyFoldsFold`). `ArchivedIsKeptHolds` follows.

`TurnTail`. `TailInv`: a chunk ends where the buffer ended when it was taken, the end of the turn is
read with it, and only a turn that is over has left messages, which then have their follow-up.
`StreamIsExactHolds` follows.

`Subagents`. `SubInv`: while no two collects overlap, the collect under way waits for explorers of the
session's bucket (`CollectsFromBucket`), the bucket holds nothing that was reported
(`BucketIsNews`), and what works has its turn (`WorkHasItsTurn`). `ReportedOnceHolds`,
`NoneForgottenHolds` and `EndLeavesNoneHolds` follow.

`BringUp`. `BringInv`: the lock of docker and of the service back end has one holder (`Mutex`), and
as long as nothing goes wrong outside, the box that has the session's name stays, is the one every
call deals with, and is up when the back end remembers it (`CalmInv`). `CallsShareOneBoxHolds` follows,
for every number of calls.

Only model-checked: the liveness properties (`TurnsEnd`, `RequestsEnd`, `PumpSeesTheEnd`,
`CollectReturns`, `StreamsEnd`, `ConfirmTurnsEnd`, `NotesSettle`, `BringUpEnds`), which are out of the
prover's reach together with ENABLED. Every invariant and action property of the passing runs is a
theorem, with the hypotheses `~Stubborn` and `~EarlyFailure` where they are named above; what
happens without them `MCTurnStubborn.cfg` and `MCConfirmVotes.cfg` show. No model uses a RECURSIVE
operator, and no theorem needs induction over data.

## Plan

Done: the modules and proofs above. Next, in this order:

1. `TaskList` — `tasks/storage.py`: an update writes back a record it read before the lock;
   abstract specification: a map with atomic updates.
2. `Credentials` — the OAuth refresh of one provider (`codex_auth`, `codex_oauth`): two refreshes of
   one grant, and the waits of the model layer at a rate limit.
3. Remembered allow-rules and quota windows: user state that two sessions read and write back.
4. `StaleAppend` — `plugins/session_retry.py` over a database session service, where an append
   checks a timestamp.
5. The personal wiki pass and notes marked `no_promote`, in `Wiki`.

Theorems: a refinement of `ConfirmResume` (each form is decided once and its tool runs as decided),
and of `Rewind` (a restore is one step of chat and files).

## Not modelled, and why

- Task list, credentials, document store, artifacts, settings: key-value files with atomic
  replacement; the lost update of a record read earlier is in the plan.
- Models, model pacing, MCP, skills, tools: adapters to outside systems or single calls whose
  outcome is content.
- ssh and e2b back ends, file transfer and path mapping: single requests. The local container's
  own check uses the same lock as docker's and is not repeated.
- Notes, titles, prompt shaping, redaction, observability: text.
- Identity beyond accounts and refresh tokens: invites, reset links, API keys, password hashing,
  JWTs and rate limits.
- Wiki and memory: the personal pass, withholding of personal data, index rebuild, recall,
  `record_access`, `revert_semantic`.
- Session store: side files of user and app state, listing; the stale-append retry belongs to the
  database service.
- Of the broker, the error classification and the ownership checks: nothing the
  properties tell apart depends on them.
- Authorization policy: a stateless function of loaded rules.
- Web UI and desktop shell: rendering and process start, except for the stream loop and the reopening of
  a session.
