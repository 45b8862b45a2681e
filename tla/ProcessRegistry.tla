--------------------------- MODULE ProcessRegistry ---------------------------
(***************************************************************************)
(* The registry of long-running processes (sandbox/process_registry.py)    *)
(* with everything that writes to it: the host backend that starts, pumps  *)
(* and reaps background commands (noop_backend.py), the container backend  *)
(* that starts, probes and kills them through its runtime                  *)
(* (local_container_backend.py), the code executor that records its        *)
(* foreground runs (code_executor.py), the Stop routes and tool, and the   *)
(* application that quits, crashes and comes back.                         *)
(*                                                                         *)
(* Coroutines share one event loop; foreground runs and container commands *)
(* are threads of their own.  registry.terminate() blocks the loop until   *)
(* the group is dead, so for coroutines it is one step.                    *)
(***************************************************************************)
EXTENDS Naturals, FiniteSets

CONSTANTS
    Host,       \* background commands on the host (backend "noop")
    Runs,       \* foreground code executions on the host (backend "noop")
    Boxed,      \* background commands in the session's container
    Mixes,      \* bound: which commands are ever launched, together
    Cap,        \* _FOREGROUND_HISTORY_CAP
    MaxStops,   \* bound: crashes and quits of the application
    Reused      \* bound: processes whose group number may come to name an unrelated one

ASSUME ProcessRegistryAssumption ==
    /\ Host \cap Runs = {} /\ Host \cap Boxed = {} /\ Runs \cap Boxed = {}
    /\ IsFiniteSet(Runs)
    /\ Mixes \subseteq SUBSET (Host \cup Runs \cup Boxed)
    /\ Cap \in Nat \ {0} /\ MaxStops \in Nat /\ Reused \subseteq Host \cup Runs \cup Boxed

Procs == Host \cup Runs \cup Boxed
Local == Host \cup Runs

Active   == {"starting", "running"}
Finished == {"exited", "killed", "unknown"}   \* "exited" stands for "failed" too

VARIABLES
    up,         \* the application: "up", "crashed" or "quit"
    stops,      \* crashes and quits so far
    rec,        \* status of the record; "none" not created, "dropped" forgotten
    group,      \* whose number rec.pgid holds: nobody's, this process's or an
                \* earlier run's
    pidfile,    \* the same of the number in a foreground run's pidfile
    proc,       \* the process: "none", "alive", "dead", or "missing": a run whose
                \* shell found no interpreter (exit 127)
    stage,      \* where the code that launches the process stands
    retried,    \* foreground runs whose command was run a second time after that
    pumped,     \* host processes whose _pump task is running
    strangers,  \* processes whose recorded number names an unrelated host group
    hurt,       \* history variable: records whose Stop signalled an unrelated group
    probe,      \* sync_background_log in flight and what its probe saw
    killer,     \* terminate_background in flight
    box,        \* the session's container exists
    removing,   \* remove_session_container is between rm and the records
    told        \* history variable: who was told that the process is stopped

appVars == <<up, stops>>
boxVars == <<box, removing, probe, killer>>
vars == <<appVars, rec, group, pidfile, proc, stage, retried, pumped, strangers, hurt,
          boxVars, told>>

Init ==
    /\ up = "up" /\ stops = 0
    /\ rec = [p \in Procs |-> "none"]
    /\ group = [p \in Procs |-> "none"]
    /\ proc = [p \in Procs |-> "none"]
    /\ \E mix \in Mixes :
         /\ stage = [p \in Procs |-> IF p \in mix THEN "none" ELSE "over"]
         /\ \E again \in SUBSET (Runs \cap mix) :      \* code that ran before
              pidfile = [p \in Runs |-> IF p \in again THEN "earlier" ELSE "none"]
    /\ retried = {} /\ pumped = {} /\ strangers = {} /\ hurt = {}
    /\ probe = [p \in Boxed |-> "idle"]
    /\ killer = [p \in Boxed |-> "idle"]
    /\ box = FALSE /\ removing = FALSE
    /\ told = [p \in Procs |-> "no"]

-----------------------------------------------------------------------------
(* The registry's own operations.                                          *)

\* mark_exited, mark_running: no effect on a record that was dropped.
Marked(p, s) == [rec EXCEPT ![p] = IF @ = "dropped" THEN @ ELSE s]

\* _pgid_alive(rec.pgid): asked of THIS host, whatever backend the record names.
GroupAlive(p) ==
    \/ p \in strangers
    \/ p \in Local /\ group[p] = "own" /\ proc[p] = "alive"

\* The number terminate() works with: rec.pgid, else what the pidfile holds.
Number(p) == IF group[p] = "none" /\ p \in Runs THEN pidfile[p] ELSE group[p]

Stops_AnyBackend(p) == rec[p] \notin {"none", "dropped"} /\ Number(p) # "none"

\* terminate() answers True.
Stops(p) ==
    /\ rec[p] \notin {"none", "dropped"}
    /\ Number(p) # "none"
    /\ rec[p] \in Active => p \in Local

\* terminate() signals the group and records "killed".
Kills(p) == Stops(p) /\ rec[p] \in Active

\* The effect of terminate() on each process of S.
Terminate(S) ==
    LET killed == {p \in S : Kills(p)} IN
    /\ group' = [p \in Procs |-> IF p \in S /\ rec[p] \notin {"none", "dropped"}
                                 THEN Number(p) ELSE group[p]]
    /\ rec' = [p \in Procs |-> IF p \in killed THEN "killed" ELSE rec[p]]
    /\ hurt' = hurt \cup (killed \cap strangers)
    /\ strangers' = strangers \ killed

Signalled(S) == {p \in S : Kills(p) /\ Number(p) = "own" /\ proc[p] = "alive"}

Drops_AnyRun(S) ==
    LET kept == {r \in Runs : rec[r] \notin {"none", "dropped"}} IN
    /\ S \subseteq kept
    /\ Cardinality(S) = IF Cardinality(kept) < Cap THEN 0 ELSE Cardinality(kept) - Cap + 1

\* Which finished foreground records _cap_foreground_history drops (the oldest
\* ones; the age is left out).
Drops(S) ==
    LET done == {r \in Runs : rec[r] \in Finished} IN
    /\ S \subseteq done
    /\ Cardinality(S) = IF Cardinality(done) < Cap THEN 0 ELSE Cardinality(done) - Cap + 1

\* forget
Forget(p) ==
    /\ up = "up" /\ rec[p] \in Finished
    /\ rec' = [rec EXCEPT ![p] = "dropped"]
    /\ UNCHANGED <<appVars, group, pidfile, proc, stage, retried, pumped, strangers, hurt,
                   boxVars, told>>

-----------------------------------------------------------------------------
(* The host backend: start_background and its pump.                        *)

\* create(); then _runtime_env is awaited.
HostCreate(p) ==
    /\ up = "up" /\ stage[p] = "none"
    /\ rec' = [rec EXCEPT ![p] = "starting"]
    /\ stage' = [stage EXCEPT ![p] = "created"]
    /\ UNCHANGED <<appVars, group, pidfile, proc, retried, pumped, strangers, hurt,
                   boxVars, told>>

\* create_subprocess_shell forks the child and suspends, or raises.
HostSpawn(p) ==
    /\ up = "up" /\ stage[p] = "created"
    /\ \/ /\ proc' = [proc EXCEPT ![p] = "alive"]
          /\ stage' = [stage EXCEPT ![p] = "spawned"]
          /\ UNCHANGED rec
       \/ /\ rec' = Marked(p, "exited")
          /\ stage' = [stage EXCEPT ![p] = "over"]
          /\ UNCHANGED proc
    /\ UNCHANGED <<appVars, group, pidfile, retried, pumped, strangers, hurt, boxVars, told>>

\* mark_started, and the pump begins.
HostStarted(p) ==
    /\ up = "up" /\ stage[p] = "spawned"
    /\ rec' = Marked(p, "running")
    /\ group' = [group EXCEPT ![p] = "own"]
    /\ pumped' = pumped \cup {p}
    /\ stage' = [stage EXCEPT ![p] = "over"]
    /\ UNCHANGED <<appVars, pidfile, proc, retried, strangers, hurt, boxVars, told>>

\* The turn that launches is stopped (or _runtime_env raises): the transport of
\* a cancelled create_subprocess_shell kills the child, nothing marks the record.
HostCancelled(p) ==
    /\ up = "up" /\ stage[p] \in {"created", "spawned"}
    /\ proc' = [proc EXCEPT ![p] = IF @ = "alive" THEN "dead" ELSE @]
    /\ stage' = [stage EXCEPT ![p] = "over"]
    /\ UNCHANGED <<appVars, rec, group, pidfile, retried, pumped, strangers, hurt, boxVars, told>>

Pump_Overwrites(p) ==
    /\ up = "up" /\ p \in pumped /\ proc[p] = "dead"
    /\ rec' = Marked(p, "exited")
    /\ pumped' = pumped \ {p}
    /\ UNCHANGED <<appVars, group, pidfile, proc, stage, retried, strangers, hurt, boxVars, told>>

Pump_StartingOnly(p) ==
    /\ up = "up" /\ p \in pumped /\ proc[p] = "dead"
    /\ rec' = IF rec[p] = "starting" THEN [rec EXCEPT ![p] = "exited"] ELSE rec
    /\ pumped' = pumped \ {p}
    /\ UNCHANGED <<appVars, group, pidfile, proc, stage, retried, strangers, hurt, boxVars, told>>

\* The end of _pump: the process is gone; a verdict already recorded stands.
Pump(p) ==
    /\ up = "up" /\ p \in pumped /\ proc[p] = "dead"
    /\ rec' = IF rec[p] \in Active THEN [rec EXCEPT ![p] = "exited"] ELSE rec
    /\ pumped' = pumped \ {p}
    /\ UNCHANGED <<appVars, group, pidfile, proc, stage, retried, strangers, hurt, boxVars, told>>

-----------------------------------------------------------------------------
(* The code executor: a foreground run, on a thread of its own.            *)

\* _record_start; then the script is written and its environment built.
RunCreate(p) ==
    /\ up = "up" /\ stage[p] = "none"
    /\ \E S \in SUBSET Runs :
         /\ Drops(S)
         /\ rec' = [r \in Procs |-> IF r = p THEN "starting"
                                    ELSE IF r \in S THEN "dropped" ELSE rec[r]]
    /\ stage' = [stage EXCEPT ![p] = "created"]
    /\ UNCHANGED <<appVars, group, pidfile, proc, retried, pumped, strangers, hurt,
                   boxVars, told>>

RunMark_Forgets(p) ==
    /\ up = "up" /\ stage[p] = "created"
    /\ \/ /\ rec' = Marked(p, "running")
          /\ stage' = [stage EXCEPT ![p] = "marked"]
       \/ /\ stage' = [stage EXCEPT ![p] = "over"]
          /\ UNCHANGED rec
    /\ UNCHANGED <<appVars, group, pidfile, proc, retried, pumped, strangers, hurt, boxVars, told>>

\* _mark_running, right before exec; or the environment could not be built.
RunMark(p) ==
    /\ up = "up" /\ stage[p] = "created"
    /\ \/ /\ rec' = Marked(p, "running")
          /\ stage' = [stage EXCEPT ![p] = "marked"]
       \/ /\ stage' = [stage EXCEPT ![p] = "returned"]
          /\ UNCHANGED rec
    /\ UNCHANGED <<appVars, group, pidfile, proc, retried, pumped, strangers, hurt, boxVars, told>>

\* exec forks the shell, or raises.
RunSpawn(p) ==
    /\ up = "up" /\ stage[p] = "marked"
    /\ \/ /\ proc' = [proc EXCEPT ![p] = "alive"]
          /\ stage' = [stage EXCEPT ![p] = "spawned"]
       \/ /\ stage' = [stage EXCEPT ![p] = "returned"]
          /\ UNCHANGED proc
    /\ UNCHANGED <<appVars, rec, group, pidfile, retried, pumped, strangers, hurt, boxVars, told>>

\* `echo $$ > rel_pid`: the shell's first act, done even if the application is gone.
WritePid(p) ==
    /\ proc[p] = "alive" /\ pidfile[p] # "own"
    /\ pidfile' = [pidfile EXCEPT ![p] = "own"]
    /\ UNCHANGED <<appVars, rec, group, proc, stage, retried, pumped, strangers, hurt, boxVars, told>>

\* The shell, its number written, finds no interpreter.
RunMissing(p) ==
    /\ stage[p] = "spawned" /\ proc[p] = "alive" /\ pidfile[p] = "own" /\ p \notin retried
    /\ proc' = [proc EXCEPT ![p] = "missing"]
    /\ UNCHANGED <<appVars, rec, group, pidfile, stage, retried, pumped, strangers, hurt,
                   boxVars, told>>

\* exec returns.  After exit 127 the command is run once more under the same
\* record: what was known of the first shell is then an earlier run's number.
RunReturn(p) ==
    /\ up = "up" /\ stage[p] = "spawned"
    /\ \/ /\ proc[p] = "dead"
          /\ stage' = [stage EXCEPT ![p] = "returned"]
          /\ UNCHANGED <<proc, pidfile, group, retried>>
       \/ /\ proc[p] = "missing"
          /\ proc' = [proc EXCEPT ![p] = "dead"]
          /\ retried' = retried \cup {p}
          /\ stage' = [stage EXCEPT ![p] = "marked"]
          /\ pidfile' = [pidfile EXCEPT ![p] = "earlier"]
          /\ group' = [group EXCEPT ![p] = IF @ = "own" THEN "earlier" ELSE @]
    /\ UNCHANGED <<appVars, rec, pumped, strangers, hurt, boxVars, told>>

\* finalize_foreground: looks at the status ...
FinalizeCheck(p) ==
    /\ up = "up" /\ stage[p] = "returned"
    /\ stage' = [stage EXCEPT ![p] = IF rec[p] \in {"killed", "dropped"} THEN "over" ELSE "marking"]
    /\ UNCHANGED <<appVars, rec, group, pidfile, proc, retried, pumped, strangers, hurt,
                   boxVars, told>>

\* ... and then marks it, with the event loop free to run in between.
FinalizeMark(p) ==
    /\ up = "up" /\ stage[p] = "marking"
    /\ rec' = Marked(p, "exited")
    /\ stage' = [stage EXCEPT ![p] = "over"]
    /\ UNCHANGED <<appVars, group, pidfile, proc, retried, pumped, strangers, hurt, boxVars, told>>

-----------------------------------------------------------------------------
(* The container backend.                                                  *)

\* create(); then _ensure_container is awaited.
BoxCreate(p) ==
    /\ up = "up" /\ stage[p] = "none"
    /\ rec' = [rec EXCEPT ![p] = "starting"]
    /\ stage' = [stage EXCEPT ![p] = "created"]
    /\ UNCHANGED <<appVars, group, pidfile, proc, retried, pumped, strangers, hurt,
                   boxVars, told>>

\* The container runs (it was there or is created) and _spawn is handed to a
\* thread; or the sandbox is unavailable.
BoxEnsure(p) ==
    /\ up = "up" /\ stage[p] = "created"
    /\ \/ /\ box' = TRUE
          /\ stage' = [stage EXCEPT ![p] = "spawning"]
          /\ UNCHANGED rec
       \/ /\ rec' = Marked(p, "exited")
          /\ stage' = [stage EXCEPT ![p] = "over"]
          /\ UNCHANGED box
    /\ UNCHANGED <<appVars, group, pidfile, proc, retried, pumped, strangers, hurt,
                   removing, probe, killer, told>>

\* The thread runs `setsid nohup ... &` in the container.  The command line may
\* time out whether or not the process was started.
BoxSpawn(p) ==
    /\ up = "up" /\ stage[p] \in {"spawning", "abandoned"}
    /\ \E started \in {b \in BOOLEAN : b => box}, answered \in BOOLEAN :
         /\ proc' = [proc EXCEPT ![p] = IF started THEN "alive" ELSE @]
         /\ stage' = [stage EXCEPT ![p] = IF @ = "abandoned" THEN "over"
                                          ELSE IF started /\ answered THEN "spawned"
                                          ELSE "failed"]
    /\ UNCHANGED <<appVars, rec, group, pidfile, retried, pumped, strangers, hurt, boxVars, told>>

\* start_background goes on: mark_started with the pid the shell echoed, or "failed".
BoxStarted(p) ==
    /\ up = "up" /\ stage[p] \in {"spawned", "failed"}
    /\ rec' = Marked(p, IF stage[p] = "spawned" THEN "running" ELSE "exited")
    /\ group' = [group EXCEPT ![p] = IF stage[p] = "spawned" THEN "own" ELSE @]
    /\ stage' = [stage EXCEPT ![p] = "over"]
    /\ UNCHANGED <<appVars, pidfile, proc, retried, pumped, strangers, hurt, boxVars, told>>

\* The launching turn is stopped; a thread that already has the command line
\* runs it all the same.
BoxCancelled(p) ==
    /\ up = "up" /\ stage[p] \in {"created", "spawning", "spawned", "failed"}
    /\ stage' = [stage EXCEPT ![p] = IF @ = "spawning" THEN "abandoned" ELSE "over"]
    /\ UNCHANGED <<appVars, rec, group, pidfile, proc, retried, pumped, strangers, hurt,
                   boxVars, told>>

\* sync_background_log, up to its await.
ProbeAsk(p) ==
    /\ up = "up" /\ probe[p] = "idle" /\ group[p] # "none" /\ rec[p] \in Active
    /\ probe' = [probe EXCEPT ![p] = "asked"]
    /\ UNCHANGED <<appVars, rec, group, pidfile, proc, stage, retried, pumped, strangers, hurt,
                   box, removing, killer, told>>

ProbeLook_KeepsLive(p) ==
    /\ up = "up" /\ probe[p] = "asked"
    /\ \E seen \in {"idle", "gone"} \cup
                   IF ~box THEN {} ELSE IF proc[p] = "alive" THEN {"live"} ELSE {"dead"} :
         probe' = [probe EXCEPT ![p] = seen]
    /\ UNCHANGED <<appVars, rec, group, pidfile, proc, stage, retried, pumped, strangers, hurt,
                   box, removing, killer, told>>

\* The thread looks.  A living group and a command line that times out change
\* nothing; any other failure of the command is taken for a removed container.
ProbeLook(p) ==
    /\ up = "up" /\ probe[p] = "asked"
    /\ \E seen \in {"idle", "gone"} \cup
                   IF ~box THEN {} ELSE IF proc[p] = "alive" THEN {"idle"} ELSE {"dead"} :
         probe' = [probe EXCEPT ![p] = seen]
    /\ UNCHANGED <<appVars, rec, group, pidfile, proc, stage, retried, pumped, strangers, hurt,
                   box, removing, killer, told>>

\* mark_container_gone: every record of the container that is not finished.
ContainerGone == [p \in Procs |-> IF p \in Boxed /\ group[p] # "none" /\ rec[p] \in Active
                                  THEN "exited" ELSE rec[p]]

\* sync_background_log goes on with what the probe saw.
ProbeMark(p) ==
    /\ up = "up" /\ probe[p] \in {"dead", "gone"}
    /\ rec' = IF probe[p] = "gone" THEN ContainerGone ELSE Marked(p, "exited")
    /\ probe' = [probe EXCEPT ![p] = "idle"]
    /\ UNCHANGED <<appVars, group, pidfile, proc, stage, retried, pumped, strangers, hurt,
                   box, removing, killer, told>>

\* terminate_background: the thread kills the group, if the container answers.
KillSent(p) ==
    /\ up = "up" /\ killer[p] = "asked"
    /\ \E reached, answered \in BOOLEAN :
         /\ proc' = [proc EXCEPT ![p] = IF reached /\ @ = "alive" THEN "dead" ELSE @]
         /\ killer' = [killer EXCEPT ![p] = IF reached /\ answered THEN "sent" ELSE "idle"]
    /\ UNCHANGED <<appVars, rec, group, pidfile, stage, retried, pumped, strangers, hurt,
                   box, removing, probe, told>>

\* terminate_background goes on: whatever the record says by now, "killed".
KillMark(p) ==
    /\ up = "up" /\ killer[p] = "sent"
    /\ rec' = Marked(p, "killed")
    /\ killer' = [killer EXCEPT ![p] = "idle"]
    /\ told' = [told EXCEPT ![p] = "panel"]
    /\ UNCHANGED <<appVars, group, pidfile, proc, stage, retried, pumped, strangers, hurt,
                   box, removing, probe>>

\* remove_session_container, on a thread: the container is removed ...
BoxRemove ==
    /\ up = "up" /\ box /\ ~removing
    /\ box' = FALSE /\ removing' = TRUE
    /\ proc' = [p \in Procs |-> IF p \in Boxed /\ proc[p] = "alive" THEN "dead" ELSE proc[p]]
    /\ UNCHANGED <<appVars, rec, group, pidfile, stage, retried, pumped, strangers, hurt,
                   probe, killer, told>>

\* ... and then its records are closed.
BoxRemoved ==
    /\ up = "up" /\ removing
    /\ rec' = ContainerGone
    /\ removing' = FALSE
    /\ UNCHANGED <<appVars, group, pidfile, proc, stage, retried, pumped, strangers, hurt,
                   box, probe, killer, told>>

-----------------------------------------------------------------------------
(* Stop.                                                                   *)

\* POST /api/processes/{id}/terminate for a host process: terminate() decides
\* the answer.
PanelStop(p) ==
    /\ up = "up" /\ p \in Local /\ rec[p] \notin {"none", "dropped"}
    /\ Terminate({p})
    /\ proc' = [q \in Procs |-> IF q \in Signalled({p}) THEN "dead" ELSE proc[q]]
    /\ told' = IF Stops(p) THEN [told EXCEPT ![p] = "panel"] ELSE told
    /\ UNCHANGED <<appVars, pidfile, stage, retried, pumped, boxVars>>

\* The same route for a container process, up to its await.
PanelStopBoxed(p) ==
    /\ up = "up" /\ rec[p] \notin {"none", "dropped"} /\ group[p] # "none"
    /\ killer[p] = "idle"
    /\ killer' = [killer EXCEPT ![p] = "asked"]
    /\ UNCHANGED <<appVars, rec, group, pidfile, proc, stage, retried, pumped, strangers, hurt,
                   box, removing, probe, told>>

\* The stop_process tool: it calls terminate() and answers "stopped".
ToolStop(p) ==
    /\ up = "up" /\ rec[p] \in Active
    /\ Terminate({p})
    /\ proc' = [q \in Procs |-> IF q \in Signalled({p}) THEN "dead" ELSE proc[q]]
    /\ told' = [told EXCEPT ![p] = "tool"]
    /\ UNCHANGED <<appVars, pidfile, stage, retried, pumped, boxVars>>

-----------------------------------------------------------------------------
(* The world: processes end, group numbers are reused, the application     *)
(* stops and starts.                                                       *)

Die(p) ==
    /\ proc[p] = "alive"
    /\ proc' = [proc EXCEPT ![p] = "dead"]
    /\ UNCHANGED <<appVars, rec, group, pidfile, stage, retried, pumped, strangers, hurt,
                   boxVars, told>>

\* The number in a record comes to name an unrelated group of the host.  A child
\* that ended keeps its number until the application that waits for it collects it.
\* A container's numbers count in a namespace of their own, so they may at any time.
NumberReused(p) ==
    /\ p \in Reused \ strangers /\ Number(p) # "none"
    /\ (p \in Local /\ Number(p) = "own") =>
          proc[p] # "alive" /\ p \notin pumped /\ stage[p] # "spawned"
    /\ strangers' = strangers \cup {p}
    /\ UNCHANGED <<appVars, rec, group, pidfile, proc, stage, retried, pumped, hurt, boxVars, told>>

\* What an application that ended leaves of its own doings.
Gone(reason) ==
    /\ up' = reason /\ stops' = stops + 1
    /\ stage' = [p \in Procs |-> IF stage[p] = "none" THEN "none" ELSE "over"]
    /\ pumped' = {} /\ removing' = FALSE
    /\ probe' = [p \in Boxed |-> "idle"]
    /\ killer' = [p \in Boxed |-> "idle"]
    /\ UNCHANGED <<pidfile, retried, box, told>>

Crash ==
    /\ up = "up" /\ stops < MaxStops
    /\ Gone("crashed")
    /\ UNCHANGED <<rec, group, proc, strangers, hurt>>

Quit_OwnGeneration ==
    /\ up = "up" /\ stops < MaxStops
    /\ Gone("quit")
    /\ Terminate(pumped)
    /\ proc' = [p \in Procs |->
                   IF \/ p \in Signalled(pumped)
                      \/ p \in Host /\ stage[p] = "spawned" /\ proc[p] = "alive"
                   THEN "dead" ELSE proc[p]]

\* The lifespan's end: terminate_all(), then the loop's tasks are cancelled,
\* which kills the child of a launch under way.
Quit ==
    /\ up = "up" /\ stops < MaxStops
    /\ Gone("quit")
    /\ Terminate(Procs)
    /\ proc' = [p \in Procs |->
                   IF \/ p \in Signalled(Procs)
                      \/ p \in Host /\ stage[p] = "spawned" /\ proc[p] = "alive"
                   THEN "dead" ELSE proc[p]]

Boot_ForgetsAll ==
    /\ up # "up"
    /\ up' = "up"
    /\ box' = FALSE
    /\ proc' = [p \in Procs |-> IF p \in Boxed /\ proc[p] = "alive" THEN "dead" ELSE proc[p]]
    /\ rec' = [p \in Procs |-> IF rec[p] \in Active THEN "unknown" ELSE rec[p]]
    /\ UNCHANGED <<stops, group, pidfile, stage, retried, pumped, strangers, hurt,
                   removing, probe, killer, told>>

Boot_Readopts ==
    /\ up # "up"
    /\ up' = "up"
    /\ box' = FALSE
    /\ proc' = [p \in Procs |-> IF p \in Boxed /\ proc[p] = "alive" THEN "dead" ELSE proc[p]]
    /\ rec' = [p \in Procs |-> IF rec[p] \in {"none", "dropped"} THEN rec[p]
                               ELSE IF group[p] # "none" /\ GroupAlive(p) THEN "running"
                               ELSE IF rec[p] \in Active THEN "unknown" ELSE rec[p]]
    /\ UNCHANGED <<stops, group, pidfile, stage, retried, pumped, strangers, hurt,
                   removing, probe, killer, told>>

\* The next start: the leftover containers are removed (sweep_orphans) and the
\* index is reconciled (sweep).
Boot ==
    /\ up # "up"
    /\ up' = "up"
    /\ box' = FALSE
    /\ proc' = [p \in Procs |-> IF p \in Boxed /\ proc[p] = "alive" THEN "dead" ELSE proc[p]]
    /\ rec' = [p \in Procs |-> IF rec[p] \in Active /\ ~(group[p] # "none" /\ GroupAlive(p))
                               THEN "unknown" ELSE rec[p]]
    /\ UNCHANGED <<stops, group, pidfile, stage, retried, pumped, strangers, hurt,
                   removing, probe, killer, told>>

-----------------------------------------------------------------------------
HostNext(p) == HostCreate(p) \/ HostSpawn(p) \/ HostStarted(p) \/ HostCancelled(p) \/ Pump(p)

RunNext(p) ==
    \/ RunCreate(p) \/ RunMark(p) \/ RunSpawn(p) \/ WritePid(p) \/ RunMissing(p)
    \/ RunReturn(p) \/ FinalizeCheck(p) \/ FinalizeMark(p)

BoxNext(p) ==
    \/ BoxCreate(p) \/ BoxEnsure(p) \/ BoxSpawn(p) \/ BoxStarted(p) \/ BoxCancelled(p)
    \/ ProbeAsk(p) \/ ProbeLook(p) \/ ProbeMark(p) \/ PanelStopBoxed(p) \/ KillSent(p) \/ KillMark(p)

ProcNext(p) ==
    PanelStop(p) \/ ToolStop(p) \/ Forget(p) \/ Die(p) \/ NumberReused(p)

Next ==
    \/ \E p \in Host : HostNext(p)
    \/ \E p \in Runs : RunNext(p)
    \/ \E p \in Boxed : BoxNext(p)
    \/ \E p \in Procs : ProcNext(p)
    \/ BoxRemove \/ BoxRemoved
    \/ Crash \/ Quit \/ Boot

Spec == Init /\ [][Next]_vars

\* The loop is fair to the pump of every host process.
PumpFairness == \A p \in Host : WF_vars(Pump(p))
FairSpec == Spec /\ PumpFairness

-----------------------------------------------------------------------------
(* Properties.                                                             *)

TypeOK ==
    /\ up \in {"up", "crashed", "quit"} /\ stops \in 0..MaxStops
    /\ rec \in [Procs -> {"none", "dropped"} \cup Active \cup Finished]
    /\ group \in [Procs -> {"none", "own", "earlier"}]
    /\ pidfile \in [Runs -> {"none", "own", "earlier"}]
    /\ proc \in [Procs -> {"none", "alive", "dead", "missing"}]
    /\ stage \in [Procs -> {"none", "created", "spawning", "spawned", "failed", "abandoned",
                           "marked", "returned", "marking", "over"}]
    /\ retried \subseteq Runs /\ pumped \subseteq Host /\ strangers \subseteq Procs
    /\ hurt \subseteq Procs /\ box \in BOOLEAN /\ removing \in BOOLEAN
    /\ probe \in [Boxed -> {"idle", "asked", "dead", "gone"}]
    /\ killer \in [Boxed -> {"idle", "asked", "sent"}]
    /\ told \in [Procs -> {"no", "panel", "tool"}]

\* A host background process the registry shows as finished, or no longer shows,
\* is dead: no Stop, crash, restart, sweep or forget leaves one running out of
\* sight (the reason the registry exists, process_registry.py 1-16).
NoHiddenHost ==
    \A p \in Host : rec[p] \in Finished \cup {"dropped"} /\ group[p] # "none" => proc[p] # "alive"

\* Once a background record is finished nothing reports it running again: not the
\* launch that goes on, the pump, a late probe, or the sweep after a restart.
FinishedForGood ==
    [][\A p \in Host \cup Boxed : rec[p] \in Finished => rec'[p] \notin Active]_vars

\* The user's Stop of a host background process stays the recorded verdict; the
\* pump that sees the kill's exit code does not overwrite it (noop_backend.py 207-208).
HostKilledStays ==
    [][\A p \in Host : rec[p] = "killed" => rec'[p] \in {"killed", "dropped"}]_vars

\* When the Stop route answers that a host background process was stopped, it is
\* dead and stays dead, however the launch, crashes and restarts interleave.
PanelTellsTruth ==
    \A p \in Host : told[p] = "panel" => proc[p] # "alive"

\* A graceful shutdown leaves no host background process that was ever recorded as
\* started: neither this generation's nor an adopted one (memory_scheduler.py 174-180).
QuitLeavesNoHost ==
    up = "quit" => \A p \in Host : group[p] # "none" => proc[p] # "alive"

\* When the executor of a foreground run is through, on whatever path, the record
\* does not stay open, across crashes too, unless the number that a Stop read from
\* its pidfile has come to name a stranger.
RunRecordsClose ==
    up = "up" => \A p \in Runs : stage[p] = "over" /\ rec[p] \in Active => p \in strangers

\* The history cap and forget never take a run off the list that is still going
\* and that nobody stopped.
LiveRunsListed ==
    \A p \in Runs : stage[p] \notin {"none", "over"} /\ told[p] = "no" => rec[p] # "dropped"

\* A container's group number is never signalled on the host, where it may name
\* an unrelated process, not even when the sweep took that process for it
\* (process_registry.py 394-397).
BoxedNumbersStayInside == hurt \cap Boxed = {}

\* While the application is up, the pump closes the record of a host process that ended.
PumpSeesTheEnd ==
    \A p \in Host : (up = "up" /\ p \in pumped /\ proc[p] = "dead")
                     ~> (rec[p] \notin Active \/ up # "up")

-----------------------------------------------------------------------------
(* What the repository says and the code does not do.                      *)

\* finalize_foreground "never downgrades a 'killed' verdict - the terminate path
\* already told the user what happened" (process_registry.py 200-201).
KilledVerdictStands ==
    [][\A p \in Procs : rec[p] = "killed" => rec'[p] \in {"killed", "dropped"}]_vars

\* stop_process "Terminates the whole process group" (tools/processes.py 129-131):
\* what it reports as stopped is not running.
StoppedIsStopped == \A p \in Procs : told[p] = "tool" => proc[p] # "alive"

=============================================================================
