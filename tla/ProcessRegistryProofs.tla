------------------------ MODULE ProcessRegistryProofs ------------------------
(***************************************************************************)
(* What holds of ProcessRegistry for any commands, any history cap, any    *)
(* number of crashes and quits, and any reuse of group numbers.            *)
(***************************************************************************)
EXTENDS ProcessRegistry, TLAPS

Stages == {"none", "created", "spawning", "spawned", "failed", "abandoned",
           "marked", "returned", "marking", "over"}

\* The type invariant holds initially.
LEMMA TypeInit == Init => TypeOK
  <1> SUFFICES ASSUME Init PROVE TypeOK
    OBVIOUS
  <1>1. stage \in [Procs -> Stages]
    BY DEF Init, Stages
  <1>2. pidfile \in [Runs -> {"none", "own", "earlier"}]
    BY DEF Init
  <1>3. stops \in 0..MaxStops
    BY ProcessRegistryAssumption DEF ProcessRegistryAssumption, Init
  <1> QED
    BY <1>1, <1>2, <1>3 DEF Init, TypeOK, Stages

\* terminate() and the registry's marks keep the types.
LEMMA TerminateType ==
  ASSUME TypeOK, NEW S \in SUBSET Procs, Terminate(S)
  PROVE  /\ rec' \in [Procs -> {"none", "dropped"} \cup Active \cup Finished]
         /\ group' \in [Procs -> {"none", "own", "earlier"}]
         /\ strangers' \subseteq Procs
         /\ hurt' \subseteq Procs
  <1>1. \A p \in Procs : Number(p) \in {"none", "own", "earlier"}
    BY DEF TypeOK, Number
  <1>2. group' \in [Procs -> {"none", "own", "earlier"}]
    BY <1>1 DEF TypeOK, Terminate
  <1>3. rec' \in [Procs -> {"none", "dropped"} \cup Active \cup Finished]
    BY DEF TypeOK, Terminate, Finished
  <1> QED
    BY <1>2, <1>3 DEF TypeOK, Terminate

LEMMA MarkedType ==
  ASSUME TypeOK, NEW p \in Procs, NEW s \in Active \cup Finished
  PROVE  Marked(p, s) \in [Procs -> {"none", "dropped"} \cup Active \cup Finished]
  BY DEF TypeOK, Marked

LEMMA HostType ==
  ASSUME TypeOK, NEW p \in Host, HostNext(p)
  PROVE  TypeOK'
  <1>p. p \in Procs
    BY DEF Procs
  <1>1. CASE HostCreate(p)
    BY <1>1, <1>p DEF TypeOK, HostCreate, Active, appVars, boxVars
  <1>2. CASE HostSpawn(p)
    <2>1. rec' \in [Procs -> {"none", "dropped"} \cup Active \cup Finished]
      BY <1>2, <1>p, MarkedType DEF TypeOK, HostSpawn, Finished
    <2> QED
      BY <1>2, <1>p, <2>1 DEF TypeOK, HostSpawn, appVars, boxVars
  <1>3. CASE HostStarted(p)
    <2>1. rec' \in [Procs -> {"none", "dropped"} \cup Active \cup Finished]
      BY <1>3, <1>p, MarkedType DEF HostStarted, Active
    <2> QED
      BY <1>3, <1>p, <2>1 DEF TypeOK, HostStarted, appVars, boxVars
  <1>4. CASE HostCancelled(p)
    BY <1>4, <1>p DEF TypeOK, HostCancelled, appVars, boxVars
  <1>5. CASE Pump(p)
    BY <1>5, <1>p DEF TypeOK, Pump, Finished, appVars, boxVars
  <1> QED
    BY <1>1, <1>2, <1>3, <1>4, <1>5 DEF HostNext

LEMMA RunType ==
  ASSUME TypeOK, NEW p \in Runs, RunNext(p)
  PROVE  TypeOK'
  <1>p. p \in Procs
    BY DEF Procs
  <1>1. CASE RunCreate(p)
    BY <1>1, <1>p DEF TypeOK, RunCreate, Active, appVars, boxVars
  <1>2. CASE RunMark(p)
    <2>1. rec' \in [Procs -> {"none", "dropped"} \cup Active \cup Finished]
      BY <1>2, <1>p, MarkedType DEF TypeOK, RunMark, Active
    <2> QED
      BY <1>2, <1>p, <2>1 DEF TypeOK, RunMark, appVars, boxVars
  <1>3. CASE RunSpawn(p)
    BY <1>3, <1>p DEF TypeOK, RunSpawn, appVars, boxVars
  <1>4. CASE WritePid(p)
    BY <1>4, <1>p DEF TypeOK, WritePid, appVars, boxVars
  <1>5. CASE RunMissing(p)
    BY <1>5, <1>p DEF TypeOK, RunMissing, appVars, boxVars
  <1>6. CASE RunReturn(p)
    BY <1>6, <1>p DEF TypeOK, RunReturn, appVars, boxVars
  <1>7. CASE FinalizeCheck(p)
    BY <1>7, <1>p DEF TypeOK, FinalizeCheck, appVars, boxVars
  <1>8. CASE FinalizeMark(p)
    <2>1. rec' \in [Procs -> {"none", "dropped"} \cup Active \cup Finished]
      BY <1>8, <1>p, MarkedType DEF FinalizeMark, Finished
    <2> QED
      BY <1>8, <1>p, <2>1 DEF TypeOK, FinalizeMark, appVars, boxVars
  <1> QED
    BY <1>1, <1>2, <1>3, <1>4, <1>5, <1>6, <1>7, <1>8 DEF RunNext

LEMMA ContainerGoneType ==
  ASSUME TypeOK
  PROVE  ContainerGone \in [Procs -> {"none", "dropped"} \cup Active \cup Finished]
  BY DEF TypeOK, ContainerGone, Finished

LEMMA BoxType ==
  ASSUME TypeOK, NEW p \in Boxed, BoxNext(p)
  PROVE  TypeOK'
  <1>p. p \in Procs
    BY DEF Procs
  <1>1. CASE BoxCreate(p)
    BY <1>1, <1>p DEF TypeOK, BoxCreate, Active, appVars, boxVars
  <1>2. CASE BoxEnsure(p)
    <2>1. rec' \in [Procs -> {"none", "dropped"} \cup Active \cup Finished]
      BY <1>2, <1>p, MarkedType DEF TypeOK, BoxEnsure, Finished
    <2> QED
      BY <1>2, <1>p, <2>1 DEF TypeOK, BoxEnsure, appVars
  <1>3. CASE BoxSpawn(p)
    BY <1>3, <1>p DEF TypeOK, BoxSpawn, appVars, boxVars
  <1>4. CASE BoxStarted(p)
    <2>1. rec' \in [Procs -> {"none", "dropped"} \cup Active \cup Finished]
      BY <1>4, <1>p, MarkedType DEF BoxStarted, Active, Finished
    <2> QED
      BY <1>4, <1>p, <2>1 DEF TypeOK, BoxStarted, appVars, boxVars
  <1>5. CASE BoxCancelled(p)
    BY <1>5, <1>p DEF TypeOK, BoxCancelled, appVars, boxVars
  <1>6. CASE ProbeAsk(p)
    BY <1>6, <1>p DEF TypeOK, ProbeAsk, appVars
  <1>7. CASE ProbeLook(p)
    BY <1>7, <1>p DEF TypeOK, ProbeLook, appVars
  <1>8. CASE ProbeMark(p)
    <2>1. rec' \in [Procs -> {"none", "dropped"} \cup Active \cup Finished]
      BY <1>8, <1>p, MarkedType, ContainerGoneType DEF ProbeMark, Finished
    <2> QED
      BY <1>8, <1>p, <2>1 DEF TypeOK, ProbeMark, appVars
  <1>9. CASE PanelStopBoxed(p)
    BY <1>9, <1>p DEF TypeOK, PanelStopBoxed, appVars
  <1>10. CASE KillSent(p)
    BY <1>10, <1>p DEF TypeOK, KillSent, appVars
  <1>11. CASE KillMark(p)
    <2>1. rec' \in [Procs -> {"none", "dropped"} \cup Active \cup Finished]
      BY <1>11, <1>p, MarkedType DEF KillMark, Finished
    <2> QED
      BY <1>11, <1>p, <2>1 DEF TypeOK, KillMark, appVars
  <1> QED
    BY <1>1, <1>2, <1>3, <1>4, <1>5, <1>6, <1>7, <1>8, <1>9, <1>10, <1>11 DEF BoxNext

LEMMA AnyType ==
  ASSUME TypeOK, NEW p \in Procs, ProcNext(p)
  PROVE  TypeOK'
  <1>1. CASE PanelStop(p)
    BY <1>1, TerminateType DEF TypeOK, PanelStop, appVars, boxVars
  <1>2. CASE ToolStop(p)
    BY <1>2, TerminateType DEF TypeOK, ToolStop, appVars, boxVars
  <1>3. CASE Forget(p)
    BY <1>3 DEF TypeOK, Forget, appVars, boxVars
  <1>4. CASE Die(p)
    BY <1>4 DEF TypeOK, Die, appVars, boxVars
  <1>5. CASE NumberReused(p)
    BY <1>5 DEF TypeOK, NumberReused, appVars, boxVars
  <1> QED
    BY <1>1, <1>2, <1>3, <1>4, <1>5 DEF ProcNext

\* What the end of the application leaves has the right types.
LEMMA GoneType ==
  ASSUME TypeOK, stops < MaxStops, NEW reason \in {"crashed", "quit"}, Gone(reason)
  PROVE  /\ up' \in {"up", "crashed", "quit"} /\ stops' \in 0..MaxStops
         /\ pidfile' \in [Runs -> {"none", "own", "earlier"}]
         /\ stage' \in [Procs -> Stages]
         /\ retried' \subseteq Runs /\ pumped' \subseteq Host
         /\ box' \in BOOLEAN /\ removing' \in BOOLEAN
         /\ probe' \in [Boxed -> {"idle", "asked", "dead", "gone"}]
         /\ killer' \in [Boxed -> {"idle", "asked", "sent"}]
         /\ told' \in [Procs -> {"no", "panel", "tool"}]
  <1>1. stops' \in 0..MaxStops
    BY ProcessRegistryAssumption DEF ProcessRegistryAssumption, TypeOK, Gone
  <1>2. stage' \in [Procs -> Stages]
    BY DEF Gone, Stages
  <1> QED
    BY <1>1, <1>2 DEF TypeOK, Gone

LEMMA AppType ==
  ASSUME TypeOK, BoxRemove \/ BoxRemoved \/ Crash \/ Quit \/ Boot
  PROVE  TypeOK'
  <1>1. CASE BoxRemove
    BY <1>1 DEF TypeOK, BoxRemove, appVars
  <1>2. CASE BoxRemoved
    BY <1>2, ContainerGoneType DEF TypeOK, BoxRemoved, appVars
  <1>3. CASE Crash
    BY <1>3, GoneType DEF TypeOK, Crash, Stages
  <1>4. CASE Quit
    <2>1. proc' \in [Procs -> {"none", "alive", "dead", "missing"}]
      BY <1>4 DEF TypeOK, Quit
    <2> QED
      BY <1>4, <2>1, TerminateType, GoneType DEF TypeOK, Quit, Stages
  <1>5. CASE Boot
    BY <1>5 DEF TypeOK, Boot, Finished
  <1> QED
    BY <1>1, <1>2, <1>3, <1>4, <1>5

LEMMA TypeStep == TypeOK /\ [Next]_vars => TypeOK'
  <1> SUFFICES ASSUME TypeOK, [Next]_vars PROVE TypeOK'
    OBVIOUS
  <1>1. CASE UNCHANGED vars
    BY <1>1 DEF TypeOK, vars, appVars, boxVars
  <1>2. CASE Next
    BY <1>2, HostType, RunType, BoxType, AnyType, AppType DEF Next
  <1> QED
    BY <1>1, <1>2

\* Type correctness for every value of the constants.
THEOREM TypeCorrect == Spec => []TypeOK
  BY TypeInit, TypeStep, PTL DEF Spec

-----------------------------------------------------------------------------
(* The inductive invariant of the background records.                      *)

Launching == {"created", "spawning", "spawned", "failed"}

\* While its launch is under way a record is "starting" and has no number, so that
\* nothing can finish it: what the launch writes in the end revives nothing.
LaunchInv ==
    \A p \in Host \cup Boxed :
        /\ stage[p] = "none" => rec[p] = "none"
        /\ stage[p] \in Launching => up = "up" /\ rec[p] = "starting"
        /\ group[p] # "none" => stage[p] = "over" /\ rec[p] # "none"

\* Only a process whose launch is over is pumped, probed or killed from outside.
ChannelInv ==
    /\ \A p \in pumped : group[p] # "none"
    /\ \A p \in Boxed : probe[p] # "idle" \/ killer[p] # "idle" => group[p] # "none"

\* The number of a host process is its own, and with a number on record it is dead
\* once its record is finished or gone, once Stop said so, and after a quit.
HostInv ==
    \A p \in Host :
        /\ group[p] \in {"none", "own"}
        /\ rec[p] \in Finished \cup {"dropped"} /\ group[p] # "none" => proc[p] # "alive"
        /\ told[p] = "panel" => group[p] # "none" /\ proc[p] # "alive"
        /\ up = "quit" /\ group[p] # "none" => proc[p] # "alive"

IInv == TypeOK /\ LaunchInv /\ ChannelInv /\ HostInv

LEMMA InvInit == Init => IInv
  <1> SUFFICES ASSUME Init PROVE IInv
    OBVIOUS
  <1>1. LaunchInv
    BY DEF Init, LaunchInv, Procs, Launching
  <1>2. ChannelInv
    BY DEF Init, ChannelInv
  <1>3. HostInv
    BY DEF Init, HostInv, Procs, Finished
  <1> QED
    BY TypeInit, <1>1, <1>2, <1>3 DEF IInv

\* No step breaks the invariant of launches.
LEMMA LaunchStep ==
  ASSUME IInv, Next
  PROVE  LaunchInv'
  <1> USE ProcessRegistryAssumption DEF ProcessRegistryAssumption, IInv, TypeOK, Procs, LaunchInv, ChannelInv, Launching, Active, Finished
  <1>1. ASSUME NEW p \in Host, HostNext(p) PROVE LaunchInv'
    <2>1. CASE HostCreate(p)
      BY <2>1 DEF HostCreate, appVars, boxVars
    <2>2. CASE HostSpawn(p)
      BY <2>2 DEF HostSpawn, Marked, appVars, boxVars
    <2>3. CASE HostStarted(p)
      BY <2>3 DEF HostStarted, Marked, appVars, boxVars
    <2>4. CASE HostCancelled(p)
      BY <2>4 DEF HostCancelled, appVars, boxVars
    <2>5. CASE Pump(p)
      BY <2>5 DEF Pump, appVars, boxVars
    <2> QED
      BY <1>1, <2>1, <2>2, <2>3, <2>4, <2>5 DEF HostNext
  <1>2. ASSUME NEW p \in Runs, RunNext(p) PROVE LaunchInv'
    <2>1. CASE RunCreate(p)
      BY <2>1 DEF RunCreate, Drops, appVars, boxVars
    <2>2. CASE RunMark(p)
      BY <2>2 DEF RunMark, Marked, appVars, boxVars
    <2>3. CASE RunSpawn(p)
      BY <2>3 DEF RunSpawn, appVars, boxVars
    <2>4. CASE WritePid(p)
      BY <2>4 DEF WritePid, appVars, boxVars
    <2>5. CASE RunMissing(p)
      BY <2>5 DEF RunMissing, appVars, boxVars
    <2>6. CASE RunReturn(p)
      BY <2>6 DEF RunReturn, appVars, boxVars
    <2>7. CASE FinalizeCheck(p)
      BY <2>7 DEF FinalizeCheck, appVars, boxVars
    <2>8. CASE FinalizeMark(p)
      BY <2>8 DEF FinalizeMark, Marked, appVars, boxVars
    <2> QED
      BY <1>2, <2>1, <2>2, <2>3, <2>4, <2>5, <2>6, <2>7, <2>8 DEF RunNext
  <1>3. ASSUME NEW p \in Boxed, BoxNext(p) PROVE LaunchInv'
    <2>1. CASE BoxCreate(p)
      BY <2>1 DEF BoxCreate, appVars, boxVars
    <2>2. CASE BoxEnsure(p)
      BY <2>2 DEF BoxEnsure, Marked, appVars, boxVars
    <2>3. CASE BoxSpawn(p)
      BY <2>3 DEF BoxSpawn, appVars, boxVars
    <2>4. CASE BoxStarted(p)
      BY <2>4 DEF BoxStarted, Marked, appVars, boxVars
    <2>5. CASE BoxCancelled(p)
      BY <2>5 DEF BoxCancelled, appVars, boxVars
    <2>6. CASE ProbeAsk(p)
      BY <2>6 DEF ProbeAsk, appVars, boxVars
    <2>7. CASE ProbeLook(p)
      BY <2>7 DEF ProbeLook, appVars, boxVars
    <2>8. CASE ProbeMark(p)
      BY <2>8 DEF ProbeMark, Marked, ContainerGone, appVars, boxVars
    <2>9. CASE PanelStopBoxed(p)
      BY <2>9 DEF PanelStopBoxed, appVars, boxVars
    <2>10. CASE KillSent(p)
      BY <2>10 DEF KillSent, appVars, boxVars
    <2>11. CASE KillMark(p)
      BY <2>11 DEF KillMark, Marked, appVars, boxVars
    <2> QED
      BY <1>3, <2>1, <2>2, <2>3, <2>4, <2>5, <2>6, <2>7, <2>8, <2>9, <2>10, <2>11 DEF BoxNext
  <1>4. ASSUME NEW p \in Procs, ProcNext(p) PROVE LaunchInv'
    <2>1. CASE PanelStop(p)
      BY <2>1 DEF PanelStop, Terminate, Stops, Kills, Number, Signalled, appVars, boxVars
    <2>2. CASE ToolStop(p)
      BY <2>2 DEF ToolStop, Terminate, Stops, Kills, Number, Signalled, appVars, boxVars
    <2>3. CASE Forget(p)
      BY <2>3 DEF Forget, appVars, boxVars
    <2>4. CASE Die(p)
      BY <2>4 DEF Die, appVars, boxVars
    <2>5. CASE NumberReused(p)
      BY <2>5 DEF NumberReused, appVars, boxVars
    <2> QED
      BY <1>4, <2>1, <2>2, <2>3, <2>4, <2>5 DEF ProcNext
  <1>5. CASE BoxRemove
    BY <1>5 DEF BoxRemove, appVars, boxVars
  <1>6. CASE BoxRemoved
    BY <1>6 DEF BoxRemoved, ContainerGone, appVars, boxVars
  <1>7. CASE Crash
    BY <1>7 DEF Crash, Gone, appVars, boxVars
  <1>8. CASE Quit
    BY <1>8 DEF Quit, Gone, Terminate, Stops, Kills, Number, Signalled, appVars, boxVars
  <1>9. CASE Boot
    BY <1>9 DEF Boot, GroupAlive, Local, appVars, boxVars
  <1> QED
    BY <1>1, <1>2, <1>3, <1>4, <1>5, <1>6, <1>7, <1>8, <1>9 DEF Next

\* No step breaks the invariant of probes and kills.
LEMMA ChannelStep ==
  ASSUME IInv, Next
  PROVE  ChannelInv'
  <1> USE ProcessRegistryAssumption DEF ProcessRegistryAssumption, IInv, TypeOK, Procs, LaunchInv, ChannelInv, Active, Finished
  <1>1. ASSUME NEW p \in Host, HostNext(p) PROVE ChannelInv'
    <2>1. CASE HostCreate(p)
      BY <2>1 DEF HostCreate, appVars, boxVars
    <2>2. CASE HostSpawn(p)
      BY <2>2 DEF HostSpawn, Marked, appVars, boxVars
    <2>3. CASE HostStarted(p)
      BY <2>3 DEF HostStarted, Marked, appVars, boxVars
    <2>4. CASE HostCancelled(p)
      BY <2>4 DEF HostCancelled, appVars, boxVars
    <2>5. CASE Pump(p)
      BY <2>5 DEF Pump, appVars, boxVars
    <2> QED
      BY <1>1, <2>1, <2>2, <2>3, <2>4, <2>5 DEF HostNext
  <1>2. ASSUME NEW p \in Runs, RunNext(p) PROVE ChannelInv'
    <2>1. CASE RunCreate(p)
      BY <2>1 DEF RunCreate, Drops, appVars, boxVars
    <2>2. CASE RunMark(p)
      BY <2>2 DEF RunMark, Marked, appVars, boxVars
    <2>3. CASE RunSpawn(p)
      BY <2>3 DEF RunSpawn, appVars, boxVars
    <2>4. CASE WritePid(p)
      BY <2>4 DEF WritePid, appVars, boxVars
    <2>5. CASE RunMissing(p)
      BY <2>5 DEF RunMissing, appVars, boxVars
    <2>6. CASE RunReturn(p)
      BY <2>6 DEF RunReturn, appVars, boxVars
    <2>7. CASE FinalizeCheck(p)
      BY <2>7 DEF FinalizeCheck, appVars, boxVars
    <2>8. CASE FinalizeMark(p)
      BY <2>8 DEF FinalizeMark, Marked, appVars, boxVars
    <2> QED
      BY <1>2, <2>1, <2>2, <2>3, <2>4, <2>5, <2>6, <2>7, <2>8 DEF RunNext
  <1>3. ASSUME NEW p \in Boxed, BoxNext(p) PROVE ChannelInv'
    <2>1. CASE BoxCreate(p)
      BY <2>1 DEF BoxCreate, appVars, boxVars
    <2>2. CASE BoxEnsure(p)
      BY <2>2 DEF BoxEnsure, Marked, appVars, boxVars
    <2>3. CASE BoxSpawn(p)
      BY <2>3 DEF BoxSpawn, appVars, boxVars
    <2>4. CASE BoxStarted(p)
      BY <2>4 DEF BoxStarted, Marked, appVars, boxVars
    <2>5. CASE BoxCancelled(p)
      BY <2>5 DEF BoxCancelled, appVars, boxVars
    <2>6. CASE ProbeAsk(p)
      BY <2>6 DEF ProbeAsk, appVars, boxVars
    <2>7. CASE ProbeLook(p)
      BY <2>7 DEF ProbeLook, appVars, boxVars
    <2>8. CASE ProbeMark(p)
      BY <2>8 DEF ProbeMark, Marked, ContainerGone, appVars, boxVars
    <2>9. CASE PanelStopBoxed(p)
      BY <2>9 DEF PanelStopBoxed, appVars, boxVars
    <2>10. CASE KillSent(p)
      BY <2>10 DEF KillSent, appVars, boxVars
    <2>11. CASE KillMark(p)
      BY <2>11 DEF KillMark, Marked, appVars, boxVars
    <2> QED
      BY <1>3, <2>1, <2>2, <2>3, <2>4, <2>5, <2>6, <2>7, <2>8, <2>9, <2>10, <2>11 DEF BoxNext
  <1>4. ASSUME NEW p \in Procs, ProcNext(p) PROVE ChannelInv'
    <2>1. CASE PanelStop(p)
      BY <2>1 DEF PanelStop, Terminate, Stops, Kills, Number, Signalled, appVars, boxVars
    <2>2. CASE ToolStop(p)
      BY <2>2 DEF ToolStop, Terminate, Stops, Kills, Number, Signalled, appVars, boxVars
    <2>3. CASE Forget(p)
      BY <2>3 DEF Forget, appVars, boxVars
    <2>4. CASE Die(p)
      BY <2>4 DEF Die, appVars, boxVars
    <2>5. CASE NumberReused(p)
      BY <2>5 DEF NumberReused, appVars, boxVars
    <2> QED
      BY <1>4, <2>1, <2>2, <2>3, <2>4, <2>5 DEF ProcNext
  <1>5. CASE BoxRemove
    BY <1>5 DEF BoxRemove, appVars, boxVars
  <1>6. CASE BoxRemoved
    BY <1>6 DEF BoxRemoved, ContainerGone, appVars, boxVars
  <1>7. CASE Crash
    BY <1>7 DEF Crash, Gone, appVars, boxVars
  <1>8. CASE Quit
    BY <1>8 DEF Quit, Gone, Terminate, Stops, Kills, Number, Signalled, appVars, boxVars
  <1>9. CASE Boot
    BY <1>9 DEF Boot, GroupAlive, Local, appVars, boxVars
  <1> QED
    BY <1>1, <1>2, <1>3, <1>4, <1>5, <1>6, <1>7, <1>8, <1>9 DEF Next

\* No step breaks the invariant of host processes.
LEMMA HostStep ==
  ASSUME IInv, Next
  PROVE  HostInv'
  <1> USE ProcessRegistryAssumption DEF ProcessRegistryAssumption, IInv, TypeOK, Procs, LaunchInv, HostInv, Launching, Local, Active, Finished
  <1>1. ASSUME NEW p \in Host, HostNext(p) PROVE HostInv'
    <2>1. CASE HostCreate(p)
      BY <2>1 DEF HostCreate, appVars, boxVars
    <2>2. CASE HostSpawn(p)
      BY <2>2 DEF HostSpawn, Marked, appVars, boxVars
    <2>3. CASE HostStarted(p)
      BY <2>3 DEF HostStarted, Marked, appVars, boxVars
    <2>4. CASE HostCancelled(p)
      BY <2>4 DEF HostCancelled, appVars, boxVars
    <2>5. CASE Pump(p)
      BY <2>5 DEF Pump, appVars, boxVars
    <2> QED
      BY <1>1, <2>1, <2>2, <2>3, <2>4, <2>5 DEF HostNext
  <1>2. ASSUME NEW p \in Runs, RunNext(p) PROVE HostInv'
    <2>1. CASE RunCreate(p)
      BY <2>1 DEF RunCreate, Drops, appVars, boxVars
    <2>2. CASE RunMark(p)
      BY <2>2 DEF RunMark, Marked, appVars, boxVars
    <2>3. CASE RunSpawn(p)
      BY <2>3 DEF RunSpawn, appVars, boxVars
    <2>4. CASE WritePid(p)
      BY <2>4 DEF WritePid, appVars, boxVars
    <2>5. CASE RunMissing(p)
      BY <2>5 DEF RunMissing, appVars, boxVars
    <2>6. CASE RunReturn(p)
      BY <2>6 DEF RunReturn, appVars, boxVars
    <2>7. CASE FinalizeCheck(p)
      BY <2>7 DEF FinalizeCheck, appVars, boxVars
    <2>8. CASE FinalizeMark(p)
      BY <2>8 DEF FinalizeMark, Marked, appVars, boxVars
    <2> QED
      BY <1>2, <2>1, <2>2, <2>3, <2>4, <2>5, <2>6, <2>7, <2>8 DEF RunNext
  <1>3. ASSUME NEW p \in Boxed, BoxNext(p) PROVE HostInv'
    <2>1. CASE BoxCreate(p)
      BY <2>1 DEF BoxCreate, appVars, boxVars
    <2>2. CASE BoxEnsure(p)
      BY <2>2 DEF BoxEnsure, Marked, appVars, boxVars
    <2>3. CASE BoxSpawn(p)
      BY <2>3 DEF BoxSpawn, appVars, boxVars
    <2>4. CASE BoxStarted(p)
      BY <2>4 DEF BoxStarted, Marked, appVars, boxVars
    <2>5. CASE BoxCancelled(p)
      BY <2>5 DEF BoxCancelled, appVars, boxVars
    <2>6. CASE ProbeAsk(p)
      BY <2>6 DEF ProbeAsk, appVars, boxVars
    <2>7. CASE ProbeLook(p)
      BY <2>7 DEF ProbeLook, appVars, boxVars
    <2>8. CASE ProbeMark(p)
      BY <2>8 DEF ProbeMark, Marked, ContainerGone, appVars, boxVars
    <2>9. CASE PanelStopBoxed(p)
      BY <2>9 DEF PanelStopBoxed, appVars, boxVars
    <2>10. CASE KillSent(p)
      BY <2>10 DEF KillSent, appVars, boxVars
    <2>11. CASE KillMark(p)
      BY <2>11 DEF KillMark, Marked, appVars, boxVars
    <2> QED
      BY <1>3, <2>1, <2>2, <2>3, <2>4, <2>5, <2>6, <2>7, <2>8, <2>9, <2>10, <2>11 DEF BoxNext
  <1>4. ASSUME NEW p \in Procs, ProcNext(p) PROVE HostInv'
    <2>1. CASE PanelStop(p)
      BY <2>1 DEF PanelStop, Terminate, Stops, Kills, Number, Signalled, appVars, boxVars
    <2>2. CASE ToolStop(p)
      BY <2>2 DEF ToolStop, Terminate, Stops, Kills, Number, Signalled, appVars, boxVars
    <2>3. CASE Forget(p)
      BY <2>3 DEF Forget, appVars, boxVars
    <2>4. CASE Die(p)
      BY <2>4 DEF Die, appVars, boxVars
    <2>5. CASE NumberReused(p)
      BY <2>5 DEF NumberReused, appVars, boxVars
    <2> QED
      BY <1>4, <2>1, <2>2, <2>3, <2>4, <2>5 DEF ProcNext
  <1>5. CASE BoxRemove
    BY <1>5 DEF BoxRemove, appVars, boxVars
  <1>6. CASE BoxRemoved
    BY <1>6 DEF BoxRemoved, ContainerGone, appVars, boxVars
  <1>7. CASE Crash
    BY <1>7 DEF Crash, Gone, appVars, boxVars
  <1>8. CASE Quit
    BY <1>8 DEF Quit, Gone, Terminate, Stops, Kills, Number, Signalled, appVars, boxVars
  <1>9. CASE Boot
    BY <1>9 DEF Boot, GroupAlive, Local, appVars, boxVars
  <1> QED
    BY <1>1, <1>2, <1>3, <1>4, <1>5, <1>6, <1>7, <1>8, <1>9 DEF Next


\* The inductive invariant is one.
LEMMA InvStep == IInv /\ [Next]_vars => IInv'
  <1> SUFFICES ASSUME IInv, [Next]_vars PROVE IInv'
    OBVIOUS
  <1>1. TypeOK'
    BY TypeStep DEF IInv
  <1>2. CASE UNCHANGED vars
    BY <1>1, <1>2 DEF IInv, LaunchInv, ChannelInv, HostInv, vars, appVars, boxVars
  <1>3. CASE Next
    BY <1>1, <1>3, LaunchStep, ChannelStep, HostStep DEF IInv
  <1> QED
    BY <1>2, <1>3

THEOREM InvHolds == Spec => []IInv
  BY InvInit, InvStep, PTL DEF Spec

-----------------------------------------------------------------------------
(* What follows.                                                           *)

\* No host process with a number on record runs out of the registry's sight.
THEOREM NoHiddenHostHolds == Spec => []NoHiddenHost
  <1>1. IInv => NoHiddenHost
    BY DEF IInv, HostInv, NoHiddenHost
  <1> QED
    BY <1>1, InvHolds, PTL

\* What the Stop route reports as stopped is dead and stays dead.
THEOREM PanelTellsTruthHolds == Spec => []PanelTellsTruth
  <1>1. IInv => PanelTellsTruth
    BY DEF IInv, HostInv, PanelTellsTruth
  <1> QED
    BY <1>1, InvHolds, PTL

\* A quit leaves no recorded host process, this generation's or an adopted one.
THEOREM QuitLeavesNoHostHolds == Spec => []QuitLeavesNoHost
  <1>1. IInv => QuitLeavesNoHost
    BY DEF IInv, HostInv, QuitLeavesNoHost
  <1> QED
    BY <1>1, InvHolds, PTL

(* The two verdicts an action can make on a record, named for the proof.   *)
FinishedKept == \A q \in Host \cup Boxed : rec[q] \in Finished => rec'[q] \notin Active
HostKilledKept == \A q \in Host : rec[q] = "killed" => rec'[q] \in {"killed", "dropped"}

\* No step reopens a finished background record.
LEMMA FinishedStep ==
  ASSUME IInv, Next
  PROVE  FinishedKept
  <1> USE ProcessRegistryAssumption DEF ProcessRegistryAssumption, IInv, TypeOK, Procs, LaunchInv, ChannelInv, Launching, Active, Finished, FinishedKept
  <1>1. ASSUME NEW p \in Host, HostNext(p) PROVE FinishedKept
    <2>1. CASE HostCreate(p)
      BY <2>1 DEF HostCreate
    <2>2. CASE HostSpawn(p)
      BY <2>2 DEF HostSpawn, Marked
    <2>3. CASE HostStarted(p)
      BY <2>3 DEF HostStarted, Marked
    <2>4. CASE HostCancelled(p)
      BY <2>4 DEF HostCancelled
    <2>5. CASE Pump(p)
      BY <2>5 DEF Pump
    <2> QED
      BY <1>1, <2>1, <2>2, <2>3, <2>4, <2>5 DEF HostNext
  <1>2. ASSUME NEW p \in Runs, RunNext(p) PROVE FinishedKept
    <2>1. CASE RunCreate(p)
      BY <2>1 DEF RunCreate, Drops
    <2>2. CASE RunMark(p)
      BY <2>2 DEF RunMark, Marked
    <2>3. CASE RunSpawn(p)
      BY <2>3 DEF RunSpawn
    <2>4. CASE WritePid(p)
      BY <2>4 DEF WritePid
    <2>5. CASE RunMissing(p)
      BY <2>5 DEF RunMissing
    <2>6. CASE RunReturn(p)
      BY <2>6 DEF RunReturn
    <2>7. CASE FinalizeCheck(p)
      BY <2>7 DEF FinalizeCheck
    <2>8. CASE FinalizeMark(p)
      BY <2>8 DEF FinalizeMark, Marked
    <2> QED
      BY <1>2, <2>1, <2>2, <2>3, <2>4, <2>5, <2>6, <2>7, <2>8 DEF RunNext
  <1>3. ASSUME NEW p \in Boxed, BoxNext(p) PROVE FinishedKept
    <2>1. CASE BoxCreate(p)
      BY <2>1 DEF BoxCreate
    <2>2. CASE BoxEnsure(p)
      BY <2>2 DEF BoxEnsure, Marked
    <2>3. CASE BoxSpawn(p)
      BY <2>3 DEF BoxSpawn
    <2>4. CASE BoxStarted(p)
      BY <2>4 DEF BoxStarted, Marked
    <2>5. CASE BoxCancelled(p)
      BY <2>5 DEF BoxCancelled
    <2>6. CASE ProbeAsk(p)
      BY <2>6 DEF ProbeAsk
    <2>7. CASE ProbeLook(p)
      BY <2>7 DEF ProbeLook
    <2>8. CASE ProbeMark(p)
      BY <2>8 DEF ProbeMark, Marked, ContainerGone
    <2>9. CASE PanelStopBoxed(p)
      BY <2>9 DEF PanelStopBoxed
    <2>10. CASE KillSent(p)
      BY <2>10 DEF KillSent
    <2>11. CASE KillMark(p)
      BY <2>11 DEF KillMark, Marked
    <2> QED
      BY <1>3, <2>1, <2>2, <2>3, <2>4, <2>5, <2>6, <2>7, <2>8, <2>9, <2>10, <2>11 DEF BoxNext
  <1>4. ASSUME NEW p \in Procs, ProcNext(p) PROVE FinishedKept
    <2>1. CASE PanelStop(p)
      BY <2>1 DEF PanelStop, Terminate, Kills
    <2>2. CASE ToolStop(p)
      BY <2>2 DEF ToolStop, Terminate, Kills
    <2>3. CASE Forget(p)
      BY <2>3 DEF Forget
    <2>4. CASE Die(p)
      BY <2>4 DEF Die
    <2>5. CASE NumberReused(p)
      BY <2>5 DEF NumberReused
    <2> QED
      BY <1>4, <2>1, <2>2, <2>3, <2>4, <2>5 DEF ProcNext
  <1>5. CASE BoxRemove
    BY <1>5 DEF BoxRemove
  <1>6. CASE BoxRemoved
    BY <1>6 DEF BoxRemoved, ContainerGone
  <1>7. CASE Crash
    BY <1>7 DEF Crash, Gone
  <1>8. CASE Quit
    BY <1>8 DEF Quit, Gone, Terminate, Kills
  <1>9. CASE Boot
    BY <1>9 DEF Boot, GroupAlive, Local
  <1> QED
    BY <1>1, <1>2, <1>3, <1>4, <1>5, <1>6, <1>7, <1>8, <1>9 DEF Next

\* No step overwrites the verdict of a Stop on a host process.
LEMMA KilledStep ==
  ASSUME IInv, Next
  PROVE  HostKilledKept
  <1> USE ProcessRegistryAssumption DEF ProcessRegistryAssumption, IInv, TypeOK, Procs, LaunchInv, ChannelInv, Launching, Active, Finished, HostKilledKept
  <1>1. ASSUME NEW p \in Host, HostNext(p) PROVE HostKilledKept
    <2>1. CASE HostCreate(p)
      BY <2>1 DEF HostCreate
    <2>2. CASE HostSpawn(p)
      BY <2>2 DEF HostSpawn, Marked
    <2>3. CASE HostStarted(p)
      BY <2>3 DEF HostStarted, Marked
    <2>4. CASE HostCancelled(p)
      BY <2>4 DEF HostCancelled
    <2>5. CASE Pump(p)
      BY <2>5 DEF Pump
    <2> QED
      BY <1>1, <2>1, <2>2, <2>3, <2>4, <2>5 DEF HostNext
  <1>2. ASSUME NEW p \in Runs, RunNext(p) PROVE HostKilledKept
    <2>1. CASE RunCreate(p)
      BY <2>1 DEF RunCreate, Drops
    <2>2. CASE RunMark(p)
      BY <2>2 DEF RunMark, Marked
    <2>3. CASE RunSpawn(p)
      BY <2>3 DEF RunSpawn
    <2>4. CASE WritePid(p)
      BY <2>4 DEF WritePid
    <2>5. CASE RunMissing(p)
      BY <2>5 DEF RunMissing
    <2>6. CASE RunReturn(p)
      BY <2>6 DEF RunReturn
    <2>7. CASE FinalizeCheck(p)
      BY <2>7 DEF FinalizeCheck
    <2>8. CASE FinalizeMark(p)
      BY <2>8 DEF FinalizeMark, Marked
    <2> QED
      BY <1>2, <2>1, <2>2, <2>3, <2>4, <2>5, <2>6, <2>7, <2>8 DEF RunNext
  <1>3. ASSUME NEW p \in Boxed, BoxNext(p) PROVE HostKilledKept
    <2>1. CASE BoxCreate(p)
      BY <2>1 DEF BoxCreate
    <2>2. CASE BoxEnsure(p)
      BY <2>2 DEF BoxEnsure, Marked
    <2>3. CASE BoxSpawn(p)
      BY <2>3 DEF BoxSpawn
    <2>4. CASE BoxStarted(p)
      BY <2>4 DEF BoxStarted, Marked
    <2>5. CASE BoxCancelled(p)
      BY <2>5 DEF BoxCancelled
    <2>6. CASE ProbeAsk(p)
      BY <2>6 DEF ProbeAsk
    <2>7. CASE ProbeLook(p)
      BY <2>7 DEF ProbeLook
    <2>8. CASE ProbeMark(p)
      BY <2>8 DEF ProbeMark, Marked, ContainerGone
    <2>9. CASE PanelStopBoxed(p)
      BY <2>9 DEF PanelStopBoxed
    <2>10. CASE KillSent(p)
      BY <2>10 DEF KillSent
    <2>11. CASE KillMark(p)
      BY <2>11 DEF KillMark, Marked
    <2> QED
      BY <1>3, <2>1, <2>2, <2>3, <2>4, <2>5, <2>6, <2>7, <2>8, <2>9, <2>10, <2>11 DEF BoxNext
  <1>4. ASSUME NEW p \in Procs, ProcNext(p) PROVE HostKilledKept
    <2>1. CASE PanelStop(p)
      BY <2>1 DEF PanelStop, Terminate, Kills
    <2>2. CASE ToolStop(p)
      BY <2>2 DEF ToolStop, Terminate, Kills
    <2>3. CASE Forget(p)
      BY <2>3 DEF Forget
    <2>4. CASE Die(p)
      BY <2>4 DEF Die
    <2>5. CASE NumberReused(p)
      BY <2>5 DEF NumberReused
    <2> QED
      BY <1>4, <2>1, <2>2, <2>3, <2>4, <2>5 DEF ProcNext
  <1>5. CASE BoxRemove
    BY <1>5 DEF BoxRemove
  <1>6. CASE BoxRemoved
    BY <1>6 DEF BoxRemoved, ContainerGone
  <1>7. CASE Crash
    BY <1>7 DEF Crash, Gone
  <1>8. CASE Quit
    BY <1>8 DEF Quit, Gone, Terminate, Kills
  <1>9. CASE Boot
    BY <1>9 DEF Boot, GroupAlive, Local
  <1> QED
    BY <1>1, <1>2, <1>3, <1>4, <1>5, <1>6, <1>7, <1>8, <1>9 DEF Next

\* A finished background record is never active again.
THEOREM FinishedForGoodHolds == Spec => FinishedForGood
  <1>1. IInv /\ [Next]_vars => [FinishedKept]_vars
    BY FinishedStep
  <1>2. [FinishedKept]_vars =>
          [\A p \in Host \cup Boxed : rec[p] \in Finished => rec'[p] \notin Active]_vars
    BY DEF FinishedKept
  <1> QED
    BY <1>1, <1>2, InvHolds, PTL DEF Spec, FinishedForGood

\* The user's Stop of a host process stays the recorded verdict.
THEOREM HostKilledStaysHolds == Spec => HostKilledStays
  <1>1. IInv /\ [Next]_vars => [HostKilledKept]_vars
    BY KilledStep
  <1>2. [HostKilledKept]_vars =>
          [\A p \in Host : rec[p] = "killed" => rec'[p] \in {"killed", "dropped"}]_vars
    BY DEF HostKilledKept
  <1> QED
    BY <1>1, <1>2, InvHolds, PTL DEF Spec, HostKilledStays

-----------------------------------------------------------------------------
(* The records of the foreground runs.                                     *)

\* Before it is handed to exec a run has no process, so that no number of its own can be
\* read for it; and the Stop that reads its own number closes its record.  So what the
\* sweep finds open after a crash it closes, unless a stranger answers for the number.
RunInv ==
    \A p \in Runs :
        /\ stage[p] \in {"none", "created"} =>
              proc[p] # "alive" /\ pidfile[p] # "own" /\ group[p] # "own"
        /\ group[p] = "own" => rec[p] \notin Active
        /\ up = "up" /\ stage[p] = "over" /\ rec[p] \in Active => p \in strangers

LEMMA RunClosesInit == Init => RunInv
  BY ProcessRegistryAssumption DEF ProcessRegistryAssumption, Init, RunInv, Procs, Active

\* No step leaves the record of a run open that is through.
LEMMA RunClosesStep ==
  ASSUME TypeOK, RunInv, Next
  PROVE  RunInv'
  <1> USE ProcessRegistryAssumption DEF ProcessRegistryAssumption, TypeOK, Procs, RunInv, Active, Finished, appVars, boxVars
  <1>1. ASSUME NEW p \in Host, HostNext(p) PROVE RunInv'
    <2>1. CASE HostCreate(p)
      BY <2>1 DEF HostCreate
    <2>2. CASE HostSpawn(p)
      BY <2>2 DEF HostSpawn, Marked
    <2>3. CASE HostStarted(p)
      BY <2>3 DEF HostStarted, Marked
    <2>4. CASE HostCancelled(p)
      BY <2>4 DEF HostCancelled
    <2>5. CASE Pump(p)
      BY <2>5 DEF Pump
    <2> QED
      BY <1>1, <2>1, <2>2, <2>3, <2>4, <2>5 DEF HostNext
  <1>2. ASSUME NEW p \in Runs, RunNext(p) PROVE RunInv'
    <2>1. CASE RunCreate(p)
      BY <2>1 DEF RunCreate, Drops
    <2>2. CASE RunMark(p)
      BY <2>2 DEF RunMark, Marked
    <2>3. CASE RunSpawn(p)
      BY <2>3 DEF RunSpawn
    <2>4. CASE WritePid(p)
      BY <2>4 DEF WritePid
    <2>5. CASE RunMissing(p)
      BY <2>5 DEF RunMissing
    <2>6. CASE RunReturn(p)
      BY <2>6 DEF RunReturn
    <2>7. CASE FinalizeCheck(p)
      BY <2>7 DEF FinalizeCheck
    <2>8. CASE FinalizeMark(p)
      BY <2>8 DEF FinalizeMark, Marked
    <2> QED
      BY <1>2, <2>1, <2>2, <2>3, <2>4, <2>5, <2>6, <2>7, <2>8 DEF RunNext
  <1>3. ASSUME NEW p \in Boxed, BoxNext(p) PROVE RunInv'
    <2>1. CASE BoxCreate(p)
      BY <2>1 DEF BoxCreate
    <2>2. CASE BoxEnsure(p)
      BY <2>2 DEF BoxEnsure, Marked
    <2>3. CASE BoxSpawn(p)
      BY <2>3 DEF BoxSpawn
    <2>4. CASE BoxStarted(p)
      BY <2>4 DEF BoxStarted, Marked
    <2>5. CASE BoxCancelled(p)
      BY <2>5 DEF BoxCancelled
    <2>6. CASE ProbeAsk(p)
      BY <2>6 DEF ProbeAsk
    <2>7. CASE ProbeLook(p)
      BY <2>7 DEF ProbeLook
    <2>8. CASE ProbeMark(p)
      BY <2>8 DEF ProbeMark, Marked, ContainerGone
    <2>9. CASE PanelStopBoxed(p)
      BY <2>9 DEF PanelStopBoxed
    <2>10. CASE KillSent(p)
      BY <2>10 DEF KillSent
    <2>11. CASE KillMark(p)
      BY <2>11 DEF KillMark, Marked
    <2> QED
      BY <1>3, <2>1, <2>2, <2>3, <2>4, <2>5, <2>6, <2>7, <2>8, <2>9, <2>10, <2>11 DEF BoxNext
  <1>4. ASSUME NEW p \in Procs, ProcNext(p) PROVE RunInv'
    <2>1. CASE PanelStop(p)
      BY <2>1 DEF PanelStop, Terminate, Kills, Stops, Number, Local
    <2>2. CASE ToolStop(p)
      BY <2>2 DEF ToolStop, Terminate, Kills, Stops, Number, Local
    <2>3. CASE Forget(p)
      BY <2>3 DEF Forget
    <2>4. CASE Die(p)
      BY <2>4 DEF Die
    <2>5. CASE NumberReused(p)
      BY <2>5 DEF NumberReused
    <2> QED
      BY <1>4, <2>1, <2>2, <2>3, <2>4, <2>5 DEF ProcNext
  <1>5. CASE BoxRemove
    BY <1>5 DEF BoxRemove
  <1>6. CASE BoxRemoved
    BY <1>6 DEF BoxRemoved, ContainerGone
  <1>7. CASE Crash
    BY <1>7 DEF Crash, Gone
  <1>8. CASE Quit
    BY <1>8 DEF Quit, Gone, Terminate, Kills, Stops, Number, Local
  <1>9. CASE Boot
    BY <1>9 DEF Boot, GroupAlive, Local
  <1> QED
    BY <1>1, <1>2, <1>3, <1>4, <1>5, <1>6, <1>7, <1>8, <1>9 DEF Next

\* When the executor of a foreground run is through, its record is closed
\* (code_executor.py 150-256, process_registry.py 198-227, 348-418), across crashes and
\* restarts too, unless its number has come to name a stranger.
THEOREM RunRecordsCloseHolds == Spec => []RunRecordsClose
  <1>1. TypeOK /\ RunInv /\ [Next]_vars => RunInv'
    <2> SUFFICES ASSUME TypeOK, RunInv, [Next]_vars PROVE RunInv'
      OBVIOUS
    <2>1. CASE UNCHANGED vars
      BY <2>1 DEF RunInv, vars, appVars
    <2> QED
      BY <2>1, RunClosesStep
  <1>2. RunInv => RunRecordsClose
    BY DEF RunInv, RunRecordsClose
  <1> QED
    BY <1>1, <1>2, RunClosesInit, TypeCorrect, PTL DEF Spec

=============================================================================
