------------------------- MODULE DaemonSafetyProofs -------------------------
(***************************************************************************)
(* What the control cycle guarantees, carried over to the daemon that runs *)
(* it, respawns it and sends its outputs, for every instance; and what the *)
(* process adds: the coupler, the switch and the gate.                     *)
(***************************************************************************)
EXTENDS DaemonProofs

USE DebounceAssumption, PulseAssumption, MaxCountAssumption, ControlAssumption,
    DaemonAssumption

-----------------------------------------------------------------------------
(***************************************************************************)
(* The cycle in the daemon.                                                *)
(***************************************************************************)

\* A step of the daemon is one of the cycle, leaves the cycle alone or starts
\* it anew around the counters of the file.
LEMMA StepOfCycle == ProcessTypeOK /\ [DNext]_dvars => [Next]_vars \/ Reboot(saved)
<1> SUFFICES ASSUME ProcessTypeOK, [DNext]_dvars PROVE [Next]_vars \/ Reboot(saved)
  OBVIOUS
<1>spawn. CASE Spawn
  BY <1>spawn DEF Spawn
<1>start. CASE \E i \in InputSet : StartItem(i)
  BY <1>start DEF StartItem, Next
<1>command. CASE StepCommand
  <2>head. Head(drained) \in Commands
    BY <1>command DEF StepCommand, ProcessTypeOK
  <2> QED
    BY <1>command, <2>head DEF StepCommand, Next
<1>finish. CASE FinishItem
  BY <1>finish DEF FinishItem, Next
<1>aside. CASE UNCHANGED vars
  BY <1>aside
<1> QED
  BY <1>spawn, <1>start, <1>command, <1>finish, <1>aside
     DEF DNext, dvars, WaitForCarrier, Register, RegisterFails, ExitBringup, HealthPump,
         PanelSends, CarrierMoves, GateMoves

\* The inductive invariants of the cycle.
CycleInv ==
  /\ KnifeInterlock
  /\ SafeOnBusLoss
  /\ InputsTruthful
  /\ ModeAgrees
  /\ HealthyMode

\* A fresh cycle has them.
LEMMA RebootInv == Reboot(saved) => CycleInv'
<1> SUFFICES ASSUME Reboot(saved) PROVE CycleInv'
  OBVIOUS
<1>knives. KnifeInterlock'
  BY DEF Reboot, KnifeInterlock, PulseNew, AllLow
<1>low. SafeOnBusLoss' /\ HealthyMode'
  BY DEF Reboot, SafeOnBusLoss, HealthyMode
<1>shown. InputsTruthful'
  BY DEF Reboot, InputsTruthful, StateNew
<1>agree. ModeAgrees'
  BY DEF Reboot, ModeAgrees, StateNew
<1> QED
  BY <1>knives, <1>low, <1>shown, <1>agree DEF CycleInv

\* And every step of the daemon keeps them.
LEMMA CycleInvariant == DSpec => []CycleInv
<1>first. DInit => CycleInv
  <2> SUFFICES ASSUME Init PROVE CycleInv
    BY DEF DInit
  <2>knives. KnifeInterlock /\ SafeOnBusLoss
    BY DEF Init, InitWith, KnifeInterlock, SafeOnBusLoss, PulseNew, AllLow
  <2>mode. InputsTruthful /\ ModeAgrees /\ HealthyMode
    BY DEF Init, InitWith, InputsTruthful, StateNew, ModeAgrees, HealthyMode
  <2> QED
    BY <2>knives, <2>mode DEF CycleInv
<1>step. DaemonTypeOK /\ CycleInv /\ [DNext]_dvars => CycleInv'
  <2> SUFFICES ASSUME DaemonTypeOK, CycleInv, [DNext]_dvars PROVE CycleInv'
    OBVIOUS
  <2>typed. TypeOK /\ ProcessTypeOK
    BY TwoParts
  <2>cycle. CASE [Next]_vars
    BY <2>typed, <2>cycle, InterlockStep, BusLossStep, TruthfulStep, AgreeStep, HealthyStep
       DEF CycleInv
  <2> QED
    BY <2>typed, <2>cycle, RebootInv, StepOfCycle
<1> QED
  BY <1>first, <1>step, DaemonTypeCorrect, PTL DEF DSpec

\* Over every respawn, failed send and restart the cycle's own guarantees hold:
\* interlocked knives, outputs low on a lost bus, no unknown bale or knife shown,
\* a mode that agrees with the master and an address only in Ethernet mode.
THEOREM CycleSafeInDaemon ==
  DSpec => [](KnifeInterlock /\ SafeOnBusLoss /\ SnapshotInputsTruthful /\ ModeAgrees)
<1>enough. CycleInv => KnifeInterlock /\ SafeOnBusLoss /\ SnapshotInputsTruthful /\ ModeAgrees
  BY DEF CycleInv, InputsTruthful, SnapshotInputsTruthful
<1> QED
  BY <1>enough, CycleInvariant, PTL

-----------------------------------------------------------------------------
(***************************************************************************)
(* The coupler.                                                            *)
(***************************************************************************)

\* The coupler's outputs change only when the item sends those of its scan over
\* a master that is there, or when a new process starts with all of them low.
LEMMA ImageStep ==
  ASSUME [DNext]_dvars, image' # image
  PROVE  \/ Register /\ image' = AllLow
         \/ FinishItem /\ image' = outputs' /\ ~suspended
<1>quiet. CASE UNCHANGED writeVars
  BY <1>quiet DEF writeVars
<1>send. CASE FinishItem
  BY <1>send DEF FinishItem, Write, writeVars
<1>fresh. CASE Register
  BY <1>fresh DEF Register
<1> QED
  BY <1>quiet, <1>send, <1>fresh
     DEF DNext, dvars, busVars, Spawn, WaitForCarrier, RegisterFails, ExitBringup, StartItem,
         StepCommand, HealthPump, PanelSends, CarrierMoves, GateMoves

\* CouplerInterlock: what the coupler holds is the outputs of a scan, and those
\* are interlocked; a failed send leaves an earlier scan's.
THEOREM CouplerInterlocked == DSpec => []CouplerInterlock
<1>first. DInit => CouplerInterlock
  BY DEF DInit, CouplerInterlock, AllLow
<1>step. CouplerInterlock /\ CycleInv' /\ [DNext]_dvars => CouplerInterlock'
  <2> SUFFICES ASSUME CouplerInterlock, CycleInv', [DNext]_dvars PROVE CouplerInterlock'
    OBVIOUS
  <2>same. CASE image' = image
    BY <2>same DEF CouplerInterlock
  <2>new. CASE image' # image
    BY <2>new, ImageStep DEF CouplerInterlock, CycleInv, KnifeInterlock, AllLow
  <2> QED
    BY <2>same, <2>new
<1> QED
  BY <1>first, <1>step, CycleInvariant, PTL DEF DSpec

\* EnergizesOnlyInOperation: a scan that sends has its master; if it sends a
\* high output its bus was healthy, and then it is in Operational mode.
THEOREM EnergizedInOperation == DSpec => EnergizesOnlyInOperation
<1>step. CycleInv' /\ [DNext]_dvars =>
           [image' # image /\ image' # AllLow
              => state'.mode = "Operational" /\ inputs'.healthy]_dvars
  <2> SUFFICES ASSUME CycleInv', [DNext]_dvars, image' # image, image' # AllLow
               PROVE  state'.mode = "Operational" /\ inputs'.healthy
    OBVIOUS
  <2>sent. FinishItem /\ image' = outputs' /\ ~suspended
    BY ImageStep
  <2>end. phase' = "idle" /\ suspended' = suspended
    BY <2>sent DEF FinishItem, EndScan, EndScanManual, EndScanNormal, modeVars
  <2>healthy. inputs'.healthy
    BY <2>sent, <2>end DEF CycleInv, SafeOnBusLoss
  <2> QED
    BY <2>sent, <2>end, <2>healthy DEF CycleInv, HealthyMode
<1> QED
  BY <1>step, CycleInvariant, PTL DEF DSpec, EnergizesOnlyInOperation

-----------------------------------------------------------------------------
(***************************************************************************)
(* The switch.                                                             *)
(***************************************************************************)

\* PulseKeepsMaster: on a healthy bus a scan with its master is in Operational
\* mode, where the switch is refused while a pulse is active.
THEOREM MasterKeptByPulse == DSpec => PulseKeepsMaster
<1>step. DaemonTypeOK /\ CycleInv /\ [DNext]_dvars =>
           [suspended' /\ ~suspended /\ (wrap.active \/ KnifeActive) => ~inputs.healthy]_dvars
  <2> SUFFICES ASSUME DaemonTypeOK, CycleInv, [DNext]_dvars, suspended', ~suspended,
                      inputs.healthy
               PROVE  ~(wrap.active \/ KnifeActive)
    OBVIOUS
  <2>cycle. [Next]_vars
    BY StepOfCycle, TwoParts DEF Reboot
  <2> QED
    BY <2>cycle, TearDownIdle DEF CycleInv, AnyActive
<1> QED
  BY <1>step, CycleInvariant, DaemonTypeCorrect, PTL DEF DSpec, PulseKeepsMaster

-----------------------------------------------------------------------------
(***************************************************************************)
(* The gate.                                                               *)
(***************************************************************************)

\* A debounced level moves only to the sample that moved it.
LEMMA LevelFollows ==
  ASSUME NEW d \in Debouncer, NEW raw \in BOOLEAN
  PROVE  /\ Update(d, raw).level \in {d.level, raw}
         /\ raw = d.level => Update(d, raw).level = d.level
  BY DEF Update, Debouncer

\* Once this process has counted the gate, and while it has its master, an open
\* gate was open in the last bits received, and open bits find the level high:
\* there is no edge left to see before the gate moves.
GateInv ==
  /\ last_open_level = open_db.level
  /\ proc = "carrier" => gate_counted # "here"
  /\ gate_counted = "here" /\ ~suspended =>
       /\ gate => last_input.bale_open
       /\ last_input.bale_open => open_db.level

\* The samples a scan can take of a gate this process has counted: an open one
\* only if the level is high, and an open gate gives no other.
LEMMA SampleOfCounted ==
  ASSUME TypeOK, ProcessTypeOK, GateInv, NEW i \in InputSet, StartItem(i),
         gate_counted = "here", ~suspended
  PROVE  /\ last_input'.bale_open = i.bale_open
         /\ gate => i.bale_open
         /\ i.bale_open => open_db.level
<1>typed. i \in Inputs /\ gate \in BOOLEAN /\ last_input \in Bits
  BY DEF ProcessTypeOK
<1>bits. last_input' = [bale_full |-> i.bale_full, knife_in |-> i.knife_in,
                        bale_open |-> i.bale_open]
  BY DEF StartItem, PollResult
<1>read. last_input'.bale_open = i.bale_open
  BY <1>bits
<1>source. i.bale_open = gate \/ i.bale_open = last_input.bale_open
  BY <1>read DEF StartItem, PollResult
<1> QED
  BY <1>typed, <1>read, <1>source DEF GateInv

\* A scan counts only a rise of the level, on a healthy bus that has its master,
\* and the sample that made it rise was an open one.
LEMMA CountedRise ==
  ASSUME TypeOK, ProcessTypeOK, NEW i \in InputSet, StartItem(i),
         i.healthy, open_db'.level, ~last_open_level, GateInv
  PROVE  ~suspended /\ i.bale_open
<1>typed. i.bale_open \in BOOLEAN /\ open_db \in Debouncer
  BY DEF TypeOK, Inputs
<1>rise. open_db' = Update(open_db, i.bale_open) /\ ~open_db.level
  BY DEF StartItem, BeginScan, GateInv
<1>sample. i.bale_open
  BY <1>typed, <1>rise, LevelFollows
<1> QED
  BY <1>sample DEF StartItem, PollResult, IsHealthy

\* The first part of the item keeps the invariant.
LEMMA GateStart ==
  ASSUME TypeOK, ProcessTypeOK, GateInv, NEW i \in InputSet, StartItem(i)
  PROVE  GateInv'
<1>typed. i.bale_open \in BOOLEAN /\ open_db \in Debouncer
  BY DEF TypeOK, Inputs
<1>scan. /\ open_db' = Update(open_db, i.bale_open)
         /\ last_open_level' = open_db'.level
         /\ UNCHANGED <<suspended, gate, proc>>
         /\ proc = "running"
  BY DEF StartItem, BeginScan, CountBale
<1>counts. CASE i.healthy /\ open_db'.level /\ ~last_open_level
  <2>open. ~suspended /\ i.bale_open
    BY <1>counts, CountedRise
  <2>bits. last_input'.bale_open
    BY <2>open DEF StartItem, PollResult
  <2> QED
    BY <1>scan, <1>counts, <2>bits DEF GateInv
<1>none. CASE ~(i.healthy /\ open_db'.level /\ ~last_open_level)
  <2>same. gate_counted' = gate_counted
    BY <1>none DEF StartItem
  <2> SUFFICES ASSUME gate_counted = "here", ~suspended
               PROVE  /\ gate => last_input'.bale_open
                      /\ last_input'.bale_open => open_db'.level
    BY <1>scan, <2>same DEF GateInv
  <2>sample. /\ last_input'.bale_open = i.bale_open
             /\ gate => i.bale_open
             /\ i.bale_open => open_db.level
    BY SampleOfCounted
  <2>level. i.bale_open => open_db'.level
    BY <1>typed, <1>scan, <2>sample, LevelFollows DEF Debouncer
  <2> QED
    BY <2>sample, <2>level
<1> QED
  BY <1>counts, <1>none

\* So does every other step: a command may tear the master down, a new process
\* has counted nothing, and a gate that moves is counted afresh.
LEMMA GateStep == TypeOK /\ ProcessTypeOK /\ GateInv /\ [DNext]_dvars => GateInv'
<1> SUFFICES ASSUME TypeOK, ProcessTypeOK, GateInv, [DNext]_dvars PROVE GateInv'
  OBVIOUS
<1>spawn. CASE Spawn
  BY <1>spawn DEF Spawn, Reboot, DebouncerNew, GateInv
<1>register. CASE Register
  BY <1>register DEF Register, vars, inputVars, modeVars, worldVars, GateInv
<1>start. CASE \E i \in InputSet : StartItem(i)
  BY <1>start, GateStart
<1>command. CASE StepCommand
  <2>head. Head(drained) \in Commands
    BY <1>command DEF StepCommand, ProcessTypeOK
  <2>cycle. UNCHANGED inputVars /\ (suspended' = suspended \/ suspended' = TRUE)
    BY <1>command, <2>head, CommandMode DEF StepCommand, modeVars
  <2> QED
    BY <1>command, <2>cycle DEF StepCommand, inputVars, busVars, worldVars, GateInv
<1>finish. CASE FinishItem
  <2>cycle. UNCHANGED <<inputVars, suspended>>
    BY <1>finish DEF FinishItem, EndScan, EndScanManual, EndScanNormal, modeVars
  <2>proc. proc' # "carrier"
    BY <1>finish DEF FinishItem
  <2> QED
    BY <1>finish, <2>cycle, <2>proc DEF FinishItem, inputVars, worldVars, GateInv
<1>gate. CASE GateMoves
  BY <1>gate DEF GateMoves, vars, inputVars, modeVars, busVars, GateInv
<1>aside. CASE /\ UNCHANGED <<vars, last_input, gate, gate_counted>>
               /\ proc' = "carrier" => proc = "carrier"
  BY <1>aside DEF vars, inputVars, modeVars, GateInv
<1> QED
  BY <1>spawn, <1>register, <1>start, <1>command, <1>finish, <1>gate, <1>aside
     DEF DNext, dvars, busVars, worldVars, WaitForCarrier, RegisterFails, ExitBringup, HealthPump,
         PanelSends, CarrierMoves

\* CountsOnceInProcess: until the gate moves or the process ends there is no
\* second edge, whatever the bus, the input bits and the operator do.
THEOREM CountedOnce == DSpec => CountsOnceInProcess
<1>first. DInit => GateInv
  <2> SUFFICES ASSUME DInit PROVE GateInv
    OBVIOUS
  <2>level. last_open_level = open_db.level
    BY DEF DInit, Init, InitWith, DebouncerNew
  <2> QED
    BY <2>level DEF DInit, GateInv
<1>step. DaemonTypeOK /\ GateInv /\ [DNext]_dvars => GateInv'
  BY GateStep, TwoParts
<1>once. DaemonTypeOK /\ GateInv /\ [DNext]_dvars =>
           [proc = "running" /\ phase = "idle" /\ counters'.session > counters.session
              => gate_counted # "here"]_dvars
  <2> SUFFICES ASSUME DaemonTypeOK, GateInv, [DNext]_dvars, proc = "running", phase = "idle",
                      counters'.session > counters.session, gate_counted = "here"
               PROVE  FALSE
    OBVIOUS
  <2>typed. TypeOK /\ ProcessTypeOK
    BY TwoParts
  <2>moved. counters' # counters
    BY <2>typed DEF TypeOK, CounterValues
  <2>start. PICK i \in InputSet : StartItem(i)
    BY <2>moved
       DEF DNext, dvars, vars, Spawn, WaitForCarrier, Register, RegisterFails, ExitBringup,
           StepCommand, HandleCommand, ManualIo, IgnoreInManual, FireWrap, FireKnife, Recount,
           SwitchToEthernet, SwitchToEthercat, Reject, Answer, NextCommand, FinishItem, EndScan,
           EndScanManual, EndScanNormal, HealthPump, PanelSends, CarrierMoves, GateMoves
  <2>rise. i.healthy /\ open_db'.level /\ ~last_open_level
    BY <2>moved, <2>start DEF StartItem, BeginScan, CountBale
  <2>open. ~suspended /\ i.bale_open
    BY <2>typed, <2>start, <2>rise, CountedRise
  <2>high. open_db.level
    BY <2>typed, <2>start, <2>open, SampleOfCounted
  <2> QED
    BY <2>rise, <2>high DEF GateInv
<1> QED
  BY <1>first, <1>step, <1>once, DaemonTypeCorrect, PTL DEF DSpec, CountsOnceInProcess

-----------------------------------------------------------------------------
(***************************************************************************)
(* The drained commands.                                                   *)
(***************************************************************************)

\* Between two scans nothing is drained; within one, what was drained and not
\* handled yet fits into what is left of the batch.
DrainInv ==
  /\ phase = "idle" => drained = <<>>
  /\ phase = "commands" => proc = "running" /\ batch + Len(drained) <= QueueSize

\* A command of the link takes the next place of the batch.
LEMMA CommandCounts ==
  ASSUME NEW cmd, HandleCommand(cmd)
  PROVE  phase = "commands" /\ batch' = batch + 1
  BY DEF HandleCommand, ManualIo, IgnoreInManual, FireWrap, FireKnife, Recount,
         SwitchToEthernet, SwitchToEthercat, Reject, Answer, NextCommand

\* The daemon's steps keep it: only a scan's start drains, and its end comes
\* when nothing is left.
LEMMA DrainStep == TypeOK /\ ProcessTypeOK /\ DrainInv /\ [DNext]_dvars => DrainInv'
<1> SUFFICES ASSUME TypeOK, ProcessTypeOK, DrainInv, [DNext]_dvars PROVE DrainInv'
  OBVIOUS
<1>spawn. CASE Spawn
  BY <1>spawn DEF Spawn, Reboot, OpenLink, DrainInv
<1>start. CASE \E i \in InputSet : StartItem(i)
  <2>room. Len(queue) <= QueueSize /\ Len(queue) \in Nat
    BY DEF ProcessTypeOK
  <2> QED
    BY <1>start, <2>room DEF StartItem, BeginScan, DrainInv
<1>command. CASE StepCommand
  <2>next. phase = "commands" /\ phase' = "commands" /\ batch' = batch + 1
    BY <1>command, CommandCounts, CommandInScan DEF StepCommand
  <2>shorter. Len(drained') = Len(drained) - 1 /\ Len(drained) \in Nat /\ batch \in Nat
    BY <1>command DEF StepCommand, ProcessTypeOK, TypeOK
  <2> QED
    BY <1>command, <2>next, <2>shorter DEF StepCommand, DrainInv
<1>finish. CASE FinishItem
  BY <1>finish DEF FinishItem, EndScan, EndScanManual, EndScanNormal, DrainInv
<1>ends. CASE Register \/ RegisterFails \/ ExitBringup
  BY <1>ends DEF Register, RegisterFails, ExitBringup, vars, cycleVars, linkVars, DrainInv, TypeOK
<1>aside. CASE UNCHANGED <<phase, batch, drained, proc>>
  BY <1>aside DEF DrainInv
<1> QED
  BY <1>spawn, <1>start, <1>command, <1>finish, <1>ends, <1>aside
     DEF DNext, dvars, vars, cycleVars, linkVars, WaitForCarrier, HealthPump, PanelSends,
         CarrierMoves, GateMoves

\* handle answers every command, in every mode, with one of its actions or
\* rejections.
LEMMA ResolveTotal ==
  ASSUME NEW s \in StateType, NEW cmd \in Command, NEW active
  PROVE  Resolve(s, cmd, active) \in Action \cup Rejection
<1>plain. CASE cmd \in PlainCommand
  BY <1>plain DEF PlainCommand, Resolve, Action, Rejection
<1>adjust. CASE cmd \in AdjustCommand
  BY <1>adjust DEF AdjustCommand, Resolve, Action, Rejection
<1>manual. CASE cmd \in ManualCommand
  BY <1>manual DEF ManualCommand, Resolve, Action, Rejection
<1> QED
  BY <1>plain, <1>adjust, <1>manual DEF Command

\* A drained command meets a running scan that has room for it and a state
\* machine with an answer: the bound on a batch never holds one back, so no scan
\* stops between drain and write, whatever the link delivered before a restart.
THEOREM DrainedAreHandled ==
  DSpec => [](drained # <<>> =>
                /\ proc = "running" /\ phase = "commands"
                /\ batch < MaxBatch
                /\ Resolve(state, Head(drained), AnyActive) \in Action \cup Rejection)
<1>first. DInit => DrainInv
  BY DEF DInit, Init, InitWith, DrainInv
<1>step. DaemonTypeOK /\ DrainInv /\ [DNext]_dvars => DrainInv'
  BY DrainStep, TwoParts
<1>enough. DaemonTypeOK /\ DrainInv =>
             (drained # <<>> =>
                /\ proc = "running" /\ phase = "commands"
                /\ batch < MaxBatch
                /\ Resolve(state, Head(drained), AnyActive) \in Action \cup Rejection)
  <2> SUFFICES ASSUME DaemonTypeOK, DrainInv, drained # <<>>
               PROVE  /\ proc = "running" /\ phase = "commands"
                      /\ batch < MaxBatch
                      /\ Resolve(state, Head(drained), AnyActive) \in Action \cup Rejection
    OBVIOUS
  <2>typed. TypeOK /\ ProcessTypeOK
    BY TwoParts
  <2>phase. phase = "commands" /\ proc = "running"
    BY <2>typed DEF TypeOK, DrainInv
  <2>some. Len(drained) \in Nat \ {0} /\ Head(drained) \in Commands
    BY <2>typed DEF ProcessTypeOK
  <2>room. batch < MaxBatch
    BY <2>typed, <2>phase, <2>some DEF TypeOK, DrainInv
  <2>state. state \in StateType /\ Head(drained) \in Command
    BY <2>typed, <2>some DEF TypeOK
  <2> QED
    BY <2>phase, <2>room, <2>state, ResolveTotal
<1> QED
  BY <1>first, <1>step, <1>enough, DaemonTypeCorrect, PTL DEF DSpec
=============================================================================
