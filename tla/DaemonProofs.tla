---------------------------- MODULE DaemonProofs ----------------------------
(***************************************************************************)
(* The daemon process, for every deadline, queue, pulse length and set of  *)
(* inputs and commands: its variables keep their types, a write is never   *)
(* lost, and the bring-up deadline never ends Ethernet mode.               *)
(***************************************************************************)
EXTENDS Daemon, ControlProofs

USE DebounceAssumption, PulseAssumption, MaxCountAssumption, ControlAssumption,
    DaemonAssumption

\* The control cycle's part of a state stays as it is in the daemon's own steps.
LEMMA CycleKept == UNCHANGED vars => (TypeOK => TypeOK')
  BY DEF vars, cycleVars, pulseVars, inputVars, manualVars, modeVars, TypeOK

\* A new process has a fresh cycle around the counters it loads.
LEMMA RebootType == ASSUME Reboot(saved), saved \in CounterValues PROVE TypeOK'
<1>cycle. /\ phase' \in {"idle", "commands"} /\ batch' \in 0 .. MaxBatch
          /\ inputs' \in Inputs /\ manual' \in Outputs /\ outputs' \in Outputs
  BY DEF Reboot, Inputs, Outputs, AllLow
<1>parts. /\ state' \in StateType
          /\ wrap' \in Pulse /\ knives_in' \in Pulse /\ knives_out' \in Pulse
          /\ counters' \in CounterValues
  BY DEF Reboot, StateNew, StateType, Mode, KnifePos, PulseNew, Pulse
<1>levels. full_db' \in Debouncer /\ knife_db' \in Debouncer /\ open_db' \in Debouncer
  BY DEF Reboot, DebouncerNew, Debouncer
<1>flags. /\ got_manual' \in BOOLEAN /\ last_open_level' \in BOOLEAN
          /\ suspended' \in BOOLEAN /\ restart_requested' \in BOOLEAN
  BY DEF Reboot
<1>rest. /\ full_latch_remaining' \in 0 .. FullLatchCycles
         /\ manual_io_remaining' \in 0 .. ManualIoWatchdog
         /\ last_ip' \in IpOption
  BY DEF Reboot, IpOption
<1> QED
  BY <1>cycle, <1>parts, <1>levels, <1>flags, <1>rest DEF TypeOK

\* The process, the bus and the link, without the control cycle.
ProcessTypeOK ==
  /\ proc \in {"down", "carrier", "running"}
  /\ carrier \in BOOLEAN /\ health \in BOOLEAN /\ gate \in BOOLEAN
  /\ last_input \in Bits
  /\ last_output \in {{}} \cup {{o} : o \in Outputs}
  /\ image \in Outputs
  /\ uptime \in 0 .. BringupDeadline
  /\ ever_up \in BOOLEAN /\ maintenance \in BOOLEAN
  /\ queue \in Seq(Commands) /\ Len(queue) <= QueueSize
  /\ drained \in Seq(Commands) /\ Len(drained) <= QueueSize
  /\ saved \in CounterValues
  /\ published \in Mode
  /\ gate_counted \in Counted

LEMMA TwoParts == DaemonTypeOK <=> TypeOK /\ ProcessTypeOK
  BY DEF DaemonTypeOK, ProcessTypeOK

\* Starting, waiting and ending.
LEMMA LifeType ==
  ASSUME TypeOK, ProcessTypeOK,
         Spawn \/ WaitForCarrier \/ Register \/ RegisterFails \/ ExitBringup
  PROVE  TypeOK' /\ ProcessTypeOK'
<1>low. AllLow \in Outputs /\ NoBits \in Bits
  BY DEF AllLow, Outputs, NoBits, Bits
<1>empty. <<>> \in Seq(Commands) /\ Len(<<>>) <= QueueSize
  OBVIOUS
<1>spawn. CASE Spawn
  <2>own. ProcessTypeOK'
    BY <1>spawn, <1>empty
       DEF Spawn, OpenLink, ProcessTypeOK, busVars, writeVars, itemVars, Counted
  <2> QED
    BY <1>spawn, <2>own, RebootType DEF Spawn, ProcessTypeOK
<1>wait. CASE WaitForCarrier
  BY <1>wait, CycleKept
     DEF WaitForCarrier, Publish, IdleSnapshot, ProcessTypeOK, busVars, writeVars, itemVars, worldVars, Mode
<1>register. CASE Register
  <2>flags. health' \in BOOLEAN /\ ever_up' \in BOOLEAN /\ maintenance' \in BOOLEAN
    BY <1>register DEF Register
  <2>bus. /\ last_input' \in Bits /\ last_output' \in {{}} \cup {{o} : o \in Outputs}
          /\ image' \in Outputs /\ uptime' \in 0 .. BringupDeadline
    BY <1>register, <1>low DEF Register
  <2> QED
    BY <1>register, <2>flags, <2>bus, CycleKept DEF Register, ProcessTypeOK, linkVars, worldVars
<1>ends. CASE RegisterFails \/ ExitBringup
  BY <1>ends, CycleKept
     DEF RegisterFails, ExitBringup, ProcessTypeOK, busVars, writeVars, itemVars, linkVars, worldVars
<1> QED
  BY <1>spawn, <1>wait, <1>register, <1>ends

\* The first part of the item: what poll returns, what is drained and counted.
LEMMA StartItemType ==
  ASSUME TypeOK, ProcessTypeOK, NEW i \in InputSet, StartItem(i)
  PROVE  TypeOK' /\ ProcessTypeOK'
<1>cycle. TypeOK'
  BY BeginScanType DEF StartItem
<1>input. i \in Inputs
  OBVIOUS
<1>bits. last_input' \in Bits
  BY <1>input DEF StartItem, PollResult, Bits, Inputs, ProcessTypeOK
<1>flags. ever_up' \in BOOLEAN /\ gate_counted' \in Counted
  BY <1>input DEF StartItem, ProcessTypeOK, Inputs, Counted
<1>clock. uptime' \in 0 .. BringupDeadline
  BY DEF StartItem, ProcessTypeOK
<1>file. saved' \in CounterValues
  BY <1>cycle DEF StartItem, PersistIf, ProcessTypeOK, TypeOK
<1>link. /\ queue' \in Seq(Commands) /\ Len(queue') <= QueueSize
         /\ drained' \in Seq(Commands) /\ Len(drained') <= QueueSize
  BY DEF StartItem, ProcessTypeOK
<1> QED
  BY <1>cycle, <1>bits, <1>flags, <1>clock, <1>file, <1>link DEF StartItem, ProcessTypeOK, writeVars

\* A command.
LEMMA StepCommandType ==
  ASSUME TypeOK, ProcessTypeOK, StepCommand
  PROVE  TypeOK' /\ ProcessTypeOK'
<1>head. /\ Head(drained) \in Commands
         /\ Tail(drained) \in Seq(Commands) /\ Len(Tail(drained)) <= QueueSize
  BY DEF StepCommand, ProcessTypeOK
<1>cycle. TypeOK'
  BY <1>head, CommandType DEF StepCommand
<1>file. saved' \in CounterValues
  BY <1>cycle DEF StepCommand, PersistIf, ProcessTypeOK, TypeOK
<1> QED
  BY <1>cycle, <1>head, <1>file
     DEF StepCommand, ProcessTypeOK, busVars, writeVars, itemVars, worldVars

\* The last part of the item.
LEMMA FinishItemType ==
  ASSUME TypeOK, ProcessTypeOK, FinishItem
  PROVE  TypeOK' /\ ProcessTypeOK'
<1>cycle. TypeOK'
  BY EndScanType DEF FinishItem
<1>mode. state'.mode \in Mode /\ outputs' \in Outputs
  BY <1>cycle DEF TypeOK, StateType
<1>flag. maintenance' \in BOOLEAN
  BY DEF FinishItem, ProcessTypeOK
<1>out. /\ last_output' \in {{}} \cup {{o} : o \in Outputs}
        /\ image' \in Outputs
        /\ published' \in Mode
        /\ proc' \in {"down", "carrier", "running"}
  BY <1>mode DEF FinishItem, Write, Publish, Snapshot, writeVars, ProcessTypeOK
<1> QED
  BY <1>cycle, <1>flag, <1>out DEF FinishItem, ProcessTypeOK, worldVars

\* The surroundings.
LEMMA WorldType ==
  ASSUME TypeOK, ProcessTypeOK,
         \/ HealthPump \/ CarrierMoves \/ GateMoves \/ UNCHANGED dvars
         \/ \E cmd \in Commands : PanelSends(cmd)
  PROVE  TypeOK' /\ ProcessTypeOK'
<1>pump. CASE HealthPump
  BY <1>pump, CycleKept
     DEF HealthPump, ProcessTypeOK, writeVars, itemVars, linkVars, worldVars
<1>move. CASE CarrierMoves \/ GateMoves
  BY <1>move, CycleKept
     DEF CarrierMoves, GateMoves, ProcessTypeOK, busVars, writeVars, itemVars, linkVars, Counted
<1>still. CASE UNCHANGED dvars
  BY <1>still, CycleKept
     DEF dvars, ProcessTypeOK, busVars, writeVars, itemVars, linkVars, worldVars
<1>send. ASSUME NEW cmd \in Commands, PanelSends(cmd) PROVE TypeOK' /\ ProcessTypeOK'
  <2>link. queue' \in Seq(Commands) /\ Len(queue') <= QueueSize
    BY <1>send DEF PanelSends, ProcessTypeOK
  <2> QED
    BY <1>send, <2>link, CycleKept
       DEF PanelSends, ProcessTypeOK, busVars, writeVars, itemVars, worldVars
<1> QED
  BY <1>pump, <1>move, <1>still, <1>send

\* The first state: the control cycle's Init and an empty link.
LEMMA FirstType == DInit => TypeOK /\ ProcessTypeOK
<1> SUFFICES ASSUME DInit PROVE TypeOK /\ ProcessTypeOK
  OBVIOUS
<1>counters. CountersDefault \in CounterValues
  BY DEF CountersDefault, CounterValues
<1>cycle. TypeOK
  BY InitType DEF DInit
<1>flags. /\ carrier \in BOOLEAN /\ health \in BOOLEAN /\ gate \in BOOLEAN
          /\ ever_up \in BOOLEAN /\ maintenance \in BOOLEAN /\ gate_counted \in Counted
  BY DEF DInit, Counted
<1>bus. /\ last_input \in Bits /\ image \in Outputs
        /\ last_output \in {{}} \cup {{o} : o \in Outputs}
        /\ published \in Mode
        /\ proc \in {"down", "carrier", "running"}
  BY DEF DInit, NoBits, Bits, AllLow, Outputs, Mode
<1>link. /\ queue \in Seq(Commands) /\ Len(queue) <= QueueSize
         /\ drained \in Seq(Commands) /\ Len(drained) <= QueueSize
         /\ uptime \in 0 .. BringupDeadline
  BY DEF DInit
<1> QED
  BY <1>counters, <1>cycle, <1>flags, <1>bus, <1>link DEF DInit, ProcessTypeOK

\* Every variable of the daemon keeps its type: commands, files, snapshots and
\* outputs are what the code can build, and the uptime stays in its range.
THEOREM DaemonTypeCorrect == DSpec => []DaemonTypeOK
<1> DEFINE Typed == TypeOK /\ ProcessTypeOK
<1>step. Typed /\ [DNext]_dvars => Typed'
  BY LifeType, StartItemType, StepCommandType, FinishItemType, WorldType DEF DNext
<1> QED
  BY <1>step, FirstType, TwoParts, PTL DEF DSpec

-----------------------------------------------------------------------------
\* What WagoBus remembers, the connector has.
Remembered == last_output = {} \/ last_output = {image}

\* No failed send is forgotten: while the connector's outputs are not the
\* commanded ones, the byte remembered differs too, so the next write sends.
THEOREM WritesAreKept == DSpec => []NoLostWrite
<1>start. DInit => Remembered
  BY DEF DInit, Remembered
<1>step. Remembered /\ [DNext]_dvars => Remembered'
  <2> SUFFICES ASSUME Remembered, [DNext]_dvars PROVE Remembered'
    OBVIOUS
  <2>write. CASE FinishItem
    BY <2>write DEF FinishItem, Write, writeVars, Remembered
  <2>fresh. CASE Register
    BY <2>fresh DEF Register, Remembered
  <2>other. CASE UNCHANGED writeVars
    BY <2>other DEF writeVars, Remembered
  <2> QED
    BY <2>write, <2>fresh, <2>other
       DEF DNext, dvars, busVars, Spawn, WaitForCarrier, RegisterFails, ExitBringup, StartItem,
           StepCommand, HealthPump, PanelSends, CarrierMoves, GateMoves
<1>enough. Remembered => NoLostWrite
  BY DEF Remembered, NoLostWrite
<1> QED
  BY <1>start, <1>step, <1>enough, PTL DEF DSpec

-----------------------------------------------------------------------------
\* The maintenance flag is set whenever a scan of the running daemon has ended
\* in Ethernet mode; a daemon that waits for the carrier has run no scan yet.
MaintenanceInv ==
  /\ proc = "carrier" => phase = "idle" /\ state.mode # "Ethernet"
  /\ proc = "running" /\ phase = "idle" /\ state.mode = "Ethernet" => maintenance

\* A command leaves the scan in progress.
LEMMA CommandInScan ==
  ASSUME NEW cmd, HandleCommand(cmd)
  PROVE  phase' = "commands"
  BY DEF HandleCommand, ManualIo, IgnoreInManual, FireWrap, FireKnife, Recount,
         SwitchToEthernet, SwitchToEthercat, Reject, Answer, NextCommand

\* The daemon's steps keep the flag right.
LEMMA MaintenanceStep == MaintenanceInv /\ [DNext]_dvars => MaintenanceInv'
<1> SUFFICES ASSUME MaintenanceInv, [DNext]_dvars
             PROVE  MaintenanceInv'
  OBVIOUS
<1> USE DEF MaintenanceInv
<1>spawn. CASE Spawn
  BY <1>spawn DEF Spawn, Reboot, StateNew
<1>ready. CASE Register
  BY <1>ready DEF Register, vars, cycleVars, modeVars
<1>ends. CASE ExitBringup \/ RegisterFails
  BY <1>ends DEF ExitBringup, RegisterFails
<1>scan. CASE \E i \in InputSet : StartItem(i)
  BY <1>scan DEF StartItem, BeginScan
<1>command. CASE StepCommand
  BY <1>command, CommandInScan DEF StepCommand
<1>finish. CASE FinishItem
  BY <1>finish DEF FinishItem
<1>aside. CASE UNCHANGED <<phase, state, proc, maintenance>>
  BY <1>aside
<1> QED
  BY <1>spawn, <1>ready, <1>ends, <1>scan, <1>command, <1>finish, <1>aside
     DEF DNext, WaitForCarrier, HealthPump, PanelSends, CarrierMoves, GateMoves, dvars, vars,
         cycleVars, modeVars, itemVars

\* MaintenanceIsStable: from Ethernet mode the daemon exits only because the
\* operator asked for the return (the maintenance flag of run_ethercat).
THEOREM MaintenanceStable == DSpec => MaintenanceIsStable
<1>start. DInit => MaintenanceInv
  BY DEF DInit, MaintenanceInv
<1>exit. MaintenanceInv /\ [DNext]_dvars =>
           [proc = "running" /\ proc' = "down" /\ state.mode = "Ethernet"
              => restart_requested]_dvars
  <2> SUFFICES ASSUME MaintenanceInv, DNext, proc = "running", proc' = "down",
                      state.mode = "Ethernet"
               PROVE  restart_requested
    OBVIOUS
  <2>deadline. CASE ExitBringup
    BY <2>deadline DEF ExitBringup, BringupExpired, MaintenanceInv
  <2>asked. CASE FinishItem
    BY <2>asked DEF FinishItem, TakeRestartRequest
  <2> QED
    BY <2>deadline, <2>asked
       DEF DNext, Spawn, WaitForCarrier, Register, RegisterFails, StartItem, StepCommand,
           HealthPump, PanelSends, CarrierMoves, GateMoves
<1> QED
  BY <1>start, <1>exit, MaintenanceStep, PTL DEF DSpec, MaintenanceIsStable
=============================================================================
