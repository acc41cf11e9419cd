------------------------------- MODULE Daemon -------------------------------
(***************************************************************************)
(* The EtherCAT daemon process (baler-daemon/src/main.rs, run_ethercat and *)
(* wait_for_carrier) around the control cycle: systemd starts it, it waits *)
(* for the carrier, runs the 10 ms item over WagoBus (ethercat_io.rs) and  *)
(* the command link (transport.rs), and exits when the bring-up deadline   *)
(* lapses or the operator returns from Ethernet mode.                      *)
(*                                                                         *)
(* The scan is the one of Control, its commands taken from the link and    *)
(* its inputs from the bus.  The panel, the bus and the gate move between  *)
(* two scans; nothing inside a scan reads them again.                      *)
(***************************************************************************)
EXTENDS Control, Sequences

CONSTANTS
  BringupDeadline,   \* BRINGUP_DEADLINE in scans
  QueueSize          \* bound on the commands waiting in the link

ASSUME DaemonAssumption ==
  /\ BringupDeadline \in Nat \ {0}
  /\ QueueSize \in 1 .. MaxBatch

VARIABLES
  proc,          \* "down", "carrier" (wait_for_carrier) or "running"
  carrier,       \* the NIC reports a link
  health,        \* the pump's last ConnectorHealthKind is Up
  last_input,    \* WagoBus.last_input, as its three bits
  last_output,   \* WagoBus.last_output: {} is None, {o} is Some(o)
  image,         \* the outputs the connector holds for the coupler
  uptime,        \* scans since the item was built, up to BringupDeadline
  ever_up,
  maintenance,
  queue,         \* commands in the link
  drained,       \* commands of this scan not handled yet
  saved,         \* the counters in the counter file
  published,     \* the mode of the last snapshot on the link
  gate,          \* the field: the baler is fully open
  gate_counted   \* history: who counted a bale since the gate last moved

writeVars == <<last_output, image>>
busVars == <<health, last_input, writeVars>>
itemVars == <<uptime, ever_up, maintenance>>
linkVars == <<queue, drained, published>>
worldVars == <<carrier, gate, gate_counted>>
dvars == <<vars, proc, busVars, itemVars, linkVars, saved, worldVars>>

Bits == [bale_full : BOOLEAN, knife_in : BOOLEAN, bale_open : BOOLEAN]
NoBits == [bale_full |-> FALSE, knife_in |-> FALSE, bale_open |-> FALSE]

\* Nobody, this process, or one before it.
Counted == {"no", "here", "before"}

DaemonTypeOK ==
  /\ TypeOK
  /\ proc \in {"down", "carrier", "running"}
  /\ carrier \in BOOLEAN /\ health \in BOOLEAN /\ gate \in BOOLEAN
  /\ last_input \in Bits
  /\ last_output \in {{}} \cup {{o} : o \in Outputs}
  /\ image \in Outputs
  /\ uptime \in 0 .. BringupDeadline
  /\ ever_up \in BOOLEAN /\ maintenance \in BOOLEAN
  /\ queue \in Seq(Commands) /\ Len(queue) <= QueueSize
  /\ drained \in Seq(Commands) /\ Len(drained) <= QueueSize
  /\ saved \in CounterValues
  /\ published \in Mode
  /\ gate_counted \in Counted

DInit ==
  /\ Init
  /\ proc = "down"
  /\ carrier \in BOOLEAN
  /\ health = FALSE
  /\ last_input = NoBits
  /\ last_output = {} /\ image = AllLow
  /\ uptime = 0 /\ ever_up = FALSE /\ maintenance = FALSE
  /\ queue = <<>> /\ drained = <<>>
  /\ saved = CountersDefault
  /\ published = "Initializing"
  /\ gate = FALSE /\ gate_counted = "no"

-----------------------------------------------------------------------------
(***************************************************************************)
(* The process.                                                            *)
(***************************************************************************)

\* Control::new and the fresh WagoBus of a new process, with the counters it
\* loads: InitWith in the next state.
Reboot(loaded) ==
  /\ phase' = "idle" /\ batch' = 0 /\ got_manual' = FALSE
  /\ inputs' = [healthy |-> FALSE, bale_full |-> FALSE, knife_in |-> FALSE, bale_open |-> FALSE]
  /\ state' = StateNew
  /\ wrap' = PulseNew /\ knives_in' = PulseNew /\ knives_out' = PulseNew
  /\ full_db' = DebouncerNew(FALSE)
  /\ knife_db' = DebouncerNew(FALSE)
  /\ open_db' = DebouncerNew(FALSE)
  /\ last_open_level' = FALSE
  /\ counters' = loaded
  /\ full_latch_remaining' = 0
  /\ manual_io_remaining' = 0 /\ manual' = AllLow
  /\ last_ip' = "None" /\ suspended' = FALSE /\ restart_requested' = FALSE
  /\ outputs' = AllLow

\* DaemonLink::new opens a new reader, which sees only what is sent from now on.
OpenLink == queue' = <<>> /\ drained' = <<>>

\* systemd (Restart=always) spawns the daemon.
Spawn ==
  /\ proc = "down"
  /\ proc' = "carrier"
  /\ Reboot(saved)
  /\ OpenLink
  /\ gate_counted' = IF gate_counted = "here" THEN "before" ELSE gate_counted
  /\ UNCHANGED <<busVars, itemVars, published, saved, carrier, gate>>

\* DaemonLink::publish of snapshot s; the panel sees the newest.
Publish(s) == published' = s.mode

\* One poll of wait_for_carrier: no link, so the panel is shown a fault.
WaitForCarrier ==
  /\ proc = "carrier"
  /\ ~carrier
  /\ Publish(IdleSnapshot("Fault"))
  /\ UNCHANGED <<vars, proc, busVars, itemVars, queue, drained, saved, worldVars>>

\* The carrier is there: register() builds the bus, the item its locals.
Register ==
  /\ proc = "carrier"
  /\ carrier
  /\ proc' = "running"
  /\ health' = FALSE
  /\ last_input' = NoBits
  /\ last_output' = {} /\ image' = AllLow
  /\ uptime' = 0 /\ ever_up' = FALSE /\ maintenance' = FALSE
  /\ UNCHANGED <<vars, linkVars, saved, worldVars>>

\* Or it fails, and main returns the error.
RegisterFails ==
  /\ proc = "carrier"
  /\ carrier
  /\ proc' = "down"
  /\ UNCHANGED <<vars, busVars, itemVars, linkVars, saved, worldVars>>

-----------------------------------------------------------------------------
(***************************************************************************)
(* The 10 ms item.                                                         *)
(***************************************************************************)

\* WagoBus::is_healthy.
IsHealthy == ~suspended /\ health

\* WagoBus::poll: all false when suspended, else the latest bits received,
\* which may be the old ones.
PollResult(i) ==
  /\ i.healthy = IsHealthy
  /\ last_input' = IF suspended THEN last_input
                   ELSE [bale_full |-> i.bale_full, knife_in |-> i.knife_in,
                         bale_open |-> i.bale_open]
  /\ IF suspended THEN ~i.bale_full /\ ~i.knife_in /\ ~i.bale_open
     ELSE i.bale_open = gate \/ last_input' = last_input

\* Mutated forms: the backstop is forgotten; it ignores maintenance mode.
BringupNeverExpires(healthy) == FALSE
BringupIgnoresMaintenance(healthy) == ~healthy /\ ~ever_up /\ uptime = BringupDeadline

\* The bus has not reached Up within the deadline and is not meant to be down.
BringupExpired(healthy) ==
  ~healthy /\ ~ever_up /\ ~maintenance /\ uptime = BringupDeadline

\* The item exits before it drains the link.
ExitBringup ==
  /\ proc = "running"
  /\ phase = "idle"
  /\ BringupExpired(IsHealthy)
  /\ proc' = "down"
  /\ UNCHANGED <<vars, busVars, itemVars, linkVars, saved, worldVars>>

\* A counter operation persists: the save succeeds, or fails and is logged.
\* A step with no counter operation leaves the file alone.
PersistIf(called) ==
  saved' \in IF called THEN {saved, counters'} ELSE {saved}

\* poll, drain and the first part of step.
StartItem(i) ==
  /\ proc = "running"
  /\ ~BringupExpired(IsHealthy)
  /\ PollResult(i)
  /\ BeginScan(i)
  /\ ever_up' = (ever_up \/ i.healthy)
  /\ uptime' = IF uptime < BringupDeadline THEN uptime + 1 ELSE uptime
  /\ drained' = queue
  /\ queue' = <<>>
  /\ LET counts == i.healthy /\ open_db'.level /\ ~last_open_level
     IN PersistIf(counts) /\ gate_counted' = IF counts THEN "here" ELSE gate_counted
  /\ UNCHANGED <<proc, health, writeVars, maintenance, published, carrier, gate>>

\* The next drained command.
StepCommand ==
  /\ proc = "running"
  /\ drained # <<>>
  /\ HandleCommand(Head(drained))
  /\ drained' = Tail(drained)
  /\ PersistIf(Recount(Head(drained)))
  /\ UNCHANGED <<proc, busVars, itemVars, queue, published, worldVars>>

\* Mutated form: the byte is remembered before it is sent.
WriteRemembersFirst(o) ==
  IF suspended \/ last_output = {o} THEN UNCHANGED writeVars
  ELSE last_output' = {o} /\ image' \in {image, o}

\* WagoBus::write: only on change, and remembered only if the send succeeds.
Write(o) ==
  \/ UNCHANGED writeVars
  \/ ~suspended /\ last_output # {o} /\ last_output' = {o} /\ image' = o

\* Mutated form: the pending restart is not drained.
RestartRequestLost == FALSE

TakeRestartRequest == restart_requested

\* The last part of step, then the restart request or write, pet and publish.
FinishItem ==
  /\ proc = "running"
  /\ drained = <<>>
  /\ EndScan
  /\ maintenance' = (maintenance \/ state'.mode = "Ethernet")
  /\ IF TakeRestartRequest
     THEN /\ proc' = "down"
          /\ UNCHANGED <<writeVars, published>>
     ELSE /\ Write(outputs')
          /\ Publish(Snapshot')
          /\ UNCHANGED proc
  /\ UNCHANGED <<health, last_input, uptime, ever_up, queue, drained, saved, worldVars>>

-----------------------------------------------------------------------------
(***************************************************************************)
(* The surroundings.                                                       *)
(***************************************************************************)

\* The health pump stores the last of the events that came since its last run.
HealthPump ==
  /\ proc = "running" /\ phase = "idle"
  /\ health' = ~health
  /\ UNCHANGED <<vars, proc, last_input, writeVars, itemVars, linkVars, saved, worldVars>>

\* The panel sends a command to a daemon that has its reader open.
PanelSends(cmd) ==
  /\ proc # "down" /\ phase = "idle"
  /\ Len(queue) < QueueSize
  /\ queue' = Append(queue, cmd)
  /\ UNCHANGED <<vars, proc, busVars, itemVars, drained, published, saved, worldVars>>

\* Cable and coupler come and go; the gate opens and closes.
CarrierMoves ==
  /\ phase = "idle"
  /\ carrier' = ~carrier
  /\ UNCHANGED <<vars, proc, busVars, itemVars, linkVars, saved, gate, gate_counted>>

GateMoves ==
  /\ phase = "idle"
  /\ gate' = ~gate /\ gate_counted' = "no"
  /\ UNCHANGED <<vars, proc, busVars, itemVars, linkVars, saved, carrier>>

DNext ==
  \/ Spawn
  \/ WaitForCarrier
  \/ Register
  \/ RegisterFails
  \/ ExitBringup
  \/ \E i \in InputSet : StartItem(i)
  \/ StepCommand
  \/ FinishItem
  \/ HealthPump
  \/ \E cmd \in Commands : PanelSends(cmd)
  \/ CarrierMoves
  \/ GateMoves

DSpec == DInit /\ [][DNext]_dvars

\* systemd respawns the daemon (Restart=always), a poll of wait_for_carrier
\* comes every 200 ms and the executor runs the item every 10 ms; nothing is
\* assumed of the panel, the bus, the cable or the gate.
DFairness ==
  /\ WF_dvars(Spawn)
  /\ WF_dvars(WaitForCarrier)
  /\ WF_dvars(Register \/ RegisterFails)
  /\ WF_dvars(ExitBringup \/ \E i \in InputSet : StartItem(i))
  /\ WF_dvars(StepCommand)
  /\ WF_dvars(FinishItem)

DFairSpec == DSpec /\ DFairness

-----------------------------------------------------------------------------
(***************************************************************************)
(* What the process guarantees.                                            *)
(***************************************************************************)

\* In Ethernet mode the daemon stays up, however long the bus has been down
\* and whether or not it ever was up: only the operator's return ends it (the
\* maintenance flag against the bring-up deadline in run_ethercat).
MaintenanceIsStable ==
  [][proc = "running" /\ proc' = "down" /\ state.mode = "Ethernet"
       => restart_requested]_dvars

\* A bus that does not come up is never waited for in vain: once the item runs,
\* the bus comes up, the operator enters Ethernet mode or the process ends and
\* is spawned for a fresh enumeration (the bring-up backstop of run_ethercat).
BringUpNeverHangs ==
  proc = "running" /\ ~ever_up ~> ever_up \/ state.mode = "Ethernet" \/ proc = "down"

\* Outputs that did not get through are sent again by the next scan: the byte
\* WagoBus compares with is never one the connector does not have, however many
\* sends have failed (write).
NoLostWrite ==
  proc = "running" /\ phase = "idle" /\ image # outputs => last_output # {outputs}

\* Whatever pulse or held key commands it and whichever sends failed, the coupler
\* never has DO2 and DO3 energized together (step's two interlocks, write).
CouplerInterlock == ~(image.knives_in /\ image.knives_out)

\* The coupler is given energized outputs only by a scan of a healthy bus that
\* ends in Operational mode: neither a fault, nor a batch that enters Ethernet
\* mode and presses keys of the IO test screen, nor a return that is about to
\* end the process drives an output (on_bus_health, suspend, write, the exit).
EnergizesOnlyInOperation ==
  [][image' # image /\ image' # AllLow
       => state'.mode = "Operational" /\ inputs'.healthy]_dvars

\* The master is torn down under an active pulse only when the bus is lost: on a
\* healthy bus the switch waits for the pulse to end, several mode commands in
\* one batch included (handle's NotIdle; the extent of EthernetOnlyWhenIdle).
PulseKeepsMaster ==
  [][suspended' /\ ~suspended /\ (wrap.active \/ KnifeActive) => ~inputs.healthy]_dvars

\* A process counts a gate that stays as it is at most once, through bus losses,
\* stale input bits and mode switches (the edge detector of step, REQ_0004; the
\* extent of OneBalePerOpen).
CountsOnceInProcess ==
  [][proc = "running" /\ phase = "idle" /\ counters'.session > counters.session
       => gate_counted # "here"]_dvars

\* A return to EtherCAT ends in a fresh process whose master is not torn down
\* (restart, take_restart_request and the exit in run_ethercat).
ReturnRestarts == restart_requested ~> proc = "carrier" /\ ~suspended

-----------------------------------------------------------------------------
(***************************************************************************)
(* What documents and comments say of the process and the code does not do.*)
(***************************************************************************)

\* state.rs: entering Ethernet mode must not require a healthy bus, since it is
\* needed most when the coupler is absent.  Violated while the daemon is parked
\* in wait_for_carrier, which drains no command until a carrier appears.
EnterEthernetIsAnswered ==
  (\E k \in DOMAIN queue : queue[k].kind = "EnterEthernet") ~> queue = <<>>

\* REQ_0004: one ejected bale per open.  Violated when a bale was counted, the
\* daemon is restarted by a return to EtherCAT and the gate is still open: the
\* new process starts with last_open_level low and sees an edge.
OneBalePerOpen ==
  [][proc = "running" /\ phase = "idle" /\ counters'.session > counters.session
       => gate_counted = "no"]_dvars
=============================================================================
