------------------------------- MODULE Control ------------------------------
(***************************************************************************)
(* The 10 ms control cycle of the daemon (baler-daemon/src/control.rs).    *)
(*                                                                         *)
(* One call of Control::step is a sequence of actions:                     *)
(*   BeginScan(i)       the inputs of the scan are folded in (bus health,  *)
(*                      debouncers, bale count, full latch);               *)
(*   one action per     of the drained batch, in order: ManualIo,          *)
(*   operator command   IgnoreInManual, FireWrap, FireKnife, ...           *)
(*   EndScan            the manual-IO watchdog, the pulses, the outputs.   *)
(* Nothing else runs between them, so what the daemon writes and publishes *)
(* is the state in phase "idle".                                           *)
(*                                                                         *)
(* The module keeps the effect of the two ports step() drives:             *)
(* suspended and restart_requested are WagoBus's connector.is_none() and   *)
(* restart_requested (ethercat_io.rs), and net.enter_ethernet() either     *)
(* yields the static IP or an error.                                       *)
(***************************************************************************)
EXTENDS InputConditioner, PulseEngine, BalerState, Counters

CONSTANTS
  FullLatchCycles,     \* FULL_LATCH_CYCLES: scans the "full" indication is held
  ManualIoWatchdog,    \* MANUAL_IO_WATCHDOG: scans without a ManualIo
  InputSet,            \* the Inputs the bus may report in a scan
  Commands,            \* the commands the panel may send
  MaxBatch             \* bound on the commands drained in one scan

Inputs == [healthy : BOOLEAN, bale_full : BOOLEAN, knife_in : BOOLEAN, bale_open : BOOLEAN]

Outputs == [wrap : BOOLEAN, knives_in : BOOLEAN, knives_out : BOOLEAN]

ASSUME ControlAssumption ==
  /\ FullLatchCycles \in Nat \ {0}
  /\ ManualIoWatchdog \in Nat \ {0}
  /\ InputSet \subseteq Inputs
  /\ Commands \subseteq Command
  /\ MaxBatch \in Nat \ {0}

VARIABLES
  phase,                  \* "idle" between two steps, "commands" inside one
  batch,                  \* commands of this scan handled so far
  got_manual,             \* step's local of that name
  inputs,                 \* the scan's Inputs; last_di1/2/3 are its raw bits
  state,                  \* BalerState
  wrap, knives_in, knives_out,        \* the three PulseEngines
  full_db, knife_db, open_db,         \* the three Debouncers
  last_open_level,
  counters,               \* CounterStore's values in memory
  full_latch_remaining,
  manual_io_remaining,
  manual,                 \* manual_wrap, manual_knives_in, manual_knives_out
  last_ip,                \* Option<Ipv4Addr>
  suspended,              \* WagoBus has dropped its connector
  restart_requested,      \* WagoBus asks the run loop to exit
  outputs                 \* the Outputs step returned last

cycleVars == <<phase, batch, got_manual, inputs>>
pulseVars == <<wrap, knives_in, knives_out>>
inputVars == <<full_db, knife_db, open_db, last_open_level>>
manualVars == <<manual_io_remaining, manual>>
modeVars == <<state, last_ip, suspended, restart_requested>>
vars == <<cycleVars, pulseVars, inputVars, manualVars, modeVars,
          counters, full_latch_remaining, outputs>>

AllLow == [wrap |-> FALSE, knives_in |-> FALSE, knives_out |-> FALSE]

IpOption == {"None", "StaticIp"}

KnifeActive == knives_in.active \/ knives_out.active

\* Mutated form: the wrap pulse is forgotten.
AnyKnifeOnly == KnifeActive

AnyActive == wrap.active \/ KnifeActive

TypeOK ==
  /\ phase \in {"idle", "commands"}
  /\ batch \in 0 .. MaxBatch
  /\ got_manual \in BOOLEAN
  /\ inputs \in Inputs
  /\ state \in StateType
  /\ wrap \in Pulse /\ knives_in \in Pulse /\ knives_out \in Pulse
  /\ full_db \in Debouncer /\ knife_db \in Debouncer /\ open_db \in Debouncer
  /\ last_open_level \in BOOLEAN
  /\ counters \in CounterValues
  /\ full_latch_remaining \in 0 .. FullLatchCycles
  /\ manual_io_remaining \in 0 .. ManualIoWatchdog
  /\ manual \in Outputs
  /\ last_ip \in IpOption
  /\ suspended \in BOOLEAN
  /\ restart_requested \in BOOLEAN
  /\ outputs \in Outputs

\* Control::new with the counters CounterStore::load found.
InitWith(loaded) ==
  /\ phase = "idle"
  /\ batch = 0
  /\ got_manual = FALSE
  /\ inputs = [healthy |-> FALSE, bale_full |-> FALSE, knife_in |-> FALSE, bale_open |-> FALSE]
  /\ state = StateNew
  /\ wrap = PulseNew /\ knives_in = PulseNew /\ knives_out = PulseNew
  /\ full_db = DebouncerNew(FALSE)
  /\ knife_db = DebouncerNew(FALSE)
  /\ open_db = DebouncerNew(FALSE)
  /\ last_open_level = FALSE
  /\ counters = loaded
  /\ full_latch_remaining = 0
  /\ manual_io_remaining = 0
  /\ manual = AllLow
  /\ last_ip = "None"
  /\ suspended = FALSE
  /\ restart_requested = FALSE
  /\ outputs = AllLow

Init == InitWith(CountersDefault)

-----------------------------------------------------------------------------
(***************************************************************************)
(* The first part of step: the scan's inputs.                              *)
(***************************************************************************)

\* Mutated forms: an edge seen on an unhealthy bus is counted on recovery; so is
\* a gate that stayed open; the latch is armed by the rising edge of DI1 only.
CountBaleOnRecovery(healthy, open_level) ==
  /\ counters' = IF healthy /\ open_level /\ ~last_open_level
                 THEN IncrementBale(counters) ELSE counters
  /\ last_open_level' = IF healthy THEN open_level ELSE last_open_level

CountBaleAfterFault(healthy, open_level) ==
  /\ counters' = IF healthy /\ open_level /\ ~last_open_level
                 THEN IncrementBale(counters) ELSE counters
  /\ last_open_level' = (healthy /\ open_level)

ArmFullLatchOnRise(healthy, full_level) ==
  full_latch_remaining' =
    IF healthy /\ full_level /\ ~full_db.level THEN FullLatchCycles
    ELSE IF full_latch_remaining > 0 THEN full_latch_remaining - 1 ELSE 0

\* One bale per debounced rising edge of DI3, while the bus is healthy.
CountBale(healthy, open_level) ==
  /\ counters' = IF healthy /\ open_level /\ ~last_open_level
                 THEN IncrementBale(counters) ELSE counters
  /\ last_open_level' = open_level

\* The attention latch is (re)armed while debounced DI1 is true, else counts down.
ArmFullLatch(healthy, full_level) ==
  full_latch_remaining' =
    IF healthy /\ full_level THEN FullLatchCycles
    ELSE IF full_latch_remaining > 0 THEN full_latch_remaining - 1 ELSE 0

BeginScan(i) ==
  /\ phase = "idle"
  /\ phase' = "commands"
  /\ batch' = 0
  /\ got_manual' = FALSE
  /\ inputs' = i
  /\ full_db' = Update(full_db, i.bale_full)
  /\ knife_db' = Update(knife_db, i.knife_in)
  /\ open_db' = Update(open_db, i.bale_open)
  /\ state' = LET s == OnBusHealth(state, i.healthy)
              IN IF i.healthy THEN OnInputs(s, full_db'.level, knife_db'.level) ELSE s
  /\ CountBale(i.healthy, open_db'.level)
  /\ ArmFullLatch(i.healthy, full_db'.level)
  /\ UNCHANGED <<pulseVars, manualVars, last_ip, suspended, restart_requested, outputs>>

-----------------------------------------------------------------------------
(***************************************************************************)
(* The command loop of step: one action per outcome of a command.          *)
(***************************************************************************)

\* The next command of the batch is cmd.
NextCommand(cmd) ==
  /\ phase = "commands"
  /\ batch < MaxBatch
  /\ batch' = batch + 1
  /\ UNCHANGED <<phase, inputs, inputVars, outputs>>

\* ManualIo is intercepted before the state machine, in every mode.
ManualIo(cmd) ==
  /\ NextCommand(cmd)
  /\ cmd.kind = "ManualIo"
  /\ got_manual' = TRUE
  /\ manual' = [wrap |-> cmd.wrap, knives_in |-> cmd.knives_in, knives_out |-> cmd.knives_out]
  /\ UNCHANGED <<pulseVars, manual_io_remaining, modeVars, counters, full_latch_remaining>>

\* While manual-IO mode lasts every other command is dropped.
IgnoreInManual(cmd) ==
  /\ NextCommand(cmd)
  /\ cmd.kind # "ManualIo"
  /\ manual_io_remaining > 0
  /\ UNCHANGED <<got_manual, pulseVars, manualVars, modeVars, counters, full_latch_remaining>>

\* The state machine answers cmd with this action (or rejection).
Answer(cmd, action) ==
  /\ NextCommand(cmd)
  /\ cmd.kind # "ManualIo"
  /\ manual_io_remaining = 0
  /\ Resolve(state, cmd, AnyActive) = action
  /\ state' = Handled(state, action)
  /\ UNCHANGED <<got_manual, manualVars>>

FireWrap(cmd) ==
  /\ Answer(cmd, "FireWrap")
  /\ wrap' = Trigger(wrap)
  /\ full_latch_remaining' = 0
  /\ UNCHANGED <<knives_in, knives_out, counters, last_ip, suspended, restart_requested>>

\* Mutated form: no interlock.
TriggerKnifeAlways ==
  IF knife_db.level THEN /\ knives_in' = Trigger(knives_in)
                         /\ UNCHANGED knives_out
                    ELSE /\ knives_out' = Trigger(knives_out)
                         /\ UNCHANGED knives_in

\* Debounced DI2 picks the output, and only while neither pulse is active.
TriggerKnife ==
  IF KnifeActive THEN UNCHANGED <<knives_in, knives_out>>
  ELSE IF knife_db.level THEN /\ knives_in' = Trigger(knives_in)
                              /\ UNCHANGED knives_out
                         ELSE /\ knives_out' = Trigger(knives_out)
                              /\ UNCHANGED knives_in

FireKnife(cmd) ==
  /\ Answer(cmd, "FireKnife")
  /\ TriggerKnife
  /\ UNCHANGED <<wrap, counters, full_latch_remaining, last_ip, suspended, restart_requested>>

\* The three counter operations; a persist error is logged and the count kept.
Recount(cmd) ==
  /\ \/ Answer(cmd, "ResetSession") /\ counters' = ResetSession(counters)
     \/ Answer(cmd, "AdjustSession") /\ counters' = AdjustSession(counters, cmd.delta)
     \/ Answer(cmd, "ResetTotal") /\ counters' = ResetTotal(counters)
  /\ UNCHANGED <<pulseVars, full_latch_remaining, last_ip, suspended, restart_requested>>

\* BusController::suspend and restart as WagoBus has them.
Suspend == suspended' = TRUE
Restart == restart_requested' = TRUE

\* Mutated form: the master is left running under the L3 interface.
SwitchKeepsMaster(cmd) ==
  /\ Answer(cmd, "SwitchToEthernet")
  /\ last_ip' \in IpOption
  /\ UNCHANGED <<pulseVars, counters, full_latch_remaining, suspended, restart_requested>>

\* The master is torn down first; enter_ethernet may fail and leave no IP.
SwitchToEthernet(cmd) ==
  /\ Answer(cmd, "SwitchToEthernet")
  /\ Suspend
  /\ last_ip' \in IpOption
  /\ UNCHANGED <<pulseVars, counters, full_latch_remaining, restart_requested>>

\* Mutated form: the return forgets the IP it showed.
ReturnKeepsIp(cmd) ==
  /\ Answer(cmd, "SwitchToEthercat")
  /\ restart_requested' = TRUE
  /\ UNCHANGED <<pulseVars, counters, full_latch_remaining, suspended, last_ip>>

\* The error of enter_ethercat is ignored; the process has to be restarted.
SwitchToEthercat(cmd) ==
  /\ Answer(cmd, "SwitchToEthercat")
  /\ Restart
  /\ last_ip' = "None"
  /\ UNCHANGED <<pulseVars, counters, full_latch_remaining, suspended>>

Reject(cmd) ==
  /\ \E r \in Rejection : Answer(cmd, r)
  /\ UNCHANGED <<pulseVars, counters, full_latch_remaining, last_ip, suspended, restart_requested>>

HandleCommand(cmd) ==
  \/ ManualIo(cmd)
  \/ IgnoreInManual(cmd)
  \/ FireWrap(cmd)
  \/ FireKnife(cmd)
  \/ Recount(cmd)
  \/ SwitchToEthernet(cmd)
  \/ SwitchToEthercat(cmd)
  \/ Reject(cmd)

-----------------------------------------------------------------------------
(***************************************************************************)
(* The last part of step: manual-IO watchdog, pulses and outputs.          *)
(***************************************************************************)

\* Mutated forms: every scan re-arms a running watchdog; manual outputs are
\* driven into a faulted bus; both knife keys are obeyed.
WatchdogNeverExpires ==
  IF got_manual \/ manual_io_remaining > 0 THEN ManualIoWatchdog ELSE 0

ManualOutputsIntoFault(healthy) ==
  [manual EXCEPT !.knives_out = @ /\ ~manual.knives_in]

ManualOutputsBothKnives(healthy) ==
  [wrap |-> healthy /\ manual.wrap,
   knives_in |-> healthy /\ manual.knives_in,
   knives_out |-> healthy /\ manual.knives_out]

\* The watchdog after this scan: a ManualIo in the batch (re)arms it.
Watchdog ==
  IF got_manual THEN ManualIoWatchdog
  ELSE IF manual_io_remaining > 0 THEN manual_io_remaining - 1 ELSE 0

\* The held keys, gated by the bus; knives-in wins over knives-out.
ManualOutputs(healthy) ==
  [wrap |-> healthy /\ manual.wrap,
   knives_in |-> healthy /\ manual.knives_in,
   knives_out |-> healthy /\ manual.knives_out /\ ~manual.knives_in]

\* Manual-IO mode: the pulses are not ticked.
EndScanManual ==
  /\ phase = "commands"
  /\ phase' = "idle"
  /\ manual_io_remaining' = Watchdog
  /\ manual_io_remaining' > 0
  /\ outputs' = ManualOutputs(inputs.healthy)
  /\ UNCHANGED <<batch, got_manual, inputs, pulseVars, inputVars, manual, modeVars,
                 counters, full_latch_remaining>>

EndScanNormal ==
  /\ phase = "commands"
  /\ phase' = "idle"
  /\ manual_io_remaining' = Watchdog
  /\ manual_io_remaining' = 0
  /\ wrap' = Tick(wrap, inputs.healthy)
  /\ knives_in' = Tick(knives_in, inputs.healthy)
  /\ knives_out' = Tick(knives_out, inputs.healthy)
  /\ outputs' = [wrap |-> wrap'.active,
                 knives_in |-> knives_in'.active,
                 knives_out |-> knives_out'.active]
  /\ UNCHANGED <<batch, got_manual, inputs, inputVars, manual, modeVars,
                 counters, full_latch_remaining>>

EndScan == EndScanManual \/ EndScanNormal

-----------------------------------------------------------------------------
(***************************************************************************)
(* What step publishes: Control::snapshot, with the raw inputs and the IP. *)
(***************************************************************************)

\* Mutated form: the beacon hears of one knife direction only.
SnapshotOfKnivesInOnly ==
  [mode |-> state.mode, bale_full |-> state.bale_full, knife |-> state.knife,
   wrap_armed |-> WrapArmed(state), full_latched |-> full_latch_remaining > 0,
   wrap_active |-> wrap.active, knife_active |-> knives_in.active,
   counts |-> counters, di1 |-> inputs.bale_full, di2 |-> inputs.knife_in,
   di3 |-> inputs.bale_open, ip |-> last_ip]

Snapshot ==
  [mode |-> state.mode, bale_full |-> state.bale_full, knife |-> state.knife,
   wrap_armed |-> WrapArmed(state), full_latched |-> full_latch_remaining > 0,
   wrap_active |-> wrap.active, knife_active |-> KnifeActive,
   counts |-> counters, di1 |-> inputs.bale_full, di2 |-> inputs.knife_in,
   di3 |-> inputs.bale_open, ip |-> last_ip]

\* Control::idle_snapshot, for a daemon that has no bus yet.
IdleSnapshot(m) ==
  [mode |-> m, bale_full |-> FALSE, knife |-> "Unknown",
   wrap_armed |-> FALSE, full_latched |-> FALSE,
   wrap_active |-> FALSE, knife_active |-> FALSE,
   counts |-> counters, di1 |-> FALSE, di2 |-> FALSE, di3 |-> FALSE, ip |-> "None"]

-----------------------------------------------------------------------------
Next ==
  \/ \E i \in InputSet : BeginScan(i)
  \/ \E cmd \in Commands : HandleCommand(cmd)
  \/ EndScan

Spec == Init /\ [][Next]_vars

\* The executor (or the sim loop) keeps calling step, and each call returns.
Fairness == WF_vars(\E i \in InputSet : BeginScan(i)) /\ WF_vars(EndScan)

FairSpec == Spec /\ Fairness

-----------------------------------------------------------------------------
(***************************************************************************)
(* What the cycle guarantees.                                              *)
(***************************************************************************)

\* DO2 and DO3 are never energized together, whether a pulse or the IO test
\* screen drives them, and the two knife pulses never run together either,
\* although DI2 may flip and the operator may re-fire in mid-pulse (the
\* FireKnife interlock of step and its manual branch).
KnifeInterlock ==
  /\ ~(knives_in.active /\ knives_out.active)
  /\ ~(outputs.knives_in /\ outputs.knives_out)

\* A scan that found the bus unhealthy returns all outputs low, in normal and
\* in manual-IO mode (tick's abort and the gating of the manual branch).
SafeOnBusLoss == phase = "idle" /\ ~inputs.healthy => outputs = AllLow

\* The published snapshot never shows a full bale or a knife position that the
\* daemon cannot know: out of Operational they are unknown, and Operational means
\* a healthy bus and the current debounced levels (on_bus_health, on_inputs,
\* handle).  The raw bits di1 to di3 are those of the last poll, whatever the bus.
SnapshotInputsTruthful ==
  phase = "idle" =>
    IF state.mode = "Operational"
    THEN /\ inputs.healthy
         /\ state.bale_full = full_db.level
         /\ state.knife = IF knife_db.level THEN "In" ELSE "Out"
    ELSE ~state.bale_full /\ state.knife = "Unknown"

\* The mode and the EtherCAT master agree: in Ethernet mode the master is torn
\* down, and a torn-down master out of Ethernet mode has a restart on its way
\* (SwitchToEthernet suspends, SwitchToEthercat requests the restart), so the
\* daemon never waits for the health of a bus that nobody drives.  The address
\* agrees too: whatever the batch of commands, the panel shows one only in
\* Ethernet mode.
ModeAgrees ==
  /\ state.mode = "Ethernet" => suspended
  /\ suspended /\ state.mode # "Ethernet" => restart_requested
  /\ last_ip # "None" => state.mode = "Ethernet"

\* A pulse ends, unless manual-IO mode, which suspends the pulses, never does:
\* if scans outside it keep coming every active pulse becomes inactive,
\* however often the operator fires again.
PulsesEnd ==
  []<>(phase = "idle" /\ manual_io_remaining = 0) =>
    /\ wrap.active ~> ~wrap.active
    /\ knives_in.active ~> ~knives_in.active
    /\ knives_out.active ~> ~knives_out.active

-----------------------------------------------------------------------------
(***************************************************************************)
(* What documents and comments say of the cycle and the code does not do.  *)
(***************************************************************************)

\* REQ_0018: the command watchdog de-energizes all outputs when it exits
\* manual-IO mode.  Violated by a pulse that manual-IO mode interrupted, which
\* drives its output again in the very scan in which the watchdog expires.
WatchdogExitDeEnergizes ==
  [][phase = "commands" /\ manual_io_remaining > 0 /\ manual_io_remaining' = 0
       => outputs' = AllLow]_vars

\* REQ_0008: the switch to Ethernet is permitted only with no pulse active.
\* Violated in the scan that first sees the bus unhealthy: the mode is already
\* Fault, the pulse is aborted only after the commands.
EthernetOnlyWhenIdle ==
  [][state.mode # "Ethernet" /\ state'.mode = "Ethernet" => ~AnyActive]_vars
=============================================================================
