---------------------------- MODULE ControlProofs ---------------------------
(***************************************************************************)
(* Theorems about the control cycle, for every value of the constants.     *)
(***************************************************************************)
EXTENDS Control, TLAPS

USE DebounceAssumption, PulseAssumption, MaxCountAssumption, ControlAssumption

-----------------------------------------------------------------------------
(***************************************************************************)
(* The operators map well-typed values to well-typed values.               *)
(***************************************************************************)

\* A debouncer stays a debouncer, its count below the threshold (update).
LEMMA UpdateType == ASSUME NEW d \in Debouncer, NEW raw \in BOOLEAN
                    PROVE  Update(d, raw) \in Debouncer
<1> DEFINE n == PendingCount(d, raw)
<1>1. n \in Nat \ {0}
  BY DEF Debouncer, PendingCount
<1>2. CASE raw = d.level
  BY <1>2 DEF Update, Debouncer
<1>3. CASE raw # d.level /\ n >= Debounce
  BY <1>3 DEF Update, Debouncer
<1>4. CASE raw # d.level /\ n < Debounce
  <2> HIDE DEF n
  <2>1. Update(d, raw) = [level |-> d.level, candidate |-> raw, count |-> n]
    BY <1>1, <1>4 DEF Update, n
  <2>2. n \in 0 .. Debounce - 1
    BY <1>1, <1>4
  <2> QED
    BY <2>1, <2>2 DEF Debouncer
<1> QED
  BY <1>1, <1>2, <1>3, <1>4

\* trigger and tick keep a pulse well-typed, its elapsed time below the
\* duration.
LEMMA PulseType == ASSUME NEW p \in Pulse, NEW healthy \in BOOLEAN
                   PROVE  /\ Trigger(p) \in Pulse
                          /\ Tick(p, healthy) \in Pulse
  BY DEF Trigger, Tick, Pulse, PulseNew

\* Ticking never starts a pulse, and an unhealthy bus ends it.
LEMMA TickActive == ASSUME NEW p \in Pulse, NEW healthy \in BOOLEAN
                    PROVE  /\ Tick(p, healthy).active => p.active /\ healthy
  BY DEF Tick, Pulse, PulseNew

\* Bus health and inputs keep the mode record well-typed.
LEMMA StateInputType ==
  ASSUME NEW s \in StateType, NEW h \in BOOLEAN, NEW f \in BOOLEAN, NEW k \in BOOLEAN
  PROVE  /\ OnBusHealth(s, h) \in StateType
         /\ OnInputs(s, f, k) \in StateType
  BY DEF OnBusHealth, OnInputs, MarkInputsUnknown, StateType, Mode, KnifePos

\* So does every answer of handle.
LEMMA HandledType == ASSUME NEW s \in StateType, NEW a
                     PROVE  Handled(s, a) \in StateType
  BY DEF Handled, MarkInputsUnknown, StateType, Mode, KnifePos

\* The counter operations stay between zero and u64::MAX.
LEMMA CountersType ==
  ASSUME NEW c \in CounterValues, NEW delta \in Int
  PROVE  /\ IncrementBale(c) \in CounterValues
         /\ AdjustSession(c, delta) \in CounterValues
         /\ ResetSession(c) \in CounterValues
         /\ ResetTotal(c) \in CounterValues
  BY DEF IncrementBale, AdjustSession, ResetSession, ResetTotal, Saturate, CounterValues

-----------------------------------------------------------------------------
(***************************************************************************)
(* Type correctness.                                                       *)
(***************************************************************************)

\* The scan's inputs keep every variable in its range: BeginScan.
LEMMA BeginScanType == ASSUME TypeOK, NEW i \in InputSet, BeginScan(i)
                       PROVE  TypeOK'
<1>1. i \in Inputs /\ i.healthy \in BOOLEAN /\ i.bale_full \in BOOLEAN
      /\ i.knife_in \in BOOLEAN /\ i.bale_open \in BOOLEAN
  BY DEF Inputs
<1>2. /\ full_db' \in Debouncer
      /\ knife_db' \in Debouncer
      /\ open_db' \in Debouncer
  BY <1>1, UpdateType DEF BeginScan, TypeOK
<1>3. /\ full_db'.level \in BOOLEAN
      /\ knife_db'.level \in BOOLEAN
      /\ open_db'.level \in BOOLEAN
  BY <1>2 DEF Debouncer
<1>4. state' \in StateType
  <2>1. OnBusHealth(state, i.healthy) \in StateType
    BY <1>1, StateInputType DEF TypeOK
  <2>2. OnInputs(OnBusHealth(state, i.healthy), full_db'.level, knife_db'.level) \in StateType
    BY <2>1, <1>3, StateInputType
  <2> QED
    BY <2>1, <2>2 DEF BeginScan
<1>5. counters' \in CounterValues /\ last_open_level' \in BOOLEAN
  BY <1>3, CountersType DEF BeginScan, CountBale, TypeOK
<1>6. full_latch_remaining' \in 0 .. FullLatchCycles
  BY DEF BeginScan, ArmFullLatch, TypeOK
<1>7. /\ phase' \in {"idle", "commands"} /\ got_manual' \in BOOLEAN /\ inputs' \in Inputs
      /\ batch' \in 0 .. MaxBatch
  <2>1. phase' = "commands" /\ batch' = 0 /\ got_manual' = FALSE /\ inputs' = i
    BY DEF BeginScan
  <2>2. got_manual' \in BOOLEAN
    BY <2>1
  <2>3. batch' \in 0 .. MaxBatch
    BY <2>1
  <2> QED
    BY <1>1, <2>1, <2>2, <2>3
<1>8. UNCHANGED <<pulseVars, manualVars, last_ip, suspended, restart_requested, outputs>>
  BY DEF BeginScan
<1> QED
  BY <1>1, <1>2, <1>4, <1>5, <1>6, <1>7, <1>8 DEF TypeOK, pulseVars, manualVars

\* So does every command: HandleCommand.
LEMMA CommandType == ASSUME TypeOK, NEW cmd \in Commands, HandleCommand(cmd)
                     PROVE  TypeOK'
<1>1. cmd \in Command
  OBVIOUS
<1>2. NextCommand(cmd)
  BY DEF HandleCommand, ManualIo, IgnoreInManual, FireWrap, FireKnife, Recount,
         SwitchToEthernet, SwitchToEthercat, Reject, Answer
<1>3. /\ phase' \in {"idle", "commands"} /\ batch' \in 0 .. MaxBatch /\ inputs' \in Inputs
      /\ full_db' \in Debouncer /\ knife_db' \in Debouncer /\ open_db' \in Debouncer
      /\ last_open_level' \in BOOLEAN /\ outputs' \in Outputs
  BY <1>2 DEF NextCommand, TypeOK, inputVars
<1>4. CASE ManualIo(cmd)
  <2>1. cmd \in ManualCommand
    BY <1>1, <1>4 DEF ManualIo, Command, PlainCommand, AdjustCommand
  <2>2. manual' \in Outputs
    BY <2>1, <1>4 DEF ManualIo, ManualCommand, Outputs
  <2> QED
    BY <1>3, <1>4, <2>2 DEF ManualIo, TypeOK, pulseVars, modeVars
<1>5. CASE IgnoreInManual(cmd)
  BY <1>3, <1>5 DEF IgnoreInManual, TypeOK, pulseVars, modeVars, manualVars
<1>6. ASSUME NEW a, Answer(cmd, a)
      PROVE  /\ state' \in StateType /\ got_manual' \in BOOLEAN
             /\ manual_io_remaining' \in 0 .. ManualIoWatchdog /\ manual' \in Outputs
  BY <1>6, HandledType DEF Answer, TypeOK, manualVars
<1>7. CASE FireWrap(cmd)
  BY <1>3, <1>6, <1>7, PulseType DEF FireWrap, TypeOK
<1>8. CASE FireKnife(cmd)
  <2>1. knives_in' \in Pulse /\ knives_out' \in Pulse
    BY <1>8, PulseType DEF FireKnife, TriggerKnife, TypeOK
  <2> QED
    BY <1>3, <1>6, <1>8, <2>1 DEF FireKnife, TypeOK
<1>9. CASE Recount(cmd)
  <2>1. counters' \in CounterValues
    <3>1. CASE Answer(cmd, "AdjustSession") /\ counters' = AdjustSession(counters, cmd.delta)
      <4>1. cmd.kind = "AdjustSession"
        BY <1>1, <3>1 DEF Answer, Resolve, Command, PlainCommand, AdjustCommand
      <4>2. cmd.delta \in Int
        BY <1>1, <4>1 DEF Command, PlainCommand, AdjustCommand, ManualCommand
      <4> QED
        BY <3>1, <4>2, CountersType DEF TypeOK
    <3> QED
      BY <1>9, <3>1, CountersType DEF Recount, TypeOK
  <2>2. PICK a \in {"ResetSession", "AdjustSession", "ResetTotal"} : Answer(cmd, a)
    BY <1>9 DEF Recount
  <2> QED
    BY <1>3, <1>6, <1>9, <2>1, <2>2 DEF Recount, TypeOK, pulseVars
<1>10. CASE SwitchToEthernet(cmd)
  BY <1>3, <1>6, <1>10 DEF SwitchToEthernet, Suspend, TypeOK, pulseVars
<1>11. CASE SwitchToEthercat(cmd)
  BY <1>3, <1>6, <1>11 DEF SwitchToEthercat, Restart, TypeOK, IpOption, pulseVars
<1>12. CASE Reject(cmd)
  <2>1. PICK r \in Rejection : Answer(cmd, r)
    BY <1>12 DEF Reject
  <2> QED
    BY <1>3, <1>6, <1>12, <2>1 DEF Reject, TypeOK, pulseVars
<1> QED
  BY <1>4, <1>5, <1>7, <1>8, <1>9, <1>10, <1>11, <1>12 DEF HandleCommand

\* And so does the end of the scan.
LEMMA EndScanType == ASSUME TypeOK, EndScan PROVE TypeOK'
<1>1. inputs.healthy \in BOOLEAN
  BY DEF TypeOK, Inputs
<1>2. Watchdog \in 0 .. ManualIoWatchdog
  BY DEF Watchdog, TypeOK
<1>3. CASE EndScanManual
  <2>1. outputs' \in Outputs
    BY <1>1, <1>3 DEF EndScanManual, ManualOutputs, TypeOK, Outputs
  <2> QED
    BY <1>2, <1>3, <2>1 DEF EndScanManual, TypeOK, pulseVars, inputVars, modeVars
<1>4. CASE EndScanNormal
  <2>1. wrap' \in Pulse /\ knives_in' \in Pulse /\ knives_out' \in Pulse
    BY <1>1, <1>4, PulseType DEF EndScanNormal, TypeOK
  <2>2. outputs' \in Outputs
    BY <1>4, <2>1 DEF EndScanNormal, Pulse, Outputs
  <2> QED
    BY <1>2, <1>4, <2>1, <2>2 DEF EndScanNormal, TypeOK, inputVars, modeVars
<1> QED
  BY <1>3, <1>4 DEF EndScan

\* A fresh cycle (Control::new, and the first scan not begun) is well typed.
LEMMA InitType == Init => TypeOK
<1> SUFFICES ASSUME Init PROVE TypeOK
  OBVIOUS
<1>1. /\ inputs \in Inputs /\ manual \in Outputs /\ outputs \in Outputs
  BY DEF Init, InitWith, Inputs, Outputs, AllLow
<1>2. state \in StateType /\ counters \in CounterValues
  BY DEF Init, InitWith, StateNew, StateType, Mode, KnifePos, CountersDefault, CounterValues
<1>3. PulseNew \in Pulse /\ DebouncerNew(FALSE) \in Debouncer
  BY DEF PulseNew, Pulse, DebouncerNew, Debouncer
<1>4. /\ got_manual \in BOOLEAN /\ last_open_level \in BOOLEAN
      /\ suspended \in BOOLEAN /\ restart_requested \in BOOLEAN
  BY DEF Init, InitWith
<1>5. /\ batch \in 0 .. MaxBatch
      /\ full_latch_remaining \in 0 .. FullLatchCycles
      /\ manual_io_remaining \in 0 .. ManualIoWatchdog
  BY DEF Init, InitWith
<1> QED
  BY <1>1, <1>2, <1>3, <1>4, <1>5 DEF Init, InitWith, TypeOK, IpOption

\* Every variable of Control keeps its type: no counter of the cycle leaves
\* its range (u32 and u64 fields never wrap, debounce counts and elapsed times
\* stay below their thresholds) in any behaviour of the cycle.
THEOREM TypeCorrect == Spec => []TypeOK
<1>2. TypeOK /\ [Next]_vars => TypeOK'
  <2> SUFFICES ASSUME TypeOK, [Next]_vars PROVE TypeOK'
    OBVIOUS
  <2>1. CASE UNCHANGED vars
    BY <2>1 DEF TypeOK, vars, cycleVars, pulseVars, inputVars, manualVars, modeVars
  <2>2. CASE Next
    BY <2>2, BeginScanType, CommandType, EndScanType DEF Next
  <2> QED
    BY <2>1, <2>2
<1> QED
  BY InitType, <1>2, PTL DEF Spec

-----------------------------------------------------------------------------
(***************************************************************************)
(* The knife interlock.                                                    *)
(***************************************************************************)

\* What a command may do to the pulses and the outputs: the outputs stay, and
\* a knife pulse starts only when neither is active.
LEMMA CommandKnives ==
  ASSUME TypeOK, NEW cmd, HandleCommand(cmd)
  PROVE  /\ outputs' = outputs
         /\ \/ UNCHANGED <<knives_in, knives_out>>
            \/ ~KnifeActive /\ (UNCHANGED knives_in \/ UNCHANGED knives_out)
<1>1. outputs' = outputs
  BY DEF HandleCommand, ManualIo, IgnoreInManual, FireWrap, FireKnife, Recount,
         SwitchToEthernet, SwitchToEthercat, Reject, Answer, NextCommand
<1>2. CASE FireKnife(cmd)
  BY <1>1, <1>2 DEF FireKnife, TriggerKnife
<1>3. CASE ~FireKnife(cmd)
  BY <1>1, <1>3 DEF HandleCommand, ManualIo, IgnoreInManual, FireWrap, Recount,
         SwitchToEthernet, SwitchToEthercat, Reject, pulseVars
<1> QED
  BY <1>2, <1>3

\* Every step of the cycle keeps the interlock.
LEMMA InterlockStep == TypeOK /\ KnifeInterlock /\ [Next]_vars => KnifeInterlock'
<1> SUFFICES ASSUME TypeOK, KnifeInterlock, [Next]_vars PROVE KnifeInterlock'
  OBVIOUS
<1>1. ASSUME NEW i \in InputSet, BeginScan(i) PROVE KnifeInterlock'
  BY <1>1 DEF BeginScan, KnifeInterlock, pulseVars
<1>2. ASSUME NEW cmd \in Commands, HandleCommand(cmd) PROVE KnifeInterlock'
  BY <1>2, CommandKnives DEF KnifeInterlock, KnifeActive
<1>3. CASE EndScanManual
  BY <1>3 DEF EndScanManual, ManualOutputs, KnifeInterlock, pulseVars
<1>4. CASE EndScanNormal
  <2>1. inputs.healthy \in BOOLEAN /\ knives_in \in Pulse /\ knives_out \in Pulse
    BY DEF TypeOK, Inputs
  <2>2. /\ knives_in'.active => knives_in.active
        /\ knives_out'.active => knives_out.active
    BY <1>4, <2>1, TickActive DEF EndScanNormal
  <2>3. /\ outputs'.knives_in = knives_in'.active
        /\ outputs'.knives_out = knives_out'.active
    BY <1>4 DEF EndScanNormal
  <2> QED
    BY <2>2, <2>3 DEF KnifeInterlock
<1>5. CASE UNCHANGED vars
  BY <1>5 DEF KnifeInterlock, vars, pulseVars
<1> QED
  BY <1>1, <1>2, <1>3, <1>4, <1>5 DEF Next, EndScan

\* DO2 and DO3 are never energized together and the knife pulses exclude each
\* other, for every debounce threshold, pulse length and command stream: the
\* interlock of FireKnife starts a pulse only when neither runs, a tick starts
\* none, and the manual branch lets knives-in win.
THEOREM Interlock == Spec => []KnifeInterlock
<1>1. Init => KnifeInterlock
  BY DEF Init, InitWith, KnifeInterlock, PulseNew, AllLow
<1> QED
  BY <1>1, InterlockStep, TypeCorrect, PTL DEF Spec

-----------------------------------------------------------------------------
(***************************************************************************)
(* Outputs on an unhealthy bus.                                            *)
(***************************************************************************)

\* Every step of the cycle keeps the outputs low on an unhealthy bus.
LEMMA BusLossStep == TypeOK /\ SafeOnBusLoss /\ [Next]_vars => SafeOnBusLoss'
<1> SUFFICES ASSUME TypeOK, SafeOnBusLoss, [Next]_vars PROVE SafeOnBusLoss'
  OBVIOUS
<1>1. ASSUME NEW i \in InputSet, BeginScan(i) PROVE SafeOnBusLoss'
  BY <1>1 DEF BeginScan, SafeOnBusLoss
<1>2. ASSUME NEW cmd \in Commands, HandleCommand(cmd) PROVE SafeOnBusLoss'
  <2>1. phase' = "commands"
    BY <1>2 DEF HandleCommand, ManualIo, IgnoreInManual, FireWrap, FireKnife, Recount,
           SwitchToEthernet, SwitchToEthercat, Reject, Answer, NextCommand
  <2> QED
    BY <2>1 DEF SafeOnBusLoss
<1>3. CASE EndScanManual
  BY <1>3 DEF EndScanManual, ManualOutputs, SafeOnBusLoss, AllLow
<1>4. CASE EndScanNormal
  <2> SUFFICES ASSUME ~inputs.healthy PROVE outputs' = AllLow
    BY <1>4 DEF EndScanNormal, SafeOnBusLoss
  <2>1. /\ inputs.healthy \in BOOLEAN
        /\ wrap \in Pulse /\ knives_in \in Pulse /\ knives_out \in Pulse
    BY DEF TypeOK, Inputs
  <2>2. /\ wrap' \in Pulse /\ knives_in' \in Pulse /\ knives_out' \in Pulse
        /\ ~wrap'.active /\ ~knives_in'.active /\ ~knives_out'.active
    BY <1>4, <2>1, TickActive, PulseType DEF EndScanNormal
  <2>3. wrap'.active = FALSE /\ knives_in'.active = FALSE /\ knives_out'.active = FALSE
    BY <2>2 DEF Pulse
  <2> QED
    BY <1>4, <2>3 DEF EndScanNormal, AllLow
<1>5. CASE UNCHANGED vars
  BY <1>5 DEF SafeOnBusLoss, vars, cycleVars
<1> QED
  BY <1>1, <1>2, <1>3, <1>4, <1>5 DEF Next, EndScan

\* Whatever the pulses and the held keys are, a scan on an unhealthy bus
\* returns all outputs low: a pulse is aborted by its tick and the manual
\* outputs are gated by the health the scan began with.
THEOREM BusLossSafe == Spec => []SafeOnBusLoss
<1>1. Init => SafeOnBusLoss
  BY DEF Init, InitWith, SafeOnBusLoss
<1> QED
  BY <1>1, BusLossStep, TypeCorrect, PTL DEF Spec

-----------------------------------------------------------------------------
(***************************************************************************)
(* The snapshot, the mode and the master.                                  *)
(***************************************************************************)

\* The commands leave the inputs and debouncers of the scan alone, and the
\* mode and the master move together: nothing changes, or the switch tears the
\* master down and hides the inputs, or the return asks for a restart.
LEMMA CommandMode ==
  ASSUME NEW cmd \in Commands, HandleCommand(cmd)
  PROVE  /\ UNCHANGED <<inputs, inputVars>>
         /\ phase' = "commands"
         /\ \/ UNCHANGED modeVars
            \/ /\ state.mode # "Ethernet"
               /\ state' = [MarkInputsUnknown(state) EXCEPT !.mode = "Ethernet"]
               /\ suspended' = TRUE
               /\ UNCHANGED restart_requested
            \/ /\ state.mode = "Ethernet"
               /\ state' = [state EXCEPT !.mode = "Initializing"]
               /\ restart_requested' = TRUE
               /\ last_ip' = "None"
               /\ UNCHANGED suspended
<1>1. UNCHANGED <<inputs, inputVars>> /\ phase' = "commands"
  BY DEF HandleCommand, ManualIo, IgnoreInManual, FireWrap, FireKnife, Recount,
         SwitchToEthernet, SwitchToEthercat, Reject, Answer, NextCommand
<1>2. ASSUME NEW a \in (Action \cup Rejection) \ {"SwitchToEthernet", "SwitchToEthercat"},
             Answer(cmd, a)
      PROVE  state' = state
  BY <1>2 DEF Answer, Handled
<1>3. CASE ManualIo(cmd) \/ IgnoreInManual(cmd)
  BY <1>1, <1>3 DEF ManualIo, IgnoreInManual
<1>4. CASE FireWrap(cmd) \/ FireKnife(cmd) \/ Recount(cmd) \/ Reject(cmd)
  BY <1>1, <1>2, <1>4 DEF FireWrap, FireKnife, Recount, Reject, Action, Rejection, modeVars
<1>5. CASE SwitchToEthernet(cmd)
  <2>1. Resolve(state, cmd, AnyActive) = "SwitchToEthernet"
    BY <1>5 DEF SwitchToEthernet, Answer
  <2>2. cmd.kind # "SwitchToEthernet"
    BY DEF Command, PlainCommand, AdjustCommand, ManualCommand
  <2>3. state.mode # "Ethernet"
    BY <2>1, <2>2 DEF Resolve
  <2> QED
    BY <1>1, <1>5, <2>3 DEF SwitchToEthernet, Suspend, Answer, Handled
<1>6. CASE SwitchToEthercat(cmd)
  <2>1. Resolve(state, cmd, AnyActive) = "SwitchToEthercat"
    BY <1>6 DEF SwitchToEthercat, Restart, Answer
  <2>2. cmd.kind # "SwitchToEthercat"
    BY DEF Command, PlainCommand, AdjustCommand, ManualCommand
  <2>3. state.mode = "Ethernet"
    BY <2>1, <2>2 DEF Resolve
  <2> QED
    BY <1>1, <1>6, <2>3 DEF SwitchToEthercat, Restart, Answer, Handled
<1> QED
  BY <1>3, <1>4, <1>5, <1>6 DEF HandleCommand

\* The inductive form of SnapshotInputsTruthful: it holds inside a step too,
\* from the moment the scan's inputs are folded in.
InputsTruthful ==
  IF state.mode = "Operational"
  THEN /\ inputs.healthy
       /\ state.bale_full = full_db.level
       /\ state.knife = IF knife_db.level THEN "In" ELSE "Out"
  ELSE state.bale_full = FALSE /\ state.knife = "Unknown"

\* Bus health and inputs establish the inductive form from the state before.
LEMMA BeginScanTruthful ==
  ASSUME TypeOK, InputsTruthful, NEW i \in InputSet, BeginScan(i)
  PROVE  InputsTruthful'
<1> DEFINE s == OnBusHealth(state, i.healthy)
<1>1. /\ state \in StateType /\ i.healthy \in BOOLEAN
      /\ full_db' \in Debouncer /\ knife_db' \in Debouncer
  BY BeginScanType DEF TypeOK, Inputs
<1>2. /\ inputs' = i
      /\ state' = IF i.healthy THEN OnInputs(s, full_db'.level, knife_db'.level) ELSE s
  BY DEF BeginScan
<1>3. CASE state.mode = "Ethernet"
  <2>1. s = state
    BY <1>3 DEF OnBusHealth
  <2>2. state' = state
    BY <1>2, <1>3, <2>1 DEF OnInputs
  <2> QED
    BY <1>3, <2>2 DEF InputsTruthful
<1>4. CASE state.mode # "Ethernet" /\ i.healthy
  <2>1. s = [state EXCEPT !.mode = "Operational"]
    BY <1>4 DEF OnBusHealth
  <2>2. s \in StateType /\ s.mode = "Operational"
    BY <1>1, <2>1 DEF StateType, Mode
  <2> HIDE DEF s
  <2>3. state' = [s EXCEPT !.bale_full = full_db'.level,
                           !.knife = IF knife_db'.level THEN "In" ELSE "Out"]
    BY <1>2, <1>4, <2>2 DEF OnInputs
  <2>4. /\ state'.mode = "Operational"
        /\ state'.bale_full = full_db'.level
        /\ state'.knife = IF knife_db'.level THEN "In" ELSE "Out"
    BY <2>2, <2>3 DEF StateType
  <2> QED
    BY <1>2, <1>4, <2>4 DEF InputsTruthful
<1>5. CASE state.mode # "Ethernet" /\ ~i.healthy
  <2>1. state' = [MarkInputsUnknown(state) EXCEPT
                    !.mode = IF @ \in {"Operational", "Fault"} THEN "Fault" ELSE "Initializing"]
    BY <1>2, <1>5 DEF OnBusHealth
  <2>2. /\ state'.mode \in {"Fault", "Initializing"}
        /\ state'.bale_full = FALSE
        /\ state'.knife = "Unknown"
    BY <1>1, <2>1 DEF MarkInputsUnknown, StateType
  <2> QED
    BY <1>5, <2>2 DEF InputsTruthful
<1> QED
  BY <1>1, <1>3, <1>4, <1>5

\* Every step of the cycle keeps the inputs it shows true.
LEMMA TruthfulStep == TypeOK /\ InputsTruthful /\ [Next]_vars => InputsTruthful'
<1> SUFFICES ASSUME TypeOK, InputsTruthful, [Next]_vars PROVE InputsTruthful'
  OBVIOUS
<1>1. ASSUME NEW i \in InputSet, BeginScan(i) PROVE InputsTruthful'
  BY <1>1, BeginScanTruthful
<1>2. ASSUME NEW cmd \in Commands, HandleCommand(cmd) PROVE InputsTruthful'
  BY <1>2, CommandMode
     DEF InputsTruthful, inputVars, modeVars, MarkInputsUnknown, TypeOK, StateType
<1>3. CASE EndScan \/ UNCHANGED vars
  <2>1. UNCHANGED <<inputs, state, full_db, knife_db>>
    BY <1>3 DEF EndScan, EndScanManual, EndScanNormal, inputVars, modeVars, cycleVars, vars
  <2> QED
    BY <2>1 DEF InputsTruthful
<1> QED
  BY <1>1, <1>2, <1>3 DEF Next

\* The published snapshot never shows a full bale or a knife position that the
\* daemon cannot know, in any order of faults, switches and returns.
THEOREM SnapshotTruthful == Spec => []SnapshotInputsTruthful
<1>1. Init => InputsTruthful
  BY DEF Init, InitWith, InputsTruthful, StateNew
<1>2. InputsTruthful => SnapshotInputsTruthful
  BY DEF InputsTruthful, SnapshotInputsTruthful
<1> QED
  BY <1>1, TruthfulStep, <1>2, TypeCorrect, PTL DEF Spec

\* Every step of the cycle keeps mode, master and address in agreement.
LEMMA AgreeStep == TypeOK /\ ModeAgrees /\ [Next]_vars => ModeAgrees'
<1> SUFFICES ASSUME TypeOK, ModeAgrees, [Next]_vars PROVE ModeAgrees'
  OBVIOUS
<1>1. ASSUME NEW i \in InputSet, BeginScan(i) PROVE ModeAgrees'
  <2>1. state'.mode = "Ethernet" <=> state.mode = "Ethernet"
    <3>1. /\ state \in StateType /\ i.healthy \in BOOLEAN
          /\ state' \in StateType
      BY <1>1, BeginScanType DEF TypeOK, Inputs
    <3> QED
      BY <1>1, <3>1 DEF BeginScan, OnBusHealth, OnInputs, MarkInputsUnknown, StateType
  <2> QED
    BY <1>1, <2>1 DEF BeginScan, ModeAgrees
<1>2. ASSUME NEW cmd \in Commands, HandleCommand(cmd) PROVE ModeAgrees'
  BY <1>2, CommandMode
     DEF ModeAgrees, modeVars, MarkInputsUnknown, TypeOK, StateType
<1>3. CASE EndScan \/ UNCHANGED vars
  <2>1. UNCHANGED modeVars
    BY <1>3 DEF EndScan, EndScanManual, EndScanNormal, vars
  <2> QED
    BY <2>1 DEF modeVars, ModeAgrees
<1> QED
  BY <1>1, <1>2, <1>3 DEF Next

\* The mode agrees with the EtherCAT master and with the address the panel
\* shows, for every batch of commands: an operator never sees a daemon that
\* waits for a bus nobody drives, or an address out of Ethernet mode.
THEOREM MasterAgrees == Spec => []ModeAgrees
<1>1. Init => ModeAgrees
  BY DEF Init, InitWith, ModeAgrees, StateNew
<1> QED
  BY <1>1, AgreeStep, TypeCorrect, PTL DEF Spec

-----------------------------------------------------------------------------
(***************************************************************************)
(* A healthy bus.                                                          *)
(***************************************************************************)

\* A scan that found the bus healthy is in Operational mode as long as the
\* master is there.
HealthyMode == inputs.healthy /\ ~suspended => state.mode = "Operational"

\* Every step of the cycle keeps it: a healthy scan out of Ethernet mode starts
\* in Operational mode, and in Ethernet mode the master is gone.
LEMMA HealthyStep == TypeOK /\ ModeAgrees /\ HealthyMode /\ [Next]_vars => HealthyMode'
<1> SUFFICES ASSUME TypeOK, ModeAgrees, HealthyMode, [Next]_vars PROVE HealthyMode'
  OBVIOUS
<1>1. ASSUME NEW i \in InputSet, BeginScan(i) PROVE HealthyMode'
  <2>1. state \in StateType /\ inputs' = i /\ suspended' = suspended
    BY <1>1 DEF BeginScan, TypeOK
  <2>2. CASE state.mode = "Ethernet"
    BY <2>1, <2>2 DEF ModeAgrees, HealthyMode
  <2>3. CASE state.mode # "Ethernet" /\ i.healthy
    <3>1. state'.mode = "Operational"
      BY <1>1, <2>1, <2>3 DEF BeginScan, OnBusHealth, OnInputs, StateType
    <3> QED
      BY <3>1 DEF HealthyMode
  <2> QED
    BY <2>1, <2>2, <2>3 DEF HealthyMode
<1>2. ASSUME NEW cmd \in Commands, HandleCommand(cmd) PROVE HealthyMode'
  <2>torn. state.mode = "Ethernet" => suspended
    BY DEF ModeAgrees
  <2> QED
    BY <1>2, <2>torn, CommandMode DEF HealthyMode, modeVars
<1>3. CASE EndScan \/ UNCHANGED vars
  BY <1>3 DEF EndScan, EndScanManual, EndScanNormal, vars, cycleVars, modeVars, HealthyMode
<1> QED
  BY <1>1, <1>2, <1>3 DEF Next

\* On a healthy bus no command tears the master down under an active pulse.
LEMMA TearDownIdle ==
  ASSUME HealthyMode, [Next]_vars, suspended', ~suspended, inputs.healthy
  PROVE  ~AnyActive
<1>1. PICK cmd \in Commands : SwitchToEthernet(cmd)
  BY DEF Next, BeginScan, HandleCommand, ManualIo, IgnoreInManual, FireWrap, FireKnife, Recount,
         SwitchToEthercat, Reject, EndScan, EndScanManual, EndScanNormal, modeVars, vars
<1>2. Resolve(state, cmd, AnyActive) = "SwitchToEthernet"
  BY <1>1 DEF SwitchToEthernet, Answer
<1>3. cmd.kind # "SwitchToEthernet"
  BY DEF Command, PlainCommand, AdjustCommand, ManualCommand
<1> QED
  BY <1>2, <1>3 DEF HealthyMode, Resolve
=============================================================================
