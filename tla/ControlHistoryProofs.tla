------------------------ MODULE ControlHistoryProofs ------------------------
(***************************************************************************)
(* Theorems that relate what the control cycle does to its past: the       *)
(* history variables of ControlHistory, for every value of the constants.  *)
(***************************************************************************)
EXTENDS ControlHistory, ControlProofs

USE DebounceAssumption, PulseAssumption, ControlAssumption

\* The history variables are only observers: every behaviour with them is a
\* behaviour of the control cycle.
LEMMA HistoryImplementsControl == HSpec => Spec
<1>1. HInit => Init
  BY DEF HInit
<1>2. [HNext]_hvars => [Next]_vars
  BY DEF HNext, HBeginScan, HFireWrap, HOtherCommand, HEndScan, Next, HandleCommand, EndScan,
         hvars
<1> QED
  BY <1>1, <1>2, PTL DEF HSpec, Spec

\* So the types of Control hold in them too.
LEMMA HistoryTypes == HSpec => []TypeOK
  BY HistoryImplementsControl, TypeCorrect, PTL

-----------------------------------------------------------------------------
(***************************************************************************)
(* The full latch.                                                         *)
(***************************************************************************)

\* The latch is a countdown of the age of the last full sample.
LatchInv == /\ since_full \in 0 .. FullLatchCycles
            /\ full_latch_remaining = FullLatchCycles - since_full

\* "FULL" is shown for exactly FullLatchCycles scans after the last healthy
\* scan with debounced DI1 true, unless a wrap cut it short.
THEOREM FullLatch == HSpec => []FullLatchHolds
<1>1. HInit => LatchInv
  BY DEF HInit, Init, InitWith, LatchInv
<1>2. LatchInv /\ [HNext]_hvars => LatchInv'
  <2> SUFFICES ASSUME LatchInv, [HNext]_hvars PROVE LatchInv'
    OBVIOUS
  <2>1. ASSUME NEW i \in InputSet, HBeginScan(i) PROVE LatchInv'
    BY <2>1 DEF HBeginScan, BeginScan, ArmFullLatch, LatchInv, Older
  <2>2. ASSUME NEW cmd \in Commands, HFireWrap(cmd) PROVE LatchInv'
    BY <2>2 DEF HFireWrap, FireWrap, LatchInv
  <2>3. ASSUME NEW cmd \in Commands, HOtherCommand(cmd) PROVE LatchInv'
    BY <2>3 DEF HOtherCommand, historyVars, ManualIo, IgnoreInManual, FireKnife, Recount,
                SwitchToEthernet, SwitchToEthercat, Reject, LatchInv
  <2>4. CASE HEndScan \/ UNCHANGED hvars
    BY <2>4 DEF HEndScan, EndScanManual, EndScanNormal, hvars, vars, historyVars, LatchInv
  <2> QED
    BY <2>1, <2>2, <2>3, <2>4 DEF HNext
<1>3. LatchInv => FullLatchHolds
  BY DEF LatchInv, FullLatchHolds
<1> QED
  BY <1>1, <1>2, <1>3, PTL DEF HSpec

-----------------------------------------------------------------------------
(***************************************************************************)
(* The length of a pulse.                                                  *)
(***************************************************************************)

\* The scans a pulse has driven its output are those it has been ticked, and a
\* pulse at rest has none.
Run(p, n) == n = p.elapsed /\ (~p.active => p.elapsed = 0)

PulseInv == /\ Run(wrap, driven.wrap)
            /\ Run(knives_in, driven.knives_in)
            /\ Run(knives_out, driven.knives_out)

\* A tick and a trigger keep the two together.
LEMMA RunStep ==
  ASSUME NEW p \in Pulse, NEW n, NEW healthy \in BOOLEAN, Run(p, n)
  PROVE  /\ Run(Tick(p, healthy), Longer(n, Tick(p, healthy).active))
         /\ Run(Trigger(p), n)
  BY DEF Run, Longer, Older, Tick, Trigger, Pulse, PulseNew

\* The end of a scan ticks the pulses and counts the driven scans, or does
\* neither.
LEMMA RunScan == TypeOK /\ PulseInv /\ HEndScan => PulseInv'
<1> SUFFICES ASSUME TypeOK, PulseInv, HEndScan PROVE PulseInv'
  OBVIOUS
<1>typed. /\ wrap \in Pulse /\ knives_in \in Pulse /\ knives_out \in Pulse
          /\ inputs.healthy \in BOOLEAN
  BY DEF TypeOK, Inputs
<1>manual. CASE EndScanManual /\ UNCHANGED driven
  BY <1>manual DEF EndScanManual, pulseVars, PulseInv
<1>normal. CASE EndScanNormal /\ ~EndScanManual
  <2>ticks. /\ wrap' = Tick(wrap, inputs.healthy)
            /\ knives_in' = Tick(knives_in, inputs.healthy)
            /\ knives_out' = Tick(knives_out, inputs.healthy)
    BY <1>normal DEF EndScanNormal
  <2>counts. /\ driven'.wrap = Longer(driven.wrap, wrap'.active)
             /\ driven'.knives_in = Longer(driven.knives_in, knives_in'.active)
             /\ driven'.knives_out = Longer(driven.knives_out, knives_out'.active)
    BY <1>normal DEF HEndScan, EndScanNormal
  <2> QED
    BY <1>typed, <2>ticks, <2>counts, RunStep DEF PulseInv
<1> QED
  BY <1>manual, <1>normal DEF HEndScan, EndScanManual, EndScanNormal

\* A command triggers pulses and leaves what has been driven.
LEMMA RunCommand ==
  ASSUME TypeOK, PulseInv, NEW cmd \in Commands, HFireWrap(cmd) \/ HOtherCommand(cmd)
  PROVE  PulseInv'
<1>typed. wrap \in Pulse /\ knives_in \in Pulse /\ knives_out \in Pulse
  BY DEF TypeOK
<1>same. driven' = driven
  BY DEF HFireWrap, HOtherCommand, historyVars
<1>pulses. /\ wrap' \in {wrap, Trigger(wrap)}
           /\ knives_in' \in {knives_in, Trigger(knives_in)}
           /\ knives_out' \in {knives_out, Trigger(knives_out)}
  BY DEF HFireWrap, HOtherCommand, ManualIo, IgnoreInManual, FireWrap, FireKnife, TriggerKnife,
         Recount, SwitchToEthernet, SwitchToEthercat, Reject, pulseVars
<1> QED
  BY <1>typed, <1>same, <1>pulses, RunStep DEF PulseInv

\* Ticks and driven scans agree in every behaviour.
LEMMA PulseInvariant == HSpec => []PulseInv
<1>first. HInit => PulseInv
  BY DEF HInit, Init, InitWith, PulseNew, PulseInv, Run
<1>step. TypeOK /\ PulseInv /\ [HNext]_hvars => PulseInv'
  <2> SUFFICES ASSUME TypeOK, PulseInv, [HNext]_hvars PROVE PulseInv'
    OBVIOUS
  <2>begin. ASSUME NEW i \in InputSet, HBeginScan(i) PROVE PulseInv'
    BY <2>begin DEF HBeginScan, BeginScan, pulseVars, PulseInv
  <2>still. CASE UNCHANGED hvars
    BY <2>still DEF hvars, vars, pulseVars, historyVars, PulseInv
  <2> QED
    BY <2>begin, <2>still, RunCommand, RunScan DEF HNext
<1> QED
  BY <1>first, <1>step, HistoryTypes, PTL DEF HSpec

\* PulsesBounded: no output is driven by a pulse for PulseCycles scans or more,
\* whatever commands come while it runs.
THEOREM PulsesAreBounded == HSpec => []PulsesBounded
<1>enough. TypeOK /\ PulseInv => PulsesBounded
  BY DEF TypeOK, Pulse, PulseInv, Run, PulsesBounded
<1> QED
  BY <1>enough, PulseInvariant, HistoryTypes, PTL

\* PulsesRunFull: a pulse that ends on a healthy bus has driven its output for
\* PulseCycles - 1 scans, whatever commands came while it ran.
THEOREM PulsesAreFull == HSpec => PulsesRunFull
<1>tick. ASSUME NEW p \in Pulse, NEW n, Run(p, n)
         PROVE  /\ EndsFull(p, Tick(p, inputs.healthy), n)
                /\ EndsFull(p, p, n) /\ EndsFull(p, Trigger(p), n)
  BY <1>tick DEF EndsFull, Run, Tick, Trigger, Pulse, PulseNew
<1>step. TypeOK /\ PulseInv /\ [HNext]_hvars =>
           [/\ EndsFull(wrap, wrap', driven.wrap)
            /\ EndsFull(knives_in, knives_in', driven.knives_in)
            /\ EndsFull(knives_out, knives_out', driven.knives_out)]_hvars
  <2> SUFFICES ASSUME TypeOK, PulseInv, HNext
               PROVE  /\ EndsFull(wrap, wrap', driven.wrap)
                      /\ EndsFull(knives_in, knives_in', driven.knives_in)
                      /\ EndsFull(knives_out, knives_out', driven.knives_out)
    OBVIOUS
  <2>typed. wrap \in Pulse /\ knives_in \in Pulse /\ knives_out \in Pulse
    BY DEF TypeOK
  <2>pulses. /\ wrap' \in {wrap, Trigger(wrap), Tick(wrap, inputs.healthy)}
             /\ knives_in' \in {knives_in, Trigger(knives_in), Tick(knives_in, inputs.healthy)}
             /\ knives_out' \in {knives_out, Trigger(knives_out), Tick(knives_out, inputs.healthy)}
    BY DEF HNext, HBeginScan, BeginScan, HFireWrap, HOtherCommand, ManualIo, IgnoreInManual,
           FireWrap, FireKnife, TriggerKnife, Recount, SwitchToEthernet, SwitchToEthercat, Reject,
           HEndScan, EndScanManual, EndScanNormal, pulseVars
  <2> QED
    BY <1>tick, <2>typed, <2>pulses DEF PulseInv
<1> QED
  BY <1>step, PulseInvariant, HistoryTypes, PTL DEF HSpec, PulsesRunFull

-----------------------------------------------------------------------------
(***************************************************************************)
(* The manual-IO watchdog.                                                 *)
(***************************************************************************)

\* The watchdog is a countdown of the age of the last ManualIo.
WatchdogInv == /\ since_manual \in 0 .. ManualIoWatchdog
               /\ manual_io_remaining = ManualIoWatchdog - since_manual

\* A countdown that has not run out: its event is younger than its bound.
LEMMA CountdownRunning ==
  ASSUME NEW bound \in Nat, NEW age \in 0 .. bound, NEW left, left = bound - age, left > 0
  PROVE  age < bound
  OBVIOUS

\* The countdown and the causes of the outputs, together.
LEMMA WatchdogAndOutputs == HSpec => [](WatchdogInv /\ OutputsAccountedFor)
<1>1. HInit => WatchdogInv /\ OutputsAccountedFor
  BY DEF HInit, Init, InitWith, AllLow, WatchdogInv, OutputsAccountedFor
<1>2. /\ TypeOK /\ WatchdogInv /\ OutputsAccountedFor /\ [HNext]_hvars
      => WatchdogInv' /\ OutputsAccountedFor'
  <2> SUFFICES ASSUME TypeOK, WatchdogInv, OutputsAccountedFor, [HNext]_hvars
               PROVE  WatchdogInv' /\ OutputsAccountedFor'
    OBVIOUS
  <2>1. ASSUME NEW i \in InputSet, HBeginScan(i) PROVE WatchdogInv' /\ OutputsAccountedFor'
    BY <2>1 DEF HBeginScan, BeginScan, manualVars, WatchdogInv, OutputsAccountedFor
  <2>2. ASSUME NEW cmd \in Commands, HFireWrap(cmd) \/ HOtherCommand(cmd)
        PROVE  WatchdogInv' /\ OutputsAccountedFor'
    <3>1. UNCHANGED <<manual_io_remaining, since_manual>> /\ phase' = "commands"
      BY <2>2 DEF HFireWrap, HOtherCommand, historyVars, ManualIo, IgnoreInManual, FireWrap,
                  FireKnife, Recount, SwitchToEthernet, SwitchToEthercat, Reject, Answer,
                  NextCommand, manualVars
    <3> QED
      BY <3>1 DEF WatchdogInv, OutputsAccountedFor
  <2>3. CASE HEndScan
    <3>1. WatchdogInv'
      BY <2>3 DEF HEndScan, EndScanManual, EndScanNormal, Watchdog, WatchdogInv, Older
    <3>2. CASE EndScanManual
      <4>1. since_manual' < ManualIoWatchdog
        <5>1. manual_io_remaining' > 0
          BY <3>2 DEF EndScanManual
        <5>2. /\ since_manual' \in 0 .. ManualIoWatchdog
              /\ manual_io_remaining' = ManualIoWatchdog - since_manual'
          BY <3>1 DEF WatchdogInv
        <5> QED
          BY <5>1, <5>2, CountdownRunning
      <4>2. inputs' = inputs /\ manual' = manual
        BY <3>2 DEF EndScanManual
      <4>3. /\ outputs'.wrap => inputs.healthy /\ manual.wrap
            /\ outputs'.knives_in => inputs.healthy /\ manual.knives_in
            /\ outputs'.knives_out => inputs.healthy /\ manual.knives_out
        BY <3>2 DEF EndScanManual, ManualOutputs
      <4> QED
        BY <3>1, <4>1, <4>2, <4>3 DEF OutputsAccountedFor
    <3>3. CASE EndScanNormal
      <4>1. /\ outputs'.wrap => wrap'.active
            /\ outputs'.knives_in => knives_in'.active
            /\ outputs'.knives_out => knives_out'.active
        BY <3>3 DEF EndScanNormal
      <4> QED
        BY <3>1, <4>1 DEF OutputsAccountedFor
    <3> QED
      BY <2>3, <3>1, <3>2, <3>3 DEF HEndScan
  <2>4. CASE UNCHANGED hvars
    BY <2>4 DEF hvars, vars, cycleVars, pulseVars, manualVars, historyVars, WatchdogInv,
                OutputsAccountedFor
  <2> QED
    BY <2>1, <2>2, <2>3, <2>4 DEF HNext
<1> QED
  BY <1>1, <1>2, HistoryTypes, PTL DEF HSpec

\* Every energized output is due to its own pulse or to a key held in a
\* ManualIo that is younger than the watchdog, on a healthy bus.
THEOREM OutputsAccounted == HSpec => []OutputsAccountedFor
  BY WatchdogAndOutputs, PTL

\* Commands are dropped exactly while the last ManualIo is younger than the
\* watchdog, for every watchdog (step's got_manual and its countdown).
THEOREM ManualModeExact == HSpec => []ManualModeTracksStream
<1>countdown. WatchdogInv => ManualModeTracksStream
  BY DEF WatchdogInv, ManualModeTracksStream
<1> QED
  BY <1>countdown, WatchdogAndOutputs, PTL

-----------------------------------------------------------------------------
(***************************************************************************)
(* The beacon.                                                             *)
(***************************************************************************)

\* Out of manual-IO mode the outputs are the pulses, and a fault is a scan that
\* found the bus unhealthy.
PulseOutputs == [wrap |-> wrap.active, knives_in |-> knives_in.active,
                 knives_out |-> knives_out.active]
BeaconInv == /\ phase = "idle" /\ manual_io_remaining = 0 => outputs = PulseOutputs
             /\ state.mode = "Fault" => ~inputs.healthy

LEMMA BeaconFacts == Spec => []BeaconInv
<1>start. Init => BeaconInv
  BY DEF Init, InitWith, AllLow, PulseNew, StateNew, BeaconInv, PulseOutputs
<1>scan. ASSUME TypeOK, BeaconInv, NEW i \in InputSet, BeginScan(i) PROVE BeaconInv'
  <2>mode. state'.mode = "Fault" => ~i.healthy
    <3>1. state \in StateType /\ i.healthy \in BOOLEAN
      BY <1>scan DEF TypeOK, Inputs
    <3> QED
      BY <1>scan, <3>1 DEF BeginScan, OnBusHealth, OnInputs, MarkInputsUnknown, StateType
  <2> QED
    BY <1>scan, <2>mode DEF BeginScan, BeaconInv
<1>command. ASSUME TypeOK, BeaconInv, NEW cmd \in Commands, HandleCommand(cmd)
            PROVE  BeaconInv'
  <2>phase. phase' = "commands" /\ inputs' = inputs
    BY <1>command DEF HandleCommand, ManualIo, IgnoreInManual, FireWrap, FireKnife, Recount,
                      SwitchToEthernet, SwitchToEthercat, Reject, Answer, NextCommand
  <2>mode. state'.mode = "Fault" => state.mode = "Fault"
    <3>1. state \in StateType
      BY <1>command DEF TypeOK
    <3> QED
      BY <1>command, <3>1, CommandMode DEF modeVars, MarkInputsUnknown, StateType
  <2> QED
    BY <1>command, <2>phase, <2>mode DEF BeaconInv
<1>outputs. ASSUME BeaconInv, EndScan \/ UNCHANGED vars PROVE BeaconInv'
  BY <1>outputs DEF EndScan, EndScanManual, EndScanNormal, modeVars, cycleVars, pulseVars,
                    manualVars, vars, BeaconInv, PulseOutputs
<1>step. TypeOK /\ BeaconInv /\ [Next]_vars => BeaconInv'
  BY <1>scan, <1>command, <1>outputs DEF Next
<1> QED
  BY <1>start, <1>step, TypeCorrect, PTL DEF Spec

\* The beacon is white exactly when an output is energized and red exactly in a
\* fault, and green and the banner are never out of date (LedBeacon::tick).
THEOREM BeaconTellsTruth == HSpec => []BeaconTruthful
<1>truth. /\ TypeOK /\ BeaconInv /\ SafeOnBusLoss /\ SnapshotInputsTruthful /\ FullLatchHolds
          => BeaconTruthful
  <2> SUFFICES ASSUME TypeOK, BeaconInv, SafeOnBusLoss, SnapshotInputsTruthful, FullLatchHolds,
                      phase = "idle", manual_io_remaining = 0
               PROVE  /\ Beacon(Snapshot) = "White" <=> outputs # AllLow
                      /\ Beacon(Snapshot) = "Red" <=> state.mode = "Fault"
                      /\ Beacon(Snapshot) = "Green" => inputs.healthy /\ ~full_db.level
                      /\ PushView(Snapshot).bale_full
                           => since_full < FullLatchCycles \/ full_db.level
    BY DEF BeaconTruthful
  <2>types. /\ wrap.active \in BOOLEAN /\ knives_in.active \in BOOLEAN
            /\ knives_out.active \in BOOLEAN /\ state.mode \in Mode
            /\ state.bale_full \in BOOLEAN /\ full_db.level \in BOOLEAN
    BY DEF TypeOK, Pulse, StateType, Debouncer
  <2>shown. /\ Snapshot.mode = state.mode /\ Snapshot.bale_full = state.bale_full
            /\ Snapshot.wrap_active = wrap.active
            /\ Snapshot.knife_active = (knives_in.active \/ knives_out.active)
            /\ Snapshot.full_latched = (full_latch_remaining > 0)
    BY DEF Snapshot, KnifeActive
  <2>active. (wrap.active \/ knives_in.active \/ knives_out.active) <=> outputs # AllLow
    BY <2>types DEF BeaconInv, PulseOutputs, AllLow
  <2>fault. state.mode = "Fault" => outputs = AllLow
    BY DEF BeaconInv, SafeOnBusLoss
  <2>white. Beacon(Snapshot) = "White" <=> outputs # AllLow
    BY <2>types, <2>shown, <2>active DEF Beacon, Mode
  <2>red. Beacon(Snapshot) = "Red" <=> state.mode = "Fault"
    BY <2>types, <2>shown, <2>active, <2>fault DEF Beacon, Mode
  <2>green. Beacon(Snapshot) = "Green" => inputs.healthy /\ ~full_db.level
    <3>1. Beacon(Snapshot) = "Green" => state.mode = "Operational" /\ ~state.bale_full
      BY <2>types, <2>shown DEF Beacon, Mode
    <3> QED
      BY <3>1 DEF SnapshotInputsTruthful
  <2>banner. PushView(Snapshot).bale_full => since_full < FullLatchCycles \/ full_db.level
    <3>1. PushView(Snapshot).bale_full => state.bale_full \/ full_latch_remaining > 0
      BY <2>shown DEF PushView
    <3>2. state.bale_full => full_db.level
      BY <2>types DEF SnapshotInputsTruthful
    <3> QED
      BY <3>1, <3>2 DEF FullLatchHolds
  <2> QED
    BY <2>white, <2>red, <2>green, <2>banner
<1> QED
  BY <1>truth, HistoryImplementsControl, TypeCorrect, BeaconFacts, BusLossSafe,
     SnapshotTruthful, FullLatch, PTL

-----------------------------------------------------------------------------
(***************************************************************************)
(* The bale count.                                                         *)
(***************************************************************************)

\* The debouncer of DI3 and the edge detector after it, in terms of the raw
\* samples: the level is the last value that lasted Debounce samples, and the
\* pending count is the length of a run that disagrees with it.
GateInv ==
  /\ open_run \in [value : BOOLEAN, length : 0 .. Debounce + 1]
  /\ closed_seen \in BOOLEAN
  /\ last_open_level = open_db.level
  /\ closed_seen = ~open_db.level
  /\ open_db.candidate = open_run.value
  /\ IF open_run.value = open_db.level THEN open_db.count = 0
     ELSE open_run.length < Debounce /\ open_db.count = open_run.length

\* A sample flips the debounced level exactly when it completes a run of
\* Debounce samples that disagree with it, and GateInv is kept.
LEMMA GateStep ==
  ASSUME TypeOK, GateInv, NEW i \in InputSet, HBeginScan(i)
  PROVE  /\ GateInv'
         /\ open_db'.level /\ ~last_open_level <=> FreshOpen(i.bale_open)
<1> DEFINE raw == i.bale_open
<1>1. raw \in BOOLEAN
  BY DEF Inputs
<1>2. open_db \in Debouncer
  BY DEF TypeOK
<1>3. /\ open_db' = Update(open_db, raw)
      /\ last_open_level' = open_db'.level
      /\ open_run' = ExtendRun(raw)
      /\ closed_seen' = IF open_run'.length < Debounce THEN closed_seen ELSE ~open_run'.value
  BY DEF HBeginScan, BeginScan, CountBale
<1> HIDE DEF raw
<1>4. /\ open_run' \in [value : BOOLEAN, length : 1 .. Debounce + 1]
      /\ open_run'.value = raw
  BY <1>1, <1>3 DEF GateInv, ExtendRun, Older
<1>5. CASE raw = open_db.level
  <2>1. open_db'.level = open_db.level /\ open_db'.candidate = raw /\ open_db'.count = 0
    BY <1>3, <1>5 DEF Update
  <2>2. closed_seen' = ~open_db.level
    BY <1>1, <1>2, <1>3, <1>4, <1>5 DEF GateInv, Debouncer
  <2>3. GateInv'
    BY <1>1, <1>2, <1>3, <1>4, <1>5, <2>1, <2>2 DEF GateInv, Debouncer
  <2>4. ~(open_db'.level /\ ~last_open_level)
    BY <2>1 DEF GateInv
  <2>5. ~FreshOpen(raw)
    BY <1>3, <1>4, <1>5 DEF FreshOpen, GateInv
  <2> QED
    BY <2>3, <2>4, <2>5 DEF raw
<1>6. CASE raw # open_db.level
  <2>1. PendingCount(open_db, raw) = open_run'.length /\ open_run'.length <= Debounce
    BY <1>1, <1>2, <1>3, <1>6 DEF PendingCount, ExtendRun, Older, GateInv, Debouncer
  <2>2. CASE open_run'.length >= Debounce
    <3>1. open_db'.level = raw /\ open_db'.candidate = raw /\ open_db'.count = 0
      BY <1>3, <1>6, <2>1, <2>2 DEF Update
    <3>2. closed_seen' = ~raw
      BY <1>3, <1>4, <2>2
    <3>3. GateInv'
      <4>1. open_run' \in [value : BOOLEAN, length : 0 .. Debounce + 1]
        BY <1>4
      <4>2. closed_seen' \in BOOLEAN /\ closed_seen' = ~open_db'.level
        BY <1>1, <3>1, <3>2
      <4> QED
        BY <1>3, <1>4, <3>1, <4>1, <4>2 DEF GateInv
    <3>4. open_run'.length = Debounce
      BY <1>4, <2>1, <2>2
    <3>5. FreshOpen(raw) <=> raw /\ closed_seen
      BY <1>3, <1>4, <3>4 DEF FreshOpen
    <3>6. open_db'.level /\ ~last_open_level <=> raw /\ closed_seen
      BY <1>1, <1>6, <3>1 DEF GateInv
    <3> QED
      BY <3>3, <3>5, <3>6 DEF raw
  <2>3. CASE open_run'.length < Debounce
    <3>1. /\ open_db'.level = open_db.level
          /\ open_db'.candidate = raw
          /\ open_db'.count = open_run'.length
      BY <1>3, <1>4, <1>6, <2>1, <2>3 DEF Update
    <3>2. closed_seen' = closed_seen
      BY <1>3, <2>3
    <3>3. GateInv'
      BY <1>1, <1>2, <1>3, <1>4, <1>6, <2>3, <3>1, <3>2 DEF GateInv, Debouncer
    <3>4. ~FreshOpen(raw)
      BY <1>3, <1>4, <2>3 DEF FreshOpen
    <3>5. ~(open_db'.level /\ ~last_open_level)
      BY <3>1 DEF GateInv
    <3> QED
      BY <3>3, <3>4, <3>5 DEF raw
  <2> QED
    BY <1>4, <2>2, <2>3
<1> QED
  BY <1>5, <1>6

\* The scan counts exactly the fresh opens of a healthy bus: the debouncer and
\* the edge detector together implement the definition over raw samples.
THEOREM CountsFreshOpens == HSpec => CountsExactlyFreshOpens
<1> DEFINE Counted ==
      phase = "idle" /\ phase' = "commands" =>
        counters' = IF FreshOpen(inputs'.bale_open) /\ inputs'.healthy
                    THEN IncrementBale(counters) ELSE counters
<1>1. HInit => GateInv
  <2> SUFFICES ASSUME HInit PROVE GateInv
    OBVIOUS
  <2>1. /\ open_db.level = FALSE /\ open_db.candidate = FALSE /\ open_db.count = 0
        /\ last_open_level = FALSE /\ closed_seen = TRUE
        /\ open_run = [value |-> FALSE, length |-> 0]
    BY DEF HInit, Init, InitWith, DebouncerNew
  <2>2. open_run \in [value : BOOLEAN, length : 0 .. Debounce + 1]
    BY <2>1
  <2> QED
    BY <2>1, <2>2 DEF GateInv
<1>2. TypeOK /\ GateInv /\ [HNext]_hvars => GateInv' /\ [Counted]_hvars
  <2> SUFFICES ASSUME TypeOK, GateInv, [HNext]_hvars PROVE GateInv' /\ [Counted]_hvars
    OBVIOUS
  <2>1. ASSUME NEW i \in InputSet, HBeginScan(i) PROVE GateInv' /\ Counted
    <3>1. /\ inputs' = i
          /\ counters' = IF i.healthy /\ open_db'.level /\ ~last_open_level
                         THEN IncrementBale(counters) ELSE counters
      BY <2>1 DEF HBeginScan, BeginScan, CountBale
    <3> QED
      BY <2>1, <3>1, GateStep
  <2>2. ASSUME NEW cmd \in Commands, HFireWrap(cmd) \/ HOtherCommand(cmd)
        PROVE  GateInv' /\ Counted
    <3>1. /\ UNCHANGED <<open_run, closed_seen, open_db, last_open_level>>
          /\ phase = "commands"
      BY <2>2 DEF HFireWrap, HOtherCommand, historyVars, ManualIo, IgnoreInManual, FireWrap,
                  FireKnife, Recount, SwitchToEthernet, SwitchToEthercat, Reject, Answer,
                  NextCommand, inputVars
    <3> QED
      BY <3>1 DEF GateInv
  <2>3. CASE HEndScan
    <3>1. /\ UNCHANGED <<open_run, closed_seen, open_db, last_open_level>>
          /\ phase = "commands"
      BY <2>3 DEF HEndScan, EndScanManual, EndScanNormal, inputVars
    <3> QED
      BY <3>1 DEF GateInv
  <2>4. CASE UNCHANGED hvars
    BY <2>4 DEF hvars, vars, inputVars, historyVars, GateInv
  <2> QED
    BY <2>1, <2>2, <2>3, <2>4 DEF HNext
<1> QED
  BY <1>1, <1>2, HistoryTypes, PTL DEF HSpec, CountsExactlyFreshOpens
=============================================================================
