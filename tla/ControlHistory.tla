--------------------------- MODULE ControlHistory ---------------------------
(***************************************************************************)
(* The control cycle with history variables: what the raw inputs and the   *)
(* command stream were, recorded next to the code's own counters and never *)
(* read by it, so that properties can relate an output to the past.        *)
(***************************************************************************)
EXTENDS Control, View

VARIABLES
  since_manual,   \* scans ended since one whose batch had a ManualIo
  open_run,       \* the value and length of the current run of raw DI3 samples
  closed_seen,    \* a debounced close was seen since the last debounced open
  since_full,     \* scans since debounced DI1 was true, with no wrap since
  driven          \* scans each output has been driven by its current pulse

historyVars == <<since_manual, open_run, closed_seen, since_full, driven>>
hvars == <<vars, historyVars>>

\* Ages saturate at the bound beyond which they are not told apart.
Older(age, bound) == IF age < bound THEN age + 1 ELSE bound

HistoryTypeOK ==
  /\ since_manual \in 0 .. ManualIoWatchdog
  /\ open_run \in [value : BOOLEAN, length : 0 .. Debounce + 1]
  /\ closed_seen \in BOOLEAN
  /\ since_full \in 0 .. FullLatchCycles
  /\ driven \in [wrap : 0 .. PulseCycles, knives_in : 0 .. PulseCycles,
                 knives_out : 0 .. PulseCycles]

HInit ==
  /\ Init
  /\ since_manual = ManualIoWatchdog
  /\ open_run = [value |-> FALSE, length |-> 0]
  /\ closed_seen = TRUE
  /\ since_full = FullLatchCycles
  /\ driven = [wrap |-> 0, knives_in |-> 0, knives_out |-> 0]

\* The run of equal raw DI3 samples that ends with this one.
ExtendRun(raw) ==
  IF raw = open_run.value THEN [open_run EXCEPT !.length = Older(@, Debounce + 1)]
  ELSE [value |-> raw, length |-> 1]

\* This sample is the Debounce-th open one in a row, after a debounced close.
FreshOpen(raw) ==
  /\ ExtendRun(raw).value
  /\ ExtendRun(raw).length = Debounce
  /\ closed_seen

HBeginScan(i) ==
  /\ BeginScan(i)
  /\ open_run' = ExtendRun(i.bale_open)
  /\ closed_seen' = IF open_run'.length < Debounce THEN closed_seen ELSE ~open_run'.value
  /\ since_full' = IF i.healthy /\ full_db'.level THEN 0
                   ELSE Older(since_full, FullLatchCycles)
  /\ UNCHANGED <<since_manual, driven>>

HFireWrap(cmd) ==
  /\ FireWrap(cmd)
  /\ since_full' = FullLatchCycles
  /\ UNCHANGED <<since_manual, open_run, closed_seen, driven>>

HOtherCommand(cmd) ==
  /\ \/ ManualIo(cmd)
     \/ IgnoreInManual(cmd)
     \/ FireKnife(cmd)
     \/ Recount(cmd)
     \/ SwitchToEthernet(cmd)
     \/ SwitchToEthercat(cmd)
     \/ Reject(cmd)
  /\ UNCHANGED historyVars

\* One scan more for an output that is driven (PulseCycles is too many), else none.
Longer(n, high) == IF high THEN Older(n, PulseCycles) ELSE 0

HEndScan ==
  /\ \/ EndScanManual /\ UNCHANGED driven
     \/ /\ EndScanNormal
        /\ driven' = [wrap |-> Longer(driven.wrap, outputs'.wrap),
                      knives_in |-> Longer(driven.knives_in, outputs'.knives_in),
                      knives_out |-> Longer(driven.knives_out, outputs'.knives_out)]
  /\ since_manual' = IF got_manual THEN 0 ELSE Older(since_manual, ManualIoWatchdog)
  /\ UNCHANGED <<open_run, closed_seen, since_full>>

HNext ==
  \/ \E i \in InputSet : HBeginScan(i)
  \/ \E cmd \in Commands : HFireWrap(cmd) \/ HOtherCommand(cmd)
  \/ HEndScan

HSpec == HInit /\ [][HNext]_hvars

HFairSpec == HSpec /\ Fairness

-----------------------------------------------------------------------------
\* Between two scans every energized output has a cause: the pulse of that
\* output, or a key held in a ManualIo that arrived less than ManualIoWatchdog
\* scans ago on a bus that is healthy now (the output branch of step, REQ_0018).
OutputsAccountedFor ==
  phase = "idle" =>
    LET Held(key) == inputs.healthy /\ since_manual < ManualIoWatchdog /\ key
    IN /\ outputs.wrap => wrap.active \/ Held(manual.wrap)
       /\ outputs.knives_in => knives_in.active \/ Held(manual.knives_in)
       /\ outputs.knives_out => knives_out.active \/ Held(manual.knives_out)

\* An accepted wrap or knife key drives its output as a pulse for fewer than
\* PulseCycles scans in total, however often keys are pressed again meanwhile and
\* however often the manual-IO mode interrupts the pulse (trigger's lock-out,
\* step's interlock, tick).
PulsesBounded ==
  /\ driven.wrap < PulseCycles
  /\ driven.knives_in < PulseCycles
  /\ driven.knives_out < PulseCycles

\* Pulse p, which has driven its output for n scans, does not end early in q.
EndsFull(p, q, n) == p.active /\ ~q.active => n = PulseCycles - 1 \/ ~inputs.healthy

\* And for no fewer, unless the bus is lost: no command, no mode switch and no
\* manual-IO mode cuts a pulse short (tick is the only end of a pulse).
PulsesRunFull ==
  [][/\ EndsFull(wrap, wrap', driven.wrap)
     /\ EndsFull(knives_in, knives_in', driven.knives_in)
     /\ EndsFull(knives_out, knives_out', driven.knives_out)]_hvars

\* The counters move in a scan exactly when the raw DI3 samples complete a run
\* of Debounce open ones after a debounced close and the bus is healthy: a gate
\* held open, a bouncing gate and a gate open across a fault count once or not
\* at all, and no proper open is missed (Debouncer::update and the edge in step).
CountsExactlyFreshOpens ==
  [][phase = "idle" /\ phase' = "commands" =>
       counters' = IF FreshOpen(inputs'.bale_open) /\ inputs'.healthy
                   THEN IncrementBale(counters) ELSE counters]_hvars

\* "FULL" stays shown for FullLatchCycles scans after the last scan in which a
\* healthy bus reported debounced DI1 true, unless a wrap was fired since, and
\* no longer than that (the latch of step, REQ_0017).
FullLatchHolds ==
  full_latch_remaining > 0 <=> since_full < FullLatchCycles

\* Manual-IO mode, in which every other command is dropped, lasts exactly until
\* ManualIoWatchdog scans have passed without a ManualIo: a command sent later
\* than that after the IO test screen was left is never dropped, and a stream
\* with gaps shorter than that never lets a pulse through (step's watchdog).
ManualModeTracksStream ==
  phase = "idle" =>
    (manual_io_remaining > 0 <=> since_manual < ManualIoWatchdog)

\* The beacon and the banner tell the operator the truth after every scan that
\* is not in manual-IO mode: white if and only if an output is energized, red
\* if and only if the bus is lost, green only on a healthy bus with no bale
\* waiting, and no full banner without a recent full input (REQ_0012, REQ_0014,
\* LedBeacon::tick and push_view against the scan that made the snapshot).
BeaconTruthful ==
  phase = "idle" /\ manual_io_remaining = 0 =>
    LET colour == Beacon(Snapshot)
    IN /\ colour = "White" <=> outputs # AllLow
       /\ colour = "Red" <=> state.mode = "Fault"
       /\ colour = "Green" => inputs.healthy /\ ~full_db.level
       /\ PushView(Snapshot).bale_full => since_full < FullLatchCycles \/ full_db.level
=============================================================================
