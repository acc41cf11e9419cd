---------------------------- MODULE PulseEngine -----------------------------
(***************************************************************************)
(* Fixed-duration output pulse (baler-core/src/pulse.rs).                  *)
(*                                                                         *)
(* Durations are counted in scans: tick is only ever called with           *)
(* dt = SCAN = 10 ms and the duration PULSE = 5 s, so elapsed stands for   *)
(* elapsed / SCAN and PulseCycles for PULSE / SCAN = 500.                  *)
(***************************************************************************)
EXTENDS Naturals

CONSTANT PulseCycles   \* PULSE / SCAN: ticks after which a pulse completes

ASSUME PulseAssumption == PulseCycles \in Nat \ {0}

Pulse == [active : BOOLEAN, elapsed : 0 .. PulseCycles - 1]

PulseNew == [active |-> FALSE, elapsed |-> 0]

-----------------------------------------------------------------------------
\* Mutated forms: a second trigger restarts the pulse or cancels it; the pulse
\* stays at its last tick for good.
TriggerRestarts(p) == [active |-> TRUE, elapsed |-> 0]

TriggerToggles(p) == IF p.active THEN PulseNew ELSE [active |-> TRUE, elapsed |-> 0]

TickNeverCompletes(p, healthy) ==
  IF ~p.active THEN p
  ELSE IF ~healthy THEN PulseNew
  ELSE [p EXCEPT !.elapsed = IF @ + 1 >= PulseCycles THEN @ ELSE @ + 1]
-----------------------------------------------------------------------------

\* PulseEngine::trigger: locked out while the pulse is active.
Trigger(p) == IF p.active THEN p ELSE [active |-> TRUE, elapsed |-> 0]

\* PulseEngine::tick: the pulse progresses on a healthy bus, is aborted by an
\* unhealthy one and resets when it reaches its duration.
Tick(p, healthy) ==
  IF ~p.active THEN p
  ELSE IF ~healthy \/ p.elapsed + 1 >= PulseCycles THEN PulseNew
  ELSE [p EXCEPT !.elapsed = @ + 1]
=============================================================================
