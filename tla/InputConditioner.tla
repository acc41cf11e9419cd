-------------------------- MODULE InputConditioner --------------------------
(***************************************************************************)
(* Debounce of one digital input (baler-core/src/input_conditioner.rs).    *)
(*                                                                         *)
(* A Debouncer is fed one raw sample per scan.  Its level changes only     *)
(* after Debounce consecutive samples of the opposite value.  The Edge     *)
(* that update() returns is ignored by every caller of the daemon, which   *)
(* read level() instead, so the value of an update is the debouncer after  *)
(* it.                                                                     *)
(***************************************************************************)
EXTENDS Naturals

CONSTANT Debounce   \* DEBOUNCE of control.rs: samples needed to accept a change

\* Debouncer::new clamps its threshold to at least 1.
ASSUME DebounceAssumption == Debounce \in Nat \ {0}

Debouncer == [level : BOOLEAN, candidate : BOOLEAN, count : 0 .. Debounce - 1]

DebouncerNew(initial) == [level |-> initial, candidate |-> initial, count |-> 0]

\* The length of the run of samples that disagree with the level, raw included.
PendingCount(d, raw) == IF raw = d.candidate THEN d.count + 1 ELSE 1

\* Debouncer::update.
Update(d, raw) ==
  IF raw = d.level
  THEN [level |-> d.level, candidate |-> raw, count |-> 0]
  ELSE IF PendingCount(d, raw) >= Debounce
       THEN [level |-> raw, candidate |-> raw, count |-> 0]
       ELSE [level |-> d.level, candidate |-> raw, count |-> PendingCount(d, raw)]
=============================================================================
