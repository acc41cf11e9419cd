-------------------------------- MODULE View --------------------------------
(***************************************************************************)
(* What the operator sees of a snapshot (baler-ui/src/main.rs): the LED    *)
(* beacon and the values push_view hands to the screens.  Labels, colours  *)
(* as numbers, blinking and layout are left out; the screen itself and the *)
(* PIN belong to Panel.                                                    *)
(***************************************************************************)
EXTENDS BalerState

Beacons == {"White", "Red", "Blue", "Amber", "Green", "DimBlue"}

\* LedBeacon::tick: an active pulse comes before the mode, a full bale after
\* fault and Ethernet mode.  White flashes and amber pulses.
Beacon(s) ==
  IF s.wrap_active \/ s.knife_active THEN "White"
  ELSE IF s.mode = "Fault" THEN "Red"
  ELSE IF s.mode = "Ethernet" THEN "Blue"
  ELSE IF s.bale_full THEN "Amber"
  ELSE IF s.mode = "Operational" THEN "Green" ELSE "DimBlue"

\* push_view: the snapshot's part of the screen.  The full banner is lit by the
\* input or by the latch, and an address is shown only if there is one.
PushView(s) ==
  [mode_text |-> s.mode, knife_text |-> s.knife, counts |-> s.counts,
   bale_full |-> s.bale_full \/ s.full_latched,
   wrap_armed |-> s.wrap_armed, wrap_active |-> s.wrap_active,
   knife_active |-> s.knife_active,
   ethercat_healthy |-> s.mode = "Operational",
   ip_text |-> IF s.ip = "None" THEN "dash" ELSE s.ip,
   di1 |-> s.di1, di2 |-> s.di2, di3 |-> s.di3]
=============================================================================
