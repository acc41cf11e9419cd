------------------------------ MODULE MCPanel -------------------------------
(***************************************************************************)
(* Constants for TLC: a two-digit PIN over three digits, which needs both  *)
(* directions of the digit keys and the cursor.  The language depends on   *)
(* no other state but the screen, so a behaviour either never changes it,  *)
(* or never touches the digits and the output keys.                        *)
(***************************************************************************)
EXTENDS Panel

ShortPin == <<1, 2>>

VARIABLE focus    \* rigid: what the operator of this behaviour does

LanguageKeys == {"F1", "F5"}     \* the physical keys of the softkeys F4 and F6

MCInit == Init /\ focus \in {"keys", "language"}

MCNext ==
  /\ UNCHANGED focus
  /\ \/ \E m \in Mode : StartFrame(m)
     \/ \E b \in IF focus = "keys" THEN Button \ {"F1"} ELSE LanguageKeys :
          Press(RemapFkey(b)) \/ Release(RemapFkey(b))
     \/ EndFrame
     \/ Restart
     \/ PowerCycle /\ focus = "language"

MCSpec == MCInit /\ [][MCNext]_<<vars, focus>>
=============================================================================
