------------------------------ MODULE MCControl -----------------------------
(***************************************************************************)
(* Constants for TLC.  A behaviour has a focus, fixed at the start: some   *)
(* of the inputs vary and some of the commands are sent, the others stay   *)
(* at their idle value.  The cross product of all of them is out of reach. *)
(***************************************************************************)
EXTENDS ControlHistory

VARIABLE focus

Cmd(k) == [kind |-> k]
Adjust(d) == [kind |-> "AdjustSession", delta |-> d]
Keys(w, i, o) == [kind |-> "ManualIo", wrap |-> w, knives_in |-> i, knives_out |-> o]

In(h, f, k, o) == [healthy |-> h, bale_full |-> f, knife_in |-> k, bale_open |-> o]

\* Pulses and manual-IO: bus health and the knife position vary.
OutputInputs == {In(h, FALSE, k, FALSE) : h \in BOOLEAN, k \in BOOLEAN}
OutputCommands == {Cmd("Wrap"), Cmd("ToggleKnife"), Keys(FALSE, FALSE, FALSE),
                   Keys(TRUE, TRUE, TRUE), Keys(FALSE, FALSE, TRUE)}

\* Counting: bus health and the gate vary.
CountInputs == {In(h, FALSE, FALSE, o) : h \in BOOLEAN, o \in BOOLEAN}
CountCommands == {Cmd("ResetSession"), Cmd("ResetTotal"), Adjust(1), Adjust(-1)}

\* Modes: bus health and the two status inputs vary.
ModeInputs == {In(h, f, k, FALSE) : h \in BOOLEAN, f \in BOOLEAN, k \in BOOLEAN}
ModeCommands == {Cmd("Wrap"), Cmd("EnterEthernet"), Cmd("ReturnToEthercat"),
                 Keys(TRUE, FALSE, FALSE)}

AllInputs == OutputInputs \cup CountInputs \cup ModeInputs
AllCommands == OutputCommands \cup CountCommands \cup ModeCommands

FocusInputs == [outputs |-> OutputInputs, counting |-> CountInputs, modes |-> ModeInputs]
FocusCommands ==
  [outputs |-> OutputCommands, counting |-> CountCommands, modes |-> ModeCommands]

MCInit == HInit /\ focus \in DOMAIN FocusInputs

MCNext ==
  /\ UNCHANGED focus
  /\ \/ \E i \in FocusInputs[focus] : HBeginScan(i)
     \/ \E cmd \in FocusCommands[focus] : HFireWrap(cmd) \/ HOtherCommand(cmd)
     \/ HEndScan

mcvars == <<hvars, focus>>

MCSpec == MCInit /\ [][MCNext]_mcvars

\* Fairness, with the inputs the focus allows.
MCFairSpec ==
  /\ MCSpec
  /\ WF_mcvars(\E i \in FocusInputs[focus] : HBeginScan(i) /\ UNCHANGED focus)
  /\ WF_mcvars(HEndScan /\ UNCHANGED focus)
=============================================================================
