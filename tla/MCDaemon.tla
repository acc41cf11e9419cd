------------------------------ MODULE MCDaemon ------------------------------
(***************************************************************************)
(* Constants for TLC.  Bus health, the gate, the link and the mode         *)
(* commands vary; the status inputs stay low.                              *)
(***************************************************************************)
EXTENDS Daemon

GateInputs == {[healthy |-> h, bale_full |-> FALSE, knife_in |-> FALSE, bale_open |-> o] :
                 h \in BOOLEAN, o \in BOOLEAN}

ModeCommands == {[kind |-> "EnterEthernet"], [kind |-> "ReturnToEthercat"]}
LifeCommands ==
  ModeCommands \cup
    {[kind |-> "Wrap"],
     [kind |-> "ManualIo", wrap |-> FALSE, knives_in |-> TRUE, knives_out |-> TRUE]}
=============================================================================
