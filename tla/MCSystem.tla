------------------------------ MODULE MCSystem ------------------------------
(***************************************************************************)
(* Constants for TLC, and a focus, fixed at the start of a behaviour:      *)
(*   "network"   the network key, pulses and the IO test stream against a  *)
(*               gate that stays closed;                                   *)
(*   "counting"  the gate and the reset of the total.                      *)
(***************************************************************************)
EXTENDS System

VARIABLE focus

GateInputs == {[healthy |-> h, bale_full |-> FALSE, knife_in |-> FALSE, bale_open |-> o] :
                 h \in BOOLEAN, o \in BOOLEAN}

Key(kind) == [kind |-> kind]

PanelCommands ==
  {Key("EnterEthernet"), Key("ReturnToEthercat"), Key("Wrap"), Key("ResetTotal"),
   [kind |-> "ManualIo", wrap |-> FALSE, knives_in |-> FALSE, knives_out |-> FALSE]}

MCInit == SInit /\ focus \in {"network", "counting"}

MCNext ==
  /\ SNext
  /\ UNCHANGED focus
  /\ focus = "network" => UNCHANGED gate /\ sent' # Key("ResetTotal")
  /\ focus = "counting" => nav' # "IoTest" /\ sent' \in {Ui!NoCommand, Key("ResetTotal")}

\* The focus holds back only the operator and the gate, of which no fairness is
\* assumed.
MCSpec == MCInit /\ [][MCNext]_<<svars, focus>> /\ SFairness
=============================================================================
