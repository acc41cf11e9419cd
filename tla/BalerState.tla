----------------------------- MODULE BalerState -----------------------------
(***************************************************************************)
(* The mode state machine (baler-core/src/state.rs) as operators on a      *)
(* record, with the commands of baler-core/src/ipc.rs that drive it.       *)
(*                                                                         *)
(* knife stands for the Option<bool> field knife_in in the form the        *)
(* snapshot gives it (KnifePos): None is "Unknown", Some(true) "In",       *)
(* Some(false) "Out".                                                      *)
(***************************************************************************)
EXTENDS Integers

Mode == {"Initializing", "Operational", "Fault", "Ethernet"}

KnifePos == {"Unknown", "In", "Out"}

\* ipc.rs Command.  AdjustSession carries an i8, ManualIo the three held keys.
PlainCommand == [kind : {"Wrap", "ToggleKnife", "ResetSession", "ResetTotal",
                         "EnterEthernet", "ReturnToEthercat"}]
AdjustCommand == [kind : {"AdjustSession"}, delta : -128 .. 127]
ManualCommand == [kind : {"ManualIo"}, wrap : BOOLEAN,
                  knives_in : BOOLEAN, knives_out : BOOLEAN]
Command == PlainCommand \cup AdjustCommand \cup ManualCommand

Action == {"FireWrap", "FireKnife", "ResetSession", "AdjustSession",
           "ResetTotal", "SwitchToEthernet", "SwitchToEthercat"}

Rejection == {"NotReady", "NotIdle", "AlreadyEthernet", "NotInEthernet"}

StateType == [mode : Mode, bale_full : BOOLEAN, knife : KnifePos]

StateNew == [mode |-> "Initializing", bale_full |-> FALSE, knife |-> "Unknown"]

MarkInputsUnknown(s) == [s EXCEPT !.bale_full = FALSE, !.knife = "Unknown"]

\* BalerState::wrap_armed, the hint that a full bale may be wrapped.
WrapArmed(s) == s.mode = "Operational" /\ s.bale_full

-----------------------------------------------------------------------------
\* Mutated form: a fault keeps showing the last inputs.
OnBusHealthKeepsInputs(s, healthy) ==
  IF s.mode = "Ethernet" THEN s
  ELSE [s EXCEPT !.mode = IF healthy THEN "Operational"
                          ELSE IF @ \in {"Operational", "Fault"} THEN "Fault"
                          ELSE "Initializing"]

-----------------------------------------------------------------------------

\* BalerState::on_bus_health: Ethernet mode ignores the bus; a healthy bus is
\* Operational; a loss is a Fault, or still Initializing before the first Up.
OnBusHealth(s, healthy) ==
  IF s.mode = "Ethernet" THEN s
  ELSE IF healthy THEN [s EXCEPT !.mode = "Operational"]
  ELSE [MarkInputsUnknown(s) EXCEPT
          !.mode = IF @ \in {"Operational", "Fault"} THEN "Fault" ELSE "Initializing"]

\* BalerState::on_inputs: the conditioned inputs count only while Operational.
OnInputs(s, bale_full, knife_in) ==
  IF s.mode = "Operational"
  THEN [s EXCEPT !.bale_full = bale_full, !.knife = IF knife_in THEN "In" ELSE "Out"]
  ELSE s

\* The Action or Rejection that BalerState::handle returns for a command.
Resolve(s, cmd, any_pulse_active) ==
  LET WhenOperational(a) == IF s.mode = "Operational" THEN a ELSE "NotReady"
  IN CASE cmd.kind = "Wrap"          -> WhenOperational("FireWrap")
       [] cmd.kind = "ToggleKnife"   -> WhenOperational("FireKnife")
       [] cmd.kind = "EnterEthernet" ->
            IF s.mode = "Ethernet" THEN "AlreadyEthernet"
            ELSE IF s.mode = "Operational" /\ any_pulse_active THEN "NotIdle"
            ELSE "SwitchToEthernet"
       [] cmd.kind = "ReturnToEthercat" ->
            IF s.mode = "Ethernet" THEN "SwitchToEthercat" ELSE "NotInEthernet"
       [] cmd.kind = "ManualIo" -> "NotReady"
       [] OTHER -> cmd.kind      \* resets and corrections: in any mode

\* What BalerState::handle leaves in the state when it returns that action.
Handled(s, action) ==
  CASE action = "SwitchToEthernet" -> [MarkInputsUnknown(s) EXCEPT !.mode = "Ethernet"]
    [] action = "SwitchToEthercat" -> [s EXCEPT !.mode = "Initializing"]
    [] OTHER -> s
=============================================================================
