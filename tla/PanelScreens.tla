---------------------------- MODULE PanelScreens ----------------------------
(***************************************************************************)
(* What the operator panel promises to the daemon: which commands it can   *)
(* send from which screen.  The PIN, the keys and the frames are left out: *)
(* Panel has them and implements this specification, System composes it    *)
(* with the daemon.                                                        *)
(***************************************************************************)
EXTENDS Navigation

VARIABLES
  nav,
  mode,                \* the mode of the newest snapshot received
  ethernet_selected,   \* what the network key sends next: FALSE is EnterEthernet
  sent                 \* the command this step sent

screenVars == <<nav, mode, ethernet_selected, sent>>

Init ==
  /\ nav = "Main"
  /\ mode \in Mode
  /\ ethernet_selected = FALSE
  /\ sent = NoCommand

Quiet == sent' = NoCommand

Goes(from, to) ==
  /\ nav \in from
  /\ nav' = to
  /\ Quiet
  /\ UNCHANGED <<mode, ethernet_selected>>

\* A frame shows mode m.
Frame(m) ==
  /\ mode' = m
  /\ nav' = NextNav(nav, m)
  /\ Quiet
  /\ UNCHANGED ethernet_selected

Send(from, cmd) ==
  /\ nav = from
  /\ sent' = cmd
  /\ UNCHANGED <<nav, mode, ethernet_selected>>

MainCommands == {Plain("Wrap"), Plain("ToggleKnife"), Plain("ResetSession"), Adjust(1), Adjust(-1)}

Operate == \E cmd \in MainCommands : Send("Main", cmd)
ClearTotal == Send("Service", Plain("ResetTotal"))
Stream(cmd) == cmd \in ManualCommand /\ Send("IoTest", cmd)

\* Mutated form: the network key sends the return once and for all.
ToggleSticks ==
  /\ nav = "Service"
  /\ ethernet_selected' = TRUE
  /\ sent' = Plain(IF ethernet_selected THEN "ReturnToEthercat" ELSE "EnterEthernet")
  /\ UNCHANGED <<nav, mode>>

\* The network key alternates, whether or not the daemon obeyed.
Toggle ==
  /\ nav = "Service"
  /\ ethernet_selected' = ~ethernet_selected
  /\ sent' = Plain(IF ethernet_selected' THEN "EnterEthernet" ELSE "ReturnToEthercat")
  /\ UNCHANGED <<nav, mode>>

Return ==
  /\ nav = "Ethernet"
  /\ ethernet_selected' = FALSE
  /\ sent' = Plain("ReturnToEthercat")
  /\ UNCHANGED <<nav, mode>>

OpenService == Goes({"Main", "Fault"}, "Service")
OpenIoTest == Goes({"Service"}, "IoTest")
Back == Goes({"Service", "IoTest"}, "Main")

\* The panel's process starts anew and shows mode m.
Restart(m) ==
  /\ nav' = "Main"
  /\ mode' = m
  /\ ethernet_selected' = FALSE
  /\ Quiet

Next ==
  \/ \E m \in Mode : Frame(m) \/ Restart(m)
  \/ Operate \/ ClearTotal \/ Toggle \/ Return
  \/ \E cmd \in ManualCommand : Stream(cmd)
  \/ OpenService \/ OpenIoTest \/ Back
  \/ Quiet /\ UNCHANGED <<nav, mode, ethernet_selected>>

Spec == Init /\ [][Next]_screenVars
=============================================================================
