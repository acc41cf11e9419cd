---------------------------- MODULE SystemProofs ----------------------------
(***************************************************************************)
(* The daemon, the panel and the network together, for every instance: the *)
(* daemon and the panel stay the ones Daemon and PanelScreens specify, so  *)
(* that what is proved of them holds here, and the address the daemon      *)
(* reports is on the NIC.                                                  *)
(***************************************************************************)
EXTENDS System, DaemonSafetyProofs

USE DebounceAssumption, PulseAssumption, MaxCountAssumption, ControlAssumption,
    DaemonAssumption, SystemAssumption

-----------------------------------------------------------------------------
(***************************************************************************)
(* The daemon in the system.                                               *)
(***************************************************************************)

\* A step of the panel is a command sent to the daemon, or no step of it: while
\* the daemon is down the command is lost.
LEMMA PanelStepOfDaemon ==
  UiFrame \/ UiSends \/ UiMoves \/ UiRestart => [DNext]_dvars
<1>quiet. UiFrame \/ UiMoves \/ UiRestart => UNCHANGED dvars
  BY DEF UiFrame, UiMoves, UiRestart
<1>lost. UiSends /\ proc = "down" => UNCHANGED dvars
  BY DEF UiSends, Deliver, dvars, linkVars
<1>sent. UiSends /\ proc # "down" => PanelSends(sent') /\ sent' \in Commands
  BY DEF UiSends, Deliver, PanelSends
<1> QED
  BY <1>quiet, <1>lost, <1>sent DEF DNext

\* Every step of the system is one of the daemon or leaves it alone.
LEMMA StepOfDaemon == [SNext]_svars => [DNext]_dvars
<1>daemon. SpawnDaemon \/ RunDaemon \/ RunCommand \/ ShowNoCarrier \/ PublishItem => DNext
  BY DEF SpawnDaemon, RunDaemon, RunCommand, ShowNoCarrier, PublishItem, DNext
<1>still. UNCHANGED svars => UNCHANGED dvars
  BY DEF svars
<1> QED
  BY <1>daemon, <1>still, PanelStepOfDaemon DEF SNext

\* DaemonIsDaemon: neither the panel, nor commands lost while the daemon is
\* down, nor the NIC lead the daemon out of the behaviours of Daemon.
THEOREM SystemRunsDaemon == SSpec => DaemonIsDaemon
<1>first. SInit => DInit
  BY DEF SInit
<1> QED
  BY <1>first, StepOfDaemon, PTL DEF SSpec, DSpec, DaemonIsDaemon

-----------------------------------------------------------------------------
(***************************************************************************)
(* The address.                                                            *)
(***************************************************************************)

\* A list of commands that ends Ok leaves the link up and the address on it;
\* however a list ends, the NIC is one.
LEMMA SwitchResult ==
  ASSUME NEW n \in Nic
  PROVE  /\ \A r \in EnterEthernet(n) :
              r.nic \in Nic /\ (r.ok => r.nic.up /\ "static" \in r.nic.addrs)
         /\ \A r \in EnterEthercat(n) : r.nic \in Nic
<1>one. \A m \in Nic : \A c \in {"link up", "addr flush", "addr add"} : RunIp(m, c) \in Nic
  BY DEF RunIp, Nic, Address
<1>ethernet. ASSUME NEW r \in EnterEthernet(n)
             PROVE  r.nic \in Nic /\ (r.ok => r.nic.up /\ "static" \in r.nic.addrs)
  <2> DEFINE up == RunIp(n, "link up")
             flushed == RunIp(up, "addr flush")
             added == RunIp(flushed, "addr add")
             states == <<n, up, flushed, added>>
  <2>nics. up \in Nic /\ flushed \in Nic /\ added \in Nic
    BY <1>one
  <2>real. added.up /\ "static" \in added.addrs
    BY DEF RunIp, Nic
  <2>pick. PICK k \in 1 .. 4 : r = [nic |-> states[k], ok |-> k = 4]
    BY DEF EnterEthernet, RunList
  <2>reached. /\ r.nic \in {n, up, flushed, added}
              /\ r.ok => r.nic = added
    <3> HIDE DEF up, flushed, added
    <3>end. states[k] \in {n, up, flushed, added} /\ (k = 4 => states[k] = added)
      OBVIOUS
    <3>nic. r.nic = states[k]
      BY <2>pick
    <3>ok. r.ok => k = 4
      BY <2>pick
    <3> HIDE DEF states
    <3> QED
      BY <3>end, <3>nic, <3>ok
  <2> HIDE DEF up, flushed, added
  <2> QED
    BY <2>nics, <2>real, <2>reached
<1>ethercat. ASSUME NEW r \in EnterEthercat(n) PROVE r.nic \in Nic
  <2> DEFINE flushed == RunIp(n, "addr flush")
             up == RunIp(flushed, "link up")
             states == <<n, flushed, up>>
  <2>nics. flushed \in Nic /\ up \in Nic
    BY <1>one
  <2>pick. PICK k \in 1 .. 3 : r = [nic |-> states[k], ok |-> k = 3]
    BY DEF EnterEthercat, RunList
  <2> HIDE DEF flushed, up
  <2> QED
    BY <2>nics, <2>pick
<1> QED
  BY <1>ethernet, <1>ethercat

\* The address of the daemon's last switch is there even while the process is
\* ending: the next one starts without an address to report.
AddressInv ==
  /\ nic \in Nic
  /\ last_ip = "StaticIp" => nic.up /\ "static" \in nic.addrs

\* A command changes the address only with the mode, and the NIC with it.
LEMMA CommandAddress == AddressInv /\ DaemonTypeOK /\ RunCommand => AddressInv'
<1> SUFFICES ASSUME AddressInv, DaemonTypeOK, RunCommand PROVE AddressInv'
  OBVIOUS
<1>head. Head(drained) \in Commands /\ HandleCommand(Head(drained))
  BY DEF RunCommand, StepCommand, DaemonTypeOK
<1>state. state \in StateType
  BY DEF DaemonTypeOK, TypeOK
<1>switch. CASE state.mode # "Ethernet" /\ state'.mode = "Ethernet"
  <2>result. PICK r \in EnterEthernet(nic) :
               nic' = r.nic /\ last_ip' = IF r.ok THEN "StaticIp" ELSE "None"
    BY <1>switch DEF RunCommand, SwitchNetwork
  <2> QED
    BY <2>result, SwitchResult DEF AddressInv
<1>return. CASE state.mode = "Ethernet" /\ state'.mode # "Ethernet"
  <2>none. last_ip' = "None"
    BY <1>head, <1>return, CommandMode DEF modeVars
  <2> QED
    BY <1>return, <2>none, SwitchResult DEF RunCommand, SwitchNetwork, AddressInv
<1>stays. CASE (state.mode = "Ethernet") = (state'.mode = "Ethernet")
  <2>same. last_ip' = last_ip
    BY <1>head, <1>state, <1>stays, CommandMode DEF modeVars, MarkInputsUnknown, StateType
  <2> QED
    BY <1>stays, <2>same DEF RunCommand, SwitchNetwork, AddressInv
<1> QED
  BY <1>switch, <1>return, <1>stays

\* A command list run for the process that starts reaches no address.
LEMMA OtherAddress ==
  ASSUME AddressInv, [SNext]_svars, ~RunCommand
  PROVE  AddressInv'
<1>spawn. CASE SpawnDaemon
  <2>nic. nic' \in Nic
    BY <1>spawn DEF SpawnDaemon, AddressInv, RunIp, Nic
  <2> QED
    BY <1>spawn, <2>nic DEF SpawnDaemon, Spawn, Reboot, AddressInv
<1>kept. CASE UNCHANGED <<last_ip, nic>>
  BY <1>kept DEF AddressInv
<1>ui. UiFrame \/ UiSends \/ UiMoves \/ UiRestart \/ UNCHANGED svars => UNCHANGED <<last_ip, nic>>
  BY DEF UiFrame, UiSends, UiMoves, UiRestart, svars, dvars, vars, modeVars
<1>run. RunDaemon \/ ShowNoCarrier \/ PublishItem => UNCHANGED <<last_ip, nic>>
  BY DEF RunDaemon, ShowNoCarrier, PublishItem, Register, RegisterFails, ExitBringup, StartItem,
         BeginScan, HealthPump, CarrierMoves, GateMoves, WaitForCarrier, FinishItem, EndScan,
         EndScanManual, EndScanNormal, vars, modeVars
<1> QED
  BY <1>spawn, <1>kept, <1>ui, <1>run DEF SNext

\* ReportedIpIsReal: whichever ip command failed and whatever addresses the NIC
\* had, an address the daemon reports is assigned on a link that is up.
THEOREM ReportedIpHolds == SSpec => []ReportedIpIsReal
<1>first. SInit => AddressInv
  BY DEF SInit, DInit, Init, InitWith, AddressInv, Nic, Address
<1>typed. SSpec => []DaemonTypeOK
  BY SystemRunsDaemon, DaemonTypeCorrect, PTL DEF DaemonIsDaemon
<1>moves. AddressInv /\ DaemonTypeOK /\ [SNext]_svars => AddressInv'
  BY CommandAddress, OtherAddress
<1>enough. AddressInv => ReportedIpIsReal
  BY DEF AddressInv, ReportedIpIsReal
<1> QED
  BY <1>first, <1>typed, <1>moves, <1>enough, PTL DEF SSpec

-----------------------------------------------------------------------------
(***************************************************************************)
(* Types.                                                                  *)
(***************************************************************************)

\* The panel's part of a state.
ShownTypeOK == nav \in Ui!Nav /\ seen \in Mode
KeyTypeOK == ethernet_selected \in BOOLEAN /\ unread \in BOOLEAN
SentTypeOK == sent \in Commands \cup {Ui!NoCommand}
UiTypeOK == ShownTypeOK /\ KeyTypeOK /\ SentTypeOK

\* The daemon's steps leave the panel waiting.
LEMMA DaemonStepUi ==
  ASSUME UiTypeOK,
         \/ SpawnDaemon \/ RunDaemon \/ RunCommand \/ ShowNoCarrier \/ PublishItem
         \/ UNCHANGED svars
  PROVE  UiTypeOK'
<1>shown. ShownTypeOK'
  BY DEF UiTypeOK, ShownTypeOK, SpawnDaemon, RunDaemon, RunCommand, ShowNoCarrier, PublishItem,
         UiWaits, svars, uiVars
<1>key. KeyTypeOK'
  BY DEF UiTypeOK, KeyTypeOK, SpawnDaemon, RunDaemon, RunCommand, ShowNoCarrier, PublishItem,
         UiWaits, svars, uiVars
<1>sent. SentTypeOK'
  BY DEF UiTypeOK, SentTypeOK, SpawnDaemon, RunDaemon, RunCommand, ShowNoCarrier, PublishItem,
         UiWaits, svars, uiVars
<1> QED
  BY <1>shown, <1>key, <1>sent DEF UiTypeOK

\* The panel shows the modes that are published, and sends commands.
LEMMA PanelStepUi ==
  ASSUME UiTypeOK, published \in Mode, UiFrame \/ UiSends \/ UiMoves \/ UiRestart
  PROVE  UiTypeOK'
<1>frame. CASE UiFrame
  <2>mode. (IF unread THEN published ELSE seen) \in Mode
    BY DEF UiTypeOK, ShownTypeOK
  <2>nav. \A m \in Mode : Ui!NextNav(nav, m) \in Ui!Nav
    BY DEF UiTypeOK, ShownTypeOK, Ui!NextNav, Ui!Nav, Mode
  <2>flags. unread' = FALSE /\ ethernet_selected' = ethernet_selected
    BY <1>frame DEF UiFrame, Ui!Frame
  <2>shown. ShownTypeOK' /\ SentTypeOK'
    BY <1>frame, <2>mode, <2>nav DEF UiFrame, Ui!Frame, Ui!Quiet, ShownTypeOK, SentTypeOK
  <2> QED
    BY <2>flags, <2>shown DEF UiTypeOK, KeyTypeOK
<1>sends. CASE UiSends
  <2>shown. ShownTypeOK'
    BY <1>sends DEF UiTypeOK, ShownTypeOK, UiSends, Ui!Operate, Ui!ClearTotal, Ui!Toggle, Ui!Return,
                    Ui!Stream, Ui!Send
  <2>key. KeyTypeOK'
    BY <1>sends DEF UiTypeOK, KeyTypeOK, UiSends, Ui!Operate, Ui!ClearTotal, Ui!Toggle, Ui!Return,
                    Ui!Stream, Ui!Send
  <2> QED
    BY <1>sends, <2>shown, <2>key DEF UiTypeOK, SentTypeOK, UiSends
<1>moves. CASE UiMoves
  BY <1>moves DEF UiTypeOK, ShownTypeOK, KeyTypeOK, SentTypeOK, UiMoves, Ui!OpenService,
                  Ui!OpenIoTest, Ui!Back, Ui!Goes, Ui!Quiet, Ui!Nav
<1>restart. CASE UiRestart
  <2>key. KeyTypeOK'
    BY <1>restart DEF UiRestart, Ui!Restart, KeyTypeOK
  <2> QED
    BY <1>restart, <2>key DEF UiTypeOK, ShownTypeOK, SentTypeOK, UiRestart, Ui!Restart, Ui!Quiet,
                              Ui!Nav, Mode
<1> QED
  BY <1>frame, <1>sends, <1>moves, <1>restart

\* Every variable of the composed system keeps its type: the link holds only
\* commands, the panel shows only published modes, the NIC has only the two
\* addresses.
THEOREM SystemTypeCorrect == SSpec => []SystemTypeOK
<1>first. SInit => UiTypeOK /\ AddressInv
  <2> SUFFICES ASSUME SInit PROVE UiTypeOK /\ AddressInv
    OBVIOUS
  <2>key. KeyTypeOK
    BY DEF SInit, Ui!Init, KeyTypeOK
  <2>nic. AddressInv
    BY DEF SInit, DInit, Init, InitWith, AddressInv, Nic, Address
  <2> QED
    BY <2>key, <2>nic DEF SInit, Ui!Init, UiTypeOK, ShownTypeOK, SentTypeOK, Ui!Nav, Mode
<1>typed. SSpec => []DaemonTypeOK
  BY SystemRunsDaemon, DaemonTypeCorrect, PTL DEF DaemonIsDaemon
<1>moves. DaemonTypeOK /\ UiTypeOK /\ AddressInv /\ [SNext]_svars => UiTypeOK' /\ AddressInv'
  BY DaemonStepUi, PanelStepUi, CommandAddress, OtherAddress DEF SNext, DaemonTypeOK
<1>enough. DaemonTypeOK /\ UiTypeOK /\ AddressInv => SystemTypeOK
  BY DEF UiTypeOK, ShownTypeOK, KeyTypeOK, SentTypeOK, AddressInv, SystemTypeOK
<1> QED
  BY <1>first, <1>typed, <1>moves, <1>enough, PTL DEF SSpec

-----------------------------------------------------------------------------
(***************************************************************************)
(* What is known of each side, in the composition.                         *)
(***************************************************************************)

\* Driven by every key of the panel and by the network switch, with a gate that
\* moves and commands lost while the daemon is down: the coupler never gets both
\* knife outputs, outputs are energized only in operation, a pulse keeps the
\* master, no write is lost, no open gate is counted twice by a process, and
\* Ethernet mode lasts until the operator returns.
THEOREM SystemIsSafe ==
  SSpec => /\ [](CouplerInterlock /\ NoLostWrite)
           /\ EnergizesOnlyInOperation
           /\ PulseKeepsMaster
           /\ CountsOnceInProcess
           /\ MaintenanceIsStable
  BY SystemRunsDaemon, CouplerInterlocked, WritesAreKept, EnergizedInOperation,
     MasterKeptByPulse, CountedOnce, MaintenanceStable, PTL DEF DaemonIsDaemon

\* And a scan of it shows a full bale and a knife position only when it knows them,
\* drives nothing on a lost bus, and has its master, its mode and its address in
\* agreement.
THEOREM SystemCycleIsSafe ==
  SSpec => [](/\ KnifeInterlock
              /\ SafeOnBusLoss
              /\ SnapshotInputsTruthful
              /\ ModeAgrees)
  BY SystemRunsDaemon, CycleSafeInDaemon, PTL DEF DaemonIsDaemon

\* A step of the daemon is one in which the panel waits.
LEMMA DaemonStepOfPanel ==
  SpawnDaemon \/ RunDaemon \/ RunCommand \/ ShowNoCarrier \/ PublishItem => Ui!Next
<1>waits. UiWaits => Ui!Next
  BY DEF UiWaits, Ui!Next, Ui!Quiet
<1> QED
  BY <1>waits DEF SpawnDaemon, RunDaemon, RunCommand, ShowNoCarrier, PublishItem

\* Every step of the system is one of the panel or leaves it alone: the modes it
\* shows are modes, and what it sends comes from the screen that may send it.
LEMMA StepOfPanel ==
  published \in Mode /\ seen \in Mode /\ [SNext]_svars => [Ui!Next]_(Ui!screenVars)
<1> SUFFICES ASSUME published \in Mode, seen \in Mode, [SNext]_svars
             PROVE  [Ui!Next]_(Ui!screenVars)
  OBVIOUS
<1>frame. CASE UiFrame
  <2>mode. (IF unread THEN published ELSE seen) \in Ui!Mode
    BY DEF Mode, Ui!Mode
  <2> QED
    BY <1>frame, <2>mode DEF UiFrame, Ui!Next
<1>sends. CASE UiSends
  <2>stream. ASSUME NEW cmd \in Commands, Ui!Stream(cmd) PROVE Ui!Next
    BY <2>stream DEF Ui!Stream, Ui!Next
  <2> QED
    BY <1>sends, <2>stream DEF UiSends, Ui!Next
<1>moves. CASE UiMoves
  BY <1>moves DEF UiMoves, Ui!Next
<1>restart. CASE UiRestart
  BY <1>restart DEF UiRestart, Ui!Next, Ui!Mode
<1>still. CASE UNCHANGED svars
  BY <1>still DEF svars, uiVars, Ui!screenVars
<1> QED
  BY <1>frame, <1>sends, <1>moves, <1>restart, <1>still, DaemonStepOfPanel DEF SNext

\* Neither the daemon nor the network leads the panel out of the behaviours of
\* PanelScreens, which Panel implements: with SystemRunsDaemon, the composition
\* is a behaviour of both of its sides.
THEOREM SystemRunsPanel == SSpec => Ui!Spec
<1>first. SInit => Ui!Init
  BY DEF SInit
<1>modes. SystemTypeOK => published \in Mode /\ seen \in Mode
  BY DEF SystemTypeOK, DaemonTypeOK
<1>step. SystemTypeOK /\ [SNext]_svars => [Ui!Next]_(Ui!screenVars)
  BY <1>modes, StepOfPanel
<1> QED
  BY <1>first, <1>step, SystemTypeCorrect, PTL DEF SSpec, Ui!Spec
=============================================================================
