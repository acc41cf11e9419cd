------------------------------- MODULE System -------------------------------
(***************************************************************************)
(* The daemon (Daemon), the panel (PanelScreens, which Panel implements)   *)
(* and the network switch (NetworkMode) together, over the link of         *)
(* transport.rs and IpcBackend: a snapshot link of which the panel reads   *)
(* the newest, and a command link whose reader dies with the daemon.       *)
(***************************************************************************)
EXTENDS Daemon, NetworkMode

VARIABLES
  nav, seen, ethernet_selected, sent,   \* the panel; seen is its snapshot's mode
  unread,                               \* a snapshot is waiting for the panel
  nic

Ui == INSTANCE PanelScreens WITH mode <- seen

\* The keys the panel sends are among the commands of the instance.
ASSUME SystemAssumption ==
  {[kind |-> "EnterEthernet"], [kind |-> "ReturnToEthercat"]} \subseteq Commands

uiVars == <<nav, seen, ethernet_selected, sent>>
svars == <<dvars, uiVars, unread, nic>>

SystemTypeOK ==
  /\ DaemonTypeOK
  /\ nav \in Ui!Nav /\ seen \in Mode /\ ethernet_selected \in BOOLEAN
  /\ sent \in Commands \cup {Ui!NoCommand}
  /\ unread \in BOOLEAN
  /\ nic \in Nic

SInit ==
  /\ DInit
  /\ Ui!Init /\ seen = "Initializing"
  /\ unread = FALSE
  /\ nic = [up |-> FALSE, addrs |-> {"boot"}]

-----------------------------------------------------------------------------
(***************************************************************************)
(* The daemon's steps, seen from the link and the NIC.                     *)
(***************************************************************************)

\* Only one command is on its way at a time.
UiWaits == sent' = Ui!NoCommand /\ UNCHANGED <<nav, seen, ethernet_selected>>

\* Control::step's calls of the network controller: the address it reports is
\* what enter_ethernet returned, and an error of enter_ethercat is ignored.
SwitchNetwork ==
  IF state.mode # "Ethernet" /\ state'.mode = "Ethernet"
  THEN \E r \in EnterEthernet(nic) :
         nic' = r.nic /\ last_ip' = IF r.ok THEN "StaticIp" ELSE "None"
  ELSE IF state.mode = "Ethernet" /\ state'.mode # "Ethernet"
  THEN \E r \in EnterEthercat(nic) : nic' = r.nic
  ELSE UNCHANGED nic

\* wait_for_carrier first sets the link up, if it can.
SpawnDaemon ==
  /\ Spawn
  /\ nic' \in {nic, RunIp(nic, "link up")}
  /\ UiWaits /\ UNCHANGED unread

\* The steps that publish nothing and leave the NIC alone.
RunDaemon ==
  /\ \/ Register \/ RegisterFails \/ ExitBringup
     \/ \E i \in InputSet : StartItem(i)
     \/ HealthPump \/ CarrierMoves \/ GateMoves
  /\ UiWaits /\ UNCHANGED <<unread, nic>>

RunCommand == StepCommand /\ SwitchNetwork /\ UiWaits /\ UNCHANGED unread

ShowNoCarrier == WaitForCarrier /\ unread' = TRUE /\ UiWaits /\ UNCHANGED nic

\* Mutated form: nothing is published once the daemon is in Ethernet mode.
PublishUnlessEthernet ==
  /\ FinishItem
  /\ unread' = (unread \/ (proc' = "running" /\ state.mode # "Ethernet"))
  /\ UiWaits /\ UNCHANGED nic

\* An item that ends the process publishes nothing.
PublishItem ==
  /\ FinishItem
  /\ unread' = (unread \/ proc' = "running")
  /\ UiWaits /\ UNCHANGED nic

-----------------------------------------------------------------------------
(***************************************************************************)
(* The panel's steps.  A scan reads the link once, when it starts, so only *)
(* frames, which have to come, are taken in the middle of one too.         *)
(***************************************************************************)

\* IpcBackend::step keeps the newest snapshot, or the last one it had.
UiFrame ==
  /\ Ui!Frame(IF unread THEN published ELSE seen)
  /\ unread' = FALSE
  /\ UNCHANGED <<dvars, nic>>

\* Mutated forms: the link delivers twice; it keeps what nobody reads.
DeliverTwice ==
  IF proc = "down" THEN UNCHANGED queue
  ELSE /\ Len(queue) < QueueSize
       /\ queue' = queue \o <<sent', sent'>>

DeliverToNobody ==
  /\ Len(queue) < QueueSize
  /\ queue' = Append(queue, sent')

\* IpcBackend::command: lost if the daemon has no reader open.
Deliver ==
  IF proc = "down" THEN UNCHANGED queue
  ELSE /\ Len(queue) < QueueSize
       /\ queue' = Append(queue, sent')

\* A key of the main screen or the service screen, or the IO test stream; the
\* instance's Commands say which keys are pressed.
UiSends ==
  /\ phase = "idle"
  /\ \/ Ui!Operate \/ Ui!ClearTotal \/ Ui!Toggle \/ Ui!Return
     \/ \E cmd \in Commands : Ui!Stream(cmd)
  /\ sent' \in Commands
  /\ Deliver
  /\ UNCHANGED <<vars, proc, busVars, itemVars, drained, published, saved, worldVars, unread, nic>>

UiMoves ==
  /\ phase = "idle"
  /\ Ui!OpenService \/ Ui!OpenIoTest \/ Ui!Back
  /\ UNCHANGED <<dvars, unread, nic>>

\* A new panel process has received nothing yet.
UiRestart ==
  /\ phase = "idle"
  /\ Ui!Restart("Initializing")
  /\ unread' = FALSE
  /\ UNCHANGED <<dvars, nic>>

SNext ==
  \/ SpawnDaemon
  \/ RunDaemon
  \/ RunCommand
  \/ ShowNoCarrier
  \/ PublishItem
  \/ UiFrame
  \/ UiSends
  \/ UiMoves
  \/ UiRestart

\* The daemon's fairness, and a frame of the panel every 16 ms; nothing is
\* assumed of the operator.
SFairness ==
  /\ WF_svars(SpawnDaemon)
  /\ WF_svars(ShowNoCarrier)
  /\ WF_svars(RunDaemon /\ (Register \/ RegisterFails))
  /\ WF_svars(RunDaemon /\ (ExitBringup \/ \E i \in InputSet : StartItem(i)))
  /\ WF_svars(RunCommand)
  /\ WF_svars(PublishItem)
  /\ WF_svars(UiFrame)

SSpec == SInit /\ [][SNext]_svars /\ SFairness

-----------------------------------------------------------------------------
\* Nothing the panel and the network do takes the daemon out of the behaviours
\* Daemon has: what is shown and proved of it there holds in the whole system,
\* commands sent while it is down included.
DaemonIsDaemon == DSpec

\* The address the daemon reports is there, on a link that is up, whichever of
\* the ip commands failed and whatever address the NIC had (enter_ethernet).
ReportedIpIsReal ==
  proc = "running" /\ last_ip = "StaticIp" => nic.up /\ "static" \in nic.addrs

\* This scan is about to reject an EnterEthernet for an active pulse.
MeetsPulse ==
  drained # <<>> /\ Head(drained).kind = "EnterEthernet" /\ state.mode = "Operational" /\ AnyActive

\* An operator who keeps pressing the network key gets the daemon into Ethernet
\* mode, though the key's next command is the panel's guess, wrong after every
\* rejected, ignored or lost one and after a restart of either side.  It fails
\* him only if the daemon keeps ending, the IO test screen keeps being opened, or
\* the key keeps coming while a pulse runs: who wraps before every second press
\* has EnterEthernet and ReturnToEthercat rejected by turns (handle).
ToggleReaches ==
  []<><<Ui!Toggle>>_svars =>
    \/ []<>(state.mode = "Ethernet" \/ proc # "running" \/ manual_io_remaining > 0)
    \/ []<>MeetsPulse

\* The panel does not go on showing a mode that the running daemon is not in:
\* again and again the two agree, unless the mode keeps changing or one of the
\* processes keeps restarting (IpcBackend::step, publish).
PanelCatchesUp ==
  \/ []<>(seen = state.mode \/ proc # "running")
  \/ []<><<state'.mode # state.mode \/ UiRestart>>_svars
=============================================================================
