-------------------------------- MODULE Boot --------------------------------
(***************************************************************************)
(* Boot of the device: systemd starts baler-ethercat and baler-ui (its     *)
(* units order their starts, not their readiness), both open or create the *)
(* two iceoryx2 services of the link (bringup.rs, DaemonLink::new,         *)
(* IpcBackend::new), and the daemon arms and pets the hardware watchdog    *)
(* (watchdog.rs).                                                          *)
(*                                                                         *)
(* Time counts in units of 50 ms and is spent by the daemon's sleeps, by   *)
(* systemd's RestartSec and by register(), nowhere else; the panel's       *)
(* sleeps take any time.  At most MaxFaults things go wrong: a kill, a     *)
(* hang, a race that corrupts a service, an open that fails for another    *)
(* reason, a watchdog device that does not open, a bus that does not come  *)
(* up in time.                                                             *)
(***************************************************************************)
EXTENDS Integers

CONSTANTS
  OpenAttempts,   \* OPEN_ATTEMPTS, 10
  BackoffCap,     \* the cap of backoff_for, 500 ms
  PollSleep,      \* the sleep of wait_for_carrier, 200 ms
  RegisterTime,   \* what register() and the first item may take
  RestartSec,     \* RestartSec=2 of baler-ethercat.service
  WdTimeout,      \* the 15 s that build_net_wd asks for
  MaxFaults       \* bound on the faults of a behaviour

\* The sleeps of one retry_open before its a-th attempt, if the cap is not met.
Slept(a) == (a * (a - 1)) \div 2

LinkTime == 2 * Slept(OpenAttempts)

\* The deployed times leave the watchdog a margin: 4.5 s for the link, 200 ms,
\* register() and 2 s stay under 15 s if register() takes less than 8.3 s.
ASSUME BootAssumption ==
  /\ OpenAttempts \in Nat \ {0}
  /\ BackoffCap \in Nat /\ PollSleep \in Nat /\ RegisterTime \in Nat
  /\ RestartSec \in Nat /\ MaxFaults \in Nat
  /\ WdTimeout \in Nat
  /\ LinkTime + PollSleep + RegisterTime + RestartSec < WdTimeout

Process == {"daemon", "ui"}
Channel == {1, 2}                \* CHANNEL_STATE, then CHANNEL_COMMAND
AllOpen == 3

VARIABLES
  pc,        \* where each process is
  chan,      \* the channel it opens next, AllOpen when it has both
  attempt,   \* retry_open's local of that name
  service,   \* the iceoryx2 services: their state and the node that holds them
  armed,     \* the watchdog has been opened since power-on
  unfed,     \* time since the watchdog was last opened or petted
  unarmed,   \* history: starts of the daemon since then that ended before arming
  faults     \* faults so far

procVars == <<pc, chan, attempt>>
wdVars == <<armed, unfed, unarmed>>
bvars == <<procVars, service, wdVars, faults>>

DaemonPc == {"down", "arm", "open", "creating", "backoff", "carrier", "register",
             "running", "hung"}
UiPc == {"down", "open", "creating", "backoff", "running"}

Absent == [st |-> "absent", by |-> "none"]
Ready == [st |-> "ready", by |-> "none"]
Creating(p) == [st |-> "creating", by |-> p]
Corrupt(p) == [st |-> "corrupt", by |-> p]
Service == [st : {"absent", "creating", "ready", "corrupt"},
            by : Process \cup {"none", "dead"}]

BootTypeOK ==
  /\ pc \in [Process -> DaemonPc] /\ pc["ui"] \in UiPc
  /\ chan \in [Process -> Channel \cup {AllOpen}]
  /\ attempt \in [Process -> 1 .. OpenAttempts]
  /\ service \in [Channel -> Service]
  /\ armed \in BOOLEAN
  /\ unfed \in Nat
  /\ unarmed \in 0 .. MaxFaults
  /\ faults \in 0 .. MaxFaults

PoweredOn ==
  /\ pc = [p \in Process |-> "down"]
  /\ chan = [p \in Process |-> 1]
  /\ attempt = [p \in Process |-> 1]
  /\ service = [c \in Channel |-> Absent]

Init ==
  /\ PoweredOn
  /\ armed = FALSE /\ unfed = 0 /\ unarmed = 0
  /\ faults = 0

Fault == faults < MaxFaults /\ faults' = faults + 1

-----------------------------------------------------------------------------
(***************************************************************************)
(* Processes.                                                              *)
(***************************************************************************)

\* The services after process p is gone: what it was creating or had corrupted
\* belongs to a dead node, and a service nobody else has open is removed, left
\* usable or left corrupt.
Abandon(p) ==
  \E leftover \in {Absent, Ready, Corrupt("dead")} :
    service' = [c \in Channel |->
      IF service[c].by = p THEN [service[c] EXCEPT !.by = "dead"]
      ELSE IF service[c] = Ready /\ chan[p] > c
              /\ \A q \in Process \ {p} : chan[q] <= c
           THEN leftover ELSE service[c]]

\* Process p ends, for systemd to start it again.
Die(p) ==
  /\ pc' = [pc EXCEPT ![p] = "down"]
  /\ chan' = [chan EXCEPT ![p] = 1]
  /\ attempt' = [attempt EXCEPT ![p] = 1]
  /\ Abandon(p)

\* systemd, Restart=always: RestartSec after the end, and at power-on.
Spawn(p) ==
  /\ pc[p] = "down"
  /\ pc' = [pc EXCEPT ![p] = IF p = "daemon" THEN "arm" ELSE "open"]
  /\ unfed' = IF p = "daemon" /\ armed THEN unfed + RestartSec ELSE unfed
  /\ UNCHANGED <<chan, attempt, service, armed, unarmed, faults>>

\* Mutated form: a watchdog that does not open is logged and done without.
OpenWatchdogOrNot ==
  /\ pc["daemon"] = "arm"
  /\ pc' = [pc EXCEPT !["daemon"] = "open"]
  /\ armed' \in BOOLEAN /\ unfed' = 0 /\ unarmed' = 0
  /\ UNCHANGED <<chan, attempt, service, faults>>

\* build_net_wd: WatchdogPetter::open arms the timer, and setting the timeout
\* restarts it.
OpenWatchdog ==
  /\ pc["daemon"] = "arm"
  /\ pc' = [pc EXCEPT !["daemon"] = "open"]
  /\ armed' = TRUE /\ unfed' = 0 /\ unarmed' = 0
  /\ UNCHANGED <<chan, attempt, service, faults>>

\* It fails, or the process is killed before it: main returns the error.
NotArmed ==
  /\ pc["daemon"] = "arm"
  /\ Fault
  /\ Die("daemon")
  /\ unarmed' = unarmed + 1
  /\ UNCHANGED <<armed, unfed>>

-----------------------------------------------------------------------------
(***************************************************************************)
(* retry_open, once per channel, in both processes.                        *)
(***************************************************************************)

\* Mutated form: a corruption is retried but never cleaned up.
CleanupLeftOut(sv) == sv

\* Node::cleanup_dead_nodes: services held by dead nodes disappear.
Cleanup(sv) == [c \in Channel |-> IF sv[c].by = "dead" THEN Absent ELSE sv[c]]

\* Mutated form: the error is logged and the process goes on without a link.
GivesUpDeaf(p, sv) ==
  /\ service' = sv
  /\ pc' = [pc EXCEPT ![p] = IF p = "daemon" THEN "carrier" ELSE "running"]
  /\ UNCHANGED <<chan, attempt>>

\* Attempts are exhausted: the error reaches main, which returns it.
GiveUp(p, sv) ==
  /\ pc' = [pc EXCEPT ![p] = "down"]
  /\ chan' = [chan EXCEPT ![p] = 1]
  /\ attempt' = [attempt EXCEPT ![p] = 1]
  /\ service' = [c \in Channel |->
       IF sv[c].by = p THEN [sv[c] EXCEPT !.by = "dead"]
       ELSE IF sv[c] = Ready /\ chan[p] > c /\ \A q \in Process \ {p} : chan[q] <= c
            THEN Absent ELSE sv[c]]

\* Mutated form: one attempt too many.
OpenFailedOffByOne(p, sv, corrupted) ==
  LET cleaned == IF corrupted THEN Cleanup(sv) ELSE sv
  IN IF attempt[p] > OpenAttempts THEN GiveUp(p, cleaned)
     ELSE /\ service' = cleaned
          /\ pc' = [pc EXCEPT ![p] = "backoff"]
          /\ UNCHANGED <<chan, attempt>>

\* open() returned an error: clean up after a corruption, then sleep or give up.
OpenFailed(p, sv, corrupted) ==
  LET cleaned == IF corrupted THEN Cleanup(sv) ELSE sv
  IN IF attempt[p] >= OpenAttempts THEN GiveUp(p, cleaned)
     ELSE /\ service' = cleaned
          /\ pc' = [pc EXCEPT ![p] = "backoff"]
          /\ UNCHANGED <<chan, attempt>>

\* open() returned Ok: the next channel, or what follows the link.
OpenOk(p) ==
  /\ chan' = [chan EXCEPT ![p] = @ + 1]
  /\ attempt' = [attempt EXCEPT ![p] = 1]
  /\ pc' = [pc EXCEPT ![p] = IF chan[p] < 2 THEN "open"
                             ELSE IF p = "daemon" THEN "carrier" ELSE "running"]

\* The service is there.
OpenExisting(p) ==
  /\ pc[p] = "open"
  /\ service[chan[p]] = Ready
  /\ OpenOk(p)
  /\ UNCHANGED <<service, wdVars, faults>>

\* It is not: creating it takes two steps, between which the other may look.
StartCreate(p) ==
  /\ pc[p] = "open"
  /\ service[chan[p]] = Absent
  /\ service' = [service EXCEPT ![chan[p]] = Creating(p)]
  /\ pc' = [pc EXCEPT ![p] = "creating"]
  /\ UNCHANGED <<chan, attempt, wdVars, faults>>

FinishCreate(p) ==
  /\ pc[p] = "creating"
  /\ IF service[chan[p]] = Creating(p)
     THEN service' = [service EXCEPT ![chan[p]] = Ready] /\ OpenOk(p)
     ELSE OpenFailed(p, service, TRUE)
  /\ UNCHANGED <<wdVars, faults>>

\* It is being created by the other process: not yet usable.
FindUnfinished(p) ==
  /\ pc[p] = "open"
  /\ service[chan[p]].st = "creating" /\ service[chan[p]].by # "dead"
  /\ OpenFailed(p, service, FALSE)
  /\ UNCHANGED <<wdVars, faults>>

\* The boot race: two creators leave the service corrupt (ISSUE_0011).
Collide(p) ==
  /\ pc[p] = "open"
  /\ service[chan[p]].st = "creating" /\ service[chan[p]].by # "dead"
  /\ Fault
  /\ OpenFailed(p, [service EXCEPT ![chan[p]].st = "corrupt"], TRUE)
  /\ UNCHANGED wdVars

\* Corrupt, or left half created by a process that died: is_corrupted.
FindCorrupt(p) ==
  /\ pc[p] = "open"
  /\ service[chan[p]].st = "corrupt" \/ service[chan[p]] = Creating("dead")
  /\ OpenFailed(p, service, TRUE)
  /\ UNCHANGED <<wdVars, faults>>

\* Any other error of open().
FailTransiently(p) ==
  /\ pc[p] = "open"
  /\ Fault
  /\ OpenFailed(p, service, FALSE)
  /\ UNCHANGED wdVars

\* backoff_for and link_backoff: linear, capped.
Backoff(a) == IF a < BackoffCap THEN a ELSE BackoffCap

Sleep(p) ==
  /\ pc[p] = "backoff"
  /\ pc' = [pc EXCEPT ![p] = "open"]
  /\ attempt' = [attempt EXCEPT ![p] = @ + 1]
  /\ unfed' = IF p = "daemon" THEN unfed + Backoff(attempt[p]) ELSE unfed
  /\ UNCHANGED <<chan, service, armed, unarmed, faults>>

Open(p) ==
  \/ OpenExisting(p)
  \/ StartCreate(p)
  \/ FinishCreate(p)
  \/ FindUnfinished(p)
  \/ FindCorrupt(p)

-----------------------------------------------------------------------------
(***************************************************************************)
(* The daemon after the link, and the watchdog.                            *)
(***************************************************************************)

\* Mutated form: the blind wait of before ISSUE_0010.
PollWithoutPet ==
  /\ pc["daemon"] = "carrier"
  /\ unfed' = unfed + PollSleep
  /\ UNCHANGED <<procVars, service, armed, unarmed, faults>>

\* wait_for_carrier finds no carrier: pet, then sleep.
PollCarrier ==
  /\ pc["daemon"] = "carrier"
  /\ unfed' = PollSleep
  /\ UNCHANGED <<procVars, service, armed, unarmed, faults>>

DaemonMoves(from, to) == pc["daemon"] = from /\ pc' = [pc EXCEPT !["daemon"] = to]

\* It finds one, and register() enumerates the bus.
FindCarrier ==
  /\ DaemonMoves("carrier", "register")
  /\ UNCHANGED <<chan, attempt, service, wdVars, faults>>

Register ==
  /\ DaemonMoves("register", "running")
  /\ unfed' = unfed + RegisterTime
  /\ UNCHANGED <<chan, attempt, service, armed, unarmed, faults>>

\* Every 10 ms the item ends with WatchdogPetter::pet.
Pet ==
  /\ pc["daemon"] = "running"
  /\ unfed' = 0
  /\ UNCHANGED <<procVars, service, armed, unarmed, faults>>

\* The item ends the process: bring-up deadline or return to EtherCAT.  The
\* watchdog stays armed, magic_close is false.
ExitItem ==
  /\ pc["daemon"] = "running"
  /\ Fault
  /\ Die("daemon")
  /\ UNCHANGED wdVars

Kill(p) ==
  /\ pc[p] \notin {"down", "arm", "hung"}
  /\ Fault
  /\ Die(p)
  /\ UNCHANGED wdVars

Hang ==
  /\ \E from \in {"carrier", "register", "running"} : DaemonMoves(from, "hung")
  /\ Fault
  /\ UNCHANGED <<chan, attempt, service, wdVars>>

\* Time goes by while the daemon hangs.
HungTime ==
  /\ pc["daemon"] = "hung"
  /\ unfed < WdTimeout
  /\ unfed' = unfed + 1
  /\ UNCHANGED <<procVars, service, armed, unarmed, faults>>

\* The timer runs out: the SoC resets, and boots with nothing in memory.
BoardReset ==
  /\ armed
  /\ unfed >= WdTimeout
  /\ pc' = [p \in Process |-> "down"]
  /\ chan' = [p \in Process |-> 1]
  /\ attempt' = [p \in Process |-> 1]
  /\ service' = [c \in Channel |-> Absent]
  /\ armed' = FALSE /\ unfed' = 0 /\ unarmed' = 0
  /\ UNCHANGED faults

Next ==
  \/ \E p \in Process : Spawn(p) \/ Open(p) \/ Sleep(p)
  \/ \E p \in Process : Collide(p) \/ FailTransiently(p) \/ Kill(p)
  \/ OpenWatchdog \/ NotArmed
  \/ PollCarrier \/ FindCarrier \/ Register \/ Pet \/ ExitItem
  \/ Hang \/ HungTime \/ BoardReset

Spec == Init /\ [][Next]_bvars

\* systemd starts what ended, sleeps end, calls return, time passes; nothing is
\* assumed of the carrier.
Fairness ==
  /\ \A p \in Process : /\ WF_bvars(Spawn(p))
                        /\ WF_bvars(Open(p))
                        /\ WF_bvars(Sleep(p))
  /\ WF_bvars(OpenWatchdog)
  /\ WF_bvars(PollCarrier \/ FindCarrier)
  /\ WF_bvars(Register)
  /\ WF_bvars(HungTime)
  /\ WF_bvars(BoardReset)

FairSpec == Spec /\ Fairness

-----------------------------------------------------------------------------
Linked(p) == chan[p] = AllOpen /\ pc[p] \notin {"down", "hung"}

\* The watchdog never resets a daemon that is only waiting: not in the retries
\* of the link, not in a wait for the carrier of any length, not between an exit
\* and the next start, unless that start never gets to open the device
\* (ISSUE_0010, the times of build_net_wd, retry_open and wait_for_carrier).
WatchdogStaysFed ==
  unfed >= WdTimeout => pc["daemon"] = "hung" \/ unarmed > 0

\* And it does reset a daemon that hangs, which systemd does not notice (REQ_0010).
HungIsReset == pc["daemon"] = "hung" ~> pc["daemon"] = "down"

\* A process that has got past the link has both of its channels, usable: it is
\* never deaf or mute (ISSUE_0011), whatever the other process and its clean-ups
\* do meanwhile.
NeverDeaf ==
  \A p \in Process :
    /\ pc[p] \in {"carrier", "register", "running"} => chan[p] = AllOpen
    /\ \A c \in Channel : chan[p] > c => service[c] = Ready

\* Both processes get their link in the end and again after every fault, though
\* a service corrupted by a process that is still alive can only be cleaned once
\* that process has used up its attempts and ended (retry_open, Restart=always).
LinkComesUp == []<>(\A p \in Process : Linked(p))
=============================================================================
