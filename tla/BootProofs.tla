----------------------------- MODULE BootProofs -----------------------------
(***************************************************************************)
(* The watchdog and the link at boot, for all times that meet the          *)
(* assumption of Boot and for any number of faults.                        *)
(***************************************************************************)
EXTENDS Boot, TLAPS

USE BootAssumption

\* The sleeps of retry_open add up to Slept, which grows with the attempts.
LEMMA SleptStep ==
  ASSUME NEW a \in Nat \ {0}
  PROVE  /\ Slept(a) \in Nat
         /\ Slept(a + 1) = Slept(a) + a
<1>1. a * (a - 1) \in Nat /\ (a + 1) * a = a * (a - 1) + 2 * a
  OBVIOUS
<1>2. ASSUME NEW x \in Nat, NEW y \in Nat
      PROVE  x \div 2 \in Nat /\ (x + 2 * y) \div 2 = (x \div 2) + y
  OBVIOUS
<1>3. (a + 1) - 1 = a
  OBVIOUS
<1> QED
  BY <1>1, <1>2, <1>3 DEF Slept

LEMMA SleptMonotone ==
  ASSUME NEW a \in 1 .. OpenAttempts
  PROVE  Slept(a) \in Nat /\ Slept(a) <= Slept(OpenAttempts)
<1>1. a * (a - 1) <= OpenAttempts * (OpenAttempts - 1)
  <2> DEFINE d == OpenAttempts - a
  <2>gap. d \in Nat /\ a \in Nat /\ OpenAttempts = a + d
    OBVIOUS
  <2> HIDE DEF d
  <2>products. /\ (a + d) * ((a + d) - 1) = a * (a - 1) + (2 * (a * d) + d * d - d)
               /\ a * d \in Nat /\ d * d \in Nat
    BY <2>gap
  <2>squares. d * d >= d
    BY <2>gap
  <2>numbers. /\ a * (a - 1) \in Int
              /\ 2 * (a * d) + d * d - d >= 0
    BY <2>gap, <2>products, <2>squares
  <2> QED
    BY <2>gap, <2>products, <2>numbers
<1>2. ASSUME NEW x \in Int, NEW y \in Int, x <= y PROVE x \div 2 <= y \div 2
  BY <1>2
<1>3. a * (a - 1) \in Int /\ OpenAttempts * (OpenAttempts - 1) \in Int
  OBVIOUS
<1>4. Slept(a) <= Slept(OpenAttempts)
  BY <1>1, <1>2, <1>3 DEF Slept
<1> QED
  BY <1>4, SleptStep

-----------------------------------------------------------------------------
(***************************************************************************)
(* Where the processes are, and what they hold.                            *)
(***************************************************************************)

Opening == {"open", "creating", "backoff"}
Past == {"carrier", "register", "running"}

\* Control and data of one process agree.
Located(p) ==
  /\ pc[p] \in {"down", "arm"} => chan[p] = 1 /\ attempt[p] = 1
  /\ pc[p] \in Opening => chan[p] \in Channel
  /\ pc[p] = "backoff" => attempt[p] < OpenAttempts
  /\ pc[p] \in Past \cup {"hung"} => chan[p] = AllOpen

\* Every channel a process has opened is usable.
Usable(p) == \A c \in Channel : chan[p] > c => service[c] = Ready

\* Both, with the types they need.
PlaceFacts ==
  /\ pc \in [Process -> DaemonPc] /\ pc["ui"] \in UiPc
  /\ chan \in [Process -> Channel \cup {AllOpen}]
  /\ attempt \in [Process -> 1 .. OpenAttempts]
  /\ service \in [Channel -> Service]
  /\ \A q \in Process : Located(q) /\ Usable(q)

PlaceInv ==
  /\ BootTypeOK
  /\ unarmed <= faults
  /\ \A p \in Process : Located(p) /\ Usable(p)

\* A failed attempt touches no usable service and moves its own process only.
LEMMA FailedPlace ==
  ASSUME PlaceInv, NEW p \in Process, pc[p] \in {"open", "creating"},
         NEW sv \in [Channel -> Service],
         \A c \in Channel : service[c] = Ready => sv[c] = Ready,
         NEW corrupted \in BOOLEAN, OpenFailed(p, sv, corrupted)
  PROVE  PlaceFacts'
<1> DEFINE cleaned == IF corrupted THEN Cleanup(sv) ELSE sv
<1>cleaned. /\ cleaned \in [Channel -> Service]
            /\ \A c \in Channel : service[c] = Ready => cleaned[c] = Ready
  BY DEF Cleanup, Service, Absent, Ready
<1>types. /\ pc \in [Process -> DaemonPc] /\ pc["ui"] \in UiPc
          /\ chan \in [Process -> Channel \cup {AllOpen}]
          /\ attempt \in [Process -> 1 .. OpenAttempts]
          /\ \A q \in Process : Located(q) /\ Usable(q)
  BY DEF PlaceInv, BootTypeOK
<1> HIDE DEF cleaned
<1>give_up. CASE GiveUp(p, cleaned)
  <2>moved. /\ pc' = [pc EXCEPT ![p] = "down"]
            /\ chan' = [chan EXCEPT ![p] = 1]
            /\ attempt' = [attempt EXCEPT ![p] = 1]
    BY <1>give_up DEF GiveUp
  <2>types. /\ pc' \in [Process -> DaemonPc] /\ pc'["ui"] \in UiPc
            /\ chan' \in [Process -> Channel \cup {AllOpen}]
            /\ attempt' \in [Process -> 1 .. OpenAttempts]
    BY <2>moved, <1>types DEF DaemonPc, UiPc, Channel, Process
  <2>service. service' \in [Channel -> Service]
    BY <1>give_up, <1>cleaned DEF GiveUp, Service, Absent
  <2>usable. ASSUME NEW q \in Process PROVE Usable(q)'
    <3>1. ASSUME NEW c \in Channel, chan'[q] > c PROVE service'[c] = Ready
      <4>1. q # p
        BY <3>1, <2>moved, <1>types DEF Channel
      <4>2. chan[q] > c
        BY <3>1, <4>1, <2>moved, <1>types
      <4>3. cleaned[c] = Ready
        BY <4>2, <1>types, <1>cleaned DEF Usable
      <4>4. cleaned[c].by # p
        BY <4>3 DEF Ready, Process
      <4> QED
        BY <4>1, <4>2, <4>3, <4>4, <1>give_up, <1>types DEF GiveUp, Channel, AllOpen
    <3> QED
      BY <3>1 DEF Usable
  <2>located. ASSUME NEW q \in Process PROVE Located(q)'
    BY <2>moved, <1>types DEF Located, Opening, Past
  <2> QED
    BY <2>types, <2>service, <2>usable, <2>located DEF PlaceFacts
<1>sleep. CASE /\ attempt[p] < OpenAttempts
               /\ service' = cleaned
               /\ pc' = [pc EXCEPT ![p] = "backoff"]
               /\ UNCHANGED <<chan, attempt>>
  BY <1>sleep, <1>types, <1>cleaned
     DEF PlaceFacts, Located, Usable, Opening, Past, DaemonPc, UiPc, Process
<1> QED
  <2>1. OpenFailed(p, sv, corrupted)
        => \/ GiveUp(p, cleaned)
           \/ /\ ~(attempt[p] >= OpenAttempts)
              /\ service' = cleaned
              /\ pc' = [pc EXCEPT ![p] = "backoff"]
              /\ UNCHANGED <<chan, attempt>>
    BY DEF OpenFailed, cleaned
  <2>2. attempt[p] \in Int /\ OpenAttempts \in Int
    BY <1>types
  <2> QED
    BY <2>1, <2>2, <1>give_up, <1>sleep

\* So does the end of a process.
LEMMA DiePlace ==
  ASSUME PlaceInv, NEW p \in Process, Die(p)
  PROVE  PlaceFacts'
<1>types. /\ pc \in [Process -> DaemonPc] /\ pc["ui"] \in UiPc
          /\ chan \in [Process -> Channel \cup {AllOpen}]
          /\ attempt \in [Process -> 1 .. OpenAttempts]
          /\ service \in [Channel -> Service]
          /\ \A q \in Process : Located(q) /\ Usable(q)
  BY DEF PlaceInv, BootTypeOK
<1>moved. /\ pc' = [pc EXCEPT ![p] = "down"]
          /\ chan' = [chan EXCEPT ![p] = 1]
          /\ attempt' = [attempt EXCEPT ![p] = 1]
  BY DEF Die
<1>left. PICK leftover \in {Absent, Ready, Corrupt("dead")} :
           service' = [c \in Channel |->
             IF service[c].by = p THEN [service[c] EXCEPT !.by = "dead"]
             ELSE IF service[c] = Ready /\ chan[p] > c
                     /\ \A q \in Process \ {p} : chan[q] <= c
                  THEN leftover ELSE service[c]]
  BY DEF Die, Abandon
<1>service. service' \in [Channel -> Service]
  BY <1>left, <1>types DEF Service, Absent, Ready, Corrupt
<1>own. /\ pc' \in [Process -> DaemonPc] /\ pc'["ui"] \in UiPc
        /\ chan' \in [Process -> Channel \cup {AllOpen}]
        /\ attempt' \in [Process -> 1 .. OpenAttempts]
  BY <1>moved, <1>types DEF DaemonPc, UiPc, Channel, Process
<1>usable. ASSUME NEW q \in Process PROVE Usable(q)'
  <2>1. ASSUME NEW c \in Channel, chan'[q] > c PROVE service'[c] = Ready
    <3>1. q # p
      BY <2>1, <1>moved, <1>types DEF Channel
    <3>2. chan[q] > c
      BY <2>1, <3>1, <1>moved, <1>types
    <3>3. service[c] = Ready
      BY <3>2, <1>types DEF Usable
    <3>4. service[c].by # p
      BY <3>3 DEF Ready, Process
    <3>5. ~(\A r \in Process \ {p} : chan[r] <= c)
      BY <3>1, <3>2, <1>types DEF Channel, AllOpen
    <3> QED
      BY <3>3, <3>4, <3>5, <1>left
  <2> QED
    BY <2>1 DEF Usable
<1>located. ASSUME NEW q \in Process PROVE Located(q)'
  BY <1>moved, <1>types DEF Located, Opening, Past
<1> QED
  BY <1>service, <1>own, <1>usable, <1>located DEF PlaceFacts

\* A channel is opened when its service is usable, and then the next is due.
LEMMA OpenedPlace ==
  ASSUME PlaceInv, NEW p \in Process, pc[p] \in {"open", "creating"}, OpenOk(p),
         \/ service[chan[p]] = Ready /\ UNCHANGED service
         \/ service' = [service EXCEPT ![chan[p]] = Ready]
  PROVE  PlaceFacts'
<1>types. /\ pc \in [Process -> DaemonPc] /\ pc["ui"] \in UiPc
          /\ chan \in [Process -> Channel \cup {AllOpen}]
          /\ attempt \in [Process -> 1 .. OpenAttempts]
          /\ service \in [Channel -> Service]
          /\ \A q \in Process : Located(q) /\ Usable(q)
          /\ chan[p] \in Channel
  BY DEF PlaceInv, BootTypeOK, Located, Opening
<1>moved. /\ pc' = [pc EXCEPT ![p] = IF chan[p] < 2 THEN "open"
                                    ELSE IF p = "daemon" THEN "carrier" ELSE "running"]
          /\ chan' = [chan EXCEPT ![p] = @ + 1]
          /\ attempt' = [attempt EXCEPT ![p] = 1]
  BY DEF OpenOk
<1>service. /\ service' \in [Channel -> Service]
            /\ service'[chan[p]] = Ready
            /\ \A c \in Channel : service[c] = Ready => service'[c] = Ready
  BY <1>types DEF Service, Ready
<1>own. /\ pc' \in [Process -> DaemonPc] /\ pc'["ui"] \in UiPc
        /\ chan' \in [Process -> Channel \cup {AllOpen}]
        /\ attempt' \in [Process -> 1 .. OpenAttempts]
  BY <1>moved, <1>types DEF DaemonPc, UiPc, Channel, Process, AllOpen
<1>usable. ASSUME NEW q \in Process, NEW c \in Channel, chan'[q] > c PROVE service'[c] = Ready
  BY <1>usable, <1>moved, <1>types, <1>service DEF Usable, Channel, AllOpen
<1>located. ASSUME NEW q \in Process PROVE Located(q)'
  BY <1>moved, <1>types DEF Located, Opening, Past, Channel, AllOpen, Process
<1> QED
  BY <1>service, <1>own, <1>usable, <1>located DEF PlaceFacts, Usable

\* The link's own actions keep the watchdog's variables and the fault count.
LEMMA OpenPlace ==
  ASSUME PlaceInv, NEW p \in Process, Open(p)
  PROVE  PlaceInv'
<1>types. /\ pc \in [Process -> DaemonPc] /\ pc["ui"] \in UiPc
          /\ chan \in [Process -> Channel \cup {AllOpen}]
          /\ attempt \in [Process -> 1 .. OpenAttempts]
          /\ service \in [Channel -> Service]
          /\ \A q \in Process : Located(q) /\ Usable(q)
  BY DEF PlaceInv, BootTypeOK
<1>rest. UNCHANGED <<wdVars, faults>>
  BY DEF Open, OpenExisting, StartCreate, FinishCreate, FindUnfinished, FindCorrupt
<1>1. CASE OpenExisting(p)
  BY <1>1, <1>rest, OpenedPlace DEF PlaceFacts, OpenExisting, PlaceInv, BootTypeOK, wdVars
<1>2. CASE StartCreate(p)
  <2>1. chan[p] \in Channel
    BY <1>2, <1>types DEF StartCreate, Located, Opening
  <2>2. service' \in [Channel -> Service]
    BY <1>2, <2>1, <1>types DEF StartCreate, Creating, Service
  <2>3. \A c \in Channel : service[c] = Ready => service'[c] = Ready
    BY <1>2, <2>1, <1>types DEF StartCreate, Ready, Absent
  <2>4. pc' \in [Process -> DaemonPc] /\ pc'["ui"] \in UiPc
    BY <1>2, <1>types DEF StartCreate, DaemonPc, UiPc
  <2>5. \A q \in Process : Located(q)' /\ Usable(q)'
    BY <1>2, <2>1, <2>3, <1>types DEF StartCreate, Located, Usable, Opening, Past
  <2> QED
    BY <1>2, <2>2, <2>4, <2>5, <1>rest DEF StartCreate, PlaceInv, BootTypeOK, wdVars
<1>3. CASE FinishCreate(p)
  <2>1. CASE service' = [service EXCEPT ![chan[p]] = Ready] /\ OpenOk(p)
    BY <1>3, <2>1, <1>rest, OpenedPlace DEF PlaceFacts, FinishCreate, PlaceInv, BootTypeOK, wdVars
  <2>2. CASE OpenFailed(p, service, TRUE)
    BY <1>3, <2>2, <1>types, <1>rest, FailedPlace
       DEF PlaceFacts, FinishCreate, PlaceInv, BootTypeOK, wdVars
  <2> QED
    BY <1>3, <2>1, <2>2 DEF FinishCreate
<1>4. CASE FindUnfinished(p) \/ FindCorrupt(p)
  BY <1>4, <1>types, <1>rest, FailedPlace
     DEF PlaceFacts, FindUnfinished, FindCorrupt, PlaceInv, BootTypeOK, wdVars
<1> QED
  BY <1>1, <1>2, <1>3, <1>4 DEF Open

\* Faults of the link and of the processes.
LEMMA FaultPlace ==
  ASSUME PlaceInv,
         \/ \E p \in Process : Collide(p) \/ FailTransiently(p) \/ Kill(p)
         \/ NotArmed \/ ExitItem
  PROVE  PlaceInv'
<1>types. /\ service \in [Channel -> Service]
          /\ chan \in [Process -> Channel \cup {AllOpen}]
          /\ armed \in BOOLEAN /\ unfed \in Nat /\ unarmed \in 0 .. MaxFaults
          /\ faults \in 0 .. MaxFaults /\ unarmed <= faults
          /\ \A q \in Process : Located(q)
  BY DEF PlaceInv, BootTypeOK
<1>count. Fault => faults' \in 0 .. MaxFaults /\ faults' = faults + 1
  BY <1>types DEF Fault
<1>1. ASSUME NEW p \in Process, Collide(p) PROVE PlaceInv'
  <2> DEFINE sv == [service EXCEPT ![chan[p]].st = "corrupt"]
  <2>1. chan[p] \in Channel
    BY <1>1, <1>types DEF Collide, Located, Opening
  <2>2. sv \in [Channel -> Service]
    BY <2>1, <1>types DEF Service
  <2>3. \A c \in Channel : service[c] = Ready => sv[c] = Ready
    BY <1>1, <2>1, <1>types DEF Collide, Ready
  <2>4. OpenFailed(p, sv, TRUE) /\ pc[p] = "open" /\ UNCHANGED wdVars
    BY <1>1 DEF Collide
  <2>5. Fault
    BY <1>1 DEF Collide
  <2> HIDE DEF sv
  <2>6. TRUE \in BOOLEAN /\ pc[p] \in {"open", "creating"}
    BY <2>4
  <2>7. PlaceFacts'
    BY <2>2, <2>3, <2>4, <2>6, FailedPlace
  <2> QED
    BY <2>4, <2>5, <2>7, <1>types, <1>count DEF PlaceFacts, PlaceInv, BootTypeOK, wdVars
<1>2. ASSUME NEW p \in Process, FailTransiently(p) PROVE PlaceInv'
  <2>1. OpenFailed(p, service, FALSE) /\ pc[p] = "open" /\ UNCHANGED wdVars /\ Fault
    BY <1>2 DEF FailTransiently
  <2>2. FALSE \in BOOLEAN /\ pc[p] \in {"open", "creating"}
    BY <2>1
  <2>3. PlaceFacts'
    BY <2>1, <2>2, <1>types, FailedPlace
  <2> QED
    BY <2>1, <2>3, <1>types, <1>count DEF PlaceFacts, PlaceInv, BootTypeOK, wdVars
<1>3. ASSUME NEW p \in Process, Kill(p) PROVE PlaceInv'
  BY <1>3, <1>types, <1>count, DiePlace DEF PlaceFacts, Kill, PlaceInv, BootTypeOK, wdVars
<1>4. CASE ExitItem
  BY <1>4, <1>types, <1>count, DiePlace DEF PlaceFacts, ExitItem, PlaceInv, BootTypeOK, wdVars, Process
<1>5. CASE NotArmed
  BY <1>5, <1>types, <1>count, DiePlace DEF PlaceFacts, NotArmed, PlaceInv, BootTypeOK, Process
<1> QED
  BY <1>1, <1>2, <1>3, <1>4, <1>5

\* The steps that move one process past its own locals.
LEMMA WalkPlace ==
  ASSUME PlaceInv,
         \/ \E p \in Process : Spawn(p) \/ Sleep(p)
         \/ OpenWatchdog \/ FindCarrier \/ Register \/ Hang
  PROVE  PlaceInv'
<1>types. /\ pc \in [Process -> DaemonPc] /\ pc["ui"] \in UiPc
          /\ chan \in [Process -> Channel \cup {AllOpen}]
          /\ attempt \in [Process -> 1 .. OpenAttempts]
          /\ service \in [Channel -> Service]
          /\ armed \in BOOLEAN /\ unfed \in Nat /\ unarmed \in 0 .. MaxFaults
          /\ faults \in 0 .. MaxFaults /\ unarmed <= faults
          /\ \A q \in Process : Located(q) /\ Usable(q)
  BY DEF PlaceInv, BootTypeOK
<1>1. ASSUME NEW p \in Process, Spawn(p) PROVE PlaceInv'
  BY <1>1, <1>types DEF Spawn, PlaceInv, BootTypeOK, Located, Usable, Opening, Past, DaemonPc,
                        UiPc, Channel, Process
<1>2. ASSUME NEW p \in Process, Sleep(p) PROVE PlaceInv'
  <2>1. Backoff(attempt[p]) \in Nat
    BY <1>types DEF Backoff
  <2>2. attempt' \in [Process -> 1 .. OpenAttempts]
    BY <1>2, <1>types DEF Sleep, Located
  <2> QED
    BY <1>2, <2>1, <2>2, <1>types DEF Sleep, PlaceInv, BootTypeOK, Located, Usable, Opening,
                                      Past, DaemonPc, UiPc, Process
<1>3. CASE OpenWatchdog
  BY <1>3, <1>types DEF OpenWatchdog, PlaceInv, BootTypeOK, Located, Usable, Opening, Past,
                        DaemonPc, UiPc, Channel, Process
<1>4. CASE FindCarrier \/ Register
  BY <1>4, <1>types DEF FindCarrier, Register, DaemonMoves, PlaceInv, BootTypeOK, Located,
                        Usable, Opening, Past, DaemonPc, UiPc, Process, wdVars
<1>5. CASE Hang
  BY <1>5, <1>types DEF Hang, Fault, DaemonMoves, PlaceInv, BootTypeOK, Located, Usable,
                        Opening, Past, DaemonPc, UiPc, Process, wdVars
<1> QED
  BY <1>1, <1>2, <1>3, <1>4, <1>5

\* What power-on leaves.
LEMMA PowerOnPlace == PoweredOn => PlaceFacts
<1>1. PoweredOn => /\ pc \in [Process -> DaemonPc] /\ pc["ui"] \in UiPc
                   /\ chan \in [Process -> Channel \cup {AllOpen}]
                   /\ attempt \in [Process -> 1 .. OpenAttempts]
  BY DEF PoweredOn, DaemonPc, UiPc, Channel, Process
<1>2. PoweredOn => service \in [Channel -> Service]
  BY DEF PoweredOn, Service, Absent
<1>3. ASSUME NEW q \in Process, PoweredOn PROVE Located(q) /\ Usable(q)
  BY <1>3 DEF PoweredOn, Located, Usable, Opening, Past, Channel
<1> QED
  BY <1>1, <1>2, <1>3 DEF PlaceFacts

\* The steps that only run the clock, and the reset.
LEMMA ClockPlace ==
  ASSUME PlaceInv, PollCarrier \/ Pet \/ HungTime \/ BoardReset \/ UNCHANGED bvars
  PROVE  PlaceInv'
<1>1. CASE PollCarrier \/ Pet \/ HungTime \/ UNCHANGED bvars
  BY <1>1 DEF PollCarrier, Pet, HungTime, bvars, procVars, wdVars, PlaceInv, BootTypeOK,
              Located, Usable
<1>2. CASE BoardReset
  <2>1. PoweredOn'
    BY <1>2 DEF BoardReset, PoweredOn
  <2>2. PlaceFacts'
    BY <2>1, PowerOnPlace, PTL
  <2>3. unfed' \in Nat /\ unarmed' \in 0 .. MaxFaults /\ faults' \in 0 .. MaxFaults
        /\ unarmed' <= faults'
    BY <1>2 DEF BoardReset, PlaceInv, BootTypeOK
  <2>4. armed' \in BOOLEAN
    BY <1>2 DEF BoardReset
  <2> QED
    BY <2>2, <2>3, <2>4 DEF PlaceFacts, PlaceInv, BootTypeOK
<1> QED
  BY <1>1, <1>2

LEMMA PlaceInvariant == Spec => []PlaceInv
<1>start. Init => PlaceInv
  <2>1. Init => /\ unfed \in Nat /\ unarmed \in 0 .. MaxFaults
                /\ faults \in 0 .. MaxFaults /\ unarmed <= faults
    BY DEF Init
  <2>2. Init => armed \in BOOLEAN /\ PlaceFacts
    BY PowerOnPlace DEF Init
  <2> QED
    BY <2>1, <2>2 DEF PlaceFacts, PlaceInv, BootTypeOK
<1>step. PlaceInv /\ [Next]_bvars => PlaceInv'
  BY OpenPlace, FaultPlace, WalkPlace, ClockPlace DEF Next
<1> QED
  BY <1>start, <1>step, PTL DEF Spec

\* Every variable of the boot keeps its type: no attempt beyond OpenAttempts
\* and no process in a place its program does not have.
THEOREM BootTypeCorrect == Spec => []BootTypeOK
<1>part. PlaceInv => BootTypeOK
  BY DEF PlaceInv
<1> QED
  BY <1>part, PlaceInvariant, PTL

\* A process past the link has both channels, and what a process has opened
\* stays usable, for any number of faults (ISSUE_0011).
THEOREM LinkedIsNotDeaf == Spec => []NeverDeaf
<1>part. PlaceInv => NeverDeaf
  BY DEF PlaceInv, NeverDeaf, Located, Usable, Past
<1> QED
  BY <1>part, PlaceInvariant, PTL

-----------------------------------------------------------------------------
(***************************************************************************)
(* How long the watchdog can have gone without a pet, by the daemon's      *)
(* place.                                                                  *)
(***************************************************************************)

Budget(place, channel, tries) ==
  IF place \in Opening
  THEN (IF channel = 1 THEN 0 ELSE Slept(OpenAttempts)) + Slept(tries)
  ELSE IF place \in {"carrier", "register"} THEN LinkTime + PollSleep
  ELSE IF place \in {"running", "down"} THEN LinkTime + PollSleep + RegisterTime
  ELSE LinkTime + PollSleep + RegisterTime + RestartSec

FedInv ==
  unarmed = 0 /\ pc["daemon"] # "hung"
    => unfed <= Budget(pc["daemon"], chan["daemon"], attempt["daemon"])

LEMMA BudgetNumbers ==
  ASSUME NEW tries \in 1 .. OpenAttempts
  PROVE  /\ Slept(OpenAttempts) \in Nat
         /\ Slept(tries) \in Nat /\ Slept(tries) <= Slept(OpenAttempts)
         /\ Slept(1) = 0
         /\ LinkTime = 2 * Slept(OpenAttempts)
<1>1. OpenAttempts \in 1 .. OpenAttempts
  OBVIOUS
<1>2. Slept(1) = 0
  BY DEF Slept
<1> QED
  BY <1>1, <1>2, SleptMonotone DEF LinkTime

\* Where one step of retry_open can take a process.
LEMMA RetryOutcome ==
  ASSUME PlaceInv, NEW p \in Process,
         Open(p) \/ Collide(p) \/ FailTransiently(p)
  PROVE  /\ UNCHANGED wdVars
         /\ pc[p] \in {"open", "creating"}
         /\ \E place \in DaemonPc, channel \in Channel \cup {AllOpen}, tries \in {1, attempt[p]} :
              /\ pc' = [pc EXCEPT ![p] = place]
              /\ chan' = [chan EXCEPT ![p] = channel]
              /\ attempt' = [attempt EXCEPT ![p] = tries]
              /\ place \in Opening => channel \in Channel /\ channel >= chan[p]
              /\ place \in Opening /\ channel = chan[p] => tries = attempt[p]
              /\ p = "daemon" => place \in Opening \cup {"carrier", "down"}
<1>types. /\ pc \in [Process -> DaemonPc]
          /\ chan \in [Process -> Channel \cup {AllOpen}]
          /\ attempt \in [Process -> 1 .. OpenAttempts]
          /\ Located(p)
  BY DEF PlaceInv, BootTypeOK
<1>at. UNCHANGED wdVars /\ pc[p] \in {"open", "creating"}
  BY DEF Open, OpenExisting, StartCreate, FinishCreate, FindUnfinished, FindCorrupt, Collide,
         FailTransiently
<1>channel. chan[p] \in Channel
  BY <1>types, <1>at DEF Located, Opening
<1>ways. \/ OpenOk(p)
         \/ pc' = [pc EXCEPT ![p] = "creating"] /\ UNCHANGED <<chan, attempt>>
         \/ \E sv, corrupted : OpenFailed(p, sv, corrupted)
  BY DEF Open, OpenExisting, StartCreate, FinishCreate, FindUnfinished, FindCorrupt, Collide,
         FailTransiently
<1>1. CASE OpenOk(p)
  <2> DEFINE place == IF chan[p] < 2 THEN "open" ELSE IF p = "daemon" THEN "carrier" ELSE "running"
  <2>1. /\ place \in DaemonPc /\ chan[p] + 1 \in Channel \cup {AllOpen}
        /\ place \in Opening => chan[p] + 1 \in Channel /\ chan[p] + 1 >= chan[p]
        /\ ~(chan[p] + 1 = chan[p])
        /\ p = "daemon" => place \in Opening \cup {"carrier", "down"}
    BY <1>channel DEF Channel, AllOpen, DaemonPc, Opening
  <2>2. /\ pc' = [pc EXCEPT ![p] = place]
        /\ chan' = [chan EXCEPT ![p] = chan[p] + 1]
        /\ attempt' = [attempt EXCEPT ![p] = 1]
    BY <1>1 DEF OpenOk
  <2> HIDE DEF place
  <2> QED
    BY <2>1, <2>2, <1>at
<1>stay. ASSUME NEW place \in {"creating", "backoff"}, pc' = [pc EXCEPT ![p] = place],
                UNCHANGED <<chan, attempt>>
         PROVE  /\ place \in DaemonPc /\ chan[p] \in Channel \cup {AllOpen}
                /\ chan' = [chan EXCEPT ![p] = chan[p]]
                /\ attempt' = [attempt EXCEPT ![p] = attempt[p]]
                /\ chan[p] \in Channel /\ chan[p] >= chan[p]
                /\ place \in Opening
  BY <1>stay, <1>channel, <1>types DEF DaemonPc, Opening, Channel
<1>2. CASE pc' = [pc EXCEPT ![p] = "creating"] /\ UNCHANGED <<chan, attempt>>
  BY <1>2, <1>stay, <1>at
<1>3. ASSUME NEW sv, NEW corrupted, OpenFailed(p, sv, corrupted)
      PROVE  \/ /\ pc' = [pc EXCEPT ![p] = "down"]
                /\ chan' = [chan EXCEPT ![p] = 1]
                /\ attempt' = [attempt EXCEPT ![p] = 1]
             \/ pc' = [pc EXCEPT ![p] = "backoff"] /\ UNCHANGED <<chan, attempt>>
  BY <1>3 DEF OpenFailed, GiveUp
<1>4. CASE pc' = [pc EXCEPT ![p] = "backoff"] /\ UNCHANGED <<chan, attempt>>
  BY <1>4, <1>stay, <1>at
<1>5. CASE /\ pc' = [pc EXCEPT ![p] = "down"]
           /\ chan' = [chan EXCEPT ![p] = 1]
           /\ attempt' = [attempt EXCEPT ![p] = 1]
  <2>1. "down" \in DaemonPc /\ 1 \in Channel \cup {AllOpen} /\ "down" \notin Opening
    BY DEF DaemonPc, Channel, Opening
  <2> QED
    BY <1>5, <2>1, <1>at
<1> QED
  BY <1>ways, <1>1, <1>2, <1>3, <1>4, <1>5

\* Opening the link uses at most the sleeps of its two channels.
LEMMA RetryFed ==
  ASSUME PlaceInv, FedInv, NEW p \in Process,
         Open(p) \/ Collide(p) \/ FailTransiently(p)
  PROVE  FedInv'
<1>types. /\ pc \in [Process -> DaemonPc]
          /\ chan \in [Process -> Channel \cup {AllOpen}]
          /\ attempt \in [Process -> 1 .. OpenAttempts]
          /\ unfed \in Nat
          /\ Located(p)
  BY DEF PlaceInv, BootTypeOK
<1>moved. PICK place \in DaemonPc, channel \in Channel \cup {AllOpen}, tries \in {1, attempt[p]} :
            /\ pc' = [pc EXCEPT ![p] = place]
            /\ chan' = [chan EXCEPT ![p] = channel]
            /\ attempt' = [attempt EXCEPT ![p] = tries]
            /\ place \in Opening => channel \in Channel /\ channel >= chan[p]
            /\ place \in Opening /\ channel = chan[p] => tries = attempt[p]
            /\ p = "daemon" => place \in Opening \cup {"carrier", "down"}
  BY RetryOutcome
<1>same. unfed' = unfed /\ unarmed' = unarmed /\ pc[p] \in {"open", "creating"}
  BY RetryOutcome DEF wdVars
<1>1. CASE p # "daemon"
  BY <1>1, <1>moved, <1>same, <1>types DEF FedInv, Process
<1>2. CASE p = "daemon"
  <2>at. chan[p] \in Channel
    BY <1>same, <1>types DEF Located, Opening
  <2>old. unarmed = 0 => unfed <= (IF chan[p] = 1 THEN 0 ELSE Slept(OpenAttempts)) + Slept(attempt[p])
    BY <1>2, <1>same DEF FedInv, Budget, Opening
  <2>numbers. /\ Slept(OpenAttempts) \in Nat
              /\ Slept(attempt[p]) \in Nat /\ Slept(attempt[p]) <= Slept(OpenAttempts)
              /\ Slept(1) = 0
              /\ LinkTime = 2 * Slept(OpenAttempts)
    BY <1>types, BudgetNumbers
  <2>new. pc'["daemon"] = place /\ chan'["daemon"] = channel /\ attempt'["daemon"] = tries
    BY <1>2, <1>moved, <1>types
  <2>1. CASE place \in Opening /\ channel = chan[p]
    BY <2>1, <2>old, <2>new, <1>moved, <1>same DEF FedInv, Budget
  <2>2. CASE place \in Opening /\ channel > chan[p]
    <3>1. channel = 2 /\ chan[p] = 1
      BY <2>2, <2>at, <1>moved DEF Channel
    <3>2. Slept(tries) \in Nat
      BY <2>numbers, <1>moved
    <3>3. unarmed = 0 => unfed <= Slept(OpenAttempts) + Slept(tries)
      BY <3>1, <3>2, <2>old, <2>numbers, <1>types
    <3> QED
      BY <3>1, <3>3, <2>2, <2>new, <1>same DEF FedInv, Budget
  <2>3. CASE place \in {"carrier", "down"}
    BY <2>3, <2>old, <2>new, <2>numbers, <1>same, <1>types DEF FedInv, Budget, Opening
  <2> QED
    BY <1>2, <1>moved, <2>1, <2>2, <2>3, <2>at, <1>types DEF Channel, AllOpen
<1> QED
  BY <1>1, <1>2

\* Between an exit and the next start, and on the way to the loop.
LEMMA WalkFed ==
  ASSUME PlaceInv, FedInv,
         \/ \E p \in Process : Spawn(p) \/ Sleep(p) \/ Kill(p)
         \/ OpenWatchdog \/ NotArmed \/ ExitItem
         \/ FindCarrier \/ Register \/ Hang
  PROVE  FedInv'
<1>types. /\ pc \in [Process -> DaemonPc]
          /\ chan \in [Process -> Channel \cup {AllOpen}]
          /\ attempt \in [Process -> 1 .. OpenAttempts]
          /\ unfed \in Nat /\ unarmed \in Nat
          /\ Located("daemon")
  BY DEF PlaceInv, BootTypeOK, Process
<1>numbers. /\ Slept(OpenAttempts) \in Nat
            /\ Slept(attempt["daemon"]) \in Nat
            /\ Slept(attempt["daemon"]) <= Slept(OpenAttempts)
            /\ Slept(1) = 0
            /\ LinkTime = 2 * Slept(OpenAttempts)
  BY <1>types, BudgetNumbers DEF Process
<1>bound. unarmed = 0 /\ pc["daemon"] \notin {"arm", "hung"}
          => unfed <= LinkTime + PollSleep + RegisterTime
  BY <1>types, <1>numbers DEF FedInv, Budget, Opening, DaemonPc, Process
<1>ui. ASSUME UNCHANGED <<pc["daemon"], chan["daemon"], attempt["daemon"], unfed, unarmed>>
       PROVE  FedInv'
  BY <1>ui DEF FedInv
<1>ended. ASSUME Die("daemon"), UNCHANGED <<unfed, unarmed>>,
                 pc["daemon"] \notin {"arm", "hung"}
          PROVE  FedInv'
  <2>1. pc'["daemon"] = "down"
    BY <1>ended, <1>types DEF Die, Process
  <2> QED
    BY <2>1, <1>ended, <1>bound DEF FedInv, Budget, Opening
<1>1. ASSUME NEW p \in Process, Spawn(p) PROVE FedInv'
  <2>1. CASE p = "ui"
    BY <2>1, <1>1, <1>ui, <1>types DEF Spawn, Process
  <2>2. CASE p = "daemon"
    <3>1. pc["daemon"] = "down" /\ pc'["daemon"] = "arm" /\ unarmed' = unarmed
      BY <2>2, <1>1, <1>types DEF Spawn
    <3>2. unfed' <= unfed + RestartSec
      BY <1>1, <1>types DEF Spawn
    <3>3. unfed' \in Nat
      BY <1>1, <1>types DEF Spawn
    <3>4. unarmed = 0 => unfed' <= LinkTime + PollSleep + RegisterTime + RestartSec
      BY <3>1, <3>2, <3>3, <1>bound, <1>types, <1>numbers
    <3> QED
      BY <3>1, <3>4 DEF FedInv, Budget, Opening
  <2> QED
    BY <2>1, <2>2 DEF Process
<1>2. ASSUME NEW p \in Process, Sleep(p) PROVE FedInv'
  <2>1. CASE p = "ui"
    BY <2>1, <1>2, <1>ui, <1>types DEF Sleep, Process
  <2>2. CASE p = "daemon"
    <3> DEFINE a == attempt["daemon"]
    <3>1. /\ pc["daemon"] = "backoff" /\ pc'["daemon"] = "open" /\ unarmed' = unarmed
          /\ chan'["daemon"] = chan["daemon"] /\ attempt'["daemon"] = a + 1
          /\ unfed' = unfed + Backoff(a)
      BY <2>2, <1>2, <1>types DEF Sleep
    <3>2. a \in Nat \ {0}
      BY <1>types DEF Process
    <3> HIDE DEF a
    <3>3. Backoff(a) \in Nat /\ Backoff(a) <= a
      BY <3>2 DEF Backoff
    <3>4. Slept(a) \in Nat /\ Slept(a + 1) = Slept(a) + a
      BY <3>2, SleptStep
    <3>5. unarmed = 0
          => unfed <= (IF chan["daemon"] = 1 THEN 0 ELSE Slept(OpenAttempts)) + Slept(a)
      BY <3>1 DEF FedInv, Budget, Opening, a
    <3>6. unarmed = 0
          => unfed' <= (IF chan["daemon"] = 1 THEN 0 ELSE Slept(OpenAttempts)) + Slept(a + 1)
      BY <3>1, <3>2, <3>3, <3>4, <3>5, <1>types, <1>numbers
    <3> QED
      BY <3>1, <3>6 DEF FedInv, Budget, Opening
  <2> QED
    BY <2>1, <2>2 DEF Process
<1>3. ASSUME NEW p \in Process, Kill(p) PROVE FedInv'
  <2>1. CASE p = "ui"
    BY <2>1, <1>3, <1>ui, <1>types DEF Kill, Die, wdVars, Process
  <2>2. CASE p = "daemon"
    BY <2>2, <1>3, <1>ended DEF Kill, wdVars
  <2> QED
    BY <2>1, <2>2 DEF Process
<1>4. CASE OpenWatchdog
  <2>1. pc'["daemon"] = "open" /\ attempt'["daemon"] = 1 /\ unfed' = 0
    BY <1>4, <1>types DEF OpenWatchdog, Located, Process
  <2> QED
    BY <2>1, <1>numbers DEF FedInv, Budget, Opening
<1>5. CASE NotArmed
  BY <1>5, <1>types DEF NotArmed, FedInv
<1>6. CASE ExitItem
  BY <1>6, <1>ended DEF ExitItem, wdVars
<1>7. CASE FindCarrier
  <2>1. pc["daemon"] = "carrier" /\ pc'["daemon"] = "register" /\ UNCHANGED <<unfed, unarmed>>
    BY <1>7, <1>types DEF FindCarrier, DaemonMoves, wdVars, Process
  <2> QED
    BY <2>1 DEF FedInv, Budget, Opening
<1>8. CASE Register
  <2>1. /\ pc["daemon"] = "register" /\ pc'["daemon"] = "running"
        /\ unfed' = unfed + RegisterTime /\ unarmed' = unarmed
    BY <1>8, <1>types DEF Register, DaemonMoves, Process
  <2>2. unarmed = 0 => unfed <= LinkTime + PollSleep
    BY <2>1 DEF FedInv, Budget, Opening
  <2>3. unarmed = 0 => unfed' <= LinkTime + PollSleep + RegisterTime
    BY <2>1, <2>2, <1>types, <1>numbers
  <2> QED
    BY <2>1, <2>3 DEF FedInv, Budget, Opening
<1>9. CASE Hang
  BY <1>9, <1>types DEF Hang, DaemonMoves, FedInv, Process
<1> QED
  BY <1>1, <1>2, <1>3, <1>4, <1>5, <1>6, <1>7, <1>8, <1>9

\* Pets, and steps that leave the daemon alone.
LEMMA ClockFed ==
  ASSUME PlaceInv, FedInv,
         PollCarrier \/ Pet \/ HungTime \/ BoardReset \/ UNCHANGED bvars
  PROVE  FedInv'
<1>numbers. Slept(OpenAttempts) \in Nat /\ LinkTime = 2 * Slept(OpenAttempts)
  <2>1. 1 \in 1 .. OpenAttempts
    OBVIOUS
  <2> QED
    BY <2>1, BudgetNumbers
<1>1. CASE PollCarrier
  BY <1>1, <1>numbers DEF PollCarrier, procVars, FedInv, Budget, Opening
<1>2. CASE Pet
  BY <1>2, <1>numbers DEF Pet, procVars, FedInv, Budget, Opening
<1>3. CASE HungTime
  BY <1>3 DEF HungTime, procVars, FedInv
<1>4. CASE BoardReset
  <2>1. pc'["daemon"] = "down" /\ unfed' = 0
    BY <1>4 DEF BoardReset, Process
  <2> QED
    BY <2>1, <1>numbers DEF FedInv, Budget, Opening
<1>5. CASE UNCHANGED bvars
  BY <1>5 DEF bvars, procVars, wdVars, FedInv
<1> QED
  BY <1>1, <1>2, <1>3, <1>4, <1>5

\* The watchdog never resets a daemon that only waits, retries or restarts, for
\* all sleeps, attempts and restart times whose sum stays under its timeout, and
\* whatever fails in between (build_net_wd, retry_open, wait_for_carrier).
THEOREM WatchdogFed == Spec => []WatchdogStaysFed
<1>start. Init => FedInv
  <2>1. 1 \in 1 .. OpenAttempts
    OBVIOUS
  <2>2. Init => pc["daemon"] = "down" /\ unfed = 0
    BY DEF Init, PoweredOn, Process
  <2> QED
    BY <2>1, <2>2, BudgetNumbers DEF FedInv, Budget, Opening
<1>step. PlaceInv /\ FedInv /\ [Next]_bvars => FedInv'
  BY RetryFed, WalkFed, ClockFed DEF Next
<1>enough. PlaceInv /\ FedInv => WatchdogStaysFed
  <2> SUFFICES ASSUME PlaceInv, FedInv, unarmed = 0, pc["daemon"] # "hung"
               PROVE  ~(unfed >= WdTimeout)
    BY DEF WatchdogStaysFed, PlaceInv, BootTypeOK
  <2>types. /\ pc["daemon"] \in DaemonPc /\ attempt["daemon"] \in 1 .. OpenAttempts
            /\ unfed \in Nat
    BY DEF PlaceInv, BootTypeOK, Process
  <2>numbers. /\ Slept(OpenAttempts) \in Nat
              /\ Slept(attempt["daemon"]) \in Nat
              /\ Slept(attempt["daemon"]) <= Slept(OpenAttempts)
              /\ LinkTime = 2 * Slept(OpenAttempts)
    BY <2>types, BudgetNumbers
  <2>bound. unfed <= LinkTime + PollSleep + RegisterTime + RestartSec
    BY <2>types, <2>numbers DEF FedInv, Budget, Opening
  <2> QED
    BY <2>types, <2>numbers, <2>bound
<1> QED
  BY <1>start, <1>step, <1>enough, PlaceInvariant, PTL DEF Spec
=============================================================================
