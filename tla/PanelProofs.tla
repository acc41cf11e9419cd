----------------------------- MODULE PanelProofs ----------------------------
(***************************************************************************)
(* The operator panel, for every PIN and number base: its variables keep   *)
(* their types, what it sends is gated by the PIN, by the keys and by the  *)
(* mode, and it implements the panel that System composes with the daemon. *)
(***************************************************************************)
EXTENDS Panel, TLAPS

USE PanelAssumption

\* The PIN is not what service.reset() leaves.
LEMMA PinNotZero == ServicePin # PinZero
  BY DEF PinZero

\* next_nav never opens Service or the IO test screen, and Ethernet mode has a
\* screen of its own.
LEMMA NextNavOpens ==
  ASSUME NEW current, NEW m
  PROVE  /\ NextNav(current, m) \in {"Service", "IoTest"} => NextNav(current, m) = current
         /\ m = "Ethernet" => NextNav(current, m) = "Ethernet"
         /\ m \in Mode /\ current \in Nav => NextNav(current, m) \in Nav
  BY DEF NextNav, Nav, Mode

-----------------------------------------------------------------------------
(***************************************************************************)
(* What the panel may send.                                                *)
(***************************************************************************)

\* Service is unlocked, and the IO test screen open, only after dialling: a
\* Service screen on which no digit was turned still shows the reset PIN.  On
\* the IO test screen a key is held only while it is down, and within a frame
\* Ethernet mode shows no screen but its own.
GateInv ==
  /\ nav = "Service" /\ ~dialled => pin = PinZero
  /\ nav = "IoTest" => dialled /\ held \subseteq down
  /\ pc = "events" /\ mode = "Ethernet" => nav = "Ethernet"

\* What a command that was just sent owes to the screen it was sent from.
SentOk == PinGated /\ StreamsOnlyHeldKeys /\ EthernetSendsOnlyReturn

\* A step that sends nothing, or stops with the command of the last one.
LEMMA QuietIsOk == sent' = NoCommand => SentOk'
  BY DEF SentOk, PinGated, StreamsOnlyHeldKeys, EthernetSendsOnlyReturn, NoCommand

\* The keys that send commands: on the main and Ethernet screens without the
\* PIN, on Service only with it.
LEMMA SendingKeys ==
  ASSUME GateInv, NEW b,
         \/ PressInMain(b) \/ PressInEthernet(b) \/ PressResetTotal(b) \/ PressEthernet(b)
  PROVE  GateInv' /\ SentOk'
<1> USE DEF GateInv, SentOk, PinGated, StreamsOnlyHeldKeys, EthernetSendsOnlyReturn, Pressed,
            NoCommand, Plain, serviceVars
<1>main. CASE PressInMain(b)
  BY <1>main DEF PressInMain, OpenService, MainCommand, Adjust
<1>ethernet. CASE PressInEthernet(b)
  BY <1>ethernet DEF PressInEthernet
<1>service. CASE PressResetTotal(b) \/ PressEthernet(b)
  BY <1>service, PinNotZero DEF PressResetTotal, PressEthernet, Unlocked
<1> QED
  BY <1>main, <1>ethernet, <1>service

\* The keys that change the screen or the PIN, and those that do nothing.
LEMMA QuietKeys ==
  ASSUME GateInv, NEW b,
         \/ PressInIoTest(b) \/ PressInFault(b) \/ DialPin(b) \/ PressIoTest(b)
         \/ PressBack(b) \/ PressNothing(b) \/ PressLanguage(b) \/ Release(b)
  PROVE  GateInv' /\ SentOk'
<1> USE DEF GateInv, Pressed, serviceVars
<1>silent. SentOk'
  BY QuietIsOk DEF PressInIoTest, PressInFault, DialPin, PressIoTest, PressBack, PressNothing,
                   PressLanguage, Release
<1>iotest. CASE PressInIoTest(b) \/ Release(b)
  BY <1>silent, <1>iotest DEF PressInIoTest, Release
<1>opens. CASE PressInFault(b) \/ PressIoTest(b)
  BY <1>silent, <1>opens, PinNotZero DEF PressInFault, OpenService, PressIoTest, Unlocked
<1>dials. CASE DialPin(b)
  BY <1>silent, <1>dials DEF DialPin
<1>stays. CASE PressBack(b) \/ PressNothing(b) \/ PressLanguage(b)
  BY <1>silent, <1>stays DEF PressBack, PressNothing, PressLanguage
<1> QED
  BY <1>silent, <1>iotest, <1>opens, <1>dials, <1>stays

\* The rest of a frame, and a new process.
LEMMA FrameSteps ==
  ASSUME GateInv,
         (\E m \in Mode : StartFrame(m)) \/ EndFrame \/ Restart \/ PowerCycle
  PROVE  GateInv' /\ SentOk'
<1>begins. ASSUME NEW m \in Mode, StartFrame(m) PROVE GateInv' /\ SentOk'
  BY <1>begins, NextNavOpens, QuietIsOk DEF StartFrame, GateInv, serviceVars
<1>ends. CASE EndFrame
  BY <1>ends DEF EndFrame, GateInv, SentOk, PinGated, StreamsOnlyHeldKeys,
                 EthernetSendsOnlyReturn, NoCommand, serviceVars
<1>starts. CASE Restart \/ PowerCycle
  BY <1>starts, QuietIsOk DEF Restart, PowerCycle, Start, GateInv
<1> QED
  BY <1>begins, <1>ends, <1>starts

\* Every step of the panel keeps the gates and sends what they let through.
LEMMA SendsOnlyGated == Spec => []SentOk
<1> DEFINE Gated == GateInv /\ SentOk
<1>first. Init => Gated
  BY DEF Init, GateInv, SentOk, PinGated, StreamsOnlyHeldKeys, EthernetSendsOnlyReturn, NoCommand
<1>moves. Gated /\ [Next]_vars => Gated'
  <2> SUFFICES ASSUME Gated, [Next]_vars PROVE Gated'
    OBVIOUS
  <2>key. ASSUME NEW b, Press(b) \/ Release(b) PROVE Gated'
    BY <2>key, SendingKeys, QuietKeys DEF Press, PressKey
  <2>still. UNCHANGED vars => Gated'
    BY DEF vars, serviceVars, GateInv, SentOk, PinGated, StreamsOnlyHeldKeys,
           EthernetSendsOnlyReturn
  <2> QED
    BY <2>key, <2>still, FrameSteps DEF Next
<1> QED
  BY <1>first, <1>moves, PTL DEF Spec

\* PinGated for every PIN: what needs the PIN is sent only after dialling on a
\* Service screen opened since (the service.reset() calls of the frame loop).
THEOREM PinAlwaysGated == Spec => []PinGated
  BY SendsOnlyGated, PTL DEF SentOk

\* StreamsOnlyHeldKeys for every PIN: the panel never streams a key that is not
\* down, whatever screen ignored its release (REQ_0018).
THEOREM NoStaleKeys == Spec => []StreamsOnlyHeldKeys
  BY SendsOnlyGated, PTL DEF SentOk

\* EthernetSendsOnlyReturn for every PIN: no screen keeps its keys once the
\* panel has seen Ethernet mode (next_nav and the Ethernet screen).
THEOREM OnlyReturnInEthernet == Spec => []EthernetSendsOnlyReturn
  BY SendsOnlyGated, PTL DEF SentOk

-----------------------------------------------------------------------------
(***************************************************************************)
(* Types.                                                                  *)
(***************************************************************************)

\* The PIN's digits and cursor, by the keys that move them.
LEMMA ServiceType ==
  /\ PinZero \in [DOMAIN ServicePin -> 0 .. Base - 1]
  /\ 1 \in DOMAIN ServicePin
  /\ \A d \in 0 .. Base - 1 : \A n \in 0 .. Base - 1 : StepDigit(d, n) \in 0 .. Base - 1
<1>zero. PinZero \in [DOMAIN ServicePin -> 0 .. Base - 1]
  BY DEF PinZero
<1>one. 1 \in DOMAIN ServicePin
  OBVIOUS
<1>digit. \A d \in 0 .. Base - 1 : \A n \in 0 .. Base - 1 : StepDigit(d, n) \in 0 .. Base - 1
  BY DEF StepDigit
<1> QED
  BY <1>zero, <1>one, <1>digit

\* The parts of the type invariant, by the variables the steps change together.
ScreenTypeOK == /\ pc \in {"sleep", "events"} /\ nav \in Nav /\ mode \in Mode
PinTypeOK ==
  /\ pin \in [DOMAIN ServicePin -> 0 .. Base - 1]
  /\ cursor \in DOMAIN ServicePin
FlagTypeOK == ethernet_selected \in BOOLEAN /\ dialled \in BOOLEAN
KeyTypeOK == held \subseteq OutputKeys /\ down \subseteq OutputKeys
SentTypeOK == sent \in Command \cup {NoCommand}
LangTypeOK ==
  /\ lang \in Lang
  /\ primary \in File /\ fallback \in File
  /\ kept \in {"default", "primary", "fallback", "memory"}

LEMMA TypeParts ==
  TypeOK <=> /\ ScreenTypeOK /\ PinTypeOK /\ FlagTypeOK /\ KeyTypeOK
             /\ SentTypeOK /\ LangTypeOK
  BY DEF TypeOK, ScreenTypeOK, PinTypeOK, FlagTypeOK, KeyTypeOK, SentTypeOK, LangTypeOK

\* What a key can send.
LEMMA KeyCommands ==
  /\ \A k \in {"Wrap", "ToggleKnife", "ResetSession", "ResetTotal", "EnterEthernet",
              "ReturnToEthercat"} : Plain(k) \in PlainCommand
  /\ Adjust(1) \in AdjustCommand /\ Adjust(-1) \in AdjustCommand
  /\ \A b : MainCommand(b) \in {Plain("Wrap"), Plain("ToggleKnife"), Plain("ResetSession"),
                                Adjust(1), Adjust(-1), NoCommand}
<1>plain. \A k \in {"Wrap", "ToggleKnife", "ResetSession", "ResetTotal", "EnterEthernet",
                   "ReturnToEthercat"} : Plain(k) \in PlainCommand
  BY DEF Plain, PlainCommand
<1>adjust. Adjust(1) \in AdjustCommand /\ Adjust(-1) \in AdjustCommand
  BY DEF Adjust, AdjustCommand
<1>main. \A b : MainCommand(b) \in {Plain("Wrap"), Plain("ToggleKnife"), Plain("ResetSession"),
                                   Adjust(1), Adjust(-1), NoCommand}
  BY DEF MainCommand
<1> QED
  BY <1>plain, <1>adjust, <1>main

\* A press on a screen other than Service.
LEMMA ScreenKeyType ==
  ASSUME TypeOK, NEW b,
         PressInIoTest(b) \/ PressInMain(b) \/ PressInFault(b) \/ PressInEthernet(b)
  PROVE  /\ ScreenTypeOK' /\ PinTypeOK' /\ FlagTypeOK' /\ KeyTypeOK' /\ SentTypeOK'
<1> USE DEF PressInIoTest, PressInMain, PressInFault, PressInEthernet, OpenService, Pressed,
            serviceVars
<1>screen. ScreenTypeOK'
  BY DEF TypeOK, ScreenTypeOK, Nav
<1>pin. PinTypeOK'
  BY ServiceType DEF TypeOK, PinTypeOK
<1>flags. FlagTypeOK'
  BY DEF TypeOK, FlagTypeOK
<1>keys. KeyTypeOK'
  BY DEF TypeOK, KeyTypeOK
<1>sent. SentTypeOK'
  BY KeyCommands DEF SentTypeOK, Command
<1> QED
  BY <1>screen, <1>pin, <1>flags, <1>keys, <1>sent

\* A press on Service.
LEMMA ServiceKeyType ==
  ASSUME TypeOK, NEW b,
         \/ DialPin(b) \/ PressResetTotal(b) \/ PressEthernet(b) \/ PressIoTest(b)
         \/ PressBack(b) \/ PressNothing(b) \/ PressLanguage(b)
  PROVE  /\ ScreenTypeOK' /\ PinTypeOK' /\ FlagTypeOK' /\ KeyTypeOK' /\ SentTypeOK'
<1> USE DEF PressResetTotal, PressEthernet, PressIoTest, PressBack, PressNothing, PressLanguage,
            Pressed, serviceVars
<1>screen. ScreenTypeOK'
  BY DEF TypeOK, ScreenTypeOK, Nav, DialPin
<1>pin. PinTypeOK'
  <2>dial. CASE DialPin(b)
    <3> pin \in [DOMAIN ServicePin -> 0 .. Base - 1] /\ cursor \in 1 .. Len(ServicePin)
      BY DEF TypeOK
    <3>turn. ASSUME NEW n \in 0 .. Base - 1,
                    pin' = [pin EXCEPT ![cursor] = StepDigit(@, n)], UNCHANGED cursor
             PROVE  PinTypeOK'
      <4>place. cursor \in DOMAIN ServicePin /\ pin[cursor] \in 0 .. Base - 1
        BY DEF TypeOK
      <4>digit. StepDigit(pin[cursor], n) \in 0 .. Base - 1
        BY <4>place, ServiceType
      <4> QED
        BY <3>turn, <4>place, <4>digit DEF PinTypeOK
    <3> QED
      BY <2>dial, <3>turn DEF DialPin, PinTypeOK
  <2> QED
    BY <2>dial, ServiceType DEF TypeOK, PinTypeOK
<1>flags. FlagTypeOK'
  BY DEF TypeOK, FlagTypeOK, DialPin
<1>keys. KeyTypeOK'
  BY DEF TypeOK, KeyTypeOK, DialPin
<1>sent. SentTypeOK'
  BY KeyCommands DEF SentTypeOK, Command, DialPin
<1> QED
  BY <1>screen, <1>pin, <1>flags, <1>keys, <1>sent

\* Saving and loading the language.
LEMMA LangType ==
  ASSUME TypeOK
  PROVE  /\ (\E b : PressLanguage(b)) => LangTypeOK'
         /\ Restart \/ PowerCycle => LangTypeOK'
<1>code. \A l \in Lang : Other(l) \in Lang /\ {l} \in File
  BY DEF Lang, Other, File
<1>file. {} \in File /\ {"?"} \in File
  BY DEF File
<1>load. \A f, g : LoadLang(f, g) \in Lang
  BY DEF LoadLang, FromCode, Lang
<1>press. ASSUME NEW b, PressLanguage(b) PROVE LangTypeOK'
  BY <1>press, <1>code, <1>file DEF PressLanguage, SaveLang, Written, TypeOK, LangTypeOK
<1>start. ASSUME Restart \/ PowerCycle PROVE LangTypeOK'
  <2>lang. lang' \in Lang
    BY <1>start, <1>load DEF Restart, PowerCycle, Start
  <2>files. primary' \in File /\ fallback' \in File
    BY <1>start, <1>file DEF Restart, PowerCycle, TypeOK
  <2>kept. kept' \in {"default", "primary", "fallback", "memory"}
    BY <1>start DEF Restart, PowerCycle, TypeOK
  <2> QED
    BY <2>lang, <2>files, <2>kept DEF LangTypeOK
<1> QED
  BY <1>press, <1>start

\* The rest of a frame, a release, and a new process.
LEMMA FrameType ==
  ASSUME TypeOK,
         \/ \E m \in Mode : StartFrame(m)
         \/ \E b : Release(b)
         \/ EndFrame \/ Restart \/ PowerCycle
  PROVE  TypeOK'
<1>begins. ASSUME NEW m \in Mode, StartFrame(m) PROVE TypeOK'
  BY <1>begins, NextNavOpens DEF StartFrame, TypeOK, serviceVars, langVars
<1>release. ASSUME NEW b, Release(b) PROVE TypeOK'
  BY <1>release DEF Release, TypeOK, serviceVars, langVars
<1>ends. CASE EndFrame
  <2>stream. SentTypeOK'
    BY <1>ends DEF EndFrame, SentTypeOK, Command, ManualCommand
  <2> QED
    BY <1>ends, <2>stream DEF EndFrame, SentTypeOK, TypeOK, serviceVars, langVars
<1>starts. CASE Restart \/ PowerCycle
  <2>flags. FlagTypeOK'
    BY <1>starts DEF Restart, PowerCycle, Start, FlagTypeOK
  <2>rest. ScreenTypeOK' /\ PinTypeOK' /\ KeyTypeOK' /\ SentTypeOK'
    BY <1>starts, ServiceType
       DEF Restart, PowerCycle, Start, ScreenTypeOK, PinTypeOK, KeyTypeOK, SentTypeOK, TypeOK, Nav
  <2> QED
    BY <1>starts, <2>flags, <2>rest, LangType, TypeParts, PTL
<1> QED
  BY <1>begins, <1>release, <1>ends, <1>starts

\* Every variable of the panel keeps its type: digits stay digits, the cursor
\* on the PIN, and every command sent is one of ipc.rs.
THEOREM PanelTypeCorrect == Spec => []TypeOK
<1>first. Init => TypeOK
  <2> SUFFICES ASSUME Init PROVE TypeOK
    OBVIOUS
  <2>flags. FlagTypeOK
    BY DEF Init, FlagTypeOK
  <2>lang. LangTypeOK
    BY DEF Init, LangTypeOK, LoadLang, Lang, File
  <2>rest. ScreenTypeOK /\ PinTypeOK /\ KeyTypeOK /\ SentTypeOK
    BY ServiceType DEF Init, ScreenTypeOK, PinTypeOK, KeyTypeOK, SentTypeOK, Nav
  <2> QED
    BY <2>flags, <2>lang, <2>rest, TypeParts
<1>moves. TypeOK /\ [Next]_vars => TypeOK'
  <2> SUFFICES ASSUME TypeOK, [Next]_vars PROVE TypeOK'
    OBVIOUS
  <2>key. ASSUME NEW b, Press(b) PROVE TypeOK'
    <3>own. ScreenTypeOK' /\ PinTypeOK' /\ FlagTypeOK' /\ KeyTypeOK' /\ SentTypeOK'
      BY <2>key, ScreenKeyType, ServiceKeyType DEF Press, PressKey
    <3>lang. LangTypeOK'
      BY <2>key, LangType DEF Press, TypeOK, LangTypeOK, langVars
    <3> QED
      BY <3>own, <3>lang, TypeParts, PTL
  <2>still. UNCHANGED vars => TypeOK'
    BY DEF vars, serviceVars, langVars, TypeOK
  <2> QED
    BY <2>key, <2>still, FrameType DEF Next
<1> QED
  BY <1>first, <1>moves, PTL DEF Spec

-----------------------------------------------------------------------------
(***************************************************************************)
(* The language.                                                           *)
(***************************************************************************)

\* A new process would load the language shown, unless the last choice reached
\* no file or only a fallback that an existing primary file hides.
LangInv ==
  \/ kept = "memory"
  \/ kept = "fallback" /\ primary # {}
  \/ LoadLang(primary, fallback) = lang

\* A saved code is the one loaded: from the primary file, or from the fallback
\* if there is no primary one.
LEMMA LoadSaved ==
  ASSUME NEW l \in Lang
  PROVE  /\ \A file : LoadLang({l}, file) = l
         /\ LoadLang({}, {l}) = l
<1>code. (CHOOSE code \in {l} : TRUE) = l
  OBVIOUS
<1>known. FromCode(l) = l
  BY DEF FromCode, Lang
<1> QED
  BY <1>code, <1>known DEF LoadLang

\* LanguageSurvives: a restart of the panel changes the language only if the
\* last save did not reach the file the new process reads (REQ_0019).
THEOREM LanguageKept == Spec => LanguageSurvives
<1>first. Init => LangInv
  BY DEF Init, LangInv
<1>moves. TypeOK /\ LangInv /\ [Next]_vars => LangInv'
  <2> SUFFICES ASSUME TypeOK, LangInv, [Next]_vars PROVE LangInv'
    OBVIOUS
  <2>choice. ASSUME NEW b, PressLanguage(b) PROVE LangInv'
    <3>new. lang' \in Lang
      BY <2>choice DEF PressLanguage, Other, Lang
    <3>primary. CASE primary' = {lang'}
      BY <3>new, <3>primary, LoadSaved DEF LangInv
    <3>fallback. CASE kept' = "fallback" /\ fallback' = {lang'}
      BY <3>new, <3>fallback, LoadSaved DEF LangInv
    <3> QED
      BY <2>choice, <3>primary, <3>fallback DEF PressLanguage, SaveLang, Written, LangInv
  <2>loads. CASE Restart \/ PowerCycle
    BY <2>loads DEF Restart, PowerCycle, Start, LangInv
  <2>other. CASE UNCHANGED langVars
    BY <2>other DEF langVars, LangInv
  <2> QED
    BY <2>choice, <2>loads, <2>other
       DEF Next, Press, StartFrame, EndFrame, Release, vars
<1>restart. LangInv => [Restart => \/ lang' = lang
                                   \/ kept = "memory"
                                   \/ kept = "fallback" /\ primary # {}]_vars
  <2> SUFFICES ASSUME LangInv, Restart, kept # "memory", ~(kept = "fallback" /\ primary # {})
               PROVE  lang' = lang
    OBVIOUS
  <2>same. primary' = primary /\ fallback' = fallback /\ lang' = LoadLang(primary', fallback')
    BY DEF Restart, Start
  <2>reads. lang' = LoadLang(primary, fallback)
    BY <2>same
  <2> QED
    BY <2>reads DEF LangInv
<1> QED
  BY <1>first, <1>moves, <1>restart, PanelTypeCorrect, PTL DEF Spec, LanguageSurvives

-----------------------------------------------------------------------------
(***************************************************************************)
(* Refinement.                                                             *)
(***************************************************************************)

\* The keys of the main, Ethernet, fault and IO test screens.
LEMMA ScreenKeyImplements ==
  ASSUME TypeOK, NEW b,
         PressInIoTest(b) \/ PressInMain(b) \/ PressInFault(b) \/ PressInEthernet(b)
  PROVE  Screens!Next
<1> USE DEF Pressed, serviceVars, Screens!Quiet, Screens!Goes, Screens!NoCommand, NoCommand
<1>iotest. CASE PressInIoTest(b)
  BY <1>iotest DEF PressInIoTest, Screens!Next, Screens!Back
<1>fault. CASE PressInFault(b)
  BY <1>fault DEF PressInFault, OpenService, Screens!Next, Screens!OpenService
<1>main. CASE PressInMain(b)
  <2>opens. CASE b = "F6"
    BY <1>main, <2>opens DEF PressInMain, MainCommand, OpenService, Screens!Next, Screens!OpenService
  <2>idle. CASE b \notin {"F1", "F2", "F3", "F4", "F5", "F6"}
    BY <1>main, <2>idle DEF PressInMain, MainCommand, Screens!Next
  <2>sends. CASE b \in {"F1", "F2", "F3", "F4", "F5"}
    <3>command. MainCommand(b) \in Screens!MainCommands
      BY <2>sends DEF MainCommand, Screens!MainCommands, Plain, Adjust, Screens!Plain, Screens!Adjust
    <3>operate. Screens!Operate
      BY <1>main, <2>sends, <3>command DEF PressInMain, Screens!Operate, Screens!Send
    <3> QED
      BY <3>operate DEF Screens!Next
  <2> QED
    BY <2>opens, <2>idle, <2>sends
<1>ethernet. CASE PressInEthernet(b)
  <2>return. CASE b = "F1"
    <3>off. ethernet_selected' = FALSE
      BY <1>ethernet, <2>return DEF PressInEthernet
    <3> QED
      BY <1>ethernet, <2>return, <3>off
         DEF PressInEthernet, Screens!Next, Screens!Return, Plain, Screens!Plain
  <2>idle. CASE b # "F1"
    <3>same. ethernet_selected' = ethernet_selected
      BY <1>ethernet, <2>idle DEF PressInEthernet, TypeOK
    <3> QED
      BY <1>ethernet, <2>idle, <3>same DEF PressInEthernet, Screens!Next
  <2> QED
    BY <2>return, <2>idle
<1> QED
  BY <1>iotest, <1>fault, <1>main, <1>ethernet

\* The keys of Service.
LEMMA ServiceKeyImplements ==
  ASSUME NEW b,
         \/ DialPin(b) \/ PressResetTotal(b) \/ PressEthernet(b) \/ PressIoTest(b)
         \/ PressBack(b) \/ PressNothing(b) \/ PressLanguage(b)
  PROVE  Screens!Next
<1> USE DEF Pressed, serviceVars, Screens!Quiet, Screens!Goes, Screens!NoCommand, NoCommand
<1>quiet. CASE DialPin(b) \/ PressNothing(b) \/ PressLanguage(b)
  BY <1>quiet DEF DialPin, PressNothing, PressLanguage, Screens!Next
<1>total. CASE PressResetTotal(b)
  BY <1>total DEF PressResetTotal, Screens!Next, Screens!ClearTotal, Screens!Send, Plain,
                  Screens!Plain
<1>toggle. CASE PressEthernet(b)
  BY <1>toggle DEF PressEthernet, Screens!Next, Screens!Toggle, Plain, Screens!Plain
<1>leaves. CASE PressIoTest(b) \/ PressBack(b)
  BY <1>leaves DEF PressIoTest, PressBack, Screens!Next, Screens!OpenIoTest, Screens!Back
<1> QED
  BY <1>quiet, <1>total, <1>toggle, <1>leaves

\* The rest of a frame, a release and a new process.
LEMMA FrameImplements ==
  ASSUME \/ \E m \in Mode : StartFrame(m)
         \/ \E b : Release(b)
         \/ EndFrame \/ Restart \/ PowerCycle
  PROVE  Screens!Next
<1> USE DEF serviceVars, Screens!Quiet, Screens!NoCommand, NoCommand
<1>begins. ASSUME NEW m \in Mode, StartFrame(m) PROVE Screens!Next
  <2>same. NextNav(nav, m) = Screens!NextNav(nav, m) /\ m \in Screens!Mode
    BY DEF NextNav, Screens!NextNav, Mode, Screens!Mode
  <2> QED
    BY <1>begins, <2>same DEF StartFrame, Screens!Next, Screens!Frame
<1>release. ASSUME NEW b, Release(b) PROVE Screens!Next
  BY <1>release DEF Release, Screens!Next
<1>ends. CASE EndFrame
  <2>stream. CASE nav = "IoTest"
    <3>command. sent' \in Screens!ManualCommand
      BY <1>ends, <2>stream DEF EndFrame, Screens!ManualCommand
    <3> QED
      BY <1>ends, <2>stream, <3>command DEF EndFrame, Screens!Next, Screens!Stream, Screens!Send
  <2>quiet. CASE nav # "IoTest"
    BY <1>ends, <2>quiet DEF EndFrame, Screens!Next
  <2> QED
    BY <2>stream, <2>quiet
<1>starts. CASE Restart \/ PowerCycle
  <2>mode. mode' \in Screens!Mode
    BY <1>starts DEF Restart, PowerCycle, Start, Mode, Screens!Mode
  <2> QED
    BY <1>starts, <2>mode DEF Restart, PowerCycle, Start, Screens!Next, Screens!Restart
<1> QED
  BY <1>begins, <1>release, <1>ends, <1>starts

\* ImplementsScreens: the frame loop with its PIN, keys, held outputs and
\* language sends, from each screen, only what PanelScreens lets it.
THEOREM PanelRefines == Spec => ImplementsScreens
<1>first. Init => Screens!Init
  BY DEF Init, Screens!Init, Mode, Screens!Mode, NoCommand, Screens!NoCommand
<1>moves. TypeOK /\ [Next]_vars => [Screens!Next]_(Screens!screenVars)
  <2> SUFFICES ASSUME TypeOK, [Next]_vars
               PROVE  Screens!Next \/ UNCHANGED Screens!screenVars
    OBVIOUS
  <2>key. ASSUME NEW b, Press(b) PROVE Screens!Next
    BY <2>key, ScreenKeyImplements, ServiceKeyImplements DEF Press, PressKey
  <2>still. UNCHANGED vars => UNCHANGED Screens!screenVars
    BY DEF vars, serviceVars, Screens!screenVars
  <2> QED
    BY <2>key, <2>still, FrameImplements DEF Next
<1> QED
  BY <1>first, <1>moves, PanelTypeCorrect, PTL DEF Spec, ImplementsScreens, Screens!Spec
=============================================================================
