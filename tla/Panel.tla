-------------------------------- MODULE Panel -------------------------------
(***************************************************************************)
(* The operator panel (baler-ui/src/main.rs): the frame loop that follows  *)
(* the daemon's mode, turns key events into commands and, on the IO test   *)
(* screen, streams the held keys.                                          *)
(*                                                                         *)
(* A frame is StartFrame (newest snapshot, next_nav), one action per       *)
(* pending key event, EndFrame (the ManualIo stream).  The daemon is seen  *)
(* here as any sequence of modes.  systemd starts the panel again when it  *)
(* dies (Restart=always), and the board can lose its power.                *)
(*                                                                         *)
(* The language is kept in two files: primary on the eMMC, fallback in     *)
(* /tmp.  A file is {} if it does not exist, else the set with its code;   *)
(* any code but "en" and "de" is "?", an empty file included.              *)
(***************************************************************************)
EXTENDS Navigation, Sequences

CONSTANTS
  ServicePin,   \* SERVICE_PIN, four digits in the code
  Base          \* the digits a position cycles through, 10 in the code

ASSUME PanelAssumption ==
  /\ Base \in Nat \ {0, 1}
  /\ ServicePin \in Seq(0 .. Base - 1)
  /\ \E k \in DOMAIN ServicePin : ServicePin[k] # 0

Button == {"F1", "F2", "F3", "F4", "F5", "F6", "Up", "Down", "Left", "Right"}

\* remap_fkey: the softkey whose label stands above a physical key.
RemapFkey(b) ==
  CASE b = "F1" -> "F4" [] b = "F2" -> "F3" [] b = "F3" -> "F5"
    [] b = "F4" -> "F2" [] b = "F5" -> "F6" [] b = "F6" -> "F1"
    [] OTHER -> b

\* The softkeys that drive an output on the IO test screen.
OutputKeys == {"F1", "F2", "F3"}

VARIABLES
  pc,                  \* "sleep" between two frames, "events" in one
  nav,
  mode,                \* snap.mode
  pin, cursor, ethernet_selected,     \* ServiceState; cursor counts from 1
  held,                \* the output keys of the io_*_held flags that are set
  lang,
  primary, fallback,   \* the files of LANG_PATH and LANG_PATH_FALLBACK
  sent,                \* the command this step sent
  down,                \* history: output keys pressed and not yet released
  dialled,             \* history: a digit was turned since Service was opened
  kept                 \* history: the file the last choice of language reached

serviceVars == <<pin, cursor, ethernet_selected>>
langVars == <<lang, primary, fallback, kept>>
vars == <<pc, nav, mode, serviceVars, held, langVars, sent, down, dialled>>

Screens == INSTANCE PanelScreens

Lang == {"en", "de"}
File == {{}} \cup {{code} : code \in Lang \cup {"?"}}

PinZero == [k \in DOMAIN ServicePin |-> 0]

TypeOK ==
  /\ pc \in {"sleep", "events"}
  /\ nav \in Nav
  /\ mode \in Mode
  /\ pin \in [DOMAIN ServicePin -> 0 .. Base - 1]
  /\ cursor \in DOMAIN ServicePin
  /\ ethernet_selected \in BOOLEAN
  /\ held \subseteq OutputKeys
  /\ sent \in Command \cup {NoCommand}
  /\ down \subseteq OutputKeys
  /\ dialled \in BOOLEAN
  /\ lang \in Lang
  /\ primary \in File /\ fallback \in File
  /\ kept \in {"default", "primary", "fallback", "memory"}

\* Lang::from_code: anything unknown is German.
FromCode(code) == IF code = "en" THEN "en" ELSE "de"

\* Mutated form: the fallback comes first.
LoadLangFallbackFirst(first, second) ==
  LET file == IF second # {} THEN second ELSE first
  IN IF file = {} THEN "de" ELSE FromCode(CHOOSE code \in file : TRUE)

\* load_lang: the first file that exists, else German.
LoadLang(first, second) ==
  LET file == IF first # {} THEN first ELSE second
  IN IF file = {} THEN "de" ELSE FromCode(CHOOSE code \in file : TRUE)

\* The backend's first snapshot: nothing received yet, or a running daemon's.
Init ==
  /\ pc = "sleep"
  /\ nav = "Main"
  /\ mode \in Mode
  /\ pin = PinZero /\ cursor = 1 /\ ethernet_selected = FALSE
  /\ held = {}
  /\ sent = NoCommand
  /\ down = {} /\ dialled = FALSE
  /\ primary = {} /\ fallback = {} /\ lang = LoadLang(primary, fallback)
  /\ kept = "default"

-----------------------------------------------------------------------------
\* backend.step() gives the newest mode, which may be an old one.
StartFrame(m) ==
  /\ pc = "sleep"
  /\ pc' = "events"
  /\ mode' = m
  /\ nav' = NextNav(nav, m)
  /\ sent' = NoCommand
  /\ UNCHANGED <<serviceVars, held, langVars, down, dialled>>

\* Mutated form: held keys are streamed on every screen.
EndFrameStreamsHeld ==
  /\ pc = "events"
  /\ pc' = "sleep"
  /\ sent' = IF nav = "IoTest" \/ held # {}
             THEN [kind |-> "ManualIo", wrap |-> "F1" \in held,
                   knives_in |-> "F2" \in held, knives_out |-> "F3" \in held]
             ELSE NoCommand
  /\ UNCHANGED <<nav, mode, serviceVars, held, langVars, down, dialled>>

\* The held keys are streamed in every frame that ends on the IO test screen.
EndFrame ==
  /\ pc = "events"
  /\ pc' = "sleep"
  /\ sent' = IF nav = "IoTest"
             THEN [kind |-> "ManualIo", wrap |-> "F1" \in held,
                   knives_in |-> "F2" \in held, knives_out |-> "F3" \in held]
             ELSE NoCommand
  /\ UNCHANGED <<nav, mode, serviceVars, held, langVars, down, dialled>>

-----------------------------------------------------------------------------
(***************************************************************************)
(* Key events.                                                             *)
(***************************************************************************)

\* poll_button returns the press of a key whose softkey is btn.
Pressed(btn) ==
  /\ pc = "events"
  /\ btn \notin down
  /\ down' = IF btn \in OutputKeys THEN down \cup {btn} ELSE down
  /\ UNCHANGED <<pc, mode>>

\* A release matters on the IO test screen and is skipped elsewhere.
Release(btn) ==
  /\ pc = "events"
  /\ btn \in down
  /\ down' = down \ {btn}
  /\ held' = IF nav = "IoTest" THEN held \ {btn} ELSE held
  /\ sent' = NoCommand
  /\ UNCHANGED <<pc, nav, mode, serviceVars, langVars, dialled>>

PressInIoTest(btn) ==
  /\ Pressed(btn)
  /\ nav = "IoTest"
  /\ held' = IF btn \in OutputKeys THEN held \cup {btn}
             ELSE IF btn = "F6" THEN {} ELSE held
  /\ nav' = IF btn = "F6" THEN "Main" ELSE nav
  /\ sent' = NoCommand
  /\ UNCHANGED <<serviceVars, dialled>>

\* Mutated form: Service opens with the PIN that was dialled last.
OpenServiceKeepsPin ==
  /\ nav' = "Service"
  /\ dialled' = FALSE
  /\ UNCHANGED serviceVars

\* service.reset() and the Service screen.
OpenService ==
  /\ nav' = "Service"
  /\ dialled' = FALSE
  /\ pin' = PinZero /\ cursor' = 1
  /\ UNCHANGED ethernet_selected

MainCommand(btn) ==
  CASE btn = "F1" -> Plain("Wrap")
    [] btn = "F2" -> Plain("ToggleKnife")
    [] btn = "F3" -> Plain("ResetSession")
    [] btn = "F4" -> Adjust(1)
    [] btn = "F5" -> Adjust(-1)
    [] OTHER -> NoCommand

PressInMain(btn) ==
  /\ Pressed(btn)
  /\ nav = "Main"
  /\ sent' = MainCommand(btn)
  /\ IF btn = "F6" THEN OpenService ELSE UNCHANGED <<nav, serviceVars, dialled>>
  /\ UNCHANGED held

\* On the fault screen only F6 works, so that Service stays in reach.
PressInFault(btn) ==
  /\ Pressed(btn)
  /\ nav = "Fault"
  /\ sent' = NoCommand
  /\ IF btn = "F6" THEN OpenService ELSE UNCHANGED <<nav, serviceVars, dialled>>
  /\ UNCHANGED held

PressInEthernet(btn) ==
  /\ Pressed(btn)
  /\ nav = "Ethernet"
  /\ sent' = IF btn = "F1" THEN Plain("ReturnToEthercat") ELSE NoCommand
  /\ ethernet_selected' = (btn # "F1" /\ ethernet_selected)
  /\ UNCHANGED <<nav, pin, cursor, held, dialled>>

Unlocked == pin = ServicePin

\* Mutated form: a digit does not wrap.
StepDigitNoWrap(d, n) == d + n

StepDigit(d, n) == (d + n) % Base

\* Service: dialling the PIN.  A digit wraps, the cursor stops at both ends.
DialPin(btn) ==
  /\ Pressed(btn)
  /\ nav = "Service"
  /\ \/ btn = "Up" /\ pin' = [pin EXCEPT ![cursor] = StepDigit(@, 1)] /\ UNCHANGED cursor
     \/ btn = "Down" /\ pin' = [pin EXCEPT ![cursor] = StepDigit(@, Base - 1)] /\ UNCHANGED cursor
     \/ btn = "Left" /\ cursor' = (IF cursor > 1 THEN cursor - 1 ELSE 1) /\ UNCHANGED pin
     \/ btn = "Right" /\ UNCHANGED pin
        /\ cursor' = IF cursor < Len(ServicePin) THEN cursor + 1 ELSE cursor
  /\ dialled' = (dialled \/ btn \in {"Up", "Down"})
  /\ sent' = NoCommand
  /\ UNCHANGED <<nav, ethernet_selected, held>>

\* Service, unlocked: reset the total.
PressResetTotal(btn) ==
  /\ Pressed(btn)
  /\ nav = "Service" /\ btn = "F1" /\ Unlocked
  /\ sent' = Plain("ResetTotal")
  /\ UNCHANGED <<nav, serviceVars, held, dialled>>

\* Service, unlocked: the network toggle, which does not look at the mode.
PressEthernet(btn) ==
  /\ Pressed(btn)
  /\ nav = "Service" /\ btn = "F2" /\ Unlocked
  /\ ethernet_selected' = ~ethernet_selected
  /\ sent' = Plain(IF ethernet_selected' THEN "EnterEthernet" ELSE "ReturnToEthercat")
  /\ UNCHANGED <<nav, pin, cursor, held, dialled>>

\* Mutated form: the IO test screen opens with the keys it was left with.
PressIoTestKeepsHeld(btn) ==
  /\ Pressed(btn)
  /\ nav = "Service" /\ btn = "F3" /\ Unlocked
  /\ nav' = "IoTest"
  /\ sent' = NoCommand
  /\ UNCHANGED <<serviceVars, held, dialled>>

\* Service, unlocked: the IO test screen opens with no key held.
PressIoTest(btn) ==
  /\ Pressed(btn)
  /\ nav = "Service" /\ btn = "F3" /\ Unlocked
  /\ held' = {}
  /\ nav' = "IoTest"
  /\ sent' = NoCommand
  /\ UNCHANGED <<serviceVars, dialled>>

\* Service: back, with the PIN cleared.
PressBack(btn) ==
  /\ Pressed(btn)
  /\ nav = "Service" /\ btn = "F6"
  /\ nav' = "Main"
  /\ pin' = PinZero /\ cursor' = 1
  /\ sent' = NoCommand
  /\ UNCHANGED <<ethernet_selected, held, dialled>>

\* Lang::other.
Other(l) == IF l = "en" THEN "de" ELSE "en"

\* What std::fs::write leaves in a file: the code, or, if it fails, the old
\* content or a truncated one.
Written(file, code, ok) == IF ok THEN {{code}} ELSE {file, {"?"}}

\* save_lang: the fallback only if the primary fails; errors are swallowed.
SaveLang(code) ==
  \/ /\ primary' \in Written(primary, code, TRUE)
     /\ kept' = "primary"
     /\ UNCHANGED fallback
  \/ /\ primary' \in Written(primary, code, FALSE)
     /\ \E ok \in BOOLEAN : /\ fallback' \in Written(fallback, code, ok)
                          /\ kept' = IF ok THEN "fallback" ELSE "memory"

\* Service: the language key, which needs no PIN.
PressLanguage(btn) ==
  /\ Pressed(btn)
  /\ nav = "Service" /\ btn = "F4"
  /\ lang' = Other(lang)
  /\ SaveLang(lang')
  /\ sent' = NoCommand
  /\ UNCHANGED <<nav, serviceVars, held, dialled>>

\* Service: locked keys and the unused one.
PressNothing(btn) ==
  /\ Pressed(btn)
  /\ nav = "Service"
  /\ btn = "F5" \/ (btn \in OutputKeys /\ ~Unlocked)
  /\ sent' = NoCommand
  /\ UNCHANGED <<nav, serviceVars, held, dialled>>

\* The keys that leave the language alone.
PressKey(btn) ==
  \/ PressInIoTest(btn)
  \/ PressInMain(btn)
  \/ PressInFault(btn)
  \/ PressInEthernet(btn)
  \/ DialPin(btn)
  \/ PressResetTotal(btn)
  \/ PressEthernet(btn)
  \/ PressIoTest(btn)
  \/ PressBack(btn)
  \/ PressNothing(btn)

Press(btn) == PressLanguage(btn) \/ (PressKey(btn) /\ UNCHANGED langVars)

\* main, as far as the loop: a new process, which loads the language.
Start ==
  /\ pc' = "sleep"
  /\ nav' = "Main"
  /\ mode' \in Mode
  /\ pin' = PinZero /\ cursor' = 1 /\ ethernet_selected' = FALSE
  /\ held' = {}
  /\ sent' = NoCommand
  /\ dialled' = FALSE
  /\ lang' = LoadLang(primary', fallback')
  /\ UNCHANGED down

\* The panel dies and systemd starts it again.
Restart ==
  /\ UNCHANGED <<primary, fallback, kept>>
  /\ Start

\* The power fails: /tmp is gone and, as nothing is synced, a primary file just
\* written may be too.
PowerCycle ==
  /\ fallback' = {}
  /\ primary' \in {primary, {}, {"?"}}
  /\ Start
  /\ kept' = IF primary' = primary /\ kept \in {"default", "primary"} THEN kept ELSE "memory"

Next ==
  \/ \E m \in Mode : StartFrame(m)
  \/ \E b \in Button : Press(RemapFkey(b)) \/ Release(RemapFkey(b))
  \/ EndFrame
  \/ Restart
  \/ PowerCycle

Spec == Init /\ [][Next]_vars

-----------------------------------------------------------------------------
\* What needs the PIN is sent only after digits were dialled on a Service
\* screen opened since: a PIN left by an earlier visit, which the mode or the
\* IO test screen ended without a reset, never unlocks (REQ_0008, REQ_0018; the
\* service.reset() calls).  The return from the Ethernet screen needs no PIN.
PinGated ==
  sent.kind \in {"ResetTotal", "EnterEthernet", "ManualIo"} => dialled

\* The panel never asks the daemon to energize an output whose key is not held
\* down, even if the key was pressed on an IO test screen that a fault closed
\* and released while another screen ignored the release (REQ_0018).
StreamsOnlyHeldKeys ==
  sent.kind = "ManualIo" =>
    /\ sent.wrap => "F1" \in down
    /\ sent.knives_in => "F2" \in down
    /\ sent.knives_out => "F3" \in down

\* Once the panel has seen Ethernet mode it sends nothing but the return: no
\* screen the operator was on keeps its keys (next_nav, the Ethernet screen).
EthernetSendsOnlyReturn ==
  mode = "Ethernet" => sent.kind \in {"None", "ReturnToEthercat"}

\* The panel is the one System composes with the daemon.
ImplementsScreens == Screens!Spec

\* The operator's choice of language survives a restart of the panel if its
\* save reached the primary file, or the fallback while there was no primary
\* one, whatever earlier saves left behind (load_lang, save_lang; REQ_0019).
LanguageSurvives ==
  [][Restart => \/ lang' = lang
                \/ kept = "memory"
                \/ kept = "fallback" /\ primary # {}]_vars

-----------------------------------------------------------------------------
\* REQ_0019: the selection shall persist, in /tmp if not in /var/lib/baler.
\* Violated by a save that fails on an existing primary file and reaches the
\* fallback: the next start reads the primary file.
FallbackIsRead == [][Restart /\ kept = "fallback" => lang' = lang]_vars
=============================================================================
