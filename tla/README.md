# Verification of the baler controller

TLA+ models of the operator terminal of the round baler: the control daemon
(`baler-daemon`), the logic library it is built on (`baler-core`) and the
operator panel (`baler-ui`). TLC checks small instances; TLAPS proves the
safety properties for every value of the constants. `PROJECT.json` lists the
runs, the source lines behind each definition, the hazards the properties are
aimed at, and the theorems.

Source paths below are relative to the repository's `src/` directory.

## The system

| Part | State it keeps | Operations | Hard behaviour |
|---|---|---|---|
| Control cycle, `baler-daemon/src/control.rs` | mode, three pulses, three debouncers, counters, latch, manual-IO watchdog | `step(inputs, commands)` every 10 ms | order of health, inputs, commands and outputs in a scan; batches; manual-IO mode suspends the rest |
| Mode machine, `baler-core/src/state.rs` | mode, shown inputs | `on_bus_health`, `on_inputs`, `handle` | stale inputs; switch gating |
| Pulse engine, `pulse.rs` | active, elapsed | `trigger`, `tick` | bus loss, re-trigger, not being ticked |
| Input conditioner, `input_conditioner.rs` | level, candidate, count | `update` | bounces |
| Counter store, `counter.rs` | counters, counter file | increment, adjust, resets, `persist`, `load` | errors, kill and power loss between file operations |
| Daemon process, `main.rs` | `ever_up`, `maintenance`, deadline | wait for the carrier, bring-up, 10 ms item, exits | respawns, deadline against maintenance mode |
| Bus adapter, `ethercat_io.rs` | connector, health, last bytes | `poll`, `write`, `suspend`, `restart` | coalesced health events, failed sends, old inputs |
| Link, `transport.rs`, `bringup.rs` | command and snapshot channels | `drain`, `publish`, open with retries | boot race, lost commands |
| NIC, `network_mode.rs` | IP configuration | `enter_ethernet`, `enter_ethercat` | partial failure |
| Hardware watchdog, `watchdog.rs` | device handle | `open`, `pet`, drop | gap between two processes |
| Panel, `baler-ui/src/main.rs` | screen, PIN, toggle, held keys, last snapshot | frame loop: newest snapshot, key events, stream | mode changes under a screen, ignored releases, guesses of the daemon's mode |
| Language, `i18n.rs`, `load_lang`, `save_lang` | language, two files | toggle and save, load | failed writes, restarts, power cycles |
| View, `push_view`, `LedBeacon` | none | colour and values of a snapshot | precedence of pulse, fault and full |

The panel sends commands over the link; the daemon drains them once per scan,
runs `Control::step` on the bus inputs, writes the outputs, pets the watchdog
and publishes a snapshot, from which the panel derives its screen. systemd
respawns the daemon whenever it exits, and the daemon exits on purpose when the
bus does not come up in time or the operator returns from Ethernet mode,
because the EtherCAT master can be enumerated only once per process.

What makes each part correct: outputs are interlocked, low on bus loss and have
a live cause; each open of the gate counts once; the bale, knife and beacon
that the operator is shown are true or marked unknown; mode, master and IP address agree; saved counters
are never torn; a failed send is repeated; Ethernet mode is ended by the
operator only and a bus that stays down leads to a new enumeration; the PIN
gates what it should; both processes get their link however their starts race;
the watchdog spares a waiting daemon and resets a hung one; what the operator
asks for on the panel reaches the daemon, and the panel shows the daemon's mode.

## Modules

- `InputConditioner`, `PulseEngine`, `BalerState`, `Counters`: the pure parts
  of `baler-core` as operators on records. Durations are in scans.
- `Control` extends them. One call of `step` is `BeginScan` (inputs), one action
  per command and outcome, and `EndScan` (watchdog, pulses, outputs). In phase
  `"idle"` the variables are what the daemon writes, and `Snapshot` what it
  publishes. The effect of the two ports is part of the state: `suspended` and
  `restart_requested` of the bus, an IP address or none from the network
  controller.
- `View` is what the operator sees of a snapshot: the LED beacon and the values
  `push_view` hands to the screens.
- `ControlHistory` adds history variables that record the past raw inputs and
  commands and are never read by the cycle. `MCControl` gives the constants.
- `PersistentCounters` is the promise of the counter store (a change is saved in
  one step or not at all); `CounterStore` is `persist()` file operation by file
  operation. The file system is external: `target` and `tmp` as a running kernel
  shows them, `durable` what a power loss leaves.
- `Daemon` extends `Control` with the process: `Spawn`, the carrier wait,
  `Register` (which may fail), the item (`StartItem`, `StepCommand`,
  `FinishItem` with its write and publish), the bring-up exit, the health pump,
  the link queue and the field. `MCDaemon` instantiates, `MCDaemonRun` adds the
  focus of the passing run.
- `Navigation` holds the screens and `next_nav`. `PanelScreens` is the abstract
  panel: which screen may send what, with no keys, PIN or files. `Panel` is the
  frame loop key by key, with the PIN, the held keys and the language files,
  against any sequence of modes; it implements `PanelScreens`. `MCPanel`
  instantiates.
- `NetworkMode` is the switch of the NIC: what an `ip` command does, and lists of
  them that end with the first error.
- `System` composes `Daemon`, `PanelScreens` and `NetworkMode` over the link, with
  every key that sends a command and a gate that moves. The panel reads the newest snapshot or keeps the last one; a command is lost if no
  daemon has a reader open. Both sides restart. `MCSystem` instantiates.
- `Boot` is the start of the two processes: `retry_open` on the two services, the
  iceoryx2 services as far as the code depends on them (absent, being created,
  ready, corrupt, and the node that holds them), and the hardware watchdog with
  the times of the code and the unit files.
- `ControlProofs`, `ControlHistoryProofs`, `CounterStoreProofs`, `DaemonProofs`,
  `DaemonSafetyProofs`, `PanelProofs`, `BootProofs`, `SystemProofs` hold the
  theorems. `DaemonSafetyProofs` extends `DaemonProofs`, which extends
  `ControlProofs`; `SystemProofs` extends it in turn.

Operators introduced by a comment "Mutated form" are plausible bugs. They are
used by no specification; substituting one for the definition it mutates makes
TLC refute the property it belongs to, which shows that the property bites.

## Runs

| Run | Shows |
|---|---|
| `control` | interlock, low on bus loss, every energized output has a cause, a pulse drives its output for its full time and no longer, all pulses end; manual-IO mode lasts exactly as long as its stream and the watchdog time; exactly the debounced opens on a healthy bus count and counters saturate; mode, master, IP, shown bale and knife, latch and beacon agree with what happened |
| `store` | the save is atomic under errors and kills, and never torn under power loss |
| `daemon` | a failed send is repeated; the coupler never has both knife outputs and gets energized outputs in operation only; on a healthy bus a pulse keeps the master; one process counts a gate that stays put once; Ethernet mode is stable; bring-up and return end in a fresh process |
| `panel` | PIN gate, no stale key in the stream, Ethernet mode silences other screens, the language survives a restart, the panel implements `PanelScreens` |
| `boot` | the watchdog spares waiting and resets hanging, nobody goes on without a channel, the link comes up after every fault |
| `system` | the daemon keeps to `Daemon` in the whole system; a reported address is configured; the network key gets through; the panel does not stay on an old mode |

Six runs show a disagreement between the code and what a requirement or comment
says of it (expected violations; the findings in `PROJECT.json` quote the lines):

- `manual_exit`: a pulse frozen by manual-IO mode drives its output again in the
  scan in which the command watchdog expires; a bus loss during the mode does
  not abort it either.
- `ethernet_idle`: the switch to Ethernet is accepted with a pulse active in the
  scan that first sees the bus unhealthy.
- `store_acked`: a saved count may be lost with the power, since the directory is
  not synced after the rename.
- `carrier_park`: a daemon parked for the carrier answers no command.
- `gate_over_restart`: a gate open across a return to EtherCAT counts twice.
- `language`: a language saved to the fallback only is not read back if the
  primary file exists.

Two of the findings have their exact extent among the passing properties. The
requirement `EthernetOnlyWhenIdle` fails in the scan that sees the bus lost, and
`PulseKeepsMaster` shows that it fails nowhere else. `OneBalePerOpen` fails over
a restart, and `CountsOnceInProcess` shows that within a process it holds, over
bus losses, stale input bits and mode switches. Both are proved.

### Bounds

The constants of the control code (debounce 3, pulse 500, latch 2000, watchdog 30
scans) are parameters. Each run keeps the ones its question is about at 2 or 3,
long enough to interrupt, bounce, re-trigger and expire in every order, and
the others at 1. `MaxCount` (u64::MAX) is 1 to 3, so saturation is reached.
`MaxBatch` bounds the commands drained in one scan to at most 3, which covers
every pair (or triple) of commands in a batch; `QueueSize` bounds the link.
`BringupDeadline` is 1 or 2 scans.

The `control` run has a focus, fixed at the start of a behaviour: pulses and
manual-IO, counting, or modes, each with all inputs and commands that it is
about. So has the `daemon` run: the gate moves, or the panel sends the keys that
drive outputs; modes, bus, cable and restarts are free in both. The `panel` run
has one too, since the language depends on no other state
but the screen; its PIN is two digits over base 3. `boot` has the deployed times
in units of 50 ms, with `register()` as long as the margin allows, and three
faults, which is enough for a corruption, a kill in the middle of its recovery
and a hang. In `system` the queue holds one command, a pulse lasts two scans, so
that a key can meet a running one, and the focus is either the network key with
the wrap key and the IO test screen, or the gate with the reset of the total. The
other keys of the main screen (knife, session) are left to the `control` run and
to the theorems, which cover every key.

### Fairness

`Control`: weak fairness of starting and of ending a scan: the executor calls
the item every 10 ms and `step` does not block. No command and no input is fair.
`PulsesEnd` further assumes scans outside manual-IO mode, since that mode
suspends the pulses for as long as its stream lasts. `Daemon`: weak fairness of
the respawn (`Restart=always` in the service file), the carrier poll,
`register()` and the item; nothing is assumed of bus, cable, gate or panel.
`System` adds the panel's frame, which comes every 16 ms, and nothing of the
operator: `ToggleReaches` says what follows if the network key is pressed again
and again. It has three exceptions, each of them real: a daemon that keeps
ending, an IO test screen that keeps being opened, and a pulse that keeps running
when the key comes. An operator who wraps before every second press gets NotIdle
and NotInEthernet by turns without end, because the key alternates whether or not
the daemon obeyed; without that exception TLC finds the cycle. `Boot`: systemd starts what ended, sleeps end, opens return, the carrier
poll comes and time passes while a process hangs; no fault is fair, and
`MaxFaults` bounds them, so the liveness holds after the last one.

## Proofs

All proofs assume only the named `ASSUME`s on the constants. Every invariant,
action property and refinement of a passing run is proved; only the liveness
properties are not.

- `TypeCorrect`: `TypeOK` of `Control` is inductive with lemmas on each operator.
- `Interlock`, `BusLossSafe`, `SnapshotTruthful`, `MasterAgrees`: each property strengthened to hold inside a scan as well
  (for the snapshot: bale and knife are truthful relative to the scan's health and
  debounced levels).
- `OutputsAccounted`, `PulsesAreBounded`, `PulsesAreFull`, `FullLatch`,
  `CountsFreshOpens`, `ManualModeExact`: the code's counter is tied to the history
  variable (watchdog to `since_manual`, elapsed to `driven`, latch to
  `since_full`, debouncer to the run of raw samples), and the property follows.
  For the pulses (`PulseInv`) one lemma on `Tick` and `Trigger` serves all three.
  `BeaconTellsTruth` needs
  that outside manual-IO mode the outputs are those of the pulses, which are
  inactive in fault and Ethernet mode after a scan. `HistoryImplementsControl`
  shows that the history does not restrict the cycle.
- `StoreTypeCorrect`, `NeverTorn`, `StoreRefines`: `StoreInv` says what the temp
  file holds at each step of `persist()`; the refinement maps `saved` to the
  value of the counter file and excludes the steps of a power loss.
- `DaemonTypeCorrect` reuses the lemmas of `ControlProofs` for the scan. A new
  process is an initial state of `Control`. `WritesAreKept`: the bytes WagoBus
  remembers, if any, are those the coupler holds. `MaintenanceStable`: the
  maintenance flag is set whenever a scan ended in Ethernet mode.
- `CycleSafeInDaemon`: a step of `Daemon` is one of the cycle, leaves it alone or
  starts it anew (`StepOfCycle`), and a new cycle has the inductive invariants of
  `ControlProofs` (`CycleInv`), so they hold over every respawn. With them,
  `CouplerInterlocked` and `EnergizedInOperation` follow from what a scan may
  write, and `MasterKeptByPulse` from the mode of a scan on a healthy bus.
- `CountedOnce`: `GateInv` says that once the process has counted the gate, an
  open gate was already open in the last bits received, and open bits find the
  debounced level high, so that no edge is left. The last bits are needed because
  a poll may return them again after the gate has moved and a bus loss has passed.
- `DrainedAreHandled`: what a scan has drained and not handled fits into the rest
  of the batch (`DrainInv`), and `handle` has an answer for every command
  (`ResolveTotal`), so the model's bound on a batch holds no command back and the
  scan always reaches its write.
- `PanelTypeCorrect`, `PinAlwaysGated`, `NoStaleKeys`, `OnlyReturnInEthernet`: a
  Service screen without a turned digit shows the reset PIN; held keys on the IO
  test screen are down; screen and mode agree within a frame. `LanguageKept`:
  where the language was kept determines what the files hold. `PanelRefines`:
  every key event is a step of `PanelScreens` or leaves its variables alone.
- `BootTypeCorrect`, `LinkedIsNotDeaf`, `WatchdogFed`: `PlaceInv` ties the place
  of a process to the services it holds, so that a clean-up never takes one away
  from a living process. `FedInv` bounds the time since the last pet at every
  place of the daemon; the bound over the retries is the sum 1 + 2 + ... of the
  backoffs, and the margin of `BootAssumption` closes the argument.
- `SystemRunsDaemon`, `SystemRunsPanel`: each step of `System` is a step of
  `Daemon` or leaves it alone, and the same for `PanelScreens`; the second needs
  that only modes are published. `SystemIsSafe` and `SystemCycleIsSafe` state what
  this carries over: the guarantees of the process and of the cycle, now driven by
  the panel's own keys, its pulses and resets included, with a gate that moves and
  commands lost while the daemon is down.
  `ReportedIpHolds`: the
  address is configured whenever it is reported, and only a switch changes the
  NIC.

Only model-checked: `PulsesEnd`, `BringUpNeverHangs`,
`ReturnRestarts`, `HungIsReset`, `LinkComesUp`, `ToggleReaches` and
`PanelCatchesUp`, since liveness under fairness is out of the prover's reach, as
is ENABLED: `DrainedAreHandled` proves the guards of a drained command one by one
instead of its being enabled.

## Not modelled

- The wire format (postcard over serde) and the PDO map and bit codec of the WAGO
  modules: third-party encoders and configuration, without state.
- The connector and iceoryx2 themselves: external, modelled as far as the code
  depends on them (any health, old inputs, failed sends, half-created and corrupt
  services).
- Text tables, frame buffer, layout and the blinking of the LEDs.
- The host loop `run()` with the simulated bus: the same item on a bus that is
  always healthy.
- `LocalBackend`: a stand-alone demonstration of the panel on simulated inputs
  that drives no output. It calls the same state machine, pulses and counters.
- The default route commands of `NetworkMode`: the device configures no gateway.
- Deploy scripts.

## Plan

1. `LocalBackend` as a second implementation behind `PanelScreens`.
2. Larger batches and longer times in `system`, as far as TLC reaches.
3. A model of the connector's health events, from which the health pump's
   coalescing would follow rather than be assumed.
