---------------------------- MODULE CounterStore ----------------------------
(***************************************************************************)
(* Persistence of the counters (baler-core/src/counter.rs): every change   *)
(* writes a temp file, syncs it and renames it over the counter file.      *)
(*                                                                         *)
(* The file system is external.  target and tmp are the two files as a     *)
(* running kernel shows them; durable is the counter file a power loss     *)
(* leaves.  A rename reaches the disk when the kernel commits its journal, *)
(* at any later time: persist() does not sync the directory.               *)
(***************************************************************************)
EXTENDS Counters

CONSTANT Failures   \* which of the failures below may happen

\* "io": a file operation returns an error; "kill": the daemon exits or dies;
\* "power": the device loses power.
ASSUME FailuresAssumption == Failures \subseteq {"io", "kill", "power"}

VARIABLES
  pc,        \* "down", "idle" or the file operation persist() does next
  mem,       \* CounterStore.counters
  target,    \* the counter file
  tmp,       \* path.with_extension("tmp")
  durable,   \* the counter file on the disk
  acked      \* history: the values of the last persist() that returned Ok

fileVars == <<target, tmp, durable>>
vars == <<pc, mem, fileVars, acked>>

\* The contents of a file: none, a prefix of a text, or the text of a value.
\* Only text that was synced is sure to be on the disk after a power loss.
FileContents == [kind : {"absent", "torn", "whole"}, value : CounterValues, synced : BOOLEAN]
Absent == [kind |-> "absent", value |-> CountersDefault, synced |-> TRUE]
Torn == [kind |-> "torn", value |-> CountersDefault, synced |-> FALSE]
Whole(v) == [kind |-> "whole", value |-> v, synced |-> FALSE]

PersistSteps == {"create", "write", "sync", "rename"}

TypeOK ==
  /\ pc \in {"down", "idle"} \cup PersistSteps
  /\ mem \in CounterValues
  /\ target \in FileContents /\ tmp \in FileContents /\ durable \in FileContents
  /\ acked \in CounterValues

\* First start on an empty directory.
Init ==
  /\ pc = "idle"
  /\ mem = CountersDefault
  /\ target = Absent /\ tmp = Absent /\ durable = Absent
  /\ acked = CountersDefault

\* What load() makes of a file: none and malformed text are zero; a prefix may
\* still parse, without its total line.
Parse(f) ==
  CASE f.kind = "whole" -> {f.value}
    [] f.kind = "absent" -> {CountersDefault}
    [] f.kind = "torn" -> {[session |-> n, total |-> 0] : n \in 0 .. MaxCount}

-----------------------------------------------------------------------------
\* increment_bale, adjust_session (the panel corrects by +1 and -1),
\* reset_session and reset_total: the value in memory first, then persist().
Operation ==
  /\ pc = "idle"
  /\ \/ mem' = IncrementBale(mem)
     \/ \E delta \in {-1, 1} : mem' = AdjustSession(mem, delta)
     \/ mem' = ResetSession(mem)
     \/ mem' = ResetTotal(mem)
  /\ pc' = "create"
  /\ UNCHANGED <<fileVars, acked>>

\* create_dir_all and File::create, which truncates a left-over temp file.
CreateTmp ==
  /\ pc = "create"
  /\ tmp' = Torn
  /\ pc' = "write"
  /\ UNCHANGED <<mem, target, durable, acked>>

\* Mutated forms: the file is written in place; the sync is left out.
WriteInPlace ==
  /\ pc = "write"
  /\ target' = Torn
  /\ tmp' = Whole(mem)
  /\ pc' = "sync"
  /\ UNCHANGED <<mem, durable, acked>>

SyncLeftOut ==
  /\ pc = "sync"
  /\ pc' = "rename"
  /\ UNCHANGED <<mem, fileVars, acked>>

WriteTmp ==
  /\ pc = "write"
  /\ tmp' = Whole(mem)
  /\ pc' = "sync"
  /\ UNCHANGED <<mem, target, durable, acked>>

SyncTmp ==
  /\ pc = "sync"
  /\ tmp' = [tmp EXCEPT !.synced = TRUE]
  /\ pc' = "rename"
  /\ UNCHANGED <<mem, target, durable, acked>>

\* The rename replaces the target atomically, and persist() returns Ok.
RenameTmp ==
  /\ pc = "rename"
  /\ target' = tmp
  /\ tmp' = Absent
  /\ acked' = mem
  /\ pc' = "idle"
  /\ UNCHANGED <<mem, durable>>

\* Any step of persist() may fail; the control cycle logs the error and goes
\* on with the value in memory.
PersistError ==
  /\ "io" \in Failures
  /\ pc \in PersistSteps
  /\ pc' = "idle"
  /\ UNCHANGED <<mem, fileVars, acked>>

-----------------------------------------------------------------------------
\* The process ends between two steps; the files stay as the kernel has them.
Kill ==
  /\ "kill" \in Failures
  /\ pc # "down"
  /\ pc' = "down"
  /\ UNCHANGED <<mem, fileVars, acked>>

\* The kernel commits the last rename; without a sync the text may be missing.
JournalCommit ==
  /\ "power" \in Failures
  /\ durable' = IF target.synced THEN target ELSE Torn
  /\ durable' # durable
  /\ UNCHANGED <<pc, mem, target, tmp, acked>>

PowerLoss ==
  /\ "power" \in Failures
  /\ target' = durable
  /\ tmp' \in {Absent, Torn, tmp}
  /\ pc' = "down"
  /\ UNCHANGED <<mem, durable, acked>>

\* CounterStore::load in the next process.  A file that cannot be read for another
\* reason than being absent ends that process too: it stays down.
Load ==
  /\ pc = "down"
  /\ mem' \in Parse(target)
  /\ pc' = "idle"
  /\ UNCHANGED <<fileVars, acked>>

Next ==
  \/ Operation
  \/ CreateTmp
  \/ WriteTmp
  \/ SyncTmp
  \/ RenameTmp
  \/ PersistError
  \/ Kill
  \/ JournalCommit
  \/ PowerLoss
  \/ Load

Spec == Init /\ [][Next]_vars

-----------------------------------------------------------------------------
\* The store implements PersistentCounters: whatever step of persist() an error
\* or a kill interrupts, a restart finds the values before or after the
\* operation, and after a power loss values that were once saved, never a
\* mixture or a lost file.
Abstract == INSTANCE PersistentCounters WITH
              mem <- mem,
              saved <- target.value,
              stable <- durable.value,
              busy <- pc \in PersistSteps
ImplementsPersistentCounters == Abstract!PSpec

\* Not even a power loss makes the daemon read a torn counter file, because the
\* text is synced before the rename can reach the disk.
DiskNeverTorn == durable.kind # "torn" /\ target.kind # "torn"

\* The header of counter.rs: counts survive power loss.  Violated when the
\* power goes after persist() returned Ok and before the kernel has committed
\* the rename, since nobody syncs the directory.
AckedSurvivesPowerLoss == pc = "down" => target.value = acked
=============================================================================
