------------------------- MODULE CounterStoreProofs -------------------------
(***************************************************************************)
(* The counter store implements PersistentCounters, for every bound on the *)
(* counters and every combination of failures.                             *)
(***************************************************************************)
EXTENDS CounterStore, TLAPS

USE MaxCountAssumption, FailuresAssumption

\* The operations stay between zero and u64::MAX.
LEMMA OperationType ==
  ASSUME TypeOK, Operation
  PROVE  mem' \in CounterValues
  BY DEF TypeOK, Operation, IncrementBale, AdjustSession, ResetSession, ResetTotal, Saturate,
         CounterValues

\* Every variable of the store keeps its type, power losses included.
THEOREM StoreTypeCorrect == Spec => []TypeOK
<1>1. CountersDefault \in CounterValues
  BY DEF CountersDefault, CounterValues
<1>2. /\ Absent \in FileContents /\ Torn \in FileContents
      /\ \A v \in CounterValues : Whole(v) \in FileContents
  BY <1>1 DEF Absent, Torn, Whole, FileContents
<1>3. Init => TypeOK
  BY <1>1, <1>2 DEF Init, TypeOK
<1>4. TypeOK /\ [Next]_vars => TypeOK'
  <2> SUFFICES ASSUME TypeOK, [Next]_vars PROVE TypeOK'
    OBVIOUS
  <2>1. CASE Operation
    BY <2>1, OperationType DEF Operation, TypeOK, fileVars, PersistSteps
  <2>2. CASE CreateTmp
    BY <1>2, <2>2 DEF CreateTmp, TypeOK, PersistSteps
  <2>3. CASE WriteTmp
    BY <1>2, <2>3 DEF WriteTmp, TypeOK, PersistSteps
  <2>4. CASE SyncTmp
    <3>1. tmp' \in FileContents
      BY <2>4 DEF SyncTmp, TypeOK, FileContents
    <3> QED
      BY <2>4, <3>1 DEF SyncTmp, TypeOK, PersistSteps
  <2>5. CASE RenameTmp
    BY <1>2, <2>5 DEF RenameTmp, TypeOK
  <2>6. CASE PersistError \/ Kill
    BY <2>6 DEF PersistError, Kill, TypeOK, fileVars
  <2>7. CASE JournalCommit
    BY <1>2, <2>7 DEF JournalCommit, TypeOK
  <2>8. CASE PowerLoss
    BY <1>2, <2>8 DEF PowerLoss, TypeOK
  <2>9. CASE Load
    <3>1. Parse(target) \subseteq CounterValues
      BY <1>1 DEF TypeOK, Parse, FileContents, CounterValues
    <3> QED
      BY <2>9, <3>1 DEF Load, TypeOK, fileVars
  <2>10. CASE UNCHANGED vars
    BY <2>10 DEF vars, fileVars, TypeOK
  <2> QED
    BY <2>1, <2>2, <2>3, <2>4, <2>5, <2>6, <2>7, <2>8, <2>9, <2>10 DEF Next
<1> QED
  BY <1>3, <1>4, PTL DEF Spec

-----------------------------------------------------------------------------
(***************************************************************************)
(* No torn file, power losses included.                                    *)
(***************************************************************************)

\* A file that can become the counter file: never torn, synced, and zero when
\* it does not exist.
Sound(f) == /\ f.kind \in {"absent", "whole"}
            /\ f.synced = TRUE
            /\ f.kind = "absent" => f.value = CountersDefault

\* The temp file is whole before it is synced and renamed.
StoreInv ==
  /\ Sound(target)
  /\ Sound(durable)
  /\ pc = "sync" => tmp.kind = "whole" /\ tmp.value = mem
  /\ pc = "rename" => tmp.kind = "whole" /\ tmp.value = mem /\ tmp.synced = TRUE

\* The invariant of the store: the counter file is sound, on the disk too, and
\* the rename installs the value in memory.
LEMMA StoreInvariant == Spec => []StoreInv
<1>1. Init => StoreInv
  BY DEF Init, StoreInv, Sound, Absent
<1>2. TypeOK /\ StoreInv /\ [Next]_vars => StoreInv'
  <2> SUFFICES ASSUME TypeOK, StoreInv, [Next]_vars PROVE StoreInv'
    OBVIOUS
  <2>1. CASE Operation \/ PersistError \/ Kill \/ Load
    BY <2>1 DEF Operation, PersistError, Kill, Load, StoreInv, Sound, fileVars
  <2>2. CASE CreateTmp
    BY <2>2 DEF CreateTmp, StoreInv, Sound
  <2>3. CASE WriteTmp
    BY <2>3 DEF WriteTmp, StoreInv, Sound, Whole
  <2>4. CASE SyncTmp
    <3>1. tmp'.kind = "whole" /\ tmp'.value = mem /\ tmp'.synced = TRUE
      BY <2>4 DEF SyncTmp, StoreInv, TypeOK, FileContents
    <3> QED
      BY <2>4, <3>1 DEF SyncTmp, StoreInv, Sound
  <2>5. CASE RenameTmp
    BY <2>5 DEF RenameTmp, StoreInv, Sound
  <2>6. CASE JournalCommit \/ PowerLoss
    BY <2>6 DEF JournalCommit, PowerLoss, StoreInv, Sound
  <2>7. CASE UNCHANGED vars
    BY <2>7 DEF vars, fileVars, StoreInv, Sound
  <2> QED
    BY <2>1, <2>2, <2>3, <2>4, <2>5, <2>6, <2>7 DEF Next
<1> QED
  BY <1>1, <1>2, StoreTypeCorrect, PTL DEF Spec

\* No failure, a power loss included, ever leaves a torn counter file.
THEOREM NeverTorn == Spec => []DiskNeverTorn
<1>1. StoreInv => DiskNeverTorn
  BY DEF StoreInv, Sound, DiskNeverTorn
<1> QED
  BY <1>1, StoreInvariant, PTL

-----------------------------------------------------------------------------
(***************************************************************************)
(* Refinement.                                                             *)
(***************************************************************************)

\* The store implements PersistentCounters under every failure: the rename is
\* the step that saves, an error or a kill gives the operation up, a load
\* restarts, a journal commit settles, and all other file operations are
\* invisible.
THEOREM StoreRefines == Spec => ImplementsPersistentCounters
<1>1. Init => Abstract!PInit
  BY DEF Init, Abstract!PInit, Absent, PersistSteps, CountersDefault, Abstract!CountersDefault
<1>2. StoreInv /\ [Next]_vars => [Abstract!PNext]_(Abstract!pvars)
  <2> SUFFICES ASSUME StoreInv, [Next]_vars PROVE [Abstract!PNext]_(Abstract!pvars)
    OBVIOUS
  <2>1. CASE Operation
    <3>1. mem' \in Abstract!Successors(mem)
      BY <2>1 DEF Operation, Abstract!Successors, IncrementBale, AdjustSession, ResetSession,
                  ResetTotal, Saturate, Abstract!IncrementBale, Abstract!AdjustSession,
                  Abstract!ResetSession, Abstract!ResetTotal, Abstract!Saturate
    <3>2. Abstract!Change
      BY <2>1, <3>1 DEF Operation, Abstract!Change, PersistSteps, fileVars
    <3> QED
      BY <3>2 DEF Abstract!PNext
  <2>2. CASE CreateTmp \/ WriteTmp \/ SyncTmp
    <3>1. UNCHANGED <<mem, target, durable>> /\ pc \in PersistSteps /\ pc' \in PersistSteps
      BY <2>2 DEF CreateTmp, WriteTmp, SyncTmp, PersistSteps
    <3> QED
      BY <3>1 DEF Abstract!pvars
  <2>3. CASE RenameTmp
    <3>1. Abstract!Save
      BY <2>3 DEF RenameTmp, StoreInv, Abstract!Save, PersistSteps
    <3> QED
      BY <3>1 DEF Abstract!PNext
  <2>4. CASE PersistError
    <3>1. Abstract!GiveUp
      BY <2>4 DEF PersistError, Abstract!GiveUp, PersistSteps, fileVars
    <3> QED
      BY <3>1 DEF Abstract!PNext
  <2>5. CASE Kill
    <3>1. UNCHANGED <<mem, target, durable>> /\ pc' \notin PersistSteps
      BY <2>5 DEF Kill, PersistSteps, fileVars
    <3>2. CASE pc \in PersistSteps
      BY <3>1, <3>2 DEF Abstract!GiveUp, Abstract!PNext
    <3>3. CASE pc \notin PersistSteps
      BY <3>1, <3>3 DEF Abstract!pvars
    <3> QED
      BY <3>2, <3>3
  <2>6. CASE Load
    <3>1. Parse(target) = {target.value}
      BY DEF StoreInv, Sound, Parse
    <3>2. Abstract!Restart
      BY <2>6, <3>1 DEF Load, Abstract!Restart, PersistSteps, fileVars
    <3> QED
      BY <3>2 DEF Abstract!PNext
  <2>7. CASE JournalCommit
    <3>1. durable' = target
      BY <2>7 DEF JournalCommit, StoreInv, Sound
    <3>2. Abstract!Settle
      BY <2>7, <3>1 DEF JournalCommit, Abstract!Settle
    <3> QED
      BY <3>2 DEF Abstract!PNext
  <2>8. CASE PowerLoss
    <3>1. Abstract!LosePower
      BY <2>8 DEF PowerLoss, Abstract!LosePower, PersistSteps
    <3> QED
      BY <3>1 DEF Abstract!PNext
  <2> QED
    BY <2>1, <2>2, <2>3, <2>4, <2>5, <2>6, <2>7, <2>8 DEF Next, vars, fileVars, Abstract!pvars
<1> QED
  BY <1>1, <1>2, StoreInvariant, PTL DEF Spec, Abstract!PSpec, ImplementsPersistentCounters
=============================================================================
