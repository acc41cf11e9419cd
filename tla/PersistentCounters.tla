------------------------- MODULE PersistentCounters -------------------------
(***************************************************************************)
(* What the counters promise the daemon: an operation changes the values   *)
(* in memory at once and the saved values either in one step or not at     *)
(* all, and a restart finds the saved values.  A power loss takes them     *)
(* back to values that were saved earlier, never to anything else.         *)
(***************************************************************************)
EXTENDS Counters

VARIABLES
  mem,      \* the values in memory
  saved,    \* the values a restart will find
  stable,   \* the values a restart will find after a power loss
  busy      \* an operation is saving

pvars == <<mem, saved, stable, busy>>

PInit ==
  /\ mem = CountersDefault
  /\ saved = CountersDefault
  /\ stable = CountersDefault
  /\ busy = FALSE

\* The values an operation may leave, with corrections by +1 and -1.
Successors(c) ==
  {IncrementBale(c), AdjustSession(c, 1), AdjustSession(c, -1), ResetSession(c), ResetTotal(c)}

Change ==
  /\ ~busy
  /\ mem' \in Successors(mem)
  /\ busy' = TRUE
  /\ UNCHANGED <<saved, stable>>

Save ==
  /\ busy
  /\ saved' = mem
  /\ busy' = FALSE
  /\ UNCHANGED <<mem, stable>>

\* The operation reports an error, or the daemon dies in it.
GiveUp ==
  /\ busy
  /\ busy' = FALSE
  /\ UNCHANGED <<mem, saved, stable>>

Restart ==
  /\ ~busy
  /\ mem' = saved
  /\ UNCHANGED <<saved, stable, busy>>

\* What was saved becomes safe from a power loss, at any time.
Settle ==
  /\ stable' = saved
  /\ UNCHANGED <<mem, saved, busy>>

LosePower ==
  /\ saved' = stable
  /\ busy' = FALSE
  /\ UNCHANGED <<mem, stable>>

PNext == Change \/ Save \/ GiveUp \/ Restart \/ Settle \/ LosePower

PSpec == PInit /\ [][PNext]_pvars
=============================================================================
