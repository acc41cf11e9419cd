------------------------------ MODULE Counters ------------------------------
(***************************************************************************)
(* The session and total bale counters in memory                           *)
(* (baler-core/src/counter.rs).  Each operator is what one operation of    *)
(* CounterStore does to its counters field before it calls persist(); the  *)
(* file behind it is the subject of module CounterStore.                   *)
(***************************************************************************)
EXTENDS Integers

CONSTANT MaxCount   \* u64::MAX, where both counters saturate

ASSUME MaxCountAssumption == MaxCount \in Nat \ {0}

CounterValues == [session : 0 .. MaxCount, total : 0 .. MaxCount]

CountersDefault == [session |-> 0, total |-> 0]

-----------------------------------------------------------------------------
\* Mutated form: additions do not stop at the largest value.
SaturateAtZeroOnly(n) == IF n < 0 THEN 0 ELSE n
-----------------------------------------------------------------------------

\* u64::saturating_add and saturating_add_signed.
Saturate(n) == IF n < 0 THEN 0 ELSE IF n > MaxCount THEN MaxCount ELSE n

IncrementBale(c) == [session |-> Saturate(c.session + 1), total |-> Saturate(c.total + 1)]

AdjustSession(c, delta) == [c EXCEPT !.session = Saturate(@ + delta)]

ResetSession(c) == [c EXCEPT !.session = 0]

ResetTotal(c) == [c EXCEPT !.total = 0]
=============================================================================
