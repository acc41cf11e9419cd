----------------------------- MODULE Navigation -----------------------------
(***************************************************************************)
(* The screens of the operator panel and the commands it can send          *)
(* (baler-ui/src/main.rs), shared by Panel and PanelScreens.               *)
(***************************************************************************)
EXTENDS BalerState

Nav == {"Main", "Service", "Ethernet", "Fault", "IoTest"}

NoCommand == [kind |-> "None"]
Plain(k) == [kind |-> k]
Adjust(d) == [kind |-> "AdjustSession", delta |-> d]

\* Mutated form: Ethernet mode does not take the operator off Service either.
NextNavKeepsService(current, m) ==
  CASE m = "Fault" -> IF current = "Service" THEN "Service" ELSE "Fault"
    [] m = "Ethernet" -> IF current = "Service" THEN "Service" ELSE "Ethernet"
    [] OTHER -> IF current \in {"Fault", "Ethernet"} THEN "Main" ELSE current

\* next_nav: the screen follows the mode, but a fault leaves Service alone.
NextNav(current, m) ==
  CASE m = "Fault" -> IF current = "Service" THEN "Service" ELSE "Fault"
    [] m = "Ethernet" -> "Ethernet"
    [] OTHER -> IF current \in {"Fault", "Ethernet"} THEN "Main" ELSE current
=============================================================================
