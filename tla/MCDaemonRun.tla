----------------------------- MODULE MCDaemonRun ----------------------------
(***************************************************************************)
(* The daemon with a focus, fixed at the start: a behaviour moves the gate *)
(* or presses keys that drive outputs, not both, and the rest is free.     *)
(***************************************************************************)
EXTENDS MCDaemon

VARIABLE focus

MCInit == DInit /\ focus \in {"outputs", "counting"}

MCNext ==
  /\ DNext
  /\ UNCHANGED focus
  /\ focus = "outputs" => UNCHANGED gate
  /\ focus = "counting" => \A k \in DOMAIN queue' : queue'[k] \in ModeCommands

\* The focus holds back only the panel and the gate, of which no fairness is
\* assumed.
MCFairSpec == MCInit /\ [][MCNext]_<<dvars, focus>> /\ DFairness
=============================================================================
