----------------------------- MODULE NetworkMode ----------------------------
(***************************************************************************)
(* The switch of the one NIC between EtherCAT and Ethernet                 *)
(* (baler-daemon/src/network_mode.rs): lists of ip commands, each of which *)
(* may fail and end its list.  No gateway is configured (build_net_wd).    *)
(***************************************************************************)
EXTENDS Integers, Sequences

\* The address the device was booted with, and the one of Ethernet mode.
Address == {"boot", "static"}

Nic == [up : BOOLEAN, addrs : SUBSET Address]

\* What one successful ip command does to the NIC.
RunIp(nic, command) ==
  CASE command = "link up"    -> [nic EXCEPT !.up = TRUE]
    [] command = "addr flush" -> [nic EXCEPT !.addrs = {}]
    [] command = "addr add"   -> [nic EXCEPT !.addrs = @ \cup {"static"}]

\* A list of ip commands that takes the NIC through these states ends with its
\* first error, in the state it has reached, or Ok.
RunList(states) == {[nic |-> states[k], ok |-> k = Len(states)] : k \in 1 .. Len(states)}

\* Mutated form: the stale addresses are flushed last.
EnterEthernetFlushLast(nic) ==
  LET up == RunIp(nic, "link up")
      added == RunIp(up, "addr add")
  IN RunList(<<nic, up, added, RunIp(added, "addr flush")>>)

\* NetworkMode::enter_ethernet: link up, stale addresses away, ours added.
EnterEthernet(nic) ==
  LET up == RunIp(nic, "link up")
      flushed == RunIp(up, "addr flush")
  IN RunList(<<nic, up, flushed, RunIp(flushed, "addr add")>>)

\* NetworkMode::enter_ethercat: addresses away, the link left up.
EnterEthercat(nic) ==
  LET flushed == RunIp(nic, "addr flush")
  IN RunList(<<nic, flushed, RunIp(flushed, "link up")>>)
=============================================================================
