------------------------------- MODULE MCICMP -------------------------------
(***************************************************************************)
(* ICMPProxy with two pings that differ in their source only.              *)
(***************************************************************************)
EXTENDS ICMPProxy
MCKeys == {[src |-> s, dst |-> "d", echo |-> 1] : s \in {"s1", "s2"}}
=============================================================================
