---------------------------- MODULE MCTunnelServer ----------------------------
(* Instances of TunnelServer for TLC.                                      *)
EXTENDS TunnelServer, TLC

CONSTANTS c1, c2

ConnSymmetry == Permutations({c1, c2})

(* Once an event was dropped ReadyIsHonest claims nothing any more: the    *)
(* run that checks it alone need not go on from there.                     *)
NoEventDropped == ~dropped
=============================================================================
