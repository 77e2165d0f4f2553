---------------------------- MODULE MCFanoutGate ----------------------------
(***************************************************************************)
(* FanoutGate for TLC: a few requests of one prefix, each of which comes   *)
(* back when it has left.                                                  *)
(***************************************************************************)
EXTENDS FanoutGate, TLC

CONSTANTS r1, r2, r3, r4
=============================================================================
