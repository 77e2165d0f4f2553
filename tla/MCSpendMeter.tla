---------------------------- MODULE MCSpendMeter ----------------------------
(***************************************************************************)
(* SpendMeter for TLC: two sessions, the first serves two requests at a    *)
(* time.                                                                   *)
(***************************************************************************)
EXTENDS SpendMeter, TLC

CONSTANTS a, b

MCSessionOf == "t1" :> a @@ "t2" :> a @@ "t3" :> b
=============================================================================
