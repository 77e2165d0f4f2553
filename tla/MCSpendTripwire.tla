-------------------------- MODULE MCSpendTripwire --------------------------
(***************************************************************************)
(* SpendTripwire for TLC: a session that serves two requests at a time,    *)
(* and others that only trip.                                              *)
(***************************************************************************)
EXTENDS SpendTripwire, TLC

CONSTANT a

MCSessionOf == "t1" :> a @@ "t2" :> a
=============================================================================
