------------------------------ MODULE MCParking ------------------------------
(***************************************************************************)
(* Model checking of Parking.                                              *)
(***************************************************************************)
EXTENDS Parking
=============================================================================
