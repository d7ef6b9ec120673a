----------------------------- MODULE MCAutostart -----------------------------
(***************************************************************************)
(* Model checking of Autostart.  The runs have liveness properties and use *)
(* no symmetry.                                                            *)
(***************************************************************************)
EXTENDS Autostart
=============================================================================
