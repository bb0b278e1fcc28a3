----------------------------- MODULE MCHandover -----------------------------
(* Model-checking instances of Handover: FIFOs of two packets, so that one  *)
(* fills up.                                                               *)
EXTENDS Handover
=============================================================================
