----------------------------- MODULE MCAdmission -----------------------------
(* Finite instances of Admission.                                          *)
EXTENDS Admission, TLC
=============================================================================
