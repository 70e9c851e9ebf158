-------------------------- MODULE MCAccountOpening --------------------------
(* Small instances of AccountOpening.                                      *)
EXTENDS AccountOpening
=============================================================================
