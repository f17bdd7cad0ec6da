---------------------------- MODULE MCFormJob ----------------------------
(***************************************************************************)
(* FormJob for TLC.                                                        *)
(***************************************************************************)
EXTENDS FormJob, TLC

RequestSymmetry == Permutations(Request)
=============================================================================
