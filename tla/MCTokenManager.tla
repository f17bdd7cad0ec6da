--------------------------- MODULE MCTokenManager ---------------------------
(***************************************************************************)
(* TokenManager for TLC.                                                   *)
(***************************************************************************)
EXTENDS TokenManager, TLC
=============================================================================
