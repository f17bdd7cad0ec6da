------------------------------- MODULE MCSns -------------------------------
(***************************************************************************)
(* SnsPosts alone, for the run that finds a disagreement.                  *)
(***************************************************************************)
EXTENDS SnsPosts

MCMedia == {1, 2}
Spec == SnsInit /\ [][SnsNext]_snsVars
=============================================================================
