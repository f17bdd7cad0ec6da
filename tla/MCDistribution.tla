--------------------------- MODULE MCDistribution ---------------------------
(***************************************************************************)
(* Distribution for TLC.  Ids are interchangeable, so the safety runs may  *)
(* identify states that differ only in their names.                        *)
(***************************************************************************)
EXTENDS Distribution, TLC

MessageSymmetry == Permutations(Message)
HandlerSymmetry == Permutations(Handler)
ActorSymmetry   == Permutations(Handler) \cup Permutations(Worker)
=============================================================================
