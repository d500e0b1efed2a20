--------------------------- MODULE MCCommandDelivery ---------------------------
(***************************************************************************)
(* CommandDelivery on small instances.                                       *)
(***************************************************************************)
EXTENDS CommandDelivery, TLC

CommandSymmetry == Permutations(Commands)

================================================================================
