------------------------ MODULE MCTransfersReporting ------------------------
(* TransfersReporting on small instances. *)
EXTENDS TransfersReporting, TLC

(* Transfers differ in nothing but their identity (safety runs only). *)
TransferSymmetry == Permutations(Transfers)

=============================================================================
