----------------------- MODULE MCParticipantsReporting -----------------------
(* ParticipantsReporting on a small instance: p1 is approved by its second
   change, p2 never. *)
EXTENDS ParticipantsReporting, TLC

CONSTANTS p1, p2

MCApprovedAt == p1 :> 2 @@ p2 :> 0
=============================================================================
