-------------------------- MODULE MCCollectionInit --------------------------
(* CollectionInit with the two services that initialise the "transfers"
   collection: the transfers reporting service, and two processes of the
   settlements reporting service, which has two more collections. *)
EXTENDS CollectionInit, TLC

CONSTANTS transfersSvc, settlementsSvc1, settlementsSvc2

MCNeeds ==
  transfersSvc :> <<"transfers">>
    @@ settlementsSvc1 :> <<"transfers", "batches", "matrices">>
    @@ settlementsSvc2 :> <<"transfers", "batches", "matrices">>
=============================================================================
