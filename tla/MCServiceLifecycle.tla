------------------------- MODULE MCServiceLifecycle -------------------------
(* ServiceLifecycle for all five services and both signals. *)
EXTENDS ServiceLifecycle

CONSTANTS SIGINT, SIGTERM
=============================================================================
