---------------------------- MODULE MCAcceptLoop -----------------------------
(* Four slots, three descriptors: the table of descriptors fills first, as *)
(* in the shipped build (1024 against 4096), then the array.               *)
EXTENDS AcceptLoop
=============================================================================
