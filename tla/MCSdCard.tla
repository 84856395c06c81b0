------------------------------ MODULE MCSdCard ------------------------------
(* Model checking of the card driver. *)
EXTENDS SdCard
=============================================================================
