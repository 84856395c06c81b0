------------------------------- MODULE MCBoot -------------------------------
(* Model checking of the boot program. *)
EXTENDS Boot
=============================================================================
