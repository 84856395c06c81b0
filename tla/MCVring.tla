------------------------------- MODULE MCVring -------------------------------
(* Model checking of one vring on its own: a small ring whose indices wrap. *)
EXTENDS Vring
=============================================================================
