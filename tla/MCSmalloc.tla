------------------------------ MODULE MCSmalloc ------------------------------
(* A heap in which a handful of blocks of two sizes fit *)
EXTENDS Smalloc
=============================================================================
