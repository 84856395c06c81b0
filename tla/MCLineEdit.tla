----------------------------- MODULE MCLineEdit -----------------------------
(* A line of a few letters and spaces *)
EXTENDS LineEdit
=============================================================================
