------------------------------ MODULE MCShell ------------------------------
(* One letter for each table *)
EXTENDS Shell

CONSTANTS a, b

UserNames == {<<a>>}
BuiltinNames == {<<b>>}
Fine == {0}
FineOrFailed == {-1, 0}
=============================================================================
