-------------------------------- MODULE Cli --------------------------------
(***************************************************************************)
(* What the files of SyterKit's shell, src/cli, have in common: the size   *)
(* of a line and what it is made of (include/cli/cli_config.h).            *)
(***************************************************************************)
EXTENDS Integers, Sequences

CONSTANTS
    CharMax,    \* MSH_CMDLINE_CHAR_MAX
    Char,       \* printable characters,
    Space,      \* and which of them is the space
    NUL         \* '\0'

ASSUME CliAssumption ==
    /\ CharMax \in Nat \ {0, 1}
    /\ Space \in Char
    /\ NUL \notin Char

\* The lines that fit in a buffer of CharMax bytes
Strings == UNION {[1 .. n -> Char] : n \in 0 .. CharMax - 1}
=============================================================================
