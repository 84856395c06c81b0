------------------------------- MODULE History -------------------------------
(***************************************************************************)
(* The command history of SyterKit's shell, src/cli/history.c: a ring of   *)
(* lines written at histlast and read backwards from it.                   *)
(***************************************************************************)
EXTENDS Integers, Sequences

CONSTANTS
    HistMax,    \* MSH_CMD_HISTORY_MAX
    Line,       \* the lines the ring takes: neither empty nor too long
    Blank,      \* the empty line: what the array holds at start-up
    Null        \* NULL

\* What is assumed of them
HistoryAssumption ==
    /\ HistMax \in Nat \ {0}
    /\ Blank \notin Line
    /\ Null \notin Line \cup {Blank}

VARIABLES history, histfull, histlast

vars == <<history, histfull, histlast>>

Index == 0 .. HistMax - 1

Init ==
    /\ history = [i \in Index |-> Blank]
    /\ histfull = FALSE
    /\ histlast = 0

\* history_append
HistoryAppend(l) ==
    IF l \notin Line THEN UNCHANGED vars
    ELSE /\ history' = [history EXCEPT ![histlast] = l]
         /\ IF histlast >= HistMax - 1
              THEN histfull' = TRUE /\ histlast' = 0
              ELSE histlast' = histlast + 1 /\ UNCHANGED histfull

\* history_get(n), the n-th line back
HistoryGet(n) ==
    IF n >= (IF histfull THEN HistMax ELSE histlast) THEN Null
    ELSE IF histlast > n THEN history[histlast - n - 1]
    ELSE history[HistMax - (n - histlast) - 1]

Next == \E l \in Line \cup {Blank} : HistoryAppend(l)

Spec == Init /\ [][Next]_vars

-----------------------------------------------------------------------------
(* Properties                                                              *)

\* Every variable has its type; what was written is a line.
TypeOK ==
    /\ history \in [Index -> Line \cup {Blank}]
    /\ histfull \in BOOLEAN
    /\ histlast \in Index
    /\ \A i \in Index : histfull \/ i < histlast => history[i] \in Line

\* How many lines can be got back
Count == IF histfull THEN HistMax ELSE histlast

\* history_get(0), history_get(1), ... are the latest lines, newest first,
\* across the end of the array and whether or not it has been filled.
Recent == INSTANCE RecentLines
    WITH Max <- HistMax, lines <- [i \in 1 .. Count |-> HistoryGet(i - 1)]
RecallsRecent == Recent!Spec
=============================================================================
