---------------------------- MODULE RecentLines ----------------------------
(***************************************************************************)
(* What a command history promises: the last Max lines, newest first.      *)
(***************************************************************************)
EXTENDS Integers, Sequences

CONSTANTS Line, Max

VARIABLE lines

Init == lines = <<>>

Add(l) ==
    lines' = [i \in 1 .. (IF Len(lines) < Max THEN Len(lines) + 1 ELSE Max) |->
                  IF i = 1 THEN l ELSE lines[i - 1]]

Next == \E l \in Line : Add(l)

Spec == Init /\ [][Next]_lines
=============================================================================
