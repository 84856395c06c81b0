------------------------------ MODULE EditLine ------------------------------
(***************************************************************************)
(* What a shell's line editor promises: a line with a cursor in it, a      *)
(* clipboard, and a walk through the latest lines that gives back the line *)
(* it started from.                                                        *)
(***************************************************************************)
EXTENDS Integers, Sequences

CONSTANTS
    Char, Space,
    MaxLen,         \* characters in a line
    MaxLines        \* lines that can be recalled

VARIABLES
    left, right,    \* the line before the cursor, and from it on
    clip,           \* what Yank inserts
    lines,          \* the lines entered, newest first
    back,           \* how many lines the walk has gone back
    saved           \* the line the walk started from

line == left \o right
view == <<left, right>>
walk == <<lines, back, saved>>
vars == <<view, clip, walk>>

Last(s, n) == SubSeq(s, Len(s) - n + 1, Len(s))
But(s, n)  == SubSeq(s, 1, Len(s) - n)
First(s, n) == SubSeq(s, 1, IF n < Len(s) THEN n ELSE Len(s))

Init ==
    /\ left = <<>> /\ right = <<>> /\ clip = <<>>
    /\ lines = <<>> /\ back = 0 /\ saved = <<>>

Type(s) ==
    /\ left' = left \o First(s, MaxLen - Len(line))
    /\ UNCHANGED <<right, clip, walk>>

Backspace ==
    /\ left # <<>>
    /\ left' = But(left, 1)
    /\ UNCHANGED <<right, clip, walk>>

Delete ==
    /\ right # <<>>
    /\ right' = Tail(right)
    /\ UNCHANGED <<left, clip, walk>>

Move(n) ==
    /\ left' = SubSeq(line, 1, n)
    /\ right' = SubSeq(line, n + 1, Len(line))
    /\ UNCHANGED <<clip, walk>>

KillTail ==
    /\ clip' = right
    /\ right' = <<>>
    /\ UNCHANGED <<left, walk>>

\* A word and the spaces behind it
IsWord(s) ==
    \A i, j \in DOMAIN s : i < j /\ s[i] = Space => s[j] = Space

KillWord ==
    /\ left # <<>>
    /\ \E n \in 1 .. Len(left) :
         /\ IsWord(Last(left, n))
         /\ \A m \in n + 1 .. Len(left) : ~IsWord(Last(left, m))
         /\ clip' = Last(left, n)
         /\ left' = But(left, n)
    /\ UNCHANGED <<right, walk>>

Show(s) == left' = s /\ right' = <<>> /\ UNCHANGED <<clip, lines>>

Kill == Show(<<>>) /\ UNCHANGED walk

Older ==
    /\ back < Len(lines)
    /\ Show(lines[back + 1])
    /\ back' = back + 1
    /\ saved' = IF back = 0 THEN line ELSE saved

Newer ==
    /\ back > 0
    /\ Show(IF back = 1 THEN saved ELSE lines[back - 1])
    /\ back' = back - 1
    /\ saved' = IF back = 1 THEN <<>> ELSE saved

Enter ==
    /\ left' = <<>> /\ right' = <<>>
    /\ back' = 0 /\ saved' = <<>>
    /\ lines' = IF line = <<>> THEN lines
                ELSE First(<<line>> \o lines, MaxLines)
    /\ UNCHANGED clip

Discard ==
    /\ left' = <<>> /\ right' = <<>>
    /\ back' = 0 /\ saved' = <<>>
    /\ UNCHANGED <<clip, lines>>

Next ==
    \/ \E c \in Char : Type(<<c>>)
    \/ Type(clip)
    \/ Backspace \/ Delete
    \/ \E n \in {0, Len(left) - 1, Len(left) + 1, Len(line)} :
           n \in 0 .. Len(line) /\ Move(n)
    \/ KillTail \/ KillWord \/ Kill
    \/ Older \/ Newer
    \/ Enter \/ Discard

Spec == Init /\ [][Next]_vars
=============================================================================
