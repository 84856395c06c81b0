------------------------------ MODULE LineEdit ------------------------------
(***************************************************************************)
(* The line editor of SyterKit's shell, src/cli/lineedit.c, over the       *)
(* command history: the edit buffer with its cursor, the clipboard, the    *)
(* line saved while the user walks through the history, and the row of the *)
(* terminal the editor writes to with characters and backspaces only.      *)
(*                                                                         *)
(* A key is one step.  Strings that are only copied are sequences, the     *)
(* edit buffer is the array it is.  The terminal is wide enough for a      *)
(* line; the prompt and the bell are left out.                             *)
(***************************************************************************)
EXTENDS Cli

CONSTANTS
    HistMax,    \* MSH_CMD_HISTORY_MAX
    Null,       \* NULL
    EnterMax    \* bound of the model: no longer line is entered

ASSUME LineEditAssumption ==
    /\ HistMax \in Nat \ {0}
    /\ Null \notin Strings
    /\ EnterMax \in Nat

VARIABLES
    ed,         \* CmdLine: buf, pos, linelen, clipboard; and the terminal
    curline,    \* the line saved from before the walk
    histnum,    \* how far back the walk is
    history, histfull, histlast     \* of history.c

histVars == <<history, histfull, histlast>>
vars == <<ed, curline, histnum, histVars>>

Index == 0 .. CharMax - 1

H == INSTANCE History WITH Line <- Strings \ {<<>>}, Blank <- <<>>

-----------------------------------------------------------------------------
(* C strings and the terminal                                              *)

\* b[i .. j-1] as a sequence
Chars(b, i, j) == [k \in 1 .. j - i |-> b[i + k - 1]]

\* The string at &b[i]; without a null it ends with the array.
Str(b, i) ==
    LET End == {k \in i .. CharMax - 1 : b[k] = NUL} \cup {CharMax}
    IN  Chars(b, i, CHOOSE k \in End : \A l \in End : k <= l)

\* An array of zeros with the string s copied to it
Filled(s) == [k \in Index |-> IF k < Len(s) THEN s[k + 1] ELSE NUL]

Row == [cells |-> [k \in 0 .. CharMax |-> Space], col |-> 0]

\* The characters of s are written from the cursor on.
Puts(t, s) ==
    [cells |-> [k \in 0 .. CharMax |->
                   IF k \in t.col .. t.col + Len(s) - 1 THEN s[k - t.col + 1]
                   ELSE t.cells[k]],
     col |-> t.col + Len(s)]

\* n times '\b'
Back(t, n) == [t EXCEPT !.col = @ - n]

Spaces(n) == [i \in 1 .. n |-> Space]

-----------------------------------------------------------------------------
(* The editing functions, from a state of the editor to the next           *)

\* cmdline_clear
Clear(e) == [e EXCEPT !.buf = Filled(<<>>), !.pos = 0, !.linelen = 0]

\* cmdline_kill
Kill(e) ==
    [Clear(e) EXCEPT !.term =
        Back(Puts(Back(@, e.pos), Spaces(e.linelen)), e.linelen)]

\* cmdline_set
Set(e, s) ==
    [Kill(e) EXCEPT !.buf = Filled(s), !.pos = Len(s), !.linelen = Len(s),
                    !.term = Puts(@, s)]

\* Mutant of Full: the byte for the null is taken for a character.
FullLate(e) == e.linelen >= CharMax

\* The buffer cannot hold another character.
Full(e) == e.linelen >= CharMax - 1

\* cmdline_insert_char: what is behind the cursor is printed and slides up.
InsertChar(e, c) ==
    IF Full(e) THEN e
    ELSE [e EXCEPT
            !.buf = [k \in Index |->
                        IF k = e.pos THEN c
                        ELSE IF k \in e.pos + 1 .. e.linelen THEN e.buf[k - 1]
                        ELSE IF k = e.linelen + 1 THEN NUL ELSE e.buf[k]],
            !.pos = @ + 1, !.linelen = @ + 1,
            !.term = IF e.pos = e.linelen THEN Puts(@, <<c>>)
                     ELSE Back(Puts(@, <<c>> \o Str(e.buf, e.pos)), e.linelen - e.pos)]

\* buf[i] is removed from a line of n characters, the rest slides down.
Removed(b, i, n) ==
    [k \in Index |-> IF k \in i .. n - 2 THEN b[k + 1]
                     ELSE IF k = n - 1 THEN NUL ELSE b[k]]

\* Mutant of BackspaceKey: one '\b' too few brings the cursor back.
BackspaceKeyShort(e) ==
    IF e.pos <= 0 THEN e
    ELSE [e EXCEPT
            !.buf = Removed(@, e.pos - 1, e.linelen),
            !.pos = @ - 1, !.linelen = @ - 1,
            !.term = Back(Puts(Back(@, 1), Append(Chars(e.buf, e.pos, e.linelen), Space)),
                          e.linelen - e.pos)]

\* cmdline_backspace
BackspaceKey(e) ==
    IF e.pos <= 0 THEN e
    ELSE [e EXCEPT
            !.buf = Removed(@, e.pos - 1, e.linelen),
            !.pos = @ - 1, !.linelen = @ - 1,
            !.term = Back(Puts(Back(@, 1), Append(Chars(e.buf, e.pos, e.linelen), Space)),
                          e.linelen - e.pos + 1)]

\* cmdline_delete
DeleteKey(e) ==
    IF e.linelen <= e.pos THEN e
    ELSE [e EXCEPT
            !.buf = Removed(@, e.pos, e.linelen),
            !.linelen = @ - 1,
            !.term = Back(Puts(@, Append(Chars(e.buf, e.pos + 1, e.linelen), Space)),
                          e.linelen - e.pos)]

\* The cursor moves left with backspaces, right over the characters.
CursorTo(e, p) ==
    [e EXCEPT !.pos = p,
              !.term = IF p < e.pos THEN Back(@, e.pos - p)
                       ELSE Puts(@, Chars(e.buf, e.pos, p))]

\* Ctrl-L: to the line head, clear the screen, print the line.
ClearScreen(e) == CursorTo([e EXCEPT !.pos = 0, !.term = Row], e.linelen)

\* cmdline_yank: the clipboard is typed, character by character.
Yank(e) ==
    LET typed[n \in 0 .. Len(e.clipboard)] ==
            IF n = 0 THEN e ELSE InsertChar(typed[n - 1], e.clipboard[n])
    IN  typed[Len(e.clipboard)]

\* cmdline_killtail; with nothing behind the cursor it only adds a bell.
KillTail(e) ==
    LET n == e.linelen - e.pos IN
    [e EXCEPT !.clipboard = Str(e.buf, e.pos),
              !.buf[e.pos] = NUL,
              !.linelen = e.pos,
              !.term = Back(Puts(@, Spaces(n)), n)]

\* The characters cmdline_killword takes: spaces before the cursor, then the
\* word before them
WordLength(e) ==
    LET Run(i, S) == CHOOSE j \in i .. e.pos :
                        /\ \A k \in i .. j - 1 : e.buf[e.pos - k - 1] \in S
                        /\ j < e.pos => e.buf[e.pos - j - 1] \notin S
    IN  Run(Run(0, {Space}), Char \ {Space})

\* cmdline_killword
KillWord(e) ==
    LET erased[n \in 0 .. e.pos] ==
            IF n = 0 THEN e ELSE BackspaceKey(erased[n - 1])
        n == WordLength(e)
    IN  IF e.pos = 0 THEN e
        ELSE [erased[n] EXCEPT !.clipboard = Chars(e.buf, e.pos - n, e.pos)]

-----------------------------------------------------------------------------
(* Keys                                                                    *)

Init ==
    /\ ed = [buf |-> Filled(<<>>), pos |-> 0, linelen |-> 0,
             clipboard |-> <<>>, term |-> Row]
    /\ curline = <<>>
    /\ histnum = 0
    /\ H!Init

\* A key that edits the line
Edit(e) == ed' = e /\ UNCHANGED <<curline, histnum, histVars>>

InsertKey(c)  == Edit(InsertChar(ed, c))
Backspace     == Edit(BackspaceKey(ed))
Delete        == Edit(DeleteKey(ed))
Left          == ed.pos > 0 /\ Edit(CursorTo(ed, ed.pos - 1))
Right         == ed.pos < ed.linelen /\ Edit(CursorTo(ed, ed.pos + 1))
Linehead      == Edit(CursorTo(ed, 0))
Linetail      == Edit(CursorTo(ed, ed.linelen))
ClearKey      == Edit(ClearScreen(ed))
YankKey       == Edit(Yank(ed))
KilltailKey   == Edit(KillTail(ed))
KillwordKey   == Edit(KillWord(ed))
KillKey       == Edit(Kill(ed))

\* Mutant of HistPrev: the line is saved at every step of the walk.
HistPrevSaves ==
    LET line == H!HistoryGet(histnum) IN
    /\ curline' = Str(ed.buf, 0)
    /\ IF line # Null THEN ed' = Set(ed, line) /\ histnum' = histnum + 1
       ELSE UNCHANGED <<ed, histnum>>
    /\ UNCHANGED histVars

\* Ctrl-P: the first step back saves the line.
HistPrev ==
    LET line == H!HistoryGet(histnum) IN
    /\ curline' = IF histnum = 0 THEN Str(ed.buf, 0) ELSE curline
    /\ IF line # Null THEN ed' = Set(ed, line) /\ histnum' = histnum + 1
       ELSE UNCHANGED <<ed, histnum>>
    /\ UNCHANGED histVars

\* Ctrl-N: the last step forward restores it.
HistNext ==
    LET line == IF histnum = 1 THEN curline ELSE H!HistoryGet(histnum - 2) IN
    /\ histnum >= 1
    /\ line # Null
    /\ ed' = Set(ed, line)
    /\ histnum' = histnum - 1
    /\ UNCHANGED <<curline, histVars>>

\* msh_get_cmdline returns, and is called again when the commands are done.
Return(line) ==
    /\ H!HistoryAppend(line)
    /\ histnum' = 0
    /\ ed' = [Clear(ed) EXCEPT !.term = Row]
    /\ UNCHANGED curline

Enter   == ed.linelen <= EnterMax /\ Return(Str(ed.buf, 0))
Discard == Return(<<>>)

Next ==
    \/ \E c \in Char : InsertKey(c)
    \/ Backspace \/ Delete
    \/ Left \/ Right \/ Linehead \/ Linetail \/ ClearKey
    \/ YankKey \/ KilltailKey \/ KillwordKey \/ KillKey
    \/ HistPrev \/ HistNext
    \/ Enter \/ Discard

Spec == Init /\ [][Next]_vars

-----------------------------------------------------------------------------
(* Properties                                                              *)

\* Every variable has its type.
TypeOK ==
    /\ ed.buf \in [Index -> Char \cup {NUL}]
    /\ ed.linelen \in Index /\ ed.pos \in 0 .. ed.linelen
    /\ ed.clipboard \in Strings /\ curline \in Strings
    /\ histnum \in 0 .. HistMax
    /\ H!TypeOK

\* The terminal shows the line with the cursor at pos, whatever was inserted,
\* removed, recalled or cleared.
Echo ==
    ed.term = [cells |-> [k \in 0 .. CharMax |->
                             IF k < ed.linelen THEN ed.buf[k] ELSE Space],
               col |-> ed.pos]

\* The editor is a line with a cursor; a walk through the history gives the
\* lines entered, and the line it started from when it comes back.
Abstract == INSTANCE EditLine WITH
    MaxLen <- CharMax - 1, MaxLines <- HistMax,
    left <- Chars(ed.buf, 0, ed.pos),
    right <- Chars(ed.buf, ed.pos, ed.linelen),
    clip <- ed.clipboard,
    lines <- [i \in 1 .. H!Count |-> H!HistoryGet(i - 1)],
    back <- histnum,
    saved <- IF histnum = 0 THEN <<>> ELSE curline
ImplementsEditLine == Abstract!Spec
=============================================================================
