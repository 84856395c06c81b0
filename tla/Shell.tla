------------------------------- MODULE Shell -------------------------------
(***************************************************************************)
(* SyterKit's shell: the loop of src/cli/shell.c that reads a line, parses *)
(* it sentence by sentence with src/cli/parse.c, and looks each command up *)
(* in the program's table and in the built-in one.                         *)
(*                                                                         *)
(* A sentence is one step.  The line editor delivers printable characters  *)
(* only.                                                                   *)
(* Pointers into the line are positions.  What a line leaves behind in     *)
(* argbuf is not kept for the next one, whose first parse writes it before *)
(* it is read (Name is undefined of an empty argbuf).                      *)
(*                                                                         *)
(* argv has room for ArgsMax words and nothing tests it: once a sentence   *)
(* has written behind it, what the stack holds, and what the shell does,   *)
(* is not known, and the model says no more.                               *)
(***************************************************************************)
EXTENDS Cli

CONSTANTS
    Sep, Escape, Quotes,        \* the other characters with a meaning
    User, Builtin,              \* names in the two tables
    Results,                    \* what commands return
    ArgsMax                     \* MSH_CMDARGS_MAX, entries of argv

ASSUME ShellAssumption ==
    /\ {Sep, Escape} \cup Quotes \subseteq Char
    /\ Escape \notin Quotes /\ Sep \notin Quotes \cup {Escape}
    /\ Space \notin Quotes \cup {Escape, Sep}
    /\ User \cap Builtin = {}
    /\ Results \subseteq Int
    /\ ArgsMax \in Nat \ {0}

VARIABLES
    mode,       \* "read" a line, "run" its sentences, "done" with it, or "overrun"
    line, at,   \* linebuf and linebufp
    argbuf,     \* what the last parse that wrote anything wrote
    ran,        \* history: the commands of this line looked up so far
    missing     \* history: the names reported as not found

shellVars == <<mode, line, at, argbuf, ran, missing>>

Error == [error |-> TRUE]

-----------------------------------------------------------------------------
(* The parser                                                              *)

\* Mutant of Escaped: the backslash is kept.
EscapedKept(l, p) == <<l[p], l[p + 1]>>

\* What an escape at p writes
Escaped(l, p) == <<l[p + 1]>>

\* Mutant of Terminated: the parser ends the word once more.
TerminatedTwice(word) == word \o <<NUL, NUL>>

\* A word as it is written to argvbuf
Terminated(word) == Append(word, NUL)

\* read_token stops at p.
Stop(p) == [error |-> FALSE, pos |-> p, word |-> <<>>]

\* It writes s and goes on to r.
Wrote(s, r) == IF r.error THEN r ELSE [r EXCEPT !.word = s \o @]

\* read_token at p, in the quote quoted or, if that is NUL, in none: where it
\* stops and what it writes; read says how it goes on from a later position.
ReadFrom(l, p, quoted, read) ==
    IF p > Len(l) THEN (IF quoted = NUL THEN Stop(p) ELSE Error)
    ELSE IF quoted # NUL THEN
        IF l[p] = quoted THEN read[p + 1][NUL]
        ELSE Wrote(<<l[p]>>, read[p + 1][quoted])
    ELSE IF l[p] \in Quotes THEN read[p + 1][l[p]]
    ELSE IF l[p] = Escape THEN
        IF p = Len(l) THEN Error ELSE Wrote(Escaped(l, p), read[p + 2][NUL])
    ELSE IF l[p] \in {Space, Sep} THEN Stop(p)
    ELSE Wrote(<<l[p]>>, read[p + 1][NUL])

ReadToken(l) ==
    LET read[p \in 1 .. Len(l) + 1] ==
            [quoted \in Quotes \cup {NUL} |-> ReadFrom(l, p, quoted, read)]
    IN  read

\* The first position from p on that is no space
Skip(l, p) ==
    CHOOSE q \in p .. Len(l) + 1 :
        /\ \A i \in p .. q - 1 : l[i] = Space
        /\ q <= Len(l) => l[q] # Space

\* A sentence is parsed; next = 0 stands for cmdline: the line is done.
Parsed(next, args, buf) == [error |-> FALSE, next |-> next, args |-> args, buf |-> buf]

\* A word, in args and in argvbuf, followed by the rest of its sentence
Followed(args, buf, r) ==
    IF r.error THEN r ELSE [r EXCEPT !.args = args \o @, !.buf = buf \o @]

\* The rest of a sentence at p; parse says how it goes on from a later
\* position.  Nothing read is no argument, but its null is written.
ParseFrom(l, p, parse) ==
    LET q == Skip(l, p)
        token == ReadToken(l)[q][NUL]
        args == IF token.pos = q THEN <<>> ELSE <<token.word>>
        buf == Terminated(token.word)
    IN  IF p > Len(l) THEN Parsed(0, <<>>, <<>>)
        ELSE IF token.error THEN Error
        ELSE IF token.pos > Len(l) THEN Parsed(0, args, buf)
        ELSE IF l[token.pos] = Sep THEN Parsed(token.pos + 1, args, buf)
        ELSE Followed(args, buf, parse[token.pos])

\* msh_parse_line
ParseLine(l, at0) ==
    LET parse[p \in 1 .. Len(l) + 1] == ParseFrom(l, p, parse)
    IN  parse[at0]

\* argv[0] is set, and the entry behind each word that a space ends: the sentence
\* goes on there, if only to find that there is nothing more or an error.
ArgvFrom(l, p, argv) ==
    LET token == ReadToken(l)[Skip(l, p)][NUL]
    IN  IF p <= Len(l) /\ ~token.error /\ token.pos <= Len(l) /\ l[token.pos] # Sep
        THEN 1 + argv[token.pos] ELSE 1

\* How many entries of argv msh_parse_line writes
ArgvWritten(l, at0) ==
    LET argv[p \in 1 .. Len(l) + 1] == ArgvFrom(l, p, argv)
    IN  argv[at0]

-----------------------------------------------------------------------------
(* The shell                                                               *)

\* argv holds what the next sentence has.
ArgvHolds == ArgvWritten(line, at) <= ArgsMax

ShellInit ==
    /\ mode = "read"
    /\ line = <<>> /\ at = 1
    /\ argbuf = <<>>
    /\ ran = <<>> /\ missing = {}

\* msh_get_cmdline returns a line; an empty one is read over.
GetLine(l) ==
    /\ mode = "read"
    /\ l # <<>>
    /\ mode' = "run"
    /\ line' = l
    /\ UNCHANGED <<at, argbuf, ran, missing>>

\* "Syntax error": the line is discarded.
SyntaxError ==
    /\ mode = "run" /\ ArgvHolds
    /\ ParseLine(line, at).error
    /\ mode' = "done"
    /\ UNCHANGED <<line, at, argbuf, ran, missing>>

\* What argvbuf holds after a parse: nothing is written if the text is empty.
Written(p) == IF p.buf = <<>> THEN argbuf ELSE p.buf

\* argv[0]
Name(buf) == SubSeq(buf, 1, (CHOOSE i \in DOMAIN buf :
                                 /\ buf[i] = NUL
                                 /\ \A j \in 1 .. i - 1 : buf[j] # NUL) - 1)

\* argv[0] is empty: the line is taken to be done.
EmptySentence ==
    LET p == ParseLine(line, at) IN
    /\ mode = "run" /\ ArgvHolds
    /\ ~p.error
    /\ Name(Written(p)) = <<>>
    /\ mode' = "done"
    /\ argbuf' = Written(p)
    /\ UNCHANGED <<line, at, ran, missing>>

\* Mutant of LookedUp: argc is not looked at.
LookedUpAlways(args) == <<args>>

\* What msh_do_command looks up: nothing if there are no arguments
LookedUp(args) == IF args = <<>> THEN <<>> ELSE <<args>>

\* Both lookups came back negative.
NotFound(args, result) ==
    \/ args = <<>>
    \/ args[1] \notin User \cup Builtin
    \/ result < 0

\* The command is looked up, run if it is there, and the next sentence is up.
RunSentence(result) ==
    LET p == ParseLine(line, at) IN
    /\ mode = "run" /\ ArgvHolds
    /\ ~p.error
    /\ Name(Written(p)) # <<>>
    /\ argbuf' = Written(p)
    /\ ran' = ran \o LookedUp(p.args)
    /\ missing' = IF NotFound(p.args, result)
                    THEN missing \cup {Name(argbuf')} ELSE missing
    /\ IF p.next = 0 THEN mode' = "done" /\ UNCHANGED at
       ELSE at' = p.next /\ UNCHANGED mode
    /\ UNCHANGED line

\* msh_parse_line writes behind argv, and nothing more is known.
Overrun ==
    /\ mode \in {"run", "overrun"} /\ ~ArgvHolds
    /\ mode' = "overrun"
    /\ UNCHANGED <<line, at, argbuf, ran, missing>>

\* The outer loop starts again.
NextLine ==
    /\ mode = "done"
    /\ mode' = "read"
    /\ line' = <<>> /\ at' = 1
    /\ argbuf' = <<>>
    /\ ran' = <<>> /\ missing' = {}

ShellNext ==
    \/ \E l \in Strings : GetLine(l)
    \/ SyntaxError
    \/ EmptySentence
    \/ \E r \in Results : RunSentence(r)
    \/ Overrun
    \/ NextLine

ShellSpec == ShellInit /\ [][ShellNext]_shellVars

-----------------------------------------------------------------------------
(* Properties                                                              *)

\* Every variable has its type; what is left to parse lies in the line, and
\* what was looked up had arguments.
ShellTypeOK ==
    /\ mode \in {"read", "run", "done", "overrun"}
    /\ line \in Strings
    /\ at \in 1 .. Len(line) + 1
    /\ argbuf \in Seq(Char \cup {NUL})
    /\ ran \in Seq(Seq(Seq(Char)) \ {<<>>})
    /\ missing \subseteq Seq(Char)

\* argbuf is as long as a line: the words of any sentence fit, with the null
\* behind each of them.
ArgbufFits == Len(argbuf) <= CharMax

Reference == INSTANCE CommandLine

HasName(command) == command # <<>> /\ command[1] # <<>>

\* Whatever the shell has looked up of a line are the first commands that the line
\* means, each once and in order with its words, quotes and escapes resolved
\* (parse.c:121), and those among them that do not exist have been reported.  It is
\* done when there are no more, or at one without a name: an empty sentence ends the
\* line (shell.c:58, "empty input line"), so that of ";a" and "a;;b" nothing is run
\* behind it, although a ';' in front of a word is to be skipped (parse.c:126).  A
\* sentence that overruns argv takes a line of two characters for each of its entries.
RunsWhatWasTyped ==
    LET meaning == Reference!Meaning(line)
        n == Len(ran)
    IN  /\ mode # "read" =>
              /\ n <= Len(meaning) /\ ran = SubSeq(meaning, 1, n)
              /\ \A k \in 1 .. n : HasName(meaning[k])
              /\ {meaning[k][1] : k \in 1 .. n} \ (User \cup Builtin) \subseteq missing
        /\ mode = "done" /\ n < Len(meaning) => ~HasName(meaning[n + 1])
        /\ mode = "overrun" => Len(line) >= 2 * ArgsMax
=============================================================================
