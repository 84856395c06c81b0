---------------------------- MODULE CommandLine ----------------------------
(***************************************************************************)
(* What a command line means: the commands between its separators, each    *)
(* the sequence of its words, with quotes and escapes taken away.          *)
(***************************************************************************)
EXTENDS Integers, Sequences

CONSTANTS Space, Sep, Escape, Quotes

\* The quote or the escape that the character at i is within, as a set: it is
\* empty where characters have their meaning.  The last is how the line ends.
Within(l) ==
    LET within[i \in 1 .. Len(l) + 1] ==
            IF i = 1 THEN {}
            ELSE LET w == within[i - 1]
                     c == l[i - 1]
                 IN  IF w = {} THEN {c} \cap (Quotes \cup {Escape}) ELSE w \ {c, Escape}
    IN  within

Plain(l) ==
    LET within == Within(l) IN {i \in DOMAIN l : within[i] = {}}

Seps(l)   == {i \in Plain(l) : l[i] = Sep}
Breaks(l) == {i \in Plain(l) : l[i] \in {Space, Sep}}

Markers(l) ==
    LET within == Within(l) IN
    {i \in DOMAIN l : \/ within[i] = {} /\ l[i] \in Quotes \cup {Escape}
                      \/ within[i] = {l[i]} /\ l[i] \in Quotes}

\* The elements of f at the positions of S, in their order
InOrder(f, S) ==
    LET n == Len(f)
        from[i \in 1 .. n + 1] ==
            IF i > n THEN <<>>
            ELSE IF i \in S THEN <<f[i]>> \o from[i + 1] ELSE from[i + 1]
    IN  from[1]

\* What the word that goes on at i still has of characters
Word(l, i) ==
    LET breaks == Breaks(l)
        markers == Markers(l)
    IN  InOrder(l, {j \in i .. Len(l) : i .. j \cap breaks = {} /\ j \notin markers})

\* The words between two positions
Words(l, from, to) ==
    LET breaks == Breaks(l) IN
    InOrder([i \in DOMAIN l |-> Word(l, i)],
            {i \in from .. to : i \notin breaks /\ (i = from \/ i - 1 \in breaks)})

\* Where commands end; one that ends within a quote or an escape is none.
Ends(l) == Seps(l) \cup (IF Within(l)[Len(l) + 1] = {} THEN {Len(l) + 1} ELSE {})

\* Where the command that ends at e starts
Start(l, e) == CHOOSE s \in 1 .. e : (s = 1 \/ s - 1 \in Seps(l)) /\ s .. e - 1 \cap Seps(l) = {}

Commands(l) == [e \in 1 .. Len(l) + 1 |-> Words(l, Start(l, e), e - 1)]

\* The commands of a line
Meaning(l) == InOrder(Commands(l), Ends(l))
=============================================================================
