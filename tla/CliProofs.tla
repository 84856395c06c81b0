----------------------------- MODULE CliProofs -----------------------------
(***************************************************************************)
(* SyterKit's shell, for every length of a line, every alphabet and every  *)
(* size of the history.                                                    *)
(***************************************************************************)
EXTENDS LineEdit, Shell, TLAPS, WellFoundedInduction, SequenceTheorems

-----------------------------------------------------------------------------
(* Natural numbers: induction over a set, least elements                   *)

LEMMA NatLeast ==
    ASSUME NEW T, T \subseteq Nat, T # {}
    PROVE  \E x \in T : \A y \in T : x <= y
  <1>1. \E x \in T : \A y \in T : ~ (<<y, x>> \in OpToRel(<, Nat))
    BY WFMin, NatLessThanWellFounded
  <1>2. \A x, y \in T : ~ (<<y, x>> \in OpToRel(<, Nat)) => x <= y
    BY DEF OpToRel
  <1>. QED BY <1>1, <1>2

LEMMA SetInduction ==
    ASSUME NEW B, 0 \in B, \A k \in Nat : k \in B => k + 1 \in B
    PROVE  Nat \subseteq B
  <1> SUFFICES ASSUME Nat \ B # {} PROVE FALSE
    OBVIOUS
  <1>1. PICK x \in Nat \ B : \A y \in Nat \ B : x <= y
    BY NatLeast
  <1>2. x - 1 \in Nat /\ x - 1 \in B
    <2>1. x # 0
      OBVIOUS
    <2>2. x - 1 \in Nat /\ ~(x <= x - 1)
      BY <2>1
    <2>. QED BY <2>2, <1>1
  <1>3. x - 1 + 1 \in B
    BY <1>2
  <1>. QED BY <1>3

-----------------------------------------------------------------------------
(* Strings                                                                 *)

LEMMA StringIs ==
    ASSUME NEW s \in Strings
    PROVE  /\ Len(s) \in 0 .. CharMax - 1
           /\ s \in [1 .. Len(s) -> Char]
           /\ s \in Seq(Char)
  <1>1. PICK n \in 0 .. CharMax - 1 : s \in [1 .. n -> Char]
    BY DEF Strings
  <1>2. n \in Nat
    BY CliAssumption
  <1>3. s \in Seq(Char) /\ Len(s) = n
    BY <1>1, <1>2
  <1>. QED BY <1>1, <1>3

LEMMA IsString ==
    ASSUME NEW n \in 0 .. CharMax - 1, NEW s \in [1 .. n -> Char]
    PROVE  s \in Strings /\ Len(s) = n
  <1>1. n \in Nat
    BY CliAssumption
  <1>. QED BY <1>1 DEF Strings

LEMMA CharsAre ==
    ASSUME NEW b, NEW i \in Int, NEW j \in Int, i <= j
    PROVE  /\ Len(Chars(b, i, j)) = j - i
           /\ DOMAIN Chars(b, i, j) = 1 .. j - i
           /\ \A k \in 1 .. j - i : Chars(b, i, j)[k] = b[i + k - 1]
           /\ (\A k \in i .. j - 1 : b[k] \in Char) => Chars(b, i, j) \in Seq(Char)
  <1>1. j - i \in Nat
    OBVIOUS
  <1>2. \A k \in 1 .. j - i : i + k - 1 \in i .. j - 1
    OBVIOUS
  <1>. QED BY <1>1, <1>2 DEF Chars

-----------------------------------------------------------------------------
(* The states of the editor                                                *)

Terms == [cells : [0 .. CharMax -> Char], col : Int]

Editors == [buf : [Index -> Char \cup {NUL}], pos : Index, linelen : Index,
            clipboard : Strings, term : Terms]

\* Characters up to the null that ends the line
IsLine(e) ==
    /\ e.pos <= e.linelen
    /\ \A k \in 0 .. e.linelen - 1 : e.buf[k] \in Char
    /\ e.buf[e.linelen] = NUL

\* The terminal shows the line.
Shown(e) ==
    /\ e.term.col = e.pos
    /\ \A k \in 0 .. CharMax :
         e.term.cells[k] = IF k < e.linelen THEN e.buf[k] ELSE Space

Good == {e \in Editors : IsLine(e) /\ Shown(e)}

LEMMA StrIs ==
    ASSUME NEW e \in Good, NEW i \in 0 .. e.linelen
    PROVE  Str(e.buf, i) = Chars(e.buf, i, e.linelen)
  <1> DEFINE End == {k \in i .. CharMax - 1 : e.buf[k] = NUL} \cup {CharMax}
  <1>1. e.linelen \in 0 .. CharMax - 1 /\ CharMax \in Nat /\ e.buf[e.linelen] = NUL
    BY CliAssumption DEF Good, Editors, IsLine, Index
  <1>2. e.linelen \in End
    BY <1>1
  <1>3. \A l \in End : l \in Int /\ e.linelen <= l
    <2>1. \A k \in 0 .. e.linelen - 1 : e.buf[k] # NUL
      BY CliAssumption DEF Good, IsLine
    <2>. QED BY <2>1, <1>1
  <1> HIDE DEF End
  <1>4. (CHOOSE k \in End : \A l \in End : k <= l) = e.linelen
    <2> DEFINE c == CHOOSE k \in End : \A l \in End : k <= l
    <2>1. c \in End /\ \A l \in End : c <= l
      BY <1>2, <1>3
    <2> HIDE DEF c
    <2>2. c = e.linelen
      BY <2>1, <1>1, <1>2, <1>3
    <2>. QED BY <2>2 DEF c
  <1>. QED BY <1>4 DEF Str, End

\* What the terminal shows after characters
LEMMA PutsIs ==
    ASSUME NEW t \in Terms, NEW s \in Seq(Char), NEW u, u = Puts(t, s)
    PROVE  /\ u \in Terms
           /\ u.col = t.col + Len(s)
           /\ \A k \in 0 .. CharMax :
                u.cells[k] = IF t.col <= k /\ k < t.col + Len(s)
                             THEN s[k - t.col + 1] ELSE t.cells[k]
  <1> DEFINE f == [k \in 0 .. CharMax |->
                   IF k \in t.col .. t.col + Len(s) - 1 THEN s[k - t.col + 1]
                   ELSE t.cells[k]]
  <1>1. u = [cells |-> f, col |-> t.col + Len(s)]
    BY DEF Puts
  <1>2. /\ t.col \in Int /\ t.cells \in [0 .. CharMax -> Char] /\ CharMax \in Nat
        /\ Len(s) \in Nat
    BY CliAssumption DEF Terms
  <1>3. \A k \in 0 .. CharMax :
            /\ f[k] = IF t.col <= k /\ k < t.col + Len(s) THEN s[k - t.col + 1] ELSE t.cells[k]
            /\ f[k] \in Char
    BY <1>2
  <1>4. f \in [0 .. CharMax -> Char]
    BY <1>3
  <1> HIDE DEF f
  <1>. QED BY <1>1, <1>2, <1>3, <1>4 DEF Terms

\* and after backspaces
LEMMA BackIs ==
    ASSUME NEW t \in Terms, NEW n \in Int, NEW u, u = Back(t, n)
    PROVE  u \in Terms /\ u.col = t.col - n /\ u.cells = t.cells
  BY DEF Back, Terms

LEMMA ConsIs ==
    ASSUME NEW S, NEW c \in S, NEW s \in Seq(S)
    PROVE  /\ Len(<<c>> \o s) = Len(s) + 1
           /\ \A k \in 1 .. Len(s) + 1 :
                (<<c>> \o s)[k] = IF k = 1 THEN c ELSE s[k - 1]
  OBVIOUS

-----------------------------------------------------------------------------
(* Every editing function keeps the line and the terminal together.        *)

\* What every proof below needs of a good editor
Facts(e) ==
    /\ CharMax \in Nat /\ Space \in Char /\ NUL \notin Char
    /\ e.pos \in Nat /\ e.linelen \in Nat
    /\ e.pos <= e.linelen /\ e.linelen <= CharMax - 1
    /\ e.term.col = e.pos
    /\ \A k \in 0 .. CharMax :
         e.term.cells[k] = IF k < e.linelen THEN e.buf[k] ELSE Space
    /\ \A k \in 0 .. e.linelen - 1 : e.buf[k] \in Char
    /\ e.buf[e.linelen] = NUL

LEMMA GoodIs ==
    ASSUME NEW e \in Good
    PROVE  /\ Facts(e)
           /\ e.buf \in [Index -> Char \cup {NUL}]
           /\ e.clipboard \in Strings
           /\ e.term \in Terms
  BY CliAssumption DEF Good, Editors, IsLine, Shown, Terms, Index, Facts

\* An editor with another line on its terminal
Edited(e, b, p, n, t) ==
    [e EXCEPT !.buf = b, !.pos = p, !.linelen = n, !.term = t]

LEMMA EditedIs ==
    ASSUME NEW e \in Good, NEW b \in [Index -> Char \cup {NUL}],
           NEW i \in Index, NEW n \in Index, NEW t \in Terms,
           NEW r, r = Edited(e, b, i, n, t)
    PROVE  /\ r \in Editors
           /\ r.buf = b /\ r.pos = i /\ r.linelen = n /\ r.term = t
           /\ r.clipboard = e.clipboard
  BY DEF Good, Editors, Edited

LEMMA InsertGood ==
    ASSUME NEW e \in Good, NEW c \in Char, ~Full(e), NEW r, r = InsertChar(e, c)
    PROVE  /\ r \in Good
           /\ r.pos = e.pos + 1 /\ r.linelen = e.linelen + 1
           /\ r.clipboard = e.clipboard
           /\ \A k \in 0 .. e.linelen :
                r.buf[k] = IF k < e.pos THEN e.buf[k]
                           ELSE IF k = e.pos THEN c ELSE e.buf[k - 1]
  <1> DEFINE b == [k \in Index |->
                        IF k = e.pos THEN c
                        ELSE IF k \in e.pos + 1 .. e.linelen THEN e.buf[k - 1]
                        ELSE IF k = e.linelen + 1 THEN NUL ELSE e.buf[k]]
             t == IF e.pos = e.linelen THEN Puts(e.term, <<c>>)
                  ELSE Back(Puts(e.term, <<c>> \o Str(e.buf, e.pos)), e.linelen - e.pos)
  <1>0. Facts(e) /\ e.term \in Terms
    BY GoodIs
  <1>1. r = Edited(e, b, e.pos + 1, e.linelen + 1, t)
    BY DEF InsertChar, Edited
  <1>2. e.linelen + 1 \in Index /\ e.pos + 1 \in Index
    BY <1>0 DEF Facts, Full, Index
  <1>3. \A k \in 0 .. e.linelen :
            b[k] = IF k < e.pos THEN e.buf[k]
                   ELSE IF k = e.pos THEN c ELSE e.buf[k - 1]
    BY <1>2, <1>0 DEF Facts, Index
  <1>4. \A k \in 0 .. e.linelen : b[k] \in Char
    BY <1>3, <1>0 DEF Facts
  <1>5. b \in [Index -> Char \cup {NUL}] /\ b[e.linelen + 1] = NUL
    <2>1. \A k \in Index : k \in e.pos + 1 .. e.linelen => k - 1 \in Index
      BY <1>0 DEF Facts, Index
    <2>2. e.buf \in [Index -> Char \cup {NUL}]
      BY GoodIs
    <2>3. \A k \in Index : b[k] \in Char \cup {NUL}
      BY <2>1, <2>2
    <2>4. b[e.linelen + 1] = NUL
      BY <1>2, <1>0 DEF Facts
    <2>. QED BY <2>3, <2>4
  <1> HIDE DEF b
  <1>6. /\ t \in Terms /\ t.col = e.pos + 1
        /\ \A k \in 0 .. CharMax :
              t.cells[k] = IF k < e.linelen + 1 THEN b[k] ELSE Space
    <2>1. CASE e.pos = e.linelen
      <3>1. t = Puts(e.term, <<c>>) /\ <<c>> \in Seq(Char) /\ Len(<<c>>) = 1
            /\ <<c>>[1] = c
        BY <2>1
      <3> HIDE DEF t
      <3>2. /\ t \in Terms /\ t.col = e.pos + 1
            /\ \A k \in 0 .. CharMax :
                 t.cells[k] = IF e.pos <= k /\ k < e.pos + 1
                              THEN <<c>>[k - e.pos + 1] ELSE e.term.cells[k]
        <4>1. /\ t \in Terms /\ t.col = e.term.col + Len(<<c>>)
              /\ \A k \in 0 .. CharMax :
                   t.cells[k] = IF e.term.col <= k /\ k < e.term.col + Len(<<c>>)
                                THEN <<c>>[k - e.term.col + 1] ELSE e.term.cells[k]
          BY <3>1, <1>0, PutsIs, Zenon
        <4>. QED BY <4>1, <3>1, <1>0 DEF Facts
      <3>. QED BY <3>1, <3>2, <2>1, <1>3, <1>0 DEF Facts
    <2>2. CASE e.pos # e.linelen
      <3> DEFINE s == Chars(e.buf, e.pos, e.linelen)
                 w == <<c>> \o s
                 u == Puts(e.term, w)
      <3>1. s \in Seq(Char) /\ Len(s) = e.linelen - e.pos
            /\ \A k \in 1 .. e.linelen - e.pos : s[k] = e.buf[e.pos + k - 1]
        <4>1. \A k \in e.pos .. e.linelen - 1 : e.buf[k] \in Char
          BY <1>0 DEF Facts
        <4>2. e.pos \in Int /\ e.linelen \in Int /\ e.pos <= e.linelen
          BY <1>0 DEF Facts
        <4>. QED BY <4>1, <4>2, CharsAre
      <3>2. Str(e.buf, e.pos) = s
        <4>1. e.pos \in 0 .. e.linelen
          BY <1>0 DEF Facts
        <4>. QED BY <4>1, StrIs
      <3>3. t = Back(u, e.linelen - e.pos)
        BY <2>2, <3>2
      <3> HIDE DEF s, t
      <3>4. w \in Seq(Char) /\ Len(w) = e.linelen - e.pos + 1
            /\ \A k \in 1 .. e.linelen - e.pos + 1 :
                 w[k] = IF k = 1 THEN c ELSE s[k - 1]
        BY <3>1, ConsIs
      <3> HIDE DEF w
      <3>5. /\ u \in Terms /\ u.col = e.pos + Len(w)
            /\ \A k \in 0 .. CharMax :
                 u.cells[k] = IF e.pos <= k /\ k < e.pos + Len(w)
                              THEN w[k - e.pos + 1] ELSE e.term.cells[k]
        <4>1. /\ u \in Terms /\ u.col = e.term.col + Len(w)
              /\ \A k \in 0 .. CharMax :
                   u.cells[k] = IF e.term.col <= k /\ k < e.term.col + Len(w)
                                THEN w[k - e.term.col + 1] ELSE e.term.cells[k]
          <5>1. w \in Seq(Char)
            BY <3>4
          <5>. QED BY <5>1, <1>0, PutsIs
        <4>. QED BY <4>1, <1>0 DEF Facts
      <3> HIDE DEF u
      <3>6. t \in Terms /\ t.col = e.pos + 1 /\ t.cells = u.cells
        <4>1. e.linelen - e.pos \in Int
          BY <1>0 DEF Facts
        <4>2. t \in Terms /\ t.col = u.col - (e.linelen - e.pos) /\ t.cells = u.cells
          BY <4>1, <3>3, <3>5, BackIs
        <4>. QED BY <4>2, <3>4, <3>5, <1>0 DEF Facts
      <3>7. ASSUME NEW k \in 0 .. CharMax
            PROVE  u.cells[k] = IF k < e.linelen + 1 THEN b[k] ELSE Space
        <4>1. CASE k \in e.pos .. e.linelen
          <5>1. k - e.pos + 1 \in 1 .. e.linelen - e.pos + 1
            BY <4>1, <1>0 DEF Facts
          <5>2. u.cells[k] = IF k = e.pos THEN c ELSE s[k - e.pos]
            <6> DEFINE j == k - e.pos + 1
            <6>0. k \in 0 .. CharMax /\ e.pos <= k /\ k < e.pos + Len(w)
              BY <4>1, <3>4, <1>0 DEF Facts
            <6>1. u.cells[k] = w[j]
              BY <6>0, <3>5
            <6>2. j \in 1 .. e.linelen - e.pos + 1
              BY <5>1
            <6>3. j - 1 = k - e.pos /\ (j = 1 <=> k = e.pos)
              BY <1>0 DEF Facts
            <6> HIDE DEF j
            <6>4. w[j] = IF j = 1 THEN c ELSE s[j - 1]
              BY <6>2, <3>4
            <6>. QED BY <6>1, <6>3, <6>4
          <5>3. k # e.pos => s[k - e.pos] = e.buf[k - 1]
            <6>1. k # e.pos => k - e.pos \in 1 .. e.linelen - e.pos
              BY <4>1, <1>0 DEF Facts
            <6>2. e.pos + (k - e.pos) - 1 = k - 1
              BY <1>0 DEF Facts
            <6>. QED BY <6>1, <6>2, <3>1
          <5>4. b[k] = IF k = e.pos THEN c ELSE e.buf[k - 1]
            BY <4>1, <1>3, <1>0 DEF Facts
          <5>. QED BY <5>2, <5>3, <5>4, <4>1, <1>0 DEF Facts
        <4>2. CASE k \notin e.pos .. e.linelen
          <5>1. u.cells[k] = e.term.cells[k]
            BY <4>2, <3>4, <3>5, <1>0 DEF Facts
          <5>. QED BY <5>1, <4>2, <1>3, <1>0 DEF Facts
        <4>. QED BY <4>1, <4>2
      <3>. QED BY <3>6, <3>7
    <2>. QED BY <2>1, <2>2
  <1> HIDE DEF t
  <1>7. /\ r \in Editors
        /\ r.buf = b /\ r.pos = e.pos + 1 /\ r.linelen = e.linelen + 1
        /\ r.term = t /\ r.clipboard = e.clipboard
    BY <1>1, <1>2, <1>5, <1>6, EditedIs
  <1>8. IsLine(r)
    BY <1>7, <1>4, <1>5, <1>0 DEF Facts, IsLine
  <1>9. Shown(r)
    BY <1>7, <1>6 DEF Shown
  <1>. QED BY <1>3, <1>7, <1>8, <1>9 DEF Good

\* Removing a character and printing what was behind it, with a space
LEMMA RemovedIs ==
    ASSUME NEW e \in Good, NEW i \in Nat, i < e.linelen, NEW j, j = i + 1,
           NEW t \in Terms, t.col = i, t.cells = e.term.cells,
           NEW b, b = Removed(e.buf, i, e.linelen),
           NEW u, u = Puts(t, Append(Chars(e.buf, j, e.linelen), Space))
    PROVE  /\ b \in [Index -> Char \cup {NUL}] /\ b[e.linelen - 1] = NUL
           /\ \A k \in 0 .. e.linelen - 2 :
                b[k] = (IF k < i THEN e.buf[k] ELSE e.buf[k + 1]) /\ b[k] \in Char
           /\ u \in Terms /\ u.col = e.linelen
           /\ \A k \in 0 .. CharMax :
                u.cells[k] = IF k < e.linelen - 1 THEN b[k] ELSE Space
  <1> DEFINE s == Chars(e.buf, j, e.linelen)
             w == Append(s, Space)
  <1>0. Facts(e) /\ e.buf \in [Index -> Char \cup {NUL}]
    BY GoodIs
  <1>1. \A k \in Index :
            b[k] = IF k \in i .. e.linelen - 2 THEN e.buf[k + 1]
                   ELSE IF k = e.linelen - 1 THEN NUL ELSE e.buf[k]
    BY DEF Removed
  <1>2. b \in [Index -> Char \cup {NUL}]
    <2>1. \A k \in Index : k \in i .. e.linelen - 2 => k + 1 \in Index
      BY <1>0 DEF Facts, Index
    <2>2. \A k \in Index : b[k] \in Char \cup {NUL}
      BY <1>0, <1>1, <2>1
    <2>. QED BY <2>2 DEF Removed
  <1>3. b[e.linelen - 1] = NUL
    BY <1>0, <1>1 DEF Facts, Index
  <1>4. \A k \in 0 .. e.linelen - 2 :
            b[k] = (IF k < i THEN e.buf[k] ELSE e.buf[k + 1]) /\ b[k] \in Char
    <2> TAKE k \in 0 .. e.linelen - 2
    <2>1. k \in Index /\ k # e.linelen - 1 /\ k \in Int /\ k + 1 \in 0 .. e.linelen - 1
          /\ k \in 0 .. e.linelen - 1
      BY <1>0 DEF Facts, Index
    <2>2. b[k] = IF k \in i .. e.linelen - 2 THEN e.buf[k + 1] ELSE e.buf[k]
      BY <2>1, <1>1
    <2>3. e.buf[k] \in Char /\ e.buf[k + 1] \in Char
      BY <2>1, <1>0 DEF Facts
    <2>. QED BY <2>2, <2>3, <1>0 DEF Facts
  <1>5. s \in Seq(Char) /\ Len(s) = e.linelen - j
        /\ \A k \in 1 .. e.linelen - j : s[k] = e.buf[j + k - 1]
    <2>1. \A k \in j .. e.linelen - 1 : e.buf[k] \in Char
      BY <1>0 DEF Facts
    <2>2. j \in Int /\ e.linelen \in Int /\ j <= e.linelen
      BY <1>0 DEF Facts
    <2>3. Len(s) = e.linelen - j
      BY <2>2, CharsAre
    <2>4. \A k \in 1 .. e.linelen - j : s[k] = e.buf[j + k - 1]
      BY <2>2, CharsAre
    <2>5. s \in Seq(Char)
      BY <2>1, <2>2, CharsAre
    <2>. QED BY <2>3, <2>4, <2>5
  <1> HIDE DEF s
  <1>6. w \in Seq(Char) /\ Len(w) = e.linelen - i
        /\ \A k \in 1 .. e.linelen - i :
             w[k] = IF k = e.linelen - i THEN Space ELSE s[k]
    BY <1>5, <1>0 DEF Facts
  <1>7. u = Puts(t, w)
    BY DEF s
  <1> HIDE DEF w
  <1>8. /\ u \in Terms /\ u.col = i + Len(w)
        /\ \A k \in 0 .. CharMax :
             u.cells[k] = IF i <= k /\ k < i + Len(w)
                          THEN w[k - i + 1] ELSE e.term.cells[k]
    <2>1. w \in Seq(Char)
      BY <1>6
    <2>2. /\ u \in Terms /\ u.col = t.col + Len(w)
          /\ \A k \in 0 .. CharMax :
               u.cells[k] = IF t.col <= k /\ k < t.col + Len(w)
                            THEN w[k - t.col + 1] ELSE t.cells[k]
      BY <2>1, <1>7, PutsIs
    <2>. QED BY <2>2
  <1>9. i + Len(w) = e.linelen
    BY <1>6, <1>0 DEF Facts
  <1>10. ASSUME NEW k \in 0 .. CharMax
         PROVE  u.cells[k] = IF k < e.linelen - 1 THEN b[k] ELSE Space
    <2>1. CASE k \in i .. e.linelen - 1
      <3> DEFINE m == k - i + 1
      <3>1. u.cells[k] = w[m]
        <4>1. i <= k /\ k < i + Len(w)
          BY <2>1, <1>9, <1>0 DEF Facts
        <4>. QED BY <4>1, <1>8
      <3>2. m \in 1 .. e.linelen - i /\ (m = e.linelen - i <=> k = e.linelen - 1)
        BY <2>1, <1>0 DEF Facts
      <3>3. m \in Int /\ j + m - 1 = k + 1 /\ e.linelen - j = e.linelen - i - 1
        BY <1>0 DEF Facts
      <3> HIDE DEF m
      <3>4. w[m] = IF m = e.linelen - i THEN Space ELSE s[m]
        BY <3>2, <1>6
      <3>5. m # e.linelen - i => s[m] = e.buf[k + 1]
        <4>1. m # e.linelen - i => m \in 1 .. e.linelen - j
          BY <3>2, <3>3, <1>0 DEF Facts
        <4>. QED BY <4>1, <3>3, <1>5
      <3>6. k < e.linelen - 1 => b[k] = e.buf[k + 1]
        BY <2>1, <1>4, <1>0 DEF Facts
      <3>. QED BY <2>1, <3>1, <3>2, <3>4, <3>5, <3>6, <1>0 DEF Facts
    <2>2. CASE k \notin i .. e.linelen - 1
      <3>1. u.cells[k] = e.term.cells[k]
        BY <2>2, <1>8, <1>9, <1>0 DEF Facts
      <3>. QED BY <3>1, <2>2, <1>4, <1>0 DEF Facts
    <2>. QED BY <2>1, <2>2
  <1>. QED BY <1>2, <1>3, <1>4, <1>8, <1>9, <1>10

LEMMA BackspaceGood ==
    ASSUME NEW e \in Good, e.pos > 0, NEW r, r = BackspaceKey(e)
    PROVE  /\ r \in Good
           /\ r.pos = e.pos - 1 /\ r.linelen = e.linelen - 1
           /\ r.clipboard = e.clipboard
           /\ \A k \in 0 .. e.linelen - 2 :
                r.buf[k] = IF k < e.pos - 1 THEN e.buf[k] ELSE e.buf[k + 1]
  <1> DEFINE b == Removed(e.buf, e.pos - 1, e.linelen)
             t == Back(e.term, 1)
             u == Puts(t, Append(Chars(e.buf, e.pos, e.linelen), Space))
             v == Back(u, e.linelen - e.pos + 1)
  <1>0. Facts(e) /\ e.term \in Terms
    BY GoodIs
  <1>1. r = Edited(e, b, e.pos - 1, e.linelen - 1, v)
    BY <1>0 DEF BackspaceKey, Edited, Facts
  <1>2. t \in Terms /\ t.col = e.pos - 1 /\ t.cells = e.term.cells
    <2>1. t \in Terms /\ t.col = e.term.col - 1 /\ t.cells = e.term.cells
      BY <1>0, BackIs
    <2>. QED BY <2>1, <1>0 DEF Facts
  <1> HIDE DEF t
  <1>3. /\ b \in [Index -> Char \cup {NUL}] /\ b[e.linelen - 1] = NUL
        /\ \A k \in 0 .. e.linelen - 2 :
             b[k] = (IF k < e.pos - 1 THEN e.buf[k] ELSE e.buf[k + 1]) /\ b[k] \in Char
        /\ u \in Terms /\ u.col = e.linelen
        /\ \A k \in 0 .. CharMax :
             u.cells[k] = IF k < e.linelen - 1 THEN b[k] ELSE Space
    <2>1. e.pos - 1 \in Nat /\ e.pos - 1 < e.linelen /\ e.pos = e.pos - 1 + 1
      BY <1>0 DEF Facts
    <2>. QED BY <1>2, <2>1, RemovedIs
  <1> HIDE DEF b, u
  <1>4. v \in Terms /\ v.col = e.pos - 1 /\ v.cells = u.cells
    <2>1. e.linelen - e.pos + 1 \in Int
      BY <1>0 DEF Facts
    <2>2. v \in Terms /\ v.col = u.col - (e.linelen - e.pos + 1) /\ v.cells = u.cells
      BY <1>3, <2>1, BackIs
    <2>. QED BY <2>2, <1>3, <1>0 DEF Facts
  <1> HIDE DEF v
  <1>5. e.pos - 1 \in Index /\ e.linelen - 1 \in Index
    BY <1>0 DEF Facts, Index
  <1>6. /\ r \in Editors
        /\ r.buf = b /\ r.pos = e.pos - 1 /\ r.linelen = e.linelen - 1
        /\ r.term = v /\ r.clipboard = e.clipboard
    BY <1>1, <1>3, <1>4, <1>5, EditedIs
  <1>7. IsLine(r)
    BY <1>6, <1>3, <1>0 DEF Facts, IsLine
  <1>8. Shown(r)
    BY <1>6, <1>4, <1>3 DEF Shown
  <1>. QED BY <1>3, <1>6, <1>7, <1>8 DEF Good

LEMMA DeleteGood ==
    ASSUME NEW e \in Good, e.pos < e.linelen, NEW r, r = DeleteKey(e)
    PROVE  /\ r \in Good
           /\ r.pos = e.pos /\ r.linelen = e.linelen - 1
           /\ r.clipboard = e.clipboard
           /\ \A k \in 0 .. e.linelen - 2 :
                r.buf[k] = IF k < e.pos THEN e.buf[k] ELSE e.buf[k + 1]
  <1> DEFINE b == Removed(e.buf, e.pos, e.linelen)
             u == Puts(e.term, Append(Chars(e.buf, e.pos + 1, e.linelen), Space))
             v == Back(u, e.linelen - e.pos)
  <1>0. Facts(e) /\ e.term \in Terms
    BY GoodIs
  <1>1. r = Edited(e, b, e.pos, e.linelen - 1, v)
    <2>1. r = [e EXCEPT !.buf = b, !.linelen = e.linelen - 1, !.term = v]
      BY <1>0 DEF DeleteKey, Facts
    <2>2. e = [e EXCEPT !.pos = e.pos]
      BY DEF Good, Editors
    <2> HIDE DEF b, u, v
    <2>. QED BY <2>1 DEF Edited, Good, Editors
  <1>3. /\ b \in [Index -> Char \cup {NUL}] /\ b[e.linelen - 1] = NUL
        /\ \A k \in 0 .. e.linelen - 2 :
             b[k] = (IF k < e.pos THEN e.buf[k] ELSE e.buf[k + 1]) /\ b[k] \in Char
        /\ u \in Terms /\ u.col = e.linelen
        /\ \A k \in 0 .. CharMax :
             u.cells[k] = IF k < e.linelen - 1 THEN b[k] ELSE Space
    <2>1. e.term.col = e.pos /\ e.pos \in Nat
      BY <1>0 DEF Facts
    <2>. QED BY <1>0, <2>1, RemovedIs
  <1> HIDE DEF b, u
  <1>4. v \in Terms /\ v.col = e.pos /\ v.cells = u.cells
    <2>1. e.linelen - e.pos \in Int
      BY <1>0 DEF Facts
    <2>2. v \in Terms /\ v.col = u.col - (e.linelen - e.pos) /\ v.cells = u.cells
      BY <1>3, <2>1, BackIs
    <2>. QED BY <2>2, <1>3, <1>0 DEF Facts
  <1> HIDE DEF v
  <1>5. e.pos \in Index /\ e.linelen - 1 \in Index
    BY <1>0 DEF Facts, Index
  <1>6. /\ r \in Editors
        /\ r.buf = b /\ r.pos = e.pos /\ r.linelen = e.linelen - 1
        /\ r.term = v /\ r.clipboard = e.clipboard
    BY <1>1, <1>3, <1>4, <1>5, EditedIs
  <1>7. IsLine(r)
    BY <1>6, <1>3, <1>0 DEF Facts, IsLine
  <1>8. Shown(r)
    BY <1>6, <1>4, <1>3 DEF Shown
  <1>. QED BY <1>3, <1>6, <1>7, <1>8 DEF Good

LEMMA FilledIs ==
    ASSUME NEW s \in Strings, NEW b, b = Filled(s)
    PROVE  /\ b \in [Index -> Char \cup {NUL}] /\ b[Len(s)] = NUL
           /\ \A k \in 0 .. Len(s) - 1 : b[k] = s[k + 1] /\ b[k] \in Char
           /\ Len(s) \in Index
  <1>0. Len(s) \in Nat /\ Len(s) <= CharMax - 1 /\ CharMax \in Nat /\ s \in [1 .. Len(s) -> Char]
    BY StringIs, CliAssumption
  <1>1. \A k \in Index : k < Len(s) => k + 1 \in 1 .. Len(s)
    BY <1>0 DEF Index
  <1>2. b \in [Index -> Char \cup {NUL}]
    BY <1>0, <1>1 DEF Filled
  <1>3. Len(s) \in Index /\ ~(Len(s) < Len(s))
    BY <1>0 DEF Index
  <1>4. ASSUME NEW k \in 0 .. Len(s) - 1 PROVE b[k] = s[k + 1] /\ b[k] \in Char
    <2>1. k \in Index /\ k < Len(s)
      BY <1>0 DEF Index
    <2>. QED BY <2>1, <1>0, <1>1 DEF Filled
  <1>. QED BY <1>2, <1>3, <1>4 DEF Filled

LEMMA EmptyIsString == <<>> \in Strings /\ Len(<<>>) = 0
  <1>1. 0 \in 0 .. CharMax - 1
    BY CliAssumption
  <1>2. <<>> \in [1 .. 0 -> Char]
    OBVIOUS
  <1>. QED BY <1>1, <1>2 DEF Strings

LEMMA SpacesAre ==
    ASSUME NEW n \in Nat
    PROVE  /\ Spaces(n) \in Seq(Char) /\ Len(Spaces(n)) = n
           /\ \A k \in 1 .. n : Spaces(n)[k] = Space
  BY CliAssumption DEF Spaces

LEMMA KillGood ==
    ASSUME NEW e \in Good, NEW r, r = Kill(e)
    PROVE  /\ r \in Good
           /\ r.pos = 0 /\ r.linelen = 0
           /\ r.clipboard = e.clipboard
  <1> DEFINE b == Filled(<<>>)
             t == Back(e.term, e.pos)
             u == Puts(t, Spaces(e.linelen))
             v == Back(u, e.linelen)
  <1>0. Facts(e) /\ e.term \in Terms
    BY GoodIs
  <1>1. b \in [Index -> Char \cup {NUL}] /\ b[0] = NUL /\ 0 \in Index
    BY EmptyIsString, FilledIs
  <1>2. t \in Terms /\ t.col = 0 /\ t.cells = e.term.cells
    <2>1. t \in Terms /\ t.col = e.term.col - e.pos /\ t.cells = e.term.cells
      <3>1. e.pos \in Int
        BY <1>0 DEF Facts
      <3>. QED BY <3>1, <1>0, BackIs
    <2>. QED BY <2>1, <1>0 DEF Facts
  <1>3. Spaces(e.linelen) \in Seq(Char) /\ Len(Spaces(e.linelen)) = e.linelen
        /\ \A k \in 1 .. e.linelen : Spaces(e.linelen)[k] = Space
    BY <1>0, SpacesAre DEF Facts
  <1> HIDE DEF t
  <1>4. /\ u \in Terms /\ u.col = e.linelen
        /\ \A k \in 0 .. CharMax : u.cells[k] = Space
    <2>1. /\ u \in Terms /\ u.col = t.col + Len(Spaces(e.linelen))
          /\ \A k \in 0 .. CharMax :
               u.cells[k] = IF t.col <= k /\ k < t.col + Len(Spaces(e.linelen))
                            THEN Spaces(e.linelen)[k - t.col + 1] ELSE t.cells[k]
      BY <1>2, <1>3, PutsIs
    <2> HIDE DEF u
    <2>2. u.col = e.linelen
      BY <2>1, <1>2, <1>3, <1>0 DEF Facts
    <2>3. ASSUME NEW k \in 0 .. CharMax PROVE u.cells[k] = Space
      <3>1. CASE k < e.linelen
        <4>1. k + 1 \in 1 .. e.linelen /\ k - 0 + 1 = k + 1 /\ 0 <= k /\ 0 + e.linelen = e.linelen
          BY <3>1, <1>0 DEF Facts
        <4>2. u.cells[k] = Spaces(e.linelen)[k + 1]
          BY <4>1, <3>1, <2>1, <1>2, <1>3
        <4>. QED BY <4>1, <4>2, <1>3
      <3>2. CASE ~(k < e.linelen)
        <4>1. 0 + e.linelen = e.linelen
          BY <1>0 DEF Facts
        <4>. QED BY <4>1, <3>2, <2>1, <1>2, <1>3, <1>0 DEF Facts
      <3>. QED BY <3>1, <3>2
    <2>. QED BY <2>1, <2>2, <2>3
  <1> HIDE DEF u
  <1>5. v \in Terms /\ v.col = 0 /\ v.cells = u.cells
    <2>1. v \in Terms /\ v.col = u.col - e.linelen /\ v.cells = u.cells
      <3>1. e.linelen \in Int
        BY <1>0 DEF Facts
      <3>. QED BY <3>1, <1>4, BackIs
    <2>. QED BY <2>1, <1>4, <1>0 DEF Facts
  <1>6. r = Edited(e, b, 0, 0, v)
    <2>1. r = [[e EXCEPT !.buf = b, !.pos = 0, !.linelen = 0] EXCEPT !.term = v]
      BY DEF Kill, Clear, t, u, Good, Editors
    <2> HIDE DEF b, v
    <2>. QED BY <2>1 DEF Edited, Good, Editors
  <1> HIDE DEF b, v
  <1>7. /\ r \in Editors
        /\ r.buf = b /\ r.pos = 0 /\ r.linelen = 0
        /\ r.term = v /\ r.clipboard = e.clipboard
    BY <1>1, <1>5, <1>6, EditedIs
  <1>8. IsLine(r) /\ Shown(r)
    BY <1>7, <1>1, <1>4, <1>5 DEF IsLine, Shown
  <1>. QED BY <1>7, <1>8 DEF Good

LEMMA SetGood ==
    ASSUME NEW e \in Good, NEW s \in Strings, NEW r, r = Set(e, s)
    PROVE  /\ r \in Good
           /\ r.pos = Len(s) /\ r.linelen = Len(s)
           /\ r.clipboard = e.clipboard
           /\ \A k \in 0 .. Len(s) - 1 : r.buf[k] = s[k + 1]
  <1> DEFINE d == Kill(e)
             b == Filled(s)
             u == Puts(d.term, s)
  <1>1. r = Edited(d, b, Len(s), Len(s), u)
    BY DEF Set, Edited
  <1>2. d \in Good /\ d.pos = 0 /\ d.linelen = 0 /\ d.clipboard = e.clipboard
    BY KillGood
  <1> HIDE DEF d
  <1>3. Facts(d) /\ d.term \in Terms
    BY <1>2, GoodIs
  <1>4. s \in Seq(Char) /\ Len(s) \in Nat
    BY StringIs
  <1>5. /\ b \in [Index -> Char \cup {NUL}] /\ b[Len(s)] = NUL
        /\ \A k \in 0 .. Len(s) - 1 : b[k] = s[k + 1] /\ b[k] \in Char
        /\ Len(s) \in Index
    BY FilledIs
  <1> HIDE DEF b
  <1>6. /\ u \in Terms /\ u.col = Len(s)
        /\ \A k \in 0 .. CharMax :
             u.cells[k] = IF k < Len(s) THEN b[k] ELSE Space
    <2>1. /\ u \in Terms /\ u.col = d.term.col + Len(s)
          /\ \A k \in 0 .. CharMax :
               u.cells[k] = IF d.term.col <= k /\ k < d.term.col + Len(s)
                            THEN s[k - d.term.col + 1] ELSE d.term.cells[k]
      BY <1>3, <1>4, PutsIs
    <2> HIDE DEF u
    <2>2. d.term.col = 0 /\ \A k \in 0 .. CharMax : d.term.cells[k] = Space
      BY <1>2, <1>3 DEF Facts
    <2>3. ASSUME NEW k \in 0 .. CharMax
          PROVE  u.cells[k] = IF k < Len(s) THEN b[k] ELSE Space
      <3>1. u.cells[k] = IF k < Len(s) THEN s[k + 1] ELSE Space
        <4>1. k \in Nat /\ k - 0 + 1 = k + 1 /\ 0 <= k /\ 0 + Len(s) = Len(s)
          BY <1>4
        <4>. QED BY <4>1, <2>1, <2>2
      <3>. QED BY <3>1, <1>5, <1>4
    <2>. QED BY <2>1, <2>2, <2>3, <1>4
  <1> HIDE DEF u
  <1>7. /\ r \in Editors
        /\ r.buf = b /\ r.pos = Len(s) /\ r.linelen = Len(s)
        /\ r.term = u /\ r.clipboard = e.clipboard
    BY <1>1, <1>2, <1>5, <1>6, EditedIs
  <1>8. IsLine(r) /\ Shown(r)
    BY <1>7, <1>4, <1>5, <1>6 DEF IsLine, Shown
  <1>. QED BY <1>5, <1>7, <1>8 DEF Good

LEMMA CursorGood ==
    ASSUME NEW e \in Good, NEW p, p \in 0 .. e.linelen, NEW r, r = CursorTo(e, p)
    PROVE  /\ r \in Good
           /\ r.pos = p /\ r.linelen = e.linelen
           /\ r.clipboard = e.clipboard /\ r.buf = e.buf
  <1> DEFINE b == e.buf
             s == Chars(e.buf, e.pos, p)
             t == IF p < e.pos THEN Back(e.term, e.pos - p) ELSE Puts(e.term, s)
  <1>0. Facts(e) /\ e.term \in Terms /\ e.buf \in [Index -> Char \cup {NUL}]
    BY GoodIs
  <1>1. r = Edited(e, b, p, e.linelen, t)
    <2>1. r = [e EXCEPT !.pos = p, !.term = t]
      BY DEF CursorTo
    <2> HIDE DEF t
    <2>. QED BY <2>1 DEF Edited, Good, Editors
  <1>2. p \in Nat /\ p <= e.linelen
    BY <1>0 DEF Facts
  <1>3. t \in Terms /\ t.col = p /\ \A k \in 0 .. CharMax : t.cells[k] = e.term.cells[k]
    <2>1. CASE p < e.pos
      <3>1. t = Back(e.term, e.pos - p) /\ e.pos - p \in Int
        BY <2>1, <1>0, <1>2 DEF Facts
      <3> HIDE DEF t
      <3>2. t \in Terms /\ t.col = e.term.col - (e.pos - p) /\ t.cells = e.term.cells
        BY <3>1, <1>0, BackIs
      <3>. QED BY <3>2, <1>0, <1>2 DEF Facts
    <2>2. CASE ~(p < e.pos)
      <3>1. s \in Seq(Char) /\ Len(s) = p - e.pos
            /\ \A k \in 1 .. p - e.pos : s[k] = e.buf[e.pos + k - 1]
        <4>1. \A k \in e.pos .. p - 1 : e.buf[k] \in Char
          BY <1>0, <1>2 DEF Facts
        <4>2. e.pos \in Int /\ p \in Int /\ e.pos <= p
          BY <2>2, <1>0 DEF Facts
        <4>3. Len(s) = p - e.pos
          BY <4>2, CharsAre
        <4>4. \A k \in 1 .. p - e.pos : s[k] = e.buf[e.pos + k - 1]
          BY <4>2, CharsAre
        <4>5. s \in Seq(Char)
          BY <4>1, <4>2, CharsAre
        <4>. QED BY <4>3, <4>4, <4>5
      <3>2. t = Puts(e.term, s)
        BY <2>2
      <3> HIDE DEF s, t
      <3>3. /\ t \in Terms /\ t.col = e.term.col + Len(s)
            /\ \A k \in 0 .. CharMax :
                 t.cells[k] = IF e.term.col <= k /\ k < e.term.col + Len(s)
                              THEN s[k - e.term.col + 1] ELSE e.term.cells[k]
        BY <3>1, <3>2, <1>0, PutsIs
      <3>4. t.col = p /\ e.term.col = e.pos /\ e.pos + Len(s) = p
        BY <3>1, <3>3, <1>0, <1>2 DEF Facts
      <3>5. ASSUME NEW k \in 0 .. CharMax PROVE t.cells[k] = e.term.cells[k]
        <4>1. CASE e.pos <= k /\ k < p
          <5> DEFINE m == k - e.pos + 1
          <5>1. m \in 1 .. p - e.pos /\ e.pos + m - 1 = k /\ k < e.linelen
            BY <4>1, <1>0, <1>2 DEF Facts
          <5>2. t.cells[k] = s[m]
            BY <4>1, <3>3, <3>4
          <5> HIDE DEF m
          <5>3. s[m] = e.buf[k]
            BY <5>1, <3>1
          <5>. QED BY <5>1, <5>2, <5>3, <1>0 DEF Facts
        <4>2. CASE ~(e.pos <= k /\ k < p)
          BY <4>2, <3>3, <3>4
        <4>. QED BY <4>1, <4>2
      <3>. QED BY <3>3, <3>4, <3>5
    <2>. QED BY <2>1, <2>2
  <1> HIDE DEF t
  <1>4. p \in Index /\ e.linelen \in Index
    BY <1>0, <1>2 DEF Facts, Index
  <1>b. b \in [Index -> Char \cup {NUL}] /\ b = e.buf
    BY <1>0
  <1> HIDE DEF b
  <1>5. /\ r \in Editors
        /\ r.buf = b /\ r.pos = p /\ r.linelen = e.linelen
        /\ r.term = t /\ r.clipboard = e.clipboard
    <2>1. t \in Terms
      BY <1>3
    <2>2. r = Edited(e, b, p, e.linelen, t)
      BY <1>1
    <2>3. b \in [Index -> Char \cup {NUL}]
      BY <1>b
    <2> DEFINE x == Edited(e, b, p, e.linelen, t)
    <2>4. /\ x \in Editors
          /\ x.buf = b /\ x.pos = p /\ x.linelen = e.linelen
          /\ x.term = t /\ x.clipboard = e.clipboard
      <3> DEFINE m == e.linelen
      <3>1. e \in Good /\ m \in Index
        BY <1>4
      <3> HIDE DEF m
      <3>2. LET y == Edited(e, b, p, m, t)
            IN  /\ y \in Editors
                /\ y.buf = b /\ y.pos = p /\ y.linelen = m
                /\ y.term = t /\ y.clipboard = e.clipboard
        BY <3>1, <2>1, <2>3, <1>4, EditedIs
      <3>. QED BY <3>2 DEF m
    <2> HIDE DEF x
    <2>. QED BY <2>2, <2>4 DEF x
  <1>6. IsLine(r)
    BY <1>5, <1>b, <1>2, <1>0 DEF Facts, IsLine
  <1>7. Shown(r)
    BY <1>5, <1>b, <1>3, <1>0 DEF Facts, Shown
  <1>. QED BY <1>5, <1>b, <1>6, <1>7 DEF Good

LEMMA ClearScreenGood ==
    ASSUME NEW e \in Good, NEW r, r = ClearScreen(e)
    PROVE  /\ r \in Good
           /\ r.pos = e.linelen /\ r.linelen = e.linelen
           /\ r.clipboard = e.clipboard /\ r.buf = e.buf
  <1> DEFINE s == Chars(e.buf, 0, e.linelen)
             t == Puts(Row, s)
  <1>0. Facts(e) /\ e.buf \in [Index -> Char \cup {NUL}]
    BY GoodIs
  <1>1. r = Edited(e, e.buf, e.linelen, e.linelen, t)
    <2> DEFINE d == [e EXCEPT !.pos = 0, !.term = Row]
    <2>1. d.pos = 0 /\ d.term = Row /\ d.buf = e.buf
      BY DEF Good, Editors
    <2>2. r = CursorTo(d, e.linelen)
      BY DEF ClearScreen
    <2>3. r = [d EXCEPT !.pos = e.linelen, !.term = t]
      <3> HIDE DEF d
      <3> DEFINE x == IF e.linelen < d.pos THEN Back(d.term, d.pos - e.linelen)
                      ELSE Puts(d.term, Chars(d.buf, d.pos, e.linelen))
      <3>1. x = t
        BY <2>1, <1>0 DEF Facts
      <3>2. r = [d EXCEPT !.pos = e.linelen, !.term = x]
        BY <2>2 DEF CursorTo
      <3> HIDE DEF x, t
      <3>. QED BY <3>1, <3>2
    <2> HIDE DEF t
    <2>. QED BY <2>3 DEF Edited, Good, Editors
  <1>2. Row \in Terms /\ Row.col = 0 /\ \A k \in 0 .. CharMax : Row.cells[k] = Space
    BY <1>0 DEF Row, Terms, Facts
  <1>3. s \in Seq(Char) /\ Len(s) = e.linelen
        /\ \A k \in 1 .. e.linelen : s[k] = e.buf[k - 1]
    <2>1. 0 \in Int /\ e.linelen \in Int /\ 0 <= e.linelen /\ e.linelen - 0 = e.linelen
      BY <1>0 DEF Facts
    <2>2. Len(s) = e.linelen /\ \A k \in 1 .. e.linelen : s[k] = e.buf[0 + k - 1]
      BY <2>1, CharsAre
    <2>3. s \in Seq(Char)
      BY <2>1, <1>0, CharsAre DEF Facts
    <2>. QED BY <2>2, <2>3
  <1> HIDE DEF s
  <1>4. /\ t \in Terms /\ t.col = Row.col + Len(s)
        /\ \A k \in 0 .. CharMax :
             t.cells[k] = IF Row.col <= k /\ k < Row.col + Len(s)
                          THEN s[k - Row.col + 1] ELSE Row.cells[k]
    BY <1>2, <1>3, PutsIs
  <1> HIDE DEF t
  <1>5. t.col = e.linelen
    BY <1>2, <1>3, <1>4, <1>0 DEF Facts
  <1>6. ASSUME NEW k \in 0 .. CharMax
        PROVE  t.cells[k] = IF k < e.linelen THEN e.buf[k] ELSE Space
    <2>1. k \in Nat /\ k - 0 + 1 = k + 1 /\ 0 <= k /\ 0 + e.linelen = e.linelen
      BY <1>0 DEF Facts
    <2>2. t.cells[k] = IF k < e.linelen THEN s[k + 1] ELSE Space
      BY <2>1, <1>2, <1>3, <1>4
    <2>3. k < e.linelen => k + 1 \in 1 .. e.linelen /\ k + 1 - 1 = k
      BY <1>0 DEF Facts
    <2>. QED BY <2>2, <2>3, <1>3
  <1>7. e.linelen \in Index
    BY <1>0 DEF Facts, Index
  <1>8. /\ r \in Editors
        /\ r.buf = e.buf /\ r.pos = e.linelen /\ r.linelen = e.linelen
        /\ r.term = t /\ r.clipboard = e.clipboard
    BY <1>0, <1>1, <1>4, <1>7, EditedIs
  <1>9. IsLine(r)
    BY <1>8, <1>0 DEF Facts, IsLine
  <1>10. Shown(r)
    BY <1>8, <1>5, <1>6 DEF Shown
  <1>. QED BY <1>8, <1>9, <1>10 DEF Good

LEMMA KillTailGood ==
    ASSUME NEW e \in Good, NEW r, r = KillTail(e)
    PROVE  /\ r \in Good
           /\ r.pos = e.pos /\ r.linelen = e.pos
           /\ r.clipboard = Chars(e.buf, e.pos, e.linelen)
           /\ \A k \in 0 .. e.pos - 1 : r.buf[k] = e.buf[k]
  <1> DEFINE n == e.linelen - e.pos
             b == [e.buf EXCEPT ![e.pos] = NUL]
             c == Chars(e.buf, e.pos, e.linelen)
             u == Puts(e.term, Spaces(n))
             t == Back(u, n)
  <1>0. Facts(e) /\ e.buf \in [Index -> Char \cup {NUL}] /\ e.term \in Terms
    BY GoodIs
  <1>1. Str(e.buf, e.pos) = c
    <2>1. e.pos \in 0 .. e.linelen
      BY <1>0 DEF Facts
    <2>. QED BY <2>1, StrIs
  <1>2. c \in Strings
    <2>1. \A k \in e.pos .. e.linelen - 1 : e.buf[k] \in Char
      BY <1>0 DEF Facts
    <2>2. e.pos \in Int /\ e.linelen \in Int /\ e.pos <= e.linelen /\ n \in 0 .. CharMax - 1
      BY <1>0 DEF Facts
    <2>3. c \in Seq(Char) /\ Len(c) = n
      BY <2>1, <2>2, CharsAre
    <2> HIDE DEF c, n
    <2>4. c \in [1 .. n -> Char]
      BY <2>3
    <2>. QED BY <2>2, <2>4, IsString
  <1>3. e.pos \in Index /\ n \in Nat /\ n \in Int
    BY <1>0 DEF Facts, Index
  <1>4. b \in [Index -> Char \cup {NUL}] /\ b[e.pos] = NUL
        /\ \A k \in Index : k # e.pos => b[k] = e.buf[k]
    BY <1>0, <1>3
  <1>5. Spaces(n) \in Seq(Char) /\ Len(Spaces(n)) = n
        /\ \A k \in 1 .. n : Spaces(n)[k] = Space
    BY <1>3, SpacesAre
  <1>6. /\ u \in Terms /\ u.col = e.term.col + Len(Spaces(n))
        /\ \A k \in 0 .. CharMax :
             u.cells[k] = IF e.term.col <= k /\ k < e.term.col + Len(Spaces(n))
                          THEN Spaces(n)[k - e.term.col + 1] ELSE e.term.cells[k]
    BY <1>0, <1>5, PutsIs
  <1> HIDE DEF u
  <1>7. u.col = e.linelen /\ e.term.col = e.pos /\ e.pos + n = e.linelen
    BY <1>0, <1>5, <1>6 DEF Facts
  <1>8. ASSUME NEW k \in 0 .. CharMax
        PROVE  u.cells[k] = IF k < e.pos THEN b[k] ELSE Space
    <2>1. CASE e.pos <= k /\ k < e.linelen
      <3>1. k - e.pos + 1 \in 1 .. n
        BY <2>1, <1>0 DEF Facts
      <3>2. u.cells[k] = Spaces(n)[k - e.pos + 1]
        BY <2>1, <1>5, <1>6, <1>7
      <3>. QED BY <3>1, <3>2, <2>1, <1>5, <1>0 DEF Facts
    <2>2. CASE ~(e.pos <= k /\ k < e.linelen)
      <3>1. u.cells[k] = e.term.cells[k]
        BY <2>2, <1>5, <1>6, <1>7
      <3>2. k < e.pos => k \in Index
        BY <1>0 DEF Facts, Index
      <3> HIDE DEF b
      <3>. QED BY <3>1, <3>2, <2>2, <1>4, <1>0 DEF Facts
    <2>. QED BY <2>1, <2>2
  <1>9. t \in Terms /\ t.col = e.pos /\ t.cells = u.cells
    <2>1. t \in Terms /\ t.col = u.col - n /\ t.cells = u.cells
      BY <1>3, <1>6, BackIs
    <2>. QED BY <2>1, <1>7, <1>0 DEF Facts
  <1>10. r = [e EXCEPT !.clipboard = c, !.buf = b, !.linelen = e.pos, !.term = t]
    BY <1>1 DEF KillTail, u, Good, Editors
  <1> HIDE DEF b, c, n, t
  <1>11. /\ r \in Editors
         /\ r.buf = b /\ r.pos = e.pos /\ r.linelen = e.pos
         /\ r.term = t /\ r.clipboard = c
    BY <1>2, <1>3, <1>4, <1>9, <1>10 DEF Good, Editors
  <1>12. \A k \in 0 .. e.pos - 1 : b[k] = e.buf[k] /\ b[k] \in Char
    <2>1. \A k \in 0 .. e.pos - 1 : k \in Index /\ k # e.pos /\ k \in 0 .. e.linelen - 1
      BY <1>0 DEF Facts, Index
    <2>. QED BY <2>1, <1>4, <1>0 DEF Facts
  <1>13. IsLine(r)
    BY <1>11, <1>12, <1>4, <1>0 DEF Facts, IsLine
  <1>14. Shown(r)
    BY <1>11, <1>9, <1>8 DEF Shown
  <1>. QED BY <1>11, <1>12, <1>13, <1>14 DEF Good, c

-----------------------------------------------------------------------------
(* Functions that repeat another                                           *)

\* A function that applies g[1], g[2], ... in turn exists.
LEMMA Iterates ==
    ASSUME NEW S, NEW a \in S, NEW n \in Nat, NEW g \in [1 .. n -> [S -> S]]
    PROVE  \E f \in [0 .. n -> S] : f[0] = a /\ \A k \in 1 .. n : f[k] = g[k][f[k - 1]]
  <1> DEFINE Upto(m) == \E f \in [0 .. m -> S] :
                           f[0] = a /\ \A k \in 1 .. m : f[k] = g[k][f[k - 1]]
             B == {m \in Nat : m <= n => Upto(m)}
  <1>1. 0 \in B
    <2>1. [k \in 0 .. 0 |-> a] \in [0 .. 0 -> S] /\ [k \in 0 .. 0 |-> a][0] = a
      OBVIOUS
    <2>2. \A k \in 1 .. 0 : FALSE
      OBVIOUS
    <2>. QED BY <2>1, <2>2
  <1>2. ASSUME NEW m \in Nat, m \in B PROVE m + 1 \in B
    <2> SUFFICES ASSUME m + 1 <= n PROVE Upto(m + 1)
      OBVIOUS
    <2>1. PICK f \in [0 .. m -> S] : f[0] = a /\ \A k \in 1 .. m : f[k] = g[k][f[k - 1]]
      BY <1>2
    <2> DEFINE h == [k \in 0 .. m + 1 |-> IF k = m + 1 THEN g[m + 1][f[m]] ELSE f[k]]
    <2>2. g[m + 1] \in [S -> S] /\ f[m] \in S
      OBVIOUS
    <2>3. h \in [0 .. m + 1 -> S]
      BY <2>2
    <2>4. h[0] = a
      BY <2>1
    <2>5. \A k \in 1 .. m + 1 : h[k] = g[k][h[k - 1]]
      <3> TAKE k \in 1 .. m + 1
      <3>1. CASE k = m + 1
        <4>1. k - 1 = m /\ h[k] = g[m + 1][f[m]] /\ h[m] = f[m]
          BY <3>1
        <4>. QED BY <4>1, <3>1
      <3>2. CASE k # m + 1
        <4>1. k \in 1 .. m /\ h[k] = f[k] /\ h[k - 1] = f[k - 1]
          BY <3>2
        <4>. QED BY <4>1, <2>1
      <3>. QED BY <3>1, <3>2
    <2> HIDE DEF h
    <2>. QED BY <2>3, <2>4, <2>5
  <1> HIDE DEF B
  <1>3. n \in B
    BY <1>1, <1>2, SetInduction
  <1>. QED BY <1>3 DEF B

LEMMA InsertCloses ==
    ASSUME NEW e \in Good, NEW c \in Char
    PROVE  InsertChar(e, c) \in Good
  <1>1. CASE Full(e)
    BY <1>1 DEF InsertChar
  <1>2. CASE ~Full(e)
    BY <1>2, InsertGood
  <1>. QED BY <1>1, <1>2

LEMMA BackspaceCloses ==
    ASSUME NEW e \in Good
    PROVE  BackspaceKey(e) \in Good
  <1>0. e.pos \in Nat
    BY GoodIs DEF Facts
  <1>1. CASE e.pos <= 0
    BY <1>1 DEF BackspaceKey
  <1>2. CASE e.pos > 0
    BY <1>2, BackspaceGood
  <1>. QED BY <1>0, <1>1, <1>2

\* The states of a yank
LEMMA YankIs ==
    ASSUME NEW e \in Good
    PROVE  \E f :
             /\ f[0] = e
             /\ \A k \in 1 .. Len(e.clipboard) :
                  f[k] = InsertChar(f[k - 1], e.clipboard[k])
             /\ Yank(e) = f[Len(e.clipboard)]
  <1> DEFINE n == Len(e.clipboard)
             F(t) == [k \in 0 .. n |-> IF k = 0 THEN e ELSE InsertChar(t[k - 1], e.clipboard[k])]
             c == CHOOSE t : t = F(t)
             g == [k \in 1 .. n |-> [x \in Good |-> InsertChar(x, e.clipboard[k])]]
  <1>1. n \in Nat /\ e.clipboard \in [1 .. n -> Char]
    BY GoodIs, StringIs
  <1>2. Yank(e) = c[n]
    BY DEF Yank
  <1>3. g \in [1 .. n -> [Good -> Good]]
    BY <1>1, InsertCloses
  <1>4. PICK f \in [0 .. n -> Good] : f[0] = e /\ \A k \in 1 .. n : f[k] = g[k][f[k - 1]]
    <2> HIDE DEF n, g
    <2>. QED BY <1>1, <1>3, Iterates
  <1>5. f = F(f)
    <2>1. ASSUME NEW k \in 0 .. n
          PROVE  f[k] = IF k = 0 THEN e ELSE InsertChar(f[k - 1], e.clipboard[k])
      <3>1. k # 0 => k \in 1 .. n /\ k - 1 \in 0 .. n
        BY <1>1
      <3>. QED BY <3>1, <1>4
    <2> HIDE DEF n
    <2>. QED BY <2>1
  <1> HIDE DEF F
  <1>6. c = F(c)
    BY <1>5
  <1> HIDE DEF c
  <1>7. c[0] = e /\ \A k \in 1 .. n : c[k] = InsertChar(c[k - 1], e.clipboard[k])
    <2>1. \A k \in 0 .. n : F(c)[k] = IF k = 0 THEN e ELSE InsertChar(c[k - 1], e.clipboard[k])
      BY DEF F
    <2>2. 0 \in 0 .. n /\ \A k \in 1 .. n : k \in 0 .. n /\ k # 0
      BY <1>1
    <2> HIDE DEF n
    <2>. QED BY <2>1, <2>2, <1>6
  <1>. QED BY <1>2, <1>7

\* The states of killing a word
LEMMA KillWordIs ==
    ASSUME NEW e \in Good, e.pos # 0
    PROVE  \E f :
             /\ f[0] = e
             /\ \A k \in 1 .. e.pos : f[k] = BackspaceKey(f[k - 1])
             /\ KillWord(e) = [f[WordLength(e)] EXCEPT
                     !.clipboard = Chars(e.buf, e.pos - WordLength(e), e.pos)]
  <1> DEFINE n == e.pos
             F(t) == [k \in 0 .. n |-> IF k = 0 THEN e ELSE BackspaceKey(t[k - 1])]
             c == CHOOSE t : t = F(t)
             g == [k \in 1 .. n |-> [x \in Good |-> BackspaceKey(x)]]
  <1>1. n \in Nat
    BY GoodIs DEF Facts
  <1>2. KillWord(e) = [c[WordLength(e)] EXCEPT
                       !.clipboard = Chars(e.buf, e.pos - WordLength(e), e.pos)]
    BY DEF KillWord
  <1>3. g \in [1 .. n -> [Good -> Good]]
    BY <1>1, BackspaceCloses
  <1>4. PICK f \in [0 .. n -> Good] : f[0] = e /\ \A k \in 1 .. n : f[k] = g[k][f[k - 1]]
    <2> HIDE DEF n, g
    <2>. QED BY <1>1, <1>3, Iterates
  <1>5. f = F(f)
    <2>1. ASSUME NEW k \in 0 .. n
          PROVE  f[k] = IF k = 0 THEN e ELSE BackspaceKey(f[k - 1])
      <3>1. k # 0 => k \in 1 .. n /\ k - 1 \in 0 .. n
        BY <1>1
      <3>. QED BY <3>1, <1>4
    <2> HIDE DEF n
    <2>. QED BY <2>1
  <1> HIDE DEF F
  <1>6. c = F(c)
    BY <1>5
  <1> HIDE DEF c
  <1>7. c[0] = e /\ \A k \in 1 .. n : c[k] = BackspaceKey(c[k - 1])
    <2>1. \A k \in 0 .. n : F(c)[k] = IF k = 0 THEN e ELSE BackspaceKey(c[k - 1])
      BY DEF F
    <2>2. 0 \in 0 .. n /\ \A k \in 1 .. n : k \in 0 .. n /\ k # 0
      BY <1>1
    <2> HIDE DEF n
    <2>. QED BY <2>1, <2>2, <1>6
  <1>. QED BY <1>2, <1>7

\* What cmdline_killword takes is spaces, and the word before them.
LEMMA WordLengthIs ==
    ASSUME NEW e \in Good
    PROVE  /\ WordLength(e) \in 0 .. e.pos
           /\ \E i \in 0 .. WordLength(e) :
                /\ \A k \in 0 .. i - 1 : e.buf[e.pos - k - 1] = Space
                /\ \A k \in i .. WordLength(e) - 1 : e.buf[e.pos - k - 1] # Space
                /\ i < e.pos => e.buf[e.pos - i - 1] # Space
                /\ WordLength(e) < e.pos => e.buf[e.pos - WordLength(e) - 1] = Space
  <1> DEFINE b == e.buf
             p == e.pos
             Ends(from, S, j) == /\ \A k \in from .. j - 1 : b[p - k - 1] \in S
                                 /\ j < p => b[p - j - 1] \notin S
             i == CHOOSE j \in 0 .. p : Ends(0, {Space}, j)
             n == CHOOSE j \in i .. p : Ends(i, Char \ {Space}, j)
  <1>0. Facts(e)
    BY GoodIs
  <1>1. WordLength(e) = n
    BY DEF WordLength
  <1>2. p \in Nat /\ \A k \in 0 .. p - 1 : b[p - k - 1] \in Char
    <2>1. \A k \in 0 .. p - 1 : p - k - 1 \in 0 .. e.linelen - 1
      BY <1>0 DEF Facts
    <2>. QED BY <2>1, <1>0 DEF Facts
  <1> HIDE DEF b, p
  <1>r. ASSUME NEW from, from \in 0 .. p, NEW S
        PROVE  \E j \in from .. p : Ends(from, S, j)
    <2> DEFINE T == {x \in from .. p : x < p => b[p - x - 1] \notin S}
    <2>1. T \subseteq Nat /\ p \in T
      BY <1>r, <1>2
    <2>2. PICK j \in T : \A y \in T : j <= y
      BY <2>1, NatLeast
    <2>3. \A k \in from .. j - 1 : b[p - k - 1] \in S
      <3> TAKE k \in from .. j - 1
      <3>1. k \notin T /\ k \in from .. p /\ k < p
        BY <1>r, <1>2, <2>1, <2>2
      <3>. QED BY <3>1
    <2>. QED BY <2>2, <2>3
  <1> HIDE DEF Ends
  <1>3. i \in 0 .. p /\ Ends(0, {Space}, i)
    <2>1. 0 \in 0 .. p
      BY <1>2
    <2>2. \E j \in 0 .. p : Ends(0, {Space}, j)
      BY <2>1, <1>r
    <2>. QED BY <2>2
  <1> HIDE DEF i
  <1>4. n \in i .. p /\ Ends(i, Char \ {Space}, n)
    <2>2. \E j \in i .. p : Ends(i, Char \ {Space}, j)
      BY <1>3, <1>r
    <2>. QED BY <2>2
  <1> HIDE DEF n
  <1>5. n < p => b[p - n - 1] = Space
    <2>1. n < p => n \in 0 .. p - 1
      BY <1>2, <1>3, <1>4
    <2>. QED BY <2>1, <1>2, <1>4 DEF Ends
  <1>6. n \in 0 .. p /\ i \in 0 .. n
    BY <1>2, <1>3, <1>4
  <1>. QED BY <1>1, <1>3, <1>4, <1>5, <1>6 DEF b, p, Ends

\* x is e with the first m characters of the clipboard inserted.
Inserted(e, x, m) ==
    /\ x \in Good
    /\ x.pos = e.pos + m /\ x.linelen = e.linelen + m
    /\ x.clipboard = e.clipboard
    /\ \A j \in 0 .. e.linelen + m - 1 :
         x.buf[j] = IF j < e.pos THEN e.buf[j]
                    ELSE IF j < e.pos + m THEN e.clipboard[j - e.pos + 1]
                    ELSE e.buf[j - m]

LEMMA InsertOneMore ==
    ASSUME NEW e \in Good, NEW x, NEW m, m \in 0 .. Len(e.clipboard) - 1,
           Inserted(e, x, m), ~Full(x)
    PROVE  Inserted(e, InsertChar(x, e.clipboard[m + 1]), m + 1)
  <1> DEFINE c == e.clipboard[m + 1]
             y == InsertChar(x, c)
  <1>0. Facts(e) /\ e.clipboard \in [1 .. Len(e.clipboard) -> Char]
        /\ Len(e.clipboard) \in Nat
    BY GoodIs, StringIs
  <1>1. c \in Char
    BY <1>0
  <1> HIDE DEF c
  <1>2. /\ y \in Good
        /\ y.pos = x.pos + 1 /\ y.linelen = x.linelen + 1
        /\ y.clipboard = x.clipboard
        /\ \A k \in 0 .. x.linelen :
             y.buf[k] = IF k < x.pos THEN x.buf[k]
                        ELSE IF k = x.pos THEN c ELSE x.buf[k - 1]
    BY <1>1, InsertGood DEF Inserted
  <1> HIDE DEF y
  <1>3. /\ x.pos = e.pos + m /\ x.linelen = e.linelen + m /\ m \in Nat
        /\ x.clipboard = e.clipboard
    BY <1>0 DEF Inserted
  <1>4. ASSUME NEW j \in 0 .. e.linelen + (m + 1) - 1
        PROVE  y.buf[j] = IF j < e.pos THEN e.buf[j]
                          ELSE IF j < e.pos + (m + 1) THEN e.clipboard[j - e.pos + 1]
                          ELSE e.buf[j - (m + 1)]
    <2>1. j \in 0 .. x.linelen /\ j \in Nat
      BY <1>3, <1>0 DEF Facts
    <2>2. CASE j < x.pos
      <3>1. y.buf[j] = x.buf[j]
        BY <2>1, <2>2, <1>2
      <3>2. j \in 0 .. e.linelen + m - 1
        BY <2>1, <2>2, <1>3, <1>0 DEF Facts
      <3>. QED BY <3>1, <3>2, <2>2, <1>3, <1>0 DEF Facts, Inserted
    <2>3. CASE j = x.pos
      <3>1. y.buf[j] = c /\ j - e.pos + 1 = m + 1
        BY <2>1, <2>3, <1>2, <1>3, <1>0 DEF Facts
      <3>. QED BY <3>1, <2>3, <1>3, <1>0 DEF Facts, c
    <2>4. CASE j > x.pos
      <3>1. y.buf[j] = x.buf[j - 1]
        BY <2>1, <2>4, <1>2, <1>3, <1>0 DEF Facts
      <3>2. j - 1 \in 0 .. e.linelen + m - 1 /\ j - 1 - m = j - (m + 1)
            /\ ~(j - 1 < e.pos) /\ ~(j - 1 < e.pos + m)
            /\ ~(j < e.pos) /\ ~(j < e.pos + (m + 1))
        BY <2>1, <2>4, <1>3, <1>0 DEF Facts
      <3>3. x.buf[j - 1] = e.buf[j - 1 - m]
        BY <3>2 DEF Inserted
      <3>. QED BY <3>1, <3>2, <3>3
    <2>5. x.pos \in Int
      BY <1>3, <1>0 DEF Facts
    <2>. QED BY <2>1, <2>2, <2>3, <2>4, <2>5
  <1>5. y.pos = e.pos + (m + 1) /\ y.linelen = e.linelen + (m + 1)
        /\ y.clipboard = e.clipboard
    <2>1. y.pos = e.pos + m + 1 /\ y.linelen = e.linelen + m + 1
          /\ y.clipboard = e.clipboard
      BY <1>2, <1>3
    <2>2. e.pos \in Nat /\ e.linelen \in Nat
      BY <1>0 DEF Facts
    <2>. QED BY <2>1, <2>2, <1>3
  <1>6. Inserted(e, y, m + 1)
    BY <1>2, <1>4, <1>5 DEF Inserted
  <1>. QED BY <1>6 DEF y, c

\* The clipboard is inserted as far as there is room.
LEMMA YankGood ==
    ASSUME NEW e \in Good
    PROVE  \E m \in 0 .. Len(e.clipboard) :
             /\ m <= CharMax - 1 - e.linelen
             /\ m = Len(e.clipboard) \/ m = CharMax - 1 - e.linelen
             /\ Inserted(e, Yank(e), m)
  <1> DEFINE n == Len(e.clipboard)
             room == CharMax - 1 - e.linelen
  <1>0. Facts(e) /\ n \in Nat
    BY GoodIs, StringIs
  <1>1. PICK f : /\ f[0] = e
                 /\ \A k \in 1 .. n : f[k] = InsertChar(f[k - 1], e.clipboard[k])
                 /\ Yank(e) = f[n]
    BY YankIs
  <1> DEFINE Sofar(k) == \E m \in 0 .. k :
                           /\ m <= room
                           /\ m = k \/ m = room
                           /\ Inserted(e, f[k], m)
             B == {k \in Nat : k <= n => Sofar(k)}
  <1>2. 0 \in B
    <2>1. Inserted(e, f[0], 0)
      BY <1>1, <1>0 DEF Inserted, Facts
    <2>2. 0 \in 0 .. 0 /\ 0 <= room
      BY <1>0 DEF Facts
    <2>. QED BY <2>1, <2>2
  <1>3. ASSUME NEW k \in Nat, k \in B PROVE k + 1 \in B
    <2> SUFFICES ASSUME k + 1 <= n PROVE Sofar(k + 1)
      OBVIOUS
    <2>1. k <= n
      BY <1>0
    <2>2. PICK m \in 0 .. k : m <= room /\ (m = k \/ m = room) /\ Inserted(e, f[k], m)
      BY <2>1, <1>3
    <2>3. k + 1 \in 1 .. n /\ k + 1 - 1 = k
      BY <1>0
    <2>4. f[k + 1] = InsertChar(f[k], e.clipboard[k + 1])
      BY <2>3, <1>1
    <2>5. CASE Full(f[k])
      <3>1. f[k + 1] = f[k]
        BY <2>4, <2>5 DEF InsertChar
      <3>2. m = room
        BY <2>2, <2>5, <1>0 DEF Full, Inserted, Facts
      <3>3. m \in 0 .. k + 1
        OBVIOUS
      <3>. QED BY <3>1, <3>2, <3>3, <2>2
    <2>6. CASE ~Full(f[k])
      <3>1. m < room /\ m = k
        BY <2>2, <2>6, <1>0 DEF Full, Inserted, Facts
      <3>2. m \in 0 .. n - 1
        BY <3>1, <1>0
      <3>3. Inserted(e, f[k + 1], m + 1)
        BY <3>1, <3>2, <2>2, <2>4, <2>6, InsertOneMore
      <3>4. m + 1 \in 0 .. k + 1 /\ m + 1 <= room /\ m + 1 = k + 1
        BY <3>1, <1>0 DEF Facts
      <3>. QED BY <3>3, <3>4
    <2>. QED BY <2>5, <2>6
  <1> HIDE DEF B
  <1>4. n \in B
    BY <1>0, <1>2, <1>3, SetInduction
  <1>. QED BY <1>0, <1>1, <1>4 DEF B

\* x is e without the m characters before the cursor.
Erased(e, x, m) ==
    /\ x \in Good
    /\ x.pos = e.pos - m /\ x.linelen = e.linelen - m
    /\ x.clipboard = e.clipboard
    /\ \A j \in 0 .. e.linelen - m - 1 :
         x.buf[j] = IF j < e.pos - m THEN e.buf[j] ELSE e.buf[j + m]

LEMMA EraseOneMore ==
    ASSUME NEW e \in Good, NEW x, NEW m, m \in 0 .. e.pos - 1, Erased(e, x, m)
    PROVE  Erased(e, BackspaceKey(x), m + 1)
  <1> DEFINE y == BackspaceKey(x)
  <1>0. Facts(e)
    BY GoodIs
  <1>1. /\ x.pos = e.pos - m /\ x.linelen = e.linelen - m /\ m \in Nat
        /\ x.clipboard = e.clipboard /\ x.pos > 0 /\ x \in Good
    BY <1>0 DEF Erased, Facts
  <1>2. /\ y \in Good
        /\ y.pos = x.pos - 1 /\ y.linelen = x.linelen - 1
        /\ y.clipboard = x.clipboard
        /\ \A k \in 0 .. x.linelen - 2 :
             y.buf[k] = IF k < x.pos - 1 THEN x.buf[k] ELSE x.buf[k + 1]
    BY <1>1, BackspaceGood
  <1> HIDE DEF y
  <1>3. y.pos = e.pos - (m + 1) /\ y.linelen = e.linelen - (m + 1)
        /\ y.clipboard = e.clipboard
    <2>1. y.pos = e.pos - m - 1 /\ y.linelen = e.linelen - m - 1
          /\ y.clipboard = e.clipboard
      BY <1>1, <1>2
    <2>2. e.pos \in Nat /\ e.linelen \in Nat
      BY <1>0 DEF Facts
    <2>. QED BY <2>1, <2>2, <1>1
  <1>4. ASSUME NEW j \in 0 .. e.linelen - (m + 1) - 1
        PROVE  y.buf[j] = IF j < e.pos - (m + 1) THEN e.buf[j] ELSE e.buf[j + (m + 1)]
    <2>1. /\ j \in 0 .. x.linelen - 2 /\ j \in 0 .. e.linelen - m - 1
          /\ j + 1 \in 0 .. e.linelen - m - 1 /\ j + 1 + m = j + (m + 1)
          /\ (j < x.pos - 1 <=> j < e.pos - (m + 1))
      BY <1>1, <1>0 DEF Facts
    <2>2. CASE j < x.pos - 1
      <3>1. y.buf[j] = x.buf[j] /\ j < e.pos - m
        BY <2>1, <2>2, <1>1, <1>2, <1>0 DEF Facts
      <3>2. x.buf[j] = e.buf[j]
        BY <3>1, <2>1 DEF Erased
      <3>. QED BY <3>1, <3>2, <2>1, <2>2
    <2>3. CASE ~(j < x.pos - 1)
      <3>1. y.buf[j] = x.buf[j + 1] /\ ~(j + 1 < e.pos - m)
        BY <2>1, <2>3, <1>1, <1>2, <1>0 DEF Facts
      <3>2. x.buf[j + 1] = e.buf[j + 1 + m]
        BY <3>1, <2>1 DEF Erased
      <3>. QED BY <3>1, <3>2, <2>1, <2>3
    <2>. QED BY <2>2, <2>3
  <1>5. Erased(e, y, m + 1)
    BY <1>2, <1>3, <1>4 DEF Erased
  <1>. QED BY <1>5 DEF y

\* The word is erased and kept in the clipboard.
LEMMA KillWordGood ==
    ASSUME NEW e \in Good, e.pos # 0, NEW r, r = KillWord(e), NEW n, n = WordLength(e)
    PROVE  /\ n \in 0 .. e.pos
           /\ r \in Good
           /\ r.pos = e.pos - n /\ r.linelen = e.linelen - n
           /\ r.clipboard = Chars(e.buf, e.pos - n, e.pos)
           /\ \A j \in 0 .. e.linelen - n - 1 :
                r.buf[j] = IF j < e.pos - n THEN e.buf[j] ELSE e.buf[j + n]
  <1>0. Facts(e)
    BY GoodIs
  <1>1. PICK f : /\ f[0] = e
                 /\ \A k \in 1 .. e.pos : f[k] = BackspaceKey(f[k - 1])
                 /\ r = [f[n] EXCEPT !.clipboard = Chars(e.buf, e.pos - n, e.pos)]
    BY KillWordIs
  <1>2. n \in 0 .. e.pos
    BY WordLengthIs
  <1> DEFINE B == {k \in Nat : k <= e.pos => Erased(e, f[k], k)}
  <1>3. 0 \in B
    BY <1>1, <1>0 DEF Erased, Facts
  <1>4. ASSUME NEW k \in Nat, k \in B PROVE k + 1 \in B
    <2> SUFFICES ASSUME k + 1 <= e.pos PROVE Erased(e, f[k + 1], k + 1)
      OBVIOUS
    <2>1. k \in 0 .. e.pos - 1 /\ k <= e.pos /\ k + 1 \in 1 .. e.pos /\ k + 1 - 1 = k
      BY <1>0 DEF Facts
    <2>2. Erased(e, f[k], k)
      BY <2>1, <1>4
    <2>3. f[k + 1] = BackspaceKey(f[k])
      BY <2>1, <1>1
    <2>. QED BY <2>1, <2>2, <2>3, EraseOneMore
  <1>5. Erased(e, f[n], n)
    <2> HIDE DEF B
    <2>1. n \in B /\ n <= e.pos
      BY <1>2, <1>3, <1>4, <1>0, SetInduction DEF Facts
    <2>. QED BY <2>1 DEF B
  <1> HIDE DEF B
  <1> DEFINE c == Chars(e.buf, e.pos - n, e.pos)
             x == f[n]
  <1>6. c \in Strings
    <2>1. \A k \in e.pos - n .. e.pos - 1 : e.buf[k] \in Char
      BY <1>2, <1>0 DEF Facts
    <2>2. e.pos - n \in Int /\ e.pos \in Int /\ e.pos - n <= e.pos
          /\ n \in 0 .. CharMax - 1 /\ e.pos - (e.pos - n) = n
      BY <1>2, <1>0 DEF Facts
    <2>3. c \in Seq(Char) /\ Len(c) = n
      BY <2>1, <2>2, CharsAre
    <2> HIDE DEF c
    <2>4. c \in [1 .. n -> Char]
      BY <2>3
    <2>. QED BY <2>2, <2>4, IsString
  <1> HIDE DEF c, x
  <1>7. r = [x EXCEPT !.clipboard = c]
    BY <1>1 DEF c, x
  <1>8. x \in Good
    BY <1>5 DEF x, Erased
  <1>9. /\ r \in Editors /\ r.buf = x.buf /\ r.pos = x.pos
        /\ r.linelen = x.linelen /\ r.term = x.term /\ r.clipboard = c
    BY <1>6, <1>7, <1>8 DEF Good, Editors
  <1>10. r \in Good
    BY <1>8, <1>9 DEF Good, IsLine, Shown
  <1>. QED BY <1>2, <1>5, <1>9, <1>10 DEF Erased, c, x

-----------------------------------------------------------------------------
(* The history                                                             *)

Lines == Strings \ {<<>>}

\* A line is appended.
Appends(l) ==
    /\ l \in Lines
    /\ history' = [history EXCEPT ![histlast] = l]
    /\ IF histlast >= HistMax - 1
         THEN histfull' = TRUE /\ histlast' = 0
         ELSE histlast' = histlast + 1 /\ histfull' = histfull

LEMMA HistoryAssumed == HistMax \in Nat /\ HistMax > 0
  BY LineEditAssumption

\* What history.c assumes holds of the lines the editor gives it.
LEMMA HistoryMayBeUsed == H!HistoryAssumption
  BY LineEditAssumption, EmptyIsString DEF H!HistoryAssumption

USE HistoryAssumed DEF Lines

LEMMA AppendsTypeOK ==
    ASSUME H!TypeOK, NEW l \in Lines, Appends(l)
    PROVE  H!TypeOK'
  <1>1. history' \in [H!Index -> Lines \cup {<<>>}]
    BY DEF H!TypeOK, Appends
  <1>2. histfull' \in BOOLEAN /\ histlast' \in H!Index
    <2>1. histlast \in 0 .. HistMax - 1
      BY DEF H!TypeOK, H!Index
    <2>2. CASE histlast >= HistMax - 1
      <3>1. histfull' = TRUE /\ histlast' = 0
        BY <2>2 DEF Appends
      <3>. QED BY <3>1 DEF H!Index
    <2>3. CASE ~(histlast >= HistMax - 1)
      <3>1. histfull' = histfull /\ histlast' = histlast + 1
        BY <2>3 DEF Appends
      <3>2. histlast' \in H!Index
        BY <3>1, <2>1, <2>3 DEF H!Index
      <3>. QED BY <3>1, <3>2 DEF H!TypeOK
    <2>. QED BY <2>2, <2>3
  <1>3. ASSUME NEW i \in H!Index, histfull' \/ i < histlast'
        PROVE  history'[i] \in Lines
    <2>1. CASE i = histlast
      BY <2>1 DEF H!TypeOK, Appends
    <2>2. CASE i # histlast
      <3>1. history'[i] = history[i]
        BY <2>2 DEF H!TypeOK, Appends
      <3>2. histfull \/ i < histlast
        BY <1>3, <2>2 DEF H!TypeOK, Appends, H!Index
      <3>. QED BY <3>1, <3>2 DEF H!TypeOK
    <2>. QED BY <2>1, <2>2
  <1>. QED BY <1>1, <1>2, <1>3 DEF H!TypeOK

\* The mapped list
Mapped == [i \in 1 .. H!Count |-> H!HistoryGet(i - 1)]

LEMMA CountType == H!TypeOK => H!Count \in 0 .. HistMax
  BY DEF H!TypeOK, H!Count, H!Index

\* The n-th line back, without the test that it is there
LEMMA GetIs ==
    ASSUME H!TypeOK, NEW n \in 0 .. H!Count - 1
    PROVE  H!HistoryGet(n) = IF histlast > n THEN history[histlast - n - 1]
                           ELSE history[HistMax - (n - histlast) - 1]
  BY CountType DEF H!HistoryGet, H!Count, H!TypeOK, H!Index

\* The same after a step
LEMMA GetIsNext ==
    ASSUME H!TypeOK', NEW n \in 0 .. H!Count' - 1
    PROVE  H!HistoryGet(n)' = IF histlast' > n THEN history'[histlast' - n - 1]
                            ELSE history'[HistMax - (n - histlast') - 1]
  <1>1. H!Count' = IF histfull' THEN HistMax ELSE histlast'
    BY DEF H!Count
  <1>2. HistMax \in Int /\ histlast' \in Int
    BY DEF H!TypeOK, H!Index
  <1>3. H!Count' \in Int
    <2>1. CASE histfull'
      BY <2>1, <1>1, <1>2
    <2>2. CASE ~histfull'
      BY <2>2, <1>1, <1>2
    <2>. QED BY <2>1, <2>2
  <1>4. ~(n >= IF histfull' THEN HistMax ELSE histlast')
    <2>0. n \in 0 .. H!Count' - 1
      OBVIOUS
    <2>1. \A c \in Int : n \in 0 .. c - 1 => ~(n >= c)
      OBVIOUS
    <2>2. ~(n >= H!Count')
      BY <1>3, <2>0, <2>1, Zenon
    <2>. QED BY <2>2, <1>1
  <1>. QED BY <1>4 DEF H!HistoryGet

LEMMA CountGrows ==
    ASSUME H!TypeOK, NEW l \in Lines, Appends(l)
    PROVE  H!Count' = IF H!Count < HistMax THEN H!Count + 1 ELSE HistMax
  <1>1. histlast \in 0 .. HistMax - 1
    BY DEF H!TypeOK, H!Index
  <1>2. CASE histlast >= HistMax - 1
    <2>1. histfull' /\ histlast = HistMax - 1
      BY <1>1, <1>2 DEF Appends
    <2>2. H!Count' = HistMax
      BY <2>1 DEF H!Count
    <2>3. H!Count = HistMax \/ H!Count = HistMax - 1
      BY <2>1 DEF H!Count
    <2>. QED BY <2>2, <2>3
  <1>3. CASE ~(histlast >= HistMax - 1)
    <2>1. histfull' = histfull /\ histlast' = histlast + 1
      BY <1>3 DEF Appends
    <2>2. CASE histfull
      <3>1. H!Count = HistMax /\ H!Count' = HistMax
        BY <2>1, <2>2 DEF H!Count
      <3>. QED BY <3>1
    <2>3. CASE ~histfull
      <3>1. H!Count = histlast /\ H!Count' = histlast + 1
        BY <2>1, <2>3 DEF H!Count
      <3>. QED BY <3>1, <1>1, <1>3
    <2>. QED BY <2>2, <2>3
  <1>. QED BY <1>2, <1>3

\* The line just appended comes first.
LEMMA NewestFirst ==
    ASSUME H!TypeOK, NEW l \in Lines, Appends(l)
    PROVE  H!HistoryGet(0)' = l
  <1>1. H!TypeOK' /\ H!Count' > 0
    BY AppendsTypeOK, CountGrows, CountType
  <1>2. H!HistoryGet(0)' = IF histlast' > 0 THEN history'[histlast' - 0 - 1]
                         ELSE history'[HistMax - (0 - histlast') - 1]
    <2>1. H!Count' \in Nat /\ 0 \in 0 .. H!Count' - 1
      BY <1>1, CountGrows, CountType
    <2>. QED BY <2>1, <1>1, GetIsNext
  <1>3. history'[histlast] = l
    BY DEF H!TypeOK, Appends
  <1>4. CASE histlast >= HistMax - 1
    <2>1. histlast' = 0 /\ histlast = HistMax - 1
      BY <1>4 DEF Appends, H!TypeOK, H!Index
    <2>. QED BY <2>1, <1>2, <1>3
  <1>5. CASE ~(histlast >= HistMax - 1)
    <2>1. histlast' = histlast + 1 /\ histlast \in Nat
      BY <1>5 DEF Appends, H!TypeOK, H!Index
    <2>. QED BY <2>1, <1>2, <1>3
  <1>. QED BY <1>4, <1>5

\* The others move one place back.
LEMMA OthersFollow ==
    ASSUME H!TypeOK, NEW l \in Lines, Appends(l), NEW n \in 1 .. H!Count' - 1
    PROVE  H!HistoryGet(n)' = H!HistoryGet(n - 1)
  <1>1. H!TypeOK'
    BY AppendsTypeOK
  <1>2. n - 1 \in 0 .. H!Count - 1 /\ n \in 1 .. HistMax - 1
    BY CountGrows, CountType
  <1>3. H!HistoryGet(n)' = IF histlast' > n THEN history'[histlast' - n - 1]
                         ELSE history'[HistMax - (n - histlast') - 1]
    <2>1. n \in 0 .. H!Count' - 1
      OBVIOUS
    <2>. QED BY <2>1, <1>1, GetIsNext
  <1>4. H!HistoryGet(n - 1) =
            IF histlast > n - 1 THEN history[histlast - (n - 1) - 1]
            ELSE history[HistMax - (n - 1 - histlast) - 1]
    BY <1>2, GetIs
  <1>5. \A i \in H!Index : i # histlast => history'[i] = history[i]
    BY DEF H!TypeOK, Appends
  <1>6. CASE histlast >= HistMax - 1
    <2>1. histlast' = 0 /\ histlast = HistMax - 1
      BY <1>6 DEF Appends, H!TypeOK, H!Index
    <2>2. HistMax - n - 1 \in H!Index /\ HistMax - n - 1 # histlast
      BY <1>2, <2>1 DEF H!Index
    <2>3. H!HistoryGet(n)' = history'[HistMax - n - 1]
      BY <2>1, <1>3, <1>2
    <2>4. H!HistoryGet(n - 1) = history[HistMax - n - 1]
      BY <2>1, <1>4, <1>2
    <2>. QED BY <2>2, <2>3, <2>4, <1>5
  <1>7. CASE ~(histlast >= HistMax - 1)
    <2>1. histlast' = histlast + 1 /\ histlast \in Nat /\ histlast < HistMax - 1
      BY <1>7 DEF Appends, H!TypeOK, H!Index
    <2>2. CASE histlast > n - 1
      <3>1. histlast - n \in H!Index /\ histlast - n # histlast
        BY <2>1, <2>2, <1>2 DEF H!Index
      <3>2. H!HistoryGet(n)' = history'[histlast - n]
        BY <2>1, <2>2, <1>3, <1>2
      <3>3. H!HistoryGet(n - 1) = history[histlast - n]
        BY <2>1, <2>2, <1>4, <1>2
      <3>. QED BY <3>1, <3>2, <3>3, <1>5
    <2>3. CASE ~(histlast > n - 1)
      <3>0. /\ HistMax - (n - (histlast + 1)) - 1 = HistMax - n + histlast
            /\ HistMax - (n - 1 - histlast) - 1 = HistMax - n + histlast
        BY <2>1, <1>2
      <3>1. HistMax - n + histlast \in H!Index /\ HistMax - n + histlast # histlast
        BY <2>1, <2>3, <1>2 DEF H!Index
      <3>2. H!HistoryGet(n)' = history'[HistMax - n + histlast]
        BY <3>0, <2>1, <2>3, <1>3, <1>2
      <3>3. H!HistoryGet(n - 1) = history[HistMax - n + histlast]
        BY <3>0, <2>1, <2>3, <1>4, <1>2
      <3>. QED BY <3>1, <3>2, <3>3, <1>5
    <2>. QED BY <2>2, <2>3
  <1>. QED BY <1>6, <1>7

LEMMA MappedLen == H!TypeOK => Len(Mapped) = H!Count
  <1> SUFFICES ASSUME H!TypeOK PROVE Len(Mapped) = H!Count
    OBVIOUS
  <1>1. H!Count \in Nat
    BY CountType
  <1>. QED BY <1>1 DEF Mapped

LEMMA AppendAdds ==
    ASSUME H!TypeOK, NEW l \in Lines, Appends(l)
    PROVE  H!Recent!Add(l)
  <1>1. H!TypeOK' /\ H!Count \in 0 .. HistMax /\ Len(Mapped) = H!Count
    BY AppendsTypeOK, CountType, MappedLen
  <1>2. H!Count' = IF H!Count < HistMax THEN H!Count + 1 ELSE HistMax
    BY CountGrows
  <1>3. \A i \in 1 .. H!Count' :
            H!HistoryGet(i - 1)' = IF i = 1 THEN l ELSE Mapped[i - 1]
    <2> TAKE i \in 1 .. H!Count'
    <2>1. CASE i = 1
      <3>1. i - 1 = 0
        BY <2>1
      <3>. QED BY <2>1, <3>1, NewestFirst DEF H!HistoryGet
    <2>2. CASE i # 1
      <3>1. i - 1 \in 1 .. H!Count' - 1 /\ i - 1 \in 1 .. H!Count
        BY <2>2, <1>1, <1>2
      <3>2. H!HistoryGet(i - 1)' = H!HistoryGet(i - 1 - 1)
        BY <3>1, OthersFollow
      <3>3. Mapped[i - 1] = H!HistoryGet(i - 1 - 1)
        BY <3>1 DEF Mapped
      <3>. QED BY <2>2, <3>2, <3>3
    <2>. QED BY <2>1, <2>2
  <1>4. Mapped' = [i \in 1 .. H!Count' |-> IF i = 1 THEN l ELSE Mapped[i - 1]]
    BY <1>3 DEF Mapped
  <1>. QED BY <1>1, <1>2, <1>4 DEF H!Recent!Add, Mapped

HIDE HistoryAssumed DEF Lines

-----------------------------------------------------------------------------
(* The inductive invariant                                                 *)

\* The buffer holds a line, with garbage behind its null only, and the
\* terminal shows it; a walk does not go further back than the history does.
Inv ==
    /\ ed \in Good
    /\ curline \in Strings
    /\ H!TypeOK
    /\ histnum \in 0 .. H!Count

LEMMA InvTypeOK == Inv => TypeOK
  <1> SUFFICES ASSUME Inv PROVE TypeOK
    OBVIOUS
  <1>1. /\ ed.buf \in [Index -> Char \cup {NUL}] /\ ed.clipboard \in Strings
        /\ Facts(ed)
    BY GoodIs DEF Inv
  <1>2. ed.linelen \in Index /\ ed.pos \in 0 .. ed.linelen
    BY <1>1 DEF Facts, Index
  <1>3. histnum \in 0 .. HistMax
    BY CountType, HistoryAssumed DEF Inv
  <1>. QED BY <1>1, <1>2, <1>3 DEF TypeOK, Inv

LEMMA InvEcho == Inv => Echo
  <1> SUFFICES ASSUME Inv PROVE Echo
    OBVIOUS
  <1>1. Facts(ed) /\ ed.term \in Terms
    BY GoodIs DEF Inv
  <1> DEFINE f == [k \in 0 .. CharMax |-> IF k < ed.linelen THEN ed.buf[k] ELSE Space]
  <1>2. ed.term.cells = f
    BY <1>1 DEF Facts, Terms
  <1> HIDE DEF f
  <1>3. ed.term = [cells |-> f, col |-> ed.pos]
    BY <1>1, <1>2 DEF Facts, Terms
  <1>. QED BY <1>3 DEF Echo, f

LEMMA InitInv == Init => Inv
  <1> SUFFICES ASSUME Init PROVE Inv
    OBVIOUS
  <1>1. ed \in Good
    <2>1. Filled(<<>>) \in [Index -> Char \cup {NUL}] /\ Filled(<<>>)[0] = NUL /\ 0 \in Index
      BY EmptyIsString, FilledIs
    <2>2. Row \in Terms /\ Row.col = 0 /\ \A k \in 0 .. CharMax : Row.cells[k] = Space
      BY CliAssumption DEF Row, Terms
    <2>3. /\ ed \in Editors /\ ed.buf = Filled(<<>>) /\ ed.pos = 0 /\ ed.linelen = 0
          /\ ed.term = Row
      BY <2>1, <2>2, EmptyIsString DEF Init, Editors
    <2>4. IsLine(ed) /\ Shown(ed)
      BY <2>1, <2>2, <2>3 DEF IsLine, Shown
    <2>. QED BY <2>3, <2>4 DEF Good
  <1>2. curline \in Strings
    BY EmptyIsString DEF Init
  <1>3. H!TypeOK
    <2>1. histfull = FALSE /\ histlast = 0 /\ histlast \in H!Index
      BY HistoryAssumed DEF Init, H!Init, H!Index
    <2>2. \A i \in H!Index : ~(i < histlast)
      BY <2>1 DEF H!Index
    <2>3. history \in [H!Index -> (Strings \ {<<>>}) \cup {<<>>}]
      BY DEF Init, H!Init
    <2>. QED BY <2>1, <2>2, <2>3 DEF H!TypeOK
  <1>4. histnum \in 0 .. H!Count
    BY <1>3, CountType DEF Init
  <1>. QED BY <1>1, <1>2, <1>3, <1>4 DEF Inv

\* What history_get returns is a line, or NULL behind the last one.
LEMMA GetType ==
    ASSUME H!TypeOK, NEW n, n \in Nat
    PROVE  /\ n < H!Count => H!HistoryGet(n) \in Lines /\ H!HistoryGet(n) # Null
           /\ n >= H!Count => H!HistoryGet(n) = Null
  <1>1. n >= H!Count => H!HistoryGet(n) = Null
    BY DEF H!HistoryGet, H!Count
  <1>2. n < H!Count => H!HistoryGet(n) \in Lines
    <2> SUFFICES ASSUME n < H!Count PROVE H!HistoryGet(n) \in Lines
      OBVIOUS
    <2>1. n \in 0 .. H!Count - 1 /\ H!Count \in 0 .. HistMax
      BY CountType, HistoryAssumed
    <2>2. H!HistoryGet(n) = IF histlast > n THEN history[histlast - n - 1]
                            ELSE history[HistMax - (n - histlast) - 1]
      BY <2>1, GetIs
    <2>3. histlast \in 0 .. HistMax - 1 /\ \A i \in 0 .. HistMax - 1 :
                histfull \/ i < histlast => history[i] \in Lines
      BY DEF H!TypeOK, H!Index, Lines
    <2>4. CASE histlast > n
      <3>1. histlast - n - 1 \in 0 .. HistMax - 1 /\ histlast - n - 1 < histlast
        BY <2>3, <2>4, HistoryAssumed
      <3>. QED BY <3>1, <2>2, <2>3, <2>4
    <2>5. CASE ~(histlast > n)
      <3>1. histfull
        BY <2>1, <2>3, <2>5 DEF H!Count
      <3>2. HistMax - (n - histlast) - 1 \in 0 .. HistMax - 1
        BY <2>1, <2>3, <2>5, HistoryAssumed
      <3>. QED BY <3>1, <3>2, <2>2, <2>3, <2>5
    <2>. QED BY <2>4, <2>5
  <1>3. Null \notin Lines
    BY LineEditAssumption DEF Lines
  <1>. QED BY <1>1, <1>2, <1>3

\* The line in the buffer
LEMMA LineIs ==
    ASSUME NEW e \in Good
    PROVE  /\ Str(e.buf, 0) = Chars(e.buf, 0, e.linelen)
           /\ Str(e.buf, 0) \in Strings /\ Len(Str(e.buf, 0)) = e.linelen
           /\ \A k \in 1 .. e.linelen : Str(e.buf, 0)[k] = e.buf[k - 1]
  <1> DEFINE c == Chars(e.buf, 0, e.linelen)
  <1>0. Facts(e)
    BY GoodIs
  <1>1. 0 \in Int /\ e.linelen \in Int /\ 0 <= e.linelen /\ e.linelen - 0 = e.linelen
        /\ 0 \in 0 .. e.linelen /\ e.linelen \in 0 .. CharMax - 1
    BY <1>0 DEF Facts
  <1>2. Str(e.buf, 0) = c
    BY <1>1, StrIs
  <1>3. c \in Seq(Char) /\ Len(c) = e.linelen
    <2>1. \A k \in 0 .. e.linelen - 1 : e.buf[k] \in Char
      BY <1>0 DEF Facts
    <2>2. Len(c) = e.linelen
      BY <1>1, CharsAre
    <2>3. c \in Seq(Char)
      BY <1>1, <2>1, CharsAre
    <2>. QED BY <2>2, <2>3
  <1>4. \A k \in 1 .. e.linelen : c[k] = e.buf[k - 1]
    <2>1. \A k \in 1 .. e.linelen : c[k] = e.buf[0 + k - 1]
      BY <1>1, CharsAre
    <2>. QED BY <2>1
  <1> HIDE DEF c
  <1>5. c \in [1 .. e.linelen -> Char]
    BY <1>3
  <1>6. c \in Strings
    BY <1>1, <1>5, IsString
  <1>. QED BY <1>2, <1>3, <1>4, <1>6 DEF c

\* msh_get_cmdline leaves an empty editor to the next call.
Emptied(e) == [Clear(e) EXCEPT !.term = Row]

LEMMA EmptiedGood ==
    ASSUME NEW e \in Good, NEW r, r = Emptied(e)
    PROVE  /\ r \in Good /\ r.pos = 0 /\ r.linelen = 0
           /\ r.clipboard = e.clipboard
  <1> DEFINE b == Filled(<<>>)
             t == Row
  <1>1. b \in [Index -> Char \cup {NUL}] /\ b[0] = NUL /\ 0 \in Index
    BY EmptyIsString, FilledIs
  <1>2. t \in Terms /\ t.col = 0 /\ \A k \in 0 .. CharMax : t.cells[k] = Space
    BY CliAssumption DEF Row, Terms
  <1>3. r = Edited(e, b, 0, 0, t)
    <2>1. r = [[e EXCEPT !.buf = b, !.pos = 0, !.linelen = 0] EXCEPT !.term = t]
      BY DEF Emptied, Clear
    <2> HIDE DEF b, t
    <2>. QED BY <2>1 DEF Edited, Good, Editors
  <1> HIDE DEF b, t
  <1>4. /\ r \in Editors
        /\ r.buf = b /\ r.pos = 0 /\ r.linelen = 0
        /\ r.term = t /\ r.clipboard = e.clipboard
    BY <1>1, <1>2, <1>3, EditedIs
  <1>5. IsLine(r) /\ Shown(r)
    BY <1>1, <1>2, <1>4 DEF IsLine, Shown
  <1>. QED BY <1>4, <1>5 DEF Good

\* What a return leaves in the history
LEMMA AppendStep ==
    ASSUME H!TypeOK, NEW l \in Strings, H!HistoryAppend(l)
    PROVE  /\ l = <<>> => UNCHANGED histVars
           /\ l # <<>> => l \in Lines /\ Appends(l)
           /\ H!TypeOK'
  <1>1. CASE l = <<>>
    <2>1. UNCHANGED <<history, histfull, histlast>>
      BY <1>1 DEF H!HistoryAppend, H!vars
    <2>2. H!TypeOK'
      BY <2>1 DEF H!TypeOK, H!Index
    <2>. QED BY <1>1, <2>1, <2>2 DEF histVars
  <1>2. CASE l # <<>>
    <2>1. l \in Lines
      BY <1>2 DEF Lines
    <2>2. Appends(l)
      BY <1>2, <2>1 DEF H!HistoryAppend, Appends
    <2>. QED BY <1>2, <2>1, <2>2, AppendsTypeOK
  <1>. QED BY <1>1, <1>2

LEMMA EditInv ==
    ASSUME Inv, NEW x \in Good, Edit(x)
    PROVE  Inv'
  <1>1. ed' \in Good /\ curline' \in Strings
    BY DEF Edit, Inv
  <1>2. UNCHANGED <<history, histfull, histlast, histnum>>
    BY DEF Edit, histVars
  <1>3. H!TypeOK' /\ histnum' \in 0 .. H!Count'
    BY <1>2 DEF Inv, H!TypeOK, H!Count, H!Index
  <1>. QED BY <1>1, <1>3 DEF Inv

LEMMA NextCount == H!TypeOK' => 0 \in 0 .. H!Count'
  BY HistoryAssumed DEF H!TypeOK, H!Count, H!Index

LEMMA ReturnInv ==
    ASSUME Inv, NEW l \in Strings, Return(l)
    PROVE  Inv'
  <1>1. H!TypeOK'
    BY AppendStep DEF Inv, Return
  <1>2. ed' = Emptied(ed)
    BY DEF Return, Emptied
  <1>3. ed' \in Good
    BY <1>2, EmptiedGood DEF Inv
  <1>. QED BY <1>1, <1>3, NextCount DEF Inv, Return

\* Where a walk goes
LEMMA WalkInv ==
    ASSUME Inv, NEW s \in Strings, ed' = Set(ed, s), histnum' \in 0 .. H!Count,
           curline' \in Strings, UNCHANGED histVars
    PROVE  Inv'
  <1>1. ed' \in Good
    BY SetGood DEF Inv
  <1>2. UNCHANGED <<history, histfull, histlast>>
    BY DEF histVars
  <1>3. H!TypeOK' /\ H!Count' = H!Count
    BY <1>2 DEF Inv, H!TypeOK, H!Count, H!Index
  <1>. QED BY <1>1, <1>3 DEF Inv

LEMMA NextInv == Inv /\ [Next]_vars => Inv'
  <1> SUFFICES ASSUME Inv, [Next]_vars PROVE Inv'
    OBVIOUS
  <1>0. ed \in Good /\ Facts(ed)
    BY GoodIs DEF Inv
  <1>1. ASSUME NEW c \in Char, InsertKey(c) PROVE Inv'
    BY <1>0, <1>1, InsertCloses, EditInv DEF InsertKey
  <1>2. CASE Backspace
    BY <1>0, <1>2, BackspaceCloses, EditInv DEF Backspace
  <1>3. CASE Delete
    <2>1. CASE ed.pos < ed.linelen
      BY <2>1, <1>0, <1>3, DeleteGood, EditInv DEF Delete
    <2>2. CASE ed.linelen <= ed.pos
      BY <2>2, <1>0, <1>3, EditInv DEF Delete, DeleteKey
    <2>. QED BY <2>1, <2>2, <1>0 DEF Facts
  <1>4. ASSUME NEW p, p \in 0 .. ed.linelen, Edit(CursorTo(ed, p)) PROVE Inv'
    BY <1>0, <1>4, CursorGood, EditInv
  <1>5. CASE Left
    <2>1. ed.pos - 1 \in 0 .. ed.linelen
      BY <1>0, <1>5 DEF Left, Facts
    <2>. QED BY <2>1, <1>4, <1>5 DEF Left
  <1>6. CASE Right
    <2>1. ed.pos + 1 \in 0 .. ed.linelen
      BY <1>0, <1>6 DEF Right, Facts
    <2>. QED BY <2>1, <1>4, <1>6 DEF Right
  <1>7. CASE Linehead
    <2>1. 0 \in 0 .. ed.linelen
      BY <1>0 DEF Facts
    <2>. QED BY <2>1, <1>4, <1>7 DEF Linehead
  <1>8. CASE Linetail
    <2>1. ed.linelen \in 0 .. ed.linelen
      BY <1>0 DEF Facts
    <2>. QED BY <2>1, <1>4, <1>8 DEF Linetail
  <1>9. CASE ClearKey
    BY <1>0, <1>9, ClearScreenGood, EditInv DEF ClearKey
  <1>10. CASE YankKey
    <2>1. Yank(ed) \in Good
      BY <1>0, YankGood DEF Inserted
    <2>. QED BY <2>1, <1>10, EditInv DEF YankKey
  <1>11. CASE KilltailKey
    BY <1>0, <1>11, KillTailGood, EditInv DEF KilltailKey
  <1>12. CASE KillwordKey
    <2>1. CASE ed.pos = 0
      BY <2>1, <1>0, <1>12, EditInv DEF KillwordKey, KillWord
    <2>2. CASE ed.pos # 0
      BY <2>2, <1>0, <1>12, KillWordGood, EditInv DEF KillwordKey
    <2>. QED BY <2>1, <2>2
  <1>13. CASE KillKey
    BY <1>0, <1>13, KillGood, EditInv DEF KillKey
  <1>14. CASE HistPrev
    <2> DEFINE l == H!HistoryGet(histnum)
    <2>1. /\ histnum \in Nat /\ H!Count \in Nat /\ histnum <= H!Count
          /\ l # Null => histnum < H!Count /\ l \in Strings
      <3>1. H!TypeOK /\ H!Count \in 0 .. HistMax /\ histnum \in 0 .. H!Count
        BY CountType DEF Inv
      <3>2. histnum \in Nat /\ H!Count \in Nat /\ histnum <= H!Count
        BY <3>1, HistoryAssumed
      <3>3. l # Null => histnum < H!Count
        BY <3>1, <3>2, GetType
      <3>. QED BY <3>1, <3>2, <3>3, GetType DEF Lines
    <2>2. curline' \in Strings
      <3>1. Str(ed.buf, 0) \in Strings
        BY <1>0, LineIs
      <3>. QED BY <3>1, <1>14 DEF HistPrev, Inv
    <2>3. CASE l # Null
      <3>1. ed' = Set(ed, l) /\ histnum' = histnum + 1 /\ UNCHANGED histVars
        BY <1>14, <2>3 DEF HistPrev
      <3>2. histnum' \in 0 .. H!Count
        BY <3>1, <2>1, <2>3
      <3>. QED BY <3>1, <3>2, <2>1, <2>2, <2>3, WalkInv
    <2>4. CASE l = Null
      <3>1. UNCHANGED <<ed, histnum, history, histfull, histlast>>
        BY <1>14, <2>4 DEF HistPrev, histVars
      <3>. QED BY <3>1, <2>2 DEF Inv, H!TypeOK, H!Count, H!Index
    <2>. QED BY <2>3, <2>4
  <1>15. CASE HistNext
    <2> DEFINE l == IF histnum = 1 THEN curline ELSE H!HistoryGet(histnum - 2)
    <2>1. histnum \in 1 .. H!Count /\ H!Count \in Nat /\ H!TypeOK
      BY <1>15, CountType, HistoryAssumed DEF HistNext, Inv
    <2>2. l \in Strings
      <3>1. CASE histnum = 1
        BY <3>1 DEF Inv
      <3>2. CASE histnum # 1
        <4>1. histnum - 2 \in Nat /\ histnum - 2 < H!Count
          BY <2>1, <3>2
        <4>. QED BY <4>1, <2>1, <3>2, GetType DEF Lines
      <3>. QED BY <3>1, <3>2
    <2>3. /\ ed' = Set(ed, l) /\ histnum' = histnum - 1 /\ curline' = curline
          /\ UNCHANGED histVars
      BY <1>15 DEF HistNext
    <2>4. histnum' \in 0 .. H!Count
      BY <2>1, <2>3
    <2>. QED BY <2>2, <2>3, <2>4, WalkInv DEF Inv
  <1>16. CASE Enter
    BY <1>0, <1>16, LineIs, ReturnInv DEF Enter
  <1>17. CASE Discard
    BY <1>17, EmptyIsString, ReturnInv DEF Discard
  <1>18. CASE UNCHANGED vars
    <2>1. UNCHANGED <<ed, curline, histnum, history, histfull, histlast>>
      BY <1>18 DEF vars, histVars
    <2>. QED BY <2>1 DEF Inv, H!TypeOK, H!Count, H!Index
  <1>. QED BY <1>1, <1>2, <1>3, <1>5, <1>6, <1>7, <1>8, <1>9, <1>10, <1>11, <1>12,
              <1>13, <1>14, <1>15, <1>16, <1>17, <1>18 DEF Next

LEMMA SpecInv == Spec => []Inv
  BY InitInv, NextInv, PTL DEF Spec

-----------------------------------------------------------------------------
(* The theorems about the editor's states                                  *)

\* In every state the cursor, the line's length, the clipboard, the saved line
\* and the walk are in bounds (lineedit.c's buf[], pos, linelen).
THEOREM TypeCorrect == Spec => []TypeOK
  BY SpecInv, InvTypeOK, PTL

\* After every key the terminal shows the line with the cursor at pos, whatever
\* was inserted, removed, recalled or cleared (lineedit.c's printf calls).
THEOREM EchoCorrect == Spec => []Echo
  BY SpecInv, InvEcho, PTL

-----------------------------------------------------------------------------
(* The history below the editor                                            *)

\* A step of the editor appends the line entered or leaves the history alone.
LEMMA HistoryStep ==
    ASSUME Inv, [Next]_vars
    PROVE  (UNCHANGED histVars) \/ \E l \in Lines : Appends(l)
  <1>1. CASE Enter \/ Discard
    <2>1. PICK l \in Strings : H!HistoryAppend(l)
      <3>1. CASE Enter
        BY <3>1, LineIs DEF Inv, Enter, Return
      <3>2. CASE Discard
        BY <3>2, EmptyIsString DEF Discard, Return
      <3>. QED BY <1>1, <3>1, <3>2
    <2>. QED BY <2>1, AppendStep DEF Inv
  <1>2. CASE ~(Enter \/ Discard)
    BY <1>2 DEF Next, vars, Edit, InsertKey, Backspace, Delete, Left, Right, Linehead,
          Linetail, ClearKey, YankKey, KilltailKey, KillwordKey, KillKey, HistPrev, HistNext
  <1>. QED BY <1>1, <1>2

\* history_get(0), history_get(1), ... are the latest lines entered, newest
\* first, in a ring of any size, before and after it is full (history.c:32-68).
THEOREM RecentRecalled == Spec => H!RecallsRecent
  <1>1. Init => H!Recent!Init
    <2> SUFFICES ASSUME Init PROVE H!Recent!Init
      OBVIOUS
    <2>1. H!Count = 0
      BY DEF Init, H!Init, H!Count
    <2>. QED BY <2>1 DEF H!Recent!Init
  <1>2. Inv /\ [Next]_vars => [H!Recent!Next]_Mapped
    <2> SUFFICES ASSUME Inv, [Next]_vars
                 PROVE  H!Recent!Next \/ Mapped' = Mapped
      OBVIOUS
    <2>1. CASE UNCHANGED histVars
      BY <2>1 DEF histVars, Mapped, H!Count, H!HistoryGet
    <2>2. ASSUME NEW l \in Lines, Appends(l) PROVE H!Recent!Next
      <3>1. H!Recent!Add(l)
        BY <2>2, AppendAdds DEF Inv
      <3>2. l \in Strings \ {<<>>}
        BY <2>2 DEF Lines
      <3>. QED BY <3>1, <3>2 DEF H!Recent!Next
    <2>. QED BY <2>1, <2>2, HistoryStep
  <1>. QED BY <1>1, <1>2, SpecInv, PTL DEF Spec, H!RecallsRecent, H!Recent!Spec, Mapped

-----------------------------------------------------------------------------
(* Parts of the buffer as sequences                                        *)

LEMMA SameChars ==
    ASSUME NEW s \in Seq(Char), NEW t \in Seq(Char), Len(s) = Len(t),
           \A k \in 1 .. Len(s) : s[k] = t[k]
    PROVE  s = t
  BY SeqEqual

\* The part of a buffer from i to j, with its characters at their places
LEMMA PartIs ==
    ASSUME NEW b, NEW i \in Int, NEW j \in Int, i <= j,
           \A k \in i .. j - 1 : b[k] \in Char, NEW s, s = Chars(b, i, j)
    PROVE  /\ s \in Seq(Char) /\ Len(s) = j - i
           /\ \A k \in 1 .. j - i : s[k] = b[i + k - 1]
  <1>1. s \in Seq(Char)
    BY CharsAre
  <1>2. Len(s) = j - i
    BY CharsAre
  <1>3. \A k \in 1 .. j - i : s[k] = b[i + k - 1]
    BY CharsAre
  <1>. QED BY <1>1, <1>2, <1>3

\* Two parts with the same characters
LEMMA PartsEqual ==
    ASSUME NEW b, NEW i \in Int, NEW j \in Int, i <= j,
           \A k \in i .. j - 1 : b[k] \in Char,
           NEW c, NEW m \in Int, NEW n \in Int, n - m = j - i,
           \A k \in 0 .. j - i - 1 : c[m + k] = b[i + k]
    PROVE  Chars(c, m, n) = Chars(b, i, j)
  <1>1. n - m = j - i
    OBVIOUS
  <1>2. ASSUME NEW k \in 1 .. j - i PROVE c[m + k - 1] = b[i + k - 1]
    <2>1. k - 1 \in 0 .. j - i - 1 /\ m + (k - 1) = m + k - 1 /\ i + (k - 1) = i + k - 1
      OBVIOUS
    <2>2. c[m + (k - 1)] = b[i + (k - 1)]
      BY <2>1
    <2>. QED BY <2>1, <2>2
  <1>. QED BY <1>1, <1>2 DEF Chars

LEMMA PartOfLine ==
    ASSUME NEW b, NEW j, j \in Nat, \A k \in 0 .. j - 1 : b[k] \in Char,
           NEW p, NEW q, p \in Nat, q \in Nat, p <= q, q <= j,
           NEW m \in Int, p < m, m <= p + 1
    PROVE  SubSeq(Chars(b, 0, j), m, q) = Chars(b, p, q)
  <1> DEFINE s == Chars(b, 0, j)
             t == Chars(b, p, q)
             u == SubSeq(s, m, q)
  <1>1. s \in Seq(Char) /\ Len(s) = j /\ \A k \in 1 .. j : s[k] = b[k - 1]
    <2>1. 0 \in Int /\ j \in Int /\ 0 <= j /\ j - 0 = j
      OBVIOUS
    <2>2. /\ s \in Seq(Char) /\ Len(s) = j - 0
          /\ \A k \in 1 .. j - 0 : s[k] = b[0 + k - 1]
      BY <2>1, PartIs
    <2> HIDE DEF s
    <2>3. \A k \in 1 .. j : 0 + k - 1 = k - 1
      OBVIOUS
    <2>. QED BY <2>1, <2>2, <2>3
  <1>2. t \in Seq(Char) /\ Len(t) = q - p
        /\ \A k \in 1 .. q - p : t[k] = b[p + k - 1]
    <2>1. \A k \in p .. q - 1 : b[k] \in Char
      OBVIOUS
    <2>. QED BY <2>1, PartIs
  <1> HIDE DEF s, t
  <1>3. u \in Seq(Char) /\ Len(u) = q - m + 1
        /\ \A k \in 1 .. q - m + 1 : u[k] = s[m + k - 1]
    <2>1. \A k \in m .. q : s[k] \in Char
      BY <1>1
    <2>2. m \in Int /\ q \in Int /\ (m <= q \/ q - m + 1 = 0)
      OBVIOUS
    <2>. QED BY <2>1, <2>2, SubSeqProperties
  <1> HIDE DEF u
  <1>4. q - m + 1 = q - p
    OBVIOUS
  <1>5. ASSUME NEW k \in 1 .. q - p PROVE u[k] = t[k]
    <2>1. m + k - 1 \in 1 .. j /\ m + k - 1 - 1 = p + k - 1
      OBVIOUS
    <2>2. u[k] = s[m + k - 1]
      BY <1>3, <1>4
    <2>3. s[m + k - 1] = b[p + k - 1]
      BY <2>1, <1>1
    <2>. QED BY <2>2, <2>3, <1>2
  <1>6. u = t
    BY <1>2, <1>3, <1>4, <1>5, SameChars
  <1>. QED BY <1>6 DEF s, t, u

LEMMA PartsJoin ==
    ASSUME NEW b, NEW i \in Int, NEW j \in Int, NEW n \in Int, i <= j, j <= n,
           \A k \in i .. n - 1 : b[k] \in Char
    PROVE  Chars(b, i, j) \o Chars(b, j, n) = Chars(b, i, n)
  <1> DEFINE s == Chars(b, i, j)
             t == Chars(b, j, n)
             u == Chars(b, i, n)
             v == s \o t
  <1>1. s \in Seq(Char) /\ Len(s) = j - i
        /\ \A k \in 1 .. j - i : s[k] = b[i + k - 1]
    <2>1. \A k \in i .. j - 1 : b[k] \in Char
      OBVIOUS
    <2>. QED BY <2>1, PartIs
  <1>2. t \in Seq(Char) /\ Len(t) = n - j
        /\ \A k \in 1 .. n - j : t[k] = b[j + k - 1]
    <2>1. \A k \in j .. n - 1 : b[k] \in Char
      OBVIOUS
    <2>. QED BY <2>1, PartIs
  <1>3. u \in Seq(Char) /\ Len(u) = n - i
        /\ \A k \in 1 .. n - i : u[k] = b[i + k - 1]
    <2>1. i <= n
      OBVIOUS
    <2>. QED BY <2>1, PartIs
  <1> HIDE DEF s, t, u
  <1>4. v \in Seq(Char) /\ Len(v) = n - i
        /\ \A k \in 1 .. n - i : v[k] = IF k <= j - i THEN s[k] ELSE t[k - (j - i)]
    BY <1>1, <1>2, ConcatProperties
  <1> HIDE DEF v
  <1>5. ASSUME NEW k \in 1 .. n - i PROVE v[k] = u[k]
    <2>1. CASE k <= j - i
      BY <2>1, <1>1, <1>3, <1>4
    <2>2. CASE ~(k <= j - i)
      <3>1. k - (j - i) \in 1 .. n - j /\ j + (k - (j - i)) - 1 = i + k - 1
        BY <2>2
      <3>2. v[k] = t[k - (j - i)] /\ t[k - (j - i)] = b[j + (k - (j - i)) - 1]
        BY <3>1, <2>2, <1>2, <1>4
      <3>. QED BY <3>1, <3>2, <1>3
    <2>. QED BY <2>1, <2>2
  <1>6. v = u
    BY <1>3, <1>4, <1>5, SameChars
  <1>. QED BY <1>6 DEF s, t, u, v

-----------------------------------------------------------------------------
(* The editor as a line with a cursor in it                                *)

Before(e) == Chars(e.buf, 0, e.pos)
After(e) == Chars(e.buf, e.pos, e.linelen)
Whole(e) == Chars(e.buf, 0, e.linelen)

LEMMA BeforeAfter ==
    ASSUME NEW e \in Good
    PROVE  /\ Before(e) \in Seq(Char) /\ Len(Before(e)) = e.pos
           /\ \A k \in 1 .. e.pos : Before(e)[k] = e.buf[k - 1]
           /\ After(e) \in Seq(Char) /\ Len(After(e)) = e.linelen - e.pos
           /\ \A k \in 1 .. e.linelen - e.pos : After(e)[k] = e.buf[e.pos + k - 1]
           /\ Before(e) \o After(e) = Whole(e)
           /\ Whole(e) \in Seq(Char) /\ Len(Whole(e)) = e.linelen
           /\ Whole(e) = Str(e.buf, 0)
  <1>0. Facts(e)
    BY GoodIs
  <1>1. /\ e.pos \in Int /\ e.linelen \in Int /\ 0 \in Int /\ 0 <= e.pos /\ 0 <= e.linelen
        /\ e.pos <= e.linelen /\ e.pos - 0 = e.pos /\ e.linelen - 0 = e.linelen
        /\ \A k \in 0 .. e.linelen - 1 : e.buf[k] \in Char
        /\ \A k \in 0 .. e.pos - 1 : e.buf[k] \in Char
        /\ \A k \in e.pos .. e.linelen - 1 : e.buf[k] \in Char
    BY <1>0 DEF Facts
  <1>2. /\ Before(e) \in Seq(Char) /\ Len(Before(e)) = e.pos
        /\ \A k \in 1 .. e.pos : Before(e)[k] = e.buf[0 + k - 1]
    BY <1>1, PartIs DEF Before
  <1>3. /\ After(e) \in Seq(Char) /\ Len(After(e)) = e.linelen - e.pos
        /\ \A k \in 1 .. e.linelen - e.pos : After(e)[k] = e.buf[e.pos + k - 1]
    BY <1>1, PartIs DEF After
  <1>4. Whole(e) \in Seq(Char) /\ Len(Whole(e)) = e.linelen
    BY <1>1, PartIs DEF Whole
  <1>5. Before(e) \o After(e) = Whole(e)
    BY <1>1, PartsJoin DEF Before, After, Whole
  <1>6. \A k \in 1 .. e.pos : Before(e)[k] = e.buf[k - 1]
    BY <1>1, <1>2
  <1>. QED BY <1>2, <1>3, <1>4, <1>5, <1>6, LineIs DEF Whole

\* The line before the cursor, or behind it, is the same.
LEMMA SameBefore ==
    ASSUME NEW e \in Good, NEW r \in Good, r.pos = e.pos,
           \A k \in 0 .. e.pos - 1 : r.buf[k] = e.buf[k]
    PROVE  Before(r) = Before(e)
  <1>1. /\ Before(e) \in Seq(Char) /\ Len(Before(e)) = e.pos
        /\ \A k \in 1 .. e.pos : Before(e)[k] = e.buf[k - 1]
    BY BeforeAfter
  <1>2. /\ Before(r) \in Seq(Char) /\ Len(Before(r)) = e.pos
        /\ \A k \in 1 .. e.pos : Before(r)[k] = r.buf[k - 1]
    BY BeforeAfter
  <1>3. ASSUME NEW k \in 1 .. e.pos PROVE Before(r)[k] = Before(e)[k]
    <2>1. k - 1 \in 0 .. e.pos - 1
      BY GoodIs DEF Facts
    <2>. QED BY <2>1, <1>1, <1>2
  <1>. QED BY <1>1, <1>2, <1>3, SameChars

LEMMA SameAfter ==
    ASSUME NEW e \in Good, NEW r \in Good, NEW d \in Int,
           r.pos = e.pos + d, r.linelen = e.linelen + d,
           \A j \in e.pos .. e.linelen - 1 : r.buf[j + d] = e.buf[j]
    PROVE  After(r) = After(e)
  <1>0. Facts(e) /\ Facts(r)
    BY GoodIs
  <1>1. /\ e.pos \in Int /\ e.linelen \in Int
        /\ r.linelen - r.pos = e.linelen - e.pos
    BY <1>0 DEF Facts
  <1>2. Len(After(r)) = Len(After(e)) /\ Len(After(e)) = e.linelen - e.pos
        /\ After(r) \in Seq(Char) /\ After(e) \in Seq(Char)
    BY <1>1, BeforeAfter
  <1>3. ASSUME NEW k \in 1 .. e.linelen - e.pos PROVE After(r)[k] = After(e)[k]
    <2>1. /\ e.pos + k - 1 \in e.pos .. e.linelen - 1
          /\ e.pos + k - 1 + d = r.pos + k - 1
      BY <1>1
    <2>2. After(r)[k] = r.buf[r.pos + k - 1] /\ After(e)[k] = e.buf[e.pos + k - 1]
      BY <1>1, BeforeAfter
    <2>. QED BY <2>1, <2>2
  <1>. QED BY <1>2, <1>3, SameChars

\* Nothing is behind the cursor.
LEMMA NothingAfter ==
    ASSUME NEW e \in Good, e.pos = e.linelen
    PROVE  After(e) = <<>> /\ Before(e) = Whole(e)
  <1>0. Facts(e)
    BY GoodIs
  <1>1. After(e) \in Seq(Char) /\ Len(After(e)) = 0
    BY <1>0, BeforeAfter DEF Facts
  <1>. QED BY <1>1, EmptySeq DEF Before, Whole

LEMMA InsertSplit ==
    ASSUME NEW e \in Good, NEW c \in Char, ~Full(e), NEW r, r = InsertChar(e, c)
    PROVE  Before(r) = Before(e) \o <<c>> /\ After(r) = After(e)
  <1>0. Facts(e)
    BY GoodIs
  <1>1. /\ r \in Good
        /\ r.pos = e.pos + 1 /\ r.linelen = e.linelen + 1
        /\ \A k \in 0 .. e.linelen :
             r.buf[k] = IF k < e.pos THEN e.buf[k]
                        ELSE IF k = e.pos THEN c ELSE e.buf[k - 1]
    BY InsertGood
  <1>2. After(r) = After(e)
    <2>1. \A j \in e.pos .. e.linelen - 1 : r.buf[j + 1] = e.buf[j]
      <3> TAKE j \in e.pos .. e.linelen - 1
      <3>1. j + 1 \in 0 .. e.linelen /\ ~(j + 1 < e.pos) /\ j + 1 # e.pos /\ j + 1 - 1 = j
        BY <1>0 DEF Facts
      <3>. QED BY <3>1, <1>1
    <2>. QED BY <2>1, <1>1, SameAfter
  <1>3. Before(r) = Before(e) \o <<c>>
    <2> DEFINE v == Before(e) \o <<c>>
    <2>1. Before(e) \in Seq(Char) /\ Len(Before(e)) = e.pos
          /\ \A k \in 1 .. e.pos : Before(e)[k] = e.buf[k - 1]
      BY BeforeAfter
    <2>2. Before(r) \in Seq(Char) /\ Len(Before(r)) = e.pos + 1
          /\ \A k \in 1 .. e.pos + 1 : Before(r)[k] = r.buf[k - 1]
      BY <1>1, BeforeAfter
    <2>3. v \in Seq(Char) /\ Len(v) = e.pos + 1
          /\ \A k \in 1 .. e.pos + 1 : v[k] = IF k <= e.pos THEN Before(e)[k] ELSE c
      BY <2>1, <1>0 DEF Facts
    <2> HIDE DEF v
    <2>4. ASSUME NEW k \in 1 .. e.pos + 1 PROVE Before(r)[k] = v[k]
      <3>1. k - 1 \in 0 .. e.linelen /\ (k <= e.pos <=> k - 1 < e.pos)
            /\ (k <= e.pos => k \in 1 .. e.pos)
        BY <1>0 DEF Facts
      <3>2. Before(r)[k] = r.buf[k - 1] /\ v[k] = IF k <= e.pos THEN Before(e)[k] ELSE c
        BY <2>2, <2>3
      <3>3. k <= e.pos => Before(e)[k] = e.buf[k - 1]
        BY <3>1, <2>1
      <3>4. r.buf[k - 1] = IF k - 1 < e.pos THEN e.buf[k - 1]
                           ELSE IF k - 1 = e.pos THEN c ELSE e.buf[k - 1 - 1]
        BY <3>1, <1>1
      <3>5. ~(k <= e.pos) => k - 1 = e.pos
        BY <1>0 DEF Facts
      <3>. QED BY <3>1, <3>2, <3>3, <3>4, <3>5
    <2>5. Before(r) = v
      BY <2>2, <2>3, <2>4, SameChars
    <2>. QED BY <2>5 DEF v
  <1>. QED BY <1>2, <1>3

LEMMA BackspaceSplit ==
    ASSUME NEW e \in Good, e.pos > 0, NEW r, r = BackspaceKey(e)
    PROVE  Before(r) = SubSeq(Before(e), 1, e.pos - 1) /\ After(r) = After(e)
  <1>0. Facts(e)
    BY GoodIs
  <1>1. /\ r \in Good
        /\ r.pos = e.pos - 1 /\ r.linelen = e.linelen - 1
        /\ \A k \in 0 .. e.linelen - 2 :
             r.buf[k] = IF k < e.pos - 1 THEN e.buf[k] ELSE e.buf[k + 1]
    BY BackspaceGood
  <1>2. After(r) = After(e)
    <2>1. \A j \in e.pos .. e.linelen - 1 : r.buf[j + (-1)] = e.buf[j]
      <3> TAKE j \in e.pos .. e.linelen - 1
      <3>1. j + (-1) \in 0 .. e.linelen - 2 /\ ~(j + (-1) < e.pos - 1) /\ j + (-1) + 1 = j
        BY <1>0 DEF Facts
      <3>. QED BY <3>1, <1>1
    <2>2. r.pos = e.pos + (-1) /\ r.linelen = e.linelen + (-1)
      BY <1>1, <1>0 DEF Facts
    <2>3. -1 \in Int
      OBVIOUS
    <2>. QED BY <2>1, <2>2, <2>3, <1>1, SameAfter
  <1>3. Before(r) = Chars(e.buf, 0, e.pos - 1)
    <2>1. \A k \in 0 .. e.pos - 2 : r.buf[k] = e.buf[k]
      BY <1>0, <1>1 DEF Facts
    <2>2. /\ 0 \in Int /\ e.pos - 1 \in Int /\ 0 <= e.pos - 1
          /\ \A k \in 0 .. e.pos - 1 - 1 : e.buf[k] \in Char
          /\ e.pos - 1 - 0 = e.pos - 1
      BY <1>0 DEF Facts
    <2>3. \A k \in 0 .. e.pos - 1 - 0 - 1 : r.buf[0 + k] = e.buf[0 + k]
      BY <2>1, <1>0 DEF Facts
    <2>. QED BY <2>2, <2>3, <1>1, PartsEqual DEF Before
  <1>4. SubSeq(Before(e), 1, e.pos - 1) = Chars(e.buf, 0, e.pos - 1)
    <2> DEFINE j == e.pos
               q == e.pos - 1
               p == 0
               m == 1
    <2>1. /\ j \in Nat /\ q \in Nat /\ p \in Nat /\ p <= q /\ q <= j /\ m \in Int /\ p < m /\ m <= p + 1
      BY <1>0 DEF Facts
    <2>2. \A k \in 0 .. j - 1 : e.buf[k] \in Char
      BY <1>0 DEF Facts
    <2> HIDE DEF j, q, p, m
    <2>3. SubSeq(Chars(e.buf, 0, j), m, q) = Chars(e.buf, p, q)
      BY <2>1, <2>2, PartOfLine
    <2>. QED BY <2>3 DEF Before, j, q, p, m
  <1>. QED BY <1>2, <1>3, <1>4

LEMMA DeleteSplit ==
    ASSUME NEW e \in Good, e.pos < e.linelen, NEW r, r = DeleteKey(e)
    PROVE  Before(r) = Before(e) /\ After(e) # <<>> /\ After(r) = Tail(After(e))
  <1>0. Facts(e)
    BY GoodIs
  <1>1. /\ r \in Good
        /\ r.pos = e.pos /\ r.linelen = e.linelen - 1
        /\ \A k \in 0 .. e.linelen - 2 :
             r.buf[k] = IF k < e.pos THEN e.buf[k] ELSE e.buf[k + 1]
    BY DeleteGood
  <1>2. Before(r) = Before(e)
    <2>1. \A k \in 0 .. e.pos - 1 : r.buf[k] = e.buf[k]
      BY <1>0, <1>1 DEF Facts
    <2>. QED BY <2>1, <1>1, SameBefore
  <1>3. /\ After(e) \in Seq(Char) /\ Len(After(e)) = e.linelen - e.pos
        /\ \A k \in 1 .. e.linelen - e.pos : After(e)[k] = e.buf[e.pos + k - 1]
    BY BeforeAfter
  <1>4. /\ After(r) \in Seq(Char) /\ Len(After(r)) = e.linelen - e.pos - 1
        /\ \A k \in 1 .. e.linelen - e.pos - 1 : After(r)[k] = r.buf[e.pos + k - 1]
    <2>1. /\ After(r) \in Seq(Char) /\ Len(After(r)) = r.linelen - r.pos
          /\ \A k \in 1 .. r.linelen - r.pos : After(r)[k] = r.buf[r.pos + k - 1]
      BY <1>1, BeforeAfter
    <2>2. r.linelen - r.pos = e.linelen - e.pos - 1
      BY <1>0, <1>1 DEF Facts
    <2>. QED BY <2>1, <2>2, <1>1
  <1>5. After(e) # <<>>
    <2>1. Len(After(e)) # 0
      BY <1>3, <1>0 DEF Facts
    <2>. QED BY <2>1
  <1>6. /\ Tail(After(e)) \in Seq(Char) /\ Len(Tail(After(e))) = e.linelen - e.pos - 1
        /\ \A k \in 1 .. e.linelen - e.pos - 1 : Tail(After(e))[k] = After(e)[k + 1]
    BY <1>3, <1>5, HeadTailProperties
  <1>7. ASSUME NEW k \in 1 .. e.linelen - e.pos - 1 PROVE After(r)[k] = Tail(After(e))[k]
    <2>1. /\ k + 1 \in 1 .. e.linelen - e.pos /\ e.pos + k - 1 \in 0 .. e.linelen - 2
          /\ ~(e.pos + k - 1 < e.pos)
          /\ e.pos + k - 1 + 1 = e.pos + k /\ e.pos + (k + 1) - 1 = e.pos + k
      BY <1>0 DEF Facts
    <2>2. After(r)[k] = r.buf[e.pos + k - 1] /\ Tail(After(e))[k] = After(e)[k + 1]
      BY <1>4, <1>6
    <2>3. After(e)[k + 1] = e.buf[e.pos + k]
      BY <2>1, <1>3
    <2>4. r.buf[e.pos + k - 1] = e.buf[e.pos + k]
      BY <2>1, <1>1
    <2>. QED BY <2>2, <2>3, <2>4
  <1>8. After(r) = Tail(After(e))
    BY <1>4, <1>6, <1>7, SameChars
  <1>. QED BY <1>2, <1>5, <1>8

\* A part of the line, by its places and by its subscripts
LEMMA WholePart ==
    ASSUME NEW e \in Good, NEW p, NEW q, p \in Nat, q \in Nat, p <= q, q <= e.linelen,
           NEW m \in Int, p < m, m <= p + 1
    PROVE  SubSeq(Whole(e), m, q) = Chars(e.buf, p, q)
  <1> DEFINE j == e.linelen
  <1>1. j \in Nat /\ q <= j /\ \A k \in 0 .. j - 1 : e.buf[k] \in Char
    BY GoodIs DEF Facts
  <1> HIDE DEF j
  <1>2. SubSeq(Chars(e.buf, 0, j), m, q) = Chars(e.buf, p, q)
    BY <1>1, PartOfLine
  <1>. QED BY <1>2 DEF Whole, j

\* The same line with the cursor at p
LEMMA CursorSplit ==
    ASSUME NEW e \in Good, NEW p, p \in 0 .. e.linelen, NEW r,
           r.buf = e.buf, r.pos = p, r.linelen = e.linelen
    PROVE  /\ Before(r) = SubSeq(Whole(e), 1, p)
           /\ After(r) = SubSeq(Whole(e), p + 1, e.linelen)
  <1>0. Facts(e)
    BY GoodIs
  <1> DEFINE z == 0
             m == 1
             n == p + 1
             l == e.linelen
  <1>1. z \in Nat /\ p \in Nat /\ z <= p /\ p <= l /\ m \in Int /\ z < m /\ m <= z + 1
    BY <1>0 DEF Facts
  <1>2. l \in Nat /\ l <= l /\ n \in Int /\ p < n /\ n <= p + 1
    BY <1>0 DEF Facts
  <1> HIDE DEF z, m, n
  <1>3. SubSeq(Whole(e), m, p) = Chars(e.buf, z, p)
    BY <1>1, WholePart
  <1>4. SubSeq(Whole(e), n, l) = Chars(e.buf, p, l)
    BY <1>1, <1>2, WholePart
  <1>. QED BY <1>3, <1>4 DEF Before, After, z, m, n

LEMMA YankSplit ==
    ASSUME NEW e \in Good, NEW m, m \in 0 .. Len(e.clipboard), NEW r, Inserted(e, r, m)
    PROVE  /\ Before(r) = Before(e) \o SubSeq(e.clipboard, 1, m)
           /\ After(r) = After(e)
  <1>0. Facts(e) /\ e.clipboard \in Seq(Char) /\ Len(e.clipboard) \in Nat
        /\ e.clipboard \in [1 .. Len(e.clipboard) -> Char]
    BY GoodIs, StringIs
  <1>1. /\ r \in Good /\ m \in Int
        /\ r.pos = e.pos + m /\ r.linelen = e.linelen + m
        /\ \A j \in 0 .. e.linelen + m - 1 :
             r.buf[j] = IF j < e.pos THEN e.buf[j]
                        ELSE IF j < e.pos + m THEN e.clipboard[j - e.pos + 1]
                        ELSE e.buf[j - m]
    BY DEF Inserted
  <1>2. After(r) = After(e)
    <2>1. \A j \in e.pos .. e.linelen - 1 : r.buf[j + m] = e.buf[j]
      <3> TAKE j \in e.pos .. e.linelen - 1
      <3>1. j + m \in 0 .. e.linelen + m - 1 /\ ~(j + m < e.pos) /\ ~(j + m < e.pos + m)
            /\ j + m - m = j
        BY <1>0 DEF Facts
      <3>2. r.buf[j + m] = e.buf[j + m - m]
        BY <3>1, <1>1
      <3>. QED BY <3>1, <3>2
    <2>. QED BY <2>1, <1>1, SameAfter
  <1>3. Before(r) = Before(e) \o SubSeq(e.clipboard, 1, m)
    <2> DEFINE c == SubSeq(e.clipboard, 1, m)
               v == Before(e) \o c
    <2>1. Before(e) \in Seq(Char) /\ Len(Before(e)) = e.pos
          /\ \A k \in 1 .. e.pos : Before(e)[k] = e.buf[k - 1]
      BY BeforeAfter
    <2>2. Before(r) \in Seq(Char) /\ Len(Before(r)) = e.pos + m
          /\ \A k \in 1 .. e.pos + m : Before(r)[k] = r.buf[k - 1]
      BY <1>1, BeforeAfter
    <2>3. c \in Seq(Char) /\ Len(c) = m /\ \A k \in 1 .. m : c[k] = e.clipboard[k]
      <3>1. \A k \in 1 .. m : e.clipboard[k] \in Char
        BY <1>0, <1>1
      <3>2. 1 \in Int /\ m \in Int /\ m - 1 + 1 = m /\ (1 <= m \/ m = 0)
        BY <1>1
      <3>3. c \in Seq(Char) /\ Len(c) = m
        BY <3>1, <3>2, SubSeqProperties
      <3>4. \A k \in 1 .. m - 1 + 1 : c[k] = e.clipboard[1 + k - 1]
        BY <3>1, <3>2, SubSeqProperties
      <3>. QED BY <3>2, <3>3, <3>4
    <2> HIDE DEF c
    <2>4. v \in Seq(Char) /\ Len(v) = e.pos + m
          /\ \A k \in 1 .. e.pos + m : v[k] = IF k <= e.pos THEN Before(e)[k] ELSE c[k - e.pos]
      <3> DEFINE s == Before(e)
      <3>1. s \in Seq(Char) /\ Len(s) = e.pos /\ c \in Seq(Char) /\ Len(c) = m
        BY <2>1, <2>3
      <3> HIDE DEF s
      <3>2. /\ s \o c \in Seq(Char) /\ Len(s \o c) = Len(s) + Len(c)
            /\ \A k \in 1 .. Len(s) + Len(c) :
                 (s \o c)[k] = IF k <= Len(s) THEN s[k] ELSE c[k - Len(s)]
        BY <3>1, ConcatProperties
      <3>. QED BY <3>1, <3>2 DEF s
    <2> HIDE DEF v
    <2>5. ASSUME NEW k \in 1 .. e.pos + m PROVE Before(r)[k] = v[k]
      <3>1. /\ k - 1 \in 0 .. e.linelen + m - 1 /\ (k <= e.pos <=> k - 1 < e.pos)
            /\ (k <= e.pos => k \in 1 .. e.pos) /\ k - 1 < e.pos + m
            /\ (~(k <= e.pos) => k - e.pos \in 1 .. m) /\ k - 1 - e.pos + 1 = k - e.pos
        <4>1. k \in Int /\ e.pos \in Nat /\ e.linelen \in Nat /\ m \in Nat /\ e.pos <= e.linelen
              /\ 1 <= k /\ k <= e.pos + m
          BY <1>0, <1>1 DEF Facts
        <4>2. k - 1 \in 0 .. e.linelen + m - 1 /\ (k <= e.pos <=> k - 1 < e.pos)
          BY <4>1
        <4>3. (k <= e.pos => k \in 1 .. e.pos) /\ k - 1 < e.pos + m
          BY <4>1
        <4>4. (~(k <= e.pos) => k - e.pos \in 1 .. m) /\ k - 1 - e.pos + 1 = k - e.pos
          BY <4>1
        <4>. QED BY <4>2, <4>3, <4>4
      <3>2. Before(r)[k] = r.buf[k - 1]
            /\ v[k] = IF k <= e.pos THEN Before(e)[k] ELSE c[k - e.pos]
        BY <2>2, <2>4
      <3>3. r.buf[k - 1] = IF k - 1 < e.pos THEN e.buf[k - 1]
                           ELSE IF k - 1 < e.pos + m THEN e.clipboard[k - 1 - e.pos + 1]
                           ELSE e.buf[k - 1 - m]
        BY <3>1, <1>1
      <3>4. CASE k <= e.pos
        BY <3>1, <3>2, <3>3, <3>4, <2>1
      <3>5. CASE ~(k <= e.pos)
        <4>1. c[k - e.pos] = e.clipboard[k - e.pos]
          BY <3>1, <3>5, <2>3
        <4>. QED BY <4>1, <3>1, <3>2, <3>3, <3>5
      <3>. QED BY <3>4, <3>5
    <2>6. Before(r) = v
      BY <2>2, <2>4, <2>5, SameChars
    <2>. QED BY <2>6 DEF v, c
  <1>. QED BY <1>2, <1>3

LEMMA KillTailSplit ==
    ASSUME NEW e \in Good, NEW r, r = KillTail(e)
    PROVE  Before(r) = Before(e) /\ After(r) = <<>> /\ r.clipboard = After(e)
  <1>1. /\ r \in Good
        /\ r.pos = e.pos /\ r.linelen = e.pos
        /\ r.clipboard = Chars(e.buf, e.pos, e.linelen)
        /\ \A k \in 0 .. e.pos - 1 : r.buf[k] = e.buf[k]
    BY KillTailGood
  <1>. QED BY <1>1, SameBefore, NothingAfter DEF After

\* The line s with the cursor behind it
LEMMA ShowSplit ==
    ASSUME NEW e \in Good, NEW s \in Seq(Char), e.pos = Len(s), e.linelen = Len(s),
           \A k \in 0 .. Len(s) - 1 : e.buf[k] = s[k + 1]
    PROVE  Before(e) = s /\ After(e) = <<>>
  <1>0. Len(s) \in Nat
    OBVIOUS
  <1>1. /\ Before(e) \in Seq(Char) /\ Len(Before(e)) = Len(s)
        /\ \A k \in 1 .. Len(s) : Before(e)[k] = e.buf[k - 1]
    BY BeforeAfter
  <1>2. ASSUME NEW k \in 1 .. Len(s) PROVE Before(e)[k] = s[k]
    <2>1. k - 1 \in 0 .. Len(s) - 1 /\ k - 1 + 1 = k
      BY <1>0
    <2>2. e.buf[k - 1] = s[k - 1 + 1]
      BY <2>1
    <2>. QED BY <2>1, <2>2, <1>1
  <1>. QED BY <1>1, <1>2, SameChars, NothingAfter

LEMMA EmptySplit ==
    ASSUME NEW e \in Good, e.pos = 0, e.linelen = 0
    PROVE  Before(e) = <<>> /\ After(e) = <<>>
  <1>1. <<>> \in Seq(Char) /\ Len(<<>>) = 0 /\ \A k \in 0 .. 0 - 1 : FALSE
    OBVIOUS
  <1>. QED BY <1>1, ShowSplit

\* The same of the line before the cursor
LEMMA BeforePart ==
    ASSUME NEW e \in Good, NEW p, NEW q, p \in Nat, q \in Nat, p <= q, q <= e.pos,
           NEW m \in Int, p < m, m <= p + 1
    PROVE  SubSeq(Before(e), m, q) = Chars(e.buf, p, q)
  <1> DEFINE j == e.pos
  <1>1. j \in Nat /\ q <= j /\ \A k \in 0 .. j - 1 : e.buf[k] \in Char
    BY GoodIs DEF Facts
  <1> HIDE DEF j
  <1>2. SubSeq(Chars(e.buf, 0, j), m, q) = Chars(e.buf, p, q)
    BY <1>1, PartOfLine
  <1>. QED BY <1>2 DEF Before, j

\* The last n characters before the cursor, and those before them
LEMMA LastIs ==
    ASSUME NEW e \in Good, NEW n, n \in 0 .. e.pos
    PROVE  /\ Abstract!Last(Before(e), n) = Chars(e.buf, e.pos - n, e.pos)
           /\ Abstract!But(Before(e), n) = Chars(e.buf, 0, e.pos - n)
           /\ DOMAIN Abstract!Last(Before(e), n) = 1 .. n
           /\ \A i \in 1 .. n : Abstract!Last(Before(e), n)[i] = e.buf[e.pos - (n - i) - 1]
  <1> DEFINE p == e.pos - n
             q == e.pos
             m == e.pos - n + 1
             z == 0
             o == 1
             t == Chars(e.buf, p, q)
  <1>0. Facts(e) /\ Len(Before(e)) = e.pos
    BY GoodIs, BeforeAfter
  <1>1. p \in Nat /\ q \in Nat /\ p <= q /\ q <= e.pos /\ m \in Int /\ p < m /\ m <= p + 1
    BY <1>0 DEF Facts
  <1>2. z \in Nat /\ z <= p /\ p <= e.pos /\ o \in Int /\ z < o /\ o <= z + 1
    BY <1>0 DEF Facts
  <1>3. \A k \in p .. q - 1 : e.buf[k] \in Char
    BY <1>0 DEF Facts
  <1>4. q - p = n /\ p \in Int /\ q \in Int
    BY <1>0 DEF Facts
  <1>5. \A i \in 1 .. n : p + i - 1 = e.pos - (n - i) - 1
    BY <1>0 DEF Facts
  <1>6. Abstract!Last(Before(e), n) = SubSeq(Before(e), m, q)
        /\ Abstract!But(Before(e), n) = SubSeq(Before(e), o, p)
    BY <1>0 DEF Abstract!Last, Abstract!But
  <1> HIDE DEF p, q, m, z, o
  <1>7. SubSeq(Before(e), m, q) = t
    BY <1>1, BeforePart
  <1>8. SubSeq(Before(e), o, p) = Chars(e.buf, z, p)
    BY <1>1, <1>2, BeforePart
  <1>9. t \in Seq(Char) /\ Len(t) = q - p /\ \A i \in 1 .. q - p : t[i] = e.buf[p + i - 1]
    BY <1>1, <1>3, <1>4, PartIs
  <1> HIDE DEF t
  <1>10. DOMAIN t = 1 .. n /\ \A i \in 1 .. n : t[i] = e.buf[e.pos - (n - i) - 1]
    BY <1>4, <1>5, <1>9
  <1>. QED BY <1>6, <1>7, <1>8, <1>10 DEF t, p, q, z

\* cmdline_killword takes the spaces before the cursor and the word before
\* them, no more and no less.
LEMMA WordIs ==
    ASSUME NEW e \in Good, e.pos > 0, NEW n, n = WordLength(e)
    PROVE  /\ n \in 1 .. e.pos
           /\ Abstract!IsWord(Abstract!Last(Before(e), n))
           /\ \A m \in n + 1 .. e.pos : ~Abstract!IsWord(Abstract!Last(Before(e), m))
  <1>0. Facts(e)
    BY GoodIs
  <1>1. n \in 0 .. e.pos
    BY WordLengthIs
  <1>2. PICK s \in 0 .. n :
                /\ \A k \in 0 .. s - 1 : e.buf[e.pos - k - 1] = Space
                /\ \A k \in s .. n - 1 : e.buf[e.pos - k - 1] # Space
                /\ s < e.pos => e.buf[e.pos - s - 1] # Space
                /\ n < e.pos => e.buf[e.pos - n - 1] = Space
    BY WordLengthIs
  <1>3. n \in 1 .. e.pos
    <2>1. n = 0 => s = n /\ n < e.pos
      BY <1>0, <1>1 DEF Facts
    <2>2. n # 0
      BY <1>2, <2>1
    <2>. QED BY <2>2, <1>0, <1>1 DEF Facts
  <1>4. Abstract!IsWord(Abstract!Last(Before(e), n))
    <2> DEFINE t == Abstract!Last(Before(e), n)
    <2>1. DOMAIN t = 1 .. n /\ \A i \in 1 .. n : t[i] = e.buf[e.pos - (n - i) - 1]
      BY <1>1, LastIs
    <2> HIDE DEF t
    <2>2. ASSUME NEW i \in 1 .. n, NEW j \in 1 .. n, i < j, t[i] = Space
          PROVE  t[j] = Space
      <3>1. n - i \in 0 .. n - 1 /\ n - j \in 0 .. n - 1 /\ n - j < n - i
        BY <1>3, <2>2
      <3>2. ~(n - i \in s .. n - 1)
        BY <2>1, <2>2, <1>2
      <3>3. n - j \in 0 .. s - 1
        BY <3>1, <3>2, <1>3
      <3>4. e.buf[e.pos - (n - j) - 1] = Space
        BY <3>3, <1>2
      <3>. QED BY <3>4, <2>1
    <2>3. Abstract!IsWord(t)
      BY <2>1, <2>2 DEF Abstract!IsWord
    <2>. QED BY <2>3 DEF t
  <1>5. ASSUME NEW m \in n + 1 .. e.pos
        PROVE  ~Abstract!IsWord(Abstract!Last(Before(e), m))
    <2> DEFINE t == Abstract!Last(Before(e), m)
    <2>0. m \in 0 .. e.pos /\ n < e.pos /\ m \in Int /\ n \in Int /\ n < m
      BY <1>0, <1>3 DEF Facts
    <2>1. DOMAIN t = 1 .. m /\ \A i \in 1 .. m : t[i] = e.buf[e.pos - (m - i) - 1]
      BY <2>0, LastIs
    <2> HIDE DEF t
    <2>2. s # n
      BY <1>2, <2>0
    <2>3. n - 1 \in s .. n - 1
      BY <2>2, <1>3
    <2>4. e.buf[e.pos - (n - 1) - 1] # Space /\ e.buf[e.pos - n - 1] = Space
      BY <2>3, <2>0, <1>2
    <2>5. /\ m - n \in 1 .. m /\ m - n + 1 \in 1 .. m /\ m - n < m - n + 1
          /\ m - (m - n) = n /\ m - (m - n + 1) = n - 1
      BY <2>0, <1>3
    <2>6. t[m - n] = Space /\ t[m - n + 1] # Space
      BY <2>1, <2>4, <2>5
    <2>7. ~Abstract!IsWord(t)
      BY <2>1, <2>5, <2>6 DEF Abstract!IsWord
    <2>. QED BY <2>7 DEF t
  <1>. QED BY <1>3, <1>4, <1>5

LEMMA KillWordSplit ==
    ASSUME NEW e \in Good, e.pos > 0, NEW r, r = KillWord(e), NEW n, n = WordLength(e)
    PROVE  /\ Before(r) = Abstract!But(Before(e), n)
           /\ After(r) = After(e)
           /\ r.clipboard = Abstract!Last(Before(e), n)
  <1>0. Facts(e) /\ e.pos # 0
    BY GoodIs DEF Facts
  <1>1. /\ n \in 0 .. e.pos /\ r \in Good
        /\ r.pos = e.pos - n /\ r.linelen = e.linelen - n
        /\ r.clipboard = Chars(e.buf, e.pos - n, e.pos)
        /\ \A j \in 0 .. e.linelen - n - 1 :
             r.buf[j] = IF j < e.pos - n THEN e.buf[j] ELSE e.buf[j + n]
    BY <1>0, KillWordGood
  <1>2. After(r) = After(e)
    <2> DEFINE d == 0 - n
    <2>1. /\ d \in Int /\ r.pos = e.pos + d /\ r.linelen = e.linelen + d
          /\ \A j \in e.pos .. e.linelen - 1 :
               /\ j + d \in 0 .. e.linelen - n - 1 /\ ~(j + d < e.pos - n)
               /\ j + d + n = j
      BY <1>0, <1>1 DEF Facts
    <2> HIDE DEF d
    <2>2. ASSUME NEW j \in e.pos .. e.linelen - 1 PROVE r.buf[j + d] = e.buf[j]
      BY <2>1, <1>1
    <2>. QED BY <2>1, <2>2, <1>1, SameAfter
  <1>3. Before(r) = Chars(e.buf, 0, e.pos - n)
    <2> DEFINE z == 0
               p == e.pos - n
    <2>1. /\ z \in Int /\ p \in Int /\ z <= p /\ p - z = p - z
          /\ \A k \in z .. p - 1 : e.buf[k] \in Char
          /\ \A k \in 0 .. p - z - 1 : r.buf[z + k] = e.buf[z + k]
      BY <1>0, <1>1 DEF Facts
    <2>2. r.pos = p
      BY <1>1
    <2> HIDE DEF z, p
    <2>3. ASSUME NEW k \in 1 .. p - z PROVE r.buf[z + k - 1] = e.buf[z + k - 1]
      <3>1. k - 1 \in 0 .. p - z - 1 /\ z + (k - 1) = z + k - 1
        BY <2>1
      <3>. QED BY <3>1, <2>1
    <2>4. Chars(r.buf, z, p) = Chars(e.buf, z, p)
      BY <2>3 DEF Chars
    <2>. QED BY <2>2, <2>4 DEF Before, z, p
  <1>. QED BY <1>1, <1>2, <1>3, LastIs

-----------------------------------------------------------------------------
(* The editor implements a line with a cursor in it.                       *)

Saved == IF histnum = 0 THEN <<>> ELSE curline

\* The line, its parts and the history in the names of the abstract editor
LEMMA Mapping ==
    ASSUME Inv
    PROVE  /\ Abstract!line = Whole(ed) /\ Len(Abstract!line) = ed.linelen
           /\ Len(Before(ed)) = ed.pos
           /\ Len(Mapped) = H!Count
           /\ Mapped \in Seq(Lines)
  <1>1. ed \in Good /\ H!TypeOK /\ H!Count \in Nat
    BY CountType, HistoryAssumed DEF Inv
  <1>2. Abstract!line = Whole(ed)
    BY <1>1, BeforeAfter DEF Abstract!line, Before, After
  <1>3. \A i \in 1 .. H!Count : H!HistoryGet(i - 1) \in Lines
    <2> TAKE i \in 1 .. H!Count
    <2>1. i - 1 \in Nat /\ i - 1 < H!Count
      BY <1>1
    <2>. QED BY <2>1, <1>1, GetType
  <1>4. Mapped \in Seq(Lines)
    BY <1>1, <1>3 DEF Mapped
  <1>. QED BY <1>1, <1>2, <1>4, BeforeAfter, MappedLen

LEMMA EditKeeps ==
    ASSUME NEW x, Edit(x)
    PROVE  ed' = x /\ UNCHANGED Abstract!walk
  <1>1. UNCHANGED <<histnum, curline, history, histfull, histlast>>
    BY DEF Edit, histVars
  <1>2. UNCHANGED H!Count /\ \A n : UNCHANGED H!HistoryGet(n)
    BY <1>1 DEF H!Count, H!HistoryGet
  <1>. QED BY <1>1, <1>2 DEF Edit, Abstract!walk

\* A key that leaves the editor as it is
LEMMA EditNothing ==
    ASSUME Edit(ed)
    PROVE  UNCHANGED Abstract!vars
  <1>1. ed' = ed /\ UNCHANGED Abstract!walk
    BY EditKeeps
  <1>. QED BY <1>1 DEF Abstract!vars, Abstract!view

LEMMA InsertMaps ==
    ASSUME Inv, NEW c \in Char, InsertKey(c)
    PROVE  Abstract!Next \/ UNCHANGED Abstract!vars
  <1>0. ed \in Good /\ Facts(ed)
    BY GoodIs DEF Inv
  <1>1. CASE Full(ed)
    BY <1>1, EditNothing DEF InsertKey, InsertChar
  <1>2. CASE ~Full(ed)
    <2> DEFINE r == InsertChar(ed, c)
               room == CharMax - 1 - ed.linelen
    <2>1. /\ Before(r) = Before(ed) \o <<c>> /\ After(r) = After(ed)
          /\ r.clipboard = ed.clipboard
      BY <1>0, <1>2, InsertSplit, InsertGood
    <2>2. ed' = r /\ UNCHANGED Abstract!walk
      BY EditKeeps DEF InsertKey
    <2> HIDE DEF r
    <2>3. Abstract!First(<<c>>, room) = <<c>>
      <3>1. <<c>> \in Seq(Char) /\ Len(<<c>>) = 1 /\ ~(room < 1)
        BY <1>0, <1>2 DEF Full, Facts
      <3> HIDE DEF room
      <3>2. Abstract!First(<<c>>, room) = SubSeq(<<c>>, 1, Len(<<c>>))
        BY <3>1 DEF Abstract!First
      <3>. QED BY <3>1, <3>2, SubSeqFull
    <2>4. Abstract!First(<<c>>, CharMax - 1 - Len(Abstract!line)) = <<c>>
      BY <2>3, Mapping
    <2>5. Abstract!Type(<<c>>)
      BY <2>1, <2>2, <2>4 DEF Abstract!Type, Before, After
    <2>. QED BY <2>5 DEF Abstract!Next
  <1>. QED BY <1>1, <1>2

LEMMA YankMaps ==
    ASSUME Inv, YankKey
    PROVE  Abstract!Next
  <1> DEFINE r == Yank(ed)
             room == CharMax - 1 - ed.linelen
             c == ed.clipboard
  <1>0. ed \in Good /\ Facts(ed) /\ c \in Seq(Char) /\ Len(c) \in Nat
    BY GoodIs, StringIs DEF Inv
  <1>1. PICK m \in 0 .. Len(c) : m <= room /\ (m = Len(c) \/ m = room) /\ Inserted(ed, r, m)
    BY <1>0, YankGood
  <1>2. ed' = r /\ UNCHANGED Abstract!walk
    BY EditKeeps DEF YankKey
  <1> HIDE DEF r
  <1>3. /\ Before(r) = Before(ed) \o SubSeq(c, 1, m) /\ After(r) = After(ed)
        /\ r.clipboard = c
    BY <1>0, <1>1, YankSplit DEF Inserted
  <1>4. Abstract!First(c, room) = SubSeq(c, 1, m)
    <2>1. (IF room < Len(c) THEN room ELSE Len(c)) = m
      BY <1>0, <1>1 DEF Facts
    <2>. QED BY <2>1 DEF Abstract!First
  <1>5. Abstract!First(c, CharMax - 1 - Len(Abstract!line)) = SubSeq(c, 1, m)
    BY <1>4, Mapping
  <1>6. Abstract!Type(c)
    BY <1>2, <1>3, <1>5 DEF Abstract!Type, Before, After
  <1>. QED BY <1>6 DEF Abstract!Next

LEMMA BackspaceMaps ==
    ASSUME Inv, Backspace
    PROVE  Abstract!Next \/ UNCHANGED Abstract!vars
  <1>0. ed \in Good /\ Facts(ed)
    BY GoodIs DEF Inv
  <1>1. CASE ed.pos <= 0
    BY <1>1, EditNothing DEF Backspace, BackspaceKey
  <1>2. CASE ed.pos > 0
    <2> DEFINE r == BackspaceKey(ed)
    <2>1. /\ Before(r) = SubSeq(Before(ed), 1, ed.pos - 1) /\ After(r) = After(ed)
          /\ r.clipboard = ed.clipboard
      BY <1>0, <1>2, BackspaceSplit, BackspaceGood
    <2>2. ed' = r /\ UNCHANGED Abstract!walk
      BY EditKeeps DEF Backspace
    <2> HIDE DEF r
    <2>3. Len(Before(ed)) = ed.pos /\ Before(ed) # <<>>
      <3>1. Len(Before(ed)) = ed.pos /\ ed.pos # 0
        BY <1>0, <1>2, Mapping DEF Facts
      <3>. QED BY <3>1
    <2>4. Before(r) = Abstract!But(Before(ed), 1)
      BY <2>1, <2>3 DEF Abstract!But
    <2>5. Abstract!Backspace
      BY <2>1, <2>2, <2>3, <2>4 DEF Abstract!Backspace, Before, After
    <2>. QED BY <2>5 DEF Abstract!Next
  <1>. QED BY <1>0, <1>1, <1>2 DEF Facts

LEMMA DeleteMaps ==
    ASSUME Inv, Delete
    PROVE  Abstract!Next \/ UNCHANGED Abstract!vars
  <1>0. ed \in Good /\ Facts(ed)
    BY GoodIs DEF Inv
  <1>1. CASE ed.linelen <= ed.pos
    BY <1>1, EditNothing DEF Delete, DeleteKey
  <1>2. CASE ed.pos < ed.linelen
    <2> DEFINE r == DeleteKey(ed)
    <2>1. /\ Before(r) = Before(ed) /\ After(ed) # <<>> /\ After(r) = Tail(After(ed))
          /\ r.clipboard = ed.clipboard
      BY <1>0, <1>2, DeleteSplit, DeleteGood
    <2>2. ed' = r /\ UNCHANGED Abstract!walk
      BY EditKeeps DEF Delete
    <2> HIDE DEF r
    <2>3. Abstract!Delete
      BY <2>1, <2>2 DEF Abstract!Delete, Before, After
    <2>. QED BY <2>3 DEF Abstract!Next
  <1>. QED BY <1>0, <1>1, <1>2 DEF Facts

LEMMA MoveMaps ==
    ASSUME Inv, NEW p, p \in 0 .. ed.linelen,
           p \in {0, ed.pos - 1, ed.pos + 1, ed.linelen},
           NEW r, Edit(r), r.buf = ed.buf, r.pos = p, r.linelen = ed.linelen,
           r.clipboard = ed.clipboard
    PROVE  Abstract!Next
  <1>0. ed \in Good
    BY DEF Inv
  <1>1. /\ Before(r) = SubSeq(Whole(ed), 1, p)
        /\ After(r) = SubSeq(Whole(ed), p + 1, ed.linelen)
    BY <1>0, CursorSplit
  <1>2. ed' = r /\ UNCHANGED Abstract!walk
    BY EditKeeps
  <1>3. /\ Abstract!line = Whole(ed) /\ Len(Abstract!line) = ed.linelen
        /\ Len(Before(ed)) = ed.pos
    BY Mapping
  <1>4. Abstract!Move(p)
    BY <1>1, <1>2, <1>3 DEF Abstract!Move, Before, After
  <1>5. p \in {0, Len(Before(ed)) - 1, Len(Before(ed)) + 1, Len(Abstract!line)}
        /\ p \in 0 .. Len(Abstract!line)
    BY <1>3
  <1>. QED BY <1>4, <1>5 DEF Abstract!Next, Before

LEMMA KillsMap ==
    ASSUME Inv, KilltailKey \/ KillwordKey \/ KillKey
    PROVE  Abstract!Next \/ UNCHANGED Abstract!vars
  <1>0. ed \in Good /\ Facts(ed)
    BY GoodIs DEF Inv
  <1>1. CASE KilltailKey
    <2> DEFINE r == KillTail(ed)
    <2>1. Before(r) = Before(ed) /\ After(r) = <<>> /\ r.clipboard = After(ed)
      BY <1>0, KillTailSplit
    <2>2. ed' = r /\ UNCHANGED Abstract!walk
      BY <1>1, EditKeeps DEF KilltailKey
    <2> HIDE DEF r
    <2>3. Abstract!KillTail
      BY <2>1, <2>2 DEF Abstract!KillTail, Before, After
    <2>. QED BY <2>3 DEF Abstract!Next
  <1>2. CASE KillwordKey
    <2>1. CASE ed.pos = 0
      BY <2>1, <1>2, EditNothing DEF KillwordKey, KillWord
    <2>2. CASE ed.pos > 0
      <3> DEFINE r == KillWord(ed)
                 n == WordLength(ed)
      <3>1. /\ n \in 1 .. ed.pos
            /\ Abstract!IsWord(Abstract!Last(Before(ed), n))
            /\ \A m \in n + 1 .. ed.pos : ~Abstract!IsWord(Abstract!Last(Before(ed), m))
        BY <1>0, <2>2, WordIs
      <3>2. /\ Before(r) = Abstract!But(Before(ed), n) /\ After(r) = After(ed)
            /\ r.clipboard = Abstract!Last(Before(ed), n)
        BY <1>0, <2>2, KillWordSplit
      <3>3. ed' = r /\ UNCHANGED Abstract!walk
        BY <1>2, EditKeeps DEF KillwordKey
      <3> HIDE DEF r, n
      <3>4. Len(Before(ed)) = ed.pos /\ Before(ed) # <<>>
        <4>1. Len(Before(ed)) = ed.pos /\ ed.pos # 0
          BY <1>0, <2>2, Mapping DEF Facts
        <4>. QED BY <4>1
      <3>5. /\ ed'.clipboard = Abstract!Last(Before(ed), n)
            /\ Before(ed)' = Abstract!But(Before(ed), n)
            /\ After(ed)' = After(ed)
        BY <3>2, <3>3 DEF Before, After
      <3>6. Abstract!KillWord
        BY <3>1, <3>3, <3>4, <3>5 DEF Abstract!KillWord, Before, After
      <3>. QED BY <3>6 DEF Abstract!Next
    <2>. QED BY <2>1, <2>2, <1>0 DEF Facts
  <1>3. CASE KillKey
    <2> DEFINE r == Kill(ed)
    <2>1. r \in Good /\ r.pos = 0 /\ r.linelen = 0 /\ r.clipboard = ed.clipboard
      BY <1>0, KillGood
    <2>2. ed' = r /\ UNCHANGED Abstract!walk
      BY <1>3, EditKeeps DEF KillKey
    <2> HIDE DEF r
    <2>3. Before(r) = <<>> /\ After(r) = <<>>
      BY <2>1, EmptySplit
    <2>4. Abstract!Kill
      BY <2>1, <2>2, <2>3 DEF Abstract!Kill, Abstract!Show, Abstract!walk, Before, After
    <2>. QED BY <2>4 DEF Abstract!Next
  <1>. QED BY <1>1, <1>2, <1>3

\* A line of the history, or the saved one, replaces the line.
LEMMA SetMaps ==
    ASSUME Inv, NEW s \in Strings, ed' = Set(ed, s), UNCHANGED histVars
    PROVE  Abstract!Show(s)
  <1> DEFINE r == Set(ed, s)
  <1>1. /\ r \in Good
        /\ r.pos = Len(s) /\ r.linelen = Len(s)
        /\ r.clipboard = ed.clipboard
        /\ \A k \in 0 .. Len(s) - 1 : r.buf[k] = s[k + 1]
    BY SetGood DEF Inv
  <1>2. s \in Seq(Char)
    BY StringIs
  <1>3. ed' = r
    OBVIOUS
  <1> HIDE DEF r
  <1>4. Before(r) = s /\ After(r) = <<>>
    BY <1>1, <1>2, ShowSplit
  <1>5. UNCHANGED H!Count /\ \A n : UNCHANGED H!HistoryGet(n)
    BY DEF histVars, H!Count, H!HistoryGet
  <1>. QED BY <1>1, <1>3, <1>4, <1>5 DEF Abstract!Show, Before, After

LEMMA OlderMaps ==
    ASSUME Inv, HistPrev
    PROVE  Abstract!Next \/ UNCHANGED Abstract!vars
  <1> DEFINE l == H!HistoryGet(histnum)
  <1>0. ed \in Good /\ H!TypeOK /\ H!Count \in 0 .. HistMax /\ histnum \in 0 .. H!Count
    BY CountType DEF Inv
  <1>1. histnum \in Nat /\ H!Count \in Nat /\ HistMax \in Nat
    BY <1>0, HistoryAssumed
  <1>2. CASE l # Null
    <2>1. histnum < H!Count /\ l \in Strings
      <3>1. histnum < H!Count
        BY <1>0, <1>1, <1>2, GetType
      <3>. QED BY <3>1, <1>0, <1>1, GetType DEF Lines
    <2>2. /\ ed' = Set(ed, l) /\ histnum' = histnum + 1 /\ UNCHANGED histVars
          /\ curline' = IF histnum = 0 THEN Str(ed.buf, 0) ELSE curline
      BY <1>2 DEF HistPrev
    <2>3. Abstract!Show(l)
      BY <2>1, <2>2, SetMaps
    <2>4. Mapped[histnum + 1] = l /\ Len(Mapped) = H!Count
      <3> DEFINE i == histnum + 1
      <3>1. i \in 1 .. H!Count /\ i - 1 = histnum
        BY <1>1, <2>1
      <3> HIDE DEF i, l
      <3>2. Mapped[i] = H!HistoryGet(i - 1)
        BY <3>1 DEF Mapped
      <3>. QED BY <3>1, <3>2, <1>0, MappedLen DEF i, l
    <2>5. Abstract!line = Str(ed.buf, 0)
      BY <1>0, Mapping, BeforeAfter
    <2>6. Saved' = IF histnum = 0 THEN Abstract!line ELSE Saved
      <3>1. histnum' # 0
        BY <1>1, <2>2
      <3>. QED BY <3>1, <2>2, <2>5 DEF Saved
    <2> HIDE DEF l
    <2>7. Abstract!Older
      BY <2>1, <2>2, <2>3, <2>4, <2>6 DEF Abstract!Older, Mapped, Saved
    <2>. QED BY <2>7 DEF Abstract!Next
  <1>3. CASE l = Null
    <2>1. UNCHANGED <<ed, histnum, history, histfull, histlast>>
          /\ curline' = IF histnum = 0 THEN Str(ed.buf, 0) ELSE curline
      BY <1>3 DEF HistPrev, histVars
    <2>2. UNCHANGED H!Count /\ (\A n : UNCHANGED H!HistoryGet(n)) /\ UNCHANGED Saved
      BY <2>1 DEF H!Count, H!HistoryGet, Saved
    <2>. QED BY <2>1, <2>2 DEF Abstract!vars, Abstract!view, Abstract!walk, Saved
  <1>. QED BY <1>2, <1>3

LEMMA NewerMaps ==
    ASSUME Inv, HistNext
    PROVE  Abstract!Next
  <1> DEFINE l == IF histnum = 1 THEN curline ELSE H!HistoryGet(histnum - 2)
  <1>1. histnum \in 1 .. H!Count /\ H!Count \in Nat /\ H!TypeOK
    BY CountType, HistoryAssumed DEF HistNext, Inv
  <1>2. histnum # 1 => histnum - 2 \in Nat /\ histnum - 2 < H!Count
    BY <1>1
  <1>3. l \in Strings
    <2>1. CASE histnum = 1
      BY <2>1 DEF Inv
    <2>2. CASE histnum # 1
      BY <1>1, <1>2, <2>2, GetType DEF Lines
    <2>. QED BY <2>1, <2>2
  <1>4. /\ ed' = Set(ed, l) /\ histnum' = histnum - 1 /\ curline' = curline
        /\ UNCHANGED histVars
    BY DEF HistNext
  <1>5. Abstract!Show(l)
    BY <1>3, <1>4, SetMaps
  <1>6. l = IF histnum = 1 THEN Saved ELSE Mapped[histnum - 1]
    <2>1. histnum # 0
      BY <1>1
    <2>2. histnum # 1 => histnum - 1 \in 1 .. H!Count /\ histnum - 1 - 1 = histnum - 2
      BY <1>1
    <2>3. histnum # 1 => Mapped[histnum - 1] = H!HistoryGet(histnum - 1 - 1)
      BY <2>2 DEF Mapped
    <2>. QED BY <2>1, <2>2, <2>3 DEF Saved
  <1>7. Saved' = IF histnum = 1 THEN <<>> ELSE Saved
    <2>1. (histnum' = 0 <=> histnum = 1) /\ histnum # 0
      BY <1>1, <1>4
    <2>. QED BY <2>1, <1>4 DEF Saved
  <1>8. histnum > 0
    BY <1>1
  <1> HIDE DEF l
  <1>9. Abstract!Newer
    BY <1>4, <1>5, <1>6, <1>7, <1>8 DEF Abstract!Newer, Mapped, Saved
  <1>. QED BY <1>9 DEF Abstract!Next

\* The newest line in front and no more than max of them
LEMMA AddIsFirst ==
    ASSUME NEW S, NEW q \in Seq(S), NEW l \in S, NEW max \in Nat, Len(q) <= max, max > 0
    PROVE  [i \in 1 .. (IF Len(q) < max THEN Len(q) + 1 ELSE max) |->
                IF i = 1 THEN l ELSE q[i - 1]] = Abstract!First(<<l>> \o q, max)
  <1> DEFINE n == IF Len(q) < max THEN Len(q) + 1 ELSE max
             s == <<l>> \o q
             f == [i \in 1 .. n |-> IF i = 1 THEN l ELSE q[i - 1]]
             t == SubSeq(s, 1, n)
  <1>1. Len(q) \in Nat /\ Len(s) = Len(q) + 1
        /\ \A i \in 1 .. Len(q) + 1 : s[i] = IF i = 1 THEN l ELSE q[i - 1]
    BY ConsIs
  <1>2. n \in Nat /\ 1 <= n /\ n <= Len(q) + 1
    BY <1>1
  <1>3. Abstract!First(s, max) = SubSeq(s, 1, IF max < Len(s) THEN max ELSE Len(s))
    BY DEF Abstract!First
  <1>4. (IF max < Len(s) THEN max ELSE Len(s)) = n
    BY <1>1
  <1> HIDE DEF n, s
  <1>5. \A i \in 1 .. n : f[i] = s[i] /\ f[i] \in S
    <2> TAKE i \in 1 .. n
    <2>1. i \in 1 .. Len(q) + 1 /\ (i # 1 => i - 1 \in 1 .. Len(q))
      BY <1>1, <1>2
    <2>2. f[i] = IF i = 1 THEN l ELSE q[i - 1]
      OBVIOUS
    <2>3. i # 1 => q[i - 1] \in S
      BY <2>1
    <2>. QED BY <2>1, <2>2, <2>3, <1>1
  <1>6. f \in Seq(S) /\ Len(f) = n
    <2>1. f \in [1 .. n -> S]
      BY <1>5
    <2>. QED BY <2>1, <1>2
  <1>7. t \in Seq(S) /\ Len(t) = n /\ \A i \in 1 .. n : t[i] = s[i]
    <2>1. \A i \in 1 .. n : s[i] \in S
      BY <1>5
    <2>2. 1 \in Int /\ n \in Int /\ n - 1 + 1 = n
      BY <1>2
    <2>3. t \in Seq(S) /\ Len(t) = n
      BY <1>2, <2>1, <2>2, SubSeqProperties
    <2>4. \A i \in 1 .. n - 1 + 1 : t[i] = s[1 + i - 1]
      BY <1>2, <2>1, <2>2, SubSeqProperties
    <2>. QED BY <2>2, <2>3, <2>4
  <1> HIDE DEF f, t
  <1>8. f = t
    BY <1>5, <1>6, <1>7, SeqEqual
  <1>. QED BY <1>3, <1>4, <1>8 DEF f, t, n, s

\* A return without its line in the history
LEMMA ReturnClears ==
    ASSUME Inv, NEW l \in Strings, Return(l)
    PROVE  /\ Before(ed)' = <<>> /\ After(ed)' = <<>> /\ ed'.clipboard = ed.clipboard
           /\ histnum' = 0 /\ Saved' = <<>>
           /\ l = <<>> => UNCHANGED Mapped
           /\ l # <<>> => Mapped' = Abstract!First(<<l>> \o Mapped, HistMax)
  <1> DEFINE r == Emptied(ed)
  <1>1. r \in Good /\ r.pos = 0 /\ r.linelen = 0 /\ r.clipboard = ed.clipboard
    BY EmptiedGood DEF Inv
  <1>2. ed' = r /\ histnum' = 0 /\ H!HistoryAppend(l)
    BY DEF Return, Emptied
  <1> HIDE DEF r
  <1>3. Before(r) = <<>> /\ After(r) = <<>>
    BY <1>1, EmptySplit
  <1>4. Saved' = <<>>
    BY <1>2 DEF Saved
  <1>5. /\ l = <<>> => UNCHANGED histVars
        /\ l # <<>> => l \in Lines /\ Appends(l)
    BY <1>2, AppendStep DEF Inv
  <1>6. l = <<>> => UNCHANGED Mapped
    <2>1. UNCHANGED histVars => UNCHANGED H!Count /\ \A n : UNCHANGED H!HistoryGet(n)
      BY DEF histVars, H!Count, H!HistoryGet
    <2>. QED BY <2>1, <1>5 DEF Mapped
  <1>7. ASSUME l # <<>> PROVE Mapped' = Abstract!First(<<l>> \o Mapped, HistMax)
    <2>1. Mapped \in Seq(Lines) /\ Len(Mapped) <= HistMax /\ l \in Lines
          /\ HistMax \in Nat /\ HistMax > 0
      BY <1>5, <1>7, Mapping, CountType, HistoryAssumed DEF Inv
    <2>2. H!Recent!Add(l)
      BY <1>5, <1>7, AppendAdds DEF Inv
    <2>3. Mapped' = [i \in 1 .. (IF Len(Mapped) < HistMax THEN Len(Mapped) + 1 ELSE HistMax) |->
                        IF i = 1 THEN l ELSE Mapped[i - 1]]
      BY <2>2 DEF H!Recent!Add, Mapped
    <2>. QED BY <2>1, <2>3, AddIsFirst
  <1>. QED BY <1>1, <1>2, <1>3, <1>4, <1>6, <1>7 DEF Before, After

LEMMA ReturnMaps ==
    ASSUME Inv, Enter \/ Discard
    PROVE  Abstract!Next
  <1>1. CASE Enter
    <2> DEFINE l == Str(ed.buf, 0)
    <2>1. l \in Strings /\ Return(l) /\ Abstract!line = l
      BY <1>1, LineIs, BeforeAfter, Mapping DEF Enter, Inv
    <2> HIDE DEF l
    <2>2. /\ Before(ed)' = <<>> /\ After(ed)' = <<>> /\ ed'.clipboard = ed.clipboard
          /\ histnum' = 0 /\ Saved' = <<>>
          /\ l = <<>> => UNCHANGED Mapped
          /\ l # <<>> => Mapped' = Abstract!First(<<l>> \o Mapped, HistMax)
      BY <2>1, ReturnClears
    <2>3. Mapped' = IF l = <<>> THEN Mapped ELSE Abstract!First(<<l>> \o Mapped, HistMax)
      BY <2>2
    <2>4. Abstract!Enter
      BY <2>1, <2>2, <2>3 DEF Abstract!Enter, Before, After, Mapped, Saved
    <2>. QED BY <2>4 DEF Abstract!Next
  <1>2. CASE Discard
    <2> DEFINE l == <<>>
    <2>1. l \in Strings /\ Return(l)
      BY <1>2, EmptyIsString DEF Discard
    <2>2. /\ Before(ed)' = <<>> /\ After(ed)' = <<>> /\ ed'.clipboard = ed.clipboard
          /\ histnum' = 0 /\ Saved' = <<>> /\ UNCHANGED Mapped
      BY <2>1, ReturnClears
    <2>3. Abstract!Discard
      BY <2>2 DEF Abstract!Discard, Before, After, Mapped, Saved
    <2>. QED BY <2>3 DEF Abstract!Next
  <1>. QED BY <1>1, <1>2

LEMMA InitMaps == Init => Abstract!Init
  <1> SUFFICES ASSUME Init PROVE Abstract!Init
    OBVIOUS
  <1>1. ed \in Good
    BY InitInv DEF Inv
  <1>2. ed.pos = 0 /\ ed.linelen = 0 /\ ed.clipboard = <<>> /\ histnum = 0
    BY DEF Init
  <1>3. Before(ed) = <<>> /\ After(ed) = <<>>
    BY <1>1, <1>2, EmptySplit
  <1>4. Mapped = <<>>
    <2>1. H!Count = 0
      BY DEF Init, H!Init, H!Count
    <2>. QED BY <2>1 DEF Mapped
  <1>. QED BY <1>2, <1>3, <1>4 DEF Abstract!Init, Before, After, Mapped

LEMMA NextMaps == Inv /\ [Next]_vars => [Abstract!Next]_(Abstract!vars)
  <1> SUFFICES ASSUME Inv, [Next]_vars
               PROVE  Abstract!Next \/ UNCHANGED Abstract!vars
    OBVIOUS
  <1>0. ed \in Good /\ Facts(ed)
    BY GoodIs DEF Inv
  <1>1. ASSUME NEW c \in Char, InsertKey(c) PROVE Abstract!Next \/ UNCHANGED Abstract!vars
    BY <1>1, InsertMaps
  <1>2. CASE Backspace
    BY <1>2, BackspaceMaps
  <1>3. CASE Delete
    BY <1>3, DeleteMaps
  <1>4. ASSUME NEW p, p \in 0 .. ed.linelen, Edit(CursorTo(ed, p)),
               p \in {0, ed.pos - 1, ed.pos + 1, ed.linelen}
        PROVE  Abstract!Next
    <2> DEFINE r == CursorTo(ed, p)
    <2>1. r.buf = ed.buf /\ r.pos = p /\ r.linelen = ed.linelen /\ r.clipboard = ed.clipboard
      BY <1>0, <1>4, CursorGood
    <2>2. Edit(r)
      BY <1>4
    <2> HIDE DEF r
    <2>. QED BY <2>1, <2>2, <1>4, MoveMaps
  <1>5. CASE Left
    <2>1. ed.pos - 1 \in 0 .. ed.linelen
      BY <1>0, <1>5 DEF Left, Facts
    <2>. QED BY <2>1, <1>4, <1>5 DEF Left
  <1>6. CASE Right
    <2>1. ed.pos + 1 \in 0 .. ed.linelen
      BY <1>0, <1>6 DEF Right, Facts
    <2>. QED BY <2>1, <1>4, <1>6 DEF Right
  <1>7. CASE Linehead
    <2>1. 0 \in 0 .. ed.linelen
      BY <1>0 DEF Facts
    <2>. QED BY <2>1, <1>4, <1>7 DEF Linehead
  <1>8. CASE Linetail
    <2>1. ed.linelen \in 0 .. ed.linelen
      BY <1>0 DEF Facts
    <2>. QED BY <2>1, <1>4, <1>8 DEF Linetail
  <1>9. CASE ClearKey
    <2> DEFINE r == ClearScreen(ed)
               p == ed.linelen
    <2>1. r.buf = ed.buf /\ r.pos = p /\ r.linelen = ed.linelen /\ r.clipboard = ed.clipboard
      BY <1>0, ClearScreenGood
    <2>2. Edit(r) /\ p \in 0 .. ed.linelen /\ p \in {0, ed.pos - 1, ed.pos + 1, ed.linelen}
      BY <1>0, <1>9 DEF ClearKey, Facts
    <2> HIDE DEF r, p
    <2>. QED BY <2>1, <2>2, MoveMaps
  <1>10. CASE YankKey
    BY <1>10, YankMaps
  <1>11. CASE KilltailKey \/ KillwordKey \/ KillKey
    BY <1>11, KillsMap
  <1>12. CASE HistPrev
    BY <1>12, OlderMaps
  <1>13. CASE HistNext
    BY <1>13, NewerMaps
  <1>14. CASE Enter \/ Discard
    BY <1>14, ReturnMaps
  <1>15. CASE UNCHANGED vars
    <2>1. UNCHANGED <<ed, curline, histnum, history, histfull, histlast>>
      BY <1>15 DEF vars, histVars
    <2>2. UNCHANGED H!Count /\ \A n : UNCHANGED H!HistoryGet(n)
      BY <2>1 DEF H!Count, H!HistoryGet
    <2>. QED BY <2>1, <2>2 DEF Abstract!vars, Abstract!view, Abstract!walk
  <1>. QED BY <1>1, <1>2, <1>3, <1>5, <1>6, <1>7, <1>8, <1>9, <1>10, <1>11, <1>12,
              <1>13, <1>14, <1>15 DEF Next

\* Every key does to the line, the clipboard and the walk through the history
\* what the abstract editor says, or nothing: the editor of lineedit.c is a
\* line with a cursor, for lines and histories of any size.
THEOREM EditLineImplemented == Spec => ImplementsEditLine
  BY InitMaps, NextMaps, SpecInv, PTL DEF Spec, ImplementsEditLine, Abstract!Spec

-----------------------------------------------------------------------------
(* Recursion from the end of a line to its start                           *)

LEMMA DownInduction ==
    ASSUME NEW n, n \in Nat, NEW B,
           \A p \in 1 .. n : (\A j \in p + 1 .. n : j \in B) => p \in B
    PROVE  1 .. n \subseteq B
  <1> DEFINE T == {k \in Nat : k < n /\ n - k \notin B}
  <1> SUFFICES ASSUME NEW p \in 1 .. n, p \notin B PROVE FALSE
    OBVIOUS
  <1>1. n - p \in T
    BY DEF T
  <1>2. PICK k \in T : \A y \in T : k <= y
    BY <1>1, NatLeast
  <1>3. n - k \in 1 .. n /\ n - k \notin B /\ k \in Nat
    BY <1>2
  <1>4. ASSUME NEW j \in n - k + 1 .. n PROVE j \in B
    <2>1. n - j \in Nat /\ n - j < n /\ n - (n - j) = j /\ ~(k <= n - j)
      BY <1>3
    <2>2. n - j \notin T
      BY <2>1, <1>2
    <2>. QED BY <2>1, <2>2
  <1>. QED BY <1>3, <1>4

\* A function whose value at p rests on those at later positions exists.
Rows(n, R) == [1 .. n -> R]

Rules(n, R) == [1 .. n -> [Rows(n, R) -> R]]

RestsOnLater(g, n, R) ==
    \A p \in 1 .. n : \A x, y \in Rows(n, R) :
        (\A j \in p + 1 .. n : x[j] = y[j]) => g[p][x] = g[p][y]

LEMMA Backward ==
    \A n, R, d, g :
        n \in Nat /\ d \in R /\ g \in Rules(n, R) /\ RestsOnLater(g, n, R)
        => \E f \in Rows(n, R) : \A p \in 1 .. n : f[p] = g[p][f]
  <1> SUFFICES ASSUME NEW n \in Nat, NEW R, NEW d \in R, NEW g \in Rules(n, R),
                      RestsOnLater(g, n, R)
               PROVE  \E f \in Rows(n, R) : \A p \in 1 .. n : f[p] = g[p][f]
    OBVIOUS
  <1> USE DEF Rows, Rules, RestsOnLater
  <1> DEFINE S == [1 .. n -> R]
             a == [p \in 1 .. n |-> d]
             Place(k) == n + 1 - k
             h == [k \in 1 .. n |-> [x \in S |->
                       [x EXCEPT ![Place(k)] = g[Place(k)][x]]]]
  <1>1. a \in S
    OBVIOUS
  <1>2. \A k \in 1 .. n : Place(k) \in 1 .. n
    OBVIOUS
  <1>3. h \in [1 .. n -> [S -> S]]
    BY <1>2
  <1>4. PICK t \in [0 .. n -> S] : t[0] = a /\ \A k \in 1 .. n : t[k] = h[k][t[k - 1]]
    <2> HIDE DEF S, a, h
    <2>. QED BY <1>1, <1>3, Iterates
  <1>5. ASSUME NEW k \in 1 .. n
        PROVE  /\ t[k][Place(k)] = g[Place(k)][t[k - 1]]
               /\ \A j \in 1 .. n : j # Place(k) => t[k][j] = t[k - 1][j]
    <2>1. t[k - 1] \in S
      BY <1>4
    <2>2. t[k] = [t[k - 1] EXCEPT ![Place(k)] = g[Place(k)][t[k - 1]]]
      BY <2>1, <1>4
    <2>. QED BY <2>1, <2>2, <1>2
  <1> HIDE DEF h
  \* What is written at a place stays.
  <1> DEFINE Kept(k) == \A m \in 1 .. n : m <= k => t[k][Place(m)] = t[m][Place(m)]
             B == {k \in Nat : k <= n => Kept(k)}
  <1>6. Nat \subseteq B
    <2>1. 0 \in B
      OBVIOUS
    <2>2. ASSUME NEW k \in Nat, k \in B PROVE k + 1 \in B
      <3> SUFFICES ASSUME k + 1 <= n, NEW m \in 1 .. n, m <= k + 1
                   PROVE  t[k + 1][Place(m)] = t[m][Place(m)]
        OBVIOUS
      <3>1. CASE m = k + 1
        BY <3>1
      <3>2. CASE m <= k
        <4>1. t[k][Place(m)] = t[m][Place(m)]
          BY <3>2, <2>2
        <4>2. k + 1 \in 1 .. n /\ k + 1 - 1 = k /\ Place(m) \in 1 .. n /\ Place(m) # Place(k + 1)
          BY <3>2
        <4>3. t[k + 1][Place(m)] = t[k][Place(m)]
          BY <4>2, <1>5
        <4>. QED BY <4>1, <4>3
      <3>. QED BY <3>1, <3>2
    <2> HIDE DEF B
    <2>. QED BY <2>1, <2>2, SetInduction
  <1> DEFINE f == t[n]
  <1>7. f \in S
    BY <1>4
  <1>8. ASSUME NEW p \in 1 .. n PROVE f[p] = g[p][f]
    <2> DEFINE k == n + 1 - p
    <2>1. k \in 1 .. n /\ Place(k) = p /\ k - 1 \in 0 .. n
      OBVIOUS
    <2>2. f[p] = t[k][p]
      <3>1. n \in B /\ n <= n
        BY <1>6
      <3>. QED BY <3>1, <2>1
    <2>3. t[k][p] = g[p][t[k - 1]]
      BY <2>1, <1>5
    <2>4. ASSUME NEW j \in p + 1 .. n PROVE t[k - 1][j] = f[j]
      <3> DEFINE m == n + 1 - j
      <3>1. m \in 1 .. n /\ Place(m) = j /\ m <= k - 1 /\ m <= n /\ k - 1 \in Nat /\ k - 1 <= n
        BY <2>1
      <3>2. n \in B /\ k - 1 \in B
        BY <1>6, <3>1
      <3>3. t[n][j] = t[m][j] /\ t[k - 1][j] = t[m][j]
        BY <3>1, <3>2
      <3>. QED BY <3>3
    <2>5. t[k - 1] \in S
      BY <2>1, <1>4
    <2> HIDE DEF k, f
    <2>6. g[p][t[k - 1]] = g[p][f]
      BY <2>4, <2>5, <1>7
    <2>. QED BY <2>2, <2>3, <2>6
  <1>. QED BY <1>7, <1>8

-----------------------------------------------------------------------------
(* The parser                                                              *)

Modes == Quotes \cup {NUL}

\* What read_token returns from a position of a line of n characters
Tokens(n) == {Error} \cup [error : {FALSE}, pos : 1 .. n + 1, word : Seq(Char)]

LEMMA WroteIs ==
    ASSUME NEW n \in Nat, NEW s \in Seq(Char), NEW t \in Tokens(n), NEW r, r = Wrote(s, t)
    PROVE  /\ r \in Tokens(n) /\ r.error = t.error
           /\ ~t.error => r.pos = t.pos /\ r.word = s \o t.word /\ Len(r.word) = Len(s) + Len(t.word)
  <1>1. CASE t = Error
    BY <1>1 DEF Wrote, Error
  <1>2. CASE t # Error
    <2>1. t \in [error : {FALSE}, pos : 1 .. n + 1, word : Seq(Char)]
      BY <1>2 DEF Tokens
    <2>2. r = [t EXCEPT !.word = s \o t.word]
      BY <2>1 DEF Wrote
    <2>3. /\ s \o t.word \in Seq(Char)
          /\ Len(s \o t.word) = Len(s) + Len(t.word)
      BY <2>1
    <2>4. /\ r \in [error : {FALSE}, pos : 1 .. n + 1, word : Seq(Char)]
          /\ r.pos = t.pos /\ r.word = s \o t.word
      BY <2>1, <2>2, <2>3
    <2>. QED BY <2>1, <2>3, <2>4 DEF Tokens
  <1>. QED BY <1>1, <1>2

\* read_token rests on what it does at later positions.
LEMMA ReadFromType ==
    ASSUME NEW l \in Strings, NEW n, n = Len(l), NEW p \in 1 .. n + 1, NEW q \in Modes,
           NEW f \in [1 .. n + 1 -> [Modes -> Tokens(n)]]
    PROVE  ReadFrom(l, p, q, f) \in Tokens(n)
  <1>0. n \in Nat /\ NUL \in Modes /\ \A k \in 1 .. n : l[k] \in Char
    BY StringIs DEF Modes
  <1>1. Error \in Tokens(n) /\ Stop(p) \in Tokens(n)
    BY <1>0 DEF Tokens, Stop
  <1>2. CASE p > n
    BY <1>1, <1>2 DEF ReadFrom
  <1>3. CASE p <= n
    <2>1. /\ <<l[p]>> \in Seq(Char) /\ p + 1 \in 1 .. n + 1
          /\ \A m \in Modes : f[p + 1][m] \in Tokens(n)
      BY <1>0, <1>3
    <2>2. p # n => /\ Escaped(l, p) \in Seq(Char) /\ f[p + 2][NUL] \in Tokens(n)
      BY <1>0, <1>3 DEF Escaped
    <2>3. \A m \in Modes : Wrote(<<l[p]>>, f[p + 1][m]) \in Tokens(n)
      BY <1>0, <2>1, WroteIs
    <2>4. p # n => Wrote(Escaped(l, p), f[p + 2][NUL]) \in Tokens(n)
      BY <1>0, <2>2, WroteIs
    <2>5. l[p] \in Quotes => l[p] \in Modes
      BY DEF Modes
    <2>. QED BY <1>0, <1>1, <1>3, <2>1, <2>3, <2>4, <2>5 DEF ReadFrom
  <1>. QED BY <1>0, <1>2, <1>3

LEMMA ReadFromLater ==
    ASSUME NEW l \in Strings, NEW p \in 1 .. Len(l) + 1, NEW q \in Modes,
           NEW f, NEW h, \A j \in p + 1 .. Len(l) + 1 : f[j] = h[j]
    PROVE  ReadFrom(l, p, q, f) = ReadFrom(l, p, q, h)
  <1> DEFINE n == Len(l)
  <1>0. n \in Nat
    BY StringIs
  <1>1. p <= n => p + 1 \in p + 1 .. n + 1
    BY <1>0
  <1>2. p <= n /\ p # n => p + 2 \in p + 1 .. n + 1
    BY <1>0
  <1>3. /\ p <= n => f[p + 1] = h[p + 1]
        /\ p <= n /\ p # n => f[p + 2] = h[p + 2]
    BY <1>1, <1>2
  <1>. QED BY <1>0, <1>3 DEF ReadFrom

LEMMA ReadTokenIs ==
    ASSUME NEW l \in Strings, NEW p \in 1 .. Len(l) + 1, NEW q \in Modes
    PROVE  ReadToken(l)[p][q] = ReadFrom(l, p, q, ReadToken(l))
  <1> DEFINE n == Len(l)
             N == n + 1
             R == [Modes -> Tokens(n)]
             F(t) == [k \in 1 .. N |-> [m \in Modes |-> ReadFrom(l, k, m, t)]]
             c == CHOOSE t : t = F(t)
             d == [m \in Modes |-> Error]
             g == [k \in 1 .. N |-> [x \in Rows(N, R) |-> [m \in Modes |-> ReadFrom(l, k, m, x)]]]
  <1>0. n \in Nat /\ N \in Nat
    BY StringIs
  <1>1. ReadToken(l) = c
    BY DEF ReadToken, Modes
  <1>2. d \in R
    BY DEF Tokens
  <1>3. \A k \in 1 .. N : \A m \in Modes : \A x \in Rows(N, R) : ReadFrom(l, k, m, x) \in Tokens(n)
    BY ReadFromType DEF Rows
  <1>4. g \in [1 .. N -> [Rows(N, R) -> R]]
    BY <1>3
  <1>5. ASSUME NEW k \in 1 .. N, NEW x \in Rows(N, R), NEW y \in Rows(N, R),
               \A j \in k + 1 .. N : x[j] = y[j]
        PROVE  g[k][x] = g[k][y]
    <2>1. ASSUME NEW m \in Modes PROVE ReadFrom(l, k, m, x) = ReadFrom(l, k, m, y)
      <3>1. k \in 1 .. n + 1 /\ \A j \in k + 1 .. n + 1 : x[j] = y[j]
        BY <1>5
      <3> HIDE DEF R
      <3>. QED BY <3>1, ReadFromLater, Zenon
    <2>. QED BY <2>1
  <1>6. PICK f \in Rows(N, R) : \A k \in 1 .. N : f[k] = g[k][f]
    <2>1. RestsOnLater(g, N, R)
      BY <1>5 DEF RestsOnLater
    <2>2. g \in Rules(N, R)
      BY <1>4 DEF Rules
    <2> HIDE DEF R, d, g, N
    <2>. QED BY <1>0, <1>2, <2>1, <2>2, Backward
  <1>7. f = F(f)
    BY <1>6 DEF Rows
  <1>8. c = F(c)
    <2> HIDE DEF F
    <2>. QED BY <1>7
  <1> HIDE DEF c, g, d, R
  <1>9. c[p] = [m \in Modes |-> ReadFrom(l, p, m, c)]
    BY <1>8
  <1>. QED BY <1>1, <1>9

\* What read_token returns from p: it stops at or behind p, has written no more
\* than it has passed, and stops within the line only where a word ends.
TokensFrom(l, p) ==
    {t \in Tokens(Len(l)) :
        ~t.error => /\ p <= t.pos
                    /\ Len(t.word) <= t.pos - p
                    /\ t.pos <= Len(l) => l[t.pos] \in {Space, Sep}}

LEMMA TokenFields ==
    ASSUME NEW n \in Nat, NEW t \in Tokens(n), ~t.error
    PROVE  t.pos \in 1 .. n + 1 /\ t.pos \in Nat /\ t.word \in Seq(Char) /\ Len(t.word) \in Nat
  <1>1. t # Error
    BY DEF Error
  <1>2. t \in [error : {FALSE}, pos : 1 .. n + 1, word : Seq(Char)]
    BY <1>1 DEF Tokens
  <1>. QED BY <1>2

\* Writing s before going on from r to a token
LEMMA WritesPassed ==
    ASSUME NEW l \in Strings, NEW s \in Seq(Char), NEW p \in Nat, NEW r \in Nat,
           Len(s) <= r - p, NEW t \in TokensFrom(l, r)
    PROVE  Wrote(s, t) \in TokensFrom(l, p)
  <1> DEFINE n == Len(l)
             w == Wrote(s, t)
  <1>1. n \in Nat /\ t \in Tokens(n)
    BY StringIs DEF TokensFrom
  <1>2. /\ w \in Tokens(n) /\ w.error = t.error
        /\ ~t.error => w.pos = t.pos /\ Len(w.word) = Len(s) + Len(t.word)
    BY <1>1, WroteIs
  <1>3. Len(s) \in Nat /\ (~t.error => t.pos \in Nat /\ Len(t.word) \in Nat)
    BY <1>1, TokenFields
  <1>4. ~t.error => /\ r <= t.pos /\ Len(t.word) <= t.pos - r
                    /\ t.pos <= n => l[t.pos] \in {Space, Sep}
    BY DEF TokensFrom
  <1> HIDE DEF w
  <1>5. ~w.error => p <= w.pos /\ Len(w.word) <= w.pos - p
    BY <1>2, <1>3, <1>4
  <1>6. ~w.error => (w.pos <= n => l[w.pos] \in {Space, Sep})
    BY <1>2, <1>4
  <1>. QED BY <1>2, <1>5, <1>6 DEF TokensFrom, w

\* Going on from r without writing anything
LEMMA PassesOver ==
    ASSUME NEW l \in Strings, NEW p \in Nat, NEW r \in Nat, p <= r, NEW t \in TokensFrom(l, r)
    PROVE  t \in TokensFrom(l, p)
  <1>1. t \in Tokens(Len(l))
    BY DEF TokensFrom
  <1>2. ~t.error => t.pos \in Nat /\ Len(t.word) \in Nat
    BY <1>1, StringIs, TokenFields
  <1>. QED BY <1>1, <1>2 DEF TokensFrom

LEMMA StopIs ==
    ASSUME NEW l \in Strings, NEW p \in 1 .. Len(l) + 1,
           p <= Len(l) => l[p] \in {Space, Sep}
    PROVE  Stop(p) \in TokensFrom(l, p)
  <1>1. Stop(p) \in Tokens(Len(l))
    BY DEF Stop, Tokens
  <1>2. Stop(p).pos = p /\ Stop(p).word = <<>> /\ Len(Stop(p).word) = 0
    BY DEF Stop
  <1>3. p \in Int /\ p - p = 0
    BY StringIs
  <1>. QED BY <1>1, <1>2, <1>3 DEF TokensFrom

LEMMA ErrorIs ==
    ASSUME NEW l \in Strings, NEW p
    PROVE  Error \in TokensFrom(l, p)
  BY DEF TokensFrom, Tokens, Error

LEMMA ReadFromIs ==
    ASSUME NEW l \in Strings, NEW p \in 1 .. Len(l) + 1, NEW q \in Modes, NEW f,
           \A j \in p + 1 .. Len(l) + 1 : \A m \in Modes : f[j][m] \in TokensFrom(l, j)
    PROVE  ReadFrom(l, p, q, f) \in TokensFrom(l, p)
  <1> DEFINE n == Len(l)
  <1>0. n \in Nat /\ NUL \in Modes /\ \A k \in 1 .. n : l[k] \in Char
    BY StringIs DEF Modes
  <1>1. Error \in TokensFrom(l, p)
    BY ErrorIs
  <1>2. CASE p > n
    <2>1. Stop(p) \in TokensFrom(l, p)
      BY <1>0, <1>2, StopIs
    <2>. QED BY <1>1, <1>2, <2>1 DEF ReadFrom
  <1>3. CASE p <= n
    <2>1. /\ <<l[p]>> \in Seq(Char) /\ Len(<<l[p]>>) <= p + 1 - p /\ p \in Nat /\ p + 1 \in Nat
          /\ p + 1 \in p + 1 .. n + 1
      BY <1>0, <1>3
    <2>2. \A m \in Modes : f[p + 1][m] \in TokensFrom(l, p + 1)
      BY <2>1
    <2>3. \A m \in Modes : f[p + 1][m] \in TokensFrom(l, p)
      <3> TAKE m \in Modes
      <3>1. p <= p + 1
        BY <2>1
      <3>. QED BY <2>1, <2>2, <3>1, PassesOver
    <2>4. \A m \in Modes : Wrote(<<l[p]>>, f[p + 1][m]) \in TokensFrom(l, p)
      <3> TAKE m \in Modes
      <3> DEFINE s == <<l[p]>>
                 r == p + 1
      <3>1. s \in Seq(Char) /\ p \in Nat /\ r \in Nat /\ Len(s) <= r - p
        BY <2>1
      <3>2. f[r][m] \in TokensFrom(l, r)
        BY <2>2
      <3> HIDE DEF s, r
      <3>3. Wrote(s, f[r][m]) \in TokensFrom(l, p)
        BY <3>1, <3>2, WritesPassed
      <3>. QED BY <3>3 DEF s, r
    <2>5. p # n => Wrote(Escaped(l, p), f[p + 2][NUL]) \in TokensFrom(l, p)
      <3> SUFFICES ASSUME p # n PROVE Wrote(Escaped(l, p), f[p + 2][NUL]) \in TokensFrom(l, p)
        OBVIOUS
      <3>1. /\ Escaped(l, p) \in Seq(Char) /\ Len(Escaped(l, p)) <= p + 2 - p
            /\ p \in Nat /\ p + 2 \in Nat /\ p + 2 \in p + 1 .. n + 1
        BY <1>0, <1>3 DEF Escaped
      <3>2. f[p + 2][NUL] \in TokensFrom(l, p + 2)
        BY <3>1, <1>0
      <3>. QED BY <3>1, <3>2, WritesPassed
    <2>6. l[p] \in {Space, Sep} => Stop(p) \in TokensFrom(l, p)
      BY StopIs
    <2>7. l[p] \in Quotes => l[p] \in Modes
      BY DEF Modes
    <2>. QED BY <1>0, <1>1, <1>3, <2>3, <2>4, <2>5, <2>6, <2>7 DEF ReadFrom
  <1>. QED BY <1>0, <1>2, <1>3

\* Whatever is read, from wherever, is such a token.
LEMMA TokenIs ==
    ASSUME NEW l \in Strings, NEW p \in 1 .. Len(l) + 1, NEW q \in Modes
    PROVE  ReadToken(l)[p][q] \in TokensFrom(l, p)
  <1> DEFINE N == Len(l) + 1
             B == {k \in 1 .. N : \A m \in Modes : ReadToken(l)[k][m] \in TokensFrom(l, k)}
  <1>1. N \in Nat
    BY StringIs
  <1>2. ASSUME NEW k \in 1 .. N, \A j \in k + 1 .. N : j \in B PROVE k \in B
    <2>1. \A j \in k + 1 .. Len(l) + 1 : \A m \in Modes : ReadToken(l)[j][m] \in TokensFrom(l, j)
      BY <1>2
    <2>2. ASSUME NEW m \in Modes PROVE ReadToken(l)[k][m] \in TokensFrom(l, k)
      <3>1. ReadToken(l)[k][m] = ReadFrom(l, k, m, ReadToken(l))
        BY ReadTokenIs
      <3>2. ReadFrom(l, k, m, ReadToken(l)) \in TokensFrom(l, k)
        BY <2>1, ReadFromIs
      <3>. QED BY <3>1, <3>2
    <2>. QED BY <2>2
  <1>3. 1 .. N \subseteq B
    <2>1. \A k \in 1 .. N : (\A j \in k + 1 .. N : j \in B) => k \in B
      BY <1>2
    <2> HIDE DEF B, N
    <2>. QED BY <1>1, <2>1, DownInduction
  <1>. QED BY <1>3

\* The first character from p on that is no space
LEMMA SkipIs ==
    ASSUME NEW l \in Strings, NEW p \in 1 .. Len(l) + 1
    PROVE  /\ Skip(l, p) \in p .. Len(l) + 1
           /\ \A i \in p .. Skip(l, p) - 1 : l[i] = Space
           /\ Skip(l, p) <= Len(l) => l[Skip(l, p)] # Space
           /\ p <= Len(l) /\ l[p] = Space => Skip(l, p) > p
  <1> DEFINE n == Len(l)
             T == {k \in p .. n + 1 : k <= n => l[k] # Space}
             Is(q) == /\ \A i \in p .. q - 1 : l[i] = Space
                      /\ q <= n => l[q] # Space
  <1>1. n \in Nat
    BY StringIs
  <1>2. PICK q \in T : \A k \in T : q <= k
    <2>1. n + 1 \in T /\ T \subseteq Nat /\ T # {}
      BY <1>1
    <2> HIDE DEF T
    <2>. QED BY <2>1, NatLeast
  <1>3. ASSUME NEW i \in p .. q - 1 PROVE l[i] = Space
    <2>1. i \in p .. n + 1 /\ ~(q <= i)
      BY <1>1, <1>2
    <2>2. i \notin T
      BY <1>2, <2>1
    <2>. QED BY <2>1, <2>2
  <1>4. q \in p .. n + 1 /\ Is(q)
    BY <1>2, <1>3
  <1>5. Skip(l, p) \in p .. n + 1 /\ Is(Skip(l, p))
    <2>1. Skip(l, p) = CHOOSE x \in p .. n + 1 : Is(x)
      BY DEF Skip
    <2> HIDE DEF Is, n
    <2>. QED BY <2>1, <1>4
  <1>. QED BY <1>1, <1>5

\* The next word of a sentence: it lies behind the spaces, and the sentence goes
\* on only at a space behind it.
LEMMA WordAhead ==
    ASSUME NEW l \in Strings, NEW p \in 1 .. Len(l) + 1,
           NEW q, q = Skip(l, p), NEW t, t = ReadToken(l)[q][NUL]
    PROVE  /\ q \in p .. Len(l) + 1 /\ t \in TokensFrom(l, q)
           /\ ~t.error => /\ q <= t.pos /\ t.pos \in 1 .. Len(l) + 1
                          /\ t.word \in Seq(Char)
                          /\ Len(t.word) \in Nat /\ Len(t.word) <= t.pos - q
           /\ ~t.error /\ t.pos <= Len(l) /\ l[t.pos] # Sep
                => q < t.pos /\ l[t.pos] = Space
  <1> DEFINE n == Len(l)
  <1>0. n \in Nat /\ NUL \in Modes
    BY StringIs DEF Modes
  <1>1. q \in p .. n + 1 /\ (q <= n => l[q] # Space)
    BY SkipIs
  <1>2. q \in 1 .. n + 1
    BY <1>0, <1>1
  <1>3. t \in TokensFrom(l, q)
    BY <1>0, <1>2, TokenIs
  <1>4. t \in Tokens(n)
    BY <1>3 DEF TokensFrom
  <1>5. ~t.error => /\ t.pos \in 1 .. n + 1 /\ t.word \in Seq(Char) /\ Len(t.word) \in Nat
                    /\ q <= t.pos /\ Len(t.word) <= t.pos - q
                    /\ t.pos <= n => l[t.pos] \in {Space, Sep}
    BY <1>0, <1>3, <1>4, TokenFields DEF TokensFrom
  <1>6. ~t.error /\ t.pos <= n /\ l[t.pos] # Sep => q < t.pos /\ l[t.pos] = Space
    BY <1>0, <1>1, <1>2, <1>5
  <1>. QED BY <1>1, <1>3, <1>5, <1>6

\* What msh_parse_line returns from a position of a line of n characters
Sentences(n) ==
    {Error} \cup [error : {FALSE}, next : {0} \cup 2 .. n + 1,
                  args : Seq(Seq(Char)), buf : Seq(Char \cup {NUL})]

LEMMA SentenceFields ==
    ASSUME NEW n \in Nat, NEW r \in Sentences(n), ~r.error
    PROVE  /\ r \in [error : {FALSE}, next : {0} \cup 2 .. n + 1,
                     args : Seq(Seq(Char)), buf : Seq(Char \cup {NUL})]
           /\ r.next \in {0} \cup 2 .. n + 1 /\ r.next \in Nat
           /\ r.args \in Seq(Seq(Char))
           /\ r.buf \in Seq(Char \cup {NUL}) /\ Len(r.buf) \in Nat
  <1>1. r # Error
    BY DEF Error
  <1>2. r \in [error : {FALSE}, next : {0} \cup 2 .. n + 1,
               args : Seq(Seq(Char)), buf : Seq(Char \cup {NUL})]
    BY <1>1 DEF Sentences
  <1>3. r.next \in {0} \cup 2 .. n + 1 /\ r.args \in Seq(Seq(Char)) /\ r.buf \in Seq(Char \cup {NUL})
    BY <1>2
  <1>4. r.next \in Nat /\ Len(r.buf) \in Nat
    BY <1>3
  <1>. QED BY <1>2, <1>3, <1>4

LEMMA FollowedIs ==
    ASSUME NEW n \in Nat, NEW a \in Seq(Seq(Char)), NEW b \in Seq(Char \cup {NUL}),
           NEW r \in Sentences(n), NEW x, x = Followed(a, b, r)
    PROVE  /\ x \in Sentences(n) /\ x.error = r.error
           /\ ~r.error => x.next = r.next /\ x.args = a \o r.args /\ x.buf = b \o r.buf
  <1>1. CASE r.error
    BY <1>1 DEF Followed
  <1>2. CASE ~r.error
    <2>1. r \in [error : {FALSE}, next : {0} \cup 2 .. n + 1,
                 args : Seq(Seq(Char)), buf : Seq(Char \cup {NUL})]
      BY <1>2, SentenceFields
    <2>2. a \o r.args \in Seq(Seq(Char)) /\ b \o r.buf \in Seq(Char \cup {NUL})
      BY <2>1
    <2>3. x = [r EXCEPT !.args = a \o r.args, !.buf = b \o r.buf]
      BY <1>2, <2>1 DEF Followed
    <2>4. /\ x \in [error : {FALSE}, next : {0} \cup 2 .. n + 1,
                    args : Seq(Seq(Char)), buf : Seq(Char \cup {NUL})]
          /\ x.next = r.next /\ x.args = a \o r.args /\ x.buf = b \o r.buf
      BY <2>1, <2>2, <2>3
    <2>. QED BY <2>1, <2>4 DEF Sentences
  <1>. QED BY <1>1, <1>2

LEMMA ParsedIs ==
    ASSUME NEW n \in Nat, NEW k \in {0} \cup 2 .. n + 1, NEW a \in Seq(Seq(Char)),
           NEW b \in Seq(Char \cup {NUL})
    PROVE  /\ Parsed(k, a, b) \in Sentences(n) /\ ~Parsed(k, a, b).error
           /\ Parsed(k, a, b).next = k /\ Parsed(k, a, b).args = a /\ Parsed(k, a, b).buf = b
  BY DEF Parsed, Sentences

\* What is written for a word
LEMMA TerminatedIs ==
    ASSUME NEW w \in Seq(Char)
    PROVE  /\ Terminated(w) \in Seq(Char \cup {NUL})
           /\ Len(Terminated(w)) = Len(w) + 1
           /\ Terminated(w)[Len(w) + 1] = NUL
  <1>1. w \in Seq(Char \cup {NUL})
    OBVIOUS
  <1>. QED BY <1>1 DEF Terminated

\* msh_parse_line rests on what it does at later positions.
LEMMA ParseFromType ==
    ASSUME NEW l \in Strings, NEW p \in 1 .. Len(l) + 1,
           NEW f, \A j \in p + 1 .. Len(l) + 1 : f[j] \in Sentences(Len(l))
    PROVE  ParseFrom(l, p, f) \in Sentences(Len(l))
  <1> DEFINE n == Len(l)
             q == Skip(l, p)
             t == ReadToken(l)[q][NUL]
             a == IF t.pos = q THEN <<>> ELSE <<t.word>>
             b == Terminated(t.word)
  <1>0. n \in Nat
    BY StringIs
  <1>1. Error \in Sentences(n) /\ Parsed(0, <<>>, <<>>) \in Sentences(n)
    BY DEF Sentences, Parsed
  <1>2. /\ q \in p .. n + 1
        /\ ~t.error => /\ q <= t.pos /\ t.pos \in 1 .. n + 1 /\ t.word \in Seq(Char)
        /\ ~t.error /\ t.pos <= n /\ l[t.pos] # Sep => q < t.pos
    BY WordAhead
  <1> HIDE DEF n, q, t
  <1>3. ~t.error => a \in Seq(Seq(Char)) /\ b \in Seq(Char \cup {NUL})
    BY <1>2, TerminatedIs
  <1> HIDE DEF a, b
  <1>4. ~t.error /\ t.pos > n => Parsed(0, a, b) \in Sentences(n)
    BY <1>0, <1>3, ParsedIs
  <1>5. ~t.error /\ t.pos <= n => Parsed(t.pos + 1, a, b) \in Sentences(n)
    <2>1. ~t.error /\ t.pos <= n => t.pos + 1 \in {0} \cup 2 .. n + 1
      BY <1>0, <1>2
    <2>. QED BY <1>0, <1>3, <2>1, ParsedIs
  <1>6. ~t.error /\ t.pos <= n /\ l[t.pos] # Sep => Followed(a, b, f[t.pos]) \in Sentences(n)
    <2>1. ~t.error /\ t.pos <= n /\ l[t.pos] # Sep => t.pos \in p + 1 .. n + 1
      BY <1>0, <1>2
    <2>2. ~t.error /\ t.pos <= n /\ l[t.pos] # Sep => f[t.pos] \in Sentences(n)
      BY <2>1 DEF n
    <2>. QED BY <1>0, <1>3, <2>2, FollowedIs
  <1>7. ParseFrom(l, p, f) =
            IF p > n THEN Parsed(0, <<>>, <<>>)
            ELSE IF t.error THEN Error
            ELSE IF t.pos > n THEN Parsed(0, a, b)
            ELSE IF l[t.pos] = Sep THEN Parsed(t.pos + 1, a, b)
            ELSE Followed(a, b, f[t.pos])
    BY DEF ParseFrom, n, q, t, a, b
  <1>8. ~t.error => t.pos > n \/ t.pos <= n
    BY <1>0, <1>2
  <1>9. ParseFrom(l, p, f) \in Sentences(n)
    BY <1>1, <1>4, <1>5, <1>6, <1>7, <1>8
  <1>. QED BY <1>9 DEF n

LEMMA ParseFromLater ==
    ASSUME NEW l \in Strings, NEW p \in 1 .. Len(l) + 1,
           NEW f, NEW h, \A j \in p + 1 .. Len(l) + 1 : f[j] = h[j]
    PROVE  ParseFrom(l, p, f) = ParseFrom(l, p, h)
  <1> DEFINE n == Len(l)
             q == Skip(l, p)
             t == ReadToken(l)[q][NUL]
  <1>0. n \in Nat
    BY StringIs
  <1>1. /\ q \in p .. n + 1
        /\ ~t.error => t.pos \in 1 .. n + 1
        /\ ~t.error /\ t.pos <= n /\ l[t.pos] # Sep => q < t.pos
    BY WordAhead
  <1> HIDE DEF q, t, n
  <1>2. ~t.error /\ ~(t.pos > n) /\ l[t.pos] # Sep => t.pos \in p + 1 .. n + 1
    BY <1>0, <1>1
  <1>3. ~t.error /\ ~(t.pos > n) /\ l[t.pos] # Sep => f[t.pos] = h[t.pos]
    BY <1>2 DEF n
  <1>. QED BY <1>3 DEF ParseFrom, q, t, n

LEMMA ParseLineIs ==
    ASSUME NEW l \in Strings
    PROVE  \E f : /\ \A p \in 1 .. Len(l) + 1 : f[p] = ParseFrom(l, p, f)
                  /\ \A p \in 1 .. Len(l) + 1 : ParseLine(l, p) = f[p]
  <1> DEFINE N == Len(l) + 1
             R == Sentences(Len(l))
             F(t) == [k \in 1 .. N |-> ParseFrom(l, k, t)]
             c == CHOOSE t : t = F(t)
             g == [k \in 1 .. N |-> [x \in Rows(N, R) |-> ParseFrom(l, k, x)]]
  <1>0. N \in Nat
    BY StringIs
  <1>1. \A p \in 1 .. N : ParseLine(l, p) = c[p]
    BY DEF ParseLine
  <1>2. Error \in R
    BY DEF Sentences
  <1>3. ASSUME NEW k \in 1 .. N, NEW x \in Rows(N, R) PROVE ParseFrom(l, k, x) \in R
    <2>1. \A j \in k + 1 .. Len(l) + 1 : x[j] \in Sentences(Len(l))
      BY <1>0 DEF Rows
    <2>. QED BY <2>1, ParseFromType
  <1>4. g \in Rules(N, R)
    BY <1>3 DEF Rules
  <1>5. RestsOnLater(g, N, R)
    <2> SUFFICES ASSUME NEW k \in 1 .. N, NEW x \in Rows(N, R), NEW y \in Rows(N, R),
                        \A j \in k + 1 .. N : x[j] = y[j]
                 PROVE  ParseFrom(l, k, x) = ParseFrom(l, k, y)
      BY DEF RestsOnLater
    <2> HIDE DEF R
    <2>. QED BY ParseFromLater
  <1>6. PICK f \in Rows(N, R) : \A k \in 1 .. N : f[k] = g[k][f]
    <2> HIDE DEF R, g, N
    <2>. QED BY <1>0, <1>2, <1>4, <1>5, Backward
  <1>7. f = F(f)
    BY <1>6 DEF Rows
  <1>8. c = F(c)
    <2> HIDE DEF F
    <2>. QED BY <1>7
  <1> HIDE DEF c, g, R
  <1>9. \A p \in 1 .. N : c[p] = ParseFrom(l, p, c)
    BY <1>8
  <1>. QED BY <1>1, <1>9

\* What msh_parse_line returns from p: it goes on behind p if at all, has
\* written one more than it passed at the most, and nothing only at the end.
SentencesFrom(l, p) ==
    {r \in Sentences(Len(l)) :
        ~r.error => /\ r.next # 0 => p < r.next
                    /\ p <= Len(l) => r.buf # <<>>
                    /\ r.buf # <<>> => /\ r.buf[Len(r.buf)] = NUL
                                       /\ Len(r.buf) <= Len(l) - Skip(l, p) + 2}

LEMMA ParseFromIs ==
    ASSUME NEW l \in Strings, NEW p \in 1 .. Len(l) + 1, NEW f,
           \A j \in p + 1 .. Len(l) + 1 : f[j] \in SentencesFrom(l, j)
    PROVE  ParseFrom(l, p, f) \in SentencesFrom(l, p)
  <1> DEFINE n == Len(l)
             q == Skip(l, p)
             t == ReadToken(l)[q][NUL]
             a == IF t.pos = q THEN <<>> ELSE <<t.word>>
             b == Terminated(t.word)
             r == ParseFrom(l, p, f)
  <1>0. n \in Nat
    BY StringIs
  <1>1. /\ q \in p .. n + 1
        /\ ~t.error => /\ q <= t.pos /\ t.pos \in 1 .. n + 1 /\ t.word \in Seq(Char)
                       /\ Len(t.word) \in Nat /\ Len(t.word) <= t.pos - q
        /\ ~t.error /\ t.pos <= n /\ l[t.pos] # Sep => q < t.pos /\ l[t.pos] = Space
    BY WordAhead
  <1>2. \A j \in p + 1 .. n + 1 : f[j] \in Sentences(n)
    BY DEF SentencesFrom
  <1>3. r \in Sentences(n)
    BY <1>2, ParseFromType
  <1>4. r = IF p > n THEN Parsed(0, <<>>, <<>>)
            ELSE IF t.error THEN Error
            ELSE IF t.pos > n THEN Parsed(0, a, b)
            ELSE IF l[t.pos] = Sep THEN Parsed(t.pos + 1, a, b)
            ELSE Followed(a, b, f[t.pos])
    BY DEF ParseFrom
  <1> HIDE DEF n, q, t, r, a
  <1>5. CASE p > n
    <2>1. r = Parsed(0, <<>>, <<>>)
      BY <1>4, <1>5
    <2>2. r.next = 0 /\ r.buf = <<>>
      BY <2>1 DEF Parsed
    <2>. QED BY <2>2, <1>3, <1>5 DEF SentencesFrom, n, r
  <1>6. CASE p <= n /\ t.error
    <2>1. r.error
      BY <1>4, <1>6, <1>0 DEF Error
    <2>. QED BY <2>1, <1>3 DEF SentencesFrom, n, r
  <1>7. CASE p <= n /\ ~t.error
    <2>1. /\ b \in Seq(Char \cup {NUL}) /\ Len(b) = Len(t.word) + 1 /\ b[Len(b)] = NUL /\ b # <<>>
          /\ Len(b) \in Nat /\ Len(b) <= t.pos - q + 1
      <3>1. b \in Seq(Char \cup {NUL}) /\ Len(b) = Len(t.word) + 1 /\ b[Len(t.word) + 1] = NUL
        BY <1>1, <1>7, TerminatedIs
      <3>2. Len(b) # 0 /\ Len(b) \in Nat /\ Len(b) <= t.pos - q + 1
        BY <3>1, <1>1, <1>7, <1>0
      <3>. QED BY <3>1, <3>2
    <2>2. a \in Seq(Seq(Char))
      BY <1>1, <1>7 DEF a
    <2> HIDE DEF b
    <2>3. CASE t.pos > n
      <3>1. r = Parsed(0, a, b)
        BY <1>4, <1>7, <2>3, <1>0
      <3>2. r.next = 0 /\ r.buf = b
        BY <3>1 DEF Parsed
      <3>3. Len(b) <= n - q + 2
        BY <1>0, <1>1, <1>7, <2>1
      <3>. QED BY <3>2, <3>3, <2>1, <1>3 DEF SentencesFrom, n, r, q
    <2>4. CASE t.pos <= n /\ l[t.pos] = Sep
      <3>1. r = Parsed(t.pos + 1, a, b)
        BY <1>1, <1>4, <1>7, <2>4, <1>0
      <3>2. r.next = t.pos + 1 /\ r.buf = b
        BY <3>1 DEF Parsed
      <3>3. Len(b) <= n - q + 2 /\ p < t.pos + 1
        BY <1>0, <1>1, <1>7, <2>1, <2>4
      <3>. QED BY <3>2, <3>3, <2>1, <1>3 DEF SentencesFrom, n, r, q
    <2>5. CASE t.pos <= n /\ l[t.pos] # Sep
      <3> DEFINE x == f[t.pos]
      <3>1. r = Followed(a, b, x)
        BY <1>1, <1>4, <1>7, <2>5, <1>0
      <3>2. t.pos \in p + 1 .. n + 1 /\ l[t.pos] = Space /\ t.pos \in 1 .. n + 1 /\ q < t.pos
        BY <1>0, <1>1, <1>7, <2>5
      <3>3. x \in SentencesFrom(l, t.pos) /\ x \in Sentences(n)
        BY <3>2 DEF SentencesFrom, n
      <3> HIDE DEF x
      <3>4. Skip(l, t.pos) > t.pos /\ Skip(l, t.pos) \in Nat
        <4>1. Skip(l, t.pos) > t.pos /\ Skip(l, t.pos) \in t.pos .. n + 1
          BY <3>2, <2>5, SkipIs DEF n
        <4>. QED BY <4>1, <3>2
      <3>5. CASE x.error
        <4>1. r.error
          BY <3>1, <3>5 DEF Followed
        <4>. QED BY <4>1, <1>3 DEF SentencesFrom, n, r
      <3>6. CASE ~x.error
        <4> DEFINE y == Followed(a, b, x)
        <4>0. y.next = x.next /\ y.buf = b \o x.buf
          <5>1. b \in Seq(Char \cup {NUL})
            BY <2>1
          <5>. QED BY <5>1, <3>3, <3>6, <2>2, <1>0, FollowedIs
        <4>1. r.next = x.next /\ r.buf = b \o x.buf
          BY <4>0, <3>1
        <4> HIDE DEF y
        <4>2. /\ x.next \in Nat /\ x.buf \in Seq(Char \cup {NUL}) /\ Len(x.buf) \in Nat
          BY <3>3, <3>6, <1>0, SentenceFields
        <4>3. /\ x.next # 0 => t.pos < x.next
              /\ x.buf # <<>>
              /\ x.buf[Len(x.buf)] = NUL
              /\ Len(x.buf) <= n - Skip(l, t.pos) + 2
          BY <3>3, <3>6, <2>5 DEF SentencesFrom, n
        <4>4. r.next # 0 => p < r.next
          BY <4>1, <4>2, <4>3, <3>2, <1>0
        <4>5. Len(r.buf) = Len(b) + Len(x.buf) /\ Len(x.buf) # 0
          <5> DEFINE z == x.buf
          <5>1. z \in Seq(Char \cup {NUL}) /\ z # <<>>
            BY <4>2, <4>3
          <5> HIDE DEF z
          <5>2. b \in Seq(Char \cup {NUL})
            BY <2>1
          <5>3. Len(b \o z) = Len(b) + Len(z) /\ Len(z) # 0
            BY <5>1, <5>2
          <5>. QED BY <5>3, <4>1 DEF z
        <4>6. Len(r.buf) <= n - q + 2 /\ Len(r.buf) # 0
          <5> DEFINE u == t.pos
                     v == Skip(l, u)
                     i == Len(b)
                     j == Len(x.buf)
          <5>1. /\ u \in Nat /\ v \in Nat /\ i \in Nat /\ j \in Nat /\ q \in Int /\ j # 0
                /\ i <= u - q + 1 /\ j <= n - v + 2 /\ v > u
            BY <4>2, <4>3, <4>5, <2>1, <3>2, <3>4, <1>0, <1>1
          <5>2. Len(r.buf) = i + j
            BY <4>5
          <5> HIDE DEF u, v, i, j
          <5>3. i + j <= n - q + 2 /\ i + j # 0
            BY <5>1, <1>0
          <5>. QED BY <5>2, <5>3
        <4>7. r.buf # <<>>
          BY <4>6
        <4>8. r.buf[Len(r.buf)] = NUL
          <5> DEFINE z == x.buf
          <5>1. z \in Seq(Char \cup {NUL}) /\ Len(z) \in Nat /\ Len(z) # 0 /\ z[Len(z)] = NUL
            BY <4>2, <4>3, <4>5
          <5> HIDE DEF z
          <5>2. (b \o z)[Len(b) + Len(z)] = z[Len(z)]
            BY <5>1, <2>1
          <5>. QED BY <5>1, <5>2, <4>1, <4>5 DEF z
        <4>. QED BY <4>4, <4>6, <4>7, <4>8, <1>3 DEF SentencesFrom, n, r, q
      <3>. QED BY <3>5, <3>6
    <2>. QED BY <2>3, <2>4, <2>5, <1>0, <1>1, <1>7
  <1>. QED BY <1>0, <1>5, <1>6, <1>7

\* Whatever is parsed, from wherever, is such a sentence.
LEMMA SentenceIs ==
    ASSUME NEW l \in Strings, NEW p \in 1 .. Len(l) + 1
    PROVE  ParseLine(l, p) \in SentencesFrom(l, p)
  <1> DEFINE N == Len(l) + 1
             B == {k \in 1 .. N : ParseLine(l, k) \in SentencesFrom(l, k)}
  <1>1. N \in Nat
    BY StringIs
  <1>2. PICK f : /\ \A k \in 1 .. N : f[k] = ParseFrom(l, k, f)
                 /\ \A k \in 1 .. N : ParseLine(l, k) = f[k]
    BY ParseLineIs
  <1>3. ASSUME NEW k \in 1 .. N, \A j \in k + 1 .. N : j \in B PROVE k \in B
    <2>1. \A j \in k + 1 .. Len(l) + 1 : f[j] \in SentencesFrom(l, j)
      BY <1>2, <1>3
    <2>2. ParseFrom(l, k, f) \in SentencesFrom(l, k)
      BY <2>1, ParseFromIs
    <2>. QED BY <1>2, <2>2
  <1>4. 1 .. N \subseteq B
    <2>1. \A k \in 1 .. N : (\A j \in k + 1 .. N : j \in B) => k \in B
      BY <1>3
    <2> HIDE DEF B, N
    <2>. QED BY <1>1, <2>1, DownInduction
  <1>. QED BY <1>4

\* How many entries of argv a sentence at p may write: each one behind the first
\* takes a character of a word and a space.
Entries(l, p) == {k \in Nat : k > 0 /\ 2 * (k - 1) <= Len(l) + 1 - Skip(l, p)}

\* Where the sentence goes on it does so at a space later in the line.
LEMMA ArgvGoesOn ==
    ASSUME NEW l \in Strings, NEW p \in 1 .. Len(l) + 1,
           NEW q, q = Skip(l, p), NEW t, t = ReadToken(l)[q][NUL],
           ~t.error, t.pos <= Len(l), l[t.pos] # Sep
    PROVE  /\ q \in p .. Len(l) + 1 /\ q < t.pos
           /\ t.pos \in p + 1 .. Len(l) + 1 /\ t.pos \in 1 .. Len(l) + 1
           /\ Skip(l, t.pos) \in t.pos + 1 .. Len(l) + 1
  <1> DEFINE n == Len(l)
  <1>0. n \in Nat
    BY StringIs
  <1>1. /\ q \in p .. n + 1 /\ t.pos \in 1 .. n + 1
        /\ q < t.pos /\ l[t.pos] = Space
    BY WordAhead
  <1>2. Skip(l, t.pos) \in t.pos .. n + 1 /\ Skip(l, t.pos) > t.pos
    BY <1>1, SkipIs
  <1>. QED BY <1>0, <1>1, <1>2

\* The number rests on what is written from later positions on, and keeps to its bound.
LEMMA ArgvFromIs ==
    ASSUME NEW l \in Strings, NEW p \in 1 .. Len(l) + 1,
           NEW f, \A j \in p + 1 .. Len(l) + 1 : f[j] \in Entries(l, j)
    PROVE  ArgvFrom(l, p, f) \in Entries(l, p)
  <1> DEFINE n == Len(l)
             q == Skip(l, p)
             t == ReadToken(l)[q][NUL]
             u == t.pos
             v == Skip(l, u)
             k == f[u]
             goesOn == p <= n /\ ~t.error /\ u <= n /\ l[u] # Sep
  <1>0. n \in Nat /\ q \in p .. n + 1
    BY StringIs, SkipIs
  <1>1. ArgvFrom(l, p, f) = IF goesOn THEN 1 + k ELSE 1
    BY DEF ArgvFrom
  <1>2. CASE goesOn
    <2>1. q < u /\ u \in p + 1 .. n + 1 /\ v \in u + 1 .. n + 1
      BY <1>2, ArgvGoesOn
    <2>2. k \in Nat /\ k > 0 /\ 2 * (k - 1) <= n + 1 - v
      BY <2>1 DEF Entries
    <2> HIDE DEF n, q, u, v, k, goesOn
    <2> DEFINE x == 1 + k
    <2>3. x \in Nat /\ x > 0 /\ 2 * (x - 1) <= n + 1 - q
      BY <1>0, <2>1, <2>2
    <2>4. ArgvFrom(l, p, f) = x
      BY <1>1, <1>2
    <2> HIDE DEF x
    <2>5. x \in Entries(l, p)
      BY <2>3 DEF Entries, n, q
    <2>. QED BY <2>4, <2>5
  <1>3. CASE ~goesOn
    <2> HIDE DEF n, q, u, v, k, goesOn
    <2>1. 2 * (1 - 1) <= n + 1 - q
      BY <1>0
    <2>. QED BY <1>1, <1>3, <2>1 DEF Entries, n, q
  <1>. QED BY <1>2, <1>3

LEMMA ArgvFromLater ==
    ASSUME NEW l \in Strings, NEW p \in 1 .. Len(l) + 1,
           NEW f, NEW h, \A j \in p + 1 .. Len(l) + 1 : f[j] = h[j]
    PROVE  ArgvFrom(l, p, f) = ArgvFrom(l, p, h)
  <1> DEFINE t == ReadToken(l)[Skip(l, p)][NUL]
             goesOn == p <= Len(l) /\ ~t.error /\ t.pos <= Len(l) /\ l[t.pos] # Sep
  <1>1. goesOn => f[t.pos] = h[t.pos]
    BY ArgvGoesOn
  <1>2. ArgvFrom(l, p, f) = IF goesOn THEN 1 + f[t.pos] ELSE 1
    BY DEF ArgvFrom
  <1>3. ArgvFrom(l, p, h) = IF goesOn THEN 1 + h[t.pos] ELSE 1
    BY DEF ArgvFrom
  <1>. QED BY <1>1, <1>2, <1>3

LEMMA ArgvFromType ==
    ASSUME NEW l \in Strings, NEW p \in 1 .. Len(l) + 1,
           NEW f, \A j \in p + 1 .. Len(l) + 1 : f[j] \in Nat
    PROVE  ArgvFrom(l, p, f) \in Nat
  <1> DEFINE t == ReadToken(l)[Skip(l, p)][NUL]
             goesOn == p <= Len(l) /\ ~t.error /\ t.pos <= Len(l) /\ l[t.pos] # Sep
  <1>1. goesOn => f[t.pos] \in Nat
    BY ArgvGoesOn
  <1>2. ArgvFrom(l, p, f) = IF goesOn THEN 1 + f[t.pos] ELSE 1
    BY DEF ArgvFrom
  <1> HIDE DEF goesOn
  <1>. QED BY <1>1, <1>2

LEMMA ArgvWrittenIs ==
    ASSUME NEW l \in Strings
    PROVE  \E f : /\ \A p \in 1 .. Len(l) + 1 : f[p] = ArgvFrom(l, p, f)
                  /\ \A p \in 1 .. Len(l) + 1 : ArgvWritten(l, p) = f[p]
  <1> DEFINE N == Len(l) + 1
             F(t) == [k \in 1 .. N |-> ArgvFrom(l, k, t)]
             c == CHOOSE t : t = F(t)
             g == [k \in 1 .. N |-> [x \in Rows(N, Nat) |-> ArgvFrom(l, k, x)]]
  <1>0. N \in Nat /\ 0 \in Nat
    BY StringIs
  <1>1. \A p \in 1 .. N : ArgvWritten(l, p) = c[p]
    BY DEF ArgvWritten
  <1>2. ASSUME NEW k \in 1 .. N, NEW x \in Rows(N, Nat) PROVE ArgvFrom(l, k, x) \in Nat
    <2>1. \A j \in k + 1 .. Len(l) + 1 : x[j] \in Nat
      BY <1>0 DEF Rows
    <2>. QED BY <2>1, ArgvFromType
  <1>3. g \in Rules(N, Nat)
    BY <1>2 DEF Rules
  <1>4. RestsOnLater(g, N, Nat)
    <2> SUFFICES ASSUME NEW k \in 1 .. N, NEW x \in Rows(N, Nat), NEW y \in Rows(N, Nat),
                        \A j \in k + 1 .. N : x[j] = y[j]
                 PROVE  ArgvFrom(l, k, x) = ArgvFrom(l, k, y)
      BY DEF RestsOnLater
    <2>. QED BY ArgvFromLater
  <1>5. PICK f \in Rows(N, Nat) : \A k \in 1 .. N : f[k] = g[k][f]
    <2> HIDE DEF g, N
    <2>. QED BY <1>0, <1>3, <1>4, Backward
  <1>6. f = F(f)
    BY <1>5 DEF Rows
  <1>7. c = F(c)
    <2> HIDE DEF F
    <2>. QED BY <1>6
  <1> HIDE DEF c, g
  <1>8. \A p \in 1 .. N : c[p] = ArgvFrom(l, p, c)
    BY <1>7
  <1>. QED BY <1>1, <1>8

\* A sentence writes at least one entry, and no more than a line has room for.
LEMMA ArgvIs ==
    ASSUME NEW l \in Strings, NEW p \in 1 .. Len(l) + 1
    PROVE  /\ ArgvWritten(l, p) \in Nat
           /\ 2 * (ArgvWritten(l, p) - 1) <= Len(l)
  <1> DEFINE N == Len(l) + 1
             B == {k \in 1 .. N : ArgvWritten(l, k) \in Entries(l, k)}
  <1>1. N \in Nat /\ Len(l) \in Nat
    BY StringIs
  <1>2. PICK f : /\ \A k \in 1 .. N : f[k] = ArgvFrom(l, k, f)
                 /\ \A k \in 1 .. N : ArgvWritten(l, k) = f[k]
    BY ArgvWrittenIs
  <1>3. ASSUME NEW k \in 1 .. N, \A j \in k + 1 .. N : j \in B PROVE k \in B
    <2>1. \A j \in k + 1 .. Len(l) + 1 : f[j] \in Entries(l, j)
      BY <1>2, <1>3
    <2>2. ArgvFrom(l, k, f) \in Entries(l, k)
      BY <2>1, ArgvFromIs
    <2>. QED BY <1>2, <2>2
  <1>4. 1 .. N \subseteq B
    <2>1. \A k \in 1 .. N : (\A j \in k + 1 .. N : j \in B) => k \in B
      BY <1>3
    <2> HIDE DEF B, N
    <2>. QED BY <1>1, <2>1, DownInduction
  <1> DEFINE a == ArgvWritten(l, p)
             q == Skip(l, p)
             n == Len(l)
  <1>5. a \in Nat /\ 2 * (a - 1) <= n + 1 - q
    BY <1>4 DEF Entries
  <1>6. q \in p .. n + 1 /\ p \in 1 .. n + 1 /\ n \in Nat
    BY <1>1, SkipIs
  <1> HIDE DEF a, q, n
  <1>7. 2 * (a - 1) <= n
    BY <1>5, <1>6
  <1>. QED BY <1>5, <1>7 DEF a, n

-----------------------------------------------------------------------------
(* The shell                                                               *)

\* argv[0] is read where a null was written.
LEMMA NameIs ==
    ASSUME NEW b \in Seq(Char \cup {NUL}), b # <<>>, b[Len(b)] = NUL
    PROVE  Name(b) \in Seq(Char)
  <1> DEFINE n == Len(b)
             T == {i \in 1 .. n : b[i] = NUL}
             Ends(i) == b[i] = NUL /\ \A j \in 1 .. i - 1 : b[j] # NUL
             e == CHOOSE i \in DOMAIN b : Ends(i)
  <1>1. n \in Nat /\ n # 0 /\ DOMAIN b = 1 .. n /\ \A k \in 1 .. n : b[k] \in Char \cup {NUL}
    OBVIOUS
  <1>2. PICK i \in T : \A j \in T : i <= j
    <2>1. n \in T /\ T \subseteq Nat /\ T # {}
      BY <1>1
    <2> HIDE DEF T
    <2>. QED BY <2>1, NatLeast
  <1>3. Ends(i) /\ i \in DOMAIN b
    <2>1. ASSUME NEW j \in 1 .. i - 1 PROVE b[j] # NUL
      <3>1. j \in 1 .. n /\ ~(i <= j)
        BY <1>1, <1>2
      <3>. QED BY <3>1, <1>2
    <2>. QED BY <2>1, <1>1, <1>2
  <1>4. Ends(e) /\ e \in DOMAIN b
    <2> HIDE DEF Ends
    <2>. QED BY <1>3
  <1>5. Name(b) = SubSeq(b, 1, e - 1)
    BY DEF Name
  <1> HIDE DEF e
  <1>6. /\ e \in 1 .. n /\ e - 1 \in 0 .. n
        /\ \A k \in 1 .. e - 1 : b[k] \in Char
    BY <1>1, <1>4
  <1>7. Name(b) = [k \in 1 .. e - 1 |-> b[k]]
    BY <1>1, <1>5, <1>6
  <1>8. Name(b) \in [1 .. e - 1 -> Char]
    BY <1>6, <1>7
  <1>. QED BY <1>6, <1>8

\* What argbuf holds is a line's words, the last one with its null; it has been
\* written whenever another sentence than the first is parsed.
ArgbufWritten ==
    /\ argbuf # <<>> => argbuf[Len(argbuf)] = NUL
    /\ mode = "run" => line # <<>> /\ (at > 1 => argbuf # <<>>)
    /\ mode = "read" => at = 1

ShellInv == ShellTypeOK /\ ArgbufFits /\ ArgbufWritten

LEMMA InitShellInv == ShellInit => ShellInv
  <1> SUFFICES ASSUME ShellInit PROVE ShellInv
    OBVIOUS
  <1>. QED BY EmptyIsString, CliAssumption DEF ShellInit, ShellInv, ShellTypeOK, ArgbufFits, ArgbufWritten

\* A parse of the rest of the line: argbuf holds what was written, and the line
\* goes on behind the place the parse began at, if it does.
LEMMA ParseWrites ==
    ASSUME ShellInv, mode = "run", NEW p, p = ParseLine(line, at), ~p.error
    PROVE  /\ Written(p) \in Seq(Char \cup {NUL}) /\ Len(Written(p)) <= CharMax
           /\ Written(p) # <<>> /\ Written(p)[Len(Written(p))] = NUL
           /\ p.args \in Seq(Seq(Char))
           /\ p.next # 0 => p.next \in 1 .. Len(line) + 1 /\ at < p.next
  <1> DEFINE n == Len(line)
  <1>1. /\ line \in Strings /\ at \in 1 .. n + 1 /\ argbuf \in Seq(Char \cup {NUL})
        /\ Len(argbuf) <= CharMax
        /\ line # <<>> /\ (at > 1 => argbuf # <<>>)
        /\ argbuf # <<>> => argbuf[Len(argbuf)] = NUL
    BY DEF ShellInv, ShellTypeOK, ArgbufFits, ArgbufWritten
  <1>2. n \in 0 .. CharMax - 1 /\ n \in Nat /\ n # 0 /\ CharMax \in Nat
    BY <1>1, StringIs, CliAssumption
  <1>3. p \in SentencesFrom(line, at)
    BY <1>1, SentenceIs
  <1>4. p \in Sentences(n)
    BY <1>3 DEF SentencesFrom
  <1>5. /\ p.next \in {0} \cup 2 .. n + 1 /\ p.args \in Seq(Seq(Char))
        /\ p.buf \in Seq(Char \cup {NUL}) /\ Len(p.buf) \in Nat
    BY <1>2, <1>4, SentenceFields
  <1>6. /\ p.next # 0 => at < p.next
        /\ at <= n => p.buf # <<>>
        /\ p.buf # <<>> => p.buf[Len(p.buf)] = NUL /\ Len(p.buf) <= n - Skip(line, at) + 2
    BY <1>3 DEF SentencesFrom
  <1>7. Skip(line, at) \in Nat /\ Skip(line, at) >= 1
    <2>1. Skip(line, at) \in at .. n + 1
      BY <1>1, SkipIs
    <2>. QED BY <2>1, <1>1, <1>2
  <1>8. p.buf # <<>> => Len(p.buf) <= CharMax
    BY <1>2, <1>5, <1>6, <1>7
  <1>9. p.buf = <<>> => at > 1
    BY <1>1, <1>2, <1>6
  <1>10. p.next # 0 => p.next \in 1 .. n + 1
    BY <1>2, <1>5
  <1>. QED BY <1>1, <1>5, <1>6, <1>8, <1>9, <1>10 DEF Written

LEMMA NextShellInv == ShellInv /\ [ShellNext]_shellVars => ShellInv'
  <1> SUFFICES ASSUME ShellInv, [ShellNext]_shellVars PROVE ShellInv'
    OBVIOUS
  <1> USE DEF ShellInv
  <1>1. CASE \E l \in Strings : GetLine(l)
    <2> PICK l \in Strings : GetLine(l)
      BY <1>1
    <2>1. Len(l) \in Nat
      BY StringIs
    <2>. QED BY <2>1 DEF GetLine, ShellTypeOK, ArgbufFits, ArgbufWritten
  <1>2. CASE SyntaxError
    BY <1>2 DEF SyntaxError, ShellTypeOK, ArgbufFits, ArgbufWritten
  <1>3. CASE EmptySentence
    <2> DEFINE p == ParseLine(line, at)
               w == Written(p)
    <2>1. mode = "run" /\ ~p.error
      BY <1>3 DEF EmptySentence
    <2>2. /\ w \in Seq(Char \cup {NUL}) /\ Len(w) <= CharMax
          /\ w # <<>> /\ w[Len(w)] = NUL
      BY <2>1, ParseWrites
    <2>3. mode' = "done" /\ argbuf' = w /\ UNCHANGED <<line, at, ran, missing>>
      BY <1>3 DEF EmptySentence
    <2> HIDE DEF w
    <2>. QED BY <2>2, <2>3 DEF ShellTypeOK, ArgbufFits, ArgbufWritten
  <1>4. CASE \E r \in Results : RunSentence(r)
    <2> DEFINE p == ParseLine(line, at)
               w == Written(p)
    <2>1. mode = "run" /\ ~p.error
      BY <1>4 DEF RunSentence
    <2>2. /\ w \in Seq(Char \cup {NUL}) /\ Len(w) <= CharMax
          /\ w # <<>> /\ w[Len(w)] = NUL
          /\ p.args \in Seq(Seq(Char))
          /\ p.next # 0 => p.next \in 1 .. Len(line) + 1 /\ at < p.next
      BY <2>1, ParseWrites
    <2>3. /\ argbuf' = w /\ ran' = ran \o LookedUp(p.args)
          /\ missing' \subseteq missing \cup {Name(w)}
          /\ \/ p.next = 0 /\ mode' = "done" /\ at' = at
             \/ p.next # 0 /\ mode' = "run" /\ at' = p.next
          /\ line' = line
      BY <1>4, <2>1 DEF RunSentence
    <2>4. Name(w) \in Seq(Char)
      BY <2>2, NameIs
    <2>5. ran' \in Seq(Seq(Seq(Char)) \ {<<>>})
      <3>1. LookedUp(p.args) \in Seq(Seq(Seq(Char)) \ {<<>>})
        <4> DEFINE X == Seq(Seq(Char)) \ {<<>>}
        <4>1. p.args # <<>> => p.args \in X
          BY <2>2
        <4> HIDE DEF X
        <4>2. LookedUp(p.args) \in Seq(X)
          BY <4>1 DEF LookedUp
        <4>. QED BY <4>2 DEF X
      <3>. QED BY <3>1, <2>3 DEF ShellTypeOK
    <2> HIDE DEF w, p
    <2>6. missing' \subseteq Seq(Char)
      BY <2>3, <2>4 DEF ShellTypeOK
    <2>7. at' \in 1 .. Len(line') + 1 /\ mode' \in {"run", "done"}
      BY <2>2, <2>3 DEF ShellTypeOK
    <2>8. ShellTypeOK'
      BY <2>2, <2>3, <2>5, <2>6, <2>7 DEF ShellTypeOK
    <2>9. ArgbufWritten'
      BY <2>1, <2>2, <2>3 DEF ArgbufWritten
    <2>. QED BY <2>2, <2>3, <2>8, <2>9 DEF ArgbufFits
  <1>5. CASE NextLine
    BY <1>5, EmptyIsString, CliAssumption DEF NextLine, ShellTypeOK, ArgbufFits, ArgbufWritten
  <1>6. CASE Overrun
    BY <1>6 DEF Overrun, ShellTypeOK, ArgbufFits, ArgbufWritten
  <1>7. CASE UNCHANGED shellVars
    BY <1>7 DEF shellVars, ShellTypeOK, ArgbufFits, ArgbufWritten
  <1>. QED BY <1>1, <1>2, <1>3, <1>4, <1>5, <1>6, <1>7 DEF ShellNext

LEMMA ShellSpecInv == ShellSpec => []ShellInv
  BY InitShellInv, NextShellInv, PTL DEF ShellSpec

\* Whatever is typed, the shell's variables keep their types: what is left to
\* parse lies in the line, and nothing without a name is looked up.
THEOREM ShellTypeCorrect == ShellSpec => []ShellTypeOK
  BY ShellSpecInv, PTL DEF ShellInv

\* The words of any sentence, with the null behind each of them, fit in argvbuf,
\* which is as long as a line: no word is copied behind its end, however the
\* line is quoted, escaped and spaced.
THEOREM ArgbufFitsCorrect == ShellSpec => []ArgbufFits
  BY ShellSpecInv, PTL DEF ShellInv

\* argv[0] of whatever parses has been written, by this parse or, at the end of a
\* line, by an earlier one of the same line.
NameWritten ==
    mode = "run" /\ ~ParseLine(line, at).error
    => Written(ParseLine(line, at)) # <<>> /\ Name(Written(ParseLine(line, at))) \in Seq(Char)

\* The shell never reads argv[0] out of an argvbuf nobody has written.
THEOREM NameAlwaysWritten == ShellSpec => []NameWritten
  <1>1. ShellInv => NameWritten
    BY ParseWrites, NameIs DEF NameWritten
  <1>. QED BY <1>1, ShellSpecInv, PTL

\* The loop over the sentences of a line ends: each one but the last moves on.
THEOREM SentencesAdvance ==
    ShellSpec => [][mode = "run" /\ mode' = "run" => at < at' /\ at' <= Len(line) + 1]_shellVars
  <1>1. ShellInv /\ [ShellNext]_shellVars
            => [mode = "run" /\ mode' = "run" => at < at' /\ at' <= Len(line) + 1]_shellVars
    <2> SUFFICES ASSUME ShellInv, ShellNext, mode = "run", mode' = "run"
                 PROVE  at < at' /\ at' <= Len(line) + 1
      OBVIOUS
    <2> DEFINE p == ParseLine(line, at)
    <2>1. ~p.error /\ p.next # 0 /\ at' = p.next
      BY DEF ShellNext, GetLine, SyntaxError, EmptySentence, RunSentence, Overrun, NextLine
    <2>2. p.next \in 1 .. Len(line) + 1 /\ at < p.next
      BY <2>1, ParseWrites
    <2>. QED BY <2>1, <2>2
  <1>. QED BY <1>1, ShellSpecInv, PTL DEF ShellSpec

-----------------------------------------------------------------------------
(* The elements of a sequence at a set of positions                        *)

\* Reference!InOrder from the position p on
OrderFrom(f, S, p) ==
    LET n == Len(f)
        from[i \in 1 .. n + 1] ==
            IF i > n THEN <<>>
            ELSE IF i \in S THEN <<f[i]>> \o from[i + 1] ELSE from[i + 1]
    IN  from[p]

\* s with x in front
Put(x, s) == <<x>> \o s

LEMMA OrderFromIs ==
    ASSUME NEW V, NEW f \in Seq(V), NEW S, NEW p \in 1 .. Len(f) + 1
    PROVE  /\ OrderFrom(f, S, p) \in Seq(V)
           /\ OrderFrom(f, S, p) =
                IF p > Len(f) THEN <<>>
                ELSE IF p \in S THEN Put(f[p], OrderFrom(f, S, p + 1)) ELSE OrderFrom(f, S, p + 1)
  <1> DEFINE n == Len(f)
             N == n + 1
             R == Seq(V)
             G(i, x) == IF i > n THEN <<>>
                        ELSE IF i \in S THEN Put(f[i], x[i + 1]) ELSE x[i + 1]
             F(t) == [i \in 1 .. N |-> G(i, t)]
             c == CHOOSE t : t = F(t)
             d == <<>>
             g == [i \in 1 .. N |-> [x \in Rows(N, R) |-> G(i, x)]]
  <1>0. n \in Nat /\ N \in Nat /\ \A i \in 1 .. n : f[i] \in V
    OBVIOUS
  <1>1. \A i : OrderFrom(f, S, i) = c[i]
    BY DEF OrderFrom, Put
  <1>2. d \in R
    OBVIOUS
  <1>3. ASSUME NEW i \in 1 .. N, NEW x \in Rows(N, R) PROVE G(i, x) \in R
    <2>1. CASE i > n
      BY <2>1
    <2>2. CASE i <= n
      <3>1. i + 1 \in 1 .. N /\ <<f[i]>> \in R
        BY <1>0, <2>2
      <3>2. x[i + 1] \in R
        BY <3>1 DEF Rows
      <3> DEFINE y == x[i + 1]
      <3> HIDE DEF y
      <3>3. Put(f[i], y) \in R
        BY <3>1, <3>2 DEF y, Put
      <3>4. G(i, x) \in {Put(f[i], y), y}
        BY <2>2, <1>0 DEF y
      <3>. QED BY <3>2, <3>3, <3>4 DEF y
    <2>. QED BY <1>0, <2>1, <2>2
  <1>4. ASSUME NEW i \in 1 .. N, NEW x \in Rows(N, R), NEW y \in Rows(N, R),
               \A j \in i + 1 .. N : x[j] = y[j]
        PROVE  G(i, x) = G(i, y)
    <2>1. i <= n => x[i + 1] = y[i + 1]
      <3>1. i <= n => i + 1 \in i + 1 .. N
        BY <1>0
      <3>. QED BY <3>1, <1>4
    <2>. QED BY <1>0, <2>1
  <1> HIDE DEF G
  <1>5. g \in [1 .. N -> [Rows(N, R) -> R]]
    BY <1>3
  <1>6. PICK t \in Rows(N, R) : \A i \in 1 .. N : t[i] = g[i][t]
    <2>1. RestsOnLater(g, N, R)
      BY <1>4 DEF RestsOnLater
    <2>2. g \in Rules(N, R)
      BY <1>5 DEF Rules
    <2> HIDE DEF R, d, g, N
    <2>. QED BY <1>0, <1>2, <2>1, <2>2, Backward
  <1>7. t = F(t)
    BY <1>6 DEF Rows
  <1>8. c = F(c)
    <2> HIDE DEF F
    <2>. QED BY <1>7
  <1> HIDE DEF c, g, d
  <1>9. \A i \in 1 .. N : c[i] = G(i, c)
    BY <1>8
  <1>10. \A i \in 1 .. N : c[i] \in R
    <2> DEFINE B == {i \in 1 .. N : c[i] \in R}
    <2>1. ASSUME NEW i \in 1 .. N, \A j \in i + 1 .. N : j \in B PROVE i \in B
      <3> DEFINE x == [k \in 1 .. N |-> IF k \in i + 1 .. N THEN c[k] ELSE <<>>]
      <3>1. x \in Rows(N, R)
        BY <2>1 DEF Rows
      <3>2. G(i, x) = G(i, c)
        <4>1. i <= n => i + 1 \in i + 1 .. N
          BY <1>0
        <4>2. i <= n => x[i + 1] = c[i + 1]
          BY <4>1
        <4>. QED BY <1>0, <4>2 DEF G
      <3>3. G(i, x) \in R
        BY <3>1, <1>3
      <3>. QED BY <3>2, <3>3, <1>9
    <2>2. 1 .. N \subseteq B
      <3>1. \A i \in 1 .. N : (\A j \in i + 1 .. N : j \in B) => i \in B
        BY <2>1
      <3> HIDE DEF B, N
      <3>. QED BY <1>0, <3>1, DownInduction
    <2>. QED BY <2>2
  <1>. QED BY <1>1, <1>9, <1>10 DEF G

LEMMA OrderEnds ==
    ASSUME NEW V, NEW f \in Seq(V), NEW S
    PROVE  OrderFrom(f, S, Len(f) + 1) = <<>>
  <1>1. Len(f) + 1 \in 1 .. Len(f) + 1 /\ Len(f) + 1 > Len(f)
    OBVIOUS
  <1>. QED BY <1>1, OrderFromIs

LEMMA OrderSkips ==
    ASSUME NEW V, NEW f \in Seq(V), NEW S, NEW p \in 1 .. Len(f), p \notin S
    PROVE  OrderFrom(f, S, p) = OrderFrom(f, S, p + 1)
  <1>1. p \in 1 .. Len(f) + 1 /\ ~(p > Len(f))
    OBVIOUS
  <1>. QED BY <1>1, OrderFromIs

LEMMA OrderTakes ==
    ASSUME NEW V, NEW f \in Seq(V), NEW S, NEW p \in 1 .. Len(f), p \in S
    PROVE  OrderFrom(f, S, p) = Put(f[p], OrderFrom(f, S, p + 1))
  <1>1. p \in 1 .. Len(f) + 1 /\ ~(p > Len(f))
    OBVIOUS
  <1>. QED BY <1>1, OrderFromIs

LEMMA InOrderIs ==
    ASSUME NEW V, NEW f \in Seq(V), NEW S
    PROVE  Reference!InOrder(f, S) = OrderFrom(f, S, 1) /\ Reference!InOrder(f, S) \in Seq(V)
  <1>1. Reference!InOrder(f, S) = OrderFrom(f, S, 1)
    BY DEF Reference!InOrder, OrderFrom
  <1>2. 1 \in 1 .. Len(f) + 1
    OBVIOUS
  <1>. QED BY <1>1, <1>2, OrderFromIs

\* Positions outside S are passed over.
LEMMA OrderPasses ==
    ASSUME NEW V, NEW f \in Seq(V), NEW S, NEW q \in 1 .. Len(f) + 1, NEW p \in 1 .. q,
           \A i \in p .. q - 1 : i \notin S
    PROVE  OrderFrom(f, S, p) = OrderFrom(f, S, q)
  <1> DEFINE B == {i \in 1 .. q : p <= i => OrderFrom(f, S, i) = OrderFrom(f, S, q)}
  <1>0. q \in Nat
    OBVIOUS
  <1>1. ASSUME NEW i \in 1 .. q, \A j \in i + 1 .. q : j \in B PROVE i \in B
    <2>1. CASE i = q \/ i < p
      BY <2>1
    <2>2. CASE i # q /\ p <= i
      <3>1. i + 1 \in B /\ i \in p .. q - 1 /\ i \in 1 .. Len(f) /\ p <= i + 1
        BY <2>2, <1>1
      <3>2. i \notin S
        BY <3>1
      <3>3. OrderFrom(f, S, i) = OrderFrom(f, S, i + 1)
        BY <3>1, <3>2, OrderSkips
      <3>. QED BY <3>1, <3>3
    <2>. QED BY <2>1, <2>2
  <1>2. 1 .. q \subseteq B
    <2>1. \A i \in 1 .. q : (\A j \in i + 1 .. q : j \in B) => i \in B
      BY <1>1
    <2> HIDE DEF B
    <2>. QED BY <1>0, <2>1, DownInduction
  <1>. QED BY <1>2

LEMMA OrderNone ==
    ASSUME NEW V, NEW f \in Seq(V), NEW S, NEW p \in 1 .. Len(f) + 1,
           \A i \in p .. Len(f) : i \notin S
    PROVE  OrderFrom(f, S, p) = <<>>
  <1> DEFINE q == Len(f) + 1
  <1>1. q \in 1 .. Len(f) + 1 /\ p \in 1 .. q /\ \A i \in p .. q - 1 : i \notin S
    OBVIOUS
  <1>2. OrderFrom(f, S, q) = <<>>
    BY OrderEnds
  <1> HIDE DEF q
  <1>3. OrderFrom(f, S, p) = OrderFrom(f, S, q)
    BY <1>1, OrderPasses
  <1>. QED BY <1>2, <1>3

\* The first position of S gives the first element.
LEMMA OrderNext ==
    ASSUME NEW V, NEW f \in Seq(V), NEW S, NEW q \in 1 .. Len(f), q \in S, NEW p \in 1 .. q,
           \A i \in p .. q - 1 : i \notin S
    PROVE  OrderFrom(f, S, p) = Put(f[q], OrderFrom(f, S, q + 1))
  <1>1. q \in 1 .. Len(f) + 1
    OBVIOUS
  <1>2. OrderFrom(f, S, p) = OrderFrom(f, S, q)
    BY <1>1, OrderPasses
  <1>. QED BY <1>2, OrderTakes

\* Only what lies from p on counts.
LEMMA OrderSame ==
    ASSUME NEW V, NEW f \in Seq(V), NEW S, NEW T, NEW p \in 1 .. Len(f) + 1,
           \A i \in p .. Len(f) : i \in S <=> i \in T
    PROVE  OrderFrom(f, S, p) = OrderFrom(f, T, p)
  <1> DEFINE N == Len(f) + 1
             B == {i \in 1 .. N : p <= i => OrderFrom(f, S, i) = OrderFrom(f, T, i)}
  <1>0. N \in Nat
    OBVIOUS
  <1>1. ASSUME NEW i \in 1 .. N, \A j \in i + 1 .. N : j \in B PROVE i \in B
    <2>1. CASE i < p
      BY <2>1
    <2>2. CASE i = N
      <3>1. OrderFrom(f, S, i) = <<>> /\ OrderFrom(f, T, i) = <<>>
        BY <2>2, OrderEnds
      <3>. QED BY <3>1
    <2>3. CASE i # N /\ p <= i
      <3>1. i + 1 \in B /\ p <= i + 1 /\ i \in p .. Len(f) /\ i \in 1 .. Len(f)
        BY <2>3, <1>1
      <3>2. OrderFrom(f, S, i + 1) = OrderFrom(f, T, i + 1) /\ (i \in S <=> i \in T)
        BY <3>1
      <3>3. CASE i \in S
        <4>1. OrderFrom(f, S, i) = Put(f[i], OrderFrom(f, S, i + 1))
          BY <3>1, <3>3, OrderTakes
        <4>2. OrderFrom(f, T, i) = Put(f[i], OrderFrom(f, T, i + 1))
          BY <3>1, <3>2, <3>3, OrderTakes
        <4>. QED BY <3>2, <4>1, <4>2
      <3>4. CASE i \notin S
        <4>1. OrderFrom(f, S, i) = OrderFrom(f, S, i + 1)
          BY <3>1, <3>4, OrderSkips
        <4>2. OrderFrom(f, T, i) = OrderFrom(f, T, i + 1)
          BY <3>1, <3>2, <3>4, OrderSkips
        <4>. QED BY <3>2, <4>1, <4>2
      <3>. QED BY <3>3, <3>4
    <2>. QED BY <2>1, <2>2, <2>3
  <1>2. 1 .. N \subseteq B
    <2>1. \A i \in 1 .. N : (\A j \in i + 1 .. N : j \in B) => i \in B
      BY <1>1
    <2> HIDE DEF B, N
    <2>. QED BY <1>0, <2>1, DownInduction
  <1>. QED BY <1>2

-----------------------------------------------------------------------------
(* Quotes and escapes                                                      *)

\* What the character behind c is within, if c is within w
Behind(w, c) == IF w = {} THEN {c} \cap (Quotes \cup {Escape}) ELSE w \ {c, Escape}

\* The quotes and escapes of a line are found from its start on.
LEMMA WithinIs ==
    ASSUME NEW l \in Strings
    PROVE  /\ Reference!Within(l)[1] = {}
           /\ \A i \in 1 .. Len(l) : Reference!Within(l)[i + 1] = Behind(Reference!Within(l)[i], l[i])
  <1> DEFINE n == Len(l)
             S == SUBSET Char
             F(t) == [i \in 1 .. n + 1 |-> IF i = 1 THEN {} ELSE Behind(t[i - 1], l[i - 1])]
             c == CHOOSE t : t = F(t)
             h == [k \in 1 .. n |-> [w \in S |-> Behind(w, l[k])]]
             a == {}
  <1>0. n \in Nat /\ \A k \in 1 .. n : l[k] \in Char
    BY StringIs
  <1>1. Reference!Within(l) = c
    BY DEF Reference!Within, Behind
  <1>2. h \in [1 .. n -> [S -> S]]
    BY <1>0 DEF Behind
  <1>3. a \in S
    OBVIOUS
  <1>4. PICK t \in [0 .. n -> S] : t[0] = a /\ \A k \in 1 .. n : t[k] = h[k][t[k - 1]]
    <2>1. n \in Nat /\ h \in [1 .. n -> [S -> S]] /\ a \in S
      BY <1>0, <1>2, <1>3
    <2> HIDE DEF S, a, h, n, c, F
    <2>. QED BY <2>1, Iterates
  <1> DEFINE f == [i \in 1 .. n + 1 |-> t[i - 1]]
  <1>5. f = F(f)
    <2>1. ASSUME NEW i \in 1 .. n + 1, i # 1 PROVE f[i] = Behind(f[i - 1], l[i - 1])
      <3>1. i - 1 \in 1 .. n /\ i - 1 \in 1 .. n + 1 /\ i - 1 - 1 \in 0 .. n
        BY <1>0, <2>1
      <3>2. t[i - 1 - 1] \in S
        BY <1>4, <3>1
      <3>3. f[i] = h[i - 1][t[i - 1 - 1]]
        BY <1>4, <3>1
      <3>. QED BY <3>1, <3>2, <3>3
    <2>2. f[1] = {}
      BY <1>0, <1>4
    <2>3. \A i \in 1 .. n + 1 : f[i] = F(f)[i]
      <3> HIDE DEF f
      <3>. QED BY <2>1, <2>2
    <2> DEFINE u == F(f)
    <2>4. f = [i \in 1 .. n + 1 |-> f[i]] /\ u = [i \in 1 .. n + 1 |-> u[i]]
      OBVIOUS
    <2> HIDE DEF f, u
    <2>. QED BY <2>3, <2>4 DEF u
  <1>6. c = F(c)
    <2> HIDE DEF F, f
    <2>. QED BY <1>5
  <1> HIDE DEF c
  <1>7. c[1] = {}
    BY <1>0, <1>6
  <1>8. ASSUME NEW i \in 1 .. n PROVE c[i + 1] = Behind(c[i], l[i])
    <2>1. i + 1 \in 1 .. n + 1 /\ i + 1 # 1 /\ i + 1 - 1 = i
      BY <1>0
    <2>2. \A k \in 1 .. n + 1 : c[k] = IF k = 1 THEN {} ELSE Behind(c[k - 1], l[k - 1])
      BY <1>6
    <2> HIDE DEF n, F
    <2>. QED BY <2>1, <2>2
  <1>. QED BY <1>1, <1>7, <1>8

\* What a character is, by what it is within
LEMMA PlaceIs ==
    ASSUME NEW l \in Strings, NEW i \in 1 .. Len(l)
    PROVE  /\ i \in Reference!Breaks(l) <=> Reference!Within(l)[i] = {} /\ l[i] \in {Space, Sep}
           /\ i \in Reference!Seps(l) <=> Reference!Within(l)[i] = {} /\ l[i] = Sep
           /\ i \in Reference!Markers(l) <=>
                \/ Reference!Within(l)[i] = {} /\ l[i] \in Quotes \cup {Escape}
                \/ Reference!Within(l)[i] = {l[i]} /\ l[i] \in Quotes
  <1>1. i \in DOMAIN l
    BY StringIs
  <1>. QED BY <1>1 DEF Reference!Breaks, Reference!Seps, Reference!Plain, Reference!Markers

LEMMA PlacesInLine ==
    ASSUME NEW l \in Strings
    PROVE  /\ Reference!Breaks(l) \subseteq 1 .. Len(l)
           /\ Reference!Seps(l) \subseteq Reference!Breaks(l)
           /\ Reference!Markers(l) \subseteq 1 .. Len(l)
  <1>1. DOMAIN l = 1 .. Len(l)
    BY StringIs
  <1>. QED BY <1>1 DEF Reference!Breaks, Reference!Seps, Reference!Plain, Reference!Markers

-----------------------------------------------------------------------------
(* Words                                                                   *)

LEMMA StringSeq == ASSUME NEW l \in Strings PROVE l \in Seq(Char) /\ Len(l) \in Nat
  BY StringIs

\* The characters of a word from i on, as positions
InWord(l, i) ==
    {j \in i .. Len(l) : i .. j \cap Reference!Breaks(l) = {} /\ j \notin Reference!Markers(l)}

LEMMA WordFrom ==
    ASSUME NEW l \in Strings, NEW p \in 1 .. Len(l) + 1
    PROVE  /\ Reference!Word(l, p) = OrderFrom(l, InWord(l, p), p)
           /\ Reference!Word(l, p) \in Seq(Char)
  <1> DEFINE S == InWord(l, p)
  <1>0. l \in Seq(Char) /\ Len(l) \in Nat
    BY StringSeq
  <1>1. Reference!Word(l, p) = Reference!InOrder(l, S)
    BY DEF Reference!Word, InWord
  <1>2. \A i \in 1 .. p - 1 : i \notin S
    BY <1>0 DEF InWord
  <1> HIDE DEF S
  <1>3. Reference!InOrder(l, S) = OrderFrom(l, S, 1) /\ Reference!InOrder(l, S) \in Seq(Char)
    BY <1>0, InOrderIs
  <1>4. 1 \in 1 .. p
    BY <1>0
  <1>5. OrderFrom(l, S, 1) = OrderFrom(l, S, p)
    BY <1>0, <1>2, <1>4, OrderPasses
  <1>. QED BY <1>1, <1>3, <1>5 DEF S

\* A word ends where it breaks or with the line; a marker is no part of it, and
\* any other character is.
LEMMA WordStep ==
    ASSUME NEW l \in Strings, NEW p \in 1 .. Len(l) + 1
    PROVE  /\ p > Len(l) \/ p \in Reference!Breaks(l) => Reference!Word(l, p) = <<>>
           /\ p <= Len(l) /\ p \notin Reference!Breaks(l) =>
                Reference!Word(l, p) =
                    IF p \in Reference!Markers(l) THEN Reference!Word(l, p + 1)
                    ELSE Put(l[p], Reference!Word(l, p + 1))
  <1> DEFINE n == Len(l)
             S == InWord(l, p)
             T == InWord(l, p + 1)
  <1>0. l \in Seq(Char) /\ n \in Nat
    BY StringSeq
  <1>1. Reference!Word(l, p) = OrderFrom(l, S, p)
    BY WordFrom
  <1>2. CASE p > n \/ p \in Reference!Breaks(l)
    <2>1. \A i \in p .. n : i \notin S
      <3> TAKE i \in p .. n
      <3>1. p \in p .. i
        BY <1>0
      <3>. QED BY <1>0, <1>2, <3>1 DEF InWord
    <2> HIDE DEF S
    <2>2. OrderFrom(l, S, p) = <<>>
      BY <1>0, <2>1, OrderNone
    <2>. QED BY <1>1, <1>2, <2>2, <1>0
  <1>3. CASE p <= n /\ p \notin Reference!Breaks(l)
    <2>1. p + 1 \in 1 .. n + 1 /\ p \in 1 .. n
      BY <1>0, <1>3
    <2>2. Reference!Word(l, p + 1) = OrderFrom(l, T, p + 1)
      BY <2>1, WordFrom
    <2>3. \A i \in p + 1 .. n : i \in S <=> i \in T
      <3> TAKE i \in p + 1 .. n
      <3>1. p .. i = {p} \cup p + 1 .. i /\ i \in p .. n
        BY <1>0, <2>1
      <3>2. p .. i \cap Reference!Breaks(l) = {} <=> p + 1 .. i \cap Reference!Breaks(l) = {}
        BY <1>3, <3>1
      <3>. QED BY <3>1, <3>2 DEF InWord
    <2>4. p \in S <=> p \notin Reference!Markers(l)
      <3>1. p .. p = {p} /\ p \in p .. n
        BY <1>0, <2>1
      <3>2. p .. p \cap Reference!Breaks(l) = {}
        BY <1>3, <3>1
      <3>. QED BY <3>1, <3>2 DEF InWord
    <2> HIDE DEF S, T
    <2>5. OrderFrom(l, S, p + 1) = OrderFrom(l, T, p + 1)
      BY <1>0, <2>1, <2>3, OrderSame
    <2>6. CASE p \in S
      <3>1. OrderFrom(l, S, p) = Put(l[p], OrderFrom(l, S, p + 1))
        BY <1>0, <2>1, <2>6, OrderTakes
      <3>. QED BY <1>0, <1>1, <1>3, <2>2, <2>4, <2>5, <2>6, <3>1
    <2>7. CASE p \notin S
      <3>1. OrderFrom(l, S, p) = OrderFrom(l, S, p + 1)
        BY <1>0, <2>1, <2>7, OrderSkips
      <3>. QED BY <1>0, <1>1, <1>3, <2>2, <2>4, <2>5, <2>7, <3>1
    <2>. QED BY <2>6, <2>7
  <1>. QED BY <1>0, <1>2, <1>3

\* How read_token's result from p relates to the meaning of the line: an error is
\* a line that ends within a quote or an escape, and otherwise what is read is
\* the word up to the next break.
Reads(l, p, t) ==
    /\ t.error => /\ \A j \in p .. Len(l) : j \notin Reference!Breaks(l)
                  /\ Reference!Within(l)[Len(l) + 1] # {}
    /\ ~t.error => /\ t.pos \in p .. Len(l) + 1
                   /\ \A j \in p .. t.pos - 1 : j \notin Reference!Breaks(l)
                   /\ t.pos <= Len(l) => t.pos \in Reference!Breaks(l)
                   /\ t.pos = Len(l) + 1 => Reference!Within(l)[Len(l) + 1] = {}
                   /\ t.word = Reference!Word(l, p)

\* It reads over a marker, and writes any other character.
LEMMA ReadsOn ==
    ASSUME NEW l \in Strings, NEW p \in 1 .. Len(l), p \notin Reference!Breaks(l),
           NEW t \in Tokens(Len(l)), Reads(l, p + 1, t)
    PROVE  /\ p \in Reference!Markers(l) => Reads(l, p, t)
           /\ p \notin Reference!Markers(l) => Reads(l, p, Wrote(<<l[p]>>, t))
  <1> DEFINE n == Len(l)
             r == Wrote(<<l[p]>>, t)
  <1>0. n \in Nat /\ l[p] \in Char
    BY StringIs
  <1>1. p \in 1 .. n + 1 /\ p <= n
    BY <1>0
  <1>2. Reference!Word(l, p) = IF p \in Reference!Markers(l) THEN Reference!Word(l, p + 1)
                               ELSE Put(l[p], Reference!Word(l, p + 1))
    BY <1>1, WordStep
  <1>3. r.error = t.error /\ (~t.error => r.pos = t.pos /\ r.word = Put(l[p], t.word))
    <2> DEFINE s == <<l[p]>>
    <2>1. s \in Seq(Char)
      BY <1>0
    <2>2. r = Wrote(s, t)
      OBVIOUS
    <2> HIDE DEF s
    <2>3. r.error = t.error /\ (~t.error => r.pos = t.pos /\ r.word = s \o t.word)
      BY <1>0, <2>1, <2>2, WroteIs
    <2>. QED BY <2>3 DEF Put, s
  <1> HIDE DEF r
  <1>4. ~t.error => t.pos \in p .. n + 1
    BY <1>0 DEF Reads
  <1>5. t.error => \A j \in p .. n : j \notin Reference!Breaks(l)
    <2> SUFFICES ASSUME t.error, NEW j \in p .. n PROVE j \notin Reference!Breaks(l)
      OBVIOUS
    <2>1. j = p \/ j \in p + 1 .. n
      BY <1>0
    <2>. QED BY <2>1 DEF Reads
  <1>6. ~t.error => \A j \in p .. t.pos - 1 : j \notin Reference!Breaks(l)
    <2> SUFFICES ASSUME ~t.error, NEW j \in p .. t.pos - 1 PROVE j \notin Reference!Breaks(l)
      OBVIOUS
    <2>1. j = p \/ j \in p + 1 .. t.pos - 1
      BY <1>0, <1>4
    <2>. QED BY <2>1 DEF Reads
  <1>. QED BY <1>2, <1>3, <1>4, <1>5, <1>6 DEF Reads, r

Inside(q) == IF q = NUL THEN {} ELSE {q}

LEMMA ReadFromMeans ==
    ASSUME NEW l \in Strings, NEW p \in 1 .. Len(l) + 1, NEW q \in Modes,
           Reference!Within(l)[p] = Inside(q), NEW f,
           \A j \in p + 1 .. Len(l) + 1 : \A m \in Modes :
               /\ f[j][m] \in Tokens(Len(l))
               /\ Reference!Within(l)[j] = Inside(m) => Reads(l, j, f[j][m])
    PROVE  Reads(l, p, ReadFrom(l, p, q, f))
  <1> DEFINE n == Len(l)
             W == Reference!Within(l)
  <1>0. /\ n \in Nat /\ NUL \in Modes /\ NUL \notin Quotes
        /\ \A k \in 1 .. n : l[k] \in Char /\ l[k] # NUL
    BY StringIs, CliAssumption, ShellAssumption DEF Modes
  <1>1. Escape \notin Quotes /\ Sep \notin Quotes \cup {Escape} /\ Space \notin Quotes \cup {Escape, Sep}
    BY ShellAssumption
  <1>2. \A k \in 1 .. n : W[k + 1] = Behind(W[k], l[k])
    BY WithinIs
  <1>3. CASE p > n
    <2>1. p = n + 1
      BY <1>0, <1>3
    <2>2. CASE q = NUL
      <3>1. ReadFrom(l, p, q, f) = Stop(p)
        BY <1>3, <2>2 DEF ReadFrom
      <3>2. Reference!Word(l, p) = <<>>
        BY <1>3, WordStep
      <3>3. W[n + 1] = {}
        BY <2>1, <2>2 DEF Inside
      <3>. QED BY <1>0, <2>1, <3>1, <3>2, <3>3 DEF Reads, Stop
    <2>3. CASE q # NUL
      <3>1. ReadFrom(l, p, q, f) = Error
        BY <1>3, <2>3 DEF ReadFrom
      <3>2. W[n + 1] # {}
        BY <2>1, <2>3 DEF Inside
      <3>. QED BY <1>0, <2>1, <3>1, <3>2 DEF Reads, Error
    <2>. QED BY <2>2, <2>3
  <1>4. CASE p <= n
    <2>0. /\ p \in 1 .. n /\ p + 1 \in p + 1 .. n + 1 /\ ~(p > n)
          /\ W[p + 1] = Behind(W[p], l[p])
          /\ p \in Reference!Breaks(l) <=> W[p] = {} /\ l[p] \in {Space, Sep}
          /\ p \in Reference!Markers(l) <=> \/ W[p] = {} /\ l[p] \in Quotes \cup {Escape}
                                            \/ W[p] = {l[p]} /\ l[p] \in Quotes
      BY <1>0, <1>2, <1>4, PlaceIs
    <2>1. ASSUME NEW m \in Modes, W[p + 1] = Inside(m), p \notin Reference!Breaks(l)
          PROVE  /\ p \in Reference!Markers(l) => Reads(l, p, f[p + 1][m])
                 /\ p \notin Reference!Markers(l) => Reads(l, p, Wrote(<<l[p]>>, f[p + 1][m]))
      <3> DEFINE t == f[p + 1][m]
      <3>1. t \in Tokens(n) /\ Reads(l, p + 1, t)
        BY <2>0, <2>1
      <3> HIDE DEF t
      <3>. QED BY <2>0, <2>1, <3>1, ReadsOn DEF t
    <2>2. CASE q # NUL
      <3>1. W[p] = {q} /\ q \in Quotes /\ p \notin Reference!Breaks(l)
        BY <2>0, <2>2 DEF Inside, Modes
      <3>2. CASE l[p] = q
        <4>1. ReadFrom(l, p, q, f) = f[p + 1][NUL]
          BY <2>0, <2>2, <3>2 DEF ReadFrom
        <4>2. W[p + 1] = Inside(NUL) /\ p \in Reference!Markers(l)
          BY <2>0, <3>1, <3>2 DEF Inside, Behind
        <4>. QED BY <1>0, <2>1, <3>1, <4>1, <4>2
      <3>3. CASE l[p] # q
        <4>1. ReadFrom(l, p, q, f) = Wrote(<<l[p]>>, f[p + 1][q])
          BY <2>0, <2>2, <3>3 DEF ReadFrom
        <4>2. W[p + 1] = Inside(q) /\ p \notin Reference!Markers(l)
          BY <1>1, <2>0, <2>2, <3>1, <3>3 DEF Inside, Behind
        <4>. QED BY <2>1, <3>1, <4>1, <4>2
      <3>. QED BY <3>2, <3>3
    <2>3. CASE q = NUL
      <3>1. W[p] = {}
        BY <2>3 DEF Inside
      <3>2. CASE l[p] \in Quotes
        <4>1. ReadFrom(l, p, q, f) = f[p + 1][l[p]]
          BY <2>0, <2>3, <3>2 DEF ReadFrom
        <4>2. /\ W[p + 1] = Inside(l[p]) /\ p \in Reference!Markers(l) /\ p \notin Reference!Breaks(l)
              /\ l[p] \in Modes
          BY <1>0, <1>1, <2>0, <3>1, <3>2 DEF Inside, Behind, Modes
        <4>. QED BY <2>1, <4>1, <4>2
      <3>3. CASE l[p] = Escape
        <4>0. l[p] \notin Quotes /\ W[p + 1] = {Escape}
              /\ p \in Reference!Markers(l) /\ p \notin Reference!Breaks(l)
          BY <1>1, <2>0, <3>1, <3>3 DEF Behind
        <4>1. CASE p = n
          <5>1. ReadFrom(l, p, q, f) = Error
            BY <2>0, <2>3, <3>3, <4>0, <4>1 DEF ReadFrom
          <5>2. p .. n = {p} /\ p + 1 = n + 1
            BY <1>0, <4>1
          <5>3. W[n + 1] # {}
            BY <4>0, <5>2
          <5>. QED BY <4>0, <5>1, <5>2, <5>3 DEF Reads, Error
        <4>2. CASE p # n
          <5> DEFINE k == p + 1
                     t == f[p + 2][NUL]
          <5>1. ReadFrom(l, p, q, f) = Wrote(<<l[k]>>, t)
            BY <2>0, <2>3, <3>3, <4>0, <4>2 DEF ReadFrom, Escaped
          <5>2. k \in 1 .. n /\ k + 1 = p + 2 /\ p + 2 \in p + 1 .. n + 1 /\ k \in p + 1 .. n + 1
            BY <1>0, <2>0, <4>2
          <5>3. /\ W[k + 1] = {}
                /\ k \notin Reference!Breaks(l) /\ k \notin Reference!Markers(l)
            <6>1. W[k] = {Escape} /\ W[k + 1] = Behind(W[k], l[k])
              BY <1>2, <4>0, <5>2
            <6>. QED BY <1>1, <5>2, <6>1, PlaceIs DEF Behind
          <5>4. t \in Tokens(n) /\ Reads(l, k + 1, t)
            BY <1>0, <5>2, <5>3 DEF Inside
          <5> DEFINE r == Wrote(<<l[k]>>, t)
          <5> HIDE DEF t, k
          <5>5. Reads(l, k, r)
            BY <5>2, <5>3, <5>4, ReadsOn
          <5>6. r \in Tokens(n)
            <6>1. <<l[k]>> \in Seq(Char)
              BY <1>0, <5>2
            <6>. QED BY <1>0, <5>4, <6>1, WroteIs
          <5> HIDE DEF r
          <5>7. Reads(l, p, r)
            BY <2>0, <4>0, <5>5, <5>6, ReadsOn DEF k
          <5>. QED BY <5>1, <5>7 DEF r
        <4>. QED BY <4>1, <4>2
      <3>4. CASE l[p] \in {Space, Sep}
        <4>1. l[p] \notin Quotes /\ l[p] # Escape /\ p \in Reference!Breaks(l)
          BY <1>1, <2>0, <3>1, <3>4
        <4>2. ReadFrom(l, p, q, f) = Stop(p)
          BY <2>0, <2>3, <3>4, <4>1 DEF ReadFrom
        <4>3. Reference!Word(l, p) = <<>>
          BY <4>1, WordStep
        <4>. QED BY <1>0, <2>0, <4>1, <4>2, <4>3 DEF Reads, Stop
      <3>5. CASE l[p] \notin Quotes \cup {Escape, Space, Sep}
        <4>1. ReadFrom(l, p, q, f) = Wrote(<<l[p]>>, f[p + 1][NUL])
          BY <2>0, <2>3, <3>5 DEF ReadFrom
        <4>2. /\ W[p + 1] = Inside(NUL)
              /\ p \notin Reference!Markers(l) /\ p \notin Reference!Breaks(l)
          BY <2>0, <3>1, <3>5 DEF Inside, Behind
        <4>. QED BY <1>0, <2>1, <4>1, <4>2
      <3>. QED BY <3>2, <3>3, <3>4, <3>5
    <2>. QED BY <2>2, <2>3
  <1>. QED BY <1>0, <1>3, <1>4

LEMMA TokenMeans ==
    ASSUME NEW l \in Strings, NEW p \in 1 .. Len(l) + 1, NEW q \in Modes,
           Reference!Within(l)[p] = Inside(q)
    PROVE  Reads(l, p, ReadToken(l)[p][q])
  <1> DEFINE N == Len(l) + 1
             f == ReadToken(l)
             Means(k) == \A m \in Modes :
                 /\ f[k][m] \in Tokens(Len(l))
                 /\ Reference!Within(l)[k] = Inside(m) => Reads(l, k, f[k][m])
             B == {k \in 1 .. N : Means(k)}
  <1>1. N \in Nat
    BY StringIs
  <1>2. ASSUME NEW k \in 1 .. N, \A j \in k + 1 .. N : j \in B PROVE k \in B
    <2>1. \A j \in k + 1 .. Len(l) + 1 : \A m \in Modes :
               /\ f[j][m] \in Tokens(Len(l))
               /\ Reference!Within(l)[j] = Inside(m) => Reads(l, j, f[j][m])
      BY <1>2
    <2>2. ASSUME NEW m \in Modes
          PROVE  /\ f[k][m] \in Tokens(Len(l))
                 /\ Reference!Within(l)[k] = Inside(m) => Reads(l, k, f[k][m])
      <3>1. f[k][m] = ReadFrom(l, k, m, f)
        BY ReadTokenIs
      <3>2. f[k][m] \in Tokens(Len(l))
        BY TokenIs DEF TokensFrom
      <3> HIDE DEF f
      <3>3. Reference!Within(l)[k] = Inside(m) => Reads(l, k, ReadFrom(l, k, m, f))
        BY <2>1, ReadFromMeans
      <3>. QED BY <3>1, <3>2, <3>3
    <2> HIDE DEF f
    <2>. QED BY <2>2
  <1>3. 1 .. N \subseteq B
    <2>1. \A k \in 1 .. N : (\A j \in k + 1 .. N : j \in B) => k \in B
      BY <1>2
    <2> HIDE DEF B, N
    <2>. QED BY <1>1, <2>1, DownInduction
  <1>. QED BY <1>3

-----------------------------------------------------------------------------
(* Sentences                                                               *)

WordsAt(l) == [i \in DOMAIN l |-> Reference!Word(l, i)]

Starts(l, from, to) ==
    {i \in from .. to : i \notin Reference!Breaks(l)
                        /\ (i = from \/ i - 1 \in Reference!Breaks(l))}

LEMMA WordsAre ==
    ASSUME NEW l \in Strings, NEW p \in 1 .. Len(l) + 1, NEW to
    PROVE  /\ Reference!Words(l, p, to) = OrderFrom(WordsAt(l), Starts(l, p, to), p)
           /\ Reference!Words(l, p, to) \in Seq(Seq(Char))
           /\ WordsAt(l) \in Seq(Seq(Char)) /\ Len(WordsAt(l)) = Len(l) /\ Len(l) \in Nat
           /\ \A i \in 1 .. Len(l) : WordsAt(l)[i] = Reference!Word(l, i)
  <1> DEFINE n == Len(l)
             w == WordsAt(l)
             S == Starts(l, p, to)
             X == Seq(Char)
  <1>0. n \in Nat /\ DOMAIN l = 1 .. n
    BY StringIs
  <1>1. \A i \in 1 .. n : Reference!Word(l, i) \in X
    <2> TAKE i \in 1 .. n
    <2>1. i \in 1 .. n + 1
      BY <1>0
    <2>. QED BY <2>1, WordFrom
  <1>2. w = [i \in 1 .. n |-> Reference!Word(l, i)]
    BY <1>0 DEF WordsAt
  <1>3. w \in [1 .. n -> X]
    BY <1>1, <1>2
  <1>4. w \in Seq(X) /\ Len(w) = n
    <2> HIDE DEF w, n, X
    <2>. QED BY <1>0, <1>3
  <1>5. Reference!Words(l, p, to) = Reference!InOrder(w, S)
    BY DEF Reference!Words, WordsAt, Starts
  <1>6. \A i \in 1 .. p - 1 : i \notin S
    BY <1>0 DEF Starts
  <1>7. 1 \in 1 .. p /\ p \in 1 .. n + 1
    BY <1>0
  <1> HIDE DEF S, w, X
  <1>8. /\ Reference!InOrder(w, S) = OrderFrom(w, S, 1)
        /\ Reference!InOrder(w, S) \in Seq(X)
    BY <1>4, InOrderIs
  <1>9. OrderFrom(w, S, 1) = OrderFrom(w, S, p)
    BY <1>4, <1>6, <1>7, OrderPasses
  <1>. QED BY <1>0, <1>2, <1>4, <1>5, <1>8, <1>9 DEF S, w, X

\* There are no words in breaks,
LEMMA WordsNone ==
    ASSUME NEW l \in Strings, NEW p \in 1 .. Len(l) + 1, NEW to \in Int,
           \A i \in p .. to : i \in Reference!Breaks(l)
    PROVE  Reference!Words(l, p, to) = <<>>
  <1> DEFINE w == WordsAt(l)
             S == Starts(l, p, to)
  <1>1. \A i \in p .. Len(l) : i \notin S
    BY DEF Starts
  <1>2. w \in Seq(Seq(Char)) /\ Len(w) = Len(l) /\ Reference!Words(l, p, to) = OrderFrom(w, S, p)
    BY WordsAre
  <1> HIDE DEF w, S
  <1>3. OrderFrom(w, S, p) = <<>>
    BY <1>1, <1>2, OrderNone
  <1>. QED BY <1>2, <1>3

\* those in front of the first word are skipped,
LEMMA WordsSkip ==
    ASSUME NEW l \in Strings, NEW q \in 1 .. Len(l) + 1, NEW p \in 1 .. q, NEW to \in Int,
           \A i \in p .. q - 1 : i \in Reference!Breaks(l)
    PROVE  Reference!Words(l, p, to) = Reference!Words(l, q, to)
  <1> DEFINE n == Len(l)
             w == WordsAt(l)
             S == Starts(l, p, to)
             T == Starts(l, q, to)
  <1>0. n \in Nat
    BY StringIs
  <1>1. CASE p = q
    BY <1>1
  <1>2. CASE p # q
    <2>1. p \in 1 .. n + 1 /\ q - 1 \in p .. q - 1
      BY <1>0, <1>2
    <2>2. \A i \in p .. q - 1 : i \notin S
      BY DEF Starts
    <2>3. q - 1 \in Reference!Breaks(l)
      BY <2>1
    <2>4. ASSUME NEW i \in q .. n PROVE i \in S <=> i \in T
      <3>1. i # p /\ (i \in p .. to <=> i \in q .. to)
        BY <1>0, <1>2
      <3>. QED BY <2>3, <3>1 DEF Starts
    <2>5. /\ w \in Seq(Seq(Char)) /\ Len(w) = n
          /\ Reference!Words(l, p, to) = OrderFrom(w, S, p)
      BY <2>1, WordsAre
    <2>6. Reference!Words(l, q, to) = OrderFrom(w, T, q)
      BY WordsAre
    <2> HIDE DEF w, S, T
    <2>7. OrderFrom(w, S, p) = OrderFrom(w, S, q)
      BY <2>2, <2>5, OrderPasses
    <2>8. OrderFrom(w, S, q) = OrderFrom(w, T, q)
      BY <2>4, <2>5, OrderSame
    <2>. QED BY <2>5, <2>6, <2>7, <2>8
  <1>. QED BY <1>1, <1>2

\* and the first word goes up to the next break.
LEMMA WordsFirst ==
    ASSUME NEW l \in Strings, NEW q \in 1 .. Len(l), NEW to \in q .. Len(l), NEW r \in q + 1 .. to + 1,
           \A i \in q .. r - 1 : i \notin Reference!Breaks(l),
           r <= to => r \in Reference!Breaks(l)
    PROVE  Reference!Words(l, q, to) = Put(Reference!Word(l, q), Reference!Words(l, r, to))
  <1> DEFINE n == Len(l)
             w == WordsAt(l)
             S == Starts(l, q, to)
             T == Starts(l, r, to)
  <1>0. n \in Nat /\ q \in 1 .. n + 1 /\ r \in 1 .. n + 1 /\ q + 1 \in 1 .. n + 1 /\ q + 1 \in 1 .. r
        /\ q \in q .. r - 1 /\ q \in q .. to
    BY StringIs
  <1>1. q \in S
    BY <1>0 DEF Starts
  <1>2. ASSUME NEW i \in q + 1 .. r - 1 PROVE i \notin S
    <2>1. i # q /\ i - 1 \in q .. r - 1
      BY <1>0
    <2>. QED BY <2>1 DEF Starts
  <1>3. ASSUME NEW i \in r .. n PROVE i \in S <=> i \in T
    <2>1. i # q /\ (i \in q .. to <=> i \in r .. to)
      BY <1>0
    <2>2. CASE i = r
      BY <2>1, <2>2 DEF Starts
    <2>3. CASE i # r
      BY <2>1, <2>3 DEF Starts
    <2>. QED BY <2>2, <2>3
  <1>4. /\ w \in Seq(Seq(Char)) /\ Len(w) = n
        /\ Reference!Words(l, q, to) = OrderFrom(w, S, q)
        /\ w[q] = Reference!Word(l, q)
    BY <1>0, WordsAre
  <1>5. Reference!Words(l, r, to) = OrderFrom(w, T, r)
    BY <1>0, WordsAre
  <1> HIDE DEF w, S, T
  <1>6. OrderFrom(w, S, q) = Put(w[q], OrderFrom(w, S, q + 1))
    BY <1>0, <1>1, <1>4, OrderTakes
  <1>7. OrderFrom(w, S, q + 1) = OrderFrom(w, S, r)
    BY <1>0, <1>2, <1>4, OrderPasses
  <1>8. OrderFrom(w, S, r) = OrderFrom(w, T, r)
    BY <1>0, <1>3, <1>4, OrderSame
  <1>. QED BY <1>4, <1>5, <1>6, <1>7, <1>8

\* Spaces are breaks: nothing begins or ends at them.
LEMMA SpacesBreak ==
    ASSUME NEW l \in Strings, NEW q \in 1 .. Len(l) + 1, NEW p \in 1 .. q,
           Reference!Within(l)[p] = {}, \A i \in p .. q - 1 : l[i] = Space
    PROVE  /\ Reference!Within(l)[q] = {}
           /\ \A i \in p .. q - 1 : i \in Reference!Breaks(l)
           /\ \A i \in p .. q - 1 : i \notin Reference!Seps(l)
  <1> DEFINE W == Reference!Within(l)
             B == {k \in Nat : k <= q - p => W[p + k] = {}}
  <1>0. Len(l) \in Nat /\ Space \notin Quotes \cup {Escape, Sep}
    BY StringIs, ShellAssumption
  <1>1. Nat \subseteq B
    <2>1. 0 \in B
      BY <1>0
    <2>2. ASSUME NEW k \in Nat, k \in B PROVE k + 1 \in B
      <3> SUFFICES ASSUME k + 1 <= q - p PROVE W[p + (k + 1)] = {}
        OBVIOUS
      <3>1. p + k \in 1 .. Len(l) /\ p + k \in p .. q - 1 /\ p + (k + 1) = (p + k) + 1 /\ k <= q - p
        BY <1>0
      <3>2. W[p + k] = {} /\ l[p + k] = Space
        BY <2>2, <3>1
      <3>3. W[(p + k) + 1] = Behind({}, Space)
        BY <3>1, <3>2, WithinIs
      <3>. QED BY <1>0, <3>1, <3>3 DEF Behind
    <2> HIDE DEF B
    <2>. QED BY <2>1, <2>2, SetInduction
  <1>2. ASSUME NEW i \in p .. q PROVE W[i] = {}
    <2>1. i - p \in B /\ i - p <= q - p /\ p + (i - p) = i
      BY <1>0, <1>1
    <2>. QED BY <2>1
  <1>3. ASSUME NEW i \in p .. q - 1 PROVE i \in Reference!Breaks(l) /\ i \notin Reference!Seps(l)
    <2>1. i \in 1 .. Len(l) /\ W[i] = {} /\ l[i] = Space
      BY <1>0, <1>2
    <2>. QED BY <1>0, <2>1, PlaceIs
  <1>4. q \in p .. q
    BY <1>0
  <1>5. W[q] = {}
    BY <1>2, <1>4
  <1>. QED BY <1>3, <1>5

\* argv[0] is what was written before the first null.
LEMMA NameOf ==
    ASSUME NEW b \in Seq(Char \cup {NUL}), NEW w \in Seq(Char), Len(w) < Len(b),
           b[Len(w) + 1] = NUL, \A k \in 1 .. Len(w) : b[k] = w[k]
    PROVE  Name(b) = w
  <1> DEFINE n == Len(b)
             m == Len(w)
             First(i) == b[i] = NUL /\ \A j \in 1 .. i - 1 : b[j] # NUL
             e == CHOOSE i \in DOMAIN b : First(i)
  <1>1. n \in Nat /\ m \in Nat /\ DOMAIN b = 1 .. n /\ \A k \in 1 .. m : w[k] \in Char
    OBVIOUS
  <1>2. \A k \in 1 .. m : b[k] # NUL
    BY <1>1, CliAssumption
  <1>3. First(m + 1) /\ m + 1 \in DOMAIN b
    BY <1>1, <1>2
  <1>4. First(e) /\ e \in DOMAIN b
    <2> HIDE DEF First
    <2>. QED BY <1>3
  <1>5. Name(b) = SubSeq(b, 1, e - 1)
    BY DEF Name
  <1> HIDE DEF e
  <1>6. e = m + 1
    BY <1>1, <1>2, <1>3, <1>4
  <1>7. SubSeq(b, 1, m) = w
    OBVIOUS
  <1>. QED BY <1>1, <1>5, <1>6, <1>7

LEMMA NameOfLast == ASSUME NEW w \in Seq(Char) PROVE Name(Terminated(w)) = w
  <1> DEFINE b == Terminated(w)
  <1>1. /\ b \in Seq(Char \cup {NUL}) /\ Len(b) = Len(w) + 1 /\ b[Len(w) + 1] = NUL
        /\ Len(w) \in Nat
    BY TerminatedIs
  <1>2. \A k \in 1 .. Len(w) : b[k] = w[k]
    BY DEF Terminated
  <1> HIDE DEF b
  <1>3. Len(w) < Len(b)
    BY <1>1
  <1>4. Name(b) = w
    BY <1>1, <1>2, <1>3, NameOf
  <1>. QED BY <1>4 DEF b

LEMMA NameOfFirst ==
    ASSUME NEW w \in Seq(Char), NEW s \in Seq(Char \cup {NUL}),
           NEW c, c = Terminated(w) \o s
    PROVE  Name(c) = w
  <1> DEFINE b == Terminated(w)
  <1>1. /\ b \in Seq(Char \cup {NUL}) /\ Len(b) = Len(w) + 1 /\ b[Len(w) + 1] = NUL
        /\ Len(w) \in Nat
    BY TerminatedIs
  <1>2. \A k \in 1 .. Len(w) : b[k] = w[k]
    BY DEF Terminated
  <1>0. c = b \o s
    OBVIOUS
  <1> HIDE DEF b
  <1>3. /\ c \in Seq(Char \cup {NUL}) /\ Len(c) = Len(b) + Len(s)
        /\ \A k \in 1 .. Len(b) : c[k] = b[k]
    <2> DEFINE X == Char \cup {NUL}
    <2>1. b \in Seq(X) /\ s \in Seq(X)
      BY <1>1
    <2> HIDE DEF X
    <2>2. /\ c \in Seq(X) /\ Len(c) = Len(b) + Len(s)
          /\ \A k \in 1 .. Len(b) : c[k] = b[k]
      BY <1>0, <2>1
    <2>. QED BY <2>2 DEF X
  <1>4. Len(w) < Len(c)
    BY <1>1, <1>3
  <1>5. c[Len(w) + 1] = NUL /\ \A k \in 1 .. Len(w) : c[k] = w[k]
    BY <1>1, <1>2, <1>3
  <1>. QED BY <1>3, <1>4, <1>5, NameOf

-----------------------------------------------------------------------------
(* What a sentence says                                                    *)

\* Where the sentence ends that was parsed as r
End(l, r) == IF r.next = 0 THEN Len(l) + 1 ELSE r.next - 1

\* How msh_parse_line's result from p relates to the meaning of the line: it has
\* read the words up to where the command ends, and fails if none ends.
Says(l, p, r) ==
    /\ r.error => \A j \in p .. Len(l) + 1 : j \notin Reference!Ends(l)
    /\ ~r.error => /\ End(l, r) \in p .. Len(l) + 1 /\ End(l, r) \in Reference!Ends(l)
                   /\ \A j \in p .. End(l, r) - 1 : j \notin Reference!Ends(l)
                   /\ r.next # 0 => r.next - 1 \in Reference!Seps(l)
                   /\ r.args = Reference!Words(l, p, End(l, r) - 1)
                   /\ p > Len(l) => r.next = 0 /\ r.buf = <<>>
                   /\ p <= Len(l) => Name(r.buf) = IF r.args = <<>> THEN <<>> ELSE r.args[1]

LEMMA EndsAre ==
    ASSUME NEW l \in Strings
    PROVE  /\ \A i \in 1 .. Len(l) : i \in Reference!Ends(l) <=> i \in Reference!Seps(l)
           /\ Len(l) + 1 \in Reference!Ends(l) <=> Reference!Within(l)[Len(l) + 1] = {}
  <1>1. Reference!Seps(l) \subseteq 1 .. Len(l) /\ Len(l) \in Nat
    BY PlacesInLine, StringIs
  <1>. QED BY <1>1 DEF Reference!Ends

\* The first word of a sentence, from the spaces before it to a break behind it
LEMMA FirstWord ==
    ASSUME NEW l \in Strings, NEW p \in 1 .. Len(l) + 1, NEW q, q = Skip(l, p),
           Reference!Within(l)[p] = {},
           NEW t, t = ReadToken(l)[q][NUL], ~t.error, NEW e \in t.pos .. Len(l) + 1
    PROVE  Reference!Words(l, p, e - 1) =
               IF t.pos = q THEN Reference!Words(l, q, e - 1)
               ELSE Put(t.word, Reference!Words(l, t.pos, e - 1))
  <1> DEFINE n == Len(l)
  <1>0. n \in Nat
    BY StringIs
  <1>1. q \in p .. n + 1 /\ \A i \in p .. q - 1 : l[i] = Space
    BY SkipIs
  <1>2. q \in 1 .. n + 1 /\ p \in 1 .. q
    BY <1>0, <1>1
  <1>3. /\ Reference!Within(l)[q] = {}
        /\ \A i \in p .. q - 1 : i \in Reference!Breaks(l)
    BY <1>1, <1>2, SpacesBreak
  <1>4. NUL \in Modes /\ Reference!Within(l)[q] = Inside(NUL)
    BY <1>3 DEF Modes, Inside
  <1>5. Reads(l, q, t)
    BY <1>2, <1>4, TokenMeans
  <1>6. /\ t.pos \in q .. n + 1 /\ \A j \in q .. t.pos - 1 : j \notin Reference!Breaks(l)
        /\ t.pos <= n => t.pos \in Reference!Breaks(l)
        /\ t.word = Reference!Word(l, q)
    BY <1>5 DEF Reads
  <1>7. e \in Int /\ e - 1 \in Int /\ e \in 1 .. n + 1
    BY <1>0, <1>2, <1>6
  <1>8. Reference!Words(l, p, e - 1) = Reference!Words(l, q, e - 1)
    BY <1>2, <1>3, <1>7, WordsSkip
  <1>9. CASE t.pos # q
    <2> DEFINE d == e - 1
               r == t.pos
    <2>1. q \in 1 .. n /\ d \in q .. n /\ r \in q + 1 .. d + 1 /\ (r <= d => r \in Reference!Breaks(l))
      BY <1>0, <1>2, <1>6, <1>7, <1>9
    <2>2. \A j \in q .. r - 1 : j \notin Reference!Breaks(l)
      BY <1>6
    <2> HIDE DEF d, r, n
    <2>3. Reference!Words(l, q, d) = Put(Reference!Word(l, q), Reference!Words(l, r, d))
      BY <2>1, <2>2, WordsFirst DEF n
    <2>. QED BY <1>6, <1>8, <1>9, <2>3 DEF d, r
  <1>. QED BY <1>8, <1>9

\* No command ends among the spaces before a word, or in the word.
LEMMA NoEndBefore ==
    ASSUME NEW l \in Strings, NEW p \in 1 .. Len(l) + 1, NEW q, q = Skip(l, p),
           Reference!Within(l)[p] = {},
           NEW t, t = ReadToken(l)[q][NUL]
    PROVE  /\ t.error => \A j \in p .. Len(l) + 1 : j \notin Reference!Ends(l)
           /\ ~t.error =>
                /\ \A j \in p .. t.pos - 1 : j \notin Reference!Ends(l)
                /\ t.pos \in q .. Len(l) + 1
                /\ t.pos > Len(l) => t.pos \in Reference!Ends(l)
                /\ t.pos <= Len(l) => /\ Reference!Within(l)[t.pos] = {}
                                      /\ t.pos \in Reference!Seps(l) <=> l[t.pos] = Sep
  <1> DEFINE n == Len(l)
  <1>0. n \in Nat
    BY StringIs
  <1>1. q \in p .. n + 1 /\ \A i \in p .. q - 1 : l[i] = Space
    BY SkipIs
  <1>2. q \in 1 .. n + 1 /\ p \in 1 .. q
    BY <1>0, <1>1
  <1>3. /\ Reference!Within(l)[q] = {}
        /\ \A i \in p .. q - 1 : i \in Reference!Breaks(l) /\ i \notin Reference!Seps(l)
    BY <1>1, <1>2, SpacesBreak
  <1>4. NUL \in Modes /\ Reference!Within(l)[q] = Inside(NUL)
    BY <1>3 DEF Modes, Inside
  <1>5. Reads(l, q, t)
    BY <1>2, <1>4, TokenMeans
  <1>6. ASSUME NEW j \in p .. n, j < q \/ j \notin Reference!Breaks(l) PROVE j \notin Reference!Ends(l)
    <2>1. j \in 1 .. n
      BY <1>0
    <2>2. j \notin Reference!Seps(l)
      <3>1. CASE j < q
        <4>1. j \in p .. q - 1
          BY <1>0, <1>1, <3>1
        <4>. QED BY <1>3, <4>1
      <3>2. CASE j \notin Reference!Breaks(l)
        BY <3>2, PlacesInLine
      <3>. QED BY <1>6, <3>1, <3>2
    <2>. QED BY <2>1, <2>2, EndsAre
  <1>7. CASE t.error
    <2>1. /\ \A j \in q .. n : j \notin Reference!Breaks(l)
          /\ Reference!Within(l)[n + 1] # {}
      BY <1>5, <1>7 DEF Reads
    <2>2. ASSUME NEW j \in p .. n + 1 PROVE j \notin Reference!Ends(l)
      <3>1. CASE j = n + 1
        BY <2>1, <3>1, EndsAre
      <3>2. CASE j # n + 1
        <4>1. j \in p .. n /\ (j < q \/ j \in q .. n)
          BY <1>0, <1>1, <3>2
        <4>2. j < q \/ j \notin Reference!Breaks(l)
          BY <2>1, <4>1
        <4>. QED BY <1>6, <4>1, <4>2
      <3>. QED BY <3>1, <3>2
    <2>. QED BY <1>7, <2>2
  <1>8. CASE ~t.error
    <2>1. /\ t.pos \in q .. n + 1
          /\ \A j \in q .. t.pos - 1 : j \notin Reference!Breaks(l)
          /\ t.pos <= n => t.pos \in Reference!Breaks(l)
          /\ t.pos = n + 1 => Reference!Within(l)[n + 1] = {}
      BY <1>5, <1>8 DEF Reads
    <2>2. ASSUME NEW j \in p .. t.pos - 1 PROVE j \notin Reference!Ends(l)
      <3>1. j \in p .. n /\ (j < q \/ j \in q .. t.pos - 1)
        BY <1>0, <1>1, <1>2, <2>1
      <3>2. j < q \/ j \notin Reference!Breaks(l)
        BY <2>1, <3>1
      <3>. QED BY <1>6, <3>1, <3>2
    <2>3. t.pos > n => t.pos \in Reference!Ends(l)
      <3>1. t.pos > n => t.pos = n + 1
        BY <1>0, <1>2, <2>1
      <3>. QED BY <2>1, <3>1, EndsAre
    <2>4. t.pos <= n => /\ Reference!Within(l)[t.pos] = {}
                        /\ t.pos \in Reference!Seps(l) <=> l[t.pos] = Sep
      <3> SUFFICES ASSUME t.pos <= n
                   PROVE  /\ Reference!Within(l)[t.pos] = {}
                          /\ t.pos \in Reference!Seps(l) <=> l[t.pos] = Sep
        OBVIOUS
      <3> DEFINE k == t.pos
      <3>1. k \in 1 .. n
        BY <1>0, <1>2, <2>1
      <3>2. k \in Reference!Breaks(l)
        BY <2>1
      <3> HIDE DEF k
      <3>3. Reference!Within(l)[k] = {} /\ (k \in Reference!Seps(l) <=> l[k] = Sep)
        BY <3>1, <3>2, PlaceIs
      <3>. QED BY <3>3 DEF k
    <2>. QED BY <1>8, <2>1, <2>2, <2>3, <2>4
  <1>. QED BY <1>7, <1>8

\* A sentence that ends at its first word, or before one
LEMMA LastWord ==
    ASSUME NEW l \in Strings, NEW p \in 1 .. Len(l) + 1, p <= Len(l), NEW q, q = Skip(l, p),
           Reference!Within(l)[p] = {},
           NEW t, t = ReadToken(l)[q][NUL], ~t.error,
           NEW a, a = IF t.pos = q THEN <<>> ELSE <<t.word>>
    PROVE  /\ a = Reference!Words(l, p, t.pos - 1)
           /\ Name(Terminated(t.word)) = IF a = <<>> THEN <<>> ELSE a[1]
  <1> DEFINE n == Len(l)
             e == t.pos
  <1>0. n \in Nat
    BY StringIs
  <1>1. /\ q \in p .. n + 1 /\ e \in 1 .. n + 1 /\ q <= e
        /\ t.word \in Seq(Char) /\ (e = q => t.word = <<>>)
    <2>1. /\ q \in p .. n + 1 /\ e \in 1 .. n + 1 /\ q <= e
          /\ t.word \in Seq(Char) /\ Len(t.word) \in Nat /\ Len(t.word) <= e - q
      BY WordAhead
    <2>2. e = q => Len(t.word) = 0
      BY <2>1
    <2>. QED BY <2>1, <2>2
  <1>2. e \in t.pos .. n + 1 /\ e - 1 \in Int
    BY <1>0, <1>1
  <1>3. Reference!Words(l, p, e - 1) =
            IF t.pos = q THEN Reference!Words(l, q, e - 1)
            ELSE Put(t.word, Reference!Words(l, t.pos, e - 1))
    BY <1>2, FirstWord
  <1>4. Reference!Words(l, e, e - 1) = <<>>
    <2>1. \A i \in e .. e - 1 : i \in Reference!Breaks(l)
      BY <1>1
    <2> DEFINE d == e - 1
    <2>2. d \in Int /\ \A i \in e .. d : i \in Reference!Breaks(l)
      BY <1>2, <2>1
    <2> HIDE DEF d, e
    <2>3. Reference!Words(l, e, d) = <<>>
      BY <1>1, <2>2, WordsNone
    <2>. QED BY <2>3 DEF d
  <1>5. Put(t.word, <<>>) = <<t.word>>
    BY <1>1 DEF Put
  <1>6. Name(Terminated(t.word)) = t.word
    BY <1>1, NameOfLast
  <1>. QED BY <1>1, <1>3, <1>4, <1>5, <1>6

LEMMA ParseFromMeans ==
    ASSUME NEW l \in Strings, NEW p \in 1 .. Len(l) + 1, Reference!Within(l)[p] = {}, NEW f,
           \A j \in p + 1 .. Len(l) + 1 :
               /\ f[j] \in SentencesFrom(l, j)
               /\ Reference!Within(l)[j] = {} => Says(l, j, f[j])
    PROVE  Says(l, p, ParseFrom(l, p, f))
  <1> DEFINE n == Len(l)
             q == Skip(l, p)
             t == ReadToken(l)[q][NUL]
             a == IF t.pos = q THEN <<>> ELSE <<t.word>>
             b == Terminated(t.word)
             r == ParseFrom(l, p, f)
  <1>0. n \in Nat
    BY StringIs
  <1>1. r = IF p > n THEN Parsed(0, <<>>, <<>>)
            ELSE IF t.error THEN Error
            ELSE IF t.pos > n THEN Parsed(0, a, b)
            ELSE IF l[t.pos] = Sep THEN Parsed(t.pos + 1, a, b)
            ELSE Followed(a, b, f[t.pos])
    BY DEF ParseFrom
  <1>2. CASE p > n
    <2>1. p = n + 1 /\ p - 1 \in Int /\ \A i \in p .. p - 1 : FALSE
      BY <1>0, <1>2
    <2>2. n + 1 \in Reference!Ends(l)
      BY <2>1, EndsAre
    <2> DEFINE d == p - 1
    <2> HIDE DEF d
    <2>3. Reference!Words(l, p, d) = <<>>
      BY <2>1, WordsNone DEF d
    <2>4. r = Parsed(0, <<>>, <<>>)
      BY <1>1, <1>2
    <2> HIDE DEF r
    <2>5. ~r.error /\ r.next = 0 /\ r.args = <<>> /\ r.buf = <<>>
      BY <2>4 DEF Parsed
    <2>6. End(l, r) = p
      BY <2>1, <2>5 DEF End
    <2>. QED BY <1>0, <1>2, <2>1, <2>2, <2>3, <2>5, <2>6 DEF Says, r, d
  <1>3. CASE p <= n /\ t.error
    <2>1. r = Error
      BY <1>0, <1>1, <1>3
    <2>2. \A j \in p .. n + 1 : j \notin Reference!Ends(l)
      BY <1>3, NoEndBefore
    <2> HIDE DEF r
    <2>. QED BY <2>1, <2>2 DEF Says, Error, r
  <1>4. CASE p <= n /\ ~t.error
    <2> DEFINE e == t.pos
    <2>1. /\ \A j \in p .. e - 1 : j \notin Reference!Ends(l)
          /\ e > n => e \in Reference!Ends(l)
          /\ e <= n => /\ Reference!Within(l)[e] = {}
                       /\ e \in Reference!Seps(l) <=> l[e] = Sep
      BY <1>4, NoEndBefore
    <2>2. /\ q \in p .. n + 1 /\ e \in 1 .. n + 1 /\ q <= e /\ t.word \in Seq(Char)
          /\ e <= n /\ l[e] # Sep => q < e
      BY <1>4, WordAhead
    <2>3. /\ a = Reference!Words(l, p, e - 1)
          /\ Name(b) = IF a = <<>> THEN <<>> ELSE a[1]
      <3>1. a = IF t.pos = q THEN <<>> ELSE <<t.word>>
        OBVIOUS
      <3> HIDE DEF a
      <3>2. /\ a = Reference!Words(l, p, t.pos - 1)
            /\ Name(Terminated(t.word)) = IF a = <<>> THEN <<>> ELSE a[1]
        BY <1>4, <3>1, LastWord
      <3>. QED BY <3>2
    <2>4. e \in p .. n + 1
      BY <1>0, <2>2
    <2>5. CASE e > n \/ l[e] = Sep
      <3>1. r = IF e > n THEN Parsed(0, a, b) ELSE Parsed(e + 1, a, b)
        BY <1>0, <1>1, <1>4, <2>5
      <3> HIDE DEF r, a, b, e, t, q
      <3>2. ~r.error /\ r.next = (IF e > n THEN 0 ELSE e + 1) /\ r.args = a /\ r.buf = b
        BY <3>1 DEF Parsed
      <3>3. End(l, r) = e
        BY <1>0, <2>2, <3>2 DEF End
      <3>4. e <= n => e \in Reference!Seps(l)
        BY <1>0, <2>1, <2>4, <2>5
      <3>5. e \in Reference!Ends(l)
        BY <1>0, <2>1, <2>2, <3>4, EndsAre
      <3>6. r.next # 0 => r.next - 1 \in Reference!Seps(l)
        BY <1>0, <2>2, <3>2, <3>4
      <3>. QED BY <1>0, <1>4, <2>1, <2>3, <2>4, <3>2, <3>3, <3>5, <3>6 DEF Says, r
    <2>6. CASE e <= n /\ l[e] # Sep
      <3> DEFINE g == f[e]
      <3>1. r = Followed(a, b, g) /\ a = <<t.word>>
        BY <1>0, <1>1, <1>4, <2>2, <2>6
      <3>2. e \in p + 1 .. n + 1 /\ e \in 1 .. n + 1 /\ Reference!Within(l)[e] = {}
        BY <1>0, <2>1, <2>2, <2>6
      <3>3. g \in Sentences(n) /\ Says(l, e, g) /\ (~g.error => g.buf \in Seq(Char \cup {NUL}))
        <4>1. g \in SentencesFrom(l, e) /\ Says(l, e, g)
          BY <3>2
        <4>2. g \in Sentences(n)
          BY <4>1 DEF SentencesFrom
        <4> HIDE DEF g
        <4>. QED BY <1>0, <4>1, <4>2, SentenceFields
      <3>4. \A j \in p .. e : j \notin Reference!Ends(l)
        <4>1. e \notin Reference!Ends(l)
          <5>1. e \in 1 .. n
            BY <1>0, <2>6, <3>2
          <5>. QED BY <2>1, <2>6, <5>1, EndsAre
        <4>2. \A j \in p .. e : j = e \/ j \in p .. e - 1
          BY <1>0, <2>4
        <4>. QED BY <2>1, <4>1, <4>2
      <3>5. /\ r.error = g.error
            /\ ~g.error => r.next = g.next /\ r.args = Put(t.word, g.args) /\ r.buf = b \o g.buf
        <4> DEFINE x == Followed(a, b, g)
        <4>1. a \in Seq(Seq(Char)) /\ b \in Seq(Char \cup {NUL})
          BY <2>2, <3>1, TerminatedIs
        <4> HIDE DEF a, b, g, r
        <4>2. /\ x.error = g.error
              /\ ~g.error => x.next = g.next /\ x.args = a \o g.args /\ x.buf = b \o g.buf
          BY <1>0, <3>3, <4>1, FollowedIs
        <4> HIDE DEF x
        <4>3. r = x
          BY <3>1 DEF x
        <4>. QED BY <3>1, <4>2, <4>3 DEF Put
      <3>6. CASE g.error
        <4>1. \A j \in e .. n + 1 : j \notin Reference!Ends(l)
          BY <3>3, <3>6 DEF Says
        <4>2. \A j \in p .. n + 1 : j \in p .. e \/ j \in e .. n + 1
          BY <1>0, <2>4
        <4>3. \A j \in p .. n + 1 : j \notin Reference!Ends(l)
          BY <3>4, <4>1, <4>2
        <4> HIDE DEF r, g
        <4>. QED BY <3>5, <3>6, <4>3 DEF Says, r
      <3>7. CASE ~g.error
        <4> DEFINE h == End(l, g)
        <4>1. /\ h \in e .. n + 1 /\ h \in Reference!Ends(l)
              /\ \A j \in e .. h - 1 : j \notin Reference!Ends(l)
              /\ g.next # 0 => g.next - 1 \in Reference!Seps(l)
              /\ g.args = Reference!Words(l, e, h - 1)
          BY <3>3, <3>7 DEF Says
        <4>2. End(l, r) = h
          BY <3>5, <3>7 DEF End
        <4> HIDE DEF h
        <4>3. Reference!Words(l, p, h - 1) = Put(t.word, Reference!Words(l, e, h - 1))
          <5>1. e # q /\ h \in t.pos .. n + 1
            BY <2>2, <2>6, <4>1
          <5>. QED BY <1>4, <5>1, FirstWord
        <4>4. h \in p .. n + 1
          BY <1>0, <2>4, <4>1
        <4>5. \A j \in p .. h - 1 : j \notin Reference!Ends(l)
          <5>1. \A j \in p .. h - 1 : j \in p .. e \/ j \in e .. h - 1
            BY <1>0, <2>4, <4>1
          <5>. QED BY <3>4, <4>1, <5>1
        <4>6. Name(r.buf) = t.word
          <5>1. r.buf = Terminated(t.word) \o g.buf /\ g.buf \in Seq(Char \cup {NUL}) /\ t.word \in Seq(Char)
            BY <2>2, <2>6, <3>3, <3>5, <3>7
          <5> HIDE DEF r, g, t
          <5>. QED BY <5>1, NameOfFirst
        <4>7. r.args # <<>> /\ r.args[1] = t.word
          <5>1. g.args \in Seq(Seq(Char))
            <6> HIDE DEF g
            <6>. QED BY <1>0, <3>3, <3>7, SentenceFields
          <5> DEFINE w == t.word
                     v == g.args
          <5>2. r.args = <<w>> \o v /\ v \in Seq(Seq(Char)) /\ w \in Seq(Char)
            BY <2>2, <3>5, <3>7, <5>1 DEF Put
          <5> HIDE DEF g, r, t, w, v
          <5>3. <<w>> \o v # <<>> /\ (<<w>> \o v)[1] = w
            BY <5>2
          <5>. QED BY <5>2, <5>3 DEF w
        <4>8. r.args = Reference!Words(l, p, h - 1)
          BY <3>5, <3>7, <4>1, <4>3
        <4> HIDE DEF r, g, t
        <4>9. ~r.error /\ (r.next # 0 => r.next - 1 \in Reference!Seps(l))
          BY <3>5, <3>7, <4>1
        <4>10. ~(p > n)
          BY <1>0, <1>4
        <4>11. Says(l, p, r)
          BY <4>1, <4>2, <4>4, <4>5, <4>6, <4>7, <4>8, <4>9, <4>10 DEF Says
        <4>. QED BY <4>11 DEF r
      <3>. QED BY <3>6, <3>7
    <2>. QED BY <1>0, <2>2, <2>5, <2>6
  <1>. QED BY <1>0, <1>2, <1>3, <1>4

LEMMA SentenceMeans ==
    ASSUME NEW l \in Strings, NEW p \in 1 .. Len(l) + 1, Reference!Within(l)[p] = {}
    PROVE  Says(l, p, ParseLine(l, p))
  <1> DEFINE N == Len(l) + 1
             Means(k) == Reference!Within(l)[k] = {} => Says(l, k, ParseLine(l, k))
             B == {k \in 1 .. N : Means(k)}
  <1>1. N \in Nat
    BY StringIs
  <1>2. PICK f : /\ \A k \in 1 .. N : f[k] = ParseFrom(l, k, f)
                 /\ \A k \in 1 .. N : ParseLine(l, k) = f[k]
    BY ParseLineIs
  <1>3. ASSUME NEW k \in 1 .. N, \A j \in k + 1 .. N : j \in B PROVE k \in B
    <2> SUFFICES ASSUME Reference!Within(l)[k] = {} PROVE Says(l, k, ParseLine(l, k))
      OBVIOUS
    <2>1. \A j \in k + 1 .. N : j \in 1 .. N
      BY <1>1
    <2>2. \A j \in k + 1 .. Len(l) + 1 :
               /\ f[j] \in SentencesFrom(l, j)
               /\ Reference!Within(l)[j] = {} => Says(l, j, f[j])
      <3> TAKE j \in k + 1 .. Len(l) + 1
      <3>1. f[j] \in SentencesFrom(l, j)
        BY <1>2, <2>1, SentenceIs
      <3>2. Reference!Within(l)[j] = {} => Says(l, j, f[j])
        BY <1>2, <1>3, <2>1
      <3>. QED BY <3>1, <3>2
    <2>3. Says(l, k, ParseFrom(l, k, f))
      BY <2>2, ParseFromMeans
    <2>. QED BY <1>2, <2>3
  <1>4. 1 .. N \subseteq B
    <2>1. \A k \in 1 .. N : (\A j \in k + 1 .. N : j \in B) => k \in B
      BY <1>3
    <2> HIDE DEF B, N
    <2>. QED BY <1>1, <2>1, DownInduction
  <1>. QED BY <1>4

-----------------------------------------------------------------------------
(* Commands                                                                *)

\* What a line still means from p on
MeaningFrom(l, p) == OrderFrom(Reference!Commands(l), Reference!Ends(l), p)

\* A command starts behind the separator before it, or with the line.
LEMMA StartIs ==
    ASSUME NEW l \in Strings, NEW e \in 1 .. Len(l) + 1
    PROVE  /\ Reference!Start(l, e) \in 1 .. e
           /\ \A p \in 1 .. e :
                /\ p = 1 \/ p - 1 \in Reference!Seps(l)
                /\ \A j \in p .. e - 1 : j \notin Reference!Seps(l)
                => Reference!Start(l, e) = p
  <1> DEFINE Q == Reference!Seps(l)
             Is(s) == (s = 1 \/ s - 1 \in Q) /\ s .. e - 1 \cap Q = {}
             T == {k \in Nat : k < e /\ (e - k = 1 \/ e - k - 1 \in Q)}
  <1>0. Len(l) \in Nat /\ e \in Nat
    BY StringIs
  <1>1. Reference!Start(l, e) = CHOOSE s \in 1 .. e : Is(s)
    BY DEF Reference!Start
  <1> HIDE DEF Q
  <1>2. PICK k \in T : \A j \in T : k <= j
    <2>0. e - 1 \in Nat /\ e - 1 < e /\ e - (e - 1) = 1
      BY <1>0
    <2>1. e - 1 \in T
      BY <2>0
    <2>2. T \subseteq Nat /\ T # {}
      BY <2>1
    <2> HIDE DEF T
    <2>. QED BY <2>2, NatLeast
  <1>3. e - k \in 1 .. e /\ (e - k = 1 \/ e - k - 1 \in Q)
    BY <1>0, <1>2
  <1>4. ASSUME NEW j \in e - k .. e - 1 PROVE j \notin Q
    <2>1. e - (j + 1) \in Nat /\ e - (j + 1) < e /\ e - (e - (j + 1)) - 1 = j /\ ~(k <= e - (j + 1))
      BY <1>0, <1>2, <1>3
    <2>2. e - (j + 1) \notin T
      BY <1>2, <2>1
    <2>. QED BY <2>1, <2>2
  <1>5. Is(e - k)
    BY <1>3, <1>4
  <1> DEFINE c == CHOOSE s \in 1 .. e : Is(s)
  <1>6. c \in 1 .. e /\ Is(c)
    <2> HIDE DEF Is
    <2>. QED BY <1>3, <1>5
  <1> HIDE DEF c
  <1>7. ASSUME NEW p \in 1 .. e, p = 1 \/ p - 1 \in Q, \A j \in p .. e - 1 : j \notin Q
        PROVE  c = p
    <2>1. CASE c < p
      <3>1. p - 1 \in c .. e - 1 /\ p # 1
        BY <1>0, <1>6, <2>1
      <3>. QED BY <1>6, <1>7, <3>1
    <2>2. CASE p < c
      <3>1. c - 1 \in p .. e - 1 /\ c # 1
        BY <1>0, <1>6, <2>2
      <3>. QED BY <1>6, <1>7, <3>1
    <2>. QED BY <1>0, <1>6, <2>1, <2>2
  <1>. QED BY <1>1, <1>6, <1>7 DEF c, Q

LEMMA CommandsAre ==
    ASSUME NEW l \in Strings
    PROVE  /\ Reference!Commands(l) \in Seq(Seq(Seq(Char)))
           /\ Len(Reference!Commands(l)) = Len(l) + 1 /\ Len(l) \in Nat
           /\ \A e \in 1 .. Len(l) + 1 :
                Reference!Commands(l)[e] = Reference!Words(l, Reference!Start(l, e), e - 1)
  <1> DEFINE n == Len(l) + 1
             c == Reference!Commands(l)
             X == Seq(Seq(Char))
  <1>0. n \in Nat /\ Len(l) \in Nat
    BY StringIs
  <1>1. c = [e \in 1 .. n |-> Reference!Words(l, Reference!Start(l, e), e - 1)]
    BY DEF Reference!Commands
  <1>2. ASSUME NEW e \in 1 .. n PROVE Reference!Words(l, Reference!Start(l, e), e - 1) \in X
    <2>1. Reference!Start(l, e) \in 1 .. Len(l) + 1
      <3>1. Reference!Start(l, e) \in 1 .. e
        BY StartIs
      <3>. QED BY <1>0, <3>1
    <2> DEFINE s == Reference!Start(l, e)
               d == e - 1
    <2> HIDE DEF s, d
    <2>2. Reference!Words(l, s, d) \in Seq(Seq(Char))
      BY <2>1, WordsAre DEF s
    <2>. QED BY <2>2 DEF s, d
  <1>3. c \in [1 .. n -> X]
    <2> HIDE DEF X
    <2>. QED BY <1>1, <1>2
  <1>4. c \in Seq(X) /\ Len(c) = n
    <2> HIDE DEF c, X, n
    <2>. QED BY <1>0, <1>3
  <1>. QED BY <1>0, <1>1, <1>4

\* From where a command starts, a line means that command and what follows its
\* end, or nothing if it does not end.
LEMMA MeaningStep ==
    ASSUME NEW l \in Strings, NEW p \in 1 .. Len(l) + 1, p = 1 \/ p - 1 \in Reference!Seps(l)
    PROVE  /\ Reference!Within(l)[p] = {}
           /\ Reference!Meaning(l) = MeaningFrom(l, 1)
           /\ MeaningFrom(l, p) \in Seq(Seq(Seq(Char)))
           /\ (\A j \in p .. Len(l) + 1 : j \notin Reference!Ends(l)) => MeaningFrom(l, p) = <<>>
           /\ MeaningFrom(l, Len(l) + 2) = <<>>
  <1> DEFINE n == Len(l)
             c == Reference!Commands(l)
             E == Reference!Ends(l)
  <1>0. n \in Nat /\ c \in Seq(Seq(Seq(Char))) /\ Len(c) = n + 1
    BY CommandsAre
  <1>1. Reference!Within(l)[p] = {}
    <2>1. CASE p = 1
      BY <2>1, WithinIs
    <2>2. CASE p - 1 \in Reference!Seps(l)
      <3> DEFINE k == p - 1
      <3>1. k \in 1 .. n /\ k + 1 = p
        <4>1. Reference!Seps(l) \subseteq 1 .. n
          BY PlacesInLine
        <4>. QED BY <1>0, <2>2, <4>1
      <3>2. k \in Reference!Seps(l)
        BY <2>2
      <3> HIDE DEF k
      <3>3. Reference!Within(l)[k] = {} /\ l[k] = Sep
        BY <3>1, <3>2, PlaceIs
      <3>4. Reference!Within(l)[k + 1] = Behind({}, Sep)
        BY <3>1, <3>3, WithinIs
      <3>. QED BY <3>1, <3>4, ShellAssumption DEF Behind
    <2>. QED BY <2>1, <2>2
  <1>2. p \in 1 .. Len(c) + 1 /\ n + 2 = Len(c) + 1
    BY <1>0
  <1>3. Reference!Meaning(l) = Reference!InOrder(c, E)
    BY DEF Reference!Meaning
  <1> HIDE DEF c, E
  <1>4. Reference!InOrder(c, E) = OrderFrom(c, E, 1)
    BY <1>0, InOrderIs
  <1>5. OrderFrom(c, E, p) \in Seq(Seq(Seq(Char)))
    BY <1>0, <1>2, OrderFromIs
  <1>6. ASSUME \A j \in p .. n + 1 : j \notin E PROVE OrderFrom(c, E, p) = <<>>
    BY <1>0, <1>2, <1>6, OrderNone
  <1>7. OrderFrom(c, E, Len(c) + 1) = <<>>
    BY <1>0, OrderEnds
  <1>. QED BY <1>1, <1>2, <1>3, <1>4, <1>5, <1>6, <1>7 DEF MeaningFrom, c, E

\* That command comes first.
LEMMA MeaningNext ==
    ASSUME NEW l \in Strings, NEW p \in 1 .. Len(l) + 1, p = 1 \/ p - 1 \in Reference!Seps(l),
           NEW e \in p .. Len(l) + 1, e \in Reference!Ends(l),
           \A j \in p .. e - 1 : j \notin Reference!Ends(l)
    PROVE  MeaningFrom(l, p) = Put(Reference!Words(l, p, e - 1), MeaningFrom(l, e + 1))
  <1> DEFINE n == Len(l)
             c == Reference!Commands(l)
             E == Reference!Ends(l)
  <1>0. /\ n \in Nat /\ c \in Seq(Seq(Seq(Char))) /\ Len(c) = n + 1
        /\ \A i \in 1 .. n + 1 : c[i] = Reference!Words(l, Reference!Start(l, i), i - 1)
    BY CommandsAre
  <1>1. e \in 1 .. Len(c) /\ e \in 1 .. n + 1 /\ p \in 1 .. e
    BY <1>0
  <1>2. \A j \in p .. e - 1 : j \notin Reference!Seps(l)
    <2> TAKE j \in p .. e - 1
    <2>1. j \in 1 .. n
      BY <1>0
    <2>. QED BY <2>1, EndsAre
  <1>3. Reference!Start(l, e) = p
    BY <1>1, <1>2, StartIs
  <1>4. c[e] = Reference!Words(l, p, e - 1)
    BY <1>0, <1>1, <1>3
  <1> HIDE DEF c, E
  <1>5. OrderFrom(c, E, p) = Put(c[e], OrderFrom(c, E, e + 1))
    BY <1>0, <1>1, OrderNext DEF E
  <1>. QED BY <1>4, <1>5 DEF MeaningFrom, c, E

-----------------------------------------------------------------------------
(* The shell runs what was typed                                           *)

CommandSeqs == Seq(Seq(Seq(Char)))

\* What was run has a name, and the name exists or is missing.
Known(r, m) ==
    \A k \in 1 .. Len(r) : HasName(r[k]) /\ r[k][1] \in User \cup Builtin \cup m

\* A line that means m has been run up to rest.
Continues(m, r, rest) == m = r \o rest

\* Nothing that has a name is left.
Nameless(rest) == rest = <<>> \/ ~HasName(rest[1])

\* What was run of a line that means m, reported in s: its first commands.
First(m, r, s) ==
    /\ Len(r) <= Len(m) /\ r = SubSeq(m, 1, Len(r))
    /\ \A k \in 1 .. Len(r) : HasName(m[k])
    /\ {m[k][1] : k \in 1 .. Len(r)} \ (User \cup Builtin) \subseteq s

\* If nothing that has a name is left, that is all there was to run of the line.
LEMMA FirstIs ==
    ASSUME NEW r \in CommandSeqs, NEW rest \in CommandSeqs, NEW m, Continues(m, r, rest), NEW s,
           Known(r, s)
    PROVE  /\ First(m, r, s)
           /\ Nameless(rest) /\ Len(r) < Len(m) => ~HasName(m[Len(r) + 1])
  <1> DEFINE V == Seq(Seq(Char))
  <1>0. r \in Seq(V) /\ rest \in Seq(V)
    BY DEF CommandSeqs
  <1> HIDE DEF V
  <1>1. /\ m \in Seq(V) /\ Len(m) = Len(r) + Len(rest) /\ Len(r) \in Nat /\ Len(rest) \in Nat
        /\ \A k \in 1 .. Len(r) : m[k] = r[k]
        /\ rest # <<>> => Len(rest) > 0 /\ m[Len(r) + 1] = rest[1]
        /\ rest = <<>> => Len(rest) = 0
    BY <1>0 DEF Continues
  <1>2. r = SubSeq(m, 1, Len(r))
    <2>1. SubSeq(m, 1, Len(r)) \in Seq(V) /\ Len(SubSeq(m, 1, Len(r))) = Len(r)
          /\ \A k \in 1 .. Len(r) : SubSeq(m, 1, Len(r))[k] = m[k]
      BY <1>1
    <2>. QED BY <1>0, <1>1, <2>1
  <1>3. \A k \in 1 .. Len(r) : HasName(m[k]) /\ m[k][1] \in User \cup Builtin \cup s
    BY <1>1 DEF Known
  <1>4. Nameless(rest) /\ Len(r) < Len(m) => ~HasName(m[Len(r) + 1])
    BY <1>1 DEF Nameless
  <1>5. First(m, r, s)
    BY <1>1, <1>2, <1>3 DEF First
  <1>. QED BY <1>4, <1>5

\* What was run of the line and what it still means is what it means as a whole.
LineSoFar ==
    /\ mode = "read" => ran = <<>> /\ missing = {} /\ at = 1
    /\ mode = "run" => /\ at = 1 \/ at - 1 \in Reference!Seps(line)
                       /\ Reference!Meaning(line) = ran \o MeaningFrom(line, at)
                       /\ Known(ran, missing)
    /\ mode = "overrun" => ~ArgvHolds
    /\ RunsWhatWasTyped

LEMMA InitLineSoFar == ShellInit => LineSoFar
  BY DEF ShellInit, LineSoFar, RunsWhatWasTyped

\* The sentence at hand: its words are those of the next command, and it has the
\* name of that command, or of an earlier one if the line is at its end.
LEMMA NextCommand ==
    ASSUME ShellInv, LineSoFar, mode = "run", NEW p, p = ParseLine(line, at), ~p.error
    PROVE  /\ ran \in CommandSeqs /\ p.args \in Seq(Seq(Char))
           /\ \E rest \in CommandSeqs :
                /\ Continues(Reference!Meaning(line), ran, Put(p.args, rest))
                /\ p.next = 0 => rest = <<>>
                /\ p.next # 0 => /\ p.next - 1 \in Reference!Seps(line)
                                 /\ rest = MeaningFrom(line, p.next)
           /\ Name(Written(p)) = <<>> => ~HasName(p.args)
           /\ Name(Written(p)) # <<>> => \/ HasName(p.args) /\ p.args[1] = Name(Written(p))
                                         \/ p.args = <<>> /\ p.next = 0
  <1> DEFINE n == Len(line)
             e == End(line, p)
  <1>0. /\ line \in Strings /\ at \in 1 .. n + 1 /\ n \in Nat
        /\ ran \in Seq(Seq(Seq(Char)) \ {<<>>})
        /\ at = 1 \/ at - 1 \in Reference!Seps(line)
        /\ Reference!Meaning(line) = ran \o MeaningFrom(line, at)
    BY StringIs DEF ShellInv, ShellTypeOK, LineSoFar
  <1>1. ran \in CommandSeqs
    BY <1>0 DEF CommandSeqs
  <1>2. p.args \in Seq(Seq(Char))
    BY ParseWrites
  <1>3. Says(line, at, p)
    <2>1. Reference!Within(line)[at] = {}
      BY <1>0, MeaningStep
    <2>. QED BY <1>0, <2>1, SentenceMeans
  <1>4. /\ e \in at .. n + 1 /\ e \in Reference!Ends(line)
        /\ \A j \in at .. e - 1 : j \notin Reference!Ends(line)
        /\ p.next # 0 => p.next - 1 \in Reference!Seps(line)
        /\ p.args = Reference!Words(line, at, e - 1)
        /\ at > n => p.next = 0 /\ p.buf = <<>>
        /\ at <= n => Name(p.buf) = IF p.args = <<>> THEN <<>> ELSE p.args[1]
    BY <1>3 DEF Says
  <1>5. MeaningFrom(line, at) = Put(p.args, MeaningFrom(line, e + 1))
    <2> HIDE DEF e
    <2>1. MeaningFrom(line, at) = Put(Reference!Words(line, at, e - 1), MeaningFrom(line, e + 1))
      BY <1>0, <1>4, MeaningNext
    <2>. QED BY <1>4, <2>1
  <1>6. p.next # 0 => p.next \in 1 .. n + 1 /\ e + 1 = p.next
    <2>1. p.next # 0 => p.next \in 1 .. n + 1
      BY ParseWrites
    <2>. QED BY <1>0, <2>1 DEF End
  <1>7. p.next = 0 => e + 1 = n + 2
    BY <1>0 DEF End
  <1>8. /\ p.next = 0 => MeaningFrom(line, e + 1) = <<>>
        /\ MeaningFrom(line, e + 1) \in CommandSeqs
    <2>1. CASE p.next = 0
      <3>1. MeaningFrom(line, n + 2) = <<>>
        BY <1>0, MeaningStep
      <3> DEFINE k == e + 1
      <3>2. k = n + 2
        BY <1>7, <2>1
      <3> HIDE DEF k
      <3>3. MeaningFrom(line, k) = <<>>
        BY <3>1, <3>2
      <3>4. <<>> \in CommandSeqs
        BY DEF CommandSeqs
      <3>5. MeaningFrom(line, k) \in CommandSeqs
        BY <3>3, <3>4
      <3>. QED BY <3>3, <3>5 DEF k
    <2>2. CASE p.next # 0
      <3> DEFINE k == p.next
      <3>1. k \in 1 .. n + 1 /\ k - 1 \in Reference!Seps(line)
        BY <1>4, <1>6, <2>2
      <3> HIDE DEF k
      <3>2. MeaningFrom(line, k) \in Seq(Seq(Seq(Char)))
        BY <1>0, <3>1, MeaningStep
      <3>. QED BY <1>6, <2>2, <3>2 DEF k, CommandSeqs
    <2>. QED BY <2>1, <2>2
  <1>9. /\ Name(Written(p)) = <<>> => ~HasName(p.args)
        /\ Name(Written(p)) # <<>> => \/ HasName(p.args) /\ p.args[1] = Name(Written(p))
                                      \/ p.args = <<>> /\ p.next = 0
    <2>1. CASE at > n
      <3>1. p.next = 0
        BY <1>4, <2>1
      <3>2. p.args = <<>>
        <4> DEFINE d == e - 1
        <4>1. d \in Int /\ \A i \in at .. d : i \in Reference!Breaks(line)
          BY <1>0, <1>4, <2>1
        <4>2. p.args = Reference!Words(line, at, d)
          BY <1>4
        <4> HIDE DEF d
        <4>. QED BY <1>0, <4>1, <4>2, WordsNone
      <3>. QED BY <3>1, <3>2 DEF HasName
    <2>2. CASE at <= n
      <3>1. p.buf # <<>>
        <4>1. p \in SentencesFrom(line, at)
          BY <1>0, SentenceIs
        <4>. QED BY <2>2, <4>1 DEF SentencesFrom
      <3>2. Written(p) = p.buf
        BY <3>1 DEF Written
      <3>. QED BY <1>4, <2>2, <3>2 DEF HasName
    <2>. QED BY <1>0, <2>1, <2>2
  <1> HIDE DEF e
  <1>. QED BY <1>0, <1>1, <1>2, <1>4, <1>5, <1>6, <1>8, <1>9 DEF Continues

LEMMA NextLineSoFar == ShellInv /\ LineSoFar /\ [ShellNext]_shellVars => LineSoFar'
  <1> SUFFICES ASSUME ShellInv, LineSoFar, [ShellNext]_shellVars PROVE LineSoFar'
    OBVIOUS
  <1>0. line \in Strings /\ ran \in CommandSeqs /\ at \in 1 .. Len(line) + 1
    BY DEF ShellInv, ShellTypeOK, CommandSeqs
  <1>1. ASSUME mode = "run", mode' = "done", line' = line,
               NEW r \in CommandSeqs, NEW rest \in CommandSeqs, Continues(Reference!Meaning(line), r, rest),
               r = ran', Known(r, missing'), Nameless(rest)
        PROVE  LineSoFar'
    <2> DEFINE m == Reference!Meaning(line)
               s == missing'
    <2>1. Continues(m, r, rest)
      BY <1>1
    <2> HIDE DEF m, s
    <2>2. First(m, r, s) /\ (Len(r) < Len(m) => ~HasName(m[Len(r) + 1]))
      BY <1>1, <2>1, FirstIs DEF s
    <2>3. Reference!Meaning(line') = m
      BY <1>1 DEF m
    <2>4. RunsWhatWasTyped'
      BY <1>1, <2>2, <2>3 DEF RunsWhatWasTyped, First, s
    <2>. QED BY <1>1, <2>4 DEF LineSoFar
  <1>8. ASSUME mode' = "run", NEW m, m = Reference!Meaning(line'),
               NEW r \in CommandSeqs, NEW rest \in CommandSeqs, Continues(m, r, rest),
               r = ran', Known(r, missing')
        PROVE  RunsWhatWasTyped'
    <2> DEFINE s == missing'
    <2> HIDE DEF s
    <2>1. First(m, r, s)
      BY <1>8, FirstIs DEF s
    <2>. QED BY <1>8, <2>1 DEF RunsWhatWasTyped, First, s
  <1>2. CASE \E l \in Strings : GetLine(l)
    <2> PICK l \in Strings : GetLine(l)
      BY <1>2
    <2>1. /\ mode' = "run" /\ line' = l /\ at' = 1 /\ ran' = <<>> /\ missing' = {}
      BY DEF GetLine, LineSoFar
    <2>2. Reference!Meaning(l) = MeaningFrom(l, 1) /\ MeaningFrom(l, 1) \in Seq(Seq(Seq(Char)))
      <3>1. 1 \in 1 .. Len(l) + 1
        BY StringIs
      <3>. QED BY <3>1, MeaningStep
    <2>3. Reference!Meaning(l) = <<>> \o MeaningFrom(l, 1)
      <3> DEFINE x == MeaningFrom(l, 1)
      <3> HIDE DEF x
      <3>1. x \in Seq(Seq(Seq(Char))) => x = <<>> \o x
        OBVIOUS
      <3>. QED BY <2>2, <3>1 DEF x
    <2>4. <<>> \in CommandSeqs /\ Known(<<>>, {}) /\ MeaningFrom(l, 1) \in CommandSeqs
      BY <2>2 DEF CommandSeqs, Known
    <2>5. Continues(Reference!Meaning(line'), <<>>, MeaningFrom(l, 1))
      BY <2>1, <2>3 DEF Continues
    <2>6. RunsWhatWasTyped'
      BY <1>8, <2>1, <2>4, <2>5
    <2>. QED BY <2>1, <2>3, <2>4, <2>6 DEF LineSoFar
  <1>3. CASE SyntaxError
    <2> DEFINE p == ParseLine(line, at)
    <2>1. /\ mode = "run" /\ p.error /\ mode' = "done" /\ line' = line
          /\ ran' = ran /\ missing' = missing
      BY <1>3 DEF SyntaxError
    <2>2. /\ at = 1 \/ at - 1 \in Reference!Seps(line)
          /\ Reference!Meaning(line) = ran \o MeaningFrom(line, at) /\ Known(ran, missing)
      BY <2>1 DEF LineSoFar
    <2>3. Says(line, at, p)
      <3>1. Reference!Within(line)[at] = {}
        BY <1>0, <2>2, MeaningStep
      <3>. QED BY <1>0, <3>1, SentenceMeans
    <2>4. \A j \in at .. Len(line) + 1 : j \notin Reference!Ends(line)
      BY <2>1, <2>3 DEF Says
    <2>5. MeaningFrom(line, at) = <<>>
      BY <1>0, <2>2, <2>4, MeaningStep
    <2>6. <<>> \in CommandSeqs /\ Nameless(<<>>)
      BY DEF CommandSeqs, Nameless
    <2>7. Continues(Reference!Meaning(line), ran, <<>>)
      BY <2>2, <2>5 DEF Continues
    <2>. QED BY <1>0, <1>1, <2>1, <2>2, <2>6, <2>7
  <1>4. CASE EmptySentence
    <2> DEFINE p == ParseLine(line, at)
    <2>1. /\ mode = "run" /\ ~p.error /\ Name(Written(p)) = <<>> /\ mode' = "done"
          /\ line' = line /\ ran' = ran /\ missing' = missing
      BY <1>4 DEF EmptySentence
    <2>2. Known(ran, missing)
      BY <2>1 DEF LineSoFar
    <2> DEFINE a == p.args
    <2>3. PICK rest \in CommandSeqs : Continues(Reference!Meaning(line), ran, Put(a, rest))
      BY <2>1, NextCommand
    <2>4. a \in Seq(Seq(Char)) /\ ~HasName(a)
      BY <2>1, NextCommand
    <2> HIDE DEF a
    <2>5. Put(a, rest) \in CommandSeqs /\ Nameless(Put(a, rest))
      BY <2>4 DEF Put, Nameless, CommandSeqs
    <2>. QED BY <1>0, <1>1, <2>1, <2>2, <2>3, <2>5
  <1>5. CASE \E r \in Results : RunSentence(r)
    <2> DEFINE p == ParseLine(line, at)
               a == p.args
               w == Name(Written(p))
    <2> PICK result \in Results : RunSentence(result)
      BY <1>5
    <2>1. /\ mode = "run" /\ ~p.error /\ w # <<>> /\ line' = line
          /\ ran' = ran \o LookedUp(a)
          /\ missing' = IF NotFound(a, result) THEN missing \cup {w} ELSE missing
          /\ p.next = 0 => mode' = "done"
          /\ p.next # 0 => mode' = "run" /\ at' = p.next
      BY DEF RunSentence
    <2>2. Known(ran, missing)
      BY <2>1 DEF LineSoFar
    <2>3. PICK rest \in CommandSeqs :
              /\ Continues(Reference!Meaning(line), ran, Put(a, rest))
              /\ p.next = 0 => rest = <<>>
              /\ p.next # 0 => /\ p.next - 1 \in Reference!Seps(line)
                               /\ rest = MeaningFrom(line, p.next)
      BY <2>1, NextCommand
    <2>4. /\ a \in Seq(Seq(Char))
          /\ \/ HasName(a) /\ a[1] = w
             \/ a = <<>> /\ p.next = 0
      <3>1. /\ p.args \in Seq(Seq(Char))
            /\ Name(Written(p)) # <<>> => \/ HasName(p.args) /\ p.args[1] = Name(Written(p))
                                          \/ p.args = <<>> /\ p.next = 0
        BY <2>1, NextCommand
      <3>. QED BY <2>1, <3>1
    <2>5. CASE a = <<>> /\ p.next = 0
      <3>1. ran' = ran
        <4>1. ran' = ran \o <<>>
          BY <2>1, <2>5 DEF LookedUp
        <4>. QED BY <1>0, <4>1 DEF CommandSeqs
      <3>2. Known(ran, missing')
        BY <2>1, <2>2 DEF Known
      <3>3. Put(a, rest) \in CommandSeqs /\ Nameless(Put(a, rest))
        <4>1. Put(a, rest) = <<a>> \o rest /\ <<a>> \o rest \in CommandSeqs /\ (<<a>> \o rest)[1] = a
          BY <2>4 DEF Put, CommandSeqs
        <4>. QED BY <2>5, <4>1 DEF Nameless, HasName
      <3>. QED BY <1>0, <1>1, <2>1, <2>3, <2>5, <3>1, <3>2, <3>3
    <2>6. CASE HasName(a) /\ a[1] = w
      <3> DEFINE r == ran \o <<a>>
      <3>1. ran' = r
        BY <2>1, <2>6 DEF LookedUp, HasName
      <3>2. Continues(Reference!Meaning(line), r, rest) /\ r \in CommandSeqs
        <4> DEFINE V == Seq(Seq(Char))
        <4>1. ran \in Seq(V) /\ rest \in Seq(V) /\ a \in V
          BY <1>0, <2>4 DEF CommandSeqs
        <4> HIDE DEF V, a
        <4>2. r \in Seq(V)
          BY <4>1
        <4>3. ran \o Put(a, rest) = r \o rest
          BY <4>1 DEF Put
        <4>. QED BY <2>3, <4>2, <4>3 DEF V, CommandSeqs, Continues
      <3>3. Known(r, missing')
        <4>1. a[1] \in User \cup Builtin \cup missing'
          BY <2>1, <2>6 DEF NotFound
        <4>2. missing \subseteq missing'
          BY <2>1
        <4> DEFINE V == Seq(Seq(Char))
        <4>3. ran \in Seq(V) /\ a \in V
          BY <1>0, <2>4 DEF CommandSeqs
        <4> HIDE DEF V, a
        <4>4. /\ Len(r) = Len(ran) + 1 /\ Len(ran) \in Nat /\ r[Len(ran) + 1] = a
              /\ \A k \in 1 .. Len(ran) : r[k] = ran[k]
          BY <4>3
        <4> HIDE DEF r, w, p
        <4>5. ASSUME NEW k \in 1 .. Len(r)
              PROVE  HasName(r[k]) /\ r[k][1] \in User \cup Builtin \cup missing'
          <5>1. CASE k = Len(ran) + 1
            BY <2>6, <4>1, <4>4, <5>1
          <5>2. CASE k # Len(ran) + 1
            <6>1. k \in 1 .. Len(ran)
              BY <4>4, <5>2
            <6>. QED BY <2>2, <4>2, <4>4, <6>1 DEF Known
          <5>. QED BY <5>1, <5>2
        <4>. QED BY <4>5 DEF Known
      <3> HIDE DEF r
      <3>4. CASE p.next = 0
        <4>1. <<>> \in CommandSeqs /\ Nameless(<<>>)
          BY DEF CommandSeqs, Nameless
        <4>. QED BY <1>1, <2>1, <2>3, <3>1, <3>2, <3>3, <3>4, <4>1
      <3>5. CASE p.next # 0
        <4>1. mode' = "run" /\ at' = p.next /\ at' - 1 \in Reference!Seps(line')
          BY <2>1, <2>3, <3>5
        <4>2. Reference!Meaning(line') = ran' \o MeaningFrom(line', at')
          BY <2>1, <2>3, <3>1, <3>2, <3>5, <4>1 DEF Continues
        <4>3. Continues(Reference!Meaning(line'), ran', rest) /\ ran' \in CommandSeqs
          BY <2>1, <3>1, <3>2
        <4>4. Known(ran', missing')
          BY <3>1, <3>3
        <4>5. RunsWhatWasTyped'
          BY <1>8, <4>1, <4>3, <4>4
        <4>. QED BY <4>1, <4>2, <4>4, <4>5 DEF LineSoFar
      <3>. QED BY <3>4, <3>5
    <2>. QED BY <2>4, <2>5, <2>6
  <1>6. CASE NextLine
    BY <1>6 DEF NextLine, LineSoFar, RunsWhatWasTyped
  <1>9. CASE Overrun
    <2>1. /\ mode' = "overrun" /\ ~ArgvHolds
          /\ mode \in {"run", "overrun"}
          /\ UNCHANGED <<line, at, ran, missing>>
      BY <1>9 DEF Overrun
    <2>2. Len(line) >= 2 * ArgsMax
      <3> DEFINE a == ArgvWritten(line, at)
                 n == Len(line)
      <3>1. a \in Nat /\ 2 * (a - 1) <= n /\ n \in Nat
        BY <1>0, ArgvIs, StringIs
      <3>2. ~(a <= ArgsMax)
        BY <2>1 DEF ArgvHolds
      <3> HIDE DEF a, n
      <3>3. n >= 2 * ArgsMax
        BY <3>1, <3>2, ShellAssumption
      <3>. QED BY <3>3 DEF n
    <2>3. ArgvHolds' = ArgvHolds
      BY <2>1 DEF ArgvHolds
    <2>4. RunsWhatWasTyped'
      BY <2>1, <2>2 DEF LineSoFar, RunsWhatWasTyped
    <2>. QED BY <2>1, <2>3, <2>4 DEF LineSoFar
  <1>7. CASE UNCHANGED shellVars
    BY <1>7 DEF shellVars, LineSoFar, ArgvHolds, RunsWhatWasTyped
  <1>. QED BY <1>2, <1>3, <1>4, <1>5, <1>6, <1>7, <1>9 DEF ShellNext

\* Of a line of any length the shell looks up the commands it means, each once and
\* in order with its words, and reports those that do not exist.  It stops before all
\* of them are run in two ways only: at the first without a name, as an empty sentence
\* is taken for the end of the line, and when a sentence overruns an argv of any size,
\* which takes two characters for each entry; what happens then is not said.
THEOREM RunsWhatWasTypedCorrect == ShellSpec => []RunsWhatWasTyped
  <1>1. ShellInit => ShellInv /\ LineSoFar
    BY InitShellInv, InitLineSoFar
  <1>2. (ShellInv /\ LineSoFar) /\ [ShellNext]_shellVars => (ShellInv /\ LineSoFar)'
    BY NextShellInv, NextLineSoFar
  <1>3. LineSoFar => RunsWhatWasTyped
    BY DEF LineSoFar
  <1>. QED BY <1>1, <1>2, <1>3, PTL DEF ShellSpec
=============================================================================
