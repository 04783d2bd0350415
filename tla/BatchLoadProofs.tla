-------------------------- MODULE BatchLoadProofs ---------------------------
(***************************************************************************)
(* Proofs about the payload of LOAD DATA and the executor that sends it,   *)
(* for parameters of any length, any number of parameters and batches of   *)
(* any size.                                                               *)
(***************************************************************************)
EXTENDS BatchLoad, BatchExecutorProofs, WellFoundedInduction

\* A non-empty set of naturals has a least element.
LEMMA LeastElement ==
  ASSUME NEW S \in SUBSET Nat, S # {}
  PROVE  \E k \in S : \A j \in S : k <= j
<1> DEFINE R == {ss \in Nat \X Nat : ss[1] < ss[2]}
<1>1. IsWellFoundedOn(R, Nat)
  BY NatLessThanWellFounded DEF OpToRel
<1> HIDE DEF R
<1>2. PICK k \in S : \A j \in S : ~(<<j, k>> \in R)
  BY <1>1, WFMin, Zenon
<1>3. \A j \in S : ~(j < k)
  <2> TAKE j \in S
  <2>1. j \in Nat /\ k \in Nat
    OBVIOUS
  <2>2. j < k => <<j, k>> \in R
    BY <2>1 DEF R
  <2> QED
    BY <1>2, <2>2
<1> QED
  BY <1>3, SMTT(60)

-----------------------------------------------------------------------------
(* The reader *)

\* The states of a reader of the first n characters of a text.
Reads(g, text, n) == g = [i \in 0..n |-> IF i = 0 THEN Start ELSE Read(g[i - 1], text[i])]

\* There are such states, for every text.
LEMMA ReaderExists ==
  ASSUME NEW text, NEW n \in Nat
  PROVE  \E g : Reads(g, text, n)
<1> DEFINE D == {m \in 0..n : ~\E g : Reads(g, text, m)}
<1> SUFFICES ASSUME D # {} PROVE FALSE
  OBVIOUS
<1>1. D \in SUBSET Nat
  OBVIOUS
<1>2. PICK m \in D : \A j \in D : m <= j
  <2> HIDE DEF D
  <2> QED
    BY <1>1, LeastElement
<1>3. m \in 0..n /\ ~\E g : Reads(g, text, m)
  BY <1>2, Zenon
<1>4. CASE m = 0
  <2> DEFINE g == [i \in 0..0 |-> Start]
  <2>1. Reads(g, text, 0)
    BY DEF Reads
  <2> QED
    BY <1>3, <1>4, <2>1
<1>5. CASE m # 0
  <2>1. m - 1 \in 0..n /\ ~(m <= m - 1) /\ m \in Nat
    BY <1>3, <1>5
  <2>2. PICK g : Reads(g, text, m - 1)
    BY <1>2, <2>1, Zenon
  <2> DEFINE h == [i \in 0..m |-> IF i = m THEN Read(g[m - 1], text[m]) ELSE g[i]]
             k == [i \in 0..m |-> IF i = 0 THEN Start ELSE Read(h[i - 1], text[i])]
  <2>3. ASSUME NEW i \in 0..m PROVE h[i] = k[i]
    <3>1. CASE i = 0
      BY <1>5, <2>1, <2>2, <3>1 DEF Reads
    <3>2. CASE i = m
      <4>1. h[m - 1] = g[m - 1]
        BY <2>1
      <4> QED
        BY <1>5, <2>1, <3>2, <4>1, Zenon
    <3>3. CASE i # 0 /\ i # m
      <4>1. i \in 0..(m - 1) /\ i - 1 \in 0..m /\ i - 1 # m
        BY <2>1, <3>3
      <4>2. h[i] = g[i] /\ h[i - 1] = g[i - 1]
        BY <3>3, <4>1
      <4>3. g[i] = Read(g[i - 1], text[i])
        BY <2>2, <3>3, <4>1 DEF Reads
      <4> QED
        BY <3>3, <4>2, <4>3, Zenon
    <3> QED
      BY <3>1, <3>2, <3>3, Zenon
  <2>4. h = k
    <3> HIDE DEF h
    <3>1. h = [i \in 0..m |-> h[i]]
      BY DEF h
    <3> QED
      BY <2>3, <3>1, Zenon
  <2>5. Reads(h, text, m)
    BY <2>4, Zenon DEF Reads
  <2> QED
    BY <1>3, <2>5
<1> QED
  BY <1>4, <1>5

\* Reader(text) are such states.
LEMMA ReaderReads ==
  ASSUME NEW text, Len(text) \in Nat
  PROVE  Reads(Reader(text), text, Len(text))
<1>1. PICK g : g = [i \in 0..Len(text) |-> IF i = 0 THEN Start ELSE Read(g[i - 1], text[i])]
  BY ReaderExists DEF Reads
<1>2. Reader(text) = CHOOSE f : f = [i \in 0..Len(text) |-> IF i = 0 THEN Start ELSE Read(f[i - 1], text[i])]
  BY DEF Reader
<1>3. Reader(text) = [i \in 0..Len(text) |-> IF i = 0 THEN Start ELSE Read(Reader(text)[i - 1], text[i])]
  BY <1>1, <1>2, Zenon
<1> QED
  BY <1>3, Zenon DEF Reads

\* What is read of a text does not depend on what follows.
LEMMA ReadsSame ==
  ASSUME NEW s, NEW t, NEW n \in Nat, NEW m \in Nat, n <= m, NEW f, NEW g,
         Reads(f, s, n), Reads(g, t, m), \A i \in 1..n : s[i] = t[i]
  PROVE  \A i \in 0..n : f[i] = g[i]
<1> DEFINE D == {i \in 0..n : f[i] # g[i]}
<1> SUFFICES ASSUME D # {} PROVE FALSE
  BY Zenon
<1>1. D \in SUBSET Nat
  OBVIOUS
<1>2. PICK i \in D : \A j \in D : i <= j
  <2> HIDE DEF D
  <2> QED
    BY <1>1, LeastElement
<1>3. i \in 0..n /\ i \in 0..m /\ f[i] # g[i]
  BY <1>2
<1>4. i # 0
  BY <1>3 DEF Reads
<1>5. i \in 1..n /\ i - 1 \in 0..n /\ ~(i <= i - 1)
  BY <1>3, <1>4
<1>6. f[i - 1] = g[i - 1]
  BY <1>2, <1>5, ZenonT(60)
<1>7. f[i] = Read(f[i - 1], s[i]) /\ g[i] = Read(g[i - 1], t[i])
  BY <1>3, <1>4, Zenon DEF Reads
<1> QED
  BY <1>3, <1>5, <1>6, <1>7

\* What has been read after the whole text.
End(text) == Reader(text)[Len(text)]

LEMMA ReadNothing == End(<< >>) = Start
<1>1. Len(<< >>) = 0 /\ 0 \in 0..0
  OBVIOUS
<1>2. Reads(Reader(<< >>), << >>, 0)
  BY <1>1, ReaderReads
<1>3. Reader(<< >>)[0] = Start
  BY <1>2 DEF Reads
<1> QED
  BY <1>1, <1>3, Zenon DEF End

\* One character more is one step of the reader more.
LEMMA ReadOn ==
  ASSUME NEW C, NEW text \in Seq(C), NEW ch \in C
  PROVE  End(Append(text, ch)) = Read(End(text), ch)
<1> DEFINE n == Len(text)
           all == Append(text, ch)
<1>1. n \in Nat /\ Len(all) = n + 1 /\ all[n + 1] = ch /\ \A i \in 1..n : text[i] = all[i]
  OBVIOUS
<1> HIDE DEF n, all
<1>2. Reads(Reader(text), text, n) /\ Reads(Reader(all), all, n + 1)
  BY <1>1, ReaderReads DEF n
<1>3. Reader(text)[n] = Reader(all)[n]
  <2>1. n + 1 \in Nat /\ n <= n + 1 /\ n \in 0..n
    BY <1>1
  <2> QED
    BY <1>1, <1>2, <2>1, ReadsSame, SMTT(60)
<1>4. Reader(all)[n + 1] = Read(Reader(all)[n], all[n + 1])
  <2>1. n + 1 \in 0..(n + 1) /\ n + 1 # 0 /\ (n + 1) - 1 = n
    BY <1>1
  <2> QED
    BY <1>2, <2>1, Zenon DEF Reads
<1> QED
  BY <1>1, <1>3, <1>4, Zenon DEF End, n, all

-----------------------------------------------------------------------------
(* The escapes *)

\* What is built from the first n characters of a string.
Builds(g, s, n) == g = [k \in 0..n |-> IF k = 0 THEN << >> ELSE g[k - 1] \o EscapeChar(s[k])]

\* There is such a builder, for every string.
LEMMA BuilderExists ==
  ASSUME NEW s, NEW n \in Nat
  PROVE  \E g : Builds(g, s, n)
<1> DEFINE D == {m \in 0..n : ~\E g : Builds(g, s, m)}
<1> SUFFICES ASSUME D # {} PROVE FALSE
  OBVIOUS
<1>1. D \in SUBSET Nat
  OBVIOUS
<1>2. PICK m \in D : \A j \in D : m <= j
  <2> HIDE DEF D
  <2> QED
    BY <1>1, LeastElement
<1>3. m \in 0..n /\ ~\E g : Builds(g, s, m)
  BY <1>2
<1>4. CASE m = 0
  <2> DEFINE g == [i \in 0..0 |-> << >>]
  <2>1. Builds(g, s, 0)
    BY DEF Builds
  <2> QED
    BY <1>3, <1>4, <2>1
<1>5. CASE m # 0
  <2>1. m - 1 \in 0..n /\ ~(m <= m - 1) /\ m \in Nat
    BY <1>3, <1>5
  <2>2. PICK g : Builds(g, s, m - 1)
    BY <1>2, <2>1
  <2> DEFINE h == [i \in 0..m |-> IF i = m THEN g[m - 1] \o EscapeChar(s[m]) ELSE g[i]]
             k == [i \in 0..m |-> IF i = 0 THEN << >> ELSE h[i - 1] \o EscapeChar(s[i])]
  <2>3. ASSUME NEW i \in 0..m PROVE h[i] = k[i]
    <3>1. CASE i = 0
      BY <1>5, <2>1, <2>2, <3>1, SMTT(60) DEF Builds
    <3>2. CASE i = m
      <4>1. h[m - 1] = g[m - 1]
        BY <2>1
      <4> QED
        BY <1>5, <2>1, <3>2, <4>1, ZenonT(60)
    <3>3. CASE i # 0 /\ i # m
      <4>1. i \in 0..(m - 1) /\ i - 1 \in 0..m /\ i - 1 # m
        BY <2>1, <3>3
      <4>2. h[i] = g[i] /\ h[i - 1] = g[i - 1]
        BY <3>3, <4>1
      <4>3. g[i] = g[i - 1] \o EscapeChar(s[i])
        BY <2>2, <3>3, <4>1, Zenon DEF Builds
      <4> QED
        BY <3>3, <4>2, <4>3, ZenonT(60)
    <3> QED
      BY <3>1, <3>2, <3>3, Zenon
  <2>4. h = k
    <3> HIDE DEF h
    <3>1. h = [i \in 0..m |-> h[i]]
      BY DEF h
    <3> QED
      BY <2>3, <3>1, Zenon
  <2>5. Builds(h, s, m)
    BY <2>4, Zenon DEF Builds
  <2> QED
    BY <1>3, <2>5, Zenon
<1> QED
  BY <1>4, <1>5

\* Escaped(s) is such a builder.
LEMMA EscapedBuilds ==
  ASSUME NEW s, Len(s) \in Nat
  PROVE  Builds(Escaped(s), s, Len(s))
<1>1. PICK g : g = [k \in 0..Len(s) |-> IF k = 0 THEN << >> ELSE g[k - 1] \o EscapeChar(s[k])]
  BY BuilderExists, Zenon DEF Builds
<1>2. Escaped(s) = CHOOSE f : f = [k \in 0..Len(s) |-> IF k = 0 THEN << >> ELSE f[k - 1] \o EscapeChar(s[k])]
  BY DEF Escaped
<1>3. Escaped(s) = [k \in 0..Len(s) |-> IF k = 0 THEN << >> ELSE Escaped(s)[k - 1] \o EscapeChar(s[k])]
  BY <1>1, <1>2, Zenon
<1> QED
  BY <1>3, Zenon DEF Builds

\* The characters of a payload.
Written == Chars \cup {"bs", "tab", "nl", "N", "t", "n", "r"}

\* A reader inside a field, and one that has just read a backslash there.
Inside(d, l, f) == [done |-> d, line |-> l, field |-> f, esc |-> FALSE, null |-> FALSE]
Behind(d, l, f) == [done |-> d, line |-> l, field |-> f, esc |-> TRUE, null |-> FALSE]
Nulled(d, l, f) == [done |-> d, line |-> l, field |-> f, esc |-> FALSE, null |-> TRUE]

\* Concatenation, by a name that the provers leave alone.
Cat(s, t) == s \o t

LEMMA CatFacts ==
  ASSUME NEW C, NEW a \in Seq(C), NEW b \in Seq(C), NEW e \in Seq(C)
  PROVE  Cat(a, b) \in Seq(C) /\ Cat(a, Cat(b, e)) = Cat(Cat(a, b), e) /\ Cat(a, << >>) = a
<1>1. a \o b \in Seq(C) /\ a \o (b \o e) = (a \o b) \o e /\ a \o << >> = a
  BY SMTT(60)
<1> QED
  BY <1>1, Zenon DEF Cat

\* A reader appends what EscapeChar wrote for a character to its field, and does
\* not end it.
LEMMA ReadEscape ==
  ASSUME ValidUTF8, NEW text \in Seq(Written), NEW ch \in Chars, NEW d, NEW l, NEW f,
         End(text) = Inside(d, l, f)
  PROVE  /\ EscapeChar(ch) \in Seq(Written)
         /\ End(Cat(text, EscapeChar(ch))) = Inside(d, l, Append(f, ch))
<1>1. ch \in {"bs", "tab", "nl", "cr", "N", "t", "n", "r"} /\ ch \in Written
  BY CharsAssumption, Zenon DEF ValidUTF8, Written
<1>2. CASE ch \in {"bs", "tab", "nl", "cr"}
  <2>1. PICK e \in {"bs", "t", "n", "r"} : EscapeChar(ch) = <<"bs", e>> /\ Unescape(e) = ch
    BY <1>2, Zenon DEF EscapeChar, Unescape
  <2> DEFINE one == Append(text, "bs")
  <2>2. /\ "bs" \in Written /\ e \in Written
        /\ one \in Seq(Written) /\ text \o <<"bs", e>> = Append(one, e)
        /\ <<"bs", e>> \in Seq(Written)
    BY DEF Written
  <2>3. End(one) = Read(Inside(d, l, f), "bs")
    BY <2>2, ReadOn
  <2>4. Read(Inside(d, l, f), "bs") = Behind(d, l, f)
    BY Zenon DEF Read, Inside, Behind
  <2>5. Read(Behind(d, l, f), e) = Inside(d, l, Append(f, ch))
    BY <2>1, Zenon DEF Read, Inside, Behind
  <2> HIDE DEF one
  <2>6. End(Append(one, e)) = Read(End(one), e)
    BY <2>2, ReadOn
  <2>7. Cat(text, EscapeChar(ch)) = Append(one, e)
    BY <2>1, <2>2, Zenon DEF Cat
  <2> QED
    BY <2>1, <2>2, <2>3, <2>4, <2>5, <2>6, <2>7, ZenonT(60)
<1>3. CASE ch \in {"N", "t", "n", "r"}
  <2>1. EscapeChar(ch) = <<ch>>
    BY <1>3, Zenon DEF EscapeChar
  <2>2. <<ch>> \in Seq(Written) /\ text \o <<ch>> = Append(text, ch)
    BY <1>1
  <2>3. End(Append(text, ch)) = Read(Inside(d, l, f), ch)
    BY <1>1, ReadOn, Zenon
  <2>4. Read(Inside(d, l, f), ch) = Inside(d, l, Append(f, ch))
    BY <1>3, Zenon DEF Read, Inside, Behind
  <2>5. Cat(text, EscapeChar(ch)) = Append(text, ch)
    BY <2>1, <2>2, Zenon DEF Cat
  <2> QED
    BY <2>1, <2>2, <2>3, <2>4, <2>5, ZenonT(60)
<1> QED
  BY <1>1, <1>2, <1>3, Zenon

\* Behind an escaped string, the reader has that string in its field.
LEMMA ReadEscaped ==
  ASSUME ValidUTF8, NEW text \in Seq(Written), NEW s \in Seq(Chars), NEW d, NEW l,
         End(text) = Inside(d, l, << >>)
  PROVE  /\ EscapeLoadDataString(s) \in Seq(Written)
         /\ End(Cat(text, EscapeLoadDataString(s))) = Inside(d, l, s)
<1> DEFINE n == Len(s)
           buf == Escaped(s)
           Good(k) == /\ buf[k] \in Seq(Written)
                      /\ End(Cat(text, buf[k])) = Inside(d, l, SubSeq(s, 1, k))
           D == {k \in 0..n : ~Good(k)}
<1>1. n \in Nat /\ \A k \in 1..n : s[k] \in Chars
  OBVIOUS
<1>2. Builds(buf, s, n)
  BY <1>1, EscapedBuilds
<1> HIDE DEF buf
<1>3. Good(0)
  <2>1. buf[0] = << >>
    BY <1>1, <1>2 DEF Builds
  <2>2. Cat(text, << >>) = text /\ << >> \in Seq(Written) /\ SubSeq(s, 1, 0) = << >>
    BY DEF Cat
  <2> QED
    BY <2>1, <2>2, Zenon
<1>4. ASSUME NEW k \in 1..n, Good(k - 1)
      PROVE  Good(k)
  <2>1. buf[k] = Cat(buf[k - 1], EscapeChar(s[k]))
    BY <1>1, <1>2, SMTT(60) DEF Builds, Cat
  <2> DEFINE t == Cat(text, buf[k - 1])
             f == SubSeq(s, 1, k - 1)
  <2>2. Append(f, s[k]) = SubSeq(s, 1, k)
    BY <1>1
  <2>3. s[k] \in Chars /\ buf[k - 1] \in Seq(Written) /\ End(t) = Inside(d, l, f)
    BY <1>1, <1>4
  <2> HIDE DEF f, Good
  <2>4. t \in Seq(Written)
    BY <2>3, CatFacts
  <2>5. EscapeChar(s[k]) \in Seq(Written) /\ End(Cat(t, EscapeChar(s[k]))) = Inside(d, l, Append(f, s[k]))
    <3> HIDE DEF t
    <3> QED
      BY <2>3, <2>4, ReadEscape, SMTT(60)
  <2>6. Cat(text, buf[k]) = Cat(t, EscapeChar(s[k])) /\ buf[k] \in Seq(Written)
    BY <2>1, <2>3, <2>5, CatFacts, SMTT(60)
  <2> QED
    BY <2>2, <2>5, <2>6, Zenon DEF Good
<1>5. Good(n)
  <2> HIDE DEF Good
  <2> SUFFICES ASSUME D # {} PROVE FALSE
    BY <1>1
  <2>1. D \in SUBSET Nat
    BY <1>1
  <2>2. PICK k \in D : \A j \in D : k <= j
    <3> HIDE DEF D
    <3> QED
      BY <2>1, LeastElement, Zenon
  <2>3. k \in 1..n /\ ~Good(k)
    BY <1>1, <1>3, <2>2
  <2>4. k - 1 \in 0..n /\ ~(k <= k - 1)
    BY <1>1, <2>3
  <2>5. Good(k - 1)
    BY <2>2, <2>4, Zenon
  <2> QED
    BY <1>4, <2>3, <2>5, ZenonT(60)
<1>6. SubSeq(s, 1, n) = s
  BY <1>1
<1> QED
  BY <1>5, <1>6, Zenon DEF EscapeLoadDataString, buf

-----------------------------------------------------------------------------
(* The payload *)

\* A row that is not empty has a last parameter, and the reader is at its end.
LEMMA RowEnds ==
  ASSUME NEW l \in Seq(Params), l # << >>, NEW d
  PROVE  \E m \in Seq(Params), p \in Params : l = Append(m, p) /\ AtRow(d, l) = AtEnd(d, m, p)
<1> DEFINE m == SubSeq(l, 1, Len(l) - 1)
           p == l[Len(l)]
<1>1. m \in Seq(Params) /\ p \in Params /\ l = Append(m, p)
  OBVIOUS
<1> QED
  BY <1>1, ZenonT(60) DEF AtRow

LEMMA AtRowOfAppend ==
  ASSUME NEW l \in Seq(Params), NEW p \in Params, NEW d
  PROVE  AtRow(d, Append(l, p)) = AtEnd(d, l, p)
<1> DEFINE s == Append(l, p)
<1>1. SubSeq(s, 1, Len(s) - 1) = l /\ s[Len(s)] = p
  OBVIOUS
<1> QED
  BY <1>1, ZenonT(60) DEF AtRow

\* A parameter is NULL or a text.
LEMMA ParamCases ==
  ASSUME NEW p \in Params
  PROVE  p = Null \/ \E s \in Seq(Chars) : p = Text(s)
<1>1. \A s \in UNION {[1..k -> Chars] : k \in 0..MaxLen} : s \in Seq(Chars)
  BY CharsAssumption
<1> QED
  BY <1>1, Zenon DEF Params

\* A field that ends is the parameter that was written.
LEMMA FieldIsParam ==
  ASSUME NEW p \in Params, NEW d, NEW l
  PROVE  Field(AtEnd(d, l, p)) = p
<1>1. CASE p = Null
  BY <1>1, Zenon DEF Field, AtEnd, Null
<1>2. ASSUME NEW s \in Seq(Chars), p = Text(s)
      PROVE  Field(AtEnd(d, l, p)) = p
  BY <1>2, Zenon DEF Field, AtEnd, Text
<1> QED
  BY <1>1, <1>2, ParamCases, Zenon

\* A tab begins the next field, and a newline the next row.
LEMMA ReadEnd ==
  ASSUME NEW p \in Params, NEW d, NEW l
  PROVE  /\ Read(AtEnd(d, l, p), "tab") = Inside(d, Append(l, p), << >>)
         /\ Read(AtEnd(d, l, p), "nl") = Inside(Append(d, Append(l, p)), << >>, << >>)
<1>1. PICK st : st = AtEnd(d, l, p)
  BY Zenon
<1>2. PICK f, n : st = [done |-> d, line |-> l, field |-> f, esc |-> FALSE, null |-> n]
  BY <1>1, Zenon DEF AtEnd
<1>3. Field(st) = p
  BY <1>1, FieldIsParam, Zenon
<1>4. Read(st, "tab") = Inside(d, Append(l, p), << >>)
  BY <1>2, <1>3, ZenonT(60) DEF Read, Inside
<1>5. Read(st, "nl") = Inside(Append(d, Append(l, p)), << >>, << >>)
  BY <1>2, <1>3, ZenonT(60) DEF Read, Inside
<1> QED
  BY <1>1, <1>4, <1>5, Zenon

\* So they do at the end of the last parameter of a row.
LEMMA ReadRowEnd ==
  ASSUME NEW l \in Seq(Params), l # << >>, NEW d
  PROVE  /\ Read(AtRow(d, l), "tab") = Inside(d, l, << >>)
         /\ Read(AtRow(d, l), "nl") = Inside(Append(d, l), << >>, << >>)
<1>1. PICK m \in Seq(Params), p \in Params : l = Append(m, p) /\ AtRow(d, l) = AtEnd(d, m, p)
  BY RowEnds
<1> QED
  BY <1>1, ReadEnd, ZenonT(60)

\* Behind what formatLoadDataParam wrote, the reader is at the end of the parameter.
LEMMA ReadParam ==
  ASSUME ValidUTF8, NEW text \in Seq(Written), NEW p \in Params, NEW d, NEW l,
         End(text) = Inside(d, l, << >>)
  PROVE  /\ FormatLoadDataParam(p) \in Seq(Written)
         /\ End(Cat(text, FormatLoadDataParam(p))) = AtEnd(d, l, p)
<1>1. CASE p = Null
  <2> DEFINE one == Append(text, "bs")
  <2>1. FormatLoadDataParam(p) = <<"bs", "N">>
    BY <1>1 DEF FormatLoadDataParam, Null
  <2>2. /\ "bs" \in Written /\ "N" \in Written
        /\ one \in Seq(Written) /\ text \o <<"bs", "N">> = Append(one, "N")
        /\ <<"bs", "N">> \in Seq(Written)
    BY DEF Written
  <2>3. End(one) = Read(Inside(d, l, << >>), "bs")
    BY <2>2, ReadOn, ZenonT(60)
  <2>4. Read(Inside(d, l, << >>), "bs") = Behind(d, l, << >>)
    BY Zenon DEF Read, Inside, Behind
  <2>5. Read(Behind(d, l, << >>), "N") = AtEnd(d, l, Null)
    <3>1. PICK f : f = << >>
      BY Zenon
    <3>2. Append(f, Unescape("N")) = <<"N">>
      BY <3>1 DEF Unescape
    <3>3. Read(Behind(d, l, f), "N") = Nulled(d, l, Append(f, Unescape("N")))
      BY <3>1, Zenon DEF Read, Behind, Nulled
    <3>4. AtEnd(d, l, Null) = Nulled(d, l, <<"N">>)
      BY Zenon DEF AtEnd, Null, Nulled
    <3> QED
      BY <3>1, <3>2, <3>3, <3>4, Zenon
  <2> HIDE DEF one
  <2>6. End(Append(one, "N")) = Read(End(one), "N")
    BY <2>2, ReadOn, ZenonT(60)
  <2>7. Cat(text, FormatLoadDataParam(p)) = Append(one, "N")
    BY <2>1, <2>2, Zenon DEF Cat
  <2> QED
    BY <1>1, <2>1, <2>2, <2>3, <2>4, <2>5, <2>6, <2>7, ZenonT(60)
<1>2. ASSUME NEW s \in Seq(Chars), p = Text(s)
      PROVE  /\ FormatLoadDataParam(p) \in Seq(Written)
             /\ End(Cat(text, FormatLoadDataParam(p))) = AtEnd(d, l, p)
  <2>1. FormatLoadDataParam(p) = EscapeLoadDataString(s)
    BY <1>2, Zenon DEF FormatLoadDataParam, Text
  <2>2. EscapeLoadDataString(s) \in Seq(Written) /\ End(Cat(text, EscapeLoadDataString(s))) = Inside(d, l, s)
    BY ReadEscaped
  <2>3. Inside(d, l, s) = AtEnd(d, l, p)
    BY <1>2, Zenon DEF Inside, AtEnd, Text
  <2> QED
    BY <2>1, <2>2, <2>3, Zenon
<1> QED
  BY <1>1, <1>2, ParamCases, ZenonT(60)

\* The first row begins.
LEMMA LoadInitInv == LoadInit => LoadInv
<1> SUFFICES ASSUME LoadInit PROVE LoadInv
  OBVIOUS
<1>1. rows = << >> /\ row = << >> /\ payload = << >>
  BY DEF LoadInit
<1>2. AtEnd(<< >>, << >>, Text(<< >>)) = Start
  BY Zenon DEF Start, AtEnd, Text
<1>3. End(payload) = AtEnd(rows, << >>, Text(<< >>))
  BY <1>1, <1>2, ReadNothing, ZenonT(60)
<1> QED
  BY <1>1, <1>3, SMTT(60) DEF LoadInv, End

\* One more parameter.
LEMMA WriteParamInv ==
  ASSUME ValidUTF8, LoadInv, NEW p \in Params, WriteParam(p)
  PROVE  LoadInv'
<1> DEFINE text == Cat(payload, Separator)
<1>1. /\ rows \in Seq(Seq(Params)) /\ row \in Seq(Params) /\ payload \in Seq(Written)
      /\ End(payload) = IF row = << >> THEN AtEnd(rows, << >>, Text(<< >>))
                        ELSE AtRow(rows, row)
  BY Zenon DEF LoadInv, End, Written
<1>2. /\ row' = Append(row, p) /\ rows' = rows
      /\ payload' = Cat(text, FormatLoadDataParam(p))
  BY DEF WriteParam, Cat
<1>3. text \in Seq(Written) /\ End(text) = Inside(rows, row, << >>)
  <2>1. CASE row = << >>
    <3>1. text = payload
      BY <1>1, <2>1 DEF Separator, Cat
    <3>2. AtEnd(rows, << >>, Text(<< >>)) = Inside(rows, << >>, << >>)
      BY Zenon DEF AtEnd, Text, Inside
    <3> QED
      BY <1>1, <2>1, <3>1, <3>2, ZenonT(60)
  <2>2. CASE row # << >>
    <3>1. text = Append(payload, "tab") /\ "tab" \in Written /\ text \in Seq(Written)
      BY <1>1, <2>2, SMTT(60) DEF Separator, Cat, Written
    <3>2. End(text) = Read(End(payload), "tab")
      BY <1>1, <3>1, ReadOn, ZenonT(60)
    <3>3. Read(AtRow(rows, row), "tab") = Inside(rows, row, << >>)
      BY <1>1, <2>2, ReadRowEnd, Zenon
    <3> QED
      BY <1>1, <2>2, <3>1, <3>2, <3>3, ZenonT(60)
  <2> QED
    BY <2>1, <2>2, Zenon
<1>4. /\ FormatLoadDataParam(p) \in Seq(Written)
      /\ End(Cat(text, FormatLoadDataParam(p))) = AtEnd(rows, row, p)
  <2> HIDE DEF text
  <2> QED
    BY <1>3, ReadParam, Zenon
<1>5. row' # << >> /\ row' \in Seq(Params)
  BY <1>1, <1>2
<1>6. payload' \in Seq(Written)
  BY <1>2, <1>3, <1>4, CatFacts, SMTT(60)
<1>7. End(payload') = AtRow(rows', row')
  BY <1>1, <1>2, <1>4, AtRowOfAppend, ZenonT(60)
<1> QED
  BY <1>1, <1>2, <1>5, <1>6, <1>7, ZenonT(60) DEF LoadInv, End, Written

\* The end of a line.
LEMMA EndLineInv ==
  ASSUME LoadInv, EndLine
  PROVE  LoadInv'
<1>1. /\ rows \in Seq(Seq(Params)) /\ row \in Seq(Params) /\ payload \in Seq(Written)
      /\ row # << >> /\ End(payload) = AtRow(rows, row)
  BY DEF LoadInv, EndLine, End, Written
<1>2. row' = << >> /\ rows' = Append(rows, row) /\ payload' = Append(payload, "nl")
  BY Zenon DEF EndLine
<1>3. End(payload') = Read(End(payload), "nl") /\ payload' \in Seq(Written)
  <2>1. "nl" \in Written
    BY DEF Written
  <2> QED
    BY <1>1, <1>2, <2>1, ReadOn, SMTT(60)
<1>4. Read(AtRow(rows, row), "nl") = Inside(rows', << >>, << >>)
  BY <1>1, <1>2, ReadRowEnd, ZenonT(60)
<1>5. AtEnd(rows', << >>, Text(<< >>)) = Inside(rows', << >>, << >>)
  BY Zenon DEF AtEnd, Text, Inside
<1>6. rows' \in Seq(Seq(Params)) /\ row' \in Seq(Params)
  BY <1>1, <1>2
<1>7. End(payload') = AtEnd(rows', << >>, Text(<< >>))
  BY <1>1, <1>3, <1>4, <1>5, ZenonT(60)
<1> QED
  BY <1>2, <1>3, <1>6, <1>7, ZenonT(60) DEF LoadInv, End, Written

-----------------------------------------------------------------------------
(* The executor *)

LEMMA BatchInitInv == BatchInit => BatchLoadInv
<1> SUFFICES ASSUME BatchInit PROVE BatchLoadInv
  OBVIOUS
<1>1. job \in Jobs /\ stage = "start" /\ rows = << >> /\ LoadInv
  BY LoadInitInv DEF BatchInit, ExecInit, LoadInit
<1>2. job.n \in Nat \ {0}
  BY <1>1, JobFacts, Zenon
<1> QED
  BY <1>1, <1>2 DEF BatchLoadInv

\* An iteration of the loops that write the payload.
LEMMA WritingInv ==
  ASSUME ValidUTF8, BatchLoadInv, Writing, LoadNext, UNCHANGED executorVars
  PROVE  BatchLoadInv'
<1>1. /\ LoadInv /\ job \in Jobs /\ stage = "loadExec" /\ Len(rows) < job.n
      /\ job' = job /\ stage' = stage
  BY DEF BatchLoadInv, Writing, executorVars
<1>2. job.n \in Nat \ {0} /\ rows \in Seq(Seq(Params))
  BY <1>1, JobFacts, Zenon DEF LoadInv
<1>3. CASE EndLine
  <2>1. LoadInv' /\ rows' = Append(rows, row) /\ row' = << >> /\ row \in Seq(Params)
    BY <1>1, <1>3, EndLineInv, Zenon DEF EndLine, LoadInv
  <2>2. Len(rows') = Len(rows) + 1
    BY <1>2, <2>1
  <2> QED
    BY <1>1, <1>2, <2>1, <2>2, SMTT(60) DEF BatchLoadInv
<1>4. ASSUME NEW p \in Params, WriteParam(p)
      PROVE  BatchLoadInv'
  <2>1. LoadInv' /\ rows' = rows
    BY <1>1, <1>4, WriteParamInv, Zenon DEF WriteParam
  <2> QED
    BY <1>1, <1>2, <2>1, SMTT(60) DEF BatchLoadInv
<1> QED
  BY <1>3, <1>4, ZenonT(60) DEF LoadNext

\* No step of the executor changes the batch.
LEMMA JobStays ==
  ASSUME ExecNext
  PROVE  job' = job
BY Zenon DEF ExecNext, Dispatch, ExecuteSingle, PanicInDelete, ExecuteDelete, ExecuteMultiRow, ParseInsert, Begin, Prepare,
       PreparedExec, PreparedEnd, MixedExec, CopyExec, LoadExec, CommitTx, Others

\* A batch that chose LOAD DATA reaches its commit through LOAD DATA only.
LEMMA LoadStages ==
  ASSUME ExecNext, Strategy = "load",
         stage \in {"start", "load", "loadExec", "multi", "commit", "done"}
  PROVE  /\ stage' \in {"start", "load", "loadExec", "multi", "commit", "done"}
         /\ stage' = "commit" => stage \in {"loadExec", "commit"}
<1>1. CASE Dispatch
  BY <1>1 DEF Dispatch, Goto
<1>2. CASE ExecuteMultiRow
  BY <1>2, Zenon DEF ExecuteMultiRow, Succeed, FailAll, Finish
<1>3. CASE ParseInsert
  BY <1>3, Zenon DEF ParseInsert, Goto
<1>4. CASE LoadExec
  BY <1>4, Zenon DEF LoadExec, Goto, FailAll, Finish
<1>5. CASE CommitTx
  BY <1>5 DEF CommitTx, CommitFails, Succeed, FailAll, Finish
<1>6. CASE Others
  BY <1>6 DEF Others
<1>7. ~(ExecuteSingle \/ PanicInDelete \/ ExecuteDelete \/ Begin \/ Prepare \/ PreparedExec \/ PreparedEnd
        \/ MixedExec \/ CopyExec)
  BY Zenon DEF ExecuteSingle, PanicInDelete, ExecuteDelete, Begin, Prepare, PreparedExec, PreparedEnd, MixedExec, CopyExec
<1> QED
  BY <1>1, <1>2, <1>3, <1>4, <1>5, <1>6, <1>7, ZenonT(60) DEF ExecNext

\* A call to the database.
LEMMA ExecutingInv ==
  ASSUME BatchLoadInv, ~Writing, ExecNext, UNCHANGED loadVars
  PROVE  BatchLoadInv'
<1>1. /\ LoadInv /\ job \in Jobs /\ Len(rows) <= job.n /\ (Len(rows) = job.n => row = << >>)
      /\ rows' = rows /\ row' = row /\ payload' = payload /\ job' = job
  BY JobStays, Zenon DEF BatchLoadInv, loadVars
<1>2. LoadInv'
  BY <1>1, Zenon DEF LoadInv
<1>3. Strategy' = Strategy
  BY <1>1, Zenon DEF Strategy, BatchedStrategy, InsertStrategy, IsBatchableInsert, IsBatchableDelete,
              AllParamsAreSimple, ContainsPostgresPlaceholder
<1>4. job.n \in Nat /\ Len(rows) \in Nat
  BY <1>1, JobFacts, SMTT(60) DEF LoadInv
<1>5. stage = "loadExec" => Len(rows) = job.n
  BY <1>1, <1>4 DEF Writing
<1>6. ASSUME Strategy = "load"
      PROVE  /\ stage' \in {"start", "load", "loadExec", "multi", "commit", "done"}
             /\ stage' = "commit" => Len(rows) = job.n
  BY <1>5, <1>6, LoadStages, Zenon DEF BatchLoadInv
<1> QED
  BY <1>1, <1>2, <1>3, <1>6, ZenonT(60) DEF BatchLoadInv

\* The inductive invariant holds throughout.
LEMMA BatchLoadInvariance ==
  ASSUME ValidUTF8
  PROVE  BatchSpec => []BatchLoadInv
<1>1. BatchLoadInv /\ [BatchNext]_loadExecVars => BatchLoadInv'
  <2> SUFFICES ASSUME BatchLoadInv, [BatchNext]_loadExecVars PROVE BatchLoadInv'
    OBVIOUS
  <2>1. CASE BatchNext
    BY <2>1, WritingInv, ExecutingInv DEF BatchNext
  <2>2. CASE UNCHANGED loadExecVars
    <3>1. /\ rows' = rows /\ row' = row /\ payload' = payload /\ job' = job /\ stage' = stage
      BY <2>2, Zenon DEF loadExecVars, loadVars, executorVars
    <3> QED
      BY <3>1, ZenonT(60) DEF BatchLoadInv, LoadInv, Strategy, BatchedStrategy, InsertStrategy, IsBatchableInsert,
                  IsBatchableDelete, AllParamsAreSimple, ContainsPostgresPlaceholder
  <2> QED
    BY <2>1, <2>2, Zenon
<1> QED
  BY <1>1, BatchInitInv, PTL DEF BatchSpec

\* With parameters that are valid UTF-8, what the server reads from the payload
\* of a LOAD DATA that is committed is exactly the parameters of the batch: escapeLoadDataString and
\* formatLoadDataParam are undone by the reader, whatever the parameters.
THEOREM AlwaysLoadsWhatWasWritten ==
  ASSUME ValidUTF8
  PROVE  BatchSpec => []LoadsWhatWasWritten
<1>1. BatchLoadInv => LoadsWhatWasWritten
  <2> SUFFICES ASSUME BatchLoadInv, stage = "commit", Strategy = "load"
               PROVE  Len(rows) = job.n /\ Loaded = rows
    BY Zenon DEF LoadsWhatWasWritten
  <2>1. Len(rows) = job.n /\ row = << >> /\ LoadInv
    BY Zenon DEF BatchLoadInv
  <2>2. Reader(payload)[Len(payload)] = AtEnd(rows, << >>, Text(<< >>))
    BY <2>1, Zenon DEF LoadInv
  <2> QED
    BY <2>1, <2>2, SMTT(60) DEF Loaded, AtEnd
<1> QED
  BY <1>1, BatchLoadInvariance, PTL

\* Writing the payload is invisible to the executor: executeBatch with its LOAD
\* DATA payload does only what the executor does, so that what is proved of the
\* executor holds of it.
THEOREM BatchKeepsExecutor == BatchSpec => ExecSpec
<1>1. BatchInit => ExecInit
  BY Zenon DEF BatchInit
<1>2. [BatchNext]_loadExecVars => [ExecNext]_executorVars
  BY Zenon DEF BatchNext, loadExecVars
<1> QED
  BY <1>1, <1>2, PTL DEF BatchSpec, ExecSpec

\* So, in executeBatch with its LOAD DATA payload, a batch is committed as a
\* whole or not at all and never twice, the statement of what is acknowledged was
\* committed, the callbacks run iff all succeeded, and, where each request inserts
\* one row and the table numbers it, an insert id is that of an own row.
THEOREM BatchKeepsPromises ==
  BatchSpec => [](AppliedAllOrNone /\ AckedIsApplied /\ InsertIdIsOwn /\ NotifiedIffAllSucceed)
BY BatchKeepsExecutor, AlwaysAllOrNone, AckedIsAlwaysApplied, InsertIdIsAlwaysOwn,
   AlwaysNotifiedIffAllSucceed, PTL
=============================================================================
