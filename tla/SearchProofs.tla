---------------------------- MODULE SearchProofs ------------------------------
(***************************************************************************)
(* Theorems about Search, for every corpus, document and question that the *)
(* constants name: what chunking leaves of a document, what the passages   *)
(* of an answer are, what the fusion of two arms lists and what a page of  *)
(* search says of itself.  What a function defined by recursion computes is *)
(* proved from the least argument at which it would be wrong.              *)
(***************************************************************************)
EXTENDS Search, SequenceTheorems, FiniteSetTheorems, NaturalsInduction,
        WellFoundedInduction, TLAPS

-----------------------------------------------------------------------------
(* Functions defined by recursion over 0..k.                               *)

\* Of some numbers one is the least.
LEMMA Least1 ==
    ASSUME NEW S \in SUBSET Nat, S # {}
    PROVE  \E n \in S : \A m \in S : n <= m
<1>1. PICK n \in S : \A m \in S : <<m, n>> \notin OpToRel(<, Nat)
  BY NatLessThanWellFounded, WFMin
<1>2. \A m \in S : ~(m < n)
  BY <1>1 DEF OpToRel
<1>3. \A m \in S : n <= m
  BY <1>2
<1> QED
  BY <1>3

\* A set with 0 that a step of one does not leave holds all of 0..k.
LEMMA UpTo ==
    ASSUME NEW k \in Nat, NEW T, 0 \in T, \A n \in 0..k : n \in T /\ n < k => n + 1 \in T
    PROVE  \A n \in 0..k : n \in T
<1>1. SUFFICES ASSUME NEW m \in 0..k, m \notin T
               PROVE  FALSE
  OBVIOUS
<1> DEFINE Out == {n \in Nat : n <= k /\ n \notin T}
<1>2. Out \in SUBSET Nat /\ Out # {}
  BY <1>1
<1>3. PICK n \in Out : \A i \in Out : n <= i
  <2> HIDE DEF Out
  <2> QED
    BY <1>2, Least1
<1>4. n \in Nat /\ n <= k /\ n \notin T
  OBVIOUS
<1>5. n # 0
  BY <1>4
<1>6. n - 1 \in 0..k /\ n - 1 \in Nat /\ n - 1 < k /\ (n - 1) + 1 = n /\ ~(n <= n - 1)
  BY <1>4, <1>5
<1>7. n - 1 \in T
  BY <1>3, <1>6
<1> QED
  BY <1>4, <1>6, <1>7

\* f is b at 0, and what g makes of it after each step.
IsRecursion(f, k, S, b, g) ==
    f \in [0..k -> S] /\ f[0] = b /\ \A n \in 1..k : f[n] = g[n][f[n - 1]]

\* Where every step has a result, the recursion has one.
LEMMA Recursion ==
    ASSUME NEW k \in Nat, NEW S, NEW b \in S, NEW g \in [1..k -> [S -> S]]
    PROVE  \E f : IsRecursion(f, k, S, b, g)
<1> DEFINE Is(m, f) == IsRecursion(f, m, S, b, g)
           T == {m \in Nat : m <= k /\ \E f : Is(m, f)}
<1>1. 0 \in T
  <2>1. Is(0, [n \in 0..0 |-> b])
    BY DEF IsRecursion
  <2> HIDE DEF Is
  <2> QED
    BY <2>1
<1>2. ASSUME NEW m \in 0..k, m \in T, m < k
      PROVE  m + 1 \in T
  <2>1. PICK f : Is(m, f)
    <3> HIDE DEF Is
    <3> QED
      BY <1>2
  <2> DEFINE h == [n \in 0..m + 1 |-> IF n = m + 1 THEN g[m + 1][f[m]] ELSE f[n]]
  <2>2. m \in 0..m /\ f[m] \in S /\ m + 1 \in 1..k
    BY <1>2, <2>1 DEF IsRecursion
  <2>3. g[m + 1][f[m]] \in S
    BY <2>2
  <2>4. h \in [0..m + 1 -> S] /\ h[0] = b
    BY <2>1, <2>3 DEF IsRecursion
  <2>5. ASSUME NEW n \in 1..m + 1
        PROVE  h[n] = g[n][h[n - 1]]
    <3>1. n - 1 \in 0..m /\ h[n - 1] = f[n - 1]
      OBVIOUS
    <3>2. CASE n = m + 1
      BY <3>1, <3>2
    <3>3. CASE n # m + 1
      BY <2>1, <3>1, <3>3 DEF IsRecursion
    <3> QED
      BY <3>2, <3>3
  <2>6. Is(m + 1, h)
    BY <2>4, <2>5 DEF IsRecursion
  <2> HIDE DEF Is, h
  <2> QED
    BY <1>2, <2>6
<1>3. k \in T
  <2> HIDE DEF T
  <2>1. k \in 0..k
    OBVIOUS
  <2> QED
    BY <1>1, <1>2, <2>1, UpTo
<1> QED
  BY <1>3

\* A sequence with one element more.
LEMMA AppendFacts ==
    ASSUME NEW S, NEW s \in Seq(S), NEW e \in S
    PROVE  /\ Append(s, e) \in Seq(S) /\ Append(s, e) # <<>> /\ Len(Append(s, e)) = Len(s) + 1
           /\ Len(s) \in Nat /\ DOMAIN s = 1..Len(s) /\ DOMAIN Append(s, e) = 1..Len(s) + 1
           /\ \A n \in DOMAIN s : Append(s, e)[n] = s[n]
           /\ Append(s, e)[Len(s) + 1] = e
           /\ ToSet(Append(s, e)) = ToSet(s) \cup {e}
<1>1. /\ Append(s, e) \in Seq(S) /\ Append(s, e) # <<>> /\ Len(Append(s, e)) = Len(s) + 1
      /\ Len(s) \in Nat /\ DOMAIN s = 1..Len(s) /\ DOMAIN Append(s, e) = 1..Len(s) + 1
      /\ \A n \in DOMAIN s : Append(s, e)[n] = s[n]
      /\ Append(s, e)[Len(s) + 1] = e
  OBVIOUS
<1> DEFINE t == Append(s, e)
<1>2. /\ DOMAIN t = DOMAIN s \cup {Len(s) + 1} /\ t[Len(s) + 1] = e /\ \A n \in DOMAIN s : t[n] = s[n]
  BY <1>1
<1> HIDE DEF t
<1>3. ToSet(t) = ToSet(s) \cup {e}
  BY <1>2 DEF ToSet
<1> QED
  BY <1>1, <1>3 DEF t

-----------------------------------------------------------------------------
(* Chunks.                                                                 *)

Sections == Seq(Nat)
SplitStates == [sections : Seq(Sections) \ {<<>>}, open : BOOLEAN]

\* A line leaves sections of sentences.
LEMMA AddLineType ==
    ASSUME NEW s \in SplitStates, NEW line \in Lines
    PROVE  AddLine(s, line) \in SplitStates
<1> DEFINE ss == s.sections
           n == Len(s.sections)
           last == s.sections[n]
           words == IF s.open THEN [last EXCEPT ![Len(last)] = @ + 1] ELSE Append(last, 1)
<1>1. ss \in Seq(Sections) /\ ss # <<>> /\ s.open \in BOOLEAN
  BY DEF SplitStates
<1>2. n \in 1..n /\ last \in Sections
  BY <1>1
<1>3. words \in Sections
  <2> HIDE DEF last
  <2>1. \A q \in Seq(Nat) : Append(q, 1) \in Seq(Nat)
    OBVIOUS
  <2>2. ASSUME NEW q \in Seq(Nat)
        PROVE  [q EXCEPT ![Len(q)] = @ + 1] \in Seq(Nat)
    <3>1. CASE q = <<>>
      <4>1. Len(q) = 0 /\ q = [i \in {} |-> 0]
        BY <3>1
      <4>2. [q EXCEPT ![Len(q)] = @ + 1] = q
        BY <4>1
      <4> QED
        BY <4>2
    <3>2. CASE q # <<>>
      <4>1. Len(q) \in 1..Len(q) /\ q[Len(q)] + 1 \in Nat
        BY <3>2
      <4> QED
        BY <4>1, ExceptSeq
    <3> QED
      BY <3>1, <3>2
  <2> QED
    BY <1>2, <2>1, <2>2 DEF Sections
<1>4. CASE line = "heading"
  <2>1. Append(ss, <<>>) \in Seq(Sections) \ {<<>>}
    BY <1>1 DEF Sections
  <2> QED
    BY <1>4, <2>1 DEF AddLine, SplitStates
<1>5. CASE line = "blank"
  BY <1>5 DEF AddLine, SplitStates
<1>6. CASE line \notin {"heading", "blank"}
  <2>1. [ss EXCEPT ![n] = words] \in Seq(Sections) \ {<<>>}
    <3> HIDE DEF words
    <3> QED
      BY <1>1, <1>2, <1>3
  <2>2. AddLine(s, line) = [sections |-> [ss EXCEPT ![n] = words], open |-> line = "runs on"]
    BY <1>6 DEF AddLine
  <2>3. (line = "runs on") \in BOOLEAN
    OBVIOUS
  <2> DEFINE o == line = "runs on"
             e == [ss EXCEPT ![n] = words]
  <2>4. AddLine(s, line) = [sections |-> e, open |-> o] /\ e \in Seq(Sections) \ {<<>>} /\ o \in BOOLEAN
    BY <2>1, <2>2, <2>3
  <2> HIDE DEF e, o
  <2> QED
    BY <2>4 DEF SplitStates
<1> QED
  BY <1>4, <1>5, <1>6

\* A document is split into sections of sentences.
LEMMA SplitSectionsType ==
    ASSUME NEW doc \in Seq(Lines)
    PROVE  SplitSections(doc) \in Seq(Sections)
<1> DEFINE k == Len(doc)
           b == [sections |-> <<<<>>>>, open |-> FALSE]
           g == [n \in 1..k |-> [s \in SplitStates |-> AddLine(s, doc[n])]]
           split == Splits(doc)
<1>1. k \in Nat /\ b \in SplitStates
  <2>1. <<<<>>>> \in Seq(Sections) \ {<<>>}
    BY DEF Sections
  <2> QED
    BY <2>1 DEF SplitStates
<1>2. g \in [1..k -> [SplitStates -> SplitStates]]
  BY AddLineType
<1>3. PICK f : IsRecursion(f, k, SplitStates, b, g)
  <2> HIDE DEF k, b, g
  <2> QED
    BY <1>1, <1>2, Recursion
<1>4. f = [n \in 0..k |-> IF n = 0 THEN b ELSE AddLine(f[n - 1], doc[n])]
  <2>1. ASSUME NEW n \in 1..k
        PROVE  f[n - 1] \in SplitStates /\ f[n] = AddLine(f[n - 1], doc[n])
    <3>1. n - 1 \in 0..k
      BY <1>1
    <3>2. f[n - 1] \in SplitStates
      BY <1>3, <3>1 DEF IsRecursion
    <3> QED
      BY <1>3, <3>2 DEF IsRecursion
  <2> HIDE DEF k, b, g
  <2> QED
    BY <1>1, <1>3, <2>1 DEF IsRecursion
<1>5. split = [n \in 0..k |-> IF n = 0 THEN b ELSE AddLine(split[n - 1], doc[n])]
  BY <1>4 DEF Splits
<1> DEFINE T == {n \in 0..k : split[n] \in SplitStates}
<1> HIDE DEF k, b, g, split
<1>6. 0 \in T
  BY <1>1, <1>5
<1>7. ASSUME NEW n \in 0..k, n \in T, n < k
      PROVE  n + 1 \in T
  <2>1. n + 1 \in 0..k /\ n + 1 # 0 /\ (n + 1) - 1 = n
    BY <1>1, <1>7
  <2>2. split[n + 1] = AddLine(split[n], doc[n + 1])
    BY <1>5, <2>1
  <2>3. doc[n + 1] \in Lines
    BY <2>1 DEF k
  <2> QED
    BY <1>7, <2>1, <2>2, <2>3, AddLineType
<1>8. k \in 0..k
  BY <1>1
<1>9. k \in T
  <2> HIDE DEF T
  <2> QED
    BY <1>1, <1>6, <1>7, <1>8, UpTo
<1> QED
  BY <1>9 DEF SplitStates, SplitSections, split, k

\* The lines of the first n sentences, by recursion.
LEMMA LinesToDef ==
    ASSUME NEW section \in Sections
    PROVE  \A n \in 0..Len(section) :
             LinesTo(section)[n] \in Nat /\ (n > 0 => LinesTo(section)[n] = LinesTo(section)[n - 1] + section[n])
<1> DEFINE k == Len(section)
           g == [n \in 1..k |-> [s \in Nat |-> s + section[n]]]
           lines == LinesTo(section)
<1>1. k \in Nat /\ \A n \in 1..k : section[n] \in Nat
  BY DEF Sections
<1>2. g \in [1..k -> [Nat -> Nat]]
  BY <1>1
<1>3. PICK f : IsRecursion(f, k, Nat, 0, g)
  <2> HIDE DEF k, g
  <2> QED
    BY <1>1, <1>2, Recursion
<1>4. f = [n \in 0..k |-> IF n = 0 THEN 0 ELSE f[n - 1] + section[n]]
  <2>1. ASSUME NEW n \in 1..k
        PROVE  f[n] = f[n - 1] + section[n]
    <3>0. n - 1 \in 0..k
      BY <1>1
    <3>1. f[n - 1] \in Nat
      BY <1>3, <3>0 DEF IsRecursion
    <3> QED
      BY <1>3, <3>1 DEF IsRecursion
  <2> HIDE DEF k, g
  <2> QED
    BY <1>1, <1>3, <2>1 DEF IsRecursion
<1>5. lines = [n \in 0..k |-> IF n = 0 THEN 0 ELSE lines[n - 1] + section[n]]
  BY <1>4 DEF LinesTo
<1> DEFINE T == {n \in 0..k : lines[n] \in Nat}
<1> HIDE DEF k, g, lines
<1>6. 0 \in T
  BY <1>1, <1>5
<1>7. ASSUME NEW n \in 0..k, n \in T, n < k
      PROVE  n + 1 \in T
  <2>1. n + 1 \in 0..k /\ n + 1 # 0 /\ (n + 1) - 1 = n /\ n + 1 \in 1..k
    BY <1>1, <1>7
  <2>2. lines[n + 1] = lines[n] + section[n + 1]
    BY <1>5, <2>1
  <2> QED
    BY <1>1, <1>7, <2>1, <2>2
<1>8. \A n \in 0..k : n \in T
  <2> HIDE DEF T
  <2> QED
    BY <1>1, <1>6, <1>7, UpTo
<1>9. \A n \in 0..k : lines[n] \in Nat /\ (n > 0 => lines[n] = lines[n - 1] + section[n])
  BY <1>1, <1>5, <1>8
<1> QED
  BY <1>9 DEF k, lines

\* A sentence more is as many characters more, and the space before it.
LEMMA CharsGrow ==
    ASSUME NEW section \in Sections, NEW to \in 1..Len(section), NEW from \in 1..to
    PROVE  /\ Chars(section, from, to) \in Int /\ Chars(section, from, to) >= -1
           /\ from < to => Chars(section, from, to)
                             = Chars(section, from, to - 1) + Chars(section, to, to) + 1
<1> DEFINE L == LinesTo(section)
           w == LineChars + 1
<1>0. Len(section) \in Nat /\ w \in Nat
  BY SearchAssumption DEF Sections
<1>1. \A n \in 0..Len(section) : L[n] \in Nat /\ (n > 0 => L[n - 1] <= L[n] /\ L[n - 1] \in Nat)
  <2> SUFFICES ASSUME NEW n \in 0..Len(section)
               PROVE  L[n] \in Nat /\ (n > 0 => L[n - 1] <= L[n] /\ L[n - 1] \in Nat)
    OBVIOUS
  <2>1. L[n] \in Nat /\ (n > 0 => L[n] = L[n - 1] + section[n])
    BY LinesToDef
  <2>2. n > 0 => L[n - 1] \in Nat /\ section[n] \in Nat
    <3>1. n > 0 => n - 1 \in 0..Len(section) /\ n \in 1..Len(section)
      BY <1>0
    <3> QED
      BY <3>1, LinesToDef DEF Sections
  <2> QED
    BY <2>1, <2>2
<1> DEFINE T == {n \in 0..Len(section) : n < from - 1 \/ L[from - 1] <= L[n]}
<1>2. from - 1 \in 0..Len(section) /\ to \in 0..Len(section) /\ to - 1 \in 0..Len(section)
  BY <1>0
<1>3. \A n \in 0..Len(section) : n \in T
  <2>1. 0 \in T
    BY <1>0, <1>1, <1>2
  <2>2. ASSUME NEW n \in 0..Len(section), n \in T, n < Len(section)
        PROVE  n + 1 \in T
    <3>1. n + 1 \in 0..Len(section) /\ n + 1 > 0 /\ (n + 1) - 1 = n
      BY <1>0, <2>2
    <3>2. L[n] \in Nat /\ L[n + 1] \in Nat /\ L[n] <= L[n + 1] /\ L[from - 1] \in Nat
      BY <1>1, <1>2, <3>1
    <3>3. CASE n + 1 = from - 1
      BY <3>1, <3>2, <3>3
    <3>4. CASE n + 1 # from - 1
      BY <1>0, <2>2, <3>1, <3>2, <3>4
    <3> QED
      BY <3>3, <3>4
  <2> HIDE DEF T
  <2> QED
    BY <1>0, <2>1, <2>2, UpTo
<1>4. L[from - 1] <= L[to] /\ L[from - 1] \in Nat /\ L[to] \in Nat /\ L[to - 1] \in Nat
  BY <1>1, <1>2, <1>3
<1>5. /\ Chars(section, from, to) = (L[to] - L[from - 1]) * w - 1
      /\ Chars(section, to, to) = (L[to] - L[to - 1]) * w - 1
      /\ from < to => Chars(section, from, to - 1) = (L[to - 1] - L[from - 1]) * w - 1
  BY <1>0 DEF Chars
<1> HIDE DEF L, w
<1>6. \A x \in Int : x >= 0 => x * w \in Int /\ x * w >= 0
  BY <1>0
<1>7. \A x, y \in Int : (x + y) * w = x * w + y * w /\ x * w \in Int
  BY <1>0
<1>8. Chars(section, from, to) \in Int /\ Chars(section, from, to) >= -1
  <2>1. L[to] - L[from - 1] \in Int /\ L[to] - L[from - 1] >= 0
    BY <1>4
  <2> DEFINE x == L[to] - L[from - 1]
  <2>2. x * w \in Int /\ x * w >= 0
    BY <1>6, <2>1
  <2> HIDE DEF x
  <2>3. Chars(section, from, to) = x * w - 1
    BY <1>5 DEF x
  <2> DEFINE z == x * w
  <2> HIDE DEF z
  <2> QED
    BY <2>2, <2>3 DEF z
<1>9. ASSUME from < to
      PROVE  Chars(section, from, to) = Chars(section, from, to - 1) + Chars(section, to, to) + 1
  <2> DEFINE x == L[to - 1] - L[from - 1]
             y == L[to] - L[to - 1]
  <2>1. x \in Int /\ y \in Int /\ L[to] - L[from - 1] = x + y
    BY <1>4
  <2>2. /\ Chars(section, from, to) = (x + y) * w - 1
        /\ Chars(section, to, to) = y * w - 1
        /\ Chars(section, from, to - 1) = x * w - 1
    BY <1>5, <1>9, <2>1
  <2> HIDE DEF x, y
  <2> DEFINE a == x * w
             b == y * w
  <2>3. (x + y) * w = a + b /\ a \in Int /\ b \in Int
    BY <1>7, <2>1
  <2>4. Chars(section, to, to) = b - 1 /\ Chars(section, from, to - 1) = a - 1
    BY <2>2
  <2> HIDE DEF a, b
  <2> QED
    BY <2>2, <2>3, <2>4
<1> QED
  BY <1>8, <1>9

\* Joining two texts by a space adds one token at most to what they are estimated at.
LEMMA TokensGrow ==
    \A a, b \in Int : a >= -1 /\ b >= -1
        => EstimateTokens(a + b + 1) <= EstimateTokens(a) + EstimateTokens(b) + 1
  BY DEF EstimateTokens

\* Sentences from..to are within the target, or no more than are carried over and one.
Fits(section, from, to) ==
    \/ EstimateTokens(Chars(section, from, to)) <= Target + 1
    \/ to - from <= Overlap

\* The chunks cs hold the sentences 1..end.
Follows(section, cs, n) ==
    /\ n > 1 => /\ cs[n][1] <= cs[n - 1][2] + 1 /\ cs[n][2] > cs[n - 1][2]
                /\ cs[n - 1][2] - cs[n][1] < Overlap
    /\ Fits(section, cs[n][1], cs[n][2])

Cover(section, cs, end) ==
    /\ cs \in Seq(Nat \X Nat) /\ end \in Nat
    /\ UNION {c[1]..c[2] : c \in ToSet(cs)} = 1..end
    /\ cs = <<>> => end = 0
    /\ cs # <<>> => end = cs[Len(cs)][2]
    /\ \A n \in DOMAIN cs : Follows(section, cs, n)

\* A chunk that begins within the overlap and ends later covers more.
LEMMA CoverMore ==
    ASSUME NEW section, NEW cs, NEW end, Cover(section, cs, end),
           NEW from \in 1..end + 1, NEW to \in Nat, end < to, from <= to,
           cs # <<>> => end - from < Overlap, Fits(section, from, to)
    PROVE  Cover(section, Append(cs, <<from, to>>), to)
<1> DEFINE c == <<from, to>>
           ds == Append(cs, c)
<1>0. cs \in Seq(Nat \X Nat) /\ end \in Nat /\ from \in Nat
  BY DEF Cover
<1>1. c \in Nat \X Nat /\ c[1] = from /\ c[2] = to
  BY <1>0
<1> HIDE DEF c
<1>2. /\ ds \in Seq(Nat \X Nat) /\ ds # <<>> /\ Len(ds) = Len(cs) + 1 /\ Len(cs) \in Nat
      /\ ds[Len(cs) + 1] = c /\ DOMAIN cs = 1..Len(cs) /\ DOMAIN ds = 1..Len(cs) + 1
      /\ \A n \in DOMAIN cs : ds[n] = cs[n]
  BY <1>0, <1>1, AppendFacts, SMTT(40)
<1>3. ToSet(ds) = ToSet(cs) \cup {c}
  BY <1>0, <1>1, AppendFacts
<1> HIDE DEF ds
<1>4. UNION {d[1]..d[2] : d \in ToSet(ds)} = 1..to
  <2>1. UNION {d[1]..d[2] : d \in ToSet(ds)} = (UNION {d[1]..d[2] : d \in ToSet(cs)}) \cup (c[1]..c[2])
    BY <1>3
  <2>2. UNION {d[1]..d[2] : d \in ToSet(cs)} = 1..end
    BY DEF Cover
  <2>3. (1..end) \cup (from..to) = 1..to
    BY <1>0
  <2> QED
    BY <1>1, <2>1, <2>2, <2>3
<1>5. ASSUME NEW n \in DOMAIN ds
      PROVE  Follows(section, ds, n)
  <2>1. CASE n \in DOMAIN cs
    <3>1. Follows(section, cs, n)
      BY <2>1 DEF Cover
    <3>2. ds[n] = cs[n] /\ (n > 1 => ds[n - 1] = cs[n - 1])
      <4>1. n > 1 => n - 1 \in DOMAIN cs
        BY <1>2, <2>1
      <4> QED
        BY <1>2, <2>1, <4>1
    <3> QED
      BY <3>1, <3>2 DEF Follows
  <2>2. CASE n = Len(cs) + 1
    <3>1. ds[n] = c /\ (n > 1 => ds[n - 1] = cs[Len(cs)] /\ cs # <<>>)
      <4>1. n > 1 => n - 1 = Len(cs) /\ Len(cs) \in DOMAIN cs
        BY <1>2, <2>2
      <4> QED
        BY <1>2, <2>2, <4>1
    <3>2. n > 1 => ds[n - 1][2] = end
      BY <3>1 DEF Cover
    <3>3. n > 1 => ds[n][1] <= ds[n - 1][2] + 1 /\ ds[n][2] > ds[n - 1][2]
                     /\ ds[n - 1][2] - ds[n][1] < Overlap
      <4> SUFFICES ASSUME n > 1
                   PROVE  ds[n][1] <= ds[n - 1][2] + 1 /\ ds[n][2] > ds[n - 1][2]
                            /\ ds[n - 1][2] - ds[n][1] < Overlap
        OBVIOUS
      <4>1. ds[n][1] = from /\ ds[n][2] = to /\ ds[n - 1][2] = end /\ end - from < Overlap
        BY <1>1, <3>1, <3>2
      <4> QED
        BY <1>0, <4>1
    <3>4. Fits(section, ds[n][1], ds[n][2])
      BY <1>1, <3>1
    <3> QED
      BY <3>3, <3>4 DEF Follows
  <2> QED
    BY <1>2, <2>1, <2>2
<1>6. ds[Len(ds)][2] = to
  BY <1>1, <1>2
<1>7. Cover(section, ds, to)
  BY <1>2, <1>4, <1>5, <1>6 DEF Cover
<1> QED
  BY <1>7 DEF ds, c

\* After i sentences the chunks cut off hold all before the buffer, and the
\* buffer from..i fits.
Buffered(section, b, i) ==
    \E end \in 0..i :
        /\ Cover(section, b.chunks, end)
        /\ b.from \in 1..end + 1
        /\ b.chunks # <<>> => end - b.from < Overlap
        /\ i > 0 => end < i /\ b.from <= i /\ Fits(section, b.from, i)

BufferStates == [from : Nat, chunks : Seq(Nat \X Nat)]
NextBuffer(section, b, i) ==
    IF IsFull(section, b.from, i)
    THEN [from |-> CarryOver(b.from, i - 1), chunks |-> Append(b.chunks, <<b.from, i - 1>>)]
    ELSE b

\* A sentence leaves a buffer whose chunks cover what it has passed (chunk.ts).
LEMMA BufferStep ==
    ASSUME Overlap # 0, NEW section \in Sections, NEW i \in 1..Len(section), NEW b \in BufferStates,
           Buffered(section, b, i - 1)
    PROVE  NextBuffer(section, b, i) \in BufferStates /\ Buffered(section, NextBuffer(section, b, i), i)
<1> DEFINE from == b.from
           c == NextBuffer(section, b, i)
<1>0. Len(section) \in Nat /\ i \in Nat /\ i - 1 \in Nat /\ Overlap \in Nat \ {0} /\ Target \in Nat
  BY SearchAssumption DEF Sections
<1>1. PICK end \in 0..i - 1 :
        /\ Cover(section, b.chunks, end)
        /\ from \in 1..end + 1
        /\ b.chunks # <<>> => end - from < Overlap
        /\ i - 1 > 0 => end < i - 1 /\ from <= i - 1 /\ Fits(section, from, i - 1)
  BY DEF Buffered
<1>2. from \in Nat \ {0} /\ b.chunks \in Seq(Nat \X Nat) /\ from <= i
  BY <1>0, <1>1 DEF BufferStates
<1>3. CASE ~IsFull(section, from, i)
  <2>1. c = b
    BY <1>3 DEF NextBuffer
  <2>2. Fits(section, from, i)
    <3>1. CASE from = i
      BY <1>0, <3>1 DEF Fits
    <3>2. CASE from < i
      <4> DEFINE x == Chars(section, from, i - 1)
                 y == Chars(section, i, i)
      <4>1. EstimateTokens(x) + EstimateTokens(y) <= Target
        <5>1. x \in Int /\ y \in Int
          <6>1. i - 1 \in 1..Len(section) /\ from \in 1..i - 1 /\ i \in 1..i
            BY <1>0, <1>2, <3>2
          <6> QED
            BY <6>1, CharsGrow
        <5>2. EstimateTokens(x) \in Int /\ EstimateTokens(y) \in Int
          BY <5>1 DEF EstimateTokens
        <5>3. ~(EstimateTokens(x) + EstimateTokens(y) > Target)
          BY <1>3, <3>2 DEF IsFull
        <5> HIDE DEF x, y
        <5> QED
          BY <1>0, <5>2, <5>3
      <4>2. x \in Int /\ x >= -1 /\ y \in Int /\ y >= -1 /\ Chars(section, from, i) = x + y + 1
        <5>1. i - 1 \in 1..Len(section) /\ from \in 1..i - 1 /\ i \in 1..i /\ from \in 1..i
          BY <1>0, <1>2, <3>2
        <5> QED
          BY <3>2, <5>1, CharsGrow
      <4> HIDE DEF x, y
      <4>3. EstimateTokens(x + y + 1) <= EstimateTokens(x) + EstimateTokens(y) + 1
        BY <4>2, TokensGrow
      <4>4. EstimateTokens(x) \in Int /\ EstimateTokens(y) \in Int /\ EstimateTokens(x + y + 1) \in Int
        BY <4>2 DEF EstimateTokens
      <4>5. EstimateTokens(Chars(section, from, i)) <= Target + 1
        BY <1>0, <4>1, <4>2, <4>3, <4>4
      <4> QED
        BY <4>5 DEF Fits
    <3> QED
      BY <1>0, <1>2, <3>1, <3>2
  <2> QED
    BY <1>0, <1>1, <1>2, <2>1, <2>2 DEF Buffered
<1>4. CASE IsFull(section, from, i)
  <2> DEFINE d == <<from, i - 1>>
             cs == Append(b.chunks, d)
             f == CarryOver(from, i - 1)
  <2>1. c = [from |-> f, chunks |-> cs]
    BY <1>4 DEF NextBuffer
  <2>2. from < i /\ i - 1 > 0 /\ from <= i - 1 /\ end < i - 1 /\ Fits(section, from, i - 1)
    BY <1>0, <1>1, <1>2, <1>4 DEF IsFull
  <2>3. Cover(section, cs, i - 1)
    BY <1>0, <1>1, <2>2, CoverMore
  <2>4. f \in 1..i - 1 /\ i - 1 - f < Overlap /\ i - f <= Overlap
    BY <1>0, <1>2, <2>2 DEF CarryOver
  <2>5. Fits(section, f, i)
    BY <2>4 DEF Fits
  <2>6. cs \in Seq(Nat \X Nat)
    BY <2>3 DEF Cover
  <2> HIDE DEF cs, f
  <2>7. c \in BufferStates /\ c.from = f /\ c.chunks = cs
    BY <1>0, <2>1, <2>4, <2>6 DEF BufferStates
  <2> HIDE DEF c
  <2>8. i - 1 \in 0..i /\ f \in 1..(i - 1) + 1 /\ i - 1 < i /\ f <= i
    BY <1>0, <2>4
  <2>9. Buffered(section, c, i)
    BY <1>0, <2>3, <2>4, <2>5, <2>7, <2>8 DEF Buffered
  <2> QED
    BY <2>7, <2>9 DEF c
<1> QED
  BY <1>3, <1>4

\* So do all the sentences of a section.
LEMMA BuffersHold ==
    ASSUME Overlap # 0, NEW section \in Sections
    PROVE  LET b == Buffers(section)[Len(section)] IN
           b \in BufferStates /\ Buffered(section, b, Len(section))
<1> DEFINE k == Len(section)
           b == [from |-> 1, chunks |-> <<>>]
           g == [i \in 1..k |-> [s \in BufferStates |-> NextBuffer(section, s, i)]]
           buffer == Buffers(section)
<1>1. k \in Nat /\ b \in BufferStates
  BY DEF Sections, BufferStates
<1>2. g \in [1..k -> [BufferStates -> BufferStates]]
  <2> SUFFICES ASSUME NEW i \in 1..k, NEW s \in BufferStates
               PROVE  NextBuffer(section, s, i) \in BufferStates
    OBVIOUS
  <2>1. s.from \in Nat /\ s.chunks \in Seq(Nat \X Nat) /\ i - 1 \in Nat /\ Overlap \in Nat
    BY <1>1, SearchAssumption DEF BufferStates
  <2>2. CarryOver(s.from, i - 1) \in Nat /\ <<s.from, i - 1>> \in Nat \X Nat
    BY <2>1 DEF CarryOver
  <2>3. Append(s.chunks, <<s.from, i - 1>>) \in Seq(Nat \X Nat)
    BY <2>1, <2>2, AppendFacts
  <2> DEFINE f == CarryOver(s.from, i - 1)
             cs == Append(s.chunks, <<s.from, i - 1>>)
  <2> HIDE DEF f, cs
  <2>4. [from |-> f, chunks |-> cs] \in BufferStates
    BY <2>2, <2>3 DEF BufferStates, f, cs
  <2> QED
    BY <2>4 DEF NextBuffer, f, cs
<1>3. PICK f : IsRecursion(f, k, BufferStates, b, g)
  <2> HIDE DEF k, g, b
  <2> QED
    BY <1>1, <1>2, Recursion
<1>4. f = [i \in 0..k |-> IF i = 0 THEN b ELSE NextBuffer(section, f[i - 1], i)]
  <2>1. ASSUME NEW i \in 1..k
        PROVE  f[i] = NextBuffer(section, f[i - 1], i)
    <3>0. i - 1 \in 0..k
      BY <1>1
    <3>1. f[i - 1] \in BufferStates
      BY <1>3, <3>0 DEF IsRecursion
    <3> QED
      BY <1>3, <3>1 DEF IsRecursion
  <2> HIDE DEF k, g, b
  <2> QED
    BY <1>1, <1>3, <2>1 DEF IsRecursion
<1>5. buffer = [i \in 0..k |-> IF i = 0 THEN b ELSE NextBuffer(section, buffer[i - 1], i)]
  BY <1>4 DEF Buffers, NextBuffer
<1> DEFINE T == {i \in 0..k : buffer[i] \in BufferStates /\ Buffered(section, buffer[i], i)}
<1>6. 0 \in T
  <2>1. buffer[0] = b
    <3> HIDE DEF k, b, buffer
    <3> QED
      BY <1>1, <1>5
  <2>2. Cover(section, <<>>, 0)
    BY DEF Cover, ToSet
  <2>3. Buffered(section, b, 0)
    BY <2>2 DEF Buffered
  <2> HIDE DEF b, buffer, k
  <2> QED
    BY <1>1, <2>1, <2>3
<1>7. ASSUME NEW i \in 0..k, i \in T, i < k
      PROVE  i + 1 \in T
  <2> HIDE DEF b, buffer
  <2>1. i + 1 \in 0..k /\ i + 1 # 0 /\ (i + 1) - 1 = i /\ i + 1 \in 1..Len(section)
    BY <1>1, <1>7
  <2>2. buffer[i + 1] = NextBuffer(section, buffer[i], i + 1)
    BY <1>5, <2>1
  <2> QED
    BY <1>7, <2>1, <2>2, BufferStep
<1>8. \A i \in 0..k : i \in T
  <2> HIDE DEF T
  <2> QED
    BY <1>1, <1>6, <1>7, UpTo
<1> QED
  BY <1>1, <1>8

\* A section's chunks, the last buffer among them, cover it.
LEMMA ChunkSectionCovers ==
    ASSUME Overlap # 0, NEW section \in Sections
    PROVE  Cover(section, ChunkSection(section), Len(section))
<1> DEFINE b == Buffers(section)[Len(section)]
           k == Len(section)
<1>0. k \in Nat
  BY DEF Sections
<1>1. CASE section = <<>>
  <2>1. Cover(section, <<>>, 0)
    BY DEF Cover, ToSet
  <2> QED
    BY <1>1, <2>1 DEF ChunkSection
<1>2. CASE section # <<>>
  <2>1. k > 0
    BY <1>2 DEF Sections
  <2>2. b \in BufferStates /\ Buffered(section, b, k)
    BY BuffersHold
  <2>3. ChunkSection(section) = Append(b.chunks, <<b.from, k>>)
    BY <1>2 DEF ChunkSection
  <2> HIDE DEF b, k
  <2>4. PICK end \in 0..k :
          /\ Cover(section, b.chunks, end)
          /\ b.from \in 1..end + 1
          /\ b.chunks # <<>> => end - b.from < Overlap
          /\ end < k /\ b.from <= k /\ Fits(section, b.from, k)
    BY <2>1, <2>2 DEF Buffered
  <2>5. Cover(section, Append(b.chunks, <<b.from, k>>), k)
    BY <1>0, <2>4, CoverMore
  <2> QED
    BY <2>3, <2>5 DEF k
<1> QED
  BY <1>1, <1>2

-----------------------------------------------------------------------------
(* Finite sets in order.  An order is given as the set of pairs it relates. *)

IsOrderOf(R, S) ==
    /\ \A x, y \in S : x # y => <<x, y>> \in R \/ <<y, x>> \in R
    /\ \A x, y, z \in S : <<x, y>> \in R /\ <<y, z>> \in R => <<x, z>> \in R
    /\ \A x \in S : <<x, x>> \notin R

IsLast(x, S, R) == x \in S /\ \A y \in S : y # x => <<y, x>> \in R

\* A finite ordered set has a last element.
LEMMA LastOf ==
    ASSUME NEW S, IsFiniteSet(S), S # {}, NEW R, IsOrderOf(R, S)
    PROVE  \E x : IsLast(x, S, R)
<1> DEFINE k == Cardinality(S)
           HasLast(X) == X = {} \/ \E x : IsLast(x, X, R)
           T == {n \in 0..k : \A X \in SUBSET S : Cardinality(X) = n => HasLast(X)}
<1>1. k \in Nat
  BY FS_CardinalityType
<1>2. \A X \in SUBSET S : IsFiniteSet(X) /\ Cardinality(X) \in Nat
  BY FS_Subset, FS_CardinalityType
<1>3. 0 \in T
  BY <1>1, <1>2, FS_EmptySet
<1>4. ASSUME NEW n \in 0..k, n \in T, n < k
      PROVE  n + 1 \in T
  <2>1. ASSUME NEW X \in SUBSET S, Cardinality(X) = n + 1
        PROVE  HasLast(X)
    <3>1. X # {}
      BY <1>1, <2>1, FS_EmptySet
    <3>2. PICK e : e \in X
      BY <3>1
    <3> DEFINE Y == X \ {e}
    <3>3. Y \in SUBSET S /\ Cardinality(Y) = n
      <4>1. Cardinality(Y) = Cardinality(X) - 1
        BY <1>2, <3>2, FS_RemoveElement
      <4> QED
        BY <1>1, <2>1, <4>1
    <3>4. HasLast(Y)
      BY <1>4, <3>3
    <3>5. CASE Y = {}
      <4>1. X = {e}
        BY <3>2, <3>5
      <4>2. IsLast(e, X, R)
        BY <4>1 DEF IsLast
      <4> QED
        BY <4>2
    <3>6. CASE Y # {}
      <4>1. PICK m : IsLast(m, Y, R)
        BY <3>4, <3>6
      <4>2. m \in X /\ m # e /\ X = Y \cup {e} /\ X \subseteq S /\ \A y \in Y : y # m => <<y, m>> \in R
        BY <3>2, <4>1 DEF IsLast
      <4>3. CASE <<e, m>> \in R
        <5>1. IsLast(m, X, R)
          BY <4>2, <4>3 DEF IsLast
        <5> QED
          BY <5>1
      <4>4. CASE <<m, e>> \in R
        <5>1. ASSUME NEW y \in X, y # e
              PROVE  <<y, e>> \in R
          <6>1. CASE y = m
            BY <4>4, <6>1
          <6>2. CASE y # m
            BY <3>2, <4>2, <4>4, <5>1, <6>2 DEF IsOrderOf
          <6> QED
            BY <6>1, <6>2
        <5>2. IsLast(e, X, R)
          BY <3>2, <5>1 DEF IsLast
        <5> QED
          BY <5>2
      <4> QED
        BY <3>2, <4>2, <4>3, <4>4 DEF IsOrderOf
    <3> QED
      BY <3>5, <3>6
  <2>2. n + 1 \in 0..k
    BY <1>1, <1>4
  <2> HIDE DEF HasLast
  <2> QED
    BY <2>1, <2>2
<1>5. k \in T
  <2> HIDE DEF T
  <2> QED
    BY <1>1, <1>3, <1>4, UpTo
<1>6. HasLast(S)
  <2> HIDE DEF HasLast
  <2> QED
    BY <1>5
<1> QED
  BY <1>6

\* An order turned round is one.
LEMMA FirstOf ==
    ASSUME NEW S, IsFiniteSet(S), S # {}, NEW R, IsOrderOf(R, S)
    PROVE  \E x \in S : \A y \in S : y # x => <<x, y>> \in R
<1> DEFINE Q == {p \in S \X S : <<p[2], p[1]>> \in R}
<1>1. \A x, y \in S : <<x, y>> \in Q <=> <<y, x>> \in R
  OBVIOUS
<1> HIDE DEF Q
<1>2. IsOrderOf(Q, S)
  BY <1>1 DEF IsOrderOf
<1>3. PICK x : IsLast(x, S, Q)
  BY <1>2, LastOf
<1> QED
  BY <1>1, <1>3 DEF IsLast

\* 1..n has n elements.
LEMMA UpToIsFinite == \A n \in Nat : IsFiniteSet(1..n) /\ Cardinality(1..n) = n
<1> SUFFICES ASSUME NEW n \in Nat
             PROVE  IsFiniteSet(1..n) /\ Cardinality(1..n) = n
  OBVIOUS
<1>1. IsFiniteSet(1..n) /\ Cardinality(1..n) = IF 1 > n THEN 0 ELSE n - 1 + 1
  BY FS_Interval
<1> QED
  BY <1>1

\* A sequence of a finite set has each of its elements once.
LEMMA SeqsOf ==
    ASSUME NEW S, IsFiniteSet(S), NEW s \in SetToSeqs(S)
    PROVE  /\ s \in Seq(S) /\ Len(s) = Cardinality(S) /\ Cardinality(S) \in Nat /\ ToSet(s) = S
           /\ \A i, j \in 1..Len(s) : s[i] = s[j] => i = j
<1> DEFINE n == Cardinality(S)
<1>1. n \in Nat
  BY FS_CardinalityType
<1>2. s \in [1..n -> S] /\ \A i, j \in 1..n : i # j => s[i] # s[j]
  BY DEF SetToSeqs
<1>3. s \in Seq(S) /\ Len(s) = n
  BY <1>1, <1>2
<1>4. ToSet(s) = S
  <2>1. s \in Injection(1..n, S)
    BY <1>2 DEF Injection, IsInjective
  <2>2. IsFiniteSet(1..n) /\ Cardinality(1..n) = n
    BY <1>1, UpToIsFinite
  <2>3. s \in Surjection(1..n, S)
    BY <2>1, <2>2, FS_Injection
  <2>4. DOMAIN s = 1..n /\ (\A t \in S : \E i \in 1..n : s[i] = t) /\ \A i \in 1..n : s[i] \in S
    BY <1>2, <2>3 DEF Surjection
  <2> QED
    BY <2>4 DEF ToSet
<1> QED
  BY <1>1, <1>2, <1>3, <1>4

Sorted(s, R) == \A i, j \in DOMAIN s : i < j => <<s[i], s[j]>> \in R

\* A finite set can be sorted.
LEMMA Sorting ==
    ASSUME NEW S, IsFiniteSet(S), NEW R, IsOrderOf(R, S)
    PROVE  \E s \in SetToSeqs(S) : Sorted(s, R)
<1> DEFINE k == Cardinality(S)
           Sorts(s, X) == s \in SetToSeqs(X) /\ Sorted(s, R)
           T == {n \in 0..k : \A X \in SUBSET S : Cardinality(X) = n => \E s : Sorts(s, X)}
<1>1. k \in Nat
  BY FS_CardinalityType
<1>2. \A X \in SUBSET S : IsFiniteSet(X) /\ Cardinality(X) \in Nat /\ IsOrderOf(R, X)
  BY FS_Subset, FS_CardinalityType DEF IsOrderOf
<1>3. 0 \in T
  <2>1. ASSUME NEW X \in SUBSET S, Cardinality(X) = 0
        PROVE  Sorts(<<>>, X)
    <3>1. X = {} /\ 1..Cardinality(X) = {}
      BY <1>2, <2>1, FS_EmptySet
    <3> QED
      BY <3>1 DEF SetToSeqs, Sorted
  <2> HIDE DEF Sorts
  <2> QED
    BY <1>1, <2>1
<1>4. ASSUME NEW n \in 0..k, n \in T, n < k
      PROVE  n + 1 \in T
  <2>1. ASSUME NEW X \in SUBSET S, Cardinality(X) = n + 1
        PROVE  \E s : Sorts(s, X)
    <3>1. X # {}
      BY <1>1, <2>1, FS_EmptySet
    <3>2. PICK e : IsLast(e, X, R)
      BY <1>2, <3>1, LastOf
    <3> DEFINE Y == X \ {e}
    <3>3. Y \in SUBSET S /\ Cardinality(Y) = n
      <4>1. Cardinality(Y) = Cardinality(X) - 1
        BY <1>2, <3>2, FS_RemoveElement DEF IsLast
      <4> QED
        BY <1>1, <2>1, <4>1
    <3>4. PICK t : Sorts(t, Y)
      <4> HIDE DEF Sorts
      <4> QED
        BY <1>4, <3>3
    <3> DEFINE s == Append(t, e)
    <3>5. /\ t \in Seq(Y) /\ Len(t) = n /\ \A i, j \in 1..n : t[i] = t[j] => i = j
      BY <1>2, <3>3, <3>4, SeqsOf
    <3>6. e \in X /\ t \in Seq(X) /\ \A y \in Y : <<y, e>> \in R
      BY <3>2, <3>5 DEF IsLast
    <3>7. /\ s \in Seq(X) /\ Len(s) = n + 1 /\ DOMAIN s = 1..n + 1 /\ DOMAIN t = 1..n
          /\ (\A i \in 1..n : s[i] = t[i]) /\ s[n + 1] = e
      BY <3>5, <3>6, AppendFacts
    <3> HIDE DEF s
    <3>8. s \in SetToSeqs(X)
      <4>1. s \in [1..n + 1 -> X]
        BY <3>7
      <4>2. \A i, j \in 1..n + 1 : i # j => s[i] # s[j]
        BY <3>5, <3>7
      <4> QED
        BY <2>1, <4>1, <4>2 DEF SetToSeqs
    <3>9. Sorted(s, R)
      <4> SUFFICES ASSUME NEW i \in 1..n + 1, NEW j \in 1..n + 1, i < j
                   PROVE  <<s[i], s[j]>> \in R
        BY <3>7 DEF Sorted
      <4>1. i \in 1..n /\ s[i] = t[i] /\ t[i] \in Y
        BY <3>5, <3>7
      <4>2. CASE j = n + 1
        BY <3>6, <3>7, <4>1, <4>2
      <4>3. CASE j # n + 1
        <5>1. j \in 1..n /\ s[j] = t[j]
          BY <3>7, <4>3
        <5> QED
          BY <3>4, <3>7, <4>1, <5>1 DEF Sorted
      <4> QED
        BY <4>2, <4>3
    <3> QED
      BY <3>8, <3>9
  <2>2. n + 1 \in 0..k
    BY <1>1, <1>4
  <2> HIDE DEF Sorts
  <2> QED
    BY <2>1, <2>2
<1>5. k \in T
  <2> HIDE DEF T
  <2> QED
    BY <1>1, <1>3, <1>4, UpTo
<1>6. \E s : Sorts(s, S)
  <2> HIDE DEF Sorts
  <2> QED
    BY <1>5
<1> QED
  BY <1>6

\* What the first n of a list are.
LEMMA FirstFacts ==
    ASSUME NEW S, NEW s \in Seq(S), NEW n \in Nat
    PROVE  /\ First(s, n) \in Seq(S) /\ Len(First(s, n)) = AtMost(Len(s), n) /\ AtMost(Len(s), n) \in Nat
           /\ AtMost(Len(s), n) <= Len(s) /\ AtMost(Len(s), n) <= n
           /\ Len(s) \in Nat /\ DOMAIN s = 1..Len(s) /\ DOMAIN First(s, n) = 1..AtMost(Len(s), n)
           /\ \A i \in 1..AtMost(Len(s), n) : First(s, n)[i] = s[i]
<1>1. AtMost(Len(s), n) \in 0..Len(s) /\ AtMost(Len(s), n) <= n
  BY DEF AtMost
<1> QED
  BY <1>1 DEF First

\* The first of a list are of it.
LEMMA FirstIsWithin ==
    ASSUME NEW S, NEW s \in Seq(S), NEW n \in Nat
    PROVE  ToSet(First(s, n)) \subseteq ToSet(s)
<1>1. /\ AtMost(Len(s), n) \in Nat /\ AtMost(Len(s), n) <= Len(s)
      /\ Len(s) \in Nat /\ DOMAIN s = 1..Len(s) /\ DOMAIN First(s, n) = 1..AtMost(Len(s), n)
      /\ \A i \in 1..AtMost(Len(s), n) : First(s, n)[i] = s[i]
  BY FirstFacts
<1>2. 1..AtMost(Len(s), n) \subseteq 1..Len(s)
  BY <1>1
<1> QED
  BY <1>1, <1>2 DEF ToSet

\* A set of numbers has a minimum.
LEMMA MinOf ==
    ASSUME NEW S \in SUBSET Nat, S # {}
    PROVE  Min(S) \in S /\ \A n \in S : Min(S) <= n
<1>1. PICK n \in S : \A m \in S : n <= m
  BY Least1
<1> QED
  BY <1>1 DEF Min

\* An order by a number, the greatest first, and where that ties by another, the least first.
LEMMA OrderByTwo ==
    ASSUME NEW S, NEW g \in [S -> Int], NEW a \in [S -> Nat], \A x, y \in S : a[x] = a[y] => x = y
    PROVE  IsOrderOf({p \in S \X S : g[p[1]] > g[p[2]] \/ (g[p[1]] = g[p[2]] /\ a[p[1]] < a[p[2]])}, S)
<1> DEFINE R == {p \in S \X S : g[p[1]] > g[p[2]] \/ (g[p[1]] = g[p[2]] /\ a[p[1]] < a[p[2]])}
<1>1. \A x, y \in S : <<x, y>> \in R <=> (g[x] > g[y] \/ (g[x] = g[y] /\ a[x] < a[y]))
  OBVIOUS
<1> HIDE DEF R
<1>2. \A x \in S : g[x] \in Int /\ a[x] \in Nat
  OBVIOUS
<1>3. \A x, y \in S : x # y => <<x, y>> \in R \/ <<y, x>> \in R
  BY <1>1, <1>2
<1>4. ASSUME NEW x \in S, NEW y \in S, NEW z \in S, <<x, y>> \in R, <<y, z>> \in R
      PROVE  <<x, z>> \in R
  BY <1>1, <1>2, <1>4
<1>5. \A x \in S : <<x, x>> \notin R
  BY <1>1, <1>2
<1> QED
  BY <1>3, <1>4, <1>5 DEF IsOrderOf, R

\* A finite one has a maximum.
LEMMA MaxOf ==
    ASSUME NEW S \in SUBSET Int, IsFiniteSet(S), S # {}
    PROVE  Max(S) \in S /\ \A n \in S : Max(S) >= n
<1> DEFINE R == {p \in S \X S : p[1] < p[2]}
<1>1. IsOrderOf(R, S)
  BY DEF IsOrderOf
<1>2. PICK m : IsLast(m, S, R)
  BY <1>1, LastOf
<1>3. m \in S /\ \A n \in S : m >= n
  <2>1. \A n \in S : n # m => n < m
    BY <1>2 DEF IsLast
  <2> QED
    BY <1>2, <2>1 DEF IsLast
<1> QED
  BY <1>3 DEF Max

-----------------------------------------------------------------------------
(* Passages.                                                               *)

IsDoc(doc) == doc.score \in Seq(Int) /\ \A i, j \in DOMAIN doc.score : doc.alike[i][j] \in Int

\* A document's chunks are finitely many, and each has a score.
LEMMA ChunksOfDoc ==
    ASSUME NEW doc, IsDoc(doc)
    PROVE  /\ IsFiniteSet(DOMAIN doc.score) /\ DOMAIN doc.score \subseteq Nat
           /\ \A i \in DOMAIN doc.score : doc.score[i] \in Int
<1>1. doc.score \in Seq(Int)
  BY DEF IsDoc
<1> DEFINE s == doc.score
<1> HIDE DEF s
<1>2. Len(s) \in Nat /\ DOMAIN s = 1..Len(s) /\ \A i \in DOMAIN s : s[i] \in Int
  BY <1>1 DEF s
<1>3. IsFiniteSet(1..Len(s))
  BY <1>2, UpToIsFinite
<1> QED
  BY <1>2, <1>3 DEF s

\* What is no more alike to any of the picked is no more redundant.
LEMMA RedundancyFacts ==
    ASSUME NEW doc, IsDoc(doc), NEW picked \in SUBSET DOMAIN doc.score, NEW i \in DOMAIN doc.score
    PROVE  /\ Redundancy(doc, i, picked) \in Int
           /\ picked # {} => /\ \E j \in picked : Redundancy(doc, i, picked) = doc.alike[i][j]
                             /\ \A j \in picked : Redundancy(doc, i, picked) >= doc.alike[i][j]
<1>1. CASE picked = {}
  BY <1>1 DEF Redundancy
<1>2. CASE picked # {}
  <2> DEFINE f == [j \in picked |-> doc.alike[i][j]]
             S == {doc.alike[i][j] : j \in picked}
  <2>1. f \in Surjection(picked, S)
    BY DEF Surjection
  <2>2. IsFiniteSet(picked)
    BY ChunksOfDoc, FS_Subset
  <2>3. IsFiniteSet(S)
    <3> HIDE DEF f, S
    <3> QED
      BY <2>1, <2>2, FS_Surjection
  <2>4. S \in SUBSET Int /\ S # {}
    BY <1>2 DEF IsDoc
  <2>5. Redundancy(doc, i, picked) = Max(S)
    BY <1>2 DEF Redundancy
  <2>6. Max(S) \in S /\ \A n \in S : Max(S) >= n
    <3> HIDE DEF S
    <3> QED
      BY <2>3, <2>4, MaxOf
  <2> QED
    BY <2>4, <2>5, <2>6
<1> QED
  BY <1>1, <1>2

\* IndexIn finds what is there.
LEMMA IndexOf ==
    ASSUME NEW S, NEW s \in Seq(S), NEW e \in ToSet(s)
    PROVE  IndexIn(s, e) \in 1..Len(s) /\ s[IndexIn(s, e)] = e
<1> DEFINE I == {i \in 1..Len(s) : s[i] = e}
<1>1. I \in SUBSET Nat /\ I # {}
  BY DEF ToSet
<1>2. IndexIn(s, e) = Min(I)
  BY <1>1 DEF IndexIn, SelectInSeq
<1>3. Min(I) \in I
  <2> HIDE DEF I
  <2> QED
    BY <1>1, MinOf
<1> QED
  BY <1>2, <1>3

\* What is picked next is left, and gains as much as any that is.
LEMMA BestFacts ==
    ASSUME NEW doc, IsDoc(doc), NEW candidates \in Seq(DOMAIN doc.score), NEW picked \in SUBSET DOMAIN doc.score,
           ToSet(candidates) \ picked # {}
    PROVE  LET i == BestOfTheRest(doc, candidates, picked)
               left == ToSet(candidates) \ picked
           IN i \in left /\ \A j \in left : Gain(doc, i, picked) >= Gain(doc, j, picked)
<1> DEFINE left == ToSet(candidates) \ picked
           at(i) == IndexIn(candidates, i)
           g == [i \in left |-> Gain(doc, i, picked)]
           a == [i \in left |-> at(i)]
           R == {p \in left \X left : g[p[1]] > g[p[2]] \/ (g[p[1]] = g[p[2]] /\ a[p[1]] < a[p[2]])}
           Best(i) == \A j \in left \ {i} : \/ Gain(doc, i, picked) > Gain(doc, j, picked)
                                            \/ Gain(doc, i, picked) = Gain(doc, j, picked) /\ at(i) < at(j)
<1>1. left \subseteq DOMAIN doc.score /\ IsFiniteSet(left)
  <2>1. left \subseteq DOMAIN doc.score
    BY DEF ToSet
  <2> QED
    BY <2>1, ChunksOfDoc, FS_Subset
<1>2. ASSUME NEW i \in left
      PROVE  Gain(doc, i, picked) \in Int
  <2>1. i \in DOMAIN doc.score
    BY <1>1
  <2>2. doc.score[i] \in Int /\ Redundancy(doc, i, picked) \in Int
    BY <2>1, ChunksOfDoc, RedundancyFacts
  <2> QED
    BY <2>2 DEF Gain
<1>3. \A i \in left : at(i) \in Nat /\ candidates[at(i)] = i
  BY IndexOf
<1> HIDE DEF left, at
<1>4. g \in [left -> Int] /\ a \in [left -> Nat] /\ \A x, y \in left : a[x] = a[y] => x = y
  BY <1>2, <1>3
<1>5. IsOrderOf(R, left)
  <2> HIDE DEF g, a
  <2> QED
    BY <1>4, OrderByTwo
<1>6. PICK x \in left : \A y \in left : y # x => <<x, y>> \in R
  <2> HIDE DEF R
  <2> QED
    BY <1>1, <1>5, FirstOf DEF left
<1>7. Best(x)
  BY <1>6
<1>8. BestOfTheRest(doc, candidates, picked) = CHOOSE i \in left : Best(i)
  BY DEF BestOfTheRest, left, at
<1> HIDE DEF Best
<1>9. BestOfTheRest(doc, candidates, picked) \in left /\ Best(BestOfTheRest(doc, candidates, picked))
  BY <1>7, <1>8
<1>10. \A j \in left : Gain(doc, BestOfTheRest(doc, candidates, picked), picked) >= Gain(doc, j, picked)
  BY <1>2, <1>9 DEF Best
<1> QED
  BY <1>9, <1>10 DEF left

PickedBefore(s, n) == {s[m] : m \in 1..n - 1}

\* Each was picked once, of the candidates, and gained as much as any that was left.
IsPicked(doc, candidates, s) ==
    /\ s \in Seq(ToSet(candidates))
    /\ \A i, j \in DOMAIN s : s[i] = s[j] => i = j
    /\ \A n \in DOMAIN s : \A i \in ToSet(candidates) \ PickedBefore(s, n) :
         Gain(doc, s[n], PickedBefore(s, n)) >= Gain(doc, i, PickedBefore(s, n))

\* A round of MMR picks one more chunk that none left dominates (mmr.ts).
LEMMA PickStep ==
    ASSUME NEW doc, IsDoc(doc), NEW candidates \in Seq(DOMAIN doc.score), NEW s,
           IsPicked(doc, candidates, s), ToSet(candidates) \ ToSet(s) # {}
    PROVE  IsPicked(doc, candidates, Append(s, BestOfTheRest(doc, candidates, ToSet(s))))
<1> DEFINE b == BestOfTheRest(doc, candidates, ToSet(s))
           C == ToSet(candidates)
           t == Append(s, b)
<1>1. C \subseteq DOMAIN doc.score /\ s \in Seq(C) /\ ToSet(s) \subseteq C
  BY DEF IsPicked, ToSet
<1>2. b \in C /\ b \notin ToSet(s) /\ \A j \in C \ ToSet(s) : Gain(doc, b, ToSet(s)) >= Gain(doc, j, ToSet(s))
  BY <1>1, BestFacts
<1> HIDE DEF b, C
<1>3. /\ t \in Seq(C) /\ Len(t) = Len(s) + 1 /\ Len(s) \in Nat /\ DOMAIN s = 1..Len(s)
      /\ DOMAIN t = 1..Len(s) + 1 /\ (\A n \in DOMAIN s : t[n] = s[n]) /\ t[Len(s) + 1] = b
  BY <1>1, <1>2, AppendFacts
<1> HIDE DEF t
<1>4. \A i, j \in DOMAIN t : t[i] = t[j] => i = j
  <2>1. \A i, j \in DOMAIN s : s[i] = s[j] => i = j
    BY DEF IsPicked
  <2>2. \A i \in DOMAIN s : s[i] # b
    BY <1>2 DEF ToSet
  <2> QED
    BY <1>3, <2>1, <2>2
<1>5. \A n \in 1..Len(s) + 1 : PickedBefore(t, n) = PickedBefore(s, n)
  <2> SUFFICES ASSUME NEW n \in 1..Len(s) + 1
               PROVE  PickedBefore(t, n) = PickedBefore(s, n)
    OBVIOUS
  <2>1. \A m \in 1..n - 1 : t[m] = s[m]
    BY <1>3
  <2> QED
    BY <2>1 DEF PickedBefore
<1>6. PickedBefore(s, Len(s) + 1) = ToSet(s)
  BY <1>3 DEF PickedBefore, ToSet
<1>7. ASSUME NEW n \in DOMAIN t, NEW i \in C \ PickedBefore(t, n)
      PROVE  Gain(doc, t[n], PickedBefore(t, n)) >= Gain(doc, i, PickedBefore(t, n))
  <2>1. CASE n = Len(s) + 1
    BY <1>2, <1>3, <1>5, <1>6, <1>7, <2>1
  <2>2. CASE n # Len(s) + 1
    <3>1. n \in DOMAIN s /\ t[n] = s[n] /\ PickedBefore(t, n) = PickedBefore(s, n)
      BY <1>3, <1>5, <2>2
    <3> QED
      BY <1>7, <3>1 DEF IsPicked, C
  <2> QED
    BY <2>1, <2>2
<1>8. IsPicked(doc, candidates, t)
  BY <1>3, <1>4, <1>7 DEF IsPicked, C
<1> QED
  BY <1>8 DEF t, b

\* Fewer than there are candidates leave one.
LEMMA OneIsLeft ==
    ASSUME NEW D, IsFiniteSet(D), NEW s \in Seq(D), NEW p \in Seq(D), Len(p) < Len(s),
           \A i, j \in DOMAIN s : s[i] = s[j] => i = j
    PROVE  ToSet(s) \ ToSet(p) # {}
<1>1. SUFFICES ASSUME ToSet(s) \subseteq ToSet(p)
               PROVE  FALSE
  OBVIOUS
<1>2. Len(s) \in Nat /\ Len(p) \in Nat /\ DOMAIN s = 1..Len(s) /\ DOMAIN p = 1..Len(p)
  OBVIOUS
<1>3. \A m \in Nat : IsFiniteSet(1..m) /\ Cardinality(1..m) = m
  BY UpToIsFinite
<1>4. p \in Surjection(1..Len(p), ToSet(p))
  <2>1. p \in [1..Len(p) -> ToSet(p)] /\ \A t \in ToSet(p) : \E i \in 1..Len(p) : p[i] = t
    BY <1>2 DEF ToSet
  <2> QED
    BY <2>1 DEF Surjection
<1>5. s \in Injection(1..Len(s), ToSet(s))
  <2>1. s \in [1..Len(s) -> ToSet(s)]
    BY <1>2 DEF ToSet
  <2> QED
    BY <1>2, <2>1 DEF Injection, IsInjective
<1>6. IsFiniteSet(ToSet(p)) /\ Cardinality(ToSet(p)) <= Len(p)
  BY <1>2, <1>3, <1>4, FS_Surjection
<1>7. IsFiniteSet(ToSet(s)) /\ Cardinality(ToSet(s)) <= Cardinality(ToSet(p))
  BY <1>1, <1>6, FS_Subset
<1>8. Len(s) <= Cardinality(ToSet(s))
  BY <1>2, <1>3, <1>5, <1>7, FS_Injection
<1>9. Cardinality(ToSet(p)) \in Nat /\ Cardinality(ToSet(s)) \in Nat
  BY <1>6, <1>7, FS_CardinalityType
<1> QED
  BY <1>2, <1>6, <1>7, <1>8, <1>9

\* What all the rounds pick was picked so, each in turn.
LEMMA MMRPicks ==
    ASSUME NEW doc, IsDoc(doc), NEW candidates \in Seq(DOMAIN doc.score),
           \A i, j \in DOMAIN candidates : candidates[i] = candidates[j] => i = j, NEW k \in Nat
    PROVE  IsPicked(doc, candidates, MMR(doc, candidates, k))
<1> DEFINE C == ToSet(candidates)
           rounds == AtMost(Len(candidates), k)
           Good == {s \in Seq(C) : IsPicked(doc, candidates, s)}
           next(s) == Append(s, BestOfTheRest(doc, candidates, ToSet(s)))
           g == [n \in 1..rounds |-> [s \in Good |-> IF C \ ToSet(s) = {} THEN s ELSE next(s)]]
           pick == Picks(doc, candidates, rounds)
<1>1. rounds \in Nat /\ rounds <= Len(candidates) /\ Len(candidates) \in Nat
  BY DEF AtMost
<1>2. <<>> \in Good
  BY DEF IsPicked
<1>3. \A s \in Good : C \ ToSet(s) # {} => next(s) \in Good
  <2> SUFFICES ASSUME NEW s \in Good, C \ ToSet(s) # {}
               PROVE  next(s) \in Good
    OBVIOUS
  <2>1. IsPicked(doc, candidates, next(s))
    BY PickStep
  <2> QED
    BY <2>1 DEF IsPicked
<1> HIDE DEF Good, next, rounds
<1>4. g \in [1..rounds -> [Good -> Good]]
  BY <1>3
<1>5. PICK f : IsRecursion(f, rounds, Good, <<>>, g)
  <2> HIDE DEF g
  <2> QED
    BY <1>1, <1>2, <1>4, Recursion
<1> DEFINE T == {n \in 0..rounds : f[n] \in Good /\ Len(f[n]) = n}
<1>6. \A n \in 0..rounds : n < rounds /\ f[n] \in Good /\ Len(f[n]) = n => f[n + 1] = next(f[n])
  <2> SUFFICES ASSUME NEW n \in 0..rounds, n < rounds, f[n] \in Good, Len(f[n]) = n
               PROVE  f[n + 1] = next(f[n])
    OBVIOUS
  <2>1. C \ ToSet(f[n]) # {}
    <3>1. IsFiniteSet(DOMAIN doc.score)
      BY ChunksOfDoc
    <3>2. C \subseteq DOMAIN doc.score
      BY DEF ToSet
    <3>3. f[n] \in Seq(C)
      BY DEF Good
    <3>4. candidates \in Seq(C) /\ IsFiniteSet(C) /\ Len(f[n]) < Len(candidates)
      <4>1. candidates \in Seq(C)
        BY DEF ToSet
      <4> QED
        BY <1>1, <3>1, <3>2, <4>1, FS_Subset
    <3> HIDE DEF C
    <3>5. ToSet(candidates) \ ToSet(f[n]) # {}
      BY <3>3, <3>4, OneIsLeft
    <3> QED
      BY <3>5 DEF C
  <2>2. n + 1 \in 1..rounds /\ (n + 1) - 1 = n
    BY <1>1
  <2> QED
    BY <1>5, <2>1, <2>2 DEF IsRecursion
<1>7. 0 \in T
  BY <1>1, <1>2, <1>5 DEF IsRecursion
<1>8. ASSUME NEW n \in 0..rounds, n \in T, n < rounds
      PROVE  n + 1 \in T
  <2>1. n + 1 \in 0..rounds /\ f[n + 1] = next(f[n])
    BY <1>1, <1>6, <1>8
  <2>2. Len(next(f[n])) = n + 1
    <3>1. f[n] \in Seq(C) /\ Len(f[n]) = n
      BY <1>8 DEF Good
    <3> HIDE DEF C
    <3> QED
      BY <3>1 DEF next
  <2>3. f[n + 1] \in Good
    BY <1>5, <2>1 DEF IsRecursion
  <2> QED
    BY <2>1, <2>2, <2>3
<1>9. \A n \in 0..rounds : n \in T
  <2> HIDE DEF T
  <2> QED
    BY <1>1, <1>7, <1>8, UpTo
<1>10. f = [n \in 0..rounds |-> IF n = 0 THEN <<>> ELSE next(f[n - 1])]
  <2>1. ASSUME NEW n \in 1..rounds
        PROVE  f[n] = next(f[n - 1])
    <3>1. n - 1 \in 0..rounds /\ n - 1 < rounds /\ (n - 1) + 1 = n
      BY <1>1
    <3> QED
      BY <1>6, <1>9, <3>1
  <2> HIDE DEF T
  <2> QED
    BY <1>1, <1>5, <2>1 DEF IsRecursion
<1>11. pick = [n \in 0..rounds |-> IF n = 0 THEN <<>> ELSE next(pick[n - 1])]
  BY <1>10 DEF Picks, next
<1> DEFINE P == {n \in 0..rounds : pick[n] = f[n]}
<1> HIDE DEF pick
<1>12. 0 \in P
  BY <1>1, <1>10, <1>11
<1>13. ASSUME NEW n \in 0..rounds, n \in P, n < rounds
       PROVE  n + 1 \in P
  <2>1. n + 1 \in 0..rounds /\ n + 1 # 0 /\ (n + 1) - 1 = n
    BY <1>1, <1>13
  <2>2. pick[n + 1] = next(pick[n])
    BY <1>11, <2>1
  <2>3. f[n + 1] = next(f[n])
    BY <1>10, <2>1
  <2> QED
    BY <1>13, <2>1, <2>2, <2>3
<1>14. \A n \in 0..rounds : n \in P
  <2> HIDE DEF P
  <2> QED
    BY <1>1, <1>12, <1>13, UpTo
<1>15. rounds \in 0..rounds
  BY <1>1
<1>16. pick[rounds] \in Good
  BY <1>9, <1>14, <1>15
<1>17. MMR(doc, candidates, k) = pick[rounds]
  BY DEF MMR, pick, rounds
<1> QED
  BY <1>16, <1>17 DEF Good

\* What the database answers is of the document's chunks, and none nearer is left out.
LEMMA NearestFacts ==
    ASSUME NEW doc, IsDoc(doc), NEW n \in Nat, NEW candidates \in NearestChunks(doc, n)
    PROVE  /\ candidates \in Seq(DOMAIN doc.score)
           /\ \A i, j \in DOMAIN candidates : candidates[i] = candidates[j] => i = j
           /\ \A i \in DOMAIN doc.score \ ToSet(candidates) : \A j \in ToSet(candidates) :
                doc.score[j] >= doc.score[i]
<1> DEFINE D == DOMAIN doc.score
<1>1. PICK s \in SetToSeqs(D) : /\ candidates = First(s, n)
                                /\ \A i, j \in DOMAIN s : i < j => doc.score[s[i]] >= doc.score[s[j]]
  BY DEF NearestChunks
<1>2. /\ s \in Seq(D) /\ ToSet(s) = D /\ \A i, j \in 1..Len(s) : s[i] = s[j] => i = j
  BY ChunksOfDoc, SeqsOf
<1> HIDE DEF D
<1> DEFINE m == AtMost(Len(s), n)
<1>3. /\ candidates \in Seq(D) /\ DOMAIN candidates = 1..m /\ m \in Nat /\ m <= Len(s) /\ Len(s) \in Nat
      /\ DOMAIN s = 1..Len(s) /\ \A i \in 1..m : candidates[i] = s[i]
  <2>1. /\ First(s, n) \in Seq(D) /\ DOMAIN First(s, n) = 1..m /\ m \in Nat /\ m <= Len(s)
        /\ Len(s) \in Nat /\ DOMAIN s = 1..Len(s) /\ \A i \in 1..m : First(s, n)[i] = s[i]
    BY <1>2, FirstFacts
  <2> QED
    BY <1>1, <2>1
<1>4. \A i, j \in DOMAIN candidates : candidates[i] = candidates[j] => i = j
  BY <1>2, <1>3
<1> HIDE DEF m
<1>5. ASSUME NEW i \in D \ ToSet(candidates), NEW j \in ToSet(candidates)
      PROVE  doc.score[j] >= doc.score[i]
  <2>1. PICK a \in 1..Len(s) : s[a] = i
    BY <1>2, <1>3 DEF ToSet
  <2>2. PICK b \in 1..m : candidates[b] = j
    BY <1>3 DEF ToSet
  <2>3. a > m
    <3>1. a \in 1..m => i \in ToSet(candidates)
      BY <1>3, <2>1 DEF ToSet
    <3> QED
      BY <1>3, <3>1, <1>5
  <2>4. b < a /\ b \in DOMAIN s /\ a \in DOMAIN s /\ s[b] = j
    BY <1>3, <2>2, <2>3
  <2> QED
    BY <1>1, <2>1, <2>4
<1> QED
  BY <1>3, <1>4, <1>5 DEF D

\* No passage is dominated by one left out.
Undominated(doc, ps) ==
    /\ IsInjective(ps)
    /\ \A n \in DOMAIN ps : \A i \in DOMAIN doc.score \ ToSet(ps) :
         ~ /\ doc.score[i] > doc.score[ps[n]]
           /\ \A m \in 1..n - 1 : doc.alike[i][ps[m]] <= doc.alike[ps[n]][ps[m]]

\* The passages retrieved are dominated by none left out.
LEMMA PassagesUndominated ==
    ASSUME NEW doc, IsDoc(doc), NEW n \in Nat, NEW candidates \in NearestChunks(doc, n)
    PROVE  Undominated(doc, Retrieve(doc, candidates))
<1> DEFINE D == DOMAIN doc.score
           C == ToSet(candidates)
           ps == Retrieve(doc, candidates)
<1>1. IsPicked(doc, candidates, ps)
  BY NearestFacts, MMRPicks, SearchAssumption DEF Retrieve
<1> HIDE DEF ps
<1>2. C \subseteq D
  BY NearestFacts DEF ToSet
<1>3. ps \in Seq(C) /\ ToSet(ps) \subseteq C /\ \A m \in DOMAIN ps : ps[m] \in C
  BY <1>1 DEF IsPicked, ToSet
<1>4. ASSUME NEW m \in DOMAIN ps, NEW i \in D \ ToSet(ps), doc.score[i] > doc.score[ps[m]],
             \A l \in 1..m - 1 : doc.alike[i][ps[l]] <= doc.alike[ps[m]][ps[l]]
      PROVE  FALSE
  <2> DEFINE p == ps[m]
             B == PickedBefore(ps, m)
  <2>1. p \in D /\ doc.score[i] \in Int /\ doc.score[p] \in Int
    BY <1>2, <1>3, ChunksOfDoc
  <2>2. CASE i \notin C
    <3>1. doc.score[p] >= doc.score[i]
      BY <1>3, <2>2, NearestFacts
    <3> QED
      BY <1>4, <2>1, <3>1
  <2>3. CASE i \in C
    <3>1. B \subseteq ToSet(ps) /\ \A j \in B : \E l \in 1..m - 1 : j = ps[l]
      BY <1>3 DEF PickedBefore, ToSet
    <3>2. Gain(doc, p, B) >= Gain(doc, i, B)
      BY <1>1, <2>3, <3>1 DEF IsPicked
    <3>3. B \in SUBSET D
      BY <1>2, <1>3, <3>1
    <3> HIDE DEF B
    <3>4. Redundancy(doc, i, B) \in Int /\ Redundancy(doc, p, B) \in Int
      BY <2>1, <3>3, RedundancyFacts
    <3>5. Redundancy(doc, i, B) > Redundancy(doc, p, B)
      BY <1>4, <2>1, <3>2, <3>4 DEF Gain
    <3>6. B # {}
      BY <3>4, <3>5 DEF Redundancy
    <3>7. PICK j \in B : Redundancy(doc, i, B) = doc.alike[i][j]
      BY <3>3, <3>6, RedundancyFacts
    <3>8. Redundancy(doc, p, B) >= doc.alike[p][j]
      BY <2>1, <3>3, <3>6, RedundancyFacts
    <3>9. doc.alike[i][j] <= doc.alike[p][j]
      BY <1>4, <3>1
    <3>10. doc.alike[i][j] \in Int /\ doc.alike[p][j] \in Int
      BY <2>1, <3>3 DEF IsDoc
    <3> QED
      BY <3>4, <3>5, <3>7, <3>8, <3>9, <3>10
  <2> QED
    BY <2>2, <2>3
<1>5. IsInjective(ps)
  BY <1>1 DEF IsPicked, IsInjective
<1>6. Undominated(doc, ps)
  BY <1>4, <1>5 DEF Undominated
<1> QED
  BY <1>6 DEF ps

\* What stands in for the database orders the chunks as it may.
LEMMA MemoryIsNearest ==
    ASSUME NEW doc, IsDoc(doc), NEW n \in Nat
    PROVE  MemoryIndex(doc, n) \in NearestChunks(doc, n)
<1> DEFINE D == DOMAIN doc.score
           Before(i, j) == doc.score[i] > doc.score[j] \/ (doc.score[i] = doc.score[j] /\ i < j)
           g == [i \in D |-> doc.score[i]]
           a == [i \in D |-> i]
           R == {p \in D \X D : g[p[1]] > g[p[2]] \/ (g[p[1]] = g[p[2]] /\ a[p[1]] < a[p[2]])}
           IsIt(s) == \A i, j \in DOMAIN s : i < j => Before(s[i], s[j])
<1>1. IsFiniteSet(D) /\ D \subseteq Nat /\ \A i \in D : doc.score[i] \in Int
  BY ChunksOfDoc
<1> HIDE DEF D
<1>2. g \in [D -> Int] /\ a \in [D -> Nat] /\ \A x, y \in D : a[x] = a[y] => x = y
  BY <1>1
<1>3. IsOrderOf(R, D)
  <2> HIDE DEF g, a
  <2> QED
    BY <1>2, OrderByTwo
<1>4. \A i, j \in D : <<i, j>> \in R => Before(i, j)
  OBVIOUS
<1> HIDE DEF R
<1>5. PICK t \in SetToSeqs(D) : Sorted(t, R)
  BY <1>1, <1>3, Sorting
<1>6. IsIt(t)
  <2>1. \A i \in DOMAIN t : t[i] \in D
    BY <1>1, <1>5, SeqsOf
  <2> QED
    BY <1>4, <1>5, <2>1 DEF Sorted
<1> DEFINE s == Ordered(D, Before)
<1>7. s = CHOOSE u \in SetToSeqs(D) : IsIt(u)
  BY DEF Ordered
<1>8. MemoryIndex(doc, n) = First(s, n)
  BY DEF MemoryIndex, D
<1> HIDE DEF s, IsIt
<1>9. s \in SetToSeqs(D) /\ IsIt(s)
  BY <1>6, <1>7
<1>10. \A i, j \in DOMAIN s : i < j => doc.score[s[i]] >= doc.score[s[j]]
  <2>1. \A i \in DOMAIN s : s[i] \in D
    BY <1>1, <1>9, SeqsOf
  <2>2. ASSUME NEW i \in D, NEW j \in D, Before(i, j)
        PROVE  doc.score[i] >= doc.score[j]
    <3>1. doc.score[i] \in Int /\ doc.score[j] \in Int
      BY <1>1
    <3> QED
      BY <2>2, <3>1
  <2> QED
    BY <1>9, <2>1, <2>2 DEF IsIt
<1> QED
  BY <1>8, <1>9, <1>10 DEF NearestChunks, D

-----------------------------------------------------------------------------
(* What is shown was computed from what the database holds.                *)

PageOf(c, reader, cut) ==
    LET lists == ArmHits(c, reader, cut, Hybrid)
        hits  == SearchProducts(lists)
    IN [kind |-> "page", corpus |-> c, reader |-> reader, lists |-> lists,
        hits |-> hits, nearestOnly |-> NearestOnly(hits)]

ScoresOf(c, p, cut) ==
    [kind |-> "scores",
     scores |-> [arm \in ScoredArms |-> Score(RankOf(SearchProducts(ArmHits(c, "en", cut, ArmsOf(arm))), p))]]

PassagesOf(doc, candidates) ==
    [kind |-> "passages", doc |-> doc, passages |-> Retrieve(doc, candidates)]

AnswerOf(doc, q) ==
    LET passages == Retrieve(doc, MemoryIndex(doc, Fetched)) IN
    [kind |-> "answer", doc |-> doc, question |-> q, passages |-> passages,
     grade |-> Grade(q, ExtractiveBaseline(passages), ToSet(passages))]

ChunksOf(doc) ==
    [kind |-> "chunks", sections |-> SplitSections(doc),
     chunks |-> [s \in DOMAIN SplitSections(doc) |-> ChunkSection(SplitSections(doc)[s])]]

IsPage     == \E c \in Corpora, reader \in Locales : \E cut \in Nearest(c, Candidates * Spread) :
                shown = PageOf(c, reader, cut)
AreScores  == \E c \in Corpora, p \in Listings : \E cut \in Nearest(c, Candidates * Spread) :
                shown = ScoresOf(c, p, cut)
ArePassages == \E doc \in Docs : \E candidates \in NearestChunks(doc, Fetched) :
                shown = PassagesOf(doc, candidates)
IsAnswer   == \E doc \in Docs, q \in EvalQuestions : shown = AnswerOf(doc, q)
AreChunks  == \E doc \in Documents : shown = ChunksOf(doc)

ShownInv == shown = Nothing \/ IsPage \/ AreScores \/ ArePassages \/ IsAnswer \/ AreChunks

\* What is shown says what it is.
LEMMA Kinds ==
    /\ Nothing.kind = "nothing"
    /\ IsPage => shown.kind = "page"
    /\ AreScores => shown.kind = "scores"
    /\ ArePassages => shown.kind = "passages"
    /\ IsAnswer => shown.kind = "answer"
    /\ AreChunks => shown.kind = "chunks"
<1>1. Nothing.kind = "nothing"
  BY DEF Nothing
<1>2. IsPage => shown.kind = "page"
  <2>1. \A c, reader, cut : PageOf(c, reader, cut).kind = "page"
    BY DEF PageOf
  <2> QED
    BY <2>1 DEF IsPage
<1>3. AreScores => shown.kind = "scores"
  <2>1. \A c, p, cut : ScoresOf(c, p, cut).kind = "scores"
    BY DEF ScoresOf
  <2> QED
    BY <2>1 DEF AreScores
<1>4. ArePassages => shown.kind = "passages"
  <2>1. \A doc, candidates : PassagesOf(doc, candidates).kind = "passages"
    BY DEF PassagesOf
  <2> QED
    BY <2>1 DEF ArePassages
<1>5. IsAnswer => shown.kind = "answer"
  <2>1. \A doc, q : AnswerOf(doc, q).kind = "answer"
    BY DEF AnswerOf
  <2> QED
    BY <2>1 DEF IsAnswer
<1>6. AreChunks => shown.kind = "chunks"
  <2>1. \A doc : ChunksOf(doc).kind = "chunks"
    BY DEF ChunksOf
  <2> QED
    BY <2>1 DEF AreChunks
<1> QED
  BY <1>1, <1>2, <1>3, <1>4, <1>5, <1>6

\* Whatever is shown was computed by one of the actions from inputs there are.
LEMMA ShownInvHolds == SearchSpec => []ShownInv
<1>1. SearchInit => ShownInv
  BY DEF SearchInit, ShownInv
<1>2. ShownInv /\ [SearchNext]_searchVars => ShownInv'
  <2> SUFFICES ASSUME ShownInv, [SearchNext]_searchVars PROVE ShownInv'
    OBVIOUS
  <2>1. ASSUME NEW c \in Corpora, NEW reader \in Locales, SearchPage(c, reader)
        PROVE  ShownInv'
    <3>1. \E cut \in Nearest(c, Candidates * Spread) : shown' = PageOf(c, reader, cut)
      BY <2>1 DEF SearchPage, PageOf
    <3>2. IsPage'
      BY <3>1 DEF IsPage
    <3> QED
      BY <3>2 DEF ShownInv
  <2>2. ASSUME NEW c \in Corpora, NEW p \in Listings, RunSearchEval(c, p)
        PROVE  ShownInv'
    <3>1. \E cut \in Nearest(c, Candidates * Spread) : shown' = ScoresOf(c, p, cut)
      BY <2>2 DEF RunSearchEval, ScoresOf
    <3>2. AreScores'
      BY <3>1 DEF AreScores
    <3> QED
      BY <3>2 DEF ShownInv
  <2>3. ASSUME NEW doc \in Docs, SearchDocs(doc)
        PROVE  ShownInv'
    <3>1. \E candidates \in NearestChunks(doc, Fetched) : shown' = PassagesOf(doc, candidates)
      BY <2>3 DEF SearchDocs, PassagesOf
    <3>2. ArePassages'
      BY <3>1 DEF ArePassages
    <3> QED
      BY <3>2 DEF ShownInv
  <2>4. ASSUME NEW doc \in Docs, NEW q \in EvalQuestions, AskPassages(doc, q)
        PROVE  ShownInv'
    <3>1. shown' = AnswerOf(doc, q)
      BY <2>4 DEF AskPassages, AnswerOf
    <3>2. IsAnswer'
      BY <3>1 DEF IsAnswer
    <3> QED
      BY <3>2 DEF ShownInv
  <2>5. ASSUME NEW doc \in Documents, ChunkDocument(doc)
        PROVE  ShownInv'
    <3>1. shown' = ChunksOf(doc)
      BY <2>5 DEF ChunkDocument, ChunksOf
    <3>2. AreChunks'
      BY <3>1 DEF AreChunks
    <3> QED
      BY <3>2 DEF ShownInv
  <2>6. CASE Leave
    BY <2>6 DEF Leave, ShownInv
  <2>7. CASE UNCHANGED searchVars
    BY <2>7 DEF searchVars, ShownInv, IsPage, AreScores, ArePassages, IsAnswer, AreChunks
  <2> QED
    BY <2>1, <2>2, <2>3, <2>4, <2>5, <2>6, <2>7 DEF SearchNext
<1> QED
  BY <1>1, <1>2, PTL DEF SearchSpec

\* A section's chunks hold all its sentences, in order, repeat no more than the
\* overlap, and are within the target unless the overlap alone fills it, of any
\* document (chunk.ts:27); of no overlap the code carries over the whole buffer.
THEOREM ChunksCoverTheDocumentHolds ==
    ASSUME Overlap # 0
    PROVE  SearchSpec => []ChunksCoverTheDocument
<1>1. ASSUME ShownInv
      PROVE  ChunksCoverTheDocument
  <2> SUFFICES ASSUME shown.kind = "chunks"
               PROVE  ChunksCoverTheDocument
    BY DEF ChunksCoverTheDocument, Shows
  <2>1. AreChunks
    BY <1>1, Kinds DEF ShownInv
  <2>2. PICK doc \in Documents : shown = ChunksOf(doc)
    BY <2>1 DEF AreChunks
  <2> DEFINE sections == SplitSections(doc)
  <2>3. sections \in Seq(Sections)
    BY SearchAssumption, SplitSectionsType
  <2>4. /\ shown.sections = sections
        /\ shown.chunks = [s \in DOMAIN sections |-> ChunkSection(sections[s])]
    BY <2>2 DEF ChunksOf
  <2> HIDE DEF sections
  <2>5. ASSUME NEW s \in DOMAIN sections
        PROVE  LET cs == shown.chunks[s]
                   section == shown.sections[s]
               IN /\ UNION {c[1]..c[2] : c \in ToSet(cs)} = DOMAIN section
                  /\ \A n \in DOMAIN cs :
                       /\ n > 1 => /\ cs[n][1] <= cs[n - 1][2] + 1 /\ cs[n][2] > cs[n - 1][2]
                                   /\ cs[n - 1][2] - cs[n][1] < Overlap
                       /\ \/ EstimateTokens(Chars(section, cs[n][1], cs[n][2])) <= Target + 1
                          \/ cs[n][2] - cs[n][1] <= Overlap
    <3> DEFINE section == sections[s]
               cs == ChunkSection(section)
    <3>1. section \in Sections /\ shown.sections[s] = section /\ shown.chunks[s] = cs
      BY <2>3, <2>4
    <3>2. DOMAIN section = 1..Len(section)
      BY <3>1 DEF Sections
    <3>3. Cover(section, cs, Len(section))
      BY <3>1, ChunkSectionCovers
    <3> HIDE DEF section, cs
    <3> QED
      BY <3>1, <3>2, <3>3 DEF Cover, Follows, Fits
  <2> QED
    BY <2>4, <2>5 DEF ChunksCoverTheDocument
<1> QED
  BY <1>1, ShownInvHolds, PTL

\* An answer is as good as its passages, and those as good as the document, of
\* any chunks and any question (mmr.ts:18-22, providers/fake.ts:58,
\* harness.ts:7-10).
THEOREM AnswerIsItsPassagesHolds == SearchSpec => []AnswerIsItsPassages
<1>1. ASSUME ShownInv
      PROVE  AnswerIsItsPassages
  <2>0. /\ Fetched \in Nat /\ Quoted \in Nat
        /\ \A doc \in Docs : IsDoc(doc)
        /\ \A doc \in Docs, q \in EvalQuestions : q.reject \intersect DOMAIN doc.score = {}
    BY SearchAssumption DEF Fetched, AtLeast, IsDoc
  <2>1. CASE ArePassages
    <3>0. PICK doc \in Docs : \E candidates \in NearestChunks(doc, Fetched) : shown = PassagesOf(doc, candidates)
      BY <2>1 DEF ArePassages
    <3>1. PICK candidates \in NearestChunks(doc, Fetched) : shown = PassagesOf(doc, candidates)
      BY <3>0
    <3>2. Undominated(doc, Retrieve(doc, candidates))
      BY <2>0, PassagesUndominated
    <3>3. shown.kind = "passages" /\ shown.doc = doc /\ shown.passages = Retrieve(doc, candidates)
      BY <3>1 DEF PassagesOf
    <3>4. NoPassageIsDominated
      BY <3>2, <3>3 DEF NoPassageIsDominated, Undominated
    <3> QED
      BY <3>3, <3>4 DEF AnswerIsItsPassages, BaselineOnlyQuotes, MemoryIsTheDatabase, Shows
  <2>2. CASE IsAnswer
    <3>1. PICK doc \in Docs, q \in EvalQuestions : shown = AnswerOf(doc, q)
      BY <2>2 DEF IsAnswer
    <3> DEFINE candidates == MemoryIndex(doc, Fetched)
               ps == Retrieve(doc, candidates)
    <3>2. candidates \in NearestChunks(doc, Fetched)
      BY <2>0, MemoryIsNearest
    <3>3. Undominated(doc, ps) /\ IsPicked(doc, candidates, ps)
      BY <2>0, <3>2, PassagesUndominated, NearestFacts, MMRPicks, SearchAssumption DEF Retrieve
    <3>4. /\ shown.kind = "answer" /\ shown.doc = doc /\ shown.passages = ps /\ shown.question = q
          /\ shown.grade = Grade(q, ExtractiveBaseline(ps), ToSet(ps))
      BY <3>1 DEF AnswerOf
    <3>5. ToSet(ps) \subseteq DOMAIN doc.score /\ ps \in Seq(DOMAIN doc.score)
      BY <2>0, <3>2, <3>3, NearestFacts DEF IsPicked, ToSet
    <3> HIDE DEF candidates, ps
    <3>6. NoPassageIsDominated
      BY <3>3, <3>4 DEF NoPassageIsDominated, Undominated
    <3>7. MemoryIsTheDatabase
      BY <3>2, <3>4 DEF MemoryIsTheDatabase, candidates
    <3>8. BaselineOnlyQuotes
      <4>1. ExtractiveBaseline(ps) \subseteq ToSet(ps)
        <5>1. ps \in Seq(DOMAIN doc.score) /\ Quoted \in Nat
          BY <2>0, <3>5
        <5> QED
          BY <5>1, FirstIsWithin DEF ExtractiveBaseline
      <4>2. q.reject \intersect ExtractiveBaseline(ps) = {}
        BY <2>0, <3>5, <4>1
      <4> DEFINE answer == ExtractiveBaseline(ps)
      <4>3. /\ shown.grade.correct <=> q.passages \subseteq answer /\ q.reject \intersect answer = {}
            /\ shown.grade.hit <=> q.passages # {} /\ q.passages \subseteq ToSet(ps)
        <5> DEFINE hit     == q.passages # {} /\ q.passages \subseteq ToSet(ps)
                   correct == q.passages \subseteq answer /\ q.reject \intersect answer = {}
        <5>1. shown.grade = [hit |-> hit, correct |-> correct]
          BY <3>4 DEF Grade
        <5> HIDE DEF hit, correct
        <5>2. shown.grade.hit = hit /\ shown.grade.correct = correct
          BY <5>1
        <5> QED
          BY <5>2, Zenon DEF hit, correct
      <4> HIDE DEF answer
      <4>4. q.passages = {} => q.passages \subseteq answer
        OBVIOUS
      <4>5. q.passages # {} /\ shown.grade.correct => shown.grade.hit
        BY <4>1, <4>3 DEF answer
      <4>6. q.passages = {} => shown.grade.correct
        BY <4>2, <4>3, <4>4 DEF answer
      <4> QED
        BY <3>4, <4>5, <4>6 DEF BaselineOnlyQuotes
    <3> QED
      BY <3>6, <3>7, <3>8 DEF AnswerIsItsPassages
  <2>3. CASE shown.kind \notin {"passages", "answer"}
    BY <2>3 DEF AnswerIsItsPassages, NoPassageIsDominated, BaselineOnlyQuotes, MemoryIsTheDatabase, Shows
  <2> QED
    BY <1>1, <2>1, <2>2, <2>3, Kinds DEF ShownInv
<1> QED
  BY <1>1, ShownInvHolds, PTL

-----------------------------------------------------------------------------
(* Pages.                                                                  *)

\* Of some hits one scores highest.
LEMMA HighestOf ==
    ASSUME NEW H, IsFiniteSet(H), H # {}, \A h \in H : h.score \in Int
    PROVE  \E h \in H : \A g \in H : h.score >= g.score
<1> DEFINE S == {h.score : h \in H}
           f == [h \in H |-> h.score]
<1>1. S \in SUBSET Int /\ S # {}
  OBVIOUS
<1>2. f \in Surjection(H, S)
  BY DEF Surjection
<1>3. IsFiniteSet(S)
  <2> HIDE DEF S, f
  <2> QED
    BY <1>2, FS_Surjection
<1>4. Max(S) \in S /\ \A n \in S : Max(S) >= n
  <2> HIDE DEF S
  <2> QED
    BY <1>1, <1>3, MaxOf
<1> QED
  BY <1>4

\* A set whose elements the elements of a finite one name is finite.
LEMMA NamedIsFinite ==
    ASSUME NEW P, IsFiniteSet(P), NEW S, NEW f \in [P -> S]
    PROVE  IsFiniteSet({f[p] : p \in P})
<1> DEFINE T == {f[p] : p \in P}
<1>1. f \in Surjection(P, T)
  BY DEF Surjection
<1> HIDE DEF T
<1>2. IsFiniteSet(T)
  BY <1>1, FS_Surjection
<1> QED
  BY <1>2 DEF T

\* Weights are fractions.
Fractions == Nat \X (Nat \ {0})

\* Products of naturals.
LEMMA PositiveProduct == \A a, b \in Nat : a * b \in Nat /\ (a > 0 /\ b > 0 => a * b > 0)
  OBVIOUS

\* A weight stays a fraction.
LEMMA AddShareType ==
    ASSUME NEW w \in Fractions, NEW rank \in Nat
    PROVE  AddShare(w, rank) \in Fractions
<1>1. w[1] \in Nat /\ w[2] \in Nat /\ w[2] > 0 /\ RRFK + rank \in Nat
  BY SearchAssumption DEF Fractions
<1>2. w[1] * (RRFK + rank) \in Nat /\ w[2] * (RRFK + rank) \in Nat
  BY <1>1, PositiveProduct
<1>3. rank # 0 => w[2] * (RRFK + rank) > 0
  <2>1. rank # 0 => RRFK + rank > 0
    BY SearchAssumption
  <2> QED
    BY <1>1, <2>1, PositiveProduct
<1> QED
  BY <1>1, <1>2, <1>3 DEF AddShare, Fractions

\* The weight of ranks, by recursion.
LEMMA WeightDef ==
    ASSUME NEW ranks \in Seq(Nat)
    PROVE  \E sum \in [0..Len(ranks) -> Fractions] :
             /\ Weight(ranks) = sum[Len(ranks)] /\ sum[0] = <<0, 1>>
             /\ \A n \in 1..Len(ranks) : sum[n] = AddShare(sum[n - 1], ranks[n])
<1> DEFINE k == Len(ranks)
           b == <<0, 1>>
           g == [n \in 1..k |-> [w \in Fractions |-> AddShare(w, ranks[n])]]
           sum == CHOOSE sum : sum = [n \in 0..k |-> IF n = 0 THEN b ELSE AddShare(sum[n - 1], ranks[n])]
<1>1. k \in Nat /\ b \in Fractions /\ \A n \in 1..k : ranks[n] \in Nat
  BY DEF Fractions
<1>2. g \in [1..k -> [Fractions -> Fractions]]
  BY <1>1, AddShareType
<1>3. PICK f : IsRecursion(f, k, Fractions, b, g)
  <2> HIDE DEF k, b, g
  <2> QED
    BY <1>1, <1>2, Recursion
<1>4. f = [n \in 0..k |-> IF n = 0 THEN b ELSE AddShare(f[n - 1], ranks[n])]
  <2>1. ASSUME NEW n \in 1..k
        PROVE  f[n] = AddShare(f[n - 1], ranks[n])
    <3>0. n - 1 \in 0..k
      BY <1>1
    <3>1. f[n - 1] \in Fractions
      BY <1>3, <3>0 DEF IsRecursion
    <3> QED
      BY <1>3, <3>1 DEF IsRecursion
  <2> HIDE DEF k, b, g
  <2> QED
    BY <1>1, <1>3, <2>1 DEF IsRecursion
<1>5. sum = [n \in 0..k |-> IF n = 0 THEN b ELSE AddShare(sum[n - 1], ranks[n])]
  BY <1>4
<1>6. Weight(ranks) = sum[k]
  BY DEF Weight
<1> DEFINE T == {n \in 0..k : sum[n] \in Fractions}
<1> HIDE DEF k, b, g, sum
<1>7. 0 \in T
  BY <1>1, <1>5
<1>8. ASSUME NEW n \in 0..k, n \in T, n < k
      PROVE  n + 1 \in T
  <2>1. n + 1 \in 0..k /\ n + 1 # 0 /\ (n + 1) - 1 = n /\ n + 1 \in 1..k
    BY <1>1, <1>8
  <2>2. sum[n + 1] = AddShare(sum[n], ranks[n + 1])
    BY <1>5, <2>1
  <2> QED
    BY <1>1, <1>8, <2>1, <2>2, AddShareType
<1>9. \A n \in 0..k : n \in T
  <2> HIDE DEF T
  <2> QED
    BY <1>1, <1>7, <1>8, UpTo
<1>10. sum \in [0..k -> Fractions]
  BY <1>5, <1>9
<1>11. sum[0] = b /\ \A n \in 1..k : sum[n] = AddShare(sum[n - 1], ranks[n])
  BY <1>1, <1>5
<1> QED
  BY <1>6, <1>10, <1>11 DEF k, b

\* Of one rank, and of two.
LEMMA WeightOfOne ==
    ASSUME NEW ranks \in Seq(Nat), Len(ranks) = 1
    PROVE  Weight(ranks) = IF ranks[1] = 0 THEN <<0, 1>> ELSE <<1, RRFK + ranks[1]>>
<1>1. PICK sum \in [0..Len(ranks) -> Fractions] :
        /\ Weight(ranks) = sum[Len(ranks)] /\ sum[0] = <<0, 1>>
        /\ \A n \in 1..Len(ranks) : sum[n] = AddShare(sum[n - 1], ranks[n])
  BY WeightDef
<1>2. Weight(ranks) = AddShare(<<0, 1>>, ranks[1]) /\ ranks[1] \in Nat
  <2>1. 1 \in 1..Len(ranks) /\ 1 - 1 = 0
    OBVIOUS
  <2>2. sum[1] = AddShare(sum[0], ranks[1])
    BY <1>1, <2>1
  <2> QED
    BY <1>1, <2>2
<1> QED
  BY <1>2, SearchAssumption DEF AddShare

\* The weight two arms give: nothing, one share, or the sum of both.
LEMMA WeightOfTwo ==
    ASSUME NEW ranks \in Seq(Nat), Len(ranks) = 2, NEW a, NEW b, a = RRFK + ranks[1], b = RRFK + ranks[2]
    PROVE  /\ ranks[1] = 0 /\ ranks[2] = 0 => Weight(ranks) = <<0, 1>>
           /\ ranks[1] # 0 /\ ranks[2] = 0 => Weight(ranks) = <<1, a>>
           /\ ranks[1] = 0 /\ ranks[2] # 0 => Weight(ranks) = <<1, b>>
           /\ ranks[1] # 0 /\ ranks[2] # 0 => Weight(ranks) = <<b + a, a * b>>
<1>1. PICK sum \in [0..Len(ranks) -> Fractions] :
        /\ Weight(ranks) = sum[Len(ranks)] /\ sum[0] = <<0, 1>>
        /\ \A n \in 1..Len(ranks) : sum[n] = AddShare(sum[n - 1], ranks[n])
  BY WeightDef
<1>2. /\ sum[1] = AddShare(<<0, 1>>, ranks[1]) /\ Weight(ranks) = AddShare(sum[1], ranks[2])
      /\ a \in Nat /\ b \in Nat
  <2>1. 1 \in 1..Len(ranks) /\ 2 \in 1..Len(ranks) /\ 1 - 1 = 0 /\ 2 - 1 = 1
    OBVIOUS
  <2>2. sum[1] = AddShare(sum[0], ranks[1]) /\ sum[2] = AddShare(sum[1], ranks[2])
    BY <1>1, <2>1
  <2>3. ranks[1] \in Nat /\ ranks[2] \in Nat
    <3>1. \A s \in Seq(Nat) : \A n \in 1..Len(s) : s[n] \in Nat
      OBVIOUS
    <3> QED
      BY <2>1, <3>1
  <2> QED
    BY <1>1, <2>2, <2>3, SearchAssumption
<1>3. sum[1] = IF ranks[1] = 0 THEN <<0, 1>> ELSE <<1, a>>
  <2>1. 0 * a + 1 = 1 /\ 1 * a = a
    BY <1>2
  <2> QED
    BY <1>2, <2>1 DEF AddShare
<1>4. Weight(ranks) = IF ranks[2] = 0 THEN sum[1] ELSE <<sum[1][1] * b + sum[1][2], sum[1][2] * b>>
  BY <1>2 DEF AddShare
<1>5. CASE ranks[1] = 0
  <2>1. 0 * b + 1 = 1 /\ 1 * b = b
    BY <1>2
  <2>2. sum[1] = <<0, 1>> /\ sum[1][1] = 0 /\ sum[1][2] = 1
    BY <1>3, <1>5
  <2>3. Weight(ranks) = IF ranks[2] = 0 THEN <<0, 1>> ELSE <<0 * b + 1, 1 * b>>
    BY <1>4, <2>2
  <2> QED
    BY <1>5, <2>1, <2>3
<1>6. CASE ranks[1] # 0
  <2>1. sum[1] = <<1, a>> /\ sum[1][1] = 1 /\ sum[1][2] = a
    BY <1>3, <1>6
  <2>2. 1 * b + a = b + a
    BY <1>2
  <2>3. Weight(ranks) = IF ranks[2] = 0 THEN <<1, a>> ELSE <<1 * b + a, a * b>>
    BY <1>4, <2>1
  <2> QED
    BY <1>6, <2>2, <2>3
<1> QED
  BY <1>5, <1>6

\* A factor can be put on both sides and taken off both.
LEMMA Factor ==
    \A u, v \in Nat, d \in Nat \ {0} :
        /\ u * d \in Nat /\ v * d \in Nat
        /\ u >= v <=> u * d >= v * d
        /\ u = v <=> u * d = v * d
<1> SUFFICES ASSUME NEW u \in Nat, NEW v \in Nat, NEW d \in Nat \ {0}
             PROVE  /\ u * d \in Nat /\ v * d \in Nat
                    /\ u >= v <=> u * d >= v * d
                    /\ u = v <=> u * d = v * d
  OBVIOUS
<1>1. ASSUME NEW x \in Nat, NEW y \in Nat, x > y
      PROVE  x * d > y * d
  <2>1. (x - y) * d = x * d - y * d /\ x - y \in Nat /\ x - y > 0 /\ d \in Nat /\ d > 0
    BY <1>1
  <2>2. (x - y) * d > 0
    BY <2>1, PositiveProduct
  <2>3. x * d \in Nat /\ y * d \in Nat
    OBVIOUS
  <2> QED
    BY <2>1, <2>2, <2>3
<1>2. u * d \in Nat /\ v * d \in Nat
  OBVIOUS
<1>3. (u > v => u * d > v * d) /\ (v > u => v * d > u * d)
  BY <1>1
<1>4. u = v => u * d = v * d
  OBVIOUS
<1> DEFINE m == u * d
           n == v * d
<1>5. m \in Nat /\ n \in Nat /\ (u > v => m > n) /\ (v > u => n > m) /\ (u = v => m = n)
  BY <1>2, <1>3, <1>4
<1> HIDE DEF m, n
<1>6. (u >= v <=> m >= n) /\ (u = v <=> m = n)
  BY <1>5
<1> QED
  BY <1>2, <1>6 DEF m, n

\* x is at least y.
AsMuch(x, y) == x[1] * y[2] >= y[1] * x[2]
Same(x, y)   == x[1] * y[2] = y[1] * x[2]

\* Fractions are ordered transitively, and the equal ones among them are equal throughout.
LEMMA FractionsInOrder ==
    ASSUME NEW x \in Fractions, NEW y \in Fractions, NEW z \in Fractions, AsMuch(x, y), AsMuch(y, z)
    PROVE  AsMuch(x, z) /\ (Same(x, z) => Same(x, y) /\ Same(y, z))
<1> DEFINE ad == x[1] * y[2]
           cb == y[1] * x[2]
           cf == y[1] * z[2]
           ed == z[1] * y[2]
           af == x[1] * z[2]
           eb == z[1] * x[2]
           b == x[2]
           d == y[2]
           f == z[2]
<1>1. /\ b \in Nat \ {0} /\ d \in Nat \ {0} /\ f \in Nat \ {0}
      /\ x[1] \in Nat /\ y[1] \in Nat /\ z[1] \in Nat
  BY DEF Fractions
<1>2. /\ ad \in Nat /\ cb \in Nat /\ cf \in Nat /\ ed \in Nat /\ af \in Nat /\ eb \in Nat
  BY <1>1, PositiveProduct
<1>3. ad * f = af * d /\ cb * f = cf * b /\ ed * b = eb * d
  <2>1. \A m, n, k \in Nat : (m * n) * k = (m * k) * n
    OBVIOUS
  <2> QED
    BY <1>1, <2>1
<1>4. ad >= cb /\ cf >= ed
  BY DEF AsMuch
<1> HIDE DEF ad, cb, cf, ed, af, eb, b, d, f
<1>5. ad * f >= cb * f /\ cf * b >= ed * b /\ (ad = cb <=> ad * f = cb * f) /\ (cf = ed <=> cf * b = ed * b)
  BY <1>1, <1>2, <1>4, Factor
<1>6. (af >= eb <=> af * d >= eb * d) /\ (af = eb <=> af * d = eb * d)
  BY <1>1, <1>2, Factor
<1>7. ad * f \in Nat /\ cb * f \in Nat /\ ed * b \in Nat
  BY <1>1, <1>2, PositiveProduct
<1> DEFINE u == ad * f
           v == cb * f
           w == ed * b
<1>8. /\ u \in Nat /\ v \in Nat /\ w \in Nat /\ u >= v /\ v >= w /\ (ad = cb <=> u = v)
      /\ (cf = ed <=> v = w) /\ (af >= eb <=> u >= w) /\ (af = eb <=> u = w)
  BY <1>3, <1>5, <1>6, <1>7
<1> HIDE DEF u, v, w
<1>9. af >= eb /\ (af = eb => ad = cb /\ cf = ed)
  BY <1>8
<1> QED
  BY <1>9 DEF AsMuch, Same, ad, cb, cf, ed, af, eb

\* What arms return: no listing twice, and no more than they were asked for.
Hits == [id : Listings, matchedLocale : Locales \cup {Absent}, score : Int]
IsArm(list) ==
    /\ list \in Seq(Hits) /\ Len(list) <= Candidates
    /\ \A i, j \in DOMAIN list : list[i].id = list[j].id => i = j

\* RankOf is the first place a list has a listing at.
LEMMA RankFacts ==
    ASSUME NEW S, NEW list \in Seq(S), NEW p
    PROVE  /\ RankOf(list, p) \in 0..Len(list)
           /\ RankOf(list, p) # 0 => list[RankOf(list, p)].id = p
           /\ \A i \in DOMAIN list : list[i].id = p => RankOf(list, p) # 0 /\ RankOf(list, p) <= i
<1> DEFINE I == {i \in 1..Len(list) : list[i].id = p}
<1>1. Len(list) \in Nat /\ DOMAIN list = 1..Len(list) /\ I \in SUBSET Nat
  OBVIOUS
<1>2. RankOf(list, p) = IF I # {} THEN Min(I) ELSE 0
  BY DEF RankOf, SelectInSeq
<1>3. I # {} => Min(I) \in I /\ \A n \in I : Min(I) <= n
  <2> HIDE DEF I
  <2> QED
    BY <1>1, MinOf
<1>4. CASE I = {}
  BY <1>1, <1>2, <1>4
<1>5. CASE I # {}
  <2> DEFINE r == RankOf(list, p)
  <2>1. r \in I /\ \A n \in I : r <= n
    BY <1>2, <1>3, <1>5
  <2> HIDE DEF r
  <2>2. r \in 1..Len(list) /\ list[r].id = p /\ \A i \in 1..Len(list) : list[i].id = p => r <= i
    BY <2>1
  <2>3. r \in 0..Len(list) /\ r # 0
    BY <1>1, <2>2
  <2> QED
    BY <1>1, <2>2, <2>3 DEF r
<1> QED
  BY <1>4, <1>5

IsLists(lists, n) == DOMAIN lists = 1..n /\ \A i \in 1..n : IsArm(lists[i])
RanksIn(lists, p) == [i \in DOMAIN lists |-> RankOf(lists[i], p)]
Found(lists)      == UNION {{h.id : h \in ToSet(lists[i])} : i \in DOMAIN lists}
Fused(lists)      == {FusedOf(lists, p) : p \in Found(lists)}

\* The listings found are those some list ranks.
LEMMA FoundFacts ==
    ASSUME NEW n \in Nat, NEW lists, IsLists(lists, n)
    PROVE  /\ Found(lists) \subseteq Listings /\ IsFiniteSet(Found(lists))
           /\ \A p : p \in Found(lists) <=> \E i \in 1..n : RankOf(lists[i], p) # 0
           /\ \A p : /\ RanksIn(lists, p) \in Seq(Nat) /\ Len(RanksIn(lists, p)) = n
                    /\ \A i \in 1..n : RanksIn(lists, p)[i] = RankOf(lists[i], p)
<1>1. ASSUME NEW i \in 1..n, NEW p
      PROVE  /\ RankOf(lists[i], p) \in Nat
             /\ RankOf(lists[i], p) # 0 <=> p \in {h.id : h \in ToSet(lists[i])}
  <2>1. lists[i] \in Seq(Hits) /\ Len(lists[i]) \in Nat /\ DOMAIN lists[i] = 1..Len(lists[i])
    BY DEF IsLists, IsArm
  <2>2. /\ RankOf(lists[i], p) \in 0..Len(lists[i])
        /\ RankOf(lists[i], p) # 0 => lists[i][RankOf(lists[i], p)].id = p
        /\ \A j \in DOMAIN lists[i] : lists[i][j].id = p => RankOf(lists[i], p) # 0
    BY <2>1, RankFacts
  <2>3. RankOf(lists[i], p) # 0 => RankOf(lists[i], p) \in DOMAIN lists[i]
    BY <2>1, <2>2
  <2> QED
    BY <2>1, <2>2, <2>3 DEF ToSet
<1>2. \A p : p \in Found(lists) <=> \E i \in 1..n : RankOf(lists[i], p) # 0
  BY <1>1 DEF Found, IsLists
<1>3. Found(lists) \subseteq Listings
  <2> SUFFICES ASSUME NEW i \in 1..n, NEW h \in ToSet(lists[i])
               PROVE  h.id \in Listings
    BY DEF Found, IsLists
  <2>1. lists[i] \in Seq(Hits)
    BY DEF IsLists, IsArm
  <2>2. h \in Hits
    BY <2>1 DEF ToSet
  <2> QED
    BY <2>2 DEF Hits
<1>4. IsFiniteSet(Found(lists))
  BY <1>3, FS_Subset, SearchAssumption
<1>5. ASSUME NEW p
      PROVE  /\ RanksIn(lists, p) \in Seq(Nat) /\ Len(RanksIn(lists, p)) = n
             /\ \A i \in 1..n : RanksIn(lists, p)[i] = RankOf(lists[i], p)
  <2>1. RanksIn(lists, p) = [i \in 1..n |-> RankOf(lists[i], p)]
    BY DEF RanksIn, IsLists
  <2>2. RanksIn(lists, p) \in [1..n -> Nat]
    BY <1>1, <2>1
  <2> QED
    BY <2>1, <2>2
<1> QED
  BY <1>2, <1>3, <1>4, <1>5

\* Their ranks, one a list.
LEMMA RanksOf ==
    ASSUME NEW n \in Nat, NEW lists, IsLists(lists, n), NEW p
    PROVE  /\ RanksIn(lists, p) \in Seq(Nat) /\ Len(RanksIn(lists, p)) = n
           /\ \A i \in 1..n : RanksIn(lists, p)[i] = RankOf(lists[i], p)
  BY FoundFacts

\* What the fusion makes of a listing.
LEMMA FusedFacts ==
    ASSUME NEW n \in Nat, NEW lists, IsLists(lists, n), NEW p
    PROVE  /\ FusedOf(lists, p).id = p /\ FusedOf(lists, p).ranks = RanksIn(lists, p)
           /\ FusedOf(lists, p).weight = Weight(RanksIn(lists, p))
           /\ FusedOf(lists, p).weight \in Fractions
<1>1. /\ FusedOf(lists, p).id = p /\ FusedOf(lists, p).ranks = RanksIn(lists, p)
      /\ FusedOf(lists, p).weight = Weight(RanksIn(lists, p))
  BY DEF FusedOf, RanksIn
<1>2. RanksIn(lists, p) \in Seq(Nat)
  BY FoundFacts
<1> DEFINE r == RanksIn(lists, p)
<1> HIDE DEF r
<1>3. PICK sum \in [0..Len(r) -> Fractions] : Weight(r) = sum[Len(r)]
  <2>1. r \in Seq(Nat)
    BY <1>2 DEF r
  <2> QED
    BY <2>1, WeightDef
<1>4. Weight(r) \in Fractions
  <2>1. Len(r) \in Nat
    BY <1>2 DEF r
  <2> QED
    BY <1>3, <2>1
<1> QED
  BY <1>1, <1>4 DEF r

\* Outweighs orders what has one entry a listing.
LEMMA OutweighsIsOrder ==
    ASSUME NEW F, \A x \in F : x.weight \in Fractions /\ x.id \in Nat, \A x, y \in F : x.id = y.id => x = y
    PROVE  IsOrderOf({q \in F \X F : Outweighs(q[1], q[2])}, F)
<1> DEFINE R == {q \in F \X F : Outweighs(q[1], q[2])}
<1>1. \A x, y \in F : <<x, y>> \in R <=> Outweighs(x, y)
  OBVIOUS
<1>2. ASSUME NEW x \in F, NEW y \in F
      PROVE  /\ Same(x.weight, y.weight) <=> Same(y.weight, x.weight)
             /\ Same(x.weight, y.weight) => AsMuch(x.weight, y.weight)
             /\ Outweighs(x, y) <=> AsMuch(x.weight, y.weight) /\ (Same(x.weight, y.weight) => x.id < y.id)
             /\ AsMuch(x.weight, y.weight) \/ AsMuch(y.weight, x.weight)
             /\ AsMuch(x.weight, y.weight) /\ AsMuch(y.weight, x.weight) => Same(x.weight, y.weight)
  <2> DEFINE m == x.weight[1] * y.weight[2]
             k == y.weight[1] * x.weight[2]
  <2>1. m \in Nat /\ k \in Nat
    <3>1. x.weight \in Fractions /\ y.weight \in Fractions
      OBVIOUS
    <3> QED
      BY <3>1, PositiveProduct DEF Fractions
  <2>2. (m >= k \/ k >= m) /\ (m >= k /\ k >= m => m = k) /\ (m = k <=> k = m) /\ (m = k => m >= k)
    BY <2>1
  <2>3. m > k <=> m >= k /\ m # k
    BY <2>1
  <2>4. Outweighs(x, y) <=> m > k \/ (m = k /\ x.id < y.id)
    BY DEF Outweighs
  <2> QED
    BY <2>2, <2>3, <2>4, Zenon DEF AsMuch, Same
<1> HIDE DEF R
<1>3. \A x, y \in F : x # y => <<x, y>> \in R \/ <<y, x>> \in R
  <2> SUFFICES ASSUME NEW x \in F, NEW y \in F, x # y
               PROVE  Outweighs(x, y) \/ Outweighs(y, x)
    BY <1>1
  <2>1. x.id \in Nat /\ y.id \in Nat /\ x.id # y.id
    OBVIOUS
  <2>2. x.id < y.id \/ y.id < x.id
    BY <2>1
  <2> QED
    BY <1>2, <2>2, Zenon
<1>4. ASSUME NEW x \in F, NEW y \in F, NEW z \in F, <<x, y>> \in R, <<y, z>> \in R
      PROVE  <<x, z>> \in R
  <2>1. /\ AsMuch(x.weight, y.weight) /\ AsMuch(y.weight, z.weight)
        /\ Same(x.weight, y.weight) => x.id < y.id
        /\ Same(y.weight, z.weight) => y.id < z.id
    BY <1>1, <1>2, <1>4, Zenon
  <2>2. AsMuch(x.weight, z.weight) /\ (Same(x.weight, z.weight) => Same(x.weight, y.weight) /\ Same(y.weight, z.weight))
    BY <2>1, FractionsInOrder
  <2>3. x.id < y.id /\ y.id < z.id => x.id < z.id
    <3>1. x.id \in Nat /\ y.id \in Nat /\ z.id \in Nat
      OBVIOUS
    <3> QED
      BY <3>1
  <2>4. Outweighs(x, z)
    BY <1>2, <2>1, <2>2, <2>3, Zenon
  <2> QED
    BY <1>1, <2>4
<1>5. \A x \in F : <<x, x>> \notin R
  <2> SUFFICES ASSUME NEW x \in F, Outweighs(x, x)
               PROVE  FALSE
    BY <1>1
  <2>1. Same(x.weight, x.weight) /\ x.id \in Nat
    BY DEF Same
  <2>2. x.id < x.id
    BY <1>2, <2>1
  <2> QED
    BY <2>1, <2>2
<1> QED
  BY <1>3, <1>4, <1>5 DEF IsOrderOf, R

\* The fusion lists every listing found, the weightier before the lighter.
LEMMA FusionIsOrdered ==
    ASSUME NEW n \in Nat, NEW lists, IsLists(lists, n)
    PROVE  /\ IsFiniteSet(Fused(lists)) /\ ReciprocalRankFusion(lists) \in SetToSeqs(Fused(lists))
           /\ \A i, j \in DOMAIN ReciprocalRankFusion(lists) :
                i < j => Outweighs(ReciprocalRankFusion(lists)[i], ReciprocalRankFusion(lists)[j])
<1> DEFINE F == Fused(lists)
           R == {q \in F \X F : Outweighs(q[1], q[2])}
           IsIt(s) == \A i, j \in DOMAIN s : i < j => Outweighs(s[i], s[j])
           s == ReciprocalRankFusion(lists)
<1>1. IsFiniteSet(F)
  <2> DEFINE f == [p \in Found(lists) |-> FusedOf(lists, p)]
  <2>1. f \in [Found(lists) -> F]
    BY DEF Fused
  <2>2. IsFiniteSet({f[p] : p \in Found(lists)})
    <3> HIDE DEF f, F
    <3>1. IsFiniteSet(Found(lists))
      BY FoundFacts
    <3> QED
      BY <2>1, <3>1, NamedIsFinite
  <2>3. {f[p] : p \in Found(lists)} = F
    BY DEF Fused
  <2> QED
    BY <2>2, <2>3
<1>2. IsOrderOf(R, F)
  <2>1. ASSUME NEW x \in F
        PROVE  /\ x.weight \in Fractions /\ x.id \in Nat
               /\ \A y \in F : x.id = y.id => x = y
    <3>1. PICK p \in Found(lists) : x = FusedOf(lists, p)
      BY DEF Fused
    <3>2. x.id = p /\ x.weight \in Fractions
      BY <3>1, FusedFacts
    <3>3. p \in Nat
      BY FoundFacts, SearchAssumption
    <3>4. ASSUME NEW y \in F, x.id = y.id
          PROVE  x = y
      <4>1. PICK q \in Found(lists) : y = FusedOf(lists, q)
        BY DEF Fused
      <4>2. y.id = q
        BY <4>1, FusedFacts
      <4> QED
        BY <3>1, <3>2, <3>4, <4>1, <4>2
    <3> QED
      BY <3>2, <3>3, <3>4
  <2> HIDE DEF F
  <2> QED
    BY <2>1, OutweighsIsOrder
<1>3. \A x, y \in F : <<x, y>> \in R => Outweighs(x, y)
  OBVIOUS
<1> HIDE DEF R
<1>4. PICK t \in SetToSeqs(F) : Sorted(t, R)
  <2> HIDE DEF F
  <2> QED
    BY <1>1, <1>2, Sorting
<1>5. IsIt(t)
  <2> HIDE DEF F
  <2>1. \A i \in DOMAIN t : t[i] \in F
    BY <1>1, <1>4, SeqsOf
  <2> QED
    BY <1>3, <1>4, <2>1 DEF Sorted
<1>6. s = CHOOSE u \in SetToSeqs(F) : IsIt(u)
  BY DEF ReciprocalRankFusion, Ordered, Fused, Found
<1> HIDE DEF s, IsIt, F
<1>7. s \in SetToSeqs(F) /\ IsIt(s)
  BY <1>4, <1>5, <1>6
<1> QED
  BY <1>1, <1>7 DEF s, IsIt, F

\* A page has the listings that weigh most, each once.
LEMMA PageFacts ==
    ASSUME NEW n \in Nat, NEW lists, IsLists(lists, n), NEW page, page = SearchProducts(lists)
    PROVE  /\ page \in Seq(Fused(lists)) /\ Len(page) \in 0..Limit /\ DOMAIN page = 1..Len(page)
           /\ \A i \in DOMAIN page : page[i].id \in Found(lists) /\ page[i] = FusedOf(lists, page[i].id)
           /\ \A i, j \in DOMAIN page : page[i].id = page[j].id => i = j
           /\ \A i \in DOMAIN page, p \in Found(lists) :
                \/ p = page[i].id
                \/ Outweighs(page[i], FusedOf(lists, p))
                \/ \E j \in 1..i - 1 : page[j].id = p
           /\ \A p \in Found(lists) :
                \/ \E i \in DOMAIN page : page[i].id = p
                \/ Len(page) = Limit /\ \A i \in DOMAIN page : Outweighs(page[i], FusedOf(lists, p))
<1> DEFINE F == Fused(lists)
           s == ReciprocalRankFusion(lists)
           m == AtMost(Len(s), Limit)
<1>1. IsFiniteSet(F) /\ s \in SetToSeqs(F) /\ \A i, j \in DOMAIN s : i < j => Outweighs(s[i], s[j])
  BY FusionIsOrdered
<1>2. page = First(s, Limit)
  BY DEF SearchProducts
<1> HIDE DEF F, s
<1>3. s \in Seq(F) /\ ToSet(s) = F /\ \A i, j \in 1..Len(s) : s[i] = s[j] => i = j
  BY <1>1, SeqsOf
<1>4. /\ page \in Seq(F) /\ Len(page) = m /\ m \in Nat /\ m <= Len(s) /\ m <= Limit
      /\ Len(s) \in Nat /\ DOMAIN s = 1..Len(s) /\ DOMAIN page = 1..m /\ \A i \in 1..m : page[i] = s[i]
  <2>1. Limit \in Nat
    BY SearchAssumption
  <2> QED
    BY <1>2, <1>3, <2>1, FirstFacts
<1>5. m = Len(s) \/ m = Limit
  BY DEF AtMost
<1> HIDE DEF m
<1>6. \A x \in F : x.id \in Found(lists) /\ x = FusedOf(lists, x.id)
  <2> SUFFICES ASSUME NEW p \in Found(lists)
               PROVE  FusedOf(lists, p).id = p
    BY DEF F, Fused
  <2> QED
    BY FusedFacts
<1>7. \A p \in Found(lists) : FusedOf(lists, p).id = p /\ \E i \in 1..Len(s) : s[i] = FusedOf(lists, p)
  <2> SUFFICES ASSUME NEW p \in Found(lists)
               PROVE  FusedOf(lists, p).id = p /\ \E i \in 1..Len(s) : s[i] = FusedOf(lists, p)
    OBVIOUS
  <2>1. FusedOf(lists, p) \in ToSet(s)
    BY <1>3 DEF F, Fused
  <2> QED
    BY <1>4, <2>1, FusedFacts DEF ToSet
<1>8. \A i \in 1..Len(s) : s[i] \in F
  BY <1>3, <1>4
<1>9. \A i, j \in 1..m : page[i].id = page[j].id => i = j
  <2> SUFFICES ASSUME NEW i \in 1..m, NEW j \in 1..m, page[i].id = page[j].id
               PROVE  i = j
    OBVIOUS
  <2>1. i \in 1..Len(s) /\ j \in 1..Len(s)
    BY <1>4
  <2>2. s[i] = FusedOf(lists, s[i].id) /\ s[j] = FusedOf(lists, s[j].id) /\ s[i].id = s[j].id
    BY <1>4, <1>6, <1>8, <2>1
  <2>3. s[i] = s[j]
    BY <2>2
  <2> QED
    BY <1>3, <2>1, <2>3
<1>10. ASSUME NEW i \in 1..m, NEW p \in Found(lists)
       PROVE  \/ p = page[i].id
              \/ Outweighs(page[i], FusedOf(lists, p))
              \/ \E j \in 1..i - 1 : page[j].id = p
  <2>1. PICK j \in 1..Len(s) : s[j] = FusedOf(lists, p)
    BY <1>7
  <2>2. i \in 1..Len(s) /\ page[i] = s[i]
    BY <1>4
  <2>3. CASE j = i
    BY <1>7, <2>1, <2>2, <2>3
  <2>4. CASE i < j
    BY <1>1, <1>4, <2>1, <2>2, <2>4
  <2>5. CASE j < i
    <3>1. j \in 1..i - 1 /\ j \in 1..m
      BY <1>4, <2>5
    <3> QED
      BY <1>4, <1>7, <2>1, <3>1
  <2> QED
    BY <1>4, <2>3, <2>4, <2>5
<1>11. ASSUME NEW p \in Found(lists)
       PROVE  \/ \E i \in 1..m : page[i].id = p
              \/ m = Limit /\ \A i \in 1..m : Outweighs(page[i], FusedOf(lists, p))
  <2>1. PICK j \in 1..Len(s) : s[j] = FusedOf(lists, p)
    BY <1>7
  <2>2. CASE j <= m
    <3>1. j \in 1..m
      BY <1>4, <2>2
    <3> QED
      BY <1>4, <1>7, <2>1, <3>1
  <2>3. CASE m < j
    <3>1. m = Limit
      BY <1>4, <1>5, <2>3
    <3>2. \A i \in 1..m : i \in 1..Len(s) /\ i < j /\ page[i] = s[i]
      BY <1>4, <2>3
    <3> QED
      BY <1>1, <1>4, <2>1, <3>1, <3>2
  <2> QED
    BY <1>4, <2>2, <2>3
<1> QED
  BY <1>4, <1>6, <1>8, <1>9, <1>10, <1>11, SMTT(40) DEF F

\* Hits of distinct listings are ordered by either arm.
LEMMA HitsInOrder ==
    ASSUME NEW B \in SUBSET Hits, \A x, y \in B : x.id = y.id => x = y
    PROVE  /\ IsOrderOf({q \in B \X B : ReadsBetter(q[1], q[2])}, B)
           /\ IsOrderOf({q \in B \X B : Nearer(q[1], q[2])}, B)
<1>1. \A x \in B : x.id \in Nat /\ x.score \in Int
  BY SearchAssumption DEF Hits
<1>2. ASSUME NEW x \in B, NEW y \in B, x # y
      PROVE  (Nearer(x, y) \/ Nearer(y, x)) /\ (ReadsBetter(x, y) \/ ReadsBetter(y, x))
  <2>1. x.id # y.id /\ x.id \in Nat /\ y.id \in Nat /\ x.score \in Int /\ y.score \in Int
    BY <1>1, <1>2
  <2>2. Nearer(x, y) \/ Nearer(y, x)
    BY <2>1 DEF Nearer
  <2> QED
    BY <2>2 DEF ReadsBetter
<1>3. ASSUME NEW x \in B, NEW y \in B, NEW z \in B
      PROVE  /\ Nearer(x, y) /\ Nearer(y, z) => Nearer(x, z)
             /\ ReadsBetter(x, y) /\ ReadsBetter(y, z) => ReadsBetter(x, z)
  <2>1. /\ x.id \in Nat /\ y.id \in Nat /\ z.id \in Nat
        /\ x.score \in Int /\ y.score \in Int /\ z.score \in Int
    BY <1>1
  <2>2. Nearer(x, y) /\ Nearer(y, z) => Nearer(x, z)
    BY <2>1 DEF Nearer
  <2> QED
    BY <2>2 DEF ReadsBetter
<1>4. ASSUME NEW x \in B
      PROVE  ~Nearer(x, x) /\ ~ReadsBetter(x, x)
  <2>1. ~Nearer(x, x)
    BY <1>1 DEF Nearer
  <2> QED
    BY <2>1 DEF ReadsBetter
<1>5. IsOrderOf({q \in B \X B : ReadsBetter(q[1], q[2])}, B)
  <2> DEFINE R == {q \in B \X B : ReadsBetter(q[1], q[2])}
  <2>1. \A x, y \in B : <<x, y>> \in R <=> ReadsBetter(x, y)
    OBVIOUS
  <2> HIDE DEF R
  <2>2. IsOrderOf(R, B)
    BY <1>2, <1>3, <1>4, <2>1, Zenon DEF IsOrderOf
  <2> QED
    BY <2>2 DEF R
<1>6. IsOrderOf({q \in B \X B : Nearer(q[1], q[2])}, B)
  <2> DEFINE R == {q \in B \X B : Nearer(q[1], q[2])}
  <2>1. \A x, y \in B : <<x, y>> \in R <=> Nearer(x, y)
    OBVIOUS
  <2> HIDE DEF R
  <2>2. IsOrderOf(R, B)
    BY <1>2, <1>3, <1>4, <2>1, Zenon DEF IsOrderOf
  <2> QED
    BY <2>2 DEF R
<1> QED
  BY <1>5, <1>6

\* An arm orders its best hits: no two are of one listing.
LEMMA HitsAreOrdered ==
    ASSUME NEW B \in SUBSET Hits, IsFiniteSet(B), \A x, y \in B : x.id = y.id => x = y
    PROVE  Ordered(B, ReadsBetter) \in SetToSeqs(B) /\ Ordered(B, Nearer) \in SetToSeqs(B)
<1>1. Ordered(B, ReadsBetter) \in SetToSeqs(B)
  <2> DEFINE R == {q \in B \X B : ReadsBetter(q[1], q[2])}
             IsIt(s) == \A i, j \in DOMAIN s : i < j => ReadsBetter(s[i], s[j])
  <2>1. IsOrderOf(R, B) /\ \A x, y \in B : <<x, y>> \in R => ReadsBetter(x, y)
    BY HitsInOrder
  <2> HIDE DEF R
  <2>2. PICK t \in SetToSeqs(B) : Sorted(t, R)
    BY <2>1, Sorting
  <2>3. \A i \in DOMAIN t : t[i] \in B
    BY <2>2, SeqsOf
  <2>4. IsIt(t)
    BY <2>1, <2>2, <2>3 DEF Sorted
  <2>5. Ordered(B, ReadsBetter) = CHOOSE s \in SetToSeqs(B) : IsIt(s)
    BY DEF Ordered
  <2> HIDE DEF IsIt
  <2> QED
    BY <2>2, <2>4, <2>5
<1>2. Ordered(B, Nearer) \in SetToSeqs(B)
  <2> DEFINE R == {q \in B \X B : Nearer(q[1], q[2])}
             IsIt(s) == \A i, j \in DOMAIN s : i < j => Nearer(s[i], s[j])
  <2>1. IsOrderOf(R, B) /\ \A x, y \in B : <<x, y>> \in R => Nearer(x, y)
    BY HitsInOrder
  <2> HIDE DEF R
  <2>2. PICK t \in SetToSeqs(B) : Sorted(t, R)
    BY <2>1, Sorting
  <2>3. \A i \in DOMAIN t : t[i] \in B
    BY <2>2, SeqsOf
  <2>4. IsIt(t)
    BY <2>1, <2>2, <2>3 DEF Sorted
  <2>5. Ordered(B, Nearer) = CHOOSE s \in SetToSeqs(B) : IsIt(s)
    BY DEF Ordered
  <2> HIDE DEF IsIt
  <2> QED
    BY <2>2, <2>4, <2>5
<1> QED
  BY <1>1, <1>2

\* An arm looks for a number of listings.
LEMMA CandidatesType == Candidates \in Nat
<1>1. Limit * Widen \in Nat /\ Least \in Nat
  BY SearchAssumption, PositiveProduct
<1> QED
  BY <1>1 DEF Candidates, AtLeast

\* An arm returns the first of the best hits.
LEMMA ArmOfBest ==
    ASSUME NEW B \in SUBSET Hits, IsFiniteSet(B), \A x, y \in B : x.id = y.id => x = y,
           NEW s \in SetToSeqs(B), NEW list, list = First(s, Candidates)
    PROVE  /\ IsArm(list) /\ \A i \in DOMAIN list : list[i] \in B
           /\ B # {} /\ Candidates # 0 => list # <<>>
<1>1. s \in Seq(B) /\ ToSet(s) = B /\ Len(s) \in Nat /\ \A i, j \in 1..Len(s) : s[i] = s[j] => i = j
  BY SeqsOf
<1> DEFINE m == AtMost(Len(s), Candidates)
<1>2. /\ list \in Seq(B) /\ Len(list) = m /\ m \in Nat /\ m <= Len(s) /\ m <= Candidates
      /\ DOMAIN s = 1..Len(s) /\ DOMAIN list = 1..m /\ \A i \in 1..m : list[i] = s[i]
  BY <1>1, CandidatesType, FirstFacts, ZenonT(40)
<1>3. B # {} /\ Candidates # 0 => m # 0
  <2>1. B # {} => Len(s) # 0
    BY <1>1 DEF ToSet
  <2> QED
    BY <1>1, <2>1, CandidatesType DEF AtMost
<1> HIDE DEF m
<1>4. \A i \in 1..m : list[i] \in B
  BY <1>2
<1>5. \A i, j \in 1..m : list[i].id = list[j].id => i = j
  <2> SUFFICES ASSUME NEW i \in 1..m, NEW j \in 1..m, list[i].id = list[j].id
               PROVE  i = j
    OBVIOUS
  <2>1. i \in 1..Len(s) /\ j \in 1..Len(s) /\ s[i] = list[i] /\ s[j] = list[j]
    BY <1>1, <1>2
  <2>2. list[i] = list[j]
    BY <1>4
  <2> QED
    BY <1>1, <2>1, <2>2
<1>6. list \in Seq(Hits)
  BY <1>2, <1>4
<1> QED
  BY <1>2, <1>3, <1>4, <1>5, <1>6 DEF IsArm

\* A listing's best hit is one that no other is before.
LEMMA BestHit ==
    ASSUME NEW H \in SUBSET Hits, IsFiniteSet(H), H # {}, \A x, y \in H : x.id = y.id
    PROVE  /\ BestOf(H, Nearer) \in H
           /\ BestOf(H, ReadsBetter) \in H /\ \A g \in H : ~ReadsBetter(g, BestOf(H, ReadsBetter))
<1>1. \A x \in H : x.id \in Nat /\ x.score \in Int
  BY SearchAssumption DEF Hits
<1> DEFINE Near(h) == \A g \in H : ~Nearer(g, h)
           Good(h) == \A g \in H : ~ReadsBetter(g, h)
           O == {h \in H : h.matchedLocale = Absent}
<1>2. \A x, y \in H : Nearer(x, y) <=> x.score > y.score
  <2> SUFFICES ASSUME NEW x \in H, NEW y \in H
               PROVE  Nearer(x, y) <=> x.score > y.score
    OBVIOUS
  <2>1. x.id \in Nat /\ y.id \in Nat /\ x.id = y.id /\ x.score \in Int /\ y.score \in Int
    BY <1>1
  <2> QED
    BY <2>1 DEF Nearer
<1>3. PICK h \in H : \A g \in H : h.score >= g.score
  BY <1>1, HighestOf
<1>4. Near(h)
  <2> SUFFICES ASSUME NEW g \in H
               PROVE  ~(g.score > h.score)
    BY <1>2
  <2>1. h.score \in Int /\ g.score \in Int /\ h.score >= g.score
    BY <1>1, <1>3
  <2> QED
    BY <2>1
<1>5. \E o \in H : Good(o)
  <2>1. CASE O = {}
    <3>1. \A g \in H : ReadsBetter(g, h) => Nearer(g, h)
      BY <2>1 DEF ReadsBetter
    <3> QED
      BY <1>4, <3>1
  <2>2. CASE O # {}
    <3>1. IsFiniteSet(O) /\ \A x \in O : x.score \in Int
      BY <1>1, FS_Subset
    <3>2. PICK o \in O : \A g \in O : o.score >= g.score
      <4> HIDE DEF O
      <4> QED
        BY <2>2, <3>1, HighestOf
    <3>3. ASSUME NEW g \in H
          PROVE  ~ReadsBetter(g, o)
      <4>1. CASE g \in O
        <5>1. o.score \in Int /\ g.score \in Int /\ o.score >= g.score /\ g \in H /\ o \in H
          BY <1>1, <3>2, <4>1
        <5>2. ~Nearer(g, o)
          BY <1>2, <5>1
        <5> QED
          BY <4>1, <5>2 DEF ReadsBetter
      <4>2. CASE g \notin O
        BY <4>2 DEF ReadsBetter
      <4> QED
        BY <4>1, <4>2
    <3> QED
      BY <3>2, <3>3
  <2> QED
    BY <2>1, <2>2
<1>6. BestOf(H, Nearer) = (CHOOSE x \in H : Near(x)) /\ BestOf(H, ReadsBetter) = CHOOSE x \in H : Good(x)
  BY DEF BestOf
<1> DEFINE b == BestOf(H, Nearer)
           w == BestOf(H, ReadsBetter)
<1> HIDE DEF b, w, Near, Good
<1>7. b \in H /\ w \in H /\ Good(w)
  BY <1>4, <1>5, <1>6 DEF b, w
<1> QED
  BY <1>7 DEF b, w, Good

\* A listing's hits are finitely many and its own.
LEMMA TextHitsFacts ==
    ASSUME NEW c \in Corpora, NEW p \in Listings, NEW reader
    PROVE  /\ TextHits(c, p, reader) \in SUBSET Hits /\ IsFiniteSet(TextHits(c, p, reader))
           /\ \A h \in TextHits(c, p, reader) : h.id = p
<1> DEFINE lang(l) == IF l = LocaliseListing(c, p, reader) THEN Absent ELSE l
           L == {l \in Written(c, p) : c[p].words[l] > 0}
           K == {ch \in ToSet(c[p].chunks) : ch.rank > 0}
           f == [l \in L |-> [id |-> p, matchedLocale |-> lang(l), score |-> c[p].words[l]]]
           g == [ch \in K |-> [id |-> p, matchedLocale |-> Absent, score |-> ch.rank]]
<1>1. c[p] \in Texts
  BY SearchAssumption
<1>2. /\ c[p].words \in [Locales -> Nat \cup {Absent}] /\ c[p].chunks \in Seq(Chunks)
      /\ L \subseteq Locales /\ \A l \in L : c[p].words[l] \in Nat
  BY <1>1 DEF Texts, Written
<1>3. IsFiniteSet(K) /\ \A ch \in K : ch.rank \in Nat
  <2>1. c[p].chunks \in Seq(Chunks) /\ Len(c[p].chunks) \in Nat
    BY <1>2
  <2> DEFINE u == c[p].chunks
  <2> HIDE DEF u
  <2>2. u \in [1..Len(u) -> Chunks] /\ Len(u) \in Nat /\ DOMAIN u = 1..Len(u)
    BY <2>1 DEF u
  <2>3. IsFiniteSet(1..Len(u))
    BY <2>2, UpToIsFinite
  <2>4. IsFiniteSet({u[i] : i \in 1..Len(u)})
    BY <2>2, <2>3, NamedIsFinite
  <2>5. ToSet(u) = {u[i] : i \in 1..Len(u)}
    BY <2>2 DEF ToSet
  <2>6. K \in SUBSET ToSet(u) /\ ToSet(u) \subseteq Chunks
    BY <2>2, <2>5 DEF u
  <2> HIDE DEF K
  <2>7. IsFiniteSet(K)
    BY <2>4, <2>5, <2>6, FS_Subset
  <2> QED
    BY <2>6, <2>7 DEF Chunks
<1>4. IsFiniteSet(L)
  BY <1>2, FS_Subset, SearchAssumption
<1>5. f \in [L -> Hits]
  <2> SUFFICES ASSUME NEW l \in L
               PROVE  [id |-> p, matchedLocale |-> lang(l), score |-> c[p].words[l]] \in Hits
    OBVIOUS
  <2>1. lang(l) \in Locales \cup {Absent} /\ c[p].words[l] \in Int
    BY <1>2
  <2> HIDE DEF lang
  <2> QED
    BY <2>1 DEF Hits
<1>6. g \in [K -> Hits]
  BY <1>3 DEF Hits
<1>7. TextHits(c, p, reader) = {f[l] : l \in L} \cup {g[ch] : ch \in K}
  <2>1. {f[l] : l \in L} = {[id |-> p, matchedLocale |-> lang(l), score |-> c[p].words[l]] : l \in L}
    OBVIOUS
  <2>2. {g[ch] : ch \in K} = {[id |-> p, matchedLocale |-> Absent, score |-> ch.rank] : ch \in K}
    OBVIOUS
  <2> QED
    BY <2>1, <2>2 DEF TextHits
<1>8. (\A l \in L : f[l].id = p) /\ \A ch \in K : g[ch].id = p
  OBVIOUS
<1> HIDE DEF f, g, L, K
<1>9. IsFiniteSet({f[l] : l \in L}) /\ IsFiniteSet({g[ch] : ch \in K})
  BY <1>3, <1>4, <1>5, <1>6, NamedIsFinite
<1>10. IsFiniteSet({f[l] : l \in L} \cup {g[ch] : ch \in K})
  BY <1>9, FS_Union
<1> QED
  BY <1>5, <1>6, <1>7, <1>8, <1>10

\* The text arm returns published listings by a hit of their own, and by one in
\* another language only where they have no other.
LEMMA TextArmFacts ==
    ASSUME NEW c \in Corpora, NEW reader, NEW list, list = TextArm(c, reader, Candidates)
    PROVE  /\ IsArm(list)
           /\ \A i \in DOMAIN list :
                /\ list[i].id \in Published(c) /\ list[i] \in TextHits(c, list[i].id, reader)
                /\ list[i].matchedLocale # Absent =>
                     \A g \in TextHits(c, list[i].id, reader) : g.matchedLocale # Absent
           /\ Candidates # 0 /\ (\E p \in Published(c) : TextHits(c, p, reader) # {}) => list # <<>>
<1> DEFINE P == {p \in Published(c) : TextHits(c, p, reader) # {}}
           f == [p \in P |-> BestOf(TextHits(c, p, reader), ReadsBetter)]
           B == {f[p] : p \in P}
           s == Ordered(B, ReadsBetter)
<1>1. P \subseteq Listings /\ IsFiniteSet(P)
  <2>1. P \in SUBSET Listings
    BY DEF Published
  <2> HIDE DEF P
  <2> QED
    BY <2>1, FS_Subset, SearchAssumption
<1>2. ASSUME NEW p \in P
      PROVE  /\ f[p] \in Hits /\ f[p].id = p /\ p \in Published(c) /\ f[p] \in TextHits(c, p, reader)
             /\ \A g \in TextHits(c, p, reader) : ~ReadsBetter(g, f[p])
  <2> DEFINE H == TextHits(c, p, reader)
  <2>1. /\ H \in SUBSET Hits /\ IsFiniteSet(H) /\ H # {} /\ \A h \in H : h.id = p
    BY <1>1, TextHitsFacts
  <2>2. f[p] = BestOf(H, ReadsBetter) /\ p \in Published(c)
    OBVIOUS
  <2> HIDE DEF H, f
  <2>3. f[p] \in H /\ \A g \in H : ~ReadsBetter(g, f[p])
    BY <2>1, <2>2, BestHit
  <2> QED
    BY <2>1, <2>2, <2>3 DEF H
<1>3. list = First(s, Candidates)
  <2>1. B = {BestOf(TextHits(c, p, reader), ReadsBetter) : p \in P}
    OBVIOUS
  <2> QED
    BY <2>1 DEF TextArm
<1>4. f \in [P -> Hits]
  BY <1>2
<1> HIDE DEF f
<1>5. IsFiniteSet(B)
  <2> HIDE DEF P
  <2> QED
    BY <1>1, <1>4, NamedIsFinite
<1>6. \A h \in B : h.id \in P /\ h = f[h.id] /\ h \in Hits
  <2> HIDE DEF P
  <2> QED
    BY <1>2
<1> DEFINE t == s
<1> HIDE DEF B, t
<1>7. t \in SetToSeqs(B)
  BY <1>5, <1>6, HitsAreOrdered DEF t
<1>8. list = First(t, Candidates)
  BY <1>3 DEF t
<1>9. /\ IsArm(list) /\ \A i \in DOMAIN list : list[i] \in B
      /\ B # {} /\ Candidates # 0 => list # <<>>
  BY <1>5, <1>6, <1>7, <1>8, ArmOfBest
<1>10. ASSUME NEW i \in DOMAIN list
       PROVE  /\ list[i].id \in Published(c) /\ list[i] \in TextHits(c, list[i].id, reader)
              /\ list[i].matchedLocale # Absent =>
                     \A g \in TextHits(c, list[i].id, reader) : g.matchedLocale # Absent
  <2> DEFINE h == list[i]
  <2>1. h.id \in P /\ h = f[h.id]
    BY <1>6, <1>9
  <2> HIDE DEF h
  <2>2. /\ h.id \in Published(c) /\ h \in TextHits(c, h.id, reader)
        /\ \A g \in TextHits(c, h.id, reader) : ~ReadsBetter(g, h)
    BY <1>2, <2>1
  <2>3. h.matchedLocale # Absent => \A g \in TextHits(c, h.id, reader) : g.matchedLocale # Absent
    BY <2>2 DEF ReadsBetter
  <2> QED
    BY <2>2, <2>3 DEF h
<1>11. (\E p \in Published(c) : TextHits(c, p, reader) # {}) => B # {}
  BY DEF B
<1> QED
  BY <1>9, <1>10, <1>11

\* The vector arm returns no listing twice, and no hit in another language.
LEMMA VectorArmFacts ==
    ASSUME NEW c \in Corpora, NEW n \in Nat, NEW cut \in Nearest(c, n),
           NEW list, list = VectorArm(c, cut, Candidates)
    PROVE  IsArm(list) /\ \A i \in DOMAIN list : list[i].matchedLocale = Absent
<1> DEFINE all == UNION {{p} \X DOMAIN c[p].chunks : p \in Published(c)}
           P == {x[1] : x \in cut}
           f == [p \in P |-> BestOf(VectorHits(c, cut, p), Nearer)]
           B == {f[p] : p \in P}
           s == Ordered(B, Nearer)
<1>0. ASSUME NEW p \in Published(c)
      PROVE  p \in Listings /\ c[p].chunks \in Seq(Chunks)
  <2>1. c[p] \in Texts
    BY SearchAssumption DEF Published
  <2> QED
    BY <2>1 DEF Texts, Published
<1>1. cut \in SUBSET all
  BY DEF Nearest
<1>2. ASSUME NEW x \in cut
      PROVE  x[1] \in Listings /\ c[x[1]].chunks[x[2]].near \in Int
  <2>1. PICK p \in Published(c) : x \in {p} \X DOMAIN c[p].chunks
    BY <1>1
  <2>2. x[1] = p /\ x[2] \in DOMAIN c[p].chunks
    BY <2>1
  <2>3. c[p].chunks[x[2]] \in Chunks
    BY <1>0, <2>2
  <2> QED
    BY <1>0, <2>2, <2>3 DEF Chunks
<1>3. IsFiniteSet(cut)
  <2> DEFINE g == [p \in Published(c) |-> {p} \X DOMAIN c[p].chunks]
             G == {g[p] : p \in Published(c)}
  <2>1. IsFiniteSet(Published(c))
    <3>1. Published(c) \in SUBSET Listings
      BY DEF Published
    <3> QED
      BY <3>1, FS_Subset, SearchAssumption
  <2>2. \A p \in Published(c) : IsFiniteSet(g[p])
    <3> SUFFICES ASSUME NEW p \in Published(c)
                 PROVE  IsFiniteSet({p} \X DOMAIN c[p].chunks)
      OBVIOUS
    <3> DEFINE u == c[p].chunks
    <3>1. u \in Seq(Chunks)
      BY <1>0
    <3> HIDE DEF u
    <3>2. Len(u) \in Nat /\ DOMAIN u = 1..Len(u)
      BY <3>1
    <3>3. IsFiniteSet({p}) /\ IsFiniteSet(DOMAIN u)
      BY <3>2, UpToIsFinite, FS_Singleton
    <3>4. IsFiniteSet({p} \X DOMAIN u)
      BY <3>3, FS_Product
    <3> QED
      BY <3>4 DEF u
  <2>3. g \in [Published(c) -> G]
    OBVIOUS
  <2>4. all = UNION G /\ G = {g[p] : p \in Published(c)}
    OBVIOUS
  <2> DEFINE Q == Published(c)
  <2> HIDE DEF g, all, G, P, f, B, s
  <2>5. IsFiniteSet(G) /\ \A T \in G : IsFiniteSet(T)
    <3>1. IsFiniteSet(G)
      <4>1. IsFiniteSet(Q) /\ g \in [Q -> G]
        BY <2>1, <2>3
      <4>2. G = {g[p] : p \in Q}
        BY <2>4
      <4> HIDE DEF Q
      <4>3. IsFiniteSet({g[p] : p \in Q})
        BY <4>1, NamedIsFinite
      <4> QED
        BY <4>2, <4>3
    <3> QED
      BY <2>2, <2>4, <3>1
  <2>6. IsFiniteSet(all)
    BY <2>4, <2>5, FS_UNION
  <2> QED
    BY <1>1, <2>6, FS_Subset
<1> HIDE DEF all
<1>4. IsFiniteSet(P) /\ P \subseteq Listings
  <2> DEFINE g == [x \in cut |-> x[1]]
  <2>1. g \in [cut -> Listings] /\ P = {g[x] : x \in cut}
    BY <1>2
  <2> HIDE DEF g, P
  <2> QED
    BY <1>3, <2>1, NamedIsFinite
<1>5. ASSUME NEW p \in P
      PROVE  f[p] \in Hits /\ f[p].id = p /\ f[p].matchedLocale = Absent
  <2> DEFINE H == VectorHits(c, cut, p)
             X == {x \in cut : x[1] = p}
             g == [x \in X |-> [id |-> p, matchedLocale |-> Absent, score |-> c[p].chunks[x[2]].near]]
  <2>1. H = {g[x] : x \in X}
    BY DEF VectorHits
  <2>2. X # {} /\ X \in SUBSET cut /\ p \in Listings
    BY <1>4
  <2>3. g \in [X -> Hits] /\ \A x \in X : g[x].id = p /\ g[x].matchedLocale = Absent
    <3>1. ASSUME NEW x \in X
          PROVE  c[p].chunks[x[2]].near \in Int
      BY <1>2
    <3> QED
      BY <2>2, <3>1 DEF Hits
  <2>4. f[p] = BestOf(H, Nearer)
    OBVIOUS
  <2> HIDE DEF H, X, g, f
  <2>5. IsFiniteSet(X)
    BY <1>3, <2>2, FS_Subset
  <2>6. /\ IsFiniteSet(H) /\ H \in SUBSET Hits /\ H # {}
        /\ \A h \in H : h.id = p /\ h.matchedLocale = Absent
    BY <2>1, <2>2, <2>3, <2>5, NamedIsFinite
  <2>7. f[p] \in H
    BY <2>4, <2>6, BestHit
  <2> QED
    BY <2>6, <2>7
<1>6. list = First(s, Candidates)
  <2>1. B = {BestOf(VectorHits(c, cut, p), Nearer) : p \in P}
    OBVIOUS
  <2> QED
    BY <2>1 DEF VectorArm
<1>7. f \in [P -> Hits]
  BY <1>5
<1> HIDE DEF f, P
<1>8. IsFiniteSet(B)
  BY <1>4, <1>7, NamedIsFinite
<1>9. \A h \in B : h.id \in P /\ h = f[h.id] /\ h \in Hits /\ h.matchedLocale = Absent
  BY <1>5
<1> DEFINE t == s
<1> HIDE DEF B, t
<1>10. t \in SetToSeqs(B)
  BY <1>8, <1>9, HitsAreOrdered DEF t
<1>11. list = First(t, Candidates)
  BY <1>6 DEF t
<1>12. IsArm(list) /\ \A i \in DOMAIN list : list[i] \in B
  BY <1>8, <1>9, <1>10, <1>11, ArmOfBest
<1> QED
  BY <1>9, <1>12

-----------------------------------------------------------------------------
(* What weighs more.                                                       *)

\* An arm ranks each of its hits where it lists it.
LEMMA ArmRanks ==
    ASSUME NEW list, IsArm(list)
    PROVE  /\ \A p : RankOf(list, p) \in 0..Candidates
           /\ \A p : RankOf(list, p) # 0 => RankOf(list, p) \in DOMAIN list /\ list[RankOf(list, p)].id = p
           /\ \A i \in DOMAIN list : RankOf(list, list[i].id) = i
           /\ \A p, q : RankOf(list, p) # 0 /\ RankOf(list, p) = RankOf(list, q) => p = q
<1>1. /\ list \in Seq(Hits) /\ Len(list) \in Nat /\ DOMAIN list = 1..Len(list) /\ Len(list) <= Candidates
      /\ \A i, j \in DOMAIN list : list[i].id = list[j].id => i = j
  BY DEF IsArm
<1>2. ASSUME NEW p
      PROVE  /\ RankOf(list, p) \in 0..Candidates
             /\ RankOf(list, p) # 0 => RankOf(list, p) \in DOMAIN list /\ list[RankOf(list, p)].id = p
             /\ \A i \in DOMAIN list : list[i].id = p => RankOf(list, p) # 0
  <2> DEFINE r == RankOf(list, p)
  <2>1. /\ r \in 0..Len(list)
        /\ r # 0 => list[r].id = p
        /\ \A i \in DOMAIN list : list[i].id = p => r # 0
    BY <1>1, RankFacts
  <2> HIDE DEF r
  <2>2. r \in 0..Candidates /\ (r # 0 => r \in DOMAIN list)
    BY <1>1, <2>1, CandidatesType
  <2> QED
    BY <2>1, <2>2 DEF r
<1>3. \A i \in DOMAIN list : RankOf(list, list[i].id) = i
  <2> SUFFICES ASSUME NEW i \in DOMAIN list
               PROVE  RankOf(list, list[i].id) = i
    OBVIOUS
  <2> DEFINE r == RankOf(list, list[i].id)
  <2>1. r # 0 /\ r \in DOMAIN list /\ list[r].id = list[i].id
    BY <1>2
  <2> HIDE DEF r
  <2>2. r = i
    BY <1>1, <2>1
  <2> QED
    BY <2>2 DEF r
<1> QED
  BY <1>2, <1>3

\* Of two listings one at most outweighs the other.
LEMMA NotBoth ==
    ASSUME NEW x, NEW y, x.weight \in Fractions, y.weight \in Fractions, x.id \in Nat, y.id \in Nat,
           Outweighs(x, y)
    PROVE  ~Outweighs(y, x)
<1> DEFINE m == x.weight[1] * y.weight[2]
           k == y.weight[1] * x.weight[2]
<1>1. m \in Nat /\ k \in Nat
  BY PositiveProduct DEF Fractions
<1>2. m > k \/ (m = k /\ x.id < y.id)
  BY DEF Outweighs
<1>3. Outweighs(y, x) <=> k > m \/ (k = m /\ y.id < x.id)
  BY DEF Outweighs
<1> HIDE DEF m, k
<1> QED
  BY <1>1, <1>2, <1>3

\* 1/a + 1/b is more than 1/c where neither is less than half of it, ...
LEMMA HalvesAreMore ==
    ASSUME NEW a \in Nat \ {0}, NEW b \in Nat \ {0}, NEW c \in Nat \ {0}, a < 2 * c, b < 2 * c
    PROVE  (b + a) * c > a * b
<1>1. (2 * c) * a >= (b + 1) * a /\ (2 * c) * b >= (a + 1) * b
  <2>1. 2 * c >= b + 1 /\ 2 * c >= a + 1 /\ 2 * c \in Nat /\ a + 1 \in Nat /\ b + 1 \in Nat
    OBVIOUS
  <2> QED
    BY <2>1, Factor
<1> DEFINE ac == a * c
           bc == b * c
           ab == a * b
<1>2. ac \in Nat /\ bc \in Nat /\ ab \in Nat
  BY PositiveProduct
<1>3. /\ (2 * c) * a = 2 * ac /\ (2 * c) * b = 2 * bc /\ (b + 1) * a = ab + a /\ (a + 1) * b = ab + b
      /\ (b + a) * c = bc + ac
  OBVIOUS
<1>4. 2 * ac >= ab + a /\ 2 * bc >= ab + b
  BY <1>1, <1>3
<1> HIDE DEF ac, bc, ab
<1>5. bc + ac > ab
  BY <1>2, <1>4
<1> QED
  BY <1>3, <1>5 DEF ab

\* ... and where one of them is no less.
LEMMA OneIsAsMuch ==
    ASSUME NEW a \in Nat \ {0}, NEW b \in Nat \ {0}, NEW c \in Nat \ {0}, a <= c
    PROVE  (b + a) * c > a * b
<1>1. c * b >= a * b
  BY Factor
<1> DEFINE ac == a * c
           bc == c * b
           ab == a * b
<1>2. ac \in Nat /\ ac > 0 /\ bc \in Nat /\ ab \in Nat
  BY PositiveProduct
<1>3. (b + a) * c = bc + ac
  OBVIOUS
<1>4. bc >= ab
  BY <1>1
<1> HIDE DEF ac, bc, ab
<1>5. bc + ac > ab
  BY <1>2, <1>4
<1> QED
  BY <1>3, <1>5 DEF ab

\* Two shares of which each is more than either of two others.
LEMMA BothAreMore ==
    ASSUME NEW a \in Nat \ {0}, NEW c \in Nat, NEW d \in Nat, a < c, a < d
    PROVE  (a + a) * (c * d) > (d + c) * (a * a)
<1> DEFINE ac == a * c
           ad == a * d
<1>1. ac \in Nat /\ ac > 0 /\ ad \in Nat /\ ad > 0
  <2>1. a \in Nat /\ a > 0 /\ c > 0 /\ d > 0
    OBVIOUS
  <2> QED
    BY <2>1, PositiveProduct
<1>2. c * ad > a * ad /\ d * ac > a * ac
  <2> HIDE DEF ac, ad
  <2>1. ~(a >= c) /\ ~(a >= d)
    OBVIOUS
  <2>2. ~(a * ad >= c * ad) /\ ~(a * ac >= d * ac)
    BY <1>1, <2>1, Factor
  <2>3. c * ad \in Nat /\ a * ad \in Nat /\ d * ac \in Nat /\ a * ac \in Nat
    BY <1>1, PositiveProduct
  <2> DEFINE u == c * ad
             v == a * ad
             w == d * ac
             z == a * ac
  <2>4. ~(v >= u) /\ ~(z >= w) /\ u \in Nat /\ v \in Nat /\ w \in Nat /\ z \in Nat
    BY <2>2, <2>3
  <2> HIDE DEF u, v, w, z
  <2>5. u > v /\ w > z
    BY <2>4
  <2> QED
    BY <2>5 DEF u, v, w, z
<1>3. (a + a) * (c * d) = c * ad + d * ac /\ (d + c) * (a * a) = a * ad + a * ac
  <2>1. \A x, y, z \in Nat : x * (y * z) = y * (x * z) /\ x * (y * z) = z * (x * y)
    OBVIOUS
  <2>2. c * (a * d) = a * (c * d) /\ d * (a * c) = a * (c * d)
    BY <2>1
  <2>3. \A x, y, z \in Nat : (x + y) * z = x * z + y * z
    OBVIOUS
  <2>4. c * d \in Nat /\ a * a \in Nat
    OBVIOUS
  <2>5. (a + a) * (c * d) = a * (c * d) + a * (c * d) /\ (d + c) * (a * a) = d * (a * a) + c * (a * a)
    BY <2>3, <2>4
  <2>6. d * (a * a) = a * (a * d) /\ c * (a * a) = a * (a * c)
    BY <2>1
  <2> QED
    BY <2>2, <2>5, <2>6
<1>4. /\ c * ad \in Nat /\ a * ad \in Nat /\ d * ac \in Nat /\ a * ac \in Nat
  BY <1>1, PositiveProduct
<1> DEFINE u == c * ad
           v == a * ad
           w == d * ac
           z == a * ac
<1>5. u > v /\ w > z /\ u \in Nat /\ v \in Nat /\ w \in Nat /\ z \in Nat
  BY <1>2, <1>4
<1>6. (a + a) * (c * d) = u + w /\ (d + c) * (a * a) = v + z
  BY <1>3
<1> HIDE DEF u, v, w, z
<1>7. u + w > v + z
  BY <1>5
<1> QED
  BY <1>6, <1>7

\* The weight of a listing of one list, and of two.
LEMMA FusedOfOne ==
    ASSUME NEW lists, IsLists(lists, 1), NEW p, NEW a, a = RRFK + RankOf(lists[1], p), RankOf(lists[1], p) # 0
    PROVE  a \in Nat /\ a > RRFK /\ RRFK \in Nat /\ FusedOf(lists, p).weight = <<1, a>>
<1>1. RankOf(lists[1], p) \in 0..Candidates
  <2>1. IsArm(lists[1])
    BY DEF IsLists
  <2> QED
    BY <2>1, ArmRanks
<1>2. /\ RanksIn(lists, p) \in Seq(Nat) /\ Len(RanksIn(lists, p)) = 1
      /\ RanksIn(lists, p)[1] = RankOf(lists[1], p)
  <2>1. RanksIn(lists, p) \in Seq(Nat)
    BY RanksOf
  <2>2. Len(RanksIn(lists, p)) = 1
    BY RanksOf
  <2>3. \A i \in 1..1 : RanksIn(lists, p)[i] = RankOf(lists[i], p)
    BY RanksOf
  <2> QED
    BY <2>1, <2>2, <2>3
<1>3. FusedOf(lists, p).weight = Weight(RanksIn(lists, p))
  BY FusedFacts
<1>4. a \in Nat /\ a > RRFK /\ RRFK \in Nat
  BY <1>1, SearchAssumption
<1> QED
  BY <1>2, <1>3, <1>4, WeightOfOne

\* What two arms make of a listing, by its ranks.
LEMMA FusedOfTwo ==
    ASSUME NEW lists, IsLists(lists, 2), NEW p, NEW r, NEW t, NEW a, NEW b,
           r = RankOf(lists[1], p), t = RankOf(lists[2], p), a = RRFK + r, b = RRFK + t
    PROVE  /\ r \in 0..Candidates /\ t \in 0..Candidates /\ Candidates \in Nat
           /\ a \in Nat /\ b \in Nat /\ RRFK \in Nat /\ (r # 0 => a > RRFK) /\ (t # 0 => b > RRFK)
           /\ r # 0 /\ t = 0 => FusedOf(lists, p).weight = <<1, a>>
           /\ r = 0 /\ t # 0 => FusedOf(lists, p).weight = <<1, b>>
           /\ r # 0 /\ t # 0 => FusedOf(lists, p).weight = <<b + a, a * b>>
<1>1. r \in 0..Candidates /\ t \in 0..Candidates
  <2>1. IsArm(lists[1]) /\ IsArm(lists[2])
    BY DEF IsLists
  <2> QED
    BY <2>1, ArmRanks
<1> DEFINE ranks == RanksIn(lists, p)
<1>2. ranks \in Seq(Nat) /\ Len(ranks) = 2 /\ ranks[1] = r /\ ranks[2] = t
  <2>1. ranks \in Seq(Nat)
    BY RanksOf
  <2>2. Len(ranks) = 2
    BY RanksOf
  <2>3. \A i \in 1..2 : ranks[i] = RankOf(lists[i], p)
    BY RanksOf
  <2> QED
    BY <2>1, <2>2, <2>3
<1>3. FusedOf(lists, p).weight = Weight(ranks)
  BY FusedFacts
<1> HIDE DEF ranks
<1>4. a \in Nat /\ b \in Nat /\ RRFK \in Nat /\ (r # 0 => a > RRFK) /\ (t # 0 => b > RRFK)
  BY <1>1, CandidatesType, SearchAssumption
<1>5. /\ r # 0 /\ t = 0 => Weight(ranks) = <<1, a>>
      /\ r = 0 /\ t # 0 => Weight(ranks) = <<1, b>>
      /\ r # 0 /\ t # 0 => Weight(ranks) = <<b + a, a * b>>
  BY <1>2, WeightOfTwo
<1> QED
  BY <1>1, <1>3, <1>4, <1>5, CandidatesType

\* A fused weight that is more.
LEMMA MoreOutweighs ==
    ASSUME NEW x, NEW y, x.weight[1] * y.weight[2] > y.weight[1] * x.weight[2]
    PROVE  Outweighs(x, y)
  BY DEF Outweighs

\* Where no list is longer than the constant is large, two places in any lists are
\* worth more than one in either.
LEMMA TwoOutweighOne ==
    ASSUME Candidates <= RRFK, NEW lists, IsLists(lists, 2), NEW p, NEW q,
           RankOf(lists[1], p) # 0, RankOf(lists[2], p) # 0,
           \/ RankOf(lists[1], q) # 0 /\ RankOf(lists[2], q) = 0
           \/ RankOf(lists[1], q) = 0 /\ RankOf(lists[2], q) # 0
    PROVE  Outweighs(FusedOf(lists, p), FusedOf(lists, q))
<1> DEFINE a == RRFK + RankOf(lists[1], p)
           b == RRFK + RankOf(lists[2], p)
<1>1. /\ a \in Nat /\ b \in Nat /\ a > RRFK /\ b > RRFK /\ a <= 2 * RRFK /\ b <= 2 * RRFK /\ RRFK \in Nat
      /\ FusedOf(lists, p).weight = <<b + a, a * b>>
  <2> DEFINE r == RankOf(lists[1], p)
             t == RankOf(lists[2], p)
  <2>1. /\ r \in 0..Candidates /\ t \in 0..Candidates /\ Candidates \in Nat
        /\ a \in Nat /\ b \in Nat /\ RRFK \in Nat /\ a > RRFK /\ b > RRFK
        /\ FusedOf(lists, p).weight = <<b + a, a * b>>
    BY FusedOfTwo
  <2>2. a = RRFK + r /\ b = RRFK + t
    OBVIOUS
  <2> HIDE DEF r, t, a, b
  <2>3. a <= 2 * RRFK /\ b <= 2 * RRFK
    BY <2>1, <2>2
  <2> QED
    BY <2>1, <2>3
<1>2. PICK c \in Nat : c > RRFK /\ FusedOf(lists, q).weight = <<1, c>>
  <2>1. CASE RankOf(lists[1], q) # 0 /\ RankOf(lists[2], q) = 0
    BY <2>1, FusedOfTwo
  <2>2. CASE RankOf(lists[1], q) = 0 /\ RankOf(lists[2], q) # 0
    BY <2>2, FusedOfTwo
  <2> QED
    BY <2>1, <2>2
<1> HIDE DEF a, b
<1>3. a \in Nat \ {0} /\ b \in Nat \ {0} /\ c \in Nat \ {0} /\ a < 2 * c /\ b < 2 * c
  BY <1>1, <1>2
<1>4. (b + a) * c > a * b
  BY <1>3, HalvesAreMore
<1>5. 1 * (a * b) = a * b
  <2>1. a * b \in Nat
    BY <1>1
  <2> QED
    BY <2>1
<1> QED
  BY <1>1, <1>2, <1>4, <1>5, MoreOutweighs

\* What both lists have first outweighs all else.
LEMMA AgreedOutweighs ==
    ASSUME NEW lists, IsLists(lists, 2), NEW p, NEW q, p # q, RankOf(lists[1], p) = 1, RankOf(lists[2], p) = 1,
           RankOf(lists[1], q) # 0 \/ RankOf(lists[2], q) # 0
    PROVE  Outweighs(FusedOf(lists, p), FusedOf(lists, q))
<1> DEFINE a == RRFK + 1
           r == RankOf(lists[1], q)
           t == RankOf(lists[2], q)
           c == RRFK + r
           d == RRFK + t
<1>1. r # 1 /\ t # 1
  <2>1. IsArm(lists[1]) /\ IsArm(lists[2])
    BY DEF IsLists
  <2> QED
    BY <2>1, ArmRanks
<1>2. a \in Nat \ {0} /\ FusedOf(lists, p).weight = <<a + a, a * a>>
  <2>1. FusedOf(lists, p).weight = <<a + a, a * a>>
    BY FusedOfTwo
  <2> QED
    BY <2>1, SearchAssumption
<1>3. /\ r \in Nat /\ t \in Nat /\ c \in Nat /\ d \in Nat /\ RRFK \in Nat
      /\ r # 0 /\ t = 0 => FusedOf(lists, q).weight = <<1, c>>
      /\ r = 0 /\ t # 0 => FusedOf(lists, q).weight = <<1, d>>
      /\ r # 0 /\ t # 0 => FusedOf(lists, q).weight = <<d + c, c * d>>
  <2>1. /\ r \in 0..Candidates /\ t \in 0..Candidates /\ Candidates \in Nat
        /\ c \in Nat /\ d \in Nat /\ RRFK \in Nat
    BY FusedOfTwo
  <2>2. /\ r # 0 /\ t = 0 => FusedOf(lists, q).weight = <<1, c>>
        /\ r = 0 /\ t # 0 => FusedOf(lists, q).weight = <<1, d>>
        /\ r # 0 /\ t # 0 => FusedOf(lists, q).weight = <<d + c, c * d>>
    BY FusedOfTwo
  <2> HIDE DEF r, t, c, d
  <2>3. r \in Nat /\ t \in Nat
    BY <2>1
  <2> QED
    BY <2>1, <2>2, <2>3
<1>4. (r # 0 => a < c) /\ (t # 0 => a < d)
  <2>1. r \in Nat /\ t \in Nat /\ RRFK \in Nat
    BY <1>3
  <2> HIDE DEF r, t
  <2> QED
    BY <1>1, <2>1
<1>5. a * a \in Nat /\ 1 * (a * a) = a * a
  <2>1. a * a \in Nat
    BY <1>2, PositiveProduct
  <2> QED
    BY <2>1
<1>6. r # 0 \/ t # 0
  OBVIOUS
<1> HIDE DEF a, r, t, c, d
<1>7. ASSUME NEW e \in Nat, a < e, FusedOf(lists, q).weight = <<1, e>>
      PROVE  Outweighs(FusedOf(lists, p), FusedOf(lists, q))
  <2>1. e \in Nat \ {0} /\ a < 2 * e
    BY <1>2, <1>7
  <2>2. (a + a) * e > a * a
    BY <1>2, <2>1, HalvesAreMore
  <2> QED
    BY <1>2, <1>5, <1>7, <2>2, MoreOutweighs
<1>8. CASE r # 0 /\ t = 0
  BY <1>3, <1>4, <1>7, <1>8
<1>9. CASE r = 0 /\ t # 0
  BY <1>3, <1>4, <1>7, <1>9
<1>10. CASE r # 0 /\ t # 0
  <2>1. (a + a) * (c * d) > (d + c) * (a * a)
    BY <1>2, <1>3, <1>4, <1>10, BothAreMore
  <2> QED
    BY <1>2, <1>3, <1>10, <2>1, MoreOutweighs
<1> QED
  BY <1>6, <1>8, <1>9, <1>10

\* Only what the second list has first is before the first of the first list where it
\* is not in that list itself.
LEMMA OnlyNearestOutweighs ==
    ASSUME NEW lists, IsLists(lists, 2), NEW p, NEW q, RankOf(lists[1], p) = 1,
           RankOf(lists[1], q) = 0, RankOf(lists[2], q) # 0,
           Outweighs(FusedOf(lists, q), FusedOf(lists, p))
    PROVE  RankOf(lists[2], q) = 1
<1> DEFINE a == RRFK + 1
           t == RankOf(lists[2], p)
           b == RRFK + t
           v == RankOf(lists[2], q)
           c == RRFK + v
           x == FusedOf(lists, q).weight
           y == FusedOf(lists, p).weight
<1>1. /\ t \in Nat /\ a \in Nat \ {0} /\ b \in Nat /\ (t # 0 => b \in Nat \ {0}) /\ RRFK \in Nat
      /\ (t = 0 => y = <<1, a>>) /\ (t # 0 => y = <<b + a, a * b>>)
  <2>1. /\ t \in 0..Candidates /\ Candidates \in Nat /\ a \in Nat /\ b \in Nat /\ RRFK \in Nat
        /\ (t # 0 => b > RRFK) /\ a > RRFK
    BY FusedOfTwo
  <2>2. (t = 0 => y = <<1, a>>) /\ (t # 0 => y = <<b + a, a * b>>)
    BY FusedOfTwo
  <2> QED
    BY <2>1, <2>2
<1>2. v \in Nat /\ v # 0 /\ c \in Nat \ {0} /\ x = <<1, c>>
  <2>1. v \in 0..Candidates /\ Candidates \in Nat /\ c \in Nat /\ c > RRFK /\ RRFK \in Nat
    BY FusedOfTwo
  <2>2. x = <<1, c>>
    BY FusedOfTwo
  <2> QED
    BY <2>1, <2>2
<1>3. a <= c /\ (a = c => v = 1)
  <2> HIDE DEF v
  <2> QED
    BY <1>1, <1>2
<1>4. x[1] * y[2] >= y[1] * x[2]
  <2>1. x \in Fractions /\ y \in Fractions
    <3>1. 2 \in Nat
      OBVIOUS
    <3> QED
      BY <3>1, FusedFacts
  <2> DEFINE m == x[1] * y[2]
             k == y[1] * x[2]
  <2>2. m \in Nat /\ k \in Nat
    <3> HIDE DEF x, y
    <3> QED
      BY <2>1, PositiveProduct DEF Fractions
  <2>3. m > k \/ m = k
    BY DEF Outweighs
  <2> HIDE DEF m, k
  <2>4. m >= k
    BY <2>2, <2>3
  <2> QED
    BY <2>4 DEF m, k
<1> HIDE DEF x, y, t, a, b, c, v
<1>5. CASE t = 0
  <2>1. 1 * a >= 1 * c
    BY <1>1, <1>2, <1>4, <1>5
  <2>2. a = c
    BY <1>1, <1>2, <1>3, <2>1
  <2> QED
    BY <1>3, <2>2 DEF v
<1>6. CASE t # 0
  <2>1. 1 * (a * b) >= (b + a) * c
    BY <1>1, <1>2, <1>4, <1>6
  <2>2. (b + a) * c > a * b
    BY <1>1, <1>2, <1>3, <1>6, OneIsAsMuch
  <2> DEFINE m == a * b
             k == (b + a) * c
  <2>3. m \in Nat /\ k \in Nat
    BY <1>1, <1>2, PositiveProduct
  <2>4. 1 * m >= k /\ k > m
    BY <2>1, <2>2
  <2> HIDE DEF m, k
  <2>5. FALSE
    BY <2>3, <2>4
  <2> QED
    BY <2>5
<1> QED
  BY <1>5, <1>6

\* A page of one list begins with what that list begins with.
LEMMA OneArmKeepsItsFirst ==
    ASSUME NEW lists, IsLists(lists, 1), NEW p, RankOf(SearchProducts(lists), p) = 1
    PROVE  RankOf(lists[1], p) = 1 /\ Limit # 0
<1> DEFINE page == SearchProducts(lists)
           list == lists[1]
           q == list[1].id
           r == RankOf(list, p)
<1>1. /\ page \in Seq(Fused(lists)) /\ Len(page) \in 0..Limit /\ DOMAIN page = 1..Len(page)
      /\ \A i \in DOMAIN page : page[i].id \in Found(lists) /\ page[i] = FusedOf(lists, page[i].id)
      /\ \A i \in DOMAIN page, u \in Found(lists) :
           \/ u = page[i].id
           \/ Outweighs(page[i], FusedOf(lists, u))
           \/ \E j \in 1..i - 1 : page[j].id = u
  BY PageFacts
<1>2. page[1].id = p /\ 1 \in DOMAIN page
  <2>1. /\ RankOf(page, p) \in 0..Len(page)
        /\ RankOf(page, p) # 0 => page[RankOf(page, p)].id = p
    BY <1>1, RankFacts
  <2>2. 1 \in 0..Len(page) /\ page[1].id = p /\ Len(page) \in Nat
    BY <1>1, <2>1
  <2> HIDE DEF page
  <2> QED
    BY <1>1, <2>2
<1>3. Limit # 0
  <2> HIDE DEF page
  <2> QED
    BY <1>1, <1>2, SearchAssumption
<1>4. IsArm(list)
  BY DEF IsLists
<1>5. p \in Found(lists) /\ r # 0
  <2>1. p \in Found(lists)
    BY <1>1, <1>2
  <2>2. \E i \in 1..1 : RankOf(lists[i], p) # 0
    BY <2>1, FoundFacts
  <2> QED
    BY <2>1, <2>2
<1>6. 1 \in DOMAIN list /\ RankOf(list, q) = 1
  <2> HIDE DEF list
  <2>1. list \in Seq(Hits) /\ r \in DOMAIN list
    BY <1>4, <1>5, ArmRanks DEF IsArm
  <2>2. 1 \in DOMAIN list
    BY <2>1
  <2> QED
    BY <1>4, <2>2, ArmRanks
<1>7. q \in Found(lists)
  <2>1. \E i \in 1..1 : RankOf(lists[i], q) # 0
    BY <1>6
  <2> QED
    BY <2>1, FoundFacts
<1>8. CASE q = p
  BY <1>3, <1>6, <1>8
<1>9. CASE q # p
  <2>1. Outweighs(FusedOf(lists, p), FusedOf(lists, q))
    BY <1>1, <1>2, <1>7, <1>9
  <2> DEFINE a == RRFK + r
             b == RRFK + 1
  <2>2. a \in Nat /\ a > RRFK /\ RRFK \in Nat /\ FusedOf(lists, p).weight = <<1, a>>
    BY <1>5, FusedOfOne
  <2>3. b \in Nat /\ FusedOf(lists, q).weight = <<1, b>>
    BY <1>6, FusedOfOne
  <2>4. 1 * b > 1 * a \/ 1 * b = 1 * a
    <3> HIDE DEF a, b
    <3> QED
      BY <2>1, <2>2, <2>3 DEF Outweighs
  <2>5. r \in Nat
    <3>1. r \in 0..Candidates
      BY <1>4, ArmRanks
    <3> QED
      BY <3>1, CandidatesType
  <2> HIDE DEF r
  <2>6. r = 1
    BY <1>5, <2>2, <2>3, <2>4, <2>5
  <2> QED
    BY <1>3, <2>6 DEF r
<1> QED
  BY <1>8, <1>9

\* A page of two lists begins with what both begin with.
LEMMA AgreedComesFirst ==
    ASSUME NEW lists, IsLists(lists, 2), NEW p, RankOf(lists[1], p) = 1, RankOf(lists[2], p) = 1, Limit # 0
    PROVE  RankOf(SearchProducts(lists), p) = 1
<1> DEFINE page == SearchProducts(lists)
           q == page[1].id
<1>1. p \in Found(lists)
  <2>1. \E i \in 1..2 : RankOf(lists[i], p) # 0
    OBVIOUS
  <2> QED
    BY <2>1, FoundFacts
<1>2. /\ page \in Seq(Fused(lists)) /\ Len(page) \in 0..Limit /\ DOMAIN page = 1..Len(page)
      /\ \A i \in DOMAIN page : page[i].id \in Found(lists) /\ page[i] = FusedOf(lists, page[i].id)
      /\ \A i \in DOMAIN page, u \in Found(lists) :
           \/ u = page[i].id
           \/ Outweighs(page[i], FusedOf(lists, u))
           \/ \E j \in 1..i - 1 : page[j].id = u
  BY PageFacts
<1>3. (\E i \in DOMAIN page : page[i].id = p) \/ Len(page) = Limit
  BY <1>1, PageFacts
<1> HIDE DEF page
<1>4. 1 \in DOMAIN page
  <2>1. Len(page) \in Nat /\ Len(page) # 0
    <3>1. CASE \E i \in DOMAIN page : page[i].id = p
      BY <1>2, <3>1
    <3>2. CASE Len(page) = Limit
      BY <3>2, SearchAssumption
    <3> QED
      BY <1>3, <3>1, <3>2
  <2> QED
    BY <1>2, <2>1
<1>5. q = p \/ Outweighs(FusedOf(lists, q), FusedOf(lists, p))
  BY <1>1, <1>2, <1>4
<1>6. q = p
  <2> SUFFICES ASSUME q # p, Outweighs(FusedOf(lists, q), FusedOf(lists, p))
               PROVE  FALSE
    BY <1>5
  <2>1. q \in Found(lists)
    BY <1>2, <1>4
  <2>2. \E i \in 1..2 : RankOf(lists[i], q) # 0
    BY <2>1, FoundFacts
  <2>3. RankOf(lists[1], q) # 0 \/ RankOf(lists[2], q) # 0
    BY <2>2
  <2> HIDE DEF q
  <2>4. Outweighs(FusedOf(lists, p), FusedOf(lists, q))
    BY <2>3, AgreedOutweighs
  <2>5. p \in Nat /\ q \in Nat
    BY <1>1, <2>1, FoundFacts, SearchAssumption
  <2>6. /\ FusedOf(lists, p).id = p /\ FusedOf(lists, p).weight \in Fractions
        /\ FusedOf(lists, q).id = q /\ FusedOf(lists, q).weight \in Fractions
    <3>1. 2 \in Nat
      OBVIOUS
    <3> QED
      BY <3>1, FusedFacts
  <2> QED
    BY <2>4, <2>5, <2>6, NotBoth
<1>7. RankOf(page, p) = 1
  <2> DEFINE r == RankOf(page, p)
  <2>1. r # 0 /\ r <= 1 /\ r \in 0..Len(page)
    BY <1>2, <1>4, <1>6, RankFacts
  <2> HIDE DEF r
  <2> QED
    BY <1>2, <2>1 DEF r
<1> QED
  BY <1>7 DEF page

-----------------------------------------------------------------------------
(* What is asked of a page.                                                *)

\* The lists that both arms, or one alone, hand to the fusion.
LEMMA ListsOfArms ==
    ASSUME NEW c \in Corpora, NEW reader, NEW cut \in Nearest(c, Candidates * Spread)
    PROVE  /\ IsLists(ArmHits(c, reader, cut, Hybrid), 2)
           /\ ArmHits(c, reader, cut, Hybrid)[1] = TextArm(c, reader, Candidates)
           /\ ArmHits(c, reader, cut, Hybrid)[2] = VectorArm(c, cut, Candidates)
           /\ IsLists(ArmHits(c, reader, cut, <<"text">>), 1)
           /\ ArmHits(c, reader, cut, <<"text">>)[1] = TextArm(c, reader, Candidates)
           /\ IsLists(ArmHits(c, reader, cut, <<"vector">>), 1)
           /\ ArmHits(c, reader, cut, <<"vector">>)[1] = VectorArm(c, cut, Candidates)
<1> DEFINE T == TextArm(c, reader, Candidates)
           V == VectorArm(c, cut, Candidates)
           lists == ArmHits(c, reader, cut, Hybrid)
           texts == ArmHits(c, reader, cut, <<"text">>)
           vectors == ArmHits(c, reader, cut, <<"vector">>)
<1>1. IsArm(T)
  BY TextArmFacts
<1>2. IsArm(V)
  <2>1. Candidates * Spread \in Nat
    BY CandidatesType, PositiveProduct, SearchAssumption
  <2> QED
    BY <2>1, VectorArmFacts
<1>3. DOMAIN lists = 1..2 /\ lists[1] = T /\ lists[2] = V
  BY DEF ArmHits, Hybrid
<1>4. DOMAIN texts = 1..1 /\ texts[1] = T
  BY DEF ArmHits
<1>5. DOMAIN vectors = 1..1 /\ vectors[1] = V
  BY DEF ArmHits
<1> HIDE DEF T, V, lists, texts, vectors
<1>6. IsLists(lists, 2)
  <2>1. \A i \in 1..2 : i = 1 \/ i = 2
    OBVIOUS
  <2> QED
    BY <1>1, <1>2, <1>3, <2>1 DEF IsLists
<1>7. IsLists(texts, 1) /\ IsLists(vectors, 1)
  <2>1. \A i \in 1..1 : i = 1
    OBVIOUS
  <2> QED
    BY <1>1, <1>2, <1>4, <1>5, <2>1 DEF IsLists
<1> QED
  BY <1>3, <1>4, <1>5, <1>6, <1>7 DEF T, V, lists, texts, vectors

\* Of two lists, more of them than some is both of them, and some is one.
LEMMA MoreOfTwo ==
    ASSUME NEW X \in SUBSET (1..2), NEW Y \in SUBSET (1..2), Y # {}, Cardinality(X) > Cardinality(Y)
    PROVE  1 \in X /\ 2 \in X /\ ~(1 \in Y /\ 2 \in Y)
<1>1. IsFiniteSet(1..2) /\ Cardinality(1..2) = 2
  BY UpToIsFinite
<1>2. /\ IsFiniteSet(X) /\ Cardinality(X) <= 2 /\ (Cardinality(X) = 2 => X = 1..2)
      /\ IsFiniteSet(Y) /\ Cardinality(Y) <= 2
  <2>1. IsFiniteSet(X) /\ Cardinality(X) <= 2 /\ (Cardinality(X) = 2 => X = 1..2)
    <3>1. Cardinality(1..2) = Cardinality(X) => 1..2 = X
      BY <1>1, FS_Subset
    <3>2. IsFiniteSet(X) /\ Cardinality(X) <= Cardinality(1..2)
      BY <1>1, FS_Subset
    <3> QED
      BY <1>1, <3>1, <3>2
  <2>2. IsFiniteSet(Y) /\ Cardinality(Y) <= Cardinality(1..2)
    BY <1>1, FS_Subset
  <2> QED
    BY <1>1, <2>1, <2>2
<1>3. /\ Cardinality(X) \in Nat /\ Cardinality(Y) \in Nat /\ Cardinality(Y) # 0
  BY <1>2, FS_CardinalityType, FS_EmptySet
<1>4. Cardinality(X) = 2 /\ Cardinality(Y) = 1
  BY <1>2, <1>3
<1>5. PICK e : Y = {e}
  BY <1>2, <1>4, FS_Singleton
<1> QED
  BY <1>2, <1>4, <1>5

\* Of a page, TwoArmsOutrankOne.
LEMMA PageRewardsAgreement ==
    ASSUME Candidates <= RRFK, NEW c \in Corpora, NEW reader, NEW cut \in Nearest(c, Candidates * Spread),
           shown = PageOf(c, reader, cut)
    PROVE  TwoArmsOutrankOne
<1> DEFINE lists == ArmHits(c, reader, cut, Hybrid)
           page == shown.hits
<1>1. shown.lists = lists /\ page = SearchProducts(lists)
  BY DEF PageOf
<1>2. IsLists(lists, 2)
  BY ListsOfArms
<1> HIDE DEF lists
<1>3. /\ page \in Seq(Fused(lists)) /\ Len(page) \in 0..Limit /\ DOMAIN page = 1..Len(page)
      /\ \A i \in DOMAIN page : page[i].id \in Found(lists) /\ page[i] = FusedOf(lists, page[i].id)
      /\ \A i, j \in DOMAIN page : page[i].id = page[j].id => i = j
      /\ \A i \in DOMAIN page, u \in Found(lists) :
           \/ u = page[i].id
           \/ Outweighs(page[i], FusedOf(lists, u))
           \/ \E j \in 1..i - 1 : page[j].id = u
  <2> HIDE DEF page
  <2> QED
    BY <1>1, <1>2, PageFacts
<1> HIDE DEF page
<1> DEFINE At(p) == {j \in DOMAIN page : page[j].id = p}
           By(p) == {a \in 1..2 : RankOf(lists[a], p) # 0}
<1>4. \A p : Finders(p) = By(p)
  BY <1>1, <1>2 DEF Finders, IsLists
<1>5. ASSUME NEW p
      PROVE  Cardinality(At(p)) <= 1
  <2>1. CASE At(p) = {}
    BY <2>1, FS_EmptySet
  <2>2. CASE At(p) # {}
    <3>1. PICK j : j \in At(p)
      BY <2>2
    <3>2. At(p) = {j}
      BY <1>3, <3>1
    <3>3. Cardinality({j}) = 1
      BY FS_Singleton
    <3> HIDE DEF At
    <3> QED
      BY <3>2, <3>3
  <2> QED
    BY <2>1, <2>2
<1>6. ASSUME NEW p \in Listings, NEW i \in DOMAIN page, Cardinality(By(p)) > Cardinality(By(page[i].id))
      PROVE  \E j \in At(p) : j < i
  <2> DEFINE q == page[i].id
  <2>1. q \in Found(lists) /\ page[i] = FusedOf(lists, q)
    BY <1>3
  <2> HIDE DEF q
  <2>2. By(q) # {}
    <3>1. \E a \in 1..2 : RankOf(lists[a], q) # 0
      BY <1>2, <2>1, FoundFacts
    <3> QED
      BY <3>1
  <2>3. 1 \in By(p) /\ 2 \in By(p) /\ ~(1 \in By(q) /\ 2 \in By(q))
    <3>1. Cardinality(By(p)) > Cardinality(By(q))
      BY <1>6 DEF q
    <3>2. By(p) \in SUBSET (1..2) /\ By(q) \in SUBSET (1..2)
      OBVIOUS
    <3> HIDE DEF By
    <3> QED
      BY <2>2, <3>1, <3>2, MoreOfTwo
  <2>4. /\ RankOf(lists[1], p) # 0 /\ RankOf(lists[2], p) # 0
        /\ \/ RankOf(lists[1], q) # 0 /\ RankOf(lists[2], q) = 0
           \/ RankOf(lists[1], q) = 0 /\ RankOf(lists[2], q) # 0
    <3>1. \A a \in 1..2 : a = 1 \/ a = 2
      OBVIOUS
    <3> QED
      BY <2>2, <2>3, <3>1
  <2>5. Outweighs(FusedOf(lists, p), FusedOf(lists, q))
    BY <1>2, <2>4, TwoOutweighOne
  <2>6. p \in Found(lists)
    <3>1. \E a \in 1..2 : RankOf(lists[a], p) # 0
      BY <2>4
    <3> QED
      BY <1>2, <3>1, FoundFacts
  <2>7. ~Outweighs(FusedOf(lists, q), FusedOf(lists, p))
    <3>1. p \in Nat /\ q \in Nat
      BY <1>2, <2>1, <2>6, FoundFacts, SearchAssumption
    <3>2. /\ FusedOf(lists, p).id = p /\ FusedOf(lists, p).weight \in Fractions
          /\ FusedOf(lists, q).id = q /\ FusedOf(lists, q).weight \in Fractions
      <4>1. 2 \in Nat
        OBVIOUS
      <4> QED
        BY <1>2, <4>1, FusedFacts
    <3> QED
      BY <2>5, <3>1, <3>2, NotBoth
  <2>8. p # q
    BY <2>4
  <2>9. PICK j \in 1..i - 1 : page[j].id = p
    BY <1>3, <2>1, <2>6, <2>7, <2>8 DEF q
  <2>10. j \in DOMAIN page /\ j < i
    BY <1>3
  <2> QED
    BY <2>9, <2>10
<1> HIDE DEF By
<1>7. ASSUME NEW p \in Listings
      PROVE  /\ Cardinality(At(p)) <= 1
             /\ \A i \in DOMAIN page :
                  Cardinality(Finders(p)) > Cardinality(Finders(page[i].id)) => \E j \in At(p) : j < i
  BY <1>4, <1>5, <1>6
<1> QED
  BY <1>7, Zenon DEF TwoArmsOutrankOne, page

\* Of an evaluation, AgreedIsFirst.
LEMMA ScoresAgree ==
    ASSUME NEW c \in Corpora, NEW p \in Listings, NEW cut \in Nearest(c, Candidates * Spread),
           shown = ScoresOf(c, p, cut)
    PROVE  AgreedIsFirst
<1> DEFINE lists == ArmHits(c, "en", cut, Hybrid)
           texts == ArmHits(c, "en", cut, <<"text">>)
           vectors == ArmHits(c, "en", cut, <<"vector">>)
           scores == shown.scores
<1>1. /\ scores["text"] = Score(RankOf(SearchProducts(texts), p))
      /\ scores["vector"] = Score(RankOf(SearchProducts(vectors), p))
      /\ scores["hybrid"] = Score(RankOf(SearchProducts(lists), p))
  <2>1. shown.scores = [arm \in ScoredArms |-> Score(RankOf(SearchProducts(ArmHits(c, "en", cut, ArmsOf(arm))), p))]
    BY DEF ScoresOf
  <2>2. ArmsOf("text") = <<"text">> /\ ArmsOf("vector") = <<"vector">> /\ ArmsOf("hybrid") = Hybrid
    BY DEF ArmsOf
  <2> QED
    BY <2>1, <2>2 DEF ScoredArms
<1>2. /\ IsLists(lists, 2) /\ IsLists(texts, 1) /\ IsLists(vectors, 1)
      /\ lists[1] = texts[1] /\ lists[2] = vectors[1]
  BY ListsOfArms
<1>3. ASSUME NEW rank
      PROVE  Score(rank).precisionAt1 <=> rank = 1
  <2> DEFINE first == rank = 1
  <2>1. Score(rank).precisionAt1 = first
    BY DEF Score
  <2> QED
    BY <2>1
<1> HIDE DEF lists, texts, vectors
<1>4. ASSUME scores["text"].precisionAt1, scores["vector"].precisionAt1
      PROVE  scores["hybrid"].precisionAt1
  <2>1. RankOf(SearchProducts(texts), p) = 1 /\ RankOf(SearchProducts(vectors), p) = 1
    BY <1>1, <1>3, <1>4
  <2>2. RankOf(texts[1], p) = 1 /\ RankOf(vectors[1], p) = 1 /\ Limit # 0
    BY <1>2, <2>1, OneArmKeepsItsFirst
  <2>3. RankOf(SearchProducts(lists), p) = 1
    BY <1>2, <2>2, AgreedComesFirst
  <2> QED
    BY <1>1, <1>3, <2>3
<1> QED
  BY <1>4 DEF AgreedIsFirst

\* However the corpus is, a listing both arms found is above every listing only one
\* did, and what both arms list first is first: where no arm returns more listings
\* than the constant is large, as 48 and 60 are (search.ts:121, rrf.ts:15,42).
THEOREM FusionRewardsAgreementHolds ==
    ASSUME Candidates <= RRFK
    PROVE  SearchSpec => []FusionRewardsAgreement
<1>1. ASSUME ShownInv
      PROVE  FusionRewardsAgreement
  <2>1. TwoArmsOutrankOne
    <3>1. CASE IsPage
      <4>1. PICK c \in Corpora, reader \in Locales :
              \E cut \in Nearest(c, Candidates * Spread) : shown = PageOf(c, reader, cut)
        BY <3>1 DEF IsPage
      <4>2. PICK cut \in Nearest(c, Candidates * Spread) : shown = PageOf(c, reader, cut)
        BY <4>1
      <4> QED
        BY <4>2, PageRewardsAgreement
    <3>2. CASE shown.kind # "page"
      BY <3>2 DEF TwoArmsOutrankOne, Shows
    <3> QED
      BY <1>1, <3>1, <3>2, Kinds DEF ShownInv
  <2>2. AgreedIsFirst
    <3>1. CASE AreScores
      <4>1. PICK c \in Corpora, p \in Listings :
              \E cut \in Nearest(c, Candidates * Spread) : shown = ScoresOf(c, p, cut)
        BY <3>1 DEF AreScores
      <4>2. PICK cut \in Nearest(c, Candidates * Spread) : shown = ScoresOf(c, p, cut)
        BY <4>1
      <4> QED
        BY <4>2, ScoresAgree
    <3>2. CASE shown.kind # "scores"
      BY <3>2 DEF AgreedIsFirst, Shows
    <3> QED
      BY <1>1, <3>1, <3>2, Kinds DEF ShownInv
  <2> QED
    BY <2>1, <2>2 DEF FusionRewardsAgreement
<1> QED
  BY <1>1, ShownInvHolds, PTL

\* A fused listing has the copy of one list that had it.
LEMMA CopyOfTwo ==
    ASSUME NEW lists, IsLists(lists, 2), NEW p \in Found(lists)
    PROVE  \E i \in 1..2 :
             /\ RankOf(lists[i], p) # 0
             /\ FusedOf(lists, p).matchedLocale = lists[i][RankOf(lists[i], p)].matchedLocale
<1> DEFINE r == [i \in DOMAIN lists |-> RankOf(lists[i], p)]
           IsBest(i) == /\ r[i] # 0
                        /\ \A j \in DOMAIN r : r[j] = 0 \/ r[i] < r[j] \/ (r[i] = r[j] /\ i <= j)
           k == CHOOSE i \in DOMAIN r : IsBest(i)
<1>1. DOMAIN r = 1..2 /\ \A i \in 1..2 : r[i] = RankOf(lists[i], p) /\ r[i] \in Nat
  <2>1. DOMAIN lists = 1..2 /\ \A i \in 1..2 : IsArm(lists[i])
    BY DEF IsLists
  <2>2. \A i \in 1..2 : RankOf(lists[i], p) \in 0..Candidates
    BY <2>1, ArmRanks
  <2>3. \A i \in 1..2 : RankOf(lists[i], p) \in Nat
    BY <2>2, CandidatesType
  <2> QED
    BY <2>1, <2>3
<1>2. FusedOf(lists, p).matchedLocale = lists[k][r[k]].matchedLocale
  BY DEF FusedOf
<1> HIDE DEF r
<1>3. \E i \in 1..2 : r[i] # 0
  BY <1>1, FoundFacts
<1>4. \E i \in 1..2 : IsBest(i)
  <2>1. r[1] \in Nat /\ r[2] \in Nat /\ (r[1] # 0 \/ r[2] # 0) /\ \A j \in DOMAIN r : j = 1 \/ j = 2
    <3>1. \A j \in 1..2 : j = 1 \/ j = 2
      OBVIOUS
    <3> QED
      BY <1>1, <1>3, <3>1
  <2>2. CASE r[1] # 0 /\ (r[2] = 0 \/ r[1] <= r[2])
    <3>1. IsBest(1)
      BY <2>1, <2>2
    <3> QED
      BY <3>1
  <2>3. CASE r[2] # 0 /\ (r[1] = 0 \/ r[2] < r[1])
    <3>1. IsBest(2)
      BY <2>1, <2>3
    <3> QED
      BY <3>1
  <2> QED
    BY <2>1, <2>2, <2>3
<1>5. k \in 1..2 /\ IsBest(k)
  <2> HIDE DEF IsBest
  <2> QED
    BY <1>1, <1>4
<1> HIDE DEF k
<1> QED
  BY <1>1, <1>2, <1>5

\* Of a page, CardAccountsForItself.
LEMMA CardsAccount ==
    ASSUME NEW c \in Corpora, NEW reader, NEW cut \in Nearest(c, Candidates * Spread),
           shown = PageOf(c, reader, cut)
    PROVE  CardAccountsForItself
<1> DEFINE lists == ArmHits(c, reader, cut, Hybrid)
           text == TextArm(c, reader, Candidates)
           page == shown.hits
<1>1. page = SearchProducts(lists) /\ shown.corpus = c /\ shown.reader = reader
  BY DEF PageOf
<1>2. IsLists(lists, 2) /\ lists[1] = text /\ lists[2] = VectorArm(c, cut, Candidates)
  BY ListsOfArms
<1> HIDE DEF lists, text
<1>3. \A i \in DOMAIN page : page[i].id \in Found(lists) /\ page[i] = FusedOf(lists, page[i].id)
  <2> HIDE DEF page
  <2> QED
    BY <1>1, <1>2, PageFacts
<1>4. ASSUME NEW i \in DOMAIN page, page[i].matchedLocale # Absent
      PROVE  LET h == page[i]
                 listing == c[h.id] IN
             /\ listing.words[h.matchedLocale] > 0
             /\ listing.words[LocaliseListing(c, h.id, reader)] = 0
             /\ \A ch \in ToSet(listing.chunks) : ch.rank = 0
  <2> DEFINE p == page[i].id
             locale == page[i].matchedLocale
             own == LocaliseListing(c, p, reader)
             H == TextHits(c, p, reader)
  <2>1. p \in Found(lists) /\ locale = FusedOf(lists, p).matchedLocale /\ locale # Absent
    BY <1>3, <1>4
  <2> HIDE DEF p, locale, page
  <2>2. PICK a \in 1..2 : RankOf(lists[a], p) # 0 /\ locale = lists[a][RankOf(lists[a], p)].matchedLocale
    BY <1>2, <2>1, CopyOfTwo
  <2>3. a = 1
    <3> SUFFICES ASSUME a = 2
                 PROVE  FALSE
      OBVIOUS
    <3> DEFINE list == VectorArm(c, cut, Candidates)
    <3>1. Candidates * Spread \in Nat
      BY CandidatesType, PositiveProduct, SearchAssumption
    <3>2. IsArm(list) /\ \A j \in DOMAIN list : list[j].matchedLocale = Absent
      BY <3>1, VectorArmFacts
    <3>3. RankOf(list, p) # 0 /\ locale = list[RankOf(list, p)].matchedLocale
      BY <1>2, <2>2
    <3> HIDE DEF list
    <3>4. RankOf(list, p) \in DOMAIN list
      BY <3>2, <3>3, ArmRanks
    <3> QED
      BY <2>1, <3>2, <3>3, <3>4
  <2>4. PICK n \in DOMAIN text : text[n].id = p /\ text[n].matchedLocale = locale
    <3>1. IsArm(text)
      BY <1>2 DEF IsLists
    <3>2. RankOf(text, p) # 0 /\ locale = text[RankOf(text, p)].matchedLocale
      BY <1>2, <2>2, <2>3
    <3> QED
      BY <3>1, <3>2, ArmRanks
  <2>5. p \in Listings /\ text[n] \in H /\ \A g \in H : g.matchedLocale # Absent
    <3>1. /\ text[n].id \in Published(c) /\ text[n] \in TextHits(c, text[n].id, reader)
          /\ text[n].matchedLocale # Absent => \A g \in TextHits(c, text[n].id, reader) : g.matchedLocale # Absent
      BY TextArmFacts DEF text
    <3> QED
      BY <2>1, <2>4, <3>1 DEF Published
  <2>6. c[p] \in Texts /\ c[p].words[c[p].locale] # Absent
    BY <2>5, SearchAssumption
  <2>7. c[p].words[locale] > 0
    <3>1. PICK l \in Written(c, p) : c[p].words[l] > 0 /\ text[n].matchedLocale = IF l = own THEN Absent ELSE l
      BY <2>1, <2>4, <2>5 DEF TextHits
    <3> QED
      BY <2>1, <2>4, <3>1
  <2>8. c[p].words[own] = 0
    <3>1. own \in Written(c, p)
      BY <2>6 DEF LocaliseListing, Written, Texts
    <3>2. c[p].words[own] \in Nat
      BY <2>6, <3>1 DEF Written, Texts
    <3>3. ~(c[p].words[own] > 0)
      <4> SUFFICES ASSUME c[p].words[own] > 0
                   PROVE  FALSE
        OBVIOUS
      <4>1. [id |-> p, matchedLocale |-> Absent, score |-> c[p].words[own]] \in H
        BY <3>1 DEF TextHits
      <4> QED
        BY <2>5, <4>1
    <3> QED
      BY <3>2, <3>3
  <2>9. \A ch \in ToSet(c[p].chunks) : ch.rank = 0
    <3> SUFFICES ASSUME NEW ch \in ToSet(c[p].chunks)
                 PROVE  ch.rank = 0
      OBVIOUS
    <3>1. ch.rank \in Nat
      <4>1. c[p].chunks \in Seq(Chunks)
        BY <2>6 DEF Texts
      <4>2. ch \in Chunks
        BY <4>1 DEF ToSet
      <4> QED
        BY <4>2 DEF Chunks
    <3>2. ~(ch.rank > 0)
      <4> SUFFICES ASSUME ch.rank > 0
                   PROVE  FALSE
        OBVIOUS
      <4>1. [id |-> p, matchedLocale |-> Absent, score |-> ch.rank] \in H
        BY DEF TextHits
      <4> QED
        BY <2>5, <4>1
    <3> QED
      BY <3>1, <3>2
  <2> QED
    BY <2>7, <2>8, <2>9 DEF p, locale
<1> QED
  BY <1>1, <1>4, Zenon DEF CardAccountsForItself

\* The lexical arm is the first.
LEMMA RankInText ==
    ASSUME NEW ranks
    PROVE  RankIn(Hybrid, ranks, "text") = ranks[1]
<1>1. Hybrid \in Seq({"text", "vector"}) /\ "text" \in ToSet(Hybrid) /\ Len(Hybrid) = 2
  BY DEF Hybrid, ToSet
<1>2. IndexIn(Hybrid, "text") \in 1..2 /\ Hybrid[IndexIn(Hybrid, "text")] = "text"
  BY <1>1, IndexOf
<1>3. Hybrid[2] = "vector"
  BY DEF Hybrid
<1>4. IndexIn(Hybrid, "text") = 1
  <2> DEFINE i == IndexIn(Hybrid, "text")
  <2>1. i \in 1..2 /\ i # 2
    BY <1>2, <1>3
  <2> HIDE DEF i
  <2>2. i = 1
    BY <2>1
  <2> QED
    BY <2>2 DEF i
<1> QED
  BY <1>1, <1>4 DEF RankIn

\* Of a page with room for two, NearestOnlyIsTrue.
LEMMA NearestOnlyIsSo ==
    ASSUME Limit >= 2, Candidates # 0,
           NEW c \in Corpora, NEW reader, NEW cut \in Nearest(c, Candidates * Spread),
           shown = PageOf(c, reader, cut)
    PROVE  NearestOnlyIsTrue
<1> DEFINE lists == ArmHits(c, reader, cut, Hybrid)
           text == lists[1]
           vector == lists[2]
           page == SearchProducts(lists)
           matched == \E p \in Published(c) : TextHits(c, p, reader) # {}
<1>1. shown.hits = page /\ shown.corpus = c /\ shown.reader = reader
  BY DEF PageOf
<1>2. IsLists(lists, 2) /\ text = TextArm(c, reader, Candidates)
  BY ListsOfArms
<1>3. IsArm(text) /\ IsArm(vector)
  BY <1>2 DEF IsLists
<1>4. /\ \A i \in DOMAIN text : text[i].id \in Published(c) /\ text[i] \in TextHits(c, text[i].id, reader)
      /\ matched => text # <<>>
  <2> DEFINE list == TextArm(c, reader, Candidates)
  <2>1. \A i \in DOMAIN list : list[i].id \in Published(c) /\ list[i] \in TextHits(c, list[i].id, reader)
    BY TextArmFacts
  <2>2. matched => list # <<>>
    BY TextArmFacts
  <2> HIDE DEF list
  <2>3. text = list
    BY <1>2 DEF list
  <2> QED
    BY <2>1, <2>2, <2>3
<1> HIDE DEF lists
<1>5. /\ page \in Seq(Fused(lists)) /\ Len(page) \in 0..Limit /\ DOMAIN page = 1..Len(page)
      /\ \A i \in DOMAIN page : page[i].id \in Found(lists) /\ page[i] = FusedOf(lists, page[i].id)
      /\ \A i, j \in DOMAIN page : page[i].id = page[j].id => i = j
  BY <1>2, PageFacts
<1>6. \A p \in Found(lists) :
        \/ \E i \in DOMAIN page : page[i].id = p
        \/ Len(page) = Limit /\ \A i \in DOMAIN page : Outweighs(page[i], FusedOf(lists, p))
  BY <1>2, PageFacts
<1>7. ASSUME NEW i \in DOMAIN page
      PROVE  RankIn(Hybrid, page[i].ranks, "text") = RankOf(text, page[i].id)
  <2> DEFINE p == page[i].id
  <2>1. page[i].ranks = RanksIn(lists, p)
    <3>1. FusedOf(lists, p).ranks = RanksIn(lists, p)
      <4>1. 2 \in Nat
        OBVIOUS
      <4> QED
        BY <1>2, <4>1, FusedFacts
    <3> QED
      BY <1>5, <3>1
  <2>2. RanksIn(lists, p)[1] = RankOf(text, p)
    BY <1>2 DEF RanksIn, IsLists
  <2> QED
    BY <2>1, <2>2, RankInText
<1> HIDE DEF page
<1>8. ASSUME matched, NEW e \in DOMAIN page
      PROVE  \E i \in DOMAIN page : RankOf(text, page[i].id) # 0
  <2> SUFFICES ASSUME \A i \in DOMAIN page : RankOf(text, page[i].id) = 0
               PROVE  FALSE
    OBVIOUS
  <2> DEFINE p == text[1].id
  <2>1. 1 \in DOMAIN text /\ RankOf(text, p) = 1
    <3>1. text # <<>> /\ text \in Seq(Hits)
      BY <1>3, <1>4, <1>8 DEF IsArm
    <3> HIDE DEF text
    <3>2. 1 \in DOMAIN text
      BY <3>1
    <3> QED
      BY <1>3, <3>2, ArmRanks
  <2>2. p \in Found(lists)
    <3>1. \E a \in 1..2 : RankOf(lists[a], p) # 0
      BY <2>1
    <3> QED
      BY <1>2, <3>1, FoundFacts
  <2>3. Len(page) = Limit /\ \A i \in DOMAIN page : Outweighs(page[i], FusedOf(lists, p))
    BY <1>6, <2>1, <2>2
  <2>4. ASSUME NEW i \in DOMAIN page
        PROVE  RankOf(vector, page[i].id) = 1
    <3> DEFINE q == page[i].id
    <3>1. q \in Found(lists) /\ RankOf(text, q) = 0 /\ Outweighs(FusedOf(lists, q), FusedOf(lists, p))
      BY <1>5, <2>3
    <3>2. RankOf(vector, q) # 0
      <4>1. \E a \in 1..2 : RankOf(lists[a], q) # 0
        BY <1>2, <3>1, FoundFacts
      <4>2. \A a \in 1..2 : a = 1 \/ a = 2
        OBVIOUS
      <4> QED
        BY <3>1, <4>1, <4>2
    <3> QED
      BY <1>2, <2>1, <3>1, <3>2, OnlyNearestOutweighs
  <2>5. 1 \in DOMAIN page /\ 2 \in DOMAIN page
    <3>1. Len(page) \in Nat /\ Len(page) >= 2
      BY <2>3, SearchAssumption
    <3> QED
      BY <1>5, <3>1
  <2>6. page[1].id = page[2].id
    BY <1>3, <2>4, <2>5, ArmRanks
  <2> QED
    BY <1>5, <2>5, <2>6
<1>9. ASSUME ~matched, NEW i \in DOMAIN page
      PROVE  RankOf(text, page[i].id) = 0
  <2> DEFINE r == RankOf(text, page[i].id)
  <2>1. r # 0 => r \in DOMAIN text
    BY <1>3, ArmRanks
  <2> QED
    BY <1>4, <1>9, <2>1
<1> DEFINE only == page # <<>> /\ \A i \in DOMAIN page : RankIn(Hybrid, page[i].ranks, "text") = 0
<1>10. shown.nearestOnly = only
  BY DEF PageOf, NearestOnly, page, lists
<1>11. page # <<>> => \E e \in DOMAIN page : TRUE
  BY <1>5
<1>12. page # <<>> => (only <=> ~matched)
  BY <1>7, <1>8, <1>9, <1>11
<1> HIDE DEF only
<1> QED
  BY <1>1, <1>10, <1>12 DEF NearestOnlyIsTrue

\* What a page says of why its listings are on it is true, of each card and of the
\* page, however the corpus is: where a page has room for two and an arm returns any
\* listing at all (search.ts:158, page.tsx:82-89).
THEOREM PageAccountsForItselfHolds ==
    ASSUME Limit >= 2, Candidates # 0
    PROVE  SearchSpec => []PageAccountsForItself
<1>1. ASSUME ShownInv
      PROVE  PageAccountsForItself
  <2>1. CASE IsPage
    <3>1. PICK c \in Corpora, reader \in Locales :
            \E cut \in Nearest(c, Candidates * Spread) : shown = PageOf(c, reader, cut)
      BY <2>1 DEF IsPage
    <3>2. PICK cut \in Nearest(c, Candidates * Spread) : shown = PageOf(c, reader, cut)
      BY <3>1
    <3> QED
      BY <3>2, CardsAccount, NearestOnlyIsSo DEF PageAccountsForItself
  <2>2. CASE shown.kind # "page"
    BY <2>2 DEF PageAccountsForItself, CardAccountsForItself, NearestOnlyIsTrue, Shows
  <2> QED
    BY <1>1, <2>1, <2>2, Kinds DEF ShownInv
<1> QED
  BY <1>1, ShownInvHolds, PTL
===============================================================================
