--------------------------- MODULE Routines_proofs ---------------------------
(***************************************************************************)
(* Proofs about the routines of Text, Tables, Pixels and Vga: that every   *)
(* call of Routines gives what Decodes, MapsRight and TextRight say.       *)
(*                                                                         *)
(* The three invariants speak of the call that was made last, so each      *)
(* follows from Init and from the step that makes the call: a lemma of a   *)
(* routine's result, for whatever it is given, then a lemma ...Step that   *)
(* takes the result from the call of that name.  Figures and descriptors   *)
(* come first, then what is drawn, the video modes, and the texts.         *)
(***************************************************************************)
EXTENDS Routines, Order_proofs, SequenceTheorems

(* Figures.                                                                *)

\* No two figures look the same, in either case of letters.
LEMMA FiguresApart ==
  ASSUME NEW i \in 1..16, NEW j \in 1..16,
         \/ Figure[j] = Figure[i] \/ Capital[j] = Figure[i]
         \/ Figure[j] = Capital[i] \/ Capital[j] = Capital[i]
  PROVE  i = j
BY DEF Figure, Capital

\* What a figure counts is its place among the figures.
LEMMA PlaceOfFigure ==
  ASSUME NEW d \in 0..15
  PROVE  Place(Figure[d + 1]) = d /\ Place(Capital[d + 1]) = d
<1>1. ASSUME NEW c, c = Figure[d + 1] \/ c = Capital[d + 1]
      PROVE  Place(c) = d
  <2> DEFINE P == {i \in 1..16 : Figure[i] = c \/ Capital[i] = c}
  <2>1. d + 1 \in P
    BY <1>1
  <2>2. \A i \in P : i = d + 1
    BY <1>1, FiguresApart
  <2> DEFINE k == CHOOSE i \in 1..16 : Figure[i] = c \/ Capital[i] = c
  <2>3. k = d + 1
    BY <2>1, <2>2
  <2>4. Place(c) = k - 1
    BY ZenonT(30) DEF Place
  <2> HIDE DEF k
  <2>5. QED
    BY <2>3, <2>4
<1>2. QED
  BY <1>1
-----------------------------------------------------------------------------
(* The number a text stands for.                                           *)

\* A number with one more figure behind it.
Shifted(n, base, c) == n * base + Place(c)

\* first is the recursive function of NumberOf over the first n figures of s.
Reading(s, base, n, first) ==
  first = [i \in 0..n |-> IF i = 0 THEN 0 ELSE Shifted(first[i - 1], base, s[i])]

\* The recursive function of NumberOf exists.
LEMMA ReadingExists ==
  ASSUME NEW s, NEW base, NEW n \in Nat
  PROVE  \E first : Reading(s, base, n, first)
<1> DEFINE S == {k \in Nat : \E first : Reading(s, base, k, first)}
<1>1. 0 \in S
  <2>1. Reading(s, base, 0, [i \in 0..0 |-> 0])
    BY DEF Reading
  <2>2. QED
    BY <2>1
<1>2. \A k \in Nat : k \in S => k + 1 \in S
  <2>1. TAKE k \in Nat
  <2>2. HAVE k \in S
  <2>3. PICK f : Reading(s, base, k, f)
    BY <2>2
  <2> DEFINE g == [i \in 0..(k + 1) |-> IF i = k + 1 THEN Shifted(f[k], base, s[k + 1]) ELSE f[i]]
  <2>4. ASSUME NEW i \in 0..(k + 1)
        PROVE  g[i] = IF i = 0 THEN 0 ELSE Shifted(g[i - 1], base, s[i])
    <3>1. CASE i = k + 1
      BY <3>1
    <3>2. CASE i # k + 1
      <4>1. i \in 0..k /\ (i # 0 => i - 1 \in 0..k)
        BY <3>2
      <4>2. f[i] = IF i = 0 THEN 0 ELSE Shifted(f[i - 1], base, s[i])
        BY <2>3, <4>1 DEF Reading
      <4>3. g[i] = f[i] /\ (i # 0 => g[i - 1] = f[i - 1])
        BY <3>2, <4>1
      <4>4. QED
        BY <4>2, <4>3
    <3>3. QED
      BY <3>1, <3>2
  <2>5. Reading(s, base, k + 1, g)
    <3> DEFINE h == [i \in 0..(k + 1) |-> IF i = 0 THEN 0 ELSE Shifted(g[i - 1], base, s[i])]
    <3>1. \A i \in 0..(k + 1) : g[i] = h[i]
      BY <2>4
    <3>2. g = h
      BY <3>1
    <3> HIDE DEF g
    <3>3. QED
      BY <3>2 DEF Reading
  <2>6. QED
    BY <2>5
<1>3. Nat \subseteq S
  <2> HIDE DEF S
  <2>1. QED
    BY <1>1, <1>2, Induction
<1>4. QED
  BY <1>3

\* first reads s figure by figure.
Reads(s, base, first) ==
  /\ first[0] = 0 /\ first[Len(s)] = NumberOf(s, base)
  /\ \A i \in 1..Len(s) : first[i] = Shifted(first[i - 1], base, s[i])

\* NumberOf reads a text as some first reads it.
LEMMA NumberRead ==
  ASSUME NEW s, NEW base, Len(s) \in Nat
  PROVE  \E first : Reads(s, base, first)
<1> DEFINE f == CHOOSE first : Reading(s, base, Len(s), first)
<1>1. Reading(s, base, Len(s), f)
  BY ReadingExists
<1>2. f[Len(s)] = NumberOf(s, base)
  BY DEF Reading, NumberOf, Shifted
<1> HIDE DEF f
<1>3. \A i \in 0..Len(s) : f[i] = IF i = 0 THEN 0 ELSE Shifted(f[i - 1], base, s[i])
  BY <1>1 DEF Reading
<1>4. f[0] = 0 /\ \A i \in 1..Len(s) : f[i] = Shifted(f[i - 1], base, s[i])
  BY <1>3
<1>5. Reads(s, base, f)
  BY <1>2, <1>4 DEF Reads
<1>6. QED
  BY <1>5

\* A figure more at the end.
LEMMA NumberAppend ==
  ASSUME NEW C, NEW s \in Seq(C), NEW c \in C, NEW base
  PROVE  NumberOf(Append(s, c), base) = Shifted(NumberOf(s, base), base, c)
<1> DEFINE r == Append(s, c)
<1>1. /\ r \in Seq(C) /\ Len(r) = Len(s) + 1 /\ r[Len(s) + 1] = c
      /\ \A i \in 1..Len(s) : r[i] = s[i]
  BY AppendProperties
<1> HIDE DEF r
<1>0. Len(s) \in Nat
  BY LenProperties
<1>2. PICK f : Reads(s, base, f)
  BY <1>0, NumberRead
<1>3. PICK g : Reads(r, base, g)
  BY <1>1, NumberRead
<1> DEFINE S == {n \in Nat : n <= Len(s) => f[n] = g[n]}
<1>4. 0 \in S
  BY <1>2, <1>3 DEF Reads
<1>5. \A n \in Nat : n \in S => n + 1 \in S
  <2>1. TAKE n \in Nat
  <2>2. HAVE n \in S
  <2>3. SUFFICES ASSUME n + 1 <= Len(s) PROVE f[n + 1] = g[n + 1]
    OBVIOUS
  <2>4. /\ n + 1 \in 1..Len(s) /\ n + 1 \in 1..Len(r) /\ (n + 1) - 1 = n
        /\ f[n] = g[n] /\ r[n + 1] = s[n + 1]
    BY <1>1, <2>2, <2>3
  <2>5. /\ f[n + 1] = Shifted(f[n], base, s[n + 1])
        /\ g[n + 1] = Shifted(g[n], base, r[n + 1])
    BY <1>2, <1>3, <2>4 DEF Reads
  <2>6. QED
    BY <2>4, <2>5
<1>6. Nat \subseteq S
  <2> HIDE DEF S
  <2>1. QED
    BY <1>4, <1>5, Induction
<1>7. g[Len(s)] = NumberOf(s, base)
  BY <1>2, <1>6 DEF Reads
<1>8. g[Len(s) + 1] = Shifted(g[Len(s)], base, c) /\ g[Len(s) + 1] = NumberOf(r, base)
  <2>1. Len(s) + 1 \in 1..Len(r) /\ (Len(s) + 1) - 1 = Len(s)
    BY <1>1
  <2>2. QED
    BY <1>1, <1>3, <2>1 DEF Reads
<1>9. QED
  BY <1>7, <1>8 DEF r

\* No figures stand for 0.
LEMMA NumberEmpty == ASSUME NEW base PROVE NumberOf(<<>>, base) = 0
<1>1. Len(<<>>) = 0
  OBVIOUS
<1>2. PICK f : Reads(<<>>, base, f)
  BY <1>1, NumberRead
<1>3. QED
  BY <1>1, <1>2 DEF Reads
-----------------------------------------------------------------------------
(* itoa and utoa.                                                          *)

Figured == {Figure[i] : i \in 1..16}

\* The figures of n, when those of smaller numbers are known.
FiguresBy(of, base, n) ==
  <<Figure[(n % base) + 1]>> \o (IF n < base THEN <<>> ELSE of[n \div base])

\* of is the recursive function of Figures up to v.
Figuring(base, v, of) == of = [n \in 0..v |-> FiguresBy(of, base, n)]

\* A number of one figure or more: its division by the base.
LEMMA BaseDivides ==
  ASSUME NEW base \in Base, NEW n \in Nat
  PROVE  /\ n % base \in 0..(base - 1) /\ n \div base \in Nat
         /\ n = (n \div base) * base + (n % base)
         /\ n >= base => n \div base < n /\ n \div base >= 1
<1>1. CASE base = 10
  BY <1>1
<1>2. CASE base = 16
  BY <1>2
<1>3. QED
  BY <1>1, <1>2 DEF Base

\* The recursive function of Figures exists.
LEMMA FiguringExists ==
  ASSUME NEW base \in Base, NEW v \in Nat
  PROVE  \E of : Figuring(base, v, of)
<1> DEFINE S == {k \in Nat : \E of : Figuring(base, k, of)}
<1>1. 0 \in S
  <2> DEFINE f == [n \in 0..0 |-> FiguresBy(<<>>, base, 0)]
  <2>1. FiguresBy(f, base, 0) = FiguresBy(<<>>, base, 0)
    BY DEF FiguresBy, Base
  <2>2. f = [n \in 0..0 |-> FiguresBy(f, base, n)]
    BY <2>1
  <2>3. Figuring(base, 0, f)
    BY <2>2 DEF Figuring
  <2>4. QED
    BY <2>3
<1>2. \A k \in Nat : k \in S => k + 1 \in S
  <2>1. TAKE k \in Nat
  <2>2. HAVE k \in S
  <2>3. PICK f : Figuring(base, k, f)
    BY <2>2
  <2> DEFINE g == [n \in 0..(k + 1) |-> IF n = k + 1 THEN FiguresBy(f, base, n) ELSE f[n]]
  <2>4. ASSUME NEW n \in 0..(k + 1)
        PROVE  g[n] = FiguresBy(g, base, n)
    <3>1. FiguresBy(g, base, n) = FiguresBy(f, base, n)
      <4>1. n >= base => n \div base \in 0..k /\ n \div base # k + 1
        BY BaseDivides DEF Base
      <4>2. n >= base => g[n \div base] = f[n \div base]
        BY <4>1
      <4>3. n < base \/ n >= base
        BY DEF Base
      <4> HIDE DEF g
      <4>4. QED
        BY <4>2, <4>3 DEF FiguresBy, Base
    <3>2. n # k + 1 => f[n] = FiguresBy(f, base, n)
      <4>1. n # k + 1 => n \in 0..k
        OBVIOUS
      <4>2. QED
        BY <2>3, <4>1 DEF Figuring
    <3>3. g[n] = IF n = k + 1 THEN FiguresBy(f, base, n) ELSE f[n]
      OBVIOUS
    <3> HIDE DEF g
    <3>4. QED
      BY <3>1, <3>2, <3>3
  <2>5. Figuring(base, k + 1, g)
    <3> DEFINE h == [n \in 0..(k + 1) |-> FiguresBy(g, base, n)]
    <3>1. \A n \in 0..(k + 1) : g[n] = h[n]
      BY <2>4
    <3>2. g = h
      BY <3>1
    <3> HIDE DEF g
    <3>3. QED
      BY <3>2 DEF Figuring
  <2>6. QED
    BY <2>5
<1>3. Nat \subseteq S
  <2> HIDE DEF S
  <2>1. QED
    BY <1>1, <1>2, Induction
<1>4. QED
  BY <1>3

\* Turned round, the first figure is the last one.
LEMMA ReverseFirst ==
  ASSUME NEW C, NEW t \in Seq(C), NEW c \in C
  PROVE  /\ Reverse(t) \in Seq(C) /\ Len(Reverse(t)) = Len(t)
         /\ Reverse(<<c>> \o t) = Append(Reverse(t), c)
<1> DEFINE r == Reverse(t)
           u == <<c>> \o t
           w == Reverse(u)
<1>1. /\ u \in Seq(C) /\ Len(u) = Len(t) + 1 /\ u[1] = c
      /\ \A i \in 1..Len(t) : u[i + 1] = t[i]
  <2>1. <<c>> \in Seq(C) /\ Len(<<c>>) = 1 /\ <<c>>[1] = c
    OBVIOUS
  <2>2. /\ u \in Seq(C) /\ Len(u) = 1 + Len(t)
        /\ \A i \in 1..(1 + Len(t)) : u[i] = IF i <= 1 THEN <<c>>[i] ELSE t[i - 1]
    BY <2>1, ConcatProperties
  <2>3. Len(t) \in Nat
    OBVIOUS
  <2> HIDE DEF u
  <2>4. u[1] = c
    BY <2>1, <2>2, <2>3
  <2>5. ASSUME NEW i \in 1..Len(t) PROVE u[i + 1] = t[i]
    <3>1. i + 1 \in 1..(1 + Len(t)) /\ ~(i + 1 <= 1) /\ (i + 1) - 1 = i
      BY <2>3
    <3>2. QED
      BY <2>2, <3>1
  <2>6. QED
    BY <2>2, <2>3, <2>4, <2>5
<1>2. /\ r \in Seq(C) /\ Len(r) = Len(t)
      /\ \A i \in 1..Len(t) : r[i] = t[(Len(t) - i) + 1]
  BY DEF Reverse
<1> HIDE DEF u
<1>3. /\ w \in Seq(C) /\ Len(w) = Len(u)
      /\ \A i \in 1..Len(u) : w[i] = u[(Len(u) - i) + 1]
  BY <1>1 DEF Reverse
<1>4. /\ Append(r, c) \in Seq(C) /\ Len(Append(r, c)) = Len(r) + 1
      /\ \A i \in 1..Len(r) : Append(r, c)[i] = r[i]
      /\ Append(r, c)[Len(r) + 1] = c
  BY <1>2, AppendProperties
<1> HIDE DEF r, w
<1>5. Len(t) \in Nat
  OBVIOUS
<1>6. ASSUME NEW i \in 1..Len(w) PROVE w[i] = Append(r, c)[i]
  <2>1. CASE i = Len(u)
    BY <1>1, <1>2, <1>3, <1>4, <1>5, <2>1
  <2>2. CASE i # Len(u)
    <3>1. /\ i \in 1..Len(t) /\ (Len(t) - i) + 1 \in 1..Len(t)
          /\ (Len(u) - i) + 1 = ((Len(t) - i) + 1) + 1
      BY <1>1, <1>3, <1>5, <2>2
    <3>2. w[i] = t[(Len(t) - i) + 1]
      BY <1>1, <1>3, <3>1
    <3>3. QED
      BY <1>2, <1>4, <3>1, <3>2
  <2>3. QED
    BY <2>1, <2>2
<1>7. Len(w) = Len(Append(r, c))
  BY <1>1, <1>2, <1>3, <1>4
<1>8. w = Append(r, c)
  BY <1>3, <1>4, <1>6, <1>7, SeqEqual
<1>9. QED
  BY <1>2, <1>8 DEF r, u, w

\* t are the figures of n, the last one first.
FiguresOf(t, n, base) ==
  t \in Seq(Figured) /\ t # <<>> /\ Stands(Reverse(t), n, base)

\* One figure.
LEMMA OneFigure ==
  ASSUME NEW base \in Base, NEW n \in 0..(base - 1)
  PROVE  FiguresOf(<<Figure[n + 1]>> \o <<>>, n, base)
<1> DEFINE c == Figure[n + 1]
<1>1. n \in 0..15 /\ n \in Nat /\ c \in Figured
  BY DEF Base, Figured
<1>2. Place(c) = n
  BY <1>1, PlaceOfFigure
<1> HIDE DEF c
<1>3. /\ <<c>> \in Seq(Figured) /\ <<c>> # <<>> /\ <<c>> \o <<>> = <<c>>
      /\ <<>> \in Seq(Figured)
  BY <1>1
<1>4. Reverse(<<c>> \o <<>>) = Append(Reverse(<<>>), c)
  BY <1>1, <1>3, ReverseFirst
<1>5. Reverse(<<>>) = <<>>
  BY DEF Reverse
<1>6. NumberOf(Append(<<>>, c), base) = Shifted(0, base, c)
  BY <1>1, <1>3, NumberAppend, NumberEmpty
<1>7. Shifted(0, base, c) = n
  BY <1>1, <1>2 DEF Shifted, Base
<1>8. Append(<<>>, c) # <<>> /\ Len(Append(<<>>, c)) = 1
  OBVIOUS
<1>9. QED
  BY <1>3, <1>4, <1>5, <1>6, <1>7, <1>8 DEF FiguresOf, Stands, c

\* A figure behind those of the tenth (or sixteenth) part.
LEMMA FigureBehind ==
  ASSUME NEW base \in Base, NEW n \in Nat, n >= base, NEW r \in Seq(Figured),
         Stands(r, n \div base, base)
  PROVE  Stands(Append(r, Figure[(n % base) + 1]), n, base)
<1> DEFINE c == Figure[(n % base) + 1]
<1>1. /\ n % base \in 0..(base - 1) /\ n \div base \in Nat
      /\ n = (n \div base) * base + (n % base) /\ n \div base >= 1
  BY BaseDivides
<1>2. n % base \in 0..15
  BY <1>1 DEF Base
<1>3. Place(c) = n % base /\ c \in Figured
  BY <1>2, PlaceOfFigure DEF Figured
<1> HIDE DEF c
<1>4. r # <<>> /\ (r[1] = "0" => Len(r) = 1) /\ NumberOf(r, base) = n \div base
  BY DEF Stands
<1>5. NumberOf(Append(r, c), base) = n
  <2>1. NumberOf(Append(r, c), base) = Shifted(n \div base, base, c)
    BY <1>3, <1>4, NumberAppend
  <2>2. Shifted(n \div base, base, c) = (n \div base) * base + (n % base)
    BY <1>3 DEF Shifted
  <2>3. QED
    BY <1>1, <2>1, <2>2
<1>6. /\ Append(r, c) # <<>> /\ Append(r, c)[1] = r[1]
  <2>1. Len(r) \in Nat \ {0}
    BY <1>4, EmptySeq
  <2>2. QED
    BY <1>3, <2>1, AppendProperties
<1>7. r[1] # "0"
  <2>1. SUFFICES ASSUME r[1] = "0" PROVE FALSE
    OBVIOUS
  <2>2. r = Append(<<>>, "0")
    <3>1. Len(r) = 1 /\ r[1] = "0"
      BY <1>4, <2>1
    <3>2. QED
      BY <3>1
  <2>3. "0" = Figure[0 + 1] /\ "0" \in Figured
    BY DEF Figure, Figured
  <2>4. Place("0") = 0
    BY <2>3, PlaceOfFigure
  <2>5. NumberOf(Append(<<>>, "0"), base) = Shifted(0, base, "0")
    <3>1. <<>> \in Seq(Figured)
      BY EmptySeq
    <3>2. NumberOf(Append(<<>>, "0"), base) = Shifted(NumberOf(<<>>, base), base, "0")
      BY <2>3, <3>1, NumberAppend
    <3>3. QED
      BY <3>2, NumberEmpty
  <2>6. Shifted(0, base, "0") = 0
    BY <2>4 DEF Shifted, Base
  <2>7. QED
    BY <1>1, <1>4, <2>2, <2>5, <2>6
<1>8. Stands(Append(r, c), n, base)
  BY <1>5, <1>6, <1>7 DEF Stands
<1>9. QED
  BY <1>8 DEF c

\* A figure in front of those of the tenth (or sixteenth) part, the last one first.
LEMMA MoreFigures ==
  ASSUME NEW base \in Base, NEW n \in Nat, n >= base, NEW t,
         FiguresOf(t, n \div base, base)
  PROVE  FiguresOf(<<Figure[(n % base) + 1]>> \o t, n, base)
<1> DEFINE c == Figure[(n % base) + 1]
           r == Reverse(t)
<1>1. n % base \in 0..15
  BY BaseDivides DEF Base
<1>2. c \in Figured
  BY <1>1 DEF Figured
<1>3. t \in Seq(Figured) /\ t # <<>> /\ Stands(r, n \div base, base)
  BY DEF FiguresOf
<1>4. Stands(Append(r, c), n, base) /\ r \in Seq(Figured)
  <2>1. r \in Seq(Figured)
    BY <1>2, <1>3, ReverseFirst
  <2>2. QED
    BY <1>3, <2>1, FigureBehind
<1> HIDE DEF c
<1>5. Reverse(<<c>> \o t) = Append(r, c)
  BY <1>2, <1>3, ReverseFirst
<1>6. <<c>> \o t \in Seq(Figured) /\ <<c>> \o t # <<>>
  <2>1. <<c>> \in Seq(Figured) /\ <<c>> # <<>>
    BY <1>2
  <2>2. QED
    BY <1>3, <2>1, ConcatProperties, ConcatEqualIffEmpty
<1>7. QED
  BY <1>4, <1>5, <1>6 DEF FiguresOf, c

\* The do-while of itoa and utoa leaves the figures of the number.
LEMMA FiguresRight ==
  ASSUME NEW base \in Base, NEW v \in Nat
  PROVE  FiguresOf(Figures(v, base), v, base)
<1> DEFINE f == CHOOSE of : Figuring(base, v, of)
<1>1. Figuring(base, v, f)
  BY FiguringExists
<1>2. f[v] = Figures(v, base)
  BY DEF Figuring, Figures, FiguresBy
<1> HIDE DEF f
<1>3. \A n \in 0..v : f[n] = FiguresBy(f, base, n)
  BY <1>1 DEF Figuring
<1> DEFINE S == {k \in Nat : \A n \in 0..k : n <= v => FiguresOf(f[n], n, base)}
<1>4. ASSUME NEW n \in 0..v, \A m \in 0..(n - 1) : FiguresOf(f[m], m, base)
      PROVE  FiguresOf(f[n], n, base)
  <2>1. n \in Nat /\ base \in Nat
    BY DEF Base
  <2>2. CASE n < base
    <3>1. f[n] = <<Figure[(n % base) + 1]>> \o <<>>
      BY <1>3, <2>2 DEF FiguresBy
    <3>2. n % base = n /\ n \in 0..(base - 1)
      BY <2>1, <2>2 DEF Base
    <3>3. QED
      BY <3>1, <3>2, OneFigure
  <2>3. CASE n >= base
    <3>1. f[n] = <<Figure[(n % base) + 1]>> \o f[n \div base]
      <4>1. ~(n < base)
        BY <2>1, <2>3
      <4>2. QED
        BY <1>3, <4>1 DEF FiguresBy
    <3>2. n \div base \in 0..(n - 1)
      BY <2>1, <2>3, BaseDivides
    <3>3. QED
      BY <1>4, <2>1, <2>3, <3>1, <3>2, MoreFigures
  <2>4. QED
    BY <2>1, <2>2, <2>3
<1>5. 0 \in S
  <2>1. 0 \in 0..v /\ \A m \in 0..(0 - 1) : FiguresOf(f[m], m, base)
    OBVIOUS
  <2>2. FiguresOf(f[0], 0, base)
    BY <1>4, <2>1
  <2>3. QED
    BY <2>2
<1>6. \A k \in Nat : k \in S => k + 1 \in S
  <2>1. TAKE k \in Nat
  <2>2. HAVE k \in S
  <2>3. SUFFICES ASSUME NEW n \in 0..(k + 1), n <= v PROVE FiguresOf(f[n], n, base)
    OBVIOUS
  <2>4. CASE n \in 0..k
    BY <2>2, <2>3, <2>4
  <2>5. CASE n = k + 1
    <3>1. n \in 0..v /\ \A m \in 0..(n - 1) : m \in 0..k /\ m <= v
      BY <2>3, <2>5
    <3>2. \A m \in 0..(n - 1) : FiguresOf(f[m], m, base)
      BY <2>2, <3>1
    <3>3. QED
      BY <1>4, <3>1, <3>2
  <2>6. QED
    BY <2>4, <2>5
<1>7. Nat \subseteq S
  <2> HIDE DEF S
  <2>1. QED
    BY <1>5, <1>6, Induction
<1>8. FiguresOf(f[v], v, base)
  BY <1>7
<1>9. QED
  BY <1>2, <1>8

\* utoa writes the number it is given, shortest.
THEOREM UtoaStands ==
  ASSUME NEW v \in Nat, NEW base \in Base
  PROVE  Stands(Utoa(v, base), v, base)
BY FiguresRight DEF FiguresOf, Utoa

\* Turned round, the last figure is the first one.
LEMMA ReverseLast ==
  ASSUME NEW C, NEW t \in Seq(C), NEW c \in C
  PROVE  Head(Reverse(Append(t, c))) = c /\ Tail(Reverse(Append(t, c))) = Reverse(t)
<1> DEFINE u == Append(t, c)
           w == Reverse(u)
           r == Reverse(t)
<1>1. /\ u \in Seq(C) /\ Len(u) = Len(t) + 1 /\ u[Len(t) + 1] = c
      /\ \A i \in 1..Len(t) : u[i] = t[i]
  BY AppendProperties
<1> HIDE DEF u
<1>2. /\ w \in Seq(C) /\ Len(w) = Len(u)
      /\ \A i \in 1..Len(u) : w[i] = u[(Len(u) - i) + 1]
  BY <1>1 DEF Reverse
<1>3. /\ r \in Seq(C) /\ Len(r) = Len(t) /\ Len(t) \in Nat
      /\ \A i \in 1..Len(t) : r[i] = t[(Len(t) - i) + 1]
  BY DEF Reverse
<1> HIDE DEF w, r
<1>4. w # <<>> /\ 1 \in 1..Len(u)
  BY <1>1, <1>2, <1>3
<1>5. Head(w) = c
  BY <1>1, <1>2, <1>3, <1>4
<1>6. /\ Tail(w) \in Seq(C) /\ Len(Tail(w)) = Len(r)
      /\ \A i \in 1..Len(r) : Tail(w)[i] = w[i + 1]
  BY <1>1, <1>2, <1>3, <1>4, HeadTailProperties
<1>7. ASSUME NEW i \in 1..Len(r) PROVE Tail(w)[i] = r[i]
  <2>1. /\ i + 1 \in 1..Len(u) /\ (Len(t) - i) + 1 \in 1..Len(t)
        /\ (Len(u) - (i + 1)) + 1 = (Len(t) - i) + 1
    BY <1>1, <1>3
  <2>2. QED
    BY <1>1, <1>2, <1>3, <1>6, <2>1
<1>8. Tail(w) = r
  BY <1>3, <1>6, <1>7, SeqEqual
<1>9. QED
  BY <1>5, <1>8 DEF u, w, r

\* itoa writes the number it is given, with its sign.
THEOREM ItoaStands ==
  ASSUME NEW v \in Int
  PROVE  IF v < 0 THEN Head(Itoa(v)) = "-" /\ Stands(Tail(Itoa(v)), -v, 10)
         ELSE Stands(Itoa(v), v, 10)
<1>1. 10 \in Base
  BY DEF Base
<1>2. CASE v < 0
  <2> DEFINE t == Figures(-v, 10)
  <2>1. -v \in Nat /\ FiguresOf(t, -v, 10)
    BY <1>1, <1>2, FiguresRight
  <2>2. Itoa(v) = Reverse(Append(t, "-"))
    BY <1>2 DEF Itoa
  <2> HIDE DEF t
  <2> DEFINE C == Figured \cup {"-"}
  <2>3. t \in Seq(C) /\ "-" \in C
    BY <2>1, SeqMonotonic DEF FiguresOf
  <2> HIDE DEF C
  <2>4. Head(Itoa(v)) = "-" /\ Tail(Itoa(v)) = Reverse(t)
    BY <2>2, <2>3, ReverseLast
  <2>5. QED
    BY <1>2, <2>1, <2>4 DEF FiguresOf
<1>3. CASE v >= 0
  BY <1>1, <1>3, FiguresRight DEF FiguresOf, Itoa
<1>4. QED
  BY <1>2, <1>3

\* What an unsigned int holds.
Word == {v \in Nat : v <= 4294967295}

\* f is the recursive function of Shifted4.
Shifting(v, f) == f = [i \in 0..8 |-> IF i = 8 THEN v ELSE f[i + 1] \div 16]

\* It exists: eight shifts, written out.
LEMMA ShiftingExists ==
  ASSUME NEW v \in Nat
  PROVE  \E f : Shifting(v, f)
<1> DEFINE a7 == v \div 16
           a6 == a7 \div 16
           a5 == a6 \div 16
           a4 == a5 \div 16
           a3 == a4 \div 16
           a2 == a3 \div 16
           a1 == a2 \div 16
           a0 == a1 \div 16
           f == [i \in 0..8 |-> CASE i = 8 -> v [] i = 7 -> a7 [] i = 6 -> a6
                                  [] i = 5 -> a5 [] i = 4 -> a4 [] i = 3 -> a3
                                  [] i = 2 -> a2 [] i = 1 -> a1 [] i = 0 -> a0]
           g == [i \in 0..8 |-> IF i = 8 THEN v ELSE f[i + 1] \div 16]
<1> HIDE DEF a7, a6, a5, a4, a3, a2, a1, a0
<1>1. /\ f[8] = v /\ f[7] = a7 /\ f[6] = a6 /\ f[5] = a5 /\ f[4] = a4
      /\ f[3] = a3 /\ f[2] = a2 /\ f[1] = a1 /\ f[0] = a0
  OBVIOUS
<1> HIDE DEF f
<1>2. /\ g[8] = v /\ g[7] = f[8] \div 16 /\ g[6] = f[7] \div 16 /\ g[5] = f[6] \div 16
      /\ g[4] = f[5] \div 16 /\ g[3] = f[4] \div 16 /\ g[2] = f[3] \div 16
      /\ g[1] = f[2] \div 16 /\ g[0] = f[1] \div 16
  OBVIOUS
<1> HIDE DEF g
<1>3. /\ f[8] = g[8] /\ f[7] = g[7] /\ f[6] = g[6] /\ f[5] = g[5] /\ f[4] = g[4]
      /\ f[3] = g[3] /\ f[2] = g[2] /\ f[1] = g[1] /\ f[0] = g[0]
  BY <1>1, <1>2 DEF a7, a6, a5, a4, a3, a2, a1, a0
<1>4. \A i \in 0..8 : f[i] = g[i]
  <2>1. TAKE i \in 0..8
  <2>2. \/ i = 0 \/ i = 1 \/ i = 2 \/ i = 3 \/ i = 4 \/ i = 5 \/ i = 6 \/ i = 7 \/ i = 8
    OBVIOUS
  <2>3. QED
    BY <1>3, <2>2
<1>5. f = [i \in 0..8 |-> f[i]] /\ g = [i \in 0..8 |-> g[i]]
  BY DEF f, g
<1>6. f = g
  BY <1>4, <1>5
<1>7. QED
  BY <1>6 DEF Shifting, g

\* A word has eight figures of four bits: what x may be before the i-th shift.
Fits0(x) == x \in Nat /\ x <= 0
Fits1(x) == x \in Nat /\ x <= 15
Fits2(x) == x \in Nat /\ x <= 255
Fits3(x) == x \in Nat /\ x <= 4095
Fits4(x) == x \in Nat /\ x <= 65535
Fits5(x) == x \in Nat /\ x <= 1048575
Fits6(x) == x \in Nat /\ x <= 16777215
Fits7(x) == x \in Nat /\ x <= 268435455
Fits8(x) == x \in Nat /\ x <= 4294967295

\* A shift by four bits takes one figure away.
LEMMA ShiftFits ==
  ASSUME NEW x
  PROVE  /\ Fits8(x) => Fits7(x \div 16)
         /\ Fits7(x) => Fits6(x \div 16)
         /\ Fits6(x) => Fits5(x \div 16)
         /\ Fits5(x) => Fits4(x \div 16)
         /\ Fits4(x) => Fits3(x \div 16)
         /\ Fits3(x) => Fits2(x \div 16)
         /\ Fits2(x) => Fits1(x \div 16)
         /\ Fits1(x) => Fits0(x \div 16)
<1>1. Fits8(x) => Fits7(x \div 16)
  BY SMT DEF Fits8, Fits7
<1>2. Fits7(x) => Fits6(x \div 16)
  BY SMT DEF Fits7, Fits6
<1>3. Fits6(x) => Fits5(x \div 16)
  BY SMT DEF Fits6, Fits5
<1>4. Fits5(x) => Fits4(x \div 16)
  BY SMT DEF Fits5, Fits4
<1>5. Fits4(x) => Fits3(x \div 16)
  BY SMT DEF Fits4, Fits3
<1>6. Fits3(x) => Fits2(x \div 16)
  BY SMT DEF Fits3, Fits2
<1>7. Fits2(x) => Fits1(x \div 16)
  BY SMT DEF Fits2, Fits1
<1>8. Fits1(x) => Fits0(x \div 16)
  BY SMT DEF Fits1, Fits0
<1>9. QED
  BY <1>1, <1>2, <1>3, <1>4, <1>5, <1>6, <1>7, <1>8

\* Each figure of itoa_hex is the rest of a division, and none is lost: after
\* eight shifts nothing of a word is left.
LEMMA ShiftsAway ==
  ASSUME NEW v \in Word
  PROVE  /\ Shifted4(v)[8] = v /\ Shifted4(v)[0] = 0
         /\ \A i \in 0..8 : Shifted4(v)[i] \in Nat
         /\ \A i \in 1..8 : Shifted4(v)[i - 1] = Shifted4(v)[i] \div 16
<1> DEFINE f == CHOOSE left : Shifting(v, left)
<1>1. v \in Nat
  BY SMT DEF Word
<1>2. Shifting(v, f)
  BY <1>1, ShiftingExists
<1>3. Shifted4(v) = f
  BY DEF Shifting, Shifted4
<1> HIDE DEF f
<1>4. \A i \in 0..8 : f[i] = IF i = 8 THEN v ELSE f[i + 1] \div 16
  BY <1>2 DEF Shifting
<1>5. \A i \in 1..8 : f[i - 1] = f[i] \div 16
  <2>1. TAKE i \in 1..8
  <2>2. i - 1 \in 0..8 /\ i - 1 # 8 /\ (i - 1) + 1 = i
    OBVIOUS
  <2>3. QED
    BY <1>4, <2>2
<1>6. /\ f[8] = v /\ f[7] = f[8] \div 16 /\ f[6] = f[7] \div 16 /\ f[5] = f[6] \div 16
      /\ f[4] = f[5] \div 16 /\ f[3] = f[4] \div 16 /\ f[2] = f[3] \div 16
      /\ f[1] = f[2] \div 16 /\ f[0] = f[1] \div 16
  BY <1>4
<1>7. Fits8(f[8])
  <2>1. Fits8(v)
    BY SMT DEF Word, Fits8
  <2>2. QED
    BY <1>6, <2>1, Zenon
<1>8. Fits7(f[7])
  BY <1>6, <1>7, ShiftFits, Zenon
<1>9. Fits6(f[6])
  BY <1>6, <1>8, ShiftFits, Zenon
<1>10. Fits5(f[5])
  BY <1>6, <1>9, ShiftFits, Zenon
<1>11. Fits4(f[4])
  BY <1>6, <1>10, ShiftFits, Zenon
<1>12. Fits3(f[3])
  BY <1>6, <1>11, ShiftFits, Zenon
<1>13. Fits2(f[2])
  BY <1>6, <1>12, ShiftFits, Zenon
<1>14. Fits1(f[1])
  BY <1>6, <1>13, ShiftFits, Zenon
<1>15. Fits0(f[0])
  BY <1>6, <1>14, ShiftFits, Zenon
<1>16. f[0] = 0
  <2> DEFINE x == f[0]
  <2>1. Fits0(x)
    BY <1>15
  <2> HIDE DEF x
  <2>2. x = 0
    BY <2>1 DEF Fits0
  <2>3. QED
    BY <2>2 DEF x
<1>17. \A i \in 0..8 : f[i] \in Nat
  <2>1. /\ f[8] \in Nat /\ f[7] \in Nat /\ f[6] \in Nat /\ f[5] \in Nat /\ f[4] \in Nat
        /\ f[3] \in Nat /\ f[2] \in Nat /\ f[1] \in Nat /\ f[0] \in Nat
    BY <1>7, <1>8, <1>9, <1>10, <1>11, <1>12, <1>13, <1>14, <1>15, SMT
       DEF Fits8, Fits7, Fits6, Fits5, Fits4, Fits3, Fits2, Fits1, Fits0
  <2>2. TAKE i \in 0..8
  <2>3. \/ i = 0 \/ i = 1 \/ i = 2 \/ i = 3 \/ i = 4 \/ i = 5 \/ i = 6 \/ i = 7 \/ i = 8
    OBVIOUS
  <2>4. QED
    BY <2>1, <2>3
<1>18. QED
  BY <1>3, <1>5, <1>6, <1>16, <1>17

\* Eight figures of base 16, the first one counting most, read back what was
\* divided into them.
LEMMA EightFigures ==
  ASSUME NEW s, Len(s) = 8, NEW g, g[0] = 0,
         \A i \in 0..8 : g[i] \in Nat,
         \A i \in 1..8 : g[i - 1] = g[i] \div 16 /\ Place(s[i]) = g[i] % 16
  PROVE  NumberOf(s, 16) = g[8]
<1>1. Len(s) \in Nat
  OBVIOUS
<1>2. PICK f : Reads(s, 16, f)
  BY <1>1, NumberRead
<1>3. f[0] = 0 /\ \A i \in 1..8 : f[i] = f[i - 1] * 16 + Place(s[i])
  BY <1>2 DEF Reads, Shifted
<1>4. ASSUME NEW i \in 1..8, f[i - 1] = g[i - 1] PROVE f[i] = g[i]
  <2>0. i \in 0..8
    OBVIOUS
  <2>1. f[i] = (g[i] \div 16) * 16 + (g[i] % 16) /\ g[i] \in Nat
    BY <1>3, <1>4, <2>0, Zenon
  <2> DEFINE x == g[i]
  <2>2. x \in Nat => (x \div 16) * 16 + (x % 16) = x
    <3> HIDE DEF x
    <3>1. QED
      OBVIOUS
  <2>3. QED
    BY <2>1, <2>2
<1>5. f[1] = g[1]
  <2>1. 1 \in 1..8 /\ f[1 - 1] = g[1 - 1]
    BY <1>3
  <2>2. QED
    BY <1>4, <2>1
<1>6. f[2] = g[2]
  <2>1. 2 \in 1..8 /\ f[2 - 1] = g[2 - 1]
    BY <1>5
  <2>2. QED
    BY <1>4, <2>1
<1>7. f[3] = g[3]
  <2>1. 3 \in 1..8 /\ f[3 - 1] = g[3 - 1]
    BY <1>6
  <2>2. QED
    BY <1>4, <2>1
<1>8. f[4] = g[4]
  <2>1. 4 \in 1..8 /\ f[4 - 1] = g[4 - 1]
    BY <1>7
  <2>2. QED
    BY <1>4, <2>1
<1>9. f[5] = g[5]
  <2>1. 5 \in 1..8 /\ f[5 - 1] = g[5 - 1]
    BY <1>8
  <2>2. QED
    BY <1>4, <2>1
<1>10. f[6] = g[6]
  <2>1. 6 \in 1..8 /\ f[6 - 1] = g[6 - 1]
    BY <1>9
  <2>2. QED
    BY <1>4, <2>1
<1>11. f[7] = g[7]
  <2>1. 7 \in 1..8 /\ f[7 - 1] = g[7 - 1]
    BY <1>10
  <2>2. QED
    BY <1>4, <2>1
<1>12. f[8] = g[8]
  <2>1. 8 \in 1..8 /\ f[8 - 1] = g[8 - 1]
    BY <1>11
  <2>2. QED
    BY <1>4, <2>1
<1>13. QED
  BY <1>2, <1>12 DEF Reads

\* itoa_hex writes all 32 bits.
THEOREM HexStands ==
  ASSUME NEW v \in Word
  PROVE  Len(ItoaHex(v)) = 10 /\ NumberOf(SubSeq(ItoaHex(v), 3, 10), 16) = v
<1> DEFINE Hex == [i \in 1..8 |-> Capital[(Shifted4(v)[i] % 16) + 1]]
           C == {Capital[i] : i \in 1..16} \cup {"0", "x"}
           h == ItoaHex(v)
<1>1. \A i \in 1..8 : Shifted4(v)[i] % 16 \in 0..15
  BY ShiftsAway
<1>2. Hex \in Seq(C) /\ Len(Hex) = 8 /\ <<"0", "x">> \in Seq(C) /\ Len(<<"0", "x">>) = 2
  <2>1. \A i \in 1..8 : Capital[(Shifted4(v)[i] % 16) + 1] \in C
    <3>1. TAKE i \in 1..8
    <3> DEFINE d == Shifted4(v)[i] % 16
    <3>2. d \in 0..15
      BY <1>1
    <3> HIDE DEF d
    <3>3. d + 1 \in 1..16
      BY <3>2
    <3>4. Capital[d + 1] \in C
      BY <3>3, Zenon
    <3>5. QED
      BY <3>4 DEF d
  <2>2. "0" \in C /\ "x" \in C
    OBVIOUS
  <2> HIDE DEF C
  <2>3. Hex \in Seq(C) /\ Len(Hex) = 8
    BY <2>1
  <2>4. QED
    BY <2>2, <2>3
<1> HIDE DEF C
<1>3. /\ h \in Seq(C) /\ Len(h) = 10
      /\ \A i \in 1..8 : h[i + 2] = Hex[i]
  <2> HIDE DEF Hex
  <2>1. /\ h \in Seq(C) /\ Len(h) = 2 + 8
        /\ \A i \in 1..(2 + 8) : h[i] = IF i <= 2 THEN <<"0", "x">>[i] ELSE Hex[i - 2]
    BY <1>2, ConcatProperties DEF ItoaHex, Hex
  <2> HIDE DEF h
  <2>2. ASSUME NEW i \in 1..8 PROVE h[i + 2] = Hex[i]
    <3>1. i + 2 \in 1..(2 + 8) /\ ~(i + 2 <= 2) /\ (i + 2) - 2 = i
      OBVIOUS
    <3>2. QED
      BY <2>1, <3>1
  <2>3. QED
    BY <2>1, <2>2
<1> DEFINE s == SubSeq(h, 3, 10)
<1>4. Len(s) = 8 /\ \A i \in 1..8 : s[i] = h[i + 2]
  <2> HIDE DEF h
  <2>1. \A i \in 3..10 : h[i] \in C
    <3>1. \A i \in 1..Len(h) : h[i] \in C
      BY <1>3, ElementOfSeq
    <3>2. QED
      BY <1>3, <3>1
  <2>2. /\ Len(s) = IF 3 <= 10 THEN 10 - 3 + 1 ELSE 0
        /\ \A i \in 1..(10 - 3 + 1) : s[i] = h[3 + i - 1]
    BY <2>1, SubSeqProperties
  <2> HIDE DEF s
  <2>3. ASSUME NEW i \in 1..8 PROVE s[i] = h[i + 2]
    <3>1. i \in 1..(10 - 3 + 1) /\ 3 + i - 1 = i + 2
      OBVIOUS
    <3>2. QED
      BY <2>2, <3>1
  <2>4. QED
    BY <2>2, <2>3
<1>5. ASSUME NEW i \in 1..8 PROVE Place(s[i]) = Shifted4(v)[i] % 16
  <2> DEFINE d == Shifted4(v)[i] % 16
  <2>1. d \in 0..15 /\ s[i] = Capital[d + 1]
    BY <1>1, <1>3, <1>4
  <2> HIDE DEF d
  <2>2. QED
    BY <2>1, PlaceOfFigure DEF d
<1> HIDE DEF s, h
<1>6. NumberOf(s, 16) = v
  BY <1>4, <1>5, ShiftsAway, EightFigures
<1>7. QED
  BY <1>3, <1>6 DEF s, h
-----------------------------------------------------------------------------
(* The processor's tables *)

\* The parts of a descriptor, put together again.
LEMMA BaseParts ==
  ASSUME NEW x \in Word
  PROVE  (x % 65536) + ((x \div 65536) % 256) * 65536 + ((x \div 16777216) % 256) * 16777216 = x
<1>1. x \in Nat /\ x \div 16777216 <= 255 /\ x \div 16777216 \in Nat
  BY SMT DEF Word
<1>2. (x \div 16777216) % 256 = x \div 16777216
  BY SMT, <1>1
<1>3. (x % 65536) + ((x \div 65536) % 256) * 65536 + (x \div 16777216) * 16777216 = x
  BY SMT, <1>1
<1>4. QED
  BY SMT, <1>2, <1>3

\* The two parts of a limit, put together again.
LEMMA LimitParts ==
  ASSUME NEW x \in Nat, NEW g \in Nat
  PROVE  /\ ((((x \div 65536) % 16) + (g \div 16) * 16) % 16) = (x \div 65536) % 16
         /\ ((((x \div 65536) % 16) + (g \div 16) * 16) \div 16) = g \div 16
         /\ (x % 65536) + ((x \div 65536) % 16) * 65536 = x % 1048576
<1>1. ASSUME NEW a \in Nat, NEW b \in Nat
      PROVE  (((a % 16) + b * 16) % 16) = a % 16 /\ (((a % 16) + b * 16) \div 16) = b
  BY SMT
<1>2. x \div 65536 \in Nat /\ g \div 16 \in Nat
  BY SMT
<1>3. (x % 65536) + ((x \div 65536) % 16) * 65536 = x % 1048576
  BY SMT
<1>4. QED
  BY <1>1, <1>2, <1>3, SMT

\* gdt_set_gate: a descriptor decodes to the base and the limit it was made of.
THEOREM GdtDecodes ==
  ASSUME NEW base \in Word, NEW limit \in Nat, NEW access, NEW gran \in Nat,
         NEW gate, gate = GdtGate(base, limit, access, gran)
  PROVE  /\ gate.base_low + gate.base_middle * 65536 + gate.base_high * 16777216 = base
         /\ gate.limit_low + (gate.granularity % 16) * 65536 = limit % 1048576
         /\ gate.granularity \div 16 = gran \div 16 /\ gate.access = access
<1>1. /\ gate.base_low = base % 65536 /\ gate.base_middle = (base \div 65536) % 256
      /\ gate.base_high = (base \div 16777216) % 256 /\ gate.limit_low = limit % 65536
      /\ gate.granularity = ((limit \div 65536) % 16) + (gran \div 16) * 16
      /\ gate.access = access
  BY SMT DEF GdtGate
<1>2. QED
  BY <1>1, BaseParts, LimitParts, SMT

\* idt_set_gate: a gate's two halves are the address of its handler.
THEOREM IdtDecodes ==
  ASSUME NEW handler \in Word, NEW gate, gate = IdtGate(handler)
  PROVE  gate.offset_low + gate.offset_high * 65536 = handler
<1>1. gate.offset_low = handler % 65536 /\ gate.offset_high = handler \div 65536
  BY SMT DEF IdtGate
<1>2. handler \in Nat
  BY SMT DEF Word
<1>3. (handler % 65536) + (handler \div 65536) * 65536 = handler
  BY SMT, <1>2
<1>4. QED
  BY <1>1, <1>3, SMT

\* A number has one quotient and one rest.
LEMMA OneQuotient ==
  ASSUME NEW d \in Nat \ {0}, NEW q \in Nat, NEW r \in 0..(d - 1), NEW a, a = q * d + r
  PROVE  a \in Nat /\ a \div d = q /\ a % d = r
<1>1. q * d \in Nat /\ a \in Nat
  BY SMT
<1>2. a = (a \div d) * d + (a % d) /\ a % d \in 0..(d - 1) /\ a \div d \in Nat
  BY <1>1, SMT
<1> DEFINE p == a \div d
           s == a % d
<1>3. a = p * d + s /\ s \in 0..(d - 1) /\ p \in Nat
  BY <1>2
<1> HIDE DEF p, s
<1>4. ~(p < q)
  <2>1. SUFFICES ASSUME p < q PROVE FALSE
    OBVIOUS
  <2>2. PICK k \in Nat : q = p + 1 + k
    <3>1. q - p - 1 \in Nat /\ q = p + 1 + (q - p - 1)
      BY <1>3, <2>1
    <3>2. QED
      BY <3>1
  <2>3. q * d = p * d + d + k * d /\ k * d \in Nat /\ p * d \in Nat
    BY <1>3, <2>2
  <2>4. QED
    BY <1>3, <2>3, SMT
<1>5. ~(q < p)
  <2>1. SUFFICES ASSUME q < p PROVE FALSE
    OBVIOUS
  <2>2. PICK k \in Nat : p = q + 1 + k
    <3>1. p - q - 1 \in Nat /\ p = q + 1 + (p - q - 1)
      BY <1>3, <2>1
    <3>2. QED
      BY <3>1
  <2>3. p * d = q * d + d + k * d /\ k * d \in Nat /\ q * d \in Nat
    BY <1>3, <2>2
  <2>4. QED
    BY <1>3, <2>3, SMT
<1>6. p = q
  BY <1>3, <1>4, <1>5
<1>7. s = r
  BY <1>1, <1>3, <1>6
<1>8. QED
  BY <1>1, <1>6, <1>7 DEF p, s

\* A number below a * b divided by b is below a.
LEMMA QuotientBelow ==
  ASSUME NEW a \in Nat \ {0}, NEW b \in Nat \ {0}, NEW x \in Nat, x < a * b
  PROVE  x \div b \in 0..(a - 1)
<1> DEFINE q == x \div b
           r == x % b
<1>1. x = q * b + r /\ r \in 0..(b - 1) /\ q \in Nat
  BY SMT
<1> HIDE DEF q, r
<1>2. ~(q >= a)
  <2>1. SUFFICES ASSUME q >= a PROVE FALSE
    OBVIOUS
  <2>2. PICK k \in Nat : q = a + k
    <3>1. q - a \in Nat /\ q = a + (q - a)
      BY <1>1, <2>1
    <3>2. QED
      BY <3>1
  <2>3. q * b = a * b + k * b /\ k * b \in Nat /\ a * b \in Nat
    BY <2>2
  <2>4. QED
    BY <1>1, <2>3, SMT
<1>3. q \in 0..(a - 1)
  BY <1>1, <1>2
<1>4. QED
  BY <1>3 DEF q

\* The page tables map every address of the 2^32 to itself, whatever the
\* sizes of a table and of a page.
THEOREM WalkIsIdentity ==
  ASSUME NEW virt \in 0..(ENTRIES * ENTRIES * PAGE - 1)
  PROVE  VirtToPhys(virt) = virt
<1> DEFINE E == ENTRIES
           dir == virt \div (E * PAGE)
           page == virt \div PAGE
           low == virt % PAGE
           tbl == page % E
<1>1. /\ E \in Nat \ {0} /\ PAGE \in Nat \ {0} /\ PAGE = E * 4 /\ PAGE > 3
      /\ TABLES_AT \in Nat /\ TABLES_AT % PAGE = 0 /\ E * PAGE \in Nat \ {0}
      /\ virt \in Nat
  <2>1. E \in Nat \ {0} /\ PAGE = 4 * E /\ TABLES_AT \in Nat /\ TABLES_AT % PAGE = 0
    BY TablesAssumption
  <2>2. PAGE \in Nat \ {0} /\ PAGE = E * 4 /\ PAGE > 3
    BY <2>1
  <2>3. ASSUME NEW x \in Nat \ {0}, NEW y \in Nat \ {0} PROVE x * y \in Nat \ {0}
    BY SMT
  <2>4. QED
    BY <2>1, <2>2, <2>3
<1> HIDE DEF E
<1>2. dir \in 0..(E - 1)
  <2> DEFINE T == E * PAGE
  <2>1. virt < E * T
    <3>1. E * E * PAGE = E * T
      BY <1>1
    <3>2. E * E * PAGE \in Nat
      BY <1>1
    <3>3. QED
      BY <3>1, <3>2 DEF E
  <2>2. T \in Nat \ {0}
    BY <1>1
  <2> HIDE DEF T
  <2>3. virt \div T \in 0..(E - 1)
    BY <1>1, <2>1, <2>2, QuotientBelow
  <2>4. QED
    BY <2>3 DEF T
<1>3. virt = page * PAGE + low /\ low \in 0..(PAGE - 1) /\ page \in Nat
  BY <1>1
<1> HIDE DEF page, low
<1>4. page = (page \div E) * E + tbl /\ tbl \in 0..(E - 1) /\ page \div E \in Nat
  BY <1>1, <1>3
<1> HIDE DEF tbl
<1>5. page \div E = dir
  <2> DEFINE q == page \div E
             T == E * PAGE
             r == tbl * PAGE + low
  <2>1. q \in Nat /\ page = q * E + tbl
    BY <1>4
  <2> HIDE DEF q
  <2>2. virt = q * T + r
    <3>1. (q * E + tbl) * PAGE = q * (E * PAGE) + tbl * PAGE
      BY <1>1, <1>4, <2>1
    <3>2. /\ q * (E * PAGE) \in Nat /\ tbl * PAGE \in Nat
      BY <1>1, <1>4, <2>1
    <3>3. QED
      BY <1>3, <2>1, <3>1, <3>2
  <2>3. r \in 0..(T - 1)
    <3>1. PICK k \in Nat : E = tbl + 1 + k
      <4>1. E - tbl - 1 \in Nat /\ E = tbl + 1 + (E - tbl - 1)
        BY <1>1, <1>4
      <4>2. QED
        BY <4>1
    <3>2. E * PAGE = tbl * PAGE + PAGE + k * PAGE /\ k * PAGE \in Nat /\ tbl * PAGE \in Nat
      BY <1>1, <1>4, <3>1
    <3>3. QED
      BY <1>1, <1>3, <3>2
  <2>4. T \in Nat \ {0}
    BY <1>1
  <2> HIDE DEF T, r
  <2>5. virt \div T = q
    BY <2>1, <2>2, <2>3, <2>4, OneQuotient
  <2>6. QED
    BY <2>5 DEF q, T
<1> HIDE DEF dir
<1> DEFINE pde == DirEntry((virt \div (ENTRIES * PAGE)) % ENTRIES)
<1>6. (virt \div (ENTRIES * PAGE)) % ENTRIES = dir
  <2>1. dir % E = dir
    BY <1>1, <1>2
  <2>2. QED
    BY <2>1 DEF dir, E
<1>7. (virt \div PAGE) % ENTRIES = tbl
  BY DEF tbl, page, E
<1>8. pde = TABLES_AT + dir * PAGE + 3
  <2>1. pde = TABLES_AT + dir * E * 4 + 3
    BY <1>6 DEF DirEntry, E
  <2>2. dir * E * 4 = dir * (E * 4)
    BY <1>1, <1>2
  <2>3. QED
    BY <1>1, <2>1, <2>2
<1>9. PICK t \in Nat : TABLES_AT = t * PAGE
  <2> DEFINE t == TABLES_AT \div PAGE
  <2>1. t \in Nat /\ TABLES_AT = t * PAGE + (TABLES_AT % PAGE)
    BY <1>1
  <2>2. t * PAGE \in Nat
    BY <1>1, <2>1
  <2> HIDE DEF t
  <2>3. QED
    BY <1>1, <2>1, <2>2
<1> HIDE DEF pde
<1>10. pde % PAGE = 3 /\ pde \in Nat
  <2>1. t + dir \in Nat /\ pde = (t + dir) * PAGE + 3
    BY <1>1, <1>2, <1>8, <1>9
  <2>2. 3 \in 0..(PAGE - 1)
    BY <1>1
  <2>3. QED
    BY <1>1, <2>1, <2>2, OneQuotient
<1>11. ((pde - (pde % PAGE)) - TABLES_AT) \div (ENTRIES * 4) = dir
  <2>1. dir * PAGE \in Nat /\ dir \in Nat
    BY <1>1, <1>2
  <2>2. (pde - (pde % PAGE)) - TABLES_AT = dir * PAGE + 0
    BY <1>1, <1>8, <1>10, <2>1
  <2>3. (dir * PAGE + 0) \div PAGE = dir
    BY <1>1, <2>1, OneQuotient
  <2>4. QED
    BY <1>1, <2>2, <2>3 DEF E
<1> DEFINE pte == PageEntry(dir, tbl)
<1>12. pte = page * PAGE + 3
  <2>1. pte = dir * E * PAGE + tbl * PAGE + 3
    BY DEF PageEntry, E
  <2>2. page = dir * E + tbl /\ dir \in Nat /\ tbl \in Nat
    BY <1>2, <1>4, <1>5
  <2>3. (dir * E + tbl) * PAGE = dir * E * PAGE + tbl * PAGE
    BY <1>1, <2>2
  <2>4. QED
    BY <2>1, <2>2, <2>3
<1> HIDE DEF pte
<1>13. pte % PAGE = 3
  <2>1. ASSUME NEW d \in Nat \ {0}, NEW k \in Nat, NEW n, n = k * d + 3, 3 < d PROVE n % d = 3
    <3>1. 3 \in 0..(d - 1)
      BY <2>1
    <3>2. QED
      BY <2>1, <3>1, OneQuotient
  <2>2. page \in Nat /\ PAGE \in Nat \ {0} /\ 3 < PAGE
    BY <1>1, <1>3
  <2>3. QED
    BY <1>12, <2>1, <2>2
<1>14. (pte - (pte % PAGE)) + low = virt
  <2>1. page * PAGE \in Nat
    BY <1>1, <1>3
  <2>2. QED
    BY <1>3, <1>12, <1>13, <2>1
<1>15. pde % 2 # 0 /\ pte % 2 # 0
  <2>1. ASSUME NEW k \in Nat, NEW n, n = k * PAGE + 3 PROVE n % 2 # 0
    <3>1. k * E \in Nat /\ k * PAGE = 4 * (k * E)
      BY <1>1
    <3>2. QED
      BY <2>1, <3>1
  <2>2. t + dir \in Nat /\ pde = (t + dir) * PAGE + 3
    BY <1>1, <1>2, <1>8, <1>9
  <2>3. QED
    BY <1>3, <1>12, <2>1, <2>2
<1>16. VirtToPhys(virt) = (pte - (pte % PAGE)) + (virt % PAGE)
  <2>1. VirtToPhys(virt)
          = IF pde % 2 = 0 \/ pte % 2 = 0 THEN Absent ELSE (pte - (pte % PAGE)) + (virt % PAGE)
    BY <1>7, <1>11, Zenon DEF VirtToPhys, pde, pte
  <2>2. QED
    BY <1>15, <2>1
<1>17. QED
  BY <1>14, <1>16 DEF low
-----------------------------------------------------------------------------
(* Every call of the routines *)

\* What Call sets.
LEMMA CallGives ==
  ASSUME NEW f, NEW a, NEW r, Call(f, a, r)
  PROVE  fn' = f /\ args' = a /\ result' = r
BY DEF Call

\* The name of a call tells which it is.
LEMMA CallsNamed ==
  /\ ItoaCall => fn' = "itoa"
  /\ UtoaCall => fn' = "utoa"
  /\ HexCall => fn' = "itoa_hex"
  /\ SizeCall => fn' = "pr_right"
  /\ DosCall => fn' = "pr_dos_datetime"
  /\ ClockCall => fn' = "format_date_time"
  /\ KprintfCall => fn' = "kprintf"
  /\ DebugCall => fn' = "debug_printf"
  /\ PrintfDCall => fn' = "printf_d"
  /\ PrintfXCall => fn' = "printf_x"
  /\ DumpCall => fn' = "debug_dump_mem"
  /\ StackCall => fn' = "debug_dump_stack"
  /\ CompareCall => fn' \in {"strcmp", "memcmp"}
  /\ TtyCall => fn' = "tty"
  /\ CharCall => fn' = "draw_char"
  /\ RectCall => fn' = "draw_rect"
  /\ ClearCall => fn' = "vbe_clear"
  /\ BufRectCall => fn' = "buf_rect"
  /\ LineCall => fn' \in {"points", "buf_line"}
  /\ FlipCall => fn' = "flip"
  /\ BmpCall => fn' = "draw_bmp"
  /\ ColourCall => fn' = "rgb565"
  /\ FontCall => fn' = "register_char"
  /\ GdtCall => fn' = "gdt"
  /\ GdtInitCall => fn' = "gdt_init"
  /\ IdtCall => fn' = "idt"
  /\ WalkCall => fn' = "virt_to_phys"
  /\ VideoCall => fn' = "int10"
  /\ Return => fn' = "none"
<1>1. ItoaCall => fn' = "itoa"
  BY CallGives DEF ItoaCall
<1>2. UtoaCall => fn' = "utoa"
  BY CallGives DEF UtoaCall
<1>3. HexCall => fn' = "itoa_hex"
  BY CallGives DEF HexCall
<1>4. SizeCall => fn' = "pr_right"
  BY CallGives DEF SizeCall
<1>5. DosCall => fn' = "pr_dos_datetime"
  BY CallGives DEF DosCall
<1>6. ClockCall => fn' = "format_date_time"
  BY CallGives DEF ClockCall
<1>7. KprintfCall => fn' = "kprintf"
  BY CallGives DEF KprintfCall
<1>8. DebugCall => fn' = "debug_printf"
  <2>1. DebugCall => (\E a, r : Call("debug_printf", a, r))
    BY Zenon DEF DebugCall
  <2>2. QED
    BY <2>1, CallGives
<1>9. PrintfDCall => fn' = "printf_d"
  BY CallGives DEF PrintfDCall
<1>10. PrintfXCall => fn' = "printf_x"
  BY CallGives DEF PrintfXCall
<1>11. DumpCall => fn' = "debug_dump_mem"
  BY CallGives DEF DumpCall
<1>12. StackCall => fn' = "debug_dump_stack"
  BY CallGives DEF StackCall
<1>13. CompareCall => fn' \in {"strcmp", "memcmp"}
  <2>1. CompareCall => (\E a, r : Call("strcmp", a, r) \/ Call("memcmp", a, r))
    BY Zenon DEF CompareCall
  <2>2. QED
    BY <2>1, CallGives
<1>14. TtyCall => fn' = "tty"
  <2>1. TtyCall => (\E a, r : Call("tty", a, r))
    BY Zenon DEF TtyCall
  <2>2. QED
    BY <2>1, CallGives
<1>15. CharCall => fn' = "draw_char"
  BY CallGives DEF CharCall
<1>16. RectCall => fn' = "draw_rect"
  BY CallGives DEF RectCall
<1>17. ClearCall => fn' = "vbe_clear"
  BY CallGives DEF ClearCall
<1>18. BufRectCall => fn' = "buf_rect"
  BY CallGives DEF BufRectCall
<1>19. LineCall => fn' \in {"points", "buf_line"}
  BY CallGives DEF LineCall
<1>20. FlipCall => fn' = "flip"
  BY CallGives DEF FlipCall
<1>21. BmpCall => fn' = "draw_bmp"
  BY CallGives DEF BmpCall
<1>22. ColourCall => fn' = "rgb565"
  BY CallGives DEF ColourCall
<1>23. FontCall => fn' = "register_char"
  BY CallGives DEF FontCall
<1>24. GdtCall => fn' = "gdt"
  <2>1. GdtCall => (\E a, r : Call("gdt", a, r))
    BY Zenon DEF GdtCall
  <2>2. QED
    BY <2>1, CallGives
<1>25. GdtInitCall => fn' = "gdt_init"
  BY CallGives DEF GdtInitCall
<1>26. IdtCall => fn' = "idt"
  BY CallGives DEF IdtCall
<1>27. WalkCall => fn' = "virt_to_phys"
  BY CallGives DEF WalkCall
<1>28. VideoCall => fn' = "int10"
  BY CallGives DEF VideoCall
<1>29. Return => fn' = "none"
  BY DEF Return
<1>30. QED
  BY <1>1, <1>2, <1>3, <1>4, <1>5, <1>6, <1>7, <1>8, <1>9, <1>10, <1>11, <1>12, <1>13, <1>14,
     <1>15, <1>16, <1>17, <1>18, <1>19, <1>20, <1>21, <1>22, <1>23, <1>24, <1>25, <1>26,
     <1>27, <1>28, <1>29

\* A step whose name is that of a routine is a call of it.
LEMMA WhichCall ==
  ASSUME Next
  PROVE  /\ fn' = "itoa" => ItoaCall
         /\ fn' = "utoa" => UtoaCall
         /\ fn' = "itoa_hex" => HexCall
         /\ fn' = "pr_right" => SizeCall
         /\ fn' = "pr_dos_datetime" => DosCall
         /\ fn' = "format_date_time" => ClockCall
         /\ fn' = "kprintf" => KprintfCall
         /\ fn' = "debug_printf" => DebugCall
         /\ fn' = "printf_d" => PrintfDCall
         /\ fn' = "printf_x" => PrintfXCall
         /\ fn' = "debug_dump_mem" => DumpCall
         /\ fn' = "debug_dump_stack" => StackCall
         /\ fn' = "strcmp" => CompareCall
         /\ fn' = "memcmp" => CompareCall
         /\ fn' = "tty" => TtyCall
         /\ fn' = "draw_char" => CharCall
         /\ fn' = "draw_rect" => RectCall
         /\ fn' = "vbe_clear" => ClearCall
         /\ fn' = "buf_rect" => BufRectCall
         /\ fn' = "points" => LineCall
         /\ fn' = "buf_line" => LineCall
         /\ fn' = "flip" => FlipCall
         /\ fn' = "draw_bmp" => BmpCall
         /\ fn' = "rgb565" => ColourCall
         /\ fn' = "register_char" => FontCall
         /\ fn' = "gdt" => GdtCall
         /\ fn' = "gdt_init" => GdtInitCall
         /\ fn' = "idt" => IdtCall
         /\ fn' = "virt_to_phys" => WalkCall
         /\ fn' = "int10" => VideoCall
BY CallsNamed, Zenon DEF Next, TextCall, MapCall

\* The numbers of the calls fit in 32 bits.
LEMMA NumbersAreWords ==
  ASSUME NEW v \in Sizes
  PROVE  v \in Nat /\ v \in Word
<1>1. v \in Int /\ v >= 0 /\ v <= 2147483647
  BY SMT, RoutinesAssumption DEF Sizes
<1>2. QED
  BY SMT, <1>1 DEF Word

\* A call of itoa gives what NumbersRight says.
LEMMA ItoaStep ==
  ASSUME ItoaCall
  PROVE  NumbersRight' /\ TablesRight'
<1>1. PICK v \in Numbers : Call("itoa", <<v>>, Itoa(v))
  BY DEF ItoaCall
<1>2. fn' = "itoa" /\ args' = <<v>> /\ result' = Itoa(v)
  BY <1>1, CallGives
<1>3. v \in Int
  BY SMT, RoutinesAssumption
<1>4. args'[1] = v
  BY <1>2
<1>5. IF v < 0 THEN Head(Itoa(v)) = "-" /\ Stands(Tail(Itoa(v)), -v, 10)
      ELSE Stands(Itoa(v), v, 10)
  BY <1>3, ItoaStands
<1>6. NumbersRight'
  BY <1>2, <1>4, <1>5, Zenon DEF NumbersRight
<1>7. TablesRight'
  BY <1>2 DEF TablesRight
<1>8. QED
  BY <1>6, <1>7

\* A call of utoa gives what NumbersRight says.
LEMMA UtoaStep ==
  ASSUME UtoaCall
  PROVE  NumbersRight' /\ TablesRight'
<1>1. PICK v \in Sizes, b \in Base : Call("utoa", <<v, b>>, Utoa(v, b))
  BY DEF UtoaCall
<1>2. fn' = "utoa" /\ args' = <<v, b>> /\ result' = Utoa(v, b)
  BY <1>1, CallGives
<1>3. args'[1] = v /\ args'[2] = b
  BY <1>2
<1>4. Stands(Utoa(v, b), v, b)
  BY NumbersAreWords, UtoaStands
<1>5. NumbersRight'
  BY <1>2, <1>3, <1>4, Zenon DEF NumbersRight
<1>6. TablesRight'
  BY <1>2 DEF TablesRight
<1>7. QED
  BY <1>5, <1>6

\* A call of itoa_hex gives what NumbersRight says.
LEMMA HexStep ==
  ASSUME HexCall
  PROVE  NumbersRight' /\ TablesRight'
<1>1. PICK v \in Sizes : Call("itoa_hex", <<v>>, ItoaHex(v))
  BY DEF HexCall
<1>2. fn' = "itoa_hex" /\ args' = <<v>> /\ result' = ItoaHex(v)
  BY <1>1, CallGives
<1>3. args'[1] = v
  BY <1>2
<1>4. Len(ItoaHex(v)) = 10 /\ NumberOf(SubSeq(ItoaHex(v), 3, 10), 16) = v
  BY NumbersAreWords, HexStands
<1>5. NumbersRight'
  BY <1>2, <1>3, <1>4, Zenon DEF NumbersRight
<1>6. TablesRight'
  BY <1>2 DEF TablesRight
<1>7. QED
  BY <1>5, <1>6

\* A call of virt_to_phys gives the address it was given.
LEMMA WalkStep ==
  ASSUME WalkCall
  PROVE  NumbersRight' /\ TablesRight'
<1>1. PICK virt \in 0..(ENTRIES * ENTRIES * PAGE - 1) :
        Call("virt_to_phys", <<virt>>, VirtToPhys(virt))
  BY DEF WalkCall
<1>2. fn' = "virt_to_phys" /\ args' = <<virt>> /\ result' = VirtToPhys(virt)
  BY <1>1, CallGives
<1>3. args'[1] = virt
  BY <1>2
<1>4. VirtToPhys(virt) = virt
  BY WalkIsIdentity
<1>5. TablesRight'
  BY <1>2, <1>3, <1>4, SMT DEF TablesRight
<1>6. NumbersRight'
  BY <1>2 DEF NumbersRight
<1>7. QED
  BY <1>5, <1>6

\* A call of gdt_set_gate makes a descriptor that decodes.
LEMMA GdtStep ==
  ASSUME GdtCall
  PROVE  NumbersRight' /\ TablesRight'
<1>1. PICK base \in Addresses, limit \in Addresses, access \in {137, 250}, gran \in {0, 207} :
        Call("gdt", <<base, limit, access, gran>>, GdtGate(base, limit, access, gran))
  BY Zenon DEF GdtCall
<1>2. /\ fn' = "gdt" /\ args' = <<base, limit, access, gran>>
      /\ result' = GdtGate(base, limit, access, gran)
  BY SMT, <1>1, CallGives
<1>3. args'[1] = base /\ args'[2] = limit /\ args'[3] = access /\ args'[4] = gran
  BY SMT, <1>2
<1>4. base \in Word /\ limit \in Nat /\ gran \in Nat
  BY SMT DEF Word, Addresses
<1> DEFINE gate == GdtGate(base, limit, access, gran)
<1>5. /\ gate.base_low + gate.base_middle * 65536 + gate.base_high * 16777216 = base
      /\ gate.limit_low + (gate.granularity % 16) * 65536 = limit % 1048576
      /\ gate.granularity \div 16 = gran \div 16 /\ gate.access = access
  BY <1>4, GdtDecodes, SMT
<1>6. TablesRight'
  BY SMT, <1>2, <1>3, <1>5 DEF TablesRight
<1>7. NumbersRight'
  BY SMT, <1>2 DEF NumbersRight
<1>8. QED
  BY <1>6, <1>7

\* A call of idt_set_gate makes a gate that decodes.
LEMMA IdtStep ==
  ASSUME IdtCall
  PROVE  NumbersRight' /\ TablesRight'
<1>1. PICK handler \in Addresses : Call("idt", <<handler>>, IdtGate(handler))
  BY SMT DEF IdtCall
<1>2. fn' = "idt" /\ args' = <<handler>> /\ result' = IdtGate(handler)
  BY SMT, <1>1, CallGives
<1>3. args'[1] = handler
  BY SMT, <1>2
<1>4. handler \in Word
  BY SMT DEF Word, Addresses
<1> DEFINE gate == IdtGate(handler)
<1>5. gate.offset_low + gate.offset_high * 65536 = handler
  BY <1>4, IdtDecodes, SMT
<1>6. TablesRight'
  BY SMT, <1>2, <1>3, <1>5 DEF TablesRight
<1>7. NumbersRight'
  BY SMT, <1>2 DEF NumbersRight
<1>8. QED
  BY <1>6, <1>7

\* gdt_init with the TSS's descriptor: segments loaded from the boot's table stay
\* what they were, and both selectors name what the processor expects there.
LEMMA GdtInitDecodes ==
  ASSUME NEW tss \in Word, NEW gdt, gdt = TssInit(GdtInit, tss, 104)
  PROVE  /\ SubSeq(gdt, 1, 3) = BootGdt
         /\ gdt[2] = Flat(154) /\ gdt[6] = GdtGate(tss, 103, 137, 0)
<1> DEFINE C == {Null, Flat(154), Flat(146), Flat(250), Flat(242)}
           more == <<Flat(250), Flat(242), Null>>
           boot == BootGdt
           T == GdtGate(tss, 103, 137, 0)
<1>1. /\ boot \in Seq(C) /\ more \in Seq(C) /\ Len(boot) = 3 /\ Len(more) = 3
      /\ boot[2] = Flat(154)
  <2>1. boot = <<Null, Flat(154), Flat(146)>>
    BY DEF BootGdt
  <2> HIDE DEF boot
  <2>2. QED
    BY <2>1
<1>2. GdtInit = boot \o more
  BY DEF GdtInit
<1>3. gdt = [GdtInit EXCEPT ![6] = T]
  <2>1. 104 - 1 = 103
    OBVIOUS
  <2>2. QED
    BY <2>1 DEF TssInit
<1> HIDE DEF boot, more, C, T
<1>4. /\ GdtInit \in Seq(C) /\ Len(GdtInit) = 3 + 3
      /\ \A i \in 1..(3 + 3) : GdtInit[i] = IF i <= 3 THEN boot[i] ELSE more[i - 3]
  <2>1. /\ boot \o more \in Seq(C) /\ Len(boot \o more) = Len(boot) + Len(more)
        /\ \A i \in 1..(Len(boot) + Len(more)) :
             (boot \o more)[i] = IF i <= Len(boot) THEN boot[i] ELSE more[i - Len(boot)]
    BY <1>1, ConcatProperties, Zenon
  <2>2. QED
    BY <1>1, <1>2, <2>1, Zenon
<1>5. /\ Len(gdt) = 6 /\ gdt[6] = T
      /\ \A i \in 1..3 : gdt[i] = boot[i]
  <2>1. DOMAIN GdtInit = 1..6
    BY <1>4
  <2>2. \A i \in 1..3 : i \in 1..6 /\ i # 6 /\ GdtInit[i] = boot[i]
    BY <1>4
  <2>3. DOMAIN gdt = 1..6 /\ gdt[6] = T /\ \A i \in 1..3 : gdt[i] = GdtInit[i]
    BY <1>3, <2>1, <2>2
  <2>4. Len(gdt) = 6
    BY <1>3, <1>4
  <2>5. QED
    BY <2>2, <2>3, <2>4
<1> DEFINE s == SubSeq(gdt, 1, 3)
<1>6. s = [i \in 1..3 |-> gdt[i]]
  OBVIOUS
<1>7. s = boot
  <2>1. boot = [i \in 1..3 |-> boot[i]]
    BY <1>1
  <2>2. QED
    BY <1>5, <1>6, <2>1
<1>8. gdt[2] = Flat(154)
  BY <1>1, <1>5
<1>9. QED
  BY <1>5, <1>7, <1>8 DEF boot, T

\* A call of gdt_init and tss_init makes the table that TablesRight describes.
LEMMA GdtInitStep ==
  ASSUME GdtInitCall
  PROVE  NumbersRight' /\ TablesRight'
<1>1. PICK tss \in {65536, 305419896} : Call("gdt_init", <<tss, 104>>, TssInit(GdtInit, tss, 104))
  BY SMT DEF GdtInitCall
<1> DEFINE gdt == TssInit(GdtInit, tss, 104)
<1>2. fn' = "gdt_init" /\ args' = <<tss, 104>> /\ result' = gdt
  BY SMT, <1>1, CallGives
<1>3. args'[1] = tss /\ args'[2] = 104
  BY SMT, <1>2
<1>4. tss \in Word /\ 103 \in Nat /\ 0 \in Nat
  BY SMT DEF Word
<1>5. /\ SubSeq(gdt, 1, 3) = BootGdt
      /\ gdt[2] = Flat(154) /\ gdt[6] = GdtGate(tss, 103, 137, 0)
  BY <1>4, GdtInitDecodes, SMT
<1> HIDE DEF gdt
<1>6. gdt[2].access \div 8 = 19 /\ gdt[2].granularity = 207
  <2> DEFINE f == Flat(154)
  <2>1. f.access = 154 /\ f.granularity = ((1048575 \div 65536) % 16) + (207 \div 16) * 16
    BY SMT DEF Flat, GdtGate
  <2> HIDE DEF f
  <2>2. f.access \div 8 = 19 /\ f.granularity = 207
    BY SMT, <2>1
  <2>3. gdt[2] = f
    BY <1>5 DEF f
  <2>4. QED
    BY <2>2, <2>3
<1>7. /\ gdt[6].access = 137 /\ gdt[6].limit_low + 1 = 104
      /\ gdt[6].base_low + gdt[6].base_middle * 65536 + gdt[6].base_high * 16777216 = tss
  <2> DEFINE f == GdtGate(tss, 103, 137, 0)
  <2>1. f.access = 137 /\ f.base_low + f.base_middle * 65536 + f.base_high * 16777216 = tss
    BY SMT, <1>4, GdtDecodes
  <2>2. f.limit_low = 103 % 65536
    BY SMT DEF GdtGate
  <2> HIDE DEF f
  <2>3. f.limit_low + 1 = 104
    BY SMT, <2>2
  <2>4. gdt[6] = f
    BY <1>5 DEF f
  <2>5. QED
    BY <2>1, <2>3, <2>4, SMT
<1>8. IdtGate(0).selector \div 8 + 1 = 2 /\ GdtTss \div 8 + 1 = 6
  <2>1. IdtGate(0).selector = 8
    BY SMT DEF IdtGate
  <2>2. QED
    BY SMT, <2>1 DEF GdtTss
<1>9. TablesRight'
  BY SMT, <1>2, <1>3, <1>5, <1>6, <1>7, <1>8 DEF TablesRight
<1>10. NumbersRight'
  BY SMT, <1>2 DEF NumbersRight
<1>11. QED
  BY <1>9, <1>10

\* The steps of the other names say nothing: NumbersRight speaks of itoa, utoa and
\* itoa_hex only, TablesRight of four others.
LEMMA DecodesStep ==
  ASSUME Next
  PROVE  NumbersRight' /\ TablesRight'
<1>1. CASE fn' = "itoa"
  BY <1>1, WhichCall, ItoaStep
<1>2. CASE fn' = "utoa"
  BY <1>2, WhichCall, UtoaStep
<1>3. CASE fn' = "itoa_hex"
  BY <1>3, WhichCall, HexStep
<1>4. CASE fn' = "gdt"
  BY <1>4, WhichCall, GdtStep
<1>5. CASE fn' = "gdt_init"
  BY <1>5, WhichCall, GdtInitStep
<1>6. CASE fn' = "idt"
  BY <1>6, WhichCall, IdtStep
<1>7. CASE fn' = "virt_to_phys"
  BY <1>7, WhichCall, WalkStep
<1>8. CASE fn' \notin {"itoa", "utoa", "itoa_hex", "gdt", "gdt_init", "idt", "virt_to_phys"}
  BY <1>8 DEF NumbersRight, TablesRight
<1>9. QED
  BY <1>1, <1>2, <1>3, <1>4, <1>5, <1>6, <1>7, <1>8

\* itoa, utoa and itoa_hex write the number they are given, with its sign and in
\* either base; descriptors and gates decode to what they were made of, and the
\* page tables map every address to itself, whatever their size.
THEOREM AllDecodes == Spec => []Decodes
<1>1. Init => Decodes
  BY SMT DEF Init, Decodes, NumbersRight, TablesRight
<1>2. Decodes /\ [Next]_vars => Decodes'
  <2>1. SUFFICES ASSUME Decodes, [Next]_vars PROVE Decodes'
    OBVIOUS
  <2>2. CASE Next
    BY <2>2, DecodesStep DEF Decodes
  <2>3. CASE UNCHANGED vars
    BY <2>1, <2>3, SMT DEF vars, Decodes, NumbersRight, TablesRight
  <2>4. QED
    BY <2>1, <2>2, <2>3
<1>3. QED
  BY <1>1, <1>2, PTL DEF Spec

-----------------------------------------------------------------------------
(* Shapes *)

\* Every seen point of the set, and nothing else.
LEMMA ShapeOf ==
  ASSUME NEW S, NEW pitch
  PROVE  \A e : e \in Shape(S, pitch) <=>
           \E q \in {r \in S : Seen(r[1], r[2])} : e = <<q[2] * pitch + q[1], 1>>
BY DEF Shape, Drawing

\* A routine that puts every point of a set of points is the drawing of that set.
LEMMA RectDrawn ==
  ASSUME NEW x \in Int, NEW y \in Int, NEW w \in Int, NEW h \in Int, NEW pitch
  PROVE  Rect(x, y, w, h, 1, pitch) = Shape(Box(x, x + w - 1, y, y + h - 1), pitch)
<1> DEFINE D == Rect(x, y, w, h, 1, pitch)
           B == Box(x, x + w - 1, y, y + h - 1)
           E == Shape(B, pitch)
<1>1. ASSUME NEW e \in D PROVE e \in E
  <2>1. PICK p \in (0..(w - 1)) \X (0..(h - 1)) : e \in PixelAt(x + p[1], y + p[2], 1, pitch)
    BY DEF Rect
  <2>2. Seen(x + p[1], y + p[2]) /\ e = <<(y + p[2]) * pitch + (x + p[1]), 1>>
    BY <2>1, Zenon DEF PixelAt
  <2> DEFINE q == <<x + p[1], y + p[2]>>
  <2>3. q \in B /\ q[1] = x + p[1] /\ q[2] = y + p[2]
    BY DEF Box
  <2> HIDE DEF B, q
  <2>4. q \in {r \in B : Seen(r[1], r[2])} /\ e = <<q[2] * pitch + q[1], 1>>
    BY <2>2, <2>3
  <2>5. QED
    BY <2>4, ShapeOf
<1>2. ASSUME NEW e \in E PROVE e \in D
  <2>1. PICK q \in {r \in B : Seen(r[1], r[2])} : e = <<q[2] * pitch + q[1], 1>>
    BY ShapeOf
  <2> DEFINE p == <<q[1] - x, q[2] - y>>
  <2>2. p \in (0..(w - 1)) \X (0..(h - 1)) /\ x + p[1] = q[1] /\ y + p[2] = q[2]
    BY DEF Box
  <2>3. e \in PixelAt(x + p[1], y + p[2], 1, pitch)
    <3> HIDE DEF p, B
    <3>1. e = <<(y + p[2]) * pitch + (x + p[1]), 1>> /\ Seen(x + p[1], y + p[2])
      BY <2>1, <2>2
    <3>2. QED
      BY <3>1, Zenon DEF PixelAt
  <2> HIDE DEF p, B
  <2>4. QED
    BY <2>2, <2>3 DEF Rect
<1>3. QED
  <2> HIDE DEF D, E
  <2>1. D = E
    BY <1>1, <1>2
  <2>2. QED
    BY <2>1 DEF D, E

\* vbe_clear is the drawing of the whole screen, and of a column and a row more.
LEMMA ClearDrawn ==
  VbeClear(1) = Shape(Box(0, WIDTH, 0, HEIGHT), PITCH)
<1> DEFINE D == VbeClear(1)
           B == Box(0, WIDTH, 0, HEIGHT)
           E == Shape(B, PITCH)
<1>1. ASSUME NEW e \in D PROVE e \in E
  <2>1. PICK x \in 0..(WIDTH - 1), y \in 0..(HEIGHT - 1) : e = <<y * PITCH + x, 1>>
    BY DEF VbeClear
  <2> DEFINE q == <<x, y>>
  <2>2. q \in B /\ q[1] = x /\ q[2] = y
    BY PixelsAssumption DEF Box
  <2> HIDE DEF B, q
  <2>3. q \in {r \in B : Seen(r[1], r[2])} /\ e = <<q[2] * PITCH + q[1], 1>>
    BY <2>1, <2>2 DEF Seen
  <2>4. QED
    BY <2>3, ShapeOf
<1>2. ASSUME NEW e \in E PROVE e \in D
  <2>1. PICK q \in {r \in B : Seen(r[1], r[2])} : e = <<q[2] * PITCH + q[1], 1>>
    BY ShapeOf
  <2>2. q[1] \in 0..(WIDTH - 1) /\ q[2] \in 0..(HEIGHT - 1)
    BY <2>1 DEF Seen
  <2>3. e = <<q[2] * PITCH + q[1], 1>>
    BY <2>1
  <2>4. QED
    BY <2>2, <2>3 DEF VbeClear
<1>3. QED
  <2> HIDE DEF D, E
  <2>1. D = E
    BY <1>1, <1>2
  <2>2. QED
    BY <2>1 DEF D, E

\* draw_char puts the points of the glyph's set bits.
LEMMA CharDrawn ==
  ASSUME NEW x \in Int, NEW y \in Int
  PROVE  DrawChar(x, y, Glyph, 1)
           = Shape({<<x, y>>, <<x + 1, y + 1>>, <<x + 7, y + 15>>}, PITCH)
<1> DEFINE P == {<<x, y>>, <<x + 1, y + 1>>, <<x + 7, y + 15>>}
           D == DrawChar(x, y, Glyph, 1)
           E == Shape(P, PITCH)
<1>1. ASSUME NEW e \in D PROVE e \in E
  <2>1. PICK p \in Glyph : e \in PixelAt(x + p[2], y + p[1], 1, PITCH)
    BY DEF DrawChar, PutPixel
  <2>2. Seen(x + p[2], y + p[1]) /\ e = <<(y + p[1]) * PITCH + (x + p[2]), 1>>
    BY <2>1, Zenon DEF PixelAt
  <2> DEFINE q == <<x + p[2], y + p[1]>>
  <2>3. q \in P /\ q[1] = x + p[2] /\ q[2] = y + p[1]
    BY DEF Glyph
  <2> HIDE DEF P, q
  <2>4. q \in {r \in P : Seen(r[1], r[2])} /\ e = <<q[2] * PITCH + q[1], 1>>
    BY <2>2, <2>3
  <2>5. QED
    BY <2>4, ShapeOf
<1>2. ASSUME NEW e \in E PROVE e \in D
  <2>1. PICK q \in {r \in P : Seen(r[1], r[2])} : e = <<q[2] * PITCH + q[1], 1>>
    BY ShapeOf
  <2>2. \E p \in Glyph : x + p[2] = q[1] /\ y + p[1] = q[2]
    BY DEF Glyph
  <2>3. PICK p \in Glyph : x + p[2] = q[1] /\ y + p[1] = q[2]
    BY <2>2
  <2>4. e = <<(y + p[1]) * PITCH + (x + p[2]), 1>> /\ Seen(x + p[2], y + p[1])
    BY <2>1, <2>3
  <2>5. e \in PixelAt(x + p[2], y + p[1], 1, PITCH)
    BY <2>4, Zenon DEF PixelAt
  <2>6. QED
    BY <2>5, Zenon DEF DrawChar, PutPixel
<1>3. QED
  <2> HIDE DEF D, E
  <2>1. D = E
    BY <1>1, <1>2
  <2>2. QED
    BY <2>1 DEF D, E

\* buf_rect fills the box between its two corners, whichever way they lie.
LEMMA BufRectDrawn ==
  ASSUME NEW x \in Int, NEW y \in Int, NEW w \in Int, NEW h \in Int
  PROVE  BufRect(x, y, w, h, 1)
           = Shape(Box(Less2(x, x + w), More(x, x + w) - 1,
                         Less2(y, y + h), More(y, y + h) - 1), WIDTH)
<1> DEFINE left == IF w < 0 THEN x + w ELSE x
           top  == IF h < 0 THEN y + h ELSE y
           wide == IF w < 0 THEN -w ELSE w
           high == IF h < 0 THEN -h ELSE h
<1>1. left \in Int /\ top \in Int /\ wide \in Int /\ high \in Int
  OBVIOUS
<1>2. /\ Less2(x, x + w) = left /\ More(x, x + w) - 1 = left + wide - 1
      /\ Less2(y, y + h) = top /\ More(y, y + h) - 1 = top + high - 1
  BY DEF Less2, More
<1>3. BufRect(x, y, w, h, 1) = Rect(left, top, wide, high, 1, WIDTH)
  BY Zenon DEF BufRect
<1> HIDE DEF left, top, wide, high
<1> DEFINE B == Box(left, left + wide - 1, top, top + high - 1)
<1>4. Box(Less2(x, x + w), More(x, x + w) - 1, Less2(y, y + h), More(y, y + h) - 1) = B
  BY <1>2, Zenon
<1>5. BufRect(x, y, w, h, 1) = Shape(B, WIDTH)
  BY <1>1, <1>3, RectDrawn
<1> HIDE DEF B
<1>6. QED
  BY <1>4, <1>5, Zenon

\* flip copies every row of the buffer to its row of the screen.
LEMMA FlipCopies ==
  ASSUME NEW w \in Nat, NEW h \in Nat
  PROVE  Flip(w, h) = Rows(w, h, w, PITCH)
<1> DEFINE D == Flip(w, h)
           E == Rows(w, h, w, PITCH)
<1>1. ASSUME NEW e \in D PROVE e \in E
  <2>1. PICK p \in (0..(w - 1)) \X (0..(h - 1)) : e = <<p[2] * PITCH + p[1], p[2] * w + p[1]>>
    BY DEF Flip
  <2>2. p[1] \in 0..(w - 1) /\ p[2] \in 0..(h - 1)
    OBVIOUS
  <2>3. QED
    BY <2>1, <2>2 DEF Rows
<1>2. ASSUME NEW e \in E PROVE e \in D
  <2>1. PICK x \in 0..(w - 1), y \in 0..(h - 1) : e = <<y * PITCH + x, y * w + x>>
    BY DEF Rows
  <2> DEFINE p == <<x, y>>
  <2>2. p \in (0..(w - 1)) \X (0..(h - 1)) /\ p[1] = x /\ p[2] = y
    OBVIOUS
  <2> HIDE DEF p
  <2>3. QED
    BY <2>1, <2>2 DEF Flip
<1>3. QED
  <2> HIDE DEF D, E
  <2>1. D = E
    BY <1>1, <1>2
  <2>2. QED
    BY <2>1 DEF D, E

-----------------------------------------------------------------------------
(* Colours and the font *)

\* rgb565 keeps the upper bits of each colour in a field of its own.
LEMMA ColourFields ==
  ASSUME NEW b \in 0..255, NEW g \in 0..255, NEW r \in 0..255
  PROVE  Fields565(Rgb565(b, g, r), b, g, r)
<1> DEFINE n == Rgb565(b, g, r)
           i == r \div 8
           j == g \div 4
           k == b \div 8
<1>1. i \in 0..31 /\ j \in 0..63 /\ k \in 0..31 /\ n = i * 2048 + j * 32 + k
  BY SMT DEF Rgb565
<1> HIDE DEF n, i, j, k
<1>2. n \div 2048 = i /\ n \div 32 = i * 64 + j /\ n % 32 = k
  BY <1>1, SMT
<1>3. (i * 64 + j) % 64 = j
  BY <1>1, SMT
<1>4. QED
  BY <1>2, <1>3 DEF Fields565, n, i, j, k

\* The state of the copying before glyph n: n glyphs stand at their slots.
Stands16(n) == Rows(16, n, 16, 32)

\* The bytes of the first n glyphs, one by one.
LEMMA StandsAt ==
  ASSUME NEW n \in Nat
  PROVE  /\ \A e \in Stands16(n) :
              \E c \in 0..(n - 1), row \in 0..15 : e = <<32 * c + row, 16 * c + row>>
         /\ \A c \in 0..(n - 1), row \in 0..15 : <<32 * c + row, 16 * c + row>> \in Stands16(n)
<1>1. Stands16(n) = {<<y * 32 + x, y * 16 + x>> : x \in 0..15, y \in 0..(n - 1)}
  BY DEF Stands16, Rows
<1>2. \A c, row \in Int : <<32 * c + row, 16 * c + row>> = <<c * 32 + row, c * 16 + row>>
  OBVIOUS
<1>3. ASSUME NEW e \in Stands16(n)
      PROVE  \E c \in 0..(n - 1), row \in 0..15 : e = <<32 * c + row, 16 * c + row>>
  <2>1. PICK row \in 0..15, c \in 0..(n - 1) : e = <<c * 32 + row, c * 16 + row>>
    BY <1>1, <1>3
  <2>2. QED
    BY <2>1
<1>4. ASSUME NEW c \in 0..(n - 1), NEW row \in 0..15
      PROVE  <<32 * c + row, 16 * c + row>> \in Stands16(n)
  <2>1. ASSUME NEW e, e = <<32 * c + row, 16 * c + row>> PROVE e \in Stands16(n)
    BY <1>1, <2>1
  <2>2. QED
    BY <2>1
<1>5. QED
  BY <1>3, <1>4

\* register_char copies each glyph to the start of its slot.
LEMMA GlyphsCopied ==
  ASSUME NEW chars \in Nat
  PROVE  RegisterChar(chars, 16, 32) = Rows(16, chars, 16, 32)
<1> DEFINE S == [si : Nat, di : Nat, wrote : SUBSET (Nat \X Nat)]
           start == [si |-> 0, di |-> 0, wrote |-> {}]
           step == [p \in (1..chars) \X S |-> Copied(p[2], 16, 32)]
           A(f) == f = [n \in 0..chars |-> IF n = 0 THEN start ELSE Copied(f[n - 1], 16, 32)]
           after == CHOOSE f : A(f)
<1>1. start \in S
  OBVIOUS
<1>2. ASSUME NEW s \in S PROVE Copied(s, 16, 32) \in S
  BY DEF Copied
<1> HIDE DEF S, start
<1>3. \A k \in 1..chars, s \in S : step[<<k, s>>] = Copied(s, 16, 32) /\ step[<<k, s>>] \in S
  BY <1>2
<1> HIDE DEF step
<1>4. PICK f \in [0..chars -> S] : Path(chars, start, step, f)
  BY <1>1, <1>3, Loops
<1>5. A(f)
  <2> DEFINE g == [n \in 0..chars |-> IF n = 0 THEN start ELSE Copied(f[n - 1], 16, 32)]
  <2>1. \A n \in 0..chars : f[n] = IF n = 0 THEN start ELSE step[<<n, f[n - 1]>>]
    BY <1>4 DEF Path
  <2>2. \A n \in 0..chars : f[n] = g[n]
    <3>1. TAKE n \in 0..chars
    <3>2. n # 0 => n \in 1..chars /\ f[n - 1] \in S
      OBVIOUS
    <3>3. QED
      BY <2>1, <3>2, <1>3
  <2>3. f = g
    BY <2>2
  <2>4. QED
    BY <2>3
<1>6. A(after)
  BY <1>5
<1>7. RegisterChar(chars, 16, 32) = after[chars].wrote
  BY Zenon DEF RegisterChar, start
<1>8. \A n \in 0..chars : after[n] = IF n = 0 THEN start ELSE Copied(after[n - 1], 16, 32)
  BY <1>6
<1> HIDE DEF after
<1> DEFINE At(n) == after[n].si = 16 * n /\ after[n].di = 32 * n /\ after[n].wrote = Stands16(n)
           G == {n \in Nat : n <= chars => At(n)}
<1>9. At(0)
  <2>1. after[0] = start
    BY <1>8
  <2>2. Stands16(0) = {}
    BY StandsAt
  <2>3. start.si = 0 /\ start.di = 0 /\ start.wrote = {}
    BY DEF start
  <2>4. QED
    BY <2>1, <2>2, <2>3
<1>10. ASSUME NEW n \in Nat, At(n), n + 1 <= chars PROVE At(n + 1)
  <2>1. after[n + 1] = Copied(after[n], 16, 32)
    <3>1. n + 1 \in 0..chars /\ n + 1 # 0 /\ (n + 1) - 1 = n
      BY <1>10
    <3>2. QED
      BY <3>1, <1>8
  <2> DEFINE glyph == {<<32 * n + i, 16 * n + i>> : i \in 0..15}
  <2>2. after[n + 1].si = 16 * n + 16 /\ after[n + 1].di = 32 * n + 32
        /\ after[n + 1].wrote = Stands16(n) \union glyph
    <3> DEFINE b == after[n]
    <3>1. /\ Copied(b, 16, 32).si = b.si + 16 /\ Copied(b, 16, 32).di = b.di + 32
          /\ Copied(b, 16, 32).wrote = b.wrote \union {<<b.di + i, b.si + i>> : i \in 0..15}
      BY DEF Copied
    <3>2. b.si = 16 * n /\ b.di = 32 * n /\ b.wrote = Stands16(n)
      BY <1>10
    <3> HIDE DEF b
    <3>3. {<<b.di + i, b.si + i>> : i \in 0..15} = glyph
      BY <3>2
    <3> HIDE DEF glyph
    <3>4. after[n + 1] = Copied(b, 16, 32)
      BY <2>1 DEF b
    <3>5. QED
      BY <3>1, <3>2, <3>3, <3>4, Zenon
  <2>3. Stands16(n + 1) = Stands16(n) \union glyph
    <3>1. ASSUME NEW e \in Stands16(n + 1) PROVE e \in Stands16(n) \union glyph
      <4>0. n + 1 \in Nat /\ (n + 1) - 1 = n
        OBVIOUS
      <4>1. PICK c \in 0..n, row \in 0..15 : e = <<32 * c + row, 16 * c + row>>
        BY <4>0, StandsAt
      <4>2. CASE c = n
        BY <4>1, <4>2
      <4>3. CASE c # n
        <5>1. c \in 0..(n - 1)
          BY <4>3
        <5>2. QED
          BY <4>1, <5>1, StandsAt
      <4>4. QED
        BY <4>2, <4>3
    <3>2. ASSUME NEW c \in 0..n, NEW row \in 0..15
          PROVE  <<32 * c + row, 16 * c + row>> \in Stands16(n + 1)
      <4>1. n + 1 \in Nat /\ (n + 1) - 1 = n
        OBVIOUS
      <4>2. QED
        BY <4>1, StandsAt, Zenon
    <3>3. ASSUME NEW e \in Stands16(n) \union glyph PROVE e \in Stands16(n + 1)
      <4>1. PICK c \in 0..n, row \in 0..15 : e = <<32 * c + row, 16 * c + row>>
        <5>1. CASE e \in Stands16(n)
          BY <5>1, StandsAt
        <5>2. CASE e \in glyph
          BY <5>2
        <5>3. QED
          BY <5>1, <5>2
      <4>2. QED
        BY <4>1, <3>2
    <3>4. QED
      <4> HIDE DEF glyph
      <4>1. QED
        BY <3>1, <3>2, <3>3
  <2> HIDE DEF glyph
  <2>4. 16 * n + 16 = 16 * (n + 1) /\ 32 * n + 32 = 32 * (n + 1)
    OBVIOUS
  <2>5. QED
    BY <2>2, <2>3, <2>4, Zenon
<1> HIDE DEF At
<1>11. Nat \subseteq G
  <2>1. 0 \in G /\ \A n \in Nat : n \in G => n + 1 \in G
    BY <1>9, <1>10
  <2> HIDE DEF G
  <2>2. QED
    BY <2>1, Induction
<1>12. after[chars].wrote = Stands16(chars)
  BY <1>11 DEF At
<1>13. QED
  BY <1>7, <1>12 DEF Stands16

-----------------------------------------------------------------------------
(* Pictures *)

\* A row of a file is its pixels and what makes it a multiple of four bytes.
LEMMA RowPadded ==
  ASSUME NEW w \in Nat
  PROVE  RowBytes(w) = CHOOSE n \in (w * 3)..(w * 3 + 3) : n % 4 = 0
<1> DEFINE k == w * 3
           n == ((k + 3) \div 4) * 4
<1>1. k \in Nat
  OBVIOUS
<1> HIDE DEF k
<1>2. n \in k..(k + 3) /\ n % 4 = 0 /\ \A m \in k..(k + 3) : m % 4 = 0 => m = n
  BY <1>1, SMT
<1> HIDE DEF n
<1>3. n = CHOOSE m \in k..(k + 3) : m % 4 = 0
  BY <1>2
<1>4. QED
  BY <1>3 DEF RowBytes, n, k

\* A column of a picture drawn at a scale, and the column it shows.
LEMMA Magnified ==
  ASSUME NEW w \in Nat, NEW scale \in Nat \ {0}
  PROVE  /\ \A i \in 0..(w - 1), s \in 0..(scale - 1) :
              i * scale + s \in 0..(w * scale - 1) /\ (i * scale + s) \div scale = i
         /\ \A a \in 0..(w * scale - 1) :
              /\ a \div scale \in 0..(w - 1) /\ a % scale \in 0..(scale - 1)
              /\ a = (a \div scale) * scale + (a % scale)
<1>1. ASSUME NEW i \in 0..(w - 1), NEW s \in 0..(scale - 1)
      PROVE  i * scale + s \in 0..(w * scale - 1) /\ (i * scale + s) \div scale = i
  <2>1. i \in Nat
    OBVIOUS
  <2> DEFINE a == i * scale + s
  <2>2. a \in Nat /\ a \div scale = i
    BY <2>1, OneQuotient
  <2>3. PICK k \in Nat : w = i + 1 + k
    <3>1. w - i - 1 \in Nat /\ w = i + 1 + (w - i - 1)
      OBVIOUS
    <3>2. QED
      BY <3>1
  <2>4. w * scale = i * scale + scale + k * scale /\ k * scale \in Nat /\ i * scale \in Nat
    BY <2>1, <2>3
  <2>5. QED
    BY <2>2, <2>4, SMT
<1>2. ASSUME NEW a \in 0..(w * scale - 1)
      PROVE  /\ a \div scale \in 0..(w - 1) /\ a % scale \in 0..(scale - 1)
             /\ a = (a \div scale) * scale + (a % scale)
  <2>1. w * scale \in Nat /\ a \in Nat /\ a < w * scale
    BY SMT
  <2>2. w # 0
    BY <2>1, SMT
  <2>3. a \div scale \in 0..(w - 1)
    BY <2>1, <2>2, QuotientBelow
  <2>4. a % scale \in 0..(scale - 1) /\ a = (a \div scale) * scale + (a % scale)
    BY <2>1, SMT
  <2>5. QED
    BY <2>3, <2>4
<1>3. QED
  BY <1>1, <1>2

\* The pixel of the file shown at a point of the screen.
ShownAt(dx, dy, w, h, scale, p) ==
  Taken(w, h, (p[1] - dx) \div scale, (p[2] - dy) \div scale)

ImageBox(dx, dy, w, h, scale) ==
  Box(dx, dx + w * scale - 1, dy, dy + Lines(h) * scale - 1)

\* draw_bmp_scaled puts every pixel of the file on the points of its square.
LEMMA ScaledDrawn ==
  ASSUME NEW dx \in Int, NEW dy \in Int, NEW w \in Nat, NEW h \in Int, NEW scale \in Nat \ {0}
  PROVE  DrawBmpScaled(dx, dy, w, h, scale)
           = Drawing(ImageBox(dx, dy, w, h, scale),
                     [p \in ImageBox(dx, dy, w, h, scale) |-> ShownAt(dx, dy, w, h, scale, p)],
                     PITCH)
<1> DEFINE n == Lines(h)
           Q == (0..(w - 1)) \X (0..(n - 1))
           R == (0..(scale - 1)) \X (0..(scale - 1))
           B == ImageBox(dx, dy, w, h, scale)
           f == [p \in B |-> ShownAt(dx, dy, w, h, scale, p)]
           D == DrawBmpScaled(dx, dy, w, h, scale)
           E == Drawing(B, f, PITCH)
           X(p, s) == dx + p[1] * scale + s[1]
           Y(p, s) == dy + p[2] * scale + s[2]
           V(p) == Taken(w, h, p[1], p[2])
<1>1. n \in Nat
  BY DEF Lines
<1>2. B = Box(dx, dx + w * scale - 1, dy, dy + n * scale - 1)
  BY DEF ImageBox
<1>3. \A e : e \in D <=> \E p \in Q, s \in R : Seen(X(p, s), Y(p, s)) /\ e = <<Y(p, s) * PITCH + X(p, s), V(p)>>
  <2> HIDE DEF n
  <2>1. \A e : e \in D <=> \E p \in Q, s \in R : e \in PutPixel(X(p, s), Y(p, s), V(p))
    <3> HIDE DEF X, Y, V
    <3>1. QED
      BY DEF DrawBmpScaled, n, X, Y, V
  <2> HIDE DEF D, X, Y, V, Q, R
  <2>2. \A x, y, v, e : e \in PutPixel(x, y, v) <=> Seen(x, y) /\ e = <<y * PITCH + x, v>>
    BY DEF PutPixel, PixelAt
  <2>3. QED
    BY <2>1, <2>2
<1>4. \A e : e \in E <=> \E q \in B : Seen(q[1], q[2]) /\ e = <<q[2] * PITCH + q[1], ShownAt(dx, dy, w, h, scale, q)>>
  <2> HIDE DEF B
  <2>1. QED
    BY DEF Drawing
<1> HIDE DEF n, B, f, D, E
<1>5. ASSUME NEW e \in D PROVE e \in E
  <2>1. PICK p \in Q, s \in R : Seen(X(p, s), Y(p, s)) /\ e = <<Y(p, s) * PITCH + X(p, s), V(p)>>
    BY <1>3
  <2>2. /\ p[1] \in 0..(w - 1) /\ p[2] \in 0..(n - 1)
        /\ s[1] \in 0..(scale - 1) /\ s[2] \in 0..(scale - 1)
    OBVIOUS
  <2> DEFINE a == p[1] * scale + s[1]
             b == p[2] * scale + s[2]
  <2>3. a \in 0..(w * scale - 1) /\ a \div scale = p[1]
    BY <2>2, Magnified
  <2>4. b \in 0..(n * scale - 1) /\ b \div scale = p[2]
    <3>1. \A i \in 0..(n - 1), t \in 0..(scale - 1) :
            i * scale + t \in 0..(n * scale - 1) /\ (i * scale + t) \div scale = i
      BY <1>1, Magnified
    <3>2. QED
      BY <2>2, <3>1, Zenon
  <2>5. X(p, s) = dx + a /\ Y(p, s) = dy + b
    BY <2>2, SMT
  <2> HIDE DEF a, b, X, Y, V
  <2> DEFINE q == <<dx + a, dy + b>>
  <2>6. w * scale \in Nat /\ n * scale \in Nat
    BY <1>1
  <2>7. q \in B /\ q[1] = dx + a /\ q[2] = dy + b /\ q[1] - dx = a /\ q[2] - dy = b
    BY <1>2, <2>3, <2>4, <2>6 DEF Box
  <2> HIDE DEF q
  <2>8. ShownAt(dx, dy, w, h, scale, q) = V(p)
    BY <2>3, <2>4, <2>7 DEF ShownAt, V
  <2>9. Seen(q[1], q[2]) /\ e = <<q[2] * PITCH + q[1], ShownAt(dx, dy, w, h, scale, q)>>
    BY <2>1, <2>5, <2>7, <2>8
  <2>10. QED
    BY <2>7, <2>9, <1>4
<1>6. ASSUME NEW e \in E PROVE e \in D
  <2>1. PICK q \in B : Seen(q[1], q[2]) /\ e = <<q[2] * PITCH + q[1], ShownAt(dx, dy, w, h, scale, q)>>
    BY <1>4
  <2> DEFINE a == q[1] - dx
             b == q[2] - dy
  <2>2. w * scale \in Nat /\ n * scale \in Nat
    BY <1>1
  <2>3. a \in 0..(w * scale - 1) /\ b \in 0..(n * scale - 1) /\ q[1] = dx + a /\ q[2] = dy + b
    BY <1>2, <2>2 DEF Box
  <2> HIDE DEF a, b
  <2> DEFINE p == <<a \div scale, b \div scale>>
             s == <<a % scale, b % scale>>
  <2>4. /\ a \div scale \in 0..(w - 1) /\ a % scale \in 0..(scale - 1)
        /\ a = (a \div scale) * scale + (a % scale)
    BY <2>3, Magnified
  <2>5. /\ b \div scale \in 0..(n - 1) /\ b % scale \in 0..(scale - 1)
        /\ b = (b \div scale) * scale + (b % scale)
    BY <1>1, <2>3, Magnified
  <2>6. p \in Q /\ s \in R /\ a = p[1] * scale + s[1] /\ b = p[2] * scale + s[2]
        /\ p[1] = a \div scale /\ p[2] = b \div scale
    BY <2>4, <2>5
  <2>7. p[1] * scale \in Int /\ p[2] * scale \in Int /\ s[1] \in Int /\ s[2] \in Int
    BY <2>6
  <2>8. ShownAt(dx, dy, w, h, scale, q) = V(p)
    BY <2>6 DEF ShownAt, a, b
  <2> HIDE DEF p, s, V
  <2>9. X(p, s) = q[1] /\ Y(p, s) = q[2]
    BY <2>3, <2>6, <2>7
  <2> HIDE DEF X, Y
  <2>10. Seen(X(p, s), Y(p, s)) /\ e = <<Y(p, s) * PITCH + X(p, s), V(p)>>
    BY <2>1, <2>8, <2>9
  <2>11. QED
    BY <2>6, <2>10, <1>3
<1>7. D = E
  BY <1>5, <1>6
<1>8. QED
  BY <1>7 DEF D, E, f, B

-----------------------------------------------------------------------------
(* Lines *)

\* A line of a steps along its longer side and b across: j counts the steps
\* across and e is err, seen from the longer side.
Steps(a, b, j, e) ==
  /\ j[0] = 0 /\ e[0] = a - b
  /\ \A k \in 0..(a - 1) :
       /\ j[k + 1] = IF 2 * e[k] < a THEN j[k] + 1 ELSE j[k]
       /\ e[k + 1] = e[k] - b + (IF 2 * e[k] < a THEN a ELSE 0)

\* The counting of the steps of a line is a pair of functions.
LEMMA StepsExist ==
  ASSUME NEW a \in Nat, NEW b \in Nat
  PROVE  \E j \in [0..a -> Int], e \in [0..a -> Int] : Steps(a, b, j, e)
<1> DEFINE S == Int \X Int
           nx(s) == IF 2 * s[2] < a THEN <<s[1] + 1, s[2] - b + a>> ELSE <<s[1], s[2] - b>>
           step == [p \in (1..a) \X S |-> nx(p[2])]
           s0 == <<0, a - b>>
<1>1. s0 \in S /\ \A s \in S : nx(s) \in S
  OBVIOUS
<1>2. \A k \in 1..a, s \in S : step[<<k, s>>] = nx(s) /\ step[<<k, s>>] \in S
  <2> HIDE DEF S, nx
  <2>1. QED
    BY <1>1
<1> HIDE DEF step, s0
<1>3. PICK f \in [0..a -> S] : Path(a, s0, step, f)
  BY <1>1, <1>2, Loops
<1> DEFINE j == [k \in 0..a |-> f[k][1]]
           e == [k \in 0..a |-> f[k][2]]
<1>4. j \in [0..a -> Int] /\ e \in [0..a -> Int]
  OBVIOUS
<1>5. j[0] = 0 /\ e[0] = a - b
  <2>1. f[0] = s0
    BY <1>3 DEF Path
  <2>2. QED
    BY <2>1 DEF s0
<1>6. ASSUME NEW k \in 0..(a - 1)
      PROVE  /\ j[k + 1] = IF 2 * e[k] < a THEN j[k] + 1 ELSE j[k]
             /\ e[k + 1] = e[k] - b + (IF 2 * e[k] < a THEN a ELSE 0)
  <2>1. k + 1 \in 0..a /\ k + 1 # 0 /\ k + 1 \in 1..a /\ (k + 1) - 1 = k /\ k \in 0..a
    OBVIOUS
  <2>2. f[k] \in S
    BY <2>1
  <2>3. f[k + 1] = nx(f[k])
    <3>1. f[k + 1] = step[<<k + 1, f[k]>>]
      BY <1>3, <2>1 DEF Path
    <3> HIDE DEF nx, S
    <3>2. QED
      BY <1>2, <2>1, <2>2, <3>1
  <2>4. j[k] = f[k][1] /\ e[k] = f[k][2] /\ j[k + 1] = f[k + 1][1] /\ e[k + 1] = f[k + 1][2]
    BY <2>1
  <2> HIDE DEF j, e
  <2>5. QED
    BY <2>2, <2>3, <2>4
<1>7. Steps(a, b, j, e)
  <2> HIDE DEF j, e
  <2>1. QED
    BY <1>5, <1>6 DEF Steps
<1>8. QED
  <2> HIDE DEF j, e
  <2>1. QED
    BY <1>4, <1>7

\* err is what is left of the way, and stays in a band of two lengths: a step
\* along is always taken, and the points keep to the line.
Band(a, b, k, j, e) ==
  /\ e = a - b - k * b + j * a
  /\ a - 2 * b <= 2 * e /\ 2 * e < 3 * a - 2 * b
  /\ a = b => e = 0

\* err stays in its band all the way.
LEMMA BandKept ==
  ASSUME NEW a \in Nat, NEW b \in Nat, b <= a, 0 < a,
         NEW j \in [0..a -> Int], NEW e \in [0..a -> Int], Steps(a, b, j, e)
  PROVE  \A k \in 0..a : Band(a, b, k, j[k], e[k])
<1> DEFINE Good(k) == k <= a => Band(a, b, k, j[k], e[k])
           T == {k \in Nat : Good(k)}
<1>1. Good(0)
  BY DEF Steps, Band
<1>2. ASSUME NEW k \in Nat, Good(k) PROVE Good(k + 1)
  <2>1. SUFFICES ASSUME k + 1 <= a PROVE Band(a, b, k + 1, j[k + 1], e[k + 1])
    OBVIOUS
  <2>2. k \in 0..(a - 1) /\ k \in 0..a /\ k + 1 \in 0..a
    BY <2>1
  <2>3. Band(a, b, k, j[k], e[k])
    BY <1>2, <2>2
  <2>4. /\ j[k + 1] = IF 2 * e[k] < a THEN j[k] + 1 ELSE j[k]
        /\ e[k + 1] = e[k] - b + (IF 2 * e[k] < a THEN a ELSE 0)
    BY <2>2 DEF Steps
  <2> DEFINE j0 == j[k]
             e0 == e[k]
             j1 == j[k + 1]
             e1 == e[k + 1]
  <2>5. j0 \in Int /\ e0 \in Int
    BY <2>2
  <2> HIDE DEF j0, e0, j1, e1
  <2>6. (k + 1) * b = k * b + b /\ (j0 + 1) * a = j0 * a + a /\ k * b \in Int /\ j0 * a \in Int
    BY <2>5
  <2>7. CASE 2 * e0 < a
    <3>1. j1 = j0 + 1 /\ e1 = e0 - b + a
      BY <2>4, <2>7 DEF j0, e0, j1, e1
    <3>2. Band(a, b, k, j0, e0)
      BY <2>3 DEF j0, e0
    <3>3. Band(a, b, k + 1, j1, e1)
      BY <2>5, <2>6, <2>7, <3>1, <3>2 DEF Band
    <3>4. QED
      BY <3>3 DEF j1, e1
  <2>8. CASE ~(2 * e0 < a)
    <3>1. j1 = j0 /\ e1 = e0 - b
      BY <2>4, <2>5, <2>8 DEF j0, e0, j1, e1
    <3>2. Band(a, b, k, j0, e0)
      BY <2>3 DEF j0, e0
    <3>3. Band(a, b, k + 1, j1, e1)
      BY <2>5, <2>6, <2>8, <3>1, <3>2 DEF Band
    <3>4. QED
      BY <3>3 DEF j1, e1
  <2>9. QED
    BY <2>7, <2>8
<1> HIDE DEF Good
<1>3. Nat \subseteq T
  <2>1. 0 \in T
    BY <1>1
  <2>2. \A k \in Nat : k \in T => k + 1 \in T
    BY <1>2
  <2> HIDE DEF T
  <2>3. QED
    BY <2>1, <2>2, Induction
<1>4. QED
  BY <1>3 DEF Good

\* The whole way: the steps across come to b with the last step along, a step
\* along is taken every time, and no point is off by more than half a step.
Straight(a, b, j, e) ==
  /\ Steps(a, b, j, e) /\ j[a] = b
  /\ \A k \in 0..(a - 1) : 2 * e[k] > -b
  /\ \A k \in 0..a : -a <= 2 * (k * b - j[k] * a) /\ 2 * (k * b - j[k] * a) <= a

\* Every line that is no steeper than level goes straight.
LEMMA StraightExists ==
  ASSUME NEW a \in Nat, NEW b \in Nat, b <= a
  PROVE  \E j \in [0..a -> Int], e \in [0..a -> Int] : Straight(a, b, j, e)
<1>1. PICK j \in [0..a -> Int], e \in [0..a -> Int] : Steps(a, b, j, e)
  BY StepsExist
<1>2. CASE a = 0
  <2>1. b = 0 /\ j[0] = 0
    BY <1>1, <1>2 DEF Steps
  <2>2. 0..a = {0} /\ 0..(a - 1) = {}
    BY <1>2
  <2>3. Straight(a, b, j, e)
    BY <1>1, <1>2, <2>1, <2>2 DEF Straight
  <2>4. QED
    BY <2>3
<1>3. CASE 0 < a
  <2>1. \A k \in 0..a : Band(a, b, k, j[k], e[k])
    BY <1>1, <1>3, BandKept
  <2>2. ASSUME NEW k \in 0..a
        PROVE  /\ 2 * e[k] > -b
               /\ -a < 2 * (k * b - j[k] * a) /\ 2 * (k * b - j[k] * a) <= a
    <3> DEFINE i == j[k]
               d == e[k]
    <3>1. i \in Int /\ d \in Int /\ Band(a, b, k, i, d)
      BY <2>1
    <3> HIDE DEF i, d
    <3>2. k * b \in Int /\ i * a \in Int
      BY <3>1
    <3>3. /\ 2 * d > -b
          /\ -a < 2 * (k * b - i * a) /\ 2 * (k * b - i * a) <= a
      BY <3>1, <3>2 DEF Band
    <3>4. QED
      BY <3>3 DEF i, d
  <2>3. j[a] = b
    <3> DEFINE i == j[a]
               u == b - i
    <3>1. i \in Int /\ a \in 0..a
      BY <1>3
    <3>2. -a < 2 * (a * b - i * a) /\ 2 * (a * b - i * a) <= a
      BY <2>2, <3>1
    <3> HIDE DEF i
    <3>3. u \in Int /\ a * b - i * a = u * a
      BY <3>1
    <3> HIDE DEF u
    <3>4. ~(u >= 1)
      <4>1. SUFFICES ASSUME u >= 1 PROVE FALSE
        OBVIOUS
      <4>2. u * a = a + (u - 1) * a /\ (u - 1) * a \in Nat
        BY <3>3, <4>1
      <4>3. QED
        BY <1>3, <3>2, <3>3, <4>2
    <3>5. ~(u <= -1)
      <4>1. SUFFICES ASSUME u <= -1 PROVE FALSE
        OBVIOUS
      <4>2. u * a = -a - (-1 - u) * a /\ (-1 - u) * a \in Nat
        BY <3>3, <4>1
      <4>3. QED
        BY <1>3, <3>2, <3>3, <4>2
    <3>6. u = 0
      BY <3>3, <3>4, <3>5
    <3>7. QED
      BY <3>1, <3>6 DEF i, u
  <2>4. \A k \in 0..(a - 1) : k \in 0..a
    OBVIOUS
  <2>5. Straight(a, b, j, e)
    <3>1. ASSUME NEW k \in 0..a
          PROVE  -a <= 2 * (k * b - j[k] * a) /\ 2 * (k * b - j[k] * a) <= a
      <4> DEFINE d == 2 * (k * b - j[k] * a)
      <4>1. k * b \in Int /\ j[k] \in Int
        OBVIOUS
      <4>2. d \in Int /\ -a < d /\ d <= a
        BY <2>2, <4>1
      <4> HIDE DEF d
      <4>3. -a <= d /\ d <= a
        BY <4>2
      <4>4. QED
        BY <4>3 DEF d
    <3>2. QED
      BY <1>1, <2>2, <2>3, <2>4, <3>1 DEF Straight
  <2>6. QED
    BY <2>5
<1>4. a = 0 \/ 0 < a
  OBVIOUS
<1>5. QED
  BY <1>2, <1>3, <1>4, Zenon

Turn == [x : Int, y : Int, err : Int]

\* A turn leads to a turn.
LEMMA LineStepType ==
  ASSUME NEW s \in Turn, NEW dx \in Int, NEW dy \in Int, NEW sx \in Int, NEW sy \in Int
  PROVE  LineStep(s, dx, dy, sx, sy) \in Turn
BY DEF LineStep, Turn

\* A path of n turns from the start of the line to its end.
Drawn(q, n, x0, y0, x1, y1) ==
  /\ q[0] = [x |-> x0, y |-> y0, err |-> Gap(x0, x1) - Gap(y0, y1)]
  /\ \A k \in 0..(n - 1) :
       /\ ~(q[k].x = x1 /\ q[k].y = y1)
       /\ q[k + 1] = LineStep(q[k], Gap(x0, x1), Gap(y0, y1), Toward(x0, x1), Toward(y0, y1))
  /\ q[n].x = x1 /\ q[n].y = y1

Dots(q, n) == {<<q[k].x, q[k].y>> : k \in 0..n}

\* A path of turns from the first to the end of the line has the line's points.
LEMMA PointsOfPath ==
  ASSUME NEW x0 \in Int, NEW y0 \in Int, NEW x1 \in Int, NEW y1 \in Int,
         NEW n \in Nat, NEW q \in [0..n -> Turn], Drawn(q, n, x0, y0, x1, y1)
  PROVE  Points(x0, y0, x1, y1) = Dots(q, n)
<1> DEFINE dx == Gap(x0, x1)
           dy == Gap(y0, y1)
           sx == Toward(x0, x1)
           sy == Toward(y0, y1)
<1>0. dx \in Int /\ dy \in Int /\ sx \in Int /\ sy \in Int
  BY DEF Gap, Toward
<1> DEFINE own == [s \in Turn |-> <<s.x, s.y>>]
           stop == {s \in Turn : s.x = x1 /\ s.y = y1}
           next == [s \in Turn |-> LineStep(s, dx, dy, sx, sy)]
           A(F) == F = [s \in Turn |->
                     {<<s.x, s.y>>} \union
                       IF s.x = x1 /\ s.y = y1 THEN {} ELSE F[LineStep(s, dx, dy, sx, sy)]]
           From == CHOOSE F : A(F)
<1> HIDE DEF dx, dy, sx, sy
<1>1. own \in [Turn -> Int \X Int] /\ next \in [Turn -> Turn]
  <2>1. \A s \in Turn : <<s.x, s.y>> \in Int \X Int
    BY DEF Turn
  <2>2. \A s \in Turn : LineStep(s, dx, dy, sx, sy) \in Turn
    BY <1>0, LineStepType
  <2>3. QED
    BY <2>1, <2>2
<1>2. \A s \in Turn : /\ own[s] = <<s.x, s.y>> /\ next[s] = LineStep(s, dx, dy, sx, sy)
                      /\ (s \in stop <=> s.x = x1 /\ s.y = y1)
  OBVIOUS
<1> HIDE DEF own, stop, next
<1>3. \A F : Written(Turn, own, stop, next, F) <=> A(F)
  <2>1. ASSUME NEW F
        PROVE  [s \in Turn |-> {own[s]} \union (IF s \in stop THEN {} ELSE F[next[s]])]
                 = [s \in Turn |-> {<<s.x, s.y>>} \union
                       IF s.x = x1 /\ s.y = y1 THEN {} ELSE F[LineStep(s, dx, dy, sx, sy)]]
    BY <1>2
  <2>2. QED
    BY <2>1 DEF Written
<1> HIDE DEF A
<1>4. \E F : A(F)
  <2>1. \E F \in [Turn -> SUBSET (Int \X Int)] : Written(Turn, own, stop, next, F)
    BY <1>1, LoopsWrite, Zenon
  <2>2. QED
    BY <1>3, <2>1, Zenon
<1>5. Written(Turn, own, stop, next, From)
  BY <1>3, <1>4
<1>6. Points(x0, y0, x1, y1) = From[[x |-> x0, y |-> y0, err |-> dx - dy]]
  BY DEF Points, Turn, A, dx, dy, sx, sy
<1> HIDE DEF From
<1>7. From[q[0]] = Along(own, q, n)
  <2>1. \A k \in 0..n : q[k] \in Turn
    OBVIOUS
  <2>2. \A k \in 0..(n - 1) : k \in 0..n
    OBVIOUS
  <2>3. \A k \in 0..(n - 1) : q[k] \notin stop /\ next[q[k]] = q[k + 1]
    BY <1>2, <2>1, <2>2 DEF Drawn, dx, dy, sx, sy
  <2>4. q[n] \in stop
    BY <1>2, <2>1 DEF Drawn
  <2>5. Goes(q, n, stop, next)
    BY <2>3, <2>4 DEF Goes
  <2>6. QED
    BY <1>5, <2>5, LoopWrites
<1>8. Along(own, q, n) = {<<q[k].x, q[k].y>> : k \in 0..n}
  <2>1. \A k \in 0..n : own[q[k]] = <<q[k].x, q[k].y>>
    BY <1>2
  <2> HIDE DEF own
  <2>2. \A e : e \in Along(own, q, n) <=> \E k \in 0..n : e = own[q[k]]
    BY DEF Along
  <2>3. ASSUME NEW e PROVE e \in Along(own, q, n) <=> e \in {<<q[k].x, q[k].y>> : k \in 0..n}
    <3>1. e \in {<<q[k].x, q[k].y>> : k \in 0..n} <=> \E k \in 0..n : e = <<q[k].x, q[k].y>>
      OBVIOUS
    <3>2. (\E k \in 0..n : e = own[q[k]]) <=> (\E k \in 0..n : e = <<q[k].x, q[k].y>>)
      BY <2>1, Zenon
    <3>3. QED
      BY <2>2, <3>1, <3>2, Zenon
  <2>4. QED
    BY <2>3, Zenon
<1>9. q[0] = [x |-> x0, y |-> y0, err |-> dx - dy]
  BY DEF Drawn, dx, dy
<1>10. QED
  BY <1>6, <1>7, <1>8, <1>9 DEF Dots

\* How far and which way a coordinate goes.
LEMMA Reaches ==
  ASSUME NEW u \in Int, NEW v \in Int
  PROVE  /\ Gap(u, v) \in Nat /\ Toward(u, v) \in {1, -1} /\ Gap(u, v) = Abs(v - u)
         /\ v - u = Toward(u, v) * Gap(u, v)
BY DEF Gap, Toward, Abs

Sign == {1, -1}

Off(s, t, a, b, k, j) == Abs((s * k) * (t * b) - (t * j) * (s * a))

\* A product of signs drops out of how far a point is off.
LEMMA SignsOut ==
  ASSUME NEW s \in Sign, NEW t \in Sign, NEW a \in Int, NEW b \in Int, NEW k \in Int, NEW j \in Int
  PROVE  Off(s, t, a, b, k, j) = Abs(k * b - j * a)
<1> DEFINE m == k * b
           n == j * a
<1>1. m \in Int /\ n \in Int
  OBVIOUS
<1>2. CASE s = 1 /\ t = 1
  BY <1>2 DEF Off
<1>3. CASE s = 1 /\ t = -1
  <2>1. (s * k) * (t * b) = -m /\ (t * j) * (s * a) = -n
    BY <1>3
  <2> HIDE DEF m, n
  <2>2. Abs((-m) - (-n)) = Abs(m - n)
    BY <1>1 DEF Abs
  <2>3. QED
    BY <2>1, <2>2 DEF m, n, Off
<1>4. CASE s = -1 /\ t = 1
  <2>1. (s * k) * (t * b) = -m /\ (t * j) * (s * a) = -n
    BY <1>4
  <2> HIDE DEF m, n
  <2>2. Abs((-m) - (-n)) = Abs(m - n)
    BY <1>1 DEF Abs
  <2>3. QED
    BY <2>1, <2>2 DEF m, n, Off
<1>5. CASE s = -1 /\ t = -1
  <2>1. (s * k) * (t * b) = m /\ (t * j) * (s * a) = n
    BY <1>5
  <2>2. QED
    BY <2>1 DEF Off
<1>6. QED
  BY <1>2, <1>3, <1>4, <1>5 DEF Sign

\* What is said of the points of a path: there are as many as the longer side
\* has, no two are the same, and they keep to the line.
Lies(q, n, x0, y0, x1, y1) ==
  /\ n = More(Abs(x1 - x0), Abs(y1 - y0))
  /\ \A k, m \in 0..n : q[k].x = q[m].x /\ q[k].y = q[m].y => k = m
  /\ \A k \in 0..n :
       2 * Abs((q[k].x - x0) * (y1 - y0) - (q[k].y - y0) * (x1 - x0)) <= n

\* What is said of a path of turns is said of the points of the line.
LEMMA RuledOf ==
  ASSUME NEW x0 \in Int, NEW y0 \in Int, NEW x1 \in Int, NEW y1 \in Int,
         NEW n \in Nat, NEW q \in [0..n -> Turn],
         Drawn(q, n, x0, y0, x1, y1), Lies(q, n, x0, y0, x1, y1)
  PROVE  Ruled(Points(x0, y0, x1, y1), x0, y0, x1, y1)
<1> DEFINE p == [k \in 0..n |-> <<q[k].x, q[k].y>>]
           R == {p[k] : k \in 0..n}
<1>1. Points(x0, y0, x1, y1) = R
  <2>1. Points(x0, y0, x1, y1) = Dots(q, n)
    BY PointsOfPath
  <2>2. QED
    BY <2>1 DEF Dots
<1>2. Cardinality(R) = n + 1
  <2>1. \A k, m \in 0..n : p[k] = p[m] => k = m
    BY DEF Lies
  <2> HIDE DEF p
  <2>2. QED
    BY <2>1, Counted
<1>3. <<x0, y0>> \in R /\ <<x1, y1>> \in R
  <2>1. 0 \in 0..n /\ n \in 0..n
    OBVIOUS
  <2>2. p[0] = <<x0, y0>> /\ p[n] = <<x1, y1>>
    BY <2>1 DEF Drawn
  <2> HIDE DEF p
  <2>3. QED
    BY <2>1, <2>2
<1>4. ASSUME NEW r \in R
      PROVE  2 * Abs((r[1] - x0) * (y1 - y0) - (r[2] - y0) * (x1 - x0)) <= n
  <2>1. PICK k \in 0..n : r = p[k]
    OBVIOUS
  <2>2. r[1] = q[k].x /\ r[2] = q[k].y
    BY <2>1
  <2>3. 2 * Abs((q[k].x - x0) * (y1 - y0) - (q[k].y - y0) * (x1 - x0)) <= n
    BY DEF Lies
  <2>4. QED
    BY <2>2, <2>3, Zenon
<1>5. More(Abs(x1 - x0), Abs(y1 - y0)) = n
  BY DEF Lies
<1> HIDE DEF R
<1>6. QED
  BY <1>1, <1>2, <1>3, <1>4, <1>5 DEF Ruled

\* A line that is no steeper than level is a path of turns.
LEMMA WidePath ==
  ASSUME NEW x0 \in Int, NEW y0 \in Int, NEW x1 \in Int, NEW y1 \in Int, Gap(y0, y1) <= Gap(x0, x1)
  PROVE  \E n \in Nat : \E q \in [0..n -> Turn] :
           Drawn(q, n, x0, y0, x1, y1) /\ Lies(q, n, x0, y0, x1, y1)
<1> DEFINE a == Gap(x0, x1)
           b == Gap(y0, y1)
           s == Toward(x0, x1)
           t == Toward(y0, y1)
<1>1. /\ a \in Nat /\ b \in Nat /\ b <= a /\ s \in {1, -1} /\ t \in {1, -1}
      /\ x1 - x0 = s * a /\ y1 - y0 = t * b /\ a = Abs(x1 - x0) /\ b = Abs(y1 - y0)
  BY Reaches
<1>2. a = Gap(x0, x1) /\ b = Gap(y0, y1) /\ s = Toward(x0, x1) /\ t = Toward(y0, y1)
  OBVIOUS
<1> HIDE DEF a, b, s, t
<1>0. a \in Int /\ b \in Int /\ s \in Int /\ t \in Int
  BY <1>1
<1>3. PICK j \in [0..a -> Int], e \in [0..a -> Int] : Straight(a, b, j, e)
  BY <1>1, StraightExists
<1> DEFINE q == [k \in 0..a |-> [x |-> x0 + s * k, y |-> y0 + t * j[k], err |-> e[k]]]
<1>4. \A k \in 0..a : q[k].x = x0 + s * k /\ q[k].y = y0 + t * j[k] /\ q[k].err = e[k]
  OBVIOUS
<1>5. q \in [0..a -> Turn]
  <2>1. \A k \in 0..a : x0 + s * k \in Int /\ y0 + t * j[k] \in Int /\ e[k] \in Int
    BY <1>0
  <2>2. QED
    BY <2>1 DEF Turn
<1>6. q[0] = [x |-> x0, y |-> y0, err |-> a - b]
  <2>1. 0 \in 0..a /\ s * 0 = 0 /\ t * 0 = 0 /\ j[0] = 0 /\ e[0] = a - b
    BY <1>1, <1>3 DEF Straight, Steps
  <2>2. x0 + s * 0 = x0 /\ y0 + t * j[0] = y0
    BY <2>1
  <2>3. QED
    BY <2>1, <2>2
<1>7. q[a].x = x1 /\ q[a].y = y1
  <2>1. a \in 0..a /\ j[a] = b
    BY <1>1, <1>3 DEF Straight
  <2>2. q[a].x = x0 + s * a /\ q[a].y = y0 + t * b
    BY <1>4, <2>1
  <2>3. s * a \in Int /\ t * b \in Int
    BY <1>1
  <2>4. QED
    BY <1>1, <2>2, <2>3
<1>8. \A k, m \in 0..a : q[k].x = q[m].x => k = m
  <2>1. \A k, m \in 0..a : x0 + s * k = x0 + s * m => k = m
    <3>1. CASE s = 1
      BY <1>1, <3>1
    <3>2. CASE s = -1
      BY <1>1, <3>2
    <3>3. QED
      BY <1>1, <3>1, <3>2
  <2> HIDE DEF q
  <2>2. QED
    BY <1>4, <2>1
<1>9. ASSUME NEW k \in 0..(a - 1)
      PROVE  ~(q[k].x = x1 /\ q[k].y = y1) /\ q[k + 1] = LineStep(q[k], a, b, s, t)
  <2>1. k \in 0..a /\ k + 1 \in 0..a /\ a \in 0..a /\ k # a
    BY <1>0
  <2>2. q[k].x # x1
    BY <1>7, <1>8, <2>1
  <2>3. /\ 2 * e[k] > -b
        /\ j[k + 1] = IF 2 * e[k] < a THEN j[k] + 1 ELSE j[k]
        /\ e[k + 1] = e[k] - b + (IF 2 * e[k] < a THEN a ELSE 0)
    BY <1>3 DEF Straight, Steps
  <2>4. q[k + 1] = [x |-> x0 + s * (k + 1), y |-> y0 + t * j[k + 1], err |-> e[k + 1]]
    BY <2>1
  <2> DEFINE i == j[k]
             d == e[k]
  <2>5. i \in Int /\ d \in Int
    BY <2>1
  <2>6. q[k].x = x0 + s * k /\ q[k].y = y0 + t * i /\ q[k].err = d
    BY <1>4, <2>1
  <2> HIDE DEF i, d, q
  <2>7. s * (k + 1) = s * k + s /\ t * (i + 1) = t * i + t /\ s * k \in Int /\ t * i \in Int
    BY <1>1, <2>1, <2>5
  <2>8. LineStep(q[k], a, b, s, t) = [x |-> x0 + s * (k + 1), y |-> y0 + t * j[k + 1], err |-> e[k + 1]]
    <3>1. CASE 2 * d < a
      <4>1. LineStep(q[k], a, b, s, t)
              = [x |-> q[k].x + s, y |-> q[k].y + t, err |-> q[k].err - b + a]
        BY <2>3, <2>6, <3>1 DEF LineStep, d
      <4>2. j[k + 1] = i + 1 /\ e[k + 1] = d - b + a
        BY <2>3, <3>1 DEF i, d
      <4>3. x0 + s * k + s = x0 + s * (k + 1) /\ y0 + t * i + t = y0 + t * (i + 1)
        BY <1>1, <2>7
      <4>4. QED
        BY <4>1, <4>2, <4>3, <2>6
    <3>2. CASE ~(2 * d < a)
      <4>1. LineStep(q[k], a, b, s, t)
              = [x |-> q[k].x + s, y |-> q[k].y, err |-> q[k].err - b + 0]
        BY <2>3, <2>6, <3>2 DEF LineStep, d
      <4>2. j[k + 1] = i /\ e[k + 1] = d - b + 0
        BY <2>3, <3>2 DEF i, d
      <4>3. x0 + s * k + s = x0 + s * (k + 1)
        BY <1>1, <2>7
      <4>4. QED
        BY <4>1, <4>2, <4>3, <2>6
    <3>3. QED
      BY <3>1, <3>2
  <2>9. QED
    BY <2>2, <2>4, <2>8
<1>10. Drawn(q, a, x0, y0, x1, y1)
  <2> HIDE DEF q
  <2>1. QED
    BY <1>2, <1>6, <1>7, <1>9 DEF Drawn
<1>11. ASSUME NEW k \in 0..a
       PROVE  2 * Abs((q[k].x - x0) * (y1 - y0) - (q[k].y - y0) * (x1 - x0)) <= a
  <2> DEFINE i == j[k]
  <2>1. q[k].x = x0 + s * k /\ q[k].y = y0 + t * i
    BY <1>4
  <2> HIDE DEF q
  <2>2. i \in Int /\ k \in Int
    OBVIOUS
  <2>3. -a <= 2 * (k * b - i * a) /\ 2 * (k * b - i * a) <= a
    BY <1>3 DEF Straight
  <2> HIDE DEF i
  <2>4. s * k \in Int /\ t * i \in Int
    BY <1>0, <2>2
  <2>5. q[k].x - x0 = s * k /\ q[k].y - y0 = t * i
    BY <2>1, <2>4
  <2>6. Abs((s * k) * (t * b) - (t * i) * (s * a)) = Abs(k * b - i * a)
    <3>1. s \in Sign /\ t \in Sign
      BY <1>1 DEF Sign
    <3>2. Off(s, t, a, b, k, i) = Abs(k * b - i * a)
      <4>1. a \in Int /\ b \in Int /\ k \in Int /\ i \in Int
        BY <1>0, <2>2
      <4>2. \A c, d, f, g \in Int : Off(s, t, c, d, f, g) = Abs(f * d - g * c)
        BY <3>1, SignsOut, Zenon
      <4>3. QED
        BY <4>1, <4>2, Zenon
    <3>3. QED
      BY <3>2 DEF Off
  <2>7. 2 * Abs(k * b - i * a) <= a
    <3> DEFINE c == k * b - i * a
    <3>1. c \in Int
      BY <1>0, <2>2
    <3>2. -a <= 2 * c /\ 2 * c <= a
      BY <2>3
    <3> HIDE DEF c
    <3>3. 2 * Abs(c) <= a
      BY <1>0, <3>1, <3>2 DEF Abs
    <3>4. QED
      BY <3>3 DEF c
  <2>8. QED
    BY <1>1, <2>5, <2>6, <2>7
<1>12. More(Abs(x1 - x0), Abs(y1 - y0)) = a
  BY <1>1 DEF More
<1> HIDE DEF q
<1>13. Lies(q, a, x0, y0, x1, y1)
  BY <1>8, <1>11, <1>12 DEF Lies
<1>14. QED
  BY <1>1, <1>5, <1>10, <1>13

\* The same turn with the two sides exchanged.
Swapped(s) == [x |-> s.y, y |-> s.x, err |-> -s.err]

\* Exchanging the sides of a turn exchanges those of the next one.
LEMMA SwappedStep ==
  ASSUME NEW s \in Turn, NEW dx \in Int, NEW dy \in Int, NEW sx \in Int, NEW sy \in Int
  PROVE  Swapped(LineStep(s, dx, dy, sx, sy)) = LineStep(Swapped(s), dy, dx, sy, sx)
<1> DEFINE e == s.err
<1>1. s.x \in Int /\ s.y \in Int /\ e \in Int
  BY DEF Turn
<1>2. (2 * e > -dy <=> 2 * (-e) < dy) /\ (2 * e < dx <=> 2 * (-e) > -dx)
  BY <1>1
<1>3. \A u, v \in BOOLEAN :
        -(e - (IF u THEN dy ELSE 0) + (IF v THEN dx ELSE 0))
          = -e - (IF v THEN dx ELSE 0) + (IF u THEN dy ELSE 0)
  BY <1>1
<1>4. QED
  BY <1>1, <1>2, <1>3 DEF Swapped, LineStep

\* A path for the exchanged line gives one for the line.
LEMMA SwappedPath ==
  ASSUME NEW x0 \in Int, NEW y0 \in Int, NEW x1 \in Int, NEW y1 \in Int,
         NEW n \in Nat, NEW r \in [0..n -> Turn],
         Drawn(r, n, y0, x0, y1, x1), Lies(r, n, y0, x0, y1, x1)
  PROVE  \E q \in [0..n -> Turn] : Drawn(q, n, x0, y0, x1, y1) /\ Lies(q, n, x0, y0, x1, y1)
<1> DEFINE q == [k \in 0..n |-> Swapped(r[k])]
           dx == Gap(x0, x1)
           dy == Gap(y0, y1)
           sx == Toward(x0, x1)
           sy == Toward(y0, y1)
<1>1. dx \in Int /\ dy \in Int /\ sx \in Int /\ sy \in Int
  BY DEF Gap, Toward
<1>2. \A k \in 0..n : /\ r[k] \in Turn /\ q[k] = Swapped(r[k]) /\ q[k] \in Turn
                       /\ q[k].x = r[k].y /\ q[k].y = r[k].x
  BY DEF Swapped, Turn
<1>3. q \in [0..n -> Turn]
  BY <1>2
<1>4. Drawn(q, n, x0, y0, x1, y1)
  <2>1. q[0] = [x |-> x0, y |-> y0, err |-> dx - dy]
    <3>1. r[0] = [x |-> y0, y |-> x0, err |-> dy - dx] /\ q[0] = Swapped(r[0])
      BY <1>2 DEF Drawn
    <3> HIDE DEF q, dx, dy
    <3>2. QED
      BY <1>1, <3>1 DEF Swapped
  <2>2. ASSUME NEW k \in 0..(n - 1)
        PROVE  ~(q[k].x = x1 /\ q[k].y = y1) /\ q[k + 1] = LineStep(q[k], dx, dy, sx, sy)
    <3>1. k \in 0..n /\ k + 1 \in 0..n
      OBVIOUS
    <3>2. ~(r[k].x = y1 /\ r[k].y = x1) /\ r[k + 1] = LineStep(r[k], dy, dx, sy, sx)
      BY DEF Drawn
    <3> HIDE DEF q, dx, dy, sx, sy
    <3>3. Swapped(r[k + 1]) = LineStep(Swapped(r[k]), dx, dy, sx, sy)
      BY <1>1, <1>2, <3>1, <3>2, SwappedStep
    <3>4. QED
      BY <1>2, <3>1, <3>2, <3>3
  <2>3. q[n].x = x1 /\ q[n].y = y1
    <3>1. n \in 0..n /\ r[n].x = y1 /\ r[n].y = x1
      BY DEF Drawn
    <3>2. QED
      BY <1>2, <3>1
  <2> HIDE DEF q
  <2>4. QED
    BY <2>1, <2>2, <2>3 DEF Drawn
<1>5. Lies(q, n, x0, y0, x1, y1)
  <2> HIDE DEF q
  <2>1. n = More(Abs(x1 - x0), Abs(y1 - y0))
    BY DEF Lies, More, Abs
  <2>2. \A k, m \in 0..n : q[k].x = q[m].x /\ q[k].y = q[m].y => k = m
    BY <1>2 DEF Lies
  <2>3. ASSUME NEW k \in 0..n
        PROVE  2 * Abs((q[k].x - x0) * (y1 - y0) - (q[k].y - y0) * (x1 - x0)) <= n
    <3> DEFINE u == (q[k].x - x0) * (y1 - y0)
               v == (q[k].y - y0) * (x1 - x0)
    <3>1. 2 * Abs(v - u) <= n
      BY <1>2 DEF Lies
    <3>2. u \in Int /\ v \in Int
      <4>1. q[k].x \in Int /\ q[k].y \in Int
        BY <1>2 DEF Turn
      <4>2. QED
        BY <4>1
    <3> HIDE DEF u, v
    <3>3. Abs(u - v) = Abs(v - u)
      BY <3>2 DEF Abs
    <3>4. 2 * Abs(u - v) <= n
      BY <3>1, <3>3
    <3>5. QED
      BY <3>4 DEF u, v
  <2>4. QED
    BY <2>1, <2>2, <2>3 DEF Lies
<1>6. QED
  BY <1>3, <1>4, <1>5

\* Bresenham's line: it ends, at its end, has a point for every step of its longer
\* side and keeps to within half a pixel of the straight line.
THEOREM LineRuled ==
  ASSUME NEW x0 \in Int, NEW y0 \in Int, NEW x1 \in Int, NEW y1 \in Int
  PROVE  Ruled(Points(x0, y0, x1, y1), x0, y0, x1, y1)
<1>1. Gap(x0, x1) \in Int /\ Gap(y0, y1) \in Int
  BY DEF Gap
<1>2. CASE Gap(y0, y1) <= Gap(x0, x1)
  BY <1>2, WidePath, RuledOf
<1>3. CASE Gap(x0, x1) <= Gap(y0, y1)
  <2>1. PICK n \in Nat : \E q \in [0..n -> Turn] :
          Drawn(q, n, y0, x0, y1, x1) /\ Lies(q, n, y0, x0, y1, x1)
    BY <1>3, WidePath
  <2>2. PICK q \in [0..n -> Turn] : Drawn(q, n, x0, y0, x1, y1) /\ Lies(q, n, x0, y0, x1, y1)
    BY <2>1, SwappedPath
  <2>3. QED
    BY <2>2, RuledOf
<1>4. QED
  BY <1>1, <1>2, <1>3

-----------------------------------------------------------------------------
(* The steps that draw *)

\* buf_line writes inside the buffer.
LEMMA LineInside ==
  ASSUME NEW P
  PROVE  \A w \in UNION {BufPixel(p[1], p[2], 1) : p \in P} : w[1] \in 0..(WIDTH * HEIGHT - 1)
<1>1. SUFFICES ASSUME NEW p \in P, NEW w \in BufPixel(p[1], p[2], 1)
               PROVE  w[1] \in 0..(WIDTH * HEIGHT - 1)
  OBVIOUS
<1>2. Seen(p[1], p[2]) /\ w = <<p[2] * WIDTH + p[1], 1>>
  BY <1>1, Zenon DEF BufPixel, PixelAt
<1>3. p[1] \in 0..(WIDTH - 1) /\ p[2] \in 0..(HEIGHT - 1)
  BY <1>2 DEF Seen
<1>4. p[2] * WIDTH + p[1] \in 0..(HEIGHT * WIDTH - 1)
  BY <1>3, PixelsAssumption, Magnified
<1>5. HEIGHT * WIDTH = WIDTH * HEIGHT
  BY PixelsAssumption
<1>6. QED
  BY <1>2, <1>4, <1>5

\* draw_bmp is draw_bmp_scaled with the scale 1.
LEMMA OnceDrawn ==
  ASSUME NEW dx \in Int, NEW dy \in Int, NEW w \in Nat, NEW h \in Int
  PROVE  DrawBmp(dx, dy, w, h) = DrawBmpScaled(dx, dy, w, h, 1)
<1> DEFINE Q == (0..(w - 1)) \X (0..(Lines(h) - 1))
           R == (0..0) \X (0..0)
           A(p) == PutPixel(dx + p[1], dy + p[2], Taken(w, h, p[1], p[2]))
           B(p, s) == PutPixel(dx + p[1] * 1 + s[1], dy + p[2] * 1 + s[2], Taken(w, h, p[1], p[2]))
<1>1. DrawBmp(dx, dy, w, h) = UNION {A(p) : p \in Q}
  BY DEF DrawBmp
<1>2. DrawBmpScaled(dx, dy, w, h, 1) = UNION {B(p, s) : p \in Q, s \in R}
  BY DEF DrawBmpScaled
<1>3. ASSUME NEW p \in Q, NEW s \in R PROVE B(p, s) = A(p)
  <2>1. p[1] \in Int /\ p[2] \in Int /\ s[1] = 0 /\ s[2] = 0
    BY DEF Lines
  <2>2. dx + p[1] * 1 + s[1] = dx + p[1] /\ dy + p[2] * 1 + s[2] = dy + p[2]
    BY <2>1
  <2>3. QED
    BY <2>2
<1>4. <<0, 0>> \in R
  OBVIOUS
<1> HIDE DEF A, B, Q, R
<1>5. UNION {A(p) : p \in Q} = UNION {B(p, s) : p \in Q, s \in R}
  BY <1>3, <1>4
<1>6. QED
  BY <1>1, <1>2, <1>5

\* draw_bmp_scaled draws a picture of any size at any scale, each pixel from its
\* padded row and the right side up, clipped to the screen.
THEOREM ImageDrawn ==
  ASSUME NEW dx \in Int, NEW dy \in Int, NEW w \in Nat, NEW h \in Int, NEW scale \in Nat \ {0}
  PROVE  DrawBmpScaled(dx, dy, w, h, scale) = Image(<<dx, dy, w, h, scale>>)
<1> DEFINE row == RowBytes(w)
           lines == Abs(h)
           box == Box(dx, dx + w * scale - 1, dy, dy + lines * scale - 1)
           From(p) ==
             LET line == (p[2] - dy) \div scale
             IN (IF h < 0 THEN line ELSE lines - 1 - line) * row + ((p[1] - dx) \div scale) * 3
<1>1. Image(<<dx, dy, w, h, scale>>) = Drawing(box, [p \in box |-> From(p)], PITCH)
  BY RowPadded DEF Image
<1>2. Lines(h) = lines
  BY DEF Lines, Abs
<1>3. box = ImageBox(dx, dy, w, h, scale)
  BY <1>2 DEF ImageBox
<1>4. ASSUME NEW p PROVE From(p) = ShownAt(dx, dy, w, h, scale, p)
  BY <1>2 DEF ShownAt, Taken, BmpRow, Abs
<1> HIDE DEF box, From
<1>5. [p \in box |-> From(p)] = [p \in box |-> ShownAt(dx, dy, w, h, scale, p)]
  BY <1>4
<1>6. DrawBmpScaled(dx, dy, w, h, scale)
        = Drawing(box, [p \in box |-> ShownAt(dx, dy, w, h, scale, p)], PITCH)
  BY <1>3, ScaledDrawn
<1>7. QED
  BY <1>1, <1>5, <1>6

\* A call of a name takes its arguments and its result from that routine.
LEMMA CharStep ==
  ASSUME CharCall
  PROVE  result' = Shape({<<args'[1], args'[2]>>, <<args'[1] + 1, args'[2] + 1>>,
                          <<args'[1] + 7, args'[2] + 15>>}, PITCH)
<1>1. PICK x \in Places, y \in Places : Call("draw_char", <<x, y>>, DrawChar(x, y, Glyph, 1))
  BY DEF CharCall
<1>2. args' = <<x, y>> /\ result' = DrawChar(x, y, Glyph, 1)
  BY <1>1, CallGives
<1>3. args'[1] = x /\ args'[2] = y /\ x \in Int /\ y \in Int
  BY <1>2, RoutinesAssumption
<1>4. QED
  BY <1>2, <1>3, CharDrawn

\* The calls of each routine that draws.
LEMMA RectStep ==
  ASSUME RectCall
  PROVE  result' = Shape(Box(args'[1], args'[1] + args'[3] - 1,
                             args'[2], args'[2] + args'[4] - 1), PITCH)
<1>1. PICK x \in Places, y \in Places, w \in {0, 2}, h \in {0, 2} :
        Call("draw_rect", <<x, y, w, h>>, DrawRect(x, y, w, h, 1))
  BY DEF RectCall
<1>2. args' = <<x, y, w, h>> /\ result' = Rect(x, y, w, h, 1, PITCH)
  BY <1>1, CallGives DEF DrawRect
<1>3. args'[1] = x /\ args'[2] = y /\ args'[3] = w /\ args'[4] = h
  BY <1>2
<1>4. x \in Int /\ y \in Int /\ w \in Int /\ h \in Int
  BY RoutinesAssumption
<1>5. QED
  BY <1>2, <1>3, <1>4, RectDrawn

\* vbe_clear.
LEMMA ClearStep ==
  ASSUME ClearCall
  PROVE  result' = Shape(Box(0, WIDTH, 0, HEIGHT), PITCH)
BY CallGives, ClearDrawn DEF ClearCall

\* buf_rect.
LEMMA BufRectStep ==
  ASSUME BufRectCall
  PROVE  result' =
    Shape(Box(Less2(args'[1], args'[1] + args'[3]), More(args'[1], args'[1] + args'[3]) - 1,
              Less2(args'[2], args'[2] + args'[4]), More(args'[2], args'[2] + args'[4]) - 1),
          WIDTH)
<1>1. PICK x \in Places, y \in Places, w \in {-2, 0, 2}, h \in {-2, 0, 2} :
        Call("buf_rect", <<x, y, w, h>>, BufRect(x, y, w, h, 1))
  BY DEF BufRectCall
<1>2. args' = <<x, y, w, h>> /\ result' = BufRect(x, y, w, h, 1)
  BY <1>1, CallGives
<1>3. args'[1] = x /\ args'[2] = y /\ args'[3] = w /\ args'[4] = h
  BY <1>2
<1>4. x \in Int /\ y \in Int /\ w \in Int /\ h \in Int
  BY RoutinesAssumption
<1>5. QED
  BY <1>2, <1>3, <1>4, BufRectDrawn

\* points and buf_line.
LEMMA LineStepRight ==
  ASSUME LineCall
  PROVE  /\ fn' = "points" => Ruled(result', args'[1], args'[2], args'[3], args'[4])
         /\ fn' = "buf_line" => \A w \in result' : w[1] \in 0..(WIDTH * HEIGHT - 1)
<1>1. PICK x0 \in Places, y0 \in Places, x1 \in Places, y1 \in Places :
        \/ Call("points", <<x0, y0, x1, y1>>, Points(x0, y0, x1, y1))
        \/ Call("buf_line", <<x0, y0, x1, y1>>, BufLine(x0, y0, x1, y1, 1))
  BY DEF LineCall
<1>2. x0 \in Int /\ y0 \in Int /\ x1 \in Int /\ y1 \in Int
  BY RoutinesAssumption
<1>3. CASE Call("points", <<x0, y0, x1, y1>>, Points(x0, y0, x1, y1))
  <2>1. fn' = "points" /\ args' = <<x0, y0, x1, y1>> /\ result' = Points(x0, y0, x1, y1)
    BY <1>3, CallGives
  <2>2. args'[1] = x0 /\ args'[2] = y0 /\ args'[3] = x1 /\ args'[4] = y1
    BY <2>1
  <2>3. QED
    BY <1>2, <2>1, <2>2, LineRuled
<1>4. CASE Call("buf_line", <<x0, y0, x1, y1>>, BufLine(x0, y0, x1, y1, 1))
  <2>1. fn' = "buf_line" /\ result' = BufLine(x0, y0, x1, y1, 1)
    BY <1>4, CallGives
  <2>2. \A w \in result' : w[1] \in 0..(WIDTH * HEIGHT - 1)
    BY <2>1, LineInside DEF BufLine
  <2>3. QED
    BY <2>1, <2>2
<1>5. QED
  BY <1>1, <1>3, <1>4

\* flip.
LEMMA FlipStep ==
  ASSUME FlipCall
  PROVE  result' = Rows(args'[1], args'[2], args'[1], PITCH)
<1>1. PICK w \in 1..PITCH, h \in 1..HEIGHT : Call("flip", <<w, h>>, Flip(w, h))
  BY DEF FlipCall
<1>2. args' = <<w, h>> /\ result' = Flip(w, h)
  BY <1>1, CallGives
<1>3. args'[1] = w /\ args'[2] = h /\ w \in Nat /\ h \in Nat
  BY <1>2, PixelsAssumption
<1>4. QED
  BY <1>2, <1>3, FlipCopies

\* draw_bmp and draw_bmp_scaled.
LEMMA BmpStep ==
  ASSUME BmpCall
  PROVE  result' = Image(args')
<1>1. PICK dx \in Places, dy \in Places, w \in 1..3, h \in {-2, 2} :
        \/ Call("draw_bmp", <<dx, dy, w, h, 1>>, DrawBmp(dx, dy, w, h))
        \/ \E scale \in 1..2 :
             Call("draw_bmp", <<dx, dy, w, h, scale>>, DrawBmpScaled(dx, dy, w, h, scale))
  BY DEF BmpCall
<1>2. dx \in Int /\ dy \in Int /\ w \in Nat /\ h \in Int
  BY RoutinesAssumption
<1>3. DrawBmp(dx, dy, w, h) = DrawBmpScaled(dx, dy, w, h, 1)
  BY <1>2, OnceDrawn
<1>4. PICK scale \in 1..2 : args' = <<dx, dy, w, h, scale>>
                            /\ result' = DrawBmpScaled(dx, dy, w, h, scale)
  <2>1. CASE Call("draw_bmp", <<dx, dy, w, h, 1>>, DrawBmp(dx, dy, w, h))
    <3>1. args' = <<dx, dy, w, h, 1>> /\ result' = DrawBmpScaled(dx, dy, w, h, 1)
      BY <2>1, <1>3, CallGives
    <3>2. 1 \in 1..2
      OBVIOUS
    <3>3. QED
      BY <3>1, <3>2
  <2>2. CASE \E scale \in 1..2 :
               Call("draw_bmp", <<dx, dy, w, h, scale>>, DrawBmpScaled(dx, dy, w, h, scale))
    BY <2>2, CallGives
  <2>3. QED
    BY <1>1, <2>1, <2>2
<1>5. scale \in Nat \ {0}
  OBVIOUS
<1>6. QED
  BY <1>2, <1>4, <1>5, ImageDrawn

\* rgb565.
LEMMA ColourStep ==
  ASSUME ColourCall
  PROVE  Fields565(result', args'[1], args'[2], args'[3])
<1>1. PICK b \in {0, 7, 8, 131, 255}, g \in {0, 7, 8, 131, 255}, r \in {0, 7, 8, 131, 255} :
        Call("rgb565", <<b, g, r>>, Rgb565(b, g, r))
  BY DEF ColourCall
<1>2. args' = <<b, g, r>> /\ result' = Rgb565(b, g, r)
  BY <1>1, CallGives
<1>3. args'[1] = b /\ args'[2] = g /\ args'[3] = r
  BY <1>2
<1>4. b \in 0..255 /\ g \in 0..255 /\ r \in 0..255
  OBVIOUS
<1>5. QED
  BY <1>2, <1>3, <1>4, ColourFields

\* register_char.
LEMMA FontStep ==
  ASSUME FontCall
  PROVE  result' = Rows(16, 8, 16, 32)
<1>1. result' = RegisterChar(8, 16, 32)
  BY CallGives DEF FontCall
<1>2. QED
  BY <1>1, GlyphsCopied

\* Every step gives what ShapesRight says.
LEMMA ShapesStep ==
  ASSUME Next
  PROVE  ShapesRight'
BY WhichCall, CharStep, RectStep, ClearStep, BufRectStep, LineStepRight, Zenon DEF ShapesRight

\* Every step gives what ImagesRight says.
LEMMA ImagesStep ==
  ASSUME Next
  PROVE  ImagesRight'
BY WhichCall, FlipStep, BmpStep, ColourStep, FontStep, SMT DEF ImagesRight

-----------------------------------------------------------------------------
(* The video card *)

Cards == [misc : Int, seq : [0..4 -> Int], grc : [0..8 -> Int], crtc : [0..24 -> Int],
          attr : [0..31 -> Int], at : Int, flip : {"index", "data"},
          dac : [0..63 -> Seq(Int)], dispi : [0..4 -> Int], font : BOOLEAN]

\* What no write to the sequencer or the graphics controller changes.
Beside(v, w) ==
  /\ w.crtc = v.crtc /\ w.attr = v.attr /\ w.at = v.at /\ w.flip = v.flip
  /\ w.dac = v.dac /\ w.dispi = v.dispi /\ w.misc = v.misc

\* w is v with one register written.
SeqWrote(v, i, val, w) ==
  /\ w \in Cards /\ Beside(v, w) /\ w.seq = [v.seq EXCEPT ![i] = val]
  /\ w.grc = v.grc /\ w.font = v.font
GrcWrote(v, i, val, w) ==
  /\ w \in Cards /\ Beside(v, w) /\ w.grc = [v.grc EXCEPT ![i] = val]
  /\ w.seq = v.seq /\ w.font = v.font

\* A write to the sequencer.
LEMMA SeqOuts ==
  ASSUME NEW v \in Cards, NEW i \in 0..4, NEW val \in Int
  PROVE  SeqWrote(v, i, val, SeqOut(v, i, val))
BY DEF SeqOut, Cards, Beside, SeqWrote

\* A write to the graphics controller.
LEMMA GrcOuts ==
  ASSUME NEW v \in Cards, NEW i \in 0..8, NEW val \in Int
  PROVE  GrcWrote(v, i, val, GrcOut(v, i, val))
BY DEF GrcOut, Cards, Beside, GrcWrote

\* What the setting back to text leaves: the planes of text, the font as it was.
LEMMA TextPlaneLeft ==
  ASSUME NEW v \in Cards
  PROVE  /\ TextPlane(v) \in Cards /\ Beside(v, TextPlane(v)) /\ TextPlane(v).font = v.font
         /\ TextPlane(v).grc = [v.grc EXCEPT ![5] = 16, ![6] = 14]
         /\ TextPlane(v).seq = [v.seq EXCEPT ![2] = 3, ![4] = 3]
<1> DEFINE a == SeqOut(v, 2, 3)
           b == SeqOut(a, 4, 3)
           c == GrcOut(b, 5, 16)
           d == GrcOut(c, 6, 14)
<1>1. SeqWrote(v, 2, 3, a)
  BY SeqOuts
<1> HIDE DEF a
<1>2. SeqWrote(a, 4, 3, b)
  <2>1. a \in Cards
    BY <1>1 DEF SeqWrote
  <2>2. QED
    BY <2>1, SeqOuts
<1> HIDE DEF b
<1>3. GrcWrote(b, 5, 16, c)
  <2>1. b \in Cards
    BY <1>2 DEF SeqWrote
  <2>2. QED
    BY <2>1, GrcOuts
<1> HIDE DEF c
<1>4. GrcWrote(c, 6, 14, d)
  <2>1. c \in Cards
    BY <1>3 DEF GrcWrote
  <2>2. QED
    BY <2>1, GrcOuts
<1>5. d = TextPlane(v)
  BY Zenon DEF TextPlane, a, b, c
<1> HIDE DEF d
<1>6. QED
  BY <1>1, <1>2, <1>3, <1>4, <1>5 DEF Beside, SeqWrote, GrcWrote

\* What plane 2 is opened with.
LEMMA Plane2Opened ==
  ASSUME NEW v \in Cards
  PROVE  /\ Plane2Open(v) \in Cards /\ Beside(v, Plane2Open(v))
         /\ Plane2Open(v).grc = [v.grc EXCEPT ![4] = 0, ![5] = 0, ![6] = 4]
         /\ Plane2Open(v).seq = [v.seq EXCEPT ![2] = 4, ![4] = 7]
<1> DEFINE a == SeqOut(v, 2, 4)
           b == SeqOut(a, 4, 7)
           c == GrcOut(b, 4, 0)
           d == GrcOut(c, 5, 0)
           e == GrcOut(d, 6, 4)
<1>1. SeqWrote(v, 2, 4, a)
  BY SeqOuts
<1> HIDE DEF a
<1>2. SeqWrote(a, 4, 7, b)
  <2>1. a \in Cards
    BY <1>1 DEF SeqWrote
  <2>2. QED
    BY <2>1, SeqOuts
<1> HIDE DEF b
<1>3. GrcWrote(b, 4, 0, c)
  <2>1. b \in Cards
    BY <1>2 DEF SeqWrote
  <2>2. QED
    BY <2>1, GrcOuts
<1> HIDE DEF c
<1>4. GrcWrote(c, 5, 0, d)
  <2>1. c \in Cards
    BY <1>3 DEF GrcWrote
  <2>2. QED
    BY <2>1, GrcOuts
<1> HIDE DEF d
<1>5. GrcWrote(d, 6, 4, e)
  <2>1. d \in Cards
    BY <1>4 DEF GrcWrote
  <2>2. QED
    BY <2>1, GrcOuts
<1>6. e = Plane2Open(v)
  BY Zenon DEF Plane2Open, a, b, c, d
<1> HIDE DEF e
<1>7. Beside(v, e)
  BY <1>1, <1>2, <1>3, <1>4, <1>5 DEF Beside, SeqWrote, GrcWrote
<1>8. e.grc = [v.grc EXCEPT ![4] = 0, ![5] = 0, ![6] = 4]
  BY <1>1, <1>2, <1>3, <1>4, <1>5 DEF SeqWrote, GrcWrote
<1>9. e.seq = [v.seq EXCEPT ![2] = 4, ![4] = 7]
  BY <1>1, <1>2, <1>3, <1>4, <1>5 DEF SeqWrote, GrcWrote
<1>10. QED
  BY <1>5, <1>6, <1>7, <1>8, <1>9 DEF GrcWrote

\* set_font leaves the planes of text, and a font if the card lets every bit through.
LEMMA FontFilled ==
  ASSUME NEW v \in Cards
  PROVE  /\ Font(v) \in Cards /\ Beside(v, Font(v))
         /\ Font(v).grc = [v.grc EXCEPT ![4] = 0, ![5] = 16, ![6] = 14]
         /\ Font(v).seq = [v.seq EXCEPT ![2] = 3, ![4] = 3]
         /\ v.grc[1] = 0 /\ v.grc[3] = 0 /\ v.grc[8] = 255 => Font(v).font
<1> DEFINE open == Plane2Open(v)
           filled == [open EXCEPT !.font = Plane2Only(open)]
           w == TextPlane(filled)
<1>1. /\ open \in Cards /\ Beside(v, open) /\ open.grc = [v.grc EXCEPT ![4] = 0, ![5] = 0, ![6] = 4]
      /\ open.seq = [v.seq EXCEPT ![2] = 4, ![4] = 7]
  BY Plane2Opened
<1> HIDE DEF open
<1>2. filled \in Cards /\ Beside(open, filled) /\ filled.grc = open.grc /\ filled.font = Plane2Only(open)
      /\ filled.seq = open.seq
  BY <1>1 DEF Cards, Beside, Plane2Only
<1> HIDE DEF filled
<1>3. w \in Cards /\ Beside(filled, w) /\ w.font = filled.font
      /\ w.grc = [filled.grc EXCEPT ![5] = 16, ![6] = 14]
      /\ w.seq = [filled.seq EXCEPT ![2] = 3, ![4] = 3]
  BY <1>2, TextPlaneLeft
<1>4. w = Font(v)
  BY Zenon DEF Font, filled, open
<1> HIDE DEF w
<1>5. Beside(v, w)
  BY <1>1, <1>2, <1>3 DEF Beside
<1>6. v.grc \in [0..8 -> Int] /\ v.seq \in [0..4 -> Int]
  BY DEF Cards
<1>7. w.grc = [v.grc EXCEPT ![4] = 0, ![5] = 16, ![6] = 14]
  BY <1>1, <1>2, <1>3, <1>6
<1>8. v.grc[1] = 0 /\ v.grc[3] = 0 /\ v.grc[8] = 255 => Plane2Only(open)
  BY <1>1, <1>6 DEF Plane2Only
<1>9. w.seq = [v.seq EXCEPT ![2] = 3, ![4] = 3]
  BY <1>1, <1>2, <1>3, <1>6
<1>10. QED
  BY <1>2, <1>3, <1>4, <1>5, <1>7, <1>8, <1>9

\* A bit is 0 or 1.
LEMMA BitIs ==
  ASSUME NEW n \in Nat, NEW i \in 0..5
  PROVE  Bit(n, i) \in 0..1
<1> DEFINE p == <<1, 2, 4, 8, 16, 32>>[i + 1]
<1>1. p \in {1, 2, 4, 8, 16, 32}
  OBVIOUS
<1> HIDE DEF p
<1>2. n \div p \in Int
  BY <1>1
<1>3. QED
  BY <1>2 DEF Bit, p

\* The 192 bytes of the palette.
LEMMA PaletteType == Palette \in [1..192 -> Int]
<1>1. ASSUME NEW k \in 1..192
      PROVE  /\ (k - 1) \div 3 \in Nat /\ 2 - ((k - 1) % 3) \in 0..5
             /\ 2 - ((k - 1) % 3) + 3 \in 0..5
  OBVIOUS
<1>2. ASSUME NEW k \in 1..192
      PROVE  42 * Bit((k - 1) \div 3, 2 - ((k - 1) % 3))
               + 21 * Bit((k - 1) \div 3, 2 - ((k - 1) % 3) + 3) \in Int
  <2> DEFINE a == Bit((k - 1) \div 3, 2 - ((k - 1) % 3))
             b == Bit((k - 1) \div 3, 2 - ((k - 1) % 3) + 3)
  <2>1. a \in 0..1 /\ b \in 0..1
    BY <1>1, BitIs
  <2> HIDE DEF a, b
  <2>2. 42 * a + 21 * b \in Int
    BY <2>1
  <2>3. QED
    BY <2>2 DEF a, b
<1>3. QED
  BY <1>2, Zenon DEF Palette

\* What a mode set needs of a table.
IsTable(t) ==
  /\ t.misc \in Int
  /\ t.seq \in Seq(Int) /\ t.grc \in Seq(Int) /\ t.crtc \in Seq(Int) /\ t.attr \in Seq(Int)
  /\ Len(t.seq) <= 5 /\ Len(t.grc) = 9 /\ 24 <= Len(t.crtc) /\ Len(t.crtc) <= 25
  /\ 20 <= Len(t.attr) /\ Len(t.attr) <= 21

\* The tables of both modes are as long as the registers, and unlock them.
LEMMA TablesGood == IsTable(Table.mode3) /\ IsTable(Table.mode13)
<1>1. /\ Mode3Seq \in Seq(Int) /\ Len(Mode3Seq) = 5 /\ Mode3Crtc \in Seq(Int) /\ Len(Mode3Crtc) = 25
      /\ Mode3Grap \in Seq(Int) /\ Len(Mode3Grap) = 9
      /\ Mode3Attr \in Seq(Int) /\ Len(Mode3Attr) = 21
  BY DEF Mode3Seq, Mode3Crtc, Mode3Grap, Mode3Attr
<1>2. /\ Mode13Seq \in Seq(Int) /\ Len(Mode13Seq) = 4 /\ Mode13Crtc \in Seq(Int) /\ Len(Mode13Crtc) = 24
      /\ Mode13Grap \in Seq(Int) /\ Len(Mode13Grap) = 9
      /\ Mode13Attr \in Seq(Int) /\ Len(Mode13Attr) = 20
  BY DEF Mode13Seq, Mode13Crtc, Mode13Grap, Mode13Attr
<1>3. IsTable(Table.mode3)
  <2> DEFINE t == Table.mode3
  <2>1. /\ t.misc = 103 /\ t.seq = Mode3Seq /\ t.crtc = Mode3Crtc
        /\ t.grc = Mode3Grap /\ t.attr = Mode3Attr
    BY DEF Table
  <2> HIDE DEF t
  <2>2. Len(t.seq) = 5 /\ Len(t.crtc) = 25 /\ Len(t.grc) = 9 /\ Len(t.attr) = 21
    BY <1>1, <2>1
  <2>3. t.seq \in Seq(Int) /\ t.grc \in Seq(Int) /\ t.crtc \in Seq(Int) /\ t.attr \in Seq(Int)
    BY <1>1, <2>1
  <2>4. Len(t.seq) <= 5 /\ 24 <= Len(t.crtc) /\ Len(t.crtc) <= 25 /\ 20 <= Len(t.attr) /\ Len(t.attr) <= 21
    BY <2>2
  <2>5. t.misc \in Int
    BY <2>1
  <2>6. IsTable(t)
    BY <2>2, <2>3, <2>4, <2>5, Zenon DEF IsTable
  <2>7. QED
    BY <2>6 DEF t
<1>4. IsTable(Table.mode13)
  <2> DEFINE t == Table.mode13
  <2>1. /\ t.misc = 99 /\ t.seq = Mode13Seq /\ t.crtc = Mode13Crtc
        /\ t.grc = Mode13Grap /\ t.attr = Mode13Attr
    BY DEF Table
  <2> HIDE DEF t
  <2>2. Len(t.seq) = 4 /\ Len(t.crtc) = 24 /\ Len(t.grc) = 9 /\ Len(t.attr) = 20
    BY <1>2, <2>1
  <2>3. t.seq \in Seq(Int) /\ t.grc \in Seq(Int) /\ t.crtc \in Seq(Int) /\ t.attr \in Seq(Int)
    BY <1>2, <2>1
  <2>4. Len(t.seq) <= 5 /\ 24 <= Len(t.crtc) /\ Len(t.crtc) <= 25 /\ 20 <= Len(t.attr) /\ Len(t.attr) <= 21
    BY <2>2
  <2>5. t.misc \in Int
    BY <2>1
  <2>6. IsTable(t)
    BY <2>2, <2>3, <2>4, <2>5, Zenon DEF IsTable
  <2>7. QED
    BY <2>6 DEF t
<1>5. QED
  BY <1>3, <1>4

\* The registers regs[0] to regs[n], filled from a table.
FilledFrom(n, table, first, g) ==
  /\ g \in [0..n -> Int]
  /\ \A i \in 0..n : first <= i /\ i < Len(table) => g[i] = table[i + 1]

\* The loop that fills registers from a table.
LEMMA FilledType ==
  ASSUME NEW n \in Nat, NEW regs \in [0..n -> Int], NEW table \in Seq(Int), NEW first \in Nat
  PROVE  FilledFrom(n, table, first, Filled(regs, first, table))
<1>1. \A i \in 0..n : i < Len(table) => table[i + 1] \in Int
  OBVIOUS
<1>2. QED
  BY <1>1 DEF Filled, FilledFrom

\* A table that fits fills them all.
LEMMA FilledWhole ==
  ASSUME NEW n \in Nat, NEW table \in Seq(Int), Len(table) <= n + 1, NEW g, FilledFrom(n, table, 0, g)
  PROVE  g \in [0..n -> Int] /\ \A i \in 1..Len(table) : g[i - 1] = table[i]
<1>1. ASSUME NEW i \in 1..Len(table) PROVE g[i - 1] = table[i]
  <2>1. i - 1 \in 0..n /\ i - 1 < Len(table) /\ 0 <= i - 1 /\ (i - 1) + 1 = i
    OBVIOUS
  <2>2. QED
    BY <2>1 DEF FilledFrom
<1>2. QED
  BY <1>1 DEF FilledFrom

\* The registers of a card.
LEMMA CardFields ==
  ASSUME NEW v \in Cards
  PROVE  /\ v.seq \in [0..4 -> Int] /\ v.grc \in [0..8 -> Int] /\ v.crtc \in [0..24 -> Int]
         /\ v.attr \in [0..31 -> Int] /\ v.dispi \in [0..4 -> Int] /\ v.at \in Int
         /\ v.flip \in {"index", "data"}
BY DEF Cards

\* w is v with one part of it replaced.
CrtcTo(v, g, w) ==
  w \in Cards /\ w.dispi = v.dispi /\ w.misc = v.misc /\ w.seq = v.seq /\ w.crtc = g
GrcTo(v, g, w) ==
  /\ w \in Cards /\ w.dispi = v.dispi /\ w.misc = v.misc /\ w.seq = v.seq
  /\ w.grc = g /\ w.crtc = v.crtc
AttrTo(v, g, w) ==
  /\ w \in Cards /\ w.dispi = v.dispi /\ w.misc = v.misc /\ w.seq = v.seq
  /\ w.grc = v.grc /\ w.crtc = v.crtc
  /\ w.flip = v.flip /\ w.attr = g
IndexNext(v, w) ==
  /\ w \in Cards /\ w.dispi = v.dispi /\ w.misc = v.misc /\ w.seq = v.seq
  /\ w.grc = v.grc /\ w.crtc = v.crtc
  /\ w.flip = "index" /\ w.attr = v.attr
DacTo(v, g, w) ==
  /\ w \in Cards /\ w.dispi = v.dispi /\ w.misc = v.misc /\ w.seq = v.seq
  /\ w.grc = v.grc /\ w.crtc = v.crtc
  /\ w.flip = v.flip /\ w.attr = v.attr /\ w.dac = g

\* A card with other CRTC registers.
LEMMA CrtcSet ==
  ASSUME NEW v \in Cards, NEW g \in [0..24 -> Int]
  PROVE  CrtcTo(v, g, [v EXCEPT !.crtc = g])
BY DEF Cards, CrtcTo

\* A card with other registers of the graphics controller.
LEMMA GrcSet ==
  ASSUME NEW v \in Cards, NEW g \in [0..8 -> Int]
  PROVE  GrcTo(v, g, [v EXCEPT !.grc = g])
BY DEF Cards, GrcTo

\* A card with other registers of attributes.
LEMMA AttrSet ==
  ASSUME NEW v \in Cards, NEW g \in [0..31 -> Int], NEW n \in Int
  PROVE  AttrTo(v, g, [v EXCEPT !.at = n, !.attr = g])
BY DEF Cards, AttrTo

\* A card whose 0x3C0 waits for an index.
LEMMA FlipSet ==
  ASSUME NEW v \in Cards
  PROVE  IndexNext(v, [v EXCEPT !.flip = "index"])
BY DEF Cards, IndexNext

\* A card with other colours.
LEMMA DacSet ==
  ASSUME NEW v \in Cards, NEW g \in [0..63 -> Seq(Int)]
  PROVE  DacTo(v, g, [v EXCEPT !.dac = g])
BY DEF Cards, DacTo

\* A card with another sequencer.
SeqTo(v, m, g, w) == w \in Cards /\ w.dispi = v.dispi /\ w.misc = m /\ w.seq = g
LEMMA SequencerSet ==
  ASSUME NEW v \in Cards, NEW g \in [0..4 -> Int], NEW m \in Int
  PROVE  SeqTo(v, m, g, [v EXCEPT !.misc = m, !.seq = g])
BY DEF Cards, SeqTo

\* The colours of set_palette.
Colours == [c \in 0..63 |-> SubSeq(Palette, 3 * c + 1, 3 * c + 3)]

\* Three bytes of a table.
LEMMA ThreeOf ==
  ASSUME NEW p \in Seq(Int), NEW n \in Nat, Len(p) = n, NEW c \in Nat, 3 * c + 3 <= n
  PROVE  SubSeq(p, 3 * c + 1, 3 * c + 3) \in Seq(Int)
BY SubSeqProperties

\* The palette is a sequence of bytes.
LEMMA PaletteSeq == Palette \in Seq(Int) /\ Len(Palette) = 192
BY PaletteType, SeqOfLength

\* Each colour is a sequence of components.
LEMMA ColoursType == Colours \in [0..63 -> Seq(Int)]
<1>1. ASSUME NEW c \in 0..63 PROVE SubSeq(Palette, 3 * c + 1, 3 * c + 3) \in Seq(Int)
  <2>1. 192 \in Nat /\ c \in Nat /\ 3 * c + 3 <= 192
    OBVIOUS
  <2>2. QED
    BY <2>1, PaletteSeq, ThreeOf, Zenon
<1>2. QED
  BY <1>1, Zenon DEF Colours

\* What the registers hold after they are set from a table.
Set(v, t, w) ==
  /\ w \in Cards /\ w.dispi = v.dispi /\ w.flip = "index" /\ w.misc = t.misc
  /\ \A i \in 1..Len(t.seq) : w.seq[i - 1] = t.seq[i]
  /\ \A i \in 1..Len(t.crtc) : w.crtc[i - 1] = t.crtc[i]
  /\ \A i \in 1..9 : w.grc[i - 1] = t.grc[i]
  /\ \A i \in 1..21 : w.attr[i - 1] = FromTable(t.attr, i)
  /\ w.dac = Colours

\* set_registers: every register of the table holds its byte, the protected ones too.
LEMMA RegistersSet ==
  ASSUME NEW v \in Cards, NEW t, IsTable(t)
  PROVE  Set(v, t, Registers(v, t))
<1> DEFINE a == [v EXCEPT !.misc = t.misc, !.seq = Filled(v.seq, 0, t.seq)]
           b == Unlocked(a)
           c == WriteCrtc(b, t.crtc)
           d == [c EXCEPT !.grc = Filled(c.grc, 0, t.grc)]
           e == AttrWrite(d, t.attr)
           f == SetPalette(e)
<1>1. /\ a \in Cards /\ a.dispi = v.dispi /\ a.misc = t.misc
      /\ \A i \in 1..Len(t.seq) : a.seq[i - 1] = t.seq[i]
  <2> DEFINE g == Filled(v.seq, 0, t.seq)
             m == t.misc
  <2>1. t.seq \in Seq(Int) /\ m \in Int /\ Len(t.seq) <= 4 + 1
    BY DEF IsTable
  <2>2. v.seq \in [0..4 -> Int]
    BY CardFields
  <2>6. FilledFrom(4, t.seq, 0, g)
    BY <2>1, <2>2, FilledType
  <2>3. g \in [0..4 -> Int] /\ \A i \in 1..Len(t.seq) : g[i - 1] = t.seq[i]
    <3> DEFINE n == 4
               u == t.seq
    <3>1. n \in Nat /\ u \in Seq(Int) /\ FilledFrom(n, u, 0, g) /\ Len(u) <= n + 1
      BY <2>1, <2>6
    <3> HIDE DEF a, g, m, n, u
    <3>2. g \in [0..n -> Int] /\ \A i \in 1..Len(u) : g[i - 1] = u[i]
      BY <3>1, FilledWhole, Zenon
    <3>3. QED
      BY <3>2 DEF n, u
  <2>4. a = [v EXCEPT !.misc = m, !.seq = g]
    BY Zenon DEF a
  <2> HIDE DEF a, g, m
  <2>8. m \in Int /\ g \in [0..4 -> Int]
    BY <2>1, <2>3
  <2>7. SeqTo(v, m, g, [v EXCEPT !.misc = m, !.seq = g])
    BY <2>8, SequencerSet
  <2>9. SeqTo(v, m, g, a)
    BY <2>7, <2>4
  <2>10. a \in Cards /\ a.dispi = v.dispi /\ a.misc = m /\ a.seq = g
    BY <2>9, Zenon DEF SeqTo
  <2>5. QED
    BY <2>3, <2>10, Zenon DEF m
<1> HIDE DEF a
<1>2. b \in Cards /\ b.dispi = a.dispi /\ b.misc = a.misc /\ b.seq = a.seq /\ ~Protected(b)
  <2> DEFINE n == a.crtc[17] % 128
             g == [a.crtc EXCEPT ![17] = n]
  <2>1. a.crtc \in [0..24 -> Int]
    BY <1>1, CardFields
  <2>2. n \in 0..127
    BY <2>1
  <2>3. b = [a EXCEPT !.crtc[17] = n]
    BY DEF Unlocked, CrtcOut
  <2> HIDE DEF n
  <2>4. g \in [0..24 -> Int] /\ g[17] = n
    BY <2>1, <2>2
  <2>5. b = [a EXCEPT !.crtc = g]
    BY <2>3
  <2> HIDE DEF g, b
  <2>6. CrtcTo(a, g, b)
    BY <1>1, <2>4, <2>5, CrtcSet, Zenon
  <2>7. QED
    BY <2>2, <2>4, <2>6 DEF Protected, CrtcTo
<1> HIDE DEF b
<1>3. /\ c \in Cards /\ c.dispi = b.dispi /\ c.misc = b.misc /\ c.seq = b.seq
      /\ \A i \in 1..Len(t.crtc) : c.crtc[i - 1] = t.crtc[i]
  <2> DEFINE g == Filled(b.crtc, 0, t.crtc)
  <2>1. t.crtc \in Seq(Int) /\ Len(t.crtc) <= 24 + 1
    BY DEF IsTable
  <2>2. b.crtc \in [0..24 -> Int]
    BY <1>2, CardFields
  <2>3. FilledFrom(24, t.crtc, 0, g)
    BY <2>1, <2>2, FilledType
  <2>4. c = [b EXCEPT !.crtc = g]
    BY <1>2 DEF WriteCrtc
  <2> HIDE DEF g, c
  <2>5. g \in [0..24 -> Int] /\ \A i \in 1..Len(t.crtc) : g[i - 1] = t.crtc[i]
    <3> DEFINE n == 24
    <3>1. n \in Nat /\ FilledFrom(n, t.crtc, 0, g) /\ Len(t.crtc) <= n + 1
      BY <2>1, <2>3
    <3> HIDE DEF n
    <3>2. g \in [0..n -> Int] /\ \A i \in 1..Len(t.crtc) : g[i - 1] = t.crtc[i]
      BY <3>1, <2>1, FilledWhole, Zenon
    <3>3. QED
      BY <3>2 DEF n
  <2>6. CrtcTo(b, g, c)
    BY <1>2, <2>5, <2>4, CrtcSet, Zenon
  <2>7. QED
    BY <2>5, <2>6 DEF CrtcTo
<1> HIDE DEF c
<1>4. /\ d \in Cards /\ d.dispi = c.dispi /\ d.misc = c.misc /\ d.seq = c.seq /\ d.crtc = c.crtc
      /\ \A i \in 1..9 : d.grc[i - 1] = t.grc[i]
  <2> DEFINE g == Filled(c.grc, 0, t.grc)
  <2>1. t.grc \in Seq(Int) /\ Len(t.grc) = 9 /\ Len(t.grc) <= 8 + 1
    BY DEF IsTable
  <2>2. c.grc \in [0..8 -> Int]
    BY <1>3, CardFields
  <2>3. FilledFrom(8, t.grc, 0, g)
    BY <2>1, <2>2, FilledType
  <2>4. d = [c EXCEPT !.grc = g]
    OBVIOUS
  <2> HIDE DEF g, d
  <2>5. g \in [0..8 -> Int] /\ \A i \in 1..Len(t.grc) : g[i - 1] = t.grc[i]
    <3>1. 8 \in Nat
      OBVIOUS
    <3>2. QED
      BY <3>1, <2>1, <2>3, FilledWhole, Zenon
  <2>6. GrcTo(c, g, d)
    BY <1>3, <2>5, <2>4, GrcSet, Zenon
  <2>7. QED
    BY <2>1, <2>5, <2>6 DEF GrcTo
<1> HIDE DEF d
<1>5. /\ e \in Cards /\ e.dispi = d.dispi /\ e.misc = d.misc /\ e.seq = d.seq
      /\ e.crtc = d.crtc /\ e.grc = d.grc /\ e.flip = "index"
      /\ \A i \in 1..21 : e.attr[i - 1] = FromTable(t.attr, i)
  <2> DEFINE g == [i \in DOMAIN d.attr |-> IF i <= 20 THEN FromTable(t.attr, i + 1) ELSE d.attr[i]]
             u == Status(d)
  <2>1. d.attr \in [0..31 -> Int]
    BY <1>4, CardFields
  <2>2. t.attr \in Seq(Int) /\ 20 <= Len(t.attr) /\ Len(t.attr) <= 21
    BY DEF IsTable
  <2>3. ASSUME NEW n \in 1..21 PROVE FromTable(t.attr, n) \in Int
    <3> DEFINE s == t.attr
    <3>1. s \in Seq(Int) /\ 20 <= Len(s) /\ Len(s) <= 21
      BY <2>2
    <3> HIDE DEF s
    <3>2. FromTable(s, n) \in Int
      <4>1. CASE n <= Len(s)
        BY <3>1, <4>1 DEF FromTable
      <4>2. CASE ~(n <= Len(s))
        <5>1. n - Len(s) = 1
          BY <3>1, <4>2
        <5>2. FromTable(s, n) = Palette[1]
          BY <4>2, <5>1 DEF FromTable
        <5>3. Palette[1] \in Int
          BY PaletteType
        <5>4. QED
          BY <5>2, <5>3
      <4>3. QED
        BY <4>1, <4>2
    <3>3. QED
      BY <3>2 DEF s
  <2>4. g \in [0..31 -> Int] /\ \A i \in 1..21 : g[i - 1] = FromTable(t.attr, i)
    <3> DEFINE F(n) == FromTable(t.attr, n)
    <3>1. \A n \in 1..21 : F(n) \in Int
      BY <2>3
    <3>2. g = [i \in 0..31 |-> IF i <= 20 THEN F(i + 1) ELSE d.attr[i]]
      BY <2>1
    <3> HIDE DEF F, g
    <3>3. g \in [0..31 -> Int] /\ \A i \in 1..21 : g[i - 1] = F(i)
      BY <2>1, <3>1, <3>2
    <3>4. QED
      BY <3>3 DEF F
  <2>5. e = [u EXCEPT !.at = 20, !.attr = g]
    BY Zenon DEF AttrWrite
  <2>6. u = [d EXCEPT !.flip = "index"]
    BY Zenon DEF Status
  <2> HIDE DEF g, e, u
  <2>7. IndexNext(d, u)
    BY <1>4, <2>6, FlipSet, Zenon
  <2>8. AttrTo(u, g, e)
    <3>1. u \in Cards
      BY <2>7 DEF IndexNext
    <3>2. AttrTo(u, g, [u EXCEPT !.at = 20, !.attr = g])
      <4>1. 20 \in Int
        OBVIOUS
      <4>2. QED
        BY <3>1, <4>1, <2>4, AttrSet, Zenon
    <3>3. QED
      BY <2>5, <3>2, Zenon
  <2>9. QED
    BY <2>4, <2>7, <2>8 DEF AttrTo, IndexNext
<1> HIDE DEF e
<1>6. /\ f \in Cards /\ f.dispi = e.dispi /\ f.misc = e.misc /\ f.seq = e.seq /\ f.crtc = e.crtc /\ f.grc = e.grc /\ f.flip = e.flip
      /\ f.attr = e.attr /\ f.dac = Colours
  <2>1. f = [e EXCEPT !.dac = Colours]
    BY Zenon DEF SetPalette, Colours
  <2> HIDE DEF f
  <2>2. DacTo(e, Colours, f)
    BY <1>5, <2>1, ColoursType, DacSet, Zenon
  <2>3. QED
    BY <2>2 DEF DacTo
<1>7. f = Registers(v, t)
  BY Zenon DEF Registers, a, b, c, d, e
<1> HIDE DEF f
<1>8. /\ f \in Cards /\ f.dispi = v.dispi /\ f.flip = "index" /\ f.misc = t.misc
      /\ f.seq = a.seq /\ f.crtc = c.crtc /\ f.grc = d.grc /\ f.attr = e.attr /\ f.dac = Colours
  BY <1>1, <1>2, <1>3, <1>4, <1>5, <1>6
<1>9. /\ \A i \in 1..Len(t.seq) : f.seq[i - 1] = t.seq[i]
      /\ \A i \in 1..Len(t.crtc) : f.crtc[i - 1] = t.crtc[i]
      /\ \A i \in 1..9 : f.grc[i - 1] = t.grc[i]
      /\ \A i \in 1..21 : f.attr[i - 1] = FromTable(t.attr, i)
  BY <1>1, <1>3, <1>4, <1>5, <1>8, Zenon
<1>10. Set(v, t, f)
  BY <1>8, <1>9, Zenon DEF Set
<1>11. QED
  BY <1>7, <1>10

-----------------------------------------------------------------------------
(* Mode sets, write by write *)

\* The registers of a card after mode ax was set, but attribute 0.
Picture(ax, w) ==
  LET t == Loaded(ax) IN
  /\ w.at = 32 /\ w.dac = Colours /\ w.misc = t.misc
  /\ \A i \in 1..5 : w.seq[i - 1] = t.seq[i]
  /\ \A i \in 1..Len(t.crtc) : w.crtc[i - 1] = t.crtc[i]
  /\ \A i \in 1..9 : w.grc[i - 1] = t.grc[i]
  /\ \A i \in 2..21 : w.attr[i - 1] = t.attr[i]
  /\ ax = 3 => w.font

\* The registers of each mode.
LEMMA LoadedParts ==
  /\ Loaded(3).misc = 103 /\ Loaded(3).seq = <<3, 0, 3, 0, 3>> /\ Loaded(3).crtc = Mode3Crtc
  /\ Loaded(3).grc = Mode3Grap /\ Loaded(3).attr = Mode3Attr
  /\ Loaded(19).misc = 99 /\ Loaded(19).seq = <<1, 15, 15, 14, 14>>
  /\ Loaded(19).crtc = Mode13Crtc /\ Loaded(19).grc = <<0, 0, 0, 0, 0, 0, 5, 15, 15>>
  /\ Loaded(19).attr = Append(Mode13Attr, 0)
<1>1. Loaded(3) = [Table.mode3 EXCEPT !.seq = <<3, 0, 3, 0, 3>>]
  BY DEF Loaded
<1>2. Loaded(19) = [Table.mode13 EXCEPT !.seq = <<1, 15, 15, 14, 14>>, !.attr = Append(@, 0),
                                        !.grc = <<0, 0, 0, 0, 0, 0, 5, 15, 15>>]
  BY DEF Loaded
<1>3. QED
  BY <1>1, <1>2 DEF Table

\* The first byte of the palette.
LEMMA FirstOfPalette == Palette[1] = 0
<1>1. 1 \in 1..192 /\ (1 - 1) \div 3 = 0 /\ 2 - ((1 - 1) % 3) = 2
  OBVIOUS
<1>2. Palette[1] = 42 * Bit((1 - 1) \div 3, 2 - ((1 - 1) % 3))
                     + 21 * Bit((1 - 1) \div 3, 2 - ((1 - 1) % 3) + 3)
  BY <1>1, Zenon DEF Palette
<1>3. Bit(0, 2) = 0 /\ Bit(0, 5) = 0
  BY DEF Bit
<1>4. QED
  BY <1>1, <1>2, <1>3

\* A sequence and one number more.
LEMMA AppendOne ==
  ASSUME NEW s \in Seq(Int), NEW z \in Int
  PROVE  /\ \A j \in 1..Len(s) : Append(s, z)[j] = s[j]
         /\ Append(s, z)[Len(s) + 1] = z
<1>1. \A j \in 1..Len(s) : Append(s, z)[j] = s[j]
  OBVIOUS
<1>2. Append(s, z)[Len(s) + 1] = z
  OBVIOUS
<1>3. QED
  BY <1>1, <1>2

\* The attributes that a mode set writes from its table.
LEMMA AttrsLoaded ==
  /\ \A i \in 1..21 : FromTable(Mode3Attr, i) = Mode3Attr[i]
  /\ \A i \in 1..21 : FromTable(Mode13Attr, i) = Append(Mode13Attr, 0)[i]
<1>1. Len(Mode3Attr) = 21 /\ Len(Mode13Attr) = 20 /\ Mode13Attr \in Seq(Int)
  BY DEF Mode3Attr, Mode13Attr
<1>2. ASSUME NEW i \in 1..21 PROVE FromTable(Mode3Attr, i) = Mode3Attr[i]
  BY <1>1 DEF FromTable
<1>3. ASSUME NEW i \in 1..21 PROVE FromTable(Mode13Attr, i) = Append(Mode13Attr, 0)[i]
  <2> DEFINE s == Mode13Attr
  <2>1. s \in Seq(Int) /\ Len(s) = 20
    BY <1>1
  <2> HIDE DEF s
  <2>2. FromTable(s, i) = IF i = 21 THEN Palette[1] ELSE s[i]
    BY <2>1 DEF FromTable
  <2>3. Append(s, 0)[i] = IF i = 21 THEN 0 ELSE s[i]
    <3> DEFINE z == 0
               w == Append(s, z)
    <3>7. z \in Int
      OBVIOUS
    <3> HIDE DEF z
    <3>8. /\ \A j \in 1..Len(s) : w[j] = s[j]
          /\ w[Len(s) + 1] = z
      BY <2>1, <3>7, AppendOne
    <3> HIDE DEF w
    <3>10. Len(s) + 1 = 21
      BY <2>1
    <3>9. w[21] = z
      BY <3>8, <3>10
    <3>2. \A j \in 1..Len(s) : Append(s, 0)[j] = s[j]
      BY <3>8, Zenon DEF w, z
    <3>3. Append(s, 0)[21] = 0
      BY <3>9, Zenon DEF w, z
    <3>4. CASE i = 21
      BY <3>3, <3>4
    <3>5. CASE i # 21
      <4>1. i \in 1..Len(s)
        BY <2>1, <3>5
      <4>2. Append(s, 0)[i] = s[i]
        BY <3>2, <4>1, Zenon
      <4>3. QED
        BY <3>5, <4>2
    <3>6. QED
      BY <3>4, <3>5
  <2>4. QED
    BY <2>2, <2>3, FirstOfPalette DEF s
<1>4. QED
  BY <1>2, <1>3

\* What a write of n to 0x3C0 leaves, when an index is expected and when a datum is.
IndexGiven(v, n, w) ==
  /\ w \in Cards /\ w.dispi = v.dispi /\ w.misc = v.misc /\ w.seq = v.seq
  /\ w.grc = v.grc /\ w.crtc = v.crtc /\ w.dac = v.dac
  /\ w.attr = v.attr /\ w.font = v.font /\ w.flip = "data" /\ w.at = n
DatumGiven(v, n, w) ==
  /\ w \in Cards /\ w.dispi = v.dispi /\ w.misc = v.misc /\ w.seq = v.seq
  /\ w.grc = v.grc /\ w.crtc = v.crtc /\ w.dac = v.dac
  /\ w.attr = [v.attr EXCEPT ![v.at % 32] = n] /\ w.font = v.font
  /\ w.flip = "index" /\ w.at = v.at

\* A write to 0x3C0 that gives an index.
LEMMA IndexWritten ==
  ASSUME NEW v \in Cards, NEW n \in Int
  PROVE  IndexGiven(v, n, [v EXCEPT !.flip = "data", !.at = n])
<1> DEFINE u == [v EXCEPT !.flip = "data"]
           w == [u EXCEPT !.at = n]
<1>1. /\ u \in Cards /\ u.dispi = v.dispi /\ u.misc = v.misc /\ u.seq = v.seq
      /\ u.grc = v.grc /\ u.crtc = v.crtc /\ u.dac = v.dac
      /\ u.attr = v.attr /\ u.font = v.font /\ u.flip = "data"
  BY DEF Cards
<1>2. w = [v EXCEPT !.flip = "data", !.at = n]
  OBVIOUS
<1> HIDE DEF u
<1>3. /\ w \in Cards /\ w.dispi = u.dispi /\ w.misc = u.misc /\ w.seq = u.seq
      /\ w.grc = u.grc /\ w.crtc = u.crtc /\ w.dac = u.dac
      /\ w.attr = u.attr /\ w.font = u.font /\ w.flip = u.flip /\ w.at = n
  BY <1>1 DEF Cards
<1> HIDE DEF w
<1>4. IndexGiven(v, n, w)
  BY <1>1, <1>3 DEF IndexGiven
<1>5. QED
  BY <1>2, <1>4

\* A write to 0x3C0 that gives a datum.
LEMMA DatumWritten ==
  ASSUME NEW v \in Cards, NEW n \in Int
  PROVE  DatumGiven(v, n, [v EXCEPT !.flip = "index", !.attr[v.at % 32] = n])
<1> DEFINE u == [v EXCEPT !.flip = "index"]
           g == [v.attr EXCEPT ![v.at % 32] = n]
           w == [u EXCEPT !.attr = g]
<1>1. /\ u \in Cards /\ u.dispi = v.dispi /\ u.misc = v.misc /\ u.seq = v.seq
      /\ u.grc = v.grc /\ u.crtc = v.crtc /\ u.dac = v.dac
      /\ u.attr = v.attr /\ u.font = v.font /\ u.flip = "index" /\ u.at = v.at
  BY DEF Cards
<1>2. w = [v EXCEPT !.flip = "index", !.attr[v.at % 32] = n]
  OBVIOUS
<1>3. g \in [0..31 -> Int]
  <2>1. v.at % 32 \in 0..31 /\ v.attr \in [0..31 -> Int]
    BY CardFields
  <2>2. QED
    BY <2>1
<1> HIDE DEF u, g
<1>4. /\ w \in Cards /\ w.dispi = u.dispi /\ w.misc = u.misc /\ w.seq = u.seq
      /\ w.grc = u.grc /\ w.crtc = u.crtc /\ w.dac = u.dac
      /\ w.attr = g /\ w.font = u.font /\ w.flip = u.flip /\ w.at = u.at
  BY <1>1, <1>3 DEF Cards
<1> HIDE DEF w
<1>5. DatumGiven(v, n, w)
  BY <1>1, <1>4 DEF DatumGiven, g
<1>6. QED
  BY <1>2, <1>5

\* A write to 0x3C0 is one or the other.
LEMMA AttrWritten ==
  ASSUME NEW v \in Cards, NEW n \in Int
  PROVE  /\ v.flip = "index" => IndexGiven(v, n, Attr(v, n))
         /\ v.flip # "index" => DatumGiven(v, n, Attr(v, n))
<1>1. CASE v.flip = "index"
  <2>1. Attr(v, n) = [v EXCEPT !.flip = "data", !.at = n]
    BY <1>1, Zenon DEF Attr
  <2>2. QED
    BY <1>1, <2>1, IndexWritten, Zenon
<1>2. CASE v.flip # "index"
  <2>1. Attr(v, n) = [v EXCEPT !.flip = "index", !.attr[v.at % 32] = n]
    BY <1>2, Zenon DEF Attr
  <2>2. QED
    BY <1>2, <2>1, DatumWritten, Zenon
<1>3. QED
  BY <1>1, <1>2

\* The eleven colours of text that are the usual ones come by the palette.
LEMMA Mode3Set ==
  ASSUME NEW v \in Cards
  PROVE  /\ Mode3(v) \in Cards /\ Mode3(v).dispi = v.dispi /\ Mode3(v).flip = "data"
         /\ Picture(3, Mode3(v)) /\ Mode3(v).attr[0] = 0
<1> DEFINE t == Table.mode3
           a == Registers(v, t)
           b == Font(a)
           c == Attr(b, 32)
<1>1. Set(v, t, a)
  BY TablesGood, RegistersSet
<1>2. t.attr[1] = 0 /\ t.grc = Mode3Grap
  BY DEF Table, Mode3Attr
<1> HIDE DEF a, t
<1>3. a \in Cards /\ a.grc \in [0..8 -> Int]
  BY <1>1, CardFields DEF Set
<1>4. \A i \in 0..8 : a.grc[i] = Mode3Grap[i + 1]
  <2>1. TAKE i \in 0..8
  <2>2. i + 1 \in 1..9 /\ (i + 1) - 1 = i
    OBVIOUS
  <2>3. QED
    BY <1>1, <1>2, <2>2 DEF Set
<1>5. /\ b \in Cards /\ Beside(a, b)
      /\ b.grc = [a.grc EXCEPT ![4] = 0, ![5] = 16, ![6] = 14]
      /\ b.seq = [a.seq EXCEPT ![2] = 3, ![4] = 3]
      /\ a.grc[1] = 0 /\ a.grc[3] = 0 /\ a.grc[8] = 255 => b.font
  BY <1>3, FontFilled
<1>6. Mode3Grap[2] = 0 /\ Mode3Grap[4] = 0 /\ Mode3Grap[5] = 0 /\ Mode3Grap[6] = 16
      /\ Mode3Grap[7] = 14 /\ Mode3Grap[9] = 255
  BY DEF Mode3Grap
<1>7. a.grc[1] = 0 /\ a.grc[3] = 0 /\ a.grc[4] = 0 /\ a.grc[5] = 16 /\ a.grc[6] = 14 /\ a.grc[8] = 255
  BY <1>4, <1>6
<1> HIDE DEF b
<1>8. b.font /\ b.grc = a.grc
  BY <1>3, <1>5, <1>7
<1>9. IndexGiven(b, 32, c)
  <2>1. b.flip = "index"
    BY <1>1, <1>5 DEF Set, Beside
  <2>2. QED
    BY <1>5, <2>1, AttrWritten
<1>10. c = Mode3(v)
  BY Zenon DEF Mode3, a, b, t
<1> HIDE DEF c
<1>11. c \in Cards /\ c.dispi = v.dispi /\ c.flip = "data"
  BY <1>1, <1>5, <1>9 DEF Set, Beside, IndexGiven
<1>12. /\ c.at = 32 /\ c.dac = Colours /\ c.font /\ c.crtc = a.crtc /\ c.attr = a.attr
       /\ c.grc = a.grc /\ c.seq = b.seq /\ c.misc = a.misc
  BY <1>1, <1>5, <1>8, <1>9 DEF Set, Beside, IndexGiven
<1>13. /\ \A i \in 1..Len(t.crtc) : c.crtc[i - 1] = t.crtc[i]
       /\ \A i \in 1..21 : c.attr[i - 1] = FromTable(t.attr, i)
       /\ \A i \in 1..9 : c.grc[i - 1] = t.grc[i]
       /\ c.misc = t.misc
  BY <1>1, <1>12 DEF Set
<1>17. \A i \in 1..5 : c.seq[i - 1] = <<3, 0, 3, 0, 3>>[i]
  <2>1. a.seq \in [0..4 -> Int]
    BY <1>3, CardFields
  <2>2. a.seq[0] = 3 /\ a.seq[1] = 0 /\ a.seq[3] = 0
    <3>1. \A i \in 1..5 : a.seq[i - 1] = Mode3Seq[i]
      <4>1. t.seq = Mode3Seq /\ Len(Mode3Seq) = 5
        BY DEF t, Table, Mode3Seq
      <4>2. QED
        BY <1>1, <4>1 DEF Set
    <3>2. Mode3Seq[1] = 3 /\ Mode3Seq[2] = 0 /\ Mode3Seq[4] = 0
      BY DEF Mode3Seq
    <3>3. a.seq[0] = Mode3Seq[1] /\ a.seq[1] = Mode3Seq[2] /\ a.seq[3] = Mode3Seq[4]
      <4>1. /\ 1 \in 1..5 /\ 2 \in 1..5 /\ 4 \in 1..5 /\ 1 - 1 = 0 /\ 2 - 1 = 1 /\ 4 - 1 = 3
        OBVIOUS
      <4>2. a.seq[1 - 1] = Mode3Seq[1] /\ a.seq[2 - 1] = Mode3Seq[2] /\ a.seq[4 - 1] = Mode3Seq[4]
        BY <3>1, <4>1, Zenon
      <4>3. QED
        BY <4>1, <4>2
    <3>4. QED
      BY <3>2, <3>3
  <2>3. c.seq = [a.seq EXCEPT ![2] = 3, ![4] = 3]
    BY <1>5, <1>12
  <2>4. c.seq[0] = 3 /\ c.seq[1] = 0 /\ c.seq[2] = 3 /\ c.seq[3] = 0 /\ c.seq[4] = 3
    BY <2>1, <2>2, <2>3
  <2>5. QED
    BY <2>4
<1>18. /\ t.misc = 103 /\ t.crtc = Mode3Crtc /\ t.grc = Mode3Grap /\ t.attr = Mode3Attr
  BY DEF t, Table
<1>14. Picture(3, c)
  <2>1. \A i \in 2..21 : c.attr[i - 1] = Mode3Attr[i]
    <3>1. TAKE i \in 2..21
    <3>2. i \in 1..21
      OBVIOUS
    <3>3. c.attr[i - 1] = FromTable(t.attr, i)
      BY <1>13, <3>2
    <3>4. FromTable(Mode3Attr, i) = Mode3Attr[i]
      BY <3>2, AttrsLoaded
    <3>5. QED
      BY <1>18, <3>3, <3>4
  <2>2. /\ c.misc = 103 /\ \A i \in 1..Len(Mode3Crtc) : c.crtc[i - 1] = Mode3Crtc[i]
        /\ \A i \in 1..9 : c.grc[i - 1] = Mode3Grap[i]
    BY <1>13, <1>18
  <2> DEFINE u == Loaded(3)
  <2>3. /\ u.misc = 103 /\ u.seq = <<3, 0, 3, 0, 3>> /\ u.crtc = Mode3Crtc
        /\ u.grc = Mode3Grap /\ u.attr = Mode3Attr
    BY LoadedParts
  <2> HIDE DEF u
  <2>4. /\ c.misc = u.misc /\ \A i \in 1..5 : c.seq[i - 1] = u.seq[i]
        /\ \A i \in 1..Len(u.crtc) : c.crtc[i - 1] = u.crtc[i]
        /\ \A i \in 1..9 : c.grc[i - 1] = u.grc[i]
        /\ \A i \in 2..21 : c.attr[i - 1] = u.attr[i]
    <3> DEFINE q == <<3, 0, 3, 0, 3>>
               k == 1..5
    <3>1. \A i \in k : c.seq[i - 1] = q[i]
      BY <1>17, Zenon
    <3>2. u.seq = q
      BY <2>3, Zenon
    <3> HIDE DEF q, k
    <3>3. \A i \in k : c.seq[i - 1] = u.seq[i]
      BY <3>1, <3>2
    <3>4. \A i \in 1..5 : c.seq[i - 1] = u.seq[i]
      BY <3>3, Zenon DEF k
    <3>5. \A i \in 1..Len(u.crtc) : c.crtc[i - 1] = u.crtc[i]
      BY <2>2, <2>3, Zenon
    <3>6. \A i \in 1..9 : c.grc[i - 1] = u.grc[i]
      BY <2>2, <2>3, Zenon
    <3>7. \A i \in 2..21 : c.attr[i - 1] = u.attr[i]
      BY <2>1, <2>3, Zenon
    <3>8. c.misc = u.misc
      BY <2>2, <2>3, Zenon
    <3>9. QED
      BY <3>4, <3>5, <3>6, <3>7, <3>8, Zenon
  <2>5. QED
    BY <1>12, <2>4, Zenon DEF Picture, u
<1>15. c.attr[0] = 0
  <2>1. c.attr[1 - 1] = FromTable(t.attr, 1)
    BY <1>13
  <2>3. 1 \in 1..21
    OBVIOUS
  <2>4. FromTable(Mode3Attr, 1) = Mode3Attr[1]
    BY <2>3, AttrsLoaded, Zenon
  <2>2. QED
    BY <1>2, <1>18, <2>1, <2>4
<1>16. QED
  BY <1>10, <1>11, <1>14, <1>15

\* Mode 0x13 loads its registers, from whatever the card was.
LEMMA Mode13Set ==
  ASSUME NEW v \in Cards
  PROVE  /\ Mode13(v) \in Cards /\ Mode13(v).dispi = v.dispi /\ Mode13(v).flip = "data"
         /\ Picture(19, Mode13(v)) /\ Mode13(v).attr[0] = 0
<1> DEFINE t == Table.mode13
           a == Registers(v, t)
           c == Attr(a, 32)
           d == SeqOut(c, 2, 15)
           e == SeqOut(d, 4, 14)
           f == GrcOut(e, 5, 0)
           g == GrcOut(f, 6, 5)
           h == GrcOut(g, 8, 15)
<1>1. Set(v, t, a)
  BY TablesGood, RegistersSet
<1> HIDE DEF a, t
<1>2. IndexGiven(a, 32, c)
  BY <1>1, AttrWritten DEF Set
<1> HIDE DEF c
<1>3. c \in Cards
  BY <1>2 DEF IndexGiven
<1>4. SeqWrote(c, 2, 15, d)
  BY <1>3, SeqOuts
<1> HIDE DEF d
<1>5. d \in Cards
  BY <1>4 DEF SeqWrote
<1>6. SeqWrote(d, 4, 14, e)
  BY <1>5, SeqOuts
<1> HIDE DEF e
<1>7. e \in Cards
  BY <1>6 DEF SeqWrote
<1>8. GrcWrote(e, 5, 0, f)
  BY <1>7, GrcOuts
<1> HIDE DEF f
<1>9. f \in Cards
  BY <1>8 DEF GrcWrote
<1>10. GrcWrote(f, 6, 5, g)
  BY <1>9, GrcOuts
<1> HIDE DEF g
<1>11. g \in Cards
  BY <1>10 DEF GrcWrote
<1>12. GrcWrote(g, 8, 15, h)
  BY <1>11, GrcOuts
<1>13. h = Mode13(v)
  BY Zenon DEF Mode13, a, c, d, e, f, g, t
<1> HIDE DEF h
<1>14. Beside(c, h) /\ h \in Cards
  BY <1>4, <1>6, <1>8, <1>10, <1>12 DEF SeqWrote, GrcWrote, Beside
<1>15. h.dispi = v.dispi /\ h.flip = "data"
  BY <1>1, <1>2, <1>14 DEF Set, Beside, IndexGiven
<1>16. h.at = 32 /\ h.dac = Colours /\ h.crtc = a.crtc /\ h.attr = a.attr /\ h.misc = a.misc
  BY <1>1, <1>2, <1>14 DEF Set, Beside, IndexGiven
<1>17. /\ \A i \in 1..Len(t.crtc) : h.crtc[i - 1] = t.crtc[i]
       /\ \A i \in 1..21 : h.attr[i - 1] = FromTable(t.attr, i)
       /\ h.misc = t.misc
  BY <1>1, <1>16 DEF Set
<1>20. /\ t.misc = 99 /\ t.seq = Mode13Seq /\ t.crtc = Mode13Crtc /\ t.grc = Mode13Grap
       /\ t.attr = Mode13Attr
  BY DEF t, Table
<1>21. a.seq \in [0..4 -> Int] /\ a.grc \in [0..8 -> Int]
  BY <1>1, CardFields DEF Set
<1>22. \A i \in 1..5 : h.seq[i - 1] = <<1, 15, 15, 14, 14>>[i]
  <2>1. h.seq = [a.seq EXCEPT ![2] = 15, ![4] = 14]
    BY <1>2, <1>4, <1>6, <1>8, <1>10, <1>12, <1>21 DEF IndexGiven, SeqWrote, GrcWrote
  <2>2. a.seq[0] = 1 /\ a.seq[1] = 15 /\ a.seq[3] = 14
    <3>1. \A i \in 1..4 : a.seq[i - 1] = Mode13Seq[i]
      <4>1. Len(Mode13Seq) = 4
        BY DEF Mode13Seq
      <4>2. QED
        BY <1>1, <1>20, <4>1 DEF Set
    <3>2. Mode13Seq[1] = 1 /\ Mode13Seq[2] = 15 /\ Mode13Seq[4] = 14
      BY DEF Mode13Seq
    <3>3. /\ a.seq[1 - 1] = Mode13Seq[1] /\ a.seq[2 - 1] = Mode13Seq[2]
          /\ a.seq[4 - 1] = Mode13Seq[4]
      BY <3>1
    <3>4. QED
      BY <3>2, <3>3
  <2>3. h.seq[0] = 1 /\ h.seq[1] = 15 /\ h.seq[2] = 15 /\ h.seq[3] = 14 /\ h.seq[4] = 14
    BY <1>21, <2>1, <2>2
  <2>4. QED
    BY <2>3
<1>23. \A i \in 1..9 : h.grc[i - 1] = <<0, 0, 0, 0, 0, 0, 5, 15, 15>>[i]
  <2>1. h.grc = [a.grc EXCEPT ![5] = 0, ![6] = 5, ![8] = 15]
    BY <1>2, <1>4, <1>6, <1>8, <1>10, <1>12, <1>21 DEF IndexGiven, SeqWrote, GrcWrote
  <2>2. /\ a.grc[0] = 0 /\ a.grc[1] = 0 /\ a.grc[2] = 0 /\ a.grc[3] = 0 /\ a.grc[4] = 0
        /\ a.grc[7] = 15
    <3>1. \A i \in 1..9 : a.grc[i - 1] = Mode13Grap[i]
      BY <1>1, <1>20 DEF Set
    <3>2. /\ Mode13Grap[1] = 0 /\ Mode13Grap[2] = 0 /\ Mode13Grap[3] = 0 /\ Mode13Grap[4] = 0
          /\ Mode13Grap[5] = 0 /\ Mode13Grap[8] = 15
      BY DEF Mode13Grap
    <3>3. /\ a.grc[1 - 1] = Mode13Grap[1] /\ a.grc[2 - 1] = Mode13Grap[2]
          /\ a.grc[3 - 1] = Mode13Grap[3] /\ a.grc[4 - 1] = Mode13Grap[4]
          /\ a.grc[5 - 1] = Mode13Grap[5] /\ a.grc[8 - 1] = Mode13Grap[8]
      BY <3>1
    <3>4. QED
      BY <3>2, <3>3
  <2>3. /\ h.grc[0] = 0 /\ h.grc[1] = 0 /\ h.grc[2] = 0 /\ h.grc[3] = 0 /\ h.grc[4] = 0
        /\ h.grc[5] = 0 /\ h.grc[6] = 5 /\ h.grc[7] = 15 /\ h.grc[8] = 15
    BY <1>21, <2>1, <2>2
  <2>4. QED
    BY <2>3
<1>18. Picture(19, h)
  <2>1. \A i \in 2..21 : h.attr[i - 1] = Append(Mode13Attr, 0)[i]
    <3>1. \A i \in 2..21 : i \in 1..21
      OBVIOUS
    <3>2. QED
      BY <3>1, <1>17, <1>20, AttrsLoaded
  <2>2. h.misc = 99 /\ \A i \in 1..Len(Mode13Crtc) : h.crtc[i - 1] = Mode13Crtc[i]
    BY <1>17, <1>20
  <2>3. 19 # 3
    OBVIOUS
  <2> DEFINE u == Loaded(19)
  <2>4. /\ u.misc = 99 /\ u.seq = <<1, 15, 15, 14, 14>> /\ u.crtc = Mode13Crtc
        /\ u.grc = <<0, 0, 0, 0, 0, 0, 5, 15, 15>> /\ u.attr = Append(Mode13Attr, 0)
    BY LoadedParts
  <2> HIDE DEF u
  <2>5. /\ h.misc = u.misc /\ \A i \in 1..5 : h.seq[i - 1] = u.seq[i]
        /\ \A i \in 1..Len(u.crtc) : h.crtc[i - 1] = u.crtc[i]
        /\ \A i \in 1..9 : h.grc[i - 1] = u.grc[i]
        /\ \A i \in 2..21 : h.attr[i - 1] = u.attr[i]
    BY <1>22, <1>23, <2>1, <2>2, <2>4
  <2>6. QED
    BY <1>16, <2>3, <2>5, Zenon DEF Picture, u
<1>24. h.attr[0] = 0
  <2>1. h.attr[1 - 1] = FromTable(Mode13Attr, 1)
    BY <1>17, <1>20
  <2>2. FromTable(Mode13Attr, 1) = 0
    BY DEF FromTable, Mode13Attr
  <2>3. QED
    BY <2>1, <2>2
<1>19. QED
  BY <1>13, <1>14, <1>15, <1>18, <1>24

-----------------------------------------------------------------------------
(* VBE *)

\* What a write of a register of VBE leaves.
DispiGiven(v, i, n, w) ==
  /\ w \in Cards /\ w.misc = v.misc /\ w.seq = v.seq
  /\ w.grc = v.grc /\ w.crtc = v.crtc /\ w.dac = v.dac /\ w.attr = v.attr
  /\ w.font = v.font /\ w.flip = v.flip /\ w.at = v.at /\ w.dispi = [v.dispi EXCEPT ![i] = n]

\* A size is set only while VBE is disabled; bit 0 of register 4 says which.
LEMMA DispiWritten ==
  ASSUME NEW v \in Cards, NEW i \in 0..4, NEW n \in Int, i = 4 \/ v.dispi[4] % 2 = 0
  PROVE  DispiGiven(v, i, n, Dispi(v, i, n))
<1> DEFINE g == [v.dispi EXCEPT ![i] = n]
           w == [v EXCEPT !.dispi = g]
<1>1. g \in [0..4 -> Int]
  BY CardFields
<1>2. Dispi(v, i, n) = [v EXCEPT !.dispi[i] = n]
  BY DEF Dispi
<1>3. w = [v EXCEPT !.dispi[i] = n]
  OBVIOUS
<1> HIDE DEF g
<1>4. /\ w \in Cards /\ w.misc = v.misc /\ w.seq = v.seq /\ w.grc = v.grc /\ w.crtc = v.crtc /\ w.dac = v.dac /\ w.attr = v.attr
      /\ w.font = v.font /\ w.flip = v.flip /\ w.at = v.at /\ w.dispi = g
  BY <1>1 DEF Cards
<1> HIDE DEF w
<1>5. DispiGiven(v, i, n, w)
  BY <1>4 DEF DispiGiven, g
<1>6. QED
  BY <1>2, <1>3, <1>5

\* The size of the VBE mode and its two bits of enabling.
Sized(w) == /\ w.dispi[1] = 800 /\ w.dispi[2] = 600 /\ w.dispi[3] = 16 /\ w.dispi[4] = 193

\* The VBE call sets its size, and of a mode's registers writes attribute 0 at most.
LEMMA VbeSet ==
  ASSUME NEW v \in Cards
  PROVE  /\ Vbe(v) \in Cards /\ Sized(Vbe(v))
         /\ v.flip # "index" => Vbe(v).flip = "index"
         /\ \A ax : Picture(ax, v) => Picture(ax, Vbe(v))
<1> DEFINE a == Attr(v, 32)
           b == Dispi(a, 4, 0)
           c == Dispi(b, 1, 800)
           d == Dispi(c, 2, 600)
           e == Dispi(d, 3, 16)
           f == Dispi(e, 4, 193)
<1>1. IF v.flip = "index" THEN IndexGiven(v, 32, a) ELSE DatumGiven(v, 32, a)
  BY AttrWritten
<1> HIDE DEF a
<1>2. a \in Cards
  BY <1>1 DEF IndexGiven, DatumGiven
<1>3. DispiGiven(a, 4, 0, b)
  BY <1>2, DispiWritten
<1> HIDE DEF b
<1>4. b \in Cards /\ b.dispi[4] = 0
  <2>1. a.dispi \in [0..4 -> Int]
    BY <1>2, CardFields
  <2>2. QED
    BY <1>3, <2>1 DEF DispiGiven
<1>5. DispiGiven(b, 1, 800, c)
  BY <1>4, DispiWritten
<1> HIDE DEF c
<1>6. c \in Cards /\ c.dispi[4] = 0 /\ c.dispi[1] = 800
  <2>1. b.dispi \in [0..4 -> Int]
    BY <1>4, CardFields
  <2>2. QED
    BY <1>4, <1>5, <2>1 DEF DispiGiven
<1>7. DispiGiven(c, 2, 600, d)
  BY <1>6, DispiWritten
<1> HIDE DEF d
<1>8. d \in Cards /\ d.dispi[4] = 0 /\ d.dispi[1] = 800 /\ d.dispi[2] = 600
  <2>1. c.dispi \in [0..4 -> Int]
    BY <1>6, CardFields
  <2>2. QED
    BY <1>6, <1>7, <2>1 DEF DispiGiven
<1>9. DispiGiven(d, 3, 16, e)
  BY <1>8, DispiWritten
<1> HIDE DEF e
<1>10. e \in Cards /\ e.dispi[1] = 800 /\ e.dispi[2] = 600 /\ e.dispi[3] = 16
  <2>1. d.dispi \in [0..4 -> Int]
    BY <1>8, CardFields
  <2>2. QED
    BY <1>8, <1>9, <2>1 DEF DispiGiven
<1>11. DispiGiven(e, 4, 193, f)
  BY <1>10, DispiWritten
<1>12. f = Vbe(v)
  BY Zenon DEF Vbe, a, b, c, d, e
<1> HIDE DEF f
<1>13. f \in Cards /\ Sized(f)
  <2>1. e.dispi \in [0..4 -> Int]
    BY <1>10, CardFields
  <2>2. QED
    BY <1>10, <1>11, <2>1 DEF DispiGiven, Sized
<1>14. /\ f.misc = a.misc /\ f.seq = a.seq
       /\ f.grc = a.grc /\ f.crtc = a.crtc /\ f.dac = a.dac /\ f.attr = a.attr
       /\ f.font = a.font /\ f.flip = a.flip /\ f.at = a.at
  BY <1>3, <1>5, <1>7, <1>9, <1>11 DEF DispiGiven
<1>15. v.flip # "index" => f.flip = "index"
  BY <1>1, <1>14 DEF DatumGiven
<1>16. ASSUME NEW ax, Picture(ax, v) PROVE Picture(ax, f)
  <2>1. /\ f.misc = v.misc /\ f.seq = v.seq /\ f.grc = v.grc /\ f.crtc = v.crtc
        /\ f.dac = v.dac /\ f.font = v.font
    BY <1>1, <1>14 DEF IndexGiven, DatumGiven
  <2>2. v.at = 32
    BY <1>16, Zenon DEF Picture
  <2>3. f.at = 32
    BY <1>1, <1>14, <2>2 DEF IndexGiven, DatumGiven
  <2>4. \A i \in 2..21 : f.attr[i - 1] = v.attr[i - 1]
    <3>1. CASE v.flip = "index"
      BY <1>1, <1>14, <3>1 DEF IndexGiven
    <3>2. CASE v.flip # "index"
      <4>1. v.attr \in [0..31 -> Int]
        BY CardFields
      <4>2. f.attr = [v.attr EXCEPT ![0] = 32]
        BY <1>1, <1>14, <2>2, <3>2 DEF DatumGiven
      <4>3. QED
        BY <4>1, <4>2
    <3>3. QED
      BY <3>1, <3>2
  <2> DEFINE t == Loaded(ax)
  <2>5. /\ v.dac = Colours /\ v.misc = t.misc
        /\ \A i \in 1..5 : v.seq[i - 1] = t.seq[i]
        /\ \A i \in 1..Len(t.crtc) : v.crtc[i - 1] = t.crtc[i]
        /\ \A i \in 1..9 : v.grc[i - 1] = t.grc[i]
        /\ \A i \in 2..21 : v.attr[i - 1] = t.attr[i]
        /\ ax = 3 => v.font
    BY <1>16, Zenon DEF Picture
  <2>6. \A i \in 2..21 : f.attr[i - 1] = t.attr[i]
    BY <2>4, <2>5, Zenon
  <2> HIDE DEF t
  <2>7. /\ f.dac = Colours /\ f.misc = t.misc
        /\ \A i \in 1..5 : f.seq[i - 1] = t.seq[i]
        /\ \A i \in 1..Len(t.crtc) : f.crtc[i - 1] = t.crtc[i]
        /\ \A i \in 1..9 : f.grc[i - 1] = t.grc[i]
        /\ ax = 3 => f.font
    BY <2>1, <2>5, Zenon
  <2>8. QED
    BY <2>3, <2>6, <2>7, Zenon DEF Picture, t
<1>17. QED
  BY <1>12, <1>13, <1>15, <1>16

-----------------------------------------------------------------------------
(* Calls of interrupt 0x10, one after the other *)

\* AX of the calls of VideoCall.
Ax == {3, 19, 20224, 20226}

\* What AX selects.
LEMMA Dispatched ==
  ASSUME NEW v
  PROVE  /\ Int10(v, 3) = Mode3(v) /\ Int10(v, 19) = Mode13(v)
         /\ Int10(v, 20226) = Vbe(v) /\ Int10(v, 20224) = v
<1>1. 3 \div 256 = 0 /\ 3 % 256 = 3 /\ 19 \div 256 = 0 /\ 19 % 256 = 19
  OBVIOUS
<1>2. 20226 \div 256 = 79 /\ 20224 \div 256 = 79
  OBVIOUS
<1>3. Int10(v, 3) = Mode3(v)
  BY <1>1 DEF Int10
<1>4. Int10(v, 19) = Mode13(v)
  BY <1>1 DEF Int10
<1>5. Int10(v, 20226) = Vbe(v)
  BY <1>2 DEF Int10
<1>6. Int10(v, 20224) = v
  BY <1>2 DEF Int10
<1>7. QED
  BY <1>3, <1>4, <1>5, <1>6

\* A call leaves a card.
LEMMA CardKept ==
  ASSUME NEW v \in Cards, NEW ax \in Ax
  PROVE  Int10(v, ax) \in Cards
<1>1. ax = 3 \/ ax = 19 \/ ax = 20224 \/ ax = 20226
  BY DEF Ax
<1>2. QED
  BY <1>1, Dispatched, Mode3Set, Mode13Set, VbeSet

\* The calls of a sequence, one after the other.
Answered(v, calls, f) ==
  /\ f \in [0..Len(calls) -> Cards] /\ f[0] = v
  /\ \A k \in 1..Len(calls) : f[k] = Int10(f[k - 1], calls[k])

\* Called makes the calls one by one.
LEMMA CalledInTurn ==
  ASSUME NEW v \in Cards, NEW calls \in Seq(Ax)
  PROVE  \E f : Answered(v, calls, f) /\ Called(v, calls) = f[Len(calls)]
<1> DEFINE n == Len(calls)
           step == [p \in (1..n) \X Cards |-> Int10(p[2], calls[p[1]])]
           A(f) == f = [k \in 0..n |-> IF k = 0 THEN v ELSE Int10(f[k - 1], calls[k])]
           after == CHOOSE f : A(f)
<1>1. n \in Nat
  OBVIOUS
<1>2. \A k \in 1..n, s \in Cards :
        step[<<k, s>>] = Int10(s, calls[k]) /\ step[<<k, s>>] \in Cards
  <2>1. TAKE k \in 1..n, s \in Cards
  <2>2. calls[k] \in Ax
    OBVIOUS
  <2>3. step[<<k, s>>] = Int10(s, calls[k])
    OBVIOUS
  <2>4. QED
    BY <2>2, <2>3, CardKept
<1> HIDE DEF step
<1>3. PICK f \in [0..n -> Cards] : Path(n, v, step, f)
  BY <1>1, <1>2, Loops
<1>4. \A k \in 0..n : f[k] = IF k = 0 THEN v ELSE Int10(f[k - 1], calls[k])
  <2>1. \A k \in 0..n : f[k] = IF k = 0 THEN v ELSE step[<<k, f[k - 1]>>]
    BY <1>3 DEF Path
  <2>2. TAKE k \in 0..n
  <2>3. k # 0 => k \in 1..n /\ f[k - 1] \in Cards
    OBVIOUS
  <2>4. QED
    BY <1>2, <2>1, <2>3
<1>5. A(f)
  <2> DEFINE g == [k \in 0..n |-> IF k = 0 THEN v ELSE Int10(f[k - 1], calls[k])]
  <2>1. \A k \in 0..n : f[k] = g[k]
    BY <1>4
  <2>2. f = g
    BY <2>1
  <2>3. QED
    BY <2>2
<1>6. A(after)
  BY <1>5
<1>7. Called(v, calls) = after[n]
  BY Zenon DEF Called
<1> HIDE DEF after
<1>8. \A k \in 0..n : after[k] = IF k = 0 THEN v ELSE Int10(after[k - 1], calls[k])
  BY <1>6
<1> DEFINE T == {k \in Nat : k <= n => after[k] \in Cards}
<1>9. 0 \in T
  BY <1>8
<1>10. ASSUME NEW k \in T PROVE k + 1 \in T
  <2>1. SUFFICES ASSUME k + 1 <= n PROVE after[k + 1] \in Cards
    OBVIOUS
  <2>2. after[k] \in Cards /\ k + 1 \in 1..n /\ (k + 1) - 1 = k
    BY <2>1
  <2>3. after[k + 1] = Int10(after[k], calls[k + 1])
    BY <1>8, <2>2
  <2>4. calls[k + 1] \in Ax
    BY <2>2
  <2>5. QED
    BY <2>2, <2>3, <2>4, CardKept
<1>11. Nat \subseteq T
  <2>1. \A k \in Nat : k \in T => k + 1 \in T
    BY <1>10
  <2> HIDE DEF T
  <2>2. QED
    BY <1>9, <2>1, Induction
<1>12. after \in [0..n -> Cards]
  <2>1. \A k \in 0..n : after[k] \in Cards
    BY <1>11
  <2>2. after = [k \in 0..n |-> after[k]]
    <3> DEFINE g == [k \in 0..n |-> IF k = 0 THEN v ELSE Int10(after[k - 1], calls[k])]
    <3>1. after = g
      BY <1>6
    <3>2. g = [k \in 0..n |-> g[k]]
      OBVIOUS
    <3> HIDE DEF g
    <3>3. QED
      BY <3>1, <3>2
  <2>3. QED
    BY <2>1, <2>2
<1>13. Answered(v, calls, after)
  BY <1>8, <1>12 DEF Answered
<1>14. QED
  BY <1>7, <1>13

\* The mode set m is the last of the first k calls.
LastOf(calls, m, k) == calls[m] < 256 /\ \A j \in 1..k : j > m => calls[j] >= 256

\* What the first k calls leave: VBE enabled at its size if it was called, whatever
\* mode was set after it, and the registers of the mode set last; attribute 0 is
\* black unless VBE's call came after that.
LeftBy(calls, k, w) ==
  /\ (\E j \in 1..k : calls[j] = 20226) => Sized(w)
  /\ \A m \in 1..k : LastOf(calls, m, k) =>
       /\ Picture(calls[m], w)
       /\ (\A j \in 1..k : j > m => calls[j] # 20226) => w.attr[0] = 0

\* A call more.
LEMMA OneMore ==
  ASSUME NEW calls \in Seq(Ax), NEW k \in Nat, k + 1 <= Len(calls), NEW v \in Cards,
         LeftBy(calls, k, v)
  PROVE  LeftBy(calls, k + 1, Int10(v, calls[k + 1]))
<1> DEFINE w == Int10(v, calls[k + 1])
<1>1. /\ k + 1 \in 1..(k + 1) /\ \A j \in 1..k : j \in 1..(k + 1)
      /\ \A j \in 1..(k + 1) : j = k + 1 \/ j \in 1..k
  OBVIOUS
<1>2. calls[k + 1] = 3 \/ calls[k + 1] = 19 \/ calls[k + 1] = 20224 \/ calls[k + 1] = 20226
  <2>1. calls[k + 1] \in Ax
    OBVIOUS
  <2>2. QED
    BY <2>1 DEF Ax
<1>3. calls[k + 1] = 20226 \/ w.dispi = v.dispi
  BY <1>2, Dispatched, Mode3Set, Mode13Set
<1>4. (\E j \in 1..(k + 1) : calls[j] = 20226) => Sized(w)
  <2>1. CASE calls[k + 1] = 20226
    BY <2>1, Dispatched, VbeSet
  <2>2. CASE calls[k + 1] # 20226
    BY <2>2, <1>1, <1>3 DEF LeftBy, Sized
  <2>3. QED
    BY <2>1, <2>2
<1>5. ASSUME NEW m \in 1..(k + 1), LastOf(calls, m, k + 1)
      PROVE  /\ Picture(calls[m], w)
             /\ (\A j \in 1..(k + 1) : j > m => calls[j] # 20226) => w.attr[0] = 0
  <2>1. CASE m = k + 1
    <3>1. calls[k + 1] < 256
      BY <1>5, <2>1 DEF LastOf
    <3>2. calls[k + 1] = 3 \/ calls[k + 1] = 19
      BY <1>2, <3>1
    <3>3. calls[k + 1] = 3 => Picture(3, w) /\ w.attr[0] = 0
      BY Dispatched, Mode3Set
    <3>4. calls[k + 1] = 19 => Picture(19, w) /\ w.attr[0] = 0
      BY Dispatched, Mode13Set
    <3> HIDE DEF w
    <3>5. QED
      BY <2>1, <3>2, <3>3, <3>4
  <2>2. CASE m # k + 1
    <3>1. m \in 1..k /\ LastOf(calls, m, k) /\ calls[k + 1] >= 256
      BY <1>1, <1>5, <2>2 DEF LastOf
    <3>2. /\ Picture(calls[m], v)
          /\ (\A j \in 1..k : j > m => calls[j] # 20226) => v.attr[0] = 0
      BY <3>1 DEF LeftBy
    <3>3. calls[k + 1] = 20224 \/ calls[k + 1] = 20226
      BY <1>2, <3>1
    <3>4. CASE calls[k + 1] = 20224
      <4>1. w = v
        BY <3>4, Dispatched
      <4> HIDE DEF w
      <4>2. QED
        BY <1>1, <3>2, <4>1
    <3>5. CASE calls[k + 1] = 20226
      <4>1. Picture(calls[m], w)
        BY <3>2, <3>5, Dispatched, VbeSet
      <4>2. k + 1 > m
        BY <3>1
      <4>3. QED
        BY <1>1, <3>5, <4>1, <4>2
    <3>6. QED
      BY <3>3, <3>4, <3>5
  <2>3. QED
    BY <2>1, <2>2
<1> HIDE DEF w
<1>6. LeftBy(calls, k + 1, w)
  BY <1>4, <1>5 DEF LeftBy
<1>7. QED
  BY <1>6 DEF w

\* After any number of calls of interrupt 0x10, from any state of the card, every
\* register of the mode set last holds its byte; VBE, once called, stays enabled at
\* its size, since no mode set disables it.
THEOREM AllCalls ==
  ASSUME NEW v \in Cards, NEW calls \in Seq(Ax)
  PROVE  LeftBy(calls, Len(calls), Called(v, calls))
<1>1. PICK f : Answered(v, calls, f) /\ Called(v, calls) = f[Len(calls)]
  BY CalledInTurn
<1> DEFINE T == {k \in Nat : k <= Len(calls) => LeftBy(calls, k, f[k])}
<1>2. 0 \in T
  BY DEF LeftBy
<1>3. ASSUME NEW k \in T PROVE k + 1 \in T
  <2>1. SUFFICES ASSUME k + 1 <= Len(calls) PROVE LeftBy(calls, k + 1, f[k + 1])
    OBVIOUS
  <2>2. k \in Nat /\ k \in 0..Len(calls) /\ k + 1 \in 1..Len(calls) /\ (k + 1) - 1 = k
    BY <2>1
  <2>3. f[k] \in Cards /\ LeftBy(calls, k, f[k])
    BY <1>1, <2>2 DEF Answered
  <2>4. f[k + 1] = Int10(f[k], calls[k + 1])
    BY <1>1, <2>2 DEF Answered
  <2>5. QED
    BY <2>1, <2>2, <2>3, <2>4, OneMore
<1>4. Nat \subseteq T
  <2>1. \A k \in Nat : k \in T => k + 1 \in T
    BY <1>3
  <2> HIDE DEF T
  <2>2. QED
    BY <1>2, <2>1, Induction
<1>5. Len(calls) \in T
  BY <1>4
<1>6. QED
  BY <1>1, <1>5

\* A mode set, then VBE: 0x3C0 is left waiting for an index.
LEMMA IndexAwaited ==
  ASSUME NEW v \in Cards, NEW calls \in Seq(Ax), Len(calls) = 2, calls[1] < 256, calls[2] = 20226
  PROVE  Called(v, calls).flip = "index"
<1>1. PICK f : Answered(v, calls, f) /\ Called(v, calls) = f[Len(calls)]
  BY CalledInTurn
<1>2. f[1] = Int10(v, calls[1]) /\ f[2] = Int10(f[1], 20226) /\ f[1] \in Cards
  <2>1. 1 \in 1..Len(calls) /\ 2 \in 1..Len(calls) /\ 1 \in 0..Len(calls) /\ 1 - 1 = 0 /\ 2 - 1 = 1
    OBVIOUS
  <2>2. QED
    BY <1>1, <2>1 DEF Answered
<1>3. calls[1] = 3 \/ calls[1] = 19
  <2>1. calls[1] \in Ax
    OBVIOUS
  <2>2. QED
    BY <2>1 DEF Ax
<1>4. f[1].flip = "data"
  BY <1>2, <1>3, Dispatched, Mode3Set, Mode13Set
<1>5. f[2].flip = "index"
  BY <1>2, <1>4, Dispatched, VbeSet
<1>6. QED
  BY <1>1, <1>5

-----------------------------------------------------------------------------
(* Colours of text *)

\* Each byte of the palette is two bits of its colour's number.
LEMMA PaletteAt ==
  ASSUME NEW x \in 0..63, NEW k \in 1..3
  PROVE  Palette[3 * x + k] = 42 * Bit(x, 3 - k) + 21 * Bit(x, 6 - k)
<1> DEFINE n == 3 * x + k
<1>1. n \in 1..192 /\ (n - 1) \div 3 = x /\ (n - 1) % 3 = k - 1
  OBVIOUS
<1> HIDE DEF n
<1>2. Palette[n] = 42 * Bit((n - 1) \div 3, 2 - ((n - 1) % 3))
                     + 21 * Bit((n - 1) \div 3, 2 - ((n - 1) % 3) + 3)
  BY <1>1, Zenon DEF Palette
<1>3. 2 - (k - 1) = 3 - k /\ 3 - k + 3 = 6 - k
  OBVIOUS
<1>4. Palette[n] = 42 * Bit(x, 3 - k) + 21 * Bit(x, 6 - k)
  BY <1>1, <1>2, <1>3
<1>5. QED
  BY <1>4 DEF n

\* A colour by its three components.
Components(x) == [k \in 1..3 |-> 42 * Bit(x, 3 - k) + 21 * Bit(x, 6 - k)]

\* So each colour has the components of its number.
LEMMA ColourAt ==
  ASSUME NEW x \in 0..63
  PROVE  Colours[x] = Components(x)
<1> DEFINE s == SubSeq(Palette, 3 * x + 1, 3 * x + 3)
           m == 3 * x + 1
           n == 3 * x + 3
<1>1. Colours[x] = s
  BY Zenon DEF Colours
<1>2. /\ m \in 1..(Len(Palette) + 1) /\ n \in (m - 1)..Len(Palette) /\ n - m + 1 = 3
      /\ \A k \in 1..3 : m + k - 1 = 3 * x + k
  <2> DEFINE l == Len(Palette)
  <2>1. l = 192
    BY PaletteSeq
  <2> HIDE DEF l
  <2>2. m \in 1..(l + 1) /\ n \in (m - 1)..l /\ n - m + 1 = 3 /\ \A k \in 1..3 : m + k - 1 = 3 * x + k
    BY <2>1
  <2>3. QED
    BY <2>2 DEF l
<1>3. s = [k \in 1..3 |-> Palette[3 * x + k]]
  <2> HIDE DEF m, n
  <2>1. SubSeq(Palette, m, n) = [k \in 1..(n - m + 1) |-> Palette[m + k - 1]]
    BY <1>2, PaletteSeq, SubSeqProperties
  <2>2. SubSeq(Palette, m, n) = [k \in 1..3 |-> Palette[3 * x + k]]
    BY <1>2, <2>1
  <2>3. QED
    BY <2>2 DEF m, n
<1> HIDE DEF s
<1>4. \A k \in 1..3 : Palette[3 * x + k] = 42 * Bit(x, 3 - k) + 21 * Bit(x, 6 - k)
  BY PaletteAt
<1>5. QED
  BY <1>1, <1>3, <1>4 DEF Components

\* The six bits of a number.
LEMMA BitsOf ==
  ASSUME NEW n \in Nat
  PROVE  /\ Bit(n, 0) = n % 2 /\ Bit(n, 1) = (n \div 2) % 2 /\ Bit(n, 2) = (n \div 4) % 2
         /\ Bit(n, 3) = (n \div 8) % 2 /\ Bit(n, 4) = (n \div 16) % 2 /\ Bit(n, 5) = (n \div 32) % 2
<1> DEFINE p == <<1, 2, 4, 8, 16, 32>>
<1>1. /\ p[0 + 1] = 1 /\ p[1 + 1] = 2 /\ p[2 + 1] = 4 /\ p[3 + 1] = 8 /\ p[4 + 1] = 16
      /\ p[5 + 1] = 32
  OBVIOUS
<1>2. \A i \in 0..5 : Bit(n, i) = (n \div p[i + 1]) % 2
  BY DEF Bit
<1> HIDE DEF p
<1>3. n \div 1 = n
  OBVIOUS
<1>4. QED
  BY <1>1, <1>2, <1>3

\* A colour of text whose entry has its three bits, and the bright one thrice.
LEMMA SameColour ==
  ASSUME NEW c \in Nat, c # 6, NEW x \in Nat,
         x % 2 = c % 2, (x \div 2) % 2 = (c \div 2) % 2, (x \div 4) % 2 = (c \div 4) % 2,
         (x \div 8) % 2 = (c \div 8) % 2, (x \div 16) % 2 = (c \div 8) % 2,
         (x \div 32) % 2 = (c \div 8) % 2
  PROVE  Components(x) = TextColour(c)
<1>1. /\ Bit(x, 0) = Bit(c, 0) /\ Bit(x, 1) = Bit(c, 1) /\ Bit(x, 2) = Bit(c, 2)
      /\ Bit(x, 3) = Bit(c, 3) /\ Bit(x, 4) = Bit(c, 3) /\ Bit(x, 5) = Bit(c, 3)
  <2>1. /\ Bit(x, 0) = x % 2 /\ Bit(x, 1) = (x \div 2) % 2 /\ Bit(x, 2) = (x \div 4) % 2
        /\ Bit(x, 3) = (x \div 8) % 2 /\ Bit(x, 4) = (x \div 16) % 2 /\ Bit(x, 5) = (x \div 32) % 2
    BY BitsOf
  <2>2. /\ Bit(c, 0) = c % 2 /\ Bit(c, 1) = (c \div 2) % 2 /\ Bit(c, 2) = (c \div 4) % 2
        /\ Bit(c, 3) = (c \div 8) % 2
    BY BitsOf
  <2>3. QED
    BY <2>1, <2>2, Zenon
<1>2. \A k \in 1..3 : Bit(x, 3 - k) = Bit(c, 3 - k) /\ Bit(x, 6 - k) = Bit(c, 3)
  <2>1. TAKE k \in 1..3
  <2>2. k = 1 \/ k = 2 \/ k = 3
    OBVIOUS
  <2>3. /\ k = 1 => 3 - k = 2 /\ 6 - k = 5
        /\ k = 2 => 3 - k = 1 /\ 6 - k = 4
        /\ k = 3 => 3 - k = 0 /\ 6 - k = 3
    OBVIOUS
  <2>4. QED
    BY <1>1, <2>2, <2>3, Zenon
<1>3. QED
  BY <1>2 DEF Components, TextColour

\* Brown is entry 20, with half the green.
LEMMA BrownIs == Components(20) = TextColour(6)
<1>1. /\ Bit(20, 0) = 0 /\ Bit(20, 1) = 0 /\ Bit(20, 2) = 1
      /\ Bit(20, 3) = 0 /\ Bit(20, 4) = 1 /\ Bit(20, 5) = 0
  <2>1. 20 \in Nat
    OBVIOUS
  <2>2. QED
    BY <2>1, BitsOf
<1>2. \A k \in 1..3 : 42 * Bit(20, 3 - k) + 21 * Bit(20, 6 - k) = <<42, 21, 0>>[k]
  <2>1. TAKE k \in 1..3
  <2>2. k = 1 \/ k = 2 \/ k = 3
    OBVIOUS
  <2>3. /\ k = 1 => 3 - k = 2 /\ 6 - k = 5
        /\ k = 2 => 3 - k = 1 /\ 6 - k = 4
        /\ k = 3 => 3 - k = 0 /\ 6 - k = 3
    OBVIOUS
  <2>4. QED
    BY <1>1, <2>2, <2>3
<1>3. QED
  BY <1>2 DEF Components, TextColour

\* Eleven colours of text and brown, by the attribute registers of mode 3.
LEMMA TextColours ==
  ASSUME NEW w \in Cards, w.dac = Colours, w.attr[0] = 0,
         \A i \in 2..21 : w.attr[i - 1] = Mode3Attr[i]
  PROVE  TextShown(w)
<1>1. /\ w.attr[1] = 1 /\ w.attr[2] = 2 /\ w.attr[3] = 3 /\ w.attr[4] = 4 /\ w.attr[5] = 5
      /\ w.attr[6] = 20 /\ w.attr[7] = 7 /\ w.attr[8] = 56 /\ w.attr[10] = 58
      /\ w.attr[12] = 60 /\ w.attr[14] = 62
  <2>1. /\ Mode3Attr[2] = 1 /\ Mode3Attr[3] = 2 /\ Mode3Attr[4] = 3 /\ Mode3Attr[5] = 4
        /\ Mode3Attr[6] = 5 /\ Mode3Attr[7] = 20 /\ Mode3Attr[8] = 7 /\ Mode3Attr[9] = 56
        /\ Mode3Attr[11] = 58 /\ Mode3Attr[13] = 60 /\ Mode3Attr[15] = 62
    BY DEF Mode3Attr
  <2>2. QED
    BY <2>1
<1>2. \A x \in 0..63 : w.dac[x] = Components(x)
  BY ColourAt
<1>3. ASSUME NEW c \in 0..5 PROVE Components(c) = TextColour(c)
  BY SameColour
<1>4. Components(7) = TextColour(7) /\ Components(56) = TextColour(8)
  BY SameColour
<1>5. Components(58) = TextColour(10) /\ Components(60) = TextColour(12)
  BY SameColour
<1>6. Components(62) = TextColour(14)
  BY SameColour
<1>7. SUFFICES ASSUME NEW c \in (0..8) \union {10, 12, 14}
               PROVE  w.dac[w.attr[c]] = TextColour(c)
  BY Zenon DEF TextShown
<1>8. CASE c \in 0..5
  <2>1. w.attr[c] = c
    BY <1>1, <1>8
  <2>2. QED
    BY <1>2, <1>3, <1>8, <2>1
<1>9. CASE c \notin 0..5
  <2>1. c = 6 \/ c = 7 \/ c = 8 \/ c = 10 \/ c = 12 \/ c = 14
    BY <1>9
  <2>2. /\ w.dac[20] = Components(20) /\ w.dac[7] = Components(7) /\ w.dac[56] = Components(56)
        /\ w.dac[58] = Components(58) /\ w.dac[60] = Components(60) /\ w.dac[62] = Components(62)
    BY <1>2
  <2>3. c = 6 => w.dac[w.attr[c]] = TextColour(c)
    BY <1>1, <2>2, BrownIs
  <2>4. (c = 7 => w.dac[w.attr[c]] = TextColour(c)) /\ (c = 8 => w.dac[w.attr[c]] = TextColour(c))
    BY <1>1, <1>4, <2>2
  <2>5. (c = 10 => w.dac[w.attr[c]] = TextColour(c)) /\ (c = 12 => w.dac[w.attr[c]] = TextColour(c))
    BY <1>1, <1>5, <2>2
  <2>6. c = 14 => w.dac[w.attr[c]] = TextColour(c)
    BY <1>1, <1>6, <2>2
  <2>7. QED
    BY <2>1, <2>3, <2>4, <2>5, <2>6, Zenon
<1>10. QED
  BY <1>8, <1>9

\* The cards that the calls start from.
LEMMA CardsCalled ==
  ASSUME NEW flip \in {"index", "data"}, NEW crtc17 \in Int, NEW old \in Int
  PROVE  Card(flip, crtc17, old) \in Cards
<1>1. <<old, old, old>> \in Seq(Int)
  OBVIOUS
<1>2. [c \in 0..63 |-> <<old, old, old>>] \in [0..63 -> Seq(Int)]
  BY <1>1
<1>3. [i \in 0..24 |-> IF i = 17 THEN crtc17 ELSE old] \in [0..24 -> Int]
  OBVIOUS
<1>4. QED
  BY <1>2, <1>3 DEF Card, Cards

\* The registers are what ModeLoaded and TextShown ask for.
LEMMA PictureShown ==
  ASSUME NEW ax, ax = 3 \/ ax = 19, NEW w \in Cards, Picture(ax, w)
  PROVE  ModeLoaded(ax, w) /\ (ax = 3 /\ w.attr[0] = 0 => TextShown(w))
<1> DEFINE t == Loaded(ax)
<1>1. /\ w.at = 32 /\ w.dac = Colours /\ w.misc = t.misc
      /\ \A i \in 1..5 : w.seq[i - 1] = t.seq[i]
      /\ \A i \in 1..Len(t.crtc) : w.crtc[i - 1] = t.crtc[i]
      /\ \A i \in 1..9 : w.grc[i - 1] = t.grc[i]
      /\ \A i \in 2..21 : w.attr[i - 1] = t.attr[i]
      /\ ax = 3 => w.font
  BY Zenon DEF Picture
<1>2. DOMAIN t.crtc = 1..Len(t.crtc)
  <2>1. t.crtc = Mode3Crtc \/ t.crtc = Mode13Crtc
    BY LoadedParts
  <2>2. Mode3Crtc \in Seq(Int) /\ Mode13Crtc \in Seq(Int)
    BY DEF Mode3Crtc, Mode13Crtc
  <2> HIDE DEF t
  <2>3. t.crtc \in Seq(Int)
    BY <2>1, <2>2
  <2>4. QED
    BY <2>3
<1>3. ax = 3 => t.attr = Mode3Attr
  BY LoadedParts
<1>4. w.at >= 32
  BY <1>1
<1>5. ModeLoaded(ax, w)
  BY <1>1, <1>2, <1>4, Zenon DEF ModeLoaded
<1> HIDE DEF t
<1>6. ASSUME ax = 3, w.attr[0] = 0 PROVE TextShown(w)
  <2>1. \A i \in 2..21 : w.attr[i - 1] = Mode3Attr[i]
    BY <1>1, <1>3, <1>6
  <2>2. QED
    BY <1>1, <1>6, <2>1, TextColours, Zenon
<1>7. QED
  BY <1>5, <1>6

\* The calls of interrupt 0x10, in any order.
LEMMA VideoStep ==
  ASSUME VideoCall
  PROVE  /\ VbeLast(args') => VbeShown(result')
         /\ \A m \in DOMAIN args' : LastMode(args', m) =>
              /\ ModeLoaded(args'[m], result')
              /\ NoVbeAfter(args', m) =>
                   result'.attr[0] = 0 /\ (args'[m] = 3 => TextShown(result'))
         /\ Len(args') = 2 /\ LastMode(args', 1) /\ args'[2] = VBE => result'.flip = "index"
<1>1. PICK flip \in {"index", "data"}, crtc17 \in {0, 142},
           calls \in UNION {[1..k -> {3, 19, 20224, 20226}] : k \in 1..3} :
        Call("int10", calls, Called(Card(flip, crtc17, 1), calls))
  BY DEF VideoCall
<1> DEFINE v == Card(flip, crtc17, 1)
           w == Called(v, calls)
<1>2. args' = calls /\ result' = w
  BY <1>1, CallGives
<1>3. calls \in Seq(Ax) /\ DOMAIN calls = 1..Len(calls)
  <2>1. PICK k \in 1..3 : calls \in [1..k -> {3, 19, 20224, 20226}]
    OBVIOUS
  <2>2. calls \in Seq(Ax)
    BY <2>1 DEF Ax
  <2>3. QED
    BY <2>2
<1>4. v \in Cards
  BY CardsCalled
<1> HIDE DEF v
<1>5. w \in Cards
  <2>1. PICK f : Answered(v, calls, f) /\ w = f[Len(calls)]
    BY <1>3, <1>4, CalledInTurn
  <2>2. Len(calls) \in 0..Len(calls)
    BY <1>3
  <2>3. QED
    BY <2>1, <2>2 DEF Answered
<1>6. LeftBy(calls, Len(calls), w)
  BY <1>3, <1>4, AllCalls
<1>7. Len(calls) = 2 /\ LastMode(calls, 1) /\ calls[2] = VBE => w.flip = "index"
  BY <1>3, <1>4, IndexAwaited DEF LastMode, VBE
<1> HIDE DEF w
<1>8. VbeLast(calls) => VbeShown(w)
  <2>1. SUFFICES ASSUME VbeLast(calls) PROVE VbeShown(w)
    OBVIOUS
  <2>2. \E j \in 1..Len(calls) : calls[j] = 20226
    BY <1>3, <2>1 DEF VbeLast, VBE
  <2>3. Sized(w)
    BY <1>6, <2>2 DEF LeftBy
  <2>4. QED
    BY <2>3 DEF Sized, VbeShown
<1>9. ASSUME NEW m \in DOMAIN calls, LastMode(calls, m)
      PROVE  /\ ModeLoaded(calls[m], w)
             /\ NoVbeAfter(calls, m) => w.attr[0] = 0 /\ (calls[m] = 3 => TextShown(w))
  <2> DEFINE ax == calls[m]
             NoVbe == \A j \in 1..Len(calls) : j > m => calls[j] # 20226
  <2>1. m \in 1..Len(calls) /\ LastOf(calls, m, Len(calls))
    BY <1>3, <1>9 DEF LastMode, LastOf
  <2>2. Picture(ax, w) /\ (NoVbe => w.attr[0] = 0)
    BY <1>6, <2>1 DEF LeftBy
  <2>3. NoVbeAfter(calls, m) => NoVbe
    BY <1>3 DEF NoVbeAfter, VBE
  <2>7. ax = 3 \/ ax = 19
    <3>1. ax \in Ax /\ ax < 256
      BY <1>3, <1>9, <2>1 DEF LastMode
    <3>2. QED
      BY <3>1 DEF Ax
  <2> HIDE DEF ax, NoVbe
  <2>4. ModeLoaded(ax, w)
    BY <1>5, <2>2, <2>7, PictureShown
  <2>5. ax = 3 /\ w.attr[0] = 0 => TextShown(w)
    BY <1>5, <2>2, <2>7, PictureShown
  <2>6. QED
    BY <2>2, <2>3, <2>4, <2>5 DEF ax
<1>10. QED
  BY <1>2, <1>7, <1>8, <1>9

\* Every step gives what VideoRight says.
LEMMA VideosStep ==
  ASSUME Next
  PROVE  VideoRight'
BY WhichCall, VideoStep DEF VideoRight

\* What the drawing routines put on the screen is the shape, the picture or the
\* line they were asked for and nothing outside it, colours keep their fields and
\* the font its slots; and after up to three calls of interrupt 0x10 every register
\* of the mode set last holds its byte, and VBE is enabled at its size if its call
\* came after.
THEOREM AllMapsRight == Spec => []MapsRight
<1>1. Init => MapsRight
  BY DEF Init, MapsRight, ShapesRight, ImagesRight, VideoRight
<1>2. MapsRight /\ [Next]_vars => MapsRight'
  <2>1. SUFFICES ASSUME MapsRight, [Next]_vars PROVE MapsRight'
    OBVIOUS
  <2>2. CASE Next
    BY <2>2, ShapesStep, ImagesStep, VideosStep, Zenon DEF MapsRight
  <2>3. CASE UNCHANGED vars
    <3>1. fn' = fn /\ args' = args /\ result' = result
      BY <2>3 DEF vars
    <3>2. ShapesRight' /\ ImagesRight'
      BY <2>1, <3>1 DEF MapsRight, ShapesRight, ImagesRight
    <3>3. VideoRight'
      BY <2>1, <3>1 DEF MapsRight, VideoRight
    <3>4. QED
      BY <3>2, <3>3 DEF MapsRight
  <2>4. QED
    BY <2>1, <2>2, <2>3
<1>3. QED
  BY <1>1, <1>2, PTL DEF Spec

-----------------------------------------------------------------------------
(* Texts without one of their characters *)

\* Without one character more.
KeepStep(q, ch, c) == IF ch = c THEN q ELSE Append(q, ch)

\* kept leaves the c's out character by character.
Keeps(s, c, kept) ==
  /\ kept[0] = <<>> /\ kept[Len(s)] = Without(s, c)
  /\ \A n \in 1..Len(s) : kept[n] = KeepStep(kept[n - 1], s[n], c)

\* Without leaves its character out one by one.
LEMMA WithoutKeeps ==
  ASSUME NEW C, NEW s \in Seq(C), NEW c
  PROVE  \E f \in [0..Len(s) -> Seq(C)] : Keeps(s, c, f)
<1> DEFINE n == Len(s)
           step == [p \in (1..n) \X Seq(C) |-> KeepStep(p[2], s[p[1]], c)]
           A(f) == f = [k \in 0..n |-> IF k = 0 THEN <<>> ELSE KeepStep(f[k - 1], s[k], c)]
           kept == CHOOSE f : A(f)
<1>1. n \in Nat /\ <<>> \in Seq(C)
  OBVIOUS
<1>2. \A k \in 1..n, q \in Seq(C) :
        step[<<k, q>>] = KeepStep(q, s[k], c) /\ step[<<k, q>>] \in Seq(C)
  <2>1. TAKE k \in 1..n, q \in Seq(C)
  <2>2. s[k] \in C
    OBVIOUS
  <2>3. KeepStep(q, s[k], c) \in Seq(C)
    BY <2>2, AppendProperties DEF KeepStep
  <2>4. step[<<k, q>>] = KeepStep(q, s[k], c)
    OBVIOUS
  <2>5. QED
    BY <2>3, <2>4
<1> HIDE DEF step
<1>3. PICK f \in [0..n -> Seq(C)] : Path(n, <<>>, step, f)
  BY <1>1, <1>2, Loops
<1>4. \A k \in 0..n : f[k] = IF k = 0 THEN <<>> ELSE KeepStep(f[k - 1], s[k], c)
  <2>1. \A k \in 0..n : f[k] = IF k = 0 THEN <<>> ELSE step[<<k, f[k - 1]>>]
    BY <1>3 DEF Path
  <2>2. TAKE k \in 0..n
  <2>3. k # 0 => k \in 1..n /\ f[k - 1] \in Seq(C)
    OBVIOUS
  <2>4. QED
    BY <1>2, <2>1, <2>3
<1>5. A(f)
  <2> DEFINE g == [k \in 0..n |-> IF k = 0 THEN <<>> ELSE KeepStep(f[k - 1], s[k], c)]
  <2>1. \A k \in 0..n : f[k] = g[k]
    BY <1>4
  <2>2. f = g
    BY <2>1
  <2>3. QED
    BY <2>2
<1>6. A(kept)
  BY <1>5
<1>7. Without(s, c) = kept[n]
  BY Zenon DEF Without, KeepStep
<1> HIDE DEF kept
<1>8. \A k \in 0..n : kept[k] = IF k = 0 THEN <<>> ELSE KeepStep(kept[k - 1], s[k], c)
  BY <1>6
<1> DEFINE T == {k \in Nat : k <= n => kept[k] \in Seq(C)}
<1>9. 0 \in T
  <2>1. 0 \in 0..n
    BY <1>1
  <2>2. kept[0] = <<>>
    BY <1>8, <2>1
  <2>3. QED
    BY <1>1, <2>2
<1>10. \A k \in Nat : k \in T => k + 1 \in T
  <2>1. TAKE k \in Nat
  <2>2. SUFFICES ASSUME k + 1 <= n, kept[k] \in Seq(C) PROVE kept[k + 1] \in Seq(C)
    OBVIOUS
  <2>3. k + 1 \in 1..n /\ (k + 1) - 1 = k
    BY <2>2
  <2>4. kept[k + 1] = KeepStep(kept[k], s[k + 1], c)
    BY <1>8, <2>3
  <2>5. s[k + 1] \in C
    BY <2>3
  <2>6. QED
    BY <2>2, <2>4, <2>5, AppendProperties DEF KeepStep
<1>11. Nat \subseteq T
  <2> HIDE DEF T
  <2>1. QED
    BY <1>9, <1>10, Induction
<1>12. kept \in [0..n -> Seq(C)]
  <2>1. \A k \in 0..n : kept[k] \in Seq(C)
    BY <1>11
  <2> DEFINE h == [k \in 0..n |-> IF k = 0 THEN <<>> ELSE KeepStep(kept[k - 1], s[k], c)]
  <2>2. kept = h
    BY <1>6
  <2>3. h = [k \in 0..n |-> h[k]]
    OBVIOUS
  <2> HIDE DEF h
  <2>4. QED
    BY <2>1, <2>2, <2>3
<1>13. Keeps(s, c, kept)
  BY <1>1, <1>7, <1>8 DEF Keeps
<1>14. QED
  BY <1>12, <1>13

\* Two ways of leaving out the same characters agree as far as the texts do.
LEMMA WithoutAlike ==
  ASSUME NEW s, NEW t, NEW c, NEW f, NEW g, NEW n \in Nat, Len(s) \in Nat, Len(t) \in Nat,
         Keeps(s, c, f), Keeps(t, c, g), n <= Len(s), n <= Len(t), \A i \in 1..n : s[i] = t[i]
  PROVE  f[n] = g[n]
<1> DEFINE T == {k \in Nat : k <= n => f[k] = g[k]}
<1>1. 0 \in T
  BY DEF Keeps
<1>2. \A k \in Nat : k \in T => k + 1 \in T
  <2>1. TAKE k \in Nat
  <2>2. SUFFICES ASSUME k + 1 <= n, f[k] = g[k] PROVE f[k + 1] = g[k + 1]
    OBVIOUS
  <2>3. k + 1 \in 1..n /\ k + 1 \in 1..Len(s) /\ k + 1 \in 1..Len(t) /\ (k + 1) - 1 = k
    BY <2>2
  <2>4. f[k + 1] = KeepStep(f[k], s[k + 1], c) /\ g[k + 1] = KeepStep(g[k], t[k + 1], c)
    BY <2>3 DEF Keeps
  <2>5. QED
    BY <2>2, <2>3, <2>4
<1>3. Nat \subseteq T
  <2> HIDE DEF T
  <2>1. QED
    BY <1>1, <1>2, Induction
<1>4. QED
  BY <1>3

\* Nothing is left of nothing.
LEMMA WithoutEmpty == ASSUME NEW c PROVE Without(<<>>, c) = <<>>
<1>1. <<>> \in Seq({}) /\ Len(<<>>) = 0
  OBVIOUS
<1>2. PICK f : Keeps(<<>>, c, f)
  BY <1>1, WithoutKeeps
<1>3. QED
  BY <1>1, <1>2 DEF Keeps

\* A character more at the end.
LEMMA WithoutAppend ==
  ASSUME NEW C, NEW s \in Seq(C), NEW x \in C, NEW c
  PROVE  /\ Without(s, c) \in Seq(C)
         /\ Without(Append(s, x), c) = IF x = c THEN Without(s, c) ELSE Append(Without(s, c), x)
<1> DEFINE r == Append(s, x)
           n == Len(s)
<1>1. /\ r \in Seq(C) /\ Len(r) = n + 1 /\ r[n + 1] = x /\ n \in Nat
      /\ \A i \in 1..n : r[i] = s[i]
  BY AppendProperties
<1> HIDE DEF r
<1>2. PICK f \in [0..n -> Seq(C)] : Keeps(s, c, f)
  BY WithoutKeeps
<1>3. PICK g : Keeps(r, c, g)
  BY <1>1, WithoutKeeps
<1>4. f[n] = g[n]
  <2>0. n \in Nat
    BY <1>1
  <2>1. Len(s) \in Nat /\ Len(r) \in Nat /\ n <= Len(s) /\ n <= Len(r) /\ \A i \in 1..n : s[i] = r[i]
    BY <1>1
  <2>2. Keeps(s, c, f) /\ Keeps(r, c, g)
    BY <1>2, <1>3
  <2> HIDE DEF n
  <2>3. QED
    BY <2>0, <2>1, <2>2, WithoutAlike
<1> HIDE DEF n
<1>5. f[n] = Without(s, c) /\ f[n] \in Seq(C)
  BY <1>1, <1>2 DEF Keeps, n
<1>6. Without(r, c) = KeepStep(g[n], x, c)
  <2>1. n + 1 \in 1..Len(r) /\ (n + 1) - 1 = n
    BY <1>1
  <2>2. QED
    BY <1>1, <1>3, <2>1 DEF Keeps
<1>7. QED
  BY <1>4, <1>5, <1>6 DEF KeepStep, r

\* Characters to be left out stand only in front.
LEMMA WithoutFront ==
  ASSUME NEW C, NEW q \in Seq(C), NEW t \in Seq(C), NEW c,
         \A i \in 1..Len(q) : q[i] = c, \A i \in 1..Len(t) : t[i] # c
  PROVE  Without(q \o t, c) = t
<1> DEFINE s == q \o t
           a == Len(q)
           b == Len(t)
<1>1. /\ s \in Seq(C) /\ Len(s) = a + b /\ a \in Nat /\ b \in Nat
      /\ \A i \in 1..a : s[i] = q[i]
      /\ \A i \in 1..b : s[a + i] = t[i]
  BY ConcatProperties
<1> HIDE DEF s
<1>2. PICK f \in [0..Len(s) -> Seq(C)] : Keeps(s, c, f)
  BY <1>1, WithoutKeeps
<1>3. f[0] = <<>> /\ \A n \in 1..Len(s) : f[n] = KeepStep(f[n - 1], s[n], c)
  BY <1>2 DEF Keeps
<1> HIDE DEF a, b
<1> DEFINE Good(n) == f[n] = <<>>
           T == {n \in Nat : Good(n)}
<1>4. Good(0)
  BY <1>3
<1>5. ASSUME NEW n \in Nat, n + 1 <= a, Good(n) PROVE Good(n + 1)
  <2>1. n + 1 \in 1..Len(s) /\ n + 1 \in 1..a /\ (n + 1) - 1 = n
    BY <1>1, <1>5
  <2>2. s[n + 1] = c
    BY <1>1, <2>1 DEF a
  <2>3. QED
    BY <1>3, <1>5, <2>1, <2>2 DEF KeepStep
<1> HIDE DEF Good
<1>6. 0 \in T /\ \A n \in Nat : n + 1 <= a /\ n \in T => n + 1 \in T
  BY <1>4, <1>5
<1>7. f[a] = <<>>
  <2> HIDE DEF T
  <2>1. a \in T
    BY <1>1, <1>6, Upto
  <2>2. QED
    BY <2>1 DEF T, Good
<1> HIDE DEF T
<1> DEFINE Fair(n) == Len(f[a + n]) = n /\ \A i \in 1..n : f[a + n][i] = t[i]
           U == {n \in Nat : Fair(n)}
<1>8. Fair(0)
  BY <1>1, <1>7
<1>9. ASSUME NEW n \in Nat, n + 1 <= b, Fair(n) PROVE Fair(n + 1)
  <2>1. /\ a + n + 1 \in 1..Len(s) /\ n + 1 \in 1..b /\ (a + n + 1) - 1 = a + n /\ a + n \in 0..Len(s)
        /\ a + (n + 1) = a + n + 1
    BY <1>1, <1>9
  <2>2. s[a + n + 1] = t[n + 1] /\ t[n + 1] # c
    BY <1>1, <2>1 DEF b
  <2>3. f[a + n + 1] = Append(f[a + n], t[n + 1])
    BY <1>3, <2>1, <2>2 DEF KeepStep
  <2>4. f[a + n] \in Seq(C) /\ t[n + 1] \in C
    BY <1>2, <2>1 DEF b
  <2>5. /\ Len(f[a + n + 1]) = n + 1 /\ f[a + n + 1][n + 1] = t[n + 1]
        /\ \A i \in 1..n : f[a + n + 1][i] = f[a + n][i]
    BY <1>9, <2>3, <2>4, AppendProperties
  <2>6. \A i \in 1..(n + 1) : i = n + 1 \/ i \in 1..n
    OBVIOUS
  <2>7. QED
    BY <1>9, <2>1, <2>5, <2>6
<1> HIDE DEF Fair
<1>10. 0 \in U /\ \A n \in Nat : n + 1 <= b /\ n \in U => n + 1 \in U
  BY <1>8, <1>9
<1>11. Fair(b) /\ f[a + b] \in Seq(C) /\ a + b = Len(s)
  <2>1. b \in U
    <3> HIDE DEF U
    <3>1. QED
      BY <1>1, <1>10, Upto
  <2>2. a + b \in 0..Len(s)
    BY <1>1
  <2>3. QED
    BY <1>1, <1>2, <2>1, <2>2
<1>12. f[a + b] = t
  BY <1>11, SeqEqual DEF b, Fair
<1>13. f[a + b] = Without(s, c)
  BY <1>2, <1>11 DEF Keeps
<1>14. QED
  BY <1>12, <1>13 DEF s

\* A text without the character stays as it is.
LEMMA WithoutNone ==
  ASSUME NEW C, NEW t \in Seq(C), NEW c, \A i \in 1..Len(t) : t[i] # c
  PROVE  Without(t, c) = t
<1>1. <<>> \in Seq(C) /\ Len(<<>>) = 0 /\ <<>> \o t = t
  OBVIOUS
<1>2. \A i \in 1..Len(<<>>) : <<>>[i] = c
  BY <1>1
<1>3. Without(<<>> \o t, c) = t
  BY <1>1, <1>2, WithoutFront, Zenon
<1>4. QED
  BY <1>1, <1>3, Zenon

-----------------------------------------------------------------------------
(* The listing's sizes *)

\* The figures and commas of n, when those of smaller numbers are known.
GroupsBy(of, n) ==
  [idx \in Nat |->
     <<Figure[(n % 10) + 1]>>
       \o (IF n < 10 THEN <<>>
           ELSE IF (idx + 1) % 3 = 0 THEN <<Comma>> \o of[n \div 10][idx + 2]
           ELSE of[n \div 10][idx + 1])]
Grouping(v, of) == of = [n \in 0..v |-> GroupsBy(of, n)]

\* The groups of n depend on those of a tenth of n.
LEMMA GroupsAlike ==
  ASSUME NEW n \in Nat, NEW f, NEW g, n >= 10 => f[n \div 10] = g[n \div 10]
  PROVE  GroupsBy(f, n) = GroupsBy(g, n)
<1>1. n < 10 \/ n >= 10
  OBVIOUS
<1>2. QED
  BY <1>1 DEF GroupsBy

\* The recursive function of Grouped exists.
LEMMA GroupingExists ==
  ASSUME NEW v \in Nat
  PROVE  \E of : Grouping(v, of)
<1> DEFINE S == {k \in Nat : \E of : Grouping(k, of)}
<1>1. 0 \in S
  <2> DEFINE f == [n \in 0..0 |-> GroupsBy(<<>>, 0)]
  <2>1. GroupsBy(f, 0) = GroupsBy(<<>>, 0)
    BY DEF GroupsBy
  <2>2. f = [n \in 0..0 |-> GroupsBy(f, n)]
    BY <2>1
  <2>3. Grouping(0, f)
    BY <2>2 DEF Grouping
  <2>4. QED
    BY <2>3
<1>2. \A k \in Nat : k \in S => k + 1 \in S
  <2>1. TAKE k \in Nat
  <2>2. HAVE k \in S
  <2>3. PICK f : Grouping(k, f)
    BY <2>2
  <2> DEFINE g == [n \in 0..(k + 1) |-> IF n = k + 1 THEN GroupsBy(f, n) ELSE f[n]]
  <2>4. ASSUME NEW n \in 0..(k + 1)
        PROVE  g[n] = GroupsBy(g, n)
    <3>1. GroupsBy(g, n) = GroupsBy(f, n)
      <4>1. n >= 10 => n \div 10 \in 0..k /\ n \div 10 # k + 1
        OBVIOUS
      <4>2. n >= 10 => g[n \div 10] = f[n \div 10]
        BY <4>1
      <4> HIDE DEF g
      <4>3. QED
        BY <4>2, GroupsAlike
    <3>2. n # k + 1 => f[n] = GroupsBy(f, n)
      <4>1. n # k + 1 => n \in 0..k
        OBVIOUS
      <4>2. QED
        BY <2>3, <4>1 DEF Grouping
    <3>3. g[n] = IF n = k + 1 THEN GroupsBy(f, n) ELSE f[n]
      OBVIOUS
    <3> HIDE DEF g
    <3>4. QED
      BY <3>1, <3>2, <3>3
  <2>5. Grouping(k + 1, g)
    <3> DEFINE h == [n \in 0..(k + 1) |-> GroupsBy(g, n)]
    <3>1. \A n \in 0..(k + 1) : g[n] = h[n]
      BY <2>4
    <3>2. g = h
      BY <3>1
    <3> HIDE DEF g
    <3>3. QED
      BY <3>2 DEF Grouping
  <2>6. QED
    BY <2>5
<1>3. Nat \subseteq S
  <2> HIDE DEF S
  <2>1. QED
    BY <1>1, <1>2, Induction
<1>4. QED
  BY <1>3

\* of groups every number up to v.
Groups(v, of) ==
  /\ Grouped(v) = of[v][0]
  /\ \A n \in 0..v, idx \in Nat :
       of[n][idx] = <<Figure[(n % 10) + 1]>>
                      \o (IF n < 10 THEN <<>>
                          ELSE IF (idx + 1) % 3 = 0 THEN <<Comma>> \o of[n \div 10][idx + 2]
                          ELSE of[n \div 10][idx + 1])

\* Grouped is that function.
LEMMA GroupedInTurn ==
  ASSUME NEW v \in Nat
  PROVE  \E of : Groups(v, of)
<1> DEFINE f == CHOOSE of : Grouping(v, of)
<1>1. Grouping(v, f)
  BY GroupingExists
<1>2. Grouped(v) = f[v][0]
  BY Zenon DEF Grouped, Grouping, GroupsBy
<1> HIDE DEF f
<1>3. \A n \in 0..v : f[n] = GroupsBy(f, n)
  BY <1>1 DEF Grouping
<1>4. \A n \in 0..v, idx \in Nat :
        f[n][idx] = <<Figure[(n % 10) + 1]>>
                      \o (IF n < 10 THEN <<>>
                          ELSE IF (idx + 1) % 3 = 0 THEN <<Comma>> \o f[n \div 10][idx + 2]
                          ELSE f[n \div 10][idx + 1])
  <2>1. TAKE n \in 0..v, idx \in Nat
  <2>2. GroupsBy(f, n)[idx] = <<Figure[(n % 10) + 1]>>
                      \o (IF n < 10 THEN <<>>
                          ELSE IF (idx + 1) % 3 = 0 THEN <<Comma>> \o f[n \div 10][idx + 2]
                          ELSE f[n \div 10][idx + 1])
    BY Zenon DEF GroupsBy
  <2>3. QED
    BY <1>3, <2>2, Zenon
<1>5. QED
  BY <1>2, <1>4, Zenon DEF Groups

\* The characters of a size, and the texts of those of n, the last one first.
SizeChar == Figured \union {Comma}
GroupText(t, n) ==
  /\ t \in Seq(SizeChar) /\ t # <<>> /\ Without(Reverse(t), Comma) \in Seq(Figured)
  /\ Stands(Without(Reverse(t), Comma), n, 10)

\* No figure is a comma, and neither is a blank.
LEMMA SizeChars ==
  /\ Comma \notin Figured /\ Blank \notin SizeChar
  /\ \A d \in 0..9 : Figure[d + 1] \in Figured /\ Figure[d + 1] # Comma
<1>1. \A i \in 1..16 : Figure[i] # Comma /\ Figure[i] # Blank
  <2>1. TAKE i \in 1..16
  <2>2. Figure[i] \in {"0", "1", "2", "3", "4", "5", "6", "7", "8", "9", "a", "b", "c", "d", "e", "f"}
    BY DEF Figure
  <2>3. QED
    BY <2>2, Zenon DEF Comma, Blank
<1>2. Comma # Blank
  BY Zenon DEF Comma, Blank
<1>3. QED
  BY <1>1, <1>2 DEF Figured, SizeChar

\* A comma in front changes nothing of the number.
LEMMA GroupComma ==
  ASSUME NEW t, NEW n, GroupText(t, n)
  PROVE  GroupText(<<Comma>> \o t, n)
<1>1. t \in Seq(SizeChar) /\ t # <<>> /\ Comma \in SizeChar
  BY DEF GroupText, SizeChar
<1>2. Reverse(t) \in Seq(SizeChar) /\ Reverse(<<Comma>> \o t) = Append(Reverse(t), Comma)
  BY <1>1, ReverseFirst
<1>3. Without(Reverse(<<Comma>> \o t), Comma) = Without(Reverse(t), Comma)
  <2> DEFINE u == Reverse(t)
  <2>1. u \in Seq(SizeChar) /\ Comma \in SizeChar /\ Reverse(<<Comma>> \o t) = Append(u, Comma)
    BY <1>1, <1>2
  <2> HIDE DEF u
  <2>2. Without(Append(u, Comma), Comma)
          = IF Comma = Comma THEN Without(u, Comma) ELSE Append(Without(u, Comma), Comma)
    BY <2>1, WithoutAppend, Zenon
  <2>3. Without(Append(u, Comma), Comma) = Without(u, Comma)
    BY <2>2, Zenon
  <2>4. Without(Reverse(<<Comma>> \o t), Comma) = Without(u, Comma)
    BY <2>1, <2>3, Zenon
  <2>5. QED
    BY <2>4, Zenon DEF u
<1>4. <<Comma>> \o t \in Seq(SizeChar) /\ <<Comma>> \o t # <<>>
  <2>1. <<Comma>> \in Seq(SizeChar)
    BY <1>1
  <2>2. QED
    BY <1>1, <2>1, ConcatProperties, ConcatEqualIffEmpty
<1>5. QED
  BY <1>3, <1>4 DEF GroupText

\* A figure in front of those of the tenth part, the last one first.
LEMMA GroupFigure ==
  ASSUME NEW t, NEW n \in Nat, n >= 10, GroupText(t, n \div 10)
  PROVE  GroupText(<<Figure[(n % 10) + 1]>> \o t, n)
<1> DEFINE c == Figure[(n % 10) + 1]
           r == Without(Reverse(t), Comma)
<1>1. c \in Figured /\ c # Comma /\ c \in SizeChar
  <2>1. n % 10 \in 0..9
    OBVIOUS
  <2>2. QED
    BY <2>1, SizeChars DEF SizeChar
<1>2. t \in Seq(SizeChar) /\ t # <<>> /\ r \in Seq(Figured) /\ Stands(r, n \div 10, 10)
  BY DEF GroupText
<1>3. Stands(Append(r, c), n, 10)
  <2>1. 10 \in Base
    BY DEF Base
  <2>2. QED
    BY <1>2, <2>1, FigureBehind
<1> HIDE DEF c
<1>4. Reverse(t) \in Seq(SizeChar) /\ Reverse(<<c>> \o t) = Append(Reverse(t), c)
  BY <1>1, <1>2, ReverseFirst
<1>5. Without(Reverse(<<c>> \o t), Comma) = Append(r, c)
  <2>1. Without(Append(Reverse(t), c), Comma)
          = IF c = Comma THEN Without(Reverse(t), Comma) ELSE Append(Without(Reverse(t), Comma), c)
    BY <1>1, <1>4, WithoutAppend
  <2>2. QED
    BY <1>1, <1>4, <2>1
<1>6. <<c>> \o t \in Seq(SizeChar) /\ <<c>> \o t # <<>>
  <2>1. <<c>> \in Seq(SizeChar)
    BY <1>1
  <2>2. QED
    BY <1>2, <2>1, ConcatProperties, ConcatEqualIffEmpty
<1>7. Append(r, c) \in Seq(Figured)
  BY <1>1, <1>2, AppendProperties
<1>8. QED
  BY <1>3, <1>5, <1>6, <1>7 DEF GroupText, c

\* A number of one figure.
LEMMA GroupOne ==
  ASSUME NEW n \in 0..9
  PROVE  GroupText(<<Figure[n + 1]>> \o <<>>, n)
<1> DEFINE c == Figure[n + 1]
           t == <<c>> \o <<>>
<1>1. c \in Figured /\ c # Comma /\ c \in SizeChar
  BY SizeChars DEF SizeChar
<1>2. FiguresOf(t, n, 10)
  <2>1. 10 \in Base
    BY DEF Base
  <2>2. QED
    BY <2>1, OneFigure
<1> HIDE DEF c
<1>3. t = <<c>> /\ t \in Seq(Figured) /\ t \in Seq(SizeChar) /\ t # <<>>
  BY <1>1
<1>4. Reverse(t) \in Seq(Figured)
  BY <1>1, <1>3, ReverseFirst
<1>5. Without(Reverse(t), Comma) = Reverse(t)
  <2>1. \A i \in 1..Len(Reverse(t)) : Reverse(t)[i] # Comma
    <3>1. \A i \in 1..Len(Reverse(t)) : Reverse(t)[i] \in Figured
      BY <1>4
    <3>2. QED
      BY <3>1, SizeChars
  <2>2. QED
    BY <1>4, <2>1, WithoutNone
<1>6. QED
  BY <1>2, <1>3, <1>4, <1>5 DEF GroupText, FiguresOf, c

\* num_with_commas: without its commas, what it writes is the number.
LEMMA GroupedRight ==
  ASSUME NEW v \in Nat
  PROVE  GroupText(Grouped(v), v)
<1>1. PICK of : Groups(v, of)
  BY GroupedInTurn
<1> DEFINE T == {n \in Nat : n <= v => \A idx \in Nat : GroupText(of[n][idx], n)}
<1>2. ASSUME NEW n \in Nat, n <= v, \A m \in 0..(n - 1) : m \in T
      PROVE  \A idx \in Nat : GroupText(of[n][idx], n)
  <2>1. TAKE idx \in Nat
  <2>2. n \in 0..v
    BY <1>2
  <2> DEFINE m == n \div 10
             c == Figure[(n % 10) + 1]
  <2>3. of[n][idx] = <<c>> \o (IF n < 10 THEN <<>>
                               ELSE IF (idx + 1) % 3 = 0 THEN <<Comma>> \o of[m][idx + 2]
                               ELSE of[m][idx + 1])
    BY <1>1, <2>2 DEF Groups
  <2>4. CASE n < 10
    <3>1. n \in 0..9 /\ n % 10 = n
      BY <2>4
    <3>2. of[n][idx] = <<Figure[n + 1]>> \o <<>>
      BY <2>3, <2>4, <3>1
    <3>3. QED
      BY <3>1, <3>2, GroupOne
  <2>5. CASE n >= 10
    <3>1. m \in 0..(n - 1) /\ m <= v /\ m \in Nat
      BY <1>2, <2>5
    <3>2. \A i \in Nat : GroupText(of[m][i], m)
      BY <1>2, <3>1
    <3>3. idx + 1 \in Nat /\ idx + 2 \in Nat
      OBVIOUS
    <3>4. PICK t : GroupText(t, m) /\ of[n][idx] = <<c>> \o t
      <4>1. CASE (idx + 1) % 3 = 0
        <5>1. of[n][idx] = <<c>> \o (<<Comma>> \o of[m][idx + 2])
          BY <2>3, <2>5, <4>1
        <5>2. GroupText(<<Comma>> \o of[m][idx + 2], m)
          BY <3>2, <3>3, GroupComma
        <5>3. QED
          BY <5>1, <5>2
      <4>2. CASE (idx + 1) % 3 # 0
        <5>1. of[n][idx] = <<c>> \o of[m][idx + 1]
          BY <2>3, <2>5, <4>2
        <5>2. QED
          BY <3>2, <3>3, <5>1
      <4>3. QED
        BY <4>1, <4>2
    <3>5. GroupText(<<c>> \o t, n)
      BY <2>5, <3>4, GroupFigure
    <3>6. QED
      BY <3>4, <3>5
  <2>6. QED
    BY <2>4, <2>5
<1> DEFINE S == {k \in Nat : \A n \in 0..k : n \in T}
<1>3. 0 \in S
  <2>1. \A m \in 0..(0 - 1) : m \in T
    OBVIOUS
  <2>2. \A idx \in Nat : GroupText(of[0][idx], 0)
    BY <1>2, <2>1
  <2>3. QED
    BY <2>2
<1>4. \A k \in Nat : k \in S => k + 1 \in S
  <2>1. TAKE k \in Nat
  <2>2. HAVE k \in S
  <2>3. k + 1 \in Nat /\ \A m \in 0..((k + 1) - 1) : m \in T
    BY <2>2
  <2>4. k + 1 <= v => \A idx \in Nat : GroupText(of[k + 1][idx], k + 1)
    BY <1>2, <2>3
  <2>5. k + 1 \in T
    BY <2>3, <2>4
  <2> HIDE DEF T
  <2>6. QED
    BY <2>2, <2>5
<1>5. Nat \subseteq S
  <2> HIDE DEF S
  <2>1. QED
    BY <1>3, <1>4, Induction
<1>6. v \in T
  <2> HIDE DEF T
  <2>1. v \in 0..v
    OBVIOUS
  <2>2. QED
    BY <1>5, <2>1
<1>7. GroupText(of[v][0], v)
  BY <1>6
<1>8. QED
  BY <1>1, <1>7 DEF Groups

\* The commas of t, the last character first, when k characters stand behind it.
InPlace(t, k) ==
  /\ t \in Seq(SizeChar) /\ t # <<>> /\ t[Len(t)] # Comma
  /\ \A i \in 1..Len(t) : (t[i] = Comma) <=> ((i + k) % 4 = 0)

\* A character more in front.
LEMMA PlaceMore ==
  ASSUME NEW k \in Nat, NEW u, InPlace(u, k + 1), NEW x \in SizeChar,
         (x = Comma) <=> ((k + 1) % 4 = 0)
  PROVE  InPlace(<<x>> \o u, k)
<1> DEFINE t == <<x>> \o u
           n == Len(u)
<1>1. /\ u \in Seq(SizeChar) /\ u # <<>> /\ u[n] # Comma /\ n \in Nat
      /\ \A i \in 1..n : (u[i] = Comma) <=> ((i + (k + 1)) % 4 = 0)
  BY DEF InPlace
<1>2. /\ t \in Seq(SizeChar) /\ Len(t) = n + 1 /\ t[1] = x
      /\ \A i \in 1..n : t[i + 1] = u[i]
  <2>1. u \in Seq(SizeChar)
    BY <1>1
  <2>2. QED
    BY <2>1, Prefixed
<1>3. n >= 1 /\ n \in 1..n
  BY <1>1, EmptySeq
<1> HIDE DEF t, n
<1>4. ASSUME NEW i \in 1..(n + 1) PROVE (t[i] = Comma) <=> ((i + k) % 4 = 0)
  <2>1. CASE i = 1
    BY <1>2, <2>1
  <2>2. CASE i # 1
    <3> DEFINE j == i - 1
    <3>1. j \in 1..n /\ i = j + 1 /\ i + k = j + (k + 1)
      BY <1>1, <2>2
    <3> HIDE DEF j
    <3>2. QED
      BY <1>1, <1>2, <3>1
  <2>3. QED
    BY <2>1, <2>2
<1>5. t # <<>> /\ t[Len(t)] # Comma
  BY <1>1, <1>2, <1>3
<1>6. QED
  BY <1>2, <1>4, <1>5 DEF InPlace, t

\* The first character.
LEMMA PlaceOne ==
  ASSUME NEW k \in Nat, (k + 1) % 4 # 0, NEW x \in SizeChar, x # Comma
  PROVE  InPlace(<<x>> \o <<>>, k)
<1>1. <<x>> \o <<>> = <<x>>
  OBVIOUS
<1> DEFINE w == <<x>>
<1>2. w \in Seq(SizeChar) /\ Len(w) = 1 /\ w[1] = x /\ w # <<>>
  OBVIOUS
<1> HIDE DEF w
<1>3. \A i \in 1..Len(w) : (w[i] = Comma) <=> ((i + k) % 4 = 0)
  <2>1. 1 + k = k + 1
    OBVIOUS
  <2>2. \A i \in 1..Len(w) : i = 1
    BY <1>2
  <2>3. QED
    BY <1>2, <2>1, <2>2
<1>4. InPlace(w, k)
  BY <1>2, <1>3 DEF InPlace
<1>5. QED
  BY <1>1, <1>4 DEF w

\* One round of num_with_commas, for a number of n.
LEMMA OneRound ==
  ASSUME NEW v \in Nat, NEW of, Groups(v, of), NEW n \in 0..v, NEW idx \in Nat, NEW k \in Nat,
         (k + 1) % 4 # 0,
         n >= 10 => IF (idx + 1) % 3 = 0 THEN (k + 2) % 4 = 0 /\ InPlace(of[n \div 10][idx + 2], k + 2)
                    ELSE InPlace(of[n \div 10][idx + 1], k + 1)
  PROVE  InPlace(of[n][idx], k)
<1> DEFINE c == Figure[(n % 10) + 1]
           m == n \div 10
<1>1. of[n][idx] = <<c>> \o (IF n < 10 THEN <<>>
                             ELSE IF (idx + 1) % 3 = 0 THEN <<Comma>> \o of[m][idx + 2]
                             ELSE of[m][idx + 1])
  BY DEF Groups
<1>2. c \in SizeChar /\ c # Comma /\ Comma \in SizeChar
  <2>1. n % 10 \in 0..9
    OBVIOUS
  <2>2. QED
    BY <2>1, SizeChars DEF SizeChar
<1> HIDE DEF c
<1>3. CASE n < 10
  <2>1. of[n][idx] = <<c>> \o <<>>
    BY <1>1, <1>3
  <2>2. QED
    BY <1>2, <2>1, PlaceOne
<1>4. CASE n >= 10 /\ (idx + 1) % 3 = 0
  <2>1. of[n][idx] = <<c>> \o (<<Comma>> \o of[m][idx + 2])
    BY <1>1, <1>4
  <2>2. (k + 2) % 4 = 0 /\ InPlace(of[m][idx + 2], k + 2) /\ k + 2 = (k + 1) + 1 /\ k + 1 \in Nat
    BY <1>4
  <2>3. InPlace(<<Comma>> \o of[m][idx + 2], k + 1)
    BY <1>2, <2>2, PlaceMore
  <2>4. QED
    BY <1>2, <2>1, <2>3, PlaceMore
<1>5. CASE n >= 10 /\ (idx + 1) % 3 # 0
  <2>1. of[n][idx] = <<c>> \o of[m][idx + 1]
    BY <1>1, <1>5
  <2>2. InPlace(of[m][idx + 1], k + 1)
    BY <1>5
  <2>3. QED
    BY <1>2, <2>1, <2>2, PlaceMore
<1>6. n < 10 \/ n >= 10
  OBVIOUS
<1>7. QED
  BY <1>3, <1>4, <1>5, <1>6

\* Up to five figures, a comma stands behind the third one from the right.
LEMMA FiveFigures ==
  ASSUME NEW v \in Nat, v < 100000
  PROVE  InPlace(Grouped(v), 0)
<1>1. PICK of : Groups(v, of)
  BY GroupedInTurn
<1>2. ASSUME NEW n \in 0..v, n < 10 PROVE InPlace(of[n][5], 5)
  BY <1>1, <1>2, OneRound
<1>3. ASSUME NEW n \in 0..v, n < 100 PROVE InPlace(of[n][4], 4)
  <2>1. n >= 10 => n \div 10 \in 0..v /\ n \div 10 < 10
    BY <1>3
  <2>2. n >= 10 => InPlace(of[n \div 10][4 + 1], 4 + 1)
    BY <1>2, <2>1
  <2>3. (4 + 1) % 4 # 0 /\ (4 + 1) % 3 # 0
    OBVIOUS
  <2>4. QED
    BY <1>1, <2>2, <2>3, OneRound
<1>4. ASSUME NEW n \in 0..v, n < 1000 PROVE InPlace(of[n][2], 2)
  <2>1. n >= 10 => n \div 10 \in 0..v /\ n \div 10 < 100
    BY <1>4
  <2>2. n >= 10 => InPlace(of[n \div 10][2 + 2], 2 + 2)
    BY <1>3, <2>1
  <2>3. (2 + 1) % 4 # 0 /\ (2 + 1) % 3 = 0 /\ (2 + 2) % 4 = 0
    OBVIOUS
  <2>4. QED
    BY <1>1, <2>2, <2>3, OneRound
<1>5. ASSUME NEW n \in 0..v, n < 10000 PROVE InPlace(of[n][1], 1)
  <2>1. n >= 10 => n \div 10 \in 0..v /\ n \div 10 < 1000
    BY <1>5
  <2>2. n >= 10 => InPlace(of[n \div 10][1 + 1], 1 + 1)
    BY <1>4, <2>1
  <2>3. (1 + 1) % 4 # 0 /\ (1 + 1) % 3 # 0
    OBVIOUS
  <2>4. QED
    BY <1>1, <2>2, <2>3, OneRound
<1>6. InPlace(of[v][0], 0)
  <2>1. v >= 10 => v \div 10 \in 0..v /\ v \div 10 < 10000
    OBVIOUS
  <2>2. v >= 10 => InPlace(of[v \div 10][0 + 1], 0 + 1)
    BY <1>5, <2>1
  <2>3. (0 + 1) % 4 # 0 /\ (0 + 1) % 3 # 0 /\ v \in 0..v
    OBVIOUS
  <2>4. QED
    BY <1>1, <2>2, <2>3, OneRound
<1>7. QED
  BY <1>1, <1>6 DEF Groups

\* A text and the same turned round.
LEMMA TurnedRound ==
  ASSUME NEW C, NEW t \in Seq(C)
  PROVE  /\ Reverse(t) \in Seq(C) /\ Len(Reverse(t)) = Len(t)
         /\ \A i \in 1..Len(t) : Reverse(t)[i] = t[Len(t) + 1 - i]
<1> DEFINE n == Len(t)
<1>1. Reverse(t) = [i \in 1..n |-> t[(n - i) + 1]] /\ n \in Nat
  BY DEF Reverse
<1>2. \A i \in 1..n : (n - i) + 1 = n + 1 - i /\ n + 1 - i \in 1..n
  BY <1>1
<1> HIDE DEF n
<1>3. \A i \in 1..n : t[n + 1 - i] \in C
  BY <1>2 DEF n
<1>4. QED
  BY <1>1, <1>2, <1>3 DEF n

\* num_with_commas puts a comma behind every third figure from the right.
LEMMA CommasRight ==
  ASSUME NEW v \in Nat, v < 100000
  PROVE  CommasInPlace(Commas(v))
<1> DEFINE t == Grouped(v)
           s == Reverse(t)
           n == Len(t)
<1>1. InPlace(t, 0)
  BY FiveFigures
<1> HIDE DEF t
<1>2. /\ t \in Seq(SizeChar) /\ t # <<>> /\ t[n] # Comma /\ n \in Nat
      /\ \A i \in 1..n : (t[i] = Comma) <=> ((i + 0) % 4 = 0)
  BY <1>1 DEF InPlace
<1>3. s \in Seq(SizeChar) /\ Len(s) = n /\ DOMAIN s = 1..n /\ \A i \in 1..n : s[i] = t[n + 1 - i]
  BY <1>2, TurnedRound
<1>4. n >= 1
  BY <1>2, EmptySeq
<1> HIDE DEF n, s
<1>5. s[1] # Comma
  <2>1. 1 \in 1..n /\ n + 1 - 1 = n
    BY <1>2, <1>4
  <2>2. QED
    BY <1>2, <1>3, <2>1
<1>6. ASSUME NEW i \in 1..n PROVE (s[i] = Comma) <=> ((n + 1 - i) % 4 = 0)
  <2>1. n + 1 - i \in 1..n /\ (n + 1 - i) + 0 = n + 1 - i
    BY <1>2
  <2>2. QED
    BY <1>2, <1>3, <2>1
<1>7. CommasInPlace(s)
  BY <1>3, <1>5, <1>6 DEF CommasInPlace
<1>8. QED
  BY <1>7 DEF Commas, s, t

\* pr_right writes the number, its commas and as many blanks in front as it is short;
\* up to five figures the commas are in place.
THEOREM SizeShown ==
  ASSUME NEW v \in Nat, NEW w \in Nat
  PROVE  SizeText(PrRight(v, w), v, w)
<1> DEFINE r == PrRight(v, w)
           s == Without(r, Blank)
           t == Commas(v)
           n == Len(t)
           pad == IF w > n THEN w - n ELSE 0
           C == SizeChar \union {Blank}
           q == [i \in 1..pad |-> Blank]
<1>1. t \in Seq(SizeChar) /\ n \in Nat /\ t = Reverse(Grouped(v)) /\ Stands(Without(t, Comma), v, 10)
  <2>1. GroupText(Grouped(v), v)
    BY GroupedRight
  <2>2. Grouped(v) \in Seq(SizeChar)
    BY <2>1 DEF GroupText
  <2>3. Reverse(Grouped(v)) \in Seq(SizeChar)
    BY <2>2, TurnedRound
  <2>4. t = Reverse(Grouped(v))
    BY DEF Commas
  <2>5. QED
    BY <2>1, <2>3, <2>4 DEF GroupText
<1>2. r = q \o t
  BY DEF PrRight
<1> HIDE DEF r, s, t
<1>3. pad \in Nat /\ n \in Nat
  BY <1>1
<1>4. t \in Seq(C) /\ \A i \in 1..n : t[i] # Blank
  <2>1. \A i \in 1..n : t[i] \in SizeChar
    BY <1>1
  <2>2. QED
    BY <1>1, <2>1, SizeChars
<1>5. n + pad = IF n > w THEN n ELSE w
  BY <1>3
<1> HIDE DEF pad, C
<1>6. q \in Seq(C) /\ Len(q) = pad /\ \A i \in 1..pad : q[i] = Blank
  <2>1. Blank \in C
    BY DEF C
  <2>2. QED
    BY <1>3, <2>1, Repeated
<1> HIDE DEF q
<1>7. s = t
  <2>0. s = Without(r, Blank)
    BY DEF s
  <2>1. \A i \in 1..Len(q) : q[i] = Blank
    BY <1>6
  <2>2. q \in Seq(C) /\ t \in Seq(C)
    BY <1>4, <1>6
  <2>3. Without(q \o t, Blank) = t
    BY <1>4, <2>1, <2>2, WithoutFront, Zenon DEF n
  <2>4. QED
    BY <1>2, <2>0, <2>3
<1>8. Len(r) = pad + n
  <2>1. q \in Seq(C) /\ t \in Seq(C)
    BY <1>4, <1>6
  <2>2. Len(q \o t) = Len(q) + Len(t)
    BY <2>1, Concatenated
  <2>3. QED
    BY <1>2, <1>6, <2>2 DEF n
<1>9. Len(r) - Len(s) = pad
  BY <1>3, <1>7, <1>8 DEF n
<1>10. r = [i \in 1..(Len(r) - Len(s)) |-> Blank] \o s
  <2>1. [i \in 1..pad |-> Blank] \o t = r
    BY <1>2 DEF q
  <2>2. QED
    BY <1>7, <1>9, <2>1
<1>11. Len(r) = IF Len(s) > w THEN Len(s) ELSE w
  BY <1>3, <1>5, <1>7, <1>8 DEF n
<1>12. v < 100000 => CommasInPlace(t)
  BY CommasRight DEF t
<1>13. QED
  BY <1>1, <1>7, <1>10, <1>11, <1>12 DEF SizeText, r, s

\* Every step gives what SizesRight says.
LEMMA SizeStep ==
  ASSUME Next
  PROVE  SizesRight'
<1>1. SUFFICES ASSUME fn' = "pr_right" PROVE SizesRight'
  BY DEF SizesRight
<1>2. PICK v \in Sizes, w \in {0, 4, 10} : Call("pr_right", <<v, w>>, PrRight(v, w))
  BY <1>1, WhichCall DEF SizeCall
<1>3. args' = <<v, w>> /\ result' = PrRight(v, w)
  BY <1>2, CallGives
<1>4. args'[1] = v /\ args'[2] = w /\ v \in Nat /\ w \in Nat
  BY <1>3, RoutinesAssumption DEF Sizes
<1>5. SizeText(result', args'[1], args'[2])
  BY <1>3, <1>4, SizeShown
<1>6. QED
  BY <1>5 DEF SizesRight

-----------------------------------------------------------------------------
(* The listing's dates and the clock's *)

\* Two numbers in one word come out again.
LEMMA Halves ==
  ASSUME NEW d \in Nat \ {0}, NEW q \in Nat, NEW r \in 0..(d - 1)
  PROVE  (q * d + r) \div d = q /\ (q * d + r) % d = r
BY OneQuotient

Years == {year \in Int : 1980 <= year /\ year <= 2107}

\* The words of a date and a time keep their fields apart.
LEMMA FieldsApart ==
  ASSUME NEW year \in Years, NEW m \in 0..15, NEW d \in 0..31, NEW h \in 0..31, NEW n \in 0..63
  PROVE  DosDateTime(DateWord(year, m, d), TimeWord(h, n)) = DosFields(m, d, year, h, n)
<1> DEFINE y == year - 1980
           date == DateWord(year, m, d)
           time == TimeWord(h, n)
<1>0. y \in 0..127 /\ 1980 + y = year /\ date = y * 512 + m * 32 + d /\ time = h * 2048 + n * 32
  BY DEF DateWord, TimeWord, Years
<1> HIDE DEF y, date, time
<1>1. date \div 512 = y
  <2>1. 512 \in Nat \ {0} /\ m * 32 + d \in 0..(512 - 1) /\ date = y * 512 + (m * 32 + d) /\ y \in Nat
    BY <1>0
  <2>2. QED
    BY <2>1, OneQuotient
<1>2. date \div 32 = y * 16 + m /\ date % 32 = d
  <2> DEFINE q == y * 16 + m
             a == 32
  <2>1. a \in Nat \ {0} /\ d \in 0..(a - 1) /\ date = q * a + d /\ q \in Nat
    BY <1>0
  <2> HIDE DEF q, a
  <2>2. date \div a = q /\ date % a = d
    BY <2>1, OneQuotient
  <2>3. QED
    BY <2>2 DEF q, a
<1>3. (y * 16 + m) % 16 = m
  <2>1. 16 \in Nat \ {0} /\ m \in 0..(16 - 1) /\ y \in Nat
    BY <1>0
  <2>2. QED
    BY <2>1, OneQuotient
<1>4. time \div 2048 = h
  <2> DEFINE a == 2048
             r == n * 32
  <2>1. a \in Nat \ {0} /\ r \in 0..(a - 1) /\ h \in Nat /\ time = h * a + r
    BY <1>0
  <2> HIDE DEF a, r
  <2>2. time \div a = h
    BY <2>1, OneQuotient
  <2>3. QED
    BY <2>2 DEF a
<1>5. h % 32 = h
  BY <1>0
<1>6. time \div 32 = h * 64 + n
  <2>1. 32 \in Nat \ {0} /\ 0 \in 0..(32 - 1) /\ time = (h * 64 + n) * 32 + 0 /\ h * 64 + n \in Nat
    BY <1>0
  <2>2. QED
    BY <2>1, OneQuotient
<1>7. (h * 64 + n) % 64 = n
  <2>1. 64 \in Nat \ {0} /\ n \in 0..(64 - 1) /\ h \in Nat
    BY <1>0
  <2>2. QED
    BY <2>1, OneQuotient
<1>8. /\ (date \div 32) % 16 = m /\ (time \div 2048) % 32 = h /\ (time \div 32) % 64 = n
  BY <1>2, <1>3, <1>4, <1>5, <1>6, <1>7
<1>9. QED
  BY <1>0, <1>1, <1>2, <1>8 DEF DosDateTime, date, time

\* pr_dos_datetime shows the fields the words were made of, the hour by a clock
\* of twelve.
LEMMA DosLaid ==
  ASSUME NEW year, NEW m, NEW d, NEW hour \in 0..31, NEW n
  PROVE  DosText(DosFields(m, d, year, hour, n), m, d, year, hour, n)
<1> DEFINE h == IF hour % 12 = 0 THEN 12 ELSE hour % 12
<1>1. h \in 1..12 /\ h % 12 = hour % 12
  OBVIOUS
<1>2. DosFields(m, d, year, hour, n)
        = Itoa(m) \o <<"-">> \o Itoa(d) \o <<"-">> \o Itoa(year)
            \o <<Blank, Blank>> \o Itoa(h) \o <<":">> \o Itoa(n)
            \o <<IF hour >= 12 THEN "p" ELSE "a">>
  BY Zenon DEF DosFields
<1> HIDE DEF h
<1>3. QED
  BY <1>1, <1>2, Zenon DEF DosText

\* pr_dos_datetime shows the fields that the words of a date and a time were made of.
THEOREM DosShown ==
  ASSUME NEW year \in Years, NEW m \in 0..15, NEW d \in 0..31, NEW hour \in 0..31, NEW n \in 0..63
  PROVE  DosText(DosDateTime(DateWord(year, m, d), TimeWord(hour, n)), m, d, year, hour, n)
<1>1. DosDateTime(DateWord(year, m, d), TimeWord(hour, n)) = DosFields(m, d, year, hour, n)
  BY FieldsApart, Zenon
<1>2. DosText(DosFields(m, d, year, hour, n), m, d, year, hour, n)
  BY DosLaid
<1>3. QED
  BY <1>1, <1>2

\* A byte of the clock shows as the two figures of its number.
LEMMA TwoShown ==
  ASSUME NEW v \in 0..99
  PROVE  Two(Bcd(v)) \in Seq(Figured) /\ Len(Two(Bcd(v))) = 2 /\ NumberOf(Two(Bcd(v)), 10) = v
<1> DEFINE q == v \div 10
           r == v % 10
           b == Bcd(v)
<1>1. q \in 0..9 /\ r \in 0..9 /\ v = q * 10 + r
  OBVIOUS
<1>2. b = q * 16 + r
  BY DEF Bcd
<1> HIDE DEF q, r, b
<1>3. b \div 16 = q /\ b % 16 = r
  BY <1>1, <1>2, OneQuotient
<1>4. BcdToBin(b) = v
  BY <1>1, <1>3 DEF BcdToBin
<1> DEFINE x == Figure[q + 1]
           z == Figure[r + 1]
<1>5. Two(b) = <<x, z>>
  BY <1>4 DEF Two, q, r
<1>6. x \in Figured /\ z \in Figured /\ Place(x) = q /\ Place(z) = r
  <2>1. q \in 0..15 /\ r \in 0..15 /\ q + 1 \in 1..16 /\ r + 1 \in 1..16
    BY <1>1
  <2>2. QED
    BY <2>1, PlaceOfFigure DEF Figured
<1> HIDE DEF x, z
<1>7. <<x, z>> = Append(Append(<<>>, x), z) /\ <<>> \in Seq(Figured) /\ Append(<<>>, x) \in Seq(Figured)
  BY <1>6
<1>8. NumberOf(<<x, z>>, 10) = (0 * 10 + q) * 10 + r
  <2>1. NumberOf(Append(<<>>, x), 10) = Shifted(NumberOf(<<>>, 10), 10, x)
    BY <1>6, <1>7, NumberAppend
  <2>2. NumberOf(Append(<<>>, x), 10) = 0 * 10 + q
    BY <1>6, <2>1, NumberEmpty DEF Shifted
  <2>3. NumberOf(Append(Append(<<>>, x), z), 10) = Shifted(NumberOf(Append(<<>>, x), 10), 10, z)
    BY <1>6, <1>7, NumberAppend
  <2>4. QED
    BY <1>6, <1>7, <2>2, <2>3 DEF Shifted
<1>9. <<x, z>> \in Seq(Figured) /\ Len(<<x, z>>) = 2
  BY <1>6
<1>10. (0 * 10 + q) * 10 + r = v
  BY <1>1
<1>11. QED
  BY <1>5, <1>8, <1>9, <1>10 DEF b

\* The n characters of s show the first k of the pairs f at their places.
PairAt == <<1, 3, 6, 9, 12, 15, 18>>
Pairs(C) == {f \in [1..7 -> Seq(C)] : \A i \in 1..7 : Len(f[i]) = 2}
Shows(C, f, s, n, k) ==
  s \in Seq(C) /\ Len(s) = n /\ \A i \in 1..k : Within(s, PairAt[i], f[i])

\* A mark between two pairs.
LEMMA ShowsMark ==
  ASSUME NEW C, NEW f \in Pairs(C), NEW n \in Nat, NEW k \in 0..7, NEW s, Shows(C, f, s, n, k),
         NEW c \in C
  PROVE  Shows(C, f, s \o <<c>>, n + 1, k)
<1> DEFINE q == <<c>>
<1>1. q \in Seq(C) /\ Len(q) = 1 /\ s \in Seq(C) /\ Len(s) = n
  BY DEF Shows
<1> HIDE DEF q
<1>2. s \o q \in Seq(C) /\ Len(s \o q) = n + 1
  BY <1>1, WithinEnd
<1>3. \A i \in 1..k : f[i] \in Seq(C) /\ Within(s, PairAt[i], f[i])
  BY DEF Shows, Pairs
<1>4. \A i \in 1..k : Within(s \o q, PairAt[i], f[i])
  BY <1>1, <1>3, WithinMore
<1>5. QED
  BY <1>2, <1>4 DEF Shows, q

\* A pair more at its place.
LEMMA ShowsPair ==
  ASSUME NEW C, NEW f \in Pairs(C), NEW n \in Nat, NEW k \in 0..6, NEW s, Shows(C, f, s, n, k),
         PairAt[k + 1] = n + 1
  PROVE  Shows(C, f, s \o f[k + 1], n + 2, k + 1)
<1> DEFINE q == f[k + 1]
<1>1. q \in Seq(C) /\ Len(q) = 2 /\ s \in Seq(C) /\ Len(s) = n
  BY DEF Shows, Pairs
<1>2. \A i \in 1..k : f[i] \in Seq(C) /\ Within(s, PairAt[i], f[i])
  BY DEF Shows, Pairs
<1> HIDE DEF q
<1>3. s \o q \in Seq(C) /\ Len(s \o q) = n + 2 /\ Within(s \o q, n + 1, q)
  BY <1>1, WithinEnd
<1>4. \A i \in 1..k : Within(s \o q, PairAt[i], f[i])
  BY <1>1, <1>2, WithinMore
<1>5. \A i \in 1..(k + 1) : i \in 1..k \/ i = k + 1
  OBVIOUS
<1>6. QED
  BY <1>3, <1>4, <1>5 DEF Shows, q

\* The seven pairs and the marks between them.
LEMMA SevenPairs ==
  ASSUME NEW C, NEW f \in Pairs(C), NEW a \in C, NEW b \in C, NEW c \in C
  PROVE  Shows(C, f, f[1] \o f[2] \o <<a>> \o f[3] \o <<a>> \o f[4] \o <<b>> \o f[5]
                       \o <<c>> \o f[6] \o <<c>> \o f[7], 19, 7)
<1> DEFINE e2 == f[1] \o f[2]
           e3 == e2 \o <<a>>
           e4 == e3 \o f[3]
           e5 == e4 \o <<a>>
           e6 == e5 \o f[4]
           e7 == e6 \o <<b>>
           e8 == e7 \o f[5]
           e9 == e8 \o <<c>>
           e10 == e9 \o f[6]
           e11 == e10 \o <<c>>
           e12 == e11 \o f[7]
<1>0. /\ PairAt[1] = 1 /\ PairAt[2] = 3 /\ PairAt[3] = 6 /\ PairAt[4] = 9 /\ PairAt[5] = 12
      /\ PairAt[6] = 15 /\ PairAt[7] = 18
  BY DEF PairAt
<1>1. Shows(C, f, f[1], 2, 1)
  <2>1. f[1] \in Seq(C) /\ Len(f[1]) = 2
    BY DEF Pairs
  <2>2. Within(f[1], 1, f[1])
    BY <2>1 DEF Within
  <2>3. \A i \in 1..1 : i = 1
    OBVIOUS
  <2>4. QED
    BY <1>0, <2>1, <2>2, <2>3 DEF Shows
<1>2. Shows(C, f, e2, 4, 2)
  BY <1>0, <1>1, ShowsPair
<1> HIDE DEF e2
<1>3. Shows(C, f, e3, 5, 2)
  BY <1>2, ShowsMark
<1> HIDE DEF e3
<1>4. Shows(C, f, e4, 7, 3)
  BY <1>0, <1>3, ShowsPair
<1> HIDE DEF e4
<1>5. Shows(C, f, e5, 8, 3)
  BY <1>4, ShowsMark
<1> HIDE DEF e5
<1>6. Shows(C, f, e6, 10, 4)
  BY <1>0, <1>5, ShowsPair
<1> HIDE DEF e6
<1>7. Shows(C, f, e7, 11, 4)
  BY <1>6, ShowsMark
<1> HIDE DEF e7
<1>8. Shows(C, f, e8, 13, 5)
  BY <1>0, <1>7, ShowsPair
<1> HIDE DEF e8
<1>9. Shows(C, f, e9, 14, 5)
  BY <1>8, ShowsMark
<1> HIDE DEF e9
<1>10. Shows(C, f, e10, 16, 6)
  BY <1>0, <1>9, ShowsPair
<1> HIDE DEF e10
<1>11. Shows(C, f, e11, 17, 6)
  BY <1>10, ShowsMark
<1> HIDE DEF e11
<1>12. Shows(C, f, e12, 19, 7)
  BY <1>0, <1>11, ShowsPair
<1>13. QED
  BY <1>12 DEF e11, e10, e9, e8, e7, e6, e5, e4, e3, e2

\* format_date_time shows each byte of the clock at its place.
LEMMA ClockShown ==
  ASSUME NEW r \in [1..7 -> 0..99]
  PROVE  ClockText(DateTime([i \in 1..7 |-> Bcd(r[i])]), r)
<1> DEFINE C == Figured \union {"/", Blank, ":"}
           f == [i \in 1..7 |-> Two(Bcd(r[i]))]
           g == [i \in 1..7 |-> Bcd(r[i])]
           s == DateTime(g)
<1>1. \A i \in 1..7 : f[i] \in Seq(Figured) /\ Len(f[i]) = 2 /\ NumberOf(f[i], 10) = r[i]
  BY TwoShown
<1>2. f \in Pairs(C)
  <2>1. \A i \in 1..7 : f[i] \in Seq(C)
    BY <1>1
  <2> HIDE DEF C
  <2>2. QED
    BY <1>1, <2>1 DEF Pairs
<1>3. s = f[1] \o f[2] \o <<"/">> \o f[3] \o <<"/">> \o f[4] \o <<Blank>> \o f[5]
            \o <<":">> \o f[6] \o <<":">> \o f[7]
  <2>1. /\ Two(g[1]) = f[1] /\ Two(g[2]) = f[2] /\ Two(g[3]) = f[3] /\ Two(g[4]) = f[4]
        /\ Two(g[5]) = f[5] /\ Two(g[6]) = f[6] /\ Two(g[7]) = f[7]
    OBVIOUS
  <2> HIDE DEF f, g
  <2>2. QED
    BY <2>1, Zenon DEF DateTime
<1>4. "/" \in C /\ ":" \in C /\ Blank \in C
  OBVIOUS
<1> HIDE DEF C, f, s
<1>5. Shows(C, f, s, 19, 7)
  BY <1>2, <1>3, <1>4, SevenPairs, Zenon
<1>6. ASSUME NEW i \in 1..7
      PROVE  NumberOf(SubSeq(s, PairAt[i], PairAt[i] + 1), 10) = r[i]
  <2>0. f[i] \in Seq(C) /\ s \in Seq(C) /\ Len(f[i]) = 2 /\ Within(s, PairAt[i], f[i])
    BY <1>2, <1>5, Zenon DEF Shows, Pairs
  <2>1. f[i] \in Seq(C) /\ s \in Seq(C) /\ Len(f[i]) = 2 /\ Within(s, PairAt[i], f[i]) /\ f[i] # <<>>
    <3>1. ASSUME NEW q, Len(q) = 2, q = <<>> PROVE FALSE
      <4>1. Len(q) = Len(<<>>)
        BY <3>1, Zenon
      <4>2. Len(<<>>) = 0
        OBVIOUS
      <4>3. QED
        BY <3>1, <4>1, <4>2
    <3>4. f[i] # <<>>
      BY <2>0, <3>1, Zenon
    <3>3. QED
      BY <2>0, <3>4, Zenon
  <2>2. SubSeq(s, PairAt[i], PairAt[i] + Len(f[i]) - 1) = f[i]
    BY <2>1, WithinSub
  <2>3. PairAt[i] + Len(f[i]) - 1 = PairAt[i] + 1
    BY <2>1 DEF PairAt
  <2>4. QED
    BY <1>1, <2>2, <2>3
<1>7. Len(s) = 19
  BY <1>5 DEF Shows
<1>8. QED
  BY <1>6, <1>7 DEF ClockText, PairAt, s

\* Every step gives what DatesRight says.
LEMMA DatesStep ==
  ASSUME Next
  PROVE  DatesRight'
<1>1. ASSUME fn' = "pr_dos_datetime"
      PROVE  DosText(result', args'[1], args'[2], args'[3], args'[4], args'[5])
  <2> DEFINE Dated(year, month, day, hour, minute) ==
               Call("pr_dos_datetime", <<month, day, year, hour, minute>>,
                    DosDateTime(DateWord(year, month, day), TimeWord(hour, minute)))
  <2>1. \E year \in Years, month \in 0..15, day \in 0..31, hour \in 0..31, minute \in 0..63 :
          Dated(year, month, day, hour, minute)
    <3> DEFINE Y == {1980, 2107}
               M == {1, 12}
               D == {1, 31}
               H == {0, 11, 12, 23}
               N == {0, 59}
    <3>1. \E year \in Y, month \in M, day \in D, hour \in H, minute \in N :
            Dated(year, month, day, hour, minute)
      BY <1>1, WhichCall DEF DosCall
    <3>2. Y \subseteq Years /\ M \subseteq 0..15 /\ D \subseteq 0..31 /\ H \subseteq 0..31 /\ N \subseteq 0..63
      BY DEF Years
    <3> HIDE DEF Dated, Y, M, D, H, N
    <3>3. QED
      BY <3>1, <3>2, Zenon
  <2>4. PICK year \in Years, month \in 0..15, day \in 0..31, hour \in 0..31, minute \in 0..63 :
          Dated(year, month, day, hour, minute)
    BY <2>1
  <2>2. /\ args' = <<month, day, year, hour, minute>>
        /\ result' = DosDateTime(DateWord(year, month, day), TimeWord(hour, minute))
    BY <2>4, CallGives
  <2>3. /\ args'[1] = month /\ args'[2] = day /\ args'[3] = year /\ args'[4] = hour
        /\ args'[5] = minute
    BY <2>2
  <2>5. DosText(result', month, day, year, hour, minute)
    BY <2>2, DosShown, Zenon
  <2>6. QED
    BY <2>3, <2>5
<1>2. ASSUME fn' = "format_date_time" PROVE ClockText(result', args')
  <2>1. PICK r \in Clocks :
          Call("format_date_time", r, DateTime([i \in DOMAIN r |-> Bcd(r[i])]))
    BY <1>2, WhichCall DEF ClockCall
  <2>2. args' = r /\ result' = DateTime([i \in DOMAIN r |-> Bcd(r[i])])
    BY <2>1, CallGives
  <2>3. r \in [1..7 -> 0..99] /\ DOMAIN r = 1..7
    BY DEF Clocks
  <2>4. QED
    BY <2>2, <2>3, ClockShown
<1>3. QED
  BY <1>1, <1>2 DEF DatesRight

-----------------------------------------------------------------------------
(* Texts made of parts *)

\* A part more.
Joint(q, part) == q \o part

\* j joins the parts one by one.
Joins(parts, j) ==
  /\ j[0] = <<>> /\ j[Len(parts)] = Joined(parts)
  /\ \A k \in 1..Len(parts) : j[k] = Joint(j[k - 1], parts[k])

\* Joined joins its parts one by one.
LEMMA JoinedInTurn ==
  ASSUME NEW C, NEW parts \in Seq(Seq(C))
  PROVE  \E j \in [0..Len(parts) -> Seq(C)] : Joins(parts, j)
<1> DEFINE n == Len(parts)
           step == [p \in (1..n) \X Seq(C) |-> Joint(p[2], parts[p[1]])]
           A(f) == f = [k \in 0..n |-> IF k = 0 THEN <<>> ELSE Joint(f[k - 1], parts[k])]
           upto == CHOOSE f : A(f)
<1>1. n \in Nat /\ <<>> \in Seq(C) /\ \A k \in 1..n : parts[k] \in Seq(C)
  OBVIOUS
<1> HIDE DEF n
<1>2. \A k \in 1..n, q \in Seq(C) : step[<<k, q>>] = Joint(q, parts[k]) /\ step[<<k, q>>] \in Seq(C)
  <2>1. TAKE k \in 1..n, q \in Seq(C)
  <2>2. parts[k] \in Seq(C)
    BY <1>1
  <2>3. Joint(q, parts[k]) \in Seq(C)
    BY <2>2, Concatenated DEF Joint
  <2>4. step[<<k, q>>] = Joint(q, parts[k])
    OBVIOUS
  <2>5. QED
    BY <2>3, <2>4
<1> HIDE DEF step
<1>3. PICK f \in [0..n -> Seq(C)] : Path(n, <<>>, step, f)
  BY <1>1, <1>2, Loops
<1>4. \A k \in 0..n : f[k] = IF k = 0 THEN <<>> ELSE Joint(f[k - 1], parts[k])
  <2>1. \A k \in 0..n : f[k] = IF k = 0 THEN <<>> ELSE step[<<k, f[k - 1]>>]
    BY <1>3 DEF Path
  <2>2. TAKE k \in 0..n
  <2>3. k # 0 => k \in 1..n /\ f[k - 1] \in Seq(C)
    BY <1>1
  <2>4. QED
    BY <1>2, <2>1, <2>3
<1>5. A(f)
  <2> DEFINE g == [k \in 0..n |-> IF k = 0 THEN <<>> ELSE Joint(f[k - 1], parts[k])]
  <2>1. \A k \in 0..n : f[k] = g[k]
    BY <1>4
  <2>2. f = g
    BY <2>1
  <2>3. QED
    BY <2>2
<1>6. A(upto)
  BY <1>5
<1>7. Joined(parts) = upto[n]
  BY Zenon DEF Joined, Joint, n
<1> HIDE DEF upto
<1>8. \A k \in 0..n : upto[k] = IF k = 0 THEN <<>> ELSE Joint(upto[k - 1], parts[k])
  BY <1>6
<1> DEFINE T == {k \in Nat : upto[k] \in Seq(C)}
<1>9. 0 \in T
  <2>1. 0 \in 0..n
    BY <1>1
  <2>2. upto[0] = <<>>
    BY <1>8, <2>1
  <2>3. QED
    BY <1>1, <2>2
<1>10. \A k \in Nat : k + 1 <= n /\ k \in T => k + 1 \in T
  <2>1. TAKE k \in Nat
  <2>2. SUFFICES ASSUME k + 1 <= n, upto[k] \in Seq(C) PROVE upto[k + 1] \in Seq(C)
    OBVIOUS
  <2>3. k + 1 \in 1..n /\ k + 1 \in 0..n /\ k + 1 # 0 /\ (k + 1) - 1 = k
    BY <1>1, <2>2
  <2>4. upto[k + 1] = Joint(upto[k], parts[k + 1])
    BY <1>8, <2>3
  <2>5. parts[k + 1] \in Seq(C)
    BY <1>1, <2>3
  <2>6. Joint(upto[k], parts[k + 1]) \in Seq(C)
    BY <2>2, <2>5, Concatenated DEF Joint
  <2>7. QED
    BY <2>4, <2>6
<1>11. \A k \in 0..n : k \in T
  <2> HIDE DEF T
  <2>1. QED
    BY <1>1, <1>9, <1>10, Upto
<1>12. upto \in [0..n -> Seq(C)]
  <2>1. \A k \in 0..n : upto[k] \in Seq(C)
    BY <1>11
  <2> DEFINE h == [k \in 0..n |-> IF k = 0 THEN <<>> ELSE Joint(upto[k - 1], parts[k])]
  <2>2. upto = h
    BY <1>6
  <2>3. h = [k \in 0..n |-> h[k]]
    OBVIOUS
  <2> HIDE DEF h
  <2>4. QED
    BY <2>1, <2>2, <2>3
<1>13. Joins(parts, upto)
  <2>1. \A k \in 1..n : upto[k] = Joint(upto[k - 1], parts[k])
    BY <1>1, <1>8
  <2>2. upto[0] = <<>>
    BY <1>1, <1>8
  <2>3. QED
    BY <1>7, <2>1, <2>2 DEF Joins, n
<1>14. QED
  BY <1>12, <1>13 DEF n

-----------------------------------------------------------------------------
(* Dumps *)

\* The rows of debug_dump_mem hold every byte once and in order.
LEMMA RowsDumped ==
  ASSUME NEW n \in Nat
  PROVE  Dumped(DumpMem(100, n), n)
<1> DEFINE rows == DumpMem(100, n)
           m == (n + 15) \div 16
           Width(r) == IF n - 16 * (r - 1) < 16 THEN n - 16 * (r - 1) ELSE 16
<1>1. m \in Nat /\ 16 * m >= n /\ 16 * m < n + 16
  OBVIOUS
<1>2. Len(rows) = m /\ DOMAIN rows = 1..m
  BY <1>1 DEF DumpMem
<1>3. \A r \in 1..m : Width(r) \in 1..16 /\ (r < m => Width(r) = 16)
                      /\ 16 * (r - 1) + Width(r) = IF 16 * r < n THEN 16 * r ELSE n
  BY <1>1
<1>4. ASSUME NEW r \in 1..m
      PROVE  /\ rows[r] \in Seq(Int) /\ Len(rows[r]) = Width(r)
             /\ \A i \in 1..Width(r) : rows[r][i] = 99 + (16 * (r - 1) + i)
  <2> DEFINE w == Width(r)
             q == [j \in 1..w |-> 100 + 16 * (r - 1) + j - 1]
  <2>1. rows[r] = q
    BY DEF DumpMem
  <2>2. w \in Nat /\ r \in Int
    BY <1>1, <1>3
  <2> HIDE DEF w, rows, m
  <2>3. q \in Seq(Int) /\ Len(q) = w /\ \A i \in 1..w : q[i] = 99 + (16 * (r - 1) + i)
    BY <2>2
  <2> HIDE DEF q
  <2>4. QED
    BY <2>1, <2>3 DEF w
<1> HIDE DEF rows, m, Width
<1>5. rows \in Seq(Seq(Int))
  <2>1. rows = [r \in 1..m |-> rows[r]]
    BY Zenon DEF rows, DumpMem, m
  <2> DEFINE S == Seq(Int)
  <2>2. \A r \in 1..m : rows[r] \in S
    BY <1>4
  <2> HIDE DEF S
  <2>3. [r \in 1..m |-> rows[r]] \in Seq(S)
    BY <1>1, <2>2
  <2>4. QED
    BY <2>1, <2>3 DEF S
<1>6. PICK j \in [0..Len(rows) -> Seq(Int)] : Joins(rows, j)
  BY <1>5, JoinedInTurn
<1> DEFINE Done(k) == IF 16 * k < n THEN 16 * k ELSE n
           Good(k) == Len(j[k]) = Done(k) /\ \A i \in 1..Done(k) : j[k][i] = 99 + i
           T == {k \in Nat : Good(k)}
<1>7. Good(0)
  BY <1>6 DEF Joins
<1>8. ASSUME NEW k \in Nat, k + 1 <= m, Good(k) PROVE Good(k + 1)
  <2> DEFINE q == rows[k + 1]
             p == j[k]
             w == Width(k + 1)
  <2>1. k + 1 \in 1..m /\ (k + 1) - 1 = k /\ k \in 0..m
    BY <1>1, <1>8
  <2>2. j[k + 1] = p \o q /\ p \in Seq(Int) /\ q \in Seq(Int) /\ Len(q) = w
    BY <1>2, <1>4, <1>6, <2>1 DEF Joins, Joint
  <2>3. w \in 1..16 /\ 16 * k + w = Done(k + 1)
    BY <1>3, <2>1
  <2>4. Done(k) = 16 * k
    BY <1>1, <1>8, <2>1
  <2>5. \A i \in 1..w : q[i] = 99 + (16 * k + i)
    <3>1. 16 * ((k + 1) - 1) = 16 * k
      OBVIOUS
    <3>2. QED
      BY <1>4, <2>1, <3>1
  <2>6. Len(p) = 16 * k /\ \A i \in 1..(16 * k) : p[i] = 99 + i
    BY <1>8, <2>4
  <2> DEFINE l == 16 * k
             u == p \o q
  <2>61. l \in Nat /\ w \in Nat
    BY <2>3
  <2> HIDE DEF p, q, w
  <2>7. /\ Len(u) = l + w
        /\ \A i \in 1..l : u[i] = p[i]
        /\ \A i \in 1..w : u[l + i] = q[i]
    <3>1. p \in Seq(Int) /\ q \in Seq(Int)
      BY <2>2
    <3>2. Len(p) = l /\ Len(q) = w
      BY <2>2, <2>6
    <3> HIDE DEF l
    <3>3. QED
      BY <3>1, <3>2, TwoParts
  <2> HIDE DEF u
  <2>8. \A i \in 1..l : u[i] = 99 + i
    BY <2>6, <2>7
  <2>9. \A i \in 1..w : u[l + i] = 99 + (l + i)
    BY <2>5, <2>7
  <2> HIDE DEF l
  <2>10. \A i \in 1..(l + w) : u[i] = 99 + i
    <3>1. TAKE i \in 1..(l + w)
    <3>2. CASE i <= l
      <4>1. i \in 1..l
        BY <2>61, <3>2
      <4>2. QED
        BY <2>8, <4>1
    <3>3. CASE i > l
      <4>1. i - l \in 1..w /\ l + (i - l) = i
        BY <2>61, <3>3
      <4>2. QED
        BY <2>9, <4>1
    <3>4. QED
      BY <2>61, <3>2, <3>3
  <2>11. QED
    BY <2>2, <2>3, <2>7, <2>10 DEF l, u
<1> HIDE DEF Good
<1>9. Good(m)
  <2>1. 0 \in T /\ \A k \in Nat : k + 1 <= m /\ k \in T => k + 1 \in T
    BY <1>7, <1>8
  <2> HIDE DEF T
  <2>2. m \in T
    BY <1>1, <2>1, Upto
  <2>3. QED
    BY <2>2 DEF T
<1>10. Done(m) = n
  BY <1>1
<1>11. j[m] = [i \in 1..n |-> 99 + i]
  <2>1. j[m] \in Seq(Int)
    BY <1>1, <1>2, <1>6
  <2>2. Len(j[m]) = n /\ \A i \in 1..n : j[m][i] = 99 + i
    BY <1>9, <1>10 DEF Good
  <2>3. j[m] = [i \in 1..n |-> j[m][i]]
    BY <2>1, <2>2, Spelled
  <2> DEFINE u == j[m]
  <2> HIDE DEF u
  <2>4. \A i \in 1..n : u[i] = 99 + i
    BY <2>2 DEF u
  <2>5. u = [i \in 1..n |-> u[i]]
    BY <2>3 DEF u
  <2>6. [i \in 1..n |-> u[i]] = [i \in 1..n |-> 99 + i]
    BY <2>4
  <2>7. QED
    BY <2>5, <2>6 DEF u
<1>12. Joined(rows) = [i \in 1..n |-> 99 + i]
  BY <1>2, <1>6, <1>11 DEF Joins
<1>13. \A r \in DOMAIN rows : Len(rows[r]) = 16 \/ r = Len(rows)
  <2>1. TAKE r \in DOMAIN rows
  <2>2. r \in 1..m /\ Len(rows[r]) = Width(r) /\ (r < m => Width(r) = 16)
    BY <1>2, <1>3, <1>4
  <2>3. QED
    BY <1>1, <1>2, <2>2
<1>14. QED
  BY <1>12, <1>13 DEF Dumped, rows

\* debug_dump_stack shows each word that begins near esp once, except the one esp points to.
LEMMA StackRight ==
  ASSUME NEW below \in Nat, NEW above \in Nat
  PROVE  StackDumped(DumpStack(1000, below, above), below, above)
<1> DEFINE Near(n) == IF n < 64 THEN n ELSE 64
           na == Near(above)
           nb == Near(below)
           a == (na + 3) \div 4
           b == (nb + 3) \div 4
           q == [i \in 1..a |-> 1000 + 4 * i]
           t == [i \in 1..b |-> 1000 - 4 * i]
<1>1. na \in 0..64 /\ nb \in 0..64
  OBVIOUS
<1>2. DumpStack(1000, below, above) = q \o t
  BY Zenon DEF DumpStack
<1>9. StackDumped(q \o t, below, above)
        <=> LET Asked == {x \in (997 - nb)..(1003 + na) : x % 4 = 0}
            IN /\ Range(q \o t) \ {1000} = Asked \ {1000}
               /\ \A i, j \in DOMAIN (q \o t) : (q \o t)[i] = (q \o t)[j] => i = j
  BY Zenon DEF StackDumped
<1> HIDE DEF na, nb
<1>10. /\ a \in 0..16 /\ 4 * a <= na + 3 /\ na + 3 < 4 * a + 4
       /\ b \in 0..16 /\ 4 * b <= nb + 3 /\ nb + 3 < 4 * b + 4
  BY <1>1
<1> HIDE DEF a, b
<1>3. /\ q \in Seq(Int) /\ Len(q) = a /\ \A i \in 1..a : q[i] = 1000 + 4 * i
      /\ t \in Seq(Int) /\ Len(t) = b /\ \A i \in 1..b : t[i] = 1000 - 4 * i
  BY <1>10
<1> DEFINE u == q \o t
<1> HIDE DEF q, t
<1>4. /\ u \in Seq(Int) /\ Len(u) = a + b
      /\ \A i \in 1..a : u[i] = q[i]
      /\ \A i \in 1..b : u[a + i] = t[i]
  <2>1. q \in Seq(Int) /\ t \in Seq(Int) /\ Len(q) = a /\ Len(t) = b
    BY <1>3
  <2>2. QED
    BY <2>1, TwoParts
<1>11. DOMAIN u = 1..(a + b)
  BY <1>4
<1>12. StackDumped(u, below, above)
        <=> LET Asked == {x \in (997 - nb)..(1003 + na) : x % 4 = 0}
            IN /\ Range(u) \ {1000} = Asked \ {1000}
               /\ \A i, j \in DOMAIN u : u[i] = u[j] => i = j
  BY <1>9, Zenon DEF u
<1> HIDE DEF u
<1>13. \A i \in 1..a : u[i] = 1000 + 4 * i
  BY <1>3, <1>4
<1>14. \A i \in 1..b : u[a + i] = 1000 - 4 * i
  BY <1>3, <1>4
<1>5. ASSUME NEW i \in 1..(a + b)
      PROVE  (i <= a /\ u[i] = 1000 + 4 * i) \/ (i > a /\ u[i] = 1000 - 4 * (i - a))
  <2>1. CASE i <= a
    <3>1. i \in 1..a
      BY <1>10, <2>1
    <3>2. u[i] = 1000 + 4 * i
      BY <1>13, <3>1
    <3>3. QED
      BY <2>1, <3>2
  <2>2. CASE i > a
    <3> DEFINE k == i - a
    <3>1. k \in 1..b /\ a + k = i
      BY <1>10, <2>2
    <3> HIDE DEF k
    <3>2. u[a + k] = 1000 - 4 * k
      BY <1>14, <3>1
    <3>3. u[i] = 1000 - 4 * k
      BY <3>1, <3>2
    <3>4. QED
      BY <2>2, <3>3 DEF k
  <2>3. QED
    BY <1>10, <2>1, <2>2
<1> DEFINE Asked == {x \in (997 - nb)..(1003 + na) : x % 4 = 0}
<1>6. ASSUME NEW w \in Range(u)
      PROVE  w \in Asked
  <2>1. PICK i \in 1..(a + b) : w = u[i]
    BY <1>11 DEF Range
  <2>2. (i <= a /\ w = 1000 + 4 * i) \/ (i > a /\ w = 1000 - 4 * (i - a))
    BY <1>5, <2>1
  <2>3. QED
    BY <1>1, <1>10, <2>2
<1>7. ASSUME NEW w \in Asked, w # 1000
      PROVE  w \in Range(u)
  <2>1. w \in Int /\ w % 4 = 0 /\ 997 - nb <= w /\ w <= 1003 + na
    BY <1>1
  <2>2. CASE w > 1000
    <3> DEFINE k == (w - 1000) \div 4
    <3>1. k \in Int /\ w = 1000 + 4 * k
      BY <2>1
    <3> HIDE DEF k
    <3>2. k \in 1..a /\ k \in 1..(a + b)
      BY <1>1, <1>10, <2>1, <2>2, <3>1
    <3>3. u[k] = w
      BY <1>13, <3>1, <3>2
    <3>4. QED
      BY <1>11, <3>2, <3>3 DEF Range
  <2>3. CASE w < 1000
    <3> DEFINE k == (1000 - w) \div 4
    <3>1. k \in Int /\ w = 1000 - 4 * k
      BY <2>1
    <3> HIDE DEF k
    <3>2. k \in 1..b /\ a + k \in 1..(a + b)
      BY <1>1, <1>10, <2>1, <2>3, <3>1
    <3>3. u[a + k] = w
      BY <1>14, <3>1, <3>2
    <3>4. QED
      BY <1>11, <3>2, <3>3 DEF Range
  <2>4. QED
    BY <1>7, <2>1, <2>2, <2>3
<1>15. ASSUME NEW i \in 1..(a + b), NEW j \in 1..(a + b), u[i] = u[j]
       PROVE  i = j
  <2>1. (i <= a /\ u[i] = 1000 + 4 * i) \/ (i > a /\ u[i] = 1000 - 4 * (i - a))
    BY <1>5
  <2>2. (j <= a /\ u[j] = 1000 + 4 * j) \/ (j > a /\ u[j] = 1000 - 4 * (j - a))
    BY <1>5
  <2>3. QED
    BY <1>10, <1>15, <2>1, <2>2
<1>16. Range(u) \ {1000} = Asked \ {1000}
  <2> HIDE DEF Asked
  <2>1. QED
    BY <1>6, <1>7
<1>17. \A i, j \in DOMAIN u : u[i] = u[j] => i = j
  <2>1. TAKE i, j \in DOMAIN u
  <2>2. HAVE u[i] = u[j]
  <2>3. i \in 1..(a + b) /\ j \in 1..(a + b)
    BY <1>11
  <2>4. QED
    BY <1>15, <2>2, <2>3
<1>18. StackDumped(u, below, above)
  BY <1>12, <1>16, <1>17
<1>8. QED
  BY <1>2, <1>18 DEF u

-----------------------------------------------------------------------------
(* Comparing bytes *)

Byte == {x \in Nat : x < 256}

\* A string: bytes, a 0 behind them and no other.
Terminated(s) ==
  /\ s \in Seq(Byte) /\ Len(s) >= 1 /\ s[Len(s)] = 0
  /\ \A i \in 1..(Len(s) - 1) : s[i] # 0

\* The strings of the calls end in 0.
LEMMA StringsEnd == \A s \in Strings : Terminated(s)
<1>1. TAKE s \in Strings
<1>2. PICK k \in 0..3 : \E t \in [1..k -> {1, 200}] : s = Append(t, 0)
  BY DEF Strings
<1>7. PICK t \in [1..k -> {1, 200}] : s = Append(t, 0)
  BY <1>2
<1> DEFINE C == Byte
<1>3. t \in Seq(C) /\ 0 \in C /\ Len(t) = k /\ \A i \in 1..k : t[i] # 0
  BY DEF Byte
<1> HIDE DEF C
<1>4. /\ s \in Seq(C) /\ Len(s) = k + 1 /\ s[k + 1] = 0
      /\ \A i \in 1..k : s[i] = t[i]
  BY <1>7, <1>3, AppendProperties
<1>5. (k + 1) - 1 = k /\ k + 1 >= 1
  OBVIOUS
<1>6. QED
  BY <1>3, <1>4, <1>5 DEF Terminated, C

\* strcmp is 0 for equal strings only, and otherwise has the sign of their first
\* difference, for strings of any length.
THEOREM StrcmpRight ==
  ASSUME NEW a, NEW b, Terminated(a), Terminated(b)
  PROVE  Ordered(Strcmp(a, b), a, b)
<1> DEFINE Stops == {i \in DOMAIN a \intersect DOMAIN b : a[i] = 0 \/ a[i] # b[i]}
           p == CHOOSE i \in Stops : \A j \in Stops : i <= j
           m == Len(a)
           n == Len(b)
<1>1. /\ m \in Nat /\ n \in Nat /\ m >= 1 /\ n >= 1 /\ DOMAIN a = 1..m /\ DOMAIN b = 1..n
      /\ a[m] = 0 /\ b[n] = 0 /\ a \in Seq(Byte) /\ b \in Seq(Byte)
      /\ \A i \in 1..(m - 1) : a[i] # 0
      /\ \A i \in 1..(n - 1) : b[i] # 0
  BY DEF Terminated
<1>2. (\A i \in 1..m : a[i] \in Int) /\ (\A i \in 1..n : b[i] \in Int)
  BY <1>1 DEF Byte
<1>3. Strcmp(a, b) = a[p] - b[p]
  BY Zenon DEF Strcmp
<1> HIDE DEF m, n
<1>4. Stops \in SUBSET Nat /\ Stops # {}
  <2>1. CASE m <= n
    <3>1. m \in Stops
      BY <1>1, <2>1
    <3>2. QED
      BY <1>1, <3>1
  <2>2. CASE n < m
    <3>1. a[n] # 0
      BY <1>1, <2>2
    <3>2. n \in Stops
      BY <1>1, <2>2, <3>1
    <3>3. QED
      BY <1>1, <3>2
  <2>3. QED
    BY <1>1, <2>1, <2>2
<1>5. p \in Stops /\ \A j \in Stops : p <= j
  <2> HIDE DEF Stops
  <2>1. \E x \in Stops : \A y \in Stops : x <= y
    BY <1>4, Least
  <2>2. QED
    BY <2>1, Zenon
<1> HIDE DEF p
<1>6. /\ p \in 1..m /\ p \in 1..n /\ (a[p] = 0 \/ a[p] # b[p])
      /\ \A j \in 1..(p - 1) : a[j] = b[j]
  <2>1. p \in 1..m /\ p \in 1..n /\ (a[p] = 0 \/ a[p] # b[p])
    BY <1>1, <1>5
  <2>2. ASSUME NEW j \in 1..(p - 1) PROVE a[j] = b[j]
    <3>1. j \in 1..m /\ j \in 1..n /\ ~(p <= j)
      BY <1>1, <2>1
    <3>2. QED
      BY <1>1, <1>5, <3>1
  <2>3. QED
    BY <2>1, <2>2
<1> HIDE DEF Stops
<1>7. a[p] \in Int /\ b[p] \in Int
  BY <1>2, <1>6
<1>8. a[p] = b[p] => m = p /\ n = p
  BY <1>1, <1>6
<1>9. (a[p] = b[p]) <=> (a = b)
  <2>1. ASSUME a[p] = b[p] PROVE a = b
    <3>1. m = n /\ m = p
      BY <1>8, <2>1
    <3>2. \A i \in 1..m : a[i] = b[i]
      <4>1. TAKE i \in 1..m
      <4>2. i = p \/ i \in 1..(p - 1)
        BY <1>1, <3>1
      <4>3. QED
        BY <1>6, <2>1, <4>2
    <3>3. QED
      BY <1>1, <3>1, <3>2, SeqEqual DEF m, n
  <2>2. QED
    BY <2>1
<1>10. (a[p] < b[p]) <=> Less(a, b)
  <2>1. ASSUME a[p] < b[p] PROVE Less(a, b)
    BY <1>1, <1>6, <2>1 DEF Less
  <2>2. ASSUME Less(a, b) PROVE a[p] < b[p]
    <3>1. PICK i \in 1..m : /\ i \in 1..n /\ a[i] < b[i]
                            /\ \A j \in 1..(i - 1) : a[j] = b[j]
      BY <1>1, <2>2 DEF Less
    <3>2. a[i] \in Int /\ b[i] \in Int /\ a[i] # b[i]
      BY <1>2, <3>1
    <3>3. ~(i < p)
      <4>1. i < p => i \in 1..(p - 1)
        BY <1>1, <1>6
      <4>2. QED
        BY <1>6, <3>2, <4>1
    <3>4. ~(p < i)
      <4>1. SUFFICES ASSUME p < i PROVE FALSE
        OBVIOUS
      <4>2. p \in 1..(i - 1)
        BY <1>1, <1>6, <4>1
      <4>3. m = p
        BY <1>8, <3>1, <4>2
      <4>4. QED
        BY <1>1, <4>1, <4>3
    <3>5. i = p
      BY <1>1, <1>6, <3>3, <3>4
    <3>6. QED
      BY <3>1, <3>5
  <2>3. QED
    BY <2>1, <2>2
<1>11. Strcmp(a, b) = 0 <=> a[p] = b[p]
  BY <1>3, <1>7
<1>12. Strcmp(a, b) < 0 <=> a[p] < b[p]
  BY <1>3, <1>7
<1>13. QED
  BY <1>9, <1>10, <1>11, <1>12 DEF Ordered

\* A byte keeps its sign apart from every other.
LEMMA SignedApart ==
  ASSUME NEW x \in Byte, NEW y \in Byte
  PROVE  Signed(x) \in Int /\ (Signed(x) = Signed(y) => x = y)
BY DEF Signed, Byte

\* memcmp is 0 for equal bytes only, and otherwise has the sign of their first
\* difference as signed characters; it looks no further than it is told.
THEOREM MemcmpRight ==
  ASSUME NEW a \in Seq(Byte), NEW b \in Seq(Byte), NEW k \in 1..Len(a), k <= Len(b)
  PROVE  OrderedSigned(Memcmp(a, b, k), SubSeq(a, 1, k), SubSeq(b, 1, k))
<1> DEFINE Differs == {i \in 1..k : a[i] # b[i]}
           p == CHOOSE i \in Differs : \A j \in Differs : i <= j
           s == SubSeq(a, 1, k)
           t == SubSeq(b, 1, k)
<1>1. k \in Nat /\ k >= 1 /\ \A i \in 1..k : a[i] \in Byte /\ b[i] \in Byte
  OBVIOUS
<1>2. Memcmp(a, b, k) = IF Differs = {} THEN 0 ELSE Signed(a[p]) - Signed(b[p])
  BY Zenon DEF Memcmp
<1>3. /\ s \in Seq(Byte) /\ Len(s) = k /\ DOMAIN s = 1..k /\ \A i \in 1..k : s[i] = a[i]
      /\ t \in Seq(Byte) /\ Len(t) = k /\ DOMAIN t = 1..k /\ \A i \in 1..k : t[i] = b[i]
  <2>1. k \in 1..Len(b)
    BY <1>1
  <2>2. QED
    BY <2>1, Beginning
<1> HIDE DEF s, t
<1>4. s = t <=> Differs = {}
  <2>1. ASSUME Differs = {} PROVE s = t
    <3>1. \A i \in 1..k : s[i] = t[i]
      BY <1>3, <2>1
    <3>2. QED
      BY <1>3, <3>1, SeqEqual
  <2>2. QED
    BY <1>3, <2>1
<1> DEFINE x == [i \in DOMAIN s |-> Signed(s[i])]
           y == [i \in DOMAIN t |-> Signed(t[i])]
<1>5. /\ DOMAIN x = 1..k /\ DOMAIN y = 1..k
      /\ \A i \in 1..k : x[i] = Signed(a[i]) /\ y[i] = Signed(b[i])
  BY <1>3
<1>6. \A i \in 1..k : x[i] \in Int /\ y[i] \in Int /\ (x[i] = y[i] <=> a[i] = b[i])
  <2>1. TAKE i \in 1..k
  <2>2. a[i] \in Byte /\ b[i] \in Byte /\ x[i] = Signed(a[i]) /\ y[i] = Signed(b[i])
    BY <1>1, <1>5
  <2> HIDE DEF x, y
  <2>3. QED
    BY <2>2, SignedApart
<1>7. LessSigned(s, t) <=> Less(x, y)
  BY DEF LessSigned
<1> HIDE DEF x, y
<1>8. CASE Differs = {}
  <2>1. Memcmp(a, b, k) = 0 /\ s = t
    BY <1>2, <1>4, <1>8
  <2>2. ~Less(x, y)
    BY <1>5, <1>6, <1>8 DEF Less
  <2> DEFINE o == Memcmp(a, b, k)
  <2>3. o = 0 /\ s = t /\ ~LessSigned(s, t)
    BY <1>7, <2>1, <2>2
  <2> HIDE DEF o
  <2>4. OrderedSigned(o, s, t)
    BY <2>3 DEF OrderedSigned
  <2>5. QED
    BY <2>4 DEF o, s, t
<1>9. CASE Differs # {}
  <2>1. p \in Differs /\ \A j \in Differs : p <= j
    <3>1. Differs \in SUBSET Nat
      OBVIOUS
    <3> HIDE DEF Differs
    <3>2. \E u \in Differs : \A v \in Differs : u <= v
      BY <1>9, <3>1, Least
    <3>3. QED
      BY <3>2, Zenon
  <2> HIDE DEF p
  <2>2. p \in 1..k /\ a[p] # b[p] /\ \A j \in 1..(p - 1) : a[j] = b[j]
    BY <1>1, <2>1
  <2>3. Memcmp(a, b, k) = x[p] - y[p]
    BY <1>2, <1>5, <1>9, <2>2
  <2>4. x[p] \in Int /\ y[p] \in Int /\ x[p] # y[p] /\ \A j \in 1..(p - 1) : x[j] = y[j]
    <3>1. \A j \in 1..(p - 1) : j \in 1..k
      BY <1>1, <2>2
    <3>2. QED
      BY <1>6, <2>2, <3>1
  <2>5. x[p] < y[p] => Less(x, y)
    BY <1>5, <2>2, <2>4 DEF Less
  <2>6. ASSUME Less(x, y) PROVE x[p] < y[p]
    <3>1. PICK i \in 1..k : x[i] < y[i] /\ \A j \in 1..(i - 1) : x[j] = y[j]
      BY <1>5, <2>6 DEF Less
    <3>2. x[i] # y[i]
      BY <1>6, <3>1
    <3>3. ~(i < p)
      <4>1. i < p => i \in 1..(p - 1)
        BY <1>1, <2>2
      <4>2. QED
        BY <2>4, <3>2, <4>1
    <3>4. ~(p < i)
      <4>1. p < i => p \in 1..(i - 1)
        BY <1>1, <2>2
      <4>2. QED
        BY <2>4, <3>1, <4>1
    <3>5. i = p
      BY <1>1, <2>2, <3>3, <3>4
    <3>6. QED
      BY <3>1, <3>5
  <2>7. Memcmp(a, b, k) # 0 /\ (Memcmp(a, b, k) < 0 <=> x[p] < y[p])
    BY <2>3, <2>4
  <2> DEFINE o == Memcmp(a, b, k)
  <2>8. o # 0 /\ s # t /\ (o < 0 <=> LessSigned(s, t))
    BY <1>4, <1>7, <1>9, <2>5, <2>6, <2>7
  <2> HIDE DEF o
  <2>9. OrderedSigned(o, s, t)
    BY <2>8 DEF OrderedSigned
  <2>10. QED
    BY <2>9 DEF o, s, t
<1>10. QED
  BY <1>8, <1>9 DEF s, t

\* strcmp and memcmp.
LEMMA CompareStep ==
  ASSUME CompareCall
  PROVE  /\ fn' = "strcmp" => Ordered(result', args'[1], args'[2])
         /\ fn' = "memcmp" =>
              OrderedSigned(result', SubSeq(args'[1], 1, args'[3]), SubSeq(args'[2], 1, args'[3]))
<1>1. PICK a \in Strings, b \in Strings :
        \/ Call("strcmp", <<a, b>>, Strcmp(a, b))
        \/ \E k \in 1..(IF Len(a) < Len(b) THEN Len(a) ELSE Len(b)) :
             Call("memcmp", <<a, b, k>>, Memcmp(a, b, k))
  BY Zenon DEF CompareCall
<1>2. Terminated(a) /\ Terminated(b)
  BY StringsEnd
<1>3. CASE Call("strcmp", <<a, b>>, Strcmp(a, b))
  <2>1. fn' = "strcmp" /\ args' = <<a, b>> /\ result' = Strcmp(a, b)
    BY <1>3, CallGives
  <2>2. args'[1] = a /\ args'[2] = b
    BY <2>1
  <2>3. Ordered(result', args'[1], args'[2])
    BY <1>2, <2>1, <2>2, StrcmpRight
  <2>4. QED
    BY <2>1, <2>3
<1>4. ASSUME NEW k \in 1..(IF Len(a) < Len(b) THEN Len(a) ELSE Len(b)),
             Call("memcmp", <<a, b, k>>, Memcmp(a, b, k))
      PROVE  /\ fn' = "memcmp"
             /\ OrderedSigned(result', SubSeq(args'[1], 1, args'[3]), SubSeq(args'[2], 1, args'[3]))
  <2>1. fn' = "memcmp" /\ args' = <<a, b, k>> /\ result' = Memcmp(a, b, k)
    BY <1>4, CallGives
  <2>2. args'[1] = a /\ args'[2] = b /\ args'[3] = k
    BY <2>1
  <2>3. a \in Seq(Byte) /\ b \in Seq(Byte) /\ k \in 1..Len(a) /\ k <= Len(b)
    BY <1>2 DEF Terminated
  <2>4. OrderedSigned(Memcmp(a, b, k), SubSeq(a, 1, k), SubSeq(b, 1, k))
    BY <2>3, MemcmpRight
  <2>5. QED
    BY <2>1, <2>2, <2>4
<1>5. QED
  BY <1>1, <1>3, <1>4, Zenon

\* debug_dump_mem.
LEMMA DumpStep ==
  ASSUME DumpCall
  PROVE  Dumped(result', args'[1])
<1>1. PICK n \in 0..40 : Call("debug_dump_mem", <<n>>, DumpMem(100, n))
  BY DEF DumpCall
<1>2. args' = <<n>> /\ result' = DumpMem(100, n)
  BY <1>1, CallGives
<1>3. args'[1] = n /\ n \in Nat
  BY <1>2
<1>4. QED
  BY <1>2, <1>3, RowsDumped

\* debug_dump_stack.
LEMMA StackStep ==
  ASSUME StackCall
  PROVE  StackDumped(result', args'[1], args'[2])
<1>1. PICK below \in {0, 1, 4, 64, 100}, above \in {0, 1, 4, 64, 100} :
        Call("debug_dump_stack", <<below, above>>, DumpStack(1000, below, above))
  BY DEF StackCall
<1>2. args' = <<below, above>> /\ result' = DumpStack(1000, below, above)
  BY <1>1, CallGives
<1>3. below \in Nat /\ above \in Nat /\ args'[1] = below /\ args'[2] = above
  BY <1>2
<1>4. QED
  BY <1>2, <1>3, StackRight

-----------------------------------------------------------------------------
(* The teletype *)

Key == {"x", "y", "CR", "LF", Blank}
Screen == [pos : Nat, cell : [0..(5 * LINE) -> Key]]

\* Lines of the screen in numbers.
LEMMA LineGoes ==
  ASSUME NEW p \in Nat
  PROVE  /\ LINE \in Nat \ {0} /\ 5 * LINE \in Nat
         /\ p \div LINE \in Nat /\ (p \div LINE) * LINE \in Nat /\ (p \div LINE) * LINE <= p
         /\ p + LINE \in Nat
<1>1. LINE \in Nat \ {0}
  BY TextAssumption
<1>2. p = (p \div LINE) * LINE + (p % LINE) /\ p % LINE \in 0..(LINE - 1) /\ p \div LINE \in Nat
  BY <1>1, SMT
<1> DEFINE q == p \div LINE
<1> HIDE DEF q
<1>3. q * LINE \in Nat
  BY <1>1, <1>2 DEF q
<1>4. QED
  BY <1>1, <1>2, <1>3 DEF q

\* What a character does to the cursor and to the place it stands at.
LEMMA TtyMoves ==
  ASSUME NEW v \in Screen, NEW ch \in Key
  PROVE  /\ Tty(v, ch) \in Screen
         /\ ch = "CR" => Tty(v, ch).pos = (v.pos \div LINE) * LINE
         /\ ch = "LF" => Tty(v, ch).pos = v.pos + LINE
         /\ ch \notin {"CR", "LF"} =>
              Tty(v, ch).pos = v.pos + 1
              /\ (v.pos <= 5 * LINE => Tty(v, ch).cell[v.pos] = ch)
<1> DEFINE w == Tty(v, ch)
           P == (v.pos \div LINE) * LINE
<1>1. v.pos \in Nat /\ v.cell \in [0..(5 * LINE) -> Key]
  BY DEF Screen
<1>2. P \in Nat /\ v.pos + LINE \in Nat
  BY <1>1, LineGoes
<1>3. CASE ch = "CR"
  <2>1. w = [v EXCEPT !.pos = P]
    BY <1>3 DEF Tty
  <2> HIDE DEF w, P
  <2>2. w.pos = P /\ w \in Screen
    BY <1>1, <1>2, <2>1 DEF Screen
  <2>3. QED
    BY <1>3, <2>2 DEF w, P
<1>4. CASE ch = "LF"
  <2>1. w = [v EXCEPT !.pos = v.pos + LINE]
    BY <1>4 DEF Tty
  <2> HIDE DEF w
  <2>2. w.pos = v.pos + LINE /\ w \in Screen
    BY <1>1, <1>2, <2>1 DEF Screen
  <2>3. QED
    BY <1>4, <2>2 DEF w
<1>5. CASE ch \notin {"CR", "LF"}
  <2>1. w = [v EXCEPT !.pos = v.pos + 1, !.cell[v.pos] = ch]
    BY <1>5 DEF Tty
  <2> DEFINE g == [v.cell EXCEPT ![v.pos] = ch]
  <2>2. w.pos = v.pos + 1 /\ w.cell = g /\ DOMAIN w = {"pos", "cell"}
    BY <2>1 DEF Screen
  <2>3. g \in [0..(5 * LINE) -> Key]
    BY <1>1
  <2>4. v.pos <= 5 * LINE => g[v.pos] = ch
    <3>1. 5 * LINE \in Nat
      BY <1>1, LineGoes
    <3>2. v.pos <= 5 * LINE => v.pos \in 0..(5 * LINE)
      BY <1>1, <3>1
    <3>3. QED
      BY <1>1, <3>2
  <2> HIDE DEF g, w
  <2>5. w \in Screen
    <3>1. w = [pos |-> w.pos, cell |-> w.cell]
      BY <2>1 DEF Screen
    <3>2. QED
      BY <1>1, <2>2, <2>3, <3>1 DEF Screen
  <2>6. QED
    BY <1>5, <2>2, <2>4, <2>5 DEF w
<1>6. QED
  BY <1>3, <1>4, <1>5

\* f types s character by character from a screen v.
Types(v, s, f) ==
  /\ f[0] = v /\ f[Len(s)] = Typed(v, s)
  /\ \A k \in 1..Len(s) : f[k] = Tty(f[k - 1], s[k])

\* Typed types character by character.
LEMMA TypedInTurn ==
  ASSUME NEW v \in Screen, NEW s \in Seq(Key)
  PROVE  \E f \in [0..Len(s) -> Screen] : Types(v, s, f)
<1> DEFINE n == Len(s)
           step == [p \in (1..n) \X Screen |-> Tty(p[2], s[p[1]])]
           A(f) == f = [k \in 0..n |-> IF k = 0 THEN v ELSE Tty(f[k - 1], s[k])]
           after == CHOOSE f : A(f)
<1>1. n \in Nat /\ \A k \in 1..n : s[k] \in Key
  OBVIOUS
<1> HIDE DEF n
<1>2. \A k \in 1..n, q \in Screen : step[<<k, q>>] = Tty(q, s[k]) /\ step[<<k, q>>] \in Screen
  <2>1. TAKE k \in 1..n, q \in Screen
  <2>2. s[k] \in Key
    BY <1>1
  <2>3. Tty(q, s[k]) \in Screen
    BY <2>2, TtyMoves
  <2>4. step[<<k, q>>] = Tty(q, s[k])
    OBVIOUS
  <2>5. QED
    BY <2>3, <2>4
<1> HIDE DEF step
<1>3. PICK f \in [0..n -> Screen] : Path(n, v, step, f)
  BY <1>1, <1>2, Loops
<1>4. \A k \in 0..n : f[k] = IF k = 0 THEN v ELSE Tty(f[k - 1], s[k])
  <2>1. \A k \in 0..n : f[k] = IF k = 0 THEN v ELSE step[<<k, f[k - 1]>>]
    BY <1>3 DEF Path
  <2>2. TAKE k \in 0..n
  <2>3. k # 0 => k \in 1..n /\ f[k - 1] \in Screen
    BY <1>1
  <2>4. QED
    BY <1>2, <2>1, <2>3
<1>5. A(f)
  <2> DEFINE g == [k \in 0..n |-> IF k = 0 THEN v ELSE Tty(f[k - 1], s[k])]
  <2>1. \A k \in 0..n : f[k] = g[k]
    BY <1>4
  <2>2. f = g
    BY <2>1
  <2>3. QED
    BY <2>2
<1>6. A(after)
  BY <1>5
<1>7. Typed(v, s) = after[n]
  BY Zenon DEF Typed, n
<1> HIDE DEF after
<1>8. \A k \in 0..n : after[k] = IF k = 0 THEN v ELSE Tty(after[k - 1], s[k])
  BY <1>6
<1> DEFINE T == {k \in Nat : after[k] \in Screen}
<1>9. 0 \in T
  <2>1. 0 \in 0..n
    BY <1>1
  <2>2. after[0] = v
    BY <1>8, <2>1
  <2>3. QED
    BY <1>1, <2>2
<1>10. \A k \in Nat : k + 1 <= n /\ k \in T => k + 1 \in T
  <2>1. TAKE k \in Nat
  <2>2. SUFFICES ASSUME k + 1 <= n, after[k] \in Screen PROVE after[k + 1] \in Screen
    OBVIOUS
  <2>3. k + 1 \in 1..n /\ k + 1 \in 0..n /\ k + 1 # 0 /\ (k + 1) - 1 = k
    BY <1>1, <2>2
  <2>4. after[k + 1] = Tty(after[k], s[k + 1])
    BY <1>8, <2>3
  <2>5. s[k + 1] \in Key
    BY <1>1, <2>3
  <2>6. Tty(after[k], s[k + 1]) \in Screen
    BY <2>2, <2>5, TtyMoves
  <2>7. QED
    BY <2>4, <2>6
<1>11. \A k \in 0..n : k \in T
  <2> HIDE DEF T
  <2>1. QED
    BY <1>1, <1>9, <1>10, Upto
<1>12. after \in [0..n -> Screen]
  <2>1. \A k \in 0..n : after[k] \in Screen
    BY <1>11
  <2> DEFINE h == [k \in 0..n |-> IF k = 0 THEN v ELSE Tty(after[k - 1], s[k])]
  <2>2. after = h
    BY <1>6
  <2>3. h = [k \in 0..n |-> h[k]]
    OBVIOUS
  <2> HIDE DEF h
  <2>4. QED
    BY <2>1, <2>2, <2>3
<1>13. Types(v, s, after)
  <2>1. \A k \in 1..n : after[k] = Tty(after[k - 1], s[k])
    BY <1>1, <1>8
  <2>2. after[0] = v
    BY <1>1, <1>8
  <2>3. QED
    BY <1>7, <2>1, <2>2 DEF Types, n
<1>14. QED
  BY <1>12, <1>13 DEF n

\* Two places stand in the same column.
Column(p, l) == \E d \in Nat : p = d * LINE + l

\* Places in the same column have the same rest.
LEMMA ColumnSame ==
  ASSUME NEW p \in Nat, NEW l \in Nat, Column(p, l)
  PROVE  p % LINE = l % LINE
<1> DEFINE q == l \div LINE
           r == l % LINE
<1>1. LINE \in Nat \ {0}
  BY TextAssumption
<1>2. l = q * LINE + r /\ r \in 0..(LINE - 1) /\ q \in Nat
  BY <1>1, SMT
<1>3. PICK d \in Nat : p = d * LINE + l
  BY DEF Column
<1> HIDE DEF q, r
<1>4. d + q \in Nat /\ p = (d + q) * LINE + r
  BY <1>1, <1>2, <1>3
<1>5. p % LINE = r
  BY <1>1, <1>2, <1>4, OneQuotient
<1>6. QED
  BY <1>5 DEF r

\* Down a line, and one to the right.
LEMMA ColumnMoves ==
  ASSUME NEW p \in Nat, NEW l \in Nat, Column(p, l)
  PROVE  Column(p + LINE, l) /\ Column(p + 1, l + 1)
<1>1. PICK d \in Nat : p = d * LINE + l
  BY DEF Column
<1>2. LINE \in Nat
  BY TextAssumption
<1>3. p + LINE = (d + 1) * LINE + l /\ p + 1 = d * LINE + (l + 1) /\ d + 1 \in Nat
  BY <1>1, <1>2
<1>4. QED
  BY <1>3 DEF Column

\* What stands behind the first c characters.
LEMMA Rest ==
  ASSUME NEW C, NEW s \in Seq(C), NEW c \in 0..Len(s)
  PROVE  /\ SubSeq(s, c + 1, Len(s)) \in Seq(C) /\ Len(SubSeq(s, c + 1, Len(s))) = Len(s) - c
         /\ \A i \in 1..(Len(s) - c) : SubSeq(s, c + 1, Len(s))[i] = s[c + i]
<1> DEFINE n == Len(s)
           q == SubSeq(s, c + 1, n)
<1>1. n \in Nat /\ \A i \in 1..n : s[i] \in C
  OBVIOUS
<1>2. q = [i \in 1..(1 + n - (c + 1)) |-> s[i + (c + 1) - 1]]
  BY <1>1
<1> HIDE DEF n
<1>3. 1 + n - (c + 1) = n - c /\ n - c \in Nat
  BY <1>1 DEF n
<1>4. \A i \in 1..(n - c) : i + (c + 1) - 1 = c + i /\ c + i \in 1..n
  BY <1>1, <1>3 DEF n
<1>5. q = [i \in 1..(n - c) |-> s[c + i]]
  BY <1>2, <1>3, <1>4
<1> HIDE DEF q
<1> DEFINE m == n - c
<1>6. m \in Nat /\ q = [i \in 1..m |-> s[c + i]] /\ \A i \in 1..m : s[c + i] \in C
  BY <1>1, <1>3, <1>4, <1>5
<1> HIDE DEF m
<1>7. q \in Seq(C) /\ Len(q) = m /\ \A i \in 1..m : q[i] = s[c + i]
  BY <1>6
<1>8. QED
  BY <1>7 DEF q, n, m

\* Behind the last CR there is none.
LEMMA LastCrRight ==
  ASSUME NEW s \in Seq(Key)
  PROVE  /\ LastCr(s) \in 0..Len(s) /\ (LastCr(s) = 0 \/ s[LastCr(s)] = "CR")
         /\ \A i \in (LastCr(s) + 1)..Len(s) : s[i] # "CR"
<1> DEFINE n == Len(s)
           P(k) == (k = 0 \/ s[k] = "CR") /\ \A i \in (k + 1)..n : s[i] # "CR"
           S == {k \in 0..n : k = 0 \/ s[k] = "CR"}
<1>1. n \in Nat
  OBVIOUS
<1> HIDE DEF n
<1>2. S \in SUBSET Nat /\ S # {} /\ \A x \in S : x <= n
  BY <1>1
<1>3. PICK m \in S : \A y \in S : y <= m
  <2> HIDE DEF S
  <2>1. QED
    BY <1>1, <1>2, Greatest
<1>4. P(m) /\ m \in 0..n
  BY <1>1, <1>3
<1>5. LastCr(s) = CHOOSE k \in 0..n : P(k)
  BY Zenon DEF LastCr, n
<1> HIDE DEF P
<1>6. LastCr(s) \in 0..n /\ P(LastCr(s))
  BY <1>4, <1>5, Zenon
<1>7. QED
  BY <1>6 DEF P, n

\* The cursor stands behind what came since the last CR.
LEMMA CursorRight ==
  ASSUME NEW s \in Seq(Key), NEW v \in Screen, v.pos = 0
  PROVE  /\ Typed(v, s) \in Screen
         /\ Typed(v, s).pos % LINE
              = Len(Without(SubSeq(s, LastCr(s) + 1, Len(s)), "LF")) % LINE
<1> DEFINE n == Len(s)
           c == LastCr(s)
           q == SubSeq(s, c + 1, n)
           m == n - c
<1>1. n \in Nat /\ c \in 0..n /\ (c = 0 \/ s[c] = "CR") /\ \A i \in (c + 1)..n : s[i] # "CR"
  BY LastCrRight
<1>2. q \in Seq(Key) /\ Len(q) = m /\ m \in Nat /\ \A i \in 1..m : q[i] = s[c + i]
  BY <1>1, Rest
<1>3. PICK f \in [0..n -> Screen] : Types(v, s, f)
  BY TypedInTurn
<1>4. /\ f[0] = v /\ f[n] = Typed(v, s)
      /\ \A k \in 1..n : f[k] = Tty(f[k - 1], s[k])
  BY <1>3 DEF Types
<1>5. \A k \in 1..n : s[k] \in Key
  OBVIOUS
<1>6. PICK g \in [0..m -> Seq(Key)] : Keeps(q, "LF", g)
  BY <1>2, WithoutKeeps
<1>7. /\ g[0] = <<>> /\ g[m] = Without(q, "LF")
      /\ \A k \in 1..m : g[k] = KeepStep(g[k - 1], q[k], "LF")
  BY <1>2, <1>6 DEF Keeps
<1> DEFINE l(k) == Len(g[k])
           Good(k) == Column(f[c + k].pos, l(k))
           T == {k \in Nat : Good(k)}
<1>8. \A k \in 0..n : f[k] \in Screen /\ f[k].pos \in Nat
  BY <1>3 DEF Screen
<1>9. \A k \in 0..m : g[k] \in Seq(Key) /\ l(k) \in Nat
  BY <1>6
<1> HIDE DEF n, c, q, m
<1>10. Good(0)
  <2>1. l(0) = 0 /\ c + 0 = c
    BY <1>1, <1>7
  <2>2. CASE c = 0
    <3>1. f[c].pos = 0 * LINE + 0
      BY <1>4, <2>2, TextAssumption
    <3>2. QED
      BY <2>1, <3>1 DEF Column
  <2>3. CASE c # 0
    <3>1. c \in 1..n /\ s[c] = "CR" /\ c - 1 \in 0..n
      BY <1>1, <2>3
    <3> DEFINE w == f[c - 1]
    <3>2. w \in Screen /\ "CR" \in Key /\ w.pos \in Nat
      BY <1>8, <3>1 DEF Key
    <3>3. f[c] = Tty(w, "CR")
      BY <1>4, <3>1
    <3> HIDE DEF w
    <3>4. f[c].pos = (w.pos \div LINE) * LINE
      BY <3>2, <3>3, TtyMoves
    <3>5. w.pos \div LINE \in Nat /\ (w.pos \div LINE) * LINE \in Nat
      BY <3>2, LineGoes
    <3>6. f[c].pos = (w.pos \div LINE) * LINE + 0
      BY <3>4, <3>5
    <3>7. QED
      BY <2>1, <3>5, <3>6 DEF Column
  <2>4. QED
    BY <2>2, <2>3
<1>11. ASSUME NEW k \in Nat, k + 1 <= m, Good(k) PROVE Good(k + 1)
  <2>1. /\ k + 1 \in 1..m /\ (k + 1) - 1 = k /\ k \in 0..m /\ c + k \in 0..n
        /\ c + (k + 1) \in 1..n /\ (c + (k + 1)) - 1 = c + k /\ c + (k + 1) \in (c + 1)..n
    BY <1>1, <1>11 DEF m
  <2> DEFINE w == f[c + k]
             ch == s[c + (k + 1)]
             t == g[k]
  <2>2. w \in Screen /\ w.pos \in Nat /\ ch \in Key /\ ch # "CR" /\ t \in Seq(Key) /\ Len(t) \in Nat
    BY <1>1, <1>5, <1>8, <1>9, <2>1
  <2>3. f[c + (k + 1)] = Tty(w, ch) /\ g[k + 1] = KeepStep(t, ch, "LF")
    BY <1>2, <1>4, <1>7, <2>1
  <2>4. Column(w.pos, Len(t))
    BY <1>11
  <2> HIDE DEF w, ch, t
  <2>5. CASE ch = "LF"
    <3>1. Tty(w, ch).pos = w.pos + LINE
      BY <2>2, <2>5, TtyMoves
    <3>2. KeepStep(t, ch, "LF") = t
      BY <2>5 DEF KeepStep
    <3>3. Column(w.pos + LINE, Len(t))
      BY <2>2, <2>4, ColumnMoves
    <3>4. QED
      BY <2>3, <3>1, <3>2, <3>3
  <2>6. CASE ch # "LF"
    <3>1. Tty(w, ch).pos = w.pos + 1
      BY <2>2, <2>6, TtyMoves
    <3>2. Len(KeepStep(t, ch, "LF")) = Len(t) + 1
      BY <2>2, <2>6, AppendProperties DEF KeepStep
    <3>3. Column(w.pos + 1, Len(t) + 1)
      BY <2>2, <2>4, ColumnMoves
    <3>4. QED
      BY <2>3, <3>1, <3>2, <3>3
  <2>7. QED
    BY <2>5, <2>6
<1> HIDE DEF Good
<1>12. Good(m)
  <2>1. 0 \in T /\ \A k \in Nat : k + 1 <= m /\ k \in T => k + 1 \in T
    BY <1>10, <1>11
  <2> HIDE DEF T
  <2>2. m \in T
    BY <1>2, <2>1, Upto
  <2>3. QED
    BY <2>2 DEF T
<1>13. c + m = n /\ n \in 0..n /\ m \in 0..m
  BY <1>1, <1>2 DEF m
<1>14. Column(Typed(v, s).pos, Len(Without(q, "LF")))
  BY <1>4, <1>7, <1>12, <1>13 DEF Good
<1>15. Typed(v, s) \in Screen /\ Typed(v, s).pos \in Nat /\ Len(Without(q, "LF")) \in Nat
  BY <1>4, <1>7, <1>8, <1>9, <1>13
<1>16. Typed(v, s).pos % LINE = Len(Without(q, "LF")) % LINE
  BY <1>14, <1>15, ColumnSame
<1>17. QED
  BY <1>15, <1>16 DEF q, c, n

\* The cursor goes down a line with a character, at most.
LEMMA CursorBound ==
  ASSUME NEW s \in Seq(Key), NEW v \in Screen, v.pos = 0, NEW f \in [0..Len(s) -> Screen],
         Types(v, s, f), NEW k \in 0..Len(s)
  PROVE  f[k].pos <= k * LINE
<1> DEFINE n == Len(s)
           T == {j \in Nat : f[j].pos <= j * LINE}
<1>1. n \in Nat /\ \A j \in 1..n : s[j] \in Key
  OBVIOUS
<1>2. f[0] = v /\ \A j \in 1..n : f[j] = Tty(f[j - 1], s[j])
  BY DEF Types
<1>3. LINE \in Nat \ {0}
  BY TextAssumption
<1> HIDE DEF n
<1>4. 0 \in T
  BY <1>2, <1>3
<1>5. ASSUME NEW j \in Nat, j + 1 <= n, j \in T PROVE j + 1 \in T
  <2>1. j + 1 \in 1..n /\ (j + 1) - 1 = j /\ j \in 0..n
    BY <1>1, <1>5
  <2> DEFINE w == f[j]
             ch == s[j + 1]
  <2>2. w \in Screen /\ w.pos \in Nat /\ ch \in Key /\ f[j + 1] = Tty(w, ch)
    BY <1>1, <1>2, <2>1 DEF n, Screen
  <2>3. w.pos <= j * LINE
    BY <1>5
  <2> HIDE DEF w, ch
  <2>4. (j + 1) * LINE = j * LINE + LINE /\ j * LINE \in Nat
    BY <1>3
  <2>5. Tty(w, ch).pos <= w.pos + LINE
    <3>1. CASE ch = "CR"
      <4>1. Tty(w, ch).pos = (w.pos \div LINE) * LINE
        BY <2>2, <3>1, TtyMoves
      <4>2. (w.pos \div LINE) * LINE \in Nat /\ (w.pos \div LINE) * LINE <= w.pos
        BY <2>2, LineGoes
      <4> DEFINE r == (w.pos \div LINE) * LINE
      <4> HIDE DEF r
      <4>3. r \in Nat /\ r <= w.pos
        BY <4>2 DEF r
      <4>4. r <= w.pos + LINE
        BY <1>3, <2>2, <4>3
      <4>5. QED
        BY <4>1, <4>4 DEF r
    <3>2. CASE ch = "LF"
      BY <1>3, <2>2, <3>2, TtyMoves
    <3>3. CASE ch \notin {"CR", "LF"}
      BY <1>3, <2>2, <3>3, TtyMoves
    <3>4. QED
      BY <3>1, <3>2, <3>3
  <2>6. Tty(w, ch).pos \in Nat
    BY <2>2, TtyMoves DEF Screen
  <2>7. f[j + 1].pos <= (j + 1) * LINE
    BY <1>3, <2>2, <2>3, <2>4, <2>5, <2>6
  <2>8. QED
    BY <2>7
<1>6. k \in T
  <2>1. \A j \in Nat : j + 1 <= n /\ j \in T => j + 1 \in T
    BY <1>5
  <2> HIDE DEF T
  <2>2. k \in 0..n
    BY DEF n
  <2>3. QED
    BY <1>1, <1>4, <2>1, <2>2, Upto
<1>7. QED
  BY <1>6

\* The last character stands before the cursor, on a screen of five lines and
\* of at most five characters.
LEMMA LastShown ==
  ASSUME NEW s \in Seq(Key), NEW v \in Screen, v.pos = 0, Len(s) <= 5, s # <<>>,
         s[Len(s)] \notin {"CR", "LF"}
  PROVE  Typed(v, s).cell[Typed(v, s).pos - 1] = s[Len(s)]
<1> DEFINE n == Len(s)
           ch == s[n]
<1>1. n \in Nat /\ n >= 1 /\ n <= 5 /\ ch \in Key /\ ch \notin {"CR", "LF"}
  BY EmptySeq
<1>2. PICK f \in [0..n -> Screen] : Types(v, s, f)
  BY TypedInTurn
<1> DEFINE w == f[n - 1]
<1>3. n - 1 \in 0..n /\ n \in 1..n
  BY <1>1
<1>4. w \in Screen /\ w.pos \in Nat /\ Typed(v, s) = Tty(w, ch)
  BY <1>2, <1>3 DEF Types, Screen
<1>5. w.pos <= (n - 1) * LINE
  BY <1>2, <1>3, CursorBound
<1> HIDE DEF n, w, ch
<1>6. w.pos <= 5 * LINE
  <2>1. LINE \in Nat
    BY TextAssumption
  <2>2. PICK d \in Nat : 5 = (n - 1) + d
    <3>1. 5 - (n - 1) \in Nat /\ 5 = (n - 1) + (5 - (n - 1))
      BY <1>1
    <3>2. QED
      BY <3>1
  <2>3. d * LINE \in Nat /\ 5 * LINE = (n - 1) * LINE + d * LINE /\ (n - 1) * LINE \in Nat
    BY <1>1, <2>1, <2>2
  <2>4. QED
    BY <1>4, <1>5, <2>3
<1>7. Tty(w, ch).pos = w.pos + 1 /\ Tty(w, ch).cell[w.pos] = ch
  BY <1>1, <1>4, <1>6, TtyMoves
<1>8. (w.pos + 1) - 1 = w.pos
  BY <1>4
<1>9. QED
  BY <1>4, <1>7, <1>8 DEF n, ch

\* The teletype.
LEMMA TtyStep ==
  ASSUME TtyCall
  PROVE  Shown(result', args'[1])
<1> DEFINE v == [pos |-> 0, cell |-> [p \in 0..(5 * LINE) |-> Blank]]
<1>1. PICK s \in Typing : Call("tty", <<s>>, Typed(v, s))
  BY Zenon DEF TtyCall
<1>2. args' = <<s>> /\ result' = Typed(v, s)
  BY <1>1, CallGives
<1>3. args'[1] = s
  BY <1>2
<1>4. v \in Screen /\ v.pos = 0
  BY DEF Screen, Key
<1> HIDE DEF v
<1>5. s \in Seq(Key) /\ Len(s) <= 5
  <2>1. PICK k \in 0..4 : s \in [1..k -> {"x", "y", "CR", "LF"}]
    BY DEF Typing
  <2>2. s \in Seq(Key) /\ Len(s) = k
    BY <2>1 DEF Key
  <2>3. QED
    BY <2>2
<1>6. Typed(v, s).pos % LINE = Len(Without(SubSeq(s, LastCr(s) + 1, Len(s)), "LF")) % LINE
  BY <1>4, <1>5, CursorRight
<1>7. ASSUME s # <<>>, Last(s) \in {"x", "y"}
      PROVE  Typed(v, s).cell[Typed(v, s).pos - 1] = Last(s)
  <2>1. Last(s) = s[Len(s)]
    BY DEF Last
  <2>2. s[Len(s)] \notin {"CR", "LF"}
    BY <1>7, <2>1
  <2>3. QED
    BY <1>4, <1>5, <1>7, <2>1, <2>2, LastShown
<1> DEFINE w == Typed(v, s)
<1> HIDE DEF w
<1>8. Shown(w, s)
  BY <1>6, <1>7 DEF Shown, w
<1>9. QED
  BY <1>2, <1>3, <1>8 DEF w

\* Every step gives what BytesRight says.
LEMMA BytesStep ==
  ASSUME Next
  PROVE  BytesRight'
BY WhichCall, DumpStep, StackStep, CompareStep, TtyStep, Zenon DEF BytesRight

-----------------------------------------------------------------------------
(* Loops that go over a format *)

Round(who, fmt, a, b, s) == IF who = "kprintf" THEN Scanned(s, fmt, a) ELSE Filling(s, fmt, a, b)

Begun(who) == IF who = "kprintf" THEN [p |-> 1, at |-> 0, out |-> <<>>] ELSE [i |-> 1, out |-> <<>>]

Rounds(who, fmt, a, b, n, f) ==
  f = [k \in 0..n |-> IF k = 0 THEN Begun(who) ELSE Round(who, fmt, a, b, f[k - 1])]

\* The rounds of a loop exist, as many as are asked for.
LEMMA RoundsExist ==
  ASSUME NEW who, NEW fmt, NEW a, NEW b, NEW n \in Nat
  PROVE  \E f : Rounds(who, fmt, a, b, n, f)
<1> DEFINE S == {k \in Nat : \E f : Rounds(who, fmt, a, b, k, f)}
<1>1. 0 \in S
  <2>1. Rounds(who, fmt, a, b, 0, [i \in 0..0 |-> Begun(who)])
    BY DEF Rounds
  <2>2. QED
    BY <2>1
<1>2. \A k \in Nat : k \in S => k + 1 \in S
  <2>1. TAKE k \in Nat
  <2>2. HAVE k \in S
  <2>3. PICK f : Rounds(who, fmt, a, b, k, f)
    BY <2>2
  <2> DEFINE g == [i \in 0..(k + 1) |-> IF i = k + 1 THEN Round(who, fmt, a, b, f[k]) ELSE f[i]]
  <2>4. ASSUME NEW i \in 0..(k + 1)
        PROVE  g[i] = IF i = 0 THEN Begun(who) ELSE Round(who, fmt, a, b, g[i - 1])
    <3>1. CASE i = k + 1
      BY <3>1
    <3>2. CASE i # k + 1
      <4>1. i \in 0..k /\ (i # 0 => i - 1 \in 0..k)
        BY <3>2
      <4>2. f[i] = IF i = 0 THEN Begun(who) ELSE Round(who, fmt, a, b, f[i - 1])
        BY <2>3, <4>1 DEF Rounds
      <4>3. g[i] = f[i] /\ (i # 0 => g[i - 1] = f[i - 1])
        BY <3>2, <4>1
      <4>4. QED
        BY <4>2, <4>3
    <3>3. QED
      BY <3>1, <3>2
  <2>5. Rounds(who, fmt, a, b, k + 1, g)
    <3> DEFINE h == [i \in 0..(k + 1) |->
                       IF i = 0 THEN Begun(who) ELSE Round(who, fmt, a, b, g[i - 1])]
    <3>1. \A i \in 0..(k + 1) : g[i] = h[i]
      BY <2>4
    <3>2. g = h
      BY <3>1
    <3> HIDE DEF g
    <3>3. QED
      BY <3>2 DEF Rounds
  <2>6. QED
    BY <2>5
<1>3. Nat \subseteq S
  <2> HIDE DEF S
  <2>1. QED
    BY <1>1, <1>2, Induction
<1>4. QED
  BY <1>3

\* f is the loop of printf_d and printf_x, round by round.
Fills(fmt, letter, text, f) ==
  /\ f[0] = [i |-> 1, out |-> <<>>] /\ f[Len(fmt)].out = PrintfOne(fmt, letter, text)
  /\ \A k \in 1..Len(fmt) : f[k] = Filling(f[k - 1], fmt, letter, text)

\* PrintfOne is such a loop.
LEMMA FilledInTurn ==
  ASSUME NEW C, NEW fmt \in Seq(C), NEW letter, NEW text
  PROVE  \E f : Fills(fmt, letter, text, f)
<1> DEFINE n == Len(fmt)
           A(f) == f = [k \in 0..n |->
                          IF k = 0 THEN [i |-> 1, out |-> <<>>] ELSE Filling(f[k - 1], fmt, letter, text)]
           after == CHOOSE f : A(f)
<1>1. n \in Nat
  OBVIOUS
<1>2. \E f : A(f)
  <2>1. \E f : Rounds("printf", fmt, letter, text, n, f)
    BY <1>1, RoundsExist
  <2>2. "printf" # "kprintf"
    OBVIOUS
  <2>3. QED
    BY <2>1, <2>2, Zenon DEF Rounds, Round, Begun
<1>3. A(after)
  BY <1>2
<1>4. PrintfOne(fmt, letter, text) = after[n].out
  BY Zenon DEF PrintfOne
<1> HIDE DEF after
<1>5. \A k \in 0..n : after[k] = IF k = 0 THEN [i |-> 1, out |-> <<>>]
                                 ELSE Filling(after[k - 1], fmt, letter, text)
  BY <1>3, Zenon
<1>6. 0 \in 0..n /\ \A k \in 1..n : k \in 0..n /\ k # 0
  BY <1>1
<1>7. Fills(fmt, letter, text, after)
  BY <1>4, <1>5, <1>6, Zenon DEF Fills
<1>8. QED
  BY <1>7

\* f is the loop of kprintf, round by round.
Scans(fmt, stack, f) ==
  /\ f[0] = [p |-> 1, at |-> 0, out |-> <<>>] /\ f[Len(fmt)].out = Kprintf(fmt, stack)
  /\ \A k \in 1..Len(fmt) : f[k] = Scanned(f[k - 1], fmt, stack)

\* Kprintf is such a loop.
LEMMA ScannedInTurn ==
  ASSUME NEW C, NEW fmt \in Seq(C), NEW stack
  PROVE  \E f : Scans(fmt, stack, f)
<1> DEFINE n == Len(fmt)
           A(f) == f = [k \in 0..n |->
                          IF k = 0 THEN [p |-> 1, at |-> 0, out |-> <<>>] ELSE Scanned(f[k - 1], fmt, stack)]
           after == CHOOSE f : A(f)
<1>1. n \in Nat
  OBVIOUS
<1>2. \E f : A(f)
  <2>1. \E f : Rounds("kprintf", fmt, stack, stack, n, f)
    BY <1>1, RoundsExist
  <2>2. QED
    BY <2>1, Zenon DEF Rounds, Round, Begun
<1>3. A(after)
  BY <1>2
<1>4. Kprintf(fmt, stack) = after[n].out
  BY Zenon DEF Kprintf
<1> HIDE DEF after
<1>5. \A k \in 0..n : after[k] = IF k = 0 THEN [p |-> 1, at |-> 0, out |-> <<>>]
                                 ELSE Scanned(after[k - 1], fmt, stack)
  BY <1>3, Zenon
<1>6. 0 \in 0..n /\ \A k \in 1..n : k \in 0..n /\ k # 0
  BY <1>1
<1>7. Scans(fmt, stack, after)
  BY <1>4, <1>5, <1>6, Zenon DEF Scans
<1>8. QED
  BY <1>7

-----------------------------------------------------------------------------
(* Where a part stands in the whole *)

\* Each part stands behind the parts before it.
LEMMA PartsStand ==
  ASSUME NEW C, NEW parts \in Seq(Seq(C)), NEW j \in [0..Len(parts) -> Seq(C)], Joins(parts, j),
         NEW k \in 1..Len(parts)
  PROVE  /\ Len(j[k]) = Len(j[k - 1]) + Len(parts[k]) /\ j[k] = j[k - 1] \o parts[k]
         /\ j[k - 1] \in Seq(C) /\ parts[k] \in Seq(C)
         /\ Within(Joined(parts), Len(j[k - 1]) + 1, parts[k])
<1> DEFINE n == Len(parts)
           at == Len(j[k - 1]) + 1
           T == {m \in Nat : m >= k => Within(j[m], at, parts[k])}
<1>1. n \in Nat /\ k \in Nat /\ k - 1 \in 0..n /\ k \in 0..n /\ n \in 0..n
  OBVIOUS
<1>2. \A m \in 1..n : parts[m] \in Seq(C)
  OBVIOUS
<1>3. \A m \in 0..n : j[m] \in Seq(C)
  OBVIOUS
<1>4. \A m \in 1..n : j[m] = j[m - 1] \o parts[m]
  BY DEF Joins, Joint
<1>5. Len(j[k]) = Len(j[k - 1]) + Len(parts[k]) /\ Within(j[k], at, parts[k])
  <2>1. j[k - 1] \in Seq(C) /\ parts[k] \in Seq(C) /\ j[k] = j[k - 1] \o parts[k]
    BY <1>1, <1>2, <1>3, <1>4
  <2>2. QED
    BY <2>1, WithinEnd
<1>6. 0 \in T
  BY <1>1
<1>7. \A m \in Nat : m + 1 <= n /\ m \in T => m + 1 \in T
  <2>1. TAKE m \in Nat
  <2>2. HAVE m + 1 <= n /\ m \in T
  <2>3. SUFFICES ASSUME m + 1 >= k PROVE Within(j[m + 1], at, parts[k])
    OBVIOUS
  <2>4. CASE m + 1 = k
    BY <1>5, <2>4
  <2>5. CASE m + 1 > k
    <3>1. m >= k /\ m + 1 \in 1..n /\ m \in 0..n /\ (m + 1) - 1 = m
      BY <1>1, <2>2, <2>5
    <3>2. Within(j[m], at, parts[k])
      BY <2>2, <3>1
    <3>3. j[m + 1] = j[m] \o parts[m + 1] /\ j[m] \in Seq(C) /\ parts[m + 1] \in Seq(C)
      BY <1>2, <1>3, <1>4, <3>1
    <3>4. parts[k] \in Seq(C)
      BY <1>2
    <3> HIDE DEF at
    <3>5. QED
      BY <3>2, <3>3, <3>4, WithinMore
  <2>6. QED
    BY <1>1, <2>3, <2>4, <2>5
<1>8. n \in T
  <2> HIDE DEF T, n
  <2>1. \A m \in 0..n : m \in T
    BY <1>1, <1>6, <1>7, Upto
  <2>2. QED
    BY <1>1, <2>1
<1>9. Within(j[n], at, parts[k])
  BY <1>1, <1>8
<1>10. j[n] = Joined(parts)
  BY DEF Joins
<1>11. QED
  BY <1>1, <1>2, <1>3, <1>4, <1>5, <1>9, <1>10

\* Every part stands behind the one before it.
PartsInLine(C, parts, j) ==
  \A k \in 1..Len(parts) :
    /\ Len(j[k]) = Len(j[k - 1]) + Len(parts[k]) /\ j[k] = j[k - 1] \o parts[k]
    /\ j[k - 1] \in Seq(C) /\ parts[k] \in Seq(C)
    /\ Within(Joined(parts), Len(j[k - 1]) + 1, parts[k])

\* So do all of them.
LEMMA AllPartsStand ==
  ASSUME NEW C, NEW parts \in Seq(Seq(C)), NEW j \in [0..Len(parts) -> Seq(C)], Joins(parts, j)
  PROVE  PartsInLine(C, parts, j)
<1>1. SUFFICES ASSUME NEW k \in 1..Len(parts)
               PROVE  /\ Len(j[k]) = Len(j[k - 1]) + Len(parts[k]) /\ j[k] = j[k - 1] \o parts[k]
                      /\ j[k - 1] \in Seq(C) /\ parts[k] \in Seq(C)
                      /\ Within(Joined(parts), Len(j[k - 1]) + 1, parts[k])
  BY Zenon DEF PartsInLine
<1>2. QED
  BY PartsStand, Zenon

\* Parts that are not empty make a text that is as long as they are many.
LEMMA PartsCount ==
  ASSUME NEW C, NEW parts \in Seq(Seq(C)), NEW j \in [0..Len(parts) -> Seq(C)], Joins(parts, j),
         \A k \in 1..Len(parts) : Len(parts[k]) >= 1
  PROVE  Len(parts) <= Len(Joined(parts)) /\ Joined(parts) \in Seq(C)
<1> DEFINE n == Len(parts)
           T == {m \in Nat : m <= Len(j[m])}
<1>1. n \in Nat /\ n \in 0..n /\ 0 \in 0..n
  OBVIOUS
<1>2. \A m \in 0..n : j[m] \in Seq(C) /\ Len(j[m]) \in Nat
  OBVIOUS
<1>3. 0 \in T
  BY <1>1, <1>2
<1>4. \A m \in Nat : m + 1 <= n /\ m \in T => m + 1 \in T
  <2>1. TAKE m \in Nat
  <2>2. HAVE m + 1 <= n /\ m \in T
  <2>3. m + 1 \in 1..n /\ (m + 1) - 1 = m /\ m \in 0..n /\ m + 1 \in 0..n
    BY <1>1, <2>2
  <2>4. Len(j[m + 1]) = Len(j[m]) + Len(parts[m + 1])
    <3>1. \A k \in 1..n : Len(j[k]) = Len(j[k - 1]) + Len(parts[k])
      <4>1. PartsInLine(C, parts, j)
        BY AllPartsStand
      <4>2. QED
        BY <4>1, Zenon DEF PartsInLine
    <3>2. Len(j[m + 1]) = Len(j[(m + 1) - 1]) + Len(parts[m + 1])
      BY <2>3, <3>1
    <3>3. QED
      BY <2>3, <3>2
  <2>5. Len(parts[m + 1]) >= 1 /\ Len(parts[m + 1]) \in Nat /\ m <= Len(j[m])
    <3>1. parts[m + 1] \in Seq(C)
      BY <2>3
    <3>2. QED
      BY <2>2, <2>3, <3>1
  <2>6. QED
    BY <1>2, <2>3, <2>4, <2>5
<1>5. n \in T
  <2> HIDE DEF T, n
  <2>1. \A m \in 0..n : m \in T
    BY <1>1, <1>3, <1>4, Upto
  <2>2. QED
    BY <1>1, <2>1
<1>6. j[n] = Joined(parts)
  BY DEF Joins
<1>7. QED
  BY <1>1, <1>2, <1>5, <1>6

-----------------------------------------------------------------------------
(* The buffer of printf_d and printf_x *)

\* A piece of a format and the text that it becomes.
Piece(letter, text, c, t) ==
  \/ Len(c) = 1 /\ c[1] # "%" /\ t = c
  \/ Len(c) = 2 /\ c[1] = "%" /\ c[2] = letter /\ t = text

\* A round goes over the piece c and writes what fits of t.
FillsOne(fmt, letter, text, at, out, c, t) ==
  Filling([i |-> at, out |-> out], fmt, letter, text)
    = [i |-> at + Len(c), out |-> out \o First(t, ROOM - 1 - Len(out))]

\* A round of the loop when the buffer has room for one character at least.
LEMMA FillOne ==
  ASSUME NEW C, NEW fmt \in Seq(C), NEW letter, NEW text \in Seq(C), NEW at, NEW out \in Seq(C),
         NEW c \in Seq(C), NEW t \in Seq(C), Within(fmt, at, c), Len(out) < ROOM - 1,
         Piece(letter, text, c, t)
  PROVE  FillsOne(fmt, letter, text, at, out, c, t)
<1> DEFINE s == [i |-> at, out |-> out]
           left == ROOM - 1 - Len(out)
<1>1. s.i = at /\ s.out = out
  OBVIOUS
<1>2. left \in Nat /\ left >= 1 /\ Len(out) \in Nat
  BY TextAssumption
<1>3. at \in Nat /\ at <= Len(fmt) /\ Len(fmt) \in Nat
  <2>1. Len(c) >= 1 /\ Len(c) \in Nat
    BY DEF Piece
  <2>2. QED
    BY <2>1 DEF Within
<1> HIDE DEF s
<1>4. CASE Len(c) = 1 /\ c[1] # "%" /\ t = c
  <2>1. fmt[at] = c[1]
    BY <1>3, <1>4 DEF Within
  <2>2. Filling(s, fmt, letter, text) = [i |-> at + 1, out |-> out \o <<fmt[at]>>]
    BY <1>1, <1>2, <1>3, <1>4, <2>1 DEF Filling
  <2>3. First(t, left) = t
    BY <1>2, <1>4, Firsts
  <2>4. t = <<c[1]>>
    BY <1>4
  <2>5. QED
    BY <1>4, <2>1, <2>2, <2>3, <2>4 DEF s, FillsOne<1>5. CASE Len(c) = 2 /\ c[1] = "%" /\
       c[2] = letter /\ t = text
  <2>1. fmt[at] = "%" /\ fmt[at + 1] = letter /\ at < Len(fmt)
    BY <1>3, <1>5 DEF Within
  <2>2. Filling(s, fmt, letter, text)
          = [i |-> at + 2, out |-> out \o SubSeq(text, 1, IF Len(text) < left THEN Len(text) ELSE left)]
    BY <1>1, <1>2, <1>3, <2>1 DEF Filling
  <2>3. QED
    BY <1>5, <2>2 DEF s, First, FillsOne
<1>6. QED
  BY <1>4, <1>5 DEF Piece

\* A round of the loop at the end of the format or of the buffer.
LEMMA FillNone ==
  ASSUME NEW s, NEW fmt, NEW letter, NEW text, s.i > Len(fmt) \/ ROOM - 1 - Len(s.out) <= 0
  PROVE  Filling(s, fmt, letter, text) = s
BY Zenon DEF Filling

\* printf_d and printf_x write a format of any number of characters and conversions
\* with the text that is meant, as far as their buffer goes.
THEOREM PrintfOneRight ==
  ASSUME NEW C, NEW letter, NEW text \in Seq(C), NEW cs \in Seq(Seq(C)), NEW ts \in Seq(Seq(C)),
         Len(cs) = Len(ts),
         \A k \in 1..Len(cs) : Piece(letter, text, cs[k], ts[k])
  PROVE  PrintfOne(Joined(cs), letter, text) = Cut(Joined(ts))
<1> DEFINE n == Len(cs)
           fmt == Joined(cs)
           R == ROOM - 1
<1>1. PICK jc \in [0..Len(cs) -> Seq(C)] : Joins(cs, jc)
  BY JoinedInTurn
<1>2. PICK jt \in [0..Len(ts) -> Seq(C)] : Joins(ts, jt)
  BY JoinedInTurn
<1>3. n \in Nat /\ \A k \in 1..n : cs[k] \in Seq(C) /\ ts[k] \in Seq(C)
  OBVIOUS
<1>4. n <= Len(fmt) /\ fmt \in Seq(C)
  <2>1. \A k \in 1..Len(cs) : Len(cs[k]) >= 1
    <3>1. \A c, t : Piece(letter, text, c, t) => Len(c) >= 1
      BY DEF Piece
    <3>2. QED
      BY <3>1, Zenon
  <2>2. QED
    BY <1>1, <2>1, PartsCount
<1>5. \A k \in 1..Len(cs) : /\ Len(jc[k]) = Len(jc[k - 1]) + Len(cs[k])
                            /\ jc[k - 1] \in Seq(C) /\ Within(Joined(cs), Len(jc[k - 1]) + 1, cs[k])
  <2>1. PartsInLine(C, cs, jc)
    BY <1>1, AllPartsStand
  <2>2. QED
    BY <2>1, Zenon DEF PartsInLine
<1>6. \A k \in 1..Len(ts) : jt[k] = jt[k - 1] \o ts[k] /\ jt[k - 1] \in Seq(C)
  <2>1. PartsInLine(C, ts, jt)
    BY <1>2, AllPartsStand
  <2>2. QED
    BY <2>1, Zenon DEF PartsInLine
<1>7. jt[0] = <<>> /\ jc[0] = <<>> /\ jt[n] = Joined(ts) /\ jc[n] = fmt /\ jt[n] \in Seq(C)
  <2>1. jt[0] = <<>> /\ jc[0] = <<>> /\ jt[Len(ts)] = Joined(ts) /\ jc[Len(cs)] = Joined(cs)
    BY <1>1, <1>2, Zenon DEF Joins
  <2>2. Len(ts) \in 0..Len(ts)
    OBVIOUS
  <2>3. jt[Len(ts)] \in Seq(C)
    BY <2>2, Zenon
  <2>4. Len(cs) = Len(ts)
    OBVIOUS
  <2>5. QED
    BY <2>1, <2>3, <2>4, Zenon
<1>8. PICK f : Fills(fmt, letter, text, f)
  BY <1>4, FilledInTurn
<1>9. R \in Nat
  BY TextAssumption
<1>10. \A k \in 1..n : Piece(letter, text, cs[k], ts[k])
  OBVIOUS
<1>20. Len(ts) = n
  OBVIOUS
<1> HIDE DEF n, fmt
<1> DEFINE Good(k) ==
             /\ f[k] = [i |-> f[k].i, out |-> First(jt[k], R)]
             /\ Len(jt[k]) < R => f[k].i = Len(jc[k]) + 1
           T == {k \in Nat : Good(k)}
<1>11. Good(0)
  <2>1. f[0] = [i |-> 1, out |-> <<>>] /\ Len(<<>>) = 0
    BY <1>8 DEF Fills
  <2>2. jt[0] \in Seq(C) /\ Len(jt[0]) = 0 /\ Len(jc[0]) = 0
    BY <1>7, <2>1
  <2>3. First(jt[0], R) = jt[0]
    BY <1>9, <2>2, Firsts
  <2>4. QED
    BY <1>7, <2>1, <2>2, <2>3
<1>12. ASSUME NEW k \in Nat, k + 1 <= n, Good(k) PROVE Good(k + 1)
  <2> DEFINE u == jt[k]
             c == cs[k + 1]
             t == ts[k + 1]
             at == Len(jc[k]) + 1
  <2>1. k + 1 \in 1..n /\ k + 1 \in 1..Len(fmt) /\ (k + 1) - 1 = k /\ Len(fmt) \in Nat
    BY <1>3, <1>4, <1>12
  <2>2. f[k + 1] = Filling(f[k], fmt, letter, text)
    BY <1>8, <2>1 DEF Fills
  <2>3. jt[k + 1] = u \o t /\ u \in Seq(C) /\ t \in Seq(C) /\ c \in Seq(C)
    BY <1>3, <1>6, <1>20, <2>1 DEF n
  <2>4. Len(jc[k + 1]) = Len(jc[k]) + Len(c) /\ Within(fmt, at, c)
    BY <1>5, <2>1 DEF n, fmt
  <2>5. Piece(letter, text, c, t)
    BY <1>10, <2>1
  <2>6. Len(u) \in Nat /\ Len(t) \in Nat /\ Len(u \o t) = Len(u) + Len(t) /\ u \o t \in Seq(C)
    BY <2>3, Concatenated
  <2>7. f[k] = [i |-> f[k].i, out |-> First(u, R)] /\ (Len(u) < R => f[k].i = at)
    BY <1>12
  <2>8. jc[k] \in Seq(C) /\ Len(jc[k]) \in Nat /\ Len(c) \in Nat
    <3>1. jc[(k + 1) - 1] \in Seq(C)
      BY <1>5, <2>1 DEF n
    <3>2. jc[k] \in Seq(C)
      BY <2>1, <3>1
    <3>3. Len(jc[k]) \in Nat /\ Len(c) \in Nat
      BY <2>3, <3>2
    <3>4. QED
      BY <3>2, <3>3
  <2>9. CASE Len(u) >= R
    <3>1. Len(First(u, R)) = R
      BY <1>9, <2>3, <2>6, <2>9, Firsts
    <3>2. f[k].out = First(u, R)
      BY <2>7
    <3>3. ROOM - 1 - Len(f[k].out) <= 0
      BY <1>9, <3>1, <3>2
    <3>4. f[k + 1] = f[k]
      BY <2>2, <3>3, FillNone
    <3>5. First(u \o t, R) = First(u, R)
      BY <1>9, <2>3, <2>9, FirstMore
    <3>6. ~(Len(u \o t) < R)
      <4> HIDE DEF u, t
      <4>1. QED
        BY <1>9, <2>6, <2>9
    <3>7. f[k + 1] = [i |-> f[k + 1].i, out |-> First(u \o t, R)]
      <4> HIDE DEF u, t
      <4>1. QED
        BY <2>7, <3>4, <3>5
    <3>8. QED
      BY <2>3, <3>6, <3>7, Zenon
  <2>10. CASE Len(u) < R
    <3>1. First(u, R) = u
      BY <1>9, <2>3, <2>6, <2>10, Firsts
    <3>2. f[k] = [i |-> at, out |-> u]
      BY <2>7, <2>10, <3>1
    <3> HIDE DEF at, u, c, t
    <3>3. f[k + 1] = [i |-> at + Len(c), out |-> u \o First(t, ROOM - 1 - Len(u))]
      <4>1. Filling([i |-> at, out |-> u], fmt, letter, text)
              = [i |-> at + Len(c), out |-> u \o First(t, ROOM - 1 - Len(u))]
        <5>1. Len(u) < ROOM - 1
          BY <2>10
        <5>2. fmt \in Seq(C) /\ text \in Seq(C)
          BY <1>4
        <5>3. u \in Seq(C) /\ c \in Seq(C) /\ t \in Seq(C) /\ Within(fmt, at, c)
          BY <2>3, <2>4
        <5> HIDE DEF R, Good, T
        <5>4. FillsOne(fmt, letter, text, at, u, c, t)
          BY <2>5, <5>1, <5>2, <5>3, FillOne, Zenon
        <5>5. QED
          BY <5>4, Zenon DEF FillsOne
      <4>2. QED
        BY <2>2, <3>2, <4>1, Zenon
    <3>4. First(u \o t, R) = u \o First(t, R - Len(u))
      BY <1>9, <2>3, <2>10, FirstMore
    <3>5. at + Len(c) = Len(jc[k + 1]) + 1
      BY <2>4, <2>8 DEF at
    <3>6. f[k + 1] = [i |-> Len(jc[k + 1]) + 1, out |-> First(u \o t, R)]
      BY <3>3, <3>4, <3>5
    <3>7. f[k + 1].i = Len(jc[k + 1]) + 1
          /\ f[k + 1] = [i |-> f[k + 1].i, out |-> First(jt[k + 1], R)]
      BY <2>3, <3>6
    <3>8. QED
      BY <3>7, Zenon
  <2>11. QED
    BY <1>9, <2>6, <2>9, <2>10
<1>13. Good(n)
  <2> HIDE DEF Good
  <2>1. 0 \in T /\ \A k \in Nat : k + 1 <= n /\ k \in T => k + 1 \in T
    BY <1>11, <1>12
  <2> HIDE DEF T
  <2>2. \A k \in 0..n : k \in T
    BY <1>3, <2>1, Upto
  <2>3. n \in 0..n
    BY <1>3
  <2>4. QED
    BY <2>2, <2>3 DEF T
<1> HIDE DEF Good
\* The rounds that are left find the end of the format or of the buffer.
<1> DEFINE Idle(k) == k >= n => f[k] = f[n]
           W == {k \in Nat : Idle(k)}
<1>14. Filling(f[n], fmt, letter, text) = f[n]
  <2>1. f[n].out = First(jt[n], R) /\ (Len(jt[n]) < R => f[n].i = Len(fmt) + 1)
    BY <1>7, <1>13 DEF Good
  <2>2. Len(First(jt[n], R)) = IF Len(jt[n]) < R THEN Len(jt[n]) ELSE R
    BY <1>7, <1>9, Firsts
  <2>3. Len(jt[n]) \in Nat /\ Len(fmt) \in Nat
    BY <1>4, <1>7
  <2>4. f[n].i > Len(fmt) \/ ROOM - 1 - Len(f[n].out) <= 0
    BY <1>9, <2>1, <2>2, <2>3
  <2>5. QED
    BY <2>4, FillNone
<1>15. Idle(0)
  <2>1. 0 >= n => n = 0
    BY <1>3
  <2>2. QED
    BY <2>1
<1>16. ASSUME NEW k \in Nat, k + 1 <= Len(fmt), Idle(k) PROVE Idle(k + 1)
  <2>1. k + 1 \in 1..Len(fmt) /\ (k + 1) - 1 = k
    BY <1>4, <1>16
  <2>2. f[k + 1] = Filling(f[k], fmt, letter, text)
    BY <1>8, <2>1 DEF Fills
  <2>3. k + 1 >= n => k + 1 = n \/ k >= n
    BY <1>3
  <2>4. QED
    BY <1>14, <1>16, <2>2, <2>3
<1>17. f[Len(fmt)] = f[n]
  <2> DEFINE l == Len(fmt)
  <2>0. l \in Nat /\ l >= n
    BY <1>3, <1>4
  <2> HIDE DEF Idle
  <2>1. 0 \in W /\ \A k \in Nat : k + 1 <= l /\ k \in W => k + 1 \in W
    BY <1>15, <1>16
  <2> HIDE DEF W, l
  <2>2. \A k \in 0..l : k \in W
    BY <2>0, <2>1, Upto
  <2>3. l \in 0..l
    BY <2>0
  <2>4. Idle(l)
    BY <2>2, <2>3 DEF W
  <2>5. QED
    BY <2>0, <2>4 DEF Idle, l
<1>18. PrintfOne(fmt, letter, text) = First(jt[n], R)
  <2>1. f[n].out = First(jt[n], R)
    BY <1>13 DEF Good
  <2>2. QED
    BY <1>8, <1>17, <2>1 DEF Fills
<1>19. First(jt[n], R) = Cut(jt[n])
  BY DEF First, Cut
<1>21. QED
  BY <1>7, <1>18, <1>19 DEF fmt

-----------------------------------------------------------------------------
(* The numbers that the formats are given *)

\* A number of two figures.
LEMMA TwoFigures ==
  ASSUME NEW base \in Base, NEW v \in Nat, NEW h, NEW l, v >= base, h < base, v \div base = h, v % base = l
  PROVE  Figures(v, base) = <<Figure[l + 1], Figure[h + 1]>>
<1> DEFINE f == CHOOSE of : Figuring(base, v, of)
<1>1. Figuring(base, v, f)
  BY FiguringExists
<1>2. f[v] = Figures(v, base)
  BY DEF Figuring, Figures, FiguresBy
<1> HIDE DEF f
<1>3. \A n \in 0..v : f[n] = FiguresBy(f, base, n)
  BY <1>1 DEF Figuring
<1>4. base \in Nat /\ h \in Nat /\ h < v /\ h \in 0..v /\ v \in 0..v
  BY BaseDivides DEF Base
<1>5. h % base = h
  BY <1>4 DEF Base
<1>6. f[h] = <<Figure[h + 1]>> \o <<>>
  BY <1>3, <1>4, <1>5 DEF FiguresBy
<1>7. ~(v < base)
  BY <1>4
<1>8. f[v] = <<Figure[l + 1]>> \o f[h]
  BY <1>3, <1>4, <1>7 DEF FiguresBy
<1>9. QED
  BY <1>2, <1>6, <1>8, Pair, Zenon

\* The number that %d is given.
LEMMA FortyShown == Itoa(-40) = <<"-", "4", "0">>
<1>1. 40 \in Nat /\ 40 >= 10 /\ 40 \div 10 = 4 /\ 40 % 10 = 0 /\ 4 < 10 /\ 10 \in Base
  BY DEF Base
<1>2. Figures(40, 10) = <<Figure[0 + 1], Figure[4 + 1]>>
  BY <1>1, TwoFigures
<1>3. Figure[0 + 1] = "0" /\ Figure[4 + 1] = "4"
  BY DEF Figure
<1>4. Figures(40, 10) = <<"0", "4">>
  BY <1>2, <1>3
<1>5. Append(<<"0", "4">>, "-") = <<"0", "4", "-">>
  BY Three
<1>6. Reverse(<<"0", "4", "-">>) = <<"-", "4", "0">>
  BY DEF Reverse
<1>7. \A m \in Nat : m # 0 => -m < 0 /\ -(-m) = m
  OBVIOUS
<1>8. \A m \in Nat : m # 0 => Itoa(-m) = Reverse(Append(Figures(m, 10), "-"))
  BY <1>7 DEF Itoa
<1>10. 40 \in Nat /\ 40 # 0
  OBVIOUS
<1>11. QED
  BY <1>4, <1>5, <1>6, <1>8, <1>10

\* The number that %x is given.
LEMMA HexShown == Utoa(175, 16) = <<"a", "f">>
<1>1. 175 \in Nat /\ 175 >= 16 /\ 175 \div 16 = 10 /\ 175 % 16 = 15 /\ 10 < 16 /\ 16 \in Base
  BY DEF Base
<1>2. Figures(175, 16) = <<Figure[15 + 1], Figure[10 + 1]>>
  BY <1>1, TwoFigures
<1>3. Figure[15 + 1] = "f" /\ Figure[10 + 1] = "a"
  BY DEF Figure
<1>4. Reverse(<<"f", "a">>) = <<"a", "f">>
  BY DEF Reverse
<1>5. QED
  BY <1>2, <1>3, <1>4 DEF Utoa

\* Its eight figures in capitals.
LEMMA Capitals ==
  ASSUME NEW f, f[8] = 175, f[7] = 10, f[6] = 0, f[5] = 0, f[4] = 0, f[3] = 0, f[2] = 0, f[1] = 0
  PROVE  [i \in 1..8 |-> Capital[(f[i] % 16) + 1]] = <<"0", "0", "0", "0", "0", "0", "A", "F">>
<1> DEFINE r == <<"0", "0", "0", "0", "0", "0", "A", "F">>
           Cap(n) == Capital[(n % 16) + 1]
<1>2. Cap(0) = "0" /\ Cap(10) = "A" /\ Cap(175) = "F"
  <2>1. 0 % 16 = 0 /\ 10 % 16 = 10 /\ 175 % 16 = 15
    OBVIOUS
  <2>2. Capital[0 + 1] = "0" /\ Capital[10 + 1] = "A" /\ Capital[15 + 1] = "F"
    BY DEF Capital
  <2>3. QED
    BY <2>1, <2>2
<1> HIDE DEF Cap
<1>3. \A i \in 1..8 : Cap(f[i]) = r[i]
  <2>1. /\ r[1] = "0" /\ r[2] = "0" /\ r[3] = "0" /\ r[4] = "0" /\ r[5] = "0" /\ r[6] = "0"
        /\ r[7] = "A" /\ r[8] = "F"
    OBVIOUS
  <2>2. \A i \in 1..8 : i = 1 \/ i = 2 \/ i = 3 \/ i = 4 \/ i = 5 \/ i = 6 \/ i = 7 \/ i = 8
    OBVIOUS
  <2> HIDE DEF r
  <2>3. QED
    BY <1>2, <2>1, <2>2
<1>4. r = [i \in 1..8 |-> r[i]]
  OBVIOUS
<1> HIDE DEF r
<1>5. [i \in 1..8 |-> Cap(f[i])] = r
  BY <1>3, <1>4
<1>6. QED
  BY <1>5 DEF Cap, r

\* itoa_hex of it.
LEMMA PaddedShown ==
  ItoaHex(175) = <<"0", "x">> \o <<"0", "0", "0", "0", "0", "0", "A", "F">>
<1> DEFINE f == CHOOSE g : Shifting(175, g)
<1>1. Shifting(175, f)
  BY ShiftingExists
<1>2. Shifted4(175) = f
  BY DEF Shifted4, Shifting
<1> HIDE DEF f
<1>3. \A i \in 0..8 : f[i] = IF i = 8 THEN 175 ELSE f[i + 1] \div 16
  BY <1>1 DEF Shifting
<1>4. f[8] = 175 /\ f[7] = f[8] \div 16 /\ f[6] = f[7] \div 16 /\ f[5] = f[6] \div 16
      /\ f[4] = f[5] \div 16 /\ f[3] = f[4] \div 16 /\ f[2] = f[3] \div 16 /\ f[1] = f[2] \div 16
  BY <1>3
<1>5. f[7] = 10 /\ f[6] = 0 /\ f[5] = 0 /\ f[4] = 0 /\ f[3] = 0 /\ f[2] = 0 /\ f[1] = 0
  <2> DEFINE Shift(x) == x \div 16
  <2>1. Shift(175) = 10 /\ Shift(10) = 0 /\ Shift(0) = 0
    OBVIOUS
  <2>2. f[7] = Shift(f[8]) /\ f[6] = Shift(f[7]) /\ f[5] = Shift(f[6]) /\ f[4] = Shift(f[5])
        /\ f[3] = Shift(f[4]) /\ f[2] = Shift(f[3]) /\ f[1] = Shift(f[2])
    BY <1>4, Zenon
  <2> HIDE DEF Shift
  <2>3. f[8] = 175
    BY <1>4, Zenon
  <2>4. QED
    BY <2>1, <2>2, <2>3
<1>6. [i \in 1..8 |-> Capital[(f[i] % 16) + 1]] = <<"0", "0", "0", "0", "0", "0", "A", "F">>
  BY <1>4, <1>5, Capitals
<1>7. QED
  BY <1>2, <1>6, Zenon DEF ItoaHex

-----------------------------------------------------------------------------
(* kprintf *)

\* What the callers pass.
Handed == {"z", <<"h", "i">>, -40, 175}

\* How far arg_ptr goes.
Moved(kind) == IF kind = "char" THEN 1 ELSE 4 * Len(Passed(kind))

\* A kind of piece has its characters, its argument and its text.
LEMMA KindsAre ==
  /\ Chars("lit") = <<"a">> /\ Chars("percent") = <<"%", "%">> /\ Chars("other") = <<"%", "q">>
  /\ Chars("char") = <<"%", "c">> /\ Chars("str") = <<"%", "s">>
  /\ Chars("int") = <<"%", "d">> /\ Chars("hex") = <<"%", "x">>
  /\ Meant("lit") = <<"a">> /\ Meant("percent") = <<"%">> /\ Meant("other") = <<"%", "q">>
  /\ Meant("char") = <<"z">> /\ Meant("str") = <<"h", "i">>
  /\ Meant("int") = <<"-", "4", "0">> /\ Meant("hex") = <<"a", "f">>
  /\ Passed("lit") = <<>> /\ Passed("percent") = <<>> /\ Passed("other") = <<>>
  /\ Passed("char") = <<"z">> /\ Passed("str") = << <<"h", "i">> >>
  /\ Passed("int") = <<-40>> /\ Passed("hex") = <<175>>
BY SMT DEF Chars, Meant, Passed

\* The characters of the formats and of their texts.
Marks == {"a", "%", "q", "c", "s", "d", "x", "z", "h", "i", "-", "4", "0", "f", "A", "F"}

\* The characters, one by one.
LEMMA MarksAre ==
  /\ "a" \in Marks /\ "%" \in Marks /\ "q" \in Marks /\ "c" \in Marks /\ "s" \in Marks
  /\ "d" \in Marks /\ "x" \in Marks /\ "z" \in Marks /\ "h" \in Marks /\ "i" \in Marks
  /\ "-" \in Marks /\ "4" \in Marks /\ "0" \in Marks /\ "f" \in Marks /\ "A" \in Marks
  /\ "F" \in Marks
BY DEF Marks

Marked(q)  == q \in Seq(Marks)
Spells(q)  == q \in Seq(Marks) /\ Len(q) \in {1, 2}
Handing(q) == q \in Seq(Handed) /\ Len(q) \in {0, 1}
Kind(kind) == Spells(Chars(kind)) /\ Handing(Passed(kind)) /\ Marked(Meant(kind))

\* So each kind has its types.
LEMMA KindsTyped == \A kind \in Kinds : Kind(kind)
<1>1. Handing(<<>>) /\ \A c \in Handed : Handing(<<c>>)
  BY Short DEF Handing
<1>2. "z" \in Handed /\ <<"h", "i">> \in Handed /\ -40 \in Handed /\ 175 \in Handed
  BY DEF Handed
<1>3. Handing(<<"z">>) /\ Handing(<< <<"h", "i">> >>) /\ Handing(<<-40>>) /\ Handing(<<175>>)
  BY <1>1, <1>2
<1>4. (\A c \in Marks : Spells(<<c>>)) /\ (\A c, d \in Marks : Spells(<<c, d>>))
  BY Short DEF Spells
<1>5. /\ Spells(<<"a">>) /\ Spells(<<"%", "%">>) /\ Spells(<<"%", "q">>) /\ Spells(<<"%", "c">>)
      /\ Spells(<<"%", "s">>) /\ Spells(<<"%", "d">>) /\ Spells(<<"%", "x">>)
  BY <1>4, MarksAre
<1>6. (\A c \in Marks : Marked(<<c>>)) /\ (\A c, d \in Marks : Marked(<<c, d>>))
      /\ \A c, d, e \in Marks : Marked(<<c, d, e>>)
  BY Short DEF Marked
<1>7. /\ Marked(<<"a">>) /\ Marked(<<"%">>) /\ Marked(<<"%", "q">>) /\ Marked(<<"z">>)
      /\ Marked(<<"h", "i">>) /\ Marked(<<"-", "4", "0">>) /\ Marked(<<"a", "f">>)
  BY <1>6, MarksAre
<1>8. Kind("lit") /\ Kind("percent") /\ Kind("other") /\ Kind("char") /\ Kind("str")
      /\ Kind("int") /\ Kind("hex")
  <2>1. /\ Spells(Chars("lit")) /\ Spells(Chars("percent")) /\ Spells(Chars("other"))
        /\ Spells(Chars("char")) /\ Spells(Chars("str")) /\ Spells(Chars("int"))
        /\ Spells(Chars("hex"))
    BY <1>5, KindsAre, Zenon
  <2>2. /\ Handing(Passed("lit")) /\ Handing(Passed("percent")) /\ Handing(Passed("other"))
        /\ Handing(Passed("char")) /\ Handing(Passed("str")) /\ Handing(Passed("int"))
        /\ Handing(Passed("hex"))
    BY <1>1, <1>3, KindsAre, Zenon
  <2>3. /\ Marked(Meant("lit")) /\ Marked(Meant("percent")) /\ Marked(Meant("other"))
        /\ Marked(Meant("char")) /\ Marked(Meant("str")) /\ Marked(Meant("int"))
        /\ Marked(Meant("hex"))
    BY <1>7, KindsAre, Zenon
  <2>4. QED
    BY <2>1, <2>2, <2>3, Zenon DEF Kind
<1>9. QED
  BY <1>8, Zenon DEF Kinds

\* A round of the loop of kprintf.
ScansTo(fmt, stack, n, a, o, m, b, q) ==
  Scanned([p |-> n, at |-> a, out |-> o], fmt, stack) = [p |-> m, at |-> b, out |-> q]

\* A character that is no % goes out as it is.
LEMMA ScanPlain ==
  ASSUME NEW fmt, NEW stack, NEW n, NEW a, NEW o, ~(n > Len(fmt)), fmt[n] # "%"
  PROVE  ScansTo(fmt, stack, n, a, o, n + 1, a, o \o <<fmt[n]>>)
BY DEF Scanned, ScansTo

\* A % and a character that is no conversion go out, %% as one %.
LEMMA ScanPercent ==
  ASSUME NEW fmt, NEW stack, NEW n, NEW a, NEW o, ~(n > Len(fmt)), fmt[n] = "%", n # Len(fmt),
         fmt[n + 1] \notin Conversion
  PROVE  ScansTo(fmt, stack, n, a, o, n + 2, a,
                 o \o (IF fmt[n + 1] = "%" THEN <<"%">> ELSE <<"%", fmt[n + 1]>>))
BY DEF Scanned, ScansTo

\* A conversion takes the slot that arg_ptr stands at.
LEMMA ScanConversion ==
  ASSUME NEW fmt, NEW stack, NEW n, NEW a, NEW o, ~(n > Len(fmt)), fmt[n] = "%", n # Len(fmt),
         fmt[n + 1] \in Conversion, a % 4 = 0
  PROVE  ScansTo(fmt, stack, n, a, o, n + 2, a + (IF fmt[n + 1] = "c" THEN 1 ELSE 4),
                 o \o Converted(fmt[n + 1], stack[(a \div 4) + 1]))
BY DEF Scanned, ScansTo

\* A round of the loop of kprintf goes over one piece of the format.
LEMMA ScanOne ==
  ASSUME NEW fmt \in Seq(Marks), NEW stack, NEW kind \in Kinds, NEW n, NEW a \in Nat, NEW o,
         Within(fmt, n, Chars(kind)),
         Passed(kind) # <<>> => a % 4 = 0 /\ stack[(a \div 4) + 1] = Passed(kind)[1]
  PROVE  ScansTo(fmt, stack, n, a, o, n + Len(Chars(kind)), a + Moved(kind), o \o Meant(kind))
<1> DEFINE To(m, b, q) == ScansTo(fmt, stack, n, a, o, m, b, q)
<1>1. Len(<<"a">>) = 1 /\ (\A c, d : Len(<<c, d>>) = 2) /\ Len(<<>>) = 0 /\ \A c : Len(<<c>>) = 1
  OBVIOUS
<1>2. (\A c : <<c>> # <<>>) /\ \A c : <<c>>[1] = c
  OBVIOUS
<1>3. a + 0 = a /\ a + 4 * 0 = a /\ 4 * 1 = 4
  OBVIOUS
<1>4. ASSUME NEW d \in Marks \cap Conversion, NEW v, Chars(kind) = <<"%", d>>, Passed(kind) = <<v>>
      PROVE  To(n + 2, a + (IF d = "c" THEN 1 ELSE 4), o \o Converted(d, v))
  <2>1. Within(fmt, n, <<"%", d>>)
    BY <1>4
  <2>2. ~(n > Len(fmt)) /\ n # Len(fmt) /\ fmt[n] = "%" /\ fmt[n + 1] = d
    BY <2>1, MarksAre, WithinTwo
  <2>3. a % 4 = 0 /\ stack[(a \div 4) + 1] = v
    <3>1. Passed(kind) # <<>> /\ Passed(kind)[1] = v
      BY <1>2, <1>4, Zenon
    <3>2. QED
      BY <3>1, Zenon
  <2>4. ScansTo(fmt, stack, n, a, o, n + 2, a + (IF fmt[n + 1] = "c" THEN 1 ELSE 4),
                o \o Converted(fmt[n + 1], stack[(a \div 4) + 1]))
    BY <2>2, <2>3, ScanConversion, Zenon
  <2>5. QED
    BY <2>2, <2>3, <2>4, Zenon
<1>5. ASSUME NEW d \in Marks, d \notin Conversion, Chars(kind) = <<"%", d>>
      PROVE  To(n + 2, a, o \o (IF d = "%" THEN <<"%">> ELSE <<"%", d>>))
  <2>1. Within(fmt, n, <<"%", d>>)
    BY <1>5
  <2>2. ~(n > Len(fmt)) /\ n # Len(fmt) /\ fmt[n] = "%" /\ fmt[n + 1] = d
    BY <2>1, MarksAre, WithinTwo
  <2>3. ScansTo(fmt, stack, n, a, o, n + 2, a,
                o \o (IF fmt[n + 1] = "%" THEN <<"%">> ELSE <<"%", fmt[n + 1]>>))
    BY <1>5, <2>2, ScanPercent, Zenon
  <2>4. QED
    BY <2>2, <2>3, Zenon
<1>6. CASE kind = "lit"
  <2>1. Within(fmt, n, <<"a">>)
    BY <1>6, KindsAre
  <2>2. ~(n > Len(fmt)) /\ fmt[n] = "a"
    BY <2>1, MarksAre, WithinOne
  <2>3. "a" # "%"
    OBVIOUS
  <2>4. To(n + 1, a, o \o <<"a">>)
    BY <2>2, <2>3, ScanPlain, Zenon
  <2>5. Len(Chars(kind)) = 1 /\ Meant(kind) = <<"a">>
    BY <1>1, <1>6, KindsAre, Zenon
  <2>6. a + Moved(kind) = a
    <3>1. Moved(kind) = 4 * 0
      BY <1>1, <1>6, KindsAre DEF Moved
    <3>2. QED
      BY <1>3, <3>1, Zenon
  <2>7. QED
    BY <2>4, <2>5, <2>6, Zenon
<1>7. CASE kind \in {"percent", "other"}
  <2>1. "%" \notin Conversion /\ "q" \notin Conversion /\ "q" # "%"
    BY DEF Conversion
  <2>2. \/ Chars(kind) = <<"%", "%">> /\ Meant(kind) = <<"%">>
        \/ Chars(kind) = <<"%", "q">> /\ Meant(kind) = <<"%", "q">>
    BY <1>7, KindsAre, Zenon
  <2>3. To(n + 2, a, o \o Meant(kind))
    <3>1. CASE Chars(kind) = <<"%", "%">> /\ Meant(kind) = <<"%">>
      BY <1>5, <2>1, <3>1, MarksAre, Zenon
    <3>2. CASE Chars(kind) = <<"%", "q">> /\ Meant(kind) = <<"%", "q">>
      BY <1>5, <2>1, <3>2, MarksAre, Zenon
    <3>3. QED
      BY <2>2, <3>1, <3>2, Zenon
  <2>4. Len(Chars(kind)) = 2
    BY <1>1, <2>2, Zenon
  <2>5. a + Moved(kind) = a
    <3>1. Moved(kind) = 4 * 0
      BY <1>1, <1>7, KindsAre DEF Moved
    <3>2. QED
      BY <1>3, <3>1, Zenon
  <2>6. QED
    BY <2>3, <2>4, <2>5, Zenon
<1>8. CASE kind = "char"
  <2>1. Chars(kind) = <<"%", "c">> /\ Passed(kind) = <<"z">> /\ Meant(kind) = <<"z">>
    BY <1>8, KindsAre, Zenon
  <2>2. "c" \in Conversion /\ Converted("c", "z") = <<"z">>
    BY DEF Conversion, Converted
  <2>3. To(n + 2, a + 1, o \o <<"z">>)
    BY <1>4, <2>1, <2>2, MarksAre, Zenon
  <2>4. Moved(kind) = 1 /\ Len(Chars(kind)) = 2
    BY <1>1, <1>8, <2>1, Zenon DEF Moved
  <2>5. QED
    BY <2>1, <2>3, <2>4, Zenon
<1>9. CASE kind = "str"
  <2>1. Chars(kind) = <<"%", "s">> /\ Passed(kind) = << <<"h", "i">> >> /\ Meant(kind) = <<"h", "i">>
    BY <1>9, KindsAre, Zenon
  <2>2. "s" \in Conversion /\ "s" # "c" /\ \A v : Converted("s", v) = v
    BY SMT DEF Conversion, Converted
  <2>3. To(n + 2, a + 4, o \o <<"h", "i">>)
    BY <1>4, <2>1, <2>2, MarksAre, Zenon
  <2>4. Moved(kind) = 4 /\ Len(Chars(kind)) = 2
    <3>1. Len(Passed(kind)) = 1 /\ kind # "char" /\ Len(Chars(kind)) = 2
      BY <1>1, <1>9, <2>1, Zenon
    <3>2. QED
      BY <3>1 DEF Moved
  <2>5. QED
    BY <2>1, <2>3, <2>4, Zenon
<1>10. CASE kind = "int"
  <2>1. Chars(kind) = <<"%", "d">> /\ Passed(kind) = <<-40>> /\ Meant(kind) = <<"-", "4", "0">>
    BY <1>10, KindsAre, Zenon
  <2>2. "d" \in Conversion /\ "d" # "c" /\ \A v : Converted("d", v) = Itoa(v)
    BY SMT DEF Conversion, Converted
  <2>3. To(n + 2, a + 4, o \o <<"-", "4", "0">>)
    BY <1>4, <2>1, <2>2, MarksAre, FortyShown, Zenon
  <2>4. Moved(kind) = 4 /\ Len(Chars(kind)) = 2
    <3>1. Len(Passed(kind)) = 1 /\ kind # "char" /\ Len(Chars(kind)) = 2
      BY <1>1, <1>10, <2>1, Zenon
    <3>2. QED
      BY <3>1 DEF Moved
  <2>5. QED
    BY <2>1, <2>3, <2>4, Zenon
<1>11. CASE kind = "hex"
  <2>1. Chars(kind) = <<"%", "x">> /\ Passed(kind) = <<175>> /\ Meant(kind) = <<"a", "f">>
    BY <1>11, KindsAre, Zenon
  <2>2. "x" \in Conversion /\ "x" # "c" /\ \A v : Converted("x", v) = Utoa(v, 16)
    BY SMT DEF Conversion, Converted
  <2>3. To(n + 2, a + 4, o \o <<"a", "f">>)
    BY <1>4, <2>1, <2>2, MarksAre, HexShown, Zenon
  <2>4. Moved(kind) = 4 /\ Len(Chars(kind)) = 2
    <3>1. Len(Passed(kind)) = 1 /\ kind # "char" /\ Len(Chars(kind)) = 2
      BY <1>1, <1>11, <2>1, Zenon
    <3>2. QED
      BY <3>1 DEF Moved
  <2>5. QED
    BY <2>1, <2>3, <2>4, Zenon
<1>12. QED
  BY <1>6, <1>7, <1>8, <1>9, <1>10, <1>11, Zenon DEF Kinds

\* A round of the loop of kprintf behind the end of the format.
LEMMA ScanNone ==
  ASSUME NEW s, NEW fmt, NEW stack, s.p > Len(fmt)
  PROVE  Scanned(s, fmt, stack) = s
BY Zenon DEF Scanned

\* No piece of a format is empty.
LEMMA SpellsSome == \A q : Spells(q) => Len(q) >= 1
<1>1. TAKE q
<1>2. HAVE Spells(q)
<1>3. Len(q) = 1 \/ Len(q) = 2
  BY <1>2 DEF Spells
<1> DEFINE l == Len(q)
<1>4. l = 1 \/ l = 2
  BY <1>3
<1> HIDE DEF l
<1>5. l >= 1
  BY <1>4
<1>6. QED
  BY <1>5 DEF l

\* What is read so far, at a slot's start as long as no %c came by.
Read(p, jc, ja, jt, k, s) ==
  \E a \in Nat :
    /\ s = [p |-> Len(jc[k]) + 1, at |-> a, out |-> jt[k]]
    /\ (\A i \in 1..k : p[i] # "char") => a = 4 * Len(ja[k])

\* kprintf writes a format of any number of pieces with every argument in its
\* place, if no %c stands before another conversion.
THEOREM KprintfRight ==
  ASSUME NEW p \in Seq(Kinds), CharLast(p)
  PROVE  Kprintf(Format(p), Stack(p)) = Text(p)
<1> DEFINE n == Len(p)
           cs == [i \in DOMAIN p |-> Chars(p[i])]
           as == [i \in DOMAIN p |-> Passed(p[i])]
           ts == [i \in DOMAIN p |-> Meant(p[i])]
           fmt == Format(p)
           stack == Stack(p)
<1>1. n \in Nat /\ DOMAIN p = 1..n /\ \A i \in 1..n : p[i] \in Kinds
  OBVIOUS
<1>2. \A i \in 1..n : Kind(p[i])
  BY <1>1, KindsTyped
<1> HIDE DEF n
<1>3. /\ \A i \in 1..n : cs[i] = Chars(p[i]) /\ as[i] = Passed(p[i]) /\ ts[i] = Meant(p[i])
      /\ cs = [i \in 1..n |-> Chars(p[i])] /\ as = [i \in 1..n |-> Passed(p[i])]
      /\ ts = [i \in 1..n |-> Meant(p[i])]
  BY <1>1
<1>4. fmt = Joined(cs) /\ stack = Joined(as) /\ Text(p) = Joined(ts)
  BY DEF Format, Stack, Text
<1> HIDE DEF cs, as, ts, fmt, stack
<1>5. /\ cs \in Seq(Seq(Marks)) /\ ts \in Seq(Seq(Marks)) /\ as \in Seq(Seq(Handed))
      /\ Len(cs) = n /\ Len(ts) = n /\ Len(as) = n
  <2> DEFINE M == Seq(Marks)
             H == Seq(Handed)
  <2>1. \A i \in 1..n : Chars(p[i]) \in M /\ Meant(p[i]) \in M /\ Passed(p[i]) \in H
    BY <1>2 DEF Kind, Marked, Spells, Handing
  <2> HIDE DEF M, H
  <2>2. cs \in Seq(M) /\ Len(cs) = n
    BY <1>1, <1>3, <2>1
  <2>3. ts \in Seq(M) /\ Len(ts) = n
    BY <1>1, <1>3, <2>1
  <2>4. as \in Seq(H) /\ Len(as) = n
    BY <1>1, <1>3, <2>1
  <2>5. QED
    BY <2>2, <2>3, <2>4 DEF M, H
<1>6. PICK jc \in [0..Len(cs) -> Seq(Marks)] : Joins(cs, jc)
  BY <1>5, JoinedInTurn
<1>7. PICK ja \in [0..Len(as) -> Seq(Handed)] : Joins(as, ja)
  BY <1>5, JoinedInTurn
<1>8. PICK jt \in [0..Len(ts) -> Seq(Marks)] : Joins(ts, jt)
  BY <1>5, JoinedInTurn
<1>9. PartsInLine(Marks, cs, jc) /\ PartsInLine(Handed, as, ja) /\ PartsInLine(Marks, ts, jt)
  BY <1>5, <1>6, <1>7, <1>8, AllPartsStand
<1>10. \A k \in 1..n : /\ Len(jc[k]) = Len(jc[k - 1]) + Len(Chars(p[k]))
                       /\ jc[k - 1] \in Seq(Marks)
                       /\ Within(fmt, Len(jc[k - 1]) + 1, Chars(p[k]))
  BY <1>3, <1>4, <1>5, <1>9, Zenon DEF PartsInLine
<1>11. \A k \in 1..n : /\ Len(ja[k]) = Len(ja[k - 1]) + Len(Passed(p[k]))
                       /\ ja[k - 1] \in Seq(Handed)
                       /\ Within(stack, Len(ja[k - 1]) + 1, Passed(p[k]))
  BY <1>3, <1>4, <1>5, <1>9, Zenon DEF PartsInLine
<1>12. \A k \in 1..n : jt[k] = jt[k - 1] \o Meant(p[k])
  BY <1>3, <1>5, <1>9, Zenon DEF PartsInLine
<1>13. jc[0] = <<>> /\ ja[0] = <<>> /\ jt[0] = <<>> /\ jc[n] = fmt /\ jt[n] = Text(p)
  BY <1>4, <1>5, <1>6, <1>7, <1>8, Zenon DEF Joins
<1>14. n <= Len(fmt) /\ fmt \in Seq(Marks) /\ Len(fmt) \in Nat
  <2>1. \A k \in 1..Len(cs) : Len(cs[k]) >= 1
    <3>1. \A i \in 1..n : Len(Chars(p[i])) >= 1
      <4>1. \A q : Spells(q) => Len(q) >= 1
        BY SpellsSome
      <4>2. QED
        BY <1>2, <4>1, Zenon DEF Kind
    <3>2. QED
      BY <1>3, <1>5, <3>1, Zenon
  <2>2. Len(cs) <= Len(Joined(cs)) /\ Joined(cs) \in Seq(Marks)
    BY <1>5, <1>6, <2>1, PartsCount
  <2>3. QED
    BY <1>4, <1>5, <2>2
<1>15. PICK f : Scans(fmt, stack, f)
  BY <1>14, ScannedInTurn
<1> DEFINE Good(k) == Read(p, jc, ja, jt, k, f[k])
           T == {k \in Nat : Good(k)}
<1>16. Good(0)
  <2>1. f[0] = [p |-> 1, at |-> 0, out |-> <<>>]
    BY <1>15 DEF Scans
  <2>2. Len(<<>>) = 0
    OBVIOUS
  <2>3. Len(jc[0]) + 1 = 1 /\ 4 * Len(ja[0]) = 0 /\ 0 \in Nat
    BY <1>13, <2>2
  <2>4. f[0] = [p |-> Len(jc[0]) + 1, at |-> 0, out |-> jt[0]]
    BY <1>13, <2>1, <2>3, Zenon
  <2>5. QED
    BY <2>3, <2>4, Zenon DEF Read
<1>17. ASSUME NEW k \in Nat, k + 1 <= n, Good(k) PROVE Good(k + 1)
  <2>1. k + 1 \in 1..n /\ k + 1 \in 1..Len(fmt) /\ (k + 1) - 1 = k
    BY <1>1, <1>14, <1>17
  <2>2. f[k + 1] = Scanned(f[k], fmt, stack)
    BY <1>15, <2>1 DEF Scans
  <2>3. PICK a \in Nat : /\ f[k] = [p |-> Len(jc[k]) + 1, at |-> a, out |-> jt[k]]
                         /\ (\A i \in 1..k : p[i] # "char") => a = 4 * Len(ja[k])
    BY <1>17 DEF Read
  <2> DEFINE kind == p[k + 1]
             l == Len(ja[k])
             c == Len(Chars(kind))
  <2>4. kind \in Kinds /\ Kind(kind)
    BY <1>1, <1>2, <2>1
  <2>5. Len(jc[k + 1]) = Len(jc[k]) + c /\ Within(fmt, Len(jc[k]) + 1, Chars(kind))
    BY <1>10, <2>1
  <2>6. Len(ja[k + 1]) = l + Len(Passed(kind)) /\ Within(stack, l + 1, Passed(kind)) /\ l \in Nat
    <3>1. Len(ja[k + 1]) = l + Len(Passed(kind)) /\ Within(stack, l + 1, Passed(kind))
      BY <1>11, <2>1
    <3>2. ja[(k + 1) - 1] \in Seq(Handed)
      BY <1>11, <2>1
    <3>3. ja[k] \in Seq(Handed)
      BY <2>1, <3>2
    <3>4. \A q \in Seq(Handed) : Len(q) \in Nat
      OBVIOUS
    <3>5. QED
      BY <3>1, <3>3, <3>4, Zenon
  <2>7. jt[k + 1] = jt[k] \o Meant(kind)
    BY <1>12, <2>1
  <2>8. jc[(k + 1) - 1] \in Seq(Marks)
    BY <1>10, <2>1
  <2>9. Len(jc[k]) \in Nat /\ c \in Nat
    <3>1. jc[k] \in Seq(Marks)
      BY <2>1, <2>8
    <3>2. Chars(kind) \in Seq(Marks)
      BY <2>4 DEF Kind, Spells
    <3> HIDE DEF kind
    <3>3. QED
      BY <3>1, <3>2
  <2> HIDE DEF kind, l, c
  <2>10. ASSUME Passed(kind) # <<>>
         PROVE  a % 4 = 0 /\ stack[(a \div 4) + 1] = Passed(kind)[1]
    <3>1. \A i \in 1..k : i \in 1..n /\ i < k + 1
      BY <2>1, <1>1
    <3>2. \A i \in 1..k : p[i] # "char"
      <4>1. \A i, j \in 1..n : p[i] = "char" /\ i < j => Passed(p[j]) = <<>>
        BY <1>1, Zenon DEF CharLast
      <4>2. QED
        BY <2>1, <2>10, <3>1, <4>1, Zenon DEF kind
    <3>3. a = 4 * l
      BY <2>3, <3>2, Zenon DEF l
    <3>4. a % 4 = 0 /\ a \div 4 = l
      BY <2>6, <3>3
    <3>5. Len(Passed(kind)) >= 1
      <4>1. Passed(kind) \in Seq(Handed)
        BY <2>4 DEF Kind, Handing
      <4>2. QED
        BY <2>10, <4>1, EmptySeq
    <3>6. 1 \in 1..Len(Passed(kind)) /\ (l + 1) + 1 - 1 = l + 1
      <4>1. Len(Passed(kind)) \in Nat
        BY <2>4 DEF Kind, Handing
      <4>2. QED
        BY <2>6, <3>5, <4>1
    <3>7. stack[l + 1] = Passed(kind)[1]
      BY <2>6, <3>6, Zenon DEF Within
    <3>8. QED
      BY <3>4, <3>7
  <2>11. ScansTo(fmt, stack, Len(jc[k]) + 1, a, jt[k], (Len(jc[k]) + 1) + c, a + Moved(kind),
                 jt[k] \o Meant(kind))
    BY <1>14, <2>4, <2>5, <2>10, ScanOne, Zenon DEF c
  <2>12. f[k + 1] = [p |-> (Len(jc[k]) + 1) + c, at |-> a + Moved(kind), out |-> jt[k] \o Meant(kind)]
    BY <2>2, <2>3, <2>11, Zenon DEF ScansTo
  <2>13. (Len(jc[k]) + 1) + c = Len(jc[k + 1]) + 1
    BY <2>5, <2>9
  <2>14. Moved(kind) \in Nat /\ a + Moved(kind) \in Nat
    <3>1. Len(Passed(kind)) \in Nat
      BY <2>4 DEF Kind, Handing
    <3>2. QED
      BY <3>1 DEF Moved
  <2>15. ASSUME \A i \in 1..(k + 1) : p[i] # "char"
         PROVE  a + Moved(kind) = 4 * Len(ja[k + 1])
    <3>1. kind # "char" /\ \A i \in 1..k : p[i] # "char"
      <4>1. k + 1 \in 1..(k + 1) /\ \A i \in 1..k : i \in 1..(k + 1)
        OBVIOUS
      <4>2. QED
        BY <2>15, <4>1, Zenon DEF kind
    <3>2. a = 4 * l
      BY <2>3, <3>1, Zenon DEF l
    <3>3. Moved(kind) = 4 * Len(Passed(kind))
      BY <3>1 DEF Moved
    <3>4. Len(Passed(kind)) \in Nat
      BY <2>4 DEF Kind, Handing
    <3>5. QED
      BY <2>6, <3>2, <3>3, <3>4
  <2>16. f[k + 1] = [p |-> Len(jc[k + 1]) + 1, at |-> a + Moved(kind), out |-> jt[k + 1]]
    BY <2>7, <2>12, <2>13, Zenon
  <2>17. QED
    BY <2>14, <2>15, <2>16, Zenon DEF Read
<1>18. Good(n)
  <2> HIDE DEF Good
  <2>1. 0 \in T /\ \A k \in Nat : k + 1 <= n /\ k \in T => k + 1 \in T
    BY <1>16, <1>17
  <2> HIDE DEF T
  <2>2. \A k \in 0..n : k \in T
    BY <1>1, <2>1, Upto
  <2>3. n \in 0..n
    BY <1>1
  <2>4. QED
    BY <2>2, <2>3 DEF T
<1>19. f[n].out = Text(p) /\ f[n].p > Len(fmt)
  <2>1. PICK a \in Nat : f[n] = [p |-> Len(jc[n]) + 1, at |-> a, out |-> jt[n]]
    BY <1>18 DEF Read
  <2>2. f[n].p = Len(fmt) + 1 /\ f[n].out = Text(p)
    BY <1>13, <2>1
  <2>3. QED
    BY <1>14, <2>2
<1> HIDE DEF Good, T
<1> DEFINE Idle(k) == k >= n => f[k] = f[n]
           W == {k \in Nat : Idle(k)}
<1>20. Idle(0)
  <2>1. 0 >= n => n = 0
    BY <1>1
  <2>2. QED
    BY <2>1
<1>21. ASSUME NEW k \in Nat, k + 1 <= Len(fmt), Idle(k) PROVE Idle(k + 1)
  <2>1. k + 1 \in 1..Len(fmt) /\ (k + 1) - 1 = k
    BY <1>14, <1>21
  <2>2. f[k + 1] = Scanned(f[k], fmt, stack)
    BY <1>15, <2>1 DEF Scans
  <2>3. k + 1 >= n => k + 1 = n \/ k >= n
    BY <1>1
  <2>4. Scanned(f[n], fmt, stack) = f[n]
    BY <1>19, ScanNone
  <2>5. QED
    BY <1>21, <2>2, <2>3, <2>4
<1>22. f[Len(fmt)] = f[n]
  <2> DEFINE l == Len(fmt)
  <2>0. l \in Nat /\ l >= n
    BY <1>1, <1>14
  <2> HIDE DEF Idle
  <2>1. 0 \in W /\ \A k \in Nat : k + 1 <= l /\ k \in W => k + 1 \in W
    BY <1>20, <1>21
  <2> HIDE DEF W, l
  <2>2. \A k \in 0..l : k \in W
    BY <2>0, <2>1, Upto
  <2>3. l \in 0..l
    BY <2>0
  <2>4. Idle(l)
    BY <2>2, <2>3 DEF W
  <2>5. QED
    BY <2>0, <2>4 DEF Idle, l
<1>23. Kprintf(fmt, stack) = Text(p)
  BY <1>15, <1>19, <1>22, Zenon DEF Scans
<1>24. QED
  BY <1>23 DEF fmt, stack

\* The pieces of the calls are sequences of kinds.
LEMMA PiecesListed ==
  ASSUME NEW kinds, NEW longest \in Nat, NEW p \in Pieces(kinds, longest)
  PROVE  p \in Seq(kinds)
<1>1. PICK k \in 0..longest : p \in [1..k -> kinds]
  BY DEF Pieces
<1>2. QED
  BY <1>1

\* kprintf, with no %c before another conversion.
LEMMA KprintfStep ==
  ASSUME KprintfCall
  PROVE  CharLast(args'[1]) => result' = Text(args'[1])
<1>1. PICK p \in Pieces(Kinds, 3) : Call("kprintf", <<p>>, Kprintf(Format(p), Stack(p)))
  BY Zenon DEF KprintfCall
<1>2. args' = <<p>> /\ result' = Kprintf(Format(p), Stack(p))
  BY <1>1, CallGives
<1>3. args'[1] = p
  BY <1>2
<1>4. p \in Seq(Kinds)
  BY PiecesListed
<1>5. QED
  BY <1>2, <1>3, <1>4, KprintfRight, Zenon

-----------------------------------------------------------------------------
(* printf_d and printf_x *)

\* printf_d and printf_x: each piece with its text, as far as the buffer goes.
LEMMA PrintfText ==
  ASSUME NEW p \in Seq(Kinds), NEW letter, NEW text \in Seq(Marks), NEW ts,
         ts = [i \in DOMAIN p |-> ts[i]],
         \A i \in DOMAIN p : ts[i] \in Seq(Marks) /\ Piece(letter, text, Chars(p[i]), ts[i])
  PROVE  PrintfOne(Format(p), letter, text) = Cut(Joined(ts))
<1> DEFINE n == Len(p)
           cs == [i \in DOMAIN p |-> Chars(p[i])]
           M == Seq(Marks)
<1>1. n \in Nat /\ DOMAIN p = 1..n /\ \A i \in 1..n : p[i] \in Kinds
  OBVIOUS
<1> HIDE DEF n
<1>2. \A i \in 1..n : Chars(p[i]) \in M /\ ts[i] \in M
  BY <1>1, KindsTyped DEF Kind, Spells
<1>3. \A i \in 1..n : cs[i] = Chars(p[i])
  BY <1>1
<1>4. cs = [i \in 1..n |-> cs[i]] /\ ts = [i \in 1..n |-> ts[i]]
  <2>1. cs = [i \in DOMAIN p |-> cs[i]]
    OBVIOUS
  <2> HIDE DEF cs
  <2>2. QED
    BY <1>1, <2>1, Zenon
<1> HIDE DEF cs, M
<1>5. cs \in Seq(M) /\ Len(cs) = n
  <2>1. \A i \in 1..n : cs[i] \in M
    BY <1>2, <1>3, Zenon
  <2>2. QED
    BY <1>1, <1>4, <2>1, Tabled, Zenon
<1>6. ts \in Seq(M) /\ Len(ts) = n
  BY <1>1, <1>2, <1>4, Tabled, Zenon
<1>7. \A k \in 1..Len(cs) : Piece(letter, text, cs[k], ts[k])
  BY <1>1, <1>3, <1>5, Zenon
<1>8. PrintfOne(Joined(cs), letter, text) = Cut(Joined(ts))
  <2>1. cs \in Seq(Seq(Marks)) /\ ts \in Seq(Seq(Marks)) /\ Len(cs) = Len(ts) /\ text \in Seq(Marks)
    BY <1>5, <1>6, Zenon DEF M
  <2>2. QED
    BY <1>7, <2>1, PrintfOneRight, Zenon
<1>9. QED
  BY <1>8, Zenon DEF Format, cs

\* printf_d.
LEMMA PrintfDStep ==
  ASSUME PrintfDCall
  PROVE  result' = Cut(Text(args'[1]))
<1>1. PICK p \in Pieces({"lit", "int"}, 5) : Call("printf_d", <<p>>, PrintfD(Format(p), -40))
  BY Zenon DEF PrintfDCall
<1>2. args' = <<p>> /\ result' = PrintfD(Format(p), -40)
  BY <1>1, CallGives
<1>3. args'[1] = p
  BY <1>2
<1> DEFINE K == {"lit", "int"}
           text == <<"-", "4", "0">>
           ts == [i \in DOMAIN p |-> Meant(p[i])]
<1>4. p \in Seq(K)
  BY PiecesListed
<1>5. K \subseteq Kinds
  BY DEF Kinds
<1>6. p \in Seq(Kinds) /\ \A i \in DOMAIN p : p[i] \in K
  <2> HIDE DEF K
  <2>1. p \in Seq(Kinds)
    BY <1>4, <1>5, SeqMonotonic
  <2>2. QED
    BY <1>4, <2>1
<1>7. Piece("d", text, Chars("lit"), Meant("lit")) /\ Piece("d", text, Chars("int"), Meant("int"))
  <2>1. Len(<<"a">>) = 1 /\ <<"a">>[1] = "a" /\ "a" # "%"
    OBVIOUS
  <2>2. Len(<<"%", "d">>) = 2 /\ <<"%", "d">>[1] = "%" /\ <<"%", "d">>[2] = "d"
    OBVIOUS
  <2>3. QED
    BY <2>1, <2>2, KindsAre, Zenon DEF Piece
<1>8. Meant("lit") \in Seq(Marks) /\ Meant("int") \in Seq(Marks)
  BY KindsTyped, Zenon DEF Kind, Marked, Kinds
<1>9. \A i \in DOMAIN p : ts[i] \in Seq(Marks) /\ Piece("d", text, Chars(p[i]), ts[i])
  <2>1. TAKE i \in DOMAIN p
  <2>2. ts[i] = Meant(p[i])
    OBVIOUS
  <2>3. p[i] = "lit" \/ p[i] = "int"
    BY <1>6
  <2> HIDE DEF ts, text
  <2>4. QED
    BY <1>7, <1>8, <2>2, <2>3, Zenon
<1>10. text \in Seq(Marks)
  BY <1>8, KindsAre, Zenon
<1>11. ts = [i \in DOMAIN p |-> ts[i]]
  OBVIOUS
<1>12. Text(p) = Joined(ts)
  BY Zenon DEF Text
<1>13. PrintfD(Format(p), -40) = PrintfOne(Format(p), "d", text)
  BY FortyShown, Zenon DEF PrintfD
<1> HIDE DEF ts, text
<1>14. PrintfOne(Format(p), "d", text) = Cut(Joined(ts))
  BY <1>6, <1>9, <1>10, <1>11, PrintfText, Zenon
<1>15. QED
  BY <1>2, <1>3, <1>12, <1>13, <1>14, Zenon

\* printf_x.
LEMMA PrintfXStep ==
  ASSUME PrintfXCall
  PROVE  result' = Cut(TextX(args'[1]))
<1>1. PICK p \in Pieces({"lit", "hex"}, 3) : Call("printf_x", <<p>>, PrintfX(Format(p), 175))
  BY Zenon DEF PrintfXCall
<1>2. args' = <<p>> /\ result' = PrintfX(Format(p), 175)
  BY <1>1, CallGives
<1>3. args'[1] = p
  BY <1>2
<1> DEFINE K == {"lit", "hex"}
           text == <<"0", "x">> \o <<"0", "0", "0", "0", "0", "0", "A", "F">>
           ts == [i \in DOMAIN p |-> Padded(p[i])]
<1>4. p \in Seq(K)
  BY PiecesListed
<1>5. K \subseteq Kinds
  BY DEF Kinds
<1>6. p \in Seq(Kinds) /\ \A i \in DOMAIN p : p[i] \in K
  <2> HIDE DEF K
  <2>1. p \in Seq(Kinds)
    BY <1>4, <1>5, SeqMonotonic
  <2>2. QED
    BY <1>4, <2>1
<1>7. Padded("lit") = <<"a">> /\ Padded("hex") = text
  <2>1. "lit" # "hex"
    OBVIOUS
  <2>2. QED
    BY <2>1, KindsAre, Zenon DEF Padded
<1>8. text \in Seq(Marks) /\ <<"a">> \in Seq(Marks)
  <2>1. <<"0", "x">> \in Seq(Marks) /\ <<"a">> \in Seq(Marks)
    BY Short, MarksAre, Zenon
  <2> DEFINE q == <<"0", "0", "0", "0", "0", "0", "A", "F">>
  <2>2. q \in Seq({"0", "A", "F"})
    OBVIOUS
  <2>3. {"0", "A", "F"} \subseteq Marks
    BY DEF Marks
  <2> HIDE DEF q
  <2>4. q \in Seq(Marks)
    BY <2>2, <2>3, SeqMonotonic, Zenon
  <2>5. <<"0", "x">> \o q \in Seq(Marks)
    BY <2>1, <2>4, Concatenated
  <2>6. QED
    BY <2>1, <2>5 DEF q
<1> HIDE DEF text
<1>9. Piece("x", text, Chars("lit"), Padded("lit")) /\ Piece("x", text, Chars("hex"), Padded("hex"))
  <2>1. Len(<<"a">>) = 1 /\ <<"a">>[1] = "a" /\ "a" # "%"
    OBVIOUS
  <2>2. Len(<<"%", "x">>) = 2 /\ <<"%", "x">>[1] = "%" /\ <<"%", "x">>[2] = "x"
    OBVIOUS
  <2>3. QED
    BY <1>7, <2>1, <2>2, KindsAre, Zenon DEF Piece
<1>10. \A i \in DOMAIN p : ts[i] \in Seq(Marks) /\ Piece("x", text, Chars(p[i]), ts[i])
  <2>1. TAKE i \in DOMAIN p
  <2>2. ts[i] = Padded(p[i])
    OBVIOUS
  <2>3. p[i] = "lit" \/ p[i] = "hex"
    BY <1>6
  <2> HIDE DEF ts
  <2>4. QED
    BY <1>7, <1>8, <1>9, <2>2, <2>3, Zenon
<1>11. ts = [i \in DOMAIN p |-> ts[i]]
  OBVIOUS
<1>12. TextX(p) = Joined(ts)
  BY Zenon DEF TextX
<1>13. PrintfX(Format(p), 175) = PrintfOne(Format(p), "x", text)
  BY PaddedShown, Zenon DEF PrintfX, text
<1> HIDE DEF ts
<1>14. PrintfOne(Format(p), "x", text) = Cut(Joined(ts))
  BY <1>6, <1>8, <1>10, <1>11, PrintfText, Zenon
<1>15. QED
  BY <1>2, <1>3, <1>12, <1>13, <1>14, Zenon

-----------------------------------------------------------------------------
(* debug_printf *)

\* One part alone.
LEMMA JoinedOne ==
  ASSUME NEW C, NEW q \in Seq(C)
  PROVE  Joined(<<q>>) = q
<1> DEFINE S == Seq(C)
           parts == <<q>>
<1>1. parts \in Seq(S) /\ Len(parts) = 1 /\ parts[1] = q
  OBVIOUS
<1> HIDE DEF parts
<1>2. PICK j \in [0..Len(parts) -> Seq(C)] : Joins(parts, j)
  BY <1>1, JoinedInTurn
<1>3. j[0] = <<>> /\ j[Len(parts)] = Joined(parts)
  BY <1>2, Zenon DEF Joins
<1>4. 1 \in 1..Len(parts) /\ 1 - 1 = 0
  BY <1>1
<1>5. j[1] = Joint(j[1 - 1], parts[1])
  BY <1>2, <1>4, Zenon DEF Joins
<1>6. <<>> \o q = q
  OBVIOUS
<1>7. Joined(parts) = q
  BY <1>1, <1>3, <1>4, <1>5, <1>6, Zenon DEF Joint
<1>8. QED
  BY <1>7 DEF parts

\* A format of one piece.
LEMMA OnePiece ==
  ASSUME NEW kind \in Kinds
  PROVE  Kprintf(Chars(kind), Passed(kind)) = Meant(kind)
<1> DEFINE p == <<kind>>
<1>1. p \in Seq(Kinds) /\ DOMAIN p = {1} /\ p[1] = kind
  OBVIOUS
<1>2. CharLast(p)
  <2>1. \A i, j \in {1} : ~(i < j)
    OBVIOUS
  <2>2. QED
    BY <1>1, <2>1, Zenon DEF CharLast
<1>3. Kind(kind)
  BY KindsTyped
<1> HIDE DEF p
<1>5. Format(p) = Chars(kind)
  <2>1. [i \in DOMAIN p |-> Chars(p[i])] = <<Chars(kind)>>
    BY <1>1
  <2>2. QED
    BY <1>3, <2>1, JoinedOne, Zenon DEF Format, Kind, Spells
<1>6. Stack(p) = Passed(kind)
  <2>1. [i \in DOMAIN p |-> Passed(p[i])] = <<Passed(kind)>>
    BY <1>1
  <2>2. QED
    BY <1>3, <2>1, JoinedOne, Zenon DEF Stack, Kind, Handing
<1>7. Text(p) = Meant(kind)
  <2>1. [i \in DOMAIN p |-> Meant(p[i])] = <<Meant(kind)>>
    BY <1>1
  <2>2. QED
    BY <1>3, <2>1, JoinedOne, Zenon DEF Text, Kind, Marked
<1>8. QED
  BY <1>1, <1>2, <1>5, <1>6, <1>7, KprintfRight, Zenon

\* The vendor that debug_printf takes for bare metal.
Intel == <<"I", "n", "t", "e", "l">>

\* A name of a vendor behind spaces.
LEMMA Vendor ==
  ASSUME NEW C, NEW q \in Seq(C), NEW t \in Seq(C), \A i \in 1..Len(q) : q[i] = Blank,
         \A i \in 1..Len(t) : t[i] # Blank, Len(t) >= 1
  PROVE  (BareMetal(q \o t) <=> IsPrefix(Intel, t)) /\ Without(q \o t, Blank) = t
<1> DEFINE name == q \o t
           l == Len(q)
           m == Len(t)
           Is(n) == (\A i \in 1..n : name[i] = Blank) /\ (n = Len(name) \/ name[n + 1] # Blank)
           skipped == CHOOSE n \in 0..Len(name) : Is(n)
<1>1. name \in Seq(C) /\ Len(name) = l + m /\ Within(name, l + 1, t)
  BY WithinEnd
<1>2. \A i \in 1..l : name[i] = q[i]
  BY Concatenated
<1>3. \A i \in 1..m : name[l + i] = t[i]
  BY Concatenated
<1>4. l \in Nat /\ m \in Nat /\ m >= 1
  OBVIOUS
<1>5. (\A i \in 1..l : q[i] = Blank) /\ \A i \in 1..m : t[i] # Blank
  OBVIOUS
<1>6. Without(name, Blank) = t
  BY WithoutFront, Zenon
<1> HIDE DEF name, l, m
<1>7. l \in 0..Len(name) /\ 1 \in 1..m /\ l # Len(name)
  BY <1>1, <1>4
<1>8. Is(l)
  BY <1>2, <1>3, <1>5, <1>7
<1>9. \A n \in 0..Len(name) : Is(n) => n = l
  <2>1. TAKE n \in 0..Len(name)
  <2>2. HAVE Is(n)
  <2>3. n \in Nat /\ n <= l + m
    BY <1>1, <1>4
  <2>4. ~(n < l)
    <3>1. SUFFICES ASSUME n < l PROVE FALSE
      OBVIOUS
    <3>2. n # Len(name) /\ n + 1 \in 1..l
      BY <1>1, <1>4, <2>3, <3>1
    <3>3. name[n + 1] = Blank
      BY <1>2, <1>5, <3>2
    <3>4. QED
      BY <2>2, <3>2, <3>3
  <2>5. ~(n > l)
    <3>1. SUFFICES ASSUME n > l PROVE FALSE
      OBVIOUS
    <3>2. l + 1 \in 1..n
      BY <1>4, <2>3, <3>1
    <3>3. name[l + 1] # Blank
      BY <1>3, <1>5, <1>7
    <3>4. QED
      BY <2>2, <3>2, <3>3
  <2>6. QED
    BY <1>4, <2>3, <2>4, <2>5
<1>10. skipped = l
  <2> HIDE DEF Is
  <2>1. QED
    BY <1>7, <1>8, <1>9
<1>11. SubSeq(name, l + 1, Len(name)) = t
  <2>1. t # <<>>
    <3>1. ASSUME t = <<>> PROVE FALSE
      <4>1. Len(t) = Len(<<>>)
        BY <3>1, Zenon
      <4>2. Len(<<>>) = 0
        OBVIOUS
      <4>3. QED
        BY <1>4, <4>1, <4>2 DEF m
    <3>2. QED
      BY <3>1
  <2>2. SubSeq(name, l + 1, (l + 1) + Len(t) - 1) = t
    BY <1>1, <2>1, WithinSub
  <2>3. (l + 1) + Len(t) - 1 = Len(name)
    BY <1>1, <1>4 DEF m
  <2>4. QED
    BY <2>2, <2>3, Zenon
<1>12. BareMetal(name) <=> IsPrefix(Intel, SubSeq(name, skipped + 1, Len(name)))
  BY Zenon DEF BareMetal, Intel
<1>13. QED
  BY <1>6, <1>10, <1>11, <1>12, Zenon DEF name

\* The vendors that the calls meet.
LEMMA Cpus ==
  ASSUME NEW cpu \in {<<Blank, Blank, "I", "n", "t", "e", "l">>, <<"I", "n">>, <<"Q">>}
  PROVE  BareMetal(cpu) <=> Without(cpu, Blank) = Intel
<1> DEFINE C == {Blank, "I", "n", "t", "e", "l", "Q"}
           Letters == {"I", "n", "t", "e", "l", "Q"}
<1>1. \A c \in Letters : c # Blank
  BY Zenon DEF Blank
<1>2. Letters \subseteq C /\ Blank \in C
  OBVIOUS
<1>3. /\ "I" \in Letters /\ "n" \in Letters /\ "t" \in Letters /\ "e" \in Letters
      /\ "l" \in Letters /\ "Q" \in Letters
  OBVIOUS
<1> HIDE DEF C, Letters
<1>4. ASSUME NEW t \in Seq(Letters), Len(t) >= 1
      PROVE  t \in Seq(C) /\ \A i \in 1..Len(t) : t[i] # Blank
  <2>1. t \in Seq(C)
    BY <1>2, SeqMonotonic
  <2>2. \A i \in 1..Len(t) : t[i] \in Letters
    OBVIOUS
  <2>3. QED
    BY <1>1, <2>1, <2>2, Zenon
<1>5. Intel \in Seq(Letters) /\ Len(Intel) = 5
  <2>1. \A a, b, c, d, e \in Letters : <<a, b, c, d, e>> \in Seq(Letters) /\ Len(<<a, b, c, d, e>>) = 5
    OBVIOUS
  <2>2. QED
    BY <1>3, <2>1, Zenon DEF Intel
<1>6. CASE cpu = <<Blank, Blank, "I", "n", "t", "e", "l">>
  <2> DEFINE q == <<Blank, Blank>>
  <2>1. q \in Seq(C) /\ Len(q) = 2 /\ q[1] = Blank /\ q[2] = Blank
    BY <1>2
  <2>2. \A i \in 1..Len(q) : q[i] = Blank
    <3>1. \A i \in 1..2 : i = 1 \/ i = 2
      OBVIOUS
    <3> HIDE DEF q
    <3>2. QED
      BY <2>1, <3>1
  <2> HIDE DEF q
  <2>4. Len(Intel) >= 1
    BY <1>5
  <2>3. Intel \in Seq(C) /\ \A i \in 1..Len(Intel) : Intel[i] # Blank
    BY <1>4, <1>5, <2>4, Zenon
  <2>5. (BareMetal(q \o Intel) <=> IsPrefix(Intel, Intel)) /\ Without(q \o Intel, Blank) = Intel
    BY <2>1, <2>2, <2>3, <2>4, Vendor, Zenon
  <2>6. IsPrefix(Intel, Intel)
    BY <1>5 DEF IsPrefix
  <2>7. q \o Intel = cpu
    <3> DEFINE u == q \o Intel
    <3>0. q \in Seq(C) /\ Intel \in Seq(C)
      BY <2>1, <2>3, Zenon
    <3>1. u \in Seq(C) /\ Len(u) = Len(q) + Len(Intel)
      BY <3>0, Concatenated
    <3>2. \A i \in 1..Len(q) : u[i] = q[i]
      BY <3>0, Concatenated
    <3>3. \A i \in 1..Len(Intel) : u[Len(q) + i] = Intel[i]
      BY <3>0, Concatenated
    <3> HIDE DEF u
    <3>4. \A i \in 1..2 : u[i] = Blank
      BY <2>1, <2>2, <3>2
    <3>5. \A i \in 1..5 : u[2 + i] = Intel[i]
      BY <1>5, <2>1, <3>3
    <3>6. \A a, b, c, d, e : /\ <<a, b, c, d, e>>[1] = a /\ <<a, b, c, d, e>>[2] = b
                             /\ <<a, b, c, d, e>>[3] = c /\ <<a, b, c, d, e>>[4] = d
                             /\ <<a, b, c, d, e>>[5] = e
      OBVIOUS
    <3>7. /\ Intel[1] = "I" /\ Intel[2] = "n" /\ Intel[3] = "t" /\ Intel[4] = "e"
          /\ Intel[5] = "l"
      BY <3>6, Zenon DEF Intel
    <3>8. /\ 2 + 1 = 3 /\ 2 + 2 = 4 /\ 2 + 3 = 5 /\ 2 + 4 = 6 /\ 2 + 5 = 7
          /\ 1 \in 1..2 /\ 2 \in 1..2 /\ 1 \in 1..5 /\ 2 \in 1..5 /\ 3 \in 1..5 /\ 4 \in 1..5 /\ 5 \in 1..5
      OBVIOUS
    <3>9. u[1] = Blank /\ u[2] = Blank /\ u[3] = "I" /\ u[4] = "n" /\ u[5] = "t" /\ u[6] = "e" /\ u[7] = "l"
      BY <3>4, <3>5, <3>7, <3>8
    <3>10. Len(u) = 7
      BY <1>5, <2>1, <3>1
    <3>11. u = [i \in 1..7 |-> u[i]]
      BY <3>1, <3>10, Spelled
    <3> DEFINE r == <<Blank, Blank, "I", "n", "t", "e", "l">>
    <3>12. /\ r[1] = Blank /\ r[2] = Blank /\ r[3] = "I" /\ r[4] = "n" /\ r[5] = "t" /\ r[6] = "e"
           /\ r[7] = "l"
      OBVIOUS
    <3>13. r = [i \in 1..7 |-> r[i]]
      OBVIOUS
    <3> HIDE DEF r
    <3>14. \A i \in 1..7 : i = 1 \/ i = 2 \/ i = 3 \/ i = 4 \/ i = 5 \/ i = 6 \/ i = 7
      OBVIOUS
    <3>15. \A i \in 1..7 : u[i] = r[i]
      BY <3>9, <3>12, <3>14, Zenon
    <3>16. u = r
      BY <3>11, <3>13, <3>15
    <3>17. QED
      BY <1>6, <3>16 DEF u, r
  <2>8. QED
    BY <2>5, <2>6, <2>7, Zenon
<1>7. ASSUME NEW t \in Seq(Letters), Len(t) >= 1, Len(t) < 5, cpu = t
      PROVE  BareMetal(cpu) <=> Without(cpu, Blank) = Intel
  <2> DEFINE q == <<>>
  <2>1. q \in Seq(C) /\ q \o t = t /\ \A i \in 1..Len(q) : q[i] = Blank
    OBVIOUS
  <2>2. t \in Seq(C) /\ \A i \in 1..Len(t) : t[i] # Blank
    BY <1>4, <1>7
  <2>3. (BareMetal(q \o t) <=> IsPrefix(Intel, t)) /\ Without(q \o t, Blank) = t
    BY <1>7, <2>1, <2>2, Vendor, Zenon
  <2>4. ~IsPrefix(Intel, t)
    BY <1>5, <1>7 DEF IsPrefix
  <2>5. t # Intel
    <3>1. ASSUME t = Intel PROVE FALSE
      <4>1. Len(t) = Len(Intel)
        BY <3>1, Zenon
      <4>2. QED
        BY <1>5, <1>7, <4>1
    <3>2. QED
      BY <3>1, Zenon
  <2>6. QED
    BY <1>7, <2>1, <2>3, <2>4, <2>5, Zenon
<1>8. CASE cpu = <<"I", "n">>
  <2> DEFINE t == <<"I", "n">>
  <2>1. t \in Seq(Letters) /\ Len(t) = 2
    BY <1>3, Short, Zenon
  <2> HIDE DEF t
  <2>2. Len(t) >= 1 /\ Len(t) < 5
    BY <2>1
  <2>3. cpu = t
    BY <1>8 DEF t
  <2>4. QED
    BY <1>7, <2>1, <2>2, <2>3
<1>9. CASE cpu = <<"Q">>
  <2> DEFINE t == <<"Q">>
  <2>1. t \in Seq(Letters) /\ Len(t) = 1
    BY <1>3, Short, Zenon
  <2> HIDE DEF t
  <2>2. Len(t) >= 1 /\ Len(t) < 5
    BY <2>1
  <2>3. cpu = t
    BY <1>9 DEF t
  <2>4. QED
    BY <1>7, <2>1, <2>2, <2>3
<1>10. QED
  BY <1>6, <1>8, <1>9, Zenon

\* debug_printf.
LEMMA DebugStep ==
  ASSUME DebugCall
  PROVE  Logged(result', args'[1], args'[2])
<1> DEFINE Names == {<<Blank, Blank, "I", "n", "t", "e", "l">>, <<"I", "n">>, <<"Q">>}
<1>1. PICK cpu \in Names : \E kind \in Kinds :
        Call("debug_printf", <<cpu, kind>>, DebugPrintf(cpu, Chars(kind), Passed(kind)))
  BY Zenon DEF DebugCall
<1>2. PICK kind \in Kinds :
        Call("debug_printf", <<cpu, kind>>, DebugPrintf(cpu, Chars(kind), Passed(kind)))
  BY <1>1
<1>3. BareMetal(cpu) <=> Without(cpu, Blank) = Intel
  BY Cpus, Zenon
<1> HIDE DEF Names
<1> DEFINE log == DebugPrintf(cpu, Chars(kind), Passed(kind))
<1>4. args' = <<cpu, kind>> /\ result' = log
  BY <1>2, CallGives, Zenon
<1>5. args'[1] = cpu /\ args'[2] = kind
  BY <1>4
<1>6. log.text = Meant(kind)
  <2>1. log.text = Kprintf(Chars(kind), Passed(kind))
    BY DEF DebugPrintf
  <2>2. QED
    BY <2>1, OnePiece, Zenon
<1>7. (log.to = "screen") <=> BareMetal(cpu)
  <2>1. log.to = IF BareMetal(cpu) THEN "screen" ELSE "serial"
    BY DEF DebugPrintf
  <2> HIDE DEF log
  <2>2. QED
    BY <2>1
<1> HIDE DEF log
<1>8. Logged(log, cpu, kind)
  BY <1>3, <1>6, <1>7, Zenon DEF Logged, Intel
<1>9. QED
  BY <1>4, <1>5, <1>8, Zenon

\* Every step gives what FormatsRight says.
LEMMA FormatsStep ==
  ASSUME Next
  PROVE  FormatsRight'
BY WhichCall, KprintfStep, DebugStep, PrintfDStep, PrintfXStep, Zenon DEF FormatsRight

\* Sizes and dates of a listing read back as what they were made of; kprintf,
\* printf_d, printf_x and debug_printf write every piece of a format with its own
\* argument, as far as the buffer goes; memory is dumped and compared byte for
\* byte, and what the teletype typed stands where the cursor was.
THEOREM AllTextRight == Spec => []TextRight
<1>1. Init => TextRight
  BY DEF Init, TextRight, SizesRight, DatesRight, FormatsRight, BytesRight
<1>2. TextRight /\ [Next]_vars => TextRight'
  <2>1. SUFFICES ASSUME TextRight, [Next]_vars PROVE TextRight'
    OBVIOUS
  <2>2. CASE Next
    BY <2>2, SizeStep, DatesStep, FormatsStep, BytesStep, Zenon DEF TextRight
  <2>3. CASE UNCHANGED vars
    <3>1. fn' = fn /\ args' = args /\ result' = result
      BY <2>3 DEF vars
    <3>2. SizesRight' /\ DatesRight'
      BY <2>1, <3>1 DEF TextRight, SizesRight, DatesRight
    <3>3. FormatsRight'
      BY <2>1, <3>1 DEF TextRight, FormatsRight
    <3>4. BytesRight'
      BY <2>1, <3>1 DEF TextRight, BytesRight
    <3>5. QED
      BY <3>2, <3>3, <3>4 DEF TextRight
  <2>4. QED
    BY <2>1, <2>2, <2>3
<1>3. QED
  BY <1>1, <1>2, PTL DEF Spec
=============================================================================
