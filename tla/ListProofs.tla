------------------------------ MODULE ListProofs ------------------------------
(* What FlattenSeq of the community modules returns, for lists of any      *)
(* length: lemmas for the proofs about what segments and messages carry.   *)
(* Induction is over a set of numbers, with WFMin.                         *)
EXTENDS Integers, SequencesExt, SequenceTheorems, WellFoundedInduction, TLAPS

(* A set of numbers that has 0, and with a number the next, has them all.  *)
LEMMA Induction ==
  ASSUME NEW T, 0 \in T, \A n \in Nat : n \in T => n + 1 \in T
  PROVE  Nat \subseteq T
<1>1. PICK R : IsWellFoundedOn(R, Nat) /\ R = {ss \in Nat \X Nat : ss[1] < ss[2]}
  BY NatLessThanWellFounded DEF OpToRel
<1>2. SUFFICES ASSUME Nat \ T # {} PROVE FALSE
  OBVIOUS
<1>3. PICK x \in Nat \ T : \A y \in Nat \ T : ~ (<<y, x>> \in R)
  <2>1. Nat \ T \subseteq Nat
    OBVIOUS
  <2> QED
    BY <1>1, <1>2, <2>1, WFMin
<1>4. x # 0 /\ x - 1 \in Nat
  BY <1>3
<1>5. <<x - 1, x>> \in R
  BY <1>1, <1>3, <1>4
<1> QED
  BY <1>3, <1>4, <1>5

(* f[i] is the first i elements of s, one behind the other.                *)
Flattens(s, f) ==
  f = [i \in 1 .. Len(s) |-> IF i = 1 THEN s[i] ELSE f[i - 1] \o s[i]]

(* There is such a function: that of all but the last, and one more.       *)
LEMMA FlattensExists ==
  ASSUME NEW S PROVE \A s \in Seq(Seq(S)) : \E f : Flattens(s, f)
<1> DEFINE T == {n \in Nat : \A s \in Seq(Seq(S)) : Len(s) = n => \E f : Flattens(s, f)}
<1>1. 0 \in T
  <2> SUFFICES ASSUME NEW s \in Seq(Seq(S)), Len(s) = 0 PROVE \E f : Flattens(s, f)
    OBVIOUS
  <2>1. Flattens(s, [i \in 1 .. 0 |-> s])
    BY DEF Flattens
  <2> QED
    BY <2>1
<1>2. ASSUME NEW n \in Nat, n \in T PROVE n + 1 \in T
  <2> SUFFICES ASSUME NEW s \in Seq(Seq(S)), Len(s) = n + 1 PROVE \E f : Flattens(s, f)
    OBVIOUS
  <2> DEFINE t == SubSeq(s, 1, n)
  <2>1. t \in Seq(Seq(S)) /\ Len(t) = n /\ \A i \in 1 .. n : t[i] = s[i]
    BY SubSeqProperties, ElementOfSeq
  <2>2. PICK f : Flattens(t, f)
    BY <1>2, <2>1
  <2> DEFINE g == [i \in 1 .. n + 1 |->
                     IF i = n + 1 THEN (IF n = 0 THEN s[1] ELSE f[n] \o s[n + 1]) ELSE f[i]]
  <2>3. \A i \in 1 .. n : f[i] = IF i = 1 THEN s[i] ELSE f[i - 1] \o s[i]
    BY <2>1, <2>2 DEF Flattens
  <2>4. ASSUME NEW i \in 1 .. n + 1
        PROVE  g[i] = IF i = 1 THEN s[i] ELSE g[i - 1] \o s[i]
    <3>1. CASE i = n + 1
      BY <3>1
    <3>2. CASE i # n + 1
      <4>1. i \in 1 .. n /\ g[i] = f[i] /\ (i # 1 => g[i - 1] = f[i - 1])
        BY <3>2
      <4> QED
        BY <2>3, <4>1
    <3> QED
      BY <3>1, <3>2
  <2>5. Flattens(s, g)
    <3> HIDE DEF g
    <3>1. g = [i \in 1 .. n + 1 |-> g[i]]
      BY DEF g
    <3> QED
      BY <2>4, <3>1 DEF Flattens
  <2> QED
    BY <2>5
<1> HIDE DEF T
<1>3. Nat \subseteq T
  BY <1>1, <1>2, Induction
<1> QED
  BY <1>3, LenProperties DEF T

(* It starts with the same, for lists that start with the same.            *)
LEMMA FlattensSame ==
  ASSUME NEW S, NEW s \in Seq(Seq(S)), NEW t \in Seq(Seq(S)), NEW f, NEW g,
         Flattens(s, f), Flattens(t, g), Len(s) <= Len(t),
         \A i \in 1 .. Len(s) : s[i] = t[i]
  PROVE  \A i \in 1 .. Len(s) : f[i] = g[i] /\ f[i] \in Seq(S)
<1> DEFINE Same(i) == f[i] = g[i] /\ f[i] \in Seq(S)
           T == {n \in Nat : \A i \in 1 .. Len(s) : i <= n => Same(i)}
<1>0. /\ Len(s) \in Nat /\ Len(t) \in Nat /\ 1 .. Len(s) \subseteq 1 .. Len(t)
      /\ \A i \in 1 .. Len(s) : s[i] \in Seq(S)
  BY LenProperties, ElementOfSeq
<1>a. \A i \in 1 .. Len(s) : f[i] = IF i = 1 THEN s[i] ELSE f[i - 1] \o s[i]
  BY DEF Flattens
<1>b. \A i \in 1 .. Len(s) : g[i] = IF i = 1 THEN s[i] ELSE g[i - 1] \o s[i]
  BY <1>0 DEF Flattens
<1>1. 0 \in T
  BY <1>0
<1>2. ASSUME NEW n \in Nat, n \in T PROVE n + 1 \in T
  <2> SUFFICES ASSUME NEW i \in 1 .. Len(s), i <= n + 1 PROVE Same(i)
    OBVIOUS
  <2>1. CASE i = 1
    BY <1>0, <1>a, <1>b, <2>1
  <2>2. CASE i # 1
    <3>1. i - 1 \in 1 .. Len(s) /\ i - 1 <= n
      BY <1>0, <2>2
    <3>2. Same(i - 1)
      BY <1>2, <3>1
    <3>3. f[i] = f[i - 1] \o s[i] /\ g[i] = g[i - 1] \o s[i]
      BY <1>a, <1>b, <2>2
    <3> QED
      BY <1>0, <3>2, <3>3, ConcatProperties
  <2> QED
    BY <2>1, <2>2
<1> HIDE DEF T
<1>3. Nat \subseteq T
  BY <1>1, <1>2, Induction
<1>4. Len(s) \in T
  BY <1>0, <1>3
<1>5. \A i \in 1 .. Len(s) : i <= Len(s)
  BY <1>0
<1> QED
  BY <1>4, <1>5 DEF T

(* FlattenSeq of no list.                                                  *)
LEMMA FlattenEmpty == FlattenSeq(<<>>) = <<>>
  BY EmptySeq DEF FlattenSeq

LEMMA FlattenLast ==
  ASSUME NEW S, NEW s \in Seq(Seq(S)), s # <<>>
  PROVE  \E f : Flattens(s, f) /\ FlattenSeq(s) = f[Len(s)]
<1>1. Len(s) # 0
  BY EmptySeq
<1> DEFINE f == CHOOSE f : Flattens(s, f)
<1>2. Flattens(s, f)
  BY FlattensExists
<1>3. FlattenSeq(s) = f[Len(s)]
  BY <1>1 DEF FlattenSeq, Flattens
<1> QED
  BY <1>2, <1>3

(* One list more goes behind all the others.                               *)
LEMMA FlattenAppend ==
  ASSUME NEW S, NEW s \in Seq(Seq(S)), NEW e \in Seq(S)
  PROVE  /\ FlattenSeq(s) \in Seq(S)
         /\ FlattenSeq(Append(s, e)) = FlattenSeq(s) \o e
<1> DEFINE n == Len(s)
           t == Append(s, e)
<1>1. /\ n \in Nat /\ t \in Seq(Seq(S)) /\ t # <<>> /\ Len(t) = n + 1
      /\ t[n + 1] = e /\ \A i \in 1 .. n : t[i] = s[i]
  BY AppendProperties, LenProperties
<1> HIDE DEF t
<1>2. PICK g : Flattens(t, g) /\ FlattenSeq(t) = g[n + 1]
  BY <1>1, FlattenLast
<1>3. g[n + 1] = IF n + 1 = 1 THEN t[n + 1] ELSE g[(n + 1) - 1] \o t[n + 1]
  <2>1. n + 1 \in 1 .. Len(t)
    BY <1>1
  <2> QED
    BY <1>2, <2>1 DEF Flattens
<1>4. CASE s = <<>>
  <2>1. n = 0
    BY <1>4
  <2>2. FlattenSeq(t) = e
    BY <1>1, <1>2, <1>3, <2>1
  <2>3. FlattenSeq(s) = <<>> /\ <<>> \in Seq(S) /\ <<>> \o e = e
    BY <1>4, FlattenEmpty, EmptySeq, ConcatEmptySeq
  <2> QED
    BY <2>2, <2>3 DEF t
<1>5. CASE s # <<>>
  <2>1. PICK f : Flattens(s, f) /\ FlattenSeq(s) = f[n]
    BY <1>5, FlattenLast
  <2>2. n \in 1 .. n /\ n + 1 # 1 /\ (n + 1) - 1 = n
    BY <1>1, <1>5, EmptySeq
  <2>3. f[n] = g[n] /\ f[n] \in Seq(S)
    <3>1. \A i \in 1 .. Len(s) : f[i] = g[i] /\ f[i] \in Seq(S)
      <4>1. Len(s) <= Len(t) /\ \A i \in 1 .. Len(s) : s[i] = t[i]
        BY <1>1
      <4> QED
        BY <1>1, <1>2, <2>1, <4>1, FlattensSame
    <3> QED
      BY <2>2, <3>1
  <2>4. g[n + 1] = g[n] \o e
    BY <1>1, <1>3, <2>2
  <2> QED
    BY <1>2, <2>1, <2>3, <2>4 DEF t
<1> QED
  BY <1>4, <1>5

(* The first d of the lists f, one behind the other. *)
Firsts(f, d) == FlattenSeq([i \in 1 .. d |-> f[i]])

(* One list further. *)
LEMMA FirstsStep ==
  ASSUME NEW S, NEW f \in Seq(Seq(S)), NEW d \in Nat
  PROVE  /\ Firsts(f, 0) = <<>>
         /\ d <= Len(f) => Firsts(f, d) \in Seq(S)
         /\ d + 1 <= Len(f) => Firsts(f, d + 1) = Firsts(f, d) \o f[d + 1]
<1> DEFINE F(n) == [i \in 1 .. n |-> f[i]]
<1>1. \A i \in 1 .. Len(f) : f[i] \in Seq(S)
  BY ElementOfSeq
<1>2. ASSUME NEW n \in Nat, n <= Len(f)
      PROVE  F(n) \in Seq(Seq(S)) /\ Len(F(n)) = n
  <2>1. \A i \in 1 .. n : i \in 1 .. Len(f)
    BY <1>2, LenProperties
  <2> QED
    BY <1>1, <2>1
<1>3. F(0) = <<>>
  <2>1. F(0) \in Seq(Seq(S)) /\ Len(F(0)) = 0
    BY <1>2, LenProperties
  <2> QED
    BY <2>1, EmptySeq
<1>4. Firsts(f, 0) = <<>>
  BY <1>3, FlattenEmpty DEF Firsts
<1>5. ASSUME d <= Len(f) PROVE Firsts(f, d) \in Seq(S)
  <2>1. F(d) \in Seq(Seq(S)) /\ <<>> \in Seq(S)
    BY <1>2, <1>5, EmptySeq
  <2> HIDE DEF F
  <2>2. FlattenSeq(F(d)) \in Seq(S)
    BY <2>1, FlattenAppend
  <2> QED
    BY <2>2 DEF Firsts, F
<1>6. ASSUME d + 1 <= Len(f)
      PROVE  Firsts(f, d + 1) = Firsts(f, d) \o f[d + 1]
  <2> DEFINE more == f[d + 1]
  <2>1. d + 1 \in 1 .. Len(f) /\ d <= Len(f) /\ d + 1 \in Nat
    BY <1>6, LenProperties
  <2>2. F(d) \in Seq(Seq(S)) /\ Len(F(d)) = d /\ more \in Seq(S)
    BY <1>1, <1>2, <2>1
  <2>3. F(d + 1) \in Seq(Seq(S)) /\ Len(F(d + 1)) = d + 1
    BY <1>2, <1>6, <2>1
  <2>4. (\A i \in 1 .. d : F(d)[i] = f[i]) /\ (\A i \in 1 .. d + 1 : F(d + 1)[i] = f[i])
    OBVIOUS
  <2>5. F(d + 1) = Append(F(d), more)
    <3> HIDE DEF F
    <3>1. PICK g : g = Append(F(d), more)
      OBVIOUS
    <3>2. /\ g \in Seq(Seq(S)) /\ Len(g) = d + 1 /\ g[d + 1] = more
          /\ \A i \in 1 .. d : g[i] = F(d)[i]
      BY <2>2, <3>1, AppendProperties
    <3>3. ASSUME NEW i \in 1 .. d + 1 PROVE g[i] = F(d + 1)[i]
      <4>1. CASE i = d + 1
        BY <2>4, <3>2, <4>1
      <4>2. CASE i # d + 1
        <5>1. i \in 1 .. d
          BY <4>2
        <5> QED
          BY <2>4, <3>2, <5>1
      <4> QED
        BY <4>1, <4>2
    <3>4. Len(g) = Len(F(d + 1)) /\ \A i \in 1 .. Len(g) : g[i] = F(d + 1)[i]
      BY <2>3, <3>2, <3>3
    <3>5. g = F(d + 1)
      BY <2>3, <3>2, <3>4, SeqEqual
    <3> QED
      BY <3>1, <3>5
  <2> HIDE DEF F, more
  <2>6. FlattenSeq(F(d + 1)) = FlattenSeq(F(d)) \o more
    BY <2>2, <2>5, FlattenAppend
  <2> QED
    BY <2>6 DEF Firsts, F, more
<1> QED
  BY <1>4, <1>5, <1>6

(* More of the lists begin with the first of them. *)
LEMMA FirstsBetween ==
  ASSUME NEW S, NEW f \in Seq(Seq(S)), NEW k \in 0 .. Len(f), NEW d \in 0 .. k
  PROVE  \E t \in Seq(S) : Firsts(f, k) = Firsts(f, d) \o t
<1> DEFINE Begins(m) ==
             d + m <= Len(f) => \E t \in Seq(S) : Firsts(f, d + m) = Firsts(f, d) \o t
           T == {m \in Nat : Begins(m)}
<1>0. Len(f) \in Nat /\ d \in Nat /\ k \in Nat /\ d <= k /\ k <= Len(f) /\ d <= Len(f)
  <2>1. PICK l \in Nat : l = Len(f)
    BY LenProperties
  <2>2. k \in 0 .. l
    BY <2>1
  <2>3. k \in Nat /\ k <= l
    BY <2>2
  <2> QED
    BY <2>1, <2>3
<1>1. 0 \in T
  <2>1. Firsts(f, d) \in Seq(S) /\ <<>> \in Seq(S) /\ d + 0 = d
    BY <1>0, FirstsStep, EmptySeq
  <2>2. Firsts(f, d) \o <<>> = Firsts(f, d)
    BY <2>1, ConcatEmptySeq
  <2> QED
    BY <2>1, <2>2
<1>2. ASSUME NEW m \in Nat, m \in T PROVE m + 1 \in T
  <2>0. Begins(m)
    BY <1>2
  <2> SUFFICES Begins(m + 1)
    <3> HIDE DEF Begins
    <3> QED
      OBVIOUS
  <2> SUFFICES ASSUME d + (m + 1) <= Len(f)
               PROVE  \E t \in Seq(S) : Firsts(f, d + (m + 1)) = Firsts(f, d) \o t
    OBVIOUS
  <2>1. PICK n \in Nat : n = d + m
    BY <1>0
  <2>2. n + 1 = d + (m + 1) /\ n + 1 <= Len(f) /\ d + m <= Len(f)
    BY <1>0, <2>1
  <2>3. PICK t \in Seq(S) : Firsts(f, n) = Firsts(f, d) \o t
    BY <2>0, <2>1, <2>2
  <2>4. Firsts(f, n + 1) = Firsts(f, n) \o f[n + 1]
    BY <2>2, FirstsStep
  <2>5. f[n + 1] \in Seq(S)
    <3>1. n + 1 \in 1 .. Len(f)
      BY <1>0, <2>2
    <3> QED
      BY <3>1, ElementOfSeq
  <2>6. Firsts(f, d) \in Seq(S)
    BY <1>0, FirstsStep
  <2>7. PICK v \in Seq(S) : v = f[n + 1]
    BY <2>5
  <2>8. (Firsts(f, d) \o t) \o v = Firsts(f, d) \o (t \o v) /\ t \o v \in Seq(S)
    <3>1. PICK w \in Seq(S) : w = Firsts(f, d)
      BY <2>6
    <3>2. (w \o t) \o v = w \o (t \o v) /\ t \o v \in Seq(S)
      BY ConcatAssociative, ConcatProperties, SMTT(30)
    <3> QED
      BY <3>1, <3>2
  <2> QED
    BY <2>2, <2>3, <2>4, <2>7, <2>8
<1> HIDE DEF T
<1>3. Nat \subseteq T
  BY <1>1, <1>2, Induction
<1>4. PICK m \in Nat : d + m = k
  <2>1. k - d \in Nat /\ d + (k - d) = k
    BY <1>0
  <2> QED
    BY <2>1
<1>5. m \in T /\ d + m <= Len(f)
  BY <1>0, <1>3, <1>4
<1> QED
  BY <1>4, <1>5 DEF T

(* All of the lists begin with the first of them. *)
LEMMA FirstsPrefix ==
  ASSUME NEW S, NEW f \in Seq(Seq(S)), NEW d \in 0 .. Len(f)
  PROVE  /\ Firsts(f, Len(f)) = FlattenSeq(f)
         /\ \E t \in Seq(S) : Firsts(f, Len(f)) = Firsts(f, d) \o t
<1>1. Len(f) \in 0 .. Len(f)
  BY LenProperties
<1>2. [i \in 1 .. Len(f) |-> f[i]] = f
  OBVIOUS
<1>3. Firsts(f, Len(f)) = FlattenSeq(f)
  BY <1>2 DEF Firsts
<1> QED
  BY <1>1, <1>3, FirstsBetween

(* The first of the lists comes before all the others. *)
LEMMA FlattenHead ==
  ASSUME NEW S, NEW s \in Seq(Seq(S)), s # <<>>
  PROVE  /\ FlattenSeq(s) = Head(s) \o FlattenSeq(Tail(s))
         /\ Head(s) \in Seq(S) /\ FlattenSeq(Tail(s)) \in Seq(S)
<1> DEFINE Parts(n) == \A e \in Seq(S), t \in Seq(Seq(S)) :
             Len(t) = n => FlattenSeq(<<e>> \o t) = e \o FlattenSeq(t)
           T == {n \in Nat : Parts(n)}
<1>1. 0 \in T
  <2> SUFFICES ASSUME NEW e \in Seq(S), NEW t \in Seq(Seq(S)), Len(t) = 0
               PROVE  FlattenSeq(<<e>> \o t) = e \o FlattenSeq(t)
    OBVIOUS
  <2>1. t = <<>> /\ <<>> \in Seq(S) /\ <<>> \in Seq(Seq(S))
    BY EmptySeq
  <2>2. <<e>> \o t = <<e>> /\ Append(<<>>, e) = <<e>>
    BY <2>1
  <2>3. FlattenSeq(Append(<<>>, e)) = <<>> \o e
    BY <2>1, FlattenAppend, FlattenEmpty
  <2>4. <<>> \o e = e /\ e \o <<>> = e
    BY ConcatEmptySeq
  <2> QED
    BY <2>1, <2>2, <2>3, <2>4, FlattenEmpty
<1>2. ASSUME NEW n \in Nat, n \in T PROVE n + 1 \in T
  <2>0. Parts(n)
    BY <1>2
  <2> SUFFICES Parts(n + 1)
    <3> HIDE DEF Parts
    <3> QED
      OBVIOUS
  <2> SUFFICES ASSUME NEW e \in Seq(S), NEW t \in Seq(Seq(S)), Len(t) = n + 1
               PROVE  FlattenSeq(<<e>> \o t) = e \o FlattenSeq(t)
    OBVIOUS
  <2>1. PICK u \in Seq(Seq(S)), v \in Seq(S) : Len(u) = n /\ t = Append(u, v)
    <3> DEFINE u == SubSeq(t, 1, n)
    <3>1. /\ u \in Seq(Seq(S)) /\ Len(u) = n /\ \A i \in 1 .. n : u[i] = t[i]
          /\ t[n + 1] \in Seq(S)
      BY SubSeqProperties, ElementOfSeq
    <3> HIDE DEF u
    <3>2. /\ Append(u, t[n + 1]) \in Seq(Seq(S)) /\ Len(Append(u, t[n + 1])) = n + 1
          /\ Append(u, t[n + 1])[n + 1] = t[n + 1]
          /\ \A i \in 1 .. n : Append(u, t[n + 1])[i] = u[i]
      BY <3>1, AppendProperties
    <3>3. \A i \in 1 .. n + 1 : i = n + 1 \/ i \in 1 .. n
      OBVIOUS
    <3>4. \A i \in 1 .. n + 1 : Append(u, t[n + 1])[i] = t[i]
      BY <3>1, <3>2, <3>3
    <3>5. Append(u, t[n + 1]) = t
      BY <3>2, <3>4, SeqEqual
    <3> QED
      BY <3>1, <3>5
  <2>2. <<e>> \o t = Append(<<e>> \o u, v) /\ <<e>> \o u \in Seq(Seq(S))
    BY <2>1
  <2>3. FlattenSeq(<<e>> \o t) = FlattenSeq(<<e>> \o u) \o v
    BY <2>2, FlattenAppend
  <2>4. FlattenSeq(t) = FlattenSeq(u) \o v /\ FlattenSeq(u) \in Seq(S)
    BY <2>1, FlattenAppend
  <2>5. FlattenSeq(<<e>> \o u) = e \o FlattenSeq(u)
    BY <2>0, <2>1
  <2>6. (e \o FlattenSeq(u)) \o v = e \o (FlattenSeq(u) \o v)
    <3>1. \A a, b, c \in Seq(S) : (a \o b) \o c = a \o (b \o c)
      <4> TAKE a, b, c \in Seq(S)
      <4> QED
        BY ONLY a \in Seq(S), b \in Seq(S), c \in Seq(S), ConcatAssociative, SMTT(60)
    <3> QED
      BY <2>4, <3>1
  <2> QED
    BY <2>3, <2>4, <2>5, <2>6
<1> HIDE DEF T
<1>3. Nat \subseteq T
  BY <1>1, <1>2, Induction
<1>4. PICK e \in Seq(S), t \in Seq(Seq(S)) : e = Head(s) /\ t = Tail(s) /\ s = <<e>> \o t
  <2>1. Head(s) \in Seq(S) /\ Tail(s) \in Seq(Seq(S)) /\ s = <<Head(s)>> \o Tail(s)
    BY HeadTailProperties
  <2> QED
    BY <2>1
<1>5. Len(t) \in Nat
  BY LenProperties
<1>6. FlattenSeq(<<e>> \o t) = e \o FlattenSeq(t)
  BY <1>3, <1>5 DEF T
<1>7. FlattenSeq(t) \in Seq(S)
  BY EmptySeq, FlattenAppend
<1> QED
  BY <1>4, <1>6, <1>7

(* The same lists give the same. *)
LEMMA FirstsSame ==
  ASSUME NEW f, NEW g, NEW d, \A i \in 1 .. d : f[i] = g[i]
  PROVE  Firsts(f, d) = Firsts(g, d)
<1>1. [i \in 1 .. d |-> f[i]] = [i \in 1 .. d |-> g[i]]
  OBVIOUS
<1> QED
  BY <1>1 DEF Firsts
=============================================================================
