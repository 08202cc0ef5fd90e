----------------------------- MODULE SequenceLemmas -----------------------------
(***************************************************************************)
(* What the proofs about several of the components need: induction over    *)
(* numbers, and what a sequence of sequences is when it is made into one.  *)
(***************************************************************************)
EXTENDS Integers, Sequences, SequencesExt, SequenceTheorems, WellFoundedInduction, TLAPS

--------------------------------------------------------------------------------
(* Induction.  The library's theorems of induction take an operator; these take   *)
(* the set of numbers that have the property.                                     *)

\* A set of numbers that is not empty has a least one.
LEMMA LeastNumber ==
  ASSUME NEW T, T \subseteq Nat, T # {}
  PROVE  \E n \in T : \A m \in T : n <= m
<1> DEFINE R == OpToRel(<, Nat)
<1>1. IsWellFoundedOn(R, Nat)
  BY NatLessThanWellFounded
<1>2. \A x, y \in Nat : <<y, x>> \in R <=> y < x
  BY DEF OpToRel
<1> HIDE DEF R
<1>3. PICK n \in T : \A y \in T : ~(<<y, n>> \in R)
  BY <1>1, WFMin, Zenon
<1>4. ASSUME NEW m \in T PROVE n <= m
  <2>1. n \in Nat /\ m \in Nat
    OBVIOUS
  <2>2. ~(m < n)
    BY <1>2, <1>3, <2>1
  <2> QED BY <2>1, <2>2
<1> QED BY <1>4

\* What holds at 0, and after each number below b that it holds at, holds up to b.
LEMMA UpTo ==
  ASSUME NEW b \in Nat, NEW S,
         0 \in S, \A n \in 0 .. b - 1 : n \in S => n + 1 \in S
  PROVE  0 .. b \subseteq S
<1> SUFFICES ASSUME (0 .. b) \ S # {} PROVE FALSE
  OBVIOUS
<1>1. PICK n \in (0 .. b) \ S : \A m \in (0 .. b) \ S : n <= m
  <2>1. (0 .. b) \ S \subseteq Nat
    OBVIOUS
  <2> QED BY <2>1, LeastNumber, Zenon
<1>2. n # 0 /\ n \in 1 .. b
  OBVIOUS
<1>3. n - 1 \in 0 .. b /\ n - 1 \in 0 .. b - 1 /\ ~(n <= n - 1) /\ (n - 1) + 1 = n
  BY <1>2
<1>4. n - 1 \in S
  BY <1>1, <1>3
<1> QED BY <1>3, <1>4

--------------------------------------------------------------------------------
(* A sequence of sequences, made into one. *)

Flatten(f, ss) ==
  f = [i \in 1 .. Len(ss) |-> IF i = 1 THEN ss[i] ELSE f[i - 1] \o ss[i]]

\* The first n of them.
FlattensTo(f, ss, n) ==
  \A i \in 1 .. n : f[i] = IF i = 1 THEN ss[i] ELSE f[i - 1] \o ss[i]

LEMMA FlattenExists ==
  ASSUME NEW ss, Len(ss) \in Nat
  PROVE  \E f : Flatten(f, ss)
<1> DEFINE S == {n \in 0 .. Len(ss) : \E f : FlattensTo(f, ss, n)}
<1>1. 0 \in S
  BY DEF FlattensTo
<1>2. ASSUME NEW n \in 0 .. Len(ss) - 1, n \in S PROVE n + 1 \in S
  <2>1. PICK f : FlattensTo(f, ss, n)
    BY <1>2
  <2>2. PICK g : g = [i \in 1 .. n + 1 |-> IF i <= n THEN f[i] ELSE
                                           IF i = 1 THEN ss[i] ELSE f[i - 1] \o ss[i]]
    OBVIOUS
  <2>3. ASSUME NEW i \in 1 .. n + 1
        PROVE  g[i] = IF i = 1 THEN ss[i] ELSE g[i - 1] \o ss[i]
    <3>1. CASE i <= n
      <4>1. i \in 1 .. n /\ g[i] = f[i]
        BY <2>2, <3>1
      <4>2. i # 1 => g[i - 1] = f[i - 1]
        <5>1. i # 1 => i - 1 \in 1 .. n + 1 /\ i - 1 <= n
          BY <3>1
        <5> QED BY <2>2, <5>1
      <4> QED BY <2>1, <4>1, <4>2 DEF FlattensTo
    <3>2. CASE ~(i <= n)
      <4>1. i # 1 => i - 1 \in 1 .. n + 1 /\ i - 1 <= n
        BY <3>2
      <4>2. i # 1 => g[i - 1] = f[i - 1]
        BY <2>2, <4>1
      <4> QED BY <2>2, <3>2, <4>2
    <3> QED BY <3>1, <3>2
  <2>4. FlattensTo(g, ss, n + 1)
    BY <2>3 DEF FlattensTo
  <2> QED BY <2>4
<1>3. Len(ss) \in S
  <2> HIDE DEF S
  <2>1. \A n \in 0 .. Len(ss) - 1 : n \in S => n + 1 \in S
    BY <1>2
  <2>2. 0 .. Len(ss) \subseteq S
    BY <1>1, <2>1, UpTo, Zenon
  <2> QED BY <2>2
<1>4. PICK f : FlattensTo(f, ss, Len(ss))
  BY <1>3
<1>5. PICK g : g = [i \in 1 .. Len(ss) |-> f[i]]
  OBVIOUS
<1>6. ASSUME NEW i \in 1 .. Len(ss)
      PROVE  g[i] = IF i = 1 THEN ss[i] ELSE g[i - 1] \o ss[i]
  <2>1. i # 1 => i - 1 \in 1 .. Len(ss)
    OBVIOUS
  <2> QED BY <1>4, <1>5, <2>1 DEF FlattensTo
<1> DEFINE step(i) == IF i = 1 THEN ss[i] ELSE g[i - 1] \o ss[i]
<1>7. g = [i \in 1 .. Len(ss) |-> step(i)]
  <2> HIDE DEF step
  <2>1. \A i \in 1 .. Len(ss) : g[i] = step(i)
    BY <1>6 DEF step
  <2> QED BY <1>5, <2>1
<1> QED BY <1>7 DEF Flatten

\* p begins s.
Begins(p, s) == Len(p) <= Len(s) /\ \A j \in 1 .. Len(p) : s[j] = p[j]

\* What the parts of a flattened sequence are in it.
LEMMA Flattened ==
  ASSUME NEW T, NEW ss \in Seq(Seq(T)), Len(ss) > 0
  PROVE  \E f :
           /\ FlattenSeq(ss) = f[Len(ss)]
           /\ f[1] = ss[1]
           /\ \A i \in 1 .. Len(ss) :
                f[i] \in Seq(T) /\ (i # 1 => f[i] = f[i - 1] \o ss[i])
                /\ Begins(f[i], f[Len(ss)])
<1>1. PICK k : k = Len(ss) /\ k \in Nat /\ k > 0
  <2>1. Len(ss) \in Nat
    OBVIOUS
  <2> QED BY <2>1
<1>2. PICK f :
        f = CHOOSE g : g = [i \in 1 .. Len(ss) |->
                              IF i = 1 THEN ss[i] ELSE g[i - 1] \o ss[i]]
  OBVIOUS
<1>3. Flatten(f, ss)
  <2>1. \E g : g = [i \in 1 .. Len(ss) |-> IF i = 1 THEN ss[i] ELSE g[i - 1] \o ss[i]]
    BY <1>1, FlattenExists, Zenon DEF Flatten
  <2> QED BY <1>2, <2>1, Zenon DEF Flatten
<1>4. FlattenSeq(ss) = f[Len(ss)]
  <2>1. Len(ss) # 0
    BY <1>1
  <2> QED BY <1>2, <2>1, Zenon DEF FlattenSeq
<1>5. \A i \in 1 .. k : f[i] = IF i = 1 THEN ss[i] ELSE f[i - 1] \o ss[i]
  <2> DEFINE step(i) == IF i = 1 THEN ss[i] ELSE f[i - 1] \o ss[i]
  <2>1. f = [i \in 1 .. k |-> step(i)]
    BY <1>1, <1>3 DEF Flatten
  <2> HIDE DEF step
  <2>2. \A i \in 1 .. k : f[i] = step(i)
    BY <2>1
  <2> QED BY <2>2 DEF step
<1>6. \A i \in 1 .. k : ss[i] \in Seq(T)
  BY <1>1
<1> DEFINE S == {n \in 0 .. k - 1 : f[n + 1] \in Seq(T)
                   /\ \A i \in 1 .. n + 1 : f[i] \in Seq(T) /\ Begins(f[i], f[n + 1])}
<1>7. 0 \in S
  <2>1. f[1] = ss[1] /\ f[1] \in Seq(T) /\ 0 + 1 = 1
    BY <1>1, <1>5, <1>6
  <2>2. Begins(f[1], f[1])
    BY <2>1 DEF Begins
  <2>3. \A i \in 1 .. 1 : i = 1
    OBVIOUS
  <2> QED BY <1>1, <2>1, <2>2, <2>3
<1>8. ASSUME NEW n \in 0 .. k - 2, n \in S PROVE n + 1 \in S
  <2>1. PICK m : m = n + 1 /\ m \in 1 .. k /\ m + 1 \in 1 .. k /\ m + 1 # 1 /\ (m + 1) - 1 = m
                 /\ n + 1 \in 0 .. k - 1 /\ n + 1 + 1 = m + 1
    BY <1>1
  <2>2. PICK a, b, c : a = f[m] /\ b = ss[m + 1] /\ c = f[m + 1]
    OBVIOUS
  <2>3. c = a \o b
    BY <1>5, <2>1, <2>2
  <2>4. a \in Seq(T) /\ b \in Seq(T)
    BY <1>6, <1>8, <2>1, <2>2
  <2>5. c \in Seq(T) /\ Len(c) = Len(a) + Len(b) /\ Len(a) \in Nat /\ Len(b) \in Nat
        /\ \A j \in 1 .. Len(a) : c[j] = a[j]
    BY <2>3, <2>4
  <2>6. ASSUME NEW i \in 1 .. m PROVE f[i] \in Seq(T) /\ Begins(f[i], c)
    <3>1. f[i] \in Seq(T) /\ Begins(f[i], a)
      BY <1>8, <2>1, <2>2
    <3>2. PICK p : p = f[i]
      OBVIOUS
    <3>3. Len(p) \in Nat /\ Len(p) <= Len(a) /\ \A j \in 1 .. Len(p) : a[j] = p[j]
      BY <3>1, <3>2 DEF Begins
    <3>4. Begins(p, c)
      BY <2>5, <3>3 DEF Begins
    <3> QED BY <3>1, <3>2, <3>4
  <2>7. Begins(c, c)
    BY <2>5 DEF Begins
  <2>8. \A i \in 1 .. m + 1 : i \in 1 .. m \/ i = m + 1
    BY <2>1
  <2> QED BY <2>1, <2>2, <2>5, <2>6, <2>7, <2>8
<1>9. 0 .. k - 1 \subseteq S
  <2> HIDE DEF S
  <2>1. k - 1 \in Nat /\ 0 .. (k - 1) - 1 = 0 .. k - 2
    BY <1>1
  <2> QED BY <1>7, <1>8, <2>1, UpTo
<1>10. \A i \in 1 .. k : f[i] \in Seq(T) /\ Begins(f[i], f[k])
  <2>1. \A i \in 1 .. k : i - 1 \in 0 .. k - 1 /\ (i - 1) + 1 = i /\ k \in 1 .. k
    BY <1>1
  <2>2. \A i \in 1 .. k : i - 1 \in S
    <3> HIDE DEF S
    <3> QED BY <1>9, <2>1
  <2>3. \A i \in 1 .. k : f[i] \in Seq(T)
    BY <2>1, <2>2
  <2>4. k - 1 \in S
    <3> HIDE DEF S
    <3>1. k \in 1 .. k
      BY <1>1
    <3> QED BY <2>2, <3>1
  <2>5. \A i \in 1 .. k : Begins(f[i], f[k])
    BY <2>1, <2>4
  <2> QED BY <2>3, <2>5
<1>11. f[1] = ss[1] /\ \A i \in 1 .. k : i # 1 => f[i] = f[i - 1] \o ss[i]
  <2>1. 1 \in 1 .. k
    BY <1>1
  <2> QED BY <1>5, <2>1
<1> HIDE DEF S
<1>12. /\ FlattenSeq(ss) = f[k]
       /\ f[1] = ss[1]
       /\ \A i \in 1 .. k :
            f[i] \in Seq(T) /\ (i # 1 => f[i] = f[i - 1] \o ss[i]) /\ Begins(f[i], f[k])
  BY <1>1, <1>4, <1>10, <1>11
<1>13. k = Len(ss)
  BY <1>1
<1> QED BY <1>12, <1>13, Zenon

\* Putting texts together, for steps about several of them.
Cat(a, b) == a \o b

LEMMA CatAssociative ==
  ASSUME NEW T
  PROVE  \A a, b, c \in Seq(T) : Cat(Cat(a, b), c) = Cat(a, Cat(b, c))
<1>1. ASSUME NEW a \in Seq(T), NEW b \in Seq(T), NEW c \in Seq(T)
      PROVE  (a \o b) \o c = a \o (b \o c)
  BY ConcatAssociative
<1> QED BY <1>1 DEF Cat

\* Each part of a flattened sequence is followed by the ones after it.
LEMMA FlattenedTails ==
  ASSUME NEW T, NEW ss \in Seq(Seq(T))
  PROVE  \E g \in [0 .. Len(ss) -> Seq(T)] :
           /\ g[Len(ss)] = << >> /\ FlattenSeq(ss) = g[0]
           /\ \A i \in 1 .. Len(ss) : g[i - 1] = ss[i] \o g[i]
<1>1. PICK k : k = Len(ss) /\ k \in Nat
  OBVIOUS
<1>2. CASE k = 0
  <2>1. ss = << >>
    BY <1>1, <1>2, EmptySeq
  <2>2. FlattenSeq(ss) = << >>
    BY <2>1 DEF FlattenSeq
  <2>3. PICK g : g = [i \in 0 .. 0 |-> << >>]
    OBVIOUS
  <2>4. << >> \in Seq(T)
    OBVIOUS
  <2>5. g \in [0 .. k -> Seq(T)] /\ g[0] = << >> /\ 1 .. k = {}
    BY <1>2, <2>3, <2>4
  <2> QED BY <1>1, <1>2, <2>2, <2>5
<1>3. CASE k # 0
  <2>1. PICK f :
          /\ FlattenSeq(ss) = f[Len(ss)]
          /\ f[1] = ss[1]
          /\ \A i \in 1 .. Len(ss) :
               f[i] \in Seq(T) /\ (i # 1 => f[i] = f[i - 1] \o ss[i])
               /\ Begins(f[i], f[Len(ss)])
    <3>1. Len(ss) > 0
      BY <1>1, <1>3
    <3> QED BY <3>1, Flattened
  <2>2. PICK flat : flat = FlattenSeq(ss)
    OBVIOUS
  <2>3. /\ flat = f[k] /\ f[1] = ss[1]
        /\ \A i \in 1 .. k : /\ f[i] \in Seq(T) /\ (i # 1 => f[i] = f[i - 1] \o ss[i])
                             /\ Begins(f[i], flat)
    BY <1>1, <2>1, <2>2
  <2>4. flat \in Seq(T)
    <3>1. k \in 1 .. k
      BY <1>1, <1>3
    <3> QED BY <2>3, <3>1
  <2>5. PICK l : l = Len(flat) /\ l \in Nat
    BY <2>4
  <2>6. PICK g : g = [i \in 0 .. k |-> IF i = 0 THEN flat ELSE SubSeq(flat, Len(f[i]) + 1, l)]
    OBVIOUS
  <2>7. g[0] = flat /\ \A i \in 1 .. k : g[i] = SubSeq(flat, Len(f[i]) + 1, l)
    <3>1. 0 \in 0 .. k /\ \A i \in 1 .. k : i \in 0 .. k /\ i # 0
      BY <1>1
    <3> QED BY <2>6, <3>1
  <2>8. ASSUME NEW i \in 1 .. k
        PROVE  g[i] \in Seq(T) /\ flat = f[i] \o g[i]
    <3>1. PICK n : n = Len(f[i]) /\ n \in Nat /\ n <= l
      <4>1. f[i] \in Seq(T) /\ Begins(f[i], flat)
        BY <2>3
      <4>2. Len(f[i]) \in Nat
        BY <4>1
      <4> QED BY <2>5, <4>1, <4>2 DEF Begins
    <3>2. SubSeq(flat, 1, n) \o SubSeq(flat, n + 1, l) = SubSeq(flat, 1, l)
      <4>1. 1 \in 1 .. Len(flat) + 1 /\ n \in 1 - 1 .. Len(flat) /\ l \in n .. Len(flat)
        BY <2>5, <3>1
      <4> QED BY <2>4, <4>1, ConcatAdjacentSubSeq
    <3>3. SubSeq(flat, 1, l) = flat
      BY <2>4, <2>5, SubSeqFull
    <3>4. SubSeq(flat, 1, n) = f[i]
      <4>1. \A j \in 1 .. n : flat[j] = f[i][j]
        BY <2>3, <3>1 DEF Begins
      <4>2. PICK s : s = SubSeq(flat, 1, n)
        OBVIOUS
      <4>3. s \in Seq(T) /\ Len(s) = n /\ \A j \in 1 .. n : s[j] = flat[j]
        BY <2>4, <2>5, <3>1, <4>2
      <4>4. \A j \in 1 .. Len(s) : s[j] = f[i][j]
        BY <4>1, <4>3
      <4>5. f[i] \in Seq(T)
        BY <2>3
      <4> QED BY <3>1, <4>2, <4>3, <4>4, <4>5, SeqEqual
    <3>5. SubSeq(flat, n + 1, l) \in Seq(T)
      <4>1. \A j \in n + 1 .. l : flat[j] \in T
        BY <2>4, <2>5, <3>1
      <4> QED BY <2>5, <3>1, <4>1, SubSeqProperties
    <3> QED BY <2>7, <3>1, <3>2, <3>3, <3>4, <3>5
  <2>9. g \in [0 .. k -> Seq(T)]
    <3>1. \A i \in 0 .. k : g[i] \in Seq(T)
      <4>1. \A i \in 0 .. k : i = 0 \/ i \in 1 .. k
        BY <1>1
      <4> QED BY <2>4, <2>7, <2>8, <4>1
    <3> QED BY <2>6, <3>1
  <2>10. g[k] = << >>
    <3>1. k \in 1 .. k
      BY <1>1, <1>3
    <3>2. g[k] = SubSeq(flat, l + 1, l)
      BY <2>3, <2>5, <2>7, <3>1
    <3> QED BY <2>5, <3>2, SubSeqEmpty
  <2>11. ASSUME NEW i \in 1 .. k PROVE g[i - 1] = ss[i] \o g[i]
    <3>1. PICK a, b, c, d, e : a = f[i - 1] /\ b = ss[i] /\ c = g[i] /\ d = g[i - 1] /\ e = f[i]
      OBVIOUS
    <3>2. b \in Seq(T)
      <4>1. i \in 1 .. Len(ss)
        BY <1>1
      <4> QED BY <3>1, <4>1, ElementOfSeq
    <3>3. c \in Seq(T) /\ flat = e \o c
      BY <2>8, <3>1
    <3>4. CASE i = 1
      <4>1. i - 1 = 0
        BY <3>4
      <4>2. e = b
        BY <2>3, <3>1, <3>4
      <4>3. d = flat
        BY <2>7, <3>1, <4>1
      <4> QED BY <3>1, <3>3, <4>2, <4>3
    <3>5. CASE i # 1
      <4>1. i - 1 \in 1 .. k
        BY <1>1, <3>5
      <4>2. a \in Seq(T)
        BY <2>3, <3>1, <4>1
      <4>3. d \in Seq(T) /\ flat = a \o d
        BY <2>8, <3>1, <4>1
      <4>4. e = a \o b
        BY <2>3, <3>1, <3>5
      <4>5. (a \o b) \o c = a \o (b \o c)
        <5>1. a \in Seq(T) /\ b \in Seq(T) /\ c \in Seq(T)
          BY <3>2, <3>3, <4>2
        <5>2. Cat(Cat(a, b), c) = Cat(a, Cat(b, c))
          BY <5>1, CatAssociative
        <5> QED BY <5>2, Zenon DEF Cat
      <4>6. PICK v : v = b \o c
        OBVIOUS
      <4>7. v \in Seq(T)
        BY <3>2, <3>3, <4>6, ConcatProperties
      <4>8. a \o d = a \o v
        BY <3>3, <4>3, <4>4, <4>5, <4>6
      <4>9. d = v
        BY <4>2, <4>3, <4>7, <4>8, ConcatSimplifications, Zenon
      <4> QED BY <3>1, <4>6, <4>9
    <3> QED BY <3>4, <3>5
  <2> QED BY <1>1, <2>2, <2>7, <2>9, <2>10, <2>11
<1> QED BY <1>2, <1>3

\* Where the parts of a flattened sequence lie in it: e[i] elements are before the end
\* of the i-th.
LiesAt(flat, ss, n, e) ==
  /\ e \in [0 .. n -> Nat] /\ e[0] = 0 /\ e[n] = Len(flat)
  /\ \A i \in 0 .. n : e[i] <= Len(flat)
  /\ \A i \in 1 .. n : /\ e[i] = e[i - 1] + Len(ss[i])
                       /\ \A j \in 1 .. Len(ss[i]) : flat[e[i - 1] + j] = ss[i][j]

LEMMA FlattenedLies ==
  ASSUME NEW T, NEW ss \in Seq(Seq(T)), NEW n \in Nat, n = Len(ss),
         NEW flat, flat = FlattenSeq(ss)
  PROVE  flat \in Seq(T) /\ \E e : LiesAt(flat, ss, n, e)
<1>1. PICK g \in [0 .. n -> Seq(T)] :
        /\ g[n] = << >> /\ flat = g[0]
        /\ \A i \in 1 .. n : g[i - 1] = ss[i] \o g[i]
  <2>1. PICK g \in [0 .. Len(ss) -> Seq(T)] :
          /\ g[Len(ss)] = << >> /\ FlattenSeq(ss) = g[0]
          /\ \A i \in 1 .. Len(ss) : g[i - 1] = ss[i] \o g[i]
    BY FlattenedTails, Zenon
  <2> QED BY <2>1
<1>2. PICK l \in Nat : l = Len(flat) /\ flat \in Seq(T)
  <2>1. flat \in Seq(T)
    BY <1>1
  <2> QED BY <2>1
<1>3. PICK w : w = [i \in 1 .. n |-> Len(ss[i])]
  OBVIOUS
<1>4. PICK v : v = [i \in 0 .. n |-> Len(g[i])]
  OBVIOUS
<1>5. /\ \A i \in 1 .. n : w[i] \in Nat /\ w[i] = Len(ss[i])
      /\ \A i \in 0 .. n : v[i] \in Nat /\ v[i] = Len(g[i])
  BY <1>3, <1>4
<1>6. ASSUME NEW i \in 1 .. n
      PROVE  /\ v[i - 1] = w[i] + v[i]
             /\ \A j \in 1 .. w[i] : g[i - 1][j] = ss[i][j]
             /\ \A j \in 1 .. v[i] : g[i - 1][w[i] + j] = g[i][j]
  <2>1. i \in 0 .. n /\ i - 1 \in 0 .. n
    OBVIOUS
  <2>2. PICK a \in Seq(T), b \in Seq(T) : a = ss[i] /\ b = g[i]
    <3>1. ss[i] \in Seq(T) /\ g[i] \in Seq(T)
      BY <2>1
    <3> QED BY <3>1
  <2>3. g[i - 1] = a \o b
    BY <1>1, <2>2
  <2>4. /\ Len(a) \in Nat /\ Len(b) \in Nat /\ Len(a \o b) = Len(a) + Len(b)
        /\ \A j \in 1 .. Len(a) : (a \o b)[j] = a[j]
        /\ \A j \in 1 .. Len(b) : (a \o b)[Len(a) + j] = b[j]
    OBVIOUS
  <2>5. w[i] = Len(a) /\ v[i] = Len(b) /\ v[i - 1] = Len(a \o b)
    BY <1>5, <2>1, <2>2, <2>3
  <2> QED BY <2>2, <2>3, <2>4, <2>5
<1> DEFINE e == [i \in 0 .. n |-> l - v[i]]
           S == {i \in 0 .. n : v[i] <= l /\ \A j \in 1 .. v[i] : flat[e[i] + j] = g[i][j]}
<1>14. \A i \in 0 .. n : e[i] = l - v[i]
  OBVIOUS
<1> HIDE DEF e
<1>15. 0 \in S
  <2>1. v[0] = l /\ e[0] = 0
    BY <1>1, <1>2, <1>5, <1>14
  <2>2. \A j \in 1 .. l : 0 + j = j
    OBVIOUS
  <2> QED BY <1>1, <2>1, <2>2
<1>16. ASSUME NEW i \in 0 .. n - 1, i \in S PROVE i + 1 \in S
  <2>1. i + 1 \in 1 .. n /\ (i + 1) - 1 = i /\ i + 1 \in 0 .. n /\ i \in 0 .. n
    OBVIOUS
  <2>2. PICK m \in 1 .. n : m = i + 1 /\ m - 1 = i /\ m \in 0 .. n
    BY <2>1
  <2>3. PICK a \in Nat, b \in Nat : a = w[m] /\ b = v[m]
    BY <1>5, <2>2
  <2>4. v[i] = a + b /\ \A j \in 1 .. b : g[i][a + j] = g[m][j]
    BY <1>6, <2>2, <2>3
  <2>5. e[m] = l - b /\ e[i] = l - (a + b)
    BY <1>14, <2>1, <2>2, <2>3, <2>4
  <2>6. a + b <= l /\ \A j \in 1 .. a + b : flat[e[i] + j] = g[i][j]
    BY <1>16, <2>4
  <2>7. ASSUME NEW j \in 1 .. b PROVE flat[e[m] + j] = g[m][j]
    <3>1. a + j \in 1 .. a + b /\ (l - (a + b)) + (a + j) = (l - b) + j
      OBVIOUS
    <3> QED BY <2>4, <2>5, <2>6, <3>1
  <2>8. b <= l
    BY <2>6
  <2> QED BY <2>2, <2>3, <2>7, <2>8
<1>7. ASSUME NEW i \in 0 .. n PROVE i \in S
  <2>1. 0 .. n \subseteq S
    <3> HIDE DEF S
    <3> QED BY <1>15, <1>16, UpTo
  <2> QED BY <2>1
<1>8. \A i \in 0 .. n : v[i] <= l /\ \A j \in 1 .. v[i] : flat[e[i] + j] = g[i][j]
  BY <1>7
<1> HIDE DEF S
<1>9. e \in [0 .. n -> Nat]
  <2>1. \A i \in 0 .. n : l - v[i] \in Nat
    BY <1>5, <1>8
  <2> QED BY <2>1 DEF e
<1>10. e[0] = 0 /\ e[n] = l
  <2>1. 0 \in 0 .. n /\ n \in 0 .. n /\ v[n] = 0 /\ v[0] = l
    BY <1>1, <1>2, <1>5
  <2> QED BY <1>14, <2>1
<1>11. ASSUME NEW i \in 1 .. n
       PROVE  /\ e[i] = e[i - 1] + Len(ss[i])
              /\ \A j \in 1 .. Len(ss[i]) : flat[e[i - 1] + j] = ss[i][j]
  <2>1. i \in 0 .. n /\ i - 1 \in 0 .. n
    OBVIOUS
  <2>2. PICK a \in Nat, b \in Nat : a = w[i] /\ b = v[i]
    BY <1>5, <2>1
  <2>3. v[i - 1] = a + b /\ \A j \in 1 .. a : g[i - 1][j] = ss[i][j]
    BY <1>6, <2>2
  <2>4. e[i] = l - b /\ e[i - 1] = l - (a + b)
    BY <1>14, <2>1, <2>2, <2>3
  <2>5. \A j \in 1 .. a + b : flat[e[i - 1] + j] = g[i - 1][j]
    BY <1>8, <2>1, <2>3
  <2>6. \A j \in 1 .. a : j \in 1 .. a + b
    OBVIOUS
  <2>7. \A j \in 1 .. a : flat[e[i - 1] + j] = ss[i][j]
    BY <2>3, <2>5, <2>6
  <2>8. e[i] = e[i - 1] + a /\ Len(ss[i]) = a
    BY <1>5, <2>2, <2>4
  <2> QED BY <2>7, <2>8
<1>17. \A i \in 0 .. n : e[i] <= l
  BY <1>5, <1>14
<1>12. LiesAt(flat, ss, n, e)
  BY <1>2, <1>9, <1>10, <1>11, <1>17 DEF LiesAt
<1> QED BY <1>2, <1>12

--------------------------------------------------------------------------------
(* The elements of a sequence. *)

\* A sequence whose elements are in a set is one of that set, too.
LEMMA Retyped ==
  ASSUME NEW T, NEW S, NEW s \in Seq(T), \A i \in 1 .. Len(s) : s[i] \in S
  PROVE  s \in Seq(S)
OBVIOUS

\* One element before a sequence.
LEMMA ConsIs ==
  ASSUME NEW T, NEW x \in T, NEW d \in Nat, NEW s, s \in [1 .. d -> T]
  PROVE  /\ (<<x>> \o s) \in [1 .. d + 1 -> T] /\ (<<x>> \o s)[1] = x
         /\ \A j \in 1 .. d : (<<x>> \o s)[j + 1] = s[j]
<1>1. PICK a : a = <<x>> /\ a \in Seq(T) /\ Len(a) = 1 /\ a[1] = x
  <2>1. PICK a : a = <<x>>
    OBVIOUS
  <2>2. a \in Seq(T) /\ Len(a) = 1 /\ a[1] = x
    BY <2>1
  <2> QED BY <2>1, <2>2
<1>2. s \in Seq(T) /\ Len(s) = d
  OBVIOUS
<1>3. PICK c : c = a \o s
  OBVIOUS
<1>4. c \in Seq(T) /\ Len(c) = Len(a) + Len(s)
      /\ (\A j \in 1 .. Len(a) : c[j] = a[j]) /\ \A j \in 1 .. Len(s) : c[Len(a) + j] = s[j]
  BY <1>1, <1>2, <1>3
<1>5. Len(c) = d + 1 /\ c[1] = x
  BY <1>1, <1>2, <1>4
<1>6. \A j \in 1 .. d : c[j + 1] = s[j]
  <2>1. \A j \in 1 .. d : 1 + j = j + 1
    OBVIOUS
  <2> QED BY <1>1, <1>2, <1>4, <2>1
<1>7. c \in [1 .. d + 1 -> T]
  BY <1>4, <1>5
<1> QED BY <1>1, <1>3, <1>5, <1>6, <1>7

================================================================================
