---------------------------- MODULE SequenceFacts ----------------------------
(***************************************************************************)
(* Induction and recursion over the natural numbers, stated for sets and   *)
(* functions, and what follows for sequences that are put together.        *)
(***************************************************************************)
EXTENDS Integers, SequencesExt, SequenceTheorems, FiniteSetTheorems, WellFoundedInduction, TLAPS

LEMMA LeastNumber ==
    ASSUME NEW S, S \subseteq Nat, S # {}
    PROVE  \E i \in S : \A j \in S : i <= j
  <1> DEFINE R == OpToRel(<, Nat)
  <1>1. \E x \in S : \A y \in S : ~ (<<y, x>> \in R)
    <2>1. IsWellFoundedOn(R, Nat)
      BY NatLessThanWellFounded
    <2> HIDE DEF R
    <2> QED
      BY <2>1, WFMin
  <1>2. \A x, y \in Nat : <<y, x>> \in R <=> y < x
    BY SMT DEF OpToRel
  <1> HIDE DEF R
  <1>3. PICK i \in S : \A y \in S : ~ (<<y, i>> \in R)
    BY <1>1
  <1>4. ASSUME NEW j \in S PROVE i <= j
    <2>1. i \in Nat /\ j \in Nat
      OBVIOUS
    <2>2. ~ (<<j, i>> \in R)
      BY <1>3
    <2>3. ~ (j < i)
      BY <1>2, <2>1, <2>2
    <2> QED
      BY <2>1, <2>3
  <1> QED
    BY <1>4

LEMMA Induction ==
    ASSUME NEW T \in SUBSET Nat, 0 \in T, \A n \in T : n + 1 \in T
    PROVE  T = Nat
  <1> SUFFICES ASSUME Nat \ T # {} PROVE FALSE
    OBVIOUS
  <1>1. PICK n \in Nat \ T : \A m \in Nat \ T : n <= m
    BY LeastNumber
  <1>2. n - 1 \in T
    BY <1>1
  <1>3. n - 1 + 1 = n
    BY <1>1
  <1> QED
    BY <1>1, <1>2, <1>3

-----------------------------------------------------------------------------
(* A step and a first value determine a function on the natural numbers.   *)

Follows(f, n, step, base) ==
    f[0] = base /\ \A i \in 0..n - 1 : f[i + 1] = step[<<i, f[i]>>]

LEMMA FollowsOnce ==
    ASSUME NEW n \in Nat, NEW f, NEW g, NEW step, NEW base,
           Follows(f, n, step, base), Follows(g, n, step, base)
    PROVE  \A i \in 0..n : f[i] = g[i]
  <1> DEFINE T == {i \in Nat : i <= n => f[i] = g[i]}
  <1>1. 0 \in T
    BY DEF Follows
  <1>2. ASSUME NEW i \in T PROVE i + 1 \in T
    <2> SUFFICES ASSUME i + 1 <= n PROVE f[i + 1] = g[i + 1]
      OBVIOUS
    <2>1. i \in 0..n - 1 /\ f[i] = g[i]
      OBVIOUS
    <2> QED
      BY <2>1 DEF Follows
  <1>3. T = Nat
    <2> HIDE DEF T
    <2>1. T \in SUBSET Nat
      BY DEF T
    <2> QED
      BY <1>1, <1>2, <2>1, Induction
  <1> QED
    BY <1>3

Recurs(U, base, step) ==
    \E f \in [Nat -> U] : f[0] = base /\ \A n \in Nat : f[n + 1] = step[<<n, f[n]>>]

LEMMA Recursion ==
    ASSUME NEW U, NEW base \in U, NEW step \in [Nat \X U -> U]
    PROVE  Recurs(U, base, step)
  <1> DEFINE Parts(n) == {f \in [0..n -> U] : Follows(f, n, step, base)}
             T == {n \in Nat : Parts(n) # {}}
  <1>1. 0 \in T
    <2>1. [i \in 0..0 |-> base] \in Parts(0)
      BY DEF Follows
    <2> QED
      BY <2>1
  <1>2. ASSUME NEW n \in T PROVE n + 1 \in T
    <2>1. PICK f \in [0..n -> U] : Follows(f, n, step, base)
      OBVIOUS
    <2> DEFINE g == [i \in 0..n + 1 |-> IF i = n + 1 THEN step[<<n, f[n]>>] ELSE f[i]]
    <2>2. g \in [0..n + 1 -> U]
      OBVIOUS
    <2>3. g[0] = base
      BY <2>1 DEF Follows
    <2>4. ASSUME NEW i \in 0..n PROVE g[i + 1] = step[<<i, g[i]>>]
      <3>1. CASE i = n
        <4>1. n + 1 \in 0..n + 1 /\ n \in 0..n + 1 /\ n # n + 1
          OBVIOUS
        <4>2. g[n + 1] = step[<<n, f[n]>>] /\ g[n] = f[n]
          BY <4>1
        <4> QED
          BY <3>1, <4>2
      <3>2. CASE i # n
        <4>1. i \in 0..n - 1 /\ i + 1 # n + 1 /\ i + 1 \in 0..n + 1 /\ i # n + 1 /\ i \in 0..n + 1
          BY <3>2
        <4>2. g[i + 1] = f[i + 1] /\ g[i] = f[i]
          BY <4>1
        <4> QED
          BY <2>1, <4>1, <4>2 DEF Follows
      <3> QED
        BY <3>1, <3>2
    <2> HIDE DEF g
    <2>5. Follows(g, n + 1, step, base)
      BY <2>3, <2>4 DEF Follows
    <2> QED
      BY <2>2, <2>5
  <1>3. T = Nat
    <2> HIDE DEF T
    <2>1. T \in SUBSET Nat
      BY DEF T
    <2> QED
      BY <1>1, <1>2, <2>1, Induction
  <1> DEFINE part(n) == CHOOSE f \in [0..n -> U] : Follows(f, n, step, base)
  <1>4. ASSUME NEW n \in Nat
        PROVE  part(n) \in [0..n -> U] /\ Follows(part(n), n, step, base)
    <2>1. \E f \in [0..n -> U] : Follows(f, n, step, base)
      BY <1>3
    <2> QED
      BY <2>1
  <1> HIDE DEF part
  <1> DEFINE whole == [n \in Nat |-> part(n)[n]]
  <1>5. whole \in [Nat -> U]
    BY <1>4
  <1>6. whole[0] = base
    BY <1>4 DEF Follows
  <1>7. ASSUME NEW n \in Nat PROVE whole[n + 1] = step[<<n, whole[n]>>]
    <2>1. Follows(part(n + 1), n + 1, step, base) /\ Follows(part(n), n, step, base)
      BY <1>4
    <2>2. Follows(part(n + 1), n, step, base)
      BY <2>1 DEF Follows
    <2>3. part(n + 1)[n] = part(n)[n]
      BY <2>1, <2>2, FollowsOnce
    <2>4. part(n + 1)[n + 1] = step[<<n, part(n + 1)[n]>>]
      BY <2>1 DEF Follows
    <2> QED
      BY <2>3, <2>4
  <1> HIDE DEF whole
  <1> QED
    BY <1>5, <1>6, <1>7 DEF Recurs

-----------------------------------------------------------------------------
(* FlattenSeq joins sequences one after the other.                         *)

Cat(s, t) == s \o t

Cats(f, n, s) ==
    f[0] = <<>> /\ \A i \in 1..n : f[i] = Cat(f[i - 1], s[i])

Agree(s, t, n) == \A i \in 1..n : s[i] = t[i]

LEMMA CatsOnce ==
    ASSUME NEW s, NEW t, NEW n \in Nat, Agree(s, t, n),
           NEW f, NEW g, Cats(f, n, s), Cats(g, n, t)
    PROVE  f[n] = g[n]
  <1> DEFINE T == {i \in Nat : i <= n => f[i] = g[i]}
  <1>1. 0 \in T
    BY DEF Cats
  <1>2. ASSUME NEW i \in T PROVE i + 1 \in T
    <2> SUFFICES ASSUME i + 1 <= n PROVE f[i + 1] = g[i + 1]
      OBVIOUS
    <2>1. i + 1 \in 1..n /\ i + 1 - 1 = i /\ f[i] = g[i]
      OBVIOUS
    <2> QED
      BY <2>1 DEF Cats, Agree
  <1>3. T = Nat
    <2> HIDE DEF T
    <2>1. T \in SUBSET Nat
      BY DEF T
    <2> QED
      BY <1>1, <1>2, <2>1, Induction
  <1> QED
    BY <1>3

LEMMA FlattenIs ==
    ASSUME NEW U, NEW s \in Seq(Seq(U))
    PROVE  \E f \in [0..Len(s) -> Seq(U)] : Cats(f, Len(s), s) /\ FlattenSeq(s) = f[Len(s)]
  <1> DEFINE n == Len(s)
             V == Seq(U)
             empty == <<>>
             step == [p \in Nat \X V |-> IF p[1] + 1 \in 1..n THEN Cat(p[2], s[p[1] + 1]) ELSE p[2]]
  <1>0. n \in Nat /\ \A i \in 1..n : s[i] \in V
    OBVIOUS
  <1>1. /\ empty \in V /\ \A a, b \in V : Cat(a, b) \in V
        /\ \A a \in V : Cat(empty, a) = a
    BY DEF Cat
  <1> HIDE DEF V, empty
  <1>2. step \in [Nat \X V -> V]
    BY <1>0, <1>1
  <1>3. PICK h \in [Nat -> V] :
          h[0] = empty /\ \A k \in Nat : h[k + 1] = step[<<k, h[k]>>]
    <2> HIDE DEF step
    <2>1. Recurs(V, empty, step)
      BY <1>1, <1>2, Recursion
    <2> QED
      BY <2>1 DEF Recurs
  <1>4. ASSUME NEW i \in 1..n PROVE h[i] = Cat(h[i - 1], s[i])
    <2>1. i - 1 \in Nat /\ i - 1 + 1 = i
      OBVIOUS
    <2>2. h[i] = step[<<i - 1, h[i - 1]>>]
      BY <1>3, <2>1
    <2>3. <<i - 1, h[i - 1]>> \in Nat \X V
      BY <2>1
    <2>4. step[<<i - 1, h[i - 1]>>] = Cat(h[i - 1], s[i])
      BY <2>1, <2>3
    <2> QED
      BY <2>2, <2>4
  <1> HIDE DEF step
  <1> DEFINE f == [i \in 0..n |-> h[i]]
  <1>5. f \in [0..n -> V] /\ Cats(f, n, s) /\ f[n] = h[n]
    BY <1>0, <1>3, <1>4 DEF Cats, empty
  <1>6. FlattenSeq(s) = h[n]
    <2>1. CASE n = 0
      <3>1. s = <<>> /\ FlattenSeq(<<>>) = <<>>
        BY <2>1 DEF FlattenSeq
      <3> QED
        BY <1>3, <2>1, <3>1 DEF empty
    <2>2. CASE n # 0
      <3> DEFINE Def(g) == [i \in 1..n |-> IF i = 1 THEN s[i] ELSE Cat(g[i - 1], s[i])]
                 flat == CHOOSE g : g = Def(g)
      <3>1. FlattenSeq(s) = flat[n]
        BY <2>2 DEF FlattenSeq, Cat
      <3> DEFINE k == [i \in 1..n |-> h[i]]
      <3>2. k = Def(k)
        <4>1. ASSUME NEW i \in 1..n
              PROVE  h[i] = IF i = 1 THEN s[i] ELSE Cat(k[i - 1], s[i])
          <5>1. CASE i = 1
            BY <1>0, <1>1, <1>3, <1>4, <5>1
          <5>2. CASE i # 1
            <6>1. i - 1 \in 1..n
              BY <5>2
            <6> QED
              BY <1>4, <5>2, <6>1
          <5> QED
            BY <5>1, <5>2
        <4> QED
          BY <4>1
      <3>3. flat = Def(flat)
        BY <3>2
      <3> HIDE DEF flat
      <3> DEFINE e == [i \in 0..n |-> IF i = 0 THEN empty ELSE flat[i]]
      <3>4. e[0] = empty /\ \A i \in 1..n : e[i] = flat[i]
        BY <1>0
      <3>5. \A i \in 1..n : flat[i] = IF i = 1 THEN s[i] ELSE Cat(flat[i - 1], s[i])
        BY <3>3
      <3> HIDE DEF e
      <3>6. ASSUME NEW i \in 1..n PROVE e[i] = Cat(e[i - 1], s[i])
        <4>1. CASE i = 1
          BY <1>0, <1>1, <3>4, <3>5, <4>1
        <4>2. CASE i # 1
          <5>1. i - 1 \in 1..n
            BY <4>2
          <5> QED
            BY <3>4, <3>5, <4>2, <5>1
        <4> QED
          BY <4>1, <4>2
      <3>7. e[n] = h[n]
        <4>1. Cats(e, n, s) /\ Cats(h, n, s)
          BY <1>3, <1>4, <3>4, <3>6 DEF Cats, empty
        <4> QED
          BY <1>0, <4>1, CatsOnce DEF Agree
      <3> QED
        BY <1>0, <2>2, <3>1, <3>4, <3>7
    <2> QED
      BY <2>1, <2>2
  <1> HIDE DEF f
  <1> QED
    BY <1>5, <1>6 DEF V

LEMMA FlattenAppend ==
    ASSUME NEW U, NEW s \in Seq(Seq(U)), NEW e \in Seq(U)
    PROVE  /\ FlattenSeq(s) \in Seq(U)
           /\ FlattenSeq(Append(s, e)) = FlattenSeq(s) \o e
  <1> DEFINE t == Append(s, e)
             n == Len(s)
  <1>0. n \in Nat /\ t \in Seq(Seq(U)) /\ Len(t) = n + 1 /\ t[n + 1] = e
        /\ \A i \in 1..n : t[i] = s[i]
    OBVIOUS
  <1> HIDE DEF t
  <1>1. PICK f \in [0..n -> Seq(U)] : Cats(f, n, s) /\ FlattenSeq(s) = f[n]
    BY FlattenIs
  <1>2. PICK g \in [0..n + 1 -> Seq(U)] : Cats(g, n + 1, t) /\ FlattenSeq(t) = g[n + 1]
    BY <1>0, FlattenIs
  <1> HIDE DEF n
  <1>3. f[n] = g[n]
    <2>1. Cats(g, n, t)
      BY <1>0, <1>2 DEF Cats
    <2>2. Agree(s, t, n)
      BY <1>0 DEF Agree
    <2> QED
      BY <1>0, <1>1, <2>1, <2>2, CatsOnce
  <1>4. g[n + 1] = Cat(g[n], e)
    <2>1. n + 1 \in 1..n + 1 /\ n + 1 - 1 = n
      BY <1>0
    <2> QED
      BY <1>0, <1>2, <2>1 DEF Cats
  <1>5. FlattenSeq(s) \in Seq(U)
    BY <1>0, <1>1
  <1> QED
    BY <1>1, <1>2, <1>3, <1>4, <1>5 DEF t, Cat

-----------------------------------------------------------------------------
(* What the sequences hold that the others are made of.                    *)

LEMMA PlacesBefore ==
    ASSUME NEW n \in Nat, NEW i \in 1..n
    PROVE  /\ i \in Nat /\ i - 1 \in Nat /\ i - 1 + 1 = i /\ i - 1 \in 0..n
           /\ \A j \in 1..i - 1 : j \in 1..n /\ j < i /\ j # i
  OBVIOUS

LEMMA PlacesAre ==
    ASSUME NEW U, NEW s \in Seq(U)
    PROVE  Len(s) \in Nat /\ DOMAIN s = 1..Len(s) /\ \A i \in 1..Len(s) : s[i] \in U
  OBVIOUS

LEMMA RangeIs ==
    ASSUME NEW U, NEW s \in Seq(U)
    PROVE  Range(s) = {s[i] : i \in 1..Len(s)} /\ Range(s) \subseteq U
  BY DEF Range

LEMMA RangeCat ==
    ASSUME NEW U, NEW s \in Seq(U), NEW t \in Seq(U)
    PROVE  s \o t \in Seq(U) /\ Range(s \o t) = Range(s) \cup Range(t)
  <1> DEFINE m == Len(s)
             n == Len(t)
             c == s \o t
  <1>1. /\ m \in Nat /\ n \in Nat /\ c \in Seq(U) /\ Len(c) = m + n
        /\ \A i \in 1..m + n : c[i] = IF i <= m THEN s[i] ELSE t[i - m]
    OBVIOUS
  <1>2. /\ Range(c) = {c[i] : i \in 1..m + n} /\ Range(s) = {s[i] : i \in 1..m}
        /\ Range(t) = {t[i] : i \in 1..n}
    BY <1>1, RangeIs
  <1> HIDE DEF c, m, n
  <1>3. ASSUME NEW i \in 1..m PROVE s[i] \in Range(c)
    <2>1. i \in 1..m + n /\ c[i] = s[i]
      BY <1>1
    <2> QED
      BY <1>2, <2>1
  <1>4. ASSUME NEW i \in 1..n PROVE t[i] \in Range(c)
    <2>1. i + m \in 1..m + n /\ ~ (i + m <= m) /\ i + m - m = i
      BY <1>1
    <2>2. c[i + m] = t[i]
      BY <1>1, <2>1
    <2> QED
      BY <1>2, <2>1, <2>2
  <1>5. ASSUME NEW i \in 1..m + n PROVE c[i] \in Range(s) \cup Range(t)
    <2>1. CASE i <= m
      <3>1. i \in 1..m /\ c[i] = s[i]
        BY <1>1, <2>1
      <3> QED
        BY <1>2, <3>1
    <2>2. CASE ~ (i <= m)
      <3>1. i - m \in 1..n /\ c[i] = t[i - m]
        BY <1>1, <2>2
      <3> QED
        BY <1>2, <3>1
    <2> QED
      BY <2>1, <2>2
  <1>6. Range(c) = Range(s) \cup Range(t)
    <2>1. Range(c) \subseteq Range(s) \cup Range(t)
      BY <1>2, <1>5
    <2>2. Range(s) \subseteq Range(c) /\ Range(t) \subseteq Range(c)
      BY <1>2, <1>3, <1>4
    <2> QED
      BY <2>1, <2>2
  <1> QED
    BY <1>1, <1>6 DEF c

LEMMA RangeFlatten ==
    ASSUME NEW U, NEW s \in Seq(Seq(U))
    PROVE  /\ FlattenSeq(s) \in Seq(U)
           /\ Range(FlattenSeq(s)) = UNION {Range(s[i]) : i \in 1..Len(s)}
  <1> DEFINE n == Len(s)
             parts(i) == UNION {Range(s[j]) : j \in 1..i}
  <1>0. n \in Nat /\ \A i \in 1..n : s[i] \in Seq(U)
    OBVIOUS
  <1>1. PICK f \in [0..n -> Seq(U)] : Cats(f, n, s) /\ FlattenSeq(s) = f[n]
    BY FlattenIs
  <1> DEFINE T == {i \in Nat : i <= n => Range(f[i]) = parts(i)}
  <1>2. 0 \in T
    <2>1. f[0] = <<>>
      BY <1>1 DEF Cats
    <2>2. Range(f[0]) = {} /\ parts(0) = {}
      BY <2>1 DEF Range
    <2> QED
      BY <2>2
  <1>3. ASSUME NEW i \in T PROVE i + 1 \in T
    <2> SUFFICES ASSUME i + 1 <= n PROVE Range(f[i + 1]) = parts(i + 1)
      OBVIOUS
    <2>1. i \in Nat /\ i \in 0..n /\ i + 1 \in 1..n /\ i + 1 - 1 = i
      OBVIOUS
    <2>a. Range(f[i]) = parts(i)
      <3> HIDE DEF parts
      <3> QED
        BY <2>1
    <2>b. f[i] \in Seq(U) /\ s[i + 1] \in Seq(U)
      BY <1>0, <1>1, <2>1
    <2>2. f[i + 1] = f[i] \o s[i + 1]
      <3>1. \A j \in 1..n : f[j] = Cat(f[j - 1], s[j])
        BY <1>1 DEF Cats
      <3>2. f[i + 1] = Cat(f[i], s[i + 1])
        BY <2>1, <3>1
      <3> QED
        BY <3>2 DEF Cat
    <2>3. parts(i + 1) = parts(i) \cup Range(s[i + 1])
      <3>1. \A k \in Nat : 1..k + 1 = (1..k) \cup {k + 1}
        OBVIOUS
      <3>2. 1..i + 1 = (1..i) \cup {i + 1}
        BY <2>1, <3>1
      <3> QED
        BY <3>2
    <2> HIDE DEF parts
    <2>4. Range(f[i + 1]) = Range(f[i]) \cup Range(s[i + 1])
      BY <2>b, <2>2, RangeCat
    <2> QED
      BY <2>a, <2>3, <2>4
  <1>4. T = Nat
    <2> HIDE DEF T
    <2>1. T \in SUBSET Nat
      BY DEF T
    <2> QED
      BY <1>2, <1>3, <2>1, Induction
  <1> HIDE DEF parts
  <1>5. Range(f[n]) = parts(n)
    <2>1. n \in T
      BY <1>0, <1>4
    <2> QED
      BY <1>0, <2>1
  <1> QED
    BY <1>0, <1>1, <1>5 DEF parts

(* A sequence for each element, given by a function, joined.               *)
Joined(F, seq) == FlattenSeq([i \in DOMAIN seq |-> F[seq[i]]])

LEMMA RangeJoined ==
    ASSUME NEW E, NEW U, NEW seq \in Seq(E), NEW F \in [E -> Seq(U)]
    PROVE  /\ Joined(F, seq) \in Seq(U)
           /\ \A x : x \in Range(Joined(F, seq)) <=> \E e \in Range(seq) : x \in Range(F[e])
  <1> DEFINE s == [i \in DOMAIN seq |-> F[seq[i]]]
             n == Len(seq)
  <1>1. n \in Nat /\ DOMAIN seq = 1..n /\ \A i \in 1..n : seq[i] \in E
    OBVIOUS
  <1>2. s \in Seq(Seq(U)) /\ Len(s) = n /\ \A i \in 1..n : s[i] = F[seq[i]]
    <2>1. s \in [1..n -> Seq(U)]
      BY <1>1
    <2> QED
      BY <1>1, <2>1
  <1>3. Range(seq) = {seq[i] : i \in 1..n}
    BY RangeIs
  <1> HIDE DEF s, n
  <1>4. FlattenSeq(s) \in Seq(U) /\ Range(FlattenSeq(s)) = UNION {Range(s[i]) : i \in 1..n}
    BY <1>2, RangeFlatten
  <1>5. Joined(F, seq) = FlattenSeq(s)
    BY DEF Joined, s
  <1>6. ASSUME NEW x PROVE x \in Range(FlattenSeq(s)) <=> \E e \in Range(seq) : x \in Range(F[e])
    <2>1. x \in Range(FlattenSeq(s)) <=> \E i \in 1..n : x \in Range(s[i])
      BY <1>4
    <2>2. x \in Range(FlattenSeq(s)) <=> \E i \in 1..n : x \in Range(F[seq[i]])
      BY <1>2, <2>1
    <2> QED
      BY <1>3, <2>2
  <1> QED
    BY <1>4, <1>5, <1>6

LEMMA RangeReverse ==
    ASSUME NEW U, NEW s \in Seq(U)
    PROVE  Reverse(s) \in Seq(U) /\ Range(Reverse(s)) = Range(s)
  <1> DEFINE n == Len(s)
             r == Reverse(s)
  <1>1. /\ n \in Nat /\ r \in Seq(U) /\ Len(r) = n
        /\ \A i \in 1..n : r[i] = s[(n - i) + 1] /\ (n - i) + 1 \in 1..n
    <2>1. \A i \in 1..n : (n - i) + 1 \in 1..n
      OBVIOUS
    <2>2. r = [i \in 1..n |-> s[(n - i) + 1]]
      BY DEF Reverse
    <2>3. r \in [1..n -> U]
      BY <2>1, <2>2
    <2> QED
      BY <2>1, <2>2, <2>3
  <1>2. Range(r) = {r[i] : i \in 1..n} /\ Range(s) = {s[i] : i \in 1..n}
    BY <1>1, RangeIs
  <1> HIDE DEF r, n
  <1>3. ASSUME NEW i \in 1..n PROVE s[i] \in Range(r)
    <2>1. (n - i) + 1 \in 1..n /\ (n - ((n - i) + 1)) + 1 = i
      BY <1>1
    <2>2. r[(n - i) + 1] = s[i]
      BY <1>1, <2>1
    <2> QED
      BY <1>2, <2>1, <2>2
  <1>4. ASSUME NEW i \in 1..n PROVE r[i] \in Range(s)
    BY <1>1, <1>2
  <1>5. Range(r) = Range(s)
    BY <1>2, <1>3, <1>4
  <1> QED
    BY <1>1, <1>5 DEF r

(* Two parts of a sequence, the one after the other.                       *)
LEMMA PartsOf ==
    ASSUME NEW S, NEW s \in Seq(S), NEW m \in Nat, NEW k \in Nat, m <= k, k <= Len(s)
    PROVE  SubSeq(s, m + 1, Len(s)) = SubSeq(s, m + 1, k) \o SubSeq(s, k + 1, Len(s))
  <1> DEFINE n == Len(s)
             x == SubSeq(s, m + 1, n)
             y == SubSeq(s, m + 1, k)
             z == SubSeq(s, k + 1, n)
             c == y \o z
  <1>1. n \in Nat /\ \A i \in 1..n : s[i] \in S
    BY LenProperties
  <1>2. /\ x \in Seq(S) /\ Len(x) = n - m /\ \A i \in 1..n - m : x[i] = s[m + i]
        /\ y \in Seq(S) /\ Len(y) = k - m /\ \A i \in 1..k - m : y[i] = s[m + i]
        /\ z \in Seq(S) /\ Len(z) = n - k /\ \A i \in 1..n - k : z[i] = s[k + i]
    <2>1. ASSUME NEW a \in Nat, NEW b \in Nat, a <= b, b <= n
          PROVE  /\ SubSeq(s, a + 1, b) \in Seq(S) /\ Len(SubSeq(s, a + 1, b)) = b - a
                 /\ \A i \in 1..b - a : SubSeq(s, a + 1, b)[i] = s[a + i]
      <3>1. a + 1 \in 1..n + 1 /\ b \in a + 1 - 1..n /\ b - (a + 1) + 1 = b - a
        BY <1>1, <2>1
      <3>2. \A i \in 1..b - a : a + 1 + i - 1 = a + i
        BY <2>1
      <3> HIDE DEF n
      <3> QED
        BY <1>1, <2>1, <3>1, <3>2, SubSeqProperties DEF n
    <2> QED
      BY <1>1, <2>1
  <1> HIDE DEF x, y, z, n
  <1>3. /\ c \in Seq(S) /\ Len(c) = n - m
        /\ \A i \in 1..n - m : c[i] = IF i <= k - m THEN y[i] ELSE z[i - (k - m)]
    <2>1. Len(y) + Len(z) = n - m
      BY <1>1, <1>2
    <2>2. y \in Seq(S) /\ z \in Seq(S)
      BY <1>2
    <2>3. /\ c \in Seq(S) /\ Len(c) = Len(y) + Len(z)
          /\ \A i \in 1..Len(y) + Len(z) : c[i] = IF i <= Len(y) THEN y[i] ELSE z[i - Len(y)]
      BY ONLY <2>2, ConcatProperties
    <2> HIDE DEF c
    <2> QED
      BY <1>2, <2>1, <2>3
  <1>4. \A i \in 1..n - m : c[i] = x[i]
    <2> SUFFICES ASSUME NEW i \in 1..n - m PROVE c[i] = x[i]
      OBVIOUS
    <2>1. CASE i <= k - m
      BY <1>1, <1>2, <1>3, <2>1
    <2>2. CASE ~(i <= k - m)
      <3>1. i - (k - m) \in 1..n - k /\ k + (i - (k - m)) = m + i
        BY <1>1, <2>2
      <3> QED
        BY <1>2, <1>3, <2>2, <3>1
    <2> QED
      BY <2>1, <2>2
  <1>5. c = x
    <2> HIDE DEF c
    <2> QED
      BY <1>1, <1>2, <1>3, <1>4, SeqEqual
  <1> QED
    BY <1>5 DEF x, y, z, n

-----------------------------------------------------------------------------
(* A finite set whose members have keys of their own can be written down   *)
(* in the order of the keys: a member comes after those of smaller keys.   *)
LEMMA Sortable ==
    ASSUME NEW S, IsFiniteSet(S), NEW key \in [S -> Int],
           \A r, s \in S : key[r] = key[s] => r = s
    PROVE  \E s \in [1..Cardinality(S) -> S] :
             \A i, j \in DOMAIN s : i < j => key[s[i]] < key[s[j]]
  <1> DEFINE size == Cardinality(S)
             Upto(r) == {x \in S : key[x] <= key[r]}
             place == [r \in S |-> Cardinality(Upto(r))]
  <1>1. size \in Nat
    BY FS_CardinalityType
  <1>2. ASSUME NEW r \in S PROVE /\ IsFiniteSet(Upto(r)) /\ place[r] \in 1..size
                                 /\ place[r] = Cardinality(Upto(r))
    <2>1. Upto(r) \in SUBSET S /\ r \in Upto(r)
      OBVIOUS
    <2> HIDE DEF Upto
    <2>2. IsFiniteSet(Upto(r)) /\ Cardinality(Upto(r)) <= size
      BY <2>1, FS_Subset
    <2>3. Cardinality(Upto(r)) \in Nat /\ Cardinality(Upto(r)) # 0
      BY <2>1, <2>2, FS_CardinalityType, FS_EmptySet
    <2> QED
      BY <1>1, <2>2, <2>3
  <1>3. ASSUME NEW r \in S, NEW s \in S, key[r] < key[s] PROVE place[r] < place[s]
    <2>1. Upto(r) \in SUBSET Upto(s) /\ s \in Upto(s) /\ s \notin Upto(r)
      BY <1>3
    <2> HIDE DEF Upto
    <2>2. /\ Cardinality(Upto(r)) <= Cardinality(Upto(s))
          /\ Cardinality(Upto(r)) # Cardinality(Upto(s))
      BY <1>2, <2>1, FS_Subset
    <2> QED
      BY <1>2, <2>2
  <1>4. \A r, s \in S : place[r] = place[s] => r = s
    <2> SUFFICES ASSUME NEW r \in S, NEW s \in S, place[r] = place[s], r # s PROVE FALSE
      OBVIOUS
    <2>1. key[r] < key[s] \/ key[s] < key[r]
      OBVIOUS
    <2>2. place[r] < place[s] \/ place[s] < place[r]
      BY <1>3, <2>1
    <2>3. place[r] \in 1..size /\ place[s] \in 1..size
      BY <1>2
    <2> HIDE DEF place, size
    <2> QED
      BY <1>1, <2>2, <2>3
  <1>5. place \in Surjection(S, 1..size)
    <2> HIDE DEF Upto
    <2>1. place \in Injection(S, 1..size)
      BY <1>2, <1>4 DEF Injection, IsInjective
    <2>2. IsFiniteSet(1..size) /\ Cardinality(1..size) = size
      BY <1>1, FS_Interval
    <2> HIDE DEF place
    <2> QED
      BY <1>1, <2>1, <2>2, FS_Injection
  <1> HIDE DEF place, Upto
  <1>6. \A i \in 1..size : \E r \in S : place[r] = i
    BY <1>5 DEF Surjection
  <1> DEFINE sorted == [i \in 1..size |-> CHOOSE r \in S : place[r] = i]
  <1>7. sorted \in [1..size -> S] /\ \A i \in 1..size : place[sorted[i]] = i
    BY <1>6
  <1> HIDE DEF sorted
  <1>8. ASSUME NEW i \in 1..size, NEW j \in 1..size, i < j
        PROVE  key[sorted[i]] < key[sorted[j]]
    <2>1. sorted[i] \in S /\ sorted[j] \in S /\ place[sorted[i]] = i /\ place[sorted[j]] = j
      BY <1>7
    <2>2. key[sorted[i]] \in Int /\ key[sorted[j]] \in Int
      BY <2>1
    <2>3. key[sorted[i]] # key[sorted[j]]
      BY <1>8, <2>1
    <2>4. ~(key[sorted[j]] < key[sorted[i]])
      BY <1>1, <1>3, <1>8, <2>1
    <2> QED
      BY <2>2, <2>3, <2>4
  <1> QED
    BY <1>7, <1>8

-----------------------------------------------------------------------------
(* Sequences in which each element stands in a relation to the set of      *)
(* those before it: R holds pairs of an element and a set, B is what comes *)
(* before the sequence.                                                    *)
Until(s, k) == {s[i] : i \in 1..k - 1}
InPlace(s, B, R) == \A k \in 1..Len(s) : <<s[k], B \cup Until(s, k)>> \in R

LEMMA UntilIs ==
    ASSUME NEW U, NEW s \in Seq(U)
    PROVE  /\ Until(s, 1) = {} /\ Until(s, Len(s) + 1) = Range(s)
           /\ \A k \in 1..Len(s) : /\ Until(s, k + 1) = Until(s, k) \cup {s[k]}
                                   /\ Until(s, k) \subseteq Range(s)
  <1> DEFINE n == Len(s)
  <1>1. n \in Nat /\ Range(s) = {s[i] : i \in 1..n}
    BY RangeIs
  <1>2. Until(s, 1) = {}
    BY DEF Until
  <1>3. Until(s, n + 1) = Range(s)
    <2>1. n + 1 - 1 = n
      BY <1>1
    <2> QED
      BY <1>1, <2>1 DEF Until
  <1>4. ASSUME NEW k \in 1..n
        PROVE  Until(s, k + 1) = Until(s, k) \cup {s[k]} /\ Until(s, k) \subseteq Range(s)
    <2>1. 1..k + 1 - 1 = (1..k - 1) \cup {k} /\ 1..k - 1 \subseteq 1..n
      BY <1>1
    <2> HIDE DEF n
    <2> QED
      BY <1>1, <2>1 DEF Until
  <1> QED
    BY <1>2, <1>3, <1>4

LEMMA OneInPlace ==
    ASSUME NEW x, NEW B, NEW R, <<x, B>> \in R
    PROVE  InPlace(<<x>>, B, R)
  <1>1. Len(<<x>>) = 1 /\ <<x>>[1] = x /\ Until(<<x>>, 1) = {}
    BY DEF Until
  <1> QED
    BY <1>1 DEF InPlace

(* It is enough that R holds with whatever comes before.                   *)
LEMMA EasilyInPlace ==
    ASSUME NEW U, NEW s \in Seq(U), NEW B, NEW R,
           \A x \in Range(s) : \A C : B \subseteq C /\ C \subseteq B \cup Range(s) => <<x, C>> \in R
    PROVE  InPlace(s, B, R)
  <1> SUFFICES ASSUME NEW k \in 1..Len(s) PROVE <<s[k], B \cup Until(s, k)>> \in R
    BY DEF InPlace
  <1>1. s[k] \in Range(s) /\ Until(s, k) \subseteq Range(s)
    BY RangeIs, UntilIs
  <1> QED
    BY <1>1

LEMMA CatInPlace ==
    ASSUME NEW U, NEW s \in Seq(U), NEW t \in Seq(U), NEW B, NEW R,
           InPlace(s, B, R), InPlace(t, B \cup Range(s), R)
    PROVE  InPlace(s \o t, B, R)
  <1> DEFINE m == Len(s)
             n == Len(t)
             c == s \o t
  <1>1. /\ m \in Nat /\ n \in Nat /\ Len(c) = m + n
        /\ \A i \in 1..m + n : c[i] = IF i <= m THEN s[i] ELSE t[i - m]
    OBVIOUS
  <1>2. Range(s) = {s[i] : i \in 1..m}
    BY RangeIs
  <1> HIDE DEF m, n, c
  <1> SUFFICES ASSUME NEW k \in 1..m + n PROVE <<c[k], B \cup Until(c, k)>> \in R
    BY <1>1 DEF InPlace, c
  <1>3. CASE k <= m
    <2>1. k \in 1..m /\ \A i \in 1..k - 1 : c[i] = s[i]
      BY <1>1, <1>3
    <2>2. Until(c, k) = Until(s, k) /\ c[k] = s[k]
      BY <1>1, <1>3, <2>1 DEF Until
    <2> QED
      BY <2>1, <2>2 DEF InPlace, m
  <1>4. CASE ~(k <= m)
    <2>1. k - m \in 1..n /\ c[k] = t[k - m]
      BY <1>1, <1>4
    <2>2. ASSUME NEW j \in 1..k - 1 PROVE c[j] \in Range(s) \cup Until(t, k - m)
      <3>1. CASE j <= m
        <4>1. j \in 1..m /\ c[j] = s[j]
          BY <1>1, <3>1
        <4> QED
          BY <1>2, <4>1
      <3>2. CASE ~(j <= m)
        <4>1. j - m \in 1..k - m - 1 /\ c[j] = t[j - m]
          BY <1>1, <1>4, <3>2
        <4> QED
          BY <4>1 DEF Until
      <3> QED
        BY <3>1, <3>2
    <2>3. ASSUME NEW i \in 1..m PROVE s[i] \in Until(c, k)
      <3>1. i \in 1..k - 1 /\ c[i] = s[i]
        BY <1>1, <1>4
      <3> QED
        BY <3>1 DEF Until
    <2>4. ASSUME NEW i \in 1..k - m - 1 PROVE t[i] \in Until(c, k)
      <3>1. m + i \in 1..k - 1 /\ c[m + i] = t[i]
        BY <1>1, <1>4
      <3> QED
        BY <3>1 DEF Until
    <2>5. Until(c, k) = Range(s) \cup Until(t, k - m)
      <3>1. Until(c, k) \subseteq Range(s) \cup Until(t, k - m)
        BY <2>2 DEF Until
      <3>2. Range(s) \cup Until(t, k - m) \subseteq Until(c, k)
        <4>1. Range(s) \subseteq Until(c, k)
          BY <1>2, <2>3
        <4>2. Until(t, k - m) = {t[i] : i \in 1..k - m - 1}
          BY DEF Until
        <4> QED
          BY <2>4, <4>1, <4>2
      <3> QED
        BY <3>1, <3>2
    <2>6. <<t[k - m], (B \cup Range(s)) \cup Until(t, k - m)>> \in R
      BY <2>1 DEF InPlace, n
    <2>7. (B \cup Range(s)) \cup Until(t, k - m) = B \cup Until(c, k)
      BY <2>5
    <2> QED
      BY <2>1, <2>6, <2>7
  <1> QED
    BY <1>3, <1>4

Firsts(F, seq, i) == UNION {Range(F[seq[j]]) : j \in 1..i - 1}

LEMMA JoinedInPlace ==
    ASSUME NEW E, NEW U, NEW seq \in Seq(E), NEW F \in [E -> Seq(U)], NEW B, NEW R,
           \A i \in 1..Len(seq) : InPlace(F[seq[i]], B \cup Firsts(F, seq, i), R)
    PROVE  InPlace(Joined(F, seq), B, R)
  <1> DEFINE s == [i \in DOMAIN seq |-> F[seq[i]]]
             n == Len(seq)
  <1>1. n \in Nat /\ DOMAIN seq = 1..n /\ \A i \in 1..n : seq[i] \in E
    OBVIOUS
  <1>2. s \in Seq(Seq(U)) /\ Len(s) = n /\ \A i \in 1..n : s[i] = F[seq[i]]
    <2>1. s \in [1..n -> Seq(U)]
      BY <1>1
    <2> QED
      BY <1>1, <2>1
  <1>3. Joined(F, seq) = FlattenSeq(s)
    BY DEF Joined
  <1> HIDE DEF s
  <1>4. PICK f \in [0..n -> Seq(U)] : Cats(f, n, s) /\ FlattenSeq(s) = f[n]
    BY <1>2, FlattenIs
  <1> DEFINE Sound(i) == Range(f[i]) = Firsts(F, seq, i + 1) /\ InPlace(f[i], B, R)
             T == {i \in Nat : i <= n => Sound(i)}
  <1>5. 0 \in T
    <2>1. f[0] = <<>>
      BY <1>4 DEF Cats
    <2>2. Range(f[0]) = {} /\ Firsts(F, seq, 0 + 1) = {} /\ Len(f[0]) = 0
      BY <2>1 DEF Range, Firsts
    <2>3. InPlace(f[0], B, R)
      BY <2>2 DEF InPlace
    <2> QED
      BY <2>2, <2>3
  <1>6. ASSUME NEW i \in T PROVE i + 1 \in T
    <2> SUFFICES ASSUME i + 1 <= n PROVE Sound(i + 1)
      OBVIOUS
    <2>1. i \in Nat /\ i \in 0..n /\ i + 1 \in 1..n /\ i + 1 - 1 = i /\ i + 1 + 1 - 1 = i + 1
      BY <1>1
    <2>2. Sound(i)
      BY <2>1
    <2> DEFINE next == F[seq[i + 1]]
    <2>3. f[i] \in Seq(U) /\ next \in Seq(U)
      BY <1>1, <1>4, <2>1
    <2>4. f[i + 1] = f[i] \o next
      <3>1. \A j \in 1..n : f[j] = Cat(f[j - 1], s[j])
        BY <1>4 DEF Cats
      <3>2. f[i + 1] = Cat(f[i], s[i + 1])
        BY <2>1, <3>1
      <3> QED
        BY <1>2, <2>1, <3>2 DEF Cat
    <2>5. Firsts(F, seq, i + 1 + 1) = Firsts(F, seq, i + 1) \cup Range(next)
      <3>1. 1..i + 1 = (1..i) \cup {i + 1}
        BY <2>1
      <3> QED
        BY <2>1, <3>1 DEF Firsts
    <2>6. InPlace(next, B \cup Firsts(F, seq, i + 1), R)
      BY <2>1
    <2> HIDE DEF next
    <2>7. Range(f[i + 1]) = Range(f[i]) \cup Range(next)
      BY <2>3, <2>4, RangeCat
    <2>8. InPlace(f[i + 1], B, R)
      <3>1. InPlace(f[i], B, R) /\ Range(f[i]) = Firsts(F, seq, i + 1)
        BY <2>2
      <3>2. InPlace(next, B \cup Range(f[i]), R)
        BY <2>6, <3>1
      <3>3. InPlace(f[i] \o next, B, R)
        <4> HIDE DEF T, Sound
        <4> QED
          BY ONLY <2>3, <3>1, <3>2, CatInPlace
      <3> QED
        BY <2>4, <3>3
    <2> QED
      BY <2>2, <2>5, <2>7, <2>8
  <1>7. T = Nat
    <2> HIDE DEF T
    <2>1. T \in SUBSET Nat
      BY DEF T
    <2> QED
      BY <1>5, <1>6, <2>1, Induction
  <1> QED
    BY <1>1, <1>3, <1>4, <1>7

(* A sequence without repetitions.                                         *)
Fresh(U) == {p \in U \X SUBSET U : p[1] \notin p[2]}

LEMMA FreshIsInjective ==
    ASSUME NEW U, NEW s \in Seq(U)
    PROVE  InPlace(s, {}, Fresh(U)) => \A i, j \in 1..Len(s) : s[i] = s[j] => i = j
  <1> SUFFICES ASSUME InPlace(s, {}, Fresh(U)), NEW i \in 1..Len(s), NEW j \in 1..Len(s),
                      s[i] = s[j], i < j
               PROVE  FALSE
    OBVIOUS
  <1>1. <<s[j], {} \cup Until(s, j)>> \in Fresh(U)
    BY DEF InPlace
  <1>2. s[j] \notin Until(s, j)
    BY <1>1 DEF Fresh
  <1>3. i \in 1..j - 1
    OBVIOUS
  <1> QED
    BY <1>2, <1>3 DEF Until

(* Where each element of a sequence goes when it is reversed.              *)
LEMMA ReverseIs ==
    ASSUME NEW U, NEW s \in Seq(U)
    PROVE  /\ Reverse(s) \in Seq(U) /\ Len(Reverse(s)) = Len(s) /\ Range(Reverse(s)) = Range(s)
           /\ \A i \in 1..Len(s) : /\ (Len(s) - i) + 1 \in 1..Len(s)
                                   /\ Reverse(s)[i] = s[(Len(s) - i) + 1]
                                   /\ Reverse(s)[i] \in U
  <1> DEFINE n == Len(s)
             r == Reverse(s)
  <1>1. \A i \in 1..n : (n - i) + 1 \in 1..n
    OBVIOUS
  <1>2. r = [i \in 1..n |-> s[(n - i) + 1]]
    BY DEF Reverse
  <1>3. r \in [1..n -> U]
    BY <1>1, <1>2
  <1> QED
    BY <1>1, <1>2, <1>3, RangeReverse

LEMMA CatTwice ==
    ASSUME NEW U, NEW s \in Seq(U), NEW t \in Seq(U), NEW u \in Seq(U)
    PROVE  (s \o t) \o u = s \o (t \o u)
  OBVIOUS
=============================================================================
