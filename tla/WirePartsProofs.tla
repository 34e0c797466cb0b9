------------------------- MODULE WirePartsProofs -------------------------
(***************************************************************************)
(* What the parts of a session do, for every input and every capacity: the *)
(* key in base64, the frames of the server as parse_frame reads them, the  *)
(* receive buffer as a queue of bytes, and control frames as a server      *)
(* unmasks them.                                                           *)
(***************************************************************************)
EXTENDS Wire, WellFoundedInduction, TLAPS

-----------------------------------------------------------------------------
\* Induction, recursion and sequences

(* The empty sequence, and the others.                                      *)
LEMMA EmptySeq ==
  ASSUME NEW S
  PROVE  /\ <<>> \in Seq(S) /\ Len(<<>>) = 0
         /\ \A s \in Seq(S) : s # <<>> => Len(s) \in Nat \ {0}
OBVIOUS

(* A sequence is a function on the numbers up to its length.                *)
LEMMA LenProperties ==
  ASSUME NEW S, NEW s \in Seq(S)
  PROVE  Len(s) \in Nat /\ s \in [1..Len(s) -> S] /\ DOMAIN s = 1..Len(s)
OBVIOUS

(* A sequence is determined by its elements.                                *)
LEMMA SeqEqual ==
  ASSUME NEW S, NEW s \in Seq(S), NEW t \in Seq(S),
         Len(s) = Len(t), \A i \in 1..Len(s) : s[i] = t[i]
  PROVE  s = t
OBVIOUS

(* A nonempty set of naturals has a least element.                         *)
LEMMA LeastElement ==
  ASSUME NEW T \in SUBSET Nat, T # {}
  PROVE  \E m \in T : \A k \in T : m <= k
<1> DEFINE R == {p \in Nat \X Nat : p[1] < p[2]}
<1>1. IsWellFoundedOn(R, Nat)
  BY NatLessThanWellFounded DEF OpToRel
<1>2. PICK x \in T : \A y \in T : ~(<<y, x>> \in R)
  BY <1>1, WFMin, Zenon
<1>3. ASSUME NEW y \in T PROVE x <= y
  <2>1. ~(<<y, x>> \in R)
    BY <1>2
  <2> QED
    BY <2>1
<1> QED
  BY <1>3

(* Induction: a set that holds 0, and with a number up to n its successor, *)
(* holds all numbers up to n.                                              *)
LEMMA InductTo ==
  ASSUME NEW T, NEW n \in Nat, 0 \in T, \A i \in 1..n : i - 1 \in T => i \in T
  PROVE  n \in T /\ \A i \in 0..n : i \in T
<1>1. SUFFICES ASSUME {i \in 0..n : i \notin T} # {} PROVE FALSE
  OBVIOUS
<1>2. PICK m \in {i \in 0..n : i \notin T} : \A k \in {i \in 0..n : i \notin T} : m <= k
  <2>1. {i \in 0..n : i \notin T} \in SUBSET Nat
    OBVIOUS
  <2> QED
    BY <1>1, <2>1, LeastElement, Zenon
<1>3. m \in 1..n /\ m - 1 \in 0..n /\ ~(m <= m - 1)
  BY <1>2
<1> QED
  BY <1>2, <1>3, Zenon

\* f starts with v, and each value up to f[n] follows from the one before.
Iterates(f, v, G, n) == f[0] = v /\ \A i \in 1..n : f[i] = G[i][f[i - 1]]

(* Recursion: a function is defined by its first value and by how each     *)
(* value follows from the one before it.                                   *)
LEMMA Recursion ==
  ASSUME NEW V, NEW v \in V, NEW G \in [Nat -> [V -> V]], NEW n \in Nat
  PROVE  \E f \in [0..n -> V] : Iterates(f, v, G, n)
<1> DEFINE T == {k \in Nat : \E f \in [0..k -> V] : Iterates(f, v, G, k)}
<1>1. 0 \in T
  <2>1. [i \in 0..0 |-> v] \in [0..0 -> V] /\ Iterates([i \in 0..0 |-> v], v, G, 0)
    BY DEF Iterates
  <2> QED
    BY <2>1, Zenon
<1>2. ASSUME NEW k \in 1..n, k - 1 \in T PROVE k \in T
  <2>1. PICK f \in [0..k - 1 -> V] : Iterates(f, v, G, k - 1)
    BY <1>2
  <2> DEFINE g == [i \in 0..k |-> IF i <= k - 1 THEN f[i] ELSE G[k][f[k - 1]]]
  <2>2. g \in [0..k -> V]
    OBVIOUS
  <2>3. g[0] = v
    BY <2>1 DEF Iterates
  <2>4. ASSUME NEW i \in 1..k PROVE g[i] = G[i][g[i - 1]]
    <3>1. CASE i \in 1..k - 1
      BY <2>1, <3>1 DEF Iterates
    <3>2. CASE i = k
      BY <3>2
    <3> QED
      BY <3>1, <3>2
  <2>5. Iterates(g, v, G, k)
    BY <2>3, <2>4, Zenon DEF Iterates
  <2>6. k \in Nat
    OBVIOUS
  <2> HIDE DEF g
  <2> QED
    BY <2>2, <2>5, <2>6, Zenon
<1> HIDE DEF T
<1>3. n \in T
  BY <1>1, <1>2, InductTo, Zenon
<1> QED
  BY <1>3 DEF T

-----------------------------------------------------------------------------
(* Flatten.                                                             *)

\* Concatenation under another name, which the provers do not look into.
Cat(s, t) == s \o t

(* What is needed of it here.                                              *)
LEMMA CatProperties ==
  ASSUME NEW S
  PROVE  /\ <<>> \in Seq(S)
         /\ \A s, t \in Seq(S) : Cat(s, t) \in Seq(S)
         /\ \A s \in Seq(S) : Cat(<<>>, s) = s /\ Cat(s, <<>>) = s
BY DEF Cat

\* The concatenations of the first parts.
PrefixSums(f, ss) == f[0] = <<>> /\ \A i \in 1..Len(ss) : f[i] = Cat(f[i - 1], ss[i])

(* Flatten is the last of the concatenations of the first parts.         *)
LEMMA FlattenIs ==
  ASSUME NEW S, NEW ss \in Seq(Seq(S))
  PROVE  \E f \in [0..Len(ss) -> Seq(S)] :
           PrefixSums(f, ss) /\ Flatten(ss) = f[Len(ss)]
<1> DEFINE n == Len(ss)
           G == [i \in Nat |-> [u \in Seq(S) |-> IF i \in 1..n THEN Cat(u, ss[i]) ELSE u]]
<1>1. n \in Nat /\ ss \in [1..n -> Seq(S)] /\ <<>> \in Seq(S)
  BY CatProperties
<1>2. G \in [Nat -> [Seq(S) -> Seq(S)]]
  BY <1>1, CatProperties
<1> HIDE DEF G
<1>3. PICK g \in [0..n -> Seq(S)] : Iterates(g, <<>>, G, n)
  BY <1>1, <1>2, Recursion, Zenon
<1>4. PrefixSums(g, ss)
  <2>1. ASSUME NEW i \in 1..n PROVE g[i] = Cat(g[i - 1], ss[i])
    <3>1. i \in Nat /\ i - 1 \in 0..n
      BY <1>1
    <3>2. g[i] = G[i][g[i - 1]] /\ g[i - 1] \in Seq(S)
      BY <1>3, <3>1, Zenon DEF Iterates
    <3> QED
      BY <3>1, <3>2 DEF G
  <2> QED
    BY <1>3, <2>1, Zenon DEF PrefixSums, Iterates
<1> DEFINE F(f) == f = [i \in 0..n |-> IF i = 0 THEN <<>> ELSE Cat(f[i - 1], ss[i])]
<1>5. F(g)
  <2>1. ASSUME NEW i \in 0..n PROVE g[i] = IF i = 0 THEN <<>> ELSE Cat(g[i - 1], ss[i])
    BY <1>1, <1>4, <2>1 DEF PrefixSums
  <2> QED
    BY <2>1, Zenon
<1> DEFINE f == CHOOSE f : F(f)
<1>6. Flatten(ss) = f[n]
  BY Zenon DEF Flatten, Cat
<1>7. F(f)
  BY <1>5, Zenon
<1> HIDE DEF f
<1> DEFINE T == {i \in Nat : f[i] = g[i]}
<1>8. f[0] = <<>> /\ \A i \in 1..n : f[i] = Cat(f[i - 1], ss[i])
  <2>1. \A i \in 0..n : f[i] = IF i = 0 THEN <<>> ELSE Cat(f[i - 1], ss[i])
    BY <1>7, Zenon
  <2> HIDE DEF F
  <2> QED
    BY <1>1, <2>1
<1> HIDE DEF F
<1>9. 0 \in T
  BY <1>4, <1>8 DEF PrefixSums
<1>10. ASSUME NEW i \in 1..n, i - 1 \in T PROVE i \in T
  <2>1. f[i - 1] = g[i - 1] /\ i \in Nat
    BY <1>10
  <2>2. g[i] = Cat(g[i - 1], ss[i])
    BY <1>4 DEF PrefixSums
  <2> QED
    BY <1>8, <2>1, <2>2, Zenon
<1> HIDE DEF T
<1>11. n \in T
  BY <1>1, <1>9, <1>10, InductTo
<1>12. f[n] = g[n]
  BY <1>11 DEF T
<1> QED
  BY <1>4, <1>6, <1>12

(* No parts give the empty sequence.                                        *)
LEMMA FlattenEmpty == Flatten(<<>>) = <<>>
<1>1. <<>> \in Seq(Seq({})) /\ Len(<<>>) = 0
  OBVIOUS
<1>2. PICK f \in [0..Len(<<>>) -> Seq({})] :
        PrefixSums(f, <<>>) /\ Flatten(<<>>) = f[Len(<<>>)]
  BY <1>1, FlattenIs, Zenon
<1> QED
  BY <1>1, <1>2, Zenon DEF PrefixSums

(* The elements are those of the parts.                                     *)
LEMMA FlattenType ==
  ASSUME NEW S, NEW ss \in Seq(Seq(S))
  PROVE  Flatten(ss) \in Seq(S)
<1>1. Len(ss) \in 0..Len(ss)
  OBVIOUS
<1> QED
  BY <1>1, FlattenIs

(* Concatenation is associative.                                           *)
LEMMA CatAssociative ==
  ASSUME NEW S, NEW s \in Seq(S), NEW t \in Seq(S), NEW u \in Seq(S)
  PROVE  Cat(Cat(s, t), u) = Cat(s, Cat(t, u))
BY DEF Cat

(* ... of which the first part comes first ...                              *)
LEMMA FlattenFirst ==
  ASSUME NEW S, NEW ss \in Seq(Seq(S)), ss # <<>>
  PROVE  Flatten(ss) = Cat(ss[1], Flatten(Tail(ss)))
<1> DEFINE n == Len(ss)
           tt == Tail(ss)
<1>1. /\ n \in Nat \ {0} /\ tt \in Seq(Seq(S)) /\ Len(tt) = n - 1 /\ ss[1] \in Seq(S)
      /\ \A i \in 1..n - 1 : tt[i] = ss[i + 1] /\ tt[i] \in Seq(S)
  OBVIOUS
<1> HIDE DEF tt
<1>2. \A a, b, c \in Seq(S) : Cat(Cat(a, b), c) = Cat(a, Cat(b, c))
  BY CatAssociative
<1>3. PICK f \in [0..n -> Seq(S)] : PrefixSums(f, ss) /\ Flatten(ss) = f[n]
  BY FlattenIs, Zenon
<1>4. PICK g \in [0..Len(tt) -> Seq(S)] : PrefixSums(g, tt) /\ Flatten(tt) = g[Len(tt)]
  BY <1>1, FlattenIs, Zenon
<1> DEFINE T == {i \in Nat : f[i + 1] = Cat(ss[1], g[i])}
<1>5. 0 \in T
  <2>1. f[1] = Cat(<<>>, ss[1]) /\ g[0] = <<>>
    BY <1>1, <1>3, <1>4 DEF PrefixSums
  <2>2. f[1] = Cat(ss[1], g[0])
    BY <1>1, <2>1, CatProperties
  <2> QED
    BY <2>2
<1>6. ASSUME NEW i \in 1..n - 1, i - 1 \in T PROVE i \in T
  <2>1. i \in Nat /\ i + 1 \in 1..n /\ (i + 1) - 1 = i /\ i \in 1..Len(tt) /\ i - 1 \in 0..Len(tt)
    BY <1>1
  <2>2. f[i] = Cat(ss[1], g[i - 1])
    BY <1>6, <2>1
  <2>3. f[i + 1] = Cat(f[i], tt[i]) /\ g[i] = Cat(g[i - 1], tt[i])
    BY <1>1, <1>3, <1>4, <2>1, Zenon DEF PrefixSums
  <2>4. g[i - 1] \in Seq(S) /\ tt[i] \in Seq(S)
    BY <1>1, <2>1, Zenon
  <2>5. Cat(Cat(ss[1], g[i - 1]), tt[i]) = Cat(ss[1], Cat(g[i - 1], tt[i]))
    BY <1>1, <1>2, <2>4, Zenon
  <2>6. f[i + 1] = Cat(ss[1], g[i])
    BY <2>2, <2>3, <2>5, Zenon
  <2> QED
    BY <2>1, <2>6, Zenon
<1> HIDE DEF T
<1>7. n - 1 \in T
  BY <1>1, <1>5, <1>6, InductTo
<1>8. f[n] = Cat(ss[1], g[n - 1])
  BY <1>1, <1>7 DEF T
<1> QED
  BY <1>1, <1>3, <1>4, <1>8 DEF tt

(* The elements of a concatenation, without their types.                    *)
LEMMA CatIndex ==
  ASSUME NEW S
  PROVE  \A s, t \in Seq(S) : /\ Len(Cat(s, t)) = Len(s) + Len(t)
                              /\ \A i \in 1..Len(s) : Cat(s, t)[i] = s[i]
                              /\ \A i \in 1..Len(t) : Cat(s, t)[Len(s) + i] = t[i]
BY DEF Cat

(* A function on 1..n is a sequence of n elements.                         *)
LEMMA FunctionIsSeq ==
  ASSUME NEW S, NEW n \in Nat, NEW f \in [1..n -> S]
  PROVE  f \in Seq(S) /\ Len(f) = n
<1>1. \A i \in 1..n : f[i] \in S
  OBVIOUS
<1>2. [i \in 1..n |-> f[i]] \in Seq(S) /\ Len([i \in 1..n |-> f[i]]) = n
  BY <1>1
<1>3. [i \in 1..n |-> f[i]] = f
  OBVIOUS
<1> QED
  BY <1>2, <1>3

\* SubSeq under another name, which the provers do not look into.
Part(b, m, n) == SubSeq(b, m, n)

(* What SubSeq returns.                                                    *)
LEMMA PartProperties ==
  ASSUME NEW S, NEW b, NEW m \in Int, NEW n \in Int, m <= n + 1,
         \A i \in m..n : b[i] \in S
  PROVE  /\ Part(b, m, n) \in Seq(S) /\ Len(Part(b, m, n)) = n - m + 1
         /\ \A i \in 1..n - m + 1 : Part(b, m, n)[i] = b[m + i - 1]
<1>1. Len(Part(b, m, n)) = IF m <= n THEN n - m + 1 ELSE 0
  BY DEF Part
<1> QED
  BY <1>1 DEF Part

(* The bytes of a sequence from m + 1 to n.                                *)
LEMMA PartOfSeq ==
  ASSUME NEW S, NEW s \in Seq(S), NEW n \in 0..Len(s), NEW m \in 0..n
  PROVE  /\ Part(s, m + 1, n) \in Seq(S) /\ Len(Part(s, m + 1, n)) = n - m
         /\ \A i \in 1..n - m : Part(s, m + 1, n)[i] = s[m + i]
<1> DEFINE p == m + 1
<1>1. /\ p \in Int /\ n \in Int /\ p <= n + 1 /\ n - p + 1 = n - m
      /\ \A i \in 1..n - m : p + i - 1 = m + i
  OBVIOUS
<1>2. \A i \in p..n : s[i] \in S
  OBVIOUS
<1> HIDE DEF p
<1>3. /\ Part(s, p, n) \in Seq(S) /\ Len(Part(s, p, n)) = n - p + 1
      /\ \A i \in 1..n - p + 1 : Part(s, p, n)[i] = s[p + i - 1]
  <2>1. p \in Int /\ n \in Int /\ p <= n + 1
    BY <1>1
  <2> QED
    BY <1>2, <2>1, PartProperties
<1> QED
  BY <1>1, <1>3, Zenon DEF p

(* Its first n bytes.                                                      *)
LEMMA FrontOfSeq ==
  ASSUME NEW S, NEW s \in Seq(S), NEW n \in 0..Len(s)
  PROVE  /\ Part(s, 1, n) \in Seq(S) /\ Len(Part(s, 1, n)) = n
         /\ \A i \in 1..n : Part(s, 1, n)[i] = s[i]
<1>1. 0 \in 0..n /\ 0 + 1 = 1 /\ n - 0 = n /\ \A i \in 1..n : 0 + i = i
  OBVIOUS
<1>2. /\ Part(s, 0 + 1, n) \in Seq(S) /\ Len(Part(s, 0 + 1, n)) = n - 0
      /\ \A i \in 1..n - 0 : Part(s, 0 + 1, n)[i] = s[0 + i]
  BY <1>1, PartOfSeq, Zenon
<1> QED
  BY <1>1, <1>2

\* Part j of a sequence whose parts have these ends, and what it holds
Ends(e, ss) == e[0] = 0 /\ \A j \in 1..Len(ss) : e[j] = e[j - 1] + Len(ss[j])
PartOf(s, e, ss, j) == e[j] <= Len(s) /\ \A k \in 1..Len(ss[j]) : s[e[j - 1] + k] = ss[j][k]

(* ... and part j ends at e[j].                                             *)
LEMMA FlattenParts ==
  ASSUME NEW S, NEW ss \in Seq(Seq(S))
  PROVE  \E e \in [0..Len(ss) -> Nat] :
           /\ Ends(e, ss) /\ Len(Flatten(ss)) = e[Len(ss)]
           /\ \A j \in 1..Len(ss) : PartOf(Flatten(ss), e, ss, j)
<1> DEFINE n == Len(ss)
<1>1. n \in Nat /\ \A i \in 1..n : ss[i] \in Seq(S)
  OBVIOUS
<1>2. PICK f \in [0..n -> Seq(S)] : PrefixSums(f, ss) /\ Flatten(ss) = f[n]
  BY FlattenIs, Zenon
<1>3. \A s, t \in Seq(S) : /\ Len(Cat(s, t)) = Len(s) + Len(t)
                           /\ \A i \in 1..Len(s) : Cat(s, t)[i] = s[i]
                           /\ \A i \in 1..Len(t) : Cat(s, t)[Len(s) + i] = t[i]
  BY CatIndex
<1>4. \A a, b, c \in Nat : a <= b => a <= b + c
  OBVIOUS
<1> DEFINE e == [j \in 0..n |-> Len(f[j])]
<1>5. /\ e \in [0..n -> Nat] /\ e[0] = 0 /\ e[n] = Len(f[n])
      /\ \A j \in 0..n : e[j] = Len(f[j]) /\ e[j] \in Nat
  BY <1>1, <1>2 DEF PrefixSums
<1> HIDE DEF e
<1>6. ASSUME NEW j \in 1..n
      PROVE  /\ j - 1 \in 0..n /\ j \in 0..n /\ f[j - 1] \in Seq(S) /\ f[j] \in Seq(S)
             /\ f[j] = Cat(f[j - 1], ss[j]) /\ e[j] = e[j - 1] + Len(ss[j])
  <2>1. j - 1 \in 0..n /\ j \in 0..n /\ f[j] = Cat(f[j - 1], ss[j])
    BY <1>1, <1>2 DEF PrefixSums
  <2>2. e[j] = Len(f[j]) /\ e[j - 1] = Len(f[j - 1]) /\ f[j - 1] \in Seq(S) /\ f[j] \in Seq(S)
    BY <1>5, <2>1, Zenon
  <2>3. Len(Cat(f[j - 1], ss[j])) = Len(f[j - 1]) + Len(ss[j])
    BY <1>1, <1>3, <2>2, Zenon
  <2> QED
    BY <2>1, <2>2, <2>3, Zenon
<1>7. Ends(e, ss)
  BY <1>5, <1>6, Zenon DEF Ends
<1> DEFINE T == {j \in Nat : \A i \in 1..j : PartOf(f[j], e, ss, i)}
<1>8. 0 \in T
  OBVIOUS
<1>9. ASSUME NEW j \in 1..n, j - 1 \in T PROVE j \in T
  <2>1. ASSUME NEW i \in 1..j PROVE PartOf(f[j], e, ss, i)
    <3>1. i \in 1..n /\ i - 1 \in 0..n
      BY <1>1
    <3>2. /\ e[i] = e[i - 1] + Len(ss[i]) /\ e[i - 1] \in Nat
          /\ e[j - 1] = Len(f[j - 1]) /\ f[j] = Cat(f[j - 1], ss[j])
      BY <1>1, <1>5, <1>6, <3>1, Zenon
    <3>3. ss[i] \in Seq(S) /\ ss[j] \in Seq(S) /\ f[j - 1] \in Seq(S)
      BY <1>1, <1>6, <3>1, Zenon
    <3>4. Len(ss[i]) \in Nat /\ Len(ss[j]) \in Nat /\ Len(f[j - 1]) \in Nat
      BY <3>3, LenProperties
    <3>5. /\ Len(Cat(f[j - 1], ss[j])) = Len(f[j - 1]) + Len(ss[j])
          /\ \A k \in 1..Len(f[j - 1]) : Cat(f[j - 1], ss[j])[k] = f[j - 1][k]
          /\ \A k \in 1..Len(ss[j]) : Cat(f[j - 1], ss[j])[Len(f[j - 1]) + k] = ss[j][k]
      BY <1>3, <3>3, Zenon
    <3>6. CASE i = j
      <4> HIDE DEF n, e
      <4>1. e[j] <= Len(f[j])
        <5>1. e[j] = Len(f[j]) /\ e[j] \in Nat
          BY <1>5, <1>6, Zenon
        <5> QED
          BY <5>1
      <4>2. ASSUME NEW k \in 1..Len(ss[j]) PROVE f[j][e[j - 1] + k] = ss[j][k]
        BY <3>2, <3>5
      <4> QED
        BY <3>6, <4>1, <4>2 DEF PartOf
    <3>7. CASE i # j
      <4>1. PartOf(f[j - 1], e, ss, i)
        BY <1>9, <3>7
      <4> QED
        <5>1. e[i] <= Len(f[j - 1]) /\ \A k \in 1..Len(ss[i]) : f[j - 1][e[i - 1] + k] = ss[i][k]
          BY <4>1, Zenon DEF PartOf
        <5>2. e[i] <= Len(f[j])
          <6> HIDE DEF n, e
          <6>1. Len(f[j]) = Len(f[j - 1]) + Len(ss[j]) /\ e[i] \in Nat
            <7>1. \A k \in 0..n : e[k] \in Nat
              BY <1>5, Zenon
            <7>2. i \in 0..n
              BY <1>1, <3>1
            <7> QED
              BY <3>2, <3>5, <7>1, <7>2, Zenon
          <6> QED
            BY <1>4, <3>4, <5>1, <6>1, Zenon
        <5>3. ASSUME NEW k \in 1..Len(ss[i]) PROVE f[j][e[i - 1] + k] = ss[i][k]
          <6> HIDE DEF n, e
          <6>1. e[i - 1] + k \in 1..Len(f[j - 1])
            <7>1. /\ e[i - 1] \in Nat /\ e[i] = e[i - 1] + Len(ss[i]) /\ e[i] <= Len(f[j - 1])
                  /\ Len(ss[i]) \in Nat /\ Len(f[j - 1]) \in Nat
              BY <3>2, <3>4, <5>1, Zenon
            <7> DEFINE a == e[i - 1]
                       b == e[i]
                       l == Len(ss[i])
                       m == Len(f[j - 1])
            <7>2. a \in Nat /\ b = a + l /\ b <= m /\ l \in Nat /\ m \in Nat /\ k \in 1..l
              BY <7>1, Zenon
            <7> HIDE DEF a, b, l, m
            <7>3. a + k \in 1..m
              BY <7>2
            <7> QED
              BY <7>3, Zenon DEF a, m
          <6> QED
            BY <3>2, <3>5, <5>1, <6>1, Zenon
        <5> QED
          BY <5>2, <5>3, Zenon DEF PartOf
    <3> QED
      BY <3>6, <3>7
  <2>2. j \in Nat
    OBVIOUS
  <2> QED
    BY <2>1, <2>2, Zenon
<1> HIDE DEF T
<1>10. n \in T
  BY <1>1, <1>8, <1>9, InductTo
<1>11. \A j \in 1..n : PartOf(Flatten(ss), e, ss, j)
  BY <1>2, <1>10 DEF T
<1>12. Len(Flatten(ss)) = e[n]
  BY <1>2, <1>5
<1> QED
  BY <1>5, <1>7, <1>11, <1>12, Zenon

-----------------------------------------------------------------------------
\* Bits and masks

(* The weights of the bits of a byte.                                       *)
LEMMA Powers ==
  /\ 2^0 = 1 /\ 2^1 = 2 /\ 2^2 = 4 /\ 2^3 = 8
  /\ 2^4 = 16 /\ 2^5 = 32 /\ 2^6 = 64 /\ 2^7 = 128
OBVIOUS

\* The number with these bits, least significant first
FromBits(a, b, c, d, e, f, g, h) ==
  a + 2 * b + 4 * c + 8 * d + 16 * e + 32 * f + 64 * g + 128 * h

(* A byte is the number its bits spell.                                     *)
LEMMA BitsOfByte ==
  ASSUME NEW a \in Byte
  PROVE  /\ a = FromBits(BitOf(a, 0), BitOf(a, 1), BitOf(a, 2), BitOf(a, 3),
                         BitOf(a, 4), BitOf(a, 5), BitOf(a, 6), BitOf(a, 7))
         /\ \A e \in 0..7 : BitOf(a, e) \in 0..1
<1>1. /\ BitOf(a, 0) \in 0..1 /\ BitOf(a, 1) \in 0..1 /\ BitOf(a, 2) \in 0..1
      /\ BitOf(a, 3) \in 0..1 /\ BitOf(a, 4) \in 0..1 /\ BitOf(a, 5) \in 0..1
      /\ BitOf(a, 6) \in 0..1 /\ BitOf(a, 7) \in 0..1
  BY Powers DEF Byte, BitOf
<1>2. \A e \in 0..7 : BitOf(a, e) \in 0..1
  <2>1. \A e \in 0..7 : e = 0 \/ e = 1 \/ e = 2 \/ e = 3 \/ e = 4 \/ e = 5 \/ e = 6 \/ e = 7
    OBVIOUS
  <2> QED
    BY <1>1, <2>1, Zenon
<1> QED
  BY <1>2, Powers DEF Byte, BitOf, FromBits

(* The bits of a number that is spelled are those it was spelled with.      *)
LEMMA BitsOfNumber ==
  ASSUME NEW a \in 0..1, NEW b \in 0..1, NEW c \in 0..1, NEW d \in 0..1,
         NEW e \in 0..1, NEW f \in 0..1, NEW g \in 0..1, NEW h \in 0..1,
         NEW x, x = FromBits(a, b, c, d, e, f, g, h)
  PROVE  /\ x \in Byte
         /\ BitOf(x, 0) = a /\ BitOf(x, 1) = b /\ BitOf(x, 2) = c /\ BitOf(x, 3) = d
         /\ BitOf(x, 4) = e /\ BitOf(x, 5) = f /\ BitOf(x, 6) = g /\ BitOf(x, 7) = h
BY Powers DEF Byte, BitOf, FromBits

\* Exclusive or of two bits
Flip(a, b) == (a + b) % 2

(* Masking twice with the same byte gives the byte back.                    *)
LEMMA XorBack ==
  ASSUME NEW m \in Byte, NEW p \in Byte
  PROVE  Xor(m, p) \in Byte /\ Xor(Xor(m, p), m) = p
<1> DEFINE D(e) == Flip(BitOf(m, e), BitOf(p, e))
           x == Xor(m, p)
<1>1. \A a, b \in 0..1 : Flip(a, b) \in 0..1 /\ Flip(Flip(a, b), a) = b
  BY DEF Flip
<1>2. /\ 0 \in 0..7 /\ 1 \in 0..7 /\ 2 \in 0..7 /\ 3 \in 0..7
      /\ 4 \in 0..7 /\ 5 \in 0..7 /\ 6 \in 0..7 /\ 7 \in 0..7
  OBVIOUS
<1>3. ASSUME NEW e \in 0..7 PROVE D(e) \in 0..1 /\ Flip(D(e), BitOf(m, e)) = BitOf(p, e)
  BY <1>1, BitsOfByte, Zenon
<1>4. x = FromBits(D(0), D(1), D(2), D(3), D(4), D(5), D(6), D(7))
  <2>1. \A e \in 0..7 : D(e) \in Int
    BY <1>3
  <2> QED
    BY Powers, <1>2, <2>1 DEF Xor, FromBits, Flip
<1> HIDE DEF x, D
<1>5. /\ x \in Byte
      /\ BitOf(x, 0) = D(0) /\ BitOf(x, 1) = D(1) /\ BitOf(x, 2) = D(2) /\ BitOf(x, 3) = D(3)
      /\ BitOf(x, 4) = D(4) /\ BitOf(x, 5) = D(5) /\ BitOf(x, 6) = D(6) /\ BitOf(x, 7) = D(7)
  BY <1>2, <1>3, <1>4, BitsOfNumber
<1>6. Xor(x, m) = FromBits(BitOf(p, 0), BitOf(p, 1), BitOf(p, 2), BitOf(p, 3),
                           BitOf(p, 4), BitOf(p, 5), BitOf(p, 6), BitOf(p, 7))
  <2>1. /\ Flip(BitOf(x, 0), BitOf(m, 0)) = BitOf(p, 0) /\ Flip(BitOf(x, 1), BitOf(m, 1)) = BitOf(p, 1)
        /\ Flip(BitOf(x, 2), BitOf(m, 2)) = BitOf(p, 2) /\ Flip(BitOf(x, 3), BitOf(m, 3)) = BitOf(p, 3)
        /\ Flip(BitOf(x, 4), BitOf(m, 4)) = BitOf(p, 4) /\ Flip(BitOf(x, 5), BitOf(m, 5)) = BitOf(p, 5)
        /\ Flip(BitOf(x, 6), BitOf(m, 6)) = BitOf(p, 6) /\ Flip(BitOf(x, 7), BitOf(m, 7)) = BitOf(p, 7)
    BY <1>2, <1>3, <1>5, Zenon
  <2>2. \A e \in 0..7 : BitOf(p, e) \in Int
    BY BitsOfByte
  <2> QED
    BY Powers, <1>2, <2>1, <2>2 DEF Xor, FromBits, Flip
<1> QED
  BY <1>5, <1>6, BitsOfByte, Zenon DEF x

(* Concatenation of bytes.                                                  *)
LEMMA CatBytes ==
  \A s, t \in Seq(Byte) : /\ Cat(s, t) \in Seq(Byte) /\ Len(Cat(s, t)) = Len(s) + Len(t)
                          /\ \A i \in 1..Len(s) : Cat(s, t)[i] = s[i]
                          /\ \A i \in 1..Len(t) : Cat(s, t)[Len(s) + i] = t[i]
<1>1. \A s, t \in Seq(Byte) : Cat(s, t) \in Seq(Byte)
  BY CatProperties
<1>2. \A s, t \in Seq(Byte) : /\ Len(Cat(s, t)) = Len(s) + Len(t)
                              /\ \A i \in 1..Len(s) : Cat(s, t)[i] = s[i]
                              /\ \A i \in 1..Len(t) : Cat(s, t)[Len(s) + i] = t[i]
  BY CatIndex
<1> QED
  BY <1>1, <1>2, Zenon

(* The two bytes of a header: the top bit and seven bits.                   *)
LEMMA TopBit ==
  \A n \in 0..127 : /\ 128 + n \in Byte /\ (128 + n) \div 128 = 1
                    /\ (128 + n) % 128 = n /\ (128 + n) - 128 = n
BY DEF Byte

\* w has a header of the bytes a and b, the mask m and the masked payload q.
IsMasked(w, a, b, m, q) ==
  /\ Len(w) = 6 + Len(q) /\ w[1] = a /\ w[2] = b
  /\ \A i \in 1..4 : w[2 + i] = m[i]
  /\ \A i \in 1..Len(q) : w[6 + i] = q[i]

(* What write_control_frame() puts together is such a frame.                *)
LEMMA MaskedFrame ==
  ASSUME NEW a \in Byte, NEW b \in Byte, NEW m \in [1..4 -> Byte], NEW q \in Seq(Byte)
  PROVE  IsMasked(Cat(Cat(<<a, b>>, m), q), a, b, m, q)
<1> DEFINE ab == <<a, b>>
           h == Cat(ab, m)
           w == Cat(h, q)
<1>1. ab \in Seq(Byte) /\ Len(ab) = 2 /\ ab[1] = a /\ ab[2] = b
  OBVIOUS
<1>2. m \in Seq(Byte) /\ Len(m) = 4
  BY FunctionIsSeq, Zenon
<1> HIDE DEF ab
<1>3. /\ h \in Seq(Byte) /\ Len(h) = Len(ab) + Len(m)
      /\ \A i \in 1..Len(ab) : h[i] = ab[i]
      /\ \A i \in 1..Len(m) : h[Len(ab) + i] = m[i]
  BY <1>1, <1>2, CatBytes, Zenon
<1>4. Len(h) = 6 /\ h[1] = a /\ h[2] = b /\ \A i \in 1..4 : h[2 + i] = m[i]
  <2> HIDE DEF h
  <2> QED
    BY <1>1, <1>2, <1>3
<1> HIDE DEF h
<1>5. /\ Len(w) = Len(h) + Len(q)
      /\ \A i \in 1..Len(h) : w[i] = h[i]
      /\ \A i \in 1..Len(q) : w[Len(h) + i] = q[i]
  BY <1>3, CatBytes, Zenon
<1> HIDE DEF w
<1>6. \A i \in 1..4 : 2 + i \in 1..6
  OBVIOUS
<1>7. w[1] = a /\ w[2] = b /\ \A i \in 1..4 : w[2 + i] = m[i]
  BY <1>4, <1>5, <1>6
<1> QED
  BY <1>4, <1>5, <1>7, Zenon DEF IsMasked, w, h, ab

(* Masking keeps the length.                                                *)
LEMMA MaskedType ==
  ASSUME NEW p \in Seq(Byte), NEW m \in [1..4 -> Byte]
  PROVE  /\ Masked(p, m) \in Seq(Byte) /\ Len(Masked(p, m)) = Len(p)
         /\ \A i \in 1..Len(p) :
              /\ (i - 1) % 4 \in 0..3
              /\ Masked(p, m)[i] = Xor(m[((i - 1) % 4) + 1], p[i])
<1> DEFINE f == [i \in 1..Len(p) |-> Xor(m[((i - 1) % 4) + 1], p[i])]
<1>1. Len(p) \in Nat
  OBVIOUS
<1>2. ASSUME NEW i \in 1..Len(p)
      PROVE  /\ (i - 1) % 4 \in 0..3 /\ m[((i - 1) % 4) + 1] \in Byte /\ p[i] \in Byte
  <2>1. i \in Nat /\ (i - 1) % 4 \in 0..3
    BY <1>1
  <2> QED
    BY <2>1
<1>3. \A i \in 1..Len(p) : Xor(m[((i - 1) % 4) + 1], p[i]) \in Byte
  BY <1>2, XorBack, Zenon
<1>4. f \in [1..Len(p) -> Byte]
  BY <1>3, Zenon
<1>5. f \in Seq(Byte) /\ Len(f) = Len(p)
  <2> HIDE DEF f
  <2> QED
    BY <1>1, <1>4, FunctionIsSeq
<1>6. \A i \in 1..Len(p) : f[i] = Xor(m[((i - 1) % 4) + 1], p[i])
  BY Zenon
<1> QED
  BY <1>2, <1>5, <1>6, Zenon DEF Masked

(* A server that unmasks a frame gets the payload that was masked.          *)
LEMMA Unmasks ==
  ASSUME NEW op \in 0..15, NEW p \in Seq(Byte), Len(p) <= 125, NEW m \in [1..4 -> Byte],
         NEW w, IsMasked(w, 128 + op, 128 + Len(p), m, Masked(p, m))
  PROVE  /\ Len(w) = 6 + Len(p)
         /\ Unmasking(w) = [fin |-> 1, op |-> op, n |-> Len(p), payload |-> p]
<1> DEFINE q == Masked(p, m)
           a == 128 + op
           b == 128 + Len(p)
<1>1. a \in Byte /\ b \in Byte /\ a \div 128 = 1 /\ a % 128 = op /\ b - 128 = Len(p)
  <2>1. \A n \in Nat : n <= 125 => n \in 0..127
    OBVIOUS
  <2>2. op \in 0..127
    OBVIOUS
  <2>3. Len(p) \in 0..127
    BY <2>1, LenProperties, Zenon
  <2>4. a \in Byte /\ a \div 128 = 1 /\ a % 128 = op
    BY <2>2, TopBit, Zenon
  <2>5. b \in Byte /\ b - 128 = Len(p)
    BY <2>3, TopBit, Zenon
  <2> QED
    BY <2>4, <2>5, Zenon
<1>2. /\ q \in Seq(Byte) /\ Len(q) = Len(p)
      /\ \A i \in 1..Len(p) : (i - 1) % 4 \in 0..3 /\ q[i] = Xor(m[((i - 1) % 4) + 1], p[i])
  BY MaskedType, Zenon
<1> HIDE DEF q, a, b
<1>4. /\ Len(w) = 6 + Len(q) /\ w[1] = a /\ w[2] = b
      /\ \A i \in 1..4 : w[2 + i] = m[i]
      /\ \A i \in 1..Len(q) : w[6 + i] = q[i]
  BY Zenon DEF IsMasked, a, b, q
<1>5. ASSUME NEW i \in 1..Len(p) PROVE Xor(w[6 + i], w[3 + ((i - 1) % 4)]) = p[i]
  <2>1. PICK r \in 0..3 : r = (i - 1) % 4
    BY <1>2
  <2>2. r + 1 \in 1..4 /\ 2 + (r + 1) = 3 + r /\ p[i] \in Byte
    OBVIOUS
  <2>3. w[6 + i] = Xor(m[r + 1], p[i])
    BY <1>2, <1>4, <2>1, Zenon
  <2>4. w[3 + r] = m[r + 1]
    BY <1>4, <2>2, Zenon
  <2>5. m[r + 1] \in Byte
    BY <2>2
  <2>6. Xor(Xor(m[r + 1], p[i]), m[r + 1]) = p[i]
    BY <2>2, <2>5, XorBack, Zenon
  <2> QED
    BY <2>1, <2>3, <2>4, <2>6, Zenon
<1>6. [i \in 1..Len(p) |-> Xor(w[6 + i], w[3 + ((i - 1) % 4)])] = [i \in 1..Len(p) |-> p[i]]
  BY <1>5, Zenon
<1>7. [i \in 1..Len(p) |-> p[i]] = p
  OBVIOUS
<1>8. w[1] \div 128 = 1 /\ w[1] % 128 = op /\ w[2] - 128 = Len(p)
  BY <1>1, <1>4, Zenon
<1> QED
  BY <1>2, <1>4, <1>6, <1>7, <1>8, Zenon DEF Unmasking

-----------------------------------------------------------------------------
\* base64_encode

(* The parts of a byte that go into different digits.                       *)
LEMMA ByteParts ==
  ASSUME NEW a \in 0..1, NEW b \in 0..1, NEW c \in 0..1, NEW d \in 0..1,
         NEW e \in 0..1, NEW f \in 0..1, NEW g \in 0..1, NEW h \in 0..1,
         NEW x, x = FromBits(a, b, c, d, e, f, g, h)
  PROVE  /\ x \div 4 = c + 2 * d + 4 * e + 8 * f + 16 * g + 32 * h /\ x % 4 = a + 2 * b
         /\ x \div 16 = e + 2 * f + 4 * g + 8 * h /\ x % 16 = a + 2 * b + 4 * c + 8 * d
         /\ x \div 64 = g + 2 * h /\ x % 64 = a + 2 * b + 4 * c + 8 * d + 16 * e + 32 * f
BY DEF FromBits

(* The digits of three bytes are below 64, and each has six of their bits.  *)
LEMMA SextetBits ==
  ASSUME NEW a \in Byte, NEW b \in Byte, NEW c \in Byte
  PROVE  /\ a \div 4 \in 0..63
         /\ a \div 4 = FromBits(BitOf(a, 2), BitOf(a, 3), BitOf(a, 4), BitOf(a, 5), BitOf(a, 6), BitOf(a, 7), 0, 0)
         /\ (a % 4) * 16 + b \div 16 \in 0..63
         /\ (a % 4) * 16 + b \div 16 = FromBits(BitOf(b, 4), BitOf(b, 5), BitOf(b, 6), BitOf(b, 7), BitOf(a, 0), BitOf(a, 1), 0, 0)
         /\ (b % 16) * 4 + c \div 64 \in 0..63
         /\ (b % 16) * 4 + c \div 64 = FromBits(BitOf(c, 6), BitOf(c, 7), BitOf(b, 0), BitOf(b, 1), BitOf(b, 2), BitOf(b, 3), 0, 0)
         /\ c % 64 \in 0..63
         /\ c % 64 = FromBits(BitOf(c, 0), BitOf(c, 1), BitOf(c, 2), BitOf(c, 3), BitOf(c, 4), BitOf(c, 5), 0, 0)
<1>2. \A e \in 0..7 : BitOf(a, e) \in 0..1 /\ BitOf(b, e) \in 0..1 /\ BitOf(c, e) \in 0..1
  BY BitsOfByte, Zenon
<1>3. 0 \in 0..7 /\ 1 \in 0..7 /\ 2 \in 0..7 /\ 3 \in 0..7 /\ 4 \in 0..7 /\ 5 \in 0..7 /\ 6 \in 0..7 /\ 7 \in 0..7
  OBVIOUS
<1>4. ASSUME NEW x \in Byte
      PROVE  /\ x \div 4 = BitOf(x, 2) + 2 * BitOf(x, 3) + 4 * BitOf(x, 4) + 8 * BitOf(x, 5)
                             + 16 * BitOf(x, 6) + 32 * BitOf(x, 7)
             /\ x % 4 = BitOf(x, 0) + 2 * BitOf(x, 1)
             /\ x \div 16 = BitOf(x, 4) + 2 * BitOf(x, 5) + 4 * BitOf(x, 6) + 8 * BitOf(x, 7)
             /\ x % 16 = BitOf(x, 0) + 2 * BitOf(x, 1) + 4 * BitOf(x, 2) + 8 * BitOf(x, 3)
             /\ x \div 64 = BitOf(x, 6) + 2 * BitOf(x, 7)
             /\ x % 64 = BitOf(x, 0) + 2 * BitOf(x, 1) + 4 * BitOf(x, 2) + 8 * BitOf(x, 3)
                           + 16 * BitOf(x, 4) + 32 * BitOf(x, 5)
  <2>1. /\ BitOf(x, 0) \in 0..1 /\ BitOf(x, 1) \in 0..1 /\ BitOf(x, 2) \in 0..1
        /\ BitOf(x, 3) \in 0..1 /\ BitOf(x, 4) \in 0..1 /\ BitOf(x, 5) \in 0..1
        /\ BitOf(x, 6) \in 0..1 /\ BitOf(x, 7) \in 0..1
    BY <1>3, BitsOfByte, Zenon
  <2>2. x = FromBits(BitOf(x, 0), BitOf(x, 1), BitOf(x, 2), BitOf(x, 3),
                     BitOf(x, 4), BitOf(x, 5), BitOf(x, 6), BitOf(x, 7))
    BY BitsOfByte, Zenon
  <2> QED
    BY <2>1, <2>2, ByteParts
<1> QED
  BY <1>2, <1>3, <1>4 DEF FromBits

\* Where the bits of three bytes are in four digits
SameBits(d, a, b, c) ==
  /\ \A e \in 0..5 : BitOf(d[1], e) = BitOf(a, e + 2)
  /\ \A e \in 4..5 : BitOf(d[2], e) = BitOf(a, e - 4)
  /\ \A e \in 0..3 : BitOf(d[2], e) = BitOf(b, e + 4)
  /\ \A e \in 2..5 : BitOf(d[3], e) = BitOf(b, e - 2)
  /\ \A e \in 0..1 : BitOf(d[3], e) = BitOf(c, e + 6)
  /\ \A e \in 0..5 : BitOf(d[4], e) = BitOf(c, e)

(* Bit by bit: the digits of three bytes.                                   *)
LEMMA DigitBits ==
  ASSUME NEW a \in Byte, NEW b \in Byte, NEW c \in Byte
  PROVE  /\ \A j \in 1..4 : Sextets(a, b, c)[j] \in 0..63
         /\ SameBits(Sextets(a, b, c), a, b, c)
<1> DEFINE d == Sextets(a, b, c)
<1>1. /\ d[1] = a \div 4 /\ d[2] = (a % 4) * 16 + b \div 16
      /\ d[3] = (b % 16) * 4 + c \div 64 /\ d[4] = c % 64
  BY DEF Sextets
<1> HIDE DEF d
<1>2. /\ d[1] \in 0..63 /\ d[2] \in 0..63 /\ d[3] \in 0..63 /\ d[4] \in 0..63
      /\ d[1] = FromBits(BitOf(a, 2), BitOf(a, 3), BitOf(a, 4), BitOf(a, 5), BitOf(a, 6), BitOf(a, 7), 0, 0)
      /\ d[2] = FromBits(BitOf(b, 4), BitOf(b, 5), BitOf(b, 6), BitOf(b, 7), BitOf(a, 0), BitOf(a, 1), 0, 0)
      /\ d[3] = FromBits(BitOf(c, 6), BitOf(c, 7), BitOf(b, 0), BitOf(b, 1), BitOf(b, 2), BitOf(b, 3), 0, 0)
      /\ d[4] = FromBits(BitOf(c, 0), BitOf(c, 1), BitOf(c, 2), BitOf(c, 3), BitOf(c, 4), BitOf(c, 5), 0, 0)
  BY <1>1, SextetBits
<1>3. ASSUME NEW x \in Byte
      PROVE  /\ BitOf(x, 0) \in 0..1 /\ BitOf(x, 1) \in 0..1 /\ BitOf(x, 2) \in 0..1
             /\ BitOf(x, 3) \in 0..1 /\ BitOf(x, 4) \in 0..1 /\ BitOf(x, 5) \in 0..1
             /\ BitOf(x, 6) \in 0..1 /\ BitOf(x, 7) \in 0..1
  <2>1. 0 \in 0..7 /\ 1 \in 0..7 /\ 2 \in 0..7 /\ 3 \in 0..7 /\ 4 \in 0..7 /\ 5 \in 0..7 /\ 6 \in 0..7 /\ 7 \in 0..7
    OBVIOUS
  <2> QED
    BY <2>1, BitsOfByte, Zenon
<1>4. 0 \in 0..1
  OBVIOUS
<1>5. /\ BitOf(d[1], 0) = BitOf(a, 2) /\ BitOf(d[1], 1) = BitOf(a, 3) /\ BitOf(d[1], 2) = BitOf(a, 4)
      /\ BitOf(d[1], 3) = BitOf(a, 5) /\ BitOf(d[1], 4) = BitOf(a, 6) /\ BitOf(d[1], 5) = BitOf(a, 7)
  BY <1>2, <1>3, <1>4, BitsOfNumber, SMTT(20)
<1>6. /\ BitOf(d[2], 0) = BitOf(b, 4) /\ BitOf(d[2], 1) = BitOf(b, 5) /\ BitOf(d[2], 2) = BitOf(b, 6)
      /\ BitOf(d[2], 3) = BitOf(b, 7) /\ BitOf(d[2], 4) = BitOf(a, 0) /\ BitOf(d[2], 5) = BitOf(a, 1)
  BY <1>2, <1>3, <1>4, BitsOfNumber, SMTT(20)
<1>7. /\ BitOf(d[3], 0) = BitOf(c, 6) /\ BitOf(d[3], 1) = BitOf(c, 7) /\ BitOf(d[3], 2) = BitOf(b, 0)
      /\ BitOf(d[3], 3) = BitOf(b, 1) /\ BitOf(d[3], 4) = BitOf(b, 2) /\ BitOf(d[3], 5) = BitOf(b, 3)
  BY <1>2, <1>3, <1>4, BitsOfNumber, SMTT(20)
<1>8. /\ BitOf(d[4], 0) = BitOf(c, 0) /\ BitOf(d[4], 1) = BitOf(c, 1) /\ BitOf(d[4], 2) = BitOf(c, 2)
      /\ BitOf(d[4], 3) = BitOf(c, 3) /\ BitOf(d[4], 4) = BitOf(c, 4) /\ BitOf(d[4], 5) = BitOf(c, 5)
  BY <1>2, <1>3, <1>4, BitsOfNumber, SMTT(20)
<1>9. \A e \in 0..5 : e = 0 \/ e = 1 \/ e = 2 \/ e = 3 \/ e = 4 \/ e = 5
  OBVIOUS
<1>10. \A e \in 0..5 : BitOf(d[1], e) = BitOf(a, e + 2) /\ BitOf(d[4], e) = BitOf(c, e)
  BY <1>5, <1>8, <1>9
<1>11. /\ \A e \in 4..5 : BitOf(d[2], e) = BitOf(a, e - 4)
       /\ \A e \in 0..3 : BitOf(d[2], e) = BitOf(b, e + 4)
  BY <1>6
<1>12. /\ \A e \in 2..5 : BitOf(d[3], e) = BitOf(b, e - 2)
       /\ \A e \in 0..1 : BitOf(d[3], e) = BitOf(c, e + 6)
  BY <1>7
<1>13. SameBits(d, a, b, c)
  BY <1>10, <1>11, <1>12, Zenon DEF SameBits
<1>14. \A j \in 1..4 : d[j] \in 0..63
  BY <1>2
<1> QED
  BY <1>13, <1>14, Zenon DEF d

(* Parts of four digits each.                                               *)
LEMMA FlattenFours ==
  ASSUME NEW ss \in Seq(Seq(0..64)), \A g \in 1..Len(ss) : Len(ss[g]) = 4
  PROVE  /\ Flatten(ss) \in Seq(0..64) /\ Len(Flatten(ss)) = 4 * Len(ss)
         /\ \A g \in 1..Len(ss) : \A j \in 1..4 : Flatten(ss)[4 * (g - 1) + j] = ss[g][j]
<1> DEFINE n == Len(ss)
           F == Flatten(ss)
<1>1. n \in Nat /\ F \in Seq(0..64)
  BY FlattenType, LenProperties
<1>2. PICK e \in [0..n -> Nat] :
        /\ Ends(e, ss) /\ Len(F) = e[n] /\ \A j \in 1..n : PartOf(F, e, ss, j)
  BY FlattenParts, Zenon
<1> HIDE DEF n, F
<1> DEFINE T == {g \in Nat : e[g] = 4 * g}
<1>3. 0 \in T
  BY <1>2 DEF Ends
<1>4. ASSUME NEW g \in 1..n, g - 1 \in T PROVE g \in T
  <2>1. g \in Nat /\ e[g - 1] = 4 * (g - 1)
    BY <1>1, <1>4
  <2>2. e[g] = e[g - 1] + 4
    BY <1>2, Zenon DEF Ends, n
  <2> QED
    BY <2>1, <2>2
<1> HIDE DEF T
<1>5. n \in T /\ \A g \in 0..n : g \in T
  BY <1>1, <1>3, <1>4, InductTo, Zenon
<1>6. e[n] = 4 * n /\ \A g \in 0..n : e[g] = 4 * g
  BY <1>5 DEF T
<1>7. ASSUME NEW g \in 1..n, NEW j \in 1..4 PROVE F[4 * (g - 1) + j] = ss[g][j]
  <2>1. g - 1 \in 0..n
    BY <1>1
  <2>2. e[g - 1] = 4 * (g - 1)
    BY <1>6, <2>1, Zenon
  <2>3. F[e[g - 1] + j] = ss[g][j]
    BY <1>2, Zenon DEF PartOf, n
  <2> QED
    BY <2>2, <2>3, Zenon
<1> QED
  BY <1>1, <1>2, <1>6, <1>7, Zenon DEF n, F

\* The bytes of s, from 1, with zeros behind them
Zeros(s, p) == IF p \in 1..Len(s) THEN s[p] ELSE 0

\* The digits of the bytes 3g+1 to 3g+3
Group(s, g) == Sextets(Zeros(s, 3 * g + 1), Zeros(s, 3 * g + 2), Zeros(s, 3 * g + 3))

\* code has the first so many digits of the groups of s, then padding.
IsCode(code, s, groups, digits) ==
  /\ Len(code) = 4 * groups
  /\ \A g \in 0..groups - 1 : \A j \in 1..4 :
       code[4 * g + j] = IF 4 * g + j <= digits THEN Group(s, g)[j] ELSE 64

(* Concatenation of digits.                                                 *)
LEMMA CatDigits ==
  \A s, t \in Seq(0..64) : /\ Cat(s, t) \in Seq(0..64) /\ Len(Cat(s, t)) = Len(s) + Len(t)
                           /\ \A i \in 1..Len(s) : Cat(s, t)[i] = s[i]
                           /\ \A i \in 1..Len(t) : Cat(s, t)[Len(s) + i] = t[i]
<1>1. \A s, t \in Seq(0..64) : Cat(s, t) \in Seq(0..64)
  BY CatProperties
<1>2. \A s, t \in Seq(0..64) : /\ Len(Cat(s, t)) = Len(s) + Len(t)
                               /\ \A i \in 1..Len(s) : Cat(s, t)[i] = s[i]
                               /\ \A i \in 1..Len(t) : Cat(s, t)[Len(s) + i] = t[i]
  BY CatIndex
<1> QED
  BY <1>1, <1>2, Zenon

\* The last digits and the padding, after one byte and after two
LastOne(d) == Cat(Part(d, 1, 2), <<64, 64>>)
LastTwo(d) == Cat(Part(d, 1, 3), <<64>>)

(* Their digits.                                                            *)
LEMMA LastDigits ==
  ASSUME NEW d \in Seq(0..64), Len(d) = 4
  PROVE  /\ LastOne(d) \in Seq(0..64) /\ Len(LastOne(d)) = 4
         /\ \A j \in 1..4 : LastOne(d)[j] = IF j <= 2 THEN d[j] ELSE 64
         /\ LastTwo(d) \in Seq(0..64) /\ Len(LastTwo(d)) = 4
         /\ \A j \in 1..4 : LastTwo(d)[j] = IF j <= 3 THEN d[j] ELSE 64
<1> DEFINE u == Part(d, 1, 2)
           v == Part(d, 1, 3)
<1>1. 2 \in 0..Len(d) /\ 3 \in 0..Len(d)
  OBVIOUS
<1>2. /\ u \in Seq(0..64) /\ Len(u) = 2 /\ \A i \in 1..2 : u[i] = d[i]
      /\ v \in Seq(0..64) /\ Len(v) = 3 /\ \A i \in 1..3 : v[i] = d[i]
  BY <1>1, FrontOfSeq, Zenon
<1> HIDE DEF u, v
<1> DEFINE x == <<64, 64>>
           y == <<64>>
<1>3. /\ x \in Seq(0..64) /\ Len(x) = 2 /\ x[1] = 64 /\ x[2] = 64
      /\ y \in Seq(0..64) /\ Len(y) = 1 /\ y[1] = 64
  OBVIOUS
<1> HIDE DEF x, y
<1>4. u \in Seq(0..64) /\ v \in Seq(0..64) /\ x \in Seq(0..64) /\ y \in Seq(0..64)
  BY <1>2, <1>3, Zenon
<1>5. /\ Cat(u, x) \in Seq(0..64) /\ Len(Cat(u, x)) = Len(u) + Len(x)
      /\ \A i \in 1..Len(u) : Cat(u, x)[i] = u[i]
      /\ \A i \in 1..Len(x) : Cat(u, x)[Len(u) + i] = x[i]
  BY <1>4, CatDigits, Zenon
<1>6. /\ Cat(v, y) \in Seq(0..64) /\ Len(Cat(v, y)) = Len(v) + Len(y)
      /\ \A i \in 1..Len(v) : Cat(v, y)[i] = v[i]
      /\ \A i \in 1..Len(y) : Cat(v, y)[Len(v) + i] = y[i]
  BY <1>4, CatDigits, Zenon
<1>7. /\ Len(Cat(u, x)) = 4 /\ Cat(u, x)[1] = d[1] /\ Cat(u, x)[2] = d[2]
      /\ Cat(u, x)[3] = 64 /\ Cat(u, x)[4] = 64
  BY <1>2, <1>3, <1>5
<1>8. /\ Len(Cat(v, y)) = 4 /\ Cat(v, y)[1] = d[1] /\ Cat(v, y)[2] = d[2]
      /\ Cat(v, y)[3] = d[3] /\ Cat(v, y)[4] = 64
  BY <1>2, <1>3, <1>6
<1>9. \A j \in 1..4 : j = 1 \/ j = 2 \/ j = 3 \/ j = 4
  OBVIOUS
<1>10. \A j \in 1..4 : /\ Cat(u, x)[j] = IF j <= 2 THEN d[j] ELSE 64
                      /\ Cat(v, y)[j] = IF j <= 3 THEN d[j] ELSE 64
  BY <1>7, <1>8, <1>9
<1> QED
  BY <1>5, <1>6, <1>7, <1>8, <1>10, Zenon DEF LastOne, LastTwo, u, v, x, y

(* The digits of three bytes.                                               *)
LEMMA SextetsType ==
  ASSUME NEW a \in Byte, NEW b \in Byte, NEW c \in Byte
  PROVE  Sextets(a, b, c) \in Seq(0..64) /\ Len(Sextets(a, b, c)) = 4
BY SextetBits DEF Sextets

(* base64_encode yields the digits of all groups, the last one padded.      *)
LEMMA EncodeIsCode ==
  ASSUME NEW s \in Seq(Byte), NEW n \in Nat, NEW m \in 0..2, Len(s) = 3 * n + m
  PROVE  IsCode(base64_encode(s), s, IF m = 0 THEN n ELSE n + 1,
                IF m = 0 THEN 4 * n ELSE 4 * n + m + 1)
<1> DEFINE ss == [g \in 1..n |-> Sextets(s[3 * g - 2], s[3 * g - 1], s[3 * g])]
           F == Flatten(ss)
           rest == Part(s, 3 * n + 1, Len(s))
           last == CASE Len(rest) = 0 -> <<>>
                     [] Len(rest) = 1 -> LastOne(Sextets(rest[1], 0, 0))
                     [] Len(rest) = 2 -> LastTwo(Sextets(rest[1], rest[2], 0))
<1>1. Len(s) \div 3 = n /\ Len(s) \in Nat /\ 3 * n \in 0..Len(s) /\ Len(s) - 3 * n = m
  OBVIOUS
<1>2. base64_encode(s) = F \o last
  BY <1>1, Zenon DEF base64_encode, Part, Cat, LastOne, LastTwo
<1>3. Len(rest) = m /\ \A i \in 1..m : rest[i] = s[3 * n + i]
  <2>1. Len(s) \in 0..Len(s)
    BY <1>1
  <2>2. ASSUME NEW k \in 0..Len(s)
        PROVE  /\ Len(Part(s, k + 1, Len(s))) = Len(s) - k
               /\ \A i \in 1..Len(s) - k : Part(s, k + 1, Len(s))[i] = s[k + i]
    BY <2>1, PartOfSeq, Zenon
  <2> QED
    BY <1>1, <2>2, Zenon
<1> HIDE DEF rest
<1>4. /\ 0 \in Byte
      /\ \A p \in Nat : Zeros(s, p) \in Byte
      /\ \A g \in Nat : Group(s, g) \in Seq(0..64) /\ Len(Group(s, g)) = 4
  <2>1. 0 \in Byte
    BY DEF Byte
  <2>2. \A p \in Nat : Zeros(s, p) \in Byte
    BY <2>1 DEF Zeros
  <2>3. \A g \in Nat : 3 * g + 1 \in Nat /\ 3 * g + 2 \in Nat /\ 3 * g + 3 \in Nat
    OBVIOUS
  <2> QED
    BY <2>1, <2>2, <2>3, SextetsType, Zenon DEF Group
<1>5. ASSUME NEW g \in 1..n PROVE ss[g] = Group(s, g - 1)
  <2>1. /\ 3 * (g - 1) + 1 = 3 * g - 2 /\ 3 * (g - 1) + 2 = 3 * g - 1 /\ 3 * (g - 1) + 3 = 3 * g
        /\ 3 * g - 2 \in 1..Len(s) /\ 3 * g - 1 \in 1..Len(s) /\ 3 * g \in 1..Len(s)
    BY <1>1
  <2>2. /\ Zeros(s, 3 * (g - 1) + 1) = s[3 * g - 2] /\ Zeros(s, 3 * (g - 1) + 2) = s[3 * g - 1]
        /\ Zeros(s, 3 * (g - 1) + 3) = s[3 * g]
    BY <2>1, Zenon DEF Zeros
  <2> QED
    BY <2>2, Zenon DEF Group
<1>6. ss \in Seq(Seq(0..64)) /\ Len(ss) = n /\ \A g \in 1..n : Len(ss[g]) = 4
  <2>1. \A g \in 1..n : g - 1 \in Nat
    OBVIOUS
  <2>2. \A g \in 1..n : ss[g] \in Seq(0..64) /\ Len(ss[g]) = 4
    BY <1>4, <1>5, <2>1
  <2>3. ss \in [1..n -> Seq(0..64)]
    BY <2>2
  <2> QED
    BY <2>2, <2>3, FunctionIsSeq
<1> HIDE DEF ss
<1>7. /\ F \in Seq(0..64) /\ Len(F) = 4 * n
      /\ \A g \in 1..n : \A j \in 1..4 : F[4 * (g - 1) + j] = ss[g][j]
  BY <1>6, FlattenFours, Zenon
<1> HIDE DEF F
<1>8. ASSUME NEW g \in 0..n - 1, NEW j \in 1..4
      PROVE  F[4 * g + j] = Group(s, g)[j] /\ 4 * g + j \in 1..4 * n
  <2>1. g + 1 \in 1..n /\ (g + 1) - 1 = g /\ 4 * g + j \in 1..4 * n
    OBVIOUS
  <2> QED
    BY <1>5, <1>7, <2>1, Zenon
<1>9. CASE m = 0
  <2>1. last = <<>>
    BY <1>3, <1>9
  <2>2. base64_encode(s) = F
    <3>1. Cat(F, <<>>) = F
      BY <1>7, CatProperties, Zenon
    <3> QED
      BY <1>2, <2>1, <3>1, Zenon DEF Cat
  <2>3. \A g \in 0..n - 1 : \A j \in 1..4 : 4 * g + j <= 4 * n
    OBVIOUS
  <2> QED
    BY <1>7, <1>8, <1>9, <2>2, <2>3, Zenon DEF IsCode
<1>10. ASSUME m # 0, last \in Seq(0..64), Len(last) = 4,
              \A j \in 1..4 : last[j] = IF j <= m + 1 THEN Group(s, n)[j] ELSE 64
       PROVE  IsCode(base64_encode(s), s, n + 1, 4 * n + m + 1)
  <2> DEFINE code == Cat(F, last)
  <2> HIDE DEF last
  <2>1. base64_encode(s) = code
    BY <1>2, Zenon DEF Cat
  <2>2. /\ Len(code) = Len(F) + Len(last)
        /\ \A i \in 1..Len(F) : code[i] = F[i]
        /\ \A i \in 1..Len(last) : code[Len(F) + i] = last[i]
    <3>1. F \in Seq(0..64) /\ last \in Seq(0..64)
      BY <1>7, <1>10, Zenon
    <3> QED
      BY <3>1, CatDigits, Zenon
  <2> HIDE DEF code
  <2>3. ASSUME NEW g \in 0..n, NEW j \in 1..4
        PROVE  code[4 * g + j] = IF 4 * g + j <= 4 * n + m + 1 THEN Group(s, g)[j] ELSE 64
    <3>1. CASE g = n
      <4>1. code[4 * n + j] = last[j]
        BY <1>7, <1>10, <2>2, Zenon
      <4>2. 4 * n + j <= 4 * n + m + 1 <=> j <= m + 1
        OBVIOUS
      <4> QED
        BY <1>10, <3>1, <4>1, <4>2, Zenon
    <3>2. CASE g # n
      <4>1. g \in 0..n - 1 /\ 4 * g + j <= 4 * n + m + 1
        BY <3>2
      <4> QED
        BY <1>7, <1>8, <2>2, <4>1, Zenon
    <3> QED
      BY <3>1, <3>2
  <2>4. Len(code) = 4 * (n + 1) /\ (n + 1) - 1 = n
    BY <1>7, <1>10, <2>2
  <2> QED
    BY <2>1, <2>3, <2>4, Zenon DEF IsCode
<1>11. n \in Nat /\ Group(s, n) \in Seq(0..64) /\ Len(Group(s, n)) = 4
  BY <1>4
<1>12. CASE m = 1
  <2>1. /\ 3 * n + 1 \in 1..Len(s) /\ 3 * n + 2 \notin 1..Len(s) /\ 3 * n + 3 \notin 1..Len(s)
        /\ 1 \in 1..m /\ 1 # 0
    BY <1>1, <1>12
  <2>2. Group(s, n) = Sextets(rest[1], 0, 0)
    BY <1>3, <2>1, Zenon DEF Group, Zeros
  <2>3. last = LastOne(Group(s, n))
    BY <1>3, <1>12, <2>2
  <2> HIDE DEF last
  <2>4. /\ last \in Seq(0..64) /\ Len(last) = 4
        /\ \A j \in 1..4 : last[j] = IF j <= 2 THEN Group(s, n)[j] ELSE 64
    BY <1>11, <2>3, LastDigits, Zenon
  <2> QED
    BY <1>10, <1>12, <2>4
<1>13. CASE m = 2
  <2>1. /\ 3 * n + 1 \in 1..Len(s) /\ 3 * n + 2 \in 1..Len(s) /\ 3 * n + 3 \notin 1..Len(s)
        /\ 1 \in 1..m /\ 2 \in 1..m
    BY <1>1, <1>13
  <2>2. Group(s, n) = Sextets(rest[1], rest[2], 0)
    BY <1>3, <2>1, Zenon DEF Group, Zeros
  <2>3. last = LastTwo(Group(s, n))
    BY <1>3, <1>13, <2>2
  <2> HIDE DEF last
  <2>4. /\ last \in Seq(0..64) /\ Len(last) = 4
        /\ \A j \in 1..4 : last[j] = IF j <= 3 THEN Group(s, n)[j] ELSE 64
    BY <1>11, <2>3, LastDigits, Zenon
  <2> QED
    BY <1>10, <1>13, <2>4
<1> QED
  BY <1>9, <1>12, <1>13

\* Bit k is bit e of digit i and bit f of byte p, both counted from 1.
Place(k, i, e, p, f) ==
  (k \div 6) + 1 = i /\ 5 - (k % 6) = e /\ (k \div 8) + 1 = p /\ 7 - (k % 8) = f

(* The bits of a group of 24.                                               *)
LEMMA BitPlace ==
  ASSUME NEW g \in Nat, NEW r \in 0..23, NEW k, k = 24 * g + r
  PROVE  \/ r \in 0..5 /\ Place(k, 4 * g + 1, 5 - r, 3 * g + 1, 7 - r)
         \/ r \in 6..7 /\ Place(k, 4 * g + 2, 11 - r, 3 * g + 1, 7 - r)
         \/ r \in 8..11 /\ Place(k, 4 * g + 2, 11 - r, 3 * g + 2, 15 - r)
         \/ r \in 12..15 /\ Place(k, 4 * g + 3, 17 - r, 3 * g + 2, 15 - r)
         \/ r \in 16..17 /\ Place(k, 4 * g + 3, 17 - r, 3 * g + 3, 23 - r)
         \/ r \in 18..23 /\ Place(k, 4 * g + 4, 23 - r, 3 * g + 3, 23 - r)
BY DEF Place

\* Bit k is in group g, the same in the digits of s and in s with zeros behind it.
SameBit(s, g, k) ==
  \E j \in 1..4 :
    /\ (k \div 6) + 1 = 4 * g + j
    /\ BitOf(Group(s, g)[j], 5 - (k % 6)) = BitOf(Zeros(s, (k \div 8) + 1), 7 - (k % 8))

(* So it is for the 24 bits of each group.                                  *)
LEMMA GroupBits ==
  ASSUME NEW s \in Seq(Byte), NEW g \in Nat, NEW r \in 0..23, NEW k, k = 24 * g + r
  PROVE  SameBit(s, g, k)
<1> DEFINE a == Zeros(s, 3 * g + 1)
           b == Zeros(s, 3 * g + 2)
           c == Zeros(s, 3 * g + 3)
           d == Sextets(a, b, c)
<1>1. a \in Byte /\ b \in Byte /\ c \in Byte
  <2>1. 0 \in Byte
    BY DEF Byte
  <2> QED
    BY <2>1 DEF Zeros
<1>2. d = Group(s, g)
  BY Zenon DEF Group
<1>3. /\ \A e \in 0..5 : BitOf(d[1], e) = BitOf(a, e + 2)
      /\ \A e \in 4..5 : BitOf(d[2], e) = BitOf(a, e - 4)
      /\ \A e \in 0..3 : BitOf(d[2], e) = BitOf(b, e + 4)
      /\ \A e \in 2..5 : BitOf(d[3], e) = BitOf(b, e - 2)
      /\ \A e \in 0..1 : BitOf(d[3], e) = BitOf(c, e + 6)
      /\ \A e \in 0..5 : BitOf(d[4], e) = BitOf(c, e)
  <2>1. SameBits(d, a, b, c)
    BY <1>1, DigitBits, Zenon
  <2> QED
    BY <2>1, Zenon DEF SameBits
<1> HIDE DEF d
<1>4. 1 \in 1..4 /\ 2 \in 1..4 /\ 3 \in 1..4 /\ 4 \in 1..4
  OBVIOUS
<1>5. CASE r \in 0..5 /\ Place(k, 4 * g + 1, 5 - r, 3 * g + 1, 7 - r)
  <2>1. BitOf(d[1], 5 - r) = BitOf(a, 7 - r)
    <3> HIDE DEF a, b, c
    <3> QED
      BY <1>3, <1>5
  <2> QED
    BY <1>2, <1>4, <1>5, <2>1, Zenon DEF Place, SameBit
<1>6. CASE r \in 6..7 /\ Place(k, 4 * g + 2, 11 - r, 3 * g + 1, 7 - r)
  <2>1. BitOf(d[2], 11 - r) = BitOf(a, 7 - r)
    <3> HIDE DEF a, b, c
    <3> QED
      BY <1>3, <1>6
  <2> QED
    BY <1>2, <1>4, <1>6, <2>1, Zenon DEF Place, SameBit
<1>7. CASE r \in 8..11 /\ Place(k, 4 * g + 2, 11 - r, 3 * g + 2, 15 - r)
  <2>1. BitOf(d[2], 11 - r) = BitOf(b, 15 - r)
    <3> HIDE DEF a, b, c
    <3> QED
      BY <1>3, <1>7
  <2> QED
    BY <1>2, <1>4, <1>7, <2>1, Zenon DEF Place, SameBit
<1>8. CASE r \in 12..15 /\ Place(k, 4 * g + 3, 17 - r, 3 * g + 2, 15 - r)
  <2>1. BitOf(d[3], 17 - r) = BitOf(b, 15 - r)
    <3> HIDE DEF a, b, c
    <3> QED
      BY <1>3, <1>8
  <2> QED
    BY <1>2, <1>4, <1>8, <2>1, Zenon DEF Place, SameBit
<1>9. CASE r \in 16..17 /\ Place(k, 4 * g + 3, 17 - r, 3 * g + 3, 23 - r)
  <2>1. BitOf(d[3], 17 - r) = BitOf(c, 23 - r)
    <3> HIDE DEF a, b, c
    <3> QED
      BY <1>3, <1>9
  <2> QED
    BY <1>2, <1>4, <1>9, <2>1, Zenon DEF Place, SameBit
<1>10. CASE r \in 18..23 /\ Place(k, 4 * g + 4, 23 - r, 3 * g + 3, 23 - r)
  <2>1. BitOf(d[4], 23 - r) = BitOf(c, 23 - r)
    <3> HIDE DEF a, b, c
    <3> QED
      BY <1>3, <1>10
  <2> QED
    BY <1>2, <1>4, <1>10, <2>1, Zenon DEF Place, SameBit
<1> QED
  BY <1>5, <1>6, <1>7, <1>8, <1>9, <1>10, BitPlace, ZenonT(30)

(* The numbers in Encodes.                                                  *)
LEMMA CodeLength ==
  ASSUME NEW l \in Nat, NEW n \in Nat, NEW m \in 0..2, l = 3 * n + m,
         NEW groups, groups = IF m = 0 THEN n ELSE n + 1,
         NEW digits, digits = IF m = 0 THEN 4 * n ELSE 4 * n + m + 1
  PROVE  /\ groups \in Nat /\ digits \in 0..4 * groups /\ (l + 2) \div 3 = groups
         /\ 4 * groups - ((3 - (l % 3)) % 3) = digits
OBVIOUS

(* The padding is no digit.                                                 *)
LEMMA NotPadding == 64 \in 0..64 /\ \A x \in 0..63 : x # 64 /\ x \in 0..64
OBVIOUS

(* A code has digits, and behind them the padding.                         *)
LEMMA CodeDigit ==
  ASSUME NEW s \in Seq(Byte), NEW code, NEW groups \in Nat, NEW digits \in 0..4 * groups,
         IsCode(code, s, groups, digits), NEW i \in 1..4 * groups
  PROVE  code[i] \in 0..64 /\ (code[i] = 64) = (i > digits)
<1>1. /\ Len(code) = 4 * groups
      /\ \A g \in 0..groups - 1 : \A j \in 1..4 :
           code[4 * g + j] = IF 4 * g + j <= digits THEN Group(s, g)[j] ELSE 64
  BY Zenon DEF IsCode
<1>2. \A g \in Nat : \A j \in 1..4 : Group(s, g)[j] \in 0..63
  <2>1. 0 \in Byte
    BY DEF Byte
  <2>2. \A p \in Nat : Zeros(s, p) \in Byte
    BY <2>1 DEF Zeros
  <2>3. \A g \in Nat : 3 * g + 1 \in Nat /\ 3 * g + 2 \in Nat /\ 3 * g + 3 \in Nat
    OBVIOUS
  <2> QED
    BY <2>2, <2>3, DigitBits, Zenon DEF Group
<1>3. PICK g \in 0..groups - 1, j \in 1..4 : i = 4 * g + j
  <2>1. (i - 1) \div 4 \in 0..groups - 1 /\ ((i - 1) % 4) + 1 \in 1..4
        /\ i = 4 * ((i - 1) \div 4) + (((i - 1) % 4) + 1)
    OBVIOUS
  <2> QED
    BY <2>1
<1>4. code[i] = IF i <= digits THEN Group(s, g)[j] ELSE 64
  BY <1>1, <1>3, Zenon
<1>5. g \in Nat
  OBVIOUS
<1>6. Group(s, g)[j] \in 0..63
  BY <1>2, <1>5, Zenon
<1>7. Group(s, g)[j] # 64 /\ Group(s, g)[j] \in 0..64 /\ 64 \in 0..64
  BY <1>6, NotPadding, Zenon
<1>8. i <= digits <=> ~(i > digits)
  OBVIOUS
<1>9. code[i] \in 0..64 /\ (code[i] = 64 <=> i > digits)
  BY <1>4, <1>7, <1>8, Zenon
<1> QED
  BY <1>9

(* A code with the digits of s encodes s.                                   *)
LEMMA CodeEncodes ==
  ASSUME NEW s \in Seq(Byte), NEW code, NEW groups \in Nat, NEW digits \in 0..4 * groups,
         IsCode(code, s, groups, digits),
         (Len(s) + 2) \div 3 = groups, 4 * groups - ((3 - (Len(s) % 3)) % 3) = digits
  PROVE  Encodes(code, s)
<1>1. /\ Len(code) = 4 * groups
      /\ \A g \in 0..groups - 1 : \A j \in 1..4 :
           code[4 * g + j] = IF 4 * g + j <= digits THEN Group(s, g)[j] ELSE 64
  BY Zenon DEF IsCode
<1>3. ASSUME NEW i \in 1..4 * groups PROVE (code[i] = 64) = (i > digits)
  BY CodeDigit
<1>4. ASSUME NEW k \in 0..6 * digits - 1
      PROVE  Bit(code, 6, k) = IF k < 8 * Len(s) THEN Bit(s, 8, k) ELSE 0
  <2> DEFINE z == Zeros(s, (k \div 8) + 1)
             f == 7 - (k % 8)
  <2>1. PICK g \in Nat, r \in 0..23 : k = 24 * g + r
    <3>1. k \div 24 \in Nat /\ k % 24 \in 0..23 /\ k = 24 * (k \div 24) + (k % 24)
      OBVIOUS
    <3> QED
      BY <3>1
  <2>2. PICK j \in 1..4 : (k \div 6) + 1 = 4 * g + j /\ BitOf(Group(s, g)[j], 5 - (k % 6)) = BitOf(z, f)
    <3>1. SameBit(s, g, k)
      BY <2>1, GroupBits, Zenon
    <3> QED
      BY <3>1, Zenon DEF SameBit
  <2>3. (k \div 6) + 1 \in 1..digits /\ 6 - 1 - (k % 6) = 5 - (k % 6)
    OBVIOUS
  <2>4. g \in 0..groups - 1 /\ 4 * g + j <= digits
    BY <2>2, <2>3
  <2>5. code[(k \div 6) + 1] = Group(s, g)[j]
    <3>1. code[4 * g + j] = IF 4 * g + j <= digits THEN Group(s, g)[j] ELSE 64
      BY <1>1, <2>4, Zenon
    <3> QED
      BY <2>2, <2>4, <3>1, Zenon
  <2>6. Bit(code, 6, k) = BitOf(z, f)
    <3>1. Bit(code, 6, k) = BitOf(code[(k \div 6) + 1], 5 - (k % 6))
      BY <2>3, Zenon DEF Bit, BitOf
    <3> QED
      BY <2>2, <2>5, <3>1, Zenon
  <2>7. Len(s) \in Nat /\ f \in 0..7 /\ 8 - 1 - (k % 8) = f /\ k \in Nat
    OBVIOUS
  <2>8. CASE k < 8 * Len(s)
    <3>1. (k \div 8) + 1 \in 1..Len(s)
      BY <2>7, <2>8
    <3>2. z = s[(k \div 8) + 1]
      BY <3>1, Zenon DEF Zeros
    <3> QED
      BY <2>6, <2>7, <2>8, <3>2, Zenon DEF Bit, BitOf
  <2>9. CASE ~(k < 8 * Len(s))
    <3>1. (k \div 8) + 1 \notin 1..Len(s)
      BY <2>7, <2>9
    <3>2. z = 0
      BY <3>1, Zenon DEF Zeros
    <3>3. BitOf(0, f) = 0
      <4> HIDE DEF f
      <4>1. f = 0 \/ f = 1 \/ f = 2 \/ f = 3 \/ f = 4 \/ f = 5 \/ f = 6 \/ f = 7
        BY <2>7
      <4>2. /\ BitOf(0, 0) = 0 /\ BitOf(0, 1) = 0 /\ BitOf(0, 2) = 0 /\ BitOf(0, 3) = 0
            /\ BitOf(0, 4) = 0 /\ BitOf(0, 5) = 0 /\ BitOf(0, 6) = 0 /\ BitOf(0, 7) = 0
        BY Powers DEF BitOf
      <4> QED
        BY <4>1, <4>2, Zenon
    <3> QED
      BY <2>6, <2>9, <3>2, <3>3, Zenon
  <2> QED
    BY <2>8, <2>9, Zenon
<1> QED
  BY <1>1, <1>3, <1>4, Zenon DEF Encodes

\* The number of groups and of digits of the code of s.
CodeFits(s, groups, digits) ==
  /\ groups \in Nat /\ digits \in 0..4 * groups /\ (Len(s) + 2) \div 3 = groups
  /\ 4 * groups - ((3 - (Len(s) % 3)) % 3) = digits

(* base64_encode() yields such a code.                                      *)
LEMMA CodeOf ==
  ASSUME NEW s \in Seq(Byte)
  PROVE  \E groups, digits : CodeFits(s, groups, digits) /\ IsCode(base64_encode(s), s, groups, digits)
<1>1. PICK n \in Nat, m \in 0..2 : Len(s) = 3 * n + m
  <2>1. Len(s) \div 3 \in Nat /\ Len(s) % 3 \in 0..2 /\ Len(s) = 3 * (Len(s) \div 3) + (Len(s) % 3)
    OBVIOUS
  <2> QED
    BY <2>1
<1> DEFINE groups == IF m = 0 THEN n ELSE n + 1
           digits == IF m = 0 THEN 4 * n ELSE 4 * n + m + 1
<1>2. IsCode(base64_encode(s), s, groups, digits)
  BY <1>1, EncodeIsCode, Zenon
<1> HIDE DEF groups, digits
<1>3. /\ groups \in Nat /\ digits \in 0..4 * groups /\ (Len(s) + 2) \div 3 = groups
      /\ 4 * groups - ((3 - (Len(s) % 3)) % 3) = digits
  <2>1. Len(s) \in Nat
    OBVIOUS
  <2> QED
    BY <1>1, <2>1, CodeLength DEF groups, digits
<1> QED
  BY <1>2, <1>3, Zenon DEF CodeFits

(* base64_encode() spells the bits of its input, with the right padding.    *)
THEOREM Base64Encodes ==
  \A s \in Seq(Byte) : Encodes(base64_encode(s), s)
<1> TAKE s \in Seq(Byte)
<1>1. PICK groups, digits : CodeFits(s, groups, digits) /\ IsCode(base64_encode(s), s, groups, digits)
  BY CodeOf, Zenon
<1> QED
  BY <1>1, CodeEncodes, Zenon DEF CodeFits

(* The key of 16 bytes has 24 characters, the accept value of 20 has 28.    *)
LEMMA CodeType ==
  ASSUME NEW s \in Seq(Byte), NEW n \in Nat, (Len(s) + 2) \div 3 = n
  PROVE  /\ Len(base64_encode(s)) = 4 * n
         /\ \A i \in 1..4 * n : base64_encode(s)[i] \in 0..64
<1>1. PICK groups, digits : CodeFits(s, groups, digits) /\ IsCode(base64_encode(s), s, groups, digits)
  BY CodeOf, Zenon
<1>2. groups = n /\ digits \in 0..4 * n
  BY <1>1, Zenon DEF CodeFits
<1> DEFINE code == base64_encode(s)
<1>3. IsCode(code, s, n, digits)
  BY <1>1, <1>2, Zenon
<1> HIDE DEF code
<1>4. Len(code) = 4 * n
  BY <1>3, Zenon DEF IsCode
<1>5. \A i \in 1..4 * n : code[i] \in 0..64
  BY <1>2, <1>3, CodeDigit, Zenon
<1> QED
  BY <1>4, <1>5, Zenon DEF code

-----------------------------------------------------------------------------
\* The frames of the server and parse_frame

\* The header of a frame of the server, and its size
FrameHead(f) ==
  LET n == Len(f.payload) IN
  Cat(<<128 * f.fin + f.op>>,
      CASE f.form = 7 -> <<n>>
        [] f.form = 16 -> <<126, n \div 256, n % 256>>
        [] f.form = 64 -> <<127, 0, 0, 0, 0, 0, 0, n \div 256, n % 256>>
        [] f.form = 0 -> Cat(<<127>>, f.size))
HeadSize(f) ==
  CASE f.form = 7 -> 2 [] f.form = 16 -> 4 [] f.form = 64 -> 10 [] f.form = 0 -> 10

\* b is such a header.
IsHead(b, f) ==
  LET n == Len(f.payload) IN
  /\ b[1] = 128 * f.fin + f.op
  /\ f.form = 7 => b[2] = n
  /\ f.form = 16 => b[2] = 126 /\ b[3] = n \div 256 /\ b[4] = n % 256
  /\ f.form = 64 => /\ b[2] = 127 /\ b[3] = 0 /\ b[4] = 0 /\ b[5] = 0 /\ b[6] = 0
                    /\ b[7] = 0 /\ b[8] = 0 /\ b[9] = n \div 256 /\ b[10] = n % 256
  /\ f.form = 0 => b[2] = 127 /\ \A i \in 1..8 : b[2 + i] = f.size[i]

(* The first byte of a frame.                                               *)
LEMMA FirstByte ==
  \A x \in 0..1, y \in 0..127 :
    /\ 128 * x + y \in Byte /\ (128 * x + y) \div 128 = x
    /\ y > 15 <=> ((128 * x + y) \div 16) % 8 # 0
    /\ y <= 15 => (128 * x + y) % 16 = y
    /\ y <= 15 \/ y > 15
<1> SUFFICES ASSUME NEW x \in 0..1, NEW y \in 0..127
             PROVE  /\ 128 * x + y \in Byte /\ (128 * x + y) \div 128 = x
                    /\ y > 15 <=> ((128 * x + y) \div 16) % 8 # 0
                    /\ y <= 15 => (128 * x + y) % 16 = y
                    /\ y <= 15 \/ y > 15
  OBVIOUS
<1>1. CASE x = 0
  <2>1. 128 * x + y = y
    BY <1>1
  <2> QED
    BY <1>1, <2>1 DEF Byte
<1>2. CASE x = 1
  <2>1. 128 * x + y = 128 + y
    BY <1>2
  <2> QED
    BY <1>2, <2>1 DEF Byte
<1> QED
  BY <1>1, <1>2

(* The bytes of a header.                                                   *)
LEMMA FrameHeadIs ==
  ASSUME NEW f \in ServerFrames
  PROVE  FrameHead(f) \in Seq(Byte) /\ Len(FrameHead(f)) = HeadSize(f) /\ IsHead(FrameHead(f), f)
<1> DEFINE n == Len(f.payload)
           b == <<128 * f.fin + f.op>>
<1>1. /\ f.op \in 0..127 /\ f.fin \in 0..1 /\ f.form \in {0, 7, 16, 64} /\ f.payload \in Seq(Byte)
      /\ n < (IF f.form = 7 THEN 126 ELSE 65536) /\ f.size \in [1..8 -> Byte]
  BY DEF ServerFrames
<1>2. n \in Nat
  BY <1>1, LenProperties
<1> HIDE DEF n
<1>3. 128 * f.fin + f.op \in Byte
  <2>1. f.op \in 0..127 /\ f.fin \in 0..1
    BY <1>1
  <2> QED
    BY <2>1, FirstByte, Zenon
<1>4. b \in Seq(Byte) /\ Len(b) = 1 /\ b[1] = 128 * f.fin + f.op
  BY <1>3
<1> HIDE DEF b
<1>5. 1 \in 1..1
  OBVIOUS
<1>6. CASE f.form = 7
  <2> DEFINE c == <<n>>
  <2>1. c \in Seq(Byte) /\ Len(c) = 1 /\ c[1] = n
    BY <1>1, <1>2, <1>6 DEF Byte
  <2>2. FrameHead(f) = Cat(b, c)
    BY <1>6 DEF FrameHead, b, n
  <2> HIDE DEF c
  <2>3. /\ Cat(b, c) \in Seq(Byte) /\ Len(Cat(b, c)) = Len(b) + Len(c)
        /\ \A i \in 1..Len(b) : Cat(b, c)[i] = b[i]
        /\ \A i \in 1..Len(c) : Cat(b, c)[Len(b) + i] = c[i]
    <3>1. b \in Seq(Byte) /\ c \in Seq(Byte)
      BY <1>4, <2>1, Zenon
    <3> QED
      BY <3>1, CatBytes, Zenon
  <2>4. Len(Cat(b, c)) = 2 /\ Cat(b, c)[1] = 128 * f.fin + f.op /\ Cat(b, c)[2] = n
    BY <1>4, <2>1, <2>3
  <2> QED
    <3>1. HeadSize(f) = 2 /\ f.form # 16 /\ f.form # 64 /\ f.form # 0
      BY <1>6 DEF HeadSize
    <3>2. IsHead(Cat(b, c), f)
      BY <1>6, <2>4, <3>1, Zenon DEF IsHead, n
    <3>3. Cat(b, c) \in Seq(Byte)
      BY <2>3, Zenon
    <3>4. Len(Cat(b, c)) = HeadSize(f)
      BY <2>4, <3>1, Zenon
    <3> QED
      BY <2>2, <3>2, <3>3, <3>4, Zenon
<1>7. CASE f.form = 16
  <2> DEFINE c == <<126, n \div 256, n % 256>>
  <2>1. c \in Seq(Byte) /\ Len(c) = 3 /\ c[1] = 126 /\ c[2] = n \div 256 /\ c[3] = n % 256
    BY <1>1, <1>2, <1>7 DEF Byte
  <2>2. FrameHead(f) = Cat(b, c)
    BY <1>7 DEF FrameHead, b, n
  <2> HIDE DEF c
  <2>3. /\ Cat(b, c) \in Seq(Byte) /\ Len(Cat(b, c)) = Len(b) + Len(c)
        /\ \A i \in 1..Len(b) : Cat(b, c)[i] = b[i]
        /\ \A i \in 1..Len(c) : Cat(b, c)[Len(b) + i] = c[i]
    <3>1. b \in Seq(Byte) /\ c \in Seq(Byte)
      BY <1>4, <2>1, Zenon
    <3> QED
      BY <3>1, CatBytes, Zenon
  <2>4. /\ Len(Cat(b, c)) = 4 /\ Cat(b, c)[1] = 128 * f.fin + f.op /\ Cat(b, c)[2] = 126
        /\ Cat(b, c)[3] = n \div 256 /\ Cat(b, c)[4] = n % 256
    BY <1>4, <2>1, <2>3
  <2> QED
    <3>1. HeadSize(f) = 4 /\ f.form # 7 /\ f.form # 64 /\ f.form # 0
      BY <1>7 DEF HeadSize
    <3>2. IsHead(Cat(b, c), f)
      BY <1>7, <2>4, <3>1, Zenon DEF IsHead, n
    <3>3. Cat(b, c) \in Seq(Byte)
      BY <2>3, Zenon
    <3>4. Len(Cat(b, c)) = HeadSize(f)
      BY <2>4, <3>1, Zenon
    <3> QED
      BY <2>2, <3>2, <3>3, <3>4, Zenon
<1>8. CASE f.form = 64
  <2> DEFINE c == <<127, 0, 0, 0, 0, 0, 0, n \div 256, n % 256>>
  <2>1. /\ c \in Seq(Byte) /\ Len(c) = 9 /\ c[1] = 127 /\ c[2] = 0 /\ c[3] = 0 /\ c[4] = 0
        /\ c[5] = 0 /\ c[6] = 0 /\ c[7] = 0 /\ c[8] = n \div 256 /\ c[9] = n % 256
    BY <1>1, <1>2, <1>8 DEF Byte
  <2>2. FrameHead(f) = Cat(b, c)
    BY <1>8 DEF FrameHead, b, n
  <2> HIDE DEF c
  <2>3. /\ Cat(b, c) \in Seq(Byte) /\ Len(Cat(b, c)) = Len(b) + Len(c)
        /\ \A i \in 1..Len(b) : Cat(b, c)[i] = b[i]
        /\ \A i \in 1..Len(c) : Cat(b, c)[Len(b) + i] = c[i]
    <3>1. b \in Seq(Byte) /\ c \in Seq(Byte)
      BY <1>4, <2>1, Zenon
    <3> QED
      BY <3>1, CatBytes, Zenon
  <2>4. /\ Len(Cat(b, c)) = 10 /\ Cat(b, c)[1] = 128 * f.fin + f.op /\ Cat(b, c)[2] = 127
        /\ Cat(b, c)[3] = 0 /\ Cat(b, c)[4] = 0 /\ Cat(b, c)[5] = 0 /\ Cat(b, c)[6] = 0
        /\ Cat(b, c)[7] = 0 /\ Cat(b, c)[8] = 0
        /\ Cat(b, c)[9] = n \div 256 /\ Cat(b, c)[10] = n % 256
    BY <1>4, <2>1, <2>3
  <2> QED
    <3>1. HeadSize(f) = 10 /\ f.form # 7 /\ f.form # 16 /\ f.form # 0
      BY <1>8 DEF HeadSize
    <3>2. IsHead(Cat(b, c), f)
      BY <1>8, <2>4, <3>1, Zenon DEF IsHead, n
    <3>3. Cat(b, c) \in Seq(Byte)
      BY <2>3, Zenon
    <3>4. Len(Cat(b, c)) = HeadSize(f)
      BY <2>4, <3>1, Zenon
    <3> QED
      BY <2>2, <3>2, <3>3, <3>4, Zenon
<1>9. CASE f.form = 0
  <2> DEFINE z == f.size
             a == <<127>>
             c == Cat(a, z)
  <2>1. a \in Seq(Byte) /\ Len(a) = 1 /\ a[1] = 127
    BY DEF Byte
  <2>2. z \in Seq(Byte) /\ Len(z) = 8
    <3>1. 8 \in Nat /\ z \in [1..8 -> Byte]
      BY <1>1
    <3> QED
      BY <3>1, FunctionIsSeq, Zenon
  <2>3. FrameHead(f) = Cat(b, c)
    <3>1. f.form # 7 /\ f.form # 16 /\ f.form # 64
      BY <1>9
    <3> QED
      BY <1>9, <3>1, Zenon DEF FrameHead, b, n
  <2> HIDE DEF z, a
  <2>4. /\ c \in Seq(Byte) /\ Len(c) = Len(a) + Len(z)
        /\ \A i \in 1..Len(a) : c[i] = a[i]
        /\ \A i \in 1..Len(z) : c[Len(a) + i] = z[i]
    <3>1. a \in Seq(Byte) /\ z \in Seq(Byte)
      BY <2>1, <2>2
    <3> QED
      BY <3>1, CatBytes, Zenon
  <2> HIDE DEF c
  <2>5. Len(c) = 9 /\ c[1] = 127 /\ \A i \in 1..8 : c[1 + i] = z[i]
    BY <2>1, <2>2, <2>4
  <2> DEFINE h == Cat(b, c)
  <2>6. /\ h \in Seq(Byte) /\ Len(h) = Len(b) + Len(c)
        /\ \A i \in 1..Len(b) : h[i] = b[i]
        /\ \A i \in 1..Len(c) : h[Len(b) + i] = c[i]
    BY <1>4, <2>4, CatBytes, Zenon
  <2> HIDE DEF h
  <2>7. Len(h) = 10 /\ h[1] = 128 * f.fin + f.op /\ h[2] = 127 /\ \A i \in 1..8 : h[2 + i] = z[i]
    <3>1. Len(h) = 10 /\ h[1] = 128 * f.fin + f.op /\ h[2] = 127
      BY <1>4, <2>5, <2>6
    <3>2. ASSUME NEW i \in 1..8 PROVE h[2 + i] = z[i]
      <4>1. 1 + i \in 1..Len(c) /\ Len(b) + (1 + i) = 2 + i
        BY <1>4, <2>5
      <4>2. h[Len(b) + (1 + i)] = c[1 + i] /\ c[1 + i] = z[i]
        BY <2>5, <2>6, <4>1, Zenon
      <4> QED
        BY <4>1, <4>2, Zenon
    <3> QED
      BY <3>1, <3>2, Zenon
  <2>8. HeadSize(f) = 10 /\ f.form # 7 /\ f.form # 16 /\ f.form # 64
    BY <1>9 DEF HeadSize
  <2>9. IsHead(h, f)
    BY <1>9, <2>7, <2>8, Zenon DEF IsHead, n, z
  <2> QED
    <3>1. h \in Seq(Byte)
      BY <2>6, Zenon
    <3>2. Len(h) = HeadSize(f)
      BY <2>7, <2>8
    <3>3. FrameHead(f) = h
      BY <2>3, Zenon DEF h
    <3> QED
      BY <2>9, <3>1, <3>2, <3>3, Zenon
<1> QED
  BY <1>1, <1>6, <1>7, <1>8, <1>9

\* s starts like t, as far as it goes.
StartsLike(s, t) == \A i \in 1..Len(t) : i <= Len(s) => s[i] = t[i]

(* A frame of the server: its header and its payload.                       *)
LEMMA EncodedIs ==
  ASSUME NEW f \in ServerFrames
  PROVE  /\ Encoded(f) = Cat(FrameHead(f), f.payload) /\ Encoded(f) \in Seq(Byte)
         /\ HeadSize(f) \in 2..10 /\ f.payload \in Seq(Byte)
         /\ Len(Encoded(f)) = HeadSize(f) + Len(f.payload)
         /\ IsHead(Encoded(f), f)
         /\ \A i \in 1..Len(f.payload) : Encoded(f)[HeadSize(f) + i] = f.payload[i]
<1> DEFINE h == FrameHead(f)
           p == f.payload
           E == Cat(h, p)
<1>1. p \in Seq(Byte) /\ f.form \in {0, 7, 16, 64}
  BY DEF ServerFrames
<1>2. h \in Seq(Byte) /\ Len(h) = HeadSize(f) /\ IsHead(h, f)
  BY FrameHeadIs, Zenon
<1>3. Encoded(f) = E
  BY Zenon DEF Encoded, FrameHead, Cat
<1> HIDE DEF h
<1>4. /\ E \in Seq(Byte) /\ Len(E) = Len(h) + Len(p)
      /\ \A i \in 1..Len(h) : E[i] = h[i]
      /\ \A i \in 1..Len(p) : E[Len(h) + i] = p[i]
  <2>1. h \in Seq(Byte) /\ p \in Seq(Byte)
    BY <1>1, <1>2
  <2> HIDE DEF p
  <2> QED
    BY <2>1, CatBytes, Zenon
<1>5. /\ HeadSize(f) \in 2..10
      /\ f.form = 16 => HeadSize(f) = 4
      /\ f.form \in {0, 64} => HeadSize(f) = 10
  BY <1>1 DEF HeadSize
<1> HIDE DEF E
<1>6. IsHead(E, f)
  <2>1. E[1] = h[1] /\ E[2] = h[2]
    BY <1>2, <1>4, <1>5
  <2>2. f.form = 16 => E[3] = h[3] /\ E[4] = h[4]
    BY <1>2, <1>4, <1>5
  <2>3. f.form = 64 => /\ E[3] = h[3] /\ E[4] = h[4] /\ E[5] = h[5] /\ E[6] = h[6]
                       /\ E[7] = h[7] /\ E[8] = h[8] /\ E[9] = h[9] /\ E[10] = h[10]
    BY <1>2, <1>4, <1>5
  <2>4. f.form = 0 => \A i \in 1..8 : E[2 + i] = h[2 + i]
    <3>1. f.form = 0 => \A i \in 1..8 : 2 + i \in 1..Len(h)
      BY <1>2, <1>5
    <3> QED
      BY <1>4, <3>1, Zenon
  <2> QED
    <3>1. E[1] = 128 * f.fin + f.op /\ (f.form = 7 => E[2] = Len(f.payload))
      BY <1>2, <2>1, Zenon DEF IsHead
    <3>2. f.form = 16 => /\ E[2] = 126 /\ E[3] = Len(f.payload) \div 256
                         /\ E[4] = Len(f.payload) % 256
      BY <1>2, <2>1, <2>2, Zenon DEF IsHead
    <3>3. f.form = 64 => /\ E[2] = 127 /\ E[3] = 0 /\ E[4] = 0 /\ E[5] = 0 /\ E[6] = 0
                         /\ E[7] = 0 /\ E[8] = 0 /\ E[9] = Len(f.payload) \div 256
                         /\ E[10] = Len(f.payload) % 256
      <4>1. f.form = 64 => /\ h[2] = 127 /\ h[3] = 0 /\ h[4] = 0 /\ h[5] = 0 /\ h[6] = 0
                           /\ h[7] = 0 /\ h[8] = 0 /\ h[9] = Len(f.payload) \div 256
                           /\ h[10] = Len(f.payload) % 256
        BY <1>2, Zenon DEF IsHead
      <4> QED
        BY <2>1, <2>3, <4>1
    <3>4. f.form = 0 => E[2] = 127 /\ \A i \in 1..8 : E[2 + i] = f.size[i]
      <4>1. f.form = 0 => h[2] = 127 /\ \A i \in 1..8 : h[2 + i] = f.size[i]
        BY <1>2, Zenon DEF IsHead
      <4> QED
        BY <2>1, <2>4, <4>1, Zenon
    <3> QED
      BY <3>1, <3>2, <3>3, <3>4, ZenonT(30) DEF IsHead
<1> QED
  BY <1>1, <1>2, <1>3, <1>4, <1>5, <1>6, Zenon DEF E, h

(* What comes after the header.                                             *)
LEMMA FramedIs ==
  ASSUME NEW f \in ServerFrames, NEW s \in Seq(Byte), StartsLike(s, Encoded(f)),
         f.op <= 15, Len(s) >= 2
  PROVE  Framed(s, HeadSize(f), Len(f.payload)) =
           IF Len(s) < Len(Encoded(f)) THEN NeedMore
           ELSE [status |-> "ok", op |-> f.op, fin |-> f.fin, payload |-> f.payload,
                 consumed |-> Len(Encoded(f))]
<1> DEFINE E == Encoded(f)
           h == HeadSize(f)
           p == f.payload
           n == Len(p)
<1>1. /\ h \in Nat \ {0} /\ p \in Seq(Byte) /\ Len(E) = h + n /\ E[1] = 128 * f.fin + f.op
      /\ \A i \in 1..n : E[h + i] = p[i]
  <2>1. /\ HeadSize(f) \in 2..10 /\ p \in Seq(Byte) /\ Len(E) = h + n /\ IsHead(E, f)
        /\ \A i \in 1..n : E[h + i] = p[i]
    BY EncodedIs, Zenon
  <2>2. E[1] = 128 * f.fin + f.op
    BY <2>1, Zenon DEF IsHead
  <2>3. HeadSize(f) \in Nat \ {0}
    BY <2>1
  <2> QED
    BY <2>1, <2>2, <2>3, Zenon
<1>2. n \in Nat /\ Len(s) \in Nat
  BY <1>1, LenProperties
<1>3. f.op \in 0..127 /\ f.fin \in 0..1
  BY DEF ServerFrames
<1>4. s[1] = 128 * f.fin + f.op
  <2>1. 1 \in 1..Len(E) /\ 1 <= Len(s)
    BY <1>1, <1>2
  <2> QED
    BY <1>1, <2>1, Zenon DEF StartsLike
<1>5. At(s, 0) % 16 = f.op /\ At(s, 0) \div 128 = f.fin
  <2>1. At(s, 0) = s[1]
    BY DEF At
  <2> QED
    <3>1. (128 * f.fin + f.op) % 16 = f.op /\ (128 * f.fin + f.op) \div 128 = f.fin
      BY <1>3, FirstByte, Zenon
    <3> QED
      BY <1>4, <2>1, <3>1, Zenon
<1>6. Sum64(h, n) = h + n /\ ~(n < 0)
  <2>1. ~(h + n < 0) /\ ~(n < 0)
    BY <1>1, <1>2
  <2> QED
    BY <2>1, Zenon DEF Sum64
<1>7. CASE Len(s) < h + n
  BY <1>1, <1>7, <1>6, Zenon DEF Framed
<1>8. CASE ~(Len(s) < h + n)
  <2> HIDE DEF E, h, n, p
  <2>1. h \in 0..h + n /\ h + n \in 0..Len(s) /\ (h + n) - h = n
    BY <1>1, <1>2, <1>8
  <2>2. /\ Part(s, h + 1, h + n) \in Seq(Byte) /\ Len(Part(s, h + 1, h + n)) = (h + n) - h
        /\ \A i \in 1..(h + n) - h : Part(s, h + 1, h + n)[i] = s[h + i]
    BY <2>1, PartOfSeq
  <2>3. ASSUME NEW i \in 1..n PROVE s[h + i] = p[i]
    <3>1. h + i \in 1..Len(E) /\ h + i <= Len(s)
      BY <1>1, <1>2, <1>8
    <3>2. s[h + i] = E[h + i]
      BY <3>1, Zenon DEF StartsLike, E
    <3> QED
      BY <1>1, <3>2, Zenon
  <2>4. Part(s, h + 1, h + n) = p
    <3>1. Len(p) = n
      BY Zenon DEF n
    <3> QED
      BY <1>1, <2>1, <2>2, <2>3, <3>1, SeqEqual
  <2>5. Span(s, h, n) = p
    BY <2>4, Zenon DEF Span, Part
  <2> QED
    BY <1>1, <1>5, <1>8, <1>6, <2>5, Zenon DEF Framed, E, h, n, p
<1> QED
  BY <1>7, <1>8

(* The length in two bytes.                                                 *)
LEMMA TwoBytes ==
  ASSUME NEW n \in Nat
  PROVE  /\ (n \div 256) * 256 + (n % 256) = n
         /\ (0 * 256 + (n \div 256)) * 256 + (n % 256) = n
OBVIOUS

(* A length below 126 in the second byte of a header, without a mask bit.   *)
LEMMA ShortLength ==
  ASSUME NEW n \in Nat, n < 126
  PROVE  ~(n \div 128 # 0) /\ n # 126 /\ n # 127
OBVIOUS

(* The three forms of the length: parse_frame finds the size of the header  *)
(* and the length, as soon as the header is there.                          *)
LEMMA UnmaskedIs ==
  ASSUME NEW f \in ServerFrames, f.form # 0,
         NEW s \in Seq(Byte), StartsLike(s, Encoded(f)), Len(s) >= 2
  PROVE  /\ ~(At(s, 1) \div 128 # 0)
         /\ Unmasked(s) = IF Len(s) < HeadSize(f) THEN NeedMore
                          ELSE Framed(s, HeadSize(f), Len(f.payload))
<1> DEFINE E == Encoded(f)
           h == HeadSize(f)
           n == Len(f.payload)
<1>1. h \in 2..10 /\ f.payload \in Seq(Byte) /\ Len(E) = h + n /\ IsHead(E, f)
  BY EncodedIs, Zenon
<1>2. n \in Nat /\ Len(s) \in Nat /\ Len(E) \in Nat /\ h <= Len(E)
  BY <1>1, LenProperties
<1>3. f.form \in {7, 16, 64} /\ (f.form = 7 => n < 126)
  BY DEF ServerFrames
<1>4. ASSUME NEW i \in 1..Len(E), i <= Len(s) PROVE s[i] = E[i]
  BY <1>4, Zenon DEF StartsLike
<1>5. /\ f.form = 7 => E[2] = n
      /\ f.form = 16 => E[2] = 126 /\ E[3] = n \div 256 /\ E[4] = n % 256
      /\ f.form = 64 => /\ E[2] = 127 /\ E[3] = 0 /\ E[4] = 0 /\ E[5] = 0 /\ E[6] = 0
                        /\ E[7] = 0 /\ E[8] = 0 /\ E[9] = n \div 256 /\ E[10] = n % 256
  BY <1>1, Zenon DEF IsHead
<1>6. /\ f.form = 7 => h = 2
      /\ f.form = 16 => h = 4
      /\ f.form = 64 => h = 10
  BY DEF HeadSize
<1> HIDE DEF E, n, h
<1>7. At(s, 1) = E[2]
  <2>1. At(s, 1) = s[2]
    BY DEF At
  <2>2. 2 \in 1..Len(E) /\ 2 <= Len(s)
    BY <1>1, <1>2
  <2> QED
    BY <1>4, <2>1, <2>2, Zenon
<1>8. CASE f.form = 7
  <2>1. ~(Len(s) < h)
    BY <1>6, <1>8
  <2>2. At(s, 1) = n /\ ~(At(s, 1) \div 128 # 0) /\ At(s, 1) # 126 /\ At(s, 1) # 127
    <3>1. At(s, 1) = n /\ n < 126
      BY <1>3, <1>5, <1>7, <1>8, Zenon
    <3>2. ~(n \div 128 # 0) /\ n # 126 /\ n # 127
      BY <1>2, <3>1, ShortLength
    <3> QED
      BY <3>1, <3>2, Zenon
  <2>3. Unmasked(s) = Framed(s, 2, n)
    BY <2>2, Zenon DEF Unmasked
  <2> QED
    BY <1>6, <1>8, <2>1, <2>2, <2>3, Zenon DEF h, n
<1>9. CASE f.form = 16
  <2>1. At(s, 1) = 126 /\ ~(At(s, 1) \div 128 # 0) /\ h = 4
    <3>1. At(s, 1) = 126 /\ h = 4
      BY <1>5, <1>6, <1>7, <1>9, Zenon
    <3> QED
      BY <3>1
  <2>2. CASE Len(s) < 4
    <3>1. Unmasked(s) = NeedMore
      BY <2>1, <2>2 DEF Unmasked
    <3> QED
      BY <2>1, <2>2, <3>1, Zenon DEF h
  <2>3. CASE ~(Len(s) < 4)
    <3>1. 3 \in 1..Len(E) /\ 3 <= Len(s) /\ 4 \in 1..Len(E) /\ 4 <= Len(s)
      BY <1>2, <2>1, <2>3
    <3>2. At(s, 2) = s[3] /\ At(s, 3) = s[4]
      BY DEF At
    <3>3. At(s, 2) = n \div 256 /\ At(s, 3) = n % 256
      <4>1. s[3] = E[3] /\ s[4] = E[4]
        BY <1>4, <3>1, Zenon
      <4> QED
        BY <1>5, <1>9, <3>2, <4>1
    <3>4. At(s, 2) * 256 + At(s, 3) = n
      BY <1>2, <3>3, TwoBytes
    <3>5. Unmasked(s) = Framed(s, 4, n)
      BY <2>1, <2>3, <3>4 DEF Unmasked
    <3> QED
      BY <2>1, <2>3, <3>5, Zenon DEF h, n
  <2> QED
    BY <2>2, <2>3, Zenon
<1>10. CASE f.form = 64
  <2>1. At(s, 1) = 127 /\ At(s, 1) # 126 /\ ~(At(s, 1) \div 128 # 0) /\ h = 10
    <3>1. At(s, 1) = 127 /\ h = 10
      BY <1>5, <1>6, <1>7, <1>10, Zenon
    <3> QED
      BY <3>1
  <2>2. CASE Len(s) < 10
    <3>1. Unmasked(s) = NeedMore
      BY <2>1, <2>2 DEF Unmasked
    <3> QED
      BY <2>1, <2>2, <3>1, Zenon DEF h
  <2>3. CASE ~(Len(s) < 10)
    <3> DEFINE t == Span(s, 2, 8)
    <3>1. \A i \in 3..10 : i \in 1..Len(E) /\ i <= Len(s)
      BY <1>2, <2>1, <2>3
    <3>2. \A i \in 3..10 : s[i] = E[i]
      BY <1>4, <3>1, Zenon
    <3>3. \A i \in 1..8 : t[i] = E[2 + i]
      <4>1. 10 \in 0..Len(s) /\ 2 \in 0..10 /\ 10 - 2 = 8 /\ 2 + 8 = 10
        BY <1>2, <2>3
      <4>2. \A i \in 1..10 - 2 : Part(s, 2 + 1, 10)[i] = s[2 + i]
        BY <4>1, PartOfSeq, Zenon
      <4>3. t = Part(s, 2 + 1, 10)
        BY <4>1, Zenon DEF Span, Part
      <4>4. \A i \in 1..8 : 2 + i \in 3..10
        OBVIOUS
      <4> QED
        BY <3>2, <4>1, <4>2, <4>3, <4>4, Zenon
    <3> HIDE DEF t
    <3>4. /\ t[1] = 0 /\ t[2] = 0 /\ t[3] = 0 /\ t[4] = 0 /\ t[5] = 0 /\ t[6] = 0
          /\ t[7] = n \div 256 /\ t[8] = n % 256
      BY <1>5, <1>10, <3>3
    <3>5. Length64(t) = n
      <4>1. /\ At(t, 0) = t[1] /\ At(t, 1) = t[2] /\ At(t, 2) = t[3] /\ At(t, 3) = t[4]
            /\ At(t, 4) = t[5] /\ At(t, 5) = t[6] /\ At(t, 6) = t[7] /\ At(t, 7) = t[8]
        BY DEF At
      <4>2. \A i \in 0..4 : i = 0 \/ i = 1 \/ i = 2 \/ i = 3 \/ i = 4
        OBVIOUS
      <4>3. \A i \in 0..4 : At(t, i) = 0
        BY <3>4, <4>1, <4>2, Zenon
      <4>4. (At(t, 5) * 256 + At(t, 6)) * 256 + At(t, 7) = n
        BY <1>2, <3>4, <4>1, TwoBytes
      <4> QED
        BY <4>3, <4>4 DEF Length64
    <3>6. Unmasked(s) = Framed(s, 10, n)
      BY <2>1, <2>3, <3>5 DEF Unmasked, t
    <3> QED
      BY <2>1, <2>3, <3>6, Zenon DEF h, n
  <2> QED
    BY <2>2, <2>3, Zenon
<1> QED
  BY <1>3, <1>8, <1>9, <1>10, Zenon

(* hdr + len of ten bytes and a length that is HUGE, or close to 2^64.      *)
LEMMA SumsAre ==
  /\ Sum64(10, HUGE) = 10 + HUGE /\ ~(HUGE < 0)
  /\ \A l \in Int : l < 0 => Sum64(10, l) = IF 10 + l < 0 THEN HUGE ELSE 10 + l
<1>1. ~(10 + HUGE < 0) /\ ~(HUGE < 0)
  BY DEF HUGE
<1> QED
  BY <1>1, Zenon DEF Sum64

(* A frame that announces more than any buffer holds is never complete, but *)
(* for the lengths that wrap.                                               *)
LEMMA OverlongIs ==
  ASSUME NEW f \in ServerFrames, f.form = 0,
         NEW s \in Seq(Byte), Len(s) < HUGE, Len(s) >= 10,
         NEW t, \A i \in 1..8 : t[i] = f.size[i]
  PROVE  Framed(s, 10, Length64(t)) = IF Wraps(f) THEN [status |-> "beyond"] ELSE NeedMore
<1> DEFINE z == f.size
           low == (z[6] * 256 + z[7]) * 256 + z[8]
<1>1. z \in [1..8 -> Byte] /\ \E i \in 1..5 : z[i] # 0
  BY DEF ServerFrames
<1>2. /\ \A i \in 0..4 : At(t, i) = z[i + 1] /\ i + 1 \in 1..5
      /\ \A i \in 1..5 : At(t, i - 1) = z[i] /\ i - 1 \in 0..4
      /\ At(t, 5) = z[6] /\ At(t, 6) = z[7] /\ At(t, 7) = z[8]
  <2>1. /\ \A i \in 0..4 : i + 1 \in 1..8 /\ i + 1 \in 1..5
        /\ \A i \in 1..5 : i - 1 \in 0..4 /\ (i - 1) + 1 = i /\ i \in 1..8
        /\ 5 + 1 = 6 /\ 6 + 1 = 7 /\ 7 + 1 = 8 /\ 6 \in 1..8 /\ 7 \in 1..8 /\ 8 \in 1..8
    OBVIOUS
  <2> QED
    BY <2>1 DEF At
<1> HIDE DEF z
<1>3. z[6] \in Byte /\ z[7] \in Byte /\ z[8] \in Byte
  BY <1>1
<1>4. ~ \A i \in 0..4 : At(t, i) = 0
  <2>1. PICK i \in 1..5 : z[i] # 0
    BY <1>1, Zenon
  <2>2. At(t, i - 1) # 0 /\ i - 1 \in 0..4
    BY <1>2, <2>1, Zenon
  <2> QED
    BY <2>2, Zenon
<1>5. Len(s) \in Nat /\ HUGE \in Nat
  BY DEF HUGE
<1>6. CASE \A i \in 0..4 : At(t, i) = 255
  <2>1. Length64(t) = low - HUGE
    BY <1>2, <1>4, <1>6, Zenon DEF Length64
  <2>2. low - HUGE \in Int /\ low - HUGE < 0
        /\ (10 + (low - HUGE) < 0 <=> ~(z[6] = 255 /\ z[7] = 255 /\ z[8] >= 246))
    <3> DEFINE a == z[6]
               b == z[7]
               c == z[8]
    <3>1. a \in Byte /\ b \in Byte /\ c \in Byte
      BY <1>3, Zenon
    <3> HIDE DEF a, b, c
    <3>2. /\ ((a * 256 + b) * 256 + c) - HUGE \in Int
          /\ ((a * 256 + b) * 256 + c) - HUGE < 0
          /\ 10 + (((a * 256 + b) * 256 + c) - HUGE) < 0 <=> ~(a = 255 /\ b = 255 /\ c >= 246)
      BY <3>1 DEF Byte, HUGE
    <3> QED
      BY <3>2 DEF a, b, c
  <2> DEFINE l == low - HUGE
  <2>3. Wraps(f) <=> z[6] = 255 /\ z[7] = 255 /\ z[8] >= 246
    <3>1. \A i \in 1..5 : z[i] = 255
      BY <1>2, <1>6
    <3>2. 6 \in 1..7 /\ 7 \in 1..7 /\ \A i \in 1..7 : i \in 1..5 \/ i = 6 \/ i = 7
      OBVIOUS
    <3> QED
      BY <3>1, <3>2 DEF Wraps, z
  <2> HIDE DEF low, l
  <2>4. Sum64(10, l) = IF 10 + l < 0 THEN HUGE ELSE 10 + l
    BY <2>2, SumsAre, Zenon DEF l
  <2>5. l \in Int /\ l < 0
    BY <2>2, Zenon DEF l
  <2>6. ~(10 + l < 0) => ~(Len(s) < 10 + l)
    BY <1>5, <2>5
  <2>7. Framed(s, 10, l) = IF 10 + l < 0 THEN NeedMore ELSE [status |-> "beyond"]
    <3>1. CASE 10 + l < 0
      BY <2>4, <3>1, Zenon DEF Framed
    <3>2. CASE ~(10 + l < 0)
      BY <2>4, <2>5, <2>6, <3>2, Zenon DEF Framed
    <3> QED
      BY <3>1, <3>2, Zenon
  <2> QED
    BY <2>1, <2>2, <2>3, <2>7, Zenon DEF l
<1>7. CASE ~ \A i \in 0..4 : At(t, i) = 255
  <2>1. Length64(t) = HUGE
    BY <1>4, <1>7, Zenon DEF Length64
  <2>2. Sum64(10, HUGE) = 10 + HUGE /\ Len(s) < 10 + HUGE
    <3>1. Len(s) < 10 + HUGE
      BY <1>5
    <3> QED
      BY <3>1, SumsAre, Zenon
  <2>3. Framed(s, 10, HUGE) = NeedMore
    BY <2>2, Zenon DEF Framed
  <2>4. ~Wraps(f)
    <3>1. \A i \in 0..4 : i + 1 \in 1..7
      OBVIOUS
    <3>2. ASSUME Wraps(f) PROVE \A i \in 1..7 : z[i] = 255
      BY <3>2 DEF Wraps, z
    <3>3. ASSUME Wraps(f) PROVE \A i \in 0..4 : At(t, i) = 255
      BY <1>2, <3>1, <3>2, <3>3
    <3> QED
      BY <1>7, <3>3
  <2> QED
    BY <2>1, <2>3, <2>4, Zenon
<1> QED
  BY <1>6, <1>7, Zenon

(* Its header, as soon as that is there.                                    *)
LEMMA UnmaskedOverlong ==
  ASSUME NEW f \in ServerFrames, f.form = 0,
         NEW s \in Seq(Byte), StartsLike(s, Encoded(f)), Len(s) >= 2, Len(s) < HUGE
  PROVE  /\ ~(At(s, 1) \div 128 # 0)
         /\ Unmasked(s) = IF Len(s) < 10 \/ ~Wraps(f) THEN NeedMore ELSE [status |-> "beyond"]
<1> DEFINE E == Encoded(f)
<1>1. HeadSize(f) \in 2..10 /\ f.payload \in Seq(Byte) /\ Len(E) = HeadSize(f) + Len(f.payload)
      /\ IsHead(E, f)
  BY EncodedIs, Zenon
<1>2. HeadSize(f) = 10
  BY DEF HeadSize
<1>3. Len(E) \in Nat /\ 10 <= Len(E) /\ Len(s) \in Nat
  <2>1. Len(f.payload) \in Nat
    BY <1>1, LenProperties, Zenon
  <2> HIDE DEF E
  <2> QED
    BY <1>1, <1>2, <2>1
<1>4. E[2] = 127 /\ \A i \in 1..8 : E[2 + i] = f.size[i]
  BY <1>1, Zenon DEF IsHead
<1> HIDE DEF E
<1>5. ASSUME NEW i \in 1..10, i <= Len(s) PROVE s[i] = E[i]
  <2>1. i \in 1..Len(E)
    BY <1>3
  <2> QED
    BY <1>5, <2>1, Zenon DEF StartsLike, E
<1>6. At(s, 1) = 127 /\ At(s, 1) # 126 /\ ~(At(s, 1) \div 128 # 0)
  <2>1. At(s, 1) = s[2] /\ 2 \in 1..10 /\ 2 <= Len(s)
    BY DEF At
  <2>2. At(s, 1) = 127
    BY <1>4, <1>5, <2>1, Zenon
  <2> QED
    BY <2>2
<1>7. CASE Len(s) < 10
  BY <1>6, <1>7, Zenon DEF Unmasked
<1>8. CASE ~(Len(s) < 10)
  <2> DEFINE t == Span(s, 2, 8)
  <2>1. Len(s) >= 10
    BY <1>3, <1>8
  <2>2. \A i \in 1..8 : t[i] = f.size[i]
    <3>1. 10 \in 0..Len(s) /\ 2 \in 0..10 /\ 10 - 2 = 8 /\ 2 + 8 = 10
      BY <1>3, <1>8
    <3>2. \A i \in 1..8 : t[i] = s[2 + i]
      BY <3>1 DEF Span
    <3>3. \A i \in 1..8 : 2 + i \in 1..10 /\ 2 + i <= Len(s)
      BY <1>3, <2>1
    <3>4. \A i \in 1..8 : s[2 + i] = E[2 + i]
      BY <1>5, <3>3, Zenon
    <3> HIDE DEF t
    <3> QED
      BY <1>4, <3>2, <3>4
  <2>3. Unmasked(s) = Framed(s, 10, Length64(t))
    BY <1>6, <1>8, Zenon DEF Unmasked
  <2> HIDE DEF t
  <2>4. Framed(s, 10, Length64(t)) = IF Wraps(f) THEN [status |-> "beyond"] ELSE NeedMore
    BY <2>1, <2>2, OverlongIs, Zenon
  <2> QED
    BY <1>6, <1>8, <2>3, <2>4
<1> QED
  BY <1>6, <1>7, <1>8, Zenon

(* parse_frame on what has arrived of a frame: more is needed until the     *)
(* last byte is there, and then it yields the frame and no byte beyond it.  *)
(* A frame that announces more than any buffer holds is not complete, but   *)
(* for the ten lengths where the sum with the header's wraps.               *)
THEOREM ParsesFrame ==
  ASSUME NEW f \in ServerFrames, NEW s \in Seq(Byte), StartsLike(s, Encoded(f)), Len(s) < HUGE
  PROVE  parse_frame(s) =
           IF Len(s) < 2 THEN NeedMore
           ELSE IF f.op > 15 THEN [status |-> "bad_reserved"]
           ELSE IF f.form = 0
           THEN IF Len(s) < 10 \/ ~Wraps(f) THEN NeedMore ELSE [status |-> "beyond"]
           ELSE IF Len(s) < Len(Encoded(f)) THEN NeedMore
           ELSE [status |-> "ok", op |-> f.op, fin |-> f.fin, payload |-> f.payload,
                 consumed |-> Len(Encoded(f))]
<1> DEFINE E == Encoded(f)
           h == HeadSize(f)
           ok == [status |-> "ok", op |-> f.op, fin |-> f.fin, payload |-> f.payload,
                  consumed |-> Len(E)]
<1> HIDE DEF ok
<1>1. CASE Len(s) < 2
  BY <1>1, Zenon DEF parse_frame
<1>2. CASE ~(Len(s) < 2)
  <2>1. Len(s) \in Nat /\ Len(s) >= 2
    BY <1>2, LenProperties
  <2>2. h \in 2..10 /\ f.payload \in Seq(Byte) /\ Len(E) = h + Len(f.payload) /\ E[1] = 128 * f.fin + f.op
    BY EncodedIs, Zenon DEF IsHead
  <2>3. Len(f.payload) \in Nat
    BY <2>2, LenProperties, Zenon
  <2>4. f.op \in 0..127 /\ f.fin \in 0..1
    BY DEF ServerFrames
  <2>5. At(s, 0) = 128 * f.fin + f.op
    <3>1. At(s, 0) = s[1]
      BY DEF At
    <3>2. 1 \in 1..Len(E) /\ 1 <= Len(s)
      BY <2>1, <2>2, <2>3
    <3> QED
      BY <2>2, <3>1, <3>2, Zenon DEF StartsLike
  <2>6. /\ f.op > 15 <=> (At(s, 0) \div 16) % 8 # 0
        /\ ~(f.op > 15) => f.op <= 15
    <3>1. f.op > 15 <=> ((128 * f.fin + f.op) \div 16) % 8 # 0
      BY <2>4, FirstByte, ZenonT(30)
    <3>2. ~(f.op > 15) => f.op <= 15
      BY <2>4, FirstByte, Zenon
    <3> QED
      BY <2>5, <3>1, <3>2
  <2>7. CASE f.op > 15
    <3>1. (At(s, 0) \div 16) % 8 # 0
      BY <2>7, <2>6
    <3> QED
      BY <1>2, <2>7, <3>1, Zenon DEF parse_frame
  <2>8. CASE ~(f.op > 15) /\ f.form = 0
    <3>1. ~((At(s, 0) \div 16) % 8 # 0)
      BY <2>8, <2>6
    <3>2. /\ ~(At(s, 1) \div 128 # 0)
          /\ Unmasked(s) = IF Len(s) < 10 \/ ~Wraps(f) THEN NeedMore ELSE [status |-> "beyond"]
      BY <2>1, <2>8, UnmaskedOverlong, Zenon
    <3> QED
      BY <1>2, <2>8, <3>1, <3>2, Zenon DEF parse_frame
  <2>9. CASE ~(f.op > 15) /\ f.form # 0
    <3>1. f.op <= 15
      BY <2>9, <2>6
    <3>2. ~((At(s, 0) \div 16) % 8 # 0)
      BY <2>9, <2>6
    <3>3. Framed(s, h, Len(f.payload)) = IF Len(s) < Len(E) THEN NeedMore ELSE ok
      BY <2>1, <3>1, FramedIs, Zenon DEF ok
    <3>4. ~(At(s, 1) \div 128 # 0)
      BY <2>1, <2>9, UnmaskedIs, Zenon
    <3>5. Unmasked(s) = IF Len(s) < h THEN NeedMore ELSE Framed(s, h, Len(f.payload))
      BY <2>1, <2>9, UnmaskedIs, Zenon
    <3>6. Len(s) < h => Len(s) < Len(E)
      BY <2>1, <2>2, <2>3
    <3>7. Unmasked(s) = IF Len(s) < Len(E) THEN NeedMore ELSE ok
      BY <3>3, <3>5, <3>6, Zenon
    <3> QED
      BY <1>2, <2>9, <3>2, <3>4, <3>7, Zenon DEF parse_frame, ok
  <2> QED
    BY <2>7, <2>8, <2>9, Zenon
<1> QED
  BY <1>1, <1>2, Zenon

-----------------------------------------------------------------------------
\* Buffer<CAP> is a queue of bytes

(* Writing what fits and reading what is there keeps the cursors ordered   *)
(* and inside the array (buffer.hpp checks neither).                       *)
LEMMA CursorsStayInside ==
  ASSUME NEW cap \in Nat, NEW b \in Buffers(cap)
  PROVE  /\ Cleared \in Buffers(cap)
         /\ Unread(b) \in 0..cap /\ Room(b, cap) \in 0..cap
         /\ \A n \in 0..Room(b, cap) : Wrote(b, n) \in Buffers(cap)
         /\ \A n \in 0..Unread(b) : Took(b, n) \in Buffers(cap)
<1>1. Cleared \in Buffers(cap)
  BY DEF Buffers, Cleared
<1>2. Unread(b) \in 0..cap /\ Room(b, cap) \in 0..cap
  BY DEF Buffers, Unread, Room
<1>3. ASSUME NEW n \in 0..Room(b, cap) PROVE Wrote(b, n) \in Buffers(cap)
  BY DEF Buffers, Wrote, Room
<1>4. ASSUME NEW n \in 0..Unread(b) PROVE Took(b, n) \in Buffers(cap)
  BY <1>1 DEF Buffers, Took, Unread
<1> QED
  BY <1>1, <1>2, <1>3, <1>4

(* The unread bytes grow by what is written and shrink by what is read,    *)
(* also when the last read puts both cursors back to the front.            *)
LEMMA UnreadCounts ==
  ASSUME NEW cap \in Nat, NEW b \in Buffers(cap)
  PROVE  /\ Unread(Cleared) = 0
         /\ \A n \in 0..Room(b, cap) : Unread(Wrote(b, n)) = Unread(b) + n
         /\ \A n \in 0..Unread(b) : Unread(Took(b, n)) = Unread(b) - n
<1>1. Unread(Cleared) = 0
  BY DEF Unread, Cleared
<1>2. ASSUME NEW n \in 0..Room(b, cap)
      PROVE  Unread(Wrote(b, n)) = Unread(b) + n
  BY DEF Buffers, Wrote, Room, Unread
<1>3. ASSUME NEW n \in 0..Unread(b)
      PROVE  Unread(Took(b, n)) = Unread(b) - n
  BY DEF Buffers, Took, Unread, Cleared
<1> QED
  BY <1>1, <1>2, <1>3

\* The array holds bytes, and the cursors are ordered and inside it.
QueueInv == buf \in [1..CAP -> Bytes] /\ pos \in Buffers(CAP)

\* s holds the bytes of b between the cursors r and w.
IsPart(s, b, r, w) ==
  /\ s \in Seq(Bytes) /\ Len(s) = w - r
  /\ \A i \in 1..w - r : s[i] = b[r + i]

(* A part of an array, a part of a part, and that a part is determined by  *)
(* its cursors and the bytes between them.                                 *)
LEMMA PartOfArray ==
  ASSUME NEW b \in [1..CAP -> Bytes], NEW r \in 0..CAP, NEW w \in r..CAP
  PROVE  IsPart(Part(b, r + 1, w), b, r, w)
<1>1. CAP \in Nat /\ w \in 0..CAP /\ r \in 0..w
  BY QueueAssumption
<1>2. b \in Seq(Bytes) /\ Len(b) = CAP
  BY <1>1, FunctionIsSeq, Zenon
<1>3. /\ Part(b, r + 1, w) \in Seq(Bytes) /\ Len(Part(b, r + 1, w)) = w - r
      /\ \A i \in 1..w - r : Part(b, r + 1, w)[i] = b[r + i]
  BY <1>1, <1>2, PartOfSeq, Zenon
<1> QED
  BY <1>3, Zenon DEF IsPart

(* A part of a part is a part of the array, at the shifted cursors.        *)
LEMMA PartOfPart ==
  ASSUME NEW b, NEW s, NEW r \in Nat, NEW w \in Nat, IsPart(s, b, r, w),
         NEW p \in r..w, NEW q \in p..w
  PROVE  IsPart(Part(s, p - r + 1, q - r), b, p, q)
<1> DEFINE t == Part(s, p - r + 1, q - r)
<1>1. p \in Nat /\ q \in Nat /\ q - r \in 0..w - r /\ p - r \in 0..q - r /\ (q - r) - (p - r) = q - p
  OBVIOUS
<1>2. /\ s \in Seq(Bytes) /\ Len(s) = w - r
      /\ \A i \in 1..w - r : s[i] = b[r + i]
  BY Zenon DEF IsPart
<1>3. /\ t \in Seq(Bytes) /\ Len(t) = (q - r) - (p - r)
      /\ \A i \in 1..(q - r) - (p - r) : t[i] = s[(p - r) + i]
  <2> DEFINE x == q - r
             y == p - r
  <2>1. x \in 0..Len(s) /\ y \in 0..x
    BY <1>1, <1>2, Zenon
  <2> HIDE DEF x, y
  <2>2. /\ Part(s, y + 1, x) \in Seq(Bytes) /\ Len(Part(s, y + 1, x)) = x - y
        /\ \A i \in 1..x - y : Part(s, y + 1, x)[i] = s[y + i]
    BY <1>2, <2>1, PartOfSeq, ZenonT(30)
  <2> QED
    BY <2>2, Zenon DEF x, y
<1> HIDE DEF t
<1>4. ASSUME NEW i \in 1..q - p PROVE t[i] = b[p + i]
  <2>1. (p - r) + i \in 1..w - r /\ r + ((p - r) + i) = p + i
    BY <1>1
  <2>2. t[i] = s[(p - r) + i]
    BY <1>1, <1>3, Zenon
  <2>3. s[(p - r) + i] = b[r + ((p - r) + i)]
    BY <1>2, <2>1, Zenon
  <2> QED
    BY <2>1, <2>2, <2>3, Zenon
<1> QED
  BY <1>1, <1>3, <1>4, Zenon DEF IsPart, t

(* Two arrays that agree up to the write cursor have the same part.        *)
LEMMA PartIsUnique ==
  ASSUME NEW b, NEW d, NEW s, NEW t, NEW r \in 0..CAP, NEW w \in r..CAP,
         \A i \in 1..w : d[i] = b[i], IsPart(s, b, r, w), IsPart(t, d, r, w)
  PROVE  s = t
<1>1. \A i \in 1..w - r : r + i \in 1..w
  BY QueueAssumption
<1>2. /\ s \in Seq(Bytes) /\ t \in Seq(Bytes) /\ Len(s) = w - r /\ Len(t) = w - r
      /\ \A i \in 1..w - r : s[i] = t[i]
  BY <1>1, Zenon DEF IsPart
<1> QED
  BY <1>2, SeqEqual, Zenon

(* Bytes put behind a part of an array are produced.                       *)
LEMMA PartGrows ==
  ASSUME NEW b, NEW d, NEW s, NEW t,
         NEW r \in 0..CAP, NEW w \in r..CAP, NEW v \in w + 1..CAP,
         \A i \in 1..w : d[i] = b[i], IsPart(s, b, r, w), IsPart(t, d, r, v)
  PROVE  /\ Len(t) \in Len(s) + 1..CAP /\ Part(t, 1, Len(s)) = s
         /\ Part(t, Len(s) + 1, Len(t)) \in Seq(Bytes)
<1>0. /\ CAP \in Nat /\ v \in r..CAP /\ r \in r..v /\ w \in r..v /\ v \in w..v
      /\ r - r + 1 = 1 /\ r \in Nat /\ v \in Nat
  BY QueueAssumption
<1>1. Len(s) = w - r /\ Len(t) = v - r
  BY DEF IsPart
<1>2. Len(t) \in Len(s) + 1..CAP
  BY <1>0, <1>1
<1>3. IsPart(Part(t, r - r + 1, w - r), d, r, w)
  BY <1>0, PartOfPart, Zenon
<1>4. Part(t, 1, w - r) = s
  BY <1>0, <1>3, PartIsUnique
<1>5. IsPart(Part(t, w - r + 1, v - r), d, w, v)
  BY <1>0, PartOfPart, Zenon
<1> QED
  BY <1>1, <1>2, <1>4, <1>5 DEF IsPart

(* Bytes dropped from the front of a part of an array are consumed.        *)
LEMMA PartShrinks ==
  ASSUME NEW b, NEW s, NEW t, NEW r \in 0..CAP, NEW w \in r..CAP, NEW q \in r..w,
         IsPart(s, b, r, w), IsPart(t, b, q, w)
  PROVE  Len(t) <= Len(s) /\ t = Part(s, Len(s) - Len(t) + 1, Len(s))
<1>0. q \in 0..CAP /\ w \in q..CAP /\ w \in q..w /\ r \in Nat /\ w \in Nat
  BY QueueAssumption
<1>1. Len(s) = w - r /\ Len(t) = w - q
  BY DEF IsPart
<1>2. Len(t) <= Len(s) /\ Len(s) - Len(t) + 1 = q - r + 1
  BY <1>0, <1>1, QueueAssumption
<1>3. IsPart(Part(s, q - r + 1, w - r), b, q, w)
  BY <1>0, PartOfPart, Zenon
<1>4. t = Part(s, q - r + 1, w - r)
  BY <1>0, <1>3, PartIsUnique
<1> QED
  BY <1>1, <1>2, <1>4

(* rbuf() is the part of the array between the cursors.                    *)
LEMMA ContentIsPart ==
  ASSUME NEW b \in [1..CAP -> Bytes], NEW p \in Buffers(CAP)
  PROVE  /\ p.rpos \in 0..CAP /\ p.wpos \in p.rpos..CAP
         /\ IsPart(Part(b, p.rpos + 1, p.wpos), b, p.rpos, p.wpos)
<1>1. p.rpos \in 0..CAP /\ p.wpos \in p.rpos..CAP
  BY QueueAssumption DEF Buffers
<1> QED
  BY <1>1, PartOfArray

(* wrote() adds its bytes behind those that are there.                     *)
LEMMA WriteProduces ==
  ASSUME QueueInv, NEW n \in 1..Room(pos, CAP), NEW s \in [1..n -> Bytes],
         WriteBytes(s)
  PROVE  QueueInv' /\ Queue!Produce
<1>1. /\ CAP \in Nat /\ pos.rpos \in 0..CAP /\ pos.wpos \in pos.rpos..CAP
      /\ n \in 0..Room(pos, CAP) /\ pos.wpos + n \in pos.wpos + 1..CAP /\ Len(s) = n
  BY QueueAssumption DEF QueueInv, Buffers, Room
<1>2. pos'.rpos = pos.rpos /\ pos'.wpos = pos.wpos + n /\ pos' \in Buffers(CAP)
  <2>1. Wrote(pos, n) \in Buffers(CAP)
    BY <1>1, CursorsStayInside DEF QueueInv
  <2> QED
    BY <1>1, <2>1 DEF WriteBytes, Wrote, QueueInv, Buffers
<1>3. buf' \in [1..CAP -> Bytes] /\ \A i \in 1..pos.wpos : buf'[i] = buf[i]
  BY <1>1 DEF WriteBytes, QueueInv
<1>4. QueueInv'
  BY <1>2, <1>3 DEF QueueInv
<1>5. IsPart(Content, buf, pos.rpos, pos.wpos)
  BY ContentIsPart DEF QueueInv, Content, Part
<1>6. IsPart(Content', buf', pos.rpos, pos.wpos + n)
  BY <1>2, <1>3, ContentIsPart DEF Content, Part
<1>7. /\ Len(Content') \in Len(Content) + 1..CAP
      /\ Part(Content', 1, Len(Content)) = Content
      /\ Part(Content', Len(Content) + 1, Len(Content')) \in Seq(Bytes)
  <2> DEFINE r == pos.rpos
             w == pos.wpos
             v == pos.wpos + n
             d == buf'
             t == Content'
  <2>1. /\ r \in 0..CAP /\ w \in r..CAP /\ v \in w + 1..CAP
        /\ \A i \in 1..w : d[i] = buf[i]
        /\ IsPart(Content, buf, r, w) /\ IsPart(t, d, r, v)
    BY <1>1, <1>3, <1>5, <1>6
  <2> HIDE DEF r, w, v, d, t
  <2>2. /\ Len(t) \in Len(Content) + 1..CAP /\ Part(t, 1, Len(Content)) = Content
        /\ Part(t, Len(Content) + 1, Len(t)) \in Seq(Bytes)
    BY <2>1, PartGrows, Zenon
  <2> QED
    BY <2>2 DEF t
<1> QED
  BY <1>4, <1>7 DEF Queue!Produce, Part

(* read() takes bytes from the front, also when it resets the cursors, and *)
(* clear() takes all of them.                                              *)
LEMMA ReadConsumes ==
  ASSUME QueueInv,
         (\E n \in 0..Unread(pos) : ReadBytes(n)) \/ Clear
  PROVE  QueueInv' /\ Queue!Consume
<1>1. /\ CAP \in Nat /\ pos.rpos \in 0..CAP /\ pos.wpos \in pos.rpos..CAP
      /\ buf \in [1..CAP -> Bytes] /\ buf' = buf
  BY QueueAssumption DEF QueueInv, Buffers, ReadBytes, Clear
<1>2. IsPart(Content, buf, pos.rpos, pos.wpos)
  BY ContentIsPart DEF QueueInv, Content, Part
<1>3. CASE pos' = Cleared
  <2>1. QueueInv'
    BY <1>1, <1>3, CursorsStayInside DEF QueueInv
  <2>2. IsPart(Content', buf, 0, 0)
    BY <1>1, <1>3, <2>1, ContentIsPart DEF Cleared, QueueInv, Content, Part
  <2>3. Content' = <<>> /\ Len(Content') = 0
    BY <2>2, EmptySeq DEF IsPart
  <2>4. Len(Content) \in Nat
    BY <1>2, LenProperties DEF IsPart
  <2>5. SubSeq(Content, Len(Content) - 0 + 1, Len(Content)) = <<>>
    BY <2>4
  <2>6. 0 <= Len(Content)
    BY <2>4
  <2> QED
    BY <2>1, <2>3, <2>5, <2>6 DEF Queue!Consume
<1>4. ASSUME NEW n \in 0..Unread(pos), ReadBytes(n), pos' # Cleared
      PROVE  QueueInv' /\ Queue!Consume
  <2>1. /\ pos' \in Buffers(CAP) /\ pos.rpos + n \in pos.rpos..pos.wpos
        /\ pos'.rpos = pos.rpos + n /\ pos'.wpos = pos.wpos
    <3>1. Took(pos, n) \in Buffers(CAP)
      BY <1>1, CursorsStayInside DEF QueueInv
    <3> QED
      BY <1>1, <1>4, <3>1 DEF ReadBytes, Took, Unread, QueueInv, Buffers
  <2>2. QueueInv'
    BY <1>1, <2>1 DEF QueueInv
  <2>3. IsPart(Content', buf, pos.rpos + n, pos.wpos)
    BY <1>1, <2>1, ContentIsPart DEF Content, Part
  <2>4. /\ Len(Content') <= Len(Content)
        /\ Content' = Part(Content, Len(Content) - Len(Content') + 1, Len(Content))
    BY <1>1, <1>2, <2>1, <2>3, PartShrinks
  <2> QED
    BY <2>2, <2>4 DEF Queue!Consume, Part
<1> QED
  BY <1>3, <1>4 DEF Clear

(* A new buffer is empty.                                                  *)
LEMMA StartsEmpty ==
  ASSUME Init
  PROVE  QueueInv /\ Queue!Init
<1>1. QueueInv /\ pos.rpos = 0 /\ pos.wpos = 0
  <2>1. buf \in [1..CAP -> Bytes]
    BY QueueAssumption DEF Init
  <2>2. pos \in Buffers(CAP) /\ pos.rpos = 0 /\ pos.wpos = 0
    BY QueueAssumption DEF Init, Cleared, Buffers
  <2> QED
    BY <2>1, <2>2 DEF QueueInv
<1>2. IsPart(Content, buf, 0, 0)
  BY <1>1, ContentIsPart DEF QueueInv, Content, Part
<1>3. Content = <<>>
  BY <1>2, EmptySeq DEF IsPart
<1> QED
  BY <1>1, <1>3 DEF Queue!Init

(* What the reader sees is a first-in first-out queue of the bytes written. *)
THEOREM BufferIsAQueue == Spec => IsAQueue
<1>1. Init => QueueInv /\ Queue!Init
  BY StartsEmpty
<1>2. QueueInv /\ [Next]_vars => QueueInv' /\ [Queue!Next]_Content
  <2> SUFFICES ASSUME QueueInv, [Next]_vars
               PROVE  QueueInv' /\ [Queue!Next]_Content
    OBVIOUS
  <2>1. CASE UNCHANGED vars
    BY <2>1 DEF vars, QueueInv, Content
  <2>2. CASE Next
    BY <2>2, WriteProduces, ReadConsumes DEF Next, Queue!Next
  <2> QED
    BY <2>1, <2>2
<1> QED
  BY <1>1, <1>2, PTL DEF Spec, IsAQueue, Queue!Spec

-----------------------------------------------------------------------------
\* What the buffer holds, and the frames that are written

(* The receive buffer holds bytes.                                          *)
LEMMA BytesAre == Bytes = Byte
BY WireAssumption

(* A part that starts where two others do: the first of them is like its     *)
(* front, the second is what remains behind the first.                       *)
LEMMA PartSplits ==
  ASSUME NEW t, NEW m \in Nat, NEW a \in Nat, NEW l \in Nat, m <= a, a <= l,
         NEW s, IsPart(s, t, m, a), NEW e \in Seq(Byte), NEW r \in Seq(Byte),
         IsPart(Cat(e, r), t, m, l)
  PROVE  StartsLike(s, e) /\ m + Len(e) <= l /\ IsPart(r, t, m + Len(e), l)
<1> DEFINE c == Cat(e, r)
           n == Len(e)
           k == Len(r)
<1>1. /\ n \in Nat /\ k \in Nat /\ Len(c) = n + k
      /\ \A i \in 1..n : c[i] = e[i]
      /\ \A i \in 1..k : c[n + i] = r[i]
  <2>1. n \in Nat /\ k \in Nat
    OBVIOUS
  <2> QED
    BY <2>1, CatBytes, Zenon
<1>2. Len(c) = l - m /\ \A i \in 1..l - m : c[i] = t[m + i]
  BY Zenon DEF IsPart
<1>3. Len(s) = a - m /\ \A i \in 1..a - m : s[i] = t[m + i]
  BY Zenon DEF IsPart
<1> HIDE DEF c, n, k
<1>4. m + n <= l /\ k = l - (m + n)
  BY <1>1, <1>2
<1>5. ASSUME NEW i \in 1..n, i <= Len(s) PROVE s[i] = e[i]
  <2>1. i \in 1..l - m /\ i \in 1..a - m
    BY <1>1, <1>3, <1>4, <1>5
  <2> QED
    BY <1>1, <1>2, <1>3, <2>1, Zenon
<1>6. ASSUME NEW i \in 1..k PROVE r[i] = t[(m + n) + i]
  <2>1. n + i \in 1..l - m /\ m + (n + i) = (m + n) + i
    BY <1>1, <1>4
  <2>2. r[i] = c[n + i] /\ c[n + i] = t[m + (n + i)]
    BY <1>1, <1>2, <2>1, Zenon
  <2> QED
    BY <2>1, <2>2, Zenon
<1>7. StartsLike(s, e)
  BY <1>5, Zenon DEF StartsLike, n
<1>8. IsPart(r, t, m + n, l)
  <2>1. r \in Seq(Bytes)
    BY BytesAre, Zenon
  <2> QED
    BY <1>4, <1>6, <2>1, Zenon DEF IsPart, k
<1> QED
  BY <1>4, <1>7, <1>8, Zenon DEF n

(* Nothing is a part, from any place, of length 0.                           *)
LEMMA PartOfNone ==
  ASSUME NEW t, NEW m \in Nat, NEW s, IsPart(s, t, m, m)
  PROVE  s = <<>> /\ Len(s) = 0
<1>1. s \in Seq(Bytes) /\ Len(s) = 0
  BY DEF IsPart
<1> QED
  BY <1>1, EmptySeq, Zenon

(* What is in the buffer.                                                    *)
LEMMA ContentIs ==
  ASSUME QueueInv
  PROVE  /\ Unread(pos) \in Nat /\ Content \in Seq(Byte) /\ Len(Content) = Unread(pos)
         /\ IsPart(Content, buf, pos.rpos, pos.wpos)
<1>1. buf \in [1..CAP -> Bytes] /\ pos \in Buffers(CAP)
  BY Zenon DEF QueueInv
<1>2. /\ pos.rpos \in 0..CAP /\ pos.wpos \in pos.rpos..CAP
      /\ IsPart(Content, buf, pos.rpos, pos.wpos)
  BY <1>1, ContentIsPart, Zenon DEF Content, Part
<1>3. Unread(pos) \in Nat /\ Unread(pos) = pos.wpos - pos.rpos
  BY <1>2, QueueAssumption DEF Unread
<1> QED
  BY <1>2, <1>3, BytesAre, Zenon DEF IsPart

(* It is less than a length that stands for more than any buffer.            *)
LEMMA ContentFits ==
  ASSUME QueueInv
  PROVE  Len(Content) < HUGE
<1>1. buf \in [1..CAP -> Bytes] /\ pos \in Buffers(CAP)
  BY Zenon DEF QueueInv
<1>2. pos.rpos \in 0..CAP /\ pos.wpos \in pos.rpos..CAP
  BY <1>1, ContentIsPart, Zenon
<1>3. CAP \in Nat /\ HUGE \in Nat /\ CAP < HUGE
  BY QueueAssumption, WireAssumption DEF HUGE
<1>4. Unread(pos) < HUGE
  <2>1. pos.wpos - pos.rpos < HUGE
    BY <1>2, <1>3
  <2> QED
    BY <2>1, Zenon DEF Unread
<1> QED
  BY <1>4, ContentIs, Zenon

(* read() of n bytes moves the front of the buffer n bytes along the stream.  *)
LEMMA ReadMoves ==
  ASSUME QueueInv, NEW n \in 0..Unread(pos), ReadBytes(n),
         NEW t, NEW m \in Nat, NEW a \in Nat, a - m = Unread(pos), IsPart(Content, t, m, a)
  PROVE  /\ QueueInv' /\ Queue!Consume /\ Unread(pos)' = Unread(pos) - n
         /\ IsPart(Content', t, m + n, a)
<1>1. QueueInv' /\ Queue!Consume
  BY ReadConsumes, Zenon
<1>2. Unread(pos)' = Unread(pos) - n
  <2>1. CAP \in Nat /\ pos \in Buffers(CAP)
    BY QueueAssumption DEF QueueInv
  <2>2. Unread(Took(pos, n)) = Unread(pos) - n
    BY <2>1, UnreadCounts, Zenon
  <2> QED
    BY <2>2, Zenon DEF ReadBytes, Unread
<1> DEFINE c == Content
           d == Content'
           u == Unread(pos)
           v == Unread(pos)'
<1>3. u \in Nat /\ Len(c) = u
  BY ContentIs, Zenon
<1>4. v \in Nat /\ Len(d) = v
  <2>1. (Unread(pos) \in Nat /\ Len(Content) = Unread(pos))'
    BY <1>1, ContentIs, PTL
  <2> QED
    BY <2>1, Zenon
<1>5. d = Part(c, Len(c) - Len(d) + 1, Len(c))
  BY <1>1, Zenon DEF Queue!Consume, Part
<1>6. v = u - n /\ a - m = u /\ IsPart(c, t, m, a)
  BY <1>2, Zenon
<1> HIDE DEF c, d, u, v
<1>7. /\ m + n \in m..a /\ a \in m + n..a
      /\ Len(c) - Len(d) + 1 = (m + n) - m + 1 /\ Len(c) = a - m
  BY <1>3, <1>4, <1>6
<1>8. IsPart(Part(c, (m + n) - m + 1, a - m), t, m + n, a)
  BY <1>6, <1>7, PartOfPart, Zenon
<1>9. IsPart(d, t, m + n, a)
  BY <1>5, <1>7, <1>8, Zenon
<1> QED
  BY <1>1, <1>2, <1>9, Zenon DEF d

(* A byte of the stream that is written into the buffer.                     *)
LEMMA WriteMoves ==
  ASSUME QueueInv, ~Full(pos, CAP), NEW b \in Byte, WriteBytes(<<b>>),
         NEW t, NEW m \in Nat, NEW a \in Nat, a - m = Unread(pos), IsPart(Content, t, m, a),
         t[a + 1] = b
  PROVE  /\ QueueInv' /\ Queue!Produce /\ Unread(pos)' = Unread(pos) + 1
         /\ IsPart(Content', t, m, a + 1)
<1> DEFINE r == pos.rpos
           w == pos.wpos
           c == Content
           d == Content'
<1>1. CAP \in Nat /\ pos \in Buffers(CAP) /\ r \in 0..CAP /\ w \in r..CAP /\ w < CAP
  BY QueueAssumption DEF QueueInv, Buffers, Full
<1>2. 1 \in 1..Room(pos, CAP)
  BY <1>1 DEF Room
<1>3. <<b>> \in [1..1 -> Bytes] /\ Len(<<b>>) = 1 /\ <<b>>[1] = b
  BY BytesAre
<1>4. QueueInv' /\ Queue!Produce
  BY <1>2, <1>3, WriteProduces, Zenon
<1>5. pos' = [pos EXCEPT !.wpos = @ + 1]
  BY <1>3, Zenon DEF WriteBytes, Wrote
<1>6. pos'.rpos = r /\ pos'.wpos = w + 1
  BY <1>1, <1>5 DEF Buffers
<1>7. (\A i \in 1..w : buf'[i] = buf[i]) /\ buf'[w + 1] = b
  <2>1. buf' = [i \in 1..CAP |-> IF i \in w + 1..w + 1 THEN <<b>>[i - w] ELSE buf[i]]
    BY <1>3, Zenon DEF WriteBytes
  <2>2. \A i \in 1..w : i \in 1..CAP /\ i \notin w + 1..w + 1
    BY <1>1
  <2>3. w + 1 \in 1..CAP /\ w + 1 \in w + 1..w + 1 /\ (w + 1) - w = 1
    BY <1>1
  <2> QED
    BY <1>3, <2>1, <2>2, <2>3, Zenon
<1>8. (IsPart(Content, buf, pos.rpos, pos.wpos))'
  BY <1>4, ContentIs, PTL
<1>9. /\ IsPart(d, buf', r, w + 1) /\ IsPart(c, buf, r, w) /\ IsPart(c, t, m, a)
      /\ Unread(pos) = w - r /\ Unread(pos)' = (w + 1) - r /\ a - m = w - r
  <2>1. Unread(pos) = w - r /\ Unread(pos)' = (w + 1) - r
    BY <1>6, Zenon DEF Unread
  <2> QED
    BY <1>6, <1>8, <2>1, ContentIs, Zenon
<1>10. Unread(pos)' = Unread(pos) + 1
  BY <1>1, <1>9
<1>11. IsPart(d, t, m, a + 1)
  <2> DEFINE e == buf'
  <2>1. /\ d \in Seq(Bytes) /\ Len(d) = (w + 1) - r
        /\ \A i \in 1..(w + 1) - r : d[i] = e[r + i]
    BY <1>9, Zenon DEF IsPart
  <2>2. (\A i \in 1..w - r : c[i] = buf[r + i]) /\ \A i \in 1..a - m : c[i] = t[m + i]
    BY <1>9, Zenon DEF IsPart
  <2>3. (\A i \in 1..w : e[i] = buf[i]) /\ e[w + 1] = b /\ a - m = w - r
    BY <1>7, <1>9, Zenon
  <2>4. t[a + 1] = b
    OBVIOUS
  <2> HIDE DEF r, w, c, d, e
  <2>5. r \in Nat /\ w \in Nat /\ r <= w
    BY <1>1
  <2>6. (w + 1) - r = (a + 1) - m
    BY <2>3, <2>5
  <2>7. ASSUME NEW i \in 1..(a + 1) - m PROVE d[i] = t[m + i]
    <3>1. CASE i \in 1..a - m
      <4>1. i \in 1..w - r /\ r + i \in 1..w
        BY <2>3, <2>5, <3>1
      <4> QED
        BY <2>1, <2>2, <2>3, <2>6, <3>1, <4>1, Zenon
    <3>2. CASE i \notin 1..a - m
      <4>1. r + i = w + 1 /\ m + i = a + 1
        BY <2>3, <2>5, <3>2
      <4> QED
        BY <2>1, <2>3, <2>4, <2>6, <4>1, Zenon
    <3> QED
      BY <3>1, <3>2, Zenon
  <2> QED
    BY <2>1, <2>6, <2>7, Zenon DEF IsPart
<1> QED
  BY <1>4, <1>10, <1>11, Zenon DEF d

\* The bytes w are there exactly if they fit, and a server that unmasks them gets
\* the opcode and the payload p.
DecodesTo(w, room, op, p) ==
  IF room < 6 + Len(p) THEN w = <<>>
  ELSE /\ Len(w) = 6 + Len(p)
       /\ Unmasking(w) = [fin |-> 1, op |-> op, n |-> Len(p), payload |-> p]

(* A control frame, with any mask, decodes to what went into it.             *)
LEMMA MaskedDecodes ==
  ASSUME NEW op \in 0..15, NEW p \in Seq(Byte), Len(p) <= 125, NEW mask \in [1..4 -> Byte],
         NEW room \in Nat, ~(room < 6 + Len(p))
  PROVE  DecodesTo(Cat(Cat(<<128 + op, 128 + Len(p)>>, mask), Masked(p, mask)), room, op, p)
<1> DEFINE w == Cat(Cat(<<128 + op, 128 + Len(p)>>, mask), Masked(p, mask))
<1>1. 128 + op \in Byte /\ 128 + Len(p) \in Byte
  <2>1. Len(p) \in Nat
    OBVIOUS
  <2>2. \A x \in 0..15 : 128 + x \in Byte
    BY DEF Byte
  <2>3. \A n \in Nat : n <= 125 => 128 + n \in Byte
    BY DEF Byte
  <2> QED
    BY <2>1, <2>2, <2>3, Zenon
<1>2. Masked(p, mask) \in Seq(Byte)
  BY MaskedType, Zenon
<1>3. IsMasked(w, 128 + op, 128 + Len(p), mask, Masked(p, mask))
  BY <1>1, <1>2, MaskedFrame, Zenon
<1> HIDE DEF w
<1>4. /\ Len(w) = 6 + Len(p)
      /\ Unmasking(w) = [fin |-> 1, op |-> op, n |-> Len(p), payload |-> p]
  BY <1>3, Unmasks, Zenon
<1>5. DecodesTo(w, room, op, p)
  BY <1>4, Zenon DEF DecodesTo
<1> QED
  BY <1>5, Zenon DEF w


(* write_control_frame, in any room.                                         *)
LEMMA ControlIs ==
  ASSUME NEW op \in 0..15, NEW p \in Seq(Byte), Len(p) <= 125, NEW mask \in [1..4 -> Byte],
         NEW room \in Nat
  PROVE  DecodesTo(write_control_frame(room, op, p, mask), room, op, p)
<1> DEFINE w == write_control_frame(room, op, p, mask)
<1>1. Len(p) \in Nat /\ ~(125 < Len(p))
  OBVIOUS
<1>2. CASE room < 6 + Len(p)
  BY <1>2, Zenon DEF write_control_frame, DecodesTo
<1>3. CASE ~(room < 6 + Len(p))
  <2>1. w = Cat(Cat(<<128 + op, 128 + Len(p)>>, mask), Masked(p, mask))
    BY <1>1, <1>3, Zenon DEF write_control_frame, Cat
  <2> QED
    BY <1>3, <2>1, MaskedDecodes, Zenon
<1> QED
  BY <1>2, <1>3, Zenon

\* The code that a CLOSE carries when it answers one with payload p
CloseCode(p) == IF Len(p) >= 2 THEN Part(p, 1, 2) ELSE <<3, 232>>

(* It has two bytes.                                                         *)
LEMMA CloseCodeIs ==
  ASSUME NEW p \in Seq(Byte)
  PROVE  CloseCode(p) \in Seq(Byte) /\ Len(CloseCode(p)) = 2
<1>1. CASE Len(p) >= 2
  <2>1. 2 \in 0..Len(p) /\ 0 \in 0..2 /\ 0 + 1 = 1 /\ 2 - 0 = 2
    BY <1>1
  <2>2. Part(p, 0 + 1, 2) \in Seq(Byte) /\ Len(Part(p, 0 + 1, 2)) = 2 - 0
    BY <2>1, PartOfSeq, Zenon
  <2> QED
    BY <1>1, <2>1, <2>2, Zenon DEF CloseCode
<1>2. CASE ~(Len(p) >= 2)
  <2>1. <<3, 232>> \in Seq(Byte) /\ Len(<<3, 232>>) = 2
    BY DEF Byte
  <2> QED
    BY <1>2, <2>1, Zenon DEF CloseCode
<1> QED
  BY <1>1, <1>2, Zenon

(* The reply to CLOSE, in any room.                                          *)
LEMMA CloseReplyIs ==
  ASSUME NEW p \in Seq(Byte), NEW room \in Nat
  PROVE  DecodesTo(CloseReply(room, p), room, 8, CloseCode(p))
<1> DEFINE mask == <<222, 173, 190, 239>>
           c == CloseCode(p)
<1>1. c \in Seq(Byte) /\ Len(c) = 2
  BY CloseCodeIs, Zenon
<1>2. mask \in [1..4 -> Byte]
  BY DEF Byte
<1>3. CloseReply(room, p) = IF room < 8 THEN <<>> ELSE Cat(Cat(<<136, 130>>, mask), Masked(c, mask))
  BY Zenon DEF CloseReply, CloseCode, Cat, Part
<1> HIDE DEF mask, c
<1>4. CASE room < 8
  <2>1. room < 6 + Len(c)
    BY <1>1, <1>4
  <2> QED
    BY <1>3, <1>4, <2>1, Zenon DEF c, DecodesTo
<1>5. CASE ~(room < 8)
  <2>1. 8 \in 0..15 /\ Len(c) <= 125 /\ ~(room < 6 + Len(c)) /\ 128 + 8 = 136 /\ 128 + Len(c) = 130
    BY <1>1, <1>5
  <2>2. DecodesTo(Cat(Cat(<<128 + 8, 128 + Len(c)>>, mask), Masked(c, mask)), room, 8, c)
    BY <1>1, <1>2, <2>1, MaskedDecodes, Zenon
  <2> QED
    BY <1>3, <1>5, <2>1, <2>2, Zenon DEF c
<1> QED
  BY <1>4, <1>5, Zenon

=============================================================================
