------------------------- MODULE HandshakeProofs -------------------------
(***************************************************************************)
(* The response of the server as read_handshake scans and answers it,      *)
(* wherever it is cut, and what is left of the stream behind it.           *)
(***************************************************************************)
EXTENDS WirePartsProofs

-----------------------------------------------------------------------------
\* The response of the server and read_handshake

(* What advance_crlf_count makes of the characters of a line and of the    *)
(* line ends that follow it.                                               *)
LEMMA Advances ==
  /\ \A c \in Nat, b \in Byte : advance_crlf_count(c, b) \in Nat
  /\ \A c \in Nat, b \in Plain : advance_crlf_count(c, b) = 0
  /\ advance_crlf_count(0, CR) = 1 /\ advance_crlf_count(1, LF) = 2
  /\ advance_crlf_count(2, CR) = 3 /\ advance_crlf_count(3, LF) = 4
<1>1. \A c \in Nat : c % 2 \in Nat
  OBVIOUS
<1>2. 0 % 2 = 0 /\ 1 % 2 = 1 /\ 2 % 2 = 0 /\ 3 % 2 = 1
  OBVIOUS
<1>3. \A c \in Nat, b \in Byte : advance_crlf_count(c, b) \in Nat
  BY <1>1 DEF advance_crlf_count
<1>4. \A c \in Nat, b \in Plain : advance_crlf_count(c, b) = 0
  BY DEF advance_crlf_count, Plain
<1>5. /\ advance_crlf_count(0, CR) = 1 /\ advance_crlf_count(1, LF) = 2
      /\ advance_crlf_count(2, CR) = 3 /\ advance_crlf_count(3, LF) = 4
  BY <1>2 DEF advance_crlf_count, CR, LF
<1> QED
  BY <1>3, <1>4, <1>5, Zenon

\* count is the crlf_counter of read_handshake after each byte of s.
Counts(count, s) ==
  /\ count[0] = 0
  /\ \A i \in 1..Len(s) : count[i] = advance_crlf_count(count[i - 1], s[i])

(* The loop of read_handshake counts from 0 on, byte by byte.               *)
LEMMA CounterIs ==
  ASSUME NEW s \in Seq(Byte)
  PROVE  crlf_counter(s) \in [0..Len(s) -> Nat] /\ Counts(crlf_counter(s), s)
<1> DEFINE n == Len(s)
           A(c, b) == advance_crlf_count(c, b)
           G == [i \in Nat |-> [c \in Nat |-> IF i \in 1..n THEN A(c, s[i]) ELSE 0]]
           F(f) == f = [i \in 0..n |-> IF i = 0 THEN 0 ELSE A(f[i - 1], At(s, i - 1))]
<1> HIDE DEF A
<1>1. n \in Nat /\ \A i \in 1..n : s[i] \in Byte /\ At(s, i - 1) = s[i]
  BY DEF At
<1>2. \A c \in Nat, b \in Byte : A(c, b) \in Nat
  BY Advances, Zenon DEF A
<1>3. G \in [Nat -> [Nat -> Nat]]
  BY <1>1, <1>2, Zenon
<1> HIDE DEF G, n
<1>4. PICK g \in [0..n -> Nat] : Iterates(g, 0, G, n)
  <2>1. 0 \in Nat
    OBVIOUS
  <2> QED
    BY <1>1, <1>3, <2>1, Recursion, Zenon
<1>5. \A i \in 1..n : g[i] = A(g[i - 1], s[i])
  <2> TAKE i \in 1..n
  <2>1. i \in Nat /\ i - 1 \in 0..n
    BY <1>1
  <2>2. g[i] = G[i][g[i - 1]] /\ g[i - 1] \in Nat
    BY <1>4, <2>1, Zenon DEF Iterates
  <2> QED
    BY <2>1, <2>2 DEF G
<1>6. F(g)
  <2>1. ASSUME NEW i \in 0..n PROVE g[i] = IF i = 0 THEN 0 ELSE A(g[i - 1], At(s, i - 1))
    <3>1. CASE i = 0
      BY <1>4, <3>1 DEF Iterates
    <3>2. CASE i # 0
      BY <1>1, <1>5, <3>2
    <3> QED
      BY <3>1, <3>2
  <2> QED
    BY <2>1, Zenon
<1> DEFINE f == CHOOSE f : F(f)
<1>7. crlf_counter(s) = f
  BY Zenon DEF crlf_counter, n, A
<1>8. F(f)
  BY <1>6, Zenon
<1> HIDE DEF f
<1> DEFINE T == {i \in Nat : f[i] = g[i]}
<1>9. \A i \in 0..n : f[i] = g[i]
  <2>1. 0 \in T
    BY <1>1, <1>4, <1>8 DEF Iterates
  <2>2. ASSUME NEW i \in 1..n, i - 1 \in T PROVE i \in T
    <3>1. f[i] = A(f[i - 1], s[i]) /\ g[i] = A(g[i - 1], s[i]) /\ i \in Nat
      BY <1>1, <1>5, <1>8
    <3>2. f[i - 1] = g[i - 1]
      BY <2>2, Zenon
    <3> QED
      BY <3>1, <3>2, Zenon
  <2> HIDE DEF T
  <2>3. \A i \in 0..n : i \in T
    BY <1>1, <2>1, <2>2, InductTo
  <2> QED
    BY <2>3, Zenon DEF T
<1>10. f = [i \in 0..n |-> g[i]] /\ g = [i \in 0..n |-> g[i]]
  <2>1. DOMAIN f = 0..n /\ f = [i \in 0..n |-> f[i]]
    BY <1>8
  <2> QED
    BY <1>9, <2>1
<1>11. Counts(g, s)
  BY <1>4, <1>5, Zenon DEF Counts, n, A, Iterates
<1> QED
  BY <1>7, <1>10, <1>11, Zenon DEF n

-----------------------------------------------------------------------------
\* Line l, with its end, stands in t behind the first b bytes.
LineAt(t, b, l) ==
  /\ \A k \in 1..Len(l) : t[b + k] = l[k]
  /\ t[b + Len(l) + 1] = CR /\ t[b + Len(l) + 2] = LF

\* t has the lines ls, line j up to e[j], and an empty line behind them.
LinesAt(t, e, ls) ==
  /\ e[0] = 0 /\ Len(t) = e[Len(ls)] + 2
  /\ t[e[Len(ls)] + 1] = CR /\ t[e[Len(ls)] + 2] = LF
  /\ \A j \in 1..Len(ls) : e[j] = e[j - 1] + Len(ls[j]) + 2 /\ LineAt(t, e[j - 1], ls[j])

(* A line of characters is made of bytes.                                   *)
LEMMA PlainBytes == ASSUME NEW l \in Seq(Plain) PROVE l \in Seq(Byte)
BY DEF Plain

(* A line and its end.                                                      *)
LEMMA LineIs ==
  ASSUME NEW l \in Seq(Plain)
  PROVE  /\ Line(l) \in Seq(Byte) /\ Len(Line(l)) = Len(l) + 2
         /\ \A k \in 1..Len(l) : Line(l)[k] = l[k]
         /\ Line(l)[Len(l) + 1] = CR /\ Line(l)[Len(l) + 2] = LF
<1> DEFINE z == <<CR, LF>>
<1>1. z \in Seq(Byte) /\ Len(z) = 2 /\ z[1] = CR /\ z[2] = LF
  BY DEF CR, LF, Byte
<1>2. l \in Seq(Byte) /\ Line(l) = Cat(l, z)
  BY PlainBytes DEF Line, Cat
<1> HIDE DEF z
<1>3. /\ Cat(l, z) \in Seq(Byte) /\ Len(Cat(l, z)) = Len(l) + Len(z)
      /\ \A i \in 1..Len(l) : Cat(l, z)[i] = l[i]
      /\ \A i \in 1..Len(z) : Cat(l, z)[Len(l) + i] = z[i]
  BY <1>1, <1>2, CatBytes, Zenon
<1>4. 1 \in 1..2 /\ 2 \in 1..2
  OBVIOUS
<1> QED
  BY <1>1, <1>2, <1>3, <1>4, Zenon

(* Behind a bytes and a line of b bytes.                                    *)
LEMMA BehindLine == \A a, b \in Nat : a + (b + 1) = a + b + 1 /\ a + (b + 2) = a + b + 2
OBVIOUS

(* Lines puts each line, with its end, behind the one before it.            *)
LEMMA LinesIs ==
  ASSUME NEW ls \in Seq(Seq(Plain))
  PROVE  /\ Lines(ls) \in Seq(Byte)
         /\ \E e \in [0..Len(ls) -> Nat] : LinesAt(Lines(ls), e, ls)
<1> DEFINE n == Len(ls)
           ss == [i \in 1..n |-> Line(ls[i])]
           z == <<CR, LF>>
<1>1. n \in Nat /\ \A i \in 1..n : ls[i] \in Seq(Plain)
  OBVIOUS
<1>2. z \in Seq(Byte) /\ Len(z) = 2 /\ z[1] = CR /\ z[2] = LF
  BY DEF CR, LF, Byte
<1>3. ss \in Seq(Seq(Byte)) /\ Len(ss) = n /\ \A i \in 1..n : ss[i] = Line(ls[i])
  <2>1. ss \in [1..n -> Seq(Byte)]
    BY <1>1, LineIs
  <2>2. \A i \in 1..n : ss[i] = Line(ls[i])
    BY Zenon
  <2> HIDE DEF ss
  <2> QED
    BY <1>1, <2>1, <2>2, FunctionIsSeq, Zenon
<1>4. Lines(ls) = Cat(Flatten(ss), z)
  BY DEF Lines, Cat
<1> HIDE DEF ss, z, n
<1> DEFINE f == Flatten(ss)
<1>5. f \in Seq(Byte)
  BY <1>3, FlattenType
<1>6. PICK e \in [0..n -> Nat] :
        Ends(e, ss) /\ Len(f) = e[n] /\ \A j \in 1..n : PartOf(f, e, ss, j)
  <2>1. \E e \in [0..Len(ss) -> Nat] :
          /\ Ends(e, ss) /\ Len(f) = e[Len(ss)]
          /\ \A j \in 1..Len(ss) : PartOf(f, e, ss, j)
    BY <1>3, FlattenParts
  <2> QED
    BY <1>3, <2>1, Zenon
<1> HIDE DEF f
<1> DEFINE t == Cat(f, z)
<1>7. /\ t \in Seq(Byte) /\ Len(t) = Len(f) + 2
      /\ \A i \in 1..Len(f) : t[i] = f[i]
      /\ t[Len(f) + 1] = CR /\ t[Len(f) + 2] = LF
  <2>1. 1 \in 1..2 /\ 2 \in 1..2
    OBVIOUS
  <2>2. /\ t \in Seq(Byte) /\ Len(t) = Len(f) + Len(z)
        /\ \A i \in 1..Len(f) : t[i] = f[i]
        /\ \A i \in 1..Len(z) : t[Len(f) + i] = z[i]
    BY <1>2, <1>5, CatBytes, Zenon
  <2> HIDE DEF t
  <2> QED
    BY <1>2, <2>1, <2>2, Zenon
<1> HIDE DEF t
<1>8. ASSUME NEW j \in 1..n
      PROVE  e[j] = e[j - 1] + Len(ls[j]) + 2 /\ LineAt(t, e[j - 1], ls[j])
  <2> DEFINE l == ls[j]
             q == Line(l)
  <2>1. l \in Seq(Plain) /\ ss[j] = q /\ j - 1 \in 0..n /\ j \in 0..n
    BY <1>1, <1>3
  <2>2. /\ Len(q) = Len(l) + 2 /\ \A k \in 1..Len(l) : q[k] = l[k]
        /\ q[Len(l) + 1] = CR /\ q[Len(l) + 2] = LF
    BY <2>1, LineIs
  <2> HIDE DEF q
  <2>3. e[j] = e[j - 1] + Len(q) /\ e[j] <= Len(f) /\ \A k \in 1..Len(q) : f[e[j - 1] + k] = q[k]
    BY <1>3, <1>6, <2>1, Zenon DEF Ends, PartOf
  <2>4. Len(l) \in Nat /\ e[j] \in Nat /\ e[j - 1] \in Nat /\ Len(f) \in Nat
    <3>1. e[j] \in Nat /\ e[j - 1] \in Nat
      BY <2>1, Zenon
    <3>2. Len(l) \in Nat
      BY <2>1, LenProperties, Zenon
    <3>3. Len(f) \in Nat
      BY <1>5, LenProperties, Zenon
    <3> QED
      BY <3>1, <3>2, <3>3, Zenon
  <2> HIDE DEF l
  <2>5. \A k \in 1..Len(q) : t[e[j - 1] + k] = q[k]
    <3> TAKE k \in 1..Len(q)
    <3>1. e[j - 1] + k \in 1..Len(f)
      BY <2>2, <2>3, <2>4
    <3> QED
      BY <1>7, <2>3, <3>1, Zenon
  <2>6. LineAt(t, e[j - 1], l)
    <3>1. \A k \in 1..Len(l) : k \in 1..Len(q)
      BY <2>2, <2>4
    <3>2. Len(l) + 1 \in 1..Len(q) /\ Len(l) + 2 \in 1..Len(q)
      BY <2>2, <2>4
    <3>3. t[e[j - 1] + Len(l) + 1] = CR /\ t[e[j - 1] + Len(l) + 2] = LF
      <4>1. /\ e[j - 1] + (Len(l) + 1) = e[j - 1] + Len(l) + 1
            /\ e[j - 1] + (Len(l) + 2) = e[j - 1] + Len(l) + 2
        BY <2>4, BehindLine, Zenon
      <4>2. t[e[j - 1] + (Len(l) + 1)] = CR /\ t[e[j - 1] + (Len(l) + 2)] = LF
        BY <2>2, <2>5, <3>2, Zenon
      <4> QED
        BY <4>1, <4>2, Zenon
    <3> QED
      BY <2>2, <2>5, <3>1, <3>3, Zenon DEF LineAt
  <2>7. e[j] = e[j - 1] + Len(l) + 2
    <3>1. e[j] = e[j - 1] + (Len(l) + 2)
      BY <2>2, <2>3, Zenon
    <3>2. e[j - 1] + (Len(l) + 2) = e[j - 1] + Len(l) + 2
      BY <2>4, BehindLine, Zenon
    <3> QED
      BY <3>1, <3>2, Zenon
  <2> QED
    BY <2>6, <2>7, Zenon DEF l
<1>9. LinesAt(t, e, ls)
  <2>1. e[0] = 0
    BY <1>6, Zenon DEF Ends
  <2> QED
    BY <1>6, <1>7, <1>8, <2>1, Zenon DEF LinesAt, n
<1> QED
  BY <1>4, <1>6, <1>7, <1>9, Zenon DEF f, t, n

\* s holds line l behind its first b bytes, as far as it goes.
LineUpTo(s, b, l) ==
  /\ \A k \in 1..Len(l) : b + k <= Len(s) => s[b + k] = l[k]
  /\ b + Len(l) + 1 <= Len(s) => s[b + Len(l) + 1] = CR
  /\ b + Len(l) + 2 <= Len(s) => s[b + Len(l) + 2] = LF

(* The byte behind another one is counted after it.                         *)
LEMMA CountsNext ==
  ASSUME NEW s \in Seq(Byte), NEW count, Counts(count, s),
         NEW i \in Nat, i + 1 <= Len(s)
  PROVE  count[i + 1] = advance_crlf_count(count[i], s[i + 1])
<1>1. i + 1 \in 1..Len(s) /\ (i + 1) - 1 = i
  OBVIOUS
<1>2. \A j \in 1..Len(s) : count[j] = advance_crlf_count(count[j - 1], s[j])
  BY DEF Counts
<1>3. count[i + 1] = advance_crlf_count(count[(i + 1) - 1], s[i + 1])
  BY <1>1, <1>2, Zenon
<1> QED
  BY <1>1, <1>3, Zenon

(* Within a line the counter of read_handshake is 0, at its end it is 2:    *)
(* any character resets it, and a line has at least one.                    *)
LEMMA LineCounts ==
  ASSUME NEW s \in Seq(Byte), NEW count \in [0..Len(s) -> Nat], Counts(count, s),
         NEW b \in Nat, NEW l \in Seq(Plain), Len(l) # 0, LineUpTo(s, b, l)
  PROVE  /\ \A k \in 1..Len(l) : b + k <= Len(s) => count[b + k] = 0
         /\ b + Len(l) + 1 <= Len(s) => count[b + Len(l) + 1] = 1
         /\ b + Len(l) + 2 <= Len(s) => count[b + Len(l) + 2] = 2
<1> DEFINE n == Len(l)
<1>1. n \in Nat /\ n # 0 /\ n \in 1..n /\ Len(s) \in Nat
  OBVIOUS
<1>2. \A k \in 1..n : b + k <= Len(s) => count[b + k] = 0
  <2> SUFFICES ASSUME NEW k \in 1..n, b + k <= Len(s) PROVE count[b + k] = 0
    BY Zenon
  <2>1. b + (k - 1) \in 0..Len(s) /\ b + (k - 1) \in Nat /\ b + (k - 1) + 1 = b + k
    BY <1>1
  <2>2. s[b + k] = l[k] /\ l[k] \in Plain
    BY DEF LineUpTo
  <2>3. count[b + k] = advance_crlf_count(count[b + (k - 1)], s[b + k])
    BY <2>1, CountsNext, Zenon
  <2>4. count[b + (k - 1)] \in Nat
    BY <2>1
  <2> QED
    BY <2>2, <2>3, <2>4, Advances, Zenon
<1>3. b + n + 1 <= Len(s) => count[b + n + 1] = 1
  <2> HAVE b + n + 1 <= Len(s)
  <2>1. b + n \in Nat /\ b + n <= Len(s)
    BY <1>1
  <2>2. s[b + n + 1] = CR /\ count[b + n] = 0
    BY <1>1, <1>2, <2>1, Zenon DEF LineUpTo
  <2>3. count[b + n + 1] = advance_crlf_count(count[b + n], s[b + n + 1])
    BY <2>1, CountsNext, Zenon
  <2> QED
    BY <2>2, <2>3, Advances, Zenon
<1>4. b + n + 2 <= Len(s) => count[b + n + 2] = 2
  <2> HAVE b + n + 2 <= Len(s)
  <2>1. b + n + 1 \in Nat /\ b + n + 1 <= Len(s) /\ b + n + 1 + 1 = b + n + 2
    BY <1>1
  <2>2. s[b + n + 2] = LF /\ count[b + n + 1] = 1
    BY <1>3, <2>1, Zenon DEF LineUpTo
  <2>3. count[b + n + 2] = advance_crlf_count(count[b + n + 1], s[b + n + 2])
    BY <2>1, CountsNext, Zenon
  <2> QED
    BY <2>2, <2>3, Advances, Zenon
<1> QED
  BY <1>2, <1>3, <1>4, Zenon

\* The lines of a response have at least one character each.
IsLines(ls) == Len(ls) # 0 /\ \A j \in 1..Len(ls) : ls[j] \in Seq(Plain) /\ Len(ls[j]) # 0

(* Every byte of the lines belongs to one of them.                          *)
LEMMA InSomeLine ==
  ASSUME NEW ls, NEW n \in Nat, NEW e \in [0..n -> Nat], e[0] = 0,
         \A j \in 1..n : e[j] = e[j - 1] + Len(ls[j]) + 2,
         NEW i \in Nat, i # 0, i <= e[n]
  PROVE  \E j \in 1..n : e[j - 1] < i /\ i <= e[j]
<1> DEFINE T == {j \in 0..n : i <= e[j]}
<1>1. T \in SUBSET Nat /\ T # {}
  <2>1. n \in T /\ T \subseteq 0..n
    OBVIOUS
  <2> QED
    BY <2>1
<1> HIDE DEF T
<1>2. PICK m \in T : \A k \in T : m <= k
  BY <1>1, LeastElement, Zenon
<1>3. m \in 1..n /\ i <= e[m]
  BY <1>2 DEF T
<1>4. m - 1 \in 0..n /\ m - 1 \notin T
  BY <1>2, <1>3
<1>5. e[m - 1] < i
  BY <1>4 DEF T
<1> QED
  BY <1>3, <1>5, Zenon

(* A line of t is a line of whatever starts like t.                         *)
LEMMA LineOfPrefix ==
  ASSUME NEW s \in Seq(Byte), NEW t \in Seq(Byte), StartsLike(s, t),
         NEW b \in Nat, NEW l \in Seq(Plain), LineAt(t, b, l), b + Len(l) + 2 <= Len(t)
  PROVE  LineUpTo(s, b, l)
<1>1. \A i \in 1..Len(t) : i <= Len(s) => s[i] = t[i]
  BY DEF StartsLike
<1>2. Len(l) \in Nat /\ Len(t) \in Nat
  OBVIOUS
<1>3. \A k \in 1..Len(l) : b + k \in 1..Len(t) /\ t[b + k] = l[k]
  BY <1>2 DEF LineAt
<1>4. /\ b + Len(l) + 1 \in 1..Len(t) /\ t[b + Len(l) + 1] = CR
      /\ b + Len(l) + 2 \in 1..Len(t) /\ t[b + Len(l) + 2] = LF
  BY <1>2 DEF LineAt
<1> QED
  BY <1>1, <1>3, <1>4, Zenon DEF LineUpTo

(* Sums of the lengths of lines.                                            *)
LEMMA LineSums ==
  /\ \A n \in Nat : \A j \in 1..n : j \in 0..n /\ j - 1 \in 0..n
  /\ \A i, x, z \in Nat : i <= z /\ z = x + 2 => i = x + 1 \/ i = x + 2 \/ i <= x
OBVIOUS

(* A line ends no later than the last one.                                  *)
LEMMA EndsRise ==
  ASSUME NEW ls, NEW n \in Nat, NEW e \in [0..n -> Nat],
         \A j \in 1..n : Len(ls[j]) \in Nat,
         \A j \in 1..n : e[j] = e[j - 1] + Len(ls[j]) + 2
  PROVE  \A j \in 1..n : e[j] <= e[n]
<1> DEFINE T == {i \in Nat : i > n \/ e[n - i] <= e[n]}
<1>1. 0 \in T
  OBVIOUS
<1>2. ASSUME NEW i \in 1..n, i - 1 \in T PROVE i \in T
  <2> DEFINE j == n - i + 1
  <2>1. j \in 1..n /\ n - (i - 1) = j /\ j - 1 = n - i /\ i \in Nat /\ ~(i - 1 > n)
    OBVIOUS
  <2> HIDE DEF j
  <2>2. j - 1 \in 0..n /\ j \in 0..n /\ n \in 0..n
    BY <2>1
  <2>3. /\ e[j] = e[j - 1] + Len(ls[j]) + 2 /\ Len(ls[j]) \in Nat
        /\ e[j - 1] \in Nat /\ e[j] \in Nat /\ e[n] \in Nat
    BY <2>1, <2>2, Zenon
  <2>4. e[j] <= e[n]
    <3>1. i - 1 > n \/ e[n - (i - 1)] <= e[n]
      BY <1>2, Zenon
    <3> QED
      BY <2>1, <3>1, Zenon
  <2>5. e[j - 1] <= e[n]
    BY <2>3, <2>4
  <2> QED
    BY <2>1, <2>5, Zenon
<1> HIDE DEF T
<1>3. \A i \in 0..n : i \in T
  BY <1>1, <1>2, InductTo
<1>4. ASSUME NEW j \in 1..n PROVE e[j] <= e[n]
  <2>1. n - j \in 0..n /\ ~(n - j > n) /\ n - (n - j) = j
    OBVIOUS
  <2> QED
    BY <1>3, <2>1, Zenon DEF T
<1> QED
  BY <1>4, Zenon

(* In whatever starts like a response, read_handshake counts 4 only at the  *)
(* end of the response, and 2 only at the end of a line.                    *)
LEMMA ResponseCounts ==
  ASSUME NEW s \in Seq(Byte), NEW t \in Seq(Byte), StartsLike(s, t),
         NEW count \in [0..Len(s) -> Nat], Counts(count, s),
         NEW ls, NEW n \in Nat, n = Len(ls), IsLines(ls),
         NEW e \in [0..n -> Nat], LinesAt(t, e, ls), e[n] < Len(t)
  PROVE  /\ \A i \in 0..Len(s) : i <= Len(t) /\ count[i] = 4 => i = Len(t)
         /\ \A i \in 0..Len(s) : i <= Len(t) /\ count[i] = 2 => \E j \in 1..n : i = e[j]
         /\ \A j \in 1..n : e[j] <= Len(s) => count[e[j]] = 2
         /\ Len(t) <= Len(s) => count[Len(t)] = 4
<1>1. Len(s) \in Nat /\ Len(t) \in Nat /\ n # 0
  BY DEF IsLines
<1>2. /\ e[0] = 0 /\ Len(t) = e[n] + 2 /\ t[e[n] + 1] = CR /\ t[e[n] + 2] = LF
      /\ \A j \in 1..n : e[j] = e[j - 1] + Len(ls[j]) + 2 /\ LineAt(t, e[j - 1], ls[j])
  BY Zenon DEF LinesAt
<1>3. \A j \in 1..n : j \in 0..n /\ j - 1 \in 0..n /\ e[j] \in Nat /\ e[j - 1] \in Nat
  <2> TAKE j \in 1..n
  <2>1. j \in 0..n /\ j - 1 \in 0..n
    BY LineSums, Zenon
  <2> QED
    BY <2>1, Zenon
<1>4. \A j \in 1..n : e[j] <= e[n]
  <2>1. \A j \in 1..n : Len(ls[j]) \in Nat
    BY DEF IsLines
  <2>2. \A j \in 1..n : e[j] = e[j - 1] + Len(ls[j]) + 2
    BY <1>2, Zenon
  <2> QED
    BY <2>1, <2>2, EndsRise, Zenon
<1>5. ASSUME NEW j \in 1..n
      PROVE  /\ \A k \in 1..Len(ls[j]) : e[j - 1] + k <= Len(s) => count[e[j - 1] + k] = 0
             /\ e[j] - 1 <= Len(s) => count[e[j] - 1] = 1
             /\ e[j] <= Len(s) => count[e[j]] = 2
             /\ Len(ls[j]) \in Nat
  <2> DEFINE l == ls[j]
             b == e[j - 1]
  <2>1. l \in Seq(Plain) /\ Len(l) # 0 /\ b \in Nat /\ LineAt(t, b, l) /\ e[j] = b + Len(l) + 2
    BY <1>2, <1>3, Zenon DEF IsLines
  <2>2. Len(l) \in Nat /\ b + Len(l) + 2 <= Len(t) /\ e[j] - 1 = b + Len(l) + 1
    <3>1. Len(l) \in Nat
      BY <2>1
    <3>2. n \in 1..n
      BY <1>1
    <3>3. e[n] \in Nat /\ e[j] \in Nat /\ e[j] <= e[n] /\ Len(t) = e[n] + 2
      BY <1>2, <1>3, <1>4, <3>2, Zenon
    <3> HIDE DEF l, b
    <3>4. e[j] = b + Len(l) + 2 /\ b \in Nat
      BY <2>1, Zenon
    <3> DEFINE k == Len(l)
               x == e[n]
               y == e[j]
               z == Len(t)
    <3>5. k \in Nat /\ x \in Nat /\ y \in Nat /\ z \in Nat /\ y = b + k + 2 /\ y <= x /\ z = x + 2
      BY <1>1, <3>1, <3>3, <3>4, Zenon
    <3> HIDE DEF k, x, y, z
    <3>6. b + k + 2 <= z /\ y - 1 = b + k + 1
      BY <3>4, <3>5
    <3> QED
      BY <3>1, <3>6, Zenon DEF k, y, z
  <2> HIDE DEF l, b
  <2>3. LineUpTo(s, b, l)
    BY <2>1, <2>2, LineOfPrefix, Zenon
  <2>4. /\ \A k \in 1..Len(l) : b + k <= Len(s) => count[b + k] = 0
        /\ b + Len(l) + 1 <= Len(s) => count[b + Len(l) + 1] = 1
        /\ b + Len(l) + 2 <= Len(s) => count[b + Len(l) + 2] = 2
    BY <2>1, <2>3, LineCounts, Zenon
  <2> QED
    BY <2>1, <2>2, <2>4, Zenon DEF l, b
<1>6. /\ e[n] + 1 <= Len(s) => count[e[n] + 1] = 3
      /\ e[n] + 2 <= Len(s) => count[e[n] + 2] = 4
  <2>1. n \in 1..n /\ e[n] \in Nat
    BY <1>1, <1>3
  <2>2. \A i \in 1..Len(t) : i <= Len(s) => s[i] = t[i]
    BY DEF StartsLike
  <2>3. e[n] + 1 <= Len(s) => count[e[n] + 1] = 3
    <3> HAVE e[n] + 1 <= Len(s)
    <3>1. e[n] + 1 \in 1..Len(t) /\ e[n] <= Len(s)
      BY <1>1, <1>2, <2>1
    <3>2. s[e[n] + 1] = CR /\ count[e[n]] = 2
      BY <1>2, <1>5, <2>1, <2>2, <3>1, Zenon
    <3>3. count[e[n] + 1] = advance_crlf_count(count[e[n]], s[e[n] + 1])
      BY <2>1, CountsNext, Zenon
    <3> QED
      BY <3>2, <3>3, Advances, Zenon
  <2>4. e[n] + 2 <= Len(s) => count[e[n] + 2] = 4
    <3> HAVE e[n] + 2 <= Len(s)
    <3>1. e[n] + 2 \in 1..Len(t) /\ e[n] + 1 <= Len(s) /\ e[n] + 1 + 1 = e[n] + 2 /\ e[n] + 1 \in Nat
      BY <1>1, <1>2, <2>1
    <3>2. s[e[n] + 2] = LF /\ count[e[n] + 1] = 3
      BY <1>2, <2>2, <2>3, <3>1, Zenon
    <3>3. count[e[n] + 1 + 1] = advance_crlf_count(count[e[n] + 1], s[e[n] + 1 + 1])
      BY <3>1, CountsNext, Zenon
    <3> QED
      BY <3>1, <3>2, <3>3, Advances, Zenon
  <2> QED
    BY <2>3, <2>4
<1>7. ASSUME NEW i \in 0..Len(s), i <= Len(t)
      PROVE  (count[i] = 4 => i = Len(t)) /\ (count[i] = 2 => \E j \in 1..n : i = e[j])
  <2>1. CASE i = 0
    BY <2>1 DEF Counts
  <2>2. CASE i = e[n] + 1
    BY <1>1, <1>6, <2>2
  <2>3. CASE i = e[n] + 2
    BY <1>1, <1>2, <1>6, <2>3
  <2>4. CASE i # 0 /\ i <= e[n]
    <3>1. PICK j \in 1..n : e[j - 1] < i /\ i <= e[j]
      <4>1. i \in Nat
        BY <1>1
      <4>2. e[0] = 0 /\ \A j \in 1..n : e[j] = e[j - 1] + Len(ls[j]) + 2
        BY <1>2, Zenon
      <4> QED
        BY <2>4, <4>1, <4>2, InSomeLine, ZenonT(60)
    <3>2. e[j] = e[j - 1] + Len(ls[j]) + 2 /\ Len(ls[j]) \in Nat /\ e[j] \in Nat /\ e[j - 1] \in Nat
      BY <1>2, <1>3, <1>5, Zenon
    <3>3. CASE i = e[j]
      BY <1>5, <3>3
    <3>4. CASE i = e[j] - 1
      BY <1>5, <3>4
    <3>5. CASE i < e[j] - 1
      <4> DEFINE k == i - e[j - 1]
      <4>1. k \in 1..Len(ls[j]) /\ e[j - 1] + k = i
        BY <3>1, <3>2, <3>5
      <4> HIDE DEF k
      <4>2. e[j - 1] + k <= Len(s)
        BY <4>1
      <4>3. count[i] = 0
        BY <1>5, <4>1, <4>2, Zenon
      <4> QED
        BY <4>3
    <3> QED
      BY <3>1, <3>2, <3>3, <3>4, <3>5
  <2>5. i \in Nat /\ e[n] \in Nat
    BY <1>1
  <2>6. i = e[n] + 1 \/ i = e[n] + 2 \/ i <= e[n]
    BY <1>1, <1>2, <1>7, <2>5, LineSums, Zenon
  <2> QED
    BY <2>1, <2>2, <2>3, <2>4, <2>6, Zenon
<1> QED
  BY <1>2, <1>5, <1>6, <1>7

(* The header's name, as read_handshake compares it, and a line end.        *)
LEMMA AcceptNameIs ==
  /\ Len(AcceptName) = 3 /\ AcceptName[1] = 83
  /\ Lower(AcceptName[2]) = 101 /\ Lower(AcceptName[3]) = 58 /\ Lower(CR) = 13 /\ CR = 13
BY DEF AcceptName, Lower, CR

\* A line whose header read_handshake finds: its name starts with a capital.
Found(l) == Named(l) /\ l[1] = AcceptName[1]

(* At the start of a line read_handshake sees the header's name exactly if  *)
(* the line has it: a shorter line ends in a CR, which the name has not.    *)
LEMMA NameAtLine ==
  ASSUME NEW s \in Seq(Byte), NEW b \in Nat, NEW l \in Seq(Plain), Len(l) # 0,
         LineAt(s, b, l), b + Len(l) + 2 <= Len(s)
  PROVE  NameAt(s, b) <=> Found(l)
<1> DEFINE n == Len(l)
           L(k) == Lower(AcceptName[k])
<1>1. n \in Nat /\ n # 0 /\ Len(s) \in Nat /\ b + n + 2 <= Len(s)
  OBVIOUS
<1>2. \A k \in 1..n : At(s, b + (k - 1)) = l[k]
  BY DEF LineAt, At
<1>3. At(s, b + n) = CR
  <2>1. (b + n) + 1 = b + n + 1
    OBVIOUS
  <2> QED
    BY <2>1, Zenon DEF At, LineAt
<1> HIDE DEF n, L
<1>4. /\ NameAt(s, b) <=> /\ At(s, b) = 83 /\ b + 3 < Len(s)
                          /\ \A k \in 0..2 : Lower(At(s, b + k)) = L(k + 1)
      /\ Found(l) <=> n >= 3 /\ l[1] = 83 /\ \A k \in 1..3 : Lower(l[k]) = L(k)
  <2>1. 0..Len(AcceptName) - 1 = 0..2
    BY AcceptNameIs
  <2> QED
    BY <2>1, AcceptNameIs, Zenon DEF NameAt, Found, Named, n, L
<1>5. b + 0 = b /\ b + (1 - 1) = b
  OBVIOUS
<1>6. \A k \in 1..3 : k - 1 \in 0..2 /\ (k - 1) + 1 = k
  OBVIOUS
<1>7. \A k \in 0..2 : k + 1 \in 1..3 /\ (k + 1) - 1 = k
  OBVIOUS
<1>8. CASE n >= 3
  <2>1. \A k \in 1..3 : k \in 1..n
    BY <1>1, <1>8
  <2>2. 1 \in 1..n /\ b + 3 < Len(s)
    BY <1>1, <1>8
  <2>3. At(s, b) = l[1]
    BY <1>2, <1>5, <2>2, Zenon
  <2>4. \A k \in 1..3 : At(s, b + (k - 1)) = l[k]
    BY <1>2, <2>1, Zenon
  <2>5. (\A k \in 0..2 : Lower(At(s, b + k)) = L(k + 1)) <=> \A k \in 1..3 : Lower(l[k]) = L(k)
    <3>1. ASSUME \A k \in 0..2 : Lower(At(s, b + k)) = L(k + 1), NEW k \in 1..3
          PROVE  Lower(l[k]) = L(k)
      <4>1. Lower(At(s, b + (k - 1))) = L((k - 1) + 1)
        BY <1>6, <3>1, Zenon
      <4> QED
        BY <1>6, <2>4, <4>1, Zenon
    <3>2. ASSUME \A k \in 1..3 : Lower(l[k]) = L(k), NEW k \in 0..2
          PROVE  Lower(At(s, b + k)) = L(k + 1)
      <4>1. Lower(l[k + 1]) = L(k + 1) /\ At(s, b + ((k + 1) - 1)) = l[k + 1]
        BY <1>7, <2>4, <3>2, Zenon
      <4> QED
        BY <1>7, <4>1, Zenon
    <3> QED
      BY <3>1, <3>2, Zenon
  <2> QED
    BY <1>4, <1>8, <2>2, <2>3, <2>5, Zenon
<1>9. CASE ~(n >= 3)
  <2>1. n \in 1..2
    BY <1>1, <1>9
  <2>2. n \in 0..2 /\ (n + 1 = 2 \/ n + 1 = 3)
    BY <2>1
  <2>3. L(2) # Lower(CR) /\ L(3) # Lower(CR)
    BY AcceptNameIs DEF L
  <2>4. L(n + 1) # Lower(CR)
    BY <2>2, <2>3, Zenon
  <2>5. Lower(At(s, b + n)) = Lower(CR)
    BY <1>3, Zenon
  <2> QED
    BY <1>4, <1>9, <2>2, <2>4, <2>5, Zenon
<1> QED
  BY <1>8, <1>9, Zenon

(* The least element of a set of numbers.                                   *)
LEMMA LeastIs ==
  ASSUME NEW T \in SUBSET Nat, NEW m \in T, \A k \in T : m <= k
  PROVE  Least(T) = m
<1>1. \A x \in T : x \in Nat
  OBVIOUS
<1>2. \A x, y \in Nat : x <= y /\ y <= x => x = y
  OBVIOUS
<1>3. \A x \in T : (\A y \in T : x <= y) => x = m
  BY <1>1, <1>2, Zenon
<1> QED
  BY <1>3, Zenon DEF Least

(* FirstNot: the loops over spaces and over the value stop at the first     *)
(* other character.                                                         *)
LEMMA FirstNotIs ==
  ASSUME NEW s \in Seq(Byte), NEW i \in Nat, NEW j \in Nat, i <= j, j < Len(s), NEW C,
         \A k \in i..j - 1 : At(s, k) \in C, At(s, j) \notin C
  PROVE  FirstNot(s, i, C) = j
<1> DEFINE Q(x) == (x = Len(s) \/ At(s, x) \notin C) /\ \A k \in i..x - 1 : At(s, k) \in C
<1>1. Len(s) \in Nat /\ j \in i..Len(s) /\ Q(j)
  OBVIOUS
<1>2. ASSUME NEW x \in i..Len(s), Q(x) PROVE x = j
  <2>1. CASE x < j
    <3>1. x \in i..j - 1 /\ x # Len(s)
      BY <1>1, <2>1
    <3> QED
      BY <1>2, <3>1, Zenon
  <2>2. CASE j < x
    <3>1. j \in i..x - 1
      BY <1>1, <2>2
    <3> QED
      BY <1>2, <3>1, Zenon
  <2> QED
    BY <1>1, <2>1, <2>2
<1>3. FirstNot(s, i, C) = CHOOSE x \in i..Len(s) : Q(x)
  BY Zenon DEF FirstNot
<1> HIDE DEF Q
<1> QED
  BY <1>1, <1>2, <1>3, Zenon

\* t is a response of the lines ls, line j of which ends at e[j].
IsResponse(t, e, ls) ==
  /\ t \in Seq(Byte) /\ Len(ls) \in Nat /\ IsLines(ls)
  /\ e \in [0..Len(ls) -> Nat] /\ LinesAt(t, e, ls)

(* As long as a part of the response is missing, read_handshake finds no    *)
(* end of it and takes nothing.                                             *)
LEMMA ScansPart ==
  ASSUME NEW t, NEW e, NEW ls, IsResponse(t, e, ls),
         NEW s \in Seq(Byte), StartsLike(s, t), Len(s) < Len(t)
  PROVE  Scanned(s).end = 0
<1> DEFINE count == crlf_counter(s)
           E == {i \in 0..Len(s) : count[i] = 4}
<1>1. count \in [0..Len(s) -> Nat] /\ Counts(count, s)
  BY CounterIs, Zenon
<1>2. t \in Seq(Byte) /\ Len(ls) \in Nat /\ e \in [0..Len(ls) -> Nat] /\ IsLines(ls) /\ LinesAt(t, e, ls)
  BY Zenon DEF IsResponse
<1>3. e[Len(ls)] < Len(t) /\ Len(s) \in Nat /\ Len(t) \in Nat
  BY <1>2 DEF LinesAt
<1>4. Scanned(s).end = First(E)
  BY Zenon DEF Scanned
<1> HIDE DEF count
<1>5. \A i \in 0..Len(s) : i <= Len(t) /\ count[i] = 4 => i = Len(t)
  BY <1>1, <1>2, <1>3, ResponseCounts, Zenon
<1>6. \A i \in 0..Len(s) : i <= Len(t) /\ i # Len(t)
  BY <1>3
<1>7. E = {}
  BY <1>5, <1>6, Zenon
<1> QED
  BY <1>4, <1>7, Zenon DEF First

(* Every line of the response stands in it, and in what starts with it.     *)
LEMMA LineOfWhole ==
  ASSUME NEW t, NEW e, NEW ls, IsResponse(t, e, ls),
         NEW s \in Seq(Byte), StartsLike(s, t), Len(t) <= Len(s), NEW j \in 1..Len(ls)
  PROVE  /\ ls[j] \in Seq(Plain) /\ Len(ls[j]) # 0 /\ e[j - 1] \in Nat /\ e[j] \in Nat
         /\ e[j] = e[j - 1] + Len(ls[j]) + 2 /\ e[j] + 2 <= Len(t)
         /\ LineAt(s, e[j - 1], ls[j]) /\ e[j - 1] + Len(ls[j]) + 2 <= Len(s)
<1> DEFINE n == Len(ls)
           l == ls[j]
           b == e[j - 1]
<1>1. t \in Seq(Byte) /\ n \in Nat /\ e \in [0..n -> Nat] /\ IsLines(ls) /\ LinesAt(t, e, ls)
  BY Zenon DEF IsResponse
<1>2. Len(s) \in Nat /\ Len(t) \in Nat
  BY <1>1
<1>3. e[j] <= e[n]
  <2>1. \A i \in 1..n : Len(ls[i]) \in Nat
    BY <1>1 DEF IsLines
  <2>2. \A i \in 1..n : e[i] = e[i - 1] + Len(ls[i]) + 2
    BY <1>1, Zenon DEF LinesAt
  <2> QED
    BY <1>1, <2>1, <2>2, EndsRise, Zenon
<1>4. j - 1 \in 0..n /\ j \in 0..n /\ n \in 0..n
  BY <1>1
<1>5. /\ l \in Seq(Plain) /\ Len(l) # 0 /\ b \in Nat /\ e[j] \in Nat /\ e[n] \in Nat
      /\ LineAt(t, b, l) /\ e[j] = b + Len(l) + 2 /\ Len(t) = e[n] + 2
  BY <1>1, <1>4, Zenon DEF IsLines, LinesAt
<1>6. Len(l) \in Nat
  BY <1>5
<1> HIDE DEF l, b
<1>7. e[j] + 2 <= Len(t) /\ e[j] <= Len(s)
  BY <1>2, <1>3, <1>5
<1>8. b + Len(l) + 2 <= Len(s) /\ b + Len(l) + 2 <= Len(t) /\ b + Len(l) + 1 <= Len(s)
  BY <1>2, <1>5, <1>6, <1>7
<1>9. \A k \in 1..Len(l) : b + k <= Len(s)
  BY <1>2, <1>5, <1>6, <1>8
<1>10. LineUpTo(s, b, l)
  BY <1>1, <1>5, <1>8, LineOfPrefix, Zenon
<1>11. LineAt(s, b, l)
  BY <1>8, <1>9, <1>10, Zenon DEF LineAt, LineUpTo
<1> QED
  BY <1>5, <1>7, <1>8, <1>11, Zenon DEF l, b

\* Where read_handshake takes the value from: without the header from the front
FindsHeader(s, e, ls) ==
  /\ (\A j \in 2..Len(ls) : ~Found(ls[j])) => Scanned(s).key = 0
  /\ \A m \in 2..Len(ls) :
       Found(ls[m]) /\ (\A j \in 2..Len(ls) : Found(ls[j]) => j = m) =>
         Scanned(s).key = FirstNot(s, e[m - 1] + Len(AcceptName), {SP})

(* Once the response is there, read_handshake finds its end, the space in   *)
(* the status line and the lines with the header's name.                    *)
LEMMA ScansWhole ==
  ASSUME NEW t, NEW e, NEW ls, IsResponse(t, e, ls),
         NEW s \in Seq(Byte), StartsLike(s, t), Len(t) <= Len(s), s[2] = SP
  PROVE  /\ Scanned(s).end = Len(t) /\ Scanned(s).sp = 1
         /\ FindsHeader(s, e, ls)
<1> DEFINE n == Len(ls)
           count == crlf_counter(s)
           E == {i \in 0..Len(s) : count[i] = 4}
           end == First(E)
           P == {i \in 1..end - 1 : At(s, i) = SP}
           N == {i \in 0..end - 1 : count[i] = 2 /\ NameAt(s, i)}
<1>1. count \in [0..Len(s) -> Nat] /\ Counts(count, s)
  BY CounterIs, Zenon
<1>2. t \in Seq(Byte) /\ n \in Nat /\ e \in [0..n -> Nat] /\ IsLines(ls) /\ LinesAt(t, e, ls)
  BY Zenon DEF IsResponse
<1>3. e[n] < Len(t) /\ Len(s) \in Nat /\ Len(t) \in Nat
  BY <1>2 DEF LinesAt
<1>4. /\ Scanned(s).end = end /\ Scanned(s).sp = First(P)
      /\ Scanned(s).key = IF N = {} THEN 0 ELSE FirstNot(s, Least(N) + Len(AcceptName), {SP})
  BY Zenon DEF Scanned
<1> HIDE DEF count
<1>5. /\ \A i \in 0..Len(s) : i <= Len(t) /\ count[i] = 4 => i = Len(t)
      /\ \A i \in 0..Len(s) : i <= Len(t) /\ count[i] = 2 => \E j \in 1..n : i = e[j]
      /\ \A j \in 1..n : e[j] <= Len(s) => count[e[j]] = 2
      /\ Len(t) <= Len(s) => count[Len(t)] = 4
  BY <1>1, <1>2, <1>3, ResponseCounts, Zenon
<1>6. end = Len(t)
  <2>1. Len(t) \in E
    BY <1>3, <1>5
  <2>2. \A i \in E : i \in Nat /\ Len(t) <= i
    <3> TAKE i \in E
    <3>1. i \in 0..Len(s) /\ i \in Nat /\ count[i] = 4
      BY <1>3
    <3>2. i <= Len(t) => i = Len(t)
      BY <1>5, <3>1, Zenon
    <3> QED
      BY <1>3, <3>1, <3>2
  <2> HIDE DEF E
  <2>3. E \in SUBSET Nat /\ E # {}
    BY <2>1, <2>2, Zenon
  <2> QED
    BY <2>1, <2>2, <2>3, LeastIs, Zenon DEF First
<1> HIDE DEF end, E
<1>7. Len(t) >= 2 /\ \A j \in 1..n : e[j] < Len(t) /\ e[j] \in Nat /\ e[j] <= Len(s)
  <2>1. Len(t) = e[n] + 2 /\ n \in 0..n
    BY <1>2 DEF LinesAt
  <2>2. Len(t) >= 2
    BY <1>2, <2>1
  <2>3. ASSUME NEW j \in 1..n PROVE e[j] < Len(t) /\ e[j] \in Nat /\ e[j] <= Len(s)
    <3>1. e[j] \in Nat /\ e[j] + 2 <= Len(t)
      BY LineOfWhole
    <3> QED
      BY <1>3, <3>1
  <2> QED
    BY <2>2, <2>3
<1>8. First(P) = 1
  <2>1. 1 \in P
    BY <1>6, <1>7 DEF At
  <2>2. \A i \in P : i \in Nat /\ 1 <= i
    BY <1>6, <1>7
  <2> HIDE DEF P
  <2>3. P \in SUBSET Nat /\ P # {}
    BY <2>1, <2>2, Zenon
  <2> QED
    BY <2>1, <2>2, <2>3, LeastIs, Zenon DEF First
<1>9. \A j \in 2..n : NameAt(s, e[j - 1]) <=> Found(ls[j])
  <2> TAKE j \in 2..n
  <2>1. j \in 1..n
    BY <1>2
  <2>2. /\ ls[j] \in Seq(Plain) /\ Len(ls[j]) # 0 /\ e[j - 1] \in Nat
        /\ LineAt(s, e[j - 1], ls[j]) /\ e[j - 1] + Len(ls[j]) + 2 <= Len(s)
    BY <2>1, LineOfWhole
  <2> QED
    BY <2>2, NameAtLine, Zenon
<1>10. ~NameAt(s, e[n])
  <2>1. e[n] + 1 \in 1..Len(t) /\ e[n] + 1 <= Len(s)
    BY <1>2, <1>3
  <2>2. t[e[n] + 1] = CR
    BY <1>2, Zenon DEF LinesAt
  <2>3. At(s, e[n]) = CR
    BY <2>1, <2>2, Zenon DEF At, StartsLike
  <2>4. AcceptName[1] # CR
    BY AcceptNameIs
  <2> QED
    BY <2>3, <2>4, Zenon DEF NameAt
<1>11. \A i \in N : \E j \in 2..n : i = e[j - 1] /\ Found(ls[j])
  <2> SUFFICES ASSUME NEW i \in N PROVE \E j \in 2..n : i = e[j - 1] /\ Found(ls[j])
    BY Zenon
  <2>1. i \in 0..Len(s) /\ i <= Len(t) /\ count[i] = 2 /\ NameAt(s, i)
    BY <1>3, <1>6
  <2>2. PICK j \in 1..n : i = e[j]
    BY <1>5, <2>1, Zenon
  <2>3. j # n
    BY <1>10, <2>1, <2>2, Zenon
  <2>4. j + 1 \in 2..n /\ (j + 1) - 1 = j
    BY <1>2, <2>3
  <2> QED
    BY <1>9, <2>1, <2>2, <2>4, Zenon
<1>12. \A j \in 2..n : Found(ls[j]) => e[j - 1] \in N
  <2> SUFFICES ASSUME NEW j \in 2..n, Found(ls[j]) PROVE e[j - 1] \in N
    BY Zenon
  <2>1. j - 1 \in 1..n
    BY <1>2
  <2>2. e[j - 1] \in 0..end - 1
    BY <1>6, <1>7, <2>1
  <2>3. count[e[j - 1]] = 2 /\ NameAt(s, e[j - 1])
    BY <1>5, <1>7, <1>9, <2>1, Zenon
  <2> QED
    BY <2>2, <2>3, Zenon
<1> HIDE DEF N
<1>13. (\A j \in 2..n : ~Found(ls[j])) => Scanned(s).key = 0
  <2> HAVE \A j \in 2..n : ~Found(ls[j])
  <2>1. N = {}
    BY <1>11, Zenon
  <2> QED
    BY <1>4, <2>1
<1>14. ASSUME NEW m \in 2..n, Found(ls[m]), \A j \in 2..n : Found(ls[j]) => j = m
       PROVE  Scanned(s).key = FirstNot(s, e[m - 1] + Len(AcceptName), {SP})
  <2>1. N = {e[m - 1]}
    <3>1. e[m - 1] \in N
      BY <1>12, <1>14, Zenon
    <3>2. \A i \in N : i = e[m - 1]
      BY <1>11, <1>14, Zenon
    <3> QED
      BY <3>1, <3>2, Zenon
  <2>2. Least({e[m - 1]}) = e[m - 1]
    <3>1. e[m - 1] \in Nat
      <4>1. m - 1 \in 0..n
        BY <1>2, <1>14
      <4> QED
        BY <1>2, <4>1, Zenon
    <3>2. e[m - 1] <= e[m - 1]
      BY <3>1
    <3>3. {e[m - 1]} \in SUBSET Nat /\ e[m - 1] \in {e[m - 1]}
      BY <3>1, Zenon
    <3> QED
      BY <3>2, <3>3, LeastIs, Zenon
  <2> QED
    BY <1>4, <2>1, <2>2, Zenon
<1> QED
  BY <1>4, <1>6, <1>8, <1>13, <1>14, Zenon DEF FindsHeader

(* The value of a header: what is left of its line.                         *)
LEMMA RestIs ==
  ASSUME NEW s \in Seq(Byte), NEW b \in Nat, NEW l \in Seq(Plain),
         LineAt(s, b, l), b + Len(l) + 2 <= Len(s), NEW i \in 0..Len(l)
  PROVE  /\ RestOfLine(s, b + i) \in Seq(Byte) /\ Len(RestOfLine(s, b + i)) = Len(l) - i
         /\ \A k \in 1..Len(l) - i : RestOfLine(s, b + i)[k] = l[i + k]
<1> DEFINE n == Len(l)
           C == Byte \ {CR, LF}
<1>1. n \in Nat /\ Len(s) \in Nat /\ b + i \in Nat /\ b + n \in Nat /\ b + i <= b + n /\ b + n < Len(s)
  OBVIOUS
<1>2. ASSUME NEW k \in (b + i)..(b + n) - 1 PROVE At(s, k) \in C
  <2>1. (k - b) + 1 \in 1..n /\ b + ((k - b) + 1) = k + 1
    BY <1>1
  <2>2. s[b + ((k - b) + 1)] = l[(k - b) + 1] /\ l[(k - b) + 1] \in Plain
    BY <2>1 DEF LineAt
  <2> QED
    BY <2>1, <2>2, Zenon DEF At, Plain
<1>3. At(s, b + n) \notin C
  <2>1. (b + n) + 1 = b + n + 1
    OBVIOUS
  <2>2. At(s, b + n) = CR
    BY <2>1, Zenon DEF At, LineAt
  <2> QED
    BY <2>2, Zenon
<1> HIDE DEF C, n
<1>4. FirstNot(s, b + i, C) = b + n
  BY <1>1, <1>2, <1>3, FirstNotIs, Zenon
<1> DEFINE w == Part(s, (b + i) + 1, b + n)
<1>5. RestOfLine(s, b + i) = w
  <2>1. RestOfLine(s, b + i) = SubSeq(s, (b + i) + 1, (b + i) + ((b + n) - (b + i)))
    BY <1>4, Zenon DEF RestOfLine, Span, C
  <2>2. (b + i) + ((b + n) - (b + i)) = b + n
    BY <1>1
  <2> QED
    BY <2>1, <2>2, Zenon DEF Part
<1>6. /\ w \in Seq(Byte) /\ Len(w) = (b + n) - (b + i)
      /\ \A k \in 1..(b + n) - (b + i) : w[k] = s[(b + i) + k]
  <2>1. b + n \in 0..Len(s) /\ b + i \in 0..b + n
    BY <1>1
  <2> HIDE DEF w
  <2> QED
    BY <2>1, PartOfSeq, Zenon DEF w
<1>7. (b + n) - (b + i) = n - i
  BY <1>1
<1>8. \A k \in 1..n - i : s[(b + i) + k] = l[i + k]
  <2> TAKE k \in 1..n - i
  <2>1. i + k \in 1..n /\ (b + i) + k = b + (i + k)
    BY <1>1
  <2> QED
    BY <2>1, Zenon DEF LineAt, n
<1> HIDE DEF w
<1> QED
  BY <1>5, <1>6, <1>7, <1>8, Zenon DEF n

(* The spaces in front of it are skipped.                                   *)
LEMMA SpacesAre ==
  ASSUME NEW s \in Seq(Byte), NEW b \in Nat, NEW l \in Seq(Plain),
         LineAt(s, b, l), b + Len(l) + 2 <= Len(s), NEW h \in Nat, NEW i \in Nat,
         h <= i, i < Len(l), \A k \in h + 1..i : l[k] = SP, l[i + 1] # SP
  PROVE  FirstNot(s, b + h, {SP}) = b + i
<1> DEFINE n == Len(l)
<1>1. n \in Nat /\ Len(s) \in Nat /\ b + h \in Nat /\ b + i \in Nat /\ b + h <= b + i /\ b + i < Len(s)
  OBVIOUS
<1>2. \A k \in 1..n : s[b + k] = l[k]
  BY DEF LineAt
<1>3. ASSUME NEW k \in (b + h)..(b + i) - 1 PROVE At(s, k) \in {SP}
  <2>1. (k - b) + 1 \in h + 1..i /\ (k - b) + 1 \in 1..n /\ b + ((k - b) + 1) = k + 1
    BY <1>1
  <2>2. s[b + ((k - b) + 1)] = SP
    BY <1>2, <2>1, Zenon
  <2> QED
    BY <2>1, <2>2, Zenon DEF At
<1>4. At(s, b + i) \notin {SP}
  <2>1. i + 1 \in 1..n /\ (b + i) + 1 = b + (i + 1)
    BY <1>1
  <2> QED
    BY <1>2, <2>1, Zenon DEF At
<1> QED
  BY <1>1, <1>3, <1>4, FirstNotIs, Zenon

(* Characters, and lines, one behind the other.                             *)
LEMMA CatPlain ==
  \A s, t \in Seq(Plain) : /\ Cat(s, t) \in Seq(Plain) /\ Len(Cat(s, t)) = Len(s) + Len(t)
                           /\ \A i \in 1..Len(s) : Cat(s, t)[i] = s[i]
                           /\ \A i \in 1..Len(t) : Cat(s, t)[Len(s) + i] = t[i]
<1>1. \A s, t \in Seq(Plain) : Cat(s, t) \in Seq(Plain)
  BY CatProperties
<1>2. \A s, t \in Seq(Plain) : /\ Len(Cat(s, t)) = Len(s) + Len(t)
                               /\ \A i \in 1..Len(s) : Cat(s, t)[i] = s[i]
                               /\ \A i \in 1..Len(t) : Cat(s, t)[Len(s) + i] = t[i]
  BY CatIndex
<1> QED
  BY <1>1, <1>2, Zenon

\* c is a followed by q, or q followed by a.
StartsWith(c, S, a, q) ==
  /\ c \in Seq(S) /\ Len(c) = Len(q) + 1
  /\ c[1] = a /\ \A j \in 1..Len(q) : c[j + 1] = q[j]
EndsWith(c, S, q, a) ==
  /\ c \in Seq(S) /\ Len(c) = Len(q) + 1
  /\ c[Len(q) + 1] = a /\ \A j \in 1..Len(q) : c[j] = q[j]

(* An element and a sequence, in either order.                              *)
LEMMA OneMore ==
  ASSUME NEW S, NEW a \in S, NEW q \in Seq(S)
  PROVE  StartsWith(Cat(<<a>>, q), S, a, q) /\ EndsWith(Cat(q, <<a>>), S, q, a)
BY DEF Cat, StartsWith, EndsWith

(* What the name of the header is the front of has that name.               *)
LEMMA NamedFront ==
  ASSUME NEW h \in Seq(Plain), NEW w \in Seq(Plain), Named(h)
  PROVE  Named(Cat(h, w)) /\ Cat(h, w)[1] = h[1]
<1> DEFINE c == Cat(h, w)
<1>1. Len(h) \in Nat /\ Len(w) \in Nat /\ Len(h) >= 3 /\ Len(AcceptName) = 3
  BY AcceptNameIs DEF Named
<1>2. Len(c) = Len(h) + Len(w) /\ \A i \in 1..Len(h) : c[i] = h[i]
  BY CatPlain, Zenon
<1> HIDE DEF c
<1>3. Len(c) >= 3 /\ 1 \in 1..Len(h) /\ \A k \in 1..3 : k \in 1..Len(h)
  BY <1>1, <1>2
<1> QED
  BY <1>1, <1>2, <1>3, Zenon DEF Named, c

\* The value behind the header's name: ours, one that is cut off, or one that
\* differs at its end.
ValueOf(r, v) ==
  IF r.value = "own" THEN v ELSE IF r.value = "short" THEN Short(v) ELSE Other(v)

\* It is made of characters, and differs from ours if it is not ours.
IsValue(w, v, own) ==
  /\ w \in Seq(Plain) /\ Len(w) # 0 /\ w[1] = v[1]
  /\ own => w = v
  /\ ~own => Len(w) # 28 \/ w[28] = 63

(* The value behind the header's name.                                      *)
LEMMA ValueIs ==
  ASSUME NEW r, NEW v \in Seq(Plain), Len(v) = 28
  PROVE  IsValue(ValueOf(r, v), v, r.value = "own")
<1>1. CASE r.value = "own"
  <2>1. ValueOf(r, v) = v
    BY <1>1, Zenon DEF ValueOf
  <2>2. Len(v) # 0
    OBVIOUS
  <2> QED
    BY <1>1, <2>1, <2>2, Zenon DEF IsValue
<1>2. CASE r.value = "short"
  <2> DEFINE w == Part(v, 0 + 1, 3)
  <2>1. 3 \in 0..Len(v) /\ 0 \in 0..3 /\ 3 - 0 = 3 /\ 1 \in 1..3 /\ 0 + 1 = 1 /\ 3 # 0 /\ 3 # 28
    OBVIOUS
  <2>2. w \in Seq(Plain) /\ Len(w) = 3 - 0 /\ \A i \in 1..3 - 0 : w[i] = v[0 + i]
    BY <2>1, PartOfSeq, ZenonT(60)
  <2>3. ValueOf(r, v) = w /\ r.value # "own"
    <3>1. r.value # "own"
      BY <1>2
    <3> QED
      BY <1>2, <2>1, <3>1, Zenon DEF ValueOf, Short, Part
  <2> HIDE DEF w
  <2>4. Len(w) = 3 /\ w[1] = v[1]
    BY <2>1, <2>2, Zenon
  <2> QED
    BY <2>1, <2>2, <2>3, <2>4, Zenon DEF IsValue
<1>3. CASE r.value # "own" /\ r.value # "short"
  <2> DEFINE w == Other(v)
  <2>1. 63 \in Plain /\ 28 \in 1..28 /\ 1 \in 1..28 /\ 1 # 28
    BY DEF Plain, Byte, CR, LF
  <2>2. v \in [1..28 -> Plain]
    BY LenProperties, Zenon
  <2>3. w \in [1..28 -> Plain] /\ w[28] = 63 /\ w[1] = v[1]
    <3>1. w = [i \in 1..28 |-> IF i = 28 THEN 63 ELSE v[i]]
      BY Zenon DEF Other
    <3> HIDE DEF w
    <3> QED
      BY <2>1, <2>2, <3>1
  <2> HIDE DEF w
  <2>4. w \in Seq(Plain) /\ Len(w) = 28 /\ Len(w) # 0
    <3>1. w \in [1..28 -> Plain] /\ 28 \in Nat
      BY <2>3
    <3>2. w \in Seq(Plain) /\ Len(w) = 28
      BY <3>1, FunctionIsSeq, Zenon
    <3> QED
      BY <3>2
  <2>5. ValueOf(r, v) = w
    BY <1>3, Zenon DEF ValueOf, w
  <2> QED
    BY <1>3, <2>3, <2>4, <2>5, Zenon DEF IsValue
<1> QED
  BY <1>1, <1>3, <1>2, Zenon

\* The lines of response r: the status line first, and the header, if there is
\* one, the last of them and the only one with its name.
LinesOf(r, v, ls) ==
  /\ ls \in Seq(Seq(Plain)) /\ IsLines(ls)
  /\ ls[1] = Cat(<<72, SP>>, r.code)
  /\ \A j \in 2..Len(ls) : Found(ls[j]) =>
       j = Len(ls) /\ r.value # "none" /\ r.name[1] = AcceptName[1]
  /\ r.value # "none" /\ r.name[1] = AcceptName[1] =>
       2 <= Len(ls) /\ Found(ls[Len(ls)]) /\ ls[Len(ls)] = Cat(r.name, ValueOf(r, v))

(* The text of a response is made of these lines.                           *)
LEMMA TextIs ==
  ASSUME NEW r \in Responses, NEW v \in Seq(Plain), Len(v) = 28
  PROVE  \E ls : LinesOf(r, v, ls) /\ Text(r, v) = Lines(ls)
<1> DEFINE h == Cat(<<72, SP>>, r.code)
           w == ValueOf(r, v)
           a == Cat(<<h>>, r.others)
           z == Cat(r.name, w)
           o == r.others
<1>1. /\ r.code \in Seq(Plain) /\ o \in Seq(Seq(Plain)) /\ r.name \in Seq(Plain)
      /\ r.value \in {"none", "own", "other", "short"} /\ Named(r.name)
      /\ \A i \in DOMAIN o : o[i] # <<>> /\ ~Named(o[i])
  BY DEF Responses
<1>2. h \in Seq(Plain) /\ Len(h) # 0
  <2>1. <<72, SP>> \in Seq(Plain) /\ Len(<<72, SP>>) = 2
    BY DEF Plain, Byte, SP, CR, LF
  <2>2. Cat(<<72, SP>>, r.code) \in Seq(Plain) /\ Len(Cat(<<72, SP>>, r.code)) = 2 + Len(r.code)
    BY <1>1, <2>1, CatPlain, Zenon
  <2>3. Len(r.code) \in Nat
    BY <1>1
  <2> HIDE DEF h
  <2> QED
    BY <2>2, <2>3 DEF h
<1>3. w \in Seq(Plain)
  BY ValueIs, Zenon DEF IsValue
<1>4. z \in Seq(Plain) /\ Len(z) # 0 /\ (Found(z) <=> r.name[1] = AcceptName[1])
  <2>1. z \in Seq(Plain) /\ Named(z) /\ z[1] = r.name[1]
    <3> HIDE DEF w
    <3> QED
      BY <1>1, <1>3, CatPlain, NamedFront, Zenon
  <2> HIDE DEF z
  <2>2. Len(z) >= 3 /\ (Found(z) <=> r.name[1] = AcceptName[1])
    BY <2>1, AcceptNameIs, Zenon DEF Named, Found
  <2>3. Len(z) # 0
    BY <2>1, <2>2
  <2> QED
    BY <2>1, <2>2, <2>3, Zenon
<1>5. /\ r.value = "none" => Text(r, v) = Lines(Cat(a, <<>>))
      /\ r.value # "none" => Text(r, v) = Lines(Cat(a, <<z>>))
  <2>1. CASE r.value = "none"
    BY <2>1 DEF Text, Cat
  <2>2. CASE r.value = "own"
    BY <2>2 DEF Text, Cat, ValueOf
  <2>3. CASE r.value = "other"
    BY <2>3 DEF Text, Cat, ValueOf
  <2>4. CASE r.value = "short"
    BY <2>4 DEF Text, Cat, ValueOf
  <2> QED
    BY <1>1, <2>1, <2>2, <2>3, <2>4
<1> HIDE DEF h, w, z, o
<1>6. /\ a \in Seq(Seq(Plain)) /\ Len(a) = Len(o) + 1 /\ a[1] = h
      /\ \A j \in 1..Len(o) : a[j + 1] = o[j]
  <2>1. h \in Seq(Plain) /\ o \in Seq(Seq(Plain)) /\ a = Cat(<<h>>, o)
    BY <1>1, <1>2, Zenon DEF o
  <2> HIDE DEF a
  <2>2. StartsWith(a, Seq(Plain), h, o)
    BY <2>1, OneMore, Zenon
  <2> QED
    BY <2>2, Zenon DEF StartsWith
<1>7. Len(o) \in Nat /\ \A j \in 1..Len(o) : o[j] \in Seq(Plain) /\ Len(o[j]) # 0 /\ ~Found(o[j])
  BY <1>1 DEF Found
<1> HIDE DEF a
<1>8. \A j \in 2..Len(a) : a[j] \in Seq(Plain) /\ Len(a[j]) # 0 /\ ~Found(a[j])
  <2> TAKE j \in 2..Len(a)
  <2>1. j - 1 \in 1..Len(o) /\ (j - 1) + 1 = j
    BY <1>6, <1>7
  <2>2. a[(j - 1) + 1] = o[j - 1]
    BY <1>6, <2>1, Zenon
  <2> QED
    BY <1>7, <2>1, <2>2, Zenon
<1>9. CASE r.value = "none"
  <2>1. Cat(a, <<>>) = a
    BY <1>6, CatProperties
  <2>2. IsLines(a)
    <3>1. ASSUME NEW j \in 1..Len(a) PROVE a[j] \in Seq(Plain) /\ Len(a[j]) # 0
      <4>1. CASE j = 1
        BY <1>2, <1>6, <4>1, Zenon
      <4>2. CASE j # 1
        <5>1. j \in 2..Len(a)
          BY <4>2
        <5> QED
          BY <1>8, <5>1, Zenon
      <4> QED
        BY <4>1, <4>2, Zenon
    <3>2. Len(a) # 0
      BY <1>6, <1>7
    <3> QED
      BY <3>1, <3>2, Zenon DEF IsLines
  <2>3. LinesOf(r, v, a)
    BY <1>6, <1>8, <1>9, <2>2, Zenon DEF LinesOf, h
  <2> QED
    BY <1>5, <1>9, <2>1, <2>3, Zenon
<1>10. CASE r.value # "none"
  <2> DEFINE b == Cat(a, <<z>>)
  <2>1. /\ b \in Seq(Seq(Plain)) /\ Len(b) = Len(a) + 1 /\ b[Len(a) + 1] = z
        /\ \A j \in 1..Len(a) : b[j] = a[j]
    <3>1. EndsWith(b, Seq(Plain), a, z)
      BY <1>4, <1>6, OneMore, Zenon
    <3> HIDE DEF b
    <3> QED
      BY <3>1, Zenon DEF EndsWith
  <2> HIDE DEF b
  <2>2. Len(a) \in Nat /\ Len(a) # 0 /\ 1 \in 1..Len(a) /\ 2 <= Len(b) /\ Len(b) \in Nat
    BY <1>6, <1>7, <2>1
  <2>3. ASSUME NEW j \in 1..Len(b)
        PROVE  /\ b[j] \in Seq(Plain) /\ Len(b[j]) # 0
               /\ j \in 2..Len(b) /\ Found(b[j]) => j = Len(b) /\ r.name[1] = AcceptName[1]
    <3>1. CASE j = 1
      <4>1. b[j] = h /\ ~(j \in 2..Len(b))
        BY <1>6, <2>1, <2>2, <3>1
      <4> QED
        BY <1>2, <4>1, Zenon
    <3>2. CASE j = Len(b)
      BY <1>4, <2>1, <3>2, Zenon
    <3>3. CASE j # 1 /\ j # Len(b)
      <4>1. j \in 2..Len(a) /\ j \in 1..Len(a)
        BY <2>1, <2>2, <3>3
      <4> QED
        BY <1>8, <2>1, <4>1, Zenon
    <3> QED
      BY <3>1, <3>2, <3>3, Zenon
  <2>4. IsLines(b)
    BY <2>1, <2>2, <2>3 DEF IsLines
  <2>5. \A j \in 2..Len(b) : Found(b[j]) => j = Len(b) /\ r.name[1] = AcceptName[1]
    <3> TAKE j \in 2..Len(b)
    <3>1. j \in 1..Len(b)
      BY <2>2
    <3> QED
      BY <2>3, <3>1, Zenon
  <2>6. b[Len(b)] = z /\ b[1] = h
    BY <1>6, <2>1, <2>2, Zenon
  <2>7. LinesOf(r, v, b)
    BY <1>4, <1>10, <2>1, <2>2, <2>4, <2>5, <2>6, Zenon DEF LinesOf, h, z, w
  <2> QED
    BY <1>5, <1>10, <2>7, Zenon DEF b
<1> QED
  BY <1>9, <1>10

\* l is a followed by b.
Joined(l, a, b) ==
  /\ Len(l) = Len(a) + Len(b)
  /\ \A i \in 1..Len(a) : l[i] = a[i]
  /\ \A i \in 1..Len(b) : l[Len(a) + i] = b[i]

(* Characters one behind the other.                                         *)
LEMMA CatJoined == \A a, b \in Seq(Plain) : Joined(Cat(a, b), a, b)
BY CatPlain, Zenon DEF Joined

(* A sequence of three is known by its elements.                            *)
LEMMA Triple ==
  ASSUME NEW q \in Seq(Byte), Len(q) = 3, NEW a \in Byte, NEW b \in Byte, NEW c \in Byte
  PROVE  q = <<a, b, c>> <=> q[1] = a /\ q[2] = b /\ q[3] = c
<1>1. ASSUME q[1] = a, q[2] = b, q[3] = c PROVE q = <<a, b, c>>
  <2>1. <<a, b, c>> \in Seq(Byte) /\ Len(<<a, b, c>>) = 3
    OBVIOUS
  <2>2. \A i \in 1..3 : q[i] = <<a, b, c>>[i]
    BY <1>1
  <2> DEFINE t == <<a, b, c>>
  <2> HIDE DEF t
  <2>3. q = t
    BY <2>1, <2>2, SeqEqual DEF t
  <2> QED
    BY <2>3, Zenon DEF t
<1>2. ASSUME q = <<a, b, c>> PROVE q[1] = a /\ q[2] = b /\ q[3] = c
  BY <1>2
<1> QED
  BY <1>1, <1>2

(* Three bytes are the ones looked for exactly if each of them is.          *)
LEMMA ThreeBytes ==
  ASSUME NEW s \in Seq(Byte), NEW m \in Nat, m + 3 <= Len(s)
  PROVE  SubSeq(s, m + 1, m + 3) = <<49, 48, 49>>
           <=> s[m + 1] = 49 /\ s[m + 2] = 48 /\ s[m + 3] = 49
<1> DEFINE q == Part(s, m + 1, m + 3)
<1>1. m + 3 \in 0..Len(s) /\ m \in 0..m + 3 /\ (m + 3) - m = 3
  OBVIOUS
<1>2. q \in Seq(Byte) /\ Len(q) = (m + 3) - m /\ \A i \in 1..(m + 3) - m : q[i] = s[m + i]
  BY <1>1, PartOfSeq, Zenon
<1> HIDE DEF q
<1>3. Len(q) = 3 /\ q[1] = s[m + 1] /\ q[2] = s[m + 2] /\ q[3] = s[m + 3]
  <2>1. 1 \in 1..3 /\ 2 \in 1..3 /\ 3 \in 1..3
    OBVIOUS
  <2> QED
    BY <1>1, <1>2, <2>1, Zenon
<1>4. 49 \in Byte /\ 48 \in Byte
  BY DEF Byte
<1>5. q = <<49, 48, 49>> <=> q[1] = 49 /\ q[2] = 48 /\ q[3] = 49
  BY <1>2, <1>3, <1>4, Triple
<1>6. q = SubSeq(s, m + 1, m + 3)
  BY Zenon DEF q, Part
<1> QED
  BY <1>3, <1>5, <1>6, Zenon

(* The status line, in what starts with a response.                         *)
LEMMA StatusIs ==
  ASSUME NEW c \in Seq(Byte), Len(c) >= 3, NEW s \in Seq(Byte), NEW l \in Seq(Plain),
         Joined(l, <<72, SP>>, c), LineAt(s, 0, l), Len(l) + 2 <= Len(s)
  PROVE  /\ s[2] = SP /\ 7 <= Len(s) /\ l[2] = SP /\ 5 <= Len(l)
         /\ Span(s, 1 + 1, 3) = <<49, 48, 49>> <=> SubSeq(c, 1, 3) = <<49, 48, 49>>
<1>1. /\ Len(l) = 2 + Len(c) /\ l[2] = SP
      /\ \A i \in 1..Len(c) : l[2 + i] = c[i]
  BY DEF Joined
<1>2. Len(c) \in Nat /\ Len(s) \in Nat
  OBVIOUS
<1>3. Len(l) \in Nat /\ Len(l) >= 5 /\ Len(s) >= 7 /\ \A i \in 1..5 : i \in 1..Len(l)
  BY <1>1, <1>2
<1>4. \A i \in 1..5 : s[i] = l[i]
  <2> TAKE i \in 1..5
  <2>1. s[0 + i] = l[i]
    BY <1>3, Zenon DEF LineAt
  <2>2. 0 + i = i
    OBVIOUS
  <2> QED
    BY <2>1, <2>2, Zenon
<1>5. /\ 2 \in 1..5 /\ 3 \in 1..5 /\ 4 \in 1..5 /\ 5 \in 1..5
      /\ 1 \in 1..Len(c) /\ 2 \in 1..Len(c) /\ 3 \in 1..Len(c)
  BY <1>2
<1>6. 2 + 1 = 3 /\ 2 + 2 = 4 /\ 2 + 3 = 5 /\ 0 + 1 = 1 /\ 0 + 2 = 2 /\ 0 + 3 = 3 /\ 1 + 1 = 2
  OBVIOUS
<1>7. s[2] = SP
  BY <1>1, <1>4, <1>5, Zenon
<1>8. s[3] = c[1] /\ s[4] = c[2] /\ s[5] = c[3]
  <2>1. l[2 + 1] = c[1] /\ l[2 + 2] = c[2] /\ l[2 + 3] = c[3]
    BY <1>1, <1>5, Zenon
  <2> QED
    BY <1>4, <1>5, <1>6, <2>1, Zenon
<1>9. Span(s, 1 + 1, 3) = <<49, 48, 49>> <=> s[3] = 49 /\ s[4] = 48 /\ s[5] = 49
  <2>1. 2 \in Nat /\ 2 + 3 <= Len(s)
    BY <1>2, <1>3
  <2>2. SubSeq(s, 2 + 1, 2 + 3) = <<49, 48, 49>> <=> s[2 + 1] = 49 /\ s[2 + 2] = 48 /\ s[2 + 3] = 49
    BY <2>1, ThreeBytes, Zenon
  <2>3. Span(s, 1 + 1, 3) = SubSeq(s, 2 + 1, 2 + 3)
    BY <1>6, Zenon DEF Span
  <2> QED
    BY <1>6, <2>2, <2>3, Zenon
<1>10. SubSeq(c, 1, 3) = <<49, 48, 49>> <=> c[1] = 49 /\ c[2] = 48 /\ c[3] = 49
  <2>1. 0 \in Nat /\ 0 + 3 <= Len(c)
    BY <1>2
  <2>2. SubSeq(c, 0 + 1, 0 + 3) = <<49, 48, 49>> <=> c[0 + 1] = 49 /\ c[0 + 2] = 48 /\ c[0 + 3] = 49
    BY <2>1, ThreeBytes, Zenon
  <2> QED
    BY <1>6, <2>2, Zenon
<1>11. 7 <= Len(s) /\ 5 <= Len(l)
  BY <1>2, <1>3
<1> QED
  BY <1>1, <1>7, <1>8, <1>9, <1>10, <1>11, Zenon

(* read_handshake finds the value in the header's line.                     *)
LEMMA ValueAt ==
  ASSUME NEW s \in Seq(Byte), NEW b \in Nat, NEW l \in Seq(Plain),
         LineAt(s, b, l), b + Len(l) + 2 <= Len(s),
         NEW h \in Seq(Plain), NEW w \in Seq(Plain), Joined(l, h, w),
         Len(h) >= 3, \A i \in 4..Len(h) : h[i] = SP, Len(w) # 0, w[1] # SP
  PROVE  RestOfLine(s, FirstNot(s, b + 3, {SP})) = w
<1> DEFINE n == Len(h)
<1>1. n \in Nat /\ Len(w) \in Nat /\ n >= 3
  OBVIOUS
<1>2. /\ Len(l) = n + Len(w)
      /\ \A i \in 1..n : l[i] = h[i]
      /\ \A i \in 1..Len(w) : l[n + i] = w[i]
  BY Zenon DEF Joined
<1>3. n < Len(l) /\ Len(l) - n = Len(w) /\ n \in 0..Len(l)
  BY <1>1, <1>2
<1>4. \A k \in 3 + 1..n : l[k] = SP
  <2>1. \A k \in 3 + 1..n : k \in 1..n /\ k \in 4..n
    BY <1>1
  <2> QED
    BY <1>2, <2>1, Zenon
<1>5. l[n + 1] # SP
  <2>1. 1 \in 1..Len(w)
    BY <1>1
  <2> QED
    BY <1>2, <2>1, Zenon
<1> HIDE DEF n
<1>6. FirstNot(s, b + 3, {SP}) = b + n
  <2>1. 3 \in Nat /\ 3 <= n
    BY <1>1
  <2> QED
    BY <1>1, <1>3, <1>4, <1>5, <2>1, SpacesAre, ZenonT(60)
<1> DEFINE q == RestOfLine(s, b + n)
<1>7. /\ q \in Seq(Byte) /\ Len(q) = Len(l) - n /\ \A k \in 1..Len(l) - n : q[k] = l[n + k]
  BY <1>3, RestIs, Zenon
<1> HIDE DEF q
<1>8. \A k \in 1..Len(w) : q[k] = w[k]
  BY <1>2, <1>3, <1>7, Zenon
<1>9. q = w
  <2>1. w \in Seq(Byte) /\ Len(q) = Len(w)
    BY <1>3, <1>7, PlainBytes, Zenon
  <2> QED
    BY <1>7, <1>8, <2>1, SeqEqual
<1> QED
  BY <1>6, <1>9, Zenon DEF q

\* The answer to an upgrade request that is accepted: 101, with our key behind
\* a name that is found.
Own(r) == r.value = "own" /\ r.name[1] = AcceptName[1]
Valid(r) == SubSeq(r.code, 1, 3) = <<49, 48, 49>> /\ Own(r)

(* What a response consists of.                                             *)
LEMMA ResponseIs ==
  ASSUME NEW r \in Responses
  PROVE  /\ r.code \in Seq(Plain) /\ Len(r.code) >= 3
         /\ r.name \in Seq(Plain) /\ Len(r.name) >= 3 /\ \A i \in 4..Len(r.name) : r.name[i] = SP
<1>1. /\ r.code \in Seq(Plain) /\ Len(r.code) >= 3
      /\ r.name \in Seq(Plain) /\ Named(r.name)
      /\ \A i \in Len(AcceptName) + 1..Len(r.name) : r.name[i] = SP
  BY DEF Responses
<1>2. Len(AcceptName) + 1 = 4 /\ Len(AcceptName) = 3
  BY AcceptNameIs
<1> QED
  BY <1>1, <1>2, Zenon DEF Named

\* v is a key as it is sent: 28 characters of the alphabet.
IsKey(v) == v \in Seq(Plain) /\ Len(v) = 28 /\ \A i \in 1..28 : v[i] >= 64

(* The value behind the header's name starts with no space, and is the key  *)
(* only if it is meant to be.                                               *)
LEMMA ValueDiffers ==
  ASSUME NEW r, NEW v, IsKey(v)
  PROVE  /\ ValueOf(r, v) \in Seq(Plain) /\ Len(ValueOf(r, v)) # 0 /\ ValueOf(r, v)[1] # SP
         /\ ValueOf(r, v) = v <=> r.value = "own"
<1> DEFINE w == ValueOf(r, v)
<1>1. v \in Seq(Plain) /\ Len(v) = 28 /\ \A i \in 1..28 : v[i] >= 64
  BY Zenon DEF IsKey
<1>2. IsValue(w, v, r.value = "own")
  BY <1>1, ValueIs, Zenon
<1>3. 1 \in 1..28 /\ 28 \in 1..28 /\ ~(63 >= 64) /\ 28 # 0
  OBVIOUS
<1>4. ~(SP >= 64)
  BY DEF SP
<1>5. v[1] # SP /\ v[28] # 63
  BY <1>1, <1>3, <1>4, ZenonT(60)
<1> HIDE DEF w
<1>6. w \in Seq(Plain) /\ Len(w) # 0 /\ w[1] # SP
  BY <1>2, <1>5, Zenon DEF IsValue
<1>7. w = v <=> r.value = "own"
  BY <1>1, <1>2, <1>5, Zenon DEF IsValue
<1> QED
  BY <1>6, <1>7, Zenon DEF w

(* With the header in the last line, the comparison is with its value.      *)
LEMMA ComparesValue ==
  ASSUME NEW s \in Seq(Byte), NEW b \in Nat, NEW l \in Seq(Plain),
         LineAt(s, b, l), b + Len(l) + 2 <= Len(s),
         NEW r \in Responses, NEW v, IsKey(v), Joined(l, r.name, ValueOf(r, v))
  PROVE  RestOfLine(s, FirstNot(s, b + Len(AcceptName), {SP})) = v <=> r.value = "own"
<1> DEFINE w == ValueOf(r, v)
           h == r.name
<1>1. w \in Seq(Plain) /\ Len(w) # 0 /\ w[1] # SP /\ (w = v <=> r.value = "own")
  BY ValueDiffers, Zenon
<1>2. h \in Seq(Plain) /\ Len(h) >= 3 /\ \A i \in 4..Len(h) : h[i] = SP
  BY ResponseIs, Zenon
<1>3. Joined(l, h, w)
  OBVIOUS
<1> HIDE DEF w, h
<1>4. RestOfLine(s, FirstNot(s, b + 3, {SP})) = w
  BY <1>1, <1>2, <1>3, ValueAt, Zenon
<1> QED
  BY <1>1, <1>4, AcceptNameIs, Zenon

(* Without it, the comparison is with the status line, whose second         *)
(* character is a space.                                                    *)
LEMMA ComparesStatus ==
  ASSUME NEW v, IsKey(v), NEW s \in Seq(Byte), NEW l \in Seq(Plain),
         LineAt(s, 0, l), Len(l) + 2 <= Len(s), 5 <= Len(l), l[2] = SP
  PROVE  RestOfLine(s, 0) # v
<1>1. Len(l) \in Nat /\ 0 + Len(l) + 2 <= Len(s) /\ 0 \in Nat /\ 0 \in 0..Len(l) /\ 0 + 0 = 0
  OBVIOUS
<1>2. 2 \in 1..Len(l) - 0 /\ 0 + 2 = 2 /\ 2 \in 1..28
  BY <1>1
<1>3. \A k \in 1..Len(l) - 0 : RestOfLine(s, 0 + 0)[k] = l[0 + k]
  BY <1>1, RestIs, Zenon
<1>4. RestOfLine(s, 0)[2] = SP
  <2>1. RestOfLine(s, 0 + 0)[2] = l[0 + 2]
    BY <1>2, <1>3, Zenon
  <2> QED
    BY <1>1, <1>2, <2>1, Zenon
<1>5. v[2] >= 64 /\ ~(SP >= 64)
  BY <1>2 DEF IsKey, SP
<1> QED
  BY <1>4, <1>5, Zenon

\* The answer a of read_handshake, that takes n bytes.
Answers(a, ok, n) ==
  /\ a.status \in {"ok", "error", "beyond"} /\ a.consumed = n
  /\ a.status = "ok" <=> ok

(* read_handshake, as long as the end is missing.                             *)
LEMMA AnswersPart ==
  ASSUME NEW v, NEW s, Scanned(s).end = 0
  PROVE  Answers(read_handshake(v, s), TRUE, 0)
BY DEF read_handshake, Answers

(* read_handshake, once the end is there: the status and the key decide.    *)
LEMMA AnswersWhole ==
  ASSUME NEW v, NEW s, NEW n, n # 0, Scanned(s).end = n, Scanned(s).sp = 1, ~(Len(s) <= 1 + 3)
  PROVE  Answers(read_handshake(v, s),
                 Span(s, 1 + 1, 3) = <<49, 48, 49>> /\ RestOfLine(s, Scanned(s).key) = v, n)
BY DEF read_handshake, Answers

(* read_handshake, in however many pieces the response arrives: it takes    *)
(* nothing until the response is there, then takes exactly its bytes, and   *)
(* accepts it exactly if it is a 101 with our key behind a header whose     *)
(* name starts with a capital letter.                                       *)
THEOREM ReadsResponse ==
  ASSUME NEW r \in Responses, NEW v, IsKey(v),
         NEW s \in Seq(Byte), StartsLike(s, Text(r, v))
  PROVE  /\ Text(r, v) \in Seq(Byte)
         /\ IF Len(s) < Len(Text(r, v)) THEN Answers(read_handshake(v, s), TRUE, 0)
            ELSE Answers(read_handshake(v, s), Valid(r), Len(Text(r, v)))
<1> DEFINE t == Text(r, v)
<1>1. PICK ls : LinesOf(r, v, ls) /\ t = Lines(ls)
  BY TextIs, Zenon DEF IsKey
<1>2. ls \in Seq(Seq(Plain)) /\ IsLines(ls) /\ Len(ls) \in Nat
  <2>1. ls \in Seq(Seq(Plain)) /\ IsLines(ls)
    BY <1>1, Zenon DEF LinesOf
  <2> QED
    BY <2>1
<1>3. PICK e \in [0..Len(ls) -> Nat] : t \in Seq(Byte) /\ LinesAt(t, e, ls)
  BY <1>1, <1>2, LinesIs, Zenon
<1> HIDE DEF t
<1>4. IsResponse(t, e, ls) /\ StartsLike(s, t)
  BY <1>2, <1>3, Zenon DEF IsResponse, t
<1>5. CASE Len(s) < Len(t)
  <2>1. Scanned(s).end = 0
    BY <1>4, <1>5, ScansPart, Zenon
  <2> QED
    BY <1>3, <1>5, <2>1, AnswersPart, Zenon DEF t
<1>6. CASE ~(Len(s) < Len(t))
  <2>1. Len(s) \in Nat /\ Len(t) \in Nat /\ Len(t) <= Len(s)
    BY <1>3, <1>6
  <2>2. 1 \in 1..Len(ls) /\ 1 - 1 = 0 /\ e[0] = 0
    BY <1>2, <1>3 DEF IsLines, LinesAt
  <2>3. ls[1] \in Seq(Plain) /\ LineAt(s, 0, ls[1]) /\ Len(ls[1]) + 2 <= Len(s) /\ e[1] \in Nat /\ e[1] + 2 <= Len(t)
    <3>1. /\ ls[1] \in Seq(Plain) /\ e[1] \in Nat /\ e[1] + 2 <= Len(t)
          /\ LineAt(s, e[1 - 1], ls[1]) /\ e[1 - 1] + Len(ls[1]) + 2 <= Len(s)
      BY <1>4, <2>1, <2>2, LineOfWhole, Zenon
    <3>2. LineAt(s, 0, ls[1]) /\ 0 + Len(ls[1]) + 2 <= Len(s)
      BY <2>2, <3>1, Zenon
    <3>3. 0 + Len(ls[1]) + 2 = Len(ls[1]) + 2
      BY <3>1
    <3> QED
      BY <3>1, <3>2, <3>3, Zenon
  <2>4. /\ s[2] = SP /\ 7 <= Len(s) /\ ls[1][2] = SP /\ 5 <= Len(ls[1])
        /\ Span(s, 1 + 1, 3) = <<49, 48, 49>> <=> SubSeq(r.code, 1, 3) = <<49, 48, 49>>
    <3>1. Joined(ls[1], <<72, SP>>, r.code)
      <4>1. <<72, SP>> \in Seq(Plain)
        BY DEF Plain, Byte, SP, CR, LF
      <4>2. r.code \in Seq(Plain) /\ ls[1] = Cat(<<72, SP>>, r.code)
        BY <1>1, ResponseIs, Zenon DEF LinesOf
      <4> QED
        BY <4>1, <4>2, CatJoined, Zenon
    <3>2. r.code \in Seq(Byte) /\ Len(r.code) >= 3
      BY ResponseIs, PlainBytes, Zenon
    <3> QED
      BY <2>3, <3>1, <3>2, StatusIs, Zenon
  <2>5. Scanned(s).end = Len(t) /\ Scanned(s).sp = 1 /\ FindsHeader(s, e, ls)
    BY <1>4, <2>1, <2>4, ScansWhole, Zenon
  <2>6. RestOfLine(s, Scanned(s).key) = v <=> Own(r)
    <3>1. CASE r.value = "none" \/ r.name[1] # AcceptName[1]
      <4>1. \A j \in 2..Len(ls) : ~Found(ls[j])
        BY <1>1, <3>1, Zenon DEF LinesOf
      <4>2. ~Own(r)
        BY <3>1 DEF Own
      <4>3. Scanned(s).key = 0
        BY <2>5, <4>1, Zenon DEF FindsHeader
      <4>4. RestOfLine(s, 0) # v
        BY <2>3, <2>4, ComparesStatus, Zenon
      <4> QED
        BY <4>3, <4>4, <4>2, Zenon
    <3>2. CASE r.value # "none" /\ r.name[1] = AcceptName[1]
      <4> DEFINE m == Len(ls)
      <4>1. 2 <= m /\ Found(ls[m]) /\ ls[m] = Cat(r.name, ValueOf(r, v))
        BY <1>1, <3>2, Zenon DEF LinesOf
      <4>2. \A j \in 2..m : Found(ls[j]) => j = m
        BY <1>1, Zenon DEF LinesOf
      <4>3. m \in 2..m /\ m \in 1..m
        BY <1>2, <4>1
      <4>4. Scanned(s).key = FirstNot(s, e[m - 1] + Len(AcceptName), {SP})
        BY <2>5, <4>1, <4>2, <4>3, Zenon DEF FindsHeader
      <4>5. /\ ls[m] \in Seq(Plain) /\ e[m - 1] \in Nat
            /\ LineAt(s, e[m - 1], ls[m]) /\ e[m - 1] + Len(ls[m]) + 2 <= Len(s)
        BY <1>4, <2>1, <4>3, LineOfWhole, Zenon
      <4>6. Joined(ls[m], r.name, ValueOf(r, v))
        <5>1. r.name \in Seq(Plain) /\ ValueOf(r, v) \in Seq(Plain)
          BY ResponseIs, ValueDiffers, Zenon
        <5> QED
          BY <4>1, <5>1, CatJoined, Zenon
      <4> QED
        <5> DEFINE l == ls[m]
                   b == e[m - 1]
        <5>1. /\ l \in Seq(Plain) /\ b \in Nat /\ LineAt(s, b, l) /\ b + Len(l) + 2 <= Len(s)
              /\ Joined(l, r.name, ValueOf(r, v))
          BY <4>5, <4>6, Zenon
        <5> HIDE DEF l, b
        <5>2. RestOfLine(s, FirstNot(s, b + Len(AcceptName), {SP})) = v <=> r.value = "own"
          BY <5>1, ComparesValue, Zenon
        <5> QED
          BY <3>2, <4>4, <5>2, Zenon DEF b, Own
    <3> QED
      BY <3>1, <3>2, Zenon
  <2>7. Len(t) # 0 /\ ~(Len(s) <= 1 + 3)
    BY <2>1, <2>3, <2>4
  <2>8. Answers(read_handshake(v, s),
                Span(s, 1 + 1, 3) = <<49, 48, 49>> /\ RestOfLine(s, Scanned(s).key) = v, Len(t))
    BY <2>5, <2>7, AnswersWhole, Zenon
  <2>9. Span(s, 1 + 1, 3) = <<49, 48, 49>> /\ RestOfLine(s, Scanned(s).key) = v <=> Valid(r)
    BY <2>4, <2>6, Zenon DEF Valid
  <2> QED
    BY <1>3, <1>6, <2>8, <2>9, Zenon DEF t, Answers
<1> QED
  BY <1>5, <1>6, Zenon

-----------------------------------------------------------------------------
\* A scenario and its stream

(* What is there of a scenario.                                             *)
LEMMA ScenarioIs ==
  ASSUME NEW sc \in Scenarios
  PROVE  /\ sc.nonce \in Seq(Byte) /\ Len(sc.nonce) = 16
         /\ sc.response \in Responses /\ sc.frames \in Seq(ServerFrames)
<1>1. sc \in [nonce : [1..16 -> Byte], response : Responses, frames : Seq(ServerFrames)]
  BY WireAssumption, Zenon
<1>2. sc.nonce \in [1..16 -> Byte] /\ sc.response \in Responses /\ sc.frames \in Seq(ServerFrames)
  BY <1>1, Zenon
<1>3. 16 \in Nat
  OBVIOUS
<1> QED
  BY <1>2, <1>3, FunctionIsSeq, ZenonT(60)

\* k and a are what make_handshake computes from the random bytes.
KeyOf(k, a, nonce) == k = base64_encode(nonce) /\ a = base64_encode(Sha1(k))

(* The bytes that Sha1 stands for.                                          *)
LEMMA Sha1Is ==
  ASSUME NEW k, \A i \in 1..20 : k[i] \in Nat
  PROVE  Sha1(k) \in Seq(Byte) /\ Len(Sha1(k)) = 20
<1> DEFINE f == [i \in 1..20 |-> (13 * k[i] + 7 * i) % 256]
<1>1. \A i \in 1..20 : (13 * k[i] + 7 * i) % 256 \in Byte
  <2>1. \A x \in Nat, i \in 1..20 : 13 * x + 7 * i \in Nat
    OBVIOUS
  <2>2. \A z \in Nat : z % 256 \in Byte
    BY DEF Byte
  <2> QED
    BY <2>1, <2>2, Zenon
<1>2. f \in [1..20 -> Byte] /\ Sha1(k) = f
  BY <1>1, Zenon DEF Sha1
<1>3. 20 \in Nat
  OBVIOUS
<1> HIDE DEF f
<1> QED
  BY <1>2, <1>3, FunctionIsSeq, Zenon

(* The accept value is 28 characters of the alphabet.                       *)
LEMMA AcceptIsKey ==
  ASSUME NEW nonce \in Seq(Byte), Len(nonce) = 16, NEW k, NEW a, KeyOf(k, a, nonce)
  PROVE  IsKey(Chars(a)) /\ Encodes(k, nonce) /\ Encodes(a, Sha1(k))
<1>1. k = base64_encode(nonce) /\ a = base64_encode(Sha1(k))
  BY Zenon DEF KeyOf
<1>2. (Len(nonce) + 2) \div 3 = 6 /\ 6 \in Nat /\ 4 * 6 = 24
  OBVIOUS
<1>3. \A i \in 1..24 : k[i] \in 0..64
  BY <1>1, <1>2, CodeType, Zenon
<1>4. \A i \in 1..20 : k[i] \in Nat
  <2>1. \A i \in 1..20 : i \in 1..24
    OBVIOUS
  <2>2. \A x \in 0..64 : x \in Nat
    OBVIOUS
  <2> QED
    BY <1>3, <2>1, <2>2, Zenon
<1> DEFINE d == Sha1(k)
<1>5. d \in Seq(Byte) /\ Len(d) = 20
  BY <1>4, Sha1Is, Zenon
<1> HIDE DEF d
<1>6. (Len(d) + 2) \div 3 = 7 /\ 7 \in Nat /\ 4 * 7 = 28
  BY <1>5
<1>7. Len(a) = 28 /\ \A i \in 1..28 : a[i] \in 0..64
  <2>1. a = base64_encode(d)
    BY <1>1, Zenon DEF d
  <2> QED
    BY <1>5, <1>6, <2>1, CodeType, Zenon
<1>8. IsKey(Chars(a))
  <2> DEFINE f == [i \in 1..28 |-> a[i] + 64]
  <2>1. \A x \in 0..64 : x + 64 \in Plain /\ x + 64 >= 64
    BY DEF Plain, Byte, CR, LF
  <2>2. \A i \in 1..28 : a[i] + 64 \in Plain /\ a[i] + 64 >= 64
    BY <1>7, <2>1, Zenon
  <2>3. f \in [1..28 -> Plain] /\ Chars(a) = f /\ \A i \in 1..28 : f[i] >= 64
    BY <1>7, <2>2, Zenon DEF Chars
  <2>4. 28 \in Nat
    OBVIOUS
  <2> HIDE DEF f
  <2>5. f \in Seq(Plain) /\ Len(f) = 28
    <3>1. f \in [1..28 -> Plain]
      BY <2>3, Zenon
    <3> QED
      BY <3>1, <2>4, FunctionIsSeq, ZenonT(60)
  <2> QED
    BY <2>3, <2>5, Zenon DEF IsKey
<1> QED
  BY <1>1, <1>5, <1>8, Base64Encodes, Zenon DEF d

(* What the server sends after its response: frame by frame.                *)
LEMMA FramesIs ==
  ASSUME NEW fs \in Seq(ServerFrames)
  PROVE  /\ Frames(fs) \in Seq(Byte)
         /\ fs = <<>> => Frames(fs) = <<>>
         /\ fs # <<>> => /\ fs[1] \in ServerFrames /\ Tail(fs) \in Seq(ServerFrames)
                         /\ Frames(fs) = Cat(Encoded(fs[1]), Frames(Tail(fs)))
<1> DEFINE n == Len(fs)
           ss == [i \in 1..n |-> Encoded(fs[i])]
<1>1. n \in Nat /\ \A i \in 1..n : fs[i] \in ServerFrames
  OBVIOUS
<1>2. \A i \in 1..n : Encoded(fs[i]) \in Seq(Byte)
  BY <1>1, EncodedIs, Zenon
<1>3. ss \in Seq(Seq(Byte)) /\ Len(ss) = n /\ \A i \in 1..n : ss[i] = Encoded(fs[i])
  <2>1. ss \in [1..n -> Seq(Byte)] /\ \A i \in 1..n : ss[i] = Encoded(fs[i])
    BY <1>2, Zenon
  <2> HIDE DEF ss
  <2> QED
    BY <1>1, <2>1, FunctionIsSeq, Zenon
<1>4. Frames(fs) = Flatten(ss)
  BY Zenon DEF Frames
<1> HIDE DEF ss
<1>5. Frames(fs) \in Seq(Byte)
  BY <1>3, <1>4, FlattenType, Zenon
<1>6. CASE fs = <<>>
  <2>1. Len(ss) = 0
    BY <1>3, <1>6
  <2>2. ss = <<>>
    BY <1>3, <2>1, EmptySeq
  <2> QED
    BY <1>4, <1>5, <1>6, <2>2, FlattenEmpty, Zenon
<1>7. CASE fs # <<>>
  <2>1. /\ n # 0 /\ 1 \in 1..n /\ Tail(fs) \in Seq(ServerFrames) /\ Len(Tail(fs)) = n - 1
        /\ \A i \in 1..n - 1 : Tail(fs)[i] = fs[i + 1] /\ i + 1 \in 1..n
    BY <1>1, <1>7
  <2>2. ss # <<>> /\ Tail(ss) \in Seq(Seq(Byte)) /\ Len(Tail(ss)) = n - 1
        /\ \A i \in 1..n - 1 : Tail(ss)[i] = ss[i + 1]
    <3> DEFINE T == Seq(Byte)
    <3>1. ss \in Seq(T) /\ Len(ss) = n /\ n \in Nat /\ n # 0
      BY <1>1, <1>3, <2>1, Zenon
    <3>2. Seq(Seq(Byte)) = Seq(T)
      OBVIOUS
    <3> HIDE DEF T, n
    <3>3. ss # <<>> /\ Tail(ss) \in Seq(T) /\ Len(Tail(ss)) = n - 1
          /\ \A i \in 1..n - 1 : Tail(ss)[i] = ss[i + 1]
      BY <3>1
    <3> QED
      BY <3>2, <3>3, Zenon
  <2>3. Tail(ss) = [i \in 1..n - 1 |-> Encoded(Tail(fs)[i])]
    <3> DEFINE T == Seq(Byte)
               t == Tail(ss)
               m == n - 1
    <3>1. t \in Seq(T) /\ Len(t) = m
      BY <2>2, Zenon
    <3>2. \A i \in 1..m : t[i] = Encoded(Tail(fs)[i])
      BY <1>3, <2>1, <2>2, Zenon
    <3> HIDE DEF T, t, m
    <3>3. t = [i \in 1..m |-> t[i]]
      BY <3>1
    <3>4. t = [i \in 1..m |-> Encoded(Tail(fs)[i])]
      BY <3>2, <3>3, Zenon
    <3> QED
      BY <3>4, Zenon DEF t, m
  <2>4. Frames(Tail(fs)) = Flatten(Tail(ss))
    BY <2>1, <2>3, Zenon DEF Frames
  <2>5. Flatten(ss) = Cat(ss[1], Flatten(Tail(ss)))
    BY <1>3, <2>2, FlattenFirst, Zenon
  <2> QED
    BY <1>1, <1>3, <1>4, <1>5, <1>7, <2>1, <2>4, <2>5, Zenon
<1> QED
  BY <1>6, <1>7, Zenon

(* They are bytes.                                                          *)
LEMMA FramesType ==
  ASSUME NEW fs \in Seq(ServerFrames)
  PROVE  Frames(fs) \in Seq(Byte)
BY FramesIs

\* The frames of the server that are not parsed yet, when n are
LeftOf(fs, n) == Part(fs, n + 1, Len(fs))

(* The first of them, and those behind it.                                   *)
LEMMA LeftIs ==
  ASSUME NEW fs \in Seq(ServerFrames), NEW n \in 0..Len(fs)
  PROVE  /\ LeftOf(fs, n) \in Seq(ServerFrames)
         /\ LeftOf(fs, n) # <<>> => /\ n + 1 \in 0..Len(fs) /\ LeftOf(fs, n)[1] = fs[n + 1]
                                    /\ Tail(LeftOf(fs, n)) = LeftOf(fs, n + 1)
<1> DEFINE l == Len(fs)
           s == LeftOf(fs, n)
           t == LeftOf(fs, n + 1)
<1>1. l \in Nat /\ l \in 0..l /\ n \in 0..l
  OBVIOUS
<1>2. /\ s \in Seq(ServerFrames) /\ Len(s) = l - n
      /\ \A i \in 1..l - n : s[i] = fs[n + i]
  BY <1>1, PartOfSeq, Zenon DEF LeftOf
<1>3. ASSUME n + 1 \in 0..l
      PROVE  /\ t \in Seq(ServerFrames) /\ Len(t) = l - (n + 1)
             /\ \A i \in 1..l - (n + 1) : t[i] = fs[(n + 1) + i]
  BY <1>1, <1>3, PartOfSeq, Zenon DEF LeftOf
<1> HIDE DEF l, s, t
<1>4. ASSUME s # <<>> PROVE n + 1 \in 0..l /\ s[1] = fs[n + 1] /\ Tail(s) = t
  <2>1. Len(s) # 0
    BY <1>2, <1>4, EmptySeq, Zenon
  <2>2. n + 1 \in 0..l /\ 1 \in 1..l - n
    BY <1>1, <1>2, <2>1
  <2>3. /\ Tail(s) \in Seq(ServerFrames) /\ Len(Tail(s)) = (l - n) - 1
        /\ \A i \in 1..(l - n) - 1 : Tail(s)[i] = s[i + 1]
    BY <1>2, <1>4
  <2>4. (l - n) - 1 = l - (n + 1)
    BY <1>1
  <2>5. ASSUME NEW i \in 1..l - (n + 1) PROVE Tail(s)[i] = t[i]
    <3>1. i + 1 \in 1..l - n /\ n + (i + 1) = (n + 1) + i
      BY <1>1
    <3>2. Tail(s)[i] = s[i + 1] /\ s[i + 1] = fs[n + (i + 1)] /\ t[i] = fs[(n + 1) + i]
      BY <1>2, <1>3, <2>2, <2>3, <2>4, <3>1, Zenon
    <3> QED
      BY <3>1, <3>2, Zenon
  <2>6. Tail(s) = t
    <3>1. t \in Seq(ServerFrames) /\ Len(t) = l - (n + 1)
      BY <1>3, <2>2, Zenon
    <3>2. Tail(s) \in Seq(ServerFrames) /\ Len(Tail(s)) = l - (n + 1)
      BY <2>3, <2>4, Zenon
    <3> QED
      BY <2>5, <3>1, <3>2, SeqEqual, Zenon
  <2> QED
    BY <1>2, <2>2, <2>6, Zenon
<1> QED
  BY <1>2, <1>4, Zenon DEF l, s, t

\* The server's stream in a life of the connection
LifeOf(sc, k, a, t) ==
  KeyOf(k, a, sc.nonce) /\ t = Cat(Text(sc.response, Chars(a)), Frames(sc.frames))

\* Of the stream t, n bytes have arrived and u of them, c, are unread.
StreamOf(t, n, c, u) ==
  t \in Seq(Byte) /\ n \in 0..Len(t) /\ u \in 0..n /\ IsPart(c, t, n - u, n)

(* The stream is the text of a response and frames, both of bytes.           *)
LEMMA LifeIs ==
  ASSUME NEW sc \in Scenarios, NEW k, NEW a, NEW t, LifeOf(sc, k, a, t)
  PROVE  /\ IsKey(Chars(a)) /\ Encodes(k, sc.nonce) /\ Encodes(a, Sha1(k))
         /\ Text(sc.response, Chars(a)) \in Seq(Byte) /\ Frames(sc.frames) \in Seq(Byte)
         /\ t \in Seq(Byte) /\ t = Cat(Text(sc.response, Chars(a)), Frames(sc.frames))
<1> DEFINE r == sc.response
           v == Chars(a)
<1>1. /\ sc.nonce \in Seq(Byte) /\ Len(sc.nonce) = 16
      /\ r \in Responses /\ sc.frames \in Seq(ServerFrames)
  BY ScenarioIs, Zenon
<1>2. IsKey(v) /\ Encodes(k, sc.nonce) /\ Encodes(a, Sha1(k))
  <2> DEFINE o == sc.nonce
  <2>1. KeyOf(k, a, o) /\ o \in Seq(Byte) /\ Len(o) = 16
    BY <1>1, Zenon DEF LifeOf
  <2> HIDE DEF o
  <2>2. IsKey(Chars(a)) /\ Encodes(k, o) /\ Encodes(a, Sha1(k))
    BY <2>1, AcceptIsKey
  <2> QED
    BY <2>2, Zenon DEF o
<1>3. Frames(sc.frames) \in Seq(Byte)
  BY <1>1, FramesType, Zenon
<1>4. Text(r, v) \in Seq(Byte)
  <2>1. PICK ls : LinesOf(r, v, ls) /\ Text(r, v) = Lines(ls)
    BY <1>1, <1>2, TextIs, Zenon DEF IsKey
  <2>2. ls \in Seq(Seq(Plain)) /\ IsLines(ls)
    BY <2>1, Zenon DEF LinesOf
  <2> QED
    BY <2>1, <2>2, LinesIs, Zenon
<1>5. t = Cat(Text(r, v), Frames(sc.frames))
  BY Zenon DEF LifeOf
<1> HIDE DEF r, v
<1>6. t \in Seq(Byte)
  BY <1>3, <1>4, <1>5, CatBytes, Zenon
<1> QED
  BY <1>2, <1>3, <1>4, <1>5, <1>6, Zenon DEF r, v

\* What on_data finds at the front of the buffer: the response of the scenario
ResponseTaken(sc, t, r) ==
  /\ r.status \in {"ok", "error", "beyond"}
  /\ r.status = "ok" <=> Valid(sc.response)
  /\ r.consumed <= Len(t) /\ IsPart(Frames(sc.frames), t, r.consumed, Len(t))

(* on_data() takes the response once it is there, and leaves the frames.     *)
LEMMA TakesResponse ==
  ASSUME NEW sc \in Scenarios, NEW k, NEW a, NEW t, LifeOf(sc, k, a, t),
         NEW n, NEW c, StreamOf(t, n, c, n),
         read_handshake(Chars(a), c).consumed > 0
  PROVE  /\ read_handshake(Chars(a), c).consumed \in 0..n
         /\ ResponseTaken(sc, t, read_handshake(Chars(a), c))
<1> DEFINE v == Chars(a)
           e == Text(sc.response, v)
           fs == Frames(sc.frames)
           l == Len(t)
           r == read_handshake(v, c)
<1>1. /\ IsKey(v) /\ e \in Seq(Byte) /\ fs \in Seq(Byte) /\ t \in Seq(Byte) /\ t = Cat(e, fs)
      /\ sc.response \in Responses
  BY LifeIs, ScenarioIs, Zenon
<1>2. n \in 0..l /\ IsPart(c, t, n - n, n)
  BY Zenon DEF StreamOf
<1> HIDE DEF v, e, fs
<1>3. n \in Nat /\ l \in Nat /\ 0 \in Nat /\ n - n = 0 /\ 0 <= n /\ n <= l
  BY <1>1, <1>2
<1>4. IsPart(t, t, 0, l)
  <2>1. l - 0 = l /\ \A i \in 1..l : 0 + i = i
    BY <1>3
  <2> HIDE DEF l
  <2>2. t \in Seq(Bytes) /\ Len(t) = l - 0
    BY <1>1, <2>1, BytesAre, Zenon DEF l
  <2>3. \A i \in 1..l - 0 : t[i] = t[0 + i]
    BY <2>1, Zenon
  <2> QED
    BY <2>2, <2>3, Zenon DEF IsPart
<1>5. IsPart(c, t, 0, n) /\ IsPart(Cat(e, fs), t, 0, l)
  BY <1>1, <1>2, <1>3, <1>4, Zenon
<1> HIDE DEF l
<1>6. StartsLike(c, e) /\ 0 + Len(e) <= l /\ IsPart(fs, t, 0 + Len(e), l)
  BY <1>1, <1>3, <1>5, PartSplits
<1>7. c \in Seq(Byte) /\ Len(c) = n - 0
  BY <1>5, BytesAre, Zenon DEF IsPart
<1>8. Len(e) \in Nat /\ 0 + Len(e) = Len(e) /\ n - 0 = n
  BY <1>1, <1>3
<1>9. IF Len(c) < Len(e) THEN Answers(r, TRUE, 0) ELSE Answers(r, Valid(sc.response), Len(e))
  BY <1>1, <1>6, <1>7, ReadsResponse, Zenon DEF e
<1>10. r.consumed > 0
  BY Zenon DEF v
<1> HIDE DEF r
<1>11. Answers(r, Valid(sc.response), Len(e)) /\ ~(Len(c) < Len(e))
  <2>1. ~(0 > 0)
    OBVIOUS
  <2>2. ~Answers(r, TRUE, 0)
    BY <1>10, <2>1, Zenon DEF Answers
  <2> QED
    BY <1>9, <2>2, Zenon
<1>12. /\ r.consumed = Len(e) /\ r.status \in {"ok", "error", "beyond"}
       /\ r.status = "ok" <=> Valid(sc.response)
  BY <1>11, Zenon DEF Answers
<1>13. Len(e) \in 0..n
  BY <1>3, <1>7, <1>8, <1>11
<1>14. ResponseTaken(sc, t, r)
  BY <1>6, <1>8, <1>12, Zenon DEF ResponseTaken, l, fs
<1> QED
  BY <1>12, <1>13, <1>14, Zenon DEF r, v

=============================================================================
