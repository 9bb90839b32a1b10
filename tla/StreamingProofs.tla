-------------------------- MODULE StreamingProofs --------------------------
(* Proofs about Streaming, for sources of any length, chunks of any size   *)
(* and any number of calls on one file.                                    *)
EXTENDS Streaming, SequenceTheorems, WellFoundedInduction, TLAPS

(* Arithmetic and induction.                                               *)

\* Induction over the natural numbers, for a set of them.
LEMMA SetInduction ==
  ASSUME NEW S \in SUBSET Nat, 0 \in S, \A n \in S : n + 1 \in S
  PROVE  S = Nat
<1> DEFINE T == Nat \ S
<1> SUFFICES ASSUME T # {} PROVE FALSE
  OBVIOUS
<1>1. PICK R : R = OpToRel(<, Nat) /\ IsWellFoundedOn(R, Nat)
  BY NatLessThanWellFounded
<1>2. PICK m \in T : \A n \in T : ~(<<n, m>> \in R)
  BY <1>1, WFMin
<1>3. R = {ss \in Nat \X Nat : ss[1] < ss[2]}
  BY <1>1 DEF OpToRel
<1>4. m \in Nat /\ m # 0 /\ m - 1 \in Nat
  OBVIOUS
<1>5. <<m - 1, m>> \in R
  BY <1>3, <1>4
<1>6. m - 1 \in S
  BY <1>2, <1>4, <1>5
<1> QED BY <1>4, <1>6

LEMMA Division ==
  ASSUME NEW a \in Nat, NEW b \in Nat \ {0}
  PROVE  a \div b \in Nat /\ b * (a \div b) <= a /\ a < b * (a \div b) + b
  OBVIOUS

LEMMA Products ==
  ASSUME NEW i \in Nat, NEW j \in Nat, NEW c \in Nat \ {0}
  PROVE  /\ i * c \in Nat /\ (i + 1) * c = i * c + c
         /\ i <= j => i * c <= j * c
         /\ i < j => i * c + c <= j * c
         /\ i * c = j * c => i = j
<1>1. i * c \in Nat /\ (i + 1) * c = i * c + c
  OBVIOUS
<1>2. i <= j => i * c <= j * c
  OBVIOUS
<1>3. i < j => i * c + c <= j * c
  OBVIOUS
<1>4. j < i => j * c + c <= i * c
  OBVIOUS
<1> QED BY <1>1, <1>2, <1>3, <1>4

LEMMA Product ==
  ASSUME NEW i \in Nat, NEW c \in Nat \ {0}
  PROVE  i * c \in Nat /\ (i + 1) * c = i * c + c
  OBVIOUS

\* What SubSeq takes from the middle of a sequence.
LEMMA Piece ==
  ASSUME NEW S, NEW s \in Seq(S), NEW a \in Nat, NEW b \in Nat, a <= b, b <= Len(s)
  PROVE  SubSeq(s, a + 1, b) = [j \in 1..b - a |-> s[a + j]]
<1> DEFINE t == SubSeq(s, a + 1, b)
<1>1. t \in Seq(S) /\ Len(t) = b - a /\ \A j \in 1..b - a : t[j] = s[a + j]
  OBVIOUS
<1>2. DOMAIN t = 1..b - a /\ t = [j \in DOMAIN t |-> t[j]]
  BY <1>1
<1> HIDE DEF t
<1>3. t = [j \in 1..b - a |-> s[a + j]]
  BY <1>1, <1>2
<1> QED BY <1>3 DEF t

\* u is s followed by t.
Joined(u, s, t) ==
  /\ Len(u) = Len(s) + Len(t)
  /\ \A p \in 1..Len(s) : u[p] = s[p]
  /\ \A k \in 1..Len(t) : u[Len(s) + k] = t[k]

LEMMA Concatenation ==
  ASSUME NEW S, NEW s \in Seq(S), NEW t \in Seq(S)
  PROVE  s \o t \in Seq(S) /\ Joined(s \o t, s, t)
  BY DEF Joined

\* g[i] is the first i parts of s joined, for i up to n.
Joins(g, s, n) == g = [i \in 1..n |-> IF i = 1 THEN s[i] ELSE g[i-1] \o s[i]]

JoinsUp(g, s, n) ==
  \A i \in 1..n : (i = 1 => g[i] = s[i]) /\ (i # 1 => g[i] = g[i-1] \o s[i])

LEMMA JoinsAt ==
  ASSUME NEW g, NEW s, NEW n, Joins(g, s, n)
  PROVE  JoinsUp(g, s, n)
<1> DEFINE v(i) == IF i = 1 THEN s[i] ELSE g[i-1] \o s[i]
<1>1. g = [i \in 1..n |-> v(i)]
  BY DEF Joins
<1> HIDE DEF v
<1>2. \A i \in 1..n : g[i] = v(i)
  BY <1>1, Zenon
<1> QED BY <1>2, Zenon DEF v, JoinsUp

LEMMA JoinsExists ==
  ASSUME NEW s, NEW m \in Nat
  PROVE  \E g : Joins(g, s, m)
<1> DEFINE N == {n \in Nat : \E g : Joins(g, s, n)}
<1>1. 0 \in N
  <2>1. Joins([i \in 1..0 |-> 0], s, 0)
    BY DEF Joins
  <2> QED BY <2>1
<1>2. ASSUME NEW n \in N PROVE n + 1 \in N
  <2>1. n \in Nat
    OBVIOUS
  <2>2. PICK g : Joins(g, s, n)
    OBVIOUS
  <2>g. JoinsUp(g, s, n)
    BY <2>2, JoinsAt, Zenon
  <2> DEFINE h == [i \in 1..n + 1 |->
                     IF i <= n THEN g[i] ELSE IF i = 1 THEN s[i] ELSE g[i-1] \o s[i]]
  <2>3. ASSUME NEW i \in 1..n + 1
        PROVE  h[i] = IF i = 1 THEN s[i] ELSE h[i-1] \o s[i]
    <3>1. CASE i = 1
      <4>1. CASE n = 0
        BY <3>1, <4>1
      <4>2. CASE n # 0
        <5>1. 1 \in 1..n
          BY <2>1, <4>2
        <5>2. g[1] = s[1]
          BY <2>g, <5>1, Zenon DEF JoinsUp
        <5> QED BY <2>1, <3>1, <5>1, <5>2
      <4> QED BY <4>1, <4>2
    <3>2. CASE i # 1
      <4>1. i - 1 \in 1..n + 1 /\ i - 1 <= n /\ h[i-1] = g[i-1]
        BY <2>1, <3>2
      <4>2. CASE i <= n
        <5>1. i \in 1..n
          BY <2>1, <4>2
        <5>2. g[i] = g[i-1] \o s[i]
          BY <2>g, <3>2, <5>1, Zenon DEF JoinsUp
        <5> QED BY <3>2, <4>1, <4>2, <5>2
      <4>3. CASE ~(i <= n)
        BY <3>2, <4>1, <4>3
      <4> QED BY <4>2, <4>3
    <3> QED BY <3>1, <3>2
  <2>4. h = [i \in 1..n + 1 |-> h[i]]
    OBVIOUS
  <2> HIDE DEF h
  <2>5. Joins(h, s, n + 1)
    BY <2>3, <2>4, Zenon DEF Joins
  <2>6. n + 1 \in Nat
    BY <2>1
  <2> QED BY <2>5, <2>6, Zenon
<1> HIDE DEF N
<1>3. N \in SUBSET Nat
  BY DEF N
<1>4. N = Nat
  BY <1>1, <1>2, <1>3, SetInduction
<1> QED BY <1>4, Zenon DEF N

\* FlattenSeq joins its parts one after the other.
LEMMA FlattenJoins ==
  ASSUME NEW S, NEW s \in Seq(Seq(S))
  PROVE  \E G : /\ G[0] = <<>> /\ G[Len(s)] = FlattenSeq(s)
                /\ \A n \in 1..Len(s) : G[n] = G[n-1] \o s[n]
<1>1. Len(s) \in Nat
  OBVIOUS
<1>2. CASE Len(s) = 0
  <2>1. FlattenSeq(s) = <<>>
    BY <1>2 DEF FlattenSeq
  <2> DEFINE G == [n \in {0} |-> <<>>]
  <2>2. G[0] = <<>>
    OBVIOUS
  <2>3. 1..Len(s) = {}
    BY <1>2
  <2> HIDE DEF G
  <2> QED BY <1>2, <2>1, <2>2, <2>3
<1>3. CASE Len(s) # 0
  <2>1. PICK h : Joins(h, s, Len(s))
    BY <1>1, JoinsExists
  <2>2. PICK g : Joins(g, s, Len(s)) /\ FlattenSeq(s) = g[Len(s)]
    BY <1>3, <2>1, Zenon DEF FlattenSeq, Joins
  <2>g. JoinsUp(g, s, Len(s))
    BY <2>2, JoinsAt, Zenon
  <2> DEFINE G == [n \in 0..Len(s) |-> IF n = 0 THEN <<>> ELSE g[n]]
  <2>3. G[0] = <<>> /\ G[Len(s)] = FlattenSeq(s)
    BY <1>1, <1>3, <2>2
  <2>4. ASSUME NEW k \in 1..Len(s) PROVE G[k] = G[k-1] \o s[k]
    <3>1. k \in Nat \ {0} /\ G[k] = g[k] /\ s[k] \in Seq(S)
      BY <1>1
    <3>2. CASE k = 1
      <4>1. g[k] = s[k]
        BY <2>g, <3>2, Zenon DEF JoinsUp
      <4>2. G[k-1] = <<>>
        BY <2>3, <3>2
      <4> HIDE DEF G
      <4> QED BY <3>1, <4>1, <4>2, ConcatEmptySeq
    <3>3. CASE k # 1
      <4>1. g[k] = g[k-1] \o s[k]
        BY <2>g, <3>3, Zenon DEF JoinsUp
      <4>2. G[k-1] = g[k-1]
        BY <1>1, <3>1, <3>3
      <4> HIDE DEF G
      <4> QED BY <3>1, <4>1, <4>2
    <3> QED BY <3>2, <3>3
  <2> HIDE DEF G
  <2> QED BY <2>3, <2>4, Zenon
<1> QED BY <1>2, <1>3

-----------------------------------------------------------------------------
(* The chunks of a source.                                                 *)

\* The cells of a full chunk.
Stride == ChunkSize + Overhead

\* The first n units of the source of e.
Text(e, n) == [i \in 1..n |-> <<e, i>>]

LEMMA Sizes ==
  /\ ChunkSize \in Nat \ {0} /\ MaxChunks \in Nat \ {0} /\ Stride \in Nat \ {0}
  /\ Stride = ChunkSize + 1 /\ MaxChunks < Stride
  BY SizesAssumption DEF Stride, Overhead

\* The number of chunks: all but the last are full, and none is empty.
LEMMA CountBounds ==
  ASSUME NEW e, enc[e].len \in Nat
  PROVE  LET n == enc[e].len
             c == ChunkCount(e)
         IN  /\ c \in Nat /\ (n = 0 <=> c = 0) /\ n <= c * ChunkSize
             /\ \A i \in 1..c : (i - 1) * ChunkSize < n
             /\ \A i \in 1..c : i < c => i * ChunkSize < n
<1> DEFINE n == enc[e].len
           c == ChunkCount(e)
<1> USE Sizes
<1>1. c \in Nat /\ ChunkSize * c <= n + ChunkSize - 1
      /\ n + ChunkSize - 1 < ChunkSize * c + ChunkSize
  <2>1. n + ChunkSize - 1 \in Nat
    OBVIOUS
  <2> QED BY <2>1, Division DEF ChunkCount
<1> HIDE DEF c
<1>2. c * ChunkSize \in Nat /\ c * ChunkSize = ChunkSize * c
  BY <1>1
<1>3. n <= c * ChunkSize
  BY <1>1, <1>2
<1>4. \A i \in 1..c : (i - 1) * ChunkSize < n
  <2> TAKE i \in 1..c
  <2>1. i - 1 \in Nat /\ i - 1 < c
    BY <1>1
  <2>2. (i - 1) * ChunkSize + ChunkSize <= c * ChunkSize
    BY <1>1, <2>1, Products
  <2>3. (i - 1) * ChunkSize \in Nat
    BY <2>1, Products
  <2> QED BY <1>1, <1>2, <2>2, <2>3
<1>5. \A i \in 1..c : i < c => i * ChunkSize < n
  <2> TAKE i \in 1..c
  <2> SUFFICES ASSUME i < c PROVE i * ChunkSize < n
    OBVIOUS
  <2>1. i + 1 \in 1..c /\ i = (i + 1) - 1
    BY <1>1
  <2> QED BY <1>4, <2>1
<1>6. n = 0 => c = 0
  BY <1>1, <1>4
<1>7. c = 0 => n = 0
  BY <1>3
<1> QED BY <1>1, <1>3, <1>4, <1>5, <1>6, <1>7 DEF c

\* The i-th chunk.
LEMMA ChunkIs ==
  ASSUME NEW e, enc[e].len \in Nat, NEW i \in 1..ChunkCount(e)
  PROVE  LET m == Len(Chunk(e, i)) IN
           /\ i \in Nat \ {0} /\ (i - 1) * ChunkSize \in Nat
           /\ m \in 1..ChunkSize /\ (i < ChunkCount(e) => m = ChunkSize)
           /\ (i - 1) * ChunkSize + m = Least(i * ChunkSize, enc[e].len)
           /\ Chunk(e, i) = [j \in 1..m |-> <<e, (i - 1) * ChunkSize + j>>]
<1> DEFINE a == (i - 1) * ChunkSize
           b == Least(i * ChunkSize, enc[e].len)
<1>1. i \in Nat \ {0} /\ i - 1 \in Nat /\ ChunkCount(e) \in Nat
  BY CountBounds
<1>2. a \in Nat /\ i * ChunkSize = a + ChunkSize
  <2>1. (i - 1) + 1 = i
    BY <1>1
  <2> QED BY <1>1, <2>1, Products, Sizes
<1>3. a < enc[e].len /\ (i < ChunkCount(e) => a + ChunkSize < enc[e].len)
  BY <1>2, CountBounds
<1> HIDE DEF a
<1>4. b \in Nat /\ a < b /\ b <= a + ChunkSize /\ b <= enc[e].len
      /\ (i < ChunkCount(e) => b = a + ChunkSize)
  BY <1>2, <1>3, Sizes DEF Least
<1> HIDE DEF b
<1>5. Chunk(e, i) = SubSeq(Source(e), a + 1, b)
  BY DEF Chunk, a, b
<1>6. Source(e) \in Seq({<<e, k>> : k \in Nat}) /\ Len(Source(e)) = enc[e].len
      /\ \A k \in 1..enc[e].len : Source(e)[k] = <<e, k>>
  BY DEF Source
<1>7. Chunk(e, i) = [j \in 1..b - a |-> <<e, a + j>>]
  <2>1. Chunk(e, i) = [j \in 1..b - a |-> Source(e)[a + j]]
    BY <1>2, <1>4, <1>5, <1>6, Piece
  <2>2. \A j \in 1..b - a : Source(e)[a + j] = <<e, a + j>>
    BY <1>2, <1>4, <1>6
  <2> QED BY <2>1, <2>2
<1>8. Len(Chunk(e, i)) = b - a
  BY <1>2, <1>4, <1>7
<1> QED BY <1>1, <1>2, <1>4, <1>7, <1>8, Sizes DEF a, b

-----------------------------------------------------------------------------
(* What an encryption writes.                                              *)

Cell == {V1Magic, V2Magic, Zero} \cup {Num(n) : n \in Nat}
        \cup {SealedCell(e, i, k) : e \in Makers, i \in Nat, k \in Nat}

\* A sealed chunk.
LEMMA SealIs ==
  ASSUME NEW e \in Makers, enc[e].len \in Nat, NEW i \in 1..ChunkCount(e)
  PROVE  LET m == Len(Chunk(e, i)) + 1 IN
           /\ Chunks(e)[i] = Seal(e, i, Chunk(e, i))
           /\ Seal(e, i, Chunk(e, i)) \in Seq(Cell) /\ Len(Seal(e, i, Chunk(e, i))) = m
           /\ m \in Nat \ {0}
           /\ \A k \in 1..m : Seal(e, i, Chunk(e, i))[k] = SealedCell(e, i, k)
<1> DEFINE m == Len(Chunk(e, i)) + 1
<1>1. m \in Nat \ {0} /\ i \in Nat
  BY ChunkIs, Sizes
<1>2. Chunks(e)[i] = Seal(e, i, Chunk(e, i))
  BY DEF Chunks
<1> HIDE DEF m
<1>3. Seal(e, i, Chunk(e, i)) = [k \in 1..m |-> SealedCell(e, i, k)]
  BY DEF Seal, Overhead, m
<1>4. \A k \in 1..m : SealedCell(e, i, k) \in Cell
  BY <1>1 DEF Cell
<1>5. /\ Seal(e, i, Chunk(e, i)) \in Seq(Cell) /\ Len(Seal(e, i, Chunk(e, i))) = m
      /\ \A k \in 1..m : Seal(e, i, Chunk(e, i))[k] = SealedCell(e, i, k)
  BY <1>1, <1>3, <1>4
<1> QED BY <1>1, <1>2, <1>5 DEF m

\* Cell number p of the data is cell number k of chunk i, ...
At(e, i, k, p) ==
  i \in 1..ChunkCount(e) /\ k \in 1..Len(Chunk(e, i)) + 1 /\ p = (i - 1) * Stride + k

\* ... and the cells d are those of the first n chunks.
Holds(e, d, n) ==
  /\ d \in Seq(Cell) /\ Len(d) = Least(n * ChunkSize, enc[e].len) + n
  /\ \A i \in 1..n : \A k, p \in Nat : At(e, i, k, p) =>
       p \in 1..Len(d) /\ d[p] = SealedCell(e, i, k)
  /\ \A p \in 1..Len(d) : \E i \in 1..n, k \in Nat :
       At(e, i, k, p) /\ d[p] = SealedCell(e, i, k)

LEMMA DataCells ==
  ASSUME NEW e \in Makers, enc[e].len \in Nat
  PROVE  Holds(e, FlattenSeq(Chunks(e)), ChunkCount(e))
<1> DEFINE c == ChunkCount(e)
<1>1. c \in Nat
  BY CountBounds
<1>2. Chunks(e) \in Seq(Seq(Cell)) /\ Len(Chunks(e)) = c
  <2>1. \A i \in 1..c : Seal(e, i, Chunk(e, i)) \in Seq(Cell)
    BY SealIs
  <2> QED BY <1>1, <2>1 DEF Chunks
<1>3. PICK G : /\ G[0] = <<>> /\ G[c] = FlattenSeq(Chunks(e))
               /\ \A n \in 1..c : G[n] = G[n-1] \o Chunks(e)[n]
  BY <1>2, FlattenJoins
<1> DEFINE N == {n \in Nat : n <= c => Holds(e, G[n], n)}
<1>4. 0 \in N
  <2>1. Least(0 * ChunkSize, enc[e].len) = 0
    BY Sizes DEF Least
  <2>2. <<>> \in Seq(Cell) /\ Len(<<>>) = 0
    OBVIOUS
  <2>3. Holds(e, <<>>, 0)
    BY <2>1, <2>2 DEF Holds
  <2> QED BY <1>3, <2>3
<1>5. ASSUME NEW m \in N PROVE m + 1 \in N
  <2> SUFFICES ASSUME m + 1 <= c PROVE Holds(e, G[m + 1], m + 1)
    OBVIOUS
  <2>1. m \in Nat /\ m < c /\ m + 1 \in 1..c /\ m + 1 - 1 = m
    BY <1>1
  <2> DEFINE n == m + 1
             t == Seal(e, n, Chunk(e, n))
             q == Len(Chunk(e, n)) + 1
  <2>2. Holds(e, G[m], m) /\ G[n] = G[m] \o t
    <3>1. Chunks(e)[n] = t
      BY <2>1, SealIs
    <3>2. G[n] = G[n-1] \o Chunks(e)[n]
      BY <1>3, <2>1
    <3>3. Holds(e, G[m], m)
      <4>1. m <= c
        BY <1>1, <2>1
      <4> QED BY <4>1, Zenon
    <3>4. n - 1 = m
      BY <2>1
    <3> HIDE DEF n
    <3> QED BY <3>1, <3>2, <3>3, <3>4, Zenon
  <2>3. t \in Seq(Cell) /\ Len(t) = q /\ q \in Nat \ {0}
        /\ \A k \in 1..q : t[k] = SealedCell(e, n, k)
    BY <2>1, SealIs
  <2>4. m * ChunkSize + Len(Chunk(e, n)) = Least(n * ChunkSize, enc[e].len)
        /\ m * ChunkSize \in Nat /\ Len(Chunk(e, n)) \in Nat
    BY <2>1, ChunkIs
  <2>5. Len(G[m]) = m * Stride /\ m * Stride \in Nat /\ G[m] \in Seq(Cell)
    <3>1. Least(m * ChunkSize, enc[e].len) = m * ChunkSize
      <4>1. m * ChunkSize < enc[e].len
        BY <2>1, CountBounds
      <4> QED BY <2>4, <4>1 DEF Least
    <3>2. m * Stride = m * ChunkSize + m
      BY <2>1, Sizes
    <3> QED BY <2>1, <2>2, <2>4, <3>1, <3>2 DEF Holds
  <2> HIDE DEF n, t, q
  <2>n. n \in Nat /\ n = m + 1 /\ n - 1 = m
    BY <2>1 DEF n
  <2> DEFINE a == m * Stride
  <2>a. a \in Nat /\ Len(G[m]) = a
    BY <2>5
  <2> HIDE DEF a
  <2>6. /\ G[n] \in Seq(Cell) /\ Len(G[n]) = a + q
        /\ \A p \in 1..a : G[n][p] = G[m][p]
        /\ \A k \in 1..q : G[n][a + k] = SealedCell(e, n, k)
    <3>1. G[n] \in Seq(Cell) /\ Joined(G[n], G[m], t)
      BY <2>2, <2>3, <2>5, Concatenation
    <3> QED BY <2>3, <2>a, <3>1 DEF Joined
  <2>7. Len(G[n]) = Least(n * ChunkSize, enc[e].len) + n
    <3>1. a = m * ChunkSize + m
      BY <2>1, Sizes DEF a
    <3>2. q = Len(Chunk(e, n)) + 1 /\ m * ChunkSize + Len(Chunk(e, n)) = Least(n * ChunkSize, enc[e].len)
      BY <2>4 DEF q, n
    <3> QED BY <2>1, <2>4, <2>6, <2>n, <3>1, <3>2 DEF n
  <2>8. ASSUME NEW i \in 1..n, NEW k \in Nat, NEW p \in Nat, At(e, i, k, p)
        PROVE  p \in 1..Len(G[n]) /\ G[n][p] = SealedCell(e, i, k)
    <3>1. CASE i = n
      <4>1. k \in 1..q /\ p = a + k
        BY <2>8, <2>n, <3>1 DEF At, q, a
      <4> QED BY <2>3, <2>a, <2>6, <3>1, <4>1
    <3>2. CASE i # n
      <4>1. i \in 1..m
        BY <2>n, <2>1, <3>2
      <4>2. p \in 1..Len(G[m]) /\ G[m][p] = SealedCell(e, i, k)
        BY <2>2, <2>8, <4>1 DEF Holds
      <4> QED BY <2>3, <2>a, <2>6, <4>2
    <3> QED BY <3>1, <3>2
  <2>9. ASSUME NEW p \in 1..Len(G[n])
        PROVE  \E i \in 1..n, k \in Nat : At(e, i, k, p) /\ G[n][p] = SealedCell(e, i, k)
    <3>1. CASE p <= a
      <4>1. PICK i \in 1..m, k \in Nat : At(e, i, k, p) /\ G[m][p] = SealedCell(e, i, k)
        BY <2>2, <2>a, <3>1 DEF Holds
      <4>2. i \in 1..n /\ G[n][p] = SealedCell(e, i, k)
        BY <2>1, <2>a, <2>6, <2>n, <3>1, <4>1
      <4> QED BY <4>1, <4>2
    <3>2. CASE ~(p <= a)
      <4> DEFINE k == p - a
      <4>1. k \in 1..q /\ p = a + k /\ k \in Nat
        BY <2>3, <2>a, <2>6, <3>2
      <4>2. At(e, n, k, p)
        BY <2>1, <2>n, <4>1 DEF At, q, a
      <4>3. G[n][p] = SealedCell(e, n, k)
        BY <2>6, <4>1
      <4>4. n \in 1..n
        BY <2>n, <2>1
      <4> HIDE DEF k
      <4> QED BY <4>1, <4>2, <4>3, <4>4
    <3> QED BY <3>1, <3>2
  <2>10. Holds(e, G[n], n)
    BY <2>6, <2>7, <2>8, <2>9 DEF Holds
  <2> QED BY <2>10 DEF n
<1> HIDE DEF N
<1>6. N = Nat
  <2>1. N \in SUBSET Nat
    BY DEF N
  <2> QED BY <1>4, <1>5, <2>1, SetInduction
<1> QED BY <1>1, <1>3, <1>6 DEF N

\* Where the cells of chunk i of e are in a file.
Place(e, i, k) == 2 + ChunkCount(e) + (i - 1) * Stride + k

\* The layout: the magic, the count, the sizes, and the cells of each chunk at
\* their places and nowhere else.
LayOut(e, f) ==
  /\ Len(f) = 2 + ChunkCount(e) + enc[e].len + ChunkCount(e)
  /\ f[1] = V2Magic /\ f[2] = Num(ChunkCount(e))
  /\ \A i \in 1..ChunkCount(e) : f[2 + i] = Num(Len(Chunk(e, i)) + 1)
  /\ \A i \in 1..ChunkCount(e) : \A k \in 1..Len(Chunk(e, i)) + 1 :
       Place(e, i, k) \in 1..Len(f) /\ f[Place(e, i, k)] = SealedCell(e, i, k)
  /\ \A p \in 1..Len(f) : f[p][1] = "sealed" =>
       \E i \in 1..ChunkCount(e) : \E k \in 1..Len(Chunk(e, i)) + 1 :
         p = Place(e, i, k) /\ f[p] = SealedCell(e, i, k)

LEMMA OutputCells ==
  ASSUME NEW e \in Makers, enc[e].len \in Nat
  PROVE  Output(e) \in Seq(Cell) /\ LayOut(e, Output(e))
<1> DEFINE c == ChunkCount(e)
           head == <<V2Magic, Num(c)>>
           sizes == [i \in 1..c |-> Num(Len(Chunks(e)[i]))]
           data == FlattenSeq(Chunks(e))
           top == head \o sizes
<1>1. c \in Nat /\ Least(c * ChunkSize, enc[e].len) = enc[e].len
  <2>1. c \in Nat /\ enc[e].len <= c * ChunkSize
    BY CountBounds
  <2>2. c * ChunkSize \in Nat
    BY <2>1, Products, Sizes
  <2> QED BY <2>1, <2>2 DEF Least
<1>2. Output(e) = top \o data
  BY DEF Output
<1>3. data \in Seq(Cell) /\ Len(data) = enc[e].len + c /\ Holds(e, data, c)
  <2>1. Holds(e, data, c)
    BY DataCells
  <2> QED BY <1>1, <2>1 DEF Holds
<1>4. head \in Seq(Cell) /\ Len(head) = 2 /\ head[1] = V2Magic /\ head[2] = Num(c)
  <2>1. V2Magic \in Cell /\ Num(c) \in Cell
    BY <1>1 DEF Cell
  <2> QED BY <2>1
<1>5. sizes \in Seq(Cell) /\ Len(sizes) = c
      /\ \A i \in 1..c : sizes[i] = Num(Len(Chunk(e, i)) + 1)
  <2>1. \A i \in 1..c : Len(Chunks(e)[i]) = Len(Chunk(e, i)) + 1 /\ Len(Chunks(e)[i]) \in Nat
    BY SealIs
  <2>2. \A i \in 1..c : Num(Len(Chunks(e)[i])) \in Cell
    BY <2>1 DEF Cell
  <2> QED BY <1>1, <2>1, <2>2
<1> HIDE DEF head, sizes, data, top, c
<1>6. top \in Seq(Cell) /\ Joined(top, head, sizes)
  BY <1>4, <1>5, Concatenation DEF top
<1>7. Output(e) \in Seq(Cell) /\ Joined(Output(e), top, data)
  BY <1>2, <1>3, <1>6, Concatenation
<1>8. Len(top) = 2 + c /\ top[1] = V2Magic /\ top[2] = Num(c)
      /\ \A i \in 1..c : top[2 + i] = Num(Len(Chunk(e, i)) + 1)
  BY <1>1, <1>4, <1>5, <1>6 DEF Joined
<1> DEFINE f == Output(e)
<1> HIDE DEF f
<1>9. /\ f \in Seq(Cell) /\ Len(f) = 2 + c + enc[e].len + c
      /\ \A p \in 1..2 + c : f[p] = top[p]
      /\ \A p \in 1..enc[e].len + c : f[2 + c + p] = data[p]
  BY <1>1, <1>3, <1>7, <1>8 DEF Joined, f
<1>10. f[1] = V2Magic /\ f[2] = Num(c)
       /\ \A i \in 1..c : f[2 + i] = Num(Len(Chunk(e, i)) + 1)
  BY <1>1, <1>8, <1>9
<1>11. ASSUME NEW i \in 1..c, NEW k \in 1..Len(Chunk(e, i)) + 1
       PROVE  Place(e, i, k) \in 1..Len(f) /\ f[Place(e, i, k)] = SealedCell(e, i, k)
  <2> DEFINE p == (i - 1) * Stride + k
  <2>1. i \in Nat \ {0} /\ k \in Nat /\ (i - 1) * Stride \in Nat /\ Len(Chunk(e, i)) \in Nat
    <3>1. i \in 1..ChunkCount(e) /\ i - 1 \in Nat
      BY <1>1 DEF c
    <3> QED BY <3>1, ChunkIs, Products, Sizes
  <2>2. p \in Nat /\ At(e, i, k, p)
    BY <2>1 DEF At, c
  <2>3. p \in 1..Len(data) /\ data[p] = SealedCell(e, i, k)
    BY <1>3, <2>1, <2>2 DEF Holds
  <2>4. Place(e, i, k) = 2 + c + p
    BY <1>1, <2>1 DEF Place, c
  <2> HIDE DEF p
  <2>5. p \in 1..enc[e].len + c
    BY <1>3, <2>3
  <2>6. f[2 + c + p] = data[p]
    BY <1>9, <2>5
  <2>7. 2 + c + p \in 1..Len(f)
    BY <1>1, <1>9, <2>5
  <2> QED BY <2>3, <2>4, <2>6, <2>7
<1>12. ASSUME NEW p \in 1..Len(f), f[p][1] = "sealed"
       PROVE  \E i \in 1..c : \E k \in 1..Len(Chunk(e, i)) + 1 :
                p = Place(e, i, k) /\ f[p] = SealedCell(e, i, k)
  <2>1. \A i \in 1..2 + c : f[i][1] # "sealed"
    <3> TAKE i \in 1..2 + c
    <3>1. CASE i = 1 \/ i = 2
      BY <1>10, <3>1 DEF V2Magic, Num
    <3>2. CASE i > 2
      <4>1. i - 2 \in 1..c /\ i = 2 + (i - 2)
        BY <1>1, <3>2
      <4>2. f[i] = Num(Len(Chunk(e, i - 2)) + 1)
        BY <1>10, <4>1
      <4> QED BY <4>2 DEF Num
    <3> QED BY <3>1, <3>2
  <2> DEFINE q == p - (2 + c)
  <2>2. q \in 1..Len(data) /\ p = 2 + c + q /\ f[p] = data[q]
    <3>1. Len(f) \in Nat /\ p \in Nat /\ ~(p \in 1..2 + c)
      BY <1>1, <1>9, <1>12, <2>1
    <3>2. p \in 1..Len(f) /\ p > 2 + c
      BY <1>1, <3>1
    <3>3. q \in 1..enc[e].len + c /\ p = 2 + c + q
      BY <1>1, <1>9, <3>2
    <3> HIDE DEF q
    <3>4. f[2 + c + q] = data[q]
      BY <1>9, <3>3
    <3> QED BY <1>3, <3>3, <3>4
  <2> HIDE DEF q
  <2>3. PICK i \in 1..c, k \in Nat : At(e, i, k, q) /\ data[q] = SealedCell(e, i, k)
    BY <1>3, <2>2 DEF Holds
  <2>4. k \in 1..Len(Chunk(e, i)) + 1 /\ (i - 1) * Stride \in Nat
    <3>1. i - 1 \in Nat
      BY <1>1
    <3> QED BY <2>3, <3>1, Products, Sizes DEF At
  <2>5. p = Place(e, i, k)
    BY <1>1, <2>2, <2>3, <2>4 DEF At, Place, c
  <2> QED BY <2>2, <2>3, <2>4, <2>5
<1> QED BY <1>9, <1>10, <1>11, <1>12 DEF LayOut, f, c

-----------------------------------------------------------------------------
(* The invariant.                                                          *)

EncType == [at : {"idle", "writing", "done", "failed"}, written : Nat, len : Nat]
DecType == [at : {"idle", "magic", "v1", "count", "sizes", "chunks", "ok", "error", "failed"},
            key : Makers, pos : Nat, count : Nat, sizes : Seq(Nat),
            out : Seq(Makers \X Nat), steady : BOOLEAN]

VarTypes ==
  file \in Seq(Cell) /\ enc \in [Makers -> EncType] /\ dec \in [Decrypts -> DecType]

\* A source is read when its encryption starts; a writer has cells left to write.
WriterInv ==
  \A e \in Encrypts :
    /\ enc[e].at = "idle" => enc[e].len = 0
    /\ enc[e].at = "writing" => enc[e].written < Len(Output(e))

\* Whoever wrote, and however many at once: a cell of a v2 chunk is at the one
\* place where its encryption puts it.
FileInv ==
  \A p \in 1..Len(file) : \A e \in Makers : \A i, k \in Nat \ {0} :
    file[p] = SealedCell(e, i, k) => e \in Encrypts /\ p = Place(e, i, k)

\* How far a decryption has come.  Past its first chunk the count it read is
\* that of its key's encryption, whichever one it was taken from.
ReadOK(r) ==
  LET opened == r.count - Len(r.sizes)
  IN  /\ \E n \in 0..enc[r.key].len : r.out = Text(r.key, n)
      /\ r.at \in {"idle", "magic"} => r.pos = 0
      /\ r.at \in {"v1", "count"} => r.pos = 1
      /\ r.at \in {"idle", "magic", "v1", "count"} => r.sizes = <<>>
      /\ r.at \in {"idle", "magic", "v1", "count", "sizes"} => r.out = <<>>
      /\ r.at = "sizes" => /\ r.count \in 1..MaxChunks /\ Len(r.sizes) < r.count
                           /\ r.pos = 2 + Len(r.sizes)
      /\ r.at = "chunks" => /\ r.count \in 1..MaxChunks /\ Len(r.sizes) \in 1..r.count
                            /\ r.pos = 2 + r.count + opened * Stride
                            /\ r.out = Text(r.key, opened * ChunkSize)
                            /\ opened > 0 => r.count = ChunkCount(r.key)
      /\ r.at = "ok" => /\ r.out = Source(r.key)
                        /\ r.key # Legacy => enc[r.key].len > 0

ReadInv == \A d \in Decrypts : ReadOK(dec[d])

\* A decryption whose file has been complete since it started, and left alone.
SteadyOK(r) ==
  LET opened == r.count - Len(r.sizes)
  IN  /\ file = IF r.key = Legacy THEN V1File ELSE Output(r.key)
      /\ r.at = "v1" => r.key = Legacy
      /\ r.at \in {"count", "sizes", "chunks"} => r.key # Legacy
      /\ r.at \in {"sizes", "chunks"} => r.count = ChunkCount(r.key)
      /\ r.at = "sizes" =>
           \A i \in 1..Len(r.sizes) : r.sizes[i] = Len(Chunk(r.key, i)) + 1
      /\ r.at = "chunks" =>
           \A i \in 1..Len(r.sizes) : r.sizes[i] = Len(Chunk(r.key, opened + i)) + 1
      /\ r.at = "error" => r.key # Legacy /\ ChunkCount(r.key) \notin 1..MaxChunks

SteadyInv == \A d \in Decrypts : dec[d].steady => SteadyOK(dec[d])

StreamInv == VarTypes /\ WriterInv /\ FileInv /\ ReadInv /\ SteadyInv

\* Everything about an encryption follows from the length of its source.
LEMMA SameLength ==
  ASSUME NEW e, enc'[e].len = enc[e].len
  PROVE  /\ ChunkCount(e)' = ChunkCount(e) /\ Source(e)' = Source(e)
         /\ \A i : Chunk(e, i)' = Chunk(e, i)
         /\ \A i, k : Place(e, i, k)' = Place(e, i, k)
         /\ Output(e)' = Output(e)
<1>1. ChunkCount(e)' = ChunkCount(e) /\ Source(e)' = Source(e)
  BY DEF ChunkCount, Source
<1>2. \A i : Chunk(e, i)' = Chunk(e, i)
  BY <1>1 DEF Chunk
<1>3. \A i, k : Place(e, i, k)' = Place(e, i, k)
  BY <1>1 DEF Place
<1>4. Chunks(e)' = Chunks(e)
  BY <1>1, <1>2 DEF Chunks, Seal, SealedCell
<1>5. Output(e)' = Output(e)
  BY <1>1, <1>4, Zenon DEF Output, Num, V2Magic
<1> QED BY <1>1, <1>2, <1>3, <1>5

LEMMA SameV1 ==
  ASSUME enc'[Legacy].len = enc[Legacy].len
  PROVE  V1File' = V1File
  BY SameLength DEF V1File, Seal, V1Magic

\* The cells of a v1 file.
LEMMA V1Cells ==
  ASSUME enc[Legacy].len \in Nat
  PROVE  LET s == Seal(Legacy, 0, Source(Legacy)) IN
           /\ V1File \in Seq(Cell) /\ Len(V1File) = Len(s) + 1 /\ Len(s) \in Nat
           /\ V1File[1] = V1Magic
           /\ \A p \in 1..Len(s) : V1File[p + 1] = s[p]
           /\ \A p \in 2..Len(V1File) : \E k \in Nat : V1File[p] = SealedCell(Legacy, 0, k)
           /\ SubSeq(V1File, 2, Len(V1File)) = s
<1> DEFINE s == Seal(Legacy, 0, Source(Legacy))
           m == enc[Legacy].len + 1
           h == <<V1Magic>>
<1>1. s = [k \in 1..m |-> SealedCell(Legacy, 0, k)]
  BY DEF Seal, Overhead, Source
<1>2. \A k \in 1..m : SealedCell(Legacy, 0, k) \in Cell
  BY DEF Cell, Makers
<1>3. s \in Seq(Cell) /\ Len(s) = m /\ \A k \in 1..m : s[k] = SealedCell(Legacy, 0, k)
  BY <1>1, <1>2
<1>4. h \in Seq(Cell) /\ Len(h) = 1 /\ h[1] = V1Magic
  <2>1. V1Magic \in Cell
    BY DEF Cell
  <2> QED BY <2>1
<1>5. V1File = h \o s /\ m \in Nat
  BY DEF V1File
<1> HIDE DEF s, h, m
<1>6. V1File \in Seq(Cell) /\ Joined(V1File, h, s)
  BY <1>3, <1>4, <1>5, Concatenation
<1> DEFINE f == V1File
<1> HIDE DEF f
<1>7. f \in Seq(Cell) /\ Len(f) = m + 1 /\ f[1] = V1Magic /\ m \in Nat
  BY <1>3, <1>4, <1>5, <1>6 DEF Joined, f
<1>8. \A p \in 1..m : f[1 + p] = s[p]
  BY <1>3, <1>4, <1>6 DEF Joined, f
<1>9. \A p \in 1..m : f[p + 1] = s[p]
  <2> TAKE p \in 1..m
  <2>1. p + 1 = 1 + p
    BY <1>7
  <2> QED BY <1>8, <2>1
<1>10. ASSUME NEW p \in 2..Len(f) PROVE \E k \in Nat : f[p] = SealedCell(Legacy, 0, k)
  <2>1. p - 1 \in 1..m /\ p = p - 1 + 1 /\ p - 1 \in Nat
    BY <1>7
  <2> QED BY <1>3, <1>9, <2>1
<1>11. SubSeq(f, 2, Len(f)) = s
  <2>1. /\ SubSeq(f, 2, Len(f)) \in Seq(Cell) /\ Len(SubSeq(f, 2, Len(f))) = m
        /\ \A j \in 1..m : SubSeq(f, 2, Len(f))[j] = f[1 + j]
    <3>1. \A i \in 2..Len(f) : f[i] \in Cell
      BY <1>7
    <3>2. Len(f) \in Int /\ 2 <= Len(f) + 1 /\ Len(f) - 2 + 1 = m
      BY <1>7
    <3>3. /\ SubSeq(f, 2, Len(f)) \in Seq(Cell)
          /\ Len(SubSeq(f, 2, Len(f))) = IF 2 <= Len(f) THEN Len(f) - 2 + 1 ELSE 0
          /\ \A j \in 1..Len(f) - 2 + 1 : SubSeq(f, 2, Len(f))[j] = f[2 + j - 1]
      BY <3>1, <3>2, SubSeqProperties
    <3>4. \A j \in 1..m : 2 + j - 1 = 1 + j
      BY <1>7
    <3> QED BY <1>7, <3>2, <3>3, <3>4
  <2> QED BY <1>3, <1>8, <2>1, SeqEqual
<1> QED BY <1>3, <1>7, <1>9, <1>10, <1>11 DEF f, s

OutputsLong == \A e \in Makers : enc[e].len \in Nat => Len(Output(e)) \in Nat \ {0, 1}

LEMMA OutputLong == OutputsLong
<1> SUFFICES ASSUME NEW e \in Makers, enc[e].len \in Nat PROVE Len(Output(e)) \in Nat \ {0, 1}
  BY DEF OutputsLong
<1>1. Len(Output(e)) = 2 + ChunkCount(e) + enc[e].len + ChunkCount(e)
  BY OutputCells DEF LayOut
<1>2. ChunkCount(e) \in Nat
  BY CountBounds
<1> QED BY <1>1, <1>2

LEMMA TextType ==
  ASSUME NEW e \in Makers, NEW n \in Nat
  PROVE  Text(e, n) \in Seq(Makers \X Nat) /\ Len(Text(e, n)) = n /\ Text(e, 0) = <<>>
<1>1. \A i \in 1..n : <<e, i>> \in Makers \X Nat
  OBVIOUS
<1>2. Text(e, 0) = <<>>
  BY DEF Text
<1> QED BY <1>1, <1>2 DEF Text

LEMMA SealedAt ==
  ASSUME FileInv, NEW p \in 1..Len(file), NEW e \in Makers, NEW i \in Nat \ {0},
         NEW k \in Nat \ {0}, file[p] = SealedCell(e, i, k)
  PROVE  e \in Encrypts /\ p = Place(e, i, k)
<1>1. \A f \in Makers : \A x, y \in Nat \ {0} :
        file[p] = SealedCell(f, x, y) => f \in Encrypts /\ p = Place(f, x, y)
  BY DEF FileInv
<1> QED BY <1>1

LEMMA StreamInit == Init => StreamInv
<1> SUFFICES ASSUME Init PROVE StreamInv
  OBVIOUS
<1> USE DEF Init
<1>1. enc \in [Makers -> EncType] /\ enc[Legacy].len \in Nat /\ Legacy \in Makers
  BY LengthsAssumption DEF EncType, Makers
<1>2. dec \in [Decrypts -> DecType]
  BY DEF DecType, Makers
<1>3. VarTypes
  BY <1>1, <1>2, V1Cells DEF VarTypes
<1>4. WriterInv
  BY LegacyAssumption DEF WriterInv, Makers
<1>5. FileInv
  <2> SUFFICES ASSUME NEW p \in 1..Len(file), NEW e \in Makers, NEW i \in Nat \ {0},
                      NEW k \in Nat \ {0}, file[p] = SealedCell(e, i, k)
               PROVE  FALSE
    BY DEF FileInv
  <2>1. CASE p = 1
    BY <1>1, <2>1, V1Cells DEF V1Magic, SealedCell
  <2>2. CASE p # 1
    <3>1. Len(V1File) \in Nat
      BY <1>1, V1Cells
    <3>2. p \in 2..Len(V1File)
      BY <2>2, <3>1
    <3>3. PICK j \in Nat : V1File[p] = SealedCell(Legacy, 0, j)
      BY <1>1, <3>2, V1Cells
    <3> QED BY <3>3 DEF SealedCell
  <2> QED BY <2>1, <2>2
<1>6. ReadInv
  <2> SUFFICES ASSUME NEW d \in Decrypts PROVE ReadOK(dec[d])
    BY DEF ReadInv
  <2>1. dec[d].out = Text(dec[d].key, 0) /\ 0 \in 0..enc[dec[d].key].len
    BY <1>1, TextType DEF Text
  <2> QED BY <2>1 DEF ReadOK
<1>7. SteadyInv
  BY DEF SteadyInv
<1> QED BY <1>3, <1>4, <1>5, <1>6, <1>7 DEF StreamInv

\* A step that leaves a decryption, and the length of its key's source, alone.
LEMMA ReadKept ==
  ASSUME NEW d \in Decrypts, ReadOK(dec[d]),
         dec'[d].at = dec[d].at, dec'[d].key = dec[d].key, dec'[d].pos = dec[d].pos,
         dec'[d].count = dec[d].count, dec'[d].sizes = dec[d].sizes,
         dec'[d].out = dec[d].out,
         enc'[dec[d].key].len = enc[dec[d].key].len
  PROVE  ReadOK(dec[d])'
  BY SameLength DEF ReadOK

LEMMA SteadyKept ==
  ASSUME NEW d \in Decrypts, SteadyOK(dec[d]),
         dec'[d].at = dec[d].at, dec'[d].key = dec[d].key,
         dec'[d].count = dec[d].count, dec'[d].sizes = dec[d].sizes, file' = file,
         enc'[dec[d].key].len = enc[dec[d].key].len, enc'[Legacy].len = enc[Legacy].len
  PROVE  SteadyOK(dec[d])'
  BY SameLength, SameV1 DEF SteadyOK

-----------------------------------------------------------------------------
(* EncryptFileStreaming.                                                   *)

\* The decryptions under a file that becomes f.
LEMMA FileSet ==
  ASSUME VarTypes, NEW f, SetFile(f)
  PROVE  /\ file' = f /\ dec' \in [Decrypts -> DecType]
         /\ \A d \in Decrypts :
              /\ dec'[d].at = dec[d].at /\ dec'[d].key = dec[d].key
              /\ dec'[d].pos = dec[d].pos /\ dec'[d].count = dec[d].count
              /\ dec'[d].sizes = dec[d].sizes /\ dec'[d].out = dec[d].out
              /\ dec'[d].steady => dec[d].steady /\ f = file
<1>1. \A d \in Decrypts : dec[d] \in DecType
  BY DEF VarTypes
<1>2. \A d \in Decrypts : (dec[d].steady /\ f = file) \in BOOLEAN
  OBVIOUS
<1>3. dec' = [d \in Decrypts |-> [dec[d] EXCEPT !.steady = dec[d].steady /\ f = file]]
  BY DEF SetFile
<1>4. \A d \in Decrypts : [dec[d] EXCEPT !.steady = dec[d].steady /\ f = file] \in DecType
  BY <1>1, <1>2 DEF DecType
<1>5. file' = f /\ dec' \in [Decrypts -> DecType]
  BY <1>3, <1>4 DEF SetFile
<1>6. ASSUME NEW d \in Decrypts
      PROVE  /\ dec'[d].at = dec[d].at /\ dec'[d].key = dec[d].key
             /\ dec'[d].pos = dec[d].pos /\ dec'[d].count = dec[d].count
             /\ dec'[d].sizes = dec[d].sizes /\ dec'[d].out = dec[d].out
             /\ dec'[d].steady = (dec[d].steady /\ f = file)
  <2> DEFINE b == dec[d].steady /\ f = file
  <2>1. dec'[d] = [dec[d] EXCEPT !.steady = b]
    BY <1>3
  <2>2. dec[d] \in DecType
    BY <1>1
  <2> HIDE DEF b
  <2>3. /\ dec'[d].at = dec[d].at /\ dec'[d].key = dec[d].key
        /\ dec'[d].pos = dec[d].pos /\ dec'[d].count = dec[d].count
        /\ dec'[d].sizes = dec[d].sizes /\ dec'[d].out = dec[d].out
        /\ dec'[d].steady = b
    BY <2>1, <2>2 DEF DecType
  <2> QED BY <2>3 DEF b
<1> QED BY <1>5, <1>6

LEMMA LegacyIs == Legacy \in Makers /\ \A e \in Encrypts : e \in Makers /\ e # Legacy
  BY LegacyAssumption DEF Makers

\* A complete file has cells.
LEMMA SteadyFile ==
  ASSUME VarTypes, NEW d \in Decrypts, SteadyOK(dec[d])
  PROVE  Len(file) # 0
<1>1. dec[d].key \in Makers /\ \A e \in Makers : enc[e].len \in Nat
  BY DEF VarTypes, DecType, EncType
<1>2. Len(V1File) # 0
  BY <1>1, LegacyIs, V1Cells
<1>3. Len(Output(dec[d].key)) # 0
  BY <1>1, OutputLong DEF OutputsLong
<1> QED BY <1>2, <1>3 DEF SteadyOK

LEMMA CreateStep ==
  ASSUME StreamInv, NEW e \in Encrypts, EncryptCreate(e)
  PROVE  StreamInv'
<1> USE LegacyIs
<1>1. PICK n \in Lengths :
        enc' = [enc EXCEPT ![e] = [at |-> "writing", written |-> 0, len |-> n]]
  BY DEF EncryptCreate
<1>2. SetFile(<<>>) /\ enc[e].at = "idle" /\ n \in Nat
  BY LengthsAssumption DEF EncryptCreate
<1>3. /\ enc' \in [Makers -> EncType] /\ enc'[e].at = "writing" /\ enc'[e].written = 0
      /\ enc'[e].len = n /\ \A f \in Makers \ {e} : enc'[f] = enc[f]
  BY <1>1, <1>2 DEF StreamInv, VarTypes, EncType
<1>4. VarTypes'
  <2>1. <<>> \in Seq(Cell)'
    OBVIOUS
  <2> QED BY <1>2, <1>3, <2>1, FileSet DEF StreamInv, VarTypes
<1>5. WriterInv'
  <2>1. OutputsLong'
    BY OutputLong, PTL
  <2>2. 0 < Len(Output(e)')
    BY <1>2, <1>3, <2>1 DEF OutputsLong
  <2>3. \A f \in Encrypts \ {e} : enc'[f] = enc[f] /\ Output(f)' = Output(f)
    BY <1>3, SameLength
  <2> QED BY <1>3, <2>2, <2>3 DEF StreamInv, WriterInv
<1>6. FileInv'
  <2>1. Len(file') = 0
    BY <1>2, FileSet DEF StreamInv
  <2> QED BY <2>1 DEF FileInv
<1>7. ReadInv'
  <2> SUFFICES ASSUME NEW d \in Decrypts PROVE ReadOK(dec[d])'
    BY DEF ReadInv
  <2>1. /\ dec'[d].at = dec[d].at /\ dec'[d].key = dec[d].key
        /\ dec'[d].pos = dec[d].pos /\ dec'[d].count = dec[d].count
        /\ dec'[d].sizes = dec[d].sizes /\ dec'[d].out = dec[d].out
    BY <1>2, FileSet DEF StreamInv
  <2>2. dec[d].key \in Makers /\ ReadOK(dec[d]) /\ dec[d].count \in Nat /\ dec[d].sizes \in Seq(Nat)
    BY DEF StreamInv, VarTypes, DecType, ReadInv
  <2>3. CASE dec[d].key # e
    BY <1>3, <2>1, <2>2, <2>3, ReadKept
  <2>4. CASE dec[d].key = e
    <3>1. enc[e].len = 0
      BY <1>2 DEF StreamInv, WriterInv
    <3>2. ChunkCount(e) = 0
      BY <3>1, CountBounds
    <3>3. dec[d].at # "ok"
      BY <2>2, <2>4, <3>1 DEF ReadOK
    <3>4. dec[d].at = "chunks" => ~(dec[d].count - Len(dec[d].sizes) > 0)
      BY <2>2, <2>4, <3>2, Sizes DEF ReadOK
    <3>5. dec[d].out = Text(e, 0) /\ 0 \in 0..enc'[e].len
      BY <1>2, <1>3, <2>2, <2>4, <3>1 DEF ReadOK
    <3> QED BY <2>1, <2>2, <2>4, <3>3, <3>4, <3>5 DEF ReadOK
  <2> QED BY <2>3, <2>4
<1>8. SteadyInv'
  <2> SUFFICES ASSUME NEW d \in Decrypts, dec'[d].steady PROVE FALSE
    BY DEF SteadyInv
  <2>1. dec[d].steady /\ <<>> = file
    BY <1>2, FileSet DEF StreamInv
  <2>2. Len(file) # 0
    BY <2>1, SteadyFile DEF StreamInv, SteadyInv
  <2> QED BY <2>1, <2>2
<1> QED BY <1>4, <1>5, <1>6, <1>7, <1>8 DEF StreamInv

\* Steps that change no source leave every decryption as it was, and one whose
\* file they change is no longer steady.
LEMMA DecryptsKept ==
  ASSUME StreamInv, \A e \in Makers : enc'[e].len = enc[e].len,
         (\E f : SetFile(f)) \/ UNCHANGED <<file, dec>>
  PROVE  ReadInv' /\ SteadyInv'
<1> SUFFICES ASSUME NEW d \in Decrypts PROVE ReadOK(dec[d])' /\ (dec'[d].steady => SteadyOK(dec[d])')
  BY DEF ReadInv, SteadyInv
<1>1. /\ dec'[d].at = dec[d].at /\ dec'[d].key = dec[d].key
      /\ dec'[d].pos = dec[d].pos /\ dec'[d].count = dec[d].count
      /\ dec'[d].sizes = dec[d].sizes /\ dec'[d].out = dec[d].out
      /\ dec'[d].steady => dec[d].steady /\ file' = file
  <2>1. ASSUME NEW f, SetFile(f)
        PROVE  /\ dec'[d].at = dec[d].at /\ dec'[d].key = dec[d].key
               /\ dec'[d].pos = dec[d].pos /\ dec'[d].count = dec[d].count
               /\ dec'[d].sizes = dec[d].sizes /\ dec'[d].out = dec[d].out
               /\ dec'[d].steady => dec[d].steady /\ file' = file
    BY <2>1, FileSet DEF StreamInv
  <2>2. CASE UNCHANGED <<file, dec>>
    BY <2>2
  <2> QED BY <2>1, <2>2
<1>2. dec[d].key \in Makers /\ Legacy \in Makers /\ ReadOK(dec[d])
  BY LegacyIs DEF StreamInv, VarTypes, DecType, ReadInv
<1>3. ReadOK(dec[d])'
  BY <1>1, <1>2, ReadKept
<1>4. ASSUME dec'[d].steady PROVE SteadyOK(dec[d])'
  <2>1. SteadyOK(dec[d]) /\ file' = file
    BY <1>1, <1>4 DEF StreamInv, SteadyInv
  <2> QED BY <1>1, <1>2, <2>1, SteadyKept
<1> QED BY <1>3, <1>4

LEMMA WriteStep ==
  ASSUME StreamInv, NEW e \in Encrypts, EncryptWrite(e)
  PROVE  StreamInv'
<1> USE LegacyIs
<1> DEFINE p == enc[e].written + 1
           c == Output(e)[p]
<1>0. enc[e] \in EncType /\ enc[e].len \in Nat /\ enc[e].written \in Nat /\ file \in Seq(Cell)
  BY DEF StreamInv, VarTypes, EncType
<1>1. /\ enc[e].at = "writing" /\ SetFile(WriteAt(p, c))
      /\ enc' = [enc EXCEPT ![e].written = p,
                            ![e].at = IF p = Len(Output(e)) THEN "done" ELSE enc[e].at]
  BY DEF EncryptWrite
<1>2. Output(e) \in Seq(Cell) /\ LayOut(e, Output(e))
  BY <1>0, OutputCells
<1>3. p \in 1..Len(Output(e)) /\ c \in Cell
  <2>1. enc[e].written < Len(Output(e))
    BY <1>1 DEF StreamInv, WriterInv
  <2> QED BY <1>0, <1>2, <2>1
<1>4. /\ enc' \in [Makers -> EncType] /\ \A f \in Makers : enc'[f].len = enc[f].len
      /\ \A f \in Makers \ {e} : enc'[f] = enc[f]
      /\ enc'[e].at \in {"writing", "done"} /\ enc'[e].written = p
      /\ enc'[e].at = "writing" => p # Len(Output(e))
  <2>1. enc' = [enc EXCEPT ![e] = [enc[e] EXCEPT !.written = p,
                  !.at = IF p = Len(Output(e)) THEN "done" ELSE enc[e].at]]
    BY <1>1 DEF StreamInv, VarTypes
  <2> DEFINE b == IF p = Len(Output(e)) THEN "done" ELSE enc[e].at
             r == [enc[e] EXCEPT !.written = p, !.at = b]
  <2>2. b \in {"writing", "done"} /\ (b = "writing" => p # Len(Output(e))) /\ p \in Nat
    BY <1>0, <1>1
  <2> HIDE DEF b, p
  <2>3. r \in EncType /\ r.len = enc[e].len /\ r.at = b /\ r.written = p
    BY <1>0, <2>2 DEF EncType
  <2>4. enc' = [enc EXCEPT ![e] = r]
    BY <2>1 DEF b
  <2> HIDE DEF r
  <2>5. enc' \in [Makers -> EncType] /\ enc'[e] = r /\ \A f \in Makers \ {e} : enc'[f] = enc[f]
    BY <2>3, <2>4 DEF StreamInv, VarTypes
  <2> QED BY <2>2, <2>3, <2>5
<1> HIDE DEF c, p
<1>5. /\ Len(file') \in Nat /\ file' \in Seq(Cell)
      /\ \A q \in 1..Len(file') : \/ q = p /\ file'[q] = c
                                  \/ q \in 1..Len(file) /\ file'[q] = file[q]
                                  \/ file'[q] = Zero
  <2>1. file' = [i \in 1..(IF p > Len(file) THEN p ELSE Len(file)) |->
                   IF i = p THEN c ELSE IF i <= Len(file) THEN file[i] ELSE Zero]
    BY <1>1 DEF SetFile, WriteAt
  <2>2. PICK n \in Nat : n = IF p > Len(file) THEN p ELSE Len(file)
    BY <1>0, <1>2, <1>3
  <2>3. file' = [i \in 1..n |->
                   IF i = p THEN c ELSE IF i <= Len(file) THEN file[i] ELSE Zero]
    BY <2>1, <2>2
  <2>4. \A i \in 1..n :
          (IF i = p THEN c ELSE IF i <= Len(file) THEN file[i] ELSE Zero) \in Cell
    BY <1>0, <1>3 DEF Cell
  <2>5. file' \in Seq(Cell) /\ Len(file') = n
    BY <2>3, <2>4
  <2> QED BY <1>0, <2>2, <2>3, <2>5
<1>6. VarTypes'
  BY <1>1, <1>4, <1>5, FileSet DEF StreamInv, VarTypes, Cell
<1>7. WriterInv'
  <2>1. \A f \in Encrypts : Output(f)' = Output(f)
    BY <1>4, SameLength
  <2> QED BY <1>2, <1>3, <1>4, <2>1 DEF StreamInv, WriterInv
<1>8. FileInv'
  <2> SUFFICES ASSUME NEW q \in 1..Len(file'), NEW f \in Makers, NEW i \in Nat \ {0},
                      NEW k \in Nat \ {0}, file'[q] = SealedCell(f, i, k)
               PROVE  f \in Encrypts /\ q = Place(f, i, k)'
    BY DEF FileInv
  <2>1. Place(f, i, k)' = Place(f, i, k)
    BY <1>4, SameLength
  <2>2. CASE q = p /\ file'[q] = c
    <3>1. Output(e)[p][1] = "sealed" /\ Output(e)[p] = SealedCell(f, i, k)
      BY <2>2 DEF SealedCell, c
    <3>2. PICK j \in 1..ChunkCount(e) : \E l \in 1..Len(Chunk(e, j)) + 1 :
            p = Place(e, j, l) /\ Output(e)[p] = SealedCell(e, j, l)
      BY <1>2, <1>3, <3>1 DEF LayOut
    <3>3. PICK l : p = Place(e, j, l) /\ Output(e)[p] = SealedCell(e, j, l)
      BY <3>2
    <3>4. f = e /\ i = j /\ k = l
      BY <3>1, <3>3 DEF SealedCell
    <3> QED BY <2>1, <2>2, <3>3, <3>4
  <2>3. CASE q \in 1..Len(file) /\ file'[q] = file[q]
    <3>1. file[q] = SealedCell(f, i, k)
      BY <2>3
    <3>2. FileInv /\ q \in 1..Len(file)
      BY <2>3 DEF StreamInv
    <3>3. f \in Encrypts /\ q = Place(f, i, k)
      BY <3>1, <3>2, SealedAt
    <3> QED BY <2>1, <3>3
  <2>4. CASE file'[q] = Zero
    <3>1. Zero[1] = "zero" /\ SealedCell(f, i, k)[1] = "sealed"
      BY DEF Zero, SealedCell
    <3> QED BY <2>4, <3>1
  <2> QED BY <1>5, <2>2, <2>3, <2>4
<1>9. ReadInv' /\ SteadyInv'
  BY <1>1, <1>4, DecryptsKept
<1> QED BY <1>6, <1>7, <1>8, <1>9 DEF StreamInv

LEMMA FailStep ==
  ASSUME StreamInv, NEW e \in Encrypts, EncryptFails(e)
  PROVE  StreamInv'
<1> USE LegacyIs
<1>1. enc' = [enc EXCEPT ![e].at = "failed"] /\ UNCHANGED <<file, dec>>
  BY DEF EncryptFails
<1>2. /\ enc' \in [Makers -> EncType] /\ \A f \in Makers : enc'[f].len = enc[f].len
      /\ enc'[e].at = "failed" /\ \A f \in Makers \ {e} : enc'[f] = enc[f]
  BY <1>1 DEF StreamInv, VarTypes, EncType
<1>3. \A f \in Makers : /\ Output(f)' = Output(f)
                        /\ \A i, k : Place(f, i, k)' = Place(f, i, k)
  BY <1>2, SameLength
<1>4. VarTypes' /\ WriterInv' /\ FileInv'
  BY <1>1, <1>2, <1>3 DEF StreamInv, VarTypes, WriterInv, FileInv, Cell
<1>5. ReadInv' /\ SteadyInv'
  BY <1>1, <1>2, DecryptsKept
<1> QED BY <1>4, <1>5 DEF StreamInv

-----------------------------------------------------------------------------
(* DecryptFileStreaming.                                                   *)

\* A record a decryption may go on as.
Fits(r) == r \in DecType /\ ReadOK(r) /\ (r.steady => SteadyOK(r))

\* A step of one decryption, to a record that fits.
LEMMA BecomesStep ==
  ASSUME StreamInv, NEW d \in Decrypts, NEW r, Becomes(d, r), Fits(r)
  PROVE  StreamInv'
<1>1. dec' = [dec EXCEPT ![d] = r] /\ file' = file /\ enc' = enc
  BY DEF Becomes
<1>2. dec' \in [Decrypts -> DecType] /\ \A x \in Decrypts : dec'[x] = IF x = d THEN r ELSE dec[x]
  BY <1>1 DEF StreamInv, VarTypes, Fits
<1>3. \A e : /\ ChunkCount(e)' = ChunkCount(e) /\ Output(e)' = Output(e)
             /\ \A i, k : Place(e, i, k)' = Place(e, i, k)
             /\ Source(e)' = Source(e) /\ \A i : Chunk(e, i)' = Chunk(e, i)
  BY <1>1, SameLength
<1>4. VarTypes' /\ WriterInv' /\ FileInv'
  BY <1>1, <1>2, <1>3 DEF StreamInv, VarTypes, WriterInv, FileInv, Cell
<1>5. V1File' = V1File
  BY <1>1, SameV1
<1>6. ASSUME NEW x \in Decrypts PROVE ReadOK(dec'[x]) /\ (dec'[x].steady => SteadyOK(dec'[x]))
  <2>1. CASE x = d
    BY <1>2, <2>1 DEF Fits
  <2>2. CASE x # d
    BY <1>2, <2>2 DEF StreamInv, ReadInv, SteadyInv
  <2> QED BY <2>1, <2>2
<1>7. ASSUME NEW x \in Decrypts, ReadOK(dec'[x]) PROVE ReadOK(dec[x])'
  BY <1>1, <1>3, <1>7 DEF ReadOK
<1>8. ASSUME NEW x \in Decrypts, SteadyOK(dec'[x]) PROVE SteadyOK(dec[x])'
  BY <1>1, <1>3, <1>5, <1>8 DEF SteadyOK
<1>9. ReadInv' /\ SteadyInv'
  BY <1>6, <1>7, <1>8 DEF ReadInv, SteadyInv
<1> QED BY <1>4, <1>9 DEF StreamInv

\* What the invariant says of one decryption.
LEMMA Current ==
  ASSUME StreamInv, NEW d \in Decrypts
  PROVE  /\ dec[d] \in DecType /\ ReadOK(dec[d]) /\ (dec[d].steady => SteadyOK(dec[d]))
         /\ dec[d].key \in Makers /\ enc[dec[d].key].len \in Nat
         /\ enc[Legacy].len \in Nat /\ file \in Seq(Cell)
  BY LegacyIs DEF StreamInv, VarTypes, ReadInv, SteadyInv, DecType, EncType

\* A call may return "failed" at any point, and "error" where its file was not
\* complete and left alone.
LEMMA ReturnsStep ==
  ASSUME StreamInv, NEW d \in Decrypts, NEW a \in {"error", "failed"}, Returns(d, a),
         a = "error" => ~dec[d].steady
  PROVE  StreamInv'
<1> DEFINE r == [dec[d] EXCEPT !.at = a]
<1>1. dec[d] \in DecType /\ ReadOK(dec[d]) /\ (dec[d].steady => SteadyOK(dec[d]))
  BY Current
<1>2. /\ r \in DecType /\ r.at = a /\ r.key = dec[d].key /\ r.pos = dec[d].pos
      /\ r.count = dec[d].count /\ r.sizes = dec[d].sizes /\ r.out = dec[d].out
      /\ r.steady = dec[d].steady
  BY <1>1 DEF DecType
<1> HIDE DEF r
<1>3. ReadOK(r)
  BY <1>1, <1>2 DEF ReadOK
<1>4. r.steady => SteadyOK(r)
  BY <1>1, <1>2 DEF SteadyOK
<1>5. Becomes(d, r)
  BY DEF Returns, r
<1> QED BY <1>2, <1>3, <1>4, <1>5, BecomesStep DEF Fits

LEMMA StartStep ==
  ASSUME StreamInv, NEW d \in Decrypts, DecryptStart(d)
  PROVE  StreamInv'
<1> DEFINE s(e) == (e # Legacy /\ file = Output(e)) \/ (e = Legacy /\ file = V1File)
<1>1. dec[d] \in DecType /\ ReadOK(dec[d]) /\ dec[d].at = "idle"
  BY Current DEF DecryptStart
<1>2. PICK e \in Makers :
        Becomes(d, [dec[d] EXCEPT !.at = "magic", !.key = e, !.steady = s(e)])
  BY DEF DecryptStart
<1>3. PICK b \in BOOLEAN : b = s(e)
  OBVIOUS
<1>4. b => file = IF e = Legacy THEN V1File ELSE Output(e)
  BY <1>3
<1> DEFINE r == [dec[d] EXCEPT !.at = "magic", !.key = e, !.steady = b]
<1>5. Becomes(d, r)
  BY <1>2, <1>3
<1> HIDE DEF s
<1>6. /\ r \in DecType /\ r.at = "magic" /\ r.key = e /\ r.pos = dec[d].pos
      /\ r.count = dec[d].count /\ r.sizes = dec[d].sizes /\ r.out = dec[d].out
      /\ r.steady = b
  BY <1>1 DEF DecType
<1> HIDE DEF r
<1>7. r.pos = 0 /\ r.sizes = <<>> /\ r.out = <<>>
  BY <1>1, <1>6 DEF ReadOK
<1>8. r.out = Text(e, 0) /\ 0 \in 0..enc[e].len
  BY <1>7, TextType DEF StreamInv, VarTypes, EncType
<1>9. ReadOK(r)
  BY <1>6, <1>7, <1>8 DEF ReadOK
<1>10. r.steady => SteadyOK(r)
  BY <1>4, <1>6 DEF SteadyOK
<1> QED BY <1>5, <1>6, <1>9, <1>10, BecomesStep DEF Fits

LEMMA MagicStep ==
  ASSUME StreamInv, NEW d \in Decrypts, ReadMagic(d)
  PROVE  StreamInv'
<1> DEFINE a == IF ~Available(d, 1) THEN "error"
                ELSE CASE file[1] = V1Magic -> "v1"
                       [] file[1] = V2Magic -> "count"
                       [] OTHER -> "error"
           r == [dec[d] EXCEPT !.pos = 1, !.at = a]
<1>1. /\ dec[d] \in DecType /\ ReadOK(dec[d]) /\ (dec[d].steady => SteadyOK(dec[d]))
      /\ dec[d].key \in Makers /\ enc[dec[d].key].len \in Nat
      /\ enc[Legacy].len \in Nat /\ file \in Seq(Cell)
  BY Current
<1>2. dec[d].at = "magic" /\ Becomes(d, r)
  BY DEF ReadMagic
<1>3. a \in {"v1", "count", "error"} /\ V1Magic # V2Magic
  BY DEF V1Magic, V2Magic
<1>4. ASSUME dec[d].steady
      PROVE  a = IF dec[d].key = Legacy THEN "v1" ELSE "count"
  <2>1. SteadyOK(dec[d]) /\ dec[d].pos = 0
    BY <1>1, <1>2, <1>4 DEF ReadOK
  <2>2. CASE dec[d].key = Legacy
    <3>1. Len(V1File) \in Nat \ {0} /\ V1File[1] = V1Magic
      BY <1>1, V1Cells
    <3>2. file = V1File
      BY <2>1, <2>2 DEF SteadyOK
    <3>3. Available(d, 1) /\ file[1] = V1Magic
      BY <2>1, <3>1, <3>2 DEF Available
    <3> QED BY <2>2, <3>3, <1>3
  <2>3. CASE dec[d].key # Legacy
    <3>1. Len(Output(dec[d].key)) \in Nat \ {0, 1} /\ Output(dec[d].key)[1] = V2Magic
      BY <1>1, OutputLong, OutputCells DEF OutputsLong, LayOut
    <3>2. file = Output(dec[d].key)
      BY <2>1, <2>3 DEF SteadyOK
    <3>3. Available(d, 1) /\ file[1] = V2Magic
      BY <2>1, <3>1, <3>2 DEF Available
    <3> QED BY <2>3, <3>3, <1>3
  <2> QED BY <2>2, <2>3
<1> HIDE DEF a
<1>5. /\ r \in DecType /\ r.at = a /\ r.key = dec[d].key /\ r.pos = 1
      /\ r.count = dec[d].count /\ r.sizes = dec[d].sizes /\ r.out = dec[d].out
      /\ r.steady = dec[d].steady
  BY <1>1, <1>3 DEF DecType
<1> HIDE DEF r
<1>6. ReadOK(r)
  BY <1>1, <1>2, <1>3, <1>5 DEF ReadOK
<1>7. r.steady => SteadyOK(r)
  BY <1>1, <1>4, <1>5 DEF SteadyOK
<1> QED BY <1>2, <1>5, <1>6, <1>7, BecomesStep DEF Fits

LEMMA V1Step ==
  ASSUME StreamInv, NEW d \in Decrypts, DecryptV1(d)
  PROVE  StreamInv'
<1> DEFINE rest == SubSeq(file, 2, Len(file))
           s == Seal(Legacy, 0, Source(Legacy))
           r == [dec[d] EXCEPT !.at = "ok", !.out = Source(Legacy)]
<1>1. /\ dec[d] \in DecType /\ ReadOK(dec[d]) /\ (dec[d].steady => SteadyOK(dec[d]))
      /\ enc[Legacy].len \in Nat /\ Legacy \in Makers
  BY Current, LegacyIs
<1>2. dec[d].at = "v1"
  BY DEF DecryptV1
<1>3. CASE dec[d].key = Legacy /\ rest = s
  <2>1. Becomes(d, r)
    BY <1>3 DEF DecryptV1
  <2>2. Source(Legacy) = Text(Legacy, enc[Legacy].len)
    BY DEF Source, Text
  <2>3. Source(Legacy) \in Seq(Makers \X Nat)
    BY <1>1, <2>2, TextType
  <2>4. /\ r \in DecType /\ r.at = "ok" /\ r.key = dec[d].key
        /\ r.out = Source(Legacy) /\ r.steady = dec[d].steady
    BY <1>1, <2>3 DEF DecType
  <2> HIDE DEF r
  <2>5. ReadOK(r)
    BY <1>1, <1>3, <2>2, <2>4 DEF ReadOK
  <2>6. r.steady => SteadyOK(r)
    BY <1>1, <2>4 DEF SteadyOK
  <2> QED BY <2>1, <2>4, <2>5, <2>6, BecomesStep DEF Fits
<1>4. CASE ~(dec[d].key = Legacy /\ rest = s)
  <2>1. Returns(d, "error")
    BY <1>4 DEF DecryptV1
  <2>2. ~dec[d].steady
    <3> SUFFICES ASSUME dec[d].steady PROVE FALSE
      OBVIOUS
    <3>1. dec[d].key = Legacy /\ file = V1File
      BY <1>1, <1>2 DEF SteadyOK
    <3>2. rest = s
      BY <1>1, <3>1, V1Cells
    <3> QED BY <1>4, <3>1, <3>2
  <2> QED BY <2>1, <2>2, ReturnsStep
<1> QED BY <1>3, <1>4

\* A number read from a cell.
LEMMA ReadsNumber ==
  ASSUME NEW c \in Cell, NEW n \in Reads(c)
  PROVE  n \in Nat /\ \A m : c = Num(m) => n = m
<1>1. \A m : c = Num(m) => n = m
  BY DEF Reads, Num
<1>2. CASE c[1] = "num"
  <2>1. PICK m \in Nat : c = Num(m)
    BY <1>2 DEF Cell, V1Magic, V2Magic, Zero, SealedCell
  <2> QED BY <1>1, <2>1
<1>3. CASE c[1] # "num"
  <2>1. n \in {0} \cup Words
    BY <1>3 DEF Reads
  <2> QED BY <1>1, <2>1, WordsAssumption
<1> QED BY <1>2, <1>3

LEMMA CountStep ==
  ASSUME StreamInv, NEW d \in Decrypts, ReadCount(d)
  PROVE  StreamInv'
<1>1. /\ dec[d] \in DecType /\ ReadOK(dec[d]) /\ (dec[d].steady => SteadyOK(dec[d]))
      /\ dec[d].key \in Makers /\ enc[dec[d].key].len \in Nat /\ file \in Seq(Cell)
  BY Current
<1>2. dec[d].at = "count"
  BY DEF ReadCount
<1>p. dec[d].pos = 1 /\ dec[d].sizes = <<>> /\ dec[d].out = <<>>
  BY <1>1, <1>2 DEF ReadOK
<1>3. ASSUME dec[d].steady
      PROVE  /\ dec[d].key # Legacy /\ file[2] = Num(ChunkCount(dec[d].key))
             /\ Available(d, 1)
  <2>1. dec[d].key # Legacy /\ file = Output(dec[d].key)
    BY <1>1, <1>2, <1>3 DEF SteadyOK
  <2>2. Len(Output(dec[d].key)) \in Nat \ {0, 1}
        /\ Output(dec[d].key)[2] = Num(ChunkCount(dec[d].key))
    BY <1>1, OutputLong, OutputCells DEF OutputsLong, LayOut
  <2>3. file[2] = Num(ChunkCount(dec[d].key)) /\ 1 + 1 <= Len(file)
    <3>1. \A n \in Nat \ {0, 1} : 1 + 1 <= n
      OBVIOUS
    <3>2. Len(file) \in Nat \ {0, 1} /\ file[2] = Num(ChunkCount(dec[d].key))
      BY <2>1, <2>2, Zenon
    <3> QED BY <3>1, <3>2
  <2>4. Available(d, 1)
    BY <1>p, <2>3 DEF Available
  <2> QED BY <2>1, <2>3, <2>4
<1>4. CASE ~Available(d, 1) /\ Returns(d, "error")
  BY <1>3, <1>4, ReturnsStep
<1>5. CASE Available(d, 1) /\ ~(~Available(d, 1) /\ Returns(d, "error"))
  <2>1. file[2] \in Cell
    BY <1>1, <1>5, <1>p DEF Available
  <2>2. PICK n \in Reads(file[2]) :
          Becomes(d, [dec[d] EXCEPT !.pos = 2, !.count = n,
            !.at = IF n = 0 \/ n > MaxChunks THEN "error" ELSE "sizes"])
    BY <1>5 DEF ReadCount
  <2>3. n \in Nat /\ \A m : file[2] = Num(m) => n = m
    BY <2>1, ReadsNumber
  <2> DEFINE a == IF n = 0 \/ n > MaxChunks THEN "error" ELSE "sizes"
             r == [dec[d] EXCEPT !.pos = 2, !.count = n, !.at = a]
  <2>4. a \in {"error", "sizes"} /\ (a = "sizes" <=> n \in 1..MaxChunks)
    BY <2>3, Sizes
  <2>5. Becomes(d, r)
    BY <2>2
  <2> HIDE DEF a
  <2>6. /\ r \in DecType /\ r.at = a /\ r.key = dec[d].key /\ r.pos = 2
        /\ r.count = n /\ r.sizes = dec[d].sizes /\ r.out = dec[d].out
        /\ r.steady = dec[d].steady
    BY <1>1, <2>3, <2>4 DEF DecType
  <2> HIDE DEF r
  <2>7. ReadOK(r)
    <3>1. \E m \in 0..enc[r.key].len : r.out = Text(r.key, m)
      BY <1>1, <2>6 DEF ReadOK
    <3>2. r.sizes = <<>> /\ Len(r.sizes) = 0 /\ r.out = <<>>
      BY <1>p, <2>6
    <3>3. r.at = "sizes" => /\ r.count \in 1..MaxChunks /\ Len(r.sizes) < r.count
                            /\ r.pos = 2 + Len(r.sizes)
      BY <2>4, <2>6, <3>2
    <3>4. r.at \in {"error", "sizes"}
      BY <2>4, <2>6
    <3> QED BY <3>1, <3>2, <3>3, <3>4 DEF ReadOK
  <2>8. ASSUME r.steady PROVE SteadyOK(r)
    <3>1. n = ChunkCount(r.key) /\ r.key # Legacy /\ SteadyOK(dec[d])
      BY <1>1, <1>3, <2>3, <2>6, <2>8
    <3>2. Len(r.sizes) = 0
      BY <1>p, <2>6
    <3> QED BY <2>4, <2>6, <3>1, <3>2 DEF SteadyOK
  <2> QED BY <2>5, <2>6, <2>7, <2>8, BecomesStep DEF Fits
<1> QED BY <1>4, <1>5 DEF ReadCount

LEMMA SizeStep ==
  ASSUME StreamInv, NEW d \in Decrypts, ReadSize(d)
  PROVE  StreamInv'
<1> DEFINE m == Len(dec[d].sizes)
<1>1. /\ dec[d] \in DecType /\ ReadOK(dec[d]) /\ (dec[d].steady => SteadyOK(dec[d]))
      /\ dec[d].key \in Makers /\ enc[dec[d].key].len \in Nat /\ file \in Seq(Cell)
  BY Current
<1>2. dec[d].at = "sizes"
  BY DEF ReadSize
<1>s. dec[d].sizes \in Seq(Nat) /\ m \in Nat
  BY <1>1 DEF DecType
<1>p. dec[d].pos = 2 + m /\ dec[d].count \in 1..MaxChunks /\ m < dec[d].count /\ dec[d].out = <<>>
  BY <1>1, <1>2 DEF ReadOK
<1> HIDE DEF m
<1>3. ASSUME dec[d].steady
      PROVE  /\ file[2 + m + 1] = Num(Len(Chunk(dec[d].key, m + 1)) + 1) /\ Available(d, 1)
             /\ dec[d].count = ChunkCount(dec[d].key)
  <2>1. file = Output(dec[d].key) /\ dec[d].count = ChunkCount(dec[d].key)
    BY <1>1, <1>2, <1>3 DEF SteadyOK
  <2>2. LayOut(dec[d].key, file)
    BY <1>1, <2>1, OutputCells
  <2>3. m + 1 \in 1..ChunkCount(dec[d].key) /\ 2 + m + 1 = 2 + (m + 1) /\ ChunkCount(dec[d].key) \in Nat
    BY <1>s, <1>p, <2>1, Sizes
  <2>4. file[2 + m + 1] = Num(Len(Chunk(dec[d].key, m + 1)) + 1)
    BY <2>2, <2>3 DEF LayOut
  <2>5. 2 + m + 1 <= Len(file)
    BY <1>1, <1>s, <2>2, <2>3 DEF LayOut
  <2> QED BY <1>p, <2>1, <2>4, <2>5 DEF Available
<1>4. CASE ~Available(d, 1) /\ Returns(d, "error")
  BY <1>3, <1>4, ReturnsStep
<1>5. CASE Available(d, 1) /\ ~(~Available(d, 1) /\ Returns(d, "error"))
  <2>1. file[2 + m + 1] \in Cell
    BY <1>1, <1>s, <1>5, <1>p DEF Available
  <2>2. PICK n \in Reads(file[2 + m + 1]) :
          Becomes(d, [dec[d] EXCEPT !.pos = dec[d].pos + 1, !.sizes = Append(dec[d].sizes, n),
            !.at = IF Len(dec[d].sizes) + 1 = dec[d].count THEN "chunks" ELSE dec[d].at])
    BY <1>5, <1>p DEF ReadSize
  <2>3. n \in Nat /\ \A x : file[2 + m + 1] = Num(x) => n = x
    BY <2>1, ReadsNumber
  <2> DEFINE a == IF Len(dec[d].sizes) + 1 = dec[d].count THEN "chunks" ELSE dec[d].at
             t == Append(dec[d].sizes, n)
             q == dec[d].pos + 1
             r == [dec[d] EXCEPT !.pos = q, !.sizes = t, !.at = a]
  <2>4. a \in {"chunks", "sizes"} /\ (a = "chunks" <=> m + 1 = dec[d].count)
    BY <1>2 DEF m
  <2>5. Becomes(d, r)
    BY <2>2
  <2>6. t \in Seq(Nat) /\ Len(t) = m + 1 /\ t[m + 1] = n
        /\ \A i \in 1..m : t[i] = dec[d].sizes[i]
    BY <1>s, <2>3 DEF m
  <2>7. q \in Nat /\ q = 2 + m + 1
    BY <1>s, <1>p
  <2> HIDE DEF a, t, q
  <2>8. /\ r \in DecType /\ r.at = a /\ r.key = dec[d].key /\ r.pos = q
        /\ r.count = dec[d].count /\ r.sizes = t /\ r.out = dec[d].out
        /\ r.steady = dec[d].steady
    BY <1>1, <2>4, <2>6, <2>7 DEF DecType
  <2> HIDE DEF r
  <2>9. ReadOK(r)
    <3>1. \E x \in 0..enc[r.key].len : r.out = Text(r.key, x)
      BY <1>1, <2>8 DEF ReadOK
    <3>2. r.out = <<>> /\ Len(r.sizes) = m + 1 /\ r.count \in 1..MaxChunks /\ m + 1 <= r.count
          /\ m + 1 \in Nat \ {0}
      BY <1>s, <1>p, <2>6, <2>8, Sizes
    <3>3. r.at = "sizes" => Len(r.sizes) < r.count /\ r.pos = 2 + Len(r.sizes)
      BY <1>s, <2>4, <2>7, <2>8, <3>2, Sizes
    <3>4. ASSUME r.at = "chunks"
          PROVE  /\ Len(r.sizes) \in 1..r.count /\ r.pos = 2 + r.count + (r.count - Len(r.sizes)) * Stride
                 /\ r.out = Text(r.key, (r.count - Len(r.sizes)) * ChunkSize)
                 /\ ~(r.count - Len(r.sizes) > 0)
      <4>1. r.count = m + 1 /\ r.count - Len(r.sizes) = 0 /\ r.count \in Nat \ {0}
        BY <2>4, <2>8, <3>2, <3>4, Sizes
      <4>2. 0 * Stride = 0 /\ 0 * ChunkSize = 0
        BY Sizes
      <4>3. r.out = Text(r.key, 0)
        BY <1>1, <2>8, <3>2, TextType
      <4>4. r.pos = 2 + r.count + 0
        BY <1>s, <2>7, <2>8, <4>1
      <4>5. Len(r.sizes) \in 1..r.count
        BY <3>2, <4>1
      <4> QED BY <4>1, <4>2, <4>3, <4>4, <4>5
    <3> QED BY <2>4, <2>8, <3>1, <3>2, <3>3, <3>4 DEF ReadOK
  <2>10. ASSUME r.steady PROVE SteadyOK(r)
    <3>1. n = Len(Chunk(r.key, m + 1)) + 1 /\ SteadyOK(dec[d]) /\ r.count = ChunkCount(r.key)
      BY <1>1, <1>3, <2>3, <2>8, <2>10
    <3>2. \A i \in 1..m : dec[d].sizes[i] = Len(Chunk(r.key, i)) + 1
      BY <1>2, <2>8, <3>1 DEF SteadyOK, m
    <3>3. \A i \in 1..m + 1 : t[i] = Len(Chunk(r.key, i)) + 1
      <4> TAKE i \in 1..m + 1
      <4>1. CASE i \in 1..m
        BY <2>6, <3>2, <4>1
      <4>2. CASE ~(i \in 1..m)
        <5>1. i = m + 1
          BY <1>s, <4>2
        <5> QED BY <2>6, <3>1, <5>1
      <4> QED BY <4>1, <4>2
    <3>4. \A i \in 1..Len(r.sizes) : r.sizes[i] = Len(Chunk(r.key, i)) + 1
      BY <2>6, <2>8, <3>3
    <3>5. ASSUME r.at = "chunks", NEW i \in 1..Len(r.sizes)
          PROVE  r.sizes[i] = Len(Chunk(r.key, r.count - Len(r.sizes) + i)) + 1
      <4>1. r.count - Len(r.sizes) + i = i
        <5>1. r.count = m + 1 /\ Len(r.sizes) = m + 1
          BY <2>4, <2>6, <2>8, <3>5
        <5> QED BY <1>s, <5>1
      <4> QED BY <3>4, <4>1
    <3>6. r.key # Legacy /\ file = Output(r.key)
      BY <1>2, <2>8, <3>1 DEF SteadyOK
    <3> QED BY <2>4, <2>8, <3>1, <3>4, <3>5, <3>6 DEF SteadyOK
  <2> QED BY <2>5, <2>8, <2>9, <2>10, BecomesStep DEF Fits
<1> QED BY <1>4, <1>5 DEF ReadSize

\* The cells ahead of a decryption.
LEMMA AheadIs ==
  ASSUME NEW d, NEW n \in Nat, dec[d].pos \in Nat, file \in Seq(Cell), Available(d, n)
  PROVE  Ahead(d, n) = [x \in 1..n |-> file[dec[d].pos + x]]
<1> DEFINE p == dec[d].pos
<1>1. p \in Nat /\ p <= p + n /\ p + n <= Len(file) /\ p + n \in Nat
  BY DEF Available
<1>2. Ahead(d, n) = SubSeq(file, p + 1, p + n)
  BY <1>1 DEF Ahead, Least
<1>3. (p + n) - p = n
  BY <1>1
<1> HIDE DEF p
<1>4. SubSeq(file, p + 1, p + n) = [x \in 1..(p + n) - p |-> file[p + x]]
  BY <1>1, Piece
<1> QED BY <1>2, <1>3, <1>4 DEF p

\* How far a decryption in its chunks has come.
Opened(d) == dec[d].count - Len(dec[d].sizes)

LEMMA ChunksAt ==
  ASSUME StreamInv, NEW d \in Decrypts, dec[d].at = "chunks"
  PROVE  /\ Opened(d) \in Nat /\ Len(dec[d].sizes) \in Nat \ {0} /\ dec[d].sizes \in Seq(Nat)
         /\ Head(dec[d].sizes) \in Nat /\ Head(dec[d].sizes) = dec[d].sizes[1]
         /\ dec[d].count \in 1..MaxChunks /\ dec[d].count \in Nat
         /\ dec[d].count = Opened(d) + Len(dec[d].sizes)
         /\ dec[d].pos = 2 + dec[d].count + Opened(d) * Stride /\ dec[d].pos \in Nat
         /\ dec[d].out = Text(dec[d].key, Opened(d) * ChunkSize)
         /\ Opened(d) > 0 => dec[d].count = ChunkCount(dec[d].key)
<1>1. dec[d] \in DecType /\ ReadOK(dec[d])
  BY Current
<1>2. dec[d].sizes \in Seq(Nat) /\ dec[d].count \in Nat /\ dec[d].pos \in Nat
  BY <1>1 DEF DecType
<1>3. /\ dec[d].count \in 1..MaxChunks /\ Len(dec[d].sizes) \in 1..dec[d].count
      /\ dec[d].pos = 2 + dec[d].count + Opened(d) * Stride
      /\ dec[d].out = Text(dec[d].key, Opened(d) * ChunkSize)
      /\ Opened(d) > 0 => dec[d].count = ChunkCount(dec[d].key)
  BY <1>1 DEF ReadOK, Opened
<1>4. Opened(d) \in Nat /\ dec[d].count = Opened(d) + Len(dec[d].sizes)
      /\ Len(dec[d].sizes) \in Nat \ {0}
  <2>1. \A x \in Nat : \A y \in 1..x : x - y \in Nat /\ x = (x - y) + y /\ y \in Nat \ {0}
    OBVIOUS
  <2> QED BY <1>2, <1>3, <2>1 DEF Opened
<1>5. Head(dec[d].sizes) \in Nat /\ Head(dec[d].sizes) = dec[d].sizes[1]
  BY <1>2, <1>4
<1> QED BY <1>2, <1>3, <1>4, <1>5

\* A chunk that opens is the next chunk of the key's encryption: chunks carry no
\* number, but cells of a chunk are at one place only, and no header is as long
\* as a chunk.
LEMMA OpensNext ==
  ASSUME StreamInv, NEW d \in Decrypts, dec[d].at = "chunks",
         Available(d, Head(dec[d].sizes)),
         NEW plain \in Open(dec[d].key, Ahead(d, Head(dec[d].sizes)))
  PROVE  /\ dec[d].key \in Encrypts /\ dec[d].count = ChunkCount(dec[d].key)
         /\ plain = Chunk(dec[d].key, Opened(d) + 1)
         /\ Head(dec[d].sizes) = Len(Chunk(dec[d].key, Opened(d) + 1)) + 1
<1> DEFINE e == dec[d].key
           n == Head(dec[d].sizes)
           m == Opened(d)
           p == dec[d].pos
           c == dec[d].count
<1>1. /\ m \in Nat /\ n \in Nat /\ c \in 1..MaxChunks /\ c \in Nat /\ p \in Nat
      /\ p = 2 + c + m * Stride /\ (m > 0 => c = ChunkCount(e))
  BY ChunksAt
<1>2. e \in Makers /\ enc[e].len \in Nat /\ file \in Seq(Cell)
  BY Current
<1>3. PICK j \in 1..ChunkCount(e) : Ahead(d, n) = Seal(e, j, Chunk(e, j)) /\ plain = Chunk(e, j)
  BY DEF Open
<1> DEFINE t == Seal(e, j, Chunk(e, j))
           q == Len(Chunk(e, j)) + 1
<1>4. Len(t) = q /\ q \in Nat \ {0} /\ t[1] = SealedCell(e, j, 1)
  BY <1>2, SealIs
<1>5. Ahead(d, n) = [x \in 1..n |-> file[p + x]]
  BY <1>1, <1>2, AheadIs
<1>6. Len(Ahead(d, n)) = n /\ n = q
  BY <1>1, <1>3, <1>4, <1>5
<1>7. file[p + 1] = SealedCell(e, j, 1)
  <2>1. 1 \in 1..n
    BY <1>4, <1>6
  <2>2. Ahead(d, n)[1] = file[p + 1]
    BY <1>5, <2>1
  <2> QED BY <1>3, <1>4, <2>2
<1>8. p + 1 \in 1..Len(file)
  BY <1>1, <1>2, <1>4, <1>6 DEF Available
<1>9. j \in Nat \ {0} /\ j - 1 \in Nat /\ ChunkCount(e) \in Nat /\ 1 \in Nat \ {0}
  BY <1>2, CountBounds
<1>10. e \in Encrypts /\ p + 1 = Place(e, j, 1)
  BY <1>2, <1>7, <1>8, <1>9, SealedAt DEF StreamInv
<1> DEFINE a == m * Stride
           b == (j - 1) * Stride
<1>11. a \in Nat /\ b \in Nat
  BY <1>1, <1>9, Products, Sizes
<1>12. p + 1 = 2 + ChunkCount(e) + b + 1 /\ p = 2 + c + a
  BY <1>1, <1>10 DEF Place
<1> HIDE DEF a, b
<1>13. c + a = ChunkCount(e) + b
  BY <1>1, <1>9, <1>11, <1>12
<1>14. m = j - 1 /\ c = ChunkCount(e)
  <2>1. CASE m > 0
    <3>1. a = b
      BY <1>1, <1>9, <1>11, <1>13, <2>1
    <3>2. m = j - 1
      BY <1>1, <1>9, <3>1, Products, Sizes DEF a, b
    <3> QED BY <1>1, <2>1, <3>2
  <2>2. CASE ~(m > 0)
    <3>1. m = 0 /\ a = 0
      BY <1>1, <2>2, Sizes DEF a
    <3>2. b < Stride
      BY <1>1, <1>9, <1>11, <1>13, <3>1, Sizes
    <3>3. ASSUME 0 < j - 1 PROVE FALSE
      <4>1. 0 * Stride + Stride <= b
        BY <1>9, <3>3, Products, Sizes DEF b
      <4> QED BY <1>11, <3>2, <4>1, Sizes
    <3>4. j - 1 = 0
      BY <1>9, <3>3
    <3>5. b = 0
      BY <3>4, Sizes DEF b
    <3> QED BY <1>1, <1>9, <1>13, <3>1, <3>4, <3>5
  <2> QED BY <2>1, <2>2
<1>15. m + 1 = j
  BY <1>1, <1>9, <1>14
<1> QED BY <1>3, <1>6, <1>10, <1>14, <1>15

\* The chunks of a source, one after the other, are its beginnings.
LEMMA ChunkJoins ==
  ASSUME NEW e \in Makers, enc[e].len \in Nat, NEW m \in Nat, m + 1 \in 1..ChunkCount(e)
  PROVE  /\ Text(e, m * ChunkSize) \o Chunk(e, m + 1)
              = Text(e, Least((m + 1) * ChunkSize, enc[e].len))
         /\ Least((m + 1) * ChunkSize, enc[e].len) \in 0..enc[e].len
<1> DEFINE a == m * ChunkSize
           s == Text(e, a)
           t == Chunk(e, m + 1)
           b == Least((m + 1) * ChunkSize, enc[e].len)
<1>1. /\ a \in Nat /\ Len(t) \in 1..ChunkSize /\ a + Len(t) = b
      /\ t = [j \in 1..Len(t) |-> <<e, a + j>>]
  <2>1. (m + 1) - 1 = m
    OBVIOUS
  <2>2. /\ ((m + 1) - 1) * ChunkSize \in Nat /\ Len(t) \in 1..ChunkSize
        /\ ((m + 1) - 1) * ChunkSize + Len(t) = b
        /\ t = [j \in 1..Len(t) |-> <<e, ((m + 1) - 1) * ChunkSize + j>>]
    BY ChunkIs
  <2> HIDE DEF t, b
  <2> QED BY <2>1, <2>2
<1>2. Len(t) \in Nat /\ b \in Nat
  BY <1>1, Sizes
<1>3. b <= enc[e].len
  <2>1. (m + 1) * ChunkSize \in Nat
    BY Products, Sizes
  <2> QED BY <2>1 DEF Least
<1>4. s \in Seq(Makers \X Nat) /\ Len(s) = a
  BY <1>1, TextType
<1> HIDE DEF a, t, b
<1>5. t \in Seq(Makers \X Nat)
  <2> DEFINE u == Len(t)
  <2>1. t = [j \in 1..u |-> <<e, a + j>>] /\ u \in Nat
    BY <1>1, <1>2
  <2>2. \A j \in 1..u : <<e, a + j>> \in Makers \X Nat
    BY <1>1, <2>1
  <2> HIDE DEF u
  <2> QED BY <2>1, <2>2
<1>6. \A i \in 1..a : s[i] = <<e, i>>
  BY <1>1 DEF Text
<1>7. \A j \in 1..Len(t) : t[j] = <<e, a + j>>
  BY <1>1, Zenon
<1> HIDE DEF s
<1>8. s \o t \in Seq(Makers \X Nat) /\ Joined(s \o t, s, t)
  BY <1>4, <1>5, Concatenation
<1> DEFINE u == s \o t
<1> HIDE DEF u
<1>9. u \in Seq(Makers \X Nat) /\ Len(u) = b
      /\ (\A i \in 1..a : u[i] = s[i]) /\ \A k \in 1..Len(t) : u[a + k] = t[k]
  BY <1>1, <1>4, <1>8 DEF Joined, u
<1>10. ASSUME NEW i \in 1..b PROVE u[i] = <<e, i>>
  <2>1. CASE i <= a
    BY <1>1, <1>2, <1>6, <1>9, <2>1
  <2>2. CASE ~(i <= a)
    <3>1. i - a \in 1..Len(t) /\ a + (i - a) = i
      BY <1>1, <1>2, <2>2
    <3> QED BY <1>7, <1>9, <3>1
  <2> QED BY <2>1, <2>2
<1>11. u = Text(e, b)
  <2>1. Text(e, b) \in Seq(Makers \X Nat) /\ Len(Text(e, b)) = b
    BY <1>2, TextType
  <2>2. \A i \in 1..b : Text(e, b)[i] = <<e, i>>
    BY DEF Text
  <2> QED BY <1>9, <1>10, <2>1, <2>2, SeqEqual
<1> QED BY <1>2, <1>3, <1>11 DEF u, s, a, t, b

\* The next chunk of a complete file left alone can be read and opened.
LEMMA SteadyOpens ==
  ASSUME StreamInv, NEW d \in Decrypts, dec[d].at = "chunks", dec[d].steady
  PROVE  /\ Available(d, Head(dec[d].sizes))
         /\ Open(dec[d].key, Ahead(d, Head(dec[d].sizes))) # {}
<1> DEFINE e == dec[d].key
           n == Head(dec[d].sizes)
           m == Opened(d)
           p == dec[d].pos
<1>1. /\ m \in Nat /\ n \in Nat /\ p \in Nat /\ Len(dec[d].sizes) \in Nat \ {0}
      /\ dec[d].count = m + Len(dec[d].sizes) /\ n = dec[d].sizes[1]
      /\ p = 2 + dec[d].count + m * Stride
  BY ChunksAt
<1>2. e \in Makers /\ enc[e].len \in Nat /\ file \in Seq(Cell) /\ SteadyOK(dec[d])
  BY Current
<1>3. /\ e # Legacy /\ file = Output(e) /\ dec[d].count = ChunkCount(e)
      /\ \A i \in 1..Len(dec[d].sizes) : dec[d].sizes[i] = Len(Chunk(e, m + i)) + 1
  BY <1>2 DEF SteadyOK, Opened
<1>4. m + 1 \in 1..ChunkCount(e) /\ ChunkCount(e) \in Nat /\ n = Len(Chunk(e, m + 1)) + 1
  <2>1. 1 \in 1..Len(dec[d].sizes)
    BY <1>1
  <2>2. n = Len(Chunk(e, m + 1)) + 1
    BY <1>1, <1>3, <2>1
  <2>3. ChunkCount(e) \in Nat /\ ChunkCount(e) = m + Len(dec[d].sizes)
    BY <1>1, <1>2, <1>3, CountBounds
  <2>4. m + 1 \in 1..ChunkCount(e)
    BY <1>1, <2>3
  <2> QED BY <2>2, <2>3, <2>4
<1>5. LayOut(e, file)
  BY <1>2, <1>3, OutputCells
<1>6. /\ n \in Nat \ {0} /\ Len(Seal(e, m + 1, Chunk(e, m + 1))) = n
      /\ Seal(e, m + 1, Chunk(e, m + 1)) \in Seq(Cell)
      /\ \A k \in 1..n : Seal(e, m + 1, Chunk(e, m + 1))[k] = SealedCell(e, m + 1, k)
  BY <1>2, <1>4, SealIs
<1>7. \A k \in 1..n : Place(e, m + 1, k) = p + k
  <2>1. (m + 1) - 1 = m /\ m * Stride \in Nat
    BY <1>1, Products, Sizes
  <2> QED BY <1>1, <1>3, <1>4, <2>1 DEF Place
<1>8. \A k \in 1..n : p + k \in 1..Len(file) /\ file[p + k] = SealedCell(e, m + 1, k)
  <2> TAKE k \in 1..n
  <2>1. Place(e, m + 1, k) \in 1..Len(file) /\ file[Place(e, m + 1, k)] = SealedCell(e, m + 1, k)
    BY <1>4, <1>5 DEF LayOut
  <2> QED BY <1>7, <2>1
<1>9. Available(d, n)
  <2>1. n \in 1..n
    BY <1>6
  <2>2. p + n \in 1..Len(file)
    BY <1>8, <2>1
  <2> QED BY <1>2, <2>2 DEF Available
<1>10. Ahead(d, n) = Seal(e, m + 1, Chunk(e, m + 1))
  <2>1. Ahead(d, n) = [x \in 1..n |-> file[p + x]]
    BY <1>1, <1>2, <1>9, AheadIs
  <2>2. Seal(e, m + 1, Chunk(e, m + 1)) = [x \in 1..n |-> SealedCell(e, m + 1, x)]
    BY <1>4 DEF Seal, Overhead
  <2>3. [x \in 1..n |-> file[p + x]] = [x \in 1..n |-> SealedCell(e, m + 1, x)]
    BY <1>8, Zenon
  <2> QED BY <2>1, <2>2, <2>3
<1>11. Chunk(e, m + 1) \in Open(e, Ahead(d, n))
  BY <1>4, <1>10 DEF Open
<1> QED BY <1>9, <1>11

LEMMA OpenStep ==
  ASSUME StreamInv, NEW d \in Decrypts, dec[d].at = "chunks",
         Available(d, Head(dec[d].sizes)),
         NEW plain \in Open(dec[d].key, Ahead(d, Head(dec[d].sizes))), OpenChunk(d, plain)
  PROVE  StreamInv'
<1> DEFINE e == dec[d].key
           n == Head(dec[d].sizes)
           m == Opened(d)
           c == dec[d].count
           l == Len(dec[d].sizes)
<1>1. /\ m \in Nat /\ l \in Nat \ {0} /\ dec[d].sizes \in Seq(Nat) /\ n \in Nat
      /\ c \in 1..MaxChunks /\ c \in Nat /\ c = m + l
      /\ dec[d].pos = 2 + c + m * Stride /\ dec[d].pos \in Nat
      /\ dec[d].out = Text(e, m * ChunkSize)
  BY ChunksAt
<1>2. /\ dec[d] \in DecType /\ (dec[d].steady => SteadyOK(dec[d]))
      /\ e \in Makers /\ enc[e].len \in Nat
  BY Current
<1>3. e \in Encrypts /\ c = ChunkCount(e) /\ plain = Chunk(e, m + 1) /\ n = Len(Chunk(e, m + 1)) + 1
  BY OpensNext
<1>4. m + 1 \in 1..ChunkCount(e) /\ m + 1 \in Nat /\ ChunkCount(e) \in Nat
  BY <1>1, <1>3
<1>p. (m + 1) * ChunkSize \in Nat /\ m * Stride \in Nat /\ (m + 1) * Stride = m * Stride + Stride
  BY <1>1, <1>4, Product, Sizes
<1> DEFINE g == Least((m + 1) * ChunkSize, enc[e].len)
           o == dec[d].out \o plain
           t == Tail(dec[d].sizes)
           q == dec[d].pos + n
           a == IF Len(dec[d].sizes) = 1 THEN "ok" ELSE dec[d].at
           r == [dec[d] EXCEPT !.pos = q, !.sizes = t, !.out = o, !.at = a]
<1>5. Becomes(d, r)
  BY DEF OpenChunk
<1>6. o = Text(e, g) /\ g \in 0..enc[e].len
  BY <1>1, <1>2, <1>3, <1>4, ChunkJoins
<1>7. t \in Seq(Nat) /\ Len(t) = l - 1 /\ \A i \in 1..l - 1 : t[i] = dec[d].sizes[i + 1]
  BY <1>1
<1>8. q \in Nat
  BY <1>1
<1>9. a \in {"ok", "chunks"} /\ (a = "ok" <=> l = 1)
  OBVIOUS
<1>10. g \in Nat
  BY <1>2, <1>6
<1>11. o \in Seq(Makers \X Nat)
  BY <1>2, <1>6, <1>10, TextType
<1>12. m + 1 < ChunkCount(e) => n = Stride /\ g = (m + 1) * ChunkSize
  <2>1. m + 1 < ChunkCount(e) => Len(Chunk(e, m + 1)) = ChunkSize
    BY <1>2, <1>4, ChunkIs
  <2>2. ASSUME m + 1 < ChunkCount(e) PROVE (m + 1) * ChunkSize < enc[e].len
    BY <1>2, <1>4, <2>2, CountBounds
  <2> QED BY <1>2, <1>3, <1>p, <2>1, <2>2, Sizes DEF Least
<1>13. m + 1 = ChunkCount(e) => g = enc[e].len
  <2>1. enc[e].len <= ChunkCount(e) * ChunkSize
    BY <1>2, CountBounds
  <2> QED BY <1>2, <1>p, <2>1 DEF Least
<1>15. enc[e].len > 0
  BY <1>1, <1>2, <1>4, CountBounds
<1>16. e # Legacy
  BY <1>3, LegacyIs
<1>17. Text(e, enc[e].len) = Source(e)
  BY DEF Text, Source
<1> HIDE DEF g, o, t, q, a
<1>18. /\ r \in DecType /\ r.at = a /\ r.key = e /\ r.pos = q
       /\ r.count = c /\ r.sizes = t /\ r.out = o /\ r.steady = dec[d].steady
  BY <1>2, <1>7, <1>8, <1>9, <1>11 DEF DecType
<1>19. q = 2 + c + m * Stride + n
  BY <1>1 DEF q
<1> HIDE DEF r
<1>20. r.count - Len(r.sizes) = m + 1
  <2>1. Len(r.sizes) = l - 1 /\ r.count = m + l
    BY <1>1, <1>7, <1>18
  <2> QED BY <1>1, <2>1
<1>21. ASSUME a = "ok" PROVE r.out = Source(r.key)
  <2>1. m + 1 = ChunkCount(e)
    BY <1>1, <1>3, <1>9, <1>21
  <2> QED BY <1>6, <1>13, <1>17, <1>18, <2>1
<1>22. ASSUME a = "chunks"
       PROVE  /\ Len(r.sizes) \in 1..r.count /\ r.pos = 2 + r.count + (m + 1) * Stride
              /\ r.out = Text(r.key, (m + 1) * ChunkSize)
  <2>1. l > 1 /\ m + 1 < ChunkCount(e) /\ l - 1 \in 1..c
    <3>1. l # 1
      BY <1>9, <1>22
    <3>2. \A x \in Nat, y \in Nat \ {0, 1} : y > 1 /\ x + 1 < x + y /\ y - 1 \in 1..x + y
      OBVIOUS
    <3>3. l \in Nat \ {0, 1} /\ ChunkCount(e) = m + l /\ c = m + l
      BY <1>1, <1>3, <3>1
    <3> HIDE DEF l, m, c, e
    <3> QED BY <1>1, <3>2, <3>3
  <2>2. n = Stride /\ g = (m + 1) * ChunkSize
    BY <1>12, <2>1
  <2>3. q = 2 + c + (m + 1) * Stride
    <3> DEFINE x == m * Stride
               y == (m + 1) * Stride
    <3>1. x \in Nat /\ y = x + Stride /\ q = 2 + c + x + Stride /\ c \in Nat
      BY <1>1, <1>p, <1>19, <2>2
    <3> HIDE DEF x, y, c
    <3>2. q = 2 + c + y
      BY <3>1, Sizes
    <3> QED BY <3>2 DEF y
  <2> QED BY <1>6, <1>7, <1>18, <2>1, <2>2, <2>3
<1>23. ReadOK(r)
  <2>1. \E x \in 0..enc[r.key].len : r.out = Text(r.key, x)
    BY <1>6, <1>18
  <2>2. r.count \in 1..MaxChunks /\ r.count = ChunkCount(r.key) /\ enc[r.key].len > 0
    BY <1>1, <1>3, <1>15, <1>18
  <2>3. r.at \in {"ok", "chunks"}
    BY <1>9, <1>18
  <2> QED BY <1>18, <1>20, <1>21, <1>22, <2>1, <2>2, <2>3 DEF ReadOK
<1>24. ASSUME r.steady PROVE SteadyOK(r)
  <2>1. /\ file = Output(e) /\ \A i \in 1..l : dec[d].sizes[i] = Len(Chunk(e, m + i)) + 1
    BY <1>2, <1>16, <1>18, <1>24 DEF SteadyOK, Opened
  <2>2. \A i \in 1..l - 1 : t[i] = Len(Chunk(e, m + 1 + i)) + 1
    <3> TAKE i \in 1..l - 1
    <3>1. i + 1 \in 1..l /\ m + (i + 1) = m + 1 + i
      <4> HIDE DEF l, m
      <4> QED BY <1>1
    <3> QED BY <1>7, <2>1, <3>1
  <2>3. \A i \in 1..Len(r.sizes) : r.sizes[i] = Len(Chunk(r.key, m + 1 + i)) + 1
    BY <1>7, <1>18, <2>2
  <2>4. r.at \in {"ok", "chunks"} /\ r.key # Legacy /\ r.count = ChunkCount(r.key)
        /\ file = Output(r.key)
    BY <1>3, <1>9, <1>16, <1>18, <2>1
  <2> QED BY <1>20, <2>3, <2>4 DEF SteadyOK
<1> QED BY <1>5, <1>18, <1>23, <1>24, BecomesStep DEF Fits

LEMMA ChunkStep ==
  ASSUME StreamInv, NEW d \in Decrypts, ReadChunk(d)
  PROVE  StreamInv'
<1> DEFINE n == Head(dec[d].sizes)
           plains == Open(dec[d].key, Ahead(d, n))
<1>1. dec[d].at = "chunks"
  BY DEF ReadChunk
<1>2. \/ (~Available(d, n) \/ plains = {}) /\ Returns(d, "error")
      \/ Available(d, n) /\ \E plain \in plains : OpenChunk(d, plain)
  BY DEF ReadChunk
<1>3. CASE (~Available(d, n) \/ plains = {}) /\ Returns(d, "error")
  <2>1. ~dec[d].steady
    BY <1>1, <1>3, SteadyOpens
  <2> QED BY <1>3, <2>1, ReturnsStep
<1>4. CASE Available(d, n) /\ \E plain \in plains : OpenChunk(d, plain)
  BY <1>1, <1>4, OpenStep
<1> QED BY <1>2, <1>3, <1>4

LEMMA DecryptFailsStep ==
  ASSUME StreamInv, NEW d \in Decrypts, DecryptFails(d)
  PROVE  StreamInv'
  BY ReturnsStep DEF DecryptFails

LEMMA StreamStutter ==
  ASSUME StreamInv, UNCHANGED vars
  PROVE  StreamInv'
<1>1. file' = file /\ enc' = enc /\ dec' = dec
  BY DEF vars
<1>2. \A e : Output(e)' = Output(e) /\ \A i, k : Place(e, i, k)' = Place(e, i, k)
  BY <1>1, SameLength
<1>3. VarTypes' /\ WriterInv' /\ FileInv'
  BY <1>1, <1>2 DEF StreamInv, VarTypes, WriterInv, FileInv, Cell
<1>4. ReadInv' /\ SteadyInv'
  BY <1>1, DecryptsKept
<1> QED BY <1>3, <1>4 DEF StreamInv

-----------------------------------------------------------------------------
(* The theorems.                                                           *)

LEMMA StreamNext == StreamInv /\ [Next]_vars => StreamInv'
<1> SUFFICES ASSUME StreamInv, [Next]_vars PROVE StreamInv'
  OBVIOUS
<1>1. ASSUME NEW e \in Encrypts, EncryptFileStreaming(e) PROVE StreamInv'
  BY <1>1, CreateStep, WriteStep, FailStep DEF EncryptFileStreaming
<1>2. ASSUME NEW d \in Decrypts, DecryptFileStreaming(d) PROVE StreamInv'
  BY <1>2, StartStep, MagicStep, V1Step, CountStep, SizeStep, ChunkStep, DecryptFailsStep
     DEF DecryptFileStreaming
<1>3. CASE UNCHANGED vars
  BY <1>3, StreamStutter
<1> QED BY <1>1, <1>2, <1>3 DEF Next

\* The invariant holds of every behaviour: any number of encryptions and
\* decryptions of one file, each stopped anywhere, sources of any length.
THEOREM StreamInvariant == Spec => []StreamInv
  BY StreamInit, StreamNext, PTL DEF Spec

\* decryptV2 never holds more than MaxChunks sizes, whatever it took for a
\* count, and its chunk loop is never without one.
THEOREM TypeCorrect == Spec => []TypeOK
<1>1. StreamInv => TypeOK
  <2> SUFFICES ASSUME StreamInv PROVE TypeOK
    OBVIOUS
  <2>1. ASSUME NEW e \in Makers
        PROVE  /\ enc[e].at \in {"idle", "writing", "done", "failed"}
               /\ enc[e].len \in Nat /\ enc[e].written \in Nat
    BY DEF StreamInv, VarTypes, EncType
  <2>2. ASSUME NEW d \in Decrypts
        PROVE  /\ dec[d].at \in {"idle", "magic", "v1", "count", "sizes", "chunks",
                                 "ok", "error", "failed"}
               /\ dec[d].key \in Makers /\ dec[d].steady \in BOOLEAN
               /\ dec[d].at \in {"sizes", "chunks"} =>
                    dec[d].count \in 1..MaxChunks /\ Len(dec[d].sizes) <= dec[d].count
               /\ dec[d].at = "chunks" => dec[d].sizes # <<>>
    <3>1. dec[d] \in DecType /\ ReadOK(dec[d])
      BY Current
    <3>2. dec[d].sizes \in Seq(Nat) /\ Len(dec[d].sizes) \in Nat
      BY <3>1 DEF DecType
    <3>3. dec[d].at = "sizes" => dec[d].count \in 1..MaxChunks /\ Len(dec[d].sizes) <= dec[d].count
      BY <3>1, <3>2, Sizes DEF ReadOK
    <3>4. dec[d].at = "chunks" => /\ dec[d].count \in 1..MaxChunks
                                  /\ Len(dec[d].sizes) \in 1..dec[d].count
      BY <3>1 DEF ReadOK
    <3>5. dec[d].at = "chunks" => Len(dec[d].sizes) <= dec[d].count /\ dec[d].sizes # <<>>
      BY <3>2, <3>4
    <3> QED BY <3>1, <3>3, <3>4, <3>5 DEF DecType
  <2> QED BY <2>1, <2>2 DEF TypeOK
<1> QED BY <1>1, StreamInvariant, PTL

\* A decryption that returns no error has written exactly the source of the
\* encryption whose key it holds, though chunks are not bound to their place
\* and any number of calls may be writing and cutting the file under it.
THEOREM WholeOrError == Spec => []DecryptsWhole
<1>1. StreamInv => DecryptsWhole
  BY DEF StreamInv, ReadInv, ReadOK, DecryptsWhole
<1> QED BY <1>1, StreamInvariant, PTL

\* Wherever a decryption stops, dstPath holds a beginning of that source.
THEOREM OutputIsPrefix == Spec => []OutIsPrefix
<1>1. ASSUME StreamInv, NEW d \in Decrypts PROVE IsPrefix(dec[d].out, Source(dec[d].key))
  <2> DEFINE e == dec[d].key
             s == Source(e)
  <2>1. e \in Makers /\ enc[e].len \in Nat /\ ReadOK(dec[d])
    BY <1>1, Current
  <2>2. PICK n \in 0..enc[e].len : dec[d].out = Text(e, n)
    BY <2>1 DEF ReadOK
  <2>3. s = Text(e, enc[e].len)
    BY DEF Source, Text
  <2>4. Len(Text(e, n)) = n /\ Len(s) = enc[e].len /\ n \in Nat
    BY <2>1, <2>3, TextType
  <2>5. \A i \in 1..n : Text(e, n)[i] = s[i]
    BY <2>1, <2>3 DEF Text
  <2>6. s \in Seq(Makers \X Nat) /\ n \in 0..Len(s)
    BY <2>1, <2>3, <2>4, TextType
  <2>7. SubSeq(s, 1, n) = Text(e, n)
    BY <2>4, <2>5, <2>6 DEF Text
  <2> QED BY <2>2, <2>4, <2>6, <2>7 DEF IsPrefix
<1>2. StreamInv => OutIsPrefix
  BY <1>1 DEF OutIsPrefix
<1> QED BY <1>2, StreamInvariant, PTL

\* A complete file left alone decrypts without an error, unless it has no
\* chunk or more than MaxChunks.
THEOREM RoundTrip == Spec => []RoundTrips
<1>1. StreamInv => RoundTrips
  BY DEF StreamInv, SteadyInv, SteadyOK, RoundTrips
<1> QED BY <1>1, StreamInvariant, PTL
=============================================================================
