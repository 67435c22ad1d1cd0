----------------------- MODULE MoleculeBuilder_proofs ------------------------
(***************************************************************************)
(* Proofs about the builders, for every schema and every client that meets *)
(* the assumptions of MoleculeBuilder, any number of calls, and any number *)
(* of values of a byte: what is built reads back.  At the end, the memory  *)
(* of a builder, for every size of a mol_num_t.                            *)
(*                                                                         *)
(* The argument in short: a block "holds" bytes at an address; Keeps says  *)
(* which bytes the builder of each kind of type holds where; each call     *)
(* keeps that for the contents the client now asks for; and from a builder *)
(* that keeps its contents _build writes a value with parts (HasParts) in  *)
(* which the verifier and the getters find the same bytes.                 *)
(***************************************************************************)
EXTENDS MoleculeBuilder, BuilderMemory, SequenceTheorems, WellFoundedInduction, TLAPS

(***************************************************************************)
(* Induction on natural numbers, for a set, and recursive functions.       *)
(***************************************************************************)
LEMMA SetInduction ==
  ASSUME NEW P, 0 \in P, \A n \in Nat : n \in P => n + 1 \in P
  PROVE  \A n \in Nat : n \in P
<1> SUFFICES ASSUME Nat \ P # {} PROVE FALSE
  OBVIOUS
<1>1. PICK k \in Nat \ P : \A j \in Nat \ P : ~(<<j, k>> \in OpToRel(<, Nat))
  BY NatLessThanWellFounded, WFMin
<1>2. k \in Nat /\ k - 1 \in Nat
  <2>1. k # 0
    BY Zenon
  <2>2. k \in Nat
    BY Zenon
  <2> QED BY <2>1, <2>2
<1>3. k - 1 \notin P
  <2>1. k = (k - 1) + 1
    BY <1>2
  <2> QED BY <1>2, <2>1, Zenon
<1>4. <<k - 1, k>> \in Nat \X Nat /\ <<k - 1, k>>[1] < <<k - 1, k>>[2]
  BY <1>2
<1>5. <<k - 1, k>> \in OpToRel(<, Nat)
  BY <1>4, Zenon DEF OpToRel
<1> QED BY <1>1, <1>2, <1>3, <1>5

(* f takes N steps of G from s0 on: what a recursive function of the model   *)
(* does.                                                                     *)
Follows(f, S, s0, N, G) ==
  f \in [0..N -> S] /\ f[0] = s0 /\ \A k \in 1..N : f[k] = G[<<k, f[k - 1]>>]

(* There is such a function, for every G.                                    *)
LEMMA FollowsExists ==
  ASSUME NEW S, NEW s0 \in S, NEW N \in Nat, NEW G \in [(1..N) \X S -> S]
  PROVE  \E f : Follows(f, S, s0, N, G)
<1> DEFINE Extent(n) ==
      \E f \in [0..n -> S] : f[0] = s0 /\ \A k \in 1..n : f[k] = G[<<k, f[k - 1]>>]
    P == {n \in Nat : n <= N => Extent(n)}
<1>1. 0 \in P
  <2>1. [k \in 0..0 |-> s0] \in [0..0 -> S] /\ [k \in 0..0 |-> s0][0] = s0
    OBVIOUS
  <2>2. \A k \in 1..0 : FALSE
    OBVIOUS
  <2>3. Extent(0)
    BY <2>1, <2>2, Zenon
  <2> QED BY <2>3
<1>2. ASSUME NEW n \in Nat, n \in P PROVE n + 1 \in P
  <2> SUFFICES ASSUME n + 1 <= N PROVE Extent(n + 1)
    OBVIOUS
  <2>1. PICK f \in [0..n -> S] : f[0] = s0 /\ \A k \in 1..n : f[k] = G[<<k, f[k - 1]>>]
    BY <1>2
  <2> DEFINE g == [k \in 0..(n + 1) |-> IF k = n + 1 THEN G[<<n + 1, f[n]>>] ELSE f[k]]
  <2>2. g \in [0..(n + 1) -> S]
    <3>1. <<n + 1, f[n]>> \in (1..N) \X S
      BY <2>1
    <3> QED BY <3>1
  <2>3. g[0] = s0
    BY <2>1
  <2>4. ASSUME NEW k \in 1..(n + 1) PROVE g[k] = G[<<k, g[k - 1]>>]
    <3>1. CASE k = n + 1
      <4>1. k - 1 \in 0..(n + 1) /\ k - 1 = n /\ n # n + 1
        BY <3>1
      <4>2. g[k] = G[<<n + 1, f[n]>>] /\ g[k - 1] = f[n]
        BY <3>1, <4>1
      <4> QED BY <3>1, <4>2
    <3>2. CASE k \in 1..n
      <4>1. k \in 0..n /\ k - 1 \in 0..n /\ k # n + 1 /\ k - 1 # n + 1
        BY <3>2
      <4>2. g[k] = f[k] /\ g[k - 1] = f[k - 1]
        BY <4>1
      <4> QED BY <2>1, <3>2, <4>2, Zenon
    <3> QED BY <3>1, <3>2
  <2> QED BY <2>2, <2>3, <2>4, Zenon
<1>3. N \in P
  <2> HIDE DEF P
  <2> QED BY <1>1, <1>2, SetInduction
<1>4. Extent(N)
  BY <1>3
<1> QED BY <1>4 DEF Follows

(* A set of natural numbers has a least one.                                 *)
LEMMA LeastInSet ==
  ASSUME NEW S, S \subseteq Nat, S # {}
  PROVE  \E k \in S : \A j \in Nat : j < k => j \notin S
<1>1. PICK k \in S : \A j \in S : ~(<<j, k>> \in OpToRel(<, Nat))
  BY NatLessThanWellFounded, WFMin
<1>2. ASSUME NEW j \in Nat, j < k PROVE <<j, k>> \in OpToRel(<, Nat)
  <2>1. <<j, k>> \in Nat \X Nat /\ <<j, k>>[1] < <<j, k>>[2]
    BY <1>2
  <2> QED BY <2>1, Zenon DEF OpToRel
<1> QED BY <1>1, <1>2, Zenon

-----------------------------------------------------------------------------
(* The loop that doubles a capacity ends with one that is enough, and, if it *)
(* had to double at all, with less than twice of what is needed.             *)
LEMMA GrownIsEnough ==
  ASSUME NEW c \in Nat \ {0}, NEW needed \in Nat
  PROVE  /\ Grown(c, needed) \in Nat /\ Grown(c, needed) >= needed
         /\ Grown(c, needed) >= c
         /\ Grown(c, needed) = c \/ Grown(c, needed) < 2 * needed
<1> DEFINE Doubles(f) == f = [n \in 0..needed |-> IF n = 0 THEN c ELSE 2 * f[n - 1]]
           d == CHOOSE f : Doubles(f)
           G == [p \in (1..needed) \X Nat |-> 2 * p[2]]
           Enough == {n \in 0..needed : d[n] >= needed}
           Turns == {n \in 0..needed : d[n] >= needed /\ \A m \in 0..(n - 1) : d[m] < needed}
<1>1. \E f \in [0..needed -> Nat] : Doubles(f)
  <2>1. G \in [(1..needed) \X Nat -> Nat]
    OBVIOUS
  <2>0. c \in Nat
    OBVIOUS
  <2> HIDE DEF G
  <2>2. PICK f : Follows(f, Nat, c, needed, G)
    BY <2>0, <2>1, FollowsExists, Zenon
  <2>3. f \in [0..needed -> Nat] /\ f[0] = c /\ \A n \in 1..needed : f[n] = G[<<n, f[n - 1]>>]
    BY <2>2 DEF Follows
  <2> USE DEF G
  <2>4. ASSUME NEW n \in 0..needed PROVE f[n] = IF n = 0 THEN c ELSE 2 * f[n - 1]
    <3>1. CASE n = 0
      BY <2>3, <3>1
    <3>2. CASE n # 0
      <4>1. n \in 1..needed /\ n - 1 \in 0..needed
        BY <3>2
      <4>2. f[n - 1] \in Nat /\ f[n] = G[<<n, f[n - 1]>>]
        BY <2>3, <4>1
      <4> QED BY <3>2, <4>1, <4>2
    <3> QED BY <3>1, <3>2
  <2>5. f = [n \in 0..needed |-> f[n]]
    BY <2>3
  <2>6. Doubles(f)
    BY <2>4, <2>5, Zenon
  <2> QED BY <2>3, <2>6
<1>2. Doubles(d)
  BY <1>1, Zenon
<1>3. ASSUME NEW n \in 0..needed PROVE d[n] = IF n = 0 THEN c ELSE 2 * d[n - 1]
  BY <1>2
<1> HIDE DEF d
<1>4. \A n \in Nat : n \in {m \in Nat : m <= needed => d[m] \in Nat /\ d[m] >= m /\ d[m] >= c}
  <2> DEFINE P == {m \in Nat : m <= needed => d[m] \in Nat /\ d[m] >= m /\ d[m] >= c}
  <2>1. 0 \in P
    BY <1>3
  <2>2. ASSUME NEW n \in Nat, n \in P PROVE n + 1 \in P
    <3> SUFFICES ASSUME n + 1 <= needed PROVE d[n + 1] \in Nat /\ d[n + 1] >= n + 1 /\ d[n + 1] >= c
      OBVIOUS
    <3>1. d[n] \in Nat /\ d[n] >= n /\ d[n] >= c
      BY <2>2
    <3>2. d[n + 1] = 2 * d[n]
      <4>1. n + 1 \in 0..needed /\ n + 1 # 0 /\ (n + 1) - 1 = n
        OBVIOUS
      <4> QED BY <1>3, <4>1
    <3> QED BY <3>1, <3>2
  <2> HIDE DEF P
  <2>3. \A n \in Nat : n \in P
    BY <2>1, <2>2, SetInduction
  <2> QED BY <2>3 DEF P
<1>5. ASSUME NEW n \in 0..needed PROVE d[n] \in Nat /\ d[n] >= n /\ d[n] >= c
  BY <1>4
<1>6. \E n \in 0..needed : d[n] >= needed /\ \A m \in 0..(n - 1) : d[m] < needed
  <2>1. needed \in Enough /\ Enough \subseteq Nat
    BY <1>5
  <2> HIDE DEF Enough
  <2>2. PICK k \in Enough : \A j \in Nat : j < k => j \notin Enough
    BY <2>1, LeastInSet
  <2> USE DEF Enough
  <2>3. ASSUME NEW m \in 0..(k - 1) PROVE d[m] < needed
    <3>1. m \in Nat /\ m < k /\ m \in 0..needed
      BY <2>2
    <3>2. m \notin Enough /\ d[m] \in Nat
      BY <1>5, <2>2, <3>1
    <3> QED BY <3>1, <3>2
  <2> QED BY <2>2, <2>3
<1> DEFINE t == CHOOSE n \in 0..needed : d[n] >= needed /\ \A m \in 0..(n - 1) : d[m] < needed
<1>7. t \in 0..needed /\ d[t] >= needed /\ \A m \in 0..(t - 1) : d[m] < needed
  BY <1>6, Zenon
<1>8. Grown(c, needed) = d[t]
  BY Zenon DEF Grown, d
<1> HIDE DEF t
<1>9. d[t] = c \/ d[t] < 2 * needed
  <2>1. CASE t = 0
    BY <1>3, <1>7, <2>1
  <2>2. CASE t # 0
    <3>1. t - 1 \in 0..(t - 1) /\ t - 1 \in 0..needed
      BY <1>7, <2>2
    <3>2. d[t - 1] \in Nat /\ d[t - 1] < needed
      BY <1>5, <1>7, <3>1
    <3>3. d[t] = 2 * d[t - 1]
      BY <1>3, <1>7, <2>2
    <3> QED BY <3>2, <3>3
  <2> QED BY <2>1, <2>2
<1> QED BY <1>5, <1>7, <1>8, <1>9

-----------------------------------------------------------------------------
(***************************************************************************)
(* Bytes that lie at an address of a buffer.                               *)
(***************************************************************************)
Holds(buf, p, bytes) ==
  p + Len(bytes) <= Len(buf) /\ \A j \in 1..Len(bytes) : buf[p + j] = bytes[j]

(* What a buffer holds stays there when something is written behind it.      *)
LEMMA HoldsBefore ==
  ASSUME NEW S, NEW a \in Seq(S), NEW b \in Seq(S), NEW x \in Seq(S), NEW p \in Nat, Holds(a, p, x)
  PROVE  Holds(a \o b, p, x)
<1>1. a \o b \in Seq(S) /\ Len(a \o b) = Len(a) + Len(b)
      /\ \A i \in 1..Len(a) : (a \o b)[i] = a[i]
  BY ConcatProperties
<1>2. ASSUME NEW j \in 1..Len(x) PROVE (a \o b)[p + j] = x[j]
  <2>1. p + j \in 1..Len(a) /\ a[p + j] = x[j]
    BY DEF Holds
  <2> QED BY <1>1, <2>1
<1> QED BY <1>1, <1>2 DEF Holds

(* What is written behind a buffer lies as much further on.                  *)
LEMMA HoldsBehind ==
  ASSUME NEW S, NEW a \in Seq(S), NEW b \in Seq(S), NEW x \in Seq(S), NEW p \in Nat, Holds(b, p, x)
  PROVE  Holds(a \o b, Len(a) + p, x)
<1>1. a \o b \in Seq(S) /\ Len(a \o b) = Len(a) + Len(b)
      /\ \A i \in (Len(a) + 1)..(Len(a) + Len(b)) : (a \o b)[i] = b[i - Len(a)]
  BY ConcatProperties
<1>2. ASSUME NEW j \in 1..Len(x) PROVE (a \o b)[Len(a) + p + j] = x[j]
  <2>1. p + j \in 1..Len(b) /\ b[p + j] = x[j]
    BY DEF Holds
  <2>2. Len(a) + p + j \in (Len(a) + 1)..(Len(a) + Len(b)) /\ (Len(a) + p + j) - Len(a) = p + j
    BY <2>1
  <2> QED BY <1>1, <2>1, <2>2
<1> QED BY <1>1, <1>2 DEF Holds

(* A buffer holds itself.                                                    *)
LEMMA HoldsItself ==
  ASSUME NEW S, NEW x \in Seq(S)
  PROVE  Holds(x, 0, x)
  BY DEF Holds

(* The bytes of a segment are those the buffer holds there.                  *)
LEMMA HoldsSegment ==
  ASSUME NEW S, NEW buf \in Seq(S), NEW x \in Seq(S), NEW p \in Nat, Holds(buf, p, x)
  PROVE  BytesOf(buf, Segment(p, Len(x))) = x
<1>1. Len(x) \in Nat /\ p + Len(x) <= Len(buf)
  BY DEF Holds
<1>2. BytesOf(buf, Segment(p, Len(x))) = SubSeq(buf, p + 1, p + Len(x))
  BY <1>1 DEF BytesOf, Segment, Inside
<1>3. SubSeq(buf, p + 1, p + Len(x)) \in Seq(S) /\ Len(SubSeq(buf, p + 1, p + Len(x))) = Len(x)
      /\ \A j \in 1..Len(x) : SubSeq(buf, p + 1, p + Len(x))[j] = buf[p + j]
  BY <1>1, SubSeqProperties
<1>4. \A j \in 1..Len(x) : buf[p + j] = x[j]
  BY DEF Holds
<1> QED BY <1>2, <1>3, <1>4, SeqEqual

(***************************************************************************)
(* Parts that follow each other: where each of them lies.                  *)
(***************************************************************************)
LEMMA EndsAreSums ==
  ASSUME NEW n \in Nat, NEW lengths \in [1..n -> Nat], NEW ends, ends = Ends(lengths), Len(lengths) = n
  PROVE  /\ ends \in [0..n -> Nat]
         /\ ends[0] = 0
         /\ \A k \in 1..n : ends[k] = ends[k - 1] + lengths[k]
<1> DEFINE Sums(f) == f = [k \in 0..Len(lengths) |-> IF k = 0 THEN 0 ELSE f[k - 1] + lengths[k]]
           G == [p \in (1..n) \X Nat |-> p[2] + lengths[p[1]]]
<1>1. G \in [(1..n) \X Nat -> Nat] /\ 0 \in Nat
  OBVIOUS
<1> HIDE DEF G
<1>2. PICK f : Follows(f, Nat, 0, n, G)
  BY <1>1, FollowsExists, Zenon
<1>3. f \in [0..n -> Nat] /\ f[0] = 0 /\ \A k \in 1..n : f[k] = G[<<k, f[k - 1]>>]
  BY <1>2 DEF Follows
<1> USE DEF G
<1>4. ASSUME NEW k \in 0..n PROVE f[k] = IF k = 0 THEN 0 ELSE f[k - 1] + lengths[k]
  <2>1. CASE k = 0
    BY <1>3, <2>1
  <2>2. CASE k # 0
    <3>1. k \in 1..n /\ k - 1 \in 0..n
      BY <2>2
    <3>2. f[k - 1] \in Nat /\ f[k] = G[<<k, f[k - 1]>>]
      BY <1>3, <3>1
    <3> QED BY <2>2, <3>1, <3>2
  <2> QED BY <2>1, <2>2
<1>5. f = [k \in 0..Len(lengths) |-> f[k]]
  BY <1>3
<1>6. Sums(f)
  BY <1>4, <1>5, Zenon
<1> DEFINE d == CHOOSE g : Sums(g)
<1>7. Sums(d)
  BY <1>6, Zenon
<1>8. ends = d
  BY Zenon DEF Ends
<1>9. ASSUME NEW k \in 0..n PROVE ends[k] = IF k = 0 THEN 0 ELSE ends[k - 1] + lengths[k]
  BY <1>7, <1>8
<1>10. ends = [k \in 0..n |-> ends[k]]
  <2>1. d = [k \in 0..Len(lengths) |-> IF k = 0 THEN 0 ELSE d[k - 1] + lengths[k]]
    BY <1>7
  <2> QED BY <1>8, <2>1
<1> HIDE DEF d
<1>11. \A k \in Nat : k \in {m \in Nat : m <= n => ends[m] \in Nat}
  <2> DEFINE P == {m \in Nat : m <= n => ends[m] \in Nat}
  <2>1. 0 \in P
    BY <1>9
  <2>2. ASSUME NEW k \in Nat, k \in P PROVE k + 1 \in P
    <3> SUFFICES ASSUME k + 1 <= n PROVE ends[k + 1] \in Nat
      OBVIOUS
    <3>1. k + 1 \in 0..n /\ k + 1 # 0 /\ (k + 1) - 1 = k /\ lengths[k + 1] \in Nat /\ ends[k] \in Nat
      BY <2>2
    <3>2. ends[k + 1] = ends[k] + lengths[k + 1]
      BY <1>9, <3>1
    <3> QED BY <3>1, <3>2
  <2> HIDE DEF P
  <2>3. \A k \in Nat : k \in P
    BY <2>1, <2>2, SetInduction
  <2> QED BY <2>3 DEF P
<1>12. \A k \in 0..n : ends[k] \in Nat
  BY <1>11
<1>13. ends \in [0..n -> Nat]
  BY <1>10, <1>12
<1>14. ends[0] = 0
  BY <1>9
<1>15. ASSUME NEW k \in 1..n PROVE ends[k] = ends[k - 1] + lengths[k]
  <2>1. k \in 0..n /\ k # 0
    OBVIOUS
  <2> QED BY <1>9, <2>1
<1> QED BY <1>13, <1>14, <1>15, Zenon

(* Parts that are joined lie where the lengths of those before them end.     *)
LEMMA FlattenedHolds ==
  ASSUME NEW S, NEW seqs \in Seq(Seq(S)), NEW n \in Nat, Len(seqs) = n,
         NEW ends \in [0..n -> Nat], ends[0] = 0,
         \A k \in 1..n : ends[k] = ends[k - 1] + Len(seqs[k])
  PROVE  /\ FlattenSeq(seqs) \in Seq(S)
         /\ Len(FlattenSeq(seqs)) = ends[n]
         /\ \A k \in 1..n : Holds(FlattenSeq(seqs), ends[k - 1], seqs[k])
<1>1. CASE n = 0
  <2>1. seqs = << >> /\ FlattenSeq(seqs) = seqs
    BY <1>1 DEF FlattenSeq
  <2> QED BY <1>1, <2>1
<1>2. CASE n # 0
  <2> DEFINE Joins(f) == f = [i \in 1..Len(seqs) |-> IF i = 1 THEN seqs[i] ELSE f[i - 1] \o seqs[i]]
             G == [p \in (1..n) \X Seq(S) |-> p[2] \o seqs[p[1]]]
  <2>0. \A k \in 1..n : seqs[k] \in Seq(S) /\ Len(seqs[k]) \in Nat
    OBVIOUS
  <2>1. G \in [(1..n) \X Seq(S) -> Seq(S)] /\ << >> \in Seq(S)
    <3>1. \A p \in (1..n) \X Seq(S) : p[2] \o seqs[p[1]] \in Seq(S)
      BY <2>0, ConcatProperties
    <3> QED BY <3>1
  <2> HIDE DEF G
  <2>2. PICK f : Follows(f, Seq(S), << >>, n, G)
    BY <2>1, FollowsExists, Zenon
  <2>3. f \in [0..n -> Seq(S)] /\ f[0] = << >> /\ \A k \in 1..n : f[k] = G[<<k, f[k - 1]>>]
    BY <2>2 DEF Follows
  <2> USE DEF G
  <2>4. ASSUME NEW k \in 1..n PROVE f[k - 1] \in Seq(S) /\ f[k] = f[k - 1] \o seqs[k]
    <3>1. k - 1 \in 0..n
      OBVIOUS
    <3> HIDE DEF G
    <3>2. f[k - 1] \in Seq(S) /\ f[k] = G[<<k, f[k - 1]>>]
      BY <2>3, <3>1
    <3> USE DEF G
    <3>3. <<k, f[k - 1]>> \in (1..n) \X Seq(S)
      BY <3>2
    <3>4. G[<<k, f[k - 1]>>] = f[k - 1] \o seqs[k]
      BY <3>3, Zenon
    <3> QED BY <3>2, <3>4
  <2> DEFINE g == [i \in 1..Len(seqs) |-> f[i]]
  <2>5. ASSUME NEW i \in 1..Len(seqs) PROVE g[i] = IF i = 1 THEN seqs[i] ELSE g[i - 1] \o seqs[i]
    <3>1. CASE i = 1
      <4>1. 1 \in 1..n /\ 1 - 1 = 0
        BY <1>2
      <4>2. f[1] = f[0] \o seqs[1] /\ f[0] = << >> /\ seqs[1] \in Seq(S)
        <5>1. f[1] = f[1 - 1] \o seqs[1]
          BY <2>4, <4>1, Zenon
        <5> QED BY <2>0, <2>3, <4>1, <5>1
      <4>3. << >> \o seqs[1] = seqs[1]
        BY <4>2, ConcatEmptySeq
      <4> QED BY <3>1, <4>2, <4>3
    <3>2. CASE i # 1
      <4>1. i - 1 \in 1..Len(seqs) /\ g[i - 1] = f[i - 1]
        BY <3>2
      <4> QED BY <2>4, <3>2, <4>1
    <3> QED BY <3>1, <3>2
  <2>6. Joins(g)
    BY <2>5, Zenon
  <2> DEFINE d == CHOOSE h : Joins(h)
  <2>7. Joins(d)
    BY <2>6, Zenon
  <2>8. FlattenSeq(seqs) = d[n]
    BY <1>2, Zenon DEF FlattenSeq
  <2>9. ASSUME NEW i \in 1..n PROVE d[i] = IF i = 1 THEN seqs[i] ELSE d[i - 1] \o seqs[i]
    BY <2>7
  <2> HIDE DEF d
  <2> DEFINE Good(m) == /\ d[m] \in Seq(S)
                        /\ Len(d[m]) = ends[m]
                        /\ \A k \in 1..m : Holds(d[m], ends[k - 1], seqs[k])
             P == {m \in Nat : m + 1 <= n => Good(m + 1)}
  <2>10. 0 \in P
    <3>1. d[1] = seqs[1] /\ seqs[1] \in Seq(S) /\ ends[1] = Len(seqs[1])
      BY <1>2, <2>0, <2>9
    <3>2. Holds(d[1], ends[1 - 1], seqs[1])
      BY <3>1, HoldsItself
    <3>3. \A k \in 1..1 : k = 1
      OBVIOUS
    <3>4. Good(1)
      BY <3>1, <3>2, <3>3
    <3> QED BY <3>4
  <2>11. ASSUME NEW j \in Nat, j \in P PROVE j + 1 \in P
    <3> DEFINE m == j + 1
    <3> SUFFICES ASSUME m + 1 <= n PROVE Good(m + 1)
      OBVIOUS
    <3>0. m \in 1..n /\ m + 1 \in 1..n /\ m + 1 # 1 /\ (m + 1) - 1 = m
      OBVIOUS
    <3>1. Good(m)
      BY <2>11, <3>0
    <3> HIDE DEF m
    <3>2. d[m + 1] = d[m] \o seqs[m + 1] /\ seqs[m + 1] \in Seq(S)
      BY <2>0, <2>9, <3>0
    <3>3. d[m + 1] \in Seq(S) /\ Len(d[m + 1]) = Len(d[m]) + Len(seqs[m + 1])
      <4>1. d[m] \in Seq(S)
        BY <3>1
      <4>2. d[m] \o seqs[m + 1] \in Seq(S) /\ Len(d[m] \o seqs[m + 1]) = Len(d[m]) + Len(seqs[m + 1])
        BY <3>2, <4>1, ConcatProperties
      <4> QED BY <3>2, <4>2
    <3>4. Len(d[m + 1]) = ends[m + 1]
      BY <3>0, <3>1, <3>3
    <3>5. ASSUME NEW k \in 1..(m + 1) PROVE Holds(d[m + 1], ends[k - 1], seqs[k])
      <4>1. CASE k \in 1..m
        <5>1. k - 1 \in 0..n /\ ends[k - 1] \in Nat /\ seqs[k] \in Seq(S)
          BY <2>0, <3>0, <4>1
        <5>2. Holds(d[m], ends[k - 1], seqs[k])
          BY <3>1, <4>1
        <5>3. d[m] \in Seq(S) /\ seqs[m + 1] \in Seq(S)
          BY <3>1, <3>2
        <5> HIDE DEF Holds
        <5>4. Holds(d[m] \o seqs[m + 1], ends[k - 1], seqs[k])
          BY <5>1, <5>2, <5>3, HoldsBefore
        <5> QED BY <3>2, <5>4, Zenon
      <4>2. CASE k = m + 1
        <5>1. ends[k - 1] = Len(d[m]) + 0
          <6>1. k - 1 = m /\ ends[m] \in Nat /\ Len(d[m]) = ends[m]
            BY <3>0, <3>1, <4>2
          <6>2. ends[k - 1] = ends[m]
            BY <6>1, Zenon
          <6>3. ends[m] + 0 = ends[m]
            BY <6>1
          <6> QED BY <6>1, <6>2, <6>3, Zenon
        <5>2. seqs[k] \in Seq(S) /\ d[m] \in Seq(S) /\ d[m + 1] = d[m] \o seqs[k]
          BY <3>1, <3>2, <4>2
        <5>3. Holds(seqs[k], 0, seqs[k])
          BY <5>2, HoldsItself
        <5>4. Holds(d[m] \o seqs[k], Len(d[m]) + 0, seqs[k])
          <6>1. 0 \in Nat
            OBVIOUS
          <6> HIDE DEF Holds
          <6> QED BY <5>2, <5>3, <6>1, HoldsBehind
        <5> QED BY <5>1, <5>2, <5>4, Zenon
      <4> QED BY <3>0, <4>1, <4>2
    <3> QED BY <3>3, <3>4, <3>5
  <2> HIDE DEF P
  <2>12. n - 1 \in P
    <3>1. n - 1 \in Nat
      BY <1>2
    <3> QED BY <2>10, <2>11, <3>1, SetInduction
  <2>13. Good(n)
    <3>1. (n - 1) + 1 = n
      OBVIOUS
    <3> QED BY <2>12, <3>1 DEF P
  <2> QED BY <2>8, <2>13
<1> QED BY <1>1, <1>2
(* A digit to the base Byte, and the number that is left.                    *)
LEMMA Digits ==
  ASSUME NEW n \in Nat, NEW m \in Nat, n < Byte * m
  PROVE  /\ n % Byte \in Octets
         /\ n \div Byte \in Nat /\ n \div Byte < m
         /\ (n % Byte) + Byte * (n \div Byte) = n
<1> DEFINE q == n \div Byte
           r == n % Byte
<1>1. q \in Int /\ r \in 0..(Byte - 1) /\ n = Byte * q + r
  BY ByteAssumption
<1> HIDE DEF q, r
<1>2. q \in Nat
  <2> SUFFICES ASSUME q < 0 PROVE FALSE
    BY <1>1
  <2>1. Byte * q <= Byte * (0 - 1)
    BY <1>1, ByteAssumption
  <2> QED BY <1>1, <2>1, ByteAssumption
<1>3. q < m
  <2> SUFFICES ASSUME q >= m PROVE FALSE
    BY <1>2
  <2>1. Byte * q >= Byte * m
    BY <1>2, ByteAssumption
  <2> QED BY <1>1, <2>1, ByteAssumption
<1> QED BY <1>1, <1>2, <1>3, ByteAssumption DEF q, r, Octets

(* mol_pack_number writes four bytes.                                        *)
LEMMA PackIsBytes ==
  ASSUME NEW n \in Nat
  PROVE  Pack(n) \in Seq(Octets) /\ Len(Pack(n)) = NumSize
<1> DEFINE second == n \div Byte
           third == second \div Byte
           fourth == third \div Byte
<1>1. \A m \in Int : m % Byte \in Octets /\ m \div Byte \in Int
  BY ByteAssumption DEF Octets
<1>2. n % Byte \in Octets /\ second \in Int
  BY <1>1
<1> HIDE DEF second
<1>3. second % Byte \in Octets /\ third \in Int
  BY <1>1, <1>2
<1> HIDE DEF third
<1>4. third % Byte \in Octets /\ fourth \in Int
  BY <1>1, <1>3
<1> HIDE DEF fourth
<1>5. fourth % Byte \in Octets
  BY <1>1, <1>4
<1>6. Pack(n) = <<n % Byte, second % Byte, third % Byte, fourth % Byte>>
  BY Zenon DEF Pack, second, third, fourth
<1>7. \A a, b, c, d \in Octets : <<a, b, c, d>> \in Seq(Octets) /\ Len(<<a, b, c, d>>) = 4
  OBVIOUS
<1> QED BY <1>2, <1>3, <1>4, <1>5, <1>6, <1>7, Zenon DEF NumSize

(* The four bytes make up the number again.                                  *)
LEMMA PackIsNumber ==
  ASSUME NEW n \in Nat, n < Word
  PROVE  Pack(n)[1] + Byte * (Pack(n)[2] + Byte * (Pack(n)[3] + Byte * Pack(n)[4])) = n
<1> DEFINE second == n \div Byte
           third == second \div Byte
           fourth == third \div Byte
<1>0. Pack(n) = <<n % Byte, second % Byte, third % Byte, fourth % Byte>>
  BY Zenon DEF Pack
<1>1. Byte \in Nat /\ Byte * Byte \in Nat /\ Byte * (Byte * Byte) \in Nat /\ n < Byte * (Byte * (Byte * Byte))
  BY ByteAssumption DEF Word
<1>2. n % Byte \in Octets /\ second \in Nat /\ second < Byte * (Byte * Byte)
      /\ (n % Byte) + Byte * second = n
  <2> HIDE DEF second
  <2> QED BY <1>1, Digits, Zenon DEF second
<1> HIDE DEF second
<1>3. second % Byte \in Octets /\ third \in Nat /\ third < Byte * Byte
      /\ (second % Byte) + Byte * third = second
  <2> QED BY <1>1, <1>2, Digits, Zenon DEF third
<1> HIDE DEF third
<1>4. third % Byte \in Octets /\ fourth \in Nat /\ fourth < Byte
      /\ (third % Byte) + Byte * fourth = third
  <2> QED BY <1>1, <1>3, Digits, Zenon DEF fourth
<1> HIDE DEF fourth
<1>5. fourth % Byte \in Octets /\ fourth % Byte = fourth
  <2>1. fourth \in 0..(Byte - 1)
    BY <1>1, <1>4
  <2>2. fourth % Byte = fourth
    BY <2>1, ByteAssumption
  <2> QED BY <2>1, <2>2 DEF Octets
<1> DEFINE a == n % Byte
           b == second % Byte
           c == third % Byte
           d == fourth % Byte
<1>6. a \in Octets /\ b \in Octets /\ c \in Octets /\ d \in Octets
  BY <1>2, <1>3, <1>4, <1>5
<1>7. a + Byte * (b + Byte * (c + Byte * d)) = n
  BY <1>2, <1>3, <1>4, <1>5, Zenon
<1>8. Pack(n) = <<a, b, c, d>>
  BY <1>0, Zenon
<1> HIDE DEF a, b, c, d
<1>9. /\ <<a, b, c, d>>[1] = a /\ <<a, b, c, d>>[2] = b
      /\ <<a, b, c, d>>[3] = c /\ <<a, b, c, d>>[4] = d
  BY <1>6
<1> QED BY <1>7, <1>8, <1>9, Zenon

(* A number that lies in a buffer is read as it was packed. *)
LEMMA NumOfPack ==
  ASSUME NEW buf \in Seq(Octets), NEW p \in Nat, NEW n \in Nat, n < Word, Holds(buf, p, Pack(n))
  PROVE  Num(buf, p) = n
<1>1. Len(Pack(n)) = 4 /\ p + 4 <= Len(buf)
  BY PackIsBytes DEF Holds, NumSize
<1>2. /\ At(buf, p) = Pack(n)[1] /\ At(buf, p + 1) = Pack(n)[2]
      /\ At(buf, p + 2) = Pack(n)[3] /\ At(buf, p + 3) = Pack(n)[4]
  <2>1. 1 \in 1..4 /\ 2 \in 1..4 /\ 3 \in 1..4 /\ 4 \in 1..4
    OBVIOUS
  <2>2. buf[p + 1] = Pack(n)[1] /\ buf[p + 2] = Pack(n)[2] /\ buf[p + 3] = Pack(n)[3] /\ buf[p + 4] = Pack(n)[4]
    BY <1>1, <2>1 DEF Holds
  <2>3. p + 1 \in DOMAIN buf /\ p + 2 \in DOMAIN buf /\ p + 3 \in DOMAIN buf /\ p + 4 \in DOMAIN buf
    BY <1>1
  <2>4. (p + 1) + 1 = p + 2 /\ (p + 2) + 1 = p + 3 /\ (p + 3) + 1 = p + 4
    OBVIOUS
  <2> QED BY <2>2, <2>3, <2>4 DEF At
<1> QED BY <1>2, PackIsNumber, Zenon DEF Num

(* mol_unpack_number returns a mol_num_t.                                    *)
LEMMA NumIsWord ==
  ASSUME NEW buf \in Seq(Octets), NEW p \in Nat
  PROVE  Num(buf, p) \in 0..(Word - 1)
<1>1. \A a \in Nat : At(buf, a) \in Octets
  BY ByteAssumption DEF At, Octets
<1>2. ASSUME NEW d \in Octets, NEW m \in Nat, NEW x \in Nat, x < m
      PROVE  d + Byte * x \in Nat /\ d + Byte * x < Byte * m
  <2>1. Byte * x <= Byte * (m - 1) /\ Byte * (m - 1) = Byte * m - Byte /\ Byte * x \in Nat
    BY <1>2, ByteAssumption
  <2> QED BY <2>1, ByteAssumption DEF Octets
<1> DEFINE d == At(buf, p + 3)
           c == At(buf, p + 2) + Byte * d
           b == At(buf, p + 1) + Byte * c
           a == At(buf, p) + Byte * b
<1>3. /\ At(buf, p) \in Octets /\ At(buf, p + 1) \in Octets
      /\ At(buf, p + 2) \in Octets /\ At(buf, p + 3) \in Octets
  BY <1>1
<1>4. Byte \in Nat /\ Byte * Byte \in Nat /\ Byte * (Byte * Byte) \in Nat
  BY ByteAssumption
<1>5. d \in Nat /\ d < Byte
  BY <1>3, ByteAssumption DEF Octets
<1> HIDE DEF d
<1>6. c \in Nat /\ c < Byte * Byte
  BY <1>2, <1>3, <1>4, <1>5
<1> HIDE DEF c
<1>7. b \in Nat /\ b < Byte * (Byte * Byte)
  BY <1>2, <1>3, <1>4, <1>6
<1> HIDE DEF b
<1>8. a \in Nat /\ a < Word
  BY <1>2, <1>3, <1>4, <1>7 DEF Word
<1>9. Num(buf, p) = a
  BY Zenon DEF Num, a, b, c, d
<1> QED BY <1>8, <1>9, ByteAssumption DEF Word

(***************************************************************************)
(* A frame: where each part of a vector or table lies.                     *)
(***************************************************************************)
Layout(starts, parts, body) ==
  /\ starts \in Seq(Nat) /\ parts \in Seq(Seq(Octets)) /\ body \in Seq(Octets)
  /\ Len(starts) = Len(parts)
  /\ parts = << >> => body = << >>
  /\ parts # << >> => starts[1] = 0
  /\ \A k \in 1..Len(parts) :
       /\ starts[k] + Len(parts[k]) = IF k = Len(parts) THEN Len(body) ELSE starts[k + 1]
       /\ Holds(body, starts[k], parts[k])

(* A value with a head, as a verifier and the getters see it: its size, and  *)
(* an offset for each part, which lies there and ends where the next one     *)
(* begins.                                                                   *)
HasParts(buf, parts) ==
  /\ buf \in Seq(Octets) /\ parts \in Seq(Seq(Octets))
  /\ Num(buf, 0) = Len(buf) /\ Len(buf) < Word
  /\ NumSize * (Len(parts) + 1) <= Len(buf)
  /\ parts = << >> => Len(buf) = NumSize
  /\ parts # << >> => Num(buf, NumSize) = NumSize * (Len(parts) + 1)
  /\ \A k \in 1..Len(parts) :
       /\ Num(buf, NumSize * k) + Len(parts[k])
            = IF k = Len(parts) THEN Len(buf) ELSE Num(buf, NumSize * (k + 1))
       /\ Holds(buf, Num(buf, NumSize * k), parts[k])

(* A function on 1..n is a sequence of length n.                             *)
LEMMA FunctionIsSeq ==
  ASSUME NEW S, NEW n \in Nat, NEW f \in [1..n -> S]
  PROVE  f \in Seq(S) /\ Len(f) = n
  OBVIOUS

(* Products, which the provers do not know much about.                       *)
LEMMA ProductAtLeast ==
  ASSUME NEW a \in Nat \ {0}, NEW b \in Nat
  PROVE  a * b \in Nat /\ b <= a * b
<1>1. a - 1 \in Nat /\ (a - 1) * b \in Nat
  OBVIOUS
<1>2. a * b = (a - 1) * b + b
  OBVIOUS
<1> QED BY <1>1, <1>2

(* A product grows with its factors.                                         *)
LEMMA ProductMonotonic ==
  ASSUME NEW a \in Nat, NEW b \in Nat, NEW c \in Nat, b <= c
  PROVE  a * b \in Nat /\ a * b <= a * c
<1>1. c - b \in Nat /\ a * (c - b) \in Nat /\ a * b \in Nat
  OBVIOUS
<1>2. a * c = a * b + a * (c - b)
  OBVIOUS
<1> QED BY <1>1, <1>2
(* A mol_num_t counts at least to 16.                                        *)
LEMMA WordIsPositive == Word \in Nat /\ Word >= 16
  BY ByteAssumption DEF Word

(* The value of a vector or table holds its size, the offsets and the parts. *)
LEMMA FramedHolds ==
  ASSUME NEW starts, NEW parts, NEW body, Layout(starts, parts, body),
         NEW head, head = NumSize * (Len(parts) + 1),
         NEW buf, buf = Framed(starts, Len(body), body)
  PROVE  /\ buf \in Seq(Octets) /\ Len(buf) = head + Len(body)
         /\ Holds(buf, 0, Pack(head + Len(body)))
         /\ \A k \in 1..Len(parts) : /\ Holds(buf, NumSize * k, Pack(head + starts[k]))
                                    /\ Holds(buf, head + starts[k], parts[k])
<1> DEFINE n == Len(parts)
           packs == [k \in DOMAIN starts |-> Pack(head + starts[k])]
           ends == [k \in 0..n |-> 4 * k]
<1>1. /\ starts \in Seq(Nat) /\ parts \in Seq(Seq(Octets)) /\ body \in Seq(Octets)
      /\ n \in Nat /\ Len(starts) = n /\ Len(body) \in Nat
      /\ parts = << >> => body = << >>
      /\ parts # << >> => starts[1] = 0
  BY DEF Layout
<1>2. ASSUME NEW k \in 1..n
      PROVE  /\ starts[k] \in Nat /\ parts[k] \in Seq(Octets) /\ Len(parts[k]) \in Nat
             /\ starts[k] + Len(parts[k]) = IF k = n THEN Len(body) ELSE starts[k + 1]
             /\ starts[k] + Len(parts[k]) <= Len(body)
             /\ Holds(body, starts[k], parts[k])
  <2>1. starts[k] \in Nat /\ parts[k] \in Seq(Octets)
    BY <1>1
  <2>2. starts[k] + Len(parts[k]) = IF k = n THEN Len(body) ELSE starts[k + 1]
    BY DEF Layout
  <2>3. Holds(body, starts[k], parts[k])
    BY DEF Layout
  <2>4. starts[k] + Len(parts[k]) <= Len(body)
    BY <2>3 DEF Holds
  <2> QED BY <2>1, <2>2, <2>3, <2>4
<1>3. head \in Nat /\ head = 4 * n + 4 /\ head + Len(body) \in Nat
  BY <1>1 DEF NumSize
<1>4. buf = (Pack(head + Len(body)) \o FlattenSeq(packs)) \o body
  <2>1. buf = Pack(head + Len(body)) \o FlattenSeq(packs) \o body
    BY <1>1 DEF Framed
  <2> QED BY <2>1
<1>5. ASSUME NEW k \in 1..n PROVE Pack(head + starts[k]) \in Seq(Octets) /\ Len(Pack(head + starts[k])) = 4
  <2>1. head + starts[k] \in Nat
    BY <1>2, <1>3
  <2> QED BY <2>1, PackIsBytes DEF NumSize
<1>6. packs \in Seq(Seq(Octets)) /\ Len(packs) = n /\ \A k \in 1..n : packs[k] = Pack(head + starts[k])
  <2>1. DOMAIN starts = 1..n
    BY <1>1
  <2>2. packs \in [1..n -> Seq(Octets)] /\ \A k \in 1..n : packs[k] = Pack(head + starts[k])
    BY <1>5, <2>1
  <2> HIDE DEF packs
  <2>3. packs \in Seq(Seq(Octets)) /\ Len(packs) = n
    BY <1>1, <2>2, FunctionIsSeq, Zenon
  <2> QED BY <2>2, <2>3
<1> HIDE DEF packs
<1>7. /\ FlattenSeq(packs) \in Seq(Octets) /\ Len(FlattenSeq(packs)) = 4 * n
      /\ \A k \in 1..n : Holds(FlattenSeq(packs), 4 * (k - 1), packs[k])
  <2>1. ends \in [0..n -> Nat] /\ ends[0] = 0 /\ ends[n] = 4 * n
        /\ \A k \in 1..n : ends[k - 1] = 4 * (k - 1)
    BY <1>1
  <2>2. \A k \in 1..n : ends[k] = ends[k - 1] + Len(packs[k])
    <3> SUFFICES ASSUME NEW k \in 1..n PROVE ends[k] = ends[k - 1] + Len(packs[k])
      OBVIOUS
    <3>1. Len(packs[k]) = 4
      BY <1>5, <1>6
    <3>2. k \in 0..n /\ ends[k] = 4 * k /\ ends[k - 1] = 4 * (k - 1)
      BY <1>1, <2>1
    <3> QED BY <3>1, <3>2
  <2> HIDE DEF ends, Holds
  <2>3. /\ FlattenSeq(packs) \in Seq(Octets)
        /\ Len(FlattenSeq(packs)) = ends[n]
        /\ \A k \in 1..n : Holds(FlattenSeq(packs), ends[k - 1], packs[k])
    BY <1>1, <1>6, <2>1, <2>2, FlattenedHolds
  <2> QED BY <2>1, <2>3
<1> DEFINE first == Pack(head + Len(body))
           front == first \o FlattenSeq(packs)
<1>8. first \in Seq(Octets) /\ Len(first) = 4
  BY <1>3, PackIsBytes DEF NumSize
<1> HIDE DEF first
<1>9. front \in Seq(Octets) /\ Len(front) = head
  <2>1. front \in Seq(Octets) /\ Len(front) = Len(first) + Len(FlattenSeq(packs))
    BY <1>7, <1>8, ConcatProperties
  <2> HIDE DEF front
  <2> QED BY <1>1, <1>3, <1>7, <1>8, <2>1
<1>10. buf \in Seq(Octets) /\ Len(buf) = head + Len(body)
  <2>1. buf = front \o body
    BY <1>4 DEF first
  <2> HIDE DEF front
  <2>2. front \o body \in Seq(Octets) /\ Len(front \o body) = Len(front) + Len(body)
    BY <1>1, <1>9, ConcatProperties
  <2> QED BY <1>9, <2>1, <2>2
<1>11. buf = front \o body
  BY <1>4 DEF first
<1>12. Holds(buf, 0, first)
  <2>1. Holds(first, 0, first)
    BY <1>8, HoldsItself
  <2>2. Holds(front, 0, first)
    BY <1>7, <1>8, <2>1, HoldsBefore
  <2> HIDE DEF front
  <2> QED BY <1>1, <1>8, <1>9, <1>11, <2>2, HoldsBefore
<1>13. ASSUME NEW k \in 1..n PROVE Holds(buf, 4 * k, Pack(head + starts[k]))
  <2>1. Holds(FlattenSeq(packs), 4 * (k - 1), packs[k]) /\ packs[k] \in Seq(Octets) /\ 4 * (k - 1) \in Nat
        /\ packs[k] = Pack(head + starts[k])
    BY <1>6, <1>7
  <2>2. Holds(front, Len(first) + 4 * (k - 1), packs[k])
    <3> HIDE DEF Holds
    <3> QED BY <1>7, <1>8, <2>1, HoldsBehind
  <2>3. Len(first) + 4 * (k - 1) = 4 * k /\ 4 * k \in Nat
    BY <1>8
  <2>4. Holds(buf, 4 * k, packs[k])
    <3>1. Holds(front, 4 * k, packs[k])
      BY <2>2, <2>3, Zenon
    <3> HIDE DEF front, Holds
    <3> QED BY <1>1, <1>9, <1>11, <2>1, <2>3, <3>1, HoldsBefore
  <2> QED BY <2>1, <2>4, Zenon
<1>14. ASSUME NEW k \in 1..n PROVE Holds(buf, head + starts[k], parts[k])
  <2> HIDE DEF front, Holds
  <2>1. Holds(front \o body, Len(front) + starts[k], parts[k])
    BY <1>1, <1>2, <1>9, HoldsBehind
  <2> QED BY <1>9, <1>11, <2>1, Zenon
<1> HIDE DEF Holds
<1> QED BY <1>10, <1>12, <1>13, <1>14 DEF first, NumSize

(* It is one a verifier and the getters see the same parts in.               *)
LEMMA FramedHasParts ==
  ASSUME NEW starts, NEW parts, NEW body, Layout(starts, parts, body),
         NEW buf, buf = Framed(starts, Len(body), body), Len(buf) < Word
  PROVE  HasParts(buf, parts)
<1> DEFINE n == Len(parts)
           head == NumSize * (n + 1)
<1>1. /\ starts \in Seq(Nat) /\ parts \in Seq(Seq(Octets)) /\ body \in Seq(Octets)
      /\ n \in Nat /\ Len(starts) = n /\ Len(body) \in Nat
      /\ parts = << >> => body = << >>
      /\ parts # << >> => starts[1] = 0
  BY DEF Layout
<1>2. ASSUME NEW k \in 1..n
      PROVE  /\ starts[k] \in Nat /\ parts[k] \in Seq(Octets) /\ Len(parts[k]) \in Nat
             /\ starts[k] + Len(parts[k]) = IF k = n THEN Len(body) ELSE starts[k + 1]
             /\ starts[k] + Len(parts[k]) <= Len(body)
             /\ Holds(body, starts[k], parts[k])
  <2>1. starts[k] \in Nat /\ parts[k] \in Seq(Octets)
    BY <1>1
  <2>2. starts[k] + Len(parts[k]) = IF k = n THEN Len(body) ELSE starts[k + 1]
    BY DEF Layout
  <2>3. Holds(body, starts[k], parts[k])
    BY DEF Layout
  <2>4. starts[k] + Len(parts[k]) <= Len(body)
    BY <2>3 DEF Holds
  <2> QED BY <2>1, <2>2, <2>3, <2>4
<1>3. head \in Nat /\ head = 4 * n + 4
  BY <1>1 DEF NumSize
<1>4. /\ buf \in Seq(Octets) /\ Len(buf) = head + Len(body)
      /\ Holds(buf, 0, Pack(head + Len(body)))
      /\ \A k \in 1..n : /\ Holds(buf, NumSize * k, Pack(head + starts[k]))
                         /\ Holds(buf, head + starts[k], parts[k])
  <2> HIDE DEF Holds
  <2> QED BY FramedHolds
<1> HIDE DEF head
<1>5. head + Len(body) \in Nat /\ head + Len(body) < Word
  BY <1>1, <1>3, <1>4
<1>10. buf \in Seq(Octets) /\ Len(buf) = head + Len(body)
  BY <1>4
<1>12. Num(buf, 0) = Len(buf)
  <2>1. 0 \in Nat /\ Holds(buf, 0, Pack(head + Len(body)))
    BY <1>4
  <2> QED BY <1>4, <1>5, <2>1, NumOfPack
<1>13. ASSUME NEW k \in 1..n PROVE Num(buf, 4 * k) = head + starts[k]
  <2>1. head + starts[k] \in Nat /\ head + starts[k] < Word
    <3> DEFINE start == starts[k]
               size == Len(parts[k])
               total == Len(body)
    <3>1. start \in Nat /\ size \in Nat /\ start + size <= total /\ total \in Nat
      BY <1>1, <1>2
    <3>2. head \in Nat /\ head + total < Word
      BY <1>3, <1>5
    <3> HIDE DEF start, size, total
    <3>3. head + start \in Nat /\ head + start < Word
      BY <3>1, <3>2, WordIsPositive
    <3> QED BY <3>3 DEF start
  <2>2. Holds(buf, 4 * k, Pack(head + starts[k])) /\ 4 * k \in Nat
    BY <1>4 DEF NumSize
  <2> QED BY <1>4, <2>1, <2>2, NumOfPack
<1>14. ASSUME NEW k \in 1..n PROVE Holds(buf, head + starts[k], parts[k])
  BY <1>4
<1>15. parts = << >> => Len(buf) = NumSize
  <2> SUFFICES ASSUME parts = << >> PROVE Len(buf) = 4
    BY DEF NumSize
  <2>1. Len(body) = 0 /\ n = 0
    BY <1>1
  <2> QED BY <1>3, <1>10, <2>1
<1>16. parts # << >> => Num(buf, 4) = head
  <2> SUFFICES ASSUME parts # << >> PROVE Num(buf, 4) = head
    OBVIOUS
  <2>1. 1 \in 1..n /\ 4 * 1 = 4 /\ starts[1] = 0
    BY <1>1
  <2>2. Num(buf, 4 * 1) = head + starts[1]
    BY <1>13, <2>1
  <2> QED BY <1>3, <2>1, <2>2
<1>17. ASSUME NEW k \in 1..n
       PROVE  /\ Num(buf, 4 * k) + Len(parts[k]) = IF k = n THEN Len(buf) ELSE Num(buf, 4 * (k + 1))
              /\ Holds(buf, Num(buf, 4 * k), parts[k])
  <2>1. Num(buf, 4 * k) = head + starts[k]
    BY <1>13
  <2>2. k # n => Num(buf, 4 * (k + 1)) = head + starts[k + 1]
    BY <1>1, <1>13
  <2>3. Holds(buf, Num(buf, 4 * k), parts[k])
    BY <1>14, <2>1, Zenon
  <2> HIDE DEF Holds
  <2>4. k # n => k + 1 \in 1..n
    BY <1>1
  <2>5. k # n => starts[k + 1] \in Nat
    BY <1>2, <2>4
  <2>6. starts[k] + Len(parts[k]) = IF k = n THEN Len(body) ELSE starts[k + 1]
    BY <1>2
  <2>7. Num(buf, 4 * k) + Len(parts[k]) = IF k = n THEN Len(buf) ELSE Num(buf, 4 * (k + 1))
    <3>1. starts[k] \in Nat /\ Len(parts[k]) \in Nat
      BY <1>2
    <3>2. CASE k = n
      <4>1. starts[k] + Len(parts[k]) = Len(body)
        BY <2>6, <3>2
      <4>2. (head + starts[k]) + Len(parts[k]) = Len(buf)
        <5> DEFINE start == starts[k]
                   size == Len(parts[k])
                   total == Len(body)
        <5>1. head \in Nat /\ total \in Nat /\ Len(buf) = head + total
              /\ start \in Nat /\ size \in Nat /\ start + size = total
          BY <1>1, <1>3, <1>10, <3>1, <4>1
        <5> HIDE DEF start, size, total
        <5>2. (head + start) + size = Len(buf)
          BY <5>1
        <5> QED BY <5>2 DEF start, size
      <4> QED BY <2>1, <3>2, <4>2, Zenon
    <3>3. CASE k # n
      <4>1. starts[k] + Len(parts[k]) = starts[k + 1]
        BY <2>6, <3>3
      <4>2. starts[k + 1] \in Nat
        BY <2>5, <3>3
      <4>3. (head + starts[k]) + Len(parts[k]) = head + starts[k + 1]
        BY <1>3, <3>1, <4>1, <4>2
      <4> QED BY <2>1, <2>2, <3>3, <4>3, Zenon
    <3> QED BY <3>2, <3>3
  <2> QED BY <2>3, <2>7
<1>18. 4 * (n + 1) = head /\ head <= Len(buf)
  BY <1>1, <1>3, <1>10
<1> HIDE DEF Holds
<1> QED BY <1>1, <1>10, <1>12, <1>15, <1>16, <1>17, <1>18 DEF HasParts, NumSize

(* A number below the modulus is its own remainder.                          *)
LEMMA ModBelow == ASSUME NEW m \in Nat, NEW x \in 0..(m - 1) PROVE x % m = x
  OBVIOUS

(* The verifiers and getters find the parts of a frame again.                *)
LEMMA PartsAreRead ==
  ASSUME NEW buf, NEW parts, HasParts(buf, parts)
  PROVE  /\ Count(buf) = Len(parts) /\ DynvecLength(buf) = Len(parts)
         /\ IF parts = << >> THEN NoItems(buf) ELSE HeadFits(buf)
         /\ \A k \in 1..Len(parts) :
              /\ BytesOf(buf, DynvecItem(buf, k - 1)) = parts[k]
              /\ \A type : PartAt(type, buf, k) = [type |-> type, bytes |-> parts[k]]
<1> DEFINE n == Len(parts)
<1>1. /\ buf \in Seq(Octets) /\ parts \in Seq(Seq(Octets)) /\ n \in Nat /\ Len(buf) \in Nat
      /\ Num(buf, 0) = Len(buf) /\ Len(buf) < Word /\ 4 * n + 4 <= Len(buf)
      /\ parts = << >> => Len(buf) = 4
      /\ parts # << >> => Num(buf, 4) = 4 * n + 4
      /\ parts = << >> <=> n = 0
  BY DEF HasParts, NumSize
<1>2. ASSUME NEW k \in 1..n
      PROVE  /\ Num(buf, 4 * k) \in Nat /\ parts[k] \in Seq(Octets) /\ Len(parts[k]) \in Nat
             /\ Num(buf, 4 * k) + Len(parts[k]) = IF k = n THEN Len(buf) ELSE Num(buf, 4 * (k + 1))
             /\ Holds(buf, Num(buf, 4 * k), parts[k])
  <2>1. Num(buf, NumSize * k) + Len(parts[k]) = IF k = n THEN Len(buf) ELSE Num(buf, NumSize * (k + 1))
    BY DEF HasParts
  <2>2. Holds(buf, Num(buf, NumSize * k), parts[k])
    BY DEF HasParts
  <2>3. parts[k] \in Seq(Octets) /\ Len(parts[k]) \in Nat
    BY <1>1
  <2>4. Num(buf, 4 * k) \in 0..(Word - 1)
    <3>1. 4 * k \in Nat
      OBVIOUS
    <3> QED BY <1>1, <3>1, NumIsWord
  <2> QED BY <2>1, <2>2, <2>3, <2>4, WordIsPositive DEF NumSize
<1> HIDE DEF n
<1>3. Count(buf) = n
  <2>1. CASE n = 0
    BY <1>1, <2>1 DEF Count, NumSize
  <2>2. CASE n # 0
    <3>1. Len(buf) # 4 /\ Num(buf, 4) = 4 * n + 4
      <4>1. n \in Nat \ {0} /\ parts # << >>
        BY <1>1, <2>2, Zenon
      <4>2. Len(buf) # 4
        <5> DEFINE size == Len(buf)
        <5>1. 4 * n + 4 <= size /\ size \in Nat
          BY <1>1, Zenon
        <5> HIDE DEF size
        <5>2. size # 4
          BY <4>1, <5>1
        <5> QED BY <5>2 DEF size
      <4> QED BY <1>1, <4>1, <4>2, Zenon
    <3>2. (4 * n + 4) \div 4 - 1 = n
      BY <1>1
    <3> QED BY <3>1, <3>2 DEF Count, NumSize
  <2> QED BY <2>1, <2>2
<1>4. DynvecLength(buf) = n
  <2>1. CASE n = 0
    BY <1>1, <2>1 DEF DynvecLength, NumSize
  <2>2. CASE n # 0
    <3>1. Num(buf, 0) # 4 /\ Num(buf, 4) = 4 * n + 4
      BY <1>1, <2>2
    <3>2. (4 * n + 4) \div 4 - 1 = n
      BY <1>1
    <3>3. n % Word = n
      <4>1. n \in 0..(Word - 1)
        BY <1>1, WordIsPositive
      <4> QED BY <4>1, WordIsPositive, ModBelow, Zenon
    <3> QED BY <3>1, <3>2, <3>3 DEF DynvecLength, NumSize
  <2> QED BY <2>1, <2>2
<1>5. ASSUME NEW k \in 1..n PROVE End(buf, k) = Offset(buf, k) + Len(parts[k])
  BY <1>2, <1>3 DEF End, Offset, NumSize
<1>6. ASSUME NEW k \in 1..n PROVE BytesOf(buf, Segment(Offset(buf, k), End(buf, k) - Offset(buf, k))) = parts[k]
  <2>1. End(buf, k) - Offset(buf, k) = Len(parts[k])
    BY <1>2, <1>5 DEF Offset, NumSize
  <2>2. Offset(buf, k) \in Nat /\ Holds(buf, Offset(buf, k), parts[k])
    BY <1>2 DEF Offset, NumSize
  <2> HIDE DEF Holds
  <2>3. BytesOf(buf, Segment(Offset(buf, k), Len(parts[k]))) = parts[k]
    BY <1>1, <1>2, <2>2, HoldsSegment
  <2> QED BY <2>1, <2>3
<1>7. ASSUME NEW k \in 1..n PROVE DynvecItem(buf, k - 1) = Segment(Offset(buf, k), End(buf, k) - Offset(buf, k))
  <2>1. (k - 1) + 1 = k /\ (k - 1) + 2 = k + 1
    OBVIOUS
  <2>2. End(buf, k) = IF (k - 1) + 1 = DynvecLength(buf) THEN Num(buf, 0) ELSE Num(buf, NumSize * ((k - 1) + 2))
    BY <1>1, <1>3, <1>4, <2>1 DEF End, Offset
  <2>3. Offset(buf, k) = Num(buf, NumSize * ((k - 1) + 1))
    BY <2>1 DEF Offset
  <2> QED BY <2>2, <2>3, Zenon DEF DynvecItem
<1>8. parts = << >> => NoItems(buf)
  BY <1>1 DEF NoItems, NumSize
<1>9. parts # << >> => HeadFits(buf)
  <2> SUFFICES ASSUME parts # << >> PROVE HeadFits(buf)
    OBVIOUS
  <2>1. n \in Nat \ {0} /\ Num(buf, 4) = 4 * n + 4
    BY <1>1
  <2>2. Offset(buf, 1) = 4 * n + 4
    BY <2>1 DEF Offset, NumSize
  <2>3. (4 * n + 4) % 4 = 0 /\ 4 * n + 4 \in 8..Len(buf)
    BY <1>1, <2>1
  <2>4. \A k \in 1..Count(buf) : Offset(buf, k) <= End(buf, k)
    <3> SUFFICES ASSUME NEW k \in 1..n PROVE Offset(buf, k) <= End(buf, k)
      BY <1>3
    <3> QED BY <1>2, <1>5 DEF Offset, NumSize
  <2> QED BY <1>1, <2>1, <2>2, <2>3, <2>4 DEF HeadFits, NumSize
<1> QED BY <1>3, <1>4, <1>6, <1>7, <1>8, <1>9 DEF n, PartAt

(***************************************************************************)
(* A value that is cut or has something behind it begins as it did.        *)
(***************************************************************************)
LEMMA NumOfFront ==
  ASSUME NEW a \in Seq(Octets), NEW b \in Seq(Octets), Len(a) >= NumSize, Len(b) >= NumSize,
         \A k \in 1..4 : a[k] = b[k]
  PROVE  Num(a, 0) = Num(b, 0)
<1>1. \A k \in 1..4 : k \in DOMAIN a /\ k \in DOMAIN b
  BY DEF NumSize
<1>2. At(a, 0) = At(b, 0) /\ At(a, 0 + 1) = At(b, 0 + 1) /\ At(a, 0 + 2) = At(b, 0 + 2) /\ At(a, 0 + 3) = At(b, 0 + 3)
  BY <1>1 DEF At
<1> QED BY <1>2, Zenon DEF Num

(* A value that was cut begins with the same bytes, its size among them.     *)
LEMMA CutProperties ==
  ASSUME NEW buf \in Seq(Octets), NEW n \in 0..(Len(buf) - 1)
  PROVE  /\ SubSeq(buf, 1, n) \in Seq(Octets) /\ Len(SubSeq(buf, 1, n)) = n
         /\ \A k \in 1..n : SubSeq(buf, 1, n)[k] = buf[k]
         /\ n >= NumSize => Num(SubSeq(buf, 1, n), 0) = Num(buf, 0)
<1>1. /\ SubSeq(buf, 1, n) \in Seq(Octets) /\ Len(SubSeq(buf, 1, n)) = n
      /\ \A k \in 1..n : SubSeq(buf, 1, n)[k] = buf[k]
  <2>1. 1 \in Int /\ n \in Int /\ \A i \in 1..n : buf[i] \in Octets
    OBVIOUS
  <2>2. /\ SubSeq(buf, 1, n) \in Seq(Octets)
        /\ Len(SubSeq(buf, 1, n)) = IF 1 <= n THEN n - 1 + 1 ELSE 0
        /\ \A i \in 1..(n - 1 + 1) : SubSeq(buf, 1, n)[i] = buf[1 + i - 1]
    BY <2>1, SubSeqProperties
  <2> QED BY <2>2
<1> DEFINE cut == SubSeq(buf, 1, n)
<1> HIDE DEF cut
<1>2. n >= NumSize => Num(cut, 0) = Num(buf, 0)
  <2> SUFFICES ASSUME n >= NumSize PROVE Num(cut, 0) = Num(buf, 0)
    OBVIOUS
  <2>1. cut \in Seq(Octets) /\ Len(cut) >= NumSize /\ Len(buf) >= NumSize /\ \A k \in 1..4 : cut[k] = buf[k]
    BY <1>1 DEF cut, NumSize
  <2> QED BY <2>1, NumOfFront
<1> QED BY <1>1, <1>2 DEF cut

(* How three runs of bytes are put together does not matter.                 *)
LEMMA OctetsAssociate ==
  ASSUME NEW r \in Seq(Octets), NEW s \in Seq(Octets), NEW t \in Seq(Octets)
  PROVE  (r \o s) \o t = r \o (s \o t)
OBVIOUS

(* calloc and memset make bytes.                                             *)
LEMMA ZerosAreBytes ==
  ASSUME NEW n \in Nat
  PROVE  Zeros(n) \in Seq(Octets) /\ Len(Zeros(n)) = n
<1>1. Zeros(n) \in [1..n -> Octets]
  BY ByteAssumption DEF Zeros, Octets
<1> QED BY <1>1, FunctionIsSeq, Zenon

(* A value with something behind it still begins with its size.              *)
LEMMA LongerProperties ==
  ASSUME NEW buf \in Seq(Octets), NEW n \in 1..4
  PROVE  /\ buf \o Zeros(n) \in Seq(Octets) /\ Len(buf \o Zeros(n)) = Len(buf) + n
         /\ Len(buf) >= NumSize => Num(buf \o Zeros(n), 0) = Num(buf, 0)
<1>1. Zeros(n) \in Seq(Octets) /\ Len(Zeros(n)) = n
  BY ZerosAreBytes
<1>2. /\ buf \o Zeros(n) \in Seq(Octets) /\ Len(buf \o Zeros(n)) = Len(buf) + n
      /\ \A i \in 1..Len(buf) : (buf \o Zeros(n))[i] = buf[i]
  BY <1>1, ConcatProperties
<1> DEFINE longer == buf \o Zeros(n)
<1> HIDE DEF longer
<1>3. Len(buf) >= NumSize => Num(longer, 0) = Num(buf, 0)
  <2> SUFFICES ASSUME Len(buf) >= NumSize PROVE Num(longer, 0) = Num(buf, 0)
    OBVIOUS
  <2>1. longer \in Seq(Octets) /\ Len(longer) >= NumSize /\ \A k \in 1..4 : longer[k] = buf[k]
    BY <1>2 DEF longer, NumSize
  <2> QED BY <2>1, NumOfFront
<1> QED BY <1>2, <1>3 DEF longer

(* A frame says how long it is: no other length is taken for it.             *)
LEMMA FrameIsWhole ==
  ASSUME NEW buf \in Seq(Octets), NumSize <= Len(buf), Num(buf, 0) = Len(buf),
         NEW other \in Seq(Octets), Len(other) # Len(buf),
         Len(other) >= NumSize => Num(other, 0) = Num(buf, 0)
  PROVE  ~NoItems(other) /\ ~HeadFits(other)
<1>1. Len(buf) \in Nat /\ Len(other) \in Nat
  OBVIOUS
<1>2. ASSUME NoItems(other) PROVE FALSE
  <2>1. Len(other) = NumSize /\ Num(other, 0) = NumSize
    BY <1>2 DEF NoItems
  <2> QED BY <1>1, <2>1 DEF NumSize
<1>3. ASSUME HeadFits(other) PROVE FALSE
  <2>1. Len(other) >= NumSize * 2 /\ Len(other) = Num(other, 0)
    BY <1>3 DEF HeadFits
  <2> QED BY <1>1, <2>1 DEF NumSize
<1> QED BY <1>2, <1>3

-----------------------------------------------------------------------------
(***************************************************************************)
(* What a builder keeps of the contents the client asked for, by the kind  *)
(* of its type, and what it makes of them.                                 *)
(***************************************************************************)
Sound(b) ==
  /\ b \in [data : Seq(Octets), number : Seq(0..(Word - 1)),
            data_cap : 0..(Word - 1), number_cap : 0..(Word - 1)]
  /\ Len(b.data) <= b.data_cap
  /\ NumSize * Len(b.number) <= b.number_cap

(* How a builder keeps what the client asked for, for each kind of type. A   *)
(* struct has each field where its slice lies.                               *)
KeepsStruct(type, b, contents) ==
  /\ Len(b.data) = type.size
  /\ Len(contents) = Len(type.slices)
  /\ \A k \in 1..Len(contents) : /\ Len(contents[k]) = type.slices[k].length
                                 /\ Holds(b.data, type.slices[k].offset, contents[k])

(* An option is nothing or the bytes of its item.                            *)
KeepsOption(type, b, contents) ==
  \/ contents = << >> /\ b.data = << >>
  \/ contents = <<b.data>> /\ b.data # << >> /\ IsValue(type.item, b.data)

(* A union is the number of an item and the bytes of a value of it.          *)
KeepsUnion(type, b, contents) ==
  \E id \in 0..(Len(type.items) - 1), bytes \in Seq(Octets) :
    /\ b.data = Pack(id) \o bytes
    /\ contents = <<Pack(id), bytes>>
    /\ IsValue(type.items[id + 1], bytes) /\ IsWhole(type.items[id + 1], bytes)

(* A vector of items of one length has them one after the other.             *)
KeepsFixvec(type, b, contents) ==
  /\ b.data_cap > 0
  /\ b.number = <<Len(contents)>>
  /\ Len(b.data) = type.item * Len(contents)
  /\ \A k \in 1..Len(contents) : /\ Len(contents[k]) = type.item
                                 /\ Holds(b.data, type.item * (k - 1), contents[k])

(* Other vectors have in `number' where each item begins.                    *)
KeepsDynvec(type, b, contents) ==
  /\ b.data_cap > 0 /\ b.number_cap > 0
  /\ Layout(b.number, contents, b.data)
  /\ \A k \in 1..Len(contents) : IsValue(type.item, contents[k])

(* A table has in `number' where the field lies that was added last and its  *)
(* length, or 0 for one that has its default.                                *)
KeepsTable(type, b, contents) ==
  /\ b.data_cap > 0
  /\ Len(b.number) = Len(type.fields) * 2
  /\ Len(contents) = Len(type.fields)
  /\ \A k \in 1..Len(contents) :
       /\ IsValue(type.fields[k], contents[k])
       /\ IF b.number[2 * k] = 0 THEN contents[k] = MolDefault(type.fields[k])
          ELSE /\ Len(contents[k]) = b.number[2 * k]
               /\ Holds(b.data, b.number[2 * k - 1], contents[k])

(* A value is accepted by both verifiers and reads as these contents.        *)
Reads(type, buf, contents) ==
  /\ buf \in Seq(Octets)
  /\ Contents(type, buf) = contents
  /\ \A compatible \in BOOLEAN : Verifier(type, buf, compatible)

(* It is none any more when it is cut or something follows it.               *)
Whole(type, buf) ==
  /\ \A n \in 0..(Len(buf) - 1) : ~Verifier(type, SubSeq(buf, 1, n), TRUE)
  /\ \A n \in 1..4 : ~Verifier(type, buf \o Zeros(n), TRUE)

(* A sequence is the function of its elements.                               *)
LEMMA SameList ==
  ASSUME NEW S, NEW s \in Seq(S), NEW f, f = [k \in 1..Len(s) |-> s[k]]
  PROVE  f = s
  OBVIOUS

(* What MolBuilder_T_build makes of such a builder is read back: a struct.   *)
LEMMA StructIsRead ==
  ASSUME NEW type, IsType(type), type.kind = "struct", NEW b, Sound(b),
         NEW contents \in Seq(Seq(Octets)), KeepsStruct(type, b, contents)
  PROVE  Reads(type, b.data, contents) /\ Whole(type, b.data)
<1>1. type.size \in Nat /\ type.slices \in Seq([offset : Nat, length : Nat])
  BY DEF IsType
<1>2. b.data \in Seq(Octets) /\ Len(b.data) = type.size /\ Len(contents) = Len(type.slices)
  BY DEF Sound, KeepsStruct
<1>3. Contents(type, b.data) = contents
  <2>1. ASSUME NEW k \in 1..Len(contents)
        PROVE  BytesOf(b.data, Segment(type.slices[k].offset, type.slices[k].length)) = contents[k]
    <3>1. Len(contents[k]) = type.slices[k].length /\ Holds(b.data, type.slices[k].offset, contents[k])
      BY DEF KeepsStruct
    <3>2. type.slices[k].offset \in Nat /\ contents[k] \in Seq(Octets)
      <4>1. type.slices[k] \in [offset : Nat, length : Nat]
        <5>1. k \in 1..Len(type.slices)
          BY <1>2
        <5> QED BY <1>1, <5>1, ElementOfSeq
      <4> QED BY <4>1, ElementOfSeq
    <3> HIDE DEF Holds
    <3>3. BytesOf(b.data, Segment(type.slices[k].offset, Len(contents[k]))) = contents[k]
      BY <1>2, <3>1, <3>2, HoldsSegment
    <3> QED BY <3>1, <3>3
  <2>2. Contents(type, b.data)
          = [k \in DOMAIN type.slices |-> BytesOf(b.data, Segment(type.slices[k].offset, type.slices[k].length))]
    BY DEF Contents
  <2>3. DOMAIN type.slices = 1..Len(contents)
    BY <1>1, <1>2
  <2>4. Contents(type, b.data) = [k \in 1..Len(contents) |-> contents[k]]
    BY <2>1, <2>2, <2>3
  <2> QED BY <2>4, SameList, Zenon
<1>4. Parts(type, b.data) = << >>
  BY DEF Parts
<1>5. ASSUME NEW compatible \in BOOLEAN PROVE Verifier(type, b.data, compatible)
  BY <1>2, <1>4 DEF Verifier, HeadVerifies
<1>6. ASSUME NEW other \in Seq(Octets), Len(other) # type.size PROVE ~Verifier(type, other, TRUE)
  BY <1>6 DEF Verifier, HeadVerifies
<1>7. Whole(type, b.data)
  <2>1. ASSUME NEW n \in 0..(Len(b.data) - 1) PROVE ~Verifier(type, SubSeq(b.data, 1, n), TRUE)
    <3>1. SubSeq(b.data, 1, n) \in Seq(Octets) /\ Len(SubSeq(b.data, 1, n)) = n
      BY <1>2, CutProperties
    <3>2. n # type.size
      BY <1>1, <1>2
    <3> QED BY <1>6, <3>1, <3>2
  <2>2. ASSUME NEW n \in 1..4 PROVE ~Verifier(type, b.data \o Zeros(n), TRUE)
    <3>1. b.data \o Zeros(n) \in Seq(Octets) /\ Len(b.data \o Zeros(n)) = type.size + n
      BY <1>2, LongerProperties
    <3>2. type.size + n # type.size
      BY <1>1
    <3> QED BY <1>6, <3>1, <3>2
  <2> QED BY <2>1, <2>2 DEF Whole
<1> QED BY <1>2, <1>3, <1>5, <1>7 DEF Reads

(* An option.                                                                *)
LEMMA OptionIsRead ==
  ASSUME NEW type, type.kind = "option", NEW b, Sound(b),
         NEW contents \in Seq(Seq(Octets)), KeepsOption(type, b, contents)
  PROVE  Reads(type, b.data, contents)
<1>1. b.data \in Seq(Octets)
  BY DEF Sound
<1>2. CASE contents = << >> /\ b.data = << >>
  <2>1. Contents(type, b.data) = << >> /\ Parts(type, b.data) = << >>
    BY <1>2 DEF Contents, Parts
  <2> QED BY <1>1, <1>2, <2>1 DEF Reads, Verifier, HeadVerifies
<1>3. CASE contents = <<b.data>> /\ b.data # << >> /\ IsValue(type.item, b.data)
  <2>1. Len(b.data) # 0
    BY <1>1, <1>3
  <2>2. Contents(type, b.data) = <<b.data>> /\ Parts(type, b.data) = <<[type |-> type.item, bytes |-> b.data]>>
    BY <2>1 DEF Contents, Parts
  <2>3. \A compatible \in BOOLEAN : Accepts(type.item, b.data, compatible)
    BY <1>3 DEF IsValue
  <2>4. ASSUME NEW compatible \in BOOLEAN PROVE Verifier(type, b.data, compatible)
    <3>1. HeadVerifies(type, b.data, compatible)
      BY DEF HeadVerifies
    <3>2. \A k \in DOMAIN <<[type |-> type.item, bytes |-> b.data]>> :
            <<[type |-> type.item, bytes |-> b.data]>>[k] = [type |-> type.item, bytes |-> b.data]
      OBVIOUS
    <3> QED BY <2>2, <2>3, <3>1, <3>2 DEF Verifier
  <2> QED BY <1>1, <1>3, <2>2, <2>4 DEF Reads
<1> QED BY <1>2, <1>3 DEF KeepsOption

(* A union.                                                                  *)
LEMMA UnionIsRead ==
  ASSUME NEW type, IsType(type), type.kind = "union", NEW b, Sound(b),
         NEW contents \in Seq(Seq(Octets)), KeepsUnion(type, b, contents)
  PROVE  Reads(type, b.data, contents) /\ Whole(type, b.data)
<1> DEFINE buf == b.data
<1>1. PICK id \in 0..(Len(type.items) - 1), bytes \in Seq(Octets) :
        /\ buf = Pack(id) \o bytes
        /\ contents = <<Pack(id), bytes>>
        /\ IsValue(type.items[id + 1], bytes) /\ IsWhole(type.items[id + 1], bytes)
  BY DEF KeepsUnion
<1>2. buf \in Seq(Octets)
  BY DEF Sound
<1>3. Len(type.items) \in 1..(Word - 1)
  BY DEF IsType
<1> HIDE DEF buf
<1>4. id \in Nat /\ id < Word /\ id < Len(type.items)
  BY <1>3, WordIsPositive
<1> DEFINE front == Pack(id)
<1>5. front \in Seq(Octets) /\ 4 = Len(front) /\ 0 \in Nat
  BY <1>4, PackIsBytes DEF NumSize
<1>0. buf = front \o bytes
  BY <1>1
<1> HIDE DEF front
<1>6. Len(buf) = 4 + Len(bytes) /\ Len(bytes) \in Nat
  <2>1. 4 = Len(front) /\ Len(bytes) \in Nat /\ bytes \in Seq(Octets)
    BY <1>0, <1>1, <1>5
  <2>2. Len(front \o bytes) = Len(front) + Len(bytes)
    BY <1>5, <2>1, ConcatProperties
  <2> QED BY <1>0, <2>1, <2>2, Zenon
<1>7. ASSUME NEW tail \in Seq(Octets)
      PROVE  Num(front \o tail, 0) = id /\ From(front \o tail, NumSize) = tail
  <2> DEFINE whole == front \o tail
  <2>1. whole \in Seq(Octets) /\ Len(whole) = 4 + Len(tail) /\ Len(tail) \in Nat
    <3>1. 4 = Len(front) /\ Len(tail) \in Nat
      BY <1>5
    <3>2. whole \in Seq(Octets) /\ Len(whole) = Len(front) + Len(tail)
      BY <1>5, ConcatProperties
    <3> HIDE DEF whole
    <3> QED BY <3>1, <3>2
  <2>2. Holds(whole, 0, front)
    <3>1. Holds(front, 0, front)
      BY <1>5, HoldsItself
    <3> HIDE DEF Holds
    <3> QED BY <1>5, <3>1, HoldsBefore
  <2>3. Holds(whole, 4, tail)
    <3>1. Holds(tail, 0, tail)
      BY HoldsItself
    <3>2. Holds(whole, Len(front) + 0, tail)
      <4> HIDE DEF Holds
      <4> QED BY <1>5, <3>1, HoldsBehind
    <3>3. Len(front) + 0 = 4
      BY <1>5
    <3> QED BY <3>2, <3>3, Zenon
  <2> HIDE DEF whole, Holds
  <2>4. Num(whole, 0) = id
    BY <1>4, <1>5, <2>1, <2>2, NumOfPack DEF front
  <2>5. BytesOf(whole, Segment(4, Len(tail))) = tail
    BY <2>1, <2>3, HoldsSegment
  <2>6. From(whole, NumSize) = tail
    <3>1. Len(whole) - 4 = Len(tail)
      BY <2>1
    <3> QED BY <2>5, <3>1 DEF From, NumSize
  <2> QED BY <2>4, <2>6 DEF whole
<1>8. Num(buf, 0) = id /\ From(buf, NumSize) = bytes
  BY <1>0, <1>7
<1>9. Contents(type, buf) = contents
  BY <1>1, <1>8 DEF Contents, front
<1>10. ASSUME NEW other, Num(other, 0) = id, NEW compatible \in BOOLEAN
       PROVE  Verifier(type, other, compatible)
                <=> Len(other) >= NumSize /\ Accepts(type.items[id + 1], From(other, NumSize), compatible)
  <2>1. HeadVerifies(type, other, compatible) <=> Len(other) >= NumSize
    BY <1>4, <1>10 DEF HeadVerifies
  <2>2. Parts(type, other) = <<[type |-> type.items[id + 1], bytes |-> From(other, NumSize)]>>
    BY <1>10 DEF Parts
  <2>3. \A x : DOMAIN <<x>> = {1} /\ <<x>>[1] = x
    OBVIOUS
  <2> DEFINE part == [type |-> type.items[id + 1], bytes |-> From(other, NumSize)]
  <2>4. part.type = type.items[id + 1] /\ part.bytes = From(other, NumSize)
    OBVIOUS
  <2> HIDE DEF part
  <2>5. Parts(type, other) = <<part>>
    BY <2>2 DEF part
  <2> QED BY <2>1, <2>3, <2>4, <2>5 DEF Verifier
<1>11. \A compatible \in BOOLEAN : Accepts(type.items[id + 1], bytes, compatible)
  BY <1>1 DEF IsValue
<1>12. ASSUME NEW compatible \in BOOLEAN PROVE Verifier(type, buf, compatible)
  BY <1>6, <1>8, <1>10, <1>11 DEF NumSize
<1>13. ASSUME NEW n \in 0..(Len(buf) - 1) PROVE ~Verifier(type, SubSeq(buf, 1, n), TRUE)
  <2>1. /\ SubSeq(buf, 1, n) \in Seq(Octets) /\ Len(SubSeq(buf, 1, n)) = n
        /\ \A k \in 1..n : SubSeq(buf, 1, n)[k] = buf[k]
    BY <1>2, CutProperties
  <2>2. CASE n < NumSize
    <3>1. ~HeadVerifies(type, SubSeq(buf, 1, n), TRUE)
      BY <2>1, <2>2 DEF HeadVerifies, NumSize
    <3> QED BY <3>1 DEF Verifier
  <2>3. CASE n >= NumSize
    <3>1. n - 4 \in 0..(Len(bytes) - 1)
      BY <1>6, <2>3 DEF NumSize
    <3>2. /\ SubSeq(bytes, 1, n - 4) \in Seq(Octets) /\ Len(SubSeq(bytes, 1, n - 4)) = n - 4
          /\ \A k \in 1..(n - 4) : SubSeq(bytes, 1, n - 4)[k] = bytes[k]
      BY <3>1, CutProperties
    <3> DEFINE tail == SubSeq(bytes, 1, n - 4)
               cut == SubSeq(buf, 1, n)
               joined == front \o tail
    <3>3. joined \in Seq(Octets) /\ Len(joined) = n
          /\ \A k \in 1..n : joined[k] = IF k <= 4 THEN front[k] ELSE bytes[k - 4]
      <4>1. tail \in Seq(Octets) /\ Len(tail) = n - 4
        BY <3>2
      <4> HIDE DEF tail
      <4>2. /\ joined \in Seq(Octets) /\ Len(joined) = 4 + (n - 4)
            /\ \A k \in 1..(4 + (n - 4)) : joined[k] = IF k <= 4 THEN front[k] ELSE tail[k - 4]
        <5>1. 4 = Len(front) /\ n - 4 = Len(tail)
          BY <1>5, <4>1
        <5>2. /\ joined \in Seq(Octets) /\ Len(joined) = Len(front) + Len(tail)
              /\ \A k \in 1..(Len(front) + Len(tail)) :
                   joined[k] = IF k <= Len(front) THEN front[k] ELSE tail[k - Len(front)]
          <6>1. front \in Seq(Octets) /\ tail \in Seq(Octets)
            BY <1>5, <4>1
          <6> QED BY <6>1, ConcatProperties
        <5> HIDE DEF joined
        <5> QED BY <5>1, <5>2
      <4>3. 4 + (n - 4) = n /\ \A k \in 1..n : ~(k <= 4) => k - 4 \in 1..(n - 4)
        OBVIOUS
      <4> HIDE DEF joined
      <4> QED BY <3>2, <4>2, <4>3 DEF tail
    <3>4. \A k \in 1..n : buf[k] = IF k <= 4 THEN front[k] ELSE bytes[k - 4]
      <4>1. \A k \in 1..(4 + Len(bytes)) : (front \o bytes)[k] = IF k <= 4 THEN front[k] ELSE bytes[k - 4]
        <5>1. 4 = Len(front) /\ bytes \in Seq(Octets)
          BY <1>1, <1>5
        <5>2. \A k \in 1..(Len(front) + Len(bytes)) :
                (front \o bytes)[k] = IF k <= Len(front) THEN front[k] ELSE bytes[k - Len(front)]
          BY <1>5, <5>1, ConcatProperties
        <5> QED BY <5>1, <5>2
      <4>2. \A k \in 1..n : k \in 1..(4 + Len(bytes))
        BY <1>6
      <4> QED BY <1>0, <4>1, <4>2
    <3>5. cut = joined
      <4>1. cut \in Seq(Octets) /\ Len(cut) = n /\ \A k \in 1..n : cut[k] = buf[k]
        BY <2>1
      <4> HIDE DEF cut, joined
      <4> QED BY <3>3, <3>4, <4>1, SeqEqual
    <3>6. Num(cut, 0) = id /\ From(cut, NumSize) = tail
      BY <1>7, <3>2, <3>5
    <3>7. ~Accepts(type.items[id + 1], tail, TRUE)
      BY <1>1, <3>1 DEF IsWhole
    <3> HIDE DEF cut, tail
    <3>8. Verifier(type, cut, TRUE) <=> Len(cut) >= NumSize /\ Accepts(type.items[id + 1], From(cut, NumSize), TRUE)
      BY <1>10, <3>6
    <3> QED BY <3>6, <3>7, <3>8, Zenon DEF cut
  <2>4. n < NumSize \/ n >= NumSize
    BY DEF NumSize
  <2> QED BY <2>2, <2>3, <2>4, Zenon
<1>14. ASSUME NEW n \in 1..4 PROVE ~Verifier(type, buf \o Zeros(n), TRUE)
  <2>1. Zeros(n) \in Seq(Octets)
    BY ZerosAreBytes
  <2>2. buf \o Zeros(n) = front \o (bytes \o Zeros(n)) /\ bytes \o Zeros(n) \in Seq(Octets)
    <3>1. (front \o bytes) \o Zeros(n) = front \o (bytes \o Zeros(n))
      <4>1. front \in Seq(Octets) /\ bytes \in Seq(Octets) /\ Zeros(n) \in Seq(Octets)
        BY <1>1, <1>5, <2>1
      <4> HIDE DEF buf
      <4> QED BY <4>1, OctetsAssociate
    <3>2. bytes \o Zeros(n) \in Seq(Octets)
      BY <2>1, ConcatProperties
    <3> QED BY <1>0, <3>1, <3>2
  <2>3. Num(buf \o Zeros(n), 0) = id /\ From(buf \o Zeros(n), NumSize) = bytes \o Zeros(n)
    BY <1>7, <2>2
  <2>4. ~Accepts(type.items[id + 1], bytes \o Zeros(n), TRUE)
    BY <1>1 DEF IsWhole
  <2> QED BY <1>10, <2>3, <2>4
<1> QED BY <1>2, <1>9, <1>12, <1>13, <1>14 DEF Reads, Whole, buf

(* A vector of items of one length.                                          *)
LEMMA FixvecIsRead ==
  ASSUME NEW type, IsType(type), type.kind = "fixvec", NEW b, Sound(b),
         NEW contents \in Seq(Seq(Octets)), KeepsFixvec(type, b, contents),
         NEW buf, buf = Pack(b.number[1]) \o b.data, Len(buf) < Word
  PROVE  Reads(type, buf, contents) /\ Whole(type, buf)
<1> DEFINE n == Len(contents)
           item == type.item
           body == b.data
<1>1. item \in Nat \ {0}
  BY DEF IsType
<1>2. /\ body \in Seq(Octets) /\ b.number[1] = n /\ Len(body) = item * n /\ n \in Nat
      /\ \A k \in 1..n : Len(contents[k]) = item /\ Holds(body, item * (k - 1), contents[k])
  BY DEF Sound, KeepsFixvec
<1> HIDE DEF item, body, n
<1>3. n <= item * n /\ item * n \in Nat
  BY <1>1, <1>2, ProductAtLeast
<1> DEFINE front == Pack(n)
<1>4. front \in Seq(Octets) /\ 4 = Len(front) /\ n < Word
  <2>1. n < Word
    <3>1. b \in [data : Seq(Octets), number : Seq(0..(Word - 1)), data_cap : 0..(Word - 1), number_cap : 0..(Word - 1)]
          /\ Len(body) <= b.data_cap
      BY DEF Sound, body
    <3> QED BY <1>2, <1>3, <3>1, WordIsPositive
  <2> QED BY <1>2, <2>1, PackIsBytes DEF NumSize
<1> HIDE DEF front
<1>5. buf \in Seq(Octets) /\ Len(buf) = 4 + item * n /\ buf = front \o body
  <2>1. buf = front \o body
    BY <1>2 DEF body, front
  <2>2. front \o body \in Seq(Octets) /\ Len(front \o body) = 4 + Len(body)
    <3>1. front \o body \in Seq(Octets) /\ Len(front \o body) = Len(front) + Len(body)
      BY <1>2, <1>4, ConcatProperties
    <3> QED BY <1>4, <3>1
  <2> QED BY <1>2, <2>1, <2>2
<1>6. Num(buf, 0) = n
  <2>1. Holds(front, 0, front) /\ 0 \in Nat
    BY <1>4, HoldsItself
  <2>2. Holds(buf, 0, front)
    <3> HIDE DEF Holds
    <3> QED BY <1>2, <1>4, <1>5, <2>1, HoldsBefore
  <2> QED BY <1>2, <1>4, <1>5, <2>1, <2>2, NumOfPack DEF front
<1>7. ASSUME NEW other \in Seq(Octets), Len(other) >= 4 => Num(other, 0) = n
      PROVE  FixvecErrno(other, item) = "OK" <=> Len(other) = Len(buf)
  <2> DEFINE size == Len(other)
  <2>0. size \in Nat
    OBVIOUS
  <2> HIDE DEF size
  <2>1. CASE size < 4
    <3>1. FixvecErrno(other, item) = "HEADER"
      BY <2>1 DEF FixvecErrno, NumSize, size
    <3>2. size # 4 + item * n
      BY <1>3, <2>0, <2>1
    <3> QED BY <1>5, <3>1, <3>2 DEF size
  <2>2. CASE size >= 4 /\ n = 0
    <3>1. Num(other, 0) = 0 /\ ~(size < 4)
      BY <1>7, <2>0, <2>2 DEF size
    <3>2. FixvecErrno(other, item) = IF size = 4 THEN "OK" ELSE "TOTAL_SIZE"
      BY <2>2, <3>1 DEF FixvecErrno, NumSize, size
    <3>3. Len(buf) = 4
      BY <1>1, <1>5, <2>2
    <3> QED BY <3>2, <3>3 DEF size
  <2>3. CASE size >= 4 /\ n # 0
    <3>1. Num(other, 0) = n /\ ~(size < 4) /\ n # 0
      BY <1>7, <2>0, <2>3 DEF size
    <3>2. FixvecErrno(other, item) = IF size = FixvecSize(item, n) THEN "OK" ELSE "TOTAL_SIZE"
      BY <3>1 DEF FixvecErrno, NumSize, size
    <3>3. FixvecSize(item, n) = Len(buf)
      <4>1. 4 + item * n \in 0..(Word - 1)
        BY <1>3, <1>5, WordIsPositive
      <4>2. (4 + item * n) % Word = 4 + item * n
        BY <4>1, WordIsPositive, ModBelow, Zenon
      <4> QED BY <1>5, <4>2 DEF FixvecSize, NumSize
    <3> QED BY <3>2, <3>3 DEF size
  <2>4. size < 4 \/ (size >= 4 /\ n = 0) \/ (size >= 4 /\ n # 0)
    BY <2>0
  <2> QED BY <2>1, <2>2, <2>3, <2>4, Zenon
<1>8. ASSUME NEW other \in Seq(Octets), Len(other) >= 4 => Num(other, 0) = n, NEW compatible \in BOOLEAN
      PROVE  Verifier(type, other, compatible) <=> Len(other) = Len(buf)
  <2>1. Parts(type, other) = << >> /\ (HeadVerifies(type, other, compatible) <=> FixvecErrno(other, item) = "OK")
    BY DEF Parts, HeadVerifies, item
  <2>2. FixvecErrno(other, item) = "OK" <=> Len(other) = Len(buf)
    BY <1>7, <1>8, Zenon
  <2>3. DOMAIN << >> = {}
    OBVIOUS
  <2>4. Verifier(type, other, compatible) <=> HeadVerifies(type, other, compatible)
    BY <2>1, <2>3, Zenon DEF Verifier
  <2> QED BY <2>1, <2>2, <2>4, Zenon
<1>9. Contents(type, buf) = contents
  <2>1. Contents(type, buf) = [k \in 1..n |-> BytesOf(buf, FixvecItem(item, k - 1))]
    BY <1>6 DEF Contents, item
  <2>2. ASSUME NEW k \in 1..n PROVE BytesOf(buf, FixvecItem(item, k - 1)) = contents[k]
    <3>1. item * (k - 1) \in Nat /\ item * (k - 1) <= item * n /\ item * (k - 1) < Word
      <4>1. k - 1 \in Nat /\ k - 1 <= n /\ item \in Nat
        BY <1>1, <1>2
      <4>2. item * (k - 1) \in Nat /\ item * (k - 1) <= item * n
        BY <1>2, <4>1, ProductMonotonic
      <4> DEFINE low == item * (k - 1)
                 high == item * n
      <4>3. low \in Nat /\ low <= high /\ high \in Nat /\ Len(buf) = 4 + high /\ Len(buf) < Word
        BY <1>3, <1>5, <4>2
      <4> HIDE DEF low, high
      <4>4. low < Word
        BY <4>3, WordIsPositive
      <4> QED BY <4>2, <4>4 DEF low
    <3>2. (item * (k - 1)) % Word = item * (k - 1)
      <4>1. item * (k - 1) \in 0..(Word - 1)
        BY <3>1, WordIsPositive
      <4> QED BY <4>1, WordIsPositive, ModBelow, Zenon
    <3>3. FixvecItem(item, k - 1) = Segment(4 + item * (k - 1), Len(contents[k]))
      BY <1>2, <3>2 DEF FixvecItem, NumSize
    <3>4. Holds(buf, 4 + item * (k - 1), contents[k]) /\ contents[k] \in Seq(Octets)
      <4>1. Holds(body, item * (k - 1), contents[k]) /\ contents[k] \in Seq(Octets)
        BY <1>2 DEF n
      <4> HIDE DEF Holds
      <4>2. Holds(front \o body, Len(front) + item * (k - 1), contents[k])
        BY <1>2, <1>4, <3>1, <4>1, HoldsBehind
      <4> QED BY <1>4, <1>5, <4>1, <4>2, Zenon
    <3>5. BytesOf(buf, Segment(4 + item * (k - 1), Len(contents[k]))) = contents[k]
      <4>1. 4 + item * (k - 1) \in Nat
        BY <3>1
      <4> HIDE DEF Holds
      <4> QED BY <1>5, <3>4, <4>1, HoldsSegment
    <3> QED BY <3>3, <3>5
  <2>3. Contents(type, buf) = [k \in 1..Len(contents) |-> contents[k]]
    BY <2>1, <2>2 DEF n
  <2> QED BY <2>3, SameList, Zenon
<1>10. Whole(type, buf)
  <2>1. ASSUME NEW m \in 0..(Len(buf) - 1) PROVE ~Verifier(type, SubSeq(buf, 1, m), TRUE)
    <3>1. /\ SubSeq(buf, 1, m) \in Seq(Octets) /\ Len(SubSeq(buf, 1, m)) = m
          /\ m >= 4 => Num(SubSeq(buf, 1, m), 0) = n
      BY <1>5, <1>6, CutProperties DEF NumSize
    <3>2. m # Len(buf)
      BY <1>3, <1>5
    <3> QED BY <1>8, <3>1, <3>2
  <2>2. ASSUME NEW m \in 1..4 PROVE ~Verifier(type, buf \o Zeros(m), TRUE)
    <3>1. Len(buf) >= 4
      BY <1>3, <1>5
    <3>2. /\ buf \o Zeros(m) \in Seq(Octets) /\ Len(buf \o Zeros(m)) = Len(buf) + m
          /\ Num(buf \o Zeros(m), 0) = n
      BY <1>5, <1>6, <3>1, LongerProperties DEF NumSize
    <3>3. Len(buf) + m # Len(buf)
      BY <1>3, <1>5
    <3> QED BY <1>8, <3>2, <3>3
  <2> QED BY <2>1, <2>2 DEF Whole
<1> QED BY <1>5, <1>6, <1>8, <1>9, <1>10 DEF Reads

(* A value that says how long it is says so of no other length.              *)
LEMMA FrameOtherLengths ==
  ASSUME NEW type, NEW buf \in Seq(Octets), NumSize <= Len(buf),
         \A other \in Seq(Octets) :
           /\ Len(other) # Len(buf)
           /\ Len(other) >= NumSize => Num(other, 0) = Num(buf, 0)
           => ~Verifier(type, other, TRUE)
  PROVE  Whole(type, buf)
<1>1. ASSUME NEW n \in 0..(Len(buf) - 1) PROVE ~Verifier(type, SubSeq(buf, 1, n), TRUE)
  <2>1. /\ SubSeq(buf, 1, n) \in Seq(Octets) /\ Len(SubSeq(buf, 1, n)) = n
        /\ n >= NumSize => Num(SubSeq(buf, 1, n), 0) = Num(buf, 0)
    BY CutProperties
  <2>2. n # Len(buf)
    OBVIOUS
  <2> QED BY <2>1, <2>2, Zenon
<1>2. ASSUME NEW n \in 1..4 PROVE ~Verifier(type, buf \o Zeros(n), TRUE)
  <2>1. /\ buf \o Zeros(n) \in Seq(Octets) /\ Len(buf \o Zeros(n)) = Len(buf) + n
        /\ Num(buf \o Zeros(n), 0) = Num(buf, 0)
    BY LongerProperties
  <2>2. Len(buf) + n # Len(buf)
    OBVIOUS
  <2> QED BY <2>1, <2>2, Zenon
<1> QED BY <1>1, <1>2 DEF Whole

(* A vector of items of different lengths.                                   *)
LEMMA DynvecIsRead ==
  ASSUME NEW type, type.kind = "dynvec", NEW buf, NEW contents, HasParts(buf, contents),
         \A k \in 1..Len(contents) : IsValue(type.item, contents[k])
  PROVE  Reads(type, buf, contents) /\ Whole(type, buf)
<1>1. /\ Count(buf) = Len(contents) /\ DynvecLength(buf) = Len(contents)
      /\ IF contents = << >> THEN NoItems(buf) ELSE HeadFits(buf)
      /\ \A k \in 1..Len(contents) :
           /\ BytesOf(buf, DynvecItem(buf, k - 1)) = contents[k]
           /\ PartAt(type.item, buf, k) = [type |-> type.item, bytes |-> contents[k]]
  BY PartsAreRead
<1>2. buf \in Seq(Octets) /\ contents \in Seq(Seq(Octets)) /\ Num(buf, 0) = Len(buf) /\ NumSize <= Len(buf)
  <2>1. NumSize * (Len(contents) + 1) <= Len(buf) /\ contents \in Seq(Seq(Octets)) /\ buf \in Seq(Octets)
    BY DEF HasParts
  <2>2. 4 <= Len(buf)
    BY <2>1 DEF NumSize
  <2> QED BY <2>1, <2>2 DEF HasParts, NumSize
<1>3. Contents(type, buf) = contents
  <2>1. Contents(type, buf) = [k \in 1..DynvecLength(buf) |-> BytesOf(buf, DynvecItem(buf, k - 1))]
    BY DEF Contents
  <2>2. Contents(type, buf) = [k \in 1..Len(contents) |-> contents[k]]
    BY <1>1, <2>1
  <2> QED BY <1>2, <2>2, SameList, Zenon
<1>4. ASSUME NEW compatible \in BOOLEAN PROVE Verifier(type, buf, compatible)
  <2>1. HeadVerifies(type, buf, compatible)
    BY <1>1 DEF HeadVerifies
  <2>2. Parts(type, buf) = [k \in 1..Count(buf) |-> PartAt(type.item, buf, k)]
    BY DEF Parts
  <2>3. DOMAIN Parts(type, buf) = 1..Len(contents)
    BY <1>1, <2>2
  <2>4. ASSUME NEW k \in 1..Len(contents)
        PROVE  Accepts(Parts(type, buf)[k].type, Parts(type, buf)[k].bytes, compatible)
    <3>1. Parts(type, buf)[k] = [type |-> type.item, bytes |-> contents[k]]
      BY <1>1, <2>2
    <3>2. Parts(type, buf)[k].type = type.item /\ Parts(type, buf)[k].bytes = contents[k]
      BY <3>1
    <3>3. Accepts(type.item, contents[k], compatible)
      BY DEF IsValue
    <3> QED BY <3>2, <3>3, Zenon
  <2> QED BY <2>1, <2>3, <2>4, Zenon DEF Verifier
<1>5. ASSUME NEW other \in Seq(Octets), Len(other) # Len(buf),
             Len(other) >= NumSize => Num(other, 0) = Num(buf, 0)
      PROVE  ~Verifier(type, other, TRUE)
  <2>1. ~NoItems(other) /\ ~HeadFits(other)
    BY <1>2, <1>5, FrameIsWhole
  <2> QED BY <2>1 DEF Verifier, HeadVerifies
<1>6. Whole(type, buf)
  BY <1>2, <1>5, FrameOtherLengths
<1> QED BY <1>2, <1>3, <1>4, <1>6 DEF Reads

(* A table.                                                                  *)
LEMMA TableIsRead ==
  ASSUME NEW type, IsType(type), type.kind = "table", NEW buf, NEW contents, HasParts(buf, contents),
         Len(contents) = Len(type.fields),
         \A k \in 1..Len(contents) : IsValue(type.fields[k], contents[k])
  PROVE  Reads(type, buf, contents) /\ Whole(type, buf)
<1>1. /\ Count(buf) = Len(contents)
      /\ IF contents = << >> THEN NoItems(buf) ELSE HeadFits(buf)
      /\ \A k \in 1..Len(contents) :
           /\ BytesOf(buf, DynvecItem(buf, k - 1)) = contents[k]
           /\ \A field : PartAt(field, buf, k) = [type |-> field, bytes |-> contents[k]]
  BY PartsAreRead
<1>2. buf \in Seq(Octets) /\ contents \in Seq(Seq(Octets)) /\ Num(buf, 0) = Len(buf) /\ NumSize <= Len(buf)
  <2>1. NumSize * (Len(contents) + 1) <= Len(buf) /\ contents \in Seq(Seq(Octets)) /\ buf \in Seq(Octets)
    BY DEF HasParts
  <2>2. 4 <= Len(buf)
    BY <2>1 DEF NumSize
  <2> QED BY <2>1, <2>2 DEF HasParts, NumSize
<1>3. DOMAIN type.fields = 1..Len(contents) /\ (type.fields = << >> <=> contents = << >>)
  <2>1. IsList(type.fields)
    BY DEF IsType
  <2>2. DOMAIN type.fields = 1..Len(contents)
    <3>1. type.fields = [k \in 1..Len(type.fields) |-> type.fields[k]]
      BY <2>1 DEF IsList
    <3>2. DOMAIN [k \in 1..Len(type.fields) |-> type.fields[k]] = 1..Len(type.fields)
      OBVIOUS
    <3> QED BY <3>1, <3>2, Zenon
  <2>3. contents = << >> => type.fields = << >>
    <3> SUFFICES ASSUME contents = << >> PROVE type.fields = << >>
      OBVIOUS
    <3>1. Len(type.fields) = 0
      OBVIOUS
    <3>2. type.fields = [k \in 1..0 |-> type.fields[k]]
      BY <2>1, <3>1, Zenon DEF IsList
    <3> QED BY <3>2
  <2>4. type.fields = << >> => contents = << >>
    BY <1>2
  <2> QED BY <2>2, <2>3, <2>4
<1>4. Contents(type, buf) = contents
  <2>1. Contents(type, buf) = [k \in DOMAIN type.fields |-> BytesOf(buf, DynvecItem(buf, k - 1))]
    BY DEF Contents
  <2>2. Contents(type, buf) = [k \in 1..Len(contents) |-> contents[k]]
    BY <1>1, <1>3, <2>1
  <2> QED BY <1>2, <2>2, SameList, Zenon
<1>5. ASSUME NEW compatible \in BOOLEAN PROVE Verifier(type, buf, compatible)
  <2>1. HeadVerifies(type, buf, compatible)
    <3>1. CASE contents = << >>
      BY <1>1, <1>3, <3>1 DEF HeadVerifies
    <3>2. CASE contents # << >>
      <4>1. HeadFits(buf) /\ Count(buf) = Len(type.fields)
        BY <1>1, <3>2
      <4>2. Count(buf) >= Len(type.fields)
        <5>1. Len(contents) \in Nat
          BY <1>2
        <5>2. \A n \in Nat : n >= n
          OBVIOUS
        <5> QED BY <4>1, <5>1, <5>2, Zenon
      <4> QED BY <4>1, <4>2 DEF HeadVerifies
    <3> QED BY <3>1, <3>2
  <2>2. Parts(type, buf) = [k \in 1..Len(type.fields) |-> PartAt(type.fields[k], buf, k)]
    BY DEF Parts
  <2>3. DOMAIN Parts(type, buf) = 1..Len(contents)
    BY <2>2
  <2>4. ASSUME NEW k \in 1..Len(contents)
        PROVE  Accepts(Parts(type, buf)[k].type, Parts(type, buf)[k].bytes, compatible)
    <3>1. Parts(type, buf)[k] = [type |-> type.fields[k], bytes |-> contents[k]]
      BY <1>1, <2>2
    <3>2. Parts(type, buf)[k].type = type.fields[k] /\ Parts(type, buf)[k].bytes = contents[k]
      BY <3>1
    <3>3. Accepts(type.fields[k], contents[k], compatible)
      BY DEF IsValue
    <3> QED BY <3>2, <3>3, Zenon
  <2> QED BY <2>1, <2>3, <2>4, Zenon DEF Verifier
<1>6. ASSUME NEW other \in Seq(Octets), Len(other) # Len(buf),
             Len(other) >= NumSize => Num(other, 0) = Num(buf, 0)
      PROVE  ~Verifier(type, other, TRUE)
  <2>1. ~NoItems(other) /\ ~HeadFits(other)
    BY <1>2, <1>6, FrameIsWhole
  <2> QED BY <2>1 DEF Verifier, HeadVerifies
<1>7. Whole(type, buf)
  BY <1>2, <1>6, FrameOtherLengths
<1> QED BY <1>2, <1>4, <1>5, <1>7 DEF Reads

(* A table's parts are values of the types of its fields.                    *)
HasFields(type, buf, contents) ==
  /\ HasParts(buf, contents)
  /\ Len(contents) = Len(type.fields)
  /\ \A k \in 1..Len(contents) : IsValue(type.fields[k], contents[k])

(***************************************************************************)
(* A frame with more parts than a type has fields, or with less.           *)
(***************************************************************************)
LEMMA OlderIsRead ==
  ASSUME NEW type, IsType(type), type.kind = "table", NEW buf, NEW contents, HasFields(type, buf, contents),
         NEW older, IsType(older), Extends(type, older)
  PROVE  /\ Verifier(older, buf, TRUE)
         /\ ~Verifier(older, buf, FALSE)
         /\ Contents(older, buf) = SubSeq(contents, 1, Len(older.fields))
<1> USE DEF HasFields
<1> DEFINE n == Len(contents)
           m == Len(older.fields)
<1>1. /\ Count(buf) = n
      /\ IF contents = << >> THEN NoItems(buf) ELSE HeadFits(buf)
      /\ \A k \in 1..n :
           /\ BytesOf(buf, DynvecItem(buf, k - 1)) = contents[k]
           /\ \A field : PartAt(field, buf, k) = [type |-> field, bytes |-> contents[k]]
  BY PartsAreRead
<1>2. contents \in Seq(Seq(Octets)) /\ n \in Nat
  BY DEF HasParts
<1>3. older.kind = "table" /\ older.fields # << >> /\ m < n /\ older.fields = SubSeq(type.fields, 1, m)
  BY DEF Extends
<1>4. m \in Nat /\ DOMAIN older.fields = 1..m
  <2>1. IsList(older.fields)
    BY <1>3 DEF IsType
  <2>2. older.fields = [k \in 1..m |-> older.fields[k]] /\ m \in Nat
    BY <2>1, Zenon DEF IsList
  <2>3. DOMAIN [k \in 1..m |-> older.fields[k]] = 1..m
    OBVIOUS
  <2> QED BY <2>2, <2>3, Zenon
<1>5. ASSUME NEW k \in 1..m PROVE older.fields[k] = type.fields[k] /\ k \in 1..n
  <2> DEFINE S == {type.fields[i] : i \in 1..n}
  <2>1. 1 \in Int /\ m \in Int /\ \A i \in 1..m : type.fields[i] \in S
    BY <1>2, <1>3, <1>4
  <2> HIDE DEF S, m
  <2>2. \A i \in 1..(m - 1 + 1) : SubSeq(type.fields, 1, m)[i] = type.fields[1 + i - 1]
    BY <2>1, SubSeqProperties
  <2>3. k \in 1..(m - 1 + 1) /\ 1 + k - 1 = k /\ k \in 1..n
    BY <1>2, <1>3, <1>4
  <2> QED BY <1>3, <2>2, <2>3
<1> HIDE DEF m
<1>6. contents # << >> /\ HeadFits(buf)
  BY <1>1, <1>2, <1>3, <1>4
<1>7. Verifier(older, buf, TRUE)
  <2>1. HeadVerifies(older, buf, TRUE)
    <3>1. Count(buf) >= Len(older.fields)
      BY <1>1, <1>2, <1>3, <1>4 DEF m
    <3> QED BY <1>3, <1>6, <3>1 DEF HeadVerifies
  <2>2. Parts(older, buf) = [k \in 1..m |-> PartAt(older.fields[k], buf, k)]
    BY <1>3 DEF Parts, m
  <2>3. ASSUME NEW k \in 1..m
        PROVE  Accepts(Parts(older, buf)[k].type, Parts(older, buf)[k].bytes, TRUE)
    <3>1. Parts(older, buf)[k] = [type |-> type.fields[k], bytes |-> contents[k]]
      BY <1>1, <1>5, <2>2
    <3>2. Parts(older, buf)[k].type = type.fields[k] /\ Parts(older, buf)[k].bytes = contents[k]
      BY <3>1
    <3>3. Accepts(type.fields[k], contents[k], TRUE)
      BY <1>5 DEF IsValue
    <3> QED BY <3>2, <3>3, Zenon
  <2>4. DOMAIN Parts(older, buf) = 1..m
    BY <2>2
  <2> QED BY <2>1, <2>3, <2>4, Zenon DEF Verifier
<1>8. ~Verifier(older, buf, FALSE)
  <2>1. Count(buf) # Len(older.fields)
    BY <1>1, <1>2, <1>3, <1>4 DEF m
  <2> QED BY <1>3, <2>1 DEF Verifier, HeadVerifies
<1>9. Contents(older, buf) = SubSeq(contents, 1, Len(older.fields))
  <2>1. Contents(older, buf) = [k \in DOMAIN older.fields |-> BytesOf(buf, DynvecItem(buf, k - 1))]
    BY <1>3 DEF Contents
  <2>2. Contents(older, buf) = [k \in 1..m |-> contents[k]]
    BY <1>1, <1>4, <1>5, <2>1
  <2>3. Contents(older, buf) \in Seq(Seq(Octets)) /\ Len(Contents(older, buf)) = m
        /\ \A k \in 1..m : Contents(older, buf)[k] = contents[k]
    <3> DEFINE f == [k \in 1..m |-> contents[k]]
    <3>1. f \in [1..m -> Seq(Octets)] /\ \A k \in 1..m : f[k] = contents[k]
      BY <1>2, <1>5
    <3>2. Contents(older, buf) = f
      BY <2>2
    <3> HIDE DEF f
    <3>3. f \in Seq(Seq(Octets)) /\ Len(f) = m
      BY <1>4, <3>1, FunctionIsSeq, Zenon
    <3> QED BY <3>1, <3>2, <3>3
  <2>4. /\ SubSeq(contents, 1, m) \in Seq(Seq(Octets)) /\ Len(SubSeq(contents, 1, m)) = m
        /\ \A k \in 1..m : SubSeq(contents, 1, m)[k] = contents[k]
    <3>1. 1 \in Int /\ m \in Int /\ \A i \in 1..m : contents[i] \in Seq(Octets)
      BY <1>2, <1>4, <1>5
    <3>2. /\ SubSeq(contents, 1, m) \in Seq(Seq(Octets))
          /\ Len(SubSeq(contents, 1, m)) = IF 1 <= m THEN m - 1 + 1 ELSE 0
          /\ \A i \in 1..(m - 1 + 1) : SubSeq(contents, 1, m)[i] = contents[1 + i - 1]
      BY <3>1, SubSeqProperties
    <3> QED BY <1>4, <3>2
  <2>5. Contents(older, buf) = SubSeq(contents, 1, m)
    BY <2>3, <2>4, SeqEqual
  <2> QED BY <2>5 DEF m
<1> QED BY <1>7, <1>8, <1>9

(* A table with fewer fields than the type is none of it.                    *)
LEMMA NewerIsRejected ==
  ASSUME NEW type, NEW buf, NEW contents, HasParts(buf, contents),
         Len(contents) = Len(type.fields),
         NEW newer, IsType(newer), Extends(newer, type)
  PROVE  ~Verifier(newer, buf, TRUE)
<1>1. Count(buf) = Len(contents)
  BY PartsAreRead
<1>2. Len(contents) \in Nat
  BY DEF HasParts
<1>3. newer.kind = "table" /\ type.fields # << >> /\ Len(contents) < Len(newer.fields)
  BY DEF Extends
<1>4. Len(newer.fields) \in Nat
  BY <1>3 DEF IsType, IsList
<1>5. newer.fields # << >> /\ ~(Count(buf) >= Len(newer.fields))
  BY <1>1, <1>2, <1>3, <1>4
<1> QED BY <1>3, <1>5 DEF Verifier, HeadVerifies

-----------------------------------------------------------------------------
(***************************************************************************)
(* A builder that was initialized, and what a call does to one.            *)
(***************************************************************************)
LEMMA CountedIsWord ==
  ASSUME NEW n \in Nat, Counted(n)
  PROVE  n < Word /\ 2 * n <= Word
<1>1. n <= Word \div 2
  BY DEF Counted
<1> QED BY <1>1, WordIsPositive

(* Zeros lie anywhere among zeros.                                           *)
LEMMA ZerosHold ==
  ASSUME NEW p \in Nat, NEW m \in Nat, NEW n \in Nat, p + m <= n
  PROVE  Holds(Zeros(n), p, Zeros(m))
<1>1. Len(Zeros(n)) = n /\ Len(Zeros(m)) = m
  BY ZerosAreBytes
<1>2. \A j \in 1..m : Zeros(n)[p + j] = 0 /\ Zeros(m)[j] = 0
  BY DEF Zeros
<1> QED BY <1>1, <1>2 DEF Holds

(* MolBuilder_T_init: a struct is all zeros.                                 *)
LEMMA StructInitialized ==
  ASSUME NEW type, IsType(type), type.kind = "struct", NEW capacity
  PROVE  /\ Sound(Initialized(type, capacity))
         /\ NothingAsked(type) \in Seq(Seq(Octets))
         /\ KeepsStruct(type, Initialized(type, capacity), NothingAsked(type))
<1> DEFINE b == Initialized(type, capacity)
           contents == NothingAsked(type)
           n == Len(type.slices)
<1>1. type.size \in Nat /\ Counted(type.size) /\ type.slices \in Seq([offset : Nat, length : Nat])
      /\ \A k \in DOMAIN type.slices : type.slices[k].offset + type.slices[k].length <= type.size
  BY DEF IsType
<1>2. b = Allocated(Zeros(type.size), type.size, << >>, 0)
  BY DEF Initialized
<1>3. b.data = Zeros(type.size) /\ b.data_cap = type.size /\ b.number = << >> /\ b.number_cap = 0
      /\ b = [data |-> b.data, data_cap |-> b.data_cap, number |-> b.number, number_cap |-> b.number_cap]
  BY <1>2 DEF Allocated
<1> HIDE DEF b
<1>4. type.size < Word
  BY <1>1, CountedIsWord
<1>5. Zeros(type.size) \in Seq(Octets) /\ Len(Zeros(type.size)) = type.size
  BY <1>1, ZerosAreBytes
<1>6. Sound(b)
  <2>1. << >> \in Seq(0..(Word - 1)) /\ Len(<< >>) = 0 /\ NumSize * 0 <= 0
    BY DEF NumSize
  <2>2. type.size \in 0..(Word - 1) /\ 0 \in 0..(Word - 1)
    BY <1>1, <1>4, WordIsPositive
  <2>3. b \in [data : Seq(Octets), number : Seq(0..(Word - 1)), data_cap : 0..(Word - 1), number_cap : 0..(Word - 1)]
    BY <1>3, <1>5, <2>1, <2>2
  <2>4. Len(b.data) <= b.data_cap
    BY <1>1, <1>3, <1>5
  <2>5. NumSize * Len(b.number) <= b.number_cap
    BY <1>3, <2>1
  <2> QED BY <2>3, <2>4, <2>5 DEF Sound
<1>7. n \in Nat /\ DOMAIN type.slices = 1..n
  BY <1>1
<1>8. ASSUME NEW k \in 1..n
      PROVE  type.slices[k].offset \in Nat /\ type.slices[k].length \in Nat
             /\ type.slices[k].offset + type.slices[k].length <= type.size
  <2>1. type.slices[k] \in [offset : Nat, length : Nat]
    BY <1>1, <1>7, ElementOfSeq
  <2> QED BY <1>1, <1>7, <2>1
<1>9. contents = [k \in 1..n |-> Zeros(type.slices[k].length)]
  BY <1>7 DEF NothingAsked
<1>10. contents \in Seq(Seq(Octets)) /\ Len(contents) = n
  <2>1. \A k \in 1..n : Zeros(type.slices[k].length) \in Seq(Octets)
    BY <1>8, ZerosAreBytes
  <2>2. contents \in [1..n -> Seq(Octets)]
    BY <1>9, <2>1
  <2> HIDE DEF contents, n
  <2> QED BY <1>7, <2>2, FunctionIsSeq, Zenon
<1>11. ASSUME NEW k \in 1..n
       PROVE  /\ Len(contents[k]) = type.slices[k].length
              /\ Holds(b.data, type.slices[k].offset, contents[k])
  <2>1. contents[k] = Zeros(type.slices[k].length)
    BY <1>9
  <2>2. Len(Zeros(type.slices[k].length)) = type.slices[k].length
    BY <1>8, ZerosAreBytes
  <2>3. Holds(Zeros(type.size), type.slices[k].offset, Zeros(type.slices[k].length))
    BY <1>1, <1>8, ZerosHold
  <2> HIDE DEF contents, Holds
  <2> QED BY <1>3, <2>1, <2>2, <2>3
<1>12. KeepsStruct(type, b, contents)
  <2> HIDE DEF contents, Holds
  <2> QED BY <1>3, <1>5, <1>10, <1>11 DEF KeepsStruct
<1> QED BY <1>6, <1>10, <1>12 DEF b

(* Bytes written into a block leave alone what lies beside them.             *)
LEMMA OverwriteHolds ==
  ASSUME NEW data \in Seq(Octets), NEW slice \in [offset : Nat, length : Nat],
         NEW bytes \in Seq(Octets), Len(bytes) = slice.length,
         slice.offset + slice.length <= Len(data),
         NEW new, new = Overwrite(data, slice, bytes)
  PROVE  /\ new \in Seq(Octets) /\ Len(new) = Len(data)
         /\ Holds(new, slice.offset, bytes)
         /\ \A p \in Nat : \A x \in Seq(Octets) :
              /\ Holds(data, p, x)
              /\ p + Len(x) <= slice.offset \/ slice.offset + slice.length <= p
              => Holds(new, p, x)
<1> DEFINE n == Len(data)
           from == slice.offset
           m == Len(bytes)
<1>1. n \in Nat /\ m \in Nat /\ from \in Nat /\ from + m <= n /\ DOMAIN data = 1..n /\ DOMAIN bytes = 1..m
  OBVIOUS
<1>2. new = [k \in 1..n |-> IF k - from \in 1..m THEN bytes[k - from] ELSE data[k]]
  BY <1>1 DEF Overwrite
<1>3. \A k \in 1..n : new[k] = IF k - from \in 1..m THEN bytes[k - from] ELSE data[k]
  BY <1>2
<1>4. new \in [1..n -> Octets]
  <2>1. \A k \in 1..n : (IF k - from \in 1..m THEN bytes[k - from] ELSE data[k]) \in Octets
    OBVIOUS
  <2> HIDE DEF n, m, from
  <2> QED BY <1>2, <2>1
<1>5. new \in Seq(Octets) /\ Len(new) = n
  <2> HIDE DEF n
  <2> QED BY <1>1, <1>4, FunctionIsSeq, Zenon
<1> HIDE DEF n, m, from
<1>6. Holds(new, from, bytes)
  <2>1. ASSUME NEW j \in 1..m PROVE new[from + j] = bytes[j]
    <3>1. from + j \in 1..n /\ (from + j) - from = j
      BY <1>1
    <3> QED BY <1>3, <3>1
  <2> QED BY <1>1, <1>5, <2>1 DEF Holds, m
<1>7. ASSUME NEW p \in Nat, NEW x \in Seq(Octets), Holds(data, p, x),
             p + Len(x) <= from \/ from + m <= p
      PROVE  Holds(new, p, x)
  <2>1. p + Len(x) <= n /\ Len(x) \in Nat /\ \A j \in 1..Len(x) : data[p + j] = x[j]
    BY <1>7 DEF Holds, n
  <2>2. ASSUME NEW j \in 1..Len(x) PROVE new[p + j] = x[j]
    <3>1. p + j \in 1..n /\ ~((p + j) - from \in 1..m)
      BY <1>1, <1>7, <2>1
    <3> QED BY <1>3, <2>1, <3>1
  <2> QED BY <1>5, <2>1, <2>2 DEF Holds
<1> QED BY <1>5, <1>6, <1>7 DEF n, m, from

(* mol_builder_set_by_offset of a field.                                     *)
Overwritten(b, slice, bytes) ==
  [b EXCEPT !.data = Overwrite(@, slice, bytes)]

(* Setting a field of a struct keeps the others, since slices do not         *)
(* overlap.                                                                  *)
LEMMA StructKept ==
  ASSUME NEW type, IsType(type), type.kind = "struct", NEW b, Sound(b),
         NEW contents \in Seq(Seq(Octets)), KeepsStruct(type, b, contents),
         NEW i \in DOMAIN type.slices, NEW bytes \in Seq(Octets), Len(bytes) = type.slices[i].length,
         NEW new, new = Overwritten(b, type.slices[i], bytes),
         NEW asks, asks = [contents EXCEPT ![i] = bytes]
  PROVE  Sound(new) /\ asks \in Seq(Seq(Octets)) /\ KeepsStruct(type, new, asks)
<1> USE DEF Overwritten
<1> DEFINE n == Len(type.slices)
           slice == type.slices[i]
<1>1. type.size \in Nat /\ type.slices \in Seq([offset : Nat, length : Nat])
      /\ \A k \in DOMAIN type.slices :
           /\ type.slices[k].offset + type.slices[k].length <= type.size
           /\ \A j \in DOMAIN type.slices :
                k < j => type.slices[k].offset + type.slices[k].length <= type.slices[j].offset
  BY DEF IsType
<1>2. n \in Nat /\ DOMAIN type.slices = 1..n /\ i \in 1..n
  <2>1. type.slices \in Seq([offset : Nat, length : Nat])
    BY <1>1
  <2>2. Len(type.slices) \in Nat /\ DOMAIN type.slices = 1..Len(type.slices)
    BY <2>1
  <2> QED BY <2>2
<1>3. \A k \in 1..n : type.slices[k] \in [offset : Nat, length : Nat]
  BY <1>1, <1>2, ElementOfSeq
<1>4. /\ b \in [data : Seq(Octets), number : Seq(0..(Word - 1)), data_cap : 0..(Word - 1), number_cap : 0..(Word - 1)]
      /\ Len(b.data) <= b.data_cap /\ NumSize * Len(b.number) <= b.number_cap
  BY DEF Sound
<1>5. /\ Len(b.data) = type.size /\ Len(contents) = n
      /\ \A k \in 1..n : Len(contents[k]) = type.slices[k].length /\ Holds(b.data, type.slices[k].offset, contents[k])
  BY DEF KeepsStruct
<1>6. /\ new.data = Overwrite(b.data, slice, bytes) /\ new.number = b.number
      /\ new.data_cap = b.data_cap /\ new.number_cap = b.number_cap
      /\ new = [data |-> new.data, data_cap |-> new.data_cap, number |-> new.number, number_cap |-> new.number_cap]
  BY <1>4
<1> DEFINE written == new.data
<1>7. /\ written \in Seq(Octets) /\ Len(written) = Len(b.data)
      /\ Holds(written, slice.offset, bytes)
      /\ \A p \in Nat : \A x \in Seq(Octets) :
           /\ Holds(b.data, p, x)
           /\ p + Len(x) <= slice.offset \/ slice.offset + slice.length <= p
           => Holds(written, p, x)
  <2>1. b.data \in Seq(Octets) /\ slice \in [offset : Nat, length : Nat] /\ Len(bytes) = slice.length
        /\ slice.offset + slice.length <= Len(b.data)
    BY <1>1, <1>2, <1>3, <1>4, <1>5
  <2> HIDE DEF slice, Holds
  <2> QED BY <1>6, <2>1, OverwriteHolds
<1>8. Sound(new)
  BY <1>4, <1>6, <1>7 DEF Sound
<1>9. asks \in Seq(Seq(Octets)) /\ Len(asks) = n
      /\ \A k \in 1..n : asks[k] = IF k = i THEN bytes ELSE contents[k]
  <2>1. i \in 1..Len(contents)
    BY <1>2, <1>5
  <2> QED BY <1>5, <2>1, ExceptSeq
<1>10. ASSUME NEW k \in 1..n
       PROVE  Len(asks[k]) = type.slices[k].length /\ Holds(written, type.slices[k].offset, asks[k])
  <2>1. CASE k = i
    <3> HIDE DEF Holds, written
    <3> QED BY <1>7, <1>9, <2>1
  <2>2. CASE k # i
    <3>1. asks[k] = contents[k] /\ Len(contents[k]) = type.slices[k].length /\ contents[k] \in Seq(Octets)
          /\ Holds(b.data, type.slices[k].offset, contents[k])
      <4> HIDE DEF Holds
      <4>1. contents[k] \in Seq(Octets)
        BY <1>5, ElementOfSeq
      <4> QED BY <1>5, <1>9, <2>2, <4>1
    <3> DEFINE p == type.slices[k].offset
               x == contents[k]
    <3>2. p \in Nat
      BY <1>3
    <3>3. p + Len(x) <= slice.offset \/ slice.offset + slice.length <= p
      <4>1. CASE k < i
        BY <1>1, <1>2, <3>1, <4>1
      <4>2. CASE i < k
        BY <1>1, <1>2, <3>1, <4>2
      <4>3. k < i \/ i < k
        BY <1>2, <2>2
      <4> QED BY <4>1, <4>2, <4>3
    <3>4. Holds(written, p, x)
      <4> HIDE DEF Holds, written, p, x, slice
      <4>1. Holds(b.data, p, x) /\ x \in Seq(Octets)
        BY <3>1 DEF p, x
      <4> QED BY <1>7, <3>2, <3>3, <4>1
    <3> HIDE DEF Holds, written
    <3> QED BY <3>1, <3>4
  <2> QED BY <2>1, <2>2
<1>11. KeepsStruct(type, new, asks)
  <2> HIDE DEF Holds
  <2> QED BY <1>5, <1>7, <1>9, <1>10 DEF KeepsStruct
<1> QED BY <1>8, <1>9, <1>11

(* A builder without numbers is sound if its block is long enough.           *)
LEMMA UnnumberedIsSound ==
  ASSUME NEW data \in Seq(Octets), NEW data_cap \in 0..(Word - 1), Len(data) <= data_cap
  PROVE  Sound(Allocated(data, data_cap, << >>, 0)) /\ Allocated(data, data_cap, << >>, 0).data = data
<1> DEFINE number == << >>
<1>1. number \in Seq(0..(Word - 1)) /\ Len(number) = 0
  OBVIOUS
<1>2. 0 \in 0..(Word - 1) /\ NumSize * Len(number) <= 0
  BY WordIsPositive DEF NumSize
<1> HIDE DEF number
<1>3. Sound(Allocated(data, data_cap, number, 0)) /\ Allocated(data, data_cap, number, 0).data = data
  BY <1>1, <1>2 DEF Allocated, Sound
<1> QED BY <1>3 DEF number

(* The empty sequence is one of any set.                                     *)
LEMMA EmptyIsList == \A S : << >> \in Seq(S) /\ Len(<< >>) = 0
  OBVIOUS

(* MolBuilder_T_init: an option is nothing.                                  *)
LEMMA OptionInitialized ==
  ASSUME NEW type, type.kind = "option", NEW capacity
  PROVE  /\ Sound(Initialized(type, capacity))
         /\ NothingAsked(type) \in Seq(Seq(Octets))
         /\ KeepsOption(type, Initialized(type, capacity), NothingAsked(type))
<1>1. Initialized(type, capacity) = Allocated(<< >>, 0, << >>, 0) /\ NothingAsked(type) = << >>
  BY DEF Initialized, NothingAsked
<1>2. 0 \in 0..(Word - 1) /\ Len(<< >>) <= 0 /\ NumSize * Len(<< >>) <= 0
  BY WordIsPositive DEF NumSize
<1>3. << >> \in Seq(Octets) /\ << >> \in Seq(0..(Word - 1))
  BY EmptyIsList
<1>4. Sound(Initialized(type, capacity)) /\ Initialized(type, capacity).data = << >>
  <2>1. Sound(Allocated(<< >>, 0, << >>, 0)) /\ Allocated(<< >>, 0, << >>, 0).data = << >>
    BY <1>2, <1>3, UnnumberedIsSound, Zenon
  <2> QED BY <1>1, <2>1, Zenon
<1> QED BY <1>1, <1>4, EmptyIsList, Zenon DEF KeepsOption

(* mol_option_builder_set and mol_union_builder_set make room for the bytes. *)
LEMMA SetIsSound ==
  ASSUME Sound(builder), NEW bytes \in Seq(Octets), Counted(Len(bytes))
  PROVE  Sound(SetTo(bytes)) /\ SetTo(bytes).data = bytes
<1> DEFINE new == SetTo(bytes)
           grown == IF bytes = << >> THEN 0 ELSE IF builder.data_cap < Len(bytes) THEN Len(bytes) ELSE builder.data_cap
<1>1. /\ builder \in [data : Seq(Octets), number : Seq(0..(Word - 1)),
                     data_cap : 0..(Word - 1), number_cap : 0..(Word - 1)]
      /\ NumSize * Len(builder.number) <= builder.number_cap
  BY DEF Sound
<1>2. Len(bytes) \in Nat /\ Len(bytes) < Word
  BY CountedIsWord
<1>3. grown \in 0..(Word - 1) /\ Len(bytes) <= grown
  <2>1. builder.data_cap \in 0..(Word - 1)
    BY <1>1
  <2>2. bytes = << >> => Len(bytes) = 0
    OBVIOUS
  <2> QED BY <1>2, <2>1, <2>2, WordIsPositive
<1>4. /\ new.data = bytes /\ new.data_cap = grown /\ new.number = builder.number /\ new.number_cap = builder.number_cap
      /\ new = [data |-> new.data, number |-> new.number, data_cap |-> new.data_cap, number_cap |-> new.number_cap]
  <2>1. new = [builder EXCEPT !.data = bytes, !.data_cap = grown]
    BY DEF SetTo
  <2> HIDE DEF grown, new
  <2> QED BY <1>1, <2>1
<1> HIDE DEF grown, new
<1>5. new \in [data : Seq(Octets), number : Seq(0..(Word - 1)), data_cap : 0..(Word - 1), number_cap : 0..(Word - 1)]
  BY <1>1, <1>3, <1>4
<1>6. Sound(new)
  BY <1>1, <1>3, <1>4, <1>5 DEF Sound
<1> QED BY <1>4, <1>6 DEF new

(* The option that was set last is kept.                                     *)
LEMMA OptionKept ==
  ASSUME NEW type, NEW b, NEW bytes \in Seq(Octets), b.data = bytes,
         bytes = << >> \/ IsValue(type.item, bytes),
         NEW asks, asks = IF bytes = << >> THEN << >> ELSE <<bytes>>
  PROVE  asks \in Seq(Seq(Octets)) /\ KeepsOption(type, b, asks)
<1>1. CASE bytes = << >>
  BY <1>1, EmptyIsList DEF KeepsOption
<1>2. CASE bytes # << >>
  BY <1>2 DEF KeepsOption
<1> QED BY <1>1, <1>2

(* MolBuilder_T_init: a union is the default of its first item.              *)
LEMMA UnionInitialized ==
  ASSUME NEW type, IsType(type), type.kind = "union", NEW capacity
  PROVE  /\ Sound(Initialized(type, capacity))
         /\ NothingAsked(type) \in Seq(Seq(Octets))
         /\ KeepsUnion(type, Initialized(type, capacity), NothingAsked(type))
<1> DEFINE bytes == MolDefault(type.items[1])
           front == Pack(0)
           data == front \o bytes
           room == type.capacity
<1>1. /\ room \in Nat /\ Counted(room)
      /\ Len(type.items) \in 1..(Word - 1)
      /\ HasDefault(type.items[1]) /\ IsWhole(type.items[1], bytes)
      /\ NumSize + SizeOfDefault(type.items[1]) <= room
  BY DEF IsType
<1>2. IsValue(type.items[1], bytes) /\ SizeOfDefault(type.items[1]) = Len(bytes)
  BY <1>1, Zenon DEF HasDefault
<1>3. bytes \in Seq(Octets)
  BY <1>2, Zenon DEF IsValue
<1>4. front \in Seq(Octets) /\ Len(front) = 4
  BY PackIsBytes DEF NumSize
<1>5. Initialized(type, capacity) = Allocated(data, room, << >>, 0) /\ NothingAsked(type) = <<front, bytes>>
  BY DEF Initialized, NothingAsked
<1> HIDE DEF bytes, front, room
<1>6. data \in Seq(Octets) /\ Len(data) = Len(front) + Len(bytes)
  BY <1>3, <1>4, ConcatProperties
<1> HIDE DEF data
<1>7. Len(data) <= room /\ room \in 0..(Word - 1)
  <2> DEFINE size == Len(bytes)
  <2>1. size \in Nat /\ 4 + size <= room /\ Len(data) = 4 + size
    BY <1>1, <1>2, <1>3, <1>4, <1>6 DEF NumSize
  <2>2. room < Word
    BY <1>1, CountedIsWord
  <2> HIDE DEF size
  <2> QED BY <1>1, <2>1, <2>2, WordIsPositive
<1>9. Sound(Initialized(type, capacity)) /\ Initialized(type, capacity).data = data
  <2>2. Sound(Allocated(data, room, << >>, 0)) /\ Allocated(data, room, << >>, 0).data = data
    BY <1>6, <1>7, UnnumberedIsSound, Zenon
  <2> QED BY <1>5, <2>2, Zenon
<1>10. <<front, bytes>> \in Seq(Seq(Octets))
  BY <1>3, <1>4
<1>11. KeepsUnion(type, Initialized(type, capacity), NothingAsked(type))
  <2>1. 0 \in 0..(Len(type.items) - 1) /\ 0 + 1 = 1
    BY <1>1
  <2>2. IsValue(type.items[0 + 1], bytes) /\ IsWhole(type.items[0 + 1], bytes)
    BY <1>1, <1>2, <2>1
  <2>3. Initialized(type, capacity).data = Pack(0) \o bytes /\ NothingAsked(type) = <<Pack(0), bytes>>
    BY <1>5, <1>9 DEF data, front
  <2> QED BY <1>3, <2>1, <2>2, <2>3, Zenon DEF KeepsUnion
<1> QED BY <1>5, <1>9, <1>10, <1>11

(* The item that was set last is kept, with its number.                      *)
LEMMA UnionKept ==
  ASSUME NEW type, IsType(type), type.kind = "union",
         NEW id \in 0..(Len(type.items) - 1), NEW bytes \in Seq(Octets),
         IsValue(type.items[id + 1], bytes), IsWhole(type.items[id + 1], bytes),
         NEW b, b.data = Pack(id) \o bytes,
         NEW asks, asks = <<Pack(id), bytes>>
  PROVE  /\ b.data \in Seq(Octets) /\ Len(b.data) = NumSize + Len(bytes)
         /\ asks \in Seq(Seq(Octets)) /\ KeepsUnion(type, b, asks)
<1> DEFINE front == Pack(id)
<1>1. Len(type.items) \in 1..(Word - 1) /\ id \in Nat
  BY DEF IsType
<1>2. front \in Seq(Octets) /\ Len(front) = NumSize
  BY <1>1, PackIsBytes
<1>3. b.data = front \o bytes /\ asks = <<front, bytes>>
  OBVIOUS
<1> HIDE DEF front
<1>4. front \o bytes \in Seq(Octets) /\ Len(front \o bytes) = Len(front) + Len(bytes)
  BY <1>2, ConcatProperties
<1>5. asks \in Seq(Seq(Octets))
  BY <1>2, <1>3
<1>6. KeepsUnion(type, b, asks)
  BY Zenon DEF KeepsUnion
<1> QED BY <1>2, <1>3, <1>4, <1>5, <1>6, Zenon

(* mol_builder_t has room for bytes once its block has grown.                *)
LEMMA StoreIsSound ==
  ASSUME NEW b, Sound(b), b.data_cap > 0, NEW bytes \in Seq(Octets),
         Counted(Len(b.data) + Len(bytes)), NEW new, new = Store(b, bytes)
  PROVE  /\ Sound(new) /\ new.data_cap > 0
         /\ new.data = b.data \o bytes /\ new.number = b.number /\ new.number_cap = b.number_cap
<1> DEFINE total == Len(b.data) + Len(bytes)
           grown == Grown(b.data_cap, total)
           data == b.data \o bytes
<1>1. /\ b \in [data : Seq(Octets), number : Seq(0..(Word - 1)), data_cap : 0..(Word - 1), number_cap : 0..(Word - 1)]
      /\ NumSize * Len(b.number) <= b.number_cap
  BY DEF Sound
<1>2. b.data \in Seq(Octets) /\ b.data_cap \in Nat \ {0} /\ b.data_cap < Word
  BY <1>1, WordIsPositive
<1>3. data \in Seq(Octets) /\ Len(data) = total
  BY <1>2, ConcatProperties
<1>4. total \in Nat /\ Counted(total)
  BY <1>2
<1> HIDE DEF total, data
<1>5. grown \in Nat /\ grown >= total /\ grown >= b.data_cap /\ (grown = b.data_cap \/ grown < 2 * total)
  BY <1>2, <1>4, GrownIsEnough
<1>6. grown \in 1..(Word - 1)
  <2>1. 2 * total <= Word
    BY <1>4, CountedIsWord
  <2> QED BY <1>2, <1>4, <1>5, <2>1, WordIsPositive
<1>7. new = [b EXCEPT !.data = data, !.data_cap = grown]
  BY DEF Store, data, total
<1> HIDE DEF grown
<1>8. new.data = data /\ new.data_cap = grown /\ new.number = b.number /\ new.number_cap = b.number_cap
      /\ new = [data |-> data, number |-> b.number, data_cap |-> grown, number_cap |-> b.number_cap]
  BY <1>1, <1>7
<1>9. new \in [data : Seq(Octets), number : Seq(0..(Word - 1)), data_cap : 0..(Word - 1), number_cap : 0..(Word - 1)]
  BY <1>1, <1>3, <1>6, <1>8
<1>10. Len(new.data) <= new.data_cap
  BY <1>3, <1>5, <1>8
<1> QED BY <1>1, <1>6, <1>8, <1>9, <1>10 DEF Sound, data

(* MolBuilder_T_init: a vector has no items.                                 *)
LEMMA FixvecInitialized ==
  ASSUME NEW type, IsType(type), type.kind = "fixvec", NEW capacity \in Capacities
  PROVE  /\ Sound(Initialized(type, capacity))
         /\ NothingAsked(type) \in Seq(Seq(Octets))
         /\ KeepsFixvec(type, Initialized(type, capacity), NothingAsked(type))
<1> DEFINE b == Initialized(type, capacity)
           none == << >>
<1>1. capacity \in Nat \ {0} /\ capacity < Word
  <2>1. capacity \in Nat \ {0} /\ Counted(capacity)
    BY CapacitiesAssumption
  <2> QED BY <2>1, CountedIsWord
<1>2. type.item \in Nat
  BY DEF IsType
<1>3. b = Allocated(none, capacity, <<0>>, NumSize) /\ NothingAsked(type) = none
  BY DEF Initialized, NothingAsked
<1>4. none \in Seq(Octets) /\ none \in Seq(Seq(Octets)) /\ Len(none) = 0 /\ type.item * 0 = 0
  BY <1>2
<1>5. <<0>> \in Seq(0..(Word - 1)) /\ Len(<<0>>) = 1
  BY WordIsPositive
<1> HIDE DEF b, none
<1>6. b.data = none /\ b.data_cap = capacity /\ b.number = <<0>> /\ b.number_cap = 4
      /\ b = [data |-> none, data_cap |-> capacity, number |-> <<0>>, number_cap |-> 4]
  BY <1>3 DEF Allocated, NumSize
<1>7. Sound(b)
  <2>1. capacity \in 0..(Word - 1) /\ 4 \in 0..(Word - 1)
    BY <1>1, WordIsPositive
  <2> DEFINE number == <<0>>
  <2>2. number \in Seq(0..(Word - 1)) /\ Len(number) = 1
    BY <1>5
  <2>3. b.number = number /\ b = [data |-> none, data_cap |-> capacity, number |-> number, number_cap |-> 4]
    BY <1>6
  <2> HIDE DEF number
  <2>4. b \in [data : Seq(Octets), number : Seq(0..(Word - 1)), data_cap : 0..(Word - 1), number_cap : 0..(Word - 1)]
    BY <1>4, <1>6, <2>1, <2>2, <2>3
  <2>5. Len(b.data) <= b.data_cap
    BY <1>1, <1>4, <1>6
  <2>6. NumSize * Len(b.number) <= b.number_cap
    BY <1>6, <2>2, <2>3 DEF NumSize
  <2> QED BY <2>4, <2>5, <2>6 DEF Sound
<1>8. KeepsFixvec(type, b, none)
  <2>1. \A k \in 1..Len(none) : FALSE
    BY <1>4
  <2> QED BY <1>1, <1>4, <1>6, <2>1 DEF KeepsFixvec
<1> QED BY <1>3, <1>4, <1>7, <1>8 DEF b

(* mol_fixvec_builder_push of an item.                                       *)
ItemPushed(b, bytes) ==
  [Store(b, bytes) EXCEPT !.number[1] = (@ + 1) % Word]

(* Pushing an item keeps those before it.                                    *)
LEMMA FixvecKept ==
  ASSUME NEW type, IsType(type), type.kind = "fixvec", NEW b, Sound(b),
         NEW contents \in Seq(Seq(Octets)), KeepsFixvec(type, b, contents),
         NEW bytes \in Seq(Octets), Len(bytes) = type.item,
         Counted(Len(b.data) + Len(bytes)),
         NEW new, new = ItemPushed(b, bytes),
         NEW asks, asks = Append(contents, bytes)
  PROVE  Sound(new) /\ asks \in Seq(Seq(Octets)) /\ KeepsFixvec(type, new, asks)
<1> USE DEF ItemPushed
<1> DEFINE s == Store(b, bytes)
           n == Len(contents)
           item == type.item
<1>1. item \in Nat \ {0} /\ n \in Nat
  BY DEF IsType
<1>2. /\ b.data_cap > 0 /\ b.number = <<n>> /\ Len(b.data) = item * n
      /\ \A k \in 1..n : Len(contents[k]) = item /\ Holds(b.data, item * (k - 1), contents[k])
  BY DEF KeepsFixvec
<1>3. b.data \in Seq(Octets)
  BY DEF Sound
<1> HIDE DEF s
<1>4. /\ Sound(s) /\ s.data_cap > 0
      /\ s.data = b.data \o bytes /\ s.number = <<n>> /\ s.number_cap = b.number_cap
  BY <1>2, StoreIsSound DEF s
<1>5. Len(b.data) + Len(bytes) = item * (n + 1) /\ item * (n + 1) \in Nat /\ n + 1 <= item * (n + 1)
  <2>1. n + 1 \in Nat
    BY <1>1
  <2>2. item * (n + 1) \in Nat /\ n + 1 <= item * (n + 1)
    BY <1>1, <2>1, ProductAtLeast
  <2>3. item * (n + 1) = item * n + item
    <3>1. \A x, y \in Nat : x * (y + 1) = x * y + x
      OBVIOUS
    <3>2. item \in Nat
      BY <1>1
    <3> QED BY <1>1, <3>1, <3>2, Zenon
  <2> QED BY <1>2, <2>2, <2>3
<1>6. item * (n + 1) < Word /\ n + 1 \in 0..(Word - 1)
  <2>1. Counted(item * (n + 1))
    BY <1>5
  <2>2. item * (n + 1) < Word
    BY <1>5, <2>1, CountedIsWord
  <2> DEFINE size == item * (n + 1)
  <2> HIDE DEF size
  <2>3. size \in Nat /\ n + 1 <= size /\ size < Word
    BY <1>5, <2>2 DEF size
  <2> QED BY <1>1, <2>2, <2>3, WordIsPositive
<1>7. (n + 1) % Word = n + 1
  BY <1>6, WordIsPositive, ModBelow, Zenon
<1>8. /\ s \in [data : Seq(Octets), number : Seq(0..(Word - 1)), data_cap : 0..(Word - 1), number_cap : 0..(Word - 1)]
      /\ Len(s.data) <= s.data_cap /\ NumSize * Len(s.number) <= s.number_cap
  BY <1>4 DEF Sound
<1>9. [s.number EXCEPT ![1] = (@ + 1) % Word] = <<n + 1>>
  <2>1. [<<n>> EXCEPT ![1] = n + 1] = <<n + 1>> /\ <<n>>[1] = n
    BY <1>1
  <2> QED BY <1>4, <1>7, <2>1
<1>10. new = [s EXCEPT !.number = <<n + 1>>]
  <2>1. new = [s EXCEPT !.number = [s.number EXCEPT ![1] = (@ + 1) % Word]]
    BY <1>8 DEF s
  <2> QED BY <1>9, <2>1
<1>11. /\ new.data = s.data /\ new.data_cap = s.data_cap /\ new.number = <<n + 1>> /\ new.number_cap = s.number_cap
       /\ new = [data |-> s.data, number |-> <<n + 1>>, data_cap |-> s.data_cap, number_cap |-> s.number_cap]
  BY <1>8, <1>10
<1>12. Sound(new)
  <2> DEFINE number == <<n + 1>>
  <2>1. number \in Seq(0..(Word - 1)) /\ Len(number) = 1
    BY <1>6
  <2>2. Len(s.number) = 1
    BY <1>4
  <2>3. new.number = number /\ new = [data |-> s.data, number |-> number, data_cap |-> s.data_cap, number_cap |-> s.number_cap]
    BY <1>11
  <2> HIDE DEF number
  <2> QED BY <1>8, <1>11, <2>1, <2>2, <2>3 DEF Sound
<1>13. asks \in Seq(Seq(Octets)) /\ Len(asks) = n + 1 /\ asks[n + 1] = bytes /\ \A k \in 1..n : asks[k] = contents[k]
  BY AppendProperties
<1>14. Len(new.data) = item * (n + 1)
  <2>1. Len(b.data \o bytes) = Len(b.data) + Len(bytes)
    BY <1>3, ConcatProperties
  <2> QED BY <1>4, <1>5, <1>11, <2>1
<1>15. ASSUME NEW k \in 1..(n + 1)
       PROVE  Len(asks[k]) = item /\ Holds(new.data, item * (k - 1), asks[k])
  <2>1. CASE k \in 1..n
    <3>1. asks[k] = contents[k] /\ Len(contents[k]) = item /\ Holds(b.data, item * (k - 1), contents[k])
      BY <1>2, <1>13, <2>1
    <3>2. contents[k] \in Seq(Octets) /\ item * (k - 1) \in Nat
      <4>1. k - 1 \in Nat
        BY <2>1
      <4>2. contents[k] \in Seq(Octets)
        BY <2>1, ElementOfSeq
      <4> QED BY <1>1, <4>1, <4>2
    <3> HIDE DEF Holds, item, n
    <3>3. Holds(b.data \o bytes, item * (k - 1), contents[k])
      BY <1>3, <3>1, <3>2, HoldsBefore
    <3> QED BY <1>4, <1>11, <3>1, <3>3, Zenon
  <2>2. CASE k = n + 1
    <3>1. asks[k] = bytes /\ item * (k - 1) = Len(b.data) + 0
      <4>1. k - 1 = n
        BY <1>1, <2>2
      <4>2. item * (k - 1) = Len(b.data)
        BY <1>2, <4>1
      <4>3. Len(b.data) \in Nat
        BY <1>3
      <4> QED BY <1>13, <2>2, <4>2, <4>3
    <3>2. Holds(bytes, 0, bytes) /\ 0 \in Nat
      BY HoldsItself
    <3> HIDE DEF Holds, item, n
    <3>3. Holds(b.data \o bytes, Len(b.data) + 0, bytes)
      BY <1>3, <3>2, HoldsBehind
    <3>4. Len(asks[k]) = item
      BY <3>1 DEF item
    <3> QED BY <1>4, <1>11, <3>1, <3>3, <3>4, Zenon
  <2>3. k \in 1..n \/ k = n + 1
    BY <1>1
  <2> QED BY <2>1, <2>2, <2>3
<1>16. KeepsFixvec(type, new, asks)
  <2> HIDE DEF Holds
  <2>1. new.number = <<Len(asks)>> /\ Len(new.data) = type.item * Len(asks)
    BY <1>11, <1>13, <1>14
  <2>2. new.data_cap > 0
    BY <1>4, <1>11
  <2>3. \A k \in 1..Len(asks) : Len(asks[k]) = type.item /\ Holds(new.data, type.item * (k - 1), asks[k])
    BY <1>13, <1>15
  <2> QED BY <2>1, <2>2, <2>3, Zenon DEF KeepsFixvec
<1> QED BY <1>12, <1>13, <1>16

(* MolBuilder_T_init: nor has a vector of items of different lengths.        *)
LEMMA DynvecInitialized ==
  ASSUME NEW type, type.kind = "dynvec", NEW capacity \in Capacities
  PROVE  /\ Sound(Initialized(type, capacity))
         /\ NothingAsked(type) \in Seq(Seq(Octets))
         /\ KeepsDynvec(type, Initialized(type, capacity), NothingAsked(type))
<1> DEFINE b == Initialized(type, capacity)
           none == << >>
<1>1. capacity \in Nat \ {0} /\ capacity < Word
  <2>1. capacity \in Nat \ {0} /\ Counted(capacity)
    BY CapacitiesAssumption
  <2> QED BY <2>1, CountedIsWord
<1>2. b = Allocated(none, capacity, none, capacity) /\ NothingAsked(type) = none
  BY DEF Initialized, NothingAsked
<1>3. /\ none \in Seq(Octets) /\ none \in Seq(Seq(Octets)) /\ none \in Seq(Nat) /\ none \in Seq(0..(Word - 1))
      /\ Len(none) = 0 /\ none = << >>
  OBVIOUS
<1> HIDE DEF b, none
<1>4. b.data = none /\ b.data_cap = capacity /\ b.number = none /\ b.number_cap = capacity
      /\ b = [data |-> none, data_cap |-> capacity, number |-> none, number_cap |-> capacity]
  BY <1>2 DEF Allocated
<1>5. Sound(b)
  <2>1. capacity \in 0..(Word - 1)
    BY <1>1, WordIsPositive
  <2>2. b \in [data : Seq(Octets), number : Seq(0..(Word - 1)), data_cap : 0..(Word - 1), number_cap : 0..(Word - 1)]
    BY <1>3, <1>4, <2>1
  <2>3. Len(b.data) <= b.data_cap
    BY <1>1, <1>3, <1>4
  <2>4. NumSize * Len(b.number) <= b.number_cap
    BY <1>1, <1>3, <1>4 DEF NumSize
  <2> QED BY <2>2, <2>3, <2>4 DEF Sound
<1>6. \A k \in 1..Len(none) : FALSE
  BY <1>3
<1>7. Layout(none, none, none)
  BY <1>3, <1>6 DEF Layout
<1>8. KeepsDynvec(type, b, none)
  BY <1>1, <1>4, <1>6, <1>7 DEF KeepsDynvec
<1> QED BY <1>2, <1>3, <1>5, <1>8 DEF b

(* A part that is written behind the others begins where they end.           *)
LEMMA LayoutAppended ==
  ASSUME NEW starts, NEW parts, NEW body, Layout(starts, parts, body), NEW bytes \in Seq(Octets)
  PROVE  Layout(Append(starts, Len(body)), Append(parts, bytes), body \o bytes)
<1> DEFINE n == Len(parts)
           total == Len(body)
           size == Len(bytes)
           begins == Append(starts, total)
           asks == Append(parts, bytes)
           data == body \o bytes
<1>1. /\ starts \in Seq(Nat) /\ parts \in Seq(Seq(Octets)) /\ body \in Seq(Octets)
      /\ n \in Nat /\ Len(starts) = n /\ total \in Nat /\ size \in Nat
      /\ parts = << >> => body = << >>
      /\ parts # << >> => starts[1] = 0
  BY DEF Layout
<1>2. ASSUME NEW k \in 1..n
      PROVE  /\ starts[k] \in Nat /\ parts[k] \in Seq(Octets)
             /\ starts[k] + Len(parts[k]) = IF k = n THEN total ELSE starts[k + 1]
             /\ Holds(body, starts[k], parts[k])
  <2>1. starts[k] \in Nat /\ parts[k] \in Seq(Octets)
    BY <1>1
  <2>2. starts[k] + Len(parts[k]) = IF k = n THEN total ELSE starts[k + 1]
    BY DEF Layout
  <2>3. Holds(body, starts[k], parts[k])
    BY DEF Layout
  <2> QED BY <2>1, <2>2, <2>3
<1>3. data \in Seq(Octets) /\ Len(data) = total + size
  BY <1>1, ConcatProperties
<1> HIDE DEF total, size, data
<1>4. begins \in Seq(Nat) /\ Len(begins) = n + 1 /\ begins[n + 1] = total
      /\ \A k \in 1..n : begins[k] = starts[k]
  BY <1>1, AppendProperties
<1>5. asks \in Seq(Seq(Octets)) /\ Len(asks) = n + 1 /\ asks[n + 1] = bytes
      /\ \A k \in 1..n : asks[k] = parts[k]
  BY <1>1, AppendProperties
<1>6. asks # << >> /\ begins[1] = 0
  <2>1. asks # << >>
    <3> SUFFICES ASSUME asks = << >> PROVE FALSE
      OBVIOUS
    <3>1. Len(asks) = 0
      OBVIOUS
    <3> HIDE DEF n, asks
    <3>2. n + 1 = 0
      BY <1>5, <3>1
    <3> QED BY <1>1, <3>2
  <2>2. CASE n = 0
    <3>1. parts = << >>
      BY <1>1, <2>2
    <3>2. total = 0
      BY <1>1, <3>1 DEF total
    <3>3. n + 1 = 1
      BY <2>2
    <3> QED BY <1>4, <2>1, <3>2, <3>3
  <2>3. CASE n # 0
    <3>1. 1 \in 1..n /\ parts # << >>
      BY <1>1, <2>3
    <3> QED BY <1>1, <1>4, <2>1, <3>1
  <2> QED BY <2>2, <2>3
<1> HIDE DEF n, begins, asks
<1>7. ASSUME NEW k \in 1..(n + 1)
      PROVE  /\ begins[k] + Len(asks[k]) = IF k = n + 1 THEN Len(data) ELSE begins[k + 1]
             /\ Holds(data, begins[k], asks[k])
  <2>1. CASE k = n + 1
    <3>1. begins[k] = total /\ asks[k] = bytes
      BY <1>4, <1>5, <2>1
    <3>2. begins[k] + Len(asks[k]) = Len(data)
      BY <1>3, <3>1 DEF size
    <3>3. Holds(data, total + 0, bytes)
      <4>1. Holds(bytes, 0, bytes) /\ 0 \in Nat
        BY HoldsItself
      <4> HIDE DEF Holds
      <4>2. Holds(body \o bytes, Len(body) + 0, bytes)
        BY <1>1, <4>1, HoldsBehind
      <4> QED BY <4>2 DEF data, total
    <3>4. total + 0 = total
      BY <1>1
    <3> HIDE DEF Holds
    <3> QED BY <2>1, <3>1, <3>2, <3>3, <3>4
  <2>2. CASE k \in 1..n
    <3>0. k # n + 1
      BY <1>1, <2>2
    <3>1. begins[k] = starts[k] /\ asks[k] = parts[k] /\ k # n + 1
      BY <1>4, <1>5, <2>2, <3>0, Zenon
    <3>2. begins[k + 1] = IF k = n THEN total ELSE starts[k + 1]
      <4>1. CASE k = n
        BY <1>4, <4>1
      <4>2. CASE k # n
        <5>1. k + 1 \in 1..n
          BY <1>1, <2>2, <4>2
        <5> QED BY <1>4, <4>2, <5>1
      <4> QED BY <4>1, <4>2
    <3>3. begins[k] + Len(asks[k]) = begins[k + 1]
      BY <1>2, <2>2, <3>1, <3>2
    <3>4. Holds(data, begins[k], asks[k])
      <4>1. Holds(body, starts[k], parts[k]) /\ starts[k] \in Nat /\ parts[k] \in Seq(Octets)
        BY <1>2, <2>2
      <4> HIDE DEF Holds
      <4>2. Holds(body \o bytes, starts[k], parts[k])
        BY <1>1, <4>1, HoldsBefore
      <4> QED BY <3>1, <4>2 DEF data
    <3> HIDE DEF Holds
    <3> QED BY <3>1, <3>3, <3>4
  <2>3. k = n + 1 \/ k \in 1..n
    BY <1>1
  <2> QED BY <2>1, <2>2, <2>3
<1>8. Layout(begins, asks, data)
  <2> HIDE DEF Holds
  <2> QED BY <1>3, <1>4, <1>5, <1>6, <1>7 DEF Layout
<1> QED BY <1>8 DEF begins, asks, data, total

(* mol_dynvec_builder_push of an item.                                       *)
PartPushed(b, bytes) ==
  [Store(b, bytes) EXCEPT
     !.number = Append(@, Len(b.data)),
     !.number_cap = Grown(@, NumSize * Len(b.number) + NumSize)]

(* Pushing such an item keeps those before it, and where they begin.         *)
LEMMA DynvecKept ==
  ASSUME NEW type, type.kind = "dynvec", NEW b, Sound(b),
         NEW contents \in Seq(Seq(Octets)), KeepsDynvec(type, b, contents),
         NEW bytes \in Seq(Octets), IsValue(type.item, bytes),
         Counted(Len(b.data) + Len(bytes)),
         Counted(NumSize * Len(b.number) + NumSize),
         NEW new, new = PartPushed(b, bytes),
         NEW asks, asks = Append(contents, bytes)
  PROVE  Sound(new) /\ asks \in Seq(Seq(Octets)) /\ KeepsDynvec(type, new, asks)
<1> USE DEF PartPushed
<1> DEFINE s == Store(b, bytes)
           needed == NumSize * Len(b.number) + NumSize
           number == Append(b.number, Len(b.data))
           grown == Grown(b.number_cap, needed)
<1>1. /\ b.data_cap > 0 /\ b.number_cap > 0
      /\ Layout(b.number, contents, b.data)
      /\ \A k \in 1..Len(contents) : IsValue(type.item, contents[k])
  BY DEF KeepsDynvec
<1>2. /\ b \in [data : Seq(Octets), number : Seq(0..(Word - 1)), data_cap : 0..(Word - 1), number_cap : 0..(Word - 1)]
      /\ Len(b.data) <= b.data_cap
  BY DEF Sound
<1> HIDE DEF s
<1>3. /\ Sound(s) /\ s.data_cap > 0
      /\ s.data = b.data \o bytes /\ s.number = b.number /\ s.number_cap = b.number_cap
  BY <1>1, StoreIsSound DEF s
<1>4. /\ s \in [data : Seq(Octets), number : Seq(0..(Word - 1)), data_cap : 0..(Word - 1), number_cap : 0..(Word - 1)]
      /\ Len(s.data) <= s.data_cap
  BY <1>3 DEF Sound
<1>5. b.data \in Seq(Octets) /\ b.number \in Seq(0..(Word - 1)) /\ b.number_cap \in Nat \ {0} /\ b.number_cap < Word
      /\ Len(b.data) \in 0..(Word - 1) /\ Len(b.number) \in Nat
  BY <1>1, <1>2, WordIsPositive
<1>6. needed \in Nat /\ Counted(needed) /\ needed = 4 * (Len(b.number) + 1)
  BY <1>5 DEF NumSize
<1> HIDE DEF needed
<1>7. grown \in Nat /\ grown >= needed /\ grown >= b.number_cap
      /\ (grown = b.number_cap \/ grown < 2 * needed)
  BY <1>5, <1>6, GrownIsEnough
<1>8. grown \in 1..(Word - 1)
  <2>1. 2 * needed <= Word
    BY <1>6, CountedIsWord
  <2> QED BY <1>5, <1>6, <1>7, <2>1, WordIsPositive
<1>9. number \in Seq(0..(Word - 1)) /\ Len(number) = Len(b.number) + 1
  BY <1>5, AppendProperties
<1>10. new = [s EXCEPT !.number = number, !.number_cap = grown]
  <2>1. new = [s EXCEPT !.number = Append(@, Len(b.data)), !.number_cap = Grown(@, needed)]
    BY DEF s, needed
  <2> QED BY <1>3, <2>1
<1> HIDE DEF number, grown
<1>11. /\ new.data = s.data /\ new.data_cap = s.data_cap /\ new.number = number /\ new.number_cap = grown
       /\ new = [data |-> s.data, number |-> number, data_cap |-> s.data_cap, number_cap |-> grown]
  BY <1>4, <1>10
<1>12. Sound(new)
  <2>1. new \in [data : Seq(Octets), number : Seq(0..(Word - 1)), data_cap : 0..(Word - 1), number_cap : 0..(Word - 1)]
    BY <1>4, <1>8, <1>9, <1>11
  <2>2. NumSize * Len(new.number) <= new.number_cap
    BY <1>5, <1>6, <1>7, <1>9, <1>11 DEF NumSize
  <2> QED BY <1>4, <1>11, <2>1, <2>2 DEF Sound
<1>13. asks \in Seq(Seq(Octets)) /\ Len(asks) = Len(contents) + 1 /\ asks[Len(contents) + 1] = bytes
       /\ \A k \in 1..Len(contents) : asks[k] = contents[k]
  BY AppendProperties
<1>14. Layout(new.number, asks, new.data)
  <2>1. Layout(Append(b.number, Len(b.data)), Append(contents, bytes), b.data \o bytes)
    BY <1>1, LayoutAppended
  <2> QED BY <1>3, <1>11, <2>1 DEF number
<1>15. \A k \in 1..Len(asks) : IsValue(type.item, asks[k])
  <2> SUFFICES ASSUME NEW k \in 1..Len(asks) PROVE IsValue(type.item, asks[k])
    OBVIOUS
  <2>1. k \in 1..Len(contents) \/ k = Len(contents) + 1
    BY <1>13
  <2> QED BY <1>1, <1>13, <2>1
<1>16. new.data_cap > 0 /\ new.number_cap > 0
  BY <1>3, <1>8, <1>11
<1> QED BY <1>12, <1>13, <1>14, <1>15, <1>16 DEF KeepsDynvec

(* MolBuilder_T_init: every field of a table has its default.                *)
LEMMA TableInitialized ==
  ASSUME NEW type, IsType(type), type.kind = "table", NEW capacity \in Capacities
  PROVE  /\ Sound(Initialized(type, capacity))
         /\ NothingAsked(type) \in Seq(Seq(Octets))
         /\ KeepsTable(type, Initialized(type, capacity), NothingAsked(type))
<1> DEFINE b == Initialized(type, capacity)
           contents == NothingAsked(type)
           n == Len(type.fields)
           none == << >>
           number == Zeros(n * 2)
<1>1. capacity \in Nat \ {0} /\ capacity < Word
  <2>1. capacity \in Nat \ {0} /\ Counted(capacity)
    BY CapacitiesAssumption
  <2> QED BY <2>1, CountedIsWord
<1>2. /\ IsList(type.fields) /\ Counted(NumSize * (n * 2))
      /\ \A k \in 1..n : HasDefault(type.fields[k])
  BY DEF IsType
<1>3. n \in Nat
  BY <1>2 DEF IsList
<1>4. \A k \in 1..n : IsValue(type.fields[k], MolDefault(type.fields[k]))
  BY <1>2 DEF HasDefault
<1>5. b = Allocated(none, capacity, number, NumSize * (n * 2))
  BY DEF Initialized
<1>6. contents = [k \in 1..n |-> MolDefault(type.fields[k])]
  BY DEF NothingAsked
<1>7. contents \in Seq(Seq(Octets)) /\ Len(contents) = n
      /\ \A k \in 1..n : contents[k] = MolDefault(type.fields[k])
  <2>1. contents \in [1..n -> Seq(Octets)]
    BY <1>4, <1>6 DEF IsValue
  <2> HIDE DEF contents, n
  <2>2. contents \in Seq(Seq(Octets)) /\ Len(contents) = n
    BY <1>3, <2>1, FunctionIsSeq, Zenon
  <2> QED BY <1>6, <2>2
<1>8. none \in Seq(Octets) /\ Len(none) = 0
  OBVIOUS
<1>9. /\ number \in Seq(0..(Word - 1)) /\ Len(number) = n * 2
      /\ \A k \in 1..(n * 2) : number[k] = 0
  <2>1. n * 2 \in Nat
    BY <1>3
  <2>2. number \in [1..(n * 2) -> 0..(Word - 1)] /\ \A k \in 1..(n * 2) : number[k] = 0
    BY WordIsPositive DEF Zeros
  <2> HIDE DEF number, n
  <2> DEFINE size == n * 2
  <2>3. size \in Nat /\ number \in [1..size -> 0..(Word - 1)]
    BY <2>1, <2>2
  <2> HIDE DEF size
  <2>4. number \in Seq(0..(Word - 1)) /\ Len(number) = size
    BY <2>3, FunctionIsSeq, Zenon
  <2> QED BY <2>2, <2>4 DEF size
<1> HIDE DEF b, contents, n, none, number
<1>10. b.data = none /\ b.data_cap = capacity /\ b.number = number /\ b.number_cap = NumSize * (n * 2)
       /\ b = [data |-> none, data_cap |-> capacity, number |-> number, number_cap |-> NumSize * (n * 2)]
  BY <1>5 DEF Allocated
<1>11. NumSize * (n * 2) \in 0..(Word - 1)
  <2>1. NumSize * (n * 2) \in Nat
    BY <1>3 DEF NumSize
  <2>2. NumSize * (n * 2) < Word
    BY <1>2, <2>1, CountedIsWord
  <2> QED BY <2>1, <2>2, WordIsPositive
<1>12. Sound(b)
  <2>1. b \in [data : Seq(Octets), number : Seq(0..(Word - 1)), data_cap : 0..(Word - 1), number_cap : 0..(Word - 1)]
    <3>1. capacity \in 0..(Word - 1)
      BY <1>1, WordIsPositive
    <3> QED BY <1>8, <1>9, <1>10, <1>11, <3>1
  <2>2. Len(b.data) <= b.data_cap
    BY <1>1, <1>8, <1>10
  <2>3. NumSize * Len(b.number) <= b.number_cap
    BY <1>3, <1>9, <1>10 DEF NumSize
  <2> QED BY <2>1, <2>2, <2>3 DEF Sound
<1>13. KeepsTable(type, b, contents)
  <2>1. ASSUME NEW k \in 1..n
        PROVE  b.number[2 * k] = 0 /\ IsValue(type.fields[k], contents[k]) /\ contents[k] = MolDefault(type.fields[k])
    <3>1. 2 * k \in 1..(n * 2)
      BY <1>3
    <3> QED BY <1>4, <1>7, <1>9, <1>10, <3>1
  <2>2. Len(b.number) = Len(type.fields) * 2 /\ Len(contents) = Len(type.fields) /\ b.data_cap > 0
    BY <1>1, <1>7, <1>9, <1>10 DEF n
  <2> QED BY <1>7, <2>1, <2>2 DEF KeepsTable
<1> QED BY <1>7, <1>12, <1>13 DEF b, contents

(* mol_table_builder_add of a field.                                         *)
FieldAddedTo(b, i, bytes) ==
  IF bytes = << >>
  THEN [b EXCEPT !.number[2 * i - 1] = 0, !.number[2 * i] = 0]
  ELSE [Store(b, bytes) EXCEPT !.number[2 * i - 1] = Len(b.data),
                               !.number[2 * i] = Len(bytes)]

(* Adding a field, once more or for the first time, keeps the others: those  *)
(* that were added lie where they were, and the rest have their defaults.    *)
LEMMA TableKept ==
  ASSUME NEW type, IsType(type), type.kind = "table", NEW b, Sound(b),
         NEW contents \in Seq(Seq(Octets)), KeepsTable(type, b, contents),
         NEW i \in 1..Len(type.fields), NEW bytes \in Seq(Octets), IsValue(type.fields[i], bytes),
         bytes = << >> => MolDefault(type.fields[i]) = << >>,
         Counted(Len(b.data) + Len(bytes)),
         NEW new, new = FieldAddedTo(b, i, bytes),
         NEW asks, asks = [contents EXCEPT ![i] = bytes]
  PROVE  Sound(new) /\ asks \in Seq(Seq(Octets)) /\ KeepsTable(type, new, asks)
<1> DEFINE n == Len(type.fields)
           s == IF bytes = << >> THEN b ELSE Store(b, bytes)
           start == IF bytes = << >> THEN 0 ELSE Len(b.data)
           size == Len(bytes)
           number == [b.number EXCEPT ![2 * i - 1] = start, ![2 * i] = size]
<1>1. /\ b.data_cap > 0 /\ Len(b.number) = n * 2 /\ Len(contents) = n
      /\ \A k \in 1..n :
           /\ IsValue(type.fields[k], contents[k])
           /\ IF b.number[2 * k] = 0 THEN contents[k] = MolDefault(type.fields[k])
              ELSE Len(contents[k]) = b.number[2 * k] /\ Holds(b.data, b.number[2 * k - 1], contents[k])
  BY DEF KeepsTable
<1>2. /\ b \in [data : Seq(Octets), number : Seq(0..(Word - 1)), data_cap : 0..(Word - 1), number_cap : 0..(Word - 1)]
      /\ Len(b.data) <= b.data_cap /\ NumSize * Len(b.number) <= b.number_cap
  BY DEF Sound
<1>3. n \in Nat
  <2>1. IsList(type.fields)
    BY DEF IsType
  <2> QED BY <2>1 DEF IsList
<1>4. b.data \in Seq(Octets) /\ b.number \in Seq(0..(Word - 1)) /\ Len(b.data) \in 0..(Word - 1)
  BY <1>2, WordIsPositive
<1>5. size \in 0..(Word - 1) /\ (bytes = << >> <=> size = 0)
  <2>1. Len(b.data) + Len(bytes) \in Nat
    BY <1>4
  <2>2. Len(b.data) + Len(bytes) < Word
    BY <2>1, CountedIsWord
  <2> QED BY <1>4, <2>2, WordIsPositive
<1>6. /\ Sound(s) /\ s.data_cap > 0
      /\ s.data = IF bytes = << >> THEN b.data ELSE b.data \o bytes
      /\ s.number = b.number /\ s.number_cap = b.number_cap
  <2>1. CASE bytes = << >>
    BY <1>1, <2>1
  <2>2. CASE bytes # << >>
    <3> DEFINE stored == Store(b, bytes)
    <3> HIDE DEF stored
    <3>1. /\ Sound(stored) /\ stored.data_cap > 0
          /\ stored.data = b.data \o bytes /\ stored.number = b.number /\ stored.number_cap = b.number_cap
      BY <1>1, StoreIsSound DEF stored
    <3>2. s = stored
      BY <2>2 DEF stored
    <3> QED BY <2>2, <3>1, <3>2
  <2> QED BY <2>1, <2>2
<1>7. new = [s EXCEPT !.number[2 * i - 1] = start, !.number[2 * i] = size]
  <2>1. CASE bytes = << >>
    BY <1>5, <2>1 DEF FieldAddedTo
  <2>2. CASE bytes # << >>
    BY <2>2 DEF FieldAddedTo
  <2> QED BY <2>1, <2>2
<1>8. /\ s \in [data : Seq(Octets), number : Seq(0..(Word - 1)), data_cap : 0..(Word - 1), number_cap : 0..(Word - 1)]
      /\ Len(s.data) <= s.data_cap
  BY <1>6 DEF Sound
<1> HIDE DEF s, n
<1>9. start \in 0..(Word - 1)
  BY <1>4, WordIsPositive
<1> HIDE DEF start, size
<1>10. 2 * i - 1 \in 1..(n * 2) /\ 2 * i \in 1..(n * 2) /\ 2 * i - 1 # 2 * i
  BY <1>3 DEF n
<1>11. /\ number \in Seq(0..(Word - 1)) /\ Len(number) = n * 2
       /\ \A j \in 1..(n * 2) : number[j] = IF j = 2 * i THEN size ELSE IF j = 2 * i - 1 THEN start ELSE b.number[j]
  <2> DEFINE j1 == 2 * i - 1
             j2 == 2 * i
             half == [b.number EXCEPT ![j1] = start]
             whole == [half EXCEPT ![j2] = size]
  <2>1. /\ b.number \in Seq(0..(Word - 1)) /\ Len(b.number) = n * 2
        /\ j1 \in 1..Len(b.number) /\ j2 \in 1..Len(b.number)
    BY <1>1, <1>4, <1>10 DEF n
  <2>2. number = whole /\ j1 = 2 * i - 1 /\ j2 = 2 * i
    OBVIOUS
  <2> HIDE DEF j1, j2, number
  <2>3. /\ half \in Seq(0..(Word - 1)) /\ Len(half) = Len(b.number)
        /\ \A j \in 1..Len(b.number) : half[j] = IF j = j1 THEN start ELSE b.number[j]
    BY <1>9, <2>1, ExceptSeq
  <2> HIDE DEF half
  <2>4. j2 \in 1..Len(half)
    BY <2>1, <2>3
  <2>5. /\ whole \in Seq(0..(Word - 1)) /\ Len(whole) = Len(half)
        /\ \A j \in 1..Len(half) : whole[j] = IF j = j2 THEN size ELSE half[j]
    BY <1>5, <2>3, <2>4, ExceptSeq
  <2> HIDE DEF whole
  <2>6. \A j \in 1..(n * 2) : number[j] = IF j = j2 THEN size ELSE IF j = j1 THEN start ELSE b.number[j]
    BY <2>1, <2>2, <2>3, <2>5
  <2> QED BY <2>1, <2>2, <2>3, <2>5, <2>6
<1>12. new = [s EXCEPT !.number = number]
  BY <1>6, <1>7, <1>8
<1> HIDE DEF number
<1>13. /\ new.data = s.data /\ new.data_cap = s.data_cap /\ new.number = number /\ new.number_cap = s.number_cap
       /\ new = [data |-> s.data, number |-> number, data_cap |-> s.data_cap, number_cap |-> s.number_cap]
  BY <1>8, <1>12
<1>14. Sound(new)
  <2>1. new \in [data : Seq(Octets), number : Seq(0..(Word - 1)), data_cap : 0..(Word - 1), number_cap : 0..(Word - 1)]
    BY <1>8, <1>11, <1>13
  <2>2. NumSize * Len(new.number) <= new.number_cap
    BY <1>1, <1>2, <1>6, <1>11, <1>13
  <2> QED BY <1>8, <1>13, <2>1, <2>2 DEF Sound
<1>15. asks \in Seq(Seq(Octets)) /\ Len(asks) = n
       /\ \A k \in 1..n : asks[k] = IF k = i THEN bytes ELSE contents[k]
  <2>1. i \in 1..Len(contents)
    BY <1>1 DEF n
  <2> QED BY <1>1, <2>1, ExceptSeq
<1>16. ASSUME NEW p \in Nat, NEW x \in Seq(Octets), Holds(b.data, p, x) PROVE Holds(new.data, p, x)
  <2>1. CASE bytes = << >>
    BY <1>6, <1>13, <1>16, <2>1
  <2>2. CASE bytes # << >>
    <3> HIDE DEF Holds
    <3>1. Holds(b.data \o bytes, p, x)
      BY <1>4, <1>16, HoldsBefore
    <3> QED BY <1>6, <1>13, <2>2, <3>1
  <2> QED BY <2>1, <2>2
<1>17. ASSUME NEW k \in 1..n
       PROVE  /\ IsValue(type.fields[k], asks[k])
              /\ IF new.number[2 * k] = 0 THEN asks[k] = MolDefault(type.fields[k])
                 ELSE Len(asks[k]) = new.number[2 * k] /\ Holds(new.data, new.number[2 * k - 1], asks[k])
  <2>1. 2 * k \in 1..(n * 2) /\ 2 * k - 1 \in 1..(n * 2)
    BY <1>3
  <2>2. CASE k = i
    <3>1. asks[k] = bytes /\ new.number[2 * k] = size /\ new.number[2 * k - 1] = start
      BY <1>10, <1>11, <1>13, <1>15, <2>1, <2>2
    <3>2. CASE bytes = << >>
      BY <1>5, <2>2, <3>1, <3>2
    <3>3. CASE bytes # << >>
      <4>1. Holds(new.data, start, bytes)
        <5>1. Holds(bytes, 0, bytes) /\ 0 \in Nat
          BY HoldsItself
        <5>2. Len(b.data) + 0 = start
          BY <1>4, <3>3 DEF start
        <5> HIDE DEF Holds
        <5>3. Holds(b.data \o bytes, Len(b.data) + 0, bytes)
          BY <1>4, <5>1, HoldsBehind
        <5> QED BY <1>6, <1>13, <3>3, <5>2, <5>3
      <4>2. size # 0 /\ Len(bytes) = size
        BY <1>5, <3>3 DEF size
      <4> HIDE DEF Holds
      <4> QED BY <2>2, <3>1, <4>1, <4>2
    <3> QED BY <3>2, <3>3
  <2>3. CASE k # i
    <3>1. 2 * k # 2 * i /\ 2 * k # 2 * i - 1 /\ 2 * k - 1 # 2 * i /\ 2 * k - 1 # 2 * i - 1
      BY <1>3, <2>3 DEF n
    <3>2. asks[k] = contents[k] /\ new.number[2 * k] = b.number[2 * k] /\ new.number[2 * k - 1] = b.number[2 * k - 1]
      BY <1>11, <1>13, <1>15, <2>1, <2>3, <3>1
    <3>3. contents[k] \in Seq(Octets) /\ b.number[2 * k - 1] \in Nat
      <4>1. b.number[2 * k - 1] \in 0..(Word - 1)
        BY <1>1, <1>4, <2>1, ElementOfSeq
      <4>2. contents[k] \in Seq(Octets)
        BY <1>1, ElementOfSeq
      <4> QED BY <4>1, <4>2
    <3> HIDE DEF Holds
    <3>4. /\ IsValue(type.fields[k], contents[k])
          /\ IF b.number[2 * k] = 0 THEN contents[k] = MolDefault(type.fields[k])
             ELSE Len(contents[k]) = b.number[2 * k] /\ Holds(b.data, b.number[2 * k - 1], contents[k])
      BY <1>1
    <3>5. b.number[2 * k] # 0 => Holds(new.data, b.number[2 * k - 1], contents[k])
      BY <1>16, <3>3, <3>4
    <3> QED BY <3>2, <3>4, <3>5
  <2> QED BY <2>2, <2>3
<1>18. KeepsTable(type, new, asks)
  <2> HIDE DEF Holds
  <2>1. Len(new.number) = Len(type.fields) * 2 /\ Len(asks) = Len(type.fields) /\ new.data_cap > 0
    BY <1>6, <1>11, <1>13, <1>15 DEF n
  <2> QED BY <1>15, <1>17, <2>1 DEF KeepsTable
<1> QED BY <1>14, <1>15, <1>18

-----------------------------------------------------------------------------
(***************************************************************************)
(* What is built.                                                          *)
(***************************************************************************)

(* All of a sequence is the sequence.                                        *)
LEMMA WholeSubSeq ==
  ASSUME NEW S, NEW s \in Seq(S)
  PROVE  SubSeq(s, 1, Len(s)) = s
  OBVIOUS

(* A table writes the field that was added last, or the default.             *)
LEMMA FieldsAreWritten ==
  ASSUME T.kind = "table", IsType(T), Sound(builder),
         NEW contents \in Seq(Seq(Octets)), KeepsTable(T, builder, contents),
         NEW k \in 1..Len(T.fields)
  PROVE  FieldSize(k) = Len(contents[k]) /\ FieldBytes(k) = contents[k]
<1>1. /\ Len(builder.number) = Len(T.fields) * 2 /\ Len(contents) = Len(T.fields)
      /\ IsValue(T.fields[k], contents[k])
      /\ IF builder.number[2 * k] = 0 THEN contents[k] = MolDefault(T.fields[k])
         ELSE /\ Len(contents[k]) = builder.number[2 * k]
              /\ Holds(builder.data, builder.number[2 * k - 1], contents[k])
  BY DEF KeepsTable
<1>2. contents[k] \in Seq(Octets)
  BY <1>1, ElementOfSeq
<1>3. CASE builder.number[2 * k] = 0
  <2>1. ~FieldAdded(k)
    BY <1>3 DEF FieldAdded
  <2>2. SizeOfDefault(T.fields[k]) = Len(MolDefault(T.fields[k]))
    BY DEF IsType, HasDefault
  <2>3. contents[k] = MolDefault(T.fields[k])
    BY <1>1, <1>3
  <2>4. SubSeq(contents[k], 1, Len(contents[k])) = contents[k]
    BY <1>2, WholeSubSeq
  <2> QED BY <2>1, <2>2, <2>3, <2>4 DEF FieldSize, FieldBytes
<1>4. CASE builder.number[2 * k] # 0
  <2>1. FieldAdded(k)
    BY <1>4 DEF FieldAdded
  <2>2. builder.data \in Seq(Octets) /\ builder.number \in Seq(0..(Word - 1))
    BY DEF Sound
  <2>3. 2 * k - 1 \in 1..Len(builder.number)
    <3>1. Len(T.fields) \in Nat
      BY <1>1
    <3> DEFINE n == Len(T.fields)
               length == Len(builder.number)
    <3>2. n \in Nat /\ length = n * 2 /\ k \in 1..n
      BY <1>1, <3>1
    <3> HIDE DEF n, length
    <3>3. 2 * k - 1 \in 1..length
      BY <3>2
    <3> QED BY <3>3 DEF length
  <2>4. builder.number[2 * k - 1] \in Nat
    <3>1. builder.number[2 * k - 1] \in 0..(Word - 1)
      BY <2>2, <2>3, ElementOfSeq
    <3> QED BY <3>1, WordIsPositive
  <2>5. /\ Len(contents[k]) = builder.number[2 * k]
        /\ Holds(builder.data, builder.number[2 * k - 1], contents[k])
    BY <1>1, <1>4
  <2>6. BytesOf(builder.data, Segment(builder.number[2 * k - 1], Len(contents[k]))) = contents[k]
    BY <1>2, <2>2, <2>4, <2>5, HoldsSegment
  <2> QED BY <2>1, <2>5, <2>6 DEF FieldSize, FieldBytes
<1> QED BY <1>3, <1>4

(* A table is built from its fields in the order of the type.                *)
LEMMA TableBuilt ==
  ASSUME T.kind = "table", IsType(T), Sound(builder),
         NEW contents \in Seq(Seq(Octets)), KeepsTable(T, builder, contents),
         Len(BuildTable) < Word
  PROVE  HasParts(BuildTable, contents)
<1> DEFINE n == Len(T.fields)
           lengths == [k \in 1..n |-> FieldSize(k)]
           ends == Ends(lengths)
           starts == Starts(lengths)
           body == FlattenSeq([k \in 1..n |-> FieldBytes(k)])
<1>1. n \in Nat /\ Len(contents) = n
  BY DEF KeepsTable
<1>2. \A k \in 1..n : FieldSize(k) = Len(contents[k]) /\ FieldBytes(k) = contents[k] /\ Len(contents[k]) \in Nat
  <2>1. ASSUME NEW k \in 1..n
        PROVE  FieldSize(k) = Len(contents[k]) /\ FieldBytes(k) = contents[k] /\ Len(contents[k]) \in Nat
    <3>1. contents[k] \in Seq(Octets)
      BY <1>1, ElementOfSeq
    <3>2. Len(contents[k]) \in Nat
      BY <3>1
    <3> QED BY <3>2, FieldsAreWritten
  <2> QED BY <2>1
<1>3. BuildTable = Framed(starts, ends[n], body)
  BY DEF BuildTable
<1>4. [k \in 1..n |-> FieldBytes(k)] = contents
  <2>1. [k \in 1..n |-> FieldBytes(k)] = [k \in 1..Len(contents) |-> contents[k]]
    BY <1>1, <1>2
  <2> QED BY <2>1, SameList
<1>5. lengths \in [1..n -> Nat] /\ \A k \in 1..n : lengths[k] = Len(contents[k])
  BY <1>2
<1>6. starts = [k \in 1..n |-> ends[k - 1]]
  BY DEF Starts
<1>7. body = FlattenSeq(contents)
  BY <1>4
<1> HIDE DEF n, lengths, body, starts
<1>8. Len(lengths) = n
  BY <1>1, <1>5, FunctionIsSeq, Zenon
<1>9. ends \in [0..n -> Nat] /\ ends[0] = 0 /\ \A k \in 1..n : ends[k] = ends[k - 1] + lengths[k]
  <2> HIDE DEF ends
  <2>1. ends = Ends(lengths)
    BY DEF ends
  <2> QED BY <1>1, <1>5, <1>8, <2>1, EndsAreSums, Zenon
<1> HIDE DEF ends
<1>10. \A k \in 1..n : ends[k] = ends[k - 1] + Len(contents[k])
  BY <1>5, <1>9
<1>11. /\ body \in Seq(Octets) /\ Len(body) = ends[n]
       /\ \A k \in 1..n : Holds(body, ends[k - 1], contents[k])
  <2>1. ends \in [0..n -> Nat] /\ ends[0] = 0
    BY <1>9
  <2>2. n \in Nat /\ Len(contents) = n /\ \A k \in 1..n : ends[k] = ends[k - 1] + Len(contents[k])
    BY <1>1, <1>10
  <2> HIDE DEF Holds
  <2>3. /\ FlattenSeq(contents) \in Seq(Octets) /\ Len(FlattenSeq(contents)) = ends[n]
        /\ \A k \in 1..n : Holds(FlattenSeq(contents), ends[k - 1], contents[k])
    BY <2>1, <2>2, FlattenedHolds, Zenon
  <2> QED BY <1>7, <2>3
<1>12. starts \in Seq(Nat) /\ Len(starts) = n
  <2>1. starts \in [1..n -> Nat]
    BY <1>1, <1>6, <1>9
  <2> QED BY <1>1, <2>1, FunctionIsSeq, Zenon
<1>13. Layout(starts, contents, body)
  <2> HIDE DEF Holds
  <2>1. ASSUME NEW k \in 1..Len(contents)
        PROVE  /\ starts[k] + Len(contents[k]) = IF k = Len(contents) THEN Len(body) ELSE starts[k + 1]
               /\ Holds(body, starts[k], contents[k])
    <3>1. k \in 1..n /\ starts[k] = ends[k - 1]
      BY <1>1, <1>6
    <3>2. ends[k] = starts[k] + Len(contents[k]) /\ Holds(body, starts[k], contents[k])
      BY <1>10, <1>11, <3>1
    <3>3. k = n => ends[k] = Len(body)
      BY <1>11
    <3>4. k # n => starts[k + 1] = ends[k]
      <4>1. k # n => k + 1 \in 1..n /\ (k + 1) - 1 = k
        BY <1>1, <3>1
      <4> QED BY <1>6, <4>1
    <3> QED BY <1>1, <3>2, <3>3, <3>4
  <2>2. contents = << >> => body = << >>
    <3>1. contents = << >> => Len(body) = 0
      BY <1>1, <1>9, <1>11
    <3> QED BY <1>11, <3>1, EmptySeq
  <2>3. contents # << >> => starts[1] = 0
    <3>1. contents # << >> => n # 0
      BY <1>1, EmptySeq
    <3>2. contents # << >> => 1 \in 1..n
      BY <1>1, <3>1
    <3> QED BY <1>6, <1>9, <3>2
  <2> QED BY <1>1, <1>11, <1>12, <2>1, <2>2, <2>3 DEF Layout
<1> DEFINE buf == BuildTable
<1>14. buf = Framed(starts, Len(body), body) /\ Len(buf) < Word
  BY <1>3, <1>11
<1> HIDE DEF buf
<1>15. HasParts(buf, contents)
  BY <1>13, <1>14, FramedHasParts
<1> QED BY <1>15 DEF buf

-----------------------------------------------------------------------------
(***************************************************************************)
(* The inductive invariant: the builder's memory keeps what was asked for, *)
(* and what was built reads back.                                          *)
(***************************************************************************)
Keeps(type, b, contents) ==
  /\ type.kind = "struct" => KeepsStruct(type, b, contents)
  /\ type.kind = "option" => KeepsOption(type, b, contents)
  /\ type.kind = "union" => KeepsUnion(type, b, contents)
  /\ type.kind = "fixvec" => KeepsFixvec(type, b, contents)
  /\ type.kind = "dynvec" => KeepsDynvec(type, b, contents)
  /\ type.kind = "table" => KeepsTable(type, b, contents)

(* A value of a type with these contents, as far as the properties go.       *)
Good(type, buf, contents) ==
  /\ Reads(type, buf, contents)
  /\ type.kind # "option" => Whole(type, buf)
  /\ \A n \in DOMAIN Schema : Extends(type, Schema[n]) =>
       /\ Verifier(Schema[n], buf, TRUE)
       /\ ~Verifier(Schema[n], buf, FALSE)
       /\ Contents(Schema[n], buf) = SubSeq(contents, 1, Len(Schema[n].fields))
  /\ \A n \in DOMAIN Schema : Extends(Schema[n], type) => ~Verifier(Schema[n], buf, TRUE)

(* The builder keeps what was asked for.                                     *)
Filled ==
  /\ name \in DOMAIN Schema
  /\ calls \in 0..MaxCalls
  /\ Sound(builder)
  /\ asked \in Seq(Seq(Octets))
  /\ Keeps(T, builder, asked)

(* And what was built reads back.                                            *)
BuilderInv ==
  /\ Filled
  /\ built # << >> => \E buf \in Seq(Octets) : built = <<buf>> /\ Good(T, buf, asked)

(* The kinds of types.                                                       *)
LEMMA KindOfType ==
  ASSUME NEW type, IsType(type)
  PROVE  type.kind \in {"struct", "option", "union", "fixvec", "dynvec", "table"}
  BY DEF IsType

(* The assumptions on the constants, for the type that is built.             *)
LEMMA TypeOfSchema ==
  ASSUME name \in DOMAIN Schema
  PROVE  IsType(T) /\ ClientHas(T)
  BY SchemaAssumption, ValuesAssumption DEF T

(* A builder of any type begins with the defaults.                           *)
LEMMA EveryKindInitialized ==
  ASSUME NEW type, IsType(type), NEW capacity \in Capacities
  PROVE  /\ Sound(Initialized(type, capacity))
         /\ NothingAsked(type) \in Seq(Seq(Octets))
         /\ Keeps(type, Initialized(type, capacity), NothingAsked(type))
<1>1. CASE type.kind = "struct"
  BY <1>1, StructInitialized DEF Keeps
<1>2. CASE type.kind = "option"
  BY <1>2, OptionInitialized DEF Keeps
<1>3. CASE type.kind = "union"
  BY <1>3, UnionInitialized DEF Keeps
<1>4. CASE type.kind = "fixvec"
  BY <1>4, FixvecInitialized DEF Keeps
<1>5. CASE type.kind = "dynvec"
  BY <1>5, DynvecInitialized DEF Keeps
<1>6. CASE type.kind = "table"
  BY <1>6, TableInitialized DEF Keeps
<1> QED BY <1>1, <1>2, <1>3, <1>4, <1>5, <1>6, KindOfType

(* The invariant holds at first.                                             *)
LEMMA BuilderInitialized == Init => BuilderInv
<1> SUFFICES ASSUME Init PROVE BuilderInv
  OBVIOUS
<1>1. /\ name \in DOMAIN Schema /\ calls = 0 /\ asked = NothingAsked(T) /\ built = << >>
      /\ \E capacity \in Capacities : builder = Initialized(T, capacity)
  BY DEF Init
<1>2. PICK capacity \in Capacities : builder = Initialized(T, capacity)
  BY <1>1
<1>3. IsType(T)
  BY <1>1, TypeOfSchema
<1>4. Sound(builder) /\ asked \in Seq(Seq(Octets)) /\ Keeps(T, builder, asked)
  BY <1>1, <1>2, <1>3, EveryKindInitialized
<1>5. calls \in 0..MaxCalls
  BY <1>1, MaxCallsAssumption
<1> QED BY <1>1, <1>4, <1>5 DEF BuilderInv, Filled

(* A call leaves the type alone, and nothing has been built before or after. *)
LEMMA CallKeeps ==
  ASSUME BuilderInv, Call,
         Sound(builder'), asked' \in Seq(Seq(Octets)), Keeps(T, builder', asked')
  PROVE  BuilderInv'
<1>1. name' = name /\ built' = << >> /\ T' = T
  BY DEF Call, T
<1>2. name' \in DOMAIN Schema
  BY <1>1 DEF BuilderInv, Filled
<1>3. calls' \in 0..MaxCalls
  <2>1. calls \in 0..MaxCalls
    BY DEF BuilderInv, Filled
  <2>2. calls < MaxCalls /\ calls' = calls + 1
    BY DEF Call
  <2> QED BY <2>1, <2>2, MaxCallsAssumption
<1>4. Keeps(T', builder', asked')
  BY <1>1
<1> QED BY <1>1, <1>2, <1>3, <1>4 DEF BuilderInv, Filled

(* What the invariant says of the builder.                                   *)
LEMMA FilledFacts ==
  ASSUME BuilderInv
  PROVE  /\ name \in DOMAIN Schema /\ IsType(T) /\ ClientHas(T)
         /\ Sound(builder) /\ asked \in Seq(Seq(Octets)) /\ Keeps(T, builder, asked)
  BY TypeOfSchema DEF BuilderInv, Filled

(* Each of the calls keeps the invariant. A field of a struct is set.        *)
LEMMA SetByOffsetKeeps ==
  ASSUME BuilderInv, T.kind = "struct", NEW k \in DOMAIN T.slices,
         NEW bytes \in Values(Array(T.slices[k].length)), SetByOffset(k, bytes)
  PROVE  BuilderInv'
<1>1. /\ IsType(T) /\ ClientHas(T) /\ Sound(builder) /\ asked \in Seq(Seq(Octets))
      /\ KeepsStruct(T, builder, asked)
  BY FilledFacts DEF Keeps
<1>2. bytes \in Seq(Octets)
  BY <1>1 DEF ClientHas
<1>3. /\ Call /\ Len(bytes) = T.slices[k].length
      /\ builder' = Overwritten(builder, T.slices[k], bytes)
      /\ asked' = [asked EXCEPT ![k] = bytes]
  BY DEF SetByOffset, Overwritten
<1>4. Sound(builder') /\ asked' \in Seq(Seq(Octets)) /\ KeepsStruct(T, builder', asked')
  <2> DEFINE new == Overwritten(builder, T.slices[k], bytes)
             asks == [asked EXCEPT ![k] = bytes]
  <2>1. Sound(new) /\ asks \in Seq(Seq(Octets)) /\ KeepsStruct(T, new, asks)
    BY <1>1, <1>2, <1>3, StructKept, Zenon
  <2> HIDE DEF new, asks
  <2>2. builder' = new /\ asked' = asks
    BY <1>3 DEF new, asks
  <2> QED BY <2>1, <2>2
<1>5. Keeps(T, builder', asked')
  BY <1>4 DEF Keeps
<1> QED BY <1>3, <1>4, <1>5, CallKeeps

(* An option is set.                                                         *)
LEMMA OptionSetKeeps ==
  ASSUME BuilderInv, T.kind = "option", NEW bytes \in Values(T), OptionSet(bytes)
  PROVE  BuilderInv'
<1>1. ClientHas(T) /\ Sound(builder)
  BY FilledFacts
<1>2. bytes = << >> \/ IsValue(T.item, bytes)
  BY <1>1 DEF ClientHas
<1>3. bytes \in Seq(Octets)
  BY <1>2, EmptyIsList DEF IsValue
<1>4. /\ Call /\ Counted(Len(bytes)) /\ builder' = SetTo(bytes)
      /\ asked' = IF bytes = << >> THEN << >> ELSE <<bytes>>
  BY DEF OptionSet
<1>5. Sound(builder') /\ builder'.data = bytes
  BY <1>1, <1>3, <1>4, SetIsSound
<1>6. asked' \in Seq(Seq(Octets)) /\ KeepsOption(T, builder', asked')
  BY <1>2, <1>3, <1>4, <1>5, OptionKept
<1>7. Keeps(T, builder', asked')
  BY <1>6 DEF Keeps
<1> QED BY <1>4, <1>5, <1>6, <1>7, CallKeeps

(* A union is set.                                                           *)
LEMMA UnionSetKeeps ==
  ASSUME BuilderInv, T.kind = "union", NEW k \in DOMAIN T.items,
         NEW bytes \in Values(T.items[k]), UnionSet(k - 1, bytes)
  PROVE  BuilderInv'
<1>1. IsType(T) /\ ClientHas(T) /\ Sound(builder)
  BY FilledFacts
<1>2. k \in 1..Len(T.items) /\ Len(T.items) \in Nat
  BY <1>1 DEF IsType, IsList
<1>3. IsValue(T.items[k], bytes) /\ IsWhole(T.items[k], bytes) /\ bytes \in Seq(Octets)
  BY <1>1, <1>2 DEF ClientHas, IsValue
<1> DEFINE id == k - 1
           item == Pack(id) \o bytes
<1>4. id \in 0..(Len(T.items) - 1) /\ id + 1 = k
  BY <1>2
<1>5. /\ Call /\ Counted(NumSize + Len(bytes)) /\ builder' = SetTo(item)
      /\ asked' = <<Pack(id), bytes>>
  BY DEF UnionSet
<1> HIDE DEF id
<1>6. IsValue(T.items[id + 1], bytes) /\ IsWhole(T.items[id + 1], bytes)
  BY <1>3, <1>4
<1>7. item \in Seq(Octets) /\ Len(item) = NumSize + Len(bytes)
  <2>1. id \in Nat
    BY <1>4
  <2>2. Pack(id) \in Seq(Octets) /\ Len(Pack(id)) = NumSize
    BY <2>1, PackIsBytes
  <2> QED BY <1>3, <2>2, ConcatProperties
<1> HIDE DEF item
<1>8. Sound(builder') /\ builder'.data = item
  BY <1>1, <1>5, <1>7, SetIsSound
<1>9. builder'.data = Pack(id) \o bytes
  BY <1>8 DEF item
<1>10. asked' \in Seq(Seq(Octets)) /\ KeepsUnion(T, builder', asked')
  BY <1>1, <1>3, <1>4, <1>5, <1>6, <1>9, UnionKept
<1>11. Keeps(T, builder', asked')
  BY <1>10 DEF Keeps
<1> QED BY <1>5, <1>8, <1>10, <1>11, CallKeeps

(* An item is pushed.                                                        *)
LEMMA FixvecPushKeeps ==
  ASSUME BuilderInv, T.kind = "fixvec", NEW bytes \in Values(Array(T.item)), FixvecPush(bytes)
  PROVE  BuilderInv'
<1>1. /\ IsType(T) /\ ClientHas(T) /\ Sound(builder) /\ asked \in Seq(Seq(Octets))
      /\ KeepsFixvec(T, builder, asked)
  BY FilledFacts DEF Keeps
<1>2. bytes \in Seq(Octets)
  BY <1>1 DEF ClientHas
<1>3. /\ Call /\ Len(bytes) = T.item /\ Counted(Len(builder.data) + Len(bytes))
      /\ builder' = ItemPushed(builder, bytes)
      /\ asked' = Append(asked, bytes)
  BY DEF FixvecPush, ItemPushed
<1>4. Sound(builder') /\ asked' \in Seq(Seq(Octets)) /\ KeepsFixvec(T, builder', asked')
  BY <1>1, <1>2, <1>3, FixvecKept, Zenon
<1>5. Keeps(T, builder', asked')
  BY <1>4 DEF Keeps
<1> QED BY <1>3, <1>4, <1>5, CallKeeps

(* An item of a length of its own is pushed.                                 *)
LEMMA DynvecPushKeeps ==
  ASSUME BuilderInv, T.kind = "dynvec", NEW bytes \in Values(T.item), DynvecPush(bytes)
  PROVE  BuilderInv'
<1>1. /\ ClientHas(T) /\ Sound(builder) /\ asked \in Seq(Seq(Octets)) /\ KeepsDynvec(T, builder, asked)
  BY FilledFacts DEF Keeps
<1>2. IsValue(T.item, bytes) /\ bytes \in Seq(Octets)
  BY <1>1 DEF ClientHas, IsValue
<1>3. /\ Call /\ Counted(Len(builder.data) + Len(bytes))
      /\ Counted(NumSize * Len(builder.number) + NumSize)
      /\ builder' = PartPushed(builder, bytes)
      /\ asked' = Append(asked, bytes)
  BY DEF DynvecPush, PartPushed
<1>4. Sound(builder') /\ asked' \in Seq(Seq(Octets)) /\ KeepsDynvec(T, builder', asked')
  BY <1>1, <1>2, <1>3, DynvecKept, Zenon
<1>5. Keeps(T, builder', asked')
  BY <1>4 DEF Keeps
<1> QED BY <1>3, <1>4, <1>5, CallKeeps

(* A field is added.                                                         *)
LEMMA TableAddKeeps ==
  ASSUME BuilderInv, T.kind = "table", NEW k \in DOMAIN T.fields,
         NEW bytes \in Values(T.fields[k]), TableAdd(k, bytes)
  PROVE  BuilderInv'
<1>1. /\ IsType(T) /\ ClientHas(T) /\ Sound(builder) /\ asked \in Seq(Seq(Octets))
      /\ KeepsTable(T, builder, asked)
  BY FilledFacts DEF Keeps
<1>2. k \in 1..Len(T.fields)
  BY <1>1 DEF IsType, IsList
<1>3. /\ IsValue(T.fields[k], bytes) /\ bytes \in Seq(Octets)
      /\ bytes = << >> => MolDefault(T.fields[k]) = << >>
  BY <1>1, <1>2 DEF ClientHas, IsValue
<1>4. /\ Call /\ Counted(Len(builder.data) + Len(bytes))
      /\ builder' = FieldAddedTo(builder, k, bytes)
      /\ asked' = [asked EXCEPT ![k] = bytes]
  BY DEF TableAdd, FieldAddedTo
<1>5. Sound(builder') /\ asked' \in Seq(Seq(Octets)) /\ KeepsTable(T, builder', asked')
  BY <1>1, <1>2, <1>3, <1>4, TableKept, Zenon
<1>6. Keeps(T, builder', asked')
  BY <1>5 DEF Keeps
<1> QED BY <1>4, <1>5, <1>6, CallKeeps

(* Only tables have versions.                                                *)
LEMMA NoVersions ==
  ASSUME NEW type, type.kind # "table", NEW buf, NEW contents,
         Reads(type, buf, contents), type.kind # "option" => Whole(type, buf)
  PROVE  Good(type, buf, contents)
  BY DEF Good, Extends

(* A table is also read by the type it extends, and by none that extends it. *)
LEMMA TableIsGood ==
  ASSUME NEW type, IsType(type), type.kind = "table", NEW buf,
         NEW contents, HasParts(buf, contents), Len(contents) = Len(type.fields),
         \A k \in 1..Len(contents) : IsValue(type.fields[k], contents[k])
  PROVE  Good(type, buf, contents)
<1>1. Reads(type, buf, contents) /\ Whole(type, buf)
  BY TableIsRead
<1>2. ASSUME NEW n \in DOMAIN Schema, Extends(type, Schema[n])
      PROVE  /\ Verifier(Schema[n], buf, TRUE)
             /\ ~Verifier(Schema[n], buf, FALSE)
             /\ Contents(Schema[n], buf) = SubSeq(contents, 1, Len(Schema[n].fields))
  <2>1. IsType(Schema[n])
    BY SchemaAssumption
  <2> DEFINE older == Schema[n]
  <2>2. IsType(older) /\ Extends(type, older)
    BY <1>2, <2>1
  <2> HIDE DEF older
  <2>3. /\ Verifier(older, buf, TRUE)
        /\ ~Verifier(older, buf, FALSE)
        /\ Contents(older, buf) = SubSeq(contents, 1, Len(older.fields))
    <3>1. HasFields(type, buf, contents)
      BY Zenon DEF HasFields
    <3> QED BY <2>2, <3>1, OlderIsRead
  <2> QED BY <2>3 DEF older
<1>3. ASSUME NEW n \in DOMAIN Schema, Extends(Schema[n], type)
      PROVE  ~Verifier(Schema[n], buf, TRUE)
  <2>1. IsType(Schema[n])
    BY SchemaAssumption
  <2> QED BY <1>3, <2>1, NewerIsRejected
<1> QED BY <1>1, <1>2, <1>3 DEF Good

(* What the builder builds has what was asked for.                           *)
LEMMA BuiltIsGood ==
  ASSUME BuilderInv, Len(Built) < Word
  PROVE  Built \in Seq(Octets) /\ Good(T, Built, asked)
<1>1. /\ IsType(T) /\ Sound(builder) /\ asked \in Seq(Seq(Octets)) /\ Keeps(T, builder, asked)
  BY FilledFacts
<1>2. SUFFICES Good(T, Built, asked)
  BY DEF Good, Reads
<1>3. CASE T.kind = "struct"
  <2>1. Built = builder.data /\ KeepsStruct(T, builder, asked)
    BY <1>1, <1>3 DEF Built, Keeps
  <2>2. Reads(T, builder.data, asked) /\ Whole(T, builder.data)
    BY <1>1, <1>3, <2>1, StructIsRead
  <2> QED BY <1>3, <2>1, <2>2, NoVersions
<1>4. CASE T.kind = "option"
  <2>1. Built = builder.data /\ KeepsOption(T, builder, asked)
    BY <1>1, <1>4 DEF Built, Keeps
  <2>2. Reads(T, builder.data, asked)
    BY <1>1, <1>4, <2>1, OptionIsRead
  <2> QED BY <1>4, <2>1, <2>2, NoVersions
<1>5. CASE T.kind = "union"
  <2>1. Built = builder.data /\ KeepsUnion(T, builder, asked)
    BY <1>1, <1>5 DEF Built, Keeps
  <2>2. Reads(T, builder.data, asked) /\ Whole(T, builder.data)
    BY <1>1, <1>5, <2>1, UnionIsRead
  <2> QED BY <1>5, <2>1, <2>2, NoVersions
<1>6. CASE T.kind = "fixvec"
  <2> DEFINE buf == BuildFixvec
  <2>1. Built = buf /\ KeepsFixvec(T, builder, asked)
    BY <1>1, <1>6 DEF Built, Keeps
  <2>2. buf = Pack(builder.number[1]) \o builder.data
    BY DEF BuildFixvec
  <2> HIDE DEF buf
  <2>3. Len(buf) < Word
    BY <2>1
  <2>4. Reads(T, buf, asked) /\ Whole(T, buf)
    BY <1>1, <1>6, <2>1, <2>2, <2>3, FixvecIsRead
  <2> QED BY <1>6, <2>1, <2>4, NoVersions
<1>7. CASE T.kind = "dynvec"
  <2> DEFINE buf == BuildDynvec
  <2>1. Built = buf /\ KeepsDynvec(T, builder, asked)
    BY <1>1, <1>7 DEF Built, Keeps
  <2>2. buf = Framed(builder.number, Len(builder.data), builder.data)
    BY DEF BuildDynvec
  <2> HIDE DEF buf
  <2>3. Len(buf) < Word
    BY <2>1
  <2>4. /\ Layout(builder.number, asked, builder.data)
        /\ \A k \in 1..Len(asked) : IsValue(T.item, asked[k])
    BY <2>1 DEF KeepsDynvec
  <2>5. HasParts(buf, asked)
    BY <2>2, <2>3, <2>4, FramedHasParts
  <2>6. Reads(T, buf, asked) /\ Whole(T, buf)
    BY <1>7, <2>4, <2>5, DynvecIsRead
  <2> QED BY <1>7, <2>1, <2>6, NoVersions
<1>8. CASE T.kind = "table"
  <2> DEFINE buf == BuildTable
  <2>1. Built = buf /\ KeepsTable(T, builder, asked)
    BY <1>1, <1>8 DEF Built, Keeps
  <2>2. HasParts(buf, asked)
    BY <1>1, <1>8, <2>1, TableBuilt
  <2>3. /\ Len(asked) = Len(T.fields)
        /\ \A k \in 1..Len(asked) : IsValue(T.fields[k], asked[k])
    BY <2>1 DEF KeepsTable
  <2> HIDE DEF buf
  <2> QED BY <1>1, <1>8, <2>1, <2>2, <2>3, TableIsGood
<1> QED BY <1>1, <1>3, <1>4, <1>5, <1>6, <1>7, <1>8, KindOfType

(* Building the value keeps the invariant.                                   *)
LEMMA BuildKeeps ==
  ASSUME BuilderInv, Build
  PROVE  BuilderInv'
<1>1. /\ Len(Built) < Word /\ built' = <<Built>>
      /\ name' = name /\ builder' = builder /\ calls' = calls /\ asked' = asked
  BY DEF Build
<1>2. Built \in Seq(Octets) /\ Good(T, Built, asked)
  BY <1>1, BuiltIsGood
<1>3. T' = T
  BY <1>1 DEF T
<1>4. Filled'
  BY <1>1, <1>3 DEF BuilderInv, Filled
<1>5. Good(T', Built, asked')
  BY <1>1, <1>2, <1>3
<1> QED BY <1>1, <1>2, <1>4, <1>5 DEF BuilderInv

(* And so does every step.                                                   *)
LEMMA BuilderInvKept ==
  BuilderInv /\ [Next]_vars => BuilderInv'
<1> SUFFICES ASSUME BuilderInv, [Next]_vars PROVE BuilderInv'
  OBVIOUS
<1>1. CASE T.kind = "struct" /\ \E k \in DOMAIN T.slices :
             \E bytes \in Values(Array(T.slices[k].length)) : SetByOffset(k, bytes)
  BY <1>1, SetByOffsetKeeps
<1>2. CASE T.kind = "option" /\ \E bytes \in Values(T) : OptionSet(bytes)
  BY <1>2, OptionSetKeeps
<1>3. CASE T.kind = "union" /\ \E k \in DOMAIN T.items :
             \E bytes \in Values(T.items[k]) : UnionSet(k - 1, bytes)
  BY <1>3, UnionSetKeeps
<1>4. CASE T.kind = "fixvec" /\ \E bytes \in Values(Array(T.item)) : FixvecPush(bytes)
  BY <1>4, FixvecPushKeeps
<1>5. CASE T.kind = "dynvec" /\ \E bytes \in Values(T.item) : DynvecPush(bytes)
  BY <1>5, DynvecPushKeeps
<1>6. CASE T.kind = "table" /\ \E k \in DOMAIN T.fields :
             \E bytes \in Values(T.fields[k]) : TableAdd(k, bytes)
  BY <1>6, TableAddKeeps
<1>7. CASE Build
  BY <1>7, BuildKeeps
<1>8. CASE UNCHANGED vars
  <2>1. name' = name /\ builder' = builder /\ calls' = calls /\ asked' = asked /\ built' = built
    BY <1>8 DEF vars
  <2>2. T' = T
    BY <2>1 DEF T
  <2> QED BY <2>1, <2>2 DEF BuilderInv, Filled
<1> QED BY <1>1, <1>2, <1>3, <1>4, <1>5, <1>6, <1>7, <1>8 DEF Next

(* The invariant holds in every reachable state.                             *)
THEOREM BuilderKeepsWhatIsAsked == Spec => []BuilderInv
  BY BuilderInitialized, BuilderInvKept, PTL DEF Spec

(* No call writes behind the end of a block it allocated: mol_builder_t's    *)
(* data and numbers stay within their capacities, whatever the calls.        *)
THEOREM UsedIsAlwaysAllocated == Spec => []UsedIsAllocated
<1>1. BuilderInv => UsedIsAllocated
  <2> SUFFICES ASSUME BuilderInv PROVE UsedIsAllocated
    OBVIOUS
  <2>1. /\ builder.data \in Seq(Octets) /\ builder.number \in Seq(0..(Word - 1))
        /\ builder.data_cap \in 0..(Word - 1) /\ builder.number_cap \in 0..(Word - 1)
        /\ Len(builder.data) <= builder.data_cap
        /\ NumSize * Len(builder.number) <= builder.number_cap
    BY FilledFacts DEF Sound
  <2>2. built \in Seq(Seq(Octets)) /\ Len(built) <= 1
    <3>1. CASE built = << >>
      BY <3>1
    <3>2. CASE built # << >>
      <4>1. PICK buf \in Seq(Octets) : built = <<buf>>
        BY <3>2 DEF BuilderInv
      <4> QED BY <4>1
    <3> QED BY <3>1, <3>2
  <2> QED BY <2>1, <2>2 DEF UsedIsAllocated, TypeOK, BuilderInv, Filled
<1> QED BY <1>1, BuilderKeepsWhatIsAsked, PTL

(* What the invariant says of the value that was built.                      *)
LEMMA BuiltFacts ==
  ASSUME BuilderInv, built # << >>
  PROVE  built[1] \in Seq(Octets) /\ Good(T, built[1], asked)
  BY DEF BuilderInv

(* Whatever was set, pushed or added, in any order and as often as the       *)
(* client likes, MolBuilder_T_build writes a value that both verifiers       *)
(* accept and whose getters return what was asked for.                       *)
THEOREM AlwaysReadsBack == Spec => []ReadsBack
<1>1. BuilderInv => ReadsBack
  BY BuiltFacts DEF ReadsBack, Good, Reads
<1> QED BY <1>1, BuilderKeepsWhatIsAsked, PTL

(* A table is read by the type it extends, if unknown fields are accepted,   *)
(* and never by one that extends its own.                                    *)
THEOREM VersionsAlwaysInterwork == Spec => []VersionsInterwork
<1>1. BuilderInv => OlderTypeReads
  BY BuiltFacts DEF OlderTypeReads, Good
<1>2. BuilderInv => NewerTypeRejects
  BY BuiltFacts DEF NewerTypeRejects, Good
<1> QED BY <1>1, <1>2, BuilderKeepsWhatIsAsked, PTL DEF VersionsInterwork

(* No verifier accepts a built value that was cut or that something follows. *)
THEOREM CutOrLongerAlwaysRejected == Spec => []CutOrLongerIsRejected
<1>1. BuilderInv => CutOrLongerIsRejected
  <2> SUFFICES ASSUME BuilderInv, built # << >>, T.kind # "option"
      PROVE  /\ \A n \in Cuts(built[1]) : ~Verifier(T, SubSeq(built[1], 1, n), TRUE)
             /\ \A n \in 1..4 : ~Verifier(T, built[1] \o Zeros(n), TRUE)
    BY DEF CutOrLongerIsRejected
  <2>1. Whole(T, built[1])
    BY BuiltFacts DEF Good
  <2>2. Cuts(built[1]) \subseteq 0..(Len(built[1]) - 1)
    BY DEF Cuts
  <2> QED BY <2>1, <2>2 DEF Whole
<1> QED BY <1>1, BuilderKeepsWhatIsAsked, PTL

-----------------------------------------------------------------------------
(***************************************************************************)
(* Why doubling is harmless below Half: a capacity that is not enough yet  *)
(* is less than Half, so that twice of it is still a mol_num_t.            *)
(***************************************************************************)
RoomForItem ==
  "size" \notin faults =>
    /\ cap > 0
    /\ used <= cap
    /\ pc = "grow" => used + len <= Half

(* The inductive invariant of the memory.                                    *)
MemoryInv == MemoryTypeOK /\ RoomForItem /\ DataInPlace

(* A remainder is below the modulus.                                         *)
LEMMA ModInRange == ASSUME NEW W \in Nat \ {0}, NEW x \in Nat PROVE x % W \in 0..(W - 1)
  OBVIOUS

(* The numbers of a mol_num_t, and half of them.                             *)
LEMMA ModulusIsNat == Modulus \in Nat \ {0} /\ Half \in Nat /\ Modulus = Half + Half /\ Half < Modulus
  BY HalfAssumption DEF Modulus

(* What an item needs does not wrap around below Half.                       *)
LEMMA NeededIsNumber == ASSUME MemoryTypeOK, NEW n \in 0..(Modulus - 1)
                        PROVE  /\ Needed(n) \in 0..(Modulus - 1)
                               /\ used + n <= Half => Needed(n) = used + n
<1>1. used + n \in Nat /\ Modulus \in Nat \ {0}
  BY ModulusIsNat DEF MemoryTypeOK
<1>2. Needed(n) \in 0..(Modulus - 1)
  BY <1>1, ModInRange DEF Needed
<1>3. ASSUME used + n <= Half PROVE Needed(n) = used + n
  <2>1. used + n \in 0..(Modulus - 1)
    BY <1>1, <1>3, ModulusIsNat
  <2> QED BY <1>1, <2>1, ModBelow DEF Needed
<1> QED BY <1>2, <1>3

(* Nor does the capacity that is doubled for it.                             *)
LEMMA DoubledBelowHalf ==
  ASSUME MemoryTypeOK, RoomForItem, pc = "grow", ~Fits(len), "size" \notin faults
  PROVE  (2 * cap) % Modulus = 2 * cap
<1>1. cap \in Nat /\ len \in 0..(Modulus - 1) /\ Needed(len) \in 0..(Modulus - 1)
  BY NeededIsNumber, ModulusIsNat DEF MemoryTypeOK
<1>2. Needed(len) <= Half /\ cap < Needed(len)
  BY <1>1, NeededIsNumber, ModulusIsNat DEF RoomForItem, Fits
<1>3. 2 * cap \in 0..(Modulus - 1)
  BY <1>1, <1>2, ModulusIsNat
<1> QED BY <1>3, ModulusIsNat, ModBelow

(* The invariant holds at first.                                             *)
LEMMA MemoryInitEstablishesInv == MemoryInit => MemoryInv
<1> SUFFICES ASSUME MemoryInit PROVE MemoryInv
  OBVIOUS
<1>1. cap \in 1..(Modulus - 1) /\ 0 \in 0..(Modulus - 1)
  BY InitialCapacitiesAssumption, ModulusIsNat DEF MemoryInit
<1> QED BY <1>1 DEF MemoryInit, MemoryInv, MemoryTypeOK, RoomForItem, DataInPlace

(* It holds when an item is pushed,                                          *)
LEMMA PushKeepsInv == ASSUME MemoryInv, NEW n \in 0..(Modulus - 1), Push(n) PROVE MemoryInv'
<1>1. MemoryTypeOK'
  BY DEF MemoryInv, MemoryTypeOK, Push
<1>2. RoomForItem'
  BY ModulusIsNat DEF MemoryInv, MemoryTypeOK, RoomForItem, Push
<1>3. DataInPlace'
  BY DEF MemoryInv, DataInPlace, Push
<1> QED BY <1>1, <1>2, <1>3 DEF MemoryInv

(* when the capacity is doubled,                                             *)
LEMMA DoubleKeepsInv == MemoryInv /\ Double => MemoryInv'
<1> SUFFICES ASSUME MemoryInv, Double PROVE MemoryInv'
  OBVIOUS
<1>0. /\ MemoryTypeOK /\ pc = "grow" /\ cap' = (2 * cap) % Modulus
      /\ UNCHANGED <<pc, used, len>>
  BY DEF MemoryInv, Double
<1>1. cap' \in 0..(Modulus - 1)
  <2>1. 2 * cap \in Nat
    BY <1>0, ModulusIsNat DEF MemoryTypeOK
  <2> QED BY <1>0, <2>1, ModulusIsNat, ModInRange
<1>2. \/ cap' > 0 /\ block' = TRUE /\ kept' = (IF kept <= cap' THEN kept ELSE cap')
         /\ UNCHANGED faults
      \/ block' = FALSE /\ kept' = 0
         /\ faults' = IF cap' > 0 THEN faults \cup {"memory"} ELSE faults
  BY DEF Double, Realloc
<1>3. MemoryTypeOK'
  <2>1. kept' \in 0..(Modulus - 1)
    BY <1>0, <1>1, <1>2, ModulusIsNat DEF MemoryTypeOK
  <2> QED BY <1>0, <1>1, <1>2, <2>1 DEF MemoryTypeOK
<1>4. "size" \notin faults => cap' = 2 * cap
  BY <1>0, DoubledBelowHalf DEF MemoryInv, Double
<1>5. "size" \notin faults' => "size" \notin faults
  BY <1>2
<1>6. RoomForItem'
  BY <1>0, <1>4, <1>5, ModulusIsNat DEF MemoryInv, MemoryTypeOK, RoomForItem
<1>7. DataInPlace'
  <2> SUFFICES ASSUME faults' = {} PROVE block' /\ pc' # "crashed" /\ kept' = used' /\ used' <= cap'
    BY DEF DataInPlace
  <2>1. faults = {} /\ cap' = 2 * cap /\ cap > 0
    BY <1>2, <1>4 DEF MemoryInv, RoomForItem
  <2>2. block /\ kept = used /\ used <= cap
    BY <2>1 DEF MemoryInv, DataInPlace
  <2>3. cap' > 0 /\ used <= cap'
    BY <1>0, <2>1, <2>2, ModulusIsNat DEF MemoryTypeOK
  <2>4. block' = TRUE /\ kept' = (IF kept <= cap' THEN kept ELSE cap')
    BY <1>2, <2>3
  <2> QED BY <1>0, <2>2, <2>3, <2>4
<1> QED BY <1>3, <1>6, <1>7 DEF MemoryInv

(* when the item is written,                                                 *)
LEMMA StoreItemKeepsInv == MemoryInv /\ StoreItem => MemoryInv'
<1> SUFFICES ASSUME MemoryInv, StoreItem PROVE MemoryInv'
  OBVIOUS
<1>0. /\ MemoryTypeOK /\ pc = "grow" /\ cap >= Needed(len) /\ used' = Needed(len)
      /\ UNCHANGED <<cap, len, block, faults>>
  BY DEF MemoryInv, StoreItem, Fits
<1>1. /\ Needed(len) \in 0..(Modulus - 1) /\ len \in 0..(Modulus - 1)
      /\ used + len <= Half => Needed(len) = used + len
  BY <1>0, NeededIsNumber DEF MemoryTypeOK
<1>2. kept' \in 0..(Modulus - 1) /\ pc' \in {"idle", "crashed"}
  BY <1>0, ModulusIsNat DEF StoreItem, MemoryTypeOK
<1>3. MemoryTypeOK'
  BY <1>0, <1>1, <1>2 DEF MemoryTypeOK
<1>4. RoomForItem'
  BY <1>0, <1>1, <1>2, ModulusIsNat DEF MemoryInv, MemoryTypeOK, RoomForItem
<1>5. DataInPlace'
  <2> SUFFICES ASSUME faults = {}
               PROVE  block' /\ pc' # "crashed" /\ kept' = used' /\ used' <= cap'
    BY <1>0 DEF DataInPlace
  <2>1. block /\ kept = used /\ used + len <= Half
    BY <1>0 DEF MemoryInv, DataInPlace, RoomForItem
  <2>2. used + len <= cap /\ used' = used + len
    BY <1>0, <1>1, <2>1
  <2>3. kept' = used + len /\ pc' = "idle"
    BY <1>0, <2>1, <2>2, ModulusIsNat DEF StoreItem, MemoryTypeOK
  <2> QED BY <1>0, <2>1, <2>2, <2>3
<1> QED BY <1>3, <1>4, <1>5 DEF MemoryInv

(* and always.                                                               *)
LEMMA MemoryInvIsInvariant == MemorySpec => []MemoryInv
<1>1. MemoryInv /\ [MemoryNext]_memory => MemoryInv'
  <2> SUFFICES ASSUME MemoryInv, [MemoryNext]_memory PROVE MemoryInv'
    OBVIOUS
  <2>1. ASSUME NEW n \in 0..(Modulus - 1), Push(n) PROVE MemoryInv'
    BY <2>1, PushKeepsInv
  <2>2. CASE Double
    BY <2>2, DoubleKeepsInv
  <2>3. CASE StoreItem
    BY <2>3, StoreItemKeepsInv
  <2>4. CASE UNCHANGED memory
    BY <2>4 DEF memory, MemoryInv, MemoryTypeOK, RoomForItem, DataInPlace
  <2> QED BY <2>1, <2>2, <2>3, <2>4 DEF MemoryNext
<1> QED BY <1>1, MemoryInitEstablishesInv, PTL DEF MemorySpec

(* For any sequence of pushes: below half of what a mol_num_t counts, and    *)
(* while there is memory, a builder holds all it was given; when memory runs *)
(* out still nothing is written past the end of a block; and the loop that   *)
(* doubles a capacity never arrives at 0, where it would stay.               *)
THEOREM MemoryAlwaysSound == MemorySpec => []MemoryIsSound
<1>1. MemoryInv => MemoryIsSound
  BY DEF MemoryInv, RoomForItem, WritesInBlock, StuckOnlyBeyondHalf, MemoryIsSound
<1> QED BY <1>1, MemoryInvIsInvariant, PTL

(* A block only grows: no step of such a push shrinks it.                    *)
THEOREM CapacityAlwaysGrows == MemorySpec => CapacityNeverShrinks
<1>1. MemoryInv /\ [MemoryNext]_memory => [cap' >= cap \/ "size" \in faults]_memory
  <2> SUFFICES ASSUME MemoryInv, MemoryNext, "size" \notin faults PROVE cap' >= cap
    BY DEF memory
  <2>1. cap \in Nat
    BY ModulusIsNat DEF MemoryInv, MemoryTypeOK
  <2>2. CASE Double
    <3>1. (2 * cap) % Modulus = 2 * cap
      BY <2>2, DoubledBelowHalf DEF MemoryInv, Double
    <3> QED BY <2>1, <2>2, <3>1 DEF Double
  <2>3. CASE StoreItem \/ \E n \in 0..(Modulus - 1) : Push(n)
    BY <2>1, <2>3 DEF StoreItem, Push
  <2> QED BY <2>2, <2>3 DEF MemoryNext
<1> QED BY <1>1, MemoryInvIsInvariant, PTL DEF MemorySpec, CapacityNeverShrinks
=============================================================================
