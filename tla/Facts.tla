------------------------------- MODULE Facts --------------------------------
(***************************************************************************)
(* Facts about numbers, finite sets and sequences that the proofs share.   *)
(***************************************************************************)
EXTENDS SequencesExt, SequenceTheorems, FiniteSetTheorems, TLAPS

-----------------------------------------------------------------------------
(* Numbers                                                                 *)

(* A product of naturals grows with its first factor.                      *)
LEMMA ProductMonotone ==
    ASSUME NEW a \in Nat, NEW b \in Nat, NEW p \in Nat, a <= b
    PROVE  a * p <= b * p
  OBVIOUS

(* What is charged for every started MiB grows with the bytes.             *)
LEMMA StartedMiBMonotone ==
    ASSUME NEW a \in Nat, NEW b \in Nat, a <= b, NEW p \in Nat
    PROVE  LET price(x) == ((x + 1048576 - 1) \div 1048576) * p
           IN  price(a) \in Nat /\ price(b) \in Nat /\ price(a) <= price(b)
<1> DEFINE started(x) == (x + 1048576 - 1) \div 1048576
<1>1. started(a) \in Nat /\ started(b) \in Nat /\ started(a) <= started(b)
  OBVIOUS
<1> HIDE DEF started
<1>2. started(a) * p \in Nat /\ started(b) * p \in Nat
  BY <1>1
<1>3. started(a) * p <= started(b) * p
  BY <1>1, ProductMonotone
<1> QED
  BY <1>2, <1>3 DEF started

-----------------------------------------------------------------------------
(* Counting                                                                *)

(* A number n is the size of a set of n pairs with the same tag: sums are  *)
(* sizes of unions.                                                        *)
LEMMA TaggedCount ==
    ASSUME NEW t, NEW n \in Nat
    PROVE  /\ IsFiniteSet({t} \X (1..n))
           /\ Cardinality({t} \X (1..n)) = n
<1>1. IsFiniteSet({t}) /\ Cardinality({t}) = 1
  BY FS_Singleton
<1>2. IsFiniteSet(1..n) /\ Cardinality(1..n) = n
  BY FS_Interval
<1>3. /\ IsFiniteSet({t} \X (1..n))
      /\ Cardinality({t} \X (1..n)) = Cardinality({t}) * Cardinality(1..n)
  BY <1>1, <1>2, FS_Product, Zenon
<1> QED
  BY <1>1, <1>2, <1>3

(* Disjoint parts add up.                                                  *)
LEMMA DisjointUnion ==
    ASSUME NEW S, NEW T, IsFiniteSet(S), IsFiniteSet(T), S \cap T = {}
    PROVE  /\ IsFiniteSet(S \cup T)
           /\ Cardinality(S \cup T) = Cardinality(S) + Cardinality(T)
           /\ Cardinality(S) \in Nat /\ Cardinality(T) \in Nat
  BY FS_Union, FS_EmptySet, FS_CardinalityType

-----------------------------------------------------------------------------
(* Queues                                                                  *)

(* What a queue holds after a message joins its end or leaves its head.    *)
LEMMA AppendToSet ==
    ASSUME NEW S, NEW s \in Seq(S), NEW e
    PROVE  ToSet(Append(s, e)) = ToSet(s) \cup {e}
<1> DEFINE t == Append(s, e)
<1>1. /\ DOMAIN s = 1..Len(s) /\ Len(s) \in Nat
      /\ DOMAIN t = 1..(Len(s) + 1)
      /\ \A i \in 1..Len(s) : t[i] = s[i]
      /\ t[Len(s) + 1] = e
  OBVIOUS
<1> HIDE DEF t
<1> QED
  BY <1>1 DEF ToSet

LEMMA HeadTailToSet ==
    ASSUME NEW S, NEW s \in Seq(S), s # <<>>
    PROVE  /\ Head(s) \in S /\ Tail(s) \in Seq(S)
           /\ ToSet(Tail(s)) \subseteq ToSet(s) /\ Head(s) \in ToSet(s)
<1>1. Head(s) \in S /\ Tail(s) \in Seq(S) /\ Head(s) = s[1]
  BY HeadTailProperties
<1>2. /\ DOMAIN s = 1..Len(s) /\ Len(s) \in Nat /\ Len(s) # 0
      /\ DOMAIN Tail(s) = 1..(Len(s) - 1)
      /\ \A i \in 1..(Len(s) - 1) : Tail(s)[i] = s[i + 1]
  BY HeadTailProperties, EmptySeq
<1> QED
  BY <1>1, <1>2 DEF ToSet

LEMMA PrefixToSet ==
    ASSUME NEW T, NEW q \in Seq(T), NEW k \in 0..Len(q)
    PROVE  ToSet(SubSeq(q, 1, k)) \subseteq ToSet(q)
<1>1. /\ SubSeq(q, 1, k) \in Seq(T) /\ Len(SubSeq(q, 1, k)) = k
      /\ \A i \in 1..k : SubSeq(q, 1, k)[i] = q[i]
  BY SubSeqProperties
<1>2. DOMAIN SubSeq(q, 1, k) = 1..k /\ 1..k \subseteq DOMAIN q
  BY <1>1
<1> QED
  BY <1>1, <1>2 DEF ToSet

LEMMA EmptyToSet == ToSet(<<>>) = {}
  BY DEF ToSet

(* The positions of a set, moved by one, are as many.                      *)
LEMMA ShiftedCount ==
    ASSUME NEW S \in SUBSET Int, NEW T \in SUBSET Int, IsFiniteSet(S),
           \A i \in Int : i \in T <=> i + 1 \in S
    PROVE  /\ IsFiniteSet(T)
           /\ Cardinality(T) = Cardinality(S)
<1> DEFINE f == [i \in S |-> i - 1]
<1>1. f \in Bijection(S, T)
  <2>1. f \in [S -> T]
    <3>1. \A i \in S : i - 1 \in T
      <4> SUFFICES ASSUME NEW i \in S PROVE i - 1 \in T
        OBVIOUS
      <4>1. i - 1 \in Int /\ (i - 1) + 1 = i
        OBVIOUS
      <4> QED
        BY <4>1
    <3> QED
      BY <3>1
  <2>2. \A a, b \in S : f[a] = f[b] => a = b
    OBVIOUS
  <2>3. \A i \in T : \E a \in S : f[a] = i
    <3> SUFFICES ASSUME NEW i \in T PROVE \E a \in S : f[a] = i
      OBVIOUS
    <3>1. i + 1 \in S /\ f[i + 1] = i
      OBVIOUS
    <3> QED
      BY <3>1
  <2> QED
    BY <2>1, <2>2, <2>3 DEF Bijection, Injection, Surjection, IsInjective
<1>2. ExistsBijection(S, T)
  BY <1>1 DEF ExistsBijection
<1> QED
  BY <1>2, FS_Bijection

(* How many of the first j messages of a queue are of a kind.              *)
KindCount(s, k, j) == Cardinality({i \in 1..j : s[i].kind = k})

LEMMA KindCountType ==
    ASSUME NEW s, NEW k, NEW j \in Nat
    PROVE  KindCount(s, k, j) \in Nat /\ KindCount(s, k, 0) = 0
<1>1. IsFiniteSet(1..j) /\ {i \in 1..j : s[i].kind = k} \subseteq 1..j
  BY FS_Interval
<1>2. {i \in 1..0 : s[i].kind = k} = {}
  OBVIOUS
<1> QED
  BY <1>1, <1>2, FS_Subset, FS_EmptySet, FS_CardinalityType DEF KindCount

(* A message that joins the end of a queue is counted last, ...            *)
LEMMA KindCountBefore ==
    ASSUME NEW S, NEW s \in Seq(S), NEW e \in S, NEW k, NEW j \in 0..Len(s)
    PROVE  KindCount(Append(s, e), k, j) = KindCount(s, k, j)
<1>1. Len(s) \in Nat /\ \A i \in 1..Len(s) : Append(s, e)[i] = s[i]
  BY AppendProperties
<1>2. {i \in 1..j : Append(s, e)[i].kind = k} = {i \in 1..j : s[i].kind = k}
  BY <1>1
<1> QED
  BY <1>2 DEF KindCount

LEMMA KindCountAppend ==
    ASSUME NEW S, NEW s \in Seq(S), NEW e \in S, NEW k
    PROVE  KindCount(Append(s, e), k, Len(s) + 1) =
             KindCount(s, k, Len(s)) + (IF e.kind = k THEN 1 ELSE 0)
<1> DEFINE t == Append(s, e)
           n == Len(s)
           before == {i \in 1..n : s[i].kind = k}
           after  == {i \in 1..(n + 1) : t[i].kind = k}
<1>1. n \in Nat /\ (\A i \in 1..n : t[i] = s[i]) /\ t[n + 1] = e
  BY AppendProperties
<1>2. IsFiniteSet(before) /\ n + 1 \notin before
  <2>1. n + 1 \notin before /\ before \subseteq 1..n
    BY <1>1
  <2>2. IsFiniteSet(1..n)
    BY <1>1, FS_Interval
  <2> HIDE DEF before
  <2> QED
    BY <2>1, <2>2, FS_Subset
<1> HIDE DEF t, n
<1>4. after = IF e.kind = k THEN before \cup {n + 1} ELSE before
  BY <1>1
<1> HIDE DEF before, after
<1>5. Cardinality(after) = Cardinality(before) + (IF e.kind = k THEN 1 ELSE 0)
  <2>1. Cardinality(before \cup {n + 1}) = Cardinality(before) + 1
    BY <1>2, FS_AddElement
  <2>2. Cardinality(before) \in Nat
    BY <1>2, FS_CardinalityType
  <2> QED
    BY <1>4, <2>1, <2>2
<1> QED
  BY <1>5 DEF KindCount, before, after, t, n

(* ... and the one that leaves its head was counted first.                 *)
LEMMA KindCountTail ==
    ASSUME NEW S, NEW s \in Seq(S), s # <<>>, NEW k, NEW j \in 0..Len(Tail(s))
    PROVE  KindCount(s, k, j + 1) =
             KindCount(Tail(s), k, j) + (IF Head(s).kind = k THEN 1 ELSE 0)
<1> DEFINE t == Tail(s)
           whole == {i \in 1..(j + 1) : s[i].kind = k}
           later == {i \in 2..(j + 1) : s[i].kind = k}
           tail  == {i \in 1..j : t[i].kind = k}
<1>1. /\ j \in Nat /\ j <= Len(t) /\ Len(t) \in Nat
      /\ \A i \in 1..Len(t) : t[i] = s[i + 1]
      /\ Head(s) = s[1]
  BY HeadTailProperties
<1> HIDE DEF t
<1>2. IsFiniteSet(later)
  <2>1. later \subseteq 2..(j + 1)
    OBVIOUS
  <2>2. IsFiniteSet(2..(j + 1))
    BY <1>1, FS_Interval
  <2> HIDE DEF later
  <2> QED
    BY <2>1, <2>2, FS_Subset
<1>3. Cardinality(tail) = Cardinality(later)
  <2>1. ASSUME NEW i \in Int PROVE i \in tail <=> i + 1 \in later
    <3>1. i \in 1..j <=> i + 1 \in 2..(j + 1)
      BY <1>1
    <3>2. i \in 1..j => t[i] = s[i + 1]
      BY <1>1
    <3> QED
      BY <3>1, <3>2
  <2>2. tail \in SUBSET Int /\ later \in SUBSET Int
    OBVIOUS
  <2> HIDE DEF tail, later
  <2> QED
    BY <1>2, <2>1, <2>2, ShiftedCount
<1>4. whole = IF s[1].kind = k THEN later \cup {1} ELSE later
  BY <1>1
<1>5. 1 \notin later
  OBVIOUS
<1> HIDE DEF whole, later, tail
<1>6. Cardinality(whole) = Cardinality(tail) + (IF Head(s).kind = k THEN 1 ELSE 0)
  <2>1. Cardinality(later \cup {1}) = Cardinality(later) + 1
    BY <1>2, <1>5, FS_AddElement
  <2>2. Cardinality(later) \in Nat
    BY <1>2, FS_CardinalityType
  <2> QED
    BY <1>1, <1>3, <1>4, <2>1, <2>2
<1> QED
  BY <1>6 DEF KindCount, whole, tail, t

-----------------------------------------------------------------------------
(* Induction on sets of naturals.  A set of naturals that is not empty has *)
(* a least element m: 1..m is minimal among the finite sets 1..n.          *)
LEMMA LeastNatural ==
    ASSUME NEW U \in SUBSET Nat, U # {}
    PROVE  \E m \in U : \A n \in U : m <= n
<1> DEFINE R == StrictSubsetOrdering(Nat)
           S == FiniteSubsetsOf(Nat)
           T == {1..n : n \in U}
<1>1. IsWellFoundedOn(R, S)
  BY FS_StrictSubsetOrderingWellFounded
<1>2. T \subseteq S /\ T # {}
  <2>1. ASSUME NEW n \in U PROVE 1..n \in S
    <3>1. IsFiniteSet(1..n) /\ 1..n \in SUBSET Nat
      BY FS_Interval
    <3> QED
      BY <3>1 DEF FiniteSubsetsOf
  <2> QED
    BY <2>1
<1> HIDE DEF R, S, T
<1>3. \E x \in T : \A y \in T : ~(<<y, x>> \in R)
  BY <1>1, <1>2, WFMin
<1>4. PICK m \in U : \A n \in U : ~(<<1..n, 1..m>> \in R)
  BY <1>3 DEF T
<1>5. ASSUME NEW n \in U, n < m PROVE <<1..n, 1..m>> \in R
  <2>1. 1..n \subseteq 1..m /\ m \in 1..m /\ m \notin 1..n
    BY <1>5
  <2>2. 1..n \in SUBSET Nat /\ 1..m \in SUBSET Nat
    OBVIOUS
  <2> QED
    BY <2>1, <2>2 DEF R, StrictSubsetOrdering
<1>6. ASSUME NEW n \in U PROVE m <= n
  <2>1. ~(n < m)
    BY <1>4, <1>5
  <2> QED
    BY <2>1
<1> QED
  BY <1>6

LEMMA SetInduction ==
    ASSUME NEW T \in SUBSET Nat, 0 \in T, \A n \in T : n + 1 \in T
    PROVE  T = Nat
<1> SUFFICES ASSUME Nat \ T # {} PROVE FALSE
  OBVIOUS
<1>1. PICK m \in Nat \ T : \A n \in Nat \ T : m <= n
  BY LeastNatural
<1>2. m - 1 \in Nat /\ m - 1 \notin Nat \ T
  BY <1>1
<1> QED
  BY <1>1, <1>2

-----------------------------------------------------------------------------
(* Concatenation                                                           *)

(* The recursive function in FlattenSeq.                                   *)
Flattens(g, s) ==
    g = [i \in 1..Len(s) |-> IF i = 1 THEN s[i] ELSE g[i - 1] \o s[i]]

(* It exists: a function on the first n sequences extends to one more.     *)
LEMMA FlattenExists ==
    ASSUME NEW s, Len(s) \in Nat
    PROVE  \E g : Flattens(g, s)
<1> DEFINE Defines(f, n) ==
             f = [i \in 1..n |-> IF i = 1 THEN s[i] ELSE f[i - 1] \o s[i]]
           T == {n \in Nat : \E f : Defines(f, n)}
<1>1. 0 \in T
  <2> DEFINE f == [i \in 1..0 |-> s[i]]
  <2>1. Defines(f, 0)
    OBVIOUS
  <2> QED
    BY <2>1
<1>2. ASSUME NEW n \in T PROVE n + 1 \in T
  <2>0. n \in Nat
    OBVIOUS
  <2>1. PICK f : Defines(f, n)
    OBVIOUS
  <2> DEFINE h == [i \in 1..(n + 1) |->
                     IF i <= n THEN f[i]
                     ELSE IF i = 1 THEN s[i] ELSE f[i - 1] \o s[i]]
  <2>2. \A i \in 1..n : f[i] = IF i = 1 THEN s[i] ELSE f[i - 1] \o s[i]
    BY <2>1
  <2>3. \A i \in 1..n : h[i] = f[i]
    BY <2>0
  <2>4. \A i \in 2..(n + 1) : i - 1 \in 1..n
    BY <2>0
  <2>5. \A i \in 1..(n + 1) : h[i] = IF i = 1 THEN s[i] ELSE h[i - 1] \o s[i]
    <3> SUFFICES ASSUME NEW i \in 1..(n + 1)
                 PROVE  h[i] = IF i = 1 THEN s[i] ELSE h[i - 1] \o s[i]
      OBVIOUS
    <3>1. h[i] = IF i <= n THEN f[i]
                 ELSE IF i = 1 THEN s[i] ELSE f[i - 1] \o s[i]
      OBVIOUS
    <3>2. i # 1 => h[i - 1] = f[i - 1]
      BY <2>0, <2>3
    <3>3. i <= n => f[i] = IF i = 1 THEN s[i] ELSE f[i - 1] \o s[i]
      BY <2>0, <2>2
    <3> HIDE DEF h
    <3> QED
      BY <3>1, <3>2, <3>3
  <2>6. h = [i \in 1..(n + 1) |-> h[i]]
    OBVIOUS
  <2> HIDE DEF h
  <2>7. Defines(h, n + 1)
    BY <2>5, <2>6
  <2> HIDE DEF Defines
  <2> QED
    BY <2>0, <2>7
<1>3. T = Nat
  <2> HIDE DEF T
  <2>1. T \subseteq Nat
    BY DEF T
  <2> QED
    BY <1>1, <1>2, <2>1, SetInduction
<1> QED
  BY <1>3 DEF Flattens

LEMMA FlattenIsLast ==
    ASSUME NEW s, Len(s) \in Nat, Len(s) # 0
    PROVE  \E g : Flattens(g, s) /\ FlattenSeq(s) = g[Len(s)]
<1> DEFINE g == CHOOSE g : Flattens(g, s)
<1>1. Flattens(g, s)
  BY FlattenExists
<1>2. FlattenSeq(s) = g[Len(s)]
  BY DEF FlattenSeq, Flattens
<1> QED
  BY <1>1, <1>2

(* Sequences of one length, put together: element k of the i-th of them is *)
(* at (i - 1) * m + k.                                                     *)
LEMMA IndexBound ==
    ASSUME NEW m \in Nat, NEW n \in Nat, NEW i \in 1..n, NEW k \in 1..m
    PROVE  (i - 1) * m + k \in 1..(n * m)
<1>1. n * m \in Nat
  OBVIOUS
<1>2. (i - 1) * m >= 0 /\ (i - 1) * m + m <= n * m
  <2>1. i * m <= n * m
    BY ProductMonotone
  <2>2. (i - 1) * m = i * m - m
    OBVIOUS
  <2>3. (i - 1) * m >= 0
    OBVIOUS
  <2> QED
    BY <2>1, <2>2, <2>3, <1>1
<1>3. (i - 1) * m \in Int
  OBVIOUS
<1> DEFINE at == (i - 1) * m
           len == n * m
<1>4. at \in Int /\ at >= 0 /\ at + m <= len /\ len \in Nat
  BY <1>1, <1>2, <1>3
<1> HIDE DEF at, len
<1>5. at + k \in 1..len
  BY <1>4
<1> QED
  BY <1>5 DEF at, len

LEMMA ConcatBefore ==
    ASSUME NEW S, NEW u \in Seq(S), NEW v \in Seq(S), NEW at \in 1..Len(u)
    PROVE  (u \o v)[at] = u[at]
BY ConcatProperties

LEMMA ConcatAfter ==
    ASSUME NEW S, NEW u \in Seq(S), NEW v \in Seq(S), NEW k \in 1..Len(v)
    PROVE  (u \o v)[Len(u) + k] = v[k]
BY ConcatProperties

LEMMA AppendEqual ==
    ASSUME NEW S, NEW m \in Nat, NEW n \in Nat,
           NEW u \in Seq(S), NEW v \in Seq(S), Len(u) = n * m, Len(v) = m
    PROVE  /\ u \o v \in Seq(S) /\ Len(u \o v) = (n + 1) * m
           /\ \A k \in 1..m : (u \o v)[n * m + k] = v[k]
<1>1. u \o v \in Seq(S) /\ Len(u \o v) = Len(u) + Len(v)
  BY ConcatProperties
<1>2. n * m \in Nat /\ (n + 1) * m = n * m + m
  OBVIOUS
<1>3. ASSUME NEW k \in 1..m PROVE (u \o v)[n * m + k] = v[k]
  <2>1. (u \o v)[Len(u) + k] = v[k]
    BY ConcatAfter
  <2> QED
    BY <2>1
<1> QED
  BY <1>1, <1>2, <1>3

Pieces(s, m) == \A i \in 1..Len(s) : Len(s[i]) = m

MadeOf(u, s, m) ==
    /\ Len(u) = Len(s) * m
    /\ \A i \in 1..Len(s), k \in 1..m : u[(i - 1) * m + k] = s[i][k]

LEMMA FlattenEqual ==
    ASSUME NEW S, NEW m \in Nat, NEW s \in Seq(Seq(S)), Pieces(s, m)
    PROVE  FlattenSeq(s) \in Seq(S) /\ MadeOf(FlattenSeq(s), s, m)
<1> USE DEF Pieces, MadeOf
<1>0. Len(s) \in Nat
  OBVIOUS
<1>1. CASE Len(s) = 0
  <2>1. FlattenSeq(s) = s
    BY <1>1 DEF FlattenSeq
  <2>2. s = <<>>
    BY <1>1, EmptySeq
  <2>3. FlattenSeq(s) \in Seq(S) /\ Len(FlattenSeq(s)) = 0
    BY <2>1, <2>2
  <2>4. 0 * m = 0 /\ 1..Len(s) = {}
    BY <1>1
  <2> QED
    BY <2>3, <2>4, <1>1
<1>2. CASE Len(s) # 0
  <2>1. PICK g : Flattens(g, s) /\ FlattenSeq(s) = g[Len(s)]
    BY <1>2, FlattenIsLast
  <2> DEFINE Good(u, n) == /\ u \in Seq(S) /\ Len(u) = n * m
                           /\ \A i \in 1..n, k \in 1..m : u[(i - 1) * m + k] = s[i][k]
             T == {n \in Nat : n + 1 <= Len(s) => Good(g[n + 1], n + 1)}
  <2>2. g[1] = s[1] /\ \A n \in Nat \ {0} : n + 1 <= Len(s) => g[n + 1] = g[n] \o s[n + 1]
    <3>1. ASSUME NEW i \in 1..Len(s) PROVE g[i] = IF i = 1 THEN s[i] ELSE g[i - 1] \o s[i]
      BY <2>1 DEF Flattens
    <3>2. 1 \in 1..Len(s)
      BY <1>0, <1>2
    <3>3. ASSUME NEW n \in Nat \ {0}, n + 1 <= Len(s) PROVE g[n + 1] = g[n] \o s[n + 1]
      <4>1. n + 1 \in 1..Len(s) /\ n + 1 # 1 /\ (n + 1) - 1 = n
        BY <1>0, <3>3
      <4> QED
        BY <4>1, <3>1
    <3> QED
      BY <3>1, <3>2, <3>3
  <2>3. \A n \in 1..Len(s) : s[n] \in Seq(S) /\ Len(s[n]) = m
    OBVIOUS
  <2>4. Good(g[1], 1)
    BY <2>2, <2>3, <1>2
  <2>5. ASSUME NEW n \in Nat \ {0}, n + 1 <= Len(s), Good(g[n], n)
        PROVE  Good(g[n + 1], n + 1)
    <3>1. g[n] \in Seq(S) /\ Len(g[n]) = n * m /\ s[n + 1] \in Seq(S) /\ Len(s[n + 1]) = m
      BY <2>5, <2>3
    <3>2. /\ g[n + 1] \in Seq(S) /\ Len(g[n + 1]) = (n + 1) * m
          /\ \A i \in 1..n, k \in 1..m : g[n + 1][(i - 1) * m + k] = g[n][(i - 1) * m + k]
          /\ \A k \in 1..m : g[n + 1][n * m + k] = s[n + 1][k]
      <4>1. g[n + 1] = g[n] \o s[n + 1]
        BY <2>2, <2>5
      <4> QED
        <5> DEFINE u == g[n]
                   v == s[n + 1]
                   w == g[n + 1]
        <5>1. w = u \o v
          BY <4>1
        <5>2. u \in Seq(S) /\ v \in Seq(S) /\ Len(u) = n * m /\ Len(v) = m /\ n \in Nat
          BY <3>1
        <5> HIDE DEF u, v, w
        <5>3. /\ w \in Seq(S) /\ Len(w) = (n + 1) * m
              /\ \A i \in 1..n, k \in 1..m : w[(i - 1) * m + k] = u[(i - 1) * m + k]
              /\ \A k \in 1..m : w[n * m + k] = v[k]
          <6>1. u \o v \in Seq(S) /\ Len(u \o v) = (n + 1) * m
            BY <5>2, AppendEqual
          <6>2. ASSUME NEW i \in 1..n, NEW k \in 1..m
                PROVE  (u \o v)[(i - 1) * m + k] = u[(i - 1) * m + k]
            <7> DEFINE at == (i - 1) * m + k
            <7>1. at \in 1..(n * m)
              BY <5>2, IndexBound
            <7> HIDE DEF at
            <7>2. (u \o v)[at] = u[at]
              BY <5>2, <7>1, ConcatBefore
            <7> QED
              BY <7>2 DEF at
          <6>3. ASSUME NEW k \in 1..m PROVE (u \o v)[n * m + k] = v[k]
            BY <5>2, AppendEqual
          <6> QED
            BY <5>1, <6>1, <6>2, <6>3
        <5> QED
          BY <5>3 DEF u, v, w
    <3>3. ASSUME NEW i \in 1..(n + 1), NEW k \in 1..m
          PROVE  g[n + 1][(i - 1) * m + k] = s[i][k]
      <4>1. CASE i \in 1..n
        BY <4>1, <3>2, <2>5
      <4>2. CASE i = n + 1
        <5>1. i - 1 = n
          BY <4>2
        <5> QED
          BY <5>1, <4>2, <3>2
      <4> QED
        BY <4>1, <4>2
    <3> QED
      BY <3>2, <3>3
  <2>6. 0 \in T
    BY <2>4
  <2>7. ASSUME NEW n \in T PROVE n + 1 \in T
    <3>0. n \in Nat
      OBVIOUS
    <3>1. ASSUME (n + 1) + 1 <= Len(s) PROVE Good(g[(n + 1) + 1], (n + 1) + 1)
      <4>1. Good(g[n + 1], n + 1)
        <5>1. n + 1 <= Len(s)
          BY <3>0, <3>1, LenProperties
        <5> QED
          BY <5>1
      <4> HIDE DEF Good
      <4> QED
        BY <3>0, <3>1, <4>1, <2>5
    <3> HIDE DEF Good
    <3> QED
      BY <3>0, <3>1
  <2>8. T = Nat
    <3> HIDE DEF T
    <3>1. T \subseteq Nat
      BY DEF T
    <3> QED
      BY <2>6, <2>7, <3>1, SetInduction
  <2>9. Good(g[Len(s)], Len(s))
    <3>1. Len(s) - 1 \in T /\ (Len(s) - 1) + 1 = Len(s)
      <4> HIDE DEF T
      <4> QED
        BY <1>0, <1>2, <2>8
    <3> HIDE DEF Good
    <3> QED
      BY <1>0, <3>1
  <2> QED
    BY <2>1, <2>9
<1> QED
  BY <1>1, <1>2

-----------------------------------------------------------------------------
(* Division                                                                *)

LEMMA Quotient ==
    ASSUME NEW m \in Nat \ {0}, NEW n \in Nat
    PROVE  /\ n \div m \in Nat /\ n % m \in 0..(m - 1)
           /\ n = (n \div m) * m + (n % m)
  OBVIOUS

LEMMA QuotientUnique ==
    ASSUME NEW m \in Nat \ {0}, NEW q \in Nat, NEW r \in 0..(m - 1)
    PROVE  (q * m + r) \div m = q /\ (q * m + r) % m = r
  OBVIOUS

(* The inverse of IndexBound.                                              *)
LEMMA IndexSplit ==
    ASSUME NEW m \in Nat \ {0}, NEW n \in Nat, NEW at \in 1..(n * m)
    PROVE  \E i \in 1..n, k \in 1..m : at = (i - 1) * m + k
<1> DEFINE q == (at - 1) \div m
           r == (at - 1) % m
           len == n * m
<1>1. len \in Nat
  OBVIOUS
<1>2. at \in Nat /\ at - 1 \in Nat /\ at - 1 < len
  BY <1>1
<1>3. q \in Nat /\ r \in 0..(m - 1) /\ at - 1 = q * m + r
  BY <1>2, Quotient
<1> HIDE DEF q, r
<1>4. q < n
  <2> SUFFICES ASSUME n <= q PROVE FALSE
    BY <1>3
  <2>1. n * m <= q * m
    BY <1>3, ProductMonotone
  <2>2. q * m \in Int
    BY <1>3
  <2> QED
    BY <1>2, <1>3, <2>1, <2>2
<1>5. q + 1 \in 1..n /\ r + 1 \in 1..m /\ (q + 1) - 1 = q
  BY <1>3, <1>4
<1>6. at = q * m + (r + 1)
  <2>1. q * m \in Int
    BY <1>3
  <2> QED
    BY <1>2, <1>3, <2>1
<1> QED
  BY <1>5, <1>6

-----------------------------------------------------------------------------
(* Queues of numbered messages: those of the kind S are in order and have  *)
(* numbers above lo and up to hi (InOrder), all of them (Carries).         *)
InOrder(q, S, lo, hi) ==
    /\ \A i \in 1..Len(q) : q[i] \in S => q[i].seq \in (lo + 1)..hi
    /\ \A i, j \in 1..Len(q) :
         i < j /\ q[i] \in S /\ q[j] \in S => q[i].seq < q[j].seq

Carries(q, S, lo, hi) ==
    /\ InOrder(q, S, lo, hi)
    /\ \A n \in (lo + 1)..hi : \E i \in 1..Len(q) : q[i] \in S /\ q[i].seq = n

LEMMA NothingCarried ==
    ASSUME NEW S, NEW lo \in Nat
    PROVE  Carries(<<>>, S, lo, lo)
BY DEF Carries, InOrder

LEMMA NothingLeft ==
    ASSUME NEW S, NEW lo \in Nat, NEW hi \in Nat, lo <= hi, Carries(<<>>, S, lo, hi)
    PROVE  lo = hi
<1>1. \A n \in (lo + 1)..hi : FALSE
  BY DEF Carries
<1> QED
  BY <1>1

LEMMA InOrderEmpty ==
    ASSUME NEW S, NEW lo \in Nat, NEW hi \in Nat
    PROVE  InOrder(<<>>, S, lo, hi)
BY DEF InOrder

LEMMA InOrderWider ==
    ASSUME NEW q, NEW S, NEW lo \in Nat, NEW hi \in Nat, NEW to \in Nat, hi <= to,
           InOrder(q, S, lo, hi)
    PROVE  InOrder(q, S, lo, to)
BY DEF InOrder

LEMMA InOrderAppend ==
    ASSUME NEW T, NEW q \in Seq(T), NEW S, NEW lo \in Nat, NEW hi \in Nat,
           NEW m \in T, m.seq \in Nat, hi < m.seq, lo <= hi, InOrder(q, S, lo, hi)
    PROVE  InOrder(Append(q, m), S, lo, m.seq)
<1>1. /\ Len(q) \in Nat /\ Len(Append(q, m)) = Len(q) + 1
      /\ Append(q, m)[Len(q) + 1] = m
      /\ \A i \in 1..Len(q) : Append(q, m)[i] = q[i]
  BY AppendProperties
<1> QED
  BY <1>1 DEF InOrder

LEMMA InOrderAppendOther ==
    ASSUME NEW T, NEW q \in Seq(T), NEW S, NEW lo, NEW hi,
           NEW m \in T, m \notin S, InOrder(q, S, lo, hi)
    PROVE  InOrder(Append(q, m), S, lo, hi)
<1>1. /\ Len(q) \in Nat /\ Len(Append(q, m)) = Len(q) + 1
      /\ Append(q, m)[Len(q) + 1] = m
      /\ \A i \in 1..Len(q) : Append(q, m)[i] = q[i]
  BY AppendProperties
<1> QED
  BY <1>1 DEF InOrder

LEMMA TailAt ==
    ASSUME NEW T, NEW q \in Seq(T), q # <<>>
    PROVE  /\ Len(q) \in Nat \ {0} /\ Head(q) = q[1]
           /\ Len(Tail(q)) = Len(q) - 1
           /\ \A i \in 1..(Len(q) - 1) : Tail(q)[i] = q[i + 1]
BY HeadTailProperties, EmptySeq

LEMMA InOrderTail ==
    ASSUME NEW T, NEW q \in Seq(T), q # <<>>, NEW S, NEW lo \in Nat, NEW hi \in Nat,
           Head(q) \in S, InOrder(q, S, lo, hi)
    PROVE  Head(q).seq \in (lo + 1)..hi /\ InOrder(Tail(q), S, Head(q).seq, hi)
BY TailAt DEF InOrder

LEMMA InOrderTailOther ==
    ASSUME NEW T, NEW q \in Seq(T), q # <<>>, NEW S, NEW lo \in Nat, NEW hi \in Nat,
           InOrder(q, S, lo, hi)
    PROVE  InOrder(Tail(q), S, lo, hi)
BY TailAt DEF InOrder

LEMMA CarriesAppend ==
    ASSUME NEW T, NEW q \in Seq(T), NEW S, NEW lo \in Nat, NEW hi \in Nat,
           NEW m \in T, m \in S, m.seq = hi + 1, lo <= hi, Carries(q, S, lo, hi)
    PROVE  Carries(Append(q, m), S, lo, hi + 1)
<1>1. /\ Len(q) \in Nat /\ Len(Append(q, m)) = Len(q) + 1
      /\ Append(q, m)[Len(q) + 1] = m
      /\ \A i \in 1..Len(q) : Append(q, m)[i] = q[i]
  BY AppendProperties
<1>2. InOrder(Append(q, m), S, lo, hi + 1)
  <2>1. InOrder(Append(q, m), S, lo, m.seq)
    <3>1. m.seq \in Nat /\ hi < m.seq /\ InOrder(q, S, lo, hi)
      BY DEF Carries
    <3> QED
      BY <3>1, InOrderAppend
  <2> QED
    BY <2>1
<1>3. ASSUME NEW n \in (lo + 1)..(hi + 1)
      PROVE  \E i \in 1..Len(Append(q, m)) : Append(q, m)[i] \in S /\ Append(q, m)[i].seq = n
  <2>1. CASE n = hi + 1
    BY <1>1, <2>1
  <2>2. CASE n \in (lo + 1)..hi
    <3>1. PICK i \in 1..Len(q) : q[i] \in S /\ q[i].seq = n
      BY <2>2 DEF Carries
    <3> QED
      BY <1>1, <3>1
  <2> QED
    BY <2>1, <2>2
<1> QED
  BY <1>2, <1>3 DEF Carries

LEMMA CarriesAppendOther ==
    ASSUME NEW T, NEW q \in Seq(T), NEW S, NEW lo, NEW hi,
           NEW m \in T, m \notin S, Carries(q, S, lo, hi)
    PROVE  Carries(Append(q, m), S, lo, hi)
<1>1. /\ Len(q) \in Nat /\ Len(Append(q, m)) = Len(q) + 1
      /\ \A i \in 1..Len(q) : Append(q, m)[i] = q[i]
  BY AppendProperties
<1>2. InOrder(Append(q, m), S, lo, hi)
  BY InOrderAppendOther DEF Carries
<1> QED
  BY <1>1, <1>2 DEF Carries

LEMMA CarriesTail ==
    ASSUME NEW T, NEW q \in Seq(T), q # <<>>, NEW S, NEW lo \in Nat, NEW hi \in Nat,
           Head(q) \in S, Carries(q, S, lo, hi)
    PROVE  Head(q).seq = lo + 1 /\ lo < hi /\ Carries(Tail(q), S, lo + 1, hi)
<1>1. /\ Len(q) \in Nat \ {0} /\ Head(q) = q[1]
      /\ Len(Tail(q)) = Len(q) - 1
      /\ \A i \in 1..(Len(q) - 1) : Tail(q)[i] = q[i + 1]
  BY TailAt
<1>2. Head(q).seq \in (lo + 1)..hi /\ InOrder(Tail(q), S, Head(q).seq, hi)
  BY InOrderTail DEF Carries
<1>3. Head(q).seq = lo + 1 /\ lo < hi
  <2>1. PICK i \in 1..Len(q) : q[i] \in S /\ q[i].seq = lo + 1
    BY <1>2 DEF Carries
  <2> QED
    BY <1>1, <1>2, <2>1 DEF Carries, InOrder
<1>4. ASSUME NEW n \in (lo + 2)..hi
      PROVE  \E i \in 1..Len(Tail(q)) : Tail(q)[i] \in S /\ Tail(q)[i].seq = n
  <2>1. PICK i \in 1..Len(q) : q[i] \in S /\ q[i].seq = n
    BY DEF Carries
  <2>2. i # 1
    BY <1>1, <1>3, <2>1
  <2>3. i - 1 \in 1..(Len(q) - 1) /\ (i - 1) + 1 = i
    BY <1>1, <2>2
  <2> QED
    BY <1>1, <2>1, <2>3
<1> QED
  BY <1>2, <1>3, <1>4 DEF Carries

LEMMA CarriesTailOther ==
    ASSUME NEW T, NEW q \in Seq(T), q # <<>>, NEW S, NEW lo \in Nat, NEW hi \in Nat,
           Head(q) \notin S, Carries(q, S, lo, hi)
    PROVE  Carries(Tail(q), S, lo, hi)
<1>1. /\ Len(q) \in Nat \ {0} /\ Head(q) = q[1]
      /\ Len(Tail(q)) = Len(q) - 1
      /\ \A i \in 1..(Len(q) - 1) : Tail(q)[i] = q[i + 1]
  BY TailAt
<1>2. InOrder(Tail(q), S, lo, hi)
  BY InOrderTailOther DEF Carries
<1>3. ASSUME NEW n \in (lo + 1)..hi
      PROVE  \E i \in 1..Len(Tail(q)) : Tail(q)[i] \in S /\ Tail(q)[i].seq = n
  <2>1. PICK i \in 1..Len(q) : q[i] \in S /\ q[i].seq = n
    BY DEF Carries
  <2>2. i - 1 \in 1..(Len(q) - 1) /\ (i - 1) + 1 = i
    BY <1>1, <2>1
  <2> QED
    BY <1>1, <2>1, <2>2
<1> QED
  BY <1>2, <1>3 DEF Carries

(* The oldest messages of such a queue are such a queue.                   *)
LEMMA CarriesPrefix ==
    ASSUME NEW T, NEW q \in Seq(T), NEW S, NEW lo \in Nat, NEW hi \in Nat, lo <= hi,
           NEW k \in 0..Len(q), Carries(q, S, lo, hi)
    PROVE  \E to \in lo..hi : Carries(SubSeq(q, 1, k), S, lo, to)
<1> DEFINE w == SubSeq(q, 1, k)
           Left(i) == i \in 1..Len(q) /\ k < i /\ q[i] \in S
<1>1. /\ Len(q) \in Nat /\ k \in Nat /\ k <= Len(q) /\ Len(w) = k
      /\ \A i \in 1..k : w[i] = q[i]
  BY SubSeqProperties
<1>2. /\ \A i \in 1..Len(q) : q[i] \in S => q[i].seq \in (lo + 1)..hi
      /\ \A i, j \in 1..Len(q) :
           i < j /\ q[i] \in S /\ q[j] \in S => q[i].seq < q[j].seq
      /\ \A n \in (lo + 1)..hi : \E i \in 1..Len(q) : q[i] \in S /\ q[i].seq = n
  BY DEF Carries, InOrder
<1> HIDE DEF w
<1>3. ASSUME NEW to \in Int, \A i \in 1..k : q[i] \in S => q[i].seq <= to
      PROVE  InOrder(w, S, lo, to)
  <2>1. \A i \in 1..Len(w) : i \in 1..Len(q) /\ w[i] = q[i] /\ i \in 1..k
    BY <1>1
  <2>2. \A i \in 1..Len(w) : w[i] \in S => w[i].seq \in (lo + 1)..to
    BY <1>3, <1>2, <2>1
  <2>3. \A i, j \in 1..Len(w) :
           i < j /\ w[i] \in S /\ w[j] \in S => w[i].seq < w[j].seq
    BY <1>2, <2>1
  <2> QED
    BY <2>2, <2>3 DEF InOrder
<1>4. CASE \A i \in Nat : ~Left(i)
  <2>1. InOrder(w, S, lo, hi)
    BY <1>3, <1>1, <1>2
  <2>2. ASSUME NEW n \in (lo + 1)..hi
        PROVE  \E i \in 1..Len(w) : w[i] \in S /\ w[i].seq = n
    <3>1. PICK i \in 1..Len(q) : q[i] \in S /\ q[i].seq = n
      BY <1>2
    <3>2. i <= k
      BY <1>1, <1>4, <3>1
    <3> QED
      BY <1>1, <3>1, <3>2
  <2> QED
    BY <2>1, <2>2 DEF Carries, w
<1>5. CASE \E i \in Nat : Left(i)
  <2>1. PICK first \in Nat : Left(first) /\ \A j \in Nat : Left(j) => first <= j
    <3> DEFINE U == {i \in Nat : Left(i)}
    <3>1. U \in SUBSET Nat /\ U # {}
      BY <1>5
    <3> HIDE DEF U
    <3>2. \E m \in U : \A n \in U : m <= n
      BY <3>1, LeastNatural
    <3> QED
      BY <3>2 DEF U
  <2> DEFINE to == q[first].seq - 1
  <2>2. /\ first \in 1..Len(q) /\ k < first /\ q[first] \in S
        /\ q[first].seq \in (lo + 1)..hi
    BY <1>2, <2>1
  <2>3. to \in lo..hi /\ to + 1 = q[first].seq
    BY <2>2
  <2>4. InOrder(w, S, lo, to)
    <3>1. ASSUME NEW i \in 1..k, q[i] \in S PROVE q[i].seq <= to
      <4>1. i \in 1..Len(q) /\ i < first
        BY <1>1, <2>2
      <4>2. q[i].seq < q[first].seq /\ q[i].seq \in (lo + 1)..hi
        BY <1>2, <2>2, <3>1, <4>1
      <4> QED
        BY <2>3, <4>2
    <3>2. to \in Int
      BY <2>3
    <3> HIDE DEF to
    <3> QED
      BY <1>3, <3>1, <3>2
  <2>5. ASSUME NEW n \in (lo + 1)..to
        PROVE  \E i \in 1..Len(w) : w[i] \in S /\ w[i].seq = n
    <3>1. n \in (lo + 1)..hi /\ n < q[first].seq
      BY <2>3
    <3>2. PICK i \in 1..Len(q) : q[i] \in S /\ q[i].seq = n
      BY <1>2, <3>1
    <3>3. i < first
      <4>1. i # first
        BY <3>1, <3>2
      <4>2. ~(first < i)
        BY <1>2, <2>2, <3>1, <3>2
      <4> QED
        BY <2>2, <4>1, <4>2
    <3>4. i <= k
      BY <1>1, <2>1, <3>2, <3>3
    <3> QED
      BY <1>1, <3>2, <3>4
  <2> HIDE DEF to
  <2> QED
    BY <2>3, <2>4, <2>5 DEF Carries, w
<1> QED
  BY <1>4, <1>5
=============================================================================
