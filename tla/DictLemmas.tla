----------------------------- MODULE DictLemmas -----------------------------
(***************************************************************************)
(* What the operations of dict.c do to a dict, proved for any keys, hashes *)
(* and sizes of tables: whatever stage a rehashing is at, they add, delete *)
(* and find the key they are asked for and lose no other.                  *)
(*                                                                         *)
(* DictInv says that every key is in one table, in the bucket of its hash  *)
(* there, and that the buckets before rehashidx are empty.  It assumes of  *)
(* the keys only that they are fewer than a word has values.               *)
(*                                                                         *)
(* The last part is about dictScan.  Rev reverses the bits of a word; in   *)
(* the order of the reversed words the hashes that fall in one bucket lie  *)
(* together, whatever the size of the table, so that a cursor divides the  *)
(* keys of a large and of a small table alike.                             *)
(***************************************************************************)
EXTENDS Dict, FlattenLemmas, FiniteSetTheorems, TLAPS

(* Powers of two *)

(* 2^n, as a symbol whose laws are those below. *)
Pow(n) == 2^n

(* 2^n counts the subsets of 1..n, which is how the library speaks of it. *)
LEMMA PowCount ==
    ASSUME NEW n \in Nat
    PROVE  Pow(n) = Cardinality(SUBSET (1..n)) /\ IsFiniteSet(SUBSET (1..n)) /\ Pow(n) \in Nat
<1>1. IsFiniteSet(1..n) /\ Cardinality(1..n) = n
  BY FS_Interval
<1>2. Cardinality(SUBSET (1..n)) = Pow(Cardinality(1..n)) /\ IsFiniteSet(SUBSET (1..n))
  BY <1>1, FS_SUBSET, Zenon DEF Pow
<1>3. Cardinality(SUBSET (1..n)) \in Nat
  BY <1>2, FS_CardinalityType
<1> QED
  BY <1>1, <1>2, <1>3

(* One bit more doubles it. *)
LEMMA PowNext ==
    ASSUME NEW n \in Nat
    PROVE  Pow(n + 1) = 2 * Pow(n)
<1> DEFINE A == SUBSET (1..n)
           B == {S \cup {n + 1} : S \in A}
           f == [S \in A |-> S \cup {n + 1}]
<1>0. n + 1 \notin 1..n /\ 1..(n + 1) = (1..n) \cup {n + 1}
  OBVIOUS
<1>1. SUBSET (1..(n + 1)) = A \cup B
  <2>1. ASSUME NEW S \in SUBSET (1..(n + 1)) PROVE S \in A \cup B
    <3>1. CASE n + 1 \in S
      <4>1. S \ {n + 1} \in A
        OBVIOUS
      <4>2. S = (S \ {n + 1}) \cup {n + 1}
        BY <3>1
      <4> QED
        BY <4>1, <4>2
    <3>2. CASE n + 1 \notin S
      BY <1>0, <3>2
    <3> QED
      BY <3>1, <3>2
  <2>2. ASSUME NEW S \in A \cup B PROVE S \in SUBSET (1..(n + 1))
    BY <1>0, Zenon
  <2> QED
    BY <2>1, <2>2
<1>2. A \cap B = {}
  BY <1>0
<1>3. IsFiniteSet(A) /\ Cardinality(A) = Pow(n) /\ Pow(n) \in Nat
  BY PowCount
<1>4. IsFiniteSet(B) /\ Cardinality(B) = Cardinality(A)
  <2>1. f \in [A -> B]
    BY Zenon
  <2>2. ASSUME NEW S \in A, NEW T \in A, f[S] = f[T] PROVE S = T
    <3>1. S \cup {n + 1} = T \cup {n + 1}
      BY <2>2
    <3>2. n + 1 \notin S /\ n + 1 \notin T
      BY <1>0
    <3> QED
      BY <3>1, <3>2
  <2>3. \A T \in B : \E S \in A : f[S] = T
    BY Zenon
  <2>4. f \in Bijection(A, B)
    BY <2>1, <2>2, <2>3 DEF Injection, Surjection, Bijection, IsInjective
  <2> QED
    BY <2>4, <1>3, FS_Bijection DEF ExistsBijection
<1>5. Cardinality(A \cup B) = Cardinality(A) + Cardinality(B) - Cardinality(A \cap B)
  BY <1>3, <1>4, FS_Union
<1>6. Cardinality({}) = 0
  BY FS_EmptySet
<1>7. Pow(n + 1) = Cardinality(A \cup B)
  <2>1. n + 1 \in Nat
    OBVIOUS
  <2>2. Pow(n + 1) = Cardinality(SUBSET (1..(n + 1)))
    BY <2>1, PowCount
  <2> QED
    BY <1>1, <2>2
<1> HIDE DEF A, B
<1> QED
  BY <1>2, <1>3, <1>4, <1>5, <1>6, <1>7

(* It is at least 1. *)
LEMMA PowPositive ==
    ASSUME NEW n \in Nat
    PROVE  Pow(n) \in Nat /\ Pow(n) >= 1
<1> DEFINE S == {m \in Nat : Pow(m) >= 1}
<1>1. 0 \in S
  BY DEF Pow
<1>2. ASSUME NEW m \in S PROVE m + 1 \in S
  <2>1. Pow(m + 1) = 2 * Pow(m) /\ Pow(m) \in Nat
    BY PowNext, PowCount
  <2> QED
    BY <2>1
<1>3. S = Nat
  <2> HIDE DEF S
  <2>1. S \in SUBSET Nat
    BY DEF S
  <2> QED
    BY <1>1, <1>2, <2>1, SetInduction
<1> QED
  BY <1>3, PowCount

(* A larger power of two is a multiple of a smaller one, *)
LEMMA PowMultiple ==
    ASSUME NEW m \in Nat, NEW n \in Nat, m <= n
    PROVE  \E c \in Nat : c >= 1 /\ Pow(n) = c * Pow(m)
<1> DEFINE S == {j \in Nat : \E c \in Nat : c >= 1 /\ Pow(m + j) = c * Pow(m)}
<1>1. 0 \in S
  <2>1. Pow(m) \in Nat
    BY PowCount, Zenon
  <2>2. m + 0 = m
    OBVIOUS
  <2>3. 1 \in Nat /\ 1 >= 1 /\ Pow(m + 0) = 1 * Pow(m)
    BY <2>1, <2>2
  <2> QED
    BY <2>3
<1>2. ASSUME NEW j \in S PROVE j + 1 \in S
  <2>1. PICK c \in Nat : c >= 1 /\ Pow(m + j) = c * Pow(m)
    OBVIOUS
  <2>2. Pow((m + j) + 1) = 2 * Pow(m + j) /\ (m + j) + 1 = m + (j + 1)
    BY PowNext
  <2>3. Pow(m) \in Nat
    BY PowCount
  <2>4. Pow(m + (j + 1)) = (2 * c) * Pow(m)
    BY <2>1, <2>2, <2>3
  <2>5. 2 * c \in Nat /\ 2 * c >= 1
    BY <2>1
  <2> QED
    BY <2>4, <2>5
<1>3. S = Nat
  <2> HIDE DEF S
  <2>1. S \in SUBSET Nat
    BY DEF S
  <2> QED
    BY <1>1, <1>2, <2>1, SetInduction
<1>4. n - m \in Nat /\ m + (n - m) = n
  OBVIOUS
<1>5. n - m \in S
  <2> HIDE DEF S
  <2> QED
    BY <1>3, <1>4
<1> QED
  BY <1>4, <1>5

(* and not less. *)
LEMMA PowMonotone ==
    ASSUME NEW m \in Nat, NEW n \in Nat, m <= n
    PROVE  Pow(m) <= Pow(n)
<1>1. PICK c \in Nat : c >= 1 /\ Pow(n) = c * Pow(m)
  BY PowMultiple
<1>2. Pow(m) \in Nat
  BY PowPositive
<1>3. ASSUME NEW p \in Nat PROVE c * p >= p
  BY <1>1
<1> QED
  BY <1>1, <1>2, <1>3

(* Division with remainder. *)
LEMMA DivMod ==
    ASSUME NEW x \in Nat, NEW p \in Nat, p >= 1
    PROVE  x \div p \in Nat /\ x % p \in 0..(p - 1) /\ x = p * (x \div p) + (x % p)
  OBVIOUS

(* The remainder is unique. *)
LEMMA ModUnique ==
    ASSUME NEW x \in Nat, NEW m \in Nat, m >= 1, NEW a \in Nat, NEW b \in 0..(m - 1),
           x = m * a + b
    PROVE  x % m = b
  OBVIOUS

(* Two multiples added up. *)
LEMMA Regroup ==
    ASSUME NEW c \in Nat, NEW m \in Nat, NEW q \in Nat, NEW a \in Nat, NEW b \in Nat
    PROVE  (c * m) * q + (m * a + b) = m * (c * q + a) + b
<1>1. (c * m) * q = m * (c * q)
  OBVIOUS
<1>2. m * (c * q + a) = m * (c * q) + m * a
  OBVIOUS
<1>3. c * q \in Nat /\ m * (c * q) \in Nat /\ m * a \in Nat
  OBVIOUS
<1> QED
  BY <1>1, <1>2, <1>3

(* A remainder by a multiple has the same remainder: the bucket in the     *)
(* larger table tells the one in the smaller.                              *)
LEMMA ModMod ==
    ASSUME NEW x \in Nat, NEW m \in Nat, m >= 1, NEW c \in Nat, c >= 1
    PROVE  (x % (c * m)) % m = x % m
<1>1. c * m \in Nat /\ c * m >= 1
  OBVIOUS
<1> DEFINE q == x \div (c * m)
           r == x % (c * m)
           a == r \div m
           b == r % m
<1>2. q \in Nat /\ r \in 0..(c * m - 1) /\ x = (c * m) * q + r
  <2> DEFINE p == c * m
  <2>1. p \in Nat /\ p >= 1
    BY <1>1
  <2> HIDE DEF p
  <2>2. x \div p \in Nat /\ x % p \in 0..(p - 1) /\ x = p * (x \div p) + (x % p)
    BY <2>1, DivMod
  <2> QED
    BY <2>2 DEF p
<1> HIDE DEF q, r
<1>3. r \in Nat
  BY <1>1, <1>2
<1>4. a \in Nat /\ b \in 0..(m - 1) /\ r = m * a + b
  BY <1>3, DivMod
<1> HIDE DEF a, b
<1>5. b \in Nat
  BY <1>4
<1>6. x = m * (c * q + a) + b
  BY <1>2, <1>4, <1>5, Regroup
<1>7. c * q + a \in Nat
  BY <1>2, <1>4
<1>8. x % m = b
  BY <1>4, <1>6, <1>7, ModUnique
<1> QED
  BY <1>8 DEF b, r

-----------------------------------------------------------------------------
(* Sizes and buckets *)

(* A set of naturals that is not empty has a least member, *)
LEMMA NatMin ==
    ASSUME NEW T \in SUBSET Nat, T # {}
    PROVE  \E x \in T : \A y \in T : x <= y
<1> DEFINE R == OpToRel(<, Nat)
<1>1. IsWellFoundedOn(R, Nat)
  BY NatLessThanWellFounded
<1>2. PICK x \in T : \A y \in T : ~(<<y, x>> \in R)
  <2> HIDE DEF R
  <2> QED
    BY <1>1, WFMin, Zenon
<1>3. ASSUME NEW y \in T PROVE x <= y
  <2>1. y \in Nat /\ x \in Nat
    OBVIOUS
  <2>2. y < x => <<y, x>> \in R
    BY <2>1 DEF OpToRel
  <2> HIDE DEF R
  <2> QED
    BY <1>2, <2>1, <2>2
<1> QED
  BY <1>3

(* which Min gives. *)
LEMMA MinType ==
    ASSUME NEW T \in SUBSET Nat, T # {}
    PROVE  Min(T) \in T /\ \A y \in T : Min(T) <= y
<1>1. \E x \in T : \A y \in T : x <= y
  BY NatMin
<1> QED
  BY <1>1, Zenon DEF Min

(* The size of a table. *)
LEMMA SizeType ==
    ASSUME NEW e \in -1..W
    PROVE  /\ Size(e) \in Nat
           /\ e # -1 => e \in Nat /\ Size(e) = Pow(e) /\ Size(e) >= 1
           /\ e = -1 => Size(e) = 0
<1>1. CASE e = -1
  BY <1>1 DEF Size
<1>2. CASE e # -1
  <2>1. e \in Nat
    BY <1>2, DictAssumption
  <2>2. Size(e) = Pow(e)
    BY <1>2, Zenon DEF Size, Pow
  <2>3. Pow(e) \in Nat /\ Pow(e) >= 1
    BY <2>1, PowPositive
  <2> QED
    BY <1>2, <2>1, <2>2, <2>3
<1> QED
  BY <1>1, <1>2

(* What is assumed of the constants of Dict. *)
LEMMA Constants ==
    /\ W \in Nat /\ W >= 1 /\ InitialExp \in 0..W /\ InitialExp \in Nat /\ InitialExp \in -1..W
    /\ MinFill \in Nat /\ MinFill >= 1 /\ ForceRatio \in Nat /\ ForceRatio >= 1
    /\ EmptyVisits \in Nat /\ EmptyVisits >= 1
    /\ \A k \in Key : Hash(k) \in Nat
<1>1. 2^W = Pow(W)
  BY DEF Pow
<1>2. W \in Nat
  BY DictAssumption
<1>3. Pow(W) \in Nat
  BY <1>2, PowPositive
<1>4. \A k \in Key : Hash(k) \in 0..(Pow(W) - 1)
  BY <1>1, DictAssumption, Zenon
<1> QED
  BY <1>3, <1>4, DictAssumption

(* _dictNextExp gives the exponent of a table that holds n keys, if n is   *)
(* no more than a word has values.                                         *)
LEMMA NextExpType ==
    ASSUME NEW n \in Nat, n <= Pow(W)
    PROVE  NextExp(n) \in 0..W
<1>0. InitialExp \in 0..W /\ InitialExp \in Nat /\ W \in Nat
  BY Constants
<1>1. CASE n <= Pow(InitialExp)
  <2>1. NextExp(n) = InitialExp
    BY <1>1, Zenon DEF NextExp, Pow
  <2> QED
    BY <1>0, <2>1
<1>2. CASE ~(n <= Pow(InitialExp))
  <2> DEFINE T == {e \in Nat : n <= Pow(e)}
  <2>1. PICK e \in T : \A y \in T : e <= y
    <3>1. W \in T
      BY <1>0
    <3> QED
      BY <3>1, NatMin
  <2>2. Pow(InitialExp) \in Nat /\ Pow(InitialExp) >= 1 /\ Pow(0) = 1
    BY <1>0, PowPositive DEF Pow
  <2>3. e # 0 /\ e <= W
    BY <1>0, <1>2, <2>1, <2>2
  <2>4. e \in 1..W /\ e - 1 \in Nat
    BY <1>0, <2>1, <2>3
  <2>5. ~(n <= Pow(e - 1))
    <3>1. e - 1 \in T => e <= e - 1
      BY <2>1
    <3> QED
      BY <2>4, <3>1
  <2>6. Pow(e - 1) \in Nat
    BY <2>4, PowPositive
  <2>7. n > Pow(e - 1)
    BY <2>5, <2>6
  <2>8. \E f \in 1..W : n <= Pow(f) /\ n > Pow(f - 1)
    BY <2>1, <2>4, <2>7
  <2>9. NextExp(n) = CHOOSE f \in 1..W : n <= Pow(f) /\ n > Pow(f - 1)
    BY <1>2, Zenon DEF NextExp, Pow
  <2>10. NextExp(n) \in 1..W
    BY <2>8, <2>9, Zenon
  <2> QED
    BY <1>0, <2>10
<1> QED
  BY <1>1, <1>2

(* A key has a bucket in every table that has one. *)
LEMMA BucketType ==
    ASSUME NEW h \in Nat, NEW e \in -1..W
    PROVE  /\ Bucket(h, e) \in Nat
           /\ e # -1 => Bucket(h, e) \in 0..(Size(e) - 1) /\ Bucket(h, e) = h % Size(e)
<1>1. CASE e = -1
  BY <1>1 DEF Bucket
<1>2. CASE e # -1
  <2>1. Size(e) \in Nat /\ Size(e) >= 1
    BY <1>2, SizeType
  <2>2. Bucket(h, e) = h % Size(e)
    BY <1>2, Zenon DEF Bucket
  <2>3. h % Size(e) \in 0..(Size(e) - 1)
    BY <2>1, DivMod
  <2> QED
    BY <1>2, <2>1, <2>2, <2>3
<1> QED
  BY <1>1, <1>2

(* The bucket in the smaller of two tables is found from the one in the    *)
(* larger: what rehashEntriesInBucketAtIndex relies on when it cuts the    *)
(* index short.                                                            *)
LEMMA BucketNest ==
    ASSUME NEW h \in Nat, NEW e \in -1..W, NEW f \in -1..W, e # -1, f # -1, f <= e
    PROVE  Bucket(h, e) % Size(f) = Bucket(h, f)
<1>1. e \in Nat /\ f \in Nat /\ Size(e) = Pow(e) /\ Size(f) = Pow(f) /\ Size(f) >= 1 /\ Size(f) \in Nat
  BY SizeType
<1>2. PICK c \in Nat : c >= 1 /\ Pow(e) = c * Pow(f)
  BY <1>1, PowMultiple
<1>3. Bucket(h, e) = h % (c * Size(f)) /\ Bucket(h, f) = h % Size(f)
  BY <1>1, <1>2, BucketType
<1>4. (h % (c * Size(f))) % Size(f) = h % Size(f)
  BY <1>1, <1>2, ModMod
<1> QED
  BY <1>3, <1>4

-----------------------------------------------------------------------------
(* Tables *)

(* The keys in a table. *)
All(h) == UNION {h[i] : i \in DOMAIN h}

(* A table of exponent e, every key in the bucket its hash asks for. *)
TableSet(e) == [0..(Size(e) - 1) -> SUBSET Key]
Placed(h, e) == \A j \in DOMAIN h : \A k \in h[j] : Bucket(Hash(k), e) = j
Table(h, e) == h \in TableSet(e) /\ Placed(h, e)

(* A table with a key more, a key less, a bucket emptied, the keys of M    *)
(* more.                                                                   *)
With(h, k, e) == [h EXCEPT ![Bucket(Hash(k), e)] = @ \cup {k}]
Without(h, k, e) == [h EXCEPT ![Bucket(Hash(k), e)] = @ \ {k}]
Clear(h, i) == [h EXCEPT ![i] = {}]
At(h, i) == h[i]
Merge(h, M, e) == [j \in DOMAIN h |-> h[j] \cup {k \in M : Bucket(Hash(k), e) = j}]

(* The keys in a table. *)
LEMMA InAll ==
    ASSUME NEW h, NEW k
    PROVE  k \in All(h) <=> \E i \in DOMAIN h : k \in h[i]
  BY Zenon DEF All

(* A new table is a table without keys. *)
LEMMA TableNew ==
    ASSUME NEW e \in -1..W
    PROVE  Table(NewTable(e), e) /\ All(NewTable(e)) = {}
<1>1. \A i \in DOMAIN NewTable(e) : NewTable(e)[i] = {}
  BY DEF NewTable
<1>2. NewTable(e) \in TableSet(e)
  BY Zenon DEF NewTable, TableSet
<1> QED
  BY <1>1, <1>2, Zenon DEF Table, Placed, All

(* The buckets of a table. *)
LEMMA TableKey ==
    ASSUME NEW e \in -1..W, NEW h, Table(h, e)
    PROVE  /\ DOMAIN h = 0..(Size(e) - 1)
           /\ \A j \in DOMAIN h : h[j] \in SUBSET Key
           /\ All(h) \in SUBSET Key
<1>1. DOMAIN h = 0..(Size(e) - 1) /\ \A j \in DOMAIN h : h[j] \in SUBSET Key
  BY Zenon DEF Table, TableSet
<1> QED
  BY <1>1, InAll, Zenon

(* A key in a table is in the bucket of its hash. *)
LEMMA TableFind ==
    ASSUME NEW e \in -1..W, NEW h, Table(h, e), NEW k \in Key
    PROVE  k \in All(h) <=> e # -1 /\ k \in h[Bucket(Hash(k), e)]
<1>0. Hash(k) \in Nat
  BY Constants
<1>1. DOMAIN h = 0..(Size(e) - 1)
  BY TableKey
<1>2. ASSUME k \in All(h) PROVE e # -1 /\ k \in h[Bucket(Hash(k), e)]
  <2>1. PICK i \in DOMAIN h : k \in h[i]
    BY <1>2, InAll
  <2>2. Bucket(Hash(k), e) = i
    BY <2>1, Zenon DEF Table, Placed
  <2>3. e # -1
    BY <1>1, SizeType
  <2> QED
    BY <2>1, <2>2, <2>3
<1>3. ASSUME e # -1, k \in h[Bucket(Hash(k), e)] PROVE k \in All(h)
  <2>1. Bucket(Hash(k), e) \in DOMAIN h
    BY <1>0, <1>1, <1>3, BucketType
  <2> QED
    BY <1>3, <2>1, InAll, Zenon
<1> QED
  BY <1>2, <1>3

(* Adding a key to its bucket. *)
LEMMA TableAdd ==
    ASSUME NEW e \in -1..W, NEW h, Table(h, e), e # -1, NEW k \in Key
    PROVE  Table(With(h, k, e), e) /\ All(With(h, k, e)) = All(h) \cup {k}
<1> DEFINE g == With(h, k, e)
<1>g. g = [h EXCEPT ![Bucket(Hash(k), e)] = @ \cup {k}]
  BY DEF With
<1> HIDE DEF g
<1> DEFINE b == Bucket(Hash(k), e)
<1>1. DOMAIN h = 0..(Size(e) - 1) /\ \A j \in DOMAIN h : h[j] \in SUBSET Key
  BY TableKey
<1>2. b \in DOMAIN h
  BY <1>1, BucketType, Constants
<1>3. h \in [0..(Size(e) - 1) -> SUBSET Key]
  BY Zenon DEF Table, TableSet
<1> HIDE DEF b
<1>4. g = [h EXCEPT ![b] = @ \cup {k}]
  BY <1>g DEF b
<1>5. g \in TableSet(e) /\ DOMAIN g = DOMAIN h
  BY <1>1, <1>2, <1>3, <1>4 DEF TableSet
<1>6. \A j \in DOMAIN h : g[j] = IF j = b THEN h[j] \cup {k} ELSE h[j]
  BY <1>2, <1>3, <1>4
<1>7. Placed(g, e)
  BY <1>5, <1>6 DEF Placed, Table, b
<1>8. \A x : x \in All(g) <=> x \in All(h) \/ x = k
  BY <1>2, <1>5, <1>6, InAll
<1> QED
  BY <1>5, <1>7, <1>8, Zenon DEF Table, g

(* Removing a key from its bucket. *)
LEMMA TableRemove ==
    ASSUME NEW e \in -1..W, NEW h, Table(h, e), e # -1, NEW k \in Key
    PROVE  /\ Table(Without(h, k, e), e) /\ All(Without(h, k, e)) = All(h) \ {k}
           /\ \A j \in DOMAIN h : Without(h, k, e)[j] \in SUBSET h[j]
<1> DEFINE g == Without(h, k, e)
<1>g. g = [h EXCEPT ![Bucket(Hash(k), e)] = @ \ {k}]
  BY DEF Without
<1> HIDE DEF g
<1> DEFINE b == Bucket(Hash(k), e)
<1>1. DOMAIN h = 0..(Size(e) - 1) /\ \A j \in DOMAIN h : h[j] \in SUBSET Key
  BY TableKey
<1>2. b \in DOMAIN h
  BY <1>1, BucketType, Constants
<1>3. h \in [0..(Size(e) - 1) -> SUBSET Key]
  BY Zenon DEF Table, TableSet
<1>p. \A j \in DOMAIN h : k \in h[j] => j = b
  BY DEF Table, Placed
<1> HIDE DEF b
<1>4. g = [h EXCEPT ![b] = @ \ {k}]
  BY <1>g DEF b
<1>5. g \in TableSet(e) /\ DOMAIN g = DOMAIN h
  BY <1>1, <1>2, <1>3, <1>4 DEF TableSet
<1>6. \A j \in DOMAIN h : g[j] = IF j = b THEN h[j] \ {k} ELSE h[j]
  BY <1>2, <1>3, <1>4
<1>7. Placed(g, e)
  BY <1>5, <1>6 DEF Placed, Table
<1>8. \A x : x \in All(g) <=> x \in All(h) /\ x # k
  BY <1>2, <1>5, <1>6, <1>p, InAll
<1>9. All(g) = All(h) \ {k}
  BY <1>8, Zenon
<1> QED
  BY <1>5, <1>6, <1>7, <1>9 DEF Table, g

(* Emptying a bucket. *)
LEMMA TableClear ==
    ASSUME NEW e \in -1..W, NEW h, Table(h, e), NEW i \in DOMAIN h
    PROVE  /\ Table(Clear(h, i), e) /\ All(Clear(h, i)) = All(h) \ h[i]
           /\ \A j \in DOMAIN h : Clear(h, i)[j] \in SUBSET h[j]
           /\ Clear(h, i)[i] = {}
<1> DEFINE g == Clear(h, i)
<1>g. g = [h EXCEPT ![i] = {}]
  BY DEF Clear
<1> HIDE DEF g
<1>1. DOMAIN h = 0..(Size(e) - 1) /\ \A j \in DOMAIN h : h[j] \in SUBSET Key
  BY TableKey
<1>3. h \in [0..(Size(e) - 1) -> SUBSET Key]
  BY Zenon DEF Table, TableSet
<1>5. g \in TableSet(e) /\ DOMAIN g = DOMAIN h
  BY <1>g, <1>1, <1>3 DEF TableSet
<1>6. \A j \in DOMAIN h : g[j] = IF j = i THEN {} ELSE h[j]
  BY <1>g, <1>3
<1>7. Placed(g, e)
  BY <1>5, <1>6 DEF Placed, Table
<1>p. \A j \in DOMAIN h : \A k \in h[i] : k \in h[j] => j = i
  BY DEF Table, Placed
<1>8. \A x : x \in All(g) <=> x \in All(h) /\ x \notin h[i]
  BY <1>5, <1>6, <1>p, InAll
<1>9. All(g) = All(h) \ h[i]
  BY <1>8, Zenon
<1> QED
  BY <1>5, <1>6, <1>7, <1>9 DEF Table, g

(* Adding the keys of a set, each to its bucket. *)
LEMMA TableMerge ==
    ASSUME NEW e \in -1..W, NEW h, Table(h, e), e # -1, NEW M \in SUBSET Key
    PROVE  Table(Merge(h, M, e), e) /\ All(Merge(h, M, e)) = All(h) \cup M
<1> DEFINE g == Merge(h, M, e)
<1>g. g = [j \in DOMAIN h |-> h[j] \cup {k \in M : Bucket(Hash(k), e) = j}]
  BY DEF Merge
<1> HIDE DEF g
<1>1. DOMAIN h = 0..(Size(e) - 1) /\ \A j \in DOMAIN h : h[j] \in SUBSET Key
  BY TableKey
<1>2. \A k \in M : Bucket(Hash(k), e) \in DOMAIN h
  BY <1>1, BucketType, Constants
<1>3. DOMAIN g = DOMAIN h /\ \A j \in DOMAIN h : g[j] = h[j] \cup {k \in M : Bucket(Hash(k), e) = j}
  BY <1>g, Zenon
<1>5. g \in TableSet(e)
  BY <1>g, <1>1 DEF TableSet
<1>7. Placed(g, e)
  BY <1>3, Zenon DEF Placed, Table
<1>8. \A x : x \in All(g) <=> x \in All(h) \/ x \in M
  BY <1>2, <1>3, InAll
<1> QED
  BY <1>5, <1>7, <1>8, Zenon DEF Table, g

-----------------------------------------------------------------------------
(* Dicts and their parts *)

(* A dict made of its parts. *)
Tables2 == UNION {TableSet(e) : e \in -1..W}

(* The dicts, by type. *)
DictSet == [exp : [0..1 -> -1..W], ht : [0..1 -> Tables2], rehashidx : Int, pause : Nat]
Mk(e, f, g, h, r, p) == [exp |-> Pair(e, f), ht |-> Pair(g, h), rehashidx |-> r, pause |-> p]

(* What there is of table 0 and of table 1. *)
LEMMA PairParts ==
    ASSUME NEW x, NEW y
    PROVE  Pair(x, y)[0] = x /\ Pair(x, y)[1] = y /\ DOMAIN Pair(x, y) = 0..1
<1>1. 0 \in 0..1 /\ 1 \in 0..1 /\ 1 # 0
  OBVIOUS
<1> QED
  BY <1>1, Zenon DEF Pair

(* The type of a pair. *)
LEMMA PairType ==
    ASSUME NEW X, NEW x \in X, NEW y \in X
    PROVE  Pair(x, y) \in [0..1 -> X]
  BY Zenon DEF Pair

(* A function on 0..1 is a pair. *)
LEMMA PairEta ==
    ASSUME NEW X, NEW f \in [0..1 -> X]
    PROVE  f = Pair(f[0], f[1])
<1>1. \A t \in 0..1 : f[t] = Pair(f[0], f[1])[t]
  <2>1. \A t \in 0..1 : t = 0 \/ t = 1
    OBVIOUS
  <2> QED
    BY <2>1, PairParts
<1>2. DOMAIN f = 0..1 /\ DOMAIN Pair(f[0], f[1]) = 0..1
  BY PairParts
<1>3. f = [t \in 0..1 |-> f[t]] /\ Pair(f[0], f[1]) = [t \in 0..1 |-> Pair(f[0], f[1])[t]]
  <2>1. Pair(f[0], f[1]) \in [0..1 -> {f[0], f[1]}]
    BY PairType
  <2> QED
    BY <2>1, Zenon
<1> QED
  BY <1>1, <1>3, Zenon

(* The parts of a dict made of parts. *)
LEMMA MkParts ==
    ASSUME NEW e, NEW f, NEW g, NEW h, NEW r, NEW p, NEW d, d = Mk(e, f, g, h, r, p)
    PROVE  /\ d.exp = Pair(e, f) /\ d.ht = Pair(g, h)
           /\ d.exp[0] = e /\ d.exp[1] = f /\ d.ht[0] = g /\ d.ht[1] = h
           /\ d.rehashidx = r /\ d.pause = p
<1>1. d.exp = Pair(e, f) /\ d.ht = Pair(g, h) /\ d.rehashidx = r /\ d.pause = p
  BY DEF Mk
<1>2. Pair(e, f)[0] = e /\ Pair(e, f)[1] = f /\ Pair(g, h)[0] = g /\ Pair(g, h)[1] = h
  BY PairParts, Zenon
<1> QED
  BY <1>1, <1>2, Zenon

(* Such a dict has its type, *)
LEMMA MkType ==
    ASSUME NEW e \in -1..W, NEW f \in -1..W, NEW g, NEW h, Table(g, e), Table(h, f),
           NEW r \in Int, NEW p \in Nat
    PROVE  Mk(e, f, g, h, r, p) \in DictSet
<1>1. g \in Tables2 /\ h \in Tables2
  BY Zenon DEF Table, Tables2
<1>2. Pair(e, f) \in [0..1 -> -1..W] /\ Pair(g, h) \in [0..1 -> Tables2]
  BY <1>1, PairType
<1> QED
  BY <1>2 DEF Mk, DictSet

(* and every dict is made of its parts. *)
LEMMA MkEta ==
    ASSUME NEW d \in DictSet
    PROVE  d = Mk(d.exp[0], d.exp[1], d.ht[0], d.ht[1], d.rehashidx, d.pause)
<1>1. d.exp \in [0..1 -> -1..W] /\ d.ht \in [0..1 -> Tables2]
  BY Zenon DEF DictSet
<1>2. d.exp = Pair(d.exp[0], d.exp[1]) /\ d.ht = Pair(d.ht[0], d.ht[1])
  BY <1>1, PairEta
<1>3. d = [exp |-> d.exp, ht |-> d.ht, rehashidx |-> d.rehashidx, pause |-> d.pause]
  BY DEF DictSet
<1> QED
  BY <1>2, <1>3, Zenon DEF Mk

(* Replacing one part of a pair. *)
LEMMA PairExcept ==
    ASSUME NEW x, NEW y, NEW z
    PROVE  [Pair(x, y) EXCEPT ![0] = z] = Pair(z, y) /\ [Pair(x, y) EXCEPT ![1] = z] = Pair(x, z)
<1>1. [Pair(x, y) EXCEPT ![0] = z] = Pair(z, y)
  BY DEF Pair
<1>2. [Pair(x, y) EXCEPT ![1] = z] = Pair(x, z)
  <2> DEFINE G == [t \in 0..1 |-> IF t = 1 THEN z ELSE Pair(x, y)[t]]
  <2>1. [Pair(x, y) EXCEPT ![1] = z]
            = [t \in DOMAIN Pair(x, y) |-> IF t = 1 THEN z ELSE Pair(x, y)[t]]
    BY Zenon
  <2>2. \A t \in 0..1 : t = 0 \/ t = 1
    OBVIOUS
  <2>3. \A t \in 0..1 : G[t] = Pair(x, z)[t]
    BY <2>2 DEF Pair
  <2>4. G = Pair(x, z)
    BY <2>3, Zenon DEF Pair
  <2> QED
    BY <2>1, <2>4, PairParts
<1> QED
  BY <1>1, <1>2

(* A dict with one part replaced, as symbols whose laws are those of       *)
(* MkPut.                                                                  *)
PutExp(d, t, x) == [d EXCEPT !.exp[t] = x]
PutHt(d, t, x) == [d EXCEPT !.ht[t] = x]
PutIdx(d, x) == [d EXCEPT !.rehashidx = x]
PutPause(d, x) == [d EXCEPT !.pause = x]

(* Replacing one part of a dict. *)
LEMMA MkPut ==
    ASSUME NEW e, NEW f, NEW g, NEW h, NEW r, NEW p, NEW x
    PROVE  /\ PutExp(Mk(e, f, g, h, r, p), 0, x) = Mk(x, f, g, h, r, p)
           /\ PutExp(Mk(e, f, g, h, r, p), 1, x) = Mk(e, x, g, h, r, p)
           /\ PutHt(Mk(e, f, g, h, r, p), 0, x) = Mk(e, f, x, h, r, p)
           /\ PutHt(Mk(e, f, g, h, r, p), 1, x) = Mk(e, f, g, x, r, p)
           /\ PutIdx(Mk(e, f, g, h, r, p), x) = Mk(e, f, g, h, x, p)
           /\ PutPause(Mk(e, f, g, h, r, p), x) = Mk(e, f, g, h, r, x)
<1> DEFINE d == Mk(e, f, g, h, r, p)
<1>0. d = [exp |-> Pair(e, f), ht |-> Pair(g, h), rehashidx |-> r, pause |-> p]
  BY DEF Mk
<1>p. [Pair(e, f) EXCEPT ![0] = x] = Pair(x, f) /\ [Pair(e, f) EXCEPT ![1] = x] = Pair(e, x)
  BY PairExcept
<1>q. [Pair(g, h) EXCEPT ![0] = x] = Pair(x, h) /\ [Pair(g, h) EXCEPT ![1] = x] = Pair(g, x)
  BY PairExcept
<1>1. [d EXCEPT !.exp[0] = x] = Mk(x, f, g, h, r, p)
  <2>1. [d EXCEPT !.exp[0] = x] = [exp |-> [Pair(e, f) EXCEPT ![0] = x], ht |-> Pair(g, h),
                                 rehashidx |-> r, pause |-> p]
    BY <1>0
  <2> QED
    BY <1>p, <1>q, <2>1, Zenon DEF Mk
<1>2. [d EXCEPT !.exp[1] = x] = Mk(e, x, g, h, r, p)
  <2>1. [d EXCEPT !.exp[1] = x] = [exp |-> [Pair(e, f) EXCEPT ![1] = x], ht |-> Pair(g, h),
                                 rehashidx |-> r, pause |-> p]
    BY <1>0
  <2> QED
    BY <1>p, <1>q, <2>1, Zenon DEF Mk
<1>3. [d EXCEPT !.ht[0] = x] = Mk(e, f, x, h, r, p)
  <2>1. [d EXCEPT !.ht[0] = x] = [exp |-> Pair(e, f), ht |-> [Pair(g, h) EXCEPT ![0] = x],
                                rehashidx |-> r, pause |-> p]
    BY <1>0
  <2> QED
    BY <1>p, <1>q, <2>1, Zenon DEF Mk
<1>4. [d EXCEPT !.ht[1] = x] = Mk(e, f, g, x, r, p)
  <2>1. [d EXCEPT !.ht[1] = x] = [exp |-> Pair(e, f), ht |-> [Pair(g, h) EXCEPT ![1] = x],
                                rehashidx |-> r, pause |-> p]
    BY <1>0
  <2> QED
    BY <1>p, <1>q, <2>1, Zenon DEF Mk
<1>5. [d EXCEPT !.rehashidx = x] = Mk(e, f, g, h, x, p)
  BY DEF Mk
<1>6. [d EXCEPT !.pause = x] = Mk(e, f, g, h, r, x)
  BY DEF Mk
<1> QED
  BY <1>1, <1>2, <1>3, <1>4, <1>5, <1>6, Zenon DEF PutExp, PutHt, PutIdx, PutPause

-----------------------------------------------------------------------------
(* The invariant of a dict *)

(* The buckets before the r-th are empty. *)
EmptyBelow(g, r) == \A j \in DOMAIN g : j < r => g[j] = {}

(* The invariant of a dict, of its parts: e, f the exponents, g, h the     *)
(* tables, r rehashidx, K the keys that belong to it.  Every key is in one *)
(* table, in its bucket; table 1 is there while the dict is rehashing.     *)
Good(e, f, g, h, r, K) ==
    /\ e \in -1..W /\ f \in -1..W /\ Table(g, e) /\ Table(h, f)
    /\ All(g) \cup All(h) \subseteq K /\ All(g) \cap All(h) = {}
    /\ r \in -1..Size(e)
    /\ r = -1 => f = -1
    /\ r # -1 => e # -1 /\ f # -1
    /\ EmptyBelow(g, r)

(* The invariant of a dict. *)
DictInv(d, K) == d \in DictSet /\ Good(d.exp[0], d.exp[1], d.ht[0], d.ht[1], d.rehashidx, K)

(* The keys of a dict are fewer than a word has values. *)
Small(K) == K \in SUBSET Key /\ IsFiniteSet(K) /\ Cardinality(K) < Pow(W)

(* Dict c has the keys of d, and is in order. *)
Same(d, c, K) == DictInv(c, K) /\ DictKeys(c) = DictKeys(d) /\ c.pause = d.pause

(* The keys of a dict are those of its tables. *)
LEMMA KeysAll ==
    ASSUME NEW d
    PROVE  Keys(d, 0) = All(d.ht[0]) /\ Keys(d, 1) = All(d.ht[1])
           /\ DictKeys(d) = All(d.ht[0]) \cup All(d.ht[1])
  BY Zenon DEF Keys, DictKeys, All

(* The invariant of a dict from what its parts satisfy. *)
LEMMA InvMk ==
    ASSUME NEW K, NEW e, NEW f, NEW g, NEW h, NEW r, NEW p \in Nat, Good(e, f, g, h, r, K),
           NEW d, d = Mk(e, f, g, h, r, p)
    PROVE  /\ DictInv(d, K) /\ DictKeys(d) = All(g) \cup All(h) /\ d.pause = p
           /\ d.exp[0] = e /\ d.exp[1] = f /\ d.ht[0] = g /\ d.ht[1] = h /\ d.rehashidx = r
<1>1. d.exp[0] = e /\ d.exp[1] = f /\ d.ht[0] = g /\ d.ht[1] = h /\ d.rehashidx = r /\ d.pause = p
  BY MkParts
<1>2. e \in -1..W /\ f \in -1..W /\ Table(g, e) /\ Table(h, f) /\ r \in -1..Size(e)
  BY Zenon DEF Good
<1>3. r \in Int
  BY <1>2, SizeType
<1>4. d \in DictSet
  BY <1>2, <1>3, MkType
<1>5. DictKeys(d) = All(g) \cup All(h)
  BY <1>1, KeysAll, Zenon
<1>6. DictInv(d, K)
  BY <1>1, <1>4, Zenon DEF DictInv
<1> QED
  BY <1>1, <1>5, <1>6

(* What the invariant says of the parts. *)
LEMMA InvParts ==
    ASSUME NEW K, NEW d, DictInv(d, K)
    PROVE  /\ d.exp[0] \in -1..W /\ d.exp[1] \in -1..W /\ d.pause \in Nat
           /\ Good(d.exp[0], d.exp[1], d.ht[0], d.ht[1], d.rehashidx, K)
           /\ d = Mk(d.exp[0], d.exp[1], d.ht[0], d.ht[1], d.rehashidx, d.pause)
           /\ DictKeys(d) = All(d.ht[0]) \cup All(d.ht[1])
<1>1. d \in DictSet /\ Good(d.exp[0], d.exp[1], d.ht[0], d.ht[1], d.rehashidx, K)
  BY Zenon DEF DictInv
<1>2. d = Mk(d.exp[0], d.exp[1], d.ht[0], d.ht[1], d.rehashidx, d.pause)
  BY <1>1, MkEta
<1>3. d.exp[0] \in -1..W /\ d.exp[1] \in -1..W
  BY <1>1, Zenon DEF Good
<1>4. d.pause \in Nat
  BY <1>1, Zenon DEF DictSet
<1>5. DictKeys(d) = All(d.ht[0]) \cup All(d.ht[1])
  BY KeysAll
<1> QED
  BY <1>1, <1>2, <1>3, <1>4, <1>5, Zenon

(* Sets of keys of one dict are finite, and not too large for a table. *)
LEMMA CountOf ==
    ASSUME NEW K, Small(K), NEW S \in SUBSET K
    PROVE  /\ IsFiniteSet(S) /\ Cardinality(S) \in Nat /\ Cardinality(S) + 1 <= Pow(W)
           /\ Cardinality(S) = 0 <=> S = {}
<1>1. IsFiniteSet(K) /\ Cardinality(K) < Pow(W)
  BY DEF Small
<1>2. IsFiniteSet(S) /\ Cardinality(S) <= Cardinality(K)
  BY <1>1, FS_Subset
<1>3. Cardinality(S) \in Nat /\ Cardinality(K) \in Nat
  BY <1>1, <1>2, FS_CardinalityType
<1>4. Cardinality(S) = 0 <=> S = {}
  BY <1>2, FS_EmptySet
<1>5. Pow(W) \in Nat
  BY Constants, PowPositive
<1> QED
  BY <1>1, <1>2, <1>3, <1>4, <1>5

(* The counters of a dict are numbers. *)
LEMMA UsedType ==
    ASSUME NEW K, Small(K), NEW d, DictInv(d, K)
    PROVE  /\ Used(d, 0) \in Nat /\ Used(d, 0) + 1 <= Pow(W)
           /\ Used(d, 0) = 0 <=> All(d.ht[0]) = {}
           /\ DictSize(d) \in Nat
           /\ DictSize(d) = 0 <=> DictKeys(d) = {}
<1>1. All(d.ht[0]) \cup All(d.ht[1]) \subseteq K
  BY Zenon DEF DictInv, Good
<1>2. Used(d, 0) = Cardinality(All(d.ht[0])) /\ Used(d, 1) = Cardinality(All(d.ht[1]))
  BY KeysAll, Zenon DEF Used
<1>3. All(d.ht[0]) \in SUBSET K /\ All(d.ht[1]) \in SUBSET K
  BY <1>1, Zenon
<1>4. /\ Used(d, 0) \in Nat /\ Used(d, 0) + 1 <= Pow(W)
      /\ Used(d, 0) = 0 <=> All(d.ht[0]) = {}
  BY <1>2, <1>3, CountOf
<1>5. Used(d, 1) \in Nat /\ (Used(d, 1) = 0 <=> All(d.ht[1]) = {})
  BY <1>2, <1>3, CountOf
<1>6. DictSize(d) = Used(d, 0) + Used(d, 1)
  BY DEF DictSize
<1>7. DictKeys(d) = {} <=> All(d.ht[0]) = {} /\ All(d.ht[1]) = {}
  BY KeysAll, Zenon
<1>8. DictSize(d) = 0 <=> Used(d, 0) = 0 /\ Used(d, 1) = 0
  BY <1>4, <1>5, <1>6
<1> QED
  BY <1>4, <1>5, <1>6, <1>7, <1>8

-----------------------------------------------------------------------------
(* Resizing *)

(* What resizing a dict does: nothing to one that is rehashing; table 0 of *)
(* another is replaced only when it is empty.                              *)
Resizes(d, c, K) ==
    /\ Same(d, c, K)
    /\ d.rehashidx # -1 => c = d
    /\ d.rehashidx = -1 => /\ c.rehashidx \in {-1, 0}
                           /\ \/ c.ht[0] = d.ht[0] /\ c.exp[0] = d.exp[0]
                              \/ All(d.ht[0]) = {}

(* Not resizing is resizing. *)
LEMMA ResizesSelf ==
    ASSUME NEW K, NEW d, DictInv(d, K)
    PROVE  Resizes(d, d, K)
<1>1. d.rehashidx \in {-1} \/ d.rehashidx # -1
  OBVIOUS
<1> QED
  BY <1>1, Zenon DEF Resizes, Same

(* An empty table 0 may be replaced. *)
LEMMA GoodReplace ==
    ASSUME NEW K, NEW e, NEW f, NEW g, NEW h, Good(e, f, g, h, -1, K), All(g) = {},
           NEW x \in 0..W
    PROVE  Good(x, f, NewTable(x), h, -1, K)
<1>1. x \in -1..W /\ x \in Nat
  BY Constants
<1>2. Table(NewTable(x), x) /\ All(NewTable(x)) = {}
  BY <1>1, TableNew
<1>3. Size(x) \in Nat
  BY <1>1, SizeType
<1>4. \A j \in DOMAIN NewTable(x) : ~(j < -1)
  <2>1. DOMAIN NewTable(x) = 0..(Size(x) - 1)
    BY DEF NewTable
  <2> QED
    BY <1>3, <2>1
<1>5. -1 \in -1..Size(x)
  BY <1>3
<1> QED
  BY <1>1, <1>2, <1>4, <1>5 DEF Good, EmptyBelow

(* A table 1 may be allocated, and rehashing begin at bucket 0. *)
LEMMA GoodStart ==
    ASSUME NEW K, NEW e, NEW f, NEW g, NEW h, Good(e, f, g, h, -1, K), All(g) # {},
           NEW x \in 0..W
    PROVE  Good(e, x, g, NewTable(x), 0, K) /\ All(h) = {}
<1>1. x \in -1..W /\ x \in Nat
  BY Constants
<1>2. Table(NewTable(x), x) /\ All(NewTable(x)) = {}
  BY <1>1, TableNew
<1>3. e \in -1..W /\ f \in -1..W /\ f = -1 /\ Table(g, e) /\ Table(h, f) /\ All(g) \subseteq K
  BY Zenon DEF Good
<1>4. DOMAIN g = 0..(Size(e) - 1) /\ DOMAIN h = 0..(Size(f) - 1)
  BY <1>3, TableKey
<1>5. Size(e) \in Nat /\ Size(f) = 0
  BY <1>3, SizeType
<1>6. DOMAIN h = {} /\ DOMAIN g # {}
  <2>1. DOMAIN g # {}
    BY InAll
  <2> QED
    BY <1>4, <1>5, <2>1
<1>7. All(h) = {}
  BY <1>6, InAll
<1>8. e # -1
  BY <1>3, <1>4, <1>5, <1>6, SizeType
<1>9. \A j \in DOMAIN g : ~(j < 0)
  BY <1>4, <1>5
<1>10. 0 \in -1..Size(e) /\ 0 # -1 /\ x # -1
  BY <1>1, <1>5
<1>11. All(g) \cup {} \subseteq K /\ All(g) \cap {} = {}
  BY <1>3
<1>12. Good(e, x, g, NewTable(x), 0, K)
  BY <1>1, <1>2, <1>3, <1>8, <1>9, <1>10, <1>11 DEF Good, EmptyBelow
<1> QED
  BY <1>7, <1>12

(* _dictResize loses no key. *)
LEMMA ResizeSame ==
    ASSUME NEW K, Small(K), NEW d, DictInv(d, K), d.rehashidx = -1,
           NEW n \in Nat, n <= Pow(W)
    PROVE  Resizes(d, Resize(d, n), K)
<1> DEFINE x == NextExp(n)
           c == Resize(d, n)
           e == d.exp[0]
           f == d.exp[1]
           g == d.ht[0]
           h == d.ht[1]
           p == d.pause
<1>1. x \in 0..W
  BY NextExpType
<1>2. /\ e \in -1..W /\ f \in -1..W /\ p \in Nat /\ Good(e, f, g, h, -1, K)
      /\ d = Mk(e, f, g, h, -1, p) /\ DictKeys(d) = All(g) \cup All(h)
  BY InvParts
<1>3. Used(d, 0) = 0 <=> All(g) = {}
  BY UsedType
<1>4. CASE x = e
  <2>1. c = d
    BY <1>4, Zenon DEF Resize
  <2> QED
    BY <2>1, ResizesSelf
<1>5. CASE x # e /\ All(g) = {}
  <2>1. c = [d EXCEPT !.exp[0] = x, !.ht[0] = NewTable(x)]
    BY <1>3, <1>5, Zenon DEF Resize
  <2>2. c = PutHt(PutExp(d, 0, x), 0, NewTable(x))
    BY <2>1 DEF PutHt, PutExp
  <2> HIDE DEF x, c, e, f, g, h, p
  <2>4. c = Mk(x, f, NewTable(x), h, -1, p)
    BY <1>2, <2>2, MkPut
  <2>5. Good(x, f, NewTable(x), h, -1, K)
    BY <1>1, <1>2, <1>5, GoodReplace
  <2>6. DictInv(c, K) /\ DictKeys(c) = All(NewTable(x)) \cup All(h) /\ c.pause = p /\ c.rehashidx = -1
    BY <1>2, <2>4, <2>5, InvMk
  <2>7. All(NewTable(x)) = {}
    <3>1. x \in -1..W
      BY <1>1
    <3> QED
      BY <3>1, TableNew
  <2>8. DictKeys(c) = DictKeys(d)
    BY <1>2, <1>5, <2>6, <2>7
  <2> QED
    BY <1>5, <2>6, <2>8, Zenon DEF Resizes, Same, c, g, p
<1>6. CASE x # e /\ All(g) # {}
  <2>1. c = [d EXCEPT !.exp[1] = x, !.ht[1] = NewTable(x), !.rehashidx = 0]
    BY <1>3, <1>6, Zenon DEF Resize
  <2>2. c = PutIdx(PutHt(PutExp(d, 1, x), 1, NewTable(x)), 0)
    BY <2>1 DEF PutIdx, PutHt, PutExp
  <2> HIDE DEF x, c, e, f, g, h, p
  <2>5. c = Mk(e, x, g, NewTable(x), 0, p)
    BY <1>2, <2>2, MkPut
  <2>6. Good(e, x, g, NewTable(x), 0, K) /\ All(h) = {}
    BY <1>1, <1>2, <1>6, GoodStart
  <2>7. /\ DictInv(c, K) /\ DictKeys(c) = All(g) \cup All(NewTable(x)) /\ c.pause = p
        /\ c.rehashidx = 0 /\ c.ht[0] = g /\ c.exp[0] = e
    BY <1>2, <2>5, <2>6, InvMk
  <2>8. All(NewTable(x)) = {}
    <3>1. x \in -1..W
      BY <1>1
    <3> QED
      BY <3>1, TableNew
  <2>9. DictKeys(c) = DictKeys(d)
    BY <1>2, <2>6, <2>7, <2>8
  <2> QED
    BY <2>7, <2>9, Zenon DEF Resizes, Same, c, g, p, e
<1> QED
  BY <1>4, <1>5, <1>6

(* Nor do dictExpand and dictShrink, *)
LEMMA ExpandSame ==
    ASSUME NEW K, Small(K), NEW d, DictInv(d, K), NEW n \in Nat, n <= Pow(W)
    PROVE  Resizes(d, DictExpand(d, n), K) /\ Resizes(d, DictShrink(d, n), K)
<1>1. CASE d.rehashidx # -1
  <2>1. DictExpand(d, n) = d /\ DictShrink(d, n) = d
    BY <1>1, Zenon DEF DictExpand, DictShrink, IsRehashing
  <2> QED
    BY <2>1, ResizesSelf
<1>2. CASE d.rehashidx = -1
  <2>1. DictExpand(d, n) \in {d, Resize(d, n)} /\ DictShrink(d, n) \in {d, Resize(d, n)}
    BY Zenon DEF DictExpand, DictShrink
  <2>2. Resizes(d, Resize(d, n), K) /\ Resizes(d, d, K)
    BY <1>2, ResizeSame, ResizesSelf
  <2> QED
    BY <2>1, <2>2, Zenon
<1> QED
  BY <1>1, <1>2

(* nor dictExpandIfNeeded, dictShrinkIfNeeded and kvstoreTryResizeDicts,   *)
(* whatever the policy and the memory.                                     *)
LEMMA ResizeIfNeeded ==
    ASSUME NEW K, Small(K), NEW d, DictInv(d, K), NEW policy, NEW fits
    PROVE  /\ Resizes(d, ExpandIfNeeded(d, policy, fits), K)
           /\ Resizes(d, ShrinkIfNeeded(d, policy, fits), K)
           /\ Resizes(d, TryResize(d, policy, fits), K)
<1>1. Used(d, 0) \in Nat /\ Used(d, 0) + 1 \in Nat /\ Used(d, 0) + 1 <= Pow(W) /\ Used(d, 0) <= Pow(W)
  <2>1. Used(d, 0) \in Nat /\ Used(d, 0) + 1 <= Pow(W) /\ Pow(W) \in Nat
    BY UsedType, PowPositive, Constants
  <2> QED
    BY <2>1
<1>2. Pow(InitialExp) \in Nat /\ Pow(InitialExp) <= Pow(W)
  <2>1. InitialExp \in Nat /\ W \in Nat /\ InitialExp <= W
    BY Constants
  <2> QED
    BY <2>1, PowPositive, PowMonotone
<1>3. ExpandIfNeeded(d, policy, fits)
        \in {d, DictExpand(d, Pow(InitialExp)), DictExpand(d, Used(d, 0) + 1)}
  BY Zenon DEF ExpandIfNeeded, Pow
<1>4. ShrinkIfNeeded(d, policy, fits) \in {d, DictShrink(d, Used(d, 0))}
  BY Zenon DEF ShrinkIfNeeded
<1>5. TryResize(d, policy, fits)
        \in {ShrinkIfNeeded(d, policy, fits), ExpandIfNeeded(d, policy, fits)}
  BY Zenon DEF TryResize
<1>6. Resizes(d, d, K)
  BY ResizesSelf
<1>7. Resizes(d, DictExpand(d, Pow(InitialExp)), K)
  BY <1>2, ExpandSame
<1>8. Resizes(d, DictExpand(d, Used(d, 0) + 1), K)
  BY <1>1, ExpandSame
<1>9. Resizes(d, DictShrink(d, Used(d, 0)), K)
  BY <1>1, ExpandSame
<1>10. Resizes(d, ExpandIfNeeded(d, policy, fits), K)
  BY <1>3, <1>6, <1>7, <1>8, Zenon
<1>11. Resizes(d, ShrinkIfNeeded(d, policy, fits), K)
  BY <1>4, <1>6, <1>9, Zenon
<1> QED
  BY <1>5, <1>10, <1>11, Zenon

-----------------------------------------------------------------------------
(* Moving a bucket *)

(* The keys of a bucket are moved to the buckets of their hashes, in a     *)
(* larger and in a smaller table.                                          *)
LEMMA MovePlace ==
    ASSUME NEW K \in SUBSET Key, NEW e, NEW f, NEW g, NEW h, NEW r, Good(e, f, g, h, r, K), r # -1,
           NEW i \in DOMAIN g, NEW k \in g[i]
    PROVE  (IF f > e THEN Hash(k) % Size(f) ELSE i % Size(f)) = Bucket(Hash(k), f)
<1>1. e \in -1..W /\ f \in -1..W /\ Table(g, e) /\ e # -1 /\ f # -1
  BY Zenon DEF Good
<1>2. k \in Key
  BY <1>1, TableKey
<1>3. Hash(k) \in Nat
  BY <1>2, Constants
<1>4. Bucket(Hash(k), e) = i
  BY <1>1, Zenon DEF Table, Placed
<1>5. CASE f > e
  BY <1>1, <1>3, <1>5, BucketType
<1>6. CASE ~(f > e)
  <2>1. f <= e
    BY <1>1, <1>6
  <2>2. Bucket(Hash(k), e) % Size(f) = Bucket(Hash(k), f)
    BY <1>1, <1>3, <2>1, BucketNest
  <2> QED
    BY <1>4, <1>6, <2>2, Zenon
<1> QED
  BY <1>5, <1>6

(* Bucket i of a dict that is rehashing can be moved, and rehashidx be s   *)
(* then.                                                                   *)
MayMove(K, e, f, g, h, r, i, s) ==
    /\ K \in SUBSET Key /\ Good(e, f, g, h, r, K) /\ r # -1 /\ i \in DOMAIN g
    /\ s \in Nat /\ s <= Size(e) /\ EmptyBelow(Clear(g, i), s)

(* After a bucket is moved every key is in one table, in its bucket, and   *)
(* the buckets passed are empty.                                           *)
LEMMA GoodMove ==
    ASSUME NEW K, NEW e, NEW f, NEW g, NEW h, NEW r, NEW i, NEW s,
           MayMove(K, e, f, g, h, r, i, s)
    PROVE  /\ Good(e, f, Clear(g, i), Merge(h, At(g, i), f), s, K)
           /\ All(Clear(g, i)) \cup All(Merge(h, At(g, i), f)) = All(g) \cup All(h)
<1> DEFINE a == Clear(g, i)
           b == Merge(h, At(g, i), f)
           M == At(g, i)
<1>0. /\ K \in SUBSET Key /\ Good(e, f, g, h, r, K) /\ r # -1 /\ i \in DOMAIN g
      /\ s \in Nat /\ s <= Size(e) /\ EmptyBelow(a, s)
  BY DEF MayMove
<1>m. M = g[i]
  BY DEF At
<1> HIDE DEF M
<1>1. /\ e \in -1..W /\ f \in -1..W /\ Table(g, e) /\ Table(h, f) /\ e # -1 /\ f # -1
      /\ All(g) \cup All(h) \subseteq K /\ All(g) \cap All(h) = {}
  BY <1>0, Zenon DEF Good
<1>2. M \in SUBSET Key /\ M \subseteq All(g)
  <2>1. M \in SUBSET Key
    BY <1>0, <1>1, <1>m, TableKey
  <2> QED
    BY <1>0, <2>1, <1>m, InAll
<1>3. Table(a, e) /\ All(a) = All(g) \ M
  BY <1>0, <1>1, <1>m, TableClear
<1>4. Table(b, f) /\ All(b) = All(h) \cup M
  <2>1. b = Merge(h, M, f)
    BY DEF M
  <2> HIDE DEF b
  <2> QED
    BY <1>1, <1>2, <2>1, TableMerge
<1>5. All(a) \cup All(b) = All(g) \cup All(h)
  BY <1>2, <1>3, <1>4
<1>6. All(a) \cap All(b) = {}
  BY <1>1, <1>2, <1>3, <1>4
<1>7. DOMAIN a = DOMAIN g
  BY Zenon DEF Clear
<1>8. Size(e) \in Nat /\ s \in -1..Size(e) /\ s # -1
  <2>1. Size(e) \in Nat
    BY <1>1, SizeType
  <2> QED
    BY <1>0, <2>1
<1>9. All(a) \cup All(b) \subseteq K
  BY <1>1, <1>5
<1> HIDE DEF a, b
<1>10. Good(e, f, a, b, s, K)
  BY <1>1, <1>3, <1>4, <1>6, <1>7, <1>8, <1>9, <1>0, Zenon DEF Good
<1> QED
  BY <1>5, <1>10 DEF a, b

(* rehashEntriesInBucketAtIndex empties a bucket of table 0 and merges its *)
(* keys into table 1.                                                      *)
LEMMA MoveShape ==
    ASSUME NEW K \in SUBSET Key, NEW d, DictInv(d, K), d.rehashidx # -1, NEW i \in DOMAIN d.ht[0]
    PROVE  MoveBucket(d, i) = Mk(d.exp[0], d.exp[1], Clear(d.ht[0], i),
                                 Merge(d.ht[1], At(d.ht[0], i), d.exp[1]), d.rehashidx, d.pause)
<1> DEFINE e == d.exp[0]
           f == d.exp[1]
           g == d.ht[0]
           h == d.ht[1]
           r == d.rehashidx
           p == d.pause
           to(k) == IF f > e THEN Hash(k) % Size(f) ELSE i % Size(f)
           a == Clear(g, i)
           b == [j \in DOMAIN h |-> h[j] \cup {k \in g[i] : to(k) = j}]
           bb == Merge(h, At(g, i), f)
<1>1. Good(e, f, g, h, r, K) /\ d = Mk(e, f, g, h, r, p)
  BY InvParts
<1>2. MoveBucket(d, i) = [d EXCEPT !.ht[0][i] = {}, !.ht[1] = [j \in DOMAIN @ |-> @[j] \cup {k \in d.ht[0][i] : to(k) = j}]]
  BY Zenon DEF MoveBucket
<1>3. MoveBucket(d, i) = PutHt(PutHt(d, 0, a), 1, b)
  BY <1>2 DEF PutHt, Clear
<1>4. b = bb
  <2>1. \A k \in g[i] : to(k) = Bucket(Hash(k), f)
    <3> HIDE DEF e, f, g, h, r, p
    <3> QED
      BY <1>1, MovePlace DEF g, r
  <2>2. \A j : {k \in g[i] : to(k) = j} = {k \in g[i] : Bucket(Hash(k), f) = j}
    BY <2>1, Zenon
  <2> QED
    BY <2>2, Zenon DEF Merge, At
<1>5. MoveBucket(d, i) = Mk(e, f, a, bb, r, p)
  <2> HIDE DEF e, f, g, h, r, p, a, b, bb
  <2> QED
    BY <1>1, <1>3, <1>4, MkPut
<1> QED
  BY <1>5, Zenon

(* What rehashing a dict does: the keys stay, and unless it is completed    *)
(* the tables keep their sizes.                                             *)
Moves(d, c, K) == Same(d, c, K) /\ (c.rehashidx # -1 => c.exp[0] = d.exp[0])

(* Not rehashing is rehashing. *)
LEMMA MovesSelf ==
    ASSUME NEW K, NEW d, DictInv(d, K)
    PROVE  Moves(d, d, K)
  BY Zenon DEF Moves, Same

(* Rehashing goes on. *)
LEMMA MovesTwice ==
    ASSUME NEW K, NEW a, NEW b, NEW c, Moves(a, b, K), Moves(b, c, K), b.rehashidx # -1
    PROVE  Moves(a, c, K)
  BY Zenon DEF Moves, Same

(* The dict d after bucket i is moved and rehashidx set to s. *)
Moved(d, i, s) == Mk(d.exp[0], d.exp[1], Clear(d.ht[0], i),
                     Merge(d.ht[1], At(d.ht[0], i), d.exp[1]), s, d.pause)

(* Bucket i can be moved. *)
Ready(K, d, i, s) ==
    /\ K \in SUBSET Key /\ DictInv(d, K) /\ d.rehashidx # -1 /\ i \in DOMAIN d.ht[0]
    /\ s \in Nat /\ s <= Size(d.exp[0]) /\ EmptyBelow(Clear(d.ht[0], i), s)

(* A bucket moved, the dict keeps its keys. *)
LEMMA MoveTo ==
    ASSUME NEW K, NEW d, NEW i, NEW s, Ready(K, d, i, s)
    PROVE  Moves(d, Moved(d, i, s), K) /\ Moved(d, i, s).rehashidx = s
<1> DEFINE c == Moved(d, i, s)
<1>0. /\ K \in SUBSET Key /\ DictInv(d, K) /\ d.rehashidx # -1 /\ i \in DOMAIN d.ht[0]
      /\ s \in Nat /\ s <= Size(d.exp[0]) /\ EmptyBelow(Clear(d.ht[0], i), s)
  BY DEF Ready
<1> DEFINE e == d.exp[0]
           f == d.exp[1]
           g == d.ht[0]
           h == d.ht[1]
           r == d.rehashidx
           p == d.pause
           a == Clear(g, i)
           b == Merge(h, At(g, i), f)
<1>1. Good(e, f, g, h, r, K) /\ p \in Nat /\ DictKeys(d) = All(g) \cup All(h) /\ e \in -1..W
  BY <1>0, InvParts
<1>4. i \in DOMAIN g /\ EmptyBelow(a, s) /\ r # -1 /\ s <= Size(e) /\ c = Mk(e, f, a, b, s, p)
  BY <1>0 DEF Moved
<1> HIDE DEF c, e, f, g, h, r, p
<1>3. MayMove(K, e, f, g, h, r, i, s)
  BY <1>0, <1>1, <1>4 DEF MayMove
<1>5. Good(e, f, a, b, s, K) /\ All(a) \cup All(b) = All(g) \cup All(h)
  BY <1>3, GoodMove
<1> HIDE DEF a, b
<1>6. /\ DictInv(c, K) /\ DictKeys(c) = All(a) \cup All(b) /\ c.pause = p
      /\ c.rehashidx = s /\ c.exp[0] = e
  BY <1>0, <1>1, <1>4, <1>5, InvMk
<1>7. DictKeys(c) = DictKeys(d)
  BY <1>1, <1>5, <1>6, Zenon
<1> QED
  BY <1>6, <1>7, Zenon DEF Moves, Same, p, e, c

(* rehashidx, and the empty buckets before it: the assertion of            *)
(* dictRehash.                                                             *)
LEMMA IdxType ==
    ASSUME NEW K, NEW d, DictInv(d, K)
    PROVE  /\ d.rehashidx \in Int /\ Size(d.exp[0]) \in Nat
           /\ d.rehashidx >= -1 /\ d.rehashidx <= Size(d.exp[0])
           /\ d.rehashidx # -1 => d.rehashidx \in Nat
           /\ DOMAIN d.ht[0] = 0..(Size(d.exp[0]) - 1)
           /\ \A j \in DOMAIN d.ht[0] : j < d.rehashidx => d.ht[0][j] = {}
<1> DEFINE e == d.exp[0]
           g == d.ht[0]
           r == d.rehashidx
<1>1. Good(e, d.exp[1], g, d.ht[1], r, K)
  BY InvParts
<1>2. e \in -1..W /\ Table(g, e) /\ r \in -1..Size(e) /\ \A j \in DOMAIN g : j < r => g[j] = {}
  BY <1>1, Zenon DEF Good, EmptyBelow
<1> HIDE DEF e, g, r
<1>3. Size(e) \in Nat /\ DOMAIN g = 0..(Size(e) - 1)
  BY <1>2, SizeType, TableKey
<1>4. r \in Int /\ r >= -1 /\ r <= Size(e) /\ (r # -1 => r \in Nat)
  BY <1>2, <1>3
<1> QED
  BY <1>2, <1>3, <1>4 DEF e, g, r

(* The empty buckets before bucket s, if the one before it has been moved. *)
LEMMA ClearBelow ==
    ASSUME NEW K, NEW d, DictInv(d, K), NEW i \in DOMAIN d.ht[0], NEW s \in Nat,
           \A j \in DOMAIN d.ht[0] : j < s => j = i \/ d.ht[0][j] = {}
    PROVE  EmptyBelow(Clear(d.ht[0], i), s)
<1> DEFINE g == d.ht[0]
           e == d.exp[0]
<1>1. Table(g, e) /\ e \in -1..W /\ i \in DOMAIN g
  BY Zenon DEF DictInv, Good
<1>2. DOMAIN Clear(g, i) = DOMAIN g
  BY Zenon DEF Clear
<1>3. \A j \in DOMAIN g : j < s => j = i \/ g[j] = {}
  OBVIOUS
<1> HIDE DEF g, e
<1>4. Clear(g, i)[i] = {} /\ \A j \in DOMAIN g : Clear(g, i)[j] \in SUBSET g[j]
  BY <1>1, TableClear
<1>5. EmptyBelow(Clear(g, i), s)
  BY <1>2, <1>3, <1>4 DEF EmptyBelow
<1> QED
  BY <1>5 DEF g

(* Any bucket may be moved, rehashidx staying as it is                     *)
(* (_dictBucketRehash).                                                    *)
LEMMA MoveSame ==
    ASSUME NEW K \in SUBSET Key, NEW d, DictInv(d, K), d.rehashidx # -1, NEW i \in DOMAIN d.ht[0]
    PROVE  Moves(d, MoveBucket(d, i), K) /\ MoveBucket(d, i).rehashidx = d.rehashidx
<1> DEFINE s == d.rehashidx
<1>1. MoveBucket(d, i) = Moved(d, i, s)
  BY MoveShape, Zenon DEF Moved
<1>2. s \in Nat /\ s <= Size(d.exp[0]) /\ \A j \in DOMAIN d.ht[0] : j < s => d.ht[0][j] = {}
  BY IdxType
<1>3. EmptyBelow(Clear(d.ht[0], i), s)
  <2> HIDE DEF s
  <2> QED
    BY <1>2, ClearBelow
<1>4. Ready(K, d, i, s)
  BY <1>2, <1>3, Zenon DEF Ready
<1> HIDE DEF s
<1>5. Moves(d, Moved(d, i, s), K) /\ Moved(d, i, s).rehashidx = s
  BY <1>4, MoveTo
<1> QED
  BY <1>1, <1>5, Zenon DEF s

(* The next bucket that is not empty may be moved, and rehashidx follow it *)
(* (dictRehash).                                                           *)
LEMMA MoveNext ==
    ASSUME NEW K \in SUBSET Key, NEW d, DictInv(d, K), d.rehashidx # -1, NEW i \in DOMAIN d.ht[0],
           \A j \in DOMAIN d.ht[0] : j < i => d.ht[0][j] = {}
    PROVE  LET c == [MoveBucket(d, i) EXCEPT !.rehashidx = i + 1] IN
           Moves(d, c, K) /\ c.rehashidx = i + 1
<1> DEFINE c == [MoveBucket(d, i) EXCEPT !.rehashidx = i + 1]
           s == i + 1
<1>1. c = Moved(d, i, s)
  <2>1. c = PutIdx(MoveBucket(d, i), s)
    BY Zenon DEF PutIdx
  <2> HIDE DEF c, s
  <2> QED
    BY <2>1, MoveShape, MkPut DEF Moved
<1>2. i \in Nat /\ s \in Nat /\ s <= Size(d.exp[0])
  BY IdxType
<1>3. \A j \in DOMAIN d.ht[0] : j < s => j = i \/ d.ht[0][j] = {}
  BY IdxType
<1>5. EmptyBelow(Clear(d.ht[0], i), s)
  <2> HIDE DEF s
  <2> QED
    BY <1>2, <1>3, ClearBelow
<1> HIDE DEF c, s
<1>4. Ready(K, d, i, s)
  BY <1>2, <1>5, Zenon DEF Ready
<1>6. Moves(d, Moved(d, i, s), K) /\ Moved(d, i, s).rehashidx = s
  BY <1>4, MoveTo
<1> QED
  BY <1>1, <1>6, Zenon DEF c, s

(* With table 0 empty, table 1 may become table 0. *)
LEMMA GoodSwap ==
    ASSUME NEW K, NEW e, NEW f, NEW g, NEW h, NEW r, Good(e, f, g, h, r, K), r # -1, All(g) = {}
    PROVE  Good(f, -1, h, NewTable(-1), -1, K) /\ All(NewTable(-1)) = {}
<1>1. f \in -1..W /\ Table(h, f) /\ All(h) \subseteq K /\ -1 \in -1..W
  BY Constants DEF Good
<1>2. Table(NewTable(-1), -1) /\ All(NewTable(-1)) = {}
  BY <1>1, TableNew
<1>3. DOMAIN h = 0..(Size(f) - 1) /\ Size(f) \in Nat
  BY <1>1, TableKey, SizeType
<1>4. -1 \in -1..Size(f) /\ \A j \in DOMAIN h : ~(j < -1)
  BY <1>3
<1> QED
  BY <1>1, <1>2, <1>4 DEF Good, EmptyBelow

(* A dict with other exponents. *)
PutExps(d, x) == [d EXCEPT !.exp = x]
PutHts(d, x) == [d EXCEPT !.ht = x]

(* Replacing both tables of a dict. *)
LEMMA MkPutBoth ==
    ASSUME NEW e, NEW f, NEW g, NEW h, NEW r, NEW p, NEW x, NEW y
    PROVE  /\ PutExps(Mk(e, f, g, h, r, p), Pair(x, y)) = Mk(x, y, g, h, r, p)
           /\ PutHts(Mk(e, f, g, h, r, p), Pair(x, y)) = Mk(e, f, x, y, r, p)
<1>1. PutExps(Mk(e, f, g, h, r, p), Pair(x, y)) = Mk(x, y, g, h, r, p)
  BY DEF PutExps, Mk
<1>2. PutHts(Mk(e, f, g, h, r, p), Pair(x, y)) = Mk(e, f, x, y, r, p)
  BY DEF PutHts, Mk
<1> QED
  BY <1>1, <1>2

(* dictCheckRehashingCompleted loses no key. *)
LEMMA CompletedSame ==
    ASSUME NEW K, Small(K), NEW d, DictInv(d, K), d.rehashidx # -1
    PROVE  Moves(d, CheckCompleted(d), K)
<1> DEFINE c == CheckCompleted(d)
           e == d.exp[0]
           f == d.exp[1]
           g == d.ht[0]
           h == d.ht[1]
           r == d.rehashidx
           p == d.pause
<1>1. Good(e, f, g, h, r, K) /\ p \in Nat /\ DictKeys(d) = All(g) \cup All(h)
      /\ d = Mk(e, f, g, h, r, p)
  BY InvParts
<1>2. Used(d, 0) = 0 <=> All(g) = {}
  BY UsedType
<1>3. CASE All(g) # {}
  <2>1. c = d
    BY <1>2, <1>3, Zenon DEF CheckCompleted
  <2> QED
    BY <2>1, MovesSelf
<1>4. CASE All(g) = {}
  <2>1. c = [d EXCEPT !.exp = Pair(@[1], -1), !.ht = Pair(@[1], NewTable(-1)), !.rehashidx = -1]
    BY <1>2, <1>4, Zenon DEF CheckCompleted
  <2>2. c = PutIdx(PutHts(PutExps(d, Pair(f, -1)), Pair(h, NewTable(-1))), -1)
    BY <2>1 DEF PutIdx, PutHts, PutExps
  <2> HIDE DEF c, e, f, g, h, r, p
  <2>3. c = Mk(f, -1, h, NewTable(-1), -1, p)
    BY <1>1, <2>2, MkPut, MkPutBoth
  <2>4. Good(f, -1, h, NewTable(-1), -1, K) /\ All(NewTable(-1)) = {}
    BY <1>1, <1>4, GoodSwap DEF r
  <2>5. DictInv(c, K) /\ DictKeys(c) = All(h) \cup All(NewTable(-1)) /\ c.pause = p /\ c.rehashidx = -1
    BY <1>1, <2>3, <2>4, InvMk
  <2>6. DictKeys(c) = DictKeys(d)
    BY <1>1, <1>4, <2>4, <2>5
  <2> QED
    BY <2>5, <2>6, Zenon DEF Moves, Same, c, p
<1> QED
  BY <1>3, <1>4

-----------------------------------------------------------------------------
(* dictRehash: a loop of such moves *)

(* f begins with b and goes on by the steps g, up to n. *)
Trail(f, b, g, n) == f = [j \in 0..n |-> IF j = 0 THEN b ELSE g[j][f[j - 1]]]

(* A function defined by steps exists, if every step stays in a set X. *)
LEMMA TrailExists ==
    ASSUME NEW X, NEW n \in Nat, NEW b \in X, NEW g \in [1..n -> [X -> X]]
    PROVE  \E f \in [0..n -> X] : Trail(f, b, g, n)
<1> DEFINE S == {m \in Nat : m <= n => \E f \in [0..m -> X] : Trail(f, b, g, m)}
<1>1. 0 \in S
  <2> DEFINE f == [j \in 0..0 |-> b]
  <2>1. f \in [0..0 -> X]
    OBVIOUS
  <2>2. Trail(f, b, g, 0)
    BY DEF Trail
  <2> QED
    BY <2>1, <2>2
<1>2. ASSUME NEW m \in S PROVE m + 1 \in S
  <2> SUFFICES ASSUME m + 1 <= n PROVE \E f \in [0..(m + 1) -> X] : Trail(f, b, g, m + 1)
    OBVIOUS
  <2>1. PICK f \in [0..m -> X] : Trail(f, b, g, m)
    OBVIOUS
  <2> DEFINE y == g[m + 1][f[m]]
             h == [j \in 0..(m + 1) |-> IF j = m + 1 THEN y ELSE f[j]]
             i == [j \in 0..(m + 1) |-> IF j = 0 THEN b ELSE g[j][h[j - 1]]]
  <2>2. y \in X
    <3>1. m + 1 \in 1..n /\ m \in 0..m
      OBVIOUS
    <3>2. g[m + 1] \in [X -> X] /\ f[m] \in X
      BY <3>1
    <3> QED
      BY <3>2
  <2>3. h \in [0..(m + 1) -> X]
    <3> HIDE DEF y
    <3>1. \A j \in 0..(m + 1) : j # m + 1 => j \in 0..m
      OBVIOUS
    <3> QED
      BY <2>2, <3>1
  <2>4. ASSUME NEW j \in 0..(m + 1) PROVE h[j] = i[j]
    <3>1. CASE j = 0
      <4>1. f[0] = b
        BY <2>1 DEF Trail
      <4> QED
        BY <3>1, <4>1
    <3>2. CASE j = m + 1
      <4>1. j - 1 = m /\ j # 0 /\ m \in 0..(m + 1) /\ m # m + 1
        BY <3>2
      <4>2. h[m] = f[m]
        BY <4>1
      <4> QED
        BY <3>2, <4>1, <4>2
    <3>3. CASE j # 0 /\ j # m + 1
      <4>1. j \in 0..m /\ j - 1 \in 0..m /\ j - 1 \in 0..(m + 1) /\ j - 1 # m + 1
        BY <3>3
      <4>2. f[j] = g[j][f[j - 1]]
        BY <2>1, <3>3, <4>1 DEF Trail
      <4>3. h[j - 1] = f[j - 1] /\ h[j] = f[j]
        BY <3>3, <4>1
      <4> QED
        BY <3>3, <4>2, <4>3
    <3> QED
      BY <3>1, <3>2, <3>3
  <2>5. h = i
    <3> HIDE DEF y
    <3> QED
      BY <2>4
  <2>6. Trail(h, b, g, m + 1)
    BY <2>5, Zenon DEF Trail
  <2> HIDE DEF h, i, y
  <2> QED
    BY <2>3, <2>6
<1>3. S = Nat
  <2> HIDE DEF S
  <2>1. S \in SUBSET Nat
    BY DEF S
  <2> QED
    BY <1>1, <1>2, <2>1, SetInduction
<1>4. n \in S /\ n <= n
  <2> HIDE DEF S
  <2> QED
    BY <1>3
<1> QED
  BY <1>4

(* What holds at first and is kept by every step holds in the end. *)
LEMMA StaysIn ==
    ASSUME NEW X, NEW n \in Nat, NEW f, f[0] \in X, \A j \in 1..n : f[j - 1] \in X => f[j] \in X
    PROVE  \A j \in 0..n : f[j] \in X
<1> DEFINE S == {m \in Nat : m <= n => f[m] \in X}
<1>1. 0 \in S
  OBVIOUS
<1>2. ASSUME NEW m \in S PROVE m + 1 \in S
  <2> SUFFICES ASSUME m + 1 <= n PROVE f[m + 1] \in X
    OBVIOUS
  <2>1. m + 1 \in 1..n /\ (m + 1) - 1 = m /\ f[m] \in X
    OBVIOUS
  <2> QED
    BY <2>1
<1>3. S = Nat
  <2> HIDE DEF S
  <2>1. S \in SUBSET Nat
    BY DEF S
  <2> QED
    BY <1>1, <1>2, <2>1, SetInduction
<1> QED
  BY <1>3

(* The stages of a rehashing of d. *)
Runs(d, K) == {r \in [dict : DictSet, visits : Nat, stop : BOOLEAN] :
                  Moves(d, r.dict, K) /\ r.dict.rehashidx # -1}

(* Empty buckets may be passed. *)
LEMMA GoodSkip ==
    ASSUME NEW K, NEW q, DictInv(q, K), q.rehashidx # -1, NEW s \in Nat, s <= Size(q.exp[0]),
           EmptyBelow(q.ht[0], s)
    PROVE  Moves(q, PutIdx(q, s), K) /\ PutIdx(q, s).rehashidx = s
<1> DEFINE e == q.exp[0]
           f == q.exp[1]
           g == q.ht[0]
           h == q.ht[1]
           r == q.rehashidx
           p == q.pause
           c == PutIdx(q, s)
<1>1. Good(e, f, g, h, r, K) /\ p \in Nat /\ DictKeys(q) = All(g) \cup All(h)
      /\ q = Mk(e, f, g, h, r, p) /\ e \in -1..W
  BY InvParts
<1>2. r # -1 /\ s <= Size(e) /\ EmptyBelow(g, s) /\ c = PutIdx(q, s)
  OBVIOUS
<1> HIDE DEF e, f, g, h, r, p, c
<1>3. Size(e) \in Nat
  BY <1>1, SizeType
<1>4. s \in -1..Size(e) /\ s # -1
  BY <1>2, <1>3
<1>5. Good(e, f, g, h, s, K)
  BY <1>1, <1>2, <1>4, Zenon DEF Good
<1>6. c = Mk(e, f, g, h, s, p)
  BY <1>1, <1>2, MkPut
<1>7. DictInv(c, K) /\ DictKeys(c) = All(g) \cup All(h) /\ c.pause = p /\ c.rehashidx = s /\ c.exp[0] = e
  BY <1>1, <1>5, <1>6, InvMk
<1> QED
  BY <1>1, <1>7, Zenon DEF Moves, Same, c, p, e

(* While table 0 has keys there is a bucket to move at or after rehashidx. *)
LEMMA NextBucket ==
    ASSUME NEW K, Small(K), NEW q, DictInv(q, K), q.rehashidx # -1, All(q.ht[0]) # {}
    PROVE  LET i == Min({j \in DOMAIN q.ht[0] : j >= q.rehashidx /\ q.ht[0][j] # {}}) IN
           /\ i \in DOMAIN q.ht[0] /\ i \in Nat /\ i >= q.rehashidx
           /\ \A j \in DOMAIN q.ht[0] : j < i => q.ht[0][j] = {}
<1> DEFINE g == q.ht[0]
           T == {j \in DOMAIN g : j >= q.rehashidx /\ g[j] # {}}
           i == Min(T)
<1>1. /\ q.rehashidx \in Nat /\ Size(q.exp[0]) \in Nat /\ DOMAIN g = 0..(Size(q.exp[0]) - 1)
      /\ \A j \in DOMAIN g : j < q.rehashidx => g[j] = {}
  BY IdxType
<1>2. PICK k : k \in All(g)
  OBVIOUS
<1>3. PICK j \in DOMAIN g : k \in g[j]
  BY <1>2, InAll
<1>4. j \in T
  BY <1>1, <1>3
<1>5. T \in SUBSET Nat
  BY <1>1
<1>6. i \in T /\ \A y \in T : i <= y
  <2> HIDE DEF T
  <2> QED
    BY <1>4, <1>5, MinType
<1>7. ASSUME NEW y \in DOMAIN g, y < i PROVE g[y] = {}
  <2>1. y \in Nat /\ i \in Nat
    BY <1>1, <1>5, <1>6
  <2>2. y \notin T
    BY <1>6, <1>7, <2>1
  <2> QED
    BY <1>1, <2>1, <2>2
<1> QED
  BY <1>1, <1>5, <1>6, <1>7

(* One turn of the loop of dictRehash. *)
LEMMA OneBucketStays ==
    ASSUME NEW K, Small(K), NEW d, NEW r \in Runs(d, K)
    PROVE  OneBucket(r) \in Runs(d, K)
<1> DEFINE q == r.dict
           c == OneBucket(r)
           i == Min({j \in DOMAIN q.ht[0] : j >= q.rehashidx /\ q.ht[0][j] # {}})
           empty == i - q.rehashidx
<1>1. /\ r \in [dict : DictSet, visits : Nat, stop : BOOLEAN] /\ q \in DictSet /\ r.visits \in Nat
      /\ Moves(d, q, K) /\ q.rehashidx # -1
  BY DEF Runs
<1>2. DictInv(q, K) /\ K \in SUBSET Key
  BY <1>1 DEF Moves, Same, Small
<1>3. Used(q, 0) = 0 <=> All(q.ht[0]) = {}
  BY <1>2, UsedType
<1>4. CASE r.stop \/ Used(q, 0) = 0
  <2>1. c = r
    BY <1>4, Zenon DEF OneBucket
  <2> QED
    BY <2>1
<1>5. CASE ~(r.stop \/ Used(q, 0) = 0)
  <2>1. /\ i \in DOMAIN q.ht[0] /\ i \in Nat /\ i >= q.rehashidx
        /\ \A j \in DOMAIN q.ht[0] : j < i => q.ht[0][j] = {}
    BY <1>1, <1>2, <1>3, <1>5, NextBucket
  <2>2. /\ q.rehashidx \in Nat /\ Size(q.exp[0]) \in Nat /\ DOMAIN q.ht[0] = 0..(Size(q.exp[0]) - 1)
    BY <1>1, <1>2, IdxType
  <2>3. empty \in Nat
    <3> HIDE DEF i
    <3> QED
      BY <2>1, <2>2
  <2>4. CASE empty >= r.visits
    <3> DEFINE s == q.rehashidx + r.visits
    <3>1. c = [r EXCEPT !.dict.rehashidx = @ + r.visits, !.stop = TRUE]
      BY <1>5, <2>4, Zenon DEF OneBucket
    <3>2. c = [dict |-> PutIdx(q, s), visits |-> r.visits, stop |-> TRUE]
      <4>1. r = [dict |-> q, visits |-> r.visits, stop |-> r.stop]
        BY <1>1
      <4> QED
        BY <1>1, <3>1, <4>1 DEF PutIdx
    <3> HIDE DEF i
    <3>3. s \in Nat /\ s <= i /\ s <= Size(q.exp[0])
      BY <1>1, <2>1, <2>2, <2>4
    <3>4. EmptyBelow(q.ht[0], s)
      BY <2>1, <2>2, <3>3 DEF EmptyBelow
    <3> HIDE DEF s, q
    <3>5. Moves(q, PutIdx(q, s), K) /\ PutIdx(q, s).rehashidx = s
      BY <1>1, <1>2, <3>3, <3>4, GoodSkip
    <3>6. Moves(d, PutIdx(q, s), K)
      BY <1>1, <3>5, MovesTwice
    <3>7. PutIdx(q, s) \in DictSet /\ PutIdx(q, s).rehashidx # -1
      <4>1. PutIdx(q, s) \in DictSet
        BY <3>5, Zenon DEF Moves, Same, DictInv
      <4> QED
        BY <4>1, <3>3, <3>5
    <3>8. /\ c \in [dict : DictSet, visits : Nat, stop : BOOLEAN]
          /\ c.dict = PutIdx(q, s)
      BY <1>1, <3>2, <3>7
    <3> QED
      BY <3>6, <3>7, <3>8, Zenon DEF Runs
  <2>5. CASE ~(empty >= r.visits)
    <3> DEFINE m == [MoveBucket(q, i) EXCEPT !.rehashidx = i + 1]
    <3>1. c = [dict |-> m, visits |-> r.visits - empty, stop |-> FALSE]
      BY <1>5, <2>5, Zenon DEF OneBucket
    <3>2. Moves(q, m, K) /\ m.rehashidx = i + 1
      <4> HIDE DEF i, q
      <4> QED
        BY <1>1, <1>2, <2>1, MoveNext
    <3>3. r.visits - empty \in Nat /\ i + 1 # -1
      <4> HIDE DEF i, q
      <4> QED
        BY <1>1, <2>1, <2>3, <2>5
    <3> HIDE DEF m, i, q
    <3>4. Moves(d, m, K)
      BY <1>1, <3>2, MovesTwice
    <3>5. m \in DictSet /\ m.rehashidx # -1
      <4>1. m \in DictSet
        BY <3>2, Zenon DEF Moves, Same, DictInv
      <4> QED
        BY <4>1, <3>2, <3>3
    <3>6. c \in [dict : DictSet, visits : Nat, stop : BOOLEAN] /\ c.dict = m
      <4> DEFINE v == r.visits - empty
      <4>1. v \in Nat /\ c = [dict |-> m, visits |-> v, stop |-> FALSE]
        BY <3>1, <3>3
      <4> HIDE DEF v, c
      <4> QED
        BY <3>5, <4>1
    <3> QED
      BY <3>4, <3>5, <3>6, Zenon DEF Runs
  <2> QED
    BY <2>4, <2>5
<1> QED
  BY <1>4, <1>5

(* The stages of dictRehash. *)
Start(d, n) == [dict |-> d, visits |-> n * EmptyVisits, stop |-> FALSE]
Run(d, n) == CHOOSE run : run = [j \in 0..n |-> IF j = 0 THEN Start(d, n) ELSE OneBucket(run[j - 1])]

(* The stages of dictRehash are defined one by one. *)
LEMMA RunDef ==
    ASSUME NEW K, Small(K), NEW d, DictInv(d, K), d.rehashidx # -1, NEW n \in Nat
    PROVE  /\ Run(d, n) = [j \in 0..n |-> IF j = 0 THEN Start(d, n) ELSE OneBucket(Run(d, n)[j - 1])]
           /\ Start(d, n) \in Runs(d, K)
<1> DEFINE X == Runs(d, K)
           b == Start(d, n)
           g == [j \in 1..n |-> [r \in X |-> OneBucket(r)]]
<1>1. b \in X
  <2>1. d \in DictSet /\ Moves(d, d, K)
    BY MovesSelf DEF DictInv
  <2>2. n * EmptyVisits \in Nat
    BY Constants
  <2>3. b \in [dict : DictSet, visits : Nat, stop : BOOLEAN] /\ b.dict = d
    BY <2>1, <2>2 DEF Start
  <2> QED
    BY <2>1, <2>3, Zenon DEF Runs
<1>2. g \in [1..n -> [X -> X]]
  BY OneBucketStays, Zenon
<1>3. PICK f \in [0..n -> X] : Trail(f, b, g, n)
  <2> HIDE DEF X, b, g
  <2> QED
    BY <1>1, <1>2, TrailExists
<1>4. f = [j \in 0..n |-> IF j = 0 THEN b ELSE OneBucket(f[j - 1])]
  <2>1. ASSUME NEW j \in 0..n PROVE (IF j = 0 THEN b ELSE g[j][f[j - 1]]) = (IF j = 0 THEN b ELSE OneBucket(f[j - 1]))
    <3>1. CASE j = 0
      BY <3>1, Zenon
    <3>2. CASE j # 0
      <4>1. j \in 1..n /\ j - 1 \in 0..n
        BY <3>2
      <4>2. f[j - 1] \in X
        <5> HIDE DEF X
        <5> QED
          BY <4>1
      <4>3. g[j][f[j - 1]] = OneBucket(f[j - 1])
        <5> HIDE DEF X
        <5> QED
          BY <4>1, <4>2
      <4> QED
        BY <4>3, Zenon
    <3> QED
      BY <3>1, <3>2
  <2>2. f = [j \in 0..n |-> IF j = 0 THEN b ELSE g[j][f[j - 1]]]
    BY <1>3, Zenon DEF Trail
  <2> HIDE DEF g, b, X
  <2> QED
    BY <2>1, <2>2, Zenon
<1>5. \E run : run = [j \in 0..n |-> IF j = 0 THEN b ELSE OneBucket(run[j - 1])]
  BY <1>4, Zenon
<1>6. Run(d, n) = [j \in 0..n |-> IF j = 0 THEN b ELSE OneBucket(Run(d, n)[j - 1])]
  BY <1>5, Zenon DEF Run
<1> QED
  BY <1>1, <1>6

(* All stages keep the keys. *)
LEMMA RunStays ==
    ASSUME NEW K, Small(K), NEW d, DictInv(d, K), d.rehashidx # -1, NEW n \in Nat
    PROVE  Run(d, n)[n] \in Runs(d, K)
<1> DEFINE f == Run(d, n)
           X == Runs(d, K)
           b == Start(d, n)
<1>1. f = [j \in 0..n |-> IF j = 0 THEN b ELSE OneBucket(f[j - 1])] /\ b \in X
  BY RunDef
<1>c. \A r \in X : OneBucket(r) \in X
  BY OneBucketStays, Zenon
<1> HIDE DEF f, X, b
<1>2. f[0] \in X
  <2>1. 0 \in 0..n
    OBVIOUS
  <2> QED
    BY <1>1, <2>1
<1>3. ASSUME NEW j \in 1..n, f[j - 1] \in X PROVE f[j] \in X
  <2>1. j \in 0..n /\ j # 0
    OBVIOUS
  <2>2. f[j] = OneBucket(f[j - 1])
    BY <1>1, <2>1
  <2> QED
    BY <1>3, <1>c, <2>2, Zenon
<1>4. \A j \in 0..n : f[j] \in X
  BY <1>2, <1>3, StaysIn
<1>5. n \in 0..n
  OBVIOUS
<1> QED
  BY <1>4, <1>5 DEF f, X

(* dictRehash loses no key, whatever the policy and the number of buckets. *)
LEMMA RehashSame ==
    ASSUME NEW K, Small(K), NEW d, DictInv(d, K), NEW n \in Nat, NEW policy
    PROVE  Moves(d, DictRehash(d, n, policy), K)
<1> DEFINE c == DictRehash(d, n, policy)
           q == Run(d, n)[n].dict
<1>1. CASE ~MayRehash(d, policy)
  <2>1. c = d
    BY <1>1, Zenon DEF DictRehash
  <2> QED
    BY <2>1, MovesSelf
<1>2. CASE MayRehash(d, policy)
  <2>1. d.rehashidx # -1
    BY <1>2, Zenon DEF MayRehash, IsRehashing
  <2>2. Run(d, n)[n] \in Runs(d, K)
    BY <2>1, RunStays
  <2>3. Moves(d, q, K) /\ q.rehashidx # -1
    BY <2>2, Zenon DEF Runs
  <2>4. c \in {q, CheckCompleted(q)}
    BY <1>2, Zenon DEF DictRehash, Run, Start
  <2>5. DictInv(q, K)
    BY <2>3, Zenon DEF Moves, Same
  <2>6. Moves(q, CheckCompleted(q), K)
    BY <2>3, <2>5, CompletedSame
  <2>7. Moves(d, CheckCompleted(q), K)
    BY <2>3, <2>6, MovesTwice
  <2> QED
    BY <2>3, <2>4, <2>7, Zenon
<1> QED
  BY <1>1, <1>2

(* Nor does the step of rehashing that commands begin with; a dict that is *)
(* paused is left alone.                                                   *)
LEMMA TouchSame ==
    ASSUME NEW K, Small(K), NEW d, DictInv(d, K), NEW k \in Key, NEW policy
    PROVE  /\ Moves(d, RehashStep(d, policy), K)
           /\ Moves(d, Touch(d, k, policy), K)
           /\ d.pause # 0 => RehashStep(d, policy) = d /\ Touch(d, k, policy) = d
<1> DEFINE i == Bucket(Hash(k), d.exp[0])
<1>1. Moves(d, d, K) /\ Moves(d, DictRehash(d, 1, policy), K)
  BY MovesSelf, RehashSame
<1>2. Moves(d, RehashStep(d, policy), K) /\ (d.pause # 0 => RehashStep(d, policy) = d)
  BY <1>1, Zenon DEF RehashStep
<1>3. d.pause # 0 => BucketRehash(d, i, policy) = d
  BY Zenon DEF BucketRehash
<1>4. d.pause # 0 => Touch(d, k, policy) = d
  BY <1>2, <1>3, Zenon DEF Touch
<1>5. ASSUME d.rehashidx # -1 PROVE Moves(d, BucketRehash(d, i, policy), K)
  <2>1. i \in DOMAIN d.ht[0]
    <3>1. d.exp[0] \in -1..W /\ d.exp[0] # -1 /\ DOMAIN d.ht[0] = 0..(Size(d.exp[0]) - 1)
      <4>1. /\ d.exp[0] \in -1..W
            /\ Good(d.exp[0], d.exp[1], d.ht[0], d.ht[1], d.rehashidx, K)
        BY InvParts
      <4>2. d.exp[0] # -1
        BY <1>5, <4>1, Zenon DEF Good
      <4>3. DOMAIN d.ht[0] = 0..(Size(d.exp[0]) - 1)
        BY <1>5, IdxType
      <4> QED
        BY <4>1, <4>2, <4>3
    <3>2. Hash(k) \in Nat
      BY Constants
    <3> QED
      BY <3>1, <3>2, BucketType
  <2>2. K \in SUBSET Key
    BY DEF Small
  <2>3. Moves(d, MoveBucket(d, i), K) /\ MoveBucket(d, i).rehashidx = d.rehashidx
    <3> HIDE DEF i
    <3> QED
      BY <1>5, <2>1, <2>2, MoveSame
  <2>4. DictInv(MoveBucket(d, i), K)
    BY <2>3, Zenon DEF Moves, Same
  <2>5. Moves(MoveBucket(d, i), CheckCompleted(MoveBucket(d, i)), K)
    BY <1>5, <2>3, <2>4, CompletedSame
  <2>6. Moves(d, CheckCompleted(MoveBucket(d, i)), K)
    BY <1>5, <2>3, <2>5, MovesTwice
  <2> QED
    BY <1>1, <2>6, Zenon DEF BucketRehash
<1>6. Moves(d, Touch(d, k, policy), K)
  BY <1>1, <1>2, <1>5, Zenon DEF Touch, IsRehashing
<1> QED
  BY <1>2, <1>4, <1>6

-----------------------------------------------------------------------------
(* Finding a key *)

(* Bucket i, counted before rehashing moved on, is the one to compare with *)
(* rehashidx.                                                              *)
Looks(c, k, i) == i \in Nat /\ (c.rehashidx \in {-1, 0} \/ i = Bucket(Hash(k), c.exp[0]))

(* Looking in the buckets of its hash, in the tables that may have it,     *)
(* finds exactly the keys that are there.                                  *)
LEMMA TablesFind ==
    ASSUME NEW K, NEW c, DictInv(c, K), NEW k \in Key, NEW i, Looks(c, k, i)
    PROVE  /\ 0 \in Tables(c, k, i) <=> k \in All(c.ht[0])
           /\ 1 \in Tables(c, k, i) <=> k \in All(c.ht[1])
           /\ Tables(c, k, i) \subseteq 0..1
           /\ Tables(c, k, i) # {} <=> k \in DictKeys(c)
<1> DEFINE e == c.exp[0]
           f == c.exp[1]
           g == c.ht[0]
           h == c.ht[1]
           r == c.rehashidx
           b == Bucket(Hash(k), e)
<1>1. /\ e \in -1..W /\ f \in -1..W /\ Good(e, f, g, h, r, K) /\ DictKeys(c) = All(g) \cup All(h)
  BY InvParts
<1>2. Table(g, e) /\ Table(h, f) /\ (r = -1 => f = -1) /\ (r # -1 => e # -1 /\ f # -1)
  BY <1>1, Zenon DEF Good
<1>3. k \in All(g) <=> e # -1 /\ k \in g[b]
  BY <1>1, <1>2, TableFind
<1>4. k \in All(h) <=> f # -1 /\ k \in h[Bucket(Hash(k), f)]
  BY <1>1, <1>2, TableFind
<1>5. 0 \in Tables(c, k, i) <=> i >= r /\ e # -1 /\ k \in g[b]
  BY DEF Tables
<1>6. 1 \in Tables(c, k, i) <=> r # -1 /\ f # -1 /\ k \in h[Bucket(Hash(k), f)]
  BY DEF Tables, IsRehashing
<1>7. ASSUME k \in All(g) PROVE i >= r
  <2>1. e # -1 /\ k \in g[b]
    BY <1>3, <1>7
  <2>2. Hash(k) \in Nat
    BY Constants
  <2>3. b \in 0..(Size(e) - 1)
    BY <1>1, <2>1, <2>2, BucketType
  <2>4. /\ r \in Int /\ DOMAIN g = 0..(Size(e) - 1)
        /\ \A j \in DOMAIN g : j < r => g[j] = {}
    BY IdxType
  <2> HIDE DEF b
  <2>5. ~(b < r) /\ b \in Nat
    <3>1. g[b] # {}
      BY <2>1
    <3>2. b \in DOMAIN g
      BY <2>3, <2>4
    <3>3. ~(b < r)
      BY <2>4, <3>1, <3>2, Zenon
    <3> QED
      BY <2>3, <3>3
  <2>6. i \in Nat /\ (r \in {-1, 0} \/ i = b)
    BY DEF Looks, b
  <2> QED
    BY <2>4, <2>5, <2>6
<1>8. 0 \in Tables(c, k, i) <=> k \in All(g)
  BY <1>3, <1>5, <1>7
<1>9. 1 \in Tables(c, k, i) <=> k \in All(h)
  BY <1>2, <1>4, <1>6
<1>10. Tables(c, k, i) \subseteq 0..1
  BY Zenon DEF Tables
<1>11. \A t \in 0..1 : t = 0 \/ t = 1
  OBVIOUS
<1> QED
  BY <1>1, <1>8, <1>9, <1>10, <1>11, Zenon

(* The bucket computed before the step of rehashing still tells whether    *)
(* table 0 has to be looked at after it,                                   *)
LEMMA TouchLooks ==
    ASSUME NEW K, NEW d, NEW c, DictInv(d, K), Moves(d, c, K), NEW k \in Key
    PROVE  Looks(c, k, Bucket(Hash(k), d.exp[0]))
<1>1. Hash(k) \in Nat /\ d.exp[0] \in -1..W
  BY Constants, InvParts
<1>2. Bucket(Hash(k), d.exp[0]) \in Nat
  BY <1>1, BucketType
<1>3. c.rehashidx # -1 => c.exp[0] = d.exp[0]
  BY Zenon DEF Moves
<1> QED
  BY <1>2, <1>3, Zenon DEF Looks

(* and after a resize. *)
LEMMA ResizeLooks ==
    ASSUME NEW K, NEW c, NEW e, NEW k, NEW i, Resizes(c, e, K), Looks(c, k, i)
    PROVE  Looks(e, k, i)
<1>1. CASE c.rehashidx # -1
  BY <1>1, Zenon DEF Resizes
<1>2. CASE c.rehashidx = -1
  BY <1>2, Zenon DEF Resizes, Looks
<1> QED
  BY <1>1, <1>2

(* dictFind finds a key if and only if it is there. *)
LEMMA FindKey ==
    ASSUME NEW K, Small(K), NEW d, DictInv(d, K), NEW k \in Key, NEW policy
    PROVE  /\ Found(d, k, policy) <=> k \in DictKeys(d)
           /\ Moves(d, DictFind(d, k, policy), K)
           /\ d.pause # 0 => DictFind(d, k, policy) = d
<1> DEFINE c == Touch(d, k, policy)
           i == Bucket(Hash(k), d.exp[0])
<1>1. Moves(d, c, K) /\ (d.pause # 0 => c = d) /\ Moves(d, d, K)
  BY TouchSame, MovesSelf
<1>2. DictInv(c, K) /\ DictKeys(c) = DictKeys(d)
  BY <1>1, Zenon DEF Moves, Same
<1>3. Looks(c, k, i)
  <2> HIDE DEF c
  <2> QED
    BY <1>1, TouchLooks
<1>4. Tables(c, k, i) # {} <=> k \in DictKeys(d)
  <2> HIDE DEF c, i
  <2> QED
    BY <1>2, <1>3, TablesFind
<1>5. DictSize(d) = 0 <=> DictKeys(d) = {}
  BY UsedType
<1>6. Found(d, k, policy) <=> k \in DictKeys(d)
  BY <1>4, <1>5, Zenon DEF Found
<1> QED
  BY <1>1, <1>6, Zenon DEF DictFind

-----------------------------------------------------------------------------
(* Adding and deleting a key *)

(* Key k may be put in one of the two tables. *)
MayAdd(k, e, f, g, h, r, K) ==
    /\ K \in SUBSET Key /\ Good(e, f, g, h, r, K) /\ k \in K /\ k \notin All(g) /\ k \notin All(h)

(* A key that is not there may be put in table 0, or in table 1 while the  *)
(* dict is rehashing.                                                      *)
LEMMA GoodAdd ==
    ASSUME NEW K, NEW k, NEW e, NEW f, NEW g, NEW h, NEW r, MayAdd(k, e, f, g, h, r, K)
    PROVE  /\ r = -1 /\ e # -1 =>
                  /\ Good(e, f, With(g, k, e), h, r, K)
                  /\ All(With(g, k, e)) = All(g) \cup {k}
           /\ r # -1 =>
                  /\ Good(e, f, g, With(h, k, f), r, K)
                  /\ All(With(h, k, f)) = All(h) \cup {k}
<1>1. /\ e \in -1..W /\ f \in -1..W /\ Table(g, e) /\ Table(h, f)
      /\ All(g) \cup All(h) \subseteq K /\ All(g) \cap All(h) = {}
      /\ r \in -1..Size(e) /\ (r = -1 => f = -1) /\ (r # -1 => e # -1 /\ f # -1)
      /\ EmptyBelow(g, r) /\ k \in Key /\ k \in K /\ k \notin All(h) /\ k \notin All(g)
  BY Zenon DEF Good, MayAdd
<1>2. ASSUME r = -1, e # -1
      PROVE  Good(e, f, With(g, k, e), h, r, K) /\ All(With(g, k, e)) = All(g) \cup {k}
  <2> DEFINE a == With(g, k, e)
  <2>1. Table(a, e) /\ All(a) = All(g) \cup {k}
    BY <1>1, <1>2, TableAdd
  <2>2. EmptyBelow(a, r)
    <3>1. DOMAIN a = 0..(Size(e) - 1) /\ Size(e) \in Nat
      BY <1>1, <2>1, TableKey, SizeType
    <3>2. \A j \in DOMAIN a : ~(j < r)
      BY <1>2, <3>1
    <3> QED
      BY <3>2, Zenon DEF EmptyBelow
  <2>3. All(a) \cup All(h) \subseteq K /\ All(a) \cap All(h) = {}
    BY <1>1, <1>2, <2>1, Zenon
  <2> HIDE DEF a
  <2>4. Good(e, f, a, h, r, K)
    BY <1>1, <1>2, <2>1, <2>2, <2>3, Zenon DEF Good
  <2> QED
    BY <2>1, <2>4 DEF a
<1>3. ASSUME r # -1
      PROVE  Good(e, f, g, With(h, k, f), r, K) /\ All(With(h, k, f)) = All(h) \cup {k}
  <2> DEFINE a == With(h, k, f)
  <2>1. Table(a, f) /\ All(a) = All(h) \cup {k}
    BY <1>1, <1>3, TableAdd
  <2>3. All(g) \cup All(a) \subseteq K /\ All(g) \cap All(a) = {}
    BY <1>1, <1>3, <2>1, Zenon
  <2> HIDE DEF a
  <2>4. Good(e, f, g, a, r, K)
    BY <1>1, <1>3, <2>1, <2>3, Zenon DEF Good
  <2> QED
    BY <2>1, <2>4 DEF a
<1> QED
  BY <1>2, <1>3

(* A key may be taken from the table it is in. *)
LEMMA GoodRemove ==
    ASSUME NEW K \in SUBSET Key, NEW e, NEW f, NEW g, NEW h, NEW r, Good(e, f, g, h, r, K), NEW k \in Key
    PROVE  /\ k \in All(g) =>
                  /\ Good(e, f, Without(g, k, e), h, r, K)
                  /\ All(Without(g, k, e)) = All(g) \ {k}
           /\ k \in All(h) =>
                  /\ Good(e, f, g, Without(h, k, f), r, K)
                  /\ All(Without(h, k, f)) = All(h) \ {k}
<1>1. /\ e \in -1..W /\ f \in -1..W /\ Table(g, e) /\ Table(h, f)
      /\ All(g) \cup All(h) \subseteq K /\ All(g) \cap All(h) = {}
      /\ r \in -1..Size(e) /\ (r = -1 => f = -1) /\ (r # -1 => e # -1 /\ f # -1)
      /\ EmptyBelow(g, r)
  BY Zenon DEF Good
<1>2. ASSUME k \in All(g)
      PROVE  Good(e, f, Without(g, k, e), h, r, K) /\ All(Without(g, k, e)) = All(g) \ {k}
  <2> DEFINE a == Without(g, k, e)
  <2>0. e # -1
    BY <1>1, <1>2, TableFind
  <2>1. /\ Table(a, e) /\ All(a) = All(g) \ {k}
        /\ \A j \in DOMAIN g : a[j] \in SUBSET g[j]
    BY <1>1, <2>0, TableRemove
  <2>2. EmptyBelow(a, r)
    <3>1. DOMAIN a = DOMAIN g
      BY <1>1, <2>1, TableKey
    <3> HIDE DEF a
    <3> QED
      BY <1>1, <2>1, <3>1, Zenon DEF EmptyBelow
  <2>3. All(a) \cup All(h) \subseteq K /\ All(a) \cap All(h) = {}
    BY <1>1, <2>1, Zenon
  <2> HIDE DEF a
  <2>4. Good(e, f, a, h, r, K)
    BY <1>1, <2>1, <2>2, <2>3, Zenon DEF Good
  <2> QED
    BY <2>1, <2>4 DEF a
<1>3. ASSUME k \in All(h)
      PROVE  Good(e, f, g, Without(h, k, f), r, K) /\ All(Without(h, k, f)) = All(h) \ {k}
  <2> DEFINE a == Without(h, k, f)
  <2>0. f # -1
    BY <1>1, <1>3, TableFind
  <2>1. Table(a, f) /\ All(a) = All(h) \ {k}
    BY <1>1, <2>0, TableRemove
  <2>3. All(g) \cup All(a) \subseteq K /\ All(g) \cap All(a) = {}
    BY <1>1, <2>1, Zenon
  <2> HIDE DEF a
  <2>4. Good(e, f, g, a, r, K)
    BY <1>1, <2>1, <2>3, Zenon DEF Good
  <2> QED
    BY <2>1, <2>4 DEF a
<1> QED
  BY <1>2, <1>3

(* Where a key is. *)
In(d, t, j, k) == j \in DOMAIN d.ht[t] /\ k \in d.ht[t][j]

(* The keys outside of S stay where they are. *)
Stays(d, c, S) == \A t \in 0..1 : \A j, k : k \notin S => (In(d, t, j, k) <=> In(c, t, j, k))

(* Keys that stay twice stay. *)
LEMMA StaysTwice ==
    ASSUME NEW a, NEW b, NEW c, NEW S, NEW T, Stays(a, b, S), Stays(b, c, T)
    PROVE  Stays(a, c, S \cup T)
  BY Zenon DEF Stays

(* A resize moves no key. *)
LEMMA ResizeStays ==
    ASSUME NEW K, NEW d, NEW c, DictInv(d, K), Resizes(d, c, K)
    PROVE  Stays(d, c, {})
<1>1. CASE d.rehashidx # -1
  <2>1. c = d
    BY <1>1, Zenon DEF Resizes
  <2> QED
    BY <2>1, Zenon DEF Stays
<1>2. CASE d.rehashidx = -1
  <2>1. /\ DictInv(c, K) /\ DictKeys(c) = DictKeys(d)
        /\ c.ht[0] = d.ht[0] \/ All(d.ht[0]) = {}
    BY <1>2, Zenon DEF Resizes, Same
  <2>2. /\ d.exp[1] \in -1..W /\ DictKeys(d) = All(d.ht[0]) \cup All(d.ht[1])
        /\ Good(d.exp[0], d.exp[1], d.ht[0], d.ht[1], d.rehashidx, K)
    BY InvParts
  <2>3. /\ DictKeys(c) = All(c.ht[0]) \cup All(c.ht[1])
        /\ Good(c.exp[0], c.exp[1], c.ht[0], c.ht[1], c.rehashidx, K)
    BY <2>1, InvParts
  <2>4. d.exp[1] = -1 /\ Table(d.ht[1], d.exp[1])
    BY <1>2, <2>2, Zenon DEF Good
  <2>5. All(d.ht[1]) = {}
    <3>1. DOMAIN d.ht[1] = 0..(Size(d.exp[1]) - 1) /\ Size(d.exp[1]) = 0
      BY <2>2, <2>4, TableKey, SizeType
    <3>2. DOMAIN d.ht[1] = {}
      BY <3>1
    <3> QED
      BY <3>2, Zenon DEF All
  <2>6. All(c.ht[0]) \cap All(c.ht[1]) = {}
    BY <2>3, Zenon DEF Good
  <2>7. All(c.ht[1]) = {} /\ (c.ht[0] = d.ht[0] \/ (All(d.ht[0]) = {} /\ All(c.ht[0]) = {}))
    BY <2>1, <2>2, <2>3, <2>5, <2>6, Zenon
  <2>8. \A j, k : In(d, 0, j, k) <=> In(c, 0, j, k)
    BY <2>7, Zenon DEF In, All
  <2>9. \A j, k : In(d, 1, j, k) <=> In(c, 1, j, k)
    BY <2>5, <2>7, Zenon DEF In, All
  <2>10. \A t \in 0..1 : t = 0 \/ t = 1
    OBVIOUS
  <2> QED
    BY <2>8, <2>9, <2>10, Zenon DEF Stays
<1> QED
  BY <1>1, <1>2

(* Adding or removing a key leaves the others in their buckets. *)
LEMMA NearTable ==
    ASSUME NEW e \in -1..W, NEW h, Table(h, e), NEW k \in Key
    PROVE  /\ DOMAIN With(h, k, e) = DOMAIN h
           /\ DOMAIN Without(h, k, e) = DOMAIN h
           /\ \A j \in DOMAIN h : \A l : l # k => (l \in With(h, k, e)[j] <=> l \in h[j])
           /\ \A j \in DOMAIN h : \A l : l # k => (l \in Without(h, k, e)[j] <=> l \in h[j])
  BY DEF With, Without

(* A key more in table t, or a key less. *)
Plus(d, k, t) == PutHt(d, t, With(d.ht[t], k, d.exp[t]))
Minus(d, k, t) == PutHt(d, t, Without(d.ht[t], k, d.exp[t]))

(* Key k may be put in table t; may be taken from it. *)
MayPlus(d, k, t, K) ==
    /\ Small(K) /\ DictInv(d, K) /\ k \in K /\ k \notin DictKeys(d) /\ t \in 0..1
    /\ t = (IF IsRehashing(d) THEN 1 ELSE 0) /\ d.exp[t] # -1
MayMinus(d, k, t, K) ==
    Small(K) /\ DictInv(d, K) /\ k \in Key /\ t \in 0..1 /\ k \in All(d.ht[t])

(* A dict with a key more. *)
LEMMA PlusKey ==
    ASSUME NEW K, NEW d, NEW k, NEW t, MayPlus(d, k, t, K)
    PROVE  /\ DictInv(Plus(d, k, t), K) /\ DictKeys(Plus(d, k, t)) = DictKeys(d) \cup {k}
           /\ Plus(d, k, t).pause = d.pause /\ Stays(d, Plus(d, k, t), {k})
<1> DEFINE e == d.exp[0]
           f == d.exp[1]
           g == d.ht[0]
           h == d.ht[1]
           r == d.rehashidx
           p == d.pause
           c == Plus(d, k, t)
<1>0. /\ K \in SUBSET Key /\ DictInv(d, K) /\ k \in K /\ k \notin DictKeys(d) /\ t \in 0..1
      /\ t = (IF IsRehashing(d) THEN 1 ELSE 0) /\ d.exp[t] # -1
  BY Zenon DEF MayPlus, Small
<1>1. /\ e \in -1..W /\ f \in -1..W /\ p \in Nat /\ Good(e, f, g, h, r, K)
      /\ d = Mk(e, f, g, h, r, p) /\ DictKeys(d) = All(g) \cup All(h)
  BY <1>0, InvParts
<1>2. /\ Table(g, e) /\ Table(h, f) /\ k \in Key /\ k \notin All(g) /\ k \notin All(h)
      /\ MayAdd(k, e, f, g, h, r, K)
  BY <1>0, <1>1, Zenon DEF Good, MayAdd
<1>10. \A u \in 0..1 : u = 0 \/ u = 1
  OBVIOUS
<1>3. CASE r = -1
  <2> DEFINE a == With(g, k, e)
  <2>1. t = 0 /\ e # -1 /\ c = PutHt(d, 0, a)
    BY <1>0, <1>3, Zenon DEF IsRehashing, Plus
  <2>2. Good(e, f, a, h, r, K) /\ All(a) = All(g) \cup {k}
    <3> HIDE DEF e, f, g, h, r, p
    <3> QED
      BY <1>1, <1>2, <1>3, <2>1, GoodAdd
  <2>3. DOMAIN a = DOMAIN g /\ \A j \in DOMAIN g : \A l : l # k => (l \in a[j] <=> l \in g[j])
    BY <1>1, <1>2, NearTable
  <2> HIDE DEF a, c
  <2>4. c = Mk(e, f, a, h, r, p)
    <3> HIDE DEF e, f, g, h, r, p
    <3> QED
      BY <1>1, <2>1, MkPut
  <2>5. DictInv(c, K) /\ DictKeys(c) = All(a) \cup All(h) /\ c.pause = p /\ c.ht[0] = a /\ c.ht[1] = h
    <3> HIDE DEF e, f, g, h, r, p
    <3> QED
      BY <1>1, <2>2, <2>4, InvMk
  <2>6. Stays(d, c, {k})
    BY <2>3, <2>5, <1>10, Zenon DEF Stays, In
  <2> QED
    BY <1>1, <2>2, <2>5, <2>6, Zenon DEF c
<1>4. CASE r # -1
  <2> DEFINE a == With(h, k, f)
  <2>1. t = 1 /\ c = PutHt(d, 1, a)
    BY <1>0, <1>4, Zenon DEF IsRehashing, Plus
  <2>2. Good(e, f, g, a, r, K) /\ All(a) = All(h) \cup {k}
    <3> HIDE DEF e, f, g, h, r, p
    <3> QED
      BY <1>1, <1>2, <1>4, <2>1, GoodAdd
  <2>3. DOMAIN a = DOMAIN h /\ \A j \in DOMAIN h : \A l : l # k => (l \in a[j] <=> l \in h[j])
    BY <1>1, <1>2, NearTable
  <2> HIDE DEF a, c
  <2>4. c = Mk(e, f, g, a, r, p)
    <3> HIDE DEF e, f, g, h, r, p
    <3> QED
      BY <1>1, <2>1, MkPut
  <2>5. DictInv(c, K) /\ DictKeys(c) = All(g) \cup All(a) /\ c.pause = p /\ c.ht[0] = g /\ c.ht[1] = a
    <3> HIDE DEF e, f, g, h, r, p
    <3> QED
      BY <1>1, <2>2, <2>4, InvMk
  <2>6. Stays(d, c, {k})
    BY <2>3, <2>5, <1>10, Zenon DEF Stays, In
  <2> QED
    BY <1>1, <2>2, <2>5, <2>6, Zenon DEF c
<1> QED
  BY <1>3, <1>4

(* A dict with a key less. *)
LEMMA MinusKey ==
    ASSUME NEW K, NEW d, NEW k, NEW t, MayMinus(d, k, t, K)
    PROVE  /\ DictInv(Minus(d, k, t), K) /\ DictKeys(Minus(d, k, t)) = DictKeys(d) \ {k}
           /\ Minus(d, k, t).pause = d.pause /\ Stays(d, Minus(d, k, t), {k})
<1> DEFINE e == d.exp[0]
           f == d.exp[1]
           g == d.ht[0]
           h == d.ht[1]
           r == d.rehashidx
           p == d.pause
           c == Minus(d, k, t)
<1>0. /\ K \in SUBSET Key /\ DictInv(d, K) /\ k \in Key /\ t \in 0..1 /\ k \in All(d.ht[t])
  BY Zenon DEF MayMinus, Small
<1>1. /\ e \in -1..W /\ f \in -1..W /\ p \in Nat /\ Good(e, f, g, h, r, K)
      /\ d = Mk(e, f, g, h, r, p) /\ DictKeys(d) = All(g) \cup All(h)
  BY <1>0, InvParts
<1>2. Table(g, e) /\ Table(h, f) /\ All(g) \cap All(h) = {}
  BY <1>1, Zenon DEF Good
<1>10. \A u \in 0..1 : u = 0 \/ u = 1
  OBVIOUS
<1>3. CASE t = 0
  <2> DEFINE a == Without(g, k, e)
  <2>1. k \in All(g) /\ c = PutHt(d, 0, a)
    BY <1>0, <1>3, Zenon DEF Minus
  <2>2. Good(e, f, a, h, r, K) /\ All(a) = All(g) \ {k}
    BY <1>1, <1>0, <2>1, GoodRemove
  <2>3. DOMAIN a = DOMAIN g /\ \A j \in DOMAIN g : \A l : l # k => (l \in a[j] <=> l \in g[j])
    BY <1>1, <1>2, <1>0, NearTable
  <2> HIDE DEF a, c
  <2>4. c = Mk(e, f, a, h, r, p)
    <3> HIDE DEF e, f, g, h, r, p
    <3> QED
      BY <1>1, <2>1, MkPut
  <2>5. DictInv(c, K) /\ DictKeys(c) = All(a) \cup All(h) /\ c.pause = p /\ c.ht[0] = a /\ c.ht[1] = h
    <3> HIDE DEF e, f, g, h, r, p
    <3> QED
      BY <1>1, <2>2, <2>4, InvMk
  <2>6. Stays(d, c, {k})
    BY <2>3, <2>5, <1>10, Zenon DEF Stays, In
  <2>7. DictKeys(c) = DictKeys(d) \ {k}
    BY <1>1, <1>2, <2>1, <2>2, <2>5, Zenon
  <2> QED
    BY <2>5, <2>6, <2>7, Zenon DEF c
<1>4. CASE t = 1
  <2> DEFINE a == Without(h, k, f)
  <2>1. k \in All(h) /\ c = PutHt(d, 1, a)
    BY <1>0, <1>4, Zenon DEF Minus
  <2>2. Good(e, f, g, a, r, K) /\ All(a) = All(h) \ {k}
    BY <1>1, <1>0, <2>1, GoodRemove
  <2>3. DOMAIN a = DOMAIN h /\ \A j \in DOMAIN h : \A l : l # k => (l \in a[j] <=> l \in h[j])
    BY <1>1, <1>2, <1>0, NearTable
  <2> HIDE DEF a, c
  <2>4. c = Mk(e, f, g, a, r, p)
    <3> HIDE DEF e, f, g, h, r, p
    <3> QED
      BY <1>1, <2>1, MkPut
  <2>5. DictInv(c, K) /\ DictKeys(c) = All(g) \cup All(a) /\ c.pause = p /\ c.ht[0] = g /\ c.ht[1] = a
    <3> HIDE DEF e, f, g, h, r, p
    <3> QED
      BY <1>1, <2>2, <2>4, InvMk
  <2>6. Stays(d, c, {k})
    BY <2>3, <2>5, <1>10, Zenon DEF Stays, In
  <2>7. DictKeys(c) = DictKeys(d) \ {k}
    BY <1>1, <1>2, <2>1, <2>2, <2>5, Zenon
  <2> QED
    BY <2>5, <2>6, <2>7, Zenon DEF c
<1> QED
  BY <1>0, <1>3, <1>4, <1>10

(* A table that is expanded has buckets. *)
LEMMA ExpandExp ==
    ASSUME NEW K, Small(K), NEW d, DictInv(d, K), NEW n \in Nat, n <= Pow(W)
    PROVE  DictExpand(d, n).exp[0] = d.exp[0] \/ DictExpand(d, n).exp[0] \in 0..W
<1> DEFINE x == NextExp(n)
           e == d.exp[0]
           f == d.exp[1]
           g == d.ht[0]
           h == d.ht[1]
           r == d.rehashidx
           p == d.pause
           a == [d EXCEPT !.exp[0] = x, !.ht[0] = NewTable(x)]
           b == [d EXCEPT !.exp[1] = x, !.ht[1] = NewTable(x), !.rehashidx = 0]
<1>1. x \in 0..W
  BY NextExpType
<1>2. d = Mk(e, f, g, h, r, p)
  BY InvParts
<1>3. DictExpand(d, n) \in {d, a, b}
  BY Zenon DEF DictExpand, Resize
<1>4. a = PutHt(PutExp(d, 0, x), 0, NewTable(x))
  BY DEF PutHt, PutExp
<1>5. b = PutIdx(PutHt(PutExp(d, 1, x), 1, NewTable(x)), 0)
  BY DEF PutHt, PutExp, PutIdx
<1>6. a.exp[0] = x /\ b.exp[0] = e
  <2> HIDE DEF x, e, f, g, h, r, p, a, b
  <2>1. a = Mk(x, f, NewTable(x), h, r, p) /\ b = Mk(e, x, g, NewTable(x), 0, p)
    BY <1>2, <1>4, <1>5, MkPut
  <2> QED
    BY <2>1, MkParts
<1> HIDE DEF x, a, b
<1> QED
  BY <1>1, <1>3, <1>6

(* There is a table 0 when a key is to be added. *)
LEMMA FirstExpand ==
    ASSUME NEW K, Small(K), NEW d, DictInv(d, K), d.rehashidx = -1, NEW policy, NEW fits
    PROVE  ExpandIfNeeded(d, policy, fits).exp[0] # -1
<1>1. /\ Used(d, 0) \in Nat /\ Used(d, 0) + 1 \in Nat /\ Used(d, 0) + 1 <= Pow(W)
      /\ Used(d, 0) = 0 <=> All(d.ht[0]) = {}
  BY UsedType
<1>2. d.exp[0] \in -1..W /\ Good(d.exp[0], d.exp[1], d.ht[0], d.ht[1], d.rehashidx, K)
  BY InvParts
<1>3. CASE d.exp[0] # -1
  <2>1. ExpandIfNeeded(d, policy, fits) \in {d, DictExpand(d, Used(d, 0) + 1)}
    BY <1>3, Zenon DEF ExpandIfNeeded
  <2>2. DictExpand(d, Used(d, 0) + 1).exp[0] = d.exp[0] \/ DictExpand(d, Used(d, 0) + 1).exp[0] \in 0..W
    BY <1>1, ExpandExp
  <2> QED
    BY <1>3, <2>1, <2>2
<1>4. CASE d.exp[0] = -1
  <2> DEFINE n == Pow(InitialExp)
             x == NextExp(n)
             a == [d EXCEPT !.exp[0] = x, !.ht[0] = NewTable(x)]
  <2>1. n \in Nat /\ n >= 1 /\ n <= Pow(W)
    <3>1. InitialExp \in Nat /\ W \in Nat /\ InitialExp <= W
      BY Constants
    <3> QED
      BY <3>1, PowPositive, PowMonotone
  <2>2. x \in 0..W
    BY <2>1, NextExpType
  <2>3. Used(d, 0) = 0
    <3>1. Table(d.ht[0], d.exp[0])
      BY <1>2, Zenon DEF Good
    <3>2. DOMAIN d.ht[0] = 0..(Size(d.exp[0]) - 1) /\ Size(d.exp[0]) = 0
      BY <1>2, <1>4, <3>1, TableKey, SizeType
    <3>3. DOMAIN d.ht[0] = {}
      BY <3>2
    <3>4. All(d.ht[0]) = {}
      BY <3>3, Zenon DEF All
    <3> QED
      BY <1>1, <3>4
  <2>4. Size(d.exp[0]) = 0
    BY <1>2, <1>4, SizeType
  <2>5. ~IsRehashing(d) /\ ~(Used(d, 0) > n) /\ ~(Size(d.exp[0]) >= n) /\ x # d.exp[0]
    <3>1. ~IsRehashing(d)
      BY DEF IsRehashing
    <3> HIDE DEF n, x
    <3> QED
      BY <1>4, <2>1, <2>2, <2>3, <2>4, <3>1
  <2>6. ExpandIfNeeded(d, policy, fits) = DictExpand(d, n)
    BY <1>4, <2>5, Zenon DEF ExpandIfNeeded, Pow
  <2>7. DictExpand(d, n) = a
    BY <2>3, <2>5, Zenon DEF DictExpand, Resize
  <2>8. d = Mk(d.exp[0], d.exp[1], d.ht[0], d.ht[1], d.rehashidx, d.pause)
    BY InvParts
  <2>9. a = PutHt(PutExp(d, 0, x), 0, NewTable(x))
    BY DEF PutHt, PutExp
  <2>10. a = Mk(x, d.exp[1], NewTable(x), d.ht[1], d.rehashidx, d.pause)
    <3> HIDE DEF a, x
    <3> QED
      BY <2>8, <2>9, MkPut
  <2>11. a.exp[0] = x
    <3> HIDE DEF a, x
    <3> QED
      BY <2>10, MkParts
  <2> HIDE DEF a, x, n
  <2> QED
    BY <2>2, <2>6, <2>7, <2>11
<1> QED
  BY <1>3, <1>4

(* Dict c is d with key k. *)
Adds(d, k, K, c) ==
    /\ DictInv(c, K) /\ DictKeys(c) = DictKeys(d) \cup {k} /\ c.pause = d.pause
    /\ d.pause # 0 => Stays(d, c, {k} \ DictKeys(d))

(* dictAdd adds the key, loses none, and moves none while the dict is      *)
(* paused.                                                                 *)
LEMMA AddKey ==
    ASSUME NEW K, NEW d, NEW k, NEW policy, NEW fits, Small(K), DictInv(d, K), k \in K
    PROVE  Adds(d, k, K, DictAdd(d, k, policy, fits))
<1> DEFINE b == Touch(d, k, policy)
           e == ExpandIfNeeded(b, policy, fits)
           i == Bucket(Hash(k), d.exp[0])
           t == IF IsRehashing(e) THEN 1 ELSE 0
           c == DictAdd(d, k, policy, fits)
<1>0. k \in Key /\ K \in SUBSET Key
  BY DEF Small
<1>1. Moves(d, b, K) /\ (d.pause # 0 => b = d)
  BY <1>0, TouchSame
<1>2. DictInv(b, K) /\ DictKeys(b) = DictKeys(d) /\ b.pause = d.pause
  BY <1>1, Zenon DEF Moves, Same
<1>3. Resizes(b, e, K)
  <2> HIDE DEF b
  <2> QED
    BY <1>2, ResizeIfNeeded
<1>4. DictInv(e, K) /\ DictKeys(e) = DictKeys(d) /\ e.pause = d.pause
  BY <1>2, <1>3, Zenon DEF Resizes, Same
<1>5. Looks(e, k, i)
  <2> HIDE DEF b, e
  <2>1. Looks(b, k, i)
    BY <1>0, <1>1, TouchLooks
  <2> HIDE DEF i
  <2> QED
    BY <2>1, <1>3, ResizeLooks
<1>6. Tables(e, k, i) # {} <=> k \in DictKeys(e)
  <2> HIDE DEF e, i
  <2> QED
    BY <1>0, <1>4, <1>5, TablesFind
<1>7. d.pause # 0 => Stays(d, e, {})
  <2> HIDE DEF e, b
  <2>1. Stays(b, e, {})
    BY <1>2, <1>3, ResizeStays
  <2> QED
    BY <1>1, <2>1
<1>8. t \in 0..1 /\ e.exp[t] # -1
  <2>1. CASE e.rehashidx = -1
    <3>1. b.rehashidx = -1
      BY <1>3, <2>1, Zenon DEF Resizes
    <3>2. e.exp[0] # -1
      <4> HIDE DEF b
      <4> QED
        BY <1>2, <3>1, FirstExpand
    <3>3. t = 0
      BY <2>1, Zenon DEF IsRehashing
    <3> QED
      BY <3>2, <3>3
  <2>2. CASE e.rehashidx # -1
    <3>1. Good(e.exp[0], e.exp[1], e.ht[0], e.ht[1], e.rehashidx, K)
      <4> HIDE DEF e
      <4> QED
        BY <1>4, InvParts
    <3>2. e.exp[1] # -1
      BY <2>2, <3>1, Zenon DEF Good
    <3>3. t = 1
      BY <2>2, Zenon DEF IsRehashing
    <3> QED
      BY <3>2, <3>3
  <2> QED
    BY <2>1, <2>2
<1> SUFFICES /\ DictInv(c, K) /\ DictKeys(c) = DictKeys(d) \cup {k} /\ c.pause = d.pause
             /\ d.pause # 0 => Stays(d, c, {k} \ DictKeys(d))
  BY Zenon DEF Adds
<1>9. CASE k \in DictKeys(d)
  <2>1. c = e
    BY <1>4, <1>6, <1>9, Zenon DEF DictAdd
  <2>2. DictKeys(c) = DictKeys(d) \cup {k} /\ {k} \ DictKeys(d) = {}
    BY <1>4, <1>9, <2>1, Zenon
  <2> HIDE DEF e
  <2> QED
    BY <1>4, <1>7, <2>1, <2>2
<1>10. CASE k \notin DictKeys(d)
  <2>1. c = [e EXCEPT !.ht[t][Bucket(Hash(k), e.exp[t])] = @ \cup {k}]
    BY <1>4, <1>6, <1>10, Zenon DEF DictAdd
  <2> HIDE DEF e, t, c
  <2>2. c = Plus(e, k, t)
    BY <2>1 DEF Plus, PutHt, With
  <2>3. k \notin DictKeys(e)
    BY <1>4, <1>10
  <2>4. t = (IF IsRehashing(e) THEN 1 ELSE 0)
    BY DEF t
  <2>5. /\ DictInv(c, K) /\ DictKeys(c) = DictKeys(e) \cup {k}
        /\ c.pause = e.pause /\ Stays(e, c, {k})
    <3>1. MayPlus(e, k, t, K)
      BY <1>4, <1>8, <2>3, <2>4, Zenon DEF MayPlus
    <3>2. /\ DictInv(Plus(e, k, t), K) /\ DictKeys(Plus(e, k, t)) = DictKeys(e) \cup {k}
          /\ Plus(e, k, t).pause = e.pause /\ Stays(e, Plus(e, k, t), {k})
      BY <3>1, PlusKey
    <3> QED
      BY <2>2, <3>2
  <2>6. d.pause # 0 => Stays(d, c, {} \cup {k})
    BY <1>7, <2>5, StaysTwice
  <2>7. {k} \ DictKeys(d) = {} \cup {k}
    BY <1>10
  <2> QED
    BY <1>4, <2>5, <2>6, <2>7 DEF c
<1> QED
  BY <1>9, <1>10

(* Key k is taken out of dict c if it is there, which is then shrunk. *)
Deletes(d, k, K, c) ==
    /\ DictInv(c, K) /\ DictKeys(c) = DictKeys(d) \ {k} /\ c.pause = d.pause
    /\ d.pause # 0 => Stays(d, c, {k})

(* Unlinking the key from the first table it is found in takes it out, and *)
(* the dict may shrink.                                                    *)
LEMMA UnlinkKey ==
    ASSUME NEW K, Small(K), NEW d, DictInv(d, K), NEW k \in Key, NEW i, NEW policy, NEW fits,
           Looks(d, k, i)
    PROVE  LET in == Tables(d, k, i)
               c == IF in = {} THEN d ELSE ShrinkIfNeeded(Unlink(d, k, Min(in)), policy, fits)
           IN  /\ DictInv(c, K) /\ DictKeys(c) = DictKeys(d) \ {k}
               /\ c.pause = d.pause /\ Stays(d, c, {k})
<1> DEFINE in == Tables(d, k, i)
           t == Min(in)
           u == Unlink(d, k, t)
           s == ShrinkIfNeeded(u, policy, fits)
           c == IF in = {} THEN d ELSE s
<1>1. /\ 0 \in in <=> k \in All(d.ht[0])
      /\ 1 \in in <=> k \in All(d.ht[1])
      /\ in \subseteq 0..1
      /\ in # {} <=> k \in DictKeys(d)
  BY TablesFind
<1> HIDE DEF in
<1>2. CASE in = {}
  <2>1. c = d /\ DictKeys(d) \ {k} = DictKeys(d)
    BY <1>1, <1>2, Zenon
  <2> QED
    BY <1>2, <2>1, Zenon DEF Stays, in
<1>3. CASE in # {}
  <2>1. t \in in
    <3>1. in \in SUBSET Nat
      BY <1>1
    <3> QED
      BY <1>3, <3>1, MinType
  <2> HIDE DEF t
  <2>2. t \in 0..1 /\ k \in All(d.ht[t])
    <3>1. t = 0 \/ t = 1
      BY <1>1, <2>1
    <3> QED
      BY <1>1, <2>1, <3>1
  <2>3. u = Minus(d, k, t)
    BY DEF Unlink, Minus, PutHt, Without
  <2>4. K \in SUBSET Key
    BY DEF Small
  <2>5. DictInv(u, K) /\ DictKeys(u) = DictKeys(d) \ {k} /\ u.pause = d.pause /\ Stays(d, u, {k})
    <3>1. MayMinus(d, k, t, K)
      BY <2>2, Zenon DEF MayMinus
    <3> HIDE DEF u
    <3> QED
      BY <2>3, <3>1, MinusKey
  <2> HIDE DEF u
  <2>6. Resizes(u, s, K)
    BY <2>5, ResizeIfNeeded
  <2>7. DictInv(s, K) /\ DictKeys(s) = DictKeys(u) /\ s.pause = u.pause
    BY <2>6, Zenon DEF Resizes, Same
  <2> HIDE DEF s
  <2>8. Stays(u, s, {})
    BY <2>5, <2>6, ResizeStays
  <2>9. Stays(d, s, {k} \cup {})
    BY <2>5, <2>8, StaysTwice
  <2>10. {k} \cup {} = {k}
    OBVIOUS
  <2>11. c = s
    BY <1>3, Zenon
  <2>12. DictInv(c, K) /\ DictKeys(c) = DictKeys(d) \ {k} /\ c.pause = d.pause /\ Stays(d, c, {k})
    BY <2>5, <2>7, <2>9, <2>10, <2>11
  <2> QED
    BY <2>12, Zenon DEF c, s, u, t, in
<1> QED
  BY <1>2, <1>3

(* dictDelete and dictTwoPhaseUnlink take the key out, lose no other, and  *)
(* move none while the dict is paused.                                     *)
LEMMA DeleteKey ==
    ASSUME NEW K, Small(K), NEW d, DictInv(d, K), NEW k \in Key, NEW policy, NEW fits
    PROVE  /\ Deletes(d, k, K, DictDelete(d, k, policy, fits))
           /\ Deletes(d, k, K, TwoPhaseUnlink(d, k, policy, fits))
<1> DEFINE cut(e, i) == IF Tables(e, k, i) = {} THEN e
                        ELSE ShrinkIfNeeded(Unlink(e, k, Min(Tables(e, k, i))), policy, fits)
           a == Touch(d, k, policy)
           b == IF IsRehashing(d) THEN RehashStep(d, policy) ELSE d
           i == Bucket(Hash(k), d.exp[0])
           j == Bucket(Hash(k), b.exp[0])
<1>1. Moves(d, a, K) /\ Moves(d, b, K) /\ (d.pause # 0 => a = d /\ b = d)
  BY TouchSame, MovesSelf
<1> HIDE DEF a, b
<1>2. /\ DictInv(a, K) /\ DictKeys(a) = DictKeys(d) /\ a.pause = d.pause
      /\ DictInv(b, K) /\ DictKeys(b) = DictKeys(d) /\ b.pause = d.pause
  BY <1>1, Zenon DEF Moves, Same
<1>3. Looks(a, k, i)
  BY <1>1, TouchLooks
<1>4. Looks(b, k, j)
  BY <1>2, MovesSelf, TouchLooks
<1> HIDE DEF i, j
<1>5. /\ DictInv(cut(a, i), K) /\ DictKeys(cut(a, i)) = DictKeys(a) \ {k}
      /\ cut(a, i).pause = a.pause /\ Stays(a, cut(a, i), {k})
  BY <1>2, <1>3, UnlinkKey, Zenon
<1>6. /\ DictInv(cut(b, j), K) /\ DictKeys(cut(b, j)) = DictKeys(b) \ {k}
      /\ cut(b, j).pause = b.pause /\ Stays(b, cut(b, j), {k})
  BY <1>2, <1>4, UnlinkKey, Zenon
<1>7. Deletes(d, k, K, cut(a, i)) /\ Deletes(d, k, K, cut(b, j))
  BY <1>1, <1>2, <1>5, <1>6, Zenon DEF Deletes
<1>8. ASSUME DictSize(d) = 0 PROVE Deletes(d, k, K, d)
  <2>1. DictKeys(d) = {}
    BY <1>8, UsedType
  <2>2. DictKeys(d) = DictKeys(d) \ {k} /\ Stays(d, d, {k})
    BY <2>1, Zenon DEF Stays
  <2> QED
    BY <2>2, Zenon DEF Deletes
<1>9. DictDelete(d, k, policy, fits) = IF DictSize(d) = 0 THEN d ELSE cut(a, i)
  BY Zenon DEF DictDelete, a, i
<1>10. TwoPhaseUnlink(d, k, policy, fits) = IF DictSize(d) = 0 THEN d ELSE cut(b, j)
  BY Zenon DEF TwoPhaseUnlink, b, j
<1> QED
  BY <1>7, <1>8, <1>9, <1>10, Zenon

-----------------------------------------------------------------------------
(* Multiples *)

(* p divides x. *)
Mult(x, p) == \E q \in Int : x = q * p

(* Sums and differences of multiples; p itself. *)
LEMMA MultSum ==
    ASSUME NEW x \in Int, NEW y \in Int, NEW p \in Int, Mult(x, p), Mult(y, p)
    PROVE  Mult(x + y, p) /\ Mult(x - y, p) /\ Mult(p, p)
<1>1. PICK q \in Int : x = q * p
  BY DEF Mult
<1>2. PICK r \in Int : y = r * p
  BY DEF Mult
<1>3. x + y = (q + r) * p /\ x - y = (q - r) * p /\ p = 1 * p
  BY <1>1, <1>2
<1>4. q + r \in Int /\ q - r \in Int /\ 1 \in Int
  OBVIOUS
<1> QED
  BY <1>3, <1>4 DEF Mult

(* 0 is a multiple. *)
LEMMA MultZero ==
    ASSUME NEW p \in Int
    PROVE  Mult(0, p) /\ Mult(p, p)
<1>1. 0 = 0 * p /\ 0 \in Int /\ p = 1 * p /\ 1 \in Int
  OBVIOUS
<1> QED
  BY <1>1 DEF Mult

(* A positive multiple is not less than p. *)
LEMMA MultLeast ==
    ASSUME NEW x \in Int, NEW p \in Nat, p >= 1, Mult(x, p), x > 0
    PROVE  x >= p
<1>1. PICK q \in Int : x = q * p
  BY DEF Mult
<1>2. q >= 1
  BY <1>1
<1>3. q - 1 \in Nat
  BY <1>2
<1>4. (q - 1) * p \in Nat
  BY <1>3
<1>5. q * p = (q - 1) * p + p
  OBVIOUS
<1> QED
  BY <1>1, <1>4, <1>5

(* No multiple lies between two that are p apart. *)
LEMMA MultGap ==
    ASSUME NEW x \in Int, NEW y \in Int, NEW p \in Nat, p >= 1, Mult(x, p), Mult(y, p), x < y
    PROVE  x + p <= y
<1>1. Mult(y - x, p) /\ y - x \in Int /\ y - x > 0
  BY MultSum
<1>2. y - x >= p
  BY <1>1, MultLeast
<1> QED
  BY <1>2

(* % tells multiples. *)
LEMMA MultMod ==
    ASSUME NEW x \in Nat, NEW p \in Nat, p >= 1
    PROVE  /\ x % p = 0 <=> Mult(x, p)
           /\ Mult(x - (x % p), p) /\ x % p \in 0..(p - 1)
<1>1. x \div p \in Nat /\ x % p \in 0..(p - 1) /\ x = p * (x \div p) + (x % p)
  BY DivMod
<1>2. x - (x % p) = (x \div p) * p /\ x \div p \in Int
  BY <1>1
<1>3. Mult(x - (x % p), p)
  BY <1>2 DEF Mult
<1>4. ASSUME Mult(x, p) PROVE x % p = 0
  <2>1. Mult(x - (x - (x % p)), p)
    BY <1>1, <1>3, <1>4, MultSum
  <2>2. x - (x - (x % p)) = x % p
    BY <1>1
  <2>3. Mult(x % p, p)
    BY <2>1, <2>2
  <2>4. x % p > 0 => x % p >= p
    BY <1>1, <2>3, MultLeast
  <2> QED
    BY <1>1, <2>4
<1>5. x % p = 0 => Mult(x, p)
  BY <1>3
<1> QED
  BY <1>1, <1>3, <1>4, <1>5

(* The remainder is the one number below p at a multiple's distance. *)
LEMMA ModIs ==
    ASSUME NEW x \in Nat, NEW p \in Nat, p >= 1, NEW r \in 0..(p - 1), Mult(x - r, p)
    PROVE  x % p = r
<1>1. Mult(x - (x % p), p) /\ x % p \in 0..(p - 1)
  BY MultMod
<1> DEFINE y == x - r
           z == x - (x % p)
<1>2. Mult(y - z, p) /\ Mult(z - y, p)
  <2>1. y \in Int /\ z \in Int /\ Mult(y, p) /\ Mult(z, p)
    BY <1>1
  <2> HIDE DEF y, z
  <2> QED
    BY <2>1, MultSum
<1>3. y - z = (x % p) - r /\ z - y = r - (x % p)
  BY <1>1
<1>4. Mult((x % p) - r, p) /\ Mult(r - (x % p), p)
  BY <1>2, <1>3
<1>5. (x % p) - r > 0 => (x % p) - r >= p
  BY <1>1, <1>4, MultLeast
<1>6. r - (x % p) > 0 => r - (x % p) >= p
  BY <1>1, <1>4, MultLeast
<1> QED
  BY <1>1, <1>5, <1>6

(* A multiple of a power of two is one of a smaller power. *)
LEMMA MultPow ==
    ASSUME NEW x \in Int, NEW a \in Nat, NEW b \in Nat, a <= b, Mult(x, Pow(b))
    PROVE  Mult(x, Pow(a))
<1>1. PICK c \in Nat : Pow(b) = c * Pow(a)
  BY PowMultiple
<1>2. PICK q \in Int : x = q * Pow(b)
  BY DEF Mult
<1>3. Pow(a) \in Nat
  BY PowPositive
<1>4. ASSUME NEW p \in Nat PROVE q * (c * p) = (q * c) * p
  OBVIOUS
<1>5. x = (q * c) * Pow(a) /\ q * c \in Int
  BY <1>1, <1>2, <1>3, <1>4
<1> QED
  BY <1>5 DEF Mult

(* An odd multiple becomes an even one by a step up or down. *)
LEMMA MultOdd ==
    ASSUME NEW x \in Int, NEW a \in Nat, Mult(x, Pow(a)), ~Mult(x, Pow(a + 1))
    PROVE  Mult(x + Pow(a), Pow(a + 1)) /\ Mult(x - Pow(a), Pow(a + 1))
<1>1. PICK q \in Int : x = q * Pow(a)
  BY DEF Mult
<1>2. Pow(a + 1) = 2 * Pow(a) /\ Pow(a) \in Nat
  BY PowNext, PowPositive
<1>3. \E r \in Int : q = 2 * r \/ q = 2 * r + 1
  <2>1. q \div 2 \in Int /\ (q = 2 * (q \div 2) \/ q = 2 * (q \div 2) + 1)
    OBVIOUS
  <2> QED
    BY <2>1
<1>4. PICK r \in Int : q = 2 * r \/ q = 2 * r + 1
  BY <1>3
<1>5. ASSUME NEW p \in Nat
      PROVE  /\ (2 * r) * p = r * (2 * p)
             /\ (2 * r + 1) * p + p = (r + 1) * (2 * p)
             /\ (2 * r + 1) * p - p = r * (2 * p)
  OBVIOUS
<1>6. q # 2 * r
  <2>1. q = 2 * r => x = r * Pow(a + 1)
    BY <1>1, <1>2, <1>5
  <2> QED
    BY <2>1 DEF Mult
<1>7. x + Pow(a) = (r + 1) * Pow(a + 1) /\ x - Pow(a) = r * Pow(a + 1) /\ r + 1 \in Int
  BY <1>1, <1>2, <1>4, <1>5, <1>6
<1> QED
  BY <1>7 DEF Mult

(* A set of naturals with a bound has a greatest member. *)
LEMMA NatMax ==
    ASSUME NEW T \in SUBSET Nat, T # {}, NEW n \in Nat, \A x \in T : x <= n
    PROVE  \E x \in T : \A y \in T : y <= x
<1> DEFINE U == {n - x : x \in T}
<1>1. U \in SUBSET Nat /\ U # {}
  <2>1. \A x \in T : n - x \in Nat
    OBVIOUS
  <2> QED
    BY <2>1, Zenon
<1>2. PICK u \in U : \A v \in U : u <= v
  <2> HIDE DEF U
  <2> QED
    BY <1>1, NatMin
<1>3. PICK x \in T : u = n - x
  OBVIOUS
<1>4. ASSUME NEW y \in T PROVE y <= x
  <2>1. n - y \in U
    OBVIOUS
  <2>2. n - x <= n - y
    BY <1>2, <1>3, <2>1
  <2>3. x \in Nat /\ y \in Nat
    OBVIOUS
  <2> QED
    BY <2>2, <2>3
<1> QED
  BY <1>4

(* d without its last b bits *)
Down(d, b) == d - (d % Pow(b))

(* Down(d, b) is d without its last b bits. *)
LEMMA DownType ==
    ASSUME NEW d \in Nat, NEW b \in Nat
    PROVE  /\ Down(d, b) \in Nat /\ Mult(Down(d, b), Pow(b)) /\ Down(d, b) <= d
           /\ d < Down(d, b) + Pow(b) /\ Pow(b) \in Nat /\ Pow(b) >= 1
<1>1. Pow(b) \in Nat /\ Pow(b) >= 1
  BY PowPositive
<1>2. Mult(d - (d % Pow(b)), Pow(b)) /\ d % Pow(b) \in 0..(Pow(b) - 1)
  BY <1>1, MultMod
<1>3. d % Pow(b) <= d
  <2>1. d \div Pow(b) \in Nat /\ d = Pow(b) * (d \div Pow(b)) + (d % Pow(b))
    BY <1>1, DivMod
  <2>2. Pow(b) * (d \div Pow(b)) \in Nat
    BY <1>1, <2>1
  <2> QED
    BY <1>1, <1>2, <2>1, <2>2
<1> QED
  BY <1>1, <1>2, <1>3 DEF Down

(* It is the multiple of 2^b at d or next below. *)
LEMMA DownIs ==
    ASSUME NEW d \in Nat, NEW b \in Nat, NEW n \in Nat, Mult(n, Pow(b)), n <= d, d < n + Pow(b)
    PROVE  Down(d, b) = n
<1>1. Pow(b) \in Nat /\ Pow(b) >= 1
  BY PowPositive
<1>2. d - n \in 0..(Pow(b) - 1) /\ d - (d - n) = n
  BY <1>1
<1>3. d % Pow(b) = d - n
  BY <1>1, <1>2, ModIs
<1> QED
  BY <1>2, <1>3 DEF Down

(* With one bit more. *)
LEMMA DownNext ==
    ASSUME NEW d \in Nat, NEW b \in Nat
    PROVE  Down(d, b) = IF Down(d, b + 1) + Pow(b) <= d THEN Down(d, b + 1) + Pow(b) ELSE Down(d, b + 1)
<1> DEFINE n == Down(d, b + 1)
<1>1. b + 1 \in Nat /\ Pow(b + 1) = 2 * Pow(b) /\ Pow(b) \in Nat /\ Pow(b) >= 1
  BY PowNext, PowPositive
<1>2. n \in Nat /\ Mult(n, Pow(b + 1)) /\ n <= d /\ d < n + Pow(b + 1)
  BY <1>1, DownType
<1> HIDE DEF n
<1>3. Mult(n, Pow(b))
  BY <1>1, <1>2, MultPow
<1>4. Mult(n + Pow(b), Pow(b))
  <2>1. Mult(Pow(b), Pow(b))
    BY <1>1, MultZero
  <2> QED
    BY <1>1, <1>2, <1>3, <2>1, MultSum
<1>5. CASE n + Pow(b) <= d
  <2>1. n + Pow(b) \in Nat /\ d < (n + Pow(b)) + Pow(b)
    BY <1>1, <1>2
  <2>2. Down(d, b) = n + Pow(b)
    BY <1>4, <1>5, <2>1, DownIs
  <2> QED
    BY <1>5, <2>2 DEF n
<1>6. CASE ~(n + Pow(b) <= d)
  <2>1. d < n + Pow(b)
    BY <1>1, <1>2, <1>6
  <2>2. Down(d, b) = n
    BY <1>2, <1>3, <2>1, DownIs
  <2> QED
    BY <1>6, <2>2 DEF n
<1> QED
  BY <1>5, <1>6

-----------------------------------------------------------------------------
(* Folds over sets *)

(* A member of a set. *)
One(s) == CHOOSE x \in s : TRUE

(* F folds the sets of S by g, an element at a time. *)
Fold(F, b, g, S) == F = [s \in SUBSET S |-> IF s = {} THEN b ELSE g[One(s)][F[s \ {One(s)}]]]

(* A set has a member, and one less without it. *)
LEMMA OneLess ==
    ASSUME NEW s, s # {}
    PROVE  One(s) \in s
  BY Zenon DEF One

(* A fold over a finite set exists and stays in X, if every step does. *)
LEMMA FoldExists ==
    ASSUME NEW X, NEW S, IsFiniteSet(S), NEW b \in X, NEW g \in [S -> [X -> X]]
    PROVE  \E F \in [SUBSET S -> X] : Fold(F, b, g, S)
<1> DEFINE Y == [SUBSET S -> X]
           to(F, s) == IF s = {} THEN b ELSE g[One(s)][F[s \ {One(s)}]]
           G == [F \in Y |-> [s \in SUBSET S |-> to(F, s)]]
           N == Cardinality(S)
           z == [s \in SUBSET S |-> b]
           gg == [j \in 1..(N + 1) |-> G]
<1>1. N \in Nat /\ N + 1 \in Nat
  BY FS_CardinalityType
<1>2. z \in Y
  BY Zenon
<1>3. G \in [Y -> Y]
  <2>1. ASSUME NEW F \in Y, NEW s \in SUBSET S PROVE to(F, s) \in X
    <3>1. CASE s = {}
      BY <3>1, Zenon
    <3>2. CASE s # {}
      <4>1. One(s) \in S /\ s \ {One(s)} \in SUBSET S
        BY <3>2, OneLess
      <4>2. F[s \ {One(s)}] \in X
        BY <4>1, Zenon
      <4>3. g[One(s)] \in [X -> X]
        BY <4>1
      <4>4. g[One(s)][F[s \ {One(s)}]] \in X
        BY <4>2, <4>3
      <4> QED
        BY <3>2, <4>4, Zenon
    <3> QED
      BY <3>1, <3>2
  <2> HIDE DEF to
  <2> QED
    BY <2>1, Zenon
<1>4. gg \in [1..(N + 1) -> [Y -> Y]]
  BY <1>3, Zenon
<1>5. PICK f \in [0..(N + 1) -> Y] : Trail(f, z, gg, N + 1)
  <2> HIDE DEF Y, z, gg, N
  <2> QED
    BY <1>1, <1>2, <1>4, TrailExists
<1>6. f[0] = z /\ \A j \in 0..N : f[j] \in Y /\ f[j + 1] = [s \in SUBSET S |-> to(f[j], s)]
  <2>1. f = [j \in 0..(N + 1) |-> IF j = 0 THEN z ELSE gg[j][f[j - 1]]]
    BY <1>5, Zenon DEF Trail
  <2>2. f[0] = z
    <3> HIDE DEF z, gg, N, Y
    <3>1. 0 \in 0..(N + 1)
      BY <1>1
    <3> QED
      BY <2>1, <3>1
  <2>3. ASSUME NEW j \in 0..N PROVE f[j] \in Y /\ f[j + 1] = [s \in SUBSET S |-> to(f[j], s)]
    <3>1. j + 1 \in 0..(N + 1) /\ j + 1 # 0 /\ (j + 1) - 1 = j /\ j + 1 \in 1..(N + 1) /\ j \in 0..(N + 1)
      <4> HIDE DEF N
      <4> QED
        BY <1>1
    <3>2. f[j] \in Y
      <4> HIDE DEF Y
      <4> QED
        BY <3>1, <1>5
    <3>3. f[j + 1] = gg[j + 1][f[j]]
      <4> HIDE DEF gg, z, Y, N
      <4> QED
        BY <2>1, <3>1
    <3>4. gg[j + 1] = G
      <4> HIDE DEF G
      <4> QED
        BY <3>1, Zenon
    <3>5. G[f[j]] = [s \in SUBSET S |-> to(f[j], s)]
      <4> HIDE DEF to, Y
      <4> QED
        BY <3>2, Zenon
    <3> QED
      BY <3>2, <3>3, <3>4, <3>5, Zenon
  <2> QED
    BY <2>2, <2>3
<1> HIDE DEF Y, G, gg
<1> DEFINE T == {j \in Nat : j <= N => \A s \in SUBSET S : Cardinality(s) <= j => f[j + 1][s] = f[j][s]}
<1>7. \A s \in SUBSET S : IsFiniteSet(s) /\ Cardinality(s) \in Nat /\ Cardinality(s) <= N
                          /\ (Cardinality(s) = 0 <=> s = {})
  BY FS_Subset, FS_CardinalityType, FS_EmptySet
<1>8. 0 \in T
  <2> SUFFICES ASSUME NEW s \in SUBSET S, Cardinality(s) <= 0 PROVE f[0 + 1][s] = f[0][s]
    OBVIOUS
  <2>1. s = {}
    BY <1>7
  <2>2. 0 \in 0..N
    <3> HIDE DEF N
    <3> QED
      BY <1>1
  <2>3. f[0 + 1][s] = to(f[0], s)
    <3> HIDE DEF to
    <3> QED
      BY <1>6, <2>2, Zenon
  <2>4. to(f[0], s) = b
    BY <2>1, Zenon
  <2>5. f[0][s] = b
    BY <1>6, Zenon
  <2> QED
    BY <2>3, <2>4, <2>5
<1>9. ASSUME NEW j \in T PROVE j + 1 \in T
  <2> SUFFICES ASSUME j + 1 <= N, NEW s \in SUBSET S, Cardinality(s) <= j + 1
               PROVE  f[(j + 1) + 1][s] = f[j + 1][s]
    OBVIOUS
  <2>1. j \in Nat /\ j \in 0..N /\ j + 1 \in 0..N /\ j <= N
    <3> HIDE DEF N
    <3> QED
      BY <1>1
  <2>2. f[(j + 1) + 1][s] = to(f[j + 1], s) /\ f[j + 1][s] = to(f[j], s)
    <3> HIDE DEF to
    <3>1. f[(j + 1) + 1] = [r \in SUBSET S |-> to(f[j + 1], r)]
      BY <1>6, <2>1, Zenon
    <3>2. f[j + 1] = [r \in SUBSET S |-> to(f[j], r)]
      BY <1>6, <2>1, Zenon
    <3>3. f[(j + 1) + 1][s] = to(f[j + 1], s)
      BY <3>1, Zenon
    <3>4. f[j + 1][s] = to(f[j], s)
      BY <3>2, Zenon
    <3> QED
      BY <3>3, <3>4, Zenon
  <2>3. CASE s = {}
    <3>1. to(f[j + 1], s) = b /\ to(f[j], s) = b
      BY <2>3, Zenon
    <3> QED
      BY <2>2, <3>1
  <2>4. CASE s # {}
    <3> DEFINE r == s \ {One(s)}
    <3>1. r \in SUBSET S /\ One(s) \in s
      BY <2>4, OneLess
    <3>2. Cardinality(r) <= j
      <4>1. Cardinality(r) = Cardinality(s) - 1
        BY <1>7, <3>1, FS_RemoveElement
      <4> QED
        BY <1>7, <2>1, <4>1
    <3> HIDE DEF r
    <3>3. f[j + 1][r] = f[j][r]
      BY <2>1, <3>1, <3>2
    <3>4. to(f[j + 1], s) = g[One(s)][f[j + 1][r]] /\ to(f[j], s) = g[One(s)][f[j][r]]
      BY <2>4, Zenon DEF r
    <3> QED
      BY <2>2, <3>3, <3>4, Zenon
  <2> QED
    BY <2>3, <2>4
<1>10. N \in T
  <2> HIDE DEF T
  <2>1. T \in SUBSET Nat
    BY DEF T
  <2> QED
    BY <1>1, <1>8, <1>9, <2>1, SetInduction
<1>11. \A s \in SUBSET S : f[N + 1][s] = f[N][s]
  <2>1. N <= N
    <3> HIDE DEF N
    <3> QED
      BY <1>1
  <2> QED
    BY <1>7, <1>10, <2>1, Zenon
<1>12. N \in 0..N
  <2> HIDE DEF N
  <2> QED
    BY <1>1
<1> DEFINE F == f[N]
<1>13. F \in Y /\ f[N + 1] = [s \in SUBSET S |-> to(F, s)]
  BY <1>6, <1>12, Zenon
<1>14. F = [s \in SUBSET S |-> to(F, s)]
  <2> HIDE DEF F, to
  <2>1. \A s \in SUBSET S : F[s] = to(F, s)
    <3>1. \A s \in SUBSET S : f[N + 1][s] = to(F, s)
      BY <1>13, Zenon
    <3> QED
      BY <1>11, <3>1, Zenon DEF F
  <2>2. F \in [SUBSET S -> X]
    BY <1>13 DEF Y
  <2> QED
    BY <2>1, <2>2, Zenon
<1>15. Fold(F, b, g, S)
  BY <1>14, Zenon DEF Fold
<1> QED
  BY <1>13, <1>15 DEF Y

-----------------------------------------------------------------------------
(* Sums over sets *)

(* F adds up h over the sets of S, an element at a time. *)
Adder(F, h, S) == F = [r \in SUBSET S |-> IF r = {} THEN 0 ELSE h[One(r)] + F[r \ {One(r)}]]

(* A sum over a finite set exists. *)
LEMMA AdderExists ==
    ASSUME NEW S, IsFiniteSet(S), NEW h \in [S -> Int]
    PROVE  \E F \in [SUBSET S -> Int] : Adder(F, h, S)
<1> DEFINE g == [x \in S |-> [y \in Int |-> h[x] + y]]
<1>1. g \in [S -> [Int -> Int]]
  <2>1. \A x \in S, y \in Int : h[x] + y \in Int
    OBVIOUS
  <2> QED
    BY <2>1, Zenon
<1>2. PICK F \in [SUBSET S -> Int] : Fold(F, 0, g, S)
  <2> HIDE DEF g
  <2>1. 0 \in Int
    OBVIOUS
  <2> QED
    BY <1>1, <2>1, FoldExists
<1>3. F = [s \in SUBSET S |-> IF s = {} THEN 0 ELSE g[One(s)][F[s \ {One(s)}]]]
  BY <1>2, Zenon DEF Fold
<1>4. ASSUME NEW r \in SUBSET S
      PROVE  (IF r = {} THEN 0 ELSE g[One(r)][F[r \ {One(r)}]]) = (IF r = {} THEN 0 ELSE h[One(r)] + F[r \ {One(r)}])
  <2>1. CASE r # {}
    <3>1. One(r) \in S /\ r \ {One(r)} \in SUBSET S
      BY <2>1, OneLess
    <3>2. F[r \ {One(r)}] \in Int
      BY <3>1
    <3>3. g[One(r)][F[r \ {One(r)}]] = h[One(r)] + F[r \ {One(r)}]
      BY <3>1, <3>2, Zenon
    <3> QED
      BY <3>3, Zenon
  <2> QED
    BY <2>1, Zenon
<1>5. F = [r \in SUBSET S |-> IF r = {} THEN 0 ELSE h[One(r)] + F[r \ {One(r)}]]
  <2> HIDE DEF g
  <2> QED
    BY <1>3, <1>4, Zenon
<1> QED
  BY <1>5, Zenon DEF Adder

(* Any element may be the one added last. *)
LEMMA AdderAny ==
    ASSUME NEW S, IsFiniteSet(S), NEW h \in [S -> Int], NEW F, Adder(F, h, S)
    PROVE  /\ F[{}] = 0
           /\ \A r \in SUBSET S : F[r] \in Int /\ \A x \in r : F[r] = h[x] + F[r \ {x}]
<1>1. \A r \in SUBSET S : F[r] = IF r = {} THEN 0 ELSE h[One(r)] + F[r \ {One(r)}]
  BY Zenon DEF Adder
<1>2. \A r \in SUBSET S : IsFiniteSet(r) /\ Cardinality(r) \in Nat /\ (Cardinality(r) = 0 <=> r = {})
  BY FS_Subset, FS_CardinalityType, FS_EmptySet
<1>3. \A r \in SUBSET S : \A x \in r : r \ {x} \in SUBSET S /\ Cardinality(r \ {x}) = Cardinality(r) - 1
  BY <1>2, FS_RemoveElement
<1> DEFINE P(r) == F[r] \in Int /\ \A x \in r : F[r] = h[x] + F[r \ {x}]
           T == {n \in Nat : \A r \in SUBSET S : Cardinality(r) <= n => P(r)}
<1>4. F[{}] = 0
  <2>1. {} \in SUBSET S
    OBVIOUS
  <2> QED
    BY <1>1, <2>1
<1>5. 0 \in T
  <2>1. ASSUME NEW r \in SUBSET S, Cardinality(r) <= 0 PROVE P(r)
    <3>1. r = {}
      BY <1>2, <2>1
    <3> QED
      BY <1>4, <3>1
  <2> QED
    BY <2>1
<1>6. ASSUME NEW n \in T PROVE n + 1 \in T
  <2>0. n \in Nat /\ \A r \in SUBSET S : Cardinality(r) <= n => P(r)
    OBVIOUS
  <2>1. ASSUME NEW r \in SUBSET S, Cardinality(r) <= n + 1 PROVE P(r)
    <3>1. CASE r = {}
      BY <1>4, <3>1
    <3>2. CASE r # {}
      <4> DEFINE o == One(r)
      <4>1. o \in r /\ o \in S
        BY <3>2, OneLess
      <4>2. F[r] = h[o] + F[r \ {o}]
        BY <1>1, <3>2
      <4> HIDE DEF o, P
      <4>3. \A x \in r : r \ {x} \in SUBSET S /\ Cardinality(r \ {x}) <= n
        <5>1. Cardinality(r) \in Nat
          BY <1>2
        <5> QED
          BY <1>3, <2>0, <2>1, <5>1
      <4>4. \A x \in r : P(r \ {x})
        BY <2>0, <4>3
      <4>5. F[r \ {o}] \in Int /\ h[o] \in Int
        BY <4>1, <4>4 DEF P
      <4>6. ASSUME NEW x \in r PROVE F[r] = h[x] + F[r \ {x}]
        <5>1. CASE x = o
          BY <4>2, <5>1
        <5>2. CASE x # o
          <6>1. x \in r \ {o} /\ o \in r \ {x} /\ (r \ {o}) \ {x} = (r \ {x}) \ {o}
            BY <4>1, <5>2
          <6>2. F[r \ {o}] = h[x] + F[(r \ {o}) \ {x}]
            BY <4>1, <4>4, <6>1 DEF P
          <6>3. F[r \ {x}] = h[o] + F[(r \ {x}) \ {o}]
            BY <4>4, <6>1 DEF P
          <6>4. F[(r \ {o}) \ {x}] \in Int
            <7>1. (r \ {o}) \in SUBSET S /\ Cardinality(r \ {o}) <= n
              BY <4>1, <4>3
            <7>2. (r \ {o}) \ {x} \in SUBSET S /\ Cardinality((r \ {o}) \ {x}) = Cardinality(r \ {o}) - 1
              BY <1>3, <6>1, <7>1
            <7>3. Cardinality(r \ {o}) \in Nat
              BY <1>2, <7>1
            <7>4. Cardinality((r \ {o}) \ {x}) <= n
              BY <2>0, <7>1, <7>2, <7>3
            <7> QED
              BY <2>0, <7>2, <7>4 DEF P
          <6>5. h[x] \in Int
            OBVIOUS
          <6>6. F[(r \ {x}) \ {o}] = F[(r \ {o}) \ {x}]
            BY <6>1
          <6> QED
            BY <4>2, <4>5, <6>2, <6>3, <6>4, <6>5, <6>6
        <5> QED
          BY <5>1, <5>2
      <4>7. F[r] \in Int
        BY <4>2, <4>5
      <4> QED
        BY <4>6, <4>7 DEF P
    <3> QED
      BY <3>1, <3>2
  <2> HIDE DEF P
  <2> QED
    BY <2>0, <2>1
<1>7. T = Nat
  <2> HIDE DEF T
  <2>1. T \in SUBSET Nat
    BY DEF T
  <2> QED
    BY <1>5, <1>6, <2>1, SetInduction
<1>8. ASSUME NEW r \in SUBSET S PROVE P(r)
  <2>1. Cardinality(r) \in Nat /\ Cardinality(r) <= Cardinality(r)
    BY <1>2
  <2> HIDE DEF P
  <2> QED
    BY <1>7, <2>1
<1> QED
  BY <1>4, <1>8

-----------------------------------------------------------------------------
(* Bits *)

(* The last n bits of v. *)
Low(v, n) == v % Pow(n)

(* The words. *)
Word == 0..(Pow(W) - 1)

(* The last n bits are below 2^n, and what is above them is Down. *)
LEMMA LowType ==
    ASSUME NEW v \in Nat, NEW n \in Nat
    PROVE  /\ Low(v, n) \in Nat /\ Low(v, n) < Pow(n) /\ Pow(n) \in Nat /\ Pow(n) >= 1
           /\ v = Down(v, n) + Low(v, n) /\ Down(v, n) \in Nat
<1>1. Pow(n) \in Nat /\ Pow(n) >= 1
  BY PowPositive
<1>2. v % Pow(n) \in 0..(Pow(n) - 1)
  BY <1>1, MultMod
<1>3. Down(v, n) \in Nat
  BY DownType
<1> QED
  BY <1>1, <1>2, <1>3 DEF Low, Down

(* A bit is 0 or 1, and the last bits are made of bits. *)
LEMMA BitIs ==
    ASSUME NEW v \in Nat, NEW n \in Nat
    PROVE  /\ Bit(v, n) \in {0, 1}
           /\ Low(v, n + 1) = Low(v, n) + Bit(v, n) * Pow(n)
           /\ Down(v, n) = Down(v, n + 1) + Bit(v, n) * Pow(n)
<1> DEFINE p == Pow(n)
           q == v \div p
           r == v % p
           h == q \div 2
           b == q % 2
<1>1. p \in Nat /\ p >= 1 /\ Pow(n + 1) = 2 * p
  BY PowPositive, PowNext
<1>2. q \in Nat /\ r \in 0..(p - 1) /\ v = p * q + r
  <2> HIDE DEF p
  <2> QED
    BY <1>1, DivMod
<1>b. Bit(v, n) = b
  BY Zenon DEF Bit, Pow
<1> HIDE DEF p, q, r
<1>3. h \in Nat /\ b \in 0..1 /\ q = 2 * h + b
  BY <1>2
<1> HIDE DEF h, b
<1>4. b * p + r \in 0..(2 * p - 1) /\ b * p \in Nat
  BY <1>1, <1>2, <1>3
<1>5. v = (2 * p) * h + (b * p + r)
  <2>1. p * (2 * h + b) = (2 * p) * h + b * p
    BY <1>1, <1>3
  <2> QED
    BY <1>2, <1>3, <2>1, <1>1
<1>6. 2 * p \in Nat /\ 2 * p >= 1
  BY <1>1
<1>7. v % (2 * p) = b * p + r
  BY <1>3, <1>4, <1>5, <1>6, ModUnique
<1>8. Low(v, n + 1) = Low(v, n) + Bit(v, n) * Pow(n)
  BY <1>1, <1>2, <1>4, <1>7, <1>b DEF Low, r, p
<1>9. /\ v = Down(v, n) + Low(v, n) /\ v = Down(v, n + 1) + Low(v, n + 1)
      /\ Low(v, n) \in Nat /\ Low(v, n + 1) \in Nat /\ Down(v, n) \in Nat /\ Down(v, n + 1) \in Nat
  <2>1. n + 1 \in Nat
    OBVIOUS
  <2> QED
    BY <2>1, LowType
<1>10. Bit(v, n) * Pow(n) \in Nat
  BY <1>4, <1>b DEF p
<1> QED
  BY <1>3, <1>8, <1>9, <1>10, <1>b

(* No bits. *)
LEMMA LowNone ==
    ASSUME NEW v \in Nat
    PROVE  Low(v, 0) = 0 /\ Down(v, 0) = v /\ Pow(0) = 1
<1>1. Pow(0) = 1
  BY DEF Pow
<1>2. Low(v, 0) \in Nat /\ Low(v, 0) < 1 /\ v = Down(v, 0) + Low(v, 0) /\ Down(v, 0) \in Nat
  BY <1>1, LowType
<1> QED
  BY <1>1, <1>2

(* A word has W bits. *)
LEMMA LowAll ==
    ASSUME NEW v \in Word
    PROVE  v \in Nat /\ Low(v, W) = v /\ Down(v, W) = 0
<1>1. W \in Nat /\ Pow(W) \in Nat
  BY Constants, PowPositive
<1>2. v \in Nat /\ v < Pow(W)
  BY <1>1 DEF Word
<1>3. Down(v, W) = 0
  <2>1. 0 \in Nat /\ Mult(0, Pow(W)) /\ 0 <= v /\ v < 0 + Pow(W)
    BY <1>1, <1>2, MultZero
  <2> QED
    BY <1>1, <1>2, <2>1, DownIs
<1>4. v = Down(v, W) + Low(v, W) /\ Low(v, W) \in Nat
  BY <1>1, <1>2, LowType
<1> QED
  BY <1>2, <1>3, <1>4

(* One bit more, of two words. *)
LEMMA BitSame ==
    ASSUME NEW u \in Nat, NEW v \in Nat, NEW n \in Nat
    PROVE  /\ Low(u, n + 1) = Low(v, n + 1) <=> Low(u, n) = Low(v, n) /\ Bit(u, n) = Bit(v, n)
           /\ Down(u, n) = Down(v, n) <=> Down(u, n + 1) = Down(v, n + 1) /\ Bit(u, n) = Bit(v, n)
<1> DEFINE p == Pow(n)
<1>1. p \in Nat /\ p >= 1
  BY PowPositive
<1>2. /\ Bit(u, n) \in {0, 1} /\ Low(u, n + 1) = Low(u, n) + Bit(u, n) * p
      /\ Down(u, n) = Down(u, n + 1) + Bit(u, n) * p
  BY BitIs
<1>3. /\ Bit(v, n) \in {0, 1} /\ Low(v, n + 1) = Low(v, n) + Bit(v, n) * p
      /\ Down(v, n) = Down(v, n + 1) + Bit(v, n) * p
  BY BitIs
<1>4. /\ Low(u, n) \in Nat /\ Low(u, n) < p /\ Low(v, n) \in Nat /\ Low(v, n) < p
  BY LowType
<1>5. /\ Bit(u, n) * p = IF Bit(u, n) = 0 THEN 0 ELSE p
      /\ Bit(v, n) * p = IF Bit(v, n) = 0 THEN 0 ELSE p
  BY <1>1, <1>2, <1>3
<1>6. Low(u, n + 1) = Low(v, n + 1) <=> Low(u, n) = Low(v, n) /\ Bit(u, n) = Bit(v, n)
  BY <1>1, <1>2, <1>3, <1>4, <1>5
<1>7. Down(u, n) = Down(v, n) => Down(u, n + 1) = Down(v, n + 1)
  <2> DEFINE x == Down(u, n + 1)
             y == Down(v, n + 1)
  <2>1. n + 1 \in Nat /\ Pow(n + 1) = 2 * p
    BY PowNext
  <2>2. x \in Nat /\ y \in Nat /\ Mult(x, Pow(n + 1)) /\ Mult(y, Pow(n + 1)) /\ Pow(n + 1) \in Nat
        /\ Pow(n + 1) >= 1
    BY <2>1, DownType
  <2> HIDE DEF x, y, p
  <2>3. x < y => x + Pow(n + 1) <= y
    BY <2>2, MultGap
  <2>4. y < x => y + Pow(n + 1) <= x
    BY <2>2, MultGap
  <2>5. Down(u, n) = x + (IF Bit(u, n) = 0 THEN 0 ELSE p) /\ Down(v, n) = y + (IF Bit(v, n) = 0 THEN 0 ELSE p)
    BY <1>2, <1>3, <1>5 DEF x, y
  <2>6. Down(u, n) = Down(v, n) => x = y
    BY <1>1, <2>1, <2>2, <2>3, <2>4, <2>5
  <2> QED
    BY <2>6 DEF x, y
<1>8. Down(u, n) = Down(v, n) <=> Down(u, n + 1) = Down(v, n + 1) /\ Bit(u, n) = Bit(v, n)
  <2>1. Down(u, n + 1) \in Nat /\ Down(v, n + 1) \in Nat
    <3>1. n + 1 \in Nat
      OBVIOUS
    <3> QED
      BY <3>1, LowType
  <2> QED
    BY <1>1, <1>2, <1>3, <1>5, <1>7, <2>1
<1> QED
  BY <1>6, <1>8

(* The last n bits tell the last n, and only these. *)
LEMMA LowSame ==
    ASSUME NEW u \in Nat, NEW v \in Nat, NEW n \in Nat
    PROVE  Low(u, n) = Low(v, n) <=> \A i \in Nat : i < n => Bit(u, i) = Bit(v, i)
<1> DEFINE E(m) == \A i \in Nat : i < m => Bit(u, i) = Bit(v, i)
           T == {m \in Nat : Low(u, m) = Low(v, m) <=> E(m)}
<1>1. 0 \in T
  <2>1. Low(u, 0) = Low(v, 0)
    BY LowNone
  <2>2. E(0)
    OBVIOUS
  <2> HIDE DEF E
  <2> QED
    BY <2>1, <2>2
<1>2. ASSUME NEW m \in T PROVE m + 1 \in T
  <2>1. m \in Nat /\ m + 1 \in Nat /\ (Low(u, m) = Low(v, m) <=> E(m))
    OBVIOUS
  <2>2. Low(u, m + 1) = Low(v, m + 1) <=> Low(u, m) = Low(v, m) /\ Bit(u, m) = Bit(v, m)
    BY <2>1, BitSame
  <2>3. E(m + 1) <=> E(m) /\ Bit(u, m) = Bit(v, m)
    <3>1. \A i \in Nat : i < m + 1 <=> i < m \/ i = m
      BY <2>1
    <3> QED
      BY <2>1, <3>1, Zenon
  <2> HIDE DEF E
  <2> QED
    BY <2>1, <2>2, <2>3
<1>3. T = Nat
  <2> HIDE DEF T
  <2>1. T \in SUBSET Nat
    BY DEF T
  <2> QED
    BY <1>1, <1>2, <2>1, SetInduction
<1> QED
  BY <1>3, Zenon

(* What is above the last b bits tells the bits above. *)
LEMMA DownSame ==
    ASSUME NEW u \in Word, NEW v \in Word, NEW b \in 0..W
    PROVE  Down(u, b) = Down(v, b) <=> \A i \in Nat : b <= i /\ i < W => Bit(u, i) = Bit(v, i)
<1> DEFINE E(m) == \A i \in Nat : W - m <= i /\ i < W => Bit(u, i) = Bit(v, i)
           T == {m \in Nat : m <= W => (Down(u, W - m) = Down(v, W - m) <=> E(m))}
<1>0. W \in Nat /\ u \in Nat /\ v \in Nat /\ Down(u, W) = 0 /\ Down(v, W) = 0
  BY Constants, LowAll
<1>1. 0 \in T
  <2>1. W - 0 = W
    BY <1>0
  <2>2. E(0)
    BY <1>0
  <2> HIDE DEF E
  <2> QED
    BY <1>0, <2>1, <2>2
<1>2. ASSUME NEW m \in T PROVE m + 1 \in T
  <2> SUFFICES ASSUME m + 1 <= W PROVE Down(u, W - (m + 1)) = Down(v, W - (m + 1)) <=> E(m + 1)
    OBVIOUS
  <2> DEFINE n == W - (m + 1)
  <2>1. m \in Nat /\ m <= W /\ n \in Nat /\ n + 1 = W - m /\ n < W
    BY <1>0
  <2>2. Down(u, W - m) = Down(v, W - m) <=> E(m)
    BY <2>1
  <2>3. E(m + 1) <=> E(m) /\ Bit(u, n) = Bit(v, n)
    <3>1. \A i \in Nat : n <= i /\ i < W <=> (W - m <= i /\ i < W) \/ i = n
      BY <1>0, <2>1
    <3>2. ASSUME E(m + 1) PROVE E(m) /\ Bit(u, n) = Bit(v, n)
      <4>1. \A i \in Nat : n <= i /\ i < W => Bit(u, i) = Bit(v, i)
        BY <3>2, Zenon
      <4> HIDE DEF n
      <4> QED
        BY <2>1, <3>1, <4>1, Zenon
    <3>3. ASSUME E(m), Bit(u, n) = Bit(v, n) PROVE E(m + 1)
      <4>1. \A i \in Nat : n <= i /\ i < W => Bit(u, i) = Bit(v, i)
        <5> HIDE DEF n
        <5> QED
          BY <3>1, <3>3, Zenon
      <4> QED
        BY <4>1, Zenon
    <3> HIDE DEF E, n
    <3> QED
      BY <3>2, <3>3, Zenon
  <2> HIDE DEF n, E, T
  <2>4. Down(u, n) = Down(v, n) <=> Down(u, n + 1) = Down(v, n + 1) /\ Bit(u, n) = Bit(v, n)
    <3>1. n \in Nat /\ u \in Nat /\ v \in Nat
      BY <1>0, <2>1, Zenon
    <3> QED
      BY <3>1, BitSame, Zenon
  <2> QED
    BY <2>1, <2>2, <2>3, <2>4 DEF n
<1>3. T = Nat
  <2> HIDE DEF T
  <2>1. T \in SUBSET Nat
    BY DEF T
  <2> QED
    BY <1>1, <1>2, <2>1, SetInduction
<1>4. W - b \in Nat /\ W - b <= W /\ W - (W - b) = b
  BY <1>0
<1>5. Down(u, W - (W - b)) = Down(v, W - (W - b)) <=> E(W - b)
  <2> HIDE DEF E
  <2> QED
    BY <1>3, <1>4, Zenon
<1> QED
  BY <1>4, <1>5, Zenon

(* Words with the same bits are the same. *)
LEMMA WordSame ==
    ASSUME NEW u \in Word, NEW v \in Word, \A i \in Nat : i < W => Bit(u, i) = Bit(v, i)
    PROVE  u = v
<1>1. W \in Nat /\ u \in Nat /\ v \in Nat /\ Low(u, W) = u /\ Low(v, W) = v
  BY Constants, LowAll
<1> QED
  BY <1>1, LowSame

-----------------------------------------------------------------------------
(* The reverse of a word *)

(* The sum Rev adds up, and its terms. *)
Terms(v) == [i \in 0..(W - 1) |-> Bit(v, i) * 2^(W - 1 - i)]
BitSum(v) == CHOOSE F : F = [r \in SUBSET (0..(W - 1)) |->
                 IF r = {} THEN 0 ELSE Bit(v, One(r)) * 2^(W - 1 - One(r)) + F[r \ {One(r)}]]
(* The bits below n, reversed. *)
Upper(v, n) == BitSum(v)[0..(n - 1)]

(* Rev is that sum over all bits. *)
LEMMA RevSum ==
    ASSUME NEW v \in 0..(2^W - 1)
    PROVE  Rev[v] = BitSum(v)[0..(W - 1)]
  BY Zenon DEF Rev, MapThenSumSet, MapThenFoldSet, BitSum, One

(* It is a sum in the sense of Adder. *)
LEMMA BitSumIs ==
    ASSUME NEW v \in Nat
    PROVE  /\ IsFiniteSet(0..(W - 1)) /\ Terms(v) \in [0..(W - 1) -> Int]
           /\ Adder(BitSum(v), Terms(v), 0..(W - 1))
<1> DEFINE S == 0..(W - 1)
           h == Terms(v)
           G(F, r) == IF r = {} THEN 0 ELSE h[One(r)] + F[r \ {One(r)}]
           H(F, r) == IF r = {} THEN 0 ELSE Bit(v, One(r)) * 2^(W - 1 - One(r)) + F[r \ {One(r)}]
<1>0. W \in Nat
  BY Constants
<1>1. IsFiniteSet(S)
  BY <1>0, FS_Interval
<1>2. h \in [S -> Int]
  <2>1. ASSUME NEW i \in S PROVE Bit(v, i) * 2^(W - 1 - i) \in Int
    <3>1. i \in Nat /\ W - 1 - i \in Nat
      BY <1>0
    <3>2. Bit(v, i) \in {0, 1} /\ Pow(W - 1 - i) \in Nat
      BY <3>1, BitIs, PowPositive
    <3>3. Bit(v, i) * Pow(W - 1 - i) \in Int
      BY <3>2
    <3> QED
      BY <3>3 DEF Pow
  <2> QED
    BY <2>1, Zenon DEF Terms
<1>3. \A F : \A r \in SUBSET S : G(F, r) = H(F, r)
  <2> SUFFICES ASSUME NEW F, NEW r \in SUBSET S, r # {} PROVE h[One(r)] = Bit(v, One(r)) * 2^(W - 1 - One(r))
    BY Zenon
  <2>1. One(r) \in S
    BY OneLess
  <2> QED
    BY <2>1, Zenon DEF Terms
<1>4. PICK F \in [SUBSET S -> Int] : Adder(F, h, S)
  <2> HIDE DEF S, h
  <2> QED
    BY <1>1, <1>2, AdderExists
<1>5. F = [r \in SUBSET S |-> G(F, r)]
  BY <1>4, Zenon DEF Adder
<1>6. F = [r \in SUBSET S |-> H(F, r)]
  <2> HIDE DEF G, H, S
  <2> QED
    BY <1>3, <1>5, Zenon
<1>7. BitSum(v) = [r \in SUBSET S |-> H(BitSum(v), r)]
  BY <1>6, Zenon DEF BitSum
<1>8. BitSum(v) = [r \in SUBSET S |-> G(BitSum(v), r)]
  <2> HIDE DEF G, H, S
  <2> QED
    BY <1>3, <1>7, Zenon
<1>9. Adder(BitSum(v), h, S)
  BY <1>8, Zenon DEF Adder
<1> QED
  BY <1>1, <1>2, <1>9

(* The sum, a bit at a time. *)
LEMMA UpperIs ==
    ASSUME NEW v \in Nat
    PROVE  /\ Upper(v, 0) = 0
           /\ \A n \in Nat : n < W => Upper(v, n + 1) = Upper(v, n) + Bit(v, n) * Pow(W - 1 - n)
           /\ \A n \in Nat : n <= W => Upper(v, n) \in Int
<1> DEFINE S == 0..(W - 1)
           h == Terms(v)
           F == BitSum(v)
<1>0. W \in Nat
  BY Constants
<1>1. IsFiniteSet(S) /\ h \in [S -> Int] /\ Adder(F, h, S)
  BY BitSumIs
<1>2. F[{}] = 0 /\ \A r \in SUBSET S : F[r] \in Int /\ \A x \in r : F[r] = h[x] + F[r \ {x}]
  <2> HIDE DEF S, h, F
  <2> QED
    BY <1>1, AdderAny
<1>3. Upper(v, 0) = 0
  <2>1. 0..(0 - 1) = {}
    OBVIOUS
  <2> QED
    BY <1>2, <2>1, Zenon DEF Upper
<1>4. ASSUME NEW n \in Nat, n < W PROVE Upper(v, n + 1) = Upper(v, n) + Bit(v, n) * Pow(W - 1 - n)
  <2> DEFINE r == 0..((n + 1) - 1)
  <2>1. r \in SUBSET S /\ n \in r /\ r \ {n} = 0..(n - 1) /\ n \in S
    BY <1>0, <1>4
  <2> HIDE DEF r, S, F, h
  <2>2. F[r] = h[n] + F[r \ {n}] /\ F[r] \in Int
    BY <1>2, <2>1
  <2>3. r \ {n} \in SUBSET S
    BY <2>1
  <2>4. F[r \ {n}] \in Int /\ h[n] \in Int
    BY <1>1, <1>2, <2>1, <2>3
  <2>5. h[n] = Bit(v, n) * Pow(W - 1 - n)
    BY <2>1, Zenon DEF h, S, Terms, Pow
  <2>6. F[r] = F[r \ {n}] + h[n]
    BY <2>2, <2>4
  <2>7. Upper(v, n + 1) = F[r] /\ Upper(v, n) = F[r \ {n}]
    BY <2>1, Zenon DEF Upper, F, r
  <2> QED
    BY <2>5, <2>6, <2>7
<1>5. ASSUME NEW n \in Nat, n <= W PROVE Upper(v, n) \in Int
  <2>1. 0..(n - 1) \in SUBSET S
    BY <1>0, <1>5
  <2> QED
    BY <1>2, <2>1, Zenon DEF Upper
<1> QED
  BY <1>3, <1>4, <1>5

(* The first n bits reversed are a multiple of 2^(W - n). *)
LEMMA UpperMult ==
    ASSUME NEW v \in Nat, NEW n \in 0..W
    PROVE  Mult(Upper(v, n), Pow(W - n)) /\ Upper(v, n) \in Int /\ Upper(v, n) >= 0
<1> DEFINE T == {m \in Nat : m <= W => /\ Mult(Upper(v, m), Pow(W - m)) /\ Upper(v, m) \in Int
                                       /\ Upper(v, m) >= 0}
<1>0. W \in Nat
  BY Constants
<1>1. 0 \in T
  <2>1. Upper(v, 0) = 0 /\ W - 0 = W /\ Pow(W) \in Int
    BY <1>0, UpperIs, PowPositive
  <2> QED
    BY <2>1, MultZero
<1>2. ASSUME NEW m \in T PROVE m + 1 \in T
  <2> SUFFICES ASSUME m + 1 <= W
               PROVE  /\ Mult(Upper(v, m + 1), Pow(W - (m + 1))) /\ Upper(v, m + 1) \in Int
                      /\ Upper(v, m + 1) >= 0
    OBVIOUS
  <2> DEFINE b == W - 1 - m
  <2>1. m \in Nat /\ m < W /\ b \in Nat /\ W - m = b + 1 /\ W - (m + 1) = b /\ m <= W /\ b + 1 \in Nat
    BY <1>0
  <2>2. Mult(Upper(v, m), Pow(b + 1)) /\ Upper(v, m) \in Int /\ Upper(v, m) >= 0
    BY <2>1
  <2> HIDE DEF b
  <2>3. Upper(v, m + 1) = Upper(v, m) + Bit(v, m) * Pow(b)
    BY <2>1, UpperIs DEF b
  <2>4. Bit(v, m) \in {0, 1} /\ Pow(b) \in Nat
    BY <2>1, BitIs, PowPositive
  <2>5. Mult(Upper(v, m), Pow(b)) /\ Mult(0, Pow(b)) /\ Mult(Pow(b), Pow(b))
    BY <2>1, <2>2, <2>4, MultPow, MultZero
  <2>6. Mult(Upper(v, m) + Pow(b), Pow(b))
    BY <2>2, <2>4, <2>5, MultSum
  <2>7. Upper(v, m + 1) = Upper(v, m) \/ Upper(v, m + 1) = Upper(v, m) + Pow(b)
    BY <2>2, <2>3, <2>4
  <2> QED
    BY <2>1, <2>2, <2>4, <2>5, <2>6, <2>7
<1>3. T = Nat
  <2> HIDE DEF T
  <2>1. T \in SUBSET Nat
    BY DEF T
  <2> QED
    BY <1>1, <1>2, <2>1, SetInduction
<1> QED
  BY <1>0, <1>3

(* What follows adds less than 2^(W - n). *)
LEMMA UpperBound ==
    ASSUME NEW v \in Nat, NEW n \in 0..W
    PROVE  Upper(v, n) <= Upper(v, W) /\ Upper(v, W) < Upper(v, n) + Pow(W - n)
<1> DEFINE T == {m \in Nat : m <= W => /\ Upper(v, W - m) <= Upper(v, W)
                                       /\ Upper(v, W) < Upper(v, W - m) + Pow(m)}
<1>0. W \in Nat /\ Upper(v, W) \in Int
  BY Constants, UpperIs
<1>1. 0 \in T
  <2>1. W - 0 = W /\ Pow(0) = 1
    BY <1>0, LowNone
  <2> QED
    BY <1>0, <2>1
<1>2. ASSUME NEW m \in T PROVE m + 1 \in T
  <2> SUFFICES ASSUME m + 1 <= W
               PROVE  /\ Upper(v, W - (m + 1)) <= Upper(v, W)
                      /\ Upper(v, W) < Upper(v, W - (m + 1)) + Pow(m + 1)
    OBVIOUS
  <2> DEFINE q == W - (m + 1)
  <2>1. m \in Nat /\ q \in Nat /\ W - m = q + 1 /\ q < W /\ q <= W /\ m <= W /\ W - 1 - q = m
    BY <1>0
  <2>2. Upper(v, q + 1) <= Upper(v, W) /\ Upper(v, W) < Upper(v, q + 1) + Pow(m)
    BY <2>1
  <2> HIDE DEF q
  <2>3. Upper(v, q + 1) = Upper(v, q) + Bit(v, q) * Pow(m) /\ Upper(v, q) \in Int
    BY <2>1, UpperIs
  <2>4. Bit(v, q) \in {0, 1} /\ Pow(m) \in Nat /\ Pow(m + 1) = 2 * Pow(m)
    BY <2>1, BitIs, PowPositive, PowNext
  <2>5. Upper(v, q + 1) = Upper(v, q) \/ Upper(v, q + 1) = Upper(v, q) + Pow(m)
    BY <2>3, <2>4
  <2> QED
    BY <1>0, <2>2, <2>3, <2>4, <2>5 DEF q
<1>3. T = Nat
  <2> HIDE DEF T
  <2>1. T \in SUBSET Nat
    BY DEF T
  <2> QED
    BY <1>1, <1>2, <2>1, SetInduction
<1>4. W - n \in Nat /\ W - n <= W /\ W - (W - n) = n
  BY <1>0
<1> QED
  BY <1>3, <1>4

(* rev reverses the bits. *)
LEMMA RevBits ==
    ASSUME NEW v \in Word
    PROVE  /\ Rev[v] \in Word
           /\ \A i \in Nat : i < W => Bit(Rev[v], W - 1 - i) = Bit(v, i)
<1> DEFINE x == Rev[v]
<1>0. W \in Nat /\ v \in Nat
  BY Constants, LowAll
<1>1. x = Upper(v, W)
  BY RevSum, Zenon DEF Upper, Word, Pow
<1>2. 0 \in 0..W /\ W \in 0..W /\ Upper(v, 0) = 0 /\ W - 0 = W
  BY <1>0, UpperIs
<1>3. x \in Int /\ 0 <= x /\ x < 0 + Pow(W) /\ Pow(W) \in Nat
  BY <1>0, <1>1, <1>2, UpperMult, UpperBound, PowPositive
<1> HIDE DEF x
<1>4. x \in Word /\ x \in Nat
  BY <1>3 DEF Word
<1>5. ASSUME NEW n \in 0..W PROVE Down(x, W - n) = Upper(v, n)
  <2>1. /\ Mult(Upper(v, n), Pow(W - n)) /\ Upper(v, n) \in Int /\ Upper(v, n) >= 0
        /\ Upper(v, n) <= x /\ x < Upper(v, n) + Pow(W - n)
    BY <1>0, <1>1, UpperMult, UpperBound
  <2>2. W - n \in Nat /\ Upper(v, n) \in Nat
    BY <1>0, <2>1
  <2> QED
    BY <1>4, <2>1, <2>2, DownIs
<1>6. ASSUME NEW i \in Nat, i < W PROVE Bit(x, W - 1 - i) = Bit(v, i)
  <2> DEFINE b == W - 1 - i
  <2>1. b \in Nat /\ W - i = b + 1 /\ W - (i + 1) = b /\ i \in 0..W /\ i + 1 \in 0..W
    BY <1>0, <1>6
  <2> HIDE DEF b
  <2>2. Down(x, b + 1) = Upper(v, i) /\ Down(x, b) = Upper(v, i + 1)
    <3>1. Down(x, W - i) = Upper(v, i) /\ Down(x, W - (i + 1)) = Upper(v, i + 1)
      BY <1>5, <2>1
    <3> QED
      BY <2>1, <3>1
  <2>3. Upper(v, i + 1) = Upper(v, i) + Bit(v, i) * Pow(b) /\ Upper(v, i) \in Int
    <3>1. i <= W
      BY <2>1
    <3> QED
      BY <1>0, <1>6, <3>1, UpperIs DEF b
  <2>4. Bit(x, b) \in {0, 1} /\ Down(x, b) = Down(x, b + 1) + Bit(x, b) * Pow(b) /\ Bit(v, i) \in {0, 1}
    BY <1>0, <1>4, <2>1, BitIs
  <2>5. Pow(b) \in Nat /\ Pow(b) >= 1
    BY <2>1, PowPositive
  <2>6. Bit(x, b) = Bit(v, i)
    BY <2>2, <2>3, <2>4, <2>5
  <2> QED
    BY <2>6 DEF b
<1> QED
  BY <1>4, <1>6 DEF x

(* Reversing twice gives the word back. *)
LEMMA RevRev ==
    ASSUME NEW v \in Word
    PROVE  Rev[v] \in Word /\ Rev[Rev[v]] = v
<1>0. W \in Nat
  BY Constants
<1>1. Rev[v] \in Word /\ \A i \in Nat : i < W => Bit(Rev[v], W - 1 - i) = Bit(v, i)
  BY RevBits
<1>2. Rev[Rev[v]] \in Word /\ \A i \in Nat : i < W => Bit(Rev[Rev[v]], W - 1 - i) = Bit(Rev[v], i)
  BY <1>1, RevBits
<1>3. ASSUME NEW i \in Nat, i < W PROVE Bit(Rev[Rev[v]], i) = Bit(v, i)
  <2>1. W - 1 - i \in Nat /\ W - 1 - i < W /\ W - 1 - (W - 1 - i) = i
    BY <1>0, <1>3
  <2>2. Bit(Rev[Rev[v]], W - 1 - (W - 1 - i)) = Bit(Rev[v], W - 1 - i)
    BY <1>2, <2>1
  <2> QED
    BY <1>1, <1>3, <2>1, <2>2
<1> QED
  BY <1>1, <1>2, <1>3, WordSame

(* The last bits of a word are the first of its reverse: what is in one    *)
(* bucket lies together in the order of the cursor.                        *)
LEMMA RevPart ==
    ASSUME NEW u \in Word, NEW v \in Word, NEW e \in 0..W
    PROVE  Low(u, e) = Low(v, e) <=> Down(Rev[u], W - e) = Down(Rev[v], W - e)
<1> DEFINE x == Rev[u]
           y == Rev[v]
<1>0. W \in Nat /\ e \in Nat /\ e <= W /\ W - e \in 0..W /\ u \in Nat /\ v \in Nat
  BY Constants, LowAll
<1>1. x \in Word /\ \A i \in Nat : i < W => Bit(x, W - 1 - i) = Bit(u, i)
  BY RevBits
<1>2. y \in Word /\ \A i \in Nat : i < W => Bit(y, W - 1 - i) = Bit(v, i)
  BY RevBits
<1> HIDE DEF x, y
<1>3. Low(u, e) = Low(v, e) <=> \A i \in Nat : i < e => Bit(u, i) = Bit(v, i)
  BY <1>0, LowSame
<1>4. Down(x, W - e) = Down(y, W - e) <=> \A i \in Nat : W - e <= i /\ i < W => Bit(x, i) = Bit(y, i)
  BY <1>0, <1>1, <1>2, DownSame
<1>5. ASSUME \A i \in Nat : i < e => Bit(u, i) = Bit(v, i), NEW i \in Nat, W - e <= i, i < W
      PROVE  Bit(x, i) = Bit(y, i)
  <2> DEFINE j == W - 1 - i
  <2>1. j \in Nat /\ j < e /\ j < W /\ W - 1 - j = i
    BY <1>0, <1>5
  <2> HIDE DEF j
  <2>2. Bit(x, W - 1 - j) = Bit(u, j) /\ Bit(y, W - 1 - j) = Bit(v, j) /\ Bit(u, j) = Bit(v, j)
    BY <1>1, <1>2, <1>5, <2>1
  <2> QED
    BY <2>1, <2>2
<1>6. ASSUME \A i \in Nat : W - e <= i /\ i < W => Bit(x, i) = Bit(y, i), NEW i \in Nat, i < e
      PROVE  Bit(u, i) = Bit(v, i)
  <2> DEFINE j == W - 1 - i
  <2>1. j \in Nat /\ j < W /\ W - e <= j /\ i < W
    BY <1>0, <1>6
  <2>2. Bit(x, j) = Bit(u, i) /\ Bit(y, j) = Bit(v, i)
    BY <1>1, <1>2, <2>1
  <2> HIDE DEF j
  <2>3. Bit(x, j) = Bit(y, j)
    BY <1>6, <2>1
  <2> QED
    BY <2>2, <2>3
<1>7. Low(u, e) = Low(v, e) <=> Down(x, W - e) = Down(y, W - e)
  BY <1>3, <1>4, <1>5, <1>6, Zenon
<1> QED
  BY <1>7 DEF x, y

(* Zero is its own reverse. *)
LEMMA RevZero == 0 \in Word /\ Rev[0] = 0 /\ \A b \in Nat : Low(0, b) = 0 /\ Down(0, b) = 0
<1>0. W \in Nat /\ Pow(W) \in Nat /\ Pow(W) >= 1
  BY Constants, PowPositive
<1>1. 0 \in Word
  BY <1>0 DEF Word
<1>2. ASSUME NEW b \in Nat PROVE Low(0, b) = 0 /\ Down(0, b) = 0
  <2>1. Low(0, b) \in Nat /\ 0 = Down(0, b) + Low(0, b) /\ Down(0, b) \in Nat
    BY LowType
  <2> QED
    BY <2>1
<1>3. Rev[0] \in Word
  BY <1>1, RevRev
<1>7. ASSUME NEW n \in Nat PROVE Bit(0, n) = 0
  <2>1. /\ Bit(0, n) \in {0, 1} /\ Low(0, n + 1) = Low(0, n) + Bit(0, n) * Pow(n)
        /\ Pow(n) \in Nat /\ Pow(n) >= 1 /\ n + 1 \in Nat
    BY BitIs, PowPositive
  <2>2. Low(0, n + 1) = 0 /\ Low(0, n) = 0
    BY <1>2, <2>1
  <2> QED
    BY <2>1, <2>2
<1>8. ASSUME NEW i \in Nat, i < W PROVE Bit(Rev[0], i) = Bit(0, i)
  <2> DEFINE j == W - 1 - i
  <2>1. j \in Nat /\ j < W /\ W - 1 - j = i
    BY <1>0, <1>8
  <2> HIDE DEF j
  <2>2. Bit(Rev[0], W - 1 - j) = Bit(0, j)
    BY <1>1, <2>1, RevBits
  <2> QED
    BY <1>7, <2>1, <2>2
<1>9. Rev[0] = 0
  BY <1>1, <1>3, <1>8, WordSame
<1> QED
  BY <1>1, <1>2, <1>9

(* With all bits from e on set, the reverse is at the end of its part. *)
LEMMA RevOnes ==
    ASSUME NEW v \in Word, NEW e \in 0..W
    PROVE  LET ones == Low(v, e) + (Pow(W) - Pow(e)) IN
           ones \in Word /\ Rev[ones] + 1 = Down(Rev[v], W - e) + Pow(W - e)
<1> DEFINE p == Low(v, e)
           ones == p + (Pow(W) - Pow(e))
           x == Rev[ones]
           m == W - e
<1>0. W \in Nat /\ e \in Nat /\ e <= W /\ m \in Nat /\ v \in Nat
  BY Constants, LowAll
<1>1. Pow(W) \in Nat /\ Pow(e) \in Nat /\ Pow(e) >= 1 /\ Pow(e) <= Pow(W) /\ p \in Nat /\ p < Pow(e)
  BY <1>0, PowPositive, PowMonotone, LowType
<1>2. ones \in Word /\ ones \in Nat
  <2> HIDE DEF p
  <2> QED
    BY <1>1 DEF Word
<1>3. ASSUME NEW b \in Nat, e <= b, b <= W PROVE Down(ones, b) = Pow(W) - Pow(b)
  <2>1. Pow(b) \in Nat /\ Pow(b) <= Pow(W) /\ Pow(e) <= Pow(b)
    BY <1>0, <1>3, PowPositive, PowMonotone
  <2>2. Mult(Pow(W) - Pow(b), Pow(b))
    <3>1. Mult(Pow(W), Pow(W)) /\ Mult(Pow(b), Pow(b))
      BY <1>1, <2>1, MultZero
    <3>2. Mult(Pow(W), Pow(b))
      BY <1>0, <1>1, <1>3, <3>1, MultPow
    <3> QED
      BY <1>1, <2>1, <3>1, <3>2, MultSum
  <2> HIDE DEF p
  <2>3. Pow(W) - Pow(b) \in Nat /\ Pow(W) - Pow(b) <= ones /\ ones < (Pow(W) - Pow(b)) + Pow(b)
    BY <1>1, <2>1
  <2> HIDE DEF ones
  <2> QED
    BY <1>2, <2>2, <2>3, DownIs
<1>4. ASSUME NEW b \in Nat, e <= b, b < W PROVE Bit(ones, b) = 1
  <2>1. /\ Bit(ones, b) \in {0, 1} /\ Down(ones, b) = Down(ones, b + 1) + Bit(ones, b) * Pow(b)
        /\ Pow(b) \in Nat /\ Pow(b) >= 1 /\ Pow(b + 1) = 2 * Pow(b)
    <3> HIDE DEF ones
    <3> QED
      BY <1>2, BitIs, PowPositive, PowNext
  <2>2. b + 1 \in Nat /\ b + 1 <= W /\ e <= b + 1 /\ b <= W
    BY <1>0, <1>4
  <2>3. Down(ones, b) = Pow(W) - Pow(b) /\ Down(ones, b + 1) = Pow(W) - Pow(b + 1)
    <3> HIDE DEF ones
    <3> QED
      BY <1>3, <1>4, <2>2
  <2> HIDE DEF ones
  <2> QED
    BY <1>1, <2>1, <2>3
<1> HIDE DEF ones
<1>5. x \in Word /\ \A i \in Nat : i < W => Bit(x, W - 1 - i) = Bit(ones, i)
  BY <1>2, RevBits
<1>6. x \in Nat
  BY <1>5, LowAll
<1> HIDE DEF x
<1> DEFINE T == {n \in Nat : n <= m => Low(x, n) = Pow(n) - 1}
<1>7. 0 \in T
  <2>1. Low(x, 0) = 0 /\ Pow(0) = 1
    BY <1>6, LowNone
  <2> QED
    BY <2>1
<1>8. ASSUME NEW n \in T PROVE n + 1 \in T
  <2> SUFFICES ASSUME n + 1 <= m PROVE Low(x, n + 1) = Pow(n + 1) - 1
    OBVIOUS
  <2> DEFINE i == W - 1 - n
  <2>1. n \in Nat /\ n <= m /\ i \in Nat /\ i < W /\ e <= i /\ W - 1 - i = n
    BY <1>0
  <2> HIDE DEF i
  <2>2. Bit(x, W - 1 - i) = Bit(ones, i) /\ Bit(ones, i) = 1
    BY <1>4, <1>5, <2>1
  <2>3. Low(x, n + 1) = Low(x, n) + Bit(x, n) * Pow(n) /\ Pow(n) \in Nat /\ Pow(n + 1) = 2 * Pow(n)
    BY <1>6, <2>1, BitIs, PowPositive, PowNext
  <2>4. Low(x, n) = Pow(n) - 1
    BY <2>1
  <2> QED
    BY <2>1, <2>2, <2>3, <2>4
<1>9. T = Nat
  <2> HIDE DEF T
  <2>1. T \in SUBSET Nat
    BY DEF T
  <2> QED
    BY <1>7, <1>8, <2>1, SetInduction
<1>10. Low(x, m) = Pow(m) - 1
  <2>1. m <= m
    BY <1>0
  <2> QED
    BY <1>0, <1>9, <2>1, Zenon
<1>11. Low(ones, e) = Low(v, e)
  <2>1. ones = Down(ones, e) + Low(ones, e) /\ Low(ones, e) \in Nat
    BY <1>0, <1>2, LowType
  <2>2. e <= e
    BY <1>0
  <2>3. Down(ones, e) = Pow(W) - Pow(e)
    BY <1>0, <1>3, <2>2
  <2> HIDE DEF p
  <2>4. Low(ones, e) = p
    BY <1>1, <2>1, <2>3 DEF ones
  <2> QED
    BY <2>4 DEF p
<1>12. Down(x, m) = Down(Rev[v], m)
  BY <1>2, <1>11, RevPart DEF x
<1>13. x = Down(x, m) + Low(x, m) /\ Down(x, m) \in Nat /\ Pow(m) \in Nat
  BY <1>0, <1>6, LowType
<1> HIDE DEF m
<1>14. x + 1 = Down(Rev[v], m) + Pow(m)
  BY <1>10, <1>12, <1>13
<1> QED
  BY <1>2, <1>14 DEF ones, x, m

-----------------------------------------------------------------------------
(* The order of scans *)

(* The cursor at position y in the order of scans; 0 after the last. *)
CursorAt(y) == Rev[y % Pow(W)]

(* The position after the words that are in one bucket with v, in a table  *)
(* of exponent e.                                                          *)
Beyond(v, e) == Down(Rev[v], W - e) + Pow(W - e)

(* The position of a cursor. *)
LEMMA CursorIs ==
    ASSUME NEW y \in 1..Pow(W)
    PROVE  /\ CursorAt(y) \in Word
           /\ y < Pow(W) => Rev[CursorAt(y)] = y /\ CursorAt(y) # 0
           /\ y = Pow(W) => CursorAt(y) = 0
<1>0. W \in Nat /\ Pow(W) \in Nat /\ Pow(W) >= 1 /\ y \in Nat
  BY Constants, PowPositive
<1>1. CASE y < Pow(W)
  <2>1. y \in Word
    BY <1>0, <1>1 DEF Word
  <2>2. y % Pow(W) = y
    BY <2>1, LowAll DEF Low
  <2>3. Rev[y] \in Word /\ Rev[Rev[y]] = y
    BY <2>1, RevRev
  <2>4. Rev[y] # 0
    <3>1. y # 0
      OBVIOUS
    <3> QED
      BY <2>3, <3>1, RevZero
  <2>5. ~(y = Pow(W))
    BY <1>0, <1>1
  <2> QED
    BY <2>2, <2>3, <2>4, <2>5, Zenon DEF CursorAt
<1>2. CASE y = Pow(W)
  <2>1. y % Pow(W) = 0
    <3>1. Mult(Pow(W), Pow(W))
      BY <1>0, MultZero
    <3> QED
      BY <1>0, <1>2, <3>1, MultMod
  <2>2. CursorAt(y) = 0
    BY <2>1, RevZero DEF CursorAt
  <2>3. ~(y < Pow(W))
    BY <1>0, <1>2
  <2> QED
    BY <2>2, <2>3, RevZero
<1> QED
  BY <1>0, <1>1, <1>2

(* The position after a bucket. *)
LEMMA BeyondIs ==
    ASSUME NEW v \in Word, NEW e \in 0..W
    PROVE  /\ Beyond(v, e) \in 1..Pow(W) /\ Rev[v] < Beyond(v, e) /\ Mult(Beyond(v, e), Pow(W - e))
           /\ Down(Rev[v], W - e) \in Nat /\ Down(Rev[v], W - e) <= Rev[v] /\ W - e \in Nat
           /\ Pow(W - e) \in Nat /\ Pow(W - e) >= 1
<1> DEFINE x == Rev[v]
           m == W - e
           n == Down(x, m)
<1>0. W \in Nat /\ e \in Nat /\ e <= W /\ m \in Nat /\ m <= W /\ Pow(W) \in Nat
  BY Constants, PowPositive
<1>1. x \in Word /\ x \in Nat /\ x < Pow(W)
  <2>1. x \in Word
    BY RevRev
  <2> HIDE DEF x
  <2> QED
    BY <1>0, <2>1 DEF Word
<1> HIDE DEF x, m
<1>2. /\ n \in Nat /\ Mult(n, Pow(m)) /\ n <= x /\ x < n + Pow(m) /\ Pow(m) \in Nat /\ Pow(m) >= 1
  BY <1>0, <1>1, DownType
<1> HIDE DEF n
<1>3. Mult(Pow(m), Pow(m)) /\ Mult(Pow(W), Pow(W))
  BY <1>0, <1>2, MultZero
<1>4. Mult(n + Pow(m), Pow(m)) /\ Mult(Pow(W), Pow(m))
  BY <1>0, <1>2, <1>3, MultSum, MultPow
<1>5. n + Pow(m) <= Pow(W)
  <2>1. n < Pow(W)
    BY <1>0, <1>1, <1>2
  <2> QED
    BY <1>0, <1>2, <1>4, <2>1, MultGap
<1>6. n + Pow(m) \in 1..Pow(W)
  BY <1>0, <1>2, <1>5
<1> QED
  BY <1>0, <1>2, <1>4, <1>6 DEF Beyond, n, m, x

(* The next cursor is at the position after the bucket. *)
LEMMA NextIs ==
    ASSUME NEW v \in Word, NEW e \in 0..W
    PROVE  NextCursor(v, e) = CursorAt(Beyond(v, e))
<1>1. e \in -1..W /\ e # -1
  BY Constants
<1>2. Size(e) = Pow(e)
  BY <1>1, SizeType
<1> DEFINE ones == Low(v, e) + (Pow(W) - Pow(e))
<1>3. Rev[ones] + 1 = Beyond(v, e)
  BY RevOnes DEF Beyond
<1>4. NextCursor(v, e) = Rev[(Rev[ones] + 1) % Pow(W)]
  BY <1>2, Zenon DEF NextCursor, Low, Pow
<1> QED
  BY <1>3, <1>4, Zenon DEF CursorAt

(* A word has only its last b bits if its reverse is a multiple. *)
LEMMA RevMult ==
    ASSUME NEW n \in Word, NEW b \in 0..W
    PROVE  Down(n, b) = 0 <=> Mult(Rev[n], Pow(W - b))
<1> DEFINE x == Rev[n]
           m == W - b
<1>0. W \in Nat /\ b \in Nat /\ b <= W /\ m \in Nat /\ m \in 0..W /\ W - m = b
  BY Constants
<1>1. x \in Word /\ Rev[x] = n
  BY RevRev
<1>2. x \in Nat
  BY <1>1, LowAll
<1> HIDE DEF x, m
<1>3. Low(x, m) = Low(0, m) <=> Down(Rev[x], W - m) = Down(Rev[0], W - m)
  BY <1>0, <1>1, RevZero, RevPart
<1>4. Low(0, m) = 0 /\ Down(Rev[0], b) = 0
  BY <1>0, RevZero
<1>5. Low(x, m) = 0 <=> Mult(x, Pow(m))
  <2>1. Pow(m) \in Nat /\ Pow(m) >= 1
    BY <1>0, PowPositive
  <2> QED
    BY <1>2, <2>1, MultMod DEF Low
<1>6. Low(x, m) = 0 <=> Down(n, b) = 0
  BY <1>0, <1>1, <1>3, <1>4
<1>7. Down(n, b) = 0 <=> Mult(x, Pow(m))
  BY <1>5, <1>6
<1> QED
  BY <1>7 DEF x, m

(* The loop of dictScan over the larger table ends where the bucket of the *)
(* smaller one does.                                                       *)
LEMMA HighBitsIs ==
    ASSUME NEW v \in Word, NEW a \in 0..W, NEW b \in 0..W, a <= b
    PROVE  /\ Beyond(v, b) <= Beyond(v, a)
           /\ HighBits(NextCursor(v, b), a, b) = 0 <=> Beyond(v, b) = Beyond(v, a)
<1> DEFINE y == Beyond(v, b)
           z == Beyond(v, a)
           p == Pow(W - a)
           n == NextCursor(v, b)
           x == Rev[v]
           l == Down(x, W - a)
<1>0. /\ W \in Nat /\ a \in Nat /\ b \in Nat /\ a \in -1..W /\ a # -1 /\ b \in -1..W /\ b # -1
      /\ W - a \in Nat /\ W - b \in Nat /\ W - b <= W - a /\ Pow(W) \in Nat /\ x \in Nat
  BY Constants, PowPositive, RevRev, LowAll
<1>1. /\ y \in 1..Pow(W) /\ x < y /\ Mult(y, Pow(W - b))
  BY BeyondIs
<1>2. /\ z \in 1..Pow(W) /\ x < z /\ Mult(z, p) /\ z = l + p /\ l \in Nat /\ l <= x
      /\ p \in Nat /\ p >= 1 /\ Mult(l, p)
  BY <1>0, BeyondIs, DownType DEF Beyond
<1>b. /\ y = Down(x, W - b) + Pow(W - b) /\ Mult(Down(x, W - b), Pow(W - b)) /\ Down(x, W - b) \in Nat
      /\ Down(x, W - b) <= x /\ Pow(W - b) \in Nat /\ Pow(W - b) >= 1
  BY <1>0, DownType DEF Beyond
<1>3. n = CursorAt(y)
  BY NextIs
<1> HIDE DEF y, z, l, p, n, x
<1>4. y <= z
  <2>1. Mult(z, Pow(W - b))
    BY <1>0, <1>2, MultPow DEF p
  <2>2. Down(x, W - b) < z
    BY <1>0, <1>2, <1>b
  <2> QED
    BY <1>2, <1>b, <2>1, <2>2, MultGap
<1>5. y = z <=> Mult(y, p)
  <2>1. y = z => Mult(y, p)
    BY <1>2
  <2>2. ASSUME Mult(y, p) PROVE y = z
    <3>1. l < y
      BY <1>0, <1>1, <1>2
    <3>2. l + p <= y
      BY <1>1, <1>2, <2>2, <3>1, MultGap
    <3> QED
      BY <1>1, <1>2, <1>4, <3>2
  <2> QED
    BY <2>1, <2>2
<1>6. /\ n \in Word /\ (y < Pow(W) => Rev[n] = y) /\ (y = Pow(W) => n = 0)
  BY <1>1, <1>3, CursorIs
<1>7. n \in Nat
  BY <1>6, LowAll
<1>8. Mult(Rev[n], Pow(W - b)) /\ (Mult(Rev[n], p) <=> Mult(y, p))
  <2>1. CASE y < Pow(W)
    BY <1>1, <1>6, <2>1
  <2>2. CASE y = Pow(W)
    <3>1. Rev[n] = 0
      BY <1>6, <2>2, RevZero
    <3>2. Mult(0, p) /\ Mult(0, Pow(W - b))
      BY <1>2, <1>b, MultZero
    <3>3. Mult(Pow(W), Pow(W))
      BY <1>0, MultZero
    <3>4. Mult(Pow(W), p)
      BY <1>0, <3>3, MultPow DEF p
    <3> QED
      BY <2>2, <3>1, <3>2, <3>4
  <2> QED
    BY <1>0, <1>1, <2>1, <2>2
<1>9. Down(n, b) = 0 /\ (Down(n, a) = 0 <=> Mult(Rev[n], p))
  BY <1>6, <1>8, RevMult DEF p
<1>10. n = Down(n, b) + Low(n, b) /\ n = Down(n, a) + Low(n, a)
       /\ Low(n, a) \in Nat /\ Low(n, b) \in Nat /\ Down(n, a) \in Nat
  BY <1>0, <1>7, LowType
<1>11. HighBits(n, a, b) = Low(n, b) - Low(n, a)
  <2>1. Size(a) = Pow(a) /\ Size(b) = Pow(b)
    BY <1>0, SizeType
  <2> QED
    BY <2>1, Zenon DEF HighBits, Low
<1>12. HighBits(n, a, b) = 0 <=> y = z
  BY <1>5, <1>7, <1>8, <1>9, <1>10, <1>11
<1> QED
  BY <1>4, <1>12 DEF y, z, n

-----------------------------------------------------------------------------
(* The buckets of the larger table *)

(* The words whose positions are from x up to y, without y; their buckets. *)
Between(x, y) == {w \in Word : x <= Rev[w] /\ Rev[w] < y}
Parts(x, y, b) == {Low(w, b) : w \in Between(x, y)}

(* What Expansions follows, and what it comes to. *)
OneMore(F, u, a, b) ==
    IF HighBits(NextCursor(u, b), a, b) = 0
    THEN [buckets |-> {u % Size(b)}, cursor |-> NextCursor(u, b)]
    ELSE [buckets |-> {u % Size(b)} \cup F[NextCursor(u, b)].buckets,
          cursor  |-> F[NextCursor(u, b)].cursor]
ExpStep(F, a, b) == F = [u \in 0..(2^W - 1) |-> OneMore(F, u, a, b)]
Exps(a, b) == CHOOSE F : ExpStep(F, a, b)
Covered(u, a, b) == [buckets |-> Parts(Down(Rev[u], W - b), Beyond(u, a), b),
                     cursor  |-> CursorAt(Beyond(u, a))]
CoveredAll(a, b) == [u \in Word |-> Covered(u, a, b)]

(* The words in one bucket with v are those between its ends. *)
LEMMA PartIs ==
    ASSUME NEW v \in Word, NEW w \in Word, NEW e \in 0..W
    PROVE  Low(w, e) = Low(v, e) <=> Down(Rev[v], W - e) <= Rev[w] /\ Rev[w] < Beyond(v, e)
<1> DEFINE m == W - e
           n == Down(Rev[v], m)
           x == Rev[w]
<1>1. m \in Nat /\ x \in Word /\ Rev[v] \in Word
  BY BeyondIs, RevRev
<1>2. x \in Nat /\ Rev[v] \in Nat
  BY <1>1, LowAll
<1>3. n \in Nat /\ Mult(n, Pow(m)) /\ Pow(m) \in Nat
  BY <1>1, <1>2, DownType
<1>4. Beyond(v, e) = n + Pow(m)
  BY Zenon DEF Beyond
<1>5. Low(w, e) = Low(v, e) <=> Down(x, m) = n
  BY RevPart
<1> HIDE DEF m, n, x
<1>6. Down(x, m) = n => n <= x /\ x < n + Pow(m)
  BY <1>1, <1>2, DownType
<1>7. n <= x /\ x < n + Pow(m) => Down(x, m) = n
  BY <1>1, <1>2, <1>3, DownIs
<1> QED
  BY <1>4, <1>5, <1>6, <1>7 DEF m, n, x

(* The last bucket, *)
LEMMA CoveredLast ==
    ASSUME NEW u \in Word, NEW a \in 0..W, NEW b \in 0..W, a <= b, Beyond(u, b) = Beyond(u, a)
    PROVE  /\ Parts(Down(Rev[u], W - b), Beyond(u, a), b) = {Low(u, b)}
           /\ CursorAt(Beyond(u, a)) = NextCursor(u, b)
<1>1. \A w \in Word : Low(w, b) = Low(u, b) <=> Down(Rev[u], W - b) <= Rev[w] /\ Rev[w] < Beyond(u, a)
  BY PartIs
<1>2. Parts(Down(Rev[u], W - b), Beyond(u, a), b) = {Low(u, b)}
  BY <1>1, Zenon DEF Parts, Between
<1>3. CursorAt(Beyond(u, a)) = NextCursor(u, b)
  BY NextIs
<1> QED
  BY <1>2, <1>3

(* and one before it. *)
LEMMA CoveredNext ==
    ASSUME NEW u \in Word, NEW a \in 0..W, NEW b \in 0..W, a <= b, Beyond(u, b) # Beyond(u, a)
    PROVE  LET n == NextCursor(u, b) IN
           /\ n \in Word /\ Rev[n] > Rev[u] /\ Beyond(n, a) = Beyond(u, a)
           /\ Parts(Down(Rev[u], W - b), Beyond(u, a), b)
                = {Low(u, b)} \cup Parts(Down(Rev[n], W - b), Beyond(n, a), b)
<1> DEFINE n == NextCursor(u, b)
           x == Rev[u]
           y == Beyond(u, b)
           z == Beyond(u, a)
           l == Down(x, W - a)
           p == Pow(W - a)
           q == Pow(W - b)
           f == Down(x, W - b)
<1>0. W \in Nat /\ Pow(W) \in Nat /\ x \in Word /\ x \in Nat
  BY Constants, PowPositive, RevRev, LowAll
<1>1. y <= z
  BY HighBitsIs
<1>2. y \in 1..Pow(W) /\ z \in 1..Pow(W) /\ W - a \in Nat /\ W - b \in Nat /\ x < y /\ Mult(y, q)
      /\ q \in Nat /\ q >= 1
  BY BeyondIs
<1>3. y < z /\ y < Pow(W) /\ y \in Nat
  <2> HIDE DEF y, z
  <2> QED
    BY <1>0, <1>1, <1>2 DEF y, z
<1>4. n \in Word /\ Rev[n] = y
  <2>1. n = CursorAt(y)
    BY NextIs
  <2> HIDE DEF n, y
  <2> QED
    BY <1>2, <1>3, <2>1, CursorIs
<1>5. /\ l \in Nat /\ Mult(l, p) /\ l <= x /\ x < l + p /\ p \in Nat
      /\ f \in Nat /\ f <= x
  <2> HIDE DEF x
  <2> QED
    BY <1>0, <1>2, DownType
<1>6. z = l + p
  BY Zenon DEF Beyond
<1>7. Down(y, W - a) = l
  <2> HIDE DEF x, y, z, l, p
  <2>1. l <= y /\ y < l + p
    BY <1>0, <1>2, <1>3, <1>5, <1>6
  <2> QED
    BY <1>2, <1>3, <1>5, <2>1, DownIs DEF p
<1>8. Beyond(n, a) = z
  <2> HIDE DEF n, x, y, z, l
  <2> QED
    BY <1>4, <1>6, <1>7, Zenon DEF Beyond, p
<1>9. Down(y, W - b) = y
  <2> HIDE DEF y
  <2>1. y <= y /\ y < y + Pow(W - b)
    BY <1>2, <1>3
  <2> QED
    BY <1>2, <1>3, <2>1, DownIs
<1>10. ASSUME NEW w \in Word PROVE Low(w, b) = Low(u, b) <=> f <= Rev[w] /\ Rev[w] < y
  BY PartIs
<1>11. ASSUME NEW w \in Word PROVE Rev[w] \in Nat
  <2>1. Rev[w] \in Word
    BY RevRev
  <2> HIDE DEF y
  <2> QED
    BY <1>0, <2>1 DEF Word
<1>12. ASSUME NEW w \in Word
       PROVE  (f <= Rev[w] /\ Rev[w] < z) <=> Low(w, b) = Low(u, b) \/ (y <= Rev[w] /\ Rev[w] < z)
  <2> HIDE DEF f, x, y, z
  <2>1. z \in Nat
    BY <1>2
  <2> QED
    BY <1>0, <1>2, <1>3, <1>5, <1>10, <1>11, <2>1
<1> HIDE DEF x, y, z, f, n
<1>13. Parts(f, z, b) = {Low(u, b)} \cup Parts(y, z, b)
  <2>1. f <= Rev[u] /\ Rev[u] < z
    BY <1>12
  <2> QED
    BY <1>12, <2>1, Zenon DEF Parts, Between
<1> QED
  BY <1>2, <1>4, <1>8, <1>9, <1>13 DEF x, y, z, f, n

(* Expansions visits every bucket of the larger table that continues the   *)
(* bucket of the smaller one, from v on, and gives the cursor after them.  *)
LEMMA ExpansionsIs ==
    ASSUME NEW v \in Word, NEW a \in 0..W, NEW b \in 0..W, a <= b
    PROVE  Expansions(v, a, b) = Covered(v, a, b)
<1> DEFINE C == CoveredAll(a, b)
           F == Exps(a, b)
<1>0. W \in Nat /\ Pow(W) \in Nat /\ Word = 0..(2^W - 1) /\ Size(b) = Pow(b)
  <2>1. b \in -1..W /\ b # -1
    BY Constants
  <2> QED
    BY <2>1, Constants, PowPositive, SizeType DEF Word, Pow
<1>1. \A u \in Word : u % Size(b) = Low(u, b)
  BY <1>0, Zenon DEF Low
<1>2. ASSUME NEW G, NEW u \in Word, Beyond(u, b) = Beyond(u, a) PROVE OneMore(G, u, a, b) = Covered(u, a, b)
  <2>1. HighBits(NextCursor(u, b), a, b) = 0
    BY <1>2, HighBitsIs
  <2>2. /\ Parts(Down(Rev[u], W - b), Beyond(u, a), b) = {Low(u, b)}
        /\ CursorAt(Beyond(u, a)) = NextCursor(u, b)
    BY <1>2, CoveredLast
  <2> QED
    BY <1>1, <2>1, <2>2, Zenon DEF OneMore, Covered
<1>3. ASSUME NEW G, NEW u \in Word, Beyond(u, b) # Beyond(u, a),
             G[NextCursor(u, b)] = Covered(NextCursor(u, b), a, b)
      PROVE  OneMore(G, u, a, b) = Covered(u, a, b)
  <2> DEFINE n == NextCursor(u, b)
  <2>1. HighBits(n, a, b) # 0
    BY <1>3, HighBitsIs
  <2>2. /\ n \in Word /\ Beyond(n, a) = Beyond(u, a)
        /\ Parts(Down(Rev[u], W - b), Beyond(u, a), b)
             = {Low(u, b)} \cup Parts(Down(Rev[n], W - b), Beyond(n, a), b)
    BY <1>3, CoveredNext
  <2>3. /\ G[n].buckets = Parts(Down(Rev[n], W - b), Beyond(n, a), b)
        /\ G[n].cursor = CursorAt(Beyond(n, a))
    BY <1>3 DEF Covered
  <2>4. OneMore(G, u, a, b) = [buckets |-> {Low(u, b)} \cup G[n].buckets, cursor |-> G[n].cursor]
    BY <1>1, <2>1, Zenon DEF OneMore
  <2> HIDE DEF n
  <2> QED
    BY <2>2, <2>3, <2>4, Zenon DEF Covered
<1>4. ExpStep(C, a, b)
  <2>1. ASSUME NEW u \in Word PROVE C[u] = OneMore(C, u, a, b)
    <3>1. C[u] = Covered(u, a, b)
      BY Zenon DEF CoveredAll
    <3>2. CASE Beyond(u, b) = Beyond(u, a)
      BY <1>2, <3>1, <3>2
    <3>3. CASE Beyond(u, b) # Beyond(u, a)
      <4>1. NextCursor(u, b) \in Word
        BY <3>3, CoveredNext
      <4>2. C[NextCursor(u, b)] = Covered(NextCursor(u, b), a, b)
        BY <4>1, Zenon DEF CoveredAll
      <4> HIDE DEF C
      <4> QED
        BY <1>3, <3>1, <3>3, <4>2
    <3> QED
      BY <3>2, <3>3
  <2>2. C = [u \in Word |-> C[u]]
    BY DEF CoveredAll
  <2> HIDE DEF C
  <2> QED
    BY <1>0, <2>1, <2>2, Zenon DEF ExpStep
<1>5. ExpStep(F, a, b)
  BY <1>4, Zenon DEF Exps
<1>6. \A u \in Word : F[u] = OneMore(F, u, a, b)
  <2>1. F = [u \in Word |-> OneMore(F, u, a, b)]
    BY <1>0, <1>5, Zenon DEF ExpStep
  <2> HIDE DEF F
  <2> QED
    BY <2>1, Zenon
<1> HIDE DEF F
<1> DEFINE T == {Rev[u] : u \in {w \in Word : F[w] # Covered(w, a, b)}}
<1>7. T = {}
  <2> SUFFICES ASSUME T # {} PROVE FALSE
    OBVIOUS
  <2>1. \A u \in Word : Rev[u] \in Nat /\ Rev[u] <= Pow(W)
    <3> SUFFICES ASSUME NEW u \in Word PROVE Rev[u] \in Nat /\ Rev[u] <= Pow(W)
      BY Zenon
    <3>1. Rev[u] \in Word
      BY RevRev
    <3> QED
      BY <1>0, <3>1 DEF Word
  <2>2. T \in SUBSET Nat /\ \A x \in T : x <= Pow(W)
    BY <2>1, Zenon
  <2>3. \E x \in T : \A y \in T : y <= x
    <3> HIDE DEF T
    <3> QED
      BY <1>0, <2>2, NatMax
  <2>4. PICK u \in Word : F[u] # Covered(u, a, b) /\ \A w \in Word : F[w] # Covered(w, a, b) => Rev[w] <= Rev[u]
    BY <2>3, Zenon
  <2>5. Beyond(u, b) # Beyond(u, a)
    BY <1>2, <1>6, <2>4
  <2>6. NextCursor(u, b) \in Word /\ Rev[NextCursor(u, b)] > Rev[u]
    BY <2>5, CoveredNext
  <2>7. F[NextCursor(u, b)] = Covered(NextCursor(u, b), a, b)
    <3> DEFINE n == NextCursor(u, b)
    <3>1. n \in Word /\ Rev[n] \in Nat /\ Rev[u] \in Nat /\ Rev[n] > Rev[u]
      BY <2>1, <2>6
    <3> HIDE DEF n
    <3>2. ~(Rev[n] <= Rev[u])
      BY <3>1
    <3>3. F[n] = Covered(n, a, b)
      BY <2>4, <3>1, <3>2, Zenon
    <3> QED
      BY <3>3 DEF n
  <2>8. OneMore(F, u, a, b) = Covered(u, a, b)
    BY <1>3, <2>5, <2>7
  <2> QED
    BY <1>6, <2>4, <2>8
<1>8. F[v] = Covered(v, a, b)
  BY <1>7, Zenon
<1>9. Expansions(v, a, b) = F[v]
  BY Zenon DEF Expansions, Exps, ExpStep, OneMore, F
<1> QED
  BY <1>8, <1>9

-----------------------------------------------------------------------------
(* dictScan *)

(* A word from v on is in the bucket of v, or not before the next cursor. *)
LEMMA ScanPart ==
    ASSUME NEW v \in Word, NEW a \in 0..W
    PROVE  LET c == CursorAt(Beyond(v, a)) IN
           /\ c \in Word /\ (c # 0 => Rev[c] > Rev[v])
           /\ \A h \in Word : Rev[h] >= Rev[v] => \/ Rev[h] < Beyond(v, a) /\ Low(h, a) = Low(v, a)
                                                  \/ c # 0 /\ Rev[h] >= Rev[c]
<1> DEFINE y == Beyond(v, a)
           c == CursorAt(y)
<1>0. W \in Nat /\ Pow(W) \in Nat
  BY Constants, PowPositive
<1>1. y \in 1..Pow(W) /\ Rev[v] < y /\ Down(Rev[v], W - a) <= Rev[v] /\ Down(Rev[v], W - a) \in Nat
  BY BeyondIs
<1>2. c \in Word /\ (y < Pow(W) => Rev[c] = y /\ c # 0) /\ (y = Pow(W) => c = 0)
  <2> HIDE DEF y
  <2> QED
    BY <1>1, CursorIs
<1>3. \A w \in Word : Rev[w] \in Nat /\ Rev[w] < Pow(W)
  <2> SUFFICES ASSUME NEW w \in Word PROVE Rev[w] \in Nat /\ Rev[w] < Pow(W)
    BY Zenon
  <2>1. Rev[w] \in Word
    BY RevRev
  <2> QED
    BY <1>0, <2>1 DEF Word
<1>4. \A w \in Word : Low(w, a) = Low(v, a) <=> Down(Rev[v], W - a) <= Rev[w] /\ Rev[w] < y
  BY PartIs
<1> HIDE DEF c, y
<1>5. c # 0 => Rev[c] > Rev[v]
  BY <1>0, <1>1, <1>2, <1>3
<1>6. ASSUME NEW h \in Word, Rev[h] >= Rev[v]
      PROVE  \/ Rev[h] < y /\ Low(h, a) = Low(v, a)
             \/ c # 0 /\ Rev[h] >= Rev[c]
  <2>1. CASE Rev[h] < y
    <3>1. Rev[h] \in Nat /\ Rev[v] \in Nat
      BY <1>3
    <3>2. Down(Rev[v], W - a) <= Rev[h]
      BY <1>1, <1>6, <3>1
    <3> QED
      BY <1>4, <2>1, <3>2
  <2>2. CASE ~(Rev[h] < y)
    <3>1. Rev[h] \in Nat /\ Rev[h] < Pow(W)
      BY <1>3
    <3>2. y < Pow(W) /\ Rev[h] >= y
      BY <1>0, <1>1, <2>2, <3>1
    <3> QED
      BY <1>2, <3>2
  <2> QED
    BY <2>1, <2>2
<1> QED
  BY <1>2, <1>5, <1>6 DEF c, y

(* Hashes are words. *)
LEMMA HashWord ==
    ASSUME NEW k \in Key
    PROVE  Hash(k) \in Word /\ Hash(k) \in Nat
<1>1. Hash(k) \in Word
  BY DictAssumption, Zenon DEF Word, Pow
<1> QED
  BY <1>1, LowAll

(* A key of a table is in the bucket of the last bits of its hash. *)
LEMMA KeyBucket ==
    ASSUME NEW e \in -1..W, NEW h, Table(h, e), NEW k \in All(h)
    PROVE  k \in Key /\ e \in 0..W /\ Hash(k) \in Word /\ k \in h[Low(Hash(k), e)]
<1>1. k \in Key
  BY TableKey
<1>2. e # -1 /\ k \in h[Bucket(Hash(k), e)]
  BY <1>1, TableFind
<1>3. Hash(k) \in Word /\ Hash(k) \in Nat
  BY <1>1, HashWord
<1>4. Bucket(Hash(k), e) = Hash(k) % Size(e) /\ Size(e) = Pow(e)
  BY <1>2, <1>3, BucketType, SizeType
<1> QED
  BY <1>1, <1>2, <1>3, <1>4 DEF Low

(* A scan of one table. *)
LEMMA ScanOne ==
    ASSUME NEW v \in Word, NEW a \in 0..W, NEW h, Table(h, a), NEW k \in All(h), Rev[Hash(k)] >= Rev[v]
    PROVE  LET c == CursorAt(Beyond(v, a)) IN
           k \in h[Low(v, a)] \/ (c # 0 /\ Rev[Hash(k)] >= Rev[c])
<1>0. a \in -1..W
  BY Constants
<1>1. Hash(k) \in Word /\ k \in h[Low(Hash(k), a)]
  BY <1>0, KeyBucket
<1>2. LET c == CursorAt(Beyond(v, a)) IN
      \/ Rev[Hash(k)] < Beyond(v, a) /\ Low(Hash(k), a) = Low(v, a)
      \/ c # 0 /\ Rev[Hash(k)] >= Rev[c]
  BY <1>1, ScanPart
<1> QED
  BY <1>1, <1>2, Zenon

(* A scan of the buckets of the larger table. *)
LEMMA ScanMore ==
    ASSUME NEW v \in Word, NEW a \in 0..W, NEW b \in 0..W, a <= b, NEW h, Table(h, b), NEW k \in All(h),
           Rev[Hash(k)] >= Rev[v]
    PROVE  LET c == CursorAt(Beyond(v, a)) IN
           \/ \E i \in Parts(Down(Rev[v], W - b), Beyond(v, a), b) : k \in h[i]
           \/ c # 0 /\ Rev[Hash(k)] >= Rev[c]
<1>0. b \in -1..W
  BY Constants
<1>1. Hash(k) \in Word /\ k \in h[Low(Hash(k), b)]
  BY <1>0, KeyBucket
<1>2. LET c == CursorAt(Beyond(v, a)) IN
      \/ Rev[Hash(k)] < Beyond(v, a) /\ Low(Hash(k), a) = Low(v, a)
      \/ c # 0 /\ Rev[Hash(k)] >= Rev[c]
  BY <1>1, ScanPart
<1>3. ASSUME Rev[Hash(k)] < Beyond(v, a)
      PROVE  \E i \in Parts(Down(Rev[v], W - b), Beyond(v, a), b) : k \in h[i]
  <2>1. Down(Rev[v], W - b) <= Rev[v] /\ Down(Rev[v], W - b) \in Nat
    BY BeyondIs
  <2>2. Rev[v] \in Nat /\ Rev[Hash(k)] \in Nat
    BY <1>1, RevRev, LowAll
  <2>3. Down(Rev[v], W - b) <= Rev[Hash(k)]
    BY <2>1, <2>2
  <2>4. Hash(k) \in Between(Down(Rev[v], W - b), Beyond(v, a))
    BY <1>1, <1>3, <2>3, Zenon DEF Between
  <2> QED
    BY <1>1, <2>4, Zenon DEF Parts
<1> QED
  BY <1>2, <1>3, Zenon

(* What a call of dictScan with cursor v owes: the cursor goes on, and a   *)
(* key from v on is returned or not passed.                                *)
Scans(d, v, r) ==
    /\ r.cursor \in Word /\ (r.cursor # 0 => Rev[r.cursor] > Rev[v])
    /\ \A k \in DictKeys(d) :
           Rev[Hash(k)] >= Rev[v] => k \in r.keys \/ (r.cursor # 0 /\ Rev[Hash(k)] >= Rev[r.cursor])

(* dictScan while the dict is rehashing, the smaller table being s. *)
LEMMA ScanBoth ==
    ASSUME NEW K, NEW d, DictInv(d, K), d.rehashidx # -1, NEW v \in Word, NEW s \in 0..1, NEW l \in 0..1,
           s # l, d.exp[s] <= d.exp[l], NEW r,
           r = [keys   |-> d.ht[s][Bucket(v, d.exp[s])]
                             \cup UNION {d.ht[l][i] : i \in Expansions(v, d.exp[s], d.exp[l]).buckets},
                cursor |-> Expansions(v, d.exp[s], d.exp[l]).cursor]
    PROVE  Scans(d, v, r)
<1> DEFINE a == d.exp[s]
           b == d.exp[l]
           g == d.ht[s]
           h == d.ht[l]
           c == CursorAt(Beyond(v, a))
           P == Parts(Down(Rev[v], W - b), Beyond(v, a), b)
<1>1. /\ Good(d.exp[0], d.exp[1], d.ht[0], d.ht[1], d.rehashidx, K)
      /\ DictKeys(d) = All(d.ht[0]) \cup All(d.ht[1])
  BY InvParts
<1>2. /\ d.exp[0] \in -1..W /\ d.exp[1] \in -1..W /\ d.exp[0] # -1 /\ d.exp[1] # -1
      /\ Table(d.ht[0], d.exp[0]) /\ Table(d.ht[1], d.exp[1])
  BY <1>1, Zenon DEF Good
<1>3. a \in -1..W /\ b \in -1..W /\ a # -1 /\ b # -1 /\ Table(g, a) /\ Table(h, b)
      /\ DictKeys(d) = All(g) \cup All(h)
  BY <1>1, <1>2
<1>4. a \in 0..W /\ b \in 0..W /\ a <= b
  BY <1>3, Constants
<1>5. Expansions(v, a, b) = Covered(v, a, b)
  <2> HIDE DEF a, b
  <2> QED
    BY <1>4, ExpansionsIs
<1>6. Expansions(v, a, b).buckets = P /\ Expansions(v, a, b).cursor = c
  BY <1>5 DEF Covered
<1>7. Bucket(v, a) = Low(v, a)
  <2> HIDE DEF a
  <2>1. v \in Nat
    BY LowAll
  <2>2. Bucket(v, a) = v % Size(a) /\ Size(a) = Pow(a)
    BY <1>3, <2>1, BucketType, SizeType
  <2> QED
    BY <2>2 DEF Low
<1>8. r = [keys |-> g[Low(v, a)] \cup UNION {h[i] : i \in P}, cursor |-> c]
  BY <1>6, <1>7, Zenon
<1> HIDE DEF a, b, g, h, c, P
<1>9. r.cursor = c /\ r.keys = g[Low(v, a)] \cup UNION {h[i] : i \in P}
  BY <1>8
<1>10. c \in Word /\ (c # 0 => Rev[c] > Rev[v])
  BY <1>4, ScanPart DEF c
<1>11. ASSUME NEW k \in All(g), Rev[Hash(k)] >= Rev[v]
       PROVE  k \in g[Low(v, a)] \/ (c # 0 /\ Rev[Hash(k)] >= Rev[c])
  BY <1>3, <1>4, <1>11, ScanOne DEF c
<1>12. ASSUME NEW k \in All(h), Rev[Hash(k)] >= Rev[v]
       PROVE  (\E i \in P : k \in h[i]) \/ (c # 0 /\ Rev[Hash(k)] >= Rev[c])
  BY <1>3, <1>4, <1>12, ScanMore DEF c, P
<1>13. ASSUME NEW k \in DictKeys(d), Rev[Hash(k)] >= Rev[v]
       PROVE  k \in r.keys \/ (r.cursor # 0 /\ Rev[Hash(k)] >= Rev[r.cursor])
  BY <1>3, <1>9, <1>11, <1>12, <1>13, Zenon
<1> QED
  BY <1>9, <1>10, <1>13, Zenon DEF Scans

(* dictScan, at any stage of a rehashing. *)
LEMMA DictScanIs ==
    ASSUME NEW K, Small(K), NEW d, DictInv(d, K), NEW v \in Word
    PROVE  Scans(d, v, DictScan(d, v))
<1> DEFINE r == DictScan(d, v)
<1>1. /\ Good(d.exp[0], d.exp[1], d.ht[0], d.ht[1], d.rehashidx, K)
      /\ DictKeys(d) = All(d.ht[0]) \cup All(d.ht[1])
  BY InvParts
<1>2. /\ d.exp[0] \in -1..W /\ d.exp[1] \in -1..W
      /\ Table(d.ht[0], d.exp[0]) /\ Table(d.ht[1], d.exp[1])
      /\ (d.rehashidx = -1 => d.exp[1] = -1)
  BY <1>1, Zenon DEF Good
<1>3. DictSize(d) = 0 <=> DictKeys(d) = {}
  BY UsedType
<1>4. CASE DictSize(d) = 0
  <2>1. r = [keys |-> {}, cursor |-> 0]
    BY <1>4, Zenon DEF DictScan
  <2>2. r.cursor = 0
    BY <2>1
  <2> HIDE DEF r
  <2>3. Scans(d, v, r)
    BY <1>3, <1>4, <2>2, RevZero, Zenon DEF Scans
  <2> QED
    BY <2>3 DEF r
<1>5. CASE DictSize(d) # 0 /\ d.rehashidx = -1
  <2> DEFINE a == d.exp[0]
             g == d.ht[0]
             c == CursorAt(Beyond(v, a))
  <2>1. r = [keys |-> g[Bucket(v, a)], cursor |-> NextCursor(v, a)]
    BY <1>5, Zenon DEF DictScan, IsRehashing
  <2>2. All(d.ht[1]) = {}
    <3>1. \A k \in All(d.ht[1]) : FALSE
      <4> SUFFICES ASSUME NEW k \in All(d.ht[1]) PROVE FALSE
        OBVIOUS
      <4>1. d.exp[1] \in 0..W
        BY <1>2, KeyBucket
      <4> QED
        BY <1>2, <1>5, <4>1, Constants
    <3> QED
      BY <3>1
  <2>3. DictKeys(d) = All(g)
    BY <1>1, <2>2
  <2>4. a \in 0..W
    <3>1. PICK k \in All(g) : TRUE
      BY <1>3, <1>5, <2>3
    <3> QED
      BY <1>2, KeyBucket
  <2> HIDE DEF a, g
  <2>5. NextCursor(v, a) = c
    BY <2>4, NextIs
  <2>6. Bucket(v, a) = Low(v, a)
    <3>1. v \in Nat
      BY LowAll
    <3>2. a \in -1..W /\ a # -1
      BY <2>4, Constants
    <3>3. Bucket(v, a) = v % Size(a) /\ Size(a) = Pow(a)
      BY <3>1, <3>2, BucketType, SizeType
    <3> QED
      BY <3>3 DEF Low
  <2> HIDE DEF r, c
  <2>7. r.cursor = c /\ r.keys = g[Low(v, a)]
    BY <2>1, <2>5, <2>6
  <2>8. c \in Word /\ (c # 0 => Rev[c] > Rev[v])
    BY <2>4, ScanPart DEF c
  <2>9. ASSUME NEW k \in All(g), Rev[Hash(k)] >= Rev[v]
        PROVE  k \in g[Low(v, a)] \/ (c # 0 /\ Rev[Hash(k)] >= Rev[c])
    <3>1. Table(g, a)
      BY <1>2 DEF g, a
    <3> QED
      BY <2>4, <2>9, <3>1, ScanOne DEF c
  <2>10. Scans(d, v, r)
    BY <2>3, <2>7, <2>8, <2>9, Zenon DEF Scans
  <2> QED
    BY <2>10 DEF r
<1>6. CASE DictSize(d) # 0 /\ d.rehashidx # -1
  <2> DEFINE s == IF d.exp[0] > d.exp[1] THEN 1 ELSE 0
             l == 1 - s
  <2>1. s \in 0..1 /\ l \in 0..1 /\ s # l /\ d.exp[s] <= d.exp[l]
    <3>1. CASE d.exp[0] > d.exp[1]
      BY <1>2, <3>1
    <3>2. CASE ~(d.exp[0] > d.exp[1])
      BY <1>2, <3>2
    <3> QED
      BY <3>1, <3>2
  <2>2. r = [keys   |-> d.ht[s][Bucket(v, d.exp[s])]
                          \cup UNION {d.ht[l][i] : i \in Expansions(v, d.exp[s], d.exp[l]).buckets},
             cursor |-> Expansions(v, d.exp[s], d.exp[l]).cursor]
    BY <1>6, Zenon DEF DictScan, IsRehashing
  <2> HIDE DEF s, l, r
  <2>3. Scans(d, v, r)
    BY <1>6, <2>1, <2>2, ScanBoth
  <2> QED
    BY <2>3 DEF r
<1> QED
  BY <1>4, <1>5, <1>6
=============================================================================
