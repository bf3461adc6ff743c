--------------------------- MODULE KvstoreProofs ----------------------------
(***************************************************************************)
(* Safety of Kvstore, proved for any number of dicts, keys and sizes of    *)
(* tables, with and without freeing of empty dicts, with and without a     *)
(* limit of memory.                                                        *)
(*                                                                         *)
(* The invariant KvstoreInv says that the store is in order, its tree of   *)
(* sizes included, that a dict is paused while it is walked, and where the *)
(* walk stands in it; ScanInv, that the keys a scan has still to return    *)
(* are there and its cursor has not passed them.                           *)
(***************************************************************************)
EXTENDS Kvstore, DictLemmas

(* The invariant *)

(* The keys of dict i. *)
Own(i) == {k \in Key : Slot(k) = i}

(* The stores, by type. *)
KvsSet == [dicts : [Index -> DictSet], alloc : SUBSET Index, key_count : Int, non_empty : 0..MaxCount,
           bucket_count : 0..MaxCount, index : [1..NumDicts -> Int], resize_cursor : Index]

(* The keys of the dicts from a up to b, without b, and their number. *)
Part(s, a, b) == {k \in AllKeys(s) : a <= Slot(k) /\ Slot(k) < b}
CountIn(s, a, b) == Cardinality(Part(s, a, b))

(* The tree is in order: node j counts LowBit[j] dicts. *)
TreeInv(s) == \A j \in 1..NumDicts : s.index[j] = CountIn(s, j - LowBit[j], j)

(* The dicts of a store are in order. *)
DictsInv(s) == \A i \in Index : DictInv(s.dicts[i], Own(i))

(* A store in order: every dict has keys of its own slot only, one that is *)
(* not there has none, key_count counts them, and so does the tree.        *)
StoreInv(s) ==
    /\ s \in KvsSet
    /\ \A i \in Index : DictInv(s.dicts[i], Own(i)) /\ (i \notin s.alloc => DictKeys(s.dicts[i]) = {})
    /\ s.key_count = Cardinality(AllKeys(s))
    /\ TreeInv(s)

(* The iterators, by type. *)
IterSet == [on : BOOLEAN, didx : Index, table : 0..1, index : Int, rest : SUBSET Key,
            last : SUBSET Key, seen : SUBSET Key, due : SUBSET Key]

(* dictNext has not been called yet. *)
Fresh(it) == it.table = 0 /\ it.index = -1

(* Dict i is paused while it is walked. *)
PauseOf(it, i) == IF it.on /\ it.didx = i /\ ~Fresh(it) THEN 1 ELSE 0

(* Key k is in a bucket the iterator has still to visit. *)
Coming(d, it, k) ==
    \E t \in 0..1 : \E j \in Nat : In(d, t, j, k) /\ (t > it.table \/ (t = it.table /\ j > it.index))

(* Where the walk of dict d stands: rest is what is left of the bucket     *)
(* reached, what was returned does not come again, and what is owed is     *)
(* still ahead.                                                            *)
WalkInv(d, it) ==
    IF Fresh(it) THEN it.rest = {} /\ it.last = {} /\ it.seen = {} /\ it.due \subseteq DictKeys(d)
    ELSE /\ it.index \in Nat
         /\ \A k \in it.rest : In(d, it.table, it.index, k) /\ k \notin it.last
         /\ \A k \in it.seen : k \in DictKeys(d) /\ k \notin it.rest /\ ~Coming(d, it, k)
         /\ \A k \in it.due : k \in it.rest \/ Coming(d, it, k)

(* Store s and the iterator it agree. *)
Sound(s, it) ==
    /\ StoreInv(s)
    /\ it \in IterSet
    /\ \A i \in Index : s.dicts[i].pause = PauseOf(it, i)
    /\ it.on => it.didx \in s.alloc /\ WalkInv(s.dicts[it.didx], it)

(* The inductive invariant. *)
KvstoreInv == Sound(kvs, iter) /\ misread = {}

(* What is assumed of the constants of Kvstore. *)
LEMMA StoreConstants ==
    /\ NumDicts \in Nat /\ NumDicts >= 1 /\ Index \in SUBSET Nat /\ 0 \in Index
    /\ \A k \in Key : Slot(k) \in Index
    /\ IsFiniteSet(Key)
    /\ \A i \in Index : Small(Own(i))
<1>1. Bits \in Nat /\ NumDicts = Pow(Bits) /\ \A k \in Key : Slot(k) \in Index
  BY KvstoreAssumption DEF NumDicts, Pow
<1>2. NumDicts \in Nat /\ NumDicts >= 1
  BY <1>1, PowPositive
<1>3. Index \in SUBSET Nat /\ 0 \in Index
  BY <1>2 DEF Index
<1>4. IsFiniteSet(Key) /\ \A i \in Index : Cardinality(Own(i)) < Pow(W)
  BY FewKeys, Zenon DEF Own, Pow
<1>5. ASSUME NEW i \in Index PROVE Small(Own(i))
  <2>1. Own(i) \in SUBSET Key
    BY DEF Own
  <2>2. IsFiniteSet(Own(i))
    BY <1>4, <2>1, FS_Subset
  <2> QED
    BY <1>4, <2>1, <2>2, Zenon DEF Small
<1> QED
  BY <1>1, <1>2, <1>3, <1>4, <1>5

(* dictSize is the number of keys. *)
LEMMA SizeCount ==
    ASSUME NEW K, Small(K), NEW d, DictInv(d, K)
    PROVE  DictSize(d) = Cardinality(DictKeys(d)) /\ IsFiniteSet(DictKeys(d))
<1>1. /\ Good(d.exp[0], d.exp[1], d.ht[0], d.ht[1], d.rehashidx, K)
      /\ DictKeys(d) = All(d.ht[0]) \cup All(d.ht[1])
  BY InvParts
<1> DEFINE S == All(d.ht[0])
           T == All(d.ht[1])
<1>2. S \in SUBSET K /\ T \in SUBSET K /\ S \cap T = {}
  BY <1>1, Zenon DEF Good
<1>3. DictSize(d) = Cardinality(S) + Cardinality(T)
  BY KeysAll, Zenon DEF DictSize, Used
<1> HIDE DEF S, T
<1>4. IsFiniteSet(S) /\ IsFiniteSet(T) /\ Cardinality(S) \in Nat /\ Cardinality(T) \in Nat
  BY <1>2, CountOf
<1>5. /\ IsFiniteSet(S \cup T)
      /\ Cardinality(S \cup T) = Cardinality(S) + Cardinality(T) - Cardinality(S \cap T)
  BY <1>4, FS_Union
<1>6. Cardinality(S \cap T) = 0
  BY <1>2, FS_EmptySet
<1> QED
  BY <1>1, <1>3, <1>4, <1>5, <1>6 DEF S, T

(* What the invariant says of a store. *)
LEMMA StoreParts ==
    ASSUME NEW s, StoreInv(s)
    PROVE  /\ s \in KvsSet /\ s.alloc \in SUBSET Index /\ s.key_count \in Int
           /\ \A i \in Index : DictInv(s.dicts[i], Own(i))
           /\ \A i \in Index : i \notin s.alloc => DictKeys(s.dicts[i]) = {}
           /\ s.key_count = Cardinality(AllKeys(s))
           /\ DictsInv(s) /\ TreeInv(s)
<1>1. s \in KvsSet
  BY Zenon DEF StoreInv
<1>2. s.alloc \in SUBSET Index /\ s.key_count \in Int
  BY <1>1 DEF KvsSet
<1> QED
  BY <1>1, <1>2, Zenon DEF StoreInv, DictsInv

(* The keys of dict i belong to it. *)
LEMMA OwnKeys ==
    ASSUME NEW i, NEW d, DictInv(d, Own(i)), NEW k \in DictKeys(d)
    PROVE  k \in Key /\ Slot(k) = i
<1>1. /\ Good(d.exp[0], d.exp[1], d.ht[0], d.ht[1], d.rehashidx, Own(i))
      /\ DictKeys(d) = All(d.ht[0]) \cup All(d.ht[1])
  BY InvParts
<1>2. k \in Own(i)
  BY <1>1, Zenon DEF Good
<1> QED
  BY <1>2, Zenon DEF Own

(* A key of the store is in the dict of its slot. *)
LEMMA InKeys ==
    ASSUME NEW s, NEW k, \A i \in Index : DictInv(s.dicts[i], Own(i))
    PROVE  k \in AllKeys(s) <=> k \in Key /\ k \in DictKeys(s.dicts[Slot(k)])
<1>1. k \in AllKeys(s) <=> \E i \in Index : k \in DictKeys(s.dicts[i])
  BY Zenon DEF AllKeys
<1>2. ASSUME NEW i \in Index, k \in DictKeys(s.dicts[i]) PROVE k \in Key /\ Slot(k) = i
  BY <1>2, OwnKeys
<1>3. k \in Key => Slot(k) \in Index
  BY StoreConstants
<1> QED
  BY <1>1, <1>2, <1>3, Zenon

(* The keys are finitely many. *)
LEMMA FiniteKeys ==
    ASSUME NEW s, \A i \in Index : DictInv(s.dicts[i], Own(i))
    PROVE  AllKeys(s) \in SUBSET Key /\ IsFiniteSet(AllKeys(s)) /\ Cardinality(AllKeys(s)) \in Nat
<1>1. AllKeys(s) \in SUBSET Key
  BY InKeys, Zenon
<1>2. IsFiniteSet(AllKeys(s))
  BY <1>1, StoreConstants, FS_Subset
<1> QED
  BY <1>1, <1>2, FS_CardinalityType

-----------------------------------------------------------------------------
(* The binary indexed tree: which nodes count a dict *)

(* The largest power of two that divides a node is LowBit. *)
Lowest(j, a) == a \in Nat /\ LowBit[j] = Pow(a) /\ Mult(j, Pow(a)) /\ ~Mult(j, Pow(a + 1))

(* The number of dicts is a power of two. *)
LEMMA NumPow == Bits \in Nat /\ NumDicts = Pow(Bits) /\ NumDicts \in Nat /\ NumDicts >= 1
<1>1. Bits \in Nat /\ NumDicts = Pow(Bits)
  BY KvstoreAssumption DEF NumDicts, Pow
<1> QED
  BY <1>1, PowPositive

(* LowBit is that power, for every node of the tree. *)
LEMMA LowBitIs ==
    ASSUME NEW j \in 1..NumDicts
    PROVE  \E a \in 0..Bits : Lowest(j, a)
<1> DEFINE C == {c \in 0..Bits : j % 2^c = 0}
           P == {2^b : b \in C}
<1>0. Bits \in Nat /\ NumDicts = Pow(Bits) /\ NumDicts \in Nat /\ j \in Nat /\ j >= 1 /\ j <= NumDicts
  BY NumPow
<1>1. ASSUME NEW c \in Nat PROVE j % 2^c = 0 <=> Mult(j, Pow(c))
  <2>1. Pow(c) \in Nat /\ Pow(c) >= 1
    BY PowPositive
  <2>2. j % Pow(c) = 0 <=> Mult(j, Pow(c))
    BY <1>0, <2>1, MultMod
  <2> QED
    BY <2>2 DEF Pow
<1>2. 0 \in C
  <2>1. Mult(j, Pow(0))
    <3>1. j = j * Pow(0) /\ j \in Int
      BY <1>0 DEF Pow
    <3> QED
      BY <3>1 DEF Mult
  <2>2. 0 \in Nat /\ 0 \in 0..Bits
    BY <1>0
  <2> QED
    BY <1>1, <2>1, <2>2
<1>3. C \in SUBSET Nat /\ C # {} /\ \A x \in C : x <= Bits
  <2>1. \A x \in 0..Bits : x \in Nat /\ x <= Bits
    BY <1>0
  <2> QED
    BY <1>2, <2>1, Zenon
<1>4. PICK a \in C : \A y \in C : y <= a
  <2> HIDE DEF C
  <2> QED
    BY <1>0, <1>3, NatMax
<1>5. a \in Nat /\ a \in 0..Bits /\ Mult(j, Pow(a))
  BY <1>0, <1>1
<1>6. ~Mult(j, Pow(a + 1))
  <2>1. CASE a + 1 \in 0..Bits
    <3>1. a + 1 \notin C
      <4> HIDE DEF C
      <4> QED
        BY <1>4, <1>5
    <3> QED
      BY <1>1, <1>5, <2>1, <3>1
  <2>2. CASE a + 1 \notin 0..Bits
    <3>1. a = Bits
      BY <1>0, <1>5, <2>2
    <3>2. Pow(a + 1) = 2 * NumDicts /\ Pow(a + 1) \in Nat /\ Pow(a + 1) >= 1
      BY <1>0, <3>1, PowNext
    <3>3. Mult(j, Pow(a + 1)) => j >= Pow(a + 1)
      BY <1>0, <3>2, MultLeast
    <3> QED
      BY <1>0, <3>2, <3>3
  <2> QED
    BY <2>1, <2>2
<1>7. LowBit[j] = Pow(a)
  <2>1. LowBit[j] = Max(P)
    BY Zenon DEF LowBit
  <2>2. Pow(a) \in P
    BY <1>4, Zenon DEF Pow
  <2>3. ASSUME NEW x \in P PROVE x \in Nat /\ Pow(a) >= x
    <3>1. PICK b \in C : x = 2^b
      OBVIOUS
    <3>2. b \in Nat /\ b <= a
      BY <1>3, <1>4
    <3>3. x = Pow(b)
      BY <3>1, Zenon DEF Pow
    <3>4. Pow(b) \in Nat /\ Pow(a) \in Nat
      BY <3>2, <1>5, PowPositive
    <3>5. Pow(b) <= Pow(a)
      BY <3>2, <1>5, PowMonotone
    <3> QED
      BY <3>3, <3>4, <3>5
  <2> HIDE DEF P
  <2>4. \E x \in P : \A y \in P : x >= y
    BY <2>2, <2>3
  <2>5. Max(P) \in P /\ \A y \in P : Max(P) >= y
    BY <2>4, Zenon DEF Max
  <2>6. Pow(a) \in Nat
    BY <1>5, PowPositive
  <2> QED
    BY <2>1, <2>2, <2>3, <2>5, <2>6
<1> QED
  BY <1>5, <1>6, <1>7, Zenon DEF Lowest

(* ... and there is one only. *)
LEMMA LowBitOnly ==
    ASSUME NEW j \in 1..NumDicts, NEW a \in Nat, Mult(j, Pow(a)), ~Mult(j, Pow(a + 1))
    PROVE  LowBit[j] = Pow(a)
<1>1. PICK b \in 0..Bits : Lowest(j, b)
  BY LowBitIs
<1>2. b \in Nat /\ LowBit[j] = Pow(b) /\ Mult(j, Pow(b)) /\ ~Mult(j, Pow(b + 1)) 
  BY <1>1, Zenon DEF Lowest
<1>0. j \in Int
  BY NumPow
<1>3. ~(a < b)
  <2>1. a < b => a + 1 \in Nat /\ a + 1 <= b
    BY <1>2
  <2> QED
    BY <1>0, <1>2, <2>1, MultPow
<1>4. ~(b < a)
  <2>1. b < a => b + 1 \in Nat /\ b + 1 <= a
    BY <1>2
  <2> QED
    BY <1>0, <1>2, <2>1, MultPow
<1>5. a = b
  BY <1>2, <1>3, <1>4
<1> QED
  BY <1>2, <1>5

(* Between a node and the one LowBit below it there is no multiple. *)
LEMMA NodeSpan ==
    ASSUME NEW j \in Int, NEW a \in Nat, Mult(j, Pow(a)), NEW m \in Int, j - Pow(a) < m, m < j
    PROVE  ~Mult(m, Pow(a))
<1>1. Pow(a) \in Nat /\ Pow(a) >= 1
  BY PowPositive
<1>2. Mult(m, Pow(a)) => m + Pow(a) <= j
  BY <1>1, MultGap
<1> QED
  BY <1>1, <1>2

(* The nodes above node m that cover it are those that cover the node m +  *)
(* LowBit[m], where cumulativeKeyCountAdd goes on.                         *)
LEMMA NodeUp ==
    ASSUME NEW m \in 1..NumDicts, NEW j \in 1..NumDicts, j # m
    PROVE  /\ LowBit[m] \in Nat /\ LowBit[m] >= 1 /\ LowBit[j] \in Nat
           /\ m <= j /\ j - LowBit[j] < m <=> m + LowBit[m] <= j /\ j - LowBit[j] < m + LowBit[m]
<1>0. m \in Int /\ j \in Int
  BY NumPow
<1>1. PICK a \in 0..Bits : Lowest(j, a)
  BY LowBitIs
<1>2. a \in Nat /\ LowBit[j] = Pow(a) /\ Mult(j, Pow(a)) /\ ~Mult(j, Pow(a + 1))
  BY <1>1, Zenon DEF Lowest
<1>3. PICK b \in 0..Bits : Lowest(m, b)
  BY LowBitIs
<1>4. b \in Nat /\ LowBit[m] = Pow(b) /\ Mult(m, Pow(b)) /\ ~Mult(m, Pow(b + 1))
  BY <1>3, Zenon DEF Lowest
<1>5. Pow(a) \in Nat /\ Pow(a) >= 1 /\ Pow(b) \in Nat /\ Pow(b) >= 1
  BY <1>2, <1>4, PowPositive
<1>6. ASSUME m < j, j - Pow(a) < m PROVE m + Pow(b) <= j
  <2>1. ~Mult(m, Pow(a))
    BY <1>0, <1>2, <1>6, NodeSpan
  <2>2. a <= b => Mult(m, Pow(a))
    BY <1>0, <1>2, <1>4, MultPow
  <2>3. b <= a
    BY <1>2, <1>4, <2>1, <2>2
  <2>4. Mult(j, Pow(b))
    BY <1>0, <1>2, <1>4, <2>3, MultPow
  <2> QED
    BY <1>0, <1>4, <1>5, <1>6, <2>4, MultGap
<1>7. ASSUME m + Pow(b) <= j, j - Pow(a) < m + Pow(b) PROVE j - Pow(a) < m
  <2> DEFINE q == m + Pow(b)
             r == j - Pow(a)
  <2>1. q \in Int /\ Mult(q, Pow(b + 1)) /\ b + 1 \in Nat /\ r \in Int
    BY <1>0, <1>2, <1>4, <1>5, MultOdd
  <2>2. r < q /\ q <= j
    BY <1>7
  <2>3. ~(a < b + 1) 
    <3>1. ASSUME a < b + 1 PROVE FALSE
      <4>1. a <= b + 1 /\ a + 1 <= b + 1 /\ a + 1 \in Nat
        BY <1>2, <1>4, <3>1
      <4> HIDE DEF q
      <4>2. Mult(q, Pow(a)) /\ Mult(q, Pow(a + 1))
        BY <1>2, <2>1, <4>1, MultPow
      <4>3. CASE q = j
        BY <1>2, <4>2, <4>3
      <4>4. CASE q < j
        <5>1. j - Pow(a) < q
          BY <2>2
        <5> QED
          BY <1>0, <1>2, <2>1, <4>2, <4>4, <5>1, NodeSpan
      <4> QED
        BY <1>0, <2>1, <2>2, <4>3, <4>4
    <3> QED
      BY <3>1
  <2>4. Mult(r, Pow(b + 1))
    <3>2. b + 1 <= a
      BY <1>2, <1>4, <2>3
    <3>3. Mult(j, Pow(b + 1))
      BY <1>0, <1>2, <2>1, <3>2, MultPow
    <3>4. Mult(Pow(a), Pow(a))
      BY <1>5, MultZero
    <3>5. Mult(Pow(a), Pow(b + 1))
      BY <1>2, <1>5, <2>1, <3>2, <3>4, MultPow
    <3>6. Pow(b + 1) \in Int
      BY <2>1, PowPositive
    <3> QED
      BY <1>0, <1>5, <3>3, <3>5, <3>6, MultSum
  <2>5. Pow(b + 1) \in Nat /\ Pow(b + 1) >= 1 /\ Pow(b + 1) = 2 * Pow(b)
    BY <1>4, <2>1, PowPositive, PowNext
  <2>6. r + Pow(b + 1) <= q
    <3> HIDE DEF r, q
    <3> QED
      BY <2>1, <2>2, <2>4, <2>5, MultGap
  <2> QED
    BY <1>0, <1>5, <2>5, <2>6
<1>8. m <= j <=> m < j
  BY <1>0
<1> QED
  BY <1>0, <1>2, <1>4, <1>5, <1>6, <1>7, <1>8

(* The nodes that count dict m - 1. *)
Over(m) == {j \in 1..NumDicts : m <= j /\ j - LowBit[j] < m}
OverAll == [m \in 1..(2 * NumDicts) |-> Over(m)]

(* The equation of Up. *)
UpStep(F) == F = [j \in 1..(2 * NumDicts) |-> IF j > NumDicts THEN {} ELSE {j} \cup F[j + LowBit[j]]]

(* LowBit is between 1 and the node. *)
LEMMA LowBitRange ==
    ASSUME NEW j \in 1..NumDicts
    PROVE  LowBit[j] \in Nat /\ LowBit[j] >= 1 /\ LowBit[j] <= j
<1>1. PICK a \in 0..Bits : Lowest(j, a)
  BY LowBitIs
<1>2. a \in Nat /\ LowBit[j] = Pow(a) /\ Mult(j, Pow(a))
  BY <1>1, Zenon DEF Lowest
<1>3. Pow(a) \in Nat /\ Pow(a) >= 1
  BY <1>2, PowPositive
<1>4. j \in Int /\ j > 0
  BY NumPow
<1>5. j >= Pow(a)
  BY <1>2, <1>3, <1>4, MultLeast
<1> QED
  BY <1>2, <1>3, <1>5

(* The nodes that count a dict satisfy the equation. *)
LEMMA OverStep ==
    ASSUME NEW m \in 1..(2 * NumDicts)
    PROVE  /\ m > NumDicts => Over(m) = {}
           /\ m <= NumDicts => /\ m \in 1..NumDicts /\ m + LowBit[m] \in 1..(2 * NumDicts)
                               /\ Over(m) = {m} \cup Over(m + LowBit[m])
<1>0. NumDicts \in Nat /\ m \in Nat /\ m >= 1
  BY NumPow
<1>1. ASSUME m > NumDicts PROVE Over(m) = {}
  <2>1. \A j \in 1..NumDicts : ~(m <= j)
    BY <1>0, <1>1
  <2> QED
    BY <2>1, Zenon DEF Over
<1>2. ASSUME m <= NumDicts
      PROVE  /\ m \in 1..NumDicts /\ m + LowBit[m] \in 1..(2 * NumDicts)
             /\ Over(m) = {m} \cup Over(m + LowBit[m])
  <2>1. m \in 1..NumDicts
    BY <1>0, <1>2
  <2>2. LowBit[m] \in Nat /\ LowBit[m] >= 1 /\ LowBit[m] <= m
    BY <2>1, LowBitRange
  <2>3. m + LowBit[m] \in 1..(2 * NumDicts)
    BY <1>0, <1>2, <2>2
  <2>4. ASSUME NEW j \in 1..NumDicts
        PROVE  j \in Over(m) <=> j = m \/ j \in Over(m + LowBit[m])
    <3>1. CASE j = m
      <4>1. m <= m /\ m - LowBit[m] < m
        BY <1>0, <2>2
      <4> QED
        BY <3>1, <4>1, <2>1, Zenon DEF Over
    <3>2. CASE j # m
      <4>1. m <= j /\ j - LowBit[j] < m <=> m + LowBit[m] <= j /\ j - LowBit[j] < m + LowBit[m]
        BY <2>1, <3>2, NodeUp
      <4> QED
        BY <3>2, <4>1, Zenon DEF Over
    <3> QED
      BY <3>1, <3>2
  <2>5. \A j : (j \in Over(m) => j \in 1..NumDicts) /\ (j \in Over(m + LowBit[m]) => j \in 1..NumDicts)
    BY Zenon DEF Over
  <2>6. Over(m) = {m} \cup Over(m + LowBit[m])
    BY <2>1, <2>4, <2>5, Zenon
  <2> QED
    BY <2>1, <2>3, <2>6
<1> QED
  BY <1>1, <1>2

(* Up follows the nodes that count a dict. *)
LEMMA UpIs ==
    ASSUME NEW m \in 1..NumDicts
    PROVE  Up[m] = Over(m)
<1>0. NumDicts \in Nat /\ NumDicts >= 1
  BY NumPow
<1>1. UpStep(OverAll)
  <2>1. ASSUME NEW j \in 1..(2 * NumDicts)
        PROVE  OverAll[j] = IF j > NumDicts THEN {} ELSE {j} \cup OverAll[j + LowBit[j]]
    <3>1. OverAll[j] = Over(j)
      BY Zenon DEF OverAll
    <3>2. CASE j > NumDicts
      BY <3>1, <3>2, OverStep
    <3>3. CASE ~(j > NumDicts)
      <4>1. j <= NumDicts
        BY <1>0, <3>3
      <4>2. j + LowBit[j] \in 1..(2 * NumDicts) /\ Over(j) = {j} \cup Over(j + LowBit[j])
        BY <4>1, OverStep
      <4>3. OverAll[j + LowBit[j]] = Over(j + LowBit[j])
        BY <4>2, Zenon DEF OverAll
      <4> QED
        BY <3>1, <3>3, <4>2, <4>3
    <3> QED
      BY <3>2, <3>3
  <2>2. OverAll = [j \in 1..(2 * NumDicts) |-> OverAll[j]]
    BY DEF OverAll
  <2> QED
    BY <2>1, <2>2, Zenon DEF UpStep
<1>2. UpStep(Up)
  BY <1>1, Zenon DEF Up, UpStep
<1>3. \A j \in 1..(2 * NumDicts) : Up[j] = IF j > NumDicts THEN {} ELSE {j} \cup Up[j + LowBit[j]]
  BY <1>2, Zenon DEF UpStep
<1> DEFINE T == {x \in 1..(2 * NumDicts) : Up[x] # Over(x)}
<1>4. T = {}
  <2>1. ASSUME T # {} PROVE FALSE
    <3>1. T \in SUBSET Nat /\ 2 * NumDicts \in Nat /\ \A x \in T : x <= 2 * NumDicts
      <4>1. \A x \in 1..(2 * NumDicts) : x \in Nat /\ x <= 2 * NumDicts
        BY <1>0
      <4>2. 2 * NumDicts \in Nat
        BY <1>0
      <4> QED
        BY <4>1, <4>2, Zenon
    <3>2. PICK x \in T : \A y \in T : y <= x
      <4> HIDE DEF T
      <4> QED
        BY <2>1, <3>1, NatMax
    <3>3. x \in 1..(2 * NumDicts) /\ Up[x] # Over(x)
      OBVIOUS
    <3>4. CASE x > NumDicts
      <4>1. Up[x] = {}
        BY <1>3, <3>3, <3>4
      <4> QED
        BY <3>3, <3>4, <4>1, OverStep
    <3>5. CASE x <= NumDicts
      <4>1. /\ x \in 1..NumDicts /\ x + LowBit[x] \in 1..(2 * NumDicts)
            /\ Over(x) = {x} \cup Over(x + LowBit[x])
        BY <3>3, <3>5, OverStep
      <4>2. LowBit[x] \in Nat /\ LowBit[x] >= 1
        BY <4>1, LowBitRange
      <4>3. ~(x + LowBit[x] <= x) /\ ~(x > NumDicts)
        BY <1>0, <3>3, <3>5, <4>2
      <4>4. x + LowBit[x] \notin T
        <5> HIDE DEF T
        <5> QED
          BY <3>2, <4>3
      <4>5. Up[x + LowBit[x]] = Over(x + LowBit[x])
        BY <4>1, <4>4
      <4>6. Up[x] = {x} \cup Up[x + LowBit[x]]
        BY <1>3, <3>3, <4>3
      <4> QED
        BY <3>3, <4>1, <4>5, <4>6
    <3> QED
      BY <1>0, <3>3, <3>4, <3>5
  <2> QED
    BY <2>1
<1>5. m \in 1..(2 * NumDicts)
  BY <1>0
<1> QED
  BY <1>4, <1>5

-----------------------------------------------------------------------------
(* The binary indexed tree: what it adds up to, and the search in it *)

(* The dict of a stored key. *)
LEMMA SlotType ==
    ASSUME NEW s, DictsInv(s), NEW k \in AllKeys(s)
    PROVE  k \in Key /\ Slot(k) \in Index /\ Slot(k) \in Int /\ 0 <= Slot(k) /\ Slot(k) < NumDicts
<1>1. \A i \in Index : DictInv(s.dicts[i], Own(i))
  BY Zenon DEF DictsInv
<1>2. k \in Key
  BY <1>1, InKeys
<1>3. Slot(k) \in Index
  BY <1>2, StoreConstants
<1> QED
  BY <1>2, <1>3, NumPow DEF Index

(* Counts are natural numbers. *)
LEMMA CountType ==
    ASSUME NEW s, DictsInv(s), NEW a, NEW b
    PROVE  IsFiniteSet(Part(s, a, b)) /\ CountIn(s, a, b) \in Nat
<1>1. IsFiniteSet(AllKeys(s))
  BY FiniteKeys, Zenon DEF DictsInv
<1>2. Part(s, a, b) \in SUBSET AllKeys(s)
  BY Zenon DEF Part
<1>3. IsFiniteSet(Part(s, a, b))
  BY <1>1, <1>2, FS_Subset
<1> QED
  BY <1>3, FS_CardinalityType, Zenon DEF CountIn

(* The count of two ranges side by side is the sum of their counts. *)
LEMMA CountSplit ==
    ASSUME NEW s, DictsInv(s), NEW a \in Int, NEW b \in Int, NEW c \in Int, a <= b, b <= c
    PROVE  CountIn(s, a, c) = CountIn(s, a, b) + CountIn(s, b, c)
<1> DEFINE S == Part(s, a, b)
           T == Part(s, b, c)
<1>1. ASSUME NEW k \in AllKeys(s)
      PROVE  /\ a <= Slot(k) /\ Slot(k) < c <=> (a <= Slot(k) /\ Slot(k) < b) \/ (b <= Slot(k) /\ Slot(k) < c)
             /\ ~((a <= Slot(k) /\ Slot(k) < b) /\ (b <= Slot(k) /\ Slot(k) < c))
  <2>1. Slot(k) \in Int
    BY SlotType
  <2> QED
    BY <2>1
<1>2. Part(s, a, c) = S \cup T /\ S \cap T = {}
  BY <1>1, Zenon DEF Part
<1>3. IsFiniteSet(S) /\ IsFiniteSet(T) /\ CountIn(s, a, b) \in Nat /\ CountIn(s, b, c) \in Nat
  BY CountType
<1> HIDE DEF S, T
<1>4. Cardinality(S \cup T) = Cardinality(S) + Cardinality(T) - Cardinality(S \cap T)
  BY <1>3, FS_Union
<1>5. Cardinality(S \cap T) = 0
  BY <1>2, FS_EmptySet
<1>6. CountIn(s, a, b) = Cardinality(S) /\ CountIn(s, b, c) = Cardinality(T) /\ CountIn(s, a, c) = Cardinality(S \cup T)
  BY <1>2, Zenon DEF CountIn, S, T
<1> QED
  BY <1>3, <1>4, <1>5, <1>6

(* No dict has no keys. *)
LEMMA CountEmpty ==
    ASSUME NEW s, DictsInv(s), NEW a \in Int
    PROVE  CountIn(s, a, a) = 0
<1>1. \A k \in AllKeys(s) : ~(a <= Slot(k) /\ Slot(k) < a)
  <2>1. \A k \in AllKeys(s) : Slot(k) \in Int
    BY SlotType
  <2> QED
    BY <2>1
<1>2. Part(s, a, a) = {}
  BY <1>1, Zenon DEF Part
<1> QED
  BY <1>2, FS_EmptySet, Zenon DEF CountIn

(* One dict has dictSize keys. *)
LEMMA CountDict ==
    ASSUME NEW s, DictsInv(s), NEW i \in Index
    PROVE  CountIn(s, i, i + 1) = DictSize(s.dicts[i]) /\ DictSize(s.dicts[i]) \in Nat
<1>0. i \in Int
  BY StoreConstants
<1>1. ASSUME NEW k PROVE k \in Part(s, i, i + 1) <=> k \in DictKeys(s.dicts[i])
  <2>1. k \in AllKeys(s) <=> k \in Key /\ k \in DictKeys(s.dicts[Slot(k)])
    BY InKeys, Zenon DEF DictsInv
  <2>2. k \in AllKeys(s) => (i <= Slot(k) /\ Slot(k) < i + 1 <=> Slot(k) = i)
    <3>1. k \in AllKeys(s) => Slot(k) \in Int
      BY SlotType
    <3> QED
      BY <1>0, <3>1
  <2>3. k \in DictKeys(s.dicts[i]) => k \in Key /\ Slot(k) = i
    <3>1. DictInv(s.dicts[i], Own(i))
      BY Zenon DEF DictsInv
    <3> QED
      BY <3>1, OwnKeys
  <2> QED
    BY <2>1, <2>2, <2>3, Zenon DEF Part
<1>2. Part(s, i, i + 1) = DictKeys(s.dicts[i])
  BY <1>1, Zenon
<1>3. DictSize(s.dicts[i]) = Cardinality(DictKeys(s.dicts[i]))
  <2>1. Small(Own(i)) /\ DictInv(s.dicts[i], Own(i))
    BY StoreConstants, Zenon DEF DictsInv
  <2> QED
    BY <2>1, SizeCount
<1>4. CountIn(s, i, i + 1) = Cardinality(DictKeys(s.dicts[i]))
  BY <1>2, Zenon DEF CountIn
<1>5. CountIn(s, i, i + 1) \in Nat
  BY CountType
<1> QED
  BY <1>3, <1>4, <1>5

(* All dicts have all keys. *)
LEMMA CountAll ==
    ASSUME NEW s, DictsInv(s)
    PROVE  CountIn(s, 0, NumDicts) = Cardinality(AllKeys(s))
<1>1. \A k \in AllKeys(s) : 0 <= Slot(k) /\ Slot(k) < NumDicts
  BY SlotType
<1>2. Part(s, 0, NumDicts) = AllKeys(s)
  BY <1>1, Zenon DEF Part
<1> QED
  BY <1>2, Zenon DEF CountIn

(* The function cumulativeKeyCountRead follows. *)
SumStep(F, s) == F = [j \in 0..NumDicts |-> IF j = 0 THEN 0 ELSE s.index[j] + F[j - LowBit[j]]]
Sums(s) == CHOOSE F : SumStep(F, s)
Counts(s) == [j \in 0..NumDicts |-> CountIn(s, 0, j)]

(* cumulativeKeyCountRead gives the count of the dicts up to i. *)
LEMMA CountUpToIs ==
    ASSUME NEW s, DictsInv(s), TreeInv(s), NEW i \in Index
    PROVE  CountUpTo(s, i) = CountIn(s, 0, i + 1)
<1>0. NumDicts \in Nat /\ NumDicts >= 1 /\ i \in Nat /\ i + 1 \in 0..NumDicts
  BY NumPow DEF Index
<1>1. ASSUME NEW j \in 0..NumDicts, j # 0
      PROVE  /\ j \in 1..NumDicts /\ j - LowBit[j] \in 0..NumDicts /\ j - LowBit[j] < j
             /\ CountIn(s, 0, j) = s.index[j] + CountIn(s, 0, j - LowBit[j])
  <2>1. j \in 1..NumDicts /\ j \in Int
    BY <1>0, <1>1
  <2>2. LowBit[j] \in Nat /\ LowBit[j] >= 1 /\ LowBit[j] <= j
    BY <2>1, LowBitRange
  <2> DEFINE b == j - LowBit[j]
  <2>3. b \in 0..NumDicts /\ b < j /\ b \in Int /\ 0 <= b /\ b <= j
    BY <1>0, <2>1, <2>2
  <2>4. s.index[j] = CountIn(s, b, j)
    BY <2>1, Zenon DEF TreeInv
  <2> HIDE DEF b
  <2>5. CountIn(s, 0, j) = CountIn(s, 0, b) + CountIn(s, b, j)
    BY <2>1, <2>3, CountSplit
  <2>6. CountIn(s, 0, b) \in Nat /\ CountIn(s, b, j) \in Nat
    BY CountType
  <2> QED
    BY <2>1, <2>3, <2>4, <2>5, <2>6 DEF b
<1>2. CountIn(s, 0, 0) = 0
  BY CountEmpty
<1>3. SumStep(Counts(s), s)
  <2>1. ASSUME NEW j \in 0..NumDicts
        PROVE  Counts(s)[j] = IF j = 0 THEN 0 ELSE s.index[j] + Counts(s)[j - LowBit[j]]
    <3>1. \A x \in 0..NumDicts : Counts(s)[x] = CountIn(s, 0, x)
      BY Zenon DEF Counts
    <3>2. CASE j = 0
      BY <1>2, <3>1, <3>2
    <3>3. CASE j # 0
      <4>1. j - LowBit[j] \in 0..NumDicts /\ CountIn(s, 0, j) = s.index[j] + CountIn(s, 0, j - LowBit[j])
        BY <1>1, <3>3
      <4> QED
        BY <3>1, <3>3, <4>1, Zenon
    <3> QED
      BY <3>2, <3>3
  <2>2. Counts(s) = [j \in 0..NumDicts |-> Counts(s)[j]]
    BY DEF Counts
  <2> QED
    BY <2>1, <2>2, Zenon DEF SumStep
<1>4. SumStep(Sums(s), s) /\ CountUpTo(s, i) = Sums(s)[i + 1]
  <2>1. SumStep(Sums(s), s)
    BY <1>3, Zenon DEF Sums
  <2>2. CountUpTo(s, i) = Sums(s)[i + 1]
    BY Zenon DEF CountUpTo, Sums, SumStep
  <2> QED
    BY <2>1, <2>2
<1> DEFINE F == Sums(s)
           T == {x \in 0..NumDicts : F[x] # CountIn(s, 0, x)}
<1>5. \A j \in 0..NumDicts : F[j] = IF j = 0 THEN 0 ELSE s.index[j] + F[j - LowBit[j]]
  BY <1>4, Zenon DEF SumStep
<1> HIDE DEF F
<1>6. T = {}
  <2>1. ASSUME T # {} PROVE FALSE
    <3>1. T \in SUBSET Nat
      <4>1. \A x \in 0..NumDicts : x \in Nat
        BY <1>0
      <4> QED
        BY <4>1, Zenon
    <3>2. PICK x \in T : \A y \in T : x <= y
      <4> HIDE DEF T
      <4> QED
        BY <2>1, <3>1, NatMin
    <3>3. x \in 0..NumDicts /\ F[x] # CountIn(s, 0, x)
      OBVIOUS
    <3>4. CASE x = 0
      BY <1>2, <1>5, <3>3, <3>4
    <3>5. CASE x # 0
      <4>1. /\ x - LowBit[x] \in 0..NumDicts /\ x - LowBit[x] < x
            /\ CountIn(s, 0, x) = s.index[x] + CountIn(s, 0, x - LowBit[x])
        BY <1>1, <3>3, <3>5
      <4>2. ~(x <= x - LowBit[x])
        BY <1>0, <3>3, <4>1
      <4>3. x - LowBit[x] \notin T
        <5> HIDE DEF T
        <5> QED
          BY <3>2, <4>2
      <4>4. F[x - LowBit[x]] = CountIn(s, 0, x - LowBit[x])
        BY <4>1, <4>3
      <4>5. F[x] = s.index[x] + F[x - LowBit[x]]
        BY <1>5, <3>3, <3>5
      <4> QED
        BY <3>3, <4>1, <4>4, <4>5
    <3> QED
      BY <3>4, <3>5
  <2> QED
    BY <2>1
<1> QED
  BY <1>0, <1>4, <1>6 DEF F

(* Counts grow with the dicts counted. *)
LEMMA CountGrows ==
    ASSUME NEW s, DictsInv(s), NEW a \in Nat, NEW b \in Nat, a <= b
    PROVE  CountIn(s, 0, a) <= CountIn(s, 0, b) /\ CountIn(s, 0, a) \in Nat /\ CountIn(s, 0, b) \in Nat
<1>1. 0 \in Int /\ a \in Int /\ b \in Int /\ 0 <= a
  OBVIOUS
<1>2. CountIn(s, 0, b) = CountIn(s, 0, a) + CountIn(s, a, b)
  BY <1>1, CountSplit
<1>3. CountIn(s, 0, a) \in Nat /\ CountIn(s, a, b) \in Nat
  BY CountType
<1> QED
  BY <1>2, <1>3

(* Dict d has the t-th key. *)
Holds(s, t, d) == d \in Index /\ CountIn(s, 0, d) < t /\ t <= CountIn(s, 0, d + 1)

(* There is such a dict, for every key there is. *)
LEMMA HoldsExists ==
    ASSUME NEW s, DictsInv(s), NEW t \in Nat, t >= 1, t <= Cardinality(AllKeys(s))
    PROVE  \E d \in Index : Holds(s, t, d)
<1>0. NumDicts \in Nat /\ NumDicts >= 1 /\ Index = 0..(NumDicts - 1)
  BY NumPow DEF Index
<1> DEFINE T == {n \in Nat : t <= CountIn(s, 0, n)}
<1>1. T \in SUBSET Nat
  OBVIOUS
<1>2. NumDicts \in T
  BY <1>0, CountAll
<1>3. PICK x \in T : \A y \in T : x <= y
  <2> HIDE DEF T
  <2> QED
    BY <1>1, <1>2, NatMin, Zenon
<1>4. x \in Nat /\ t <= CountIn(s, 0, x) /\ x <= NumDicts
  <2>1. x <= NumDicts
    <3> HIDE DEF T
    <3> QED
      BY <1>2, <1>3
  <2> QED
    BY <2>1
<1>5. x # 0
  <2>1. CountIn(s, 0, 0) = 0
    BY CountEmpty
  <2> QED
    BY <1>4, <2>1
<1>6. x - 1 \in Nat /\ x - 1 \in Index /\ (x - 1) + 1 = x
  BY <1>0, <1>4, <1>5
<1>7. CountIn(s, 0, x - 1) < t
  <2>1. ~(x <= x - 1)
    BY <1>4
  <2>2. x - 1 \notin T
    <3> HIDE DEF T
    <3> QED
      BY <1>3, <2>1
  <2>3. CountIn(s, 0, x - 1) \in Nat
    BY CountType
  <2> QED
    BY <1>6, <2>2, <2>3
<1>8. Holds(s, t, x - 1)
  BY <1>4, <1>6, <1>7 DEF Holds
<1> QED
  BY <1>6, <1>8

(* The node between. *)
LEMMA NodeBetween ==
    ASSUME NEW d \in Nat, NEW b \in Nat, Down(d, b + 1) + Pow(b) <= NumDicts
    PROVE  Down(d, b + 1) + Pow(b) \in 1..NumDicts /\ LowBit[Down(d, b + 1) + Pow(b)] = Pow(b)
<1> DEFINE n == Down(d, b + 1)
<1>1. b + 1 \in Nat /\ Pow(b + 1) = 2 * Pow(b) /\ Pow(b) \in Nat /\ Pow(b) >= 1 /\ Pow(b + 1) \in Nat
  BY PowNext, PowPositive
<1>2. n \in Nat /\ Mult(n, Pow(b + 1)) /\ NumDicts \in Nat
  BY <1>1, DownType, NumPow
<1>0. n + Pow(b) <= NumDicts
  OBVIOUS
<1> HIDE DEF n
<1>3. Mult(n, Pow(b))
  BY <1>1, <1>2, MultPow
<1>4. Mult(n + Pow(b), Pow(b))
  <2>1. Mult(Pow(b), Pow(b))
    BY <1>1, MultZero
  <2> QED
    BY <1>1, <1>2, <1>3, <2>1, MultSum
<1>5. ~Mult(n + Pow(b), Pow(b + 1))
  <2>1. ASSUME Mult(n + Pow(b), Pow(b + 1)) PROVE FALSE
    <3>1. n < n + Pow(b) /\ n + Pow(b) \in Int
      BY <1>1, <1>2
    <3>2. n + Pow(b + 1) <= n + Pow(b)
      BY <1>1, <1>2, <2>1, <3>1, MultGap
    <3> QED
      BY <1>1, <1>2, <3>2
  <2> QED
    BY <2>1
<1>6. n + Pow(b) \in 1..NumDicts
  BY <1>0, <1>1, <1>2
<1>7. LowBit[n + Pow(b)] = Pow(b)
  BY <1>4, <1>5, <1>6, LowBitOnly
<1> QED
  BY <1>6, <1>7 DEF n

(* One bit of the search, from r; and the search. *)
SeekBit(s, b, r) ==
    IF r[1] + 2^b <= NumDicts /\ r[2] > s.index[r[1] + 2^b]
    THEN <<r[1] + 2^b, r[2] - s.index[r[1] + 2^b]>> ELSE r
SeekStep(F, s, t) == F = [b \in 0..(Bits + 1) |-> IF b = Bits + 1 THEN <<0, t>> ELSE SeekBit(s, b, F[b + 1])]
Seek(s, t) == CHOOSE F : SeekStep(F, s, t)
(* where it is before bit b - 1 is tried, if dict d has the key *)
Sought(s, t, d, b) == <<Down(d, b), t - CountIn(s, 0, Down(d, b))>>
SoughtAll(s, t, d) == [b \in 0..(Bits + 1) |-> Sought(s, t, d, b)]

(* One bit of the search keeps to the dict that has the key. *)
LEMMA SoughtNext ==
    ASSUME NEW s, DictsInv(s), TreeInv(s), NEW t \in Nat, NEW d, Holds(s, t, d), NEW b \in Nat
    PROVE  Sought(s, t, d, b) = SeekBit(s, b, Sought(s, t, d, b + 1))
<1> DEFINE n0 == Down(d, b + 1)
           n == n0 + Pow(b)
           r == Sought(s, t, d, b + 1)
<1>0. NumDicts \in Nat /\ d \in Nat /\ d < NumDicts /\ CountIn(s, 0, d) < t /\ t <= CountIn(s, 0, d + 1)
  BY NumPow DEF Holds, Index
<1>1. n0 \in Nat /\ n0 <= d /\ b + 1 \in Nat
  <2>1. b + 1 \in Nat
    OBVIOUS
  <2> QED
    BY <1>0, <2>1, DownType
<1>2. Pow(b) \in Nat /\ Pow(b) >= 1
  BY PowPositive
<1>3. Down(d, b) = IF n <= d THEN n ELSE n0
  BY <1>0, DownNext
<1>4. r[1] = n0 /\ r[2] = t - CountIn(s, 0, n0) /\ r = <<n0, t - CountIn(s, 0, n0)>>
  BY DEF Sought
<1>5. n <= NumDicts => n \in 1..NumDicts /\ LowBit[n] = Pow(b)
  BY <1>0, NodeBetween
<1>6. CountIn(s, 0, n0) \in Nat /\ CountIn(s, 0, n) \in Nat /\ CountIn(s, n0, n) \in Nat
  BY CountType
<1> HIDE DEF n0
<1>7. n \in Nat /\ n0 < n
  BY <1>1, <1>2
<1>8. n <= NumDicts => s.index[n] = CountIn(s, n0, n)
  <2>1. n - Pow(b) = n0
    BY <1>1, <1>2
  <2>2. n \in 1..NumDicts => s.index[n] = CountIn(s, n - LowBit[n], n)
    BY Zenon DEF TreeInv
  <2> HIDE DEF n
  <2> QED
    BY <1>5, <2>1, <2>2
<1>9. CountIn(s, 0, n) = CountIn(s, 0, n0) + CountIn(s, n0, n)
  <2>1. 0 \in Int /\ n0 \in Int /\ n \in Int /\ 0 <= n0 /\ n0 <= n
    BY <1>1, <1>7
  <2> QED
    BY <2>1, CountSplit
<1>10. n <= d => CountIn(s, 0, n) < t
  <2>1. n <= d => CountIn(s, 0, n) <= CountIn(s, 0, d) /\ CountIn(s, 0, d) \in Nat
    BY <1>0, <1>7, CountGrows
  <2> QED
    BY <1>0, <1>6, <2>1
<1>11. ~(n <= d) => t <= CountIn(s, 0, n)
  <2>1. ~(n <= d) => d + 1 <= n /\ d + 1 \in Nat
    BY <1>0, <1>7
  <2>2. ~(n <= d) => CountIn(s, 0, d + 1) <= CountIn(s, 0, n) /\ CountIn(s, 0, d + 1) \in Nat
    BY <1>7, <2>1, CountGrows
  <2> QED
    BY <1>0, <1>6, <2>2
<1> HIDE DEF n
<1>12. n <= NumDicts => (r[2] > s.index[n] <=> n <= d)
  BY <1>4, <1>6, <1>8, <1>9, <1>10, <1>11
<1>13. n <= d => n <= NumDicts
  BY <1>0, <1>7
<1>14. r[1] + 2^b = n
  BY <1>4, Zenon DEF n, Pow
<1> HIDE DEF r
<1>15. SeekBit(s, b, r) = IF n <= NumDicts /\ r[2] > s.index[n] THEN <<n, r[2] - s.index[n]>> ELSE r
  BY <1>14, Zenon DEF SeekBit
<1>16. CASE n <= d
  <2>1. SeekBit(s, b, r) = <<n, r[2] - s.index[n]>>
    BY <1>12, <1>13, <1>15, <1>16
  <2>2. r[2] - s.index[n] = t - CountIn(s, 0, n)
    BY <1>4, <1>6, <1>8, <1>9, <1>13, <1>16
  <2>3. Down(d, b) = n
    BY <1>3, <1>16
  <2>4. Sought(s, t, d, b) = <<n, t - CountIn(s, 0, n)>>
    BY <2>3, Zenon DEF Sought
  <2> QED
    BY <2>1, <2>2, <2>4 DEF r
<1>17. CASE ~(n <= d)
  <2>1. SeekBit(s, b, r) = r
    BY <1>12, <1>15, <1>17
  <2>2. Down(d, b) = n0
    BY <1>3, <1>17
  <2>3. Sought(s, t, d, b) = <<n0, t - CountIn(s, 0, n0)>>
    BY <2>2, Zenon DEF Sought
  <2> QED
    BY <1>4, <2>1, <2>3 DEF r
<1> QED
  BY <1>16, <1>17

(* So does the whole search. *)
LEMMA SeekSought ==
    ASSUME NEW s, DictsInv(s), TreeInv(s), NEW t \in Nat, NEW d, Holds(s, t, d)
    PROVE  SeekStep(SoughtAll(s, t, d), s, t)
<1>0. Bits \in Nat /\ NumDicts = Pow(Bits) /\ NumDicts \in Nat /\ d \in Nat /\ d < NumDicts
  BY NumPow DEF Holds, Index
<1>1. \A b \in 0..(Bits + 1) : SoughtAll(s, t, d)[b] = Sought(s, t, d, b)
  BY Zenon DEF SoughtAll
<1>2. Sought(s, t, d, Bits + 1) = <<0, t>>
  <2>1. Pow(Bits + 1) = 2 * Pow(Bits) /\ Bits + 1 \in Nat
    BY <1>0, PowNext
  <2>2. Mult(0, Pow(Bits + 1)) /\ 0 <= d /\ d < 0 + Pow(Bits + 1) /\ 0 \in Nat
    <3>1. Pow(Bits + 1) \in Int
      BY <1>0, <2>1
    <3>2. Mult(0, Pow(Bits + 1))
      BY <3>1, MultZero
    <3> QED
      BY <1>0, <2>1, <3>2
  <2>3. Down(d, Bits + 1) = 0
    BY <1>0, <2>1, <2>2, DownIs
  <2>4. CountIn(s, 0, 0) = 0
    BY CountEmpty
  <2>5. t - CountIn(s, 0, Down(d, Bits + 1)) = t
    BY <2>3, <2>4
  <2> QED
    BY <2>3, <2>5, Zenon DEF Sought
<1>3. ASSUME NEW b \in 0..(Bits + 1)
      PROVE  SoughtAll(s, t, d)[b] = IF b = Bits + 1 THEN <<0, t>> ELSE SeekBit(s, b, SoughtAll(s, t, d)[b + 1])
  <2>1. CASE b = Bits + 1
    BY <1>1, <1>2, <2>1
  <2>2. CASE b # Bits + 1
    <3>1. b \in Nat /\ b + 1 \in 0..(Bits + 1)
      BY <1>0, <2>2
    <3>2. Sought(s, t, d, b) = SeekBit(s, b, Sought(s, t, d, b + 1))
      BY <3>1, SoughtNext
    <3> QED
      BY <1>1, <2>2, <3>1, <3>2, Zenon
  <2> QED
    BY <2>1, <2>2
<1>4. SoughtAll(s, t, d) = [b \in 0..(Bits + 1) |-> SoughtAll(s, t, d)[b]]
  BY DEF SoughtAll
<1> QED
  BY <1>3, <1>4, Zenon DEF SeekStep

(* kvstoreFindDictIndexByKeyIndex finds the dict of the t-th key. *)
LEMMA FindDictIs ==
    ASSUME NEW s, DictsInv(s), TreeInv(s), NEW t \in Nat, NEW d, Holds(s, t, d), s.key_count # 0
    PROVE  FindDict(s, t) = d
<1>0. Bits \in Nat /\ d \in Nat
  BY NumPow DEF Holds, Index
<1>1. SeekStep(Seek(s, t), s, t)
  <2>1. SeekStep(SoughtAll(s, t, d), s, t)
    BY SeekSought
  <2> QED
    BY <2>1, Zenon DEF Seek
<1>2. FindDict(s, t) = Seek(s, t)[0][1]
  BY Zenon DEF FindDict, Seek, SeekStep, SeekBit
<1> DEFINE F == Seek(s, t)
           T == {x \in 0..(Bits + 1) : F[x] # Sought(s, t, d, x)}
<1>3. \A b \in 0..(Bits + 1) : F[b] = IF b = Bits + 1 THEN <<0, t>> ELSE SeekBit(s, b, F[b + 1])
  BY <1>1, Zenon DEF SeekStep
<1>4. /\ Sought(s, t, d, Bits + 1) = <<0, t>>
      /\ \A b \in 0..(Bits + 1) : b # Bits + 1 => Sought(s, t, d, b) = SeekBit(s, b, Sought(s, t, d, b + 1))
  <2>1. SeekStep(SoughtAll(s, t, d), s, t)
    BY SeekSought
  <2>2. \A b \in 0..(Bits + 1) : SoughtAll(s, t, d)[b] = Sought(s, t, d, b)
    BY Zenon DEF SoughtAll
  <2>3. \A b \in 0..(Bits + 1) :
           SoughtAll(s, t, d)[b] = IF b = Bits + 1 THEN <<0, t>> ELSE SeekBit(s, b, SoughtAll(s, t, d)[b + 1])
    BY <2>1, Zenon DEF SeekStep
  <2>4. Bits + 1 \in 0..(Bits + 1) /\ \A b \in 0..(Bits + 1) : b # Bits + 1 => b + 1 \in 0..(Bits + 1)
    BY <1>0
  <2> QED
    BY <2>2, <2>3, <2>4, Zenon
<1> HIDE DEF F
<1>5. T = {}
  <2>1. ASSUME T # {} PROVE FALSE
    <3>1. T \in SUBSET Nat /\ Bits + 1 \in Nat /\ \A x \in T : x <= Bits + 1
      <4>1. (\A x \in 0..(Bits + 1) : x \in Nat /\ x <= Bits + 1) /\ Bits + 1 \in Nat
        BY <1>0
      <4> QED
        BY <4>1, Zenon
    <3>2. PICK x \in T : \A y \in T : y <= x
      <4> HIDE DEF T
      <4> QED
        BY <2>1, <3>1, NatMax
    <3>3. x \in 0..(Bits + 1) /\ F[x] # Sought(s, t, d, x)
      OBVIOUS
    <3>4. CASE x = Bits + 1
      BY <1>3, <1>4, <3>3, <3>4
    <3>5. CASE x # Bits + 1
      <4>1. x + 1 \in 0..(Bits + 1) /\ ~(x + 1 <= x)
        BY <1>0, <3>3, <3>5
      <4>2. x + 1 \notin T
        <5> HIDE DEF T
        <5> QED
          BY <3>2, <4>1
      <4>3. F[x + 1] = Sought(s, t, d, x + 1)
        BY <4>1, <4>2
      <4>4. F[x] = SeekBit(s, x, F[x + 1])
        BY <1>3, <3>3, <3>5
      <4> QED
        BY <1>4, <3>3, <3>5, <4>3, <4>4
    <3> QED
      BY <3>4, <3>5
  <2> QED
    BY <2>1
<1>6. F[0] = Sought(s, t, d, 0)
  <2>1. 0 \in 0..(Bits + 1)
    BY <1>0
  <2> QED
    BY <1>5, <2>1
<1>7. Down(d, 0) = d
  <2>1. Pow(0) = 1
    BY DEF Pow
  <2>2. Mult(d, Pow(0)) /\ d < d + Pow(0)
    BY <1>0, <2>1 DEF Mult
  <2> QED
    BY <1>0, <2>2, DownIs
<1> QED
  BY <1>2, <1>6, <1>7 DEF F, Sought

(* Where nothing is counted there is no key. *)
LEMMA PartEmpty ==
    ASSUME NEW s, DictsInv(s), NEW a \in Int, NEW b \in Int, CountIn(s, a, b) = 0, NEW k \in AllKeys(s)
    PROVE  ~(a <= Slot(k) /\ Slot(k) < b)
<1>1. IsFiniteSet(Part(s, a, b))
  BY CountType
<1>2. Part(s, a, b) = {}
  BY <1>1, FS_EmptySet, Zenon DEF CountIn
<1> QED
  BY <1>2, Zenon DEF Part

(* kvstoreGetNextNonEmptyDictIndex passes over no key. *)
LEMMA NextNonEmptyIs ==
    ASSUME NEW s, DictsInv(s), TreeInv(s), s.key_count = Cardinality(AllKeys(s)), NEW i \in Index
    PROVE  \/ /\ NextNonEmpty(s, i) = -1
              /\ \A k \in AllKeys(s) : Slot(k) <= i
           \/ /\ NextNonEmpty(s, i) \in Index /\ NextNonEmpty(s, i) > i
              /\ \A k \in AllKeys(s) : Slot(k) <= i \/ Slot(k) >= NextNonEmpty(s, i)
<1>0. NumDicts \in Nat /\ i \in Nat /\ i < NumDicts /\ Index \in SUBSET Nat /\ i + 1 \in Nat /\ i + 1 <= NumDicts
  BY NumPow DEF Index
<1> DEFINE C == CountIn(s, 0, i + 1)
<1>1. C \in Nat /\ CountUpTo(s, i) = C
  BY CountType, CountUpToIs
<1>2. s.key_count = CountIn(s, 0, NumDicts) /\ s.key_count \in Nat
  BY CountAll, CountType
<1> HIDE DEF C
<1>3. NextNonEmpty(s, i) = IF C + 1 <= s.key_count THEN FindDict(s, C + 1) ELSE -1
  BY <1>1, Zenon DEF NextNonEmpty
<1>4. \A k \in AllKeys(s) : Slot(k) \in Int /\ Slot(k) < NumDicts
  BY SlotType
<1>5. CASE C + 1 <= s.key_count
  <2>1. C + 1 \in Nat /\ C + 1 >= 1 /\ s.key_count # 0
    BY <1>1, <1>2, <1>5
  <2>2. PICK d \in Index : Holds(s, C + 1, d)
    BY <1>5, <2>1, HoldsExists
  <2>3. FindDict(s, C + 1) = d
    BY <2>1, <2>2, FindDictIs
  <2>4. d \in Nat /\ d + 1 \in Nat
    BY <1>0
  <2>5. CountIn(s, 0, d) < C + 1 /\ C + 1 <= CountIn(s, 0, d + 1)
    BY <2>2, Zenon DEF Holds
  <2>6. CountIn(s, 0, d) \in Nat /\ CountIn(s, 0, d + 1) \in Nat
    BY CountType
  <2>7. d > i
    <3>1. d + 1 <= i + 1 => CountIn(s, 0, d + 1) <= CountIn(s, 0, i + 1)
      BY <1>0, <2>4, CountGrows
    <3>2. d + 1 <= i + 1 => CountIn(s, 0, d + 1) <= C
      BY <3>1 DEF C
    <3>3. ~(d + 1 <= i + 1)
      BY <1>1, <2>5, <2>6, <3>2
    <3> QED
      BY <1>0, <2>4, <3>3
  <2>8. CountIn(s, i + 1, d) = 0
    <3>1. 0 \in Int /\ i + 1 \in Int /\ d \in Int /\ 0 <= i + 1 /\ i + 1 <= d
      BY <1>0, <2>4, <2>7
    <3>2. CountIn(s, 0, d) = CountIn(s, 0, i + 1) + CountIn(s, i + 1, d)
      BY <3>1, CountSplit
    <3>3. CountIn(s, i + 1, d) \in Nat
      BY CountType
    <3>4. CountIn(s, 0, d) = C + CountIn(s, i + 1, d)
      BY <3>2 DEF C
    <3> QED
      BY <1>1, <2>5, <2>6, <3>3, <3>4
  <2>9. ASSUME NEW k \in AllKeys(s) PROVE Slot(k) <= i \/ Slot(k) >= d
    <3>1. i + 1 \in Int /\ d \in Int
      BY <1>0, <2>4
    <3>2. ~(i + 1 <= Slot(k) /\ Slot(k) < d)
      BY <2>8, <3>1, PartEmpty
    <3> QED
      BY <1>0, <1>4, <2>4, <3>2
  <2>10. NextNonEmpty(s, i) = d
    BY <1>3, <1>5, <2>3
  <2> QED
    BY <2>7, <2>9, <2>10
<1>6. CASE ~(C + 1 <= s.key_count)
  <2>1. CountIn(s, i + 1, NumDicts) = 0
    <3>1. 0 \in Int /\ i + 1 \in Int /\ NumDicts \in Int /\ 0 <= i + 1 /\ i + 1 <= NumDicts
      BY <1>0
    <3>2. CountIn(s, 0, NumDicts) = CountIn(s, 0, i + 1) + CountIn(s, i + 1, NumDicts)
      BY <3>1, CountSplit
    <3>3. CountIn(s, i + 1, NumDicts) \in Nat
      BY CountType
    <3>4. CountIn(s, 0, NumDicts) = C + CountIn(s, i + 1, NumDicts)
      BY <3>2 DEF C
    <3> QED
      BY <1>1, <1>2, <1>6, <3>3, <3>4
  <2>2. ASSUME NEW k \in AllKeys(s) PROVE Slot(k) <= i
    <3>1. i + 1 \in Int /\ NumDicts \in Int
      BY <1>0
    <3>2. ~(i + 1 <= Slot(k) /\ Slot(k) < NumDicts)
      BY <2>1, <3>1, PartEmpty
    <3> QED
      BY <1>0, <1>4, <3>2
  <2> QED
    BY <1>3, <1>6, <2>2
<1> QED
  BY <1>5, <1>6

(* The sums IndexExact compares with. *)
TotalStep(F, s) == F = [i \in Index |-> DictSize(s.dicts[i]) + IF i = 0 THEN 0 ELSE F[i - 1]]
Total(s) == CHOOSE F : TotalStep(F, s)
Totals(s) == [i \in Index |-> CountIn(s, 0, i + 1)]

(* Those sums are the counts. *)
LEMMA TotalIs ==
    ASSUME NEW s, DictsInv(s), NEW d \in Index
    PROVE  Total(s)[d] = CountIn(s, 0, d + 1)
<1>0. NumDicts \in Nat /\ Index = 0..(NumDicts - 1) /\ Index \in SUBSET Nat /\ 0 \in Index
  BY NumPow DEF Index
<1>1. ASSUME NEW i \in Index
      PROVE  /\ i = 0 => CountIn(s, 0, i + 1) = DictSize(s.dicts[i]) + 0
             /\ i # 0 => i - 1 \in Index /\ CountIn(s, 0, i + 1) = DictSize(s.dicts[i]) + CountIn(s, 0, (i - 1) + 1)
  <2>1. CountIn(s, i, i + 1) = DictSize(s.dicts[i]) /\ DictSize(s.dicts[i]) \in Nat
    BY CountDict
  <2>2. i \in Nat /\ i \in Int /\ 0 \in Int /\ i + 1 \in Int /\ 0 <= i /\ i <= i + 1 /\ (i - 1) + 1 = i
    BY <1>0
  <2>3. CountIn(s, 0, i + 1) = CountIn(s, 0, i) + CountIn(s, i, i + 1)
    BY <2>2, CountSplit
  <2>4. CountIn(s, 0, 0) = 0 /\ CountIn(s, 0, i) \in Nat
    BY CountEmpty, CountType
  <2>5. i # 0 => i - 1 \in Index
    BY <1>0
  <2>6. i # 0 => CountIn(s, 0, (i - 1) + 1) = CountIn(s, 0, i)
    BY <2>2
  <2> QED
    BY <2>1, <2>3, <2>4, <2>5, <2>6
<1>2. TotalStep(Totals(s), s)
  <2>1. ASSUME NEW i \in Index
        PROVE  Totals(s)[i] = DictSize(s.dicts[i]) + IF i = 0 THEN 0 ELSE Totals(s)[i - 1]
    <3>1. \A x \in Index : Totals(s)[x] = CountIn(s, 0, x + 1)
      BY Zenon DEF Totals
    <3>2. CASE i = 0
      BY <1>1, <3>1, <3>2
    <3>3. CASE i # 0
      BY <1>1, <3>1, <3>3
    <3> QED
      BY <3>2, <3>3
  <2>2. Totals(s) = [i \in Index |-> Totals(s)[i]]
    BY DEF Totals
  <2> QED
    BY <2>1, <2>2, Zenon DEF TotalStep
<1>3. TotalStep(Total(s), s)
  BY <1>2, Zenon DEF Total
<1> DEFINE F == Total(s)
           T == {x \in Index : F[x] # CountIn(s, 0, x + 1)}
<1>4. \A i \in Index : F[i] = DictSize(s.dicts[i]) + IF i = 0 THEN 0 ELSE F[i - 1]
  BY <1>3, Zenon DEF TotalStep
<1> HIDE DEF F
<1>5. T = {}
  <2>1. ASSUME T # {} PROVE FALSE
    <3>1. T \in SUBSET Nat
      BY <1>0
    <3>2. PICK x \in T : \A y \in T : x <= y
      <4> HIDE DEF T
      <4> QED
        BY <2>1, <3>1, NatMin
    <3>3. x \in Index /\ F[x] # CountIn(s, 0, x + 1) /\ x \in Nat
      BY <1>0
    <3>4. CASE x = 0
      BY <1>1, <1>4, <3>3, <3>4
    <3>5. CASE x # 0
      <4>1. x - 1 \in Index /\ CountIn(s, 0, x + 1) = DictSize(s.dicts[x]) + CountIn(s, 0, (x - 1) + 1)
        BY <1>1, <3>3, <3>5
      <4>2. ~(x <= x - 1)
        BY <3>3
      <4>3. x - 1 \notin T
        <5> HIDE DEF T
        <5> QED
          BY <3>2, <4>2
      <4>4. F[x - 1] = CountIn(s, 0, (x - 1) + 1)
        BY <4>1, <4>3
      <4>5. F[x] = DictSize(s.dicts[x]) + F[x - 1]
        BY <1>4, <3>3, <3>5
      <4> QED
        BY <3>3, <4>1, <4>4, <4>5
    <3> QED
      BY <3>4, <3>5
  <2> QED
    BY <2>1
<1> QED
  BY <1>5 DEF F

(* The tree agrees with them if it is in order. *)
LEMMA IndexFollows ==
    ASSUME DictsInv(kvs), TreeInv(kvs), kvs.key_count = Cardinality(AllKeys(kvs))
    PROVE  IndexExact
<1>0. NumDicts \in Nat /\ NumDicts >= 1 /\ Index \in SUBSET Nat /\ NumDicts - 1 \in Index /\ (NumDicts - 1) + 1 = NumDicts
  BY NumPow DEF Index
<1> DEFINE U == Total(kvs)
<1>1. ASSUME NEW i \in Index PROVE CountUpTo(kvs, i) = U[i]
  <2>1. U[i] = CountIn(kvs, 0, i + 1)
    BY TotalIs
  <2>2. CountUpTo(kvs, i) = CountIn(kvs, 0, i + 1)
    BY CountUpToIs
  <2> QED
    BY <2>1, <2>2
<1>2. kvs.key_count = U[NumDicts - 1]
  <2>1. U[NumDicts - 1] = CountIn(kvs, 0, (NumDicts - 1) + 1)
    BY <1>0, TotalIs
  <2> QED
    BY <1>0, <2>1, CountAll
<1>3. ASSUME NEW n \in 1..kvs.key_count
      PROVE  U[FindDict(kvs, n)] >= n /\ U[FindDict(kvs, n)] - DictSize(kvs.dicts[FindDict(kvs, n)]) < n
  <2>0. kvs.key_count \in Nat
    BY CountAll, CountType
  <2>1. n \in Nat /\ n >= 1 /\ n <= Cardinality(AllKeys(kvs)) /\ kvs.key_count # 0
    BY <2>0
  <2>2. PICK d \in Index : Holds(kvs, n, d)
    BY <2>1, HoldsExists
  <2>3. FindDict(kvs, n) = d
    BY <2>1, <2>2, FindDictIs
  <2>4. U[d] = CountIn(kvs, 0, d + 1) /\ U[d] \in Nat
    <3>1. U[d] = CountIn(kvs, 0, d + 1)
      BY TotalIs
    <3> QED
      BY <3>1, CountType
  <2>5. CountIn(kvs, 0, d) < n /\ n <= CountIn(kvs, 0, d + 1)
    BY <2>2, Zenon DEF Holds
  <2>6. CountIn(kvs, d, d + 1) = DictSize(kvs.dicts[d]) /\ DictSize(kvs.dicts[d]) \in Nat
    BY CountDict
  <2>7. d \in Int /\ 0 \in Int /\ d + 1 \in Int /\ 0 <= d /\ d <= d + 1
    BY <1>0
  <2>8. CountIn(kvs, 0, d + 1) = CountIn(kvs, 0, d) + CountIn(kvs, d, d + 1)
    BY <2>7, CountSplit
  <2>9. CountIn(kvs, 0, d) \in Nat
    BY CountType
  <2> HIDE DEF U
  <2>10. U[d] >= n /\ U[d] - DictSize(kvs.dicts[d]) < n
    BY <2>1, <2>4, <2>5, <2>6, <2>8, <2>9
  <2> QED
    BY <2>3, <2>10
<1> HIDE DEF U
<1>4. /\ \A i \in Index : CountUpTo(kvs, i) = U[i]
      /\ kvs.key_count = U[NumDicts - 1]
      /\ \A n \in 1..kvs.key_count :
           U[FindDict(kvs, n)] >= n /\ U[FindDict(kvs, n)] - DictSize(kvs.dicts[FindDict(kvs, n)]) < n
  BY <1>1, <1>2, <1>3
<1> QED
  BY <1>4, Zenon DEF IndexExact, U, Total, TotalStep

-----------------------------------------------------------------------------
(* The tree when a key comes or goes *)

(* The nodes that count dict i, changed by delta. *)
Bump(x, i, delta) == [j \in 1..NumDicts |-> IF j \in Up[i + 1] THEN x[j] + delta ELSE x[j]]

(* The tree of a store with the same keys. *)
LEMMA TreeSame ==
    ASSUME NEW s, NEW t, TreeInv(s), t.index = s.index, AllKeys(t) = AllKeys(s)
    PROVE  TreeInv(t)
  BY Zenon DEF TreeInv, CountIn, Part

(* cumulativeKeyCountAdd changes the nodes that count the dict, *)
LEMMA BumpNodes ==
    ASSUME NEW x, NEW i \in Index, NEW delta, NEW j \in 1..NumDicts
    PROVE  /\ j - LowBit[j] \in Int /\ j \in Int /\ i \in Int
           /\ Bump(x, i, delta)[j] = IF j - LowBit[j] <= i /\ i < j THEN x[j] + delta ELSE x[j]
<1>1. LowBit[j] \in Nat /\ NumDicts \in Nat
  BY LowBitRange, NumPow
<1>2. i \in Int /\ i + 1 \in 1..NumDicts
  BY <1>1 DEF Index
<1>3. j - LowBit[j] \in Int /\ j \in Int
  BY <1>1
<1>4. j \in Up[i + 1] <=> i + 1 <= j /\ j - LowBit[j] < i + 1
  BY <1>2, UpIs, Zenon DEF Over
<1>5. j \in Up[i + 1] <=> j - LowBit[j] <= i /\ i < j
  BY <1>2, <1>3, <1>4
<1>6. Bump(x, i, delta)[j] = IF j \in Up[i + 1] THEN x[j] + delta ELSE x[j]
  BY Zenon DEF Bump
<1> QED
  BY <1>2, <1>3, <1>5, <1>6, Zenon

(* which is right when a key is added *)
LEMMA TreeAdd ==
    ASSUME NEW s, NEW t, DictsInv(s), DictsInv(t), TreeInv(s), NEW k \in Key, k \notin AllKeys(s),
           AllKeys(t) = AllKeys(s) \cup {k}, t.index = Bump(s.index, Slot(k), 1)
    PROVE  TreeInv(t)
<1> SUFFICES ASSUME NEW j \in 1..NumDicts PROVE t.index[j] = CountIn(t, j - LowBit[j], j)
  BY Zenon DEF TreeInv
<1> DEFINE a == j - LowBit[j]
           i == Slot(k)
<1>1. i \in Index
  BY StoreConstants
<1>2. t.index[j] = IF a <= i /\ i < j THEN s.index[j] + 1 ELSE s.index[j]
  BY <1>1, BumpNodes
<1>3. s.index[j] = CountIn(s, a, j)
  BY Zenon DEF TreeInv
<1> HIDE DEF a
<1>4. IsFiniteSet(Part(s, a, j))
  BY CountType
<1>5. CASE a <= i /\ i < j
  <2>1. Part(t, a, j) = Part(s, a, j) \cup {k} /\ k \notin Part(s, a, j)
    BY <1>5, Zenon DEF Part
  <2>2. Cardinality(Part(t, a, j)) = Cardinality(Part(s, a, j)) + 1
    BY <1>4, <2>1, FS_AddElement
  <2> QED
    BY <1>2, <1>3, <1>5, <2>2, Zenon DEF CountIn, a
<1>6. CASE ~(a <= i /\ i < j)
  <2>1. Part(t, a, j) = Part(s, a, j)
    BY <1>6, Zenon DEF Part
  <2> QED
    BY <1>2, <1>3, <1>6, <2>1, Zenon DEF CountIn, a
<1> QED
  BY <1>5, <1>6

(* and when one is deleted. *)
LEMMA TreeDelete ==
    ASSUME NEW s, NEW t, DictsInv(s), DictsInv(t), TreeInv(s), NEW k \in Key, k \in AllKeys(s),
           AllKeys(t) = AllKeys(s) \ {k}, t.index = Bump(s.index, Slot(k), -1)
    PROVE  TreeInv(t)
<1> SUFFICES ASSUME NEW j \in 1..NumDicts PROVE t.index[j] = CountIn(t, j - LowBit[j], j)
  BY Zenon DEF TreeInv
<1> DEFINE a == j - LowBit[j]
           i == Slot(k)
<1>1. i \in Index
  BY StoreConstants
<1>2. t.index[j] = IF a <= i /\ i < j THEN s.index[j] + (-1) ELSE s.index[j]
  BY <1>1, BumpNodes
<1>3. s.index[j] = CountIn(s, a, j)
  BY Zenon DEF TreeInv
<1> HIDE DEF a
<1>4. IsFiniteSet(Part(s, a, j)) /\ CountIn(s, a, j) \in Nat
  BY CountType
<1>5. CASE a <= i /\ i < j
  <2>1. Part(t, a, j) = Part(s, a, j) \ {k} /\ k \in Part(s, a, j)
    BY <1>5, Zenon DEF Part
  <2>2. Cardinality(Part(t, a, j)) = Cardinality(Part(s, a, j)) - 1
    BY <1>4, <2>1, FS_RemoveElement
  <2>3. CountIn(t, a, j) = CountIn(s, a, j) + (-1)
    BY <1>4, <2>2 DEF CountIn
  <2> QED
    BY <1>2, <1>3, <1>5, <2>3, Zenon DEF a
<1>6. CASE ~(a <= i /\ i < j)
  <2>1. Part(t, a, j) = Part(s, a, j)
    BY <1>6, Zenon DEF Part
  <2> QED
    BY <1>2, <1>3, <1>6, <2>1, Zenon DEF CountIn, a
<1> QED
  BY <1>5, <1>6

-----------------------------------------------------------------------------
(* Changing one dict *)

(* Store t is store s but for dict i, which is d, and the counters. *)
Changes(s, t, i, d) ==
    /\ StoreInv(s) /\ t \in KvsSet /\ i \in Index
    /\ t.dicts = [s.dicts EXCEPT ![i] = d]
    /\ DictInv(d, Own(i))
    /\ i \notin t.alloc => DictKeys(d) = {}
    /\ \A j \in Index : j # i => (j \in s.alloc <=> j \in t.alloc)

(* What a change of one dict does to the store. *)
LEMMA ChangeDicts ==
    ASSUME NEW s, NEW t, NEW i, NEW d, Changes(s, t, i, d)
    PROVE  /\ t.dicts[i] = d
           /\ \A j \in Index : j # i => t.dicts[j] = s.dicts[j]
           /\ \A j \in Index : DictInv(t.dicts[j], Own(j)) /\ (j \notin t.alloc => DictKeys(t.dicts[j]) = {})
           /\ \A k : k \in AllKeys(t) <=> (k \in AllKeys(s) /\ Slot(k) # i) \/ k \in DictKeys(d)
<1>1. /\ StoreInv(s) /\ t \in KvsSet /\ i \in Index /\ t.dicts = [s.dicts EXCEPT ![i] = d]
      /\ DictInv(d, Own(i)) /\ (i \notin t.alloc => DictKeys(d) = {})
      /\ \A j \in Index : j # i => (j \in s.alloc <=> j \in t.alloc)
  BY Zenon DEF Changes
<1>2. /\ s \in KvsSet /\ \A j \in Index : DictInv(s.dicts[j], Own(j))
      /\ \A j \in Index : j \notin s.alloc => DictKeys(s.dicts[j]) = {}
  BY <1>1, StoreParts
<1>3. DOMAIN s.dicts = Index
  <2>1. s.dicts \in [Index -> DictSet]
    BY <1>2, Zenon DEF KvsSet
  <2> QED
    BY <2>1, Zenon
<1>4. t.dicts[i] = d /\ \A j \in Index : j # i => t.dicts[j] = s.dicts[j]
  BY <1>1, <1>3
<1>5. \A j \in Index : DictInv(t.dicts[j], Own(j)) /\ (j \notin t.alloc => DictKeys(t.dicts[j]) = {})
  BY <1>1, <1>2, <1>4, Zenon
<1>6. ASSUME NEW k PROVE k \in AllKeys(t) <=> (k \in AllKeys(s) /\ Slot(k) # i) \/ k \in DictKeys(d)
  <2>1. k \in AllKeys(t) <=> k \in Key /\ k \in DictKeys(t.dicts[Slot(k)])
    BY <1>5, InKeys
  <2>2. k \in AllKeys(s) <=> k \in Key /\ k \in DictKeys(s.dicts[Slot(k)])
    BY <1>2, InKeys
  <2>3. k \in DictKeys(d) => k \in Key /\ Slot(k) = i
    BY <1>1, OwnKeys
  <2>4. k \in Key => Slot(k) \in Index
    BY StoreConstants
  <2> QED
    BY <1>4, <2>1, <2>2, <2>3, <2>4, Zenon
<1> QED
  BY <1>4, <1>5, <1>6

(* If the dict keeps its keys, so does the store. *)
LEMMA ChangeSame ==
    ASSUME NEW s, NEW t, NEW i, NEW d, Changes(s, t, i, d), DictKeys(d) = DictKeys(s.dicts[i]),
           t.key_count = s.key_count, t.index = s.index
    PROVE  StoreInv(t) /\ AllKeys(t) = AllKeys(s)
<1>1. /\ \A j \in Index : DictInv(t.dicts[j], Own(j)) /\ (j \notin t.alloc => DictKeys(t.dicts[j]) = {})
      /\ \A k : k \in AllKeys(t) <=> (k \in AllKeys(s) /\ Slot(k) # i) \/ k \in DictKeys(d)
  BY ChangeDicts
<1>2. StoreInv(s) /\ t \in KvsSet /\ i \in Index
  BY Zenon DEF Changes
<1>3. /\ \A j \in Index : DictInv(s.dicts[j], Own(j))
      /\ s.key_count = Cardinality(AllKeys(s)) /\ DictsInv(s) /\ TreeInv(s)
  BY <1>2, StoreParts
<1>4. ASSUME NEW k PROVE k \in AllKeys(s) <=> (k \in AllKeys(s) /\ Slot(k) # i) \/ k \in DictKeys(d)
  <2>1. k \in AllKeys(s) <=> k \in Key /\ k \in DictKeys(s.dicts[Slot(k)])
    BY <1>3, InKeys
  <2>2. k \in DictKeys(s.dicts[i]) => k \in Key /\ Slot(k) = i
    BY <1>2, <1>3, OwnKeys
  <2> QED
    BY <2>1, <2>2, Zenon
<1>5. AllKeys(t) = AllKeys(s)
  BY <1>1, <1>4, Zenon
<1>6. TreeInv(t)
  BY <1>3, <1>5, TreeSame
<1> QED
  BY <1>1, <1>2, <1>3, <1>5, <1>6, Zenon DEF StoreInv

(* If it gets a key, key_count has to follow, *)
LEMMA ChangeAdd ==
    ASSUME NEW s, NEW t, NEW d, NEW k \in Key, Changes(s, t, Slot(k), d),
           DictKeys(d) = DictKeys(s.dicts[Slot(k)]) \cup {k}, k \notin DictKeys(s.dicts[Slot(k)]),
           t.key_count = s.key_count + 1, t.index = Bump(s.index, Slot(k), 1)
    PROVE  StoreInv(t) /\ AllKeys(t) = AllKeys(s) \cup {k}
<1> DEFINE i == Slot(k)
<1>1. /\ \A j \in Index : DictInv(t.dicts[j], Own(j)) /\ (j \notin t.alloc => DictKeys(t.dicts[j]) = {})
      /\ \A l : l \in AllKeys(t) <=> (l \in AllKeys(s) /\ Slot(l) # i) \/ l \in DictKeys(d)
  BY ChangeDicts
<1>2. StoreInv(s) /\ t \in KvsSet /\ i \in Index
  BY Zenon DEF Changes
<1>3. /\ \A j \in Index : DictInv(s.dicts[j], Own(j))
      /\ s.key_count = Cardinality(AllKeys(s)) /\ DictsInv(s) /\ TreeInv(s)
  BY <1>2, StoreParts
<1>4. ASSUME NEW l
      PROVE  l \in AllKeys(s) \cup {k} <=> (l \in AllKeys(s) /\ Slot(l) # i) \/ l \in DictKeys(d)
  <2>1. l \in AllKeys(s) <=> l \in Key /\ l \in DictKeys(s.dicts[Slot(l)])
    BY <1>3, InKeys
  <2>2. l \in DictKeys(s.dicts[i]) => l \in Key /\ Slot(l) = i
    BY <1>2, <1>3, OwnKeys
  <2> QED
    BY <2>1, <2>2, Zenon
<1>5. AllKeys(t) = AllKeys(s) \cup {k}
  BY <1>1, <1>4, Zenon
<1>6. k \notin AllKeys(s)
  BY <1>3, InKeys
<1>7. IsFiniteSet(AllKeys(s))
  BY <1>3, FiniteKeys
<1>8. t.key_count = Cardinality(AllKeys(t))
  BY <1>3, <1>5, <1>6, <1>7, FS_AddElement
<1>9. TreeInv(t)
  <2>1. DictsInv(t)
    BY <1>1, Zenon DEF DictsInv
  <2> QED
    BY <1>3, <1>5, <1>6, <2>1, TreeAdd
<1> QED
  BY <1>1, <1>2, <1>5, <1>8, <1>9, Zenon DEF StoreInv

(* and if it loses one. *)
LEMMA ChangeDelete ==
    ASSUME NEW s, NEW t, NEW d, NEW k \in Key, Changes(s, t, Slot(k), d),
           DictKeys(d) = DictKeys(s.dicts[Slot(k)]) \ {k}, k \in DictKeys(s.dicts[Slot(k)]),
           t.key_count = s.key_count - 1, t.index = Bump(s.index, Slot(k), -1)
    PROVE  StoreInv(t) /\ AllKeys(t) = AllKeys(s) \ {k}
<1> DEFINE i == Slot(k)
<1>1. /\ \A j \in Index : DictInv(t.dicts[j], Own(j)) /\ (j \notin t.alloc => DictKeys(t.dicts[j]) = {})
      /\ \A l : l \in AllKeys(t) <=> (l \in AllKeys(s) /\ Slot(l) # i) \/ l \in DictKeys(d)
  BY ChangeDicts
<1>2. StoreInv(s) /\ t \in KvsSet /\ i \in Index
  BY Zenon DEF Changes
<1>3. /\ \A j \in Index : DictInv(s.dicts[j], Own(j))
      /\ s.key_count = Cardinality(AllKeys(s)) /\ DictsInv(s) /\ TreeInv(s)
  BY <1>2, StoreParts
<1>4. ASSUME NEW l
      PROVE  l \in AllKeys(s) \ {k} <=> (l \in AllKeys(s) /\ Slot(l) # i) \/ l \in DictKeys(d)
  <2>1. l \in AllKeys(s) <=> l \in Key /\ l \in DictKeys(s.dicts[Slot(l)])
    BY <1>3, InKeys
  <2>2. l \in DictKeys(s.dicts[i]) => l \in Key /\ Slot(l) = i
    BY <1>2, <1>3, OwnKeys
  <2> QED
    BY <2>1, <2>2, Zenon
<1>5. AllKeys(t) = AllKeys(s) \ {k}
  BY <1>1, <1>4, Zenon
<1>6. k \in AllKeys(s)
  BY <1>3, InKeys
<1>7. IsFiniteSet(AllKeys(s))
  BY <1>3, FiniteKeys
<1>8. t.key_count = Cardinality(AllKeys(t))
  BY <1>3, <1>5, <1>6, <1>7, FS_RemoveElement
<1>9. TreeInv(t)
  <2>1. DictsInv(t)
    BY <1>1, Zenon DEF DictsInv
  <2> QED
    BY <1>3, <1>5, <1>6, <2>1, TreeDelete
<1> QED
  BY <1>1, <1>2, <1>5, <1>8, <1>9, Zenon DEF StoreInv

(* The bounded counters are numbers. *)
LEMMA SaturateType ==
    ASSUME NEW n \in Int
    PROVE  Saturate(n) \in 0..MaxCount
  BY KvstoreAssumption DEF Saturate

(* So are the sizes of the tables. *)
LEMMA BucketsType ==
    ASSUME NEW K, NEW d, DictInv(d, K)
    PROVE  d \in DictSet /\ Buckets(d) \in Int /\ Size(d.exp[0]) \in Int
<1>1. d.exp[0] \in -1..W /\ d.exp[1] \in -1..W
  BY InvParts
<1>2. Size(d.exp[0]) \in Nat /\ Size(d.exp[1]) \in Nat
  BY <1>1, SizeType
<1> QED
  BY <1>2 DEF Buckets, DictInv

(* A dict replaced, and perhaps made. *)
LEMMA SetDictChanges ==
    ASSUME NEW s, StoreInv(s), NEW i \in Index, NEW d, DictInv(d, Own(i)),
           NEW A \in SUBSET Index, \A j \in Index : j # i => (j \in s.alloc <=> j \in A),
           i \notin A => DictKeys(d) = {}
    PROVE  LET t == SetDict([s EXCEPT !.alloc = A], i, d) IN
           Changes(s, t, i, d) /\ t.alloc = A /\ t.key_count = s.key_count /\ t.index = s.index
<1> DEFINE u == [s EXCEPT !.alloc = A]
           b == Saturate(u.bucket_count + Buckets(d) - Buckets(u.dicts[i]))
           t == [u EXCEPT !.dicts[i] = d, !.bucket_count = b]
<1>1. s \in KvsSet /\ \A j \in Index : DictInv(s.dicts[j], Own(j))
  BY StoreParts
<1>2. /\ u \in KvsSet /\ u.dicts = s.dicts /\ u.alloc = A /\ u.key_count = s.key_count
      /\ u.index = s.index /\ u.bucket_count \in Int
  BY <1>1 DEF KvsSet
<1>3. Buckets(d) \in Int /\ Buckets(u.dicts[i]) \in Int /\ d \in DictSet
  <2> HIDE DEF u
  <2> QED
    BY <1>1, <1>2, BucketsType
<1>4. b \in 0..MaxCount
  <2> HIDE DEF u
  <2>1. u.bucket_count + Buckets(d) - Buckets(u.dicts[i]) \in Int
    BY <1>2, <1>3
  <2> QED
    BY <2>1, SaturateType
<1> HIDE DEF u, b
<1>5. /\ t \in KvsSet /\ t.dicts = [s.dicts EXCEPT ![i] = d] /\ t.alloc = A
      /\ t.key_count = s.key_count /\ t.index = s.index
  BY <1>2, <1>3, <1>4 DEF KvsSet
<1>6. SetDict(u, i, d) = t
  BY Zenon DEF SetDict, b
<1> HIDE DEF t
<1>7. Changes(s, t, i, d)
  BY <1>5, Zenon DEF Changes
<1> QED
  BY <1>5, <1>6, <1>7 DEF u

(* Store t has the keys, the dicts and the pauses of s: only tables        *)
(* change.                                                                 *)
Keeps(s, t) ==
    /\ StoreInv(t) /\ AllKeys(t) = AllKeys(s) /\ t.alloc = s.alloc
    /\ \A j \in Index : DictKeys(t.dicts[j]) = DictKeys(s.dicts[j]) /\ t.dicts[j].pause = s.dicts[j].pause

(* A dict replaced. *)
LEMMA SetDictSame ==
    ASSUME NEW s, StoreInv(s), NEW i \in Index, NEW d, DictInv(d, Own(i)), i \notin s.alloc => DictKeys(d) = {}
    PROVE  Changes(s, SetDict(s, i, d), i, d) /\ SetDict(s, i, d).alloc = s.alloc
           /\ SetDict(s, i, d).key_count = s.key_count /\ SetDict(s, i, d).index = s.index
<1>1. s \in KvsSet /\ s.alloc \in SUBSET Index
  BY StoreParts
<1>2. [s EXCEPT !.alloc = s.alloc] = s
  BY <1>1 DEF KvsSet
<1> DEFINE t == SetDict([s EXCEPT !.alloc = s.alloc], i, d)
<1>3. Changes(s, t, i, d) /\ t.alloc = s.alloc /\ t.key_count = s.key_count /\ t.index = s.index
  BY <1>1, SetDictChanges
<1> QED
  BY <1>2, <1>3

(* A dict replaced by one with the same keys. *)
LEMMA SetDictKeeps ==
    ASSUME NEW s, StoreInv(s), NEW i \in Index, NEW d, Same(s.dicts[i], d, Own(i))
    PROVE  /\ Keeps(s, SetDict(s, i, d)) /\ SetDict(s, i, d).dicts[i] = d
           /\ \A j \in Index : j # i => SetDict(s, i, d).dicts[j] = s.dicts[j]
<1> DEFINE t == SetDict(s, i, d)
<1>1. DictInv(d, Own(i)) /\ DictKeys(d) = DictKeys(s.dicts[i]) /\ d.pause = s.dicts[i].pause
  BY Zenon DEF Same
<1>2. i \notin s.alloc => DictKeys(d) = {}
  BY <1>1, StoreParts
<1>3. Changes(s, t, i, d) /\ t.alloc = s.alloc /\ t.key_count = s.key_count /\ t.index = s.index
  BY <1>1, <1>2, SetDictSame
<1> HIDE DEF t
<1>4. StoreInv(t) /\ AllKeys(t) = AllKeys(s)
  BY <1>1, <1>3, ChangeSame
<1>5. t.dicts[i] = d /\ \A j \in Index : j # i => t.dicts[j] = s.dicts[j]
  BY <1>3, ChangeDicts
<1>6. Keeps(s, t)
  BY <1>1, <1>3, <1>4, <1>5, Zenon DEF Keeps
<1> QED
  BY <1>5, <1>6 DEF t

(* cumulativeKeyCountAdd changes the counters alone. *)
LEMMA CountChanges ==
    ASSUME NEW s, NEW t, NEW i, NEW d, Changes(s, t, i, d), NEW delta \in Int
    PROVE  LET u == KeyCountAdd(t, i, delta) IN
           /\ Changes(s, u, i, d) /\ u.alloc = t.alloc
           /\ u.key_count = t.key_count + delta /\ u.index = Bump(t.index, i, delta)
<1> DEFINE n == DictSize(t.dicts[i])
           more == IF n = 1 THEN 1 ELSE IF n = 0 THEN -1 ELSE 0
           m == Saturate(t.non_empty + more)
           x == [j \in 1..NumDicts |-> IF j \in Up[i + 1] THEN t.index[j] + delta ELSE t.index[j]]
           c == t.key_count + delta
           u == [t EXCEPT !.key_count = c, !.non_empty = m, !.index = x]
<1>1. /\ t \in KvsSet /\ i \in Index /\ t.dicts = [s.dicts EXCEPT ![i] = d]
      /\ StoreInv(s) /\ DictInv(d, Own(i)) /\ (i \notin t.alloc => DictKeys(d) = {})
      /\ \A j \in Index : j # i => (j \in s.alloc <=> j \in t.alloc)
  BY Zenon DEF Changes
<1>2. t.non_empty \in Int /\ t.key_count \in Int /\ t.index \in [1..NumDicts -> Int]
  BY <1>1 DEF KvsSet
<1>3. m \in 0..MaxCount
  <2>1. more \in Int
    OBVIOUS
  <2> HIDE DEF more
  <2>2. t.non_empty + more \in Int
    BY <1>2, <2>1
  <2> QED
    BY <2>2, SaturateType
<1>4. x \in [1..NumDicts -> Int]
  <2> DEFINE y(j) == IF j \in Up[i + 1] THEN t.index[j] + delta ELSE t.index[j]
  <2>1. ASSUME NEW j \in 1..NumDicts PROVE y(j) \in Int
    <3>1. t.index[j] \in Int
      BY <1>2
    <3>2. t.index[j] + delta \in Int
      BY <3>1
    <3> QED
      BY <3>1, <3>2, Zenon
  <2> HIDE DEF y
  <2>2. [j \in 1..NumDicts |-> y(j)] \in [1..NumDicts -> Int]
    BY <2>1, Zenon
  <2> QED
    BY <2>2, Zenon DEF y
<1>5. KeyCountAdd(t, i, delta) = u
  BY Zenon DEF KeyCountAdd
<1>c. c \in Int
  BY <1>2
<1>x. x = Bump(t.index, i, delta)
  BY Zenon DEF Bump
<1> HIDE DEF m, x, c
<1>6. u \in KvsSet /\ u.dicts = t.dicts /\ u.alloc = t.alloc /\ u.key_count = c /\ u.index = x
  BY <1>1, <1>3, <1>4, <1>c DEF KvsSet
<1> HIDE DEF u
<1>7. Changes(s, u, i, d)
  BY <1>1, <1>6, Zenon DEF Changes
<1> QED
  BY <1>5, <1>6, <1>7, <1>x DEF c

(* A new dict has no keys. *)
LEMMA CreateInv ==
    ASSUME NEW K
    PROVE  DictInv(DictCreate, K) /\ DictKeys(DictCreate) = {} /\ DictCreate.pause = 0
           /\ DictCreate.rehashidx = -1
<1> DEFINE n == NewTable(-1)
<1>0. -1 \in -1..W
  BY Constants
<1>1. DictCreate = Mk(-1, -1, n, n, -1, 0)
  BY Zenon DEF DictCreate, Mk
<1>2. Table(n, -1) /\ All(n) = {} /\ Size(-1) = 0
  BY <1>0, TableNew, SizeType
<1>3. EmptyBelow(n, -1)
  <2>1. DOMAIN n = 0..(Size(-1) - 1)
    BY <1>0, <1>2, TableKey
  <2>2. DOMAIN n = {}
    BY <1>2, <2>1
  <2> QED
    BY <2>2, Zenon DEF EmptyBelow
<1>4. -1 \in -1..Size(-1)
  BY <1>2
<1>5. All(n) \cup All(n) \subseteq K /\ All(n) \cap All(n) = {}
  BY <1>2
<1>6. Good(-1, -1, n, n, -1, K)
  BY <1>0, <1>2, <1>3, <1>4, <1>5, Zenon DEF Good
<1> HIDE DEF n
<1>7. /\ DictInv(DictCreate, K) /\ DictKeys(DictCreate) = All(n) \cup All(n)
      /\ DictCreate.pause = 0 /\ DictCreate.rehashidx = -1
  BY <1>1, <1>6, InvMk
<1> QED
  BY <1>2, <1>7

(* Store t is s, but for dicts without keys that are not walked and may be *)
(* freed.                                                                  *)
Frees(s, t) ==
    /\ StoreInv(t) /\ AllKeys(t) = AllKeys(s) /\ t.alloc \subseteq s.alloc
    /\ \A j \in Index : /\ t.dicts[j].pause = s.dicts[j].pause
                        /\ s.dicts[j].pause # 0 => t.dicts[j] = s.dicts[j] /\ (j \in s.alloc => j \in t.alloc)
                        /\ DictKeys(s.dicts[j]) # {} => t.dicts[j] = s.dicts[j]

(* freeDictIfNeeded frees no dict that has keys or is walked. *)
LEMMA StoreFree ==
    ASSUME NEW s, StoreInv(s), NEW i \in Index
    PROVE  Frees(s, FreeDictIfNeeded(s, i)) /\ \A j \in Index : j # i => FreeDictIfNeeded(s, i).dicts[j] = s.dicts[j]
<1> DEFINE t == FreeDictIfNeeded(s, i)
           d == s.dicts[i]
           c == FreeEmpty /\ i \in s.alloc /\ DictSize(d) = 0 /\ d.pause = 0
<1>1. s \in KvsSet /\ s.alloc \in SUBSET Index /\ DictInv(d, Own(i))
  BY StoreParts
<1>2. CASE ~c
  <2>1. t = s
    BY <1>2, Zenon DEF FreeDictIfNeeded
  <2>2. Frees(s, s)
    BY Zenon DEF Frees
  <2> QED
    BY <2>1, <2>2
<1>3. CASE c
  <2> DEFINE b == IF IsRehashing(d) THEN Saturate(s.bucket_count - Size(d.exp[0])) ELSE s.bucket_count
             u == [s EXCEPT !.dicts[i] = DictCreate, !.alloc = @ \ {i}, !.bucket_count = b]
  <2>1. t = u
    BY <1>3, Zenon DEF FreeDictIfNeeded
  <2>2. b \in 0..MaxCount
    <3>1. s.bucket_count \in 0..MaxCount /\ s.bucket_count \in Int
      BY <1>1 DEF KvsSet
    <3>2. Size(d.exp[0]) \in Int
      BY <1>1, BucketsType
    <3>3. s.bucket_count - Size(d.exp[0]) \in Int
      BY <3>1, <3>2
    <3> QED
      BY <3>1, <3>3, SaturateType
  <2>3. /\ DictInv(DictCreate, Own(i)) /\ DictKeys(DictCreate) = {} /\ DictCreate.pause = 0
        /\ DictCreate \in DictSet
    BY CreateInv DEF DictInv
  <2>4. Small(Own(i))
    BY StoreConstants
  <2>5. DictKeys(d) = {} /\ d.pause = 0
    <3>1. DictSize(d) = 0 <=> DictKeys(d) = {}
      <4> HIDE DEF d
      <4> QED
        BY <1>1, <2>4, UsedType
    <3> QED
      BY <1>3, <3>1
  <2> HIDE DEF b, t
  <2>6. /\ t \in KvsSet /\ t.dicts = [s.dicts EXCEPT ![i] = DictCreate] /\ t.alloc = s.alloc \ {i}
        /\ t.key_count = s.key_count /\ t.index = s.index
    BY <1>1, <2>1, <2>2, <2>3 DEF KvsSet
  <2>7. Changes(s, t, i, DictCreate)
    BY <2>3, <2>6, Zenon DEF Changes
  <2>8. StoreInv(t) /\ AllKeys(t) = AllKeys(s)
    BY <2>3, <2>5, <2>6, <2>7, ChangeSame
  <2>9. t.dicts[i] = DictCreate /\ \A j \in Index : j # i => t.dicts[j] = s.dicts[j]
    BY <2>7, ChangeDicts
  <2>10. Frees(s, t)
    BY <2>3, <2>5, <2>6, <2>8, <2>9, Zenon DEF Frees
  <2> QED
    BY <2>9, <2>10 DEF t
<1> QED
  BY <1>2, <1>3

-----------------------------------------------------------------------------
(* Commands on keys *)

(* kvstoreDictAddRaw adds the key to the dict of its slot and counts it. *)
LEMMA StoreAdd ==
    ASSUME NEW s, StoreInv(s), NEW k \in Key, NEW fits
    PROVE  LET t == KvsAdd(s, k, fits)
               i == Slot(k)
           IN  /\ StoreInv(t) /\ AllKeys(t) = AllKeys(s) \cup {k} /\ t.alloc = s.alloc \cup {i}
               /\ t.dicts[i] = DictAdd(s.dicts[i], k, policy, fits)
               /\ \A j \in Index : j # i => t.dicts[j] = s.dicts[j]
<1> DEFINE i == Slot(k)
           d == s.dicts[i]
           c == DictAdd(d, k, policy, fits)
           A == s.alloc \cup {i}
           u == SetDict([s EXCEPT !.alloc = A], i, c)
           t == KvsAdd(s, k, fits)
<1>1. i \in Index /\ Small(Own(i)) /\ k \in Own(i)
  BY StoreConstants DEF Own
<1>2. /\ s \in KvsSet /\ s.alloc \in SUBSET Index /\ DictInv(d, Own(i))
      /\ \A j \in Index : DictInv(s.dicts[j], Own(j))
  BY <1>1, StoreParts
<1>3. DictInv(c, Own(i)) /\ DictKeys(c) = DictKeys(d) \cup {k}
  <2> DEFINE K == Own(i)
  <2>1. Small(K) /\ DictInv(d, K) /\ k \in K
    BY <1>1, <1>2
  <2> HIDE DEF i, d, K
  <2>2. Adds(d, k, K, c)
    BY <2>1, AddKey
  <2> QED
    BY <2>2, Zenon DEF K, Adds
<1>4. A \in SUBSET Index /\ i \in A /\ \A j \in Index : j # i => (j \in s.alloc <=> j \in A)
  BY <1>1, <1>2, Zenon
<1>5. [s EXCEPT !.alloc = @ \cup {i}] = [s EXCEPT !.alloc = A]
  BY <1>2 DEF KvsSet
<1>6. t = IF k \in DictKeys(d) THEN u ELSE KeyCountAdd(u, i, 1)
  BY <1>5, Zenon DEF KvsAdd
<1> HIDE DEF d, c, A
<1>7. Changes(s, u, i, c) /\ u.alloc = A /\ u.key_count = s.key_count /\ u.index = s.index
  <2> HIDE DEF i
  <2> QED
    BY <1>1, <1>3, <1>4, SetDictChanges
<1> HIDE DEF u, t
<1>8. CASE k \in DictKeys(d)
  <2>1. t = u /\ DictKeys(c) = DictKeys(d)
    BY <1>3, <1>6, <1>8, Zenon
  <2>2. StoreInv(t) /\ AllKeys(t) = AllKeys(s)
    BY <1>7, <2>1, ChangeSame DEF d
  <2>3. t.dicts[i] = c /\ \A j \in Index : j # i => t.dicts[j] = s.dicts[j]
    BY <1>7, <2>1, ChangeDicts
  <2>4. k \in AllKeys(s)
    BY <1>2, <1>8, InKeys DEF d
  <2>5. AllKeys(t) = AllKeys(s) \cup {k}
    BY <2>2, <2>4
  <2> QED
    BY <1>7, <2>1, <2>2, <2>3, <2>5 DEF t, c, d, A
<1>9. CASE k \notin DictKeys(d)
  <2>1. t = KeyCountAdd(u, i, 1)
    BY <1>6, <1>9, Zenon
  <2>2. /\ Changes(s, t, i, c) /\ t.alloc = u.alloc /\ t.key_count = u.key_count + 1
        /\ t.index = Bump(u.index, i, 1)
    BY <1>7, <2>1, CountChanges
  <2>3. StoreInv(t) /\ AllKeys(t) = AllKeys(s) \cup {k}
    BY <1>3, <1>7, <1>9, <2>2, ChangeAdd DEF d
  <2>4. t.dicts[i] = c /\ \A j \in Index : j # i => t.dicts[j] = s.dicts[j]
    BY <2>2, ChangeDicts
  <2> QED
    BY <1>7, <2>2, <2>3, <2>4 DEF t, c, d, A
<1> QED
  BY <1>8, <1>9

(* Store t is s without key k, but for dicts that are not walked. *)
Drops(s, k, d, t) ==
    /\ StoreInv(t) /\ AllKeys(t) = AllKeys(s) \ {k} /\ t.alloc \subseteq s.alloc
    /\ \A j \in Index : /\ t.dicts[j].pause = s.dicts[j].pause
                        /\ s.dicts[j].pause # 0 /\ j \in s.alloc =>
                               j \in t.alloc /\ t.dicts[j] = IF j = Slot(k) THEN d ELSE s.dicts[j]

(* Deleting a key takes it out, counts it, and frees no dict that is       *)
(* walked.                                                                 *)
LEMMA StoreDelete ==
    ASSUME NEW s, StoreInv(s), NEW k \in Key, NEW d, Deletes(s.dicts[Slot(k)], k, Own(Slot(k)), d)
    PROVE  Drops(s, k, d, KvsDelete(s, k, d))
<1> DEFINE i == Slot(k)
           c == s.dicts[i]
           u == SetDict(s, i, d)
           v == KeyCountAdd(u, i, -1)
           t == KvsDelete(s, k, d)
<1>1. i \in Index /\ Small(Own(i))
  BY StoreConstants
<1>2. /\ s \in KvsSet /\ s.alloc \in SUBSET Index /\ DictInv(c, Own(i)) /\ (i \notin s.alloc => DictKeys(c) = {})
      /\ \A j \in Index : DictInv(s.dicts[j], Own(j))
  BY <1>1, StoreParts
<1>3. DictInv(d, Own(i)) /\ DictKeys(d) = DictKeys(c) \ {k} /\ d.pause = c.pause
  BY Zenon DEF Deletes
<1>4. t = IF i \notin s.alloc THEN s
          ELSE IF DictSize(u.dicts[i]) = DictSize(c) THEN u ELSE FreeDictIfNeeded(v, i)
  BY Zenon DEF KvsDelete
<1>5. k \in AllKeys(s) <=> k \in DictKeys(c)
  BY <1>2, InKeys
<1>6. i \notin s.alloc => DictKeys(d) = {}
  BY <1>2, <1>3, Zenon
<1> HIDE DEF c
<1>7. Changes(s, u, i, d) /\ u.alloc = s.alloc /\ u.key_count = s.key_count /\ u.index = s.index
  <2> HIDE DEF i
  <2> QED
    BY <1>1, <1>3, <1>6, SetDictSame
<1> HIDE DEF t, u
<1>8. u.dicts[i] = d /\ \A j \in Index : j # i => u.dicts[j] = s.dicts[j]
  BY <1>7, ChangeDicts
<1>9. CASE i \notin s.alloc
  <2>1. t = s
    BY <1>4, <1>9, Zenon
  <2>2. AllKeys(s) = AllKeys(s) \ {k}
    BY <1>2, <1>5, <1>9, Zenon
  <2>3. Drops(s, k, d, s)
    BY <1>9, <2>2, Zenon DEF Drops
  <2> QED
    BY <2>1, <2>3 DEF t
<1>10. CASE i \in s.alloc /\ k \notin DictKeys(c)
  <2>1. DictKeys(d) = DictKeys(c)
    BY <1>3, <1>10, Zenon
  <2>2. DictSize(d) = DictSize(c)
    <3> HIDE DEF i
    <3> QED
      BY <1>1, <1>2, <1>3, <2>1, SizeCount
  <2>3. t = u
    BY <1>4, <1>8, <1>10, <2>2, Zenon
  <2>4. StoreInv(u) /\ AllKeys(u) = AllKeys(s)
    BY <1>7, <2>1, ChangeSame DEF c
  <2>5. AllKeys(s) = AllKeys(s) \ {k}
    BY <1>5, <1>10, Zenon
  <2>6. \A j \in Index : u.dicts[j] = IF j = Slot(k) THEN d ELSE s.dicts[j]
    BY <1>8, Zenon
  <2>7. Drops(s, k, d, u)
    BY <1>3, <1>7, <2>4, <2>5, <2>6, Zenon DEF Drops, c
  <2> QED
    BY <2>3, <2>7 DEF t
<1>11. CASE i \in s.alloc /\ k \in DictKeys(c)
  <2>1. DictSize(d) # DictSize(c)
    <3>1. DictSize(d) = Cardinality(DictKeys(d)) /\ DictSize(c) = Cardinality(DictKeys(c)) /\ IsFiniteSet(DictKeys(c))
      <4> HIDE DEF i
      <4> QED
        BY <1>1, <1>2, <1>3, SizeCount
    <3>2. Cardinality(DictKeys(c)) \in Nat /\ Cardinality(DictKeys(d)) = Cardinality(DictKeys(c)) - 1
      BY <1>3, <1>11, <3>1, FS_RemoveElement, FS_CardinalityType
    <3> QED
      BY <3>1, <3>2
  <2>2. t = FreeDictIfNeeded(v, i)
    BY <1>4, <1>8, <1>11, <2>1, Zenon
  <2>3. /\ Changes(s, v, i, d) /\ v.alloc = u.alloc /\ v.key_count = u.key_count + (-1)
        /\ v.index = Bump(u.index, i, -1)
    BY <1>7, CountChanges
  <2> HIDE DEF v
  <2>4. v.key_count = s.key_count - 1 /\ v.index = Bump(s.index, i, -1)
    <3>1. s.key_count \in Int
      BY StoreParts
    <3> QED
      BY <1>7, <2>3, <3>1
  <2>5. StoreInv(v) /\ AllKeys(v) = AllKeys(s) \ {k}
    BY <1>3, <1>11, <2>3, <2>4, ChangeDelete DEF c
  <2>6. v.dicts[i] = d /\ \A j \in Index : j # i => v.dicts[j] = s.dicts[j]
    BY <2>3, ChangeDicts
  <2>7. Frees(v, t)
    <3> HIDE DEF i
    <3> QED
      BY <1>1, <2>2, <2>5, StoreFree
  <2>8. \A j \in Index : v.dicts[j] = (IF j = Slot(k) THEN d ELSE s.dicts[j]) /\ v.dicts[j].pause = s.dicts[j].pause
    BY <1>3, <2>6, Zenon DEF c
  <2>9. Drops(s, k, d, t)
    BY <1>7, <2>3, <2>5, <2>7, <2>8, Zenon DEF Drops, Frees
  <2> QED
    BY <2>9 DEF t
<1> QED
  BY <1>9, <1>10, <1>11

(* Pausing a dict leaves its tables alone. *)
LEMMA StorePause ==
    ASSUME NEW s, StoreInv(s), NEW i \in Index, NEW n \in Int, s.dicts[i].pause + n \in Nat
    PROVE  LET t == Pause(s, i, n) IN
           /\ StoreInv(t) /\ AllKeys(t) = AllKeys(s) /\ t.alloc = s.alloc
           /\ t.dicts[i] = PutPause(s.dicts[i], s.dicts[i].pause + n)
           /\ t.dicts[i].pause = s.dicts[i].pause + n
           /\ DictKeys(t.dicts[i]) = DictKeys(s.dicts[i]) /\ t.dicts[i].ht = s.dicts[i].ht
           /\ \A j \in Index : j # i => t.dicts[j] = s.dicts[j]
<1> DEFINE d == s.dicts[i]
           p == d.pause + n
           c == PutPause(d, p)
           t == Pause(s, i, n)
<1>1. s \in KvsSet /\ DictInv(d, Own(i)) /\ (i \notin s.alloc => DictKeys(d) = {})
  BY StoreParts
<1>2. /\ Good(d.exp[0], d.exp[1], d.ht[0], d.ht[1], d.rehashidx, Own(i))
      /\ d = Mk(d.exp[0], d.exp[1], d.ht[0], d.ht[1], d.rehashidx, d.pause)
      /\ DictKeys(d) = All(d.ht[0]) \cup All(d.ht[1])
  <2> HIDE DEF d
  <2> QED
    BY <1>1, InvParts
<1>3. t = [s EXCEPT !.dicts[i].pause = p]
  BY DEF Pause
<1>4. p \in Nat
  OBVIOUS
<1> HIDE DEF d, p
<1>5. c = Mk(d.exp[0], d.exp[1], d.ht[0], d.ht[1], d.rehashidx, p)
  BY <1>2, MkPut
<1>6. DictInv(c, Own(i)) /\ DictKeys(c) = All(d.ht[0]) \cup All(d.ht[1]) /\ c.pause = p
  BY <1>2, <1>4, <1>5, InvMk
<1>7. c \in DictSet
  BY <1>6, Zenon DEF DictInv
<1>8. /\ t \in KvsSet /\ t.dicts = [s.dicts EXCEPT ![i] = c] /\ t.alloc = s.alloc
      /\ t.key_count = s.key_count /\ t.index = s.index
  <2>1. t = [s EXCEPT !.dicts = [s.dicts EXCEPT ![i] = c]]
    BY <1>1, <1>3 DEF KvsSet, PutPause, d
  <2> HIDE DEF t, c
  <2> QED
    BY <1>1, <1>7, <2>1 DEF KvsSet
<1> HIDE DEF t, c
<1>9. Changes(s, t, i, c)
  BY <1>1, <1>2, <1>6, <1>8, Zenon DEF Changes
<1>10. StoreInv(t) /\ AllKeys(t) = AllKeys(s)
  BY <1>2, <1>6, <1>8, <1>9, ChangeSame DEF d
<1>11. t.dicts[i] = c /\ \A j \in Index : j # i => t.dicts[j] = s.dicts[j]
  BY <1>9, ChangeDicts
<1>12. c.ht = d.ht
  <2>1. c.ht = Pair(d.ht[0], d.ht[1])
    BY <1>5, MkParts
  <2>2. d.ht = Pair(d.ht[0], d.ht[1])
    BY <1>2, MkParts
  <2> QED
    BY <2>1, <2>2
<1> QED
  BY <1>2, <1>6, <1>8, <1>10, <1>11, <1>12 DEF t, c, p, d

-----------------------------------------------------------------------------
(* Scans: the keys a callback deletes *)

(* Of the keys of s, store t has all but some of S. *)
Spares(s, t, S) == AllKeys(s) \ S \subseteq AllKeys(t)

(* Store t has the keys of s but for some of S, and the dicts of s that    *)
(* are walked.                                                             *)
Trims(s, S, t) ==
    /\ StoreInv(t) /\ AllKeys(t) \subseteq AllKeys(s) /\ t.alloc \subseteq s.alloc /\ Spares(s, t, S)
    /\ \A j \in Index : /\ t.dicts[j].pause = s.dicts[j].pause
                        /\ s.dicts[j].pause # 0 /\ j \in s.alloc => j \in t.alloc
Trimmed(s, S) == {t \in KvsSet : Trims(s, S, t)}

(* The callback of a scan, and its calls for the keys of a set. *)
Callback(k, t, fits) == KvsDelete(t, k, TwoPhaseUnlink(t.dicts[Slot(k)], k, policy, fits))
Calls(s, S, fits) ==
    CHOOSE f : f = [r \in SUBSET S |-> IF r = {} THEN s ELSE Callback(One(r), f[r \ {One(r)}], fits)]

(* A call of the callback loses its own key and no other. *)
LEMMA CallbackTrims ==
    ASSUME NEW s, NEW S \in SUBSET Key, NEW k \in S, NEW t \in Trimmed(s, S), NEW fits
    PROVE  Callback(k, t, fits) \in Trimmed(s, S) /\ AllKeys(Callback(k, t, fits)) = AllKeys(t) \ {k}
<1> DEFINE i == Slot(k)
           d == TwoPhaseUnlink(t.dicts[i], k, policy, fits)
           u == Callback(k, t, fits)
<1>0. k \in Key
  OBVIOUS
<1>1. /\ StoreInv(t) /\ AllKeys(t) \subseteq AllKeys(s) /\ t.alloc \subseteq s.alloc /\ Spares(s, t, S)
      /\ \A j \in Index : /\ t.dicts[j].pause = s.dicts[j].pause
                          /\ s.dicts[j].pause # 0 /\ j \in s.alloc => j \in t.alloc
  BY Zenon DEF Trimmed, Trims
<1>2. i \in Index /\ Small(Own(i))
  BY <1>0, StoreConstants
<1>3. DictInv(t.dicts[i], Own(i))
  BY <1>1, <1>2, StoreParts
<1>4. Deletes(t.dicts[i], k, Own(i), d)
  <2> DEFINE c == t.dicts[i]
             K == Own(i)
  <2> HIDE DEF c, K
  <2>1. Deletes(c, k, K, TwoPhaseUnlink(c, k, policy, fits))
    BY <1>0, <1>2, <1>3, DeleteKey DEF c, K
  <2> QED
    BY <2>1 DEF c, K
<1> HIDE DEF d
<1>5. Drops(t, k, d, KvsDelete(t, k, d))
  BY <1>0, <1>1, <1>4, StoreDelete
<1>6. u = KvsDelete(t, k, d)
  BY Zenon DEF Callback, d
<1> HIDE DEF u
<1>7. /\ StoreInv(u) /\ AllKeys(u) = AllKeys(t) \ {k} /\ u.alloc \subseteq t.alloc
      /\ \A j \in Index : /\ u.dicts[j].pause = t.dicts[j].pause
                          /\ t.dicts[j].pause # 0 /\ j \in t.alloc => j \in u.alloc
  BY <1>5, <1>6, Zenon DEF Drops
<1>8. Trims(s, S, u)
  BY <1>1, <1>7, Zenon DEF Trims, Spares
<1>9. u \in KvsSet
  BY <1>7, StoreParts
<1> QED
  BY <1>7, <1>8, <1>9, Zenon DEF Trimmed, u

(* All its calls together. *)
LEMMA CallsTrim ==
    ASSUME NEW s, StoreInv(s), NEW S \in SUBSET Key, NEW fits
    PROVE  Calls(s, S, fits)[S] \in Trimmed(s, S) /\ AllKeys(Calls(s, S, fits)[S]) \cap S = {}
<1> DEFINE X == Trimmed(s, S)
           g == [k \in S |-> [t \in X |-> Callback(k, t, fits)]]
           to(F, r) == IF r = {} THEN s ELSE Callback(One(r), F[r \ {One(r)}], fits)
<1>1. s \in X
  <2>1. s \in KvsSet
    BY StoreParts
  <2> QED
    BY <2>1, Zenon DEF Trimmed, Trims, Spares
<1>2. g \in [S -> [X -> X]]
  <2>1. \A k \in S, t \in X : Callback(k, t, fits) \in X
    BY CallbackTrims, Zenon
  <2> HIDE DEF X
  <2> QED
    BY <2>1, Zenon
<1>3. IsFiniteSet(S)
  BY StoreConstants, FS_Subset
<1>4. PICK F \in [SUBSET S -> X] : Fold(F, s, g, S)
  <2> HIDE DEF X, g
  <2> QED
    BY <1>1, <1>2, <1>3, FoldExists
<1>5. F = [r \in SUBSET S |-> IF r = {} THEN s ELSE g[One(r)][F[r \ {One(r)}]]]
  BY <1>4, Zenon DEF Fold
<1>6. ASSUME NEW r \in SUBSET S PROVE (IF r = {} THEN s ELSE g[One(r)][F[r \ {One(r)}]]) = to(F, r)
  <2>1. CASE r = {}
    BY <2>1, Zenon
  <2>2. CASE r # {}
    <3>1. One(r) \in S /\ r \ {One(r)} \in SUBSET S
      BY <2>2, OneLess
    <3>2. F[r \ {One(r)}] \in X
      <4> HIDE DEF X
      <4> QED
        BY <3>1, Zenon
    <3>3. g[One(r)][F[r \ {One(r)}]] = Callback(One(r), F[r \ {One(r)}], fits)
      <4> HIDE DEF X
      <4> QED
        BY <3>1, <3>2, Zenon
    <3> QED
      BY <2>2, <3>3, Zenon
  <2> QED
    BY <2>1, <2>2
<1>7. F = [r \in SUBSET S |-> to(F, r)]
  <2> HIDE DEF g, X, to
  <2> QED
    BY <1>5, <1>6, Zenon
<1>8. \E it : it = [r \in SUBSET S |-> to(it, r)]
  BY <1>7, Zenon
<1> DEFINE C == Calls(s, S, fits)
<1>9. C = [r \in SUBSET S |-> to(C, r)]
  BY <1>8, Zenon DEF Calls
<1> HIDE DEF C, X
<1> DEFINE T == {n \in Nat : \A r \in SUBSET S : Cardinality(r) = n => C[r] \in X /\ AllKeys(C[r]) \cap r = {}}
<1>10. \A r \in SUBSET S : /\ IsFiniteSet(r) /\ Cardinality(r) \in Nat /\ (Cardinality(r) = 0 <=> r = {})
                           /\ C[r] = to(C, r)
  <2>1. \A r \in SUBSET S : IsFiniteSet(r) /\ Cardinality(r) \in Nat /\ (Cardinality(r) = 0 <=> r = {})
    BY <1>3, FS_Subset, FS_CardinalityType, FS_EmptySet
  <2> HIDE DEF to
  <2>2. \A r \in SUBSET S : C[r] = to(C, r)
    BY <1>9, Zenon
  <2> QED
    BY <2>1, <2>2
<1>11. 0 \in T
  <2>1. ASSUME NEW r \in SUBSET S, Cardinality(r) = 0 PROVE C[r] \in X /\ AllKeys(C[r]) \cap r = {}
    <3>1. r = {} /\ C[r] = to(C, r)
      BY <1>10, <2>1
    <3> QED
      BY <1>1, <3>1, Zenon
  <2> QED
    BY <2>1
<1>12. ASSUME NEW n \in T PROVE n + 1 \in T
  <2>1. ASSUME NEW r \in SUBSET S, Cardinality(r) = n + 1 PROVE C[r] \in X /\ AllKeys(C[r]) \cap r = {}
    <3> DEFINE x == One(r)
               q == r \ {x}
    <3>1. r # {}
      <4>1. n \in Nat
        OBVIOUS
      <4>2. Cardinality(r) # 0
        BY <2>1, <4>1
      <4> QED
        BY <1>10, <4>2
    <3>2. x \in r /\ x \in S /\ q \in SUBSET S /\ r \subseteq q \cup {x}
      BY <3>1, OneLess
    <3>3. Cardinality(q) = n
      <4>0. IsFiniteSet(r)
        BY <1>10
      <4>1. Cardinality(q) = Cardinality(r) - 1
        BY <3>2, <4>0, FS_RemoveElement
      <4> QED
        BY <2>1, <4>1
    <3> HIDE DEF x, q
    <3>4. C[q] \in X /\ AllKeys(C[q]) \cap q = {}
      BY <3>2, <3>3
    <3>5. C[r] = Callback(x, C[q], fits)
      BY <1>10, <3>1, Zenon DEF x, q
    <3>6. C[r] \in X /\ AllKeys(C[r]) = AllKeys(C[q]) \ {x}
      BY <3>2, <3>4, <3>5, CallbackTrims DEF X
    <3> QED
      BY <3>2, <3>4, <3>6, Zenon
  <2> QED
    BY <2>1
<1>13. T = Nat
  <2> HIDE DEF T
  <2>1. T \in SUBSET Nat
    BY DEF T
  <2> QED
    BY <1>11, <1>12, <2>1, SetInduction
<1>14. Cardinality(S) \in T /\ S \in SUBSET S
  BY <1>10, <1>13
<1>15. C[S] \in X /\ AllKeys(C[S]) \cap S = {}
  BY <1>14
<1> QED
  BY <1>15 DEF C, X

(* What kvstoreScan leaves behind: the dict is paused, the callback        *)
(* called, the dict continued, and freed if it is empty.                   *)
LEMMA AfterScanCalls ==
    ASSUME NEW s, NEW v, NEW only, NEW gone, NEW fits
    PROVE  LET i == Position(v, only).didx IN
           AfterScan(s, v, only, gone, fits) =
               IF Past(v, only) \/ i \notin s.alloc THEN s
               ELSE FreeDictIfNeeded(Pause(Calls(Pause(s, i, 1), gone, fits)[gone], i, -1), i)
  BY Zenon DEF AfterScan, FoldSet, MapThenFoldSet, Calls, One, Callback

(* kvstoreScan leaves a store in order. *)
LEMMA StoreScan ==
    ASSUME NEW s, StoreInv(s), \A j \in Index : s.dicts[j].pause = 0,
           NEW v, NEW only, NEW gone \in SUBSET Key, NEW fits
    PROVE  LET t == AfterScan(s, v, only, gone, fits) IN
           /\ Trims(s, gone, t)
           /\ \/ Past(v, only) \/ Position(v, only).didx \notin s.alloc
              \/ AllKeys(t) \cap gone = {}
<1> DEFINE i == Position(v, only).didx
           a == Pause(s, i, 1)
           b == Calls(a, gone, fits)[gone]
           c == Pause(b, i, -1)
           t == FreeDictIfNeeded(c, i)
<1>1. CASE Past(v, only) \/ i \notin s.alloc
  <2>1. AfterScan(s, v, only, gone, fits) = s
    BY <1>1, AfterScanCalls, Zenon
  <2>2. Trims(s, gone, s)
    BY Zenon DEF Trims, Spares
  <2> QED
    BY <1>1, <2>1, <2>2, Zenon
<1>2. CASE ~(Past(v, only) \/ i \notin s.alloc)
  <2>1. AfterScan(s, v, only, gone, fits) = t
    BY <1>2, AfterScanCalls, Zenon
  <2>2. i \in s.alloc /\ i \in Index /\ s.dicts[i].pause = 0
    BY <1>2, StoreParts
  <2> HIDE DEF i
  <2>3. /\ StoreInv(a) /\ AllKeys(a) = AllKeys(s) /\ a.alloc = s.alloc
        /\ a.dicts[i].pause = 1
        /\ \A j \in Index : j # i => a.dicts[j] = s.dicts[j]
    BY <2>2, StorePause
  <2> HIDE DEF a
  <2>4. b \in Trimmed(a, gone) /\ AllKeys(b) \cap gone = {}
    BY <2>3, CallsTrim
  <2> HIDE DEF b
  <2>5. /\ StoreInv(b) /\ AllKeys(b) \subseteq AllKeys(a) /\ b.alloc \subseteq a.alloc
        /\ Spares(a, b, gone)
        /\ \A j \in Index : b.dicts[j].pause = a.dicts[j].pause
    BY <2>4, Zenon DEF Trimmed, Trims
  <2>6. b.dicts[i].pause = 1 /\ \A j \in Index : j # i => b.dicts[j].pause = s.dicts[j].pause
    BY <2>2, <2>3, <2>5, Zenon
  <2>7. b.dicts[i].pause + (-1) = 0
    BY <2>6
  <2>8. /\ StoreInv(c) /\ AllKeys(c) = AllKeys(b) /\ c.alloc = b.alloc
        /\ c.dicts[i].pause = 0
        /\ \A j \in Index : j # i => c.dicts[j] = b.dicts[j]
    BY <2>2, <2>5, <2>7, StorePause
  <2> HIDE DEF c
  <2>9. Frees(c, t)
    BY <2>2, <2>8, StoreFree
  <2> HIDE DEF t
  <2>10. /\ StoreInv(t) /\ AllKeys(t) = AllKeys(c) /\ t.alloc \subseteq c.alloc
         /\ \A j \in Index : t.dicts[j].pause = c.dicts[j].pause
    BY <2>9, Zenon DEF Frees
  <2>11. \A j \in Index : t.dicts[j].pause = s.dicts[j].pause
    BY <2>2, <2>6, <2>8, <2>10, Zenon
  <2>12. AllKeys(t) \subseteq AllKeys(s) /\ t.alloc \subseteq s.alloc
    BY <2>3, <2>5, <2>8, <2>10, Zenon
  <2>13. Spares(s, t, gone)
    BY <2>3, <2>5, <2>8, <2>10, Zenon DEF Spares
  <2>14. Trims(s, gone, t)
    BY <2>10, <2>11, <2>12, <2>13, Zenon DEF Trims
  <2>15. AllKeys(t) \cap gone = {}
    BY <2>4, <2>8, <2>10, Zenon
  <2> QED
    BY <2>1, <2>14, <2>15, Zenon
<1> QED
  BY <1>1, <1>2

(* One dict more is resized or rehashed. *)
LEMMA KeepsSet ==
    ASSUME NEW s, NEW t, Keeps(s, t), NEW i \in Index, NEW d, Same(s.dicts[i], d, Own(i))
    PROVE  Keeps(s, SetDict(t, i, d))
<1>1. StoreInv(t) /\ Same(t.dicts[i], d, Own(i))
  BY Zenon DEF Keeps, Same
<1>2. Keeps(t, SetDict(t, i, d))
  BY <1>1, SetDictKeeps
<1> QED
  BY <1>2, Zenon DEF Keeps

(* The stores with the keys of s. *)
Kept(s) == {t \in KvsSet : Keeps(s, t)}

(* A store has its own keys, *)
LEMMA KeptSelf ==
    ASSUME NEW s, StoreInv(s)
    PROVE  s \in Kept(s)
<1>1. s \in KvsSet
  BY StoreParts
<1> QED
  BY <1>1, Zenon DEF Kept, Keeps

(* and keeps them with one dict replaced. *)
LEMMA KeptSet ==
    ASSUME NEW s, NEW t \in Kept(s), NEW i \in Index, NEW d, Same(s.dicts[i], d, Own(i))
    PROVE  SetDict(t, i, d) \in Kept(s)
<1>1. Keeps(s, t)
  BY Zenon DEF Kept
<1>2. Keeps(s, SetDict(t, i, d))
  BY <1>1, KeepsSet
<1>3. SetDict(t, i, d) \in KvsSet
  BY <1>2, Zenon DEF Keeps, StoreInv
<1> QED
  BY <1>2, <1>3, Zenon DEF Kept

(* One turn of the loop of kvstoreExpand, and the loop. *)
ExpandOne(s, n, j, t) ==
    IF j - 1 \notin s.alloc \cap Served THEN t ELSE SetDict(t, j - 1, DictExpand(s.dicts[j - 1], n))
ExpandAll(s, n) ==
    CHOOSE after : after = [j \in 0..NumDicts |-> IF j = 0 THEN s ELSE ExpandOne(s, n, j, after[j - 1])]

(* One turn of kvstoreExpand, *)
LEMMA ExpandOneKeeps ==
    ASSUME NEW s, StoreInv(s), NEW n \in ExpandTo, NEW j \in 1..NumDicts, NEW t \in Kept(s)
    PROVE  ExpandOne(s, n, j, t) \in Kept(s)
<1> DEFINE i == j - 1
           d == DictExpand(s.dicts[i], n)
<1>1. i \in Index
  BY StoreConstants DEF Index
<1>2. n \in Nat /\ n <= Pow(W)
  <2>1. ExpandTo \subseteq 1..2^W
    BY KvstoreAssumption
  <2>2. ExpandTo \subseteq 1..Pow(W)
    BY <2>1 DEF Pow
  <2>3. Pow(W) \in Nat
    BY Constants, PowPositive
  <2> QED
    BY <2>2, <2>3
<1> HIDE DEF i
<1>3. Small(Own(i)) /\ DictInv(s.dicts[i], Own(i))
  BY <1>1, StoreConstants, StoreParts
<1>4. Same(s.dicts[i], d, Own(i))
  <2> DEFINE c == s.dicts[i]
             K == Own(i)
  <2> HIDE DEF c, K
  <2>1. Resizes(c, DictExpand(c, n), K)
    BY <1>2, <1>3, ExpandSame DEF c, K
  <2> QED
    BY <2>1, Zenon DEF c, K, Resizes
<1> HIDE DEF d
<1>5. SetDict(t, i, d) \in Kept(s)
  BY <1>1, <1>4, KeptSet
<1> QED
  BY <1>5, Zenon DEF ExpandOne, i, d

(* and all. *)
LEMMA ExpandAllKeeps ==
    ASSUME NEW s, StoreInv(s), NEW n \in ExpandTo
    PROVE  Keeps(s, ExpandAll(s, n)[NumDicts])
<1> DEFINE X == Kept(s)
           m == NumDicts
           g == [j \in 1..m |-> [t \in X |-> ExpandOne(s, n, j, t)]]
           to(f, j) == IF j = 0 THEN s ELSE ExpandOne(s, n, j, f[j - 1])
<1>0. m \in Nat /\ m \in 0..m
  BY StoreConstants
<1>1. s \in X
  BY KeptSelf
<1>2. \A j \in 1..m, t \in X : ExpandOne(s, n, j, t) \in X
  BY ExpandOneKeeps, Zenon
<1> HIDE DEF X, m
<1>3. g \in [1..m -> [X -> X]]
  BY <1>2, Zenon
<1>4. PICK f \in [0..m -> X] : Trail(f, s, g, m)
  <2> HIDE DEF g
  <2> QED
    BY <1>0, <1>1, <1>3, TrailExists
<1>5. ASSUME NEW j \in 0..m PROVE (IF j = 0 THEN s ELSE g[j][f[j - 1]]) = to(f, j)
  <2>1. CASE j = 0
    BY <2>1, Zenon
  <2>2. CASE j # 0
    <3>1. j \in 1..m /\ j - 1 \in 0..m
      BY <1>0, <2>2
    <3>2. f[j - 1] \in X
      BY <3>1
    <3>3. g[j][f[j - 1]] = ExpandOne(s, n, j, f[j - 1])
      BY <3>1, <3>2, Zenon
    <3> QED
      BY <2>2, <3>3, Zenon
  <2> QED
    BY <2>1, <2>2
<1>6. f = [j \in 0..m |-> to(f, j)]
  <2>1. f = [j \in 0..m |-> IF j = 0 THEN s ELSE g[j][f[j - 1]]]
    BY <1>4, Zenon DEF Trail
  <2> HIDE DEF g, to
  <2> QED
    BY <1>5, <2>1, Zenon
<1>7. \E after : after = [j \in 0..m |-> to(after, j)]
  BY <1>6, Zenon
<1> DEFINE C == ExpandAll(s, n)
<1>8. C = [j \in 0..m |-> to(C, j)]
  BY <1>7, Zenon DEF ExpandAll, m
<1> HIDE DEF C
<1>9. C[0] \in X
  <2>1. 0 \in 0..m
    BY <1>0
  <2> QED
    BY <1>1, <1>8, <2>1
<1>10. ASSUME NEW j \in 1..m, C[j - 1] \in X PROVE C[j] \in X
  <2>1. j \in 0..m /\ j # 0
    BY <1>0
  <2>2. C[j] = ExpandOne(s, n, j, C[j - 1])
    BY <1>8, <2>1, Zenon
  <2> QED
    BY <1>2, <1>10, <2>2, Zenon
<1>11. \A j \in 0..m : C[j] \in X
  BY <1>0, <1>9, <1>10, StaysIn
<1>12. C[m] \in X
  BY <1>0, <1>11
<1> QED
  BY <1>12, Zenon DEF X, C, m, Kept

-----------------------------------------------------------------------------
(* The cron job *)

(* One turn of the loop of kvstoreTryResizeDicts, and the loop. *)
ResizeAt(s, j) == (s.resize_cursor + j - 1) % NumDicts
ResizeOne(s, fits, j, t) ==
    IF ResizeAt(s, j) \notin s.alloc THEN t
    ELSE SetDict(t, ResizeAt(s, j), TryResize(s.dicts[ResizeAt(s, j)], policy, fits))
ResizeAll(s, fits) ==
    CHOOSE after : after = [j \in 0..CronDicts |-> IF j = 0 THEN s ELSE ResizeOne(s, fits, j, after[j - 1])]

(* resize_cursor goes round. *)
LEMMA CursorType ==
    /\ CronDicts \in Nat
    /\ \A a \in Nat : a % NumDicts \in Index
<1>1. CronDicts \in 1..NumDicts
  BY KvstoreAssumption
<1>2. NumDicts \in Nat /\ NumDicts >= 1
  BY StoreConstants
<1>3. ASSUME NEW a \in Nat PROVE a % NumDicts \in Index
  <2>1. a % NumDicts \in 0..(NumDicts - 1)
    BY <1>2, DivMod
  <2> QED
    BY <2>1 DEF Index
<1> QED
  BY <1>1, <1>2, <1>3

(* One turn of kvstoreTryResizeDicts, *)
LEMMA ResizeOneKeeps ==
    ASSUME NEW s, StoreInv(s), NEW fits, NEW j \in 1..CronDicts, NEW t \in Kept(s)
    PROVE  ResizeOne(s, fits, j, t) \in Kept(s)
<1> DEFINE i == ResizeAt(s, j)
           d == TryResize(s.dicts[i], policy, fits)
<1>1. i \in Index
  <2>1. s.resize_cursor \in Index
    <3>1. s \in KvsSet
      BY StoreParts
    <3> QED
      BY <3>1 DEF KvsSet
  <2>2. s.resize_cursor \in Nat
    BY <2>1, StoreConstants
  <2>3. s.resize_cursor + j - 1 \in Nat
    BY <2>2, CursorType
  <2> QED
    BY <2>3, CursorType DEF ResizeAt
<1> HIDE DEF i
<1>3. Small(Own(i)) /\ DictInv(s.dicts[i], Own(i))
  BY <1>1, StoreConstants, StoreParts
<1>4. Same(s.dicts[i], d, Own(i))
  <2> DEFINE c == s.dicts[i]
             K == Own(i)
  <2> HIDE DEF c, K
  <2>1. Resizes(c, TryResize(c, policy, fits), K)
    BY <1>3, ResizeIfNeeded DEF c, K
  <2> QED
    BY <2>1, Zenon DEF c, K, Resizes
<1> HIDE DEF d
<1>5. SetDict(t, i, d) \in Kept(s)
  BY <1>1, <1>4, KeptSet
<1> QED
  BY <1>5, Zenon DEF ResizeOne, i, d

(* all turns, *)
LEMMA ResizeAllKeeps ==
    ASSUME NEW s, StoreInv(s), NEW fits
    PROVE  Keeps(s, ResizeAll(s, fits)[CronDicts])
<1> DEFINE X == Kept(s)
           m == CronDicts
           g == [j \in 1..m |-> [t \in X |-> ResizeOne(s, fits, j, t)]]
           to(f, j) == IF j = 0 THEN s ELSE ResizeOne(s, fits, j, f[j - 1])
<1>0. m \in Nat /\ m \in 0..m
  <2>1. CronDicts \in Nat
    BY CursorType
  <2> QED
    BY <2>1
<1>1. s \in X
  BY KeptSelf
<1>2. \A j \in 1..m, t \in X : ResizeOne(s, fits, j, t) \in X
  BY ResizeOneKeeps, Zenon
<1> HIDE DEF X, m
<1>3. g \in [1..m -> [X -> X]]
  BY <1>2, Zenon
<1>4. PICK f \in [0..m -> X] : Trail(f, s, g, m)
  <2> HIDE DEF g
  <2> QED
    BY <1>0, <1>1, <1>3, TrailExists
<1>5. ASSUME NEW j \in 0..m PROVE (IF j = 0 THEN s ELSE g[j][f[j - 1]]) = to(f, j)
  <2>1. CASE j = 0
    BY <2>1, Zenon
  <2>2. CASE j # 0
    <3>1. j \in 1..m /\ j - 1 \in 0..m
      BY <1>0, <2>2
    <3>2. f[j - 1] \in X
      BY <3>1
    <3>3. g[j][f[j - 1]] = ResizeOne(s, fits, j, f[j - 1])
      BY <3>1, <3>2, Zenon
    <3> QED
      BY <2>2, <3>3, Zenon
  <2> QED
    BY <2>1, <2>2
<1>6. f = [j \in 0..m |-> to(f, j)]
  <2>1. f = [j \in 0..m |-> IF j = 0 THEN s ELSE g[j][f[j - 1]]]
    BY <1>4, Zenon DEF Trail
  <2> HIDE DEF g, to
  <2> QED
    BY <1>5, <2>1, Zenon
<1>7. \E after : after = [j \in 0..m |-> to(after, j)]
  BY <1>6, Zenon
<1> DEFINE C == ResizeAll(s, fits)
<1>8. C = [j \in 0..m |-> to(C, j)]
  BY <1>7, Zenon DEF ResizeAll, m
<1> HIDE DEF C
<1>9. C[0] \in X
  <2>1. 0 \in 0..m
    BY <1>0
  <2> QED
    BY <1>1, <1>8, <2>1
<1>10. ASSUME NEW j \in 1..m, C[j - 1] \in X PROVE C[j] \in X
  <2>1. j \in 0..m /\ j # 0
    BY <1>0
  <2>2. C[j] = ResizeOne(s, fits, j, C[j - 1])
    BY <1>8, <2>1, Zenon
  <2> QED
    BY <1>2, <1>10, <2>2, Zenon
<1>11. \A j \in 0..m : C[j] \in X
  BY <1>0, <1>9, <1>10, StaysIn
<1>12. C[m] \in X
  BY <1>0, <1>11
<1> QED
  BY <1>12, Zenon DEF X, C, m, Kept

(* and the cursor set. *)
LEMMA ResizedKeeps ==
    ASSUME NEW s, StoreInv(s), NEW fits
    PROVE  Keeps(s, Resized(s, fits))
<1> DEFINE t == ResizeAll(s, fits)[CronDicts]
           r == (s.resize_cursor + CronDicts) % NumDicts
           u == [t EXCEPT !.resize_cursor = r]
<1>1. Keeps(s, t)
  BY ResizeAllKeeps
<1>2. Resized(s, fits) = u
  BY Zenon DEF Resized, ResizeAll, ResizeOne, ResizeAt
<1>3. r \in Index
  <2>1. s.resize_cursor \in Index
    <3>1. s \in KvsSet
      BY StoreParts
    <3> QED
      BY <3>1 DEF KvsSet
  <2>2. s.resize_cursor \in Nat
    BY <2>1, StoreConstants
  <2>3. s.resize_cursor + CronDicts \in Nat
    BY <2>2, CursorType
  <2> QED
    BY <2>3, CursorType
<1> HIDE DEF t, r
<1>4. StoreInv(t)
  BY <1>1, Zenon DEF Keeps
<1>5. t \in KvsSet
  BY <1>4, StoreParts
<1>6. /\ u \in KvsSet /\ u.dicts = t.dicts /\ u.alloc = t.alloc
      /\ u.key_count = t.key_count /\ u.index = t.index
  BY <1>3, <1>5 DEF KvsSet
<1> HIDE DEF u
<1>7. AllKeys(u) = AllKeys(t)
  BY <1>6, Zenon DEF AllKeys
<1>8. StoreInv(u)
  <2>1. TreeInv(u)
    BY <1>4, <1>6, <1>7, StoreParts, TreeSame
  <2> QED
    BY <1>4, <1>6, <1>7, <2>1, Zenon DEF StoreInv
<1>9. Keeps(s, u)
  BY <1>1, <1>6, <1>7, <1>8, Zenon DEF Keeps
<1> QED
  BY <1>2, <1>9

(* kvstoreIncrementallyRehash loses no key. *)
LEMMA RehashedKeeps ==
    ASSUME NEW s, NEW t, Keeps(s, t), NEW i \in Index
    PROVE  Keeps(s, Rehashed(t, i))
<1> DEFINE d == t.dicts[i]
           K == Own(i)
<1>1. StoreInv(t)
  BY Zenon DEF Keeps
<1>2. DictInv(d, K) /\ Small(K)
  BY <1>1, StoreParts, StoreConstants
<1>3. Batch \in Nat
  BY KvstoreAssumption
<1> HIDE DEF d, K
<1>4. Moves(d, DictRehash(d, Batch, policy), K)
  BY <1>2, <1>3, RehashSame
<1>5. Same(d, DictRehash(d, Batch, policy), K)
  BY <1>4, Zenon DEF Moves
<1>6. Same(s.dicts[i], DictRehash(d, Batch, policy), Own(i))
  BY <1>5, Zenon DEF Keeps, Same, d, K
<1>7. Keeps(s, SetDict(t, i, DictRehash(d, Batch, policy)))
  BY <1>6, KeepsSet
<1> QED
  BY <1>7, Zenon DEF Rehashed, d

-----------------------------------------------------------------------------
(* Walking a dict: the buckets ahead *)

(* A key of a dict is in a bucket, *)
LEMMA InDict ==
    ASSUME NEW K, NEW d, DictInv(d, K), NEW k
    PROVE  k \in DictKeys(d) <=> \E t \in 0..1 : \E j \in Nat : In(d, t, j, k)
<1>1. /\ d.exp[0] \in -1..W /\ d.exp[1] \in -1..W
      /\ Good(d.exp[0], d.exp[1], d.ht[0], d.ht[1], d.rehashidx, K)
      /\ DictKeys(d) = All(d.ht[0]) \cup All(d.ht[1])
  BY InvParts
<1>2. Table(d.ht[0], d.exp[0]) /\ Table(d.ht[1], d.exp[1])
  BY <1>1, Zenon DEF Good
<1>3. DOMAIN d.ht[0] \subseteq Nat /\ DOMAIN d.ht[1] \subseteq Nat
  <2>1. DOMAIN d.ht[0] = 0..(Size(d.exp[0]) - 1) /\ DOMAIN d.ht[1] = 0..(Size(d.exp[1]) - 1)
    BY <1>1, <1>2, TableKey
  <2> QED
    BY <2>1
<1>4. k \in All(d.ht[0]) <=> \E j \in Nat : In(d, 0, j, k)
  BY <1>3, Zenon DEF All, In
<1>5. k \in All(d.ht[1]) <=> \E j \in Nat : In(d, 1, j, k)
  BY <1>3, Zenon DEF All, In
<1>6. 0 \in 0..1 /\ 1 \in 0..1 /\ \A t \in 0..1 : t = 0 \/ t = 1
  OBVIOUS
<1> QED
  BY <1>1, <1>4, <1>5, <1>6, Zenon

(* and in no other. *)
LEMMA InOnce ==
    ASSUME NEW K, NEW d, DictInv(d, K), NEW t \in 0..1, NEW u \in 0..1, NEW j, NEW l, NEW k,
           In(d, t, j, k), In(d, u, l, k)
    PROVE  t = u /\ j = l
<1>1. Good(d.exp[0], d.exp[1], d.ht[0], d.ht[1], d.rehashidx, K)
  BY InvParts
<1>2. /\ Placed(d.ht[0], d.exp[0]) /\ Placed(d.ht[1], d.exp[1])
      /\ All(d.ht[0]) \cap All(d.ht[1]) = {}
  BY <1>1, Zenon DEF Good, Table
<1>3. \A v \in 0..1 : v = 0 \/ v = 1
  OBVIOUS
<1>4. t = u
  <2>1. ~(In(d, 0, j, k) /\ In(d, 1, l, k)) /\ ~(In(d, 1, j, k) /\ In(d, 0, l, k))
    BY <1>2, Zenon DEF In, All
  <2> QED
    BY <1>3, <2>1
<1>5. j = l
  BY <1>2, <1>3, <1>4, Zenon DEF In, Placed
<1> QED
  BY <1>4, <1>5

(* The buckets dictNext may come to; table 1 has some only while the dict  *)
(* is rehashing.                                                           *)
LEMMA InRange ==
    ASSUME NEW K, NEW d, DictInv(d, K), NEW t \in 0..1, NEW j \in DOMAIN d.ht[t]
    PROVE  j \in 0..(2^W - 1) /\ j \in Nat /\ (t = 1 => IsRehashing(d))
<1>1. /\ d.exp[0] \in -1..W /\ d.exp[1] \in -1..W
      /\ Good(d.exp[0], d.exp[1], d.ht[0], d.ht[1], d.rehashidx, K)
  BY InvParts
<1>2. Table(d.ht[0], d.exp[0]) /\ Table(d.ht[1], d.exp[1]) /\ (d.rehashidx = -1 => d.exp[1] = -1)
  BY <1>1, Zenon DEF Good
<1>3. t = 0 \/ t = 1
  OBVIOUS
<1>4. d.exp[t] \in -1..W /\ Table(d.ht[t], d.exp[t])
  BY <1>1, <1>2, <1>3
<1> DEFINE e == d.exp[t]
<1> HIDE DEF e
<1>5. DOMAIN d.ht[t] = 0..(Size(e) - 1) /\ Size(e) \in Nat
  BY <1>4, TableKey, SizeType DEF e
<1>6. e # -1 /\ Size(e) = Pow(e) /\ e \in Nat
  BY <1>4, <1>5, SizeType DEF e
<1>7. Pow(e) <= Pow(W) /\ W \in Nat /\ Pow(W) \in Nat
  <2>1. e <= W /\ W \in Nat
    BY <1>4, <1>6, Constants DEF e
  <2> QED
    BY <1>6, <2>1, PowMonotone, PowPositive
<1>8. j \in 0..(Pow(W) - 1) /\ j \in Nat
  BY <1>5, <1>6, <1>7
<1>9. t = 1 => IsRehashing(d)
  BY <1>2, <1>6, Zenon DEF e, IsRehashing
<1> QED
  BY <1>8, <1>9 DEF Pow

(* Bucket j of table t is still to be visited. *)
Later(it, t, j) == t > it.table \/ (t = it.table /\ j > it.index)

(* The buckets ahead are the later ones that have keys. *)
LEMMA AheadLater ==
    ASSUME NEW K, NEW d, DictInv(d, K), NEW it, it.table \in 0..1
    PROVE  /\ \A b \in Ahead(d, it) :
                  /\ b[1] \in 0..1 /\ b[2] \in Nat /\ Later(it, b[1], b[2]) /\ b = <<b[1], b[2]>>
                  /\ \A k \in d.ht[b[1]][b[2]] : In(d, b[1], b[2], k)
           /\ \A t \in 0..1, j \in Nat : \A k : In(d, t, j, k) /\ Later(it, t, j) => <<t, j>> \in Ahead(d, it)
<1> DEFINE P == {<<t, i>> : t \in 0..1, i \in 0..(2^W - 1)}
<1>1. \A b : b \in Ahead(d, it) <=>
          /\ b \in P /\ b[2] \in DOMAIN d.ht[b[1]] /\ d.ht[b[1]][b[2]] # {}
          /\ \/ b[1] = it.table /\ b[2] > it.index
             \/ b[1] > it.table /\ IsRehashing(d)
  <2>1. Ahead(d, it) = {b \in P : /\ b[2] \in DOMAIN d.ht[b[1]]
                                  /\ d.ht[b[1]][b[2]] # {}
                                  /\ \/ b[1] = it.table /\ b[2] > it.index
                                     \/ b[1] > it.table /\ IsRehashing(d)}
    BY DEF Ahead
  <2> HIDE DEF P
  <2> QED
    BY <2>1
<1>2. ASSUME NEW b \in P PROVE b[1] \in 0..1 /\ b[2] \in 0..(2^W - 1) /\ b = <<b[1], b[2]>>
  BY <1>2
<1>3. ASSUME NEW b \in Ahead(d, it)
      PROVE  /\ b[1] \in 0..1 /\ b[2] \in Nat /\ Later(it, b[1], b[2]) /\ b = <<b[1], b[2]>>
             /\ \A k \in d.ht[b[1]][b[2]] : In(d, b[1], b[2], k)
  <2>1. /\ b \in P /\ b[2] \in DOMAIN d.ht[b[1]]
        /\ \/ b[1] = it.table /\ b[2] > it.index
           \/ b[1] > it.table
    <3> HIDE DEF P
    <3> QED
      BY <1>1
  <2>2. b[1] \in 0..1 /\ b = <<b[1], b[2]>>
    BY <1>2, <2>1
  <2>3. b[2] \in Nat
    BY <2>1, <2>2, InRange
  <2>4. Later(it, b[1], b[2])
    BY <2>1 DEF Later
  <2>5. \A k \in d.ht[b[1]][b[2]] : In(d, b[1], b[2], k)
    BY <2>1 DEF In
  <2> QED
    BY <2>2, <2>3, <2>4, <2>5, Zenon
<1>4. ASSUME NEW t \in 0..1, NEW j \in Nat, NEW k, In(d, t, j, k), Later(it, t, j)
      PROVE  <<t, j>> \in Ahead(d, it)
  <2>1. j \in DOMAIN d.ht[t] /\ d.ht[t][j] # {}
    BY <1>4, Zenon DEF In
  <2>2. j \in 0..(2^W - 1) /\ (t = 1 => IsRehashing(d))
    BY <2>1, InRange
  <2>3. <<t, j>> \in P
    BY <2>2
  <2>4. <<t, j>>[1] = t /\ <<t, j>>[2] = j
    OBVIOUS
  <2> HIDE DEF P
  <2>5. CASE t = it.table /\ j > it.index
    BY <1>1, <2>1, <2>3, <2>4, <2>5
  <2>6. CASE t > it.table
    <3>1. IsRehashing(d)
      <4>1. t = 0 \/ t = 1
        OBVIOUS
      <4> QED
        BY <2>2, <2>6, <4>1
    <3> QED
      BY <1>1, <2>1, <2>3, <2>4, <2>6, <3>1
  <2> QED
    BY <1>4, <2>5, <2>6 DEF Later
<1> QED
  BY <1>3, <1>4

(* There is a first bucket. *)
LEMMA FirstLeast ==
    ASSUME NEW bs, bs # {}, \A b \in bs : b[1] \in Nat /\ b[2] \in Nat
    PROVE  /\ First(bs) \in bs
           /\ \A a \in bs : First(bs)[1] < a[1] \/ (First(bs)[1] = a[1] /\ First(bs)[2] <= a[2])
<1> DEFINE T == {b[1] : b \in bs}
<1>1. T \in SUBSET Nat /\ T # {}
  OBVIOUS
<1>2. PICK m \in T : \A y \in T : m <= y
  <2> HIDE DEF T
  <2> QED
    BY <1>1, NatMin
<1> DEFINE U == {b[2] : b \in {a \in bs : a[1] = m}}
<1>3. U \in SUBSET Nat /\ U # {}
  OBVIOUS
<1>4. PICK n \in U : \A y \in U : n <= y
  <2> HIDE DEF U
  <2> QED
    BY <1>3, NatMin
<1>5. PICK b \in bs : b[1] = m /\ b[2] = n
  BY <1>4
<1>6. ASSUME NEW a \in bs PROVE b[1] < a[1] \/ (b[1] = a[1] /\ b[2] <= a[2])
  <2>1. a[1] \in Nat /\ a[2] \in Nat /\ m \in Nat /\ m <= a[1]
    BY <1>2
  <2>2. a[1] = m => n <= a[2]
    BY <1>4
  <2> QED
    BY <1>5, <2>1, <2>2
<1> QED
  BY <1>5, <1>6, Zenon DEF First

(* A key is coming if its bucket is ahead. *)
LEMMA ComingLater ==
    ASSUME NEW d, NEW it, NEW k
    PROVE  Coming(d, it, k) <=> \E t \in 0..1 : \E j \in Nat : In(d, t, j, k) /\ Later(it, t, j)
  BY Zenon DEF Coming, Later

(* Keys that stay where they are are coming as before. *)
LEMMA StaysComing ==
    ASSUME NEW d, NEW c, NEW S, Stays(d, c, S), NEW it, NEW k, k \notin S
    PROVE  /\ Coming(d, it, k) <=> Coming(c, it, k)
           /\ \A t \in 0..1 : \A j : In(d, t, j, k) <=> In(c, t, j, k)
  BY Zenon DEF Stays, Coming

(* A key that is coming is in the dict. *)
LEMMA ComingKey ==
    ASSUME NEW K, NEW d, DictInv(d, K), NEW it, NEW k, Coming(d, it, k)
    PROVE  k \in DictKeys(d)
  BY InDict, Zenon DEF Coming

(* A key added to the dict that is walked disturbs no other, *)
LEMMA WalkAdd ==
    ASSUME NEW K, NEW d, NEW c, NEW k, NEW it \in IterSet, DictInv(d, K), Adds(d, k, K, c),
           WalkInv(d, it), ~Fresh(it) => d.pause # 0
    PROVE  WalkInv(c, it)
<1>1. DictKeys(c) = DictKeys(d) \cup {k} /\ (d.pause # 0 => Stays(d, c, {k} \ DictKeys(d)))
  BY Zenon DEF Adds
<1>2. CASE Fresh(it)
  BY <1>1, <1>2, Zenon DEF WalkInv
<1>3. CASE ~Fresh(it)
  <2> DEFINE S == {k} \ DictKeys(d)
  <2>1. /\ it.index \in Nat
        /\ \A l \in it.rest : In(d, it.table, it.index, l) /\ l \notin it.last
        /\ \A l \in it.seen : l \in DictKeys(d) /\ l \notin it.rest /\ ~Coming(d, it, l)
        /\ \A l \in it.due : l \in it.rest \/ Coming(d, it, l)
    BY <1>3, Zenon DEF WalkInv
  <2>2. Stays(d, c, S)
    BY <1>1, <1>3
  <2>3. \A l \in DictKeys(d) : l \notin S
    OBVIOUS
  <2> HIDE DEF S
  <2>4. it.table \in 0..1
    BY DEF IterSet
  <2>5. ASSUME NEW l \in DictKeys(d)
        PROVE  /\ Coming(d, it, l) <=> Coming(c, it, l)
               /\ In(d, it.table, it.index, l) <=> In(c, it.table, it.index, l)
    BY <2>2, <2>3, <2>4, StaysComing, Zenon
  <2>6. \A l : Coming(d, it, l) => l \in DictKeys(d)
    BY ComingKey
  <2>7. \A l \in it.rest : l \in DictKeys(d)
    BY <2>1, <2>4, InDict
  <2>8. \A l \in it.rest : In(c, it.table, it.index, l) /\ l \notin it.last
    BY <2>1, <2>5, <2>7, Zenon
  <2>9. \A l \in it.seen : l \in DictKeys(c) /\ l \notin it.rest /\ ~Coming(c, it, l)
    BY <1>1, <2>1, <2>5, Zenon
  <2>10. \A l \in it.due : l \in it.rest \/ Coming(c, it, l)
    BY <2>1, <2>5, <2>6, Zenon
  <2> QED
    BY <1>3, <2>1, <2>8, <2>9, <2>10, Zenon DEF WalkInv
<1> QED
  BY <1>2, <1>3

(* The iterator without a key that is deleted. *)
Lose(it, ks) == [it EXCEPT !.due = @ \ ks, !.last = @ \ ks, !.seen = @ \ ks]

(* The fields of the iterator after a key is deleted. *)
LEMMA LoseParts ==
    ASSUME NEW it \in IterSet, NEW ks
    PROVE  LET m == Lose(it, ks) IN
           /\ m \in IterSet /\ m.on = it.on /\ m.didx = it.didx /\ m.table = it.table
           /\ m.index = it.index /\ m.rest = it.rest
           /\ m.last = it.last \ ks /\ m.seen = it.seen \ ks /\ m.due = it.due \ ks
<1> DEFINE a == it.due \ ks
           b == it.last \ ks
           c == it.seen \ ks
           m == [it EXCEPT !.due = a, !.last = b, !.seen = c]
<1>1. a \in SUBSET Key /\ b \in SUBSET Key /\ c \in SUBSET Key
  BY DEF IterSet
<1>2. Lose(it, ks) = m
  BY DEF Lose
<1> HIDE DEF a, b, c
<1>3. /\ m \in IterSet /\ m.on = it.on /\ m.didx = it.didx /\ m.table = it.table
      /\ m.index = it.index /\ m.rest = it.rest /\ m.last = b /\ m.seen = c /\ m.due = a
  BY <1>1 DEF IterSet
<1> QED
  BY <1>2, <1>3 DEF a, b, c

(* nor does deleting the key returned last. *)
LEMMA WalkDelete ==
    ASSUME NEW K, NEW d, NEW c, NEW k, NEW it \in IterSet, DictInv(d, K), Deletes(d, k, K, c),
           WalkInv(d, it), k \in it.last, ~Fresh(it) => d.pause # 0
    PROVE  WalkInv(c, Lose(it, {k})) /\ ~Fresh(it)
<1> DEFINE m == Lose(it, {k})
<1>1. DictKeys(c) = DictKeys(d) \ {k} /\ (d.pause # 0 => Stays(d, c, {k}))
  BY Zenon DEF Deletes
<1>2. /\ m \in IterSet /\ m.table = it.table
      /\ m.index = it.index /\ m.rest = it.rest
      /\ m.last = it.last \ {k} /\ m.seen = it.seen \ {k} /\ m.due = it.due \ {k}
  BY LoseParts
<1> HIDE DEF m
<1>3. ~Fresh(it)
  BY Zenon DEF WalkInv
<1>4. /\ it.index \in Nat
      /\ \A l \in it.rest : In(d, it.table, it.index, l) /\ l \notin it.last
      /\ \A l \in it.seen : l \in DictKeys(d) /\ l \notin it.rest /\ ~Coming(d, it, l)
      /\ \A l \in it.due : l \in it.rest \/ Coming(d, it, l)
  BY <1>3, Zenon DEF WalkInv
<1>5. Stays(d, c, {k})
  BY <1>1, <1>3
<1>6. it.table \in 0..1
  BY DEF IterSet
<1>7. ASSUME NEW l, l # k
      PROVE  /\ Coming(d, it, l) <=> Coming(c, it, l)
             /\ In(d, it.table, it.index, l) <=> In(c, it.table, it.index, l)
  <2>1. l \notin {k}
    BY <1>7
  <2> QED
    BY <1>5, <1>6, <2>1, StaysComing, Zenon
<1>8. \A l : Coming(c, m, l) <=> Coming(c, it, l)
  BY <1>2, Zenon DEF Coming
<1>9. ~Fresh(m)
  BY <1>2, <1>3, Zenon DEF Fresh
<1>10. \A l \in m.rest : In(c, m.table, m.index, l) /\ l \notin m.last
  BY <1>2, <1>4, <1>7, Zenon
<1>11. \A l \in m.seen : l \in DictKeys(c) /\ l \notin m.rest /\ ~Coming(c, m, l)
  BY <1>1, <1>2, <1>4, <1>7, <1>8, Zenon
<1>12. \A l \in m.due : l \in m.rest \/ Coming(c, m, l)
  BY <1>2, <1>4, <1>7, <1>8, Zenon
<1>13. WalkInv(c, m)
  BY <1>2, <1>4, <1>9, <1>10, <1>11, <1>12, Zenon DEF WalkInv
<1> QED
  BY <1>3, <1>13 DEF m

(* The walk depends on the tables alone. *)
LEMMA SameBuckets ==
    ASSUME NEW d, NEW c, c.ht = d.ht, NEW it
    PROVE  /\ WalkInv(d, it) <=> WalkInv(c, it)
           /\ \A k : Coming(d, it, k) <=> Coming(c, it, k)
           /\ DictKeys(d) = DictKeys(c)
<1>1. DictKeys(d) = DictKeys(c)
  BY Zenon DEF DictKeys, Keys
<1>2. \A t, j, k : In(d, t, j, k) <=> In(c, t, j, k)
  BY Zenon DEF In
<1>3. \A k : Coming(d, it, k) <=> Coming(c, it, k)
  BY <1>2, Zenon DEF Coming
<1>4. WalkInv(d, it) <=> WalkInv(c, it)
  BY <1>1, <1>2, <1>3, Zenon DEF WalkInv
<1> QED
  BY <1>1, <1>3, <1>4

(* The iterator after it has returned key k; after it has come to bucket j *)
(* of table t.                                                             *)
Given(it, k) == [it EXCEPT !.rest = @ \ {k}, !.last = {k}, !.seen = @ \cup {k}, !.due = @ \ {k}]
Reach(it, t, j, ks) == [it EXCEPT !.table = t, !.index = j, !.rest = ks]

(* The fields after a key is returned, *)
LEMMA GivenParts ==
    ASSUME NEW it \in IterSet, NEW k \in Key
    PROVE  LET m == Given(it, k) IN
           /\ m \in IterSet /\ m.on = it.on /\ m.didx = it.didx /\ m.table = it.table
           /\ m.index = it.index /\ m.rest = it.rest \ {k}
           /\ m.last = {k} /\ m.seen = it.seen \cup {k} /\ m.due = it.due \ {k}
<1> DEFINE a == it.rest \ {k}
           b == {k}
           c == it.seen \cup {k}
           e == it.due \ {k}
           m == [it EXCEPT !.rest = a, !.last = b, !.seen = c, !.due = e]
<1>1. a \in SUBSET Key /\ b \in SUBSET Key /\ c \in SUBSET Key /\ e \in SUBSET Key
  BY DEF IterSet
<1>2. Given(it, k) = m
  BY DEF Given
<1> HIDE DEF a, b, c, e
<1>3. /\ m \in IterSet /\ m.on = it.on /\ m.didx = it.didx /\ m.table = it.table
      /\ m.index = it.index /\ m.rest = a /\ m.last = b /\ m.seen = c /\ m.due = e
  BY <1>1 DEF IterSet
<1> QED
  BY <1>2, <1>3 DEF a, b, c, e

(* and after the next bucket is reached. *)
LEMMA ReachParts ==
    ASSUME NEW it \in IterSet, NEW t \in 0..1, NEW j \in Int, NEW ks \in SUBSET Key
    PROVE  LET m == Reach(it, t, j, ks) IN
           /\ m \in IterSet /\ m.on = it.on /\ m.didx = it.didx /\ m.table = t
           /\ m.index = j /\ m.rest = ks /\ m.last = it.last /\ m.seen = it.seen /\ m.due = it.due
  BY DEF Reach, IterSet

(* The first call of dictNext passes buckets that are empty: no key is     *)
(* passed over.                                                            *)
LEMMA BegunFacts ==
    ASSUME NEW K, NEW d, DictInv(d, K), NEW it \in IterSet, WalkInv(d, it)
    PROVE  LET m == Begun(d, it) IN
           /\ m \in IterSet /\ m.on = it.on /\ m.didx = it.didx /\ m.table = it.table
           /\ m.rest = it.rest /\ m.last = it.last /\ m.seen = it.seen /\ m.due = it.due
           /\ \A l \in it.seen : l \in DictKeys(d) /\ ~Coming(d, m, l)
           /\ \A l \in it.due : l \in it.rest \/ Coming(d, m, l)
<1> DEFINE m == Begun(d, it)
           r == d.rehashidx - 1
<1>0. /\ d.rehashidx \in Int /\ DOMAIN d.ht[0] = 0..(Size(d.exp[0]) - 1)
      /\ \A j \in DOMAIN d.ht[0] : j < d.rehashidx => d.ht[0][j] = {}
      /\ d.rehashidx # -1 => d.rehashidx \in Nat
  BY IdxType
<1>1. CASE ~Fresh(it)
  <2>1. m = it
    BY <1>1, Zenon DEF Begun, Fresh
  <2>2. /\ \A l \in it.seen : l \in DictKeys(d) /\ ~Coming(d, it, l)
        /\ \A l \in it.due : l \in it.rest \/ Coming(d, it, l)
    BY <1>1, Zenon DEF WalkInv
  <2> QED
    BY <2>1, <2>2
<1>2. CASE Fresh(it)
  <2>1. m = IF d.rehashidx # -1 THEN [it EXCEPT !.index = r] ELSE it
    BY <1>2, Zenon DEF Begun, Fresh, IsRehashing
  <2>2. r \in Int
    BY <1>0
  <2> HIDE DEF r
  <2>3. /\ [it EXCEPT !.index = r] \in IterSet
        /\ \A n \in {[it EXCEPT !.index = r]} :
              /\ n.on = it.on /\ n.didx = it.didx /\ n.table = it.table /\ n.index = r
              /\ n.rest = it.rest /\ n.last = it.last /\ n.seen = it.seen /\ n.due = it.due
    BY <2>2 DEF IterSet
  <2>4. /\ m \in IterSet /\ m.on = it.on /\ m.didx = it.didx /\ m.table = it.table
        /\ m.rest = it.rest /\ m.last = it.last /\ m.seen = it.seen /\ m.due = it.due
        /\ m.index = IF d.rehashidx # -1 THEN r ELSE it.index
    <3> DEFINE n == [it EXCEPT !.index = r]
    <3>1. /\ n \in IterSet /\ n.on = it.on /\ n.didx = it.didx /\ n.table = it.table /\ n.index = r
          /\ n.rest = it.rest /\ n.last = it.last /\ n.seen = it.seen /\ n.due = it.due
      BY <2>3
    <3> HIDE DEF n, m
    <3>2. m = IF d.rehashidx # -1 THEN n ELSE it
      BY <2>1 DEF n
    <3>3. CASE d.rehashidx # -1
      BY <3>1, <3>2, <3>3
    <3>4. CASE d.rehashidx = -1
      BY <3>2, <3>4
    <3> QED
      BY <3>3, <3>4
  <2> HIDE DEF m
  <2>5. m.table = 0 /\ it.index = -1
    BY <1>2, <2>4, Zenon DEF Fresh
  <2>6. ASSUME NEW l \in DictKeys(d) PROVE Coming(d, m, l)
    <3>1. PICK t \in 0..1, j \in Nat : In(d, t, j, l)
      BY InDict
    <3>2. CASE t = 1
      <4>1. t > m.table
        BY <2>5, <3>2
      <4> QED
        BY <3>1, <4>1, Zenon DEF Coming
    <3>3. CASE t = 0
      <4>1. j \in DOMAIN d.ht[0] /\ d.ht[0][j] # {}
        BY <3>1, <3>3 DEF In
      <4>2. ~(j < d.rehashidx)
        BY <1>0, <4>1, Zenon
      <4>3. j > m.index
        BY <1>0, <2>4, <2>5, <4>2 DEF r
      <4>4. t = m.table
        BY <2>5, <3>3
      <4> QED
        BY <3>1, <4>3, <4>4, Zenon DEF Coming
    <3>4. t = 0 \/ t = 1
      OBVIOUS
    <3> QED
      BY <3>2, <3>3, <3>4
  <2>7. it.seen = {} /\ it.due \subseteq DictKeys(d)
    BY <1>2, Zenon DEF WalkInv
  <2>8. \A l \in it.due : l \in it.rest \/ Coming(d, m, l)
    BY <2>6, <2>7, Zenon
  <2>9. \A l \in it.seen : l \in DictKeys(d) /\ ~Coming(d, m, l)
    BY <2>7, Zenon
  <2> QED
    BY <2>4, <2>8, <2>9 DEF m
<1> QED
  BY <1>1, <1>2

(* Returning the next key of the chain. *)
LEMMA WalkRest ==
    ASSUME NEW K, NEW d, DictInv(d, K), NEW it \in IterSet, WalkInv(d, it), NEW k \in it.rest
    PROVE  /\ WalkInv(d, Given(it, k)) /\ k \notin it.seen
           /\ ~Fresh(it) /\ ~Fresh(Given(it, k)) /\ k \in Key
<1> DEFINE m == Given(it, k)
<1>1. k \in Key /\ it.table \in 0..1 /\ it.table \in Int
  BY DEF IterSet
<1>2. ~Fresh(it)
  BY Zenon DEF WalkInv
<1>3. /\ it.index \in Nat
      /\ \A l \in it.rest : In(d, it.table, it.index, l) /\ l \notin it.last
      /\ \A l \in it.seen : l \in DictKeys(d) /\ l \notin it.rest /\ ~Coming(d, it, l)
      /\ \A l \in it.due : l \in it.rest \/ Coming(d, it, l)
  BY <1>2, Zenon DEF WalkInv
<1>4. /\ m.table = it.table /\ m.index = it.index /\ m.rest = it.rest \ {k}
      /\ m.last = {k} /\ m.seen = it.seen \cup {k} /\ m.due = it.due \ {k}
  BY <1>1, GivenParts
<1> HIDE DEF m
<1>5. ~Fresh(m)
  BY <1>2, <1>4, Zenon DEF Fresh
<1>6. \A l : Coming(d, m, l) <=> Coming(d, it, l)
  BY <1>4, Zenon DEF Coming
<1>7. ~Coming(d, it, k)
  <2> SUFFICES ASSUME Coming(d, it, k) PROVE FALSE
    OBVIOUS
  <2>1. PICK t \in 0..1, j \in Nat : In(d, t, j, k) /\ Later(it, t, j)
    BY ComingLater, Zenon
  <2>2. In(d, it.table, it.index, k)
    BY <1>3
  <2>3. t = it.table /\ j = it.index
    BY <1>1, <2>1, <2>2, InOnce
  <2> QED
    BY <1>1, <1>3, <2>1, <2>3 DEF Later
<1>8. k \in DictKeys(d)
  BY <1>1, <1>3, InDict
<1>9. \A l \in m.rest : In(d, m.table, m.index, l) /\ l \notin m.last
  BY <1>3, <1>4, Zenon
<1>10. \A l \in m.seen : l \in DictKeys(d) /\ l \notin m.rest /\ ~Coming(d, m, l)
  BY <1>3, <1>4, <1>6, <1>7, <1>8, Zenon
<1>11. \A l \in m.due : l \in m.rest \/ Coming(d, m, l)
  BY <1>3, <1>4, <1>6, Zenon
<1>12. WalkInv(d, m)
  BY <1>3, <1>4, <1>5, <1>9, <1>10, <1>11, Zenon DEF WalkInv
<1> QED
  BY <1>1, <1>2, <1>3, <1>5, <1>12, Zenon DEF m

(* A walk owes less when keys are deleted elsewhere. *)
LEMMA WalkLose ==
    ASSUME NEW d, NEW it \in IterSet, WalkInv(d, it), NEW ks
    PROVE  WalkInv(d, Lose(it, ks))
<1> DEFINE m == Lose(it, ks)
<1>1. /\ m.table = it.table /\ m.index = it.index /\ m.rest = it.rest
      /\ m.last = it.last \ ks /\ m.seen = it.seen \ ks /\ m.due = it.due \ ks
  BY LoseParts
<1> HIDE DEF m
<1>2. \A l : Coming(d, m, l) <=> Coming(d, it, l)
  BY <1>1, Zenon DEF Coming
<1>3. Fresh(m) <=> Fresh(it)
  BY <1>1, Zenon DEF Fresh
<1>4. CASE Fresh(it)
  <2>1. it.rest = {} /\ it.last = {} /\ it.seen = {} /\ it.due \subseteq DictKeys(d)
    BY <1>4, Zenon DEF WalkInv
  <2>2. m.rest = {} /\ m.last = {} /\ m.seen = {} /\ m.due \subseteq DictKeys(d)
    BY <1>1, <2>1
  <2> QED
    BY <1>3, <1>4, <2>2, Zenon DEF WalkInv, m
<1>5. CASE ~Fresh(it)
  <2>1. /\ it.index \in Nat
        /\ \A l \in it.rest : In(d, it.table, it.index, l) /\ l \notin it.last
        /\ \A l \in it.seen : l \in DictKeys(d) /\ l \notin it.rest /\ ~Coming(d, it, l)
        /\ \A l \in it.due : l \in it.rest \/ Coming(d, it, l)
    BY <1>5, Zenon DEF WalkInv
  <2>2. /\ m.index \in Nat
        /\ \A l \in m.rest : In(d, m.table, m.index, l) /\ l \notin m.last
        /\ \A l \in m.seen : l \in DictKeys(d) /\ l \notin m.rest /\ ~Coming(d, m, l)
        /\ \A l \in m.due : l \in m.rest \/ Coming(d, m, l)
    BY <1>1, <1>2, <2>1, Zenon
  <2> QED
    BY <1>3, <1>5, <2>2, Zenon DEF WalkInv, m
<1> QED
  BY <1>4, <1>5

(* The iterator, come to bucket b of the ones ahead, returns key k. *)
Steps(d, it, k) ==
    LET b == First(Ahead(d, it)) IN Given(Reach(it, b[1], b[2], d.ht[b[1]][b[2]]), k)

(* Going on to the next bucket: its keys have not been returned, and none  *)
(* is passed over.                                                         *)
LEMMA WalkBucket ==
    ASSUME NEW K, Small(K), NEW d, DictInv(d, K), NEW it \in IterSet, WalkInv(d, it), it.rest = {},
           Ahead(d, Begun(d, it)) # {},
           NEW k, k \in d.ht[First(Ahead(d, Begun(d, it)))[1]][First(Ahead(d, Begun(d, it)))[2]]
    PROVE  LET m == Steps(d, Begun(d, it), k) IN
           /\ WalkInv(d, m) /\ ~Fresh(m) /\ k \notin it.seen
           /\ m \in IterSet /\ m.on = it.on /\ m.didx = it.didx
<1> DEFINE n == Begun(d, it)
           b == First(Ahead(d, n))
           t == b[1]
           j == b[2]
           ks == d.ht[t][j]
           q == Reach(n, t, j, ks)
           m == Given(q, k)
<1>1. /\ n \in IterSet /\ n.on = it.on /\ n.didx = it.didx
      /\ n.last = it.last /\ n.seen = it.seen /\ n.due = it.due
      /\ \A l \in it.seen : l \in DictKeys(d) /\ ~Coming(d, n, l)
      /\ \A l \in it.due : Coming(d, n, l)
  BY BegunFacts
<1>2. Ahead(d, n) # {} /\ k \in ks
  OBVIOUS
<1>3. n.table \in 0..1 /\ n.index \in Int /\ n.table \in Int
  <2> HIDE DEF n
  <2> QED
    BY <1>1 DEF IterSet
<1>4. Steps(d, n, k) = m
  BY DEF Steps
<1> HIDE DEF n
<1>5. /\ \A a \in Ahead(d, n) :
             /\ a[1] \in 0..1 /\ a[2] \in Nat /\ Later(n, a[1], a[2])
             /\ \A l \in d.ht[a[1]][a[2]] : In(d, a[1], a[2], l)
      /\ \A u \in 0..1, i \in Nat : \A l : In(d, u, i, l) /\ Later(n, u, i) => <<u, i>> \in Ahead(d, n)
  BY <1>3, AheadLater
<1>6. /\ b \in Ahead(d, n)
      /\ \A a \in Ahead(d, n) : b[1] < a[1] \/ (b[1] = a[1] /\ b[2] <= a[2])
  <2>1. \A a \in Ahead(d, n) : a[1] \in Nat /\ a[2] \in Nat
    BY <1>5
  <2> QED
    BY <1>2, <2>1, FirstLeast
<1>7. t \in 0..1 /\ j \in Nat /\ t \in Int /\ Later(n, t, j) /\ \A l \in ks : In(d, t, j, l)
  BY <1>5, <1>6
<1>8. \A l \in ks : l \in DictKeys(d)
  BY <1>7, InDict
<1>9. ks \in SUBSET Key
  <2>1. /\ Good(d.exp[0], d.exp[1], d.ht[0], d.ht[1], d.rehashidx, K)
        /\ DictKeys(d) = All(d.ht[0]) \cup All(d.ht[1])
    BY InvParts
  <2>2. DictKeys(d) \subseteq K
    BY <2>1, Zenon DEF Good
  <2>3. K \subseteq Key
    BY DEF Small
  <2> QED
    BY <1>8, <2>2, <2>3, Zenon
<1>10. ASSUME NEW u \in 0..1, NEW i \in Nat, NEW l, In(d, u, i, l), Later(n, u, i)
       PROVE  t < u \/ (t = u /\ j <= i)
  <2>1. <<u, i>> \in Ahead(d, n)
    BY <1>5, <1>10
  <2>2. b[1] < <<u, i>>[1] \/ (b[1] = <<u, i>>[1] /\ b[2] <= <<u, i>>[2])
    BY <1>6, <2>1, Zenon
  <2> QED
    BY <2>2
<1> HIDE DEF b, t, j, ks
<1>11. /\ q \in IterSet /\ q.on = n.on /\ q.didx = n.didx /\ q.table = t /\ q.index = j /\ q.rest = ks
       /\ q.last = n.last /\ q.seen = n.seen /\ q.due = n.due
  BY <1>1, <1>7, <1>9, ReachParts
<1> HIDE DEF q
<1>12. k \in Key
  BY <1>2, <1>9
<1>13. /\ m \in IterSet /\ m.on = it.on /\ m.didx = it.didx /\ m.table = t /\ m.index = j
       /\ m.rest = ks \ {k} /\ m.last = {k} /\ m.seen = it.seen \cup {k} /\ m.due = it.due \ {k}
  <2>1. /\ m \in IterSet /\ m.on = q.on /\ m.didx = q.didx /\ m.table = q.table /\ m.index = q.index
        /\ m.rest = q.rest \ {k} /\ m.last = {k} /\ m.seen = q.seen \cup {k} /\ m.due = q.due \ {k}
    BY <1>11, <1>12, GivenParts
  <2> HIDE DEF m
  <2> QED
    BY <1>1, <1>11, <2>1
<1> HIDE DEF m
<1>14. ~Fresh(m)
  <2>1. m.index # -1
    BY <1>7, <1>13
  <2> QED
    BY <2>1, Zenon DEF Fresh
<1>15. \A l \in ks : Coming(d, n, l)
  BY <1>7, ComingLater, Zenon
<1>16. ASSUME NEW l, Coming(d, m, l) PROVE Coming(d, n, l) /\ l \notin ks
  <2>1. PICK u \in 0..1, i \in Nat : In(d, u, i, l) /\ Later(m, u, i)
    BY <1>16, ComingLater, Zenon
  <2>2. u > t \/ (u = t /\ i > j)
    BY <1>13, <2>1 DEF Later
  <2>3. Later(n, u, i)
    BY <1>3, <1>7, <2>2 DEF Later
  <2>4. Coming(d, n, l)
    BY <2>1, <2>3, ComingLater, Zenon
  <2>5. ASSUME l \in ks PROVE FALSE
    <3>1. In(d, t, j, l)
      BY <1>7, <2>5
    <3>2. u = t /\ i = j
      BY <1>7, <2>1, <3>1, InOnce
    <3> QED
      BY <1>7, <2>2, <3>2
  <2> QED
    BY <2>4, <2>5
<1>17. ASSUME NEW l, Coming(d, n, l), l \notin ks PROVE Coming(d, m, l)
  <2>1. PICK u \in 0..1, i \in Nat : In(d, u, i, l) /\ Later(n, u, i)
    BY <1>17, ComingLater, Zenon
  <2>2. t < u \/ (t = u /\ j <= i)
    BY <1>10, <2>1
  <2>3. ~(t = u /\ j = i)
    BY <1>17, <2>1, Zenon DEF In, ks
  <2>4. Later(m, u, i)
    BY <1>7, <1>13, <2>2, <2>3 DEF Later
  <2> QED
    BY <2>1, <2>4, ComingLater, Zenon
<1>18. k \notin it.seen
  BY <1>1, <1>2, <1>15, Zenon
<1>19. \A l \in m.rest : In(d, m.table, m.index, l) /\ l \notin m.last
  BY <1>7, <1>13, Zenon
<1>20. \A l \in m.seen : l \in DictKeys(d) /\ l \notin m.rest /\ ~Coming(d, m, l)
  BY <1>1, <1>2, <1>8, <1>13, <1>15, <1>16, Zenon
<1>21. \A l \in m.due : l \in m.rest \/ Coming(d, m, l)
  BY <1>1, <1>13, <1>17, Zenon
<1>22. WalkInv(d, m)
  BY <1>7, <1>13, <1>14, <1>19, <1>20, <1>21, Zenon DEF WalkInv
<1> QED
  BY <1>4, <1>13, <1>14, <1>18, <1>22 DEF n

-----------------------------------------------------------------------------
(* Store and iterator together *)

(* What Sound says. *)
LEMMA SoundParts ==
    ASSUME NEW s, NEW it, Sound(s, it)
    PROVE  /\ StoreInv(s) /\ it \in IterSet /\ it.didx \in Index /\ it.on \in BOOLEAN
           /\ \A i \in Index : DictInv(s.dicts[i], Own(i)) /\ Small(Own(i))
           /\ \A i \in Index : s.dicts[i].pause = PauseOf(it, i)
           /\ \A i \in Index : s.dicts[i].pause \in Nat
           /\ \A i \in Index : ~it.on \/ i # it.didx \/ Fresh(it) => s.dicts[i].pause = 0
           /\ it.on /\ ~Fresh(it) => s.dicts[it.didx].pause = 1
           /\ it.on => it.didx \in s.alloc /\ WalkInv(s.dicts[it.didx], it)
<1>1. /\ StoreInv(s) /\ it \in IterSet
      /\ \A i \in Index : s.dicts[i].pause = PauseOf(it, i)
      /\ it.on => it.didx \in s.alloc /\ WalkInv(s.dicts[it.didx], it)
  BY Zenon DEF Sound
<1>2. it.didx \in Index /\ it.on \in BOOLEAN
  BY <1>1 DEF IterSet
<1>3. \A i \in Index : DictInv(s.dicts[i], Own(i)) /\ Small(Own(i))
  BY <1>1, StoreParts, StoreConstants
<1>4. \A i \in Index : PauseOf(it, i) = 0 \/ PauseOf(it, i) = 1
  BY Zenon DEF PauseOf
<1>5. \A i \in Index : s.dicts[i].pause \in Nat
  BY <1>1, <1>4
<1>6. \A i \in Index : ~it.on \/ i # it.didx \/ Fresh(it) => s.dicts[i].pause = 0
  BY <1>1, Zenon DEF PauseOf
<1>7. it.on /\ ~Fresh(it) => s.dicts[it.didx].pause = 1
  BY <1>1, <1>2, Zenon DEF PauseOf
<1> QED
  BY <1>1, <1>2, <1>3, <1>5, <1>6, <1>7

(* A store and an iterator changed, but not the pauses. *)
LEMMA SoundSame ==
    ASSUME NEW s, NEW t, NEW it, NEW m, Sound(s, it), StoreInv(t), m \in IterSet,
           m.on = it.on, m.didx = it.didx, Fresh(m) <=> Fresh(it),
           \A i \in Index : t.dicts[i].pause = s.dicts[i].pause,
           it.on => it.didx \in t.alloc /\ WalkInv(t.dicts[it.didx], m)
    PROVE  Sound(t, m)
<1>1. \A i \in Index : s.dicts[i].pause = PauseOf(it, i)
  BY SoundParts
<1>2. \A i \in Index : PauseOf(it, i) = PauseOf(m, i)
  BY Zenon DEF PauseOf
<1>3. \A i \in Index : t.dicts[i].pause = PauseOf(m, i)
  BY <1>1, <1>2, Zenon
<1> QED
  BY <1>3, Zenon DEF Sound

(* Without a walk no dict is paused. *)
LEMMA SoundIdle ==
    ASSUME NEW t, NEW m, StoreInv(t), m \in IterSet, ~m.on, \A i \in Index : t.dicts[i].pause = 0
    PROVE  Sound(t, m)
  BY Zenon DEF Sound, PauseOf

(* Adding a key, whether or not its dict is walked; *)
LEMMA SoundAdd ==
    ASSUME NEW s, NEW it, Sound(s, it), NEW k \in Key, NEW fits
    PROVE  Sound(KvsAdd(s, k, fits), it) /\ AllKeys(KvsAdd(s, k, fits)) = AllKeys(s) \cup {k}
<1> DEFINE t == KvsAdd(s, k, fits)
           i == Slot(k)
           c == DictAdd(s.dicts[i], k, policy, fits)
<1>1. /\ StoreInv(s) /\ it \in IterSet /\ it.didx \in Index
      /\ \A j \in Index : DictInv(s.dicts[j], Own(j)) /\ Small(Own(j))
      /\ it.on /\ ~Fresh(it) => s.dicts[it.didx].pause = 1
      /\ it.on => it.didx \in s.alloc /\ WalkInv(s.dicts[it.didx], it)
  BY SoundParts
<1>2. i \in Index /\ k \in Own(i)
  BY StoreConstants DEF Own
<1>3. /\ StoreInv(t) /\ AllKeys(t) = AllKeys(s) \cup {k} /\ t.alloc = s.alloc \cup {i}
      /\ t.dicts[i] = c
      /\ \A j \in Index : j # i => t.dicts[j] = s.dicts[j]
  BY <1>1, StoreAdd
<1>4. Adds(s.dicts[i], k, Own(i), c)
  BY <1>1, <1>2, AddKey
<1> HIDE DEF t, i, c
<1>5. c.pause = s.dicts[i].pause
  BY <1>4, Zenon DEF Adds
<1>6. \A j \in Index : t.dicts[j].pause = s.dicts[j].pause
  BY <1>3, <1>5, Zenon
<1>7. ASSUME it.on PROVE it.didx \in t.alloc /\ WalkInv(t.dicts[it.didx], it)
  <2>1. it.didx \in t.alloc
    BY <1>1, <1>3, <1>7
  <2>2. CASE it.didx # i
    BY <1>1, <1>3, <1>7, <2>1, <2>2
  <2>3. CASE it.didx = i
    <3>1. DictInv(s.dicts[i], Own(i)) /\ WalkInv(s.dicts[i], it)
      BY <1>1, <1>2, <1>7, <2>3
    <3>2. ~Fresh(it) => s.dicts[i].pause # 0
      BY <1>1, <1>7, <2>3
    <3>3. WalkInv(c, it)
      BY <1>1, <1>4, <3>1, <3>2, WalkAdd
    <3> QED
      BY <1>3, <2>1, <2>3, <3>3
  <2> QED
    BY <2>2, <2>3
<1>8. Sound(t, it)
  BY <1>1, <1>3, <1>6, <1>7, SoundSame
<1> QED
  BY <1>3, <1>8 DEF t

(* finding one; *)
LEMMA SoundFind ==
    ASSUME NEW s, NEW it, Sound(s, it), NEW k \in Key
    PROVE  LET t == SetDict(s, Slot(k), DictFind(s.dicts[Slot(k)], k, policy)) IN
           Sound(t, it) /\ AllKeys(t) = AllKeys(s)
<1> DEFINE i == Slot(k)
           d == s.dicts[i]
           c == DictFind(d, k, policy)
           t == SetDict(s, i, c)
<1>1. /\ StoreInv(s) /\ it \in IterSet /\ it.didx \in Index
      /\ \A j \in Index : DictInv(s.dicts[j], Own(j)) /\ Small(Own(j))
      /\ it.on /\ ~Fresh(it) => s.dicts[it.didx].pause = 1
      /\ it.on => it.didx \in s.alloc /\ WalkInv(s.dicts[it.didx], it)
  BY SoundParts
<1>2. i \in Index
  BY StoreConstants
<1>3. DictInv(d, Own(i)) /\ Small(Own(i))
  BY <1>1, <1>2
<1>4. Moves(d, c, Own(i)) /\ (d.pause # 0 => c = d)
  <2> HIDE DEF i, d
  <2> QED
    BY <1>3, FindKey
<1>5. Same(d, c, Own(i))
  BY <1>4, Zenon DEF Moves
<1>6. /\ Keeps(s, t) /\ t.dicts[i] = c
      /\ \A j \in Index : j # i => t.dicts[j] = s.dicts[j]
  <2> HIDE DEF i, c
  <2> QED
    BY <1>1, <1>2, <1>5, SetDictKeeps
<1> HIDE DEF i, c, t
<1>7. /\ StoreInv(t) /\ AllKeys(t) = AllKeys(s) /\ t.alloc = s.alloc
      /\ \A j \in Index : DictKeys(t.dicts[j]) = DictKeys(s.dicts[j]) /\ t.dicts[j].pause = s.dicts[j].pause
  BY <1>6, Zenon DEF Keeps
<1>8. ASSUME it.on PROVE it.didx \in t.alloc /\ WalkInv(t.dicts[it.didx], it)
  <2>0. it.didx \in t.alloc /\ WalkInv(s.dicts[it.didx], it)
    BY <1>1, <1>7, <1>8
  <2>1. CASE it.didx # i
    BY <1>1, <1>6, <2>0, <2>1
  <2>2. CASE it.didx = i /\ Fresh(it)
    <3>1. WalkInv(t.dicts[it.didx], it)
      BY <1>1, <1>7, <2>0, <2>2, Zenon DEF WalkInv
    <3> QED
      BY <2>0, <3>1
  <2>3. CASE it.didx = i /\ ~Fresh(it)
    <3>1. d.pause # 0
      BY <1>1, <1>8, <2>3
    <3>2. t.dicts[i] = s.dicts[i]
      BY <1>4, <1>6, <3>1
    <3> QED
      BY <2>0, <2>3, <3>2
  <2> QED
    BY <2>1, <2>2, <2>3
<1>9. Sound(t, it)
  BY <1>1, <1>7, <1>8, SoundSame
<1> QED
  BY <1>7, <1>9 DEF t, i, c

(* deleting one, which with a walk is the one returned last. *)
LEMMA SoundDelete ==
    ASSUME NEW s, NEW it, Sound(s, it), NEW k \in Key, NEW c,
           Deletes(s.dicts[Slot(k)], k, Own(Slot(k)), c), it.on => k \in it.last
    PROVE  LET t == KvsDelete(s, k, c) IN
           Sound(t, Lose(it, {k})) /\ AllKeys(t) = AllKeys(s) \ {k}
<1> DEFINE t == KvsDelete(s, k, c)
           i == Slot(k)
           m == Lose(it, {k})
<1>1. /\ StoreInv(s) /\ it \in IterSet /\ it.didx \in Index
      /\ \A j \in Index : DictInv(s.dicts[j], Own(j)) /\ Small(Own(j))
      /\ it.on /\ ~Fresh(it) => s.dicts[it.didx].pause = 1
      /\ it.on => it.didx \in s.alloc /\ WalkInv(s.dicts[it.didx], it)
  BY SoundParts
<1>2. i \in Index
  BY StoreConstants
<1>3. Drops(s, k, c, t)
  BY <1>1, StoreDelete
<1>4. m \in IterSet /\ m.on = it.on /\ m.didx = it.didx /\ m.table = it.table /\ m.index = it.index
  BY <1>1, LoseParts
<1> HIDE DEF t, m
<1>5. /\ StoreInv(t) /\ AllKeys(t) = AllKeys(s) \ {k}
      /\ \A j \in Index : t.dicts[j].pause = s.dicts[j].pause
      /\ \A j \in Index : s.dicts[j].pause # 0 /\ j \in s.alloc =>
             j \in t.alloc /\ t.dicts[j] = IF j = i THEN c ELSE s.dicts[j]
  BY <1>3, Zenon DEF Drops
<1>6. Fresh(m) <=> Fresh(it)
  BY <1>4, Zenon DEF Fresh
<1>7. ASSUME it.on PROVE it.didx \in t.alloc /\ WalkInv(t.dicts[it.didx], m)
  <2>1. WalkInv(s.dicts[it.didx], it) /\ it.didx \in s.alloc /\ k \in it.last
    BY <1>1, <1>7
  <2>2. ~Fresh(it)
    BY <2>1, Zenon DEF WalkInv
  <2>3. s.dicts[it.didx].pause # 0
    BY <1>1, <1>7, <2>2
  <2>4. /\ it.didx \in t.alloc
        /\ t.dicts[it.didx] = IF it.didx = i THEN c ELSE s.dicts[it.didx]
    BY <1>1, <1>5, <2>1, <2>3, Zenon
  <2>5. CASE it.didx = i
    <3>1. Deletes(s.dicts[i], k, Own(i), c)
      OBVIOUS
    <3>2. DictInv(s.dicts[i], Own(i)) /\ WalkInv(s.dicts[i], it) /\ s.dicts[i].pause # 0
      BY <1>1, <1>2, <2>1, <2>3, <2>5
    <3> HIDE DEF i
    <3>3. WalkInv(c, m)
      BY <1>1, <2>1, <3>1, <3>2, WalkDelete DEF m
    <3> QED
      BY <2>4, <2>5, <3>3
  <2>6. CASE it.didx # i
    <3>1. WalkInv(s.dicts[it.didx], m)
      BY <1>1, <2>1, WalkLose DEF m
    <3> QED
      BY <2>4, <2>6, <3>1
  <2> QED
    BY <2>5, <2>6
<1>8. Sound(t, m)
  BY <1>4, <1>5, <1>6, <1>7, SoundSame
<1> QED
  BY <1>5, <1>8 DEF t, m

(* No iterator. *)
LEMMA NoIterType == NoIter \in IterSet /\ ~NoIter.on
<1>1. 0 \in Index
  BY StoreConstants
<1> QED
  BY <1>1 DEF NoIter, IterSet

(* A walk begins. *)
LEMMA SoundStart ==
    ASSUME NEW s, NEW it, Sound(s, it), ~it.on, NEW i \in s.alloc
    PROVE  Sound(s, [NoIter EXCEPT !.on = TRUE, !.didx = i, !.due = DictKeys(s.dicts[i])])
<1> DEFINE S == DictKeys(s.dicts[i])
           m == [NoIter EXCEPT !.on = TRUE, !.didx = i, !.due = S]
<1>1. /\ StoreInv(s) /\ \A j \in Index : DictInv(s.dicts[j], Own(j))
      /\ \A j \in Index : s.dicts[j].pause = 0
  BY SoundParts
<1>2. i \in Index
  <2>1. s.alloc \in SUBSET Index
    BY <1>1, StoreParts
  <2> QED
    BY <2>1
<1>3. S \in SUBSET Key
  <2>1. DictInv(s.dicts[i], Own(i))
    BY <1>1, <1>2
  <2>2. \A k \in S : k \in Key
    BY <2>1, OwnKeys
  <2> QED
    BY <2>2, Zenon
<1> HIDE DEF S
<1>4. /\ m \in IterSet /\ m.on /\ m.didx = i /\ m.table = 0 /\ m.index = -1
      /\ m.rest = {} /\ m.last = {} /\ m.seen = {} /\ m.due = S
  <2>1. NoIter \in IterSet
    BY NoIterType
  <2>2. /\ NoIter.table = 0 /\ NoIter.index = -1 /\ NoIter.rest = {} /\ NoIter.last = {}
        /\ NoIter.seen = {}
    BY DEF NoIter
  <2>3. /\ m \in IterSet /\ m.on = TRUE /\ m.didx = i /\ m.table = NoIter.table
        /\ m.index = NoIter.index /\ m.rest = NoIter.rest /\ m.last = NoIter.last
        /\ m.seen = NoIter.seen /\ m.due = S
    BY <1>2, <1>3, <2>1 DEF IterSet
  <2> HIDE DEF m
  <2> QED
    BY <2>2, <2>3
<1> HIDE DEF m
<1>5. Fresh(m)
  BY <1>4, Zenon DEF Fresh
<1>6. WalkInv(s.dicts[i], m)
  BY <1>4, <1>5, Zenon DEF WalkInv, S
<1>7. \A j \in Index : s.dicts[j].pause = PauseOf(m, j)
  BY <1>1, <1>5, Zenon DEF PauseOf
<1>8. Sound(s, m)
  BY <1>1, <1>4, <1>6, <1>7, Zenon DEF Sound
<1> QED
  BY <1>8 DEF m, S

(* The first call of dictNext pauses the dict, the others find it paused. *)
LEMMA SoundPaused ==
    ASSUME NEW s, NEW it, Sound(s, it), it.on, NEW m \in IterSet, m.on = it.on, m.didx = it.didx,
           ~Fresh(m), WalkInv(s.dicts[it.didx], m)
    PROVE  Sound(Paused(s, it), m) /\ AllKeys(Paused(s, it)) = AllKeys(s)
<1> DEFINE i == it.didx
           t == Pause(s, i, 1)
<1>1. /\ StoreInv(s) /\ i \in Index /\ i \in s.alloc
      /\ \A j \in Index : j # i \/ Fresh(it) => s.dicts[j].pause = 0
  BY SoundParts
<1>2. CASE ~Fresh(it)
  <2>1. Paused(s, it) = s
    BY <1>2, Zenon DEF Paused, Fresh
  <2>2. Sound(s, m)
    BY <1>1, <1>2, SoundSame
  <2> QED
    BY <2>1, <2>2
<1>3. CASE Fresh(it)
  <2>1. Paused(s, it) = t
    BY <1>3, Zenon DEF Paused, Fresh
  <2>2. s.dicts[i].pause = 0
    BY <1>1, <1>3
  <2>3. s.dicts[i].pause + 1 \in Nat
    BY <2>2
  <2> HIDE DEF i
  <2>4. /\ StoreInv(t) /\ AllKeys(t) = AllKeys(s) /\ t.alloc = s.alloc
        /\ t.dicts[i].pause = s.dicts[i].pause + 1 /\ t.dicts[i].ht = s.dicts[i].ht
        /\ \A j \in Index : j # i => t.dicts[j] = s.dicts[j]
    BY <1>1, <2>3, StorePause
  <2> HIDE DEF t
  <2>5. t.dicts[i].pause = 1
    BY <2>2, <2>4
  <2>6. WalkInv(t.dicts[i], m)
    BY <2>4, SameBuckets DEF i
  <2>7. \A j \in Index : t.dicts[j].pause = PauseOf(m, j)
    BY <1>1, <1>3, <2>4, <2>5, Zenon DEF PauseOf, i
  <2>8. Sound(t, m)
    BY <1>1, <2>4, <2>6, <2>7, Zenon DEF Sound, i
  <2> QED
    BY <2>1, <2>4, <2>8
<1> QED
  BY <1>2, <1>3

(* The end of a walk continues the dict, and frees it if it is empty. *)
LEMMA SoundRelease ==
    ASSUME NEW s, NEW it, Sound(s, it), it.on
    PROVE  LET i == it.didx
               begun == it.index # -1 \/ it.table # 0
               t == FreeDictIfNeeded(IF begun THEN Pause(s, i, -1) ELSE s, i)
           IN  Sound(t, NoIter) /\ AllKeys(t) = AllKeys(s)
<1> DEFINE i == it.didx
           begun == it.index # -1 \/ it.table # 0
           u == IF begun THEN Pause(s, i, -1) ELSE s
           t == FreeDictIfNeeded(u, i)
<1>1. /\ StoreInv(s) /\ i \in Index
      /\ \A j \in Index : j # i \/ Fresh(it) => s.dicts[j].pause = 0
      /\ ~Fresh(it) => s.dicts[i].pause = 1
  BY SoundParts
<1>2. Fresh(it) <=> ~begun
  BY Zenon DEF Fresh
<1> HIDE DEF begun
<1>3. StoreInv(u) /\ AllKeys(u) = AllKeys(s) /\ \A j \in Index : u.dicts[j].pause = 0
  <2>1. CASE ~begun
    BY <1>1, <1>2, <2>1
  <2>2. CASE begun
    <3> DEFINE v == Pause(s, i, -1)
    <3>1. s.dicts[i].pause = 1
      BY <1>1, <1>2, <2>2
    <3>2. s.dicts[i].pause + (-1) \in Nat
      BY <3>1
    <3>3. /\ StoreInv(v) /\ AllKeys(v) = AllKeys(s)
          /\ v.dicts[i].pause = s.dicts[i].pause + (-1)
          /\ \A j \in Index : j # i => v.dicts[j] = s.dicts[j]
      <4> HIDE DEF i
      <4> QED
        BY <1>1, <3>2, StorePause
    <3>4. u = v
      BY <2>2
    <3> HIDE DEF v, u
    <3>5. v.dicts[i].pause = 0
      BY <3>1, <3>3
    <3>6. \A j \in Index : v.dicts[j].pause = 0
      BY <1>1, <3>3, <3>5, Zenon
    <3> QED
      BY <3>3, <3>4, <3>6
  <2> QED
    BY <2>1, <2>2
<1> HIDE DEF u
<1>4. Frees(u, t)
  BY <1>1, <1>3, StoreFree
<1> HIDE DEF t
<1>5. StoreInv(t) /\ AllKeys(t) = AllKeys(s) /\ \A j \in Index : t.dicts[j].pause = 0
  BY <1>3, <1>4, Zenon DEF Frees
<1>6. Sound(t, NoIter)
  BY <1>5, NoIterType, SoundIdle
<1> QED
  BY <1>5, <1>6 DEF t, u, begun

(* When nothing is ahead, nothing is owed. *)
LEMMA WalkOver ==
    ASSUME NEW K, NEW d, DictInv(d, K), NEW it \in IterSet, WalkInv(d, it), it.rest = {},
           Ahead(d, Begun(d, it)) = {}
    PROVE  it.due = {}
<1> DEFINE n == Begun(d, it)
<1>1. n \in IterSet /\ \A l \in it.due : l \in it.rest \/ Coming(d, n, l)
  BY BegunFacts
<1>2. Ahead(d, n) = {}
  OBVIOUS
<1> HIDE DEF n
<1>3. n.table \in 0..1
  BY <1>1 DEF IterSet
<1>4. \A u \in 0..1, i \in Nat : \A l : In(d, u, i, l) /\ Later(n, u, i) => <<u, i>> \in Ahead(d, n)
  BY <1>3, AheadLater
<1>5. \A l : ~Coming(d, n, l)
  BY <1>2, <1>4, ComingLater, Zenon
<1> QED
  BY <1>1, <1>5, Zenon

-----------------------------------------------------------------------------
(* The actions *)

(* The step changes the set of keys as it was asked. *)
Obeys ==
    \/ \E k \in Key : asked' = [add |-> {k}, delete |-> {}] /\ AllKeys(kvs') = AllKeys(kvs) \cup {k}
    \/ \E ks \in SUBSET Key : asked' = [add |-> {}, delete |-> ks] /\ AllKeys(kvs') = AllKeys(kvs) \ ks

(* It was asked to delete the keys of ks, and did so. *)
LEMMA ObeysDelete ==
    ASSUME NEW ks \in SUBSET Key, asked' = [add |-> {}, delete |-> ks], AllKeys(kvs') = AllKeys(kvs) \ ks
    PROVE  Obeys
  BY Zenon DEF Obeys

(* Asked for nothing, it changed no key. *)
LEMMA ObeysNothing ==
    ASSUME AsksNothing, AllKeys(kvs') = AllKeys(kvs)
    PROVE  Obeys
<1>1. asked' = [add |-> {}, delete |-> {}]
  BY Zenon DEF AsksNothing, Asks
<1>2. {} \in SUBSET Key /\ AllKeys(kvs') = AllKeys(kvs) \ {}
  OBVIOUS
<1> QED
  BY <1>1, <1>2, ObeysDelete

(* The store without keys; A : its dicts. *)
EmptyStore(A) ==
    [dicts |-> [i \in Index |-> DictCreate], alloc |-> A, key_count |-> 0, non_empty |-> 0,
     bucket_count |-> 0, index |-> [j \in 1..NumDicts |-> 0], resize_cursor |-> 0]

(* A store without keys is in order. *)
LEMMA EmptyStoreInv ==
    ASSUME NEW A \in SUBSET Index
    PROVE  LET s == EmptyStore(A) IN
           StoreInv(s) /\ AllKeys(s) = {} /\ \A i \in Index : s.dicts[i].pause = 0
<1> DEFINE s == EmptyStore(A)
           e == [i \in Index |-> DictCreate]
           x == [j \in 1..NumDicts |-> 0]
<1>1. \A K : /\ DictInv(DictCreate, K) /\ DictKeys(DictCreate) = {} /\ DictCreate.pause = 0
  BY CreateInv
<1>2. DictCreate \in DictSet
  BY <1>1, BucketsType
<1>3. e \in [Index -> DictSet]
  BY <1>2
<1>4. x \in [1..NumDicts -> Int]
  OBVIOUS
<1>5. \A i \in Index : e[i] = DictCreate
  OBVIOUS
<1>6. 0 \in Index
  BY StoreConstants
<1>7. s = [dicts |-> e, alloc |-> A, key_count |-> 0, non_empty |-> 0,
           bucket_count |-> 0, index |-> x, resize_cursor |-> 0]
  BY Zenon DEF EmptyStore
<1> HIDE DEF s, e, x
<1>8. s \in KvsSet /\ s.dicts = e /\ s.key_count = 0 /\ s.index = x
  <2>1. 0 \in 0..MaxCount
    BY KvstoreAssumption
  <2> QED
    BY <1>3, <1>4, <1>6, <1>7, <2>1 DEF KvsSet
<1>9. \A i \in Index : s.dicts[i] = DictCreate
  BY <1>5, <1>8
<1>10. AllKeys(s) = {}
  BY <1>1, <1>9 DEF AllKeys
<1>11. s.key_count = Cardinality(AllKeys(s))
  BY <1>8, <1>10, FS_EmptySet
<1>12. TreeInv(s)
  <2> SUFFICES ASSUME NEW j \in 1..NumDicts PROVE s.index[j] = CountIn(s, j - LowBit[j], j)
    BY Zenon DEF TreeInv
  <2>1. Part(s, j - LowBit[j], j) = {}
    BY <1>10, Zenon DEF Part
  <2>2. s.index[j] = 0
    BY <1>8 DEF x
  <2> QED
    BY <2>1, <2>2, FS_EmptySet DEF CountIn
<1>14. StoreInv(s)
  BY <1>1, <1>8, <1>9, <1>11, <1>12, Zenon DEF StoreInv
<1>13. \A i \in Index : s.dicts[i].pause = 0
  BY <1>1, <1>9, Zenon
<1> QED
  BY <1>10, <1>13, <1>14 DEF s

(* The invariant holds at first. *)
LEMMA InitInv ==
    ASSUME Init
    PROVE  KvstoreInv /\ AllKeys(kvs) = {}
<1>1. kvs = EmptyStore({}) /\ iter = NoIter /\ misread = {}
  BY Zenon DEF Init, EmptyStore
<1>2. {} \in SUBSET Index
  OBVIOUS
<1>3. StoreInv(kvs) /\ AllKeys(kvs) = {} /\ \A i \in Index : kvs.dicts[i].pause = 0
  BY <1>1, <1>2, EmptyStoreInv
<1>4. Sound(kvs, iter)
  BY <1>1, <1>3, NoIterType, SoundIdle
<1> QED
  BY <1>1, <1>3, <1>4 DEF KvstoreInv

(* The actions, one by one: a key is added, *)
LEMMA AddStep ==
    ASSUME KvstoreInv, NEW k \in Key, Add(k)
    PROVE  KvstoreInv' /\ Obeys /\ Spares(kvs, kvs', {})
<1>1. PICK fits \in Memory : kvs' = KvsAdd(kvs, k, fits)
  BY Zenon DEF Add
<1>2. iter' = iter /\ misread' = misread /\ misread = {} /\ Sound(kvs, iter)
  BY Zenon DEF Add, KvstoreInv
<1>3. Sound(kvs', iter) /\ AllKeys(kvs') = AllKeys(kvs) \cup {k}
  BY <1>1, <1>2, SoundAdd
<1>4. Obeys
  BY <1>3, Zenon DEF Add, Asks, Obeys
<1> QED
  BY <1>2, <1>3, <1>4, Zenon DEF KvstoreInv, Spares

(* looked for, *)
LEMMA FindStep ==
    ASSUME KvstoreInv, NEW k \in Key, Find(k)
    PROVE  KvstoreInv' /\ Obeys /\ Spares(kvs, kvs', {})
<1>1. kvs' = SetDict(kvs, Slot(k), DictFind(kvs.dicts[Slot(k)], k, policy))
  BY Zenon DEF Find
<1>2. iter' = iter /\ misread' = misread /\ misread = {} /\ Sound(kvs, iter)
  BY Zenon DEF Find, KvstoreInv
<1>3. Sound(kvs', iter) /\ AllKeys(kvs') = AllKeys(kvs)
  BY <1>1, <1>2, SoundFind
<1>4. Obeys
  BY <1>3, ObeysNothing DEF Find
<1> QED
  BY <1>2, <1>3, <1>4, Zenon DEF KvstoreInv, Spares

(* deleted. *)
LEMMA DeleteStep ==
    ASSUME KvstoreInv, NEW k \in Key, Delete(k)
    PROVE  KvstoreInv' /\ Obeys /\ Spares(kvs, kvs', {k})
<1> DEFINE d == kvs.dicts[Slot(k)]
           K == Own(Slot(k))
<1>1. PICK c : /\ kvs' = KvsDelete(kvs, k, c)
               /\ \E fits \in Memory : \/ c = DictDelete(d, k, policy, fits)
                                       \/ c = TwoPhaseUnlink(d, k, policy, fits)
  BY Zenon DEF Delete
<1>2. iter' = Lose(iter, {k}) /\ (iter.on => k \in iter.last) /\ misread' = misread
  BY Zenon DEF Delete, Forget, Lose
<1>3. misread = {} /\ Sound(kvs, iter)
  BY Zenon DEF KvstoreInv
<1>4. Slot(k) \in Index
  BY StoreConstants
<1>5. DictInv(d, K) /\ Small(K)
  BY <1>3, <1>4, SoundParts
<1>6. Deletes(d, k, K, c)
  <2> HIDE DEF d, K
  <2>1. ASSUME NEW fits PROVE /\ Deletes(d, k, K, DictDelete(d, k, policy, fits))
                              /\ Deletes(d, k, K, TwoPhaseUnlink(d, k, policy, fits))
    BY <1>5, DeleteKey
  <2> QED
    BY <1>1, <2>1, Zenon
<1>7. Sound(kvs', iter') /\ AllKeys(kvs') = AllKeys(kvs) \ {k}
  BY <1>1, <1>2, <1>3, <1>6, SoundDelete
<1>8. Obeys
  <2>1. {k} \in SUBSET Key /\ asked' = [add |-> {}, delete |-> {k}]
    BY Zenon DEF Delete, Asks
  <2> QED
    BY <1>7, <2>1, ObeysDelete
<1> QED
  BY <1>2, <1>3, <1>7, <1>8, Zenon DEF KvstoreInv, Spares

(* A step without a walk that adds no key. *)
LEMMA IdleStep ==
    ASSUME NEW S \in SUBSET Key, KvstoreInv, ~iter.on, StoreInv(kvs'),
           \A i \in Index : kvs'.dicts[i].pause = kvs.dicts[i].pause,
           iter' = iter, misread' = misread, Asks({}, S), AllKeys(kvs') = AllKeys(kvs) \ S
    PROVE  KvstoreInv' /\ Obeys /\ Spares(kvs, kvs', S)
<1>1. Sound(kvs, iter) /\ misread = {}
  BY Zenon DEF KvstoreInv
<1>2. iter \in IterSet
  BY <1>1, SoundParts
<1>3. Sound(kvs', iter)
  BY <1>1, <1>2, SoundSame
<1>4. Obeys
  BY ObeysDelete DEF Asks
<1> QED
  BY <1>1, <1>3, <1>4, Zenon DEF KvstoreInv, Spares

(* FLUSHALL. *)
LEMMA EmptyStep ==
    ASSUME KvstoreInv, Empty
    PROVE  KvstoreInv' /\ Obeys /\ Spares(kvs, kvs', Key)
<1> DEFINE A == IF FreeEmpty THEN {} ELSE kvs.alloc
<1>1. kvs' = EmptyStore(A)
  BY Zenon DEF Empty, EmptyStore
<1>2. iter' = Lose(iter, Key) /\ misread' = misread /\ ~iter.on
  BY Zenon DEF Empty, Forget, Lose
<1>3. misread = {} /\ Sound(kvs, iter)
  BY Zenon DEF KvstoreInv
<1>4. StoreInv(kvs) /\ iter \in IterSet
  BY <1>3, SoundParts
<1>5. kvs.alloc \in SUBSET Index
  BY <1>4, StoreParts
<1>6. A \in SUBSET Index
  BY <1>5
<1> HIDE DEF A
<1>7. StoreInv(kvs') /\ AllKeys(kvs') = {} /\ \A i \in Index : kvs'.dicts[i].pause = 0
  BY <1>1, <1>6, EmptyStoreInv
<1>8. iter' \in IterSet /\ ~iter'.on
  BY <1>2, <1>4, LoseParts
<1>9. Sound(kvs', iter')
  BY <1>7, <1>8, SoundIdle
<1>10. AllKeys(kvs) \in SUBSET Key
  BY <1>4, StoreParts, FiniteKeys
<1>11. Obeys
  <2>1. Key \in SUBSET Key /\ asked' = [add |-> {}, delete |-> Key] /\ AllKeys(kvs') = AllKeys(kvs) \ Key
    BY <1>7, <1>10, Zenon DEF Empty, Asks
  <2> QED
    BY <2>1, ObeysDelete
<1> QED
  BY <1>2, <1>3, <1>7, <1>9, <1>10, <1>11, Zenon DEF KvstoreInv, Spares

(* kvstoreExpand. *)
LEMMA ExpandStep ==
    ASSUME KvstoreInv, NEW n \in ExpandTo, Expand(n)
    PROVE  KvstoreInv' /\ Obeys /\ Spares(kvs, kvs', {})
<1>1. kvs' = ExpandAll(kvs, n)[NumDicts]
  BY Zenon DEF Expand, ExpandAll, ExpandOne
<1>2. ~iter.on /\ iter' = iter /\ misread' = misread /\ Asks({}, {})
  BY Zenon DEF Expand, AsksNothing
<1>3. Sound(kvs, iter)
  BY Zenon DEF KvstoreInv
<1>4. StoreInv(kvs)
  BY <1>3, SoundParts
<1>5. Keeps(kvs, kvs')
  BY <1>1, <1>4, ExpandAllKeeps
<1>6. /\ StoreInv(kvs') /\ AllKeys(kvs') = AllKeys(kvs) \ {} /\ {} \in SUBSET Key
      /\ \A i \in Index : kvs'.dicts[i].pause = kvs.dicts[i].pause
  BY <1>5, Zenon DEF Keeps
<1> QED
  BY <1>2, <1>6, IdleStep

(* The cron job. *)
LEMMA CronStep ==
    ASSUME KvstoreInv, Cron
    PROVE  KvstoreInv' /\ Obeys /\ Spares(kvs, kvs', {})
<1>1. PICK fits \in Memory : \/ kvs' = Resized(kvs, fits)
                             \/ \E i \in Index : kvs' = Rehashed(Resized(kvs, fits), i)
  BY Zenon DEF Cron
<1>2. ~iter.on /\ iter' = iter /\ misread' = misread /\ Asks({}, {})
  BY Zenon DEF Cron, AsksNothing
<1>3. Sound(kvs, iter)
  BY Zenon DEF KvstoreInv
<1>4. StoreInv(kvs)
  BY <1>3, SoundParts
<1>5. Keeps(kvs, Resized(kvs, fits))
  BY <1>4, ResizedKeeps
<1>6. \A i \in Index : Keeps(kvs, Rehashed(Resized(kvs, fits), i))
  BY <1>5, RehashedKeeps
<1>7. Keeps(kvs, kvs')
  BY <1>1, <1>5, <1>6, Zenon
<1>8. /\ StoreInv(kvs') /\ AllKeys(kvs') = AllKeys(kvs) \ {} /\ {} \in SUBSET Key
      /\ \A i \in Index : kvs'.dicts[i].pause = kvs.dicts[i].pause
  BY <1>7, Zenon DEF Keeps
<1> QED
  BY <1>2, <1>8, IdleStep

(* The scan a call of client c goes on with; the dictScan it makes. *)
Continued(c, only) ==
    IF scan[c].on THEN scan[c]
    ELSE [on |-> TRUE, cursor |-> 0, only |-> only,
          due |-> {k \in AllKeys(kvs) : only = -1 \/ Slot(k) = only}]
Gives(sc) == Scanned(kvs, sc.cursor, sc.only)

(* What the call returns, and what it leaves behind when its callback has  *)
(* deleted the keys of gone.                                               *)
Answers(c, sc, r, gone) ==
    LET v == Returned(kvs', r, sc.cursor, sc.only)
        due == sc.due \ r.keys
    IN  /\ scan' = [b \in Client |->
               IF b # c THEN [scan[b] EXCEPT !.due = @ \ gone]
               ELSE IF v = 0 THEN NoScan
               ELSE [sc EXCEPT !.cursor = v, !.due = due]]
        /\ missed' = IF v = 0 THEN missed \cup due ELSE missed

(* A call of SCAN, with a callback that may delete keys it was given. *)
LEMMA ScanStep ==
    ASSUME KvstoreInv, NEW c \in Client, NEW only \in OnlyDict, ScanCall(c, only)
    PROVE  /\ KvstoreInv' /\ Obeys
           /\ scan[c].on => only = scan[c].only
           /\ \E gone \in SUBSET Gives(Continued(c, only)).keys :
                  /\ Spares(kvs, kvs', gone)
                  /\ Answers(c, Continued(c, only), Gives(Continued(c, only)), gone)
<1> DEFINE sc == Continued(c, only)
           r == Gives(sc)
<1>1. PICK gone \in SUBSET (Key \cap r.keys), fits \in Memory :
          /\ kvs' = AfterScan(kvs, sc.cursor, sc.only, gone, fits)
          /\ Answers(c, sc, r, gone) /\ Asks({}, gone)
  <2>1. PICK gone \in SUBSET (Key \cap r.keys), fits \in Memory :
            LET u == AfterScan(kvs, sc.cursor, sc.only, gone, fits)
                v == Returned(u, r, sc.cursor, sc.only)
                due == sc.due \ r.keys
            IN  /\ kvs' = u
                /\ scan' = [b \in Client |->
                       IF b # c THEN [scan[b] EXCEPT !.due = @ \ gone]
                       ELSE IF v = 0 THEN NoScan
                       ELSE [sc EXCEPT !.cursor = v, !.due = due]]
                /\ missed' = IF v = 0 THEN missed \cup due ELSE missed
                /\ Asks({}, gone)
    BY Zenon DEF ScanCall, Continued, Gives
  <2> HIDE DEF sc, r
  <2>2. Answers(c, sc, r, gone)
    BY <2>1, Zenon DEF Answers
  <2> QED
    BY <2>1, <2>2, Zenon
<1> HIDE DEF sc, r
<1>2. ~iter.on /\ iter' = iter /\ misread' = misread /\ (scan[c].on => only = scan[c].only)
  BY Zenon DEF ScanCall
<1>3. Sound(kvs, iter)
  BY Zenon DEF KvstoreInv
<1>4. StoreInv(kvs) /\ \A j \in Index : kvs.dicts[j].pause = 0
  BY <1>2, <1>3, SoundParts
<1>5. /\ gone \in SUBSET Key /\ Trims(kvs, gone, kvs')
      /\ \/ Past(sc.cursor, sc.only) \/ Position(sc.cursor, sc.only).didx \notin kvs.alloc
         \/ AllKeys(kvs') \cap gone = {}
  <2>1. gone \in SUBSET Key
    OBVIOUS
  <2> QED
    BY <1>1, <1>4, <2>1, StoreScan
<1>6. /\ StoreInv(kvs') /\ AllKeys(kvs') = AllKeys(kvs) \ gone
      /\ \A i \in Index : kvs'.dicts[i].pause = kvs.dicts[i].pause
  <2>1. /\ StoreInv(kvs') /\ AllKeys(kvs') \subseteq AllKeys(kvs) /\ AllKeys(kvs) \ gone \subseteq AllKeys(kvs')
        /\ \A i \in Index : kvs'.dicts[i].pause = kvs.dicts[i].pause
    BY <1>5, Zenon DEF Trims, Spares
  <2>2. CASE Past(sc.cursor, sc.only) \/ Position(sc.cursor, sc.only).didx \notin kvs.alloc
    <3>1. r = [keys |-> {}, cursor |-> 0]
      BY <2>2, Zenon DEF r, Gives, Scanned
    <3>2. gone = {}
      BY <3>1
    <3> QED
      BY <2>1, <3>2, Zenon
  <2>3. CASE AllKeys(kvs') \cap gone = {}
    BY <2>1, <2>3, Zenon
  <2> QED
    BY <1>5, <2>2, <2>3
<1>7. KvstoreInv' /\ Obeys /\ Spares(kvs, kvs', gone)
  BY <1>1, <1>2, <1>5, <1>6, IdleStep
<1>8. gone \in SUBSET r.keys
  OBVIOUS
<1> QED
  BY <1>1, <1>2, <1>7, <1>8, Zenon DEF sc, r

(* A walk begins, *)
LEMMA StartStep ==
    ASSUME KvstoreInv, NEW i \in Index, IterStart(i)
    PROVE  KvstoreInv' /\ Obeys /\ Spares(kvs, kvs', {})
<1>1. /\ ~iter.on /\ i \in kvs.alloc /\ kvs' = kvs /\ misread' = misread
      /\ iter' = [NoIter EXCEPT !.on = TRUE, !.didx = i, !.due = DictKeys(kvs.dicts[i])]
  BY Zenon DEF IterStart
<1>2. Sound(kvs, iter) /\ misread = {}
  BY Zenon DEF KvstoreInv
<1>3. Sound(kvs, iter')
  BY <1>1, <1>2, SoundStart
<1>4. Obeys
  BY <1>1, ObeysNothing DEF IterStart
<1> QED
  BY <1>1, <1>2, <1>3, <1>4, Zenon DEF KvstoreInv, Spares

(* goes on, *)
LEMMA NextStep ==
    ASSUME KvstoreInv, IterNext
    PROVE  KvstoreInv' /\ Obeys /\ Spares(kvs, kvs', {})
<1> DEFINE i == iter.didx
           d == kvs.dicts[i]
           n == Begun(d, iter)
           b == First(Ahead(d, n))
           q == Reach(n, b[1], b[2], d.ht[b[1]][b[2]])
<1>1. Sound(kvs, iter) /\ misread = {}
  BY Zenon DEF KvstoreInv
<1>2. iter.on /\ kvs' = Paused(kvs, iter)
  BY Zenon DEF IterNext
<1>3. /\ iter \in IterSet /\ DictInv(d, Own(i)) /\ Small(Own(i)) /\ WalkInv(d, iter)
  BY <1>1, <1>2, SoundParts
<1>4. \/ \E k \in iter.rest : /\ iter' = Given(iter, k)
                              /\ misread' = IF k \in iter.seen THEN misread \cup {k} ELSE misread
      \/ /\ iter.rest = {} /\ Ahead(d, n) # {}
         /\ \E k \in d.ht[b[1]][b[2]] :
                /\ iter' = Given(q, k)
                /\ misread' = IF k \in q.seen THEN misread \cup {k} ELSE misread
  BY Zenon DEF IterNext, Give, Given, Reach
<1> HIDE DEF d
<1>5. /\ iter' \in IterSet /\ iter'.on = iter.on /\ iter'.didx = iter.didx /\ ~Fresh(iter')
      /\ WalkInv(d, iter') /\ misread' = {}
  <2>1. CASE \E k \in iter.rest : /\ iter' = Given(iter, k)
                                  /\ misread' = IF k \in iter.seen THEN misread \cup {k} ELSE misread
    <3>1. PICK k \in iter.rest : /\ iter' = Given(iter, k)
                                 /\ misread' = IF k \in iter.seen THEN misread \cup {k} ELSE misread
      BY <2>1
    <3>2. /\ WalkInv(d, iter') /\ k \notin iter.seen /\ ~Fresh(iter') /\ k \in Key
      BY <1>3, <3>1, WalkRest
    <3>3. iter' \in IterSet /\ iter'.on = iter.on /\ iter'.didx = iter.didx
      BY <1>3, <3>1, <3>2, GivenParts
    <3> QED
      BY <1>1, <3>1, <3>2, <3>3
  <2>2. CASE /\ iter.rest = {} /\ Ahead(d, n) # {}
             /\ \E k \in d.ht[b[1]][b[2]] :
                    /\ iter' = Given(q, k)
                    /\ misread' = IF k \in q.seen THEN misread \cup {k} ELSE misread
    <3>1. PICK k \in d.ht[b[1]][b[2]] :
                    /\ iter' = Given(q, k)
                    /\ misread' = IF k \in q.seen THEN misread \cup {k} ELSE misread
      BY <2>2
    <3>2. Steps(d, n, k) = Given(q, k)
      BY DEF Steps
    <3>3. /\ WalkInv(d, Steps(d, n, k)) /\ ~Fresh(Steps(d, n, k)) /\ k \notin iter.seen
          /\ Steps(d, n, k) \in IterSet /\ Steps(d, n, k).on = iter.on
          /\ Steps(d, n, k).didx = iter.didx
      <4>1. iter.rest = {} /\ Ahead(d, Begun(d, iter)) # {}
        BY <2>2
      <4>2. k \in d.ht[First(Ahead(d, Begun(d, iter)))[1]][First(Ahead(d, Begun(d, iter)))[2]]
        OBVIOUS
      <4> QED
        BY <1>3, <4>1, <4>2, WalkBucket
    <3>4. n \in IterSet /\ n.seen = iter.seen
      BY <1>3, BegunFacts
    <3>5. q.seen = n.seen
      <4> HIDE DEF n, b
      <4> QED
        BY <3>4 DEF Reach, IterSet
    <3> HIDE DEF q, n, b
    <3> QED
      BY <1>1, <3>1, <3>2, <3>3, <3>4, <3>5
  <2> QED
    BY <1>4, <2>1, <2>2
<1>6. Sound(kvs', iter') /\ AllKeys(kvs') = AllKeys(kvs)
  BY <1>1, <1>2, <1>5, SoundPaused DEF d
<1>7. Obeys
  BY <1>6, ObeysNothing DEF IterNext
<1> QED
  BY <1>5, <1>6, <1>7, Zenon DEF KvstoreInv, Spares

(* and ends. *)
LEMMA ReleaseStep ==
    ASSUME KvstoreInv, IterRelease
    PROVE  KvstoreInv' /\ Obeys /\ Spares(kvs, kvs', {})
<1> DEFINE i == iter.didx
           d == kvs.dicts[i]
           over == iter.rest = {} /\ Ahead(d, Begun(d, iter)) = {}
           begun == iter.index # -1 \/ iter.table # 0
<1>1. Sound(kvs, iter) /\ misread = {}
  BY Zenon DEF KvstoreInv
<1>2. /\ iter.on /\ iter' = NoIter
      /\ kvs' = FreeDictIfNeeded(IF begun THEN Pause(kvs, i, -1) ELSE kvs, i)
      /\ misread' = IF over THEN misread \cup iter.due ELSE misread
  BY Zenon DEF IterRelease
<1>3. iter \in IterSet /\ DictInv(d, Own(i)) /\ WalkInv(d, iter)
  BY <1>1, <1>2, SoundParts
<1>4. Sound(kvs', iter') /\ AllKeys(kvs') = AllKeys(kvs)
  BY <1>1, <1>2, SoundRelease
<1>5. over => iter.due = {}
  <2> HIDE DEF d
  <2> QED
    BY <1>3, WalkOver
<1>6. misread' = {}
  BY <1>1, <1>2, <1>5
<1>7. Obeys
  BY <1>4, ObeysNothing DEF IterRelease
<1> QED
  BY <1>4, <1>6, <1>7, Zenon DEF KvstoreInv, Spares

-----------------------------------------------------------------------------
(* Cursors *)

(* The cursors of kvstoreScan: a cursor of dictScan, and below it a dict. *)
Cursors == 0..(2^(W + Bits) - 1)

(* The bits of both. *)
LEMMA PowSum ==
    ASSUME NEW m \in Nat, NEW n \in Nat
    PROVE  Pow(m + n) = Pow(m) * Pow(n)
<1> DEFINE T == {x \in Nat : Pow(m + x) # Pow(m) * Pow(x)}
<1>1. SUFFICES T = {}
  BY <1>1
<1>2. SUFFICES ASSUME T # {} PROVE FALSE
  OBVIOUS
<1>3. T \in SUBSET Nat
  OBVIOUS
<1> HIDE DEF T
<1>4. PICK x \in T : \A y \in T : x <= y
  BY <1>2, <1>3, NatMin
<1>5. x \in Nat /\ Pow(m + x) # Pow(m) * Pow(x) /\ m + 0 = m
  BY <1>4 DEF T
<1>6. Pow(0) = 1 /\ Pow(m) \in Nat
  BY LowNone, PowPositive
<1>7. x # 0
  BY <1>5, <1>6
<1>8. x - 1 \in Nat /\ m + (x - 1) \in Nat /\ (x - 1) + 1 = x /\ (m + (x - 1)) + 1 = m + x
  BY <1>5, <1>7
<1>9. x - 1 \notin T
  BY <1>4, <1>8
<1>10. Pow(m + (x - 1)) = Pow(m) * Pow(x - 1)
  BY <1>8, <1>9 DEF T
<1>11. Pow(x) = 2 * Pow(x - 1) /\ Pow(m + x) = 2 * Pow(m + (x - 1)) /\ Pow(x - 1) \in Nat
  BY <1>8, PowNext, PowPositive
<1>12. Pow(m) * (2 * Pow(x - 1)) = 2 * (Pow(m) * Pow(x - 1))
  BY <1>6, <1>11
<1> QED
  BY <1>5, <1>10, <1>11, <1>12

(* A quotient below the bound. *)
LEMMA QuotientBound ==
    ASSUME NEW q \in Nat, NEW p \in Nat, NEW m \in Nat, p >= 1, p * q < p * m
    PROVE  q < m
<1>1. SUFFICES ASSUME m <= q PROVE p * m <= p * q
  BY <1>1
<1>2. PICK e \in Nat : q = m + e
  <2>1. q - m \in Nat /\ q = m + (q - m)
    BY <1>1
  <2> QED
    BY <2>1
<1>3. p * (m + e) = p * m + p * e /\ p * e \in Nat /\ p * m \in Nat
  OBVIOUS
<1> QED
  BY <1>2, <1>3

(* A product that is not too large. *)
LEMMA ProductBound ==
    ASSUME NEW c \in Nat, NEW m \in Nat, NEW p \in Nat, c < m, NEW j \in Nat, j < p
    PROVE  p * c + j < p * m
<1>1. PICK e \in Nat : m = c + 1 + e
  <2>1. m - c - 1 \in Nat /\ m = c + 1 + (m - c - 1)
    OBVIOUS
  <2> QED
    BY <2>1
<1>2. p * (c + 1 + e) = p * c + p + p * e /\ p * e \in Nat /\ p * c \in Nat
  OBVIOUS
<1> QED
  BY <1>1, <1>2

(* A cursor is taken apart, *)
LEMMA CursorParts ==
    ASSUME NEW v \in Cursors
    PROVE  v \in Nat /\ v % NumDicts \in Index /\ v \div NumDicts \in Word
<1>1. W \in Nat /\ Bits \in Nat /\ NumDicts = Pow(Bits) /\ NumDicts \in Nat /\ NumDicts >= 1
  BY Constants, NumPow
<1>2. Pow(W + Bits) = NumDicts * Pow(W) /\ Pow(W) \in Nat
  <2>1. Pow(W) \in Nat
    BY <1>1, PowPositive
  <2> QED
    BY <1>1, <2>1, PowSum
<1>3. v \in Nat /\ v < NumDicts * Pow(W)
  <2>1. Cursors = 0..(Pow(W + Bits) - 1)
    BY Zenon DEF Cursors, Pow
  <2>2. NumDicts * Pow(W) \in Nat
    BY <1>1, <1>2
  <2> QED
    BY <1>2, <2>1, <2>2
<1>4. /\ v \div NumDicts \in Nat /\ v % NumDicts \in 0..(NumDicts - 1)
      /\ v = NumDicts * (v \div NumDicts) + (v % NumDicts)
  BY <1>1, <1>3, DivMod
<1> DEFINE q == v \div NumDicts
<1> HIDE DEF q
<1>5. q \in Nat /\ NumDicts * q < NumDicts * Pow(W)
  <2>1. q \in Nat /\ v % NumDicts \in Nat /\ v = NumDicts * q + (v % NumDicts)
    BY <1>1, <1>4 DEF q
  <2>2. NumDicts * q \in Nat /\ NumDicts * Pow(W) \in Nat
    BY <1>1, <1>2, <2>1
  <2> QED
    BY <1>3, <2>1, <2>2
<1>6. q < Pow(W)
  BY <1>1, <1>2, <1>5, QuotientBound
<1>7. q \in Word
  BY <1>2, <1>5, <1>6 DEF Word
<1> QED
  BY <1>3, <1>4, <1>7 DEF q, Index

(* and put together. *)
LEMMA CursorMake ==
    ASSUME NEW c \in Word, NEW j \in Index
    PROVE  LET v == c * NumDicts + j IN
           /\ v \in Cursors /\ v % NumDicts = j /\ v \div NumDicts = c
           /\ (c # 0 \/ j # 0 => v # 0)
<1> DEFINE v == c * NumDicts + j
<1>1. W \in Nat /\ Bits \in Nat /\ NumDicts = Pow(Bits) /\ NumDicts \in Nat /\ NumDicts >= 1
  BY Constants, NumPow
<1>2. Pow(W + Bits) = NumDicts * Pow(W) /\ Pow(W) \in Nat
  <2>1. Pow(W) \in Nat
    BY <1>1, PowPositive
  <2> QED
    BY <1>1, <2>1, PowSum
<1>3. c \in Nat /\ c < Pow(W) /\ j \in Nat /\ j < NumDicts /\ j \in 0..(NumDicts - 1)
  BY <1>1, <1>2 DEF Word, Index
<1>4. v = NumDicts * c + j /\ v \in Nat
  BY <1>1, <1>3
<1>5. v < NumDicts * Pow(W)
  BY <1>1, <1>2, <1>3, <1>4, ProductBound
<1> HIDE DEF v
<1>6. v \in Cursors
  <2>1. Cursors = 0..(Pow(W + Bits) - 1)
    BY Zenon DEF Cursors, Pow
  <2>2. NumDicts * Pow(W) \in Nat
    BY <1>1, <1>2
  <2> QED
    BY <1>2, <1>4, <1>5, <2>1, <2>2
<1>7. v % NumDicts = j
  BY <1>1, <1>3, <1>4, ModUnique
<1> DEFINE q == v \div NumDicts
<1> HIDE DEF q
<1>8. q \in Nat /\ v = NumDicts * q + j
  <2>1. v \div NumDicts \in Nat /\ v = NumDicts * (v \div NumDicts) + (v % NumDicts)
    BY <1>1, <1>4, DivMod
  <2> QED
    BY <1>7, <2>1, Zenon DEF q
<1>9. q = c
  <2>1. NumDicts * q = NumDicts * c
    <3>1. NumDicts * q \in Nat /\ NumDicts * c \in Nat
      BY <1>1, <1>3, <1>8
    <3>2. \A a \in Nat, b \in Nat : a + j = b + j => a = b
      BY <1>3
    <3>3. NumDicts * q + j = NumDicts * c + j
      BY <1>4, <1>8, Zenon
    <3> QED
      BY <3>1, <3>2, <3>3, Zenon
  <2>2. ~(q < c)
    <3>1. ASSUME q < c PROVE NumDicts * q + 0 < NumDicts * c
      BY <1>1, <1>3, <1>8, <3>1, ProductBound
    <3> QED
      BY <1>1, <1>3, <1>8, <2>1, <3>1
  <2>3. ~(c < q)
    <3>1. ASSUME c < q PROVE NumDicts * c + 0 < NumDicts * q
      BY <1>1, <1>3, <1>8, <3>1, ProductBound
    <3> QED
      BY <1>1, <1>3, <1>8, <2>1, <3>1
  <2> QED
    BY <1>3, <1>8, <2>2, <2>3
<1>10. c # 0 \/ j # 0 => v # 0
  <2>1. CASE j # 0
    <3>1. NumDicts * c \in Nat
      BY <1>1, <1>3
    <3> QED
      BY <1>3, <1>4, <2>1, <3>1
  <2>2. CASE c # 0
    <3>1. 0 < c /\ 0 \in Nat /\ 0 < NumDicts
      BY <1>1, <1>3, <2>2
    <3>2. NumDicts * 0 + 0 < NumDicts * c
      BY <1>1, <1>3, <3>1, ProductBound
    <3>3. NumDicts * c \in Nat /\ NumDicts * 0 = 0
      BY <1>1, <1>3
    <3> QED
      BY <1>3, <1>4, <3>2, <3>3
  <2> QED
    BY <2>1, <2>2
<1> QED
  BY <1>6, <1>7, <1>9, <1>10 DEF v, q

(* Key k is owed by a scan of dict only, or of all, that stands at v: its  *)
(* dict is still to come, or v has not passed it in that dict.             *)
Owed(v, only, k) ==
    /\ only = -1 \/ Slot(k) = only
    /\ \/ Slot(k) > v % NumDicts
       \/ Slot(k) = v % NumDicts /\ Rev[Hash(k)] >= Rev[v \div NumDicts]

(* A cursor comes after another. *)
LEMMA OrderLater ==
    ASSUME NEW v \in Cursors, NEW n \in Cursors,
           \/ n % NumDicts > v % NumDicts
           \/ n % NumDicts = v % NumDicts /\ Rev[n \div NumDicts] > Rev[v \div NumDicts]
    PROVE  Order(n) > Order(v)
<1> DEFINE i == v % NumDicts
           j == n % NumDicts
           a == Rev[v \div NumDicts]
           b == Rev[n \div NumDicts]
<1>1. i \in Index /\ j \in Index /\ a \in Word /\ b \in Word
  BY CursorParts, RevRev
<1>2. Order(v) = i * Pow(W) + a /\ Order(n) = j * Pow(W) + b
  BY Zenon DEF Order, Pow
<1>3. i > j \/ i = j \/ j > i
  BY <1>1, StoreConstants DEF Index
<1>4. j > i \/ (j = i /\ b > a)
  BY <1>1
<1> HIDE DEF i, j, a, b
<1>5. Pow(W) \in Nat /\ i \in Nat /\ j \in Nat
  BY <1>1, Constants, PowPositive, StoreConstants
<1>6. a \in Nat /\ b \in Nat /\ a < Pow(W)
  BY <1>1, <1>5 DEF Word
<1>7. i * Pow(W) = Pow(W) * i /\ j * Pow(W) = Pow(W) * j /\ Pow(W) * i \in Nat /\ Pow(W) * j \in Nat
  BY <1>5
<1>8. CASE j > i
  <2>1. Pow(W) * i + a < Pow(W) * j
    BY <1>5, <1>6, <1>8, ProductBound
  <2> QED
    BY <1>2, <1>6, <1>7, <2>1
<1>9. CASE j = i /\ b > a
  BY <1>2, <1>6, <1>7, <1>9
<1> QED
  BY <1>4, <1>8, <1>9

(* The dicts a scan may be restricted to. *)
LEMMA OnlyType ==
    ASSUME NEW only \in OnlyDict
    PROVE  only = -1 \/ (only \in Index /\ only \in Nat)
<1>1. only = -1 \/ only \in Index
  BY KvstoreAssumption
<1> QED
  BY <1>1, StoreConstants

(* The dict a call falls in. *)
LEMMA PositionIs ==
    ASSUME NEW v \in Cursors, NEW only \in OnlyDict, ~Past(v, only)
    PROVE  LET p == Position(v, only) IN
           /\ p.didx \in Index /\ p.v \in Word
           /\ only = -1 \/ p.didx = only
           /\ \/ p.didx = v % NumDicts /\ p.v = v \div NumDicts
              \/ p.didx > v % NumDicts /\ p.v = 0
<1>1. only = -1 \/ (only \in Index /\ only \in Nat)
  BY OnlyType
<1>2. v % NumDicts \in Index /\ v \div NumDicts \in Word /\ v % NumDicts \in Nat
  BY CursorParts, StoreConstants
<1>3. 0 \in Word
  BY RevZero
<1>4. ~(only >= 0 /\ v % NumDicts > only)
  BY Zenon DEF Past
<1> DEFINE i == v % NumDicts
           q == v \div NumDicts
<1> HIDE DEF i, q
<1>5. Position(v, only) = IF only >= 0 /\ i < only THEN [didx |-> only, v |-> 0] ELSE [didx |-> i, v |-> q]
  BY Zenon DEF Position, i, q
<1>6. i \in Index /\ i \in Nat /\ q \in Word /\ ~(only >= 0 /\ i > only)
  BY <1>2, <1>4, Zenon DEF i, q
<1>7. /\ Position(v, only).didx \in Index /\ Position(v, only).v \in Word
      /\ only = -1 \/ Position(v, only).didx = only
      /\ \/ Position(v, only).didx = i /\ Position(v, only).v = q
         \/ Position(v, only).didx > i /\ Position(v, only).v = 0
  <2>1. CASE only >= 0 /\ i < only
    BY <1>1, <1>3, <1>5, <1>6, <2>1
  <2>2. CASE ~(only >= 0 /\ i < only)
    <3>1. Position(v, only).didx = i /\ Position(v, only).v = q
      BY <1>5, <2>2
    <3>2. only = -1 \/ i = only
      BY <1>1, <1>6, <2>2
    <3> QED
      BY <1>6, <3>1, <3>2
  <2> QED
    BY <2>1, <2>2
<1> QED
  BY <1>7, Zenon DEF i, q

(* What is owed, of the keys that are not given by this call: keys of      *)
(* dicts to come, and in this one keys the cursor of dictScan has not      *)
(* passed.                                                                 *)
LEMMA ScannedIs ==
    ASSUME NEW s, StoreInv(s), NEW v \in Cursors, NEW only \in OnlyDict, ~Past(v, only)
    PROVE  LET p == Position(v, only)
               r == Scanned(s, v, only)
           IN  /\ r.cursor \in Word /\ (r.cursor # 0 => Rev[r.cursor] > Rev[p.v])
               /\ \A k \in AllKeys(s) : Owed(v, only, k) /\ k \notin r.keys =>
                      \/ Slot(k) > p.didx
                      \/ Slot(k) = p.didx /\ r.cursor # 0 /\ Rev[Hash(k)] >= Rev[r.cursor]
<1> DEFINE p == Position(v, only)
           r == Scanned(s, v, only)
           i == v % NumDicts
<1>1. /\ p.didx \in Index /\ p.v \in Word
      /\ only = -1 \/ p.didx = only
      /\ \/ p.didx = i /\ p.v = v \div NumDicts
         \/ p.didx > i /\ p.v = 0
  BY PositionIs
<1>2. r = IF p.didx \notin s.alloc THEN [keys |-> {}, cursor |-> 0] ELSE DictScan(s.dicts[p.didx], p.v)
  BY Zenon DEF Scanned
<1>3. i \in Index
  BY CursorParts
<1>4. \A k \in AllKeys(s) : Owed(v, only, k) =>
          /\ only = -1 \/ Slot(k) = only
          /\ Slot(k) > i \/ (Slot(k) = i /\ Rev[Hash(k)] >= Rev[v \div NumDicts])
  BY Zenon DEF Owed
<1> HIDE DEF p, r, i
<1>5. DictsInv(s) /\ \A j \in Index : DictInv(s.dicts[j], Own(j))
  BY StoreParts
<1>6. \A k \in AllKeys(s) : /\ k \in Key /\ k \in DictKeys(s.dicts[Slot(k)]) /\ Slot(k) \in Nat
                            /\ Hash(k) \in Word /\ Rev[Hash(k)] \in Word
  <2> SUFFICES ASSUME NEW k \in AllKeys(s)
               PROVE  /\ k \in Key /\ k \in DictKeys(s.dicts[Slot(k)]) /\ Slot(k) \in Nat
                      /\ Hash(k) \in Word /\ Rev[Hash(k)] \in Word
    OBVIOUS
  <2>1. k \in Key /\ k \in DictKeys(s.dicts[Slot(k)])
    BY <1>5, InKeys
  <2>2. Slot(k) \in Nat
    BY <2>1, StoreConstants
  <2>3. Hash(k) \in Word
    BY <2>1, HashWord
  <2> QED
    BY <2>1, <2>2, <2>3, RevRev
<1>7. i \in Nat /\ p.didx \in Nat
  BY <1>1, <1>3, StoreConstants
<1>8. \A k \in AllKeys(s) : Owed(v, only, k) =>
          Slot(k) > p.didx \/ (Slot(k) = p.didx /\ Rev[Hash(k)] >= Rev[p.v])
  <2> SUFFICES ASSUME NEW k \in AllKeys(s), Owed(v, only, k)
               PROVE  Slot(k) > p.didx \/ (Slot(k) = p.didx /\ Rev[Hash(k)] >= Rev[p.v])
    OBVIOUS
  <2>1. CASE p.didx = i /\ p.v = v \div NumDicts
    BY <1>4, <2>1
  <2>2. CASE p.didx > i /\ p.v = 0
    <3>1. Rev[p.v] = 0
      BY <2>2, RevZero
    <3>2. Rev[Hash(k)] \in Nat /\ Rev[Hash(k)] >= 0
      <4>1. Rev[Hash(k)] \in Word /\ Pow(W) \in Nat
        BY <1>6, Constants, PowPositive
      <4> QED
        BY <4>1 DEF Word
    <3>3. only # -1
      <4>1. SUFFICES ASSUME only = -1 PROVE FALSE
        OBVIOUS
      <4>2. p = [didx |-> i, v |-> v \div NumDicts]
        BY <4>1 DEF p, i, Position
      <4> QED
        BY <1>7, <2>2, <4>2
    <3>4. Slot(k) = p.didx
      BY <1>1, <1>4, <3>3
    <3> QED
      BY <3>1, <3>2, <3>4
  <2> QED
    BY <1>1, <2>1, <2>2
<1>9. CASE p.didx \notin s.alloc
  <2>1. r.cursor = 0 /\ r.cursor \in Word
    BY <1>2, <1>9, RevZero
  <2>2. DictKeys(s.dicts[p.didx]) = {}
    BY <1>1, <1>9, StoreParts
  <2>3. \A k \in AllKeys(s) : Slot(k) # p.didx
    BY <1>6, <2>2, Zenon
  <2>4. \A k \in AllKeys(s) : Owed(v, only, k) => Slot(k) > p.didx
    BY <1>8, <2>3, Zenon
  <2> QED
    BY <2>1, <2>4, Zenon DEF p, r
<1>10. CASE p.didx \in s.alloc
  <2>1. r = DictScan(s.dicts[p.didx], p.v)
    BY <1>2, <1>10
  <2>2. DictInv(s.dicts[p.didx], Own(p.didx)) /\ Small(Own(p.didx))
    BY <1>1, <1>5, StoreConstants
  <2>3. Scans(s.dicts[p.didx], p.v, r)
    BY <1>1, <2>1, <2>2, DictScanIs
  <2>4. /\ r.cursor \in Word /\ (r.cursor # 0 => Rev[r.cursor] > Rev[p.v])
        /\ \A k \in DictKeys(s.dicts[p.didx]) :
               Rev[Hash(k)] >= Rev[p.v] => k \in r.keys \/ (r.cursor # 0 /\ Rev[Hash(k)] >= Rev[r.cursor])
    BY <2>3, Zenon DEF Scans
  <2>5. ASSUME NEW k \in AllKeys(s), Owed(v, only, k), k \notin r.keys
        PROVE  \/ Slot(k) > p.didx
               \/ Slot(k) = p.didx /\ r.cursor # 0 /\ Rev[Hash(k)] >= Rev[r.cursor]
    <3>1. Slot(k) > p.didx \/ (Slot(k) = p.didx /\ Rev[Hash(k)] >= Rev[p.v])
      BY <1>8, <2>5
    <3>2. Slot(k) = p.didx => k \in DictKeys(s.dicts[p.didx])
      BY <1>6, Zenon
    <3> QED
      BY <2>4, <2>5, <3>1, <3>2, Zenon
  <2> QED
    BY <2>4, <2>5, Zenon DEF p, r
<1> QED
  BY <1>9, <1>10

(* The cursor kvstoreScan returns passes over no key that is still there,  *)
(* and comes after the one it was given; with 0 nothing is owed.           *)
LEMMA ReturnedIs ==
    ASSUME NEW s, StoreInv(s), NEW t, StoreInv(t), NEW v \in Cursors, NEW only \in OnlyDict
    PROVE  LET r == Scanned(s, v, only)
               n == Returned(t, r, v, only)
           IN  /\ n \in Cursors /\ (n = 0 \/ Order(n) > Order(v))
               /\ \A k \in AllKeys(s) : k \in AllKeys(t) /\ k \notin r.keys /\ Owed(v, only, k) =>
                      n # 0 /\ Owed(n, only, k)
<1> DEFINE p == Position(v, only)
           r == Scanned(s, v, only)
           i == p.didx
           next == IF r.cursor # 0 THEN i ELSE NextNonEmpty(t, i)
           n == Returned(t, r, v, only)
           m == r.cursor * NumDicts + next
<1>1. n = IF Past(v, only) \/ (r.cursor = 0 /\ only >= 0) \/ next = -1 THEN 0 ELSE m
  BY Zenon DEF Returned
<1>2. 0 \in Cursors /\ NumDicts \in Nat
  <2>1. 0 \in Word /\ 0 \in Index /\ NumDicts \in Nat
    BY RevZero, StoreConstants
  <2>2. 0 * NumDicts + 0 \in Cursors
    BY <2>1, CursorMake
  <2> QED
    BY <2>1, <2>2
<1>3. v % NumDicts \in Index /\ v \div NumDicts \in Word /\ v % NumDicts \in Nat
  BY CursorParts, StoreConstants
<1>4. \A k \in AllKeys(s) : k \in Key /\ Slot(k) \in Nat /\ Rev[Hash(k)] \in Nat
  <2>1. ASSUME NEW k \in AllKeys(s) PROVE k \in Key /\ Slot(k) \in Nat /\ Rev[Hash(k)] \in Nat
    <3>1. k \in Key
      BY StoreParts, InKeys
    <3>2. Slot(k) \in Nat
      BY <3>1, StoreConstants
    <3>3. Rev[Hash(k)] \in Word /\ Pow(W) \in Nat
      BY <3>1, HashWord, RevRev, Constants, PowPositive
    <3> QED
      BY <3>1, <3>2, <3>3 DEF Word
  <2> QED
    BY <2>1, Zenon
<1>5. CASE Past(v, only)
  <2>1. n = 0 /\ only >= 0 /\ v % NumDicts > only
    BY <1>1, <1>5, Zenon DEF Past
  <2>2. ASSUME NEW k \in AllKeys(s), Owed(v, only, k) PROVE FALSE
    <3>1. /\ only = -1 \/ Slot(k) = only
          /\ Slot(k) > v % NumDicts \/ Slot(k) = v % NumDicts
      BY <2>2, Zenon DEF Owed
    <3>2. only \in Nat
      BY <2>1, OnlyType
    <3> HIDE DEF n
    <3> QED
      BY <1>3, <2>1, <3>1, <3>2
  <2> QED
    BY <1>2, <2>1, <2>2, Zenon
<1>6. CASE ~Past(v, only)
  <2>1. /\ i \in Index /\ p.v \in Word
        /\ only = -1 \/ i = only
        /\ \/ i = v % NumDicts /\ p.v = v \div NumDicts
           \/ i > v % NumDicts /\ p.v = 0
    BY <1>6, PositionIs
  <2>2. /\ r.cursor \in Word /\ (r.cursor # 0 => Rev[r.cursor] > Rev[p.v])
        /\ \A k \in AllKeys(s) : Owed(v, only, k) /\ k \notin r.keys =>
               \/ Slot(k) > i
               \/ Slot(k) = i /\ r.cursor # 0 /\ Rev[Hash(k)] >= Rev[r.cursor]
    BY <1>6, ScannedIs
  <2>3. n = IF (r.cursor = 0 /\ only >= 0) \/ next = -1 THEN 0 ELSE m
    BY <1>1, <1>6, Zenon
  <2>4. i \in Nat
    BY <2>1, StoreConstants
  <2> HIDE DEF p, r, n
  <2>5. \A k \in AllKeys(s) : \A u : Owed(v, only, k) /\
            (Slot(k) > u % NumDicts \/ (Slot(k) = u % NumDicts /\ Rev[Hash(k)] >= Rev[u \div NumDicts]))
            => Owed(u, only, k)
    BY Zenon DEF Owed
  <2>6. CASE r.cursor # 0
    <3>1. next = i /\ next # -1
      BY <2>4, <2>6
    <3>2. n = r.cursor * NumDicts + i
      BY <2>3, <2>6, <3>1
    <3>3. n \in Cursors /\ n % NumDicts = i /\ n \div NumDicts = r.cursor /\ n # 0
      BY <2>1, <2>2, <2>6, <3>2, CursorMake
    <3>4. \/ n % NumDicts > v % NumDicts
          \/ n % NumDicts = v % NumDicts /\ Rev[n \div NumDicts] > Rev[v \div NumDicts]
      BY <2>1, <2>2, <2>6, <3>3
    <3>5. Order(n) > Order(v)
      BY <3>3, <3>4, OrderLater
    <3>6. ASSUME NEW k \in AllKeys(s), k \notin r.keys, Owed(v, only, k) PROVE Owed(n, only, k)
      <4>1. Slot(k) > n % NumDicts \/ (Slot(k) = n % NumDicts /\ Rev[Hash(k)] >= Rev[n \div NumDicts])
        BY <2>2, <3>3, <3>6, Zenon
      <4> QED
        BY <2>5, <3>6, <4>1, Zenon
    <3> QED
      BY <3>3, <3>5, <3>6, Zenon DEF n, r
  <2>7. CASE r.cursor = 0 /\ only >= 0
    <3>1. n = 0
      BY <2>3, <2>7
    <3>2. only = i
      BY <2>1, <2>7
    <3>3. ASSUME NEW k \in AllKeys(s), k \notin r.keys, Owed(v, only, k) PROVE FALSE
      <4>1. Slot(k) > i
        BY <2>2, <2>7, <3>3, Zenon
      <4>2. Slot(k) = i
        BY <2>7, <3>2, <3>3, <2>4 DEF Owed
      <4> QED
        BY <2>4, <4>1, <4>2
    <3> QED
      BY <1>2, <3>1, <3>3, Zenon DEF n, r
  <2>8. CASE r.cursor = 0 /\ ~(only >= 0)
    <3>1. next = NextNonEmpty(t, i)
      BY <2>8
    <3>2. /\ DictsInv(t) /\ TreeInv(t) /\ t.key_count = Cardinality(AllKeys(t))
      BY StoreParts
    <3>3. \/ /\ next = -1
             /\ \A k \in AllKeys(t) : Slot(k) <= i
          \/ /\ next \in Index /\ next > i
             /\ \A k \in AllKeys(t) : Slot(k) <= i \/ Slot(k) >= next
      BY <2>1, <3>1, <3>2, NextNonEmptyIs
    <3> HIDE DEF next
    <3>4. ASSUME NEW k \in AllKeys(s), k \notin r.keys, Owed(v, only, k) PROVE Slot(k) > i
      BY <2>2, <2>8, <3>4, Zenon
    <3>5. CASE next = -1 /\ \A k \in AllKeys(t) : Slot(k) <= i
      <4>1. n = 0
        BY <2>3, <3>5
      <4>2. ASSUME NEW k \in AllKeys(s), k \notin r.keys, Owed(v, only, k), k \in AllKeys(t) PROVE FALSE
        <5>1. Slot(k) > i /\ Slot(k) <= i /\ Slot(k) \in Nat
          BY <1>4, <3>4, <3>5, <4>2
        <5> QED
          BY <2>4, <5>1
      <4> QED
        BY <1>2, <4>1, <4>2, Zenon DEF n, r
    <3>6. CASE /\ next \in Index /\ next > i
               /\ \A k \in AllKeys(t) : Slot(k) <= i \/ Slot(k) >= next
      <4>1. next \in Nat /\ next # -1 /\ next # 0
        <5>1. next \in Nat
          BY <3>6, StoreConstants
        <5> QED
          BY <2>4, <3>6, <5>1
      <4>2. n = 0 * NumDicts + next
        BY <2>3, <2>8, <4>1
      <4>3. n \in Cursors /\ n % NumDicts = next /\ n \div NumDicts = 0 /\ n # 0
        BY <3>6, <4>1, <4>2, RevZero, CursorMake
      <4>4. next > v % NumDicts
        BY <1>3, <2>1, <2>4, <3>6, <4>1
      <4>5. Order(n) > Order(v)
        BY <4>3, <4>4, OrderLater
      <4>6. ASSUME NEW k \in AllKeys(s), k \notin r.keys, Owed(v, only, k), k \in AllKeys(t)
            PROVE  Owed(n, only, k)
        <5>1. Slot(k) >= next
          <6>1. Slot(k) > i /\ (Slot(k) <= i \/ Slot(k) >= next) /\ Slot(k) \in Nat
            BY <1>4, <3>4, <3>6, <4>6
          <6> QED
            BY <2>4, <6>1
        <5>2. Slot(k) > n % NumDicts \/ Slot(k) = n % NumDicts
          BY <1>4, <4>1, <4>3, <5>1
        <5>3. Rev[Hash(k)] >= Rev[n \div NumDicts]
          BY <1>4, <4>3, RevZero
        <5> QED
          BY <2>5, <4>6, <5>2, <5>3, Zenon
      <4> QED
        BY <4>3, <4>5, <4>6, Zenon DEF n, r
    <3> QED
      BY <3>3, <3>5, <3>6
  <2> QED
    BY <2>6, <2>7, <2>8
<1> QED
  BY <1>5, <1>6

-----------------------------------------------------------------------------
(* Scans *)

(* The scans, by type. *)
ScanSet == [on : BOOLEAN, cursor : Cursors, only : OnlyDict, due : SUBSET Key]

(* The keys a scan has still to return are there, and owed. *)
DueInv(s, sc) == sc.on => \A k \in sc.due : k \in AllKeys(s) /\ Owed(sc.cursor, sc.only, k)

(* The inductive invariant, of the scans. *)
ScanInv ==
    /\ policy \in Policy
    /\ scan \in [Client -> ScanSet]
    /\ \A c \in Client : DueInv(kvs, scan[c])
    /\ missed = {}

(* No scan. *)
LEMMA NoScanType == NoScan \in ScanSet /\ ~NoScan.on
<1>1. 0 \in Cursors
  <2>1. 0 \in Word /\ 0 \in Index /\ NumDicts \in Nat
    BY RevZero, StoreConstants
  <2>2. 0 * NumDicts + 0 \in Cursors
    BY <2>1, CursorMake
  <2> QED
    BY <2>1, <2>2
<1>2. -1 \in OnlyDict
  BY KvstoreAssumption
<1> QED
  BY <1>1, <1>2 DEF NoScan, ScanSet

(* A scan owes the keys that stay. *)
LEMMA DueKeeps ==
    ASSUME NEW s, NEW t, NEW S, Spares(s, t, S), NEW sc \in ScanSet, DueInv(s, sc)
    PROVE  LET d == [sc EXCEPT !.due = @ \ S] IN d \in ScanSet /\ DueInv(t, d)
<1> DEFINE d == [sc EXCEPT !.due = @ \ S]
<1>1. d \in ScanSet /\ d.on = sc.on /\ d.cursor = sc.cursor /\ d.only = sc.only /\ d.due = sc.due \ S
  BY DEF ScanSet
<1> HIDE DEF d
<1>2. DueInv(t, d)
  BY <1>1, Zenon DEF DueInv, Spares
<1> QED
  BY <1>1, <1>2, Zenon DEF d

(* With no key deleted it stays as it is. *)
LEMMA DueStays ==
    ASSUME NEW s, NEW t, Spares(s, t, {}), NEW sc, DueInv(s, sc)
    PROVE  DueInv(t, sc)
BY Zenon DEF DueInv, Spares

(* A scan that begins, or goes on. *)
LEMMA ContinuedIs ==
    ASSUME StoreInv(kvs), ScanInv, NEW c \in Client, NEW only \in OnlyDict
    PROVE  Continued(c, only) \in ScanSet /\ DueInv(kvs, Continued(c, only)) /\ Continued(c, only).on
<1> DEFINE sc == Continued(c, only)
           D == {k \in AllKeys(kvs) : only = -1 \/ Slot(k) = only}
<1>1. scan[c] \in ScanSet /\ DueInv(kvs, scan[c])
  BY DEF ScanInv
<1>2. CASE scan[c].on
  BY <1>1, <1>2 DEF Continued
<1>3. CASE ~scan[c].on
  <2>1. sc = [on |-> TRUE, cursor |-> 0, only |-> only, due |-> D]
    BY <1>3, Zenon DEF Continued
  <2>2. D \in SUBSET Key
    BY StoreParts, FiniteKeys
  <2>3. 0 \in Cursors
    <3>1. NoScan.cursor \in Cursors /\ NoScan.cursor = 0
      BY NoScanType DEF ScanSet, NoScan
    <3> QED
      BY <3>1
  <2>4. 0 % NumDicts = 0 /\ 0 \div NumDicts = 0
    <3>1. 0 \in Word /\ 0 \in Index /\ NumDicts \in Nat
      BY RevZero, StoreConstants
    <3>2. 0 * NumDicts + 0 = 0
      BY <3>1
    <3> QED
      BY <3>1, <3>2, CursorMake
  <2> HIDE DEF sc, D
  <2>5. sc \in ScanSet /\ sc.on /\ sc.cursor = 0 /\ sc.only = only /\ sc.due = D
    BY <2>1, <2>2, <2>3 DEF ScanSet
  <2>6. ASSUME NEW k \in D PROVE k \in AllKeys(kvs) /\ Owed(0, only, k)
    <3>1. k \in AllKeys(kvs) /\ (only = -1 \/ Slot(k) = only)
      BY DEF D
    <3>2. k \in Key /\ Slot(k) \in Nat
      BY <3>1, StoreParts, InKeys, StoreConstants
    <3>3. Rev[Hash(k)] \in Nat
      <4>1. Rev[Hash(k)] \in Word /\ Pow(W) \in Nat
        BY <3>2, HashWord, RevRev, Constants, PowPositive
      <4> QED
        BY <4>1 DEF Word
    <3>4. Slot(k) > 0 \/ (Slot(k) = 0 /\ Rev[Hash(k)] >= Rev[0])
      BY <3>2, <3>3, RevZero
    <3> QED
      BY <2>4, <3>1, <3>4, Zenon DEF Owed
  <2>7. DueInv(kvs, sc)
    BY <2>5, <2>6, Zenon DEF DueInv
  <2> QED
    BY <2>5, <2>7, Zenon DEF sc
<1> QED
  BY <1>2, <1>3

(* A step that leaves the scans alone. *)
LEMMA ScansStay ==
    ASSUME ScanInv, Spares(kvs, kvs', {}), scan' = scan, missed' = missed, policy' \in Policy
    PROVE  ScanInv'
<1>1. \A c \in Client : DueInv(kvs, scan[c])
  BY Zenon DEF ScanInv
<1>2. \A c \in Client : DueInv(kvs', scan[c])
  BY <1>1, DueStays
<1> QED
  BY <1>2, Zenon DEF ScanInv

(* A step that deletes keys. *)
LEMMA ScansForget ==
    ASSUME NEW S, ScanInv, Spares(kvs, kvs', S), Forget(S), missed' = missed, policy' = policy
    PROVE  ScanInv'
<1>1. scan' = [c \in Client |-> [scan[c] EXCEPT !.due = @ \ S]]
  BY Zenon DEF Forget
<1>2. scan \in [Client -> ScanSet] /\ \A c \in Client : DueInv(kvs, scan[c])
  BY Zenon DEF ScanInv
<1>3. \A c \in Client : scan[c] \in ScanSet
  BY <1>2
<1>4. \A c \in Client : [scan[c] EXCEPT !.due = @ \ S] \in ScanSet /\ DueInv(kvs', [scan[c] EXCEPT !.due = @ \ S])
  <2>1. ASSUME NEW c \in Client
        PROVE  [scan[c] EXCEPT !.due = @ \ S] \in ScanSet /\ DueInv(kvs', [scan[c] EXCEPT !.due = @ \ S])
    BY <1>2, <1>3, DueKeeps
  <2> QED
    BY <2>1, Zenon
<1>5. scan' \in [Client -> ScanSet]
  BY <1>1, <1>4
<1>6. \A c \in Client : DueInv(kvs', scan'[c])
  BY <1>1, <1>4, Zenon
<1> QED
  BY <1>5, <1>6, Zenon DEF ScanInv

(* A call of SCAN: the others lose what its callback deletes; it returns   *)
(* what it owes, or will.                                                  *)
LEMMA ScansCall ==
    ASSUME KvstoreInv, ScanInv, NEW c \in Client, NEW only \in OnlyDict, ScanCall(c, only)
    PROVE  ScanInv'
<1> DEFINE sc == Continued(c, only)
           r == Gives(sc)
           n == Returned(kvs', r, sc.cursor, sc.only)
           due == sc.due \ r.keys
           next == [sc EXCEPT !.cursor = n, !.due = due]
<1>1. KvstoreInv' /\ StoreInv(kvs)
  <2>1. Sound(kvs, iter)
    BY Zenon DEF KvstoreInv
  <2> QED
    BY <2>1, ScanStep, SoundParts
<1>2. StoreInv(kvs')
  <2>1. Sound(kvs', iter')
    BY <1>1, Zenon DEF KvstoreInv
  <2> QED
    BY <2>1, SoundParts
<1>3. PICK gone \in SUBSET r.keys : Spares(kvs, kvs', gone) /\ Answers(c, sc, r, gone)
  BY ScanStep
<1>4. sc \in ScanSet /\ DueInv(kvs, sc) /\ sc.on
  BY <1>1, ContinuedIs
<1>5. /\ scan' = [b \in Client |-> IF b # c THEN [scan[b] EXCEPT !.due = @ \ gone]
                                   ELSE IF n = 0 THEN NoScan ELSE next]
      /\ missed' = IF n = 0 THEN missed \cup due ELSE missed
  BY <1>3, Zenon DEF Answers
<1>6. policy' = policy
  BY Zenon DEF ScanCall
<1>7. /\ n \in Cursors
      /\ \A k \in AllKeys(kvs) : k \in AllKeys(kvs') /\ k \notin r.keys /\ Owed(sc.cursor, sc.only, k) =>
             n # 0 /\ Owed(n, sc.only, k)
  <2>1. sc.cursor \in Cursors /\ sc.only \in OnlyDict
    BY <1>4 DEF ScanSet
  <2> HIDE DEF sc
  <2> QED
    BY <1>1, <1>2, <2>1, ReturnedIs DEF Gives
<1> HIDE DEF n, sc, r
<1>8. \A k \in due : k \in AllKeys(kvs') /\ n # 0 /\ Owed(n, sc.only, k)
  <2> SUFFICES ASSUME NEW k \in due PROVE k \in AllKeys(kvs') /\ n # 0 /\ Owed(n, sc.only, k)
    OBVIOUS
  <2>1. k \in AllKeys(kvs) /\ Owed(sc.cursor, sc.only, k) /\ k \notin r.keys
    BY <1>4, Zenon DEF DueInv
  <2>2. k \in AllKeys(kvs')
    BY <1>3, <2>1, Zenon DEF Spares
  <2> QED
    BY <1>7, <2>1, <2>2, Zenon
<1>9. next \in ScanSet /\ next.on /\ next.cursor = n /\ next.only = sc.only /\ next.due = due
  BY <1>4, <1>7 DEF ScanSet
<1> HIDE DEF next, due
<1>10. DueInv(kvs', next)
  BY <1>8, <1>9, Zenon DEF DueInv
<1>11. n = 0 => due = {}
  BY <1>8, Zenon
<1>12. missed' = {}
  <2>1. missed = {}
    BY Zenon DEF ScanInv
  <2> QED
    BY <1>5, <1>11, <2>1
<1>13. scan \in [Client -> ScanSet] /\ policy \in Policy /\ \A b \in Client : DueInv(kvs, scan[b])
  BY Zenon DEF ScanInv
<1>14. ASSUME NEW b \in Client PROVE scan'[b] \in ScanSet /\ DueInv(kvs', scan'[b])
  <2>1. scan'[b] = IF b # c THEN [scan[b] EXCEPT !.due = @ \ gone] ELSE IF n = 0 THEN NoScan ELSE next
    BY <1>5, Zenon
  <2>2. CASE b # c
    <3>1. scan[b] \in ScanSet /\ DueInv(kvs, scan[b])
      BY <1>13
    <3>2. [scan[b] EXCEPT !.due = @ \ gone] \in ScanSet /\ DueInv(kvs', [scan[b] EXCEPT !.due = @ \ gone])
      BY <1>3, <3>1, DueKeeps
    <3> QED
      BY <2>1, <2>2, <3>2, Zenon
  <2>3. CASE b = c /\ n = 0
    <3>1. DueInv(kvs', NoScan)
      BY NoScanType, Zenon DEF DueInv
    <3> QED
      BY <2>1, <2>3, <3>1, NoScanType, Zenon
  <2>4. CASE b = c /\ n # 0
    BY <1>9, <1>10, <2>1, <2>4, Zenon
  <2> QED
    BY <2>2, <2>3, <2>4
<1>15. scan' \in [Client -> ScanSet]
  BY <1>5, <1>14
<1> QED
  BY <1>6, <1>12, <1>13, <1>14, <1>15, Zenon DEF ScanInv

(* Every step keeps the invariant of the scans. *)
LEMMA StepScan ==
    ASSUME KvstoreInv, ScanInv, [Next]_vars
    PROVE  ScanInv'
<1>0. policy \in Policy
  BY Zenon DEF ScanInv
<1>1. ASSUME NEW k \in Key, Add(k) PROVE ScanInv'
  <2>1. Spares(kvs, kvs', {})
    BY <1>1, AddStep
  <2>2. scan' = scan /\ missed' = missed /\ policy' = policy
    BY <1>1, Zenon DEF Add
  <2> QED
    BY <1>0, <2>1, <2>2, ScansStay
<1>2. ASSUME NEW k \in Key, Find(k) PROVE ScanInv'
  <2>1. Spares(kvs, kvs', {})
    BY <1>2, FindStep
  <2>2. scan' = scan /\ missed' = missed /\ policy' = policy
    BY <1>2, Zenon DEF Find
  <2> QED
    BY <1>0, <2>1, <2>2, ScansStay
<1>3. ASSUME NEW k \in Key, Delete(k) PROVE ScanInv'
  <2>1. Spares(kvs, kvs', {k})
    BY <1>3, DeleteStep
  <2>2. Forget({k}) /\ missed' = missed /\ policy' = policy
    BY <1>3, Zenon DEF Delete
  <2> QED
    BY <2>1, <2>2, ScansForget
<1>4. CASE Empty
  <2>1. Spares(kvs, kvs', Key)
    BY <1>4, EmptyStep
  <2>2. Forget(Key) /\ missed' = missed /\ policy' = policy
    BY <1>4, Zenon DEF Empty
  <2> QED
    BY <2>1, <2>2, ScansForget
<1>5. ASSUME NEW n \in ExpandTo, Expand(n) PROVE ScanInv'
  <2>1. Spares(kvs, kvs', {})
    BY <1>5, ExpandStep
  <2>2. scan' = scan /\ missed' = missed /\ policy' = policy
    BY <1>5, Zenon DEF Expand
  <2> QED
    BY <1>0, <2>1, <2>2, ScansStay
<1>6. CASE Cron
  <2>1. Spares(kvs, kvs', {})
    BY <1>6, CronStep
  <2>2. scan' = scan /\ missed' = missed /\ policy' = policy
    BY <1>6, Zenon DEF Cron
  <2> QED
    BY <1>0, <2>1, <2>2, ScansStay
<1>7. CASE Child
  <2>1. kvs' = kvs /\ scan' = scan /\ missed' = missed
    BY <1>7, Zenon DEF Child
  <2>2. policy' \in Policy
    BY <1>7 DEF Child, Policy
  <2>3. Spares(kvs, kvs', {})
    BY <2>1, Zenon DEF Spares
  <2> QED
    BY <2>1, <2>2, <2>3, ScansStay
<1>8. ASSUME NEW c \in Client, NEW only \in OnlyDict, ScanCall(c, only) PROVE ScanInv'
  BY <1>8, ScansCall
<1>9. ASSUME NEW i \in Index, IterStart(i) PROVE ScanInv'
  <2>1. Spares(kvs, kvs', {})
    BY <1>9, StartStep
  <2>2. scan' = scan /\ missed' = missed /\ policy' = policy
    BY <1>9, Zenon DEF IterStart
  <2> QED
    BY <1>0, <2>1, <2>2, ScansStay
<1>10. CASE IterNext
  <2>1. Spares(kvs, kvs', {})
    BY <1>10, NextStep
  <2>2. scan' = scan /\ missed' = missed /\ policy' = policy
    BY <1>10, Zenon DEF IterNext
  <2> QED
    BY <1>0, <2>1, <2>2, ScansStay
<1>11. CASE IterRelease
  <2>1. Spares(kvs, kvs', {})
    BY <1>11, ReleaseStep
  <2>2. scan' = scan /\ missed' = missed /\ policy' = policy
    BY <1>11, Zenon DEF IterRelease
  <2> QED
    BY <1>0, <2>1, <2>2, ScansStay
<1>12. CASE UNCHANGED vars
  BY <1>12, Zenon DEF vars, ScanInv
<1> QED
  BY <1>1, <1>2, <1>3, <1>4, <1>5, <1>6, <1>7, <1>8, <1>9, <1>10, <1>11, <1>12, Zenon DEF Next

(* A dict in order has its type. *)
LEMMA DictTypeOK ==
    ASSUME NEW K, NEW d, DictInv(d, K)
    PROVE  DictOK(d) /\ DictKeys(d) \subseteq K
<1>1. d \in DictSet /\ Good(d.exp[0], d.exp[1], d.ht[0], d.ht[1], d.rehashidx, K)
  BY Zenon DEF DictInv
<1>2. /\ d.exp \in [0..1 -> -1..W] /\ d.pause \in Nat /\ DOMAIN d.ht = 0..1
  BY <1>1 DEF DictSet
<1>3. /\ d.ht[0] \in TableSet(d.exp[0]) /\ d.ht[1] \in TableSet(d.exp[1])
      /\ d.rehashidx \in -1..Size(d.exp[0]) /\ All(d.ht[0]) \cup All(d.ht[1]) \subseteq K
  BY <1>1, Zenon DEF Good, Table
<1>4. \A t \in 0..1 : d.ht[t] \in TableSet(d.exp[t])
  <2>1. \A t \in 0..1 : t = 0 \/ t = 1
    OBVIOUS
  <2> QED
    BY <1>3, <2>1, Zenon
<1>5. DictOK(d)
  BY <1>2, <1>3, <1>4, Zenon DEF DictOK, TableSet
<1> QED
  BY <1>3, <1>5, KeysAll, Zenon

-----------------------------------------------------------------------------
(* The theorems *)

(* Every step keeps the invariant, and changes the set of keys as it was   *)
(* asked.                                                                  *)
LEMMA StepInv ==
    ASSUME KvstoreInv, Next
    PROVE  KvstoreInv' /\ Obeys
<1>1. ASSUME NEW k \in Key, Add(k) PROVE KvstoreInv' /\ Obeys
  BY <1>1, AddStep
<1>2. ASSUME NEW k \in Key, Find(k) PROVE KvstoreInv' /\ Obeys
  BY <1>2, FindStep
<1>3. ASSUME NEW k \in Key, Delete(k) PROVE KvstoreInv' /\ Obeys
  BY <1>3, DeleteStep
<1>4. CASE Empty
  BY <1>4, EmptyStep
<1>5. ASSUME NEW n \in ExpandTo, Expand(n) PROVE KvstoreInv' /\ Obeys
  BY <1>5, ExpandStep
<1>6. CASE Cron
  BY <1>6, CronStep
<1>7. CASE Child
  <2>1. AsksNothing /\ AllKeys(kvs') = AllKeys(kvs)
    BY <1>7, Zenon DEF Child
  <2> QED
    BY <1>7, <2>1, ObeysNothing DEF Child, KvstoreInv
<1>8. ASSUME NEW c \in Client, NEW only \in OnlyDict, ScanCall(c, only)
      PROVE  KvstoreInv' /\ Obeys
  BY <1>8, ScanStep
<1>9. ASSUME NEW i \in Index, IterStart(i) PROVE KvstoreInv' /\ Obeys
  BY <1>9, StartStep
<1>10. CASE IterNext
  BY <1>10, NextStep
<1>11. CASE IterRelease
  BY <1>11, ReleaseStep
<1> QED
  BY <1>1, <1>2, <1>3, <1>4, <1>5, <1>6, <1>7, <1>8, <1>9, <1>10, <1>11, Zenon DEF Next

(* Kvstore: whatever the tables do, every dict has its keys in one place   *)
(* each, the tree counts them, dicts are paused as long as they are        *)
(* walked, and a walk owes exactly the keys ahead of it.                   *)
THEOREM KvstoreInvariant == Spec => []KvstoreInv
<1>1. Init => KvstoreInv
  BY InitInv
<1>2. KvstoreInv /\ Next => KvstoreInv'
  BY StepInv
<1>3. KvstoreInv /\ UNCHANGED vars => KvstoreInv'
  BY Zenon DEF vars, KvstoreInv
<1> QED
  BY <1>1, <1>2, <1>3, PTL DEF Spec

(* KeysFound: dictFind finds every stored key, at any stage of a rehashing *)
(* to a larger or to a smaller table, under any policy.                    *)
THEOREM StoredKeysFound == Spec => []KeysFound
<1>1. ASSUME KvstoreInv PROVE KeysFound
  <2> SUFFICES ASSUME NEW i \in Index
               PROVE  LET d == kvs.dicts[i] IN
                      /\ Keys(d, 0) \cap Keys(d, 1) = {}
                      /\ \A k \in DictKeys(d) : Slot(k) = i /\ Found(d, k, policy)
    BY Zenon DEF KeysFound
  <2> DEFINE d == kvs.dicts[i]
  <2>1. Sound(kvs, iter)
    BY <1>1, Zenon DEF KvstoreInv
  <2>2. DictInv(d, Own(i)) /\ Small(Own(i))
    BY <2>1, SoundParts
  <2> HIDE DEF d
  <2>3. Keys(d, 0) \cap Keys(d, 1) = {}
    <3>1. Good(d.exp[0], d.exp[1], d.ht[0], d.ht[1], d.rehashidx, Own(i))
      BY <2>2, InvParts
    <3> QED
      BY <3>1, KeysAll, Zenon DEF Good
  <2>4. ASSUME NEW k \in DictKeys(d) PROVE Slot(k) = i /\ Found(d, k, policy)
    <3>1. k \in Key /\ Slot(k) = i
      BY <2>2, OwnKeys
    <3>2. Found(d, k, policy)
      BY <2>2, <3>1, FindKey
    <3> QED
      BY <3>1, <3>2
  <2> QED
    BY <2>3, <2>4, Zenon DEF d
<1> QED
  BY <1>1, KvstoreInvariant, PTL

(* MovedBucketsEmpty: the assertion of dictRehash never fails, the buckets *)
(* before rehashidx being empty.                                           *)
THEOREM RehashingPassesEmpty == Spec => []MovedBucketsEmpty
<1>1. ASSUME KvstoreInv PROVE MovedBucketsEmpty
  <2>1. Sound(kvs, iter)
    BY <1>1, Zenon DEF KvstoreInv
  <2>2. ASSUME NEW i \in Index
        PROVE  \A j \in DOMAIN kvs.dicts[i].ht[0] :
                   j < kvs.dicts[i].rehashidx => kvs.dicts[i].ht[0][j] = {}
    <3> DEFINE d == kvs.dicts[i]
    <3>1. DictInv(d, Own(i))
      BY <2>1, SoundParts
    <3> HIDE DEF d
    <3>2. \A j \in DOMAIN d.ht[0] : j < d.rehashidx => d.ht[0][j] = {}
      BY <3>1, IdxType
    <3> QED
      BY <3>2 DEF d
  <2> QED
    BY <2>2, Zenon DEF MovedBucketsEmpty
<1> QED
  BY <1>1, KvstoreInvariant, PTL

(* IteratorDictLive: freeDictIfNeeded does not free the dict a safe        *)
(* iterator is on, though its last key be deleted.                         *)
THEOREM IteratorKeepsDict == Spec => []IteratorDictLive
<1>1. ASSUME KvstoreInv PROVE IteratorDictLive
  BY <1>1, Zenon DEF KvstoreInv, Sound, IteratorDictLive
<1> QED
  BY <1>1, KvstoreInvariant, PTL

(* IteratorExact: a safe iterator returns every key that stays, and none   *)
(* twice, while keys are added, found and deleted meanwhile, both tables   *)
(* of the dict being walked.                                               *)
THEOREM IteratorReturnsAll == Spec => []IteratorExact
<1>1. ASSUME KvstoreInv PROVE IteratorExact
  BY <1>1, Zenon DEF KvstoreInv, IteratorExact
<1> QED
  BY <1>1, KvstoreInvariant, PTL

(* key_count, which DBSIZE returns, is the number of keys. *)
KeyCountExact == kvs.key_count = Cardinality(AllKeys(kvs))

(* DBSIZE is exact: cumulativeKeyCountAdd is called whenever a key comes   *)
(* or goes, on every path.                                                 *)
THEOREM CountsKeys == Spec => []KeyCountExact
<1>1. ASSUME KvstoreInv PROVE KeyCountExact
  BY <1>1, Zenon DEF KvstoreInv, Sound, StoreInv, KeyCountExact
<1> QED
  BY <1>1, KvstoreInvariant, PTL

(* Kvstore: what a scan has still to return is there, and its cursor has   *)
(* not passed it.                                                          *)
THEOREM ScanInvariant == Spec => []ScanInv
<1>1. Init => ScanInv
  <2> SUFFICES ASSUME Init PROVE ScanInv
    OBVIOUS
  <2>1. policy = "ENABLE" /\ scan = [c \in Client |-> NoScan] /\ missed = {}
    BY Zenon DEF Init
  <2>2. policy \in Policy
    BY <2>1 DEF Policy
  <2>3. scan \in [Client -> ScanSet]
    BY <2>1, NoScanType
  <2>4. \A c \in Client : DueInv(kvs, scan[c])
    BY <2>1, NoScanType, Zenon DEF DueInv
  <2> QED
    BY <2>1, <2>2, <2>3, <2>4, Zenon DEF ScanInv
<1>2. KvstoreInv /\ ScanInv /\ [Next]_vars => ScanInv'
  BY StepScan
<1> QED
  BY <1>1, <1>2, KvstoreInvariant, PTL DEF Spec

(* ScanComplete: a scan returns every key that is there from its start to  *)
(* its end, though the tables grow, shrink and are rehashed, dicts are     *)
(* freed and made, and keys come and go, between its calls.                *)
THEOREM ScansReturnAll == Spec => []ScanComplete
<1>1. ASSUME ScanInv PROVE ScanComplete
  BY <1>1, Zenon DEF ScanInv, ScanComplete
<1> QED
  BY <1>1, ScanInvariant, PTL

(* CursorAdvances: every call of kvstoreScan puts the cursor further on,   *)
(* or ends the scan.                                                       *)
THEOREM ScansAdvance == Spec => []CursorAdvances
<1>1. ASSUME KvstoreInv, ScanInv PROVE CursorAdvances
  <2>1. Sound(kvs, iter)
    BY <1>1, Zenon DEF KvstoreInv
  <2>2. StoreInv(kvs)
    BY <2>1, SoundParts
  <2>3. scan \in [Client -> ScanSet]
    BY <1>1, Zenon DEF ScanInv
  <2>4. ASSUME NEW c \in Client
        PROVE  LET now == scan[c].cursor
                   next == Returned(kvs, Scanned(kvs, now, scan[c].only), now, scan[c].only)
               IN  next = 0 \/ Order(next) > Order(now)
    <3>1. scan[c].cursor \in Cursors /\ scan[c].only \in OnlyDict
      BY <2>3 DEF ScanSet
    <3> QED
      BY <2>2, <3>1, ReturnedIs
  <2> QED
    BY <2>4, Zenon DEF CursorAdvances
<1> QED
  BY <1>1, KvstoreInvariant, ScanInvariant, PTL

(* IndexExact: the tree has the sums of the sizes, and its search finds    *)
(* the dict of the n-th key, for any number of dicts.                      *)
THEOREM TreeExact == Spec => []IndexExact
<1>1. ASSUME KvstoreInv PROVE IndexExact
  <2>1. Sound(kvs, iter)
    BY <1>1, Zenon DEF KvstoreInv
  <2>2. StoreInv(kvs)
    BY <2>1, SoundParts
  <2>3. DictsInv(kvs) /\ TreeInv(kvs) /\ kvs.key_count = Cardinality(AllKeys(kvs))
    BY <2>2, StoreParts
  <2> QED
    BY <2>3, IndexFollows
<1> QED
  BY <1>1, KvstoreInvariant, PTL

(* What a step is asked to add and to delete are keys. *)
AskedOK == asked \in [add : SUBSET Key, delete : SUBSET Key]

(* It is so at the start and after every step. *)
LEMMA AskedInvariant == Spec => []AskedOK
<1>1. Init => AskedOK
  BY DEF Init, AskedOK
<1>2. KvstoreInv /\ Next => AskedOK'
  <2> SUFFICES ASSUME Obeys PROVE AskedOK'
    BY StepInv
  <2> QED
    BY DEF Obeys, AskedOK
<1>3. AskedOK /\ UNCHANGED vars => AskedOK'
  BY DEF vars, AskedOK
<1> QED
  BY <1>1, <1>2, <1>3, KvstoreInvariant, PTL DEF Spec

(* TypeOK: the counters stay counts, none of them falls below zero, and    *)
(* every cursor given to a client fits its word.                           *)
THEOREM StoreTypeOK == Spec => []TypeOK
<1>1. ASSUME KvstoreInv, ScanInv, AskedOK PROVE TypeOK
  <2>1. Sound(kvs, iter) /\ misread = {}
    BY <1>1, Zenon DEF KvstoreInv
  <2>2. StoreInv(kvs) /\ iter \in IterSet
    BY <2>1, SoundParts
  <2>3. /\ kvs \in KvsSet /\ DictsInv(kvs) /\ TreeInv(kvs) /\ kvs.key_count = Cardinality(AllKeys(kvs))
        /\ \A i \in Index : DictInv(kvs.dicts[i], Own(i))
    BY <2>2, StoreParts
  <2>4. /\ kvs.alloc \subseteq Index /\ kvs.non_empty \in 0..MaxCount /\ kvs.bucket_count \in 0..MaxCount
        /\ kvs.resize_cursor \in Index /\ kvs.index \in [1..NumDicts -> Int]
    BY <2>3 DEF KvsSet
  <2>5. \A i \in Index : DictOK(kvs.dicts[i]) /\ DictKeys(kvs.dicts[i]) \subseteq Key
    <3>1. \A i \in Index : Own(i) \subseteq Key
      BY Zenon DEF Own
    <3>2. \A i \in Index : DictOK(kvs.dicts[i]) /\ DictKeys(kvs.dicts[i]) \subseteq Own(i)
      BY <2>3, DictTypeOK
    <3> QED
      BY <3>1, <3>2, Zenon
  <2>6. kvs.key_count \in Nat
    BY <2>3, FiniteKeys
  <2>7. kvs.index \in [1..NumDicts -> Nat]
    <3>1. \A j \in 1..NumDicts : kvs.index[j] \in Nat
      BY <2>3, CountType, Zenon DEF TreeInv
    <3> QED
      BY <2>4, <3>1
  <2>8. iter.rest \subseteq Key /\ iter.due \subseteq Key /\ iter.seen \subseteq Key
    BY <2>2 DEF IterSet
  <2>9. policy \in Policy /\ scan \in [Client -> ScanSet] /\ missed = {}
    BY <1>1, Zenon DEF ScanInv
  <2>10. missed \subseteq Key /\ misread \subseteq Key
    BY <2>1, <2>9
  <2> QED
    BY <1>1, <2>4, <2>5, <2>6, <2>7, <2>8, <2>9, <2>10, Zenon DEF TypeOK, ScanSet, Cursors, AskedOK
<1> QED
  BY <1>1, KvstoreInvariant, ScanInvariant, AskedInvariant, PTL

(* Kvstore implements KeySet: a command adds or deletes exactly the keys   *)
(* it names, the callback of a scan exactly those it is asked to, and      *)
(* looking up, resizing, rehashing, walking and freeing change no key.     *)
THEOREM ImplementsKeySet == Spec => KeysKept
<1>1. Init => Abstract!Init
  <2>1. ASSUME Init PROVE AllKeys(kvs) = {} /\ asked = [add |-> {}, delete |-> {}]
    <3>1. asked = [add |-> {}, delete |-> {}]
      BY <2>1, Zenon DEF Init
    <3> QED
      BY <2>1, <3>1, InitInv
  <2> QED
    BY <2>1, Zenon DEF Abstract!Init
<1>2. KvstoreInv /\ Next => Abstract!Next
  <2> SUFFICES ASSUME KvstoreInv, Next PROVE Abstract!Next
    OBVIOUS
  <2>1. Obeys
    BY StepInv
  <2>2. AllKeys(kvs') = AllKeys(kvs)'
    BY Zenon DEF AllKeys
  <2>3. CASE \E k \in Key : /\ asked' = [add |-> {k}, delete |-> {}]
                            /\ AllKeys(kvs') = AllKeys(kvs) \cup {k}
    BY <2>2, <2>3, Zenon DEF Abstract!Next, Abstract!Add
  <2>4. CASE \E ks \in SUBSET Key : /\ asked' = [add |-> {}, delete |-> ks]
                                    /\ AllKeys(kvs') = AllKeys(kvs) \ ks
    BY <2>2, <2>4, Zenon DEF Abstract!Next, Abstract!Delete
  <2> QED
    BY <2>1, <2>3, <2>4, Zenon DEF Obeys
<1>3. UNCHANGED vars => UNCHANGED Abstract!vars
  BY Zenon DEF vars, Abstract!vars, AllKeys
<1> QED
  BY <1>1, <1>2, <1>3, KvstoreInvariant, PTL DEF Spec, KeysKept, Abstract!Spec
=============================================================================
