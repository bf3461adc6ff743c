---------------------------- MODULE FlattenLemmas ----------------------------
(***************************************************************************)
(* What FlattenSeq computes, for sequences of any length: induction over a *)
(* set of naturals, the recursive function behind FlattenSeq, and what     *)
(* appending to the list or to its last member does.                       *)
(***************************************************************************)
EXTENDS Integers, Sequences, SequencesExt, SequenceTheorems, WellFoundedInduction, TLAPS

(* Induction over a set: the smallest number outside it is neither 0 nor   *)
(* the successor of a member.                                              *)
LEMMA SetInduction ==
    ASSUME NEW S \in SUBSET Nat, 0 \in S, \A n \in S : n + 1 \in S
    PROVE  S = Nat
<1> SUFFICES ASSUME Nat \ S # {} PROVE FALSE
  OBVIOUS
<1> DEFINE R == OpToRel(<, Nat)
<1>1. IsWellFoundedOn(R, Nat)
  BY NatLessThanWellFounded
<1>2. PICK x \in Nat \ S : \A y \in Nat \ S : ~(<<y, x>> \in R)
  <2> HIDE DEF R
  <2>1. Nat \ S \subseteq Nat
    OBVIOUS
  <2> QED
    BY <1>1, <2>1, WFMin, Zenon
<1>3. x # 0 /\ x - 1 \in Nat /\ x - 1 < x
  OBVIOUS
<1>4. x - 1 \notin S
  BY <1>3
<1>5. <<x - 1, x>> \in R
  BY <1>3 DEF OpToRel
<1> QED
  BY <1>2, <1>3, <1>4, <1>5

-----------------------------------------------------------------------------
(* a \o b, as a symbol whose laws are those below. *)
Cat(a, b) == a \o b

(* A concatenation is a sequence, as long as both together. *)
LEMMA CatType ==
    ASSUME NEW W, NEW a \in Seq(W), NEW b \in Seq(W)
    PROVE  Cat(a, b) \in Seq(W) /\ Len(Cat(a, b)) = Len(a) + Len(b)
  BY DEF Cat

(* Concatenation is associative. *)
LEMMA CatAssoc ==
    ASSUME NEW W, NEW a \in Seq(W), NEW b \in Seq(W), NEW c \in Seq(W)
    PROVE  Cat(a, Cat(b, c)) = Cat(Cat(a, b), c)
  BY DEF Cat

-----------------------------------------------------------------------------
(* The first i members of the list s put together, for every i. *)
Flat(s) == CHOOSE f : f = [i \in 1..Len(s) |-> IF i = 1 THEN s[i] ELSE Cat(f[i - 1], s[i])]

(* The equation has a solution on 1..n for every n. *)
LEMMA FlatExists ==
    ASSUME NEW s, NEW n \in Nat
    PROVE  \E f : f = [i \in 1..n |-> IF i = 1 THEN s[i] ELSE Cat(f[i - 1], s[i])]
<1> DEFINE Sol(m, f) == f = [i \in 1..m |-> IF i = 1 THEN s[i] ELSE Cat(f[i - 1], s[i])]
           S == {m \in Nat : \E f : Sol(m, f)}
<1>1. 0 \in S
  <2> DEFINE g == [i \in 1..0 |-> IF i = 1 THEN s[i] ELSE <<>>]
  <2>1. Sol(0, g)
    OBVIOUS
  <2> QED
    BY <2>1
<1>2. \A m \in S : m + 1 \in S
  <2> TAKE m \in S
  <2>1. PICK f : Sol(m, f)
    OBVIOUS
  <2> DEFINE g == [i \in 1..(m + 1) |-> IF i = 1 THEN s[i]
                                       ELSE IF i <= m THEN f[i] ELSE Cat(f[i - 1], s[i])]
             h == [i \in 1..(m + 1) |-> IF i = 1 THEN s[i] ELSE Cat(g[i - 1], s[i])]
  <2>2. ASSUME NEW i \in 1..(m + 1) PROVE g[i] = h[i]
    <3>1. CASE i = 1
      BY <3>1
    <3>2. CASE i # 1
      <4>1. i - 1 \in 1..m /\ i - 1 \in 1..(m + 1)
        BY <3>2
      <4>2. g[i - 1] = f[i - 1]
        BY <4>1, <2>1
      <4>3. CASE i <= m
        <5>1. i \in 1..m /\ g[i] = f[i]
          BY <3>2, <4>3
        <5>2. f[i] = Cat(f[i - 1], s[i])
          BY <5>1, <3>2, <2>1
        <5> QED
          BY <3>2, <4>2, <5>1, <5>2
      <4>4. CASE ~(i <= m)
        BY <3>2, <4>2, <4>4
      <4> QED
        BY <4>3, <4>4
    <3> QED
      BY <3>1, <3>2
  <2>3. g = h
    BY <2>2
  <2>4. Sol(m + 1, g)
    BY <2>3
  <2> HIDE DEF g, h, Sol
  <2> QED
    BY <2>4
<1>3. S = Nat
  <2> HIDE DEF Sol
  <2> QED
    BY <1>1, <1>2, SetInduction
<1> QED
  BY <1>3

(* FlattenSeq is defined by an equation for each prefix of the list. *)
LEMMA FlatDef ==
    ASSUME NEW s, Len(s) \in Nat
    PROVE  Flat(s) = [i \in 1..Len(s) |-> IF i = 1 THEN s[i] ELSE Cat(Flat(s)[i - 1], s[i])]
<1>1. \E f : f = [i \in 1..Len(s) |-> IF i = 1 THEN s[i] ELSE Cat(f[i - 1], s[i])]
  BY FlatExists
<1> QED
  BY <1>1, Zenon DEF Flat

(* FlattenSeq is the solution of that equation. *)
LEMMA FlattenIsFlat ==
    ASSUME NEW s, Len(s) # 0
    PROVE  FlattenSeq(s) = Flat(s)[Len(s)]
  BY Zenon DEF FlattenSeq, Flat, Cat

(* The first prefix is flattened to its one member. *)
LEMMA FlatFirst ==
    ASSUME NEW s, Len(s) \in Nat, Len(s) >= 1
    PROVE  Flat(s)[1] = s[1]
<1>1. 1 \in 1..Len(s)
  OBVIOUS
<1> QED
  BY <1>1, FlatDef

(* Each further member is appended. *)
LEMMA FlatNext ==
    ASSUME NEW s, Len(s) \in Nat, NEW i \in Nat, i >= 1, i + 1 <= Len(s)
    PROVE  Flat(s)[i + 1] = Cat(Flat(s)[i], s[i + 1])
<1> DEFINE G(k) == IF k = 1 THEN s[k] ELSE Cat(Flat(s)[k - 1], s[k])
<1>1. i + 1 \in 1..Len(s)
  OBVIOUS
<1>2. Flat(s) = [k \in 1..Len(s) |-> G(k)]
  BY FlatDef
<1>3. Flat(s)[i + 1] = G(i + 1)
  <2> HIDE DEF G
  <2> QED
    BY <1>1, <1>2
<1>4. i + 1 # 1 /\ (i + 1) - 1 = i
  OBVIOUS
<1> QED
  BY <1>3, <1>4

(* What a prefix is flattened to is a sequence. *)
LEMMA FlatType ==
    ASSUME NEW W, NEW s \in Seq(Seq(W))
    PROVE  \A i \in 1..Len(s) : Flat(s)[i] \in Seq(W)
<1> DEFINE S == {n \in Nat : n \in 1..Len(s) => Flat(s)[n] \in Seq(W)}
<1>1. 0 \in S
  OBVIOUS
<1>2. ASSUME NEW n \in S PROVE n + 1 \in S
  <2> SUFFICES ASSUME n + 1 \in 1..Len(s) PROVE Flat(s)[n + 1] \in Seq(W)
    OBVIOUS
  <2>1. s[n + 1] \in Seq(W)
    OBVIOUS
  <2>2. CASE n = 0
    BY <2>1, <2>2, FlatFirst
  <2>3. CASE n # 0
    <3>1. n \in 1..Len(s) /\ Flat(s)[n] \in Seq(W)
      BY <2>3
    <3>n. Len(s) \in Nat /\ n \in Nat /\ n >= 1 /\ n + 1 <= Len(s)
      BY <2>3
    <3>2. Flat(s)[n + 1] = Cat(Flat(s)[n], s[n + 1])
      BY <3>n, FlatNext, Zenon
    <3> QED
      BY <2>1, <3>1, <3>2, CatType
  <2> QED
    BY <2>2, <2>3
<1>3. S = Nat
  <2> HIDE DEF S
  <2>1. S \in SUBSET Nat
    BY DEF S
  <2> QED
    BY <1>1, <1>2, <2>1, SetInduction
<1> QED
  BY <1>3

(* Lists that begin alike. *)
LEMMA FlatAgree ==
    ASSUME NEW s, NEW t, Len(s) \in Nat, Len(t) \in Nat, NEW m \in Nat,
           m <= Len(s), m <= Len(t), \A i \in 1..m : s[i] = t[i]
    PROVE  \A i \in 1..m : Flat(s)[i] = Flat(t)[i]
<1> DEFINE S == {n \in Nat : n \in 1..m => Flat(s)[n] = Flat(t)[n]}
<1>1. 0 \in S
  OBVIOUS
<1>2. ASSUME NEW n \in S PROVE n + 1 \in S
  <2> SUFFICES ASSUME n + 1 \in 1..m PROVE Flat(s)[n + 1] = Flat(t)[n + 1]
    OBVIOUS
  <2>1. s[n + 1] = t[n + 1] /\ n + 1 \in 1..Len(s) /\ n + 1 \in 1..Len(t)
    OBVIOUS
  <2>2. CASE n = 0
    BY <2>1, <2>2, FlatFirst
  <2>3. CASE n # 0
    <3>1. n \in 1..m /\ Flat(s)[n] = Flat(t)[n]
      BY <2>3
    <3>n. n \in Nat /\ n >= 1 /\ n + 1 <= Len(s) /\ n + 1 <= Len(t)
      BY <2>3
    <3>2. Flat(s)[n + 1] = Cat(Flat(s)[n], s[n + 1])
      BY <3>n, FlatNext, Zenon
    <3>3. Flat(t)[n + 1] = Cat(Flat(t)[n], t[n + 1])
      BY <3>n, FlatNext, Zenon
    <3> QED
      BY <2>1, <3>1, <3>2, <3>3
  <2> QED
    BY <2>2, <2>3
<1>3. S = Nat
  <2> HIDE DEF S
  <2>1. S \in SUBSET Nat
    BY DEF S
  <2> QED
    BY <1>1, <1>2, <2>1, SetInduction
<1> QED
  BY <1>3

-----------------------------------------------------------------------------
(* Flattening gives a sequence over the same set. *)
LEMMA FlattenType ==
    ASSUME NEW W, NEW s \in Seq(Seq(W)), s # <<>>
    PROVE  FlattenSeq(s) \in Seq(W)
<1>1. Len(s) \in 1..Len(s)
  OBVIOUS
<1> QED
  BY <1>1, FlatType, FlattenIsFlat

(* A list of one is flattened to its member. *)
LEMMA FlattenOne ==
    ASSUME NEW W, NEW s \in Seq(Seq(W)), Len(s) = 1
    PROVE  FlattenSeq(s) = s[1]
<1>1. Len(s) # 0 /\ Len(s) >= 1 /\ Len(s) \in Nat
  OBVIOUS
<1>2. Flat(s)[1] = s[1]
  BY <1>1, FlatFirst, Zenon
<1>3. FlattenSeq(s) = Flat(s)[Len(s)]
  BY <1>1, FlattenIsFlat, Zenon
<1> QED
  BY <1>2, <1>3, Zenon

(* A list of two is flattened to the concatenation. *)
LEMMA FlattenTwo ==
    ASSUME NEW W, NEW s \in Seq(Seq(W)), Len(s) = 2
    PROVE  FlattenSeq(s) = Cat(s[1], s[2])
<1>1. Len(s) # 0 /\ Len(s) \in Nat /\ Len(s) >= 1 /\ 1 \in Nat /\ 1 >= 1 /\ 1 + 1 <= Len(s)
  OBVIOUS
<1>2. Flat(s)[1] = s[1]
  BY <1>1, FlatFirst, Zenon
<1>3. Flat(s)[1 + 1] = Cat(Flat(s)[1], s[1 + 1])
  BY <1>1, FlatNext, Zenon
<1>4. FlattenSeq(s) = Flat(s)[Len(s)]
  BY <1>1, FlattenIsFlat, Zenon
<1>5. 1 + 1 = 2
  OBVIOUS
<1> QED
  BY <1>2, <1>3, <1>4, <1>5, Zenon

(* One member more: what was flattened is extended by it. *)
LEMMA FlattenAppend ==
    ASSUME NEW W, NEW s \in Seq(Seq(W)), s # <<>>, NEW x \in Seq(W)
    PROVE  FlattenSeq(Append(s, x)) = Cat(FlattenSeq(s), x)
<1> DEFINE t == Append(s, x)
<1>1. /\ Len(t) = Len(s) + 1 /\ t[Len(t)] = x
      /\ \A i \in 1..Len(s) : s[i] = t[i]
      /\ Len(s) \in Nat /\ Len(s) >= 1
  BY AppendProperties, EmptySeq
<1> HIDE DEF t
<1>2. Flat(s)[Len(s)] = Flat(t)[Len(s)]
  <2>1. Len(s) \in 1..Len(s) /\ Len(s) <= Len(s) /\ Len(s) <= Len(t) /\ Len(t) \in Nat
    BY <1>1
  <2> QED
    BY <1>1, <2>1, FlatAgree
<1>3. Flat(t)[Len(t)] = Cat(Flat(t)[Len(s)], t[Len(t)])
  <2>1. Len(t) \in Nat /\ Len(s) >= 1 /\ Len(s) + 1 <= Len(t)
    BY <1>1
  <2>2. Flat(t)[Len(s) + 1] = Cat(Flat(t)[Len(s)], t[Len(s) + 1])
    BY <1>1, <2>1, FlatNext
  <2> QED
    BY <1>1, <2>2
<1>4. FlattenSeq(t) = Flat(t)[Len(t)] /\ FlattenSeq(s) = Flat(s)[Len(s)]
  BY <1>1, FlattenIsFlat
<1> QED
  BY <1>1, <1>2, <1>3, <1>4 DEF t

(* The last member of the list becomes longer. *)
LEMMA FlattenExtend ==
    ASSUME NEW W, NEW s \in Seq(Seq(W)), s # <<>>, NEW t \in Seq(Seq(W)), Len(t) = Len(s),
           \A i \in 1..(Len(s) - 1) : t[i] = s[i],
           NEW x \in Seq(W), t[Len(s)] = Cat(s[Len(s)], x)
    PROVE  FlattenSeq(t) = Cat(FlattenSeq(s), x)
<1> DEFINE n == Len(s)
<1>1. n \in Nat /\ n >= 1 /\ n \in 1..n /\ n # 0
  OBVIOUS
<1>2. Len(t) = n /\ Len(s) = n
  OBVIOUS
<1>3. s[n] \in Seq(W) /\ t[n] = Cat(s[n], x)
  OBVIOUS
<1>4. \A i \in 1..(n - 1) : s[i] = t[i]
  OBVIOUS
<1> HIDE DEF n
<1>5. FlattenSeq(t) = Flat(t)[n] /\ FlattenSeq(s) = Flat(s)[n]
  BY <1>1, <1>2, FlattenIsFlat
<1>6. CASE n = 1
  <2>1. Flat(t)[n] = t[n] /\ Flat(s)[n] = s[n]
    BY <1>1, <1>2, <1>6, FlatFirst
  <2> QED
    BY <1>3, <1>5, <2>1
<1>7. CASE n # 1
  <2>1. n - 1 \in Nat /\ n - 1 \in 1..(n - 1) /\ n - 1 <= n /\ n - 1 \in 1..n
    BY <1>1, <1>7
  <2>2. Flat(s)[n - 1] = Flat(t)[n - 1]
    BY <1>1, <1>2, <1>4, <2>1, FlatAgree
  <2>3. Flat(s)[n] = Cat(Flat(s)[n - 1], s[n]) /\ Flat(t)[n] = Cat(Flat(t)[n - 1], t[n])
    <3>1. n - 1 >= 1 /\ (n - 1) + 1 = n /\ n <= n
      BY <1>1, <1>7
    <3> QED
      BY <1>1, <1>2, <2>1, <3>1, FlatNext
  <2>4. Flat(s)[n - 1] \in Seq(W)
    BY <1>2, <2>1, FlatType
  <2>5. Cat(Flat(s)[n - 1], t[n]) = Cat(Flat(s)[n], x)
    BY <1>3, <2>3, <2>4, CatAssoc
  <2> QED
    BY <1>5, <2>2, <2>3, <2>5, Zenon
<1> QED
  BY <1>6, <1>7
-----------------------------------------------------------------------------
(* at gives, for every entry of s, its place in t, in the same order. *)
Places(at, s, t) ==
    /\ at \in [1..Len(s) -> 1..Len(t)]
    /\ \A i, j \in 1..Len(s) : i < j => at[i] < at[j]
    /\ \A i \in 1..Len(s) : s[i] = t[at[i]]

(* s is t without some of its entries. *)
Thinned(s, t) == \E at : Places(at, s, t)

(* A prefix is what is left without the last entries. *)
LEMMA ThinnedPrefix ==
    ASSUME NEW W, NEW s \in Seq(W), NEW t \in Seq(W),
           Len(s) <= Len(t), \A i \in 1..Len(s) : s[i] = t[i]
    PROVE  Thinned(s, t)
<1> DEFINE at == [i \in 1..Len(s) |-> i]
<1>1. Places(at, s, t)
  BY DEF Places
<1> QED
  BY <1>1 DEF Thinned

(* No place is before the entry's own. *)
LEMMA PlacesLate ==
    ASSUME NEW W, NEW s \in Seq(W), NEW t \in Seq(W), NEW at, Places(at, s, t)
    PROVE  \A i \in 1..Len(s) : at[i] >= i
<1> DEFINE S == {n \in Nat : n \in 1..Len(s) => at[n] >= n}
<1>1. 0 \in S
  OBVIOUS
<1>2. ASSUME NEW n \in S PROVE n + 1 \in S
  <2> SUFFICES ASSUME n + 1 \in 1..Len(s) PROVE at[n + 1] >= n + 1
    OBVIOUS
  <2>1. at[n + 1] \in 1..Len(t) /\ Len(t) \in Nat
    BY DEF Places
  <2>2. CASE n = 0
    BY <2>1, <2>2
  <2>3. CASE n # 0
    <3>1. n \in 1..Len(s) /\ at[n] >= n
      BY <2>3
    <3>2. at[n] < at[n + 1] /\ at[n] \in 1..Len(t)
      BY <3>1 DEF Places
    <3> QED
      BY <2>1, <3>1, <3>2
  <2> QED
    BY <2>2, <2>3
<1>3. S = Nat
  <2> HIDE DEF S
  <2>1. S \in SUBSET Nat
    BY DEF S
  <2> QED
    BY <1>1, <1>2, <2>1, SetInduction
<1> QED
  BY <1>3

(* Entries taken out of two sequences are taken out of the concatenation. *)
LEMMA ThinnedCat ==
    ASSUME NEW W, NEW a \in Seq(W), NEW b \in Seq(W), NEW c \in Seq(W), NEW d \in Seq(W),
           Thinned(a, c), Thinned(b, d)
    PROVE  Thinned(Cat(a, b), Cat(c, d))
<1>1. PICK f : Places(f, a, c)
  BY DEF Thinned
<1>2. PICK g : Places(g, b, d)
  BY DEF Thinned
<1> DEFINE s == Cat(a, b)
           t == Cat(c, d)
           at == [i \in 1..Len(s) |-> IF i <= Len(a) THEN f[i] ELSE Len(c) + g[i - Len(a)]]
<1>3. /\ Len(s) = Len(a) + Len(b) /\ Len(t) = Len(c) + Len(d)
      /\ Len(a) \in Nat /\ Len(b) \in Nat /\ Len(c) \in Nat /\ Len(d) \in Nat
  BY DEF Cat
<1>4. /\ \A i \in 1..Len(s) : s[i] = IF i <= Len(a) THEN a[i] ELSE b[i - Len(a)]
      /\ \A i \in 1..Len(t) : t[i] = IF i <= Len(c) THEN c[i] ELSE d[i - Len(c)]
  BY DEF Cat
<1>5. /\ \A i \in 1..Len(a) : f[i] \in 1..Len(c) /\ a[i] = c[f[i]]
      /\ \A i, j \in 1..Len(a) : i < j => f[i] < f[j]
  BY <1>1 DEF Places
<1>6. /\ \A i \in 1..Len(b) : g[i] \in 1..Len(d) /\ b[i] = d[g[i]]
      /\ \A i, j \in 1..Len(b) : i < j => g[i] < g[j]
  BY <1>2 DEF Places
<1> HIDE DEF s, t
<1>7. ASSUME NEW i \in 1..Len(s)
      PROVE  /\ at[i] \in 1..Len(t) /\ s[i] = t[at[i]]
             /\ at[i] <= Len(c) <=> i <= Len(a)
  <2>1. CASE i <= Len(a)
    <3>1. i \in 1..Len(a) /\ at[i] = f[i]
      BY <1>3, <2>1
    <3>2. f[i] \in 1..Len(c) /\ a[i] = c[f[i]]
      BY <1>5, <3>1
    <3> QED
      BY <1>3, <1>4, <2>1, <3>1, <3>2
  <2>2. CASE ~(i <= Len(a))
    <3>1. i - Len(a) \in 1..Len(b) /\ at[i] = Len(c) + g[i - Len(a)]
      BY <1>3, <2>2
    <3> DEFINE k == g[i - Len(a)]
    <3>2. k \in 1..Len(d) /\ b[i - Len(a)] = d[k]
      BY <1>6, <3>1
    <3>3. at[i] = Len(c) + k
      BY <3>1
    <3> HIDE DEF k
    <3>4. at[i] \in 1..Len(t) /\ ~(at[i] <= Len(c)) /\ at[i] - Len(c) = k
      BY <1>3, <3>2, <3>3
    <3>5. s[i] = b[i - Len(a)] /\ t[at[i]] = d[k]
      BY <1>4, <2>2, <3>4
    <3> QED
      BY <2>2, <3>2, <3>4, <3>5
  <2> QED
    BY <2>1, <2>2
<1>8. ASSUME NEW i \in 1..Len(s), NEW j \in 1..Len(s), i < j PROVE at[i] < at[j]
  <2>1. CASE j <= Len(a)
    BY <1>3, <1>5, <1>8, <2>1
  <2>2. CASE ~(i <= Len(a))
    <3>1. i - Len(a) \in 1..Len(b) /\ j - Len(a) \in 1..Len(b) /\ i - Len(a) < j - Len(a)
      BY <1>3, <1>8, <2>2
    <3>2. /\ g[i - Len(a)] < g[j - Len(a)]
          /\ g[i - Len(a)] \in 1..Len(d) /\ g[j - Len(a)] \in 1..Len(d)
      BY <1>6, <3>1
    <3>3. at[i] = Len(c) + g[i - Len(a)] /\ at[j] = Len(c) + g[j - Len(a)]
      BY <1>3, <1>8, <2>2
    <3> HIDE DEF at
    <3> QED
      BY <1>3, <3>2, <3>3
  <2>3. CASE i <= Len(a) /\ ~(j <= Len(a))
    <3>1. at[i] <= Len(c) /\ ~(at[j] <= Len(c)) /\ at[i] \in 1..Len(t) /\ at[j] \in 1..Len(t)
      BY <1>7, <2>3
    <3> HIDE DEF at
    <3> QED
      BY <1>3, <3>1
  <2> QED
    BY <1>3, <1>8, <2>1, <2>2, <2>3
<1>9. at \in [1..Len(s) -> 1..Len(t)]
  BY <1>7
<1> HIDE DEF at
<1>10. Places(at, s, t)
  BY <1>7, <1>8, <1>9 DEF Places
<1> QED
  BY <1>10 DEF Thinned, s, t

(* Entries taken out of the members of a list are taken out of what the    *)
(* list is flattened to.                                                   *)
LEMMA ThinnedFlatten ==
    ASSUME NEW W, NEW s \in Seq(Seq(W)), NEW t \in Seq(Seq(W)), s # <<>>, Len(t) = Len(s),
           \A i \in 1..Len(s) : Thinned(s[i], t[i])
    PROVE  Thinned(FlattenSeq(s), FlattenSeq(t))
<1> DEFINE m == Len(s)
           S == {n \in Nat : n \in 1..m => Thinned(Flat(s)[n], Flat(t)[n])}
<1>1. m \in Nat /\ m >= 1 /\ m # 0 /\ Len(t) = m /\ Len(s) = m
  OBVIOUS
<1>2. \A i \in 1..m : s[i] \in Seq(W) /\ t[i] \in Seq(W) /\ Thinned(s[i], t[i])
  OBVIOUS
<1>3. \A i \in 1..m : Flat(s)[i] \in Seq(W) /\ Flat(t)[i] \in Seq(W)
  BY <1>1, FlatType
<1> HIDE DEF m
<1>4. 0 \in S
  BY <1>1
<1>5. ASSUME NEW n \in S PROVE n + 1 \in S
  <2> SUFFICES ASSUME n + 1 \in 1..m PROVE Thinned(Flat(s)[n + 1], Flat(t)[n + 1])
    OBVIOUS
  <2>1. CASE n = 0
    <3>1. Flat(s)[1] = s[1] /\ Flat(t)[1] = t[1]
      BY <1>1, FlatFirst
    <3> QED
      BY <1>2, <2>1, <3>1
  <2>2. CASE n # 0
    <3>1. n \in 1..m /\ n \in Nat /\ n >= 1 /\ n + 1 <= m
      BY <1>1, <2>2
    <3>2. Thinned(Flat(s)[n], Flat(t)[n])
      BY <3>1
    <3>3. Flat(s)[n + 1] = Cat(Flat(s)[n], s[n + 1]) /\ Flat(t)[n + 1] = Cat(Flat(t)[n], t[n + 1])
      BY <1>1, <3>1, FlatNext
    <3>4. Thinned(Cat(Flat(s)[n], s[n + 1]), Cat(Flat(t)[n], t[n + 1]))
      BY <1>2, <1>3, <3>1, <3>2, ThinnedCat
    <3> QED
      BY <3>3, <3>4, Zenon
  <2> QED
    BY <2>1, <2>2
<1>6. S = Nat
  <2> HIDE DEF S
  <2>1. S \in SUBSET Nat
    BY DEF S
  <2> QED
    BY <1>4, <1>5, <2>1, SetInduction
<1>7. FlattenSeq(s) = Flat(s)[m] /\ FlattenSeq(t) = Flat(t)[m]
  BY <1>1, FlattenIsFlat
<1>8. Thinned(Flat(s)[m], Flat(t)[m])
  <2>1. m \in S
    BY <1>1, <1>6, Zenon
  <2>2. m \in 1..m
    BY <1>1
  <2> QED
    BY <2>1, <2>2, Zenon
<1> QED
  BY <1>7, <1>8, Zenon
=============================================================================
