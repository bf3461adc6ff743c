-------------------------------- MODULE Dict --------------------------------
(***************************************************************************)
(* The hash table of Redis (redis-stable/src/dict.c) as operators on a     *)
(* record.  A dict has two tables: a resize allocates table 1, the keys    *)
(* move there one bucket at a time whenever the dict is used, and table 1  *)
(* then becomes table 0.  A chain is a set of keys: its order is left out. *)
(***************************************************************************)
EXTENDS Integers, FiniteSets, FiniteSetsExt

CONSTANTS
    Key,
    Hash(_),      \* the hash of a key
    W,            \* bits of a hash and of a cursor (64)
    InitialExp,   \* DICT_HT_INITIAL_EXP (2)
    MinFill,      \* HASHTABLE_MIN_FILL (8)
    ForceRatio,   \* dict_force_resize_ratio (4)
    EmptyVisits   \* empty buckets a rehashing step may pass (10)

ASSUME DictAssumption ==
    /\ W \in Nat \ {0} /\ InitialExp \in 0..W
    /\ MinFill \in Nat \ {0} /\ ForceRatio \in Nat \ {0} /\ EmptyVisits \in Nat \ {0}
    /\ \A k \in Key : Hash(k) \in 0..(2^W - 1)

(* dict_can_resize, as updateDictResizePolicy sets it: AVOID while a child *)
(* process saves (FORBID is the policy of the child itself).               *)
Policy == {"ENABLE", "AVOID", "FORBID"}

Size(e) == IF e = -1 THEN 0 ELSE 2^e
Bucket(h, e) == IF e = -1 THEN 0 ELSE h % Size(e)

(* A table without keys; that of exponent -1 has no bucket. *)
NewTable(e) == [i \in 0..(Size(e) - 1) |-> {}]

(* What there is of tables 0 and 1. *)
Pair(x, y) == [t \in 0..1 |-> IF t = 0 THEN x ELSE y]

(* exp, ht : table (0, 1) -> exponent, buckets;  rehashidx : next bucket   *)
(* of table 0 to move, or -1;  pause : pauserehash.                        *)
DictCreate == [exp       |-> Pair(-1, -1),
               ht        |-> Pair(NewTable(-1), NewTable(-1)),
               rehashidx |-> -1,
               pause     |-> 0]

Keys(d, t)     == UNION {d.ht[t][i] : i \in DOMAIN d.ht[t]}
Used(d, t)     == Cardinality(Keys(d, t))
DictKeys(d)    == Keys(d, 0) \cup Keys(d, 1)
DictSize(d)    == Used(d, 0) + Used(d, 1)
Buckets(d)     == Size(d.exp[0]) + Size(d.exp[1])
IsRehashing(d) == d.rehashidx # -1

DictOK(d) ==
    /\ d.exp \in [0..1 -> -1..W]
    /\ DOMAIN d.ht = 0..1
    /\ \A t \in 0..1 : d.ht[t] \in [0..(Size(d.exp[t]) - 1) -> SUBSET Key]
    /\ d.rehashidx \in -1..Size(d.exp[0])
    /\ d.pause \in Nat

-----------------------------------------------------------------------------
(* Resizing *)

(* _dictNextExp *)
NextExp(n) == IF n <= 2^InitialExp THEN InitialExp
              ELSE CHOOSE e \in 1..W : n <= 2^e /\ n > 2^(e - 1)

(* _dictResize: an empty table is replaced at once. *)
Resize(d, n) ==
    LET e == NextExp(n) IN
    IF e = d.exp[0] THEN d
    ELSE IF Used(d, 0) = 0
    THEN [d EXCEPT !.exp[0] = e, !.ht[0] = NewTable(e)]
    ELSE [d EXCEPT !.exp[1] = e, !.ht[1] = NewTable(e), !.rehashidx = 0]

DictExpand(d, n) ==
    IF IsRehashing(d) \/ Used(d, 0) > n \/ Size(d.exp[0]) >= n THEN d ELSE Resize(d, n)

DictShrink(d, n) ==
    IF IsRehashing(d) \/ Used(d, 0) > n \/ Size(d.exp[0]) <= n THEN d ELSE Resize(d, n)

(* dictTypeResizeAllowed with the databases' dictResizeAllowed: unless the *)
(* chains are long, the new table must fit under maxmemory.                *)
ResizeAllowed(d, fits) == fits \/ 1000 * Used(d, 0) > 1618 * Size(d.exp[0])

(* dictExpandIfNeeded, dictShrinkIfNeeded: whether a resize is called for. *)
WantsExpand(d, policy) ==
    \/ policy = "ENABLE" /\ Used(d, 0) >= Size(d.exp[0])
    \/ policy # "FORBID" /\ Used(d, 0) >= ForceRatio * Size(d.exp[0])

WantsShrink(d, policy) ==
    \/ policy = "ENABLE" /\ Used(d, 0) * MinFill <= Size(d.exp[0])
    \/ policy # "FORBID" /\ Used(d, 0) * MinFill * ForceRatio <= Size(d.exp[0])

ExpandIfNeeded(d, policy, fits) ==
    IF IsRehashing(d) THEN d
    ELSE IF d.exp[0] = -1 THEN DictExpand(d, 2^InitialExp)
    ELSE IF WantsExpand(d, policy) /\ ResizeAllowed(d, fits)
    THEN DictExpand(d, Used(d, 0) + 1)
    ELSE d

ShrinkIfNeeded(d, policy, fits) ==
    IF IsRehashing(d) \/ Size(d.exp[0]) <= 2^InitialExp THEN d
    ELSE IF WantsShrink(d, policy) /\ ResizeAllowed(d, fits)
    THEN DictShrink(d, Used(d, 0))
    ELSE d

(* kvstoreTryResizeDicts, for one dict: it expands only where shrinking    *)
(* has nothing to say (DICT_ERR).                                          *)
TryResize(d, policy, fits) ==
    IF IsRehashing(d) \/ Size(d.exp[0]) <= 2^InitialExp \/ WantsShrink(d, policy)
    THEN ShrinkIfNeeded(d, policy, fits)
    ELSE ExpandIfNeeded(d, policy, fits)

-----------------------------------------------------------------------------
(* Rehashing *)

(* Mutant: only the head of the chain is moved. *)
MoveHead(d, i) ==
    LET to(k) == Hash(k) % Size(d.exp[1])
        head == {k \in d.ht[0][i] : \A l \in d.ht[0][i] : k <= l}
    IN  [d EXCEPT !.ht[0][i] = {},
                  !.ht[1] = [j \in DOMAIN @ |-> @[j] \cup {k \in head : to(k) = j}]]

(* rehashEntriesInBucketAtIndex: in a smaller table the index is cut short *)
(* instead of the hash.                                                    *)
MoveBucket(d, i) ==
    LET to(k) == IF d.exp[1] > d.exp[0] THEN Hash(k) % Size(d.exp[1])
                                        ELSE i % Size(d.exp[1])
    IN  [d EXCEPT !.ht[0][i] = {},
                  !.ht[1] = [j \in DOMAIN @ |-> @[j] \cup {k \in d.ht[0][i] : to(k) = j}]]

(* dictCheckRehashingCompleted *)
CheckCompleted(d) ==
    IF Used(d, 0) # 0 THEN d
    ELSE [d EXCEPT !.exp = Pair(@[1], -1),
                   !.ht  = Pair(@[1], NewTable(-1)),
                   !.rehashidx = -1]

(* With a child process only a resize by a large factor is carried on. *)
MayRehash(d, policy) ==
    LET s0 == Size(d.exp[0])
        s1 == Size(d.exp[1])
    IN  /\ policy # "FORBID" /\ IsRehashing(d)
        /\ ~ /\ policy = "AVOID"
             /\ \/ s1 > s0 /\ s1 < ForceRatio * s0
                \/ s1 < s0 /\ s0 < MinFill * ForceRatio * s1

(* One turn of dictRehash's loop, on the dict and the empty buckets it may *)
(* still pass; stop: these are used up.                                    *)
OneBucket(r) ==
    LET d == r.dict
        i == Min({j \in DOMAIN d.ht[0] : j >= d.rehashidx /\ d.ht[0][j] # {}})
        empty == i - d.rehashidx
    IN  IF r.stop \/ Used(d, 0) = 0 THEN r
        ELSE IF empty >= r.visits
        THEN [r EXCEPT !.dict.rehashidx = @ + r.visits, !.stop = TRUE]
        ELSE [dict   |-> [MoveBucket(d, i) EXCEPT !.rehashidx = i + 1],
              visits |-> r.visits - empty,
              stop   |-> FALSE]

DictRehash(d, n, policy) ==
    LET run[j \in 0..n] ==
            IF j = 0 THEN [dict |-> d, visits |-> n * EmptyVisits, stop |-> FALSE]
                     ELSE OneBucket(run[j - 1])
    IN  IF ~MayRehash(d, policy) THEN d
        ELSE IF run[n].stop THEN run[n].dict
        ELSE CheckCompleted(run[n].dict)

(* _dictRehashStep *)
RehashStep(d, policy) == IF d.pause = 0 THEN DictRehash(d, 1, policy) ELSE d

(* _dictBucketRehash *)
BucketRehash(d, i, policy) ==
    IF d.pause # 0 \/ ~MayRehash(d, policy) THEN d ELSE CheckCompleted(MoveBucket(d, i))

(* How finding, adding and deleting a key begin: its own bucket is moved   *)
(* if it is still to be moved, the next one otherwise.                     *)
Touch(d, k, policy) ==
    LET i == Bucket(Hash(k), d.exp[0]) IN
    IF ~IsRehashing(d) THEN d
    ELSE IF i >= d.rehashidx /\ d.ht[0][i] # {} THEN BucketRehash(d, i, policy)
    ELSE RehashStep(d, policy)

-----------------------------------------------------------------------------
(* Keys *)

(* Mutant: table 1 is not searched. *)
TablesOldOnly(d, k, i) ==
    {t \in {0} : d.exp[t] # -1 /\ k \in d.ht[t][Bucket(Hash(k), d.exp[t])]}

(* The tables in which the key is found; i is its bucket of table 0 before *)
(* Touch, which decides whether that table is looked at.                   *)
Tables(d, k, i) ==
    {t \in 0..1 : /\ t = 0 => i >= d.rehashidx
                  /\ t = 1 => IsRehashing(d)
                  /\ d.exp[t] # -1
                  /\ k \in d.ht[t][Bucket(Hash(k), d.exp[t])]}

(* dictFind: the dict after it, and whether the key is found. *)
DictFind(d, k, policy) == IF DictSize(d) = 0 THEN d ELSE Touch(d, k, policy)
Found(d, k, policy) ==
    /\ DictSize(d) # 0
    /\ Tables(Touch(d, k, policy), k, Bucket(Hash(k), d.exp[0])) # {}

(* Mutant: the key goes to table 0 though it is being emptied. *)
AddToOld(d, k, policy, fits) ==
    LET e == ExpandIfNeeded(Touch(d, k, policy), policy, fits)
    IN  IF Tables(e, k, Bucket(Hash(k), d.exp[0])) # {} THEN e
        ELSE [e EXCEPT !.ht[0][Bucket(Hash(k), e.exp[0])] = @ \cup {k}]

(* dictAddRaw = dictFindPositionForInsert, dictInsertAtPosition *)
DictAdd(d, k, policy, fits) ==
    LET e == ExpandIfNeeded(Touch(d, k, policy), policy, fits)
        t == IF IsRehashing(e) THEN 1 ELSE 0
    IN  IF Tables(e, k, Bucket(Hash(k), d.exp[0])) # {} THEN e
        ELSE [e EXCEPT !.ht[t][Bucket(Hash(k), e.exp[t])] = @ \cup {k}]

Unlink(d, k, t) == [d EXCEPT !.ht[t][Bucket(Hash(k), d.exp[t])] = @ \ {k}]

(* dictGenericDelete *)
DictDelete(d, k, policy, fits) ==
    LET e == Touch(d, k, policy)
        in == Tables(e, k, Bucket(Hash(k), d.exp[0]))
    IN  IF DictSize(d) = 0 THEN d
        ELSE IF in = {} THEN e
        ELSE ShrinkIfNeeded(Unlink(e, k, Min(in)), policy, fits)

(* dictTwoPhaseUnlinkFind, dictTwoPhaseUnlinkFree: here the next bucket is *)
(* moved, whichever key is asked for.                                      *)
TwoPhaseUnlink(d, k, policy, fits) ==
    LET e == IF IsRehashing(d) THEN RehashStep(d, policy) ELSE d
        in == Tables(e, k, Bucket(Hash(k), e.exp[0]))
    IN  IF DictSize(d) = 0 THEN d
        ELSE IF in = {} THEN e
        ELSE ShrinkIfNeeded(Unlink(e, k, Min(in)), policy, fits)

-----------------------------------------------------------------------------
(* dictScan: the cursor counts in bit-reversed order. *)

(* rev: the bits of a word in reverse order. *)
Bit(v, i) == (v \div 2^i) % 2
Rev == [v \in 0..(2^W - 1) |->
            MapThenSumSet(LAMBDA i : Bit(v, i) * 2^(W - 1 - i), 0..(W - 1))]

(* Mutant: the cursor counts upwards. *)
CountUp(v, e) == (v + 1) % 2^W

(* v |= ~m; v = rev(v); v++; v = rev(v), for the mask m of exponent e *)
NextCursor(v, e) ==
    LET ones == (v % Size(e)) + (2^W - Size(e))
    IN  Rev[(Rev[ones] + 1) % 2^W]

(* v & (m0 ^ m1): the bits only the larger mask has. *)
HighBits(v, small, large) == (v % Size(large)) - (v % Size(small))

(* The buckets of the larger table that continue one of the smaller, from  *)
(* v on, and the cursor after them.                                        *)
Expansions(v, small, large) ==
    LET walk[u \in 0..(2^W - 1)] ==
            LET n == NextCursor(u, large) IN
            IF HighBits(n, small, large) = 0
            THEN [buckets |-> {u % Size(large)}, cursor |-> n]
            ELSE [buckets |-> {u % Size(large)} \cup walk[n].buckets,
                  cursor  |-> walk[n].cursor]
    IN  walk[v]

(* The keys returned for cursor v, and the next cursor. *)
DictScan(d, v) ==
    LET s == IF d.exp[0] > d.exp[1] THEN 1 ELSE 0      \* the smaller table
        l == 1 - s
        x == Expansions(v, d.exp[s], d.exp[l])
    IN  IF DictSize(d) = 0 THEN [keys |-> {}, cursor |-> 0]
        ELSE IF ~IsRehashing(d)
        THEN [keys |-> d.ht[0][Bucket(v, d.exp[0])], cursor |-> NextCursor(v, d.exp[0])]
        ELSE [keys |-> d.ht[s][Bucket(v, d.exp[s])] \cup UNION {d.ht[l][i] : i \in x.buckets},
              cursor |-> x.cursor]
=============================================================================
