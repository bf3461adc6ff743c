------------------------------- MODULE Kvstore -------------------------------
(***************************************************************************)
(* A database of Redis as kept by redis-stable/src/kvstore.c: one dict per *)
(* slot, made on demand and freed when empty, and a binary indexed tree of *)
(* their sizes.  Commands add, find and delete keys; clients scan with a   *)
(* cursor, over many commands; a command may walk one dict with a safe     *)
(* iterator and change it meanwhile; the cron job resizes and rehashes.    *)
(***************************************************************************)
EXTENDS Dict, Sequences

CONSTANTS
    Bits,         \* num_dicts_bits
    Slot(_),      \* the dict a key belongs to
    FreeEmpty,    \* KVSTORE_FREE_EMPTY_DICTS (cluster mode)
    Memory,       \* whether a new table fits under maxmemory: the answers there are
    Client,       \* clients that scan
    OnlyDict,     \* the dicts scans are restricted to; -1 for none
    CronDicts,    \* dicts a cron call resizes (CRON_DICTS_PER_DB)
    Batch,        \* buckets a cron call moves (100)
    ExpandTo,     \* sizes kvstoreExpand is called with
    Served,       \* the dicts of slots this node serves (dbExpandSkipSlot)
    MaxCount,     \* bound: where bucket_count and non_empty_dicts saturate
    WalkAlone     \* bound: a dict is walked only if there is no other, nor a scan

NumDicts == 2^Bits
Index == 0..(NumDicts - 1)

ASSUME KvstoreAssumption ==
    /\ Bits \in Nat \ {0}
    /\ Memory \subseteq BOOLEAN /\ -1 \in OnlyDict /\ OnlyDict \subseteq {-1} \cup Index
    /\ FreeEmpty \in BOOLEAN /\ CronDicts \in 1..NumDicts /\ Batch \in Nat \ {0}
    /\ ExpandTo \subseteq 1..2^W /\ Served \subseteq Index
    /\ MaxCount \in Nat /\ WalkAlone \in BOOLEAN
    /\ \A k \in Key : Slot(k) \in Index

(* A dict never has as many keys as a word has values. *)
ASSUME FewKeys ==
    IsFiniteSet(Key) /\ \A i \in Index : Cardinality({k \in Key : Slot(k) = i}) < 2^W

VARIABLES
    kvs,      \* the kvstore
    policy,   \* dict_can_resize
    scan,     \* Client -> its scan
    iter,     \* the safe iterator of the command that runs
    missed,   \* history: keys that finished scans have not returned
    misread,  \* history: keys an iterator has not returned, or twice
    asked     \* history: the keys the last step was asked to add and to delete

vars == <<kvs, policy, scan, iter, missed, misread, asked>>

(* alloc : dicts that are not NULL;  index : dict_size_index.  Every       *)
(* change of a live dict's tables goes through rehashingStarted and        *)
(* rehashingCompleted, which keep bucket_count.                            *)

(* only : the one dict to scan, or -1;  due : keys present since the scan  *)
(* began and not returned yet.                                             *)
NoScan == [on |-> FALSE, cursor |-> 0, only |-> -1, due |-> {}]
(* rest : the chain after the entry returned last;  seen, due : history.   *)
NoIter == [on |-> FALSE, didx |-> 0, table |-> 0, index |-> -1, rest |-> {},
           last |-> {}, seen |-> {}, due |-> {}]

(* What a step asks of the set of keys. *)
Asks(add, delete) == asked' = [add |-> add, delete |-> delete]
AsksNothing == Asks({}, {})

AllKeys(s) == UNION {DictKeys(s.dicts[i]) : i \in Index}

TypeOK ==
    /\ kvs.alloc \subseteq Index
    /\ \A i \in Index : DictOK(kvs.dicts[i]) /\ DictKeys(kvs.dicts[i]) \subseteq Key
    /\ kvs.key_count \in Nat /\ kvs.index \in [1..NumDicts -> Nat]
    /\ kvs.non_empty \in 0..MaxCount /\ kvs.bucket_count \in 0..MaxCount
    /\ kvs.resize_cursor \in Index
    /\ policy \in Policy
    /\ scan \in [Client -> [on : BOOLEAN, cursor : 0..(2^(W + Bits) - 1),
                            only : OnlyDict, due : SUBSET Key]]
    /\ iter.rest \subseteq Key /\ iter.due \subseteq Key /\ iter.seen \subseteq Key
    /\ missed \subseteq Key /\ misread \subseteq Key
    /\ asked \in [add : SUBSET Key, delete : SUBSET Key]

Init ==
    /\ kvs = [dicts |-> [i \in Index |-> DictCreate], alloc |-> {}, key_count |-> 0,
              non_empty |-> 0, bucket_count |-> 0,
              index |-> [j \in 1..NumDicts |-> 0], resize_cursor |-> 0]
    /\ policy = "ENABLE"
    /\ scan = [c \in Client |-> NoScan]
    /\ iter = NoIter
    /\ missed = {} /\ misread = {}
    /\ asked = [add |-> {}, delete |-> {}]

-----------------------------------------------------------------------------
(* The binary indexed tree: node j counts the keys of the LowBit(j) dicts  *)
(* up to dict j - 1.                                                       *)

LowBit == [j \in 1..NumDicts |-> Max({2^b : b \in {c \in 0..Bits : j % 2^c = 0}})]

(* The nodes cumulativeKeyCountAdd changes, from node j on; and what       *)
(* cumulativeKeyCountRead adds up for dict i.                              *)
Up[j \in 1..(2 * NumDicts)] == IF j > NumDicts THEN {} ELSE {j} \cup Up[j + LowBit[j]]

CountUpTo(s, i) ==
    LET sum[j \in 0..NumDicts] == IF j = 0 THEN 0 ELSE s.index[j] + sum[j - LowBit[j]]
    IN  sum[i + 1]

(* kvstoreFindDictIndexByKeyIndex: the dict of the target-th key. *)
FindDict(s, target) ==
    LET walk[b \in 0..(Bits + 1)] ==      \* before the bits below b are tried
            IF b = Bits + 1 THEN <<0, target>>
            ELSE LET r == walk[b + 1]
                     n == r[1] + 2^b
                 IN  IF n <= NumDicts /\ r[2] > s.index[n]
                     THEN <<n, r[2] - s.index[n]>> ELSE r
    IN  IF s.key_count = 0 THEN 0 ELSE walk[0][1]

(* kvstoreGetNextNonEmptyDictIndex *)
NextNonEmpty(s, i) ==
    LET next == CountUpTo(s, i) + 1
    IN  IF next <= s.key_count THEN FindDict(s, next) ELSE -1

-----------------------------------------------------------------------------
(* Changing one dict *)

Saturate(n) == IF n > MaxCount THEN MaxCount ELSE IF n < 0 THEN 0 ELSE n

(* Dict i becomes d, by operations of dict.c. *)
SetDict(s, i, d) ==
    [s EXCEPT !.dicts[i] = d,
              !.bucket_count = Saturate(@ + Buckets(d) - Buckets(s.dicts[i]))]

(* Mutant: the nodes above are left as they are. *)
CountOwnNode(s, i, delta) ==
    [s EXCEPT !.key_count = @ + delta, !.index[i + 1] = @ + delta]

(* cumulativeKeyCountAdd, called after the dict has changed.  It looks at  *)
(* the new size alone, not at the sign of delta.                           *)
KeyCountAdd(s, i, delta) ==
    LET n == DictSize(s.dicts[i])
        more == IF n = 1 THEN 1 ELSE IF n = 0 THEN -1 ELSE 0
    IN  [s EXCEPT !.key_count = @ + delta,
                  !.non_empty = Saturate(@ + more),
                  !.index = [j \in 1..NumDicts |-> IF j \in Up[i + 1] THEN @[j] + delta ELSE @[j]]]

(* Mutant: a dict that is being walked is freed too. *)
FreeAnyway(s, i) ==
    IF FreeEmpty /\ i \in s.alloc /\ DictSize(s.dicts[i]) = 0
    THEN [s EXCEPT !.dicts[i] = DictCreate, !.alloc = @ \ {i}]
    ELSE s

(* freeDictIfNeeded: dictRelease reports the end of a rehashing, and the   *)
(* tables go without a word.                                               *)
FreeDictIfNeeded(s, i) ==
    IF FreeEmpty /\ i \in s.alloc /\ DictSize(s.dicts[i]) = 0 /\ s.dicts[i].pause = 0
    THEN [s EXCEPT !.dicts[i] = DictCreate, !.alloc = @ \ {i},
                   !.bucket_count =
                       IF IsRehashing(s.dicts[i]) THEN Saturate(@ - Size(s.dicts[i].exp[0])) ELSE @]
    ELSE s

(* kvstoreDictAddRaw *)
KvsAdd(s, k, fits) ==
    LET i == Slot(k)
        t == SetDict([s EXCEPT !.alloc = @ \cup {i}], i, DictAdd(s.dicts[i], k, policy, fits))
    IN  IF k \in DictKeys(s.dicts[i]) THEN t ELSE KeyCountAdd(t, i, 1)

(* kvstoreDictDelete, or kvstoreDictTwoPhaseUnlinkFind and -Free: d is     *)
(* the dict of k after dict.c has deleted it.                              *)
KvsDelete(s, k, d) ==
    LET i == Slot(k)
        t == SetDict(s, i, d)
    IN  IF i \notin s.alloc THEN s
        ELSE IF DictSize(t.dicts[i]) = DictSize(s.dicts[i]) THEN t
        ELSE FreeDictIfNeeded(KeyCountAdd(t, i, -1), i)

Pause(s, i, n) == [s EXCEPT !.dicts[i].pause = @ + n]

(* What walks in progress are still owed, without the keys deleted. *)
Forget(ks) ==
    /\ scan' = [c \in Client |-> [scan[c] EXCEPT !.due = @ \ ks]]
    /\ iter' = [iter EXCEPT !.due = @ \ ks, !.last = @ \ ks, !.seen = @ \ ks]

-----------------------------------------------------------------------------
(* Commands on keys; a command that walks a dict may add and find keys,    *)
(* and delete the one it was given last.                                   *)

Add(k) ==
    /\ iter.on /\ WalkAlone => Slot(k) = iter.didx
    /\ \E fits \in Memory : kvs' = KvsAdd(kvs, k, fits)
    /\ Asks({k}, {})
    /\ UNCHANGED <<policy, scan, iter, missed, misread>>

(* kvstoreDictFind *)
Find(k) ==
    /\ Slot(k) \in kvs.alloc
    /\ kvs' = SetDict(kvs, Slot(k), DictFind(kvs.dicts[Slot(k)], k, policy))
    /\ AsksNothing
    /\ UNCHANGED <<policy, scan, iter, missed, misread>>

Delete(k) ==
    /\ iter.on => k \in iter.last
    /\ \E fits \in Memory : LET d == kvs.dicts[Slot(k)] IN
        \/ kvs' = KvsDelete(kvs, k, DictDelete(d, k, policy, fits))
        \/ kvs' = KvsDelete(kvs, k, TwoPhaseUnlink(d, k, policy, fits))
    /\ Forget({k})
    /\ Asks({}, {k})
    /\ UNCHANGED <<policy, missed, misread>>

(* kvstoreEmpty *)
Empty ==
    LET e == [i \in Index |-> DictCreate] IN
    /\ ~iter.on
    /\ kvs' = [dicts |-> e, alloc |-> IF FreeEmpty THEN {} ELSE kvs.alloc, key_count |-> 0,
               non_empty |-> 0, bucket_count |-> 0,
               index |-> [j \in 1..NumDicts |-> 0], resize_cursor |-> 0]
    /\ Forget(Key)
    /\ Asks({}, Key)
    /\ UNCHANGED <<policy, missed, misread>>

(* kvstoreExpand, before a file is loaded or by DEBUG POPULATE *)
Expand(n) ==
    LET after[j \in 0..NumDicts] ==
            IF j = 0 THEN kvs
            ELSE IF j - 1 \notin kvs.alloc \cap Served THEN after[j - 1]
            ELSE SetDict(after[j - 1], j - 1, DictExpand(kvs.dicts[j - 1], n))
    IN  /\ ~iter.on
        /\ kvs' = after[NumDicts]
        /\ AsksNothing
        /\ UNCHANGED <<policy, scan, iter, missed, misread>>

-----------------------------------------------------------------------------
(* databasesCron: kvstoreTryResizeDicts, then kvstoreIncrementallyRehash,  *)
(* unless there is a child process.                                        *)

Resized(s, fits) ==
    LET at(j) == (s.resize_cursor + j - 1) % NumDicts
        after[j \in 0..CronDicts] ==
            IF j = 0 THEN s
            ELSE IF at(j) \notin s.alloc THEN after[j - 1]
            ELSE SetDict(after[j - 1], at(j), TryResize(s.dicts[at(j)], policy, fits))
    IN  [after[CronDicts] EXCEPT !.resize_cursor = (s.resize_cursor + CronDicts) % NumDicts]

Rehashed(s, i) == SetDict(s, i, DictRehash(s.dicts[i], Batch, policy))

Cron ==
    /\ ~iter.on
    /\ policy = "ENABLE"
    /\ \E fits \in Memory :
        LET s == Resized(kvs, fits)
            busy == {i \in Index : IsRehashing(s.dicts[i])}
        IN  IF busy = {} THEN kvs' = s ELSE \E i \in busy : kvs' = Rehashed(s, i)
    /\ AsksNothing
    /\ UNCHANGED <<policy, scan, iter, missed, misread>>

(* updateDictResizePolicy: a child process starts or ends. *)
Child ==
    /\ ~iter.on
    /\ policy' = IF policy = "ENABLE" THEN "AVOID" ELSE "ENABLE"
    /\ AsksNothing
    /\ UNCHANGED <<kvs, scan, iter, missed, misread>>

-----------------------------------------------------------------------------
(* kvstoreScan *)

(* A call with cursor v: the dict it falls in, the keys and the cursor     *)
(* dictScan gives there, and the cursor that is returned.                  *)
Position(v, only) ==
    IF only >= 0 /\ v % NumDicts < only THEN [didx |-> only, v |-> 0]
    ELSE [didx |-> v % NumDicts, v |-> v \div NumDicts]

Past(v, only) == only >= 0 /\ v % NumDicts > only

Scanned(s, v, only) ==
    LET p == Position(v, only) IN
    IF Past(v, only) \/ p.didx \notin s.alloc THEN [keys |-> {}, cursor |-> 0]
    ELSE DictScan(s.dicts[p.didx], p.v)

(* r is what dictScan gave, s the store after the call, from which the     *)
(* callback may have deleted keys.                                         *)
Returned(s, r, v, only) ==
    LET i == Position(v, only).didx
        next == IF r.cursor # 0 THEN i ELSE NextNonEmpty(s, i)
    IN  IF Past(v, only) \/ (r.cursor = 0 /\ only >= 0) \/ next = -1 THEN 0
        ELSE r.cursor * NumDicts + next

(* The callback deletes the keys of gone (as activeExpireCycle's does),    *)
(* while rehashing is paused.                                              *)
AfterScan(s, v, only, gone, fits) ==
    LET i == Position(v, only).didx
        del == FoldSet(LAMBDA k, t :
                           KvsDelete(t, k, TwoPhaseUnlink(t.dicts[Slot(k)], k, policy, fits)),
                       Pause(s, i, 1), gone)
    IN  IF Past(v, only) \/ i \notin s.alloc THEN s
        ELSE FreeDictIfNeeded(Pause(del, i, -1), i)

(* One call by client c.  A scan starts with cursor 0 and ends when 0 is   *)
(* returned.                                                               *)
ScanCall(c, only) ==
    LET sc == IF scan[c].on THEN scan[c]
              ELSE [on |-> TRUE, cursor |-> 0, only |-> only,
                    due |-> {k \in AllKeys(kvs) : only = -1 \/ Slot(k) = only}]
        r == Scanned(kvs, sc.cursor, sc.only)
    IN  /\ ~iter.on
        /\ scan[c].on => only = scan[c].only
        /\ \E gone \in SUBSET (Key \cap r.keys), fits \in Memory :
            LET t == AfterScan(kvs, sc.cursor, sc.only, gone, fits)
                v == Returned(t, r, sc.cursor, sc.only)
                due == sc.due \ r.keys
            IN  /\ kvs' = t
                /\ scan' = [b \in Client |->
                       IF b # c THEN [scan[b] EXCEPT !.due = @ \ gone]
                       ELSE IF v = 0 THEN NoScan
                       ELSE [sc EXCEPT !.cursor = v, !.due = due]]
                /\ missed' = IF v = 0 THEN missed \cup due ELSE missed
                /\ Asks({}, gone)
        /\ UNCHANGED <<policy, iter, misread>>

-----------------------------------------------------------------------------
(* kvstoreGetDictSafeIterator, kvstoreDictIteratorNext,                    *)
(* kvstoreReleaseDictIterator                                              *)

IterStart(i) ==
    /\ ~iter.on
    /\ i \in kvs.alloc
    /\ WalkAlone => kvs.alloc = {i} /\ \A c \in Client : ~scan[c].on
    /\ iter' = [NoIter EXCEPT !.on = TRUE, !.didx = i, !.due = DictKeys(kvs.dicts[i])]
    /\ AsksNothing
    /\ UNCHANGED <<kvs, policy, scan, missed, misread>>

(* Mutant: rehashing goes on under the iterator. *)
NoPause(s, it) == s

(* The first call pauses rehashing and passes the buckets already moved. *)
Paused(s, it) == IF it.table = 0 /\ it.index = -1 THEN Pause(s, it.didx, 1) ELSE s
Begun(d, it) ==
    IF it.table = 0 /\ it.index = -1 /\ IsRehashing(d)
    THEN [it EXCEPT !.index = d.rehashidx - 1] ELSE it

(* The buckets dictNext has still to visit: those of table 1 only while    *)
(* the dict is rehashing.                                                  *)
Ahead(d, it) ==
    {b \in {<<t, i>> : t \in 0..1, i \in 0..(2^W - 1)} :
        /\ b[2] \in DOMAIN d.ht[b[1]]
        /\ d.ht[b[1]][b[2]] # {}
        /\ \/ b[1] = it.table /\ b[2] > it.index
           \/ b[1] > it.table /\ IsRehashing(d)}

First(bs) == CHOOSE b \in bs : \A a \in bs : b[1] < a[1] \/ (b[1] = a[1] /\ b[2] <= a[2])

Give(it, k) ==
    /\ iter' = [it EXCEPT !.rest = @ \ {k}, !.last = {k},
                          !.seen = @ \cup {k}, !.due = @ \ {k}]
    /\ misread' = IF k \in it.seen THEN misread \cup {k} ELSE misread

IterNext ==
    LET d == kvs.dicts[iter.didx]
        it == Begun(d, iter)
        b == First(Ahead(d, it))
        chain == d.ht[b[1]][b[2]]
    IN  /\ iter.on
        /\ kvs' = Paused(kvs, iter)
        /\ \/ \E k \in iter.rest : Give(iter, k)
           \/ /\ iter.rest = {}
              /\ Ahead(d, it) # {}
              /\ \E k \in chain :
                     Give([it EXCEPT !.table = b[1], !.index = b[2], !.rest = chain], k)
        /\ AsksNothing
        /\ UNCHANGED <<policy, scan, missed>>

(* The walk is over, or given up. *)
IterRelease ==
    LET i == iter.didx
        over == iter.rest = {} /\ Ahead(kvs.dicts[i], Begun(kvs.dicts[i], iter)) = {}
        begun == iter.index # -1 \/ iter.table # 0
    IN  /\ iter.on
        /\ kvs' = FreeDictIfNeeded(IF begun THEN Pause(kvs, i, -1) ELSE kvs, i)
        /\ iter' = NoIter
        /\ misread' = IF over THEN misread \cup iter.due ELSE misread
        /\ AsksNothing
        /\ UNCHANGED <<policy, scan, missed>>

-----------------------------------------------------------------------------
Next ==
    \/ \E k \in Key : Add(k) \/ Find(k) \/ Delete(k)
    \/ Empty
    \/ \E n \in ExpandTo : Expand(n)
    \/ Cron
    \/ Child
    \/ \E c \in Client, only \in OnlyDict : ScanCall(c, only)
    \/ \E i \in Index : IterStart(i)
    \/ IterNext
    \/ IterRelease

Spec == Init /\ [][Next]_vars

-----------------------------------------------------------------------------
(* Safety *)

(* A key that is in the database from the start of a scan to its end is    *)
(* returned by it, though the tables grow, shrink, are rehashed, freed and *)
(* made anew between its calls, and other dicts come and go.               *)
ScanComplete == missed = {}

(* A safe iterator returns every key that stays, and none twice, while its *)
(* user adds keys and deletes the one returned.                            *)
IteratorExact == misread = {}

(* Its dict is not freed under it when its last key is deleted. *)
IteratorDictLive == iter.on => iter.didx \in kvs.alloc

(* A stored key is found, wherever rehashing stands: it is in one bucket   *)
(* only, and that bucket is looked at.                                     *)
KeysFound ==
    \A i \in Index : LET d == kvs.dicts[i] IN
        /\ Keys(d, 0) \cap Keys(d, 1) = {}
        /\ \A k \in DictKeys(d) : Slot(k) = i /\ Found(d, k, policy)

(* The assertion of dictRehash: the buckets up to rehashidx are empty, so  *)
(* that it never runs over the end of table 0.                             *)
MovedBucketsEmpty ==
    \A i \in Index : \A j \in DOMAIN kvs.dicts[i].ht[0] :
        j < kvs.dicts[i].rehashidx => kvs.dicts[i].ht[0][j] = {}

(* The tree agrees with the dicts: it finds the dict of the n-th key, on   *)
(* which scans and random keys rely to pass over empty dicts.              *)
IndexExact ==
    LET upTo[i \in Index] ==
            DictSize(kvs.dicts[i]) + IF i = 0 THEN 0 ELSE upTo[i - 1]
    IN
    /\ \A i \in Index : CountUpTo(kvs, i) = upTo[i]
    /\ kvs.key_count = upTo[NumDicts - 1]
    /\ \A n \in 1..kvs.key_count :
        LET i == FindDict(kvs, n) IN upTo[i] >= n /\ upTo[i] - DictSize(kvs.dicts[i]) < n

(* The database is the plain set of keys KeySet describes: a command adds  *)
(* or deletes exactly the keys it names, a scan deletes those its callback *)
(* deletes, and looking keys up, resizing, rehashing, walking and freeing  *)
(* tables neither lose a key nor bring a deleted one back.                 *)
Abstract == INSTANCE KeySet WITH keys <- AllKeys(kvs)
KeysKept == Abstract!Spec

-----------------------------------------------------------------------------
(* A scan comes to an end whatever happens to the tables: every call puts  *)
(* the cursor further on in bit-reversed order, and there are only so many *)
(* positions.                                                              *)
Order(v) == (v % NumDicts) * 2^W + Rev[v \div NumDicts]
CursorAdvances ==
    \A c \in Client : scan[c].on =>
        LET now == scan[c].cursor
            next == Returned(kvs, Scanned(kvs, now, scan[c].only), now, scan[c].only)
        IN  next = 0 \/ Order(next) > Order(now)

-----------------------------------------------------------------------------
(* What comments say, and the code does not ensure. *)

(* kvstore.c, non_empty_dicts "The number of non-empty dicts." *)
NonEmptyExact ==
    kvs.non_empty = Saturate(Cardinality({i \in Index : DictSize(kvs.dicts[i]) # 0}))
=============================================================================
