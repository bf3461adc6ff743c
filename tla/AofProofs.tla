----------------------------- MODULE AofProofs ------------------------------
(***************************************************************************)
(* Safety of Aof, proved for any numbers of writes, files and faults: a    *)
(* server that is killed at any point loads what it had.                   *)
(*                                                                         *)
(* The invariant AInv says which files are there and what they hold while  *)
(* the main thread is at each of its steps; every action keeps it.         *)
(***************************************************************************)
EXTENDS Aof, FlattenLemmas

(* Not the two failures after which the server goes on in a wrong state:   *)
(* the sync of the directory, and the fork of startAppendOnly.             *)
SoundFaults == "directory" \notin MayFail /\ "forkAtStart" \notin MayFail

(* And every sync is sooner or later done. *)
SyncsSucceed == "fsync" \notin MayFail /\ WritesBack

(* Sequences of writes, files, what the descriptor may be open on, jobs. *)
Ops == Seq(1..MaxWrite)
FileRec == [here : BOOLEAN, ops : Ops, synced : Nat]
Open == Names \cup {Gone, Closed}
Kinds == {"fsync", "close"}
Job == [file : Open, off : Nat, kind : Kinds]
(* Where the main thread may be. *)
PC == {"loop", "open", "listIncr", "switch", "drain", "fork",
       "renameBase", "renameIncr", "listBase", "collect", "refused"}

(* The types. *)
Types ==
    /\ policy \in Policies /\ state \in {"OFF", "WAIT", "ON"} /\ pc \in PC
    /\ last \in 0..MaxWrite /\ db \in Ops /\ buf \in Ops
    /\ promised \in 0..Len(db) /\ pending \in 0..Len(db) /\ fsynced \in -1..Len(db)
    /\ fd \in Open /\ dm \in Manifest /\ am \in Manifest
    /\ files \in [Names -> FileRec] /\ child \in [on : BOOLEAN, snap : Ops]
    /\ jobs \in Seq(Job)
    /\ size \in Nat /\ syncoff \in Nat
    /\ starting \in BOOLEAN /\ doubled \in BOOLEAN

(* Offsets do not exceed what they are offsets into. *)
Offsets ==
    /\ \A f \in Names : files[f].synced <= Len(files[f].ops)
    /\ \A i \in 1..Len(jobs) : jobs[i].off <= Len(db)
    /\ syncoff <= size
    /\ fd \in Names => size = Len(files[fd].ops)

(* What the program counter, the state and the child say of each other. *)
Opening == {"open", "listIncr", "switch", "drain", "fork"}
Done    == {"renameBase", "renameIncr", "listBase"}

Control ==
    /\ starting => state = "WAIT" /\ pc \in Opening
    /\ pc \in Opening => ~child.on
    /\ pc \in Done => child.on
    /\ pc = "listIncr" => state = "ON"
    /\ pc \in {"drain", "renameIncr"} => state = "WAIT"
    /\ pc \in {"open", "switch"} => state # "OFF"
    /\ pc = "collect" /\ state = "WAIT" => child.on
    /\ pc = "refused" => state = "ON"
    /\ state = "OFF" => buf = <<>>
    /\ state = "WAIT" /\ ~child.on => buf = <<>>

(* Numbers are left for the files a rewrite makes. *)
Room ==
    /\ pc \in {"open", "listIncr", "switch"} => am.iseq < MaxSeq
    /\ state = "WAIT" /\ (pc \in Opening \/ (child.on /\ pc # "collect")) => am.iseq < MaxSeq
    /\ pc \in Opening \/ (child.on /\ pc # "collect") => am.bseq < MaxSeq

(* The file the descriptor is open on. *)
Descriptor ==
    /\ state = "OFF" => fd = Closed
    /\ state = "ON" \/ (state = "WAIT" /\ pc = "collect")
          => am.incr # <<>> /\ fd = Incr(Last(am.incr))
    /\ state = "WAIT" /\ pc \in {"drain", "fork"} => fd = Temp
    /\ state = "WAIT" /\ child.on /\ pc \in {"loop", "renameBase", "renameIncr"} => fd = Temp
    /\ state = "WAIT" /\ pc = "listBase" => fd = Incr(am.iseq + 1)
    /\ state = "WAIT" /\ ~child.on => fd \in {Temp, Gone, Closed}
    /\ starting /\ pc = "open" => fd = Closed

(* The manifest in memory, and that the one on disk differs only by a new  *)
(* file or by files already removed.                                       *)
Ordered(m) ==
    /\ m.base = m.bseq
    /\ \A i \in 1..Len(m.incr) : m.incr[i] <= m.iseq
    /\ \A i, j \in 1..Len(m.incr) : i < j => m.incr[i] < m.incr[j]

(* The files a HISTORY entry may name. *)
Old(m) == {Base(i) : i \in 1..(m.base - 1)}
          \cup {Incr(i) : i \in {k \in 1..m.iseq : \A j \in 1..Len(m.incr) : m.incr[j] # k}}

(* The manifest on disk lists the new file, the one in memory not yet. *)
NewListed == pc = "switch" /\ state = "ON"

Manifests ==
    /\ Ordered(am)
    /\ am.hist \subseteq dm.hist /\ dm.hist \subseteq Old(am)
    /\ dm.base = am.base /\ dm.bseq = am.bseq
    /\ IF NewListed THEN dm.incr = Append(am.incr, am.iseq + 1) /\ dm.iseq = am.iseq + 1
                    ELSE dm.incr = am.incr /\ dm.iseq = am.iseq

(* The files that must be there. *)
Present ==
    /\ pc # "refused" =>
          /\ files[Base(am.base)].here
          /\ \A i \in 1..Len(am.incr) : files[Incr(am.incr[i])].here
    /\ pc \in {"listIncr", "switch"} => files[NewIncr].here /\ files[NewIncr].ops = <<>>
    /\ state = "WAIT" /\ pc \in {"drain", "fork"} => files[Temp].here
    /\ state # "OFF" /\ pc \in {"drain", "fork"} => files[fd].ops = <<>>
    /\ state = "WAIT" /\ ~child.on /\ fd = Temp => files[Temp].ops = <<>>
    /\ state = "WAIT" /\ child.on /\ pc # "collect" => fd \in Names /\ files[fd].here
    /\ pc \in {"renameIncr", "listBase"} =>
          files[Base(am.bseq + 1)].here /\ files[Base(am.bseq + 1)].ops = child.snap

(* The dataset is what would be loaded, and what was not yet written. *)
Full == state = "ON" \/ (state = "WAIT" /\ pc = "collect")

Contents ==
    ~doubled =>
        /\ pc \in Opening => buf = <<>>
        /\ IF Full THEN Cat(Loaded(files, dm), buf) = db ELSE IsPrefix(Loaded(files, dm), db)
        /\ child.on /\ state # "OFF" /\ pc # "collect"
              => Cat(Cat(child.snap, files[fd].ops), buf) = db
        /\ child.on /\ state = "OFF" => IsPrefix(child.snap, db)

(* The inductive invariant. *)
AInv ==
    /\ Types
    /\ Offsets
    /\ Control
    /\ Room
    /\ Descriptor
    /\ Manifests
    /\ Present
    /\ Contents

-----------------------------------------------------------------------------
(* Names and sequences of writes; from here on they are opaque. *)

(* The names are distinct, and those with numbers in range are Names. *)
LEMMA NameFacts ==
    /\ \A i \in 1..MaxSeq : Base(i) \in Names /\ Incr(i) \in Names
    /\ Temp \in Names /\ Gone \notin Names /\ Closed \notin Names
    /\ \A i, j : /\ Base(i) # Incr(j) /\ (Base(i) = Base(j) => i = j) /\ (Incr(i) = Incr(j) => i = j)
                /\ Base(i) \notin {Temp, Gone, Closed} /\ Incr(i) \notin {Temp, Gone, Closed}
    /\ Temp # Gone /\ Temp # Closed /\ Gone # Closed
  BY DEF Names, Base, Incr, Temp, Gone, Closed

(* The empty sequence of writes. *)
LEMMA EmptyOps == <<>> \in Ops /\ Len(<<>>) = 0
  BY DEF Ops

(* Only the empty sequence has length 0. *)
LEMMA OpsLen ==
    ASSUME NEW a \in Ops
    PROVE  Len(a) \in Nat /\ (Len(a) = 0 <=> a = <<>>)
  BY DEF Ops

(* Concatenating writes. *)
LEMMA OpsCat ==
    ASSUME NEW a \in Ops, NEW b \in Ops
    PROVE  Cat(a, b) \in Ops /\ Len(Cat(a, b)) = Len(a) + Len(b)
  BY CatType DEF Ops

(* Concatenating writes is associative, *)
LEMMA OpsAssoc ==
    ASSUME NEW a \in Ops, NEW b \in Ops, NEW c \in Ops
    PROVE  Cat(a, Cat(b, c)) = Cat(Cat(a, b), c)
  BY CatAssoc DEF Ops

(* and the empty sequence its neutral element. *)
LEMMA OpsEmpty ==
    ASSUME NEW a \in Ops
    PROVE  Cat(a, <<>>) = a /\ Cat(<<>>, a) = a
  BY DEF Ops, Cat

(* Appending one write. *)
Plus(a, w) == Append(a, w)

(* Appending a write to the second part is appending it to the whole. *)
LEMMA OpsPlus ==
    ASSUME NEW a \in Ops, NEW b \in Ops, NEW w \in 1..MaxWrite
    PROVE  /\ Plus(a, w) \in Ops /\ Len(Plus(a, w)) = Len(a) + 1
           /\ Cat(a, Plus(b, w)) = Plus(Cat(a, b), w)
<1>1. Plus(a, w) \in Ops /\ Len(Plus(a, w)) = Len(a) + 1
  BY DEF Ops, Plus
<1>2. Cat(a, Plus(b, w)) = Plus(Cat(a, b), w)
  BY DEF Ops, Plus, Cat
<1> QED
  BY <1>1, <1>2

(* A sequence is a prefix of itself and of what extends it. *)
LEMMA OpsPrefix ==
    ASSUME NEW a \in Ops, NEW b \in Ops
    PROVE  /\ IsPrefix(a, a) /\ IsPrefix(a, Cat(a, b))
           /\ \A w \in 1..MaxWrite : IsPrefix(a, b) => IsPrefix(a, Plus(b, w))
<1>1. IsPrefix(a, a)
  BY DEF Ops, IsPrefix
<1>2. IsPrefix(a, Cat(a, b))
  BY DEF Ops, IsPrefix, Cat
<1>3. ASSUME NEW w \in 1..MaxWrite, IsPrefix(a, b) PROVE IsPrefix(a, Plus(b, w))
  BY <1>3 DEF Ops, IsPrefix, Plus
<1> QED
  BY <1>1, <1>2, <1>3

-----------------------------------------------------------------------------
(* What is loaded *)

(* The types of the fields of a manifest. *)
LEMMA ManifestFields ==
    ASSUME NEW m \in Manifest
    PROVE  /\ m.base \in 1..MaxSeq /\ m.bseq \in 1..MaxSeq /\ m.iseq \in 1..MaxSeq
           /\ m.hist \subseteq Names /\ m.incr \in Seq(1..MaxSeq)
           /\ Len(m.incr) \in Nat /\ \A i \in 1..Len(m.incr) : m.incr[i] \in 1..MaxSeq
<1>1. m.incr \in Seq(1..MaxSeq)
  BY DEF Manifest
<1>2. \A q \in Seq(1..MaxSeq) : Len(q) \in Nat /\ \A i \in 1..Len(q) : q[i] \in 1..MaxSeq
  BY AofAssumption
<1>3. Len(m.incr) \in Nat /\ \A i \in 1..Len(m.incr) : m.incr[i] \in 1..MaxSeq
  BY <1>1, <1>2, Zenon
<1> QED
  BY <1>1, <1>3 DEF Manifest

(* What a manifest lists: the BASE, then the INCR files. *)
LEMMA ListedFacts ==
    ASSUME NEW m \in Manifest
    PROVE  /\ Listed(m) \in Seq(Names) /\ Len(Listed(m)) = Len(m.incr) + 1
           /\ Listed(m)[1] = Base(m.base)
           /\ \A i \in 1..Len(m.incr) : Listed(m)[i + 1] = Incr(m.incr[i])
<1> DEFINE n == Len(m.incr)
           q == [i \in 1..n |-> Incr(m.incr[i])]
           b == Base(m.base)
<1>1. n \in Nat /\ \A i \in 1..n : m.incr[i] \in 1..MaxSeq
  BY ManifestFields
<1>2. b \in Names
  BY ManifestFields, NameFacts
<1>3. q \in Seq(Names) /\ Len(q) = n /\ \A i \in 1..n : q[i] = Incr(m.incr[i])
  <2> HIDE DEF n
  <2>1. \A i \in 1..n : Incr(m.incr[i]) \in Names
    BY <1>1, NameFacts
  <2>2. q \in [1..n -> Names]
    BY <2>1
  <2> QED
    BY <1>1, <2>2
<1>4. Listed(m) = <<b>> \o q
  BY Zenon DEF Listed
<1> HIDE DEF q, b, n
<1>5. /\ <<b>> \o q \in Seq(Names) /\ Len(<<b>> \o q) = n + 1 /\ (<<b>> \o q)[1] = b
      /\ \A i \in 1..n : (<<b>> \o q)[i + 1] = q[i]
  BY <1>1, <1>2, <1>3
<1>6. b = Base(m.base) /\ n = Len(m.incr)
  BY DEF b, n
<1> QED
  BY <1>3, <1>4, <1>5, <1>6, Zenon

(* The contents of the listed files. *)
Pieces(fs, m) == [i \in 1..Len(Listed(m)) |-> fs[Listed(m)[i]].ops]

(* The contents of the directory. *)
Files == [Names -> FileRec]

(* The types of the fields of a file. *)
LEMMA FileFields ==
    ASSUME NEW fs \in Files, NEW f \in Names
    PROVE  fs[f] \in FileRec /\ fs[f].ops \in Ops /\ fs[f].synced \in Nat /\ fs[f].here \in BOOLEAN
  BY DEF Files, FileRec

(* The pieces are the contents of the BASE and of the INCR files. *)
LEMMA PiecesFacts ==
    ASSUME NEW fs \in Files, NEW m \in Manifest
    PROVE  /\ Pieces(fs, m) \in Seq(Ops) /\ Len(Pieces(fs, m)) = Len(m.incr) + 1
           /\ Pieces(fs, m)[1] = fs[Base(m.base)].ops
           /\ \A i \in 1..Len(m.incr) : Pieces(fs, m)[i + 1] = fs[Incr(m.incr[i])].ops
           /\ Loaded(fs, m) = FlattenSeq(Pieces(fs, m))
<1> DEFINE l == Listed(m)
           n == Len(m.incr)
<1>1. n \in Nat /\ Len(l) = n + 1 /\ \A i \in 1..(n + 1) : l[i] \in Names
  <2>1. \A q \in Seq(Names) : \A i \in 1..Len(q) : q[i] \in Names
    OBVIOUS
  <2>2. l \in Seq(Names) /\ Len(l) = n + 1
    BY ListedFacts
  <2> QED
    BY <2>1, <2>2, ManifestFields
<1>2. l[1] = Base(m.base) /\ \A i \in 1..n : l[i + 1] = Incr(m.incr[i])
  BY ListedFacts
<1>3. Loaded(fs, m) = FlattenSeq(Pieces(fs, m))
  BY Zenon DEF Loaded, Pieces
<1>4. Pieces(fs, m) = [i \in 1..(n + 1) |-> fs[l[i]].ops]
  BY <1>1, Zenon DEF Pieces
<1> HIDE DEF l, n
<1>5. \A i \in 1..(n + 1) : fs[l[i]].ops \in Ops
  BY <1>1, FileFields
<1>6. Pieces(fs, m) \in [1..(n + 1) -> Ops] /\ \A i \in 1..(n + 1) : Pieces(fs, m)[i] = fs[l[i]].ops
  BY <1>4, <1>5
<1>7. Pieces(fs, m) \in Seq(Ops) /\ Len(Pieces(fs, m)) = n + 1
  BY <1>1, <1>6
<1>8. Pieces(fs, m)[1] = fs[Base(m.base)].ops
  <2>1. 1 \in 1..(n + 1)
    BY <1>1
  <2> QED
    BY <1>2, <1>6, <2>1
<1>9. ASSUME NEW i \in 1..n PROVE Pieces(fs, m)[i + 1] = fs[Incr(m.incr[i])].ops
  <2>1. i + 1 \in 1..(n + 1)
    BY <1>1
  <2> QED
    BY <1>2, <1>6, <2>1
<1> QED
  BY <1>3, <1>7, <1>8, <1>9 DEF n

(* What is loaded is a sequence of writes. *)
LEMMA LoadedType ==
    ASSUME NEW fs \in Files, NEW m \in Manifest
    PROVE  Loaded(fs, m) \in Ops
<1> DEFINE s == Pieces(fs, m)
<1>1. s \in Seq(Seq(1..MaxWrite)) /\ Len(s) = Len(m.incr) + 1 /\ Loaded(fs, m) = FlattenSeq(s)
  BY PiecesFacts DEF Ops
<1>2. Len(m.incr) \in Nat
  BY ManifestFields
<1> HIDE DEF s
<1>3. s # <<>>
  BY <1>1, <1>2
<1> QED
  BY <1>1, <1>3, FlattenType DEF Ops

(* The same files with the same contents. *)
LEMMA LoadedSame ==
    ASSUME NEW fs \in Files, NEW gs \in Files, NEW m \in Manifest, NEW n \in Manifest,
           m.base = n.base, m.incr = n.incr,
           fs[Base(m.base)].ops = gs[Base(m.base)].ops,
           \A i \in 1..Len(m.incr) : fs[Incr(m.incr[i])].ops = gs[Incr(m.incr[i])].ops
    PROVE  Loaded(fs, m) = Loaded(gs, n)
<1> DEFINE s == Pieces(fs, m)
           t == Pieces(gs, n)
           k == Len(m.incr)
<1>1. /\ s \in Seq(Ops) /\ Len(s) = k + 1 /\ Loaded(fs, m) = FlattenSeq(s)
      /\ t \in Seq(Ops) /\ Len(t) = k + 1 /\ Loaded(gs, n) = FlattenSeq(t)
      /\ s[1] = t[1]
      /\ \A i \in 1..k : s[i + 1] = fs[Incr(m.incr[i])].ops /\ t[i + 1] = gs[Incr(m.incr[i])].ops
  BY PiecesFacts
<1>2. k \in Nat
  BY ManifestFields
<1>5. ASSUME NEW i \in 1..k PROVE s[i + 1] = t[i + 1]
  <2>1. s[i + 1] = fs[Incr(m.incr[i])].ops /\ t[i + 1] = gs[Incr(m.incr[i])].ops
    BY <1>1
  <2>2. fs[Incr(m.incr[i])].ops = gs[Incr(m.incr[i])].ops
    OBVIOUS
  <2> QED
    BY <2>1, <2>2, Zenon
<1> HIDE DEF s, t, k
<1>3. ASSUME NEW i \in 1..(k + 1) PROVE s[i] = t[i]
  <2>1. CASE i = 1
    BY <1>1, <2>1
  <2>2. CASE i # 1
    <3>1. i - 1 \in 1..k /\ (i - 1) + 1 = i
      BY <1>2, <2>2
    <3> QED
      BY <1>5, <3>1
  <2> QED
    BY <2>1, <2>2
<1>4. s = t
  BY <1>1, <1>2, <1>3
<1> QED
  BY <1>1, <1>4

(* With no INCR file the BASE is loaded. *)
LEMMA LoadedBase ==
    ASSUME NEW fs \in Files, NEW m \in Manifest, m.incr = <<>>
    PROVE  Loaded(fs, m) = fs[Base(m.base)].ops
<1> DEFINE s == Pieces(fs, m)
<1>1. Len(m.incr) = 0
  BY EmptySeq
<1>2. /\ s \in Seq(Ops) /\ Len(s) = Len(m.incr) + 1 /\ Loaded(fs, m) = FlattenSeq(s)
      /\ s[1] = fs[Base(m.base)].ops
  BY PiecesFacts
<1>3. Len(s) = 1
  BY <1>1, <1>2
<1> HIDE DEF s
<1>4. s \in Seq(Seq(1..MaxWrite))
  BY <1>2 DEF Ops
<1> QED
  BY <1>2, <1>3, <1>4, FlattenOne

(* One file more is listed. *)
LEMMA LoadedAppend ==
    ASSUME NEW fs \in Files, NEW m \in Manifest, NEW n \in Manifest, n.base = m.base,
           Len(n.incr) = Len(m.incr) + 1, \A i \in 1..Len(m.incr) : n.incr[i] = m.incr[i]
    PROVE  Loaded(fs, n) = Cat(Loaded(fs, m), fs[Incr(n.incr[Len(n.incr)])].ops)
<1> DEFINE s == Pieces(fs, m)
           t == Pieces(fs, n)
           k == Len(m.incr)
           x == fs[Incr(n.incr[Len(n.incr)])].ops
<1>1. k \in Nat /\ Len(n.incr) = k + 1
  BY ManifestFields
<1>2. /\ s \in Seq(Ops) /\ Len(s) = k + 1 /\ Loaded(fs, m) = FlattenSeq(s)
      /\ t \in Seq(Ops) /\ Len(t) = k + 2 /\ Loaded(fs, n) = FlattenSeq(t)
      /\ s[1] = t[1]
      /\ \A i \in 1..k : s[i + 1] = fs[Incr(m.incr[i])].ops
      /\ \A i \in 1..(k + 1) : t[i + 1] = fs[Incr(n.incr[i])].ops
  BY <1>1, PiecesFacts
<1>3. x = t[k + 2]
  <2>1. k + 1 \in 1..(k + 1) /\ (k + 1) + 1 = k + 2
    BY <1>1
  <2>2. t[(k + 1) + 1] = fs[Incr(n.incr[k + 1])].ops
    BY <1>2, <2>1
  <2> QED
    BY <1>1, <2>1, <2>2
<1>4. ASSUME NEW i \in 1..k PROVE s[i + 1] = t[i + 1]
  <2>1. i \in 1..(k + 1) /\ n.incr[i] = m.incr[i]
    BY <1>1
  <2>2. s[i + 1] = fs[Incr(m.incr[i])].ops /\ t[i + 1] = fs[Incr(n.incr[i])].ops
    BY <1>2, <2>1
  <2> QED
    BY <2>1, <2>2, Zenon
<1>5. x \in Ops
  <2>1. n.incr[k + 1] \in 1..MaxSeq
    BY <1>1, ManifestFields
  <2> QED
    BY <1>1, <2>1, NameFacts, FileFields
<1> HIDE DEF s, t, k, x
<1>6. ASSUME NEW i \in 1..(k + 1) PROVE s[i] = t[i]
  <2>1. CASE i = 1
    BY <1>2, <2>1
  <2>2. CASE i # 1
    <3>1. i - 1 \in 1..k /\ (i - 1) + 1 = i
      BY <1>1, <2>2
    <3> QED
      BY <1>4, <3>1
  <2> QED
    BY <2>1, <2>2
<1>7. t = Append(s, x)
  BY <1>1, <1>2, <1>3, <1>5, <1>6
<1>8. s # <<>>
  BY <1>1, <1>2
<1>9. FlattenSeq(Append(s, x)) = Cat(FlattenSeq(s), x)
  BY <1>2, <1>5, <1>8, FlattenAppend DEF Ops
<1> QED
  BY <1>2, <1>7, <1>9 DEF x

(* The last file becomes longer. *)
LEMMA LoadedExtend ==
    ASSUME NEW fs \in Files, NEW gs \in Files, NEW m \in Manifest, NEW n \in Manifest,
           m.base = n.base, m.incr = n.incr, m.incr # <<>>,
           fs[Base(m.base)].ops = gs[Base(m.base)].ops,
           \A i \in 1..(Len(m.incr) - 1) : fs[Incr(m.incr[i])].ops = gs[Incr(m.incr[i])].ops,
           NEW x \in Ops,
           gs[Incr(Last(m.incr))].ops = Cat(fs[Incr(Last(m.incr))].ops, x)
    PROVE  Loaded(gs, n) = Cat(Loaded(fs, m), x)
<1> DEFINE s == Pieces(fs, m)
           t == Pieces(gs, n)
           k == Len(m.incr)
<1>1. k \in Nat /\ k # 0
  <2>1. \A q \in Seq(1..MaxSeq) : Len(q) \in Nat /\ (q # <<>> => Len(q) # 0)
    BY AofAssumption
  <2> QED
    BY <2>1, ManifestFields
<1>2. /\ s \in Seq(Ops) /\ Len(s) = k + 1 /\ Loaded(fs, m) = FlattenSeq(s)
      /\ t \in Seq(Ops) /\ Len(t) = k + 1 /\ Loaded(gs, n) = FlattenSeq(t)
      /\ s[1] = t[1]
      /\ \A i \in 1..k : s[i + 1] = fs[Incr(m.incr[i])].ops /\ t[i + 1] = gs[Incr(m.incr[i])].ops
  BY <1>1, PiecesFacts
<1>3. t[k + 1] = Cat(s[k + 1], x)
  BY <1>1, <1>2 DEF Last
<1>4. ASSUME NEW i \in 1..(k - 1) PROVE s[i + 1] = t[i + 1]
  <2>1. i \in 1..k
    BY <1>1
  <2>2. s[i + 1] = fs[Incr(m.incr[i])].ops /\ t[i + 1] = gs[Incr(m.incr[i])].ops
    BY <1>2, <2>1
  <2>3. fs[Incr(m.incr[i])].ops = gs[Incr(m.incr[i])].ops
    OBVIOUS
  <2> QED
    BY <2>2, <2>3, Zenon
<1> HIDE DEF s, t, k
<1>5. ASSUME NEW i \in 1..k PROVE t[i] = s[i]
  <2>1. CASE i = 1
    BY <1>2, <2>1
  <2>2. CASE i # 1
    <3>1. i - 1 \in 1..(k - 1) /\ (i - 1) + 1 = i
      BY <1>1, <2>2
    <3> QED
      BY <1>4, <3>1
  <2> QED
    BY <2>1, <2>2
<1>6. s # <<>> /\ Len(s) - 1 = k /\ Len(t) = Len(s)
  BY <1>1, <1>2
<1>7. FlattenSeq(t) = Cat(FlattenSeq(s), x)
  <2>1. \A i \in 1..(Len(s) - 1) : t[i] = s[i]
    BY <1>5, <1>6
  <2>2. t[Len(s)] = Cat(s[Len(s)], x)
    BY <1>2, <1>3
  <2> QED
    BY <1>2, <1>6, <2>1, <2>2, FlattenExtend, ZenonT(40) DEF Ops
<1> QED
  BY <1>2, <1>7

-----------------------------------------------------------------------------
(* Manifests and queues *)

(* Appending a number to the list of INCR files. *)
LEMMA IncrSeq ==
    ASSUME NEW q \in Seq(1..MaxSeq), NEW k \in 1..MaxSeq
    PROVE  /\ Append(q, k) \in Seq(1..MaxSeq) /\ Append(q, k) # <<>>
           /\ Len(Append(q, k)) = Len(q) + 1 /\ Last(Append(q, k)) = k
           /\ Append(q, k)[Len(q) + 1] = k
           /\ \A i \in 1..Len(q) : Append(q, k)[i] = q[i]
           /\ Len(q) \in Nat
  BY AofAssumption DEF Last

(* What getNewIncrAofName makes of a manifest: one INCR file more, with a  *)
(* number above all others.                                                *)
LEMMA WithIncrFacts ==
    ASSUME NEW m \in Manifest, Ordered(m), m.iseq < MaxSeq
    PROVE  LET n == WithIncr(m) IN
           /\ n \in Manifest /\ Ordered(n)
           /\ n.base = m.base /\ n.bseq = m.bseq /\ n.hist = m.hist /\ n.iseq = m.iseq + 1
           /\ n.incr = Append(m.incr, m.iseq + 1)
           /\ n.incr # <<>> /\ Last(n.incr) = m.iseq + 1 /\ Len(n.incr) = Len(m.incr) + 1
           /\ n.incr[Len(m.incr) + 1] = m.iseq + 1
           /\ \A i \in 1..Len(m.incr) : n.incr[i] = m.incr[i] /\ m.incr[i] # m.iseq + 1
           /\ Old(n) = Old(m)
<1> DEFINE n == WithIncr(m)
           q == Append(m.incr, m.iseq + 1)
           k == Len(m.incr)
<1>1. /\ m.base \in 1..MaxSeq /\ m.bseq \in 1..MaxSeq /\ m.iseq \in 1..MaxSeq
      /\ m.hist \subseteq Names /\ m.incr \in Seq(1..MaxSeq) /\ m.iseq + 1 \in 1..MaxSeq
      /\ k \in Nat /\ \A i \in 1..k : m.incr[i] \in 1..MaxSeq
  BY ManifestFields, AofAssumption
<1>2. /\ q \in Seq(1..MaxSeq) /\ q # <<>> /\ Len(q) = k + 1 /\ Last(q) = m.iseq + 1
      /\ q[k + 1] = m.iseq + 1 /\ \A i \in 1..k : q[i] = m.incr[i]
  BY <1>1, IncrSeq, Zenon
<1>3. n = [m EXCEPT !.iseq = m.iseq + 1, !.incr = q]
  BY Zenon DEF WithIncr
<1> HIDE DEF q
<1>4. /\ n \in Manifest /\ n.base = m.base /\ n.bseq = m.bseq /\ n.hist = m.hist
      /\ n.iseq = m.iseq + 1 /\ n.incr = q
  BY <1>1, <1>2, <1>3 DEF Manifest
<1> HIDE DEF n
<1>5. \A i \in 1..k : m.incr[i] <= m.iseq /\ m.incr[i] # m.iseq + 1
  BY <1>1 DEF Ordered
<1>6. Ordered(n)
  <2>1. n.base = n.bseq
    BY <1>4 DEF Ordered
  <2>2. \A i \in 1..(k + 1) : q[i] <= m.iseq + 1
    BY <1>1, <1>2, <1>5
  <2>3. ASSUME NEW i \in 1..(k + 1), NEW j \in 1..(k + 1), i < j PROVE q[i] < q[j]
    <3>1. CASE j = k + 1
      BY <1>1, <1>2, <1>5, <2>3, <3>1
    <3>2. CASE j # k + 1
      <4>1. i \in 1..k /\ j \in 1..k
        BY <1>1, <2>3, <3>2
      <4>2. m.incr[i] < m.incr[j]
        BY <4>1, <2>3 DEF Ordered
      <4> QED
        BY <4>1, <4>2, <1>2
    <3> QED
      BY <3>1, <3>2
  <2> HIDE DEF k
  <2>4. Len(n.incr) = k + 1
    BY <1>2, <1>4
  <2> QED
    BY <2>1, <2>2, <2>3, <2>4, <1>4 DEF Ordered
<1>7. Old(n) = Old(m)
  <2> DEFINE A == {i \in 1..m.iseq : \A j \in 1..k : m.incr[j] # i}
             B == {i \in 1..(m.iseq + 1) : \A j \in 1..(k + 1) : q[j] # i}
  <2>1. A = B
    <3>1. ASSUME NEW i \in A PROVE i \in B
      <4>1. ASSUME NEW j \in 1..(k + 1) PROVE q[j] # i
        <5>1. CASE j = k + 1
          BY <5>1, <1>1, <1>2
        <5>2. CASE j # k + 1
          <6>1. \A h \in 1..k : m.incr[h] # i
            OBVIOUS
          <6>2. j \in 1..k
            <7> HIDE DEF k
            <7> QED
              BY <5>2, <1>1
          <6>3. q[j] = m.incr[j]
            BY <1>2, <6>2
          <6> QED
            BY <6>1, <6>2, <6>3
        <5> QED
          BY <5>1, <5>2
      <4> QED
        BY <4>1, <1>1
    <3>2. ASSUME NEW i \in B PROVE i \in A
      <4>1. k + 1 \in 1..(k + 1) /\ \A j \in 1..k : j \in 1..(k + 1)
        BY <1>1
      <4>2. i # m.iseq + 1 /\ \A j \in 1..k : m.incr[j] # i
        BY <4>1, <1>2
      <4> QED
        BY <4>2, <1>1
    <3> QED
      BY <3>1, <3>2
  <2>2. Old(m) = {Base(i) : i \in 1..(m.base - 1)} \cup {Incr(i) : i \in A}
    BY Zenon DEF Old
  <2>3. Len(n.incr) = k + 1
    BY <1>2, <1>4
  <2>4. Old(n) = {Base(i) : i \in 1..(m.base - 1)} \cup {Incr(i) : i \in B}
    BY <2>3, <1>4, Zenon DEF Old
  <2> HIDE DEF A, B
  <2> QED
    BY <2>1, <2>2, <2>4
<1> QED
  BY <1>1, <1>2, <1>4, <1>5, <1>6, <1>7, Zenon DEF q, k, n

-----------------------------------------------------------------------------
(* A job at the end of the queue. *)
Enqueue(q, f, n, k) == Append(q, [file |-> f, off |-> n, kind |-> k])

(* What bioSubmitJob makes of the queue. *)
LEMMA EnqueueFacts ==
    ASSUME NEW q \in Seq(Job), NEW f \in Open, NEW n \in Nat, NEW k \in Kinds
    PROVE  LET r == Enqueue(q, f, n, k) IN
           /\ r \in Seq(Job) /\ r # <<>> /\ Len(r) = Len(q) + 1 /\ Len(q) \in Nat
           /\ \A i \in 1..Len(q) : r[i] = q[i]
           /\ r[Len(q) + 1].file = f /\ r[Len(q) + 1].off = n /\ r[Len(q) + 1].kind = k
<1> DEFINE j == [file |-> f, off |-> n, kind |-> k]
<1>1. j \in Job /\ j.file = f /\ j.off = n /\ j.kind = k
  BY DEF Job
<1> HIDE DEF j
<1>2. /\ Append(q, j) \in Seq(Job) /\ Append(q, j) # <<>> /\ Len(Append(q, j)) = Len(q) + 1
      /\ Append(q, j)[Len(q) + 1] = j /\ Len(q) \in Nat
      /\ \A i \in 1..Len(q) : Append(q, j)[i] = q[i]
  BY <1>1
<1>3. Enqueue(q, f, n, k) = Append(q, j)
  BY Zenon DEF Enqueue, j
<1> QED
  BY <1>1, <1>2, <1>3, Zenon

(* What the invariant says of names, types and lengths. *)
LEMMA Basics ==
    ASSUME AInv
    PROVE  /\ files \in Files /\ dm \in Manifest /\ am \in Manifest
           /\ db \in Ops /\ buf \in Ops /\ child.snap \in Ops /\ child.on \in BOOLEAN
           /\ Len(db) \in Nat /\ Loaded(files, dm) \in Ops /\ Loaded(files, am) \in Ops
           /\ \A f \in Names : files[f].ops \in Ops /\ Len(files[f].ops) \in Nat
           /\ Base(am.base) \in Names /\ \A i \in 1..Len(am.incr) : Incr(am.incr[i]) \in Names
           /\ \A i \in 1..Len(am.incr) : am.incr[i] \in 1..am.iseq
           /\ am.base = am.bseq /\ am.base \in 1..MaxSeq /\ am.iseq \in 1..MaxSeq
<1>1. /\ files \in Files /\ dm \in Manifest /\ am \in Manifest /\ Ordered(am)
      /\ db \in Ops /\ buf \in Ops /\ child.snap \in Ops /\ child.on \in BOOLEAN
  BY DEF AInv, Types, Files, Manifests
<1>2. Len(db) \in Nat /\ Loaded(files, dm) \in Ops /\ Loaded(files, am) \in Ops
  BY <1>1, OpsLen, LoadedType
<1>3. \A f \in Names : files[f].ops \in Ops /\ Len(files[f].ops) \in Nat
  BY <1>1, OpsLen, FileFields
<1>4. /\ Base(am.base) \in Names /\ \A i \in 1..Len(am.incr) : Incr(am.incr[i]) \in Names
      /\ am.base \in 1..MaxSeq /\ am.iseq \in 1..MaxSeq
      /\ \A i \in 1..Len(am.incr) : am.incr[i] \in 1..MaxSeq
  BY <1>1, ManifestFields, NameFacts
<1>5. am.base = am.bseq /\ \A i \in 1..Len(am.incr) : am.incr[i] \in 1..am.iseq
  BY <1>1, <1>4, AofAssumption DEF Ordered
<1> QED
  BY <1>1, <1>2, <1>3, <1>4, <1>5

(* The last INCR file is one of those listed. *)
LEMMA LastListed ==
    ASSUME NEW m \in Manifest, m.incr # <<>>
    PROVE  /\ Len(m.incr) \in 1..Len(m.incr) /\ Last(m.incr) = m.incr[Len(m.incr)]
           /\ Last(m.incr) \in 1..MaxSeq /\ Incr(Last(m.incr)) \in Names
<1>1. \A q \in Seq(1..MaxSeq) : q # <<>> =>
         Len(q) \in 1..Len(q) /\ Last(q) = q[Len(q)] /\ Last(q) \in 1..MaxSeq
  BY AofAssumption DEF Last
<1> QED
  BY <1>1, ManifestFields, NameFacts, Zenon

(* The manifests agree but for a new file. *)
LEMMA SameListed ==
    ASSUME AInv, ~NewListed
    PROVE  /\ dm.base = am.base /\ dm.incr = am.incr
           /\ \A fs \in Files : Loaded(fs, dm) = Loaded(fs, am)
<1>1. dm.base = am.base /\ dm.incr = am.incr
  BY DEF AInv, Manifests
<1>2. ASSUME NEW fs \in Files PROVE Loaded(fs, dm) = Loaded(fs, am)
  BY <1>1, Basics, LoadedSame
<1> QED
  BY <1>1, <1>2

(* The actions, one by one: CONFIG SET appendfsync. *)
LEMMA KeepsSetPolicy ==
    ASSUME AInv, SetPolicy
    PROVE  AInv'
<1> USE DEF SetPolicy, buffer, thread, disk, rewrite
<1>1. Types'
  BY DEF AInv, Types, PC
<1>2. Offsets' /\ Control' /\ Room' /\ Descriptor'
  BY DEF AInv, Offsets, Control, Room, Descriptor, Opening, Done
<1>3. Manifests' /\ Present' /\ Contents'
  BY DEF AInv, Manifests, NewListed, Present, NewIncr, Contents, Full, Opening
<1> QED
  BY <1>1, <1>2, <1>3 DEF AInv

(* The queue is empty when the rewrite goes on. *)
LEMMA KeepsDrain ==
    ASSUME AInv, Drain
    PROVE  AInv'
<1> USE DEF Drain, data, buffer, disk
<1>1. Types'
  BY DEF AInv, Types, PC
<1>2. Offsets' /\ Control' /\ Room' /\ Descriptor'
  BY DEF AInv, Offsets, Control, Room, Descriptor, Opening, Done
<1>3. Manifests' /\ Present' /\ Contents'
  BY DEF AInv, Manifests, NewListed, Present, NewIncr, Contents, Full, Opening
<1> QED
  BY <1>1, <1>2, <1>3 DEF AInv

(* The child gets the dataset; the new file is still empty. *)
LEMMA KeepsFork ==
    ASSUME AInv, Fork
    PROVE  AInv'
<1> USE DEF Fork, data, disk
<1>1. Types'
  BY DEF AInv, Types, PC
<1>2. Offsets' /\ Control' /\ Room' /\ Descriptor'
  BY DEF AInv, Types, Offsets, Control, Room, Descriptor, Opening, Done
<1>3. Manifests'
  BY DEF AInv, Manifests, NewListed
<1>4. Present'
  BY NameFacts DEF AInv, Descriptor, Present, NewIncr
<1>5. Contents'
  <2> SUFFICES ASSUME ~doubled PROVE Contents'
    BY DEF Contents
  <2>1. buf = <<>> /\ state \in {"OFF", "WAIT", "ON"} /\ db \in Ops
    BY DEF AInv, Contents, Opening, Types
  <2>2. state # "OFF" => files[fd].ops = <<>>
    BY DEF AInv, Present
  <2>3. Cat(Cat(db, <<>>), <<>>) = db /\ IsPrefix(db, db)
    BY <2>1, OpsEmpty, OpsPrefix, Zenon
  <2> QED
    BY <2>1, <2>2, <2>3 DEF AInv, Contents, Full, Opening
<1> QED
  BY <1>1, <1>2, <1>3, <1>4, <1>5 DEF AInv

(* An empty file more is listed. *)
LEMMA KeepsListIncr ==
    ASSUME AInv, ListIncr
    PROVE  AInv'
<1> USE DEF ListIncr, data, buffer, thread
<1> DEFINE m == WithIncr(am)
<1>1. am \in Manifest /\ Ordered(am) /\ am.iseq < MaxSeq /\ state = "ON" /\ ~NewListed
  BY DEF AInv, Types, Manifests, Room, Control, NewListed
<1>2. /\ m \in Manifest /\ m.base = am.base /\ m.bseq = am.bseq /\ m.hist = am.hist
      /\ m.iseq = am.iseq + 1 /\ m.incr = Append(am.incr, am.iseq + 1)
      /\ Len(m.incr) = Len(am.incr) + 1 /\ m.incr[Len(am.incr) + 1] = am.iseq + 1
      /\ \A i \in 1..Len(am.incr) : m.incr[i] = am.incr[i]
  BY <1>1, WithIncrFacts, Zenon
<1>3. dm' = m
  BY DEF ListIncr
<1> HIDE DEF m
<1>4. Types'
  BY <1>2, <1>3 DEF AInv, Types, PC
<1>5. Offsets' /\ Control' /\ Room' /\ Descriptor'
  BY <1>1 DEF AInv, Offsets, Control, Room, Descriptor, Opening, Done
<1>6. Manifests'
  BY <1>1, <1>2, <1>3 DEF AInv, Manifests, NewListed
<1>7. Present'
  BY DEF AInv, Present, NewIncr
<1>8. Contents'
  <2>1. Loaded(files, m) = Cat(Loaded(files, am), files[Incr(am.iseq + 1)].ops)
    BY <1>1, <1>2, Basics, LoadedAppend
  <2>2. files[Incr(am.iseq + 1)].ops = <<>>
    BY <1>1 DEF AInv, Present, NewIncr
  <2>3. Loaded(files, m) = Loaded(files, dm)
    BY <1>1, <2>1, <2>2, Basics, SameListed, OpsEmpty, Zenon
  <2> QED
    BY <1>3, <2>3 DEF AInv, Contents, Full, Opening
<1> QED
  BY <1>4, <1>5, <1>6, <1>7, <1>8 DEF AInv

(* The name of the new file is not in use. *)
LEMMA KeepsOpenIncr ==
    ASSUME AInv, OpenIncr
    PROVE  AInv'
<1> USE DEF OpenIncr, data, buffer, thread
<1> DEFINE new == NewIncr
<1>1. /\ state \in {"WAIT", "ON"} /\ ~child.on /\ am.iseq < MaxSeq /\ ~NewListed
      /\ am.iseq + 1 \in 1..MaxSeq
  BY Basics, AofAssumption DEF AInv, Types, Control, Room, NewListed, Opening
<1>2. /\ new \in Names /\ new # Base(am.base) /\ \A i \in 1..Len(am.incr) : Incr(am.incr[i]) # new
  <2>1. \A i \in 1..Len(am.incr) : am.incr[i] # am.iseq + 1
    BY Basics, AofAssumption
  <2> QED
    BY <1>1, <2>1, NameFacts DEF NewIncr
<1>3. fd = new => state = "WAIT" /\ fd = Temp /\ files[fd].ops = <<>>
  <2>1. state = "ON" => fd # new
    BY <1>1, <1>2, Basics, LastListed DEF AInv, Descriptor
  <2> QED
    BY <1>1, <2>1 DEF NewIncr, AInv, Present
<1>4. files' \in Files /\ files'[new] = File(<<>>, 0) /\ \A f \in Names : f # new => files'[f] = files[f]
  BY <1>2, Basics, EmptyOps DEF Files, FileRec, File
<1>5. new' = new
  BY DEF NewIncr
<1> HIDE DEF new
<1>6. Types'
  BY <1>4 DEF AInv, Types, PC, Files
<1>7. Offsets'
  BY <1>3, <1>4, EmptyOps DEF AInv, Offsets, File
<1>8. Control' /\ Room' /\ Descriptor'
  BY <1>1 DEF AInv, Control, Room, Descriptor, Opening, Done
<1>9. Manifests'
  BY <1>1 DEF AInv, Manifests, NewListed
<1>10. Present'
  <2>1. files'[Base(am.base)] = files[Base(am.base)]
    BY <1>2, <1>4, Basics
  <2>2. \A i \in 1..Len(am.incr) : files'[Incr(am.incr[i])] = files[Incr(am.incr[i])]
    BY <1>2, <1>4, Basics
  <2>3. files'[new].here /\ files'[new].ops = <<>>
    BY <1>4 DEF File
  <2>4. fd = Temp /\ state = "WAIT" => files'[fd].ops = <<>>
    BY <2>3, <1>1, NameFacts DEF new, NewIncr
  <2> QED
    BY <1>1, <1>5, <2>1, <2>2, <2>3, <2>4 DEF AInv, Present, new
<1>11. Contents'
  <2>1. Loaded(files', am) = Loaded(files, am)
    <3>1. files'[Base(am.base)].ops = files[Base(am.base)].ops
      BY <1>2, <1>4, Basics
    <3>2. \A i \in 1..Len(am.incr) : files'[Incr(am.incr[i])].ops = files[Incr(am.incr[i])].ops
      BY <1>2, <1>4, Basics
    <3> QED
      BY <1>4, <3>1, <3>2, Basics, LoadedSame, ZenonT(40)
  <2>2. Loaded(files', dm) = Loaded(files, dm)
    BY <1>1, <1>4, <2>1, Basics, SameListed
  <2> QED
    BY <1>1, <2>2 DEF AInv, Contents, Full, Opening
<1> QED
  BY <1>6, <1>7, <1>8, <1>9, <1>10, <1>11 DEF AInv

-----------------------------------------------------------------------------
(* The steps of a rewrite *)

(* Manifest and descriptor change to the new file together. *)
LEMMA KeepsSwitch ==
    ASSUME AInv, Switch
    PROVE  AInv'
<1> USE DEF Switch, data, disk
<1> DEFINE new == NewIncr
           m == WithIncr(am)
<1>1. /\ state \in {"WAIT", "ON"} /\ ~child.on /\ am.iseq < MaxSeq /\ am.iseq + 1 \in 1..MaxSeq
      /\ am \in Manifest /\ Ordered(am) /\ fd \in Open /\ jobs \in Seq(Job)
  BY Basics, AofAssumption DEF AInv, Types, Control, Room, Manifests, Opening
<1>2. new \in Names /\ files[new].here /\ files[new].ops = <<>> /\ (state = "WAIT" => new = Temp)
  BY <1>1, NameFacts DEF NewIncr, AInv, Present
<1>3. /\ m \in Manifest /\ Ordered(m) /\ m.base = am.base /\ m.bseq = am.bseq /\ m.hist = am.hist
      /\ m.iseq = am.iseq + 1 /\ m.incr = Append(am.incr, am.iseq + 1) /\ m.incr # <<>>
      /\ Last(m.incr) = am.iseq + 1 /\ Len(m.incr) = Len(am.incr) + 1
      /\ m.incr[Len(am.incr) + 1] = am.iseq + 1
      /\ \A i \in 1..Len(am.incr) : m.incr[i] = am.incr[i]
      /\ Old(m) = Old(am)
  BY <1>1, WithIncrFacts, Zenon
<1>4. fd' = new /\ size' = 0 /\ syncoff' = 0
  OBVIOUS
<1>5. am' = IF state = "WAIT" THEN am ELSE m
  OBVIOUS
<1>6. state = "ON" => new = Incr(am.iseq + 1)
  BY DEF NewIncr
<1>7. jobs' \in Seq(Job) /\ \A i \in 1..Len(jobs') : jobs'[i].off <= Len(db)
  <2>1. CASE fd = Closed
    BY <2>1, <1>1 DEF AInv, Offsets
  <2>2. CASE fd # Closed
    <3>1. Len(db) \in Nat /\ \A i \in 1..Len(jobs) : jobs[i].off <= Len(db)
      BY Basics DEF AInv, Offsets
    <3>2. jobs' = Enqueue(jobs, fd, Len(db), "close")
      BY <2>2, Zenon DEF Enqueue
    <3> HIDE DEF Switch
    <3>3. /\ jobs' \in Seq(Job) /\ \A i \in 1..Len(jobs) : jobs'[i] = jobs[i]
          /\ Len(jobs') = Len(jobs) + 1 /\ Len(jobs) \in Nat /\ jobs'[Len(jobs) + 1].off = Len(db)
      <4>1. "close" \in Kinds
        BY DEF Kinds
      <4> DEFINE r == Enqueue(jobs, fd, Len(db), "close")
      <4>2. /\ r \in Seq(Job) /\ r # <<>> /\ Len(r) = Len(jobs) + 1 /\ Len(jobs) \in Nat
            /\ \A i \in 1..Len(jobs) : r[i] = jobs[i]
            /\ r[Len(jobs) + 1].file = fd /\ r[Len(jobs) + 1].off = Len(db)
        BY <1>1, <3>1, <4>1, EnqueueFacts, SMTT(30)
      <4> QED
        BY <3>2, <4>2, Zenon
    <3>4. ASSUME NEW i \in 1..Len(jobs') PROVE jobs'[i].off <= Len(db)
      BY <3>1, <3>3
    <3> QED
      BY <3>3, <3>4
  <2> QED
    BY <2>1, <2>2
<1> HIDE DEF new, m
<1>8. Types'
  BY <1>2, <1>3, <1>4, <1>5, <1>7 DEF AInv, Types, PC, Open
<1>9. Offsets'
  BY <1>2, <1>4, <1>7, EmptyOps DEF AInv, Offsets
<1>10. Control'
  BY <1>1 DEF AInv, Control, Opening, Done
<1>11. Room'
  BY <1>1, <1>3, <1>5 DEF AInv, Room, Opening
<1>12. Descriptor'
  BY <1>1, <1>2, <1>3, <1>4, <1>5, <1>6 DEF AInv, Descriptor
<1>13. Manifests'
  BY <1>1, <1>3, <1>5 DEF AInv, Manifests, NewListed
<1>14. Present'
  <2>1. CASE state = "WAIT"
    BY <1>1, <1>2, <1>4, <1>5, <2>1 DEF AInv, Present
  <2>2. CASE state = "ON"
    <3>1. ASSUME NEW i \in 1..Len(m.incr) PROVE files[Incr(m.incr[i])].here
      <4>1. CASE i = Len(am.incr) + 1
        BY <1>2, <1>3, <1>6, <2>2, <4>1
      <4>2. CASE i # Len(am.incr) + 1
        <5>1. i \in 1..Len(am.incr)
          <6>1. Len(am.incr) \in Nat /\ Len(m.incr) = Len(am.incr) + 1
            BY <1>1, <1>3, Basics, ManifestFields
          <6> QED
            BY <4>2, <6>1
        <5> QED
          BY <1>3, <5>1 DEF AInv, Present
      <4> QED
        BY <4>1, <4>2
    <3> QED
      BY <1>1, <1>2, <1>3, <1>4, <1>5, <2>2, <3>1 DEF AInv, Present
  <2> QED
    BY <1>1, <2>1, <2>2
<1>15. Contents'
  BY <1>1 DEF AInv, Contents, Full, Opening
<1> QED
  BY <1>8, <1>9, <1>10, <1>11, <1>12, <1>13, <1>14, <1>15 DEF AInv

(* The old file stays in use; a file left over is written anew later. *)
LEMMA KeepsRewriteFails ==
    ASSUME AInv, RewriteFails, SoundFaults
    PROVE  AInv'
<1> USE DEF RewriteFails, data, buffer, thread
<1>1. dm' = dm /\ pc \in {"open", "listIncr", "fork"} /\ (starting => pc = "open")
  BY DEF NotListed, Fault, SoundFaults, AInv, Control
<1>2. ~child.on /\ state \in {"OFF", "WAIT", "ON"} /\ starting \in BOOLEAN
  BY <1>1 DEF AInv, Control, Opening, Types
<1>3. Types'
  BY <1>1 DEF AInv, Types, PC
<1>4. Offsets'
  BY DEF AInv, Offsets
<1>5. Control'
  BY <1>1, <1>2 DEF AInv, Control, Opening, Done
<1>6. Room'
  BY <1>1, <1>2 DEF AInv, Room, Opening
<1>7. Descriptor'
  BY <1>1, <1>2 DEF AInv, Descriptor, Control
<1>8. Manifests'
  BY <1>1 DEF AInv, Manifests, NewListed
<1>9. Present'
  BY <1>1, <1>2 DEF AInv, Present, Control
<1>10. Contents'
  BY <1>1, <1>2 DEF AInv, Contents, Full, Opening, Control
<1> QED
  BY <1>3, <1>4, <1>5, <1>6, <1>7, <1>8, <1>9, <1>10 DEF AInv

(* A write goes to the dataset and to the buffer. *)
LEMMA KeepsWrite ==
    ASSUME AInv, Write
    PROVE  AInv'
<1> USE DEF Write, thread, disk, rewrite
<1> DEFINE w == last + 1
<1>1. w \in 1..MaxWrite
  BY AofAssumption DEF AInv, Types
<1>2. last' = w /\ db' = Plus(db, w)
  BY Zenon DEF Plus
<1>3. buf' = IF state = "ON" \/ (state = "WAIT" /\ child.on) THEN Plus(buf, w) ELSE buf
  BY <1>2, Zenon DEF Plus
<1> DEFINE l == Loaded(files, dm)
<1>4. /\ l \in Ops /\ db \in Ops /\ buf \in Ops /\ child.snap \in Ops /\ Len(db) \in Nat
      /\ Len(db') = Len(db) + 1 /\ db' \in Ops /\ buf' \in Ops
  BY <1>1, <1>2, <1>3, Basics, OpsPlus
<1> HIDE DEF w, l
<1>5. Types'
  BY <1>1, <1>2, <1>4, AofAssumption DEF AInv, Types, PC
<1>6. Offsets'
  <2>1. ASSUME NEW i \in 1..Len(jobs) PROVE jobs[i].off <= Len(db) + 1
    <3>1. \A q \in Seq(Job) : \A k \in 1..Len(q) : q[k] \in Job
      OBVIOUS
    <3>2. jobs \in Seq(Job)
      BY DEF AInv, Types
    <3>3. jobs[i].off \in Nat /\ jobs[i].off <= Len(db)
      BY <3>1, <3>2 DEF AInv, Offsets, Job
    <3> QED
      BY <3>3, <1>4
  <2> QED
    BY <2>1, <1>4 DEF AInv, Offsets
<1>7. Control'
  BY <1>3 DEF AInv, Control, Opening, Done
<1>8. Room' /\ Descriptor' /\ Manifests' /\ Present'
  BY DEF AInv, Room, Opening, Descriptor, Manifests, NewListed, Present
<1>9. Contents'
  <2> SUFFICES ASSUME ~doubled PROVE Contents'
    BY DEF Contents
  <2> HIDE DEF Write
  <2>6. UNCHANGED <<child, files, fd, dm, state, pc>> /\ pc = "loop"
    BY DEF Write
  <2>1. CASE state = "ON"
    <3>1. Cat(l, buf) = db
      BY <2>1 DEF AInv, Contents, Full, l
    <3>2. Cat(l, buf') = db'
      <4>1. buf' = Plus(buf, w)
        BY <1>3, <2>1
      <4>2. Cat(l, Plus(buf, w)) = Plus(Cat(l, buf), w)
        BY <1>1, <1>4, OpsPlus
      <4> QED
        BY <1>2, <3>1, <4>1, <4>2, Zenon
    <3>3. ASSUME child.on PROVE Cat(Cat(child.snap, files[fd].ops), buf') = db'
      <4>1. Cat(Cat(child.snap, files[fd].ops), buf) = db
        BY <2>6, <2>1, <3>3 DEF AInv, Contents
      <4>2. fd \in Names
        BY <2>1, Basics, LastListed DEF AInv, Descriptor
      <4>3. Cat(child.snap, files[fd].ops) \in Ops
        BY <4>2, <1>4, Basics, OpsCat
      <4>4. Cat(Cat(child.snap, files[fd].ops), Plus(buf, w))
               = Plus(Cat(Cat(child.snap, files[fd].ops), buf), w)
        BY <1>1, <1>4, <4>3, OpsPlus
      <4>5. buf' = Plus(buf, w)
        BY <1>3, <2>1, <3>3
      <4> QED
        BY <1>2, <4>1, <4>4, <4>5, Zenon
    <3> QED
      BY <2>6, <2>1, <3>2, <3>3 DEF Contents, Full, Opening, l
  <2>2. CASE state # "ON"
    <3>1. IsPrefix(l, db)
      BY <2>2, <2>6 DEF AInv, Contents, Full, l
    <3>2. IsPrefix(l, db')
      BY <1>1, <1>2, <1>4, <3>1, OpsPrefix
    <3>3. ASSUME child.on, state = "WAIT" PROVE Cat(Cat(child.snap, files[fd].ops), buf') = db'
      <4>1. Cat(Cat(child.snap, files[fd].ops), buf) = db
        BY <2>6, <3>3 DEF AInv, Contents
      <4>2. fd \in Names
        BY <2>6, <3>3 DEF AInv, Present
      <4>3. Cat(child.snap, files[fd].ops) \in Ops
        BY <4>2, <1>4, Basics, OpsCat
      <4>4. Cat(Cat(child.snap, files[fd].ops), Plus(buf, w))
               = Plus(Cat(Cat(child.snap, files[fd].ops), buf), w)
        BY <1>1, <1>4, <4>3, OpsPlus
      <4>5. buf' = Plus(buf, w)
        BY <1>3, <2>1, <3>3
      <4> QED
        BY <1>2, <4>1, <4>4, <4>5, Zenon
    <3>4. ASSUME child.on, state = "OFF" PROVE IsPrefix(child.snap, db')
      BY <1>1, <1>2, <1>4, <3>4, OpsPrefix DEF AInv, Contents
    <3>5. state \in {"OFF", "WAIT"}
      BY <2>2 DEF AInv, Types
    <3> QED
      BY <2>6, <2>2, <3>2, <3>3, <3>4, <3>5 DEF Contents, Full, Opening, l
  <2> QED
    BY <2>1, <2>2
<1> QED
  BY <1>5, <1>6, <1>7, <1>8, <1>9 DEF AInv

(* The AOF is on: what was collected is all there is. *)
LEMMA KeepsCollected ==
    ASSUME AInv, Collected
    PROVE  AInv'
<1> USE DEF Collected, data, buffer, thread
<1>1. dm' \in {dm, am} /\ ~NewListed /\ child' = NoChild /\ ~child'.on
  BY DEF NewListed, NoChild
<1>2. Types'
  BY <1>1, EmptyOps DEF AInv, Types, PC, NoChild
<1>3. Offsets'
  BY DEF AInv, Offsets
<1>4. Control'
  BY <1>1 DEF AInv, Control, Opening, Done
<1>5. Room'
  BY <1>1 DEF AInv, Room, Opening
<1>6. Descriptor'
  BY <1>1 DEF AInv, Descriptor, Control, Opening
<1>7. Manifests'
  BY <1>1 DEF AInv, Manifests, NewListed
<1>8. Present'
  BY <1>1 DEF AInv, Present
<1>9. Contents'
  <2>1. Loaded(files, dm') = Loaded(files, dm)
    BY <1>1, Basics, SameListed
  <2> QED
    BY <1>1, <2>1 DEF AInv, Contents, Full, Opening
<1> QED
  BY <1>2, <1>3, <1>4, <1>5, <1>6, <1>7, <1>8, <1>9 DEF AInv

-----------------------------------------------------------------------------
(* Flushing *)

(* A sync changes only how much of the file is synced. *)
LEMMA SyncFacts ==
    ASSUME NEW fs \in Files, NEW f
    PROVE  /\ Sync(fs, f) \in Files
           /\ \A g \in Names : /\ Sync(fs, f)[g].ops = fs[g].ops /\ Sync(fs, f)[g].here = fs[g].here
                               /\ g # f => Sync(fs, f)[g].synced = fs[g].synced
           /\ f \in Names => Sync(fs, f)[f].synced = Len(fs[f].ops)
<1>1. CASE f \notin Names
  BY <1>1 DEF Sync
<1>2. CASE f \in Names
  <2> DEFINE n == Len(fs[f].ops)
  <2>1. n \in Nat /\ fs[f] \in FileRec
    BY <1>2, FileFields, OpsLen
  <2>2. Sync(fs, f) = [fs EXCEPT ![f] = [fs[f] EXCEPT !.synced = n]]
    BY <1>2, Zenon DEF Sync, SyncFile
  <2> HIDE DEF n
  <2>3. /\ [fs[f] EXCEPT !.synced = n] \in FileRec /\ [fs[f] EXCEPT !.synced = n].synced = n
        /\ [fs[f] EXCEPT !.synced = n].ops = fs[f].ops /\ [fs[f] EXCEPT !.synced = n].here = fs[f].here
    BY <2>1 DEF FileRec
  <2> QED
    BY <1>2, <2>2, <2>3 DEF Files, n
<1> QED
  BY <1>1, <1>2

(* A write extends only the file written to. *)
LEMMA ExtendFacts ==
    ASSUME NEW fs \in Files, NEW f, NEW x \in Ops
    PROVE  /\ Extend(fs, f, x) \in Files
           /\ \A g \in Names : /\ Extend(fs, f, x)[g].here = fs[g].here
                               /\ Extend(fs, f, x)[g].synced = fs[g].synced
                               /\ g # f => Extend(fs, f, x)[g].ops = fs[g].ops
           /\ f \in Names => Extend(fs, f, x)[f].ops = Cat(fs[f].ops, x)
<1>1. CASE f \notin Names
  BY <1>1 DEF Extend
<1>2. CASE f \in Names
  <2> DEFINE y == Cat(fs[f].ops, x)
  <2>1. y \in Ops /\ fs[f] \in FileRec
    BY <1>2, FileFields, OpsCat
  <2>2. Extend(fs, f, x) = [fs EXCEPT ![f] = [fs[f] EXCEPT !.ops = y]]
    BY <1>2, Zenon DEF Extend, Cat
  <2> HIDE DEF y
  <2>3. /\ [fs[f] EXCEPT !.ops = y] \in FileRec /\ [fs[f] EXCEPT !.ops = y].ops = y
        /\ [fs[f] EXCEPT !.ops = y].synced = fs[f].synced
        /\ [fs[f] EXCEPT !.ops = y].here = fs[f].here
    BY <2>1 DEF FileRec
  <2> QED
    BY <1>2, <2>2, <2>3 DEF Files, y
<1> QED
  BY <1>1, <1>2

(* What a flush does: it moves some writes x from the buffer to the file. *)
Flushed(x) ==
    /\ buf = Cat(x, buf') /\ buf' \in Ops /\ buf' \in {buf, <<>>}
    /\ files' \in Files
    /\ \A f \in Names : /\ files'[f].here = files[f].here
                        /\ f # fd => files'[f].ops = files[f].ops
                        /\ files'[f].synced <= Len(files'[f].ops)
                        /\ files[f].synced <= files'[f].synced
    /\ fd \in Names => files'[fd].ops = Cat(files[fd].ops, x)
    /\ size' = size + Len(x) /\ syncoff' \in Nat /\ syncoff' <= size'
    /\ jobs' \in Seq(Job) /\ \A i \in 1..Len(jobs') : jobs'[i].off <= Len(db)
    /\ pending' \in 0..Len(db)

(* The end of a flush, whichever way it syncs. *)
LEMMA TryFsyncFacts ==
    ASSUME Types, Offsets, NEW x \in Ops, NEW second, TryFsync(x, second),
           buf' \in Ops, buf = Cat(x, buf'), buf' \in {buf, <<>>}
    PROVE  Flushed(x)
<1>1. /\ files \in Files /\ jobs \in Seq(Job) /\ fd \in Open /\ size \in Nat /\ syncoff \in Nat
      /\ pending \in 0..Len(db) /\ syncoff <= size /\ Len(db) \in Nat
      /\ \A i \in 1..Len(jobs) : jobs[i].off <= Len(db)
      /\ \A f \in Names : files[f].synced <= Len(files[f].ops)
  BY OpsLen DEF Types, Offsets, Files
<1> DEFINE w == Extend(files, fd, x)
           s == Sync(w, fd)
           n == Len(x)
<1>2. /\ w \in Files /\ n \in Nat
      /\ \A f \in Names : /\ w[f].here = files[f].here /\ w[f].synced = files[f].synced
                          /\ f # fd => w[f].ops = files[f].ops
      /\ fd \in Names => w[fd].ops = Cat(files[fd].ops, x)
  BY <1>1, ExtendFacts, OpsLen
<1>3. \A f \in Names : files[f].ops \in Ops /\ files[f].synced \in Nat /\ Len(files[f].ops) \in Nat
  BY <1>1, FileFields, OpsLen
<1>4. \A f \in Names : w[f].synced <= Len(w[f].ops)
  <2>1. ASSUME NEW f \in Names, f # fd PROVE w[f].synced <= Len(w[f].ops)
    BY <2>1, <1>1, <1>2
  <2>2. ASSUME fd \in Names PROVE w[fd].synced <= Len(w[fd].ops)
    <3>1. Len(w[fd].ops) = Len(files[fd].ops) + n
      BY <1>2, <1>3, <2>2, OpsCat
    <3> QED
      BY <1>1, <1>2, <1>3, <2>2, <3>1
  <2> QED
    BY <2>1, <2>2
<1>5. /\ s \in Files
      /\ \A f \in Names : /\ s[f].ops = w[f].ops /\ s[f].here = w[f].here
                          /\ f # fd => s[f].synced = w[f].synced
      /\ fd \in Names => s[fd].synced = Len(w[fd].ops)
  BY <1>2, SyncFacts
<1>6. \A f \in Names : s[f].synced <= Len(s[f].ops)
  <2>1. \A f \in Names : Len(w[f].ops) \in Nat
    BY <1>2, FileFields, OpsLen
  <2> QED
    BY <2>1, <1>4, <1>5
<1>7. files' \in {w, s} /\ size' = size + n /\ syncoff' \in {syncoff, size + n}
      /\ pending' \in {pending, Len(db)}
  BY DEF TryFsync
<1>8. jobs' = jobs \/ jobs' = Enqueue(jobs, fd, Len(db), "fsync")
  BY Zenon DEF TryFsync, Enqueue
<1> HIDE DEF w, s, n
<1>9. jobs' \in Seq(Job) /\ \A i \in 1..Len(jobs') : jobs'[i].off <= Len(db)
  <2>1. CASE jobs' = jobs
    BY <2>1, <1>1
  <2>2. CASE jobs' = Enqueue(jobs, fd, Len(db), "fsync")
    <3> DEFINE r == Enqueue(jobs, fd, Len(db), "fsync")
    <3>1. "fsync" \in Kinds
      BY DEF Kinds
    <3>2. /\ r \in Seq(Job) /\ \A i \in 1..Len(jobs) : r[i] = jobs[i]
          /\ Len(r) = Len(jobs) + 1 /\ Len(jobs) \in Nat /\ r[Len(jobs) + 1].off = Len(db)
      BY <1>1, <3>1, EnqueueFacts, SMTT(30)
    <3> HIDE DEF r
    <3>3. ASSUME NEW i \in 1..Len(r) PROVE r[i].off <= Len(db)
      BY <1>1, <3>2
    <3> QED
      BY <2>2, <3>2, <3>3 DEF r
  <2> QED
    BY <1>8, <2>1, <2>2
<1>10. /\ files' \in Files
       /\ \A f \in Names : /\ files'[f].here = files[f].here
                           /\ f # fd => files'[f].ops = files[f].ops
                           /\ files'[f].synced <= Len(files'[f].ops)
                           /\ files[f].synced <= files'[f].synced
       /\ fd \in Names => files'[fd].ops = Cat(files[fd].ops, x)
  <2>1. CASE files' = w
    BY <2>1, <1>2, <1>3, <1>4
  <2>2. CASE files' = s
    BY <2>2, <1>2, <1>3, <1>4, <1>5, <1>6
  <2> QED
    BY <1>7, <2>1, <2>2
<1>11. syncoff' \in Nat /\ syncoff' <= size' /\ size' = size + Len(x) /\ pending' \in 0..Len(db)
  BY <1>1, <1>2, <1>7 DEF n
<1> QED
  BY <1>9, <1>10, <1>11 DEF Flushed

(* flushAppendOnlyFile in each of its cases moves writes to the file. *)
LEMMA FlushFacts ==
    ASSUME Types, Offsets, NEW force, Flush(force)
    PROVE  \E x \in Ops : Flushed(x)
<1>1. buf \in Ops /\ <<>> \in Ops /\ Cat(<<>>, buf) = buf /\ Cat(buf, <<>>) = buf
  BY OpsEmpty, EmptyOps DEF Types
<1>2. ASSUME UNCHANGED <<buf, files, size, syncoff, jobs>>, pending' \in {pending, Len(db)}
      PROVE  Flushed(<<>>)
  <2>1. /\ files \in Files /\ size \in Nat /\ Len(db) \in Nat
        /\ \A f \in Names : /\ files[f].ops \in Ops /\ Cat(files[f].ops, <<>>) = files[f].ops
                            /\ files[f].synced \in Nat
    BY OpsEmpty, OpsLen, FileFields DEF Types, Files
  <2> QED
    BY <1>1, <1>2, <2>1, EmptyOps DEF Flushed, Types, Offsets
<1>3. ASSUME NEW second \in BOOLEAN, FlushNothing(second) PROVE Flushed(<<>>)
  <2>1. buf' = buf /\ buf = <<>>
    BY <1>3 DEF FlushNothing
  <2>2. CASE TryFsync(<<>>, second)
    BY <1>1, <2>1, <2>2, TryFsyncFacts
  <2>3. CASE ~TryFsync(<<>>, second)
    BY <1>2, <1>3, <2>3 DEF FlushNothing
  <2> QED
    BY <2>2, <2>3
<1>4. ASSUME NEW second \in BOOLEAN, FlushWrites(second) PROVE Flushed(buf)
  BY <1>1, <1>4, TryFsyncFacts DEF FlushWrites
<1>5. ASSUME FlushPostponed \/ FlushError PROVE Flushed(<<>>)
  BY <1>2, <1>5 DEF FlushPostponed, FlushError, buffer
<1> QED
  BY <1>1, <1>3, <1>4, <1>5 DEF Flush

-----------------------------------------------------------------------------
(* The open file is the last one listed, or is not listed. *)
LEMMA LoadedMore ==
    ASSUME AInv, pc = "loop", NEW fs \in Files, NEW gs \in Files, NEW x \in Ops,
           \A f \in Names : f # fd => gs[f].ops = fs[f].ops,
           fd \in Names => gs[fd].ops = Cat(fs[fd].ops, x)
    PROVE  /\ state = "ON" => Loaded(gs, dm) = Cat(Loaded(fs, dm), x)
           /\ state # "ON" => Loaded(gs, dm) = Loaded(fs, dm)
<1>1. /\ ~NewListed /\ am \in Manifest /\ Ordered(am)
      /\ Loaded(gs, dm) = Loaded(gs, am) /\ Loaded(fs, dm) = Loaded(fs, am)
  <2>1. ~NewListed
    BY DEF NewListed
  <2> QED
    BY <2>1, Basics, SameListed DEF AInv, Manifests
<1>2. CASE state = "ON"
  <2>1. am.incr # <<>> /\ fd = Incr(Last(am.incr)) /\ fd \in Names
    BY <1>1, <1>2, LastListed DEF AInv, Descriptor
  <2>2. gs[Base(am.base)].ops = fs[Base(am.base)].ops
    BY <2>1, Basics, NameFacts
  <2>3. ASSUME NEW i \in 1..(Len(am.incr) - 1)
        PROVE  gs[Incr(am.incr[i])].ops = fs[Incr(am.incr[i])].ops
    <3>1. Len(am.incr) \in Nat /\ Last(am.incr) = am.incr[Len(am.incr)] /\ Len(am.incr) \in 1..Len(am.incr)
      BY <1>1, <2>1, LastListed, ManifestFields
    <3>2. i \in 1..Len(am.incr) /\ i < Len(am.incr)
      BY <3>1
    <3>3. am.incr[i] # Last(am.incr)
      <4>1. am.incr[i] < am.incr[Len(am.incr)]
        BY <1>1, <3>1, <3>2 DEF Ordered
      <4>2. am.incr[i] \in Int
        BY <3>2, Basics
      <4> QED
        BY <3>1, <4>1, <4>2
    <3>4. Incr(am.incr[i]) # fd /\ Incr(am.incr[i]) \in Names
      BY <2>1, <3>2, <3>3, Basics, NameFacts
    <3> QED
      BY <3>4
  <2>4. gs[Incr(Last(am.incr))].ops = Cat(fs[Incr(Last(am.incr))].ops, x)
    BY <2>1
  <2> QED
    BY <1>1, <1>2, <2>1, <2>2, <2>3, <2>4, LoadedExtend
<1>3. CASE state # "ON"
  <2>1. fd \in {Temp, Gone, Closed}
    BY <1>3 DEF AInv, Descriptor, Types
  <2>2. gs[Base(am.base)].ops = fs[Base(am.base)].ops
    BY <2>1, Basics, NameFacts
  <2>3. ASSUME NEW i \in 1..Len(am.incr)
        PROVE  gs[Incr(am.incr[i])].ops = fs[Incr(am.incr[i])].ops
    BY <2>1, Basics, NameFacts
  <2> QED
    BY <1>1, <1>3, <2>2, <2>3, LoadedSame
<1> QED
  BY <1>2, <1>3

(* So a flush leaves what is loaded, with the buffer, as it was. *)
LEMMA FlushedContents ==
    ASSUME AInv, pc = "loop", NEW x \in Ops, Flushed(x)
    PROVE  /\ state = "ON" => Cat(Loaded(files', dm), buf') = Cat(Loaded(files, dm), buf)
           /\ state # "ON" => Loaded(files', dm) = Loaded(files, dm)
           /\ child.on /\ state # "OFF" => Cat(Cat(child.snap, files'[fd].ops), buf')
                                             = Cat(Cat(child.snap, files[fd].ops), buf)
           /\ state = "WAIT" /\ ~child.on /\ fd = Temp => files'[Temp].ops = <<>>
<1>1. /\ files \in Files /\ files' \in Files /\ buf' \in Ops /\ buf = Cat(x, buf') /\ child.snap \in Ops
      /\ Loaded(files, dm) \in Ops
      /\ \A f \in Names : f # fd => files'[f].ops = files[f].ops
      /\ fd \in Names => files'[fd].ops = Cat(files[fd].ops, x)
  BY Basics DEF Flushed
<1>2. /\ state = "ON" => Loaded(files', dm) = Cat(Loaded(files, dm), x)
      /\ state # "ON" => Loaded(files', dm) = Loaded(files, dm)
  BY <1>1, LoadedMore
<1>3. ASSUME state = "ON" PROVE Cat(Loaded(files', dm), buf') = Cat(Loaded(files, dm), buf)
  <2>1. Cat(Loaded(files, dm), Cat(x, buf')) = Cat(Cat(Loaded(files, dm), x), buf')
    BY <1>1, OpsAssoc
  <2> QED
    BY <1>1, <1>2, <1>3, <2>1, Zenon
<1>4. ASSUME child.on, state # "OFF"
      PROVE  Cat(Cat(child.snap, files'[fd].ops), buf') = Cat(Cat(child.snap, files[fd].ops), buf)
  <2>1. fd \in Names
    BY <1>4, Basics, LastListed DEF AInv, Descriptor, Present, Types
  <2> DEFINE a == files[fd].ops
             s == child.snap
  <2>2. a \in Ops
    BY <2>1, Basics
  <2>3. files'[fd].ops = Cat(a, x)
    BY <1>1, <2>1
  <2> HIDE DEF a, s
  <2>4. s \in Ops
    BY <1>1 DEF s
  <2>5. Cat(s, a) \in Ops
    BY <2>2, <2>4, OpsCat
  <2>6. Cat(s, Cat(a, x)) = Cat(Cat(s, a), x)
    BY <2>2, <2>4, OpsAssoc
  <2>7. Cat(Cat(s, a), Cat(x, buf')) = Cat(Cat(Cat(s, a), x), buf')
    BY <1>1, <2>5, OpsAssoc
  <2> QED
    BY <1>1, <2>3, <2>6, <2>7, Zenon DEF a, s
<1>5. ASSUME state = "WAIT", ~child.on, fd = Temp PROVE files'[Temp].ops = <<>>
  <2>1. buf = <<>> /\ files[Temp].ops = <<>>
    BY <1>5 DEF AInv, Control, Present
  <2>2. x = <<>>
    <3>1. Len(x) \in Nat /\ Len(buf') \in Nat /\ Len(x) + Len(buf') = Len(buf) /\ Len(buf) = 0
      BY <1>1, <2>1, OpsLen, OpsCat, EmptyOps
    <3> QED
      BY <3>1, OpsLen
  <2>3. files'[Temp].ops = Cat(files[Temp].ops, x)
    BY <1>1, <1>5, NameFacts
  <2> QED
    BY <2>1, <2>2, <2>3, EmptyOps, OpsEmpty, Zenon
<1> QED
  BY <1>2, <1>3, <1>4, <1>5

(* The size kept in memory follows the file. *)
LEMMA FlushedSize ==
    ASSUME AInv, NEW x \in Ops, Flushed(x), fd \in Names
    PROVE  size' = Len(files'[fd].ops)
<1> DEFINE a == files[fd].ops
<1>1. a \in Ops /\ size = Len(a)
  BY Basics DEF AInv, Offsets
<1>2. size' = size + Len(x) /\ files'[fd].ops = Cat(a, x)
  BY DEF Flushed
<1>3. Len(Cat(a, x)) = Len(a) + Len(x)
  BY <1>1, OpsCat
<1> HIDE DEF a
<1> QED
  BY <1>1, <1>2, <1>3, Zenon

(* beforeSleep moves writes to the file, or none while the AOF is off. *)
LEMMA SleepFlushed ==
    ASSUME AInv, BeforeSleep
    PROVE  \E x \in Ops : Flushed(x)
<1>1. CASE state = "OFF"
  <2>1. UNCHANGED <<buf, size, syncoff, files, jobs, pending>>
    BY <1>1 DEF BeforeSleep, buffer
  <2>2. /\ buf \in Ops /\ Cat(<<>>, buf) = buf /\ files \in Files
        /\ \A f \in Names : Cat(files[f].ops, <<>>) = files[f].ops /\ files[f].synced \in Nat
    BY Basics, OpsEmpty, FileFields
  <2>3. Flushed(<<>>)
    BY <2>1, <2>2, EmptyOps DEF Flushed, AInv, Types, Offsets
  <2> QED
    BY <2>3, EmptyOps
<1>2. CASE state # "OFF"
  BY <1>2, FlushFacts DEF BeforeSleep, AInv
<1> QED
  BY <1>1, <1>2

(* The flush of the event loop. *)
LEMMA KeepsBeforeSleep ==
    ASSUME AInv, BeforeSleep
    PROVE  AInv'
<1>1. /\ pc = "loop" /\ Len(db) \in Nat /\ files \in Files
      /\ UNCHANGED <<policy, db, last, dm, child, pc, starting, am, state, fd, doubled>>
  BY Basics DEF BeforeSleep, rewrite
<1>2. PICK x \in Ops : Flushed(x)
  BY SleepFlushed
<1>3. fsynced' \in -1..Len(db) /\ promised' \in 0..Len(db)
  BY <1>1, <1>2 DEF BeforeSleep, Flushed, AInv, Types
<1>4. Types'
  BY <1>1, <1>2, <1>3, OpsLen, SMTT(30) DEF AInv, Types, Flushed, Files, PC
<1>5. Offsets'
  <2>1. fd \in Names => size' = Len(files'[fd].ops)
    BY <1>2, FlushedSize
  <2> QED
    BY <1>1, <1>2, <2>1 DEF Offsets, Flushed
<1>6. Control'
  BY <1>1, <1>2 DEF AInv, Control, Opening, Done, Flushed
<1>7. Room' /\ Descriptor'
  BY <1>1 DEF AInv, Room, Descriptor, Opening
<1>8. Manifests'
  BY <1>1 DEF AInv, Manifests, NewListed
<1>9. Present'
  <2>1. state = "WAIT" /\ ~child.on /\ fd = Temp => files'[Temp].ops = <<>>
    BY <1>1, <1>2, FlushedContents
  <2>2. \A f \in Names : files'[f].here = files[f].here
    BY <1>2 DEF Flushed
  <2> QED
    BY <1>1, <2>1, <2>2, Basics DEF AInv, Present
<1>10. Contents'
  BY <1>1, <1>2, FlushedContents DEF AInv, Contents, Full, Opening
<1> QED
  BY <1>4, <1>5, <1>6, <1>7, <1>8, <1>9, <1>10 DEF AInv

(* A rewrite begins with a flush. *)
LEMMA KeepsRewrite ==
    ASSUME AInv, Rewrite
    PROVE  AInv'
<1>1. /\ pc = "loop" /\ Len(db) \in Nat /\ files \in Files /\ ~child.on
      /\ am.bseq < MaxSeq /\ am.iseq < MaxSeq
      /\ UNCHANGED <<policy, db, last, promised, fsynced, dm, child, starting, am, state, fd>>
      /\ doubled' = (doubled \/ buf' # <<>>)
      /\ pc' = IF state = "OFF" THEN "fork" ELSE "open"
  BY Basics DEF Rewrite, BeginRewrite, data
<1>2. PICK x \in Ops : Flushed(x)
  BY FlushFacts DEF Rewrite, BeginRewrite, AInv
<1>3. Types'
  BY <1>1, <1>2, OpsLen DEF AInv, Types, Flushed, Files, PC
<1>4. Offsets'
  <2>1. fd \in Names => size' = Len(files'[fd].ops)
    BY <1>2, FlushedSize
  <2> QED
    BY <1>1, <1>2, <2>1 DEF Offsets, Flushed
<1>5. Control'
  BY <1>1, <1>2 DEF AInv, Control, Opening, Done, Flushed
<1>6. Room' /\ Descriptor'
  BY <1>1 DEF AInv, Room, Descriptor, Opening, Control
<1>7. Manifests'
  BY <1>1 DEF AInv, Manifests, NewListed
<1>8. Present'
  <2>1. state = "WAIT" /\ ~child.on /\ fd = Temp => files'[Temp].ops = <<>>
    BY <1>1, <1>2, FlushedContents
  <2>2. \A f \in Names : files'[f].here = files[f].here
    BY <1>2 DEF Flushed
  <2> QED
    BY <1>1, <2>1, <2>2, Basics DEF AInv, Present
<1>9. Contents'
  BY <1>1, <1>2, FlushedContents DEF AInv, Contents, Full, Opening
<1> QED
  BY <1>3, <1>4, <1>5, <1>6, <1>7, <1>8, <1>9 DEF AInv

(* So does turning the AOF on. *)
LEMMA KeepsStart ==
    ASSUME AInv, Start
    PROVE  AInv'
<1>1. /\ pc = "loop" /\ state = "OFF" /\ fd = Closed /\ buf = <<>> /\ ~starting
      /\ am.bseq < MaxSeq /\ am.iseq < MaxSeq /\ Len(db) \in Nat /\ state' = "WAIT"
      /\ UNCHANGED <<policy, db, last, promised, dm, am, fd, fsynced>>
  BY Basics DEF Start, data, AInv, Descriptor, Control, Types
<1>2. CASE /\ ~child.on
           /\ UNCHANGED <<buf, size, syncoff, jobs, pending, files, rewrite, doubled, faults>>
  <2> USE <1>1, <1>2 DEF rewrite
  <2>1. Types'
    BY DEF AInv, Types, PC
  <2>2. Offsets' /\ Control' /\ Room' /\ Descriptor'
    BY DEF AInv, Offsets, Control, Room, Descriptor, Opening, Done
  <2>3. Manifests'
    BY DEF AInv, Manifests, NewListed
  <2>4. Present'
    BY NameFacts DEF AInv, Present
  <2>5. Contents'
    BY DEF AInv, Contents, Full, Opening
  <2> QED
    BY <2>1, <2>2, <2>3, <2>4, <2>5 DEF AInv
<1>3. CASE child' = NoChild /\ starting' = TRUE /\ BeginRewrite
  <2>1. PICK x \in Ops : Flushed(x)
    BY <1>3, FlushFacts DEF BeginRewrite, AInv
  <2>2. pc' = "open" /\ doubled' = (doubled \/ buf' # <<>>) /\ buf' = <<>> /\ ~child'.on
        /\ child' \in [on : BOOLEAN, snap : Ops]
    BY <1>1, <1>3, <2>1, EmptyOps DEF BeginRewrite, Flushed, NoChild
  <2>3. Loaded(files', dm) = Loaded(files, dm)
    BY <1>1, <2>1, FlushedContents
  <2>4. Types'
    BY <1>1, <1>3, <2>1, <2>2, EmptyOps DEF AInv, Types, PC, Flushed, Files
  <2>5. Offsets'
    BY <1>1, <2>1, NameFacts DEF Offsets, Flushed
  <2>6. Control' /\ Room'
    BY <1>1, <2>2 DEF AInv, Control, Room, Opening, Done
  <2>7. Descriptor' /\ Manifests'
    BY <1>1, <2>2 DEF AInv, Descriptor, Manifests, NewListed
  <2>8. Present'
    <3>1. \A f \in Names : files'[f].here = files[f].here
      BY <2>1 DEF Flushed
    <3> QED
      BY <1>1, <2>2, <3>1, Basics, NameFacts DEF AInv, Present
  <2>9. Contents'
    BY <1>1, <2>2, <2>3 DEF AInv, Contents, Full, Opening
  <2> QED
    BY <2>4, <2>5, <2>6, <2>7, <2>8, <2>9 DEF AInv
<1> QED
  BY <1>2, <1>3 DEF Start

(* What is loaded stays a prefix of the dataset. *)
LEMMA KeepsStop ==
    ASSUME AInv, Stop
    PROVE  AInv'
<1>1. /\ pc = "loop" /\ state' = "OFF" /\ fd' = Closed /\ buf' = <<>> /\ child' = NoChild
      /\ size' = 0 /\ syncoff' = 0 /\ fsynced' = -1 /\ pending' = 0
      /\ UNCHANGED <<policy, db, last, promised, dm, pc, starting, am, doubled>>
      /\ state # "OFF"
  BY DEF Stop, data
<1>2. PICK left \in {buf, <<>>} :
        /\ files' = Sync(Extend(files, fd, left), fd)
        /\ jobs' = jobs \/ jobs' = Enqueue(jobs, Gone, Len(db), "fsync")
  BY Zenon DEF Stop, Enqueue
<1>3. /\ left \in Ops /\ files \in Files /\ buf \in Ops /\ Len(db) \in Nat /\ ~child'.on
      /\ child' \in [on : BOOLEAN, snap : Ops] /\ state \in {"ON", "WAIT"} /\ ~starting
  BY <1>1, <1>2, Basics, EmptyOps DEF NoChild, AInv, Types, Control, Opening
<1> DEFINE w == Extend(files, fd, left)
<1>4. /\ w \in Files
      /\ \A f \in Names : /\ w[f].here = files[f].here /\ w[f].synced = files[f].synced
                          /\ f # fd => w[f].ops = files[f].ops
      /\ fd \in Names => w[fd].ops = Cat(files[fd].ops, left)
  BY <1>3, ExtendFacts
<1>5. /\ files' \in Files
      /\ \A f \in Names : /\ files'[f].ops = w[f].ops /\ files'[f].here = w[f].here
                          /\ f # fd => files'[f].synced = w[f].synced
      /\ fd \in Names => files'[fd].synced = Len(w[fd].ops)
  BY <1>2, <1>4, SyncFacts
<1> HIDE DEF w
<1>6. \A f \in Names : files'[f].synced <= Len(files'[f].ops)
  <2>1. \A f \in Names : Len(w[f].ops) \in Nat
    BY <1>4, FileFields, OpsLen
  <2> QED
    BY <2>1, <1>4, <1>5 DEF AInv, Offsets
<1>7. jobs' \in Seq(Job) /\ \A i \in 1..Len(jobs') : jobs'[i].off <= Len(db)
  <2>1. jobs \in Seq(Job) /\ \A i \in 1..Len(jobs) : jobs[i].off <= Len(db)
    BY DEF AInv, Types, Offsets
  <2> DEFINE r == Enqueue(jobs, Gone, Len(db), "fsync")
  <2>2. /\ r \in Seq(Job) /\ \A i \in 1..Len(jobs) : r[i] = jobs[i]
        /\ Len(r) = Len(jobs) + 1 /\ Len(jobs) \in Nat /\ r[Len(jobs) + 1].off = Len(db)
    <3>1. "fsync" \in Kinds /\ Gone \in Open
      BY DEF Kinds, Open
    <3> QED
      BY <1>3, <2>1, <3>1, EnqueueFacts, SMTT(30)
  <2>3. jobs' \in {jobs, r}
    BY <1>2
  <2> HIDE DEF r
  <2>4. ASSUME NEW i \in 1..Len(r) PROVE r[i].off <= Len(db)
    BY <1>3, <2>1, <2>2
  <2> QED
    BY <2>1, <2>2, <2>3, <2>4
<1>8. Types'
  BY <1>1, <1>3, <1>5, <1>7, EmptyOps DEF AInv, Types, PC, Files, Open
<1>9. Offsets'
  BY <1>1, <1>6, <1>7, NameFacts DEF Offsets
<1>10. Control' /\ Room' /\ Descriptor'
  BY <1>1, <1>3 DEF AInv, Control, Room, Descriptor, Opening, Done
<1>11. Manifests'
  BY <1>1 DEF AInv, Manifests, NewListed
<1>12. Present'
  BY <1>1, <1>4, <1>5, Basics DEF AInv, Present
<1>13. Contents'
  <2> DEFINE l == Loaded(files, dm)
  <2>1. l \in Ops
    BY Basics
  <2>2. (state = "ON" => Loaded(files', dm) = Cat(l, left)) /\ (state # "ON" => Loaded(files', dm) = l)
    <3>1. /\ \A f \in Names : f # fd => files'[f].ops = files[f].ops
          /\ fd \in Names => files'[fd].ops = Cat(files[fd].ops, left)
      BY <1>4, <1>5
    <3> QED
      BY <1>1, <1>3, <1>5, <3>1, LoadedMore
  <2> HIDE DEF l
  <2>3. ASSUME ~doubled, state = "ON" PROVE IsPrefix(Loaded(files', dm), db)
    <3>1. Cat(l, buf) = db
      BY <2>3 DEF AInv, Contents, Full, l
    <3>2. IsPrefix(Cat(l, buf), Cat(l, buf)) /\ IsPrefix(l, Cat(l, buf)) /\ Cat(l, <<>>) = l
      BY <1>3, <2>1, OpsCat, OpsPrefix, OpsEmpty
    <3> QED
      BY <1>2, <2>2, <2>3, <3>1, <3>2, Zenon
  <2>4. ASSUME ~doubled, state # "ON" PROVE IsPrefix(Loaded(files', dm), db)
    BY <1>1, <2>2, <2>4 DEF AInv, Contents, Full, l
  <2> QED
    BY <1>1, <1>3, <2>3, <2>4 DEF Contents, Full, Opening
<1> QED
  BY <1>8, <1>9, <1>10, <1>11, <1>12, <1>13 DEF AInv

(* A sync leaves the contents alone. *)
LEMMA KeepsBio ==
    ASSUME AInv, Bio
    PROVE  AInv'
<1>1. /\ jobs # <<>> /\ jobs' = Tail(jobs)
      /\ files' \in {files, Sync(files, Head(jobs).file)} /\ pending' \in {pending, Head(jobs).off}
      /\ UNCHANGED <<data, buffer, dm, rewrite, am, state, fd, fsynced, doubled>>
  BY DEF Bio
<1>2. /\ jobs' \in Seq(Job) /\ jobs \in Seq(Job)
      /\ \A i \in 1..Len(jobs') : \E j \in 1..Len(jobs) : jobs'[i] = jobs[j]
      /\ 1 \in 1..Len(jobs) /\ Head(jobs) = jobs[1] /\ Head(jobs) \in Job
  <2>1. \A q \in Seq(Job) : q # <<>> =>
           /\ Tail(q) \in Seq(Job) /\ 1 \in 1..Len(q) /\ Head(q) = q[1] /\ Head(q) \in Job
           /\ \A i \in 1..Len(Tail(q)) : Tail(q)[i] = q[i + 1] /\ i + 1 \in 1..Len(q)
    OBVIOUS
  <2>2. jobs \in Seq(Job)
    BY DEF AInv, Types
  <2> QED
    BY <1>1, <2>1, <2>2
<1>3. /\ files' \in Files
      /\ \A f \in Names : /\ files'[f].ops = files[f].ops /\ files'[f].here = files[f].here
                          /\ files'[f].synced \in {files[f].synced, Len(files[f].ops)}
  BY <1>1, Basics, SyncFacts, SMTT(30)
<1>4. Types'
  BY <1>1, <1>2, <1>3, Basics DEF AInv, Types, Offsets, PC, Files, Job, data, buffer, rewrite
<1>5. Offsets'
  <2>1. \A f \in Names : files'[f].synced <= Len(files'[f].ops)
    BY <1>3, Basics DEF AInv, Offsets
  <2>2. \A i \in 1..Len(jobs') : jobs'[i].off <= Len(db)
    BY <1>2 DEF AInv, Offsets
  <2> QED
    BY <1>1, <1>3, <2>1, <2>2 DEF AInv, Offsets, data, buffer
<1>6. Control' /\ Room' /\ Descriptor'
  BY <1>1 DEF AInv, Control, Room, Descriptor, Opening, Done, buffer, rewrite
<1>7. Manifests'
  BY <1>1 DEF AInv, Manifests, NewListed, rewrite
<1>8. Present'
  <2>1. NewIncr' = NewIncr
    BY <1>1 DEF NewIncr
  <2>2. pc \in {"listIncr", "switch"} => NewIncr \in Names
    BY Basics, NameFacts, AofAssumption DEF NewIncr, AInv, Room
  <2>3. pc \in {"renameIncr", "listBase"} => Base(am.bseq + 1) \in Names
    BY Basics, NameFacts, AofAssumption DEF AInv, Room, Control, Done
  <2>4. state # "OFF" /\ pc \in {"drain", "fork"} => fd \in Names
    BY Basics, NameFacts, LastListed DEF AInv, Descriptor, Types
  <2> QED
    BY <1>1, <1>3, <2>1, <2>2, <2>3, <2>4, Basics, NameFacts DEF AInv, Present, rewrite
<1>9. Contents'
  <2>1. Loaded(files', dm) = Loaded(files, dm)
    BY <1>3, Basics, LoadedSame, ManifestFields, NameFacts
  <2>2. child.on /\ state # "OFF" /\ pc # "collect" => fd \in Names
    BY Basics, LastListed DEF AInv, Descriptor, Present, Types
  <2> QED
    BY <1>1, <1>3, <2>1, <2>2 DEF AInv, Contents, Full, Opening, data, buffer, rewrite
<1> QED
  BY <1>4, <1>5, <1>6, <1>7, <1>8, <1>9 DEF AInv

-----------------------------------------------------------------------------
(* The end of a rewrite *)

(* The snapshot of the child is synced when it gets its name. *)
LEMMA SyncedFile ==
    ASSUME NEW s \in Ops
    PROVE  SyncFile(File(s, 0)) = [here |-> TRUE, ops |-> s, synced |-> Len(s)]
<1> DEFINE f == File(s, 0)
<1>1. f = [here |-> TRUE, ops |-> s, synced |-> 0]
  BY DEF File
<1>2. f.ops = s
  BY <1>1
<1>3. SyncFile(f) = [f EXCEPT !.synced = Len(s)]
  BY <1>2, Zenon DEF SyncFile
<1> HIDE DEF f
<1> QED
  BY <1>1, <1>3 DEF f

(* The name of the new BASE is not in use. *)
LEMMA KeepsRenameBase ==
    ASSUME AInv, RenameBase
    PROVE  AInv'
<1> DEFINE new == Base(am.bseq + 1)
<1>1. /\ pc = "renameBase" /\ pc' = IF state = "WAIT" THEN "renameIncr" ELSE "listBase"
      /\ UNCHANGED <<policy, db, last, promised, buffer, thread, dm, child, starting, am, state, fd,
                     fsynced, doubled>>
      /\ child.on /\ am.bseq + 1 \in 1..MaxSeq /\ child.snap \in Ops /\ files \in Files
  BY Basics, AofAssumption DEF RenameBase, data, AInv, Control, Room, Done
<1>2. new \in Names /\ new # Base(am.base) /\ new # Temp /\ (\A i : new # Incr(i)) /\ new # fd
  BY <1>1, NameFacts, Basics, AofAssumption DEF AInv, Descriptor, Types
<1>3. files' = [files EXCEPT ![new] = [here |-> TRUE, ops |-> child.snap, synced |-> Len(child.snap)]]
  BY <1>1, SyncedFile, Zenon DEF RenameBase
<1> HIDE DEF new
<1>4. /\ files' \in Files /\ files'[new].here /\ files'[new].ops = child.snap
      /\ files'[new].synced = Len(child.snap) /\ Len(child.snap) \in Nat
      /\ \A f \in Names : f # new => files'[f] = files[f]
  BY <1>1, <1>2, <1>3, OpsLen DEF Files, FileRec
<1>5. Types'
  BY <1>1, <1>4 DEF AInv, Types, PC, Files, buffer, thread
<1>6. Offsets'
  BY <1>1, <1>2, <1>4 DEF AInv, Offsets, buffer, thread
<1>7. Control' /\ Room' /\ Descriptor'
  BY <1>1 DEF AInv, Control, Room, Descriptor, Opening, Done, buffer
<1>8. Manifests'
  BY <1>1 DEF AInv, Manifests, NewListed
<1>9. Present'
  <2>1. files'[Base(am.base)] = files[Base(am.base)]
    BY <1>2, <1>4, Basics
  <2>2. \A i \in 1..Len(am.incr) : files'[Incr(am.incr[i])] = files[Incr(am.incr[i])]
    BY <1>2, <1>4, Basics
  <2> QED
    BY <1>1, <1>2, <1>4, <2>1, <2>2 DEF AInv, Present, new
<1>10. Contents'
  <2>1. Loaded(files', dm) = Loaded(files, dm)
    <3>1. ~NewListed
      BY <1>1 DEF NewListed
    <3>2. files'[Base(am.base)].ops = files[Base(am.base)].ops
      BY <1>2, <1>4, Basics
    <3>3. \A i \in 1..Len(am.incr) : files'[Incr(am.incr[i])].ops = files[Incr(am.incr[i])].ops
      BY <1>2, <1>4, Basics
    <3>4. Loaded(files', am) = Loaded(files, am)
      BY <1>4, <3>2, <3>3, Basics, LoadedSame
    <3> QED
      BY <1>1, <1>4, <3>1, <3>4, SameListed
  <2>2. state # "OFF" => fd \in Names
    BY <1>1, Basics, LastListed DEF AInv, Descriptor, Present, Types
  <2> QED
    BY <1>1, <1>2, <1>4, <2>1, <2>2 DEF AInv, Contents, Full, Opening, buffer
<1> QED
  BY <1>5, <1>6, <1>7, <1>8, <1>9, <1>10 DEF AInv

(* The queue with the file of every job changed. *)
Redirect(q, g) == [i \in 1..Len(q) |-> [q[i] EXCEPT !.file = g[i]]]

(* The jobs of the thread when files are renamed or removed. *)
LEMMA RedirectFacts ==
    ASSUME NEW q \in Seq(Job), NEW g \in [1..Len(q) -> Open]
    PROVE  /\ Redirect(q, g) \in Seq(Job) /\ Len(Redirect(q, g)) = Len(q) /\ Len(q) \in Nat
           /\ \A i \in 1..Len(q) : Redirect(q, g)[i].off = q[i].off /\ Redirect(q, g)[i].file = g[i]
<1> DEFINE n == Len(q)
           r == Redirect(q, g)
<1>1. n \in Nat /\ \A i \in 1..n : q[i] \in Job
  OBVIOUS
<1>2. r = [i \in 1..n |-> [q[i] EXCEPT !.file = g[i]]] /\ g \in [1..n -> Open]
  BY Zenon DEF Redirect
<1> HIDE DEF n, r
<1>3. ASSUME NEW i \in 1..n
      PROVE  /\ [q[i] EXCEPT !.file = g[i]] \in Job
             /\ [q[i] EXCEPT !.file = g[i]].file = g[i]
             /\ [q[i] EXCEPT !.file = g[i]].off = q[i].off
  BY <1>1, <1>2 DEF Job
<1>4. r \in [1..n -> Job] /\ \A i \in 1..n : r[i] = [q[i] EXCEPT !.file = g[i]]
  BY <1>2, <1>3
<1>5. r \in Seq(Job) /\ Len(r) = n
  BY <1>1, <1>4
<1>6. \A i \in 1..n : r[i].off = q[i].off /\ r[i].file = g[i]
  BY <1>3, <1>4
<1> QED
  BY <1>1, <1>5, <1>6 DEF n, r

(* Nor is the one the temporary file gets. *)
LEMMA KeepsRenameIncr ==
    ASSUME AInv, RenameIncr
    PROVE  AInv'
<1> DEFINE new == Incr(am.iseq + 1)
           now(f) == IF f = Temp THEN new ELSE f
<1>1. /\ pc = "renameIncr" /\ pc' = "listBase" /\ state = "WAIT" /\ fd = Temp /\ fd' = new
      /\ UNCHANGED <<policy, db, last, promised, buffer, pending, dm, child, starting, am, state,
                     fsynced, doubled>>
      /\ child.on /\ am.iseq + 1 \in 1..MaxSeq /\ files \in Files /\ files[Temp].here
      /\ jobs \in Seq(Job)
  <2>1. /\ pc = "renameIncr" /\ pc' = "listBase" /\ fd' = IF fd = Temp THEN new ELSE fd
        /\ UNCHANGED <<policy, db, last, promised, buffer, pending, dm, child, starting, am, state,
                       fsynced, doubled>>
    BY DEF RenameIncr, data
  <2>2. state = "WAIT" /\ child.on /\ jobs \in Seq(Job) /\ files \in Files
    BY <2>1, Basics DEF AInv, Control, Done, Types
  <2>3. fd = Temp /\ files[Temp].here
    BY <2>1, <2>2 DEF AInv, Descriptor, Present
  <2>4. am.iseq + 1 \in 1..MaxSeq
    BY <2>1, <2>2, Basics, AofAssumption DEF AInv, Room
  <2> QED
    BY <2>1, <2>2, <2>3, <2>4
<1>2. /\ new \in Names /\ new # Temp /\ Temp \in Names /\ (\A i : new # Base(i) /\ Temp # Base(i))
      /\ \A i \in 1..Len(am.incr) : Incr(am.incr[i]) \notin {new, Temp}
  <2>1. \A i \in 1..Len(am.incr) : am.incr[i] # am.iseq + 1
    BY Basics
  <2> QED
    BY <1>1, <2>1, NameFacts
<1>3. files' = [files EXCEPT ![new] = files[Temp], ![Temp] = NoFile]
  BY DEF RenameIncr
<1>4. /\ jobs' \in Seq(Job) /\ Len(jobs') = Len(jobs) /\ Len(jobs) \in Nat
      /\ \A i \in 1..Len(jobs) : jobs'[i].off = jobs[i].off /\ jobs'[i].file = now(jobs[i].file)
  <2> DEFINE g == [i \in 1..Len(jobs) |-> now(jobs[i].file)]
  <2>1. \A q \in Seq(Job) : \A i \in 1..Len(q) : q[i] \in Job
    OBVIOUS
  <2>2. ASSUME NEW i \in 1..Len(jobs) PROVE jobs[i].file \in Open
    BY <1>1, <2>1 DEF Job
  <2>3. g \in [1..Len(jobs) -> Open]
    BY <1>2, <2>2 DEF Open
  <2>4. jobs' = Redirect(jobs, g)
    BY DEF RenameIncr, Redirect
  <2>5. \A i \in 1..Len(jobs) : g[i] = now(jobs[i].file)
    OBVIOUS
  <2> HIDE DEF g, now
  <2>6. /\ jobs' \in Seq(Job) /\ Len(jobs') = Len(jobs) /\ Len(jobs) \in Nat
        /\ \A i \in 1..Len(jobs) : jobs'[i].off = jobs[i].off /\ jobs'[i].file = g[i]
    BY <1>1, <2>3, <2>4, RedirectFacts
  <2> QED
    BY <2>5, <2>6
<1> HIDE DEF new, now
<1>5. /\ files' \in Files /\ files'[new] = files[Temp] /\ files'[Temp] = NoFile
      /\ \A f \in Names : f \notin {new, Temp} => files'[f] = files[f]
  <2>1. NoFile \in FileRec
    BY EmptyOps DEF NoFile, FileRec
  <2> QED
    BY <1>1, <1>2, <1>3, <2>1 DEF Files
<1>6. Types'
  BY <1>1, <1>2, <1>4, <1>5 DEF AInv, Types, PC, Files, buffer, Open
<1>7. Offsets'
  <2>1. NoFile.synced <= Len(NoFile.ops)
    BY EmptyOps DEF NoFile
  <2> QED
    BY <1>1, <1>2, <1>4, <1>5, <2>1 DEF AInv, Offsets, buffer
<1>8. Control' /\ Room' /\ Descriptor'
  BY <1>1 DEF AInv, Control, Room, Descriptor, Opening, Done, buffer, new
<1>9. Manifests'
  BY <1>1 DEF AInv, Manifests, NewListed
<1>10. Present'
  <2>1. files'[Base(am.base)] = files[Base(am.base)]
    BY <1>2, <1>5, Basics
  <2>2. \A i \in 1..Len(am.incr) : files'[Incr(am.incr[i])] = files[Incr(am.incr[i])]
    BY <1>2, <1>5, Basics
  <2>3. files'[Base(am.bseq + 1)] = files[Base(am.bseq + 1)]
    BY <1>1, <1>2, <1>5, NameFacts, Basics, AofAssumption DEF AInv, Room
  <2> QED
    BY <1>1, <1>2, <1>5, <2>1, <2>2, <2>3 DEF AInv, Present
<1>11. Contents'
  <2>1. Loaded(files', dm) = Loaded(files, dm)
    <3>1. ~NewListed
      BY <1>1 DEF NewListed
    <3>2. files'[Base(am.base)].ops = files[Base(am.base)].ops
      BY <1>2, <1>5, Basics
    <3>3. \A i \in 1..Len(am.incr) : files'[Incr(am.incr[i])].ops = files[Incr(am.incr[i])].ops
      BY <1>2, <1>5, Basics
    <3>4. Loaded(files', am) = Loaded(files, am)
      BY <1>5, <3>2, <3>3, Basics, LoadedSame
    <3> QED
      BY <1>1, <1>5, <3>1, <3>4, SameListed
  <2> QED
    BY <1>1, <1>2, <1>5, <2>1 DEF AInv, Contents, Full, Opening, buffer
<1> QED
  BY <1>6, <1>7, <1>8, <1>9, <1>10, <1>11 DEF AInv

(* Only files that are not listed are removed. *)
LEMMA KeepsCollect ==
    ASSUME AInv, Collect
    PROVE  AInv'
<1>1. PICK f \in am.hist : files' = [files EXCEPT ![f] = NoFile] /\ am' = [am EXCEPT !.hist = @ \ {f}]
  BY DEF Collect
<1>2. /\ pc = "collect" /\ ~NewListed /\ f \in dm.hist /\ f \in Old(am) /\ f \in Names
      /\ UNCHANGED <<policy, db, last, promised, buffer, thread, dm, rewrite, state, fd, fsynced,
                     doubled>>
  BY ManifestFields DEF Collect, data, NewListed, AInv, Manifests, Types
<1>3. f # Base(am.base) /\ \A i \in 1..Len(am.incr) : Incr(am.incr[i]) # f
  <2>1. CASE \E i \in 1..(am.base - 1) : f = Base(i)
    BY <2>1, Basics, NameFacts
  <2>2. CASE \E k \in 1..am.iseq : f = Incr(k) /\ \A j \in 1..Len(am.incr) : am.incr[j] # k
    BY <2>2, Basics, NameFacts
  <2> QED
    BY <1>2, <2>1, <2>2 DEF Old
<1>4. fd # f
  BY <1>2, <1>3, Basics, LastListed, NameFacts DEF AInv, Descriptor, Types
<1>5. /\ files' \in Files /\ files'[f] = NoFile /\ \A g \in Names : g # f => files'[g] = files[g]
  <2>1. NoFile \in FileRec
    BY EmptyOps DEF NoFile, FileRec
  <2> QED
    BY <1>1, <1>2, <2>1, Basics DEF Files
<1>6. /\ am' \in Manifest /\ am'.base = am.base /\ am'.bseq = am.bseq /\ am'.incr = am.incr
      /\ am'.iseq = am.iseq /\ am'.hist \subseteq am.hist
  BY <1>1, Basics DEF Manifest
<1>7. Types'
  BY <1>2, <1>5, <1>6 DEF AInv, Types, PC, Files, buffer, thread, rewrite
<1>8. Offsets'
  <2>1. NoFile.synced <= Len(NoFile.ops)
    BY EmptyOps DEF NoFile
  <2> QED
    BY <1>2, <1>4, <1>5, <2>1 DEF AInv, Offsets, buffer, thread
<1>9. Control' /\ Room' /\ Descriptor'
  BY <1>2, <1>6 DEF AInv, Control, Room, Descriptor, Opening, Done, buffer, rewrite
<1>10. Manifests'
  <2>1. Old(am') = Old(am) /\ Ordered(am')
    BY <1>6, Zenon DEF Old, Ordered, AInv, Manifests
  <2> QED
    BY <1>2, <1>6, <2>1 DEF AInv, Manifests, NewListed, rewrite
<1>11. Present'
  <2>1. files'[Base(am.base)] = files[Base(am.base)]
    BY <1>3, <1>5, Basics
  <2>2. \A i \in 1..Len(am.incr) : files'[Incr(am.incr[i])] = files[Incr(am.incr[i])]
    BY <1>3, <1>5, Basics
  <2> QED
    BY <1>2, <1>6, <2>1, <2>2 DEF AInv, Present, Control, rewrite
<1>12. Contents'
  <2>1. Loaded(files', dm) = Loaded(files, dm)
    <3>1. files'[Base(am.base)].ops = files[Base(am.base)].ops
      BY <1>3, <1>5, Basics
    <3>2. \A i \in 1..Len(am.incr) : files'[Incr(am.incr[i])].ops = files[Incr(am.incr[i])].ops
      BY <1>3, <1>5, Basics
    <3>3. Loaded(files', am) = Loaded(files, am)
      BY <1>5, <3>1, <3>2, Basics, LoadedSame
    <3> QED
      BY <1>2, <1>5, <3>3, Basics, SameListed
  <2> QED
    BY <1>2, <2>1 DEF AInv, Contents, Full, Opening, buffer, rewrite, Control
<1> QED
  BY <1>7, <1>8, <1>9, <1>10, <1>11, <1>12 DEF AInv

-----------------------------------------------------------------------------
(* With one INCR file, it is loaded after the BASE. *)
LEMMA OneIncr ==
    ASSUME NEW fs \in Files, NEW m \in Manifest, NEW k, m.incr = <<k>>
    PROVE  Loaded(fs, m) = Cat(fs[Base(m.base)].ops, fs[Incr(k)].ops)
<1> DEFINE n == [m EXCEPT !.incr = <<>>]
<1>1. n \in Manifest /\ n.base = m.base /\ n.incr = <<>>
  <2> DEFINE e == <<>>
  <2>1. e \in Seq(1..MaxSeq)
    OBVIOUS
  <2>2. n = [m EXCEPT !.incr = e]
    OBVIOUS
  <2> HIDE DEF e, n
  <2>3. n \in Manifest /\ n.base = m.base /\ n.incr = e
    BY <2>1, <2>2 DEF Manifest
  <2> QED
    BY <2>3 DEF e
<1>2. Len(m.incr) = 1 /\ m.incr[1] = k /\ Len(<<>>) = 0
  <2>1. Len(<<k>>) = 1 /\ <<k>>[1] = k /\ Len(<<>>) = 0
    OBVIOUS
  <2> QED
    BY <2>1, Zenon
<1> HIDE DEF n
<1>3. Loaded(fs, n) = fs[Base(m.base)].ops
  BY <1>1, LoadedBase
<1>4. Loaded(fs, m) = Cat(Loaded(fs, n), fs[Incr(m.incr[Len(m.incr)])].ops)
  <2>1. Len(m.incr) = Len(n.incr) + 1 /\ \A i \in 1..Len(n.incr) : m.incr[i] = n.incr[i]
    BY <1>1, <1>2
  <2> QED
    BY <1>1, <2>1, LoadedAppend
<1> QED
  BY <1>2, <1>3, <1>4

(* Splitting off the last element, or all. *)
LEMMA SplitIncr ==
    ASSUME NEW q \in Seq(1..MaxSeq)
    PROVE  /\ SubSeq(q, Len(q) + 1, Len(q)) = <<>>
           /\ q # <<>> => /\ Front(q) \in Seq(1..MaxSeq) /\ Len(Front(q)) = Len(q) - 1
                          /\ \A i \in 1..(Len(q) - 1) : Front(q)[i] = q[i]
                          /\ SubSeq(q, Len(Front(q)) + 1, Len(q)) = <<Last(q)>>
<1> USE AofAssumption
<1>1. SubSeq(q, Len(q) + 1, Len(q)) = <<>>
  OBVIOUS
<1>2. q # <<>> => /\ Front(q) \in Seq(1..MaxSeq) /\ Len(Front(q)) = Len(q) - 1
                  /\ \A i \in 1..(Len(q) - 1) : Front(q)[i] = q[i]
  BY SMTT(30) DEF Front
<1>3. ASSUME q # <<>> PROVE SubSeq(q, Len(q), Len(q)) = <<Last(q)>>
  <2> DEFINE s == SubSeq(q, Len(q), Len(q))
  <2>1. s \in Seq(1..MaxSeq) /\ Len(s) = 1 /\ s[1] = q[Len(q)]
    BY <1>3
  <2>2. \A r \in Seq(1..MaxSeq) : Len(r) = 1 => r = <<r[1]>>
    OBVIOUS
  <2> HIDE DEF s
  <2>3. s = <<s[1]>>
    BY <2>1, <2>2
  <2> QED
    BY <2>1, <2>3 DEF s, Last
<1>4. Len(q) \in Nat
  OBVIOUS
<1> QED
  BY <1>1, <1>2, <1>3, <1>4

(* Replacing the BASE: everything but the file in use becomes history. *)
LEMMA WithBaseFacts ==
    ASSUME AInv, pc = "listBase"
    PROVE  LET m == WithBase(am) IN
           /\ m \in Manifest /\ Ordered(m) /\ m.hist \subseteq Old(m)
           /\ m.base = am.bseq + 1
           /\ IF state = "OFF" THEN m.incr = <<>>
              ELSE \E k \in 1..MaxSeq : fd = Incr(k) /\ m.incr = <<k>> /\ (state = "ON" => k = Last(am.incr))
<1> DEFINE m == WithBase(am)
           l == IF state = "WAIT" THEN WithIncr(am) ELSE am
           old == Rewritten(l)
           h == am.hist \cup {Base(am.base)} \cup {Incr(old[i]) : i \in 1..Len(old)}
           q == SubSeq(l.incr, Len(old) + 1, Len(l.incr))
<1>1. /\ am \in Manifest /\ Ordered(am) /\ child.on /\ state \in {"OFF", "WAIT", "ON"}
      /\ am.bseq < MaxSeq /\ (state = "WAIT" => am.iseq < MaxSeq)
      /\ am.hist \subseteq Old(am) /\ am.base = am.bseq /\ am.base \in 1..MaxSeq
  BY Basics DEF AInv, Types, Manifests, Control, Room, Done
<1>2. /\ l \in Manifest /\ Ordered(l) /\ l.base = am.base /\ l.bseq = am.bseq /\ l.hist = am.hist
      /\ Old(l) = Old(am)
      /\ state = "WAIT" => l.incr # <<>> /\ Last(l.incr) = am.iseq + 1
      /\ state # "WAIT" => l = am
  BY <1>1, WithIncrFacts
<1>3. m = [l EXCEPT !.base = am.bseq + 1, !.bseq = l.bseq + 1, !.hist = h, !.incr = q]
  BY <1>2, Zenon DEF WithBase
<1>4. /\ fd = Closed <=> state = "OFF"
      /\ state # "OFF" => l.incr # <<>> /\ fd = Incr(Last(l.incr)) /\ Last(l.incr) \in 1..MaxSeq
  BY <1>1, <1>2, NameFacts, LastListed DEF AInv, Descriptor
<1>5. old = IF state = "OFF" THEN l.incr ELSE Front(l.incr)
  BY <1>4 DEF Rewritten
<1> HIDE DEF l, m, old, h, q
<1>6. /\ l.base \in 1..MaxSeq /\ l.bseq \in 1..MaxSeq /\ l.iseq \in 1..MaxSeq
      /\ l.hist \subseteq Names /\ l.incr \in Seq(1..MaxSeq)
      /\ Len(l.incr) \in Nat /\ \A i \in 1..Len(l.incr) : l.incr[i] \in 1..MaxSeq
  BY <1>2, ManifestFields
<1> DEFINE n == Len(l.incr)
           o == Len(old)
<1>7. /\ o \in Nat /\ o = IF state = "OFF" THEN n ELSE n - 1
      /\ \A i \in 1..o : old[i] = l.incr[i] /\ i \in 1..n
      /\ q = IF state = "OFF" THEN <<>> ELSE <<Last(l.incr)>>
      /\ state # "OFF" => n # 0 /\ Last(l.incr) = l.incr[n]
  <2>1. CASE state = "OFF"
    <3>1. q = SubSeq(l.incr, Len(l.incr) + 1, Len(l.incr))
      BY <2>1, <1>5, Zenon DEF q
    <3>2. q = <<>>
      BY <1>6, <3>1, SplitIncr
    <3> QED
      BY <2>1, <1>5, <1>6, <3>2
  <2>2. CASE state # "OFF"
    <3>1. /\ l.incr # <<>> /\ old = Front(l.incr)
      BY <2>2, <1>4, <1>5
    <3>2. /\ Len(Front(l.incr)) = Len(l.incr) - 1
          /\ \A i \in 1..(Len(l.incr) - 1) : Front(l.incr)[i] = l.incr[i]
          /\ SubSeq(l.incr, Len(Front(l.incr)) + 1, Len(l.incr)) = <<Last(l.incr)>>
      BY <1>6, <3>1, SplitIncr
    <3>3. q = <<Last(l.incr)>>
      BY <3>1, <3>2, Zenon DEF q
    <3>4. n \in 1..n /\ Last(l.incr) = l.incr[n]
      BY <1>2, <3>1, LastListed
    <3>5. o = n - 1 /\ o \in Nat
      BY <3>1, <3>2, <3>4, <1>6
    <3>6. \A i \in 1..o : old[i] = l.incr[i] /\ i \in 1..n
      BY <3>1, <3>2, <3>5, <1>6
    <3> QED
      BY <2>2, <3>3, <3>4, <3>5, <3>6, <1>6
  <2> QED
    BY <2>1, <2>2
<1> HIDE DEF n, o
<1>8. q \in Seq(1..MaxSeq) /\ h \subseteq Names /\ l.bseq + 1 \in 1..MaxSeq
  <2>1. q \in Seq(1..MaxSeq)
    <3>1. \A k \in 1..MaxSeq : <<k>> \in Seq(1..MaxSeq)
      OBVIOUS
    <3>2. <<>> \in Seq(1..MaxSeq)
      OBVIOUS
    <3> QED
      BY <1>4, <1>7, <3>1, <3>2, Zenon
  <2>2. \A i \in 1..o : Incr(old[i]) \in Names
    BY <1>6, <1>7, NameFacts DEF n
  <2> QED
    BY <1>1, <1>2, <1>6, <2>1, <2>2, ManifestFields, NameFacts, AofAssumption, SMTT(30) DEF h, o
<1>9. /\ m \in Manifest /\ m.base = am.bseq + 1 /\ m.bseq = am.bseq + 1 /\ m.hist = h /\ m.incr = q
      /\ m.iseq = l.iseq
  BY <1>1, <1>2, <1>3, <1>6, <1>8 DEF Manifest
<1>10. /\ Len(q) \in {0, 1} /\ Len(q) = (IF state = "OFF" THEN 0 ELSE 1)
       /\ state # "OFF" => q[1] = Last(l.incr)
  BY <1>7
<1>11. \A i \in 1..n : l.incr[i] <= l.iseq
  BY <1>2 DEF Ordered, n
<1>12. Ordered(m)
  <2>1. \A i \in 1..Len(q) : i = 1 /\ q[i] <= l.iseq
    <3>1. state # "OFF" => Last(l.incr) <= l.iseq
      BY <1>6, <1>7, <1>11 DEF n
    <3> QED
      BY <1>10, <3>1
  <2> QED
    BY <1>9, <2>1 DEF Ordered
<1>13. ASSUME NEW f \in h PROVE f \in Old(m)
  <2>1. \A i \in 1..Len(q) : i = 1 /\ q[i] = Last(l.incr) /\ q[i] = l.incr[n] /\ n \in 1..n
    BY <1>6, <1>7, <1>10 DEF n
  <2> DEFINE R == {k \in 1..l.iseq : \A j \in 1..Len(q) : q[j] # k}
  <2>2. Old(m) = {Base(i) : i \in 1..am.bseq} \cup {Incr(i) : i \in R}
    <3>1. m.base - 1 = am.bseq
      BY <1>1, <1>9
    <3> QED
      BY <3>1, <1>9, Zenon DEF Old
  <2>3. CASE f \in am.hist
    <3>1. f \in Old(l)
      BY <1>1, <1>2, <2>3
    <3>2. CASE \E i \in 1..(l.base - 1) : f = Base(i)
      BY <1>1, <1>2, <2>2, <3>2
    <3>3. CASE \E k \in 1..l.iseq : f = Incr(k) /\ \A j \in 1..n : l.incr[j] # k
      <4>1. PICK k \in 1..l.iseq : f = Incr(k) /\ \A j \in 1..n : l.incr[j] # k
        BY <3>3
      <4>2. k \in R
        BY <2>1, <4>1
      <4> QED
        BY <2>2, <4>1, <4>2
    <3> QED
      BY <3>1, <3>2, <3>3 DEF Old, n
  <2>4. CASE f = Base(am.base)
    BY <1>1, <2>2, <2>4
  <2>5. CASE \E i \in 1..o : f = Incr(old[i])
    <3>1. PICK i \in 1..o : f = Incr(old[i])
      BY <2>5
    <3>2. i \in 1..n /\ old[i] = l.incr[i] /\ l.incr[i] \in 1..l.iseq
      BY <1>6, <1>7, <1>11 DEF n
    <3>3. ASSUME NEW j \in 1..Len(q) PROVE q[j] # l.incr[i]
      <4>1. state # "OFF" /\ o = n - 1 /\ n \in Nat /\ i < n
        BY <1>6, <1>7, <1>10 DEF n
      <4>2. l.incr[i] < l.incr[n]
        BY <1>2, <2>1, <3>2, <4>1 DEF Ordered, n
      <4> QED
        BY <2>1, <3>2, <4>2
    <3>4. l.incr[i] \in R
      BY <3>2, <3>3
    <3> QED
      BY <2>2, <3>1, <3>2, <3>4
  <2> QED
    BY <2>3, <2>4, <2>5 DEF h, o
<1>14. IF state = "OFF" THEN m.incr = <<>>
       ELSE \E k \in 1..MaxSeq : fd = Incr(k) /\ m.incr = <<k>> /\ (state = "ON" => k = Last(am.incr))
  BY <1>2, <1>4, <1>7, <1>9
<1> QED
  BY <1>9, <1>12, <1>13, <1>14 DEF m

(* The snapshot and the file in use replace all others. *)
LEMMA KeepsListBase ==
    ASSUME AInv, ListBase
    PROVE  AInv'
<1> DEFINE m == WithBase(am)
<1>1. /\ pc = "listBase" /\ pc' = "collect" /\ am' = m /\ dm' = m
      /\ UNCHANGED <<policy, db, last, promised, buffer, thread, files, child, starting, state, fd,
                     fsynced, doubled>>
  BY DEF ListBase, data
<1>2. /\ m \in Manifest /\ Ordered(m) /\ m.hist \subseteq Old(m) /\ m.base = am.bseq + 1
      /\ IF state = "OFF" THEN m.incr = <<>>
         ELSE \E k \in 1..MaxSeq : fd = Incr(k) /\ m.incr = <<k>> /\ (state = "ON" => k = Last(am.incr))
  BY <1>1, WithBaseFacts
<1> HIDE DEF m
<1>3. child.on /\ files[Base(m.base)].here /\ files[Base(m.base)].ops = child.snap
  BY <1>1, <1>2 DEF AInv, Control, Present, Done
<1>4. ASSUME NEW k \in 1..MaxSeq, m.incr = <<k>>
      PROVE  m.incr # <<>> /\ Last(m.incr) = k /\ Len(m.incr) = 1 /\ m.incr[1] = k
  <2>1. <<k>> # <<>> /\ Last(<<k>>) = k /\ Len(<<k>>) = 1 /\ <<k>>[1] = k
    BY DEF Last
  <2> QED
    BY <1>4, <2>1, Zenon
<1>5. Types'
  BY <1>1, <1>2 DEF AInv, Types, PC, buffer, thread
<1>6. Offsets'
  BY <1>1 DEF AInv, Offsets, buffer, thread
<1>7. Control' /\ Room'
  BY <1>1, <1>3 DEF AInv, Control, Room, Opening, Done, buffer
<1>8. Descriptor'
  BY <1>1, <1>2, <1>3, <1>4 DEF AInv, Descriptor, Control, Opening, Types
<1>9. Manifests'
  BY <1>1, <1>2 DEF Manifests, NewListed
<1>10. Present'
  <2>1. state = "OFF" => Len(m.incr) = 0
    BY <1>2, EmptyOps
  <2>2. state # "OFF" => \E k \in 1..MaxSeq : fd = Incr(k) /\ Len(m.incr) = 1 /\ m.incr[1] = k
    BY <1>2, <1>4
  <2>3. state # "OFF" => files[fd].here
    <3>1. CASE state = "WAIT"
      BY <1>1, <1>3, <3>1 DEF AInv, Present
    <3>2. CASE state = "ON"
      BY <1>1, <3>2, LastListed, Basics DEF AInv, Present, Descriptor
    <3> QED
      BY <3>1, <3>2 DEF AInv, Types
  <2>4. \A i \in 1..Len(m.incr) : files[Incr(m.incr[i])].here
    BY <2>1, <2>2, <2>3
  <2> QED
    BY <1>1, <1>3, <2>4 DEF Present
<1>11. Contents'
  <2>1. CASE state = "OFF"
    <3>1. Loaded(files, m) = child.snap
      BY <1>2, <1>3, <2>1, Basics, LoadedBase
    <3> QED
      BY <1>1, <1>3, <2>1, <3>1 DEF AInv, Contents, Full, Opening, buffer
  <2>2. CASE state # "OFF"
    <3>1. PICK k \in 1..MaxSeq : fd = Incr(k) /\ m.incr = <<k>>
      BY <1>2, <2>2
    <3>2. Loaded(files, m) = Cat(files[Base(m.base)].ops, files[Incr(k)].ops)
      BY <1>2, <3>1, Basics, OneIncr
    <3>3. Loaded(files, m) = Cat(child.snap, files[fd].ops)
      BY <1>3, <3>1, <3>2, Zenon
    <3>4. state \in {"ON", "WAIT"}
      BY <2>2 DEF AInv, Types
    <3> QED
      BY <1>1, <1>3, <2>2, <3>3, <3>4 DEF AInv, Contents, Full, Opening, buffer
  <2> QED
    BY <2>1, <2>2
<1> QED
  BY <1>5, <1>6, <1>7, <1>8, <1>9, <1>10, <1>11 DEF AInv

-----------------------------------------------------------------------------
(* Failures, crashes and starts *)

(* No listed file is removed with the rewrite that failed. *)
LEMMA KeepsDoneFails ==
    ASSUME AInv, DoneFails, SoundFaults
    PROVE  AInv'
<1> DEFINE base == IF pc \in {"renameIncr", "listBase"} THEN {Base(am.bseq + 1)} ELSE {}
           incr == IF pc = "listBase" /\ state = "WAIT" THEN {Incr(am.iseq + 1)} ELSE {}
           temp == IF state = "WAIT" THEN {Temp} ELSE {}
           gone == base \cup incr \cup temp
           g == [i \in 1..Len(jobs) |-> IF jobs[i].file \in gone THEN Gone ELSE jobs[i].file]
<1>1. /\ child.on /\ pc \in {"loop", "renameBase", "renameIncr", "listBase"} /\ dm' = dm
      /\ child' = NoChild /\ pc' = "loop" /\ buf' = IF state = "WAIT" THEN <<>> ELSE buf
      /\ files' = [f \in Names |-> IF f \in gone THEN NoFile ELSE files[f]]
      /\ fd' = IF fd \in gone THEN Gone ELSE fd
      /\ UNCHANGED <<policy, db, last, promised, size, syncoff, pending, starting, am, state,
                     fsynced, doubled>>
  BY DEF DoneFails, NotListed, Fault, SoundFaults, data
<1>2. /\ ~NewListed /\ files \in Files /\ jobs \in Seq(Job) /\ fd \in Open /\ ~starting
      /\ state \in {"OFF", "WAIT", "ON"} /\ ~child'.on /\ child' \in [on : BOOLEAN, snap : Ops]
  BY <1>1, Basics, EmptyOps DEF NewListed, AInv, Types, Control, NoChild, Opening
<1>3. Base(am.base) \notin gone /\ \A i \in 1..Len(am.incr) : Incr(am.incr[i]) \notin gone
  <2>1. \A i \in 1..Len(am.incr) : am.incr[i] # am.iseq + 1
    BY Basics
  <2>2. am.base # am.bseq + 1
    BY Basics
  <2> QED
    BY <2>1, <2>2, NameFacts
<1>4. IF state = "WAIT" THEN fd \in gone ELSE fd \notin gone
  <2>1. CASE state = "WAIT"
    BY <1>1, <2>1 DEF AInv, Descriptor
  <2>2. CASE state # "WAIT"
    BY <1>2, <2>2, NameFacts DEF AInv, Descriptor
  <2> QED
    BY <2>1, <2>2
<1>5. /\ jobs' \in Seq(Job) /\ Len(jobs') = Len(jobs) /\ Len(jobs) \in Nat
      /\ \A i \in 1..Len(jobs) : jobs'[i].off = jobs[i].off /\ jobs'[i].file = g[i]
  <2>1. \A q \in Seq(Job) : \A i \in 1..Len(q) : q[i] \in Job
    OBVIOUS
  <2>2. ASSUME NEW i \in 1..Len(jobs) PROVE jobs[i].file \in Open /\ jobs[i] \in Job
    BY <1>2, <2>1 DEF Job
  <2>3. g \in [1..Len(jobs) -> Open]
    BY <2>2 DEF Open
  <2>4. jobs' = Redirect(jobs, g)
    <3>1. jobs' = [i \in 1..Len(jobs) |->
                     IF jobs[i].file \in gone THEN [jobs[i] EXCEPT !.file = Gone] ELSE jobs[i]]
      BY Zenon DEF DoneFails
    <3>2. ASSUME NEW i \in 1..Len(jobs)
          PROVE  (IF jobs[i].file \in gone THEN [jobs[i] EXCEPT !.file = Gone] ELSE jobs[i])
                    = [jobs[i] EXCEPT !.file = g[i]]
      <4> HIDE DEF gone
      <4>1. \A j \in Job : [j EXCEPT !.file = j.file] = j
        BY DEF Job
      <4> QED
        BY <2>2, <4>1
    <3> HIDE DEF gone, g
    <3> QED
      BY <3>1, <3>2 DEF Redirect
  <2> HIDE DEF g
  <2> QED
    BY <1>2, <2>3, <2>4, RedirectFacts
<1> HIDE DEF gone, g
<1>6. /\ files' \in Files /\ \A f \in Names : f \notin gone => files'[f] = files[f]
      /\ \A f \in Names : f \in gone => files'[f] = NoFile
  <2>1. NoFile \in FileRec
    BY EmptyOps DEF NoFile, FileRec
  <2> QED
    BY <1>1, <1>2, <2>1 DEF Files
<1>7. Types'
  BY <1>1, <1>2, <1>5, <1>6, EmptyOps DEF AInv, Types, PC, Files, Open
<1>8. Offsets'
  <2>1. NoFile.synced <= Len(NoFile.ops)
    BY EmptyOps DEF NoFile
  <2> QED
    BY <1>1, <1>5, <1>6, <2>1, NameFacts DEF AInv, Offsets
<1>9. Control' /\ Room' /\ Descriptor'
  BY <1>1, <1>2, <1>4 DEF AInv, Control, Room, Descriptor, Opening, Done
<1>10. Manifests'
  BY <1>1, <1>2 DEF AInv, Manifests, NewListed
<1>11. Present'
  <2>1. files'[Base(am.base)] = files[Base(am.base)]
    BY <1>3, <1>6, Basics
  <2>2. \A i \in 1..Len(am.incr) : files'[Incr(am.incr[i])] = files[Incr(am.incr[i])]
    BY <1>3, <1>6, Basics
  <2>3. state = "WAIT" => fd' # Temp
    BY <1>1, <1>4, NameFacts
  <2> QED
    BY <1>1, <1>2, <2>1, <2>2, <2>3 DEF AInv, Present
<1>12. Contents'
  <2>1. Loaded(files', dm) = Loaded(files, dm)
    <3>1. files'[Base(am.base)].ops = files[Base(am.base)].ops
      BY <1>3, <1>6, Basics
    <3>2. \A i \in 1..Len(am.incr) : files'[Incr(am.incr[i])].ops = files[Incr(am.incr[i])].ops
      BY <1>3, <1>6, Basics
    <3>3. Loaded(files', am) = Loaded(files, am)
      BY <1>6, <3>1, <3>2, Basics, LoadedSame
    <3> QED
      BY <1>2, <1>6, <3>3, SameListed
  <2> QED
    BY <1>1, <1>2, <2>1 DEF AInv, Contents, Full, Opening
<1> QED
  BY <1>7, <1>8, <1>9, <1>10, <1>11, <1>12 DEF AInv

-----------------------------------------------------------------------------
(* The manifest on disk is in order too. *)
LEMMA OnDisk ==
    ASSUME AInv
    PROVE  dm \in Manifest /\ Ordered(dm) /\ dm.hist \subseteq Old(dm)
<1>1. /\ am \in Manifest /\ dm \in Manifest /\ Ordered(am) /\ dm.hist \subseteq Old(am)
      /\ dm.base = am.base /\ dm.bseq = am.bseq
  BY DEF AInv, Types, Manifests
<1>2. CASE ~NewListed
  <2>1. dm.incr = am.incr /\ dm.iseq = am.iseq
    BY <1>2 DEF AInv, Manifests
  <2>2. Ordered(dm) /\ Old(dm) = Old(am)
    BY <1>1, <2>1, Zenon DEF Ordered, Old
  <2> QED
    BY <1>1, <2>2
<1>3. CASE NewListed
  <2> DEFINE w == WithIncr(am)
  <2>1. am.iseq < MaxSeq
    BY <1>3 DEF AInv, Room, NewListed
  <2>2. /\ Ordered(w) /\ Old(w) = Old(am) /\ w.base = am.base /\ w.bseq = am.bseq
        /\ w.iseq = am.iseq + 1 /\ w.incr = Append(am.incr, am.iseq + 1)
    BY <1>1, <2>1, WithIncrFacts, Zenon
  <2>3. dm.incr = w.incr /\ dm.iseq = w.iseq /\ dm.base = w.base /\ dm.bseq = w.bseq
    BY <1>1, <1>3, <2>2, Zenon DEF AInv, Manifests
  <2> HIDE DEF w
  <2>4. Ordered(dm) /\ Old(dm) = Old(w)
    BY <2>2, <2>3, Zenon DEF Ordered, Old
  <2> QED
    BY <1>1, <2>2, <2>4
<1> QED
  BY <1>2, <1>3

(* A server that has started again satisfies the invariant. *)
LEMMA KeepsStartup ==
    ASSUME AInv, NEW fs \in Files, NEW torn, Startup(fs, torn),
           \A f \in Names : fs[f].synced <= Len(fs[f].ops),
           dm.incr = <<>> => dm.iseq < MaxSeq, UNCHANGED <<policy, last, doubled>>
    PROVE  AInv'
<1> DEFINE m == IF dm.incr = <<>> THEN WithIncr(dm) ELSE dm
           f == Incr(Last(m.incr))
           live == IF dm.incr = <<>> THEN [fs EXCEPT ![f] = File(<<>>, 0)] ELSE fs
<1>1. /\ buf' = <<>> /\ child' = NoChild /\ starting' = FALSE /\ jobs' = <<>>
      /\ state' = "ON" /\ pending' = 0 /\ fsynced' = 0
      /\ db' = Loaded(fs, dm) /\ promised' = 0 /\ files' = live
      /\ dm' = m /\ am' = m /\ fd' = f /\ size' = Len(live[f].ops) /\ syncoff' = size'
      /\ pc' = IF Loadable(fs, dm, torn) THEN "collect" ELSE "refused"
  BY Zenon DEF Startup
<1>2. dm \in Manifest /\ Ordered(dm) /\ dm.hist \subseteq Old(dm)
  BY OnDisk
<1>3. /\ m \in Manifest /\ Ordered(m) /\ m.hist \subseteq Old(m) /\ m.base = dm.base /\ m.incr # <<>>
      /\ dm.incr = <<>> => /\ Len(m.incr) = Len(dm.incr) + 1 /\ Len(dm.incr) = 0
                           /\ \A i \in 1..Len(dm.incr) : m.incr[i] = dm.incr[i]
  <2>1. CASE dm.incr = <<>>
    <3> DEFINE w == WithIncr(dm)
    <3>1. /\ w \in Manifest /\ Ordered(w) /\ w.hist = dm.hist /\ Old(w) = Old(dm)
          /\ w.base = dm.base /\ w.incr # <<>> /\ Len(w.incr) = Len(dm.incr) + 1
          /\ \A i \in 1..Len(dm.incr) : w.incr[i] = dm.incr[i]
      BY <1>2, <2>1, WithIncrFacts, Zenon
    <3>2. m = w /\ Len(dm.incr) = 0
      BY <2>1, EmptyOps
    <3> HIDE DEF w, m
    <3> QED
      BY <1>2, <3>1, <3>2
  <2>2. CASE dm.incr # <<>>
    BY <1>2, <2>2
  <2> QED
    BY <2>1, <2>2
<1>4. m = dm \/ dm.incr = <<>>
  OBVIOUS
<1> HIDE DEF m
<1>5. Last(m.incr) \in 1..MaxSeq /\ f \in Names /\ Len(m.incr) \in 1..Len(m.incr)
      /\ Last(m.incr) = m.incr[Len(m.incr)]
  BY <1>3, LastListed
<1> HIDE DEF f
<1>6. /\ live \in Files /\ \A g \in Names : g # f => live[g] = fs[g]
      /\ dm.incr = <<>> => live[f] = File(<<>>, 0)
      /\ dm.incr # <<>> => live = fs
  <2>1. File(<<>>, 0) \in FileRec
    BY EmptyOps DEF File, FileRec
  <2> QED
    BY <1>5, <2>1 DEF Files
<1> HIDE DEF live
<1>7. db' \in Ops /\ Len(db') \in Nat /\ Len(live[f].ops) \in Nat
  BY <1>1, <1>2, <1>5, <1>6, LoadedType, FileFields, OpsLen
<1>8. Types'
  <2>1. <<>> \in Seq(Job) /\ child' \in [on : BOOLEAN, snap : Ops]
    BY <1>1, EmptyOps DEF NoChild
  <2>2. jobs' \in Seq(Job) /\ buf' \in Ops /\ size' \in Nat /\ syncoff' \in Nat
    BY <1>1, <1>7, <2>1, EmptyOps, Zenon
  <2>3. /\ promised' \in 0..Len(db') /\ pending' \in 0..Len(db') /\ fsynced' \in -1..Len(db')
        /\ files' \in Files /\ dm' \in Manifest /\ am' \in Manifest /\ fd' \in Open
    BY <1>1, <1>3, <1>5, <1>6, <1>7 DEF Open
  <2>4. /\ state' \in {"OFF", "WAIT", "ON"} /\ pc' \in PC /\ starting' \in BOOLEAN
        /\ policy' = policy /\ last' = last /\ doubled' = doubled
    BY <1>1 DEF PC
  <2> QED
    BY <1>7, <2>1, <2>2, <2>3, <2>4 DEF AInv, Types, Files
<1>9. Offsets'
  <2>1. \A g \in Names : live[g].synced <= Len(live[g].ops)
    <3>1. File(<<>>, 0).synced <= Len(File(<<>>, 0).ops)
      BY EmptyOps DEF File
    <3> QED
      BY <1>6, <3>1
  <2> QED
    BY <1>1, <1>7, <2>1, EmptyOps DEF Offsets
<1>10. Control' /\ Room'
  BY <1>1 DEF Control, Room, Opening, Done, NoChild
<1>11. Descriptor' /\ Manifests'
  BY <1>1, <1>3 DEF Descriptor, Manifests, NewListed, f
<1>12. Present'
  <2>1. ASSUME Loadable(fs, dm, torn)
        PROVE  live[Base(m.base)].here /\ \A i \in 1..Len(m.incr) : live[Incr(m.incr[i])].here
    <3>1. /\ Len(Listed(dm)) = Len(dm.incr) + 1 /\ Len(dm.incr) \in Nat
          /\ Listed(dm)[1] = Base(dm.base)
          /\ \A i \in 1..Len(dm.incr) : Listed(dm)[i + 1] = Incr(dm.incr[i])
      BY <1>2, ListedFacts, ManifestFields
    <3>2. \A i \in 1..(Len(dm.incr) + 1) : fs[Listed(dm)[i]].here
      BY <2>1, <3>1 DEF Loadable
    <3>3. fs[Base(dm.base)].here
      BY <3>1, <3>2
    <3>4. ASSUME NEW i \in 1..Len(dm.incr) PROVE fs[Incr(dm.incr[i])].here
      <4>1. i + 1 \in 1..(Len(dm.incr) + 1)
        BY <3>1
      <4> QED
        BY <3>1, <3>2, <4>1
    <3>5. Base(m.base) # f /\ Base(m.base) \in Names
      BY <1>3, ManifestFields, NameFacts DEF f
    <3>6. CASE dm.incr # <<>>
      BY <1>3, <1>4, <1>6, <3>3, <3>4, <3>6
    <3>7. CASE dm.incr = <<>>
      <4>1. ASSUME NEW i \in 1..Len(m.incr) PROVE live[Incr(m.incr[i])].here
        <5>1. i = Len(m.incr)
          <6>1. Len(m.incr) = 1
            BY <1>3, <3>7
          <6> QED
            BY <6>1
        <5> QED
          BY <1>5, <1>6, <3>7, <5>1 DEF File, f
      <4> QED
        BY <1>3, <1>6, <3>3, <3>5, <4>1
    <3> QED
      BY <3>6, <3>7
  <2> QED
    BY <1>1, <2>1 DEF Present, NoChild
<1>13. Contents'
  <2>1. Loaded(live, m) = Loaded(fs, dm)
    <3>1. CASE dm.incr # <<>>
      BY <1>4, <1>6, <3>1
    <3>2. CASE dm.incr = <<>>
      <4>1. Loaded(live, m) = Cat(Loaded(live, dm), live[Incr(m.incr[Len(m.incr)])].ops)
        BY <1>2, <1>3, <1>6, <3>2, LoadedAppend
      <4>2. live[Incr(m.incr[Len(m.incr)])].ops = <<>>
        BY <1>5, <1>6, <3>2 DEF File, f
      <4>3. Loaded(live, dm) = fs[Base(dm.base)].ops /\ Loaded(fs, dm) = fs[Base(dm.base)].ops
        <5>1. live[Base(dm.base)] = fs[Base(dm.base)]
          BY <1>2, <1>6, ManifestFields, NameFacts DEF f
        <5> QED
          BY <1>2, <1>6, <3>2, <5>1, LoadedBase
      <4>4. Loaded(live, dm) \in Ops
        BY <1>2, <1>6, LoadedType
      <4> QED
        BY <4>1, <4>2, <4>3, <4>4, OpsEmpty, Zenon
    <3> QED
      BY <3>1, <3>2
  <2>2. Cat(Loaded(fs, dm), <<>>) = Loaded(fs, dm)
    BY <1>1, <1>7, OpsEmpty
  <2>3. Cat(Loaded(files', dm'), buf') = db'
    BY <1>1, <2>1, <2>2, Zenon
  <2> QED
    BY <1>1, <2>3 DEF Contents, Full, Opening, NoChild
<1> QED
  BY <1>8, <1>9, <1>10, <1>11, <1>12, <1>13 DEF AInv

(* A killed server starts on what it has written, *)
LEMMA KeepsCrash ==
    ASSUME AInv, Crash
    PROVE  AInv'
<1> DEFINE gs == [f \in Names |-> SyncFile(files[f])]
           fs == IF WritesBack THEN gs ELSE files
<1>1. /\ Startup(fs, {}) /\ (dm.incr = <<>> => dm.iseq < MaxSeq) /\ UNCHANGED <<policy, last, doubled>>
  BY Zenon DEF Crash
<1>2. files \in Files /\ \A f \in Names : files[f].synced <= Len(files[f].ops)
  BY Basics DEF AInv, Offsets
<1>3. ASSUME NEW f \in Names
      PROVE  SyncFile(files[f]) \in FileRec /\ SyncFile(files[f]).synced <= Len(SyncFile(files[f]).ops)
  <2> DEFINE r == files[f]
             n == Len(r.ops)
  <2>1. r \in FileRec /\ n \in Nat
    BY <1>2, FileFields, OpsLen
  <2>2. SyncFile(r) = [r EXCEPT !.synced = n]
    BY Zenon DEF SyncFile
  <2> HIDE DEF n, r
  <2>3. /\ [r EXCEPT !.synced = n] \in FileRec /\ [r EXCEPT !.synced = n].synced = n
        /\ [r EXCEPT !.synced = n].ops = r.ops
    BY <2>1 DEF FileRec
  <2> QED
    BY <2>1, <2>2, <2>3 DEF r, n
<1>4. gs \in Files /\ \A f \in Names : gs[f].synced <= Len(gs[f].ops)
  BY <1>3 DEF Files
<1>5. fs \in Files /\ \A f \in Names : fs[f].synced <= Len(fs[f].ops)
  BY <1>2, <1>4
<1> HIDE DEF fs
<1> QED
  BY <1>1, <1>5, KeepsStartup

(* Files cut short by a loss of power are files. *)
LEMMA CutFacts ==
    ASSUME NEW fs \in Files, NEW c \in Cuts(fs)
    PROVE  Cut(fs, c) \in Files /\ \A f \in Names : fs[f].synced <= Len(fs[f].ops)
              => Cut(fs, c)[f].synced <= Len(Cut(fs, c)[f].ops)
<1>1. DOMAIN c = Unsynced(fs) /\ \A f \in Unsynced(fs) : c[f] \in fs[f].synced..Len(fs[f].ops)
  BY DEF Cuts
<1>2. ASSUME NEW f \in Unsynced(fs)
      PROVE  /\ File(SubSeq(fs[f].ops, 1, c[f]), c[f]) \in FileRec
             /\ File(SubSeq(fs[f].ops, 1, c[f]), c[f]).synced = c[f]
             /\ File(SubSeq(fs[f].ops, 1, c[f]), c[f]).ops = SubSeq(fs[f].ops, 1, c[f])
             /\ Len(SubSeq(fs[f].ops, 1, c[f])) = c[f] /\ c[f] \in Nat
  <2>1. ASSUME NEW s \in Ops, NEW n \in 0..Len(s)
        PROVE  SubSeq(s, 1, n) \in Ops /\ Len(SubSeq(s, 1, n)) = n
    <3>1. s \in Seq(1..MaxWrite) /\ Len(s) \in Nat
      BY DEF Ops
    <3>2. SubSeq(s, 1, n) \in Seq(1..MaxWrite)
      BY <3>1, AofAssumption
    <3>3. Len(SubSeq(s, 1, n)) = n
      BY <3>1
    <3> QED
      BY <3>2, <3>3 DEF Ops
  <2> DEFINE s == fs[f].ops
             n == c[f]
  <2>2. s \in Ops /\ n \in 0..Len(s) /\ n \in Nat
    <3>1. f \in Names
      BY DEF Unsynced
    <3>2. s \in Ops /\ Len(s) \in Nat /\ fs[f].synced \in Nat
      BY <3>1, FileFields, OpsLen
    <3> QED
      BY <1>1, <3>2
  <2> HIDE DEF s, n
  <2>3. SubSeq(s, 1, n) \in Ops /\ Len(SubSeq(s, 1, n)) = n
    BY <2>1, <2>2
  <2> DEFINE x == SubSeq(s, 1, n)
  <2> HIDE DEF x
  <2>4. File(x, n) \in FileRec /\ File(x, n).synced = n /\ File(x, n).ops = x
    BY <2>2, <2>3 DEF File, FileRec, x
  <2> QED
    BY <2>2, <2>3, <2>4, Zenon DEF x, s, n
<1>3. ASSUME NEW f \in Names
      PROVE  /\ Cut(fs, c)[f] = IF f \in Unsynced(fs) THEN File(SubSeq(fs[f].ops, 1, c[f]), c[f])
                                ELSE fs[f]
             /\ Cut(fs, c)[f] \in FileRec
             /\ fs[f].synced <= Len(fs[f].ops) => Cut(fs, c)[f].synced <= Len(Cut(fs, c)[f].ops)
  <2>1. Cut(fs, c)[f] = IF f \in Unsynced(fs) THEN File(SubSeq(fs[f].ops, 1, c[f]), c[f]) ELSE fs[f]
    BY <1>1, Zenon DEF Cut
  <2>2. CASE f \in Unsynced(fs)
    <3> DEFINE r == File(SubSeq(fs[f].ops, 1, c[f]), c[f])
    <3>1. r \in FileRec /\ r.synced = c[f] /\ Len(r.ops) = c[f] /\ c[f] \in Nat
      BY <1>2, <2>2, Zenon
    <3>2. Cut(fs, c)[f] = r
      BY <2>1, <2>2
    <3> HIDE DEF r
    <3>3. r.synced <= Len(r.ops)
      BY <3>1
    <3> QED
      BY <2>1, <3>1, <3>2, <3>3, Zenon
  <2>3. CASE f \notin Unsynced(fs)
    <3>1. Cut(fs, c)[f] = fs[f]
      BY <2>1, <2>3
    <3> QED
      BY <2>1, <3>1, FileFields, Zenon
  <2> QED
    BY <2>2, <2>3
<1>4. Cut(fs, c) \in Files
  <2>1. \A f \in Names : (IF f \in DOMAIN c THEN File(SubSeq(fs[f].ops, 1, c[f]), c[f]) ELSE fs[f]) \in FileRec
    BY <1>1, <1>3, Zenon
  <2> QED
    BY <2>1, Zenon DEF Cut, Files
<1> QED
  BY <1>3, <1>4

(* and after a loss of power on what is left of it. *)
LEMMA KeepsPowerLoss ==
    ASSUME AInv, PowerLoss
    PROVE  AInv'
<1>1. PICK c \in Cuts(files) : \E torn \in SUBSET Short(files, c) : Startup(Cut(files, c), torn)
  BY DEF PowerLoss
<1>t. PICK torn : Startup(Cut(files, c), torn)
  BY <1>1
<1>2. (dm.incr = <<>> => dm.iseq < MaxSeq) /\ UNCHANGED <<policy, last, doubled>>
  BY DEF PowerLoss
<1>3. Cut(files, c) \in Files /\ \A f \in Names : Cut(files, c)[f].synced <= Len(Cut(files, c)[f].ops)
  BY Basics, CutFacts DEF AInv, Offsets
<1> DEFINE fs == Cut(files, c)
<1> HIDE DEF fs
<1> QED
  BY <1>t, <1>2, <1>3, KeepsStartup DEF fs

-----------------------------------------------------------------------------
(* The theorems *)

(* The child has exited. *)
LEMMA KeepsChildDone ==
    ASSUME AInv, ChildDone
    PROVE  AInv'
<1> USE DEF ChildDone, data, buffer, thread, disk
<1>1. Types' /\ Offsets' /\ Control' /\ Room'
  BY DEF AInv, Types, PC, Offsets, Control, Room, Opening, Done
<1>2. Descriptor' /\ Manifests' /\ Present'
  BY DEF AInv, Descriptor, Manifests, NewListed, Present, NewIncr
<1>3. Contents'
  BY DEF AInv, Contents, Full, Opening
<1> QED
  BY <1>1, <1>2, <1>3 DEF AInv

(* The invariant holds in a server started in an empty directory. *)
LEMMA InitAInv == Init => AInv
<1> SUFFICES ASSUME Init PROVE AInv
  OBVIOUS
<1>1. /\ dm.base = 1 /\ dm.incr = <<1>> /\ dm.hist = {} /\ dm.bseq = 1 /\ dm.iseq = 1 /\ am = dm
      /\ Len(dm.incr) = 1 /\ dm.incr[1] = 1 /\ Last(dm.incr) = 1 /\ dm.incr # <<>>
      /\ dm \in Manifest
  <2>1. Len(<<1>>) = 1 /\ <<1>>[1] = 1 /\ Last(<<1>>) = 1 /\ <<1>> # <<>>
    BY DEF Last
  <2>2. 1 \in 1..MaxSeq /\ <<1>> \in Seq(1..MaxSeq)
    BY AofAssumption
  <2>3. dm = [base |-> 1, incr |-> <<1>>, hist |-> {}, bseq |-> 1, iseq |-> 1] /\ am = dm
    BY DEF Init
  <2> DEFINE q == <<1>>
  <2> HIDE DEF q
  <2>4. dm = [base |-> 1, incr |-> q, hist |-> {}, bseq |-> 1, iseq |-> 1]
    BY <2>3 DEF q
  <2>5. /\ dm.base = 1 /\ dm.incr = q /\ dm.hist = {} /\ dm.bseq = 1 /\ dm.iseq = 1
        /\ dm \in Manifest
    BY <2>2, <2>4 DEF Manifest, q
  <2> QED
    BY <2>1, <2>3, <2>5, Zenon DEF q
<1>2. /\ files \in Files /\ fd \in Names
      /\ \A f \in Names : files[f].ops = <<>> /\ files[f].synced = 0
      /\ \A f \in {Base(1), Incr(1)} : f \in Names /\ files[f].here
  <2>1. Base(1) \in Names /\ Incr(1) \in Names
    BY NameFacts, AofAssumption
  <2>2. File(<<>>, 0) \in FileRec /\ NoFile \in FileRec
    BY EmptyOps DEF File, NoFile, FileRec
  <2> QED
    BY <2>1, <2>2 DEF Init, Files, File, NoFile
<1>3. Types
  <2>1. child \in [on : BOOLEAN, snap : Ops] /\ jobs \in Seq(Job) /\ Len(db) = 0
    BY EmptyOps DEF Init, NoChild
  <2>2. /\ policy \in Policies /\ state \in {"OFF", "WAIT", "ON"} /\ pc \in PC
        /\ starting \in BOOLEAN /\ doubled \in BOOLEAN /\ fd \in Open
    BY <1>2 DEF Init, PC, Open
  <2>3. db \in Ops /\ buf \in Ops
    BY EmptyOps DEF Init
  <2>4. /\ last \in 0..MaxWrite /\ promised \in 0..0 /\ pending \in 0..0 /\ fsynced \in -1..0
        /\ size \in Nat /\ syncoff \in Nat
    BY AofAssumption DEF Init
  <2> QED
    BY <1>1, <1>2, <2>1, <2>2, <2>3, <2>4 DEF Types, Files
<1>4. Offsets
  BY <1>2, EmptyOps DEF Init, Offsets
<1>5. Control /\ Room
  BY DEF Init, Control, Room, Opening, Done, NoChild
<1>6. Descriptor
  BY <1>1 DEF Init, Descriptor
<1>7. Manifests
  BY <1>1 DEF Init, Manifests, Ordered, NewListed
<1>8. Present
  BY <1>1, <1>2 DEF Init, Present, NoChild
<1>9. Contents
  <2>1. Loaded(files, dm) = Cat(files[Base(1)].ops, files[Incr(1)].ops)
    BY <1>1, <1>2, OneIncr
  <2>2. Cat(Cat(<<>>, <<>>), <<>>) = <<>>
    BY EmptyOps, OpsEmpty
  <2>3. files[Base(1)].ops = <<>> /\ files[Incr(1)].ops = <<>> /\ buf = <<>> /\ db = <<>>
    BY <1>2 DEF Init
  <2>4. Cat(Loaded(files, dm), buf) = db
    BY <2>1, <2>2, <2>3, Zenon
  <2> QED
    BY <2>4 DEF Init, Contents, Full, Opening, NoChild
<1> QED
  BY <1>3, <1>4, <1>5, <1>6, <1>7, <1>8, <1>9 DEF AInv

(* Steps of others leave the invariant alone. *)
LEMMA StutterAInv ==
    ASSUME AInv, UNCHANGED vars
    PROVE  AInv'
<1> USE DEF vars, data, buffer, thread, disk, rewrite
<1>1. Types' /\ Offsets' /\ Control' /\ Room'
  BY DEF AInv, Types, Offsets, Control, Room, Opening, Done
<1>2. Descriptor' /\ Manifests' /\ Present'
  BY DEF AInv, Descriptor, Manifests, NewListed, Present, NewIncr
<1>3. Contents'
  BY DEF AInv, Contents, Full, Opening
<1> QED
  BY <1>1, <1>2, <1>3 DEF AInv

(* Aof: the manifests, the files that must be there, the descriptor and    *)
(* the contents fit together in every reachable state, whatever fails, but *)
(* for the sync of the directory and the fork of startAppendOnly.          *)
THEOREM AofInvariant ==
    ASSUME SoundFaults
    PROVE  Spec => []AInv
<1>1. AInv /\ [Next]_vars => AInv'
  <2> SUFFICES ASSUME AInv, [Next]_vars PROVE AInv'
    OBVIOUS
  <2>1. CASE Write \/ BeforeSleep \/ Bio \/ SetPolicy
    BY <2>1, KeepsWrite, KeepsBeforeSleep, KeepsBio, KeepsSetPolicy
  <2>2. CASE Rewrite \/ OpenIncr \/ ListIncr \/ Switch \/ Drain \/ Fork \/ RewriteFails
    BY <2>2, KeepsRewrite, KeepsOpenIncr, KeepsListIncr, KeepsSwitch, KeepsDrain, KeepsFork,
       KeepsRewriteFails
  <2>3. CASE ChildDone \/ RenameBase \/ RenameIncr \/ ListBase \/ DoneFails \/ Collect \/ Collected
    BY <2>3, KeepsChildDone, KeepsRenameBase, KeepsRenameIncr, KeepsListBase, KeepsDoneFails,
       KeepsCollect, KeepsCollected
  <2>4. CASE Stop \/ Start \/ Crash \/ PowerLoss
    BY <2>4, KeepsStop, KeepsStart, KeepsCrash, KeepsPowerLoss
  <2>5. CASE UNCHANGED vars
    BY <2>5, StutterAInv
  <2> QED
    BY <2>1, <2>2, <2>3, <2>4, <2>5 DEF Next
<1> QED
  BY <1>1, InitAInv, PTL DEF Spec

(* TypeOK: types, and the size kept in memory (aof_last_incr_size) is the  *)
(* length of the file the server appends to.                               *)
THEOREM TypeCorrect ==
    ASSUME SoundFaults
    PROVE  Spec => []TypeOK
<1>1. AInv => TypeOK
  <2> SUFFICES ASSUME AInv PROVE TypeOK
    OBVIOUS
  <2>1. \A f \in Names : files[f].synced \in 0..Len(files[f].ops)
    BY Basics, FileFields DEF AInv, Offsets
  <2> QED
    BY <2>1 DEF AInv, Types, Offsets, TypeOK, Ops, PC, Open
<1> QED
  BY <1>1, AofInvariant, PTL

(* The manifest on disk lists what the one in memory does, or one more     *)
(* file, which is empty.                                                   *)
LEMMA ListedOnDisk ==
    ASSUME AInv
    PROVE  /\ Len(dm.incr) \in Nat /\ Len(am.incr) \in Nat
           /\ \A j \in 1..Len(am.incr) : dm.incr[j] = am.incr[j]
           /\ ~NewListed => Len(dm.incr) = Len(am.incr)
           /\ NewListed => Len(dm.incr) = Len(am.incr) + 1 /\ dm.incr[Len(am.incr) + 1] = am.iseq + 1
                           /\ NewIncr = Incr(am.iseq + 1)
<1>1. Len(dm.incr) \in Nat /\ Len(am.incr) \in Nat
  BY Basics, ManifestFields
<1>2. CASE ~NewListed
  BY <1>1, <1>2, SameListed
<1>3. CASE NewListed
  <2>1. /\ am.iseq < MaxSeq /\ am.iseq + 1 \in 1..MaxSeq /\ am.incr \in Seq(1..MaxSeq)
        /\ dm.incr = Append(am.incr, am.iseq + 1) /\ NewIncr = Incr(am.iseq + 1)
    BY <1>3, Basics, ManifestFields, AofAssumption DEF AInv, Room, NewListed, Manifests, NewIncr
  <2> DEFINE q == Append(am.incr, am.iseq + 1)
  <2>2. /\ Len(q) = Len(am.incr) + 1 /\ q[Len(am.incr) + 1] = am.iseq + 1
        /\ \A j \in 1..Len(am.incr) : q[j] = am.incr[j]
    BY <2>1, IncrSeq, Zenon
  <2>3. /\ Len(dm.incr) = Len(am.incr) + 1 /\ dm.incr[Len(am.incr) + 1] = am.iseq + 1
        /\ \A j \in 1..Len(am.incr) : dm.incr[j] = am.incr[j]
    BY <2>1, <2>2, Zenon
  <2> QED
    BY <1>1, <1>3, <2>1, <2>3
<1> QED
  BY <1>2, <1>3

(* All files the manifest on disk lists are there. *)
LEMMA ListedHere ==
    ASSUME AInv, pc # "refused"
    PROVE  files[Base(dm.base)].here /\ \A i \in 1..Len(dm.incr) : files[Incr(dm.incr[i])].here
<1>1. files[Base(dm.base)].here
  BY DEF AInv, Manifests, Present
<1>2. ASSUME NEW i \in 1..Len(dm.incr) PROVE files[Incr(dm.incr[i])].here
  <2>1. CASE i \in 1..Len(am.incr)
    BY <2>1, ListedOnDisk DEF AInv, Present
  <2>2. CASE i \notin 1..Len(am.incr)
    <3>1. NewListed /\ i = Len(am.incr) + 1
      BY <2>2, ListedOnDisk
    <3> QED
      BY <3>1, ListedOnDisk DEF NewListed, AInv, Present
  <2> QED
    BY <2>1, <2>2
<1> QED
  BY <1>1, <1>2

(* All listed files satisfy P when the BASE and the INCR files do. *)
LEMMA ListedAll ==
    ASSUME NEW m \in Manifest, NEW S,
           Base(m.base) \in S, \A i \in 1..Len(m.incr) : Incr(m.incr[i]) \in S
    PROVE  \A i \in 1..Len(Listed(m)) : Listed(m)[i] \in S
<1>1. /\ Len(Listed(m)) = Len(m.incr) + 1 /\ Len(m.incr) \in Nat /\ Listed(m)[1] = Base(m.base)
      /\ \A i \in 1..Len(m.incr) : Listed(m)[i + 1] = Incr(m.incr[i])
  BY ListedFacts, ManifestFields
<1>2. ASSUME NEW i \in 1..(Len(m.incr) + 1) PROVE Listed(m)[i] \in S
  <2>1. CASE i = 1
    BY <1>1, <2>1
  <2>2. CASE i # 1
    <3>1. i - 1 \in 1..Len(m.incr) /\ (i - 1) + 1 = i
      BY <1>1, <2>2
    <3> QED
      BY <1>1, <3>1
  <2> QED
    BY <2>1, <2>2
<1> QED
  BY <1>1, <1>2

(* What is loaded is a prefix of the dataset. *)
LEMMA LoadedPrefix ==
    ASSUME AInv, ~doubled
    PROVE  IsPrefix(Loaded(files, dm), db)
<1>1. CASE ~Full
  BY <1>1 DEF AInv, Contents
<1>2. CASE Full
  <2>1. Cat(Loaded(files, dm), buf) = db
    BY <1>2 DEF AInv, Contents
  <2>2. IsPrefix(Loaded(files, dm), Cat(Loaded(files, dm), buf))
    BY Basics, OpsPrefix
  <2> QED
    BY <2>1, <2>2, Zenon
<1> QED
  BY <1>1, <1>2

(* CrashRecovers: a server killed between any two steps of a flush, of     *)
(* rewriteAppendOnlyFileBackground, of backgroundRewriteDoneHandler or of  *)
(* aofDelHistoryFiles loads what it had.                                   *)
THEOREM CrashSafe ==
    ASSUME SoundFaults
    PROVE  Spec => []CrashRecovers
<1>1. AInv => CrashRecovers
  <2> SUFFICES ASSUME AInv, pc # "refused" PROVE CrashRecovers
    BY DEF CrashRecovers
  <2>1. Loadable(files, dm, {})
    <3> DEFINE S == {f \in Names : files[f].here}
    <3>1. Base(dm.base) \in S /\ \A i \in 1..Len(dm.incr) : Incr(dm.incr[i]) \in S
      BY ListedHere, Basics, ManifestFields, NameFacts
    <3> HIDE DEF S
    <3>2. \A i \in 1..Len(Listed(dm)) : Listed(dm)[i] \in S
      BY <3>1, Basics, ListedAll
    <3> QED
      BY <3>2 DEF Loadable, S
  <2>2. ASSUME ~doubled, state = "ON" PROVE Loaded(files, dm) \o buf = db
    BY <2>2, Zenon DEF AInv, Contents, Full, Cat
  <2>3. ~doubled => IsPrefix(Loaded(files, dm), db)
    BY LoadedPrefix
  <2> QED
    BY <2>1, <2>2, <2>3, Zenon DEF CrashRecovers
<1> QED
  BY <1>1, AofInvariant, PTL
=============================================================================
