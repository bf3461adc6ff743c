--------------------------- MODULE AofDurability ----------------------------
(***************************************************************************)
(* What a loss of power leaves, proved for any numbers of writes, files    *)
(* and faults: no sync is forgotten, and what was answered under           *)
(* appendfsync always is loaded again.                                     *)
(*                                                                         *)
(* Two invariants are added to AInv: Syncing, where the writes that are    *)
(* not synced may be, and Kept, that the promised writes can be read       *)
(* whatever is lost.                                                       *)
(***************************************************************************)
EXTENDS AofProofs

(* A job of the thread is on the file. *)
Queued(q, f) == \E i \in 1..Len(q) : q[i].file = f

(* The thread will sync the file: with "always" nothing is left to it. *)
Waiting(p, q, f) == p = "everysec" /\ Queued(q, f)

(* A file with writes that are not synced waits for the thread, or is the  *)
(* open one and the offsets differ.                                        *)
Syncing ==
    /\ Base(am.base) \notin Unsynced(files)
    /\ \A i \in 1..Len(am.incr) :
          LET f == Incr(am.incr[i]) IN f # fd /\ f \in Unsynced(files) => Waiting(policy, jobs, f)
    /\ fd \in Unsynced(files) /\ syncoff = size => Waiting(policy, jobs, fd)
    /\ pc \in {"renameIncr", "listBase"} => Base(am.bseq + 1) \notin Unsynced(files)
    /\ policy = "always" /\ pc \in {"open", "listIncr", "switch"} => fd \notin Unsynced(files)

-----------------------------------------------------------------------------
(* Steps that leave the listed files, the queue and the offsets alone. *)
LEMMA QuietSyncing ==
    ASSUME Syncing, UNCHANGED <<policy, files, jobs, fd, size, syncoff>>,
           am'.base = am.base, am'.incr = am.incr, am'.bseq = am.bseq,
           pc' \in {"renameIncr", "listBase"} => pc \in {"renameIncr", "listBase"},
           pc' \in {"open", "listIncr", "switch"} => pc \in {"open", "listIncr", "switch"}
    PROVE  Syncing'
  BY DEF Syncing

(* A job more: what was queued is queued, and its file. *)
LEMMA QueuedMore ==
    ASSUME NEW q \in Seq(Job), NEW g \in Open, NEW n \in Nat, NEW k \in Kinds
    PROVE  /\ Queued(Enqueue(q, g, n, k), g)
           /\ \A f : Queued(q, f) => Queued(Enqueue(q, g, n, k), f)
<1> DEFINE r == Enqueue(q, g, n, k)
<1>1. /\ r \in Seq(Job) /\ Len(r) = Len(q) + 1 /\ Len(q) \in Nat
      /\ \A i \in 1..Len(q) : r[i] = q[i]
      /\ r[Len(q) + 1].file = g
  BY EnqueueFacts
<1> HIDE DEF r
<1>2. Queued(r, g)
  BY <1>1 DEF Queued
<1>3. ASSUME NEW f, Queued(q, f) PROVE Queued(r, f)
  BY <1>1, <1>3 DEF Queued
<1> QED
  BY <1>2, <1>3 DEF r

(* An empty file has nothing to sync. *)
LEMMA InitSyncing == Init => Syncing
<1> SUFFICES ASSUME Init PROVE Syncing
  OBVIOUS
<1>1. \A f \in Names : files[f].synced = 0 /\ Len(files[f].ops) = 0
  BY EmptyOps DEF Init, File, NoFile
<1>2. Unsynced(files) = {}
  BY <1>1 DEF Unsynced
<1> QED
  BY <1>2 DEF Syncing

(* The thread takes a file off its queue and syncs it. *)
LEMMA SyncsBio ==
    ASSUME AInv, Syncing, Bio, SyncsSucceed
    PROVE  Syncing'
<1>1. /\ jobs # <<>> /\ jobs' = Tail(jobs) /\ files' = Sync(files, Head(jobs).file)
      /\ UNCHANGED <<policy, buffer, rewrite, am, fd>>
  BY DEF Bio, SyncsSucceed, data
<1>2. /\ Head(jobs) = jobs[1] /\ Len(jobs') = Len(jobs) - 1 /\ Len(jobs) \in Nat
      /\ \A i \in 1..Len(jobs') : jobs'[i] = jobs[i + 1]
  <2>1. \A q \in Seq(Job) : q # <<>> =>
           /\ Head(q) = q[1] /\ Len(Tail(q)) = Len(q) - 1 /\ Len(q) \in Nat
           /\ \A i \in 1..Len(Tail(q)) : Tail(q)[i] = q[i + 1]
    OBVIOUS
  <2>2. jobs \in Seq(Job)
    BY DEF AInv, Types
  <2> QED
    BY <1>1, <2>1, <2>2
<1>3. ASSUME NEW f, Queued(jobs, f), f # Head(jobs).file PROVE Queued(jobs', f)
  <2>1. PICK i \in 1..Len(jobs) : jobs[i].file = f
    BY <1>3 DEF Queued
  <2>2. i # 1
    BY <1>2, <1>3, <2>1
  <2>3. i - 1 \in 1..Len(jobs') /\ jobs'[i - 1] = jobs[i]
    BY <1>2, <2>2
  <2> QED
    BY <2>1, <2>3 DEF Queued
<1>4. \A f : f \in Unsynced(files') => f \in Unsynced(files) /\ f # Head(jobs).file
  <2>1. ASSUME NEW f \in Unsynced(files') PROVE f \in Unsynced(files) /\ f # Head(jobs).file
    <3>1. f \in Names /\ files'[f].here /\ files'[f].synced < Len(files'[f].ops)
      BY DEF Unsynced
    <3>2. /\ files'[f].ops = files[f].ops /\ files'[f].here = files[f].here
          /\ f # Head(jobs).file => files'[f].synced = files[f].synced
          /\ f = Head(jobs).file => files'[f].synced = Len(files[f].ops)
      BY <1>1, <3>1, Basics, SyncFacts
    <3>3. Len(files[f].ops) \in Nat
      BY <3>1, Basics
    <3> QED
      BY <3>1, <3>2, <3>3 DEF Unsynced
  <2> QED
    BY <2>1
<1> QED
  BY <1>1, <1>3, <1>4 DEF Syncing, Waiting, buffer, rewrite

(* A flush syncs, or queues a sync, or leaves the offsets different. *)
LEMMA SyncsTryFsync ==
    ASSUME AInv, NEW x \in Ops, NEW second, TryFsync(x, second)
    PROVE  /\ \A f : Queued(jobs, f) => Queued(jobs', f)
           /\ \A f : f # fd /\ f \in Unsynced(files') => f \in Unsynced(files)
           /\ (fd \in Unsynced(files) /\ syncoff = size => Waiting(policy, jobs, fd))
                 => (fd \in Unsynced(files') /\ syncoff' = size' => Waiting(policy, jobs', fd))
           /\ policy = "always" => fd \notin Unsynced(files')
<1> DEFINE w == Extend(files, fd, x)
           s == Sync(w, fd)
           n == Len(x)
<1>1. /\ size \in Nat /\ syncoff \in Nat /\ syncoff <= size /\ n \in Nat /\ files \in Files
      /\ jobs \in Seq(Job) /\ fd \in Open /\ Len(db) \in Nat /\ policy \in {"always", "everysec"}
      /\ "fsync" \in Kinds
  BY Basics, OpsLen, AofAssumption DEF AInv, Types, Offsets, Kinds
<1>2. /\ w \in Files
      /\ \A f \in Names : /\ w[f].here = files[f].here /\ w[f].synced = files[f].synced
                          /\ f # fd => w[f].ops = files[f].ops
      /\ fd \in Names => w[fd].ops = Cat(files[fd].ops, x)
  BY <1>1, ExtendFacts
<1>3. /\ s \in Files
      /\ \A f \in Names : /\ s[f].ops = w[f].ops /\ s[f].here = w[f].here
                          /\ f # fd => s[f].synced = w[f].synced
      /\ fd \in Names => s[fd].synced = Len(w[fd].ops)
  BY <1>2, SyncFacts
<1>4. /\ size' = size + n
      /\ \/ files' = s
         \/ files' = w /\ policy = "everysec" /\ jobs' = Enqueue(jobs, fd, Len(db), "fsync")
         \/ files' = w /\ policy # "always" /\ syncoff' = syncoff
      /\ jobs' = jobs \/ jobs' = Enqueue(jobs, fd, Len(db), "fsync")
  BY Zenon DEF TryFsync, Enqueue
<1> HIDE DEF w, s, n
<1>5. ASSUME NEW f, Queued(jobs, f) PROVE Queued(jobs', f)
  <2>1. CASE jobs' = jobs
    BY <1>5, <2>1 DEF Queued
  <2>2. CASE jobs' = Enqueue(jobs, fd, Len(db), "fsync")
    BY <1>1, <1>5, <2>2, QueuedMore
  <2> QED
    BY <1>4, <2>1, <2>2
<1>6. ASSUME NEW f, f # fd, f \in Unsynced(files') PROVE f \in Unsynced(files)
  <2>1. f \in Names /\ files'[f].here /\ files'[f].synced < Len(files'[f].ops)
    BY <1>6 DEF Unsynced
  <2>2. files'[f].ops = files[f].ops /\ files'[f].here = files[f].here /\ files'[f].synced = files[f].synced
    BY <1>2, <1>3, <1>4, <1>6, <2>1
  <2> QED
    BY <2>1, <2>2 DEF Unsynced
<1>8. ASSUME files' = s, fd \in Unsynced(files') PROVE FALSE
  <2>1. fd \in Names /\ files'[fd].synced < Len(files'[fd].ops)
    BY <1>8 DEF Unsynced
  <2>2. Len(w[fd].ops) \in Nat
    BY <1>2, <2>1, FileFields, OpsLen
  <2> QED
    BY <1>3, <1>8, <2>1, <2>2
<1>7. ASSUME fd \in Unsynced(files) /\ syncoff = size => Waiting(policy, jobs, fd),
             fd \in Unsynced(files'), syncoff' = size'
      PROVE  Waiting(policy, jobs', fd)
  <2>1. fd \in Names /\ files'[fd].here /\ files'[fd].synced < Len(files'[fd].ops)
    BY <1>7 DEF Unsynced
  <2>2. CASE files' = s
    BY <1>7, <1>8, <2>2
  <2>3. CASE policy = "everysec" /\ jobs' = Enqueue(jobs, fd, Len(db), "fsync")
    BY <1>1, <2>3, QueuedMore DEF Waiting
  <2>4. CASE files' = w /\ syncoff' = syncoff
    <3>1. n = 0 /\ syncoff = size
      BY <1>1, <1>4, <1>7, <2>4
    <3>2. x = <<>>
      BY <3>1, OpsLen DEF n
    <3>3. w[fd].ops = files[fd].ops
      <4>1. files[fd].ops \in Ops
        BY <1>1, <2>1, FileFields
      <4> QED
        BY <1>2, <2>1, <3>2, <4>1, OpsEmpty, Zenon
    <3>4. fd \in Unsynced(files)
      BY <1>2, <2>1, <2>4, <3>3 DEF Unsynced
    <3> QED
      BY <1>5, <1>7, <3>1, <3>4 DEF Waiting
  <2> QED
    BY <1>4, <2>2, <2>3, <2>4
<1>9. policy = "always" => fd \notin Unsynced(files')
  BY <1>4, <1>8
<1> QED
  BY <1>5, <1>6, <1>7, <1>9

(* No flush forgets a sync. *)
LEMMA SyncsFlush ==
    ASSUME AInv, Syncing, NEW force, Flush(force),
           pc = "loop", policy' = policy, am'.base = am.base, am'.incr = am.incr, fd' = fd,
           pc' \notin {"renameIncr", "listBase"}
    PROVE  Syncing'
<1>1. CASE \E x \in Ops, second \in BOOLEAN : TryFsync(x, second)
  <2>1. PICK x \in Ops, second \in BOOLEAN : TryFsync(x, second)
    BY <1>1
  <2>2. /\ \A f : Queued(jobs, f) => Queued(jobs', f)
        /\ \A f : f # fd /\ f \in Unsynced(files') => f \in Unsynced(files)
        /\ (fd \in Unsynced(files) /\ syncoff = size => Waiting(policy, jobs, fd))
              => (fd \in Unsynced(files') /\ syncoff' = size' => Waiting(policy, jobs', fd))
        /\ policy = "always" => fd \notin Unsynced(files')
    BY <2>1, SyncsTryFsync
  <2>3. Base(am.base) # fd
    BY NameFacts, Basics, LastListed DEF AInv, Descriptor, Types
  <2> QED
    BY <2>2, <2>3 DEF Syncing, Waiting
<1>2. CASE UNCHANGED <<files, jobs, size, syncoff>> /\ (policy = "always" => syncoff = size)
  BY <1>2 DEF Syncing, Waiting
<1>3. buf \in Ops /\ <<>> \in Ops
  BY Basics, EmptyOps
<1> QED
  BY <1>1, <1>2, <1>3 DEF Flush, FlushNothing, FlushWrites, FlushPostponed, FlushError, buffer

-----------------------------------------------------------------------------
(* All files are synced, as after a start. *)
LEMMA SyncedAll ==
    ASSUME Unsynced(files') = {}
    PROVE  Syncing'
  BY DEF Syncing

(* After a start on files that are synced, all files are. *)
LEMMA SyncsStartup ==
    ASSUME AInv, NEW fs \in Files, NEW torn, Startup(fs, torn), Unsynced(fs) = {}
    PROVE  Unsynced(files') = {}
<1> DEFINE m == IF dm.incr = <<>> THEN WithIncr(dm) ELSE dm
           f == Incr(Last(m.incr))
<1>1. files' = IF dm.incr = <<>> THEN [fs EXCEPT ![f] = File(<<>>, 0)] ELSE fs
  BY Zenon DEF Startup
<1> HIDE DEF f
<1>2. ASSUME NEW g \in Unsynced(files') PROVE FALSE
  <2>1. g \in Names /\ files'[g].here /\ files'[g].synced < Len(files'[g].ops)
    BY DEF Unsynced
  <2>2. files'[g] = fs[g] \/ files'[g] = File(<<>>, 0)
    BY <1>1, <2>1 DEF Files
  <2>3. ~(File(<<>>, 0).synced < Len(File(<<>>, 0).ops))
    BY EmptyOps DEF File
  <2>4. g \in Unsynced(fs)
    BY <2>1, <2>2, <2>3 DEF Unsynced
  <2> QED
    BY <2>4
<1> QED
  BY <1>2

(* A killed server starts on files the system has written back, *)
LEMMA SyncsCrash ==
    ASSUME AInv, Crash, SyncsSucceed
    PROVE  Syncing'
<1> DEFINE fs == [f \in Names |-> SyncFile(files[f])]
<1>1. Startup(fs, {})
  BY DEF Crash, SyncsSucceed
<1>2. ASSUME NEW f \in Names
      PROVE  /\ SyncFile(files[f]) \in FileRec
             /\ ~(SyncFile(files[f]).synced < Len(SyncFile(files[f]).ops))
  <2> DEFINE r == files[f]
             n == Len(r.ops)
  <2>1. r \in FileRec /\ n \in Nat
    BY Basics, FileFields, OpsLen
  <2>2. SyncFile(r) = [r EXCEPT !.synced = n]
    BY Zenon DEF SyncFile
  <2> HIDE DEF n, r
  <2>3. /\ [r EXCEPT !.synced = n] \in FileRec /\ [r EXCEPT !.synced = n].synced = n
        /\ [r EXCEPT !.synced = n].ops = r.ops
    BY <2>1 DEF FileRec
  <2> QED
    BY <2>1, <2>2, <2>3 DEF r, n
<1>3. fs \in Files /\ Unsynced(fs) = {}
  BY <1>2 DEF Files, Unsynced
<1> HIDE DEF fs
<1> QED
  BY <1>1, <1>3, SyncsStartup, SyncedAll

(* and after a loss of power all that is left is on the disk. *)
LEMMA CutSynced ==
    ASSUME NEW fs \in Files, NEW c \in Cuts(fs)
    PROVE  Unsynced(Cut(fs, c)) = {}
<1>1. ASSUME NEW f \in Unsynced(Cut(fs, c)) PROVE FALSE
  <2>1. f \in Names /\ Cut(fs, c)[f].here /\ Cut(fs, c)[f].synced < Len(Cut(fs, c)[f].ops)
    BY DEF Unsynced
  <2>2. DOMAIN c = Unsynced(fs) /\ \A g \in Unsynced(fs) : c[g] \in fs[g].synced..Len(fs[g].ops)
    BY DEF Cuts
  <2>3. Cut(fs, c)[f] = IF f \in Unsynced(fs) THEN File(SubSeq(fs[f].ops, 1, c[f]), c[f]) ELSE fs[f]
    BY <2>1, <2>2, Zenon DEF Cut
  <2>4. CASE f \notin Unsynced(fs)
    BY <2>1, <2>3, <2>4 DEF Unsynced
  <2>5. CASE f \in Unsynced(fs)
    <3> DEFINE s == fs[f].ops
               n == c[f]
               x == SubSeq(s, 1, n)
    <3>1. s \in Ops /\ n \in 0..Len(s)
      <4>1. s \in Ops /\ Len(s) \in Nat /\ fs[f].synced \in Nat
        BY <2>1, FileFields, OpsLen
      <4> QED
        BY <2>2, <2>5, <4>1
    <3> HIDE DEF s, n
    <3>2. Len(x) = n /\ n \in Nat
      BY <3>1 DEF Ops
    <3>3. Cut(fs, c)[f] = File(x, n)
      BY <2>3, <2>5, Zenon DEF s, n
    <3> HIDE DEF x
    <3>4. File(x, n).synced = n /\ File(x, n).ops = x
      BY DEF File
    <3> QED
      BY <2>1, <3>2, <3>3, <3>4
  <2> QED
    BY <2>4, <2>5
<1> QED
  BY <1>1

(* So nothing is left to sync. *)
LEMMA SyncsPowerLoss ==
    ASSUME AInv, PowerLoss
    PROVE  Syncing'
<1>1. PICK c \in Cuts(files) : \E torn \in SUBSET Short(files, c) : Startup(Cut(files, c), torn)
  BY DEF PowerLoss
<1>t. PICK torn \in SUBSET Short(files, c) : Startup(Cut(files, c), torn)
  BY <1>1
<1>2. Cut(files, c) \in Files /\ Unsynced(Cut(files, c)) = {}
  BY Basics, CutFacts, CutSynced
<1> DEFINE fs == Cut(files, c)
<1> HIDE DEF fs
<1> QED
  BY <1>t, <1>2, SyncsStartup, SyncedAll DEF fs

(* A new file is empty. *)
LEMMA SyncsOpenIncr ==
    ASSUME AInv, Syncing, OpenIncr
    PROVE  Syncing'
<1>1. /\ UNCHANGED <<policy, am, fd, size, syncoff, jobs>> /\ pc' \notin {"renameIncr", "listBase"}
      /\ pc = "open" /\ files' = [files EXCEPT ![NewIncr] = File(<<>>, 0)]
  BY DEF OpenIncr, data, buffer, thread
<1>2. ASSUME NEW f \in Unsynced(files') PROVE f \in Unsynced(files)
  <2>1. f \in Names /\ files'[f].here /\ files'[f].synced < Len(files'[f].ops)
    BY DEF Unsynced
  <2>2. files'[f] = files[f] \/ files'[f] = File(<<>>, 0)
    BY <1>1, <2>1, Basics DEF Files
  <2>3. ~(File(<<>>, 0).synced < Len(File(<<>>, 0).ops))
    BY EmptyOps DEF File
  <2> QED
    BY <2>1, <2>2, <2>3 DEF Unsynced
<1> QED
  BY <1>1, <1>2 DEF Syncing

(* The file that is closed is queued, the new one is empty. *)
LEMMA SyncsSwitch ==
    ASSUME AInv, Syncing, Switch
    PROVE  Syncing'
<1>1. /\ UNCHANGED <<files, policy>> /\ pc = "switch" /\ pc' \in {"drain", "fork"} /\ fd' = NewIncr
      /\ am' = IF state = "WAIT" THEN am ELSE WithIncr(am)
  BY DEF Switch, disk, data
<1>2. (jobs' = jobs /\ fd = Closed) \/ jobs' = Enqueue(jobs, fd, Len(db), "close")
  BY Zenon DEF Switch, Enqueue
<1>3. /\ am.iseq < MaxSeq /\ am \in Manifest /\ Ordered(am) /\ Len(am.incr) \in Nat
      /\ state \in {"WAIT", "ON"} /\ jobs \in Seq(Job) /\ fd \in Open
      /\ "close" \in Kinds /\ Len(db) \in Nat /\ policy \in {"always", "everysec"}
  BY <1>1, Basics, ManifestFields, AofAssumption DEF AInv, Room, Control, Types, Kinds, Manifests
<1>4. fd' \notin Unsynced(files)
  <2>1. Len(files[NewIncr].ops) = 0
    BY <1>1, EmptyOps DEF AInv, Present
  <2>2. NewIncr \in Names => files[NewIncr].synced \in Nat
    BY Basics, FileFields
  <2> QED
    BY <1>1, <2>1, <2>2 DEF Unsynced
<1>5. \A f : Queued(jobs, f) \/ (f = fd /\ fd # Closed) => Queued(jobs', f)
  BY <1>2, <1>3, QueuedMore
<1>6. Base(am'.base) \notin Unsynced(files)
  BY <1>1, <1>3, WithIncrFacts DEF Syncing
<1>7. ASSUME NEW i \in 1..Len(am'.incr), Incr(am'.incr[i]) # fd', Incr(am'.incr[i]) \in Unsynced(files)
      PROVE  Waiting(policy, jobs', Incr(am'.incr[i]))
  <2>1. i \in 1..Len(am.incr) /\ am'.incr[i] = am.incr[i]
    <3>1. CASE state = "WAIT"
      BY <1>1, <3>1
    <3>2. CASE state = "ON"
      <4> DEFINE w == WithIncr(am)
      <4>1. /\ Len(w.incr) = Len(am.incr) + 1 /\ w.incr[Len(am.incr) + 1] = am.iseq + 1
            /\ \A j \in 1..Len(am.incr) : w.incr[j] = am.incr[j]
        BY <1>3, WithIncrFacts, Zenon
      <4>2. am' = w
        BY <1>1, <3>2
      <4> HIDE DEF w
      <4>3. fd' = Incr(am.iseq + 1)
        BY <1>1, <3>2 DEF NewIncr
      <4>4. i # Len(am.incr) + 1
        BY <1>7, <4>1, <4>2, <4>3
      <4> QED
        BY <1>3, <4>1, <4>2, <4>4
    <3> QED
      BY <1>3, <3>1, <3>2
  <2>2. Incr(am.incr[i]) # Closed
    BY NameFacts
  <2>3. CASE Incr(am.incr[i]) # fd
    BY <1>5, <1>7, <2>1, <2>3 DEF Syncing, Waiting
  <2>4. CASE Incr(am.incr[i]) = fd
    BY <1>1, <1>3, <1>5, <1>7, <2>1, <2>2, <2>4 DEF Syncing, Waiting
  <2> QED
    BY <2>3, <2>4
<1> QED
  BY <1>1, <1>4, <1>6, <1>7 DEF Syncing

(* The new BASE is synced. *)
LEMMA SyncsRenameBase ==
    ASSUME AInv, Syncing, RenameBase
    PROVE  Syncing'
<1> DEFINE new == Base(am.bseq + 1)
<1>1. /\ UNCHANGED <<policy, am, fd, size, syncoff, jobs>> /\ pc' \in {"renameIncr", "listBase"}
      /\ child.snap \in Ops /\ Len(child.snap) \in Nat
  BY Basics, OpsLen DEF RenameBase, data, buffer, thread
<1>2. files' = [files EXCEPT ![new] = [here |-> TRUE, ops |-> child.snap, synced |-> Len(child.snap)]]
  BY <1>1, SyncedFile, Zenon DEF RenameBase
<1> HIDE DEF new
<1>3. ASSUME NEW f \in Unsynced(files') PROVE f \in Unsynced(files) /\ f # new
  <2>1. f \in Names /\ files'[f].here /\ files'[f].synced < Len(files'[f].ops)
    BY DEF Unsynced
  <2> QED
    BY <1>1, <1>2, <2>1, Basics DEF Files, Unsynced
<1> QED
  BY <1>1, <1>3 DEF Syncing, new

(* The jobs and the descriptor follow the file to its new name. *)
LEMMA SyncsRenameIncr ==
    ASSUME AInv, Syncing, RenameIncr
    PROVE  Syncing'
<1> DEFINE new == Incr(am.iseq + 1)
           now(f) == IF f = Temp THEN new ELSE f
<1>1. /\ pc = "renameIncr" /\ pc' = "listBase" /\ fd = Temp /\ fd' = new
      /\ UNCHANGED <<policy, am, size, syncoff>>
      /\ files' = [files EXCEPT ![new] = files[Temp], ![Temp] = NoFile]
      /\ jobs' = [i \in 1..Len(jobs) |-> [jobs[i] EXCEPT !.file = now(@)]]
      /\ jobs \in Seq(Job)
  BY DEF RenameIncr, data, buffer, AInv, Descriptor, Control, Done, Types
<1>2. /\ \A i \in 1..Len(am.incr) : Incr(am.incr[i]) \notin {new, Temp}
      /\ \A i : new # Base(i) /\ Temp # Base(i)
      /\ Temp \in Names
  <2>1. \A i \in 1..Len(am.incr) : am.incr[i] # am.iseq + 1
    BY Basics
  <2> QED
    BY <2>1, NameFacts
<1>3. ASSUME NEW f, Queued(jobs, f) PROVE Queued(jobs', now(f))
  <2>1. PICK i \in 1..Len(jobs) : jobs[i].file = f
    BY <1>3 DEF Queued
  <2>2. \A q \in Seq(Job) : Len(q) \in Nat /\ \A k \in 1..Len(q) : q[k] \in Job
    OBVIOUS
  <2>3. jobs[i] \in Job /\ Len(jobs) \in Nat
    BY <1>1, <2>2
  <2>4. jobs'[i] = [jobs[i] EXCEPT !.file = now(jobs[i].file)]
    BY <1>1
  <2>5. Len(jobs') = Len(jobs)
    <3> DEFINE n == Len(jobs)
    <3> HIDE DEF n, now
    <3>1. jobs' = [k \in 1..n |-> [jobs[k] EXCEPT !.file = now(@)]] /\ n \in Nat
      BY <1>1, <2>3 DEF n
    <3>2. Len(jobs') = n
      BY <3>1
    <3> QED
      BY <3>2 DEF n
  <2>6. jobs'[i].file = now(f)
    BY <2>1, <2>3, <2>4 DEF Job
  <2> QED
    BY <2>5, <2>6 DEF Queued
<1> HIDE DEF new
<1>4. ASSUME NEW f \in Unsynced(files') PROVE f # Temp /\ (f = new => Temp \in Unsynced(files))
                                             /\ (f # new => f \in Unsynced(files))
  <2>1. f \in Names /\ files'[f].here /\ files'[f].synced < Len(files'[f].ops)
    BY DEF Unsynced
  <2> QED
    BY <1>1, <1>2, <2>1, Basics DEF Files, Unsynced, NoFile
<1>5. Base(am.base) \notin Unsynced(files') /\ Base(am.bseq + 1) \notin Unsynced(files')
  BY <1>1, <1>2, <1>4 DEF Syncing
<1>6. ASSUME NEW i \in 1..Len(am.incr), Incr(am.incr[i]) \in Unsynced(files')
      PROVE  Waiting(policy, jobs', Incr(am.incr[i]))
  <2>1. Incr(am.incr[i]) \in Unsynced(files) /\ Incr(am.incr[i]) # fd
    BY <1>1, <1>2, <1>4, <1>6
  <2>2. Waiting(policy, jobs, Incr(am.incr[i]))
    BY <2>1 DEF Syncing
  <2> QED
    BY <1>2, <1>3, <2>2 DEF Waiting
<1>7. ASSUME new \in Unsynced(files'), syncoff = size PROVE Waiting(policy, jobs', new)
  <2>1. Waiting(policy, jobs, Temp)
    BY <1>1, <1>4, <1>7 DEF Syncing
  <2> QED
    BY <1>3, <2>1 DEF Waiting
<1> QED
  BY <1>1, <1>5, <1>6, <1>7 DEF Syncing

(* What is listed is the new BASE, which is synced, and the open file. *)
LEMMA SyncsListBase ==
    ASSUME AInv, Syncing, ListBase
    PROVE  Syncing'
<1> DEFINE m == WithBase(am)
<1>1. /\ pc = "listBase" /\ pc' = "collect" /\ am' = m
      /\ UNCHANGED <<policy, files, fd, size, syncoff, jobs>>
  BY DEF ListBase, data, buffer, thread
<1>2. /\ m.base = am.bseq + 1
      /\ IF state = "OFF" THEN m.incr = <<>> ELSE \E k \in 1..MaxSeq : fd = Incr(k) /\ m.incr = <<k>>
  BY <1>1, WithBaseFacts
<1> HIDE DEF m
<1>3. \A i \in 1..Len(m.incr) : Incr(m.incr[i]) = fd
  <2>1. CASE state = "OFF"
    <3>1. Len(m.incr) = 0
      BY <1>2, <2>1, EmptyOps
    <3> QED
      BY <3>1
  <2>2. CASE state # "OFF"
    <3>1. PICK k \in 1..MaxSeq : fd = Incr(k) /\ m.incr = <<k>>
      BY <1>2, <2>2
    <3>2. Len(<<k>>) = 1 /\ <<k>>[1] = k
      OBVIOUS
    <3>3. Len(m.incr) = 1 /\ m.incr[1] = k
      BY <3>1, <3>2, Zenon
    <3> QED
      BY <3>1, <3>3
  <2> QED
    BY <2>1, <2>2
<1> QED
  BY <1>1, <1>2, <1>3 DEF Syncing

-----------------------------------------------------------------------------
(* A removed file needs no sync. *)
LEMMA SyncsCollect ==
    ASSUME AInv, Syncing, Collect
    PROVE  Syncing'
<1>1. PICK f \in am.hist : files' = [files EXCEPT ![f] = NoFile] /\ am' = [am EXCEPT !.hist = @ \ {f}]
  BY DEF Collect
<1>2. /\ am'.base = am.base /\ am'.bseq = am.bseq /\ am'.incr = am.incr /\ pc' = "collect"
      /\ UNCHANGED <<policy, fd, size, syncoff, jobs>>
  BY <1>1, Basics DEF Collect, Manifest, data, buffer, thread, rewrite
<1>3. ASSUME NEW g \in Unsynced(files') PROVE g \in Unsynced(files)
  <2>1. g \in Names /\ files'[g].here /\ files'[g].synced < Len(files'[g].ops)
    BY DEF Unsynced
  <2> QED
    BY <1>1, <2>1, Basics DEF Files, Unsynced, NoFile
<1> QED
  BY <1>2, <1>3 DEF Syncing

(* Of a rewrite that failed no listed file is removed. *)
LEMMA SyncsDoneFails ==
    ASSUME AInv, Syncing, DoneFails
    PROVE  Syncing'
<1> DEFINE base == IF pc \in {"renameIncr", "listBase"} THEN {Base(am.bseq + 1)} ELSE {}
           incr == IF pc = "listBase" /\ state = "WAIT" THEN {Incr(am.iseq + 1)} ELSE {}
           temp == IF state = "WAIT" THEN {Temp} ELSE {}
           gone == base \cup incr \cup temp
<1>1. /\ pc' = "loop" /\ UNCHANGED <<policy, am, size, syncoff>> /\ jobs \in Seq(Job)
      /\ files' = [f \in Names |-> IF f \in gone THEN NoFile ELSE files[f]]
      /\ fd' = IF fd \in gone THEN Gone ELSE fd
  BY DEF DoneFails, data, AInv, Types
<1>2. jobs' = [i \in 1..Len(jobs) |->
                 IF jobs[i].file \in gone THEN [jobs[i] EXCEPT !.file = Gone] ELSE jobs[i]]
  BY Zenon DEF DoneFails
<1> HIDE DEF gone
<1>3. ASSUME NEW f, Queued(jobs, f), f \notin gone PROVE Queued(jobs', f)
  <2>1. PICK i \in 1..Len(jobs) : jobs[i].file = f
    BY <1>3 DEF Queued
  <2>2. jobs'[i] = jobs[i]
    BY <1>2, <1>3, <2>1
  <2>3. Len(jobs') = Len(jobs)
    <3> DEFINE n == Len(jobs)
    <3>1. \A q \in Seq(Job) : Len(q) \in Nat
      OBVIOUS
    <3>2. n \in Nat
      BY <1>1, <3>1
    <3> HIDE DEF n
    <3>3. jobs' = [k \in 1..n |->
                     IF jobs[k].file \in gone THEN [jobs[k] EXCEPT !.file = Gone] ELSE jobs[k]]
      BY <1>2 DEF n
    <3>4. Len(jobs') = n
      BY <3>2, <3>3
    <3> QED
      BY <3>4 DEF n
  <2> QED
    BY <2>1, <2>2, <2>3 DEF Queued
<1>4. ASSUME NEW f \in Unsynced(files') PROVE f \in Unsynced(files) /\ f \notin gone
  <2>1. f \in Names /\ files'[f].here /\ files'[f].synced < Len(files'[f].ops)
    BY DEF Unsynced
  <2> QED
    BY <1>1, <2>1 DEF Unsynced, NoFile
<1>5. fd' \in Unsynced(files') => fd' = fd
  <2>1. Gone \notin Unsynced(files')
    BY NameFacts DEF Unsynced
  <2> QED
    BY <1>1, <2>1
<1>6. Base(am.base) \notin Unsynced(files')
  BY <1>4 DEF Syncing
<1>7. ASSUME NEW i \in 1..Len(am.incr), Incr(am.incr[i]) # fd', Incr(am.incr[i]) \in Unsynced(files')
      PROVE  Waiting(policy, jobs', Incr(am.incr[i]))
  <2>1. Incr(am.incr[i]) \in Unsynced(files) /\ Incr(am.incr[i]) \notin gone
    BY <1>4, <1>7
  <2>2. Incr(am.incr[i]) # fd
    BY <1>1, <1>7, <2>1
  <2>3. Waiting(policy, jobs, Incr(am.incr[i]))
    BY <2>1, <2>2 DEF Syncing
  <2> QED
    BY <1>3, <2>1, <2>3 DEF Waiting
<1>8. ASSUME fd' \in Unsynced(files'), syncoff = size PROVE Waiting(policy, jobs', fd')
  BY <1>3, <1>4, <1>5, <1>8 DEF Syncing, Waiting
<1> QED
  BY <1>1, <1>6, <1>7, <1>8 DEF Syncing

(* The file is synced before it is closed. *)
LEMMA SyncsStop ==
    ASSUME AInv, Syncing, Stop
    PROVE  Syncing'
<1>1. pc' = "loop" /\ fd' = Closed /\ UNCHANGED <<policy, am>>
  BY DEF Stop, data
<1>2. PICK left \in {buf, <<>>} :
        /\ files' = Sync(Extend(files, fd, left), fd)
        /\ jobs' = jobs \/ jobs' = Enqueue(jobs, Gone, Len(db), "fsync")
  BY Zenon DEF Stop, Enqueue
<1>3. left \in Ops /\ files \in Files /\ jobs \in Seq(Job) /\ Len(db) \in Nat
      /\ Gone \in Open /\ "fsync" \in Kinds
  BY <1>2, Basics, EmptyOps DEF AInv, Types, Open, Kinds
<1> DEFINE w == Extend(files, fd, left)
<1>4. /\ w \in Files
      /\ \A f \in Names : /\ w[f].here = files[f].here /\ w[f].synced = files[f].synced
                          /\ f # fd => w[f].ops = files[f].ops
  BY <1>3, ExtendFacts
<1>5. /\ \A f \in Names : /\ files'[f].ops = w[f].ops /\ files'[f].here = w[f].here
                          /\ f # fd => files'[f].synced = w[f].synced
      /\ fd \in Names => files'[fd].synced = Len(w[fd].ops)
  BY <1>2, <1>4, SyncFacts
<1> HIDE DEF w
<1>6. ASSUME NEW f \in Unsynced(files') PROVE f \in Unsynced(files) /\ f # fd
  <2>1. f \in Names /\ files'[f].here /\ files'[f].synced < Len(files'[f].ops)
    BY DEF Unsynced
  <2>2. Len(w[f].ops) \in Nat
    BY <1>4, <2>1, FileFields, OpsLen
  <2> QED
    BY <1>4, <1>5, <2>1, <2>2 DEF Unsynced
<1>7. \A f : Queued(jobs, f) => Queued(jobs', f)
  BY <1>2, <1>3, QueuedMore
<1>8. Closed \notin Unsynced(files')
  BY NameFacts DEF Unsynced
<1> QED
  BY <1>1, <1>6, <1>7, <1>8 DEF Syncing, Waiting

(* To leave nothing to the thread, the queue is emptied first. *)
LEMMA SyncsSetPolicy ==
    ASSUME AInv, Syncing, SetPolicy
    PROVE  Syncing'
<1>1. /\ UNCHANGED <<files, jobs, fd, size, syncoff, am>> /\ pc' = "loop" /\ policy' # policy
      /\ policy' = "always" => jobs = <<>>
      /\ policy \in {"always", "everysec"} /\ policy' \in {"always", "everysec"}
  BY AofAssumption DEF SetPolicy, buffer, thread, disk, rewrite, AInv, Types
<1>2. \A f : ~Waiting(policy, jobs, f)
  BY <1>1, EmptyOps DEF Waiting, Queued
<1> QED
  BY <1>1, <1>2 DEF Syncing

(* Syncing is inductive, given AInv. *)
LEMMA SyncsNext ==
    ASSUME AInv, Syncing, [Next]_vars, SoundFaults, SyncsSucceed
    PROVE  Syncing'
<1>1. CASE Write \/ Drain \/ Fork \/ ListIncr \/ ChildDone \/ Collected \/ RewriteFails
           \/ UNCHANGED vars
  <2>1. /\ UNCHANGED <<policy, files, jobs, fd, size, syncoff, am>>
        /\ pc' \in {"renameIncr", "listBase"} => pc \in {"renameIncr", "listBase"}
        /\ pc' \in {"open", "listIncr", "switch"} => pc \in {"open", "listIncr", "switch"}
    BY <1>1 DEF Write, Drain, Fork, ListIncr, ChildDone, Collected, RewriteFails,
                vars, data, buffer, thread, disk, rewrite
  <2> QED
    BY <2>1, QuietSyncing
<1>2. CASE Bio
  BY <1>2, SyncsBio
<1>3. CASE BeforeSleep
  <2>1. pc = "loop" /\ pc' = "loop" /\ am' = am /\ fd' = fd /\ policy' = policy
    BY <1>3 DEF BeforeSleep, rewrite
  <2>2. CASE state = "OFF"
    <3>1. UNCHANGED <<files, jobs, size, syncoff>>
      BY <1>3, <2>2 DEF BeforeSleep, buffer
    <3> QED
      BY <2>1, <3>1, QuietSyncing
  <2>3. CASE state # "OFF"
    <3>1. Flush(FALSE)
      BY <1>3, <2>3 DEF BeforeSleep
    <3> QED
      BY <2>1, <3>1, SyncsFlush
  <2> QED
    BY <2>2, <2>3
<1>4. CASE Rewrite
  BY <1>4, SyncsFlush DEF Rewrite, BeginRewrite, data
<1>5. CASE Start
  <2>1. pc = "loop" /\ am' = am /\ fd' = fd /\ policy' = policy
    BY <1>5 DEF Start, data
  <2>2. CASE UNCHANGED <<buf, size, syncoff, jobs, pending, files, rewrite, doubled, faults>>
    BY <2>1, <2>2, QuietSyncing DEF rewrite
  <2>3. CASE BeginRewrite
    BY <2>1, <2>3, SyncsFlush DEF BeginRewrite
  <2> QED
    BY <1>5, <2>2, <2>3 DEF Start
<1>6. CASE OpenIncr \/ Switch \/ RenameBase \/ RenameIncr \/ ListBase \/ DoneFails \/ Collect
  BY <1>6, SyncsOpenIncr, SyncsSwitch, SyncsRenameBase, SyncsRenameIncr, SyncsListBase,
     SyncsDoneFails, SyncsCollect
<1>7. CASE SetPolicy \/ Stop \/ Crash \/ PowerLoss
  BY <1>7, SyncsSetPolicy, SyncsStop, SyncsCrash, SyncsPowerLoss
<1> QED
  BY <1>1, <1>2, <1>3, <1>4, <1>5, <1>6, <1>7 DEF Next

(* NoSyncForgotten: with an empty queue and equal offsets all listed files *)
(* are on the disk, across postponed writes, changes of files and of       *)
(* appendfsync.                                                            *)
THEOREM SyncsKept ==
    ASSUME SoundFaults, SyncsSucceed
    PROVE  Spec => []NoSyncForgotten
<1>1. AInv /\ Syncing /\ [Next]_vars => Syncing'
  BY SyncsNext
<1>2. AInv /\ Syncing => NoSyncForgotten
  <2> SUFFICES ASSUME AInv, Syncing, state = "ON", pc = "loop", jobs = <<>>, syncoff = size,
                      NEW i \in 1..Len(Listed(dm))
               PROVE  Listed(dm)[i] \notin Unsynced(files)
    BY Zenon DEF NoSyncForgotten
  <2>1. \A f : ~Queued(jobs, f)
    BY EmptyOps DEF Queued
  <2>2. dm.base = am.base /\ dm.incr = am.incr
    <3>1. ~NewListed
      BY DEF NewListed
    <3> QED
      BY <3>1, SameListed
  <2> DEFINE S == Names \ Unsynced(files)
  <2>3. Base(dm.base) \in S /\ \A j \in 1..Len(dm.incr) : Incr(dm.incr[j]) \in S
    BY <2>1, <2>2, Basics DEF Syncing, Waiting
  <2> HIDE DEF S
  <2>4. Listed(dm)[i] \in S
    BY <2>3, Basics, ListedAll
  <2> QED
    BY <2>4 DEF S
<1> QED
  BY <1>1, <1>2, InitSyncing, AofInvariant, PTL DEF Spec

-----------------------------------------------------------------------------
(* Prefixes of writes *)

(* The first n writes. *)
Pre(s, n) == SubSeq(s, 1, n)

(* A prefix and its members. *)
LEMMA PreFacts ==
    ASSUME NEW a \in Ops, NEW n \in 0..Len(a)
    PROVE  /\ Pre(a, n) \in Ops /\ Len(Pre(a, n)) = n /\ Pre(a, Len(a)) = a /\ IsPrefix(Pre(a, n), a)
           /\ \A i \in 1..n : Pre(a, n)[i] = a[i]
<1>1. a \in Seq(1..MaxWrite) /\ Len(a) \in Nat
  BY DEF Ops
<1>2. Pre(a, n) \in Seq(1..MaxWrite)
  BY <1>1, AofAssumption DEF Pre
<1>3. Len(Pre(a, n)) = n
  BY <1>1 DEF Pre
<1>4. Pre(a, Len(a)) = a
  BY <1>1 DEF Pre
<1>5. \A i \in 1..n : Pre(a, n)[i] = a[i]
  BY <1>1 DEF Pre
<1>6. IsPrefix(Pre(a, n), a)
  <2> DEFINE p == Pre(a, n)
  <2> HIDE DEF p
  <2>1. p \in Seq(1..MaxWrite) /\ Len(p) = n /\ \A i \in 1..n : p[i] = a[i]
    BY <1>2, <1>3, <1>5 DEF p
  <2>2. IsPrefix(p, a)
    BY <1>1, <2>1 DEF IsPrefix
  <2> QED
    BY <2>2 DEF p
<1> QED
  BY <1>2, <1>3, <1>4, <1>5, <1>6 DEF Ops

(* The members of a concatenation. *)
LEMMA CatIndex ==
    ASSUME NEW a \in Ops, NEW b \in Ops
    PROVE  \A i \in 1..(Len(a) + Len(b)) : Cat(a, b)[i] = IF i <= Len(a) THEN a[i] ELSE b[i - Len(a)]
  BY DEF Ops, Cat

(* Sequences with the same members are equal. *)
LEMMA OpsEqual ==
    ASSUME NEW a \in Ops, NEW b \in Ops, Len(a) = Len(b), \A i \in 1..Len(a) : a[i] = b[i]
    PROVE  a = b
  BY DEF Ops

(* What follows a prefix. *)
LEMMA PreRest ==
    ASSUME NEW a \in Ops, NEW n \in 0..Len(a)
    PROVE  \E y \in Ops : a = Cat(Pre(a, n), y)
<1> DEFINE y == SubSeq(a, n + 1, Len(a))
           p == Pre(a, n)
<1>1. a \in Seq(1..MaxWrite) /\ Len(a) \in Nat
  BY DEF Ops
<1>2. y \in Seq(1..MaxWrite)
  BY <1>1, AofAssumption
<1>3. Len(y) = Len(a) - n /\ \A i \in 1..(Len(a) - n) : y[i] = a[n + i]
  BY <1>1
<1>4. p \in Ops /\ Len(p) = n /\ \A i \in 1..n : p[i] = a[i]
  BY PreFacts
<1> HIDE DEF y, p
<1>5. y \in Ops
  BY <1>2 DEF Ops
<1>6. Cat(p, y) \in Ops /\ Len(Cat(p, y)) = Len(a)
  <2>1. Cat(p, y) \in Ops /\ Len(Cat(p, y)) = Len(p) + Len(y)
    BY <1>4, <1>5, OpsCat
  <2> QED
    BY <1>1, <1>3, <1>4, <2>1
<1>7. ASSUME NEW i \in 1..Len(a) PROVE Cat(p, y)[i] = a[i]
  <2>1. Cat(p, y)[i] = IF i <= n THEN p[i] ELSE y[i - n]
    BY <1>1, <1>3, <1>4, <1>5, CatIndex
  <2>2. CASE i <= n
    BY <1>1, <1>4, <2>1, <2>2
  <2>3. CASE ~(i <= n)
    <3>1. i - n \in 1..(Len(a) - n) /\ n + (i - n) = i
      BY <1>1, <2>3
    <3> QED
      BY <1>3, <2>1, <2>3, <3>1
  <2> QED
    BY <2>2, <2>3
<1>8. a = Cat(p, y)
  BY <1>6, <1>7, OpsEqual
<1> QED
  BY <1>5, <1>8 DEF p

(* A prefix of the first part. *)
LEMMA PreShort ==
    ASSUME NEW a \in Ops, NEW x \in Ops, NEW n \in 0..Len(a)
    PROVE  Pre(Cat(a, x), n) = Pre(a, n)
<1>1. Len(a) \in Nat /\ Len(x) \in Nat /\ Cat(a, x) \in Ops /\ Len(Cat(a, x)) = Len(a) + Len(x)
  BY OpsLen, OpsCat
<1> DEFINE c == Cat(a, x)
<1>2. \A i \in 1..n : c[i] = a[i]
  BY <1>1, CatIndex
<1> HIDE DEF c
<1>3. c \in Ops /\ n \in 0..Len(c)
  BY <1>1 DEF c
<1>4. /\ Pre(c, n) \in Ops /\ Len(Pre(c, n)) = n /\ \A i \in 1..n : Pre(c, n)[i] = c[i]
      /\ Pre(a, n) \in Ops /\ Len(Pre(a, n)) = n /\ \A i \in 1..n : Pre(a, n)[i] = a[i]
  BY <1>3, PreFacts
<1>5. Pre(c, n) = Pre(a, n)
  BY <1>2, <1>4, OpsEqual
<1> QED
  BY <1>5 DEF c

(* A prefix of what was extended extends a prefix of what was there. *)
LEMMA PreCat ==
    ASSUME NEW a \in Ops, NEW x \in Ops, NEW n \in 0..Len(Cat(a, x))
    PROVE  \E k \in 0..Len(a), y \in Ops :
              (k = n \/ k = Len(a)) /\ k <= n /\ Pre(Cat(a, x), n) = Cat(Pre(a, k), y)
<1> DEFINE c == Cat(a, x)
<1>1. Len(a) \in Nat /\ Len(x) \in Nat /\ c \in Ops /\ Len(c) = Len(a) + Len(x) /\ n \in Nat
  BY OpsLen, OpsCat
<1>2. CASE n <= Len(a)
  <2>1. n \in 0..Len(a)
    BY <1>1, <1>2
  <2>2. Pre(c, n) = Pre(a, n) /\ Pre(a, n) \in Ops
    BY <2>1, PreShort, PreFacts
  <2>3. Pre(c, n) = Cat(Pre(a, n), <<>>)
    BY <2>2, OpsEmpty
  <2> HIDE DEF c
  <2> QED
    BY <2>1, <2>3, EmptyOps DEF c
<1>3. CASE ~(n <= Len(a))
  <2> DEFINE p == Pre(c, n)
  <2>1. p \in Ops /\ Len(p) = n /\ \A i \in 1..n : p[i] = c[i]
    BY PreFacts, <1>1
  <2>2. Len(a) \in 0..Len(p)
    BY <1>1, <1>3, <2>1
  <2>3. PICK y \in Ops : p = Cat(Pre(p, Len(a)), y)
    BY <2>1, <2>2, PreRest
  <2>4. Pre(p, Len(a)) = a
    <3>1. /\ Pre(p, Len(a)) \in Ops /\ Len(Pre(p, Len(a))) = Len(a)
          /\ \A i \in 1..Len(a) : Pre(p, Len(a))[i] = p[i]
      BY <2>1, <2>2, PreFacts
    <3>2. \A i \in 1..Len(a) : c[i] = a[i] /\ i \in 1..n
      BY <1>1, <1>3, CatIndex
    <3> HIDE DEF p, c
    <3> QED
      BY <2>1, <3>1, <3>2, OpsEqual
  <2>5. Pre(a, Len(a)) = a /\ Len(a) \in 0..Len(a)
    BY <1>1, PreFacts
  <2>6. p = Cat(Pre(a, Len(a)), y)
    BY <2>3, <2>4, <2>5, Zenon
  <2> QED
    BY <1>1, <1>3, <2>5, <2>6
<1> QED
  BY <1>2, <1>3

(* A prefix stays one when a write is appended. *)
LEMMA PrePlus ==
    ASSUME NEW a \in Ops, NEW w \in 1..MaxWrite, NEW n \in 0..Len(a)
    PROVE  Pre(Plus(a, w), n) = Pre(a, n)
<1>1. Len(a) \in Nat /\ Plus(a, w) \in Ops /\ Len(Plus(a, w)) = Len(a) + 1
  BY OpsLen, OpsPlus
<1> DEFINE c == Plus(a, w)
<1>2. \A i \in 1..n : c[i] = a[i]
  BY DEF Plus, Ops
<1> HIDE DEF c
<1>3. c \in Ops /\ n \in 0..Len(c)
  BY <1>1 DEF c
<1>4. /\ Pre(c, n) \in Ops /\ Len(Pre(c, n)) = n /\ \A i \in 1..n : Pre(c, n)[i] = c[i]
      /\ Pre(a, n) \in Ops /\ Len(Pre(a, n)) = n /\ \A i \in 1..n : Pre(a, n)[i] = a[i]
  BY <1>3, PreFacts
<1>5. Pre(c, n) = Pre(a, n)
  BY <1>2, <1>4, OpsEqual
<1> QED
  BY <1>5 DEF c

(* Nothing is a prefix of everything; a prefix may lose its end, and what  *)
(* it is a prefix of may be extended.                                      *)
LEMMA PrefixLaws ==
    ASSUME NEW a \in Ops, NEW b \in Ops
    PROVE  /\ IsPrefix(Pre(a, 0), b)
           /\ \A c \in Ops : IsPrefix(a, b) => IsPrefix(a, Cat(b, c))
           /\ \A c \in Ops : IsPrefix(Cat(a, b), c) => IsPrefix(a, c)
           /\ IsPrefix(a, b) <=> Len(a) <= Len(b) /\ \A i \in 1..Len(a) : a[i] = b[i]
<1>1. ASSUME NEW s \in Ops, NEW t \in Ops
      PROVE  IsPrefix(s, t) <=> Len(s) <= Len(t) /\ \A i \in 1..Len(s) : s[i] = t[i]
  <2>1. ASSUME IsPrefix(s, t) PROVE Len(s) <= Len(t) /\ \A i \in 1..Len(s) : s[i] = t[i]
    BY <2>1 DEF IsPrefix, Ops
  <2>2. ASSUME Len(s) <= Len(t), \A i \in 1..Len(s) : s[i] = t[i] PROVE IsPrefix(s, t)
    BY <2>2 DEF IsPrefix, Ops
  <2> QED
    BY <2>1, <2>2
<1>2. IsPrefix(Pre(a, 0), b)
  <2>1. 0 \in 0..Len(a)
    BY OpsLen
  <2>2. Pre(a, 0) \in Ops /\ Len(Pre(a, 0)) = 0
    BY <2>1, PreFacts
  <2> QED
    BY <1>1, <2>2, OpsLen
<1>3. ASSUME NEW c \in Ops, IsPrefix(a, b) PROVE IsPrefix(a, Cat(b, c))
  <2>1. /\ Len(a) \in Nat /\ Len(b) \in Nat /\ Len(c) \in Nat /\ Cat(b, c) \in Ops
        /\ Len(Cat(b, c)) = Len(b) + Len(c)
    BY OpsLen, OpsCat
  <2>2. Len(a) <= Len(b) /\ \A i \in 1..Len(a) : a[i] = b[i]
    BY <1>1, <1>3
  <2>3. \A i \in 1..Len(a) : Cat(b, c)[i] = b[i]
    BY <2>1, <2>2, CatIndex
  <2>4. Len(a) <= Len(Cat(b, c)) /\ \A i \in 1..Len(a) : a[i] = Cat(b, c)[i]
    BY <2>1, <2>2, <2>3
  <2> QED
    BY <1>1, <2>1, <2>4
<1>4. ASSUME NEW c \in Ops, IsPrefix(Cat(a, b), c) PROVE IsPrefix(a, c)
  <2>1. /\ Len(a) \in Nat /\ Len(b) \in Nat /\ Len(c) \in Nat /\ Cat(a, b) \in Ops
        /\ Len(Cat(a, b)) = Len(a) + Len(b)
    BY OpsLen, OpsCat
  <2>2. Len(Cat(a, b)) <= Len(c) /\ \A i \in 1..Len(Cat(a, b)) : Cat(a, b)[i] = c[i]
    BY <1>1, <1>4, <2>1
  <2>3. \A i \in 1..Len(a) : Cat(a, b)[i] = a[i]
    BY <2>1, CatIndex
  <2>4. Len(a) <= Len(c) /\ \A i \in 1..Len(a) : a[i] = c[i]
    BY <2>1, <2>2, <2>3
  <2> QED
    BY <1>1, <2>4
<1> QED
  BY <1>1, <1>2, <1>3, <1>4

-----------------------------------------------------------------------------
(* What can be read *)

(* What may be read of the files after a loss of power: of each at least   *)
(* the writes that are synced.                                             *)
Reads(fs) == {gs \in Files : \A f \in Names :
                 \E n \in 0..Len(fs[f].ops) : fs[f].synced <= n /\ gs[f].ops = Pre(fs[f].ops, n)}

(* The writes q are loaded again, *)
LoadKept(q, fs, m) == \A gs \in Reads(fs) : IsPrefix(q, Loaded(gs, m))

(* and would be loaded from a snapshot and the file after it. *)
SnapKept(q, fs, s, f) == \A gs \in Reads(fs) : IsPrefix(q, Cat(s, gs[f].ops))

(* The promised writes are kept, in the rewrite under way as well. *)
Kept ==
    ~doubled =>
        /\ LoadKept(Pre(db, promised), files, dm)
        /\ child.on /\ pc # "collect" =>
              IF state = "OFF" THEN IsPrefix(Pre(db, promised), child.snap)
                               ELSE SnapKept(Pre(db, promised), files, child.snap, fd)

(* Of a file that is synced all is read. *)
LEMMA ReadsWhole ==
    ASSUME NEW fs \in Files, NEW gs \in Reads(fs), NEW f \in Names,
           ~(fs[f].synced < Len(fs[f].ops))
    PROVE  gs[f].ops = fs[f].ops
<1> DEFINE a == fs[f].ops
<1>1. a \in Ops /\ fs[f].synced \in Nat /\ Len(a) \in Nat
  BY FileFields, OpsLen
<1>2. PICK n \in 0..Len(a) : fs[f].synced <= n /\ gs[f].ops = Pre(a, n)
  BY DEF Reads
<1>3. n = Len(a)
  BY <1>1, <1>2
<1>4. Pre(a, Len(a)) = a
  BY <1>1, PreFacts
<1> HIDE DEF a
<1>5. gs[f].ops = a
  BY <1>2, <1>3, <1>4
<1> QED
  BY <1>5 DEF a

(* Outside S, what may be read of hs may be read of fs. *)
Covers(fs, hs, S) ==
    \A gs \in Reads(hs) : \E g \in Reads(fs) : \A f \in Names \ S : g[f].ops = gs[f].ops

(* Files outside S as before, or with more of them synced. *)
LEMMA ReadsStep ==
    ASSUME NEW fs \in Files, NEW hs \in Files, NEW S,
           \A f \in Names : fs[f].synced <= Len(fs[f].ops),
           \A f \in Names \ S : hs[f].ops = fs[f].ops /\ fs[f].synced <= hs[f].synced
    PROVE  Covers(fs, hs, S)
<1> SUFFICES ASSUME NEW gs \in Reads(hs)
             PROVE  \E g \in Reads(fs) : \A f \in Names \ S : g[f].ops = gs[f].ops
  BY DEF Covers
<1> DEFINE g == [f \in Names |-> IF f \in S THEN fs[f] ELSE gs[f]]
<1>1. gs \in Files
  BY DEF Reads
<1>2. g \in Files
  BY <1>1 DEF Files
<1>3. ASSUME NEW f \in Names
      PROVE  \E n \in 0..Len(fs[f].ops) : fs[f].synced <= n /\ g[f].ops = Pre(fs[f].ops, n)
  <2> DEFINE a == fs[f].ops
  <2>1. a \in Ops /\ fs[f].synced \in Nat /\ Len(a) \in Nat /\ hs[f].synced \in Nat
    BY FileFields, OpsLen
  <2>2. CASE f \in S
    <3>1. Pre(a, Len(a)) = a /\ Len(a) \in 0..Len(a)
      BY <2>1, PreFacts
    <3>2. g[f].ops = a
      BY <2>2
    <3> HIDE DEF g
    <3> QED
      BY <3>1, <3>2
  <2>3. CASE f \notin S
    <3>1. hs[f].ops = a /\ fs[f].synced <= hs[f].synced
      BY <2>3
    <3>2. PICK n \in 0..Len(hs[f].ops) : hs[f].synced <= n /\ gs[f].ops = Pre(hs[f].ops, n)
      BY DEF Reads
    <3>3. g[f].ops = gs[f].ops
      BY <2>3
    <3> HIDE DEF g, a
    <3>4. n \in 0..Len(a) /\ fs[f].synced <= n /\ g[f].ops = Pre(a, n)
      BY <2>1, <3>1, <3>2, <3>3
    <3> QED
      BY <3>4 DEF a
  <2> QED
    BY <2>2, <2>3
<1>4. g \in Reads(fs)
  <2> HIDE DEF g
  <2> QED
    BY <1>2, <1>3 DEF Reads
<1>5. \A f \in Names \ S : g[f].ops = gs[f].ops
  OBVIOUS
<1> HIDE DEF g
<1> QED
  BY <1>4, <1>5

(* A file that has grown: what is read of it has. *)
LEMMA ReadsGrown ==
    ASSUME NEW fs \in Files, NEW hs \in Files, NEW d \in Names, NEW gs \in Reads(hs), NEW x \in Ops,
           \A f \in Names : fs[f].synced <= Len(fs[f].ops) /\ fs[f].synced <= hs[f].synced,
           \A f \in Names : f # d => hs[f].ops = fs[f].ops,
           hs[d].ops = Cat(fs[d].ops, x)
    PROVE  \E g \in Reads(fs), y \in Ops : /\ \A f \in Names : f # d => g[f].ops = gs[f].ops
                                           /\ gs[d].ops = Cat(g[d].ops, y)
<1> DEFINE a == fs[d].ops
<1>1. a \in Ops /\ fs[d].synced \in Nat /\ Len(a) \in Nat /\ hs[d].synced \in Nat /\ fs[d] \in FileRec
  BY FileFields, OpsLen
<1>2. PICK n \in 0..Len(hs[d].ops) : hs[d].synced <= n /\ gs[d].ops = Pre(hs[d].ops, n)
  BY DEF Reads
<1>3. n \in 0..Len(Cat(a, x)) /\ gs[d].ops = Pre(Cat(a, x), n)
  BY <1>2
<1>4. PICK k \in 0..Len(a), y \in Ops :
         (k = n \/ k = Len(a)) /\ k <= n /\ Pre(Cat(a, x), n) = Cat(Pre(a, k), y)
  BY <1>1, <1>3, PreCat
<1>5. fs[d].synced <= k
  BY <1>1, <1>2, <1>4
<1> DEFINE p == Pre(a, k)
<1>6. p \in Ops
  BY <1>1, PreFacts
<1> HIDE DEF p
<1> DEFINE r == [fs[d] EXCEPT !.ops = p]
           g == [f \in Names |-> IF f = d THEN r ELSE gs[f]]
<1>7. r \in FileRec /\ r.ops = p
  BY <1>1, <1>6 DEF FileRec
<1> HIDE DEF r
<1>8. g \in Files
  <2>1. gs \in Files
    BY DEF Reads
  <2> QED
    BY <1>7, <2>1 DEF Files
<1>9. g[d].ops = p /\ \A f \in Names : f # d => g[f].ops = gs[f].ops
  BY <1>7
<1> HIDE DEF g, a
<1>10. ASSUME NEW f \in Names
       PROVE  \E i \in 0..Len(fs[f].ops) : fs[f].synced <= i /\ g[f].ops = Pre(fs[f].ops, i)
  <2>1. CASE f = d
    BY <1>5, <1>9, <2>1 DEF p, a
  <2>2. CASE f # d
    <3>1. PICK i \in 0..Len(hs[f].ops) : hs[f].synced <= i /\ gs[f].ops = Pre(hs[f].ops, i)
      BY DEF Reads
    <3>2. /\ hs[f].ops = fs[f].ops /\ fs[f].synced <= hs[f].synced /\ g[f].ops = gs[f].ops
          /\ fs[f].synced \in Nat /\ hs[f].synced \in Nat /\ Len(fs[f].ops) \in Nat
      BY <1>9, <2>2, FileFields, OpsLen
    <3>3. i \in 0..Len(fs[f].ops) /\ fs[f].synced <= i /\ g[f].ops = Pre(fs[f].ops, i)
      BY <3>1, <3>2
    <3> QED
      BY <3>3
  <2> QED
    BY <2>1, <2>2
<1>11. g \in Reads(fs)
  BY <1>8, <1>10 DEF Reads
<1>12. gs[d].ops = Cat(g[d].ops, y)
  BY <1>3, <1>4, <1>9 DEF p
<1> QED
  BY <1>9, <1>11, <1>12

(* Of the listed files nothing is lost. *)
LEMMA LoadKeptStep ==
    ASSUME NEW fs \in Files, NEW hs \in Files, NEW m \in Manifest, NEW n \in Manifest, NEW q,
           m.base = n.base, m.incr = n.incr, NEW S,
           Base(m.base) \notin S, \A i \in 1..Len(m.incr) : Incr(m.incr[i]) \notin S,
           Covers(fs, hs, S),
           LoadKept(q, fs, m)
    PROVE  LoadKept(q, hs, n)
<1> SUFFICES ASSUME NEW gs \in Reads(hs) PROVE IsPrefix(q, Loaded(gs, n))
  BY DEF LoadKept
<1>1. PICK g \in Reads(fs) : \A f \in Names \ S : g[f].ops = gs[f].ops
  BY DEF Covers
<1>2. g \in Files /\ gs \in Files
  BY DEF Reads
<1>3. Base(m.base) \in Names /\ \A i \in 1..Len(m.incr) : Incr(m.incr[i]) \in Names
  BY ManifestFields, NameFacts
<1>4. g[Base(m.base)].ops = gs[Base(m.base)].ops
  BY <1>1, <1>3
<1>5. \A i \in 1..Len(m.incr) : g[Incr(m.incr[i])].ops = gs[Incr(m.incr[i])].ops
  BY <1>1, <1>3
<1>6. Loaded(g, m) = Loaded(gs, n)
  BY <1>2, <1>4, <1>5, LoadedSame
<1> QED
  BY <1>1, <1>6 DEF LoadKept

(* The same for the snapshot and the file after it. *)
LEMMA SnapKeptStep ==
    ASSUME NEW fs \in Files, NEW hs \in Files, NEW q, NEW s, NEW S, NEW d \in Names \ S,
           Covers(fs, hs, S),
           SnapKept(q, fs, s, d)
    PROVE  SnapKept(q, hs, s, d)
<1> SUFFICES ASSUME NEW gs \in Reads(hs) PROVE IsPrefix(q, Cat(s, gs[d].ops))
  BY DEF SnapKept
<1>1. PICK g \in Reads(fs) : \A f \in Names \ S : g[f].ops = gs[f].ops
  BY DEF Covers
<1>2. g[d].ops = gs[d].ops
  BY <1>1
<1> QED
  BY <1>1, <1>2, Zenon DEF SnapKept

-----------------------------------------------------------------------------
(* The actions *)

(* The types of what Kept is about. *)
LEMMA KeptBasics ==
    ASSUME AInv
    PROVE  /\ promised \in 0..Len(db) /\ Pre(db, promised) \in Ops
           /\ \A f \in Names : files[f].synced <= Len(files[f].ops) /\ files[f].synced \in Nat
           /\ child.on /\ state # "OFF" /\ pc # "collect" => fd \in Names
<1>1. promised \in 0..Len(db) /\ \A f \in Names : files[f].synced <= Len(files[f].ops)
  BY DEF AInv, Types, Offsets
<1>2. Pre(db, promised) \in Ops
  BY <1>1, Basics, PreFacts
<1>3. \A f \in Names : files[f].synced \in Nat
  BY Basics, FileFields
<1>4. child.on /\ state # "OFF" /\ pc # "collect" => fd \in Names
  BY Basics, LastListed DEF AInv, Descriptor, Present, Types
<1> QED
  BY <1>1, <1>2, <1>3, <1>4

(* Writing more to the open file, and syncing it, loses nothing. *)
LEMMA KeptGrown ==
    ASSUME AInv, Kept, ~doubled, pc = "loop", NEW hs \in Files, NEW x \in Ops,
           \A f \in Names : files[f].synced <= hs[f].synced,
           \A f \in Names : f # fd => hs[f].ops = files[f].ops,
           fd \in Names => hs[fd].ops = Cat(files[fd].ops, x)
    PROVE  /\ LoadKept(Pre(db, promised), hs, dm)
           /\ child.on /\ state # "OFF" => SnapKept(Pre(db, promised), hs, child.snap, fd)
<1> DEFINE q == Pre(db, promised)
<1>1. /\ q \in Ops /\ files \in Files /\ dm \in Manifest /\ child.snap \in Ops
      /\ \A f \in Names : files[f].synced <= Len(files[f].ops)
      /\ child.on /\ state # "OFF" => fd \in Names
  BY Basics, KeptBasics
<1>2. LoadKept(q, files, dm) /\ (child.on /\ state # "OFF" => SnapKept(q, files, child.snap, fd))
  BY DEF Kept
<1> HIDE DEF q
<1>3. CASE fd \notin Names
  <2>1. Covers(files, hs, {})
    <3>1. \A f \in Names \ {} : hs[f].ops = files[f].ops /\ files[f].synced <= hs[f].synced
      BY <1>3
    <3> QED
      BY <1>1, <3>1, ReadsStep
  <2>2. LoadKept(q, hs, dm)
    <3>1. Base(dm.base) \notin {} /\ \A i \in 1..Len(dm.incr) : Incr(dm.incr[i]) \notin {}
      OBVIOUS
    <3> QED
      BY <1>1, <1>2, <2>1, <3>1, LoadKeptStep
  <2> QED
    BY <1>1, <1>3, <2>2 DEF q
<1>4. CASE fd \in Names
  <2>1. ASSUME NEW gs \in Reads(hs)
        PROVE  \E g \in Reads(files), y \in Ops : /\ \A f \in Names : f # fd => g[f].ops = gs[f].ops
                                                  /\ gs[fd].ops = Cat(g[fd].ops, y)
    <3>1. \A f \in Names : files[f].synced <= Len(files[f].ops) /\ files[f].synced <= hs[f].synced
      BY <1>1
    <3> QED
      BY <1>1, <1>4, <3>1, ReadsGrown
  <2>2. ASSUME NEW gs \in Reads(hs) PROVE IsPrefix(q, Loaded(gs, dm))
    <3>1. PICK g \in Reads(files), y \in Ops : /\ \A f \in Names : f # fd => g[f].ops = gs[f].ops
                                               /\ gs[fd].ops = Cat(g[fd].ops, y)
      BY <2>1
    <3>2. g \in Files /\ gs \in Files
      BY DEF Reads
    <3> DEFINE l == Loaded(g, dm)
    <3>3. IsPrefix(q, l) /\ l \in Ops
      BY <1>1, <1>2, <3>2, LoadedType DEF LoadKept
    <3>4. Loaded(gs, dm) = Cat(l, y) \/ Loaded(gs, dm) = l
      BY <3>1, <3>2, LoadedMore
    <3> HIDE DEF l
    <3>5. IsPrefix(q, Cat(l, y))
      BY <1>1, <3>3, PrefixLaws
    <3> QED
      BY <3>3, <3>4, <3>5, Zenon
  <2>3. ASSUME child.on, state # "OFF", NEW gs \in Reads(hs)
        PROVE  IsPrefix(q, Cat(child.snap, gs[fd].ops))
    <3>1. PICK g \in Reads(files), y \in Ops : gs[fd].ops = Cat(g[fd].ops, y)
      BY <2>1
    <3>2. g \in Files
      BY DEF Reads
    <3> DEFINE s == child.snap
               a == g[fd].ops
    <3>3. a \in Ops /\ s \in Ops
      BY <1>1, <1>4, <3>2, FileFields
    <3>4. IsPrefix(q, Cat(s, a))
      BY <1>2, <2>3 DEF SnapKept
    <3> HIDE DEF s, a
    <3>5. Cat(s, a) \in Ops /\ Cat(s, Cat(a, y)) = Cat(Cat(s, a), y)
      BY <3>3, OpsCat, OpsAssoc
    <3>6. IsPrefix(q, Cat(Cat(s, a), y))
      BY <1>1, <3>4, <3>5, PrefixLaws
    <3>7. gs[fd].ops = Cat(a, y)
      BY <3>1 DEF a
    <3> QED
      BY <3>5, <3>6, <3>7, Zenon DEF s
  <2> QED
    BY <2>2, <2>3 DEF LoadKept, SnapKept, q
<1> QED
  BY <1>3, <1>4

(* At first nothing is promised. *)
LEMMA InitKept == Init => Kept
<1> SUFFICES ASSUME Init PROVE Kept
  OBVIOUS
<1>1. db = <<>> /\ promised = 0 /\ ~child.on /\ dm \in Manifest /\ <<>> \in Ops
  BY InitAInv, Basics, EmptyOps DEF Init, NoChild
<1>2. ASSUME NEW gs \in Reads(files) PROVE IsPrefix(Pre(db, promised), Loaded(gs, dm))
  <2>1. Loaded(gs, dm) \in Ops
    BY <1>1, LoadedType DEF Reads
  <2> QED
    BY <1>1, <2>1, PrefixLaws
<1> QED
  BY <1>1, <1>2 DEF Kept, LoadKept

(* Steps that leave the listed files and the writes alone. *)
LEMMA KeptQuiet ==
    ASSUME AInv, AInv', Kept, UNCHANGED <<db, promised, files, doubled>>,
           dm'.base = dm.base, dm'.incr = dm.incr,
           child'.on /\ pc' # "collect" => pc # "collect" /\ UNCHANGED <<child, state, fd>>
    PROVE  Kept'
<1>1. dm \in Manifest /\ dm' \in Manifest /\ files \in Files
  BY Basics DEF AInv, Types
<1>2. ASSUME NEW gs \in Reads(files) PROVE Loaded(gs, dm') = Loaded(gs, dm)
  <2>1. gs \in Files
    BY DEF Reads
  <2> QED
    BY <1>1, <2>1, LoadedSame
<1> QED
  BY <1>2 DEF Kept, LoadKept

(* A sync leaves less that can be lost. *)
LEMMA KeptBio ==
    ASSUME AInv, AInv', Kept, Bio
    PROVE  Kept'
<1>1. /\ UNCHANGED <<db, promised, dm, child, pc, state, fd, doubled>>
      /\ files' = files \/ files' = Sync(files, Head(jobs).file)
  BY DEF Bio, data, rewrite
<1>2. CASE files' = files
  BY <1>1, <1>2, KeptQuiet
<1>3. CASE files' = Sync(files, Head(jobs).file)
  <2>1. /\ files \in Files /\ files' \in Files /\ dm \in Manifest
        /\ \A f \in Names : files[f].synced <= Len(files[f].ops) /\ files[f].synced \in Nat
        /\ child.on /\ state # "OFF" /\ pc # "collect" => fd \in Names
        /\ \A f \in Names : Len(files[f].ops) \in Nat
    BY <1>1, <1>3, Basics, KeptBasics, SyncFacts
  <2>2. \A f \in Names \ {} : files'[f].ops = files[f].ops /\ files[f].synced <= files'[f].synced
    BY <1>3, <2>1, SyncFacts
  <2>3. Covers(files, files', {})
    BY <2>1, <2>2, ReadsStep
  <2> DEFINE q == Pre(db, promised)
  <2> HIDE DEF q
  <2>4. Base(dm.base) \notin {} /\ \A i \in 1..Len(dm.incr) : Incr(dm.incr[i]) \notin {}
    OBVIOUS
  <2>5. LoadKept(q, files, dm) => LoadKept(q, files', dm)
    BY <2>1, <2>3, <2>4, LoadKeptStep
  <2>6. \A s : fd \in Names /\ SnapKept(q, files, s, fd) => SnapKept(q, files', s, fd)
    BY <2>1, <2>3, SnapKeptStep
  <2> QED
    BY <1>1, <2>1, <2>5, <2>6 DEF Kept, q
<1> QED
  BY <1>1, <1>2, <1>3

(* A new write is not yet promised. *)
LEMMA KeptWrite ==
    ASSUME AInv, AInv', Kept, Write
    PROVE  Kept'
<1> DEFINE w == last'
<1>1. /\ UNCHANGED <<promised, files, dm, child, pc, state, fd, doubled>> /\ w \in 1..MaxWrite
  BY AofAssumption DEF Write, disk, rewrite, AInv, Types
<1>2. db' = Plus(db, w)
  BY Zenon DEF Write, Plus
<1> HIDE DEF w
<1>3. Pre(Plus(db, w), promised) = Pre(db, promised)
  BY <1>1, Basics, KeptBasics, PrePlus
<1>4. Pre(db', promised') = Pre(db, promised)
  BY <1>1, <1>2, <1>3
<1> QED
  BY <1>1, <1>4 DEF Kept

(* The snapshot is the whole dataset. *)
LEMMA KeptFork ==
    ASSUME AInv, AInv', Kept, Fork
    PROVE  Kept'
<1> DEFINE q == Pre(db, promised)
<1>1. /\ UNCHANGED <<db, promised, files, dm, state, fd, doubled>> /\ child'.snap = db
      /\ q \in Ops /\ db \in Ops /\ IsPrefix(q, db)
  BY Basics, KeptBasics, PreFacts DEF Fork, data, disk
<1>2. ASSUME state # "OFF", NEW gs \in Reads(files), child'.on, pc' # "collect"
      PROVE  IsPrefix(q, Cat(db, gs[fd].ops))
  <2>1. fd \in Names /\ gs \in Files
    BY <1>2, LastListed, NameFacts DEF Reads, AInv, Types, Descriptor, Fork
  <2> DEFINE a == gs[fd].ops
  <2>2. a \in Ops
    BY <2>1, FileFields
  <2> HIDE DEF a, q
  <2>3. IsPrefix(q, Cat(db, a))
    BY <1>1, <2>2, PrefixLaws
  <2> QED
    BY <2>3 DEF a
<1> QED
  BY <1>1, <1>2 DEF Kept, SnapKept

-----------------------------------------------------------------------------
(* Steps that change only files S that are not listed. *)
Elsewhere(S) ==
    /\ Base(am.base) \notin S /\ \A i \in 1..Len(am.incr) : Incr(am.incr[i]) \notin S
    /\ \A f \in Names \ S : files'[f] = files[f]
    /\ UNCHANGED <<db, promised, doubled, dm>>

(* What is loaded does not depend on files that are not listed. *)
LEMMA LoadKeptElsewhere ==
    ASSUME AInv, AInv', Kept, ~NewListed, NEW S, Elsewhere(S), ~doubled
    PROVE  LoadKept(Pre(db', promised'), files', dm') /\ Covers(files, files', S)
<1>1. /\ files \in Files /\ files' \in Files /\ dm \in Manifest /\ UNCHANGED <<db, promised, dm>>
      /\ \A f \in Names : files[f].synced <= Len(files[f].ops) /\ files[f].synced \in Nat
  BY Basics, KeptBasics DEF AInv, Types, Files, Elsewhere
<1>2. \A f \in Names \ S : files'[f].ops = files[f].ops /\ files[f].synced <= files'[f].synced
  BY <1>1 DEF Elsewhere
<1>3. Covers(files, files', S)
  BY <1>1, <1>2, ReadsStep
<1>4. Base(dm.base) \notin S /\ \A i \in 1..Len(dm.incr) : Incr(dm.incr[i]) \notin S
  BY SameListed DEF Elsewhere
<1> DEFINE q == Pre(db, promised)
<1>5. LoadKept(q, files, dm)
  BY DEF Kept
<1> HIDE DEF q
<1>6. LoadKept(q, files', dm)
  BY <1>1, <1>3, <1>4, <1>5, LoadKeptStep
<1> QED
  BY <1>1, <1>3, <1>6 DEF q

(* Nor does the rewrite, if the open file is not one of them. *)
LEMMA KeptElsewhere ==
    ASSUME AInv, AInv', Kept, ~NewListed, NEW S, Elsewhere(S),
           child'.on /\ pc' # "collect" =>
              pc # "collect" /\ UNCHANGED <<child, state, fd>> /\ (state # "OFF" => fd \notin S)
    PROVE  Kept'
<1> SUFFICES ASSUME ~doubled' PROVE Kept'
  BY DEF Kept
<1>1. ~doubled /\ UNCHANGED <<db, promised>>
  BY DEF Elsewhere
<1>2. LoadKept(Pre(db', promised'), files', dm') /\ Covers(files, files', S)
  BY <1>1, LoadKeptElsewhere
<1>3. ASSUME child'.on, pc' # "collect"
      PROVE  IF state' = "OFF" THEN IsPrefix(Pre(db', promised'), child'.snap)
                               ELSE SnapKept(Pre(db', promised'), files', child'.snap, fd')
  <2>1. child.on /\ pc # "collect" /\ UNCHANGED <<child, state, fd>> /\ (state # "OFF" => fd \notin S)
    BY <1>3
  <2> DEFINE q == Pre(db, promised)
             s == child.snap
  <2>2. IF state = "OFF" THEN IsPrefix(q, s) ELSE SnapKept(q, files, s, fd)
    BY <1>1, <2>1 DEF Kept
  <2>3. files \in Files /\ files' \in Files /\ (state # "OFF" => fd \in Names)
    BY <2>1, Basics, KeptBasics DEF AInv, Types, Files
  <2> HIDE DEF q, s
  <2>4. CASE state = "OFF"
    BY <1>1, <2>1, <2>2, <2>4 DEF q, s
  <2>5. CASE state # "OFF"
    <3>1. fd \in Names \ S /\ SnapKept(q, files, s, fd)
      BY <2>1, <2>2, <2>3, <2>5
    <3>2. SnapKept(q, files', s, fd)
      BY <1>2, <2>3, <3>1, SnapKeptStep
    <3> QED
      BY <1>1, <2>1, <2>5, <3>2 DEF q, s
  <2> QED
    BY <2>4, <2>5
<1> QED
  BY <1>2, <1>3 DEF Kept

(* The new INCR file is not yet listed. *)
LEMMA KeptOpenIncr ==
    ASSUME AInv, AInv', Kept, OpenIncr
    PROVE  Kept'
<1> DEFINE S == {NewIncr}
<1>1. /\ UNCHANGED <<db, promised, doubled, dm, child>> /\ pc = "open" /\ ~child.on /\ ~NewListed
      /\ files' = [files EXCEPT ![NewIncr] = File(<<>>, 0)]
  BY DEF OpenIncr, data, AInv, Control, Opening, NewListed
<1>2. \A f \in Names \ S : files'[f] = files[f]
  BY <1>1, Basics DEF Files
<1>3. Base(am.base) \notin S /\ \A i \in 1..Len(am.incr) : Incr(am.incr[i]) \notin S
  <2>1. \A i \in 1..Len(am.incr) : am.incr[i] # am.iseq + 1
    BY Basics
  <2> QED
    BY <2>1, NameFacts DEF NewIncr
<1> HIDE DEF S
<1>4. Elsewhere(S)
  BY <1>1, <1>2, <1>3 DEF Elsewhere
<1> QED
  BY <1>1, <1>4, KeptElsewhere

(* The new BASE is not yet listed. *)
LEMMA KeptRenameBase ==
    ASSUME AInv, AInv', Kept, RenameBase
    PROVE  Kept'
<1> DEFINE S == {Base(am.bseq + 1)}
<1>1. /\ UNCHANGED <<db, promised, doubled, dm, child, state, fd>> /\ pc = "renameBase" /\ ~NewListed
      /\ files' = [files EXCEPT ![Base(am.bseq + 1)] = SyncFile(File(child.snap, 0))]
  BY DEF RenameBase, data, NewListed
<1>2. \A f \in Names \ S : files'[f] = files[f]
  BY <1>1, Basics DEF Files
<1>3. Base(am.base) \notin S /\ \A i \in 1..Len(am.incr) : Incr(am.incr[i]) \notin S
  BY Basics, NameFacts
<1>4. child.on /\ state # "OFF" => fd \notin S
  BY <1>1, NameFacts DEF AInv, Descriptor, Types
<1> HIDE DEF S
<1>5. Elsewhere(S)
  BY <1>1, <1>2, <1>3 DEF Elsewhere
<1> QED
  BY <1>1, <1>4, <1>5, KeptElsewhere

(* Files of a rewrite that failed are not listed. *)
LEMMA KeptDoneFails ==
    ASSUME AInv, AInv', Kept, DoneFails, SoundFaults
    PROVE  Kept'
<1> DEFINE base == IF pc \in {"renameIncr", "listBase"} THEN {Base(am.bseq + 1)} ELSE {}
           incr == IF pc = "listBase" /\ state = "WAIT" THEN {Incr(am.iseq + 1)} ELSE {}
           temp == IF state = "WAIT" THEN {Temp} ELSE {}
           S == base \cup incr \cup temp
<1>1. /\ UNCHANGED <<db, promised, doubled, dm>> /\ ~child'.on
      /\ files' = [f \in Names |-> IF f \in S THEN NoFile ELSE files[f]]
      /\ pc \in {"loop", "renameBase", "renameIncr", "listBase"}
  BY DEF DoneFails, NotListed, Fault, SoundFaults, data, NoChild
<1>2. Base(am.base) \notin S /\ \A i \in 1..Len(am.incr) : Incr(am.incr[i]) \notin S
  <2>1. am.base # am.bseq + 1 /\ \A i \in 1..Len(am.incr) : am.incr[i] # am.iseq + 1
    BY Basics
  <2> QED
    BY <2>1, NameFacts
<1> HIDE DEF S
<1>3. ~NewListed
  BY <1>1 DEF NewListed
<1>4. Elsewhere(S)
  BY <1>1, <1>2 DEF Elsewhere
<1> QED
  BY <1>1, <1>3, <1>4, KeptElsewhere

(* HISTORY files are not listed. *)
LEMMA KeptCollect ==
    ASSUME AInv, AInv', Kept, Collect
    PROVE  Kept'
<1>1. PICK f \in am.hist : files' = [files EXCEPT ![f] = NoFile]
  BY DEF Collect
<1>2. /\ pc = "collect" /\ pc' = "collect" /\ ~NewListed /\ f \in Old(am) /\ f \in Names
      /\ UNCHANGED <<db, promised, doubled, dm>>
  BY ManifestFields DEF Collect, data, rewrite, NewListed, AInv, Manifests, Types
<1>3. f # Base(am.base) /\ \A i \in 1..Len(am.incr) : Incr(am.incr[i]) # f
  <2>1. CASE \E i \in 1..(am.base - 1) : f = Base(i)
    BY <2>1, Basics, NameFacts
  <2>2. CASE \E k \in 1..am.iseq : f = Incr(k) /\ \A j \in 1..Len(am.incr) : am.incr[j] # k
    BY <2>2, Basics, NameFacts
  <2> QED
    BY <1>2, <2>1, <2>2 DEF Old
<1>4. Elsewhere({f})
  BY <1>1, <1>2, <1>3, Basics DEF Elsewhere, Files
<1> QED
  BY <1>2, <1>4, KeptElsewhere

(* The file keeps its content under its new name. *)
LEMMA KeptRenameIncr ==
    ASSUME AInv, AInv', Kept, RenameIncr
    PROVE  Kept'
<1> DEFINE new == Incr(am.iseq + 1)
           S == {new, Temp}
<1>1. /\ pc = "renameIncr" /\ state = "WAIT" /\ fd = Temp /\ fd' = new /\ ~NewListed
      /\ UNCHANGED <<db, promised, doubled, dm, child, state>>
      /\ child.on /\ am.iseq + 1 \in 1..MaxSeq
      /\ files' = [files EXCEPT ![new] = files[Temp], ![Temp] = NoFile]
  BY Basics, AofAssumption
  DEF RenameIncr, data, AInv, Control, Room, Done, Descriptor, NewListed
<1>0. files \in Files /\ files' \in Files /\ \A f \in Names : files[f].synced <= Len(files[f].ops)
  BY Basics, KeptBasics DEF AInv, Types, Files
<1>2. /\ new \in Names /\ new # Temp /\ Temp \in Names
      /\ Base(am.base) \notin S /\ \A i \in 1..Len(am.incr) : Incr(am.incr[i]) \notin S
  <2>1. \A i \in 1..Len(am.incr) : am.incr[i] # am.iseq + 1
    BY Basics
  <2> QED
    BY <1>1, <2>1, NameFacts
<1> HIDE DEF new
<1>3. files'[new] = files[Temp] /\ \A f \in Names \ S : files'[f] = files[f]
  BY <1>0, <1>1, <1>2 DEF Files
<1>4. Elsewhere(S)
  BY <1>1, <1>2, <1>3 DEF Elsewhere
<1>5. ~doubled => LoadKept(Pre(db', promised'), files', dm')
  BY <1>1, <1>4, LoadKeptElsewhere
<1>6. ASSUME NEW gs \in Reads(files') PROVE \E g \in Reads(files) : g[Temp].ops = gs[new].ops
  <2> DEFINE g == [f \in Names |-> IF f = Temp THEN gs[new] ELSE files[f]]
  <2>1. gs \in Files
    BY DEF Reads
  <2>2. g \in Files /\ g[Temp] = gs[new] /\ \A f \in Names : f # Temp => g[f] = files[f]
    BY <1>0, <1>2, <2>1 DEF Files
  <2> HIDE DEF g
  <2>3. ASSUME NEW f \in Names
        PROVE  \E n \in 0..Len(files[f].ops) : files[f].synced <= n /\ g[f].ops = Pre(files[f].ops, n)
    <3>1. CASE f = Temp
      <4>1. PICK n \in 0..Len(files'[new].ops) : files'[new].synced <= n /\ gs[new].ops = Pre(files'[new].ops, n)
        BY <1>2 DEF Reads
      <4> QED
        BY <1>3, <2>2, <3>1, <4>1, Zenon
    <3>2. CASE f # Temp
      <4> DEFINE a == files[f].ops
      <4>1. a \in Ops /\ Len(a) \in Nat
        BY Basics
      <4>2. Pre(a, Len(a)) = a /\ Len(a) \in 0..Len(a)
        BY <4>1, PreFacts
      <4>3. g[f].ops = a /\ files[f].synced <= Len(a)
        BY <1>0, <2>2, <3>2
      <4> HIDE DEF a
      <4>4. \E n \in 0..Len(a) : files[f].synced <= n /\ g[f].ops = Pre(a, n)
        BY <4>2, <4>3
      <4> QED
        BY <4>4 DEF a
    <3> QED
      BY <3>1, <3>2
  <2> QED
    BY <2>2, <2>3 DEF Reads
<1>7. ASSUME ~doubled PROVE SnapKept(Pre(db, promised), files', child.snap, new)
  <2>1. SnapKept(Pre(db, promised), files, child.snap, Temp)
    BY <1>1, <1>7 DEF Kept
  <2>2. ASSUME NEW gs \in Reads(files')
        PROVE  IsPrefix(Pre(db, promised), Cat(child.snap, gs[new].ops))
    <3>1. PICK g \in Reads(files) : g[Temp].ops = gs[new].ops
      BY <1>6
    <3>2. IsPrefix(Pre(db, promised), Cat(child.snap, g[Temp].ops))
      BY <2>1 DEF SnapKept
    <3> QED
      BY <3>1, <3>2, Zenon
  <2> QED
    BY <2>2 DEF SnapKept
<1> QED
  BY <1>1, <1>5, <1>7 DEF Kept

-----------------------------------------------------------------------------
(* A server that has started has sent no replies. *)
LEMMA KeptStartup ==
    ASSUME AInv', Crash \/ PowerLoss
    PROVE  Kept'
<1>1. promised' = 0 /\ child' = NoChild
  BY DEF Crash, PowerLoss, Startup
<1>2. dm' \in Manifest /\ db' \in Ops
  BY DEF AInv, Types
<1>3. ASSUME NEW gs \in Reads(files') PROVE IsPrefix(Pre(db', promised'), Loaded(gs, dm'))
  <2>1. Loaded(gs, dm') \in Ops
    BY <1>2, LoadedType DEF Reads
  <2> QED
    BY <1>1, <1>2, <2>1, PrefixLaws
<1> QED
  BY <1>1, <1>3 DEF Kept, LoadKept, NoChild

(* The new file comes last. *)
LEMMA KeptListIncr ==
    ASSUME AInv, AInv', Kept, ListIncr
    PROVE  Kept'
<1> DEFINE m == WithIncr(am)
           q == Pre(db, promised)
<1>1. /\ UNCHANGED <<db, promised, files, doubled, child>> /\ pc = "listIncr" /\ ~child.on /\ ~NewListed
      /\ dm' = m /\ am.iseq < MaxSeq /\ Ordered(am) /\ am \in Manifest
  BY Basics DEF ListIncr, data, AInv, Control, Opening, NewListed, Room, Manifests
<1>2. /\ m \in Manifest /\ m.base = am.base /\ Len(m.incr) = Len(am.incr) + 1
      /\ \A i \in 1..Len(am.incr) : m.incr[i] = am.incr[i]
      /\ m.incr # <<>> /\ Last(m.incr) = am.iseq + 1
  BY <1>1, WithIncrFacts, Zenon
<1>3. q \in Ops
  BY KeptBasics
<1> HIDE DEF m, q
<1>4. ASSUME ~doubled, NEW gs \in Reads(files) PROVE IsPrefix(q, Loaded(gs, m))
  <2>1. gs \in Files
    BY DEF Reads
  <2> DEFINE f == Incr(m.incr[Len(m.incr)])
             l == Loaded(gs, am)
             y == gs[f].ops
  <2>2. Loaded(gs, m) = Cat(l, y)
    BY <1>1, <1>2, <2>1, LoadedAppend
  <2>3. f \in Names
    BY <1>2, LastListed
  <2>4. l \in Ops /\ y \in Ops
    BY <1>1, <2>1, <2>3, LoadedType, FileFields
  <2>5. IsPrefix(q, l)
    <3>1. l = Loaded(gs, dm)
      BY <1>1, <2>1, SameListed
    <3> QED
      BY <1>4, <3>1 DEF Kept, LoadKept, q
  <2> HIDE DEF l, y
  <2>6. IsPrefix(q, Cat(l, y))
    BY <1>3, <2>4, <2>5, PrefixLaws
  <2> QED
    BY <2>2, <2>6, Zenon
<1> QED
  BY <1>1, <1>4 DEF Kept, LoadKept, q

(* The snapshot is synced before it is listed. *)
LEMMA KeptListBase ==
    ASSUME AInv, AInv', Syncing, Kept, ListBase
    PROVE  Kept'
<1> DEFINE m == WithBase(am)
           q == Pre(db, promised)
<1>1. /\ pc = "listBase" /\ pc' = "collect" /\ dm' = m /\ UNCHANGED <<files, db, promised, doubled>>
      /\ child.on
  BY DEF ListBase, data, AInv, Control, Done
<1>2. /\ m.base = am.bseq + 1
      /\ IF state = "OFF" THEN m.incr = <<>> ELSE \E k \in 1..MaxSeq : fd = Incr(k) /\ m.incr = <<k>>
      /\ m \in Manifest
  BY <1>1, WithBaseFacts
<1> HIDE DEF m, q
<1>3. ASSUME ~doubled, NEW gs \in Reads(files) PROVE IsPrefix(q, Loaded(gs, m))
  <2>1. gs \in Files /\ files \in Files
    BY Basics DEF Reads
  <2> DEFINE b == Base(m.base)
             s == child.snap
  <2>2. b \in Names /\ files[b].here /\ files[b].ops = s /\ b \notin Unsynced(files)
    BY <1>1, <1>2, ManifestFields, NameFacts DEF AInv, Present, Syncing
  <2>3. gs[b].ops = s
    <3>1. ~(files[b].synced < Len(files[b].ops))
      BY <2>2 DEF Unsynced
    <3> QED
      BY <2>1, <2>2, <3>1, ReadsWhole
  <2>4. IF state = "OFF" THEN IsPrefix(q, s) ELSE IsPrefix(q, Cat(s, gs[fd].ops))
    BY <1>1, <1>3 DEF Kept, SnapKept, q
  <2> HIDE DEF s
  <2>5. CASE state = "OFF"
    <3>1. Loaded(gs, m) = gs[b].ops
      BY <1>2, <2>1, <2>5, LoadedBase
    <3> QED
      BY <2>3, <2>4, <2>5, <3>1, Zenon
  <2>6. CASE state # "OFF"
    <3>1. PICK k \in 1..MaxSeq : fd = Incr(k) /\ m.incr = <<k>>
      BY <1>2, <2>6
    <3>2. Loaded(gs, m) = Cat(gs[b].ops, gs[Incr(k)].ops)
      BY <1>2, <2>1, <3>1, OneIncr, Zenon
    <3> QED
      BY <2>3, <2>4, <2>6, <3>1, <3>2, Zenon
  <2> QED
    BY <2>5, <2>6
<1> QED
  BY <1>1, <1>3 DEF Kept, LoadKept, q

(* A flush that sends no replies. *)
LEMMA KeptFlushed ==
    ASSUME AInv, AInv', Kept, pc = "loop", NEW x \in Ops, Flushed(x),
           UNCHANGED <<db, promised, dm, fd>>, doubled => doubled',
           child'.on => UNCHANGED <<child, state>>
    PROVE  Kept'
<1> SUFFICES ASSUME ~doubled' PROVE Kept'
  BY DEF Kept
<1>1. ~doubled
  OBVIOUS
<1>2. /\ files' \in Files
      /\ \A f \in Names : files[f].synced <= files'[f].synced
      /\ \A f \in Names : f # fd => files'[f].ops = files[f].ops
      /\ fd \in Names => files'[fd].ops = Cat(files[fd].ops, x)
  BY DEF Flushed
<1>3. /\ LoadKept(Pre(db, promised), files', dm)
      /\ child.on /\ state # "OFF" => SnapKept(Pre(db, promised), files', child.snap, fd)
  BY <1>1, <1>2, KeptGrown
<1> QED
  BY <1>1, <1>3 DEF Kept

(* Beginning a rewrite flushes, *)
LEMMA KeptRewrite ==
    ASSUME AInv, AInv', Kept, Rewrite
    PROVE  Kept'
<1>1. PICK x \in Ops : Flushed(x)
  BY FlushFacts DEF Rewrite, BeginRewrite, AInv
<1>2. pc = "loop" /\ UNCHANGED <<db, promised, dm, fd, child, state>> /\ (doubled => doubled')
  BY DEF Rewrite, BeginRewrite, data, AInv, Types
<1> QED
  BY <1>1, <1>2, KeptFlushed

(* turning the AOF on kills the child and flushes, *)
LEMMA KeptStart ==
    ASSUME AInv, AInv', Kept, Start
    PROVE  Kept'
<1>1. pc = "loop" /\ UNCHANGED <<db, promised, dm, fd>>
  BY DEF Start, data
<1>2. CASE ~child.on /\ UNCHANGED <<buf, size, syncoff, jobs, pending, files, rewrite, doubled, faults>>
  BY <1>1, <1>2, KeptQuiet DEF rewrite
<1>3. CASE child' = NoChild /\ BeginRewrite
  <2>1. PICK x \in Ops : Flushed(x)
    BY <1>3, FlushFacts DEF BeginRewrite, AInv
  <2>2. ~child'.on /\ (doubled => doubled')
    BY <1>3 DEF NoChild, BeginRewrite
  <2> QED
    BY <1>1, <2>1, <2>2, KeptFlushed
<1> QED
  BY <1>2, <1>3 DEF Start

(* and turning it off writes, syncs and kills the child. *)
LEMMA KeptStop ==
    ASSUME AInv, AInv', Kept, Stop
    PROVE  Kept'
<1> SUFFICES ASSUME ~doubled' PROVE Kept'
  BY DEF Kept
<1>1. /\ pc = "loop" /\ ~child'.on /\ UNCHANGED <<db, promised, dm, doubled>>
  BY DEF Stop, data, NoChild
<1>2. PICK left \in {buf, <<>>} : files' = Sync(Extend(files, fd, left), fd)
  BY DEF Stop
<1>3. left \in Ops /\ files \in Files
  BY <1>2, Basics, EmptyOps
<1> DEFINE w == Extend(files, fd, left)
<1>4. /\ w \in Files
      /\ \A f \in Names : /\ w[f].synced = files[f].synced
                          /\ f # fd => w[f].ops = files[f].ops
      /\ fd \in Names => w[fd].ops = Cat(files[fd].ops, left)
  BY <1>3, ExtendFacts
<1>5. /\ files' \in Files
      /\ \A f \in Names : /\ files'[f].ops = w[f].ops
                          /\ f # fd => files'[f].synced = w[f].synced
      /\ fd \in Names => files'[fd].synced = Len(w[fd].ops)
  BY <1>2, <1>4, SyncFacts
<1> HIDE DEF w
<1>6. ASSUME NEW f \in Names PROVE files[f].synced <= files'[f].synced
  <2>1. files[f].synced \in Nat /\ files[f].synced <= Len(files[f].ops) /\ Len(files[f].ops) \in Nat
    BY Basics, KeptBasics
  <2>2. CASE f # fd
    BY <1>4, <1>5, <2>1, <2>2
  <2>3. CASE f = fd
    <3> DEFINE a == files[fd].ops
    <3>1. a \in Ops /\ w[fd].ops = Cat(a, left)
      BY <1>4, <2>3, Basics
    <3> HIDE DEF a
    <3>2. Len(Cat(a, left)) = Len(a) + Len(left) /\ Len(left) \in Nat
      BY <1>3, <3>1, OpsCat, OpsLen
    <3> QED
      BY <1>5, <2>1, <2>3, <3>1, <3>2 DEF a
  <2> QED
    BY <2>2, <2>3
<1>7. LoadKept(Pre(db, promised), files', dm)
  <2>1. /\ \A f \in Names : f # fd => files'[f].ops = files[f].ops
        /\ fd \in Names => files'[fd].ops = Cat(files[fd].ops, left)
    BY <1>4, <1>5
  <2> QED
    BY <1>1, <1>3, <1>5, <1>6, <2>1, KeptGrown
<1> QED
  BY <1>1, <1>7 DEF Kept

-----------------------------------------------------------------------------
(* With all listed files synced, what is read of them is their content. *)
LEMMA ListedWhole ==
    ASSUME NEW fs \in Files, NEW gs \in Reads(fs), NEW m \in Manifest,
           fs[Base(m.base)].here, Base(m.base) \notin Unsynced(fs),
           \A i \in 1..Len(m.incr) : fs[Incr(m.incr[i])].here /\ Incr(m.incr[i]) \notin Unsynced(fs)
    PROVE  Loaded(gs, m) = Loaded(fs, m)
<1>1. gs \in Files
  BY DEF Reads
<1>2. ASSUME NEW f \in Names, f \notin Unsynced(fs), fs[f].here PROVE gs[f].ops = fs[f].ops
  <2>1. ~(fs[f].synced < Len(fs[f].ops))
    BY <1>2 DEF Unsynced
  <2> QED
    BY <2>1, ReadsWhole
<1>3. Base(m.base) \in Names /\ \A i \in 1..Len(m.incr) : Incr(m.incr[i]) \in Names
  BY ManifestFields, NameFacts
<1>4. gs[Base(m.base)].ops = fs[Base(m.base)].ops
  BY <1>2, <1>3
<1>5. \A i \in 1..Len(m.incr) : gs[Incr(m.incr[i])].ops = fs[Incr(m.incr[i])].ops
  BY <1>2, <1>3
<1> QED
  BY <1>1, <1>4, <1>5, LoadedSame

(* With "always" all that is listed is synced when replies are sent. *)
LEMMA AlwaysFlushed ==
    ASSUME AInv, Syncing, pc = "loop", policy = "always", NEW force, Flush(force)
    PROVE  fd \notin Unsynced(files') /\ buf' = <<>>
<1>1. ASSUME NEW x \in Ops, NEW second \in BOOLEAN, TryFsync(x, second)
      PROVE  fd \notin Unsynced(files')
  BY <1>1, SyncsTryFsync
<1>2. buf \in Ops /\ <<>> \in Ops
  BY Basics, EmptyOps
<1>3. ASSUME UNCHANGED files, syncoff = size PROVE fd \notin Unsynced(files')
  BY <1>3 DEF Syncing, Waiting
<1>4. policy # "everysec"
  OBVIOUS
<1>5. ASSUME NEW second \in BOOLEAN, FlushNothing(second) PROVE fd \notin Unsynced(files') /\ buf' = <<>>
  BY <1>1, <1>2, <1>3, <1>5 DEF FlushNothing
<1>6. ASSUME NEW second \in BOOLEAN, FlushWrites(second) PROVE fd \notin Unsynced(files') /\ buf' = <<>>
  BY <1>1, <1>2, <1>6 DEF FlushWrites
<1>7. ~FlushPostponed /\ ~FlushError
  BY <1>4 DEF FlushPostponed, FlushError
<1> QED
  BY <1>5, <1>6, <1>7 DEF Flush

(* Replies are sent after the flush: with "always" every write is then in  *)
(* a file that is synced.                                                  *)
LEMMA KeptBeforeSleep ==
    ASSUME AInv, AInv', Syncing, Syncing', Kept, BeforeSleep
    PROVE  Kept'
<1>1. pc = "loop" /\ UNCHANGED <<policy, db, dm, fd, child, state, doubled, pc, am>>
  BY DEF BeforeSleep, rewrite
<1>2. CASE ~(state = "ON" /\ policy = "always")
  <2>1. promised' = promised
    BY <1>2 DEF BeforeSleep
  <2>2. PICK x \in Ops : Flushed(x)
    BY SleepFlushed
  <2> QED
    BY <1>1, <2>1, <2>2, KeptFlushed
<1>3. CASE state = "ON" /\ policy = "always" /\ ~doubled
  <2>1. promised' = Len(db) /\ Flush(FALSE)
    BY <1>3 DEF BeforeSleep
  <2>2. fd \notin Unsynced(files') /\ buf' = <<>>
    BY <1>1, <1>3, <2>1, AlwaysFlushed
  <2>3. /\ db' \in Ops /\ Pre(db', promised') = db' /\ IsPrefix(db', db') /\ db' = db
    BY <1>1, <2>1, Basics, PreFacts, OpsPrefix, OpsLen
  <2>4. /\ am' \in Manifest /\ fd' \notin Unsynced(files') /\ policy' = "always" /\ ~doubled'
        /\ state' = "ON" /\ pc' = "loop" /\ ~NewListed'
    BY <1>1, <1>3, <2>2, Basics DEF NewListed
  <2>5. /\ Base(am'.base) \notin Unsynced(files')
        /\ \A i \in 1..Len(am'.incr) : Incr(am'.incr[i]) \notin Unsynced(files')
    BY <2>4 DEF Syncing, Waiting
  <2>6. /\ files'[Base(am'.base)].here /\ \A i \in 1..Len(am'.incr) : files'[Incr(am'.incr[i])].here
        /\ dm'.base = am'.base /\ dm'.incr = am'.incr
    BY <2>4 DEF AInv, Present, Manifests
  <2>7. /\ Loaded(files', dm') \in Ops /\ files' \in Files /\ child'.snap \in Ops /\ dm' \in Manifest
    BY <1>1, LoadedType, Basics DEF AInv, Types, Files
  <2>12. ASSUME NEW gs \in Reads(files') PROVE Loaded(gs, dm') = Loaded(files', dm')
    BY <2>5, <2>6, <2>7, ListedWhole
  <2>8. Cat(Loaded(files', dm'), <<>>) = db'
    BY <2>2, <2>4 DEF AInv, Contents, Full
  <2>9. Loaded(files', dm') = db'
    BY <2>7, <2>8, OpsEmpty
  <2>10. LoadKept(Pre(db', promised'), files', dm')
    BY <2>3, <2>9, <2>12, Zenon DEF LoadKept
  <2>11. ASSUME child'.on, NEW gs \in Reads(files') PROVE IsPrefix(db', Cat(child'.snap, gs[fd'].ops))
    <3>1. fd' \in Names /\ files'[fd'].here
      BY <2>4, LastListed DEF AInv, Descriptor, Present
    <3>2. gs[fd'].ops = files'[fd'].ops
      <4>1. ~(files'[fd'].synced < Len(files'[fd'].ops))
        BY <2>4, <3>1 DEF Unsynced
      <4> QED
        BY <2>7, <3>1, <4>1, ReadsWhole
    <3>3. Cat(Cat(child'.snap, files'[fd'].ops), <<>>) = db'
      BY <2>2, <2>4, <2>11 DEF AInv, Contents
    <3> DEFINE s == child'.snap
               a == files'[fd'].ops
    <3>4. s \in Ops /\ a \in Ops
      BY <2>7, <3>1, FileFields
    <3>5. Cat(Cat(s, a), <<>>) = db'
      BY <3>3
    <3> HIDE DEF s, a
    <3>6. Cat(s, a) = db'
      BY <3>4, <3>5, OpsCat, OpsEmpty
    <3> QED
      BY <2>3, <3>2, <3>6, Zenon DEF s, a
  <2> QED
    BY <2>3, <2>4, <2>10, <2>11 DEF Kept, SnapKept
<1>4. CASE doubled
  BY <1>1, <1>4 DEF Kept
<1> QED
  BY <1>2, <1>3, <1>4

(* Kept is inductive, given AInv and Syncing. *)
LEMMA KeptNext ==
    ASSUME AInv, AInv', Syncing, Syncing', Kept, [Next]_vars, SoundFaults
    PROVE  Kept'
<1>1. CASE SetPolicy \/ Drain \/ Switch \/ ChildDone \/ RewriteFails \/ UNCHANGED vars
  <2>1. /\ UNCHANGED <<db, promised, files, doubled, child, dm>>
        /\ child.on => UNCHANGED <<state, fd>>
        /\ pc = "collect" => pc' = "collect"
    BY <1>1
    DEF SetPolicy, Drain, Switch, ChildDone, RewriteFails, NotListed, Fault, SoundFaults, AInv,
        Control, Opening, vars, data, buffer, thread, disk, rewrite
  <2> QED
    BY <2>1, KeptQuiet
<1>2. CASE Collected
  <2>1. /\ UNCHANGED <<db, promised, files, doubled>> /\ ~child'.on /\ dm' \in {am, dm} /\ ~NewListed
    BY <1>2 DEF Collected, data, NoChild, NewListed
  <2>2. dm'.base = dm.base /\ dm'.incr = dm.incr
    BY <2>1, SameListed
  <2> QED
    BY <2>1, <2>2, KeptQuiet
<1>3. CASE Bio \/ Write \/ Fork \/ OpenIncr \/ RenameBase \/ DoneFails \/ Collect \/ RenameIncr
  BY <1>3, KeptBio, KeptWrite, KeptFork, KeptOpenIncr, KeptRenameBase, KeptDoneFails, KeptCollect,
     KeptRenameIncr
<1>4. CASE ListIncr \/ ListBase \/ Rewrite \/ Start \/ Stop \/ BeforeSleep
  BY <1>4, KeptListIncr, KeptListBase, KeptRewrite, KeptStart, KeptStop, KeptBeforeSleep
<1>5. CASE Crash \/ PowerLoss
  BY <1>5, KeptStartup
<1> QED
  BY <1>1, <1>2, <1>3, <1>4, <1>5 DEF Next

-----------------------------------------------------------------------------
(* After a loss of power *)

(* What a loss of power leaves may be read. *)
LEMMA CutReads ==
    ASSUME NEW fs \in Files, NEW c \in Cuts(fs), \A f \in Names : fs[f].synced <= Len(fs[f].ops)
    PROVE  Cut(fs, c) \in Reads(fs) /\ DOMAIN c = Unsynced(fs)
<1>1. DOMAIN c = Unsynced(fs) /\ \A g \in Unsynced(fs) : c[g] \in fs[g].synced..Len(fs[g].ops)
  BY DEF Cuts
<1>2. ASSUME NEW f \in Names
      PROVE  \E n \in 0..Len(fs[f].ops) : fs[f].synced <= n /\ Cut(fs, c)[f].ops = Pre(fs[f].ops, n)
  <2>1. Cut(fs, c)[f] = IF f \in Unsynced(fs) THEN File(SubSeq(fs[f].ops, 1, c[f]), c[f]) ELSE fs[f]
    BY <1>1, Zenon DEF Cut
  <2> DEFINE a == fs[f].ops
  <2>2. a \in Ops /\ Len(a) \in Nat /\ fs[f].synced \in Nat /\ fs[f].synced <= Len(a)
    BY FileFields, OpsLen
  <2>3. CASE f \in Unsynced(fs)
    <3> DEFINE n == c[f]
    <3>1. n \in 0..Len(a) /\ fs[f].synced <= n
      BY <1>1, <2>2, <2>3
    <3>2. Cut(fs, c)[f] = File(Pre(a, n), n)
      BY <2>1, <2>3, Zenon DEF Pre
    <3> HIDE DEF n, a
    <3>3. Cut(fs, c)[f].ops = Pre(a, n)
      BY <3>2 DEF File
    <3> QED
      BY <3>1, <3>3 DEF a
  <2>4. CASE f \notin Unsynced(fs)
    <3>1. Pre(a, Len(a)) = a /\ Len(a) \in 0..Len(a)
      BY <2>2, PreFacts
    <3>2. Cut(fs, c)[f].ops = a
      BY <2>1, <2>4
    <3> HIDE DEF a
    <3>3. \E n \in 0..Len(a) : fs[f].synced <= n /\ Cut(fs, c)[f].ops = Pre(a, n)
      BY <2>2, <3>1, <3>2
    <3> QED
      BY <3>3 DEF a
  <2> QED
    BY <2>3, <2>4
<1>3. Cut(fs, c) \in Files
  BY CutFacts
<1> QED
  BY <1>1, <1>2, <1>3 DEF Reads

(* The BASE file never loses writes. *)
LEMMA BaseWhole ==
    ASSUME AInv, Syncing
    PROVE  Base(dm.base) \notin Unsynced(files)
<1>1. dm.base = am.base
  BY ListedOnDisk DEF AInv, Manifests
<1> QED
  BY <1>1 DEF Syncing

(* With "always" only the last file listed may lose writes. *)
LEMMA LastShort ==
    ASSUME AInv, Syncing, policy = "always"
    PROVE  /\ Base(dm.base) \notin Unsynced(files)
           /\ \A i \in 1..Len(dm.incr) : Incr(dm.incr[i]) \in Unsynced(files)
                 => i = Len(dm.incr) /\ Incr(dm.incr[i]) = fd
<1>1. dm.base = am.base /\ Len(dm.incr) \in Nat /\ Len(am.incr) \in Nat /\ am \in Manifest
  BY Basics, ListedOnDisk DEF AInv, Manifests
<1>2. Base(dm.base) \notin Unsynced(files)
  BY BaseWhole
<1>3. ASSUME NEW i \in 1..Len(dm.incr), Incr(dm.incr[i]) \in Unsynced(files)
      PROVE  i = Len(dm.incr) /\ Incr(dm.incr[i]) = fd
  <2>1. CASE i \in 1..Len(am.incr)
    <3>1. dm.incr[i] = am.incr[i]
      BY <2>1, ListedOnDisk
    <3>2. Incr(am.incr[i]) = fd
      BY <1>3, <2>1, <3>1 DEF Syncing, Waiting
    <3>3. ~NewListed
      BY <1>3, <3>1, <3>2 DEF NewListed, Syncing
    <3>4. am.incr # <<>> /\ fd = Incr(Last(am.incr))
      <4>1. am.incr[i] \in 1..am.iseq
        BY <2>1, Basics
      <4>2. fd \notin {Temp, Gone, Closed} /\ fd # Incr(am.iseq + 1)
        BY <3>2, <4>1, Basics, NameFacts
      <4> QED
        BY <4>2 DEF AInv, Descriptor, Types, Control, Opening, Done, PC
    <3>5. am.incr[i] = am.incr[Len(am.incr)] /\ Len(am.incr) \in 1..Len(am.incr)
      BY <1>1, <3>2, <3>4, LastListed, NameFacts
    <3>6. ~(i < Len(am.incr))
      <4>1. am.incr[i] \in Int
        BY <2>1, Basics
      <4> QED
        BY <2>1, <3>5, <4>1 DEF AInv, Manifests, Ordered
    <3>7. Len(dm.incr) = Len(am.incr)
      BY <3>3, ListedOnDisk
    <3> QED
      BY <1>1, <2>1, <3>1, <3>2, <3>6, <3>7
  <2>2. CASE i \notin 1..Len(am.incr)
    <3>1. NewListed /\ Incr(dm.incr[i]) = NewIncr
      BY <2>2, ListedOnDisk
    <3>2. Len(files[NewIncr].ops) = 0
      BY <3>1, EmptyOps DEF NewListed, AInv, Present
    <3>3. NewIncr \in Names /\ files[NewIncr].synced < Len(files[NewIncr].ops)
      BY <1>3, <3>1 DEF Unsynced
    <3>4. files[NewIncr].synced \in Nat
      BY <3>3, Basics, FileFields
    <3> QED
      BY <3>2, <3>3, <3>4
  <2> QED
    BY <2>1, <2>2
<1> QED
  BY <1>2, <1>3

(* A listed file that has nothing unsynced is read as it is. *)
LEMMA IncrWhole ==
    ASSUME AInv, pc # "refused", NEW gs \in Reads(files), NEW i \in 1..Len(dm.incr),
           Incr(dm.incr[i]) \notin Unsynced(files)
    PROVE  gs[Incr(dm.incr[i])].ops = files[Incr(dm.incr[i])].ops
<1>1. Incr(dm.incr[i]) \in Names /\ files \in Files
  BY Basics, ManifestFields, NameFacts
<1>2. files[Incr(dm.incr[i])].here
  BY ListedHere
<1>3. ~(files[Incr(dm.incr[i])].synced < Len(files[Incr(dm.incr[i])].ops))
  BY <1>1, <1>2 DEF Unsynced
<1> QED
  BY <1>1, <1>3, ReadsWhole

(* If no file but the last has lost writes, what is read is a first part   *)
(* of what was written.                                                    *)
LEMMA ReadPrefix ==
    ASSUME AInv, Syncing, pc # "refused", ~doubled, NEW gs \in Reads(files),
           \A i \in 1..Len(dm.incr) :
              i # Len(dm.incr) => gs[Incr(dm.incr[i])].ops = files[Incr(dm.incr[i])].ops
    PROVE  IsPrefix(Loaded(gs, dm), db)
<1>1. gs \in Files /\ files \in Files /\ dm \in Manifest /\ db \in Ops
  BY Basics DEF Reads
<1> DEFINE l == Loaded(gs, dm)
           n == Len(dm.incr)
           d == Incr(Last(dm.incr))
<1>2. l \in Ops /\ IsPrefix(Loaded(files, dm), db) /\ n \in Nat
  BY <1>1, LoadedType, LoadedPrefix, ManifestFields
<1>3. files[Base(dm.base)].here /\ Base(dm.base) \notin Unsynced(files)
  BY ListedHere, BaseWhole
<1>4. CASE n = 0
  <2>1. \A i \in 1..Len(dm.incr) : files[Incr(dm.incr[i])].here /\ Incr(dm.incr[i]) \notin Unsynced(files)
    BY <1>4
  <2>2. Loaded(gs, dm) = Loaded(files, dm)
    BY <1>1, <1>3, <2>1, ListedWhole
  <2> QED
    BY <1>2, <2>2, Zenon
<1>5. CASE n # 0
  <2>1. dm.incr # <<>> /\ d \in Names
    <3>1. dm.incr # <<>>
      BY <1>5, EmptyOps
    <3> QED
      BY <1>1, <3>1, LastListed
  <2>2. gs[Base(dm.base)].ops = files[Base(dm.base)].ops
    <3>1. Base(dm.base) \in Names
      BY <1>1, ManifestFields, NameFacts
    <3>2. ~(files[Base(dm.base)].synced < Len(files[Base(dm.base)].ops))
      BY <1>3, <3>1 DEF Unsynced
    <3> QED
      BY <1>1, <3>1, <3>2, ReadsWhole
  <2>3. \A i \in 1..(n - 1) : gs[Incr(dm.incr[i])].ops = files[Incr(dm.incr[i])].ops
    BY <1>2
  <2>4. PICK y \in Ops : files[d].ops = Cat(gs[d].ops, y)
    <3> DEFINE a == files[d].ops
    <3>1. a \in Ops
      BY <2>1, Basics
    <3>2. PICK k \in 0..Len(a) : gs[d].ops = Pre(a, k)
      BY <2>1 DEF Reads
    <3> HIDE DEF a
    <3>3. PICK y \in Ops : a = Cat(Pre(a, k), y)
      BY <3>1, PreRest
    <3>4. a = Cat(gs[d].ops, y)
      BY <3>2, <3>3
    <3> QED
      BY <3>4 DEF a
  <2> HIDE DEF l
  <2>5. Loaded(files, dm) = Cat(l, y)
    BY <1>1, <2>1, <2>2, <2>3, <2>4, LoadedExtend DEF l
  <2>6. IsPrefix(Cat(l, y), db)
    BY <1>2, <2>5, Zenon
  <2>7. IsPrefix(l, db)
    BY <1>1, <1>2, <2>6, PrefixLaws
  <2> QED
    BY <2>7 DEF l
<1> QED
  BY <1>4, <1>5

(* The invariants give PowerRecovers. *)
LEMMA PowerFacts ==
    ASSUME AInv, Syncing, Kept
    PROVE  PowerRecovers
<1> SUFFICES ASSUME pc # "refused", ~doubled, NEW c \in Cuts(files)
             PROVE  /\ IsPrefix(SubSeq(db, 1, promised), Loaded(Cut(files, c), dm))
                    /\ policy = "always" => /\ Loadable(files, dm, Short(files, c))
                                            /\ IsPrefix(Loaded(Cut(files, c), dm), db)
  BY Zenon DEF PowerRecovers
<1> DEFINE gs == Cut(files, c)
           short == Short(files, c)
<1>1. gs \in Reads(files) /\ DOMAIN c = Unsynced(files)
  BY Basics, KeptBasics, CutReads
<1> HIDE DEF gs
<1>2. IsPrefix(SubSeq(db, 1, promised), Loaded(gs, dm))
  BY <1>1, Zenon DEF Kept, LoadKept, Pre
<1>3. ASSUME policy = "always" PROVE IsPrefix(Loaded(gs, dm), db)
  <2>1. ASSUME NEW i \in 1..Len(dm.incr), i # Len(dm.incr)
        PROVE  gs[Incr(dm.incr[i])].ops = files[Incr(dm.incr[i])].ops
    <3>1. Incr(dm.incr[i]) \notin Unsynced(files)
      BY <1>3, <2>1, LastShort
    <3> QED
      BY <1>1, <3>1, IncrWhole
  <2> QED
    BY <1>1, <2>1, ReadPrefix
<1>4. ASSUME policy = "always" PROVE Loadable(files, dm, short)
  <2> DEFINE S == {f \in Names : files[f].here}
             n == Len(dm.incr)
  <2>1. Base(dm.base) \in S /\ \A i \in 1..Len(dm.incr) : Incr(dm.incr[i]) \in S
    BY ListedHere, Basics, ManifestFields, NameFacts
  <2> HIDE DEF S
  <2>2. \A i \in 1..Len(Listed(dm)) : Listed(dm)[i] \in S
    BY <2>1, Basics, ListedAll
  <2>3. short \subseteq Unsynced(files)
    BY <1>1 DEF Short
  <2> HIDE DEF short
  <2>4. /\ Len(Listed(dm)) = n + 1 /\ n \in Nat /\ Listed(dm)[1] = Base(dm.base)
        /\ \A i \in 1..n : Listed(dm)[i + 1] = Incr(dm.incr[i])
    BY Basics, ListedFacts, ManifestFields
  <2>5. ASSUME NEW i \in 1..(n + 1), Listed(dm)[i] \in short PROVE i = n + 1
    <3>1. i # 1
      BY <1>4, <2>3, <2>4, <2>5, LastShort
    <3>2. i - 1 \in 1..n /\ (i - 1) + 1 = i
      BY <2>4, <3>1
    <3>3. Listed(dm)[i] = Incr(dm.incr[i - 1])
      BY <2>4, <3>2
    <3>4. i - 1 = n
      BY <1>4, <2>3, <2>5, <3>2, <3>3, LastShort
    <3> QED
      BY <2>4, <3>4
  <2>6. \A i \in 1..Len(Listed(dm)) :
           files[Listed(dm)[i]].here /\ (Listed(dm)[i] \in short => i = Len(Listed(dm)))
    BY <2>2, <2>4, <2>5 DEF S
  <2> QED
    BY <2>6, Zenon DEF Loadable
<1> QED
  BY <1>2, <1>3, <1>4 DEF gs

(* PowerRecovers: what was answered under appendfsync always is loaded     *)
(* again after a loss of power at any point, and under that policy only    *)
(* the last file loses writes and a prefix of the dataset is loaded.       *)
THEOREM PowerSafe ==
    ASSUME SoundFaults, SyncsSucceed
    PROVE  Spec => []PowerRecovers
<1>1. AInv /\ Syncing /\ [Next]_vars => Syncing'
  BY SyncsNext
<1>2. AInv /\ AInv' /\ Syncing /\ Syncing' /\ Kept /\ [Next]_vars => Kept'
  BY KeptNext
<1>3. AInv /\ Syncing /\ Kept => PowerRecovers
  BY PowerFacts
<1> QED
  BY <1>1, <1>2, <1>3, InitSyncing, InitKept, AofInvariant, PTL DEF Spec

-----------------------------------------------------------------------------
(* The refinement of Journal *)

(* What is left of the log, with all that was promised, is what a crash of *)
(* the journal leaves.                                                     *)
LEMMA Remainder ==
    ASSUME NEW a \in Ops, NEW b \in Ops, NEW l \in Ops, NEW k \in 0..Len(b),
           Thinned(a, l), IsPrefix(l, b), IsPrefix(Pre(b, k), a)
    PROVE  Durable!Remains(a, b, k)
<1>1. Len(a) \in Nat /\ Len(b) \in Nat /\ Len(l) \in Nat /\ Pre(b, k) \in Ops /\ Len(Pre(b, k)) = k
  BY OpsLen, PreFacts
<1>2. Len(l) <= Len(b) /\ \A i \in 1..Len(l) : l[i] = b[i]
  BY PrefixLaws
<1>3. k <= Len(a) /\ \A i \in 1..k : a[i] = b[i]
  <2>1. k <= Len(a) /\ \A i \in 1..k : Pre(b, k)[i] = a[i]
    BY <1>1, PrefixLaws
  <2>2. \A i \in 1..k : Pre(b, k)[i] = b[i]
    BY PreFacts
  <2> QED
    BY <2>1, <2>2
<1>4. PICK at : Places(at, a, l)
  BY DEF Thinned
<1>5. /\ \A i \in 1..Len(a) : at[i] \in 1..Len(l) /\ a[i] = l[at[i]]
      /\ \A i, j \in 1..Len(a) : i < j => at[i] < at[j]
  BY <1>4 DEF Places
<1>6. \A i \in 1..Len(a) : at[i] >= i
  BY <1>4, PlacesLate DEF Ops
<1> DEFINE new == [i \in 1..Len(a) |-> IF i <= k THEN i ELSE at[i]]
<1>7. ASSUME NEW i \in 1..Len(a)
      PROVE  new[i] \in 1..Len(b) /\ a[i] = b[new[i]] /\ new[i] >= i /\ (i <= k => new[i] = i)
  <2>1. CASE i <= k
    BY <1>1, <1>3, <2>1
  <2>2. CASE ~(i <= k)
    <3>1. new[i] = at[i]
      BY <2>2
    <3>2. at[i] \in 1..Len(l) /\ a[i] = l[at[i]] /\ at[i] >= i
      BY <1>5, <1>6
    <3> HIDE DEF new
    <3> QED
      BY <1>1, <1>2, <2>2, <3>1, <3>2
  <2> QED
    BY <2>1, <2>2
<1>8. ASSUME NEW i \in 1..Len(a), NEW j \in 1..Len(a), i < j PROVE new[i] < new[j]
  <2>1. CASE i <= k
    <3>1. new[i] = i /\ new[j] >= j /\ new[j] \in Int
      BY <1>1, <1>7, <2>1
    <3> HIDE DEF new
    <3> QED
      BY <1>8, <3>1
  <2>2. CASE ~(i <= k)
    BY <1>5, <1>8, <2>2
  <2> QED
    BY <2>1, <2>2
<1>9. new \in [1..Len(a) -> 1..Len(b)]
  BY <1>7
<1>10. \A i \in 1..k : i \in 1..Len(a) /\ new[i] = i
  <2>1. \A i \in 1..k : i \in 1..Len(a) /\ i <= k
    BY <1>1, <1>3
  <2> HIDE DEF new
  <2> QED
    BY <1>7, <2>1
<1> HIDE DEF new
<1> QED
  BY <1>7, <1>8, <1>9, <1>10 DEF Durable!Remains

(* What is read is what was written without some of the writes. *)
LEMMA ReadThinned ==
    ASSUME NEW fs \in Files, NEW gs \in Reads(fs), NEW m \in Manifest
    PROVE  Thinned(Loaded(gs, m), Loaded(fs, m))
<1>1. gs \in Files
  BY DEF Reads
<1>2. ASSUME NEW f \in Names PROVE Thinned(gs[f].ops, fs[f].ops)
  <2> DEFINE a == fs[f].ops
             p == gs[f].ops
  <2>1. a \in Ops
    BY FileFields
  <2>2. PICK n \in 0..Len(a) : p = Pre(a, n)
    BY DEF Reads
  <2> HIDE DEF a, p
  <2>3. p \in Ops /\ Len(p) = n /\ Len(a) \in Nat /\ \A i \in 1..n : p[i] = a[i]
    BY <2>1, <2>2, PreFacts, OpsLen
  <2>4. Thinned(p, a)
    BY <2>1, <2>3, ThinnedPrefix DEF Ops
  <2> QED
    BY <2>4 DEF a, p
<1> DEFINE s == Pieces(gs, m)
           t == Pieces(fs, m)
           n == Len(m.incr)
<1>3. /\ n \in Nat /\ Base(m.base) \in Names
      /\ \A i \in 1..n : Incr(m.incr[i]) \in Names
  BY ManifestFields, NameFacts
<1>4. /\ s \in Seq(Ops) /\ Len(s) = n + 1 /\ s[1] = gs[Base(m.base)].ops
      /\ \A i \in 1..n : s[i + 1] = gs[Incr(m.incr[i])].ops
      /\ Loaded(gs, m) = FlattenSeq(s)
  BY <1>1, PiecesFacts
<1>5. /\ t \in Seq(Ops) /\ Len(t) = n + 1 /\ t[1] = fs[Base(m.base)].ops
      /\ \A i \in 1..n : t[i + 1] = fs[Incr(m.incr[i])].ops
      /\ Loaded(fs, m) = FlattenSeq(t)
  BY PiecesFacts
<1> HIDE DEF s, t
<1>6. ASSUME NEW i \in 1..Len(s) PROVE Thinned(s[i], t[i])
  <2>1. CASE i = 1
    BY <1>2, <1>3, <1>4, <1>5, <2>1
  <2>2. CASE i # 1
    <3>1. i - 1 \in 1..n /\ (i - 1) + 1 = i
      BY <1>3, <1>4, <2>2
    <3>2. s[i] = gs[Incr(m.incr[i - 1])].ops /\ t[i] = fs[Incr(m.incr[i - 1])].ops
      BY <1>4, <1>5, <3>1
    <3> QED
      BY <1>2, <1>3, <3>1, <3>2
  <2> QED
    BY <2>1, <2>2
<1>7. s # <<>>
  BY <1>3, <1>4
<1>8. Thinned(FlattenSeq(s), FlattenSeq(t))
  BY <1>4, <1>5, <1>6, <1>7, ThinnedFlatten DEF Ops
<1> QED
  BY <1>4, <1>5, <1>8, Zenon

(* What the server loads: all that was promised, and other writes in their *)
(* order.                                                                  *)
LEMMA ReadRemainder ==
    ASSUME AInv, Syncing, Kept, pc # "refused", ~doubled, NEW gs \in Reads(files)
    PROVE  Loaded(gs, dm) \in Ops /\ Durable!Remains(Loaded(gs, dm), db, promised)
<1>1. files \in Files /\ dm \in Manifest /\ gs \in Files /\ db \in Ops /\ promised \in 0..Len(db)
  BY Basics, KeptBasics DEF Reads
<1>2. Loaded(gs, dm) \in Ops /\ Loaded(files, dm) \in Ops
  BY <1>1, LoadedType
<1>3. IsPrefix(Pre(db, promised), Loaded(gs, dm))
  BY Zenon DEF Kept, LoadKept
<1>4. IsPrefix(Loaded(files, dm), db)
  BY LoadedPrefix
<1>5. Thinned(Loaded(gs, dm), Loaded(files, dm))
  BY <1>1, ReadThinned
<1> QED
  BY <1>1, <1>2, <1>3, <1>4, <1>5, Remainder

(* Files that loadAppendOnlyFiles accepts: none before the last is torn. *)
LEMMA LoadableFacts ==
    ASSUME NEW fs \in Files, NEW m \in Manifest, NEW torn
    PROVE  Loadable(fs, m, torn) <=>
              /\ fs[Base(m.base)].here /\ (Base(m.base) \in torn => Len(m.incr) = 0)
              /\ \A i \in 1..Len(m.incr) :
                    fs[Incr(m.incr[i])].here /\ (Incr(m.incr[i]) \in torn => i = Len(m.incr))
<1> DEFINE n == Len(m.incr)
           L == Listed(m)
<1>1. /\ Len(L) = n + 1 /\ n \in Nat /\ L[1] = Base(m.base)
      /\ \A i \in 1..n : L[i + 1] = Incr(m.incr[i])
  BY ListedFacts, ManifestFields
<1>2. Loadable(fs, m, torn) <=>
         \A i \in 1..Len(L) : fs[L[i]].here /\ (L[i] \in torn => i = Len(L))
  BY Zenon DEF Loadable
<1> HIDE DEF L
<1>3. ASSUME \A i \in 1..Len(L) : fs[L[i]].here /\ (L[i] \in torn => i = Len(L))
      PROVE  /\ fs[Base(m.base)].here /\ (Base(m.base) \in torn => n = 0)
             /\ \A i \in 1..n : fs[Incr(m.incr[i])].here /\ (Incr(m.incr[i]) \in torn => i = n)
  <2>1. fs[Base(m.base)].here /\ (Base(m.base) \in torn => n = 0)
    <3>1. 1 \in 1..Len(L)
      BY <1>1
    <3>2. fs[L[1]].here /\ (L[1] \in torn => 1 = Len(L))
      BY <1>3, <3>1
    <3> QED
      BY <1>1, <3>2
  <2>2. ASSUME NEW i \in 1..n PROVE fs[Incr(m.incr[i])].here /\ (Incr(m.incr[i]) \in torn => i = n)
    <3>1. i + 1 \in 1..Len(L)
      BY <1>1
    <3>2. fs[L[i + 1]].here /\ (L[i + 1] \in torn => i + 1 = Len(L))
      BY <1>3, <3>1
    <3> QED
      BY <1>1, <3>2
  <2> QED
    BY <2>1, <2>2
<1>4. ASSUME fs[Base(m.base)].here, Base(m.base) \in torn => n = 0,
             \A i \in 1..n : fs[Incr(m.incr[i])].here /\ (Incr(m.incr[i]) \in torn => i = n),
             NEW i \in 1..Len(L)
      PROVE  fs[L[i]].here /\ (L[i] \in torn => i = Len(L))
  <2>1. CASE i = 1
    BY <1>1, <1>4, <2>1
  <2>2. CASE i # 1
    <3>1. i - 1 \in 1..n /\ (i - 1) + 1 = i
      BY <1>1, <2>2
    <3>2. L[i] = Incr(m.incr[i - 1])
      BY <1>1, <3>1
    <3> QED
      BY <1>1, <1>4, <3>1, <3>2
  <2> QED
    BY <2>1, <2>2
<1> QED
  BY <1>2, <1>3, <1>4

(* A step of the journal, as the server sees it. *)
JournalStep ==
    [Durable!Next]_<<db, promised, policy = "always", pc # "refused" /\ ~doubled>>

(* A start on files that differ from those of the old server by their last *)
(* writes only.                                                            *)
LEMMA JournalStartup ==
    ASSUME AInv, Syncing, Kept, pc # "refused", ~doubled, UNCHANGED <<policy, doubled>>,
           NEW gs \in Reads(files), NEW torn, Startup(gs, torn),
           policy = "always" => Loadable(gs, dm, torn) /\ IsPrefix(Loaded(gs, dm), db)
    PROVE  JournalStep
<1>1. /\ db' = Loaded(gs, dm) /\ promised' = 0
      /\ pc' = IF Loadable(gs, dm, torn) THEN "collect" ELSE "refused"
  BY Zenon DEF Startup
<1>2. CASE Loadable(gs, dm, torn)
  <2>1. db' \in Ops /\ Durable!Remains(db', db, promised)
    BY <1>1, ReadRemainder, Zenon
  <2>2. pc' # "refused" /\ ~doubled'
    BY <1>1, <1>2
  <2>3. ASSUME policy = "always" PROVE db' = SubSeq(db, 1, Len(db'))
    <3> DEFINE l == Loaded(gs, dm)
    <3>1. l \in Ops /\ db \in Ops /\ IsPrefix(l, db)
      BY <1>1, <2>1, <2>3, Basics, Zenon
    <3> HIDE DEF l
    <3>2. Len(l) \in Nat /\ Len(l) <= Len(db) /\ Len(db) \in Nat /\ \A i \in 1..Len(l) : l[i] = db[i]
      BY <3>1, PrefixLaws, OpsLen
    <3>3. Len(l) \in 0..Len(db)
      BY <3>2
    <3>4. /\ Pre(db, Len(l)) \in Ops /\ Len(Pre(db, Len(l))) = Len(l)
          /\ \A i \in 1..Len(l) : Pre(db, Len(l))[i] = db[i]
      BY <3>1, <3>3, PreFacts
    <3>5. l = Pre(db, Len(l))
      BY <3>1, <3>2, <3>4, OpsEqual
    <3> QED
      BY <1>1, <3>5, Zenon DEF Pre, l
  <2>4. Durable!Crash
    BY <1>1, <2>1, <2>2, <2>3 DEF Durable!Crash, Ops
  <2> QED
    BY <2>4 DEF JournalStep, Durable!Next
<1>3. CASE ~Loadable(gs, dm, torn)
  <2>1. pc' = "refused" /\ policy # "always"
    BY <1>1, <1>3
  <2>2. Durable!Lose
    BY <2>1 DEF Durable!Lose
  <2> QED
    BY <2>2 DEF JournalStep, Durable!Next
<1> QED
  BY <1>2, <1>3

(* The server is killed: nothing that was written is lost, only the buffer *)
(* is.                                                                     *)
LEMMA JournalCrash ==
    ASSUME AInv, Syncing, Kept, pc # "refused", ~doubled, Crash, SyncsSucceed
    PROVE  JournalStep
<1> DEFINE gs == [f \in Names |-> SyncFile(files[f])]
<1>1. Startup(gs, {}) /\ UNCHANGED <<policy, doubled>>
  BY DEF Crash, SyncsSucceed
<1>2. ASSUME NEW f \in Names
      PROVE  SyncFile(files[f]) \in FileRec /\ SyncFile(files[f]).ops = files[f].ops
                /\ SyncFile(files[f]).here = files[f].here
  <2>1. files[f] \in FileRec /\ Len(files[f].ops) \in Nat
    BY Basics, FileFields
  <2> QED
    BY <2>1 DEF SyncFile, FileRec
<1>3. gs \in Files /\ \A f \in Names : gs[f].ops = files[f].ops /\ gs[f].here = files[f].here
  BY <1>2 DEF Files
<1> HIDE DEF gs
<1>4. gs \in Reads(files)
  <2> SUFFICES ASSUME NEW f \in Names
               PROVE  \E n \in 0..Len(files[f].ops) :
                         files[f].synced <= n /\ gs[f].ops = Pre(files[f].ops, n)
    BY <1>3 DEF Reads
  <2> DEFINE a == files[f].ops
  <2>1. a \in Ops /\ Len(a) \in Nat /\ files[f].synced <= Len(a)
    BY Basics, KeptBasics
  <2>2. Len(a) \in 0..Len(a) /\ Pre(a, Len(a)) = a
    BY <2>1, PreFacts
  <2>3. gs[f].ops = Pre(a, Len(a))
    BY <1>3, <2>2
  <2> QED
    BY <2>1, <2>2, <2>3
<1>5. /\ Base(dm.base) \in Names /\ files[Base(dm.base)].here
      /\ \A i \in 1..Len(dm.incr) : Incr(dm.incr[i]) \in Names /\ files[Incr(dm.incr[i])].here
  BY Basics, ListedHere, ManifestFields, NameFacts
<1>6. Loadable(gs, dm, {})
  <2>1. dm \in Manifest
    BY Basics
  <2> QED
    BY <1>3, <1>5, <2>1, LoadableFacts
<1>7. IsPrefix(Loaded(gs, dm), db)
  BY <1>3, <1>4, <1>5, ReadPrefix
<1> QED
  BY <1>1, <1>4, <1>6, <1>7, JournalStartup

(* The power is lost: every file may lose what is not synced. *)
LEMMA JournalPowerLoss ==
    ASSUME AInv, Syncing, Kept, pc # "refused", ~doubled, PowerLoss
    PROVE  JournalStep
<1>1. PICK c \in Cuts(files) : \E torn \in SUBSET Short(files, c) : Startup(Cut(files, c), torn)
  BY DEF PowerLoss
<1>t. PICK torn \in SUBSET Short(files, c) : Startup(Cut(files, c), torn)
  BY <1>1
<1>2. UNCHANGED <<policy, doubled>> /\ files \in Files /\ dm \in Manifest
  BY Basics DEF PowerLoss
<1> DEFINE gs == Cut(files, c)
<1>3. gs \in Reads(files) /\ DOMAIN c = Unsynced(files) /\ gs \in Files
  BY Basics, KeptBasics, CutReads DEF Reads
<1>4. \A f \in Unsynced(files) : c[f] \in files[f].synced..Len(files[f].ops)
  BY DEF Cuts
<1>5. \A f \in Names : gs[f] = IF f \in Unsynced(files) THEN File(SubSeq(files[f].ops, 1, c[f]), c[f])
                                                       ELSE files[f]
  BY <1>3, Zenon DEF Cut
<1>6. ASSUME NEW f \in Names PROVE gs[f].here = files[f].here
  <2>1. CASE f \notin Unsynced(files)
    BY <1>5, <2>1, Zenon
  <2>2. CASE f \in Unsynced(files)
    <3>1. files[f] \in FileRec /\ files[f].here
      BY <1>2, <2>2 DEF Files, Unsynced
    <3>2. files[f].here = TRUE
      BY <3>1 DEF FileRec
    <3> DEFINE x == SubSeq(files[f].ops, 1, c[f])
    <3>3. gs[f] = File(x, c[f])
      BY <1>5, <2>2, Zenon
    <3> HIDE DEF x, gs
    <3>4. gs[f].here = TRUE
      BY <3>3 DEF File
    <3> QED
      BY <3>2, <3>4
  <2> QED
    BY <2>1, <2>2
<1>7. policy = "always" => Loadable(files, dm, Short(files, c)) /\ IsPrefix(Loaded(gs, dm), db)
  BY PowerFacts, Zenon DEF PowerRecovers
<1> HIDE DEF gs
<1>8. Base(dm.base) \in Names /\ \A i \in 1..Len(dm.incr) : Incr(dm.incr[i]) \in Names
  BY <1>2, ManifestFields, NameFacts
<1>9. Loadable(files, dm, Short(files, c)) => Loadable(gs, dm, torn)
  BY <1>t, <1>2, <1>3, <1>6, <1>8, LoadableFacts
<1>10. Startup(gs, torn)
  BY <1>t DEF gs
<1> QED
  BY <1>2, <1>3, <1>7, <1>9, <1>10, JournalStartup

(* A rewrite begins: writes are left in the buffer only with everysec. *)
LEMMA JournalBegin ==
    ASSUME AInv, Syncing, pc = "loop", UNCHANGED data, BeginRewrite \/ UNCHANGED <<doubled, pc>>
    PROVE  JournalStep
<1>1. pc' # "refused" /\ UNCHANGED <<db, promised, policy>>
  BY DEF BeginRewrite, data
<1>2. CASE doubled' = doubled
  BY <1>1, <1>2 DEF JournalStep
<1>3. CASE doubled' # doubled
  <2>1. Flush(TRUE) /\ doubled' = (doubled \/ buf' # <<>>)
    BY <1>3 DEF BeginRewrite
  <2>2. doubled \in BOOLEAN
    BY DEF AInv, Types
  <2>3. ~doubled /\ doubled' /\ buf' # <<>>
    BY <1>3, <2>1, <2>2, Zenon
  <2>4. policy # "always"
    BY <2>1, <2>3, AlwaysFlushed
  <2>5. Durable!Lose
    BY <2>3, <2>4 DEF Durable!Lose
  <2> QED
    BY <2>3, <2>5 DEF JournalStep, Durable!Next
<1> QED
  BY <1>2, <1>3

(* A promise that is lost stays lost. *)
LEMMA StaysUnsound ==
    ASSUME AInv, pc = "refused" \/ doubled, [Next]_vars
    PROVE  pc' = "refused" \/ doubled'
<1>1. CASE pc = "refused"
  BY <1>1
  DEF Next, vars, data, rewrite, Write, BeforeSleep, Bio, SetPolicy, Rewrite, OpenIncr, ListIncr, Switch,
      Drain, Fork, RewriteFails, ChildDone, RenameBase, RenameIncr, ListBase, DoneFails, Collect,
      Collected, Stop, Start, Crash, PowerLoss
<1>2. CASE doubled
  BY <1>2
  DEF Next, vars, Write, BeforeSleep, Bio, SetPolicy, Rewrite, OpenIncr, ListIncr, Switch,
      Drain, Fork, RewriteFails, ChildDone, RenameBase, RenameIncr, ListBase, DoneFails, Collect,
      Collected, Stop, Start, Crash, PowerLoss, BeginRewrite
<1> QED
  BY <1>1, <1>2

(* Every step of the server is a step of the journal, or none. *)
LEMMA JournalNext ==
    ASSUME AInv, Syncing, Kept, [Next]_vars, SyncsSucceed
    PROVE  JournalStep
<1>1. CASE pc = "refused" \/ doubled
  <2>1. pc' = "refused" \/ doubled'
    BY <1>1, StaysUnsound
  <2> QED
    BY <1>1, <2>1 DEF JournalStep, Durable!Next
<1>2. CASE pc # "refused" /\ ~doubled
  <2>1. CASE Write
    <3>1. last + 1 \in 1..MaxWrite
      BY <2>1, AofAssumption DEF Write, AInv, Types
    <3>2. db' = Append(db, last + 1) /\ UNCHANGED <<promised, policy, pc, doubled>>
      BY <2>1 DEF Write, rewrite
    <3>3. Durable!Add(last + 1)
      BY <3>2 DEF Durable!Add
    <3> QED
      BY <1>2, <3>1, <3>3 DEF JournalStep, Durable!Next
  <2>2. CASE BeforeSleep
    <3>1. UNCHANGED <<db, policy, pc, doubled>> /\ (UNCHANGED promised \/ (policy = "always" /\ promised' = Len(db)))
      BY <2>2 DEF BeforeSleep, rewrite
    <3>2. Durable!Answer \/ UNCHANGED <<db, promised, policy, pc, doubled>>
      BY <3>1 DEF Durable!Answer
    <3> QED
      BY <1>2, <3>2 DEF JournalStep, Durable!Next
  <2>3. CASE SetPolicy
    <3>1. UNCHANGED <<db, promised, pc, doubled>>
      BY <2>3 DEF SetPolicy, rewrite
    <3>2. Durable!SetStrict
      BY <3>1 DEF Durable!SetStrict
    <3> QED
      BY <1>2, <3>2 DEF JournalStep, Durable!Next
  <2>4. CASE \/ Bio \/ OpenIncr \/ ListIncr \/ Switch \/ Drain \/ Fork \/ RewriteFails
             \/ ChildDone \/ RenameBase \/ RenameIncr \/ ListBase \/ DoneFails \/ Collect
             \/ Collected \/ Stop \/ UNCHANGED vars
    <3>1. UNCHANGED <<db, promised, policy, doubled>> /\ pc' # "refused"
      BY <1>2, <2>4
      DEF vars, data, rewrite, Bio, OpenIncr, ListIncr, Switch, Drain, Fork, RewriteFails, ChildDone,
          RenameBase, RenameIncr, ListBase, DoneFails, Collect, Collected, Stop
    <3> QED
      BY <1>2, <3>1 DEF JournalStep
  <2>5. CASE Rewrite \/ Start
    <3>1. pc = "loop" /\ UNCHANGED data /\ (BeginRewrite \/ UNCHANGED <<doubled, pc>>)
      BY <2>5 DEF Rewrite, Start, rewrite
    <3> QED
      BY <3>1, JournalBegin
  <2>6. CASE Crash \/ PowerLoss
    BY <1>2, <2>6, JournalCrash, JournalPowerLoss
  <2> QED
    BY <2>1, <2>2, <2>3, <2>4, <2>5, <2>6 DEF Next
<1> QED
  BY <1>1, <1>2

(* LogKept: the server with its files, rewrites, threads and crashes       *)
(* implements the journal.  Whatever is loaded after any crash holds all   *)
(* that was answered under appendfsync always, and the other writes in     *)
(* their order; under that policy it is a first part of the dataset, and   *)
(* the server always starts again.                                         *)
THEOREM ImplementsJournal ==
    ASSUME SoundFaults, SyncsSucceed
    PROVE  Spec => LogKept
<1>1. Init => Durable!Init
  BY DEF Init, Durable!Init
<1>2. AInv /\ Syncing /\ [Next]_vars => Syncing'
  BY SyncsNext
<1>3. AInv /\ AInv' /\ Syncing /\ Syncing' /\ Kept /\ [Next]_vars => Kept'
  BY KeptNext
<1>4. AInv /\ Syncing /\ Kept /\ [Next]_vars => JournalStep
  BY JournalNext
<1> QED
  BY <1>1, <1>2, <1>3, <1>4, InitSyncing, InitKept, AofInvariant, PTL
  DEF Spec, LogKept, Durable!Spec, JournalStep
=============================================================================
