--------------------------------- MODULE Aof ---------------------------------
(***************************************************************************)
(* The append only file of Redis (redis-stable/src/aof.c): a manifest that *)
(* names one BASE file, a snapshot, and the INCR files with the writes     *)
(* after it.  A child process rewrites the BASE while the server goes on   *)
(* in a new INCR; old files become HISTORY and are removed.                *)
(*                                                                         *)
(* The main thread may be killed, or the machine lose its power, between   *)
(* any two steps: pc says how far it is in a rewrite.  A write is a        *)
(* number; applying one twice is an error, as for INCR or LPUSH.           *)
(***************************************************************************)
EXTENDS Integers, Sequences, SequencesExt

CONSTANTS
    Policies,      \* values of appendfsync, out of "always" and "everysec"
    MaxWrite,      \* bound: writes ever made
    MaxSeq,        \* bound: sequence numbers of files
    MaxFaults,     \* bound: crashes, and calls that fail
    MayFail,       \* the calls that may fail
    WritesBack     \* whether the system has written its page cache back
                   \* before a server that was killed starts again

Calls == {"write", "fsync", "open", "manifest", "directory", "fork", "forkAtStart",
          "child", "rename"}

ASSUME AofAssumption ==
    /\ Policies \subseteq {"always", "everysec"}
    /\ MaxWrite \in Nat /\ MaxSeq \in Nat \ {0} /\ MaxFaults \in Nat
    /\ MayFail \subseteq Calls /\ WritesBack \in BOOLEAN

VARIABLES
    policy,    \* aof_fsync
    db,        \* the dataset: the writes applied, in order
    last,      \* the last write made
    promised,  \* history: writes of db answered while appendfsync was always
    buf,       \* aof_buf
    wstatus,   \* aof_last_write_status
    bstatus,   \* aof_bio_fsync_status
    state,     \* aof_state
    fd,        \* the file aof_fd is open on
    files,     \* name -> content on disk
    dm, am,    \* the manifest on disk and in memory
    child,     \* the dataset the rewriting child writes out
    pc,        \* where the main thread is
    starting,  \* whether it is in startAppendOnly
    size,      \* aof_last_incr_size
    syncoff,   \* aof_last_incr_fsync_offset
    jobs,      \* the queue of the fsync thread (bio.c)
    pending,   \* fsynced_reploff_pending
    fsynced,   \* fsynced_reploff
    doubled,   \* history: a rewrite began with writes left in the buffer
    faults     \* history: number of faults

data    == <<policy, db, last, promised>>
buffer  == <<buf, wstatus, size, syncoff>>
thread  == <<jobs, pending, bstatus>>
disk    == <<files, dm>>
rewrite == <<child, pc, starting>>
vars == <<data, buffer, thread, disk, rewrite, am, state, fd, fsynced, doubled, faults>>

Base(i) == <<"base", i>>
Incr(i) == <<"incr", i>>
Temp    == <<"temp", 0>>      \* the INCR file of AOF_WAIT_REWRITE
Gone    == <<"gone", 0>>      \* open, but no longer in the directory
Closed  == <<"none", 0>>
Names   == {Base(i) : i \in 1..MaxSeq} \cup {Incr(i) : i \in 1..MaxSeq} \cup {Temp}

(* A file: its writes, and how many of them are certain to be on the disk. *)
NoFile == [here |-> FALSE, ops |-> <<>>, synced |-> 0]
File(ops, n) == [here |-> TRUE, ops |-> ops, synced |-> n]

(* base, incr : names listed;  hist : HISTORY files;  bseq, iseq : the     *)
(* numbers used last.                                                      *)
Manifest == [base : 1..MaxSeq, incr : Seq(1..MaxSeq), hist : SUBSET Names,
             bseq : 1..MaxSeq, iseq : 1..MaxSeq]

NoChild == [on |-> FALSE, snap |-> <<>>]

(* aofOpenIfNeededOnServerStart in an empty directory. *)
Init ==
    /\ policy \in Policies
    /\ db = <<>> /\ last = 0 /\ promised = 0
    /\ buf = <<>> /\ wstatus = "ok" /\ bstatus = "ok"
    /\ state = "ON" /\ fd = Incr(1)
    /\ files = [f \in Names |-> IF f \in {Base(1), Incr(1)} THEN File(<<>>, 0) ELSE NoFile]
    /\ dm = [base |-> 1, incr |-> <<1>>, hist |-> {}, bseq |-> 1, iseq |-> 1]
    /\ am = dm
    /\ child = NoChild
    /\ pc = "loop" /\ starting = FALSE
    /\ size = 0 /\ syncoff = 0
    /\ jobs = <<>> /\ pending = 0 /\ fsynced = 0
    /\ doubled = FALSE /\ faults = 0

(* A call that fails. *)
Fault(call) == call \in MayFail /\ faults < MaxFaults /\ faults' = faults + 1

(* persistAofManifest fails: before the new manifest m has its name, or    *)
(* after it, when the directory is synced.                                 *)
NotListed(m) ==
    /\ Fault("manifest")
    /\ dm' \in {dm} \cup (IF "directory" \in MayFail THEN {m} ELSE {})

-----------------------------------------------------------------------------
(* flushAppendOnlyFile *)

SyncFile(f) == [f EXCEPT !.synced = Len(f.ops)]
Sync(fs, f) == IF f \in Names THEN [fs EXCEPT ![f] = SyncFile(@)] ELSE fs
Extend(fs, f, ops) == IF f \in Names THEN [fs EXCEPT ![f].ops = @ \o ops] ELSE fs

FsyncInProgress == \E i \in 1..Len(jobs) : jobs[i].kind = "fsync"

(* Mutant: what was written counts as synced whether or not it is. *)
SyncedAnyway(ops, second) ==
    /\ size' = size + Len(ops) /\ syncoff' = size'
    /\ files' = Extend(files, fd, ops)
    /\ UNCHANGED <<jobs, pending>>

(* The end of a flush that has written ops to the file (try_fsync): at     *)
(* once, or by the thread when a second has passed.                        *)
TryFsync(ops, second) ==
    LET written == Extend(files, fd, ops)
        newsize == size + Len(ops)
        now     == policy = "always"
        later   == policy = "everysec" /\ second /\ ~FsyncInProgress
    IN  /\ size' = newsize
        /\ syncoff' = IF now \/ later THEN newsize ELSE syncoff
        /\ files' = IF now THEN Sync(written, fd) ELSE written
        /\ pending' = IF now THEN Len(db) ELSE pending
        /\ jobs' = IF later THEN Append(jobs, [file |-> fd, off |-> Len(db), kind |-> "fsync"])
                            ELSE jobs

(* Nothing to write.  What was written may have to be synced; if it need   *)
(* not, or not yet, all is taken to be on the disk.                        *)
FlushNothing(second) ==
    LET due == syncoff # size /\ (policy = "always" \/ second) IN
    /\ buf = <<>>
    /\ \/ /\ due /\ (policy = "always" \/ ~FsyncInProgress)
          /\ TryFsync(<<>>, second)
       \/ /\ due /\ policy = "everysec" /\ FsyncInProgress
          /\ UNCHANGED <<files, size, syncoff, jobs, pending>>
       \/ /\ ~due
          /\ pending' = Len(db)
          /\ UNCHANGED <<files, size, syncoff, jobs>>
    /\ UNCHANGED <<buf, wstatus, faults>>

FlushWrites(second) ==
    /\ buf # <<>>
    /\ TryFsync(buf, second)
    /\ buf' = <<>> /\ wstatus' = "ok"
    /\ UNCHANGED faults

(* The thread is busy with a sync: the write is put off, for two seconds   *)
(* at most.                                                                *)
FlushPostponed ==
    /\ buf # <<>> /\ policy = "everysec" /\ FsyncInProgress
    /\ UNCHANGED <<buffer, files, jobs, pending, faults>>

(* write(2) fails, or is short and undone by ftruncate: with "always" the  *)
(* server exits, see Crash; else the writes stay in the buffer.            *)
FlushError ==
    /\ buf # <<>> /\ policy = "everysec"
    /\ Fault("write")
    /\ wstatus' = "err"
    /\ UNCHANGED <<buf, size, syncoff, files, jobs, pending>>

Flush(force) ==
    \/ \E second \in BOOLEAN : FlushNothing(second) \/ FlushWrites(second)
    \/ ~force /\ FlushPostponed
    \/ FlushError

-----------------------------------------------------------------------------
(* The event loop *)

(* A write command, unless writeCommandsDeniedByDiskError, and             *)
(* feedAppendOnlyFile.                                                     *)
Write ==
    /\ pc = "loop"
    /\ state # "OFF" => wstatus = "ok" /\ bstatus = "ok"
    /\ last < MaxWrite
    /\ last' = last + 1
    /\ db' = Append(db, last')
    /\ buf' = IF state = "ON" \/ (state = "WAIT" /\ child.on) THEN Append(buf, last') ELSE buf
    /\ UNCHANGED <<policy, promised, wstatus, size, syncoff, thread, disk, rewrite, am, state, fd,
                   fsynced, doubled, faults>>

(* beforeSleep: flush, take over what is synced, send the replies. *)
BeforeSleep ==
    /\ pc = "loop"
    /\ IF state = "OFF" THEN UNCHANGED <<buffer, files, jobs, pending, faults>> ELSE Flush(FALSE)
    /\ fsynced' = IF state = "ON" /\ fsynced # -1 THEN pending' ELSE fsynced
    /\ promised' = IF state = "ON" /\ policy = "always" THEN Len(db) ELSE promised
    /\ UNCHANGED <<policy, db, last, bstatus, dm, rewrite, am, state, fd, doubled>>

(* bioProcessBackgroundJobs: one job of the fsync thread. *)
Bio ==
    /\ jobs # <<>>
    /\ jobs' = Tail(jobs)
    /\ \E ok \in {TRUE} \cup (IF "fsync" \in MayFail THEN {FALSE} ELSE {}) :
        /\ files' = IF ok THEN Sync(files, Head(jobs).file) ELSE files
        /\ pending' = IF ok THEN Head(jobs).off ELSE pending
        /\ bstatus' = IF ok THEN "ok" ELSE "err"
        /\ IF ok THEN UNCHANGED faults ELSE Fault("fsync")
    /\ UNCHANGED <<data, buffer, dm, rewrite, am, state, fd, fsynced, doubled>>

(* Mutant: CONFIG SET appendfsync always does not wait for the thread. *)
NoDrain ==
    /\ pc = "loop"
    /\ \E p \in Policies \ {policy} : policy' = p
    /\ UNCHANGED <<db, last, promised, buffer, thread, disk, rewrite, am, state, fd, fsynced,
                   doubled, faults>>

(* CONFIG SET appendfsync: updateAppendFsync waits until the thread has    *)
(* nothing left to do.                                                     *)
SetPolicy ==
    /\ pc = "loop"
    /\ \E p \in Policies \ {policy} :
        /\ p = "always" => jobs = <<>>
        /\ policy' = p
    /\ UNCHANGED <<db, last, promised, buffer, thread, disk, rewrite, am, state, fd, fsynced,
                   doubled, faults>>

-----------------------------------------------------------------------------
(* rewriteAppendOnlyFileBackground *)

(* The buffer is written to the old file first.  There is no new file      *)
(* while the AOF is off (openNewIncrAofForAppend).                         *)
BeginRewrite ==
    /\ Flush(TRUE)
    /\ doubled' = (doubled \/ buf' # <<>>)
    /\ pc' = IF state' = "OFF" THEN "fork" ELSE "open"

(* BGREWRITEAOF, or serverCron. *)
Rewrite ==
    /\ pc = "loop" /\ ~child.on
    /\ am.bseq < MaxSeq /\ am.iseq < MaxSeq
    /\ UNCHANGED state
    /\ BeginRewrite
    /\ UNCHANGED <<data, bstatus, dm, child, starting, am, fd, fsynced>>

(* Mutant: the number of the file in use. *)
SameIncr == IF state = "WAIT" THEN Temp ELSE Incr(am.iseq)

(* openNewIncrAofForAppend: open(O_TRUNC), *)
NewIncr == IF state = "WAIT" THEN Temp ELSE Incr(am.iseq + 1)

OpenIncr ==
    /\ pc = "open"
    /\ files' = [files EXCEPT ![NewIncr] = File(<<>>, 0)]
    /\ pc' = IF state = "WAIT" THEN "switch" ELSE "listIncr"
    /\ UNCHANGED <<data, buffer, thread, dm, child, starting, am, state, fd, fsynced, doubled,
                   faults>>

(* the manifest with the new file, *)
WithIncr(m) == [m EXCEPT !.iseq = @ + 1, !.incr = Append(@, m.iseq + 1)]

ListIncr ==
    /\ pc = "listIncr"
    /\ dm' = WithIncr(am)
    /\ pc' = "switch"
    /\ UNCHANGED <<data, buffer, thread, files, child, starting, am, state, fd, fsynced, doubled,
                   faults>>

(* Mutant: the old file is closed and never synced. *)
CloseOnly ==
    /\ pc = "switch"
    /\ fd' = NewIncr
    /\ size' = 0 /\ syncoff' = 0
    /\ am' = IF state = "WAIT" THEN am ELSE WithIncr(am)
    /\ pc' = IF state = "WAIT" THEN "drain" ELSE "fork"
    /\ UNCHANGED <<data, buf, wstatus, thread, disk, child, starting, state, fsynced, doubled, faults>>

(* then the descriptor; the old file is synced and closed by the thread. *)
Switch ==
    /\ pc = "switch"
    /\ jobs' = IF fd = Closed THEN jobs
               ELSE Append(jobs, [file |-> fd, off |-> Len(db), kind |-> "close"])
    /\ fd' = NewIncr
    /\ size' = 0 /\ syncoff' = 0
    /\ am' = IF state = "WAIT" THEN am ELSE WithIncr(am)
    /\ pc' = IF state = "WAIT" THEN "drain" ELSE "fork"
    /\ UNCHANGED <<data, buf, wstatus, pending, bstatus, disk, child, starting, state, fsynced,
                   doubled, faults>>

(* In AOF_WAIT_REWRITE the thread's queue is drained first. *)
Drain ==
    /\ pc = "drain" /\ jobs = <<>>
    /\ pending' = Len(db) /\ fsynced' = 0
    /\ pc' = "fork"
    /\ UNCHANGED <<data, buffer, jobs, bstatus, disk, child, starting, am, state, fd, doubled,
                   faults>>

(* redisFork; startAppendOnly forgets earlier errors. *)
Fork ==
    /\ pc = "fork"
    /\ child' = [on |-> TRUE, snap |-> db]
    /\ pc' = "loop" /\ starting' = FALSE
    /\ wstatus' = IF starting THEN "ok" ELSE wstatus
    /\ bstatus' = IF starting THEN "ok" ELSE bstatus
    /\ UNCHANGED <<data, buf, size, syncoff, jobs, pending, disk, am, state, fd, fsynced, doubled,
                   faults>>

(* A call fails; startAppendOnly gives up. *)
RewriteFails ==
    /\ \/ pc = "open" /\ Fault("open") /\ UNCHANGED dm
       \/ pc = "listIncr" /\ NotListed(WithIncr(am))
       \/ pc = "fork" /\ Fault(IF starting THEN "forkAtStart" ELSE "fork") /\ UNCHANGED dm
    /\ pc' = "loop" /\ starting' = FALSE
    /\ state' = IF starting THEN "OFF" ELSE state
    /\ UNCHANGED <<data, buffer, thread, files, child, am, fd, fsynced, doubled>>

-----------------------------------------------------------------------------
(* backgroundRewriteDoneHandler *)

ChildDone ==
    /\ pc = "loop" /\ child.on
    /\ pc' = "renameBase"
    /\ UNCHANGED <<data, buffer, thread, disk, child, starting, am, state, fd, fsynced, doubled,
                   faults>>

RenameBase ==
    /\ pc = "renameBase"
    /\ files' = [files EXCEPT ![Base(am.bseq + 1)] = SyncFile(File(child.snap, 0))]
    /\ pc' = IF state = "WAIT" THEN "renameIncr" ELSE "listBase"
    /\ UNCHANGED <<data, buffer, thread, dm, child, starting, am, state, fd, fsynced, doubled,
                   faults>>

(* The open file keeps its descriptor. *)
RenameIncr ==
    LET new == Incr(am.iseq + 1)
        now(f) == IF f = Temp THEN new ELSE f
    IN  /\ pc = "renameIncr"
        /\ files' = [files EXCEPT ![new] = files[Temp], ![Temp] = NoFile]
        /\ fd' = now(fd)
        /\ jobs' = [i \in 1..Len(jobs) |-> [jobs[i] EXCEPT !.file = now(@)]]
        /\ pc' = "listBase"
        /\ UNCHANGED <<data, buffer, pending, bstatus, dm, child, starting, am, state, fsynced,
                       doubled, faults>>

(* Mutant: all INCR files become history. *)
AllRewritten(m) == m.incr

(* markRewrittenIncrAofAsHistory: all but the one the server writes to,    *)
(* which is told from aof_fd.                                              *)
Rewritten(m) == IF m.incr = <<>> \/ fd = Closed THEN m.incr ELSE Front(m.incr)

(* getNewBaseFileNameAndMarkPreAsHistory, and in AOF_WAIT_REWRITE          *)
(* getNewIncrAofName.                                                      *)
WithBase(m) ==
    LET l == IF state = "WAIT" THEN WithIncr(m) ELSE m
        old == Rewritten(l)
    IN  [l EXCEPT !.base = m.bseq + 1, !.bseq = @ + 1,
                  !.hist = @ \cup {Base(m.base)} \cup {Incr(old[i]) : i \in 1..Len(old)},
                  !.incr = SubSeq(@, Len(old) + 1, Len(@))]

ListBase ==
    /\ pc = "listBase"
    /\ dm' = WithBase(am) /\ am' = WithBase(am)
    /\ pc' = "collect"
    /\ UNCHANGED <<data, buffer, thread, files, child, starting, state, fd, fsynced, doubled,
                   faults>>

(* The child fails, or one of the handler's calls does; files that have    *)
(* got their names are removed.  What was collected for a rewrite that     *)
(* did not come about is thrown away.                                      *)
DoneFails ==
    LET base == IF pc \in {"renameIncr", "listBase"} THEN {Base(am.bseq + 1)} ELSE {}
        incr == IF pc = "listBase" /\ state = "WAIT" THEN {Incr(am.iseq + 1)} ELSE {}
        temp == IF state = "WAIT" THEN {Temp} ELSE {}
        gone == base \cup incr \cup temp
    IN  /\ child.on
        /\ \/ pc = "loop" /\ Fault("child") /\ UNCHANGED dm
           \/ pc \in {"renameBase", "renameIncr"} /\ Fault("rename") /\ UNCHANGED dm
           \/ pc = "listBase" /\ NotListed(WithBase(am))
        /\ child' = NoChild /\ pc' = "loop"
        /\ files' = [f \in Names |-> IF f \in gone THEN NoFile ELSE files[f]]
        /\ fd' = IF fd \in gone THEN Gone ELSE fd
        /\ jobs' = [i \in 1..Len(jobs) |->
                       IF jobs[i].file \in gone THEN [jobs[i] EXCEPT !.file = Gone] ELSE jobs[i]]
        /\ buf' = IF state = "WAIT" THEN <<>> ELSE buf
        /\ UNCHANGED <<data, wstatus, size, syncoff, pending, bstatus, starting, am, state, fsynced,
                       doubled>>

(* aofDelHistoryFiles: one file after the other, *)
Collect ==
    /\ pc = "collect"
    /\ \E f \in am.hist :
        /\ files' = [files EXCEPT ![f] = NoFile]
        /\ am' = [am EXCEPT !.hist = @ \ {f}]
    /\ UNCHANGED <<data, buffer, thread, dm, rewrite, state, fd, fsynced, doubled, faults>>

(* then the manifest, if that works; then the AOF is on, if it was being   *)
(* turned on.                                                              *)
Collected ==
    /\ pc = "collect" /\ am.hist = {}
    /\ \/ dm' = am /\ UNCHANGED faults
       \/ dm # am /\ Fault("manifest") /\ UNCHANGED dm
    /\ state' = IF state = "WAIT" THEN "ON" ELSE state
    /\ fsynced' = IF state = "WAIT" THEN pending ELSE fsynced
    /\ child' = NoChild /\ pc' = "loop"
    /\ UNCHANGED <<data, buffer, thread, files, starting, am, fd, doubled>>

-----------------------------------------------------------------------------
(* CONFIG SET appendonly *)

(* stopAppendOnly: flush, sync, close, kill the child.  A sync the flush   *)
(* leaves to the thread finds the file closed (EBADF).                     *)
Stop ==
    /\ pc = "loop" /\ state # "OFF"
    /\ \E left \in {buf, <<>>}, queued \in BOOLEAN :
        /\ left # buf => policy = "everysec"
        /\ IF left = buf THEN UNCHANGED faults ELSE Fault("write")
        /\ queued => policy = "everysec" /\ ~FsyncInProgress /\ (left # <<>> \/ syncoff # size)
        /\ wstatus' = IF left # buf THEN "err" ELSE IF left # <<>> THEN "ok" ELSE wstatus
        /\ files' = Sync(Extend(files, fd, left), fd)
        /\ jobs' = IF queued THEN Append(jobs, [file |-> Gone, off |-> Len(db), kind |-> "fsync"])
                             ELSE jobs
    /\ state' = "OFF" /\ fd' = Closed /\ buf' = <<>> /\ child' = NoChild
    /\ size' = 0 /\ syncoff' = 0 /\ fsynced' = -1 /\ pending' = 0
    /\ UNCHANGED <<data, bstatus, dm, pc, starting, am, doubled>>

(* startAppendOnly: a rewrite under way is of no use and killed; with      *)
(* another child at work the rewrite is left to serverCron.                *)
Start ==
    /\ pc = "loop" /\ state = "OFF"
    /\ am.bseq < MaxSeq /\ am.iseq < MaxSeq
    /\ state' = "WAIT"
    /\ \/ /\ ~child.on
          /\ wstatus' = "ok" /\ bstatus' = "ok"
          /\ UNCHANGED <<buf, size, syncoff, jobs, pending, files, rewrite, doubled, faults>>
       \/ /\ child' = NoChild
          /\ starting' = TRUE
          /\ BeginRewrite
          /\ UNCHANGED bstatus
    /\ UNCHANGED <<data, dm, am, fd, fsynced>>

-----------------------------------------------------------------------------
(* Crashes and loading *)

Listed(m) == <<Base(m.base)>> \o [i \in 1..Len(m.incr) |-> Incr(m.incr[i])]

(* loadAppendOnlyFiles: all files must be there, and only the last one may *)
(* be torn, that is, end within a command or a MULTI.                      *)
Loadable(fs, m, torn) ==
    LET l == Listed(m) IN
    \A i \in 1..Len(l) : fs[l[i]].here /\ (l[i] \in torn => i = Len(l))

Loaded(fs, m) == FlattenSeq([i \in 1..Len(Listed(m)) |-> fs[Listed(m)[i]].ops])

(* What a power loss may leave of the files. *)
Unsynced(fs) == {f \in Names : fs[f].here /\ fs[f].synced < Len(fs[f].ops)}
Cuts(fs) == {c \in [Unsynced(fs) -> 0..MaxWrite] :
                \A f \in Unsynced(fs) : c[f] \in fs[f].synced..Len(fs[f].ops)}
Cut(fs, c) == [f \in Names |-> IF f \in DOMAIN c THEN File(SubSeq(fs[f].ops, 1, c[f]), c[f])
                                                 ELSE fs[f]]

(* The files that lose writes.  Such a file is torn when it keeps some     *)
(* bytes of the next command; one that ends between two commands cannot be *)
(* told from a whole one (loadSingleAppendOnlyFile).                       *)
Short(fs, c) == {f \in DOMAIN c : c[f] < Len(fs[f].ops)}

(* The server starts again, with appendonly yes: aofLoadManifestFromDisk,  *)
(* loadDataFromDisk, aofOpenIfNeededOnServerStart, aofDelHistoryFiles.  It *)
(* writes on in the last INCR file, a new one if there is none.            *)
Startup(fs, torn) ==
    LET m == IF dm.incr = <<>> THEN WithIncr(dm) ELSE dm
        f == Incr(Last(m.incr))
        live == IF dm.incr = <<>> THEN [fs EXCEPT ![f] = File(<<>>, 0)] ELSE fs
    IN  /\ buf' = <<>> /\ child' = NoChild /\ starting' = FALSE /\ jobs' = <<>>
        /\ wstatus' = "ok" /\ bstatus' = "ok"
        /\ state' = "ON" /\ pending' = 0 /\ fsynced' = 0
        /\ db' = Loaded(fs, dm) /\ promised' = 0
        /\ files' = live
        /\ dm' = m /\ am' = m
        /\ fd' = f
        /\ size' = Len(live[f].ops) /\ syncoff' = size'
        /\ pc' = IF Loadable(fs, dm, torn) THEN "collect" ELSE "refused"   \* exit(1)

(* The process is killed, or exits because it cannot write: the system     *)
(* keeps what was written.                                                 *)
Crash ==
    /\ pc # "refused" /\ faults < MaxFaults
    /\ dm.incr = <<>> => dm.iseq < MaxSeq
    /\ faults' = faults + 1
    /\ Startup(IF WritesBack THEN [f \in Names |-> SyncFile(files[f])] ELSE files, {})
    /\ UNCHANGED <<policy, last, doubled>>

PowerLoss ==
    /\ pc # "refused" /\ faults < MaxFaults
    /\ dm.incr = <<>> => dm.iseq < MaxSeq
    /\ faults' = faults + 1
    /\ \E c \in Cuts(files) :
          \E torn \in SUBSET Short(files, c) : Startup(Cut(files, c), torn)
    /\ UNCHANGED <<policy, last, doubled>>

Next ==
    \/ Write \/ BeforeSleep \/ Bio \/ SetPolicy
    \/ Rewrite \/ OpenIncr \/ ListIncr \/ Switch \/ Drain \/ Fork \/ RewriteFails
    \/ ChildDone \/ RenameBase \/ RenameIncr \/ ListBase \/ DoneFails \/ Collect \/ Collected
    \/ Stop \/ Start
    \/ Crash \/ PowerLoss

Spec == Init /\ [][Next]_vars

-----------------------------------------------------------------------------
(* The types, and that what is counted as written to the file the server   *)
(* writes to is what the file holds.                                       *)
TypeOK ==
    /\ policy \in Policies /\ state \in {"OFF", "WAIT", "ON"}
    /\ last \in 0..MaxWrite /\ db \in Seq(1..MaxWrite) /\ buf \in Seq(1..MaxWrite)
    /\ promised \in 0..Len(db)
    /\ fd \in Names \cup {Gone, Closed}
    /\ \A f \in Names : files[f].synced \in 0..Len(files[f].ops)
    /\ dm \in Manifest /\ am \in Manifest
    /\ pc \in {"loop", "open", "listIncr", "switch", "drain", "fork",
               "renameBase", "renameIncr", "listBase", "collect", "refused"}
    /\ pending \in 0..Len(db) /\ fsynced \in -1..Len(db)
    /\ (fd \in Names /\ pc # "refused") => size = Len(files[fd].ops)

(* A server killed at any point of a flush, of a rewrite or of the removal *)
(* of old files can load what it left: with the writes still in its        *)
(* buffer, all it had; and while the AOF is off or not yet on, what it had *)
(* at some earlier time.                                                   *)
CrashRecovers ==
    pc # "refused" =>
        /\ Loadable(files, dm, {})
        /\ ~doubled =>
              IF state = "ON" THEN Loaded(files, dm) \o buf = db
                              ELSE IsPrefix(Loaded(files, dm), db)

(* The contract of appendfsync always: what clients have a reply for is    *)
(* loaded again, and nothing in another order, after a loss of power at    *)
(* any point, even if every file that loses writes is torn.                *)
PowerRecovers ==
    (pc # "refused" /\ ~doubled) =>
        \A c \in Cuts(files) :
            LET left == Loaded(Cut(files, c), dm) IN
            /\ IsPrefix(SubSeq(db, 1, promised), left)
            /\ policy = "always" => Loadable(files, dm, Short(files, c)) /\ IsPrefix(left, db)

(* The whole contract over any number of crashes, see Journal: what is     *)
(* loaded holds all that was promised, and is a first part of what the     *)
(* server had under appendfsync always.  With everysec a file before the   *)
(* last may lose its end, and the later files are loaded after the gap:    *)
(* writes of the middle are missing, but the others keep their order.  The *)
(* promise is lost only with everysec, when a file before the last is torn *)
(* and the server refuses to start, or writes have been doubled.           *)
Durable == INSTANCE Journal WITH
    Entry <- 1..MaxWrite, log <- db, strict <- (policy = "always"),
    sound <- (pc # "refused" /\ ~doubled)

LogKept == Durable!Spec

(* With nothing queued for the thread and no sync due by the offsets, all  *)
(* the server would load is on the disk: no sync is forgotten across       *)
(* postponed writes, changes of files and of the policy.                   *)
NoSyncForgotten ==
    (state = "ON" /\ pc = "loop" /\ jobs = <<>> /\ syncoff = size) =>
        \A i \in 1..Len(Listed(dm)) : Listed(dm)[i] \notin Unsynced(files)

(* flushAppendOnlyFile, "All data is fsync'd already": what WAITAOF takes  *)
(* for synced is on the disk.                                              *)
FsyncedIsDurable ==
    (state = "ON" /\ pc = "loop") =>
        \A c \in Cuts(files) : fsynced <= Len(Loaded(Cut(files, c), dm))
=============================================================================
