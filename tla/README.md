# A verification project for nyxmedia, the newsletter application

The repository is a Flask application that sells newsletters. An administrator sets up a
campaign (the code calls it a *course*), visitors register and pay at Stripe, a language
model writes the mails, and the application sends them. It keeps the state of its background
work in Redis, whose source distribution (7.4.1) is part of the tree. This directory models the
core of both in TLA+: the modules are checked with TLC on small instances, and the main safety
properties of the application, of Redis's hash tables, of its append only file and of the elections
of a cluster are proved with TLAPS for all instances. Three abstract specifications say what a part
promises as a whole, and the detailed one is proved to implement it: `Membership` (the
subscriptions), `KeySet` (a database) and `Journal` (the append only file).

The application is about 2,900 lines of Python under `src/app`, `src/config.py`,
`src/server.py` and `src/sendingmail.py`; it has no tests and no documentation, and what it
promises is said in its comments and in the pages it shows. `src/redis-stable` is some 160,000
lines of C, of which three parts are modelled, the ones on which everything stored depends:
the hash tables of a database, the append only file, and the failover of a cluster.
`src/app/static` and `src/app/webcard` are vendored assets.

## 1. The system

| Component | Where | State | Operations |
|---|---|---|---|
| registration | `auth/route.py` | table `user`; Stripe customers and checkout sessions | `register`, `create_customer`, `create_checkout_session`, ... |
| payment webhook | `auth/route.py` | `user.status`, `user.payment_intent_id`; Stripe's queue of events | `handle_webhook` |
| unsubscribing | `auth/route.py`, `course/route.py` | `user.status`, `course.status`; Stripe subscriptions | `unsubscribe`, `unsubscribeuser`, `delete_campaign`, `add_user` |
| mail generator | `course/route.py`, `emails/models.py` | tables `email_templates`, `generated_emails`; keys in Redis; threads | `generate_all_emails`, `regenerate_all_emails`, `regenerate_email` and the threads `generate_and_save_emails`, `regenerate_email_task` |
| generated mails | `course/route.py` | the same tables, `is_sent` | `send_generated_email`, `delete_email_template`, `delete_compain` |
| campaign settings | `course/route.py`, `user/route.py` | table `course`, resources | `customize`, `addcourse`, `resources`, `delete_resource` |
| direct mailing | `course/route.py`, `auth/route.py`, `sendingmail.py` | SMTP only | `sendemail`, `sendeditedemail`, `send_emails`, the cron script |
| accounts | `auth/route.py`, `auth/model.py` | table `adminuser`, the login session, signed tokens | `register_admin`, `verify_email`, `login`, `logout` |
| answers of the model | `course/route.py` | none | `generate_response`, `convert_bold_to_html` |
| status pages | `templates/compaigndashboard.html`, `compaignbase.html` | timers in the page | poll the Redis keys |
| Redis dict | `redis-stable/src/dict.c` | two tables, `rehashidx`, `pauserehash` | add, find, delete, `dictScan`, safe iterators, `dictRehash`, resizing |
| Redis kvstore | `kvstore.c`, `databasesCron` | an array of dicts, a binary indexed tree of their sizes, counters | the same per slot, `kvstoreScan`, `kvstoreExpand`, `kvstoreEmpty`, the cron job |
| Redis append only file | `aof.c`, `bio.c` | buffer, files, manifest, fsync thread, offsets | `flushAppendOnlyFile`, rewriting, `startAppendOnly`, `stopAppendOnly`, loading |
| Redis cluster failover | `cluster_legacy.c` | per node: epochs, roles, owners of slots, votes; `nodes.conf` | `clusterHandleSlaveFailover`, votes, `clusterProcessPacket` |

How they interact. `register` creates a customer and a checkout session at Stripe and commits
a row with status 1. Stripe calls `handle_webhook`, which finds the row by customer id, sets
status 2, transfers a tenth of the payment to the super admin, and stores the subscription id
that arrives with an event of its own. Everything that cancels needs this id. The generator
takes the campaign's template and writes mails in a background thread; the page polls the
thread's status in Redis; the administrator sends, rewrites or deletes the mails meanwhile.

What is hard. The server runs requests concurrently and a request makes several commits and
several calls to Stripe, so that rows loaded at its beginning are stale at its end, and
SQLAlchemy writes only the columns that differ from what was loaded. Stripe repeats events,
reorders them and delivers one twice at a time. Background threads run on the same rows as
requests without a lock, and die with the server.

In Redis the hard part is work in pieces. A table is rehashed a bucket at a time, while cursors
that clients hold and iterators that commands hold point into it. A rewrite of the append only
file is half a dozen system calls, each of which may be the last one before a crash, next to a
thread that syncs on its own. A failover is settled by packets that may be lost or overtaken, and
by nodes that restart and must remember how they voted.

What makes each component correct:

* registration: an address pays once per campaign; a customer belongs to one row;
* webhook: no acknowledged event is lost, none is applied to the wrong row, a share is
  transferred once and only for an activated row;
* unsubscribing: who was told to have left is not charged and not subscribed; only one's own
  subscription is cancelled; everybody can leave;
* generator: a run replaces what the run before left; a status always ends in an outcome,
  which tells the truth; no mail without a template;
* generated mails: `is_sent` says that the text in the row was sent;
* dict and kvstore: to a user the database is a set of keys, and a scan sees all that stays in it;
* append only file: what is on the disk can be loaded at any time, and holds what the policy
  promises;
* cluster: at most one node wins an epoch, and claims to a slot can always be told apart.

Some of these hold and are proved, others do not: section 5.

## 2. Plan

1. `Subscriptions` (registration, webhook, unsubscribing), its runs, `SubscriptionsProofs`. *Done.*
2. `Generation` (generator, generated mails), its runs, `GenerationProofs`. *Done.*
3. `Dict` and `Kvstore` with the abstract specification `KeySet`, their runs. *Done.*
4. `Aof`, its runs. *Done.*
5. `Cluster`, its runs. *Done.*
6. Proofs about Redis: `Aof` (`AofProofs`, `AofDurability`), `Kvstore` (`DictLemmas`,
   `KvstoreProofs`), votes, roles and owners of slots in `Cluster` (`ClusterProofs`); `BoundedMails`
   of `Generation`. *Done*, but for the half of `RestAgrees` about owners (section 6).
7. `Membership`, what a subscriber is promised, and `Subscriptions` shown to implement it; `Journal`,
   what the append only file promises, and `Aof` shown to implement it. *Done.*
8. `Mailing` (recipients are a snapshot, the loop may end in the middle), `StatusPage` (the
   pollers, composed with `Generation`), `Accounts`, `Campaigns` (registration codes: look, then
   insert), `StripeKey` (requests of two campaigns that share `stripe.api_key`), `Answer`
   (`generate_response` and its retries).

## 3. Modules

| Module | Content |
|---|---|
| `Subscriptions` | the specification: database, requests, Stripe |
| `Membership` | what a subscriber is promised: contract, charges, membership; `Subscriptions` implements it |
| `MCSubscriptions` | the symmetry set and a view for TLC |
| `SubscriptionsProofs` | inductive invariant and theorems, the refinement of `Membership` |
| `Generation` | the specification: tables, Redis, workers |
| `MCGeneration` | the symmetry set and a view for TLC |
| `GenerationProofs` | inductive invariant and theorems |
| `Dict` | the hash table, as operators on a record |
| `Kvstore` | the specification of a database: dicts, commands, cron job, scans, an iterator |
| `KeySet` | what a database promises: a set of keys; `Kvstore` implements it |
| `MCKvstore` | four keys, their hashes and slots, and a view for TLC |
| `DictLemmas` | what every operation of a dict does to its keys, and what a scan of it returns |
| `KvstoreProofs` | the tree of sizes, inductive invariants, theorems, the refinement of `KeySet` |
| `Aof`, `MCAof` | the specification of the append only file, with disk and faults |
| `Journal` | what the file promises: a log of writes, cut by a crash; `Aof` implements it |
| `FlattenLemmas` | induction over finite sets, and what joining a sequence of sequences does |
| `AofProofs` | inductive invariant and theorems on types and kills |
| `AofDurability` | inductive invariants and theorems on syncs and power losses, the refinement of `Journal` |
| `Cluster`, `MCCluster` | the specification of failover; the clusters TLC checks |
| `ClusterProofs` | inductive invariants and theorems on votes, on owners of slots, on clusters at rest |

Operators introduced by a comment `Mutant:` are wrong versions of the action that follows
them. No specification uses them: they are substituted for the action to see that a property
notices.

### Subscriptions

`user` is the table (status 0 stands for no row), `offer` and `courseStatus` what matters of
the table `course`. `checkout`, `subscription`, `invoices`, `pending` and `transfers` are
Stripe's, one checkout session and at most one subscription per customer. `req[w]` is the
request worker `w` is serving: a program counter and the locals that survive a step. The
history variables `everActive`, `overpaid` and `confirmed` record what has happened and are
read by no action.

A handler is cut at each commit and at each call to Stripe, since another request may run
there; between two cuts it is one action.

| Code | Actions |
|---|---|
| `register` | `RegisterCheck`, then `RegisterFree`, or `RegisterCustomer`, `RegisterSession`, `RegisterSave` |
| `handle_webhook` | `WebhookLoad`, then `WebhookPaid`, `WebhookTransfer`, `WebhookAck`, or `WebhookSubscribed`, `WebhookAck` |
| `unsubscribe` | `UnsubscribeLoad`, `UnsubscribeCancel`, `UnsubscribeCommit` |
| `unsubscribeuser` | `AdminLoad`, `AdminCancel`, `AdminCommit` |
| `delete_campaign` | `DeleteLoad`, `DeleteCancel` per member, `DeleteCommit` |
| `add_user`, `customize` | `AddUser`, `Customize` |
| `except` clauses, `False` results | `StripeError` |
| the visitor and Stripe (external) | `Pay`, `Renew` |
| a killed process, a failed commit, a lost answer | `Crash` |

`SetStatus(u, seen, s)` is SQLAlchemy's unit of work: a status equal to the one that was loaded
is not written. An event stays in `pending` until it is answered with 200, and `WebhookLoad`
may take it again meanwhile: this is repetition, reordering and concurrent delivery in one.
A customer's subscription has the customer's name, because Stripe's objects say which customer
they belong to. Assumed: the super admin and the campaign's keys are configured, and a call
uses the key of its campaign (see `stripe.api_key` among the hazards). The price columns are
one value, `offer`.

`Membership` forgets requests, events and customers. An account has a contract (none, payment due,
paid once, a running subscription, an ended one), a number of charges, and may be a member or told
that its subscription has ended. Each step concerns one account; it joins unless a payment is due,
is charged only while its subscription runs, and is told of an end only after it. It may stay a
member, or become one again, after it was told, because it does so in the code (`zombie`); what it
may not do is be charged. `RulesKept` maps a row and its customer to an account (`ContractOf`,
`ChargesOf`).

### Generation

`template`, `mail` and `lastMail` are the two tables and the auto-increment counter; `status`
and `ttl` are Redis, under one prefix for the ids of both tables, as in the code. `task[w]` is
a background thread or a request that takes longer than a step. A text is a number that grows
with each rewrite; `broadcast` records with which text of a mail a loop over the subscribers has
run, and whether anybody got it.

| Code | Actions |
|---|---|
| `generate_all_emails`, `regenerate_all_emails`, `regenerate_email` | `CreateTemplate`, `RegenerateAll`, `RegenerateEmail` |
| `generate_and_save_emails` | `GenStart`, `GenDelete`, `GenCompose`, `GenSave`, `GenError`, `Report`, `SetExpiry` |
| `regenerate_email_task` | `RegenLoad`, `RegenCommit`, `RegenError`, `Report`, `SetExpiry` |
| `send_generated_email` | `SendLoad`, `Send`, `SendMark` |
| `delete_email_template`, `delete_compain` | `DropLoad`, `DropCommit`, `DeleteCompain` |
| Redis, a server restart (external) | `Expire`, `Restart` |

`GenCompose` is the loop of calls to OpenAI: the number of them that do not raise is chosen
freely (`Answers`). `SendEmails` stands for the calls of `send_emails`: it catches every failure of
the mail server, and there may be no subscriber, so that nobody may have got the mail and the row is
marked all the same.
The foreign key from mails to templates guards `GenSave` and `DropCommit`.

### Dict and Kvstore

`Dict` has the functions of `dict.c` as operators that take a dict and give the dict they leave;
recursion over buckets is a recursive function. A chain is a set, since the properties do not
depend on its order. `Kvstore` keeps the dicts of one database in `kvs`, `scan[c]` is the cursor
a client holds between two calls, `iter` the safe iterator of the command that is running;
`missed` and `misread` record what finished walks owe. Redis runs one command at a time, so that
each is one action with all it calls: the rehashing step, the resize, the size index, the
counters, the release of an empty dict.

| Code | Actions |
|---|---|
| `kvstoreDictAddRaw`, `kvstoreDictFind`, `kvstoreDictDelete` and the two-phase unlink | `Add`, `Find`, `Delete` |
| `kvstoreEmpty`, `kvstoreExpand` | `Empty`, `Expand` |
| `databasesCron` (`kvstoreTryResizeDicts`, `kvstoreIncrementallyRehash`) | `Cron` |
| `updateDictResizePolicy` | `Child` |
| `kvstoreScan`, with a callback that deletes | `ScanCall` |
| `kvstoreGetDictSafeIterator`, `-IteratorNext`, `-ReleaseDictIterator` | `IterStart`, `IterNext`, `IterRelease` |

Abstracted: the list of dicts being rehashed is the set of those that are, and `Cron` rehashes any
one of them by a batch of buckets, where the code goes by time; expiry and defragmentation, which
`databasesCron` also calls, are left out of it (expiry deletes by the callback of a scan, which
`ScanCall` has). A deletion under an iterator is of the entry given last, as the code asks of its
callers. `FewKeys` assumes that a dict has fewer keys than a word has values, as it must for the
keys to fit in memory. `asked` is a history variable: the keys that the last action was asked to add
and to delete. With it `KeySet` says which keys may change: an add puts in the key it was asked for,
a deletion (DEL, the callback of a scan, FLUSHALL) takes out exactly those it was asked for, and every other
action changes nothing. `bucket_count` follows the code in that `freeDictIfNeeded` does not take the buckets of a
freed dict away; no property is about it.

### Aof

`files` is the disk: for each file its writes and how many of them are certain to survive a power
loss. `dm` and `am` are the manifest on disk and in memory, `jobs` the queue of the fsync thread.
A write is a number and the dataset the sequence `db` of those applied, so that a write that is
loaded twice, or not, or out of order, shows. `pc` is the place of the main thread inside a rewrite:
it is cut at every system call, since the process may be killed there.

| Code | Actions |
|---|---|
| `feedAppendOnlyFile`, `beforeSleep` with `flushAppendOnlyFile` | `Write`, `BeforeSleep` |
| `bioProcessBackgroundJobs` | `Bio` |
| `updateAppendFsync` | `SetPolicy` |
| `rewriteAppendOnlyFileBackground`, `openNewIncrAofForAppend` | `Rewrite`, `OpenIncr`, `ListIncr`, `Switch`, `Drain`, `Fork`, `RewriteFails` |
| `backgroundRewriteDoneHandler`, `aofDelHistoryFiles` | `ChildDone`, `RenameBase`, `RenameIncr`, `ListBase`, `DoneFails`, `Collect`, `Collected` |
| `stopAppendOnly`, `startAppendOnly` | `Stop`, `Start` |
| a kill or a power loss, then `loadAppendOnlyFiles`, `aofOpenIfNeededOnServerStart` | `Crash`, `PowerLoss` |

Whether a second has passed, and whether a write is put off, is a choice. The manifest is written
to a temporary file, synced and renamed, and is replaced in one step here. `master_repl_offset` is
the length of `db`. Assumed are `no-appendfsync-on-rewrite no` and `aof-load-truncated yes`, the
defaults, and no transactions. A power loss cuts any file after any command that was not synced. A
file cut short is torn if it keeps a part of the next command, which is chosen; if it ends
between two commands, `loadSingleAppendOnlyFile` takes it for a whole one. A torn file before
the last makes the server refuse to start (`pc` = `"refused"`), where the model ends; the server
has by then truncated the file, so that a second start loads what the same cut without a torn file
loads at once. After a kill the system is taken to have written its page cache back
before a new server starts (`WritesBack`).

`Journal` forgets files, buffers, offsets and threads. It is a log to which writes are added. A crash
takes some of them, never one that was answered while the log was strict (`appendfsync always`), and
leaves the others in their order. What a strict log keeps is a first part; one that is not strict may
have a gap, when a file before the last has lost its end and the next one is loaded after it. A log that is not strict may become unsound: the server finds a file before
the last one torn and exits, or (section 5) a failed flush has doubled a write. `LogKept` maps the
dataset to the log and says when it is sound.

### Cluster

`table[n]` is `server.cluster` of node `n`: its epochs, what it thinks of each node's epoch and
master, who owns each slot, and which slots' owners do not claim them. `saved[n]` is the
`currentEpoch` in its `nodes.conf`; everything else there is saved before the next packet goes out
and equals `table`. `net` holds requests for votes and votes, which may be delayed, reordered and
lost. A PING, PONG or UPDATE is delivered at once or never. The history variables `granted` and
`won` record who voted for whom in which epoch, and who won which.

| Code | Actions |
|---|---|
| `clusterProcessPacket` for PING and PONG, with the UPDATE it may send back | `Heartbeat` |
| `clusterHandleSlaveFailover`, `clusterFailoverReplaceYourMaster` | `SetUp`, `Ask`, `Win` |
| `clusterSendFailoverAuthIfNeeded`, the vote's arrival | `Request`, `Ack` |
| `clusterLoadConfig` | `Restart` |

Failure detection and time are left open: a replica may start an election at any time, a voter may
refuse for reasons of time, a manual failover is one of the elections. The slots of a shard move
together and are one slot. `cluster-allow-replica-migration` is on, its default. Nobody reshards.
An election survives a change of master: `clusterSetMaster` leaves `failover_auth_sent`,
`failover_auth_count` and `failover_auth_time` alone, and a manual failover may use what was
counted. A new election, `SetUp`, begins when the retry time is over. `LateVotes` says whether
requests and votes may outlive the election they are of; it is `FALSE`, because an election is over
after twice the node timeout and the next one starts after four times that.

## 4. Runs that pass

| Run | Instance | Shows |
|---|---|---|
| `one_subscriber` | 1 row, 2 workers, 1 renewal, crashes | `NoPaymentLost`, `NoSubscriptionLost`, `ConfirmedNeverCharged`, `TransferAfterActivation`, the refinement `RulesKept` |
| `two_rows` | 2 rows of one address, 2 customers, 2 workers | `OneRowPerCustomer`, `PaidBeforeActive`, `CancelOnlyRequested`, the refinement `RulesKept` |
| `payments` | liveness, `LiveSpec`, 2 workers | `PaidLeadsToActive`, `LinkStopsCharges` |
| `batches` | 1 template, 2 workers, restarts | `BoundedMails`, `NoOrphans` |
| `outcome` | a template and a mail with one id, liveness under `LiveSpec` | `InProgressHasWorker`, `FlagWrongByOverlap`, `InProgressEnds` |
| `kvstore` | 4 keys, 2 dicts of up to 4 buckets, 1 scan, 1 iterator | `ScanComplete`, `CursorAdvances`, `IteratorExact`, `IteratorDictLive`, `KeysFound`, `MovedBucketsEmpty`, `IndexExact`, the refinement `KeysKept` |
| `aof` | 3 writes, 2 rewrites, both policies, 2 faults | `CrashRecovers`, `PowerRecovers`, `NoSyncForgotten`, the refinement `LogKept` |
| `cluster` | 3 masters, 2 replicas of one of them, a voter that restarts | `OneVotePerEpoch`, `WonByMajority`, `OneWinnerPerEpoch`, `OneClaimPerEpoch`, `RestAgrees`, `Forward` |

Deadlock is checked, except in `aof` and the runs of section 5 on `Aof` and `Cluster`, which stop
when their bounds on writes, files, faults or epochs are used up (and a server that cannot load its
files exits).

Bounds. Two workers on one row are enough for every race between two handlers, including two
deliveries of one event; the renewal is there so that an event follows the cancellation.
Two rows and two customers are what it takes to confuse rows. In `Generation` a run writes
`Variations` mails, two workers overlap, and a text is rewritten at most `MaxBody - 1` times.
`MaxInvoices`, `MaxMail`, `MaxBody` are guards that exist for TLC; the theorems hold for every
value. `two_rows` looks at states through the view `Present`, without the transfers, `everActive`
and `overpaid`, which no action reads and none of its properties is about. `batches` looks
at them without `broadcast`, `kvstore` without `asked`, which no action reads either; `KeysKept` is
evaluated on each step, which has it.

In `Kvstore` hashes have 2 bits, and the thresholds of `dict.c` are scaled down with them
(`InitialExp`, `MinFill`, `ForceRatio`, `EmptyVisits`), so that a dict of three keys goes through
every size from 1 to 4, expands twice under one scan, shrinks, and is rehashed in several steps.
Three keys share a dict, two of them a bucket in some sizes and not in others; the fourth makes the
other dict come and go. `Memory` is `{TRUE}`: no expansion is refused for want of memory.
`Served` has dict 0 only, so that `kvstoreExpand`, which jumps over a size, skips dict 1 as it
does for slots of other nodes. With `WalkAlone` a dict is walked by an iterator
while there is no other dict and no scan is under way: walks of different dicts do not touch the
same state, and the product of a scan and an iterator is too large. `MaxCount` cuts
`non_empty_dicts` and `bucket_count` off, which count up without bound (see below): at 0 the run
ignores them.

In `Aof` two rewrites are needed for one that follows another, a failed one or a crash; two faults
for a crash during the recovery from a failed call. The calls that may fail are those of
`MayFail`; the next section says which are excluded.

In `Cluster` a majority is two of three, two replicas compete for it in the same epoch, and a
voter may restart at any time and any number of times, also between its vote and the second
request. `FirstEpoch` is what new masters end with after their collisions are resolved, 2, 1 and
0, and `MaxEpoch` leaves one epoch for elections.
Failovers one after the other are in the instance of `same_epoch`, two masters and two replicas of
one of them; all properties of `cluster` but `OneClaimPerEpoch` hold there as well (2.1 million states,
when they replace `DistinctEpochs` in `SameEpoch.cfg`). `OneClaimPerEpoch` is a property of failovers
whose elections are of one epoch; section 5 says what happens with two. `OneWinnerPerEpoch` is a property of shards with at
most two replicas; section 5 says what happens with three.

Fairness. `Delivery` says that a worker goes on with the request it has begun, weakly fair,
which is what a server's threads do, and that an event Stripe has not seen acknowledged is
received again and again, strongly fair, since workers are free only now and then. For
`LinkStopsCharges` the subscriber keeps pressing the button and Stripe does not refuse every
call; nothing is assumed about the order of events. The liveness runs exclude crashes.
In `Generation` only the threads are fair. The modules of Redis state no fairness. What would be
liveness there is said as safety: `CursorAdvances` is a measure that makes every scan end however
the tables change, and `RestAgrees` says that heartbeats never get stuck in disagreement.

## 5. Runs that find a disagreement

Each states what a comment or a page of the program says, and TLC shows a behaviour of the
code that contradicts it. The details are under `findings` in `PROJECT.json`.

| Run | Property | What happens |
|---|---|---|
| `zombie` | `StaysUnsubscribed` | a payment event is delivered, or repeated, after the confirmation: status 2 again |
| `non_empty_dicts` | `NonEmptyExact` | two keys in one dict, one deleted: `cumulativeKeyCountAdd` counts the dict again |
| `waitaof` | `FsyncedIsDurable` | a write, a flush that writes it, a flush with nothing to do within the second: the offset is reported as synced |
| `same_epoch` | `DistinctEpochs` | two failovers of one shard; a PING of the master of before, which still follows the first winner, makes it a master again under the second winner's epoch |

Observations without a run.

* `Subscriptions` and `Generation` state four more sentences of the program, which short
  behaviours refute: `ShareTransferredOnce` (one event delivered twice transfers twice),
  `CanLeaveAnyTime` (without a subscription id the link fails for ever), `SentFlagTruthful` (the
  text is replaced between sending and marking; or sent while `regenerate_email_task` rewrites it,
  whose reset of `is_sent` assigns the value that was loaded; or nobody got it, because there is no
subscriber, `course/route.py:783`, or every call of `mail.send` failed, lines 137-141),
`CompletedHasMails` (all calls fail,
  nothing is left, the status is completed).
* An address with an unpaid registration may register again and pay twice, since `register` asks
  for status 2 only. The members of a deleted campaign keep status 2, since `delete_campaign` only
  calls Stripe. Two runs on one template both delete before either saves, so that both batches
  stay; `BoundedMails` says how bad it gets.
* `Aof`, a power loss with everysec may leave a log with a gap. A write is flushed and not yet
  synced, a rewrite opens the next file, a second write goes there and reaches the disk first; the power
  fails, and the first file has lost its end. If it ends between two commands the end of file is
  not noticed (`aof.c:1473`), and the second write is loaded without the first. If it ends within one,
  the server refuses to start because that file is not the last (`aof.c:1733`).
* `Aof`, faults that the run excludes because they break a property, each found by TLC with the
  constant changed: `"fsync"` in `MayFail` (a sync that fails in the thread is not tried again,
  `bio.c:311`; `NoSyncForgotten`); `"directory"` (the manifest is in place, the sync of its
  directory fails, and the rewrite is undone as if it were not, `aof.c:551`; `PowerRecovers`);
  `"forkAtStart"` (`startAppendOnly` fails with `aof_fd` open on the temporary file, and a later
  rewrite keeps the last INCR file as if it were in use, `aof.c:486`; `CrashRecovers`);
  `WritesBack` false (after a restart the end of the file counts as synced; `NoSyncForgotten`).
  The forced flush at the beginning of a rewrite ignores a failed write, and the buffer ends up in
  the snapshot and in the new file (`aof.c:2452`): `doubled` records it, and `CrashRecovers` and
  `PowerRecovers` speak of the behaviours without it.
* `Cluster`: with `LateVotes` true a vote of an earlier election counts in a later one and two nodes
  win one epoch. Only time rules it out.
* `Cluster`, two elections in a shard (masters 1 and 2, replicas 3 and 4 of 2, the instance of
  `same_epoch`): 3 asks and gets its quorum, 4 asks in the next epoch and wins, and 3 is told of it
  and follows 4. Nothing has ended the election of 3; if it is now told to fail over by hand, which
  asks for no failed master (`cluster_legacy.c:4206`), it takes over from 4 with the votes it
  has, under the older of the two epochs. Then 2, which follows 3 and has recorded for it the epoch
  its PING carried, that of 4, gives it that epoch (line 2990): two nodes serve the slot under one epoch,
  and `OneClaimPerEpoch` is violated.
* `Cluster`, a shard with three replicas (masters 1, 2 and 3, replicas 4, 5 and 6 of 3, `MaxEpoch`
  4): 4 wins epoch 3 with the votes of 2 and 3, and 1, 3 and 5 do not hear of it. Then
  5, which still follows 3, wins epoch 4 with the votes of 1 and 3, and 6, which follows 4, wins the
  same epoch with those of 2 and 4. Nobody has voted twice, and each has a majority of the masters
  it knows of: they disagree on who the masters are. `OneVotePerEpoch` and `WonByMajority`, which are
  what the code ensures, hold there as everywhere.
* `Cluster`, after three elections in a shard (masters 1, 2 and 3, replicas 4 and 5 of 3, `MaxEpoch`
  5): 4 wins epoch 3 and 3 follows it, 5 wins epoch 4, 4 wins epoch 5 and node 1 hears of it. Then a
  PING of 3 arrives at node 1, which still takes 3 for a master: `cluster_legacy.c:2989` sets the
  epoch of 4 to that of the packet, 3, although it was 5. The comment above it says that `master` "is
  still a `slave` in this observer node's view", which nothing checks. Now a PING of 5, with epoch 4,
  takes the slot back in the table of node 1. So what `Forward` says is of packets, one at a time: a
  slot is not taken by a node whose epoch is older than the one *recorded* for its owner; the
  recorded epoch itself may fall.

## 6. Proofs

`SubscriptionsProofs` proves `Spec => []IInv` and from it, for any numbers of rows, customers,
campaigns and workers, with and without crashes: `TypeOK`, `PaidBeforeActive`,
`OneRowPerCustomer`, `NoPaymentLost`, `NoSubscriptionLost`, `ConfirmedNeverCharged`,
`TransferAfterActivation` and the action property `CancelOnlyRequested`.

None of these is inductive: each depends on what requests in progress hold. `IInv` adds what
the locals of a request are worth when they are used. A registration has a row id and a
customer that no other row or request has, with the checkout session in the stage its program
counter says. A webhook holds a row that has the event's customer, and once past a commit that
row has been active, or holds the subscription id. A request that cancels holds at most the
id of its own row, and one past a successful cancellation has seen Stripe cancel it. Ids and
customers never leave a row, so that these facts stay true however long a request sleeps.

`ImplementsMembership` rests on the same invariant, and on `Billed`, that only a subscription that has
begun has been renewed. A step at Stripe concerns a customer; that it is the affair of one account
is `OneRowPerCustomer`, that it is of an account at all, and not of a registration under way, is
what `RegisterInv` and `StripeInv` say of customers without a row. Whatever assigns a status may
write nothing, if the status was loaded earlier, and is then a stutter or a step that only tells.

`GenerationProofs` proves `Spec => []GInv`, and from it `TypeOK`, `NoOrphans`,
`BoundedMails` and the action property `FlagWrongByOverlap`; and `InProgressHasWorker` if the server is
not restarted. `GInv` adds
that an id a task holds is of the right table, that mail ids are given out in order (a row
with a greater id than the counter does not exist, and a row that is gone never comes back),
and that the text a request is about to send or to mark is no later than the row's. `FlagWrongByOverlap`
needs `LoopInv` besides, that the loop over the subscribers has run with the text a request is
about to mark: so a flag set by a request that was not overtaken is right, and a rewrite that saw
the flag resets it.
`InProgressHasWorker` rests on `OwnStatus`: a worker writes no status but that of its own id
and, when it stops working under an id, has just written its outcome. `BoundedMails` rests on
`BatchInv`, which gives the mails of a template to workers: each worker has at most one batch of
`Variations` of them, the one it saved last, and none while its run has deleted and not yet saved.

`AofProofs` proves, for any number of writes, rewrites and faults, `Spec => []AInv` and from it
`TypeOK` and `CrashRecovers`; `AofDurability` goes on to `NoSyncForgotten` and `PowerRecovers`.
None of them is inductive, because what a crash finds depends on how far a rewrite is. `AInv` says,
for each place `pc` of the main thread, what `aof_fd` is open on and the offsets are worth
(`Offsets`, `Descriptor`), which of the two manifests lists which names and that the
names given out are fresh (`Room`, `Manifests`), that the files either manifest lists exist
(`Present`), and what they hold together: the base file is the dataset at the fork, the incremental
files continue it without a gap, and the temporary file of a rewrite equals the dataset as it was
when the child was forked (`Contents`). `AofDurability` adds `Syncing`, that whoever wrote an
unsynced file has left a job for it, or `syncoff` behind `size`; and `Kept`, by cases of `policy` and
`pc`, that what is promised is in the synced part of the listed files. A change of policy,
a postponed write and a new incremental file each move the duty from one to another.

`ImplementsJournal` uses all three. `PowerRecovers` says what a crash would find in each state; the
refinement is about the step: what the new server has loaded are writes of the old one in their order,
also when several files are cut at once, and all that was promised is among them (`ReadRemainder`).
For that the lemmas give the places of the loaded writes in the old dataset (`Thinned`, `ThinnedFlatten`:
files that each keep a first part are read as the whole without some entries). With everysec these
places may have a gap. Under `appendfsync always` only the last file can be short, because each was
synced before the next was listed, so that what is left is a first part and loads (`LastShort`). All the
steps of a rewrite are stutters.

What a list of files loads as is `FlattenSeq` of their contents, a recursive definition of the
community modules; `FlattenLemmas` proves its laws (append, replace, remove at the head, thin out) by
`SetInduction`, an induction over the subsets of an interval that needs no operator parameter.

`DictLemmas` and `KvstoreProofs` are about any number of dicts, any keys and hashes, tables of any
size, with and without `FreeEmpty`, with and without a limit of memory, any number of clients that
scan, and whatever `WalkAlone` is. They prove every property of the run `kvstore`:
`TypeOK`, `KeysFound`, `MovedBucketsEmpty`, `IteratorDictLive`, `IteratorExact`, `IndexExact`,
`ScanComplete`, `CursorAdvances`, and the refinement `KeysKept`; also that `key_count`, the answer to
DBSIZE, is the number of keys (`CountsKeys`). The argument has four layers.

* A dict. `DictInv` says that each key is in one table, in the bucket of its hash there, that table
  1 exists while `rehashidx` is not -1, and that the buckets before `rehashidx` are empty. Without
  the last part a key could be left behind when table 0 is dropped. Each operation of `Dict` is shown
  to keep it and to add, delete or find the key it was asked for, and no other.
* The store. `StoreInv` adds that keys are in the dict of their slot, that a dict that was freed had
  none, that `key_count` counts them, and `TreeInv`: node j of the tree counts the `LowBit[j]` dicts
  up to dict j - 1. From it come the sums of `cumulativeKeyCountRead` and the search of
  `kvstoreFindDictIndexByKeyIndex`, which goes down the bits of the dict it will find.
* The iterator. `WalkInv` says that what was returned is not ahead and what is owed is. It needs
  that the dict does not rehash meanwhile, hence `Sound`: a dict is paused exactly as long as it is
  walked. `KvstoreInv` is both.
* Scans. `Rev` reverses bits; in the order of reversed words the hashes of one bucket are an
  interval, whatever the size of the table, and the buckets of the larger table that `dictScan` visits
  for one bucket of the smaller cover just its interval. So a cursor divides the keys of all tables
  alike. `ScanInv` says that what a scan has still to return is there and not before its cursor;
  between dicts the cursor passes only dicts that `kvstoreGetNextNonEmptyDictIndex` finds empty.

`KvstoreInv` needs none of the scans. The refinement maps each action to a step of `KeySet` with the
keys it was asked for: the keys of the store after it are those before it, with these added or
deleted. The functions that the model defines by recursion (the rehashing loop, the tree, the bit
sums, `Expansions`) are handled alike: the function is named, a closed form is shown to satisfy its
equation, and a least argument at which the two differ is refuted. Powers of two are counted as
sets of subsets, the form in which the library's theorems know them.

`ClusterProofs` proves for any cluster, whatever is late or lost, that each node's table is well
formed (`VoteInvariant`) and `OneVotePerEpoch`. The code compares `lastVoteEpoch` with `currentEpoch` for equality only; `VInv`
shows that this is enough, because neither falls behind, and a vote is in `nodes.conf` before it goes
out, so that a restart does not bring an older one back. If votes do not outlive their election
(`LateVotes` false), it proves `ElectionInvariant`, `TypeOK` and `WonByMajority`. `CountInv`
says that all packets of an election are of one epoch, and that the votes counted and those still
under way are together no more than the nodes that voted for the candidate in it; the count alone
would not tell votes of an earlier election, since the code does not look for whom a vote was.

About slots it proves, again for any cluster and whatever is late, the action property `Forward`
(`SlotsMoveForward`), by following each branch of `clusterProcessPacket` that moves a slot:
`clusterMoveNodeSlots` for a sender that has become a replica, `clusterUpdateSlotsConfigWith` for
one that claims slots, directly or by UPDATE. Only `Win` is exempt, in the winner's own table. About a cluster at rest, in which no heartbeat changes a
table, it proves the half of `RestAgrees` about roles (`RolesSettle`: all nodes agree on who is whose
replica) and that at most one node serves each slot if epochs tell claims apart (`ClaimsSettle`).

The assumptions are those of the constants: ids exclude `None`, daily courses are courses,
bounds are naturals, template ids are positive, workers and keys are finitely many, and a dict has
fewer keys than a word has values. For `Aof` the theorems name the faults they exclude,
those of section 5: `SoundFaults` (the sync of the directory and the fork of `startAppendOnly` do
not fail), for durability also `SyncsSucceed` (no fsync fails, and the page cache is written back
before a killed server is restarted). All other calls may fail, any number of times.

Only model-checked: the liveness properties (`PaidLeadsToActive`, `LinkStopsCharges`,
`InProgressEnds`), which are out of the prover's reach; and of `Cluster` `OneWinnerPerEpoch` and
`OneClaimPerEpoch`, which are properties of small clusters and few elections and not theorems (two
nodes may win one epoch, or serve a slot under one, section 5), and the half of `RestAgrees` about owners: nodes at rest could still
list different owners of a slot that none of them serves, since a late PING may leave a slot with a
node recorded as a replica, whose packets claim nothing; the run finds no such
state, nor do random behaviours of the same cluster with `MaxEpoch` 6 (ten million states).

## 7. Not modelled

What section 2 still plans: mailing, accounts, campaign settings beyond the price, the pages'
pollers, the shared Stripe key, the text of answers. Not planned: pages that only read, the
Celery tasks (dead code: `course/tasks.py` uses a name it never imports), the migrations, the
vendored assets.

Of Redis, all but the three parts above: commands and data types (large, mostly sequential, and
covered by the tests of its authors), replication, Sentinel, the client library and the tools,
modules, scripting, networking, memory management, the RDB format, and the libraries under `deps`.
Within the three parts: iterators that are not safe, random keys, defragmentation; the format of
the append only file, transactions in it, `appendfsync no`; failure detection, joining, resharding,
replica migration and takeover, and the transport between nodes.
