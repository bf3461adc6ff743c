------------------------------- MODULE Cluster -------------------------------
(***************************************************************************)
(* The failover of Redis Cluster (redis-stable/src/cluster_legacy.c): a    *)
(* replica asks the masters for their votes, takes over the slots of its   *)
(* master under a new configEpoch, and the nodes pass the news on in the   *)
(* headers of their packets.                                               *)
(*                                                                         *)
(* Requests for votes and votes may be delayed, reordered or lost; a PING, *)
(* PONG or UPDATE packet says what its sender knows when it arrives, and   *)
(* may be lost.  Whether a node has flagged a master FAIL, or the          *)
(* administrator asked for a manual failover, is left open, and so is all  *)
(* that depends on time.  Slots are not moved by hand.                     *)
(***************************************************************************)
EXTENDS Integers, FiniteSets, FiniteSetsExt, Functions

CONSTANTS
    Node,          \* node names, numbers: collisions are resolved by memcmp
    Master,        \* the masters at first, each with a set of slots
    ReplicaOf,     \* replica -> its master at first
    FirstEpoch,    \* master -> its configEpoch at first
    LateVotes,     \* whether requests and votes may outlive their election
    MaxEpoch,      \* bound: currentEpoch
    MayCrash       \* the nodes that may restart

ASSUME ClusterAssumption ==
    /\ Node \subseteq Nat \ {0} /\ IsFiniteSet(Node) /\ Master \subseteq Node
    /\ ReplicaOf \in [Node \ Master -> Master]
    /\ FirstEpoch \in [Master -> 0..MaxEpoch]
    /\ MayCrash \subseteq Node
    /\ LateVotes \in BOOLEAN /\ MaxEpoch \in Nat

VARIABLES
    table,     \* node -> its server.cluster
    saved,     \* node -> currentEpoch in nodes.conf
    phase,     \* node -> its election: "idle", "set" up or votes "asked" for
    count,     \* node -> failover_auth_count
    aepoch,    \* node -> failover_auth_epoch
    net,       \* requests and votes under way
    granted,   \* history: votes given, as <<epoch, voter, candidate>>
    won        \* history: elections won, as <<epoch, node>>

vars == <<table, saved, phase, count, aepoch, net, granted, won>>

None == 0

(* The slots of one master at first are one slot here, named after it. *)
Slot == Master

(* server.cluster: currentEpoch, lastVoteEpoch, and of each node its       *)
(* configEpoch and slaveof; the owner of each slot; the slots whose owner  *)
(* does not claim them.                                                    *)
Table == [cur : 0..MaxEpoch, voted : 0..MaxEpoch, epoch : [Node -> 0..MaxEpoch],
          of : [Node -> Node \cup {None}], owner : [Slot -> Node], unsure : SUBSET Slot]

FirstMaster(n) == IF n \in Master THEN n ELSE ReplicaOf[n]
FirstCurrent   == Max(Range(FirstEpoch))

(* A cluster at rest. *)
Init ==
    /\ table = [n \in Node |->
                  [cur |-> FirstCurrent, voted |-> 0,
                   epoch |-> [x \in Node |-> IF x = n /\ x \notin Master THEN 0 ELSE FirstEpoch[FirstMaster(x)]],
                   of |-> [x \in Node |-> IF x \in Master THEN None ELSE ReplicaOf[x]],
                   owner |-> [s \in Slot |-> s], unsure |-> {}]]
    /\ saved = [n \in Node |-> FirstCurrent]
    /\ phase = [n \in Node |-> "idle"]
    /\ count = [n \in Node |-> 0] /\ aepoch = [n \in Node |-> 0]
    /\ net = {} /\ granted = {} /\ won = {}

-----------------------------------------------------------------------------
(* Tables and packets *)

IsMaster(t, n) == t.of[n] = None
MasterOf(t, n) == IF IsMaster(t, n) THEN n ELSE t.of[n]
SlotsOf(t, n)  == {s \in Slot : t.owner[s] = n}

(* The table of node n becomes t.  A change is saved in nodes.conf before  *)
(* the next packet goes out; a newer currentEpoch alone is not.            *)
Unsaved(t) == [t EXCEPT !.cur = 0, !.unsure = {}]

SavedEpoch(n, t) == IF Unsaved(t) # Unsaved(table[n]) THEN t.cur ELSE saved[n]

(* An election under way is left as it is (clusterSetMaster). *)
Put(n, t) ==
    /\ table' = [table EXCEPT ![n] = t]
    /\ saved' = [saved EXCEPT ![n] = SavedEpoch(n, t)]
    /\ UNCHANGED phase

PutBoth(n, t, m, u) ==
    /\ table' = [table EXCEPT ![n] = t, ![m] = u]
    /\ saved' = [saved EXCEPT ![n] = SavedEpoch(n, t), ![m] = SavedEpoch(m, u)]
    /\ UNCHANGED phase

(* clusterBuildMessageHdr: a replica sends what it has of its master. *)
HeaderOf(t, n) ==
    [from |-> n, cur |-> t.cur, epoch |-> t.epoch[MasterOf(t, n)], of |-> t.of[n],
     slots |-> SlotsOf(t, MasterOf(t, n))]

Header(n) == HeaderOf(table[n], n)

(* clusterProcessPacket, for every packet. *)
Later(a, b) == IF a > b THEN a ELSE b

Learn(t, h) == [t EXCEPT !.cur = Later(@, h.cur), !.epoch[h.from] = Later(@, h.epoch)]

(* The sender has another role than it had. *)
Moved(t, from, to) ==
    [t EXCEPT !.owner = [s \in Slot |-> IF @[s] = from THEN to ELSE @[s]],
              !.unsure = @ \ SlotsOf(t, from)]

SwitchRole(t, h) ==
    LET failedOver == h.of # None /\ IsMaster(t, h.from) /\ t.epoch[h.from] <= h.epoch
        u == IF failedOver
             THEN [Moved(t, h.from, h.of) EXCEPT !.of[h.of] = None, !.epoch[h.of] = h.epoch]
             ELSE t
    IN  [u EXCEPT !.of[h.from] = h.of]

(* clusterUpdateSlotsConfigWith: node me learns that n claims slots under  *)
(* epoch e, and follows the slots of its master, or itself.                *)
Claimed(t, s) == s \notin t.unsure

(* Mutant: the epoch of the owner is not compared. *)
TakeAll(t, me, n, e, slots) ==
    IF n = me THEN t
    ELSE [t EXCEPT !.owner = [s \in Slot |-> IF s \in slots THEN n ELSE @[s]],
                   !.of[me] = IF SlotsOf(t, MasterOf(t, me)) \ slots = {} THEN n ELSE @]

(* Mutant: the slots of the node's own master are not rebound. *)
StayWithMaster(t, me, n, e, slots) ==
    IF n = me THEN t
    ELSE [t EXCEPT !.owner = [s \in Slot |->
                      IF s \in slots /\ t.epoch[@[s]] < e /\ @[s] # MasterOf(t, me)
                      THEN n ELSE @[s]]]

UpdateSlots(t, me, n, e, slots) ==
    LET taken == {s \in slots : /\ t.owner[s] # n
                                /\ Claimed(t, s) => t.epoch[t.owner[s]] < e}
        u == [t EXCEPT !.owner = [s \in Slot |-> IF s \in taken THEN n ELSE @[s]],
                       !.unsure = (@ \ (taken \cup (slots \cap SlotsOf(t, n))))
                                     \cup (SlotsOf(t, n) \ slots)]
        mine == MasterOf(t, me)
        boss == u.of[me]
    IN  IF n = me THEN t
        ELSE IF taken \cap SlotsOf(t, mine) # {} /\ SlotsOf(u, mine) = {}
        THEN [u EXCEPT !.of[me] = n]
        ELSE IF boss # None /\ u.of[boss] \notin {None, me}
        THEN [u EXCEPT !.of[me] = u.of[boss]]
        ELSE u

(* clusterHandleConfigEpochCollision: the smaller name takes a new epoch. *)
Collision(t, me, h) ==
    IF /\ IsMaster(t, me) /\ IsMaster(t, h.from)
       /\ t.epoch[h.from] = t.epoch[me] /\ h.epoch = t.epoch[me]
       /\ h.from > me
    THEN [t EXCEPT !.cur = @ + 1, !.epoch[me] = t.cur + 1] ELSE t

Dirty(t, h) == SlotsOf(t, MasterOf(t, h.from)) # h.slots

(* A PING or PONG from h.from. *)
Rebind(t, me, h) ==
    LET u == SwitchRole(Learn(t, h), h) IN
    IF IsMaster(u, h.from) /\ Dirty(u, h) THEN UpdateSlots(u, me, h.from, h.epoch, h.slots) ELSE u

OnPing(t, me, h) == Collision(Rebind(t, me, h), me, h)

(* An UPDATE about node x. *)
OnUpdate(t, me, h, x, e, slots) ==
    LET u == Learn(t, h) IN
    IF u.epoch[x] >= e THEN u
    ELSE UpdateSlots([u EXCEPT !.of[x] = None, !.epoch[x] = e], me, x, e, slots)

-----------------------------------------------------------------------------
(* Heartbeats *)

(* Node m receives a PING or PONG from n.  If n claims a slot that another *)
(* node has under a greater epoch, m tells n, with an UPDATE that may be   *)
(* lost.  A packet without news is left out.                               *)
Outdated(t, h) ==
    {t.owner[s] : s \in {s \in h.slots : /\ t.owner[s] # h.from /\ Claimed(t, s)
                                        /\ t.epoch[t.owner[s]] > h.epoch}}

Heartbeat(n, m) ==
    \E h \in {Header(n)}, t \in {Rebind(table[m], m, Header(n))} :
        LET u == Collision(t, m, h) IN
        /\ u.cur <= MaxEpoch
        /\ \/ u # table[m] /\ Put(m, u)
           \/ /\ Dirty(SwitchRole(Learn(table[m], h), h), h)
              /\ \E x \in Outdated(t, h) :
                   PutBoth(m, u, n, OnUpdate(table[n], n, HeaderOf(t, m), x, t.epoch[x], SlotsOf(t, x)))
        /\ UNCHANGED <<count, aepoch, net, granted, won>>

-----------------------------------------------------------------------------
(* Elections: clusterHandleSlaveFailover *)

MayFailover(n) == ~IsMaster(table[n], n) /\ SlotsOf(table[n], table[n].of[n]) # {}

(* An election is set up, some time before votes are asked for. *)
SetUp(n) ==
    /\ MayFailover(n)
    /\ phase[n] # "set"
    /\ phase' = [phase EXCEPT ![n] = "set"]
    /\ count' = [count EXCEPT ![n] = 0]
    /\ net' = IF LateVotes THEN net ELSE {p \in net : n \notin {p.to, p.h.from}}
    /\ UNCHANGED <<table, saved, aepoch, granted, won>>

(* clusterRequestFailoverAuth *)
Ask(n) ==
    LET t == [table[n] EXCEPT !.cur = @ + 1]
        h == [Header(n) EXCEPT !.cur = @ + 1]
    IN  /\ MayFailover(n)
        /\ phase[n] = "set" /\ table[n].cur < MaxEpoch
        /\ table' = [table EXCEPT ![n] = t] /\ saved' = [saved EXCEPT ![n] = t.cur]
        /\ aepoch' = [aepoch EXCEPT ![n] = t.cur]
        /\ phase' = [phase EXCEPT ![n] = "asked"]
        /\ net' = net \cup {[kind |-> "request", to |-> None, h |-> h]}
        /\ UNCHANGED <<count, granted, won>>

(* Mutant: a node votes twice in one epoch. *)
GrantsAgain(t, me, h) ==
    /\ IsMaster(t, me) /\ SlotsOf(t, me) # {}
    /\ h.cur >= t.cur
    /\ ~IsMaster(t, h.from)

(* clusterSendFailoverAuthIfNeeded, in the table t of node me. *)
Grants(t, me, h) ==
    /\ IsMaster(t, me) /\ SlotsOf(t, me) # {}
    /\ h.cur >= t.cur
    /\ t.voted # t.cur
    /\ ~IsMaster(t, h.from)
    /\ \A s \in h.slots : Claimed(t, s) => t.epoch[t.owner[s]] <= h.epoch

(* A request arrives at node me; with its master up, or voted for lately,  *)
(* the node does not vote either.  A broadcast stays in net: a node that   *)
(* processes it again only learns its epoch again.                         *)
Request(p, me, vote) ==
    LET t == Learn(table[me], p.h) IN
    /\ p.kind = "request" /\ p.h.from # me
    /\ vote \/ t # table[me]
    /\ vote => Grants(t, me, p.h)
    /\ Put(me, IF vote THEN [t EXCEPT !.voted = t.cur] ELSE t)
    /\ net' = IF vote THEN net \cup {[kind |-> "ack", to |-> p.h.from,
                                      h |-> [Header(me) EXCEPT !.cur = t.cur]]} ELSE net
    /\ granted' = IF vote THEN granted \cup {<<t.cur, me, p.h.from>>} ELSE granted
    /\ UNCHANGED <<count, aepoch, won>>

(* Mutant: a vote that is delivered twice counts twice. *)
AckAgain(p) ==
    /\ p.kind = "ack" /\ p.h.cur >= aepoch[p.to]
    /\ count' = [count EXCEPT ![p.to] = @ + 1]
    /\ UNCHANGED <<table, saved, phase, net, aepoch, granted, won>>

(* A vote arrives. *)
Ack(p) ==
    LET t == Learn(table[p.to], p.h) IN
    /\ p.kind = "ack"
    /\ Put(p.to, t)
    /\ count' = IF IsMaster(t, p.h.from) /\ SlotsOf(t, p.h.from) # {} /\ p.h.cur >= aepoch[p.to]
                THEN [count EXCEPT ![p.to] = @ + 1] ELSE count
    /\ net' = net \ {p}
    /\ UNCHANGED <<aepoch, granted, won>>

(* clusterUpdateState: the masters with slots. *)
Quorum(t) == Cardinality({n \in Node : IsMaster(t, n) /\ SlotsOf(t, n) # {}}) \div 2 + 1

(* clusterFailoverReplaceYourMaster *)
Win(n) ==
    LET t == table[n] IN
    /\ MayFailover(n)
    /\ phase[n] = "asked" /\ count[n] >= Quorum(t)
    /\ Put(n, [Moved(t, t.of[n], n) EXCEPT !.of[n] = None, !.epoch[n] = Later(@, aepoch[n])])
    /\ won' = won \cup {<<aepoch[n], n>>}
    /\ UNCHANGED <<count, aepoch, net, granted>>

(* Restart from nodes.conf: clusterLoadConfig reads the epochs of masters   *)
(* only, and sees to it that currentEpoch is not behind them.              *)
Reloaded(t) == [x \in Node |-> IF IsMaster(t, x) THEN t.epoch[x] ELSE 0]

(* Mutant: lastVoteEpoch is not in nodes.conf. *)
ForgetVote(t, epoch) ==
    [t EXCEPT !.epoch = Reloaded(t), !.cur = Max({epoch} \cup Range(Reloaded(t))),
              !.voted = 0, !.unsure = {}]

Restore(t, epoch) ==
    [t EXCEPT !.epoch = Reloaded(t), !.cur = Max({epoch} \cup Range(Reloaded(t))),
              !.unsure = {}]

Restart(n) ==
    /\ table' = [table EXCEPT ![n] = Restore(@, saved[n])]
    /\ phase' = [phase EXCEPT ![n] = "idle"]
    /\ count' = [count EXCEPT ![n] = 0] /\ aepoch' = [aepoch EXCEPT ![n] = 0]
    /\ net' = {p \in net : p.to # n}
    /\ UNCHANGED <<saved, granted, won>>

Next ==
    \/ \E n, m \in Node : n # m /\ Heartbeat(n, m)
    \/ \E n \in Node : SetUp(n) \/ Ask(n) \/ Win(n)
    \/ \E n \in MayCrash : Restart(n)
    \/ \E p \in net : Ack(p) \/ \E me \in Node, vote \in BOOLEAN : Request(p, me, vote)

Spec == Init /\ [][Next]_vars

-----------------------------------------------------------------------------
TypeOK ==
    /\ table \in [Node -> Table]
    /\ saved \in [Node -> 0..MaxEpoch]
    /\ phase \in [Node -> {"idle", "set", "asked"}]
    /\ count \in [Node -> 0..Cardinality(Node)] /\ aepoch \in [Node -> 0..MaxEpoch]

(* No node votes for two others in one epoch, also when it restarts        *)
(* between the two requests: lastVoteEpoch is only compared for equality   *)
(* with currentEpoch, which may fall back to what nodes.conf has of it.    *)
OneVotePerEpoch ==
    \A v, w \in granted : v[1] = w[1] /\ v[2] = w[2] => v = w

Votes(e, n) == {m \in Node : <<e, m, n>> \in granted}

(* Whoever takes over has the votes of a majority of the masters it knows, *)
(* from as many nodes and in that very epoch, although failover_auth_count *)
(* is only a number and the node's view changes while it waits.            *)
WonByMajority ==
    [][\A n \in Node : Win(n) => Cardinality(Votes(aepoch[n], n)) >= Quorum(table[n])]_vars

(* No two nodes win the election of one epoch, although requests and votes *)
(* of elections under way are delayed, reordered or lost and a voter       *)
(* restarts from nodes.conf in between.  This is a property of small       *)
(* clusters, where those who vote in an epoch are too few for two          *)
(* majorities.  With three replicas two nodes may win, when some have not  *)
(* heard of the failover before and know other masters.                    *)
OneWinnerPerEpoch == \A v, w \in won : v[1] = w[1] => v[2] = w[2]

Serves(n, s) == IsMaster(table[n], n) /\ table[n].owner[s] = n

(* Two nodes that accept writes to one slot at a time have different       *)
(* configEpochs, so that the heartbeats decide between them: a property of *)
(* a failover whose elections are all of one epoch.  With two epochs a     *)
(* node may take over from the winner of the later with the votes of the   *)
(* earlier (README, section 5).                                            *)
OneClaimPerEpoch ==
    \A s \in Slot, n, m \in Node :
        Serves(n, s) /\ Serves(m, s) /\ table[n].epoch[n] = table[m].epoch[m] => n = m

(* No step gives a slot that its owner claims to a node with an older      *)
(* epoch, except in the table of a node that takes over itself.  The epoch *)
(* of an owner that keeps the slot may fall, when a packet of one of its   *)
(* replicas comes late (SwitchRole).                                       *)
Forward ==
    [][\A n \in Node, s \in Slot :
         table'[n].owner[s] # table[n].owner[s] /\ Claimed(table[n], s) /\ ~Win(n)
            => table'[n].epoch[table'[n].owner[s]] >= table[n].epoch[table[n].owner[s]]]_vars

(* No further heartbeat changes a table. *)
AtRest == \A n, m \in Node : n # m => OnPing(table[m], m, Header(n)) = table[m]

(* At rest all nodes agree on who owns each slot, who is a master and whom *)
(* every replica follows: there is no disagreement the PINGs cannot        *)
(* settle.                                                                 *)
RestAgrees ==
    AtRest => \A n, m \in Node : table[n].owner = table[m].owner /\ table[n].of = table[m].of

-----------------------------------------------------------------------------
(* What a comment says, and the code does not ensure. *)

(* "It is not possible that different slaves get the same config epoch     *)
(* during a failover election": masters that began with different epochs   *)
(* keep different ones.  A packet of a replica that still follows a loser  *)
(* of two elections makes the loser a master again, under the epoch of the *)
(* winner.                                                                 *)
DistinctEpochs ==
    \A n, m \in Node :
        IsMaster(table[n], n) /\ IsMaster(table[m], m) /\ table[n].epoch[n] = table[m].epoch[m]
            => n = m
=============================================================================
