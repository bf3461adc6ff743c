----------------------------- MODULE ClusterProofs -----------------------------
(***************************************************************************)
(* Votes and elections of Cluster, proved for any number of masters,       *)
(* replicas and epochs, with packets delayed, reordered and lost and any   *)
(* node restarting at any time.                                            *)
(***************************************************************************)
EXTENDS Cluster, FiniteSetTheorems, WellFoundedInduction, TLAPS
(* Headers of packets. *)
HeaderType == [from : Node, cur : 0..MaxEpoch, epoch : 0..MaxEpoch,
               of : Node \cup {None}, slots : SUBSET Slot]

(* Node names are numbers, and there are finitely many. *)
LEMMA NodeFacts ==
    /\ None \notin Node /\ Slot \subseteq Node /\ IsFiniteSet(Node) /\ MaxEpoch \in Nat
  BY ClusterAssumption DEF None, Slot

(* A set of epochs has a greatest one, which Max picks. *)
LEMMA MaxEpochs ==
    ASSUME NEW S \in SUBSET (0..MaxEpoch), S # {}
    PROVE  Max(S) \in S /\ \A x \in S : x <= Max(S)
<1>0. MaxEpoch \in Nat
  BY NodeFacts
<1> DEFINE D == {MaxEpoch - x : x \in S}
           R == OpToRel(<, Nat)
<1>1. PICK d \in D : \A y \in D : ~(<<y, d>> \in R)
  <2>1. D \subseteq Nat /\ D # {}
    <3>1. \A x \in S : MaxEpoch - x \in Nat
      BY <1>0
    <3> QED
      BY <3>1
  <2>2. IsWellFoundedOn(R, Nat)
    BY NatLessThanWellFounded
  <2> HIDE DEF D, R
  <2> QED
    BY <2>1, <2>2, WFMin, Zenon
<1>2. PICK m \in S : d = MaxEpoch - m
  OBVIOUS
<1>3. \A x \in S : m >= x
  <2> SUFFICES ASSUME NEW x \in S, m < x PROVE FALSE
    BY <1>0
  <2>1. MaxEpoch - x \in D /\ MaxEpoch - x \in Nat /\ d \in Nat /\ MaxEpoch - x < d
    BY <1>0, <1>2
  <2>2. <<MaxEpoch - x, d>> \in R
    BY <2>1 DEF OpToRel
  <2> QED
    BY <1>1, <2>1, <2>2
<1>4. Max(S) \in S /\ \A y \in S : Max(S) >= y
  BY <1>3, Zenon DEF Max
<1> QED
  BY <1>0, <1>4

-----------------------------------------------------------------------------
(* What packets do to a table: it stays one, no vote is forgotten and the  *)
(* current epoch does not fall.                                            *)
Grows(t, u) == u \in Table /\ u.voted = t.voted /\ t.cur <= u.cur

(* A node's master is a node. *)
LEMMA MasterType ==
    ASSUME NEW t \in Table, NEW n \in Node
    PROVE  MasterOf(t, n) \in Node /\ SlotsOf(t, MasterOf(t, n)) \in SUBSET Slot
  BY DEF Table, MasterOf, IsMaster, SlotsOf

(* What a node puts in its packets. *)
LEMMA HeaderOfType ==
    ASSUME NEW t \in Table, NEW n \in Node
    PROVE  HeaderOf(t, n) \in HeaderType /\ HeaderOf(t, n).from = n /\ HeaderOf(t, n).cur = t.cur
  BY MasterType DEF Table, HeaderOf, HeaderType

(* Every packet: the epochs in its header are learnt. *)
LEMMA LearnGrows ==
    ASSUME NEW t \in Table, NEW h \in HeaderType
    PROVE  /\ Grows(t, Learn(t, h))
           /\ Learn(t, h).cur = Later(t.cur, h.cur) /\ Learn(t, h).of = t.of
<1>0. MaxEpoch \in Nat
  BY NodeFacts
<1>1. t.cur \in 0..MaxEpoch /\ h.cur \in 0..MaxEpoch /\ h.epoch \in 0..MaxEpoch /\ h.from \in Node
  BY DEF Table, HeaderType
<1>2. /\ Later(t.cur, h.cur) \in 0..MaxEpoch /\ t.cur <= Later(t.cur, h.cur)
      /\ \A e \in 0..MaxEpoch : Later(e, h.epoch) \in 0..MaxEpoch
  BY <1>0, <1>1 DEF Later
<1> DEFINE ep == [t.epoch EXCEPT ![h.from] = Later(t.epoch[h.from], h.epoch)]
<1>3. Learn(t, h) = [t EXCEPT !.cur = Later(t.cur, h.cur), !.epoch = ep]
  BY DEF Learn, Table
<1>4. ep \in [Node -> 0..MaxEpoch]
  BY <1>1, <1>2 DEF Table
<1> QED
  BY <1>1, <1>2, <1>3, <1>4 DEF Grows, Table

(* One change after the other. *)
LEMMA GrowsTrans ==
    ASSUME NEW t \in Table, NEW u, NEW v, Grows(t, u), Grows(u, v)
    PROVE  Grows(t, v)
  BY NodeFacts DEF Grows, Table

(* Setting the owners. *)
LEMMA SetOwner ==
    ASSUME NEW t \in Table, NEW o \in [Slot -> Node], NEW s \in SUBSET Slot
    PROVE  Grows(t, [t EXCEPT !.owner = o, !.unsure = s])
<1>1. t.cur \in Int /\ t.cur <= t.cur
  BY NodeFacts DEF Table
<1> QED
  BY <1>1 DEF Grows, Table

(* clusterMoveNodeSlots *)
LEMMA MovedGrows ==
    ASSUME NEW t \in Table, NEW a \in Node, NEW b \in Node
    PROVE  Grows(t, Moved(t, a, b))
<1> DEFINE o == [s \in Slot |-> IF t.owner[s] = a THEN b ELSE t.owner[s]]
           v == t.unsure \ SlotsOf(t, a)
<1>1. o \in [Slot -> Node] /\ v \in SUBSET Slot
  BY DEF Table
<1>2. Moved(t, a, b) = [t EXCEPT !.owner = o, !.unsure = v]
  BY DEF Moved, Table
<1> HIDE DEF o, v
<1>3. Grows(t, [t EXCEPT !.owner = o, !.unsure = v])
  BY <1>1, SetOwner
<1> QED
  BY <1>2, <1>3, Zenon

(* Setting the master or the epoch of a node. *)
LEMMA SetOf ==
    ASSUME NEW t \in Table, NEW n \in Node, NEW m \in Node \cup {None}
    PROVE  Grows(t, [t EXCEPT !.of[n] = m])
<1>1. [t EXCEPT !.of[n] = m] = [t EXCEPT !.of = [t.of EXCEPT ![n] = m]]
  BY DEF Table
<1>2. [t.of EXCEPT ![n] = m] \in [Node -> Node \cup {None}]
  BY DEF Table
<1>3. t.cur \in Int /\ t.cur <= t.cur
  BY NodeFacts DEF Table
<1> QED
  BY <1>1, <1>2, <1>3 DEF Grows, Table

(* A node becomes a master under an epoch. *)
LEMMA SetRole ==
    ASSUME NEW t \in Table, NEW n \in Node, NEW e \in 0..MaxEpoch
    PROVE  /\ Grows(t, [t EXCEPT !.of[n] = None, !.epoch[n] = e])
           /\ [t EXCEPT !.of[n] = None, !.epoch[n] = e].cur = t.cur
<1>1. [t EXCEPT !.of[n] = None, !.epoch[n] = e]
        = [t EXCEPT !.of = [t.of EXCEPT ![n] = None], !.epoch = [t.epoch EXCEPT ![n] = e]]
  BY DEF Table
<1>2. /\ [t.of EXCEPT ![n] = None] \in [Node -> Node \cup {None}]
      /\ [t.epoch EXCEPT ![n] = e] \in [Node -> 0..MaxEpoch]
  BY DEF Table
<1>3. t.cur \in Int /\ t.cur <= t.cur
  BY NodeFacts DEF Table
<1> QED
  BY <1>1, <1>2, <1>3 DEF Grows, Table

(* clusterProcessPacket, when the sender has another role. *)
LEMMA SwitchRoleGrows ==
    ASSUME NEW t \in Table, NEW h \in HeaderType
    PROVE  Grows(t, SwitchRole(t, h))
<1> DEFINE failedOver == h.of # None /\ IsMaster(t, h.from) /\ t.epoch[h.from] <= h.epoch
           u == IF failedOver
                THEN [Moved(t, h.from, h.of) EXCEPT !.of[h.of] = None, !.epoch[h.of] = h.epoch]
                ELSE t
<1>1. /\ h.from \in Node /\ h.of \in Node \cup {None} /\ h.epoch \in 0..MaxEpoch
      /\ t.cur \in Int
  BY NodeFacts DEF HeaderType, Table
<1>2. Grows(t, u)
  <2>1. CASE failedOver
    <3>1. h.of \in Node
      BY <1>1, <2>1
    <3> DEFINE v == Moved(t, h.from, h.of)
    <3>2. Grows(t, v)
      BY <1>1, <3>1, MovedGrows
    <3>3. v \in Table
      BY <3>2 DEF Grows
    <3> HIDE DEF v
    <3>4. Grows(v, [v EXCEPT !.of[h.of] = None, !.epoch[h.of] = h.epoch])
      BY <1>1, <3>1, <3>3, SetRole
    <3>5. Grows(t, [v EXCEPT !.of[h.of] = None, !.epoch[h.of] = h.epoch])
      BY <3>2, <3>4, GrowsTrans
    <3> QED
      BY <2>1, <3>5 DEF v
  <2>2. CASE ~ failedOver
    BY <1>1, <2>2 DEF Grows
  <2> QED
    BY <2>1, <2>2
<1>3. SwitchRole(t, h) = [u EXCEPT !.of[h.from] = h.of]
  BY DEF SwitchRole
<1> HIDE DEF u
<1>4. u \in Table
  BY <1>2 DEF Grows
<1>5. Grows(u, [u EXCEPT !.of[h.from] = h.of])
  BY <1>1, <1>4, SetOf
<1> QED
  BY <1>2, <1>3, <1>5, GrowsTrans

(* clusterUpdateSlotsConfigWith *)
LEMMA UpdateSlotsGrows ==
    ASSUME NEW t \in Table, NEW me \in Node, NEW n \in Node, NEW e \in 0..MaxEpoch,
           NEW slots \in SUBSET Slot
    PROVE  Grows(t, UpdateSlots(t, me, n, e, slots))
<1> DEFINE taken == {s \in slots : /\ t.owner[s] # n
                                   /\ Claimed(t, s) => t.epoch[t.owner[s]] < e}
           own == [s \in Slot |-> IF s \in taken THEN n ELSE t.owner[s]]
           uns == (t.unsure \ (taken \cup (slots \cap SlotsOf(t, n))))
                     \cup (SlotsOf(t, n) \ slots)
           u == [t EXCEPT !.owner = own, !.unsure = uns]
           mine == MasterOf(t, me)
           boss == u.of[me]
<1>1. t.cur \in Int
  BY NodeFacts DEF Table
<1>2. own \in [Slot -> Node] /\ uns \in SUBSET Slot
  BY DEF Table, SlotsOf
<1>3. UpdateSlots(t, me, n, e, slots) =
         IF n = me THEN t
         ELSE IF taken \cap SlotsOf(t, mine) # {} /\ SlotsOf(u, mine) = {}
         THEN [u EXCEPT !.of[me] = n]
         ELSE IF boss # None /\ u.of[boss] \notin {None, me}
         THEN [u EXCEPT !.of[me] = u.of[boss]]
         ELSE u
  BY DEF UpdateSlots, Table
<1> HIDE DEF own, uns, taken, mine
<1>4. Grows(t, u)
  BY <1>2, SetOwner
<1>5. u \in Table
  BY <1>4 DEF Grows
<1> HIDE DEF u
<1>6. ASSUME NEW m \in Node PROVE Grows(t, [u EXCEPT !.of[me] = m])
  BY <1>4, <1>5, SetOf, GrowsTrans
<1>7. boss # None => u.of[boss] \in Node \cup {None}
  BY <1>5 DEF Table
<1>8. Grows(t, t)
  BY <1>1 DEF Grows
<1> HIDE DEF boss
<1> QED
  BY <1>3, <1>4, <1>6, <1>7, <1>8

(* A PING or PONG, up to the collision of epochs. *)
LEMMA RebindGrows ==
    ASSUME NEW t \in Table, NEW me \in Node, NEW h \in HeaderType
    PROVE  Grows(t, Rebind(t, me, h))
<1> DEFINE l == Learn(t, h)
           u == SwitchRole(l, h)
<1>1. Grows(t, l) /\ l \in Table
  BY LearnGrows DEF Grows
<1> HIDE DEF l
<1>2. Grows(l, u)
  BY <1>1, SwitchRoleGrows
<1>3. Grows(t, u) /\ u \in Table
  BY <1>1, <1>2, GrowsTrans DEF Grows
<1>4. h.from \in Node /\ h.epoch \in 0..MaxEpoch /\ h.slots \in SUBSET Slot
  BY DEF HeaderType
<1>5. Rebind(t, me, h) = IF IsMaster(u, h.from) /\ Dirty(u, h)
                         THEN UpdateSlots(u, me, h.from, h.epoch, h.slots) ELSE u
  BY DEF Rebind, l
<1> HIDE DEF u
<1>6. Grows(u, UpdateSlots(u, me, h.from, h.epoch, h.slots))
  BY <1>3, <1>4, UpdateSlotsGrows
<1>7. Grows(t, UpdateSlots(u, me, h.from, h.epoch, h.slots))
  BY <1>3, <1>6, GrowsTrans
<1> QED
  BY <1>3, <1>5, <1>7

(* clusterHandleConfigEpochCollision *)
LEMMA CollisionGrows ==
    ASSUME NEW t \in Table, NEW me \in Node, NEW h \in HeaderType,
           Collision(t, me, h).cur <= MaxEpoch
    PROVE  Grows(t, Collision(t, me, h))
<1>1. t.cur \in Nat /\ MaxEpoch \in Nat
  BY NodeFacts DEF Table
<1> DEFINE c == [t EXCEPT !.cur = @ + 1, !.epoch[me] = t.cur + 1]
<1>2. c = [t EXCEPT !.cur = t.cur + 1, !.epoch = [t.epoch EXCEPT ![me] = t.cur + 1]]
  BY DEF Table
<1>3. c.cur = t.cur + 1
  BY <1>2 DEF Table
<1>4. CASE Collision(t, me, h) = c
  <2>1. t.cur + 1 \in 0..MaxEpoch
    BY <1>1, <1>3, <1>4
  <2>2. [t.epoch EXCEPT ![me] = t.cur + 1] \in [Node -> 0..MaxEpoch]
    BY <2>1 DEF Table
  <2>3. c \in Table /\ c.voted = t.voted
    BY <1>2, <2>1, <2>2 DEF Table
  <2> QED
    BY <1>1, <1>3, <1>4, <2>3 DEF Grows
<1>5. CASE Collision(t, me, h) = t
  BY <1>1, <1>5 DEF Grows
<1> QED
  BY <1>4, <1>5 DEF Collision

(* An UPDATE packet. *)
LEMMA OnUpdateGrows ==
    ASSUME NEW t \in Table, NEW me \in Node, NEW h \in HeaderType, NEW x \in Node,
           NEW e \in 0..MaxEpoch, NEW slots \in SUBSET Slot
    PROVE  Grows(t, OnUpdate(t, me, h, x, e, slots))
<1> DEFINE u == Learn(t, h)
           v == [u EXCEPT !.of[x] = None, !.epoch[x] = e]
<1>1. Grows(t, u) /\ u \in Table
  BY LearnGrows DEF Grows
<1>2. OnUpdate(t, me, h, x, e, slots)
        = IF u.epoch[x] >= e THEN u ELSE UpdateSlots(v, me, x, e, slots)
  BY DEF OnUpdate
<1> HIDE DEF u
<1>3. Grows(u, v)
  BY <1>1, SetRole
<1>4. Grows(t, v) /\ v \in Table
  BY <1>1, <1>3, GrowsTrans DEF Grows
<1> HIDE DEF v
<1>5. Grows(v, UpdateSlots(v, me, x, e, slots))
  BY <1>4, UpdateSlotsGrows
<1>6. Grows(t, UpdateSlots(v, me, x, e, slots))
  BY <1>4, <1>5, GrowsTrans
<1> QED
  BY <1>1, <1>2, <1>6

(* Requests for votes, and votes. *)
Packet == [kind : {"request", "ack"}, to : Node \cup {None}, h : HeaderType]

Acks(n) == {p \in net : p.kind = "ack" /\ p.to = n}
Requests(n) == {p \in net : p.kind = "request" /\ p.h.from = n}

(* Packets are well formed, and a vote has an addressee. *)
NetInv ==
    /\ net \in SUBSET Packet /\ IsFiniteSet(net)
    /\ \A p \in net : p.kind = "ack" => p.to \in Node

(* lastVoteEpoch is behind neither currentEpoch nor what nodes.conf has of *)
(* it, and behind no vote.                                                 *)
Voted(n) == table[n].voted <= table[n].cur /\ table[n].voted <= saved[n]

VoteInv ==
    /\ \A n \in Node : Voted(n)
    /\ granted \in SUBSET ((0..MaxEpoch) \X Node \X Node)
    /\ \A v \in granted : v[1] <= table[v[2]].voted
    /\ OneVotePerEpoch

(* The election of node n: all that is under way is of one epoch, and each *)
(* vote that was counted or will be was given by another node.             *)
Tally(n, e) ==
    /\ \A p \in Requests(n) \cup Acks(n) : p.h.cur = e
    /\ count[n] + Cardinality(Acks(n)) <= Cardinality(Votes(e, n))
    /\ phase[n] = "asked" => aepoch[n] = e

(* An election that is set up starts from nothing. *)
CountInv ==
    \A n \in Node :
        /\ phase[n] = "set" => count[n] = 0 /\ Requests(n) = {} /\ Acks(n) = {}
        /\ \E e \in 0..MaxEpoch : Tally(n, e)

(* TypeOK without the bound on count, which depends on the elections. *)
Types ==
    /\ table \in [Node -> Table]
    /\ saved \in [Node -> 0..MaxEpoch]
    /\ phase \in [Node -> {"idle", "set", "asked"}]
    /\ count \in [Node -> Nat] /\ aepoch \in [Node -> 0..MaxEpoch]

VInv == Types /\ NetInv /\ VoteInv

CInv == VInv /\ CountInv

-----------------------------------------------------------------------------
(* Steps of the tables *)

Advances(t, u) == u \in Table /\ t.voted <= u.voted /\ u.voted <= u.cur

(* What every step does to the tables: no vote is forgotten. *)
Steady ==
    /\ table' \in [Node -> Table] /\ saved' \in [Node -> 0..MaxEpoch]
    /\ \A x \in Node : Voted(x)' /\ table[x].voted <= table'[x].voted

(* What most steps do to elections: they end them or leave them alone. *)
Calm ==
    /\ phase' \in [Node -> {"idle", "set", "asked"}]
    /\ \A x \in Node : phase'[x] \in {phase[x], "idle"}

(* A packet leaves the last vote where it was. *)
LEMMA GrowsAdvances ==
    ASSUME NEW t \in Table, t.voted <= t.cur, NEW u, Grows(t, u)
    PROVE  Advances(t, u)
  BY NodeFacts DEF Grows, Advances, Table

(* The epochs of a table are numbers. *)
LEMMA VotedType ==
    ASSUME NEW t \in Table
    PROVE  t.voted \in 0..MaxEpoch /\ t.cur \in 0..MaxEpoch /\ t.voted \in Int /\ t.cur \in Int
  BY NodeFacts DEF Table

(* nodes.conf has a node's last vote, since a vote is saved at once. *)
LEMMA SavedVote ==
    ASSUME Types, NEW n \in Node, Voted(n), NEW t, Advances(table[n], t)
    PROVE  /\ SavedEpoch(n, t) \in 0..MaxEpoch
           /\ t.voted <= SavedEpoch(n, t)
<1>1. table[n] \in Table /\ t \in Table
  BY DEF Types, Advances
<1>2. CASE Unsaved(t) # Unsaved(table[n])
  BY <1>1, <1>2, VotedType DEF SavedEpoch, Advances
<1>3. CASE Unsaved(t) = Unsaved(table[n])
  <2>1. Unsaved(t).voted = t.voted /\ Unsaved(table[n]).voted = table[n].voted
    BY <1>1 DEF Unsaved, Table
  <2> QED
    BY <1>3, <2>1 DEF SavedEpoch, Voted, Types
<1> QED
  BY <1>2, <1>3

(* A new table for one node. *)
LEMMA PutSteady ==
    ASSUME Types, \A x \in Node : Voted(x), NEW n \in Node, NEW t,
           Advances(table[n], t), Put(n, t)
    PROVE  /\ Steady /\ Calm
           /\ table'[n] = t /\ \A x \in Node \ {n} : table'[x] = table[x]
<1>1. t \in Table
  BY DEF Advances
<1>2. SavedEpoch(n, t) \in 0..MaxEpoch /\ t.voted <= SavedEpoch(n, t)
  BY SavedVote
<1>3. /\ table' \in [Node -> Table] /\ table'[n] = t
      /\ \A x \in Node \ {n} : table'[x] = table[x]
  BY <1>1 DEF Put, Types
<1>4. /\ saved' \in [Node -> 0..MaxEpoch] /\ saved'[n] = SavedEpoch(n, t)
      /\ \A x \in Node \ {n} : saved'[x] = saved[x]
  BY <1>2 DEF Put, Types
<1>5. Calm
  BY DEF Put, Types, Calm
<1>6. ASSUME NEW x \in Node PROVE Voted(x)' /\ table[x].voted <= table'[x].voted
  <2>1. CASE x = n
    BY <1>2, <1>3, <1>4, <2>1 DEF Voted, Advances
  <2>2. CASE x # n
    <3>1. table[x] \in Table
      BY DEF Types
    <3> QED
      BY <1>3, <1>4, <2>2, <3>1, VotedType DEF Voted
  <2> QED
    BY <2>1, <2>2
<1> QED
  BY <1>3, <1>4, <1>5, <1>6 DEF Steady

(* New tables for two nodes. *)
LEMMA PutBothSteady ==
    ASSUME Types, \A x \in Node : Voted(x), NEW n \in Node, NEW m \in Node, n # m,
           NEW t, NEW u, Advances(table[n], t), Advances(table[m], u), PutBoth(n, t, m, u)
    PROVE  Steady /\ Calm
<1>1. t \in Table /\ u \in Table
  BY DEF Advances
<1>2. /\ SavedEpoch(n, t) \in 0..MaxEpoch /\ t.voted <= SavedEpoch(n, t)
      /\ SavedEpoch(m, u) \in 0..MaxEpoch /\ u.voted <= SavedEpoch(m, u)
  BY SavedVote
<1>3. /\ table' \in [Node -> Table] /\ table'[n] = t /\ table'[m] = u
      /\ \A x \in Node \ {n, m} : table'[x] = table[x]
  BY <1>1 DEF PutBoth, Types
<1>4. /\ saved' \in [Node -> 0..MaxEpoch] /\ saved'[n] = SavedEpoch(n, t)
      /\ saved'[m] = SavedEpoch(m, u)
      /\ \A x \in Node \ {n, m} : saved'[x] = saved[x]
  BY <1>2 DEF PutBoth, Types
<1>5. Calm
  BY DEF PutBoth, Types, Calm
<1>6. ASSUME NEW x \in Node PROVE Voted(x)' /\ table[x].voted <= table'[x].voted
  <2>1. CASE x = n
    BY <1>2, <1>3, <1>4, <2>1 DEF Voted, Advances
  <2>2. CASE x = m
    BY <1>2, <1>3, <1>4, <2>2 DEF Voted, Advances
  <2>3. CASE x \notin {n, m}
    <3>1. table[x] \in Table
      BY DEF Types
    <3> QED
      BY <1>3, <1>4, <2>3, <3>1, VotedType DEF Voted
  <2> QED
    BY <2>1, <2>2, <2>3
<1> QED
  BY <1>3, <1>4, <1>5, <1>6 DEF Steady

-----------------------------------------------------------------------------
(* Steps in which nobody votes *)

(* Votes stay single while nobody votes. *)
LEMMA SteadyVotes ==
    ASSUME Types, VoteInv, Steady, UNCHANGED granted
    PROVE  VoteInv'
<1>1. \A v \in granted : v[1] <= table'[v[2]].voted
  <2> SUFFICES ASSUME NEW v \in granted PROVE v[1] <= table'[v[2]].voted
    OBVIOUS
  <2>1. v[1] \in 0..MaxEpoch /\ v[2] \in Node /\ v[1] <= table[v[2]].voted
    BY DEF VoteInv
  <2>2. table[v[2]] \in Table /\ table'[v[2]] \in Table
    BY <2>1 DEF Types, Steady
  <2>3. table[v[2]].voted <= table'[v[2]].voted
    BY <2>1 DEF Steady
  <2> QED
    BY <2>1, <2>2, <2>3, VotedType, NodeFacts
<1> QED
  BY <1>1 DEF VoteInv, Steady, OneVotePerEpoch

(* Elections that nothing happens to. *)
LEMMA CalmCount ==
    ASSUME CountInv, Calm, UNCHANGED <<count, aepoch, net, granted>>
    PROVE  CountInv'
<1> SUFFICES ASSUME NEW n \in Node PROVE CountInv!(n)'
  BY DEF CountInv
<1>1. /\ Acks(n)' = Acks(n) /\ Requests(n)' = Requests(n)
      /\ \A e : Votes(e, n)' = Votes(e, n)
  BY DEF Acks, Requests, Votes
<1>2. phase'[n] = "set" => phase[n] = "set"
  BY DEF Calm
<1>3. phase'[n] = "asked" => phase[n] = "asked"
  BY DEF Calm
<1>4. PICK e \in 0..MaxEpoch : Tally(n, e)
  BY DEF CountInv
<1>5. Tally(n, e)'
  BY <1>1, <1>3, <1>4 DEF Tally
<1> QED
  BY <1>1, <1>2, <1>4, <1>5 DEF CountInv

(* Heartbeats neither vote nor count. *)
LEMMA HeartbeatStep ==
    ASSUME VInv, NEW n \in Node, NEW m \in Node, n # m, Heartbeat(n, m)
    PROVE  VInv' /\ (CountInv => CountInv')
<1> USE DEF VInv
<1>0. table[n] \in Table /\ table[m] \in Table /\ Voted(n) /\ Voted(m)
  BY DEF Types, VoteInv
<1> DEFINE h == Header(n)
           t == Rebind(table[m], m, h)
           u == Collision(t, m, h)
           k == HeaderOf(t, m)
<1>1. h \in HeaderType
  BY <1>0, HeaderOfType DEF Header
<1>2. /\ u.cur <= MaxEpoch
      /\ \/ Put(m, u)
         \/ \E x \in Outdated(t, h) :
              PutBoth(m, u, n, OnUpdate(table[n], n, k, x, t.epoch[x], SlotsOf(t, x)))
      /\ UNCHANGED <<count, aepoch, net, granted, won>>
  BY DEF Heartbeat
<1> HIDE DEF h
<1>3. Grows(table[m], t)
  BY <1>0, <1>1, RebindGrows
<1>4. t \in Table
  BY <1>3 DEF Grows
<1> HIDE DEF t
<1>5. Grows(t, u)
  BY <1>1, <1>2, <1>4, CollisionGrows
<1>6. Advances(table[m], u)
  BY <1>0, <1>3, <1>5, GrowsTrans, GrowsAdvances DEF Voted
<1> HIDE DEF u
<1>7. k \in HeaderType
  BY <1>4, HeaderOfType
<1> HIDE DEF k
<1>8. Steady /\ Calm
  <2>1. CASE Put(m, u)
    BY <1>6, <2>1, PutSteady DEF VoteInv
  <2>2. ASSUME NEW x \in Outdated(t, h),
               PutBoth(m, u, n, OnUpdate(table[n], n, k, x, t.epoch[x], SlotsOf(t, x)))
        PROVE  Steady /\ Calm
    <3>1. x \in Node
      BY <1>1, <1>4 DEF Outdated, Table, HeaderType
    <3>2. t.epoch[x] \in 0..MaxEpoch /\ SlotsOf(t, x) \in SUBSET Slot
      BY <1>4, <3>1 DEF Table, SlotsOf
    <3> DEFINE v == OnUpdate(table[n], n, k, x, t.epoch[x], SlotsOf(t, x))
    <3>3. Grows(table[n], v)
      BY <1>0, <1>7, <3>1, <3>2, OnUpdateGrows
    <3> HIDE DEF v
    <3>4. Advances(table[n], v)
      BY <1>0, <3>3, GrowsAdvances DEF Voted
    <3>5. PutBoth(m, u, n, v)
      BY <2>2 DEF v
    <3> QED
      BY <1>6, <3>4, <3>5, PutBothSteady DEF VoteInv
  <2> QED
    BY <1>2, <2>1, <2>2
<1>9. VoteInv' /\ (CountInv => CountInv')
  BY <1>2, <1>8, SteadyVotes, CalmCount
<1>10. Types' /\ NetInv'
  BY <1>2, <1>8 DEF Types, NetInv, Steady, Calm
<1> QED
  BY <1>9, <1>10

(* Counting votes: a set of nodes, or of packets. *)
LEMMA VotesCount ==
    ASSUME NEW e, NEW n
    PROVE  /\ IsFiniteSet(Votes(e, n)) /\ Cardinality(Votes(e, n)) \in Nat
           /\ Cardinality(Votes(e, n)) <= Cardinality(Node) /\ Cardinality(Node) \in Nat
<1>1. Votes(e, n) \in SUBSET Node
  BY DEF Votes
<1>2. IsFiniteSet(Votes(e, n)) /\ Cardinality(Votes(e, n)) <= Cardinality(Node)
  BY <1>1, NodeFacts, FS_Subset
<1> QED
  BY <1>2, NodeFacts, FS_CardinalityType

(* Packets under way can be counted. *)
LEMMA AcksCount ==
    ASSUME NetInv, NEW n
    PROVE  IsFiniteSet(Acks(n)) /\ Cardinality(Acks(n)) \in Nat
<1>1. Acks(n) \in SUBSET net
  BY DEF Acks
<1> QED
  BY <1>1, FS_Subset, FS_CardinalityType DEF NetInv

(* A node whose election is left alone, while others vote for others. *)
LEMMA TallyKept ==
    ASSUME NEW n \in Node, NEW e, Tally(n, e),
           \A p \in (Requests(n) \cup Acks(n))' : p \in Requests(n) \cup Acks(n),
           Acks(n)' \subseteq Acks(n), NetInv, Types, count'[n] = count[n],
           phase'[n] = "asked" => phase[n] = "asked" /\ aepoch'[n] = aepoch[n],
           granted \subseteq granted'
    PROVE  Tally(n, e)'
<1>1. Cardinality(Acks(n)') <= Cardinality(Acks(n)) /\ Cardinality(Acks(n)') \in Nat
  <2>1. Acks(n)' \in SUBSET Acks(n)
    OBVIOUS
  <2> QED
    BY <2>1, AcksCount, FS_Subset, FS_CardinalityType
<1>2. Cardinality(Votes(e, n)) <= Cardinality(Votes(e, n)')
  <2>1. Votes(e, n) \in SUBSET (Votes(e, n)') /\ Votes(e, n)' \in SUBSET Node
    BY DEF Votes
  <2>2. IsFiniteSet(Votes(e, n)')
    BY <2>1, NodeFacts, FS_Subset
  <2> QED
    BY <2>1, <2>2, FS_Subset
<1>3. Cardinality(Votes(e, n)') \in Nat
  <2>1. Votes(e, n)' \in SUBSET Node
    BY DEF Votes
  <2> QED
    BY <2>1, NodeFacts, FS_Subset, FS_CardinalityType
<1>4. count[n] \in Nat /\ Cardinality(Acks(n)) \in Nat /\ Cardinality(Votes(e, n)) \in Nat
  BY AcksCount, VotesCount DEF Types
<1>5. count'[n] + Cardinality(Acks(n)') <= Cardinality(Votes(e, n)')
  BY <1>1, <1>2, <1>3, <1>4 DEF Tally
<1> QED
  BY <1>5 DEF Tally

(* clusterHandleSlaveFailover sets an election up: nothing of an earlier   *)
(* one is left.                                                            *)
LEMMA SetUpStep ==
    ASSUME VInv, NEW n \in Node, SetUp(n)
    PROVE  VInv' /\ (~LateVotes /\ CountInv => CountInv')
<1> USE DEF VInv
<1>1. ~LateVotes => net' = {p \in net : n \notin {p.to, p.h.from}}
  BY DEF SetUp
<1>2. /\ phase' = [phase EXCEPT ![n] = "set"] /\ count' = [count EXCEPT ![n] = 0]
      /\ UNCHANGED <<table, saved, aepoch, granted, won>>
  BY DEF SetUp
<1>3. NetInv'
  <2>1. net' \in SUBSET net
    BY DEF SetUp
  <2>2. IsFiniteSet(net')
    BY <2>1, FS_Subset DEF NetInv
  <2> QED
    BY <2>1, <2>2 DEF NetInv
<1>4. Types'
  BY <1>2, NodeFacts, FS_CardinalityType DEF Types
<1>5. VoteInv'
  BY <1>2 DEF VoteInv, Voted, OneVotePerEpoch
<1>6. ASSUME ~LateVotes, CountInv, NEW x \in Node PROVE CountInv!(x)'
  <2>1. CASE x = n
    <3>1. Acks(n)' = {} /\ Requests(n)' = {}
      BY <1>1, <1>6 DEF Acks, Requests
    <3>2. count'[n] = 0 /\ phase'[n] = "set"
      BY <1>2 DEF Types
    <3>3. Cardinality(Acks(n)') = 0
      BY <3>1, FS_EmptySet
    <3>4. Cardinality(Votes(0, n)') \in Nat
      <4>1. Votes(0, n)' = Votes(0, n)
        BY <1>2 DEF Votes
      <4> QED
        BY <4>1, VotesCount
    <3>5. Tally(n, 0)'
      BY <3>1, <3>2, <3>3, <3>4 DEF Tally
    <3>6. 0 \in 0..MaxEpoch
      BY NodeFacts
    <3> QED
      BY <2>1, <3>1, <3>2, <3>5, <3>6
  <2>2. CASE x # n
    <3>1. phase'[x] = phase[x] /\ count'[x] = count[x] /\ aepoch'[x] = aepoch[x]
      BY <1>2, <2>2 DEF Types
    <3>2. Acks(x)' \subseteq Acks(x) /\ Requests(x)' \subseteq Requests(x)
      BY <1>1, <1>6 DEF Acks, Requests
    <3>3. PICK e \in 0..MaxEpoch : Tally(x, e)
      BY <1>6 DEF CountInv
    <3>4. Tally(x, e)'
      BY <1>2, <3>1, <3>2, <3>3, TallyKept
    <3> QED
      BY <1>6, <3>1, <3>2, <3>4 DEF CountInv
  <2> QED
    BY <2>1, <2>2
<1>7. ~LateVotes /\ CountInv => CountInv'
  BY <1>6 DEF CountInv
<1> QED
  BY <1>3, <1>4, <1>5, <1>7

(* clusterRequestFailoverAuth: the request is the first packet of the      *)
(* election.                                                               *)
LEMMA AskStep ==
    ASSUME VInv, NEW n \in Node, Ask(n)
    PROVE  VInv' /\ (CountInv => CountInv')
<1> USE DEF VInv
<1> DEFINE e == table[n].cur + 1
           t == [table[n] EXCEPT !.cur = @ + 1]
           h == [Header(n) EXCEPT !.cur = @ + 1]
           p == [kind |-> "request", to |-> None, h |-> h]
<1>1. /\ phase[n] = "set" /\ table[n].cur < MaxEpoch
      /\ table' = [table EXCEPT ![n] = t] /\ saved' = [saved EXCEPT ![n] = t.cur]
      /\ aepoch' = [aepoch EXCEPT ![n] = t.cur]
      /\ phase' = [phase EXCEPT ![n] = "asked"]
      /\ net' = net \cup {p}
      /\ UNCHANGED <<count, granted, won>>
  BY DEF Ask
<1>2. table[n] \in Table /\ Voted(n)
  BY DEF Types, VoteInv
<1>3. e \in 0..MaxEpoch
  BY <1>1, <1>2, VotedType, NodeFacts
<1>4. t \in Table /\ t.cur = e /\ t.voted = table[n].voted
  BY <1>2, <1>3 DEF Table
<1>5. h \in HeaderType /\ h.from = n /\ h.cur = e
  <2>1. Header(n) \in HeaderType /\ Header(n).from = n /\ Header(n).cur = table[n].cur
    BY <1>2, HeaderOfType DEF Header
  <2> QED
    BY <1>3, <2>1 DEF HeaderType
<1> HIDE DEF t, h
<1>6. p \in Packet /\ p.kind = "request" /\ p.h = h
  BY <1>5 DEF Packet
<1> HIDE DEF p
<1>7. NetInv'
  <2>1. IsFiniteSet(net')
    BY <1>1, FS_AddElement DEF NetInv
  <2> QED
    BY <1>1, <1>6, <2>1 DEF NetInv
<1>8. Steady
  <2>1. table' \in [Node -> Table] /\ saved' \in [Node -> 0..MaxEpoch]
    BY <1>1, <1>3, <1>4 DEF Types
  <2>2. ASSUME NEW x \in Node PROVE Voted(x)' /\ table[x].voted <= table'[x].voted
    <3>1. CASE x = n
      <4>1. table'[x] = t /\ saved'[x] = e
        BY <1>1, <1>4, <3>1 DEF Types
      <4> QED
        BY <1>2, <1>3, <1>4, <3>1, <4>1, VotedType DEF Voted
    <3>2. CASE x # n
      <4>1. table'[x] = table[x] /\ saved'[x] = saved[x] /\ table[x] \in Table
        BY <1>1, <3>2 DEF Types
      <4> QED
        BY <4>1, VotedType DEF Voted, VoteInv
    <3> QED
      BY <3>1, <3>2
  <2> QED
    BY <2>1, <2>2 DEF Steady
<1>9. Types'
  BY <1>1, <1>3, <1>4, <1>8 DEF Types, Steady
<1>10. VoteInv'
  BY <1>1, <1>8, SteadyVotes
<1>11. ASSUME CountInv, NEW x \in Node PROVE CountInv!(x)'
  <2>0. Acks(x)' = Acks(x)
    BY <1>1, <1>6 DEF Acks
  <2>1. CASE x = n
    <3>1. Acks(n) = {} /\ Requests(n)' = {p} /\ count[n] = 0
      BY <1>1, <1>5, <1>6, <1>11 DEF CountInv, Requests
    <3>2. phase'[n] = "asked" /\ aepoch'[n] = e
      BY <1>1, <1>4 DEF Types
    <3>3. Cardinality(Acks(n)') = 0 /\ count'[n] = 0
      BY <1>1, <2>0, <2>1, <3>1, FS_EmptySet
    <3>5. PICK d \in 0..MaxEpoch : d = e
      BY <1>3
    <3>6. Cardinality(Votes(d, n)') \in Nat
      <4>1. Votes(d, n)' \in SUBSET Node
        BY DEF Votes
      <4> QED
        BY <4>1, NodeFacts, FS_Subset, FS_CardinalityType
    <3>7. \A q \in Requests(n)' \cup Acks(n)' : q.h.cur = d
      BY <1>5, <1>6, <2>0, <2>1, <3>1, <3>5
    <3>8. Tally(n, d)'
      BY <3>2, <3>3, <3>5, <3>6, <3>7 DEF Tally
    <3> QED
      BY <2>1, <3>2, <3>8
  <2>2. CASE x # n
    <3>1. phase'[x] = phase[x] /\ count'[x] = count[x] /\ aepoch'[x] = aepoch[x]
      BY <1>1, <2>2 DEF Types
    <3>2. Requests(x)' = Requests(x)
      BY <1>1, <1>5, <1>6, <2>2 DEF Requests
    <3>3. PICK d \in 0..MaxEpoch : Tally(x, d)
      BY <1>11 DEF CountInv
    <3>4. Tally(x, d)'
      BY <1>1, <2>0, <3>1, <3>2, <3>3, TallyKept
    <3> QED
      BY <1>11, <2>0, <3>1, <3>2, <3>4 DEF CountInv
  <2> QED
    BY <2>1, <2>2
<1>12. CountInv => CountInv'
  BY <1>11 DEF CountInv
<1> QED
  BY <1>7, <1>9, <1>10, <1>12

(* A request that arrives and is not granted only brings its epoch. *)
LEMMA HeardStep ==
    ASSUME VInv, NEW p \in net, NEW me \in Node, Request(p, me, FALSE)
    PROVE  VInv' /\ (CountInv => CountInv')
<1> USE DEF VInv
<1> DEFINE t == Learn(table[me], p.h)
<1>1. Put(me, t) /\ UNCHANGED <<net, granted, count, aepoch, won>>
  BY DEF Request
<1>2. table[me] \in Table /\ p.h \in HeaderType /\ Voted(me)
  BY DEF Types, NetInv, Packet, VoteInv
<1>3. Grows(table[me], t)
  BY <1>2, LearnGrows
<1> HIDE DEF t
<1>4. Advances(table[me], t)
  BY <1>2, <1>3, GrowsAdvances DEF Voted
<1>5. Steady /\ Calm
  BY <1>1, <1>4, PutSteady DEF VoteInv
<1>6. VoteInv' /\ (CountInv => CountInv')
  BY <1>1, <1>5, SteadyVotes, CalmCount
<1>7. Types' /\ NetInv'
  BY <1>1, <1>5 DEF Types, NetInv, Steady, Calm
<1> QED
  BY <1>6, <1>7

(* A vote is the first of its node in that epoch. *)
LEMMA VoteStep ==
    ASSUME VInv, NEW p \in net, NEW me \in Node, Request(p, me, TRUE)
    PROVE  VInv' /\ (CountInv => CountInv')
<1> USE DEF VInv
<1> DEFINE l == Learn(table[me], p.h)
           t == [l EXCEPT !.voted = l.cur]
           c == p.h.from
           g == [Header(me) EXCEPT !.cur = l.cur]
           a == [kind |-> "ack", to |-> c, h |-> g]
<1>1. /\ p.kind = "request" /\ Grants(l, me, p.h) /\ Put(me, t)
      /\ net' = net \cup {a}
      /\ granted' = granted \cup {<<l.cur, me, c>>}
      /\ UNCHANGED <<count, aepoch, won>>
  BY DEF Request
<1>2. table[me] \in Table /\ p.h \in HeaderType /\ Voted(me) /\ c \in Node
  BY DEF Types, NetInv, Packet, VoteInv, HeaderType
<1>3. Grows(table[me], l) /\ l.cur = Later(table[me].cur, p.h.cur)
  BY <1>2, LearnGrows
<1>4. p.h.cur >= l.cur /\ l.voted # l.cur
  BY <1>1 DEF Grants
<1> HIDE DEF l
<1>5. l \in Table /\ l.voted = table[me].voted
  BY <1>3 DEF Grows
<1>6. /\ l.cur = p.h.cur /\ l.cur \in 0..MaxEpoch /\ table[me].voted < l.cur
      /\ table[me].voted \in Int
  <2>1. /\ l.cur \in 0..MaxEpoch /\ table[me].voted \in 0..MaxEpoch
        /\ table[me].cur \in 0..MaxEpoch /\ p.h.cur \in 0..MaxEpoch
    BY <1>2, <1>5, VotedType DEF HeaderType
  <2>2. table[me].voted <= table[me].cur
    BY <1>2 DEF Voted
  <2> QED
    BY <1>3, <1>4, <1>5, <2>1, <2>2, NodeFacts DEF Later
<1>7. t \in Table /\ t.voted = l.cur /\ t.cur = l.cur
  BY <1>5, <1>6 DEF Table
<1>8. Advances(table[me], t)
  BY <1>6, <1>7, NodeFacts DEF Advances
<1>9. g \in HeaderType /\ g.from = me /\ g.cur = l.cur
  <2>1. Header(me) \in HeaderType /\ Header(me).from = me
    BY <1>2, HeaderOfType DEF Header
  <2> QED
    BY <1>6, <2>1 DEF HeaderType
<1> HIDE DEF t, g
<1>10. a \in Packet /\ a.kind = "ack" /\ a.to = c /\ a.h = g
  BY <1>2, <1>9 DEF Packet
<1> HIDE DEF a
<1>11. /\ Steady /\ Calm /\ table'[me] = t
       /\ \A x \in Node \ {me} : table'[x] = table[x]
  BY <1>1, <1>8, PutSteady DEF VoteInv
<1>12. Types'
  BY <1>1, <1>11 DEF Types, Steady, Calm
<1>13. NetInv'
  <2>1. IsFiniteSet(net')
    BY <1>1, FS_AddElement DEF NetInv
  <2> QED
    BY <1>1, <1>2, <1>10, <2>1 DEF NetInv
<1>14. \A v \in granted : /\ v[1] \in 0..MaxEpoch /\ v[2] \in Node
                          /\ v[1] <= table[v[2]].voted
  BY DEF VoteInv
<1>15. \A v \in granted : ~ (v[1] = l.cur /\ v[2] = me)
  BY <1>6, <1>14, NodeFacts
<1>16. VoteInv'
  <2>1. granted' \in SUBSET ((0..MaxEpoch) \X Node \X Node)
    BY <1>1, <1>2, <1>6 DEF VoteInv
  <2>2. ASSUME NEW v \in granted' PROVE v[1] <= table'[v[2]].voted
    <3>1. CASE v = <<l.cur, me, c>>
      BY <1>6, <1>7, <1>11, <3>1
    <3>2. CASE v \in granted
      <4>1. table[v[2]] \in Table /\ table'[v[2]] \in Table
             /\ table[v[2]].voted <= table'[v[2]].voted
        BY <1>14, <3>2, <1>11 DEF Types, Steady
      <4> QED
        BY <1>14, <3>2, <4>1, VotedType, NodeFacts
    <3> QED
      BY <1>1, <3>1, <3>2
  <2>3. OneVotePerEpoch'
    <3> SUFFICES ASSUME NEW v \in granted', NEW w \in granted', v[1] = w[1], v[2] = w[2]
                 PROVE  v = w
      BY DEF OneVotePerEpoch
    <3>1. CASE v \in granted /\ w \in granted
      BY <3>1 DEF VoteInv, OneVotePerEpoch
    <3>2. CASE v = <<l.cur, me, c>> /\ w = <<l.cur, me, c>>
      BY <3>2
    <3>3. CASE v \in granted /\ w = <<l.cur, me, c>>
      BY <1>15, <3>3
    <3>4. CASE w \in granted /\ v = <<l.cur, me, c>>
      BY <1>15, <3>4
    <3> QED
      BY <1>1, <3>1, <3>2, <3>3, <3>4
  <2> QED
    BY <1>11, <2>1, <2>2, <2>3 DEF VoteInv, Steady
<1>17. ASSUME CountInv, NEW x \in Node PROVE CountInv!(x)'
  <2>1. PICK e \in 0..MaxEpoch : Tally(x, e)
    BY <1>17 DEF CountInv
  <2>2. Requests(x)' = Requests(x)
    BY <1>1, <1>10 DEF Requests
  <2>3. /\ phase'[x] \in {phase[x], "idle"} /\ count'[x] = count[x]
        /\ aepoch'[x] = aepoch[x]
    BY <1>1, <1>11 DEF Calm
  <2>4. CASE x = c
    <3>1. p \in Requests(c)
      BY <1>1 DEF Requests
    <3>2. e = l.cur
      BY <1>6, <2>1, <2>4, <3>1 DEF Tally
    <3>3. phase[c] # "set"
      BY <1>2, <1>17, <3>1 DEF CountInv
    <3>4. Acks(c)' = Acks(c) \cup {a}
      BY <1>1, <1>10 DEF Acks
    <3>5. /\ Cardinality(Acks(c)') <= Cardinality(Acks(c)) + 1
          /\ Cardinality(Acks(c)) \in Nat /\ Cardinality(Acks(c)') \in Nat
      <4>1. IsFiniteSet(Acks(c)) /\ Cardinality(Acks(c)) \in Nat
        BY AcksCount
      <4>2. Cardinality(Acks(c) \cup {a})
              = IF a \in Acks(c) THEN Cardinality(Acks(c)) ELSE Cardinality(Acks(c)) + 1
        BY <4>1, FS_AddElement
      <4> QED
        BY <3>4, <4>1, <4>2
    <3>6. Cardinality(Votes(e, c)') = Cardinality(Votes(e, c)) + 1
      <4>1. me \notin Votes(e, c)
        BY <1>15, <3>2 DEF Votes
      <4>2. Votes(e, c)' = Votes(e, c) \cup {me}
        BY <1>1, <3>2 DEF Votes
      <4> QED
        BY <4>1, <4>2, VotesCount, FS_AddElement
    <3>7. \A q \in Requests(c)' \cup Acks(c)' : q.h.cur = e
      BY <1>9, <1>10, <2>1, <2>2, <2>4, <3>2, <3>4 DEF Tally
    <3>8. count'[c] + Cardinality(Acks(c)') <= Cardinality(Votes(e, c)')
      <4>1. count[c] \in Nat /\ Cardinality(Votes(e, c)) \in Nat
        BY <1>2, VotesCount DEF Types
      <4>2. count[c] + Cardinality(Acks(c)) <= Cardinality(Votes(e, c))
        BY <2>1, <2>4 DEF Tally
      <4> QED
        BY <2>3, <2>4, <3>5, <3>6, <4>1, <4>2
    <3>9. Tally(c, e)'
      BY <2>1, <2>3, <2>4, <3>7, <3>8 DEF Tally
    <3> QED
      BY <2>3, <2>4, <3>3, <3>9
  <2>5. CASE x # c
    <3>1. Acks(x)' = Acks(x)
      BY <1>1, <1>10, <2>5 DEF Acks
    <3>2. granted \subseteq granted'
      BY <1>1
    <3>3. Tally(x, e)'
      BY <2>1, <2>2, <2>3, <3>1, <3>2, TallyKept
    <3> QED
      BY <1>17, <2>2, <2>3, <3>1, <3>3 DEF CountInv
  <2> QED
    BY <2>4, <2>5
<1>18. CountInv => CountInv'
  BY <1>17 DEF CountInv
<1> QED
  BY <1>12, <1>13, <1>16, <1>18

(* A vote that arrives is counted once. *)
LEMMA AckStep ==
    ASSUME VInv, NEW p \in net, Ack(p)
    PROVE  VInv' /\ (CountInv => CountInv')
<1> USE DEF VInv
<1> DEFINE n == p.to
           t == Learn(table[n], p.h)
<1>1. /\ p.kind = "ack" /\ Put(n, t) /\ net' = net \ {p}
      /\ count' = [count EXCEPT ![n] = @ + 1] \/ count' = count
      /\ UNCHANGED <<aepoch, granted, won>>
  BY DEF Ack
<1>2. n \in Node /\ p.h \in HeaderType
  BY <1>1 DEF NetInv, Packet
<1>3. table[n] \in Table /\ Voted(n)
  BY <1>2 DEF Types, VoteInv
<1>4. Advances(table[n], t)
  BY <1>2, <1>3, LearnGrows, GrowsAdvances DEF Voted
<1> HIDE DEF t
<1>5. Steady /\ Calm
  BY <1>1, <1>2, <1>4, PutSteady DEF VoteInv
<1>6. VoteInv'
  BY <1>1, <1>5, SteadyVotes
<1>7. NetInv'
  <2>1. IsFiniteSet(net')
    BY <1>1, FS_RemoveElement DEF NetInv
  <2> QED
    BY <1>1, <2>1 DEF NetInv
<1>8. p \in Acks(n) /\ Acks(n)' = Acks(n) \ {p}
  BY <1>1 DEF Acks
<1>9. /\ Cardinality(Acks(n)') = Cardinality(Acks(n)) - 1
      /\ Cardinality(Acks(n)) \in Nat /\ Cardinality(Acks(n)') \in Nat
  <2>1. IsFiniteSet(Acks(n)) /\ Cardinality(Acks(n)) \in Nat
    BY AcksCount
  <2>2. IsFiniteSet(Acks(n) \ {p}) /\ Cardinality(Acks(n) \ {p}) = Cardinality(Acks(n)) - 1
    BY <1>8, <2>1, FS_RemoveElement
  <2> QED
    BY <1>8, <2>1, <2>2, FS_CardinalityType
<1>10. /\ count[n] \in Nat /\ count'[n] \in {count[n], count[n] + 1}
       /\ \A x \in Node \ {n} : count'[x] = count[x]
  BY <1>1, <1>2 DEF Types
<1>11. count' \in [Node -> Nat]
  BY <1>1, <1>2 DEF Types
<1>12. Types'
  BY <1>1, <1>5, <1>11 DEF Types, Steady, Calm
<1>13. ASSUME CountInv, NEW x \in Node PROVE CountInv!(x)'
  <2>1. phase'[x] \in {phase[x], "idle"} /\ aepoch'[x] = aepoch[x]
    BY <1>1, <1>5 DEF Calm
  <2>2. Requests(x)' = Requests(x) /\ Acks(x)' \subseteq Acks(x)
    BY <1>1 DEF Requests, Acks
  <2>3. CASE x = n
    <3>1. phase[n] # "set"
      BY <1>2, <1>8, <1>13 DEF CountInv
    <3>2. PICK e \in 0..MaxEpoch : Tally(n, e)
      BY <1>2, <1>13 DEF CountInv
    <3>3. \A q \in Requests(x)' \cup Acks(x)' : q.h.cur = e
      BY <2>2, <2>3, <3>2 DEF Tally
    <3>4. phase'[x] = "asked" => aepoch'[x] = e
      BY <2>1, <2>3, <3>2 DEF Tally
    <3>5. Votes(e, x)' = Votes(e, x)
      BY <1>1 DEF Votes
    <3>6. count'[x] + Cardinality(Acks(x)') <= Cardinality(Votes(e, x))
      BY <1>9, <1>10, <2>3, <3>2, VotesCount DEF Tally
    <3>7. Tally(x, e)'
      BY <3>3, <3>4, <3>5, <3>6 DEF Tally
    <3> QED
      BY <2>1, <2>3, <3>1, <3>7
  <2>4. CASE x # n
    <3>1. count'[x] = count[x]
      BY <1>10, <2>4
    <3>2. PICK d \in 0..MaxEpoch : Tally(x, d)
      BY <1>13 DEF CountInv
    <3>3. Tally(x, d)'
      BY <1>1, <2>1, <2>2, <3>1, <3>2, TallyKept
    <3> QED
      BY <1>13, <2>1, <2>2, <3>1, <3>3 DEF CountInv
  <2> QED
    BY <2>3, <2>4
<1>14. CountInv => CountInv'
  BY <1>13 DEF CountInv
<1> QED
  BY <1>6, <1>7, <1>12, <1>14

(* clusterFailoverReplaceYourMaster *)
LEMMA WinStep ==
    ASSUME VInv, NEW n \in Node, Win(n)
    PROVE  VInv' /\ (CountInv => CountInv')
<1> USE DEF VInv
<1> DEFINE t == table[n]
           m == Moved(t, t.of[n], n)
           e == Later(t.epoch[n], aepoch[n])
           u == [m EXCEPT !.of[n] = None, !.epoch[n] = Later(@, aepoch[n])]
<1>1. MayFailover(n) /\ Put(n, u) /\ UNCHANGED <<count, aepoch, net, granted>>
  BY DEF Win
<1>2. t \in Table /\ Voted(n) /\ aepoch[n] \in 0..MaxEpoch
  BY DEF Types, VoteInv
<1>3. t.of[n] \in Node
  BY <1>1, <1>2 DEF MayFailover, IsMaster, Table
<1>4. Grows(t, m) /\ m \in Table
  BY <1>2, <1>3, MovedGrows DEF Grows
<1> HIDE DEF m
<1>5. Later(m.epoch[n], aepoch[n]) \in 0..MaxEpoch
  BY <1>2, <1>4 DEF Table, Later
<1>6. u = [m EXCEPT !.of[n] = None, !.epoch[n] = Later(m.epoch[n], aepoch[n])]
  BY <1>4 DEF Table
<1>7. Grows(m, u)
  <2> HIDE DEF u
  <2> QED
    BY <1>4, <1>5, <1>6, SetRole
<1> HIDE DEF u
<1>8. Advances(t, u)
  BY <1>2, <1>4, <1>7, GrowsTrans, GrowsAdvances DEF Voted
<1>9. Steady /\ Calm
  BY <1>1, <1>8, PutSteady DEF VoteInv
<1>10. VoteInv' /\ (CountInv => CountInv')
  BY <1>1, <1>9, SteadyVotes, CalmCount
<1>11. Types' /\ NetInv'
  BY <1>1, <1>9 DEF Types, NetInv, Steady, Calm
<1> QED
  BY <1>10, <1>11

(* clusterLoadConfig: the vote is in nodes.conf, and so is an epoch that   *)
(* is not behind it.                                                       *)
LEMMA RestoreGrows ==
    ASSUME NEW t \in Table, NEW e \in 0..MaxEpoch, t.voted <= e
    PROVE  /\ Restore(t, e) \in Table /\ Restore(t, e).voted = t.voted
           /\ t.voted <= Restore(t, e).cur
<1>1. Reloaded(t) \in [Node -> 0..MaxEpoch]
  BY NodeFacts DEF Reloaded, Table
<1> DEFINE S == {e} \cup Range(Reloaded(t))
<1>2. S \in SUBSET (0..MaxEpoch) /\ e \in S
  BY <1>1 DEF Range
<1> HIDE DEF S
<1>3. Max(S) \in 0..MaxEpoch /\ e <= Max(S)
  BY <1>2, MaxEpochs
<1>4. Restore(t, e) = [t EXCEPT !.epoch = Reloaded(t), !.cur = Max(S), !.unsure = {}]
  BY DEF Restore, S
<1>5. /\ Restore(t, e) \in Table /\ Restore(t, e).voted = t.voted
      /\ Restore(t, e).cur = Max(S)
  BY <1>1, <1>3, <1>4 DEF Table
<1> QED
  BY <1>3, <1>5, VotedType, NodeFacts

(* clusterInit of a node that restarts: its own election is forgotten, its *)
(* votes are not.                                                          *)
LEMMA RestartStep ==
    ASSUME VInv, NEW n \in Node, Restart(n)
    PROVE  VInv' /\ (CountInv => CountInv')
<1> USE DEF VInv
<1> DEFINE t == Restore(table[n], saved[n])
<1>1. /\ table' = [table EXCEPT ![n] = t] /\ phase' = [phase EXCEPT ![n] = "idle"]
      /\ count' = [count EXCEPT ![n] = 0] /\ aepoch' = [aepoch EXCEPT ![n] = 0]
      /\ net' = {p \in net : p.to # n}
      /\ UNCHANGED <<saved, granted, won>>
  BY DEF Restart
<1>2. table[n] \in Table /\ saved[n] \in 0..MaxEpoch /\ table[n].voted <= saved[n]
  BY DEF Types, VoteInv, Voted
<1>3. t \in Table /\ t.voted = table[n].voted /\ t.voted <= t.cur
  BY <1>2, RestoreGrows
<1> HIDE DEF t
<1>4. Steady
  <2>1. table' \in [Node -> Table] /\ saved' \in [Node -> 0..MaxEpoch]
    BY <1>1, <1>3 DEF Types
  <2>2. ASSUME NEW x \in Node PROVE Voted(x)' /\ table[x].voted <= table'[x].voted
    <3>1. CASE x = n
      <4>1. table'[x] = t /\ saved'[x] = saved[x]
        BY <1>1, <3>1 DEF Types
      <4> QED
        BY <1>2, <1>3, <3>1, <4>1, VotedType DEF Voted
    <3>2. CASE x # n
      <4>1. table'[x] = table[x] /\ saved'[x] = saved[x] /\ table[x] \in Table
        BY <1>1, <3>2 DEF Types
      <4> QED
        BY <4>1, VotedType DEF Voted, VoteInv
    <3> QED
      BY <3>1, <3>2
  <2> QED
    BY <2>1, <2>2 DEF Steady
<1>5. Types'
  BY <1>1, <1>4, NodeFacts, FS_CardinalityType DEF Types, Steady
<1>6. VoteInv'
  BY <1>1, <1>4, SteadyVotes
<1>7. NetInv'
  <2>1. net' \in SUBSET net
    BY <1>1
  <2>2. IsFiniteSet(net')
    BY <2>1, FS_Subset DEF NetInv
  <2> QED
    BY <2>1, <2>2 DEF NetInv
<1>8. ASSUME CountInv, NEW x \in Node PROVE CountInv!(x)'
  <2>1. PICK e \in 0..MaxEpoch : Tally(x, e)
    BY <1>8 DEF CountInv
  <2>2. Acks(x)' \subseteq Acks(x) /\ Requests(x)' \subseteq Requests(x)
    BY <1>1 DEF Acks, Requests
  <2>3. CASE x = n
    <3>1. Acks(x)' = {}
      BY <1>1, <2>3 DEF Acks
    <3>2. count'[x] = 0 /\ phase'[x] = "idle"
      BY <1>1, <2>3 DEF Types
    <3>3. Cardinality(Acks(x)') = 0
      BY <3>1, FS_EmptySet
    <3>4. Cardinality(Votes(e, x)') \in Nat
      <4>1. Votes(e, x)' = Votes(e, x)
        BY <1>1 DEF Votes
      <4> QED
        BY <4>1, VotesCount
    <3>5. \A q \in Requests(x)' \cup Acks(x)' : q.h.cur = e
      BY <2>1, <2>2 DEF Tally
    <3>6. Tally(x, e)'
      BY <3>2, <3>3, <3>4, <3>5 DEF Tally
    <3> QED
      BY <3>2, <3>6
  <2>4. CASE x # n
    <3>1. phase'[x] = phase[x] /\ count'[x] = count[x] /\ aepoch'[x] = aepoch[x]
      BY <1>1, <2>4 DEF Types
    <3>2. Tally(x, e)'
      BY <1>1, <2>1, <2>2, <3>1, TallyKept
    <3> QED
      BY <1>8, <2>2, <3>1, <3>2 DEF CountInv
  <2> QED
    BY <2>3, <2>4
<1>9. CountInv => CountInv'
  BY <1>8 DEF CountInv
<1> QED
  BY <1>5, <1>6, <1>7, <1>9

-----------------------------------------------------------------------------
(* A cluster at rest satisfies the invariant. *)
LEMMA InitCInv == Init => CInv
<1> SUFFICES ASSUME Init PROVE CInv
  OBVIOUS
<1>1. ASSUME NEW n \in Node PROVE FirstCurrent \in 0..MaxEpoch
  <2>1. Master # {}
    BY ClusterAssumption
  <2>2. Range(FirstEpoch) \in SUBSET (0..MaxEpoch) /\ Range(FirstEpoch) # {}
    <3>1. DOMAIN FirstEpoch = Master /\ \A m \in Master : FirstEpoch[m] \in 0..MaxEpoch
      BY ClusterAssumption
    <3> QED
      BY <2>1, <3>1 DEF Range
  <2> QED
    BY <2>2, MaxEpochs DEF FirstCurrent
<1>2. \A n \in Node : FirstMaster(n) \in Master /\ FirstEpoch[FirstMaster(n)] \in 0..MaxEpoch
  BY ClusterAssumption DEF FirstMaster
<1>3. \A n \in Node \ Master : ReplicaOf[n] \in Node
  BY ClusterAssumption
<1>4. 0 \in 0..MaxEpoch
  BY NodeFacts
<1>5. ASSUME NEW n \in Node
      PROVE  table[n] \in Table /\ table[n].voted = 0 /\ table[n].cur \in 0..MaxEpoch
  <2> DEFINE ep == [x \in Node |-> IF x = n /\ x \notin Master
                                   THEN 0 ELSE FirstEpoch[FirstMaster(x)]]
             of == [x \in Node |-> IF x \in Master THEN None ELSE ReplicaOf[x]]
             own == [s \in Slot |-> s]
  <2>1. ep \in [Node -> 0..MaxEpoch]
    BY <1>2, <1>4
  <2>2. of \in [Node -> Node \cup {None}]
    BY <1>3
  <2>3. own \in [Slot -> Node]
    BY NodeFacts
  <2>4. table[n] = [cur |-> FirstCurrent, voted |-> 0, epoch |-> ep, of |-> of,
                    owner |-> own, unsure |-> {}]
    BY DEF Init
  <2> HIDE DEF ep, of, own
  <2> QED
    BY <1>1, <1>4, <2>1, <2>2, <2>3, <2>4 DEF Table
<1>6. Types
  <2>1. table \in [Node -> Table]
    BY <1>5 DEF Init
  <2>2. saved \in [Node -> 0..MaxEpoch]
    BY <1>1 DEF Init
  <2>3. count \in [Node -> Nat] /\ aepoch \in [Node -> 0..MaxEpoch]
    BY <1>4 DEF Init
  <2>4. phase \in [Node -> {"idle", "set", "asked"}]
    BY DEF Init
  <2> QED
    BY <2>1, <2>2, <2>3, <2>4 DEF Types
<1>7. NetInv
  BY FS_EmptySet DEF Init, NetInv
<1>8. VoteInv
  <2>1. ASSUME NEW n \in Node PROVE Voted(n)
    BY <1>1, <1>5, NodeFacts DEF Voted, Init
  <2> QED
    BY <2>1 DEF Init, VoteInv, OneVotePerEpoch
<1>9. CountInv
  <2> SUFFICES ASSUME NEW n \in Node PROVE CountInv!(n)
    BY DEF CountInv
  <2>1. Acks(n) = {} /\ Requests(n) = {} /\ phase[n] = "idle" /\ count[n] = 0
    BY DEF Init, Acks, Requests
  <2>2. Cardinality(Acks(n)) = 0 /\ Cardinality(Votes(0, n)) \in Nat
    BY <2>1, FS_EmptySet, VotesCount
  <2>3. Tally(n, 0)
    BY <2>1, <2>2 DEF Tally
  <2> QED
    BY <1>4, <2>1, <2>3
<1> QED
  BY <1>6, <1>7, <1>8, <1>9 DEF CInv, VInv

(* Every step keeps what is said of votes and, if no vote is late, of      *)
(* elections.                                                              *)
LEMMA NextStep ==
    ASSUME VInv, [Next]_vars
    PROVE  VInv' /\ (~LateVotes /\ CountInv => CountInv')
<1>1. CASE UNCHANGED vars
  <2>1. Types' /\ NetInv'
    BY <1>1 DEF VInv, Types, NetInv, vars
  <2>2. Steady /\ Calm
    <3>1. \A x \in Node : table[x].voted <= table'[x].voted /\ table[x] \in Table
      <4>1. \A x \in Node : table[x] \in Table /\ table'[x] = table[x]
        BY <1>1 DEF VInv, Types, vars
      <4> QED
        BY <4>1, VotedType
    <3> QED
      BY <1>1, <3>1 DEF VInv, Types, VoteInv, Voted, Steady, Calm, vars
  <2>3. VoteInv' /\ (CountInv => CountInv')
    BY <1>1, <2>2, SteadyVotes, CalmCount DEF VInv, vars
  <2> QED
    BY <2>1, <2>3 DEF VInv
<1>2. ASSUME NEW n \in MayCrash, Restart(n)
      PROVE  VInv' /\ (CountInv => CountInv')
  <2>1. n \in Node
    BY ClusterAssumption
  <2> QED
    BY <1>2, <2>1, RestartStep
<1>3. ASSUME NEW p \in net, NEW me \in Node, NEW vote \in BOOLEAN, Request(p, me, vote)
      PROVE  VInv' /\ (CountInv => CountInv')
  <2>1. CASE vote = TRUE
    BY <1>3, <2>1, VoteStep
  <2>2. CASE vote = FALSE
    BY <1>3, <2>2, HeardStep
  <2> QED
    BY <2>1, <2>2
<1> QED
  BY <1>1, <1>2, <1>3, HeartbeatStep, SetUpStep, AskStep, WinStep, AckStep DEF Next

(* What holds of tables, packets and votes, whatever is late. *)
THEOREM VoteInvariant == Spec => []VInv
<1>1. Init => VInv
  BY InitCInv DEF CInv
<1>2. VInv /\ [Next]_vars => VInv'
  BY NextStep
<1> QED
  BY <1>1, <1>2, PTL DEF Spec

(* No node votes for two others in one epoch, whatever requests are late,  *)
(* lost or repeated and however often the node restarts from nodes.conf.   *)
THEOREM VotesOnce == Spec => []OneVotePerEpoch
<1>1. VInv => OneVotePerEpoch
  BY DEF VInv, VoteInv
<1> QED
  BY <1>1, VoteInvariant, PTL

(* The inductive invariant of elections, if votes do not outlive theirs. *)
THEOREM ElectionInvariant ==
    ASSUME ~LateVotes
    PROVE  Spec => []CInv
<1>1. CInv /\ [Next]_vars => CInv'
  BY NextStep DEF CInv
<1> QED
  BY <1>1, InitCInv, PTL DEF Spec

(* The tables stay well formed, and failover_auth_count does not exceed    *)
(* the number of nodes.                                                    *)
THEOREM ClusterTypes ==
    ASSUME ~LateVotes
    PROVE  Spec => []TypeOK
<1>1. CInv => TypeOK
  <2> SUFFICES ASSUME CInv PROVE TypeOK
    OBVIOUS
  <2>1. ASSUME NEW n \in Node PROVE count[n] \in 0..Cardinality(Node)
    <3>1. PICK e \in 0..MaxEpoch : Tally(n, e)
      BY DEF CInv, CountInv
    <3>2. count[n] \in Nat /\ Cardinality(Acks(n)) \in Nat
      BY AcksCount DEF CInv, VInv, Types
    <3> QED
      BY <3>1, <3>2, VotesCount DEF Tally
  <2>2. count \in [Node -> 0..Cardinality(Node)]
    <3>1. count = [n \in Node |-> count[n]]
      BY DEF CInv, VInv, Types
    <3> QED
      BY <2>1, <3>1
  <2> QED
    BY <2>2 DEF CInv, VInv, Types, TypeOK
<1> QED
  BY <1>1, ElectionInvariant, PTL

(* A node takes its master's slots over only with a majority of the nodes  *)
(* it knows as masters, all of which voted for it in that epoch.           *)
THEOREM WinsByMajority ==
    ASSUME ~LateVotes
    PROVE  Spec => WonByMajority
<1>1. ASSUME CInv, [Next]_vars
      PROVE  [\A n \in Node : Win(n) => Cardinality(Votes(aepoch[n], n)) >= Quorum(table[n])]_vars
  <2> SUFFICES ASSUME NEW n \in Node, Win(n)
               PROVE  Cardinality(Votes(aepoch[n], n)) >= Quorum(table[n])
    OBVIOUS
  <2>2. phase[n] = "asked" /\ count[n] >= Quorum(table[n])
    BY DEF Win
  <2>4. Tally(n, aepoch[n])
    BY <1>1, <2>2 DEF CInv, CountInv, Tally
  <2>5. /\ count[n] \in Nat /\ Cardinality(Acks(n)) \in Nat
        /\ Cardinality(Votes(aepoch[n], n)) \in Nat
    BY <1>1, AcksCount, VotesCount DEF CInv, VInv, Types
  <2>6. Quorum(table[n]) \in Int
    <3> DEFINE M == {x \in Node : IsMaster(table[n], x) /\ SlotsOf(table[n], x) # {}}
    <3>1. M \in SUBSET Node
      OBVIOUS
    <3>2. Quorum(table[n]) = Cardinality(M) \div 2 + 1
      BY DEF Quorum
    <3> HIDE DEF M
    <3>3. Cardinality(M) \in Nat
      BY <3>1, NodeFacts, FS_Subset, FS_CardinalityType
    <3> QED
      BY <3>2, <3>3
  <2> QED
    BY <2>2, <2>4, <2>5, <2>6 DEF Tally
<1> QED
  BY <1>1, ElectionInvariant, PTL DEF Spec, WonByMajority

-----------------------------------------------------------------------------
(* Slots move forward *)

(* A node has u for t: slots whose owner claims them go to owners with no  *)
(* older epoch.                                                            *)
Onward(t, u) ==
    \A s \in Slot : u.owner[s] # t.owner[s] /\ Claimed(t, s)
                      => u.epoch[u.owner[s]] >= t.epoch[t.owner[s]]

(* Epochs that do not fall, and slots that stay where they are. *)
Risen(t, u) ==
    /\ u.owner = t.owner /\ u.unsure = t.unsure
    /\ \A x \in Node : u.epoch[x] >= t.epoch[x]

(* The parts of a table that slots are about. *)
LEMMA TableFields ==
    ASSUME NEW t \in Table
    PROVE  /\ t.epoch \in [Node -> 0..MaxEpoch] /\ t.owner \in [Slot -> Node]
           /\ t.of \in [Node -> Node \cup {None}]
           /\ \A x \in Node : t.epoch[x] \in Int
           /\ \A s \in Slot : t.owner[s] \in Node
  BY NodeFacts DEF Table

(* The fields of a header. *)
LEMMA HeaderFields ==
    ASSUME NEW h \in HeaderType
    PROVE  /\ h.from \in Node /\ h.epoch \in 0..MaxEpoch /\ h.epoch \in Int
           /\ h.of \in Node \cup {None} /\ h.slots \in SUBSET Slot
  BY NodeFacts DEF HeaderType

(* The sender's epoch is learnt. *)
LEMMA LearnRises ==
    ASSUME NEW t \in Table, NEW h \in HeaderType
    PROVE  /\ Learn(t, h) \in Table /\ Risen(t, Learn(t, h))
           /\ Learn(t, h).epoch[h.from] >= h.epoch
           /\ Learn(t, h).of = t.of
<1> DEFINE ep == [t.epoch EXCEPT ![h.from] = Later(t.epoch[h.from], h.epoch)]
<1>1. Learn(t, h) = [t EXCEPT !.cur = Later(t.cur, h.cur), !.epoch = ep]
  BY DEF Learn, Table
<1>2. Learn(t, h) \in Table /\ Learn(t, h).of = t.of
  BY LearnGrows DEF Grows
<1>3. /\ Learn(t, h).epoch = ep /\ Learn(t, h).owner = t.owner /\ Learn(t, h).unsure = t.unsure
  BY <1>1 DEF Table
<1>4. ep[h.from] >= h.epoch /\ \A x \in Node : ep[x] >= t.epoch[x]
  BY TableFields, HeaderFields DEF Later
<1> QED
  BY <1>2, <1>3, <1>4 DEF Risen

(* The sender is a master. *)
LEMMA SwitchToMaster ==
    ASSUME NEW t \in Table, NEW h \in HeaderType, h.of = None
    PROVE  /\ SwitchRole(t, h).owner = t.owner /\ SwitchRole(t, h).unsure = t.unsure
           /\ SwitchRole(t, h).epoch = t.epoch /\ IsMaster(SwitchRole(t, h), h.from)
           /\ SwitchRole(t, h) \in Table
<1>1. SwitchRole(t, h) = [t EXCEPT !.of = [t.of EXCEPT ![h.from] = None]]
  BY DEF SwitchRole, Table
<1>2. SwitchRole(t, h) \in Table
  BY SwitchRoleGrows DEF Grows
<1>3. h.from \in Node /\ t.of \in [Node -> Node \cup {None}]
  BY TableFields, HeaderFields
<1> QED
  BY <1>1, <1>2, <1>3 DEF IsMaster, Table

(* The sender is a replica: its slots go to its master, which gets its     *)
(* epoch.                                                                  *)
LEMMA SwitchToReplica ==
    ASSUME NEW t \in Table, NEW h \in HeaderType, h.of # None
    PROVE  /\ ~IsMaster(SwitchRole(t, h), h.from) /\ SwitchRole(t, h) \in Table
           /\ \A s \in Slot : SwitchRole(t, h).owner[s] # t.owner[s]
                 => /\ SwitchRole(t, h).epoch[SwitchRole(t, h).owner[s]] = h.epoch
                    /\ t.epoch[t.owner[s]] <= h.epoch
<1> DEFINE failedOver == IsMaster(t, h.from) /\ t.epoch[h.from] <= h.epoch
           own == [s \in Slot |-> IF t.owner[s] = h.from THEN h.of ELSE t.owner[s]]
           ep == [t.epoch EXCEPT ![h.of] = h.epoch]
           v == [t EXCEPT !.owner = own, !.unsure = t.unsure \ SlotsOf(t, h.from),
                          !.of = [t.of EXCEPT ![h.of] = None], !.epoch = ep]
           u == IF failedOver THEN v ELSE t
<1>1. /\ h.from \in Node /\ h.of \in Node /\ t.of \in [Node -> Node \cup {None}]
      /\ t.owner \in [Slot -> Node] /\ t.epoch \in [Node -> 0..MaxEpoch]
  BY TableFields, HeaderFields
<1>2. SwitchRole(t, h) = [u EXCEPT !.of = [u.of EXCEPT ![h.from] = h.of]]
  <2>1. Moved(t, h.from, h.of) = [t EXCEPT !.owner = own, !.unsure = t.unsure \ SlotsOf(t, h.from)]
    BY DEF Moved, Table
  <2>2. [Moved(t, h.from, h.of) EXCEPT !.of[h.of] = None, !.epoch[h.of] = h.epoch] = v
    BY <2>1 DEF Table
  <2>3. u = IF h.of # None /\ IsMaster(t, h.from) /\ t.epoch[h.from] <= h.epoch
            THEN [Moved(t, h.from, h.of) EXCEPT !.of[h.of] = None, !.epoch[h.of] = h.epoch]
            ELSE t
    BY <2>2
  <2> HIDE DEF u, v, own, ep, failedOver
  <2>4. SwitchRole(t, h) = [u EXCEPT !.of[h.from] = h.of]
    BY <2>3, Zenon DEF SwitchRole
  <2>5. u = t \/ u = v
    BY DEF u
  <2>6. [u EXCEPT !.of[h.from] = h.of] = [u EXCEPT !.of = [u.of EXCEPT ![h.from] = h.of]]
    BY <2>5 DEF v, Table
  <2> QED
    BY <2>4, <2>6
<1>3. /\ v.owner = own /\ v.epoch = ep /\ v.of = [t.of EXCEPT ![h.of] = None]
      /\ [v EXCEPT !.of = [v.of EXCEPT ![h.from] = h.of]].owner = own
      /\ [v EXCEPT !.of = [v.of EXCEPT ![h.from] = h.of]].epoch = ep
      /\ [v EXCEPT !.of = [v.of EXCEPT ![h.from] = h.of]].of[h.from] = h.of
      /\ [t EXCEPT !.of = [t.of EXCEPT ![h.from] = h.of]].owner = t.owner
      /\ [t EXCEPT !.of = [t.of EXCEPT ![h.from] = h.of]].of[h.from] = h.of
  BY <1>1 DEF Table
<1>4. SwitchRole(t, h) \in Table
  BY SwitchRoleGrows DEF Grows
<1> HIDE DEF v
<1>5. ASSUME NEW s \in Slot, own[s] # t.owner[s], failedOver
      PROVE  ep[own[s]] = h.epoch /\ t.epoch[t.owner[s]] <= h.epoch
  BY <1>1, <1>5
<1> HIDE DEF own, ep, failedOver
<1>6. CASE failedOver
  <2>1. SwitchRole(t, h) = [v EXCEPT !.of = [v.of EXCEPT ![h.from] = h.of]]
    BY <1>2, <1>6
  <2>2. SwitchRole(t, h).owner = own /\ SwitchRole(t, h).epoch = ep /\ SwitchRole(t, h).of[h.from] = h.of
    BY <1>3, <2>1
  <2> QED
    BY <1>4, <1>5, <1>6, <2>2 DEF IsMaster
<1>7. CASE ~failedOver
  <2>1. SwitchRole(t, h) = [t EXCEPT !.of = [t.of EXCEPT ![h.from] = h.of]]
    BY <1>2, <1>7
  <2>2. SwitchRole(t, h).owner = t.owner /\ SwitchRole(t, h).of[h.from] = h.of
    BY <1>3, <2>1
  <2> QED
    BY <1>4, <2>2 DEF IsMaster
<1> QED
  BY <1>6, <1>7

(* A node takes slots with no owner that claims them, and those of an      *)
(* older epoch.                                                            *)
LEMMA UpdateSlotsTakes ==
    ASSUME NEW t \in Table, NEW me \in Node, NEW n \in Node, NEW e \in 0..MaxEpoch,
           NEW slots \in SUBSET Slot
    PROVE  /\ UpdateSlots(t, me, n, e, slots).epoch = t.epoch
           /\ UpdateSlots(t, me, n, e, slots).cur = t.cur
           /\ \A x \in Node \ {me} : UpdateSlots(t, me, n, e, slots).of[x] = t.of[x]
           /\ \A s \in Slot : UpdateSlots(t, me, n, e, slots).owner[s] =
                 IF n # me /\ s \in slots /\ t.owner[s] # n
                       /\ (Claimed(t, s) => t.epoch[t.owner[s]] < e)
                 THEN n ELSE t.owner[s]
<1> DEFINE taken == {s \in slots : /\ t.owner[s] # n
                                   /\ Claimed(t, s) => t.epoch[t.owner[s]] < e}
           own == [s \in Slot |-> IF s \in taken THEN n ELSE t.owner[s]]
           uns == (t.unsure \ (taken \cup (slots \cap SlotsOf(t, n))))
                     \cup (SlotsOf(t, n) \ slots)
           u == [t EXCEPT !.owner = own, !.unsure = uns]
           mine == MasterOf(t, me)
           boss == u.of[me]
           r == UpdateSlots(t, me, n, e, slots)
<1>1. r = IF n = me THEN t
          ELSE IF taken \cap SlotsOf(t, mine) # {} /\ SlotsOf(u, mine) = {}
          THEN [u EXCEPT !.of[me] = n]
          ELSE IF boss # None /\ u.of[boss] \notin {None, me}
          THEN [u EXCEPT !.of[me] = u.of[boss]]
          ELSE u
  BY DEF UpdateSlots, Table
<1>2. \A s \in Slot : own[s] = IF s \in slots /\ t.owner[s] # n
                                   /\ (Claimed(t, s) => t.epoch[t.owner[s]] < e) THEN n ELSE t.owner[s]
  OBVIOUS
<1> HIDE DEF own, uns, taken, mine
<1>3. ASSUME NEW m PROVE /\ [u EXCEPT !.of[me] = m].epoch = t.epoch /\ [u EXCEPT !.of[me] = m].owner = own
                         /\ [u EXCEPT !.of[me] = m].cur = t.cur
                         /\ \A x \in Node \ {me} : [u EXCEPT !.of[me] = m].of[x] = t.of[x]
  BY DEF Table
<1>4. u.epoch = t.epoch /\ u.owner = own /\ u.cur = t.cur /\ u.of = t.of
  BY DEF Table
<1> HIDE DEF u, boss, r
<1>5. CASE n = me
  <2>1. r = t
    BY <1>1, <1>5
  <2> QED
    BY <1>5, <2>1 DEF r
<1>6. CASE n # me
  <2>1. r.epoch = t.epoch /\ r.owner = own /\ r.cur = t.cur /\ \A x \in Node \ {me} : r.of[x] = t.of[x]
    BY <1>1, <1>3, <1>4, <1>6
  <2> QED
    BY <1>2, <1>6, <2>1 DEF r
<1> QED
  BY <1>5, <1>6

(* Nothing moves. *)
LEMMA RisenOnward ==
    ASSUME NEW t, NEW u, u.owner = t.owner
    PROVE  Onward(t, u)
  BY DEF Onward

(* A claim under epoch e, in a table with newer epochs. *)
LEMMA ClaimOnward ==
    ASSUME NEW t \in Table, NEW u \in Table, Risen(t, u), NEW me \in Node, NEW n \in Node,
           NEW e \in 0..MaxEpoch, NEW slots \in SUBSET Slot, u.epoch[n] >= e
    PROVE  Onward(t, UpdateSlots(u, me, n, e, slots))
<1> DEFINE r == UpdateSlots(u, me, n, e, slots)
<1>1. /\ r.epoch = u.epoch
      /\ \A s \in Slot : r.owner[s] = IF n # me /\ s \in slots /\ u.owner[s] # n
                                         /\ (Claimed(u, s) => u.epoch[u.owner[s]] < e)
                                       THEN n ELSE u.owner[s]
  BY UpdateSlotsTakes
<1> HIDE DEF r
<1> SUFFICES ASSUME NEW s \in Slot, r.owner[s] # t.owner[s], Claimed(t, s)
             PROVE  r.epoch[r.owner[s]] >= t.epoch[t.owner[s]]
  BY DEF Onward, r
<1>2. Claimed(u, s) /\ u.owner[s] = t.owner[s] /\ t.owner[s] \in Node
  BY TableFields DEF Risen, Claimed
<1>3. r.owner[s] = n /\ u.epoch[t.owner[s]] < e
  BY <1>1, <1>2
<1>4. /\ u.epoch[t.owner[s]] >= t.epoch[t.owner[s]] /\ u.epoch[t.owner[s]] \in Int
      /\ t.epoch[t.owner[s]] \in Int /\ u.epoch[n] \in Int /\ e \in Int
  BY <1>2, TableFields, NodeFacts DEF Risen
<1> QED
  BY <1>1, <1>3, <1>4

(* A PING or PONG. *)
LEMMA RebindOnward ==
    ASSUME NEW t \in Table, NEW me \in Node, NEW h \in HeaderType
    PROVE  Onward(t, Rebind(t, me, h))
<1> DEFINE l == Learn(t, h)
           u == SwitchRole(l, h)
<1>1. l \in Table /\ Risen(t, l) /\ l.epoch[h.from] >= h.epoch
  BY LearnRises
<1>2. h.from \in Node /\ h.epoch \in 0..MaxEpoch /\ h.slots \in SUBSET Slot
  BY HeaderFields
<1>3. Rebind(t, me, h) = IF IsMaster(u, h.from) /\ Dirty(u, h)
                         THEN UpdateSlots(u, me, h.from, h.epoch, h.slots) ELSE u
  BY DEF Rebind
<1> HIDE DEF l, u
<1>4. CASE h.of = None
  <2>1. u.owner = l.owner /\ u.unsure = l.unsure /\ u.epoch = l.epoch /\ u \in Table
    BY <1>1, <1>4, SwitchToMaster DEF u
  <2>2. Risen(t, u) /\ u.epoch[h.from] >= h.epoch /\ u.owner = t.owner
    BY <1>1, <2>1 DEF Risen
  <2> QED
    BY <1>2, <1>3, <2>1, <2>2, ClaimOnward, RisenOnward
<1>5. CASE h.of # None
  <2>1. /\ ~IsMaster(u, h.from)
        /\ \A s \in Slot : u.owner[s] # l.owner[s]
              => u.epoch[u.owner[s]] = h.epoch /\ l.epoch[l.owner[s]] <= h.epoch
    BY <1>1, <1>5, SwitchToReplica DEF u
  <2>2. ASSUME NEW s \in Slot, u.owner[s] # t.owner[s]
        PROVE  u.epoch[u.owner[s]] >= t.epoch[t.owner[s]]
    <3>1. l.owner[s] = t.owner[s] /\ t.owner[s] \in Node
      BY <1>1, TableFields DEF Risen
    <3>2. u.epoch[u.owner[s]] = h.epoch /\ l.epoch[t.owner[s]] <= h.epoch
      BY <2>1, <2>2, <3>1
    <3>3. l.epoch[t.owner[s]] >= t.epoch[t.owner[s]]
      BY <1>1, <3>1 DEF Risen
    <3>4. l.epoch[t.owner[s]] \in Int /\ t.epoch[t.owner[s]] \in Int /\ h.epoch \in Int
      BY <1>1, <3>1, TableFields, HeaderFields
    <3> QED
      BY <3>2, <3>3, <3>4
  <2>3. Rebind(t, me, h) = u
    BY <1>3, <2>1
  <2> QED
    BY <2>2, <2>3 DEF Onward
<1> QED
  BY <1>4, <1>5

(* A PING or PONG of a master gives the node itself no slot. *)
LEMMA RebindMine ==
    ASSUME NEW t \in Table, NEW me \in Node, NEW h \in HeaderType, h.from # me,
           IsMaster(Rebind(t, me, h), h.from)
    PROVE  \A s \in Slot : Rebind(t, me, h).owner[s] = me => t.owner[s] = me
<1> DEFINE l == Learn(t, h)
           u == SwitchRole(l, h)
           r == UpdateSlots(u, me, h.from, h.epoch, h.slots)
<1>1. l \in Table /\ Risen(t, l)
  BY LearnRises
<1>2. h.from \in Node /\ h.epoch \in 0..MaxEpoch /\ h.slots \in SUBSET Slot
  BY HeaderFields
<1>3. Rebind(t, me, h) = IF IsMaster(u, h.from) /\ Dirty(u, h) THEN r ELSE u
  BY DEF Rebind
<1> HIDE DEF l
<1>4. h.of = None
  BY <1>1, <1>3, SwitchToReplica
<1>5. u.owner = l.owner /\ u \in Table
  BY <1>1, <1>4, SwitchToMaster
<1> HIDE DEF u
<1>6. \A s \in Slot : r.owner[s] \in {h.from, u.owner[s]}
  BY <1>2, <1>5, UpdateSlotsTakes
<1> HIDE DEF r
<1> QED
  BY <1>1, <1>3, <1>5, <1>6 DEF Risen

(* An UPDATE. *)
LEMMA OnUpdateOnward ==
    ASSUME NEW t \in Table, NEW me \in Node, NEW h \in HeaderType, NEW x \in Node,
           NEW e \in 0..MaxEpoch, NEW slots \in SUBSET Slot
    PROVE  Onward(t, OnUpdate(t, me, h, x, e, slots))
<1> DEFINE u == Learn(t, h)
           v == [u EXCEPT !.of[x] = None, !.epoch[x] = e]
<1>1. u \in Table /\ Risen(t, u)
  BY LearnRises
<1>2. OnUpdate(t, me, h, x, e, slots)
        = IF u.epoch[x] >= e THEN u ELSE UpdateSlots(v, me, x, e, slots)
  BY DEF OnUpdate
<1> HIDE DEF u
<1>3. CASE u.epoch[x] >= e
  BY <1>1, <1>2, <1>3, RisenOnward DEF Risen
<1>4. CASE ~(u.epoch[x] >= e)
  <2>1. Grows(u, v)
    BY <1>1, SetRole
  <2>2. /\ v.owner = u.owner /\ v.unsure = u.unsure
        /\ v.epoch = [u.epoch EXCEPT ![x] = e]
    BY <1>1 DEF Table
  <2> HIDE DEF v
  <2>3. \A y \in Node : v.epoch[y] >= t.epoch[y]
    <3> SUFFICES ASSUME NEW y \in Node PROVE v.epoch[y] >= t.epoch[y]
      OBVIOUS
    <3>1. u.epoch[y] >= t.epoch[y] /\ u.epoch[y] \in Int /\ t.epoch[y] \in Int /\ e \in Int
      BY <1>1, TableFields, NodeFacts DEF Risen
    <3>2. u.epoch \in [Node -> 0..MaxEpoch]
      BY <1>1, TableFields
    <3> QED
      BY <1>4, <2>2, <3>1, <3>2
  <2>4. Risen(t, v) /\ v.epoch[x] >= e
    <3>1. v.epoch[x] = e /\ e \in Int
      BY <1>1, <2>2, TableFields, NodeFacts
    <3> QED
      BY <1>1, <2>2, <2>3, <3>1 DEF Risen
  <2>5. v \in Table
    BY <2>1 DEF Grows
  <2>6. Onward(t, UpdateSlots(v, me, x, e, slots))
    BY <2>4, <2>5, ClaimOnward
  <2> QED
    BY <1>2, <1>4, <2>6
<1> QED
  BY <1>3, <1>4

(* A collision of epochs moves no slot. *)
LEMMA CollisionOnward ==
    ASSUME NEW t \in Table, NEW u \in Table, NEW me \in Node, NEW h \in HeaderType, Onward(t, u),
           IsMaster(u, h.from) => \A s \in Slot : u.owner[s] = me => t.owner[s] = me
    PROVE  Onward(t, Collision(u, me, h))
<1> DEFINE c == [u EXCEPT !.cur = u.cur + 1, !.epoch = [u.epoch EXCEPT ![me] = u.cur + 1]]
<1>1. Collision(u, me, h) = u \/ (Collision(u, me, h) = c /\ IsMaster(u, h.from))
  BY DEF Collision, Table
<1>2. c.owner = u.owner /\ \A x \in Node \ {me} : c.epoch[x] = u.epoch[x]
  BY DEF Table
<1> HIDE DEF c
<1>3. ASSUME IsMaster(u, h.from) PROVE Onward(t, c)
  <2> SUFFICES ASSUME NEW s \in Slot, c.owner[s] # t.owner[s], Claimed(t, s)
               PROVE  c.epoch[c.owner[s]] >= t.epoch[t.owner[s]]
    BY DEF Onward
  <2>1. c.owner[s] = u.owner[s] /\ u.owner[s] \in Node
    BY <1>2, TableFields
  <2>2. u.owner[s] # me
    BY <1>3, <2>1
  <2> QED
    BY <1>2, <2>1, <2>2 DEF Onward
<1> QED
  BY <1>1, <1>3

(* A step moves slots forward in every table but that of a winner. *)
Onwards == \A n \in Node : Win(n) \/ Onward(table[n], table'[n])

(* A heartbeat does. *)
LEMMA HeartbeatOnward ==
    ASSUME VInv, NEW n \in Node, NEW m \in Node, n # m, Heartbeat(n, m)
    PROVE  Onwards
<1>0. table \in [Node -> Table] /\ table[n] \in Table /\ table[m] \in Table
  BY DEF VInv, Types
<1> DEFINE h == Header(n)
           t == Rebind(table[m], m, h)
           u == Collision(t, m, h)
           k == HeaderOf(t, m)
<1>1. h \in HeaderType
  BY <1>0, HeaderOfType DEF Header
<1>2. \/ Put(m, u)
      \/ \E x \in Outdated(t, h) :
            PutBoth(m, u, n, OnUpdate(table[n], n, k, x, t.epoch[x], SlotsOf(t, x)))
  BY DEF Heartbeat
<1> HIDE DEF h
<1>3. t \in Table /\ Onward(table[m], t)
  BY <1>0, <1>1, RebindGrows, RebindOnward DEF Grows
<1> HIDE DEF t
<1>4. Onward(table[m], u)
  <2>1. h.from # m
    BY DEF h, Header, HeaderOf
  <2>2. IsMaster(t, h.from) => \A s \in Slot : t.owner[s] = m => table[m].owner[s] = m
    BY <1>0, <1>1, <2>1, RebindMine DEF t
  <2> QED
    BY <1>0, <1>1, <1>3, <2>2, CollisionOnward
<1> HIDE DEF u
<1>5. k \in HeaderType
  BY <1>3, HeaderOfType
<1> HIDE DEF k
<1>6. \A x \in Node : Onward(table[x], table[x])
  BY RisenOnward
<1>7. CASE Put(m, u)
  <2>1. table' = [table EXCEPT ![m] = u]
    BY <1>7 DEF Put
  <2> QED
    BY <1>0, <1>4, <1>6, <2>1 DEF Onwards
<1>8. ASSUME NEW x \in Outdated(t, h),
             PutBoth(m, u, n, OnUpdate(table[n], n, k, x, t.epoch[x], SlotsOf(t, x)))
      PROVE  Onwards
  <2>1. x \in Node
    BY <1>1, <1>3 DEF Outdated, Table, HeaderType
  <2>2. t.epoch[x] \in 0..MaxEpoch /\ SlotsOf(t, x) \in SUBSET Slot
    BY <1>3, <2>1 DEF Table, SlotsOf
  <2> DEFINE v == OnUpdate(table[n], n, k, x, t.epoch[x], SlotsOf(t, x))
  <2>3. Onward(table[n], v)
    BY <1>0, <1>5, <2>1, <2>2, OnUpdateOnward
  <2>4. table' = [table EXCEPT ![m] = u, ![n] = v]
    BY <1>8 DEF PutBoth
  <2> HIDE DEF v
  <2> QED
    BY <1>0, <1>4, <1>6, <2>3, <2>4 DEF Onwards
<1> QED
  BY <1>2, <1>7, <1>8

(* So do the steps of elections and restarts, which move slots only in the *)
(* table of a winner.                                                      *)
LEMMA ElectionOnward ==
    ASSUME VInv, NEW n \in Node, SetUp(n) \/ Ask(n) \/ Win(n) \/ Restart(n)
    PROVE  Onwards
<1>0. table \in [Node -> Table] /\ table[n] \in Table
  BY DEF VInv, Types
<1>1. \A x \in Node : Onward(table[x], table[x])
  BY RisenOnward
<1>2. ASSUME NEW u, table' = [table EXCEPT ![n] = u], Win(n) \/ u.owner = table[n].owner
      PROVE  Onwards
  <2>1. Win(n) \/ Onward(table[n], u)
    BY <1>2, RisenOnward
  <2> QED
    BY <1>0, <1>1, <1>2, <2>1 DEF Onwards
<1>3. CASE SetUp(n)
  <2>1. table' = table
    BY <1>3 DEF SetUp
  <2> QED
    BY <1>1, <2>1 DEF Onwards
<1>4. CASE Ask(n)
  <2> DEFINE u == [table[n] EXCEPT !.cur = @ + 1]
  <2>1. table' = [table EXCEPT ![n] = u]
    BY <1>4 DEF Ask
  <2>2. u.owner = table[n].owner
    BY <1>0 DEF Table
  <2> HIDE DEF u
  <2> QED
    BY <1>2, <2>1, <2>2
<1>5. CASE Win(n)
  <2>1. \E u : table' = [table EXCEPT ![n] = u]
    BY <1>5 DEF Win, Put
  <2> QED
    BY <1>2, <1>5, <2>1
<1>6. CASE Restart(n)
  <2> DEFINE u == Restore(table[n], saved[n])
  <2>1. table' = [table EXCEPT ![n] = u]
    BY <1>0, <1>6 DEF Restart
  <2>2. u.owner = table[n].owner
    BY <1>0 DEF Restore, Table
  <2> HIDE DEF u
  <2> QED
    BY <1>2, <2>1, <2>2
<1> QED
  BY <1>3, <1>4, <1>5, <1>6

(* And the packets of elections, which bring epochs only. *)
LEMMA VoteOnward ==
    ASSUME VInv, NEW p \in net,
           Ack(p) \/ \E me \in Node, vote \in BOOLEAN : Request(p, me, vote)
    PROVE  Onwards
<1>0. table \in [Node -> Table] /\ p.h \in HeaderType /\ (p.kind = "ack" => p.to \in Node)
  BY DEF VInv, Types, NetInv, Packet
<1>1. \A x \in Node : Onward(table[x], table[x])
  BY RisenOnward
<1>2. ASSUME NEW n \in Node, NEW u, table' = [table EXCEPT ![n] = u], u.owner = table[n].owner
      PROVE  Onwards
  <2>1. Onward(table[n], u)
    BY <1>2, RisenOnward
  <2> QED
    BY <1>0, <1>1, <1>2, <2>1 DEF Onwards
<1>3. ASSUME NEW n \in Node PROVE Learn(table[n], p.h) \in Table /\ Learn(table[n], p.h).owner = table[n].owner
  BY <1>0, LearnRises DEF Risen
<1>4. CASE Ack(p)
  <2>1. p.to \in Node /\ table' = [table EXCEPT ![p.to] = Learn(table[p.to], p.h)]
    BY <1>0, <1>4 DEF Ack, Put
  <2> QED
    BY <1>2, <1>3, <2>1
<1>5. ASSUME NEW me \in Node, NEW vote \in BOOLEAN, Request(p, me, vote) PROVE Onwards
  <2> DEFINE t == Learn(table[me], p.h)
             u == IF vote THEN [t EXCEPT !.voted = t.cur] ELSE t
  <2>1. table' = [table EXCEPT ![me] = u]
    BY <1>5 DEF Request, Put
  <2>2. t \in Table /\ t.owner = table[me].owner
    BY <1>3
  <2> HIDE DEF t
  <2>3. u.owner = table[me].owner
    BY <2>2 DEF Table
  <2> HIDE DEF u
  <2> QED
    BY <1>2, <2>1, <2>3
<1> QED
  BY <1>4, <1>5

(* Forward: no step gives a slot that its owner claims to a node with an   *)
(* older epoch, except in the table of a node that takes over itself; in a *)
(* cluster of any size, whatever packets are late, lost or repeated.       *)
THEOREM SlotsMoveForward == Spec => Forward
<1>1. ASSUME VInv, [Next]_vars
      PROVE  [\A n \in Node, s \in Slot :
                 table'[n].owner[s] # table[n].owner[s] /\ Claimed(table[n], s) /\ ~Win(n)
                    => table'[n].epoch[table'[n].owner[s]] >= table[n].epoch[table[n].owner[s]]]_vars
  <2>1. CASE UNCHANGED vars
    BY <2>1
  <2>2. CASE Next
    <3>1. Onwards
      BY <1>1, <2>2, HeartbeatOnward, ElectionOnward, VoteOnward, ClusterAssumption DEF Next
    <3> QED
      BY <3>1 DEF Onwards, Onward
  <2> QED
    BY <1>1, <2>1, <2>2
<1> QED
  BY <1>1, VoteInvariant, PTL DEF Spec, Forward

-----------------------------------------------------------------------------
(* A cluster at rest *)

(* After a packet the node has the sender for what it says it is. *)
LEMMA SwitchRoleOf ==
    ASSUME NEW t \in Table, NEW h \in HeaderType
    PROVE  SwitchRole(t, h).of[h.from] = h.of
<1> DEFINE u == IF h.of # None /\ IsMaster(t, h.from) /\ t.epoch[h.from] <= h.epoch
                THEN [Moved(t, h.from, h.of) EXCEPT !.of[h.of] = None, !.epoch[h.of] = h.epoch]
                ELSE t
<1>1. SwitchRole(t, h) = [u EXCEPT !.of[h.from] = h.of]
  BY DEF SwitchRole
<1>2. h.from \in Node /\ h.of \in Node \cup {None} /\ h.epoch \in 0..MaxEpoch
  BY HeaderFields
<1>3. u \in Table
  <2>1. CASE h.of = None
    BY <2>1
  <2>2. CASE h.of # None
    <3> DEFINE v == Moved(t, h.from, h.of)
    <3>1. Grows(t, v)
      BY <1>2, <2>2, MovedGrows
    <3>2. v \in Table
      BY <3>1 DEF Grows
    <3> HIDE DEF v
    <3> DEFINE w == [v EXCEPT !.of[h.of] = None, !.epoch[h.of] = h.epoch]
    <3>3. Grows(v, w)
      BY <1>2, <2>2, <3>2, SetRole
    <3> HIDE DEF w
    <3>4. w \in Table
      BY <3>3 DEF Grows
    <3> QED
      BY <3>4 DEF w, v
  <2> QED
    BY <2>1, <2>2
<1> HIDE DEF u
<1> QED
  BY <1>1, <1>2, <1>3 DEF Table

(* A PING that changes nothing: its sender's role is known, and a slot it  *)
(* claims is its own or is held by a node with an epoch no older.          *)
LEMMA QuietPing ==
    ASSUME NEW t \in Table, NEW me \in Node, NEW h \in HeaderType, h.from # me,
           OnPing(t, me, h) = t
    PROVE  /\ t.of[h.from] = h.of
           /\ h.of = None => \A s \in h.slots : t.owner[s] # h.from => t.epoch[t.owner[s]] >= h.epoch
<1> DEFINE l == Learn(t, h)
           u == SwitchRole(l, h)
           r == Rebind(t, me, h)
<1>1. /\ h.from \in Node /\ h.epoch \in 0..MaxEpoch /\ h.slots \in SUBSET Slot
  BY HeaderFields
<1>2. Grows(t, r) /\ r \in Table /\ t.cur \in Int
  BY RebindGrows, VotedType DEF Grows
<1>3. r = IF IsMaster(u, h.from) /\ Dirty(u, h)
          THEN UpdateSlots(u, me, h.from, h.epoch, h.slots) ELSE u
  BY DEF Rebind
<1>4. l \in Table /\ Risen(t, l)
  BY LearnRises
<1> HIDE DEF r, l
<1>5. r = t
  <2>1. Collision(r, me, h) = t
    BY DEF OnPing, r
  <2>2. r.cur \in Int /\ t.cur <= r.cur
    BY <1>2, VotedType DEF Grows
  <2>3. CASE Collision(r, me, h) = r
    BY <2>1, <2>3
  <2>4. CASE Collision(r, me, h) = [r EXCEPT !.cur = @ + 1, !.epoch[me] = r.cur + 1]
    <3>1. Collision(r, me, h).cur = r.cur + 1
      BY <1>2, <2>4 DEF Table
    <3> QED
      BY <1>2, <2>1, <2>2, <3>1
  <2> QED
    BY <2>3, <2>4 DEF Collision
<1>6. u \in Table /\ u.of[h.from] = h.of
  BY <1>4, SwitchRoleGrows, SwitchRoleOf DEF Grows
<1> HIDE DEF u
<1>7. t.of[h.from] = h.of
  <2>1. UpdateSlots(u, me, h.from, h.epoch, h.slots).of[h.from] = u.of[h.from]
    BY <1>1, <1>6, UpdateSlotsTakes
  <2> QED
    BY <1>3, <1>5, <1>6, <2>1
<1>8. ASSUME h.of = None, NEW s \in h.slots, t.owner[s] # h.from
      PROVE  t.epoch[t.owner[s]] >= h.epoch
  <2>1. u.owner = t.owner /\ u.epoch = l.epoch /\ IsMaster(u, h.from)
    BY <1>4, <1>8, SwitchToMaster DEF u, Risen
  <2>2. s \in Slot
    BY <1>1
  <2>3. Dirty(u, h)
    BY <1>8, <2>1, <2>2 DEF Dirty, MasterOf, SlotsOf
  <2>4. t = UpdateSlots(u, me, h.from, h.epoch, h.slots)
    BY <1>3, <1>5, <2>1, <2>3
  <2>5. t.owner[s] = IF h.from # me /\ s \in h.slots /\ u.owner[s] # h.from
                           /\ (Claimed(u, s) => u.epoch[u.owner[s]] < h.epoch)
                     THEN h.from ELSE u.owner[s]
    BY <1>1, <1>6, <2>2, <2>4, UpdateSlotsTakes
  <2>6. ~(u.epoch[t.owner[s]] < h.epoch)
    BY <1>8, <2>1, <2>5
  <2>7. t.epoch = u.epoch
    BY <1>1, <1>6, <2>4, UpdateSlotsTakes
  <2>8. t.owner[s] \in Node /\ t.epoch[t.owner[s]] \in Int /\ h.epoch \in Int
    BY <2>2, TableFields, HeaderFields
  <2> QED
    BY <2>6, <2>7, <2>8
<1> QED
  BY <1>7, <1>8

(* The header of a node. *)
LEMMA HeaderIs ==
    ASSUME VInv, NEW n \in Node
    PROVE  /\ Header(n) \in HeaderType /\ Header(n).from = n /\ Header(n).of = table[n].of[n]
           /\ IsMaster(table[n], n) => /\ Header(n).epoch = table[n].epoch[n]
                                        /\ Header(n).slots = SlotsOf(table[n], n)
<1>1. table[n] \in Table
  BY DEF VInv, Types
<1> QED
  BY <1>1, HeaderOfType DEF Header, HeaderOf, MasterOf

(* The half of RestAgrees that holds of every cluster: when no heartbeat   *)
(* changes a table any more, all nodes agree on who is a master and whom   *)
(* every replica follows, however many elections there were.               *)
THEOREM RolesSettle == Spec => [](AtRest => \A n, m \in Node : table[n].of = table[m].of)
<1>1. VInv => (AtRest => \A n, m \in Node : table[n].of = table[m].of)
  <2> SUFFICES ASSUME VInv, AtRest, NEW n \in Node, NEW m \in Node
               PROVE  table[n].of = table[m].of
    OBVIOUS
  <2>1. ASSUME NEW x \in Node, NEW y \in Node PROVE table[y].of[x] = table[x].of[x]
    <3>1. CASE x = y
      BY <3>1
    <3>2. CASE x # y
      <4>1. OnPing(table[y], y, Header(x)) = table[y]
        BY <3>2 DEF AtRest
      <4>2. table[y] \in Table
        BY DEF VInv, Types
      <4>3. Header(x) \in HeaderType /\ Header(x).from = x /\ Header(x).of = table[x].of[x]
        BY HeaderIs
      <4> QED
        BY <3>2, <4>1, <4>2, <4>3, QuietPing
    <3> QED
      BY <3>1, <3>2
  <2>2. table[n] \in Table /\ table[m] \in Table
    BY DEF VInv, Types
  <2>3. table[n].of \in [Node -> Node \cup {None}] /\ table[m].of \in [Node -> Node \cup {None}]
    BY <2>2, TableFields
  <2>4. \A x \in Node : table[n].of[x] = table[m].of[x]
    BY <2>1
  <2> QED
    BY <2>3, <2>4
<1> QED
  BY <1>1, VoteInvariant, PTL

(* What heartbeats make of OneClaimPerEpoch in a cluster of any size: as   *)
(* long as no two nodes claim a slot under one epoch, at most one node     *)
(* accepts writes to a slot when no heartbeat changes a table any more.    *)
THEOREM ClaimsSettle ==
    Spec => [](AtRest /\ OneClaimPerEpoch =>
                  \A s \in Slot, n, m \in Node : Serves(n, s) /\ Serves(m, s) => n = m)
<1>1. ASSUME VInv, AtRest, NEW s \in Slot, NEW n \in Node, NEW m \in Node,
             Serves(n, s), Serves(m, s), n # m
      PROVE  table[n].epoch[n] >= table[m].epoch[m]
  <2>1. OnPing(table[n], n, Header(m)) = table[n]
    BY <1>1 DEF AtRest
  <2>2. table[n] \in Table
    BY <1>1 DEF VInv, Types
  <2>3. /\ Header(m) \in HeaderType /\ Header(m).from = m /\ Header(m).of = None
        /\ Header(m).epoch = table[m].epoch[m] /\ s \in Header(m).slots
    BY <1>1, HeaderIs DEF Serves, IsMaster, SlotsOf
  <2>4. table[n].owner[s] = n
    BY <1>1 DEF Serves
  <2> QED
    BY <1>1, <2>1, <2>2, <2>3, <2>4, QuietPing
<1>2. VInv => (AtRest /\ OneClaimPerEpoch =>
                 \A s \in Slot, n, m \in Node : Serves(n, s) /\ Serves(m, s) => n = m)
  <2> SUFFICES ASSUME VInv, AtRest, OneClaimPerEpoch, NEW s \in Slot, NEW n \in Node, NEW m \in Node,
                      Serves(n, s), Serves(m, s), n # m
               PROVE  FALSE
    OBVIOUS
  <2>1. table[n].epoch[n] >= table[m].epoch[m] /\ table[m].epoch[m] >= table[n].epoch[n]
    BY <1>1
  <2>2. table[n] \in Table /\ table[m] \in Table
    BY DEF VInv, Types
  <2>3. table[n].epoch[n] \in Int /\ table[m].epoch[m] \in Int
    BY <2>2, TableFields
  <2>4. table[n].epoch[n] = table[m].epoch[m]
    BY <2>1, <2>3
  <2> QED
    BY <2>4 DEF OneClaimPerEpoch
<1> QED
  BY <1>2, VoteInvariant, PTL
================================================================================
