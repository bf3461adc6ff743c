------------------------------ MODULE Journal -------------------------------
(***************************************************************************)
(* What an append only file promises, whatever files it is kept in: the    *)
(* writes are there in the order they were made.  A crash takes some of    *)
(* them, none that was answered while the log was strict; while it is      *)
(* strict, it takes the last ones.                                         *)
(***************************************************************************)
EXTENDS Naturals, Sequences

CONSTANT Entry

VARIABLES
    log,       \* the writes that are applied
    promised,  \* how many of them were answered while strict
    strict,    \* whether an answer waits for the disk
    sound      \* the promise holds: a log that is not strict may lose it

Init == log = <<>> /\ promised = 0 /\ strict \in BOOLEAN /\ sound = TRUE

Add(w) == log' = Append(log, w) /\ UNCHANGED <<promised, strict, sound>>

Answer == strict /\ promised' = Len(log) /\ UNCHANGED <<log, strict, sound>>

SetStrict == strict' \in BOOLEAN /\ UNCHANGED <<log, promised, sound>>

(* s is t without some of its entries, none of them among the first k: the *)
(* entry i of s is the entry at[i] of t.                                   *)
Remains(s, t, k) ==
    \E at \in [1..Len(s) -> 1..Len(t)] :
        /\ \A i, j \in 1..Len(s) : i < j => at[i] < at[j]
        /\ \A i \in 1..Len(s) : s[i] = t[at[i]]
        /\ \A i \in 1..k : i \in 1..Len(s) /\ at[i] = i

(* A kill or a loss of power, and the start after it. *)
Crash ==
    /\ log' \in Seq(Entry) /\ Remains(log', log, promised)
    /\ strict => log' = SubSeq(log, 1, Len(log'))
    /\ promised' = 0
    /\ UNCHANGED <<strict, sound>>

(* The log cannot be read, or holds a write twice. *)
Lose == ~strict /\ ~sound'

Next ==
    \/ sound /\ ((\E w \in Entry : Add(w)) \/ Answer \/ SetStrict \/ Crash \/ Lose)
    \/ ~sound /\ ~sound'

Spec == Init /\ [][Next]_<<log, promised, strict, sound>>
=============================================================================
