------------------------------- MODULE KeySet -------------------------------
(***************************************************************************)
(* What a database promises of its keys, whatever its tables do: a key is  *)
(* there from the command that adds it to the one that deletes it.         *)
(***************************************************************************)
CONSTANT Key

VARIABLES
    keys,    \* the keys in the database
    asked    \* what the last step was asked to add and to delete

vars == <<keys, asked>>

Init ==
    /\ keys = {}
    /\ asked = [add |-> {}, delete |-> {}]

Add(k) ==
    /\ asked' = [add |-> {k}, delete |-> {}]
    /\ keys' = keys \cup {k}

(* Exactly the keys asked for: one by DEL, some by the callback of a scan, *)
(* all by FLUSHALL.                                                        *)
Delete(ks) ==
    /\ asked' = [add |-> {}, delete |-> ks]
    /\ keys' = keys \ ks

(* Every other step is asked to delete nothing, and deletes nothing. *)
Next ==
    \/ \E k \in Key : Add(k)
    \/ \E ks \in SUBSET Key : Delete(ks)

Spec == Init /\ [][Next]_vars
=============================================================================
