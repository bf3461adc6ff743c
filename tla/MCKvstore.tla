----------------------------- MODULE MCKvstore -----------------------------
EXTENDS Kvstore

(* Three keys in dict 0, apart in the low and in the high bits of their    *)
(* hashes; one in dict 1.                                                  *)
MCKey == 1..4
MCHash(k) == CASE k = 1 -> 0 [] k = 2 -> 3 [] k = 3 -> 2 [] k = 4 -> 1
MCSlot(k) == IF k = 4 THEN 1 ELSE 0
MCOnlyDict == {-1, 1}

(* States that differ in the history of the last command only are one: no  *)
(* action reads it, and KeysKept is evaluated on every step all the same.  *)
MCView == <<kvs, policy, scan, iter, missed, misread>>
=============================================================================
