---------------------------- MODULE MCGeneration ----------------------------
(* Generation with a symmetry set, for the runs that check safety only. *)
EXTENDS Generation, TLC

Symmetry == Permutations(Worker)

(* Without the history of what was sent, which no action reads. *)
Present == <<template, mail, lastMail, status, ttl, task>>
=============================================================================
