--------------------------- MODULE MCSubscriptions ---------------------------
(* Subscriptions with symmetry sets, for the runs that check safety only. *)
EXTENDS Subscriptions, TLC

Symmetry == Permutations(Worker) \cup Permutations(UserId) \cup Permutations(Customer)

(* What the actions read, and confirmed: states that differ in transfers   *)
(* and the rest of the history only are one, for properties that are not   *)
(* about those.                                                            *)
Present == <<dbVars, req, checkout, subscription, invoices, pending, confirmed>>
=============================================================================
