----------------------------- MODULE Membership ------------------------------
(***************************************************************************)
(* What the newsletter owes its subscribers, whatever requests and events  *)
(* it takes: each step is the affair of one account, nobody who has to pay *)
(* joins before, only a running contract is charged, and a contract that   *)
(* its owner was told has ended never runs again.                          *)
(***************************************************************************)
EXTENDS Naturals

CONSTANT Account

VARIABLES
    contract,  \* none; payment due; paid once; a subscription runs, or has ended
    charges,   \* renewals charged so far
    member,    \* the accounts that receive mails
    told       \* the accounts that were told their subscription has ended

Init ==
    /\ contract = [a \in Account |-> "none"]
    /\ charges = [a \in Account |-> 0]
    /\ member = {}
    /\ told = {}

(* The contract of a goes from one of the states in from to one in to. *)
Move(a, from, to) ==
    /\ contract[a] \in from
    /\ \E c \in to : contract' = [contract EXCEPT ![a] = c]

(* A visitor is sent to the page of payment. *)
Open(a) ==
    /\ a \notin member
    /\ Move(a, {"none"}, {"due"})
    /\ UNCHANGED <<charges, member, told>>

(* The visitor pays, once or for as long as the subscription runs. *)
Pay(a) ==
    /\ Move(a, {"due"}, {"paid", "running"})
    /\ UNCHANGED <<charges, member, told>>

(* Another month is charged. *)
Charge(a) ==
    /\ contract[a] = "running"
    /\ charges' = [charges EXCEPT ![a] = @ + 1]
    /\ UNCHANGED <<contract, member, told>>

(* The subscription is cancelled. *)
End(a) ==
    /\ Move(a, {"running"}, {"ended"})
    /\ UNCHANGED <<charges, member, told>>

(* The account becomes a member, free of charge or after it has paid. *)
Join(a) ==
    /\ contract[a] # "due"
    /\ member' = member \cup {a}
    /\ UNCHANGED <<contract, charges, told>>

(* The account is a member no longer. *)
Leave(a) ==
    /\ member' = member \ {a}
    /\ UNCHANGED <<contract, charges, told>>

(* The owner is told that the subscription has ended.  The account may     *)
(* stay a member, and may join again: mails cost nothing.                  *)
Tell(a) ==
    /\ contract[a] = "ended"
    /\ told' = told \cup {a}
    /\ member' \in {member, member \ {a}}
    /\ UNCHANGED <<contract, charges>>

Next ==
    \E a \in Account :
        \/ Open(a) \/ Pay(a) \/ Charge(a) \/ End(a)
        \/ Join(a) \/ Leave(a) \/ Tell(a)

Spec == Init /\ [][Next]_<<contract, charges, member, told>>
=============================================================================
