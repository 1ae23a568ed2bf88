------------------------------- MODULE ReplyQueue -------------------------------
(***************************************************************************)
(* What respond and the recovery worker promise of every reply together:   *)
(* it is owed until it is taken for delivered or given up, once and for    *)
(* all; a copy is posted once, while it is owed; and nothing is given up   *)
(* that has been posted.  A reply may come in doubt, though only while it  *)
(* is owed: whoever settles it does not know of a copy, or is not the only *)
(* one to settle it.  Then it may be posted and settled again, but is      *)
(* never owed again.                                                       *)
(***************************************************************************)
EXTENDS Naturals

CONSTANT Replies

VARIABLES
  fate,    \* whether each reply is owed, delivered or given up
  copies,  \* per reply: copies posted
  doubt    \* replies in doubt

Init == /\ fate = [r \in Replies |-> "owed"]
        /\ copies = [r \in Replies |-> 0]
        /\ doubt = {}

Owed == {r \in Replies : fate[r] = "owed"}

(* The poster may know that the copy has arrived, be about to, or never. *)
Post(r) ==
  /\ (r \in Owed /\ copies[r] = 0) \/ r \in doubt
  /\ copies' = [copies EXCEPT ![r] = @ + 1]
  /\ \/ r \in Owed /\ fate' = [fate EXCEPT ![r] = "delivered"] /\ UNCHANGED doubt
     \/ UNCHANGED <<fate, doubt>>
     \/ doubt' = doubt \cup {r} /\ UNCHANGED fate

Settle(r) ==
  /\ r \in Owed \cup doubt
  /\ \/ copies[r] > 0 /\ fate' = [fate EXCEPT ![r] = "delivered"]
     \/ (copies[r] = 0 \/ r \in doubt) /\ fate' = [fate EXCEPT ![r] = "given up"]
  /\ UNCHANGED <<copies, doubt>>

(* Replies come in doubt, and others are lost at once, as by a restart. *)
Confuse ==
  /\ \E S \in SUBSET Owed : doubt' = doubt \cup S
  /\ \E gone \in SUBSET {r \in Owed : copies[r] = 0 \/ r \in doubt} :
       fate' = [r \in Replies |-> IF r \in gone THEN "given up" ELSE fate[r]]
  /\ UNCHANGED copies

Next == Confuse \/ \E r \in Replies : Post(r) \/ Settle(r)

Spec == Init /\ [][Next]_<<fate, copies, doubt>>
=================================================================================
