------------------------------ MODULE AtMostOnce ------------------------------
(***************************************************************************)
(* What ingress promises of every message: it is taken in only while its   *)
(* id is not remembered, and every message taken in is published once or   *)
(* dropped once.  Ids may be forgotten: some when another is taken in, all *)
(* at a restart, which also loses what was taken in and not published.     *)
(***************************************************************************)
EXTENDS Naturals

CONSTANT Messages

VARIABLES
  remembered,  \* messages whose id is remembered
  pending,     \* per message: times taken in, not yet published or dropped
  published,   \* per message: times published
  forgotten    \* per message: times its id was forgotten

Counts == [Messages -> Nat]
Zero == [m \in Messages |-> 0]

Init == /\ remembered = {}
        /\ pending = Zero /\ published = Zero /\ forgotten = Zero

ForgetAll(gone) ==
  forgotten' = [m \in Messages |-> IF m \in gone THEN forgotten[m] + 1 ELSE forgotten[m]]

TakeIn(m) ==
  /\ m \notin remembered
  /\ \E gone \in SUBSET remembered :
       /\ remembered' = (remembered \ gone) \cup {m}
       /\ ForgetAll(gone)
  /\ pending' = [pending EXCEPT ![m] = @ + 1]
  /\ UNCHANGED published

Publish(m) ==
  /\ pending[m] > 0
  /\ pending' = [pending EXCEPT ![m] = @ - 1]
  /\ published' = [published EXCEPT ![m] = @ + 1]
  /\ UNCHANGED <<remembered, forgotten>>

Drop(m) ==
  /\ pending[m] > 0
  /\ pending' = [pending EXCEPT ![m] = @ - 1]
  /\ UNCHANGED <<remembered, published, forgotten>>

Restart ==
  /\ remembered' = {}
  /\ ForgetAll(remembered)
  /\ pending' = Zero
  /\ UNCHANGED published

Next == \/ \E m \in Messages : TakeIn(m) \/ Publish(m) \/ Drop(m)
        \/ Restart

Spec == Init /\ [][Next]_<<remembered, pending, published, forgotten>>
===============================================================================
