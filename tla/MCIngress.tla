------------------------------- MODULE MCIngress -------------------------------
(* Three calls: a batch of two messages of one person and its retry beside a
   forged delivery; the batch and its first message under a fresh event id
   beside the bot's own GitHub comment; one message polled twice beside that
   comment. *)
EXTENDS Ingress

CONSTANTS host, m1, m2, m3, m4, e1, e2, e3, e4, c1, c2, c3, alice, app, t1, t2

MCMessages == {m1, m2, m3, m4}
MCEvents == {e1, e2, e3, e4}
MCCalls == {c1, c2, c3}
MCClients == {host}
MCClient == [c \in MCCalls |-> host]
MCActors == {alice, app}
MCThreads == {t1, t2}
MCSender == [m \in MCMessages |-> IF m = m3 THEN app ELSE alice]
MCThread == [m \in MCMessages |-> IF m = m3 THEN t2 ELSE t1]
MCFiltered == {m4}

Rec(e, m) == [event |-> e, message |-> m]
Webhook(records) == [path |-> "webhook", authentic |-> TRUE, records |-> records]
GitHub(m) == [path |-> "github", authentic |-> TRUE, records |-> <<Rec(None, m)>>]
Polled(m) == [path |-> "poll", authentic |-> TRUE, records |-> <<Rec(None, m)>>]

Batch == Webhook(<<Rec(e1, m1), Rec(e2, m2)>>)
Renamed == Webhook(<<Rec(e3, m1), Rec(e4, None), Rec(None, m4)>>)
Forged == [GitHub(m3) EXCEPT !.authentic = FALSE]

Plan(d1, d2, d3) == [c \in MCCalls |-> IF c = c1 THEN d1 ELSE IF c = c2 THEN d2 ELSE d3]

MCPlans == { Plan(Batch, Batch, Forged),
             Plan(Batch, Renamed, GitHub(m3)),
             Plan(Polled(m1), Polled(m1), GitHub(m3)) }

MCRetryPlans == { Plan(Batch, Batch, GitHub(m3)) }

MCHttpPolicy == [window |-> 1, max |-> 1]
MCActorPolicy == [window |-> 1, max |-> 2]
MCThreadPolicy == [window |-> 1, max |-> 1]
================================================================================
