---------------------------- MODULE MCWorkflowEngine ----------------------------
(* Three turns of one conversation, every workflow reachable, two fields. *)
EXTENDS WorkflowEngine, TLC

CONSTANTS e1, e2, e3, thread, alice

MCEvents == {e1, e2, e3}
MCSymmetry == Permutations(MCEvents)
MCConversations == {thread}
MCActors == {alice}
MCConversationOf == [e \in MCEvents |-> thread]
MCActorOf == [e \in MCEvents |-> alice]
MCFields == {"operating_system", "logs"}

Text(escalation, prSummary, bug, contribution, fields) ==
  [escalation |-> escalation, prSummary |-> prSummary, bug |-> bug,
   contribution |-> contribution, openedPR |-> FALSE, fields |-> fields]

MCMessages ==
  { Text(4, 0, 1, 0, {}),                    \* sensitive topic
    Text(0, 0, 1, 1, {}),                    \* ambiguous: low confidence
    Text(0, 0, 1, 0, {"operating_system"}),  \* a bug report, one field ...
    Text(0, 0, 2, 0, {"logs"}),              \* ... and the other
    Text(0, 0, 0, 1, {}),                    \* how do I contribute
    [Text(0, 0, 1, 0, {}) EXCEPT !.openedPR = TRUE] }
================================================================================
