-------------------------- MODULE MCConversationService --------------------------
(* Three deliveries race for one thread while a fourth resolves another. *)
EXTENDS ConversationService

CONSTANTS r1, r2, r3, r4, t1, t2

MCResolvers == {r1, r2, r3, r4}
MCThreads == {t1, t2}
MCThreadOf == [r \in MCResolvers |-> IF r = r4 THEN t2 ELSE t1]
==================================================================================
