---------------------------- MODULE MCIdentityService ----------------------------
(* Two people, a bot and an account not seen before; two messages of the
   second person and two sign-ins, in either of two browsers. *)
EXTENDS IdentityService, TLC

CONSTANTS d1, d2, k1, k2, w1, w2, alice, bob, bot

MCDeliveries == {d1, d2}
MCCallbacks == {k1, k2}
MCBrowsers == {w1, w2}
MCSeeds == {alice, bob, bot}
MCBots == {bot}
MCRegistered == ("a" :> alice) @@ ("b" :> bob) @@ ("c" :> None) @@ ("bot" :> bot)
MCAccounts == DOMAIN MCRegistered
MCAccountOf == [d \in MCDeliveries |-> "b"]
MCSymmetry == Permutations(MCDeliveries) \cup Permutations(MCCallbacks)
              \cup Permutations(MCBrowsers)
==================================================================================
