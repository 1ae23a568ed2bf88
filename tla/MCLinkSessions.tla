----------------------------- MODULE MCLinkSessions -----------------------------
(* One browser signs in at GitHub and at Slack; another at Slack only, with the
   same account and with one that is a bot's.  Both Slack accounts have actors
   before; messages arrive of the person's two accounts. *)
EXTENDS LinkSessions, TLC

CONSTANTS gh1, sl1, sl2, sl3, home, work, github, slack, octocat, ada, bob

MCSignIns == {gh1, sl1, sl2, sl3}
MCBrowserOf == (gh1 :> home @@ sl1 :> home @@ sl2 :> work @@ sl3 :> work)
MCProviderOf == (gh1 :> github @@ sl1 :> slack @@ sl2 :> slack @@ sl3 :> slack)
MCAccountOf == (gh1 :> octocat @@ sl1 :> ada @@ sl2 :> ada @@ sl3 :> bob)
=================================================================================
