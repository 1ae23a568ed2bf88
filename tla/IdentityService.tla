----------------------------- MODULE IdentityService -----------------------------
(***************************************************************************)
(* IdentityService: which actor a provider account belongs to.             *)
(* resolveActor runs for every message (CommunicationService.ingest, which *)
(* then stores the message under the actor) and for the first sign-in of a *)
(* browser on the linking dashboard; linkProviderToActor runs for every    *)
(* further sign-in and merges the account's actor into the browser's.      *)
(* Nothing is in a transaction: every database call is an action, and so   *)
(* is what a call does when its database call has answered (the cache).    *)
(*                                                                         *)
(* An actor is named after the call that inserted it.  Foreign keys: an    *)
(* account and a message go with their actor (cascade), a link session     *)
(* forgets it (set null).                                                  *)
(*                                                                         *)
(* call[x].pc of a delivery:     start .. resolveActor .. persist          *)
(* call[x].pc of a callback:     start .. resolveActor .. setSession       *)
(*                            or start .. linkProviderToActor              *)
(***************************************************************************)
EXTENDS Naturals

CONSTANTS
  Accounts,       \* (provider, providerUserId) pairs
  Deliveries,     \* messages being ingested
  AccountOf,      \* [Deliveries -> Accounts]: their senders
  Callbacks,      \* OAuth callbacks being handled
  Browsers,
  Seeds,          \* actors that exist at the start
  Registered,     \* [Accounts -> Seeds \cup {None}]: their accounts
  Bots,           \* the seeds of type bot or agent
  None,
  MaxFaults       \* bound: database calls that throw, and process crashes

Calls == Deliveries \cup Callbacks
Actors == Seeds \cup Calls

ASSUME IdentityAssumption ==
  /\ AccountOf \in [Deliveries -> Accounts]
  /\ Registered \in [Accounts -> Seeds \cup {None}]
  /\ None \notin Actors \cup Accounts
  /\ Seeds \cap Calls = {} /\ Deliveries \cap Callbacks = {}
  /\ Bots \subseteq Seeds
  /\ MaxFaults \in Nat

VARIABLES
  actors,      \* the actors rows
  owner,       \* actorId of each account's row, or None
  sender,      \* senderActorId of each delivery's messages row, or None
  session,     \* actorId of the link session each browser's cookie names
  cache,       \* IdentityService.cache
  call,        \* what each call holds in its local variables
  mergedAway,  \* history: actors that a merge took as its source
  entangled,   \* history: two link calls in progress had an actor in common
  faults       \* the bound's counter

vars == <<actors, owner, sender, session, cache, call, mergedAway, entangled,
          faults>>
rows == <<actors, owner, sender, session>>
history == <<mergedAway, entangled>>

Optional(S) == S \cup {None}

Resolving == {"lookup", "select", "selected", "insertActor", "insertAccount", "registered"}
Linking == {"linkSelect", "linkInsert", "linkCache"}
Merging == {"mergeAccounts", "mergeMessages", "deleteSource", "clearCache"}
Busy == Resolving \cup Linking \cup Merging \cup {"persist", "setSession"}
PC == {"start", "done", "thrown"} \cup Busy

Call == [pc: PC, account: Optional(Accounts), browser: Optional(Browsers),
         actor: Optional(Actors), source: Optional(Actors)]

TypeOK ==
  /\ actors \subseteq Actors
  /\ owner \in [Accounts -> Optional(actors)]
  /\ sender \in [Deliveries -> Optional(actors)]
  /\ session \in [Browsers -> Optional(actors)]
  /\ cache \in [Accounts -> Optional(Actors)]
  /\ call \in [Calls -> Call]
  /\ \A x \in Calls : call[x].pc \in Busy => call[x].account \in Accounts
  /\ \A x \in Calls : call[x].pc = "setSession" => call[x].browser \in Browsers
  /\ mergedAway \subseteq Actors
  /\ entangled \in BOOLEAN
  /\ faults \in 0 .. MaxFaults

(* Accounts are registered and browsers may have signed in before. *)
Init ==
  /\ actors = Seeds
  /\ owner = Registered
  /\ sender = [d \in Deliveries |-> None]
  /\ session \in [Browsers -> Optional({Registered[a] : a \in Accounts} \ (Bots \cup {None}))]
  /\ cache = [a \in Accounts |-> None]
  /\ call = [x \in Calls |-> [pc |-> "start", account |-> None, browser |-> None,
                              actor |-> None, source |-> None]]
  /\ mergedAway = {} /\ entangled = FALSE
  /\ faults = 0

Goto(x, pc) == call' = [call EXCEPT ![x].pc = pc]
GotoWith(x, pc, actor) == call' = [call EXCEPT ![x].pc = pc, ![x].actor = actor]

(* The local variables of a call that is over are gone, except those the
   properties speak of. *)
Over(c, pc) == [c EXCEPT !.pc = pc, !.browser = None, !.source = None,
                         !.actor = IF pc = "done" THEN None ELSE @]
Return(x) == call' = [call EXCEPT ![x] = Over(@, "done")]
Throw(x) == call' = [call EXCEPT ![x] = Over(@, "thrown")]

(* What follows resolveActor in its caller. *)
Resolved(x) == IF x \in Deliveries THEN "persist" ELSE "setSession"

-----------------------------------------------------------------------------
(* CommunicationService.ingest turns to the sender's account, unless it is
   one of the bot's own (isSelfEvent). *)
Deliver(d) ==
  /\ call[d].pc = "start"
  /\ owner[AccountOf[d]] \notin Bots
  /\ call' = [call EXCEPT ![d].pc = "lookup", ![d].account = AccountOf[d]]
  /\ UNCHANGED <<rows, cache, history, faults>>

(* handleCallback: the first provider of a link session is resolved, any
   further one is linked to the session's actor.  A session that is missing
   or expired starts over. *)
Callback(k, w, a) ==
  /\ call[k].pc = "start"
  /\ \E target \in {None, session[w]} :
       call' = [call EXCEPT ![k] =
         [pc |-> IF target = None THEN "lookup" ELSE "linkSelect",
          account |-> a, browser |-> IF target = None THEN w ELSE None,
          actor |-> target, source |-> None]]
  /\ UNCHANGED <<rows, cache, history, faults>>

-----------------------------------------------------------------------------
(* resolveActor: the cache ... *)
Lookup(x) ==
  LET hit == cache[call[x].account] IN
  /\ call[x].pc = "lookup"
  /\ IF hit # None THEN GotoWith(x, Resolved(x), hit) ELSE Goto(x, "select")
  /\ UNCHANGED <<rows, cache, history, faults>>

(* Mutant of SelectAccount: the account is never found. *)
SelectAccountMissed(x) ==
  /\ call[x].pc = "select"
  /\ Goto(x, "insertActor")
  /\ UNCHANGED <<rows, cache, history, faults>>

(* ... the account's row as the database sees it now ... *)
SelectAccount(x) ==
  LET existing == owner[call[x].account] IN
  /\ call[x].pc = "select"
  /\ IF existing # None THEN GotoWith(x, "selected", existing) ELSE Goto(x, "insertActor")
  /\ UNCHANGED <<rows, cache, history, faults>>

(* Mutant of UseAccount: the account is cached in place of its actor. *)
UseAccountItself(x) ==
  /\ call[x].pc = "selected"
  /\ cache' = [cache EXCEPT ![call[x].account] = call[x].account]
  /\ Goto(x, Resolved(x))
  /\ UNCHANGED <<rows, history, faults>>

(* ... and as the caller caches it when the answer arrives. *)
UseAccount(x) ==
  /\ call[x].pc = "selected"
  /\ cache' = [cache EXCEPT ![call[x].account] = call[x].actor]
  /\ Goto(x, Resolved(x))
  /\ UNCHANGED <<rows, history, faults>>

InsertActor(x) ==
  /\ call[x].pc = "insertActor"
  /\ actors' = actors \cup {x}
  /\ GotoWith(x, "insertAccount", x)
  /\ UNCHANGED <<owner, sender, session, cache, history, faults>>

(* Mutant of InsertAccount: the unique violation is swallowed. *)
InsertAccountSwallows(x) ==
  LET a == call[x].account IN
  /\ call[x].pc = "insertAccount"
  /\ owner' = IF owner[a] = None THEN [owner EXCEPT ![a] = x] ELSE owner
  /\ Goto(x, "registered")
  /\ UNCHANGED <<actors, sender, session, cache, history, faults>>

(* The unique index admits one row per account; the loser throws. *)
InsertAccount(x) ==
  LET a == call[x].account IN
  /\ call[x].pc = "insertAccount"
  /\ IF owner[a] = None
       THEN owner' = [owner EXCEPT ![a] = x] /\ Goto(x, "registered")
       ELSE UNCHANGED owner /\ Throw(x)
  /\ UNCHANGED <<actors, sender, session, cache, history, faults>>

CacheRegistered(x) ==
  /\ call[x].pc = "registered"
  /\ cache' = [cache EXCEPT ![call[x].account] = call[x].actor]
  /\ Goto(x, Resolved(x))
  /\ UNCHANGED <<rows, history, faults>>

(* messagePersistenceService.persist: a foreign key refuses a message of an
   actor that is gone. *)
Persist(d) ==
  /\ call[d].pc = "persist"
  /\ IF call[d].actor \in actors
       THEN sender' = [sender EXCEPT ![d] = call[d].actor] /\ Return(d)
       ELSE UNCHANGED sender /\ Throw(d)
  /\ UNCHANGED <<actors, owner, session, cache, history, faults>>

(* setLinkSessionActor, and the cookie of the response. *)
SetSession(k) ==
  /\ call[k].pc = "setSession"
  /\ IF call[k].actor \in actors
       THEN session' = [session EXCEPT ![call[k].browser] = call[k].actor] /\ Return(k)
       ELSE UNCHANGED session /\ Throw(k)
  /\ UNCHANGED <<actors, owner, sender, cache, history, faults>>

-----------------------------------------------------------------------------
InLink(k) == call[k].pc \in Linking \cup Merging
Concerned(k) == {call[k].actor, call[k].source} \ {None}

(* linkProviderToActor reads the account: attach it, nothing to do, refuse
   to merge a bot, or merge its actor away. *)
LinkSelect(k) ==
  LET target == call[k].actor
      source == owner[call[k].account]
      merges == source \notin {None, target} \cup Bots
  IN  /\ call[k].pc = "linkSelect"
      /\ \/ source = None /\ Goto(k, "linkInsert")
         \/ source # None /\ ~ merges /\ Return(k)
         \/ merges /\ call' = [call EXCEPT ![k].pc = "mergeAccounts", ![k].source = source]
      /\ mergedAway' = IF merges THEN mergedAway \cup {source} ELSE mergedAway
      /\ entangled' = (entangled \/ \E j \in Callbacks \ {k} :
                         InLink(j) /\ Concerned(j) \cap {target, source} # {})
      /\ UNCHANGED <<rows, cache, faults>>

LinkInsert(k) ==
  LET a == call[k].account IN
  /\ call[k].pc = "linkInsert"
  /\ IF owner[a] = None /\ call[k].actor \in actors
       THEN owner' = [owner EXCEPT ![a] = call[k].actor] /\ Goto(k, "linkCache")
       ELSE UNCHANGED owner /\ Throw(k)
  /\ UNCHANGED <<actors, sender, session, cache, history, faults>>

LinkCache(k) ==
  /\ call[k].pc = "linkCache"
  /\ cache' = [cache EXCEPT ![call[k].account] = call[k].actor]
  /\ Return(k)
  /\ UNCHANGED <<rows, history, faults>>

(* f with every value source replaced by target. *)
Moved(f, source, target) ==
  [z \in DOMAIN f |-> IF f[z] = source THEN target ELSE f[z]]

(* An update that gives rows to an actor that is gone violates their foreign
   key; one that matches no row does not. *)
Movable(f, source, target) == target \in actors \/ \A z \in DOMAIN f : f[z] # source

(* Mutant of MergeAccounts: the accounts are forgotten. *)
MergeAccountsForgotten(k) ==
  /\ call[k].pc = "mergeAccounts"
  /\ Goto(k, "mergeMessages")
  /\ UNCHANGED <<rows, cache, history, faults>>

MergeAccounts(k) ==
  LET source == call[k].source  target == call[k].actor IN
  /\ call[k].pc = "mergeAccounts"
  /\ IF Movable(owner, source, target)
       THEN owner' = Moved(owner, source, target) /\ Goto(k, "mergeMessages")
       ELSE UNCHANGED owner /\ Throw(k)
  /\ UNCHANGED <<actors, sender, session, cache, history, faults>>

MergeMessages(k) ==
  LET source == call[k].source  target == call[k].actor IN
  /\ call[k].pc = "mergeMessages"
  /\ IF Movable(sender, source, target)
       THEN sender' = Moved(sender, source, target) /\ Goto(k, "deleteSource")
       ELSE UNCHANGED sender /\ Throw(k)
  /\ UNCHANGED <<actors, owner, session, cache, history, faults>>

(* Mutant of DeleteSource: the leftover actor stays. *)
DeleteSourceForgotten(k) ==
  /\ call[k].pc = "deleteSource"
  /\ Goto(k, "clearCache")
  /\ UNCHANGED <<rows, cache, history, faults>>

(* Whatever has been given to the source meanwhile goes with it. *)
DeleteSource(k) ==
  LET source == call[k].source IN
  /\ call[k].pc = "deleteSource"
  /\ actors' = actors \ {source}
  /\ owner' = Moved(owner, source, None)
  /\ sender' = Moved(sender, source, None)
  /\ session' = Moved(session, source, None)
  /\ Goto(k, "clearCache")
  /\ UNCHANGED <<cache, history, faults>>

ClearCache(k) ==
  /\ call[k].pc = "clearCache"
  /\ cache' = [a \in Accounts |-> None]
  /\ Return(k)
  /\ UNCHANGED <<rows, history, faults>>

-----------------------------------------------------------------------------
Fault == faults < MaxFaults /\ faults' = faults + 1

(* The database call a call waits for throws, or its answer is lost. *)
DbFailure(x) ==
  /\ call[x].pc \in Busy \ {"lookup"}
  /\ Fault
  /\ Throw(x)
  /\ UNCHANGED <<rows, cache, history>>

(* The process dies, its cache and every call in progress with it. *)
Crash ==
  /\ Fault
  /\ cache' = [a \in Accounts |-> None]
  /\ call' = [x \in Calls |-> IF call[x].pc \in Busy
                              THEN Over(call[x], "thrown") ELSE call[x]]
  /\ UNCHANGED <<rows, history>>

Resolve(x) == \/ Lookup(x) \/ SelectAccount(x) \/ UseAccount(x)
              \/ InsertActor(x) \/ InsertAccount(x) \/ CacheRegistered(x)
Link(k) == LinkSelect(k) \/ LinkInsert(k) \/ LinkCache(k)
Merge(k) == MergeAccounts(k) \/ MergeMessages(k) \/ DeleteSource(k) \/ ClearCache(k)

Next ==
  \/ \E d \in Deliveries : Deliver(d) \/ Persist(d)
  \/ \E k \in Callbacks : \/ SetSession(k) \/ Link(k) \/ Merge(k)
                          \/ \E w \in Browsers, a \in Accounts : Callback(k, w, a)
  \/ \E x \in Calls : Resolve(x) \/ DbFailure(x)
  \/ Crash

Spec == Init /\ [][Next]_vars

-----------------------------------------------------------------------------
(* resolveActor never takes one person for another: the actor a call has
   resolved, and the one the cache holds, owns the account, unless it has
   been merged into another actor in the meantime. *)
ResolvedIsOwner ==
  /\ \A x \in Calls : call[x].pc \in {"selected", "registered", "persist", "setSession"} =>
       call[x].actor \in {owner[call[x].account]} \cup mergedAway
  /\ \A a \in Accounts : cache[a] \in {None, owner[a]} \cup mergedAway

(* "its other linked accounts ... move over": however deliveries run into a
   merge, and wherever it is cut off, an account stays registered, as long
   as no two link calls in progress have an actor in common. *)
AccountsSurvive ==
  [][~ entangled' => \A a \in Accounts : owner[a] # None => owner'[a] # None]_vars

(* When no merge is in progress, a stored message is filed under the actor
   that owns the account it came from: the history a dashboard or a prompt
   shows is that of the person.  Only a merge cut off between its statements
   or entangled with another leaves history behind. *)
MessagesFollowAccounts ==
  faults = 0 /\ ~ entangled /\ (\A k \in Callbacks : call[k].pc \notin Merging)
    => \A d \in Deliveries : sender[d] # None => sender[d] = owner[AccountOf[d]]

(* A call throws only for a database failure, a crash, an actor merged away
   under it, or another call that registered the same account first. *)
DropsExplained ==
  \A x \in Calls : call[x].pc = "thrown" =>
    \/ faults > 0
    \/ call[x].actor \in mergedAway
    \/ \E y \in Calls \ {x} : call[y].account = call[x].account

(* "its other linked accounts and message history move over, and the
   leftover actor is deleted": no message is lost by a merge. *)
HistoryMovesOver ==
  [][\A d \in Deliveries : sender[d] # None => sender'[d] # None]_vars
==================================================================================
