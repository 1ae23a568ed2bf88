------------------------- MODULE IdentityService_proofs -------------------------
(***************************************************************************)
(* Proofs about IdentityService, for any number of accounts, messages,     *)
(* browsers and concurrent calls: an actor is resolved to the owner of the *)
(* account, calls throw only for a reason, and, as long as no two link     *)
(* calls share an actor, merges lose no account and leave no message under *)
(* the wrong actor.                                                        *)
(***************************************************************************)
EXTENDS IdentityService, TLAPS

(* Calls that may still insert an actor; calls that hold a resolved one;
   link calls that have read the account. *)
Early == {"start", "lookup", "select", "insertActor", "insertAccount"}
Held == {"selected", "registered", "persist", "setSession"}
Chosen == {"linkInsert", "linkCache"} \cup Merging
Moving == {"mergeMessages", "deleteSource"}

(* Nothing refers to the actor x has not inserted or not registered yet. *)
Fresh(x) ==
  /\ \A a \in Accounts : owner[a] # x /\ cache[a] # x
  /\ \A w \in Browsers : session[w] # x
  /\ \A y \in Calls : call[y].source # x /\ (call[y].actor = x => y = x)

(* What each call may rely on between its steps. *)
LocalInv ==
  \A x \in Calls :
    LET c == call[x] IN
    /\ c.pc = "start" <=> c.account = None
    /\ c.pc \in {"linkSelect", "linkInsert"} => c.source = None
    /\ c.pc \in Held \cup Linking \cup Merging => c.actor # None
    /\ c.pc \in Merging => c.source \in mergedAway
    /\ c.pc \in Linking \cup Merging \cup {"setSession"} => x \in Callbacks
    /\ x \in Callbacks /\ c.pc \in Resolving \cup {"setSession"} => c.browser \in Browsers
    /\ x \in Deliveries /\ c.pc # "start" => c.account = AccountOf[x]
    /\ c.actor \in {None} \cup actors \cup mergedAway

FreshInv ==
  \A x \in Calls :
    /\ call[x].pc \in Early => Fresh(x)
    /\ call[x].pc = "insertAccount" => call[x].actor = x /\ x \in actors
    /\ call[x].pc \in Early \ {"insertAccount"} => x \notin actors

(* A call about to register an account that is taken by now has a rival. *)
RivalInv ==
  \A x \in Calls :
    call[x].pc \in {"insertActor", "insertAccount", "linkInsert"} =>
      \/ owner[call[x].account] = None
      \/ \E y \in Calls \ {x} : call[y].account = call[x].account

LinkCacheInv ==
  \A x \in Calls : call[x].pc = "linkCache" =>
    call[x].actor \in {owner[call[x].account]} \cup mergedAway

Inv == TypeOK /\ LocalInv /\ FreshInv /\ RivalInv /\ LinkCacheInv
       /\ ResolvedIsOwner /\ DropsExplained

(* Merges that have no actor in common do not disturb each other. *)
Apart ==
  \A j, k \in Callbacks : j # k /\ call[j].pc \in Chosen /\ call[k].pc \in Chosen
                            => Concerned(j) \cap Concerned(k) = {}

Sound(k) ==
  /\ call[k].pc \in Merging => call[k].source # call[k].actor
  /\ call[k].pc = "mergeAccounts" => owner[call[k].account] = call[k].source
  /\ call[k].pc \in Moving =>
       call[k].actor \in actors /\ \A a \in Accounts : owner[a] # call[k].source

MergeInv == ~ entangled => Apart /\ \A k \in Callbacks : Sound(k)

(* v is the owner of a, or gone, or being merged into the owner. *)
Settled(v, a) ==
  \/ v = owner[a]
  \/ v \notin actors
  \/ \E k \in Callbacks : call[k].pc \in Moving /\ call[k].source = v /\ call[k].actor = owner[a]

HistoryInv ==
  ~ entangled /\ faults = 0 =>
    /\ \A d \in Deliveries : sender[d] # None => Settled(sender[d], AccountOf[d])
    /\ \A a \in Accounts : cache[a] # None => Settled(cache[a], a)
    /\ \A x \in Calls : call[x].pc \in Held \cup {"linkCache"} =>
                          Settled(call[x].actor, call[x].account)


-----------------------------------------------------------------------------
LEMMA InitInv == Init => Inv
<1> SUFFICES ASSUME Init PROVE Inv
  OBVIOUS
<1> USE IdentityAssumption DEF Init, Actors, Calls, Optional
<1>1. TypeOK
  <2>1. session \in [Browsers -> Optional(actors)]
    OBVIOUS
  <2>2. call \in [Calls -> Call]
    BY DEF Call, PC
  <2>3. faults \in 0 .. MaxFaults
    OBVIOUS
  <2>4. \A x \in Calls : call[x].pc = "start"
    OBVIOUS
  <2> QED
    BY <2>1, <2>2, <2>3, <2>4 DEF TypeOK, Busy, Resolving, Linking, Merging
<1>2. LocalInv
  BY DEF LocalInv, Held, Resolving, Linking, Merging
<1>3. FreshInv
  BY DEF FreshInv, Fresh, Early
<1>4. RivalInv /\ LinkCacheInv /\ ResolvedIsOwner /\ DropsExplained
  BY DEF RivalInv, LinkCacheInv, ResolvedIsOwner, DropsExplained
<1> QED
  BY <1>1, <1>2, <1>3, <1>4 DEF Inv

(* What a call does on its own account. *)
Act(x) ==
  \/ x \in Deliveries /\ (Deliver(x) \/ Persist(x))
  \/ x \in Callbacks /\ \/ SetSession(x) \/ Link(x) \/ Merge(x)
                        \/ \E w \in Browsers, a \in Accounts : Callback(x, w, a)
  \/ Resolve(x)
  \/ DbFailure(x)

LEMMA Steps ==
  [Next]_vars => (\E x \in Calls : Act(x)) \/ Crash \/ UNCHANGED vars
BY DEF Next, Act, Calls

(* A call changes no other call's variables. *)
LEMMA Others ==
  ASSUME TypeOK, NEW x \in Calls, Act(x), NEW y \in Calls, y # x
  PROVE  call'[y] = call[y]
BY DEF TypeOK, Act, Deliver, Persist, SetSession, Link, LinkSelect, LinkInsert, LinkCache,
   Merge, MergeAccounts, MergeMessages, DeleteSource, ClearCache, Callback, Resolve,
   Lookup, SelectAccount, UseAccount, InsertActor, InsertAccount, CacheRegistered,
   DbFailure, Goto, GotoWith, Return, Throw

(* The program points, as the steps use them. *)
LEMMA Points ==
  /\ "lookup" \in Resolving /\ "select" \in Resolving /\ "selected" \in Resolving
  /\ "insertActor" \in Resolving /\ "insertAccount" \in Resolving /\ "registered" \in Resolving
  /\ "linkSelect" \in Linking /\ "linkInsert" \in Linking /\ "linkCache" \in Linking
  /\ "mergeAccounts" \in Merging /\ "mergeMessages" \in Merging
  /\ "deleteSource" \in Merging /\ "clearCache" \in Merging
  /\ "persist" \in Busy /\ "setSession" \in Busy
  /\ Resolving \subseteq Busy /\ Linking \subseteq Busy /\ Merging \subseteq Busy
  /\ Busy \subseteq PC /\ {"start", "done", "thrown"} \subseteq PC
  /\ Busy \cap {"start", "done", "thrown"} = {}
  /\ "setSession" \notin Resolving \cup Linking \cup Merging
<1> USE DEF Resolving, Linking, Merging
<1>1. Busy \cap {"start", "done", "thrown"} = {}
  BY DEF Busy
<1>2. "persist" \in Busy /\ "setSession" \in Busy /\ Resolving \subseteq Busy
      /\ Linking \subseteq Busy /\ Merging \subseteq Busy
  BY DEF Busy
<1>3. Busy \subseteq PC /\ {"start", "done", "thrown"} \subseteq PC
  BY DEF PC
<1> QED
  BY <1>1, <1>2, <1>3

Kept(x) == /\ call'[x].account = call[x].account
           /\ call'[x].browser = call[x].browser
           /\ call'[x].source = call[x].source

(* What the four ways to end a step do to the variables of its call. *)
LEMMA GotoStep ==
  ASSUME TypeOK, NEW x \in Calls, NEW pc \in PC, Goto(x, pc)
  PROVE  /\ call' \in [Calls -> Call]
         /\ call'[x].pc = pc /\ call'[x].actor = call[x].actor /\ Kept(x)
BY DEF TypeOK, Goto, Call, Kept

LEMMA GotoWithStep ==
  ASSUME TypeOK, NEW x \in Calls, NEW pc \in PC, NEW v \in Optional(Actors), GotoWith(x, pc, v)
  PROVE  /\ call' \in [Calls -> Call]
         /\ call'[x].pc = pc /\ call'[x].actor = v /\ Kept(x)
<1>1. call'[x] = [call[x] EXCEPT !.pc = pc, !.actor = v]
  BY DEF TypeOK, GotoWith
<1>2. call[x] \in Call
  BY DEF TypeOK
<1>3. [call[x] EXCEPT !.pc = pc, !.actor = v] \in Call
  BY <1>2 DEF Call
<1> QED
  BY <1>1, <1>2, <1>3 DEF TypeOK, GotoWith, Call, Kept

LEMMA EndStep ==
  ASSUME TypeOK, NEW x \in Calls, Return(x) \/ Throw(x)
  PROVE  /\ call' \in [Calls -> Call]
         /\ call'[x].pc \in {"done", "thrown"} /\ call'[x].account = call[x].account
         /\ call'[x].source = None
         /\ call'[x].actor \in {None, call[x].actor}
         /\ Return(x) => call'[x].pc = "done"
         /\ Throw(x) => call'[x].pc = "thrown"
         /\ call'[x].pc = "thrown" => Throw(x) /\ call'[x].actor = call[x].actor
<1>1. Over(call[x], "done") \in Call /\ Over(call[x], "thrown") \in Call
  BY DEF TypeOK, Over, Call, PC, Optional
<1>2. call' \in [Calls -> Call]
  BY <1>1 DEF TypeOK, Return, Throw
<1>3. /\ Return(x) => call'[x] = Over(call[x], "done")
      /\ Throw(x) => call'[x] = Over(call[x], "thrown")
  BY DEF TypeOK, Return, Throw
<1> QED
  BY <1>2, <1>3 DEF TypeOK, Over, Call

(* What the other steps do. *)
LEMMA DeliverStep ==
  ASSUME TypeOK, NEW x \in Deliveries, Deliver(x)
  PROVE  /\ call' \in [Calls -> Call]
         /\ call'[x].pc = "lookup" /\ call'[x].account = AccountOf[x]
         /\ call'[x].browser = call[x].browser /\ call'[x].source = call[x].source
         /\ call'[x].actor = call[x].actor
<1>1. x \in Calls /\ call[x] \in Call /\ AccountOf[x] \in Accounts
  BY IdentityAssumption DEF TypeOK, Calls
<1>2. call'[x] = [call[x] EXCEPT !.pc = "lookup", !.account = AccountOf[x]]
  BY <1>1 DEF TypeOK, Deliver
<1>3. [call[x] EXCEPT !.pc = "lookup", !.account = AccountOf[x]] \in Call
  BY <1>1 DEF Call, PC, Busy, Resolving, Optional
<1> QED
  BY <1>1, <1>2, <1>3 DEF TypeOK, Deliver, Call

LEMMA CallbackStep ==
  ASSUME TypeOK, NEW k \in Callbacks, NEW w \in Browsers, NEW a \in Accounts, Callback(k, w, a)
  PROVE  /\ call' \in [Calls -> Call]
         /\ call'[k].account = a /\ call'[k].source = None
         /\ \/ call'[k].pc = "lookup" /\ call'[k].browser = w /\ call'[k].actor = None
            \/ call'[k].pc = "linkSelect" /\ call'[k].actor = session[w] /\ session[w] # None
<1>1. k \in Calls
  BY DEF Calls
<1>2. PICK target \in {None, session[w]} :
        call' = [call EXCEPT ![k] =
          [pc |-> IF target = None THEN "lookup" ELSE "linkSelect",
           account |-> a, browser |-> IF target = None THEN w ELSE None,
           actor |-> target, source |-> None]]
  BY DEF Callback
<1>3. target \in Optional(Actors)
  BY DEF TypeOK, Optional
<1> DEFINE c == [pc |-> IF target = None THEN "lookup" ELSE "linkSelect",
                 account |-> a, browser |-> IF target = None THEN w ELSE None,
                 actor |-> target, source |-> None]
<1>4. c \in Call
  BY <1>3 DEF Call, PC, Busy, Resolving, Linking, Optional
<1>5. call'[k] = c /\ call' \in [Calls -> Call]
  BY <1>1, <1>2, <1>4 DEF TypeOK
<1> QED
  BY <1>2, <1>5

LEMMA LinkSelectStep ==
  ASSUME TypeOK, NEW k \in Callbacks, LinkSelect(k)
  PROVE  /\ call' \in [Calls -> Call]
         /\ call'[k].account = call[k].account
         /\ \/ /\ call'[k].pc = "mergeAccounts" /\ call'[k].actor = call[k].actor
               /\ call'[k].source = owner[call[k].account]
               /\ call'[k].source \notin {None, call[k].actor} \cup Bots
               /\ call'[k].source \in mergedAway'
            \/ /\ call'[k].pc = "linkInsert" /\ call'[k].actor = call[k].actor
               /\ call'[k].source = call[k].source
               /\ owner[call[k].account] = None
            \/ call'[k].pc = "done" /\ Return(k)
<1>1. k \in Calls /\ call[k] \in Call /\ call[k].account \in Accounts
  BY DEF TypeOK, Calls, LinkSelect, Busy, Linking
<1>2. CASE call' = [call EXCEPT ![k].pc = "mergeAccounts", ![k].source = owner[call[k].account]]
           /\ owner[call[k].account] \notin {None, call[k].actor} \cup Bots
  <2>1. owner[call[k].account] \in Optional(Actors)
    BY <1>1 DEF TypeOK, Optional
  <2>2. call'[k] = [call[k] EXCEPT !.pc = "mergeAccounts", !.source = owner[call[k].account]]
    BY <1>1, <1>2 DEF TypeOK
  <2>3. [call[k] EXCEPT !.pc = "mergeAccounts", !.source = owner[call[k].account]] \in Call
    BY <1>1, <2>1 DEF Call, PC, Busy, Merging
  <2> QED
    BY <1>1, <1>2, <2>2, <2>3 DEF TypeOK, Call, LinkSelect
<1>3. CASE Goto(k, "linkInsert") /\ owner[call[k].account] = None
  BY <1>1, <1>3, GotoStep DEF Kept, PC, Busy, Linking
<1>4. CASE Return(k)
  BY <1>1, <1>4, EndStep
<1> QED
  BY <1>2, <1>3, <1>4 DEF LinkSelect

(* A crash only ends calls. *)
LEMMA Crashes ==
  ASSUME Crash, NEW x \in Calls
  PROVE  call'[x] = call[x] \/ (call[x].pc \in Busy /\ call'[x] = Over(call[x], "thrown"))
BY DEF Crash

LEMMA CrashKeeps ==
  ASSUME TypeOK, Crash, NEW x \in Calls, call'[x].pc # "thrown"
  PROVE  call'[x] = call[x]
<1>1. Over(call[x], "thrown").pc = "thrown"
  BY DEF TypeOK, Call, Over
<1> QED
  BY <1>1, Crashes

-----------------------------------------------------------------------------
(* One lemma per part of the invariant. *)

LEMMA TypeStep ==
  ASSUME Inv, [Next]_vars
  PROVE  TypeOK'
<1> USE IdentityAssumption DEF Inv, Optional
<1>1. ASSUME NEW x \in Calls, Act(x)
      PROVE  /\ call' \in [Calls -> Call]
             /\ call'[x].pc \in Busy => call'[x].account \in Accounts
             /\ call'[x].pc = "setSession" => call'[x].browser \in Browsers
  <2>0. /\ TypeOK /\ call[x] \in Call
        /\ call[x].pc \in Busy => call[x].account \in Accounts
    BY DEF TypeOK
  <2> USE Points
  <2>1. CASE x \in Deliveries /\ Deliver(x)
    BY <2>0, <2>1, DeliverStep
  <2>2. CASE Return(x) \/ Throw(x)
    BY <2>0, <2>2, EndStep
  <2>3. CASE x \in Callbacks /\ \E w \in Browsers, a \in Accounts : Callback(x, w, a)
    BY <2>0, <2>3, CallbackStep
  <2>4. CASE SetSession(x) \/ Persist(x)
    BY <2>2, <2>4 DEF SetSession, Persist
  <2>5. CASE x \in Callbacks /\ LinkSelect(x)
    BY <2>0, <2>5, LinkSelectStep DEF LinkSelect
  <2>6. ASSUME NEW pc \in {"linkCache", "mergeMessages", "deleteSource", "clearCache", "select",
                           "insertActor", "registered"},
               Goto(x, pc), call[x].pc \in Busy
        PROVE  /\ call' \in [Calls -> Call]
               /\ call'[x].account \in Accounts /\ call'[x].pc # "setSession"
    <3>1. pc \in PC
      OBVIOUS
    <3> QED
      BY <2>0, <2>6, <3>1, GotoStep DEF Kept
  <2>7. CASE Goto(x, Resolved(x)) /\ call[x].pc \in Resolving
    <3>1. Resolved(x) \in PC /\ (Resolved(x) = "setSession" => x \in Callbacks)
      BY DEF Resolved, Calls
    <3>2. call'[x].account = call[x].account /\ call'[x].browser = call[x].browser
          /\ call'[x].pc = Resolved(x) /\ call' \in [Calls -> Call]
      BY <2>0, <2>7, <3>1, GotoStep DEF Kept
    <3> QED
      BY <2>0, <2>7, <3>1, <3>2 DEF LocalInv
  <2>8. CASE LinkInsert(x) \/ LinkCache(x) \/ Merge(x)
    BY <2>2, <2>6, <2>8 DEF LinkInsert, LinkCache, Merge, MergeAccounts, MergeMessages,
       DeleteSource, ClearCache
  <2>9. ASSUME NEW v \in Optional(Actors), NEW pc \in {Resolved(x), "selected", "insertAccount"},
               GotoWith(x, pc, v), call[x].pc \in Resolving
        PROVE  /\ call' \in [Calls -> Call]
               /\ call'[x].pc \in Busy => call'[x].account \in Accounts
               /\ call'[x].pc = "setSession" => call'[x].browser \in Browsers
    <3>1. pc \in PC /\ (pc = "setSession" => x \in Callbacks)
      BY DEF Resolved, Calls
    <3>2. call'[x].account = call[x].account /\ call'[x].browser = call[x].browser
          /\ call'[x].pc = pc /\ call' \in [Calls -> Call]
      BY <2>0, <2>9, <3>1, GotoWithStep DEF Kept
    <3> QED
      BY <2>0, <2>9, <3>1, <3>2 DEF LocalInv
  <2>10. CASE Lookup(x) \/ SelectAccount(x)
    <3>1. call[x].account \in Accounts /\ call[x].pc \in Resolving /\ call[x].pc \in Busy
      BY <2>0, <2>10 DEF Lookup, SelectAccount
    <3>2. cache[call[x].account] \in Optional(Actors) /\ owner[call[x].account] \in Optional(Actors)
      BY <3>1 DEF TypeOK
    <3>3. \/ \E pc \in {"select", "insertActor"} : Goto(x, pc)
          \/ \E pc \in {Resolved(x), "selected"}, v \in Optional(Actors) : GotoWith(x, pc, v)
      BY <2>10, <3>2 DEF Lookup, SelectAccount
    <3> QED
      BY <2>6, <2>9, <3>1, <3>3
  <2>11. CASE UseAccount(x) \/ CacheRegistered(x)
    BY <2>7, <2>11 DEF UseAccount, CacheRegistered
  <2>12. CASE InsertActor(x)
    BY <2>9, <2>12 DEF InsertActor, Actors
  <2>13. CASE InsertAccount(x)
    BY <2>2, <2>6, <2>13 DEF InsertAccount
  <2>14. CASE DbFailure(x)
    BY <2>2, <2>14 DEF DbFailure
  <2> QED
    BY <1>1, <2>1, <2>3, <2>4, <2>5, <2>8, <2>10, <2>11, <2>12, <2>13, <2>14
       DEF Act, Resolve, Link
<1>2. ASSUME NEW x \in Calls, Act(x)
      PROVE  /\ actors' \subseteq Actors
             /\ owner' \in [Accounts -> Optional(actors')]
             /\ sender' \in [Deliveries -> Optional(actors')]
             /\ session' \in [Browsers -> Optional(actors')]
             /\ cache' \in [Accounts -> Optional(Actors)]
             /\ mergedAway' \subseteq Actors
             /\ entangled' \in BOOLEAN
             /\ faults' \in 0 .. MaxFaults
  <2> USE DEF TypeOK
  <2>1. CASE Deliver(x) \/ \E w \in Browsers, a \in Accounts : Callback(x, w, a)
    BY <2>1 DEF Deliver, Callback, rows, history
  <2>2. CASE x \in Deliveries /\ Persist(x)
    BY <2>2 DEF Persist, history
  <2>3. CASE SetSession(x)
    BY <2>3 DEF SetSession, history
  <2>4. CASE LinkSelect(x)
    BY <2>4 DEF LinkSelect, rows, Actors, Busy, Linking
  <2>5. CASE LinkInsert(x)
    BY <2>5 DEF LinkInsert, history
  <2>6. CASE LinkCache(x) \/ UseAccount(x) \/ CacheRegistered(x)
    BY <2>6 DEF LinkCache, UseAccount, CacheRegistered, rows, history, Call
  <2>7. CASE Merge(x)
    BY <2>7 DEF Merge, MergeAccounts, MergeMessages, DeleteSource, ClearCache, Moved, Movable,
       rows, history, LocalInv
  <2>8. CASE Lookup(x) \/ SelectAccount(x) \/ DbFailure(x)
    BY <2>8 DEF Lookup, SelectAccount, DbFailure, Fault, rows, history
  <2>9. CASE InsertActor(x)
    BY <2>9 DEF InsertActor, history, Actors
  <2>10. CASE InsertAccount(x)
    BY <2>10 DEF InsertAccount, history, FreshInv
  <2> QED
    BY <1>2, <2>1, <2>2, <2>3, <2>4, <2>5, <2>6, <2>7, <2>8, <2>9, <2>10
       DEF Act, Resolve, Link
<1>3. ASSUME NEW x \in Calls, Act(x) PROVE TypeOK'
  <2>1. ASSUME NEW y \in Calls
        PROVE  /\ call'[y].pc \in Busy => call'[y].account \in Accounts
               /\ call'[y].pc = "setSession" => call'[y].browser \in Browsers
    BY <1>1, <1>3, Others DEF TypeOK
  <2> QED
    BY <1>1, <1>2, <1>3, <2>1 DEF TypeOK
<1>4. CASE Crash
  <2>1. ASSUME NEW y \in Calls
        PROVE  /\ Over(call[y], "thrown") \in Call /\ Over(call[y], "thrown").pc = "thrown"
    BY DEF TypeOK, Call, PC, Over
  <2>2. call' \in [Calls -> Call]
    BY <1>4, <2>1 DEF Crash, TypeOK
  <2>3. ASSUME NEW y \in Calls
        PROVE  /\ call'[y].pc \in Busy => call'[y].account \in Accounts
               /\ call'[y].pc = "setSession" => call'[y].browser \in Browsers
    BY <1>4, <2>1, Crashes DEF TypeOK, Busy, Resolving, Linking, Merging
  <2> QED
    BY <1>4, <2>2, <2>3 DEF Crash, TypeOK, rows, history, Fault
<1>5. CASE UNCHANGED vars
  BY <1>5 DEF TypeOK, vars
<1> QED
  BY <1>3, <1>4, <1>5, Steps

-----------------------------------------------------------------------------
(* The transitions of one call: where it goes, and what it takes along. *)
Arrives(x) ==
  LET c == call[x]  d == call'[x] IN
  /\ c.pc = "start"
  /\ \/ /\ x \in Deliveries /\ Deliver(x)
        /\ d.pc = "lookup" /\ d.account = AccountOf[x]
        /\ d.actor = c.actor /\ d.source = c.source
     \/ /\ x \in Callbacks /\ d.account \in Accounts /\ d.source = None
        /\ \E w \in Browsers, a \in Accounts : Callback(x, w, a)
        /\ \/ d.pc = "lookup" /\ d.browser \in Browsers /\ d.actor = None
           \/ d.pc = "linkSelect" /\ d.actor # None /\ \E w \in Browsers : d.actor = session[w]

Resolves(x) ==
  LET c == call[x]  d == call'[x]  a == call[x].account IN
  /\ Kept(x)
  /\ \/ Lookup(x) /\ c.pc = "lookup" /\ d.pc = Resolved(x) /\ d.actor = cache[a] /\ cache[a] # None
     \/ Lookup(x) /\ c.pc = "lookup" /\ d.pc = "select" /\ d.actor = c.actor
     \/ SelectAccount(x) /\ c.pc = "select" /\ d.pc = "selected" /\ d.actor = owner[a]
        /\ owner[a] # None
     \/ SelectAccount(x) /\ c.pc = "select" /\ d.pc = "insertActor" /\ d.actor = c.actor
        /\ owner[a] = None
     \/ UseAccount(x) /\ c.pc = "selected" /\ d.pc = Resolved(x) /\ d.actor = c.actor
     \/ InsertActor(x) /\ c.pc = "insertActor" /\ d.pc = "insertAccount" /\ d.actor = x
     \/ InsertAccount(x) /\ c.pc = "insertAccount" /\ d.pc = "registered" /\ d.actor = c.actor
        /\ owner[a] = None /\ owner' = [owner EXCEPT ![a] = x]
     \/ CacheRegistered(x) /\ c.pc = "registered" /\ d.pc = Resolved(x) /\ d.actor = c.actor

Links(k) ==
  LET c == call[k]  d == call'[k]  a == call[k].account IN
  /\ k \in Callbacks
  /\ d.actor = c.actor
  /\ \/ /\ Kept(k)
        /\ \/ LinkSelect(k) /\ c.pc = "linkSelect" /\ d.pc = "linkInsert" /\ owner[a] = None
           \/ LinkInsert(k) /\ c.pc = "linkInsert" /\ d.pc = "linkCache"
              /\ owner[a] = None /\ c.actor \in actors /\ owner' = [owner EXCEPT ![a] = c.actor]
           \/ MergeAccounts(k) /\ c.pc = "mergeAccounts" /\ d.pc = "mergeMessages"
              /\ Movable(owner, c.source, c.actor) /\ owner' = Moved(owner, c.source, c.actor)
           \/ MergeMessages(k) /\ c.pc = "mergeMessages" /\ d.pc = "deleteSource"
              /\ Movable(sender, c.source, c.actor) /\ sender' = Moved(sender, c.source, c.actor)
           \/ DeleteSource(k) /\ c.pc = "deleteSource" /\ d.pc = "clearCache"
     \/ /\ LinkSelect(k) /\ c.pc = "linkSelect" /\ d.pc = "mergeAccounts"
        /\ d.account = a /\ d.source = owner[a] /\ d.source \in mergedAway'
        /\ d.source \notin {None, c.actor} \cup Bots

Succeeds(x) ==
  /\ Return(x) /\ call'[x].pc = "done"
  /\ Persist(x) \/ SetSession(x) \/ LinkSelect(x) \/ LinkCache(x) \/ ClearCache(x)

Fails(x) ==
  LET c == call[x] IN
  /\ Throw(x) /\ call'[x].pc = "thrown" /\ call'[x].actor = c.actor
  /\ UNCHANGED <<rows, cache, history>>
  /\ \/ DbFailure(x)
     \/ c.pc \in {"insertAccount", "linkInsert"} /\ owner[c.account] # None
     \/ /\ c.pc \in {"persist", "setSession", "linkInsert", "mergeAccounts", "mergeMessages"}
        /\ c.actor \notin actors

Ends(x) ==
  /\ call[x].pc \in Busy
  /\ call'[x].account = call[x].account /\ call'[x].source = None
  /\ call'[x].actor \in {None, call[x].actor}
  /\ Succeeds(x) \/ Fails(x)

LEMMA Transitions ==
  ASSUME TypeOK, NEW x \in Calls, Act(x)
  PROVE  Arrives(x) \/ Resolves(x) \/ Links(x) \/ Ends(x)
<1> USE Points
<1>1. CASE x \in Deliveries /\ Deliver(x)
  BY <1>1, DeliverStep DEF Arrives, Deliver
<1>2. CASE x \in Callbacks /\ \E w \in Browsers, a \in Accounts : Callback(x, w, a)
  <2>1. PICK w \in Browsers, a \in Accounts : Callback(x, w, a)
    BY <1>2
  <2>2. call[x].pc = "start"
    BY <2>1 DEF Callback
  <2> QED
    BY <1>2, <2>1, <2>2, CallbackStep DEF Arrives
<1>3. ASSUME Return(x) /\ call[x].pc \in Busy,
             Persist(x) \/ SetSession(x) \/ LinkSelect(x) \/ LinkCache(x) \/ ClearCache(x)
      PROVE  Ends(x)
  BY <1>3, EndStep DEF Ends, Succeeds
<1>4. ASSUME Throw(x) /\ call[x].pc \in Busy, UNCHANGED <<rows, cache, history>>,
             \/ DbFailure(x)
             \/ call[x].pc \in {"insertAccount", "linkInsert"} /\ owner[call[x].account] # None
             \/ /\ call[x].pc \in {"persist", "setSession", "linkInsert", "mergeAccounts",
                                   "mergeMessages"}
                /\ call[x].actor \notin actors
      PROVE  Ends(x)
  BY <1>4, EndStep DEF Ends, Fails
<1>5. ASSUME NEW pc \in PC, Goto(x, pc)
      PROVE  Kept(x) /\ call'[x].pc = pc /\ call'[x].actor = call[x].actor
  BY <1>5, GotoStep
<1>6. ASSUME NEW pc \in PC, NEW v \in Optional(Actors), GotoWith(x, pc, v)
      PROVE  Kept(x) /\ call'[x].pc = pc /\ call'[x].actor = v
  BY <1>6, GotoWithStep
<1>7. Resolved(x) \in PC
  BY DEF Resolved
<1>8. call[x].pc \in Busy => /\ cache[call[x].account] \in Optional(Actors)
                             /\ owner[call[x].account] \in Optional(Actors)
  BY DEF TypeOK, Optional
<1>9. CASE Lookup(x)
  BY <1>5, <1>6, <1>7, <1>8, <1>9 DEF Lookup, Resolves
<1>10. CASE SelectAccount(x)
  BY <1>5, <1>6, <1>8, <1>10 DEF SelectAccount, Resolves
<1>11. CASE UseAccount(x)
  BY <1>5, <1>7, <1>11 DEF UseAccount, Resolves
<1>12. CASE InsertActor(x)
  BY <1>6, <1>12 DEF InsertActor, Resolves, Actors, Optional
<1>13. CASE InsertAccount(x)
  BY <1>4, <1>5, <1>13 DEF InsertAccount, Resolves, rows, history
<1>14. CASE CacheRegistered(x)
  BY <1>5, <1>7, <1>14 DEF CacheRegistered, Resolves
<1>15. CASE Persist(x) \/ SetSession(x)
  BY <1>3, <1>4, <1>15 DEF Persist, SetSession, rows, history
<1>16. CASE x \in Callbacks /\ LinkSelect(x)
  BY <1>3, <1>16, LinkSelectStep, <1>5 DEF LinkSelect, Links
<1>17. CASE x \in Callbacks /\ LinkInsert(x)
  BY <1>4, <1>5, <1>17 DEF LinkInsert, Links, rows, history
<1>18. CASE LinkCache(x) \/ ClearCache(x)
  BY <1>3, <1>18 DEF LinkCache, ClearCache
<1>19. CASE x \in Callbacks /\ MergeAccounts(x)
  BY <1>4, <1>5, <1>19 DEF MergeAccounts, Links, Movable, rows, history
<1>20. CASE x \in Callbacks /\ MergeMessages(x)
  BY <1>4, <1>5, <1>20 DEF MergeMessages, Links, Movable, rows, history
<1>21. CASE x \in Callbacks /\ DeleteSource(x)
  BY <1>5, <1>21 DEF DeleteSource, Links
<1>22. CASE DbFailure(x)
  BY <1>4, <1>22 DEF DbFailure
<1> QED
  BY <1>1, <1>2, <1>9, <1>10, <1>11, <1>12, <1>13, <1>14, <1>15, <1>16, <1>17, <1>18, <1>19,
     <1>20, <1>21, <1>22 DEF Act, Resolve, Link, Merge

(* What any step does to the rows: an account is given to a caller or moved
   away from a merged actor, and an actor goes only when it was merged away. *)
LEMMA RowsStep ==
  ASSUME Inv, [Next]_vars
  PROVE  /\ mergedAway \subseteq mergedAway'
         /\ actors \subseteq actors' \cup mergedAway'
         /\ \A a \in Accounts : \/ owner'[a] = owner[a]
                                \/ owner[a] = None
                                \/ owner[a] \in mergedAway'
         /\ faults \in Nat /\ faults' \in Nat /\ faults' >= faults
<1> USE IdentityAssumption DEF Inv
<1>1. ASSUME NEW x \in Calls, Act(x), ~ MergeAccounts(x), ~ DeleteSource(x)
      PROVE  /\ mergedAway \subseteq mergedAway'
             /\ actors \subseteq actors'
             /\ \A a \in Accounts : owner'[a] = owner[a] \/ owner[a] = None
  BY <1>1 DEF TypeOK, Act, Resolve, Link, Merge, Deliver, Persist, SetSession, Callback, Lookup,
     SelectAccount, UseAccount, InsertActor, InsertAccount, CacheRegistered, LinkSelect,
     LinkInsert, LinkCache, MergeMessages, ClearCache, DbFailure, rows, history
<1>2. ASSUME NEW x \in Calls, MergeAccounts(x) \/ DeleteSource(x)
      PROVE  /\ mergedAway' = mergedAway
             /\ actors \subseteq actors' \cup mergedAway
             /\ \A a \in Accounts : owner'[a] = owner[a] \/ owner[a] \in mergedAway
  <2>1. call[x].source \in mergedAway
    BY <1>2, Points DEF LocalInv, MergeAccounts, DeleteSource
  <2>2. owner' \in {owner, Moved(owner, call[x].source, call[x].actor),
                    Moved(owner, call[x].source, None)}
    BY <1>2 DEF MergeAccounts, DeleteSource
  <2>3. \A a \in Accounts : owner'[a] = owner[a] \/ owner[a] = call[x].source
    BY <2>2 DEF TypeOK, Moved
  <2> QED
    BY <1>2, <2>1, <2>3 DEF MergeAccounts, DeleteSource, history
<1>3. ASSUME Crash \/ UNCHANGED vars
      PROVE  mergedAway' = mergedAway /\ actors' = actors /\ owner' = owner
  BY <1>3 DEF Crash, vars, rows, history
<1>4. faults' = faults \/ faults' = faults + 1
  <2>0. ASSUME NEW x \in Calls, Act(x), ~ DbFailure(x) PROVE faults' = faults
    BY <2>0 DEF Act, Resolve, Link, Merge, Deliver, Persist, SetSession, Callback, Lookup,
       SelectAccount, UseAccount, InsertActor, InsertAccount, CacheRegistered, LinkSelect,
       LinkInsert, LinkCache, MergeAccounts, MergeMessages, DeleteSource, ClearCache,
       rows, history
  <2>1. ASSUME NEW x \in Calls, Act(x) PROVE faults' = faults \/ faults' = faults + 1
    BY <2>0, <2>1 DEF DbFailure, Fault
  <2>2. CASE Crash \/ UNCHANGED vars
    BY <2>2 DEF Crash, Fault, vars
  <2> QED
    BY <2>1, <2>2, Steps
<1>5. faults \in Nat
  BY DEF TypeOK
<1> QED
  BY <1>1, <1>2, <1>3, <1>4, <1>5, Steps

(* An actor that owns an account or has been merged away keeps one of the
   two properties. *)
LEMMA OwnersStay ==
  ASSUME Inv, [Next]_vars, NEW a \in Accounts, NEW v, v # None,
         v \in {owner[a]} \cup mergedAway
  PROVE  v \in {owner'[a]} \cup mergedAway'
BY RowsStep

(* A call that has begun keeps its account. *)
LEMMA AccountsStay ==
  ASSUME Inv, [Next]_vars, NEW y \in Calls, call[y].pc # "start"
  PROVE  call'[y].account = call[y].account /\ call'[y].pc # "start"
<1> USE DEF Inv
<1>1. ASSUME NEW x \in Calls, Act(x), x # y
      PROVE  call'[y].account = call[y].account /\ call'[y].pc # "start"
  BY <1>1, Others
<1>2. CASE Act(y)
  BY <1>2, Transitions, Points DEF Arrives, Resolves, Links, Ends, Succeeds, Fails, Kept, Resolved
<1>3. CASE Crash
  <2>1. Over(call[y], "thrown").account = call[y].account /\ Over(call[y], "thrown").pc = "thrown"
    BY DEF TypeOK, Call, Over
  <2> QED
    BY <1>3, <2>1, Crashes
<1>4. CASE UNCHANGED vars
  BY <1>4 DEF vars
<1> QED
  BY <1>1, <1>2, <1>3, <1>4, Steps

LEMMA ResolvedStep ==
  ASSUME Inv, [Next]_vars, TypeOK'
  PROVE  LinkCacheInv' /\ ResolvedIsOwner'
<1> USE IdentityAssumption, Points DEF Inv
<1>0. ASSUME NEW y \in Calls, call[y].pc \in Held \cup {"linkCache"}
      PROVE  /\ call[y].account \in Accounts
             /\ call[y].actor # None
             /\ call[y].actor \in {owner[call[y].account]} \cup mergedAway
  <2>1. call[y].pc \in Busy /\ call[y].pc \in Held \cup Linking
    BY <1>0 DEF Held
  <2>2. call[y].actor \in {owner[call[y].account]} \cup mergedAway
    BY <1>0 DEF ResolvedIsOwner, LinkCacheInv, Held
  <2> QED
    BY <2>1, <2>2 DEF TypeOK, LocalInv
<1>1. ASSUME NEW y \in Calls, call[y].pc \in Held \cup {"linkCache"}
      PROVE  call[y].actor \in {owner'[call[y].account]} \cup mergedAway'
  BY <1>0, <1>1, OwnersStay
<1>2. ASSUME NEW a \in Accounts, cache[a] # None
      PROVE  cache[a] \in {owner'[a]} \cup mergedAway'
  <2>1. cache[a] \in {owner[a]} \cup mergedAway
    BY <1>2 DEF ResolvedIsOwner
  <2> QED
    BY <1>2, <2>1, OwnersStay
<1>3. ASSUME NEW y \in Calls, Act(y), call'[y].pc \in Held \cup {"linkCache"}
      PROVE  call'[y].actor \in {owner'[call'[y].account]} \cup mergedAway'
  <2>1. Resolves(y) \/ Links(y)
    BY <1>3, Transitions DEF Arrives, Ends, Succeeds, Fails, Held
  <2>2. CASE Resolves(y)
    <3>1. call'[y].account = call[y].account /\ call[y].account \in Accounts
      BY <2>2 DEF Resolves, Kept, TypeOK
    <3>2. CASE call[y].pc \in {"selected", "registered"}
      BY <1>1, <2>2, <3>1, <3>2 DEF Resolves, Held
    <3>3. CASE call[y].pc = "lookup"
      <4>1. call'[y].actor = cache[call[y].account] /\ call'[y].actor # None
        BY <1>3, <2>2, <3>3 DEF Resolves, Held
      <4> QED
        BY <1>2, <3>1, <4>1
    <3>4. CASE call[y].pc = "select"
      <4>1. call'[y].actor = owner[call[y].account] /\ owner' = owner
        BY <1>3, <2>2, <3>4 DEF Resolves, Held, SelectAccount, rows
      <4> QED
        BY <3>1, <4>1
    <3>5. CASE call[y].pc \in {"insertActor", "insertAccount"}
      <4>1. call'[y].actor = y /\ owner' = [owner EXCEPT ![call[y].account] = y]
        BY <1>3, <2>2, <3>5 DEF Resolves, Held, FreshInv
      <4> QED
        BY <3>1, <4>1 DEF TypeOK
    <3> QED
      BY <2>2, <3>2, <3>3, <3>4, <3>5 DEF Resolves
  <2>3. CASE Links(y)
    <3>1. /\ call[y].account \in Accounts /\ call'[y].account = call[y].account
          /\ owner' = [owner EXCEPT ![call[y].account] = call[y].actor]
          /\ call'[y].actor = call[y].actor
      BY <1>3, <2>3 DEF Links, Held, TypeOK, Kept
    <3> QED
      BY <3>1 DEF TypeOK
  <2> QED
    BY <2>1, <2>2, <2>3
<1>4. ASSUME NEW y \in Calls, call'[y].pc \in Held \cup {"linkCache"}, call'[y] = call[y]
      PROVE  call'[y].actor \in {owner'[call'[y].account]} \cup mergedAway'
  BY <1>1, <1>4
<1>5. ASSUME NEW y \in Calls, Crash, call'[y].pc \in Held \cup {"linkCache"}
      PROVE  call'[y] = call[y]
  <2>1. Over(call[y], "thrown").pc = "thrown"
    BY DEF Over, TypeOK, Call
  <2> QED
    BY <1>5, <2>1, Crashes DEF Held
<1>6. ASSUME NEW y \in Calls, call'[y].pc \in Held \cup {"linkCache"}
      PROVE  call'[y].actor \in {owner'[call'[y].account]} \cup mergedAway'
  <2>1. CASE Act(y)
    BY <1>3, <1>6, <2>1
  <2>2. CASE \E x \in Calls \ {y} : Act(x)
    BY <1>4, <1>6, <2>2, Others
  <2>3. CASE Crash
    BY <1>4, <1>5, <1>6, <2>3
  <2>4. CASE UNCHANGED vars
    BY <1>4, <1>6, <2>4 DEF vars
  <2> QED
    BY <2>1, <2>2, <2>3, <2>4, Steps
<1>7. ASSUME NEW a \in Accounts, cache'[a] # None
      PROVE  cache'[a] \in {owner'[a]} \cup mergedAway'
  <2>1. CASE cache'[a] = cache[a]
    BY <1>2, <1>7, <2>1
  <2>2. ASSUME NEW x \in Calls, Act(x), cache' # cache
        PROVE  /\ UseAccount(x) \/ CacheRegistered(x) \/ LinkCache(x) \/ ClearCache(x)
    BY <2>2 DEF Act, Resolve, Link, Merge, Deliver, Persist, SetSession, Callback, Lookup,
       SelectAccount, InsertActor, InsertAccount, LinkSelect, LinkInsert, MergeAccounts,
       MergeMessages, DeleteSource, DbFailure
  <2>3. ASSUME NEW x \in Calls, UseAccount(x) \/ CacheRegistered(x) \/ LinkCache(x) \/ ClearCache(x),
               cache'[a] # cache[a]
        PROVE  cache'[a] \in {owner'[a]} \cup mergedAway'
    <3>1. CASE ClearCache(x)
      BY <1>7, <3>1 DEF ClearCache
    <3>2. CASE UseAccount(x) \/ CacheRegistered(x) \/ LinkCache(x)
      <4>1. call[x].pc \in Held \cup {"linkCache"} /\ cache'[a] \in {cache[a], call[x].actor}
            /\ a = call[x].account
        BY <2>3, <3>2 DEF UseAccount, CacheRegistered, LinkCache, Held, TypeOK
      <4> QED
        BY <1>1, <2>3, <4>1
    <3> QED
      BY <2>3, <3>1, <3>2
  <2>4. CASE Crash \/ UNCHANGED vars
    BY <1>7, <2>1, <2>4 DEF Crash, vars
  <2> QED
    BY <2>1, <2>2, <2>3, <2>4, Steps
<1> QED
  BY <1>6, <1>7 DEF LinkCacheInv, ResolvedIsOwner, Held

LEMMA RivalStep ==
  ASSUME Inv, [Next]_vars, TypeOK'
  PROVE  RivalInv'
<1> USE IdentityAssumption, Points DEF Inv
<1> DEFINE Rivalled(y, a) == \/ owner[a] = None
                             \/ \E z \in Calls \ {y} : call[z].account = a
           Points3 == {"insertActor", "insertAccount", "linkInsert"}
<1>1. ASSUME NEW y \in Calls, NEW z \in Calls, call[y].account \in Accounts,
             call[z].account = call[y].account
      PROVE  call'[z].account = call[z].account
  BY <1>1, AccountsStay DEF LocalInv
<1>2. ASSUME NEW x \in Calls, Act(x), NEW a \in Accounts, owner[a] = None, owner'[a] # None
      PROVE  call[x].account = a /\ call'[x].account = a
             /\ call'[x].pc \in {"registered", "linkCache"}
  <2>1. InsertAccount(x) \/ LinkInsert(x)
    <3>1. CASE MergeAccounts(x) \/ DeleteSource(x)
      <4>1. call[x].source # None
        BY <3>1 DEF LocalInv, TypeOK, MergeAccounts, DeleteSource
      <4> QED
        BY <1>2, <3>1, <4>1 DEF MergeAccounts, DeleteSource, Moved, TypeOK
    <3> QED
      BY <1>2, <3>1 DEF Act, Resolve, Link, Merge, Deliver, Persist, SetSession, Callback, Lookup,
         SelectAccount, UseAccount, InsertActor, CacheRegistered, LinkSelect,
         LinkCache, MergeMessages, ClearCache, DbFailure, rows
  <2>2. call[x].pc \in {"insertAccount", "linkInsert"} /\ owner' # owner /\ call[x].account = a
    BY <1>2, <2>1 DEF InsertAccount, LinkInsert, TypeOK
  <2> QED
    BY <1>2, <2>2, Transitions DEF Arrives, Resolves, Links, Ends, Succeeds, Fails, Kept, rows,
       Persist, SetSession, LinkSelect, LinkCache, ClearCache
<1>3. ASSUME NEW y \in Calls, call'[y].pc \in Points3, NEW x \in Calls, Act(x), x # y
      PROVE  Rivalled(y, call[y].account)'
  <2>1. call'[y] = call[y] /\ call[y].account \in Accounts
    BY <1>3, Others DEF TypeOK
  <2>2. Rivalled(y, call[y].account)
    BY <1>3, <2>1 DEF RivalInv
  <2> QED
    BY <1>1, <1>2, <1>3, <2>1, <2>2
<1>4. ASSUME NEW y \in Calls, call'[y].pc \in Points3, Act(y)
      PROVE  Rivalled(y, call[y].account)' /\ call'[y].account = call[y].account
  <2>1. /\ call'[y].account = call[y].account /\ call[y].account \in Accounts
        /\ owner' = owner
        /\ owner[call[y].account] = None \/ call[y].pc = "insertActor"
    BY <1>4, Transitions DEF Arrives, Resolves, Links, Ends, Succeeds, Fails, Kept, Resolved,
       TypeOK, SelectAccount, InsertActor, LinkSelect, rows
  <2> QED
    BY <1>1, <2>1 DEF RivalInv
<1>5. ASSUME NEW y \in Calls, call'[y].pc \in Points3, Crash
      PROVE  Rivalled(y, call[y].account)' /\ call'[y].account = call[y].account
  <2>1. Over(call[y], "thrown").pc = "thrown"
    BY DEF Over, TypeOK, Call
  <2>2. call'[y] = call[y] /\ call[y].account \in Accounts /\ owner' = owner
    BY <1>5, <2>1, Crashes DEF Crash, rows, TypeOK
  <2> QED
    BY <1>1, <1>5, <2>2 DEF RivalInv
<1>6. CASE UNCHANGED vars
  BY <1>6 DEF RivalInv, vars
<1>7. ASSUME NEW y \in Calls, call'[y].pc \in Points3, ~ UNCHANGED vars
      PROVE  Rivalled(y, call[y].account)' /\ call'[y].account = call[y].account
  BY <1>3, <1>4, <1>5, <1>7, Others, Steps
<1> QED
  BY <1>6, <1>7 DEF RivalInv

LEMMA DropsStep ==
  ASSUME Inv, [Next]_vars, TypeOK'
  PROVE  DropsExplained'
<1> USE IdentityAssumption, Points DEF Inv
<1> SUFFICES ASSUME NEW y \in Calls, call'[y].pc = "thrown", faults' = 0
             PROVE  \/ call'[y].actor \in mergedAway'
                    \/ \E z \in Calls \ {y} : call'[z].account = call'[y].account
  BY DEF DropsExplained, TypeOK
<1>0. faults = 0 /\ mergedAway \subseteq mergedAway'
  BY RowsStep
<1>1. ASSUME NEW z \in Calls, call[z].account = call[y].account, call[y].account \in Accounts
      PROVE  call'[z].account = call[z].account
  BY <1>1, AccountsStay DEF LocalInv
<1>2. CASE call'[y] = call[y]
  <2>1. call[y].account \in Accounts
    BY <1>2 DEF LocalInv, TypeOK, Call, Optional
  <2> QED
    BY <1>0, <1>1, <1>2, <2>1 DEF DropsExplained
<1>3. CASE Act(y) /\ call'[y] # call[y]
  <2>1. Fails(y) /\ call[y].pc \in Busy /\ call'[y].account = call[y].account
        /\ call[y].account \in Accounts
    BY <1>3, Transitions DEF Arrives, Resolves, Links, Ends, Succeeds, Resolved, TypeOK
  <2>2. ~ DbFailure(y)
    BY <1>0 DEF DbFailure, Fault
  <2>3. CASE call[y].pc \in {"insertAccount", "linkInsert"} /\ owner[call[y].account] # None
    BY <1>1, <2>1, <2>3 DEF RivalInv
  <2>4. CASE /\ call[y].pc \in {"persist", "setSession", "linkInsert", "mergeAccounts", "mergeMessages"}
             /\ call[y].actor \notin actors
    BY <1>0, <2>1, <2>4 DEF LocalInv, Held, Fails
  <2> QED
    BY <2>1, <2>2, <2>3, <2>4 DEF Fails
<1>4. ASSUME Crash PROVE FALSE
  BY <1>0, <1>4 DEF Crash, Fault
<1>5. CASE UNCHANGED vars
  BY <1>2, <1>5 DEF vars
<1> QED
  BY <1>2, <1>3, <1>4, <1>5, Others, Steps

LEMMA LocalStep ==
  ASSUME Inv, [Next]_vars, TypeOK'
  PROVE  LocalInv'
<1> USE IdentityAssumption, Points DEF Inv
<1> DEFINE Local(x, c) ==
    /\ c.pc = "start" <=> c.account = None
    /\ c.pc \in {"linkSelect", "linkInsert"} => c.source = None
    /\ c.pc \in Held \cup Linking \cup Merging => c.actor # None
    /\ c.pc \in Linking \cup Merging \cup {"setSession"} => x \in Callbacks
    /\ x \in Callbacks /\ c.pc \in Resolving \cup {"setSession"} => c.browser \in Browsers
    /\ x \in Deliveries /\ c.pc # "start" => c.account = AccountOf[x]
           Shared(c) ==
    /\ c.pc \in Merging => c.source \in mergedAway
    /\ c.actor \in {None} \cup actors \cup mergedAway
<1>0. ASSUME NEW y \in Calls
      PROVE  Local(y, call[y]) /\ Shared(call[y])
  BY DEF LocalInv
<1>1. mergedAway \subseteq mergedAway' /\ actors \subseteq actors' \cup mergedAway'
  BY RowsStep
<1>2. ASSUME NEW y \in Calls, call'[y] = call[y]
      PROVE  Local(y, call'[y]) /\ Shared(call[y])'
  BY <1>0, <1>1, <1>2
<1>3. ASSUME NEW y \in Calls, Arrives(y)
      PROVE  Local(y, call'[y]) /\ Shared(call[y])'
  <2>1. call'[y].account # None /\ (y \in Deliveries => call'[y].account = AccountOf[y])
    BY <1>3 DEF Arrives
  <2>2. call'[y].actor \in {None} \cup actors' \cup mergedAway'
    <3>1. CASE y \in Deliveries
      BY <1>0, <1>1, <1>3, <3>1 DEF Arrives
    <3>2. CASE y \in Callbacks
      <4>1. call'[y].actor \in {None} \cup actors
        BY <1>3, <3>2 DEF Arrives, TypeOK, Optional
      <4> QED
        BY <1>1, <4>1
    <3> QED
      BY <3>1, <3>2 DEF Calls
  <2>3. CASE call'[y].pc = "lookup"
    BY <1>3, <2>1, <2>2, <2>3 DEF Arrives, Held, Linking, Merging
  <2>4. CASE call'[y].pc = "linkSelect"
    BY <1>3, <2>1, <2>2, <2>4 DEF Arrives, Resolving, Merging
  <2> QED
    BY <1>3, <2>3, <2>4 DEF Arrives
<1>4. ASSUME NEW y \in Calls, Resolves(y)
      PROVE  Local(y, call'[y]) /\ Shared(call[y])'
  <2>1. /\ call'[y].account = call[y].account /\ call[y].account \in Accounts
        /\ call'[y].browser = call[y].browser
        /\ call[y].pc \in Resolving /\ call'[y].pc \in Resolving \cup {Resolved(y)}
        /\ call'[y].pc \notin {"start", "linkSelect", "linkInsert"} \cup Linking \cup Merging
    BY <1>4 DEF Resolves, Kept, TypeOK, Resolved, Linking, Merging
  <2>2. call'[y].pc = "setSession" => y \in Callbacks
    BY <2>1 DEF Resolved, Calls, Resolving
  <2>3. /\ call'[y].actor \in {None} \cup actors' \cup mergedAway'
        /\ call'[y].pc \in Held => call'[y].actor # None
    <3>1. CASE InsertActor(y) /\ call'[y].pc = "insertAccount" /\ call'[y].actor = y
      BY <3>1 DEF InsertActor, Held
    <3>2. CASE call'[y].actor \in {cache[call[y].account], owner[call[y].account]}
               /\ call'[y].actor # None
      <4>1. owner[call[y].account] \in {None} \cup actors
        BY <2>1 DEF TypeOK, Optional
      <4>2. cache[call[y].account] \in {None} \cup actors \cup mergedAway
        BY <2>1, <4>1 DEF ResolvedIsOwner
      <4> QED
        BY <1>1, <3>2, <4>1, <4>2
    <3>3. CASE call'[y].actor = call[y].actor
               /\ (call'[y].pc \in Held => call[y].pc \in Held \cup {"insertAccount"})
      <4>1. call[y].pc = "insertAccount" => call[y].actor # None
        BY DEF FreshInv, Actors
      <4> QED
        BY <1>0, <1>1, <3>3, <4>1
    <3> QED
      BY <1>4, <3>1, <3>2, <3>3 DEF Resolves, Held
  <2> QED
    BY <1>0, <2>1, <2>2, <2>3
<1>5. ASSUME NEW y \in Calls, Links(y)
      PROVE  Local(y, call'[y]) /\ Shared(call[y])'
  <2>1. /\ y \in Callbacks /\ call'[y].actor = call[y].actor
        /\ call'[y].account = call[y].account /\ call[y].account # None
        /\ call[y].pc \in Linking \cup Merging /\ call'[y].pc \in Linking \cup Merging
        /\ call'[y].pc \notin {"start", "setSession", "linkSelect"} \cup Resolving
        /\ call'[y].pc = "linkInsert" => call'[y].source = None
    BY <1>5 DEF Links, Kept, LocalInv, Linking, Merging, Resolving
  <2>2. call'[y].pc \in Merging => call'[y].source \in mergedAway'
    BY <1>1, <1>5 DEF Links, Kept, LocalInv, Merging
  <2> QED
    BY <1>0, <1>1, <2>1, <2>2
<1>6. ASSUME NEW y \in Calls, Ends(y)
      PROVE  Local(y, call'[y]) /\ Shared(call[y])'
  <2>1. /\ call'[y].pc \in {"done", "thrown"} /\ call'[y].account = call[y].account
        /\ call[y].pc # "start" /\ call'[y].actor \in {None, call[y].actor}
    BY <1>6 DEF Ends, Succeeds, Fails
  <2> QED
    BY <1>0, <1>1, <2>1 DEF Held, Resolving, Linking, Merging
<1>7. ASSUME NEW y \in Calls, Crash
      PROVE  Local(y, call'[y]) /\ Shared(call[y])'
  <2>1. LET c == Over(call[y], "thrown") IN
          c.pc = "thrown" /\ c.account = call[y].account /\ c.actor = call[y].actor
    BY DEF TypeOK, Call, Over
  <2>2. CASE call'[y] = Over(call[y], "thrown") /\ call[y].pc \in Busy
    BY <1>0, <1>1, <2>1, <2>2 DEF Held, Resolving, Linking, Merging
  <2> QED
    BY <1>2, <1>7, <2>2, Crashes
<1>8. ASSUME NEW y \in Calls PROVE Local(y, call'[y]) /\ Shared(call[y])'
  <2>1. CASE Act(y)
    BY <1>3, <1>4, <1>5, <1>6, <2>1, Transitions
  <2>2. CASE \E x \in Calls \ {y} : Act(x)
    BY <1>2, <2>2, Others
  <2>3. CASE UNCHANGED vars
    BY <1>2, <2>3 DEF vars
  <2> QED
    BY <1>7, <2>1, <2>2, <2>3, Steps
<1> QED
  BY <1>8 DEF LocalInv

LEMMA FreshStep ==
  ASSUME Inv, [Next]_vars, TypeOK'
  PROVE  FreshInv'
<1> USE IdentityAssumption, Points DEF Inv
<1>1. ASSUME NEW x \in Calls, call[x].pc \in Early
      PROVE  /\ x # None
             /\ \A a \in Accounts : owner[a] # x /\ cache[a] # x
             /\ \A w \in Browsers : session[w] # x
             /\ \A y \in Calls : call[y].source # x /\ (call[y].actor = x => y = x)
  BY <1>1 DEF FreshInv, Fresh, Actors
<1>2. ASSUME NEW x \in Calls, call'[x].pc \in Early
      PROVE  call[x].pc \in Early
  <2>1. CASE Act(x)
    BY <1>2, <2>1, Transitions DEF Arrives, Resolves, Links, Ends, Succeeds, Fails, Early, Resolved
  <2>2. CASE Crash
    <3>1. Over(call[x], "thrown").pc = "thrown"
      BY DEF TypeOK, Call, Over
    <3> QED
      BY <1>2, <2>2, <3>1, Crashes DEF Early
  <2>3. CASE \E y \in Calls \ {x} : Act(y)
    BY <1>2, <2>3, Others
  <2>4. CASE UNCHANGED vars
    BY <1>2, <2>4 DEF vars
  <2> QED
    BY <2>1, <2>2, <2>3, <2>4, Steps
<1>3. ASSUME NEW x \in Calls, call'[x].pc \in Early, NEW y \in Calls
      PROVE  call'[y].source # x /\ (call'[y].actor = x => y = x)
  <2>1. call[x].pc \in Early
    BY <1>2, <1>3
  <2>2. ASSUME Act(y), y # x
        PROVE  call'[y].source # x /\ call'[y].actor # x
    <3>1. CASE Arrives(y)
      BY <1>1, <2>1, <2>2, <3>1 DEF Arrives
    <3>2. CASE Resolves(y)
      <4>1. call[y].account \in Accounts
        BY <3>2 DEF Resolves, TypeOK
      <4> QED
        BY <1>1, <2>1, <2>2, <3>2, <4>1 DEF Resolves, Kept
    <3>3. CASE Links(y)
      <4>1. call[y].account \in Accounts
        BY <3>3 DEF Links, TypeOK
      <4> QED
        BY <1>1, <2>1, <2>2, <3>3, <4>1 DEF Links, Kept
    <3>4. CASE Ends(y)
      BY <1>1, <2>1, <2>2, <3>4 DEF Ends
    <3> QED
      BY <2>2, <3>1, <3>2, <3>3, <3>4, Transitions
  <2>3. CASE y = x /\ Act(x)
    <3>1. Arrives(x) \/ Resolves(x) \/ Links(x)
      BY <1>3, <2>3, Transitions DEF Ends, Succeeds, Fails, Early
    <3>2. call'[x].source \in {None, call[x].source}
      BY <1>3, <2>3, <3>1 DEF Arrives, Resolves, Links, Kept, Early
    <3> QED
      BY <1>1, <2>1, <2>3, <3>2
  <2>4. CASE Crash
    <3>1. LET c == Over(call[y], "thrown") IN c.source = None /\ c.actor = call[y].actor
      BY DEF TypeOK, Call, Over
    <3> QED
      BY <1>1, <2>1, <2>4, <3>1, Crashes
  <2>5. CASE call'[y] = call[y]
    BY <1>1, <2>1, <2>5
  <2> QED
    BY <2>2, <2>3, <2>4, <2>5, Others, Steps DEF vars
<1>4. ASSUME NEW x \in Calls, call'[x].pc \in Early
      PROVE  /\ \A a \in Accounts : owner'[a] # x /\ cache'[a] # x
             /\ \A w \in Browsers : session'[w] # x
  <2>1. call[x].pc \in Early
    BY <1>2, <1>4
  <2>2. ASSUME NEW y \in Calls, Act(y), owner' # owner
        PROVE  \/ InsertAccount(y) /\ owner' = [owner EXCEPT ![call[y].account] = y] /\ y # x
               \/ LinkInsert(y) /\ owner' = [owner EXCEPT ![call[y].account] = call[y].actor]
               \/ owner' = Moved(owner, call[y].source, call[y].actor)
                  /\ call[y].pc = "mergeAccounts"
               \/ owner' = Moved(owner, call[y].source, None)
    <3>1. InsertAccount(y) => call'[y].pc \notin Early
      BY <2>2, Transitions DEF InsertAccount, Arrives, Resolves, Links, Ends, Succeeds, Fails, Early, Resolved
    <3> QED
      BY <1>4, <2>2, <3>1 DEF Act, Resolve, Link, Merge, Deliver, Persist, SetSession, Callback, Lookup,
         SelectAccount, UseAccount, InsertActor, InsertAccount, CacheRegistered, LinkSelect,
         LinkInsert, LinkCache, MergeAccounts, MergeMessages, DeleteSource, ClearCache,
         DbFailure, rows
  <2>3. ASSUME NEW y \in Calls, call[y].pc \in {"linkInsert", "linkCache", "mergeAccounts", "selected",
                                              "registered", "setSession"}
        PROVE  call[y].actor # x
    BY <1>1, <2>1, <2>3 DEF Early
  <2>4. ASSUME NEW y \in Calls, Act(y), NEW a \in Accounts
        PROVE  owner'[a] # x
    BY <1>1, <2>1, <2>2, <2>3, <2>4 DEF LinkInsert, Moved, TypeOK
  <2>5. ASSUME NEW y \in Calls, Act(y), NEW a \in Accounts
        PROVE  cache'[a] # x
    <3>1. \/ cache' = cache \/ cache'[a] = None
          \/ /\ cache' = [cache EXCEPT ![call[y].account] = call[y].actor]
             /\ call[y].pc \in {"selected", "registered", "linkCache"}
      BY <2>5 DEF Act, Resolve, Link, Merge, Deliver, Persist, SetSession, Callback, Lookup,
         SelectAccount, UseAccount, InsertActor, InsertAccount, CacheRegistered, LinkSelect,
         LinkInsert, LinkCache, MergeAccounts, MergeMessages, DeleteSource, ClearCache, DbFailure
    <3> QED
      BY <1>1, <2>1, <2>3, <3>1 DEF TypeOK
  <2>6. ASSUME NEW y \in Calls, Act(y), NEW w \in Browsers
        PROVE  session'[w] # x
    <3>1. \/ session' = session
          \/ session' = Moved(session, call[y].source, None)
          \/ /\ session' = [session EXCEPT ![call[y].browser] = call[y].actor]
             /\ call[y].pc = "setSession"
      BY <2>6 DEF Act, Resolve, Link, Merge, Deliver, Persist, SetSession, Callback, Lookup,
         SelectAccount, UseAccount, InsertActor, InsertAccount, CacheRegistered, LinkSelect,
         LinkInsert, LinkCache, MergeAccounts, MergeMessages, DeleteSource, ClearCache,
         DbFailure, rows
    <3> QED
      BY <1>1, <2>1, <2>3, <3>1 DEF TypeOK, Moved
  <2>7. CASE Crash
    BY <1>1, <2>1, <2>7 DEF Crash, rows
  <2>8. CASE UNCHANGED vars
    BY <1>1, <2>1, <2>8 DEF vars
  <2> QED
    BY <2>4, <2>5, <2>6, <2>7, <2>8, Steps
<1>5. ASSUME NEW x \in Calls, call'[x].pc \in Early
      PROVE  /\ call'[x].pc = "insertAccount" => call'[x].actor = x /\ x \in actors'
             /\ call'[x].pc # "insertAccount" => x \notin actors'
  <2>1. call[x].pc \in Early
    BY <1>2, <1>5
  <2>2. ASSUME NEW y \in Calls, Act(y)
        PROVE  \/ actors' = actors /\ ~ InsertActor(y)
               \/ InsertActor(y) /\ actors' = actors \cup {y}
               \/ actors' = actors \ {call[y].source} /\ call[y].pc = "deleteSource"
    BY <2>2 DEF Act, Resolve, Link, Merge, Deliver, Persist, SetSession, Callback, Lookup,
       SelectAccount, UseAccount, InsertActor, InsertAccount, CacheRegistered, LinkSelect,
       LinkInsert, LinkCache, MergeAccounts, MergeMessages, DeleteSource, ClearCache,
       DbFailure, rows
  <2>3. ASSUME NEW y \in Calls PROVE call[y].source # x
    BY <1>1, <2>1
  <2>4. CASE call'[x] = call[x] /\ ~ Act(x)
    <3>1. actors' = actors \/ \E y \in Calls \ {x} :
            actors' \in {actors \cup {y}, actors \ {call[y].source}}
      BY <2>2, <2>4, Steps DEF Crash, rows, vars
    <3> QED
      BY <1>5, <2>1, <2>3, <2>4, <3>1 DEF FreshInv
  <2>5. CASE Act(x)
    <3>1. CASE InsertActor(x)
      <4>1. call'[x].pc = "insertAccount" /\ call'[x].actor = x
        BY <1>5, <2>5, <3>1, Transitions DEF Arrives, Resolves, Links, Ends, Succeeds, Fails,
           InsertActor, Resolved, Early
      <4> QED
        BY <3>1, <4>1 DEF InsertActor
    <3>2. CASE ~ InsertActor(x)
      <4>1. call[x].pc # "deleteSource" /\ call[x].pc # "insertAccount" /\ call'[x].pc # "insertAccount"
        BY <1>5, <2>5, <3>2, Transitions DEF Arrives, Resolves, Links, Ends, Succeeds, Fails,
           Resolved, Early
      <4> QED
        BY <2>1, <2>2, <2>5, <3>2, <4>1 DEF FreshInv
    <3> QED
      BY <3>1, <3>2
  <2>6. CASE Crash
    <3>1. Over(call[x], "thrown").pc = "thrown"
      BY DEF TypeOK, Call, Over
    <3>2. call'[x] = call[x] /\ actors' = actors
      BY <1>5, <2>6, <3>1, Crashes DEF Crash, rows, Early
    <3> QED
      BY <2>1, <3>2 DEF FreshInv
  <2> QED
    BY <2>4, <2>5, <2>6, Others, Steps DEF vars
<1> QED
  BY <1>3, <1>4, <1>5 DEF FreshInv, Fresh, Early

LEMMA InvStep == Inv /\ [Next]_vars => Inv'
<1> SUFFICES ASSUME Inv, [Next]_vars PROVE Inv'
  OBVIOUS
<1>1. TypeOK'
  BY TypeStep
<1> QED
  BY <1>1, LocalStep, FreshStep, RivalStep, ResolvedStep, DropsStep DEF Inv

LEMMA Invariance == Spec => []Inv
BY InitInv, InvStep, PTL DEF Spec

-----------------------------------------------------------------------------
(* Every row refers to actors that exist: the foreign keys of accounts,
   messages and link sessions, and the bookkeeping of the calls. *)
THEOREM TypeCorrect == Spec => []TypeOK
BY Invariance, PTL DEF Inv

(* resolveActor and its cache never take one person for another: what they
   answer owns the account or has been merged away. *)
THEOREM ActorsAreOwners == Spec => []ResolvedIsOwner
BY Invariance, PTL DEF Inv

(* A call throws only for a failure, a crash, an actor merged away under it,
   or a rival for the same account. *)
THEOREM DropsAreExplained == Spec => []DropsExplained
BY Invariance, PTL DEF Inv

-----------------------------------------------------------------------------
(* How a step of a call changes the owner of an account. *)
LEMMA OwnerStep ==
  ASSUME Inv, NEW x \in Calls, Act(x), NEW a \in Accounts, owner'[a] # owner[a]
  PROVE  \/ owner[a] = None /\ owner'[a] = x /\ call[x].pc = "insertAccount"
         \/ owner[a] = None /\ owner'[a] = call[x].actor /\ call[x].pc = "linkInsert"
         \/ /\ owner[a] = call[x].source /\ owner'[a] = call[x].actor
            /\ call[x].pc = "mergeAccounts" /\ call'[x].pc = "mergeMessages"
         \/ owner[a] = call[x].source /\ call[x].pc = "deleteSource"
<1> USE DEF Inv
<1>1. CASE MergeAccounts(x)
  <2>1. owner' = Moved(owner, call[x].source, call[x].actor) /\ Goto(x, "mergeMessages")
        /\ call[x].pc = "mergeAccounts"
    BY <1>1 DEF MergeAccounts
  <2>2. call'[x].pc = "mergeMessages"
    BY <2>1, GotoStep, Points
  <2> QED
    BY <2>1, <2>2 DEF Moved, TypeOK
<1>2. CASE DeleteSource(x)
  BY <1>2 DEF DeleteSource, Moved, TypeOK
<1>3. CASE InsertAccount(x) \/ LinkInsert(x)
  BY <1>3 DEF InsertAccount, LinkInsert, TypeOK
<1> QED
  BY <1>1, <1>2, <1>3 DEF Act, Resolve, Link, Merge, Deliver, Persist, SetSession, Callback,
     Lookup, SelectAccount, UseAccount, InsertActor, CacheRegistered, LinkSelect, LinkCache,
     MergeMessages, ClearCache, DbFailure, rows

(* The actors of a link call are settled when it has read the account. *)
LEMMA ChosenStep ==
  ASSUME Inv, [Next]_vars, NEW k \in Callbacks, call'[k].pc \in Chosen
  PROVE  \/ /\ call[k].pc \in Chosen
            /\ call'[k].actor = call[k].actor /\ call'[k].source = call[k].source
            /\ call'[k].account = call[k].account
         \/ /\ LinkSelect(k) /\ call'[k].actor = call[k].actor
            /\ call'[k].account = call[k].account
            /\ \/ call'[k].pc = "linkInsert" /\ call'[k].source = None
               \/ /\ call'[k].pc = "mergeAccounts" /\ call'[k].source = owner[call[k].account]
                  /\ call'[k].source # call[k].actor
<1> USE Points DEF Inv
<1>0. k \in Calls /\ {"linkInsert", "linkCache"} \subseteq Chosen /\ Merging \subseteq Chosen
  BY DEF Calls, Chosen
<1>1. CASE Act(k)
  <2>1. Links(k)
    BY <1>0, <1>1, Transitions DEF Arrives, Resolves, Ends, Succeeds, Fails, Resolved, Chosen, Merging
  <2> QED
    BY <1>0, <2>1 DEF Links, Kept, LocalInv
<1>2. CASE Crash
  <2>1. Over(call[k], "thrown").pc = "thrown"
    BY <1>0 DEF TypeOK, Call, Over
  <2> QED
    BY <1>0, <1>2, <2>1, Crashes DEF Chosen, Merging
<1>3. CASE call'[k] = call[k]
  BY <1>3
<1> QED
  BY <1>0, <1>1, <1>2, <1>3, Others, Steps DEF vars

(* A link call is found entangled when it reads the account. *)
LEMMA EntangledStep ==
  ASSUME Inv, [Next]_vars, ~ entangled'
  PROVE  /\ ~ entangled
         /\ \A k \in Callbacks : LinkSelect(k) => \A j \in Callbacks \ {k} :
              InLink(j) => Concerned(j) \cap {call[k].actor, owner[call[k].account]} = {}
<1>1. ~ entangled
  <2>1. ASSUME NEW x \in Calls, Act(x) PROVE entangled => entangled'
    BY <2>1 DEF Act, Resolve, Link, Merge, Deliver, Persist, SetSession, Callback, Lookup,
       SelectAccount, UseAccount, InsertActor, InsertAccount, CacheRegistered, LinkSelect,
       LinkInsert, LinkCache, MergeAccounts, MergeMessages, DeleteSource, ClearCache,
       DbFailure, history
  <2>2. CASE Crash \/ UNCHANGED vars
    BY <2>2 DEF Crash, vars, history
  <2> QED
    BY <2>1, <2>2, Steps
<1>2. ASSUME NEW k \in Callbacks, LinkSelect(k), NEW j \in Callbacks \ {k}, InLink(j)
      PROVE  Concerned(j) \cap {call[k].actor, owner[call[k].account]} = {}
  BY <1>2 DEF LinkSelect
<1> QED
  BY <1>1, <1>2

LEMMA MergeInit == Init => MergeInv
<1>1. ASSUME Init, NEW k \in Callbacks PROVE call[k].pc = "start"
  BY <1>1 DEF Init, Calls
<1>2. "start" \notin Merging \cup Moving \cup Chosen
  BY DEF Merging, Moving, Chosen
<1> QED
  BY <1>1, <1>2 DEF MergeInv, Apart, Sound

LEMMA MergeStep ==
  ASSUME Inv, MergeInv, [Next]_vars, TypeOK'
  PROVE  MergeInv'
<1> SUFFICES ASSUME ~ entangled' PROVE MergeInv'
  BY DEF MergeInv
<1> USE IdentityAssumption, Points DEF Inv
<1>0. ~ entangled
  BY EntangledStep
<1>a. Merging \subseteq Chosen /\ Moving \subseteq Merging /\ Chosen \subseteq Linking \cup Merging
      /\ Callbacks \subseteq Calls
  BY DEF Chosen, Moving, Merging, Linking, Calls
<1>1. ASSUME NEW k \in Callbacks, NEW j \in Callbacks \ {k},
             call[k].pc \in Chosen, call[j].pc \in Chosen
      PROVE  Concerned(j) \cap Concerned(k) = {}
  BY <1>0, <1>1 DEF MergeInv, Apart
<1>2. ASSUME NEW k \in Callbacks, NEW j \in Callbacks \ {k},
             call'[k].pc \in Chosen, call'[j].pc \in Chosen
      PROVE  (Concerned(j) \cap Concerned(k) = {})'
  <2>0. ASSUME NEW x \in Callbacks, call'[x].pc \in Chosen
        PROVE  /\ ~ LinkSelect(x) => /\ call[x].pc \in Chosen /\ InLink(x)
                                     /\ Concerned(x)' = Concerned(x)
               /\ LinkSelect(x) =>
                    /\ Concerned(x)' \subseteq {call[x].actor, owner[call[x].account]}
                    /\ InLink(x) /\ call'[x] # call[x]
    <3>1. CASE ~ LinkSelect(x)
      BY <1>a, <2>0, <3>1, ChosenStep DEF Concerned, InLink
    <3>2. CASE LinkSelect(x)
      <4>1. call[x].pc = "linkSelect" /\ call[x].pc \notin Chosen
        BY <3>2 DEF LinkSelect, Chosen, Merging
      <4>2. call'[x].actor = call[x].actor
            /\ call'[x].source \in {None, owner[call[x].account]}
        BY <2>0, <4>1, ChosenStep
      <4> QED
        BY <2>0, <3>2, <4>1, <4>2 DEF Concerned, InLink
    <3> QED
      BY <3>1, <3>2
  <2>1. CASE LinkSelect(k) /\ ~ LinkSelect(j)
    BY <1>2, <2>0, <2>1, EntangledStep
  <2>2. CASE LinkSelect(j) /\ ~ LinkSelect(k)
    BY <1>2, <2>0, <2>2, EntangledStep
  <2>3. CASE ~ LinkSelect(j) /\ ~ LinkSelect(k)
    BY <1>1, <1>2, <2>0, <2>3
  <2>4. CASE LinkSelect(j) /\ LinkSelect(k)
    <3>1. call'[k] # call[k] /\ call'[j] # call[j] /\ call[k].pc = "linkSelect"
      BY <1>2, <2>0, <2>4 DEF LinkSelect
    <3>2. ~ Crash
      BY <1>2, <1>a, <3>1, CrashKeeps DEF Chosen, Merging
    <3> QED
      BY <1>a, <3>1, <3>2, Others, Steps DEF vars
  <2> QED
    BY <2>1, <2>2, <2>3, <2>4
<1>3. ASSUME NEW k \in Callbacks, call'[k].pc \in Merging
      PROVE  call'[k].source # call'[k].actor
  <2>1. call'[k].pc \in Chosen /\ call'[k].pc # "linkInsert"
    BY <1>3, <1>a DEF Merging
  <2>2. call[k].pc \in Chosen => call[k].pc \in Merging \/ call'[k].pc \notin Merging
    <3>1. CASE Act(k)
      BY <1>a, <3>1, Transitions DEF Arrives, Resolves, Links, Ends, Succeeds, Fails, Resolved, Chosen, Merging
    <3>2. CASE call'[k] = call[k]
      BY <3>2
    <3>3. CASE Crash
      BY <1>3, <1>a, <3>3, CrashKeeps DEF Merging
    <3> QED
      BY <1>a, <3>1, <3>2, <3>3, Others, Steps DEF vars
  <2> QED
    BY <1>0, <1>3, <2>1, <2>2, ChosenStep DEF MergeInv, Sound
<1>5. ASSUME NEW k \in Callbacks, call[k].pc \in Merging
      PROVE  /\ call[k].actor \in Concerned(k) /\ call[k].source \in Concerned(k)
             /\ call[k].account \in Accounts /\ call[k].source # None
  BY <1>5, <1>a DEF Concerned, LocalInv, TypeOK
(* No other call gives an account to, or takes one from, the actors of a merge. *)
<1>6. ASSUME NEW k \in Callbacks, call[k].pc \in Merging, NEW x \in Calls \ {k}, Act(x),
             NEW a \in Accounts, owner'[a] # owner[a]
      PROVE  owner[a] # call[k].source /\ owner'[a] # call[k].source
  <2>1. CASE owner[a] = None /\ owner'[a] = x /\ call[x].pc = "insertAccount"
    BY <1>5, <1>6, <1>a, <2>1 DEF FreshInv, Fresh, Early
  <2>2. CASE owner[a] = None /\ owner'[a] = call[x].actor /\ call[x].pc = "linkInsert"
    <3>1. x \in Callbacks /\ call[x].actor \in Concerned(x) /\ call[x].pc \in Chosen
      BY <2>2 DEF LocalInv, Concerned, Chosen
    <3> QED
      BY <1>1, <1>5, <1>6, <1>a, <2>2, <3>1
  <2>3. CASE call[x].pc \in Merging /\ owner[a] = call[x].source
             /\ owner'[a] \in {None, call[x].actor}
    <3>1. x \in Callbacks /\ {call[x].actor, call[x].source} \subseteq Concerned(x)
      BY <1>5, <2>3 DEF LocalInv
    <3> QED
      BY <1>1, <1>5, <1>6, <1>a, <2>3, <3>1
  <2>4. call[x].pc = "deleteSource" /\ owner[a] = call[x].source => owner'[a] = None
    <3>1. call[x].pc = "deleteSource" => DeleteSource(x)
      BY <1>6, <1>a DEF Act, Resolve, Link, Merge, Deliver, Persist, SetSession, Callback, Lookup,
         SelectAccount, UseAccount, InsertActor, InsertAccount, CacheRegistered, LinkSelect,
         LinkInsert, LinkCache, MergeAccounts, MergeMessages, ClearCache, DbFailure, rows
    <3> QED
      BY <1>6, <3>1 DEF DeleteSource, Moved, TypeOK
  <2> QED
    BY <1>6, <2>1, <2>2, <2>3, <2>4, OwnerStep
<1>7. ASSUME NEW k \in Callbacks, call'[k].pc = "mergeAccounts"
      PROVE  owner'[call'[k].account] = call'[k].source
  <2>1. CASE Act(k)
    <3>1. LinkSelect(k) /\ call'[k].account = call[k].account
          /\ call'[k].source = owner[call[k].account] /\ owner' = owner
      BY <1>7, <1>a, <2>1, Transitions DEF Arrives, Resolves, Links, Ends, Succeeds, Fails,
         Resolved, LinkSelect, rows
    <3> QED
      BY <3>1
  <2>2. CASE call'[k] = call[k] /\ ~ Act(k)
    <3>1. owner[call[k].account] = call[k].source /\ call[k].account \in Accounts
          /\ call[k].pc \in Merging
      BY <1>0, <1>5, <1>7, <2>2 DEF MergeInv, Sound
    <3>2. owner' = owner \/ \E x \in Calls \ {k} : Act(x)
      BY <1>a, <2>2, Steps DEF Crash, vars, rows
    <3> QED
      BY <1>6, <2>2, <3>1, <3>2
  <2> QED
    BY <1>7, <1>a, <2>1, <2>2, CrashKeeps, Others, Steps DEF vars
<1>8. ASSUME NEW k \in Callbacks, call'[k].pc \in Moving
      PROVE  call'[k].actor \in actors' /\ \A a \in Accounts : owner'[a] # call'[k].source
  <2>1. CASE call'[k] = call[k] /\ ~ Act(k)
    <3>1. call[k].actor \in actors /\ \A a \in Accounts : owner[a] # call[k].source
      BY <1>0, <1>8, <2>1 DEF MergeInv, Sound
    <3>2. call[k].actor \in actors'
      <4>1. ASSUME NEW x \in Calls \ {k}, DeleteSource(x) PROVE call[x].source # call[k].actor
        <5>1. x \in Callbacks /\ call[x].pc \in Merging
          BY <4>1 DEF DeleteSource, LocalInv
        <5> QED
          BY <1>1, <1>5, <1>8, <1>a, <2>1, <5>1
      <4>2. ASSUME NEW x \in Calls, Act(x), ~ DeleteSource(x) PROVE actors \subseteq actors'
        BY <4>2 DEF Act, Resolve, Link, Merge, Deliver, Persist, SetSession, Callback, Lookup,
           SelectAccount, UseAccount, InsertActor, InsertAccount, CacheRegistered, LinkSelect,
           LinkInsert, LinkCache, MergeAccounts, MergeMessages, ClearCache, DbFailure, rows
      <4>3. ASSUME NEW x \in Calls \ {k}, Act(x) PROVE call[k].actor \in actors'
        BY <3>1, <4>1, <4>2, <4>3 DEF DeleteSource
      <4> QED
        BY <1>a, <2>1, <3>1, <4>3, Steps DEF Crash, vars, rows
    <3>3. owner' = owner \/ \E x \in Calls \ {k} : Act(x)
      BY <1>a, <2>1, Steps DEF Crash, vars, rows
    <3> QED
      BY <1>6, <1>8, <1>a, <2>1, <3>1, <3>2, <3>3
  <2>2. CASE Act(k)
    <3>1. Links(k) /\ call[k].pc \in {"mergeAccounts", "mergeMessages"}
          /\ call'[k].actor = call[k].actor /\ call'[k].source = call[k].source
      BY <1>8, <1>a, <2>2, Transitions DEF Arrives, Resolves, Links, Ends, Succeeds, Fails,
         Resolved, Moving, Kept
    <3>2. call[k].pc \in Merging
      BY <3>1
    <3>3. CASE call[k].pc = "mergeMessages"
      <4>1. actors' = actors /\ owner' = owner
        BY <3>1, <3>3 DEF Links, LinkSelect, LinkInsert, MergeAccounts, MergeMessages, DeleteSource
      <4> QED
        BY <1>0, <3>1, <3>3, <4>1 DEF MergeInv, Sound, Moving
    <3>4. CASE call[k].pc = "mergeAccounts"
      <4>1. /\ Movable(owner, call[k].source, call[k].actor)
            /\ owner' = Moved(owner, call[k].source, call[k].actor)
            /\ actors' = actors
        BY <3>1, <3>4 DEF Links, LinkSelect, LinkInsert, MergeAccounts, MergeMessages, DeleteSource
      <4>2. owner[call[k].account] = call[k].source /\ call[k].source # call[k].actor
        BY <1>0, <3>2, <3>4 DEF MergeInv, Sound
      <4> QED
        BY <1>5, <3>1, <3>2, <4>1, <4>2 DEF Movable, Moved, TypeOK
    <3> QED
      BY <3>1, <3>3, <3>4
  <2> QED
    BY <1>8, <1>a, <2>1, <2>2, CrashKeeps, Others, Steps DEF vars, Moving
<1> QED
  BY <1>2, <1>3, <1>7, <1>8 DEF MergeInv, Apart, Sound

LEMMA MergeInvariance == Spec => [](Inv /\ MergeInv)
<1>1. Init => Inv /\ MergeInv
  BY InitInv, MergeInit
<1>2. Inv /\ MergeInv /\ [Next]_vars => (Inv /\ MergeInv)'
  BY InvStep, TypeStep, MergeStep
<1> QED
  BY <1>1, <1>2, PTL DEF Spec

(* As long as no two link calls share an actor, no merge loses an account,
   whatever else happens and wherever it is cut off. *)
THEOREM AccountsAreKept == Spec => AccountsSurvive
<1>1. ASSUME Inv, MergeInv, [Next]_vars, ~ entangled', NEW a \in Accounts, owner[a] # None
      PROVE  owner'[a] # None
  <2> USE Points DEF Inv
  <2>1. ~ entangled
    BY <1>1, EntangledStep
  <2>2. ASSUME NEW x \in Calls, Act(x), owner'[a] # owner[a]
        PROVE  owner'[a] # None
    <3>1. CASE call[x].pc = "deleteSource" /\ owner[a] = call[x].source
      <4>1. x \in Callbacks
        BY <1>1, <3>1 DEF LocalInv
      <4> QED
        BY <1>1, <2>1, <3>1, <4>1 DEF MergeInv, Sound, Moving
    <3>2. CASE call[x].pc = "mergeAccounts" /\ owner'[a] = call[x].actor
      BY <1>1, <3>2 DEF LocalInv
    <3> QED
      BY <1>1, <2>2, <3>1, <3>2, OwnerStep
  <2> QED
    BY <1>1, <2>2, Steps DEF Crash, vars, rows
<1>2. Inv /\ MergeInv /\ [Next]_vars
        => [~ entangled' => \A a \in Accounts : owner[a] # None => owner'[a] # None]_vars
  BY <1>1
<1> QED
  BY <1>2, MergeInvariance, PTL DEF Spec, AccountsSurvive

-----------------------------------------------------------------------------
(* Where no call fails and no two link calls share an actor, merges leave no
   history behind. *)
LEMMA HistoryInit == Init => HistoryInv
<1>1. ASSUME Init PROVE /\ \A d \in Deliveries : sender[d] = None
                        /\ \A a \in Accounts : cache[a] = None
                        /\ \A x \in Calls : call[x].pc = "start"
  BY <1>1 DEF Init
<1>2. "start" \notin Held \cup {"linkCache"}
  BY DEF Held
<1> QED
  BY <1>1, <1>2 DEF HistoryInv

(* A settled actor stays settled. *)
LEMMA SettledStep ==
  ASSUME Inv, MergeInv, [Next]_vars, TypeOK', ~ entangled', faults' = 0,
         NEW a \in Accounts, NEW v, Settled(v, a), v # None,
         \A x \in Calls : InsertActor(x) => v # x
  PROVE  Settled(v, a)'
<1> USE IdentityAssumption, Points DEF Inv
<1>0. ~ entangled /\ faults = 0
  BY EntangledStep, RowsStep
<1>1. ASSUME v \notin actors PROVE v \notin actors'
  <2>1. ASSUME NEW x \in Calls, Act(x) PROVE v \notin actors'
    BY <1>1, <2>1 DEF Act, Resolve, Link, Merge, Deliver, Persist, SetSession, Callback, Lookup,
       SelectAccount, UseAccount, InsertActor, InsertAccount, CacheRegistered, LinkSelect,
       LinkInsert, LinkCache, MergeAccounts, MergeMessages, DeleteSource, ClearCache,
       DbFailure, rows
  <2> QED
    BY <1>1, <2>1, Steps DEF Crash, vars, rows
<1>2. CASE v = owner[a] /\ owner'[a] # owner[a]
  <2>1. PICK x \in Calls : Act(x)
    BY <1>2, Steps DEF Crash, vars, rows
  <2>2. owner[a] = call[x].source /\ x \in Callbacks
        /\ \/ owner'[a] = call[x].actor /\ call[x].pc = "mergeAccounts"
                                        /\ call'[x].pc = "mergeMessages"
           \/ call[x].pc = "deleteSource"
    BY <1>2, <2>1, OwnerStep DEF LocalInv
  <2>3. call[x].pc # "deleteSource"
    BY <1>0, <2>2, <1>2 DEF MergeInv, Sound, Moving
  <2>4. call'[x].pc = "mergeMessages" /\ "mergeMessages" \in Chosen /\ call[x].pc # "linkSelect"
    BY <2>2, <2>3 DEF Chosen
  <2>5. call'[x].source = v /\ call'[x].actor = owner'[a]
    BY <1>2, <2>2, <2>3, <2>4, ChosenStep DEF LinkSelect
  <2> QED
    BY <2>2, <2>4, <2>5 DEF Settled, Moving
<1>3. ASSUME NEW k \in Callbacks, call[k].pc \in Moving, call[k].source = v, call[k].actor = owner[a],
             v \in actors, v # owner[a]
      PROVE  Settled(v, a)'
  <2>0. k \in Calls /\ call[k].pc \in Chosen /\ call[k].pc \in Merging
        /\ call[k].actor # None /\ call[k].actor \in actors
        /\ call[k].pc \in {"mergeMessages", "deleteSource"}
    BY <1>0, <1>3 DEF Calls, Chosen, Moving, Merging, MergeInv, Sound, LocalInv
  <2>1. owner'[a] = owner[a]
    <3>1. ASSUME NEW x \in Calls, Act(x), owner'[a] # owner[a]
          PROVE  FALSE
      <4>1. /\ x \in Callbacks /\ owner[a] = call[x].source
            /\ call[x].pc \in {"mergeAccounts", "deleteSource"}
        BY <1>3, <2>0, <3>1, OwnerStep DEF LocalInv
      <4>2. call[x].pc \in Chosen
        BY <4>1 DEF Chosen
      <4>3. x # k
        BY <1>3, <4>1
      <4> QED
        BY <1>0, <1>3, <2>0, <4>1, <4>2, <4>3 DEF MergeInv, Apart, Concerned
    <3> QED
      BY <3>1, Steps DEF Crash, vars, rows
  <2>2. CASE call'[k] = call[k]
    BY <1>3, <2>1, <2>2 DEF Settled
  <2>3. CASE Act(k) /\ DeleteSource(k)
    BY <1>3, <2>3 DEF DeleteSource, Settled
  <2>4. CASE Act(k) /\ ~ DeleteSource(k)
    <3>1. ~ Fails(k)
      <4>1. ~ DbFailure(k)
        BY <1>0 DEF DbFailure, Fault
      <4> QED
        BY <2>0, <4>1 DEF Fails
    <3>2. call'[k].pc = "deleteSource" /\ call'[k].actor = call[k].actor
          /\ call'[k].source = call[k].source
      BY <2>0, <2>4, <3>1, Transitions DEF Arrives, Resolves, Links, Ends, Succeeds, Kept,
         Persist, SetSession, LinkSelect, LinkCache, ClearCache
    <3> QED
      BY <1>3, <2>1, <3>2 DEF Settled, Moving
  <2>5. ~ Crash
    BY <1>0 DEF Crash, Fault
  <2> QED
    BY <2>0, <2>2, <2>3, <2>4, <2>5, Others, Steps DEF vars
<1>4. CASE v = owner[a] /\ owner'[a] = owner[a]
  BY <1>4 DEF Settled
<1> QED
  BY <1>1, <1>2, <1>3, <1>4 DEF Settled

LEMMA HistoryStep ==
  ASSUME Inv, MergeInv, HistoryInv, [Next]_vars, TypeOK'
  PROVE  HistoryInv'
<1> SUFFICES ASSUME ~ entangled', faults' = 0 PROVE HistoryInv'
  BY DEF HistoryInv
<1> USE IdentityAssumption, Points DEF Inv
<1>0. ~ entangled /\ faults = 0 /\ ~ Crash
  BY EntangledStep, RowsStep DEF Crash, Fault
<1>1. ASSUME NEW x \in Calls, InsertActor(x)
      PROVE  /\ \A d \in Deliveries : sender[d] # x
             /\ \A a \in Accounts : cache[a] # x
             /\ \A y \in Calls : call[y].pc \in Held \cup {"linkCache"} => call[y].actor # x
  <2>1. call[x].pc \in Early /\ x \notin actors /\ x # None
    BY <1>1 DEF InsertActor, Early, FreshInv, Actors
  <2>2. \A d \in Deliveries : sender[d] # x
    BY <2>1 DEF TypeOK, Optional
  <2> QED
    BY <2>1, <2>2 DEF FreshInv, Fresh, Early, Held
<1>2. ASSUME NEW y \in Calls, call[y].pc \in Held \cup {"linkCache"},
             NEW v, v = call[y].actor, NEW a, a = call[y].account
      PROVE  Settled(v, a) /\ Settled(v, a)' /\ a \in Accounts /\ v # None
  <2>1. Settled(v, a)
    BY <1>0, <1>2 DEF HistoryInv
  <2>2. a \in Accounts /\ v # None
    BY <1>2 DEF Held, TypeOK, LocalInv
  <2> QED
    BY <1>0, <1>1, <1>2, <2>1, <2>2, SettledStep
<1>3. ASSUME NEW a \in Accounts, NEW v, v = cache[a], v # None
      PROVE  Settled(v, a) /\ Settled(v, a)'
  <2>1. Settled(v, a)
    BY <1>0, <1>3 DEF HistoryInv
  <2> QED
    BY <1>0, <1>1, <1>3, <2>1, SettledStep
(* What a call has resolved. *)
<1>4. ASSUME NEW y \in Calls, call'[y].pc \in Held \cup {"linkCache"},
             NEW v, v = call'[y].actor, NEW a, a = call'[y].account
      PROVE  Settled(v, a)'
  <2>1. CASE call'[y] = call[y]
    BY <1>2, <1>4, <2>1
  <2>2. CASE Act(y)
    <3>1. (Resolves(y) \/ Links(y)) /\ call'[y].account = call[y].account
          /\ call[y].account \in Accounts
      BY <1>4, <2>2, Transitions DEF Arrives, Resolves, Links, Ends, Succeeds, Fails, Held, Kept,
         TypeOK
    <3>2. CASE call[y].pc \in {"selected", "registered"}
      <4>1. call'[y].actor = call[y].actor /\ call[y].pc \in Held
        BY <3>1, <3>2 DEF Resolves, Links, Held
      <4> QED
        BY <1>2, <1>4, <3>1, <4>1
    <3>3. CASE call[y].pc = "lookup"
      <4>1. call'[y].actor = cache[call[y].account] /\ cache[call[y].account] # None
        BY <1>4, <3>1, <3>3 DEF Resolves, Links, Held
      <4> QED
        BY <1>3, <1>4, <3>1, <4>1
    <3>4. CASE call[y].pc = "select"
      <4>1. call'[y].actor = owner[call[y].account] /\ owner' = owner
        BY <1>4, <3>1, <3>4 DEF Resolves, Links, Held, SelectAccount, rows
      <4> QED
        BY <1>4, <3>1, <4>1 DEF Settled
    <3>5. CASE call[y].pc \in {"insertAccount", "linkInsert"}
      <4>1. owner' = [owner EXCEPT ![call[y].account] = call'[y].actor]
        BY <1>4, <3>1, <3>5 DEF Resolves, Links, Held, FreshInv
      <4> QED
        BY <1>4, <3>1, <4>1 DEF Settled, TypeOK
    <3> QED
      BY <1>4, <3>1, <3>2, <3>3, <3>4, <3>5 DEF Resolves, Links, Held
  <2> QED
    BY <1>0, <2>1, <2>2, Others, Steps DEF vars
(* What the cache holds. *)
<1>5. ASSUME NEW a \in Accounts, cache'[a] # None, NEW v, v = cache'[a]
      PROVE  Settled(v, a)'
  <2>1. CASE cache'[a] = cache[a]
    BY <1>3, <1>5, <2>1
  <2>2. ASSUME NEW x \in Calls, Act(x), cache'[a] # cache[a]
        PROVE  /\ call[x].account = a /\ cache'[a] = call[x].actor
               /\ call[x].pc \in Held \cup {"linkCache"}
    <3>1. UseAccount(x) \/ CacheRegistered(x) \/ LinkCache(x)
      BY <1>5, <2>2 DEF Act, Resolve, Link, Merge, Deliver, Persist, SetSession, Callback, Lookup,
         SelectAccount, InsertActor, InsertAccount, LinkSelect, LinkInsert, MergeAccounts,
         MergeMessages, DeleteSource, ClearCache, DbFailure
    <3> QED
      BY <2>2, <3>1 DEF UseAccount, CacheRegistered, LinkCache, TypeOK, Held
  <2>3. CASE \E x \in Calls : Act(x) /\ cache'[a] # cache[a]
    BY <1>2, <1>5, <2>2, <2>3
  <2> QED
    BY <1>0, <2>1, <2>3, Steps DEF vars
(* What the messages say. *)
<1>6. ASSUME NEW d \in Deliveries, sender'[d] # None, NEW v, v = sender'[d]
      PROVE  Settled(v, AccountOf[d])'
  <2>0. AccountOf[d] \in Accounts /\ d \in Calls
    BY DEF Calls
  <2>1. CASE sender'[d] = sender[d]
    <3>1. Settled(v, AccountOf[d])
      BY <1>0, <1>6, <2>1 DEF HistoryInv
    <3>2. \A x \in Calls : InsertActor(x) => v # x
      BY <1>1, <1>6, <2>1
    <3> QED
      BY <1>0, <1>6, <2>0, <3>1, <3>2, SettledStep
  <2>2. ASSUME NEW x \in Calls, Act(x), sender'[d] # sender[d]
        PROVE  \/ x = d /\ call[d].pc = "persist" /\ v = call[d].actor
               \/ /\ MergeMessages(x) /\ x \in Callbacks /\ call[x].pc = "mergeMessages"
                  /\ sender[d] = call[x].source /\ v = call[x].actor
    <3>1. (x \in Deliveries /\ Persist(x)) \/ MergeMessages(x) \/ DeleteSource(x)
      BY <2>2 DEF Act, Resolve, Link, Merge, Deliver, SetSession, Callback, Lookup,
         SelectAccount, UseAccount, InsertActor, InsertAccount, CacheRegistered, LinkSelect,
         LinkInsert, LinkCache, MergeAccounts, ClearCache, DbFailure, rows
    <3>2. CASE x \in Deliveries /\ Persist(x)
      BY <1>6, <2>2, <3>2 DEF Persist, TypeOK
    <3>3. CASE MergeMessages(x)
      <4>1. call[x].pc = "mergeMessages" /\ x \in Callbacks
        BY <3>3 DEF MergeMessages, LocalInv
      <4> QED
        BY <1>6, <2>2, <3>3, <4>1 DEF MergeMessages, Moved, TypeOK
    <3>4. CASE DeleteSource(x)
      BY <1>6, <2>2, <3>4 DEF DeleteSource, Moved, TypeOK
    <3> QED
      BY <3>1, <3>2, <3>3, <3>4
  <2>3. CASE call[d].pc = "persist" /\ v = call[d].actor
    <3>1. call[d].account = AccountOf[d]
      BY <2>0, <2>3 DEF LocalInv
    <3> QED
      BY <1>2, <2>0, <2>3, <3>1 DEF Held
  <2>4. ASSUME NEW k \in Callbacks, MergeMessages(k), call[k].pc = "mergeMessages",
               sender[d] = call[k].source, v = call[k].actor
        PROVE  Settled(v, AccountOf[d])'
    <3>1. k \in Calls /\ call[k].pc \in Moving /\ call[k].pc \in Chosen /\ call[k].source # None
      BY <2>4 DEF Calls, Moving, Chosen, LocalInv, TypeOK
    <3>2. Settled(sender[d], AccountOf[d]) /\ sender[d] \in actors
      BY <1>0, <2>4, <3>1 DEF HistoryInv, TypeOK, Optional
    <3>3. owner[AccountOf[d]] # sender[d]
      BY <1>0, <2>0, <2>4, <3>1 DEF MergeInv, Sound
    <3>4. PICK j \in Callbacks : /\ call[j].pc \in Moving /\ call[j].source = sender[d]
                                 /\ call[j].actor = owner[AccountOf[d]]
      BY <3>2, <3>3 DEF Settled
    <3>5. call[j].pc \in Chosen
      BY <3>4 DEF Moving, Chosen, Merging
    <3>6. j = k
      BY <1>0, <2>4, <3>1, <3>4, <3>5 DEF MergeInv, Apart, Concerned
    <3> QED
      BY <2>4, <3>4, <3>6 DEF MergeMessages, Settled
  <2> QED
    BY <1>0, <2>1, <2>2, <2>3, <2>4, Steps DEF vars
<1> QED
  BY <1>4, <1>5, <1>6 DEF HistoryInv

(* Where nothing fails and no two link calls share an actor, every stored
   message is filed under the owner of its account when no merge is under
   way, whatever deliveries and sign-ins have run into each other. *)
THEOREM HistoryFollowsAccounts == Spec => []MessagesFollowAccounts
<1>1. Init => Inv /\ MergeInv /\ HistoryInv
  BY InitInv, MergeInit, HistoryInit
<1>2. Inv /\ MergeInv /\ HistoryInv /\ [Next]_vars => (Inv /\ MergeInv /\ HistoryInv)'
  BY InvStep, TypeStep, MergeStep, HistoryStep
<1>3. Inv /\ MergeInv /\ HistoryInv => MessagesFollowAccounts
  <2> SUFFICES ASSUME Inv, HistoryInv, faults = 0, ~ entangled,
                      \A k \in Callbacks : call[k].pc \notin Merging,
                      NEW d \in Deliveries, sender[d] # None
               PROVE  sender[d] = owner[AccountOf[d]]
    BY DEF MessagesFollowAccounts
  <2>1. Settled(sender[d], AccountOf[d]) /\ sender[d] \in actors
    BY DEF HistoryInv, Inv, TypeOK, Optional
  <2> QED
    BY <2>1 DEF Settled, Moving, Merging
<1> QED
  BY <1>1, <1>2, <1>3, PTL DEF Spec

=================================================================================
