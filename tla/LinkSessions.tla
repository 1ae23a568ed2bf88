------------------------------ MODULE LinkSessions ------------------------------
(***************************************************************************)
(* The account-linking dashboard: sign-ins of browsers at providers, the   *)
(* link_sessions rows, and the cookies that tie the two together.  A       *)
(* browser may have several sign-ins under way (tabs); a callback carries  *)
(* the cookies of the moment it is sent, is handled in several awaits, and *)
(* its Set-Cookie takes effect when its response arrives: in any order.    *)
(*                                                                         *)
(* The awaits of resolveActor and linkProviderToActor are steps here too   *)
(* (IdentityService has them with the messages they move): messages are    *)
(* resolved meanwhile, and a merge may be cut off between its statements.  *)
(* A session, a state and an actor created for a sign-in are named after   *)
(* it, an actor a message is the first of after the account.               *)
(***************************************************************************)
EXTENDS Naturals, FiniteSets

CONSTANTS
  SignIns,
  Browsers, Providers, Accounts,
  BrowserOf, ProviderOf, AccountOf,   \* of each sign-in
  Known,        \* the accounts that have an actor already, each its own
  Bots,         \* those of type bot or agent
  Talkers,      \* the accounts that send messages
  None,
  MaxEvents     \* bound: messages, logouts, expiries, sign-ins declined or
                \* failed at the provider, callbacks that throw, and crashes

Actors == SignIns \cup Accounts
Optional(S) == S \cup {None}

ASSUME LinkAssumption ==
  /\ BrowserOf \in [SignIns -> Browsers]
  /\ ProviderOf \in [SignIns -> Providers]
  /\ AccountOf \in [SignIns -> Accounts]
  /\ Bots \subseteq Known /\ Known \subseteq Accounts /\ Talkers \subseteq Accounts
  /\ SignIns \cap Accounts = {} /\ None \notin SignIns \cup Accounts
  /\ MaxEvents \in Nat

VARIABLES
  actors,     \* the actors rows
  owner,      \* actorId of each account's row
  session,    \* the link_sessions rows
  cache,      \* IdentityService.cache
  heard,      \* the actor a message's resolveActor has selected for each account
  cookie,     \* link_session of each browser
  state,      \* oauth_state_<provider> of each browser
  signIn,     \* how far each sign-in is, and what its callback holds
  sitting,    \* history: sign-ins each browser has seen succeed, since it
              \* last logged out or its session ran out
  split,      \* history: sign-ins that opened a session beside another of
              \* their browser, or set out from a sitting with such a one
  mergedAway, \* history: actors whose accounts a merge has moved
  orphaned,   \* history: sessions whose actor was merged away
  contested,  \* history: sign-ins that merged one actor at the same time
  left,       \* history: sessions a browser has logged out of, and has not
              \* been logged in to since
  inFlight,   \* history: callbacks in progress at a logout
  under,      \* history: the accounts resolved or linked under each session
  disturbed,  \* history: sign-ins whose state cookie was replaced, cleared
              \* by another sign-in at the provider, or ran out
  declined,   \* history: sign-ins the provider sent back without a code
  events

rows == <<actors, owner, session>>
memory == <<cache, heard>>
cookies == <<cookie, state>>
merges == <<mergedAway, orphaned, contested>>
visits == <<sitting, split, left, inFlight, disturbed, declined>>
vars == <<rows, memory, cookies, signIn, merges, visits, under, events>>

Resolving == {"lookup", "select", "insertActor", "insertAccount", "remember", "set"}
Merging == {"move", "delete"}
Linking == {"linkSelect", "linkInsert", "linkCache", "clearCache"} \cup Merging
Handling == {"read", "respond"} \cup Resolving \cup Linking
PC == {"new", "away", "done", "refused", "failed"} \cup Handling

(* cookie: the session id the callback was sent with; session: the row it
   goes by; actor: that of the session, or resolved; source: the actor that
   is being merged; before: what its browser had seen succeed. *)
SignIn == [pc : PC, cookie : Optional(SignIns), session : Optional(SignIns),
           actor : Optional(Actors), source : Optional(Actors), before : SUBSET SignIns]
Fresh(pc) == [pc |-> pc, cookie |-> None, session |-> None, actor |-> None,
              source |-> None, before |-> {}]

Session == [status : {"absent", "live", "expired"}, actor : Optional(Actors)]

TypeOK ==
  /\ actors \subseteq Actors
  /\ owner \in [Accounts -> Optional(actors)]
  /\ session \in [SignIns -> Session]
  /\ \A s \in SignIns : session[s].actor \in Optional(actors)
  /\ cache \in [Accounts -> Optional(Actors)]
  /\ heard \in [Accounts -> Optional(Actors)]
  /\ cookie \in [Browsers -> Optional(SignIns)]
  /\ state \in [Browsers -> [Providers -> Optional(SignIns)]]
  /\ signIn \in [SignIns -> SignIn]
  /\ sitting \in [Browsers -> SUBSET SignIns]
  /\ mergedAway \subseteq Actors
  /\ split \subseteq SignIns /\ orphaned \subseteq SignIns /\ contested \subseteq SignIns
  /\ left \in [Browsers -> SUBSET SignIns]
  /\ under \in [SignIns -> SUBSET Accounts]
  /\ inFlight \subseteq SignIns /\ disturbed \subseteq SignIns /\ declined \subseteq SignIns
  /\ events \in 0 .. MaxEvents

Init ==
  /\ actors = Known
  /\ owner = [a \in Accounts |-> IF a \in Known THEN a ELSE None]
  /\ session = [s \in SignIns |-> [status |-> "absent", actor |-> None]]
  /\ cache = [a \in Accounts |-> None] /\ heard = [a \in Accounts |-> None]
  /\ cookie = [b \in Browsers |-> None]
  /\ state = [b \in Browsers |-> [p \in Providers |-> None]]
  /\ signIn = [f \in SignIns |-> Fresh("new")]
  /\ sitting = [b \in Browsers |-> {}]
  /\ split = {} /\ left = [b \in Browsers |-> {}]
  /\ mergedAway = {} /\ orphaned = {} /\ contested = {}
  /\ inFlight = {} /\ disturbed = {} /\ declined = {}
  /\ under = [s \in SignIns |-> {}]
  /\ events = 0

-----------------------------------------------------------------------------
Of(b) == {f \in SignIns : BrowserOf[f] = b}
InProgress(b) == {f \in Of(b) : signIn[f].pc \in Handling}
StateOf(f) == state[BrowserOf[f]][ProviderOf[f]]

SetState(f, s) == state' = [state EXCEPT ![BrowserOf[f]][ProviderOf[f]] = s]
Event == events < MaxEvents /\ events' = events + 1

Over(f, pc) == signIn' = [signIn EXCEPT ![f] = Fresh(pc)]
Hold(f, pc, s, a, source) ==
  signIn' = [signIn EXCEPT ![f] =
    [@ EXCEPT !.pc = pc, !.session = s, !.actor = a, !.source = source]]
Goto(f, pc) == Hold(f, pc, signIn[f].session, signIn[f].actor, signIn[f].source)
GotoWith(f, pc, a) == Hold(f, pc, signIn[f].session, a, None)
Answer(f) == GotoWith(f, "respond", None)

(* handleStart: the state cookie of the provider is set anew. *)
Start(f) ==
  /\ signIn[f].pc = "new"
  /\ SetState(f, f)
  /\ Over(f, "away")
  /\ disturbed' = disturbed \cup ({StateOf(f)} \ {None})
  /\ UNCHANGED <<rows, memory, cookie, merges, sitting, split, left, inFlight, declined, under, events>>

Send(f) ==
  LET b == BrowserOf[f] IN
  /\ signIn' = [signIn EXCEPT ![f] =
       [Fresh("read") EXCEPT !.cookie = cookie[b], !.before = sitting[b]]]
  /\ split' = IF sitting[b] \cap split = {} THEN split ELSE split \cup {f}

(* Mutant of Callback: one state cookie serves all providers. *)
CallbackAnyProvider(f) ==
  /\ signIn[f].pc = "away"
  /\ IF \E p \in Providers : state[BrowserOf[f]][p] \notin {None, f}
       THEN Over(f, "refused") /\ UNCHANGED split
       ELSE Send(f)
  /\ UNCHANGED <<rows, memory, cookies, merges, sitting, left, inFlight, disturbed, declined, under, events>>

(* handleCallback: the provider sends the browser back with the state, and
   with a code unless the user has declined; the cookies are read once,
   here.  exchangeCodeForProfile is awaited next: the account, or an error
   page (502). *)
Callback(f) ==
  /\ signIn[f].pc = "away"
  /\ \/ Event /\ Over(f, "refused") /\ declined' = declined \cup {f} /\ UNCHANGED split
     \/ StateOf(f) # f /\ Over(f, "refused") /\ UNCHANGED <<declined, split, events>>
     \/ StateOf(f) = f /\ Send(f) /\ UNCHANGED <<declined, events>>
     \/ StateOf(f) = f /\ Event /\ Over(f, "failed") /\ UNCHANGED <<declined, split>>
  /\ UNCHANGED <<rows, memory, cookies, merges, sitting, left, inFlight, disturbed, under>>

(* Sign-ins of the browser that f knows nothing of. *)
Beside(f) == (InProgress(BrowserOf[f]) \cup sitting[BrowserOf[f]])
               \ (signIn[f].before \cup {f})

(* createLinkSession: a row no other sign-in knows of yet. *)
CreateSession(f) ==
  /\ session' = [session EXCEPT ![f] = [status |-> "live", actor |-> None]]
  /\ Hold(f, "lookup", f, None, None)
  /\ split' = IF Beside(f) = {} THEN split ELSE split \cup Beside(f) \cup {f}

(* A session without an actor has the account resolved, one with an actor
   has it linked to that. *)
UseSession(f, s) ==
  /\ session[s].status = "live"
  /\ Hold(f, IF session[s].actor = None THEN "lookup" ELSE "linkSelect",
          s, session[s].actor, None)
  /\ UNCHANGED <<session, split>>

(* Mutant of ReadSession: a callback without a cookie goes by whatever
   session is alive. *)
ReadSessionShared(f) ==
  /\ signIn[f].pc = "read"
  /\ \/ \E s \in SignIns : signIn[f].cookie \in {s, None} /\ UseSession(f, s)
     \/ (\A s \in SignIns : session[s].status # "live") /\ CreateSession(f)
  /\ UNCHANGED <<actors, owner, memory, cookies, merges, sitting, left, inFlight,
                 disturbed, declined, under, events>>

(* getLinkSession: a missing or an expired row means to start over. *)
ReadSession(f) ==
  LET s == signIn[f].cookie IN
  /\ signIn[f].pc = "read"
  /\ IF s = None \/ session[s].status # "live" THEN CreateSession(f) ELSE UseSession(f, s)
  /\ UNCHANGED <<actors, owner, memory, cookies, merges, sitting, left, inFlight,
                 disturbed, declined, under, events>>

-----------------------------------------------------------------------------
(* The account of f is being tied to the actor of its session. *)
Tie(f) == under' = [under EXCEPT ![signIn[f].session] = @ \cup {AccountOf[f]}]

(* resolveActor: the cache ... *)
Lookup(f) ==
  LET hit == cache[AccountOf[f]] IN
  /\ signIn[f].pc = "lookup"
  /\ IF hit # None THEN GotoWith(f, "set", hit) ELSE Goto(f, "select")
  /\ Tie(f)
  /\ UNCHANGED <<rows, memory, cookies, merges, visits, events>>

(* ... the account's row ... *)
Select(f) ==
  LET existing == owner[AccountOf[f]] IN
  /\ signIn[f].pc = "select"
  /\ IF existing # None THEN GotoWith(f, "remember", existing) ELSE Goto(f, "insertActor")
  /\ UNCHANGED <<rows, memory, cookies, merges, visits, under, events>>

(* ... or a new actor, and a row that the unique index refuses when another
   call was first: the actor is left without an account then. *)
InsertActor(f) ==
  /\ signIn[f].pc = "insertActor"
  /\ actors' = actors \cup {f}
  /\ GotoWith(f, "insertAccount", f)
  /\ UNCHANGED <<owner, session, memory, cookies, merges, visits, under, events>>

InsertAccount(f) ==
  LET a == AccountOf[f] IN
  /\ signIn[f].pc = "insertAccount"
  /\ IF owner[a] = None /\ signIn[f].actor \in actors
       THEN owner' = [owner EXCEPT ![a] = signIn[f].actor] /\ Goto(f, "remember")
       ELSE UNCHANGED owner /\ Over(f, "failed")
  /\ UNCHANGED <<actors, session, memory, cookies, merges, visits, under, events>>

(* cache.set once the answer is there, in both methods. *)
CacheActor(f) ==
  /\ signIn[f].pc \in {"remember", "linkCache"}
  /\ cache' = [cache EXCEPT ![AccountOf[f]] = signIn[f].actor]
  /\ IF signIn[f].pc = "remember" THEN Goto(f, "set") ELSE Answer(f)
  /\ UNCHANGED <<rows, heard, cookies, merges, visits, under, events>>

(* Mutant of SetActor: the session is left without its actor. *)
SetActorForgotten(f) ==
  /\ signIn[f].pc = "set"
  /\ Answer(f)
  /\ UNCHANGED <<rows, memory, cookies, merges, visits, under, events>>

(* setLinkSessionActor; the foreign key refuses an actor that is gone, but
   not one that a merge, cut off or still going on, has emptied. *)
SetActor(f) ==
  LET s == signIn[f].session  a == signIn[f].actor IN
  /\ signIn[f].pc = "set"
  /\ IF a \in actors
       THEN /\ session' = [session EXCEPT ![s].actor = a]
            /\ orphaned' = IF a \in mergedAway THEN orphaned \cup {s} ELSE orphaned
            /\ Answer(f)
       ELSE UNCHANGED <<session, orphaned>> /\ Over(f, "failed")
  /\ UNCHANGED <<actors, owner, memory, cookies, mergedAway, contested, visits, under, events>>

-----------------------------------------------------------------------------
(* Other sign-ins about to merge the actor away. *)
Rivals(f, source) ==
  {g \in SignIns \ {f} : signIn[g].pc \in Merging /\ signIn[g].source = source}

(* linkProviderToActor: the account's row is read, and that of its actor: to
   be inserted, nothing to do, a bot that is not merged, or a merge. *)
LinkSelect(f) ==
  LET target == signIn[f].actor
      source == owner[AccountOf[f]]
  IN
  /\ signIn[f].pc = "linkSelect"
  /\ \/ source = None /\ Goto(f, "linkInsert") /\ UNCHANGED contested
     \/ source \in {target} \cup Bots /\ Answer(f) /\ UNCHANGED contested
     \/ /\ source \notin {None, target} \cup Bots
        /\ Hold(f, "move", signIn[f].session, target, source)
        /\ contested' = IF Rivals(f, source) = {} THEN contested
                        ELSE contested \cup Rivals(f, source) \cup {f}
  /\ Tie(f)
  /\ UNCHANGED <<rows, memory, cookies, mergedAway, orphaned, visits, events>>

(* The unique index refuses a second row, the foreign key an actor that is
   gone. *)
LinkInsert(f) ==
  LET a == AccountOf[f] IN
  /\ signIn[f].pc = "linkInsert"
  /\ IF owner[a] = None /\ signIn[f].actor \in actors
       THEN owner' = [owner EXCEPT ![a] = signIn[f].actor] /\ Goto(f, "linkCache")
       ELSE UNCHANGED owner /\ Over(f, "failed")
  /\ UNCHANGED <<actors, session, memory, cookies, merges, visits, under, events>>

(* Mutant of Move: the accounts stay with the source. *)
MoveForgotten(f) ==
  /\ signIn[f].pc = "move"
  /\ Goto(f, "delete")
  /\ UNCHANGED <<rows, memory, cookies, merges, visits, under, events>>

(* All accounts of the source go to the target; the foreign key refuses a
   target that is gone, if there is any account to give to it. *)
Move(f) ==
  LET target == signIn[f].actor  source == signIn[f].source IN
  /\ signIn[f].pc = "move"
  /\ IF target \in actors \/ \A x \in Accounts : owner[x] # source
       THEN /\ owner' = [x \in Accounts |-> IF owner[x] = source THEN target ELSE owner[x]]
            /\ mergedAway' = mergedAway \cup {source}
            /\ orphaned' = orphaned \cup {s \in SignIns : session[s].actor = source}
            /\ Goto(f, "delete")
       ELSE UNCHANGED <<owner, mergedAway, orphaned>> /\ Over(f, "failed")
  /\ UNCHANGED <<actors, session, memory, cookies, contested, visits, under, events>>

(* The messages of the source are moved (refused, if it has any, when the
   target is gone) and the source deleted: what it has been given meanwhile
   goes with it, and sessions forget it. *)
Delete(f) ==
  LET source == signIn[f].source
      Kept(x) == IF x = source THEN None ELSE x
  IN
  /\ signIn[f].pc = "delete"
  /\ \/ signIn[f].actor \notin actors /\ Over(f, "failed") /\ UNCHANGED rows
     \/ /\ actors' = actors \ {source}
        /\ owner' = [x \in Accounts |-> Kept(owner[x])]
        /\ session' = [s \in SignIns |-> [session[s] EXCEPT !.actor = Kept(@)]]
        /\ Goto(f, "clearCache")
  /\ UNCHANGED <<memory, cookies, merges, visits, under, events>>

ClearCache(f) ==
  /\ signIn[f].pc = "clearCache"
  /\ cache' = [a \in Accounts |-> None]
  /\ Answer(f)
  /\ UNCHANGED <<rows, heard, cookies, merges, visits, under, events>>

-----------------------------------------------------------------------------
(* A message of the account, but for those of a bot, has resolveActor select
   its actor, or register it ... *)
Hear(a) ==
  /\ Event
  /\ a \in Talkers
  /\ heard[a] = None /\ cache[a] = None
  /\ \/ /\ owner[a] \notin {None} \cup Bots
        /\ heard' = [heard EXCEPT ![a] = owner[a]]
        /\ UNCHANGED <<actors, owner>>
     \/ /\ owner[a] = None /\ a \notin actors \cup mergedAway
        /\ actors' = actors \cup {a}
        /\ owner' = [owner EXCEPT ![a] = a]
        /\ heard' = [heard EXCEPT ![a] = a]
  /\ UNCHANGED <<session, cache, cookies, signIn, merges, visits, under>>

(* ... and the cache remember it, whatever has happened since. *)
Remember(a) ==
  /\ heard[a] # None
  /\ cache' = [cache EXCEPT ![a] = heard[a]]
  /\ heard' = [heard EXCEPT ![a] = None]
  /\ UNCHANGED <<rows, cookies, signIn, merges, visits, under, events>>

-----------------------------------------------------------------------------
(* The response arrives: the session cookie is set to the session the
   callback went by, and the provider's state cookie is cleared, whichever
   sign-in has set it. *)
Receive(f) ==
  LET b == BrowserOf[f] IN
  /\ signIn[f].pc = "respond"
  /\ cookie' = [cookie EXCEPT ![b] = signIn[f].session]
  /\ SetState(f, None)
  /\ Over(f, "done")
  /\ sitting' = [sitting EXCEPT ![b] =
       IF session[signIn[f].session].status = "live" THEN @ \cup {f} ELSE {}]
  /\ left' = [left EXCEPT ![b] = @ \ {signIn[f].session}]
  /\ disturbed' = disturbed \cup ({StateOf(f)} \ {None, f})
  /\ UNCHANGED <<rows, memory, merges, split, inFlight, declined, under, events>>

(* Mutant of Logout: the browser is not told to drop the cookie. *)
LogoutKeepsCookie(b) ==
  /\ Event
  /\ cookie[b] # None
  /\ sitting' = [sitting EXCEPT ![b] = {}]
  /\ left' = [left EXCEPT ![b] = @ \cup {cookie[b]}]
  /\ inFlight' = inFlight \cup InProgress(b)
  /\ UNCHANGED <<rows, memory, cookies, signIn, merges, split, disturbed, declined, under>>

Logout(b) ==
  /\ Event
  /\ cookie[b] # None
  /\ cookie' = [cookie EXCEPT ![b] = None]
  /\ sitting' = [sitting EXCEPT ![b] = {}]
  /\ left' = [left EXCEPT ![b] = @ \cup {cookie[b]}]
  /\ inFlight' = inFlight \cup InProgress(b)
  /\ UNCHANGED <<rows, memory, state, signIn, merges, split, disturbed, declined, under>>

(* SESSION_TTL_MS after the row was created, however recently it was used.
   The cookie is set later and lasts as long: it is never the first. *)
ExpireSession(s) ==
  /\ Event
  /\ session[s].status = "live"
  /\ session' = [session EXCEPT ![s].status = "expired"]
  /\ sitting' = [b \in Browsers |-> IF cookie[b] = s THEN {} ELSE sitting[b]]
  /\ UNCHANGED <<actors, owner, memory, cookies, signIn, merges, split, left, inFlight,
                 disturbed, declined, under>>

(* STATE_COOKIE_TTL_SECONDS after handleStart: a sign-in that is no longer
   away does not notice. *)
ExpireState(f) ==
  /\ Event
  /\ signIn[f].pc = "away" /\ StateOf(f) = f
  /\ SetState(f, None)
  /\ disturbed' = disturbed \cup {f}
  /\ UNCHANGED <<rows, memory, cookie, signIn, merges, sitting, split, left, inFlight, declined, under>>

(* The database throws out of the callback, or its answer is lost: an error
   page without cookies.  What it had done so far stays done. *)
Throw(f) ==
  /\ Event
  /\ signIn[f].pc \in Handling
  /\ Over(f, "failed")
  /\ UNCHANGED <<rows, memory, cookies, merges, visits, under>>

(* The process dies, its cache and every callback in progress with it. *)
Crash ==
  /\ Event
  /\ signIn' = [f \in SignIns |-> IF signIn[f].pc \in Handling \ {"respond"}
                                  THEN Fresh("failed") ELSE signIn[f]]
  /\ cache' = [a \in Accounts |-> None] /\ heard' = [a \in Accounts |-> None]
  /\ UNCHANGED <<rows, cookies, merges, visits, under>>

Resolve(f) == \/ Lookup(f) \/ Select(f) \/ InsertActor(f) \/ InsertAccount(f)
              \/ CacheActor(f) \/ SetActor(f)
Link(f) == LinkSelect(f) \/ LinkInsert(f) \/ Move(f) \/ Delete(f) \/ ClearCache(f)
Handle(f) == Start(f) \/ Callback(f) \/ ReadSession(f) \/ Resolve(f) \/ Link(f)

Next ==
  \/ \E f \in SignIns : Handle(f) \/ Receive(f) \/ Throw(f) \/ ExpireState(f) \/ ExpireSession(f)
  \/ \E b \in Browsers : Logout(b)
  \/ \E a \in Accounts : Hear(a) \/ Remember(a)
  \/ Crash

Spec == Init /\ [][Next]_vars

-----------------------------------------------------------------------------
(* The accounts handleDashboard lists for a browser. *)
Dashboard(b) ==
  LET s == cookie[b] IN
  IF s = None \/ session[s].status # "live" \/ session[s].actor = None
    THEN {} ELSE {a \in Accounts : owner[a] = session[s].actor}

(* "Signing in with a second or third provider in the same browser session
   either attaches that identity to the actor or merges the two": the
   accounts signed in with in one sitting belong to the session's actor, and
   go on doing so whatever other browsers merge and wherever a merge is cut
   off.  Not so: a bot's account, which stays its own; the accounts of a
   sitting in which a callback opened a session beside another's; a session
   whose actor was merged away, or was resolved as one that had been; and a
   sign-in that merged the same actor at the same time as another. *)
OneActorPerSitting ==
  \A b \in Browsers :
    sitting[b] \cap split = {} /\ cookie[b] \notin orphaned =>
      \A f \in sitting[b] \ contested :
        owner[AccountOf[f]] \in {session[cookie[b]].actor} \cup Bots

(* "A merge only happens when the same browser ... completes a real OAuth
   round-trip for the account": accounts come to share an actor only along
   a chain of sign-ins that went by one session each, and a session is only
   one browser's. *)
JoinedBySessions ==
  /\ \A f \in SignIns : signIn[f].session # None => BrowserOf[signIn[f].session] = BrowserOf[f]
  /\ \A S \in SUBSET Accounts :
       (\A s \in SignIns : under[s] \subseteq S \/ under[s] \cap S = {})
         => \A a \in S, x \in Accounts \ S : owner[a] = None \/ owner[a] # owner[x]

(* A browser that has logged out of a session is not logged in to it again
   except by a callback that was in progress at a logout. *)
LogoutHolds ==
  [][\A f \in SignIns :
       /\ signIn[f].pc = "respond" /\ signIn'[f].pc = "done"
       /\ cookie'[BrowserOf[f]] \in left[BrowserOf[f]]
       => f \in inFlight]_vars

(* A sign-in is refused only after the user has declined, another sign-in at
   the same provider got in its way, or it took too long: sign-ins at two
   providers go on independently in one browser. *)
RefusalsExplained ==
  \A f \in SignIns : signIn[f].pc = "refused" => f \in disturbed \cup declined

(* The dashboard a successful callback redirects to shows the account as
   connected, unless the session ran out, its actor was merged away or had
   been before it was resolved, the account is a bot's, or another sign-in
   was merging the account's actor at the same time. *)
ShownWhenConnected ==
  [][\A f \in SignIns :
       signIn[f].pc = "respond" /\ signIn'[f].pc = "done"
       => \/ AccountOf[f] \in Dashboard(BrowserOf[f])'
          \/ session[signIn[f].session].status = "expired"
          \/ signIn[f].session \in orphaned
          \/ owner[AccountOf[f]] \in Bots
          \/ f \in contested]_vars
==================================================================================
