-------------------------- MODULE LinkSessions_proofs --------------------------
(***************************************************************************)
(* Proofs about the account-linking dashboard, for any sign-ins of any     *)
(* browsers: each part of the inductive invariant has a lemma saying that  *)
(* every step keeps it, and the theorems stand at the end.                 *)
(*                                                                         *)
(* The parts about cookies and sessions tell the steps inside a callback   *)
(* from each other only by what becomes of its record (Inner, Drifts); the *)
(* parts about actors tell the steps of the browser from each other only   *)
(* by what they leave alone.                                               *)
(***************************************************************************)
EXTENDS LinkSessions, TLAPS

(* What the record of a sign-in holds, by how far it is. *)
Record(f) ==
  /\ signIn[f].pc \notin Handling => signIn[f] = Fresh(signIn[f].pc)
  /\ signIn[f].pc = "read" => signIn[f].session = None
  /\ signIn[f].pc \in Handling \ {"read"} => signIn[f].session # None
  /\ signIn[f].pc \in Linking => signIn[f].actor # None
  /\ signIn[f].pc \in Merging => signIn[f].source # None

Records ==
  \A f \in SignIns :
    /\ Record(f)
    /\ \A g \in SignIns : g \in signIn[f].before =>
         signIn[g].pc = "done" /\ BrowserOf[g] = BrowserOf[f]

(* The session a sign-in is yet to create is not there. *)
Unmade ==
  \A f \in SignIns :
    signIn[f].pc \in {"new", "away", "read"} => session[f].status = "absent"

(* A session a browser has been logged in to: its sign-in is over. *)
Established(s, b) ==
  s \in SignIns /\ BrowserOf[s] = b /\ signIn[s].pc = "done" /\ session[s].status # "absent"

(* Browsers and sign-ins hold established sessions of their own browser, but
   for the sign-in that has created one. *)
Sessions ==
  /\ \A b \in Browsers : cookie[b] # None => Established(cookie[b], b)
  /\ \A b \in Browsers, s \in SignIns : s \in left[b] => Established(s, b)
  /\ \A b \in Browsers, s \in SignIns :
       s \in sitting[b] => BrowserOf[s] = b /\ signIn[s].pc = "done"
  /\ \A f \in SignIns : signIn[f].cookie # None => Established(signIn[f].cookie, BrowserOf[f])
  /\ \A f \in SignIns : LET s == signIn[f].session IN
       /\ s = f => session[f].status # "absent"
       /\ s \notin {None, f} => Established(s, BrowserOf[f])

(* A sign-in is away with its state cookie, unless it has been disturbed. *)
Stated == \A f \in SignIns : signIn[f].pc = "away" => StateOf(f) = f \/ f \in disturbed

(* The session f goes by, or, before it has looked, would go by. *)
Going(f) == IF signIn[f].pc = "read" THEN signIn[f].cookie ELSE signIn[f].session

(* Neither a browser nor a callback that began after its last logout is
   anywhere near a session the browser has left. *)
Left ==
  /\ \A b \in Browsers : cookie[b] \notin left[b]
  /\ \A f \in SignIns :
       signIn[f].pc \in Handling /\ f \notin inFlight => Going(f) \notin left[BrowserOf[f]]

-----------------------------------------------------------------------------
(* The account an actor was made for. *)
Home(A) == IF A \in SignIns THEN AccountOf[A] ELSE A

Closed(S) == \A s \in SignIns : under[s] \subseteq S \/ under[s] \cap S = {}

(* Whatever names an actor of an account, or of the accounts of a session,
   lies on the same side, of a set that no session straddles, as the account
   that actor was made for. *)
AccountSide(a, A, S) == A # None /\ a \in S => Home(A) \in S
SessionSide(s, A, S) == A # None /\ under[s] \subseteq S => Home(A) \in S

Sided(S) ==
  /\ \A a \in Accounts : AccountSide(a, owner[a], S) /\ AccountSide(a, cache[a], S) /\ AccountSide(a, heard[a], S)
  /\ \A s \in SignIns : SessionSide(s, session[s].actor, S)
  /\ \A f \in SignIns : signIn[f].session # None =>
       /\ SessionSide(signIn[f].session, signIn[f].actor, S)
       /\ SessionSide(signIn[f].session, signIn[f].source, S)

(* The account is among those of the session from the first look at it on. *)
Tied(f) ==
  signIn[f].pc \in Handling \ {"read", "lookup", "linkSelect"} =>
    AccountOf[f] \in under[signIn[f].session]

Joined ==
  /\ \A f \in SignIns : Tied(f)
  /\ \A S \in SUBSET Accounts : Closed(S) => Sided(S)

-----------------------------------------------------------------------------
(* Who has been resolved as the actor of an account is, or was merged away. *)
Resolved(a, A) == A \in {None, owner[a]} \cup mergedAway

Resolves ==
  /\ \A a \in Accounts : Resolved(a, cache[a]) /\ Resolved(a, heard[a])
  /\ \A f \in SignIns : signIn[f].pc \in {"remember", "set", "linkCache"} =>
       Resolved(AccountOf[f], signIn[f].actor)

(* A merge takes its source's accounts first, and nobody merges a bot. *)
Merges ==
  /\ mergedAway \cap Bots = {}
  /\ \A s \in SignIns : session[s].actor \in mergedAway => s \in orphaned
  /\ \A f \in SignIns :
       /\ signIn[f].pc \in Merging => signIn[f].source \notin Bots
       /\ signIn[f].pc = "delete" => signIn[f].source \in mergedAway
       /\ signIn[f].pc = "move" /\ f \notin contested => owner[AccountOf[f]] = signIn[f].source
  /\ \A f, g \in SignIns :
       /\ f # g /\ signIn[f].pc \in Merging /\ signIn[g].pc \in Merging
       /\ signIn[f].source = signIn[g].source
       => f \in contested

(* The account is the actor's that the session has, but for the exceptions. *)
Attached(f, s) ==
  f \in contested \/ owner[AccountOf[f]] \in {session[s].actor} \cup Bots

Acting(s) == s # None /\ s \notin orphaned => session[s].actor # None

(* A callback goes by a session whose actor it knows. *)
Goes(f) ==
  LET s == signIn[f].session IN
  s # None /\ s \notin orphaned =>
    /\ signIn[f].pc \in Resolving => s = f
    /\ signIn[f].pc \in Linking => session[s].actor = signIn[f].actor
    /\ signIn[f].pc \in {"linkCache", "delete", "clearCache", "respond"} =>
         session[s].actor # None /\ Attached(f, s)

ActorsKept ==
  /\ \A f \in SignIns : Goes(f) /\ Acting(signIn[f].cookie)
  /\ \A b \in Browsers : Acting(cookie[b])

-----------------------------------------------------------------------------
Live(s) == s \in SignIns /\ session[s].status = "live"
Handled(f) == signIn[f].pc \in Handling

(* In one sitting, sign-ins that are not split go by one session: one that
   has not looked up its session yet, but knows all that has succeeded, was
   sent with the cookie of now; one that would add to the sitting would add
   to the session of the sitting; and two in progress go by the same. *)
Abreast(f) ==
  LET b == BrowserOf[f] IN
  signIn[f].pc = "read" /\ sitting[b] # {} /\ sitting[b] \subseteq signIn[f].before
    => cookie[b] = signIn[f].cookie

Joins(f) ==
  LET b == BrowserOf[f] IN
  /\ f \notin split /\ Handled(f) /\ Live(Going(f))
  /\ sitting[b] # {} /\ sitting[b] \cap split = {}
  => Going(f) = cookie[b]

Agree(f, g) ==
  /\ BrowserOf[f] = BrowserOf[g] /\ {f, g} \cap split = {}
  /\ Handled(f) /\ Handled(g) /\ Live(Going(f)) /\ Live(Going(g))
  => Going(f) = Going(g)

OneSession ==
  /\ \A b \in Browsers : sitting[b] # {} <=> Live(cookie[b])
  /\ \A f \in SignIns : Abreast(f) /\ Joins(f) /\ \A g \in SignIns : Agree(f, g)

IInv ==
  /\ TypeOK /\ Records /\ Unmade /\ Sessions /\ Stated /\ Left /\ Joined
  /\ Resolves /\ Merges /\ ActorsKept /\ OneSession
  /\ OneActorPerSitting /\ RefusalsExplained

USE LinkAssumption

-----------------------------------------------------------------------------
(* What each kind of change makes of the records of the sign-ins. *)
Becomes(f, pc) ==
  /\ signIn'[f] = Fresh(pc) /\ signIn'[f].pc = pc
  /\ signIn'[f].cookie = None /\ signIn'[f].session = None /\ signIn'[f].actor = None
  /\ signIn'[f].source = None /\ signIn'[f].before = {}
  /\ \A g \in SignIns : g # f => signIn'[g] = signIn[g]

Moves(f, pc, s, a, source) ==
  /\ signIn'[f].pc = pc /\ signIn'[f].cookie = signIn[f].cookie
  /\ signIn'[f].session = s /\ signIn'[f].actor = a /\ signIn'[f].source = source
  /\ signIn'[f].before = signIn[f].before
  /\ \A g \in SignIns : g # f => signIn'[g] = signIn[g]

LEMMA OverRecords ==
  ASSUME TypeOK, NEW f \in SignIns, NEW pc \in PC, Over(f, pc)
  PROVE  signIn' \in [SignIns -> SignIn] /\ Becomes(f, pc)
<1>1. Fresh(pc) \in SignIn
  BY DEF Fresh, SignIn, Optional
<1> QED
  BY <1>1 DEF Over, TypeOK, Becomes, Fresh

LEMMA RecordTypes ==
  ASSUME TypeOK, NEW f \in SignIns
  PROVE  /\ signIn[f] \in SignIn /\ signIn[f].pc \in PC /\ AccountOf[f] \in Accounts
         /\ BrowserOf[f] \in Browsers
         /\ signIn[f].cookie \in Optional(SignIns) /\ signIn[f].session \in Optional(SignIns)
         /\ signIn[f].actor \in Optional(Actors) /\ signIn[f].source \in Optional(Actors)
         /\ owner[AccountOf[f]] \in Optional(actors) /\ owner[AccountOf[f]] \in Optional(Actors)
         /\ cache[AccountOf[f]] \in Optional(Actors)
         /\ session[f].actor \in Optional(Actors)
BY DEF TypeOK, SignIn, Optional, Session

LEMMA HoldRecords ==
  ASSUME TypeOK, NEW f \in SignIns, NEW pc \in PC, NEW s \in Optional(SignIns),
         NEW a \in Optional(Actors), NEW source \in Optional(Actors), Hold(f, pc, s, a, source)
  PROVE  signIn' \in [SignIns -> SignIn] /\ Moves(f, pc, s, a, source)
<1> DEFINE r0 == signIn[f]
           r1 == [r0 EXCEPT !.pc = pc]
           r2 == [r1 EXCEPT !.session = s]
           r3 == [r2 EXCEPT !.actor = a]
           r4 == [r3 EXCEPT !.source = source]
<1>1. signIn' = [signIn EXCEPT ![f] = r4] /\ signIn \in [SignIns -> SignIn]
  BY DEF Hold, TypeOK
<1>2. r1 \in SignIn /\ r1.pc = pc /\ r1.cookie = r0.cookie /\ r1.before = r0.before
  BY <1>1 DEF SignIn
<1> HIDE DEF r1
<1>3. r2 \in SignIn /\ r2.pc = r1.pc /\ r2.cookie = r1.cookie /\ r2.before = r1.before
      /\ r2.session = s
  BY <1>2 DEF SignIn
<1> HIDE DEF r2
<1>4. r3 \in SignIn /\ r3.pc = r2.pc /\ r3.cookie = r2.cookie /\ r3.before = r2.before
      /\ r3.session = r2.session /\ r3.actor = a
  BY <1>3 DEF SignIn
<1> HIDE DEF r3
<1>5. r4 \in SignIn /\ r4.pc = r3.pc /\ r4.cookie = r3.cookie /\ r4.before = r3.before
      /\ r4.session = r3.session /\ r4.actor = r3.actor /\ r4.source = source
  BY <1>4 DEF SignIn
<1> HIDE DEF r4
<1> QED
  BY <1>1, <1>2, <1>3, <1>4, <1>5 DEF Moves

(* Going on, with what the callback holds or with another actor. *)
LEMMA GotoRecords ==
  ASSUME TypeOK, NEW f \in SignIns
  PROVE  LET r == signIn[f] IN
         /\ \A pc \in PC : Goto(f, pc) =>
              signIn' \in [SignIns -> SignIn] /\ Moves(f, pc, r.session, r.actor, r.source)
         /\ \A pc \in PC, a \in Optional(Actors) : GotoWith(f, pc, a) =>
              signIn' \in [SignIns -> SignIn] /\ Moves(f, pc, r.session, a, None)
         /\ Answer(f) =>
              signIn' \in [SignIns -> SignIn] /\ Moves(f, "respond", r.session, None, None)
<1>1. signIn[f].session \in Optional(SignIns) /\ signIn[f].actor \in Optional(Actors)
      /\ signIn[f].source \in Optional(Actors) /\ None \in Optional(Actors)
  BY RecordTypes DEF Optional
<1>2. ASSUME NEW pc \in PC, Goto(f, pc)
      PROVE  signIn' \in [SignIns -> SignIn]
             /\ Moves(f, pc, signIn[f].session, signIn[f].actor, signIn[f].source)
  BY <1>1, <1>2, HoldRecords DEF Goto
<1>3. ASSUME NEW pc \in PC, NEW a \in Optional(Actors), GotoWith(f, pc, a)
      PROVE  signIn' \in [SignIns -> SignIn] /\ Moves(f, pc, signIn[f].session, a, None)
  BY <1>1, <1>3, HoldRecords DEF GotoWith
<1>4. "respond" \in PC
  BY DEF PC, Handling
<1> QED
  BY <1>1, <1>2, <1>3, <1>4 DEF Answer

LEMMA SendRecords ==
  ASSUME TypeOK, NEW f \in SignIns, Send(f)
  PROVE  LET b == BrowserOf[f] IN
         /\ signIn' \in [SignIns -> SignIn]
         /\ signIn'[f].pc = "read" /\ signIn'[f].cookie = cookie[b]
         /\ signIn'[f].session = None /\ signIn'[f].actor = None /\ signIn'[f].source = None
         /\ signIn'[f].before = sitting[b]
         /\ \A g \in SignIns : g # f => signIn'[g] = signIn[g]
         /\ split' = IF sitting[b] \cap split = {} THEN split ELSE split \cup {f}
<1> DEFINE b == BrowserOf[f]
           r0 == Fresh("read")
           r1 == [r0 EXCEPT !.cookie = cookie[b]]
           r2 == [r1 EXCEPT !.before = sitting[b]]
<1>1. signIn' = [signIn EXCEPT ![f] = r2] /\ signIn \in [SignIns -> SignIn]
  BY DEF Send, TypeOK
<1>2. r0 \in SignIn /\ r0.pc = "read" /\ r0.session = None /\ r0.actor = None
      /\ r0.source = None
  BY DEF Fresh, SignIn, Optional, PC, Handling
<1> HIDE DEF r0
<1>3. r1 \in SignIn /\ r1.pc = r0.pc /\ r1.session = r0.session /\ r1.actor = r0.actor
      /\ r1.source = r0.source /\ r1.cookie = cookie[b]
  BY <1>2 DEF SignIn, TypeOK
<1> HIDE DEF r1
<1>4. r2 \in SignIn /\ r2.pc = r1.pc /\ r2.session = r1.session /\ r2.actor = r1.actor
      /\ r2.source = r1.source /\ r2.cookie = r1.cookie /\ r2.before = sitting[b]
  BY <1>3 DEF SignIn, TypeOK
<1> HIDE DEF r2
<1>5. split' = IF sitting[b] \cap split = {} THEN split ELSE split \cup {f}
  BY DEF Send
<1>6. /\ signIn' \in [SignIns -> SignIn] /\ signIn'[f] = r2
      /\ \A g \in SignIns : g # f => signIn'[g] = signIn[g]
  BY <1>1, <1>4
<1> QED
  BY <1>2, <1>3, <1>4, <1>5, <1>6

LEMMA InitInv == Init => IInv
<1> SUFFICES ASSUME Init PROVE IInv
  OBVIOUS
<1> USE DEF Init
<1>1. TypeOK
  BY DEF TypeOK, Session, SignIn, Fresh, Optional, PC, Actors
<1>2. Records /\ Unmade
  BY <1>1 DEF Records, Record, Unmade, Fresh, Handling, Linking, Merging, Resolving
<1>3. Sessions /\ Left /\ Stated
  BY <1>1 DEF Sessions, Left, Stated, Fresh, Handling, Linking, Merging, Resolving
<1>4. Joined
  <2>1. \A a \in Accounts : owner[a] \in {None, a} /\ Home(a) = a
    BY DEF Home
  <2> QED
    BY <1>1, <2>1 DEF Joined, Tied, Sided, AccountSide, SessionSide, Fresh, Handling, Linking, Merging, Resolving
<1>5. Resolves /\ Merges
  BY <1>1 DEF Resolves, Resolved, Merges, Fresh, Merging
<1>6. ActorsKept /\ OneSession /\ OneActorPerSitting /\ RefusalsExplained
  BY <1>1 DEF ActorsKept, Goes, Acting, OneSession, Abreast, Joins, Agree,
     OneActorPerSitting, RefusalsExplained, Fresh, Handled, Handling, Linking, Merging,
     Resolving, Live
<1> QED
  BY <1>1, <1>2, <1>3, <1>4, <1>5, <1>6 DEF IInv

-----------------------------------------------------------------------------
(* Past its first look at the sessions a callback goes by one. *)
LEMMA Holds ==
  ASSUME TypeOK, Records, NEW f \in SignIns, signIn[f].pc \in Handling \ {"read"}
  PROVE  signIn[f].session \in SignIns
BY DEF TypeOK, Records, Record, SignIn, Optional

(* What setLinkSessionActor and the deletion of an actor make of the rows. *)
LEMMA SetActorRows ==
  ASSUME TypeOK, NEW s \in SignIns, NEW a \in Optional(Actors),
         session' = [session EXCEPT ![s].actor = a]
  PROVE  /\ session' \in [SignIns -> Session]
         /\ \A t \in SignIns :
              /\ session'[t].status = session[t].status
              /\ session'[t].actor = IF t = s THEN a ELSE session[t].actor
<1> DEFINE r == [session[s] EXCEPT !.actor = a]
<1>1. session' = [session EXCEPT ![s] = r]
  OBVIOUS
<1>2. session \in [SignIns -> Session] /\ session[s] \in Session
  BY DEF TypeOK
<1>3. r \in Session /\ r.status = session[s].status /\ r.actor = a
  BY <1>2 DEF Session
<1> HIDE DEF r
<1> QED
  BY <1>1, <1>2, <1>3

LEMMA DeleteRows ==
  ASSUME TypeOK, NEW source \in Actors,
         session' = [s \in SignIns |-> [session[s] EXCEPT
                       !.actor = IF @ = source THEN None ELSE @]]
  PROVE  /\ session' \in [SignIns -> Session]
         /\ \A t \in SignIns :
              /\ session'[t].status = session[t].status
              /\ session'[t].actor =
                   IF session[t].actor = source THEN None ELSE session[t].actor
<1>1. ASSUME NEW t \in SignIns
      PROVE  /\ session'[t].status = session[t].status
             /\ session'[t].actor = IF session[t].actor = source THEN None ELSE session[t].actor
             /\ session'[t] \in Session
  <2> DEFINE a == IF session[t].actor = source THEN None ELSE session[t].actor
  <2>1. session[t] \in Session /\ a \in Optional(Actors)
    BY DEF TypeOK, Optional, Session
  <2>2. session'[t] = [session[t] EXCEPT !.actor = a]
    OBVIOUS
  <2> HIDE DEF a
  <2>3. session'[t].status = session[t].status /\ session'[t].actor = a /\ session'[t] \in Session
    BY <2>1, <2>2 DEF Session
  <2> QED
    BY <2>3 DEF a
<1> QED
  BY <1>1

Ties(f) ==
  /\ under' \in [SignIns -> SUBSET Accounts]
  /\ \A t \in SignIns :
       under'[t] = IF t = signIn[f].session THEN under[t] \cup {AccountOf[f]} ELSE under[t]

LEMMA TieRows ==
  ASSUME TypeOK, NEW f \in SignIns, signIn[f].session \in SignIns, Tie(f)
  PROVE  Ties(f)
BY DEF TypeOK, Tie, Ties

(* The steps of resolveActor, seen from the records and rows. *)
LEMMA LookupRecords ==
  ASSUME TypeOK, Records, NEW f \in SignIns, Lookup(f)
  PROVE  LET r == signIn[f]  hit == cache[AccountOf[f]] IN
         /\ r.pc = "lookup" /\ r.session \in SignIns /\ signIn' \in [SignIns -> SignIn] /\ Ties(f)
         /\ \/ hit # None /\ Moves(f, "set", r.session, hit, None)
            \/ hit = None /\ Moves(f, "select", r.session, r.actor, r.source)
<1>1. signIn[f].pc = "lookup" /\ signIn[f].session \in SignIns
  BY Holds DEF Lookup, Handling, Resolving
<1>2. "set" \in PC /\ "select" \in PC /\ cache[AccountOf[f]] \in Optional(Actors)
  BY RecordTypes DEF PC, Handling, Resolving
<1> QED
  BY <1>1, <1>2, GotoRecords, TieRows DEF Lookup

LEMMA SelectRecords ==
  ASSUME TypeOK, Records, NEW f \in SignIns, Select(f)
  PROVE  LET r == signIn[f]  existing == owner[AccountOf[f]] IN
         /\ r.pc = "select" /\ r.session \in SignIns /\ signIn' \in [SignIns -> SignIn]
         /\ \/ existing # None /\ Moves(f, "remember", r.session, existing, None)
            \/ existing = None /\ Moves(f, "insertActor", r.session, r.actor, r.source)
<1>1. signIn[f].pc = "select" /\ signIn[f].session \in SignIns
  BY Holds DEF Select, Handling, Resolving
<1>2. "remember" \in PC /\ "insertActor" \in PC /\ owner[AccountOf[f]] \in Optional(Actors)
  BY RecordTypes DEF PC, Handling, Resolving
<1> QED
  BY <1>1, <1>2, GotoRecords DEF Select

LEMMA InsertActorRecords ==
  ASSUME TypeOK, Records, NEW f \in SignIns, InsertActor(f)
  PROVE  LET r == signIn[f] IN
         /\ r.pc = "insertActor" /\ r.session \in SignIns /\ signIn' \in [SignIns -> SignIn]
         /\ Moves(f, "insertAccount", r.session, f, None)
<1>1. signIn[f].pc = "insertActor" /\ signIn[f].session \in SignIns
  BY Holds DEF InsertActor, Handling, Resolving
<1>2. "insertAccount" \in PC /\ f \in Optional(Actors)
  BY DEF PC, Handling, Resolving, Optional, Actors
<1> QED
  BY <1>1, <1>2, GotoRecords DEF InsertActor

(* A row is inserted for the account of f, as its actor's. *)
Inserts(f) ==
  LET a == AccountOf[f] IN
  /\ owner[a] = None /\ signIn[f].actor \in actors
  /\ owner' \in [Accounts -> Optional(actors)]
  /\ \A x \in Accounts : owner'[x] = IF x = a THEN signIn[f].actor ELSE owner[x]

LEMMA InsertAccountRecords ==
  ASSUME TypeOK, Records, NEW f \in SignIns, InsertAccount(f)
  PROVE  LET r == signIn[f] IN
         /\ r.pc = "insertAccount" /\ r.session \in SignIns /\ signIn' \in [SignIns -> SignIn]
         /\ \/ Inserts(f) /\ Moves(f, "remember", r.session, r.actor, r.source)
            \/ owner' = owner /\ Becomes(f, "failed")
<1>1. signIn[f].pc = "insertAccount" /\ signIn[f].session \in SignIns
  BY Holds DEF InsertAccount, Handling, Resolving
<1>2. "remember" \in PC /\ "failed" \in PC
  BY DEF PC, Handling, Resolving
<1>3. CASE owner[AccountOf[f]] = None /\ signIn[f].actor \in actors
  <2>1. owner' = [owner EXCEPT ![AccountOf[f]] = signIn[f].actor] /\ Goto(f, "remember")
    BY <1>3 DEF InsertAccount
  <2>2. Inserts(f)
    BY <1>3, <2>1 DEF Inserts, TypeOK, Optional
  <2> QED
    BY <1>1, <1>2, <2>1, <2>2, GotoRecords
<1>4. CASE ~ (owner[AccountOf[f]] = None /\ signIn[f].actor \in actors)
  BY <1>1, <1>2, <1>4, OverRecords DEF InsertAccount
<1> QED
  BY <1>3, <1>4

LEMMA CacheActorRecords ==
  ASSUME TypeOK, Records, NEW f \in SignIns, CacheActor(f)
  PROVE  LET r == signIn[f] IN
         /\ r.session \in SignIns /\ signIn' \in [SignIns -> SignIn]
         /\ \/ r.pc = "remember" /\ Moves(f, "set", r.session, r.actor, r.source)
            \/ r.pc = "linkCache" /\ Moves(f, "respond", r.session, None, None)
         /\ cache' \in [Accounts -> Optional(Actors)]
         /\ \A x \in Accounts : cache'[x] = IF x = AccountOf[f] THEN r.actor ELSE cache[x]
<1>1. signIn[f].pc \in {"remember", "linkCache"} /\ signIn[f].session \in SignIns
  BY Holds DEF CacheActor, Handling, Resolving, Linking
<1>2. "set" \in PC /\ signIn[f].actor \in Optional(Actors)
  BY RecordTypes DEF PC, Handling, Resolving
<1>3. /\ cache' \in [Accounts -> Optional(Actors)]
      /\ \A x \in Accounts : cache'[x] = IF x = AccountOf[f] THEN signIn[f].actor ELSE cache[x]
  BY <1>2 DEF CacheActor, TypeOK
<1> QED
  BY <1>1, <1>2, <1>3, GotoRecords DEF CacheActor

LEMMA SetActorRecords ==
  ASSUME TypeOK, Records, NEW f \in SignIns, SetActor(f)
  PROVE  LET r == signIn[f]  s == signIn[f].session IN
         /\ r.pc = "set" /\ s \in SignIns /\ signIn' \in [SignIns -> SignIn]
         /\ session' \in [SignIns -> Session]
         /\ \/ /\ r.actor \in actors /\ Moves(f, "respond", s, None, None)
               /\ \A t \in SignIns :
                    /\ session'[t].status = session[t].status
                    /\ session'[t].actor = IF t = s THEN r.actor ELSE session[t].actor
               /\ orphaned' = IF r.actor \in mergedAway THEN orphaned \cup {s} ELSE orphaned
            \/ UNCHANGED <<session, orphaned>> /\ Becomes(f, "failed")
<1> DEFINE s == signIn[f].session
           a == signIn[f].actor
<1>1. signIn[f].pc = "set" /\ s \in SignIns
  BY Holds DEF SetActor, Handling, Resolving
<1>2. "failed" \in PC /\ a \in Optional(Actors)
  BY RecordTypes DEF PC
<1>3. CASE a \in actors
  <2>1. session' = [session EXCEPT ![s].actor = a] /\ Answer(f)
        /\ orphaned' = IF a \in mergedAway THEN orphaned \cup {s} ELSE orphaned
    BY <1>3 DEF SetActor
  <2>2. signIn' \in [SignIns -> SignIn] /\ Moves(f, "respond", s, None, None)
    BY <2>1, GotoRecords
  <2> HIDE DEF a, s
  <2>3. /\ session' \in [SignIns -> Session]
        /\ \A t \in SignIns :
             /\ session'[t].status = session[t].status
             /\ session'[t].actor = IF t = s THEN a ELSE session[t].actor
    BY <1>1, <1>2, <2>1, SetActorRows
  <2> QED
    BY <1>1, <1>3, <2>1, <2>2, <2>3 DEF a, s
<1>4. CASE a \notin actors
  <2>1. Over(f, "failed") /\ UNCHANGED <<session, orphaned>>
    BY <1>4 DEF SetActor
  <2>2. signIn' \in [SignIns -> SignIn] /\ Becomes(f, "failed") /\ session' \in [SignIns -> Session]
    BY <1>2, <2>1, OverRecords DEF TypeOK
  <2> QED
    BY <1>1, <2>1, <2>2
<1> QED
  BY <1>3, <1>4


(* The steps of linkProviderToActor. *)
LEMMA LinkSelectRecords ==
  ASSUME TypeOK, Records, NEW f \in SignIns, LinkSelect(f)
  PROVE  LET r == signIn[f]  source == owner[AccountOf[f]] IN
         /\ r.pc = "linkSelect" /\ r.session \in SignIns /\ signIn' \in [SignIns -> SignIn] /\ Ties(f)
         /\ \/ source = None /\ Moves(f, "linkInsert", r.session, r.actor, r.source)
               /\ UNCHANGED contested
            \/ source \in {r.actor} \cup Bots /\ Moves(f, "respond", r.session, None, None)
               /\ UNCHANGED contested
            \/ source \notin {None, r.actor} \cup Bots
               /\ Moves(f, "move", r.session, r.actor, source)
               /\ contested' = IF Rivals(f, source) = {} THEN contested
                               ELSE contested \cup Rivals(f, source) \cup {f}
<1>1. signIn[f].pc = "linkSelect" /\ signIn[f].session \in SignIns
  BY Holds DEF LinkSelect, Handling, Linking
<1>2. "linkInsert" \in PC /\ "move" \in PC /\ owner[AccountOf[f]] \in Optional(Actors)
      /\ signIn[f].actor \in Optional(Actors) /\ signIn[f].session \in Optional(SignIns)
  BY RecordTypes DEF PC, Handling, Linking, Merging
<1>3. Ties(f)
  BY <1>1, TieRows DEF LinkSelect
<1> QED
  BY <1>1, <1>2, <1>3, GotoRecords, HoldRecords DEF LinkSelect

LEMMA LinkInsertRecords ==
  ASSUME TypeOK, Records, NEW f \in SignIns, LinkInsert(f)
  PROVE  LET r == signIn[f] IN
         /\ r.pc = "linkInsert" /\ r.session \in SignIns /\ signIn' \in [SignIns -> SignIn]
         /\ \/ Inserts(f) /\ Moves(f, "linkCache", r.session, r.actor, r.source)
            \/ owner' = owner /\ Becomes(f, "failed")
<1>1. signIn[f].pc = "linkInsert" /\ signIn[f].session \in SignIns
  BY Holds DEF LinkInsert, Handling, Linking
<1>2. "linkCache" \in PC /\ "failed" \in PC
  BY DEF PC, Handling, Linking
<1>3. CASE owner[AccountOf[f]] = None /\ signIn[f].actor \in actors
  <2>1. owner' = [owner EXCEPT ![AccountOf[f]] = signIn[f].actor] /\ Goto(f, "linkCache")
    BY <1>3 DEF LinkInsert
  <2>2. Inserts(f)
    BY <1>3, <2>1 DEF Inserts, TypeOK, Optional
  <2> QED
    BY <1>1, <1>2, <2>1, <2>2, GotoRecords
<1>4. CASE ~ (owner[AccountOf[f]] = None /\ signIn[f].actor \in actors)
  BY <1>1, <1>2, <1>4, OverRecords DEF LinkInsert
<1> QED
  BY <1>3, <1>4

LEMMA MoveRecords ==
  ASSUME TypeOK, Records, NEW f \in SignIns, Move(f)
  PROVE  LET r == signIn[f]  source == signIn[f].source  target == signIn[f].actor IN
         /\ r.pc = "move" /\ r.session \in SignIns /\ source \in Actors /\ target \in Actors
         /\ signIn' \in [SignIns -> SignIn]
         /\ \/ /\ Moves(f, "delete", r.session, target, source)
               /\ \A x \in Accounts : owner'[x] = IF owner[x] = source THEN target ELSE owner[x]
               /\ owner' \in [Accounts -> Optional(actors)]
               /\ mergedAway' = mergedAway \cup {source}
               /\ orphaned' = orphaned \cup {s \in SignIns : session[s].actor = source}
            \/ UNCHANGED <<owner, mergedAway, orphaned>> /\ Becomes(f, "failed")
<1> DEFINE source == signIn[f].source
           target == signIn[f].actor
<1>1. signIn[f].pc = "move" /\ signIn[f].session \in SignIns
  BY Holds DEF Move, Handling, Linking, Merging
<1>2. "delete" \in PC /\ "failed" \in PC
  BY DEF PC, Handling, Linking, Merging
<1>3. source \in Actors /\ target \in Actors
  BY <1>1, RecordTypes DEF Records, Record, Linking, Merging, Optional
<1>4. CASE target \in actors \/ \A x \in Accounts : owner[x] # source
  <2>1. owner' = [x \in Accounts |-> IF owner[x] = source THEN target ELSE owner[x]]
        /\ mergedAway' = mergedAway \cup {source}
        /\ orphaned' = orphaned \cup {s \in SignIns : session[s].actor = source}
        /\ Goto(f, "delete")
    BY <1>4 DEF Move
  <2>2. signIn' \in [SignIns -> SignIn] /\ Moves(f, "delete", signIn[f].session, target, source)
    BY <1>2, <2>1, GotoRecords
  <2>3. owner' \in [Accounts -> Optional(actors)]
    BY <1>4, <2>1 DEF TypeOK, Optional
  <2> QED
    BY <1>1, <1>3, <2>1, <2>2, <2>3
<1>5. CASE ~ (target \in actors \/ \A x \in Accounts : owner[x] # source)
  BY <1>1, <1>2, <1>3, <1>5, OverRecords DEF Move
<1> QED
  BY <1>4, <1>5

LEMMA DeleteRecords ==
  ASSUME TypeOK, Records, NEW f \in SignIns, Delete(f)
  PROVE  LET r == signIn[f]  source == signIn[f].source IN
         /\ r.pc = "delete" /\ r.session \in SignIns /\ source \in Actors
         /\ signIn' \in [SignIns -> SignIn]
         /\ \/ /\ Moves(f, "clearCache", r.session, r.actor, source)
               /\ actors' = actors \ {source}
               /\ owner' = [x \in Accounts |-> IF owner[x] = source THEN None ELSE owner[x]]
               /\ session' \in [SignIns -> Session]
               /\ \A t \in SignIns :
                    /\ session'[t].status = session[t].status
                    /\ session'[t].actor =
                         IF session[t].actor = source THEN None ELSE session[t].actor
            \/ UNCHANGED rows /\ Becomes(f, "failed")
<1> DEFINE source == signIn[f].source
<1>1. signIn[f].pc = "delete" /\ signIn[f].session \in SignIns
  BY Holds DEF Delete, Handling, Linking, Merging
<1>2. "clearCache" \in PC /\ "failed" \in PC
  BY DEF PC, Handling, Linking
<1>3. source \in Actors
  BY <1>1, RecordTypes DEF Records, Record, Merging, Optional
<1>4. CASE /\ actors' = actors \ {source}
           /\ owner' = [x \in Accounts |-> IF owner[x] = source THEN None ELSE owner[x]]
           /\ session' = [s \in SignIns |-> [session[s] EXCEPT
                            !.actor = IF @ = source THEN None ELSE @]]
           /\ Goto(f, "clearCache")
  <2>1. signIn' \in [SignIns -> SignIn]
        /\ Moves(f, "clearCache", signIn[f].session, signIn[f].actor, source)
    BY <1>2, <1>4, GotoRecords
  <2> HIDE DEF source
  <2>2. /\ session' \in [SignIns -> Session]
        /\ \A t \in SignIns :
             /\ session'[t].status = session[t].status
             /\ session'[t].actor = IF session[t].actor = source THEN None ELSE session[t].actor
    BY <1>3, <1>4, DeleteRows
  <2> QED
    BY <1>1, <1>3, <1>4, <2>1, <2>2 DEF source
<1>5. CASE Over(f, "failed") /\ UNCHANGED rows
  BY <1>1, <1>2, <1>3, <1>5, OverRecords
<1> QED
  BY <1>4, <1>5 DEF Delete

LEMMA ClearCacheRecords ==
  ASSUME TypeOK, Records, NEW f \in SignIns, ClearCache(f)
  PROVE  /\ signIn[f].pc = "clearCache" /\ signIn[f].session \in SignIns
         /\ signIn' \in [SignIns -> SignIn]
         /\ Moves(f, "respond", signIn[f].session, None, None)
<1>1. signIn[f].pc = "clearCache" /\ signIn[f].session \in SignIns
  BY Holds DEF ClearCache, Handling, Linking
<1> QED
  BY <1>1, GotoRecords DEF ClearCache

-----------------------------------------------------------------------------
(* The steps at the edge of a callback, and what ends it. *)
LEMMA StartRecords ==
  ASSUME TypeOK, NEW f \in SignIns, Start(f)
  PROVE  signIn[f].pc = "new" /\ signIn' \in [SignIns -> SignIn] /\ Becomes(f, "away")
BY OverRecords DEF Start, PC

LEMMA CallbackRecords ==
  ASSUME TypeOK, NEW f \in SignIns, Callback(f)
  PROVE  /\ signIn[f].pc = "away" /\ signIn' \in [SignIns -> SignIn]
         /\ UNCHANGED <<rows, memory, cookies, merges, sitting, left, inFlight, disturbed, under>>
         /\ \/ Becomes(f, "refused") /\ split' = split /\ declined' = declined \cup {f}
            \/ StateOf(f) # f /\ Becomes(f, "refused") /\ UNCHANGED <<declined, split>>
            \/ StateOf(f) = f /\ Send(f) /\ UNCHANGED declined
            \/ Becomes(f, "failed") /\ UNCHANGED <<declined, split>>
<1>1. "refused" \in PC /\ "failed" \in PC
  BY DEF PC
<1>2. UNCHANGED <<rows, memory, cookies, merges, sitting, left, inFlight, disturbed, under>>
      /\ signIn[f].pc = "away"
  BY DEF Callback
<1> QED
  BY <1>1, <1>2, OverRecords, SendRecords DEF Callback

Reuse(f) ==
  LET s == signIn[f].cookie IN
  /\ s \in SignIns /\ session[s].status = "live" /\ UNCHANGED <<session, split>>
  /\ Moves(f, IF session[s].actor = None THEN "lookup" ELSE "linkSelect",
           s, session[s].actor, None)

Creates(f) ==
  /\ ~ (signIn[f].cookie \in SignIns /\ session[signIn[f].cookie].status = "live")
  /\ Moves(f, "lookup", f, None, None)
  /\ session'[f].status = "live" /\ session'[f].actor = None
  /\ \A t \in SignIns : t # f => session'[t] = session[t]
  /\ split' = IF Beside(f) = {} THEN split ELSE split \cup Beside(f) \cup {f}

LEMMA ReadRecords ==
  ASSUME TypeOK, NEW f \in SignIns, ReadSession(f)
  PROVE  /\ signIn[f].pc = "read" /\ signIn' \in [SignIns -> SignIn]
         /\ session' \in [SignIns -> Session]
         /\ Reuse(f) \/ Creates(f)
<1> DEFINE s == signIn[f].cookie
           pc == IF session[s].actor = None THEN "lookup" ELSE "linkSelect"
<1>1. /\ signIn[f].pc = "read" /\ s \in Optional(SignIns)
      /\ "lookup" \in PC /\ "linkSelect" \in PC /\ None \in Optional(Actors)
      /\ f \in Optional(SignIns) /\ None \notin SignIns
  BY RecordTypes DEF ReadSession, PC, Handling, Resolving, Linking, Optional
<1>2. CASE s = None \/ session[s].status # "live"
  <2>1. CreateSession(f)
    BY <1>2 DEF ReadSession
  <2>2. session' = [session EXCEPT ![f] = [status |-> "live", actor |-> None]]
        /\ Hold(f, "lookup", f, None, None)
        /\ split' = IF Beside(f) = {} THEN split ELSE split \cup Beside(f) \cup {f}
    BY <2>1 DEF CreateSession
  <2>3. signIn' \in [SignIns -> SignIn] /\ Moves(f, "lookup", f, None, None)
    BY <1>1, <2>2, HoldRecords
  <2>4. [status |-> "live", actor |-> None] \in Session
    BY DEF Session, Optional
  <2>5. session' \in [SignIns -> Session] /\ session'[f].status = "live"
        /\ session'[f].actor = None /\ \A t \in SignIns : t # f => session'[t] = session[t]
    BY <2>2, <2>4 DEF TypeOK
  <2> QED
    BY <1>1, <1>2, <2>2, <2>3, <2>5 DEF Creates
<1>3. CASE ~ (s = None \/ session[s].status # "live")
  <2>1. s \in SignIns /\ session[s].actor \in Optional(Actors)
        /\ s \in Optional(SignIns)
    BY <1>1, <1>3, RecordTypes DEF Optional
  <2>2. UseSession(f, s)
    BY <1>3 DEF ReadSession
  <2>3. Hold(f, pc, s, session[s].actor, None) /\ UNCHANGED <<session, split>>
        /\ session[s].status = "live"
    BY <2>2 DEF UseSession
  <2>4. pc \in PC
    BY <1>1
  <2> HIDE DEF pc
  <2>5. signIn' \in [SignIns -> SignIn] /\ Moves(f, pc, s, session[s].actor, None)
    BY <1>1, <2>1, <2>3, <2>4, HoldRecords
  <2>6. session' \in [SignIns -> Session]
    BY <2>3 DEF TypeOK
  <2> QED
    BY <1>1, <2>1, <2>3, <2>5, <2>6 DEF Reuse, pc
<1> QED
  BY <1>2, <1>3

LEMMA EndRecords ==
  ASSUME TypeOK, NEW f \in SignIns
  PROVE  /\ Receive(f) => signIn' \in [SignIns -> SignIn] /\ Becomes(f, "done")
         /\ Throw(f) => signIn' \in [SignIns -> SignIn] /\ Becomes(f, "failed")
<1>1. "done" \in PC /\ "failed" \in PC
  BY DEF PC
<1> QED
  BY <1>1, OverRecords DEF Receive, Throw

LEMMA CrashRecords ==
  ASSUME TypeOK, Crash
  PROVE  /\ signIn' \in [SignIns -> SignIn]
         /\ \A g \in SignIns : \/ signIn'[g] = signIn[g]
                               \/ /\ signIn[g].pc \in Handling /\ signIn'[g] = Fresh("failed")
                                  /\ signIn'[g].pc = "failed" /\ signIn'[g].session = None
<1>1. Fresh("failed") \in SignIn /\ Fresh("failed").pc = "failed" /\ Fresh("failed").session = None
  BY DEF Fresh, SignIn, Optional, PC
<1> QED
  BY <1>1 DEF Crash, TypeOK

LEMMA ExpireRecords ==
  ASSUME TypeOK, NEW s \in SignIns, ExpireSession(s)
  PROVE  /\ session' \in [SignIns -> Session]
         /\ session[s].status = "live" /\ session'[s].status = "expired"
         /\ \A t \in SignIns :
              /\ session'[t].actor = session[t].actor
              /\ t # s => session'[t] = session[t]
<1> DEFINE r == [session[s] EXCEPT !.status = "expired"]
<1>1. session' = [session EXCEPT ![s] = r] /\ session[s].status = "live"
  BY DEF ExpireSession
<1>2. session \in [SignIns -> Session] /\ session[s] \in Session
  BY DEF TypeOK
<1>3. r \in Session /\ r.status = "expired" /\ r.actor = session[s].actor
  BY <1>2 DEF Session
<1> HIDE DEF r
<1> QED
  BY <1>1, <1>2, <1>3

-----------------------------------------------------------------------------
(* The steps inside a callback, those of messages and a crash, which leave
   the browsers alone ... *)
Inner ==
  \/ \E f \in SignIns : Resolve(f) \/ Link(f) \/ Throw(f)
  \/ \E a \in Accounts : Hear(a) \/ Remember(a)
  \/ Crash
  \/ UNCHANGED vars

(* ... and make only this of a sign-in ... *)
Drifts(g) ==
  \/ signIn'[g] = signIn[g]
  \/ signIn[g].pc \in Handling /\ signIn'[g] = Fresh("failed") /\ signIn'[g].pc = "failed"
     /\ signIn'[g].session = None
  \/ /\ signIn[g].pc \in Handling \ {"read"} /\ signIn'[g].pc \in Handling \ {"read"}
     /\ signIn'[g].cookie = signIn[g].cookie /\ signIn'[g].session = signIn[g].session
     /\ signIn'[g].before = signIn[g].before
     /\ signIn'[g].pc \in Linking => signIn'[g].actor # None
     /\ signIn'[g].pc \in Merging => signIn'[g].source # None

(* ... and of the rows. *)
Still ==
  /\ UNCHANGED <<cookie, state, sitting, split, left, inFlight, disturbed, declined>>
  /\ \A s \in SignIns : session'[s].status = session[s].status /\ under[s] \subseteq under'[s]

LEMMA Kinds ==
  ASSUME [Next]_vars
  PROVE  \/ \E f \in SignIns : \/ Start(f) \/ Callback(f) \/ ReadSession(f) \/ Receive(f)
                               \/ ExpireState(f) \/ ExpireSession(f)
         \/ \E b \in Browsers : Logout(b)
         \/ Inner
BY DEF Next, Handle, Inner

LEMMA FailedRecord ==
  ASSUME NEW f, signIn'[f] = Fresh("failed")
  PROVE  signIn'[f].pc = "failed" /\ signIn'[f].session = None
BY DEF Fresh

LEMMA FailsDrift ==
  ASSUME NEW f \in SignIns, signIn[f].pc \in Handling, Becomes(f, "failed")
  PROVE  \A g \in SignIns : Drifts(g)
BY DEF Becomes, Drifts

LEMMA ResolveDrift ==
  ASSUME TypeOK, Records, NEW f \in SignIns, Resolve(f)
  PROVE  signIn' \in [SignIns -> SignIn] /\ \A g \in SignIns : Drifts(g)
<1> DEFINE Between == Handling \ {"read"}
<1>0. /\ {"lookup", "select", "insertActor", "insertAccount", "remember", "set", "linkCache",
          "respond"} \subseteq Between
      /\ Between \subseteq Handling
      /\ {"select", "insertActor", "insertAccount", "remember", "set", "respond"}
           \cap Linking = {}
      /\ Merging \subseteq Linking
  BY DEF Handling, Resolving, Linking, Merging
<1> HIDE DEF Between
<1>1. CASE Lookup(f)
  BY <1>0, <1>1, LookupRecords DEF Between, Moves, Drifts
<1>2. CASE Select(f)
  BY <1>0, <1>2, SelectRecords DEF Between, Moves, Drifts
<1>3. CASE InsertActor(f)
  BY <1>0, <1>3, InsertActorRecords DEF Between, Moves, Drifts
<1>4. CASE InsertAccount(f)
  BY <1>0, <1>4, InsertAccountRecords, FailsDrift DEF Between, Moves, Drifts
<1>5. CASE CacheActor(f)
  BY <1>0, <1>5, CacheActorRecords DEF Between, Moves, Drifts
<1>6. CASE SetActor(f)
  BY <1>0, <1>6, SetActorRecords, FailsDrift DEF Between, Moves, Drifts
<1> QED
  BY <1>1, <1>2, <1>3, <1>4, <1>5, <1>6 DEF Resolve

LEMMA LinkDrift ==
  ASSUME TypeOK, Records, NEW f \in SignIns, Link(f)
  PROVE  signIn' \in [SignIns -> SignIn] /\ \A g \in SignIns : Drifts(g)
<1> DEFINE Between == Handling \ {"read"}
<1>0. /\ {"linkSelect", "linkInsert", "linkCache", "move", "delete", "clearCache",
          "respond"} \subseteq Between
      /\ Between \subseteq Handling
      /\ "respond" \notin Linking
      /\ {"linkInsert", "linkCache", "clearCache", "respond"} \cap Merging = {}
      /\ {"linkSelect", "linkInsert", "move", "delete"} \subseteq Linking
      /\ {"move", "delete"} \subseteq Merging /\ Merging \subseteq Linking
  BY DEF Handling, Resolving, Linking, Merging
<1>00. /\ signIn[f].pc \in Linking => signIn[f].actor # None
       /\ signIn[f].pc \in Merging => signIn[f].source # None
  BY DEF Records, Record
<1> HIDE DEF Between
<1>1. CASE LinkSelect(f)
  BY <1>0, <1>00, <1>1, LinkSelectRecords DEF Between, Moves, Drifts
<1>2. CASE LinkInsert(f)
  BY <1>0, <1>00, <1>2, LinkInsertRecords, FailsDrift DEF Between, Moves, Drifts
<1>3. CASE Move(f)
  BY <1>0, <1>00, <1>3, MoveRecords, FailsDrift DEF Between, Moves, Drifts
<1>4. CASE Delete(f)
  BY <1>0, <1>00, <1>4, DeleteRecords, FailsDrift DEF Between, Moves, Drifts
<1>5. CASE ClearCache(f)
  BY <1>0, <1>5, ClearCacheRecords DEF Between, Moves, Drifts
<1> QED
  BY <1>1, <1>2, <1>3, <1>4, <1>5 DEF Link

LEMMA InnerDrift ==
  ASSUME TypeOK, Records, Inner
  PROVE  signIn' \in [SignIns -> SignIn] /\ \A g \in SignIns : Drifts(g)
<1>1. ASSUME NEW f \in SignIns, Throw(f)
      PROVE  signIn' \in [SignIns -> SignIn] /\ \A g \in SignIns : Drifts(g)
  BY <1>1, EndRecords, FailsDrift DEF Throw
<1>2. CASE Crash
  BY <1>2, CrashRecords DEF Drifts
<1>3. ASSUME signIn' = signIn
      PROVE  signIn' \in [SignIns -> SignIn] /\ \A g \in SignIns : Drifts(g)
  BY <1>3 DEF TypeOK, Drifts
<1>4. ASSUME NEW a \in Accounts, Hear(a) \/ Remember(a) PROVE signIn' = signIn
  BY <1>4 DEF Hear, Remember
<1>5. ASSUME UNCHANGED vars PROVE signIn' = signIn
  BY <1>5 DEF vars
<1> QED
  BY <1>1, <1>2, <1>3, <1>4, <1>5, ResolveDrift, LinkDrift DEF Inner

LEMMA InnerStill ==
  ASSUME TypeOK, Records, Inner
  PROVE  Still
<1> DEFINE Seen == UNCHANGED <<cookie, state, sitting, split, left, inFlight, disturbed, declined>>
           Rows == \A s \in SignIns : session'[s].status = session[s].status
           Grown == \A s \in SignIns : under[s] \subseteq under'[s]
<1>1. Seen
  BY DEF Inner, Resolve, Lookup, Select, InsertActor, InsertAccount, CacheActor, SetActor,
     Link, LinkSelect, LinkInsert, Move, Delete, ClearCache, Throw, Hear, Remember, Crash,
     cookies, visits, vars
<1>2. ASSUME NEW f \in SignIns, Lookup(f) \/ LinkSelect(f) PROVE Rows /\ Grown
  <2>1. session' = session
    BY <1>2 DEF Lookup, LinkSelect, rows
  <2>2. Ties(f)
    BY <1>2, LookupRecords, LinkSelectRecords
  <2> QED
    BY <2>1, <2>2 DEF Ties
<1>3. ASSUME NEW f \in SignIns, SetActor(f) \/ Delete(f) PROVE Rows /\ Grown
  <2>1. Rows
    BY <1>3, SetActorRecords, DeleteRecords DEF rows
  <2>2. under' = under
    BY <1>3 DEF SetActor, Delete
  <2> QED
    BY <2>1, <2>2
<1>4. ASSUME UNCHANGED <<session, under>> PROVE Rows /\ Grown
  BY <1>4
<1>5. ASSUME NEW f \in SignIns,
             \/ Select(f) \/ InsertActor(f) \/ InsertAccount(f) \/ CacheActor(f)
             \/ LinkInsert(f) \/ Move(f) \/ ClearCache(f) \/ Throw(f)
      PROVE  UNCHANGED <<session, under>>
  BY <1>5 DEF Select, InsertActor, InsertAccount, CacheActor, LinkInsert, Move, ClearCache,
     Throw, rows
<1>6. ASSUME NEW a \in Accounts, Hear(a) \/ Remember(a) PROVE UNCHANGED <<session, under>>
  BY <1>6 DEF Hear, Remember, rows
<1>7. ASSUME Crash \/ UNCHANGED vars PROVE UNCHANGED <<session, under>>
  BY <1>7 DEF Crash, vars, rows
<1> HIDE DEF Seen, Rows, Grown
<1>8. Rows /\ Grown
  BY <1>2, <1>3, <1>4, <1>5, <1>6, <1>7 DEF Inner, Resolve, Link
<1> QED
  BY <1>1, <1>8 DEF Still, Seen, Rows, Grown

-----------------------------------------------------------------------------
LEMMA TypeRows ==
  ASSUME TypeOK, Records, [Next]_vars
  PROVE  /\ actors' \subseteq Actors /\ owner' \in [Accounts -> Optional(actors')]
         /\ session' \in [SignIns -> Session]
         /\ \A s \in SignIns : session'[s].actor \in Optional(actors')
<1> DEFINE Owners == actors \subseteq Actors /\ owner \in [Accounts -> Optional(actors)]
           Actings == \A s \in SignIns : session[s].actor \in Optional(actors)
           Rows == Owners /\ session \in [SignIns -> Session] /\ Actings
<1>0. Rows
  BY DEF TypeOK
<1>1. ASSUME NEW f \in SignIns, InsertActor(f) PROVE Rows'
  BY <1>0, <1>1 DEF InsertActor, Actors, Optional
<1>2. ASSUME NEW f \in SignIns, InsertAccount(f) \/ LinkInsert(f) PROVE Rows'
  <2>1. UNCHANGED <<actors, session>>
    BY <1>2 DEF InsertAccount, LinkInsert
  <2> QED
    BY <1>0, <1>2, <2>1, InsertAccountRecords, LinkInsertRecords DEF Inserts
<1>3. ASSUME NEW f \in SignIns, Move(f) PROVE Rows'
  <2>1. UNCHANGED <<actors, session>>
    BY <1>3 DEF Move
  <2> QED
    BY <1>0, <1>3, <2>1, MoveRecords
<1>4. ASSUME NEW f \in SignIns, Delete(f) PROVE Rows'
  BY <1>0, <1>4, DeleteRecords DEF rows, Optional
<1>5. ASSUME NEW f \in SignIns, SetActor(f) PROVE Rows'
  <2>1. UNCHANGED <<actors, owner>>
    BY <1>5 DEF SetActor
  <2> QED
    BY <1>0, <1>5, <2>1, SetActorRecords DEF Optional
<1>6. ASSUME NEW a \in Accounts, Hear(a) PROVE Rows'
  BY <1>0, <1>6 DEF Hear, Actors, Optional
<1>7. ASSUME NEW f \in SignIns, ReadSession(f) PROVE Rows'
  <2>1. UNCHANGED <<actors, owner>>
    BY <1>7 DEF ReadSession
  <2> QED
    BY <1>0, <1>7, <2>1, ReadRecords DEF Reuse, Creates, Optional
<1>8. ASSUME NEW s \in SignIns, ExpireSession(s) PROVE Rows'
  <2>1. UNCHANGED <<actors, owner>>
    BY <1>8 DEF ExpireSession
  <2> QED
    BY <1>0, <1>8, <2>1, ExpireRecords
<1>9. ASSUME UNCHANGED rows PROVE Rows'
  BY <1>0, <1>9 DEF rows
<1>10. ASSUME NEW f \in SignIns,
             \/ Start(f) \/ Callback(f) \/ Lookup(f) \/ Select(f) \/ CacheActor(f)
             \/ LinkSelect(f) \/ ClearCache(f) \/ Receive(f) \/ Throw(f) \/ ExpireState(f)
      PROVE  UNCHANGED rows
  BY <1>10 DEF Start, Callback, Lookup, Select, CacheActor, LinkSelect, ClearCache, Receive, Throw, ExpireState
<1>11. ASSUME NEW b, Logout(b) \/ Remember(b) \/ Crash \/ UNCHANGED vars PROVE UNCHANGED rows
  BY <1>11 DEF Logout, Remember, Crash, vars
<1> HIDE DEF Rows
<1>12. Rows'
  BY <1>1, <1>2, <1>3, <1>4, <1>5, <1>6, <1>7, <1>8, <1>9, <1>10, <1>11
     DEF Next, Handle, Resolve, Link
<1> QED
  BY <1>12 DEF Rows

LEMMA TypeMemory ==
  ASSUME TypeOK, Records, [Next]_vars
  PROVE  cache' \in [Accounts -> Optional(Actors)] /\ heard' \in [Accounts -> Optional(Actors)]
<1> DEFINE Memory == cache \in [Accounts -> Optional(Actors)] /\ heard \in [Accounts -> Optional(Actors)]
<1>0. Memory
  BY DEF TypeOK
<1>1. ASSUME NEW f \in SignIns, CacheActor(f) PROVE Memory'
  <2>1. heard' = heard
    BY <1>1 DEF CacheActor
  <2> QED
    BY <1>0, <1>1, <2>1, CacheActorRecords
<1>2. ASSUME NEW a \in Accounts, Hear(a) PROVE Memory'
  <2>1. owner[a] \in Optional(Actors) /\ a \in Optional(Actors)
    BY DEF TypeOK, Optional, Actors
  <2> QED
    BY <1>0, <1>2, <2>1 DEF Hear
<1>3. ASSUME NEW a \in Accounts, Remember(a) PROVE Memory'
  BY <1>0, <1>3 DEF Remember, Optional
<1>4. ASSUME NEW f, ClearCache(f) \/ Crash PROVE Memory'
  BY <1>0, <1>4 DEF ClearCache, Crash, Optional
<1>5. ASSUME UNCHANGED memory PROVE Memory'
  BY <1>0, <1>5 DEF memory
<1>6. ASSUME NEW f \in SignIns,
             \/ Start(f) \/ Callback(f) \/ ReadSession(f) \/ Lookup(f) \/ Select(f)
             \/ InsertActor(f) \/ InsertAccount(f) \/ SetActor(f) \/ LinkSelect(f)
             \/ LinkInsert(f) \/ Move(f) \/ Delete(f) \/ Receive(f) \/ Throw(f)
             \/ ExpireState(f) \/ ExpireSession(f)
      PROVE  UNCHANGED memory
  BY <1>6 DEF Start, Callback, ReadSession, Lookup, Select, InsertActor, InsertAccount,
     SetActor, LinkSelect, LinkInsert, Move, Delete, Receive, Throw, ExpireState, ExpireSession
<1>7. ASSUME NEW b, Logout(b) \/ UNCHANGED vars PROVE UNCHANGED memory
  BY <1>7 DEF Logout, vars
<1> HIDE DEF Memory
<1>8. Memory'
  BY <1>1, <1>2, <1>3, <1>4, <1>5, <1>6, <1>7 DEF Next, Handle, Resolve, Link
<1> QED
  BY <1>8 DEF Memory

LEMMA TypeRecords ==
  ASSUME TypeOK, Records, [Next]_vars
  PROVE  signIn' \in [SignIns -> SignIn]
<1>1. signIn \in [SignIns -> SignIn]
  BY DEF TypeOK
<1> QED
  BY <1>1, Kinds, StartRecords, CallbackRecords, ReadRecords, EndRecords, InnerDrift
     DEF ExpireState, ExpireSession, Logout

(* Merges add only actors, sessions and sign-ins to what is told of them,
   a tie only the sign-in's account. *)
LEMMA TypeMerges ==
  ASSUME TypeOK, Records, [Next]_vars
  PROVE  /\ mergedAway' \subseteq Actors /\ orphaned' \subseteq SignIns
         /\ contested' \subseteq SignIns /\ under' \in [SignIns -> SUBSET Accounts]
<1> DEFINE Told == /\ mergedAway \subseteq Actors /\ orphaned \subseteq SignIns
                   /\ contested \subseteq SignIns /\ under \in [SignIns -> SUBSET Accounts]
<1>0. Told
  BY DEF TypeOK
<1>1. ASSUME NEW f \in SignIns, Lookup(f) \/ LinkSelect(f) PROVE Told'
  <2>1. Ties(f)
    BY <1>1, LookupRecords, LinkSelectRecords
  <2>2. UNCHANGED <<mergedAway, orphaned>>
    BY <1>1 DEF Lookup, LinkSelect, merges
  <2>3. contested' \subseteq SignIns
    BY <1>0, <1>1 DEF Lookup, LinkSelect, merges, Rivals
  <2> QED
    BY <1>0, <2>1, <2>2, <2>3 DEF Ties
<1>2. ASSUME NEW f \in SignIns, SetActor(f) PROVE Told'
  <2>1. UNCHANGED <<mergedAway, contested, under>>
    BY <1>2 DEF SetActor
  <2> QED
    BY <1>0, <1>2, <2>1, SetActorRecords
<1>3. ASSUME NEW f \in SignIns, Move(f) PROVE Told'
  <2>1. UNCHANGED <<contested, under>>
    BY <1>3 DEF Move
  <2> QED
    BY <1>0, <1>3, <2>1, MoveRecords
<1>4. ASSUME UNCHANGED <<merges, under>> PROVE Told'
  BY <1>0, <1>4 DEF merges
<1>5. ASSUME NEW f \in SignIns,
             \/ Start(f) \/ Callback(f) \/ ReadSession(f) \/ Select(f) \/ InsertActor(f)
             \/ InsertAccount(f) \/ CacheActor(f) \/ LinkInsert(f) \/ Delete(f) \/ ClearCache(f)
             \/ Receive(f) \/ Throw(f) \/ ExpireState(f) \/ ExpireSession(f)
      PROVE  UNCHANGED <<merges, under>>
  BY <1>5 DEF Start, Callback, ReadSession, Select, InsertActor, InsertAccount, CacheActor,
     LinkInsert, Delete, ClearCache, Receive, Throw, ExpireState, ExpireSession
<1>6. ASSUME NEW b, Logout(b) \/ Hear(b) \/ Remember(b) \/ Crash \/ UNCHANGED vars
      PROVE  UNCHANGED <<merges, under>>
  BY <1>6 DEF Logout, Hear, Remember, Crash, vars
<1> HIDE DEF Told
<1>7. Told'
  BY <1>1, <1>2, <1>3, <1>4, <1>5, <1>6 DEF Next, Handle, Resolve, Link
<1> QED
  BY <1>7 DEF Told

LEMMA TypeVisits ==
  ASSUME TypeOK, Records, [Next]_vars
  PROVE  /\ cookie' \in [Browsers -> Optional(SignIns)]
         /\ state' \in [Browsers -> [Providers -> Optional(SignIns)]]
         /\ sitting' \in [Browsers -> SUBSET SignIns] /\ left' \in [Browsers -> SUBSET SignIns]
         /\ split' \subseteq SignIns /\ inFlight' \subseteq SignIns
         /\ disturbed' \subseteq SignIns /\ declined' \subseteq SignIns
<1> DEFINE Visits == /\ cookie \in [Browsers -> Optional(SignIns)]
                     /\ state \in [Browsers -> [Providers -> Optional(SignIns)]]
                     /\ sitting \in [Browsers -> SUBSET SignIns]
                     /\ left \in [Browsers -> SUBSET SignIns]
                     /\ split \subseteq SignIns /\ inFlight \subseteq SignIns
                     /\ disturbed \subseteq SignIns /\ declined \subseteq SignIns
<1>0. Visits
  BY DEF TypeOK
<1>00. \A f \in SignIns : BrowserOf[f] \in Browsers /\ ProviderOf[f] \in Providers
         /\ StateOf(f) \in Optional(SignIns) /\ signIn[f].session \in Optional(SignIns)
  BY <1>0, RecordTypes DEF StateOf
<1>1. ASSUME NEW f \in SignIns, Start(f) PROVE Visits'
  BY <1>0, <1>00, <1>1 DEF Start, SetState, Optional
<1>2. ASSUME NEW f \in SignIns, Callback(f) PROVE Visits'
  <2>1. /\ split' \in {split, split \cup {f}}
        /\ declined' \in {declined, declined \cup {f}}
    BY <1>2, CallbackRecords DEF Send
  <2> QED
    BY <1>0, <1>2, <2>1 DEF Callback, cookies
<1>3. ASSUME NEW f \in SignIns, ReadSession(f) PROVE Visits'
  <2>1. split' \in {split, split \cup Beside(f) \cup {f}}
    BY <1>3, ReadRecords DEF Reuse, Creates
  <2>2. Beside(f) \subseteq SignIns
    BY <1>0, <1>00 DEF Beside, InProgress, Of
  <2> QED
    BY <1>0, <1>3, <2>1, <2>2 DEF ReadSession, cookies
<1>4. ASSUME NEW f \in SignIns, Receive(f) PROVE Visits'
  <2>1. cookie' \in [Browsers -> Optional(SignIns)]
        /\ state' \in [Browsers -> [Providers -> Optional(SignIns)]]
    BY <1>0, <1>00, <1>4 DEF Receive, SetState, Optional
  <2>2. sitting' \in [Browsers -> SUBSET SignIns] /\ left' \in [Browsers -> SUBSET SignIns]
    BY <1>0, <1>4 DEF Receive
  <2>3. disturbed' \subseteq SignIns
    BY <1>0, <1>00, <1>4 DEF Receive, Optional
  <2> QED
    BY <1>0, <1>4, <2>1, <2>2, <2>3 DEF Receive
<1>5. ASSUME NEW f \in SignIns, ExpireState(f) PROVE Visits'
  BY <1>0, <1>00, <1>5 DEF ExpireState, SetState, Optional
<1>6. ASSUME NEW s \in SignIns, ExpireSession(s) PROVE Visits'
  BY <1>0, <1>6 DEF ExpireSession, cookies
<1>7. ASSUME NEW b \in Browsers, Logout(b) PROVE Visits'
  <2>1. cookie' \in [Browsers -> Optional(SignIns)] /\ cookie[b] \in SignIns
        /\ inFlight' \subseteq SignIns
    BY <1>0, <1>7 DEF Logout, Optional, InProgress, Of
  <2> QED
    BY <1>0, <1>7, <2>1 DEF Logout
<1>8. ASSUME Still PROVE Visits'
  BY <1>0, <1>8 DEF Still
<1> HIDE DEF Visits
<1>9. Visits'
  BY <1>1, <1>2, <1>3, <1>4, <1>5, <1>6, <1>7, <1>8, Kinds, InnerStill
<1> QED
  BY <1>9 DEF Visits

LEMMA TypeStep ==
  ASSUME TypeOK, Records, [Next]_vars
  PROVE  TypeOK'
<1>1. ASSUME NEW f \in SignIns, Handle(f) \/ Receive(f) \/ Throw(f) \/ ExpireState(f) \/ ExpireSession(f)
      PROVE  Event \/ events' = events
  <2>1. Resolve(f) => events' = events
    BY DEF Resolve, Lookup, Select, InsertActor, InsertAccount, CacheActor, SetActor
  <2>2. Link(f) => events' = events
    BY DEF Link, LinkSelect, LinkInsert, Move, Delete, ClearCache
  <2>3. Start(f) \/ ReadSession(f) \/ Receive(f) => events' = events
    BY DEF Start, ReadSession, Receive
  <2>4. Callback(f) \/ Throw(f) \/ ExpireState(f) \/ ExpireSession(f) => Event \/ events' = events
    BY DEF Callback, Throw, ExpireState, ExpireSession
  <2> QED
    BY <1>1, <2>1, <2>2, <2>3, <2>4 DEF Handle
<1>2. ASSUME NEW b, Logout(b) \/ Hear(b) \/ Remember(b) \/ Crash \/ UNCHANGED vars
      PROVE  Event \/ events' = events
  BY <1>2 DEF Logout, Hear, Remember, Crash, vars
<1>3. Event \/ events' = events
  BY <1>1, <1>2 DEF Next
<1>4. events' \in 0 .. MaxEvents
  BY <1>3 DEF TypeOK, Event
<1> QED
  BY <1>4, TypeRows, TypeMemory, TypeRecords, TypeMerges, TypeVisits DEF TypeOK

-----------------------------------------------------------------------------
(* A sign-in that is over stays as it is, a row that is there stays there,
   and does not come back to life; ties stay. *)
Grows(g) ==
  /\ signIn[g].pc = "done" => signIn'[g] = signIn[g]
  /\ session[g].status # "absent" => session'[g].status # "absent"
  /\ session[g].status # "absent" /\ session'[g].status = "live" => session[g].status = "live"
  /\ under[g] \subseteq under'[g]

LEMMA RowsGrow ==
  ASSUME TypeOK, Records, Unmade, [Next]_vars
  PROVE  \A g \in SignIns : Grows(g)
<1> SUFFICES ASSUME NEW g \in SignIns PROVE Grows(g)
  OBVIOUS
<1> USE DEF Grows
<1>1. ASSUME NEW f \in SignIns, Start(f) PROVE Grows(g)
  BY <1>1, StartRecords DEF Start, Becomes, rows
<1>2. ASSUME NEW f \in SignIns, Callback(f) PROVE Grows(g)
  BY <1>2, CallbackRecords, SendRecords DEF Becomes, rows
<1>3. ASSUME NEW f \in SignIns, ReadSession(f) PROVE Grows(g)
  BY <1>3, ReadRecords DEF ReadSession, Unmade, Moves, Reuse, Creates
<1>4. ASSUME NEW f \in SignIns, Receive(f) PROVE Grows(g)
  BY <1>4, EndRecords DEF Receive, Becomes, rows, Handling
<1>5. ASSUME NEW f \in SignIns, ExpireState(f) PROVE Grows(g)
  BY <1>5 DEF ExpireState, rows
<1>6. ASSUME NEW s \in SignIns, ExpireSession(s) PROVE Grows(g)
  BY <1>6, ExpireRecords DEF ExpireSession
<1>7. ASSUME NEW b \in Browsers, Logout(b) PROVE Grows(g)
  BY <1>7 DEF Logout, rows
<1>8. CASE Inner
  BY <1>8, InnerDrift, InnerStill DEF Drifts, Still, Handling, Resolving, Linking, Merging
<1> QED
  BY <1>1, <1>2, <1>3, <1>4, <1>5, <1>6, <1>7, <1>8, Kinds

LEMMA EstablishedStays ==
  ASSUME TypeOK, Records, Unmade, [Next]_vars, NEW s, NEW b, Established(s, b)
  PROVE  Established(s, b)'
BY RowsGrow DEF Established, Grows

(* Where what a sign-in holds comes from. *)
Source(g) ==
  /\ signIn'[g].before \in {{}, signIn[g].before, sitting[BrowserOf[g]]}
  /\ signIn'[g].cookie \in {None, signIn[g].cookie, cookie[BrowserOf[g]]}
  /\ \/ signIn'[g].session \in {None, signIn[g].session, signIn[g].cookie}
     \/ signIn'[g].session = g /\ session'[g].status # "absent"

LEMMA Sources ==
  ASSUME TypeOK, Records, [Next]_vars
  PROVE  \A g \in SignIns : Source(g)
<1> SUFFICES ASSUME NEW g \in SignIns PROVE Source(g)
  OBVIOUS
<1> USE DEF Source
<1>1. ASSUME NEW f \in SignIns, Start(f) PROVE Source(g)
  BY <1>1, StartRecords DEF Becomes
<1>2. ASSUME NEW f \in SignIns, Callback(f) PROVE Source(g)
  BY <1>2, CallbackRecords, SendRecords DEF Becomes
<1>3. ASSUME NEW f \in SignIns, ReadSession(f) PROVE Source(g)
  BY <1>3, ReadRecords DEF Reuse, Creates, Moves
<1>4. ASSUME NEW f \in SignIns, Receive(f) PROVE Source(g)
  BY <1>4, EndRecords DEF Becomes
<1>5. CASE signIn' = signIn
  BY <1>5
<1>6. CASE Inner
  BY <1>6, InnerDrift DEF Drifts, Fresh
<1> HIDE DEF Source
<1> QED
  BY <1>1, <1>2, <1>3, <1>4, <1>5, <1>6, Kinds DEF ExpireState, ExpireSession, Logout

LEMMA RecordsStep ==
  ASSUME TypeOK, Records, Unmade, Sessions, [Next]_vars
  PROVE  Records'
<1>1. \A f \in SignIns : Record(f)
  BY DEF Records
<1>0. Merging \subseteq Linking /\ Linking \subseteq Handling
      /\ {"lookup", "linkSelect"} \subseteq Handling \ ({"read"} \cup Merging)
      /\ "linkSelect" \in Linking /\ "lookup" \notin Linking
      /\ {"read", "respond"} \subseteq Handling \ Linking
      /\ {"new", "away", "done", "refused", "failed"} \cap Handling = {}
  BY DEF Handling, Resolving, Linking, Merging
<1>2. \A f \in SignIns : Record(f)'
  <2> USE <1>0, <1>1 DEF Record
  <2>1. ASSUME NEW f \in SignIns, NEW pc, pc \notin Handling, Becomes(f, pc)
        PROVE  \A g \in SignIns : Record(g)'
    BY <2>1 DEF Becomes
  <2>2. ASSUME NEW f \in SignIns, Send(f) PROVE \A g \in SignIns : Record(g)'
    BY <2>2, SendRecords
  <2>3. ASSUME NEW f \in SignIns, ReadSession(f) PROVE \A g \in SignIns : Record(g)'
    <3>1. f # None
      OBVIOUS
    <3> QED
      BY <2>3, <3>1, ReadRecords DEF Reuse, Creates, Moves
  <2>4. CASE signIn' = signIn
    BY <2>4
  <2>5. CASE Inner
    <3> SUFFICES ASSUME NEW g \in SignIns PROVE Record(g)'
      OBVIOUS
    <3>1. CASE signIn'[g] = signIn[g]
      BY <3>1
    <3>2. CASE signIn'[g] = Fresh("failed")
      BY <3>2, FailedRecord
    <3> QED
      BY <2>5, <3>1, <3>2, InnerDrift DEF Drifts
  <2> HIDE DEF Record
  <2> QED
    BY <2>1, <2>2, <2>3, <2>4, <2>5, Kinds, StartRecords, CallbackRecords, EndRecords
       DEF ExpireState, ExpireSession, Logout
<1>3. ASSUME NEW f \in SignIns, NEW g \in SignIns, g \in signIn'[f].before
      PROVE  signIn'[g].pc = "done" /\ BrowserOf[g] = BrowserOf[f]
  <2>1. g \in signIn[f].before \cup sitting[BrowserOf[f]] /\ BrowserOf[f] \in Browsers
    BY <1>3, Sources DEF Source
  <2>2. signIn[g].pc = "done" /\ BrowserOf[g] = BrowserOf[f]
    BY <2>1 DEF Records, Sessions
  <2> QED
    BY <2>2, RowsGrow DEF Grows
<1> QED
  BY <1>2, <1>3 DEF Records

(* Where the cookies, and what is told of the browsers, come from. *)
Holding(b) ==
  /\ cookie'[b] \in {None, cookie[b]} \/
       \E f \in SignIns : /\ Receive(f) /\ BrowserOf[f] = b
                          /\ cookie'[b] = signIn[f].session
  /\ left'[b] \subseteq left[b] \cup ({cookie[b]} \ {None})
  /\ sitting'[b] \in {{}, sitting[b]} \/
       \E f \in SignIns : /\ Receive(f) /\ BrowserOf[f] = b
                          /\ session[signIn[f].session].status = "live"
                          /\ sitting'[b] = sitting[b] \cup {f}

LEMMA Holdings ==
  ASSUME TypeOK, Records, [Next]_vars
  PROVE  \A b \in Browsers : Holding(b)
<1> SUFFICES ASSUME NEW b \in Browsers PROVE Holding(b)
  OBVIOUS
<1>1. ASSUME NEW f \in SignIns, Receive(f) PROVE Holding(b)
  BY <1>1 DEF TypeOK, Receive, Holding
<1>2. ASSUME NEW s \in SignIns, ExpireSession(s) PROVE Holding(b)
  BY <1>2 DEF TypeOK, ExpireSession, Holding, cookies
<1>3. ASSUME NEW c \in Browsers, Logout(c) PROVE Holding(b)
  BY <1>3 DEF TypeOK, Logout, Holding
<1>4. ASSUME UNCHANGED <<cookie, left, sitting>> PROVE Holding(b)
  BY <1>4 DEF Holding
<1>5. ASSUME NEW f \in SignIns, Start(f) \/ Callback(f) \/ ReadSession(f) \/ ExpireState(f)
      PROVE  UNCHANGED <<cookie, left, sitting>>
  BY <1>5 DEF Start, Callback, ReadSession, ExpireState, cookies
<1>6. Inner => UNCHANGED <<cookie, left, sitting>>
  BY InnerStill DEF Still
<1> QED
  BY <1>1, <1>2, <1>3, <1>4, <1>5, <1>6, Kinds

LEMMA SessionsStep ==
  ASSUME TypeOK, Records, Unmade, Sessions, [Next]_vars
  PROVE  Sessions'
<1>1. ASSUME NEW f \in SignIns, Receive(f), NEW s, s = signIn[f].session
      PROVE  /\ s \in SignIns /\ BrowserOf[s] = BrowserOf[f]
             /\ signIn'[s].pc = "done" /\ session'[s].status # "absent"
             /\ signIn'[f].pc = "done"
  <2>1. s \in SignIns /\ signIn'[f].pc = "done"
    BY <1>1, Holds, EndRecords DEF Receive, Handling, Becomes
  <2>2. CASE s = f
    <3>1. session[f].status # "absent"
      BY <1>1, <2>1, <2>2 DEF Sessions, Established
    <3> QED
      BY <2>1, <2>2, <3>1, RowsGrow DEF Grows
  <2>3. CASE s # f
    BY <1>1, <2>1, <2>3, RowsGrow DEF Sessions, Established, Grows
  <2> QED
    BY <2>1, <2>2, <2>3
<1>2. ASSUME NEW b \in Browsers, cookie'[b] # None PROVE Established(cookie[b], b)'
  <2>1. CASE cookie'[b] = cookie[b]
    BY <1>2, <2>1, EstablishedStays DEF Sessions
  <2>2. CASE \E f \in SignIns : /\ Receive(f) /\ BrowserOf[f] = b
                                /\ cookie'[b] = signIn[f].session
    BY <1>1, <2>2 DEF Established
  <2> QED
    BY <1>2, <2>1, <2>2, Holdings DEF Holding
<1>3. ASSUME NEW b \in Browsers, NEW s \in SignIns, s \in left'[b] PROVE Established(s, b)'
  <2>1. Established(s, b)
    BY <1>3, Holdings DEF Holding, Sessions
  <2> QED
    BY <2>1, EstablishedStays
<1>4. ASSUME NEW b \in Browsers, NEW s \in SignIns, s \in sitting'[b]
      PROVE  BrowserOf[s] = b /\ signIn'[s].pc = "done"
  <2>1. CASE s \in sitting[b]
    BY <2>1, RowsGrow DEF Sessions, Grows
  <2>2. CASE Receive(s) /\ BrowserOf[s] = b
    BY <1>1, <2>2
  <2> QED
    BY <1>4, <2>1, <2>2, Holdings DEF Holding
<1>5. ASSUME NEW f \in SignIns, signIn'[f].cookie # None
      PROVE  Established(signIn[f].cookie, BrowserOf[f])'
  <2> DEFINE s == signIn'[f].cookie
  <2>1. s \in {signIn[f].cookie, cookie[BrowserOf[f]]}
    BY <1>5, Sources DEF Source
  <2>2. Established(s, BrowserOf[f])
    BY <1>5, <2>1 DEF Sessions
  <2> HIDE DEF s
  <2>3. s \in SignIns /\ BrowserOf[s] = BrowserOf[f] /\ signIn'[s].pc = "done"
        /\ session'[s].status # "absent"
    BY <2>2, RowsGrow DEF Established, Grows
  <2> QED
    BY <2>3 DEF Established, s
<1>6. ASSUME NEW f \in SignIns
      PROVE  /\ signIn'[f].session = f => session'[f].status # "absent"
             /\ signIn'[f].session \notin {None, f} =>
                  Established(signIn[f].session, BrowserOf[f])'
  <2> DEFINE s == signIn'[f].session
  <2>1. CASE s = f /\ session'[s].status # "absent"
    BY <2>1
  <2>2. CASE s \in {signIn[f].session, signIn[f].cookie}
    <3>1. /\ s = f => session[f].status # "absent"
          /\ s \notin {None, f} => Established(s, BrowserOf[f])
      BY <2>2 DEF Sessions, Established
    <3> HIDE DEF s
    <3>2. /\ s = f => session'[f].status # "absent"
          /\ s \notin {None, f} =>
               /\ s \in SignIns /\ BrowserOf[s] = BrowserOf[f] /\ signIn'[s].pc = "done"
               /\ session'[s].status # "absent"
      BY <3>1, RowsGrow DEF Established, Grows
    <3> QED
      BY <3>2 DEF Established, s
  <2> QED
    <3>1. CASE s = None
      BY <3>1
    <3> QED
      BY <2>1, <2>2, <3>1, Sources DEF Source
<1> QED
  BY <1>2, <1>3, <1>4, <1>5, <1>6 DEF Sessions


LEMMA UnmadeStep ==
  ASSUME TypeOK, Records, Unmade, Sessions, [Next]_vars
  PROVE  Unmade'
<1> DEFINE Row(g) == signIn[g].pc \in {"new", "away", "read"} => session[g].status = "absent"
<1>1. \A g \in SignIns : Row(g)
  BY DEF Unmade
<1>2. ASSUME NEW f \in SignIns, Start(f) \/ Callback(f) PROVE \A g \in SignIns : Row(g)'
  BY <1>1, <1>2, StartRecords, CallbackRecords, SendRecords DEF Start, rows, Becomes
<1>3. ASSUME NEW f \in SignIns, ReadSession(f) PROVE \A g \in SignIns : Row(g)'
  BY <1>1, <1>3, ReadRecords DEF Reuse, Creates, Moves
<1>4. ASSUME NEW f \in SignIns, Receive(f) PROVE \A g \in SignIns : Row(g)'
  BY <1>1, <1>4, EndRecords DEF Receive, Becomes, rows
<1>5. ASSUME NEW s \in SignIns, ExpireSession(s) PROVE \A g \in SignIns : Row(g)'
  BY <1>1, <1>5, ExpireRecords DEF ExpireSession
<1>6. ASSUME UNCHANGED <<session, signIn>> PROVE \A g \in SignIns : Row(g)'
  BY <1>1, <1>6
<1>7. ASSUME Inner PROVE \A g \in SignIns : Row(g)'
  BY <1>1, <1>7, InnerDrift, InnerStill DEF Drifts, Still, Handling, Resolving, Linking, Merging
<1>8. \A g \in SignIns : Row(g)'
  <2> HIDE DEF Row
  <2> QED
    BY <1>2, <1>3, <1>4, <1>5, <1>6, <1>7, Kinds DEF ExpireState, Logout, rows
<1> QED
  BY <1>8 DEF Unmade

LEMMA StatedStep ==
  ASSUME TypeOK, Records, Stated, [Next]_vars
  PROVE  Stated'
<1> SUFFICES ASSUME NEW g \in SignIns, signIn'[g].pc = "away"
             PROVE  StateOf(g)' = g \/ g \in disturbed'
  BY DEF Stated
<1>1. ASSUME NEW f \in SignIns, Start(f) PROVE StateOf(g)' = g \/ g \in disturbed'
  <2>1. CASE g = f
    BY <1>1, <2>1 DEF Start, SetState, StateOf, TypeOK
  <2>2. CASE g # f
    <3>1. signIn[g].pc = "away"
      BY <1>1, <2>2, StartRecords DEF Becomes
    <3>2. CASE BrowserOf[g] = BrowserOf[f] /\ ProviderOf[g] = ProviderOf[f]
      BY <1>1, <3>1, <3>2 DEF Stated, Start, StateOf
    <3>3. CASE ~ (BrowserOf[g] = BrowserOf[f] /\ ProviderOf[g] = ProviderOf[f])
      BY <1>1, <3>1, <3>3 DEF Stated, Start, SetState, StateOf, TypeOK
    <3> QED
      BY <3>2, <3>3
  <2> QED
    BY <2>1, <2>2
<1>2. ASSUME NEW f \in SignIns, Receive(f) \/ ExpireState(f)
      PROVE  StateOf(g)' = g \/ g \in disturbed'
  <2>1. signIn[g].pc = "away" /\ (Receive(f) => g # f)
    BY <1>2, EndRecords DEF Becomes, ExpireState, Receive
  <2>2. CASE BrowserOf[g] = BrowserOf[f] /\ ProviderOf[g] = ProviderOf[f]
    BY <1>2, <2>1, <2>2 DEF Stated, Receive, ExpireState, StateOf
  <2>3. CASE ~ (BrowserOf[g] = BrowserOf[f] /\ ProviderOf[g] = ProviderOf[f])
    BY <1>2, <2>1, <2>3 DEF Stated, Receive, ExpireState, SetState, StateOf, TypeOK
  <2> QED
    BY <2>2, <2>3
<1>3. CASE signIn[g].pc = "away" /\ UNCHANGED <<state, disturbed>>
  BY <1>3 DEF Stated, StateOf
<1>4. ASSUME NEW f \in SignIns, Callback(f) \/ ReadSession(f)
      PROVE  signIn[g].pc = "away" /\ UNCHANGED <<state, disturbed>>
  <2>1. UNCHANGED <<state, disturbed>>
    BY <1>4 DEF Callback, ReadSession, cookies
  <2>2. signIn'[f].pc # "away" /\ (g # f => signIn'[g] = signIn[g])
    BY <1>4, CallbackRecords, SendRecords, ReadRecords DEF Becomes, Reuse, Creates, Moves
  <2> QED
    BY <2>1, <2>2
<1>5. Inner => signIn[g].pc = "away" /\ UNCHANGED <<state, disturbed>>
  BY InnerDrift, InnerStill DEF Drifts, Still, Handling, Resolving, Linking, Merging
<1>6. ASSUME UNCHANGED <<signIn, state, disturbed>>
      PROVE  signIn[g].pc = "away" /\ UNCHANGED <<state, disturbed>>
  BY <1>6
<1> QED
  BY <1>1, <1>2, <1>3, <1>4, <1>5, <1>6, Kinds DEF ExpireSession, Logout, cookies

LEMMA RefusedStep ==
  ASSUME TypeOK, Records, Stated, RefusalsExplained, [Next]_vars
  PROVE  RefusalsExplained'
<1> SUFFICES ASSUME NEW g \in SignIns, signIn'[g].pc = "refused"
             PROVE  g \in disturbed' \cup declined'
  BY DEF RefusalsExplained
<1>1. disturbed \subseteq disturbed' /\ declined \subseteq declined'
  BY Kinds, InnerStill DEF Start, Callback, ReadSession, Receive, ExpireState, ExpireSession, Logout, Still
<1>2. signIn[g].pc = "refused" => g \in disturbed \cup declined
  BY DEF RefusalsExplained
<1>3. ASSUME NEW f \in SignIns, Callback(f) PROVE g \in disturbed' \cup declined'
  BY <1>1, <1>2, <1>3, CallbackRecords, SendRecords DEF Stated, Becomes
<1>4. ASSUME NEW f \in SignIns, Start(f) \/ ReadSession(f) \/ Receive(f)
      PROVE  signIn[g].pc = "refused"
  BY <1>4, StartRecords, ReadRecords, EndRecords DEF Becomes, Reuse, Creates, Moves
<1>5. Inner => signIn[g].pc = "refused"
  BY InnerDrift DEF Drifts, Handling, Resolving, Linking, Merging
<1> QED
  BY <1>1, <1>2, <1>3, <1>4, <1>5, Kinds DEF ExpireState, ExpireSession, Logout

LEMMA LeftStep ==
  ASSUME TypeOK, Records, Unmade, Sessions, Left, [Next]_vars
  PROVE  Left'
<1> DEFINE Cookie(b) == cookie[b] \notin left[b]
           Back(g) == signIn[g].pc \in Handling /\ g \notin inFlight =>
                        Going(g) \notin left[BrowserOf[g]]
<1>0. (\A b \in Browsers : Cookie(b)) /\ (\A g \in SignIns : Back(g))
  BY DEF Left
<1>00. None \notin SignIns /\ \A b \in Browsers : None \notin left[b]
  BY DEF TypeOK
<1>000. {"new", "away", "done", "refused", "failed"} \cap Handling = {} /\ "read" \in Handling
        /\ {"lookup", "linkSelect"} \subseteq Handling \ {"read"}
  BY DEF Handling, Resolving, Linking, Merging
<1>1. ASSUME NEW b \in Browsers PROVE Cookie(b)'
  <2>1. ASSUME NEW f \in SignIns, Receive(f) PROVE Cookie(b)'
    BY <1>0, <2>1 DEF Receive, TypeOK
  <2>2. ASSUME NEW c \in Browsers, Logout(c) PROVE Cookie(b)'
    BY <1>0, <1>00, <2>2 DEF Logout, TypeOK
  <2>3. ASSUME UNCHANGED <<cookie, left>> PROVE Cookie(b)'
    BY <1>0, <2>3
  <2>4. Inner => UNCHANGED <<cookie, left>>
    BY InnerStill DEF Still
  <2> HIDE DEF Cookie
  <2> QED
    BY <2>1, <2>2, <2>3, <2>4, Kinds
       DEF Start, Callback, ReadSession, ExpireState, ExpireSession, cookies
<1>2. ASSUME NEW g \in SignIns PROVE Back(g)'
  <2> USE DEF Going
  <2>1. ASSUME NEW f \in SignIns, Start(f) PROVE Back(g)'
    BY <1>0, <1>000, <2>1, StartRecords DEF Start, Becomes
  <2>2. ASSUME NEW f \in SignIns, Callback(f) PROVE Back(g)'
    BY <1>0, <1>000, <2>2, CallbackRecords, SendRecords, <1>1 DEF Becomes, cookies
  <2>3. ASSUME NEW f \in SignIns, ReadSession(f) PROVE Back(g)'
    <3>1. f \notin left[BrowserOf[f]] /\ left' = left /\ inFlight' = inFlight
      BY <2>3 DEF ReadSession, Sessions, Established
    <3> QED
      BY <1>0, <1>000, <2>3, <3>1, ReadRecords DEF Reuse, Creates, Moves
  <2>4. ASSUME NEW f \in SignIns, Receive(f) PROVE Back(g)'
    <3>1. left'[BrowserOf[g]] \subseteq left[BrowserOf[g]] /\ inFlight' = inFlight
      BY <2>4 DEF Receive, TypeOK
    <3> QED
      BY <1>0, <1>000, <2>4, <3>1, EndRecords DEF Becomes
  <2>5. ASSUME Inner PROVE Back(g)'
    <3>1. UNCHANGED <<left, inFlight>> /\ Drifts(g)
      BY <2>5, InnerDrift, InnerStill DEF Still
    <3>2. CASE signIn'[g] = signIn[g]
      BY <1>0, <3>1, <3>2
    <3>3. CASE signIn'[g].pc = "failed"
      BY <1>000, <3>3
    <3> QED
      BY <1>0, <1>000, <3>1, <3>2, <3>3 DEF Drifts
  <2>6. ASSUME NEW c \in Browsers, Logout(c) PROVE Back(g)'
    <3>1. CASE c = BrowserOf[g]
      BY <2>6, <3>1 DEF Logout, InProgress, Of
    <3>2. CASE c # BrowserOf[g]
      BY <1>0, <2>6, <3>2 DEF Logout, TypeOK
    <3> QED
      BY <3>1, <3>2
  <2>7. ASSUME UNCHANGED <<signIn, left, inFlight>> PROVE Back(g)'
    BY <1>0, <2>7
  <2> HIDE DEF Back, Going
  <2> QED
    BY <2>1, <2>2, <2>3, <2>4, <2>5, <2>6, <2>7, Kinds DEF ExpireState, ExpireSession
<1> QED
  BY <1>1, <1>2 DEF Left

-----------------------------------------------------------------------------
(* A browser's sitting ends when its session does. *)
LEMMA SittingStep ==
  ASSUME TypeOK, Records, Unmade, Sessions, OneSession, [Next]_vars
  PROVE  \A b \in Browsers : (sitting[b] # {} <=> Live(cookie[b]))'
<1> SUFFICES ASSUME NEW b \in Browsers PROVE (sitting[b] # {} <=> Live(cookie[b]))'
  OBVIOUS
<1> DEFINE Sits == sitting[b] # {} <=> Live(cookie[b])
<1>1. Sits /\ None \notin SignIns
  BY DEF OneSession
<1>2. cookie[b] \in SignIns => session[cookie[b]].status # "absent"
  BY DEF Sessions, Established
<1>3. ASSUME NEW f \in SignIns, ReadSession(f) PROVE Sits'
  <2>1. cookie[b] # f /\ UNCHANGED <<cookie, sitting>>
    BY <1>1, <1>2, <1>3 DEF ReadSession, Unmade, cookies
  <2> QED
    BY <1>1, <1>3, <2>1, ReadRecords DEF Live, Reuse, Creates
<1>4. ASSUME NEW f \in SignIns, Receive(f) PROVE Sits'
  <2>1. CASE b = BrowserOf[f]
    <3>1. /\ signIn[f].session \in SignIns /\ session' = session
          /\ cookie'[b] = signIn[f].session
          /\ sitting'[b] = IF session[signIn[f].session].status = "live"
                             THEN sitting[b] \cup {f} ELSE {}
      BY <1>4, <2>1, Holds DEF Receive, Handling, rows, TypeOK
    <3> QED
      BY <3>1 DEF Live
  <2>2. CASE b # BrowserOf[f]
    BY <1>1, <1>4, <2>2 DEF Receive, rows, TypeOK, Live
  <2> QED
    BY <2>1, <2>2
<1>5. ASSUME NEW s \in SignIns, ExpireSession(s) PROVE Sits'
  <2>1. cookie' = cookie /\ sitting'[b] = IF cookie[b] = s THEN {} ELSE sitting[b]
    BY <1>5 DEF ExpireSession, cookies
  <2> QED
    BY <1>1, <1>5, <2>1, ExpireRecords DEF Live
<1>6. ASSUME NEW c \in Browsers, Logout(c) PROVE Sits'
  BY <1>1, <1>6 DEF Logout, rows, TypeOK, Live
<1>7. ASSUME UNCHANGED <<session, cookie, sitting>> PROVE Sits'
  BY <1>1, <1>7 DEF Live
<1>8. ASSUME Inner PROVE Sits'
  BY <1>1, <1>8, InnerStill DEF Still, Live
<1> HIDE DEF Sits
<1>9. Sits'
  BY <1>3, <1>4, <1>5, <1>6, <1>7, <1>8, Kinds DEF Start, Callback, ExpireState, rows, cookies
<1> QED
  BY <1>9 DEF Sits

(* What a sign-in goes by is there, and alive no longer than before. *)
LEMMA GoingLive ==
  ASSUME TypeOK, Records, Unmade, Sessions, [Next]_vars, NEW f \in SignIns,
         Handled(f), Handled(f)', Going(f)' = Going(f), Live(Going(f))'
  PROVE  Live(Going(f))
<1>1. Going(f) \in SignIns /\ session'[Going(f)].status = "live"
  BY DEF Live
<1>2. session[Going(f)].status # "absent"
  BY <1>1 DEF Sessions, Established, Going
<1> QED
  BY <1>1, <1>2, RowsGrow DEF Live, Grows

(* Steps that send no sign-in on its way, create no session and tell no
   browser of one. *)
LEMMA QuietStep ==
  ASSUME TypeOK, Records, Unmade, Sessions, OneSession, [Next]_vars, split' = split,
         \A f \in SignIns : Handled(f)' =>
           /\ Handled(f) /\ Going(f)' = Going(f)
           /\ signIn'[f].pc = "read" =>
                /\ signIn[f].pc = "read" /\ signIn'[f].before = signIn[f].before
                /\ signIn'[f].cookie = signIn[f].cookie,
         \A b \in Browsers : sitting'[b] # {} => sitting'[b] = sitting[b] /\ cookie'[b] = cookie[b]
  PROVE  \A f \in SignIns : (Abreast(f) /\ Joins(f) /\ \A g \in SignIns : Agree(f, g))'
<1> SUFFICES ASSUME NEW f \in SignIns, NEW g \in SignIns
             PROVE  Abreast(f)' /\ Joins(f)' /\ Agree(f, g)'
  OBVIOUS
<1>1. Abreast(f) /\ Joins(f) /\ Agree(f, g) /\ BrowserOf[f] \in Browsers
  BY DEF OneSession
<1>2. Abreast(f)'
  BY <1>1 DEF Abreast, Handled, Handling
<1>3. ASSUME NEW h \in SignIns, Handled(h)', Live(Going(h))'
      PROVE  Handled(h) /\ Live(Going(h)) /\ Going(h)' = Going(h)
  BY <1>3, GoingLive
<1>4. Joins(f)'
  BY <1>1, <1>3 DEF Joins
<1>5. Agree(f, g)'
  BY <1>1, <1>3 DEF Agree
<1> QED
  BY <1>2, <1>4, <1>5

LEMMA SendStep ==
  ASSUME TypeOK, Records, OneSession, NEW f \in SignIns, Callback(f), Send(f)
  PROVE  \A g \in SignIns : (Abreast(g) /\ Joins(g) /\ \A h \in SignIns : Agree(g, h))'
<1> SUFFICES ASSUME NEW g \in SignIns, NEW h \in SignIns
             PROVE  Abreast(g)' /\ Joins(g)' /\ Agree(g, h)'
  OBVIOUS
<1> DEFINE b == BrowserOf[f]
<1>1. /\ signIn[f].pc = "away" /\ UNCHANGED <<session, cookie, sitting>>
      /\ split' = IF sitting[b] \cap split = {} THEN split ELSE split \cup {f}
  BY CallbackRecords, SendRecords DEF rows, cookies
<1>2. /\ signIn'[f].pc = "read" /\ signIn'[f].cookie = cookie[b]
      /\ signIn'[f].before = sitting[b]
      /\ \A x \in SignIns : x # f => signIn'[x] = signIn[x]
  BY SendRecords
<1>3. /\ \A x \in SignIns : Abreast(x) /\ Joins(x)
      /\ Agree(g, h) /\ (sitting[b] # {} <=> Live(cookie[b]))
  BY DEF OneSession
<1>4. Abreast(g)'
  BY <1>1, <1>2, <1>3 DEF Abreast
<1>5. ASSUME NEW x \in SignIns, x # f
      PROVE  /\ Handled(x)' <=> Handled(x)
             /\ Going(x)' = Going(x) /\ (Live(Going(x))' <=> Live(Going(x)))
  BY <1>1, <1>2, <1>5 DEF Handled, Going, Live
<1>6. Going(f)' = cookie[b] /\ (Live(Going(f))' <=> Live(cookie[b]))
  BY <1>1, <1>2 DEF Going, Live
<1>7. Joins(g)'
  BY <1>1, <1>3, <1>5, <1>6 DEF Joins
<1>8. ASSUME NEW x \in SignIns, x # f PROVE Agree(x, f)' /\ Agree(f, x)'
  BY <1>1, <1>3, <1>5, <1>6, <1>8 DEF Agree, Joins
<1>9. Agree(g, h)'
  <2>1. CASE g # f /\ h # f
    BY <1>1, <1>3, <1>5, <2>1 DEF Agree
  <2>2. CASE g = f /\ h = f
    BY <2>2 DEF Agree
  <2> QED
    BY <1>8, <2>1, <2>2
<1> QED
  BY <1>4, <1>7, <1>9

(* A session is created beside nothing only by a sign-in that is alone. *)
LEMMA CreateStep ==
  ASSUME TypeOK, Records, Unmade, Sessions, OneSession, [Next]_vars, NEW f \in SignIns,
         ReadSession(f), Creates(f)
  PROVE  \A g \in SignIns : (Abreast(g) /\ Joins(g) /\ \A h \in SignIns : Agree(g, h))'
<1> SUFFICES ASSUME NEW g \in SignIns, NEW h \in SignIns
             PROVE  Abreast(g)' /\ Joins(g)' /\ Agree(g, h)'
  OBVIOUS
<1> DEFINE b == BrowserOf[f]
<1>1. /\ signIn[f].pc = "read" /\ UNCHANGED <<cookie, sitting>>
      /\ split' = IF Beside(f) = {} THEN split ELSE split \cup Beside(f) \cup {f}
  BY DEF ReadSession, Creates, cookies
<1>2. /\ signIn'[f].pc = "lookup" /\ \A x \in SignIns : x # f => signIn'[x] = signIn[x]
  BY DEF Creates, Moves
<1>3. /\ \A x \in SignIns : Abreast(x) /\ Joins(x)
      /\ Agree(g, h) /\ (sitting[b] # {} <=> Live(cookie[b]))
  BY DEF OneSession
<1>4. f \notin sitting[b] /\ sitting[b] \subseteq SignIns
  BY <1>1 DEF Sessions, TypeOK
<1>5. \A x \in SignIns : Handled(x) => x \notin signIn[f].before
  BY DEF Records, Handled, Handling, Resolving, Linking, Merging
<1>6. f \notin split' => sitting[b] = {}
  <2>0. ~ Live(signIn[f].cookie)
    BY DEF Creates, Live
  <2>1. f \notin split' => sitting[b] \subseteq signIn[f].before
    BY <1>1, <1>4 DEF Beside
  <2> QED
    BY <1>1, <1>3, <2>0, <2>1 DEF Abreast
<1>7. ASSUME NEW x \in SignIns, x # f, Handled(x)', Live(Going(x))'
      PROVE  Handled(x) /\ Live(Going(x)) /\ Going(x)' = Going(x)
  <2>1. Handled(x) /\ Going(x)' = Going(x)
    BY <1>2, <1>7 DEF Handled, Going
  <2> QED
    BY <1>7, <2>1, GoingLive
<1>8. Abreast(g)'
  BY <1>1, <1>2, <1>3 DEF Abreast
(* Whoever is not split stays in a browser of its own. *)
<1>9. ASSUME NEW x \in SignIns, x # f, x \notin split', Handled(x), BrowserOf[x] = b
      PROVE  FALSE
  BY <1>1, <1>5, <1>9 DEF Beside, InProgress, Of, Handled
<1>10. Joins(g)'
  <2>1. CASE g = f
    BY <1>1, <1>6, <2>1 DEF Joins
  <2>2. CASE g # f
    BY <1>1, <1>3, <1>7, <2>2 DEF Joins
  <2> QED
    BY <2>1, <2>2
<1>11. Agree(g, h)'
  <2> SUFFICES ASSUME BrowserOf[g] = BrowserOf[h], g \notin split', h \notin split',
                      Handled(g)', Handled(h)', Live(Going(g))', Live(Going(h))'
               PROVE  Going(g)' = Going(h)'
    BY DEF Agree
  <2>1. CASE g # f /\ h # f
    BY <1>1, <1>3, <1>7, <2>1 DEF Agree
  <2>2. CASE g = f \/ h = f
    BY <1>7, <1>9, <2>2
  <2> QED
    BY <2>1, <2>2
<1> QED
  BY <1>8, <1>10, <1>11

(* A response adds a sign-in to the sitting of its own session. *)
LEMMA ReceiveStep ==
  ASSUME TypeOK, Records, Unmade, Sessions, OneSession, [Next]_vars, NEW f \in SignIns, Receive(f)
  PROVE  \A g \in SignIns : (Abreast(g) /\ Joins(g) /\ \A h \in SignIns : Agree(g, h))'
<1> SUFFICES ASSUME NEW g \in SignIns, NEW h \in SignIns
             PROVE  Abreast(g)' /\ Joins(g)' /\ Agree(g, h)'
  OBVIOUS
<1> DEFINE b == BrowserOf[f]
           s == signIn[f].session
<1>1. /\ signIn[f].pc = "respond" /\ split' = split /\ session' = session
      /\ cookie' = [cookie EXCEPT ![b] = s]
      /\ sitting' = [sitting EXCEPT ![b] =
                       IF session[s].status = "live" THEN @ \cup {f} ELSE {}]
      /\ s \in SignIns
  BY Holds DEF Receive, rows, Handling
<1>2. signIn'[f].pc = "done" /\ \A x \in SignIns : x # f => signIn'[x] = signIn[x]
  BY EndRecords DEF Becomes
<1>3. Abreast(g) /\ Joins(g) /\ Agree(g, h) /\ Agree(f, g)
  BY DEF OneSession
<1>4. ASSUME NEW x \in SignIns, Handled(x)'
      PROVE  /\ Handled(x) /\ x # f /\ signIn'[x] = signIn[x]
             /\ Going(x)' = Going(x) /\ (Live(Going(x))' <=> Live(Going(x)))
  BY <1>1, <1>2, <1>4 DEF Handled, Handling, Resolving, Linking, Merging, Going, Live
<1>5. /\ cookie'[b] = s
      /\ sitting'[b] = IF session[s].status = "live" THEN sitting[b] \cup {f} ELSE {}
      /\ \A c \in Browsers : c # b => cookie'[c] = cookie[c] /\ sitting'[c] = sitting[c]
  BY <1>1 DEF TypeOK
<1>6. Abreast(g)'
  <2> SUFFICES ASSUME signIn'[g].pc = "read", sitting'[BrowserOf[g]] # {},
                      sitting'[BrowserOf[g]] \subseteq signIn'[g].before
               PROVE  cookie'[BrowserOf[g]] = signIn'[g].cookie
    BY DEF Abreast
  <2>1. Handled(g) /\ g # f /\ signIn'[g] = signIn[g]
    BY <1>4 DEF Handled, Handling
  <2>2. f \notin signIn[g].before
    BY <1>1 DEF Records
  <2>3. BrowserOf[g] # b
    BY <1>5, <2>1, <2>2
  <2> QED
    BY <1>3, <1>5, <2>1, <2>3 DEF Abreast
<1>7. Joins(g)'
  <2> SUFFICES ASSUME g \notin split, Handled(g)', Live(Going(g))',
                      sitting'[BrowserOf[g]] # {}, sitting'[BrowserOf[g]] \cap split = {}
               PROVE  Going(g)' = cookie'[BrowserOf[g]]
    BY <1>1 DEF Joins
  <2>1. CASE BrowserOf[g] = b
    <3>1. session[s].status = "live" /\ f \notin split
      BY <1>5, <2>1
    <3>2. Handled(f) /\ Going(f) = s /\ Live(s)
      BY <1>1, <3>1 DEF Handled, Handling, Resolving, Linking, Merging, Going, Live
    <3> QED
      BY <1>3, <1>4, <1>5, <2>1, <3>1, <3>2 DEF Agree
  <2>2. CASE BrowserOf[g] # b
    BY <1>3, <1>4, <1>5, <2>2 DEF Joins
  <2> QED
    BY <2>1, <2>2
<1>8. Agree(g, h)'
  BY <1>1, <1>3, <1>4 DEF Agree
<1> QED
  BY <1>6, <1>7, <1>8

LEMMA OneSessionStep ==
  ASSUME TypeOK, Records, Unmade, Sessions, OneSession, [Next]_vars
  PROVE  OneSession'
<1> DEFINE Ahead == \A f \in SignIns : Abreast(f) /\ Joins(f) /\ \A g \in SignIns : Agree(f, g)
           Same(f) == Handled(f)' =>
             /\ Handled(f) /\ Going(f)' = Going(f)
             /\ signIn'[f].pc = "read" =>
                  /\ signIn[f].pc = "read" /\ signIn'[f].before = signIn[f].before
                  /\ signIn'[f].cookie = signIn[f].cookie
           Quiet == \A f \in SignIns : Same(f)
           Seats == \A b \in Browsers :
                      sitting'[b] # {} => sitting'[b] = sitting[b] /\ cookie'[b] = cookie[b]
<1>1. ASSUME split' = split, Quiet, Seats PROVE Ahead'
  BY <1>1, QuietStep
<1>2. ASSUME NEW f \in SignIns, NEW pc, Becomes(f, pc), pc \notin Handling PROVE Quiet
  BY <1>2 DEF Becomes, Handled, Going
<1>3. ASSUME NEW f \in SignIns, Callback(f) PROVE Ahead'
  <2>1. CASE Send(f)
    BY <1>3, <2>1, SendStep
  <2>2. CASE split' = split /\ (Becomes(f, "refused") \/ Becomes(f, "failed"))
    <3>1. Seats
      BY <1>3, CallbackRecords DEF cookies
    <3>2. Quiet
      BY <1>2, <2>2 DEF Handling, Resolving, Linking, Merging
    <3> HIDE DEF Quiet, Seats, Ahead
    <3> QED
      BY <1>1, <2>2, <3>1, <3>2
  <2> QED
    BY <1>3, <2>1, <2>2, CallbackRecords
<1>4. ASSUME NEW f \in SignIns, ReadSession(f) PROVE Ahead'
  <2>1. CASE Creates(f)
    BY <1>4, <2>1, CreateStep
  <2>2. CASE Reuse(f)
    <3>1. Seats /\ split' = split
      BY <1>4, <2>2 DEF ReadSession, cookies, Reuse
    <3>2. Quiet
      BY <1>4, <2>2, ReadRecords DEF Reuse, Moves, Handled, Handling, Resolving, Linking, Going
    <3> HIDE DEF Quiet, Seats, Ahead
    <3> QED
      BY <1>1, <3>1, <3>2
  <2> QED
    BY <1>4, <2>1, <2>2, ReadRecords
<1>5. ASSUME NEW f \in SignIns, Receive(f) PROVE Ahead'
  BY <1>5, ReceiveStep
<1>6. ASSUME NEW f \in SignIns, Start(f) PROVE Ahead'
  <2>1. Seats /\ split' = split
    BY <1>6 DEF Start
  <2>2. Quiet
    BY <1>2, <1>6, StartRecords DEF Handling, Resolving, Linking, Merging
  <2> HIDE DEF Quiet, Seats, Ahead
  <2> QED
    BY <1>1, <2>1, <2>2
<1>7. ASSUME Inner PROVE Ahead'
  <2>1. Seats /\ split' = split
    BY <1>7, InnerStill DEF Still
  <2>2. ASSUME NEW f \in SignIns PROVE Same(f)
    <3>1. CASE signIn'[f] = signIn[f]
      BY <3>1 DEF Handled, Going
    <3>2. CASE signIn'[f].pc = "failed"
      BY <3>2 DEF Handled, Handling, Resolving, Linking, Merging
    <3> QED
      BY <1>7, <3>1, <3>2, InnerDrift DEF Drifts, Handled, Going
  <2>3. Quiet
    BY <2>2
  <2> HIDE DEF Quiet, Seats, Ahead
  <2> QED
    BY <1>1, <2>1, <2>3
<1>8. ASSUME UNCHANGED <<signIn, split>>, Seats PROVE Ahead'
  <2>1. Quiet
    BY <1>8 DEF Handled, Going
  <2> HIDE DEF Quiet, Seats, Ahead
  <2> QED
    BY <1>1, <1>8, <2>1
<1>9. ASSUME NEW s \in SignIns, ExpireSession(s) PROVE Seats /\ UNCHANGED <<signIn, split>>
  BY <1>9 DEF ExpireSession, cookies
<1>10. ASSUME NEW c \in Browsers, Logout(c) PROVE Seats /\ UNCHANGED <<signIn, split>>
  BY <1>10 DEF Logout, TypeOK
<1>11. ASSUME NEW f \in SignIns, ExpireState(f) PROVE Seats /\ UNCHANGED <<signIn, split>>
  BY <1>11 DEF ExpireState
<1>12. Ahead'
  <2> HIDE DEF Ahead, Seats
  <2> QED
    BY <1>3, <1>4, <1>5, <1>6, <1>7, <1>8, <1>9, <1>10, <1>11, Kinds
<1> QED
  BY <1>12, SittingStep DEF OneSession

LEMMA SplitGrows ==
  ASSUME TypeOK, Records, [Next]_vars
  PROVE  split \subseteq split'
<1>1. ASSUME NEW f \in SignIns, Callback(f) \/ ReadSession(f) PROVE split \subseteq split'
  BY <1>1, CallbackRecords, SendRecords, ReadRecords DEF Reuse, Creates
<1>2. ASSUME NEW f \in SignIns, Start(f) \/ Receive(f) \/ ExpireState(f) \/ ExpireSession(f)
      PROVE  split \subseteq split'
  BY <1>2 DEF Start, Receive, ExpireState, ExpireSession
<1>3. Inner => split \subseteq split'
  BY InnerStill DEF Still
<1> QED
  BY <1>1, <1>2, <1>3, Kinds DEF Logout

-----------------------------------------------------------------------------
(* What is told of merges stays told. *)
LEMMA MergesGrow ==
  ASSUME TypeOK, Records, [Next]_vars
  PROVE  mergedAway \subseteq mergedAway' /\ orphaned \subseteq orphaned' /\ contested \subseteq contested'
<1> DEFINE Grown == /\ mergedAway \subseteq mergedAway' /\ orphaned \subseteq orphaned'
                    /\ contested \subseteq contested'
<1>1. ASSUME NEW f \in SignIns, LinkSelect(f) PROVE Grown
  <2>1. UNCHANGED <<mergedAway, orphaned>>
    BY <1>1 DEF LinkSelect
  <2> QED
    BY <1>1, <2>1, LinkSelectRecords
<1>2. ASSUME NEW f \in SignIns, SetActor(f) PROVE Grown
  BY <1>2 DEF SetActor
<1>3. ASSUME NEW f \in SignIns, Move(f) PROVE Grown
  BY <1>3 DEF Move
<1>4. ASSUME UNCHANGED merges PROVE Grown
  BY <1>4 DEF merges
<1>5. ASSUME NEW f \in SignIns,
             \/ Start(f) \/ Callback(f) \/ ReadSession(f) \/ Lookup(f) \/ Select(f)
             \/ InsertActor(f) \/ InsertAccount(f) \/ CacheActor(f) \/ LinkInsert(f)
             \/ Delete(f) \/ ClearCache(f) \/ Receive(f) \/ Throw(f) \/ ExpireState(f)
             \/ ExpireSession(f)
      PROVE  UNCHANGED merges
  BY <1>5 DEF Start, Callback, ReadSession, Lookup, Select, InsertActor, InsertAccount,
     CacheActor, LinkInsert, Delete, ClearCache, Receive, Throw, ExpireState, ExpireSession
<1>6. ASSUME NEW b, Logout(b) \/ Hear(b) \/ Remember(b) \/ Crash \/ UNCHANGED vars
      PROVE  UNCHANGED merges
  BY <1>6 DEF Logout, Hear, Remember, Crash, vars
<1> HIDE DEF Grown
<1>7. Grown
  BY <1>1, <1>2, <1>3, <1>4, <1>5, <1>6 DEF Next, Handle, Resolve, Link
<1> QED
  BY <1>7 DEF Grown

(* A callback looks at its account's actor once it has tied the account. *)
LEMMA TiedStep ==
  ASSUME TypeOK, Records, Unmade, Joined, [Next]_vars
  PROVE  \A g \in SignIns : Tied(g)'
<1> DEFINE Past == Handling \ {"read", "lookup", "linkSelect"}
           Untied == {"lookup", "linkSelect"}
<1>0. {"new", "away", "done", "refused", "failed"} \cap Handling = {} /\ None \notin SignIns
  BY DEF Handling, Resolving, Linking, Merging
<1>1. ASSUME NEW g \in SignIns, signIn[g].pc \in Handling \ {"read"}
      PROVE  signIn[g].session \in SignIns
  BY <1>1, Holds
<1>2. ASSUME NEW g \in SignIns, signIn[g].pc \in Past, signIn'[g].session = signIn[g].session
      PROVE  Tied(g)'
  <2>1. AccountOf[g] \in under[signIn[g].session] /\ signIn[g].session \in SignIns
    BY <1>1, <1>2 DEF Joined, Tied
  <2> QED
    BY <1>2, <2>1, RowsGrow DEF Grows, Tied
<1>3. ASSUME NEW g \in SignIns, signIn'[g].pc \notin Past PROVE Tied(g)'
  BY <1>3 DEF Tied
<1>4. ASSUME NEW g \in SignIns, signIn'[g] = signIn[g] PROVE Tied(g)'
  BY <1>2, <1>3, <1>4
<1> HIDE DEF Past, Untied
<1>5. ASSUME NEW f \in SignIns, NEW pc, Becomes(f, pc), pc \notin Handling
      PROVE  \A g \in SignIns : Tied(g)'
  BY <1>3, <1>4, <1>5 DEF Becomes, Past
<1>6. ASSUME NEW f \in SignIns, ReadSession(f) PROVE \A g \in SignIns : Tied(g)'
  BY <1>3, <1>4, <1>6, ReadRecords DEF Reuse, Creates, Moves, Past
<1>7. ASSUME NEW f \in SignIns, Send(f) PROVE \A g \in SignIns : Tied(g)'
  BY <1>3, <1>4, <1>7, SendRecords DEF Past
<1>8. ASSUME NEW f \in SignIns, Lookup(f) \/ LinkSelect(f) PROVE \A g \in SignIns : Tied(g)'
  <2>1. Ties(f) /\ signIn[f].session \in SignIns /\ signIn'[f].session = signIn[f].session
        /\ \A g \in SignIns : g # f => signIn'[g] = signIn[g]
    BY <1>8, LookupRecords, LinkSelectRecords DEF Moves
  <2>2. Tied(f)'
    BY <2>1 DEF Ties, Tied
  <2> QED
    BY <1>4, <2>1, <2>2
<1>9. ASSUME NEW f \in SignIns, NEW pc, NEW a, NEW source, signIn[f].pc \in Past,
             Moves(f, pc, signIn[f].session, a, source)
      PROVE  \A g \in SignIns : Tied(g)'
  BY <1>2, <1>4, <1>9 DEF Moves
<1>10. ASSUME NEW f \in SignIns,
             \/ Select(f) \/ InsertActor(f) \/ InsertAccount(f) \/ CacheActor(f) \/ SetActor(f)
             \/ LinkInsert(f) \/ Move(f) \/ Delete(f) \/ ClearCache(f)
       PROVE  \A g \in SignIns : Tied(g)'
  <2>1. signIn[f].pc \in Past
    BY <1>10 DEF Select, InsertActor, InsertAccount, CacheActor, SetActor, LinkInsert, Move,
       Delete, ClearCache, Past, Handling, Resolving, Linking, Merging
  <2>2. Becomes(f, "failed") \/ \E pc, a, source : Moves(f, pc, signIn[f].session, a, source)
    BY <1>10, SelectRecords, InsertActorRecords, InsertAccountRecords, CacheActorRecords,
       SetActorRecords, LinkInsertRecords, MoveRecords, DeleteRecords, ClearCacheRecords
  <2> QED
    BY <1>0, <1>5, <1>9, <2>1, <2>2
<1>11. ASSUME Crash PROVE \A g \in SignIns : Tied(g)'
  BY <1>0, <1>3, <1>4, <1>11, CrashRecords DEF Past
<1>12. ASSUME signIn' = signIn PROVE \A g \in SignIns : Tied(g)'
  BY <1>4, <1>12
<1>13. ASSUME NEW f \in SignIns, Start(f) \/ Callback(f) \/ Receive(f) \/ Throw(f)
       PROVE  \A g \in SignIns : Tied(g)'
  BY <1>0, <1>5, <1>7, <1>13, StartRecords, CallbackRecords, EndRecords
<1>14. ASSUME NEW b, Logout(b) \/ ExpireState(b) \/ ExpireSession(b) \/ Hear(b) \/ Remember(b)
                      \/ UNCHANGED vars
       PROVE  signIn' = signIn
  BY <1>14 DEF Logout, ExpireState, ExpireSession, Hear, Remember, vars
<1> QED
  BY <1>6, <1>8, <1>10, <1>11, <1>12, <1>13, <1>14 DEF Next, Handle, Resolve, Link

(* Where the actors come from that a callback holds. *)
Named(g) ==
  LET s == signIn'[g].session  a == AccountOf[g] IN
  \/ s = None
  \/ signIn'[g].actor = None /\ signIn'[g].source = None
  \/ /\ s = signIn[g].session
     /\ signIn'[g].actor \in {None, signIn[g].actor}
     /\ signIn'[g].source \in {None, signIn[g].source}
  \/ s \in SignIns /\ signIn'[g].actor = session[s].actor /\ signIn'[g].source = None
  \/ /\ s \in SignIns /\ s = signIn[g].session /\ a \in under'[s]
     /\ signIn'[g].actor \in {cache[a], owner[a], g, signIn[g].actor}
     /\ signIn'[g].source \in {None, owner[a], signIn[g].source}

LEMMA Names ==
  ASSUME TypeOK, Records, Unmade, Joined, [Next]_vars
  PROVE  \A g \in SignIns : Named(g)
<1> SUFFICES ASSUME NEW g \in SignIns PROVE Named(g)
  OBVIOUS
<1>1. ASSUME signIn'[g] = signIn[g] PROVE Named(g)
  BY <1>1 DEF Named
<1>2. ASSUME signIn'[g].session = None PROVE Named(g)
  BY <1>2 DEF Named
<1>3. ASSUME NEW f \in SignIns, NEW pc, Becomes(f, pc) PROVE Named(g)
  BY <1>1, <1>2, <1>3 DEF Becomes
<1>4. ASSUME NEW f \in SignIns, Send(f) PROVE Named(g)
  BY <1>1, <1>2, <1>4, SendRecords
<1>5. ASSUME NEW f \in SignIns, ReadSession(f) PROVE Named(g)
  BY <1>1, <1>5, ReadRecords DEF Reuse, Creates, Moves, Named
<1>6. ASSUME NEW f \in SignIns, NEW pc, NEW a \in {None, signIn[f].actor},
             NEW source \in {None, signIn[f].source}, Moves(f, pc, signIn[f].session, a, source)
      PROVE  Named(g)
  BY <1>1, <1>6 DEF Moves, Named
<1>7. ASSUME NEW f \in SignIns, signIn[f].session \in SignIns,
             AccountOf[f] \in under'[signIn[f].session], NEW pc,
             NEW a \in {cache[AccountOf[f]], owner[AccountOf[f]], f, signIn[f].actor},
             NEW source \in {None, owner[AccountOf[f]], signIn[f].source},
             Moves(f, pc, signIn[f].session, a, source)
      PROVE  Named(g)
  BY <1>1, <1>7 DEF Moves, Named
<1>8. ASSUME NEW f \in SignIns, Lookup(f) PROVE Named(g)
  <2>1. signIn[f].session \in SignIns /\ Ties(f)
    BY <1>8, LookupRecords
  <2>2. AccountOf[f] \in under'[signIn[f].session]
    BY <2>1 DEF Ties
  <2> QED
    BY <1>6, <1>7, <1>8, <2>1, <2>2, LookupRecords
<1>9. ASSUME NEW f \in SignIns, LinkSelect(f) PROVE Named(g)
  <2>1. signIn[f].session \in SignIns /\ Ties(f)
    BY <1>9, LinkSelectRecords
  <2>2. AccountOf[f] \in under'[signIn[f].session]
    BY <2>1 DEF Ties
  <2> QED
    BY <1>6, <1>7, <1>9, <2>1, <2>2, LinkSelectRecords
<1>10. ASSUME NEW f \in SignIns, Select(f) \/ InsertActor(f) PROVE Named(g)
  <2>1. signIn[f].session \in SignIns /\ signIn[f].pc \in {"select", "insertActor"}
    BY <1>10, SelectRecords, InsertActorRecords
  <2>2. AccountOf[f] \in under'[signIn[f].session]
    BY <2>1, RowsGrow DEF Joined, Tied, Handling, Resolving, Grows
  <2> QED
    BY <1>6, <1>7, <1>10, <2>1, <2>2, SelectRecords, InsertActorRecords
<1>11. ASSUME NEW f \in SignIns,
             \/ InsertAccount(f) \/ CacheActor(f) \/ SetActor(f)
             \/ LinkInsert(f) \/ Move(f) \/ Delete(f) \/ ClearCache(f)
       PROVE  Named(g)
  BY <1>3, <1>6, <1>11, InsertAccountRecords, CacheActorRecords, SetActorRecords,
     LinkInsertRecords, MoveRecords, DeleteRecords, ClearCacheRecords
<1>12. ASSUME Crash PROVE Named(g)
  BY <1>1, <1>2, <1>12, CrashRecords
<1>13. ASSUME NEW f \in SignIns, Start(f) \/ Callback(f) \/ Receive(f) \/ Throw(f)
       PROVE  Named(g)
  BY <1>3, <1>4, <1>13, StartRecords, CallbackRecords, EndRecords
<1>14. ASSUME NEW b, Logout(b) \/ ExpireState(b) \/ ExpireSession(b) \/ Hear(b) \/ Remember(b)
                      \/ UNCHANGED vars
       PROVE  Named(g)
  BY <1>1, <1>14 DEF Logout, ExpireState, ExpireSession, Hear, Remember, vars
<1> QED
  BY <1>5, <1>8, <1>9, <1>10, <1>11, <1>12, <1>13, <1>14 DEF Next, Handle, Resolve, Link

-----------------------------------------------------------------------------
LEMMA ClosedBefore ==
  ASSUME TypeOK, Records, Unmade, [Next]_vars, NEW S \in SUBSET Accounts, Closed(S)'
  PROVE  Closed(S) /\ Closed(Accounts \ S)
<1>1. \A s \in SignIns : under[s] \subseteq under'[s] /\ under[s] \subseteq Accounts
  BY RowsGrow DEF Grows, TypeOK
<1> QED
  BY <1>1 DEF Closed

LEMMA Homes == ASSUME NEW A \in Actors PROVE Home(A) \in Accounts
BY DEF Actors, Home

(* The row of an account: it may be inserted by a sign-in that has tied it,
   be moved with others of its actor to that of a session, or be registered
   for a message. *)
LEMMA OwnersSided ==
  ASSUME TypeOK, Records, Unmade, Joined, [Next]_vars, NEW S \in SUBSET Accounts, Closed(S)'
  PROVE  \A a \in Accounts : AccountSide(a, owner'[a], S)
<1> SUFFICES ASSUME NEW a \in Accounts PROVE AccountSide(a, owner'[a], S)
  OBVIOUS
<1>1. Closed(S) /\ Sided(S) /\ Sided(Accounts \ S)
  BY ClosedBefore DEF Joined
<1>2. AccountSide(a, owner[a], S)
  BY <1>1 DEF Sided
<1>3. ASSUME owner'[a] \in {None, owner[a]} PROVE AccountSide(a, owner'[a], S)
  BY <1>2, <1>3 DEF AccountSide
<1>4. ASSUME NEW f \in SignIns, Inserts(f), signIn[f].session \in SignIns,
             signIn[f].pc \in Handling \ {"read", "lookup", "linkSelect"}
      PROVE  AccountSide(a, owner'[a], S)
  <2>1. AccountOf[f] \in under[signIn[f].session]
    BY <1>4 DEF Joined, Tied
  <2>2. SessionSide(signIn[f].session, signIn[f].actor, S)
    BY <1>1, <1>4 DEF Sided
  <2>3. CASE a = AccountOf[f]
    <3>1. owner'[a] = signIn[f].actor
      BY <1>4, <2>3 DEF Inserts
    <3>2. a \in S => under[signIn[f].session] \subseteq S
      BY <1>1, <1>4, <2>1, <2>3 DEF Closed
    <3> QED
      BY <2>2, <3>1, <3>2 DEF SessionSide, AccountSide
  <2>4. CASE a # AccountOf[f]
    BY <1>3, <1>4, <2>4 DEF Inserts
  <2> QED
    BY <2>3, <2>4
<1>5. ASSUME NEW f \in SignIns, InsertAccount(f) \/ LinkInsert(f)
      PROVE  AccountSide(a, owner'[a], S)
  <2>1. /\ signIn[f].session \in SignIns /\ signIn[f].pc \in {"insertAccount", "linkInsert"}
        /\ Inserts(f) \/ owner' = owner
    BY <1>5, InsertAccountRecords, LinkInsertRecords
  <2>2. signIn[f].pc \in Handling \ {"read", "lookup", "linkSelect"}
    BY <2>1 DEF Handling, Resolving, Linking
  <2> QED
    BY <1>3, <1>4, <2>1, <2>2
<1>6. ASSUME NEW f \in SignIns, Move(f) PROVE AccountSide(a, owner'[a], S)
  <2> DEFINE s == signIn[f].session
             source == signIn[f].source
             target == signIn[f].actor
  <2>1. /\ s \in SignIns /\ s # None /\ source \in Actors /\ source # None
        /\ \/ owner'[a] = IF owner[a] = source THEN target ELSE owner[a]
           \/ owner' = owner
    BY <1>6, MoveRecords DEF Actors
  <2>2. /\ SessionSide(s, target, S) /\ SessionSide(s, source, Accounts \ S)
    <3>1. signIn[f].session # None
      BY <2>1
    <3> QED
      BY <1>1, <3>1 DEF Sided
  <2>5. Home(source) \in Accounts
    BY <2>1, Homes
  <2> HIDE DEF s, source, target
  <2>3. CASE owner[a] = source /\ owner'[a] = target
    <3>1. a \in S => Home(source) \in S
      BY <1>2, <2>1, <2>3 DEF AccountSide
    <3>2. under[s] \subseteq S \/ under[s] \subseteq Accounts \ S
      BY <1>1, <2>1 DEF Closed, TypeOK
    <3>3. a \in S => under[s] \subseteq S
      BY <2>1, <2>2, <2>5, <3>1, <3>2 DEF SessionSide
    <3> QED
      BY <2>2, <2>3, <3>3 DEF SessionSide, AccountSide
  <2> QED
    BY <1>3, <2>1, <2>3
<1>7. ASSUME NEW f \in SignIns, Delete(f) PROVE AccountSide(a, owner'[a], S)
  BY <1>3, <1>7, DeleteRecords DEF rows
<1>8. ASSUME NEW x \in Accounts, Hear(x) PROVE AccountSide(a, owner'[a], S)
  <2>1. owner'[a] \in {owner[a], a}
    BY <1>8 DEF Hear, TypeOK
  <2>2. Home(a) = a
    BY DEF Home
  <2> QED
    BY <1>2, <2>1, <2>2 DEF AccountSide
<1>9. ASSUME NEW f \in SignIns,
             \/ Start(f) \/ Callback(f) \/ ReadSession(f) \/ Lookup(f) \/ Select(f)
             \/ InsertActor(f) \/ CacheActor(f) \/ SetActor(f) \/ LinkSelect(f)
             \/ ClearCache(f) \/ Receive(f) \/ Throw(f) \/ ExpireState(f) \/ ExpireSession(f)
      PROVE  owner' = owner
  BY <1>9 DEF Start, Callback, ReadSession, Lookup, Select, InsertActor, CacheActor, SetActor,
     LinkSelect, ClearCache, Receive, Throw, ExpireState, ExpireSession, rows
<1>10. ASSUME NEW b, Logout(b) \/ Remember(b) \/ Crash \/ UNCHANGED vars PROVE owner' = owner
  BY <1>10 DEF Logout, Remember, Crash, vars, rows
<1> QED
  BY <1>3, <1>5, <1>6, <1>7, <1>8, <1>9, <1>10 DEF Next, Handle, Resolve, Link

(* What is remembered of an account was selected by a callback that has tied
   it, or by a message. *)
LEMMA MemorySided ==
  ASSUME TypeOK, Records, Unmade, Joined, [Next]_vars, NEW S \in SUBSET Accounts, Closed(S)'
  PROVE  \A a \in Accounts : AccountSide(a, cache'[a], S) /\ AccountSide(a, heard'[a], S)
<1> DEFINE Side(a) == AccountSide(a, cache[a], S) /\ AccountSide(a, heard[a], S)
<1>1. Closed(S) /\ Sided(S)
  BY ClosedBefore DEF Joined
<1>2. \A a \in Accounts : Side(a) /\ AccountSide(a, owner[a], S)
  BY <1>1 DEF Sided
<1>3. ASSUME NEW f \in SignIns, CacheActor(f) PROVE \A a \in Accounts : Side(a)'
  <2> DEFINE s == signIn[f].session
  <2>1. /\ s \in SignIns /\ signIn[f].pc \in {"remember", "linkCache"} /\ heard' = heard
        /\ \A x \in Accounts : cache'[x] = IF x = AccountOf[f] THEN signIn[f].actor ELSE cache[x]
    BY <1>3, CacheActorRecords DEF CacheActor
  <2>2. AccountOf[f] \in under[s]
    BY <2>1 DEF Joined, Tied, Handling, Resolving, Linking
  <2>3. SessionSide(s, signIn[f].actor, S)
    BY <1>1, <2>1 DEF Sided
  <2>4. AccountOf[f] \in S => under[s] \subseteq S
    BY <1>1, <2>1, <2>2 DEF Closed
  <2>5. AccountSide(AccountOf[f], signIn[f].actor, S)
    BY <2>3, <2>4 DEF SessionSide, AccountSide
  <2> QED
    BY <1>2, <2>1, <2>5
<1>4. ASSUME NEW x \in Accounts, Hear(x) PROVE \A a \in Accounts : Side(a)'
  <2>1. cache' = cache /\ \A a \in Accounts : heard'[a] \in {heard[a], owner[a], a}
    BY <1>4 DEF Hear, TypeOK
  <2>2. \A a \in Accounts : Home(a) = a
    BY DEF Home
  <2> QED
    BY <1>2, <2>1, <2>2 DEF AccountSide
<1>5. ASSUME NEW x \in Accounts, Remember(x) PROVE \A a \in Accounts : Side(a)'
  BY <1>2, <1>5 DEF Remember, TypeOK, AccountSide
<1>6. ASSUME NEW f, ClearCache(f) \/ Crash PROVE \A a \in Accounts : Side(a)'
  BY <1>2, <1>6 DEF ClearCache, Crash, AccountSide
<1>7. ASSUME UNCHANGED memory PROVE \A a \in Accounts : Side(a)'
  BY <1>2, <1>7 DEF memory
<1>8. ASSUME NEW f \in SignIns,
             \/ Start(f) \/ Callback(f) \/ ReadSession(f) \/ Lookup(f) \/ Select(f)
             \/ InsertActor(f) \/ InsertAccount(f) \/ SetActor(f) \/ LinkSelect(f)
             \/ LinkInsert(f) \/ Move(f) \/ Delete(f) \/ Receive(f) \/ Throw(f)
             \/ ExpireState(f) \/ ExpireSession(f)
      PROVE  UNCHANGED memory
  BY <1>8 DEF Start, Callback, ReadSession, Lookup, Select, InsertActor, InsertAccount,
     SetActor, LinkSelect, LinkInsert, Move, Delete, Receive, Throw, ExpireState, ExpireSession
<1>9. ASSUME NEW b, Logout(b) \/ UNCHANGED vars PROVE UNCHANGED memory
  BY <1>9 DEF Logout, vars
<1> HIDE DEF Side
<1>10. \A a \in Accounts : Side(a)'
  BY <1>3, <1>4, <1>5, <1>6, <1>7, <1>8, <1>9 DEF Next, Handle, Resolve, Link
<1> QED
  BY <1>10 DEF Side

(* The actor of a session is set by a callback that goes by it, and lost
   when a merge deletes it. *)
SetBy(s) ==
  \/ session'[s].actor = session[s].actor
  \/ signIn[s].pc = "read" /\ session'[s].actor = None
  \/ \E f \in SignIns : /\ Delete(f) /\ session[s].actor = signIn[f].source
                        /\ session'[s].actor = None
  \/ \E f \in SignIns : /\ SetActor(f) /\ signIn[f].session = s /\ signIn[f].actor \in actors
                        /\ session'[s].actor = signIn[f].actor

LEMMA SetBySomeone ==
  ASSUME TypeOK, Records, [Next]_vars
  PROVE  \A s \in SignIns : SetBy(s)
<1> SUFFICES ASSUME NEW s \in SignIns PROVE SetBy(s)
  OBVIOUS
<1>1. ASSUME session'[s].actor = session[s].actor PROVE SetBy(s)
  BY <1>1 DEF SetBy
<1>2. ASSUME NEW f \in SignIns, SetActor(f) PROVE SetBy(s)
  BY <1>2, SetActorRecords DEF SetBy
<1>3. ASSUME NEW f \in SignIns, Delete(f) \/ ReadSession(f) \/ ExpireSession(f) PROVE SetBy(s)
  BY <1>3, DeleteRecords, ReadRecords, ExpireRecords DEF Reuse, Creates, rows, SetBy
<1>4. ASSUME NEW f \in SignIns,
             \/ Start(f) \/ Callback(f) \/ Lookup(f) \/ Select(f) \/ InsertActor(f)
             \/ InsertAccount(f) \/ CacheActor(f) \/ LinkSelect(f) \/ LinkInsert(f) \/ Move(f)
             \/ ClearCache(f) \/ Receive(f) \/ Throw(f) \/ ExpireState(f)
      PROVE  session' = session
  BY <1>4 DEF Start, Callback, Lookup, Select, InsertActor, InsertAccount, CacheActor,
     LinkSelect, LinkInsert, Move, ClearCache, Receive, Throw, ExpireState, rows
<1>5. ASSUME NEW b, Logout(b) \/ Hear(b) \/ Remember(b) \/ Crash \/ UNCHANGED vars
      PROVE  session' = session
  BY <1>5 DEF Logout, Hear, Remember, Crash, vars, rows
<1> QED
  BY <1>1, <1>2, <1>3, <1>4, <1>5 DEF Next, Handle, Resolve, Link

LEMMA SidedStep ==
  ASSUME TypeOK, Records, Unmade, Joined, [Next]_vars, NEW S \in SUBSET Accounts, Closed(S)'
  PROVE  Sided(S)'
<1>1. Closed(S) /\ Sided(S)
  BY ClosedBefore DEF Joined
<1>2. \A s \in SignIns : under'[s] \subseteq S => under[s] \subseteq S
  BY RowsGrow DEF Grows
<1>3. ASSUME NEW s \in SignIns PROVE SessionSide(s, session[s].actor, S)'
  <2>1. CASE session'[s].actor \in {None, session[s].actor}
    BY <1>1, <1>2, <2>1 DEF Sided, SessionSide
  <2>2. ASSUME NEW f \in SignIns, signIn[f].session = s, session'[s].actor = signIn[f].actor
        PROVE  SessionSide(s, session[s].actor, S)'
    <3>1. SessionSide(s, signIn[f].actor, S)
      BY <1>1, <2>2 DEF Sided
    <3> QED
      BY <1>2, <2>2, <3>1 DEF SessionSide
  <2> QED
    BY <2>1, <2>2, SetBySomeone DEF SetBy
<1>4. ASSUME NEW g \in SignIns, signIn'[g].session # None
      PROVE  /\ SessionSide(signIn[g].session, signIn[g].actor, S)'
             /\ SessionSide(signIn[g].session, signIn[g].source, S)'
  <2> DEFINE s == signIn'[g].session
             a == AccountOf[g]
             Side(A) == A # None /\ under'[s] \subseteq S => Home(A) \in S
  <2>0. s \in SignIns /\ a \in Accounts
    BY <1>4, TypeRecords, RecordTypes DEF SignIn, Optional
  <2>1. Side(None)
    OBVIOUS
  <2>2. s = signIn[g].session => Side(signIn[g].actor) /\ Side(signIn[g].source)
    BY <1>1, <1>2, <2>0 DEF Sided, SessionSide
  <2>3. Side(session[s].actor)
    BY <1>1, <1>2, <2>0 DEF Sided, SessionSide
  <2>4. a \in under'[s] => Side(owner[a]) /\ Side(cache[a]) /\ Side(g)
    <3>1. Home(g) = a
      BY DEF Home
    <3>2. AccountSide(a, owner[a], S) /\ AccountSide(a, cache[a], S)
      BY <1>1, <2>0 DEF Sided
    <3> QED
      BY <3>1, <3>2 DEF AccountSide
  <2>5. Named(g)
    BY Names
  <2>6. Side(signIn'[g].actor) /\ Side(signIn'[g].source)
    <3> HIDE DEF Side
    <3> QED
      BY <1>4, <2>1, <2>2, <2>3, <2>4, <2>5 DEF Named
  <2> QED
    BY <2>6 DEF SessionSide
<1>5. \A a \in Accounts : AccountSide(a, owner[a], S)' /\ AccountSide(a, cache[a], S)'
                          /\ AccountSide(a, heard[a], S)'
  BY OwnersSided, MemorySided DEF AccountSide
<1> QED
  BY <1>3, <1>4, <1>5 DEF Sided

LEMMA JoinedStep ==
  ASSUME TypeOK, Records, Unmade, Joined, [Next]_vars
  PROVE  Joined'
BY TiedStep, SidedStep DEF Joined

-----------------------------------------------------------------------------
(* An account keeps its actor unless that is merged away, and a bot's does. *)
KeepsOwner(a) ==
  \/ owner'[a] = owner[a]
  \/ owner[a] = None
  \/ \E g \in SignIns : /\ Move(g) \/ Delete(g)
                        /\ signIn[g].pc \in Merging /\ signIn[g].source = owner[a]
                        /\ owner[a] \in mergedAway' \ Bots

LEMMA OwnersKept ==
  ASSUME TypeOK, Records, Merges, [Next]_vars
  PROVE  \A a \in Accounts : KeepsOwner(a)
<1> SUFFICES ASSUME NEW a \in Accounts PROVE KeepsOwner(a)
  OBVIOUS
<1>1. ASSUME owner'[a] = owner[a] PROVE KeepsOwner(a)
  BY <1>1 DEF KeepsOwner
<1>2. ASSUME NEW f \in SignIns, InsertAccount(f) \/ LinkInsert(f) PROVE KeepsOwner(a)
  BY <1>2, InsertAccountRecords, LinkInsertRecords DEF Inserts, KeepsOwner
<1>3. ASSUME NEW f \in SignIns, Move(f) PROVE KeepsOwner(a)
  BY <1>3, MoveRecords DEF Merges, Merging, KeepsOwner
<1>4. ASSUME NEW f \in SignIns, Delete(f) PROVE KeepsOwner(a)
  <2>1. signIn[f].source \in mergedAway \ Bots /\ mergedAway' = mergedAway
        /\ signIn[f].pc \in Merging
    BY <1>4, DeleteRecords DEF Merges, Merging, Delete, merges
  <2> QED
    BY <1>4, <2>1, DeleteRecords DEF KeepsOwner, rows
<1>5. ASSUME NEW x \in Accounts, Hear(x) PROVE KeepsOwner(a)
  BY <1>5 DEF Hear, TypeOK, KeepsOwner
<1>6. ASSUME NEW f \in SignIns,
             \/ Start(f) \/ Callback(f) \/ ReadSession(f) \/ Lookup(f) \/ Select(f)
             \/ InsertActor(f) \/ CacheActor(f) \/ SetActor(f) \/ LinkSelect(f)
             \/ ClearCache(f) \/ Receive(f) \/ Throw(f) \/ ExpireState(f) \/ ExpireSession(f)
      PROVE  owner' = owner
  BY <1>6 DEF Start, Callback, ReadSession, Lookup, Select, InsertActor, CacheActor, SetActor,
     LinkSelect, ClearCache, Receive, Throw, ExpireState, ExpireSession, rows
<1>7. ASSUME NEW b, Logout(b) \/ Remember(b) \/ Crash \/ UNCHANGED vars PROVE owner' = owner
  BY <1>7 DEF Logout, Remember, Crash, vars, rows
<1> QED
  BY <1>1, <1>2, <1>3, <1>4, <1>5, <1>6, <1>7 DEF Next, Handle, Resolve, Link

LEMMA ResolvedStays ==
  ASSUME TypeOK, Records, Merges, [Next]_vars, NEW a \in Accounts, NEW A, Resolved(a, A)
  PROVE  A \in {None, owner'[a]} \cup mergedAway'
BY OwnersKept, MergesGrow DEF Resolved, KeepsOwner

LEMMA ResolvesStep ==
  ASSUME TypeOK, Records, Merges, Resolves, [Next]_vars
  PROVE  Resolves'
<1> DEFINE Found(a, A) == A \in {None, owner'[a]} \cup mergedAway'
           Recalled(a) == Found(a, cache'[a]) /\ Found(a, heard'[a])
           Finding(g) == signIn'[g].pc \in {"remember", "set", "linkCache"} =>
                           Found(AccountOf[g], signIn'[g].actor)
<1>1. ASSUME NEW a \in Accounts PROVE Found(a, cache[a]) /\ Found(a, heard[a]) /\ Found(a, owner[a])
  BY ResolvedStays DEF Resolves, Resolved
<1>2. ASSUME NEW g \in SignIns, signIn[g].pc \in {"remember", "set", "linkCache"}
      PROVE  Found(AccountOf[g], signIn[g].actor)
  BY <1>2, ResolvedStays, RecordTypes DEF Resolves
<1>3. \A a \in Accounts : Recalled(a)
  <2>1. ASSUME NEW f \in SignIns, CacheActor(f) PROVE \A a \in Accounts : Recalled(a)
    <3>1. /\ signIn[f].pc \in {"remember", "linkCache"} /\ heard' = heard
          /\ \A x \in Accounts : cache'[x] = IF x = AccountOf[f] THEN signIn[f].actor ELSE cache[x]
      BY <2>1, CacheActorRecords DEF CacheActor
    <3> HIDE DEF Found
    <3> QED
      BY <1>1, <1>2, <3>1
  <2>2. ASSUME NEW x \in Accounts, Hear(x) PROVE \A a \in Accounts : Recalled(a)
    <3>1. cache' = cache /\ \A a \in Accounts : heard'[a] \in {heard[a], owner[a], owner'[a]}
      BY <2>2 DEF Hear, TypeOK
    <3> QED
      BY <1>1, <3>1
  <2>3. ASSUME NEW x \in Accounts, Remember(x) PROVE \A a \in Accounts : Recalled(a)
    <3>1. \A a \in Accounts : cache'[a] \in {cache[a], heard[a]} /\ heard'[a] \in {None, heard[a]}
      BY <2>3 DEF Remember, TypeOK
    <3> QED
      BY <1>1, <3>1
  <2>4. ASSUME NEW f, ClearCache(f) \/ Crash PROVE \A a \in Accounts : Recalled(a)
    <3>1. \A a \in Accounts : cache'[a] = None /\ heard'[a] \in {None, heard[a]}
      BY <2>4 DEF ClearCache, Crash
    <3> QED
      BY <1>1, <3>1
  <2>5. ASSUME UNCHANGED memory PROVE \A a \in Accounts : Recalled(a)
    BY <1>1, <2>5 DEF memory
  <2>6. ASSUME NEW f \in SignIns,
               \/ Start(f) \/ Callback(f) \/ ReadSession(f) \/ Lookup(f) \/ Select(f)
               \/ InsertActor(f) \/ InsertAccount(f) \/ SetActor(f) \/ LinkSelect(f)
               \/ LinkInsert(f) \/ Move(f) \/ Delete(f) \/ Receive(f) \/ Throw(f)
               \/ ExpireState(f) \/ ExpireSession(f)
        PROVE  UNCHANGED memory
    BY <2>6 DEF Start, Callback, ReadSession, Lookup, Select, InsertActor, InsertAccount,
       SetActor, LinkSelect, LinkInsert, Move, Delete, Receive, Throw, ExpireState, ExpireSession
  <2>7. ASSUME NEW b, Logout(b) \/ UNCHANGED vars PROVE UNCHANGED memory
    BY <2>7 DEF Logout, vars
  <2> HIDE DEF Recalled
  <2> QED
    BY <2>1, <2>2, <2>3, <2>4, <2>5, <2>6, <2>7 DEF Next, Handle, Resolve, Link
<1>4. ASSUME NEW g \in SignIns PROVE Finding(g)
  <2>0. AccountOf[g] \in Accounts
    OBVIOUS
  <2>1. ASSUME signIn'[g] = signIn[g] PROVE Finding(g)
    BY <1>2, <2>1
  <2>2. ASSUME signIn'[g].pc \notin {"remember", "set", "linkCache"} PROVE Finding(g)
    BY <2>2
  <2>3. ASSUME NEW f \in SignIns, NEW pc \in {"away", "done", "refused", "failed"}, Becomes(f, pc)
        PROVE  Finding(g)
    BY <2>1, <2>2, <2>3 DEF Becomes
  <2>4. ASSUME NEW f \in SignIns, Start(f) \/ Callback(f) \/ ReadSession(f) \/ Receive(f) \/ Throw(f)
        PROVE  Finding(g)
    BY <2>1, <2>2, <2>3, <2>4, StartRecords, CallbackRecords, SendRecords, ReadRecords,
       EndRecords DEF Reuse, Creates, Moves
  <2>5. ASSUME NEW f \in SignIns,
               \/ InsertActor(f) \/ SetActor(f) \/ LinkSelect(f) \/ Move(f) \/ Delete(f)
               \/ ClearCache(f)
        PROVE  Finding(g)
    BY <2>1, <2>2, <2>3, <2>5, InsertActorRecords, SetActorRecords, LinkSelectRecords,
       MoveRecords, DeleteRecords, ClearCacheRecords DEF Moves
  <2>6. ASSUME NEW f \in SignIns, Lookup(f) \/ Select(f) PROVE Finding(g)
    BY <1>1, <2>0, <2>1, <2>2, <2>6, LookupRecords, SelectRecords DEF Moves
  <2>7. ASSUME NEW f \in SignIns, InsertAccount(f) \/ LinkInsert(f) PROVE Finding(g)
    BY <2>0, <2>1, <2>2, <2>3, <2>7, InsertAccountRecords, LinkInsertRecords DEF Moves, Inserts
  <2>8. ASSUME NEW f \in SignIns, CacheActor(f) PROVE Finding(g)
    BY <1>2, <2>1, <2>2, <2>8, CacheActorRecords DEF Moves
  <2>9. ASSUME Crash PROVE Finding(g)
    BY <2>1, <2>2, <2>9, CrashRecords
  <2>10. ASSUME NEW b, Logout(b) \/ ExpireState(b) \/ ExpireSession(b) \/ Hear(b) \/ Remember(b)
                       \/ UNCHANGED vars
         PROVE  signIn' = signIn
    BY <2>10 DEF Logout, ExpireState, ExpireSession, Hear, Remember, vars
  <2> HIDE DEF Finding
  <2> QED
    BY <2>1, <2>4, <2>5, <2>6, <2>7, <2>8, <2>9, <2>10 DEF Next, Handle, Resolve, Link
<1> QED
  BY <1>3, <1>4 DEF Resolves, Resolved

-----------------------------------------------------------------------------
(* Only the first statement of a merge adds to the actors merged away. *)
MergedBy ==
  \/ mergedAway' = mergedAway
  \/ \E f \in SignIns : /\ Move(f) /\ signIn[f].pc = "move" /\ signIn[f].source \in Actors
                        /\ mergedAway' = mergedAway \cup {signIn[f].source}
                        /\ orphaned' = orphaned \cup
                             {s \in SignIns : session[s].actor = signIn[f].source}

LEMMA MergedBySomeone ==
  ASSUME TypeOK, Records, [Next]_vars
  PROVE  MergedBy
<1>1. ASSUME NEW f \in SignIns, Move(f) PROVE MergedBy
  BY <1>1, MoveRecords DEF MergedBy
<1>2. ASSUME NEW f \in SignIns,
             \/ Start(f) \/ Callback(f) \/ ReadSession(f) \/ Lookup(f) \/ Select(f)
             \/ InsertActor(f) \/ InsertAccount(f) \/ CacheActor(f) \/ SetActor(f)
             \/ LinkSelect(f) \/ LinkInsert(f) \/ Delete(f) \/ ClearCache(f) \/ Receive(f)
             \/ Throw(f) \/ ExpireState(f) \/ ExpireSession(f)
      PROVE  mergedAway' = mergedAway
  BY <1>2 DEF Start, Callback, ReadSession, Lookup, Select, InsertActor, InsertAccount,
     CacheActor, SetActor, LinkSelect, LinkInsert, Delete, ClearCache, Receive, Throw,
     ExpireState, ExpireSession, merges
<1>3. ASSUME NEW b, Logout(b) \/ Hear(b) \/ Remember(b) \/ Crash \/ UNCHANGED vars
      PROVE  mergedAway' = mergedAway
  BY <1>3 DEF Logout, Hear, Remember, Crash, vars, merges
<1>4. mergedAway' = mergedAway => MergedBy
  BY DEF MergedBy
<1> QED
  BY <1>1, <1>2, <1>3, <1>4 DEF Next, Handle, Resolve, Link

(* Who is merging was, or has just found what to merge. *)
MergingFrom(f) ==
  signIn'[f].pc \in Merging =>
    \/ signIn'[f] = signIn[f]
    \/ Move(f) /\ signIn[f].pc = "move" /\ signIn'[f].pc = "delete"
       /\ signIn'[f].source = signIn[f].source /\ signIn[f].source \in mergedAway'
    \/ /\ LinkSelect(f) /\ signIn'[f].pc = "move"
       /\ signIn'[f].source = owner[AccountOf[f]] /\ owner[AccountOf[f]] \notin Bots
       /\ contested' = IF Rivals(f, owner[AccountOf[f]]) = {} THEN contested
                       ELSE contested \cup Rivals(f, owner[AccountOf[f]]) \cup {f}

LEMMA MergingsFrom ==
  ASSUME TypeOK, Records, [Next]_vars
  PROVE  \A f \in SignIns : MergingFrom(f)
<1> SUFFICES ASSUME NEW g \in SignIns PROVE MergingFrom(g)
  OBVIOUS
<1> DEFINE Ending == {"away", "done", "refused", "failed"}
<1>0. {"read", "respond", "lookup", "linkSelect", "select", "insertActor", "insertAccount",
       "remember", "set", "linkInsert", "linkCache", "clearCache"} \cap Merging = {}
      /\ Ending \cap Merging = {}
  BY DEF Merging
<1> HIDE DEF Ending
<1>1. ASSUME signIn'[g] = signIn[g] PROVE MergingFrom(g)
  BY <1>1 DEF MergingFrom
<1>2. ASSUME signIn'[g].pc \notin Merging PROVE MergingFrom(g)
  BY <1>2 DEF MergingFrom
<1>3. ASSUME NEW f \in SignIns, NEW pc \in Ending, Becomes(f, pc) PROVE MergingFrom(g)
  BY <1>0, <1>1, <1>2, <1>3 DEF Becomes
<1>4. ASSUME NEW f \in SignIns, Start(f) \/ Callback(f) \/ ReadSession(f) \/ Receive(f) \/ Throw(f)
      PROVE  MergingFrom(g)
  BY <1>0, <1>1, <1>2, <1>3, <1>4, StartRecords, CallbackRecords, SendRecords, ReadRecords,
     EndRecords DEF Reuse, Creates, Moves, Ending
<1>5. ASSUME NEW f \in SignIns,
             \/ Lookup(f) \/ Select(f) \/ InsertActor(f) \/ InsertAccount(f) \/ CacheActor(f)
             \/ SetActor(f) \/ LinkInsert(f) \/ Delete(f) \/ ClearCache(f)
      PROVE  MergingFrom(g)
  BY <1>0, <1>1, <1>2, <1>3, <1>5, LookupRecords, SelectRecords, InsertActorRecords,
     InsertAccountRecords, CacheActorRecords, SetActorRecords, LinkInsertRecords,
     DeleteRecords, ClearCacheRecords DEF Moves, Ending
<1>6. ASSUME NEW f \in SignIns, LinkSelect(f) PROVE MergingFrom(g)
  <2>1. CASE g = f
    BY <1>0, <1>6, <2>1, LinkSelectRecords DEF Moves, MergingFrom
  <2>2. CASE g # f
    BY <1>1, <1>6, <2>2, LinkSelectRecords DEF Moves
  <2> QED
    BY <2>1, <2>2
<1>7. ASSUME NEW f \in SignIns, Move(f) PROVE MergingFrom(g)
  <2>1. CASE g = f
    BY <1>0, <1>7, <2>1, MoveRecords DEF Moves, Becomes, MergingFrom, Ending
  <2>2. CASE g # f
    BY <1>1, <1>7, <2>2, MoveRecords DEF Moves, Becomes
  <2> QED
    BY <2>1, <2>2
<1>8. ASSUME Crash PROVE MergingFrom(g)
  BY <1>0, <1>1, <1>2, <1>8, CrashRecords DEF Ending
<1>9. ASSUME NEW b, Logout(b) \/ ExpireState(b) \/ ExpireSession(b) \/ Hear(b) \/ Remember(b)
                      \/ UNCHANGED vars
      PROVE  signIn' = signIn
  BY <1>9 DEF Logout, ExpireState, ExpireSession, Hear, Remember, vars
<1> QED
  BY <1>1, <1>4, <1>5, <1>6, <1>7, <1>8, <1>9 DEF Next, Handle, Resolve, Link

LEMMA MergesStep ==
  ASSUME TypeOK, Records, Merges, [Next]_vars
  PROVE  Merges'
<1>1. mergedAway' \cap Bots = {}
  BY MergedBySomeone DEF Merges, MergedBy, Merging
<1>2. ASSUME NEW s \in SignIns, session'[s].actor \in mergedAway' PROVE s \in orphaned'
  <2>1. session'[s].actor # None
    BY <1>2, TypeMerges DEF Actors
  <2>2. CASE session'[s].actor = session[s].actor
    BY <1>2, <2>2, MergedBySomeone, MergesGrow DEF Merges, MergedBy
  <2>3. ASSUME NEW f \in SignIns, SetActor(f), signIn[f].session = s, signIn[f].actor \in actors,
               session'[s].actor = signIn[f].actor
        PROVE  s \in orphaned'
    BY <1>2, <2>3 DEF SetActor
  <2> QED
    BY <2>1, <2>2, <2>3, SetBySomeone DEF SetBy
<1>3. ASSUME NEW f \in SignIns
      PROVE  /\ signIn'[f].pc \in Merging => signIn'[f].source \notin Bots
             /\ signIn'[f].pc = "delete" => signIn'[f].source \in mergedAway'
             /\ signIn'[f].pc = "move" /\ f \notin contested' =>
                  owner'[AccountOf[f]] = signIn'[f].source
  <2>1. {"move", "delete"} = Merging /\ AccountOf[f] \in Accounts
    BY DEF Merging
  <2>2. CASE signIn'[f] = signIn[f]
    <3>1. ASSUME signIn[f].pc = "move", f \notin contested'
          PROVE  owner'[AccountOf[f]] = signIn[f].source
      <4>1. owner[AccountOf[f]] = signIn[f].source
        BY <3>1, MergesGrow DEF Merges
      <4>2. signIn[f].source # None
        BY <3>1 DEF Records, Record, Merging
      <4>3. ASSUME NEW g \in SignIns, Move(g) \/ Delete(g), signIn[g].pc \in Merging,
                   signIn[g].source = signIn[f].source
            PROVE  FALSE
        <5>1. g # f
          BY <2>2, <3>1, <4>3, MoveRecords, DeleteRecords DEF Moves, Becomes
        <5> QED
          BY <2>1, <3>1, <4>3, <5>1, MergesGrow DEF Merges
      <4> QED
        BY <2>1, <4>1, <4>2, <4>3, OwnersKept DEF KeepsOwner
    <3> QED
      BY <2>2, <3>1, MergesGrow DEF Merges
  <2>3. CASE /\ Move(f) /\ signIn[f].pc = "move" /\ signIn'[f].pc = "delete"
             /\ signIn'[f].source = signIn[f].source /\ signIn[f].source \in mergedAway'
    BY <2>1, <2>3 DEF Merges
  <2>4. CASE /\ LinkSelect(f) /\ signIn'[f].pc = "move"
             /\ signIn'[f].source = owner[AccountOf[f]] /\ owner[AccountOf[f]] \notin Bots
    <3>1. owner' = owner
      BY <2>4 DEF LinkSelect, rows
    <3> QED
      BY <2>4, <3>1
  <2> QED
    BY <2>1, <2>2, <2>3, <2>4, MergingsFrom DEF MergingFrom
<1>4. ASSUME NEW f \in SignIns, NEW g \in SignIns, f # g, signIn'[f].pc \in Merging,
             signIn'[g].pc \in Merging, signIn'[f].source = signIn'[g].source
      PROVE  f \in contested' /\ g \in contested'
  <2> DEFINE Was(x) == signIn[x].pc \in Merging /\ signIn'[x].source = signIn[x].source
             New(x) == /\ LinkSelect(x) /\ signIn'[x].source = owner[AccountOf[x]]
                          /\ contested' = IF Rivals(x, owner[AccountOf[x]]) = {} THEN contested
                               ELSE contested \cup Rivals(x, owner[AccountOf[x]]) \cup {x}
  <2>1. ASSUME NEW x \in SignIns, signIn'[x].pc \in Merging PROVE Was(x) \/ New(x)
    <3>1. MergingFrom(x) /\ "move" \in Merging
      BY MergingsFrom DEF Merging
    <3> QED
      BY <2>1, <3>1 DEF MergingFrom
  <2>2. CASE Was(f) /\ Was(g)
    BY <1>4, <2>2, MergesGrow DEF Merges
  <2>3. ASSUME NEW x \in SignIns, NEW y \in SignIns, x # y, New(x),
               signIn'[y].pc \in Merging, signIn'[x].source = signIn'[y].source
        PROVE  x \in contested' /\ y \in contested'
    <3>1. signIn'[y] = signIn[y]
      BY <2>3, LinkSelectRecords DEF Moves
    <3>2. y \in Rivals(x, owner[AccountOf[x]])
      BY <2>3, <3>1 DEF Rivals
    <3> QED
      BY <2>3, <3>2
  <2> HIDE DEF Was, New
  <2> QED
    BY <1>4, <2>1, <2>2, <2>3
<1> QED
  BY <1>1, <1>2, <1>3, <1>4 DEF Merges

-----------------------------------------------------------------------------
(* A session keeps its actor, unless that is merged away. *)
LEMMA ActorStays ==
  ASSUME TypeOK, Records, Merges, ActorsKept, [Next]_vars, NEW s \in SignIns,
         signIn[s].pc \notin {"read", "set"}, s \notin orphaned', session[s].actor # None
  PROVE  session'[s].actor = session[s].actor
<1>1. s \notin orphaned
  BY MergesGrow
<1>2. ASSUME NEW f \in SignIns, Delete(f), session[s].actor = signIn[f].source PROVE FALSE
  BY <1>1, <1>2, DeleteRecords DEF Merges
<1>3. ASSUME NEW f \in SignIns, SetActor(f), signIn[f].session = s PROVE FALSE
  <2>1. signIn[f].pc = "set" /\ s # None
    BY <1>3 DEF SetActor
  <2> QED
    BY <1>1, <1>3, <2>1 DEF ActorsKept, Goes, Resolving
<1> QED
  BY <1>2, <1>3, SetBySomeone DEF SetBy

LEMMA ActingStays ==
  ASSUME TypeOK, Records, Unmade, Merges, ActorsKept, [Next]_vars,
         NEW s, NEW b, Established(s, b), Acting(s)
  PROVE  Acting(s)'
<1>1. s \in SignIns /\ signIn[s].pc = "done"
  BY DEF Established
<1> QED
  BY <1>1, ActorStays, MergesGrow DEF Acting

LEMMA AttachedStays ==
  ASSUME TypeOK, Records, Merges, Merges', [Next]_vars, NEW f \in SignIns, NEW s \in SignIns,
         s \notin orphaned', session[s].actor # None, session'[s].actor = session[s].actor,
         Attached(f, s)
  PROVE  Attached(f, s)'
<1>1. contested \subseteq contested' /\ AccountOf[f] \in Accounts /\ None \notin Bots
  BY MergesGrow
<1>2. owner[AccountOf[f]] \in mergedAway' \ Bots => owner[AccountOf[f]] # session[s].actor
  BY DEF Merges
<1>3. owner[AccountOf[f]] = None => f \in contested
  BY <1>1 DEF Attached
<1> QED
  BY <1>1, <1>2, <1>3, OwnersKept DEF Attached, KeepsOwner

(* Before the answer of a callback that goes by a session that is nobody
   else's to change, or that has its actor. *)
LEMMA GoesStep ==
  ASSUME TypeOK, Records, Unmade, Sessions, Resolves, Merges, Merges', ActorsKept, [Next]_vars
  PROVE  \A g \in SignIns : Goes(g)'
<1> SUFFICES ASSUME NEW g \in SignIns, NEW s, s = signIn'[g].session, s # None, s \notin orphaned'
             PROVE  /\ signIn'[g].pc \in Resolving => s = g
                    /\ signIn'[g].pc \in Linking => session'[s].actor = signIn'[g].actor
                    /\ signIn'[g].pc \in {"linkCache", "delete", "clearCache", "respond"} =>
                         session'[s].actor # None /\ Attached(g, s)'
  BY DEF Goes
<1> DEFINE Through == {"linkCache", "delete", "clearCache", "respond"}
           Goal == /\ signIn'[g].pc \in Resolving => s = g
                   /\ signIn'[g].pc \in Linking => session'[s].actor = signIn'[g].actor
                   /\ signIn'[g].pc \in Through => session'[s].actor # None /\ Attached(g, s)'
<1>0. s \in SignIns /\ s \notin orphaned /\ AccountOf[g] \in Accounts /\ None \notin SignIns
  BY TypeRecords, MergesGrow DEF SignIn, Optional
<1>00. /\ Resolving \cap Linking = {} /\ Resolving \cap Through = {} /\ Merging \subseteq Linking
       /\ {"linkCache", "delete", "clearCache", "linkSelect", "linkInsert", "move"} \subseteq Linking
       /\ "respond" \notin Linking \cup Resolving /\ {"lookup", "set", "remember"} \subseteq Resolving
       /\ "read" \notin Resolving \cup Linking \cup Through
       /\ Through \subseteq Handling \ {"read"} /\ Linking \subseteq Handling \ {"read"}
  BY DEF Resolving, Linking, Merging, Handling
(* Past the lookup of the session it stays as it is. *)
<1>1. ASSUME signIn[g].session = s, signIn[g].pc \in Linking \cup Through
      PROVE  /\ session[s].actor # None => session'[s].actor = session[s].actor
             /\ signIn[g].pc \in Linking => session[s].actor = signIn[g].actor /\ signIn[g].actor # None
             /\ signIn[g].pc \in Through => session'[s].actor # None /\ Attached(g, s)'
  <2>1. signIn[s].pc \notin {"read", "set"}
    <3>1. CASE s = g
      BY <1>00, <1>1, <3>1
    <3>2. CASE s # g
      BY <1>0, <1>1, <3>2 DEF Sessions, Established
    <3> QED
      BY <3>1, <3>2
  <2>2. session[s].actor # None => session'[s].actor = session[s].actor
    BY <1>0, <2>1, ActorStays
  <2>3. signIn[g].pc \in Linking => session[s].actor = signIn[g].actor /\ signIn[g].actor # None
    BY <1>0, <1>1 DEF ActorsKept, Goes, Records, Record
  <2>4. signIn[g].pc \in Through => session[s].actor # None /\ Attached(g, s)
    BY <1>0, <1>1 DEF ActorsKept, Goes
  <2> HIDE DEF Through
  <2>5. signIn[g].pc \in Through => session'[s].actor # None /\ Attached(g, s)'
    BY <1>0, <2>2, <2>4, AttachedStays
  <2> QED
    BY <2>2, <2>3, <2>5
<1> HIDE DEF Through
<1>2. ASSUME signIn'[g] = signIn[g] PROVE Goal
  <2>1. signIn[g].pc \in Resolving => s = g
    BY <1>0, <1>2 DEF ActorsKept, Goes
  <2> QED
    BY <1>1, <1>2, <2>1
<1>3. ASSUME signIn'[g].pc \notin Resolving \cup Linking \cup Through PROVE Goal
  BY <1>3
<1>4. ASSUME NEW f \in SignIns, ReadSession(f), f = g PROVE Goal
  <2>1. CASE Creates(f)
    BY <1>00, <1>4, <2>1 DEF Creates, Moves
  <2>2. CASE Reuse(f)
    <3>1. s = signIn[g].cookie /\ session' = session /\ signIn'[g].actor = session[s].actor
          /\ signIn'[g].pc = IF session[s].actor = None THEN "lookup" ELSE "linkSelect"
      BY <1>4, <2>2 DEF Reuse, Moves
    <3>2. session[s].actor # None
      BY <1>0, <3>1 DEF ActorsKept, Acting
    <3> QED
      BY <1>00, <3>1, <3>2 DEF Through
  <2> QED
    BY <1>4, <2>1, <2>2, ReadRecords
<1>5. ASSUME signIn'[g].pc \in Resolving, signIn[g].pc \in Resolving, s = signIn[g].session
      PROVE  Goal
  <2>1. s = g
    BY <1>0, <1>5 DEF ActorsKept, Goes
  <2> QED
    BY <1>00, <1>5, <2>1
<1>6. ASSUME SetActor(g), s = signIn[g].session, signIn'[g].pc = "respond" PROVE Goal
  <2>1. /\ signIn[g].pc = "set" /\ session'[s].actor = signIn[g].actor
        /\ signIn[g].actor \in actors
        /\ orphaned' = IF signIn[g].actor \in mergedAway THEN orphaned \cup {s} ELSE orphaned
    BY <1>6, SetActorRecords DEF Moves, Becomes
  <2>2. signIn[g].actor # None /\ owner' = owner
    BY <1>6, <2>1 DEF TypeOK, Actors, SetActor
  <2>3. owner[AccountOf[g]] = signIn[g].actor
    BY <1>0, <2>1, <2>2 DEF Resolves, Resolved
  <2> QED
    BY <1>00, <1>6, <2>1, <2>2, <2>3 DEF Attached
<1>7. ASSUME LinkSelect(g), s = signIn[g].session PROVE Goal
  <2>1. signIn[g].pc = "linkSelect" /\ UNCHANGED <<owner, session>>
    BY <1>7 DEF LinkSelect, rows
  <2>2. session[s].actor = signIn[g].actor /\ signIn[g].actor # None
    BY <1>00, <1>1, <1>7, <2>1
  <2>3. CASE signIn'[g].pc = "respond" /\ owner[AccountOf[g]] \in {signIn[g].actor} \cup Bots
    BY <1>00, <2>1, <2>2, <2>3 DEF Attached
  <2>4. CASE signIn'[g].pc \in {"linkInsert", "move"} /\ signIn'[g].actor = signIn[g].actor
    BY <1>00, <2>1, <2>2, <2>4 DEF Through
  <2> QED
    BY <1>7, <2>3, <2>4, LinkSelectRecords DEF Moves
<1>8. ASSUME LinkInsert(g), s = signIn[g].session, signIn'[g].pc = "linkCache" PROVE Goal
  <2>1. /\ signIn[g].pc = "linkInsert" /\ session' = session
        /\ owner'[AccountOf[g]] = signIn[g].actor /\ signIn'[g].actor = signIn[g].actor
    BY <1>0, <1>8, LinkInsertRecords DEF LinkInsert, Moves, Becomes, Inserts
  <2>2. session[s].actor = signIn[g].actor /\ signIn[g].actor # None
    BY <1>00, <1>1, <1>8, <2>1
  <2> QED
    BY <1>00, <1>8, <2>1, <2>2 DEF Attached
<1>9. ASSUME Move(g), s = signIn[g].session, signIn'[g].pc = "delete" PROVE Goal
  <2>1. /\ signIn[g].pc = "move" /\ session' = session /\ contested' = contested
        /\ signIn'[g].actor = signIn[g].actor
        /\ \A x \in Accounts : owner'[x] = IF owner[x] = signIn[g].source THEN signIn[g].actor
                                                                         ELSE owner[x]
    BY <1>9, MoveRecords DEF Move, Moves, Becomes
  <2>2. session[s].actor = signIn[g].actor /\ signIn[g].actor # None
    BY <1>00, <1>1, <1>9, <2>1
  <2>3. g \in contested \/ owner[AccountOf[g]] = signIn[g].source
    BY <2>1 DEF Merges
  <2> QED
    BY <1>0, <1>00, <1>9, <2>1, <2>2, <2>3 DEF Attached
<1>10. ASSUME s = signIn[g].session, signIn[g].pc \in Through, signIn'[g].pc \in Through,
              signIn'[g].pc \in Linking => signIn[g].pc \in Linking /\ signIn'[g].actor = signIn[g].actor
       PROVE  Goal
  <2>1. session'[s].actor # None /\ Attached(g, s)'
    BY <1>1, <1>10
  <2>2. signIn'[g].pc \in Linking => session'[s].actor = signIn'[g].actor
    BY <1>1, <1>10
  <2> QED
    BY <1>00, <1>10, <2>1, <2>2
<1> HIDE DEF Goal
<1>11. ASSUME NEW f \in SignIns, NEW pc \in {"away", "done", "refused", "failed"}, Becomes(f, pc)
       PROVE  Goal
  BY <1>2, <1>11 DEF Becomes
<1>12. ASSUME NEW f \in SignIns, Start(f) \/ Callback(f) \/ ReadSession(f) \/ Receive(f) \/ Throw(f)
       PROVE  Goal
  BY <1>00, <1>2, <1>3, <1>4, <1>11, <1>12, StartRecords, CallbackRecords, SendRecords,
     ReadRecords, EndRecords DEF Reuse, Creates, Moves
<1>13. ASSUME NEW f \in SignIns, Lookup(f) \/ Select(f) \/ InsertActor(f) PROVE Goal
  <2>1. CASE f # g
    BY <1>2, <1>13, <2>1, LookupRecords, SelectRecords, InsertActorRecords DEF Moves
  <2>2. CASE f = g
    BY <1>5, <1>13, <2>2, LookupRecords, SelectRecords, InsertActorRecords DEF Moves, Resolving
  <2> QED
    BY <2>1, <2>2
<1>14. ASSUME NEW f \in SignIns, InsertAccount(f) \/ SetActor(f) PROVE Goal
  <2>1. CASE f # g
    BY <1>2, <1>11, <1>14, <2>1, InsertAccountRecords, SetActorRecords DEF Moves
  <2>2. CASE f = g
    BY <1>5, <1>6, <1>11, <1>14, <2>2, InsertAccountRecords, SetActorRecords DEF Moves, Resolving
  <2> QED
    BY <2>1, <2>2
<1>15. ASSUME NEW f \in SignIns, CacheActor(f) PROVE Goal
  <2>1. CASE f # g
    BY <1>2, <1>15, <2>1, CacheActorRecords DEF Moves
  <2>2. CASE f = g /\ signIn[g].pc = "remember"
    BY <1>5, <1>15, <2>2, CacheActorRecords DEF Moves, Resolving
  <2>3. CASE f = g /\ signIn[g].pc # "remember"
    BY <1>00, <1>10, <1>15, <2>3, CacheActorRecords DEF Moves, Through
  <2> QED
    BY <2>1, <2>2, <2>3
<1>16. ASSUME NEW f \in SignIns, LinkSelect(f) PROVE Goal
  <2>1. CASE f # g
    BY <1>2, <1>16, <2>1, LinkSelectRecords DEF Moves
  <2>2. CASE f = g
    BY <1>7, <1>16, <2>2, LinkSelectRecords DEF Moves
  <2> QED
    BY <2>1, <2>2
<1>17. ASSUME NEW f \in SignIns, LinkInsert(f) \/ Move(f) PROVE Goal
  <2>1. CASE f # g
    BY <1>2, <1>11, <1>17, <2>1, LinkInsertRecords, MoveRecords DEF Moves
  <2>2. CASE f = g
    BY <1>8, <1>9, <1>11, <1>17, <2>2, LinkInsertRecords, MoveRecords DEF Moves
  <2> QED
    BY <2>1, <2>2
<1>18. ASSUME NEW f \in SignIns, Delete(f) \/ ClearCache(f) PROVE Goal
  <2>1. CASE f # g
    BY <1>2, <1>11, <1>18, <2>1, DeleteRecords, ClearCacheRecords DEF Moves
  <2>2. CASE f = g
    BY <1>00, <1>10, <1>11, <1>18, <2>2, DeleteRecords, ClearCacheRecords DEF Moves, Through
  <2> QED
    BY <2>1, <2>2
<1>19. ASSUME Crash PROVE Goal
  BY <1>2, <1>19, CrashRecords
<1>20. ASSUME NEW b, Logout(b) \/ ExpireState(b) \/ ExpireSession(b) \/ Hear(b) \/ Remember(b)
                     \/ UNCHANGED vars
       PROVE  Goal
  BY <1>2, <1>20 DEF Logout, ExpireState, ExpireSession, Hear, Remember, vars
<1>21. Goal
  BY <1>12, <1>13, <1>14, <1>15, <1>16, <1>17, <1>18, <1>19, <1>20 DEF Next, Handle, Resolve, Link
<1> QED
  BY <1>21 DEF Goal, Through

LEMMA ActorsKeptStep ==
  ASSUME TypeOK, Records, Unmade, Sessions, Resolves, Merges, Merges', ActorsKept, [Next]_vars
  PROVE  ActorsKept'
<1>1. ASSUME NEW s, NEW b \in Browsers, s # None, Established(s, b), Acting(s) PROVE Acting(s)'
  BY <1>1, ActingStays
<1>2. ASSUME NEW g \in SignIns PROVE Acting(signIn[g].cookie)'
  <2>1. ASSUME NEW x, x = signIn'[g].cookie, x # None, x \notin orphaned'
        PROVE  session'[x].actor # None
    <3>1. BrowserOf[g] \in Browsers /\ x \in {signIn[g].cookie, cookie[BrowserOf[g]]}
      BY <2>1, Sources DEF Source
    <3>2. Established(x, BrowserOf[g]) /\ Acting(x)
      BY <2>1, <3>1 DEF Sessions, ActorsKept
    <3> QED
      BY <1>1, <2>1, <3>1, <3>2 DEF Acting
  <2> QED
    BY <2>1 DEF Acting
<1>3. ASSUME NEW b \in Browsers PROVE Acting(cookie[b])'
  <2>1. ASSUME NEW x, x = cookie'[b], x # None, x \notin orphaned' PROVE session'[x].actor # None
    <3>1. CASE x = cookie[b]
      <4>1. Established(x, b) /\ Acting(x)
        BY <2>1, <3>1 DEF Sessions, ActorsKept
      <4> QED
        BY <1>1, <2>1, <4>1 DEF Acting
    <3>2. ASSUME NEW f \in SignIns, Receive(f), x = signIn[f].session
          PROVE  session'[x].actor # None
      <4>1. signIn[f].pc = "respond" /\ UNCHANGED <<session, orphaned>>
        BY <3>2 DEF Receive, rows, merges
      <4> QED
        BY <2>1, <3>2, <4>1 DEF ActorsKept, Goes
    <3> QED
      BY <2>1, <3>1, <3>2, Holdings DEF Holding
  <2> QED
    BY <2>1 DEF Acting
<1> QED
  BY <1>2, <1>3, GoesStep DEF ActorsKept

(* A sign-in that a browser sees succeed has its account attached to the
   session of the sitting it adds to. *)
LEMMA SittingOwnedStep ==
  ASSUME TypeOK, Records, Unmade, Sessions, Merges, Merges', ActorsKept, OneSession, OneSession',
         OneActorPerSitting, [Next]_vars
  PROVE  OneActorPerSitting'
<1> SUFFICES ASSUME NEW b \in Browsers, sitting'[b] \cap split' = {}, cookie'[b] \notin orphaned',
                    NEW x \in sitting'[b], x \notin contested'
             PROVE  owner'[AccountOf[x]] \in {session'[cookie'[b]].actor} \cup Bots
  BY DEF OneActorPerSitting
<1>1. x \in SignIns /\ x \notin contested
  BY TypeVisits, MergesGrow
<1>2. CASE sitting'[b] = sitting[b] /\ cookie'[b] = cookie[b]
  <2> DEFINE c == cookie[b]
  <2>1. Established(c, b) /\ Acting(c) /\ c # None
    <3>1. c \in SignIns
      BY <1>2 DEF OneSession, Live
    <3> QED
      BY <3>1 DEF Sessions, ActorsKept
  <2>2. /\ c \in SignIns /\ c \notin orphaned /\ session[c].actor # None
        /\ session'[c].actor = session[c].actor
    BY <1>2, <2>1, ActorStays, MergesGrow DEF Established, Acting
  <2>3. Attached(x, c)
    BY <1>1, <1>2, <2>2, SplitGrows DEF OneActorPerSitting, Attached
  <2>4. Attached(x, c)'
    <3>1. ASSUME NEW s, s = c PROVE Attached(x, s)'
      BY <1>1, <1>2, <2>2, <2>3, <3>1, AttachedStays
    <3>2. owner'[AccountOf[x]] \in {session'[c].actor} \cup Bots
      BY <3>1 DEF Attached
    <3> QED
      BY <1>2, <3>2 DEF Attached
  <2> QED
    BY <1>2, <2>4 DEF Attached
<1>3. ASSUME NEW f \in SignIns, Receive(f), BrowserOf[f] = b
      PROVE  owner'[AccountOf[x]] \in {session'[cookie'[b]].actor} \cup Bots
  <2> DEFINE s == signIn[f].session
  <2>1. /\ s \in SignIns /\ signIn[f].pc = "respond" /\ cookie'[b] = s
        /\ UNCHANGED <<owner, session, orphaned, split>>
        /\ session[s].status = "live" /\ sitting'[b] = sitting[b] \cup {f}
    BY <1>3, Holds DEF Receive, Handling, rows, merges, TypeOK
  <2>2. Attached(f, s)
    BY <2>1 DEF ActorsKept, Goes
  <2>3. CASE x = f
    BY <1>1, <2>1, <2>2, <2>3 DEF Attached
  <2>4. CASE x \in sitting[b]
    <3>1. Going(f) = s /\ Handled(f) /\ Live(Going(f)) /\ f \notin split
      BY <2>1 DEF Going, Handled, Handling, Live
    <3>2. s = cookie[b]
      BY <1>3, <2>1, <2>4, <3>1 DEF OneSession, Joins
    <3> QED
      BY <1>1, <2>1, <2>4, <3>2 DEF OneActorPerSitting
  <2> QED
    BY <2>1, <2>3, <2>4
<1>4. CASE ~ \E f \in SignIns : Receive(f) /\ BrowserOf[f] = b
  <2>1. sitting'[b] = sitting[b] /\ cookie'[b] \in {None, cookie[b]}
    BY <1>4, Holdings DEF Holding
  <2>2. cookie'[b] \in SignIns
    BY DEF OneSession, Live
  <2> QED
    BY <1>2, <2>1, <2>2
<1> QED
  BY <1>3, <1>4

-----------------------------------------------------------------------------
LEMMA StepInv == IInv /\ [Next]_vars => IInv'
<1> SUFFICES ASSUME IInv, [Next]_vars PROVE IInv'
  OBVIOUS
<1> USE DEF IInv
<1>1. TypeOK' /\ Records' /\ Unmade' /\ Sessions'
  BY TypeStep, RecordsStep, UnmadeStep, SessionsStep
<1>2. Stated' /\ Left' /\ Joined' /\ Resolves' /\ Merges'
  BY StatedStep, LeftStep, JoinedStep, ResolvesStep, MergesStep
<1>3. ActorsKept' /\ OneSession'
  BY <1>2, ActorsKeptStep, OneSessionStep
<1>4. OneActorPerSitting' /\ RefusalsExplained'
  BY <1>2, <1>3, SittingOwnedStep, RefusedStep
<1> QED
  BY <1>1, <1>2, <1>3, <1>4

LEMMA Invariance == Spec => []IInv
BY InitInv, StepInv, PTL DEF Spec

(* Every variable keeps its type: what an actor that was deleted owned, or
   was the actor of, has gone with it. *)
THEOREM TypeCorrect == Spec => []TypeOK
<1>1. IInv => TypeOK
  BY DEF IInv
<1> QED
  BY <1>1, Invariance, PTL

(* A sign-in is refused only after the user has declined, or another one at
   the same provider got in its way, or when it took too long: a callback
   that brings a code finds the state cookie its own sign-in has set, or that
   sign-in was disturbed. *)
THEOREM RefusalsAreExplained == Spec => []RefusalsExplained
<1>1. IInv => RefusalsExplained
  BY DEF IInv
<1> QED
  BY <1>1, Invariance, PTL

(* Accounts come to share an actor only along a chain of sign-ins that went
   by one session each, and every session is one browser's: whatever is
   cached, and wherever merges are cut off or meet. *)
THEOREM AccountsAreJoined == Spec => []JoinedBySessions
<1>1. IInv => JoinedBySessions
  <2> SUFFICES ASSUME IInv PROVE JoinedBySessions
    OBVIOUS
  <2> USE DEF IInv
  <2>1. ASSUME NEW f \in SignIns, signIn[f].session # None
        PROVE  BrowserOf[signIn[f].session] = BrowserOf[f]
    BY <2>1 DEF Sessions, Established
  <2>2. ASSUME NEW S \in SUBSET Accounts,
               \A s \in SignIns : under[s] \subseteq S \/ under[s] \cap S = {},
               NEW a \in S, NEW x \in Accounts \ S, owner[a] # None, owner[a] = owner[x]
        PROVE  FALSE
    <3>1. Closed(S) /\ Closed(Accounts \ S)
      BY <2>2 DEF Closed, TypeOK
    <3>2. Sided(S) /\ Sided(Accounts \ S)
      BY <3>1 DEF Joined
    <3>3. AccountSide(a, owner[a], S) /\ AccountSide(x, owner[x], Accounts \ S)
      BY <3>2 DEF Sided
    <3> QED
      BY <2>2, <3>3 DEF AccountSide
  <2> QED
    BY <2>1, <2>2 DEF JoinedBySessions
<1> QED
  BY <1>1, Invariance, PTL

(* Accounts signed in with in one sitting belong to one actor and go on doing
   so, whatever the order of the callbacks, of logouts, expiries and failures
   among them, of the merges of other browsers, and of the messages that fill
   the cache: but for a bot's account, a callback that opened a session beside
   another's, a session whose actor was merged away, if only by a merge cut
   off, and two merges of one actor at a time. *)
THEOREM OneActorInASitting == Spec => []OneActorPerSitting
<1>1. IInv => OneActorPerSitting
  BY DEF IInv
<1> QED
  BY <1>1, Invariance, PTL

LEMMA OnlyReceived ==
  ASSUME TypeOK, Records, Next, NEW f \in SignIns, signIn[f].pc = "respond", signIn'[f].pc = "done"
  PROVE  Receive(f)
<1>1. ASSUME NEW g \in SignIns, Receive(g), g # f PROVE FALSE
  BY <1>1, EndRecords DEF Becomes
<1>2. ASSUME NEW g \in SignIns, Start(g) \/ Callback(g) \/ ReadSession(g) PROVE FALSE
  BY <1>2, StartRecords, CallbackRecords, SendRecords, ReadRecords DEF Becomes, Reuse, Creates, Moves
<1>3. ~ Inner
  BY InnerDrift DEF Drifts, Handling, Resolving, Linking, Merging
<1> QED
  BY <1>1, <1>2, <1>3, Kinds DEF ExpireState, ExpireSession, Logout

(* A browser that has logged out of a session is not logged in to it again
   except by a callback that was in progress at a logout. *)
THEOREM LogoutsHold == Spec => LogoutHolds
<1>1. IInv /\ [Next]_vars =>
        [\A f \in SignIns :
           /\ signIn[f].pc = "respond" /\ signIn'[f].pc = "done"
           /\ cookie'[BrowserOf[f]] \in left[BrowserOf[f]]
           => f \in inFlight]_vars
  <2> SUFFICES ASSUME IInv, Next, NEW f \in SignIns,
                      signIn[f].pc = "respond", signIn'[f].pc = "done",
                      cookie'[BrowserOf[f]] \in left[BrowserOf[f]]
               PROVE  f \in inFlight
    BY DEF vars
  <2>1. cookie'[BrowserOf[f]] = signIn[f].session
    BY OnlyReceived DEF IInv, TypeOK, Receive
  <2>2. Going(f) \in left[BrowserOf[f]] /\ signIn[f].pc \in Handling
    BY <2>1 DEF Going, Handling
  <2> QED
    BY <2>2 DEF IInv, Left
<1> QED
  BY <1>1, Invariance, PTL DEF Spec, LogoutHolds

(* The dashboard a successful callback redirects to shows the account as
   connected, unless the session ran out, its actor was merged away, meanwhile
   or before it was resolved from the cache, the account is a bot's and stays
   its own, or another sign-in was merging the account's actor too. *)
THEOREM ConnectedIsShown == Spec => ShownWhenConnected
<1>1. IInv /\ [Next]_vars =>
        [\A f \in SignIns :
           signIn[f].pc = "respond" /\ signIn'[f].pc = "done"
           => \/ AccountOf[f] \in Dashboard(BrowserOf[f])'
              \/ session[signIn[f].session].status = "expired"
              \/ signIn[f].session \in orphaned
              \/ owner[AccountOf[f]] \in Bots
              \/ f \in contested]_vars
  <2> SUFFICES ASSUME IInv, Next, NEW f \in SignIns,
                      signIn[f].pc = "respond", signIn'[f].pc = "done",
                      session[signIn[f].session].status # "expired",
                      signIn[f].session \notin orphaned,
                      owner[AccountOf[f]] \notin Bots, f \notin contested
               PROVE  AccountOf[f] \in Dashboard(BrowserOf[f])'
    BY DEF vars
  <2> DEFINE s == signIn[f].session
  <2>1. s \in SignIns
    BY Holds DEF IInv, Handling
  <2>2. /\ cookie'[BrowserOf[f]] = s /\ UNCHANGED <<owner, session>>
    BY OnlyReceived DEF IInv, TypeOK, Receive, rows
  <2>3. session[s].status = "live"
    <3>1. session[s].status \in {"absent", "live", "expired"}
      BY <2>1 DEF IInv, TypeOK, Session
    <3>2. session[s].status # "absent"
      BY <2>1 DEF IInv, Sessions, Established
    <3> QED
      BY <3>1, <3>2
  <2>4. session[s].actor # None /\ owner[AccountOf[f]] = session[s].actor
    BY <2>1 DEF IInv, ActorsKept, Goes, Attached
  <2> QED
    BY <2>1, <2>2, <2>3, <2>4 DEF Dashboard
<1> QED
  BY <1>1, Invariance, PTL DEF Spec, ShownWhenConnected
================================================================================
