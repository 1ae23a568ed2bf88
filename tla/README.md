# OSS-Maintainer-AI: models, model checking and proofs

This directory models the concurrent core of OSS-Maintainer-AI in TLA+: what the
maintainer agent decides, how its turns share a conversation's row and a model provider,
how messages enter, how identities and conversations are resolved, how people link their
accounts, how documentation gets into the search index, and how a reply that could not be
sent is recovered. Paths below are relative to the repository root.

## 1. The system

A message from GitHub, Slack, Discord or Teams enters through a gateway
(`src/gateway/*-gateway.ts`, `webhook-server.ts`), is de-duplicated, its sender and
thread resolved to an actor and a conversation, stored, and published on the in-process
event bus (`communication-service.ts`, `event-bus.ts`). The workflow engine
(`src/core/workflow/workflow-engine.ts`) runs the agent on it and replies through
`envelope.respond` (`src/index.ts`), which queues a reply it cannot send. A general
question goes to the model through the tool loop (`src/core/tools/tool-executor.ts`), whose
one tool searches what `ingest:docs` has indexed. Beside this a dashboard
(`src/web/auth-routes.ts`) lets a person link the accounts they write from.

Node runs one callback at a time, but every `await` lets others run: webhook deliveries,
OAuth callbacks and timer ticks interleave at every database or network call. No
component takes a lock or opens a transaction, and ingestion runs are processes of their own
against the same database. So the unit of atomicity in every module
is *the code between two awaits*, with the statement a database executes as one step.

| component | state | operations | hard parts | correct when |
|---|---|---|---|---|
| workflow engine, conversation state | `conversations` row: escalation, failure streak, triage state | `handleEvent`, `escalate`, `recordOutcome`, `saveTriageState` | turns of one conversation interleave; failures and crashes between persisting and replying | escalations, hand-offs and issue proposals are earned; silence is explained |
| maintainer agent and workflows | none | classify, evaluate, route, respond | precedence of policies, thresholds | used by the engine's properties |
| conversation service | `conversations`, `conversation_channel_mappings` | `resolveOrCreate` | concurrent first messages, unique index, lost acknowledgements | one conversation per thread |
| identity service | `actors`, `actor_accounts`, `messages.sender_actor_id`, a cache | `resolveActor`, `linkProviderToActor` | merge of three statements, stale cache, cascades | people are not mixed up, nothing is lost by linking |
| account-linking dashboard | `link_sessions` rows; the browser's session and state cookies | start, callback, logout, dashboard | callbacks of one browser at once, responses in any order, merges cut off or by other browsers, the stale cache, bots, expiry | one sitting links to one actor, only a browser's own sign-ins join accounts, a logout holds |
| resilient executor | breaker state, failure count, `openedAt` | `execute` | late outcomes, concurrent probes, retries in the breaker | shields a failing provider, recovers |
| LLM provider, tool loop, search tool | none but the executor | `run`, `generate`, `generateWithTools`, `embed`, `execute` | turns share one breaker for chat and embedding, malformed answers, made-up tool calls | answers rest on results, outages are told, requests bounded, turns end |
| delivery recovery | `pending_deliveries` | `respond`, `enqueue`, `runOnce`, marks | overlapping sweeps, ambiguous requests that are repeated within a send, crashes | nothing lost silently, bounded, drains |
| gateways, ingress pipeline, dedup, event bus | two bounded sets of seen ids, `messages`, the bot's `actors.type` | `handleWebhook`, `ingest`, `isDuplicate`, `persist`, `publish`, `ensureGitHubBotActor` | redelivery during processing, failure after the id is marked, eviction, restart, the bot's own comments | processed once, losses explained, bot not answered |
| rate limiter | timestamps per key | `check` | eviction of active keys, budgets charged for dropped events | a window admits its limit |
| knowledge ingestion and search | `repositories`, `knowledge_sources`, `documents` with their checksum, `document_chunks`, `embeddings` | `ingestRepositoryDocs`, `getRepositoryDocs`, `searchDocumentation`, `chunkText` | overlapping runs, no unique indexes, checksum stored before content, cut-off runs | a checksum means its content is indexed, a search finds one version |
| prompts, adapters, OAuth exchange, metrics, analytics, CLI, HTML | none shared | calls, formatting | none a model checker reaches | not modelled (section 7) |

## 2. Modules

| module | models | proofs |
|---|---|---|
| `MaintainerAgent` | classification, escalation policy, routing, the workflows' responses, as operators | used by the engine's |
| `WorkflowEngine` | `handleEvent` over `ConversationStateStore`; EXTENDS `MaintainerAgent` | `WorkflowEngine_proofs` |
| `ConversationMapping` | what the conversation service promises: a thread is mapped once, answers give that mapping | |
| `ConversationService` | `resolveOrCreate`, call by call; implements `ConversationMapping` | `ConversationService_proofs` |
| `IdentityService` | `resolveActor` and `linkProviderToActor` with their callers | `IdentityService_proofs` |
| `RateLimiter` | `RateLimiter.check`, as operators on the value of the limiter's Map | |
| `AtMostOnce` | what ingress promises: a message is taken in only while its id is not remembered, and then published or dropped once | |
| `Ingress` | webhook server routes, both gateways, `CommunicationService.ingest`, `DeduplicationService`, `EventBus.publish`; uses `RateLimiter`, implements `AtMostOnce` | `Ingress_proofs` |
| `ResilientExecutor` | `CircuitBreaker` around `retryWithBackoff` | in `ToolExecutor_proofs` |
| `ToolExecutor` | `ToolExecutor.run` over `LiveLLMProvider`, turns sharing the provider's executor; EXTENDS `ResilientExecutor` and implements its `Spec` | `ToolExecutor_proofs` |
| `Chunker` | `chunkText`, as a recursive function on paragraph lengths | in `KnowledgeIngestion_proofs` |
| `KnowledgeIngestion` | runs of `ingestRepositoryDocs`, what a search reads; EXTENDS `Chunker` | `KnowledgeIngestion_proofs` |
| `LinkSessions` | the dashboard's routes, cookies and sessions | `LinkSessions_proofs` |
| `ReplyQueue` | what `respond` and the recovery worker promise together: a reply is owed until it is delivered or given up, once, and posted once, unless it came in doubt while owed | |
| `Delivery` | `envelope.respond`, `PendingDeliveryStore`, `DeliveryRecoveryWorker`; implements `ReplyQueue` | `Delivery_proofs` |
| `MC...` | the instances TLC checks, with their `.cfg` files | |

Each handler is a set of actions, one per await, and the program counter of a call says
which database call it waits for. Local variables that outlive an await are in the
call's record (`turn`, `call`, `sweep`), so a value used after an await is the one read
before it. Operators named `...Early`, `...Missed`, `...Swallows` and so on, marked
"Mutant of", are variants with a plausible bug; each property is known to fail when its
mutant replaces the original.

**WorkflowEngine.** `Gate` is `stateStore.get` with the escalation check, `RunAgent`
everything up to the return of `agent.execute`, then `Escalate` or
`ReadOutcome`/`WriteOutcome` (`recordOutcome` reads and writes in two calls),
`SaveTriage`, `RecordOnboarded`, `Respond` and `PersistReply` in the code's order.
`DbFailure` is a throw that the bus logs, `Crash` the end of the process, `HumanClear`
the manual update the documentation describes. A message is reduced to what the
classifier and the field extraction can tell apart: keyword counts and stated fields.

**ConversationService.** `FindExisting`, `InsertConversation`, `InsertMapping`,
`FindWinner` are the four database calls. `DbFailure` includes a statement that was
committed although its caller saw an error.

**IdentityService.** The OAuth callbacks appear here only as callers that race with
messages; what cookies and sessions do is `LinkSessions`'. The actions up to
`CacheRegistered` are `resolveActor`; what it does when a call has answered (`UseAccount`,
`CacheRegistered`, `LinkCache`, `ClearCache`) is separate from the database's answer, since
a merge may run in between. `LinkSelect` to `ClearCache` are `linkProviderToActor`. Foreign
keys are modelled as declared: cascades for accounts and messages, set null for link
sessions, violations throw. An actor's type is fixed; its look-up in `linkProviderToActor`
is folded into `LinkSelect`.

**Ingress.** A call is one delivery: a batch of event records on the Caspian route, one
message on the GitHub route or from the polling loop. `Arrive` and `Verify` are the HTTP
edge, `Ignore` and `Ingest` what happens to the next record up to the first await (both
guards of `SeenEvents`, the gateway's filters, `isDuplicate`), then `CheckSelf`, `Admit`
(the resolutions and the two limits), `Persist`, `Publish`, `TurnEnds` follow `ingest`, and
`Continue` returns to the loop of `handleWebhook`. `Fail` is a database call that throws out
of the handler: the delivery is answered 500 and the rest of its batch is not looked at.
`Crash` empties everything in memory and keeps the rows. `SeedBot` is
`ensureGitHubBotActor`, free to run at any time or never. The event id of a record, the id
of its message and the deduplication key `provider:id` are names; senders and threads stand
for what they resolve to. In one respect the model allows more than the code: other calls may
run between two ignored records of a batch, which the code skips without an await.

**RateLimiter.** The Map is a function from keys to instants with the order of insertion
beside it. Time is a counter that does not go back.

**ResilientExecutor.** `Admit`/`Reject` are the breaker's entry, `Succeed`,
`FailAndBackOff`, `FailCall` the outcome of one request, `Retry` the end of a backoff.
The clock is `coolingLeft`, the ticks until an OPEN breaker admits a call.

**ToolExecutor.** A turn is a caller of the executor with a `stage`: `generate` (no tools),
`ask` (first pass), `tools` (between tool calls), `embed` (the search tool embeds its query),
`final` (second pass, no tools offered). `Send`, `FailFast`, `SendAgain`, `BackOff` and `GiveUp`
are the executor's own actions joined with what they do to the turn; `Generated`, `Ask`,
`Embedded` and `Final` use an answer, `Misread` is a body of an unexpected shape, after the
executor has counted a success. `GivenUp` is the catch clause of the chat methods (an apology,
the turn is over) or, for `embed`, its absence (the turn throws). `Answer`, `Search`,
`SelectFails` and `Trip` are a tool call: answered without the provider, in need of an
embedding, ended by a select of `searchDocumentation` that throws (nobody catches it before the
turn is over), or tripping over arguments that parse to `null`. Which calls a model asks for is
a parameter (`Requests`), any sequence of the four kinds.

**KnowledgeIngestion.** Every await of a run is an action in the order of the code, from
`SelectRepository` to `FinishDocument`. `Fetch` takes the files in the order in which
`getRepositoryDocs` asks for them; an error counts as absence, and one under `/docs` drops the
rest of that listing, as the code's catch clauses do. A row is named by the run that inserted
it, so that two runs that both missed a row insert two. `Fail` cuts a run off at any await.
A content is a sequence of paragraph lengths, its checksum the content itself (collisions of
SHA-256 are left out), its chunks what `Chunker` makes of it. `interrupted` and `contested`
record what can go wrong with a document, and `DeleteChunks` takes a document out of them when
a run rebuilds it alone.

**LinkSessions.** `Callback` is the browser coming back from the provider: with another state
than the cookie's, with a consent declined (no code, the same page and the state cookie left as
it is), or with a code, and then the cookies are read as of that moment. `ReadSession` and the
actions of `Resolve` and `Link` are the awaits that follow, and `Receive` is the response's
`Set-Cookie`, in any order with those of other callbacks. `Lookup` to `SetActor` are
`resolveActor` and what is done with its answer: the cache, the select, the two inserts (an
actor whose account the unique index refuses is left without one), the cache again, the
session's row. `LinkSelect` to `ClearCache` are `linkProviderToActor`: inserted, nothing to do,
a bot that is not merged (a success for the browser all the same), or the three statements of a
merge. `Throw` ends a callback at any await, `Crash` all of them with the cache; what they had
done stays done, so that a merge may move the accounts and keep the source and the cache. The
database's foreign keys are as declared: deleting an actor takes its accounts with it and sets
the actor of sessions to null, and an actor that is gone is refused. Two things are coarser
than in `IdentityService`. A message is two steps, `Hear` (what `resolveActor` selects or
registers for it) and `Remember` (what it leaves in the cache, however late); that it may fail
between its inserts is left to the sign-ins. And the messages a merge moves are not kept here,
only the error when there are any and their new actor is gone. A type of actor is fixed; its
look-up is folded into `LinkSelect`. `ExpireSession` and `ExpireState` are the two lifetimes.

**Delivery.** `Send` is one request of a live send: accepted, or an error, of which the sender
cannot tell whether the text had been accepted. After an error the executor sends another
request (up to `MaxRequests`), or the reply is queued, at any attempt: an error may not be
retryable, the breaker may be open. `Deliver` calls the deliverer and `Request` is a request of
it; only GitHub's deliverer has an executor around its request, those of Slack and Discord call
`client.reply` themselves (`index.ts:273-274`), unlike the live send
(`docs/architecture/reliability.md` speaks of the same deliverer). A sweep works on the snapshot
`DueForRetry` returned; up to |`Sweeps`| overlap. Time is a bit of a row: whether
`nextAttemptAt` has passed. `Fate` reads a reply's state in `ReplyQueue` off its row and its
live send: delivered once either says so, given up when the row is failed, or when the live send
of a reply that is not queued has failed or was cut off. In doubt are the replies `doubtful`: a
request for them ended in an error after it was accepted, a delivery of theirs could not be
recorded, or two sweeps hold their row.

## 3. Runs

| run | checks | instance |
|---|---|---|
| `turns` | `StreakEarned`, `HandoffHonest`, `ProposalGrounded`, `SilenceExplained`, `OnlyRacingTurnsAnswer` | 3 turns of a conversation, 2 issue fields, 6 messages (one for each workflow and policy), 1 failure, 1 crash, 1 clear |
| `late_reply` | `NoReplyUnderHumanControl` is violated | as above, no faults |
| `conversations` | `AnswersAgree`, `KnownThreadsCostNothing`, `RaceNeverThrows`, `ImplementsMapping` | 3 calls race for a thread, 1 for another, 2 failures, 1 crash |
| `identity` | `ResolvedIsOwner`, `MessagesFollowAccounts`, `DropsExplained`, `AccountsSurvive` | 2 messages, 2 sign-ins, 2 browsers, 4 accounts (two people, one unknown, a bot), 1 fault |
| `identity_history` | `HistoryMovesOver` is violated | as above, no faults |
| `delivery` | `NoSilentLoss`, `FailureEarned`, `DuplicatesExplained`, `BudgetExplained`, `QueueDrains`, `ImplementsReplyQueue` | a deliverable and an undeliverable reply, 2 overlapping sweeps, 2 attempts of 2 requests each, 1 failure, 1 crash |
| `ingress` | `ProcessedOnce`, `LossExplained`, `BotIsQuiet`, `WithinBudget`, `ImplementsAtMostOnce` | 3 calls in 3 plans (a batch of two messages and its retry, the first under a new event id, a message polled twice, the bot's comment, a forged delivery), memories of 3 and 1 ids, limiters of 1 key, 2 instants, 1 failure, 1 crash |
| `ingress_retry` | `RetryRepairs` is violated | the batch and its retry |
| `answers` | `Grounded`, `OutagesTold`, `RequestsBounded`, the executor's `Spec`, `CoolingShields`, `Recovers`, `TurnsEnd` | 2 turns sharing a breaker of threshold 2 with 2 attempts and a cooldown of 2 ticks, 4 failed requests, 4 sequences of tool calls |
| `knowledge` | `ChecksumTrusted`, `OneVersionFound`, `CollisionsExplained`, `PassedMeansIndexed` | 3 runs of one file that may overlap; contents of two chunks, one and none; 1 push, 1 run cut off |
| `knowledge_rerun` | `SkippedMeansIndexed` is violated | 2 runs, the two places of CONTRIBUTING.md |
| `linking` | `OneActorPerSitting`, `JoinedBySessions`, `RefusalsExplained`, `LogoutHolds`, `ShownWhenConnected` | 2 browsers with 2 sign-ins each, at two providers; 3 accounts: one signed in with in both browsers, one a bot's, one unknown before; messages of two of them; 2 messages, logouts, expiries, declined consents, errors or crashes |

**Why the bounds are enough.** Three turns are two racing ones and one before or after them; a
streak threshold of 2 is reached with one left over. Three racing calls give a winner and two
losers that may see different stages of it (and, in `knowledge`, a third run that finds what two
others have left). A merge needs two people, and an interference needs one more call of each
kind. The breaker opens with two failed calls, which four failed requests allow, or with one
failed call after another turn's. The first browser's two sign-ins are two first callbacks at
once, or one after the other, or on the two sides of a logout; one of the second's merges its
session's actor away, or is cut off in doing so, and the other meets the bot. Two events allow a
message remembered late and a merge cut off, or a logout and a crash. Two chunks of a document
are one before and one after a cut-off. Two sweeps suffice for a stale snapshot, and two
attempts for a count set back; two requests are one that is repeated. A deduplication memory of
one id and limiters of one key evict on the second message, as the code's do on the 5001st and
the 10,001st; two deliveries race for a message while a third call uses up limits or is the
bot's. The thresholds are parameters: the code's (an escalation after 3 weak turns in a row,
confidence 0.5, a breaker opening after 5 failures for 30 s with 3 attempts per call, 5 delivery
attempts) are not special, and the proofs cover every value. The four tool call sequences have a
call of every kind, a second search, and a call after a search. `knowledge` also evaluates
`WellChunked`: every document of up to four paragraphs of 1 to 5 characters is cut, for four
budgets, into whole paragraphs in order, as full as allowed. Symmetry is used only in runs
without liveness properties. Deadlock checking is off: calls and budgets of a finite instance
are used up.

**Fairness.** `ToolExecutor!TurnFairSpec`: a turn's promises settle (a request is answered
or fails, a backoff ends, a select returns), time passes, questions keep coming (the bot
replies to every event); nothing is assumed of the provider except that it fails finitely
often in a behaviour, and nothing of which answer it gives. It is fairness of a turn's kinds of
step, not of single outcomes. `Delivery!FairSpec`: the
interval timer keeps firing, backoffs elapse, awaited calls settle; sends need not
succeed. Both hold while the process runs. No fairness elsewhere: those properties are
safety.

## 4. What the code does against its documentation

The violation runs show disagreements, each with its line in `PROJECT.json`:
- a turn past the gate answers in a conversation that has been escalated meanwhile
  (`docs/architecture/workflows.md` says "never"); `OnlyRacingTurnsAnswer` says what does hold;
- an event id counts as already processed before it is processed: when a database call of
  `ingest` fails, the 500 invites a retry which is then ignored, and the message is lost
  (`RetryRepairs`); `LossExplained` and `ProcessedOnce` say what does hold;
- a merge of two actors can delete a message that arrives during it (`HistoryMovesOver`);
  `AccountsSurvive` and `MessagesFollowAccounts` say what does hold;
- a re-run of `ingest:docs` skips a document whose checksum an earlier run has stored before
  it was cut off, although the document is missing from the index (`SkippedMeansIndexed`); no
  later run repairs it until the file changes. `ChecksumTrusted` and `PassedMeansIndexed` say
  what does hold.

More, described and not run:
- The failure streak is "incremented whenever a turn's confidence is below threshold, reset on a
  confident turn" (`docs/architecture/workflows.md:115`). `recordOutcome` reads it and writes it
  back in two calls (`ReadOutcome`, `WriteOutcome`): of two turns that both read before either
  writes one failure is lost, or a reset undone. `StreakEarned` says only that the streak
  counts no failure that was not recorded, not that it counts all.
- The fields of a bug report persist between turns (`workflows.md:58`), but each turn saves what
  it read at its gate with its own fields added (`SaveTriage`): of two turns at once one loses
  the other's fields, and the user is asked again. `ProposalGrounded` says that nothing unstated
  gets into a proposal that way.
- An escalation is stored before the reply that announces it (`Escalate`, `Respond`). A crash
  in between leaves a conversation in which the agent is silent and nobody has been told;
  `SilenceExplained` excuses the turn that was cut off, and only `HandoffHonest`'s direction, that
  no announcement is without its escalation, holds.
- "Every retry must be idempotent at the call site" (`retry-policy.ts:51`), and posting a comment
  or a reply is not: a request whose response is lost is repeated, and a send that succeeds may
  have left several copies (`Send`, `Request`). `DuplicatesExplained` says when that may be.
- One failing file drops the rest of a `/docs` listing (`Fetch`), and a file that a listing lacks
  keeps what an earlier run has indexed of it. The properties of `knowledge` are about the files
  a run was given.
- HALF_OPEN admits every caller until one has settled (`Admit`), not "one HALF_OPEN probe"
  (`circuit-breaker.ts:6`); and a late success closes an OPEN breaker without cooldown or
  probe (`OnSuccess` looks at no state). `StateMatchesCount` and `CoolingShields` are what is
  left of the promise.
- Overlapping sweeps can try a row more often than `maxAttempts`, since each writes back its
  own snapshot's count plus one ("bounded backoff", `delivery-recovery-worker.ts:24`).
  `BudgetExplained` says that this takes two sweeps holding the row, an ambiguous send, or a
  failure; `FailureEarned` and `QueueDrains` hold regardless.
- A `resolveActor` that read an account before a merge can fill the cache with the deleted
  actor after the merge has cleared it (`CacheRegistered`, `ClearCache`); later messages of that
  account throw until the cache is cleared again. `ResolvedIsOwner` says that a cached actor
  owns the account or is gone, `DropsExplained` that nothing else throws.
- "every subsequent provider linked in the same session merges into that actor"
  (`link_sessions.ts:11`) does not survive another browser that merges the session's actor
  away: the row's actor becomes null, and the next provider gets, or makes, an actor of its
  own. It does not survive a merge cut off after its first statement either: the cache is not
  cleared then and answers a later first sign-in with the actor that has lost its accounts
  (`Lookup`, `SetActor`). Nor does it cover two first callbacks at once, which open a session
  each, nor what is sent on from the sitting they leave; two sign-ins that merge the same actor at
  once; and a bot's account, which is refused while the dashboard is shown as if it had been
  linked. `OneActorPerSitting` and `ShownWhenConnected` hold but for these: the `split`, `orphaned`
  and `contested` histories and `Bots`.
- Clearing an escalation by hand leaves `failure_streak`, so a conversation escalated for
  repeated failure escalates again on its next message.
- Two link calls in opposite directions (`entangled` in `IdentityService`) can delete both
  actors with their accounts.

## 5. Proofs

Every theorem is about the specification for all values of the constants under the module's
named assumption (`EngineAssumption` and `PolicyAssumption`, `ServiceAssumption`,
`IdentityAssumption`, `ExecutorAssumption`, `ToolAssumption`, `DeliveryAssumption`,
`IngressAssumption`, `TrackedKeysAssumption`, `LinkAssumption`, `IngestionAssumption` and
`ContentAssumption`); they say what kinds of value the constants have and nothing about their
size, with three exceptions. Calls are finitely many in `Ingress`, whose invariants count them,
and there one event id names one event. `IngestionAssumption` has a first path in every
non-empty set of paths (a run's loop has an order).

An invariant the runs check is seldom inductive. In each module the strengthening says
what the invariant rests on: what a handler may still rely on at each await, given that
every other call has been free to run since. TLC checked each strengthening on the run's
instance before it was proved.

**WorkflowEngine** (`TypeCorrect`, `HandoffIsHonest`, `StreakIsEarned`, `GateHolds`,
`ProposalsAreGrounded`, `SilenceIsExplained`). Every property needs its own argument about
values read before an await:
- `LedgerInv` and `HandoffInv`: a turn that carries an escalation reason past the outcome
  write has itself written the escalation, so the hand-off it sends is backed by the row.
- `StreakInv`: the streak a turn has read (`streakRead`, or `streakSeen` from the gate) is
  at most the number of failed turns *so far*. Failures are only added, so a stale copy
  written back stays within the bound: lost updates make the streak too low, never too high.
- `RacingInv`: while a conversation is escalated, whoever is between the gate and the end
  was there when the escalation was written (`racing`).
- `GroundedInv`: the stored triage state, each turn's copy of it and each response contain
  only fields stated in the conversation; overwriting one copy with another keeps that.
- `SilenceInv`: a turn past `Respond` has replied, an escalated row has a turn that
  escalated it, and a suppressed turn had *another* one.

**ConversationService** (`TypeCorrect`, `ResolversAgree`, `OrphansComeFromRaces`,
`LosersReturn`, `Refinement`). `ProgressInv` ties a call's program counter to the rows: it
has inserted its conversation exactly from `insertMapping` on, and a call that looks for
the winner is of a thread that has one. `MappingStep` (a mapping is written once, by a call
of that thread, with a stored conversation) gives agreement and the step simulation of
`ConversationMapping`.

**IdentityService** (`TypeCorrect`, `ActorsAreOwners`, `DropsAreExplained`,
`AccountsAreKept`, `HistoryFollowsAccounts`). `Transitions` is the table of what a call may
do next; the invariants are proved against it.
- `Inv`: nothing refers to an actor whose insertion is yet to come or whose account is yet
  to be registered (`FreshInv`, without which a deleted actor's rows could dangle), a call
  about to insert a taken account has a rival (`RivalInv`), and what a call has resolved
  owns its account or has been merged away (`ResolvedIsOwner`, and `LinkCacheInv` for what
  is about to be cached).
- `MergeInv`: unless `entangled`, link calls that have read their account concern disjoint
  actors; so from `mergeMessages` on the target exists and no account is left with the
  source, and the cascade of `DeleteSource` takes no account.
- `HistoryInv`: a sender, cache entry or resolved actor is `Settled`: it owns the account,
  is gone, or is the source of a merge into the owner whose messages are yet to move. Being
  settled is stable, and with no merge in progress and the foreign key it means ownership.

**ResilientExecutor** (`TypeCorrect`, `StateIsTheCount`, `CooldownShields`, in
`ToolExecutor_proofs`). `StateMatchesCount` is inductive with the types; `ShieldInv` says that
whoever is in the middle of a call while the breaker is OPEN was so when it opened.

**ToolExecutor** (`TurnsRefineExecutor`, `TurnsShield`, `TurnTypesCorrect`, `TurnsInOrder`,
`AnswersAreGrounded`, `OutagesAreTold`, `RequestsAreBounded`). Each step of a turn is a step of
the executor or leaves it alone, so what is proved of `ResilientExecutor` holds of the turns.
- `TurnInv` says what a turn holds at each stage: results for the first of its calls and in
  their order, an embedding only where a search is due, a lost request or select only in a turn
  that is over. Groundedness and the account of outages are what is left of it at the end.
- `CountInv` pays for each request sent: `MaxAttempts` for each round and each embedding begun,
  the current call's attempts among them; the searches already answered are distinct indices of
  the calls, so their number is bounded by `Cardinality(Searches(t))`.

**Delivery** (`TypeCorrect`, `FailuresAreEarned`, `NothingIsSilentlyLost`,
`DuplicatesAreExplained`, `BudgetIsExplained`, `DeliveryKeepsThePromise`). `SnapshotInv`: the
attempts count a sweep carries is at most the deliveries tried so far, so writing a stale one
back never overstates. `CopyInv`: a row not `doubtful` is held by one sweep at most, and once
its reply is posted that sweep is about to mark it delivered, and none is about to send it,
however many requests have failed for it (`ChannelRequest`); a sweep holds only replies that
have a row. `Counted`: as long as nothing has failed and the row is not `doubtful`, the count in
the row, or in the one sweep that is delivering it, is the number of deliveries. For the
refinement of `ReplyQueue` also `SettledInv`: unless the reply is `doubtful`, whoever holds it
finds its row pending (so nothing settled is settled again), and an undeliverable reply may be
given up by two sweeps, but is never about to be marked delivered. `FaultKeepsPromise` is the
step of a crash or failure, which may put several replies in doubt and lose others at once.

**KnowledgeIngestion** (`IngestionInvariant`, `IngestionTypes`, `ChecksumsAreTrusted`,
`OneVersionIsFound`, `CollisionsAreExplained`, `PassedIsIndexed`): everything its run checks.
- `RunOK` is what a run may rely on at each await: its repository, source and document rows are
  there, and the document is the one of its current file.
- `RowOK`: the run that inserted a document row is past that file, or at its chunks. Otherwise a
  run could insert one row twice.
- `DocumentOK` is the heart: a document that is not `contested` is rebuilt by one run at most,
  whose content its checksum is of; what it has of chunks is what that run has inserted so far
  (`WrittenBy`), and when nobody rebuilds it and no run was cut off, it is complete.
- `Alone`: as long as runs have not overlapped, there is one repository row, one source per file
  and one document per source, which gives the guarantees across documents of one file.

**Chunker** (`DocumentsAreWellChunked`, in `KnowledgeIngestion_proofs`): for every document and
every budget the chunks hold the paragraphs whole and in order, are within the budget unless a
single paragraph, and are as full as the next paragraph allows. `chunkText` and the sums and
joins that say so are recursive functions; that such a function exists (`LoopExists`) and what
it computes is proved by induction on rounds (`Rounds`), which comes from the least element of
a set of numbers (`LeastNumber`), that is from `<` being well-founded, since the library's induction
rule takes an operator. `Packing` is the loop's invariant: the chunks so far are cut as they
should be, and the current chunk begins with a paragraph that no longer fitted into the last.

**Ingress** (`TypeCorrect`, `MessagesAreProcessedOnce`, `LossesAreExplained`,
`TheBotStaysQuiet`, `ActorsStayWithinBudget`, `IngressKeepsThePromise`): everything its run
checks.
- `OnceInv` is an account: what is stored of a message, and what calls may still store of it,
  is paid for by its id having been forgotten or being remembered; what is published, and may
  still be, by what is stored. It needs the id to be remembered in the step that looks it up.
- `LossInv`: whatever some part of the process takes for dealt with (`Handled`: an id in either
  memory, a record whose event is remembered or that a call's loop has passed, a delivery
  answered 200) is accounted for. `HandledGrows` shows that nothing is taken for dealt with too
  early, `AccountedStays` that what is accounted for stays so.
- `QuietInv`: until the bot's account is known, every call is excused.
- `BudgetInv`: what the limiter holds of an actor is the end of the history of its admissions,
  all that is missing has left the window (`Charged`), and the Map's keys are distinct, within
  the bound and complete (`Tidy`). `DownClosed` stands in for an induction: a down-closed set
  of positions is a prefix, so what the filter drops is the front.
- `IngressKeepsThePromise` maps each action to a step of `AtMostOnce` or to a stutter, with the
  ids of the deduplication memory as what is remembered and the calls that hold a message,
  counted, as what is pending.

**LinkSessions** (`TypeCorrect`, `OneActorInASitting`, `AccountsAreJoined`,
`RefusalsAreExplained`, `LogoutsHold`, `ConnectedIsShown`): everything its run checks.
- The steps within a callback (`Inner`: those of `Resolve` and `Link`, `Throw`, `Crash`, and
  messages) change rows, the cache and records, and leave cookies, sittings and sessions in the
  sense of a browser alone: `Drifts` says what a record may become in one, and the arguments
  about cookies (`Left`, `OneSession`) use only that.
- `Records`, `Unmade` and `Sessions` say what a sign-in holds at each await: the session it goes
  by is its own new one or one its browser has been logged in to (`Established`), and nobody
  holds a session or an actor that is yet to be made.
- `Left`: neither a cookie nor a callback that began after the browser's last logout is near a
  session the browser has left. The response of such a callback cannot bring one back.
- `Joined` is an induction over the components of accounts in disguise. Every actor has a home,
  the account it was made for (`Home`); for every set of accounts that no session straddles
  (`Closed`), whatever names an actor, an account's row, the cache, a message, a session or a
  callback, is on the side its home is on (`Sided`). So accounts of one actor are on the side of
  its home, both. A stale answer, read before a merge, is on the right side too.
- `Resolves` and `Merges`: what `resolveActor` has found for an account owns it or was merged
  away, a merge has taken its source's accounts before it deletes it, and unless `contested` its
  source still owns the account of the sign-in.
- `ActorsKept`: a session that has not been orphaned has the actor its callbacks go by, and the
  accounts they have dealt with are `Attached` to it, across every merge of others. Its steps rest
  on who may take an account from its owner at all (`OwnersKept`, `MergedBySomeone`) and on who
  sets a session's actor (`SetBySomeone`).
- `OneSession`: sign-ins of one sitting that are not split go by one session,
  the cookie's, whether they have succeeded (`Joins`), are in progress (`Agree`) or were sent with
  all that has succeeded in view (`Abreast`).

Three statements about a sitting turned out too strong while these were being proved or checked: a
browser may log in again to a session it had left, in the ordinary way, once a callback in
progress has brought it back (`left`); a sign-in sent from a sitting that is already split joins
only one half of it (`split`); and a session may be given an actor that a merge still going on
has emptied, not only one that is merged away later (`SetActor` in `orphaned`).

Only model-checked: the liveness properties `Recovers`, `QueueDrains` and `TurnsEnd` (fairness
is out of the prover's reach) and the violations.

## 6. Plan

1. **Composition**: the engine's `Respond` as the interface of `Delivery`, the deliverer calling
   through `ResilientExecutor`.
2. The tool loop inside the engine: `RunAgent`'s confidences and throws as outcomes of
   `ToolExecutor`.

## 7. Not modelled

- Payload normalisation (`gateway/adapters`, `inbound-message.ts`) and signature verification:
  pure parsing; its outcome decides which records and messages there are.
- OAuth token exchange (`web/oauth`): pure I/O; a profile or an error enters `LinkSessions`.
- Ranking by cosine similarity, the vectors themselves, and what happens to them when the
  embedding model is changed: arithmetic on reals; a chunk has an embedding or has not.
- The wording of prompts, replies, PR summaries and HTML: `prompt-builder.ts`,
  `output-adapters.ts`, the renderers of `auth-routes.ts`.
- Metrics, analytics, release notes and the dashboard's statistics: read-only reporting.
- CLI commands other than `ingest:docs`, the load test, environment parsing, start-up wiring.

`PROJECT.json` gives the reason for each.
