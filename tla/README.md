# WaLink, in TLA+

WaLink is a multi-account WhatsApp gateway in Go: one process, one Postgres
database, a REST API, web pages and an MCP endpoint over a set of WhatsApp
accounts, each of which drives at most one `whatsmeow` client. This directory
holds TLA+ modules translated from the source, the TLC configurations that
check them on small instances, and TLAPS proofs, for every value of the
constants, of all safety properties that the passing runs check.

Paths below are relative to the repository; `account.go` and `manager.go` are in
`internal/service/`, `middleware.go` in `internal/middleware/`.

## Inventory

| Component | State | Operations | Hard behaviour | What makes it correct |
|---|---|---|---|---|
| WhatsApp session (`account.go`, one `Account` per number) | `client`, `rejected`, `PhoneNumber` under `a.mu`; the device rows of the session store, shared by all accounts | `Connect`, `EnsureConnected`, `GetQR`, `PairPhone`, `Disconnect`, `Logout`, `handleEvent`, goroutines `autoReconnect` and `rejectMismatch` | requests, events and goroutines interleave; `autoReconnect` and the reconnect loop of the library dial without the lock; all accounts take the *first* device of one store | a login with the wrong number is noticed and ended; no connection outlives its account's hold on it; nobody deletes the credentials of a live session |
| Send limiter (`tokenBucket`) | `tokens`, `lastTime` | `allow`, from `SendMessage`, `SendMedia`, `SendReply` | concurrent senders, sends that fail or are late, operations that do not ask, restarts | no window of time holds more than a burst plus what accrues; no refill is lost |
| Account manager (`manager.go`, tables `account`, `proxy_config`) | map of accounts, rows | create, delete, change number, set and delete proxy, startup discovery | several steps per request and no lock across them, failing statements, crashes, a start that cannot list the accounts | the map never holds what the table does not; deleted means deleted; a proxy change takes effect |
| Webhooks (`dispatchWebhook`, `handler/webhook.go`) | `webhook_config` row, one goroutine per event | set, delete, deliver with retries | edits during retries, late and lost answers | a delivery is not torn by an edit, stops after an answer, gives up only after the last attempt |
| REST gateway (`middleware.go`, `cmd/walink/main.go`) | semaphore, identity, `usage`, account rows per user | rate limit, billing check, authentication, usage count, account cap | order of the stack, check-then-act on limits, reads whose errors are dropped, midnight | slots are given back; usage is what was sent; plan limits hold |
| Users, roles, API keys, reset tokens (`handler/{users,roles,apikeys,auth}.go`, `web/{admin,auth}.go`) | rows | CRUD, login, password reset, seeding of roles at start | read-then-write updates, delete-and-insert under READ COMMITTED | edits are not lost; a token works once |
| Message store (`storeMessage`, `storeHistorySync`, `storeOutgoing`, `ListMessages`, `ListChats`) | `message` rows, keyed by message id | insert, page, list chats | one contact has two addresses (phone and LID), the mapping of the two is looked up per page and per entry and its errors are dropped, pages are cut by second, syncs repeat messages | scrolling back skips none; every message is in exactly one chat |
| Autopilot (`agent.AutoReply`, `web/assistant.go`) | `agent_config`, `agent_log`, one goroutine per message | reply, save, toggle | the configuration changes while the language model works; a toggle writes back what it read | no reply that the configuration never allowed; no edit lost |
| Assistant (`agent.RunChat`) | `agent_session`, one history per user | chat, clear | chats that last minutes write back the history they loaded | the latest turns are kept; cleared turns stay cleared |
| MCP server (`internal/mcpserver`, `MCPScope`) | none of its own | tools over the account operations | the account of a call is settled in three places | a call works on the account its key or request names |
| Billing plans and subscriptions (`database/billing.go`, `handler/billing.go`, `web/admin.go`) | `plan`, `subscription` | create, update, delete, assign, look up limits | read-then-write updates, check-then-delete, limits read from three rows | subscribed plans exist; limits are those asked for and held |
| Configuration, SMTP, models, HTML | files | parsing, mail, rendering | none over time | – |

How they interact: handlers, web pages and MCP tools call the manager, which
hands out `*Account` pointers; requests keep a pointer whatever becomes of the
account. `whatsmeow` calls `handleEvent` on the account that made the client,
also long after the account dropped it. `handleEvent` starts the webhook,
auto-reply, reconnect and rejection goroutines. All persistent state is in one
Postgres database, statement by statement: almost nothing runs in a transaction.

## Plan

1. `AccountSession`, its runs and its inductive invariant – done
2. `RateContract` (abstract) and `SendLimiter` (implementation), refinement
   checked and proved – done
3. `AccountRegistry`, runs and proofs – done
4. `WebhookDispatch`, `Gateway`, runs – done
5. `AccessControl`: users, roles, permissions, reset tokens, one run – done
6. `MessageStore`, `Autopilot`, `Copilot` and `Plans`, in one run – done
7. `Authentication`: API keys, log-ins, the middlewares and MCP scoping, in the
   same run – done
8. proofs for the modules of steps 6 and 7: `ListedOnce`, `NoUnwantedReply`,
   `ConfigFollowsEdits`, `RemembersLatest`, `ClearedStays`, the three invariants
   of `Plans`, `RevokedIsOut`, `KeyStaysInScope` – done
9. proofs for `WebhookDispatch`, `Gateway` and `AccessControl` (all their safety
   properties), `UnloadedIsAccounted`, and every type invariant – done
10. `AccountBook` and `DeliveryContract` (abstract), implemented by
    `AccountRegistry` and `WebhookDispatch`, refinements checked and proved – done
11. proofs of `PagingMissesTiesOnly`, by induction over the seconds a reader
    scrolls back, and of `OnlyForward`, the safety core of `DeliveryEnds` – done

No module declares a RECURSIVE operator, and each one states its assumptions on
its constants, so that all of them can be proved about. The modules of step 6 and
7 state them as operators (`StoreAssumption`, `CopilotAssumption`,
`PlanAssumption`, `DoorAssumption`), which `StoredState` assumes of its constants.

## Modules

### `AccountSession`

One action per operation of `account.go` that touches a session. `Connect` and
`GetQR` hold `a.mu` while the library dials: the action sets `dialing`, and
`DialEnds` is the return. Every other operation that takes the lock has the
guard `~dialing[a]`; an operation that holds the lock throughout is one step.
`autoReconnect` is two actions, because the lock is released between them:
`Wake` captures the client, `Redial` connects whatever it captured.
`handleEvent` is one action per event kind; an event stays in the `inbox` of the
client that raised it until the handler has run, and handlers act on the
account's *current* client, as the code does. `rejectMismatch` starts a
goroutine, counted in `rejecters`; `Reject` is its body. `store` is the set of
device rows and `FirstDevices` is any of them: `GetFirstDevice` has no ORDER BY.
`Restart` is a crash or a shutdown followed by `DiscoverAccounts`, which connects
accounts one after another (`toVerify`) before HTTP is served (`Serving`).

The library and WhatsApp are external: `Authenticate`, `Pair`, `Revoke`,
`KickOut`, `ConnectionLost`, as far as `account.go` relies on them.
`prepareClient` leaves the library's own reconnection on (`account.go:163`):
after a connection is lost, the library may dial the same client object again
from a goroutine of its own. `retrying` holds the clients such a loop runs for,
`Resume` is its dial and `RetryEnds` its end; `HangUp` and the library's
`Disconnect` stop it or fail to, as a loop that is between two checks dials all
the same. Meanwhile `Connect` may have replaced the client, which is not
connected, without telling it (`account.go:125-129`). `conn` records who
connected a client: a dial under `a.mu`, `autoReconnect`, or the library.

Simplifications, each on the side of more behaviours or of no difference: the
test of `EnsureConnected` under the read lock and the one `Connect` repeats are
one step; `Connect`'s test and `prepareClient` run under one lock and are one
step; the `PairSuccess` handler takes no lock and runs with `Pair`; the device
that the Connected handler reads after the unlock is read in the step.

`OrphansAreRedials` says where a connection that no account holds can come from:
from a redial by one of the two loops that dial without the lock, never from
`Connect`, `GetQR`, `Logout` or an event handler.

### `RateContract` and `SendLimiter`

`RateContract` promises: a request is granted exactly when no window of time
would then hold more grants than a burst plus the accrual over the window.
`SendLimiter` is the bucket, counted in ticks instead of fractions of a token
(`float64` is taken as exact). `Contract` is the abstract limiter with the
bucket's variables put in for its own: the detailed module records its grants, and
nothing else of the bucket is visible to the abstract one. `Contract!Spec` is
checked as the property `Promise` and proved as a theorem. The promise is about
what the bucket grants. `SendReaction` (`account.go:694`) and `RevokeMessage`
(`account.go:1355`) send without asking it and change nothing of its state: they
are outside the promise, and nothing bounds what is sent.

### `AccountBook` and `AccountRegistry`

`AccountBook` promises: an account is entered once, under a number of its own,
is served only while it is in the book, is struck out only when it is not
served, and never returns. When the book is opened again, after a restart, it
serves all that is in it, or nothing at all. `AccountRegistry` implements it:
the ids given out are `used`, the numbers are the rows, and the accounts served
are the keys of the map. `Book!Spec` is checked as the property `BookIsKept` and
proved as a theorem.

In `AccountRegistry`, a request is a chain of steps, one per critical section or
statement; `req` says where each request is and what it found. Every statement
may fail, and so may the listing at a start: `DiscoverAccounts` returns early
(`manager.go:281-284`), `main.go:77-79` logs that and serves with an empty map
(`Discover`). `stranded` is a history variable: rows whose DELETE failed, and
those of a start that could not list them. A session is cut down to what
`DeleteAccount` and `SetProxy` look at: off, up, logged in, and the proxy the
client was built with.

### `DeliveryContract` and `WebhookDispatch`

`DeliveryContract` is what a receiver may rely on: an event has one target,
chosen once among the pairs of URL and secret that were configured; it is posted
`MaxAttempts` times at most and not after it is over; and it is over only when
no target wanted it, when the last post arrived, or when no attempt is left. A
restart may cut it short. Rows, sleeps and answers are not in it.
`WebhookDispatch` implements it (`Promise`): `Phase` is what is seen of a
goroutine.

In `WebhookDispatch` there is one goroutine per event; the network may delay or
lose a request, and a request that arrived may still time out at the sender.
`saved` and `answered` are history.

### `Gateway`

The REST stack of `main.go` in its order, with billing enabled, for the three
kinds of request that a plan limits. Web pages and MCP tools do not run through
it (`web/accounts.go:167-195` creates accounts and `:656-714` sends messages
without looking at a plan), and the accounts counted are those of the REST
stack, created by users for themselves (`user_id` left out). `CreateAccount` drops
the errors of `GetUserPlanLimits` and `CountUserAccounts`
(`handler/accounts.go:47-49`): a failed count reads 0, and limits that cannot be
read are those of another plan. `CapCheck` may therefore let a creation through
although the plan is full (`Full`), and `blind` counts those. Errors of
`GetUserPlanLimits` and `GetDailyUsage` in the billing middleware, also dropped,
would only let more through, and it lets everything through.

### `AccessControl`

The tables of users, roles, permissions and password reset tokens, without names
and passwords. A REST update of a user is two steps, the read and the write of
what was read (`StartUpdate`, `EndUpdate`); the admin page writes its form
unread (`UsersUpdate`). A request on a role changes its name and goes on to
`SetRolePermissions`, the one transaction of the program, whose DELETE sees only
what was committed when it began: `seen` is that snapshot, and `Commit` removes
those rows and no others. `StartForgot`, `InvalidateTokens` and `InsertToken` are
the three steps of asking for a token, `CheckToken`, `WritePassword` and
`MarkUsed` the three of using one. Each statement after the first of a request
may fail. `Restart` runs `seedRoles`.

The properties say when a promise holds, with history variables that note the
overlaps and failures that excuse a request: `off` (a user disabled with nobody
else updating), `last` (what the last undisturbed request asked of a role),
`leaky` and `shared` (failed or overlapping steps on tokens).

Left out here: that names are unique, that the owner of accounts cannot be deleted
(a deletion here always succeeds or is never asked for), the permission to make
each request, and updates of a password by an administrator.

### `StoredState` and its five modules

The five modules below share no variable with each other: five tables and what
is done to them. `StoredState` instantiates them all, and a behaviour of its
specification is a behaviour of the one module that `part` names, so their states
add up instead of multiplying. `MCStoredState` gives its constants their values.

**`MessageStore`**: the conversation of one account with one contact, who has a
phone number and a LID. `rows[i]` is the row of message `i`, which the primary
key keeps at the first insert. `resolveLID` is either result, because the
session store may or may not know the mapping yet and its errors are ignored.
`storeOutgoing` does not resolve. Reading is a set of operators: `Pages` is
every page `ListMessages` may return (ties are in any order) when `reverseLID`
finds the LID (`known`), and when it does not, or fails, or the query of the LID
fails, which all come to the same (`account.go:1374-1393`). Each page asks
again: `K` is the set of answers that the pages of one scroll get. `Missed`
follows `loadMessages` and `loadOlderMessages` of the page from the newest
message back to the start and collects what no page brings (`NextBefore` is
where the next page begins, `MissedBefore` what one page and those after it
skip), and `ListChats` is the set of addresses that the chat list shows, given
what the list could read of the last messages (all, some or none of the
addresses, `LastMessages`), the contacts, and the answers for the LID as that of
a contact and as that of a message. `PagingMissesTiesOnly` states the three
exceptions the code has: ties at the edge of a page, pages cut short by rows
that are stored but not shown, and rows of the LID that a page was read without.
`ListedOnce` is about the list and the reader together: what is in a chat of the
list, and in one only, and which failing lookups make an exception, for messages
stored under the LID alone. The messaging page asks for 50 messages and the
database grants up to 200 (`PageGranted`). Its polling for new messages is not
modelled: it adds the newest page, and a short one also ends the scrolling.

**`Autopilot`**: one account. `hook[h]` is the goroutine of delivery `h`: it reads
the configuration, waits for the model, sends and logs, with nothing locked in
between. The whitelist and the blacklist are the set of numbers that the two let
through (`lets`). `chance`, `wanted` and `muddled` are history. `SetOnMessage`
comes last at startup, so that events before it start no hook.

**`Copilot`**: one user's assistant. A history is a sequence of turns, without the
system prompt, which `RunChat` puts back when it is missing, and
without tool messages, which `saveHistory` drops. `full`, `clean` and `gone` are
history: what was said since the last clear, whether a chat still knows the
stored history, and what was cleared while nobody chatted.

**`Plans`**: the tables of plans and subscriptions and each handler and page that
edits them. `UpdatePlan` and `DeletePlan` of the REST API are two steps, so is
`EnsureUserSubscription`; a request for limits (`StartLimits`, `ReadSub`,
`ReadPlan`, `ReadFree`) reads row by row. A foreign key keeps a subscribed plan.
`asked` and `held` are history. `Restart` runs `seedPlans`.

**`Authentication`**: one request at one of three doors (REST, web, MCP), read
row by row: key, user, permissions, then scope and tool for MCP. Meanwhile keys
are issued, deleted or expire, users are disabled, enabled and deleted,
permissions and accounts change. Who owns an account and who has which role are
constants; a key that was deleted is in `expired`, as one that is past its time.
`dead` is history: what was wrong with the credential when the request came and
still is. The static secret is left out: no table knows it.

## Runs

| Run | Instance | Shows |
|---|---|---|
| `SessionSafety` | 1 account, 2 clients, 2 numbers, 1 reconnect goroutine, 1 rejection and 1 pending event kind at a time, 1 edited number | `MismatchGuarded`, `OrphansAreRedials`, `RowKept` |
| `SessionLiveness` | the same, no edit, only phones with a wrong number scan a code (`Scanned`), with fairness | `WrongNumberEnds` |
| `SessionIsolation` | 2 accounts | `RowKept` **fails** |
| `SessionOrphan` | 1 account | `NoOrphanConnection` **fails** |
| `LimiterSafety` | 2 senders, burst 2, cost 2 ticks, 7 ticks (nearly two refills) | `WindowBound`, `Promise` |
| `RegistrySafety` | 2 accounts, 2 numbers, 1 proxy, 2 requests at once | `LoadedHasRow`, `UnloadedIsAccounted`, `NeverBack`, `BookIsKept` |
| `RegistryProxy` | 1 account | `ProxyIsUsed` **fails** |
| `WebhookDelivery` | 1 event, 2 URLs, signed or not, 3 attempts | `SignedForItsUrl`, `GivesUpLast`, `QuietAfterAnswer`, `Promise`, `OnlyForward`, `DeliveryEnds` |
| `GatewayLimits` | 1 user and the system, 3 requests, 2 slots, 1 creation let through by a failed read | `InFlightBounded`, `UsageIsSent`, `OvershootBounded`, `RequestEnds` |
| `GatewayQuota` | 1 user, 1 request | `QuotaHolds` **fails** |
| `AccessEdits` | 1 user, a built-in and another role, 1 permission, 2 tokens, 2 requests at once | `DisabledStays`, `PermissionsReplaced`, `OneLiveToken`, `TokenUsedOnce` |
| `StoredState` | messages: 4 (1 sent from here), 3 seconds, pages of 2 (of at most 3 rows per address); autopilot: 2 deliveries, 2 numbers, 1 toggle; assistant: 3 turns, 3 messages kept, 2 rounds of tools; plans: 1 user, 2 plans, 2 limits, 2 requests; authentication: 2 users with an account each, 1 key, 1 JWT, 1 role | `PagingMissesTiesOnly`, `ListedOnce`, `NoUnwantedReply`, `ConfigFollowsEdits`, `RemembersLatest`, `ClearedStays`, `SubscribedPlansExist`, `LimitsAsEdited`, `LimitsAreHeld`, `RevokedIsOut`, `KeyStaysInScope` |

Each module also has its type invariant `TypeOK`, which is checked too, except in
the three runs that check a refinement (`LimiterSafety`, `RegistrySafety`,
`WebhookDelivery`): there it is proved (`LimiterTypes`, `RegistryTypes`,
`DispatchTypes`).

**Why the bounds are enough.** Two client objects per account are what a race
on one account needs: the current client and one it has let go, and a third
would be a second abandoned one that no handler distinguishes. Two numbers are a
right and a wrong one. Cross-account effects go through the shared store alone;
one account suffices for the properties about one account, and the second is
added where isolation is the question. One reconnect goroutine with one attempt
reaches every position of the loop; more attempts repeat it. One event is
pending on a client at a time and one rejection on an account: handlers take no
notice of each other's events, and a second one is raised when the first has
been handled. The reconnect loops of the library are not bounded. In the registry,
two requests are every pairwise race of two operations, and every operation has
at most four steps. In `AccessEdits` the promises are about one user and one role
at a time, one permission tells a set that was replaced from one that was torn or
mixed, and two tokens and two requests make each pairwise overlap. In
`StoredState`, four messages fill two pages and leave three of one second to
straddle the edge between them, under one address or two, with every sequence of
answers for the LID; two hooks and a toggle
meet each other and the form; three turns of at least two messages, of which
three are kept, make the history wrap at every save but the first, and two chats
overlap with a third before or after; two requests on plans are every pairwise
race, a second plan is what a user changes to; two users are the owner and
somebody else, and requests meet in the tables only, so that one is enough.
Deadlock is checked in every run.

**Fairness.** A goroutine that can run does (weak fairness), and one that waits
for `a.mu` gets it in the end, because `sync.RWMutex` does not starve a waiter:
strong fairness on steps whose guard is `~dialing[a]`, which other actors switch
on and off. A dial returns because the library times it out;
`http.Client.Timeout` ends every wait of a delivery; `net/http` runs every
handler. No fairness is assumed of people, of WhatsApp or of the network.

## What the failing runs show

- `SessionIsolation`: `Logout` of an account that is not connected deletes the
  first device of the shared store (`account.go:343`), which may belong to
  another account's live session. README.md:9 promises isolated sessions.
- `SessionOrphan`: `autoReconnect` dials a client that was let go while it slept
  or just before it dials (`account.go:1804`). `NoOrphanConnection` is about the
  connections this package makes; those that the library's loop makes for a
  client that was replaced are a second way to the same end.
- `RegistryProxy`: `SetProxy` hangs up before it assigns the proxy
  (`manager.go:243`), so a connect in between keeps the old proxy.
- `GatewayQuota`: billing wraps authentication (`cmd/walink/main.go:111-112`), so
  it never sees an identity and no quota or gate applies.

Disagreements met while modelling for which there is no run: `GetQR` does not
reset `rejected` (`account.go:239`); a number edited under a live client is not
compared again (`manager.go:226`); "30 messages per minute" (`account.go:113`)
lets through nearly 60 in a minute that starts with a full bucket; reactions and
revocations are sent without asking the limiter (`account.go:694`, `:1355`),
which CHANGELOG.md:32 and docs/architecture.md:96 have "for send operations"; the
table and
the memory may disagree about a number after overlapping updates
(`manager.go:223-228`); the webhook back-off is linear (`account.go:2116`), not
exponential (`CHANGELOG.md:33`, `docs/architecture.md:97`), and `retry_count = 0`
means 3 retries (`account.go:2089-2092`); the webhook switch of the
configuration is never consulted (`account.go:2043`, README.md:272); the account
cap can be overshot (`handler/accounts.go:44-58`; `OvershootBounded` says by how
much); `idle_timeout` (README.md:281) does not exist. `Account.Reset`
(`account.go:596-628`) is never called. "SetRolePermissions replaces all
permissions for a role" (`database.go:756`), but two overlapping calls can leave
the union of their sets; a "one-time reset token" (`handler/auth.go:168`) can be
used by two requests at once, or again when marking it fails
(`handler/auth.go:295`); an update that was not asked to touch the enabled flag
writes back the one it read (`handler/users.go:171-192`), and may enable a user
who was disabled meanwhile; `seedRoles` gives built-in roles their permissions
back at each start (`database.go:316`).

In the tables of `StoredState`: the REST API takes a `limit` up to 500
(`handler/messages.go:33-39`), and the database answers more than 200 with 50
(`database.go:590-593`); the page stops offering older messages when one comes
with fewer than 50, though rows with nothing to show go after the cut
(`account.go:1393-1404`); a chat read by its LID leaves out the rows of its
phone number (`account.go:1367-1416`), and its entry in the list shows the last
message of one of the two; "resolve LID JIDs to phone JIDs so conversations
unify" (`account.go:1868`) is not done for what is sent (`account.go:1766`);
`before` of the MCP tool is described as a message id
(`mcpserver/server.go:529`) and is a time. The autopilot "only replies to 1:1
conversations" (`agent/agent.go:268`) but tests for groups and newsletters, not
for broadcasts; it answers a message that is delivered twice twice, and one
whose model is at work when it is switched off; `AutopilotToggle` ignores a
failed read and writes the defaults with the switch on (`web/assistant.go:236`);
a chat that cannot load its history saves over it (`agent/agent.go:108-112`).
The plan marked `is_default` and the end of a period are never looked at
(`database/billing.go:289-312`), `app_user.plan_id` is never written; the page
that edits a plan takes a limit left out for 0, which is no limit
(`web/admin.go:909-920`); a built-in plan that was deleted comes back at the
next start; `UpdatePlan` may undo an overlapping edit, and
`EnsureUserSubscription` an administrator's assignment.

## Theorems

Each proof is for every value of the constants that satisfies the ASSUMEs of the
module, which TLC evaluates in the runs.

- `AccountSession_proofs`. `IInv` adds to the types and to the two invariants
  what they lean on: which client object a dial in progress holds, and that
  a goroutine's captured client belongs to its account. The step lemma goes
  through `Next` action by action. From it: `TypeCorrect`,
  `WrongNumberIsGuarded`, `OrphansWereRedialled`. `SingleAccountKeepsRow` proves
  `RowKept` for one account: the failing run shows that the hypothesis is needed.
- `SendLimiter_proofs`. `LimiterInv` says that the bucket holds exactly what the
  tightest window of past grants leaves. `GrantsAreBounded` is a corollary;
  `BucketKeepsPromise` is the refinement of `RateContract`, step by step.
- `AccountRegistry_proofs`. `RegistryInv` relates rows, map entries and the
  request that is between the two. `MapFollowsTable` and `DeletedForGood`
  follow; `RowsAreAccounted` adds `UnloadedIsAccounted` to it: a row outside the
  map has a request that is about to load or delete it, or its DELETE or the last
  listing failed.
  `BookKept` is the refinement of `AccountBook`, one lemma per request that shows
  in the book. Serving needs `CreatingKnown` (the row of an account being created
  is there, and nobody else knows of it), striking out needs `DeletingUnloaded`;
  what the requests that overlap repeat is a stutter.
- `WebhookDispatch_proofs`. `DispatchInv`: the row is one that was saved, a job
  carries the URL and secret of one saved row, and a post those of its job. A
  delivery is not torn because both fields come from the one read of the row,
  which is what `JobsSound` keeps over all retries (`DeliveriesAreWhole`,
  `DeliveriesPersist`, and the action property `AnsweredIsOver`).
  `DeliveriesAdvance` proves `OnlyForward`: each step of a goroutine adds to
  `Progress`, which is never more than `3 * MaxAttempts + 1`. With the fairness
  of `FairSpec` that is why `DeliveryEnds` holds; the last step of that argument
  is left to TLC. `ContractIsKept` is the refinement of `DeliveryContract`; it
  adds `Fresh` to the invariant, that a goroutine which has not read the row
  holds no target, so that the target is chosen once.
- `Gateway_proofs`. `GatewayInv` adds to the three properties that the identity
  behind `Auth` is the one of the credentials (`KnownBehindAuth`) and that
  finitely many requests are inside. The properties count requests, so the proof
  rests on lemmas about sets that differ in one element (`MoveOne`) and on how
  each step moves one request between places (`SemaphoreIsExact`,
  `UsageIsHonest`, `OvershootIsBounded`, in which a creation that a failed read
  lets through is paid for by `blind`).
- `AccessControl_proofs`. One inductive invariant per promise. `OffInv`: no update
  in flight would enable a disabled user again. `PermsInv`: a transaction that is
  alone on its role sees all of its permissions, so its DELETE leaves none.
  `OneInv`: besides one good token there is no request about to store another.
  `UsedInv`: a password that was set with a token whose row is still good has its
  request about to mark it. Each has a lemma for the steps that do not concern it.
- `StoredState_proofs`. A step of `StoredState` is a step of one part and leaves
  the others alone (`NextByPart`), so each part has an invariant of its own.
  `PilotInv`: a delivery past its last check had its chance, and while no
  edit met a toggle every toggle holds the configuration that is stored.
  `DoorInv`: what was wrong with the credentials when the request came is wrong
  until the check that looks at it, and past `MCPScope` the account is the one of
  the key or of the request, and the user's own. `AssistantInv`: what is stored is
  an end of what was said, a running chat adds turns of its own only, one that was
  not overtaken has loaded what is stored, and nothing loaded was cleared; it
  rests on lemmas about ends of sequences (`SuffixIs`, `KeepLastIs`, `EndsGoOn`,
  `TurnsIn`).
- `StoredTables_proofs`. The message store and billing. `ChatsPartition` is
  about the queries on any table, whatever they and the lookups answer: it needs
  the types of the rows only. `ScrollingSkipsTies` proves
  `PagingMissesTiesOnly`, provided that the reader asks for no more rows than
  the database grants (`PageGranted`): a REST caller that asks for more than 200
  gets 50 and would stop at the first page. `StoreInv` adds to the types that
  finitely many rows are stored. A page is everything before its second, or as
  many rows as were asked for, of which none is older than one left out
  (`PagesAreFullOrAll`); so a page skips ties of its oldest row, unless a row
  with nothing to show makes it short (`SkippedIsTied`); a page read without the
  LID skips rows of the LID besides (`SkippedIsExcused`); and the next page
  begins at an earlier second (`NextIsEarlier`). `Missed` is a recursive
  function of the second. The library's induction theorems take an operator as a
  parameter and cannot be used; the induction is over a set instead
  (`NumberByNumber`, from the well-foundedness of `<` by `WFMin`), once to show
  that the function is defined by its equation (`MissedIsDefined`) and once for
  the property (`MissedIsExcused`). `PlansInv`: a subscribed plan exists, an
  update on its way would write the limits last asked for, and a request for
  limits holds every plan its user had since it began (`Entitled`).
  `LimitsAreHeld` needs the first: only because a subscribed plan cannot vanish
  does a missing plan mean that the user was given another one meanwhile.
  `StoredTypes` collects the types of all five parts.

Model-checked only: liveness (`WrongNumberEnds`, `DeliveryEnds`, `RequestEnds`),
which TLAPS does not prove. The properties of the failing runs are false, and
`RowKept` is proved for one account and fails for two.

## Not modelled

- The previews and unread counts of the chat list, groups and contacts as the
  WhatsApp server knows them, media: single reads, or calls passed on to the
  library.
- What the language model says and what its tools do to accounts: the model is
  any answer, failure or timeout, and the tools call what `AccountSession`,
  `AccountRegistry`, `SendLimiter` and `MessageStore` model.
- The account pages of the web UI and the tools of the MCP server past their
  authentication: the same service operations, and what they show.
- The profile pages and settings of the assistant: one statement each, on rows
  nobody else edits.
- Configuration, mail, data types and HTML: parsing and rendering, without
  behaviour over time.
- Running several server processes on one database, which nothing in the code
  provides for.
