------------------------------- MODULE Gateway -------------------------------
(***************************************************************************)
(* The way of a REST request through the handlers main.go stacks on        *)
(* /api/v1/: RateLimit, then BillingEnforcer, then Auth, then the route,   *)
(* with billing enabled; and the two plan limits the routes depend on, the *)
(* daily messages and the number of accounts of a user.                    *)
(***************************************************************************)
EXTENDS Naturals, FiniteSets

CONSTANTS
    Users,          \* app_user rows
    System,         \* the identity of the secret key
    NoUser,         \* the nil *Identity
    Requests,       \* connections, one request at a time each
    MaxConcurrent,  \* limits.max_concurrent_requests
    DailyMessages,  \* plan limit; 0 means no limit
    MaxAccounts,    \* plan limit; 0 means no limit
    PlanWebhooks,   \* plan gate for webhook configuration
    MaxSends,       \* bound: messages sent per user and day
    MaxBlind        \* bound: creations of a user let through a full plan by errors

ASSUME CallerAssumption ==
    System \notin Users /\ NoUser \notin Users \cup {System}
ASSUME LimitAssumption ==
    /\ MaxConcurrent \in Nat \ {0}
    /\ DailyMessages \in Nat /\ MaxAccounts \in Nat /\ MaxSends \in Nat
    /\ MaxBlind \in Nat
    /\ PlanWebhooks \in BOOLEAN

VARIABLES
    slots,      \* tokens in the semaphore channel of RateLimit
    req,        \* requests: where they are, what they ask, for whom
    usage,      \* usage[u]: today's row of the usage table
    accounts,   \* accounts[u]: account rows of the user
    sent,       \* history: messages of the user sent today
    late,       \* history: of usage, what was sent before midnight
    blind       \* history: creations let through a full plan by a failed read

vars == <<slots, req, usage, accounts, sent, late, blind>>

Callers == Users \cup {System}
Ops == {"send", "create", "webhook"}
Places == {"billing", "auth", "route", "count", "insert"}

\* who holds the credentials; identity is what Auth has put in the context.
Idle == [at |-> "idle", op |-> "none", who |-> NoUser, identity |-> NoUser]
Request == [at : Places, op : Ops, who : Callers,
            identity : Callers \cup {NoUser}]

Counting(u) == {r \in Requests : req[r].at = "count" /\ req[r].who = u}
Inserting(u) == {r \in Requests : req[r].at = "insert" /\ req[r].who = u}

TypeOK ==
    /\ slots \in 0..MaxConcurrent
    /\ req \in [Requests -> Request \cup {Idle}]
    /\ usage \in [Users -> Nat]
    /\ accounts \in [Users -> Nat]
    /\ sent \in [Users -> 0..MaxSends]
    /\ late \in [Users -> Nat]
    /\ blind \in [Users -> 0..MaxBlind]

Init ==
    /\ slots = 0
    /\ req = [r \in Requests |-> Idle]
    /\ usage = [u \in Users |-> 0]
    /\ accounts = [u \in Users |-> 0]
    /\ sent = [u \in Users |-> 0]
    /\ late = [u \in Users |-> 0]
    /\ blind = [u \in Users |-> 0]

At(r, place) == req[r].at = place
Goto(r, place) == req' = [req EXCEPT ![r].at = place]

\* Mutant: the slot is not given back.
LeaveKeepingSlot(r) ==
    /\ req' = [req EXCEPT ![r] = Idle]
    /\ UNCHANGED slots

\* The response is written and the deferred release runs.
Leave(r) ==
    /\ req' = [req EXCEPT ![r] = Idle]
    /\ slots' = slots - 1

Refuse(r) == Leave(r) /\ UNCHANGED <<usage, accounts, sent, late, blind>>

-----------------------------------------------------------------------------
(* The middleware *)

\* Mutant: the semaphore is taken without looking whether it is full.
ArriveUnlimited(r, op, who) ==
    /\ req[r] = Idle
    /\ slots' = slots + 1
    /\ req' = [req EXCEPT ![r] = [at |-> "billing", op |-> op, who |-> who,
                                  identity |-> NoUser]]
    /\ UNCHANGED <<usage, accounts, sent, late, blind>>

\* RateLimit: a request that finds no slot is answered 429 at once.
Arrive(r, op, who) ==
    /\ req[r] = Idle /\ slots < MaxConcurrent
    /\ slots' = slots + 1
    /\ req' = [req EXCEPT ![r] = [at |-> "billing", op |-> op, who |-> who,
                                  identity |-> NoUser]]
    /\ UNCHANGED <<usage, accounts, sent, late, blind>>

\* BillingEnforcer lets pass whom it does not know, and the system.
MayPass(r) ==
    \/ req[r].identity \notin Users
    \/ /\ req[r].op = "webhook" => PlanWebhooks
       /\ req[r].op = "send" /\ DailyMessages > 0
             => usage[req[r].identity] < DailyMessages

Billing(r) ==
    /\ At(r, "billing")
    /\ IF MayPass(r)
       THEN Goto(r, "auth") /\ UNCHANGED <<slots, usage, accounts, sent, late, blind>>
       ELSE Refuse(r)

\* Mutant: a second limiter, behind the first, waits for a slot of its own.
AuthSecondSlot(r) ==
    /\ At(r, "auth") /\ slots < MaxConcurrent
    /\ slots' = slots + 1
    /\ req' = [req EXCEPT ![r].at = "route", ![r].identity = req[r].who]
    /\ UNCHANGED <<usage, accounts, sent, late, blind>>

\* Auth puts the identity in the context, or answers 401 or 403.
Auth(r) ==
    /\ At(r, "auth")
    /\ \/ /\ req' = [req EXCEPT ![r].at = "route", ![r].identity = req[r].who]
          /\ UNCHANGED <<slots, usage, accounts, sent, late, blind>>
       \/ Refuse(r)

-----------------------------------------------------------------------------
(* The routes *)

\* SendMessage: the message is sent, or something fails before.
Send(r) ==
    /\ At(r, "route") /\ req[r].op = "send"
    /\ LET u == req[r].identity
       IN \/ /\ u \in Users => sent[u] < MaxSends
             /\ sent' = [x \in Users |-> IF x = u THEN sent[x] + 1 ELSE sent[x]]
             /\ Goto(r, "count")
             /\ UNCHANGED <<slots, usage, accounts, late, blind>>
          \/ Refuse(r)

\* Mutant: the counter moves by one for every attempt to store it.
CountTwice(r) ==
    /\ At(r, "count")
    /\ usage' = [x \in Users |-> IF x = req[r].identity THEN usage[x] + 2 ELSE usage[x]]
    /\ Leave(r)
    /\ UNCHANGED <<accounts, sent, late, blind>>

\* trackMessageSend after the send: the system is not counted, and an error
\* of the upsert is dropped.
Count(r) ==
    /\ At(r, "count")
    /\ \/ usage' = [x \in Users |-> IF x = req[r].identity THEN usage[x] + 1 ELSE usage[x]]
       \/ UNCHANGED usage
    /\ Leave(r)
    /\ UNCHANGED <<accounts, sent, late, blind>>

\* Mutant: the account that makes the plan full is not the last one.
CapCheckLoose(r) ==
    /\ At(r, "route") /\ req[r].op = "create"
    /\ LET u == req[r].identity
       IN IF u \in Users /\ MaxAccounts > 0 /\ accounts[u] > MaxAccounts
          THEN Refuse(r)
          ELSE Goto(r, "insert") /\ UNCHANGED <<slots, usage, accounts, sent, late, blind>>

\* The plan of user u holds no further account.
Full(u) == u \in Users /\ MaxAccounts > 0 /\ accounts[u] >= MaxAccounts

\* CreateAccount reads the limits of the owner and counts the rows first, and
\* drops the errors of both: a failed count reads 0, and limits that cannot be
\* read are those of another plan, which may refuse more or less.
CapCheck(r) ==
    /\ At(r, "route") /\ req[r].op = "create"
    /\ LET u == req[r].identity
       IN \/ u \in Users /\ Refuse(r)
          \/ /\ ~Full(u)
             /\ Goto(r, "insert")
             /\ UNCHANGED <<slots, usage, accounts, sent, late, blind>>
          \/ /\ Full(u) /\ blind[u] < MaxBlind
             /\ Goto(r, "insert")
             /\ blind' = [blind EXCEPT ![u] = @ + 1]
             /\ UNCHANGED <<slots, usage, accounts, sent, late>>

\* The row is inserted, or the insert fails.
Insert(r) ==
    /\ At(r, "insert")
    /\ LET u == req[r].identity
       IN accounts' \in {accounts,
                         [x \in Users |-> IF x = u THEN accounts[x] + 1 ELSE accounts[x]]}
    /\ Leave(r)
    /\ UNCHANGED <<usage, sent, late, blind>>

\* SetWebhook and DeleteWebhook touch no plan.
Webhook(r) ==
    /\ At(r, "route") /\ req[r].op = "webhook"
    /\ Refuse(r)

-----------------------------------------------------------------------------

\* An account of the user is deleted.
DeleteAccount(u) ==
    /\ accounts[u] > 0
    /\ accounts' = [accounts EXCEPT ![u] = @ - 1]
    /\ UNCHANGED <<slots, req, usage, sent, late, blind>>

\* Midnight UTC: IncrementUsage and GetDailyUsage turn to a new row.
Midnight ==
    /\ usage' = [u \in Users |-> 0]
    /\ sent' = [u \in Users |-> 0]
    /\ late' = [u \in Users |-> Cardinality(Counting(u))]
    /\ UNCHANGED <<slots, req, accounts, blind>>

Serve(r) ==
    \/ Billing(r) \/ Auth(r)
    \/ Send(r) \/ Count(r)
    \/ CapCheck(r) \/ Insert(r)
    \/ Webhook(r)

Next ==
    \/ \E r \in Requests :
          Serve(r) \/ \E op \in Ops, who \in Callers : Arrive(r, op, who)
    \/ \E u \in Users : DeleteAccount(u)
    \/ Midnight

Spec == Init /\ [][Next]_vars

\* net/http runs every handler.
FairSpec == Spec /\ \A r \in Requests : WF_vars(Serve(r))

-----------------------------------------------------------------------------
(* Properties *)

\* The semaphore is exact: as many slots are taken as requests are inside,
\* on every path out, and never more than the configured number.
InFlightBounded ==
    /\ slots = Cardinality({r \in Requests : req[r] # Idle})
    /\ slots <= MaxConcurrent

\* The usage table never counts a message that was not sent, nor one twice,
\* across midnight too: what is counted today was sent today, or was on its
\* way to the counter at midnight.
UsageIsSent ==
    \A u \in Users :
        usage[u] + Cardinality(Counting(u)) <= sent[u] + late[u]

\* The account cap is checked before the insert, by requests that do not see
\* each other, and on reads whose errors are dropped: it can be overshot, by at
\* most the requests in flight less one, and one more for every creation that
\* came to a full plan and whose limits or count could not be read.
OvershootBounded ==
    MaxAccounts > 0 =>
        \A u \in Users :
            accounts[u] + Cardinality(Inserting(u))
                <= MaxAccounts + MaxConcurrent - 1 + blind[u]

\* Every request that got a slot is served, and gives the slot back.
RequestEnds == \A r \in Requests : req[r] # Idle ~> req[r] = Idle

-----------------------------------------------------------------------------
(* What a document says, and the code does not do *)

\* CONFIGURATION.md:112, "the billing middleware checks message quotas ...
\* against the user's plan": nobody but the system sends more than the plan's
\* daily messages.
QuotaHolds ==
    DailyMessages > 0 => \A u \in Users : sent[u] <= DailyMessages

=============================================================================
