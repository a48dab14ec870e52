--------------------------- MODULE AccountSession ---------------------------
(***************************************************************************)
(* The WhatsApp session of every account: internal/service/account.go.     *)
(*                                                                         *)
(* An Account object owns at most one whatsmeow client at a time, guarded  *)
(* by a.mu.  Clients are created by prepareClient over the FIRST device of *)
(* a session store that all accounts share (one DSN for all of them), and  *)
(* are touched by five kinds of actor: requests and the startup check      *)
(* (Connect, GetQR, Disconnect, Logout), event handlers, autoReconnect     *)
(* goroutines, rejectMismatch goroutines, and the WhatsApp side.  The      *)
(* whatsmeow library and the WhatsApp servers are external: they are       *)
(* modelled by what account.go relies on, and by what it leaves switched   *)
(* on: prepareClient never clears EnableAutoReconnect, so the library too  *)
(* reconnects a client whose connection was lost.                          *)
(***************************************************************************)
EXTENDS Naturals, FiniteSets

CONSTANTS
    Accounts,       \* account objects in the manager's map
    Numbers,        \* phone numbers, registered on accounts or paired by users
    Scanned,        \* bound: the numbers whose phones may scan a code
    Suffixes,       \* <<p, n>>: p is a proper suffix of n of at least 7 digits
    Clients,        \* pool of whatsmeow client objects, reused when unreachable
    Owner,          \* Owner[c]: the account whose handleEvent client c calls
    Registered,     \* Registered[a]: phone number of account a at first
    Tasks,          \* pool of autoReconnect goroutines
    NoAccount,
    NoClient,       \* the nil *whatsmeow.Client
    NoDevice,       \* the nil Store.ID of an unpaired client
    MaxAttempts,    \* length of the delays table of autoReconnect
    MaxRejecters,   \* bound: pending rejectMismatch goroutines per account
    MaxEvents,      \* bound: kinds of event pending on one client
    MaxPhoneEdits   \* bound: phone numbers edited in one behaviour

ASSUME NilAssumption ==
    NoAccount \notin Accounts /\ NoClient \notin Clients /\ NoDevice \notin Numbers
ASSUME OwnerAssumption == Owner \in [Clients -> Accounts]
ASSUME RegisteredAssumption ==
    /\ Registered \in [Accounts -> Numbers]
    /\ \A a, b \in Accounts : Registered[a] = Registered[b] => a = b
ASSUME BoundsAssumption ==
    /\ Scanned \subseteq Numbers
    /\ MaxAttempts \in Nat \ {0}
    /\ MaxRejecters \in Nat \ {0}
    /\ MaxEvents \in Nat \ {0}
    /\ MaxPhoneEdits \in Nat

VARIABLES
    \* the shared Postgres session store, and the links WhatsApp knows of
    store,      \* numbers whose device row is in the session store
    linked,     \* numbers whose link is still valid on the WhatsApp side
    \* Account fields
    phone,      \* a.PhoneNumber
    client,     \* a.client
    rejected,   \* a.rejected
    dialing,    \* a.mu is write-held by Connect or GetQR around client.Connect
    \* goroutines and the manager
    rejecters,  \* rejectMismatch goroutines started and not yet run
    toVerify,   \* accounts DiscoverAccounts has still to connect at startup
    phoneEdits, \* phone numbers edited so far (bounded)
    task,       \* autoReconnect goroutines
    \* clients
    dev,        \* client.Store.ID
    conn,       \* client.IsConnected(), and who connected it
    auth,       \* client.IsLoggedIn()
    inbox,      \* events dispatched and not yet handled
    retrying    \* clients a reconnect loop of the library runs for

acctVars   == <<phone, client, rejected, dialing>>
goVars     == <<rejecters, toVerify, phoneEdits, task>>
clientVars == <<dev, conn, auth, inbox, retrying>>
vars == <<store, linked, phone, client, rejected, dialing, rejecters,
          toVerify, phoneEdits, task, dev, conn, auth, inbox, retrying>>

\* A connection is up since a dial under a.mu, since an autoReconnect, or since
\* the library reconnected by itself.
Down == "down"
Links == {Down, "dialled", "redialled", "resumed"}
EventKinds == {"Connected", "LoggedOut", "Disconnected"}

\* An autoReconnect goroutine: sleeping before an attempt, or about to call
\* Connect on the client it captured under the read lock.
Idle == [at |-> "idle", acct |-> NoAccount, left |-> 0, cap |-> NoClient]
Sleeping(a, n) == [at |-> "sleep", acct |-> a, left |-> n, cap |-> NoClient]
Redialing(a, n, c) == [at |-> "redial", acct |-> a, left |-> n, cap |-> c]
TaskState == [at : {"idle", "sleep", "redial"},
              acct : Accounts \cup {NoAccount},
              left : 0..MaxAttempts,
              cap : Clients \cup {NoClient}]

TypeOK ==
    /\ store \subseteq Numbers
    /\ linked \subseteq Numbers
    /\ phone \in [Accounts -> Numbers]
    /\ client \in [Accounts -> Clients \cup {NoClient}]
    /\ rejected \in [Accounts -> BOOLEAN]
    /\ dialing \in [Accounts -> BOOLEAN]
    /\ rejecters \in [Accounts -> 0..MaxRejecters]
    /\ toVerify \subseteq Accounts
    /\ phoneEdits \in 0..MaxPhoneEdits
    /\ task \in [Tasks -> TaskState]
    /\ dev \in [Clients -> Numbers \cup {NoDevice}]
    /\ conn \in [Clients -> Links]
    /\ auth \in [Clients -> BOOLEAN]
    /\ inbox \in [Clients -> SUBSET EventKinds]
    /\ retrying \subseteq Clients

-----------------------------------------------------------------------------
(* Helpers *)

\* phoneMatches: equal digits, or the registered number (never empty here:
\* CreateAccount wants 7 to 15 digits) is a long enough suffix.
PhoneMatches(authed, registered) ==
    authed = registered \/ <<registered, authed>> \in Suffixes

\* The device of client c carries a number that is not the account's.
WrongNumber(a, c) ==
    c # NoClient /\ dev[c] # NoDevice /\ ~PhoneMatches(dev[c], phone[a])

\* a.client != nil && a.client.IsConnected()
IsConnected(a) == client[a] # NoClient /\ conn[client[a]] # Down

\* container.GetFirstDevice: some stored device (the query has no order), or
\* a new unpaired one when the store is empty.
FirstDevices == IF store = {} THEN {NoDevice} ELSE store

\* A client object nothing can reach any more.
Unreachable(c) ==
    /\ \A a \in Accounts : client[a] # c
    /\ conn[c] = Down /\ inbox[c] = {} /\ c \notin retrying
    /\ \A t \in Tasks : task[t].cap # c

\* HTTP is served only once DiscoverAccounts has returned.
Serving == toVerify = {}

\* a.client.Disconnect(); a reconnect loop of the library that is between two
\* attempts may end with it (RetryEnds), one that is dialling goes on.
HangUp(a) ==
    /\ conn' = [c \in Clients |-> IF c = client[a] THEN Down ELSE conn[c]]
    /\ auth' = [c \in Clients |-> auth[c] /\ c # client[a]]

\* Hang up and set a.client to nil.
DropClient(a) == HangUp(a) /\ client' = [client EXCEPT ![a] = NoClient]

Init ==
    /\ store = {} /\ linked = {}
    /\ phone = Registered
    /\ client = [a \in Accounts |-> NoClient]
    /\ rejected = [a \in Accounts |-> FALSE]
    /\ dialing = [a \in Accounts |-> FALSE]
    /\ rejecters = [a \in Accounts |-> 0]
    /\ toVerify = {} /\ phoneEdits = 0
    /\ task = [t \in Tasks |-> Idle]
    /\ dev = [c \in Clients |-> NoDevice]
    /\ conn = [c \in Clients |-> Down]
    /\ auth = [c \in Clients |-> FALSE]
    /\ inbox = [c \in Clients |-> {}]
    /\ retrying = {}

-----------------------------------------------------------------------------
(* Requests and the startup check: the operations that take a.mu *)

\* prepareClient: a new client over the first stored device replaces
\* a.client, whatever was there; the old client is not told.
PrepareClient(a, c, d) ==
    /\ Owner[c] = a /\ Unreachable(c)
    /\ d \in FirstDevices
    /\ client' = [client EXCEPT ![a] = c]
    /\ dev' = [dev EXCEPT ![c] = d]

\* Connect, up to client.Connect(): the rejection flag is cleared first; a
\* connected client is kept, an unconnected one replaced without Disconnect;
\* opening the store or reading the device may fail.
Connect(a) ==
    /\ ~dialing[a]
    /\ rejected' = [rejected EXCEPT ![a] = FALSE]
    /\ \/ /\ ~IsConnected(a)
          /\ \E c \in Clients, d \in FirstDevices : PrepareClient(a, c, d)
          /\ dialing' = [dialing EXCEPT ![a] = TRUE]
          /\ UNCHANGED toVerify
       \/ /\ toVerify' = toVerify \ {a}
          /\ UNCHANGED <<client, dialing, dev>>
    /\ UNCHANGED <<store, linked, phone, rejecters, phoneEdits, task, conn,
                   auth, inbox, retrying>>

\* EnsureConnected from a request.  Its read-locked test is repeated by
\* Connect under the lock; only a client that connects between the two lets
\* Connect clear the flag of a connected account.
EnsureConnected(a) == Serving /\ ~IsConnected(a) /\ Connect(a)

\* DiscoverAccounts connects the accounts with stored credentials in turn.
VerifyStored(a) ==
    /\ a \in toVerify
    /\ \A b \in Accounts : ~dialing[b]
    /\ Connect(a)

\* Mutant: GetQR forgets to tear down the old client.
GetQRKeepsOld(a) ==
    /\ Serving /\ ~dialing[a]
    /\ \E c \in Clients, d \in FirstDevices :
          /\ PrepareClient(a, c, d)
          /\ dialing' = [dialing EXCEPT ![a] = (d = NoDevice)]
    /\ UNCHANGED <<store, linked, phone, rejected, goVars, conn, auth, inbox,
                   retrying>>

\* GetQR, up to client.Connect(): the old client is torn down; a stored
\* device (of any account) makes it fail with the new client left in place.
GetQR(a) ==
    /\ Serving /\ ~dialing[a]
    /\ HangUp(a)
    /\ \/ \E c \in Clients, d \in FirstDevices :
             /\ PrepareClient(a, c, d)
             /\ dialing' = [dialing EXCEPT ![a] = (d = NoDevice)]
       \/ /\ client' = [client EXCEPT ![a] = NoClient]
          /\ UNCHANGED <<dialing, dev>>
    /\ UNCHANGED <<store, linked, phone, rejected, goVars, inbox, retrying>>

\* client.Connect() returns inside Connect or GetQR, and a.mu is released.
DialEnds(a) ==
    /\ dialing[a]
    /\ dialing' = [dialing EXCEPT ![a] = FALSE]
    /\ toVerify' = toVerify \ {a}
    /\ \E link \in {Down, "dialled"} :
          conn' = [conn EXCEPT ![client[a]] = link]
    /\ UNCHANGED <<store, linked, phone, client, rejected, rejecters,
                   phoneEdits, task, dev, auth, inbox, retrying>>

\* Disconnect: SetProxy, DeleteProxy, DeleteAccount and ShutdownAll.
Disconnect(a) ==
    /\ Serving /\ ~dialing[a] /\ client[a] # NoClient
    /\ DropClient(a)
    /\ UNCHANGED <<store, linked, phone, rejected, dialing, goVars, dev, inbox,
                   retrying>>

\* client.Logout() succeeds: the server forgets the link, the library deletes
\* the device row and the client is unpaired.
Unlink(c) ==
    /\ linked' = linked \ {dev[c]}
    /\ dev' = [dev EXCEPT ![c] = NoDevice]

\* Logout of a connected client; when the server call fails only the client
\* goes, and the device row stays.
LogoutConnected(a) ==
    /\ Serving /\ ~dialing[a] /\ IsConnected(a)
    /\ \/ /\ dev[client[a]] # NoDevice
          /\ Unlink(client[a])
          /\ store' = store \ {dev[client[a]]}
       \/ UNCHANGED <<store, linked, dev>>
    /\ DropClient(a)
    /\ UNCHANGED <<phone, rejected, dialing, goVars, inbox, retrying>>

\* Mutant: the stored row is deleted without looking at the client.
LogoutRowOnly(a) ==
    /\ Serving /\ ~dialing[a]
    /\ \E d \in FirstDevices : store' = store \ {d}
    /\ UNCHANGED <<linked, acctVars, goVars, clientVars>>

\* Logout of a sleeping account: the client object goes, and the FIRST row
\* of the shared store is deleted (or the store cannot be opened).
LogoutSleeping(a) ==
    /\ Serving /\ ~dialing[a] /\ ~IsConnected(a)
    /\ \E d \in FirstDevices : store' \in {store, store \ {d}}
    /\ DropClient(a)
    /\ UNCHANGED <<linked, phone, rejected, dialing, goVars, dev, inbox,
                   retrying>>

\* UpdatePhoneNumber: unique among the accounts, whatever client is up.
UpdatePhoneNumber(a, p) ==
    /\ Serving /\ ~dialing[a] /\ phoneEdits < MaxPhoneEdits
    /\ \A b \in Accounts : phone[b] # p
    /\ phone' = [phone EXCEPT ![a] = p]
    /\ phoneEdits' = phoneEdits + 1
    /\ UNCHANGED <<store, linked, client, rejected, dialing, rejecters,
                   toVerify, task, clientVars>>

-----------------------------------------------------------------------------
(* handleEvent, called by a client c of account a *)

Takes(a, c, e) ==
    /\ Owner[c] = a /\ e \in inbox[c]
    /\ inbox' = [inbox EXCEPT ![c] = @ \ {e}]

\* rejectMismatch only starts a goroutine.
StartReject(a) ==
    /\ rejecters[a] < MaxRejecters
    /\ rejecters' = [rejecters EXCEPT ![a] = @ + 1]

\* Mutant: the number is trusted once PairSuccess has looked at it.
OnConnectedTrusting(a, c) ==
    /\ Takes(a, c, "Connected") /\ ~dialing[a]
    /\ UNCHANGED <<store, linked, acctVars, goVars, dev, conn, auth, retrying>>

\* Connected: it looks at the account's CURRENT client, not at c.  The device
\* is read after the unlock; a client replaced in between is the same as a
\* client replaced before the started goroutine runs.
OnConnected(a, c) ==
    /\ Takes(a, c, "Connected") /\ ~dialing[a]
    /\ IF WrongNumber(a, client[a]) THEN StartReject(a) ELSE UNCHANGED rejecters
    /\ UNCHANGED <<store, linked, acctVars, toVerify, phoneEdits, task, dev,
                   conn, auth, retrying>>

\* LoggedOut: it drops the account's CURRENT client, whichever that is.
OnLoggedOut(a, c) ==
    /\ Takes(a, c, "LoggedOut") /\ ~dialing[a]
    /\ DropClient(a)
    /\ UNCHANGED <<store, linked, phone, rejected, dialing, goVars, dev, retrying>>

\* Disconnected: start autoReconnect, unless the account was rejected.
OnDisconnected(a, c) ==
    /\ Takes(a, c, "Disconnected") /\ ~dialing[a]
    /\ IF rejected[a]
       THEN UNCHANGED task
       ELSE \E t \in Tasks :
               /\ task[t] = Idle
               /\ task' = [task EXCEPT ![t] = Sleeping(a, MaxAttempts)]
    /\ UNCHANGED <<store, linked, acctVars, rejecters, toVerify, phoneEdits,
                   dev, conn, auth, retrying>>

\* The goroutine of rejectMismatch: log out (which may fail) and drop the
\* current client, then wipe the whole store (GetAllDevices may fail).
\* a.container is set: the event came from a client prepareClient made.
Reject(a) ==
    /\ rejecters[a] > 0 /\ ~dialing[a]
    /\ rejecters' = [rejecters EXCEPT ![a] = @ - 1]
    /\ rejected' = [rejected EXCEPT ![a] = TRUE]
    /\ \/ /\ IsConnected(a) /\ dev[client[a]] # NoDevice
          /\ Unlink(client[a])
          /\ store' \in {{}, store \ {dev[client[a]]}}
       \/ /\ store' \in {{}, store}
          /\ UNCHANGED <<linked, dev>>
    /\ DropClient(a)
    /\ UNCHANGED <<phone, dialing, toVerify, phoneEdits, task, inbox, retrying>>

-----------------------------------------------------------------------------
(* autoReconnect: look at a.client under the read lock, Connect it without *)

Wake(t) ==
    /\ task[t].at = "sleep" /\ ~dialing[task[t].acct]
    /\ LET a == task[t].acct
           go == client[a] # NoClient /\ ~IsConnected(a)
       IN task' = [task EXCEPT ![t] =
                      IF go THEN Redialing(a, task[t].left, client[a]) ELSE Idle]
    /\ UNCHANGED <<store, linked, acctVars, rejecters, toVerify, phoneEdits,
                   clientVars>>

\* Mutant: the loop goes on past the last delay.
RedialPastEnd(t) ==
    /\ task[t].at = "redial"
    /\ task' = [task EXCEPT ![t] = Sleeping(task[t].acct, task[t].left - 1)]
    /\ UNCHANGED <<store, linked, acctVars, rejecters, toVerify, phoneEdits,
                   clientVars>>

\* client.Connect() fails on a connected client, and may fail on any other;
\* after the last delay the goroutine gives up.
Redial(t) ==
    /\ task[t].at = "redial"
    /\ LET c == task[t].cap
           n == task[t].left
       IN \/ /\ conn[c] = Down
             /\ conn' = [conn EXCEPT ![c] = "redialled"]
             /\ task' = [task EXCEPT ![t] = Idle]
          \/ /\ task' = [task EXCEPT ![t] =
                            IF n > 1 THEN Sleeping(task[t].acct, n - 1) ELSE Idle]
             /\ UNCHANGED conn
    /\ UNCHANGED <<store, linked, acctVars, rejecters, toVerify, phoneEdits,
                   dev, auth, inbox, retrying>>

-----------------------------------------------------------------------------
(* The whatsmeow library and the WhatsApp side (external), and the crash *)

Posts(c, e) ==
    /\ Cardinality(inbox[c] \cup {e}) <= MaxEvents
    /\ inbox' = [inbox EXCEPT ![c] = @ \cup {e}]

\* The handshake of a paired client is accepted.
Authenticate(c) ==
    /\ conn[c] # Down /\ ~auth[c] /\ dev[c] \in linked
    /\ auth' = [auth EXCEPT ![c] = TRUE]
    /\ Posts(c, "Connected")
    /\ UNCHANGED <<store, linked, acctVars, goVars, dev, conn, retrying>>

\* Someone scans the QR code, or enters the pairing code, with number n.  The
\* PairSuccess event follows; its handler takes no lock and compares n with
\* the account's number.
Pair(a, c, n) ==
    /\ Owner[c] = a /\ conn[c] # Down /\ dev[c] = NoDevice
    /\ dev' = [dev EXCEPT ![c] = n]
    /\ store' = store \cup {n} /\ linked' = linked \cup {n}
    /\ IF PhoneMatches(n, phone[a]) THEN UNCHANGED rejecters ELSE StartReject(a)
    /\ UNCHANGED <<acctVars, toVerify, phoneEdits, task, conn, auth, inbox,
                   retrying>>

\* The phone unlinks the device, whether the server is up or not.
Revoke(n) ==
    /\ n \in linked
    /\ linked' = linked \ {n}
    /\ UNCHANGED <<store, acctVars, goVars, clientVars>>

\* A client whose device is not linked any more is told so.
KickOut(c) ==
    /\ conn[c] # Down /\ dev[c] # NoDevice /\ dev[c] \notin linked
    /\ conn' = [conn EXCEPT ![c] = Down]
    /\ auth' = [auth EXCEPT ![c] = FALSE]
    /\ store' = store \ {dev[c]}
    /\ dev' = [dev EXCEPT ![c] = NoDevice]
    /\ Posts(c, "LoggedOut")
    /\ UNCHANGED <<linked, acctVars, goVars, retrying>>

\* The connection is lost: with a Disconnected event, or without one (the QR
\* channel ran out, another connection of the device took over).  For a paired
\* client the library may start to reconnect, as it does when the other side
\* closed the connection or asked for a new one after pairing.
ConnectionLost(c) ==
    /\ conn[c] # Down
    /\ conn' = [conn EXCEPT ![c] = Down]
    /\ auth' = [auth EXCEPT ![c] = FALSE]
    /\ Posts(c, "Disconnected") \/ UNCHANGED inbox
    /\ retrying' \in {retrying, retrying \cup {k \in {c} : dev[k] # NoDevice}}
    /\ UNCHANGED <<store, linked, acctVars, goVars, dev>>

\* The library's loop dials its client again: whichever client its account
\* holds by now, and without a.mu.
Resume(c) ==
    /\ c \in retrying /\ conn[c] = Down
    /\ conn' = [conn EXCEPT ![c] = "resumed"]
    /\ retrying' = retrying \ {c}
    /\ UNCHANGED <<store, linked, acctVars, goVars, dev, auth, inbox>>

\* The loop ends without a connection of its own: the client was connected or
\* disconnected meanwhile.
RetryEnds(c) ==
    /\ c \in retrying
    /\ retrying' = retrying \ {c}
    /\ UNCHANGED <<store, linked, acctVars, goVars, dev, conn, auth, inbox>>

\* The process stops and starts: the store and the phone numbers survive;
\* DiscoverAccounts finds a stored device for every account it can probe.
Restart ==
    /\ client' = [a \in Accounts |-> NoClient]
    /\ rejected' = [a \in Accounts |-> FALSE]
    /\ dialing' = [a \in Accounts |-> FALSE]
    /\ rejecters' = [a \in Accounts |-> 0]
    /\ toVerify' \in IF store = {} THEN {{}} ELSE SUBSET Accounts
    /\ task' = [t \in Tasks |-> Idle]
    /\ dev' = [c \in Clients |-> NoDevice]
    /\ conn' = [c \in Clients |-> Down]
    /\ auth' = [c \in Clients |-> FALSE]
    /\ inbox' = [c \in Clients |-> {}]
    /\ retrying' = {}
    /\ UNCHANGED <<store, linked, phone, phoneEdits>>

Request(a) ==
    \/ EnsureConnected(a) \/ GetQR(a) \/ Disconnect(a)
    \/ LogoutConnected(a) \/ LogoutSleeping(a)
    \/ \E p \in Numbers : UpdatePhoneNumber(a, p)

HandleEvent(a, c) == OnConnected(a, c) \/ OnLoggedOut(a, c) \/ OnDisconnected(a, c)

Next ==
    \/ \E a \in Accounts :
          Request(a) \/ VerifyStored(a) \/ DialEnds(a) \/ Reject(a)
    \/ \E a \in Accounts, c \in Clients :
          HandleEvent(a, c) \/ (\E n \in Scanned : Pair(a, c, n))
    \/ \E t \in Tasks : Wake(t) \/ Redial(t)
    \/ \E c \in Clients :
          \/ Authenticate(c) \/ KickOut(c) \/ ConnectionLost(c)
          \/ Resume(c) \/ RetryEnds(c)
    \/ \E n \in Numbers : Revoke(n)
    \/ Restart

Spec == Init /\ [][Next]_vars

\* Goroutines that are ready run, a dial returns, and a waiter on a.mu gets
\* it in the end (sync.RWMutex never starves a waiter): hence strong fairness
\* on the steps that need the lock.
Fairness ==
    /\ \A a \in Accounts :
          /\ WF_vars(DialEnds(a))
          /\ SF_vars(Reject(a))
          /\ SF_vars(VerifyStored(a))
    /\ \A a \in Accounts, c \in Clients : SF_vars(HandleEvent(a, c))
    /\ \A t \in Tasks : SF_vars(Wake(t)) /\ WF_vars(Redial(t))

FairSpec == Spec /\ Fairness

-----------------------------------------------------------------------------
(* Properties *)

\* A wrong number never goes unnoticed: while the account's client is logged
\* in with a device whose number does not match, a check or a rejection is
\* still to come (as long as no number was edited under a live client).
MismatchGuarded ==
    phoneEdits = 0 =>
    \A a \in Accounts :
        WrongNumber(a, client[a]) /\ auth[client[a]] =>
            rejecters[a] > 0 \/ "Connected" \in inbox[client[a]]

\* A connection made under a.mu is always the one of the account's current
\* client: a connected client that no account holds was connected again after
\* it was lost, by autoReconnect or by the library's own loop, the two that
\* dial without the lock.  Connect, GetQR, Logout and the event handlers never
\* leave the connection they made behind.
OrphansAreRedials ==
    \A c \in Clients :
        conn[c] # Down /\ client[Owner[c]] # c =>
            conn[c] \in {"redialled", "resumed"}

\* The device row of a session that is logged in, and still linked on the
\* phone, leaves the store only in a step that also ends that session: nobody
\* deletes the credentials under a live client.
RowKeptStep ==
    \A a \in Accounts :
        LET c == client[a]
        IN (c # NoClient /\ auth[c] /\ dev[c] \in store \ store'
              /\ dev[c] \in linked')
           => client'[a] # c \/ ~auth'[c]

RowKept == [][RowKeptStep]_vars

\* A session with the wrong number does not last: it is ended, or its number
\* comes to match.
WrongNumberEnds ==
    \A a \in Accounts :
        (phoneEdits = 0 /\ WrongNumber(a, client[a]) /\ auth[client[a]])
            ~> ~(WrongNumber(a, client[a]) /\ auth[client[a]])

-----------------------------------------------------------------------------
(* What the comments say, and the code does not do *)

\* account.go:188, Disconnect "gracefully closes the WhatsApp connection", and
\* :1797, a nil client stops autoReconnect, "intentionally disconnected or
\* logged out": no connection this package made stays up on a client that its
\* account has let go (those the library made are another matter).
NoOrphanConnection ==
    \A c \in Clients :
        conn[c] \in {"dialled", "redialled"} => client[Owner[c]] = c

=============================================================================
