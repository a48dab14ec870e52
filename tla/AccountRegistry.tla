--------------------------- MODULE AccountRegistry ---------------------------
(***************************************************************************)
(* The accounts a server knows: the map of internal/service/manager.go     *)
(* against the account and proxy_config tables.                            *)
(*                                                                         *)
(* Every request is a chain of steps over the map (m.mu), the account      *)
(* object (a.mu) and the database, with no lock held from one to the next; *)
(* requests keep the *Account they found, whatever becomes of it.  A       *)
(* session is cut down to what these requests look at: AccountSession has  *)
(* the rest.                                                               *)
(***************************************************************************)
EXTENDS FiniteSets

CONSTANTS
    Ids,        \* UUIDs that NewUUID hands out
    Phones,     \* normalised phone numbers
    Proxies,    \* proxy configurations
    Requests,   \* requests in flight
    NoId, NoPhone,
    NoProxy     \* the nil *ProxyConfig

ASSUME NilAssumption ==
    NoId \notin Ids /\ NoPhone \notin Phones /\ NoProxy \notin Proxies

VARIABLES
    \* database
    row,        \* row[i]: phone_number of the account row, or NoPhone
    proxyRow,   \* proxyRow[i]: proxy_config row, or NoProxy
    used,       \* UUIDs handed out
    \* memory
    loaded,     \* the keys of m.accounts
    phone,      \* a.PhoneNumber
    proxy,      \* a.Proxy
    online,     \* a.client: "off" nil, "up" not logged in, "in" logged in
    via,        \* the proxy a.client was built with (NoProxy while it is nil)
    stranded,   \* history: ids whose row a failed DELETE, or a failed listing
                \* at the start, left out of the map
    req         \* requests

db == <<row, proxyRow, used>>
session == <<online, via>>
vars == <<row, proxyRow, used, loaded, phone, proxy, online, via, stranded,
          req>>

Ops == {"create", "delete", "rephone", "proxy", "connect"}
Steps == {"insert", "load", "found", "unload", "hangup", "row", "mem"}
Idle == [op |-> "none", at |-> "idle", id |-> NoId, phone |-> NoPhone,
         proxy |-> NoProxy]
Request == [op : Ops, at : Steps, id : Ids \cup {NoId},
            phone : Phones \cup {NoPhone}, proxy : Proxies \cup {NoProxy}]

TypeOK ==
    /\ row \in [Ids -> Phones \cup {NoPhone}]
    /\ proxyRow \in [Ids -> Proxies \cup {NoProxy}]
    /\ used \subseteq Ids /\ loaded \subseteq Ids
    /\ phone \in [Ids -> Phones \cup {NoPhone}]
    /\ proxy \in [Ids -> Proxies \cup {NoProxy}]
    /\ online \in [Ids -> {"off", "up", "in"}]
    /\ via \in [Ids -> Proxies \cup {NoProxy}]
    /\ stranded \subseteq Ids
    /\ req \in [Requests -> Request \cup {Idle}]

Rows == {i \in Ids : row[i] # NoPhone}
PhoneTaken(p) == \E i \in Ids : row[i] = p

Init ==
    /\ row = [i \in Ids |-> NoPhone]
    /\ proxyRow = [i \in Ids |-> NoProxy]
    /\ used = {} /\ loaded = {} /\ stranded = {}
    /\ phone = [i \in Ids |-> NoPhone]
    /\ proxy = [i \in Ids |-> NoProxy]
    /\ online = [i \in Ids |-> "off"]
    /\ via = [i \in Ids |-> NoProxy]
    /\ req = [r \in Requests |-> Idle]

-----------------------------------------------------------------------------
(* The steps of a request *)

At(r, op, step) == req[r].op = op /\ req[r].at = step
Goto(r, step) == req' = [req EXCEPT ![r].at = step]
Answer(r) == req' = [req EXCEPT ![r] = Idle]

\* acct.Disconnect()
HangUp(i) ==
    /\ online' = [online EXCEPT ![i] = "off"]
    /\ via' = [via EXCEPT ![i] = NoProxy]

-----------------------------------------------------------------------------
(* CreateAccount *)

\* No account has the number yet.
CreateLookup(r, p) ==
    /\ req[r] = Idle /\ ~PhoneTaken(p)
    /\ req' = [req EXCEPT ![r] = [op |-> "create", at |-> "insert", id |-> NoId,
                                  phone |-> p, proxy |-> NoProxy]]
    /\ UNCHANGED <<db, loaded, phone, proxy, session, stranded>>

\* Mutant: the stored account does not enter the map.
CreateForgotten(r, i) ==
    /\ At(r, "create", "insert") /\ i \notin used /\ ~PhoneTaken(req[r].phone)
    /\ used' = used \cup {i}
    /\ row' = [row EXCEPT ![i] = req[r].phone]
    /\ Answer(r)
    /\ UNCHANGED <<proxyRow, loaded, phone, proxy, session, stranded>>

\* Mutant: only the lookup before it asks whether the number is taken.
CreateUnchecked(r, i) ==
    /\ At(r, "create", "insert") /\ i \notin used
    /\ used' = used \cup {i}
    /\ row' = [row EXCEPT ![i] = req[r].phone]
    /\ req' = [req EXCEPT ![r].at = "load", ![r].id = i]
    /\ UNCHANGED <<proxyRow, loaded, phone, proxy, session, stranded>>

\* INSERT under a new UUID: phone_number is UNIQUE.
CreateInsert(r, i) ==
    /\ At(r, "create", "insert") /\ i \notin used
    /\ used' = used \cup {i}
    /\ \/ /\ ~PhoneTaken(req[r].phone)
          /\ row' = [row EXCEPT ![i] = req[r].phone]
          /\ req' = [req EXCEPT ![r].at = "load", ![r].id = i]
       \/ Answer(r) /\ UNCHANGED row
    /\ UNCHANGED <<proxyRow, loaded, phone, proxy, session, stranded>>

\* A new Account object enters the map.
CreateLoad(r) ==
    /\ At(r, "create", "load")
    /\ loaded' = loaded \cup {req[r].id}
    /\ phone' = [phone EXCEPT ![req[r].id] = req[r].phone]
    /\ Answer(r)
    /\ UNCHANGED <<db, proxy, session, stranded>>

-----------------------------------------------------------------------------
(* Requests on an account that is in the map *)

\* GetAccount; the request keeps the pointer.
Find(r, op, i, p, x) ==
    /\ req[r] = Idle /\ i \in loaded
    /\ req' = [req EXCEPT ![r] = [op |-> op, at |-> "found", id |-> i,
                                  phone |-> p, proxy |-> x]]
    /\ UNCHANGED <<db, loaded, phone, proxy, session, stranded>>

\* DeleteAccount refuses a client that is logged in, and no other.
DeleteCheck(r) ==
    /\ At(r, "delete", "found")
    /\ IF online[req[r].id] = "in" THEN Answer(r) ELSE Goto(r, "unload")
    /\ UNCHANGED <<db, loaded, phone, proxy, session, stranded>>

\* Mutant: the account stays in the map until the row is gone.
DeleteKeepsLoaded(r) ==
    /\ At(r, "delete", "unload")
    /\ Goto(r, "hangup")
    /\ UNCHANGED <<db, loaded, phone, proxy, session, stranded>>

DeleteUnload(r) ==
    /\ At(r, "delete", "unload")
    /\ loaded' = loaded \ {req[r].id}
    /\ Goto(r, "hangup")
    /\ UNCHANGED <<db, phone, proxy, session, stranded>>

\* DELETE, which takes the proxy row along, or fails and leaves both.
DeleteRow(r) ==
    /\ At(r, "delete", "row")
    /\ LET i == req[r].id
       IN \/ /\ row' = [row EXCEPT ![i] = NoPhone]
             /\ proxyRow' = [proxyRow EXCEPT ![i] = NoProxy]
             /\ stranded' = stranded \ {i}
          \/ /\ stranded' = stranded \cup ({i} \cap Rows)
             /\ UNCHANGED <<row, proxyRow>>
    /\ Answer(r)
    /\ UNCHANGED <<used, loaded, phone, proxy, session>>

\* UpdatePhoneNumber: no OTHER account may have the number.
RephoneLookup(r) ==
    /\ At(r, "rephone", "found")
    /\ IF \E i \in Ids \ {req[r].id} : row[i] = req[r].phone
       THEN Answer(r) ELSE Goto(r, "row")
    /\ UNCHANGED <<db, loaded, phone, proxy, session, stranded>>

\* Mutant: the number is upserted, not updated.
RephoneUpsert(r) ==
    /\ At(r, "rephone", "row")
    /\ \A j \in Ids \ {req[r].id} : row[j] # req[r].phone
    /\ row' = [row EXCEPT ![req[r].id] = req[r].phone]
    /\ Goto(r, "mem")
    /\ UNCHANGED <<proxyRow, used, loaded, phone, proxy, session, stranded>>

\* UPDATE: no row, nothing to update, no error; a taken number is an error.
RephoneRow(r) ==
    /\ At(r, "rephone", "row")
    /\ LET i == req[r].id
       IN \/ /\ i \notin Rows
             /\ Goto(r, "mem")
             /\ UNCHANGED row
          \/ /\ i \in Rows /\ \A j \in Ids \ {i} : row[j] # req[r].phone
             /\ row' = [row EXCEPT ![i] = req[r].phone]
             /\ Goto(r, "mem")
          \/ Answer(r) /\ UNCHANGED row
    /\ UNCHANGED <<proxyRow, used, loaded, phone, proxy, session, stranded>>

RephoneMem(r) ==
    /\ At(r, "rephone", "mem")
    /\ phone' = [phone EXCEPT ![req[r].id] = req[r].phone]
    /\ Answer(r)
    /\ UNCHANGED <<db, loaded, proxy, session, stranded>>

\* SetProxy, or DeleteProxy (NoProxy), starts with the table; an upsert for a
\* deleted account breaks the foreign key.
ProxyRow(r) ==
    /\ At(r, "proxy", "found")
    /\ \/ /\ req[r].id \in Rows \/ req[r].proxy = NoProxy
          /\ proxyRow' = [proxyRow EXCEPT ![req[r].id] = req[r].proxy]
          /\ Goto(r, "hangup")
       \/ Answer(r) /\ UNCHANGED proxyRow
    /\ UNCHANGED <<row, used, loaded, phone, proxy, session, stranded>>

ProxyMem(r) ==
    /\ At(r, "proxy", "mem")
    /\ proxy' = [proxy EXCEPT ![req[r].id] = req[r].proxy]
    /\ Answer(r)
    /\ UNCHANGED <<db, loaded, phone, session, stranded>>

\* acct.Disconnect(), inside DeleteAccount or SetProxy and DeleteProxy.
Disconnect(r) ==
    /\ req[r].at = "hangup"
    /\ HangUp(req[r].id)
    /\ Goto(r, IF req[r].op = "delete" THEN "row" ELSE "mem")
    /\ UNCHANGED <<db, loaded, phone, proxy, stranded>>

\* EnsureConnected: a client that is not up is replaced by one built with
\* a.Proxy as it is now; a connected one is kept; it may fail.
Connect(r) ==
    /\ At(r, "connect", "found")
    /\ LET i == req[r].id
       IN \/ /\ online[i] # "in"
             /\ online' = [online EXCEPT ![i] = "up"]
             /\ via' = [via EXCEPT ![i] = proxy[i]]
          \/ UNCHANGED <<online, via>>
    /\ Answer(r)
    /\ UNCHANGED <<db, loaded, phone, proxy, stranded>>

-----------------------------------------------------------------------------
(* The session of an account, and the process *)

\* The phone scans the code, or the handshake of a linked device succeeds.
LogIn(i) ==
    /\ online[i] = "up"
    /\ online' = [online EXCEPT ![i] = "in"]
    /\ UNCHANGED <<db, loaded, phone, proxy, via, stranded, req>>

\* The connection is lost: IsLoggedIn turns false, the client stays.
ConnectionLost(i) ==
    /\ online[i] = "in"
    /\ online' = [online EXCEPT ![i] = "up"]
    /\ UNCHANGED <<db, loaded, phone, proxy, via, stranded, req>>

\* The session is logged out, here or on the phone.
LoggedOut(i) ==
    /\ online[i] # "off"
    /\ HangUp(i)
    /\ UNCHANGED <<db, loaded, phone, proxy, stranded, req>>

\* DiscoverAccounts loads every row, or cannot list them: then main.go logs the
\* error and serves an empty map, and nothing lists the rows again.
Discover ==
    \/ loaded' = Rows /\ stranded' = {}
    \/ loaded' = {} /\ stranded' = Rows

\* The process stops and starts: DiscoverAccounts goes on without a proxy it
\* cannot read, and connects the loaded accounts that have credentials.
Restart ==
    /\ Discover
    /\ phone' = row
    /\ \E unread \in SUBSET Ids :
          proxy' = [i \in Ids |-> IF i \in unread THEN NoProxy ELSE proxyRow[i]]
    /\ \E up \in SUBSET loaded' :
          /\ online' = [i \in Ids |-> IF i \in up THEN "up" ELSE "off"]
          /\ via' = [i \in Ids |-> IF i \in up THEN proxy'[i] ELSE NoProxy]
    /\ req' = [r \in Requests |-> Idle]
    /\ UNCHANGED db

StartRequest(r) ==
    \/ \E p \in Phones : CreateLookup(r, p)
    \/ \E i \in Ids :
          \/ Find(r, "delete", i, NoPhone, NoProxy)
          \/ Find(r, "connect", i, NoPhone, NoProxy)
          \/ \E p \in Phones : Find(r, "rephone", i, p, NoProxy)
          \/ \E x \in Proxies \cup {NoProxy} : Find(r, "proxy", i, NoPhone, x)

ContinueRequest(r) ==
    \/ \E i \in Ids : CreateInsert(r, i)
    \/ CreateLoad(r)
    \/ DeleteCheck(r) \/ DeleteUnload(r) \/ DeleteRow(r)
    \/ RephoneLookup(r) \/ RephoneRow(r) \/ RephoneMem(r)
    \/ ProxyRow(r) \/ ProxyMem(r)
    \/ Disconnect(r) \/ Connect(r)

Next ==
    \/ \E r \in Requests : StartRequest(r) \/ ContinueRequest(r)
    \/ \E i \in Ids : LogIn(i) \/ ConnectionLost(i) \/ LoggedOut(i)
    \/ Restart

Spec == Init /\ [][Next]_vars

-----------------------------------------------------------------------------
(* Properties *)

\* Whatever requests overlap and fail, an account in the map has its row: no
\* request can be served for an account that the database has forgotten.
LoadedHasRow == loaded \subseteq Rows

\* A row that no request can reach is on its way in or out, or was left by a
\* DeleteAccount whose DELETE failed, or by a start that could not list the
\* rows; only those keep a phone number taken.  Between starts the map loses
\* no account that its table keeps.
UnloadedIsAccounted ==
    \A i \in Rows \ loaded :
        \/ i \in stranded
        \/ \E r \in Requests :
              /\ req[r].id = i
              /\ At(r, "create", "load") \/ At(r, "delete", "hangup")
                    \/ At(r, "delete", "row")

\* A deleted account does not come back: neither an update in flight nor a
\* restart brings its row, its proxy or its object back.
NeverBackStep ==
    \A i \in used : i \notin Rows /\ i \notin loaded =>
        row'[i] = NoPhone /\ proxyRow'[i] = NoProxy /\ i \notin loaded'

NeverBack == [][NeverBackStep]_vars

Book == INSTANCE AccountBook
    WITH Numbers <- Phones, NoNumber <- NoPhone,
         given <- used, number <- row, served <- loaded

\* However requests overlap, fail or die, the map and the table keep the book:
\* no two accounts under one number, none in the map before its row is stored
\* or after it is gone, no row deleted under the map, no id used twice, and
\* after a restart every row in the map, or none when the table cannot be read.
BookIsKept == Book!Spec

-----------------------------------------------------------------------------
(* What a comment says, and the code does not do *)

\* manager.go:234, SetProxy "disconnects so the next connect uses it": once
\* no proxy change is in flight, no client runs over another proxy.
ProxyIsUsed ==
    (\A r \in Requests : req[r].op # "proxy")
        => \A i \in loaded : online[i] # "off" => via[i] = proxy[i]

=============================================================================
