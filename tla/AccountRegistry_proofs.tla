----------------------- MODULE AccountRegistry_proofs -----------------------
(***************************************************************************)
(* The map of accounts never outruns the account table, for any number of  *)
(* accounts and of requests that overlap, fail or die in the middle.       *)
(***************************************************************************)
EXTENDS AccountRegistry, TLAPS

\* A request on an account names one that was handed out; the others name
\* none.  Those that write a number carry one.
RequestShape ==
    \A r \in Requests :
        /\ req[r].at \in Steps \ {"insert"} => req[r].id \in used
        /\ req[r].at \in {"idle", "insert"} => req[r].id = NoId
        /\ req[r].op \in {"create", "rephone"} => req[r].phone \in Phones

Creating(r, i) == req[r].op = "create" /\ req[r].at = "load" /\ req[r].id = i
Deleting(r, i) ==
    req[r].op = "delete" /\ req[r].at \in {"hangup", "row"} /\ req[r].id = i

\* The row of an account is there from the INSERT on; until the account is
\* loaded, no other request knows of it.
CreatingKnown ==
    \A r \in Requests, i \in Ids : Creating(r, i) =>
        /\ i \in Rows /\ i \notin loaded
        /\ \A q \in Requests : req[q].id = i => q = r

\* DELETE is preceded by leaving the map.
DeletingUnloaded ==
    \A r \in Requests, i \in Ids : Deleting(r, i) => i \notin loaded

\* Only ids that were handed out have rows, and only rows have proxies.
RowsAreUsed ==
    /\ Rows \subseteq used
    /\ \A i \in Ids \ Rows : proxyRow[i] = NoProxy

RegistryInv ==
    /\ TypeOK /\ RequestShape /\ CreatingKnown /\ DeletingUnloaded
    /\ RowsAreUsed /\ LoadedHasRow

-----------------------------------------------------------------------------
\* The registry starts empty.
LEMMA InitRegistry == Init => RegistryInv
BY NilAssumption
DEF Init, RegistryInv, TypeOK, RequestShape, CreatingKnown, Creating,
    DeletingUnloaded, Deleting, RowsAreUsed, LoadedHasRow, Rows, Idle, Request,
    Steps, Ops

\* A step inside one request that moves neither rows nor the map keeps what
\* ties requests to them, as long as it does not start to create or delete.
LEMMA QuietStep ==
    ASSUME RegistryInv, NEW r \in Requests,
           Rows' = Rows, UNCHANGED <<used, loaded>>,
           NEW q, req' = [req EXCEPT ![r] = q],
           \/ q = Idle
           \/ /\ req[r] # Idle /\ q.op = req[r].op /\ q.id = req[r].id
              /\ q.phone = req[r].phone
              /\ q.at \in Steps \ {"insert", "load"} /\ req[r].at # "insert"
              /\ (q.op = "delete" /\ q.at \in {"hangup", "row"}
                      => q.id \notin loaded)
    PROVE  RequestShape' /\ CreatingKnown' /\ DeletingUnloaded' /\ LoadedHasRow'
<1>1. req \in [Requests -> Request \cup {Idle}] /\ Rows' = Rows
  BY DEF RegistryInv, TypeOK, Rows
<1>2. \A s \in Requests : req'[s] = IF s = r THEN q ELSE req[s]
  BY <1>1
<1>3. Idle.at = "idle" /\ Idle.id = NoId /\ Idle.op = "none"
  BY DEF Idle
<1>4. req[r] # Idle => req[r].at \in Steps
  BY <1>1 DEF Request
<1>5. RequestShape'
  BY <1>1, <1>2, <1>3, <1>4 DEF RegistryInv, RequestShape, Steps
<1>6. CreatingKnown'
  BY <1>1, <1>2, <1>3, NilAssumption DEF RegistryInv, CreatingKnown, Creating, Steps
<1>7. DeletingUnloaded'
  BY <1>1, <1>2, <1>3 DEF RegistryInv, DeletingUnloaded, Deleting
<1>8. LoadedHasRow'
  BY <1>1 DEF RegistryInv, LoadedHasRow
<1> QED BY <1>5, <1>6, <1>7, <1>8

\* Every request is one of the records of Request, or idle.
LEMMA RequestTypes ==
    ASSUME TypeOK, NEW r \in Requests
    PROVE  /\ req[r] = Idle \/ req[r] \in Request
           /\ req[r].op \in Ops \cup {"none"} /\ req[r].at \in Steps \cup {"idle"}
           /\ req[r].id \in Ids \cup {NoId}
           /\ req[r].phone \in Phones \cup {NoPhone}
           /\ req[r].proxy \in Proxies \cup {NoProxy}
           /\ Idle.at = "idle" /\ Idle.op = "none" /\ Idle.id = NoId
BY DEF TypeOK, Request, Idle

\* Each step keeps the types.
LEMMA StepTypes == RegistryInv /\ [Next]_vars => TypeOK'
<1> SUFFICES ASSUME RegistryInv, [Next]_vars PROVE TypeOK'
  OBVIOUS
<1> USE DEF TypeOK, db, session
<1>1. TypeOK /\ RequestShape
  BY DEF RegistryInv
<1>2. ASSUME NEW r \in Requests, StartRequest(r) PROVE TypeOK'
  <2>1. ASSUME NEW q \in Request, req' = [req EXCEPT ![r] = q],
               UNCHANGED <<db, loaded, phone, proxy, session, stranded>>
        PROVE  TypeOK'
    BY <1>1, <2>1
  <2>2. ASSUME NEW op \in Ops, NEW i \in Ids, NEW p \in Phones \cup {NoPhone},
               NEW x \in Proxies \cup {NoProxy}, Find(r, op, i, p, x)
        PROVE  TypeOK'
    <3>1. [op |-> op, at |-> "found", id |-> i, phone |-> p, proxy |-> x] \in Request
      BY DEF Request, Steps
    <3> QED BY <2>1, <2>2, <3>1 DEF Find
  <2>3. ASSUME NEW p \in Phones, CreateLookup(r, p) PROVE TypeOK'
    <3>1. [op |-> "create", at |-> "insert", id |-> NoId, phone |-> p,
           proxy |-> NoProxy] \in Request
      BY DEF Request, Steps, Ops
    <3> QED BY <2>1, <2>3, <3>1 DEF CreateLookup
  <2>4. {"create", "delete", "rephone", "proxy", "connect"} \subseteq Ops
    BY DEF Ops
  <2> QED BY <1>2, <2>2, <2>3, <2>4 DEF StartRequest
<1>3. ASSUME NEW r \in Requests, ContinueRequest(r) PROVE TypeOK'
  <2>1. req[r].id \in Ids \cup {NoId} /\ req[r].phone \in Phones \cup {NoPhone}
        /\ req[r].proxy \in Proxies \cup {NoProxy}
    BY <1>1, RequestTypes
  <2>2. ASSUME Answer(r) PROVE req' \in [Requests -> Request \cup {Idle}]
    BY <1>1, <2>2 DEF Answer
  <2>3. ASSUME NEW step \in Steps, Goto(r, step), req[r] # Idle
        PROVE  req' \in [Requests -> Request \cup {Idle}]
    <3>1. req[r] \in Request
      BY <1>1, <2>3
    <3>2. [req[r] EXCEPT !.at = step] \in Request
      BY <3>1 DEF Request
    <3> QED BY <1>1, <2>3, <3>2 DEF Goto
  <2>4. {"unload", "hangup", "row", "mem"} \subseteq Steps
    BY DEF Steps
  <2>5. ASSUME NEW op, NEW step \in Steps, At(r, op, step) PROVE req[r] # Idle
    BY <2>5 DEF At, Idle, Steps
  <2>6. ASSUME NEW i \in Ids, CreateInsert(r, i) PROVE TypeOK'
    <3>1. CASE Answer(r) /\ UNCHANGED row
      BY <1>1, <2>2, <2>6, <3>1 DEF CreateInsert
    <3>2. CASE /\ row' = [row EXCEPT ![i] = req[r].phone]
               /\ req' = [req EXCEPT ![r].at = "load", ![r].id = i]
      <4>1. req[r] \in Request
        BY <1>1, <2>6, RequestTypes DEF CreateInsert, At, Idle
      <4>2. [req[r] EXCEPT !.at = "load", !.id = i] \in Request
        BY <4>1 DEF Request, Steps
      <4>3. req' \in [Requests -> Request \cup {Idle}]
        BY <1>1, <3>2, <4>2
      <4> QED BY <1>1, <2>1, <2>6, <3>2, <4>3 DEF CreateInsert
    <3> QED BY <2>6, <3>1, <3>2 DEF CreateInsert
  <2>7. CASE CreateLoad(r)
    <3>1. req[r].id \in Ids
      <4>1. req[r].id \in used
        BY <1>1, <2>7 DEF CreateLoad, At, RequestShape, Steps
      <4> QED BY <1>1, <4>1
    <3> QED BY <1>1, <2>1, <2>2, <2>7, <3>1 DEF CreateLoad
  <2>8. CASE DeleteCheck(r)
    BY <1>1, <2>2, <2>3, <2>4, <2>5, <2>8 DEF DeleteCheck, Steps
  <2>9. CASE DeleteUnload(r)
    BY <1>1, <2>3, <2>4, <2>5, <2>9 DEF DeleteUnload, Steps
  <2>10. CASE DeleteRow(r)
    BY <1>1, <2>2, <2>10 DEF DeleteRow, Rows
  <2>11. CASE RephoneLookup(r)
    BY <1>1, <2>2, <2>3, <2>4, <2>5, <2>11 DEF RephoneLookup, Steps
  <2>12. CASE RephoneRow(r)
    <3>1. req' \in [Requests -> Request \cup {Idle}]
      BY <2>2, <2>3, <2>4, <2>5, <2>12 DEF RephoneRow, Steps
    <3>2. row' \in [Ids -> Phones \cup {NoPhone}]
      BY <1>1, <2>1, <2>12 DEF RephoneRow
    <3> QED BY <1>1, <2>12, <3>1, <3>2 DEF RephoneRow
  <2>13. CASE RephoneMem(r)
    BY <1>1, <2>1, <2>2, <2>13 DEF RephoneMem
  <2>14. CASE ProxyRow(r)
    <3>1. req' \in [Requests -> Request \cup {Idle}]
      BY <2>2, <2>3, <2>4, <2>5, <2>14 DEF ProxyRow, Steps
    <3> QED BY <1>1, <2>1, <2>14, <3>1 DEF ProxyRow
  <2>15. CASE ProxyMem(r)
    BY <1>1, <2>1, <2>2, <2>15 DEF ProxyMem
  <2>16. CASE Disconnect(r)
    <3>1. req[r] # Idle
      BY <2>16 DEF Disconnect, Idle
    <3>2. req' \in [Requests -> Request \cup {Idle}]
      BY <2>3, <2>4, <2>16, <3>1 DEF Disconnect
    <3> QED BY <1>1, <2>16, <3>2 DEF Disconnect, HangUp
  <2>17. CASE Connect(r)
    BY <1>1, <2>2, <2>17 DEF Connect
  <2> QED BY <1>3, <2>6, <2>7, <2>8, <2>9, <2>10, <2>11, <2>12, <2>13, <2>14, <2>15,
             <2>16, <2>17 DEF ContinueRequest
<1>4. ASSUME NEW i \in Ids, LogIn(i) \/ ConnectionLost(i) \/ LoggedOut(i) PROVE TypeOK'
  BY <1>1, <1>4 DEF LogIn, ConnectionLost, LoggedOut, HangUp
<1>5. CASE Restart
  <2>1. loaded' \subseteq Ids /\ phone' \in [Ids -> Phones \cup {NoPhone}]
    BY <1>1, <1>5 DEF Restart, Discover, Rows
  <2>2. proxy' \in [Ids -> Proxies \cup {NoProxy}]
    BY <1>1, <1>5 DEF Restart
  <2>3. online' \in [Ids -> {"off", "up", "in"}] /\ via' \in [Ids -> Proxies \cup {NoProxy}]
    BY <1>5, <2>2 DEF Restart
  <2>4. stranded' \subseteq Ids /\ req' \in [Requests -> Request \cup {Idle}]
    BY <1>5 DEF Restart, Discover, Rows
  <2> QED BY <1>1, <1>5, <2>1, <2>2, <2>3, <2>4 DEF Restart
<1>6. CASE UNCHANGED vars
  BY <1>1, <1>6 DEF vars
<1> QED BY <1>2, <1>3, <1>4, <1>5, <1>6 DEF Next

\* The steps of a request that leave rows and map alone keep the invariant.
LEMMA QuietInv ==
    ASSUME RegistryInv, [Next]_vars, NEW r \in Requests,
           Rows' = Rows, UNCHANGED <<used, loaded>>,
           \A i \in Ids : proxyRow'[i] = proxyRow[i] \/ i \in Rows \/ proxyRow'[i] = NoProxy,
           \/ Answer(r)
           \/ \E step \in Steps \ {"insert", "load"} :
                 /\ Goto(r, step) /\ req[r].at \in Steps \ {"insert"}
                 /\ (req[r].op = "delete" /\ step \in {"hangup", "row"}
                         => req[r].id \notin loaded)
    PROVE  RegistryInv'
<1>1. TypeOK' /\ TypeOK
  BY StepTypes DEF RegistryInv
<1>2. RowsAreUsed'
  BY DEF RegistryInv, RowsAreUsed
<1>3. CASE Answer(r)
  <2>1. RequestShape' /\ CreatingKnown' /\ DeletingUnloaded' /\ LoadedHasRow'
    BY <1>3, QuietStep DEF Answer
  <2> QED BY <1>1, <1>2, <2>1 DEF RegistryInv
<1>4. ASSUME NEW step \in Steps \ {"insert", "load"},
             Goto(r, step), req[r].at \in Steps \ {"insert"},
             req[r].op = "delete" /\ step \in {"hangup", "row"}
                 => req[r].id \notin loaded
      PROVE  RegistryInv'
  <2> DEFINE q == [req[r] EXCEPT !.at = step]
  <2>1. req[r] \in Request /\ req[r] # Idle
    BY <1>1, <1>4, RequestTypes DEF Steps, Idle
  <2>2. req' = [req EXCEPT ![r] = q]
    BY <1>1, <1>4 DEF Goto, TypeOK
  <2>3. q.op = req[r].op /\ q.id = req[r].id /\ q.phone = req[r].phone /\ q.at = step
    BY <2>1 DEF Request
  <2> HIDE DEF q
  <2>4. RequestShape' /\ CreatingKnown' /\ DeletingUnloaded' /\ LoadedHasRow'
    BY <1>4, <2>1, <2>2, <2>3, QuietStep
  <2> QED BY <1>1, <1>2, <2>4 DEF RegistryInv
<1> QED BY <1>3, <1>4

\* INSERT: the new id is known to its creator alone.
LEMMA InsertInv ==
    ASSUME RegistryInv, [Next]_vars, NEW r \in Requests, NEW i \in Ids, CreateInsert(r, i)
    PROVE  RegistryInv'
<1>1. TypeOK' /\ TypeOK /\ RequestShape
  BY StepTypes DEF RegistryInv
<1>2. req[r].phone \in Phones /\ req[r].op = "create" /\ req[r].id = NoId
  BY <1>1 DEF CreateInsert, At, RequestShape
<1>3. /\ used' = used \cup {i} /\ i \notin used /\ loaded' = loaded /\ proxyRow' = proxyRow
      /\ \A s \in Requests : req[s].id # i
  BY <1>1, RequestTypes, NilAssumption DEF CreateInsert, RequestShape
<1>4. i \notin Rows /\ i \notin loaded /\ proxyRow[i] = NoProxy
  BY <1>3 DEF RegistryInv, RowsAreUsed, LoadedHasRow
<1>5. CASE Answer(r) /\ UNCHANGED row
  <2>1. \A s \in Requests : req'[s] = IF s = r THEN Idle ELSE req[s]
    BY <1>1, <1>5 DEF Answer, TypeOK
  <2>2. Rows' = Rows
    BY <1>5 DEF Rows
  <2>3. RequestShape'
    BY <1>1, <1>3, <2>1 DEF RequestShape, Idle, Steps
  <2>4. CreatingKnown' /\ DeletingUnloaded'
    BY <1>1, <1>3, <2>1, <2>2, NilAssumption
    DEF RegistryInv, CreatingKnown, Creating, DeletingUnloaded, Deleting, Idle
  <2>5. RowsAreUsed' /\ LoadedHasRow'
    BY <1>3, <2>2 DEF RegistryInv, RowsAreUsed, LoadedHasRow
  <2> QED BY <1>1, <2>3, <2>4, <2>5 DEF RegistryInv
<1>6. CASE /\ row' = [row EXCEPT ![i] = req[r].phone]
           /\ req' = [req EXCEPT ![r].at = "load", ![r].id = i]
  <2>1. req[r] \in Request
    BY <1>1, RequestTypes DEF CreateInsert, At, Idle
  <2> DEFINE q == [req[r] EXCEPT !.at = "load", !.id = i]
  <2>2. q.op = "create" /\ q.at = "load" /\ q.id = i /\ q.phone = req[r].phone
    BY <1>2, <2>1 DEF Request
  <2>3. \A s \in Requests : req'[s] = IF s = r THEN q ELSE req[s]
    BY <1>1, <1>6 DEF TypeOK
  <2> HIDE DEF q
  <2>4. Rows' = Rows \cup {i}
    BY <1>1, <1>2, <1>6, NilAssumption DEF Rows, TypeOK
  <2>5. RequestShape'
    BY <1>1, <1>2, <1>3, <2>2, <2>3 DEF RequestShape, Steps
  <2>6. CreatingKnown'
    BY <1>3, <1>4, <2>2, <2>3, <2>4 DEF RegistryInv, CreatingKnown, Creating
  <2>7. DeletingUnloaded'
    BY <1>3, <2>2, <2>3 DEF RegistryInv, DeletingUnloaded, Deleting
  <2>8. RowsAreUsed' /\ LoadedHasRow'
    BY <1>3, <2>4 DEF RegistryInv, RowsAreUsed, LoadedHasRow
  <2> QED BY <1>1, <2>5, <2>6, <2>7, <2>8 DEF RegistryInv
<1> QED BY <1>5, <1>6 DEF CreateInsert

\* The account enters the map with its row, and no deleter knows it yet.
LEMMA LoadInv ==
    ASSUME RegistryInv, [Next]_vars, NEW r \in Requests, CreateLoad(r)
    PROVE  RegistryInv'
<1> DEFINE i == req[r].id
<1>1. TypeOK' /\ TypeOK /\ RequestShape
  BY StepTypes DEF RegistryInv
<1>2. i \in Ids
  <2>1. i \in used
    BY <1>1 DEF CreateLoad, At, RequestShape, Steps
  <2> QED BY <1>1, <2>1 DEF TypeOK
<1>3. Creating(r, i)
  BY DEF CreateLoad, At, Creating
<1>4. i \in Rows /\ \A q \in Requests : req[q].id = i => q = r
  BY <1>2, <1>3 DEF RegistryInv, CreatingKnown
<1>5. \A s \in Requests : req'[s] = IF s = r THEN Idle ELSE req[s]
  BY <1>1 DEF CreateLoad, Answer, TypeOK
<1>6. /\ loaded' = loaded \cup {i} /\ Rows' = Rows /\ used' = used
      /\ proxyRow' = proxyRow
  BY DEF CreateLoad, db, Rows
<1>7. RequestShape'
  BY <1>1, <1>5, <1>6 DEF RequestShape, Idle, Steps
<1>8. CreatingKnown' /\ DeletingUnloaded'
  BY <1>2, <1>4, <1>5, <1>6, NilAssumption
  DEF RegistryInv, CreatingKnown, Creating, DeletingUnloaded, Deleting, Idle
<1>9. RowsAreUsed' /\ LoadedHasRow'
  BY <1>4, <1>6 DEF RegistryInv, RowsAreUsed, LoadedHasRow
<1> QED BY <1>1, <1>7, <1>8, <1>9 DEF RegistryInv

\* Leaving the map, and then the table: nobody who creates knows the id.
LEMMA DeleteInv ==
    ASSUME RegistryInv, [Next]_vars, NEW r \in Requests, DeleteUnload(r) \/ DeleteRow(r)
    PROVE  RegistryInv'
<1> DEFINE i == req[r].id
<1>1. TypeOK' /\ TypeOK /\ RequestShape
  BY StepTypes DEF RegistryInv
<1>2. i \in Ids /\ i \in used /\ req[r].op = "delete"
  <2>1. i \in used /\ req[r].op = "delete"
    BY <1>1 DEF DeleteUnload, DeleteRow, At, RequestShape, Steps
  <2> QED BY <1>1, <2>1 DEF TypeOK
<1>3. \A s \in Requests, j \in Ids : Creating(s, j) => j # i
  BY <1>2 DEF RegistryInv, CreatingKnown, Creating
<1>4. CASE DeleteUnload(r)
  <2>1. \A s \in Requests : s # r => req'[s] = req[s]
    BY <1>1, <1>4 DEF DeleteUnload, Goto, TypeOK
  <2>2. req'[r].op = "delete" /\ req'[r].at = "hangup" /\ req'[r].id = i
        /\ req'[r].phone = req[r].phone
    <3>1. req[r] \in Request
      BY <1>1, <1>4, RequestTypes DEF DeleteUnload, At, Idle
    <3> QED BY <1>1, <1>2, <1>4, <3>1 DEF DeleteUnload, Goto, TypeOK, Request
  <2>3. loaded' = loaded \ {i} /\ Rows' = Rows /\ used' = used /\ proxyRow' = proxyRow
    BY <1>4 DEF DeleteUnload, db, Rows
  <2>4. RequestShape'
    BY <1>1, <1>2, <2>1, <2>2, <2>3 DEF RequestShape, Steps
  <2>5. CreatingKnown'
    BY <1>2, <1>3, <2>1, <2>2, <2>3 DEF RegistryInv, CreatingKnown, Creating
  <2>6. DeletingUnloaded'
    BY <2>1, <2>2, <2>3 DEF RegistryInv, DeletingUnloaded, Deleting
  <2>7. RowsAreUsed' /\ LoadedHasRow'
    BY <2>3 DEF RegistryInv, RowsAreUsed, LoadedHasRow
  <2> QED BY <1>1, <2>4, <2>5, <2>6, <2>7 DEF RegistryInv
<1>5. CASE DeleteRow(r)
  <2>1. \A s \in Requests : req'[s] = IF s = r THEN Idle ELSE req[s]
    BY <1>1, <1>5 DEF DeleteRow, Answer, TypeOK
  <2>2. i \notin loaded /\ loaded' = loaded /\ used' = used
    BY <1>2, <1>5 DEF DeleteRow, At, RegistryInv, DeletingUnloaded, Deleting
  <2>3. \/ Rows' = Rows /\ proxyRow' = proxyRow
        \/ Rows' = Rows \ {i} /\ proxyRow' = [proxyRow EXCEPT ![i] = NoProxy]
    BY <1>1, <1>2, <1>5, NilAssumption DEF DeleteRow, Rows, TypeOK
  <2>4. RequestShape'
    BY <1>1, <2>1, <2>2 DEF RequestShape, Idle, Steps
  <2>5. CreatingKnown'
    BY <1>3, <2>1, <2>2, <2>3, NilAssumption
    DEF RegistryInv, CreatingKnown, Creating, Idle
  <2>6. DeletingUnloaded'
    BY <2>1, <2>2 DEF RegistryInv, DeletingUnloaded, Deleting, Idle
  <2>7. RowsAreUsed' /\ LoadedHasRow'
    BY <1>1, <2>2, <2>3 DEF RegistryInv, RowsAreUsed, LoadedHasRow, TypeOK
  <2> QED BY <1>1, <2>4, <2>5, <2>6, <2>7 DEF RegistryInv
<1> QED BY <1>4, <1>5

\* A request that starts on a loaded account meets nobody who creates it.
LEMMA StartInv ==
    ASSUME RegistryInv, [Next]_vars, NEW r \in Requests, StartRequest(r)
    PROVE  RegistryInv'
<1>1. TypeOK' /\ TypeOK /\ RequestShape
  BY StepTypes DEF RegistryInv
<1>2. ASSUME NEW p \in Phones, CreateLookup(r, p) PROVE RegistryInv'
  <2> DEFINE q == [op |-> "create", at |-> "insert", id |-> NoId, phone |-> p,
                   proxy |-> NoProxy]
  <2>1. \A s \in Requests : req'[s] = IF s = r THEN q ELSE req[s]
    BY <1>1, <1>2 DEF CreateLookup, TypeOK
  <2>2. UNCHANGED <<row, proxyRow, used, loaded>> /\ Rows' = Rows
    BY <1>2 DEF CreateLookup, db, Rows
  <2>3. RequestShape'
    BY <1>1, <2>1, <2>2 DEF RequestShape, Steps
  <2>4. CreatingKnown' /\ DeletingUnloaded'
    BY <2>1, <2>2, NilAssumption
    DEF RegistryInv, CreatingKnown, Creating, DeletingUnloaded, Deleting
  <2>5. RowsAreUsed' /\ LoadedHasRow'
    BY <2>2 DEF RegistryInv, RowsAreUsed, LoadedHasRow
  <2> QED BY <1>1, <2>3, <2>4, <2>5 DEF RegistryInv
<1>3. ASSUME NEW op \in Ops \ {"create"}, NEW i \in Ids, NEW p, NEW x,
             Find(r, op, i, p, x), op = "rephone" => p \in Phones
      PROVE  RegistryInv'
  <2> DEFINE q == [op |-> op, at |-> "found", id |-> i, phone |-> p, proxy |-> x]
  <2>1. \A s \in Requests : req'[s] = IF s = r THEN q ELSE req[s]
    BY <1>1, <1>3 DEF Find, TypeOK
  <2>2. UNCHANGED <<row, proxyRow, used, loaded>> /\ Rows' = Rows /\ i \in loaded
    BY <1>3 DEF Find, db, Rows
  <2>3. i \in used
    BY <2>2 DEF RegistryInv, RowsAreUsed, LoadedHasRow
  <2>4. RequestShape'
    BY <1>1, <1>3, <2>1, <2>2, <2>3 DEF RequestShape, Steps
  <2>5. CreatingKnown' /\ DeletingUnloaded'
    BY <1>3, <2>1, <2>2
    DEF RegistryInv, CreatingKnown, Creating, DeletingUnloaded, Deleting
  <2>6. RowsAreUsed' /\ LoadedHasRow'
    BY <2>2 DEF RegistryInv, RowsAreUsed, LoadedHasRow
  <2> QED BY <1>1, <2>4, <2>5, <2>6 DEF RegistryInv
<1>4. {"delete", "connect", "rephone", "proxy"} \subseteq Ops \ {"create"}
  BY DEF Ops
<1> QED BY <1>2, <1>3, <1>4 DEF StartRequest

\* After a restart every row is loaded, or none is, and no request is left.
LEMMA RestartInv ==
    ASSUME RegistryInv, [Next]_vars, Restart
    PROVE  RegistryInv'
<1>1. TypeOK'
  BY StepTypes
<1>2. /\ loaded' \in {{}, Rows'} /\ Rows' = Rows
      /\ used' = used /\ proxyRow' = proxyRow
      /\ \A r \in Requests : req'[r] = Idle
  BY DEF Restart, Discover, db, Rows
<1>3. RequestShape' /\ CreatingKnown' /\ DeletingUnloaded'
  BY <1>2, NilAssumption
  DEF RequestShape, CreatingKnown, Creating, DeletingUnloaded, Deleting, Idle, Steps
<1>4. RowsAreUsed' /\ LoadedHasRow'
  BY <1>2 DEF RegistryInv, RowsAreUsed, LoadedHasRow
<1> QED BY <1>1, <1>3, <1>4 DEF RegistryInv

\* Every step of the registry keeps the invariant.
LEMMA StepRegistry == RegistryInv /\ [Next]_vars => RegistryInv'
<1> SUFFICES ASSUME RegistryInv, [Next]_vars PROVE RegistryInv'
  OBVIOUS
<1>1. TypeOK' /\ TypeOK /\ RequestShape
  BY StepTypes DEF RegistryInv
<1>2. ASSUME NEW r \in Requests, ContinueRequest(r) PROVE RegistryInv'
  <2> USE DEF db, At
  <2>1. ASSUME NEW i \in Ids, CreateInsert(r, i) PROVE RegistryInv'
    BY <2>1, InsertInv
  <2>2. CASE CreateLoad(r)
    BY <2>2, LoadInv
  <2>3. CASE DeleteUnload(r) \/ DeleteRow(r)
    BY <2>3, DeleteInv
  <2>4. CASE DeleteCheck(r)
    BY <2>4, QuietInv DEF DeleteCheck, Steps, Rows
  <2>5. CASE RephoneLookup(r)
    BY <2>5, QuietInv DEF RephoneLookup, Steps, Rows
  <2>6. CASE RephoneMem(r)
    BY <2>6, QuietInv DEF RephoneMem, Rows
  <2>7. CASE ProxyMem(r)
    BY <2>7, QuietInv DEF ProxyMem, Rows
  <2>8. CASE Connect(r)
    BY <2>8, QuietInv DEF Connect, Rows
  <2>9. CASE ProxyRow(r)
    <3>1. \A i \in Ids : \/ proxyRow'[i] = proxyRow[i] \/ i \in Rows
                         \/ proxyRow'[i] = NoProxy
      BY <1>1, <2>9 DEF ProxyRow, TypeOK
    <3> QED BY <2>9, <3>1, QuietInv DEF ProxyRow, Steps, Rows
  <2>10. CASE Disconnect(r)
    <3>1. req[r].op = "delete" => req[r].id \notin loaded
      <4>1. req[r].id \in Ids
        BY <1>1, <2>10 DEF Disconnect, RequestShape, Steps, TypeOK
      <4> QED BY <2>10, <4>1 DEF Disconnect, RegistryInv, DeletingUnloaded, Deleting
    <3> QED BY <2>10, <3>1, QuietInv DEF Disconnect, Steps, Rows
  <2>11. CASE RephoneRow(r)
    <3>1. Rows' = Rows /\ UNCHANGED <<used, loaded, proxyRow>>
      BY <1>1, <2>11, NilAssumption DEF RephoneRow, RequestShape, Rows, TypeOK
    <3> QED BY <2>11, <3>1, QuietInv DEF RephoneRow, Steps
  <2> QED BY <1>2, <2>1, <2>2, <2>3, <2>4, <2>5, <2>6, <2>7, <2>8, <2>9, <2>10, <2>11
          DEF ContinueRequest
<1>3. ASSUME NEW r \in Requests, StartRequest(r) PROVE RegistryInv'
  BY <1>3, StartInv
<1>4. CASE UNCHANGED <<row, proxyRow, used, loaded, req>>
  <2>1. RequestShape' /\ CreatingKnown' /\ DeletingUnloaded' /\ RowsAreUsed' /\ LoadedHasRow'
    BY <1>4 DEF RegistryInv, RequestShape, CreatingKnown, Creating,
                DeletingUnloaded, Deleting, RowsAreUsed, LoadedHasRow, Rows
  <2> QED BY <1>1, <2>1 DEF RegistryInv
<1>5. ASSUME NEW i \in Ids, LogIn(i) \/ ConnectionLost(i) \/ LoggedOut(i)
      PROVE  UNCHANGED <<row, proxyRow, used, loaded, req>>
  BY <1>5 DEF LogIn, ConnectionLost, LoggedOut, db
<1>6. CASE UNCHANGED vars
  BY <1>4, <1>6 DEF vars
<1> QED BY <1>2, <1>3, <1>4, <1>5, <1>6, RestartInv DEF Next

\* The inductive invariant of manager.go's map and tables.
THEOREM RegistryInvariant == Spec => []RegistryInv
BY InitRegistry, StepRegistry, PTL DEF Spec

\* Whatever requests overlap, fail or die, an account in the map has its row
\* in the table (CreateAccount, DeleteAccount, DiscoverAccounts).
THEOREM MapFollowsTable == Spec => []LoadedHasRow
<1>1. RegistryInv => LoadedHasRow
  BY DEF RegistryInv
<1> QED BY <1>1, RegistryInvariant, PTL

\* A deleted account stays deleted: no late update, proxy change, load or
\* restart brings any part of it back.
THEOREM DeletedForGood == Spec => NeverBack
<1>1. RegistryInv /\ RegistryInv' /\ [Next]_vars => [NeverBackStep]_vars
  <2> SUFFICES ASSUME RegistryInv, RegistryInv', Next,
                      NEW i \in used, i \notin Rows, i \notin loaded
               PROVE  row'[i] = NoPhone /\ proxyRow'[i] = NoProxy /\ i \notin loaded'
    BY DEF NeverBackStep
  <2>1. TypeOK /\ RequestShape /\ i \in Ids /\ row[i] = NoPhone /\ proxyRow[i] = NoProxy
    BY DEF RegistryInv, RowsAreUsed, Rows, TypeOK
  <2>2. row'[i] = NoPhone
    <3>1. ASSUME NEW r \in Requests, ContinueRequest(r) PROVE row'[i] = NoPhone
      <4>1. ASSUME NEW j \in Ids, CreateInsert(r, j) PROVE row'[i] = NoPhone
        BY <2>1, <4>1 DEF CreateInsert, TypeOK
      <4>2. CASE DeleteRow(r)
        BY <2>1, <4>2 DEF DeleteRow, TypeOK
      <4>3. CASE RephoneRow(r)
        BY <2>1, <4>3 DEF RephoneRow, TypeOK
      <4> QED BY <2>1, <3>1, <4>1, <4>2, <4>3
              DEF ContinueRequest, CreateLoad, DeleteCheck, DeleteUnload, RephoneLookup,
                  RephoneMem, ProxyRow, ProxyMem, Disconnect, Connect, db
    <3> QED BY <2>1, <3>1 DEF Next, StartRequest, CreateLookup, Find, LogIn,
                              ConnectionLost, LoggedOut, Restart, db
  <2>3. i \notin Rows'
    BY <2>2 DEF Rows
  <2>4. used \subseteq used'
    BY DEF Next, StartRequest, ContinueRequest, CreateLookup, Find, CreateInsert,
           CreateLoad, DeleteCheck, DeleteUnload, DeleteRow, RephoneLookup, RephoneRow,
           RephoneMem, ProxyRow, ProxyMem, Disconnect, Connect, LogIn,
           ConnectionLost, LoggedOut, Restart, db
  <2> QED BY <2>1, <2>2, <2>3, <2>4 DEF RegistryInv, RowsAreUsed, LoadedHasRow
<1> QED BY <1>1, RegistryInvariant, PTL DEF Spec, NeverBack

\* Every variable keeps its type.
THEOREM RegistryTypes == Spec => []TypeOK
<1>1. RegistryInv => TypeOK
  BY DEF RegistryInv
<1> QED BY <1>1, RegistryInvariant, PTL

-----------------------------------------------------------------------------
(* Rows that no request can reach *)

\* Request q is storing account i or taking it out.
Carrying(q, i) ==
    /\ q.id = i
    /\ \/ q.op = "create" /\ q.at = "load"
       \/ q.op = "delete" /\ q.at \in {"hangup", "row"}

AccountedInv == RegistryInv /\ UnloadedIsAccounted

\* A step of one request leaves the others where they are.
LEMMA OthersStay ==
    ASSUME TypeOK, NEW r \in Requests, StartRequest(r) \/ ContinueRequest(r),
           NEW s \in Requests, s # r
    PROVE  req'[s] = req[s]
BY DEF TypeOK, StartRequest, ContinueRequest, CreateLookup, Find, CreateInsert,
       CreateLoad, DeleteCheck, DeleteUnload, DeleteRow, RephoneLookup, RephoneRow,
       RephoneMem, ProxyRow, ProxyMem, Disconnect, Connect, Answer, Goto

\* A row that was accounted for stays so, or is loaded or deleted.
LEMMA RowStaysAccounted ==
    ASSUME AccountedInv, NEW r \in Requests, StartRequest(r) \/ ContinueRequest(r),
           NEW i \in Rows \ loaded, i \in Rows', i \notin loaded'
    PROVE  i \in stranded' \/ \E q \in Requests : Carrying(req'[q], i)
<1>1. TypeOK
  BY DEF AccountedInv, RegistryInv
<1>2. CASE i \in stranded
  <2>1. stranded' = stranded \/ DeleteRow(r)
    BY DEF StartRequest, ContinueRequest, CreateLookup, Find, CreateInsert,
           CreateLoad, DeleteCheck, DeleteUnload, RephoneLookup, RephoneRow,
           RephoneMem, ProxyRow, ProxyMem, Disconnect, Connect
  <2>2. CASE DeleteRow(r)
    BY <1>1, <1>2, <2>2 DEF DeleteRow, TypeOK, Rows
  <2> QED BY <1>2, <2>1, <2>2
<1>3. ASSUME NEW q \in Requests, Carrying(req[q], i)
      PROVE  i \in stranded' \/ Carrying(req'[q], i)
  <2>1. CASE q # r
    BY <1>1, <1>3, <2>1, OthersStay
  <2>2. CASE q = r
    <3>1. CASE CreateLoad(r)
      BY <1>3, <2>2, <3>1 DEF CreateLoad, Carrying
    <3>2. CASE Disconnect(r)
      BY <1>1, <1>3, <2>2, <3>2 DEF Disconnect, Carrying, Goto, TypeOK, Request, Idle
    <3>3. CASE DeleteRow(r)
      BY <1>1, <1>3, <2>2, <3>3 DEF DeleteRow, Carrying, Rows, TypeOK
    <3>4. CreateLoad(r) \/ Disconnect(r) \/ DeleteRow(r)
      BY <1>3, <2>2
      DEF Carrying, StartRequest, ContinueRequest, CreateLookup, Find, CreateInsert,
          DeleteCheck, DeleteUnload, RephoneLookup, RephoneRow, RephoneMem,
          ProxyRow, ProxyMem, Connect, At, Idle
    <3> QED BY <3>1, <3>2, <3>3, <3>4
  <2> QED BY <2>1, <2>2
<1>4. i \in stranded \/ \E q \in Requests : Carrying(req[q], i)
  BY DEF AccountedInv, UnloadedIsAccounted, Carrying, At
<1> QED BY <1>2, <1>3, <1>4

\* A row appears, and an account leaves the map, in the hands of a request.
LEMMA RowBecomesAccounted ==
    ASSUME AccountedInv, NEW r \in Requests, StartRequest(r) \/ ContinueRequest(r),
           NEW i \in Ids, i \notin Rows \ loaded, i \in Rows', i \notin loaded'
    PROVE  Carrying(req'[r], i)
<1>1. TypeOK /\ RequestShape
  BY DEF AccountedInv, RegistryInv
<1>2. CASE DeleteUnload(r)
  <2>1. i = req[r].id
    BY <1>2 DEF DeleteUnload, Rows, db
  <2>2. req[r] \in Request /\ req[r].op = "delete"
    BY <1>1, <1>2, RequestTypes DEF DeleteUnload, At
  <2> QED BY <1>1, <1>2, <2>1, <2>2 DEF DeleteUnload, Goto, Carrying, TypeOK, Request
<1>3. ASSUME NEW j \in Ids, CreateInsert(r, j) PROVE Carrying(req'[r], i)
  <2>1. req[r] \in Request /\ req[r].op = "create"
    BY <1>1, <1>3, RequestTypes DEF CreateInsert, At
  <2>2. i = j /\ req' = [req EXCEPT ![r].at = "load", ![r].id = j]
    BY <1>1, <1>3 DEF CreateInsert, Rows, TypeOK
  <2> QED BY <1>1, <2>1, <2>2 DEF Carrying, TypeOK, Request
<1>4. CASE DeleteRow(r) \/ RephoneRow(r)
  <2>1. Rows' \subseteq Rows /\ loaded' = loaded
    BY <1>1, <1>4 DEF DeleteRow, RephoneRow, Rows, TypeOK
  <2> QED BY <2>1
<1>5. CASE Rows' = Rows /\ loaded \subseteq loaded'
  BY <1>5
<1>6. \/ DeleteUnload(r) \/ DeleteRow(r) \/ RephoneRow(r)
      \/ \E j \in Ids : CreateInsert(r, j)
      \/ row' = row /\ loaded \subseteq loaded'
  BY DEF StartRequest, ContinueRequest, CreateLookup, Find, CreateLoad, DeleteCheck,
         RephoneLookup, RephoneMem, ProxyRow, ProxyMem, Disconnect, Connect, db
<1> QED BY <1>2, <1>3, <1>4, <1>5, <1>6 DEF Rows

\* Every step of the registry keeps its rows accounted for.
LEMMA StepAccounted == AccountedInv /\ [Next]_vars => AccountedInv'
<1> SUFFICES ASSUME AccountedInv, [Next]_vars, NEW i \in Rows' \ loaded'
             PROVE  i \in stranded' \/ \E q \in Requests : Carrying(req'[q], i)
  BY StepRegistry DEF AccountedInv, UnloadedIsAccounted, Carrying, At
<1>1. i \in Ids
  BY DEF Rows
<1>2. ASSUME NEW r \in Requests, StartRequest(r) \/ ContinueRequest(r)
      PROVE  i \in stranded' \/ \E q \in Requests : Carrying(req'[q], i)
  BY <1>1, <1>2, RowStaysAccounted, RowBecomesAccounted
<1>3. CASE UNCHANGED <<row, loaded, stranded, req>>
  BY <1>3 DEF AccountedInv, UnloadedIsAccounted, Carrying, At, Rows
<1>4. ASSUME NEW j \in Ids, LogIn(j) \/ ConnectionLost(j) \/ LoggedOut(j)
      PROVE  UNCHANGED <<row, loaded, stranded, req>>
  BY <1>4 DEF LogIn, ConnectionLost, LoggedOut, db
<1>5. CASE Restart
  BY <1>5 DEF Restart, Discover, Rows, db
<1>6. CASE UNCHANGED vars
  BY <1>3, <1>6 DEF vars
<1> QED BY <1>2, <1>3, <1>4, <1>5, <1>6 DEF Next

\* A row that no request can reach is on its way in or out, or was left by a
\* DELETE that failed or by a start that could not list the rows
\* (CreateAccount, DeleteAccount, DiscoverAccounts): nothing else can keep a
\* phone number taken.
THEOREM RowsAreAccounted == Spec => []UnloadedIsAccounted
<1>1. Init => AccountedInv
  BY InitRegistry DEF Init, AccountedInv, UnloadedIsAccounted, Rows
<1>2. AccountedInv => UnloadedIsAccounted
  BY DEF AccountedInv
<1> QED BY <1>1, <1>2, StepAccounted, PTL DEF Spec

-----------------------------------------------------------------------------
(* The registry keeps the book of accounts *)

\* Nothing is in the book, the map or the tables at first.
LEMMA InitBooked == Init => Book!Init
BY DEF Init, Book!Init

\* CreateAccount enters an account in the book and then serves it; an INSERT
\* that fails wastes its UUID.
LEMMA CreateBooked ==
    ASSUME RegistryInv, NEW r \in Requests,
           CreateLoad(r) \/ \E i \in Ids : CreateInsert(r, i)
    PROVE  [Book!Next]_Book!vars
<1>1. row \in [Ids -> Phones \cup {NoPhone}] /\ req \in [Requests -> Request \cup {Idle}]
  BY DEF RegistryInv, TypeOK
<1>2. CASE CreateLoad(r)
  <2>1. PICK i \in Ids : i = req[r].id
    BY <1>2, NilAssumption DEF CreateLoad, RegistryInv, RequestShape, TypeOK, At, Steps
  <2>2. Creating(r, i)
    BY <1>2, <2>1 DEF CreateLoad, At, Creating
  <2>3. i \in Rows /\ i \notin loaded
    BY <2>2 DEF RegistryInv, CreatingKnown
  <2>4. Book!Serve(i)
    BY <1>2, <2>1, <2>3 DEF CreateLoad, db, Rows, Book!Serve, Book!Booked
  <2> QED BY <2>4 DEF Book!Next
<1>3. ASSUME NEW i \in Ids, CreateInsert(r, i) PROVE Book!Next
  <2>1. i \notin used /\ used' = used \cup {i} /\ loaded' = loaded
    BY <1>3 DEF CreateInsert
  <2>2. CASE row' = row
    <3>1. Book!Waste(i)
      BY <2>1, <2>2 DEF Book!Waste
    <3> QED BY <3>1 DEF Book!Next
  <2>3. CASE ~PhoneTaken(req[r].phone) /\ row' = [row EXCEPT ![i] = req[r].phone]
    <3>1. PICK p \in Phones : p = req[r].phone
      BY <1>3 DEF CreateInsert, At, RegistryInv, RequestShape
    <3>2. Book!Enter(i, p)
      BY <2>1, <2>3, <3>1 DEF PhoneTaken, Book!Enter, Book!Free
    <3> QED BY <3>2 DEF Book!Next
  <2> QED BY <1>3, <2>2, <2>3 DEF CreateInsert
<1> QED BY <1>2, <1>3

\* DeleteAccount withdraws an account and then strikes it out, or finds it
\* withdrawn, or struck out, by a request that overlapped.
LEMMA DeleteBooked ==
    ASSUME RegistryInv, NEW r \in Requests, DeleteUnload(r) \/ DeleteRow(r)
    PROVE  [Book!Next]_Book!vars
<1>1. row \in [Ids -> Phones \cup {NoPhone}]
  BY DEF RegistryInv, TypeOK
<1>2. PICK i \in Ids : i = req[r].id
  BY DEF DeleteUnload, DeleteRow, RegistryInv, RequestShape, TypeOK, At, Steps
<1>3. CASE DeleteUnload(r)
  <2>1. loaded' = loaded \ {i} /\ used' = used /\ row' = row
    BY <1>2, <1>3 DEF DeleteUnload, db
  <2>2. CASE i \in loaded
    <3>1. Book!Withdraw(i)
      BY <2>1, <2>2 DEF Book!Withdraw
    <3> QED BY <3>1 DEF Book!Next
  <2>3. CASE i \notin loaded
    BY <2>1, <2>3 DEF Book!vars
  <2> QED BY <2>2, <2>3
<1>4. CASE DeleteRow(r)
  <2>1. used' = used /\ loaded' = loaded
        /\ (row' = row \/ row' = [row EXCEPT ![i] = NoPhone])
    BY <1>2, <1>4 DEF DeleteRow
  <2>2. i \notin loaded
    BY <1>2, <1>4 DEF DeleteRow, At, RegistryInv, DeletingUnloaded, Deleting
  <2>3. CASE row' = row
    BY <2>1, <2>3 DEF Book!vars
  <2>4. CASE row[i] # NoPhone /\ row' = [row EXCEPT ![i] = NoPhone]
    <3>1. Book!Strike(i)
      BY <2>1, <2>2, <2>4 DEF Book!Strike, Book!Booked
    <3> QED BY <3>1 DEF Book!Next
  <2> QED BY <1>1, <2>1, <2>3, <2>4
<1> QED BY <1>3, <1>4

\* UpdatePhoneNumber gives an account that is in the book a number that no
\* other account has, or changes no row.
LEMMA RephoneBooked ==
    ASSUME RegistryInv, NEW r \in Requests, RephoneRow(r)
    PROVE  [Book!Next]_Book!vars
<1>1. PICK i \in Ids, p \in Phones : i = req[r].id /\ p = req[r].phone
  BY DEF RephoneRow, RegistryInv, RequestShape, TypeOK, At, Steps
<1>2. used' = used /\ loaded' = loaded
  BY DEF RephoneRow
<1>3. CASE row' = row
  BY <1>2, <1>3 DEF Book!vars
<1>4. CASE /\ i \in Rows /\ \A j \in Ids \ {i} : row[j] # p
           /\ row' = [row EXCEPT ![i] = p]
  <2>1. Book!Renumber(i, p)
    BY <1>2, <1>4 DEF Rows, Book!Renumber, Book!Booked, Book!Free
  <2> QED BY <2>1 DEF Book!Next
<1> QED BY <1>1, <1>3, <1>4 DEF RephoneRow

\* Every step of the registry is one of the book or is not seen in it.
LEMMA StepBooked == RegistryInv /\ [Next]_vars => [Book!Next]_Book!vars
<1> SUFFICES ASSUME RegistryInv, [Next]_vars PROVE [Book!Next]_Book!vars
  OBVIOUS
<1>1. ASSUME UNCHANGED <<row, used, loaded>> PROVE UNCHANGED Book!vars
  BY <1>1 DEF Book!vars
<1>2. ASSUME NEW r \in Requests, StartRequest(r) PROVE UNCHANGED Book!vars
  BY <1>1, <1>2 DEF StartRequest, CreateLookup, Find, db
<1>3. ASSUME NEW r \in Requests, ContinueRequest(r) PROVE [Book!Next]_Book!vars
  <2>1. CASE \/ DeleteCheck(r) \/ RephoneLookup(r) \/ RephoneMem(r) \/ ProxyRow(r)
             \/ ProxyMem(r) \/ Disconnect(r) \/ Connect(r)
    BY <1>1, <2>1 DEF DeleteCheck, RephoneLookup, RephoneMem, ProxyRow, ProxyMem,
                      Disconnect, Connect, db
  <2> QED BY <1>3, <2>1, CreateBooked, DeleteBooked, RephoneBooked DEF ContinueRequest
<1>4. ASSUME NEW i \in Ids, LogIn(i) \/ ConnectionLost(i) \/ LoggedOut(i)
      PROVE  UNCHANGED Book!vars
  BY <1>1, <1>4 DEF LogIn, ConnectionLost, LoggedOut, db
<1>5. CASE Restart
  <2>1. Book!Reopen
    BY <1>5 DEF Restart, Discover, db, Rows, Book!Reopen, Book!Booked
  <2> QED BY <2>1 DEF Book!Next
<1>6. CASE UNCHANGED vars
  BY <1>1, <1>6 DEF vars, db
<1> QED BY <1>2, <1>3, <1>4, <1>5, <1>6 DEF Next

\* The map of accounts and the account table keep the book of accounts, for any
\* number of accounts and of requests that overlap, fail or die in the middle.
THEOREM BookKept == Spec => BookIsKept
<1>1. Init => Book!Init
  BY InitBooked
<1>2. RegistryInv /\ [Next]_vars => [Book!Next]_Book!vars
  BY StepBooked
<1> QED BY <1>1, <1>2, RegistryInvariant, PTL DEF Spec, BookIsKept, Book!Spec

=============================================================================
