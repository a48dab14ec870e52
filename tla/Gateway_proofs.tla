--------------------------- MODULE Gateway_proofs ---------------------------
(***************************************************************************)
(* The semaphore, the usage table and the account cap of the REST stack,   *)
(* for any number of users, connections and slots.                         *)
(***************************************************************************)
EXTENDS Gateway, FiniteSetTheorems, TLAPS

\* The requests that RateLimit has let in.
Inside == {r \in Requests : req[r] # Idle}

\* Behind Auth, the identity in the context is the one of the credentials.
KnownBehindAuth ==
    \A r \in Requests :
        req[r].at \in {"route", "count", "insert"} => req[r].identity = req[r].who

GatewayInv ==
    /\ TypeOK /\ KnownBehindAuth /\ IsFiniteSet(Inside)
    /\ InFlightBounded /\ UsageIsSent /\ OvershootBounded

Bit(b) == IF b THEN 1 ELSE 0

-----------------------------------------------------------------------------
(* Counting *)

\* Two sets that differ in one element at most differ by one at most.
LEMMA MoveOne ==
    ASSUME NEW S, NEW T, NEW x, IsFiniteSet(S), S \ {x} = T \ {x}
    PROVE  /\ IsFiniteSet(T) /\ Cardinality(S) \in Nat /\ Cardinality(T) \in Nat
           /\ Cardinality(T) = Cardinality(S) + Bit(x \in T) - Bit(x \in S)
<1> DEFINE R == S \ {x}
<1>1. IsFiniteSet(R) /\ Cardinality(R) = IF x \in S THEN Cardinality(S) - 1 ELSE Cardinality(S)
  BY FS_RemoveElement
<1>2. IsFiniteSet(R \cup {x}) /\ Cardinality(R \cup {x}) = Cardinality(R) + 1
  BY <1>1, FS_AddElement
<1>3. Cardinality(R) \in Nat /\ Cardinality(S) \in Nat
  BY <1>1, FS_CardinalityType
<1>4. CASE x \in T
  <2>1. T = R \cup {x}
    BY <1>4
  <2> HIDE DEF R
  <2> QED BY <1>1, <1>2, <1>3, <1>4, <2>1 DEF Bit
<1>5. CASE x \notin T
  <2>1. T = R
    BY <1>5
  <2> HIDE DEF R
  <2> QED BY <1>1, <1>2, <1>3, <1>5, <2>1 DEF Bit
<1> QED BY <1>4, <1>5

\* The requests at one place are among those inside.
LEMMA PlacesInside ==
    ASSUME GatewayInv, NEW u
    PROVE  /\ IsFiniteSet(Inside) /\ Cardinality(Inside) \in Nat
           /\ IsFiniteSet(Counting(u)) /\ Cardinality(Counting(u)) \in Nat
           /\ IsFiniteSet(Inserting(u)) /\ Cardinality(Inserting(u)) \in Nat
           /\ Cardinality(Inserting(u)) <= Cardinality(Inside)
<1>1. Counting(u) \in SUBSET Inside /\ Inserting(u) \in SUBSET Inside
  BY DEF Counting, Inserting, Inside, Idle
<1>2. IsFiniteSet(Inside)
  BY DEF GatewayInv
<1> QED BY <1>1, <1>2, FS_Subset, FS_CardinalityType

-----------------------------------------------------------------------------
(* The invariant *)

\* Nobody is inside at first.
LEMMA InitGateway == Init => GatewayInv
<1> SUFFICES ASSUME Init PROVE GatewayInv
  OBVIOUS
<1>1. TypeOK /\ KnownBehindAuth
  BY LimitAssumption DEF Init, TypeOK, KnownBehindAuth, Idle
<1>2. Inside = {} /\ \A u : Counting(u) = {} /\ Inserting(u) = {}
  BY DEF Init, Inside, Counting, Inserting, Idle
<1>3. IsFiniteSet({}) /\ Cardinality({}) = 0
  BY FS_EmptySet
<1>4. InFlightBounded
  BY <1>2, <1>3, LimitAssumption DEF Init, InFlightBounded, Inside
<1>5. UsageIsSent /\ OvershootBounded
  <2>1. ASSUME NEW u \in Users
        PROVE  /\ Cardinality(Counting(u)) = 0 /\ Cardinality(Inserting(u)) = 0
               /\ usage[u] = 0 /\ sent[u] = 0 /\ late[u] = 0 /\ accounts[u] = 0
               /\ blind[u] = 0
    BY <1>2, <1>3 DEF Init
  <2> QED BY <2>1, LimitAssumption DEF UsageIsSent, OvershootBounded
<1>6. IsFiniteSet(Inside)
  BY <1>2, <1>3
<1> QED BY <1>1, <1>4, <1>5, <1>6 DEF GatewayInv

\* A request keeps the invariant if it takes and gives back its slot, counts
\* what it has sent, and inserts what it has announced, unless the user is
\* still below the cap or an error was counted.
LEMMA RequestKeeps ==
    ASSUME GatewayInv, NEW r \in Requests, NEW q \in Request \cup {Idle},
           req' = [req EXCEPT ![r] = q], TypeOK',
           q.at \in {"route", "count", "insert"} => q.identity = q.who,
           slots' = slots + Bit(q # Idle) - Bit(req[r] # Idle),
           slots' <= MaxConcurrent,
           \A u \in Users :
              usage'[u] - usage[u] + Bit(q.at = "count" /\ q.who = u) - Bit(r \in Counting(u))
                 <= (sent'[u] + late'[u]) - (sent[u] + late[u]),
           MaxAccounts > 0 => \A u \in Users :
              \/ accounts'[u] + Bit(q.at = "insert" /\ q.who = u)
                     <= accounts[u] + Bit(r \in Inserting(u)) + (blind'[u] - blind[u])
              \/ accounts'[u] < MaxAccounts
    PROVE  GatewayInv'
<1>1. /\ TypeOK /\ slots = Cardinality(Inside) /\ slots \in Nat /\ slots' \in Nat
      /\ MaxConcurrent \in Nat /\ MaxAccounts \in Nat
      /\ \A u \in Users : /\ usage[u] \in Nat /\ usage'[u] \in Nat
                          /\ sent[u] \in Nat /\ sent'[u] \in Nat
                          /\ late[u] \in Nat /\ late'[u] \in Nat
                          /\ accounts[u] \in Nat /\ accounts'[u] \in Nat
                          /\ blind[u] \in Nat /\ blind'[u] \in Nat
  BY LimitAssumption DEF GatewayInv, TypeOK, InFlightBounded, Inside
<1>2. KnownBehindAuth'
  BY <1>1 DEF GatewayInv, TypeOK, KnownBehindAuth
<1>same. \A s \in Requests : req'[s] = IF s = r THEN q ELSE req[s]
  BY <1>1 DEF TypeOK
<1>3. IsFiniteSet(Inside') /\ Cardinality(Inside') = slots'
  <2>1. Inside \ {r} = Inside' \ {r}
    BY <1>same DEF Inside
  <2>2. (r \in Inside <=> req[r] # Idle) /\ (r \in Inside' <=> q # Idle)
    BY <1>same DEF Inside
  <2> QED BY <1>1, <2>1, <2>2, MoveOne DEF GatewayInv
<1>4. InFlightBounded'
  BY <1>3 DEF InFlightBounded, Inside
<1>5. UsageIsSent'
  <2> SUFFICES ASSUME NEW u \in Users
               PROVE  usage'[u] + Cardinality(Counting(u)') <= sent'[u] + late'[u]
    BY DEF UsageIsSent
  <2>1. Cardinality(Counting(u)') = Cardinality(Counting(u))
           + Bit(q.at = "count" /\ q.who = u) - Bit(r \in Counting(u))
    <3>1. Counting(u) \ {r} = Counting(u)' \ {r}
      BY <1>same DEF Counting
    <3>2. r \in Counting(u)' <=> q.at = "count" /\ q.who = u
      BY <1>same DEF Counting
    <3>3. IsFiniteSet(Counting(u))
      BY PlacesInside
    <3> QED BY <3>1, <3>2, <3>3, MoveOne
  <2>2. usage[u] + Cardinality(Counting(u)) <= sent[u] + late[u]
    BY DEF GatewayInv, UsageIsSent
  <2>3. Cardinality(Counting(u)) \in Nat
    BY PlacesInside
  <2>4. Bit(q.at = "count" /\ q.who = u) \in Nat /\ Bit(r \in Counting(u)) \in Nat
    BY DEF Bit
  <2> QED BY <1>1, <2>1, <2>2, <2>3, <2>4
<1>6. OvershootBounded'
  <2> SUFFICES ASSUME MaxAccounts > 0, NEW u \in Users
               PROVE  accounts'[u] + Cardinality(Inserting(u)')
                          <= MaxAccounts + MaxConcurrent - 1 + blind'[u]
    BY DEF OvershootBounded
  <2>1. Cardinality(Inserting(u)') = Cardinality(Inserting(u))
           + Bit(q.at = "insert" /\ q.who = u) - Bit(r \in Inserting(u))
    <3>1. Inserting(u) \ {r} = Inserting(u)' \ {r}
      BY <1>same DEF Inserting
    <3>2. r \in Inserting(u)' <=> q.at = "insert" /\ q.who = u
      BY <1>same DEF Inserting
    <3>3. IsFiniteSet(Inserting(u))
      BY PlacesInside
    <3> QED BY <3>1, <3>2, <3>3, MoveOne
  <2>2. accounts[u] + Cardinality(Inserting(u)) <= MaxAccounts + MaxConcurrent - 1 + blind[u]
    BY DEF GatewayInv, OvershootBounded
  <2>3. Cardinality(Inserting(u)) \in Nat
    BY PlacesInside
  <2>4. Bit(q.at = "insert" /\ q.who = u) \in Nat /\ Bit(r \in Inserting(u)) \in Nat
    BY DEF Bit
  <2>5. CASE accounts'[u] + Bit(q.at = "insert" /\ q.who = u)
                <= accounts[u] + Bit(r \in Inserting(u)) + (blind'[u] - blind[u])
    BY <1>1, <2>1, <2>2, <2>3, <2>4, <2>5
  <2>6. CASE accounts'[u] < MaxAccounts
    <3>1. Inserting(u)' \in SUBSET Inside'
      BY DEF Inserting, Inside, Idle
    <3>2. Cardinality(Inserting(u)') <= Cardinality(Inside') /\ Cardinality(Inserting(u)') \in Nat
      BY <1>3, <3>1, FS_Subset, FS_CardinalityType
    <3> QED BY <1>1, <1>3, <2>6, <3>2
  <2> QED BY <2>5, <2>6
<1> QED BY <1>2, <1>3, <1>4, <1>5, <1>6 DEF GatewayInv

\* One step of a request, and its arrival.
LEMMA ServeStep ==
    ASSUME GatewayInv, NEW r \in Requests,
           Serve(r) \/ \E op \in Ops, who \in Callers : Arrive(r, op, who)
    PROVE  GatewayInv'
<1>1. /\ TypeOK /\ slots \in Nat /\ slots <= MaxConcurrent /\ MaxConcurrent \in Nat
      /\ slots = Cardinality(Inside) /\ Idle.at = "idle"
      /\ req[r] \in Request \cup {Idle} /\ (req[r] # Idle => req[r] \in Request)
      /\ MaxAccounts \in Nat /\ MaxSends \in Nat /\ MaxBlind \in Nat
  BY LimitAssumption DEF GatewayInv, TypeOK, InFlightBounded, Inside, Idle
<1>2. /\ \A u \in Users : r \in Counting(u) <=> (req[r].at = "count" /\ req[r].who = u)
      /\ \A u \in Users : r \in Inserting(u) <=> (req[r].at = "insert" /\ req[r].who = u)
  BY DEF Counting, Inserting
<1>3. req[r].at \in {"route", "count", "insert"} => req[r].identity = req[r].who
  BY DEF GatewayInv, KnownBehindAuth
<1>4. \A u \in Users : /\ usage[u] \in Nat /\ sent[u] \in Nat /\ late[u] \in Nat
                       /\ accounts[u] \in Nat /\ blind[u] \in Nat
  BY <1>1, LimitAssumption DEF TypeOK
<1>5. req[r] # Idle => slots > 0
  <2>1. req[r] # Idle => r \in Inside
    BY DEF Inside
  <2>2. IsFiniteSet(Inside) /\ (Cardinality(Inside) = 0 <=> Inside = {})
    BY FS_EmptySet DEF GatewayInv
  <2> QED BY <1>1, <2>1, <2>2
\* A request goes on without touching its slot.
<1>6. ASSUME NEW place \in Places, req[r] # Idle, Goto(r, place), slots' = slots,
             usage' = usage, late' = late, accounts' = accounts,
             blind' \in [Users -> 0..MaxBlind], \A u \in Users : blind'[u] >= blind[u],
             sent' \in [Users -> 0..MaxSends],
             place \in {"route", "count", "insert"} => req[r].at = "route",
             place # "count" => sent' = sent /\ req[r].at # "count",
             place = "count" => \A u \in Users : sent'[u] = sent[u] + Bit(req[r].who = u),
             place # "insert" => req[r].at # "insert",
             place = "insert" /\ MaxAccounts > 0 =>
                 \/ req[r].who \notin Users \/ accounts[req[r].who] < MaxAccounts
                 \/ blind'[req[r].who] = blind[req[r].who] + 1
      PROVE  GatewayInv'
  <2> DEFINE q == [req[r] EXCEPT !.at = place]
  <2>1. /\ q \in Request /\ q.at = place /\ q.who = req[r].who
        /\ q.identity = req[r].identity
    BY <1>1, <1>6 DEF Request
  <2>2. req' = [req EXCEPT ![r] = q]
    BY <1>6 DEF Goto
  <2>3. q # Idle
    BY <1>1, <2>1 DEF Places
  <2>4. TypeOK'
    BY <1>1, <1>6, <2>1, <2>2 DEF TypeOK
  <2>5. slots' = slots + Bit(q # Idle) - Bit(req[r] # Idle)
    BY <1>1, <1>6, <2>3 DEF Bit
  <2>6. q.at \in {"route", "count", "insert"} => q.identity = q.who
    BY <1>3, <1>6, <2>1
  <2>7. ASSUME NEW u \in Users
        PROVE  usage'[u] - usage[u] + Bit(q.at = "count" /\ q.who = u) - Bit(r \in Counting(u))
                   <= (sent'[u] + late'[u]) - (sent[u] + late[u])
    <3>1. CASE place = "count"
      BY <1>2, <1>4, <1>6, <2>1, <3>1 DEF Bit
    <3>2. CASE place # "count"
      BY <1>2, <1>4, <1>6, <2>1, <3>2 DEF Bit
    <3> QED BY <3>1, <3>2
  <2>8. ASSUME MaxAccounts > 0, NEW u \in Users
        PROVE  \/ accounts'[u] + Bit(q.at = "insert" /\ q.who = u)
                      <= accounts[u] + Bit(r \in Inserting(u)) + (blind'[u] - blind[u])
               \/ accounts'[u] < MaxAccounts
    <3>1. blind'[u] \in Nat
      BY <1>1, <1>6
    <3> QED BY <1>2, <1>4, <1>6, <2>1, <2>8, <3>1 DEF Bit
  <2> HIDE DEF q
  <2> QED BY <1>1, <1>6, <2>1, <2>2, <2>4, <2>5, <2>6, <2>7, <2>8, RequestKeeps
\* A request leaves, having counted or inserted what it announced.
<1>7. ASSUME req[r] # Idle, Leave(r), sent' = sent, late' = late, blind' = blind,
             usage' \in [Users -> Nat], accounts' \in [Users -> Nat],
             \A u \in Users : usage'[u] <= usage[u] + Bit(r \in Counting(u)),
             \A u \in Users : accounts'[u] <= accounts[u] + Bit(r \in Inserting(u))
      PROVE  GatewayInv'
  <2>1. req' = [req EXCEPT ![r] = Idle] /\ slots' = slots - 1
    BY <1>7 DEF Leave
  <2>2. TypeOK'
    BY <1>1, <1>5, <1>7, <2>1 DEF TypeOK
  <2>3. slots' = slots + Bit(Idle # Idle) - Bit(req[r] # Idle) /\ slots' <= MaxConcurrent
    BY <1>1, <1>7, <2>1 DEF Bit
  <2>4. ASSUME NEW u \in Users
        PROVE  usage'[u] - usage[u] + Bit(Idle.at = "count" /\ Idle.who = u)
                     - Bit(r \in Counting(u))
                   <= (sent'[u] + late'[u]) - (sent[u] + late[u])
    <3>1. usage'[u] \in Nat /\ Bit(r \in Counting(u)) \in Nat
      BY <1>7 DEF Bit
    <3>2. Bit(Idle.at = "count" /\ Idle.who = u) = 0
      BY <1>1 DEF Bit
    <3> QED BY <1>4, <1>7, <3>1, <3>2
  <2>5. ASSUME NEW u \in Users
        PROVE  accounts'[u] + Bit(Idle.at = "insert" /\ Idle.who = u)
                   <= accounts[u] + Bit(r \in Inserting(u)) + (blind'[u] - blind[u])
    <3>1. accounts'[u] \in Nat /\ Bit(r \in Inserting(u)) \in Nat
      BY <1>7 DEF Bit
    <3>2. Bit(Idle.at = "insert" /\ Idle.who = u) = 0
      BY <1>1 DEF Bit
    <3> QED BY <1>4, <1>7, <3>1, <3>2
  <2> QED BY <1>1, <2>1, <2>2, <2>3, <2>4, <2>5, RequestKeeps
<1>8. ASSUME req[r] # Idle, Refuse(r) PROVE GatewayInv'
  <2>1. \A b : Bit(b) \in Nat
    BY DEF Bit
  <2> QED BY <1>1, <1>4, <1>7, <1>8, <2>1 DEF Refuse, TypeOK
<1>9. CASE \E op \in Ops, who \in Callers : Arrive(r, op, who)
  <2>1. PICK op \in Ops, who \in Callers : Arrive(r, op, who)
    BY <1>9
  <2> DEFINE q == [at |-> "billing", op |-> op, who |-> who, identity |-> NoUser]
  <2>2. q \in Request /\ q # Idle /\ q.at = "billing" /\ req[r] = Idle
    BY <1>1, <2>1 DEF Arrive, Request, Places, Idle
  <2>3. /\ req' = [req EXCEPT ![r] = q] /\ slots' = slots + 1 /\ slots < MaxConcurrent
        /\ usage' = usage /\ accounts' = accounts /\ sent' = sent /\ late' = late
        /\ blind' = blind
    BY <2>1 DEF Arrive
  <2>4. TypeOK' /\ slots' <= MaxConcurrent
    BY <1>1, <2>2, <2>3 DEF TypeOK
  <2>5. slots' = slots + Bit(q # Idle) - Bit(req[r] # Idle)
    BY <1>1, <2>2, <2>3 DEF Bit
  <2>6. ASSUME NEW u \in Users
        PROVE  /\ usage'[u] - usage[u] + Bit(q.at = "count" /\ q.who = u)
                     - Bit(r \in Counting(u)) <= (sent'[u] + late'[u]) - (sent[u] + late[u])
               /\ accounts'[u] + Bit(q.at = "insert" /\ q.who = u)
                     <= accounts[u] + Bit(r \in Inserting(u)) + (blind'[u] - blind[u])
    BY <1>1, <1>2, <1>4, <2>2, <2>3 DEF Bit
  <2> HIDE DEF q
  <2> QED BY <2>2, <2>3, <2>4, <2>5, <2>6, RequestKeeps
<1>10. CASE Billing(r)
  <2>1. req[r].at = "billing" /\ req[r] # Idle
    BY <1>1, <1>10 DEF Billing, At
  <2>2. CASE Goto(r, "auth") /\ UNCHANGED <<slots, usage, accounts, sent, late, blind>>
    BY <1>1, <1>6, <2>1, <2>2 DEF Places, TypeOK
  <2> QED BY <1>8, <1>10, <2>1, <2>2 DEF Billing
<1>11. CASE Auth(r)
  <2>1. req[r].at = "auth" /\ req[r] # Idle
    BY <1>1, <1>11 DEF Auth, At
  <2>2. CASE /\ req' = [req EXCEPT ![r].at = "route", ![r].identity = req[r].who]
             /\ UNCHANGED <<slots, usage, accounts, sent, late, blind>>
    <3> DEFINE q == [req[r] EXCEPT !.at = "route", !.identity = req[r].who]
    <3>1. q \in Request /\ q # Idle /\ q.at = "route" /\ q.identity = q.who
      BY <1>1, <2>1 DEF Request, Places
    <3>2. req' = [req EXCEPT ![r] = q]
      BY <2>2
    <3>3. TypeOK'
      BY <1>1, <2>2, <3>1, <3>2 DEF TypeOK
    <3>4. slots' = slots + Bit(q # Idle) - Bit(req[r] # Idle) /\ slots' <= MaxConcurrent
      BY <1>1, <2>1, <2>2, <3>1 DEF Bit
    <3>5. ASSUME NEW u \in Users
          PROVE  /\ usage'[u] - usage[u] + Bit(q.at = "count" /\ q.who = u)
                       - Bit(r \in Counting(u)) <= (sent'[u] + late'[u]) - (sent[u] + late[u])
                 /\ accounts'[u] + Bit(q.at = "insert" /\ q.who = u)
                       <= accounts[u] + Bit(r \in Inserting(u)) + (blind'[u] - blind[u])
      BY <1>2, <1>4, <2>1, <2>2, <3>1 DEF Bit
    <3> HIDE DEF q
    <3> QED BY <3>1, <3>2, <3>3, <3>4, <3>5, RequestKeeps
  <2> QED BY <1>8, <1>11, <2>1, <2>2 DEF Auth
<1>12. CASE Send(r)
  <2>1. req[r].at = "route" /\ req[r] # Idle /\ req[r].identity = req[r].who
    BY <1>1, <1>3, <1>12 DEF Send, At
  <2>2. CASE /\ req[r].who \in Users => sent[req[r].who] < MaxSends
             /\ sent' = [x \in Users |-> IF x = req[r].who THEN sent[x] + 1 ELSE sent[x]]
             /\ Goto(r, "count")
             /\ UNCHANGED <<slots, usage, accounts, late, blind>>
    <3>1. sent' \in [Users -> 0..MaxSends]
      BY <1>1, <2>2 DEF TypeOK
    <3>2. \A u \in Users : sent'[u] = sent[u] + Bit(req[r].who = u)
      BY <1>4, <2>2 DEF Bit
    <3>3. blind' \in [Users -> 0..MaxBlind] /\ \A u \in Users : blind'[u] >= blind[u]
      BY <1>1, <1>4, <2>2 DEF TypeOK
    <3> QED BY <1>6, <2>1, <2>2, <3>1, <3>2, <3>3 DEF Places
  <2> QED BY <1>8, <1>12, <2>1, <2>2 DEF Send
<1>13. CASE Count(r)
  <2>1. req[r].at = "count" /\ req[r] # Idle /\ req[r].identity = req[r].who
    BY <1>1, <1>3, <1>13 DEF Count, At
  <2>2. /\ usage' \in [Users -> Nat]
        /\ \A u \in Users : usage'[u] <= usage[u] + Bit(r \in Counting(u))
    BY <1>1, <1>2, <1>4, <1>13, <2>1 DEF Count, TypeOK, Bit
  <2>3. /\ accounts' \in [Users -> Nat]
        /\ \A u \in Users : accounts'[u] <= accounts[u] + Bit(r \in Inserting(u))
    BY <1>1, <1>4, <1>13 DEF Count, TypeOK, Bit
  <2> QED BY <1>7, <1>13, <2>1, <2>2, <2>3 DEF Count
<1>14. CASE CapCheck(r)
  <2>1. req[r].at = "route" /\ req[r] # Idle /\ req[r].identity = req[r].who
    BY <1>1, <1>3, <1>14 DEF CapCheck, At
  <2>2. CASE ~Full(req[r].who) /\ Goto(r, "insert")
             /\ UNCHANGED <<slots, usage, accounts, sent, late, blind>>
    BY <1>1, <1>4, <1>6, <2>1, <2>2 DEF Places, TypeOK, Full
  <2>3. CASE /\ Full(req[r].who) /\ blind[req[r].who] < MaxBlind
             /\ Goto(r, "insert")
             /\ blind' = [blind EXCEPT ![req[r].who] = @ + 1]
             /\ UNCHANGED <<slots, usage, accounts, sent, late>>
    <3>1. /\ blind' \in [Users -> 0..MaxBlind]
          /\ \A u \in Users : blind'[u] >= blind[u]
          /\ blind'[req[r].who] = blind[req[r].who] + 1
      BY <1>1, <1>4, <2>3 DEF TypeOK, Full
    <3> QED BY <1>1, <1>4, <1>6, <2>1, <2>3, <3>1 DEF Places, TypeOK
  <2> QED BY <1>8, <1>14, <2>1, <2>2, <2>3 DEF CapCheck
<1>15. CASE Insert(r)
  <2>1. req[r].at = "insert" /\ req[r] # Idle /\ req[r].identity = req[r].who
    BY <1>1, <1>3, <1>15 DEF Insert, At
  <2>2. /\ accounts' \in [Users -> Nat]
        /\ \A u \in Users : accounts'[u] <= accounts[u] + Bit(r \in Inserting(u))
    BY <1>1, <1>2, <1>4, <1>15, <2>1 DEF Insert, TypeOK, Bit
  <2>3. /\ usage' \in [Users -> Nat]
        /\ \A u \in Users : usage'[u] <= usage[u] + Bit(r \in Counting(u))
    BY <1>1, <1>4, <1>15 DEF Insert, TypeOK, Bit
  <2> QED BY <1>7, <1>15, <2>1, <2>2, <2>3 DEF Insert
<1>16. CASE Webhook(r)
  BY <1>1, <1>8, <1>16 DEF Webhook, At
<1> QED BY <1>9, <1>10, <1>11, <1>12, <1>13, <1>14, <1>15, <1>16 DEF Serve

\* Every step keeps the invariant.
LEMMA StepGateway == GatewayInv /\ [Next]_vars => GatewayInv'
<1> SUFFICES ASSUME GatewayInv, [Next]_vars PROVE GatewayInv'
  OBVIOUS
<1>1. TypeOK
  BY DEF GatewayInv
<1>2. ASSUME NEW u \in Users, DeleteAccount(u) PROVE GatewayInv'
  <2>1. TypeOK' /\ req' = req /\ slots' = slots /\ usage' = usage /\ sent' = sent /\ late' = late
        /\ blind' = blind
    BY <1>1, <1>2 DEF DeleteAccount, TypeOK
  <2>2. KnownBehindAuth' /\ IsFiniteSet(Inside') /\ InFlightBounded' /\ UsageIsSent'
    BY <2>1 DEF GatewayInv, KnownBehindAuth, Inside, InFlightBounded, UsageIsSent, Counting
  <2>3. OvershootBounded'
    <3> SUFFICES ASSUME MaxAccounts > 0, NEW v \in Users
                 PROVE  accounts'[v] + Cardinality(Inserting(v)')
                            <= MaxAccounts + MaxConcurrent - 1 + blind'[v]
      BY DEF OvershootBounded
    <3>1. Inserting(v)' = Inserting(v)
      BY <2>1 DEF Inserting
    <3>2. /\ accounts'[v] <= accounts[v] /\ accounts[v] \in Nat /\ accounts'[v] \in Nat
          /\ blind'[v] = blind[v] /\ blind[v] \in Nat
      BY <1>1, <1>2, LimitAssumption DEF DeleteAccount, TypeOK
    <3>3. accounts[v] + Cardinality(Inserting(v)) <= MaxAccounts + MaxConcurrent - 1 + blind[v]
      BY DEF GatewayInv, OvershootBounded
    <3>4. Cardinality(Inserting(v)) \in Nat
      BY PlacesInside
    <3> QED BY <3>1, <3>2, <3>3, <3>4, LimitAssumption
  <2> QED BY <2>1, <2>2, <2>3 DEF GatewayInv
<1>3. CASE Midnight
  <2>1. \A u \in Users : Cardinality(Counting(u)) \in Nat
    BY PlacesInside
  <2>2. TypeOK'
    BY <1>1, <1>3, <2>1, LimitAssumption DEF Midnight, TypeOK
  <2>3. KnownBehindAuth' /\ IsFiniteSet(Inside') /\ InFlightBounded' /\ OvershootBounded'
    BY <1>3 DEF Midnight, GatewayInv, KnownBehindAuth, Inside, InFlightBounded,
                OvershootBounded, Inserting
  <2>4. UsageIsSent'
    <3> SUFFICES ASSUME NEW u \in Users
                 PROVE  usage'[u] + Cardinality(Counting(u)') <= sent'[u] + late'[u]
      BY DEF UsageIsSent
    <3>1. Counting(u)' = Counting(u) /\ usage'[u] = 0 /\ sent'[u] = 0
          /\ late'[u] = Cardinality(Counting(u))
      BY <1>3 DEF Midnight, Counting
    <3> QED BY <2>1, <3>1
  <2> QED BY <2>2, <2>3, <2>4 DEF GatewayInv
<1>4. CASE UNCHANGED vars
  BY <1>1, <1>4 DEF vars, GatewayInv, TypeOK, KnownBehindAuth, Inside, InFlightBounded,
                    UsageIsSent, OvershootBounded, Counting, Inserting
<1> QED BY <1>2, <1>3, <1>4, ServeStep DEF Next

\* The inductive invariant: slots, usage and account rows are exact for the
\* requests that are inside (RateLimit, trackMessageSend, CreateAccount).
THEOREM GatewayInvariant == Spec => []GatewayInv
BY InitGateway, StepGateway, PTL DEF Spec

\* Every variable keeps its type.
THEOREM GatewayTypes == Spec => []TypeOK
<1>1. GatewayInv => TypeOK
  BY DEF GatewayInv
<1> QED BY <1>1, GatewayInvariant, PTL

\* As many slots are taken as requests are inside, never more than configured.
THEOREM SemaphoreIsExact == Spec => []InFlightBounded
<1>1. GatewayInv => InFlightBounded
  BY DEF GatewayInv
<1> QED BY <1>1, GatewayInvariant, PTL

\* The usage table never counts a message that was not sent, or one twice.
THEOREM UsageIsHonest == Spec => []UsageIsSent
<1>1. GatewayInv => UsageIsSent
  BY DEF GatewayInv
<1> QED BY <1>1, GatewayInvariant, PTL

\* The account cap is overshot by less than the number of slots, and by the
\* creations that found the plan full and a read failing (CreateAccount).
THEOREM OvershootIsBounded == Spec => []OvershootBounded
<1>1. GatewayInv => OvershootBounded
  BY DEF GatewayInv
<1> QED BY <1>1, GatewayInvariant, PTL
=============================================================================
