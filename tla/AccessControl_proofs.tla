----------------------- MODULE AccessControl_proofs ------------------------
(***************************************************************************)
(* What edits of users, roles and reset tokens keep, for any number of     *)
(* users, roles, tokens and requests that overlap, fail or die between two *)
(* statements.                                                             *)
(***************************************************************************)
EXTENDS AccessControl, FiniteSetTheorems, TLAPS

Record == Update \cup Fill \cup Tx \cup Forgot \cup Reset \cup {Idle}

\* What a request carries is told by where it stands.
LEMMA RecordShape ==
    ASSUME NEW q \in Record
    PROVE  /\ q.at \in {"idle", "update", "fill", "tx", "mark", "insert", "write", "used"}
           /\ q.at = "update" => q \in Update
           /\ q.at = "fill" => q \in Fill
           /\ q.at = "tx" => q \in Tx
           /\ q.at \in {"mark", "insert"} => q \in Forgot
           /\ q.at \in {"write", "used"} => q \in Reset
BY DEF Record, Update, Fill, Tx, Forgot, Reset, Idle

\* The same of the requests in flight.
LEMMA RequestShape ==
    ASSUME TypeOK, NEW r \in Requests
    PROVE  /\ req[r] \in Record
           /\ At(r, "update") => req[r] \in Update
           /\ At(r, "fill") => req[r] \in Fill
           /\ At(r, "tx") => req[r] \in Tx
           /\ At(r, "mark") => req[r] \in Forgot
           /\ At(r, "insert") => req[r] \in Forgot
           /\ At(r, "write") => req[r] \in Reset
           /\ At(r, "used") => req[r] \in Reset
<1>1. req[r] \in Record
  BY DEF TypeOK, Record
<1> QED BY <1>1, RecordShape DEF At

LEMMA IdleIsRecord == Idle \in Record /\ Idle.at = "idle"
BY DEF Record, Idle

\* A request that moves to another record keeps the type of req.
LEMMA PutRecord ==
    ASSUME TypeOK, NEW r \in Requests, NEW q \in Record, req' = [req EXCEPT ![r] = q]
    PROVE  /\ req' \in [Requests -> Record] /\ req'[r] = q
           /\ \A s \in Requests : s # r => req'[s] = req[s]
BY DEF TypeOK, Record

LEMMA PutIdle ==
    ASSUME TypeOK, NEW r \in Requests, Answer(r)
    PROVE  /\ req' \in [Requests -> Record] /\ req'[r] = Idle
           /\ \A s \in Requests : s # r => req'[s] = req[s]
BY PutRecord, IdleIsRecord DEF Answer

\* The parts of TypeOK, by the tables that they are about.
UserTypes == role \in [Users -> Roles \cup {NoRole}] /\ enabled \subseteq Users /\ off \subseteq Users
RoleTypes ==
    /\ roles \subseteq Roles
    /\ perms \in [Roles -> SUBSET Permissions] /\ last \in [Roles -> SUBSET Permissions]
TokenTypes ==
    /\ owner \in [Tokens -> Users \cup {NoUser}]
    /\ live \subseteq {t \in Tokens : owner[t] \in Users /\ role[owner[t]] # NoRole}
    /\ uses \in [Tokens -> Nat] /\ shared \subseteq Tokens
    /\ leaky \subseteq Users
RestTypes == born \subseteq Users \cup Roles /\ req \in [Requests -> Record]

LEMMA TypeParts == TypeOK <=> UserTypes /\ RoleTypes /\ TokenTypes /\ RestTypes
BY DEF TypeOK, UserTypes, RoleTypes, TokenTypes, RestTypes, Record

-----------------------------------------------------------------------------
(* What each kind of request leaves alone *)

\* The steps that edit users, roles and tokens.
UserWork ==
    \/ \E u \in Users, k \in Roles :
          CreateUser(u, k) \/ \E on \in BOOLEAN : UsersUpdate(u, k, on)
    \/ \E u \in Users : Register(u) \/ DeleteUser(u)
    \/ \E r \in Requests :
          \/ \E u \in Users, k \in Roles \cup {NoRole}, b \in Asks : StartUpdate(r, u, k, b)
          \/ EndUpdate(r)
RoleWork ==
    \/ \E k \in Roles : DeleteRole(k)
    \/ \E r \in Requests :
          \/ \E k \in Roles : RoleRequest(r, k)
          \/ BeginReplace(r) \/ Commit(r) \/ Rollback(r)
TokenWork ==
    \/ \E r \in Requests :
          \/ \E u \in Users : StartForgot(r, u)
          \/ ForgotRequest(r) \/ ResetRequest(r)
    \/ \E t \in Tokens : Expire(t)

LEMMA NextIsWork == Next <=> UserWork \/ RoleWork \/ TokenWork \/ Restart
BY DEF Next, UserWork, RoleWork, TokenWork, UserRequest

\* The requests that a step may touch, before it and after it, are at P.
OnlyAt(P) ==
    \A s \in Requests :
        req'[s] = req[s] \/ (req[s].at \in P /\ req'[s].at \in P)

\* Edits of users: CreateUser, Register, DeleteUser, UpdateUser, UsersUpdate.
LEMMA UserFrame ==
    ASSUME TypeOK, UserWork
    PROVE  /\ TypeOK'
           /\ UNCHANGED <<roleVars, owner, uses, shared, leaky>> /\ live' \subseteq live
           /\ OnlyAt({"idle", "update"})
<1>1. UserTypes /\ RoleTypes /\ TokenTypes /\ RestTypes
  BY TypeParts
<1>2. ASSUME NEW u \in Users, NEW k \in Roles, CreateUser(u, k)
      PROVE  /\ UserTypes' /\ TokenTypes' /\ RestTypes'
             /\ UNCHANGED <<roleVars, tokenVars, req>>
  BY <1>1, <1>2, NilAssumption DEF CreateUser, UserTypes, TokenTypes, RestTypes, tokenVars
<1>3. ASSUME NEW u \in Users, DeleteUser(u)
      PROVE  /\ UserTypes' /\ TokenTypes' /\ RestTypes' /\ live' \subseteq live
             /\ UNCHANGED <<roleVars, owner, uses, shared, leaky, req>>
  BY <1>1, <1>3 DEF DeleteUser, UserTypes, TokenTypes, RestTypes
<1>4. ASSUME NEW u \in Users, NEW k \in Roles, NEW on, WriteUser(u, k, on),
             UNCHANGED tokenVars
      PROVE  /\ role' \in [Users -> Roles \cup {NoRole}] /\ enabled' \subseteq Users
             /\ TokenTypes'
  BY <1>1, <1>4, NilAssumption DEF WriteUser, Exists, UserTypes, TokenTypes, tokenVars
<1>5. ASSUME NEW u \in Users, NEW k \in Roles, NEW on, UsersUpdate(u, k, on)
      PROVE  /\ UserTypes' /\ TokenTypes' /\ RestTypes'
             /\ UNCHANGED <<roleVars, tokenVars, req>>
  BY <1>1, <1>4, <1>5 DEF UsersUpdate, UserTypes, RestTypes
<1>6. ASSUME NEW r \in Requests, NEW u \in Users, NEW k \in Roles \cup {NoRole},
             NEW b \in Asks, StartUpdate(r, u, k, b)
      PROVE  /\ UserTypes' /\ TokenTypes' /\ RestTypes'
             /\ UNCHANGED <<roleVars, tokenVars>> /\ OnlyAt({"idle", "update"})
  <2> DEFINE q == [at |-> "update", user |-> u,
                   role |-> IF k = NoRole THEN role[u] ELSE k,
                   on |-> b = "on" \/ (b = "keep" /\ u \in enabled),
                   asked |-> b # "keep"]
  <2>1. role[u] \in Roles
    BY <1>1, <1>6 DEF StartUpdate, Exists, UserTypes
  <2>2. q \in Update
    BY <2>1 DEF Update
  <2>3. q \in Record /\ q.at = "update"
    BY <2>2 DEF Record
  <2>4. req' = [req EXCEPT ![r] = q] /\ req[r] = Idle
    BY <1>6 DEF StartUpdate
  <2> HIDE DEF q
  <2>5. req' \in [Requests -> Record] /\ OnlyAt({"idle", "update"})
    BY <2>3, <2>4, PutRecord, IdleIsRecord DEF OnlyAt
  <2>6. UserTypes' /\ TokenTypes' /\ UNCHANGED <<roleVars, tokenVars, born>>
    BY <1>1, <1>6 DEF StartUpdate, UserTypes, TokenTypes, tokenVars
  <2> QED BY <1>1, <2>5, <2>6 DEF RestTypes
<1>7. ASSUME NEW r \in Requests, EndUpdate(r)
      PROVE  /\ UserTypes' /\ TokenTypes' /\ RestTypes'
             /\ UNCHANGED <<roleVars, tokenVars>> /\ OnlyAt({"idle", "update"})
  <2>1. req[r] \in Update /\ req[r].at = "update"
    BY <1>7, RequestShape DEF EndUpdate, At
  <2>2. req[r].user \in Users /\ req[r].role \in Roles
    BY <2>1 DEF Update
  <2>3. UserTypes' /\ TokenTypes' /\ UNCHANGED <<roleVars, tokenVars, born>>
    <3>1. CASE WriteUser(req[r].user, req[r].role, req[r].on)
      <4>1. UNCHANGED <<roleVars, tokenVars, born>> /\ off' \subseteq off \cup {req[r].user}
        BY <1>7 DEF EndUpdate, userVars
      <4>2. role' \in [Users -> Roles \cup {NoRole}] /\ enabled' \subseteq Users /\ TokenTypes'
        BY <1>4, <2>2, <3>1, <4>1
      <4> QED BY <1>1, <2>2, <4>1, <4>2 DEF UserTypes
    <3>2. CASE UNCHANGED userVars
      BY <1>1, <1>7, <3>2 DEF EndUpdate, userVars, tokenVars, UserTypes, TokenTypes
    <3> QED BY <1>7, <3>1, <3>2 DEF EndUpdate
  <2>4. req' \in [Requests -> Record] /\ OnlyAt({"idle", "update"})
    BY <1>7, <2>1, PutIdle, IdleIsRecord DEF EndUpdate, OnlyAt
  <2> QED BY <1>1, <2>3, <2>4 DEF RestTypes
<1>8. /\ UserTypes' /\ TokenTypes' /\ RestTypes' /\ live' \subseteq live
      /\ UNCHANGED <<roleVars, owner, uses, shared, leaky>>
      /\ OnlyAt({"idle", "update"})
  BY <1>2, <1>3, <1>5, <1>6, <1>7, SeedAssumption
  DEF UserWork, Register, OnlyAt, tokenVars
<1>9. RoleTypes'
  BY <1>1, <1>8 DEF RoleTypes, roleVars
<1> QED BY <1>8, <1>9, TypeParts DEF UserTypes, RoleTypes, TokenTypes, RestTypes, TypeOK, Record

\* Edits of roles and their permissions: CreateRole, UpdateRole, DeleteRole and
\* the transaction of SetRolePermissions.
LEMMA RoleFrame ==
    ASSUME TypeOK, RoleWork
    PROVE  /\ TypeOK' /\ UNCHANGED <<userVars, tokenVars>>
           /\ born \subseteq born' /\ OnlyAt({"idle", "fill", "tx"})
<1>1. UserTypes /\ RoleTypes /\ TokenTypes /\ RestTypes
  BY TypeParts
<1>2. ASSUME NEW k \in Roles, DeleteRole(k)
      PROVE  /\ RoleTypes' /\ RestTypes' /\ UNCHANGED <<userVars, tokenVars>>
             /\ born' = born /\ OnlyAt({"idle", "fill", "tx"})
  <2>1. ASSUME NEW s \in Requests, s \in Filling(k)
        PROVE  [req[s] EXCEPT !.seen = {}] \in Record
               /\ [req[s] EXCEPT !.seen = {}].at = "tx" /\ req[s].at = "tx"
    <3>1. req[s] \in Tx
      BY <2>1, RequestShape DEF Filling
    <3>2. [req[s] EXCEPT !.seen = {}] \in Tx
      BY <3>1 DEF Tx
    <3> QED BY <3>1, <3>2 DEF Tx, Record
  <2>2. req' = [s \in Requests |-> IF s \in Filling(k)
                   THEN [req[s] EXCEPT !.seen = {}] ELSE req[s]]
    BY <1>2 DEF DeleteRole
  <2>3. req' \in [Requests -> Record] /\ OnlyAt({"idle", "fill", "tx"})
    BY <1>1, <2>1, <2>2 DEF OnlyAt, RestTypes
  <2>4. RoleTypes' /\ UNCHANGED <<userVars, tokenVars, born>>
    BY <1>1, <1>2 DEF DeleteRole, RoleTypes
  <2> QED BY <1>1, <2>3, <2>4 DEF RestTypes
<1>3. ASSUME NEW r \in Requests, NEW q \in Record, q.at \in {"idle", "fill", "tx"},
             req[r].at \in {"idle", "fill", "tx"}, req' = [req EXCEPT ![r] = q]
      PROVE  req' \in [Requests -> Record] /\ OnlyAt({"idle", "fill", "tx"})
  BY <1>3, PutRecord DEF OnlyAt
<1>4. ASSUME NEW r \in Requests, NEW k \in Roles, RoleRequest(r, k)
      PROVE  /\ RoleTypes' /\ RestTypes' /\ UNCHANGED <<userVars, tokenVars>>
             /\ born \subseteq born' /\ OnlyAt({"idle", "fill", "tx"})
  <2>1. PICK P \in SUBSET Permissions : CreateRole(r, k, P) \/ UpdateRole(r, k, P)
    BY <1>4 DEF RoleRequest
  <2> DEFINE q == [at |-> "fill", role |-> k, new |-> P]
  <2>2. q \in Record /\ q.at = "fill"
    BY DEF Record, Fill
  <2>3. req[r] = Idle /\ (req' = [req EXCEPT ![r] = q] \/ req' = [req EXCEPT ![r] = Idle])
    BY <2>1 DEF CreateRole, UpdateRole
  <2> HIDE DEF q
  <2>4. req' \in [Requests -> Record] /\ OnlyAt({"idle", "fill", "tx"})
    BY <1>3, <2>2, <2>3, IdleIsRecord
  <2>5. /\ RoleTypes' /\ UNCHANGED <<userVars, tokenVars>>
        /\ born' \subseteq born \cup {k} /\ born \subseteq born'
    BY <1>1, <2>1 DEF CreateRole, UpdateRole, RoleTypes, roleVars
  <2> QED BY <1>1, <2>4, <2>5 DEF RestTypes
<1>5. ASSUME NEW r \in Requests, BeginReplace(r)
      PROVE  /\ RoleTypes' /\ RestTypes' /\ UNCHANGED <<userVars, tokenVars>>
             /\ born' = born /\ OnlyAt({"idle", "fill", "tx"})
  <2> DEFINE k == req[r].role
             q == [at |-> "tx", role |-> k, new |-> req[r].new,
                   seen |-> perms[k], alone |-> Filling(k) = {}]
  <2>1. req[r] \in Fill /\ req[r].at = "fill"
    BY <1>5, RequestShape DEF BeginReplace, At
  <2>2. k \in Roles /\ q \in Record /\ q.at = "tx"
    BY <1>1, <2>1 DEF Fill, Tx, Record, RoleTypes
  <2>3. ASSUME NEW s \in Requests, s \in Filling(k)
        PROVE  [req[s] EXCEPT !.alone = FALSE] \in Record
               /\ [req[s] EXCEPT !.alone = FALSE].at = "tx" /\ req[s].at = "tx"
    <3>1. req[s] \in Tx
      BY <2>3, RequestShape DEF Filling
    <3>2. [req[s] EXCEPT !.alone = FALSE] \in Tx
      BY <3>1 DEF Tx
    <3> QED BY <3>1, <3>2 DEF Tx, Record
  <2>4. /\ req' = [s \in Requests |-> IF s = r THEN q
                      ELSE IF s \in Filling(k) THEN [req[s] EXCEPT !.alone = FALSE]
                      ELSE req[s]]
        /\ UNCHANGED <<userVars, roleVars, tokenVars, born>>
    BY <1>5 DEF BeginReplace
  <2> HIDE DEF q, k
  <2>5. req' \in [Requests -> Record] /\ OnlyAt({"idle", "fill", "tx"})
    BY <1>1, <2>1, <2>2, <2>3, <2>4 DEF OnlyAt, RestTypes
  <2> QED BY <1>1, <2>4, <2>5 DEF RestTypes, RoleTypes, roleVars
<1>6. ASSUME NEW r \in Requests, Commit(r)
      PROVE  /\ RoleTypes' /\ RestTypes' /\ UNCHANGED <<userVars, tokenVars>>
             /\ born' = born /\ OnlyAt({"idle", "fill", "tx"})
  <2> DEFINE k == req[r].role
             seen == req[r].seen
             new == req[r].new
  <2>1. req[r] \in Tx /\ req[r].at = "tx" /\ k \in Roles /\ new \subseteq Permissions
    BY <1>6, RequestShape DEF Commit, At, Tx
  <2>2. ASSUME NEW s \in Requests, s \in Filling(k)
        PROVE  [req[s] EXCEPT !.seen = @ \ seen] \in Record
               /\ [req[s] EXCEPT !.seen = @ \ seen].at = "tx" /\ req[s].at = "tx"
    <3>1. req[s] \in Tx
      BY <2>2, RequestShape DEF Filling
    <3>2. [req[s] EXCEPT !.seen = @ \ seen] \in Tx
      BY <3>1 DEF Tx
    <3> QED BY <3>1, <3>2 DEF Tx, Record
  <2>3. /\ req' = [s \in Requests |-> IF s = r THEN Idle
                      ELSE IF s \in Filling(k) THEN [req[s] EXCEPT !.seen = @ \ seen]
                      ELSE req[s]]
        /\ perms' = [perms EXCEPT ![k] = (perms[k] \ seen) \cup new]
        /\ last' = [last EXCEPT ![k] = IF req[r].alone THEN new
                                       ELSE (perms[k] \ seen) \cup new]
        /\ UNCHANGED <<userVars, roles, tokenVars, born>>
    BY <1>6 DEF Commit
  <2> HIDE DEF k, seen, new
  <2>4. req' \in [Requests -> Record] /\ OnlyAt({"idle", "fill", "tx"})
    BY <1>1, <2>1, <2>2, <2>3, IdleIsRecord DEF OnlyAt, RestTypes
  <2>5. RoleTypes'
    BY <1>1, <2>1, <2>3 DEF RoleTypes
  <2> QED BY <1>1, <2>3, <2>4, <2>5 DEF RestTypes
<1>7. ASSUME NEW r \in Requests, Rollback(r)
      PROVE  /\ RoleTypes' /\ RestTypes' /\ UNCHANGED <<userVars, tokenVars>>
             /\ born' = born /\ OnlyAt({"idle", "fill", "tx"})
  <2>1. req' \in [Requests -> Record] /\ OnlyAt({"idle", "fill", "tx"})
    BY <1>3, <1>7, IdleIsRecord DEF Rollback, Answer, At
  <2> QED BY <1>1, <1>7, <2>1 DEF Rollback, RoleTypes, RestTypes, roleVars
<1>8. /\ RoleTypes' /\ RestTypes' /\ UNCHANGED <<userVars, tokenVars>>
      /\ born \subseteq born' /\ OnlyAt({"idle", "fill", "tx"})
  BY <1>2, <1>4, <1>5, <1>6, <1>7 DEF RoleWork
<1>9. UserTypes' /\ TokenTypes'
  BY <1>1, <1>8 DEF UserTypes, TokenTypes, userVars, tokenVars
<1> QED BY <1>8, <1>9 DEF UserTypes, RoleTypes, TokenTypes, RestTypes, TypeOK, Record

TokenPlaces == {"idle", "mark", "insert", "write", "used"}

\* Password resets: CreateResetToken, ResetPassword and the hour of a token.
LEMMA TokenFrame ==
    ASSUME TypeOK, TokenWork
    PROVE  TypeOK' /\ UNCHANGED <<userVars, roleVars, born>> /\ OnlyAt(TokenPlaces)
<1>1. UserTypes /\ RoleTypes /\ TokenTypes /\ RestTypes
  BY TypeParts
<1>2. ASSUME NEW r \in Requests, NEW q \in Record, q.at \in TokenPlaces,
             req[r].at \in TokenPlaces, req' = [req EXCEPT ![r] = q]
      PROVE  req' \in [Requests -> Record] /\ OnlyAt(TokenPlaces)
  BY <1>2, PutRecord DEF OnlyAt
<1>3. ASSUME NEW r \in Requests, Answer(r), req[r].at \in TokenPlaces
      PROVE  req' \in [Requests -> Record] /\ OnlyAt(TokenPlaces)
  BY <1>2, <1>3, IdleIsRecord DEF Answer, TokenPlaces
<1>4. ASSUME NEW T \in SUBSET Tokens, Excuse(T)
      PROVE  uses' \in [Tokens -> Nat] /\ shared' \subseteq Tokens
  BY <1>1, <1>4 DEF Excuse, TokenTypes
<1>5. ASSUME NEW r \in Requests, NEW u \in Users, StartForgot(r, u)
      PROVE  /\ TokenTypes' /\ UNCHANGED <<userVars, roleVars, born>>
             /\ req' \in [Requests -> Record] /\ OnlyAt(TokenPlaces)
  <2> DEFINE q == [at |-> "mark", user |-> u]
  <2>1. q \in Record /\ q.at = "mark"
    BY DEF Record, Forgot
  <2>2. req[r].at = "idle" /\ req' = [req EXCEPT ![r] = q]
    BY <1>5, IdleIsRecord DEF StartForgot
  <2> HIDE DEF q
  <2>3. req' \in [Requests -> Record] /\ OnlyAt(TokenPlaces)
    BY <1>2, <2>1, <2>2 DEF TokenPlaces
  <2> QED BY <1>1, <1>5, <2>3 DEF StartForgot, TokenTypes, tokenVars, userVars
<1>6. ASSUME NEW r \in Requests, InvalidateTokens(r)
      PROVE  /\ TokenTypes' /\ UNCHANGED <<userVars, roleVars, born>>
             /\ req' \in [Requests -> Record] /\ OnlyAt(TokenPlaces)
  <2> DEFINE q == [req[r] EXCEPT !.at = "insert"]
  <2>1. req[r] \in Forgot /\ req[r].at = "mark" /\ req[r].user \in Users
    BY <1>6, RequestShape DEF InvalidateTokens, At, Forgot
  <2>2. q \in Forgot /\ q.at = "insert"
    BY <2>1 DEF Forgot
  <2>3. q \in Record /\ req' = [req EXCEPT ![r] = q]
    BY <1>6, <2>2 DEF Record, InvalidateTokens
  <2> HIDE DEF q
  <2>4. req' \in [Requests -> Record] /\ OnlyAt(TokenPlaces)
    BY <1>2, <2>1, <2>2, <2>3 DEF TokenPlaces
  <2> QED BY <1>1, <1>6, <2>1, <2>4 DEF InvalidateTokens, TokenTypes, userVars
<1>7. ASSUME NEW r \in Requests, InsertToken(r)
      PROVE  /\ TokenTypes' /\ UNCHANGED <<userVars, roleVars, born>>
             /\ req' \in [Requests -> Record] /\ OnlyAt(TokenPlaces)
  <2>1. req[r].at = "insert" /\ req[r].user \in Users
    BY <1>7, RequestShape DEF InsertToken, At, Forgot
  <2>2. req' \in [Requests -> Record] /\ OnlyAt(TokenPlaces)
    BY <1>3, <1>7, <2>1 DEF InsertToken, TokenPlaces
  <2> QED BY <1>1, <1>7, <2>1, <2>2, NilAssumption
          DEF InsertToken, TokenTypes, Exists, userVars
<1>8. ASSUME NEW r \in Requests, NEW t \in Tokens, CheckToken(r, t)
      PROVE  /\ TokenTypes' /\ UNCHANGED <<userVars, roleVars, born>>
             /\ req' \in [Requests -> Record] /\ OnlyAt(TokenPlaces)
  <2> DEFINE q == [at |-> "write", token |-> t]
             T == {t} \cap {req[s].token : s \in Resetting}
  <2>1. q \in Record /\ q.at = "write"
    BY DEF Record, Reset
  <2>2. req[r].at = "idle" /\ req' = [req EXCEPT ![r] = q] /\ Excuse(T)
    BY <1>8, IdleIsRecord DEF CheckToken
  <2>3. T \in SUBSET Tokens
    OBVIOUS
  <2> HIDE DEF q, T
  <2>4. req' \in [Requests -> Record] /\ OnlyAt(TokenPlaces)
    BY <1>2, <2>1, <2>2 DEF TokenPlaces
  <2>5. uses' \in [Tokens -> Nat] /\ shared' \subseteq Tokens
    BY <1>4, <2>2, <2>3
  <2> QED BY <1>1, <1>8, <2>4, <2>5 DEF CheckToken, TokenTypes, userVars
<1>9. ASSUME NEW r \in Requests, WritePassword(r)
      PROVE  /\ TokenTypes' /\ UNCHANGED <<userVars, roleVars, born>>
             /\ req' \in [Requests -> Record] /\ OnlyAt(TokenPlaces)
  <2> DEFINE q == [req[r] EXCEPT !.at = "used"]
  <2>1. req[r] \in Reset /\ req[r].at = "write"
    BY <1>9, RequestShape DEF WritePassword, At
  <2>2. q \in Reset /\ q.at = "used"
    BY <2>1 DEF Reset
  <2>3. q \in Record /\ (req' = [req EXCEPT ![r] = q] \/ Answer(r))
    BY <1>9, <2>2 DEF Record, WritePassword
  <2> HIDE DEF q
  <2>4. req' \in [Requests -> Record] /\ OnlyAt(TokenPlaces)
    BY <1>2, <1>3, <2>1, <2>2, <2>3 DEF TokenPlaces
  <2> QED BY <1>1, <1>9, <2>4 DEF WritePassword, TokenTypes, userVars
<1>10. ASSUME NEW r \in Requests, MarkUsed(r)
      PROVE  /\ TokenTypes' /\ UNCHANGED <<userVars, roleVars, born>>
             /\ req' \in [Requests -> Record] /\ OnlyAt(TokenPlaces)
  <2>1. req[r].at = "used" /\ {req[r].token} \in SUBSET Tokens
    BY <1>10, RequestShape DEF MarkUsed, At, Reset
  <2>2. req' \in [Requests -> Record] /\ OnlyAt(TokenPlaces)
    BY <1>3, <1>10, <2>1 DEF MarkUsed, TokenPlaces
  <2>3. uses' \in [Tokens -> Nat] /\ shared' \subseteq Tokens
    BY <1>1, <1>4, <1>10, <2>1 DEF MarkUsed, TokenTypes
  <2> QED BY <1>1, <1>10, <2>2, <2>3 DEF MarkUsed, TokenTypes, userVars
<1>11. ASSUME NEW t \in Tokens, Expire(t)
      PROVE  /\ TokenTypes' /\ UNCHANGED <<userVars, roleVars, born>>
             /\ req' \in [Requests -> Record] /\ OnlyAt(TokenPlaces)
  BY <1>1, <1>11 DEF Expire, TokenTypes, RestTypes, OnlyAt, userVars
<1>12. /\ TokenTypes' /\ UNCHANGED <<userVars, roleVars, born>>
       /\ req' \in [Requests -> Record] /\ OnlyAt(TokenPlaces)
  BY <1>5, <1>6, <1>7, <1>8, <1>9, <1>10, <1>11
  DEF TokenWork, ForgotRequest, ResetRequest
<1>13. UserTypes' /\ RoleTypes' /\ RestTypes'
  BY <1>1, <1>12 DEF UserTypes, RoleTypes, RestTypes, userVars, roleVars
<1> QED BY <1>12, <1>13 DEF UserTypes, RoleTypes, TokenTypes, RestTypes, TypeOK, Record

\* A restart ends every request.
LEMMA RestartFrame ==
    ASSUME TypeOK, Restart
    PROVE  /\ TypeOK' /\ UNCHANGED <<userVars, roles, owner, live, leaky, born>>
           /\ \A r \in Requests : req'[r] = Idle
<1>1. UserTypes /\ RoleTypes /\ TokenTypes /\ RestTypes
  BY TypeParts
<1>2. /\ UNCHANGED <<userVars, roles, owner, live, leaky, born>>
      /\ req' = [r \in Requests |-> Idle]
  BY DEF Restart
<1>3. {req[r].token : r \in {q \in Requests : At(q, "used")}} \subseteq Tokens
  BY RequestShape DEF Reset
<1>4. TokenTypes'
  <2>1. uses' \in [Tokens -> Nat] /\ shared' \subseteq Tokens
    BY <1>1, <1>3 DEF Restart, Excuse, TokenTypes
  <2> QED BY <1>1, <1>2, <2>1 DEF TokenTypes, userVars
<1>5. RoleTypes'
  <2>1. \A k \in Roles : Seeded(k) \subseteq Permissions
    BY SeedAssumption DEF Seeded
  <2>2. perms' = [k \in Roles |-> perms[k] \cup Seeded(k)]
        /\ last' = [k \in Roles |-> IF k \in BuiltIn THEN perms'[k] ELSE last[k]]
    BY DEF Restart
  <2>3. perms' \in [Roles -> SUBSET Permissions]
    BY <1>1, <2>1, <2>2 DEF RoleTypes
  <2> QED BY <1>1, <1>2, <2>2, <2>3 DEF RoleTypes
<1>6. UserTypes' /\ RestTypes'
  BY <1>1, <1>2, IdleIsRecord DEF UserTypes, RestTypes, userVars
<1> QED BY <1>2, <1>4, <1>5, <1>6
        DEF UserTypes, RoleTypes, TokenTypes, RestTypes, TypeOK, Record

LEMMA InitTypes == Init => TypeOK
BY NilAssumption, SeedAssumption, IdleIsRecord
DEF Init, TypeOK, Seeded, Record

\* Every step keeps the types.
LEMMA StepTypes == TypeOK /\ [Next]_vars => TypeOK'
<1>1. TypeOK /\ UNCHANGED vars => TypeOK'
  BY DEF vars, TypeOK
<1> QED BY <1>1, NextIsWork, UserFrame, RoleFrame, TokenFrame, RestartFrame

\* Every variable keeps its type: in particular a good token always has a user
\* who exists, whatever deletions and resets overlap (DeleteUser,
\* CreateResetToken and the foreign key between their tables).
THEOREM AccessTypes == Spec => []TypeOK
BY InitTypes, StepTypes, PTL DEF Spec

-----------------------------------------------------------------------------
(* Who is disabled stays disabled *)

\* A user counted as disabled exists, and every update of the user in flight
\* is going to write FALSE.
OffInv ==
    /\ \A u \in Users : role[u] # NoRole => u \in born
    /\ \A u \in off : role[u] # NoRole /\ u \notin enabled
    /\ \A u \in off, r \in Requests :
          req[r].at = "update" /\ req[r].user = u => ~req[r].on

\* What UPDATE app_user makes of the columns.
LEMMA WrittenUser ==
    ASSUME UserTypes, NEW u \in Users, NEW k \in Roles, NEW on \in BOOLEAN,
           WriteUser(u, k, on)
    PROVE  /\ \A v \in Users : role'[v] # NoRole <=> role[v] # NoRole
           /\ enabled' \subseteq enabled \cup {u}
           /\ u \in enabled' => on
BY NilAssumption DEF UserTypes, WriteUser, Exists

\* Steps that write no user and start no update keep OffInv.
LEMMA OffElsewhere ==
    ASSUME OffInv, UNCHANGED userVars, born \subseteq born',
           \A s \in Requests : req'[s].at = "update" => req'[s] = req[s]
    PROVE  OffInv'
BY DEF OffInv, userVars

LEMMA StepOff == TypeOK /\ OffInv /\ [Next]_vars => OffInv'
<1> SUFFICES ASSUME TypeOK, OffInv, [Next]_vars PROVE OffInv'
  OBVIOUS
<1>1. UserTypes /\ off \subseteq Users
  BY TypeParts DEF UserTypes
<1>2. ASSUME NEW u \in Users, NEW k \in Roles, CreateUser(u, k) PROVE OffInv'
  <2>1. u \notin off
    BY <1>1, <1>2 DEF CreateUser, OffInv
  <2>2. /\ role' = [role EXCEPT ![u] = k] /\ enabled' = enabled \cup {u}
        /\ born' = born \cup {u} /\ off' = off /\ req' = req
    BY <1>2 DEF CreateUser
  <2>3. \A v \in Users : v # u => role'[v] = role[v]
    BY <1>1, <2>2 DEF UserTypes
  <2> QED BY <1>1, <2>1, <2>2, <2>3 DEF OffInv
<1>3. ASSUME NEW u \in Users, DeleteUser(u) PROVE OffInv'
  <2>1. /\ role' = [role EXCEPT ![u] = NoRole] /\ enabled' = enabled \ {u}
        /\ born' = born /\ off' = off \ {u} /\ req' = req
    BY <1>3 DEF DeleteUser
  <2>2. \A v \in Users : role'[v] = IF v = u THEN NoRole ELSE role[v]
    BY <1>1, <2>1 DEF UserTypes
  <2> QED BY <1>1, <2>1, <2>2 DEF OffInv
<1>4. ASSUME NEW u \in Users, NEW k \in Roles, NEW on \in BOOLEAN, UsersUpdate(u, k, on)
      PROVE  OffInv'
  <2>1. /\ \A v \in Users : role'[v] # NoRole <=> role[v] # NoRole
        /\ enabled' \subseteq enabled \cup {u} /\ (u \in enabled' => on)
    BY <1>1, <1>4, WrittenUser DEF UsersUpdate
  <2>2. role[u] # NoRole /\ born' = born /\ req' = req
    BY <1>4 DEF UsersUpdate, Exists
  <2>3. /\ off' = IF on THEN off \ {u}
                  ELSE IF Updating(u) = {} THEN off \cup {u} ELSE off
    BY <1>4 DEF UsersUpdate
  <2>4. Updating(u) = {} => \A r \in Requests : ~(req[r].at = "update" /\ req[r].user = u)
    BY DEF Updating, At
  <2> QED BY <1>1, <2>1, <2>2, <2>3, <2>4 DEF OffInv
<1>5. ASSUME NEW r \in Requests, NEW u \in Users, NEW k \in Roles \cup {NoRole},
             NEW b \in Asks, StartUpdate(r, u, k, b)
      PROVE  OffInv'
  <2>1. /\ \A s \in Requests : s # r => req'[s] = req[s]
        /\ req'[r].user = u
        /\ ~(b = "on" \/ (b = "keep" /\ u \in enabled)) => ~req'[r].on
    BY <1>5 DEF StartUpdate, TypeOK
  <2>2. /\ UNCHANGED <<role, enabled, born>> /\ off' = IF b = "on" THEN off \ {u} ELSE off
    BY <1>5 DEF StartUpdate
  <2>3. u \in off' => ~req'[r].on
    BY <2>1, <2>2 DEF OffInv
  <2>4. off' \subseteq off
    BY <2>2
  <2> QED BY <1>1, <2>1, <2>2, <2>3, <2>4 DEF OffInv
<1>6. ASSUME NEW r \in Requests, EndUpdate(r) PROVE OffInv'
  <2> DEFINE u == req[r].user
             on == req[r].on
  <2>1. u \in Users /\ req[r].role \in Roles /\ on \in BOOLEAN /\ At(r, "update")
    BY <1>6, RequestShape DEF EndUpdate, Update
  <2>2. /\ \A s \in Requests : s # r => req'[s] = req[s]
        /\ req'[r].at = "idle" /\ born' = born
    BY <1>6, PutIdle, IdleIsRecord DEF EndUpdate
  <2>3. CASE UNCHANGED userVars
    BY <2>2, <2>3, OffElsewhere
  <2>4. CASE /\ WriteUser(u, req[r].role, on)
             /\ off' = IF req[r].asked /\ ~on /\ Updating(u) = {r} /\ Exists(u)
                       THEN off \cup {u} ELSE off
    <3>1. /\ \A v \in Users : role'[v] # NoRole <=> role[v] # NoRole
          /\ enabled' \subseteq enabled \cup {u} /\ (u \in enabled' => on)
      BY <1>1, <2>1, <2>4, WrittenUser
    <3>2. u \in off => ~on
      BY <2>1 DEF OffInv, At
    <3>3. Updating(u) = {r}
             => \A s \in Requests : req[s].at = "update" /\ req[s].user = u => s = r
      BY DEF Updating, At
    <3>4. \/ off' = off
          \/ /\ off' = off \cup {u} /\ ~on /\ role[u] # NoRole
             /\ \A s \in Requests : req[s].at = "update" /\ req[s].user = u => s = r
      BY <2>4, <3>3 DEF Exists
    <3> HIDE DEF u, on
    <3> QED BY <1>1, <2>1, <2>2, <3>1, <3>2, <3>4 DEF OffInv
  <2> QED BY <1>6, <2>3, <2>4 DEF EndUpdate
<1>7. CASE UserWork
  <2>1. UserRole \in Roles
    BY SeedAssumption
  <2> QED BY <1>2, <1>3, <1>4, <1>5, <1>6, <1>7, <2>1 DEF UserWork, Register
<1>8. CASE RoleWork
  BY <1>8, RoleFrame, OffElsewhere DEF OnlyAt
<1>9. CASE TokenWork
  BY <1>9, TokenFrame, OffElsewhere DEF OnlyAt, TokenPlaces
<1>10. CASE Restart
  BY <1>10, RestartFrame, OffElsewhere, IdleIsRecord
<1>11. CASE UNCHANGED vars
  BY <1>11, OffElsewhere DEF vars, userVars
<1> QED BY <1>7, <1>8, <1>9, <1>10, <1>11, NextIsWork

\* A user disabled while no other update of the user was in flight stays so
\* until a request asks for the opposite (UpdateUser reads the row and writes
\* it back whole, UsersUpdate writes the form).
THEOREM DisabledForGood == Spec => []DisabledStays
<1>1. Init => TypeOK /\ OffInv
  BY InitTypes DEF Init, OffInv
<1>2. TypeOK /\ OffInv /\ [Next]_vars => (TypeOK /\ OffInv)'
  BY StepTypes, StepOff
<1>3. OffInv => DisabledStays
  BY DEF OffInv, DisabledStays
<1> QED BY <1>1, <1>2, <1>3, PTL DEF Spec

-----------------------------------------------------------------------------
(* A role has the permissions that were asked for *)

\* The transaction that is alone on its role sees every permission of it.
AloneSeesAll ==
    \A r \in Requests : req[r].at = "tx" /\ req[r].alone =>
        /\ perms[req[r].role] \subseteq req[r].seen
        /\ \A s \in Requests : req[s].at = "tx" /\ req[s].role = req[r].role => s = r

\* Only rows of role have permissions, and the built-in roles are there.
PermsInv ==
    /\ BuiltIn \subseteq roles
    /\ \A k \in Roles : perms[k] = last[k]
    /\ \A k \in Roles \ roles : perms[k] = {}
    /\ AloneSeesAll

\* Steps that leave roles and transactions alone keep PermsInv.
LEMMA PermsElsewhere ==
    ASSUME PermsInv, UNCHANGED roleVars,
           \A s \in Requests : req'[s].at = "tx" => req'[s] = req[s]
    PROVE  PermsInv'
BY DEF PermsInv, AloneSeesAll, roleVars

LEMMA StepPerms == TypeOK /\ PermsInv /\ [Next]_vars => PermsInv'
<1> SUFFICES ASSUME TypeOK, PermsInv, [Next]_vars PROVE PermsInv'
  OBVIOUS
<1>1. RoleTypes
  BY TypeParts
<1>2. ASSUME NEW k \in Roles, DeleteRole(k) PROVE PermsInv'
  <2>1. ASSUME NEW s \in Requests
        PROVE  /\ req'[s].at = req[s].at
               /\ req[s].at = "tx" => /\ req'[s].role = req[s].role
                                      /\ req'[s].alone = req[s].alone
               /\ req[s].at = "tx" /\ req[s].role # k => req'[s] = req[s]
    <3>1. req'[s] = IF s \in Filling(k) THEN [req[s] EXCEPT !.seen = {}] ELSE req[s]
      BY <1>2 DEF DeleteRole
    <3>2. s \in Filling(k) <=> req[s].at = "tx" /\ req[s].role = k
      BY DEF Filling, At
    <3>3. req[s].at = "tx" => req[s] \in Tx
      BY RequestShape DEF At
    <3> QED BY <3>1, <3>2, <3>3 DEF Tx
  <2>2. /\ roles' = roles \ {k} /\ k \notin BuiltIn
        /\ \A j \in Roles : perms'[j] = IF j = k THEN {} ELSE perms[j]
        /\ \A j \in Roles : last'[j] = IF j = k THEN {} ELSE last[j]
    BY <1>1, <1>2 DEF DeleteRole, RoleTypes
  <2>3. ASSUME NEW r \in Requests, req'[r].at = "tx", req'[r].alone
        PROVE  /\ perms'[req'[r].role] \subseteq req'[r].seen
               /\ \A s \in Requests : req'[s].at = "tx" /\ req'[s].role = req'[r].role
                                          => s = r
    <3>1. req[r] \in Tx
      BY <2>1, <2>3, RequestShape DEF At
    <3>2. req[r].role \in Roles
      BY <3>1 DEF Tx
    <3>3. req[r].at = "tx" /\ req[r].alone /\ req'[r].role = req[r].role
      BY <2>1, <2>3
    <3> QED BY <2>1, <2>2, <3>2, <3>3 DEF PermsInv, AloneSeesAll
  <2>4. AloneSeesAll'
    BY <2>3 DEF AloneSeesAll
  <2> QED BY <2>2, <2>4 DEF PermsInv
<1>3. ASSUME NEW r \in Requests, NEW k \in Roles, RoleRequest(r, k) PROVE PermsInv'
  <2>1. /\ perms' = perms /\ last' = last /\ roles \subseteq roles'
        /\ \A s \in Requests : s # r => req'[s] = req[s]
        /\ req'[r].at \in {"idle", "fill"}
    BY <1>3, IdleIsRecord DEF RoleRequest, CreateRole, UpdateRole, TypeOK, roleVars
  <2> QED BY <2>1 DEF PermsInv, AloneSeesAll
<1>4. ASSUME NEW r \in Requests, BeginReplace(r) PROVE PermsInv'
  <2> DEFINE k == req[r].role
             q == [at |-> "tx", role |-> k, new |-> req[r].new,
                   seen |-> perms[k], alone |-> Filling(k) = {}]
  <2>1. req'[r] = q /\ req[r].at = "fill"
    BY <1>4 DEF BeginReplace, At
  <2>2. q.role = k /\ q.seen = perms[k] /\ (q.alone => Filling(k) = {})
    OBVIOUS
  <2>3. ASSUME NEW s \in Requests, s # r
        PROVE  /\ req'[s].at = req[s].at
               /\ req[s].at = "tx" => req'[s].role = req[s].role
               /\ req[s].at = "tx" /\ req[s].role = k => ~req'[s].alone
               /\ req[s].at = "tx" /\ req[s].role # k => req'[s] = req[s]
    <3>1. req'[s] = IF s \in Filling(k) THEN [req[s] EXCEPT !.alone = FALSE] ELSE req[s]
      BY <1>4, <2>3 DEF BeginReplace
    <3>2. s \in Filling(k) <=> req[s].at = "tx" /\ req[s].role = k
      BY DEF Filling, At
    <3>3. req[s].at = "tx" => req[s] \in Tx
      BY RequestShape DEF At
    <3> QED BY <3>1, <3>2, <3>3 DEF Tx
  <2>4. Filling(k) = {} => \A s \in Requests : ~(req[s].at = "tx" /\ req[s].role = k)
    BY DEF Filling, At
  <2>5. UNCHANGED <<roles, perms, last>>
    BY <1>4 DEF BeginReplace, roleVars
  <2> HIDE DEF k, q
  <2>6. ASSUME NEW z \in Requests, req'[z].at = "tx", req'[z].alone
        PROVE  /\ perms'[req'[z].role] \subseteq req'[z].seen
               /\ \A s \in Requests : req'[s].at = "tx" /\ req'[s].role = req'[z].role
                                          => s = z
    <3>1. CASE z = r
      BY <2>1, <2>2, <2>3, <2>4, <2>5, <2>6, <3>1
    <3>2. CASE z # r
      <4>1. req'[z] = req[z] /\ req[z].role # k
        BY <2>3, <2>6, <3>2
      <4> QED BY <2>1, <2>2, <2>3, <2>5, <2>6, <3>2, <4>1 DEF PermsInv, AloneSeesAll
    <3> QED BY <3>1, <3>2
  <2>7. AloneSeesAll'
    BY <2>6 DEF AloneSeesAll
  <2> QED BY <2>5, <2>7 DEF PermsInv
<1>5. ASSUME NEW r \in Requests, Commit(r) PROVE PermsInv'
  <2> DEFINE k == req[r].role
             kept == perms[k] \ req[r].seen
             new == req[r].new
  <2>1. req[r].at = "tx" /\ k \in Roles
    BY <1>5, RequestShape DEF Commit, At, Tx
  <2>2. /\ new \cap kept = {} /\ (k \in roles \/ new = {})
        /\ \A j \in Roles : perms'[j] = IF j = k THEN kept \cup new ELSE perms[j]
        /\ \A j \in Roles : last'[j] = IF j # k THEN last[j]
                               ELSE IF req[r].alone THEN new ELSE kept \cup new
        /\ roles' = roles /\ req'[r] = Idle
    BY <1>1, <1>5, <2>1 DEF Commit, RoleTypes
  <2>3. req[r].alone => kept = {}
    BY <2>1 DEF PermsInv, AloneSeesAll
  <2>4. k \notin roles => kept \cup new = {}
    BY <2>1, <2>2 DEF PermsInv
  <2>5. ASSUME NEW s \in Requests, s # r
        PROVE  /\ req'[s].at = req[s].at
               /\ req[s].at = "tx" => /\ req'[s].role = req[s].role
                                      /\ req'[s].alone = req[s].alone
               /\ req[s].at = "tx" /\ req[s].role # k => req'[s] = req[s]
    <3>1. req'[s] = IF s \in Filling(k) THEN [req[s] EXCEPT !.seen = @ \ req[r].seen]
                    ELSE req[s]
      BY <1>5, <2>5 DEF Commit
    <3>2. s \in Filling(k) <=> req[s].at = "tx" /\ req[s].role = k
      BY DEF Filling, At
    <3>3. req[s].at = "tx" => req[s] \in Tx
      BY RequestShape DEF At
    <3> QED BY <3>1, <3>2, <3>3 DEF Tx
  <2>6. ASSUME NEW z \in Requests, req'[z].at = "tx", req'[z].alone
        PROVE  /\ perms'[req'[z].role] \subseteq req'[z].seen
               /\ \A s \in Requests : req'[s].at = "tx" /\ req'[s].role = req'[z].role
                                          => s = z
    <3>1. z # r /\ req'[r].at = "idle"
      BY <2>2, <2>6, IdleIsRecord
    <3>2. req[z].at = "tx" /\ req[z].alone
      BY <2>5, <2>6, <3>1
    <3>3. req[z].role # k /\ req[z].role \in Roles
      BY <2>1, <3>1, <3>2, RequestShape DEF PermsInv, AloneSeesAll, At, Tx
    <3>4. req'[z] = req[z] /\ perms'[req[z].role] = perms[req[z].role]
      BY <2>2, <2>5, <3>1, <3>2, <3>3
    <3> HIDE DEF k, kept, new
    <3> QED BY <2>5, <3>1, <3>2, <3>4 DEF PermsInv, AloneSeesAll
  <2> HIDE DEF k, kept, new
  <2>7. AloneSeesAll'
    BY <2>6 DEF AloneSeesAll
  <2>8. \A j \in Roles : perms'[j] = last'[j]
    BY <2>2, <2>3 DEF PermsInv
  <2>9. \A j \in Roles \ roles' : perms'[j] = {}
    BY <2>2, <2>4 DEF PermsInv
  <2> QED BY <2>2, <2>7, <2>8, <2>9 DEF PermsInv
<1>6. ASSUME NEW r \in Requests, Rollback(r) PROVE PermsInv'
  <2>1. req'[r].at = "idle" /\ \A s \in Requests : s # r => req'[s] = req[s]
    BY <1>6, PutIdle, IdleIsRecord DEF Rollback
  <2> QED BY <1>6, <2>1, PermsElsewhere DEF Rollback
<1>7. CASE RoleWork
  BY <1>2, <1>3, <1>4, <1>5, <1>6, <1>7 DEF RoleWork
<1>8. CASE UserWork
  BY <1>8, UserFrame, PermsElsewhere DEF OnlyAt
<1>9. CASE TokenWork
  BY <1>9, TokenFrame, PermsElsewhere DEF OnlyAt, TokenPlaces
<1>10. CASE Restart
  <2>1. /\ roles' = roles /\ \A r \in Requests : req'[r].at # "tx"
    BY <1>10, RestartFrame, IdleIsRecord
  <2>2. \A k \in Roles : Seeded(k) # {} => k \in BuiltIn
    BY DEF Seeded
  <2>3. perms' = [k \in Roles |-> perms[k] \cup Seeded(k)]
        /\ last' = [k \in Roles |-> IF k \in BuiltIn THEN perms'[k] ELSE last[k]]
    BY <1>10 DEF Restart
  <2> QED BY <2>1, <2>2, <2>3 DEF PermsInv, AloneSeesAll
<1>11. CASE UNCHANGED vars
  BY <1>11, PermsElsewhere DEF vars, roleVars
<1> QED BY <1>7, <1>8, <1>9, <1>10, <1>11, NextIsWork

\* A role has the permissions of the last request on it, unless it overlapped
\* with another one (SetRolePermissions replaces them in one transaction, which
\* removes every row when no other is open on the role).
THEOREM RolesAsAsked == Spec => []PermissionsReplaced
<1>1. Init => TypeOK /\ PermsInv
  <2> SUFFICES ASSUME Init PROVE PermsInv
    BY InitTypes
  <2>1. \A r \in Requests : req[r].at = "idle"
    BY IdleIsRecord DEF Init
  <2>2. roles = BuiltIn /\ perms = [k \in Roles |-> Seeded(k)] /\ last = perms
    BY DEF Init
  <2>3. \A k \in Roles \ BuiltIn : Seeded(k) = {}
    BY DEF Seeded
  <2> QED BY <2>1, <2>2, <2>3 DEF PermsInv, AloneSeesAll
<1>2. TypeOK /\ PermsInv /\ [Next]_vars => (TypeOK /\ PermsInv)'
  BY StepTypes, StepPerms
<1>3. TypeOK /\ PermsInv => PermissionsReplaced
  BY DEF TypeOK, PermsInv, PermissionsReplaced
<1> QED BY <1>1, <1>2, <1>3, PTL DEF Spec

-----------------------------------------------------------------------------
(* One good token *)

\* A user whose old tokens went has one good token, or none and at most one
\* request about to store one.
OneInv ==
    \A u \in Users \ leaky :
        /\ \A t1 \in live, t2 \in live : owner[t1] = u /\ owner[t2] = u => t1 = t2
        /\ \A r \in Requests : req[r].at = "insert" /\ req[r].user = u =>
              /\ \A t \in live : owner[t] # u
              /\ \A s \in Requests : req[s].at = "insert" /\ req[s].user = u => s = r

\* Steps that store no token and take no request to or from "insert" keep it.
LEMMA OneElsewhere ==
    ASSUME OneInv, UNCHANGED <<owner, leaky>>, live' \subseteq live,
           \A s \in Requests : req'[s].at = "insert" => req'[s] = req[s]
    PROVE  OneInv'
BY DEF OneInv

LEMMA StepOne == TypeOK /\ OneInv /\ [Next]_vars => OneInv'
<1> SUFFICES ASSUME TypeOK, OneInv, [Next]_vars PROVE OneInv'
  OBVIOUS
<1>1. TokenTypes
  BY TypeParts
<1>2. ASSUME NEW r \in Requests, NEW u \in Users, StartForgot(r, u) PROVE OneInv'
  <2>1. req'[r].at = "mark" /\ \A s \in Requests : s # r => req'[s] = req[s]
    BY <1>2 DEF StartForgot, TypeOK
  <2> QED BY <1>2, <2>1, OneElsewhere DEF StartForgot, tokenVars
<1>3. ASSUME NEW r \in Requests, InvalidateTokens(r) PROVE OneInv'
  <2> DEFINE u == req[r].user
  <2>1. req[r] \in Forgot /\ req[r].at = "mark" /\ u \in Users
    BY <1>3, RequestShape DEF InvalidateTokens, At, Forgot
  <2>2. /\ req'[r].at = "insert" /\ req'[r].user = u
        /\ \A s \in Requests : s # r => req'[s] = req[s]
    BY <1>3, <2>1 DEF InvalidateTokens, TypeOK, Forgot
  <2>3. owner' = owner
    BY <1>3 DEF InvalidateTokens
  <2>4. \/ /\ live' = {t \in live : owner[t] # u}
           /\ leaky' = IF \E q \in Requests : req[q].at = "insert" /\ req[q].user = u
                       THEN leaky \cup {u} ELSE leaky \ {u}
        \/ leaky' = leaky \cup {u} /\ live' = live
    BY <1>3 DEF InvalidateTokens, At
  <2> HIDE DEF u
  <2>5. CASE u \in leaky'
    <3>1. Users \ leaky' \subseteq (Users \ leaky) \ {u} /\ live' \subseteq live
      BY <2>4, <2>5
    <3> QED BY <2>2, <2>3, <3>1 DEF OneInv
  <2>6. CASE u \notin leaky'
    <3>1. /\ live' = {t \in live : owner[t] # u} /\ leaky' = leaky \ {u}
          /\ \A q \in Requests : ~(req[q].at = "insert" /\ req[q].user = u)
      BY <2>4, <2>6
    <3>2. ASSUME NEW v \in Users \ leaky', v # u
          PROVE  v \in Users \ leaky
      BY <3>1, <3>2
    <3> QED BY <2>1, <2>2, <2>3, <3>1, <3>2 DEF OneInv
  <2> QED BY <2>5, <2>6
<1>4. ASSUME NEW r \in Requests, InsertToken(r) PROVE OneInv'
  <2> DEFINE u == req[r].user
  <2>1. req[r].at = "insert" /\ u \in Users
    BY <1>4, RequestShape DEF InsertToken, At, Forgot
  <2>2. /\ req'[r].at = "idle" /\ leaky' = leaky
        /\ \A s \in Requests : s # r => req'[s] = req[s]
    BY <1>4, PutIdle, IdleIsRecord DEF InsertToken
  <2>3. CASE UNCHANGED <<owner, live>>
    BY <2>2, <2>3, OneElsewhere
  <2>4. ASSUME NEW t \in Tokens, owner[t] = NoUser, owner' = [owner EXCEPT ![t] = u],
               live' = live \cup {t}
        PROVE  OneInv'
    <3>1. t \notin live
      BY <1>1, <2>4, NilAssumption DEF TokenTypes
    <3>2. \A z \in live : owner'[z] = owner[z]
      BY <1>1, <2>4, <3>1 DEF TokenTypes
    <3>3. owner'[t] = u
      BY <1>1, <2>4 DEF TokenTypes
    <3> HIDE DEF u
    <3>4. ASSUME NEW v \in Users \ leaky, v # u
          PROVE  /\ \A t1 \in live', t2 \in live' : owner'[t1] = v /\ owner'[t2] = v => t1 = t2
                 /\ \A q \in Requests : req'[q].at = "insert" /\ req'[q].user = v =>
                       /\ \A z \in live' : owner'[z] # v
                       /\ \A s \in Requests : req'[s].at = "insert" /\ req'[s].user = v
                                                  => s = q
      BY <2>2, <2>4, <3>2, <3>3, <3>4 DEF OneInv
    <3>5. ASSUME u \notin leaky
          PROVE  /\ \A z \in live : owner[z] # u
                 /\ \A s \in Requests : req[s].at = "insert" /\ req[s].user = u => s = r
      BY <2>1, <3>5 DEF OneInv, u
    <3>6. ASSUME u \notin leaky
          PROVE  /\ \A t1 \in live', t2 \in live' : owner'[t1] = u /\ owner'[t2] = u => t1 = t2
                 /\ \A q \in Requests : ~(req'[q].at = "insert" /\ req'[q].user = u)
      BY <2>2, <2>4, <3>2, <3>5, <3>6
    <3> QED BY <2>2, <3>4, <3>6 DEF OneInv
  <2> QED BY <1>4, <2>3, <2>4 DEF InsertToken
<1>5. ASSUME NEW r \in Requests, ResetRequest(r) PROVE OneInv'
  <2>1. UNCHANGED <<owner, leaky>> /\ live' \subseteq live
    BY <1>5 DEF ResetRequest, WritePassword, MarkUsed, CheckToken
  <2>2. \A s \in Requests : s # r => req'[s] = req[s]
    BY <1>5 DEF ResetRequest, WritePassword, MarkUsed, CheckToken, Answer, TypeOK
  <2>3. req'[r].at # "insert"
    <3>1. CASE Answer(r)
      BY <3>1, PutIdle, IdleIsRecord
    <3>2. ASSUME WritePassword(r), ~Answer(r) PROVE req'[r].at # "insert"
      <4>1. req[r] \in Reset /\ req' = [req EXCEPT ![r].at = "used"]
        BY <3>2, RequestShape DEF WritePassword
      <4> QED BY <4>1 DEF TypeOK, Reset
    <3>3. ASSUME NEW t \in Tokens, CheckToken(r, t) PROVE req'[r].at # "insert"
      BY <3>3 DEF CheckToken, TypeOK
    <3> QED BY <1>5, <3>1, <3>2, <3>3 DEF ResetRequest, MarkUsed
  <2> QED BY <2>1, <2>2, <2>3, OneElsewhere
<1>6. ASSUME NEW t \in Tokens, Expire(t) PROVE OneInv'
  BY <1>6, OneElsewhere DEF Expire
<1>7. CASE TokenWork
  BY <1>2, <1>3, <1>4, <1>5, <1>6, <1>7 DEF TokenWork, ForgotRequest
<1>8. CASE UserWork
  BY <1>8, UserFrame, OneElsewhere DEF OnlyAt
<1>9. CASE RoleWork
  BY <1>9, RoleFrame, OneElsewhere DEF OnlyAt, tokenVars
<1>10. CASE Restart
  BY <1>10, RestartFrame, OneElsewhere, IdleIsRecord
<1>11. CASE UNCHANGED vars
  BY <1>11, OneElsewhere DEF vars
<1> QED BY <1>7, <1>8, <1>9, <1>10, <1>11, NextIsWork

\* A set without two elements.
LEMMA AtMostOne ==
    ASSUME NEW T, \A a, b \in T : a = b
    PROVE  Cardinality(T) <= 1
<1>1. CASE T = {}
  BY <1>1, FS_EmptySet
<1>2. CASE T # {}
  <2>1. PICK t \in T : TRUE
    BY <1>2
  <2>2. T = {t}
    BY <2>1
  <2>3. Cardinality({t}) = 1
    BY FS_Singleton
  <2> QED BY <2>2, <2>3
<1> QED BY <1>1, <1>2

\* A user has one good reset token at most, unless two requests for one
\* overlapped or the old ones could not be invalidated (CreateResetToken).
THEOREM TokensAreReplaced == Spec => []OneLiveToken
<1>1. Init => TypeOK /\ OneInv
  BY InitTypes, IdleIsRecord DEF Init, OneInv
<1>2. TypeOK /\ OneInv /\ [Next]_vars => (TypeOK /\ OneInv)'
  BY StepTypes, StepOne
<1>3. OneInv => OneLiveToken
  <2> SUFFICES ASSUME OneInv, NEW u \in Users \ leaky
               PROVE  Cardinality({t \in live : owner[t] = u}) <= 1
    BY DEF OneLiveToken
  <2> DEFINE T == {t \in live : owner[t] = u}
  <2>1. \A a, b \in T : a = b
    BY DEF OneInv
  <2> HIDE DEF T
  <2>2. Cardinality(T) <= 1
    BY <2>1, AtMostOne
  <2> QED BY <2>2 DEF T
<1> QED BY <1>1, <1>2, <1>3, PTL DEF Spec

-----------------------------------------------------------------------------
(* One password for one token *)

\* A token that nobody excused is used by one request at a time; what set a
\* password with it either is about to mark it or has made it useless.
UsedInv ==
    /\ \A t \in Tokens : owner[t] = NoUser => uses[t] = 0
    /\ \A r \in Requests :
          req[r].at \in {"write", "used"} => owner[req[r].token] # NoUser
    /\ \A t \in Tokens \ shared :
          /\ uses[t] <= 1
          /\ \A r \in Requests, s \in Requests :
                /\ req[r].at \in {"write", "used"} /\ req[r].token = t
                /\ req[s].at \in {"write", "used"} /\ req[s].token = t
                => r = s
          /\ \A r \in Requests : req[r].at = "write" /\ req[r].token = t => uses[t] = 0
          /\ t \in live /\ uses[t] # 0
                => \E r \in Requests : req[r].at = "used" /\ req[r].token = t

\* Steps that take no request to or from a reset, and revive no token, keep it.
LEMMA UsedElsewhere ==
    ASSUME UsedInv, UNCHANGED <<owner, uses, shared>>, live' \subseteq live,
           \A s \in Requests : \/ req'[s] = req[s]
                               \/ /\ req[s].at \notin {"write", "used"}
                                  /\ req'[s].at \notin {"write", "used"}
    PROVE  UsedInv'
BY DEF UsedInv

\* What Excuse makes of the history.
LEMMA Excused ==
    ASSUME TokenTypes, NEW T \in SUBSET Tokens, Excuse(T)
    PROVE  /\ shared' = shared \cup T
           /\ \A t \in Tokens : uses'[t] = IF t \in T THEN 0 ELSE uses[t]
BY DEF TokenTypes, Excuse

LEMMA StepUsed == TypeOK /\ UsedInv /\ [Next]_vars => UsedInv'
<1> SUFFICES ASSUME TypeOK, UsedInv, [Next]_vars PROVE UsedInv'
  OBVIOUS
<1>1. TokenTypes
  BY TypeParts
<1>2. ASSUME NEW r \in Requests, NEW u \in Users, StartForgot(r, u) PROVE UsedInv'
  <2>1. /\ req'[r].at = "mark" /\ req[r].at = "idle"
        /\ \A s \in Requests : s # r => req'[s] = req[s]
    BY <1>2, IdleIsRecord DEF StartForgot, TypeOK
  <2> QED BY <1>2, <2>1, UsedElsewhere DEF StartForgot, tokenVars
<1>3. ASSUME NEW r \in Requests, InvalidateTokens(r) PROVE UsedInv'
  <2>1. req[r] \in Forgot /\ req[r].at = "mark"
    BY <1>3, RequestShape DEF InvalidateTokens, At
  <2>2. /\ req'[r].at = "insert" /\ \A s \in Requests : s # r => req'[s] = req[s]
    BY <1>3, <2>1 DEF InvalidateTokens, TypeOK, Forgot
  <2> QED BY <1>3, <2>1, <2>2, UsedElsewhere DEF InvalidateTokens
<1>4. ASSUME NEW r \in Requests, InsertToken(r) PROVE UsedInv'
  <2>1. /\ req[r].at = "insert" /\ req[r].user \in Users
    BY <1>4, RequestShape DEF InsertToken, At, Forgot
  <2>2. /\ req'[r].at = "idle" /\ \A s \in Requests : s # r => req'[s] = req[s]
    BY <1>4, PutIdle, IdleIsRecord DEF InsertToken
  <2>3. UNCHANGED <<uses, shared>>
    BY <1>4 DEF InsertToken
  <2>4. CASE UNCHANGED <<owner, live>>
    BY <2>1, <2>2, <2>3, <2>4, UsedElsewhere
  <2>5. ASSUME NEW t \in Tokens, owner[t] = NoUser,
               owner' = [owner EXCEPT ![t] = req[r].user], live' = live \cup {t}
        PROVE  UsedInv'
    <3>1. \A z \in Tokens : owner'[z] # NoUser <=> owner[z] # NoUser \/ z = t
      BY <1>1, <2>1, <2>5, NilAssumption DEF TokenTypes
    <3>2. uses[t] = 0
      BY <2>5 DEF UsedInv
    <3>3. ASSUME NEW s \in Requests, req'[s].at \in {"write", "used"}
          PROVE  req[s] = req'[s] /\ req[s].token \in Tokens /\ s # r
      BY <2>2, <3>3, RequestShape DEF At, Reset
    <3>4. ASSUME NEW s \in Requests, req[s].at \in {"write", "used"}
          PROVE  req[s] = req'[s]
      BY <2>1, <2>2, <3>4
    <3> QED BY <2>3, <2>5, <3>1, <3>2, <3>3, <3>4 DEF UsedInv
  <2> QED BY <1>4, <2>4, <2>5 DEF InsertToken
<1>5. ASSUME NEW r \in Requests, NEW t \in Tokens, CheckToken(r, t) PROVE UsedInv'
  <2> DEFINE T == {t} \cap {req[q].token : q \in Resetting}
  <2>1. /\ req[r].at = "idle" /\ req'[r].at = "write" /\ req'[r].token = t
        /\ \A s \in Requests : s # r => req'[s] = req[s]
    BY <1>5, IdleIsRecord DEF CheckToken, TypeOK
  <2>2. UNCHANGED <<owner, live>> /\ t \in live /\ owner[t] # NoUser
    BY <1>1, <1>5, NilAssumption DEF CheckToken, TokenTypes
  <2>3. T \in SUBSET Tokens /\ T \subseteq {t} /\ Excuse(T)
    BY <1>5 DEF CheckToken
  <2>4. T = {} => \A s \in Requests :
                     ~(req[s].at \in {"write", "used"} /\ req[s].token = t)
    BY DEF Resetting, At
  <2> HIDE DEF T
  <2>5. /\ shared' = shared \cup T
        /\ \A z \in Tokens : uses'[z] = IF z \in T THEN 0 ELSE uses[z]
    BY <1>1, <2>3, Excused
  <2>6. t \notin shared' => /\ T = {} /\ t \notin shared /\ uses'[t] = 0
    BY <2>2, <2>3, <2>4, <2>5 DEF UsedInv
  <2>7. ASSUME NEW z \in Tokens \ shared'
        PROVE  /\ uses'[z] <= 1
               /\ \A q \in Requests, s \in Requests :
                     /\ req'[q].at \in {"write", "used"} /\ req'[q].token = z
                     /\ req'[s].at \in {"write", "used"} /\ req'[s].token = z
                     => q = s
               /\ \A q \in Requests :
                     req'[q].at = "write" /\ req'[q].token = z => uses'[z] = 0
               /\ z \in live' /\ uses'[z] # 0
                     => \E q \in Requests : req'[q].at = "used" /\ req'[q].token = z
    <3>1. CASE z = t
      <4>1. /\ uses'[t] = 0
            /\ \A s \in Requests : ~(req[s].at \in {"write", "used"} /\ req[s].token = t)
        BY <2>4, <2>6, <3>1
      <4> QED BY <2>1, <3>1, <4>1
    <3>2. CASE z # t
      <4>1. z \notin shared /\ uses'[z] = uses[z]
        BY <2>3, <2>5, <3>2
      <4> QED BY <2>1, <2>2, <3>2, <4>1 DEF UsedInv
    <3> QED BY <3>1, <3>2
  <2>8. \A z \in Tokens : owner'[z] = NoUser => uses'[z] = 0
    BY <2>2, <2>5 DEF UsedInv
  <2>9. \A q \in Requests :
           req'[q].at \in {"write", "used"} => owner'[req'[q].token] # NoUser
    BY <2>1, <2>2 DEF UsedInv
  <2> QED BY <2>7, <2>8, <2>9 DEF UsedInv
<1>6. ASSUME NEW r \in Requests, WritePassword(r) PROVE UsedInv'
  <2> DEFINE t == req[r].token
  <2>1. req[r] \in Reset /\ req[r].at = "write" /\ t \in Tokens
    BY <1>6, RequestShape DEF WritePassword, At, Reset
  <2>2. UNCHANGED <<owner, live, shared>>
    BY <1>6 DEF WritePassword
  <2>3. CASE Answer(r) /\ UNCHANGED uses
    <3>1. req'[r].at = "idle" /\ \A s \in Requests : s # r => req'[s] = req[s]
      BY <2>3, PutIdle, IdleIsRecord
    <3> QED BY <2>1, <2>2, <2>3, <3>1 DEF UsedInv
  <2>4. CASE /\ uses' = [uses EXCEPT ![t] = IF t \in shared THEN @ ELSE @ + 1]
             /\ req' = [req EXCEPT ![r].at = "used"]
    <3>1. /\ req'[r].at = "used" /\ req'[r].token = t
          /\ \A s \in Requests : s # r => req'[s] = req[s]
      BY <2>1, <2>4 DEF TypeOK, Reset
    <3>2. \A z \in Tokens : uses'[z] = IF z = t /\ t \notin shared THEN uses[z] + 1
                                       ELSE uses[z]
      BY <1>1, <2>4 DEF TokenTypes
    <3>3. t \notin shared => uses[t] = 0
      BY <2>1 DEF UsedInv
    <3>4. owner[t] # NoUser
      BY <2>1 DEF UsedInv
    <3> HIDE DEF t
    <3>5. ASSUME NEW z \in Tokens \ shared, z # t
          PROVE  /\ uses'[z] = uses[z]
                 /\ \A s \in Requests : req'[s].token = z /\ req'[s].at \in {"write", "used"}
                       => req'[s] = req[s]
                 /\ \A s \in Requests : req[s].token = z /\ req[s].at \in {"write", "used"}
                       => req'[s] = req[s]
      BY <2>1, <3>1, <3>2, <3>5 DEF t
    <3>6. ASSUME t \notin shared
          PROVE  /\ uses'[t] = 1
                 /\ \A s \in Requests : req'[s].token = t /\ req'[s].at \in {"write", "used"}
                       => s = r
      BY <2>1, <3>1, <3>2, <3>3, <3>6 DEF UsedInv, t
    <3> QED BY <2>2, <3>1, <3>2, <3>4, <3>5, <3>6 DEF UsedInv
  <2> QED BY <1>6, <2>3, <2>4 DEF WritePassword
<1>7. ASSUME NEW r \in Requests, MarkUsed(r) PROVE UsedInv'
  <2> DEFINE t == req[r].token
  <2>1. req[r].at = "used" /\ t \in Tokens
    BY <1>7, RequestShape DEF MarkUsed, At, Reset
  <2>2. /\ req'[r].at = "idle" /\ owner' = owner
        /\ \A s \in Requests : s # r => req'[s] = req[s]
    BY <1>7, PutIdle, IdleIsRecord DEF MarkUsed
  <2>3. \/ live' = live \ {t} /\ UNCHANGED <<uses, shared>>
        \/ /\ live' = live /\ shared' = shared \cup {t}
           /\ \A z \in Tokens : uses'[z] = IF z = t THEN 0 ELSE uses[z]
    <3>1. Excuse({t}) => /\ shared' = shared \cup {t}
                         /\ \A z \in Tokens : uses'[z] = IF z = t THEN 0 ELSE uses[z]
      BY <1>1, <2>1, Excused
    <3> QED BY <1>7, <3>1 DEF MarkUsed
  <2>4. \A z \in Tokens \ shared' : z \notin shared /\ uses'[z] = uses[z]
    BY <2>3
  <2>5. \A z \in Tokens \ shared' : z \in live' => z # t /\ z \in live
    BY <2>3
  <2>6. \A q \in Requests : req[q].at = "used" /\ req[q].token # t => req'[q] = req[q]
    BY <2>2
  <2>7. \A z \in Tokens : owner'[z] = NoUser => uses'[z] = 0
    BY <2>2, <2>3 DEF UsedInv
  <2>8. \A q \in Requests : req'[q].at \in {"write", "used"} => req'[q] = req[q]
    BY <2>2
  <2> HIDE DEF t
  <2>9. \A z \in Tokens \ shared' : z \in live' /\ uses'[z] # 0
           => \E q \in Requests : req'[q].at = "used" /\ req'[q].token = z
    BY <2>4, <2>5, <2>6 DEF UsedInv
  <2> QED BY <2>2, <2>4, <2>7, <2>8, <2>9 DEF UsedInv
<1>8. ASSUME NEW t \in Tokens, Expire(t) PROVE UsedInv'
  BY <1>8, UsedElsewhere DEF Expire
<1>9. CASE TokenWork
  BY <1>2, <1>3, <1>4, <1>5, <1>6, <1>7, <1>8, <1>9
  DEF TokenWork, ForgotRequest, ResetRequest
<1>10. CASE UserWork
  BY <1>10, UserFrame, UsedElsewhere DEF OnlyAt
<1>11. CASE RoleWork
  BY <1>11, RoleFrame, UsedElsewhere DEF OnlyAt, tokenVars
<1>12. CASE Restart
  <2> DEFINE T == {req[r].token : r \in {q \in Requests : At(q, "used")}}
  <2>1. owner' = owner /\ live' = live /\ \A r \in Requests : req'[r].at = "idle"
    BY <1>12, RestartFrame, IdleIsRecord
  <2>2. T \in SUBSET Tokens
    BY RequestShape DEF Reset
  <2>3. /\ shared' = shared \cup T
        /\ \A z \in Tokens : uses'[z] = IF z \in T THEN 0 ELSE uses[z]
    BY <1>1, <1>12, <2>2, Excused DEF Restart
  <2>4. \A r \in Requests : req[r].at = "used" => req[r].token \in T
    BY DEF At
  <2> HIDE DEF T
  <2> QED BY <2>1, <2>3, <2>4 DEF UsedInv
<1>13. CASE UNCHANGED vars
  BY <1>13, UsedElsewhere DEF vars
<1> QED BY <1>9, <1>10, <1>11, <1>12, <1>13, NextIsWork

\* A token sets one password, unless two requests used it at once, or its mark
\* was lost to an error or a crash (ResetPassword writes, then marks).
THEOREM TokensWorkOnce == Spec => []TokenUsedOnce
<1>1. Init => TypeOK /\ UsedInv
  BY InitTypes, IdleIsRecord DEF Init, UsedInv
<1>2. TypeOK /\ UsedInv /\ [Next]_vars => (TypeOK /\ UsedInv)'
  BY StepTypes, StepUsed
<1>3. UsedInv => TokenUsedOnce
  BY DEF UsedInv, TokenUsedOnce
<1> QED BY <1>1, <1>2, <1>3, PTL DEF Spec
=============================================================================
