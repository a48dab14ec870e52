--------------------------- MODULE AccessControl ----------------------------
(***************************************************************************)
(* Users, roles and password resets: the tables app_user, role,            *)
(* role_permission and password_reset_token, and the REST handlers and     *)
(* admin pages that edit them.  Apart from SetRolePermissions nothing runs *)
(* in a transaction: a request is a chain of statements, each of which may *)
(* fail, and other requests come in between.                               *)
(***************************************************************************)
EXTENDS Naturals, FiniteSets

CONSTANTS
    Users,          \* ids of users; an id is never handed out twice
    Roles,          \* ids of roles
    BuiltIn,        \* the roles that seedRoles creates
    UserRole,       \* builtin-user, the role of those who register
    Permissions,
    Seed,           \* Seed[k]: permissions seedRoles gives built-in role k
    Tokens,         \* password reset tokens
    Requests,       \* requests in flight
    NoRole, NoUser

ASSUME NilAssumption == NoRole \notin Roles /\ NoUser \notin Users
ASSUME SeedAssumption ==
    /\ BuiltIn \subseteq Roles /\ UserRole \in BuiltIn
    /\ Seed \in [BuiltIn -> SUBSET Permissions]
ASSUME RequestsAssumption == IsFiniteSet(Requests) /\ IsFiniteSet(Tokens)

VARIABLES
    role,       \* role[u]: role_id of user u, or NoRole when there is no row
    enabled,    \* users whose enabled column is TRUE
    roles,      \* rows of the role table
    perms,      \* perms[k]: the permissions of role k
    owner,      \* owner[t]: the user whose reset token t is
    live,       \* tokens stored, not expired and not marked used
    born,       \* ids of users and roles handed out
    req,        \* requests
    off,        \* history: users disabled with no other update in flight
    last,       \* history: what the last request asked of a role, or what came
                \* out if it overlapped with another one
    uses,       \* history: passwords set with a token
    shared,     \* history: tokens that two requests used at once, or whose mark
                \* was lost
    leaky       \* history: users whose tokens were not all invalidated before
                \* the last one was issued

userVars  == <<role, enabled, off>>
roleVars  == <<roles, perms, last>>
tokenVars == <<owner, live, uses, shared, leaky>>
vars == <<role, enabled, roles, perms, owner, live, born, req, off, last,
          uses, shared, leaky>>

Asks == {"on", "off", "keep"}

\* UpdateUser, with the values it is going to write, on by request or not;
\* a role request before its transaction, and inside it; the two statements
\* of CreateResetToken; the two that follow the check of ResetPassword.
Idle == [at |-> "idle"]
Update == [at : {"update"}, user : Users, role : Roles, on : BOOLEAN,
           asked : BOOLEAN]
Fill == [at : {"fill"}, role : Roles, new : SUBSET Permissions]
Tx == [at : {"tx"}, role : Roles, new : SUBSET Permissions,
       seen : SUBSET Permissions, alone : BOOLEAN]
Forgot == [at : {"mark", "insert"}, user : Users]
Reset == [at : {"write", "used"}, token : Tokens]

TypeOK ==
    /\ role \in [Users -> Roles \cup {NoRole}]
    /\ enabled \subseteq Users
    /\ roles \subseteq Roles
    /\ perms \in [Roles -> SUBSET Permissions]
    /\ owner \in [Tokens -> Users \cup {NoUser}]
    /\ live \subseteq {t \in Tokens : owner[t] \in Users /\ role[owner[t]] # NoRole}
    /\ born \subseteq Users \cup Roles
    /\ req \in [Requests -> Update \cup Fill \cup Tx \cup Forgot \cup Reset \cup {Idle}]
    /\ off \subseteq Users
    /\ last \in [Roles -> SUBSET Permissions]
    /\ uses \in [Tokens -> Nat] /\ shared \subseteq Tokens
    /\ leaky \subseteq Users

Exists(u) == role[u] # NoRole
At(r, place) == req[r].at = place
Answer(r) == req' = [req EXCEPT ![r] = Idle]
Updating(u) == {r \in Requests : At(r, "update") /\ req[r].user = u}
Filling(k) == {r \in Requests : At(r, "tx") /\ req[r].role = k}

Resetting == {r \in Requests : At(r, "write") \/ At(r, "used")}

\* seedRoles, in an empty database.
Seeded(k) == IF k \in BuiltIn THEN Seed[k] ELSE {}

Init ==
    /\ role = [u \in Users |-> NoRole] /\ enabled = {}
    /\ roles = BuiltIn /\ perms = [k \in Roles |-> Seeded(k)]
    /\ owner = [t \in Tokens |-> NoUser] /\ live = {}
    /\ born = BuiltIn
    /\ req = [r \in Requests |-> Idle]
    /\ off = {} /\ last = perms
    /\ uses = [t \in Tokens |-> 0] /\ shared = {} /\ leaky = {}

-----------------------------------------------------------------------------
(* Users *)

\* CreateUser: the role must exist (checked, and a foreign key).
CreateUser(u, k) ==
    /\ u \notin born /\ k \in roles
    /\ role' = [role EXCEPT ![u] = k]
    /\ enabled' = enabled \cup {u}
    /\ born' = born \cup {u}
    /\ UNCHANGED <<roleVars, tokenVars, req, off>>

\* Register: the same with the role of ordinary users, if it is allowed.
Register(u) == CreateUser(u, UserRole)

\* DELETE takes the user's tokens along, and fails for the owner of accounts.
DeleteUser(u) ==
    /\ Exists(u)
    /\ role' = [role EXCEPT ![u] = NoRole]
    /\ enabled' = enabled \ {u}
    /\ live' = {t \in live : owner[t] # u}
    /\ off' = off \ {u}
    /\ UNCHANGED <<roleVars, owner, born, req, uses, shared, leaky>>

\* Mutant: a flag that is not in the request counts as TRUE.
StartUpdateDefaultOn(r, u, k, b) ==
    /\ req[r] = Idle /\ Exists(u)
    /\ k # NoRole \/ b # "keep"
    /\ req' = [req EXCEPT ![r] =
                 [at |-> "update", user |-> u,
                  role |-> IF k = NoRole THEN role[u] ELSE k,
                  on |-> b # "off", asked |-> b # "keep"]]
    /\ off' = IF b = "on" THEN off \ {u} ELSE off
    /\ UNCHANGED <<role, enabled, roleVars, tokenVars, born>>

\* UpdateUser (REST) reads the user; what it is not asked to change, role k or
\* flag b, it will write back as it was.
StartUpdate(r, u, k, b) ==
    /\ req[r] = Idle /\ Exists(u)
    /\ k # NoRole \/ b # "keep"
    /\ req' = [req EXCEPT ![r] =
                 [at |-> "update", user |-> u,
                  role |-> IF k = NoRole THEN role[u] ELSE k,
                  on |-> b = "on" \/ (b = "keep" /\ u \in enabled),
                  asked |-> b # "keep"]]
    /\ off' = IF b = "on" THEN off \ {u} ELSE off
    /\ UNCHANGED <<role, enabled, roleVars, tokenVars, born>>

\* UPDATE app_user: both columns; nothing happens to a user that is gone.
WriteUser(u, k, on) ==
    /\ role' = IF Exists(u) THEN [role EXCEPT ![u] = k] ELSE role
    /\ enabled' = IF Exists(u) /\ on THEN enabled \cup {u} ELSE enabled \ {u}

\* The write of UpdateUser, unless it fails, as it does for a role that does
\* not exist.
EndUpdate(r) ==
    /\ At(r, "update")
    /\ LET u == req[r].user
       IN \/ /\ req[r].role \in roles
             /\ WriteUser(u, req[r].role, req[r].on)
             /\ off' = IF req[r].asked /\ ~req[r].on /\ Updating(u) = {r} /\ Exists(u)
                       THEN off \cup {u} ELSE off
          \/ UNCHANGED userVars
    /\ Answer(r)
    /\ UNCHANGED <<roleVars, tokenVars, born>>

\* UsersUpdate (admin page) writes what the form says, unread.
UsersUpdate(u, k, on) ==
    /\ Exists(u) /\ k \in roles
    /\ WriteUser(u, k, on)
    /\ off' = IF on THEN off \ {u}
              ELSE IF Updating(u) = {} THEN off \cup {u} ELSE off
    /\ UNCHANGED <<roleVars, tokenVars, born, req>>

-----------------------------------------------------------------------------
(* Roles *)

\* CreateRole inserts the role; the permissions, if any, come after.
CreateRole(r, k, P) ==
    /\ req[r] = Idle /\ k \notin born
    /\ roles' = roles \cup {k} /\ born' = born \cup {k}
    /\ req' = [req EXCEPT ![r] =
                 IF P = {} THEN Idle ELSE [at |-> "fill", role |-> k, new |-> P]]
    /\ UNCHANGED <<userVars, perms, last, tokenVars>>

\* UpdateRole has changed the name, and goes on to the permissions.
UpdateRole(r, k, P) ==
    /\ req[r] = Idle /\ k \in roles
    /\ req' = [req EXCEPT ![r] = [at |-> "fill", role |-> k, new |-> P]]
    /\ UNCHANGED <<userVars, roleVars, tokenVars, born>>

\* DeleteRole: not a built-in one, and none that a user has (counted, and a
\* foreign key).
DeleteRole(k) ==
    /\ k \in roles \ BuiltIn
    /\ \A u \in Users : role[u] # k
    /\ roles' = roles \ {k}
    /\ perms' = [perms EXCEPT ![k] = {}]
    /\ last' = [last EXCEPT ![k] = {}]
    /\ req' = [r \in Requests |-> IF r \in Filling(k)
                                  THEN [req[r] EXCEPT !.seen = {}] ELSE req[r]]
    /\ UNCHANGED <<userVars, tokenVars, born>>

\* Mutant: the DELETE runs outside of the transaction.
BeginReplaceAtOnce(r) ==
    /\ At(r, "fill")
    /\ LET k == req[r].role
       IN /\ perms' = [perms EXCEPT ![k] = {}]
          /\ req' = [req EXCEPT ![r] =
                       [at |-> "tx", role |-> k, new |-> req[r].new,
                        seen |-> {}, alone |-> Filling(k) = {}]]
    /\ UNCHANGED <<userVars, roles, last, tokenVars, born>>

\* SetRolePermissions begins: its DELETE is for the rows it can see, those
\* committed when the statement starts, and waits for others to end with them.
BeginReplace(r) ==
    /\ At(r, "fill")
    /\ LET k == req[r].role
       IN req' = [q \in Requests |->
             IF q = r THEN [at |-> "tx", role |-> k, new |-> req[r].new,
                            seen |-> perms[k], alone |-> Filling(k) = {}]
             ELSE IF q \in Filling(k) THEN [req[q] EXCEPT !.alone = FALSE]
             ELSE req[q]]
    /\ UNCHANGED <<userVars, roleVars, tokenVars, born>>

\* Commit: the rows seen are gone, also for the transactions that saw them
\* too, and the new ones are there.  The INSERT breaks the primary key on a
\* row that is still there, and the foreign key when the role is not.
Commit(r) ==
    /\ At(r, "tx")
    /\ LET k == req[r].role
           kept == perms[k] \ req[r].seen
           new == req[r].new
       IN /\ new \cap kept = {} /\ (k \in roles \/ new = {})
          /\ perms' = [perms EXCEPT ![k] = kept \cup new]
          /\ last' = [last EXCEPT ![k] = IF req[r].alone THEN new ELSE kept \cup new]
          /\ req' = [q \in Requests |->
                IF q = r THEN Idle
                ELSE IF q \in Filling(k)
                     THEN [req[q] EXCEPT !.seen = @ \ req[r].seen]
                ELSE req[q]]
    /\ UNCHANGED <<userVars, roles, tokenVars, born>>

Rollback(r) ==
    /\ At(r, "tx")
    /\ Answer(r)
    /\ UNCHANGED <<userVars, roleVars, tokenVars, born>>

-----------------------------------------------------------------------------
(* Password resets *)

\* The tokens T may be used again: what they set does not count any more.
Excuse(T) ==
    /\ shared' = shared \cup T
    /\ uses' = [t \in Tokens |-> IF t \in T THEN 0 ELSE uses[t]]

\* ForgotPassword finds the user of an address.
StartForgot(r, u) ==
    /\ req[r] = Idle /\ Exists(u)
    /\ req' = [req EXCEPT ![r] = [at |-> "mark", user |-> u]]
    /\ UNCHANGED <<userVars, roleVars, tokenVars, born>>

\* Mutant: the old tokens stay.
KeepTokens(r) ==
    /\ At(r, "mark")
    /\ req' = [req EXCEPT ![r].at = "insert"]
    /\ UNCHANGED <<userVars, roleVars, tokenVars, born>>

\* CreateResetToken first invalidates the user's tokens; an error is dropped.
InvalidateTokens(r) ==
    /\ At(r, "mark")
    /\ LET u == req[r].user
       IN \/ /\ live' = {t \in live : owner[t] # u}
             /\ leaky' = IF \E q \in Requests : At(q, "insert") /\ req[q].user = u
                         THEN leaky \cup {u} ELSE leaky \ {u}
          \/ leaky' = leaky \cup {u} /\ UNCHANGED live
    /\ req' = [req EXCEPT ![r].at = "insert"]
    /\ UNCHANGED <<userVars, roleVars, owner, uses, shared, born>>

\* Mutant: the user may have been deleted since.
InsertTokenUnchecked(r) ==
    /\ At(r, "insert")
    /\ \E t \in Tokens :
          /\ owner[t] = NoUser
          /\ owner' = [owner EXCEPT ![t] = req[r].user]
          /\ live' = live \cup {t}
    /\ Answer(r)
    /\ UNCHANGED <<userVars, roleVars, uses, shared, leaky, born>>

\* The INSERT of a token, or its failure, as for a user who is gone.
InsertToken(r) ==
    /\ At(r, "insert")
    /\ \/ \E t \in Tokens :
             /\ owner[t] = NoUser /\ Exists(req[r].user)
             /\ owner' = [owner EXCEPT ![t] = req[r].user]
             /\ live' = live \cup {t}
       \/ UNCHANGED <<owner, live>>
    /\ Answer(r)
    /\ UNCHANGED <<userVars, roleVars, uses, shared, leaky, born>>

\* ResetPassword finds the token unused and unexpired.
CheckToken(r, t) ==
    /\ req[r] = Idle /\ t \in live
    /\ req' = [req EXCEPT ![r] = [at |-> "write", token |-> t]]
    /\ Excuse({t} \cap {req[q].token : q \in Resetting})
    /\ UNCHANGED <<userVars, roleVars, owner, live, leaky, born>>

\* The password is written, or the write fails and the token stays good.
WritePassword(r) ==
    /\ At(r, "write")
    /\ LET t == req[r].token
       IN \/ /\ uses' = [uses EXCEPT ![t] = IF t \in shared THEN @ ELSE @ + 1]
             /\ req' = [req EXCEPT ![r].at = "used"]
          \/ Answer(r) /\ UNCHANGED uses
    /\ UNCHANGED <<userVars, roleVars, owner, live, shared, leaky, born>>

\* Mutant: the token is not marked.
ForgetMark(r) ==
    /\ At(r, "used")
    /\ Answer(r)
    /\ UNCHANGED <<userVars, roleVars, tokenVars, born>>

\* The token is marked used; an error is dropped.
MarkUsed(r) ==
    /\ At(r, "used")
    /\ \/ live' = live \ {req[r].token} /\ UNCHANGED <<uses, shared>>
       \/ Excuse({req[r].token}) /\ UNCHANGED live
    /\ Answer(r)
    /\ UNCHANGED <<userVars, roleVars, owner, leaky, born>>

\* An hour passes.
Expire(t) ==
    /\ t \in live
    /\ live' = live \ {t}
    /\ UNCHANGED <<userVars, roleVars, owner, uses, shared, leaky, born, req>>

-----------------------------------------------------------------------------

\* The process stops and starts: open transactions are rolled back, seedRoles
\* gives the built-in roles what they lack of their permissions.
Restart ==
    /\ perms' = [k \in Roles |-> perms[k] \cup Seeded(k)]
    /\ last' = [k \in Roles |-> IF k \in BuiltIn THEN perms'[k] ELSE last[k]]
    /\ Excuse({req[r].token : r \in {q \in Requests : At(q, "used")}})
    /\ req' = [r \in Requests |-> Idle]
    /\ UNCHANGED <<userVars, roles, owner, live, leaky, born>>

UserRequest(r, u) ==
    \/ \E k \in Roles \cup {NoRole}, b \in Asks : StartUpdate(r, u, k, b)
    \/ StartForgot(r, u)

RoleRequest(r, k) ==
    \E P \in SUBSET Permissions : CreateRole(r, k, P) \/ UpdateRole(r, k, P)

ForgotRequest(r) == InvalidateTokens(r) \/ InsertToken(r)
ResetRequest(r) == WritePassword(r) \/ MarkUsed(r) \/ \E t \in Tokens : CheckToken(r, t)

Next ==
    \/ \E u \in Users, k \in Roles :
          CreateUser(u, k) \/ \E on \in BOOLEAN : UsersUpdate(u, k, on)
    \/ \E u \in Users : Register(u) \/ DeleteUser(u)
    \/ \E k \in Roles : DeleteRole(k)
    \/ \E r \in Requests :
          \/ \E u \in Users : UserRequest(r, u)
          \/ \E k \in Roles : RoleRequest(r, k)
          \/ EndUpdate(r)
          \/ BeginReplace(r) \/ Commit(r) \/ Rollback(r)
          \/ ForgotRequest(r) \/ ResetRequest(r)
    \/ \E t \in Tokens : Expire(t)
    \/ Restart

Spec == Init /\ [][Next]_vars

-----------------------------------------------------------------------------
(* Properties *)

\* A user who was disabled while no other update of the user was in flight
\* stays disabled until a request asks for the opposite: an update of
\* something else that starts later does not enable the user again.
DisabledStays == off \cap enabled = {}

\* A role has exactly the permissions of the last request on it (or what a
\* restart made of them), unless that request overlapped with another one.
PermissionsReplaced == \A k \in roles : perms[k] = last[k]

\* A user has at most one good token, however many were asked for, unless two
\* requests for one overlapped or the invalidation of the old ones failed.
OneLiveToken ==
    \A u \in Users \ leaky : Cardinality({t \in live : owner[t] = u}) <= 1

\* A token sets one password, unless two requests used it at once, or its mark
\* was lost to an error or to a crash after the password was written.
TokenUsedOnce == \A t \in Tokens \ shared : uses[t] <= 1

=============================================================================
