--------------------------- MODULE Authentication ---------------------------
(***************************************************************************)
(* How a request gets in: the middlewares Auth (REST and MCP) and WebAuth, *)
(* MCPScope and resolveAccount, and the credentials they accept, JWTs from *)
(* a login and API keys.  They read one row after the other, while users,  *)
(* roles, keys and accounts change.  The static secret, which no table     *)
(* knows, is left out.  One request is enough: requests only meet in the   *)
(* tables.                                                                 *)
(***************************************************************************)
EXTENDS FiniteSets

CONSTANTS
    Users, Accounts,    \* ids, which are never handed out twice
    OwnerOf,            \* OwnerOf[a]: whose account a is, for good
    Keys, Tokens,       \* API keys and JWTs
    Roles, RoleOf,      \* RoleOf[u]: the role of user u
    NoUser, NoAccount

DoorAssumption ==
    /\ RoleOf \in [Users -> Roles] /\ OwnerOf \in [Accounts -> Users \cup {NoUser}]
    /\ NoUser \notin Users /\ NoAccount \notin Accounts /\ Keys \cap Tokens = {}

VARIABLES
    user,       \* user[u]: "on", "off" (not enabled), or "gone"
    power,      \* roles that have the permission "*"
    gone,       \* accounts that were deleted
    cred,       \* cred[c]: whose credential c is and the account it is bound to
    expired,    \* credentials past their time, and keys that were deleted
    req         \* the request

vars == <<user, power, gone, cred, expired, req>>

Creds == Keys \cup Tokens
Doors == {"rest", "web", "mcp"}
Credential == [user : Users \cup {NoUser}, bound : Accounts \cup {NoAccount}]
NoCred == [user |-> NoUser, bound |-> NoAccount]
Out == [at |-> "out"]

\* user, bound: what the key says; asked: ?account_id=; dead: history, what
\* was wrong with the credential when the request came, and still is.
Request == [at : {"key", "user", "perms", "scope", "tool", "in"}, door : Doors,
            cred : Creds, user : Users \cup {NoUser},
            bound : Accounts \cup {NoAccount}, asked : Accounts \cup {NoAccount},
            admin : BOOLEAN, account : Accounts \cup {NoAccount},
            dead : SUBSET {"credential", "user"}]

TypeOK ==
    /\ user \in [Users -> {"on", "off", "gone"}]
    /\ power \subseteq Roles
    /\ gone \subseteq Accounts
    /\ cred \in [Creds -> Credential] /\ expired \subseteq Creds
    /\ req \in Request \cup {Out}

Init ==
    /\ user = [u \in Users |-> "on"]
    /\ power = {}
    /\ gone = {}
    /\ cred = [c \in Creds |-> NoCred] /\ expired = {}
    /\ req = Out

Here(a) == a \in Accounts \ gone
At(place) == req.at = place
Refuse == req' = Out

-----------------------------------------------------------------------------
(* What requests depend on *)

\* The rows of keys C are deleted.
Drop(C) ==
    /\ cred' = [c \in Creds |-> IF c \in C THEN NoCred ELSE cred[c]]
    /\ expired' = expired \cup C

\* The outcome of UpdateUser, UsersUpdate.
SetEnabled(u, on) ==
    /\ user[u] = IF on THEN "off" ELSE "on"
    /\ user' = [user EXCEPT ![u] = IF on THEN "on" ELSE "off"]
    /\ req' = IF ~At("out") /\ u \in {req.user, cred[req.cred].user} /\ on
              THEN [req EXCEPT !.dead = @ \ {"user"}] ELSE req
    /\ UNCHANGED <<power, gone, cred, expired>>

\* DeleteUser, UsersDelete: keys go along, accounts stand in the way.
DeleteUser(u) ==
    /\ user[u] \in {"on", "off"}
    /\ \A a \in Accounts : Here(a) => OwnerOf[a] # u
    /\ user' = [user EXCEPT ![u] = "gone"]
    /\ Drop({c \in Keys : cred[c].user = u})
    /\ UNCHANGED <<power, gone, req>>

\* SetRolePermissions grants or takes "*".
SetPower(k) ==
    /\ power' = IF k \in power THEN power \ {k} ELSE power \cup {k}
    /\ UNCHANGED <<user, gone, cred, expired, req>>

\* The keys that are bound to an account go with it.
DeleteAccount(a) ==
    /\ Here(a)
    /\ gone' = gone \cup {a}
    /\ Drop({c \in Keys : cred[c].bound = a})
    /\ UNCHANGED <<user, power, req>>

Issue(c, u, a) ==
    /\ cred[c] = NoCred /\ c \notin expired
    /\ cred' = [cred EXCEPT ![c] = [user |-> u, bound |-> a]]
    /\ UNCHANGED <<user, power, gone, expired, req>>

\* Login (REST): a JWT for 24 hours, which nothing takes back.
Login(t, u) == t \in Tokens /\ user[u] = "on" /\ Issue(t, u, NoAccount)

\* LoginSubmit (web) puts such a JWT into the cookie.
LoginSubmit(t, u) == Login(t, u)

\* CreateAPIKey (REST), bound to no account or to one's own; administrators
\* may choose any.
CreateAPIKey(c, u, a) ==
    /\ c \in Keys /\ user[u] \in {"on", "off"}
    /\ a # NoAccount => Here(a) /\ (OwnerOf[a] = u \/ RoleOf[u] \in power)
    /\ Issue(c, u, a)

\* APIKeysCreate (web): the foreign key says that the account exists.
APIKeysCreate(c, u, a) ==
    /\ c \in Keys /\ user[u] \in {"on", "off"}
    /\ a # NoAccount => Here(a)
    /\ Issue(c, u, a)

\* DeleteAPIKey (REST): by its user or by an administrator.
DeleteAPIKey(c, u) ==
    /\ c \in Keys /\ cred[c] # NoCred
    /\ cred[c].user = u \/ RoleOf[u] \in power
    /\ Drop({c})
    /\ UNCHANGED <<user, power, gone, req>>

\* APIKeysDelete (web), by the same rule.
APIKeysDelete(c, u) == DeleteAPIKey(c, u)

Expire(c) ==
    /\ cred[c] # NoCred /\ c \notin expired
    /\ expired' = expired \cup {c}
    /\ UNCHANGED <<user, power, gone, cred, req>>

-----------------------------------------------------------------------------
(* The way in *)

\* A request comes with credential c; a JWT is checked at once.
Arrive(c, door, a) ==
    /\ At("out")
    /\ LET u == cred[c].user
           good == u # NoUser /\ c \notin expired
       IN /\ u # NoUser \/ c \in expired
          /\ c \in Tokens => good
          /\ req' = [at |-> IF c \in Keys THEN "key" ELSE "user", door |-> door,
                     cred |-> c, user |-> IF c \in Keys THEN NoUser ELSE u,
                     bound |-> NoAccount, asked |-> a, admin |-> FALSE,
                     account |-> NoAccount,
                     dead |-> {x \in {"credential", "user"} :
                        IF x = "user" THEN u \in Users /\ user[u] # "on" ELSE ~good}]
    /\ UNCHANGED <<user, power, gone, cred, expired>>

\* GetAPIKeyByHash finds the key, and its time has not come.  (No request
\* disables a key.)
Good(c) == cred[c] # NoCred /\ c \notin expired

\* Auth takes the key's user and account.
CheckKey ==
    /\ At("key") /\ req.door # "web"
    /\ \/ /\ Good(req.cred)
          /\ req' = [req EXCEPT !.at = "user", !.user = cred[req.cred].user,
                                !.bound = cred[req.cred].bound]
       \/ Refuse
    /\ UNCHANGED <<user, power, gone, cred, expired>>

\* WebAuth takes the user and no notice of the account.
WebCheckKey ==
    /\ At("key") /\ req.door = "web"
    /\ \/ Good(req.cred) /\ req' = [req EXCEPT !.at = "user", !.user = cred[req.cred].user]
       \/ Refuse
    /\ UNCHANGED <<user, power, gone, cred, expired>>

\* Mutant: the user of a key need only exist.
CheckUserOfToken ==
    /\ At("user")
    /\ \/ user[req.user] \in {"on", "off"} /\ req' = [req EXCEPT !.at = "perms"]
       \/ Refuse
    /\ UNCHANGED <<user, power, gone, cred, expired>>

\* GetUser: there is such a user, who is enabled.
CheckUser ==
    /\ At("user")
    /\ \/ user[req.user] = "on" /\ req' = [req EXCEPT !.at = "perms"]
       \/ Refuse
    /\ UNCHANGED <<user, power, gone, cred, expired>>

Administers == RoleOf[req.user] \in power

\* GetRolePermissions, in Auth: an error is refused.
ReadPermissions ==
    /\ At("perms") /\ req.door # "web"
    /\ \/ req' = [req EXCEPT !.at = IF req.door = "mcp" THEN "scope" ELSE "in",
                             !.admin = Administers]
       \/ Refuse
    /\ UNCHANGED <<user, power, gone, cred, expired>>

\* The same in WebAuth: an error means no permission.
WebReadPermissions ==
    /\ At("perms") /\ req.door = "web"
    /\ \E admin \in {Administers, FALSE} : req' = [req EXCEPT !.at = "in", !.admin = admin]
    /\ UNCHANGED <<user, power, gone, cred, expired>>

Owns(a) == Here(a) /\ OwnerOf[a] = req.user

\* Mutant: the account asked for comes before the one of the key.
ScopeAsked ==
    /\ At("scope")
    /\ LET a == IF req.asked # NoAccount THEN req.asked ELSE req.bound
       IN \/ (req.admin \/ Owns(a)) /\ req' = [req EXCEPT !.at = "tool", !.account = a]
          \/ Refuse
    /\ UNCHANGED <<user, power, gone, cred, expired>>

\* MCPScope: the account of the key, or else the one asked for, which who is
\* no administrator must own; administrators may do without.
MCPScope ==
    /\ At("scope")
    /\ LET a == IF req.bound # NoAccount THEN req.bound ELSE req.asked
       IN \/ (req.admin \/ Owns(a)) /\ req' = [req EXCEPT !.at = "tool", !.account = a]
          \/ Refuse
    /\ UNCHANGED <<user, power, gone, cred, expired>>

\* resolveAccount, in a tool: an administrator without scope names an account;
\* it must be there, and is checked again.
ResolveAccount ==
    /\ At("tool")
    /\ \/ \E a \in Accounts :
             /\ IF req.account = NoAccount THEN req.admin ELSE a = req.account
             /\ Here(a) /\ (req.admin \/ Owns(a))
             /\ req' = [req EXCEPT !.at = "in", !.account = a]
       \/ Refuse
    /\ UNCHANGED <<user, power, gone, cred, expired>>

\* The tool list_accounts: the account in scope, as long as it is there, or all.
ListAccounts ==
    /\ At("tool")
    /\ \/ (req.account = NoAccount \/ Here(req.account)) /\ req' = [req EXCEPT !.at = "in"]
       \/ Refuse
    /\ UNCHANGED <<user, power, gone, cred, expired>>

\* The handler is done, or the process stops.
Leave ==
    /\ ~At("out") /\ Refuse
    /\ UNCHANGED <<user, power, gone, cred, expired>>

Editing(u) ==
    \/ DeleteUser(u) \/ \E on \in BOOLEAN : SetEnabled(u, on)
    \/ \E c \in Creds :
          \/ Login(c, u) \/ LoginSubmit(c, u) \/ DeleteAPIKey(c, u) \/ APIKeysDelete(c, u)
          \/ \E a \in Accounts \cup {NoAccount} : CreateAPIKey(c, u, a) \/ APIKeysCreate(c, u, a)

Next ==
    \/ \E u \in Users : Editing(u)
    \/ \E k \in Roles : SetPower(k)
    \/ \E a \in Accounts : DeleteAccount(a)
    \/ \E c \in Creds :
          \/ Expire(c)
          \/ \E door \in Doors, a \in Accounts \cup {NoAccount} : Arrive(c, door, a)
    \/ CheckKey \/ WebCheckKey \/ CheckUser \/ ReadPermissions \/ WebReadPermissions
    \/ MCPScope \/ ResolveAccount \/ ListAccounts \/ Leave

Spec == Init /\ [][Next]_vars

-----------------------------------------------------------------------------
(* Properties *)

\* A request that came after its user was disabled or deleted, or after its
\* key was deleted or had expired, never gets in, whichever of the three doors
\* it knocks at, unless the user was enabled again on the way.
RevokedIsOut == At("in") => req.dead = {}

\* A tool of the MCP server works on the account of a bound key, whatever
\* account the request asks for, and else on the one it asks for; and on an
\* account of somebody else, or on all, only for administrators.
KeyStaysInScope ==
    At("in") /\ req.door = "mcp" =>
       /\ req.bound \in {NoAccount, req.account}
       /\ req.bound = NoAccount => req.asked \in {NoAccount, req.account}
       /\ req.admin \/ (req.account # NoAccount /\ OwnerOf[req.account] = req.user)

=============================================================================
