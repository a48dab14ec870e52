------------------------- MODULE StoredState_proofs -------------------------
(***************************************************************************)
(* What the autopilot, the assistant and the doors keep, for any number of *)
(* deliveries, chats, users, keys and accounts.                            *)
(***************************************************************************)
EXTENDS StoredState, Integers, Sequences, SequenceTheorems, TLAPS

\* A step of the whole is a step of the module whose turn it is.
LEMMA NextByPart ==
    [Next]_vars => /\ [Store!Next]_rows
                   /\ [Pilot!Next]_pilotVars
                   /\ [Assistant!Next]_assistantVars
                   /\ [Door!Next]_doorVars
BY DEF Next, vars

-----------------------------------------------------------------------------
(* The autopilot *)

\* A delivery that was answered, or is on its way to be, had its chance; one
\* that has yet to read the configuration has it as long as that lets it through.
\* While nothing is muddled, a toggle has read what the edits amount to.
PilotInv ==
    /\ Pilot!TypeOK
    /\ sent \subseteq chance
    /\ \A h \in Hooks :
          /\ hook[h].at = "read" /\ config.on /\ hook[h].from \in config.lets
                => h \in chance
          /\ hook[h].at \in {"answer", "send", "log"} => h \in chance
          /\ hook[h].at = "log" => h \in sent
    /\ ~muddled =>
          /\ config = wanted
          /\ \A x \in Toggles : toggle[x] # NoToggle => toggle[x] = config
          /\ \A x, y \in Toggles :
                toggle[x] # NoToggle /\ toggle[y] # NoToggle => x = y

\* Nobody has started, and nothing is muddled.
LEMMA PilotStart == Pilot!Init => PilotInv
<1> SUFFICES ASSUME Pilot!Init PROVE PilotInv
  OBVIOUS
<1>1. Pilot!NoConfig \in Pilot!Config
  BY DEF Pilot!NoConfig, Pilot!Config
<1>2. Pilot!TypeOK
  BY <1>1 DEF Pilot!Init, Pilot!TypeOK
<1>3. \A h \in Hooks : hook[h].at = "none"
  BY DEF Pilot!Init, Pilot!None
<1>4. config = wanted /\ \A x \in Toggles : toggle[x] = NoToggle
  BY DEF Pilot!Init
<1>5. sent \subseteq chance
  BY DEF Pilot!Init
<1> QED BY <1>2, <1>3, <1>4, <1>5 DEF PilotInv

\* A hook is a record or has not started.
LEMMA HookShape ==
    ASSUME Pilot!TypeOK, NEW h \in Hooks
    PROVE  /\ hook[h].at \in Pilot!Place \cup {"none"}
           /\ hook[h].at # "none" => hook[h] \in [at : Pilot!Place, from : Numbers]
BY DEF Pilot!TypeOK, Pilot!None

\* Moving one hook along.
LEMMA HookMoves ==
    ASSUME Pilot!TypeOK, NEW h \in Hooks, hook[h].at # "none",
           NEW place \in Pilot!Place, Pilot!MoveTo(h, place)
    PROVE  /\ hook' \in [Hooks -> [at : Pilot!Place, from : Numbers] \cup {Pilot!None}]
           /\ hook'[h].at = place /\ hook'[h].from = hook[h].from
           /\ \A g \in Hooks : g # h => hook'[g] = hook[g]
<1>1. hook[h] \in [at : Pilot!Place, from : Numbers]
  BY HookShape
<1>2. [hook[h] EXCEPT !.at = place] \in [at : Pilot!Place, from : Numbers]
  BY <1>1
<1> QED BY <1>1, <1>2 DEF Pilot!MoveTo, Pilot!TypeOK

\* A hook that moves on has had its chance.
LEMMA PilotAnswers ==
    ASSUME PilotInv, NEW h \in Hooks,
           \/ Pilot!ReadConfig(h) \/ Pilot!Answer(h) \/ Pilot!Send(h) \/ Pilot!Log(h)
    PROVE  PilotInv'
<1>1. Pilot!TypeOK
  BY DEF PilotInv
<1>2. UNCHANGED <<wired, chance, config, toggle, wanted, muddled>>
  BY DEF Pilot!ReadConfig, Pilot!Answer, Pilot!Send, Pilot!Log, Pilot!editVars
<1>3. {"read", "answer", "send", "log", "end"} = Pilot!Place
  BY DEF Pilot!Place
<1>4. ASSUME NEW place \in Pilot!Place, Pilot!MoveTo(h, place), hook[h].at # "none",
             place # "read",
             place \in {"answer", "send", "log"} => h \in chance,
             place = "log" => h \in sent',
             sent \subseteq sent', sent' \subseteq chance,
             logged' \subseteq sent', sent' \subseteq Hooks
      PROVE  PilotInv'
  <2>1. /\ hook' \in [Hooks -> [at : Pilot!Place, from : Numbers] \cup {Pilot!None}]
        /\ hook'[h].at = place
        /\ \A g \in Hooks : g # h => hook'[g] = hook[g]
    BY <1>1, <1>4, HookMoves
  <2>2. Pilot!TypeOK'
    BY <1>1, <1>2, <1>4, <2>1 DEF Pilot!TypeOK
  <2> QED BY <1>2, <1>4, <2>1, <2>2 DEF PilotInv
<1>5. sent \subseteq chance /\ logged \subseteq sent /\ sent \subseteq Hooks
  BY <1>1 DEF PilotInv, Pilot!TypeOK
<1>6. CASE Pilot!ReadConfig(h)
  <2>1. hook[h].at = "read" /\ UNCHANGED <<sent, logged>>
    BY <1>6 DEF Pilot!ReadConfig
  <2>2. PICK c \in {config, Pilot!NoConfig} :
           Pilot!MoveTo(h, IF Pilot!LetsThrough(c, h) THEN "answer" ELSE "end")
    BY <1>6 DEF Pilot!ReadConfig
  <2>3. Pilot!LetsThrough(c, h) => h \in chance
    BY <2>1, <2>2 DEF Pilot!LetsThrough, Pilot!NoConfig, PilotInv
  <2> QED BY <1>3, <1>4, <1>5, <2>1, <2>2, <2>3
<1>7. CASE Pilot!Answer(h)
  <2>1. hook[h].at = "answer" /\ UNCHANGED <<sent, logged>> /\ h \in chance
    BY <1>7 DEF Pilot!Answer, PilotInv
  <2> QED BY <1>3, <1>4, <1>5, <1>7, <2>1 DEF Pilot!Answer
<1>8. CASE Pilot!Send(h)
  <2>1. hook[h].at = "send" /\ logged' = logged /\ h \in chance
    BY <1>8 DEF Pilot!Send, PilotInv
  <2> QED BY <1>3, <1>4, <1>5, <1>8, <2>1 DEF Pilot!Send
<1>9. CASE Pilot!Log(h)
  <2>1. hook[h].at = "log" /\ sent' = sent /\ h \in sent
    BY <1>9 DEF Pilot!Log, PilotInv
  <2> QED BY <1>3, <1>4, <1>5, <1>9, <2>1 DEF Pilot!Log
<1> QED BY <1>6, <1>7, <1>8, <1>9

\* Writing a configuration gives a chance to every hook it lets through.
LEMMA PilotWrites ==
    ASSUME PilotInv, NEW c \in Pilot!Config, Pilot!SetAgentConfig(c),
           UNCHANGED <<wired, hook, sent, logged>>
    PROVE  /\ config' = c /\ chance \subseteq chance' /\ chance' \subseteq Hooks
           /\ sent' \subseteq chance'
           /\ \A h \in Hooks :
                 /\ hook'[h].at = "read" /\ config'.on /\ hook'[h].from \in config'.lets
                       => h \in chance'
                 /\ hook'[h].at \in {"answer", "send", "log"} => h \in chance'
                 /\ hook'[h].at = "log" => h \in sent'
<1>1. /\ config' = c
      /\ chance' = chance \cup {h \in Pilot!Running : Pilot!LetsThrough(c, h)}
  BY DEF Pilot!SetAgentConfig
<1>2. Pilot!Running \subseteq Hooks /\ chance \subseteq Hooks
  BY DEF Pilot!Running, PilotInv, Pilot!TypeOK
<1>3. \A h \in Hooks : hook[h].at = "read" /\ c.on /\ hook[h].from \in c.lets => h \in chance'
  BY <1>1 DEF Pilot!Running, Pilot!LetsThrough
<1> QED BY <1>1, <1>2, <1>3 DEF PilotInv

\* Edits change what lets hooks through, and what the edits amount to.
LEMMA PilotEdits ==
    ASSUME PilotInv,
           \/ \E c \in Pilot!Config : Pilot!Save(c)
           \/ \E x \in Toggles : Pilot!StartToggle(x) \/ Pilot!EndToggle(x)
    PROVE  PilotInv'
<1>1. Pilot!TypeOK
  BY DEF PilotInv
<1>2. ASSUME NEW c \in Pilot!Config, Pilot!Save(c) PROVE PilotInv'
  <2>1. /\ Pilot!SetAgentConfig(c) /\ wanted' = c /\ UNCHANGED <<wired, hook, sent, logged, toggle>>
        /\ muddled' \in BOOLEAN /\ (~muddled' => Pilot!Toggling = {})
    BY <1>2 DEF Pilot!Save, Pilot!hookVars
  <2>2. /\ config' = c /\ chance' \subseteq Hooks /\ sent' \subseteq chance'
        /\ \A h \in Hooks :
              /\ hook'[h].at = "read" /\ config'.on /\ hook'[h].from \in config'.lets
                    => h \in chance'
              /\ hook'[h].at \in {"answer", "send", "log"} => h \in chance'
              /\ hook'[h].at = "log" => h \in sent'
    BY <2>1, PilotWrites
  <2>3. Pilot!TypeOK'
    BY <1>1, <2>1, <2>2 DEF Pilot!TypeOK
  <2>4. ~muddled' => \A x \in Toggles : toggle'[x] = NoToggle
    BY <2>1 DEF Pilot!Toggling
  <2> QED BY <2>1, <2>2, <2>3, <2>4 DEF PilotInv
<1>3. ASSUME NEW x \in Toggles, Pilot!StartToggle(x) PROVE PilotInv'
  <2>1. /\ toggle[x] = NoToggle
        /\ UNCHANGED <<wired, hook, sent, logged, chance, config, wanted>>
        /\ \/ /\ toggle' = [toggle EXCEPT ![x] = config]
              /\ muddled' = (muddled \/ Pilot!Toggling # {})
           \/ toggle' = [toggle EXCEPT ![x] = Pilot!NoConfig] /\ muddled' = TRUE
    BY <1>3 DEF Pilot!StartToggle, Pilot!hookVars
  <2>2. Pilot!NoConfig \in Pilot!Config
    BY DEF Pilot!NoConfig, Pilot!Config
  <2>3. Pilot!TypeOK'
    BY <1>1, <2>1, <2>2 DEF Pilot!TypeOK
  <2>4. ASSUME ~muddled'
        PROVE  /\ ~muddled /\ \A y \in Toggles : y # x => toggle'[y] = NoToggle
               /\ toggle'[x] = config
    <3>1. ~muddled /\ Pilot!Toggling = {} /\ toggle' = [toggle EXCEPT ![x] = config]
      BY <2>4, <1>3 DEF Pilot!StartToggle
    <3>2. \A y \in Toggles : toggle[y] = NoToggle
      BY <3>1 DEF Pilot!Toggling
    <3> QED BY <1>1, <3>1, <3>2 DEF Pilot!TypeOK
  <2>5. ~muddled' =>
           /\ config' = wanted'
           /\ \A z \in Toggles : toggle'[z] # NoToggle => toggle'[z] = config'
           /\ \A y, z \in Toggles :
                 toggle'[y] # NoToggle /\ toggle'[z] # NoToggle => y = z
    BY <2>1, <2>4 DEF PilotInv
  <2>6. UNCHANGED <<config, hook, sent, chance>>
    BY <2>1
  <2> QED BY <2>3, <2>5, <2>6 DEF PilotInv
<1>4. ASSUME NEW x \in Toggles, Pilot!EndToggle(x) PROVE PilotInv'
  <2>1. /\ toggle[x] # NoToggle /\ toggle' = [toggle EXCEPT ![x] = NoToggle]
        /\ UNCHANGED <<wired, hook, sent, logged, muddled>>
    BY <1>4 DEF Pilot!EndToggle, Pilot!hookVars, Pilot!Toggling
  <2>2. toggle[x] \in Pilot!Config /\ wanted \in Pilot!Config
    BY <1>1, <2>1 DEF Pilot!TypeOK
  <2>3. \A c \in Pilot!Config : Pilot!Flipped(c) \in Pilot!Config
    BY DEF Pilot!Flipped, Pilot!Config
  <2>4. \A y \in Toggles : toggle'[y] = IF y = x THEN NoToggle ELSE toggle[y]
    BY <1>1, <2>1 DEF Pilot!TypeOK
  <2>5. CASE UNCHANGED <<config, chance, wanted>>
    <3>1. Pilot!TypeOK'
      BY <1>1, <2>1, <2>5 DEF Pilot!TypeOK
    <3> QED BY <2>1, <2>4, <2>5, <3>1 DEF PilotInv
  <2>6. CASE /\ Pilot!SetAgentConfig(Pilot!Flipped(toggle[x]))
             /\ wanted' = Pilot!Flipped(wanted)
    <3>1. Pilot!Flipped(toggle[x]) \in Pilot!Config
      BY <2>2, <2>3
    <3>2. /\ config' = Pilot!Flipped(toggle[x]) /\ chance' \subseteq Hooks
          /\ sent' \subseteq chance'
          /\ \A h \in Hooks :
                /\ hook'[h].at = "read" /\ config'.on /\ hook'[h].from \in config'.lets
                      => h \in chance'
                /\ hook'[h].at \in {"answer", "send", "log"} => h \in chance'
                /\ hook'[h].at = "log" => h \in sent'
      BY <2>1, <2>6, <3>1, PilotWrites
    <3>3. Pilot!TypeOK'
      BY <1>1, <2>1, <2>2, <2>3, <2>6, <3>1, <3>2 DEF Pilot!TypeOK
    <3>4. ASSUME ~muddled
          PROVE  toggle[x] = wanted /\ \A y \in Toggles : toggle'[y] = NoToggle
      BY <2>1, <2>4, <3>4 DEF PilotInv
    <3> QED BY <2>1, <2>6, <3>2, <3>3, <3>4 DEF PilotInv
  <2> QED BY <1>4, <2>5, <2>6 DEF Pilot!EndToggle
<1> QED BY <1>2, <1>3, <1>4

\* Every step of the autopilot keeps the invariant.
LEMMA PilotSteps == PilotInv /\ [Pilot!Next]_pilotVars => PilotInv'
<1> SUFFICES ASSUME PilotInv, [Pilot!Next]_pilotVars PROVE PilotInv'
  OBVIOUS
<1>1. Pilot!TypeOK
  BY DEF PilotInv
<1>2. CASE Pilot!SetOnMessage
  BY <1>2 DEF Pilot!SetOnMessage, Pilot!hookVars, Pilot!editVars, PilotInv, Pilot!TypeOK
<1>3. CASE Pilot!Restart
  <2>1. /\ wired' = FALSE /\ \A x \in Toggles : toggle'[x] = NoToggle
        /\ toggle' \in [Toggles -> {NoToggle}]
        /\ UNCHANGED <<sent, logged, chance, config, wanted, muddled>>
    BY <1>3 DEF Pilot!Restart
  <2>2. ASSUME NEW h \in Hooks
        PROVE  /\ hook'[h] \in [at : Pilot!Place, from : Numbers] \cup {Pilot!None}
               /\ hook'[h].at \in {"none", "end"}
    <3>1. hook'[h] = IF h \in Pilot!Running THEN [hook[h] EXCEPT !.at = "end"] ELSE hook[h]
      BY <1>3 DEF Pilot!Restart
    <3>2. CASE h \in Pilot!Running
      <4>1. hook[h] \in [at : Pilot!Place, from : Numbers]
        BY <1>1, <3>2, HookShape DEF Pilot!Running
      <4>2. "end" \in Pilot!Place
        BY DEF Pilot!Place
      <4> QED BY <3>1, <3>2, <4>1, <4>2
    <3>3. CASE h \notin Pilot!Running
      BY <1>1, <3>1, <3>3 DEF Pilot!Running, Pilot!TypeOK
    <3> QED BY <3>2, <3>3
  <2>3. hook' \in [Hooks -> [at : Pilot!Place, from : Numbers] \cup {Pilot!None}]
    BY <1>3, <2>2 DEF Pilot!Restart
  <2>4. Pilot!TypeOK'
    BY <1>1, <2>1, <2>3 DEF Pilot!TypeOK
  <2> QED BY <2>1, <2>2, <2>4 DEF PilotInv
<1>4. ASSUME NEW h \in Hooks, NEW n \in Numbers, Pilot!Deliver(h, n) PROVE PilotInv'
  <2>1. /\ hook' = [hook EXCEPT ![h] = [at |-> "read", from |-> n]]
        /\ chance' = IF config.on /\ n \in config.lets THEN chance \cup {h} ELSE chance
        /\ UNCHANGED <<wired, sent, logged, config, toggle, wanted, muddled>>
    BY <1>4 DEF Pilot!Deliver, Pilot!editVars
  <2>2. [at |-> "read", from |-> n] \in [at : Pilot!Place, from : Numbers]
    BY DEF Pilot!Place
  <2>3. Pilot!TypeOK'
    BY <1>1, <2>1, <2>2 DEF Pilot!TypeOK
  <2>4. /\ hook'[h].at = "read" /\ hook'[h].from = n
        /\ \A g \in Hooks : g # h => hook'[g] = hook[g]
    BY <1>1, <2>1 DEF Pilot!TypeOK
  <2> QED BY <2>1, <2>3, <2>4 DEF PilotInv
<1>5. CASE UNCHANGED pilotVars
  BY <1>5 DEF pilotVars, PilotInv, Pilot!TypeOK
<1> QED BY <1>2, <1>3, <1>4, <1>5, PilotAnswers, PilotEdits DEF Pilot!Next

-----------------------------------------------------------------------------
(* The doors *)

\* A credential that was issued has a user.
CredsHaveUsers ==
    \A c \in Door!Creds : cred[c] # Door!NoCred => cred[c].user \in People

\* What was wrong with a credential when the request came is still wrong until
\* the check that looks at it, and nothing is wrong behind the last one.
DeadIsStopped ==
    req # Door!Out =>
        /\ "credential" \in req.dead => req.at = "key" /\ req.cred \in expired
        /\ req.at = "key" =>
              \/ req.cred \in expired
              \/ /\ cred[req.cred] # Door!NoCred
                 /\ "user" \in req.dead => user[cred[req.cred].user] # "on"
        /\ req.at = "user" =>
              /\ req.user \in People
              /\ "user" \in req.dead => user[req.user] # "on"
        /\ req.at \in {"perms", "scope", "tool", "in"} => req.dead = {}

\* A request has its account from MCPScope on.
ScopeIsKept ==
    req # Door!Out /\ req.at \in {"tool", "in"} /\ req.door = "mcp" =>
        /\ req.bound \in {NoAccount, req.account}
        /\ req.bound = NoAccount => req.asked \in {NoAccount, req.account}
        /\ req.admin \/ (req.account # NoAccount /\ OwnerOf[req.account] = req.user)

DoorInv == Door!TypeOK /\ CredsHaveUsers /\ DeadIsStopped /\ ScopeIsKept

\* At first there is no credential and no request.
LEMMA DoorStart == Door!Init => DoorInv
<1> SUFFICES ASSUME Door!Init PROVE DoorInv
  OBVIOUS
<1>1. Door!NoCred \in Door!Credential
  BY DEF Door!NoCred, Door!Credential
<1>2. Door!TypeOK
  BY <1>1 DEF Door!Init, Door!TypeOK
<1> QED BY <1>2 DEF Door!Init, DoorInv, CredsHaveUsers, DeadIsStopped, ScopeIsKept

\* Edits that revoke, or issue what was never issued, stop nobody less.
LEMMA RevokingStops ==
    ASSUME DoorInv, Door!TypeOK', CredsHaveUsers', req' = req, expired \subseteq expired',
           \A c \in Door!Creds : cred[c] # Door!NoCred => cred'[c] = cred[c] \/ c \in expired',
           \A v \in People : user[v] # "on" => user'[v] # "on"
    PROVE  DoorInv'
<1>1. ScopeIsKept'
  BY DEF DoorInv, ScopeIsKept
<1>2. req # Door!Out => req.cred \in Door!Creds
  BY DEF DoorInv, Door!TypeOK, Door!Request
<1>3. DeadIsStopped'
  <2> SUFFICES ASSUME req # Door!Out PROVE DeadIsStopped'
    BY DEF DeadIsStopped
  <2>1. req.at = "key" /\ req.cred \notin expired =>
           cred[req.cred].user \in People
    BY <1>2 DEF DoorInv, CredsHaveUsers, DeadIsStopped
  <2> QED BY <1>2, <2>1 DEF DoorInv, DeadIsStopped
<1> QED BY <1>1, <1>3 DEF DoorInv

\* Enabling a user excuses the requests of the user.
LEMMA EnablingExcuses ==
    ASSUME DoorInv, NEW u \in People, NEW on \in BOOLEAN, Door!SetEnabled(u, on)
    PROVE  DoorInv'
<1>1. UNCHANGED <<power, deleted, cred, expired>>
      /\ user' = [user EXCEPT ![u] = IF on THEN "on" ELSE "off"]
  BY DEF Door!SetEnabled
<1>2. Door!TypeOK /\ CredsHaveUsers /\ CredsHaveUsers'
  BY <1>1 DEF DoorInv, CredsHaveUsers
<1>3. \A v \in People : v # u => user'[v] = user[v]
  BY <1>1, <1>2 DEF Door!TypeOK
<1>4. CASE req' = req /\ ~on
  <2>1. Door!TypeOK' /\ user'[u] = "off"
    BY <1>1, <1>2, <1>4 DEF Door!TypeOK
  <2> QED BY <1>1, <1>2, <1>3, <1>4, <2>1, RevokingStops
<1>5. CASE req = Door!Out /\ req' = req
  <2>1. Door!TypeOK'
    BY <1>1, <1>2, <1>5 DEF Door!TypeOK
  <2> QED BY <1>2, <1>5, <2>1 DEF DoorInv, DeadIsStopped, ScopeIsKept
<1>6. ASSUME req # Door!Out, req' = req, u \notin {req.user, cred[req.cred].user}
      PROVE  DoorInv'
  <2>1. Door!TypeOK'
    BY <1>1, <1>2, <1>6 DEF Door!TypeOK
  <2>2. req.cred \in Door!Creds
    BY <1>2, <1>6 DEF Door!TypeOK, Door!Request
  <2>3. req.at = "key" /\ req.cred \notin expired => cred[req.cred].user \in People
    BY <1>2, <1>6, <2>2 DEF DoorInv, CredsHaveUsers, DeadIsStopped
  <2>4. DeadIsStopped'
    BY <1>1, <1>3, <1>6, <2>3 DEF DoorInv, DeadIsStopped
  <2> QED BY <1>2, <1>6, <2>1, <2>4 DEF DoorInv, ScopeIsKept
<1>7. ASSUME req # Door!Out, req' = [req EXCEPT !.dead = @ \ {"user"}] PROVE DoorInv'
  <2>1. req \in Door!Request
    BY <1>2, <1>7 DEF Door!TypeOK
  <2>2. /\ req' \in Door!Request /\ req'.dead = req.dead \ {"user"}
        /\ req'.at = req.at /\ req'.cred = req.cred /\ req'.user = req.user
        /\ req'.door = req.door /\ req'.bound = req.bound /\ req'.account = req.account
        /\ req'.asked = req.asked /\ req'.admin = req.admin
    BY <1>7, <2>1 DEF Door!Request
  <2>3. Door!TypeOK'
    BY <1>1, <1>2, <2>2 DEF Door!TypeOK
  <2>4. DeadIsStopped'
    BY <1>1, <1>7, <2>2 DEF DoorInv, DeadIsStopped
  <2>5. ScopeIsKept'
    BY <1>7, <2>2 DEF DoorInv, ScopeIsKept
  <2> QED BY <1>2, <2>3, <2>4, <2>5 DEF DoorInv
<1>8. req = Door!Out <=> Door!At("out")
  BY <1>2 DEF Door!TypeOK, Door!Request, Door!At, Door!Out
<1> QED BY <1>4, <1>5, <1>6, <1>7, <1>8 DEF Door!SetEnabled

\* Rows of keys that are deleted.
LEMMA DroppedKeys ==
    ASSUME Door!TypeOK, CredsHaveUsers, NEW C \in SUBSET Door!Creds, Door!Drop(C)
    PROVE  /\ cred' \in [Door!Creds -> Door!Credential] /\ expired' \subseteq Door!Creds
           /\ expired \subseteq expired' /\ CredsHaveUsers'
           /\ \A c \in Door!Creds :
                 cred[c] # Door!NoCred => cred'[c] = cred[c] \/ c \in expired'
<1>1. Door!NoCred \in Door!Credential
  BY DEF Door!NoCred, Door!Credential
<1> QED BY <1>1 DEF Door!Drop, Door!TypeOK, CredsHaveUsers

\* A credential that was never issued is issued.
LEMMA IssuedCred ==
    ASSUME DoorInv, NEW c \in Door!Creds, NEW u \in People,
           NEW a \in Accounts \cup {NoAccount}, Door!Issue(c, u, a)
    PROVE  DoorInv'
<1>1. /\ cred' = [cred EXCEPT ![c] = [user |-> u, bound |-> a]]
      /\ UNCHANGED <<user, power, deleted, expired, req>> /\ cred[c] = Door!NoCred
  BY DEF Door!Issue
<1>2. [user |-> u, bound |-> a] \in Door!Credential
  BY DEF Door!Credential
<1>3. Door!TypeOK /\ CredsHaveUsers
  BY DEF DoorInv
<1>4. \A d \in Door!Creds : cred'[d] = IF d = c THEN [user |-> u, bound |-> a] ELSE cred[d]
  BY <1>1, <1>3 DEF Door!TypeOK
<1>5. Door!TypeOK' /\ CredsHaveUsers'
  BY <1>1, <1>2, <1>3, <1>4 DEF Door!TypeOK, CredsHaveUsers
<1> QED BY <1>1, <1>4, <1>5, RevokingStops

\* Users, roles, accounts and credentials change.
LEMMA DoorEdits ==
    ASSUME DoorInv,
           \/ \E u \in People : Door!Editing(u)
           \/ \E k \in Roles : Door!SetPower(k)
           \/ \E a \in Accounts : Door!DeleteAccount(a)
           \/ \E c \in Door!Creds : Door!Expire(c)
    PROVE  DoorInv'
<1>1. Door!TypeOK /\ CredsHaveUsers
  BY DEF DoorInv
<1>2. Keys \subseteq Door!Creds
  BY DEF Door!Creds
<1>3. ASSUME NEW u \in People, Door!DeleteUser(u) PROVE DoorInv'
  <2> DEFINE C == {c \in Keys : cred[c].user = u}
  <2>1. /\ user' = [user EXCEPT ![u] = "gone"] /\ Door!Drop(C)
        /\ UNCHANGED <<power, deleted, req>>
    BY <1>3 DEF Door!DeleteUser
  <2>2. C \in SUBSET Door!Creds
    BY <1>2
  <2> HIDE DEF C
  <2>3. Door!TypeOK'
    BY <1>1, <2>1, <2>2, DroppedKeys DEF Door!TypeOK
  <2>4. \A v \in People : user[v] # "on" => user'[v] # "on"
    BY <1>1, <2>1 DEF Door!TypeOK
  <2> QED BY <1>1, <2>1, <2>2, <2>3, <2>4, DroppedKeys, RevokingStops
<1>4. ASSUME NEW C \in SUBSET Door!Creds, Door!Drop(C), UNCHANGED <<user, power, req>>,
             deleted' \subseteq Accounts
      PROVE  DoorInv'
  <2>1. Door!TypeOK'
    BY <1>1, <1>4, DroppedKeys DEF Door!TypeOK
  <2> QED BY <1>1, <1>4, <2>1, DroppedKeys, RevokingStops
<1>5. ASSUME NEW a \in Accounts, Door!DeleteAccount(a) PROVE DoorInv'
  <2>1. {c \in Keys : cred[c].bound = a} \in SUBSET Door!Creds
    BY <1>2
  <2>2. deleted' \subseteq Accounts
    BY <1>1, <1>5 DEF Door!DeleteAccount, Door!TypeOK
  <2> QED BY <1>4, <1>5, <2>1, <2>2 DEF Door!DeleteAccount
<1>6. ASSUME NEW u \in People, NEW c \in Door!Creds, Door!DeleteAPIKey(c, u) PROVE DoorInv'
  <2>1. {c} \in SUBSET Door!Creds /\ deleted' \subseteq Accounts
    BY <1>1, <1>6 DEF Door!DeleteAPIKey, Door!TypeOK
  <2> QED BY <1>4, <1>6, <2>1 DEF Door!DeleteAPIKey
<1>7. ASSUME NEW u \in People, NEW c \in Door!Creds,
             \/ Door!Login(c, u)
             \/ \E a \in Accounts \cup {NoAccount} :
                   Door!CreateAPIKey(c, u, a) \/ Door!APIKeysCreate(c, u, a)
      PROVE  DoorInv'
  BY <1>7, IssuedCred DEF Door!Login, Door!CreateAPIKey, Door!APIKeysCreate
<1>8. ASSUME NEW k \in Roles, Door!SetPower(k) PROVE DoorInv'
  <2>1. UNCHANGED <<user, deleted, cred, expired, req>> /\ power' \subseteq Roles
    BY <1>1, <1>8 DEF Door!SetPower, Door!TypeOK
  <2>2. Door!TypeOK' /\ CredsHaveUsers'
    BY <1>1, <2>1 DEF Door!TypeOK, CredsHaveUsers
  <2> QED BY <2>1, <2>2, RevokingStops
<1>9. ASSUME NEW c \in Door!Creds, Door!Expire(c) PROVE DoorInv'
  <2>1. UNCHANGED <<user, power, deleted, cred, req>> /\ expired' = expired \cup {c}
    BY <1>9 DEF Door!Expire
  <2>2. Door!TypeOK' /\ CredsHaveUsers'
    BY <1>1, <2>1 DEF Door!TypeOK, CredsHaveUsers
  <2> QED BY <2>1, <2>2, RevokingStops
<1> QED BY <1>3, <1>5, <1>6, <1>7, <1>8, <1>9, EnablingExcuses
        DEF Door!Editing, Door!LoginSubmit, Door!APIKeysDelete

\* A request that moves on while nothing else changes.
LEMMA RequestMovesOn ==
    ASSUME DoorInv, UNCHANGED <<user, power, deleted, cred, expired>>,
           \/ req' = Door!Out
           \/ req' \in Door!Request /\ DeadIsStopped' /\ ScopeIsKept'
    PROVE  DoorInv'
<1>1. Door!TypeOK' /\ CredsHaveUsers'
  BY DEF DoorInv, Door!TypeOK, CredsHaveUsers
<1> QED BY <1>1 DEF DoorInv, DeadIsStopped, ScopeIsKept

\* A request starts with what is wrong with its credential written down.
LEMMA RequestArrives ==
    ASSUME DoorInv, NEW c \in Door!Creds, NEW door \in Door!Doors,
           NEW a \in Accounts \cup {NoAccount}, Door!Arrive(c, door, a)
    PROVE  DoorInv'
<1> DEFINE u == cred[c].user
           good == u # NoUser /\ c \notin expired
           dead == {x \in {"credential", "user"} :
                       IF x = "user" THEN u \in People /\ user[u] # "on" ELSE ~good}
           q == [at |-> IF c \in Keys THEN "key" ELSE "user", door |-> door,
                 cred |-> c, user |-> IF c \in Keys THEN NoUser ELSE u,
                 bound |-> NoAccount, asked |-> a, admin |-> FALSE,
                 account |-> NoAccount, dead |-> dead]
<1>1. /\ UNCHANGED <<user, power, deleted, cred, expired>> /\ req' = q
      /\ u # NoUser \/ c \in expired
      /\ c \in Tokens => good
  BY DEF Door!Arrive
<1>2. Door!TypeOK /\ CredsHaveUsers /\ u \in People \cup {NoUser}
  BY DEF DoorInv, Door!TypeOK, Door!Credential
<1>3. dead \in SUBSET {"credential", "user"}
  OBVIOUS
<1>4. /\ "credential" \in dead <=> ~good
      /\ "user" \in dead <=> u \in People /\ user[u] # "on"
  OBVIOUS
<1>5. c \in Keys \/ c \in Tokens
  BY DEF Door!Creds
<1> HIDE DEF dead
<1>6. q \in Door!Request
  BY <1>2, <1>3 DEF Door!Request
<1>7. u # NoUser => cred[c] # Door!NoCred /\ u \in People
  BY <1>2 DEF Door!NoCred
<1>8. /\ q.at = IF c \in Keys THEN "key" ELSE "user"
      /\ q.cred = c /\ q.dead = dead /\ (c \notin Keys => q.user = u)
  OBVIOUS
<1> HIDE DEF q
<1>9. DeadIsStopped'
  BY <1>1, <1>4, <1>5, <1>7, <1>8 DEF DeadIsStopped
<1>10. ScopeIsKept'
  BY <1>1, <1>8 DEF ScopeIsKept
<1> QED BY <1>1, <1>6, <1>9, <1>10, RequestMovesOn

\* The checks of Auth and WebAuth.
LEMMA RequestIsChecked ==
    ASSUME DoorInv, Door!CheckKey \/ Door!WebCheckKey \/ Door!CheckUser
    PROVE  DoorInv'
<1>1. Door!TypeOK /\ CredsHaveUsers /\ DeadIsStopped
  BY DEF DoorInv
<1>2. UNCHANGED <<user, power, deleted, cred, expired>>
  BY DEF Door!CheckKey, Door!WebCheckKey, Door!CheckUser
<1>3. req \in Door!Request /\ req # Door!Out
  BY <1>1 DEF Door!TypeOK, Door!Out, Door!At, Door!CheckKey, Door!WebCheckKey, Door!CheckUser
<1>4. req.cred \in Door!Creds
  BY <1>3 DEF Door!Request
<1>5. CASE req' = Door!Out
  BY <1>2, <1>5, RequestMovesOn
<1>6. ASSUME NEW b \in Accounts \cup {NoAccount}, req.at = "key", Door!Good(req.cred),
             req' = [req EXCEPT !.at = "user", !.user = cred[req.cred].user, !.bound = b]
      PROVE  DoorInv'
  <2>1. /\ req' \in Door!Request /\ req'.at = "user" /\ req'.user = cred[req.cred].user
        /\ req'.dead = req.dead /\ req'.cred = req.cred
    BY <1>1, <1>3, <1>4, <1>6 DEF Door!Request, Door!TypeOK, Door!Credential
  <2>2. cred[req.cred].user \in People /\ req.cred \notin expired
    BY <1>1, <1>4, <1>6 DEF Door!Good, CredsHaveUsers
  <2>3. DeadIsStopped'
    BY <1>1, <1>2, <1>3, <1>6, <2>1, <2>2 DEF DeadIsStopped
  <2>4. ScopeIsKept'
    BY <2>1 DEF ScopeIsKept
  <2> QED BY <1>2, <2>1, <2>3, <2>4, RequestMovesOn
<1>7. CASE Door!CheckKey
  <2>1. cred[req.cred].bound \in Accounts \cup {NoAccount}
    BY <1>1, <1>4 DEF Door!TypeOK, Door!Credential
  <2> QED BY <1>5, <1>6, <1>7, <2>1 DEF Door!CheckKey, Door!At, Door!Refuse
<1>8. CASE Door!WebCheckKey
  <2>1. req.bound \in Accounts \cup {NoAccount}
    BY <1>3 DEF Door!Request
  <2>2. [req EXCEPT !.at = "user", !.user = cred[req.cred].user]
           = [req EXCEPT !.at = "user", !.user = cred[req.cred].user, !.bound = req.bound]
    BY <1>3 DEF Door!Request
  <2> QED BY <1>5, <1>6, <1>8, <2>1, <2>2 DEF Door!WebCheckKey, Door!At, Door!Refuse
<1>9. CASE Door!CheckUser
  <2>1. ASSUME user[req.user] = "on", req' = [req EXCEPT !.at = "perms"]
        PROVE  DoorInv'
    <3>1. req' \in Door!Request /\ req'.at = "perms" /\ req'.dead = req.dead
      BY <1>3, <2>1 DEF Door!Request
    <3>2. req.dead \subseteq {"credential", "user"}
      BY <1>3 DEF Door!Request
    <3>3. "credential" \notin req.dead /\ "user" \notin req.dead
      BY <1>1, <1>3, <1>9, <2>1 DEF DeadIsStopped, Door!CheckUser, Door!At
    <3>4. req'.dead = {}
      BY <3>1, <3>2, <3>3
    <3>5. DeadIsStopped' /\ ScopeIsKept'
      BY <3>1, <3>4 DEF DeadIsStopped, ScopeIsKept
    <3> QED BY <1>2, <3>1, <3>5, RequestMovesOn
  <2> QED BY <1>5, <1>9, <2>1 DEF Door!CheckUser, Door!Refuse
<1> QED BY <1>7, <1>8, <1>9

\* Behind the check of the user: permissions, scope and account.
LEMMA RequestIsScoped ==
    ASSUME DoorInv, Door!DoorAssumption,
           \/ Door!ReadPermissions \/ Door!WebReadPermissions
           \/ Door!MCPScope \/ Door!ResolveAccount \/ Door!ListAccounts
    PROVE  DoorInv'
<1>1. Door!TypeOK /\ DeadIsStopped /\ ScopeIsKept
  BY DEF DoorInv
<1>2. UNCHANGED <<user, power, deleted, cred, expired>>
  BY DEF Door!ReadPermissions, Door!WebReadPermissions, Door!MCPScope,
         Door!ResolveAccount, Door!ListAccounts
<1>3. req \in Door!Request /\ req # Door!Out /\ req.at \in {"perms", "scope", "tool"}
  <2>1. Door!At("perms") \/ Door!At("scope") \/ Door!At("tool")
    BY Zenon DEF Door!ReadPermissions, Door!WebReadPermissions, Door!MCPScope,
                 Door!ResolveAccount, Door!ListAccounts
  <2> QED BY <1>1, <2>1 DEF Door!TypeOK, Door!Out, Door!At
<1>4. req.dead = {}
  BY <1>1, <1>3 DEF DeadIsStopped
<1>5. CASE req' = Door!Out
  BY <1>2, <1>5, RequestMovesOn
<1>6. ASSUME req' \in Door!Request, req'.dead = req.dead,
             req'.at \in {"scope", "tool", "in"}, ScopeIsKept'
      PROVE  DoorInv'
  <2>1. DeadIsStopped'
    BY <1>4, <1>6 DEF DeadIsStopped
  <2> QED BY <1>2, <1>6, <2>1, RequestMovesOn
<1>7. Door!Administers \in BOOLEAN
  BY DEF Door!Administers
<1>8. CASE Door!ReadPermissions
  <2>1. ASSUME req' = [req EXCEPT !.at = IF req.door = "mcp" THEN "scope" ELSE "in",
                                  !.admin = Door!Administers]
        PROVE  DoorInv'
    <3>1. /\ req' \in Door!Request /\ req'.dead = req.dead /\ req'.door = req.door
          /\ req'.at = IF req.door = "mcp" THEN "scope" ELSE "in"
      BY <1>3, <1>7, <2>1 DEF Door!Request
    <3>2. ScopeIsKept'
      BY <3>1 DEF ScopeIsKept
    <3> QED BY <1>6, <3>1, <3>2
  <2> QED BY <1>5, <1>8, <2>1 DEF Door!ReadPermissions, Door!Refuse
<1>9. CASE Door!WebReadPermissions
  <2>1. PICK admin \in {Door!Administers, FALSE} :
           req' = [req EXCEPT !.at = "in", !.admin = admin]
    BY <1>9 DEF Door!WebReadPermissions
  <2>2. /\ req' \in Door!Request /\ req'.dead = req.dead /\ req'.door = req.door
        /\ req'.at = "in" /\ req.door = "web"
    BY <1>3, <1>7, <1>9, <2>1 DEF Door!Request, Door!WebReadPermissions
  <2>3. ScopeIsKept'
    BY <2>2 DEF ScopeIsKept
  <2> QED BY <1>6, <2>2, <2>3
<1>10. CASE Door!MCPScope
  <2> DEFINE a == IF req.bound # NoAccount THEN req.bound ELSE req.asked
  <2>1. ASSUME req.admin \/ Door!Owns(a), req' = [req EXCEPT !.at = "tool", !.account = a]
        PROVE  DoorInv'
    <3>1. a \in Accounts \cup {NoAccount}
      BY <1>3 DEF Door!Request
    <3>2. /\ req' \in Door!Request /\ req'.dead = req.dead /\ req'.at = "tool"
          /\ req'.account = a /\ req'.bound = req.bound /\ req'.asked = req.asked
          /\ req'.admin = req.admin /\ req'.user = req.user
      BY <1>3, <2>1, <3>1 DEF Door!Request
    <3>3. req.admin \/ (a # NoAccount /\ OwnerOf[a] = req.user)
      BY <2>1 DEF Door!Owns, Door!Here, Door!DoorAssumption
    <3>4. ScopeIsKept'
      BY <3>2, <3>3 DEF ScopeIsKept
    <3> QED BY <1>6, <3>2, <3>4
  <2> QED BY <1>5, <1>10, <2>1 DEF Door!MCPScope, Door!Refuse
<1>11. CASE Door!ResolveAccount
  <2>1. ASSUME NEW a \in Accounts,
               IF req.account = NoAccount THEN req.admin ELSE a = req.account,
               req.admin \/ Door!Owns(a), req' = [req EXCEPT !.at = "in", !.account = a]
        PROVE  DoorInv'
    <3>1. /\ req' \in Door!Request /\ req'.dead = req.dead /\ req'.at = "in"
          /\ req'.account = a /\ req'.bound = req.bound /\ req'.asked = req.asked
          /\ req'.admin = req.admin /\ req'.user = req.user /\ req'.door = req.door
      BY <1>3, <2>1 DEF Door!Request
    <3>2. req.admin \/ (a # NoAccount /\ OwnerOf[a] = req.user)
      BY <2>1 DEF Door!Owns, Door!Here, Door!DoorAssumption
    <3>3. req.at = "tool"
      BY <1>11 DEF Door!ResolveAccount, Door!At
    <3>4. ScopeIsKept'
      BY <1>1, <1>3, <2>1, <3>1, <3>2, <3>3 DEF ScopeIsKept
    <3> QED BY <1>6, <3>1, <3>4
  <2> QED BY <1>5, <1>11, <2>1 DEF Door!ResolveAccount, Door!Refuse
<1>12. CASE Door!ListAccounts
  <2>1. ASSUME req' = [req EXCEPT !.at = "in"] PROVE DoorInv'
    <3>1. /\ req' \in Door!Request /\ req'.dead = req.dead /\ req'.at = "in"
          /\ req'.account = req.account /\ req'.bound = req.bound
          /\ req'.asked = req.asked /\ req'.admin = req.admin
          /\ req'.user = req.user /\ req'.door = req.door
      BY <1>3, <2>1 DEF Door!Request
    <3>2. req.at = "tool"
      BY <1>12 DEF Door!ListAccounts, Door!At
    <3>3. ScopeIsKept'
      BY <1>1, <1>3, <3>1, <3>2 DEF ScopeIsKept
    <3> QED BY <1>6, <3>1, <3>3
  <2> QED BY <1>5, <1>12, <2>1 DEF Door!ListAccounts, Door!Refuse
<1> QED BY <1>8, <1>9, <1>10, <1>11, <1>12

\* Every step at the doors keeps the invariant.
LEMMA DoorSteps ==
    Door!DoorAssumption /\ DoorInv /\ [Door!Next]_doorVars => DoorInv'
<1> SUFFICES ASSUME Door!DoorAssumption, DoorInv, [Door!Next]_doorVars PROVE DoorInv'
  OBVIOUS
<1>1. CASE Door!Leave
  BY <1>1, RequestMovesOn DEF Door!Leave, Door!Refuse
<1>2. CASE UNCHANGED doorVars
  BY <1>2 DEF doorVars, DoorInv, Door!TypeOK, CredsHaveUsers, DeadIsStopped, ScopeIsKept
<1> QED BY <1>1, <1>2, DoorEdits, RequestArrives, RequestIsChecked, RequestIsScoped
        DEF Door!Next

-----------------------------------------------------------------------------
(* The assistant *)

\* s is what the end of t looks like.
Ends(s, t) ==
    Len(s) <= Len(t) /\ \A i \in 1..Len(s) : s[i] = t[Len(t) - Len(s) + i]

\* What reversing a sequence returns.
LEMMA ReverseIs ==
    ASSUME NEW T, NEW s \in Seq(T)
    PROVE  /\ Assistant!Reverse(s) \in Seq(T) /\ Len(Assistant!Reverse(s)) = Len(s)
           /\ \A i \in 1..Len(s) : Assistant!Reverse(s)[i] = s[Len(s) - i + 1]
<1>1. \A i \in 1..Len(s) : s[Len(s) - i + 1] \in T
  OBVIOUS
<1> QED BY <1>1 DEF Assistant!Reverse

\* IsSuffix of the library, without reversing.
LEMMA SuffixIs ==
    ASSUME NEW T, NEW s \in Seq(T), NEW t \in Seq(T)
    PROVE  Assistant!IsSuffix(s, t) <=> Ends(s, t)
<1> DEFINE r == Assistant!Reverse(s)
           q == Assistant!Reverse(t)
<1>1. /\ r \in Seq(T) /\ Len(r) = Len(s) /\ \A i \in 1..Len(s) : r[i] = s[Len(s) - i + 1]
      /\ q \in Seq(T) /\ Len(q) = Len(t) /\ \A i \in 1..Len(t) : q[i] = t[Len(t) - i + 1]
  BY ReverseIs
<1>2. Assistant!IsSuffix(s, t)
         <=> Len(r) <= Len(q) /\ SubSeq(r, 1, Len(r)) = SubSeq(q, 1, Len(r))
  BY DEF Assistant!IsSuffix, Assistant!IsPrefix
<1> HIDE DEF r, q
<1>3. ASSUME Len(s) <= Len(t)
      PROVE  SubSeq(r, 1, Len(r)) = SubSeq(q, 1, Len(r)) <=> \A i \in 1..Len(s) : r[i] = q[i]
  BY <1>1, <1>3
<1>4. ASSUME Len(s) <= Len(t), \A i \in 1..Len(s) : r[i] = q[i] PROVE Ends(s, t)
  <2> SUFFICES ASSUME NEW i \in 1..Len(s) PROVE s[i] = t[Len(t) - Len(s) + i]
    BY <1>4 DEF Ends
  <2> DEFINE j == Len(s) - i + 1
  <2>1. j \in 1..Len(s) /\ j = Len(s) - i + 1
    OBVIOUS
  <2> HIDE DEF j
  <2>2. j \in 1..Len(t) /\ Len(s) - j + 1 = i /\ Len(t) - j + 1 = Len(t) - Len(s) + i
    BY <1>4, <2>1
  <2>3. r[j] = s[i] /\ q[j] = t[Len(t) - Len(s) + i]
    BY <1>1, <2>1, <2>2
  <2> QED BY <1>4, <2>1, <2>3
<1>5. ASSUME Ends(s, t), NEW i \in 1..Len(s) PROVE r[i] = q[i]
  <2> DEFINE j == Len(s) - i + 1
  <2>1. j \in 1..Len(s) /\ j = Len(s) - i + 1
    OBVIOUS
  <2> HIDE DEF j
  <2>2. Len(t) - Len(s) + j = Len(t) - i + 1 /\ i \in 1..Len(t)
    BY <1>5, <2>1 DEF Ends
  <2>3. s[j] = t[Len(t) - i + 1]
    BY <1>5, <2>1, <2>2 DEF Ends
  <2> QED BY <1>1, <2>1, <2>2, <2>3
<1>6. Ends(s, t) => Len(s) <= Len(t)
  BY DEF Ends
<1> QED BY <1>1, <1>2, <1>3, <1>4, <1>5, <1>6

\* What KeepLast returns.
LEMMA KeepLastIs ==
    ASSUME Assistant!CopilotAssumption, NEW T, NEW s \in Seq(T)
    PROVE  /\ Assistant!KeepLast(s) \in Seq(T) /\ Len(Assistant!KeepLast(s)) <= Keep
           /\ Ends(Assistant!KeepLast(s), s)
           /\ Assistant!KeepLast(s) = s \/ Len(Assistant!KeepLast(s)) = Keep
           /\ Len(s) >= Keep => Len(Assistant!KeepLast(s)) = Keep
<1>1. Keep \in Nat \ {0} /\ Len(s) \in Nat
  BY DEF Assistant!CopilotAssumption
<1>2. CASE Len(s) > Keep
  <2> DEFINE k == SubSeq(s, Len(s) - Keep + 1, Len(s))
  <2>1. \A i \in (Len(s) - Keep + 1)..Len(s) : s[i] \in T
    BY <1>1, <1>2
  <2>2. /\ k \in Seq(T) /\ Len(k) = Keep
        /\ \A i \in 1..Keep : k[i] = s[Len(s) - Keep + 1 + i - 1]
    BY <1>1, <1>2, <2>1, SubSeqProperties
  <2>3. \A i \in 1..Keep : k[i] = s[Len(s) - Keep + i]
    BY <1>1, <2>2
  <2>4. Assistant!KeepLast(s) = k
    BY <1>2 DEF Assistant!KeepLast
  <2> HIDE DEF k
  <2>5. Ends(k, s)
    BY <1>1, <1>2, <2>2, <2>3 DEF Ends
  <2> QED BY <1>1, <2>2, <2>4, <2>5
<1>3. CASE ~(Len(s) > Keep)
  BY <1>1, <1>3 DEF Assistant!KeepLast, Ends
<1> QED BY <1>2, <1>3

\* The end of an end is an end, also when both go on in the same way.
LEMMA EndsGoOn ==
    ASSUME NEW T, NEW s \in Seq(T), NEW t \in Seq(T), NEW m \in Seq(T), NEW e \in Seq(T),
           Ends(s, t), Ends(e, s \o m)
    PROVE  Ends(e, t \o m)
<1>1. /\ Len(s \o m) = Len(s) + Len(m) /\ Len(t \o m) = Len(t) + Len(m)
      /\ \A i \in 1..Len(s) + Len(m) :
            (s \o m)[i] = IF i <= Len(s) THEN s[i] ELSE m[i - Len(s)]
      /\ \A i \in 1..Len(t) + Len(m) :
            (t \o m)[i] = IF i <= Len(t) THEN t[i] ELSE m[i - Len(t)]
      /\ Len(s) \in Nat /\ Len(t) \in Nat /\ Len(m) \in Nat /\ Len(e) \in Nat
      /\ Len(s) <= Len(t)
  BY ConcatProperties DEF Ends
<1>2. ASSUME NEW i \in 1..(Len(s) + Len(m))
      PROVE  (s \o m)[i] = (t \o m)[Len(t) - Len(s) + i]
  <2>1. CASE i <= Len(s)
    <3>1. s[i] = t[Len(t) - Len(s) + i]
      BY <2>1, <1>1 DEF Ends
    <3> QED BY <1>1, <2>1, <3>1
  <2>2. CASE i > Len(s)
    <3> DEFINE j == Len(t) - Len(s) + i
    <3>1. j \in 1..(Len(t) + Len(m)) /\ j > Len(t) /\ j - Len(t) = i - Len(s)
      BY <1>1, <2>2
    <3> HIDE DEF j
    <3>2. (t \o m)[j] = m[j - Len(t)] /\ (s \o m)[i] = m[i - Len(s)]
      BY <1>1, <2>2, <3>1
    <3> QED BY <3>1, <3>2 DEF j
  <2> QED BY <1>1, <2>1, <2>2
<1>3. ASSUME NEW i \in 1..Len(e) PROVE e[i] = (t \o m)[Len(t \o m) - Len(e) + i]
  <2>1. /\ Len(s \o m) - Len(e) + i \in 1..(Len(s) + Len(m))
        /\ e[i] = (s \o m)[Len(s \o m) - Len(e) + i]
    BY <1>1 DEF Ends
  <2>2. Len(t) - Len(s) + (Len(s \o m) - Len(e) + i) = Len(t \o m) - Len(e) + i
    BY <1>1
  <2> QED BY <1>2, <2>1, <2>2
<1> QED BY <1>1, <1>3 DEF Ends

\* The turns of sequences.
LEMMA TurnsIn ==
    ASSUME NEW s \in Seq(Assistant!Message), NEW m \in Seq(Assistant!Message)
    PROVE  /\ Assistant!TurnsOf(s \o m) \subseteq Assistant!TurnsOf(s) \cup Assistant!TurnsOf(m)
           /\ Ends(m, s) => Assistant!TurnsOf(m) \subseteq Assistant!TurnsOf(s)
           /\ Assistant!TurnsOf(<<>>) = {}
<1>1. ASSUME NEW k \in DOMAIN (s \o m)
      PROVE  (s \o m)[k][1] \in Assistant!TurnsOf(s) \cup Assistant!TurnsOf(m)
  <2>1. k \in 1..(Len(s) + Len(m))
    BY <1>1, ConcatProperties, LenProperties
  <2>2. CASE k <= Len(s)
    <3>1. k \in DOMAIN s /\ (s \o m)[k] = s[k]
      BY <2>1, <2>2
    <3> QED BY <3>1 DEF Assistant!TurnsOf
  <2>3. CASE k > Len(s)
    <3>1. k - Len(s) \in DOMAIN m /\ (s \o m)[k] = m[k - Len(s)]
      BY <2>1, <2>3
    <3> QED BY <3>1 DEF Assistant!TurnsOf
  <2> QED BY <2>1, <2>2, <2>3
<1>2. ASSUME Ends(m, s), NEW k \in DOMAIN m PROVE m[k][1] \in Assistant!TurnsOf(s)
  <2>1. k \in 1..Len(m) /\ Len(m) <= Len(s) /\ m[k] = s[Len(s) - Len(m) + k]
    BY <1>2 DEF Ends
  <2>2. Len(s) - Len(m) + k \in DOMAIN s
    BY <2>1
  <2> QED BY <2>1, <2>2 DEF Assistant!TurnsOf
<1>3. Assistant!TurnsOf(<<>>) = {}
  BY DEF Assistant!TurnsOf
<1> QED BY <1>1, <1>2, <1>3 DEF Assistant!TurnsOf

\* The turns whose chats are over, which they stay.
OverTurns == {t \in Turns : chat[t].at = "end"}

\* A chat adds messages of its own turn; what it has loaded is what is stored,
\* unless it was overtaken; what is stored or loaded are turns that are over,
\* and were not cleared in a quiet moment.
AssistantInv ==
    /\ Assistant!TypeOK
    /\ Ends(hist, full)
    /\ hist = full \/ Len(hist) = Keep
    /\ \A t \in Turns : chat[t].at \in {"ask", "save"} =>
          /\ chat[t].new # <<>> /\ Assistant!TurnsOf(chat[t].new) \subseteq {t}
          /\ chat[t].clean => chat[t].seen = hist
          /\ Assistant!TurnsOf(chat[t].seen) \subseteq OverTurns \ gone
    /\ Assistant!TurnsOf(hist) \subseteq OverTurns \ gone
    /\ gone \subseteq OverTurns

\* At first nothing was said.
LEMMA AssistantStart ==
    Assistant!CopilotAssumption /\ Assistant!Init => AssistantInv
<1> SUFFICES ASSUME Assistant!CopilotAssumption, Assistant!Init PROVE AssistantInv
  OBVIOUS
<1>1. hist = <<>> /\ full = <<>> /\ gone = {} /\ \A t \in Turns : chat[t].at = "none"
  BY DEF Assistant!Init, Assistant!Idle
<1>2. Assistant!TypeOK
  <2>1. /\ hist \in Seq(Assistant!Message) /\ full \in Seq(Assistant!Message)
        /\ Len(hist) = 0 /\ Keep \in Nat
    BY <1>1 DEF Assistant!CopilotAssumption
  <2>2. chat \in [Turns -> {Assistant!Idle}]
    BY DEF Assistant!Init
  <2> QED BY <1>1, <2>1, <2>2 DEF Assistant!TypeOK
<1>3. Ends(hist, full)
  BY <1>1 DEF Ends
<1>4. Assistant!TurnsOf(hist) = {}
  BY <1>1, TurnsIn, <<>> \in Seq(Assistant!Message)
<1> QED BY <1>1, <1>2, <1>3, <1>4 DEF AssistantInv

\* A chat that runs is a record with these fields.
LEMMA ChatShape ==
    ASSUME Assistant!TypeOK, NEW t \in Turns, chat[t].at \in {"ask", "save"}
    PROVE  chat[t] \in Assistant!Chat
BY DEF Assistant!TypeOK, Assistant!Idle, Assistant!Over

\* Chats that move on while the history stays.
LEMMA ChatsMoveOn ==
    ASSUME AssistantInv, UNCHANGED <<hist, full, gone>>,
           chat' \in [Turns -> Assistant!Chat \cup {Assistant!Idle, Assistant!Over}],
           OverTurns \subseteq OverTurns',
           \A t \in Turns : chat'[t].at \in {"ask", "save"} =>
              /\ chat'[t].new # <<>> /\ Assistant!TurnsOf(chat'[t].new) \subseteq {t}
              /\ chat'[t].clean => chat'[t].seen = hist
              /\ Assistant!TurnsOf(chat'[t].seen) \subseteq OverTurns \ gone
    PROVE  AssistantInv'
<1>1. Assistant!TypeOK'
  BY DEF AssistantInv, Assistant!TypeOK
<1>2. Ends(hist, full)' /\ (hist = full \/ Len(hist) = Keep)'
  BY DEF AssistantInv, Ends
<1>3. (Assistant!TurnsOf(hist) \subseteq OverTurns \ gone)' /\ (gone \subseteq OverTurns)'
  BY DEF AssistantInv
<1>4. ASSUME NEW t \in Turns, chat'[t].at \in {"ask", "save"}
      PROVE  Assistant!TurnsOf(chat'[t].seen) \subseteq (OverTurns \ gone)'
  BY <1>4
<1> QED BY <1>1, <1>2, <1>3, <1>4 DEF AssistantInv

\* Chats that load, go on or end leave the history alone.
LEMMA AssistantChats ==
    ASSUME Assistant!CopilotAssumption, AssistantInv,
           \/ \E t \in Turns :
                 \/ Assistant!Load(t) \/ Assistant!UseTools(t)
                 \/ Assistant!GiveUp(t) \/ Assistant!Finish(t)
           \/ Assistant!Restart
    PROVE  AssistantInv'
<1>1. Assistant!TypeOK
  BY DEF AssistantInv
<1>2. UNCHANGED <<hist, full, gone>>
  BY DEF Assistant!Load, Assistant!UseTools, Assistant!GiveUp, Assistant!Finish,
         Assistant!Restart
<1>3. ASSUME NEW t \in Turns, NEW c, chat' = [chat EXCEPT ![t] = c],
             chat[t].at # "end",
             \/ c = Assistant!Over
             \/ /\ c \in Assistant!Chat
                /\ c.new # <<>> /\ Assistant!TurnsOf(c.new) \subseteq {t}
                /\ c.clean => c.seen = hist
                /\ Assistant!TurnsOf(c.seen) \subseteq OverTurns \ gone
      PROVE  AssistantInv'
  <2>1. /\ chat' \in [Turns -> Assistant!Chat \cup {Assistant!Idle, Assistant!Over}]
        /\ chat'[t] = c /\ \A u \in Turns : u # t => chat'[u] = chat[u]
    BY <1>1, <1>3 DEF Assistant!TypeOK
  <2>2. OverTurns \subseteq OverTurns'
    BY <1>3, <2>1 DEF OverTurns
  <2>3. Assistant!Over.at = "end"
    BY DEF Assistant!Over
  <2>4. ASSUME NEW u \in Turns, chat'[u].at \in {"ask", "save"}
        PROVE  /\ chat'[u].new # <<>> /\ Assistant!TurnsOf(chat'[u].new) \subseteq {u}
               /\ chat'[u].clean => chat'[u].seen = hist
               /\ Assistant!TurnsOf(chat'[u].seen) \subseteq OverTurns \ gone
    BY <1>3, <2>1, <2>3, <2>4 DEF AssistantInv
  <2> QED BY <1>2, <2>1, <2>2, <2>4, ChatsMoveOn
<1>4. ASSUME NEW t \in Turns, Assistant!Load(t) PROVE AssistantInv'
  <2>1. PICK ok \in BOOLEAN :
           chat' = [chat EXCEPT ![t] =
              [at |-> "ask", seen |-> IF ok THEN hist ELSE <<>>,
               new |-> <<<<t, "user">>>>, left |-> MaxToolIterations, clean |-> ok]]
    BY <1>4 DEF Assistant!Load
  <2> DEFINE seen == IF ok THEN hist ELSE <<>>
             new == <<<<t, "user">>>>
             c == [at |-> "ask", seen |-> seen, new |-> new,
                   left |-> MaxToolIterations, clean |-> ok]
  <2>2. new \in Seq(Assistant!Message) /\ new # <<>> /\ Assistant!TurnsOf(new) = {t}
    BY DEF Assistant!Message, Assistant!TurnsOf
  <2>3. /\ seen \in Seq(Assistant!Message) /\ (ok => seen = hist)
        /\ Assistant!TurnsOf(seen) \subseteq OverTurns \ gone
    BY <1>1, TurnsIn DEF Assistant!TypeOK, AssistantInv
  <2>4. chat' = [chat EXCEPT ![t] = c]
    BY <2>1, Zenon
  <2> HIDE DEF seen, new
  <2>5. c \in Assistant!Chat
    BY <2>2, <2>3 DEF Assistant!Chat, Assistant!CopilotAssumption
  <2>6. chat[t].at # "end"
    BY <1>4 DEF Assistant!Load, Assistant!Idle
  <2> QED BY <1>3, <2>2, <2>3, <2>4, <2>5, <2>6
<1>5. ASSUME NEW t \in Turns, chat[t].at = "ask" PROVE chat[t] \in Assistant!Chat
  BY <1>1, <1>5, ChatShape
<1>6. ASSUME NEW t \in Turns, chat[t].at = "ask", NEW s \in Assistant!Said(t)
      PROVE  s \in Seq(Assistant!Message) /\ s # <<>> /\ Assistant!TurnsOf(s) \subseteq {t}
  <2> DEFINE m == <<t, "assistant">>
  <2>1. /\ chat[t].new \in Seq(Assistant!Message) /\ chat[t].new # <<>>
        /\ Assistant!TurnsOf(chat[t].new) \subseteq {t}
    BY <1>5, <1>6 DEF Assistant!Chat, AssistantInv
  <2>2. m \in Assistant!Message /\ m[1] = t
    BY DEF Assistant!Message
  <2> HIDE DEF m
  <2>3. <<m>> \in Seq(Assistant!Message) /\ Assistant!TurnsOf(<<m>>) \subseteq {t}
    BY <2>2 DEF Assistant!TurnsOf
  <2>4. /\ Append(chat[t].new, m) = chat[t].new \o <<m>>
        /\ chat[t].new \o <<m>> \in Seq(Assistant!Message) /\ chat[t].new \o <<m>> # <<>>
    BY <2>1, <2>2
  <2>5. Assistant!TurnsOf(chat[t].new \o <<m>>) \subseteq {t}
    BY <2>1, <2>3, TurnsIn
  <2> QED BY <1>6, <2>1, <2>4, <2>5 DEF Assistant!Said, m
<1>7. ASSUME NEW t \in Turns, Assistant!UseTools(t) PROVE AssistantInv'
  <2>1. PICK s \in Assistant!Said(t) :
           chat' = [chat EXCEPT ![t].new = s, ![t].left = @ - 1]
    BY <1>7 DEF Assistant!UseTools
  <2>2. chat[t].at = "ask" /\ chat[t].left > 0
    BY <1>7 DEF Assistant!UseTools
  <2> DEFINE c == [chat[t] EXCEPT !.new = s, !.left = @ - 1]
  <2>3. chat' = [chat EXCEPT ![t] = c]
    BY <1>1, <2>1 DEF Assistant!TypeOK
  <2>4. chat[t] \in Assistant!Chat /\ chat[t].left - 1 \in 0..MaxToolIterations
    BY <1>5, <2>2 DEF Assistant!Chat, Assistant!CopilotAssumption
  <2>5. /\ c \in Assistant!Chat /\ c.new = s /\ c.clean = chat[t].clean
        /\ c.seen = chat[t].seen
    BY <1>6, <2>2, <2>4 DEF Assistant!Chat
  <2> HIDE DEF c
  <2>6. /\ c.new # <<>> /\ Assistant!TurnsOf(c.new) \subseteq {t}
        /\ c.clean => c.seen = hist
        /\ Assistant!TurnsOf(c.seen) \subseteq OverTurns \ gone
    BY <1>6, <2>2, <2>5 DEF AssistantInv
  <2> QED BY <1>3, <2>2, <2>3, <2>5, <2>6
<1>8. ASSUME NEW t \in Turns, Assistant!Finish(t) PROVE AssistantInv'
  <2>1. PICK s \in Assistant!Said(t) :
           chat' = [chat EXCEPT ![t].new = s, ![t].at = "save"]
    BY <1>8 DEF Assistant!Finish
  <2>2. chat[t].at = "ask"
    BY <1>8 DEF Assistant!Finish
  <2> DEFINE c == [chat[t] EXCEPT !.new = s, !.at = "save"]
  <2>3. chat' = [chat EXCEPT ![t] = c]
    BY <1>1, <2>1 DEF Assistant!TypeOK
  <2>4. chat[t] \in Assistant!Chat
    BY <1>5, <2>2
  <2>5. /\ c \in Assistant!Chat /\ c.new = s /\ c.clean = chat[t].clean
        /\ c.seen = chat[t].seen
    BY <1>6, <2>2, <2>4 DEF Assistant!Chat
  <2> HIDE DEF c
  <2>6. /\ c.new # <<>> /\ Assistant!TurnsOf(c.new) \subseteq {t}
        /\ c.clean => c.seen = hist
        /\ Assistant!TurnsOf(c.seen) \subseteq OverTurns \ gone
    BY <1>6, <2>2, <2>5 DEF AssistantInv
  <2> QED BY <1>3, <2>2, <2>3, <2>5, <2>6
<1>9. ASSUME NEW t \in Turns, Assistant!GiveUp(t) PROVE AssistantInv'
  BY <1>3, <1>9 DEF Assistant!GiveUp
<1>10. CASE Assistant!Restart
  <2>1. \A t \in Turns : chat'[t] = IF t \in Assistant!Running THEN Assistant!Over ELSE chat[t]
    BY <1>10 DEF Assistant!Restart
  <2>2. chat' \in [Turns -> Assistant!Chat \cup {Assistant!Idle, Assistant!Over}]
    BY <1>1, <1>10 DEF Assistant!Restart, Assistant!TypeOK
  <2>3. OverTurns \subseteq OverTurns'
    BY <2>1 DEF OverTurns, Assistant!Over
  <2>4. \A t \in Turns : chat'[t].at \notin {"ask", "save"}
    BY <2>1 DEF Assistant!Over, Assistant!Running
  <2> QED BY <1>2, <2>2, <2>3, <2>4, ChatsMoveOn
<1> QED BY <1>4, <1>7, <1>8, <1>9, <1>10

\* A chat that was overtaken.
Unaware(c) == [c EXCEPT !.clean = FALSE]

\* Being overtaken changes one field.
LEMMA UnawareIs ==
    ASSUME NEW c \in Assistant!Chat
    PROVE  /\ Unaware(c) \in Assistant!Chat /\ Unaware(c).new = c.new
           /\ Unaware(c).seen = c.seen /\ Unaware(c).at = c.at /\ ~Unaware(c).clean
<1>1. Unaware(c) \in Assistant!Chat
  BY DEF Assistant!Chat, Unaware
<1>2. Unaware(c).new = c.new /\ Unaware(c).seen = c.seen /\ Unaware(c).at = c.at
  BY DEF Assistant!Chat, Unaware
<1>3. Unaware(c).clean = FALSE
  BY DEF Assistant!Chat, Unaware
<1> QED BY <1>1, <1>2, <1>3, Zenon

\* Saving and clearing, which no chat that runs on knows of.
LEMMA AssistantStores ==
    ASSUME Assistant!CopilotAssumption, AssistantInv,
           Assistant!Clear \/ \E t \in Turns : Assistant!SaveHistory(t)
    PROVE  AssistantInv'
<1>1. Assistant!TypeOK /\ full \in Seq(Assistant!Message) /\ hist \in Seq(Assistant!Message)
  BY DEF AssistantInv, Assistant!TypeOK
<1>2. ASSUME NEW t \in Turns, chat[t].at \in {"ask", "save"}
      PROVE  /\ chat[t] # Assistant!Over /\ Unaware(chat[t]) \in Assistant!Chat
             /\ Unaware(chat[t]).new = chat[t].new /\ Unaware(chat[t]).seen = chat[t].seen
             /\ Unaware(chat[t]).at = chat[t].at /\ ~Unaware(chat[t]).clean
  <2>1. chat[t] \in Assistant!Chat
    BY <1>1, <1>2, ChatShape
  <2> QED BY <1>2, <2>1, UnawareIs DEF Assistant!Over
<1>3. ASSUME NEW T \in SUBSET Turns,
             chat' = Assistant!Overtaken([t \in Turns |->
                        IF t \in T THEN Assistant!Over ELSE chat[t]])
      PROVE  /\ chat' \in [Turns -> Assistant!Chat \cup {Assistant!Idle, Assistant!Over}]
             /\ \A t \in Turns :
                   IF t \in T THEN chat'[t].at = "end"
                   ELSE IF chat[t].at \in {"ask", "save"}
                        THEN /\ chat'[t].at = chat[t].at /\ ~chat'[t].clean
                             /\ chat'[t].new = chat[t].new /\ chat'[t].seen = chat[t].seen
                        ELSE chat'[t] = chat[t]
  <2>1. \A t \in Turns :
           chat'[t] = IF t \in T THEN Assistant!Over
                      ELSE IF chat[t].at \in {"ask", "save"}
                           THEN Unaware(chat[t]) ELSE chat[t]
    BY <1>2, <1>3, Zenon DEF Assistant!Overtaken, Assistant!Running, Unaware
  <2>2. chat' = [t \in Turns |-> chat'[t]]
    BY <1>3 DEF Assistant!Overtaken
  <2>3. ASSUME NEW t \in Turns
        PROVE  chat'[t] \in Assistant!Chat \cup {Assistant!Idle, Assistant!Over}
    <3>1. chat[t] \in Assistant!Chat \cup {Assistant!Idle, Assistant!Over}
      BY <1>1 DEF Assistant!TypeOK
    <3> QED BY <1>2, <2>1, <3>1
  <2>4. Assistant!Over.at = "end"
    BY DEF Assistant!Over
  <2>5. chat' \in [Turns -> Assistant!Chat \cup {Assistant!Idle, Assistant!Over}]
    BY <2>2, <2>3
  <2>6. \A t \in T : t \in Turns
    OBVIOUS
  <2>7. ASSUME NEW t \in Turns
        PROVE  IF t \in T THEN chat'[t].at = "end"
               ELSE IF chat[t].at \in {"ask", "save"}
                    THEN /\ chat'[t].at = chat[t].at /\ ~chat'[t].clean
                         /\ chat'[t].new = chat[t].new /\ chat'[t].seen = chat[t].seen
                    ELSE chat'[t] = chat[t]
    <3>1. CASE t \in T
      BY <2>1, <2>4, <3>1
    <3>2. CASE t \notin T /\ chat[t].at \in {"ask", "save"}
      <4>1. chat'[t] = Unaware(chat[t])
        BY <2>1, <3>2
      <4> QED BY <1>2, <3>2, <4>1, Zenon
    <3>3. CASE t \notin T /\ chat[t].at \notin {"ask", "save"}
      BY <2>1, <3>3
    <3> QED BY <3>1, <3>2, <3>3, Zenon
  <2> QED BY <2>5, <2>7
<1>4. ASSUME NEW T \in SUBSET Turns,
             chat' = Assistant!Overtaken([t \in Turns |->
                        IF t \in T THEN Assistant!Over ELSE chat[t]]),
             OverTurns \cup T = OverTurns',
             hist' \in Seq(Assistant!Message), Len(hist') <= Keep,
             full' \in Seq(Assistant!Message),
             Ends(hist', full'), hist' = full' \/ Len(hist') = Keep,
             gone \subseteq gone', gone' \subseteq OverTurns,
             gone' = gone \/ Assistant!Running = {},
             Assistant!TurnsOf(hist') \subseteq OverTurns' \ gone'
      PROVE  AssistantInv'
  <2>1. chat' \in [Turns -> Assistant!Chat \cup {Assistant!Idle, Assistant!Over}]
    BY <1>3, <1>4
  <2>2. Assistant!TypeOK'
    BY <1>1, <1>4, <2>1 DEF Assistant!TypeOK, OverTurns
  <2>3. ASSUME NEW t \in Turns, chat'[t].at \in {"ask", "save"}
        PROVE  /\ chat'[t].new # <<>> /\ Assistant!TurnsOf(chat'[t].new) \subseteq {t}
               /\ ~chat'[t].clean
               /\ Assistant!TurnsOf(chat'[t].seen) \subseteq (OverTurns \ gone)'
    <3>1. /\ chat[t].at \in {"ask", "save"} /\ ~chat'[t].clean
          /\ chat'[t].new = chat[t].new /\ chat'[t].seen = chat[t].seen
      BY <1>3, <1>4, <2>3
    <3>2. gone' = gone
      BY <1>4, <3>1 DEF Assistant!Running
    <3> QED BY <1>4, <3>1, <3>2 DEF AssistantInv
  <2>4. Ends(hist, full)'
    BY <1>4 DEF Ends
  <2> QED BY <1>4, <2>2, <2>3, <2>4 DEF AssistantInv
<1>5. CASE Assistant!Clear
  <2>1. /\ hist' = <<>> /\ full' = <<>> /\ chat' = Assistant!Overtaken(chat)
        /\ gone' = IF Assistant!Running = {} THEN gone \cup Assistant!TurnsOf(hist) ELSE gone
    BY <1>5 DEF Assistant!Clear
  <2>2. chat = [t \in Turns |-> IF t \in {} THEN Assistant!Over ELSE chat[t]]
    BY <1>1 DEF Assistant!TypeOK
  <2>3. chat' = Assistant!Overtaken([t \in Turns |->
                   IF t \in {} THEN Assistant!Over ELSE chat[t]])
    BY <2>1, <2>2
  <2>4. \A t \in Turns : chat'[t].at = chat[t].at
    <3>1. {} \in SUBSET Turns /\ \A t \in Turns : t \notin {}
      OBVIOUS
    <3>2. \A t \in Turns :
             IF t \in {} THEN chat'[t].at = "end"
             ELSE IF chat[t].at \in {"ask", "save"}
                  THEN /\ chat'[t].at = chat[t].at /\ ~chat'[t].clean
                       /\ chat'[t].new = chat[t].new /\ chat'[t].seen = chat[t].seen
                  ELSE chat'[t] = chat[t]
      BY <1>3, <2>3, <3>1
    <3> QED BY <3>2
  <2>5. OverTurns \cup {} = OverTurns'
    BY <2>4 DEF OverTurns
  <2>6. /\ hist' \in Seq(Assistant!Message) /\ Len(hist') <= Keep
        /\ full' \in Seq(Assistant!Message) /\ Ends(hist', full') /\ hist' = full'
    BY <2>1 DEF Ends, Assistant!CopilotAssumption
  <2>7. Assistant!TurnsOf(hist') = {}
    BY <1>1, <2>1, TurnsIn
  <2>8. /\ gone \subseteq gone' /\ gone' \subseteq OverTurns
        /\ gone' = gone \/ Assistant!Running = {}
    BY <2>1 DEF AssistantInv
  <2> QED BY <1>4, <2>3, <2>5, <2>6, <2>7, <2>8
<1>6. ASSUME NEW t \in Turns, Assistant!SaveHistory(t) PROVE AssistantInv'
  <2> DEFINE s == chat[t].seen \o chat[t].new
  <2>1. /\ chat[t].at = "save" /\ gone' = gone
        /\ \/ /\ hist' = Assistant!KeepLast(s)
              /\ full' = (IF chat[t].clean THEN full ELSE chat[t].seen) \o chat[t].new
              /\ chat' = Assistant!Overtaken([chat EXCEPT ![t] = Assistant!Over])
           \/ chat' = [chat EXCEPT ![t] = Assistant!Over] /\ UNCHANGED <<hist, full>>
    BY <1>6 DEF Assistant!SaveHistory
  <2>2. /\ chat[t].seen \in Seq(Assistant!Message) /\ chat[t].new \in Seq(Assistant!Message)
        /\ chat[t].new # <<>> /\ Assistant!TurnsOf(chat[t].new) \subseteq {t}
        /\ chat[t].clean => chat[t].seen = hist
        /\ Assistant!TurnsOf(chat[t].seen) \subseteq OverTurns \ gone
        /\ t \notin OverTurns
    <3>1. chat[t] \in Assistant!Chat
      BY <1>1, <2>1, ChatShape
    <3> QED BY <2>1, <3>1 DEF Assistant!Chat, AssistantInv, OverTurns
  <2>3. CASE chat' = [chat EXCEPT ![t] = Assistant!Over] /\ UNCHANGED <<hist, full>>
    <3>1. /\ chat'[t] = Assistant!Over /\ \A u \in Turns : u # t => chat'[u] = chat[u]
          /\ chat' \in [Turns -> Assistant!Chat \cup {Assistant!Idle, Assistant!Over}]
      BY <1>1, <2>3 DEF Assistant!TypeOK
    <3>2. chat'[t].at = "end"
      BY <3>1 DEF Assistant!Over
    <3>3. OverTurns \subseteq OverTurns'
      BY <3>1, <3>2 DEF OverTurns
    <3>4. \A u \in Turns : chat'[u].at \in {"ask", "save"} =>
             /\ chat'[u].new # <<>> /\ Assistant!TurnsOf(chat'[u].new) \subseteq {u}
             /\ chat'[u].clean => chat'[u].seen = hist
             /\ Assistant!TurnsOf(chat'[u].seen) \subseteq OverTurns \ gone
      BY <3>1, <3>2 DEF AssistantInv
    <3> QED BY <2>1, <2>3, <3>1, <3>3, <3>4, ChatsMoveOn
  <2>4. CASE /\ hist' = Assistant!KeepLast(s)
             /\ full' = (IF chat[t].clean THEN full ELSE chat[t].seen) \o chat[t].new
             /\ chat' = Assistant!Overtaken([chat EXCEPT ![t] = Assistant!Over])
    <3>1. [chat EXCEPT ![t] = Assistant!Over]
             = [u \in Turns |-> IF u \in {t} THEN Assistant!Over ELSE chat[u]]
      BY <1>1 DEF Assistant!TypeOK
    <3>2. chat' = Assistant!Overtaken([u \in Turns |->
                     IF u \in {t} THEN Assistant!Over ELSE chat[u]])
      BY <2>4, <3>1
    <3>3. \A u \in Turns : IF u = t THEN chat'[u].at = "end" ELSE chat'[u].at = chat[u].at
      BY <1>3, <3>2
    <3>4. OverTurns \cup {t} = OverTurns'
      BY <3>3 DEF OverTurns
    <3>5. s \in Seq(Assistant!Message) /\ Len(s) = Len(chat[t].seen) + Len(chat[t].new)
          /\ Len(chat[t].new) > 0
      BY <2>2
    <3> HIDE DEF s
    <3>6. /\ hist' \in Seq(Assistant!Message) /\ Len(hist') <= Keep /\ Ends(hist', s)
          /\ (hist' = s \/ Len(hist') = Keep) /\ (Len(s) >= Keep => Len(hist') = Keep)
      BY <2>4, <3>5, KeepLastIs
    <3>7. full' \in Seq(Assistant!Message)
      BY <1>1, <2>2, <2>4
    <3>8. Assistant!TurnsOf(hist') \subseteq OverTurns' \ gone'
      <4>1. Assistant!TurnsOf(hist') \subseteq Assistant!TurnsOf(s)
        BY <3>5, <3>6, TurnsIn
      <4>2. Assistant!TurnsOf(s) \subseteq
               Assistant!TurnsOf(chat[t].seen) \cup Assistant!TurnsOf(chat[t].new)
        BY <2>2, TurnsIn DEF s
      <4>3. t \notin gone
        BY <2>2 DEF AssistantInv
      <4> QED BY <2>1, <2>2, <3>4, <4>1, <4>2, <4>3
    <3>9. Ends(hist', full') /\ (hist' = full' \/ Len(hist') = Keep)
      <4>1. CASE chat[t].clean
        <5>1. s = hist \o chat[t].new /\ full' = full \o chat[t].new
          BY <2>2, <2>4, <4>1 DEF s
        <5>2. Ends(hist', full')
          BY <1>1, <2>2, <3>6, <5>1, EndsGoOn DEF AssistantInv
        <5>3. CASE hist = full
          BY <3>6, <5>1, <5>3
        <5>4. CASE Len(hist) = Keep
          <6>1. /\ Len(chat[t].seen) = Keep
                /\ Len(chat[t].seen) \in Nat /\ Len(chat[t].new) \in Nat
            BY <2>2, <4>1, <5>4
          <6>2. Len(s) >= Keep
            BY <3>5, <6>1
          <6> QED BY <3>5, <3>6, <5>2, <6>2
        <5> QED BY <5>2, <5>3, <5>4 DEF AssistantInv
      <4>2. CASE ~chat[t].clean
        BY <2>4, <3>6, <4>2 DEF s
      <4> QED BY <4>1, <4>2
    <3>10. gone \subseteq gone' /\ gone' \subseteq OverTurns /\ gone' = gone
      BY <2>1 DEF AssistantInv
    <3>11. {t} \in SUBSET Turns
      OBVIOUS
    <3> HIDE DEF s
    <3> QED BY <1>4, <3>2, <3>4, <3>6, <3>7, <3>8, <3>9, <3>10, <3>11
  <2> QED BY <2>1, <2>3, <2>4
<1> QED BY <1>5, <1>6

\* Every step of the assistant keeps the invariant.
LEMMA AssistantSteps ==
    Assistant!CopilotAssumption /\ AssistantInv /\ [Assistant!Next]_assistantVars
        => AssistantInv'
<1> SUFFICES ASSUME Assistant!CopilotAssumption, AssistantInv,
                    [Assistant!Next]_assistantVars
             PROVE  AssistantInv'
  OBVIOUS
<1>1. CASE UNCHANGED assistantVars
  BY <1>1 DEF assistantVars, AssistantInv, Assistant!TypeOK, OverTurns, Ends
<1> QED BY <1>1, AssistantChats, AssistantStores DEF Assistant!Next

-----------------------------------------------------------------------------
(* The whole *)

\* The inductive invariant of the autopilot, in every behaviour of the whole.
LEMMA PilotInvariant == Spec => []PilotInv
<1>1. Init => PilotInv
  BY PilotStart DEF Init
<1>2. PilotInv /\ [Next]_vars => PilotInv'
  BY NextByPart, PilotSteps
<1> QED BY <1>1, <1>2, PTL DEF Spec

\* The inductive invariant of the assistant, in every behaviour of the whole.
LEMMA AssistantInvariant == Spec => []AssistantInv
<1>1. Init => AssistantInv
  BY AssistantStart, Assumptions DEF Init
<1>2. AssistantInv /\ [Next]_vars => AssistantInv'
  BY NextByPart, AssistantSteps, Assumptions
<1> QED BY <1>1, <1>2, PTL DEF Spec

\* The inductive invariant of the doors, in every behaviour of the whole.
LEMMA DoorInvariant == Spec => []DoorInv
<1>1. Init => DoorInv
  BY DoorStart DEF Init
<1>2. DoorInv /\ [Next]_vars => DoorInv'
  BY NextByPart, DoorSteps, Assumptions
<1> QED BY <1>1, <1>2, PTL DEF Spec

\* The autopilot answers no message that no configuration since its arrival
\* let through, whatever handleEvent delivers and the web handlers edit.
THEOREM RepliesAreWanted == Spec => []NoUnwantedReply
<1>1. PilotInv => NoUnwantedReply
  BY DEF PilotInv, NoUnwantedReply, Pilot!NoUnwantedReply
<1> QED BY <1>1, PilotInvariant, PTL

\* AutopilotSave and AutopilotToggle lose no edit of each other, as long as
\* toggles do not overlap with other edits and can read.
THEOREM EditsAreKept == Spec => []ConfigFollowsEdits
<1>1. PilotInv => ConfigFollowsEdits
  BY DEF PilotInv, ConfigFollowsEdits, Pilot!ConfigFollowsEdits
<1> QED BY <1>1, PilotInvariant, PTL

\* The stored conversation is the end of what was said, and all of it while it
\* is short, for any number of chats between AssistantChat and saveHistory.
THEOREM MemoryIsLatest == Spec => []RemembersLatest
<1>1. AssistantInv => RemembersLatest
  BY SuffixIs DEF AssistantInv, Assistant!TypeOK, RemembersLatest,
                  Assistant!RemembersLatest
<1> QED BY <1>1, AssistantInvariant, PTL

\* No chat brings back a turn that AssistantClear removed when none was running.
THEOREM ClearedForGood == Spec => []ClearedStays
<1>1. AssistantInv => ClearedStays
  BY DEF AssistantInv, ClearedStays, Assistant!ClearedStays
<1> QED BY <1>1, AssistantInvariant, PTL

\* Auth and WebAuth, which read one row after the other, let nobody in who was
\* disabled or whose key was revoked when the request came.
THEOREM RevokedStaysOut == Spec => []RevokedIsOut
<1>1. DoorInv => RevokedIsOut
  BY DEF DoorInv, DeadIsStopped, RevokedIsOut, Door!RevokedIsOut, Door!At, Door!Out
<1> QED BY <1>1, DoorInvariant, PTL

\* MCPScope and resolveAccount, while accounts and keys come and go, leave a
\* tool no account but the one of its key or of its request.
THEOREM ScopeHolds == Spec => []KeyStaysInScope
<1>1. DoorInv => KeyStaysInScope
  BY DEF DoorInv, ScopeIsKept, KeyStaysInScope, Door!KeyStaysInScope, Door!At, Door!Out
<1> QED BY <1>1, DoorInvariant, PTL

=============================================================================
