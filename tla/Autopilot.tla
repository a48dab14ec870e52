----------------------------- MODULE Autopilot ------------------------------
(***************************************************************************)
(* The autopilot of one account: the hook that handleEvent starts, in a    *)
(* goroutine of its own, for each incoming message with a text, and the    *)
(* two web handlers that edit its configuration.  A hook reads the         *)
(* configuration, asks the language model, sends and logs; nothing is      *)
(* locked from one to the other.                                           *)
(*                                                                         *)
(* The whitelist and the blacklist are compared with the digits of the     *)
(* sender's JID, of a phone or a LID as it came.  What the two together    *)
(* let through is a set of such numbers.                                   *)
(***************************************************************************)
EXTENDS Naturals, FiniteSets

CONSTANTS
    Numbers,    \* digits of sender JIDs
    Hooks,      \* bound: messages delivered in a behaviour, redelivered ones included
    Toggles,    \* requests to toggle in flight
    NoToggle    \* no request

VARIABLES
    wired,      \* SetOnMessage was called in this process
    config,     \* the row of agent_config, or its defaults
    hook,       \* hook[h]: where the goroutine of delivery h is
    toggle,     \* toggle[r]: the configuration request r read, or NoToggle
    sent,       \* deliveries that were answered
    logged,     \* rows of agent_log, by delivery
    chance,     \* history: deliveries that the configuration let through at
                \* some moment since they came
    wanted,     \* history: what the edits one by one make of the configuration
    muddled     \* history: an edit overlapped with a toggle, or a toggle could
                \* not read, since the last save of the form

hookVars == <<hook, sent, logged>>
editVars == <<config, toggle, wanted, muddled>>
vars == <<wired, hookVars, chance, editVars>>

Config == [on : BOOLEAN, lets : SUBSET Numbers]

\* GetAgentConfig when there is no row, and what it returns with an error.
NoConfig == [on |-> FALSE, lets |-> Numbers]

\* How far the goroutine of a delivery is, and who sent the message.
None == [at |-> "none"]
Place == {"read", "answer", "send", "log", "end"}

TypeOK ==
    /\ wired \in BOOLEAN
    /\ config \in Config
    /\ hook \in [Hooks -> [at : Place, from : Numbers] \cup {None}]
    /\ toggle \in [Toggles -> Config \cup {NoToggle}]
    /\ sent \subseteq Hooks /\ logged \subseteq sent /\ chance \subseteq Hooks
    /\ wanted \in Config /\ muddled \in BOOLEAN

Init ==
    /\ wired = FALSE /\ config = NoConfig
    /\ hook = [h \in Hooks |-> None]
    /\ toggle = [r \in Toggles |-> NoToggle]
    /\ sent = {} /\ logged = {} /\ chance = {}
    /\ wanted = NoConfig /\ muddled = FALSE

LetsThrough(c, h) == c.on /\ hook[h].from \in c.lets
Running == {h \in Hooks : hook[h].at \notin {"none", "end"}}
MoveTo(h, place) == hook' = [hook EXCEPT ![h].at = place]

-----------------------------------------------------------------------------
(* Answering *)

\* InitAutoReply, at the end of the startup.
SetOnMessage ==
    /\ ~wired /\ wired' = TRUE
    /\ UNCHANGED <<hookVars, chance, editVars>>

\* handleEvent: an incoming message with two characters or more of text.
\* Nothing tells a message that comes for the second time.
Deliver(h, n) ==
    /\ wired /\ hook[h] = None
    /\ hook' = [hook EXCEPT ![h] = [at |-> "read", from |-> n]]
    /\ chance' = IF config.on /\ n \in config.lets THEN chance \cup {h} ELSE chance
    /\ UNCHANGED <<wired, sent, logged, editVars>>

\* Mutant: the lists are not consulted.
ReadConfigOnly(h) ==
    /\ hook[h].at = "read"
    /\ \E c \in {config, NoConfig} : MoveTo(h, IF c.on THEN "answer" ELSE "end")
    /\ UNCHANGED <<wired, sent, logged, chance, editVars>>

\* AutoReply gives up on groups before, and here when the configuration, or
\* its defaults if the read fails, says so.
ReadConfig(h) ==
    /\ hook[h].at = "read"
    /\ \E c \in {config, NoConfig} :
          MoveTo(h, IF LetsThrough(c, h) THEN "answer" ELSE "end")
    /\ UNCHANGED <<wired, sent, logged, chance, editVars>>

\* The model's answer, or the words that announce a person; or an error, the
\* timeout of 60 seconds, or an empty answer.
Answer(h) ==
    /\ hook[h].at = "answer"
    /\ MoveTo(h, "send") \/ MoveTo(h, "end")
    /\ UNCHANGED <<wired, sent, logged, chance, editVars>>

\* SendMessage, or nothing: the account is gone or logged out, the limiter
\* refuses, no connection, a send error.  The configuration is not read again.
Send(h) ==
    /\ hook[h].at = "send"
    /\ \/ MoveTo(h, "log") /\ sent' = sent \cup {h}
       \/ MoveTo(h, "end") /\ UNCHANGED sent
    /\ UNCHANGED <<wired, logged, chance, editVars>>

\* InsertAgentLog; an error is dropped.
Log(h) ==
    /\ hook[h].at = "log"
    /\ MoveTo(h, "end")
    /\ logged' = logged \cup {h} \/ UNCHANGED logged
    /\ UNCHANGED <<wired, sent, chance, editVars>>

\* The process stops and starts; no hook is taken up again.
Restart ==
    /\ wired' = FALSE
    /\ hook' = [h \in Hooks |-> IF h \in Running THEN [hook[h] EXCEPT !.at = "end"]
                                ELSE hook[h]]
    /\ toggle' = [r \in Toggles |-> NoToggle]
    /\ UNCHANGED <<sent, logged, chance, config, wanted, muddled>>

-----------------------------------------------------------------------------
(* Editing *)

Toggling == {r \in Toggles : toggle[r] # NoToggle}

\* SetAgentConfig: the whole row, and what it means for the hooks on their way.
SetAgentConfig(c) ==
    /\ config' = c
    /\ chance' = chance \cup {h \in Running : LetsThrough(c, h)}

\* AutopilotSave writes the form as it is.
Save(c) ==
    /\ SetAgentConfig(c)
    /\ wanted' = c /\ muddled' = (Toggling # {})
    /\ UNCHANGED <<wired, hookVars, toggle>>

\* AutopilotToggle reads; an error is dropped, and the defaults taken.
StartToggle(r) ==
    /\ toggle[r] = NoToggle
    /\ \/ toggle' = [toggle EXCEPT ![r] = config]
          /\ muddled' = (muddled \/ Toggling # {})
       \/ toggle' = [toggle EXCEPT ![r] = NoConfig] /\ muddled' = TRUE
    /\ UNCHANGED <<wired, hookVars, chance, config, wanted>>

Flipped(c) == [c EXCEPT !.on = ~@]

\* Mutant: the row is written with the flag and nothing else.
EndToggleBare(r) ==
    /\ r \in Toggling
    /\ toggle' = [toggle EXCEPT ![r] = NoToggle]
    /\ SetAgentConfig([on |-> ~toggle[r].on, lets |-> Numbers])
    /\ wanted' = Flipped(wanted)
    /\ UNCHANGED <<wired, hookVars, muddled>>

\* It writes what it read with the flag flipped, or fails.
EndToggle(r) ==
    /\ r \in Toggling
    /\ toggle' = [toggle EXCEPT ![r] = NoToggle]
    /\ \/ SetAgentConfig(Flipped(toggle[r])) /\ wanted' = Flipped(wanted)
       \/ UNCHANGED <<config, chance, wanted>>
    /\ UNCHANGED <<wired, hookVars, muddled>>

Next ==
    \/ SetOnMessage \/ Restart
    \/ \E h \in Hooks :
          \/ \E n \in Numbers : Deliver(h, n)
          \/ ReadConfig(h) \/ Answer(h) \/ Send(h) \/ Log(h)
    \/ \E c \in Config : Save(c)
    \/ \E r \in Toggles : StartToggle(r) \/ EndToggle(r)

Spec == Init /\ [][Next]_vars

-----------------------------------------------------------------------------
(* Properties *)

\* A message is answered only if at one moment since it came the autopilot was
\* on and its lists let the sender through, both at once, however the
\* configuration was edited meanwhile.
NoUnwantedReply == sent \subseteq chance

\* The configuration is what the saves and toggles make of it in order: no
\* field is lost or reset by an edit of another, as long as toggles did not
\* overlap with other edits and could read.
ConfigFollowsEdits == muddled \/ config = wanted

=============================================================================
