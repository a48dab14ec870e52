---------------------------- MODULE StoredState -----------------------------
(***************************************************************************)
(* Five modules that share no variable, side by side: the message store,   *)
(* the autopilot, the assistant, billing plans and authentication.  A      *)
(* behaviour is one of the module that part names, so that TLC adds their  *)
(* states up instead of multiplying them.                                  *)
(***************************************************************************)
CONSTANTS
    Ids, FromHere, Seconds, Limit, Cap, Default, NoRow,
    Numbers, Hooks, Toggles, NoToggle,
    Turns, Keep, MaxToolIterations,
    Users, PlanIds, Free, BuiltIn, Limits, Seed, Requests, NoPlan,
    People, Accounts, OwnerOf, Keys, Tokens, Roles, RoleOf, NoUser, NoAccount

VARIABLES
    part,
    rows,
    wired, config, hook, toggle, sent, logged, chance, wanted, muddled,
    hist, chat, full, gone,
    users, born, plan, sub, billing, asked,
    user, power, deleted, cred, expired, req

Store == INSTANCE MessageStore
Pilot == INSTANCE Autopilot
Assistant == INSTANCE Copilot
Billing == INSTANCE Plans WITH req <- billing
Door == INSTANCE Authentication WITH Users <- People, gone <- deleted

ASSUME Assumptions ==
    /\ Store!StoreAssumption /\ Assistant!CopilotAssumption
    /\ Billing!PlanAssumption /\ Door!DoorAssumption

Init ==
    /\ part \in {"store", "pilot", "assistant", "billing", "door"}
    /\ Store!Init /\ Pilot!Init /\ Assistant!Init /\ Billing!Init /\ Door!Init

pilotVars == <<wired, config, hook, toggle, sent, logged, chance, wanted, muddled>>
assistantVars == <<hist, chat, full, gone>>
billingVars == <<users, born, plan, sub, billing, asked>>
doorVars == <<user, power, deleted, cred, expired, req>>
vars == <<part, rows, pilotVars, assistantVars, billingVars, doorVars>>

Next ==
    \/ /\ part = "store" /\ Store!Next
       /\ UNCHANGED <<part, pilotVars, assistantVars, billingVars, doorVars>>
    \/ /\ part = "pilot" /\ Pilot!Next
       /\ UNCHANGED <<part, rows, assistantVars, billingVars, doorVars>>
    \/ /\ part = "assistant" /\ Assistant!Next
       /\ UNCHANGED <<part, rows, pilotVars, billingVars, doorVars>>
    \/ /\ part = "billing" /\ Billing!Next
       /\ UNCHANGED <<part, rows, pilotVars, assistantVars, doorVars>>
    \/ /\ part = "door" /\ Door!Next
       /\ UNCHANGED <<part, rows, pilotVars, assistantVars, billingVars>>

Spec == Init /\ [][Next]_vars

-----------------------------------------------------------------------------
(* Properties, each of the module named *)

\* The variables of every module have their types.
TypeOK ==
    Store!TypeOK /\ Pilot!TypeOK /\ Assistant!TypeOK /\ Billing!TypeOK /\ Door!TypeOK

\* Scrolling back skips only one of several messages of a page's last second,
\* what lies behind a page with a message that shows nothing, or messages under
\* the LID that a page was read without (MessageStore).
PagingMissesTiesOnly == Store!PagingMissesTiesOnly

\* Every stored message is in exactly one of the chats listed, as far as the
\* list could be read and its lookups agree (MessageStore).
ListedOnce == Store!ListedOnce

\* Only a message that the configuration let through at some moment since it
\* came is answered (Autopilot).
NoUnwantedReply == Pilot!NoUnwantedReply

\* The autopilot's configuration is what its edits make of it in order, unless
\* toggles overlapped with others or could not read (Autopilot).
ConfigFollowsEdits == Pilot!ConfigFollowsEdits

\* The stored conversation is the latest part of what was said (Copilot).
RemembersLatest == Assistant!RemembersLatest

\* Turns cleared while no chat was running do not come back (Copilot).
ClearedStays == Assistant!ClearedStays

\* A subscription names a plan that is there (Plans).
SubscribedPlansExist == Billing!SubscribedPlansExist

\* A plan has the limits last asked for, unless edits overlapped (Plans).
LimitsAsEdited == Billing!LimitsAsEdited

\* A request gets limits that its user was entitled to (Plans).
LimitsAreHeld == Billing!LimitsAreHeld

\* Revoked credentials and users do not get in (Authentication).
RevokedIsOut == Door!RevokedIsOut

\* A tool works on the account of the key or of the request (Authentication).
KeyStaysInScope == Door!KeyStaysInScope

=============================================================================
