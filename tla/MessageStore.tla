---------------------------- MODULE MessageStore ----------------------------
(***************************************************************************)
(* The message table, for the conversation of one account with one         *)
(* contact, who has two addresses: a phone JID and a LID.  Rows come from   *)
(* message events, from history syncs and from the account's own sends,    *)
(* each of which may name either address and may come again; they are read *)
(* in pages by Account.ListMessages and the messaging page of the web UI.  *)
(* Protocol messages are not stored and are left out.                      *)
(***************************************************************************)
EXTENDS Naturals, FiniteSets, FiniteSetsExt

CONSTANTS
    Ids,        \* message ids
    FromHere,   \* the ids of messages that this server sent
    Seconds,    \* bound: the times a message may have, 1..Seconds
    Limit,      \* the page the reader asks for, 50 in the web UI
    Cap,        \* what the database grants at most, 200
    Default,    \* and what it grants instead of more than that, 50
    NoRow

StoreAssumption ==
    /\ {Limit, Cap, Default, Seconds} \subseteq Nat \ {0}
    /\ FromHere \subseteq Ids

VARIABLE rows   \* rows[i]: what is stored of message i

Forms == {"phone", "lid"}

\* classifyMessage and extractBody: whether a message has something to show, or
\* is an "other" without a body.
Contents == {"shown", "blank"}

Row == [form : Forms, content : Contents, at : 1..Seconds]

TypeOK == rows \in [Ids -> Row \cup {NoRow}]

Init == rows = [i \in Ids |-> NoRow]

-----------------------------------------------------------------------------
(* Writing *)

\* resolveLID turns a LID into a phone number if there is a client and a
\* mapping; else, and on an error, the address stays as it is.
ResolveLID(f) == {f, "phone"}

\* INSERT ... ON CONFLICT DO NOTHING; an error is logged and dropped.
InsertMessage(i, row) ==
    rows' = IF rows[i] = NoRow THEN [rows EXCEPT ![i] = row] ELSE rows

\* A message event, also of what the user sent from a phone.  A message with
\* nothing to show is stored all the same.
StoreMessage(i, f, x, t) ==
    /\ i \notin FromHere
    /\ \E g \in ResolveLID(f) :
          InsertMessage(i, [form |-> g, content |-> x, at |-> t])

\* One message of a history sync, which may bring what was sent from here.
StoreHistorySync(i, f, x, t) ==
    \E g \in ResolveLID(f) : InsertMessage(i, [form |-> g, content |-> x, at |-> t])

\* What was sent from here is stored under the address the caller gave.
StoreOutgoing(i, f, t) ==
    /\ i \in FromHere
    /\ InsertMessage(i, [form |-> f, content |-> "shown", at |-> t])

Next ==
    \E i \in Ids, f \in Forms, t \in 1..Seconds :
       \/ StoreOutgoing(i, f, t)
       \/ \E x \in Contents : StoreMessage(i, f, x, t) \/ StoreHistorySync(i, f, x, t)

Spec == Init /\ [][Next]_rows

-----------------------------------------------------------------------------
(* Reading *)

Stored(F) == {i \in Ids : rows[i] # NoRow /\ rows[i].form \in F}

\* ORDER BY timestamp DESC LIMIT n: the n newest of S, ties in any order.
Newest(S, n) ==
    LET size == IF Cardinality(S) < n THEN Cardinality(S) ELSE n
    IN {P \in kSubset(size, S) : \A i \in P, j \in S \ P : rows[i].at >= rows[j].at}

\* DB.ListMessages: the rows of one address before second b.
ListRows(f, b) ==
    Newest({i \in Stored({f}) : rows[i].at < b}, IF Limit > Cap THEN Default ELSE Limit)

\* Mutant: the rows of the LID are appended and the first ones kept, unsorted.
UnsortedPages(f, b, known) ==
    IF f = "phone" /\ known
    THEN UNION {{P \in SUBSET (A \cup B) :
                    /\ A \subseteq P /\ Cardinality(P) <= Limit
                    /\ P = A \cup B \/ Cardinality(P) = Limit} :
                    A \in ListRows("phone", b), B \in ListRows("lid", b)}
    ELSE ListRows(f, b)

\* Account.ListMessages: the rows of a phone JID and, if reverseLID finds its LID
\* (known), those of the LID, sorted and cut; then those with nothing to show go.
\* The LID is looked up for every page, and an error of the lookup or of the
\* second query leaves a page like one of a phone JID without a LID.  An error of
\* the first query is an error of the page: the reader stays where it is.
Pages(f, b, known) ==
    IF f = "phone" /\ known
    THEN UNION {Newest(A \cup B, Limit) : A \in ListRows("phone", b), B \in ListRows("lid", b)}
    ELSE ListRows(f, b)

Shown(P) == {i \in P : rows[i].content = "shown"}
View(f, known) == Stored(IF f = "phone" /\ known THEN Forms ELSE {f})

\* Where the page after P starts: before the oldest message that P shows, or
\* nowhere (1) when P is not full.
NextBefore(P) ==
    IF Cardinality(Shown(P)) >= Limit THEN Min({rows[i].at : i \in Shown(P)}) ELSE 1

\* What a page before second b skips, and what the pages after it miss: each
\* page is read with one of the answers K to the question for the LID.
MissedBefore(later, f, K, b) ==
    UNION {{i \in Shown(View(f, TRUE \in K)) \ P : rows[i].at \in NextBefore(P)..(b - 1)}
              \cup (IF NextBefore(P) = 1 THEN {} ELSE later[NextBefore(P)]) :
           P \in UNION {Pages(f, b, known) : known \in K}}

\* loadMessages, then loadOlderMessages before the oldest message shown, as
\* long as pages are full: what the reader never sees, wherever ties fall and
\* lookups fail.
Missed(f, K) ==
    LET from[b \in 1..Seconds + 1] == MissedBefore(from, f, K, b)
    IN from[Seconds + 1]

\* The reader asks for no more than the database grants, as the 50 of the
\* messaging page are within its 200.
PageGranted == Limit <= Cap

\* The addresses that messages are stored under.
Addresses == {f \in Forms : Stored({f}) # {}}

\* GetLastMessagePerChat: the addresses it reads.  ListChats logs its error and
\* goes on with what was read before it, some of them or none.
LastMessages == SUBSET Addresses

\* resolveLID, asked again for every entry: an error, no mapping or no client
\* leaves the LID.
Resolved(f, known) == IF known THEN "phone" ELSE f

\* Mutant: contacts keep the address the session store lists them by.
UnresolvedChats(last, contacts, asContact, asSender) ==
    {f \in contacts : {f, Resolved(f, asContact)} \cap last # {}}
    \cup {Resolved(f, asSender) : f \in last}

\* Account.ListChats: the contacts with a message under an address of theirs (no
\* contacts if they cannot be read), then every other address that has one, all
\* resolved and listed once.  The LID is looked up as that of a contact and as
\* that of a message, with answers that may differ.
ListChats(last, contacts, asContact, asSender) ==
    {Resolved(f, asSender) : f \in last}
    \cup {Resolved(f, asContact) :
             f \in {g \in contacts : {g, Resolved(g, asContact)} \cap last # {}}}

-----------------------------------------------------------------------------
(* Properties *)

\* Whichever of the addresses are in the contacts, and whatever the lookups of
\* the list and of the chat that is opened from it (ListMessages) answer: a
\* message whose address the list could read is in a chat of the list, or else
\* the LID it is stored under was resolved by the list and could not be found
\* again; and it is in one chat only, unless it is stored under a LID that one of
\* the lookups of the list could not resolve and that was found when the chat of
\* the phone number was opened.
ListedOnce ==
    \A last \in LastMessages, contacts \in SUBSET Forms,
       asContact \in BOOLEAN, asSender \in BOOLEAN, opened \in BOOLEAN :
       \A i \in Stored(Forms) :
          LET chats == ListChats(last, contacts, asContact, asSender)
              found == {c \in chats : i \in View(c, opened)}
              byLID == rows[i].form = "lid"
          IN /\ rows[i].form \in last /\ found = {} => byLID /\ asSender /\ ~opened
             /\ \A c, d \in found :
                   c = d \/ (byLID /\ ~(asContact /\ asSender) /\ opened)

\* Scrolling a conversation back to its start shows every message stored under
\* the addresses it was read by, except that one of several messages of the same
\* second may be skipped where a page ends, that a message with nothing to show
\* makes its page short, which ends the scrolling, and that messages stored under
\* the LID may be skipped by a page that was read without it.
PagingMissesTiesOnly ==
    \A f \in Forms, K \in (SUBSET BOOLEAN) \ {{}} : \A i \in Missed(f, K) :
       \/ FALSE \in K /\ rows[i].form # f
       \/ \E j \in View(f, TRUE \in K) \ {i} :
             rows[j].at = rows[i].at \/ rows[j].content = "blank"

=============================================================================
