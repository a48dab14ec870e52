------------------------------ MODULE Copilot -------------------------------
(***************************************************************************)
(* The personal assistant: the conversation stored for one user            *)
(* (agent_session), the requests that add a turn to it (RunChat) and the   *)
(* one that clears it.  A chat reads the history, talks to the language    *)
(* model for minutes, and writes the whole history back.  What the tools   *)
(* do to accounts is the REST gateway's business.                          *)
(***************************************************************************)
EXTENDS Naturals, Sequences, FiniteSets, SequencesExt

CONSTANTS
    Turns,      \* messages of the user, each posted once
    Keep,       \* messages a session keeps at most, 40
    MaxToolIterations

CopilotAssumption == {Keep, MaxToolIterations} \subseteq Nat \ {0}

VARIABLES
    hist,       \* agent_session.messages, without the system prompt
    chat,       \* chat[t]: the request that posted turn t
    full,       \* history: all messages of the turns saved since the last clear,
                \* or since a save that did not know of the one before it
    gone        \* history: turns cleared while no chat was running

vars == <<hist, chat, full, gone>>

\* A message is its turn and who wrote it.
Message == Turns \X {"user", "assistant"}
Idle == [at |-> "none"]
Over == [at |-> "end"]
\* seen: what was loaded; new: what this turn adds, tool messages left out;
\* left: rounds left; clean: no error at the load, no save or clear since.
Chat == [at : {"ask", "save"}, seen : Seq(Message), new : Seq(Message),
         left : 0..MaxToolIterations, clean : BOOLEAN]

TypeOK ==
    /\ hist \in Seq(Message) /\ Len(hist) <= Keep
    /\ chat \in [Turns -> Chat \cup {Idle, Over}]
    /\ full \in Seq(Message)
    /\ gone \subseteq Turns

Init ==
    /\ hist = <<>> /\ full = <<>> /\ gone = {}
    /\ chat = [t \in Turns |-> Idle]

Running == {t \in Turns : chat[t].at \in {"ask", "save"}}
TurnsOf(s) == {s[k][1] : k \in DOMAIN s}

\* The other chats do not know what happens to the history now.
Overtaken(next) ==
    [t \in Turns |-> IF t \in Running /\ next[t] # Over
                     THEN [next[t] EXCEPT !.clean = FALSE] ELSE next[t]]

\* AssistantChat: the history is loaded; when that fails it counts as empty.
Load(t) ==
    /\ chat[t] = Idle
    /\ \E ok \in BOOLEAN :
          chat' = [chat EXCEPT ![t] =
             [at |-> "ask", seen |-> IF ok THEN hist ELSE <<>>,
              new |-> <<<<t, "user">>>>, left |-> MaxToolIterations, clean |-> ok]]
    /\ UNCHANGED <<hist, full, gone>>

\* An assistant message is kept if it has a text.
Said(t) == {chat[t].new, Append(chat[t].new, <<t, "assistant">>)}

\* The model asks for tools, and gets their results, and has one round less.
UseTools(t) ==
    /\ chat[t].at = "ask" /\ chat[t].left > 0
    /\ \E s \in Said(t) : chat' = [chat EXCEPT ![t].new = s, ![t].left = @ - 1]
    /\ UNCHANGED <<hist, full, gone>>

\* The model fails or is out of rounds: the turn is not saved.
GiveUp(t) ==
    /\ chat[t].at = "ask"
    /\ chat' = [chat EXCEPT ![t] = Over]
    /\ UNCHANGED <<hist, full, gone>>

\* No more tools: the answer is streamed, whether or not the stream breaks.
Finish(t) ==
    /\ chat[t].at = "ask" /\ chat[t].left > 0
    /\ \E s \in Said(t) : chat' = [chat EXCEPT ![t].new = s, ![t].at = "save"]
    /\ UNCHANGED <<hist, full, gone>>

\* Mutant: the first messages are kept.
KeepFirst(s) == SubSeq(s, 1, IF Len(s) < Keep THEN Len(s) ELSE Keep)

\* Mutant: nothing is dropped.
KeepAll(s) == s

\* Only the last messages are kept.
KeepLast(s) == IF Len(s) > Keep THEN SubSeq(s, Len(s) - Keep + 1, Len(s)) ELSE s

\* saveHistory writes what this chat knows, whatever is stored by now; an
\* error is logged and dropped.
SaveHistory(t) ==
    /\ chat[t].at = "save"
    /\ \/ /\ hist' = KeepLast(chat[t].seen \o chat[t].new)
          /\ full' = (IF chat[t].clean THEN full ELSE chat[t].seen) \o chat[t].new
          /\ chat' = Overtaken([chat EXCEPT ![t] = Over])
       \/ chat' = [chat EXCEPT ![t] = Over] /\ UNCHANGED <<hist, full>>
    /\ UNCHANGED gone

\* Mutant: only the last answer is deleted.
ClearLast ==
    /\ hist # <<>>
    /\ hist' = Front(hist) /\ full' = Front(full)
    /\ gone' = IF Running = {} THEN gone \cup TurnsOf(hist) ELSE gone
    /\ chat' = Overtaken(chat)

\* AssistantClear; an error is dropped, and nothing is deleted.
Clear ==
    /\ hist' = <<>> /\ full' = <<>>
    /\ gone' = IF Running = {} THEN gone \cup TurnsOf(hist) ELSE gone
    /\ chat' = Overtaken(chat)

\* The process stops and starts.
Restart ==
    /\ chat' = [t \in Turns |-> IF t \in Running THEN Over ELSE chat[t]]
    /\ UNCHANGED <<hist, full, gone>>

Next ==
    \/ \E t \in Turns : Load(t) \/ UseTools(t) \/ GiveUp(t) \/ Finish(t) \/ SaveHistory(t)
    \/ Clear \/ Restart

Spec == Init /\ [][Next]_vars

-----------------------------------------------------------------------------
(* Properties *)

\* The stored conversation is the latest messages of all that was said in order
\* since it was cleared: trimming it again and again loses nothing that is
\* still within the limit, and chats that did not overlap lose no turn.
RemembersLatest == IsSuffix(hist, full) /\ (hist = full \/ Len(hist) = Keep)

\* Turns that were cleared while no chat was running do not come back.
ClearedStays == gone \cap TurnsOf(hist) = {}

=============================================================================
