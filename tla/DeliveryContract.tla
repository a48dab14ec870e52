-------------------------- MODULE DeliveryContract --------------------------
(***************************************************************************)
(* What the webhook of an account promises its receivers, without rows,    *)
(* goroutines or timers: an event is posted to one target, which was       *)
(* configured as a whole, at most so often, and it is over once an attempt *)
(* that arrived was answered or all attempts were made.  Only the end of   *)
(* the process cuts a delivery short.                                      *)
(***************************************************************************)
EXTENDS Naturals

CONSTANTS
    Events,
    Targets, NoTarget,  \* a URL and the secret that signs for it
    Attempts            \* posts of one event at most

VARIABLES
    offered,    \* targets that were configured so far
    phase,      \* phase[e]: "new", "open", "over", or "cut" short
    target,     \* target[e]: where e goes
    posts,      \* posts[e]: how often e was posted
    air,        \* posts on their way
    arrived     \* arrived[e]: the posts of e that arrived

vars == <<offered, phase, target, posts, air, arrived>>

Init ==
    /\ offered = {} /\ air = {}
    /\ phase = [e \in Events |-> "new"]
    /\ target = [e \in Events |-> NoTarget]
    /\ posts = [e \in Events |-> 0]
    /\ arrived = [e \in Events |-> {}]

Offer(t) ==
    /\ offered' = offered \cup {t}
    /\ UNCHANGED <<phase, target, posts, air, arrived>>

Open(e) ==
    /\ phase[e] = "new"
    /\ phase' = [phase EXCEPT ![e] = "open"]
    /\ UNCHANGED <<offered, target, posts, air, arrived>>

\* The target of an event is chosen once.
Bind(e, t) ==
    /\ phase[e] = "open" /\ target[e] = NoTarget /\ t \in offered
    /\ target' = [target EXCEPT ![e] = t]
    /\ UNCHANGED <<offered, phase, posts, air, arrived>>

Post(e) ==
    /\ phase[e] = "open" /\ target[e] # NoTarget /\ posts[e] < Attempts
    /\ posts' = [posts EXCEPT ![e] = @ + 1]
    /\ air' = air \cup {[ev |-> e, n |-> posts[e] + 1, to |-> target[e]]}
    /\ UNCHANGED <<offered, phase, target, arrived>>

Arrive(m) ==
    /\ m \in air
    /\ air' = air \ {m}
    /\ arrived' = [arrived EXCEPT ![m.ev] = @ \cup {m.n}]
    /\ UNCHANGED <<offered, phase, target, posts>>

Drop(m) ==
    /\ m \in air
    /\ air' = air \ {m}
    /\ UNCHANGED <<offered, phase, target, posts, arrived>>

\* No target wants the event, the last post arrived, or it was the last allowed.
Close(e) ==
    /\ phase[e] = "open"
    /\ \/ target[e] = NoTarget
       \/ posts[e] \in arrived[e]
       \/ posts[e] = Attempts
    /\ phase' = [phase EXCEPT ![e] = "over"]
    /\ UNCHANGED <<offered, target, posts, air, arrived>>

Stop ==
    /\ phase' = [e \in Events |-> IF phase[e] = "open" THEN "cut" ELSE phase[e]]
    /\ UNCHANGED <<offered, target, posts, air, arrived>>

Next ==
    \/ \E t \in Targets : Offer(t)
    \/ \E e \in Events :
          Open(e) \/ Post(e) \/ Close(e) \/ \E t \in Targets : Bind(e, t)
    \/ \E m \in air : Arrive(m) \/ Drop(m)
    \/ Stop

Spec == Init /\ [][Next]_vars

=============================================================================
