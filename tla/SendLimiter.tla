---------------------------- MODULE SendLimiter -----------------------------
(***************************************************************************)
(* The send limiter of one account (tokenBucket, account.go) and the three *)
(* operations that take a token before they send (SendMessage, SendMedia   *)
(* and SendReply, called by any number of requests at once).  What leaves  *)
(* the account is not bounded by what is granted: SendReaction and         *)
(* RevokeMessage send without asking the bucket, and change nothing here.  *)
(*                                                                         *)
(* newTokenBucket(perMinute) gains perMinute tokens in 60 seconds and      *)
(* holds at most perMinute.  Tokens are counted here in ticks, the time    *)
(* they take to accrue: a message costs Cost ticks, the bucket holds a     *)
(* minute of them, and Burst is perMinute.  float64 is taken as exact.     *)
(***************************************************************************)
EXTENDS Integers, Sequences

CONSTANTS
    Senders,    \* concurrent requests
    Burst,      \* perMinute, 30 in NewAccount
    Cost,       \* ticks that one token takes to accrue
    MaxTime     \* bound: the clock stops there

ASSUME LimiterAssumption ==
    /\ Burst \in Nat \ {0}
    /\ Cost \in Nat \ {0}
    /\ MaxTime \in Nat

VARIABLES
    now,        \* the monotonic clock
    tokens,     \* tb.tokens, in ticks
    lastTime,   \* tb.lastTime
    req,        \* req[s]: "idle", or the answer request s got from allow
    grants      \* history: when tokens were granted in this process

vars == <<now, tokens, lastTime, req, grants>>

Max == Burst * Cost

TypeOK ==
    /\ now \in 0..MaxTime
    /\ tokens \in 0..Max
    /\ lastTime \in 0..MaxTime
    /\ req \in [Senders -> {"idle", "granted", "refused"}]
    /\ grants \in Seq(0..MaxTime)

\* newTokenBucket: it starts full.
Init ==
    /\ now = 0 /\ tokens = Max /\ lastTime = 0
    /\ req = [s \in Senders |-> "idle"]
    /\ grants = <<>>

Tick ==
    /\ now < MaxTime
    /\ now' = now + 1
    /\ UNCHANGED <<tokens, lastTime, req, grants>>

\* What allow adds before it looks, capped at the size of the bucket.
Refill ==
    LET filled == tokens + (now - lastTime)
    IN IF filled > Max THEN Max ELSE filled

\* Mutant: a token is taken from an empty bucket too.
AllowEmpty(s) ==
    /\ req[s] = "idle"
    /\ lastTime' = now
    /\ tokens' = Refill - Cost
    /\ req' = [req EXCEPT ![s] = "granted"]
    /\ grants' = Append(grants, now)
    /\ UNCHANGED now

\* Mutant: a refusal moves lastTime and loses what has accrued.
AllowForgetful(s) ==
    /\ req[s] = "idle"
    /\ lastTime' = now
    /\ IF Refill < Cost
       THEN /\ req' = [req EXCEPT ![s] = "refused"]
            /\ UNCHANGED <<tokens, grants>>
       ELSE /\ tokens' = Refill - Cost
            /\ req' = [req EXCEPT ![s] = "granted"]
            /\ grants' = Append(grants, now)
    /\ UNCHANGED now

\* allow, under tb.mu; the clock is read inside the lock.
Allow(s) ==
    /\ req[s] = "idle"
    /\ lastTime' = now
    /\ IF Refill < Cost
       THEN /\ tokens' = Refill
            /\ req' = [req EXCEPT ![s] = "refused"]
            /\ UNCHANGED grants
       ELSE /\ tokens' = Refill - Cost
            /\ req' = [req EXCEPT ![s] = "granted"]
            /\ grants' = Append(grants, now)
    /\ UNCHANGED now

\* The granted request sends, at once or after an upload, or fails: no
\* connected client, bad JID, upload or send error.  No token is given back.
SendEnds(s) ==
    /\ req[s] = "granted"
    /\ req' = [req EXCEPT ![s] = "idle"]
    /\ UNCHANGED <<now, tokens, lastTime, grants>>

\* "rate limit exceeded": the request goes back without sending.
Refused(s) ==
    /\ req[s] = "refused"
    /\ req' = [req EXCEPT ![s] = "idle"]
    /\ UNCHANGED <<now, tokens, lastTime, grants>>

\* The process stops and starts: NewAccount makes a new bucket.
Restart ==
    /\ tokens' = Max /\ lastTime' = now
    /\ req' = [s \in Senders |-> "idle"]
    /\ grants' = <<>>
    /\ UNCHANGED now

Next ==
    \/ Tick \/ Restart
    \/ \E s \in Senders : Allow(s) \/ SendEnds(s) \/ Refused(s)

Spec == Init /\ [][Next]_vars

-----------------------------------------------------------------------------
(* Properties *)

\* The clock, the answers and the grants are the contract's own; tokens
\* and lastTime are what it does not know of.
Contract == INSTANCE RateContract
    WITH Senders <- Senders, Burst <- Burst, Cost <- Cost,
         now <- now, grants <- grants, req <- req

\* Over every window of time the limiter grants no more than a full bucket
\* plus what accrues during the window, whatever the interleaving.
WindowBound == Contract!WithinRate(grants)

\* The bucket is a limiter by windows and nothing else: it refuses only when
\* granting would break the bound, so no refill is ever lost to a refusal or
\* to rounding down, and never grants beyond it.
Promise == Contract!Spec

=============================================================================
