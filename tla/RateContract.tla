---------------------------- MODULE RateContract ----------------------------
(***************************************************************************)
(* What the send limiter of an account promises, without a bucket: asked   *)
(* at any moment, it grants exactly when no window of time would then hold *)
(* more grants than Burst plus what has accrued over the window.           *)
(*                                                                         *)
(* Time is counted in ticks.  One message costs Cost ticks, so a minute is *)
(* Burst * Cost ticks long: the limiter of account.go refills its whole    *)
(* burst in one minute.                                                    *)
(***************************************************************************)
EXTENDS Integers, Sequences

CONSTANTS Senders, Burst, Cost

VARIABLES now, grants, req

Minute == Burst * Cost

\* Grants i..j, all within g[j] - g[i] ticks, are paid for.
WithinRate(g) ==
    \A j \in 1..Len(g) : \A i \in 1..j :
        (j - i + 1) * Cost <= Minute + (g[j] - g[i])

Init ==
    /\ now \in Nat
    /\ grants = <<>>
    /\ req = [s \in Senders |-> "idle"]

Tick == now' = now + 1 /\ UNCHANGED <<grants, req>>

Ask(s) ==
    /\ req[s] = "idle"
    /\ IF WithinRate(Append(grants, now))
       THEN /\ grants' = Append(grants, now)
            /\ req' = [req EXCEPT ![s] = "granted"]
       ELSE /\ req' = [req EXCEPT ![s] = "refused"]
            /\ UNCHANGED grants
    /\ UNCHANGED now

Finish(s) ==
    /\ req[s] # "idle"
    /\ req' = [req EXCEPT ![s] = "idle"]
    /\ UNCHANGED <<now, grants>>

\* A new process owes nothing to the grants of the one before.
Renew ==
    /\ grants' = <<>>
    /\ req' = [s \in Senders |-> "idle"]
    /\ UNCHANGED now

Next == Tick \/ Renew \/ \E s \in Senders : Ask(s) \/ Finish(s)

Spec == Init /\ [][Next]_<<now, grants, req>>

=============================================================================
