--------------------------- MODULE WebhookDispatch ---------------------------
(***************************************************************************)
(* Webhook delivery of one account: dispatchWebhook starts a goroutine per *)
(* event, which reads the webhook_config row once and posts the event,     *)
(* again after a transport error or a 5xx, while the row is edited and     *)
(* deleted under it.  The receiver and the network are external: a request *)
(* may arrive late, and its answer may never come back.                    *)
(***************************************************************************)
EXTENDS Naturals

CONSTANTS
    Events,     \* WhatsApp events of the account, one goroutine each
    Kind,       \* Kind[e]: "message" or "receipt"
    Urls,
    Secrets,    \* HMAC secrets; NoSecret means no signature header
    NoUrl, NoSecret,
    RetryCount  \* [webhooks] retry_count as configured

Kinds == {"message", "receipt"}

ASSUME KindAssumption == Kind \in [Events -> Kinds]
ASSUME NilAssumption == NoUrl \notin Urls /\ NoSecret \notin Secrets
ASSUME ConfigAssumption == RetryCount \in Nat

VARIABLES
    row,        \* the webhook_config row; url = NoUrl when there is none
    saved,      \* history: (url, secret) pairs that were saved together
    job,        \* the goroutine of each event
    net,        \* requests on their way to the receiver
    got,        \* got[e]: the attempts of e that reached the receiver
    answered    \* events whose delivery saw an answer below 500

vars == <<row, saved, job, net, got, answered>>

\* doDispatchWebhook: a count that is not positive means 3 retries.
Retries == IF RetryCount = 0 THEN 3 ELSE RetryCount
MaxAttempts == 1 + Retries

Rows == [url : Urls \cup {NoUrl}, secret : Secrets \cup {NoSecret},
         kinds : SUBSET Kinds, on : BOOLEAN]
NoRow == [url |-> NoUrl, secret |-> NoSecret, kinds |-> {}, on |-> FALSE]

Job == [at : {"none", "read", "post", "wait", "sleep", "ended", "lost"},
        url : Urls \cup {NoUrl}, secret : Secrets \cup {NoSecret},
        attempt : 0..MaxAttempts]
NoJob == [at |-> "none", url |-> NoUrl, secret |-> NoSecret, attempt |-> 0]

Post == [ev : Events, n : 1..MaxAttempts, url : Urls,
         secret : Secrets \cup {NoSecret}]

TypeOK ==
    /\ row \in Rows
    /\ saved \subseteq Urls \X (Secrets \cup {NoSecret})
    /\ job \in [Events -> Job]
    /\ net \subseteq Post
    /\ got \in [Events -> SUBSET (1..MaxAttempts)]
    /\ answered \subseteq Events

Init ==
    /\ row = NoRow /\ saved = {}
    /\ job = [e \in Events |-> NoJob]
    /\ net = {} /\ answered = {}
    /\ got = [e \in Events |-> {}]

-----------------------------------------------------------------------------
(* The webhook endpoints *)

SetWebhook(url, secret, kinds, on) ==
    /\ row' = [url |-> url, secret |-> secret, kinds |-> kinds, on |-> on]
    /\ saved' = saved \cup {<<url, secret>>}
    /\ UNCHANGED <<job, net, got, answered>>

DeleteWebhook ==
    /\ row' = NoRow
    /\ UNCHANGED <<saved, job, net, got, answered>>

-----------------------------------------------------------------------------
(* The goroutine of an event *)

\* handleEvent dispatches a message or a receipt.
Dispatch(e) ==
    /\ job[e].at = "none"
    /\ job' = [job EXCEPT ![e].at = "read"]
    /\ UNCHANGED <<row, saved, net, got, answered>>

\* The row wants events of this kind; no list means all of them.
Wanted(e) == row.on /\ row.url # NoUrl /\ (row.kinds = {} \/ Kind[e] \in row.kinds)

\* The row is read once, and its URL and secret are kept for every attempt;
\* a row that cannot be read drops the event.
ReadConfig(e) ==
    /\ job[e].at = "read"
    /\ \/ /\ Wanted(e)
          /\ job' = [job EXCEPT ![e].at = "post", ![e].url = row.url,
                                ![e].secret = row.secret]
       \/ job' = [job EXCEPT ![e].at = "ended"]
    /\ UNCHANGED <<row, saved, net, got, answered>>

\* Mutant: the URL is looked up again for every attempt, the signature not.
SendFresh(e) ==
    /\ job[e].at = "post" /\ row.url # NoUrl
    /\ job' = [job EXCEPT ![e].at = "wait", ![e].attempt = @ + 1]
    /\ net' = net \cup {[ev |-> e, n |-> job[e].attempt + 1, url |-> row.url,
                         secret |-> job[e].secret]}
    /\ UNCHANGED <<row, saved, got, answered>>

\* httpClient.Do starts.
Send(e) ==
    /\ job[e].at = "post"
    /\ job' = [job EXCEPT ![e].at = "wait", ![e].attempt = @ + 1]
    /\ net' = net \cup {[ev |-> e, n |-> job[e].attempt + 1, url |-> job[e].url,
                         secret |-> job[e].secret]}
    /\ UNCHANGED <<row, saved, got, answered>>

\* Mutant: one attempt too many.
RetryOnceMore(e) ==
    job' = [job EXCEPT ![e] =
               IF @.attempt <= MaxAttempts
               THEN [@ EXCEPT !.at = "sleep"]
               ELSE [@ EXCEPT !.at = "ended"]]

\* Mutant: a failed attempt is repeated for ever.
RetryForever(e) ==
    job' = [job EXCEPT ![e].at = "sleep", ![e].attempt = 0]

\* Mutant: the first failure is the last.
RetryNever(e) == job' = [job EXCEPT ![e].at = "ended"]

\* Sleep retryDelay * attempt and try again, or give up after the last one.
Retry(e) ==
    job' = [job EXCEPT ![e] =
               IF @.attempt < MaxAttempts
               THEN [@ EXCEPT !.at = "sleep"]
               ELSE [@ EXCEPT !.at = "ended"]]

\* A transport error or a timeout, whether the request arrived or not.
Fail(e) ==
    /\ job[e].at = "wait"
    /\ Retry(e)
    /\ UNCHANGED <<row, saved, net, got, answered>>

\* An answer to the attempt in flight: 5xx.
ServerError(e) ==
    /\ job[e].at = "wait" /\ job[e].attempt \in got[e]
    /\ Retry(e)
    /\ UNCHANGED <<row, saved, net, got, answered>>

\* Mutant: a client error is retried like a server error.
AnswerRetried(e) ==
    /\ job[e].at = "wait" /\ job[e].attempt \in got[e]
    /\ answered' = answered \cup {e}
    /\ Retry(e)
    /\ UNCHANGED <<row, saved, net, got>>

\* An answer to the attempt in flight: 2xx to 4xx, which ends the delivery.
Answer(e) ==
    /\ job[e].at = "wait" /\ job[e].attempt \in got[e]
    /\ answered' = answered \cup {e}
    /\ job' = [job EXCEPT ![e].at = "ended"]
    /\ UNCHANGED <<row, saved, net, got>>

WakeUp(e) ==
    /\ job[e].at = "sleep"
    /\ job' = [job EXCEPT ![e].at = "post"]
    /\ UNCHANGED <<row, saved, net, got, answered>>

-----------------------------------------------------------------------------
(* The network and the receiver (external), and the process *)

Receive(p) ==
    /\ p \in net
    /\ net' = net \ {p}
    /\ got' = [got EXCEPT ![p.ev] = @ \cup {p.n}]
    /\ UNCHANGED <<row, saved, job, answered>>

Lose(p) ==
    /\ p \in net
    /\ net' = net \ {p}
    /\ UNCHANGED <<row, saved, job, got, answered>>

\* The process stops: goroutines are gone, the row stays.
Restart ==
    /\ job' = [e \in Events |->
                  IF job[e].at \in {"none", "ended"} THEN job[e]
                  ELSE [job[e] EXCEPT !.at = "lost"]]
    /\ UNCHANGED <<row, saved, net, got, answered>>

Step(e) ==
    ReadConfig(e) \/ Send(e) \/ Fail(e) \/ ServerError(e) \/ Answer(e) \/ WakeUp(e)

Next ==
    \/ \E url \in Urls, secret \in Secrets \cup {NoSecret},
          kinds \in SUBSET Kinds, on \in BOOLEAN :
             SetWebhook(url, secret, kinds, on)
    \/ DeleteWebhook
    \/ \E e \in Events : Dispatch(e) \/ Step(e)
    \/ \E p \in net : Receive(p) \/ Lose(p)
    \/ Restart

Spec == Init /\ [][Next]_vars

\* A goroutine that can run does; http.Client.Timeout ends every wait.
FairSpec == Spec /\ \A e \in Events : WF_vars(Step(e))

-----------------------------------------------------------------------------
(* Properties *)

\* Edits never tear a delivery: whatever is posted to a URL is signed with a
\* secret that was saved together with that URL, and all attempts of an event
\* go to one receiver, also when the row is edited or deleted between two.
SignedForItsUrl ==
    \A p \in net :
        /\ <<p.url, p.secret>> \in saved
        /\ \A q \in net : p.ev = q.ev => p.url = q.url /\ p.secret = q.secret

\* Once the delivery of an event has seen an answer below 500, the event is
\* not posted again.
QuietAfterAnswer ==
    [][\A e \in answered : job'[e].attempt = job[e].attempt]_vars

\* An event that was posted is given up only when every one of its attempts
\* has failed.
GivesUpLast ==
    \A e \in Events :
        job[e].at = "ended" /\ job[e].attempt > 0 /\ e \notin answered
            => job[e].attempt = MaxAttempts

\* What becomes of an event, for those who do not see its goroutine.
Phase(j) ==
    CASE j.at = "none" -> "new"
      [] j.at = "ended" -> "over"
      [] j.at = "lost" -> "cut"
      [] OTHER -> "open"

Contract == INSTANCE DeliveryContract
    WITH Targets <- Urls \X (Secrets \cup {NoSecret}), NoTarget <- <<NoUrl, NoSecret>>,
         Attempts <- MaxAttempts, offered <- saved,
         phase <- [e \in Events |-> Phase(job[e])],
         target <- [e \in Events |-> <<job[e].url, job[e].secret>>],
         posts <- [e \in Events |-> job[e].attempt],
         air <- {[ev |-> p.ev, n |-> p.n, to |-> <<p.url, p.secret>>] : p \in net},
         arrived <- got

\* Through edits, retries, late arrivals and restarts, the goroutines keep the
\* contract: one target per event, chosen once and whole; no post beyond the
\* attempts or after the end; no end before an answer or the last attempt.
Promise == Contract!Spec

\* How far the delivery of an event has come.
Progress(j) ==
    CASE j.at = "none" -> 0
      [] j.at = "read" -> 1
      [] j.at = "post" -> 3 * j.attempt + 2
      [] j.at = "wait" -> 3 * j.attempt
      [] j.at = "sleep" -> 3 * j.attempt + 1
      [] j.at \in {"ended", "lost"} -> 3 * MaxAttempts + 1

\* A delivery never goes back, whatever the receiver does: it is over after
\* 3 * MaxAttempts + 1 steps of its goroutine.
OnlyForward ==
    [][\A e \in Events : job'[e] # job[e] => Progress(job'[e]) > Progress(job[e])]_vars

\* Every goroutine ends, whatever the receiver does.
DeliveryEnds ==
    \A e \in Events : job[e].at # "none" ~> job[e].at \in {"ended", "lost"}

=============================================================================
