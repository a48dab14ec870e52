----------------------- MODULE WebhookDispatch_proofs -----------------------
(***************************************************************************)
(* An edit never tears a webhook delivery, and a delivery stops when it    *)
(* should, for any number of events, URLs, secrets and retries.            *)
(***************************************************************************)
EXTENDS WebhookDispatch, TLAPS

\* The pair in the row was saved as a pair.
RowSaved == row.url # NoUrl => <<row.url, row.secret>> \in saved

\* What a goroutine may hold in each place: nothing before it has read the
\* row, then one of the pairs, and never more attempts than allowed.
Sound(j, pairs) ==
    /\ j.at \in {"none", "read"} => j.attempt = 0
    /\ j.at \in {"post", "wait", "sleep"} => j.url \in Urls /\ <<j.url, j.secret>> \in pairs
    /\ j.at \in {"post", "sleep"} => j.attempt < MaxAttempts
    /\ j.at = "wait" => j.attempt > 0

JobsSound ==
    \A e \in Events : Sound(job[e], saved) /\ (e \in answered => job[e].at = "ended")

\* A request on its way carries what its goroutine holds.
PostsAreOfJobs ==
    \A p \in net :
        /\ <<p.url, p.secret>> \in saved
        /\ job[p.ev].attempt > 0
        /\ p.url = job[p.ev].url /\ p.secret = job[p.ev].secret

DispatchInv ==
    /\ TypeOK /\ RowSaved /\ JobsSound /\ PostsAreOfJobs
    /\ GivesUpLast

-----------------------------------------------------------------------------
\* There is at least one attempt.
LEMMA AttemptTypes == Retries \in Nat /\ MaxAttempts \in Nat /\ MaxAttempts > 0
BY ConfigAssumption DEF Retries, MaxAttempts

\* Nothing is configured, dispatched or posted at first.
LEMMA InitDispatch == Init => DispatchInv
<1> SUFFICES ASSUME Init PROVE DispatchInv
  OBVIOUS
<1>1. NoRow \in Rows /\ NoJob \in Job
  BY AttemptTypes DEF NoRow, Rows, NoJob, Job
<1>2. TypeOK
  BY <1>1 DEF Init, TypeOK
<1>3. RowSaved /\ PostsAreOfJobs
  BY DEF Init, RowSaved, PostsAreOfJobs, NoRow
<1>4. JobsSound
  BY AttemptTypes DEF Init, JobsSound, Sound, NoJob
<1>5. GivesUpLast
  BY DEF Init, GivesUpLast, NoJob
<1> QED BY <1>2, <1>3, <1>4, <1>5 DEF DispatchInv

\* A goroutine moves on: it keeps the invariant if what it holds is sound, and
\* it keeps the pair that its requests carry.
LEMMA JobMoves ==
    ASSUME DispatchInv, NEW e \in Events, NEW j \in Job,
           job' = [job EXCEPT ![e] = j],
           row' = row, saved' = saved, net' = net, got' = got,
           answered' \in {answered, answered \cup {e}},
           Sound(j, saved), e \in answered' => j.at = "ended",
           job[e].attempt > 0 =>
               j.url = job[e].url /\ j.secret = job[e].secret /\ j.attempt > 0,
           j.at = "ended" /\ j.attempt > 0 /\ e \notin answered' => j.attempt = MaxAttempts
    PROVE  DispatchInv'
<1>1. TypeOK /\ job \in [Events -> Job] /\ job'[e] = j
      /\ \A f \in Events : f # e => job'[f] = job[f]
  BY DEF DispatchInv, TypeOK
<1>2. TypeOK'
  BY <1>1, ConfigAssumption DEF TypeOK
<1>3. RowSaved'
  BY DEF DispatchInv, RowSaved
<1>4. JobsSound'
  BY <1>1 DEF DispatchInv, JobsSound, Sound, MaxAttempts, Retries
<1>5. PostsAreOfJobs'
  BY <1>1 DEF DispatchInv, TypeOK, PostsAreOfJobs, Post
<1>6. GivesUpLast'
  BY <1>1 DEF DispatchInv, GivesUpLast, MaxAttempts, Retries
<1> QED BY <1>2, <1>3, <1>4, <1>5, <1>6 DEF DispatchInv

\* The network drops a request, and the receiver may have seen it.
LEMMA NetLoses ==
    ASSUME DispatchInv, net' \subseteq net, got' \in [Events -> SUBSET (1..MaxAttempts)],
           row' = row, saved' = saved, job' = job, answered' = answered
    PROVE  DispatchInv'
<1>1. TypeOK' /\ RowSaved'
  BY DEF DispatchInv, TypeOK, RowSaved, MaxAttempts, Retries
<1>2. JobsSound'
  BY DEF DispatchInv, JobsSound, Sound, MaxAttempts, Retries
<1>3. PostsAreOfJobs' /\ GivesUpLast'
  BY DEF DispatchInv, PostsAreOfJobs, GivesUpLast, MaxAttempts, Retries
<1> QED BY <1>1, <1>2, <1>3 DEF DispatchInv

\* Another row is saved, or the row is deleted.
LEMMA RowMoves ==
    ASSUME DispatchInv, row' \in Rows, saved \subseteq saved',
           saved' \subseteq Urls \X (Secrets \cup {NoSecret}), RowSaved',
           net' = net, got' = got, job' = job, answered' = answered
    PROVE  DispatchInv'
<1>1. TypeOK'
  BY DEF DispatchInv, TypeOK, MaxAttempts, Retries
<1>2. JobsSound'
  BY DEF DispatchInv, JobsSound, Sound, MaxAttempts, Retries
<1>3. PostsAreOfJobs' /\ GivesUpLast'
  BY DEF DispatchInv, PostsAreOfJobs, GivesUpLast, MaxAttempts, Retries
<1> QED BY <1>1, <1>2, <1>3 DEF DispatchInv

\* One step of the goroutine of e, and its start.
LEMMA GoroutineStep ==
    ASSUME DispatchInv, NEW e \in Events, Dispatch(e) \/ Step(e)
    PROVE  DispatchInv'
<1>1. /\ TypeOK /\ RowSaved
      /\ Sound(job[e], saved) /\ (e \in answered => job[e].at = "ended")
      /\ job[e] \in Job
      /\ job[e].attempt \in 0..MaxAttempts /\ row \in Rows
      /\ job \in [Events -> Job]
  BY DEF DispatchInv, TypeOK, Job, JobsSound
<1>2. CASE Dispatch(e)
  <2> DEFINE j == [job[e] EXCEPT !.at = "read"]
  <2>1. j \in Job /\ j.at = "read" /\ j.attempt = 0
    BY <1>1, <1>2 DEF Dispatch, Job, Sound
  <2>2. job' = [job EXCEPT ![e] = j]
    BY <1>2 DEF Dispatch
  <2>3. Sound(j, saved) /\ (e \in answered' => j.at = "ended")
    BY <1>1, <1>2, <2>1, <2>2 DEF Dispatch, Sound
  <2>4. ~(job[e].attempt > 0) /\ ~(j.attempt > 0)
    BY <1>1, <1>2, <2>1 DEF Dispatch, Sound
  <2> HIDE DEF j
  <2> QED BY <1>2, <2>1, <2>2, <2>3, <2>4, JobMoves DEF Dispatch
<1>3. CASE ReadConfig(e)
  <2>1. job[e].attempt = 0 /\ ~(job[e].attempt > 0)
    BY <1>1, <1>3 DEF ReadConfig, Sound
  <2>2. CASE Wanted(e) /\ job' = [job EXCEPT ![e].at = "post", ![e].url = row.url,
                                             ![e].secret = row.secret]
    <3> DEFINE j == [job[e] EXCEPT !.at = "post", !.url = row.url, !.secret = row.secret]
    <3>1. /\ j \in Job /\ j.at = "post" /\ j.attempt = 0 /\ ~(j.attempt > 0)
          /\ j.url = row.url /\ j.secret = row.secret
      BY <1>1, <2>1 DEF Job, Rows
    <3>2. job' = [job EXCEPT ![e] = j]
      BY <2>2
    <3>3. row.url \in Urls /\ <<row.url, row.secret>> \in saved
      BY <1>1, <2>2 DEF Wanted, RowSaved, Rows
    <3>4. Sound(j, saved) /\ (e \in answered' => j.at = "ended")
      BY <1>1, <1>3, <3>1, <3>2, <3>3, AttemptTypes
      DEF ReadConfig, Sound
    <3> HIDE DEF j
    <3> QED BY <1>3, <2>1, <3>1, <3>2, <3>4, JobMoves DEF ReadConfig
  <2>3. CASE job' = [job EXCEPT ![e].at = "ended"]
    <3> DEFINE j == [job[e] EXCEPT !.at = "ended"]
    <3>1. j \in Job /\ j.at = "ended" /\ j.attempt = 0 /\ ~(j.attempt > 0)
      BY <1>1, <2>1 DEF Job
    <3>2. job' = [job EXCEPT ![e] = j]
      BY <2>3
    <3>3. Sound(j, saved) /\ (e \in answered' => j.at = "ended")
      BY <1>1, <1>3, <3>1, <3>2 DEF ReadConfig, Sound
    <3> HIDE DEF j
    <3> QED BY <1>3, <2>1, <3>1, <3>2, <3>3, JobMoves DEF ReadConfig
  <2> QED BY <1>3, <2>2, <2>3 DEF ReadConfig
<1>4. CASE Send(e)
  <2> DEFINE n == job[e].attempt + 1
             p == [ev |-> e, n |-> n, url |-> job[e].url, secret |-> job[e].secret]
  <2>1. /\ n \in 1..MaxAttempts /\ job[e].url \in Urls
        /\ <<job[e].url, job[e].secret>> \in saved /\ e \notin answered
    BY <1>1, <1>4, AttemptTypes DEF Send, Sound
  <2>2. p \in Post
    BY <1>1, <2>1 DEF Post, Job
  <2>3. /\ job'[e].at = "wait" /\ job'[e].attempt = n /\ job'[e].attempt > 0
        /\ job'[e].url = job[e].url /\ job'[e].secret = job[e].secret
        /\ \A f \in Events : f # e => job'[f] = job[f]
        /\ job' \in [Events -> Job]
    BY <1>1, <1>4, <2>1 DEF Send, Job
  <2>4. net' = net \cup {p} /\ row' = row /\ saved' = saved /\ got' = got
        /\ answered' = answered
    BY <1>4 DEF Send
  <2> HIDE DEF p
  <2>5. TypeOK'
    BY <1>1, <2>2, <2>3, <2>4 DEF TypeOK, Job, MaxAttempts, Retries
  <2>6. RowSaved'
    BY <1>1, <2>4 DEF RowSaved
  <2>7. JobsSound'
    BY <2>1, <2>3, <2>4 DEF DispatchInv, JobsSound, Sound, MaxAttempts, Retries
  <2>8. PostsAreOfJobs'
    <3>1. p.ev = e /\ p.url = job[e].url /\ p.secret = job[e].secret
      BY DEF p
    <3>2. \A q \in net : q.ev \in Events
      BY <1>1 DEF TypeOK, Post
    <3> QED BY <2>1, <2>3, <2>4, <3>1, <3>2 DEF DispatchInv, PostsAreOfJobs
  <2>9. GivesUpLast'
    BY <2>3, <2>4 DEF DispatchInv, GivesUpLast, MaxAttempts, Retries
  <2> QED BY <2>5, <2>6, <2>7, <2>8, <2>9 DEF DispatchInv
<1>5. ASSUME job[e].at = "wait", Retry(e),
             UNCHANGED <<row, saved, net, got, answered>>
      PROVE  DispatchInv'
  <2> DEFINE j == IF job[e].attempt < MaxAttempts
                  THEN [job[e] EXCEPT !.at = "sleep"] ELSE [job[e] EXCEPT !.at = "ended"]
  <2>1. /\ j \in Job /\ j.at \in {"sleep", "ended"}
        /\ j.at = "sleep" => j.attempt < MaxAttempts
        /\ j.at = "ended" => j.attempt = MaxAttempts
        /\ j.attempt = job[e].attempt /\ j.url = job[e].url /\ j.secret = job[e].secret
    BY <1>1, AttemptTypes DEF Job
  <2>2. job' = [job EXCEPT ![e] = j]
    BY <1>5 DEF Retry
  <2>3. Sound(j, saved) /\ (e \in answered' => j.at = "ended")
    BY <1>1, <1>5, <2>1, <2>2 DEF Sound
  <2> HIDE DEF j
  <2> QED BY <1>5, <2>1, <2>2, <2>3, JobMoves
<1>6. CASE Fail(e) \/ ServerError(e)
  BY <1>5, <1>6 DEF Fail, ServerError
<1>7. CASE Answer(e)
  <2> DEFINE j == [job[e] EXCEPT !.at = "ended"]
  <2>1. /\ j \in Job /\ j.at = "ended" /\ j.attempt = job[e].attempt
        /\ j.url = job[e].url /\ j.secret = job[e].secret
    BY <1>1 DEF Job
  <2>2. job' = [job EXCEPT ![e] = j] /\ answered' = answered \cup {e}
    BY <1>7 DEF Answer
  <2>3. Sound(j, saved) /\ (e \in answered' => j.at = "ended")
    BY <1>1, <2>1, <2>2 DEF Sound
  <2> HIDE DEF j
  <2> QED BY <1>7, <2>1, <2>2, <2>3, JobMoves DEF Answer
<1>8. CASE WakeUp(e)
  <2> DEFINE j == [job[e] EXCEPT !.at = "post"]
  <2>1. /\ j \in Job /\ j.at = "post" /\ j.attempt = job[e].attempt
        /\ j.url = job[e].url /\ j.secret = job[e].secret
    BY <1>1 DEF Job
  <2>2. job' = [job EXCEPT ![e] = j] /\ answered' = answered
    BY <1>8 DEF WakeUp
  <2>3. Sound(j, saved) /\ (e \in answered' => j.at = "ended")
    BY <1>1, <1>8, <2>1, <2>2 DEF WakeUp, Sound
  <2> HIDE DEF j
  <2> QED BY <1>8, <2>1, <2>2, <2>3, JobMoves DEF WakeUp
<1> QED BY <1>2, <1>3, <1>4, <1>6, <1>7, <1>8 DEF Step

\* Every step keeps the invariant.
LEMMA StepDispatch == DispatchInv /\ [Next]_vars => DispatchInv'
<1> SUFFICES ASSUME DispatchInv, [Next]_vars PROVE DispatchInv'
  OBVIOUS
<1>1. TypeOK
  BY DEF DispatchInv
<1>2. ASSUME NEW url \in Urls, NEW secret \in Secrets \cup {NoSecret},
             NEW kinds \in SUBSET Kinds, NEW on \in BOOLEAN,
             SetWebhook(url, secret, kinds, on)
      PROVE  DispatchInv'
  <2>1. row' \in Rows /\ <<row'.url, row'.secret>> \in saved'
    BY <1>2 DEF SetWebhook, Rows
  <2>2. saved \subseteq saved' /\ saved' \subseteq Urls \X (Secrets \cup {NoSecret})
    BY <1>1, <1>2 DEF SetWebhook, TypeOK
  <2>3. RowSaved'
    BY <2>1 DEF RowSaved
  <2> QED BY <1>2, <2>1, <2>2, <2>3, RowMoves DEF SetWebhook
<1>3. CASE DeleteWebhook
  <2>1. row' \in Rows /\ RowSaved'
    BY <1>3 DEF DeleteWebhook, NoRow, Rows, RowSaved
  <2> QED BY <1>1, <1>3, <2>1, RowMoves DEF DeleteWebhook, TypeOK
<1>4. ASSUME NEW p \in net, Receive(p) \/ Lose(p) PROVE DispatchInv'
  <2>1. p.ev \in Events /\ p.n \in 1..MaxAttempts
    BY <1>1 DEF TypeOK, Post
  <2>2. got' \in [Events -> SUBSET (1..MaxAttempts)]
    BY <1>1, <1>4, <2>1 DEF Receive, Lose, TypeOK
  <2> QED BY <1>4, <2>2, NetLoses DEF Receive, Lose
<1>5. CASE Restart
  <2>1. \A e \in Events :
           /\ job'[e] \in Job
           /\ job'[e].attempt = job[e].attempt
           /\ job'[e].url = job[e].url /\ job'[e].secret = job[e].secret
           /\ job'[e].at = IF job[e].at \in {"none", "ended"} THEN job[e].at ELSE "lost"
    BY <1>1, <1>5 DEF Restart, TypeOK, Job
  <2>2. TypeOK' /\ RowSaved'
    <3>1. job' \in [Events -> Job]
      BY <1>5, <2>1 DEF Restart
    <3> QED BY <1>1, <1>5, <3>1
            DEF Restart, TypeOK, DispatchInv, RowSaved, Job, MaxAttempts, Retries
  <2>3. JobsSound'
    BY <1>5, <2>1 DEF Restart, DispatchInv, JobsSound, Sound, MaxAttempts, Retries
  <2>4. PostsAreOfJobs'
    BY <1>1, <1>5, <2>1 DEF Restart, DispatchInv, TypeOK, Post, PostsAreOfJobs
  <2>5. GivesUpLast'
    BY <1>5, <2>1 DEF Restart, DispatchInv, GivesUpLast, MaxAttempts, Retries
  <2> QED BY <2>2, <2>3, <2>4, <2>5 DEF DispatchInv
<1>6. CASE UNCHANGED vars
  BY <1>1, <1>6, NetLoses DEF vars, TypeOK
<1> QED BY <1>2, <1>3, <1>4, <1>5, <1>6, GoroutineStep DEF Next

\* The inductive invariant: each goroutine holds one saved pair, and every
\* request on its way carries the pair of its goroutine (doDispatchWebhook).
THEOREM DispatchInvariant == Spec => []DispatchInv
BY InitDispatch, StepDispatch, PTL DEF Spec

\* Every variable keeps its type: in particular no goroutine makes more than
\* 1 + retries attempts.
THEOREM DispatchTypes == Spec => []TypeOK
<1>1. DispatchInv => TypeOK
  BY DEF DispatchInv
<1> QED BY <1>1, DispatchInvariant, PTL

\* Whatever is posted was saved as one configuration, and all attempts of an
\* event carry the same, however the row is edited meanwhile.
THEOREM DeliveriesAreWhole == Spec => []SignedForItsUrl
<1>1. DispatchInv => SignedForItsUrl
  BY DEF DispatchInv, PostsAreOfJobs, SignedForItsUrl
<1> QED BY <1>1, DispatchInvariant, PTL

\* A delivery without an answer is given up only after the last attempt.
THEOREM DeliveriesPersist == Spec => []GivesUpLast
<1>1. DispatchInv => GivesUpLast
  BY DEF DispatchInv
<1> QED BY <1>1, DispatchInvariant, PTL

\* After an answer below 500 the event is not posted again.
THEOREM AnsweredIsOver == Spec => QuietAfterAnswer
<1>1. DispatchInv /\ [Next]_vars
        => [\A e \in answered : job'[e].attempt = job[e].attempt]_vars
  <2> SUFFICES ASSUME DispatchInv, Next, NEW e \in answered
               PROVE  job'[e].attempt = job[e].attempt
    OBVIOUS
  <2>1. e \in Events /\ job[e].at = "ended" /\ job \in [Events -> Job]
    BY DEF DispatchInv, TypeOK, JobsSound
  <2>2. ASSUME NEW f \in Events, Dispatch(f) \/ Step(f)
        PROVE  job'[e].attempt = job[e].attempt
    BY <2>1, <2>2 DEF Dispatch, Step, ReadConfig, Send, Fail, ServerError, Answer,
                      Retry, WakeUp
  <2>3. CASE Restart
    BY <2>1, <2>3 DEF Restart
  <2> QED BY <2>2, <2>3 DEF Next, SetWebhook, DeleteWebhook, Receive, Lose
<1> QED BY <1>1, DispatchInvariant, PTL DEF Spec, QuietAfterAnswer

-----------------------------------------------------------------------------
(* A delivery goes forward *)

\* How a step of doDispatchWebhook, or the end of the process, moves a delivery on.
Moves(j, k) ==
    \/ k.at \in {"ended", "lost"} /\ j.at \notin {"none", "ended", "lost"}
          /\ k.attempt = j.attempt
    \/ /\ j.at = "none" /\ k.at = "read" /\ k.attempt = j.attempt
       /\ k.url = j.url /\ k.secret = j.secret
    \/ j.at = "read" /\ k.at = "post" /\ k.attempt = j.attempt
    \/ j.at = "post" /\ k.at = "wait" /\ k.attempt = j.attempt + 1
    \/ j.at = "wait" /\ k.at = "sleep" /\ k.attempt = j.attempt
    \/ j.at = "sleep" /\ k.at = "post" /\ k.attempt = j.attempt

\* No step moves a delivery in any other way.
LEMMA JobsMoveOn ==
    ASSUME DispatchInv, [Next]_vars, NEW e \in Events
    PROVE  job'[e] = job[e] \/ Moves(job[e], job'[e])
<1>1. /\ job \in [Events -> Job] /\ job[e] \in Job
      /\ job[e].at \in {"none", "read", "post", "wait", "sleep", "ended", "lost"}
  BY DEF DispatchInv, TypeOK, Job
<1>2. CASE UNCHANGED job
  BY <1>2
<1>3. ASSUME NEW f \in Events, Dispatch(f) \/ Step(f)
      PROVE  job'[e] = job[e] \/ Moves(job[e], job'[e])
  <2>1. CASE f = e
    <3>1. CASE Dispatch(e)
      BY <1>1, <3>1 DEF Dispatch, Moves, Job
    <3>2. CASE ReadConfig(e)
      BY <1>1, <3>2 DEF ReadConfig, Moves, Job
    <3>3. CASE Send(e)
      BY <1>1, <3>3 DEF Send, Moves, Job
    <3>4. CASE Fail(e) \/ ServerError(e)
      BY <1>1, <3>4 DEF Fail, ServerError, Retry, Moves, Job
    <3>5. CASE Answer(e) \/ WakeUp(e)
      BY <1>1, <3>5 DEF Answer, WakeUp, Moves, Job
    <3> QED BY <1>3, <2>1, <3>1, <3>2, <3>3, <3>4, <3>5 DEF Step
  <2>2. CASE f # e
    BY <1>1, <1>3, <2>2 DEF Dispatch, Step, ReadConfig, Send, Fail, ServerError, Answer,
                            Retry, WakeUp
  <2> QED BY <2>1, <2>2
<1>4. CASE Restart
  BY <1>1, <1>4 DEF Restart, Moves, Job
<1> QED BY <1>2, <1>3, <1>4 DEF Next, vars, SetWebhook, DeleteWebhook, Receive, Lose

\* Each of these moves is one forward: an attempt is three places, and the row
\* is read before the first.
LEMMA MovesAdvance ==
    ASSUME NEW j \in Job, NEW k \in Job, NEW s, Sound(j, s), Moves(j, k)
    PROVE  Progress(k) > Progress(j)
<1>1. j.attempt \in 0..MaxAttempts /\ k.attempt \in 0..MaxAttempts /\ MaxAttempts \in Nat
  BY AttemptTypes DEF Job
<1>2. CASE j.at \in {"none", "read"}
  BY <1>1, <1>2, AttemptTypes DEF Moves, Progress, Sound
<1>3. CASE j.at = "post"
  BY <1>1, <1>3 DEF Moves, Progress, Sound
<1>4. CASE j.at = "wait"
  BY <1>1, <1>4 DEF Moves, Progress, Sound
<1>5. CASE j.at = "sleep"
  BY <1>1, <1>5 DEF Moves, Progress, Sound
<1> QED BY <1>2, <1>3, <1>4, <1>5 DEF Moves, Job

\* The goroutine of an event never goes back, whatever the receiver answers, so
\* that doDispatchWebhook ends after 3 * MaxAttempts + 1 of its steps at most.
THEOREM DeliveriesAdvance == Spec => OnlyForward
<1>1. ASSUME DispatchInv, DispatchInv', [Next]_vars, NEW e \in Events, job'[e] # job[e]
      PROVE  Progress(job'[e]) > Progress(job[e])
  <2>1. job[e] \in Job /\ job'[e] \in Job /\ Sound(job[e], saved)
    BY <1>1 DEF DispatchInv, TypeOK, JobsSound, Job, MaxAttempts, Retries
  <2> QED BY <1>1, <2>1, JobsMoveOn, MovesAdvance
<1>2. DispatchInv /\ DispatchInv' /\ [Next]_vars
        => [\A e \in Events : job'[e] # job[e] => Progress(job'[e]) > Progress(job[e])]_vars
  BY <1>1
<1> QED BY <1>2, DispatchInvariant, PTL DEF Spec, OnlyForward

-----------------------------------------------------------------------------
(* The goroutines implement the contract *)

\* A goroutine that has not read the row holds no target.
Fresh ==
    \A e \in Events : job[e].at \in {"none", "read"} =>
        job[e].url = NoUrl /\ job[e].secret = NoSecret

\* No step gives a target to a goroutine before it reads the row.
LEMMA StepFresh == DispatchInv /\ Fresh /\ [Next]_vars => Fresh'
<1> SUFFICES ASSUME DispatchInv, Fresh, [Next]_vars, NEW e \in Events,
                    job'[e].at \in {"none", "read"}
             PROVE  job'[e].url = NoUrl /\ job'[e].secret = NoSecret
  BY DEF Fresh
<1>1. job'[e] = job[e] \/ Moves(job[e], job'[e])
  BY JobsMoveOn
<1> QED BY <1>1 DEF Fresh, Moves

\* What the contract sees of the goroutines and of the requests.
phaseOf == [e \in Events |-> Phase(job[e])]
targetOf == [e \in Events |-> <<job[e].url, job[e].secret>>]
postsOf == [e \in Events |-> job[e].attempt]
airOf == {[ev |-> p.ev, n |-> p.n, to |-> <<p.url, p.secret>>] : p \in net}

\* A step of a goroutine that leaves these alone is not seen.
LEMMA SameSeen ==
    ASSUME job \in [Events -> Job], NEW e \in Events, NEW j, job' = [job EXCEPT ![e] = j]
    PROVE  /\ Phase(j) = Phase(job[e]) => phaseOf' = phaseOf
           /\ j.url = job[e].url /\ j.secret = job[e].secret => targetOf' = targetOf
           /\ j.attempt = job[e].attempt => postsOf' = postsOf
BY DEF phaseOf, targetOf, postsOf

\* Both begin with nothing configured, dispatched or posted.
LEMMA InitKept == Init => Contract!Init
BY DEF Init, NoJob, Phase, Contract!Init

\* A step of doDispatchWebhook opens, binds, posts or closes, or is not seen: a
\* failed attempt that is tried again, and the end of its sleep.
LEMMA GoroutineKept ==
    ASSUME DispatchInv, Fresh, NEW e \in Events, Dispatch(e) \/ Step(e)
    PROVE  [Contract!Next]_Contract!vars
<1>1. /\ job \in [Events -> Job] /\ job[e] \in Job /\ Sound(job[e], saved)
      /\ job[e].attempt \in 0..MaxAttempts
  BY DEF DispatchInv, TypeOK, JobsSound, Job
<1>2. /\ phaseOf[e] = Phase(job[e]) /\ targetOf[e] = <<job[e].url, job[e].secret>>
      /\ postsOf[e] = job[e].attempt
  BY DEF phaseOf, targetOf, postsOf
<1>3. ASSUME NEW j, job' = [job EXCEPT ![e] = j], Phase(j) = Phase(job[e]),
             j.url = job[e].url, j.secret = job[e].secret, j.attempt = job[e].attempt,
             saved' = saved, net' = net, got' = got
      PROVE  UNCHANGED Contract!vars
  <2>1. UNCHANGED <<phaseOf, targetOf, postsOf>>
    BY <1>1, <1>3, SameSeen
  <2>2. UNCHANGED airOf
    BY <1>3 DEF airOf
  <2> QED BY <1>3, <2>1, <2>2 DEF Contract!vars, phaseOf, targetOf, postsOf, airOf
<1>4. ASSUME NEW j, job' = [job EXCEPT ![e] = j], j.at = "ended",
             Phase(job[e]) = "open",
             \/ job[e].url = NoUrl /\ job[e].secret = NoSecret
             \/ job[e].attempt \in got[e]
             \/ job[e].attempt = MaxAttempts,
             j.url = job[e].url, j.secret = job[e].secret, j.attempt = job[e].attempt,
             saved' = saved, net' = net, got' = got
      PROVE  Contract!Next
  <2>1. Phase(j) = "over"
    BY <1>4 DEF Phase
  <2>2. phaseOf' = [phaseOf EXCEPT ![e] = "over"]
    BY <1>1, <1>4, <2>1 DEF phaseOf
  <2>3. UNCHANGED <<targetOf, postsOf>>
    BY <1>1, <1>4 DEF targetOf, postsOf
  <2>4. UNCHANGED airOf
    BY <1>4 DEF airOf
  <2>5. Contract!Close(e)
    BY <1>2, <1>4, <2>2, <2>3, <2>4 DEF Contract!Close, phaseOf, targetOf, postsOf, airOf
  <2> QED BY <2>5 DEF Contract!Next
<1>5. CASE Dispatch(e)
  <2> DEFINE j == [job[e] EXCEPT !.at = "read"]
  <2>1. job' = [job EXCEPT ![e] = j]
    BY <1>1, <1>5 DEF Dispatch
  <2>2. Phase(job[e]) = "new" /\ Phase(j) = "open"
    BY <1>1, <1>5 DEF Dispatch, Phase, Job
  <2>3. j.url = job[e].url /\ j.secret = job[e].secret /\ j.attempt = job[e].attempt
    BY <1>1 DEF Job
  <2> HIDE DEF j
  <2>4. phaseOf' = [phaseOf EXCEPT ![e] = "open"]
    BY <1>1, <2>1, <2>2 DEF phaseOf
  <2>5. UNCHANGED <<targetOf, postsOf>>
    BY <1>1, <2>1, <2>3 DEF targetOf, postsOf
  <2>6. UNCHANGED airOf
    BY <1>5 DEF Dispatch, airOf
  <2>7. Contract!Open(e)
    BY <1>2, <1>5, <2>2, <2>4, <2>6, <2>5
       DEF Dispatch, Contract!Open, phaseOf, targetOf, postsOf, airOf
  <2> QED BY <2>7 DEF Contract!Next
<1>6. CASE ReadConfig(e)
  <2>1. job[e].url = NoUrl /\ job[e].secret = NoSecret /\ Phase(job[e]) = "open"
    BY <1>6 DEF ReadConfig, Fresh, Phase
  <2>2. CASE job' = [job EXCEPT ![e].at = "ended"]
    <3> DEFINE j == [job[e] EXCEPT !.at = "ended"]
    <3>1. /\ job' = [job EXCEPT ![e] = j] /\ j.at = "ended"
          /\ j.url = job[e].url /\ j.secret = job[e].secret /\ j.attempt = job[e].attempt
      BY <1>1, <2>2 DEF Job
    <3> HIDE DEF j
    <3> QED BY <1>4, <1>6, <2>1, <3>1 DEF ReadConfig
  <2>3. CASE /\ Wanted(e)
             /\ job' = [job EXCEPT ![e].at = "post", ![e].url = row.url,
                                   ![e].secret = row.secret]
    <3> DEFINE j == [job[e] EXCEPT !.at = "post", !.url = row.url, !.secret = row.secret]
    <3>1. PICK t \in Urls \X (Secrets \cup {NoSecret}) :
                t = <<row.url, row.secret>> /\ t \in saved
      BY <2>3 DEF Wanted, DispatchInv, RowSaved, TypeOK
    <3>2. /\ job' = [job EXCEPT ![e] = j] /\ j.at = "post"
          /\ j.url = row.url /\ j.secret = row.secret /\ j.attempt = job[e].attempt
      BY <1>1, <2>3 DEF Job
    <3>3. Phase(j) = Phase(job[e])
      BY <2>1, <3>2 DEF Phase
    <3> HIDE DEF j
    <3>4. targetOf' = [targetOf EXCEPT ![e] = t]
      BY <1>1, <3>2, <3>1 DEF targetOf
    <3>5. UNCHANGED <<phaseOf, postsOf>>
      BY <1>1, <3>2, <3>3 DEF phaseOf, postsOf
    <3>6. UNCHANGED airOf
      BY <1>6 DEF ReadConfig, airOf
    <3>7. Contract!Bind(e, t)
      BY <1>2, <1>6, <2>1, <3>1, <3>4, <3>6, <3>5
         DEF ReadConfig, Contract!Bind, phaseOf, targetOf, postsOf, airOf
    <3> QED BY <3>7 DEF Contract!Next
  <2> QED BY <1>6, <2>2, <2>3 DEF ReadConfig
<1>7. CASE Send(e)
  <2> DEFINE j == [job[e] EXCEPT !.at = "wait", !.attempt = @ + 1]
             p == [ev |-> e, n |-> job[e].attempt + 1, url |-> job[e].url,
                   secret |-> job[e].secret]
             m == [ev |-> e, n |-> job[e].attempt + 1,
                   to |-> <<job[e].url, job[e].secret>>]
  <2>1. /\ job' = [job EXCEPT ![e] = j] /\ j.at = "wait"
        /\ j.url = job[e].url /\ j.secret = job[e].secret /\ j.attempt = job[e].attempt + 1
    BY <1>1, <1>7 DEF Send, Job
  <2>2. Phase(j) = Phase(job[e]) /\ Phase(job[e]) = "open"
    BY <1>7, <2>1 DEF Send, Phase
  <2>3. job[e].url \in Urls /\ job[e].attempt < MaxAttempts
    BY <1>1, <1>7 DEF Send, Sound
  <2>4. net' = net \cup {p}
    BY <1>7 DEF Send
  <2>5. m = [ev |-> p.ev, n |-> p.n, to |-> <<p.url, p.secret>>]
    OBVIOUS
  <2> HIDE DEF j, p, m
  <2>6. airOf' = airOf \cup {m}
    BY <2>4, <2>5 DEF airOf
  <2>7. postsOf' = [postsOf EXCEPT ![e] = job[e].attempt + 1]
    BY <1>1, <2>1 DEF postsOf
  <2>8. UNCHANGED <<phaseOf, targetOf>>
    BY <1>1, <2>1, <2>2 DEF phaseOf, targetOf
  <2>9. targetOf[e] # <<NoUrl, NoSecret>>
    BY <1>2, <2>3, NilAssumption
  <2>10. Contract!Post(e)
    BY <1>2, <1>7, <2>2, <2>3, <2>6, <2>7, <2>9, <2>8
       DEF m, Send, Contract!Post, phaseOf, targetOf, postsOf, airOf
  <2> QED BY <2>10 DEF Contract!Next
<1>8. CASE Fail(e) \/ ServerError(e)
  <2> DEFINE s == [job[e] EXCEPT !.at = "sleep"]
             d == [job[e] EXCEPT !.at = "ended"]
  <2>1. job[e].at = "wait" /\ UNCHANGED <<saved, net, got>>
        /\ job' = [job EXCEPT ![e] = IF job[e].attempt < MaxAttempts THEN s ELSE d]
    BY <1>1, <1>8 DEF Fail, ServerError, Retry
  <2>2. /\ s.at = "sleep" /\ d.at = "ended"
        /\ s.url = job[e].url /\ s.secret = job[e].secret /\ s.attempt = job[e].attempt
        /\ d.url = job[e].url /\ d.secret = job[e].secret /\ d.attempt = job[e].attempt
    BY <1>1 DEF Job
  <2> HIDE DEF s, d
  <2>3. Phase(job[e]) = "open" /\ Phase(s) = "open"
    BY <2>1, <2>2 DEF Phase
  <2>4. CASE job[e].attempt < MaxAttempts
    BY <1>3, <2>1, <2>2, <2>3, <2>4
  <2>5. CASE ~(job[e].attempt < MaxAttempts)
    <3>1. job[e].attempt = MaxAttempts
      BY <1>1, <2>5, AttemptTypes
    <3> QED BY <1>4, <2>1, <2>2, <2>3, <2>5, <3>1
  <2> QED BY <2>4, <2>5
<1>9. CASE Answer(e)
  <2> DEFINE j == [job[e] EXCEPT !.at = "ended"]
  <2>1. /\ job' = [job EXCEPT ![e] = j] /\ j.at = "ended"
        /\ j.url = job[e].url /\ j.secret = job[e].secret /\ j.attempt = job[e].attempt
    BY <1>1, <1>9 DEF Answer, Job
  <2>2. Phase(job[e]) = "open"
    BY <1>9 DEF Answer, Phase
  <2> HIDE DEF j
  <2> QED BY <1>4, <1>9, <2>1, <2>2 DEF Answer
<1>10. CASE WakeUp(e)
  <2> DEFINE j == [job[e] EXCEPT !.at = "post"]
  <2>1. /\ job' = [job EXCEPT ![e] = j] /\ j.at = "post"
        /\ j.url = job[e].url /\ j.secret = job[e].secret /\ j.attempt = job[e].attempt
    BY <1>1, <1>10 DEF WakeUp, Job
  <2>2. Phase(job[e]) = Phase(j)
    BY <1>10, <2>1 DEF WakeUp, Phase
  <2> HIDE DEF j
  <2> QED BY <1>3, <1>10, <2>1, <2>2 DEF WakeUp
<1> QED BY <1>5, <1>6, <1>7, <1>8, <1>9, <1>10 DEF Step

\* A request that arrives or is lost is one of the contract: no two requests on
\* their way look alike to it.
LEMMA NetKept ==
    ASSUME DispatchInv, NEW p \in net, Receive(p) \/ Lose(p)
    PROVE  Contract!Next
<1> DEFINE M(q) == [ev |-> q.ev, n |-> q.n, to |-> <<q.url, q.secret>>]
<1>1. net \subseteq Post /\ p \in Post
  BY DEF DispatchInv, TypeOK
<1>2. ASSUME NEW q \in net, M(q) = M(p) PROVE q = p
  <2>1. q \in Post
    BY <1>1
  <2>2. q.ev = p.ev /\ q.n = p.n /\ q.url = p.url /\ q.secret = p.secret
    BY <1>2
  <2> QED BY <1>1, <2>1, <2>2 DEF Post
<1>3. net' = net \ {p}
  BY DEF Receive, Lose
<1>4. airOf = {M(q) : q \in net} /\ airOf' = {M(q) : q \in net'}
  BY DEF airOf
<1>5. M(p).ev = p.ev /\ M(p).n = p.n
  OBVIOUS
<1> HIDE DEF M
<1>6. airOf' = airOf \ {M(p)} /\ M(p) \in airOf
  BY <1>2, <1>3, <1>4
<1>7. UNCHANGED <<phaseOf, targetOf, postsOf, saved>>
  BY DEF Receive, Lose, phaseOf, targetOf, postsOf
<1>8. CASE Receive(p)
  <2>1. Contract!Arrive(M(p))
    BY <1>5, <1>6, <1>7, <1>8
       DEF Receive, Contract!Arrive, phaseOf, targetOf, postsOf, airOf
  <2> QED BY <1>6, <2>1 DEF Contract!Next, airOf
<1>9. CASE Lose(p)
  <2>1. Contract!Drop(M(p))
    BY <1>6, <1>7, <1>9 DEF Lose, Contract!Drop, phaseOf, targetOf, postsOf, airOf
  <2> QED BY <1>6, <2>1 DEF Contract!Next, airOf
<1> QED BY <1>8, <1>9

\* Every step is one of the contract or a stutter: an edit that deletes the row
\* is not seen.
LEMMA StepKept == DispatchInv /\ Fresh /\ [Next]_vars => [Contract!Next]_Contract!vars
<1> SUFFICES ASSUME DispatchInv, Fresh, [Next]_vars PROVE [Contract!Next]_Contract!vars
  OBVIOUS
<1>1. ASSUME UNCHANGED <<job, net, got>> 
      PROVE  UNCHANGED <<phaseOf, targetOf, postsOf, airOf, got>>
  BY <1>1 DEF phaseOf, targetOf, postsOf, airOf
<1>2. ASSUME NEW url \in Urls, NEW secret \in Secrets \cup {NoSecret},
             NEW kinds \in SUBSET Kinds, NEW on \in BOOLEAN, SetWebhook(url, secret, kinds, on)
      PROVE  Contract!Next
  <2>1. Contract!Offer(<<url, secret>>)
    BY <1>1, <1>2 DEF SetWebhook, Contract!Offer, phaseOf, targetOf, postsOf, airOf
  <2> QED BY <2>1 DEF Contract!Next
<1>3. CASE DeleteWebhook \/ UNCHANGED vars
  BY <1>1, <1>3 DEF DeleteWebhook, vars, Contract!vars, phaseOf, targetOf, postsOf, airOf
<1>4. CASE Restart
  <2>1. job \in [Events -> Job]
    BY DEF DispatchInv, TypeOK
  <2>2. ASSUME NEW e \in Events
        PROVE  /\ Phase(job'[e]) = IF Phase(job[e]) = "open" THEN "cut" ELSE Phase(job[e])
               /\ job'[e].url = job[e].url /\ job'[e].secret = job[e].secret
               /\ job'[e].attempt = job[e].attempt
    <3>1. job[e] \in Job
      BY <2>1
    <3>2. CASE job[e].at \in {"none", "ended"}
      BY <1>4, <3>2 DEF Restart, Phase
    <3>3. CASE job[e].at \notin {"none", "ended"}
      <4>1. job'[e] = [job[e] EXCEPT !.at = "lost"]
        BY <1>4, <3>3 DEF Restart
      <4>2. job'[e].at = "lost"
        BY <3>1, <4>1 DEF Job
      <4> QED BY <3>1, <3>3, <4>1, <4>2 DEF Phase, Job
    <3> QED BY <3>2, <3>3
  <2>3. UNCHANGED <<targetOf, postsOf, airOf, saved, got>>
    BY <1>4, <2>2 DEF Restart, targetOf, postsOf, airOf
  <2>4. phaseOf' = [e \in Events |-> IF phaseOf[e] = "open" THEN "cut" ELSE phaseOf[e]]
    BY <2>2 DEF phaseOf
  <2>5. Contract!Stop
    BY <2>3, <2>4 DEF Contract!Stop, phaseOf, targetOf, postsOf, airOf
  <2> QED BY <2>5 DEF Contract!Next
<1> QED BY <1>2, <1>3, <1>4, GoroutineKept, NetKept DEF Next

\* The goroutines, edits, retries and restarts implement the contract: one target
\* per event, chosen once and whole, no post beyond the attempts or after the
\* end, no end before an answer or the last attempt.
THEOREM ContractIsKept == Spec => Promise
<1>1. Init => Contract!Init /\ Fresh
  BY InitKept DEF Init, Fresh, NoJob
<1>2. Fresh /\ DispatchInv /\ [Next]_vars => Fresh' /\ [Contract!Next]_Contract!vars
  BY StepFresh, StepKept
<1> QED BY <1>1, <1>2, DispatchInvariant, PTL DEF Spec, Promise, Contract!Spec

=============================================================================
