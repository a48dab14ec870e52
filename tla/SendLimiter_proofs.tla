------------------------- MODULE SendLimiter_proofs -------------------------
(***************************************************************************)
(* The send limiter keeps its promise for every burst, every cost and any  *)
(* number of concurrent requests.                                          *)
(***************************************************************************)
EXTENDS SendLimiter, TLAPS

\* What grant i and all the later ones have cost.
Spent(i) == (Len(grants) - i + 1) * Cost

\* What the bucket would hold, had it been full just before grant i.
Left(i) == Max + (lastTime - grants[i]) - Spent(i)

\* Time does not run backwards.
Clock ==
    /\ lastTime <= now
    /\ \A i \in 1..Len(grants) : grants[i] <= lastTime

\* The bucket never holds more than any grant leaves it...
NoMore == \A i \in 1..Len(grants) : tokens <= Left(i)

\* ... and is full, or holds exactly what some grant leaves it.
NoLess == tokens = Max \/ \E i \in 1..Len(grants) : tokens = Left(i)

LimiterInv == TypeOK /\ Clock /\ NoMore /\ NoLess /\ WindowBound

-----------------------------------------------------------------------------
(* Facts about the bucket *)

\* A bucket of at least one message, in ticks.
LEMMA CostTypes ==
    /\ Cost \in Nat /\ Burst \in Nat /\ Cost > 0 /\ Max \in Nat /\ Max >= Cost
    /\ Contract!Minute = Max
<1>1. Cost \in Nat /\ Burst \in Nat /\ Cost > 0 /\ Burst > 0
  BY LimiterAssumption
<1>2. \A b \in Nat : b > 0 => b * Cost \in Nat /\ b * Cost >= Cost
  BY <1>1
<1> QED BY <1>1, <1>2 DEF Max, Contract!Minute

\* One more message costs Cost more ticks.
LEMMA OneMore ==
    ASSUME NEW k \in Int
    PROVE  /\ k * Cost \in Int
           /\ (k + 1) * Cost = k * Cost + Cost
           /\ 1 * Cost = Cost
BY CostTypes

\* A grant fits every window exactly when the refilled bucket holds a
\* message: this is where both halves of the invariant are needed.
LEMMA FitsIffPaid ==
    ASSUME LimiterInv
    PROVE  Contract!WithinRate(Append(grants, now)) <=> Refill >= Cost
<1> DEFINE n == Len(grants)
           g == Append(grants, now)
<1>1. /\ n \in Nat /\ now \in Nat /\ lastTime \in Nat /\ tokens \in Nat
      /\ Len(g) = n + 1 /\ g[n + 1] = now
      /\ \A i \in 1..n : grants[i] \in Nat /\ g[i] = grants[i]
  BY LimiterAssumption DEF LimiterInv, TypeOK
<1>2. \A i \in 1..n : Spent(i) \in Int /\ ((n + 1) - i + 1) * Cost = Spent(i) + Cost
  <2> SUFFICES ASSUME NEW i \in 1..n
               PROVE  Spent(i) \in Int /\ ((n + 1) - i + 1) * Cost = Spent(i) + Cost
    OBVIOUS
  <2>1. (n - i + 1) \in Int /\ (n + 1) - i + 1 = (n - i + 1) + 1
    BY <1>1
  <2> HIDE DEF n
  <2>2. (n - i + 1) * Cost \in Int /\ ((n - i + 1) + 1) * Cost = (n - i + 1) * Cost + Cost
    BY <2>1, OneMore
  <2> QED BY <2>1, <2>2 DEF Spent, n
<1>3. ((n + 1) - (n + 1) + 1) * Cost = Cost
  BY <1>1, OneMore
<1> DEFINE Pays(i) == ((n + 1) - i + 1) * Cost <= Max + (now - g[i])
<1>4. Contract!WithinRate(g) <=> \A i \in 1..(n + 1) : Pays(i)
  <2>1. \A j \in 1..n : \A i \in 1..j : (j - i + 1) * Cost <= Max + (g[j] - g[i])
    <3> SUFFICES ASSUME NEW j \in 1..n, NEW i \in 1..j
                 PROVE  (j - i + 1) * Cost <= Max + (g[j] - g[i])
      OBVIOUS
    <3>1. i \in 1..n
      BY <1>1
    <3>2. (j - i + 1) * Cost <= Max + (grants[j] - grants[i])
      BY CostTypes DEF LimiterInv, WindowBound, Contract!WithinRate
    <3> QED BY <1>1, <3>1, <3>2
  <2>2. Contract!WithinRate(g) <=>
          \A j \in 1..(n + 1) : \A i \in 1..j :
             (j - i + 1) * Cost <= Max + (g[j] - g[i])
    BY <1>1, CostTypes DEF Contract!WithinRate
  <2>3. \A j \in 1..(n + 1) : j \in 1..n \/ j = n + 1
    BY <1>1
  <2>4. n + 1 \in 1..(n + 1)
    BY <1>1
  <2>5. \A i : Pays(i) <=> ((n + 1) - i + 1) * Cost <= Max + (g[n + 1] - g[i])
    BY <1>1
  <2> HIDE DEF n, g, Pays
  <2> QED BY <2>1, <2>2, <2>3, <2>4, <2>5
<1>5. Pays(n + 1)
  BY <1>1, <1>3, CostTypes
<1>6. \A i \in 1..n : Pays(i) <=> Spent(i) + Cost <= Max + (now - grants[i])
  BY <1>1, <1>2
<1>7. Contract!WithinRate(g) <=>
        \A i \in 1..n : Spent(i) + Cost <= Max + (now - grants[i])
  <2>1. \A i \in 1..(n + 1) : i \in 1..n \/ i = n + 1
    BY <1>1
  <2>2. \A i \in 1..n : i \in 1..(n + 1)
    BY <1>1
  <2> HIDE DEF n, g, Pays
  <2> QED BY <1>4, <1>5, <1>6, <2>1, <2>2
<1>8. CASE Refill >= Cost
  <2>1. tokens + (now - lastTime) >= Cost
    BY <1>1, <1>8, CostTypes DEF Refill
  <2>2. \A i \in 1..n : tokens <= Max + (lastTime - grants[i]) - Spent(i)
    BY DEF LimiterInv, NoMore, Left
  <2>3. ASSUME NEW i \in 1..n PROVE Spent(i) + Cost <= Max + (now - grants[i])
    <3>1. /\ Spent(i) \in Int /\ grants[i] \in Int /\ Cost \in Int /\ Max \in Int
          /\ now \in Int /\ lastTime \in Int /\ tokens \in Int
      BY <1>1, <1>2, CostTypes
    <3>2. tokens <= Max + (lastTime - grants[i]) - Spent(i)
      BY <2>2
    <3> HIDE DEF n, g
    <3> QED BY <2>1, <3>1, <3>2
  <2> QED BY <1>7, <1>8, <2>3
<1>9. CASE ~(Refill >= Cost)
  <2>1. tokens + (now - lastTime) < Cost
    BY <1>1, <1>9, CostTypes DEF Refill
  <2>2. lastTime <= now
    BY DEF LimiterInv, Clock
  <2>3. tokens # Max
    BY <1>1, <2>1, <2>2, CostTypes
  <2>4. PICK i \in 1..n : tokens = Max + (lastTime - grants[i]) - Spent(i)
    BY <2>3 DEF LimiterInv, NoLess, Left
  <2>5. /\ Spent(i) \in Int /\ grants[i] \in Int /\ Cost \in Int /\ Max \in Int
        /\ now \in Int /\ lastTime \in Int
    BY <1>1, <1>2, CostTypes
  <2>6. Spent(i) + Cost > Max + (now - grants[i])
    <3> HIDE DEF n
    <3> QED BY <2>1, <2>4, <2>5
  <2>7. ~(Spent(i) + Cost <= Max + (now - grants[i]))
    <3> HIDE DEF n
    <3> QED BY <2>5, <2>6
  <2> QED BY <1>7, <1>9, <2>7
<1> QED BY <1>8, <1>9

-----------------------------------------------------------------------------
(* The invariant *)

\* A grant pays what it costs, and the books stay exact.
LEMMA GrantInv ==
    ASSUME LimiterInv, NEW s \in Senders, Allow(s), Refill >= Cost
    PROVE  LimiterInv'
<1>0. PICK n \in Nat : n = Len(grants)
  BY DEF LimiterInv, TypeOK
<1>1. /\ n = Len(grants) /\ n \in Nat /\ now \in 0..MaxTime /\ lastTime \in Nat /\ tokens \in 0..Max
      /\ \A i \in 1..n : grants[i] \in Nat
      /\ lastTime <= now /\ \A i \in 1..n : grants[i] <= lastTime
  BY <1>0, LimiterAssumption DEF LimiterInv, TypeOK, Clock
<1>2. /\ tokens' = Refill - Cost /\ lastTime' = now /\ grants' = Append(grants, now)
      /\ now' = now /\ req' = [req EXCEPT ![s] = "granted"]
  BY <1>1, CostTypes DEF Allow, Refill
<1>3. /\ Len(grants') = n + 1 /\ grants'[n + 1] = now
      /\ \A i \in 1..n : grants'[i] = grants[i]
      /\ \A i \in 1..(n + 1) : i \in 1..n \/ i = n + 1
      /\ n + 1 \in 1..(n + 1) /\ \A i \in 1..n : i \in 1..(n + 1)
  BY <1>0, <1>1, <1>2 DEF LimiterInv, TypeOK
<1>4. Refill \in 0..Max
  BY <1>1, CostTypes DEF Refill
<1>5. TypeOK'
  BY <1>1, <1>2, <1>4, CostTypes DEF LimiterInv, TypeOK
<1>6. Clock'
  BY <1>1, <1>2, <1>3 DEF Clock
<1>7. \A i \in 1..n : Spent(i) \in Int /\ Spent(i)' = Spent(i) + Cost
  <2> SUFFICES ASSUME NEW i \in 1..n
               PROVE  Spent(i) \in Int /\ Spent(i)' = Spent(i) + Cost
    OBVIOUS
  <2>1. (n - i + 1) \in Int /\ (n + 1) - i + 1 = (n - i + 1) + 1
    BY <1>1
  <2>2. Spent(i)' = ((n + 1) - i + 1) * Cost
    BY <1>3 DEF Spent
  <2>3. (n - i + 1) * Cost \in Int /\ ((n - i + 1) + 1) * Cost = (n - i + 1) * Cost + Cost
    BY <2>1, OneMore
  <2> QED BY <1>0, <2>1, <2>2, <2>3 DEF Spent
<1>8. \A i \in 1..n : Left(i)' = Left(i) + (now - lastTime) - Cost /\ Left(i) \in Int
  <2> SUFFICES ASSUME NEW i \in 1..n
               PROVE  Left(i)' = Left(i) + (now - lastTime) - Cost /\ Left(i) \in Int
    OBVIOUS
  <2>1. Left(i)' = Max + (now - grants[i]) - (Spent(i) + Cost)
    BY <1>2, <1>3, <1>7 DEF Left, Max
  <2>2. Left(i) = Max + (lastTime - grants[i]) - Spent(i)
    BY DEF Left
  <2>3. /\ Spent(i) \in Int /\ grants[i] \in Int /\ Max \in Int /\ Cost \in Int
        /\ now \in Int /\ lastTime \in Int
    BY <1>1, <1>7, CostTypes
  <2> QED BY <2>1, <2>2, <2>3
<1>9. Left(n + 1)' = Max - Cost
  <2>1. Spent(n + 1)' = ((n + 1) - (n + 1) + 1) * Cost
    BY <1>3 DEF Spent
  <2>2. Spent(n + 1)' = Cost
    BY <1>1, <2>1, OneMore
  <2>3. Left(n + 1)' = Max + (now - now) - Cost
    BY <1>2, <1>3, <2>2 DEF Left, Max
  <2> QED BY <1>1, <2>3, CostTypes
<1>10. NoMore'
  <2> SUFFICES ASSUME NEW i \in 1..(n + 1) PROVE tokens' <= Left(i)'
    BY <1>3 DEF NoMore
  <2>1. CASE i = n + 1
    BY <1>2, <1>4, <1>9, <2>1, CostTypes
  <2>2. CASE i \in 1..n
    <3>1. tokens <= Left(i)
      BY <1>0, <2>2 DEF LimiterInv, NoMore
    <3>2. Refill <= tokens + (now - lastTime) /\ Refill \in Int
      BY <1>1, <1>4, CostTypes DEF Refill
    <3> QED BY <1>1, <1>2, <1>8, <2>2, <3>1, <3>2, CostTypes
  <2> QED BY <1>3, <2>1, <2>2
<1>11. NoLess'
  <2>1. CASE Refill = Max
    <3>1. tokens' = Left(n + 1)'
      BY <1>2, <1>9, <2>1
    <3> QED BY <1>3, <3>1 DEF NoLess
  <2>2. CASE Refill # Max
    <3>1. Refill = tokens + (now - lastTime) /\ tokens # Max
      BY <1>1, <2>2, CostTypes DEF Refill
    <3>2. PICK i \in 1..n : tokens = Left(i)
      BY <1>0, <3>1 DEF LimiterInv, NoLess
    <3>3. tokens' = Left(i)'
      BY <1>1, <1>2, <1>8, <3>1, <3>2, CostTypes
    <3> QED BY <1>3, <3>2, <3>3 DEF NoLess
  <2> QED BY <2>1, <2>2
<1>12. WindowBound'
  <2>1. Contract!WithinRate(Append(grants, now))
    BY FitsIffPaid
  <2> QED BY <1>2, <2>1 DEF WindowBound, Contract!WithinRate, Contract!Minute
<1> QED BY <1>5, <1>6, <1>10, <1>11, <1>12 DEF LimiterInv

\* A refusal keeps what has accrued.
LEMMA RefusalInv ==
    ASSUME LimiterInv, NEW s \in Senders, Allow(s), Refill < Cost
    PROVE  LimiterInv'
<1>0. PICK n \in Nat : n = Len(grants)
  BY DEF LimiterInv, TypeOK
<1>1. /\ n = Len(grants) /\ n \in Nat /\ now \in 0..MaxTime /\ lastTime \in Nat /\ tokens \in 0..Max
      /\ \A i \in 1..n : grants[i] \in Nat
      /\ lastTime <= now /\ \A i \in 1..n : grants[i] <= lastTime
  BY <1>0, LimiterAssumption DEF LimiterInv, TypeOK, Clock
<1>2. /\ tokens' = Refill /\ lastTime' = now /\ grants' = grants
      /\ now' = now /\ req' = [req EXCEPT ![s] = "refused"]
  BY DEF Allow
<1>3. Refill \in 0..Max /\ Refill = tokens + (now - lastTime)
  BY <1>1, CostTypes DEF Refill, Allow
<1>4. \A i \in 1..n : Spent(i) \in Int /\ Spent(i)' = Spent(i)
  <2> SUFFICES ASSUME NEW i \in 1..n
               PROVE  Spent(i) \in Int /\ Spent(i)' = Spent(i)
    OBVIOUS
  <2>1. (n - i + 1) \in Int
    BY <1>1
  <2>2. (n - i + 1) * Cost \in Int
    BY <2>1, OneMore
  <2> QED BY <1>0, <1>2, <2>2 DEF Spent
<1>5. \A i \in 1..n : Left(i)' = Left(i) + (now - lastTime) /\ Left(i) \in Int
  BY <1>1, <1>2, <1>4, CostTypes DEF Left, Max
<1>6. TypeOK'
  BY <1>1, <1>2, <1>3, CostTypes DEF LimiterInv, TypeOK
<1>7. Clock'
  BY <1>1, <1>2 DEF Clock
<1>8. NoMore'
  BY <1>1, <1>2, <1>3, <1>5, CostTypes DEF LimiterInv, NoMore
<1>9. NoLess'
  BY <1>1, <1>2, <1>3, <1>5, CostTypes DEF LimiterInv, NoLess, Max
<1>10. WindowBound'
  BY <1>2 DEF LimiterInv, WindowBound, Contract!WithinRate, Contract!Minute
<1> QED BY <1>6, <1>7, <1>8, <1>9, <1>10 DEF LimiterInv

\* The bound and the books depend on these three variables alone.
LEMMA BooksKept ==
    ASSUME LimiterInv, UNCHANGED <<tokens, lastTime, grants>>,
           now' \in Nat, now' >= now
    PROVE  Clock' /\ NoMore' /\ NoLess' /\ WindowBound'
<1>1. tokens' = tokens /\ lastTime' = lastTime /\ grants' = grants
  OBVIOUS
<1>2. Clock'
  BY <1>1, LimiterAssumption DEF LimiterInv, TypeOK, Clock
<1>3. NoMore' /\ NoLess'
  BY <1>1 DEF LimiterInv, NoMore, NoLess, Left, Spent, Max
<1>4. WindowBound'
  BY <1>1 DEF LimiterInv, WindowBound, Contract!WithinRate, Contract!Minute
<1> QED BY <1>2, <1>3, <1>4

\* The process starts with a full bucket and an empty history.
LEMMA FreshInv ==
    ASSUME now \in 0..MaxTime, tokens = Max, lastTime = now, grants = <<>>,
           req = [s \in Senders |-> "idle"]
    PROVE  LimiterInv
<1>1. Len(grants) = 0 /\ \A i : i \notin 1..0
  OBVIOUS
<1>2. TypeOK
  BY LimiterAssumption, CostTypes DEF TypeOK
<1>3. Clock
  BY <1>1 DEF Clock
<1>4. NoMore /\ NoLess
  BY <1>1 DEF NoMore, NoLess
<1>5. WindowBound
  BY <1>1 DEF WindowBound, Contract!WithinRate
<1> QED BY <1>2, <1>3, <1>4, <1>5 DEF LimiterInv

\* Every step of the limiter keeps the invariant.
LEMMA StepInv == LimiterInv /\ [Next]_vars => LimiterInv'
<1> SUFFICES ASSUME LimiterInv, [Next]_vars PROVE LimiterInv'
  OBVIOUS
<1>1. TypeOK /\ now \in Nat
  BY LimiterAssumption DEF LimiterInv, TypeOK
<1>2. CASE Tick
  <2>1. now' \in 0..MaxTime /\ now' >= now
    BY <1>1, <1>2, LimiterAssumption DEF Tick, TypeOK
  <2>2. TypeOK'
    BY <1>1, <1>2, <2>1, CostTypes DEF Tick, TypeOK, Max
  <2> QED BY <1>2, <2>1, <2>2, BooksKept, LimiterAssumption DEF Tick, LimiterInv
<1>3. ASSUME NEW s \in Senders, Allow(s) PROVE LimiterInv'
  <2>1. Refill \in Int /\ Cost \in Int
    BY <1>1, CostTypes, LimiterAssumption DEF Refill, TypeOK
  <2> QED BY <1>3, <2>1, GrantInv, RefusalInv
<1>4. ASSUME NEW s \in Senders, SendEnds(s) PROVE LimiterInv'
  <2>1. TypeOK'
    BY <1>1, <1>4, CostTypes DEF SendEnds, TypeOK, Max
  <2> QED BY <1>1, <1>4, <2>1, BooksKept DEF SendEnds, LimiterInv
<1>5. ASSUME NEW s \in Senders, Refused(s) PROVE LimiterInv'
  <2>1. TypeOK'
    BY <1>1, <1>5, CostTypes DEF Refused, TypeOK, Max
  <2> QED BY <1>1, <1>5, <2>1, BooksKept DEF Refused, LimiterInv
<1>6. CASE Restart
  <2>1. /\ now' \in 0..MaxTime /\ tokens' = Max' /\ lastTime' = now'
        /\ grants' = <<>> /\ req' = [s \in Senders |-> "idle"]
    BY <1>1, <1>6 DEF Restart, TypeOK, Max
  <2>2. Len(grants') = 0 /\ \A i : i \notin 1..0
    BY <2>1
  <2>3. TypeOK'
    BY <2>1, LimiterAssumption, CostTypes DEF TypeOK, Max
  <2>4. Clock' /\ NoMore' /\ NoLess' /\ WindowBound'
    BY <2>1, <2>2, LimiterAssumption
    DEF Clock, NoMore, NoLess, WindowBound, Contract!WithinRate, Contract!Minute
  <2> QED BY <2>3, <2>4 DEF LimiterInv
<1>7. CASE UNCHANGED vars
  <2>1. TypeOK'
    BY <1>1, <1>7, CostTypes DEF vars, TypeOK, Max
  <2> QED BY <1>1, <1>7, <2>1, BooksKept DEF vars, LimiterInv
<1> QED BY <1>2, <1>3, <1>4, <1>5, <1>6, <1>7 DEF Next

\* The inductive invariant holds in every state: no bucket is over or under
\* its books (tokenBucket.allow, account.go).
THEOREM LimiterInvariant == Spec => []LimiterInv
<1>1. Init => LimiterInv
  BY FreshInv, LimiterAssumption DEF Init
<1> QED BY <1>1, StepInv, PTL DEF Spec

\* Whatever the burst, the refill and the number of concurrent requests, no
\* window of time holds more grants than a full bucket plus what accrues in it.
THEOREM GrantsAreBounded == Spec => []WindowBound
<1>1. LimiterInv => WindowBound
  BY DEF LimiterInv
<1> QED BY <1>1, LimiterInvariant, PTL

\* The bucket implements the contract: it grants exactly when the sliding
\* windows allow it, hence never refuses a request that it could grant.
THEOREM BucketKeepsPromise == Spec => Promise
<1>1. Init => Contract!Init
  BY DEF Init, Contract!Init
<1>2. LimiterInv /\ [Next]_vars => [Contract!Next]_<<now, grants, req>>
  <2> SUFFICES ASSUME LimiterInv, [Next]_vars
               PROVE  Contract!Next \/ UNCHANGED <<now, grants, req>>
    OBVIOUS
  <2>1. CASE Tick
    BY <2>1 DEF Tick, Contract!Tick, Contract!Next
  <2>2. ASSUME NEW s \in Senders, Allow(s) PROVE Contract!Next
    <3>1. Refill \in Int /\ Cost \in Int
      BY CostTypes, LimiterAssumption DEF LimiterInv, Refill, TypeOK
    <3>2. Contract!WithinRate(Append(grants, now)) <=> ~(Refill < Cost)
      BY <3>1, FitsIffPaid
    <3>3. Contract!Ask(s)
      BY <2>2, <3>2 DEF Allow, Contract!Ask
    <3> QED BY <3>3 DEF Contract!Next
  <2>3. ASSUME NEW s \in Senders, SendEnds(s) \/ Refused(s) PROVE Contract!Next
    <3>1. Contract!Finish(s)
      BY <2>3 DEF SendEnds, Refused, Contract!Finish
    <3> QED BY <3>1 DEF Contract!Next
  <2>4. CASE Restart
    BY <2>4 DEF Restart, Contract!Renew, Contract!Next
  <2>5. CASE UNCHANGED vars
    BY <2>5 DEF vars
  <2> QED BY <2>1, <2>2, <2>3, <2>4, <2>5 DEF Next
<1> QED BY <1>1, <1>2, LimiterInvariant, PTL DEF Spec, Promise, Contract!Spec

\* Every variable keeps its type: the bucket never holds less than nothing or
\* more than a burst.
THEOREM LimiterTypes == Spec => []TypeOK
<1>1. LimiterInv => TypeOK
  BY DEF LimiterInv
<1> QED BY <1>1, LimiterInvariant, PTL
=============================================================================
