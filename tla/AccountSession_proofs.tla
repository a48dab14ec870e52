----------------------- MODULE AccountSession_proofs -----------------------
(***************************************************************************)
(* What AccountSession guarantees for every set of accounts, numbers,      *)
(* clients and goroutines, and every value of the bounds.                  *)
(***************************************************************************)
EXTENDS AccountSession, TLAPS

\* The client an account holds is one whose events come back to it.
ClientOwned ==
    \A a \in Accounts : client[a] # NoClient => Owner[client[a]] = a

\* Only a connected client is logged in.
AuthConnected == \A c \in Clients : auth[c] => conn[c] # Down

\* While client.Connect() runs under a.mu, the account has a client that is
\* not connected yet, and that neither autoReconnect nor the library's loop
\* knows.
DialingFresh ==
    \A a \in Accounts :
        dialing[a] => /\ client[a] # NoClient
                      /\ conn[client[a]] = Down
                      /\ client[a] \notin retrying
                      /\ \A t \in Tasks : task[t].cap # client[a]

\* A running autoReconnect works for an account, on a client it captured.
TaskShape ==
    \A t \in Tasks :
        /\ task[t].at # "idle" => task[t].acct \in Accounts
        /\ task[t].at = "redial" => task[t].cap \in Clients

\* The strengthening of the checked invariants that every step preserves.
IInv ==
    /\ TypeOK
    /\ ClientOwned
    /\ AuthConnected
    /\ DialingFresh
    /\ TaskShape
    /\ MismatchGuarded
    /\ OrphansAreRedials

USE NilAssumption, OwnerAssumption, RegisteredAssumption, BoundsAssumption
USE DEF Down, Links, EventKinds

\* Before main.go has connected anything, the invariant holds.
THEOREM InitIInv == Init => IInv
BY DEF Init, IInv, TypeOK, ClientOwned, AuthConnected, DialingFresh, TaskShape,
       MismatchGuarded, OrphansAreRedials, Idle, TaskState, WrongNumber

\* The three states of an autoReconnect goroutine are of its type.
LEMMA TaskTypes ==
    /\ Idle \in TaskState
    /\ \A a \in Accounts, n \in 0..MaxAttempts : Sleeping(a, n) \in TaskState
    /\ \A a \in Accounts, n \in 0..MaxAttempts, c \in Clients :
          Redialing(a, n, c) \in TaskState
BY DEF Idle, Sleeping, Redialing, TaskState

\* Connect keeps the invariant, whoever calls it.
LEMMA ConnectIInv ==
    ASSUME NEW a \in Accounts, IInv, Connect(a) PROVE IInv'
<1> USE DEF IInv, TypeOK, WrongNumber, IsConnected
<1>1. ASSUME ~IsConnected(a), NEW c \in Clients, NEW d \in FirstDevices,
             PrepareClient(a, c, d), dialing' = [dialing EXCEPT ![a] = TRUE],
             toVerify' = toVerify
      PROVE  IInv'
  <2>1. /\ client' = [client EXCEPT ![a] = c]
        /\ dev' = [dev EXCEPT ![c] = d]
        /\ rejected' = [rejected EXCEPT ![a] = FALSE]
        /\ UNCHANGED <<store, linked, phone, rejecters, phoneEdits, task, conn,
                       auth, inbox, retrying>>
    BY <1>1 DEF Connect, PrepareClient
  <2>2. /\ Owner[c] = a /\ conn[c] = Down /\ ~auth[c] /\ c \notin retrying
        /\ \A t \in Tasks : task[t].cap # c
    BY <1>1 DEF PrepareClient, Unreachable, AuthConnected
  <2>3. d \in Numbers \cup {NoDevice}
    BY <1>1 DEF FirstDevices
  <2>4. TypeOK'
    BY <1>1, <2>1, <2>3
  <2>5. ClientOwned' /\ AuthConnected' /\ DialingFresh' /\ TaskShape'
    BY <1>1, <2>1, <2>2 DEF ClientOwned, AuthConnected, DialingFresh, TaskShape
  <2>6. MismatchGuarded'
    <3>1. \A b \in Accounts : client[b] # c
      BY <1>1 DEF PrepareClient, Unreachable
    <3>2. QED
      BY <2>1, <2>2, <3>1 DEF MismatchGuarded
  <2>7. OrphansAreRedials'
    BY <1>1, <2>1, <2>2 DEF OrphansAreRedials
  <2>8. QED
    BY <2>4, <2>5, <2>6, <2>7
<1>2. ASSUME toVerify' = toVerify \ {a}, UNCHANGED <<client, dialing, dev>>
      PROVE  IInv'
  BY <1>2 DEF Connect, ClientOwned, AuthConnected, DialingFresh, TaskShape,
              MismatchGuarded, OrphansAreRedials
<1>3. QED
  BY <1>1, <1>2 DEF Connect

\* Tearing the client down and preparing another keeps the invariant.
LEMMA GetQRIInv ==
    ASSUME NEW a \in Accounts, IInv, GetQR(a) PROVE IInv'
<1> USE DEF IInv, TypeOK, WrongNumber
<1>1. /\ conn' = [k \in Clients |-> IF k = client[a] THEN Down ELSE conn[k]]
      /\ auth' = [k \in Clients |-> auth[k] /\ k # client[a]]
      /\ UNCHANGED <<store, linked, phone, rejected, rejecters, toVerify,
                     phoneEdits, task, inbox, retrying>>
  BY DEF GetQR, HangUp, goVars
<1>2. ASSUME NEW c \in Clients, NEW d \in FirstDevices, PrepareClient(a, c, d),
             dialing' = [dialing EXCEPT ![a] = (d = NoDevice)]
      PROVE  IInv'
  <2>1. /\ client' = [client EXCEPT ![a] = c]
        /\ dev' = [dev EXCEPT ![c] = d]
        /\ Owner[c] = a /\ conn[c] = Down /\ ~auth[c] /\ c \notin retrying
        /\ \A b \in Accounts : client[b] # c
        /\ \A t \in Tasks : task[t].cap # c
    BY <1>2 DEF PrepareClient, Unreachable, AuthConnected
  <2>2. d \in Numbers \cup {NoDevice}
    BY <1>2 DEF FirstDevices
  <2>3. TypeOK'
    BY <1>1, <1>2, <2>1, <2>2
  <2>4. ClientOwned' /\ AuthConnected' /\ TaskShape'
    BY <1>1, <2>1 DEF ClientOwned, AuthConnected, TaskShape
  <2>5. DialingFresh'
    BY <1>1, <1>2, <2>1 DEF DialingFresh
  <2>6. MismatchGuarded'
    BY <1>1, <2>1 DEF MismatchGuarded
  <2>7. OrphansAreRedials'
    BY <1>1, <2>1 DEF OrphansAreRedials
  <2>8. QED
    BY <2>3, <2>4, <2>5, <2>6, <2>7
<1>3. ASSUME client' = [client EXCEPT ![a] = NoClient],
             UNCHANGED <<dialing, dev>>
      PROVE  IInv'
  <2>1. ~dialing[a]
    BY DEF GetQR
  <2>2. QED
    BY <1>1, <1>3, <2>1 DEF ClientOwned, AuthConnected, DialingFresh,
       TaskShape, MismatchGuarded, OrphansAreRedials
<1>4. QED
  BY <1>2, <1>3 DEF GetQR

\* Dropping the client under the lock keeps the invariant, as long as a
\* number that did not match can only go unguarded on the dropped client.
LEMMA DropIInv ==
    ASSUME NEW a \in Accounts, IInv, DropClient(a), ~dialing[a],
           store' \subseteq Numbers, linked' \subseteq Numbers,
           rejected' \in [Accounts -> BOOLEAN],
           rejecters' \in [Accounts -> 0..MaxRejecters],
           \A b \in Accounts : b # a => rejecters'[b] = rejecters[b],
           \/ dev' = dev
           \/ client[a] # NoClient /\ dev' = [dev EXCEPT ![client[a]] = NoDevice],
           \A c \in Clients : "Connected" \in inbox[c] => "Connected" \in inbox'[c],
           inbox' \in [Clients -> SUBSET EventKinds],
           UNCHANGED <<phone, dialing, toVerify, phoneEdits, task, retrying>>
    PROVE  IInv'
<1> USE DEF IInv, TypeOK, DropClient, HangUp
<1>1. TypeOK'
  OBVIOUS
<1>2. ClientOwned' /\ AuthConnected' /\ DialingFresh' /\ TaskShape'
  BY DEF ClientOwned, AuthConnected, DialingFresh, TaskShape
<1>3. MismatchGuarded'
  <2>1. ASSUME NEW b \in Accounts, phoneEdits' = 0,
               WrongNumber(b, client[b])', auth'[client'[b]]
        PROVE  rejecters'[b] > 0 \/ "Connected" \in inbox'[client'[b]]
    <3>1. b # a /\ client'[b] = client[b] /\ client[b] \in Clients
      BY <2>1 DEF WrongNumber
    <3>2. client[b] # client[a] /\ auth[client[b]]
      BY <2>1, <3>1 DEF ClientOwned
    <3>3. dev'[client[b]] = dev[client[b]]
      BY <3>1, <3>2
    <3>4. WrongNumber(b, client[b])
      BY <2>1, <3>1, <3>3 DEF WrongNumber
    <3>5. QED
      BY <2>1, <3>1, <3>2, <3>4 DEF MismatchGuarded
  <2>2. QED
    BY <2>1 DEF MismatchGuarded
<1>4. OrphansAreRedials'
  BY DEF OrphansAreRedials
<1>5. QED
  BY <1>1, <1>2, <1>3, <1>4

\* Every step of account.go, of the library and of the phone keeps it.
THEOREM StepIInv == IInv /\ [Next]_vars => IInv'
<1> SUFFICES ASSUME IInv, [Next]_vars PROVE IInv'
  OBVIOUS
<1> USE DEF IInv
<1>1. ASSUME NEW a \in Accounts, EnsureConnected(a) PROVE IInv'
  BY <1>1, ConnectIInv DEF EnsureConnected
<1>2. ASSUME NEW a \in Accounts, VerifyStored(a) PROVE IInv'
  BY <1>2, ConnectIInv DEF VerifyStored
<1>3. ASSUME NEW a \in Accounts, GetQR(a) PROVE IInv'
  BY <1>3, GetQRIInv
<1>4. ASSUME NEW a \in Accounts, Disconnect(a) PROVE IInv'
  BY <1>4, DropIInv DEF Disconnect, goVars, TypeOK
<1>5. ASSUME NEW a \in Accounts, LogoutConnected(a) PROVE IInv'
  BY <1>5, DropIInv DEF LogoutConnected, Unlink, IsConnected, goVars, TypeOK
<1>6. ASSUME NEW a \in Accounts, LogoutSleeping(a) PROVE IInv'
  BY <1>6, DropIInv DEF LogoutSleeping, goVars, TypeOK
<1>7. ASSUME NEW a \in Accounts, Reject(a) PROVE IInv'
  <2>1. rejecters' \in [Accounts -> 0..MaxRejecters]
    BY <1>7 DEF Reject, TypeOK
  <2>2. QED
    BY <1>7, <2>1, DropIInv DEF Reject, Unlink, IsConnected, TypeOK
<1>8. ASSUME NEW a \in Accounts, DialEnds(a) PROVE IInv'
  BY <1>8 DEF DialEnds, TypeOK, ClientOwned, AuthConnected, DialingFresh,
     TaskShape, MismatchGuarded, WrongNumber, OrphansAreRedials
<1>9. ASSUME NEW a \in Accounts, NEW p \in Numbers, UpdatePhoneNumber(a, p)
      PROVE  IInv'
  BY <1>9 DEF UpdatePhoneNumber, clientVars, TypeOK, ClientOwned,
     AuthConnected, DialingFresh, TaskShape, MismatchGuarded, WrongNumber,
     OrphansAreRedials
<1>10. ASSUME NEW a \in Accounts, NEW c \in Clients, OnConnected(a, c)
       PROVE  IInv'
  BY <1>10 DEF OnConnected, Takes, StartReject, acctVars, TypeOK, ClientOwned,
     AuthConnected, DialingFresh, TaskShape, MismatchGuarded, WrongNumber,
     OrphansAreRedials
<1>11. ASSUME NEW a \in Accounts, NEW c \in Clients, OnLoggedOut(a, c)
       PROVE  IInv'
  BY <1>11, DropIInv DEF OnLoggedOut, Takes, goVars, TypeOK
<1>12. ASSUME NEW a \in Accounts, NEW c \in Clients, OnDisconnected(a, c)
       PROVE  IInv'
  <2>1. UNCHANGED <<store, linked, phone, client, rejected, dialing, rejecters,
                    toVerify, phoneEdits, dev, conn, auth, retrying>>
    BY <1>12 DEF OnDisconnected, acctVars
  <2>2. inbox' = [inbox EXCEPT ![c] = @ \ {"Disconnected"}]
    BY <1>12 DEF OnDisconnected, Takes
  <2>3. /\ task' \in [Tasks -> TaskState]
        /\ TaskShape'
        /\ \A t \in Tasks : task'[t].cap \in {task[t].cap, NoClient}
    <3>1. CASE task' = task
      BY <3>1 DEF TypeOK, TaskShape
    <3>2. ASSUME NEW t \in Tasks,
                 task' = [task EXCEPT ![t] = Sleeping(a, MaxAttempts)]
          PROVE  /\ task' \in [Tasks -> TaskState]
                 /\ TaskShape'
                 /\ \A u \in Tasks : task'[u].cap \in {task[u].cap, NoClient}
      <4>1. Sleeping(a, MaxAttempts) \in TaskState
        BY TaskTypes
      <4>2. /\ Sleeping(a, MaxAttempts).at = "sleep"
            /\ Sleeping(a, MaxAttempts).acct = a
            /\ Sleeping(a, MaxAttempts).cap = NoClient
        BY DEF Sleeping
      <4>3. QED
        BY <3>2, <4>1, <4>2 DEF TypeOK, TaskShape
    <3>3. QED
      BY <1>12, <3>1, <3>2 DEF OnDisconnected
  <2>4. QED
    BY <2>1, <2>2, <2>3 DEF TypeOK, ClientOwned, AuthConnected, DialingFresh,
       MismatchGuarded, WrongNumber, OrphansAreRedials
<1>13. ASSUME NEW a \in Accounts, NEW c \in Clients, NEW n \in Numbers,
              Pair(a, c, n)
       PROVE  IInv'
  BY <1>13 DEF Pair, StartReject, acctVars, TypeOK, ClientOwned, AuthConnected,
     DialingFresh, TaskShape, MismatchGuarded, WrongNumber, OrphansAreRedials
<1>14. ASSUME NEW t \in Tasks, Wake(t) PROVE IInv'
  BY <1>14 DEF Wake, Idle, Redialing, TaskState, acctVars, clientVars, TypeOK,
     IsConnected, ClientOwned, AuthConnected, DialingFresh, TaskShape,
     MismatchGuarded, WrongNumber, OrphansAreRedials
<1>15. ASSUME NEW t \in Tasks, Redial(t) PROVE IInv'
  <2> DEFINE c == task[t].cap
             n == task[t].left
  <2>1. /\ UNCHANGED <<store, linked, phone, client, rejected, dialing,
                       rejecters, toVerify, phoneEdits, dev, auth, inbox,
                       retrying>>
        /\ task[t].at = "redial" /\ task[t] \in TaskState
        /\ task[t].acct \in Accounts /\ c \in Clients /\ n \in 0..MaxAttempts
    BY <1>15 DEF Redial, acctVars, TypeOK, TaskShape, TaskState
  <2>2. /\ task' \in [Tasks -> TaskState]
        /\ TaskShape'
        /\ \A u \in Tasks : task'[u].cap \in {task[u].cap, NoClient}
    <3>1. PICK s \in {Idle} \cup {Sleeping(task[t].acct, m) : m \in 0..MaxAttempts} :
             task' = [task EXCEPT ![t] = s]
      <4>1. n > 1 => n - 1 \in 0..MaxAttempts
        BY <2>1
      <4>2. QED
        BY <1>15, <4>1 DEF Redial
    <3>2. /\ s \in TaskState /\ s.at # "redial" /\ s.cap = NoClient
          /\ s.at # "idle" => s.acct \in Accounts
      BY <2>1, TaskTypes DEF Idle, Sleeping
    <3>3. QED
      BY <3>1, <3>2 DEF TypeOK, TaskShape
  <2>3. conn' = conn \/ conn' = [conn EXCEPT ![c] = "redialled"]
    BY <1>15 DEF Redial
  <2>4. QED
    BY <2>1, <2>2, <2>3 DEF TypeOK, ClientOwned, AuthConnected, DialingFresh,
       MismatchGuarded, WrongNumber, OrphansAreRedials
<1>16. ASSUME NEW c \in Clients, Authenticate(c) PROVE IInv'
  <2>1. /\ conn[c] # Down
        /\ auth' = [auth EXCEPT ![c] = TRUE]
        /\ inbox' = [inbox EXCEPT ![c] = @ \cup {"Connected"}]
        /\ UNCHANGED <<store, linked, phone, client, rejected, dialing,
                       rejecters, toVerify, phoneEdits, task, dev, conn,
                       retrying>>
    BY <1>16 DEF Authenticate, Posts, acctVars, goVars
  <2>2. DialingFresh'
    BY <2>1 DEF TypeOK, DialingFresh
  <2>3. QED
    BY <2>1, <2>2 DEF TypeOK, ClientOwned, AuthConnected, TaskShape,
       MismatchGuarded, WrongNumber, OrphansAreRedials
<1>17. ASSUME NEW c \in Clients, KickOut(c) PROVE IInv'
  BY <1>17 DEF KickOut, Posts, acctVars, goVars, TypeOK, ClientOwned,
     AuthConnected, DialingFresh, TaskShape, MismatchGuarded, WrongNumber,
     OrphansAreRedials
<1>18. ASSUME NEW c \in Clients, ConnectionLost(c) PROVE IInv'
  BY <1>18 DEF ConnectionLost, Posts, acctVars, goVars, TypeOK, ClientOwned,
     AuthConnected, DialingFresh, TaskShape, MismatchGuarded, WrongNumber,
     OrphansAreRedials
<1>19. ASSUME NEW c \in Clients, Resume(c) PROVE IInv'
  <2>1. /\ c \in retrying
        /\ conn' = [conn EXCEPT ![c] = "resumed"]
        /\ retrying' = retrying \ {c}
        /\ UNCHANGED <<store, linked, phone, client, rejected, dialing,
                       rejecters, toVerify, phoneEdits, task, dev, auth, inbox>>
    BY <1>19 DEF Resume, acctVars, goVars
  <2>2. QED
    BY <2>1 DEF TypeOK, ClientOwned, AuthConnected, DialingFresh, TaskShape,
       MismatchGuarded, WrongNumber, OrphansAreRedials
<1>20. ASSUME NEW c \in Clients, RetryEnds(c) PROVE IInv'
  BY <1>20 DEF RetryEnds, acctVars, goVars, TypeOK, ClientOwned,
     AuthConnected, DialingFresh, TaskShape, MismatchGuarded, WrongNumber,
     OrphansAreRedials
<1>21. ASSUME NEW n \in Numbers, Revoke(n) PROVE IInv'
  BY <1>21 DEF Revoke, acctVars, goVars, clientVars, TypeOK, ClientOwned,
     AuthConnected, DialingFresh, TaskShape, MismatchGuarded, WrongNumber,
     OrphansAreRedials
<1>22. CASE Restart
  BY <1>22 DEF Restart, Idle, TaskState, TypeOK, ClientOwned, AuthConnected,
     DialingFresh, TaskShape, MismatchGuarded, WrongNumber, OrphansAreRedials
<1>23. CASE UNCHANGED vars
  BY <1>23 DEF vars, TaskState, TypeOK, ClientOwned, AuthConnected,
     DialingFresh, TaskShape, MismatchGuarded, WrongNumber, OrphansAreRedials
<1>24. QED
  BY <1>1, <1>2, <1>3, <1>4, <1>5, <1>6, <1>7, <1>8, <1>9, <1>10, <1>11, <1>12,
     <1>13, <1>14, <1>15, <1>16, <1>17, <1>18, <1>19, <1>20, <1>21, <1>22,
     <1>23
     DEF Next, Request, HandleEvent

\* The inductive invariant of the sessions: lock, clients, goroutines and the
\* number check of handleEvent together.
THEOREM SpecIInv == Spec => []IInv
BY InitIInv, StepIInv, PTL DEF Spec

\* Every variable keeps its type, in every behaviour of the specification.
THEOREM TypeCorrect == Spec => []TypeOK
BY SpecIInv, PTL DEF IInv

\* Whatever requests, events, goroutines and restarts interleave, a session
\* with the wrong number always has a check or a rejection ahead of it
\* (handleEvent and rejectMismatch).
THEOREM WrongNumberIsGuarded == Spec => []MismatchGuarded
BY SpecIInv, PTL DEF IInv

\* The lock discipline of Account: whatever Connect, GetQR, Disconnect, Logout
\* and the handlers do in whatever order, the only connected clients that no
\* account holds are those autoReconnect or the library dialled again.
THEOREM OrphansWereRedialled == Spec => []OrphansAreRedials
BY SpecIInv, PTL DEF IInv

-----------------------------------------------------------------------------
(* The shared store *)

SingleAccount == \A a, b \in Accounts : a = b

\* With one account, nothing deletes the device row of a live session.
LEMMA RowKeptByEveryStep ==
    SingleAccount /\ IInv /\ [Next]_vars => [RowKeptStep]_vars
<1> SUFFICES ASSUME SingleAccount, IInv, Next, NEW a \in Accounts,
                    client[a] # NoClient, auth[client[a]],
                    dev[client[a]] \in store \ store',
                    dev[client[a]] \in linked',
                    client'[a] = client[a]
             PROVE  FALSE
  BY DEF RowKeptStep
<1> USE DEF IInv
<1>1. client[a] \in Clients /\ conn[client[a]] # Down /\ ~dialing[a]
  BY DEF TypeOK, AuthConnected, DialingFresh
<1>2. \A b \in Accounts : b = a
  BY DEF SingleAccount
<1>3. ASSUME NEW b \in Accounts, LogoutConnected(b) PROVE FALSE
  BY <1>2, <1>3 DEF LogoutConnected, DropClient, TypeOK
<1>4. ASSUME NEW b \in Accounts, LogoutSleeping(b) PROVE FALSE
  BY <1>1, <1>2, <1>4 DEF LogoutSleeping, IsConnected
<1>5. ASSUME NEW b \in Accounts, Reject(b) PROVE FALSE
  BY <1>2, <1>5 DEF Reject, DropClient, TypeOK
<1>6. ASSUME NEW k \in Clients, KickOut(k) PROVE FALSE
  BY <1>6 DEF KickOut
<1>7. ASSUME NEW k \in Clients,
             \/ Authenticate(k) \/ ConnectionLost(k)
             \/ Resume(k) \/ RetryEnds(k)
      PROVE  FALSE
  BY <1>7 DEF Authenticate, ConnectionLost, Resume, RetryEnds
<1>8. ASSUME NEW b \in Accounts, NEW k \in Clients,
             HandleEvent(b, k) \/ (\E n \in Numbers : Pair(b, k, n))
      PROVE  FALSE
  BY <1>8 DEF HandleEvent, OnConnected, OnLoggedOut, OnDisconnected, Pair
<1>9. ASSUME NEW b \in Accounts,
             \/ EnsureConnected(b) \/ GetQR(b) \/ Disconnect(b)
             \/ VerifyStored(b) \/ DialEnds(b)
             \/ \E p \in Numbers : UpdatePhoneNumber(b, p)
      PROVE  FALSE
  BY <1>9 DEF EnsureConnected, VerifyStored, Connect, GetQR, Disconnect,
              DialEnds, UpdatePhoneNumber
<1>10. ASSUME NEW t \in Tasks, Wake(t) \/ Redial(t) PROVE FALSE
  BY <1>10 DEF Wake, Redial
<1>11. ASSUME NEW n \in Numbers, Revoke(n) PROVE FALSE
  BY <1>11 DEF Revoke
<1>12. CASE Restart
  BY <1>12 DEF Restart
<1>13. QED
  BY <1>3, <1>4, <1>5, <1>6, <1>7, <1>8, <1>9, <1>10, <1>11, <1>12
     DEF Next, Request

\* A server that manages a single account never deletes the credentials of a
\* live session (Logout, rejectMismatch, the library); the run with two
\* accounts shows that sharing the store breaks this.
THEOREM SingleAccountKeepsRow == SingleAccount => (Spec => RowKept)
<1> SUFFICES ASSUME SingleAccount PROVE Spec => RowKept
  OBVIOUS
<1>1. IInv /\ [Next]_vars => [RowKeptStep]_vars
  BY RowKeptByEveryStep
<1>2. QED
  BY <1>1, SpecIInv, PTL DEF Spec, RowKept

=============================================================================
