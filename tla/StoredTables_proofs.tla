------------------------ MODULE StoredTables_proofs -------------------------
(***************************************************************************)
(* What the message table and billing keep, for any number of messages,    *)
(* users, plans and requests: that a chat can be found and scrolled back,  *)
(* the foreign key between subscriptions and plans, the limits that an     *)
(* edit asked for, and the limits that a request is given.                 *)
(***************************************************************************)
EXTENDS StoredState_proofs, FiniteSetTheorems, WellFoundedInduction

-----------------------------------------------------------------------------
(* Induction *)

\* A set of natural numbers that is not empty has a least one.
LEMMA LeastNumber ==
    ASSUME NEW T \in SUBSET Nat, T # {}
    PROVE  \E m \in T : \A n \in T : m <= n
<1>1. PICK m \in T : \A n \in T : <<n, m>> \notin OpToRel(<, Nat)
  BY NatLessThanWellFounded, WFMin
<1>2. \A n \in T : ~(n < m)
  BY <1>1 DEF OpToRel
<1> QED BY <1>2

\* Induction over the natural numbers, said of a set.
LEMMA NumberByNumber ==
    ASSUME NEW T, 0 \in T, \A n \in Nat : n \in T => n + 1 \in T
    PROVE  Nat \subseteq T
<1> SUFFICES ASSUME Nat \ T # {} PROVE FALSE
  OBVIOUS
<1>1. PICK m \in Nat \ T : \A n \in Nat \ T : m <= n
  BY LeastNumber
<1>2. m # 0 /\ m - 1 \in Nat /\ m = (m - 1) + 1 /\ ~(m <= m - 1)
  BY <1>1
<1> QED BY <1>1, <1>2

\* What Min of the community modules is.
LEMMA MinIs ==
    ASSUME NEW T \in SUBSET Nat, T # {}
    PROVE  Store!Min(T) \in T /\ \A n \in T : Store!Min(T) <= n
BY LeastNumber DEF Store!Min

\* The instance counts as we do.
LEMMA SameCount == ASSUME NEW S PROVE Store!Cardinality(S) = Cardinality(S)
BY DEF Store!Cardinality, Cardinality

-----------------------------------------------------------------------------
(* The message store: rows and chats *)

\* Rows stay rows, whichever of the three writers inserts them.
LEMMA StoreTypes == Store!TypeOK /\ [Store!Next]_rows => Store!TypeOK'
<1> SUFFICES ASSUME Store!TypeOK, [Store!Next]_rows PROVE Store!TypeOK'
  OBVIOUS
<1>1. ASSUME NEW i \in Ids, NEW r \in Store!Row, Store!InsertMessage(i, r)
      PROVE  Store!TypeOK'
  BY <1>1 DEF Store!InsertMessage, Store!TypeOK
<1>2. ASSUME NEW f \in Store!Forms, NEW x \in Store!Contents, NEW t \in 1..Seconds
      PROVE  [form |-> f, content |-> x, at |-> t] \in Store!Row
  BY DEF Store!Row
<1>3. ASSUME NEW f \in Store!Forms PROVE Store!ResolveLID(f) \subseteq Store!Forms
  BY DEF Store!ResolveLID, Store!Forms
<1>4. CASE Store!Next
  <2>1. PICK i \in Ids, f \in Store!Forms, t \in 1..Seconds :
           \/ Store!StoreOutgoing(i, f, t)
           \/ \E x \in Store!Contents :
                 Store!StoreMessage(i, f, x, t) \/ Store!StoreHistorySync(i, f, x, t)
    BY <1>4 DEF Store!Next
  <2>2. "shown" \in Store!Contents
    BY DEF Store!Contents
  <2>3. \E g \in Store!Forms, x \in Store!Contents :
           Store!InsertMessage(i, [form |-> g, content |-> x, at |-> t])
    BY <1>3, <2>1, <2>2 DEF Store!StoreOutgoing, Store!StoreMessage, Store!StoreHistorySync
  <2> QED BY <1>1, <1>2, <2>3
<1>5. CASE UNCHANGED rows
  BY <1>5 DEF Store!TypeOK
<1> QED BY <1>4, <1>5

\* At any time, finitely many messages are stored.
StoreInv == Store!TypeOK /\ IsFiniteSet({i \in Ids : rows[i] # NoRow})

\* A writer adds one row at most.
LEMMA RowsStayFinite == 
    StoreInv /\ [Store!Next]_rows => IsFiniteSet({i \in Ids : rows[i] # NoRow})'
<1> SUFFICES ASSUME StoreInv, [Store!Next]_rows
             PROVE  IsFiniteSet({i \in Ids : rows'[i] # NoRow})
  OBVIOUS
<1> DEFINE S == {i \in Ids : rows[i] # NoRow}
<1>1. ASSUME NEW i \in Ids, NEW r, Store!InsertMessage(i, r)
      PROVE  {j \in Ids : rows'[j] # NoRow} \subseteq S \cup {i}
  BY <1>1 DEF Store!InsertMessage, StoreInv, Store!TypeOK
<1>2. \E i : {j \in Ids : rows'[j] # NoRow} \subseteq S \cup {i}
  BY <1>1 DEF Store!Next, Store!StoreOutgoing, Store!StoreMessage, Store!StoreHistorySync
<1>3. ASSUME NEW i PROVE IsFiniteSet(S \cup {i})
  BY FS_AddElement DEF StoreInv
<1> QED BY <1>2, <1>3, FS_Subset

\* Whatever the addresses, contacts and answers of the lookups, the chats listed
\* cut the stored messages into parts, with the exceptions that ListedOnce names.
LEMMA ChatsArePartition == Store!TypeOK => ListedOnce
<1> SUFFICES ASSUME Store!TypeOK, NEW last \in Store!LastMessages,
                    NEW contacts \in SUBSET Store!Forms,
                    NEW asContact \in BOOLEAN, NEW asSender \in BOOLEAN,
                    NEW opened \in BOOLEAN, NEW i \in Store!Stored(Store!Forms)
             PROVE  LET chats == Store!ListChats(last, contacts, asContact, asSender)
                        found == {c \in chats : i \in Store!View(c, opened)}
                        byLID == rows[i].form = "lid"
                    IN /\ rows[i].form \in last /\ found = {} =>
                              byLID /\ asSender /\ ~opened
                       /\ \A c, d \in found :
                             c = d \/ (byLID /\ ~(asContact /\ asSender) /\ opened)
  BY DEF ListedOnce, Store!ListedOnce
<1> DEFINE f == rows[i].form
           chats == Store!ListChats(last, contacts, asContact, asSender)
<1>1. f \in {"phone", "lid"} /\ chats \subseteq {"phone", "lid"}
  BY DEF Store!Stored, Store!Forms, Store!ListChats, Store!Resolved, Store!LastMessages,
         Store!Addresses
\* ListMessages finds the message under its own address, or with the LID known.
<1>2. ASSUME NEW c \in {"phone", "lid"}
      PROVE  i \in Store!View(c, opened) <=> c = f \/ (c = "phone" /\ opened)
  BY <1>1, <1>2 DEF Store!View, Store!Stored, Store!Forms
<1>3. f \in last => (IF asSender THEN "phone" ELSE f) \in chats
  BY DEF Store!ListChats, Store!Resolved
<1>4. "lid" \in chats => ~(asContact /\ asSender)
  BY DEF Store!ListChats, Store!Resolved
<1> HIDE DEF f, chats
<1>5. ASSUME f \in last, \A c \in chats : i \notin Store!View(c, opened)
      PROVE  f = "lid" /\ asSender /\ ~opened
  BY <1>1, <1>2, <1>3, <1>5
<1>6. ASSUME NEW c \in chats, NEW d \in chats,
             i \in Store!View(c, opened), i \in Store!View(d, opened), c # d
      PROVE  f = "lid" /\ ~(asContact /\ asSender) /\ opened
  BY <1>1, <1>2, <1>4, <1>6
<1> QED BY <1>5, <1>6 DEF f, chats

-----------------------------------------------------------------------------
(* The message store: pages *)

\* The n newest of S are n, or all, and none of the others is newer.
LEMMA NewestIs ==
    ASSUME NEW S, IsFiniteSet(S), NEW n \in Nat, NEW P \in Store!Newest(S, n)
    PROVE  /\ P \subseteq S /\ IsFiniteSet(P)
           /\ Cardinality(P) <= n
           /\ P = S \/ Cardinality(P) = n
           /\ \A i \in P, j \in S \ P : rows[i].at >= rows[j].at
<1> DEFINE size == IF Cardinality(S) < n THEN Cardinality(S) ELSE n
<1>1. P \in Store!kSubset(size, S) /\ \A i \in P, j \in S \ P : rows[i].at >= rows[j].at
  BY SameCount DEF Store!Newest
<1>2. P \subseteq S /\ Cardinality(P) = size
  BY <1>1, SameCount DEF Store!kSubset
<1>3. IsFiniteSet(P) /\ (Cardinality(P) = Cardinality(S) => P = S)
  BY <1>2, FS_Subset
<1>4. Cardinality(S) \in Nat
  BY FS_CardinalityType
<1> QED BY <1>1, <1>2, <1>3, <1>4

\* A page of the rows S: it has them all, or it is full and the rest is not newer.
FullOrAll(P, S) ==
    /\ P \subseteq S
    /\ \/ P = S
       \/ /\ Cardinality(P) = Limit
          /\ \A i \in P, j \in S \ P : rows[i].at >= rows[j].at

\* Two pages merged and cut are a page of both addresses' rows.
LEMMA MergedPages ==
    ASSUME Store!StoreAssumption, NEW S1, NEW S2, IsFiniteSet(S1), IsFiniteSet(S2),
           \A i \in S1 \cup S2 : rows[i].at \in Nat,
           NEW A \in Store!Newest(S1, Limit), NEW B \in Store!Newest(S2, Limit),
           NEW P \in Store!Newest(A \cup B, Limit)
    PROVE  FullOrAll(P, S1 \cup S2)
<1>1. Limit \in Nat
  BY DEF Store!StoreAssumption
<1>2. /\ A \subseteq S1 /\ IsFiniteSet(A) /\ Cardinality(A) <= Limit
      /\ A = S1 \/ Cardinality(A) = Limit
      /\ \A i \in A, j \in S1 \ A : rows[i].at >= rows[j].at
  BY <1>1, NewestIs
<1>3. /\ B \subseteq S2 /\ IsFiniteSet(B) /\ Cardinality(B) <= Limit
      /\ B = S2 \/ Cardinality(B) = Limit
      /\ \A i \in B, j \in S2 \ B : rows[i].at >= rows[j].at
  BY <1>1, NewestIs
<1>4. IsFiniteSet(A \cup B)
  BY <1>2, <1>3, FS_Union
<1>5. /\ P \subseteq A \cup B /\ IsFiniteSet(P) /\ Cardinality(P) <= Limit
      /\ P = A \cup B \/ Cardinality(P) = Limit
      /\ \A i \in P, j \in (A \cup B) \ P : rows[i].at >= rows[j].at
  BY <1>1, <1>4, NewestIs
<1>6. CASE A = S1 /\ B = S2
  BY <1>5, <1>6 DEF FullOrAll
\* A full part makes the whole full, and its rows, when they lost their place,
\* lost it to newer ones.
<1>7. ASSUME NEW C \in {A, B}, Cardinality(C) = Limit
      PROVE  /\ Cardinality(P) = Limit
             /\ \A i \in P : i \in C \/ \E a \in C : rows[i].at >= rows[a].at
  <2>1. C \subseteq A \cup B /\ IsFiniteSet(C)
    BY <1>2, <1>3
  <2>2. Cardinality(C) <= Cardinality(A \cup B)
    BY <1>4, <2>1, FS_Subset
  <2>3. Cardinality(A \cup B) \in Nat /\ Cardinality(P) \in Nat
    BY <1>4, <1>5, FS_CardinalityType
  <2>4. Cardinality(P) = Limit
    <3>1. Cardinality(P) <= Limit /\ (P = A \cup B \/ Cardinality(P) = Limit)
      BY <1>5
    <3>2. Limit <= Cardinality(A \cup B)
      BY <1>7, <2>2
    <3>3. CASE P = A \cup B
      <4>1. Cardinality(P) = Cardinality(A \cup B)
        BY <3>3
      <4> QED BY <1>1, <2>3, <3>1, <3>2, <4>1
    <3> QED BY <3>1, <3>3
  <2>5. ASSUME NEW i \in P, i \notin C PROVE \E a \in C : rows[i].at >= rows[a].at
    <3>1. C \subseteq P => C = P
      BY <1>5, <1>7, <2>4, FS_Subset
    <3>2. PICK a \in C : a \notin P
      BY <2>5, <3>1
    <3> QED BY <1>5, <2>1, <3>2
  <2> QED BY <2>4, <2>5
<1>8. CASE A # S1 \/ B # S2
  <2>1. Cardinality(P) = Limit
    BY <1>2, <1>3, <1>7, <1>8
  <2>2. ASSUME NEW i \in P, NEW j \in (S1 \cup S2) \ P PROVE rows[i].at >= rows[j].at
    <3>1. /\ rows[i].at \in Nat /\ rows[j].at \in Nat
          /\ \A a \in A \cup B : rows[a].at \in Nat
      BY <1>2, <1>3, <1>5
    <3>2. CASE j \in A \cup B
      BY <1>5, <3>2
    <3>3. CASE j \in S1 \ A
      <4>1. i \in A \/ \E a \in A : rows[i].at >= rows[a].at
        BY <1>2, <1>7, <3>3
      <4> QED BY <1>2, <3>1, <3>3, <4>1
    <3>4. CASE j \in S2 \ B
      <4>1. i \in B \/ \E a \in B : rows[i].at >= rows[a].at
        BY <1>3, <1>7, <3>4
      <4> QED BY <1>3, <3>1, <3>4, <4>1
    <3> QED BY <3>2, <3>3, <3>4
  <2> QED BY <1>2, <1>3, <1>5, <2>1, <2>2 DEF FullOrAll
<1> QED BY <1>6, <1>8

\* What there is to show before second b.
Before(f, known, b) == {i \in Store!View(f, known) : rows[i].at < b}

\* What ListMessages returns is a page of what there is, with the LID or without.
LEMMA PagesAreFullOrAll ==
    ASSUME Store!StoreAssumption, Store!PageGranted, StoreInv,
           NEW f \in Store!Forms, NEW known \in BOOLEAN, NEW b \in 1..Seconds + 1,
           NEW P \in Store!Pages(f, b, known)
    PROVE  FullOrAll(P, Before(f, known, b)) /\ IsFiniteSet(P)
<1> DEFINE Rows(F) == {i \in Store!Stored(F) : rows[i].at < b}
<1>1. Limit \in Nat /\ ~(Limit > Cap)
  BY DEF Store!StoreAssumption, Store!PageGranted
<1>2. ASSUME NEW F PROVE IsFiniteSet(Rows(F)) /\ \A i \in Rows(F) : rows[i].at \in Nat
  <2>1. Rows(F) \subseteq {i \in Ids : rows[i] # NoRow}
    BY DEF Store!Stored
  <2>2. IsFiniteSet(Rows(F))
    BY <2>1, FS_Subset DEF StoreInv
  <2>3. \A i \in Rows(F) : rows[i] \in Store!Row
    BY DEF Store!Stored, StoreInv, Store!TypeOK
  <2> QED BY <2>2, <2>3 DEF Store!Row, Store!StoreAssumption
<1>3. ASSUME NEW g PROVE Store!ListRows(g, b) = Store!Newest(Rows({g}), Limit)
  BY <1>1 DEF Store!ListRows
<1>4. CASE f = "phone" /\ known
  <2>1. PICK A \in Store!Newest(Rows({"phone"}), Limit),
             B \in Store!Newest(Rows({"lid"}), Limit) :
                P \in Store!Newest(A \cup B, Limit)
    <3>1. P \in UNION {Store!Newest(A \cup B, Limit) :
                          A \in Store!ListRows("phone", b), B \in Store!ListRows("lid", b)}
      BY <1>4 DEF Store!Pages
    <3> HIDE DEF Rows
    <3> QED BY <1>3, <3>1
  <2>2. Before(f, known, b) = Rows({"phone"}) \cup Rows({"lid"})
    BY <1>4 DEF Before, Store!View, Store!Stored, Store!Forms
  <2>3. FullOrAll(P, Rows({"phone"}) \cup Rows({"lid"}))
    BY <1>2, <2>1, MergedPages
  <2>4. IsFiniteSet(Rows({"phone"}) \cup Rows({"lid"}))
    BY <1>2, FS_Union
  <2> QED BY <2>2, <2>3, <2>4, FS_Subset DEF FullOrAll
<1>5. CASE ~(f = "phone" /\ known)
  <2>1. P \in Store!Newest(Rows({f}), Limit)
    BY <1>3, <1>5 DEF Store!Pages
  <2>2. Before(f, known, b) = Rows({f})
    BY <1>5 DEF Before, Store!View
  <2> HIDE DEF Rows
  <2>3. /\ P \subseteq Rows({f}) /\ IsFiniteSet(P)
        /\ P = Rows({f}) \/ Cardinality(P) = Limit
        /\ \A i \in P, j \in Rows({f}) \ P : rows[i].at >= rows[j].at
    BY <1>1, <1>2, <2>1, NewestIs
  <2> QED BY <2>2, <2>3 DEF FullOrAll
<1> QED BY <1>4, <1>5

\* The fields of a stored row.
LEMMA ViewShape ==
    ASSUME Store!StoreAssumption, Store!TypeOK, NEW f \in Store!Forms,
           NEW known \in BOOLEAN, NEW i \in Store!View(f, known)
    PROVE  rows[i].at \in Nat /\ rows[i].at > 0 /\ rows[i].content \in {"shown", "blank"}
<1>1. rows[i] \in Store!Row
  BY DEF Store!View, Store!Stored, Store!TypeOK
<1> QED BY <1>1 DEF Store!Row, Store!Contents, Store!StoreAssumption

\* The page after a page starts at the oldest row it shows, and so earlier.
LEMMA NextIsEarlier ==
    ASSUME Store!StoreAssumption, Store!PageGranted, StoreInv,
           NEW f \in Store!Forms, NEW known \in BOOLEAN, NEW b \in 1..Seconds + 1,
           NEW P \in Store!Pages(f, b, known)
    PROVE  /\ Store!NextBefore(P) \in Nat
           /\ Cardinality(Store!Shown(P)) >= Limit =>
                 \E j \in P : Store!NextBefore(P) = rows[j].at
           /\ \A j \in Store!Shown(P) :
                 Cardinality(Store!Shown(P)) >= Limit => Store!NextBefore(P) <= rows[j].at
           /\ Store!NextBefore(P) # 1 => Store!NextBefore(P) \in 2..(b - 1)
<1> DEFINE T == {rows[i].at : i \in Store!Shown(P)}
<1>1. P \subseteq Before(f, known, b) /\ IsFiniteSet(P)
  BY PagesAreFullOrAll DEF FullOrAll
<1>2. Store!Shown(P) \subseteq P
  BY DEF Store!Shown
<1>3. \A i \in P : rows[i].at \in Nat /\ rows[i].at > 0 /\ rows[i].at < b
  BY <1>1, ViewShape DEF Before, StoreInv
<1>4. CASE Cardinality(Store!Shown(P)) >= Limit
  <2>1. Store!Shown(P) # {}
    <3>1. Limit \in Nat /\ Limit > 0
      BY DEF Store!StoreAssumption
    <3> QED BY <1>4, <3>1, FS_EmptySet
  <2>2. T \in SUBSET Nat /\ T # {}
    BY <1>2, <1>3, <2>1
  <2>3. Store!NextBefore(P) = Store!Min(T)
    BY <1>4, SameCount DEF Store!NextBefore
  <2>4. Store!NextBefore(P) \in T /\ \A n \in T : Store!NextBefore(P) <= n
    BY <2>2, <2>3, MinIs
  <2>5. PICK j \in Store!Shown(P) : Store!NextBefore(P) = rows[j].at
    BY <2>4
  <2>6. \A i \in Store!Shown(P) : Store!NextBefore(P) <= rows[i].at
    BY <2>4
  <2> QED BY <1>2, <1>3, <2>5, <2>6
<1>5. CASE ~(Cardinality(Store!Shown(P)) >= Limit)
  BY <1>5, SameCount DEF Store!NextBefore
<1> QED BY <1>4, <1>5

\* Why message i may be skipped, among the rows of a page.
Tied(i, f, known) ==
    \E j \in Store!View(f, known) \ {i} :
       rows[j].at = rows[i].at \/ rows[j].content = "blank"

\* What one page skips has the second of its last row, or the page has a blank.
LEMMA SkippedIsTied ==
    ASSUME Store!StoreAssumption, Store!PageGranted, StoreInv,
           NEW f \in Store!Forms, NEW known \in BOOLEAN, NEW b \in 1..Seconds + 1,
           NEW P \in Store!Pages(f, b, known),
           NEW i \in Store!Shown(Store!View(f, known)) \ P,
           rows[i].at \in Store!NextBefore(P)..(b - 1)
    PROVE  Tied(i, f, known)
<1>1. i \in Store!View(f, known) /\ rows[i].at \in Nat /\ rows[i].at < b
  BY ViewShape DEF Store!Shown, StoreInv
<1>2. /\ P \subseteq Store!View(f, known) /\ Cardinality(P) = Limit
      /\ \A j \in P : rows[j].at >= rows[i].at
  <2>1. i \in Before(f, known, b)
    BY <1>1 DEF Before
  <2> QED BY <2>1, PagesAreFullOrAll DEF FullOrAll, Before
<1>3. CASE \E j \in P : rows[j].content = "blank"
  BY <1>2, <1>3 DEF Tied
<1>4. CASE \A j \in P : rows[j].content # "blank"
  <2>1. Store!Shown(P) = P
    BY <1>2, <1>4, ViewShape DEF Store!Shown, StoreInv
  <2>2. Limit \in Nat
    BY DEF Store!StoreAssumption
  <2>3. Cardinality(Store!Shown(P)) >= Limit
    BY <1>2, <2>1, <2>2
  <2>4. PICK j \in P : Store!NextBefore(P) = rows[j].at
    BY <2>3, NextIsEarlier
  <2>5. rows[j].at \in Nat /\ rows[j].at <= rows[i].at
    BY <1>1, <1>2, <2>4, ViewShape DEF StoreInv
  <2> QED BY <1>1, <1>2, <2>4, <2>5 DEF Tied
<1> QED BY <1>3, <1>4

\* Why message i may be skipped when the pages are read with the answers K.
Excused(i, f, K) == (FALSE \in K /\ rows[i].form # f) \/ Tied(i, f, TRUE \in K)

\* A page that was read without the LID skips what is stored under the LID; what
\* it skips of its own address, like what any other page skips, is tied.
LEMMA SkippedIsExcused ==
    ASSUME Store!StoreAssumption, Store!PageGranted, StoreInv,
           NEW f \in Store!Forms, NEW K \in SUBSET BOOLEAN, NEW known \in K,
           NEW b \in 1..Seconds + 1, NEW P \in Store!Pages(f, b, known),
           NEW i \in Store!Shown(Store!View(f, TRUE \in K)) \ P,
           rows[i].at \in Store!NextBefore(P)..(b - 1)
    PROVE  Excused(i, f, K)
<1>1. known \in BOOLEAN /\ Store!View(f, known) \subseteq Store!View(f, TRUE \in K)
  BY DEF Store!View, Store!Stored, Store!Forms
<1>2. CASE i \in Store!View(f, known)
  <2>1. i \in Store!Shown(Store!View(f, known)) \ P
    BY <1>2 DEF Store!Shown
  <2>2. Tied(i, f, known)
    BY <1>1, <2>1, SkippedIsTied
  <2> QED BY <1>1, <2>2 DEF Tied, Excused
<1>3. CASE i \notin Store!View(f, known)
  <2>1. i \in Store!View(f, TRUE \in K)
    BY DEF Store!Shown
  <2>2. known = FALSE /\ rows[i].form # f
    BY <1>1, <1>3, <2>1 DEF Store!View, Store!Stored
  <2> QED BY <2>2 DEF Excused
<1> QED BY <1>2, <1>3

\* What is missed from b on depends on what is missed from earlier seconds on.
LEMMA MissedLooksBack ==
    ASSUME Store!StoreAssumption, Store!PageGranted, StoreInv,
           NEW f \in Store!Forms, NEW K \in SUBSET BOOLEAN, NEW b \in 1..Seconds + 1,
           NEW g, NEW h, \A c \in 1..(b - 1) : g[c] = h[c]
    PROVE  Store!MissedBefore(g, f, K, b) = Store!MissedBefore(h, f, K, b)
<1> DEFINE
      Skips(P) == {i \in Store!Shown(Store!View(f, TRUE \in K)) \ P :
                      rows[i].at \in Store!NextBefore(P)..(b - 1)}
      Part(later, P) ==
         Skips(P) \cup (IF Store!NextBefore(P) = 1 THEN {} ELSE later[Store!NextBefore(P)])
<1>1. ASSUME NEW known \in K, NEW P \in Store!Pages(f, b, known) PROVE Part(g, P) = Part(h, P)
  <2>1. Store!NextBefore(P) # 1 => Store!NextBefore(P) \in 1..(b - 1)
    BY NextIsEarlier
  <2> QED BY <2>1
<1> DEFINE Read == UNION {Store!Pages(f, b, known) : known \in K}
<1>2. /\ Store!MissedBefore(g, f, K, b) = UNION {Part(g, P) : P \in Read}
      /\ Store!MissedBefore(h, f, K, b) = UNION {Part(h, P) : P \in Read}
  BY DEF Store!MissedBefore
<1> HIDE DEF Part
<1> QED BY <1>1, <1>2

\* So there is a function as the recursion of Missed describes it, by induction
\* over the seconds,
LEMMA MissedIsDefined ==
    ASSUME Store!StoreAssumption, Store!PageGranted, StoreInv,
           NEW f \in Store!Forms, NEW K \in SUBSET BOOLEAN
    PROVE  \E g : g = [b \in 1..Seconds + 1 |-> Store!MissedBefore(g, f, K, b)]
<1> DEFINE Def(g, b) == Store!MissedBefore(g, f, K, b)
           T == {n \in Nat : n <= Seconds + 1 => \E g : \A b \in 1..n : g[b] = Def(g, b)}
<1>1. Seconds \in Nat
  BY DEF Store!StoreAssumption
<1>2. ASSUME NEW g, NEW h, NEW b \in 1..Seconds + 1, \A c \in 1..(b - 1) : g[c] = h[c]
      PROVE  Def(g, b) = Def(h, b)
  BY <1>2, MissedLooksBack
<1> HIDE DEF Def
<1>3. 0 \in T
  OBVIOUS
<1>4. ASSUME NEW n \in Nat, n \in T PROVE n + 1 \in T
  <2> SUFFICES ASSUME n + 1 <= Seconds + 1
               PROVE  \E g : \A b \in 1..n + 1 : g[b] = Def(g, b)
    OBVIOUS
  <2>1. PICK g : \A b \in 1..n : g[b] = Def(g, b)
    BY <1>1, <1>4
  <2> DEFINE h == [b \in 1..n + 1 |-> IF b = n + 1 THEN Def(g, n + 1) ELSE g[b]]
  <2>2. \A c \in 1..n : h[c] = g[c]
    OBVIOUS
  <2>3. ASSUME NEW b \in 1..n + 1 PROVE h[b] = Def(h, b)
    <3>1. b \in 1..Seconds + 1 /\ \A c \in 1..(b - 1) : g[c] = h[c]
      BY <1>1, <2>2
    <3>2. Def(g, b) = Def(h, b)
      BY <1>2, <3>1
    <3>3. h[b] = IF b = n + 1 THEN Def(g, b) ELSE g[b]
      OBVIOUS
    <3> HIDE DEF h
    <3>4. b # n + 1 => b \in 1..n
      OBVIOUS
    <3> QED BY <2>1, <3>2, <3>3, <3>4
  <2> HIDE DEF h
  <2> QED BY <2>3
<1>5. Seconds + 1 \in T
  BY <1>1, <1>3, <1>4, NumberByNumber
<1>6. PICK g : \A b \in 1..Seconds + 1 : g[b] = Def(g, b)
  BY <1>1, <1>5
<1> DEFINE h == [b \in 1..Seconds + 1 |-> g[b]]
<1>7. ASSUME NEW b \in 1..Seconds + 1 PROVE h[b] = Def(h, b)
  <2>1. \A c \in 1..(b - 1) : g[c] = h[c]
    BY <1>1
  <2> QED BY <1>2, <1>6, <2>1
<1>8. h = [b \in 1..Seconds + 1 |-> h[b]]
  OBVIOUS
<1> HIDE DEF h
<1>9. h = [b \in 1..Seconds + 1 |-> Def(h, b)]
  BY <1>7, <1>8
<1> QED BY <1>9 DEF Def

\* and, by induction again, all that it returns was skipped for a reason.
LEMMA MissedIsExcused ==
    ASSUME Store!StoreAssumption, Store!PageGranted, StoreInv,
           NEW f \in Store!Forms, NEW K \in SUBSET BOOLEAN, NEW i \in Store!Missed(f, K)
    PROVE  Excused(i, f, K)
<1> DEFINE from == CHOOSE g : g = [b \in 1..Seconds + 1 |-> Store!MissedBefore(g, f, K, b)]
           T == {n \in Nat : n \in 1..Seconds + 1 => \A j \in from[n] : Excused(j, f, K)}
<1>1. Store!Missed(f, K) = from[Seconds + 1]
  BY DEF Store!Missed
<1>2. from = [b \in 1..Seconds + 1 |-> Store!MissedBefore(from, f, K, b)]
  BY MissedIsDefined
<1> HIDE DEF from
<1>3. Seconds \in Nat
  BY DEF Store!StoreAssumption
<1>4. ASSUME Nat \ T # {} PROVE FALSE
  <2>1. PICK b \in Nat \ T : \A n \in Nat \ T : b <= n
    BY <1>4, LeastNumber
  <2>2. b \in 1..Seconds + 1
    BY <2>1
  <2>3. PICK j \in from[b] : ~Excused(j, f, K)
    BY <2>1
  <2>4. j \in Store!MissedBefore(from, f, K, b)
    BY <1>2, <2>2, <2>3
  <2> DEFINE Why(P) == \/ /\ j \in Store!Shown(Store!View(f, TRUE \in K)) \ P
                          /\ rows[j].at \in Store!NextBefore(P)..(b - 1)
                       \/ Store!NextBefore(P) # 1 /\ j \in from[Store!NextBefore(P)]
  <2>5. PICK known \in K : \E P \in Store!Pages(f, b, known) : Why(P)
    BY <2>4 DEF Store!MissedBefore
  <2>6. PICK P \in Store!Pages(f, b, known) : Why(P)
    BY <2>5
  <2>7. CASE j \in Store!Shown(Store!View(f, TRUE \in K)) \ P
             /\ rows[j].at \in Store!NextBefore(P)..(b - 1)
    BY <2>2, <2>3, <2>7, SkippedIsExcused
  <2>8. CASE Store!NextBefore(P) # 1 /\ j \in from[Store!NextBefore(P)]
    <3>1. Store!NextBefore(P) \in 2..(b - 1)
      BY <2>2, <2>8, NextIsEarlier
    <3>2. Store!NextBefore(P) \in 1..Seconds + 1 /\ Store!NextBefore(P) \in Nat
          /\ ~(b <= Store!NextBefore(P))
      BY <1>3, <2>2, <3>1
    <3>3. Store!NextBefore(P) \in T
      BY <2>1, <3>2
    <3> QED BY <2>3, <2>8, <3>2, <3>3
  <2> QED BY <2>6, <2>7, <2>8
<1>5. Seconds + 1 \in T
  BY <1>3, <1>4
<1> QED BY <1>1, <1>3, <1>5

\* Of finitely many rows with their types, every chat can be scrolled.
LEMMA ChatsCanBeScrolled ==
    Store!StoreAssumption /\ Store!PageGranted /\ StoreInv => PagingMissesTiesOnly
BY MissedIsExcused DEF PagingMissesTiesOnly, Store!PagingMissesTiesOnly, Excused, Tied

-----------------------------------------------------------------------------
(* Billing: requests *)

\* What a request that asks for limits knows, whose user holds plan h now.
Entitled(q, h) ==
    /\ IsFiniteSet(q.held)
    /\ q.at \in {"sub", "plan", "free"} => h \in q.held
    /\ q.at = "plan" => q.plan \in q.held \ {NoPlan}
    /\ q.at = "free" => NoPlan \in q.held \/ \E x, y \in q.held : x # y
    /\ q.at = "got" =>
          \/ q.plan \in q.held \ {NoPlan}
          \/ /\ q.plan \in {Free, NoPlan}
             /\ NoPlan \in q.held \/ \E x, y \in q.held : x # y

\* An update that asks for no limits would write those that were asked for last.
Harmless(q, a) == q.at = "update" /\ ~q.new => a \in {NoPlan, q.limits}

AskingPlaces == {"sub", "plan", "free", "got"}

\* A subscription names a plan that is there, which its requests hold; a plan
\* has the limits asked for, and so it does after any update on its way.
PlansInv ==
    /\ Billing!TypeOK
    /\ \A u \in Users : sub[u] # Billing!NoSub => plan[sub[u].plan] # NoPlan
    /\ \A p \in PlanIds : asked[p] \in {NoPlan, plan[p]}
    /\ \A r \in Requests :
          /\ billing[r].at \in AskingPlaces =>
                Entitled(billing[r], Billing!HeldBy(sub[billing[r].user]))
          /\ billing[r].at = "update" => Harmless(billing[r], asked[billing[r].plan])

\* The fields that a request has where it is.
LEMMA RequestShape ==
    ASSUME NEW q \in Billing!Asking \cup Billing!Other \cup {Billing!Idle}
    PROVE  /\ q.at \in AskingPlaces =>
                 /\ q \in Billing!Asking /\ q.user \in Users
                 /\ q.held \in SUBSET (PlanIds \cup {NoPlan})
                 /\ q.plan \in PlanIds \cup {NoPlan}
           /\ q.at = "update" =>
                 q \in [at : {"update"}, plan : PlanIds, limits : Limits, new : BOOLEAN]
           /\ q.at \in {"check", "insert"} => q.user \in Users
           /\ q.at = "drop" => q.plan \in PlanIds
BY DEF Billing!Asking, Billing!Other, Billing!Idle, AskingPlaces

\* What a subscription gives.
LEMMA HeldShape ==
    ASSUME NEW s \in Billing!Subscription \cup {Billing!NoSub}, Billing!PlanAssumption
    PROVE  /\ Billing!HeldBy(s) \in PlanIds \cup {NoPlan}
           /\ Billing!HeldBy(s) # NoPlan => s # Billing!NoSub /\ Billing!HeldBy(s) = s.plan
BY DEF Billing!HeldBy, Billing!Subscription, Billing!NoSub, Billing!PlanAssumption

\* The tables as seedPlans fills them, without users or requests.
LEMMA PlansStart == Billing!PlanAssumption /\ Billing!Init => PlansInv
<1> SUFFICES ASSUME Billing!PlanAssumption, Billing!Init PROVE PlansInv
  OBVIOUS
<1>1. plan \in [PlanIds -> Limits \cup {NoPlan}]
  BY DEF Billing!Init, Billing!Seeded, Billing!PlanAssumption
<1>2. /\ sub \in [Users -> {Billing!NoSub}] /\ billing \in [Requests -> {Billing!Idle}]
      /\ asked = plan /\ users = {} /\ born = {}
  BY DEF Billing!Init
<1>3. Billing!TypeOK
  BY <1>1, <1>2 DEF Billing!TypeOK
<1>4. \A r \in Requests : billing[r].at = "idle"
  BY <1>2 DEF Billing!Idle
<1> QED BY <1>2, <1>3, <1>4 DEF PlansInv, AskingPlaces

\* A request moves on, while subscriptions and plans stay.
LEMMA RequestGoesOn ==
    ASSUME PlansInv, NEW r \in Requests,
           NEW q \in Billing!Asking \cup Billing!Other \cup {Billing!Idle},
           billing' = [billing EXCEPT ![r] = q],
           UNCHANGED <<plan, sub>>,
           users' \subseteq born', born' \subseteq Users,
           asked' \in [PlanIds -> Limits \cup {NoPlan}],
           \A p \in PlanIds : asked'[p] \in {NoPlan, asked[p]},
           q.at \in AskingPlaces => Entitled(q, Billing!HeldBy(sub[q.user])),
           q.at = "update" => Harmless(q, asked'[q.plan])
    PROVE  PlansInv'
<1>1. Billing!TypeOK
  BY DEF PlansInv
<1>2. Billing!TypeOK'
  BY <1>1 DEF Billing!TypeOK
<1>3. \A p \in PlanIds : asked'[p] \in {NoPlan, plan'[p]}
  BY DEF PlansInv
<1>4. ASSUME NEW x \in Requests
      PROVE  /\ billing'[x].at \in AskingPlaces =>
                   Entitled(billing'[x], Billing!HeldBy(sub'[billing'[x].user]))
             /\ billing'[x].at = "update" =>
                   Harmless(billing'[x], asked'[billing'[x].plan])
  <2>1. CASE x = r
    BY <1>1, <2>1 DEF Billing!TypeOK
  <2>2. CASE x # r
    <3>1. /\ billing'[x] = billing[x]
          /\ billing[x] \in Billing!Asking \cup Billing!Other \cup {Billing!Idle}
      BY <1>1, <2>2 DEF Billing!TypeOK
    <3>2. billing[x].at = "update" =>
             /\ billing[x].plan \in PlanIds
             /\ Harmless(billing[x], asked[billing[x].plan])
      BY <3>1, RequestShape DEF PlansInv
    <3>3. billing[x].at = "update" => Harmless(billing[x], asked'[billing[x].plan])
      BY <3>2 DEF Harmless
    <3> QED BY <3>1, <3>3 DEF PlansInv
  <2> QED BY <2>1, <2>2
<1> QED BY <1>2, <1>3, <1>4 DEF PlansInv, Harmless

\* GetUserPlanLimits: what each of its reads makes of the request.
LEMMA LimitsAreRead ==
    ASSUME Billing!PlanAssumption, PlansInv, NEW r \in Requests,
           \/ Billing!ReadSub(r) \/ Billing!ReadPlan(r) \/ Billing!ReadFree(r)
    PROVE  PlansInv'
<1> DEFINE q == billing[r]
           h == Billing!HeldBy(sub[q.user])
<1>1. Billing!TypeOK
  BY DEF PlansInv
<1>2. q.at \in {"sub", "plan", "free"} /\ UNCHANGED <<users, born, plan, sub, asked>>
  BY DEF Billing!ReadSub, Billing!ReadPlan, Billing!ReadFree, Billing!At
<1>3. /\ q \in Billing!Asking /\ q.user \in Users
      /\ q.held \in SUBSET (PlanIds \cup {NoPlan})
      /\ q.plan \in PlanIds \cup {NoPlan}
  BY <1>1, <1>2, RequestShape DEF Billing!TypeOK, AskingPlaces
<1>4. Entitled(q, h)
  BY <1>2 DEF PlansInv, AskingPlaces
<1>5. h \in PlanIds \cup {NoPlan} /\ (h # NoPlan => plan[h] # NoPlan)
  BY <1>1, <1>3, HeldShape DEF Billing!TypeOK, PlansInv
<1>6. /\ users' \subseteq born' /\ born' \subseteq Users
      /\ asked' \in [PlanIds -> Limits \cup {NoPlan}] /\ asked' = asked
  BY <1>1, <1>2 DEF Billing!TypeOK
<1> HIDE DEF q, h
<1>7. ASSUME NEW c \in Billing!Asking, billing' = [billing EXCEPT ![r] = c],
             c.user = q.user, Entitled(c, h)
      PROVE  PlansInv'
  <2>1. c.at # "update" /\ c \in Billing!Asking \cup Billing!Other \cup {Billing!Idle}
    BY DEF Billing!Asking
  <2>2. h = Billing!HeldBy(sub[c.user])
    BY <1>7 DEF h
  <2> QED BY <1>2, <1>6, <1>7, <2>1, <2>2, RequestGoesOn
<1>8. IsFiniteSet(q.held \cup {NoPlan})
  BY <1>4, FS_AddElement DEF Entitled
<1>9. ASSUME NEW c, c = [q EXCEPT !.at = "free", !.held = @ \cup {NoPlan}],
             billing' = [billing EXCEPT ![r] = c]
      PROVE  PlansInv'
  <2>1. /\ c \in Billing!Asking /\ c.at = "free" /\ c.user = q.user
        /\ c.held = q.held \cup {NoPlan}
    BY <1>3, <1>9 DEF Billing!Asking
  <2>2. Entitled(c, h)
    BY <1>2, <1>4, <1>8, <2>1 DEF Entitled, q
  <2> QED BY <1>7, <1>9, <2>1, <2>2
<1>10. ASSUME billing' = [billing EXCEPT ![r].at = "free", ![r].held = @ \cup {NoPlan}]
       PROVE  PlansInv'
  <2>1. billing' = [billing EXCEPT ![r] = [q EXCEPT !.at = "free", !.held = @ \cup {NoPlan}]]
    BY <1>1, <1>10 DEF Billing!TypeOK, q
  <2> QED BY <1>9, <2>1
<1>11. CASE Billing!ReadSub(r)
  <2> DEFINE c == [q EXCEPT !.at = IF h = NoPlan THEN "free" ELSE "plan", !.plan = h]
  <2>1. q.at = "sub" /\ h \in q.held
    BY <1>4, <1>11 DEF Billing!ReadSub, Billing!At, q, Entitled
  <2>2. CASE billing' = [billing EXCEPT ![r].at = IF h = NoPlan THEN "free" ELSE "plan",
                                        ![r].plan = h]
    <3>1. billing' = [billing EXCEPT ![r] = c]
      BY <1>1, <2>2 DEF Billing!TypeOK, q
    <3>2. /\ c \in Billing!Asking /\ c.user = q.user /\ c.plan = h /\ c.held = q.held
          /\ c.at = IF h = NoPlan THEN "free" ELSE "plan"
      BY <1>3, <1>5 DEF Billing!Asking
    <3> HIDE DEF c
    <3>3. Entitled(c, h)
      BY <1>4, <2>1, <3>2 DEF Entitled
    <3> QED BY <1>7, <3>1, <3>2, <3>3
  <2> QED BY <1>10, <1>11, <2>2 DEF Billing!ReadSub, q, h
<1>12. CASE Billing!ReadPlan(r)
  <2> DEFINE c == [q EXCEPT !.at = IF plan[q.plan] # NoPlan THEN "got" ELSE "free"]
  <2>1. q.at = "plan" /\ h \in q.held /\ q.plan \in q.held \ {NoPlan}
    BY <1>4, <1>12 DEF Billing!ReadPlan, Billing!At, q, Entitled
  <2>2. CASE billing' = [billing EXCEPT ![r].at = IF plan[q.plan] # NoPlan
                                                  THEN "got" ELSE "free"]
    <3>1. billing' = [billing EXCEPT ![r] = c]
      BY <1>1, <2>2 DEF Billing!TypeOK, q
    <3>2. /\ c \in Billing!Asking /\ c.user = q.user /\ c.plan = q.plan /\ c.held = q.held
          /\ c.at = IF plan[q.plan] # NoPlan THEN "got" ELSE "free"
      BY <1>3 DEF Billing!Asking
    <3> HIDE DEF c
    <3>3. plan[q.plan] = NoPlan => NoPlan \in q.held \/ h # q.plan
      BY <1>5, <2>1
    <3>4. Entitled(c, h)
      BY <1>4, <2>1, <3>2, <3>3 DEF Entitled
    <3> QED BY <1>7, <3>1, <3>2, <3>4
  <2> QED BY <1>10, <1>12, <2>2 DEF Billing!ReadPlan, Billing!Exists, q
<1>13. CASE Billing!ReadFree(r)
  <2>1. q.at = "free" /\ (NoPlan \in q.held \/ \E x, y \in q.held : x # y)
    BY <1>4, <1>13 DEF Billing!ReadFree, Billing!At, q, Entitled
  <2>2. PICK p \in {Free, NoPlan} : billing' = [billing EXCEPT ![r].at = "got", ![r].plan = p]
    BY <1>13 DEF Billing!ReadFree
  <2> DEFINE c == [q EXCEPT !.at = "got", !.plan = p]
  <2>3. p \in PlanIds \cup {NoPlan}
    BY DEF Billing!PlanAssumption
  <2>4. billing' = [billing EXCEPT ![r] = c]
    BY <1>1, <2>2 DEF Billing!TypeOK, q
  <2>5. /\ c \in Billing!Asking /\ c.user = q.user /\ c.plan = p /\ c.held = q.held
        /\ c.at = "got"
    BY <1>3, <2>3 DEF Billing!Asking
  <2> HIDE DEF c
  <2>6. Entitled(c, h)
    BY <1>4, <2>1, <2>2, <2>5 DEF Entitled
  <2> QED BY <1>7, <2>4, <2>5, <2>6
<1> QED BY <1>11, <1>12, <1>13

\* The other requests that move on.
LEMMA RequestsCome ==
    ASSUME Billing!PlanAssumption, PlansInv,
           \/ \E u \in Users, r \in Requests :
                 Billing!Register(r, u) \/ Billing!StartLimits(r, u)
           \/ \E p \in PlanIds, r \in Requests : Billing!CountSubscriptions(r, p)
           \/ \E r \in Requests : Billing!CheckSubscription(r) \/ Billing!GotLimits(r)
    PROVE  PlansInv'
<1>1. Billing!TypeOK
  BY DEF PlansInv
<1>2. /\ UNCHANGED <<plan, sub>> /\ asked' = asked
      /\ asked' \in [PlanIds -> Limits \cup {NoPlan}]
      /\ users' \subseteq born' /\ born' \subseteq Users
  BY <1>1 DEF Billing!TypeOK, Billing!Register, Billing!StartLimits,
              Billing!CountSubscriptions, Billing!CheckSubscription, Billing!GotLimits
<1>3. ASSUME NEW r \in Requests,
             NEW q \in Billing!Asking \cup Billing!Other \cup {Billing!Idle},
             billing' = [billing EXCEPT ![r] = q], q.at # "update",
             q.at \in AskingPlaces => Entitled(q, Billing!HeldBy(sub[q.user]))
      PROVE  PlansInv'
  BY <1>2, <1>3, RequestGoesOn
<1>4. ASSUME NEW r \in Requests, billing' = [billing EXCEPT ![r] = Billing!Idle]
      PROVE  PlansInv'
  <2>1. Billing!Idle.at = "idle"
    BY DEF Billing!Idle
  <2> QED BY <1>3, <1>4, <2>1 DEF AskingPlaces
<1>5. ASSUME NEW r \in Requests, NEW u \in Users, Billing!Register(r, u) PROVE PlansInv'
  <2> DEFINE q == [at |-> "check", user |-> u]
  <2>1. q \in Billing!Other /\ q.at = "check" /\ billing' = [billing EXCEPT ![r] = q]
    BY <1>5 DEF Billing!Other, Billing!Register
  <2> HIDE DEF q
  <2> QED BY <1>3, <2>1 DEF AskingPlaces
<1>6. ASSUME NEW r \in Requests, NEW u \in Users, Billing!StartLimits(r, u) PROVE PlansInv'
  <2> DEFINE h == Billing!HeldBy(sub[u])
             q == [at |-> "sub", user |-> u, plan |-> NoPlan, held |-> {h}]
  <2>1. h \in PlanIds \cup {NoPlan} /\ IsFiniteSet({h})
    BY <1>1, HeldShape, FS_Singleton DEF Billing!TypeOK
  <2>2. billing' = [billing EXCEPT ![r] = q]
    BY <1>6 DEF Billing!StartLimits
  <2>3. q \in Billing!Asking /\ q.at = "sub" /\ q.user = u /\ q.held = {h}
    BY <2>1 DEF Billing!Asking
  <2> HIDE DEF q
  <2>4. Entitled(q, h)
    BY <2>1, <2>3 DEF Entitled
  <2> QED BY <1>3, <2>2, <2>3, <2>4
<1>7. ASSUME NEW r \in Requests, NEW p \in PlanIds, Billing!CountSubscriptions(r, p)
      PROVE  PlansInv'
  <2> DEFINE q == [at |-> "drop", plan |-> p]
  <2>1. q \in Billing!Other /\ q.at = "drop" /\ billing' = [billing EXCEPT ![r] = q]
    BY <1>7 DEF Billing!Other, Billing!CountSubscriptions
  <2> HIDE DEF q
  <2> QED BY <1>3, <2>1 DEF AskingPlaces
<1>8. ASSUME NEW r \in Requests, Billing!CheckSubscription(r) PROVE PlansInv'
  <2>1. billing[r] \in Billing!Asking \cup Billing!Other \cup {Billing!Idle}
        /\ billing[r].at = "check"
    BY <1>1, <1>8 DEF Billing!TypeOK, Billing!CheckSubscription, Billing!At
  <2> DEFINE q == [billing[r] EXCEPT !.at = "insert"]
  <2>2. billing[r] \in [at : {"check", "insert"}, user : Users]
    BY <2>1 DEF Billing!Asking, Billing!Other, Billing!Idle
  <2>3. q \in [at : {"check", "insert"}, user : Users] /\ q.at = "insert"
    BY <2>2
  <2>4. CASE billing' = [billing EXCEPT ![r].at = "insert"]
    <3>1. billing' = [billing EXCEPT ![r] = q]
      BY <1>1, <2>4 DEF Billing!TypeOK
    <3>2. q \in Billing!Other
      BY <2>3 DEF Billing!Other
    <3> HIDE DEF q
    <3> QED BY <1>3, <2>3, <3>1, <3>2 DEF AskingPlaces
  <2> QED BY <1>4, <1>8, <2>4 DEF Billing!CheckSubscription, Billing!Answer
<1>9. ASSUME NEW r \in Requests, Billing!GotLimits(r) PROVE PlansInv'
  BY <1>4, <1>9 DEF Billing!GotLimits, Billing!Answer
<1> QED BY <1>5, <1>6, <1>7, <1>8, <1>9

-----------------------------------------------------------------------------
(* Subscriptions *)

\* A user gets another subscription, or none, and the requests of the user know.
LEMMA SubChanges ==
    ASSUME Billing!PlanAssumption, PlansInv, NEW u \in Users,
           NEW s \in Billing!Subscription \cup {Billing!NoSub},
           NEW over \in SUBSET Requests, Billing!SetSub(u, s, over),
           s # Billing!NoSub => plan[s.plan] # NoPlan,
           UNCHANGED <<plan, asked>>, users' \subseteq born', born' \subseteq Users
    PROVE  PlansInv'
<1> DEFINE h == Billing!HeldBy(s)
<1>1. Billing!TypeOK
  BY DEF PlansInv
<1>2. /\ sub' = [sub EXCEPT ![u] = s]
      /\ billing' = [r \in Requests |->
            IF r \in over THEN Billing!Idle
            ELSE IF r \in Billing!InQuestion(u)
                 THEN [billing[r] EXCEPT !.held = @ \cup {h}] ELSE billing[r]]
  BY DEF Billing!SetSub
<1>3. /\ sub' \in [Users -> Billing!Subscription \cup {Billing!NoSub}]
      /\ \A v \in Users : sub'[v] = IF v = u THEN s ELSE sub[v]
  BY <1>1, <1>2 DEF Billing!TypeOK
<1>4. h \in PlanIds \cup {NoPlan}
  BY HeldShape
<1>5. ASSUME NEW r \in Requests
      PROVE  r \in Billing!InQuestion(u) <=>
                billing[r].at \in {"sub", "plan", "free"} /\ billing[r].user = u
  <2>1. billing[r].at \in {"sub", "plan", "free"} => billing[r] \in Billing!Asking
    BY <1>1, RequestShape DEF Billing!TypeOK, AskingPlaces
  <2>2. billing[r] \in Billing!Asking => "user" \in DOMAIN billing[r]
    BY DEF Billing!Asking
  <2> QED BY <2>1, <2>2 DEF Billing!InQuestion, Billing!At
<1> HIDE DEF h
<1>6. ASSUME NEW r \in Requests
      PROVE  /\ billing'[r] \in Billing!Asking \cup Billing!Other \cup {Billing!Idle}
             /\ billing'[r].at \in AskingPlaces =>
                   Entitled(billing'[r], Billing!HeldBy(sub'[billing'[r].user]))
             /\ billing'[r].at = "update" =>
                   Harmless(billing'[r], asked'[billing'[r].plan])
  <2>1. CASE r \in over
    BY <1>2, <2>1 DEF Billing!Idle, AskingPlaces
  <2>2. CASE r \notin over /\ r \in Billing!InQuestion(u)
    <3> DEFINE c == [billing[r] EXCEPT !.held = @ \cup {h}]
    <3>1. /\ billing[r] \in Billing!Asking /\ billing[r].user = u
          /\ billing[r].at \in {"sub", "plan", "free"}
          /\ billing[r].held \in SUBSET (PlanIds \cup {NoPlan})
          /\ IsFiniteSet(billing[r].held)
          /\ Entitled(billing[r], Billing!HeldBy(sub[u]))
      BY <1>1, <1>5, <2>2, RequestShape
         DEF Billing!TypeOK, PlansInv, AskingPlaces, Entitled
    <3>2. /\ c \in Billing!Asking /\ c.at = billing[r].at /\ c.user = u
          /\ c.plan = billing[r].plan /\ c.held = billing[r].held \cup {h}
      BY <1>4, <3>1 DEF Billing!Asking
    <3>3. billing'[r] = c
      BY <1>2, <2>2
    <3> HIDE DEF c
    <3>4. IsFiniteSet(billing[r].held \cup {h})
      BY <3>1, FS_AddElement
    <3>5. Entitled(c, h)
      BY <3>1, <3>2, <3>4 DEF Entitled
    <3> QED BY <1>3, <3>1, <3>2, <3>3, <3>5 DEF h
  <2>3. CASE r \notin over /\ r \notin Billing!InQuestion(u)
    <3>1. /\ billing'[r] = billing[r]
          /\ billing[r] \in Billing!Asking \cup Billing!Other \cup {Billing!Idle}
      BY <1>1, <1>2, <2>3 DEF Billing!TypeOK
    <3>2. ASSUME billing[r].at \in AskingPlaces
          PROVE  Entitled(billing[r], Billing!HeldBy(sub'[billing[r].user]))
      <4>1. /\ Entitled(billing[r], Billing!HeldBy(sub[billing[r].user]))
            /\ billing[r].user \in Users
        BY <3>1, <3>2, RequestShape DEF PlansInv
      <4>2. CASE billing[r].user # u
        BY <1>3, <4>1, <4>2
      <4>3. CASE billing[r].at = "got"
        BY <4>1, <4>3 DEF Entitled
      <4> QED BY <1>5, <2>3, <3>2, <4>2, <4>3 DEF AskingPlaces
    <3> QED BY <3>1, <3>2 DEF PlansInv
  <2> QED BY <2>1, <2>2, <2>3
<1>7. Billing!TypeOK'
  <2>1. billing' \in [Requests -> Billing!Asking \cup Billing!Other \cup {Billing!Idle}]
    BY <1>2, <1>6
  <2> QED BY <1>1, <1>3, <2>1 DEF Billing!TypeOK
<1> QED BY <1>3, <1>6, <1>7 DEF PlansInv

\* Users come and go, and get subscriptions, which they lose with their rows.
LEMMA Subscriptions ==
    ASSUME Billing!PlanAssumption, PlansInv,
           \/ \E u \in Users :
                 \/ Billing!CreateUser(u) \/ Billing!DeleteUser(u)
                 \/ Billing!DeleteSubscription(u)
                 \/ \E p \in PlanIds, good \in BOOLEAN : Billing!AssignPlan(u, p, good)
           \/ \E r \in Requests : Billing!InsertSubscription(r)
    PROVE  PlansInv'
<1>1. Billing!TypeOK
  BY DEF PlansInv
<1>2. ASSUME NEW u \in Users, Billing!CreateUser(u) PROVE PlansInv'
  <2>1. /\ UNCHANGED <<plan, sub, billing, asked>>
        /\ users' = users \cup {u} /\ born' = born \cup {u}
    BY <1>2 DEF Billing!CreateUser
  <2>2. Billing!TypeOK'
    BY <1>1, <2>1 DEF Billing!TypeOK
  <2> QED BY <2>1, <2>2 DEF PlansInv
<1>3. ASSUME NEW u \in Users, Billing!SetSub(u, Billing!NoSub, {}),
             UNCHANGED <<plan, asked>>, users' \subseteq born', born' \subseteq Users
      PROVE  PlansInv'
  BY <1>3, SubChanges
<1>4. ASSUME NEW u \in Users, NEW p \in PlanIds, NEW good \in BOOLEAN,
             NEW over \in SUBSET Requests,
             Billing!SetSub(u, [plan |-> p, good |-> good], over), plan[p] # NoPlan,
             UNCHANGED <<plan, asked, users, born>>
      PROVE  PlansInv'
  <2> DEFINE s == [plan |-> p, good |-> good]
  <2>1. s \in Billing!Subscription /\ s.plan = p
    BY DEF Billing!Subscription
  <2>2. users' \subseteq born' /\ born' \subseteq Users
    BY <1>1, <1>4 DEF Billing!TypeOK
  <2>3. Billing!SetSub(u, s, over)
    BY <1>4
  <2> HIDE DEF s
  <2> QED BY <1>4, <2>1, <2>2, <2>3, SubChanges
<1>5. ASSUME NEW u \in Users, Billing!DeleteUser(u) PROVE PlansInv'
  BY <1>1, <1>3, <1>5 DEF Billing!DeleteUser, Billing!TypeOK
<1>6. ASSUME NEW u \in Users, Billing!DeleteSubscription(u) PROVE PlansInv'
  BY <1>1, <1>3, <1>6 DEF Billing!DeleteSubscription, Billing!TypeOK
<1>7. ASSUME NEW u \in Users, NEW p \in PlanIds, NEW good \in BOOLEAN,
             Billing!AssignPlan(u, p, good)
      PROVE  PlansInv'
  <2>1. {} \in SUBSET Requests
    OBVIOUS
  <2> QED BY <1>4, <1>7, <2>1, Zenon DEF Billing!AssignPlan, Billing!Exists
<1>8. ASSUME NEW r \in Requests, Billing!InsertSubscription(r) PROVE PlansInv'
  <2>1. billing[r].at = "insert" /\ UNCHANGED <<users, born, plan, asked>>
    BY <1>8 DEF Billing!InsertSubscription, Billing!At
  <2>2. billing[r].user \in Users
    BY <1>1, <2>1, RequestShape DEF Billing!TypeOK
  <2>3. CASE /\ plan[Free] # NoPlan
             /\ Billing!SetSub(billing[r].user, [plan |-> Free, good |-> TRUE], {r})
    <3>1. Free \in PlanIds /\ {r} \in SUBSET Requests /\ TRUE \in BOOLEAN
      BY DEF Billing!PlanAssumption
    <3> QED BY <1>4, <2>1, <2>2, <2>3, <3>1
  <2>4. CASE billing' = [billing EXCEPT ![r] = Billing!Idle] /\ sub' = sub
    <3>1. /\ Billing!Idle.at = "idle" /\ asked' = asked
          /\ asked' \in [PlanIds -> Limits \cup {NoPlan}]
          /\ users' \subseteq born' /\ born' \subseteq Users
      BY <1>1, <2>1 DEF Billing!Idle, Billing!TypeOK
    <3> QED BY <2>1, <2>4, <3>1, RequestGoesOn DEF AskingPlaces
  <2> QED BY <1>8, <2>3, <2>4 DEF Billing!InsertSubscription, Billing!Exists, Billing!Answer
<1> QED BY <1>2, <1>5, <1>6, <1>7, <1>8

-----------------------------------------------------------------------------
(* Plans *)

\* Plan p gets limits l, or goes when no subscription names it.
LEMMA PlanChanges ==
    ASSUME Billing!PlanAssumption, PlansInv, NEW p \in PlanIds,
           NEW l \in Limits \cup {NoPlan}, NEW a \in {NoPlan, l, asked[p]},
           plan' = [plan EXCEPT ![p] = l],
           asked' = [asked EXCEPT ![p] = a],
           UNCHANGED <<users, born, sub>>,
           a \in {NoPlan, l},
           l = NoPlan => \A u \in Users : sub[u].plan # p,
           billing' \in [Requests -> Billing!Asking \cup Billing!Other \cup {Billing!Idle}],
           \A x \in Requests : billing'[x] \in {billing[x], Billing!Idle},
           \A x \in Requests : billing'[x].at = "update" /\ billing[x].plan = p
                                  => Harmless(billing[x], a)
    PROVE  PlansInv'
<1>1. Billing!TypeOK
  BY DEF PlansInv
<1>2. /\ plan' \in [PlanIds -> Limits \cup {NoPlan}]
      /\ asked' \in [PlanIds -> Limits \cup {NoPlan}]
      /\ \A y \in PlanIds : plan'[y] = IF y = p THEN l ELSE plan[y]
      /\ \A y \in PlanIds : asked'[y] = IF y = p THEN a ELSE asked[y]
  BY <1>1 DEF Billing!TypeOK
<1>3. Billing!TypeOK'
  BY <1>1, <1>2 DEF Billing!TypeOK
<1>4. ASSUME NEW u \in Users, sub[u] # Billing!NoSub PROVE plan'[sub[u].plan] # NoPlan
  <2>1. sub[u].plan \in PlanIds /\ plan[sub[u].plan] # NoPlan
    BY <1>1, <1>4 DEF Billing!TypeOK, Billing!Subscription, PlansInv
  <2> QED BY <1>2, <2>1
<1>5. \A y \in PlanIds : asked'[y] \in {NoPlan, plan'[y]}
  BY <1>2 DEF PlansInv
<1>6. ASSUME NEW x \in Requests
      PROVE  /\ billing'[x].at \in AskingPlaces =>
                   Entitled(billing'[x], Billing!HeldBy(sub'[billing'[x].user]))
             /\ billing'[x].at = "update" =>
                   Harmless(billing'[x], asked'[billing'[x].plan])
  <2>1. CASE billing'[x] = Billing!Idle
    BY <2>1 DEF Billing!Idle, AskingPlaces
  <2>2. CASE billing'[x] = billing[x]
    <3>1. billing[x].at = "update" => billing[x].plan \in PlanIds
      BY <1>1, RequestShape DEF Billing!TypeOK
    <3> QED BY <1>2, <2>2, <3>1 DEF PlansInv
  <2> QED BY <2>1, <2>2
<1> QED BY <1>3, <1>4, <1>5, <1>6 DEF PlansInv

\* A plan is created, or written by the admin page.
LEMMA PlanEdits ==
    ASSUME Billing!PlanAssumption, PlansInv, NEW p \in PlanIds, NEW l \in Limits,
           Billing!CreatePlan(p, l) \/ Billing!BillingPlanUpdate(p, l)
    PROVE  PlansInv'
<1> PICK a \in {NoPlan, l} : a = IF Billing!Updating(p) = {} THEN l ELSE NoPlan
  OBVIOUS
<1>1. /\ plan' = [plan EXCEPT ![p] = l] /\ asked' = [asked EXCEPT ![p] = a]
      /\ UNCHANGED <<users, born, sub, billing>>
  BY DEF Billing!CreatePlan, Billing!BillingPlanUpdate, Billing!Edited
<1>2. l # NoPlan
  BY DEF Billing!PlanAssumption
<1>3. ASSUME NEW x \in Requests, billing'[x].at = "update", billing[x].plan = p
      PROVE  Harmless(billing[x], a)
  <2>1. x \in Billing!Updating(p)
    BY <1>1, <1>3 DEF Billing!Updating, Billing!At
  <2> QED BY <2>1 DEF Harmless
<1>4. billing' \in [Requests -> Billing!Asking \cup Billing!Other \cup {Billing!Idle}]
  BY <1>1 DEF PlansInv, Billing!TypeOK
<1> QED BY <1>1, <1>2, <1>3, <1>4, PlanChanges

\* The second steps of UpdatePlan and DeletePlan.
LEMMA PlanRequests ==
    ASSUME Billing!PlanAssumption, PlansInv, NEW r \in Requests,
           Billing!WritePlan(r) \/ Billing!DropPlan(r)
    PROVE  PlansInv'
<1> DEFINE p == billing[r].plan
           l == billing[r].limits
<1>1. Billing!TypeOK
  BY DEF PlansInv
<1>2. /\ billing' = [billing EXCEPT ![r] = Billing!Idle]
      /\ UNCHANGED <<users, born, sub>>
  BY DEF Billing!WritePlan, Billing!DropPlan, Billing!Answer
<1>3. /\ billing' \in [Requests -> Billing!Asking \cup Billing!Other \cup {Billing!Idle}]
      /\ billing'[r] = Billing!Idle /\ billing'[r].at = "idle"
      /\ \A x \in Requests : x # r => billing'[x] = billing[x]
  BY <1>1, <1>2 DEF Billing!TypeOK, Billing!Idle
<1>4. CASE UNCHANGED <<plan, asked>>
  <2>1. /\ users' \subseteq born' /\ born' \subseteq Users
        /\ asked' \in [PlanIds -> Limits \cup {NoPlan}] /\ asked' = asked
    BY <1>1, <1>2, <1>4 DEF Billing!TypeOK
  <2>2. Billing!Idle.at = "idle"
    BY DEF Billing!Idle
  <2> QED BY <1>2, <1>4, <2>1, <2>2, RequestGoesOn DEF AskingPlaces
<1>5. ASSUME Billing!WritePlan(r), plan' = [plan EXCEPT ![p] = l],
             IF billing[r].new THEN Billing!Edited(p, l, Billing!Updating(p) \ {r})
             ELSE UNCHANGED asked
      PROVE  PlansInv'
  <2>1. billing[r].at = "update"
    BY <1>5 DEF Billing!WritePlan, Billing!At
  <2>2. p \in PlanIds /\ l \in Limits /\ billing[r].new \in BOOLEAN
    BY <1>1, <2>1, RequestShape DEF Billing!TypeOK
  <2>3. l # NoPlan
    BY <2>2 DEF Billing!PlanAssumption
  <2>4. Harmless(billing[r], asked[p])
    BY <2>1 DEF PlansInv
  <2> HIDE DEF p, l
  <2>5. CASE billing[r].new
    <3> PICK a \in {NoPlan, l} : a = IF Billing!Updating(p) \ {r} = {} THEN l ELSE NoPlan
      OBVIOUS
    <3>1. asked' = [asked EXCEPT ![p] = a]
      BY <1>5, <2>5 DEF Billing!Edited
    <3>2. ASSUME NEW x \in Requests, billing'[x].at = "update", billing[x].plan = p
          PROVE  Harmless(billing[x], a)
      <4>1. x \in Billing!Updating(p) \ {r}
        BY <1>3, <3>2 DEF Billing!Updating, Billing!At
      <4> QED BY <4>1 DEF Harmless
    <3> QED BY <1>2, <1>3, <1>5, <2>2, <2>3, <3>1, <3>2, PlanChanges
  <2>6. CASE ~billing[r].new
    <3>1. asked' = [asked EXCEPT ![p] = asked[p]]
      BY <1>1, <1>5, <2>2, <2>6 DEF Billing!TypeOK
    <3>2. asked[p] \in {NoPlan, l}
      BY <2>1, <2>4, <2>6 DEF Harmless, l
    <3>3. ASSUME NEW x \in Requests, billing'[x].at = "update", billing[x].plan = p
          PROVE  Harmless(billing[x], asked[p])
      BY <1>3, <3>3 DEF PlansInv
    <3> QED BY <1>2, <1>3, <1>5, <2>2, <2>3, <3>1, <3>2, <3>3, PlanChanges
  <2> QED BY <2>2, <2>5, <2>6
<1>6. ASSUME Billing!DropPlan(r), \A u \in Users : sub[u].plan # p,
             plan' = [plan EXCEPT ![p] = NoPlan], asked' = [asked EXCEPT ![p] = NoPlan]
      PROVE  PlansInv'
  <2>1. p \in PlanIds
    BY <1>1, <1>6, RequestShape DEF Billing!DropPlan, Billing!At, Billing!TypeOK
  <2>2. \A x \in Requests : Harmless(billing[x], NoPlan)
    BY DEF Harmless
  <2> HIDE DEF p
  <2> QED BY <1>2, <1>3, <1>6, <2>1, <2>2, PlanChanges
<1>7. CASE Billing!WritePlan(r)
  BY <1>4, <1>5, <1>7 DEF Billing!WritePlan
<1>8. CASE Billing!DropPlan(r)
  BY <1>4, <1>6, <1>8 DEF Billing!DropPlan
<1> QED BY <1>7, <1>8

\* The first step of UpdatePlan: a request that brings no limits takes those read.
LEMMA PlanUpdateStarts ==
    ASSUME Billing!PlanAssumption, PlansInv, NEW r \in Requests, NEW p \in PlanIds,
           NEW l \in Limits \cup {NoPlan}, Billing!StartUpdatePlan(r, p, l)
    PROVE  PlansInv'
<1> DEFINE q == [at |-> "update", plan |-> p, new |-> l # NoPlan,
                 limits |-> IF l # NoPlan THEN l ELSE plan[p]]
<1>1. Billing!TypeOK
  BY DEF PlansInv
<1>2. plan[p] \in Limits
  BY <1>1 DEF Billing!StartUpdatePlan, Billing!Exists, Billing!TypeOK
<1>3. (l # NoPlan) \in BOOLEAN
  OBVIOUS
<1>4. q \in [at : {"update"}, plan : PlanIds, limits : Limits, new : BOOLEAN]
  BY <1>2, <1>3
<1>5. billing' = [billing EXCEPT ![r] = q]
  BY Zenon DEF Billing!StartUpdatePlan
<1>6. /\ UNCHANGED <<users, born, plan, sub>>
      /\ asked' \in [PlanIds -> Limits \cup {NoPlan}]
      /\ \A y \in PlanIds : asked'[y] \in {NoPlan, asked[y]}
  BY <1>1 DEF Billing!StartUpdatePlan, Billing!Edited, Billing!TypeOK
<1>7. users' \subseteq born' /\ born' \subseteq Users
  BY <1>1, <1>6 DEF Billing!TypeOK
<1>8. q.at = "update" /\ q.plan = p /\ (l = NoPlan => q.limits = plan[p])
  OBVIOUS
<1>9. ~q.new => l = NoPlan
  OBVIOUS
<1>10. q \in Billing!Asking \cup Billing!Other \cup {Billing!Idle}
  BY <1>4, Zenon DEF Billing!Other
<1> HIDE DEF q
<1>11. asked[p] \in {NoPlan, plan[p]}
  BY DEF PlansInv
<1>12. Harmless(q, asked'[q.plan])
  BY <1>6, <1>8, <1>9, <1>11 DEF Harmless
<1> QED BY <1>5, <1>6, <1>7, <1>8, <1>10, <1>12, RequestGoesOn DEF AskingPlaces

\* seedPlans brings back what is missing and touches nothing else.
LEMMA PlansRestart ==
    ASSUME Billing!PlanAssumption, PlansInv, Billing!Restart
    PROVE  PlansInv'
<1>1. Billing!TypeOK
  BY DEF PlansInv
<1>2. /\ plan' \in [PlanIds -> Limits \cup {NoPlan}]
      /\ \A p \in PlanIds : plan[p] # NoPlan => plan'[p] = plan[p]
  BY <1>1 DEF Billing!Restart, Billing!Seeded, Billing!TypeOK, Billing!PlanAssumption
<1>3. /\ asked' \in [PlanIds -> Limits \cup {NoPlan}]
      /\ \A p \in PlanIds : asked'[p] = IF plan[p] # NoPlan THEN asked[p] ELSE plan'[p]
  BY <1>1, <1>2 DEF Billing!Restart, Billing!Exists, Billing!TypeOK
<1>4. billing' \in [Requests -> {Billing!Idle}] /\ UNCHANGED <<users, born, sub>>
  BY DEF Billing!Restart
<1>5. \A r \in Requests : billing'[r].at = "idle"
  BY <1>4 DEF Billing!Idle
<1>6. Billing!TypeOK'
  BY <1>1, <1>2, <1>3, <1>4 DEF Billing!TypeOK
<1>7. ASSUME NEW u \in Users, sub'[u] # Billing!NoSub PROVE plan'[sub'[u].plan] # NoPlan
  <2>1. sub[u].plan \in PlanIds /\ plan[sub[u].plan] # NoPlan
    BY <1>1, <1>4, <1>7 DEF Billing!TypeOK, Billing!Subscription, PlansInv
  <2> QED BY <1>2, <1>4, <2>1
<1>8. \A p \in PlanIds : asked'[p] \in {NoPlan, plan'[p]}
  BY <1>2, <1>3 DEF PlansInv
<1> QED BY <1>5, <1>6, <1>7, <1>8 DEF PlansInv, AskingPlaces

\* Every step of billing keeps the invariant.
LEMMA PlansSteps ==
    Billing!PlanAssumption /\ PlansInv /\ [Billing!Next]_billingVars => PlansInv'
<1> SUFFICES ASSUME Billing!PlanAssumption, PlansInv, [Billing!Next]_billingVars
             PROVE  PlansInv'
  OBVIOUS
<1>1. CASE UNCHANGED billingVars
  BY <1>1 DEF billingVars, PlansInv, Billing!TypeOK
<1>2. ASSUME NEW u \in Users, Billing!Subscribing(u) PROVE PlansInv'
  BY <1>2, Subscriptions, RequestsCome
     DEF Billing!Subscribing, Billing!BillingAssignPlan, Billing!BillingDeleteSubscription
<1>3. ASSUME NEW p \in PlanIds, Billing!Planning(p) PROVE PlansInv'
  BY <1>3, PlanEdits, PlanUpdateStarts, RequestsCome
     DEF Billing!Planning, Billing!BillingPlanCreate
<1>4. ASSUME NEW r \in Requests, Billing!Going(r) PROVE PlansInv'
  BY <1>4, LimitsAreRead, RequestsCome, Subscriptions, PlanRequests DEF Billing!Going
<1> QED BY <1>1, <1>2, <1>3, <1>4, PlansRestart DEF Billing!Next

-----------------------------------------------------------------------------
(* The whole *)

\* The inductive invariant of the message store, in every behaviour of the whole.
LEMMA StoreInvariant == Spec => []StoreInv
<1>1. Init => StoreInv
  <2>1. ASSUME Init PROVE {i \in Ids : rows[i] # NoRow} = {}
    BY <2>1 DEF Init, Store!Init
  <2> QED BY <2>1, FS_EmptySet DEF Init, Store!Init, Store!TypeOK, StoreInv
<1>2. StoreInv /\ [Next]_vars => StoreInv'
  BY NextByPart, StoreTypes, RowsStayFinite DEF StoreInv
<1> QED BY <1>1, <1>2, PTL DEF Spec

\* The inductive invariant of billing, in every behaviour of the whole.
LEMMA PlansInvariant == Spec => []PlansInv
<1>1. Init => PlansInv
  BY PlansStart, Assumptions DEF Init
<1>2. PlansInv /\ [Next]_vars => PlansInv'
  <2>1. [Next]_vars => [Billing!Next]_billingVars
    BY DEF Next, vars
  <2> QED BY <2>1, PlansSteps, Assumptions
<1> QED BY <1>1, <1>2, PTL DEF Spec

\* Every stored message that ListChats could read is in exactly one of the chats
\* it returns, with any contacts, as long as the lookups of the LID agree; when
\* one fails, only messages stored under the LID are without a chat or in two.
THEOREM ChatsPartition == Spec => []ListedOnce
<1>1. StoreInv => ListedOnce
  BY ChatsArePartition DEF StoreInv
<1> QED BY <1>1, StoreInvariant, PTL

\* Scrolling back as the messaging page does skips only ties at the end of a page,
\* what is behind a page with a blank, and rows of the LID that a page was read
\* without, for any rows, any pages at which the lookup or the query of the LID
\* fails, and any size of a page that the database grants.  (Of 201 rows asked
\* for it grants 50: that page would pass for the last.)
THEOREM ScrollingSkipsTies == Store!PageGranted => (Spec => []PagingMissesTiesOnly)
<1> SUFFICES ASSUME Store!PageGranted PROVE Spec => []PagingMissesTiesOnly
  OBVIOUS
<1>1. StoreInv => PagingMissesTiesOnly
  BY ChatsCanBeScrolled, Assumptions
<1> QED BY <1>1, StoreInvariant, PTL

\* No subscription names a plan that is gone, whatever AssignPlan, DeletePlan,
\* the registrations and the restarts do at the same time.
THEOREM PlansAreThere == Spec => []SubscribedPlansExist
<1>1. PlansInv => SubscribedPlansExist
  BY DEF PlansInv, SubscribedPlansExist, Billing!SubscribedPlansExist, Billing!Exists
<1> QED BY <1>1, PlansInvariant, PTL

\* UpdatePlan, which writes back the limits that it read, undoes no edit of
\* them unless two edits of the plan overlapped.
THEOREM EditedLimitsStay == Spec => []LimitsAsEdited
<1>1. PlansInv => LimitsAsEdited
  BY DEF PlansInv, LimitsAsEdited, Billing!LimitsAsEdited
<1> QED BY <1>1, PlansInvariant, PTL

\* GetUserPlanLimits, which reads subscription and plan one after the other,
\* returns what its user was entitled to.
THEOREM EntitledLimits == Spec => []LimitsAreHeld
<1>1. ASSUME PlansInv, NEW r \in Requests, billing[r].at = "got"
      PROVE  \/ billing[r].plan \in billing[r].held \ {NoPlan}
             \/ /\ billing[r].plan \in {Free, NoPlan}
                /\ NoPlan \in billing[r].held \/ Cardinality(billing[r].held) > 1
  <2> DEFINE held == billing[r].held
  <2>1. /\ IsFiniteSet(held)
        /\ \/ billing[r].plan \in held \ {NoPlan}
           \/ /\ billing[r].plan \in {Free, NoPlan}
              /\ NoPlan \in held \/ \E x, y \in held : x # y
    BY <1>1 DEF PlansInv, Entitled, AskingPlaces
  <2>2. ASSUME NEW x \in held, NEW y \in held, x # y PROVE Cardinality(held) > 1
    <3>1. IsFiniteSet({x}) /\ Cardinality({x}) = 1
      BY FS_Singleton
    <3>2. IsFiniteSet({x} \cup {y}) /\ Cardinality({x} \cup {y}) = 2
      <4>1. Cardinality({x} \cup {y})
               = IF y \in {x} THEN Cardinality({x}) ELSE Cardinality({x}) + 1
        BY <3>1, FS_AddElement
      <4>2. IsFiniteSet({x} \cup {y})
        BY <3>1, FS_AddElement
      <4> QED BY <2>2, <3>1, <4>1, <4>2
    <3>3. {x} \cup {y} \in SUBSET held
      OBVIOUS
    <3>4. Cardinality({x} \cup {y}) <= Cardinality(held)
      BY <2>1, <3>3, FS_Subset
    <3>5. Cardinality(held) \in Nat
      BY <2>1, FS_CardinalityType
    <3> QED BY <3>2, <3>4, <3>5
  <2> QED BY <2>1, <2>2
<1>2. \A S : Billing!Cardinality(S) = Cardinality(S)
  BY Zenon DEF Billing!Cardinality, Cardinality
<1>3. PlansInv => LimitsAreHeld
  BY <1>1, <1>2 DEF LimitsAreHeld, Billing!LimitsAreHeld, Billing!At
<1> QED BY <1>3, PlansInvariant, PTL

\* The variables of all five modules keep their types.
THEOREM StoredTypes == Spec => []TypeOK
<1>1. StoreInv /\ PilotInv /\ AssistantInv /\ PlansInv /\ DoorInv => TypeOK
  BY DEF StoreInv, PilotInv, AssistantInv, PlansInv, DoorInv, TypeOK
<1> QED BY <1>1, StoreInvariant, PilotInvariant, AssistantInvariant, PlansInvariant,
           DoorInvariant, PTL
=============================================================================
