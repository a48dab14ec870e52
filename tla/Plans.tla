------------------------------- MODULE Plans --------------------------------
(***************************************************************************)
(* Billing plans, the subscriptions of users to them, and the limits that  *)
(* a request gets (GetUserPlanLimits): the tables plan and subscription,   *)
(* and the REST handlers and admin pages that edit them.  No two           *)
(* statements share a transaction; a foreign key keeps a plan that a       *)
(* subscription names.  app_user.plan_id is never written and names free.  *)
(***************************************************************************)
EXTENDS Naturals, FiniteSets

CONSTANTS
    Users,      \* ids of users; an id is never handed out twice
    PlanIds,
    Free,       \* the plan of those without a subscription
    BuiltIn,    \* the plans that seedPlans creates
    Limits,     \* what a plan allows
    Seed,       \* Seed[p]: limits of built-in plan p
    Requests,   \* requests in flight
    NoPlan      \* no such row; and the strict limits used without a plan

PlanAssumption ==
    /\ NoPlan \notin Limits \cup PlanIds
    /\ Free \in BuiltIn /\ BuiltIn \subseteq PlanIds
    /\ Seed \in [BuiltIn -> Limits]

VARIABLES
    users,      \* rows of app_user
    born,       \* ids of users handed out
    plan,       \* plan[p]: the limits of plan p, or NoPlan when there is no row
    sub,        \* sub[u]: plan and status of u's subscription
    req,        \* requests
    asked       \* history: asked[p]: limits the last edit of plan p asked for,
                \* NoPlan when p is gone or two edits of p overlapped

vars == <<users, born, plan, sub, req, asked>>

\* good: the status is active or trialing; periods are never looked at.
Subscription == [plan : PlanIds, good : BOOLEAN]
NoSub == [plan |-> NoPlan, good |-> FALSE]

\* held: history, plans of u's good subscription since the request started,
\* NoPlan for none or for a read that failed.
Asking == [at : {"sub", "plan", "free", "got"}, user : Users,
           plan : PlanIds \cup {NoPlan}, held : SUBSET (PlanIds \cup {NoPlan})]
Idle == [at |-> "idle"]
Other == [at : {"update"}, plan : PlanIds, limits : Limits, new : BOOLEAN]
         \cup [at : {"drop"}, plan : PlanIds]
         \cup [at : {"check", "insert"}, user : Users]

TypeOK ==
    /\ users \subseteq born /\ born \subseteq Users
    /\ plan \in [PlanIds -> Limits \cup {NoPlan}]
    /\ sub \in [Users -> Subscription \cup {NoSub}]
    /\ req \in [Requests -> Asking \cup Other \cup {Idle}]
    /\ asked \in [PlanIds -> Limits \cup {NoPlan}]

\* seedPlans: ON CONFLICT DO NOTHING.
Seeded(rows) ==
    [p \in PlanIds |-> IF rows[p] = NoPlan /\ p \in BuiltIn THEN Seed[p] ELSE rows[p]]

Init ==
    /\ users = {} /\ born = {}
    /\ plan = Seeded([p \in PlanIds |-> NoPlan]) /\ asked = plan
    /\ sub = [u \in Users |-> NoSub]
    /\ req = [r \in Requests |-> Idle]

At(r, place) == req[r].at = place
Answer(r) == req' = [req EXCEPT ![r] = Idle]
Exists(p) == plan[p] # NoPlan
HeldBy(s) == IF s.good THEN s.plan ELSE NoPlan
Updating(p) == {r \in Requests : At(r, "update") /\ req[r].plan = p}
InQuestion(u) == {r \in Requests : At(r, "sub") \/ At(r, "plan") \/ At(r, "free")}
                 \cap {r \in Requests : "user" \in DOMAIN req[r] /\ req[r].user = u}

\* The subscription of u is now s, and request r, if any, is over.
SetSub(u, s, over) ==
    /\ sub' = [sub EXCEPT ![u] = s]
    /\ req' = [r \in Requests |->
          IF r \in over THEN Idle
          ELSE IF r \in InQuestion(u) THEN [req[r] EXCEPT !.held = @ \cup {HeldBy(s)}]
          ELSE req[r]]

-----------------------------------------------------------------------------
(* Users and subscriptions *)

\* An administrator creates a user: there is no subscription.
CreateUser(u) ==
    /\ u \notin born
    /\ users' = users \cup {u} /\ born' = born \cup {u}
    /\ UNCHANGED <<plan, sub, req, asked>>

\* Register goes on to EnsureUserSubscription, whose error is dropped.
Register(r, u) ==
    /\ req[r] = Idle /\ u \notin born
    /\ users' = users \cup {u} /\ born' = born \cup {u}
    /\ req' = [req EXCEPT ![r] = [at |-> "check", user |-> u]]
    /\ UNCHANGED <<plan, sub, asked>>

\* It looks for a subscription, and takes an error for none.
CheckSubscription(r) ==
    /\ At(r, "check")
    /\ \/ sub[req[r].user] # NoSub /\ Answer(r)
       \/ req' = [req EXCEPT ![r].at = "insert"]
    /\ UNCHANGED <<users, born, plan, sub, asked>>

\* UpsertSubscription, which replaces what there is by now; or its failure.
InsertSubscription(r) ==
    /\ At(r, "insert")
    /\ LET u == req[r].user
       IN \/ u \in users /\ Exists(Free) /\ SetSub(u, [plan |-> Free, good |-> TRUE], {r})
          \/ Answer(r) /\ UNCHANGED sub
    /\ UNCHANGED <<users, born, plan, asked>>

\* AssignPlan (REST): the plan and the user must exist.
AssignPlan(u, p, good) ==
    /\ u \in users /\ Exists(p)
    /\ SetSub(u, [plan |-> p, good |-> good], {})
    /\ UNCHANGED <<users, born, plan, asked>>

\* BillingAssignPlan (web) leaves it to the foreign keys.
BillingAssignPlan(u, p) == AssignPlan(u, p, TRUE)

DeleteSubscription(u) ==
    /\ sub[u] # NoSub
    /\ SetSub(u, NoSub, {})
    /\ UNCHANGED <<users, born, plan, asked>>

\* BillingDeleteSubscription (web).
BillingDeleteSubscription(u) == DeleteSubscription(u)

\* DeleteUser takes the subscription along.
DeleteUser(u) ==
    /\ u \in users
    /\ users' = users \ {u}
    /\ SetSub(u, NoSub, {})
    /\ UNCHANGED <<born, plan, asked>>

-----------------------------------------------------------------------------
(* Plans *)

\* An edit that asks for limits l, or brings plan p back with them.
Edited(p, l, others) == asked' = [asked EXCEPT ![p] = IF others = {} THEN l ELSE NoPlan]

CreatePlan(p, l) ==
    /\ ~Exists(p)
    /\ plan' = [plan EXCEPT ![p] = l]
    /\ Edited(p, l, Updating(p))
    /\ UNCHANGED <<users, born, sub, req>>

\* BillingPlanCreate (web): an empty field is a zero, which means no limit.
BillingPlanCreate(p, l) == CreatePlan(p, l)

\* BillingPlanUpdate (web) writes the limits of the form; an empty field is a zero.
BillingPlanUpdate(p, l) ==
    /\ Exists(p)
    /\ plan' = [plan EXCEPT ![p] = l]
    /\ Edited(p, l, Updating(p))
    /\ UNCHANGED <<users, born, sub, req>>

\* UpdatePlan (REST) reads the plan, for the limits too if it has no new ones.
StartUpdatePlan(r, p, l) ==
    /\ req[r] = Idle /\ Exists(p)
    /\ req' = [req EXCEPT ![r] =
          [at |-> "update", plan |-> p, new |-> l # NoPlan,
           limits |-> IF l # NoPlan THEN l ELSE plan[p]]]
    /\ IF Updating(p) # {} THEN Edited(p, l, Updating(p)) ELSE UNCHANGED asked
    /\ UNCHANGED <<users, born, plan, sub>>

\* Mutant: limits that are not in the request are those of the seed.
WritePlanDefault(r) ==
    /\ At(r, "update")
    /\ LET p == req[r].plan
       IN /\ Exists(p)
          /\ plan' = [plan EXCEPT ![p] = IF req[r].new \/ p \notin BuiltIn
                                         THEN req[r].limits ELSE Seed[p]]
          /\ IF req[r].new THEN Edited(p, req[r].limits, Updating(p) \ {r})
             ELSE UNCHANGED asked
    /\ Answer(r)
    /\ UNCHANGED <<users, born, sub>>

\* It writes, or fails, as for a plan that is gone.
WritePlan(r) ==
    /\ At(r, "update")
    /\ LET p == req[r].plan
       IN \/ /\ Exists(p)
             /\ plan' = [plan EXCEPT ![p] = req[r].limits]
             /\ IF req[r].new THEN Edited(p, req[r].limits, Updating(p) \ {r})
                ELSE UNCHANGED asked
          \/ UNCHANGED <<plan, asked>>
    /\ Answer(r)
    /\ UNCHANGED <<users, born, sub>>

\* DeletePlan counts the subscriptions; an error counts as none.
CountSubscriptions(r, p) ==
    /\ req[r] = Idle
    /\ req' = [req EXCEPT ![r] = [at |-> "drop", plan |-> p]]
    /\ UNCHANGED <<users, born, plan, sub, asked>>

\* Mutant: the count is all that protects a plan in use.
DropPlanUnguarded(r) ==
    /\ At(r, "drop")
    /\ plan' = [plan EXCEPT ![req[r].plan] = NoPlan]
    /\ asked' = [asked EXCEPT ![req[r].plan] = NoPlan]
    /\ Answer(r)
    /\ UNCHANGED <<users, born, sub>>

\* The DELETE, which the foreign key stops if there is a subscription by now.
DropPlan(r) ==
    /\ At(r, "drop")
    /\ LET p == req[r].plan
       IN \/ /\ \A u \in Users : sub[u].plan # p
             /\ plan' = [plan EXCEPT ![p] = NoPlan]
             /\ asked' = [asked EXCEPT ![p] = NoPlan]
          \/ UNCHANGED <<plan, asked>>
    /\ Answer(r)
    /\ UNCHANGED <<users, born, sub>>

-----------------------------------------------------------------------------
(* GetUserPlanLimits *)

StartLimits(r, u) ==
    /\ req[r] = Idle /\ u \in users
    /\ req' = [req EXCEPT ![r] = [at |-> "sub", user |-> u, plan |-> NoPlan,
                                  held |-> {HeldBy(sub[u])}]]
    /\ UNCHANGED <<users, born, plan, sub, asked>>

\* Mutant: any subscription will do.
ReadAnySub(r) ==
    /\ At(r, "sub")
    /\ LET s == sub[req[r].user]
       IN req' = [req EXCEPT ![r].at = IF s = NoSub THEN "free" ELSE "plan",
                             ![r].plan = s.plan]
    /\ UNCHANGED <<users, born, plan, sub, asked>>

\* The subscription, if there is a good one and the read does not fail.
ReadSub(r) ==
    /\ At(r, "sub")
    /\ LET p == HeldBy(sub[req[r].user])
       IN \/ req' = [req EXCEPT ![r].at = IF p = NoPlan THEN "free" ELSE "plan", ![r].plan = p]
          \/ req' = [req EXCEPT ![r].at = "free", ![r].held = @ \cup {NoPlan}]
    /\ UNCHANGED <<users, born, plan, sub, asked>>

\* Its plan; without it, the free one.
ReadPlan(r) ==
    /\ At(r, "plan")
    /\ \/ req' = [req EXCEPT ![r].at = IF Exists(req[r].plan) THEN "got" ELSE "free"]
       \/ req' = [req EXCEPT ![r].at = "free", ![r].held = @ \cup {NoPlan}]
    /\ UNCHANGED <<users, born, plan, sub, asked>>

\* The free plan; without it, its limits as they are written in the code.
ReadFree(r) ==
    /\ At(r, "free")
    /\ \E p \in {Free, NoPlan} :
          /\ p = Free => Exists(Free)
          /\ req' = [req EXCEPT ![r].at = "got", ![r].plan = p]
    /\ UNCHANGED <<users, born, plan, sub, asked>>

GotLimits(r) ==
    /\ At(r, "got") /\ Answer(r)
    /\ UNCHANGED <<users, born, plan, sub, asked>>

-----------------------------------------------------------------------------

\* The process stops and starts: built-in plans that were deleted are back.
Restart ==
    /\ plan' = Seeded(plan)
    /\ asked' = [p \in PlanIds |-> IF Exists(p) THEN asked[p] ELSE plan'[p]]
    /\ req' = [r \in Requests |-> Idle]
    /\ UNCHANGED <<users, born, sub>>

Subscribing(u) ==
    \/ CreateUser(u) \/ DeleteUser(u)
    \/ DeleteSubscription(u) \/ BillingDeleteSubscription(u)
    \/ \E p \in PlanIds : BillingAssignPlan(u, p) \/ \E good \in BOOLEAN : AssignPlan(u, p, good)
    \/ \E r \in Requests : Register(r, u) \/ StartLimits(r, u)

Planning(p) ==
    \/ \E l \in Limits : CreatePlan(p, l) \/ BillingPlanCreate(p, l) \/ BillingPlanUpdate(p, l)
    \/ \E r \in Requests : CountSubscriptions(r, p)
                           \/ \E l \in Limits \cup {NoPlan} : StartUpdatePlan(r, p, l)

Going(r) ==
    \/ CheckSubscription(r) \/ InsertSubscription(r) \/ WritePlan(r) \/ DropPlan(r)
    \/ ReadSub(r) \/ ReadPlan(r) \/ ReadFree(r) \/ GotLimits(r)

Next ==
    \/ \E u \in Users : Subscribing(u)
    \/ \E p \in PlanIds : Planning(p)
    \/ \E r \in Requests : Going(r)
    \/ Restart

Spec == Init /\ [][Next]_vars

-----------------------------------------------------------------------------
(* Properties *)

\* A subscription never names a plan that is not there, also when the plan is
\* deleted while it is being assigned.
SubscribedPlansExist == \A u \in Users : sub[u] # NoSub => Exists(sub[u].plan)

\* A plan has the limits that the last edit of them asked for: an update of
\* something else does not bring old ones back, unless two edits of the plan
\* overlapped.
LimitsAsEdited == \A p \in PlanIds : asked[p] \in {NoPlan, plan[p]}

\* A request gets the limits of a plan that the user held since it started; or
\* those of the free plan, but only if the user held none at some moment or
\* changed plans meanwhile, or a read failed.
LimitsAreHeld ==
    \A r \in Requests : At(r, "got") =>
       \/ req[r].plan \in req[r].held \ {NoPlan}
       \/ /\ req[r].plan \in {Free, NoPlan}
          /\ NoPlan \in req[r].held \/ Cardinality(req[r].held) > 1

=============================================================================
