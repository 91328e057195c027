------------------------------- MODULE Billing -------------------------------
(***************************************************************************)
(* The billing of one account: its subscriptions at Stripe, the mirror of  *)
(* them on the user row, and the people who may upload on its plan.        *)
(*                                                                         *)
(* Stripe decides; every notification makes the application list all the   *)
(* customer's subscriptions again and copy the authoritative one, under a  *)
(* lock that covers the listing.  Changes to the plan, the storage blocks  *)
(* and the cancellation read the subscription, write to Stripe in several  *)
(* calls and copy the result, under a lease on the user row.               *)
(*                                                                         *)
(* Left out: billing intervals (a longer one is an upgrade, a shorter one  *)
(* a downgrade), amounts and invoices, dates of access, and the list of    *)
(* confirmed demotions, which is only shown: what demotes is the plan.     *)
(***************************************************************************)
EXTENDS Integers, FiniteSets

CONSTANTS
    People,     \* other people on the account's workspaces
    MaxSubs,    \* bound: subscriptions the customer ever opens
    MaxBlocks,  \* bound: storage blocks asked for
    Calls,      \* requests and webhook deliveries that run at a time
    MaxEvents   \* bound: requests, payments, failures and crashes in all

ASSUME BillingAssumption ==
    /\ MaxSubs \in Nat \ {0} /\ MaxBlocks \in Nat /\ MaxEvents \in Nat
    /\ "nobody" \notin Calls /\ "left" \notin Calls

VARIABLES
    subs,       \* Stripe: the customer's subscriptions, in the order they were made
    owed,       \* Stripe: it has news it must deliver until it is answered 200
    user,       \* the account's row: the mirror and the trial
    editors,    \* who may upload, besides the owner
    lease,      \* who holds billingChangeLockedUntil
    calls,      \* what runs
    spent,      \* the days of the trial that was started are over
    events

vars == <<subs, owed, user, editors, lease, calls, spent, events>>

Subs == 1..MaxSubs
Plans == {"SOLO", "STUDIO"}
Items == [plan : Plans, blocks : 0..MaxBlocks]
NoItems == [plan |-> "NONE", blocks |-> 0]

isPlanUpgrade(from, to) == from = "SOLO" /\ to = "STUDIO"

\* A schedule's running phase and the phase after it.
NoSchedule == [base |-> NoItems, next |-> NoItems]
Attached(schedule) == schedule.base # NoItems
Pending(schedule) == schedule.next # NoItems

Schedule == [base : Items, next : Items \cup {NoItems}] \cup {NoSchedule}
Subscription ==
    [status : {"none", "session", "incomplete", "active", "past_due", "canceled"},
     items : Items \cup {NoItems}, schedule : Schedule, cancels : BOOLEAN,
     update : Items \cup {NoItems}]
User == [sub : Subs \cup {0}, plan : Plans, blocks : 0..MaxBlocks, cancels : BOOLEAN,
         status : {"FREE", "INCOMPLETE", "ACTIVE", "PAST_DUE", "CANCELED"},
         pending : Plans \cup {"NONE"}, founding : Subs \cup {0},
         trial : BOOLEAN]

View == [sub : Subs \cup {0}, status : {"INCOMPLETE", "ACTIVE", "PAST_DUE", "CANCELED"},
         plan : Plans \cup {"NONE"}, blocks : 0..MaxBlocks, cancels : BOOLEAN,
         pending : Plans \cup {"NONE"}]
NoView == [sub |-> 0, status |-> "CANCELED", plan |-> "NONE", blocks |-> 0,
           cancels |-> FALSE, pending |-> "NONE"]

Kinds == {"none", "webhook", "plan", "blocks", "undo", "cancel", "checkout", "add"}
Steps == {"none", "sync", "listed", "read", "return", "load", "charge", "update", "mark",
          "schedule", "write", "release", "clear", "find", "claim", "stop", "create", "admit"}
Call == [kind : Kinds, step : Steps, sub : Subs \cup {0}, seen : Subscription, target :
         Items \cup [plan : {"NONE"}, blocks : 0..MaxBlocks], marked : BOOLEAN,
         previous : Plans \cup {"NONE"}, view : View, trial : BOOLEAN,
         people : SUBSET People]

NoSub == [status |-> "none", items |-> NoItems, schedule |-> NoSchedule, cancels |-> FALSE,
          update |-> NoItems]
IdleCall == [kind |-> "none", step |-> "none", sub |-> 0, seen |-> NoSub, target |-> NoItems,
             marked |-> FALSE, previous |-> "NONE", view |-> NoView, trial |-> FALSE,
             people |-> {}]

TypeOK ==
    /\ subs \in [Subs -> Subscription]
    /\ owed \in BOOLEAN
    /\ user \in User
    /\ editors \in SUBSET People
    /\ lease \in Calls \cup {"nobody", "left"}
    /\ calls \in [Calls -> Call]
    /\ spent \in BOOLEAN
    /\ events \in 0..MaxEvents

Free(trial) == [sub |-> 0, plan |-> "SOLO", blocks |-> 0, cancels |-> FALSE, status |-> "FREE",
                pending |-> "NONE", founding |-> 0, trial |-> trial]
Running(items) == [NoSub EXCEPT !.status = "active", !.items = items]

\* A new account with its trial unused or running, or one that pays, founding or not.
Init ==
    /\ \/ /\ subs = [s \in Subs |-> NoSub]
          /\ \E trial \in BOOLEAN : user = Free(trial)
          /\ editors = {} /\ spent = FALSE
       \/ \E items \in Items, founder \in {0, 1} :
            /\ subs = [s \in Subs |-> IF s = 1 THEN Running(items) ELSE NoSub]
            /\ user = [Free(TRUE) EXCEPT !.sub = 1, !.status = "ACTIVE", !.plan = items.plan,
                                           !.blocks = items.blocks, !.founding = founder]
            /\ editors = IF items.plan = "SOLO" /\ founder = 0 THEN {} ELSE People
            /\ founder = 1 => items.plan = "SOLO"
            /\ spent = TRUE
    /\ owed = FALSE /\ lease = "nobody" /\ events = 0
    /\ calls = [c \in Calls |-> IdleCall]

Event == events < MaxEvents /\ events' = events + 1

Is(c, kinds, step) == calls[c].kind \in kinds /\ calls[c].step = step
At(c, step) == calls[c].step = step
Go(c, step) == calls' = [calls EXCEPT ![c].step = step]
Ends(c) == calls' = [calls EXCEPT ![c] = IdleCall]
Starts(c, call) == calls[c] = IdleCall /\ calls' = [calls EXCEPT ![c] = call]

\* Stripe writes a subscription and has news to tell.
Writes(s, sub) == subs' = [subs EXCEPT ![s] = sub] /\ owed' = TRUE
Ended(sub) == [sub EXCEPT !.status = "canceled", !.schedule = NoSchedule, !.update = NoItems]

-----------------------------------------------------------------------------
(***************************************************************************)
(* Stripe and its customer.                                                *)
(***************************************************************************)

Live == {"incomplete", "active", "past_due"}
Unpaid == {"incomplete", "past_due"}
Listed == {s \in Subs : subs[s].status \in Live \cup {"canceled"}}

\* A Checkout page is paid, or its first payment does not go through.
Pay(s) ==
    /\ Event
    /\ subs[s].status = "session"
    /\ \E status \in {"active", "incomplete"} : Writes(s, [subs[s] EXCEPT !.status = status])
    /\ UNCHANGED <<user, editors, lease, calls, spent>>

\* A renewal is not paid.
RenewalFails(s) ==
    /\ Event
    /\ subs[s].status = "active" /\ Writes(s, [subs[s] EXCEPT !.status = "past_due"])
    /\ UNCHANGED <<user, editors, lease, calls, spent>>

\* What is unpaid is paid after all, or Stripe gives up.
DunningEnds(s) ==
    /\ subs[s].status \in Unpaid
    /\ Writes(s, [subs[s] EXCEPT !.status = "active"]) \/ Writes(s, Ended(subs[s]))
    /\ UNCHANGED <<user, editors, lease, calls, spent, events>>

\* The paid period ends: a cancelled subscription stops, a schedule goes on to
\* its next phase or ends with the items it stored, any other just renews.
PeriodEnds(s) ==
    /\ subs[s].status = "active"
    /\ LET sub == subs[s] IN
       \/ sub.cancels /\ Writes(s, Ended(sub))
       \/ /\ ~sub.cancels /\ Pending(sub.schedule)
          /\ Writes(s, [sub EXCEPT !.items = sub.schedule.next,
                                     !.schedule = [base |-> sub.schedule.next, next |-> NoItems]])
       \/ /\ ~sub.cancels /\ Attached(sub.schedule) /\ ~Pending(sub.schedule)
          /\ Writes(s, [sub EXCEPT !.items = sub.schedule.base, !.schedule = NoSchedule])
       \/ ~sub.cancels /\ ~Attached(sub.schedule) /\ owed' = TRUE /\ UNCHANGED subs
    /\ UNCHANGED <<user, editors, lease, calls, spent, events>>

\* The open invoice of a pending update is paid, or the update expires.
UpdateSettles(s) ==
    /\ subs[s].update # NoItems /\ subs[s].status = "active"
    /\ \/ Writes(s, [subs[s] EXCEPT !.items = subs[s].update, !.update = NoItems])
       \/ Writes(s, [subs[s] EXCEPT !.update = NoItems])
    /\ UNCHANGED <<user, editors, lease, calls, spent, events>>

\* The Stripe portal: a subscription is set to cancel, or resumed.
Portal(s) ==
    /\ Event
    /\ subs[s].status \in {"active", "past_due"} /\ ~Attached(subs[s].schedule)
    /\ Writes(s, [subs[s] EXCEPT !.cancels = ~@])
    /\ UNCHANGED <<user, editors, lease, calls, spent>>

\* News is delivered.  Until it is answered with 200 it stays owed, so a
\* delivery that fails puts it back; new news arrives beside a delivery.
Deliver(c) ==
    /\ owed /\ owed' = FALSE
    /\ Starts(c, [IdleCall EXCEPT !.kind = "webhook", !.step = "sync"])
    /\ UNCHANGED <<subs, user, editors, lease, spent, events>>

-----------------------------------------------------------------------------
(***************************************************************************)
(* syncStripeCustomerSubscriptions.                                        *)
(***************************************************************************)

mapStripeSubscriptionStatus ==
    [incomplete |-> "INCOMPLETE", active |-> "ACTIVE", past_due |-> "PAST_DUE",
     canceled |-> "CANCELED"]

Priority == [active |-> 100, past_due |-> 80, incomplete |-> 50, canceled |-> 10]

\* Statuses rank first, then the newer subscription wins.  0: there is none.
selectAuthoritativeSubscription(from) ==
    IF from = {} THEN 0
    ELSE CHOOSE s \in from : \A t \in from :
            \/ Priority[subs[s].status] > Priority[subs[t].status]
            \/ Priority[subs[s].status] = Priority[subs[t].status] /\ s >= t

\* What the mirror is to show of subscription s.
ViewOf(s) ==
    IF s = 0 THEN NoView
    ELSE LET over == subs[s].status = "canceled" IN
         [sub |-> s, status |-> mapStripeSubscriptionStatus[subs[s].status],
          plan |-> subs[s].items.plan, blocks |-> IF over THEN 0 ELSE subs[s].items.blocks,
          cancels |-> subs[s].cancels,
          pending |-> IF over THEN "NONE" ELSE subs[s].schedule.next.plan]
Provider == ViewOf(selectAuthoritativeSubscription(Listed))

Locked == \E c \in Calls : calls[c].step \in {"listed", "read"}

\* A broken form of SyncList: the lock is taken after Stripe has answered.
SyncListUnlocked(c) ==
    /\ At(c, "sync")
    /\ calls' = [calls EXCEPT ![c].step = "listed", ![c].view = Provider]
    /\ UNCHANGED <<subs, owed, user, editors, lease, spent, events>>

\* Under the customer's advisory lock: the subscriptions as Stripe has them.
SyncList(c) ==
    /\ At(c, "sync") /\ ~Locked
    /\ calls' = [calls EXCEPT ![c].step = "listed", ![c].view = Provider]
    /\ UNCHANGED <<subs, owed, user, editors, lease, spent, events>>

\* The row as it was before the write, the trial among it.
SyncRead(c) ==
    /\ At(c, "listed")
    /\ calls' = [calls EXCEPT ![c].step = "read", ![c].trial = user.trial]
    /\ UNCHANGED <<subs, owed, user, editors, lease, spent, events>>

KeepsFounding(v) ==
    user.founding # 0 /\ user.founding = v.sub /\ v.status # "CANCELED" /\ v.plan = "SOLO"

\* A broken form of Demoted: a plan that was already Solo demotes nobody.
DemotedOnArrival(v) ==
    IF v.status = "ACTIVE" /\ v.plan = "SOLO" /\ ~KeepsFounding(v) /\ user.plan # "SOLO"
    THEN {} ELSE editors

\* Active on Solo without founding terms: everybody but the owner becomes a reviewer.
Demoted(v) ==
    IF v.status = "ACTIVE" /\ v.plan = "SOLO" /\ ~KeepsFounding(v) THEN {} ELSE editors

Mirrored(v, trial) ==
    [user EXCEPT !.sub = v.sub, !.status = v.status, !.blocks = v.blocks, !.cancels = v.cancels,
                 !.plan = IF v.plan = "NONE" THEN @ ELSE v.plan, !.pending = v.pending,
                 !.founding = IF KeepsFounding(v) THEN @ ELSE 0, !.trial = trial]

\* writeStripeSubscriptionToUser commits.  A webhook is answered; a change goes on.
SyncWrite(c) ==
    /\ At(c, "read")
    /\ user' = Mirrored(calls[c].view, calls[c].trial)
    /\ editors' = Demoted(calls[c].view)
    /\ IF calls[c].kind = "webhook" THEN Ends(c) ELSE Go(c, "return")
    /\ UNCHANGED <<subs, owed, lease, spent, events>>

\* A broken form of SyncFails: the failure is logged and the webhook answered 200.
SyncFailsAnswered(c) ==
    /\ Event
    /\ calls[c].step \in {"sync", "listed", "read"}
    /\ IF calls[c].kind = "webhook" THEN Ends(c) ELSE Go(c, "return")
    /\ UNCHANGED <<subs, owed, user, editors, lease, spent>>

\* Stripe, the database or the 30 seconds of the transaction give out: a webhook
\* is answered 500 and comes again, a change has done what it was asked for.
SyncFails(c) ==
    /\ Event
    /\ calls[c].step \in {"sync", "listed", "read"}
    /\ IF calls[c].kind = "webhook" THEN Ends(c) /\ owed' = TRUE
                                    ELSE Go(c, "return") /\ UNCHANGED owed
    /\ UNCHANGED <<subs, user, editors, lease, spent>>

-----------------------------------------------------------------------------
(***************************************************************************)
(* changePlan, changeStorageBlocks and cancelPendingChange.                *)
(***************************************************************************)

\* withBillingChangeLock: the lease is free or its ten minutes are over.
Claims(c) == lease = "nobody" /\ lease' = c

\* A plan, a number of blocks or the end of what is scheduled is asked for.
ChangeBegin(c) ==
    /\ Event
    /\ user.status = "ACTIVE" /\ user.sub # 0
    /\ Claims(c)
    /\ \E plan \in Plans, n \in 0..MaxBlocks :
         \/ Starts(c, [IdleCall EXCEPT !.kind = "plan", !.step = "load",
                                       !.target = [plan |-> plan, blocks |-> 0]])
         \/ Starts(c, [IdleCall EXCEPT !.kind = "blocks", !.step = "load",
                                       !.target = [plan |-> "NONE", blocks |-> n]])
         \/ Starts(c, [IdleCall EXCEPT !.kind = "undo", !.step = "load"])
    /\ UNCHANGED <<subs, owed, user, editors, spent>>

\* The target a change builds on: the pending one if there is one, else today's.
baseTarget(sub) == IF Pending(sub.schedule) THEN sub.schedule.next ELSE sub.items

Changeable == /\ user.status = "ACTIVE" /\ ~user.cancels /\ user.sub # 0
              /\ subs[user.sub].status = "active" /\ subs[user.sub].update = NoItems

\* Where a request goes from the subscription it has read, once confirmed.
Route(kind, want, sub) ==
    LET pending == Pending(sub.schedule)
        target == IF kind = "plan"
                  THEN [plan |-> want.plan, blocks |-> baseTarget(sub).blocks]
                  ELSE [plan |-> baseTarget(sub).plan, blocks |-> want.blocks]
        more == IF kind = "plan" THEN isPlanUpgrade(sub.items.plan, want.plan)
                                 ELSE want.blocks > sub.items.blocks
        same == IF kind = "plan" THEN want.plan = sub.items.plan /\ ~pending
                ELSE want.blocks = baseTarget(sub).blocks /\ want.blocks = sub.items.blocks
    IN  [target |-> IF kind = "undo" THEN sub.items ELSE target,
         step |-> CASE kind = "undo" -> IF Attached(sub.schedule) THEN "release" ELSE "return"
                    [] kind # "undo" /\ (same \/ (more /\ pending)) -> "return"
                    [] kind # "undo" /\ more /\ ~pending -> "charge"
                    [] kind # "undo" /\ ~same /\ ~more /\ target = sub.items -> "release"
                    [] kind = "plan" /\ ~more /\ isPlanUpgrade(want.plan, sub.items.plan) -> "mark"
                    [] OTHER -> "schedule"]

\* loadChangeable and the decision.  An amount, a demotion or a quota that was
\* not confirmed as it is now is sent back to be confirmed.
ChangeLoad(c) ==
    /\ Is(c, {"plan", "blocks", "undo"}, "load")
    /\ IF Changeable
       THEN LET sub == subs[user.sub]
                route == Route(calls[c].kind, calls[c].target, sub)
            IN \/ route.step \notin {"return", "release"} /\ Go(c, "return")
               \/ calls' = [calls EXCEPT ![c].step = route.step, ![c].sub = user.sub,
                                         ![c].seen = sub, ![c].target = route.target]
       ELSE Go(c, "return")
    /\ UNCHANGED <<subs, owed, user, editors, lease, spent, events>>

\* A broken form of Charge: a schedule whose change has landed stays attached.
ChargeAttached(c) ==
    /\ At(c, "charge")
    /\ Go(c, "update")
    /\ UNCHANGED <<subs, owed, user, editors, lease, spent, events>>

\* A schedule is released at Stripe, which refuses if it has ended meanwhile.
Released(c, step) ==
    LET s == calls[c].sub IN
    IF Attached(subs[s].schedule)
    THEN Writes(s, [subs[s] EXCEPT !.schedule = NoSchedule]) /\ Go(c, step)
    ELSE Go(c, "return") /\ UNCHANGED <<subs, owed>>

\* applyNow: a leftover schedule is let go of before the update.
Charge(c) ==
    /\ At(c, "charge")
    /\ IF Attached(calls[c].seen.schedule) THEN Released(c, "update")
                                           ELSE Go(c, "update") /\ UNCHANGED <<subs, owed>>
    /\ UNCHANGED <<user, editors, lease, spent, events>>

\* The items an update sends: the plan if it differs from the one read, the
\* blocks if there are or were any.
Updated(sub, seen, target) ==
    [plan |-> IF target.plan # seen.plan THEN target.plan ELSE sub.items.plan,
     blocks |-> IF target.blocks + seen.blocks > 0 THEN target.blocks ELSE sub.items.blocks]

\* Stripe charges and applies it, leaves it waiting for its invoice, or declines.
Update(c) ==
    /\ At(c, "update")
    /\ LET s == calls[c].sub
           items == Updated(subs[s], calls[c].seen.items, calls[c].target)
       IN IF subs[s].status = "active"
          THEN \/ Writes(s, [subs[s] EXCEPT !.items = items]) /\ Go(c, "sync")
               \/ Writes(s, [subs[s] EXCEPT !.update = items]) /\ Go(c, "return")
               \/ Go(c, "return") /\ UNCHANGED <<subs, owed>>
          ELSE Go(c, "return") /\ UNCHANGED <<subs, owed>>
    /\ UNCHANGED <<user, editors, lease, spent, events>>

\* A move to Solo is marked on the row before Stripe is called.
Mark(c) ==
    /\ At(c, "mark")
    /\ user' = [user EXCEPT !.pending = "SOLO"]
    /\ calls' = [calls EXCEPT ![c].step = "schedule", ![c].marked = TRUE,
                              ![c].previous = user.pending]
    /\ UNCHANGED <<subs, owed, editors, lease, spent, events>>

\* applyAtPeriodEnd: the schedule is the one that was read or a new one, ...
ScheduleCreate(c) ==
    /\ At(c, "schedule")
    /\ LET s == calls[c].sub IN
       \/ Attached(calls[c].seen.schedule) /\ UNCHANGED <<subs, owed>>
       \/ /\ ~Attached(calls[c].seen.schedule)
          /\ subs[s].status = "active" /\ ~Attached(subs[s].schedule)
          /\ Writes(s, [subs[s] EXCEPT !.schedule = [base |-> subs[s].items, next |-> NoItems]])
    /\ Go(c, "write")
    /\ UNCHANGED <<user, editors, lease, spent, events>>

\* ... and its phases are the items that were read and the target.
ScheduleWrite(c) ==
    /\ At(c, "write")
    /\ LET s == calls[c].sub
           base == calls[c].seen.items
       IN /\ subs[s].status = "active" /\ Attached(subs[s].schedule)
          /\ Writes(s, [subs[s] EXCEPT !.items = base,
                        !.schedule = [base |-> base, next |-> calls[c].target]])
    /\ Go(c, "sync")
    /\ UNCHANGED <<user, editors, lease, spent, events>>

StripeRefuses(c) ==
    LET sub == subs[calls[c].sub] IN
    \/ sub.status # "active"
    \/ At(c, "schedule") /\ Attached(sub.schedule) /\ ~Attached(calls[c].seen.schedule)
    \/ At(c, "write") /\ ~Attached(sub.schedule)

\* Stripe refuses or fails: a mark is taken back, to what was there before it.
ScheduleFails(c) ==
    /\ calls[c].step \in {"schedule", "write"}
    /\ IF StripeRefuses(c) THEN UNCHANGED events ELSE Event
    /\ user' = IF calls[c].marked THEN [user EXCEPT !.pending = calls[c].previous] ELSE user
    /\ Go(c, "return")
    /\ UNCHANGED <<subs, owed, editors, lease, spent>>

\* What was scheduled is called off at Stripe, then on the row.
Release(c) ==
    /\ At(c, "release")
    /\ Released(c, "clear")
    /\ UNCHANGED <<user, editors, lease, spent, events>>

Clear(c) ==
    /\ At(c, "clear")
    /\ user' = [user EXCEPT !.pending = "NONE"]
    /\ Go(c, "sync")
    /\ UNCHANGED <<subs, owed, editors, lease, spent, events>>

\* The lease is cleared and the request answered.
Return(c) ==
    /\ At(c, "return")
    /\ lease' = IF lease = c THEN "nobody" ELSE lease
    /\ Ends(c)
    /\ UNCHANGED <<subs, owed, user, editors, spent, events>>

-----------------------------------------------------------------------------
(***************************************************************************)
(* cancelSubscription.                                                     *)
(***************************************************************************)

CancelBegin(c) ==
    /\ Event
    /\ user.status # "FREE"
    /\ Claims(c)
    /\ Starts(c, [IdleCall EXCEPT !.kind = "cancel", !.step = "find"])
    /\ UNCHANGED <<subs, owed, user, editors, spent>>

Cancelable == {s \in Listed : subs[s].status \in Unpaid
                                \/ (subs[s].status = "active" /\ ~subs[s].cancels)}

\* findCancelableStripeSubscription.
CancelFind(c) ==
    /\ Is(c, {"cancel"}, "find")
    /\ LET s == selectAuthoritativeSubscription(Cancelable) IN
       IF s = 0 THEN Go(c, "return")
       ELSE calls' = [calls EXCEPT ![c].sub = s, ![c].seen = subs[s],
                        ![c].step = IF subs[s].status = "active" /\ user.sub = s
                                    THEN "claim" ELSE "stop"]
    /\ UNCHANGED <<subs, owed, user, editors, lease, spent, events>>

\* The mirror of a paid subscription is claimed for the cancellation.
CancelClaim(c) ==
    /\ At(c, "claim")
    /\ IF user.sub = calls[c].sub /\ ~user.cancels
       THEN /\ user' = [user EXCEPT !.cancels = TRUE]
            /\ calls' = [calls EXCEPT ![c].step = "stop", ![c].marked = TRUE]
       ELSE Go(c, "return") /\ UNCHANGED user
    /\ UNCHANGED <<subs, owed, editors, lease, spent, events>>

EndsNow(c) == calls[c].seen.status \in Unpaid

\* A paid subscription loses its schedule and then ends with its period; one
\* that was read as unpaid ends at once.
CancelStop(c) ==
    /\ At(c, "stop")
    /\ LET s == calls[c].sub
           sub == subs[s]
       IN /\ sub.status \in Live
          /\ \/ EndsNow(c) /\ Writes(s, Ended(sub)) /\ Go(c, "sync")
             \/ /\ ~EndsNow(c) /\ Attached(calls[c].seen.schedule) /\ Attached(sub.schedule)
                /\ Writes(s, [sub EXCEPT !.schedule = NoSchedule])
                /\ calls' = [calls EXCEPT ![c].seen.schedule = NoSchedule]
             \/ /\ ~EndsNow(c) /\ ~Attached(calls[c].seen.schedule) /\ ~Attached(sub.schedule)
                /\ Writes(s, [sub EXCEPT !.cancels = TRUE]) /\ Go(c, "sync")
    /\ UNCHANGED <<user, editors, lease, spent, events>>

CancelRefused(c) ==
    LET sub == subs[calls[c].sub] IN
    \/ sub.status \notin Live
    \/ ~EndsNow(c) /\ (Attached(calls[c].seen.schedule) # Attached(sub.schedule))

\* Stripe refuses or fails: the claim is taken back and the mirror synced.
CancelFails(c) ==
    /\ At(c, "stop")
    /\ IF CancelRefused(c) THEN UNCHANGED events ELSE Event
    /\ user' = IF calls[c].marked /\ user.sub = calls[c].sub
               THEN [user EXCEPT !.cancels = FALSE] ELSE user
    /\ Go(c, "sync")
    /\ UNCHANGED <<subs, owed, editors, lease, spent>>

-----------------------------------------------------------------------------
(***************************************************************************)
(* Checkout, the trial and the editors.                                    *)
(***************************************************************************)

Recoverable == {"ACTIVE", "PAST_DUE", "INCOMPLETE"}

\* The mirror knows no subscription; on Solo the demotions are confirmed.
CheckoutAsk(c) ==
    /\ Event
    /\ user.status \notin Recoverable
    /\ \E plan \in Plans : Starts(c, [IdleCall EXCEPT !.kind = "checkout", !.step = "create",
                                            !.target = [plan |-> plan, blocks |-> 0]])
    /\ UNCHANGED <<subs, owed, user, editors, lease, spent>>

\* Nor does Stripe: a Checkout page is opened.
CheckoutCreate(c) ==
    /\ At(c, "create")
    /\ LET free == {s \in Subs : subs[s].status = "none"} IN
       \/ /\ \A s \in Subs : subs[s].status \notin Live
          /\ \E s \in free : /\ \A t \in free : s <= t
                             /\ subs' = [subs EXCEPT ![s] = [NoSub EXCEPT !.status = "session",
                                                             !.items = calls[c].target]]
       \/ UNCHANGED subs
    /\ Ends(c)
    /\ UNCHANGED <<owed, user, editors, lease, spent, events>>

\* startCardlessTrial, once per account.
StartTrial ==
    /\ ~user.trial
    /\ user' = [user EXCEPT !.trial = TRUE] /\ spent' = FALSE
    /\ UNCHANGED <<subs, owed, editors, lease, calls, events>>

TrialEnds ==
    /\ user.trial /\ ~spent /\ spent' = TRUE
    /\ UNCHANGED <<subs, owed, user, editors, lease, calls, events>>

hasActiveTrial == user.trial /\ ~spent

isFoundingAccount == user.founding # 0 /\ user.founding = user.sub /\ user.plan = "SOLO"

\* getEditorLimit: nobody but the owner may upload.
OwnerOnly ==
    /\ ~isFoundingAccount
    /\ IF user.status = "ACTIVE" THEN "SOLO" \in {user.plan, user.pending}
                                 ELSE ~hasActiveTrial

\* checkEditorAddition answers, ...
AddCheck(c) ==
    /\ Event
    /\ \E p \in People : /\ OwnerOnly => p \in editors
                         /\ Starts(c, [IdleCall EXCEPT !.kind = "add", !.step = "admit",
                                                       !.people = {p}])
    /\ UNCHANGED <<subs, owed, user, editors, lease, spent>>

\* ... and the role is written.
AddCommit(c) ==
    /\ At(c, "admit")
    /\ editors' = editors \cup calls[c].people
    /\ Ends(c)
    /\ UNCHANGED <<subs, owed, user, lease, spent, events>>

Remove(p) ==
    /\ p \in editors /\ editors' = editors \ {p}
    /\ UNCHANGED <<subs, owed, user, lease, calls, spent, events>>

\* The process dies in a call: a lease stays behind, an unanswered webhook is owed.
Crash(c) ==
    /\ Event
    /\ calls[c] # IdleCall /\ Ends(c)
    /\ lease' = IF lease = c THEN "left" ELSE lease
    /\ owed' = (owed \/ calls[c].kind = "webhook")
    /\ UNCHANGED <<subs, user, editors, spent>>

\* Ten minutes are longer than any change that is alive.
LeaseLapses ==
    /\ lease = "left" /\ lease' = "nobody"
    /\ UNCHANGED <<subs, owed, user, editors, calls, spent, events>>

-----------------------------------------------------------------------------
Sync(c) == SyncRead(c) \/ SyncWrite(c)
Runs(c) ==
    \/ Sync(c)
    \/ ChangeLoad(c) \/ Charge(c) \/ Update(c) \/ Mark(c)
    \/ ScheduleCreate(c) \/ ScheduleWrite(c) \/ Release(c) \/ Clear(c) \/ Return(c)
    \/ CancelFind(c) \/ CancelClaim(c) \/ CancelStop(c)
    \/ CheckoutCreate(c) \/ AddCommit(c)
Failures(c) == SyncFails(c) \/ ScheduleFails(c) \/ CancelFails(c) \/ Crash(c)
Requests(c) == ChangeBegin(c) \/ CancelBegin(c) \/ CheckoutAsk(c) \/ AddCheck(c)
Stripe(s) == \/ Pay(s) \/ RenewalFails(s) \/ DunningEnds(s) \/ PeriodEnds(s)
             \/ UpdateSettles(s) \/ Portal(s)

Next ==
    \/ \E c \in Calls : Deliver(c) \/ SyncList(c) \/ Runs(c) \/ Failures(c) \/ Requests(c)
    \/ \E s \in Subs : Stripe(s)
    \/ StartTrial \/ TrialEnds \/ LeaseLapses
    \/ \E p \in People : Remove(p)

\* Requests that were accepted run on; the advisory lock is given in the order it
\* is asked for; Stripe repeats a notification until it is answered, bills every
\* period and retries a payment only so often; a lease lapses.
Fairness ==
    /\ \A c \in Calls : WF_vars(Runs(c) \/ ScheduleFails(c) \/ CancelFails(c))
                          /\ SF_vars(SyncList(c))
    /\ WF_vars(\E c \in Calls : Deliver(c))
    /\ \A s \in Subs : WF_vars(PeriodEnds(s)) /\ WF_vars(DunningEnds(s))
    /\ WF_vars(LeaseLapses)

Spec == Init /\ [][Next]_vars /\ Fairness

-----------------------------------------------------------------------------
(***************************************************************************)
(* Properties.                                                             *)
(***************************************************************************)

Mirror == [sub |-> user.sub, status |-> user.status, plan |-> user.plan, blocks |-> user.blocks]
Truth == [sub |-> Provider.sub, status |-> Provider.status, plan |-> Provider.plan,
          blocks |-> Provider.blocks]

\* Once every notification is answered and nothing is being copied, the mirror shows
\* what the customer pays for, in whatever order notifications, requests and slow
\* answers of Stripe came in: entitlements are read off the mirror alone.
MirrorIsCurrent ==
    Listed # {} /\ ~owed /\ (\A c \in Calls : calls[c].step \notin {"sync", "listed", "read"})
        => Mirror = Truth

\* The mirror agrees with Stripe again and again, whatever failed.  The claims and
\* marks a crash left on it go with the next renewal's notification, so of an ended
\* subscription, which is not renewed, only what gives access is promised.
MirrorCatchesUp ==
    []<>(\/ Listed = {}
         \/ /\ Mirror = Truth
            /\ \/ Provider.status = "CANCELED"
               \/ user.cancels = Provider.cancels /\ user.pending = Provider.pending)

\* An account keeps what it has paid for: its items shrink only when a scheduled
\* change lands, never because a schedule written from an older reading, or left
\* behind by an earlier change, puts old items back over a paid upgrade.
PaidItemsStay ==
    [][\A s \in Subs :
         LET before == subs[s].items
             after == subs'[s].items
         IN before \in Items /\ after # before =>
              \/ ~isPlanUpgrade(after.plan, before.plan) /\ after.blocks >= before.blocks
              \/ after = subs[s].schedule.next]_vars

\* An account that stays active on Solo does not keep a second editor: somebody
\* admitted on an older reading of the plan is demoted by a later sync.
SoloSettles ==
    []<>(\/ editors = {} \/ isFoundingAccount
         \/ Provider.status # "ACTIVE" \/ Provider.plan # "SOLO")

=============================================================================
