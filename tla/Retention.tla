------------------------------- MODULE Retention -------------------------------
(***************************************************************************)
(* What an account is entitled to, until when, and when what it stored may *)
(* be deleted: the dates the mirror of its subscriptions carries, its free *)
(* trial, what the product tells the owner, and the job that deletes the   *)
(* workspaces of those whose access ended.                                 *)
(*                                                                         *)
(* Dates are days, Null is the null of a column.  The code decides twice   *)
(* who has access, who is past retention and what status to show: on a row *)
(* it has read, and as a query over the table.  Both are here.             *)
(*                                                                         *)
(* Billing has the changes of plan and the calls that race with them; here *)
(* what counts is dates.  Left out: trials that Stripe itself grants (none *)
(* is made any more), subscriptions to other prices, and the status        *)
(* "unpaid", which is treated as "past_due" is.                            *)
(***************************************************************************)
EXTENDS Integers, FiniteSets

CONSTANTS
    TrialDays,     \* DEFAULT_TRIAL_PERIOD_DAYS, 7
    UnpaidGrace,   \* UNPAID_ACCESS_GRACE_DAYS, 14
    CleanupGrace,  \* STORAGE_CLEANUP_GRACE_DAYS, 15
    NoticeDays,    \* TRIAL_ENDING_NOTICE_DAYS, 3
    Period,        \* days a subscription's period has
    MaxSubs,       \* bound: subscriptions the customer ever opens
    LastDay        \* bound: days a behaviour lasts

ASSUME DaysAssumption ==
    /\ TrialDays \in Nat \ {0} /\ UnpaidGrace \in Nat /\ CleanupGrace \in Nat \ {0}
    /\ NoticeDays \in Nat /\ Period \in Nat \ {0}
    /\ MaxSubs \in Nat \ {0} /\ LastDay \in Nat \ {0}

VARIABLES
    today,
    user,       \* the account's row
    sub,        \* Stripe: the subscriptions in the order they were made
    owed,       \* Stripe has changed one since they were last listed
    sync,       \* the write of the mirror that is under way, or NoSync
    workspace,  \* the account owns a workspace
    job,        \* the cleanup of expired accounts
    promised,   \* the last day the product said the content is kept until
    entitled,   \* the last day on which the account was entitled to access
    erased      \* a mirror write has put a trial's columns back to null

vars == <<today, user, sub, owed, sync, workspace, job, promised, entitled, erased>>

Null == 0
Dates == Nat      \* a day, or Null
Statuses == {"FREE", "TRIALING", "ACTIVE", "PAST_DUE", "UNPAID", "CANCELED", "INCOMPLETE",
             "INCOMPLETE_EXPIRED"}
Row == [status : Statuses, trialEndsAt : Dates, trialConsumed : BOOLEAN,
        periodEnd : Dates, accessEndedAt : Dates]

\* SQL's comparisons, which no null satisfies.
gt(x, y) == x # Null /\ x > y
lte(x, y) == x # Null /\ x <= y
later(x, y) == IF x > y THEN x ELSE y
sooner(x, y) == IF x < y THEN x ELSE y

-----------------------------------------------------------------------------
(***************************************************************************)
(* What a row entitles to.                                                 *)
(***************************************************************************)

UnpaidStatuses == {"INCOMPLETE", "INCOMPLETE_EXPIRED"}

getDefaultTrialEndsAt(from) == from + TrialDays
hasActiveTrial(trialEndsAt, now) == trialEndsAt # Null /\ trialEndsAt > now
hasActiveSubscription(status) == status \in {"ACTIVE", "TRIALING"}

\* The period the mirror reports stands in for access only while it was paid
\* for and no cutoff has passed.
PeriodStands(u, now) ==
    /\ u.status \notin UnpaidStatuses
    /\ ~(u.accessEndedAt # Null /\ u.accessEndedAt <= now)
    /\ u.periodEnd # Null /\ u.periodEnd > now

isPaidTier(u, now) == hasActiveSubscription(u.status) \/ PeriodStands(u, now)

hasBillingAccess(u, now) ==
    \/ hasActiveSubscription(u.status)
    \/ hasActiveTrial(u.trialEndsAt, now)
    \/ PeriodStands(u, now)

getBillingAccessEndDate(u) ==
    LET subscriptionEnd ==
          IF u.accessEndedAt # Null THEN u.accessEndedAt
          ELSE IF u.status \in UnpaidStatuses THEN Null ELSE u.periodEnd
    IN IF subscriptionEnd = Null THEN u.trialEndsAt
       ELSE IF u.trialEndsAt = Null THEN subscriptionEnd
       ELSE later(subscriptionEnd, u.trialEndsAt)

getStorageCleanupEligibleAt(u) ==
    LET end == getBillingAccessEndDate(u)
    IN IF end = Null THEN Null ELSE end + CleanupGrace

getEffectiveBillingStatus(u, now) ==
    IF u.status = "FREE" /\ hasActiveTrial(u.trialEndsAt, now) THEN "TRIALING" ELSE u.status

\* The same three, as the queries ask for them.

\* Mutation: the period counts, whenever access was cut off.
AccessQueryNoCutoff(u, now) ==
    \/ u.status \in {"ACTIVE", "TRIALING"}
    \/ gt(u.trialEndsAt, now)
    \/ gt(u.periodEnd, now) /\ u.status \notin UnpaidStatuses

buildBillingAccessWhereInput(u, now) ==
    \/ u.status \in {"ACTIVE", "TRIALING"}
    \/ gt(u.trialEndsAt, now)
    \/ /\ gt(u.periodEnd, now)
       /\ u.status \notin UnpaidStatuses
       /\ u.accessEndedAt = Null \/ gt(u.accessEndedAt, now)

\* Mutation: a trial does not put the deletion off.
ExpiredQueryNoTrial(u, now) ==
    LET cutoff == now - CleanupGrace
    IN /\ u.status \notin {"ACTIVE", "TRIALING"}
       /\ \/ lte(u.accessEndedAt, cutoff)
          \/ /\ u.accessEndedAt = Null /\ u.status \notin UnpaidStatuses
             /\ lte(u.periodEnd, cutoff)
          \/ /\ u.accessEndedAt = Null /\ lte(u.trialEndsAt, cutoff)
             /\ u.periodEnd = Null \/ u.status \in UnpaidStatuses

\* Mutation: the first entitlement that ended counts, not the last.
ExpiredQueryFirst(u, now) ==
    LET cutoff == now - CleanupGrace
    IN /\ u.status \notin {"ACTIVE", "TRIALING"}
       /\ u.trialEndsAt = Null \/ ~gt(u.trialEndsAt, now)
       /\ lte(u.accessEndedAt, cutoff) \/ lte(u.periodEnd, cutoff) \/ lte(u.trialEndsAt, cutoff)

buildExpiredBillingWhereInput(u, now) ==
    LET cutoff == now - CleanupGrace
    IN /\ u.status \notin {"ACTIVE", "TRIALING"}
       /\ u.trialEndsAt = Null \/ lte(u.trialEndsAt, cutoff)
       /\ \/ lte(u.accessEndedAt, cutoff)
          \/ /\ u.accessEndedAt = Null /\ u.status \notin UnpaidStatuses
             /\ lte(u.periodEnd, cutoff)
          \/ /\ u.accessEndedAt = Null /\ lte(u.trialEndsAt, cutoff)
             /\ u.periodEnd = Null \/ u.status \in UnpaidStatuses

buildEffectiveBillingStatusWhereInput(u, status, now) ==
    \/ /\ status = "TRIALING"
       /\ u.status = "TRIALING" \/ (u.status = "FREE" /\ gt(u.trialEndsAt, now))
    \/ /\ status = "FREE"
       /\ u.status = "FREE" /\ (u.trialEndsAt = Null \/ lte(u.trialEndsAt, now))
    \/ /\ status \notin {"TRIALING", "FREE"}
       /\ u.status = status

-----------------------------------------------------------------------------
(***************************************************************************)
(* What the product tells the owner.                                       *)
(***************************************************************************)

\* getTrialNotice: the banner, with the day until which the content is kept.
\* "member": the account works in other people's workspaces.
NoNotice == [kind |-> "none", contentKeptUntil |-> Null]
getTrialNotice(u, member, now) ==
    LET kept == getStorageCleanupEligibleAt(u)
        notice(kind) == [kind |-> kind, contentKeptUntil |-> kept]
    IN IF isPaidTier(u, now) \/ (~workspace /\ member) THEN NoNotice
       ELSE IF hasActiveTrial(u.trialEndsAt, now)
            THEN IF u.trialEndsAt - now > NoticeDays THEN NoNotice ELSE notice("ending")
       ELSE IF getBillingAccessEndDate(u) = Null \/ hasBillingAccess(u, now)
               \/ (kept # Null /\ kept <= now)
            THEN NoNotice
       ELSE notice("ended")

\* getWorkspaceCreationEligibility, for an account that has at most one.
canCreateWorkspace(u, member, now) ==
    ~workspace /\ (isPaidTier(u, now) \/ hasBillingAccess(u, now) \/ ~member)

-----------------------------------------------------------------------------
(***************************************************************************)
(* Stripe's side.                                                          *)
(***************************************************************************)

Subs == 1 .. MaxSubs
SubStatuses == {"none", "incomplete", "active", "past_due", "incomplete_expired", "canceled"}
Subscription == [status : SubStatuses, start : Dates, end : Dates, endedAt : Dates]
NoSub == [status |-> "none", start |-> Null, end |-> Null, endedAt |-> Null]

mapStripeSubscriptionStatus(status) ==
    CASE status = "incomplete" -> "INCOMPLETE"
      [] status = "active" -> "ACTIVE"
      [] status = "past_due" -> "PAST_DUE"
      [] status = "incomplete_expired" -> "INCOMPLETE_EXPIRED"
      [] status = "canceled" -> "CANCELED"

Priority(status) ==
    CASE status = "active" -> 100
      [] status = "past_due" -> 80
      [] status = "incomplete" -> 50
      [] status = "incomplete_expired" -> 20
      [] status = "canceled" -> 10

Made == {s \in Subs : sub[s].status # "none"}

\* selectAuthoritativeSubscription: the most alive, then the newest.
Authoritative(s) ==
    /\ s \in Made
    /\ \A t \in Made \ {s} :
         \/ Priority(sub[s].status) > Priority(sub[t].status)
         \/ sub[s].status = sub[t].status /\ s > t

\* getInactiveBillingAccessEndedAt: where access ends when it is not active.
getInactiveBillingAccessEndedAt(s, now) ==
    IF s.endedAt # Null THEN s.endedAt
    ELSE IF s.status = "past_due" THEN sooner(s.start + UnpaidGrace, s.end)
    ELSE now

\* What the account is entitled to, whatever the mirror says: a period it paid
\* for, the grace after a payment that failed, and the trial it was granted.
EntitledNow ==
    \/ hasActiveTrial(user.trialEndsAt, today)
    \/ \E s \in Subs :
         \/ sub[s].status = "active"
         \/ /\ sub[s].status = "past_due"
            /\ today < getInactiveBillingAccessEndedAt(sub[s], today)

\* An attempt that was never paid for outranks the subscription that was.
Outranked ==
    \E s, t \in Subs : sub[s].status = "incomplete_expired" /\ sub[t].status = "canceled"

-----------------------------------------------------------------------------
NoSync == [seen |-> NoSub, trialEndsAt |-> Null, trialConsumed |-> FALSE]

\* The mirror lacks what Stripe has.
Behind == owed \/ sync # NoSync

TypeOK ==
    /\ today \in 1 .. LastDay
    /\ {owed, workspace, erased} \subseteq BOOLEAN
    /\ user \in Row
    /\ sub \in [Subs -> Subscription]
    /\ sync \in [seen : Subscription, trialEndsAt : Dates, trialConsumed : BOOLEAN]
    /\ sync # NoSync => sync.seen.status # "none"
    /\ job \in {"idle", "listed"}
    /\ promised \in Dates /\ entitled \in Dates

Row0 == [status |-> "FREE", trialEndsAt |-> Null, trialConsumed |-> FALSE,
         periodEnd |-> Null, accessEndedAt |-> Null]

\* An account whose trial waits, as a collaborator's does, or began today.
Init ==
    /\ today = 1
    /\ user \in {Row0, [Row0 EXCEPT !.trialEndsAt = getDefaultTrialEndsAt(1),
                                    !.trialConsumed = TRUE]}
    /\ sub = [s \in Subs |-> NoSub] /\ owed = FALSE /\ sync = NoSync
    /\ workspace = FALSE /\ job = "idle"
    /\ promised = Null /\ erased = FALSE
    /\ entitled = IF user = Row0 THEN Null ELSE 1

-----------------------------------------------------------------------------
(***************************************************************************)
(* The owner.                                                              *)
(***************************************************************************)

\* POST billing/trial: startCardlessTrial, one update of a row whose trial was
\* never used.
ClaimTrial ==
    /\ user.trialEndsAt = Null /\ ~user.trialConsumed
    /\ user' = [user EXCEPT !.trialEndsAt = getDefaultTrialEndsAt(today),
                            !.trialConsumed = TRUE]
    /\ UNCHANGED <<today, sub, owed, sync, workspace, job, promised, erased>>

\* POST workspaces
CreateWorkspace ==
    /\ \E member \in BOOLEAN : canCreateWorkspace(user, member, today)
    /\ workspace' = TRUE
    /\ UNCHANGED <<today, user, sub, owed, sync, job, promised, erased>>

\* The pages show the notice.  What a mirror says that Stripe has news for is no
\* promise.
ShowNotice ==
    /\ workspace /\ ~Behind
    /\ \E member \in BOOLEAN :
         promised' = getTrialNotice(user, member, today).contentKeptUntil
    /\ promised' > promised
    /\ UNCHANGED <<today, user, sub, owed, sync, workspace, job, erased>>

-----------------------------------------------------------------------------
(***************************************************************************)
(* Stripe and its customer.                                                *)
(***************************************************************************)

Writes(s, subscription) ==
    /\ sub' = [sub EXCEPT ![s] = subscription] /\ owed' = TRUE
    /\ UNCHANGED <<today, user, sync, workspace, job, promised, erased>>

Opened(status) == [status |-> status, start |-> today, end |-> today + Period, endedAt |-> Null]

Live == {"incomplete", "active", "past_due"}

\* A checkout: none is opened while a subscription lives.
Subscribe ==
    /\ \A s \in Subs : sub[s].status \notin Live
    /\ \E s \in Subs, status \in {"incomplete", "active"} :
         /\ sub[s].status = "none" /\ 1 .. s - 1 \subseteq Made
         /\ Writes(s, Opened(status))

Pay(s) ==
    /\ sub[s].status \in {"incomplete", "past_due"}
    /\ Writes(s, [sub[s] EXCEPT !.status = "active"])

\* The period is over: Stripe opens the next one, paid or not.
Renew(s) ==
    /\ sub[s].status \in {"active", "past_due"} /\ sub[s].end = today
    /\ \E status \in {sub[s].status, "past_due"} : Writes(s, Opened(status))

\* The customer cancels, or Stripe gives up.
End(s) ==
    /\ sub[s].status \in Live
    /\ Writes(s, [sub[s] EXCEPT !.endedAt = today, !.status =
                   IF @ = "incomplete" THEN "incomplete_expired" ELSE "canceled"])

-----------------------------------------------------------------------------
(***************************************************************************)
(* The mirror, the cleanup and the days.                                   *)
(***************************************************************************)

\* syncStripeCustomerSubscriptions, one at a time for a customer: it lists the
\* subscriptions and reads the row ...
SyncRead ==
    /\ owed /\ sync = NoSync
    /\ \E s \in Subs :
         /\ Authoritative(s)
         /\ sync' = [seen |-> sub[s], trialEndsAt |-> user.trialEndsAt,
                     trialConsumed |-> user.trialConsumed]
    /\ owed' = FALSE
    /\ UNCHANGED <<today, user, sub, workspace, job, promised, erased>>

accessEndedAt(s) ==
    IF s.status = "active" THEN Null ELSE getInactiveBillingAccessEndedAt(s, today)

\* ... and writes the mirror, the trial as it was read.
SyncWrite ==
    LET s == sync.seen
    IN /\ sync # NoSync /\ sync' = NoSync
       /\ user' = [status |-> mapStripeSubscriptionStatus(s.status), periodEnd |-> s.end,
                   trialEndsAt |-> sync.trialEndsAt, trialConsumed |-> sync.trialConsumed,
                   accessEndedAt |-> accessEndedAt(s)]
       /\ erased' = (erased \/ (user.trialConsumed /\ ~sync.trialConsumed))
       /\ UNCHANGED <<today, sub, owed, workspace, job, promised>>

\* It fails or takes too long; Stripe's webhook comes again.
SyncFails ==
    /\ sync # NoSync /\ sync' = NoSync
    /\ owed' = TRUE
    /\ UNCHANGED <<today, user, sub, workspace, job, promised, erased>>

\* cleanupExpiredBillingWorkspaces: the owners are listed once ...
ListExpired ==
    /\ job = "idle" /\ workspace
    /\ buildExpiredBillingWhereInput(user, today)
    /\ job' = "listed"
    /\ UNCHANGED <<today, user, sub, owed, sync, workspace, promised, erased>>

\* ... and their workspaces deleted one after the other, or the script stops.
DeleteExpired ==
    /\ job = "listed" /\ job' = "idle"
    /\ workspace' \in {FALSE, workspace}
    /\ UNCHANGED <<today, user, sub, owed, sync, promised, erased>>

\* A day passes.  A write of the mirror may take thirty seconds, and no period
\* is left behind.
Tick ==
    /\ today < LastDay /\ today' = today + 1
    /\ sync = NoSync
    /\ \A s \in Subs : sub[s].status \in {"active", "past_due"} => today < sub[s].end
    /\ UNCHANGED <<user, sub, owed, sync, workspace, job, promised, erased>>

Step ==
    \/ ClaimTrial \/ CreateWorkspace \/ ShowNotice
    \/ Subscribe \/ \E s \in Subs : Pay(s) \/ Renew(s) \/ End(s)
    \/ SyncRead \/ SyncWrite \/ SyncFails
    \/ ListExpired \/ DeleteExpired \/ Tick

\* "entitled" looks on.
Next == Step /\ entitled' = IF EntitledNow' THEN today' ELSE entitled

Spec == Init /\ [][Next]_vars

-----------------------------------------------------------------------------
\* What is decided on a row and what the queries ask for are the same: who has
\* access, who is past retention, and which status is shown; and nobody counts
\* as paying who has no access (hasBillingAccess, isPaidTier and the
\* build...WhereInput functions).
AgreeOn(u, now) ==
    /\ buildBillingAccessWhereInput(u, now) <=> hasBillingAccess(u, now)
    /\ buildExpiredBillingWhereInput(u, now) <=>
         /\ ~hasActiveSubscription(u.status)
         /\ lte(getStorageCleanupEligibleAt(u), now)
    /\ \A status \in Statuses :
         buildEffectiveBillingStatusWhereInput(u, status, now) <=>
           getEffectiveBillingStatus(u, now) = status
    /\ isPaidTier(u, now) => hasBillingAccess(u, now)

QueriesAgree == AgreeOn(user, today)

Listing == job = "idle" /\ job' = "listed"

\* The cleanup lists nobody before the retention is over that began with the
\* last day of access, unless Stripe has news for the mirror, a mirror write
\* has erased a trial, or an attempt that was never paid for outranks the
\* subscription that was.
RetentionRuns ==
    [][(Listing /\ ~Behind /\ ~erased /\ ~Outranked) =>
         entitled + CleanupGrace <= today]_vars

\* Nor before the day a notice gave to the owner.
KeptAsPromised ==
    [][(Listing /\ ~erased /\ ~Outranked) => promised <= today]_vars

\* "Retention starts after the last legitimate entitlement" (lib/billing.ts:211):
\* not so where an attempt that was never paid for outranks the subscription.
RetentionAlwaysRuns ==
    [][(Listing /\ ~Behind /\ ~erased) => entitled + CleanupGrace <= today]_vars
===============================================================================
