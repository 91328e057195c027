------------------------------ MODULE TeamProofs ------------------------------
(***************************************************************************)
(* What is proved of the rows a team shares.                               *)
(*                                                                         *)
(* Retention: what the code decides on a row and what it asks the database *)
(* for agree for every row and every day, the rows stay rows, and the      *)
(* cleanup lists nobody before the retention is over or a notice's day has *)
(* come.                                                                   *)
(*                                                                         *)
(* Seats: nobody enters a folder or a file but by an invitation that is    *)
(* open at that moment, and accepting never takes a role away.             *)
(*                                                                         *)
(* Storage: what a check let in never exceeds the account's limit.         *)
(*                                                                         *)
(* Comments: a tab shows a comment once, and an entity tag that spares it  *)
(* the pages vouches for the list on its screen.                           *)
(***************************************************************************)
EXTENDS MCTeam, FiniteSetTheorems, WellFoundedInduction, TLAPS

-----------------------------------------------------------------------------
(* The two forms of each question, for any row.                            *)

\* Who has access: hasBillingAccess and buildBillingAccessWhereInput.
LEMMA AccessAgrees ==
  ASSUME NEW u \in Row, NEW now \in Nat
  PROVE  buildBillingAccessWhereInput(u, now) <=> hasBillingAccess(u, now)
BY DEF buildBillingAccessWhereInput, hasBillingAccess, hasActiveSubscription, hasActiveTrial,
       PeriodStands, gt, Null, Row, Dates, UnpaidStatuses

\* Nobody counts as paying who has no access: isPaidTier and hasBillingAccess.
LEMMA PaidHasAccess ==
  ASSUME NEW u, NEW now
  PROVE  isPaidTier(u, now) => hasBillingAccess(u, now)
BY DEF isPaidTier, hasBillingAccess

\* Which status is shown: getEffectiveBillingStatus and its query.
LEMMA StatusAgrees ==
  ASSUME NEW u \in Row, NEW now \in Nat, NEW status \in Statuses
  PROVE  buildEffectiveBillingStatusWhereInput(u, status, now) <=>
           getEffectiveBillingStatus(u, now) = status
BY DEF buildEffectiveBillingStatusWhereInput, getEffectiveBillingStatus, hasActiveTrial,
       gt, lte, Null, Row, Dates, Statuses

\* Who is past retention: getStorageCleanupEligibleAt and
\* buildExpiredBillingWhereInput.
LEMMA ExpiryAgrees ==
  ASSUME NEW u \in Row, NEW now \in Nat
  PROVE  buildExpiredBillingWhereInput(u, now) <=>
           /\ ~hasActiveSubscription(u.status)
           /\ lte(getStorageCleanupEligibleAt(u), now)
BY DaysAssumption
   DEF buildExpiredBillingWhereInput, hasActiveSubscription, getStorageCleanupEligibleAt,
       getBillingAccessEndDate, later, gt, lte, Null, Row, Dates, UnpaidStatuses

\* All four, for any row: the state property QueriesAgree says it of the row.
LEMMA Agrees ==
  ASSUME NEW u \in Row, NEW now \in Nat
  PROVE  AgreeOn(u, now)
BY AccessAgrees, PaidHasAccess, StatusAgrees, ExpiryAgrees DEF AgreeOn

-----------------------------------------------------------------------------
(* The rows stay rows.                                                     *)

LEMMA CutoffIsADate ==
  ASSUME NEW s \in Subscription, NEW now \in Nat
  PROVE  getInactiveBillingAccessEndedAt(s, now) \in Dates
BY DaysAssumption DEF getInactiveBillingAccessEndedAt, Subscription, Dates, sooner, Null

\* Whatever Stripe reports, the mirror write makes a row of it.
LEMMA MirrorIsARow ==
  ASSUME TypeOK, SyncWrite
  PROVE  user' \in Row
<1> DEFINE s == sync.seen
<1>1. s \in Subscription /\ s.status # "none" /\ today \in Nat
  BY DaysAssumption DEF TypeOK, SyncWrite
<1>2. mapStripeSubscriptionStatus(s.status) \in Statuses
  BY <1>1 DEF mapStripeSubscriptionStatus, Subscription, SubStatuses, Statuses
<1>3. accessEndedAt(s) \in Dates
  BY <1>1, CutoffIsADate DEF accessEndedAt, Dates, Null
<1>4. s.end \in Dates /\ sync.trialEndsAt \in Dates /\ sync.trialConsumed \in BOOLEAN
  BY <1>1 DEF TypeOK, Subscription
<1> QED
  BY <1>2, <1>3, <1>4 DEF SyncWrite, Row

LEMMA NoticeIsADate ==
  ASSUME NEW u \in Row, NEW joined \in BOOLEAN, NEW now \in Nat
  PROVE  getTrialNotice(u, joined, now).contentKeptUntil \in Dates
<1>1. getBillingAccessEndDate(u) \in Dates
  BY DEF getBillingAccessEndDate, Row, Dates, later, Null
<1>2. getStorageCleanupEligibleAt(u) \in Dates
  BY <1>1, DaysAssumption DEF getStorageCleanupEligibleAt, Dates, Null
<1> QED
  BY <1>2 DEF getTrialNotice, NoNotice, Dates, Null

LEMMA InitTypes == Init => TypeOK
<1> SUFFICES ASSUME Init PROVE TypeOK
  OBVIOUS
<1>1. today = 1 /\ getDefaultTrialEndsAt(1) \in Nat
  BY DaysAssumption DEF Init, getDefaultTrialEndsAt
<1>2. user \in Row
  <2>1. Row0 \in Row
    BY DEF Row, Row0, Statuses, Dates, Null
  <2>2. getDefaultTrialEndsAt(1) \in Dates
    BY <1>1 DEF Dates
  <2>3. [Row0 EXCEPT !.trialEndsAt = getDefaultTrialEndsAt(1), !.trialConsumed = TRUE] \in Row
    BY <2>1, <2>2 DEF Row
  <2> QED
    BY <2>1, <2>3 DEF Init
<1>3. NoSub \in Subscription /\ NoSub.status = "none"
  BY DEF NoSub, Subscription, SubStatuses, Dates, Null
<1>4. sub \in [Subs -> Subscription]
  BY <1>3 DEF Init
<1>5. sync \in [seen : Subscription, trialEndsAt : Dates, trialConsumed : BOOLEAN]
  BY <1>3 DEF Init, NoSync, Dates, Null
<1>6. promised \in Dates /\ entitled \in Dates
  BY DEF Init, Dates, Null
<1>7. today \in 1 .. LastDay
  BY <1>1, DaysAssumption
<1> QED
  BY <1>2, <1>4, <1>5, <1>6, <1>7 DEF Init, TypeOK

\* The type invariant but for "entitled", which Next writes for every step.
StepTypeOK ==
    /\ today \in 1 .. LastDay
    /\ {owed, workspace, erased} \subseteq BOOLEAN
    /\ user \in Row
    /\ sub \in [Subs -> Subscription]
    /\ sync \in [seen : Subscription, trialEndsAt : Dates, trialConsumed : BOOLEAN]
    /\ sync # NoSync => sync.seen.status # "none"
    /\ job \in {"idle", "listed"}
    /\ promised \in Dates

\* A subscription that Stripe writes is one.
LEMMA WrittenSub ==
  ASSUME TypeOK, NEW s \in Subs, NEW new \in Subscription, Writes(s, new)
  PROVE  StepTypeOK'
<1>1. sub' \in [Subs -> Subscription]
  BY DEF TypeOK, Writes
<1>2. {owed, workspace, erased}' \subseteq BOOLEAN
  BY DEF TypeOK, Writes
<1> QED
  BY <1>1, <1>2 DEF TypeOK, StepTypeOK, Writes

LEMMA StripeTypes ==
  ASSUME TypeOK,
         Subscribe \/ \E s \in Subs : Pay(s) \/ Renew(s) \/ End(s)
  PROVE  StepTypeOK'
<1>1. \A status \in SubStatuses : Opened(status) \in Subscription
  BY DaysAssumption DEF TypeOK, Opened, Subscription, Dates, Null
<1>2. \A s \in Subs : sub[s] \in Subscription /\ today \in Dates
  BY DaysAssumption DEF TypeOK, Dates
<1>3. CASE Subscribe
  <2>1. PICK s \in Subs, status \in {"incomplete", "active"} : Writes(s, Opened(status))
    BY <1>3 DEF Subscribe
  <2> QED
    BY <1>1, <2>1, WrittenSub DEF SubStatuses
<1>4. ASSUME NEW s \in Subs, Pay(s) PROVE StepTypeOK'
  <2>1. [sub[s] EXCEPT !.status = "active"] \in Subscription
    BY <1>2 DEF Subscription, SubStatuses
  <2> QED
    BY <1>4, <2>1, WrittenSub DEF Pay
<1>5. ASSUME NEW s \in Subs, Renew(s) PROVE StepTypeOK'
  <2>1. PICK status \in {sub[s].status, "past_due"} : Writes(s, Opened(status))
    BY <1>5 DEF Renew
  <2>2. status \in SubStatuses
    BY <1>2, <2>1 DEF Subscription, SubStatuses
  <2> QED
    BY <1>1, <2>1, <2>2, WrittenSub
<1>6. ASSUME NEW s \in Subs, End(s) PROVE StepTypeOK'
  <2> DEFINE new == [sub[s] EXCEPT !.endedAt = today, !.status =
                       IF @ = "incomplete" THEN "incomplete_expired" ELSE "canceled"]
  <2>1. new \in Subscription
    BY <1>2 DEF Subscription, SubStatuses
  <2> QED
    BY <1>6, <2>1, WrittenSub DEF End
<1> QED
  BY <1>3, <1>4, <1>5, <1>6

LEMMA NoSyncTyped ==
  NoSync \in [seen : Subscription, trialEndsAt : Dates, trialConsumed : BOOLEAN]
BY DEF NoSync, NoSub, Subscription, SubStatuses, Dates, Null

LEMMA StepTypes ==
  ASSUME TypeOK, Step
  PROVE  StepTypeOK'
<1>1. today \in Nat /\ user \in Row /\ today \in Dates
  BY DaysAssumption DEF TypeOK, Dates
<1>2. CASE ClaimTrial
  <2>1. getDefaultTrialEndsAt(today) \in Dates
    BY <1>1, DaysAssumption DEF getDefaultTrialEndsAt, Dates
  <2>2. user' \in Row
    BY <1>1, <1>2, <2>1 DEF ClaimTrial, Row
  <2> QED
    BY <1>2, <2>2 DEF ClaimTrial, TypeOK, StepTypeOK
<1>3. CASE CreateWorkspace
  BY <1>3 DEF CreateWorkspace, TypeOK, StepTypeOK
<1>4. CASE ShowNotice
  <2>1. promised' \in Dates
    BY <1>1, <1>4, NoticeIsADate DEF ShowNotice
  <2> QED
    BY <1>4, <2>1 DEF ShowNotice, TypeOK, StepTypeOK
<1>5. CASE Subscribe \/ \E s \in Subs : Pay(s) \/ Renew(s) \/ End(s)
  BY <1>5, StripeTypes
<1>6. CASE SyncRead
  <2>1. PICK s \in Subs : /\ Authoritative(s)
                          /\ sync' = [seen |-> sub[s], trialEndsAt |-> user.trialEndsAt,
                                      trialConsumed |-> user.trialConsumed]
    BY <1>6 DEF SyncRead
  <2>2. sub[s] \in Subscription /\ sub[s].status # "none"
    BY <2>1 DEF TypeOK, Authoritative, Made
  <2>3. user.trialEndsAt \in Dates /\ user.trialConsumed \in BOOLEAN
    BY <1>1 DEF Row
  <2>4. /\ sync' \in [seen : Subscription, trialEndsAt : Dates, trialConsumed : BOOLEAN]
        /\ sync'.seen.status # "none"
    BY <2>1, <2>2, <2>3
  <2> QED
    BY <1>6, <2>4 DEF SyncRead, TypeOK, StepTypeOK
<1>7. CASE SyncWrite
  <2>1. user' \in Row
    BY <1>7, MirrorIsARow
  <2>2. erased' \in BOOLEAN
    BY <1>7 DEF SyncWrite
  <2>3. sync' \in [seen : Subscription, trialEndsAt : Dates, trialConsumed : BOOLEAN]
    BY <1>7, NoSyncTyped DEF SyncWrite
  <2> QED
    BY <1>7, <2>1, <2>2, <2>3 DEF SyncWrite, TypeOK, StepTypeOK, NoSync
<1>8. CASE SyncFails
  <2>1. sync' \in [seen : Subscription, trialEndsAt : Dates, trialConsumed : BOOLEAN]
    BY <1>8, NoSyncTyped DEF SyncFails
  <2> QED
    BY <1>8, <2>1 DEF SyncFails, TypeOK, StepTypeOK, NoSync
<1>9. CASE ListExpired
  BY <1>9 DEF ListExpired, TypeOK, StepTypeOK
<1>10. CASE DeleteExpired
  BY <1>10 DEF DeleteExpired, TypeOK, StepTypeOK
<1>11. CASE Tick
  <2>1. today' \in 1 .. LastDay
    BY <1>1, <1>11, DaysAssumption DEF Tick, TypeOK
  <2> QED
    BY <1>11, <2>1 DEF Tick, TypeOK, StepTypeOK
<1> QED
  BY <1>2, <1>3, <1>4, <1>5, <1>6, <1>7, <1>8, <1>9, <1>10, <1>11 DEF Step

LEMMA NextTypes ==
  ASSUME TypeOK, [Next]_vars
  PROVE  TypeOK'
<1>1. CASE Next
  <2>1. StepTypeOK'
    BY <1>1, StepTypes DEF Next
  <2>2. entitled' \in Dates
    BY <1>1, <2>1, DaysAssumption DEF Next, TypeOK, StepTypeOK, Dates
  <2> QED
    BY <2>1, <2>2 DEF TypeOK, StepTypeOK
<1>2. CASE UNCHANGED vars
  BY <1>2 DEF vars, TypeOK, Made
<1> QED
  BY <1>1, <1>2

-----------------------------------------------------------------------------
\* Every behaviour keeps to the types: the row that the trial, the mirror's
\* write and the workspaces leave behind has the columns the queries ask for.
THEOREM TypeCorrect == Spec => []TypeOK
<1>1. Init => TypeOK
  BY InitTypes
<1>2. TypeOK /\ [Next]_vars => TypeOK'
  BY NextTypes
<1> QED
  BY <1>1, <1>2, PTL DEF Spec

\* What is decided on a row and what the queries ask for agree in every state,
\* for every length of trial, grace and retention: the lemma Agrees, of the row
\* the type invariant speaks of.
THEOREM Agreement == Spec => []QueriesAgree
<1>1. TypeOK => QueriesAgree
  <2> SUFFICES ASSUME TypeOK PROVE QueriesAgree
    OBVIOUS
  <2>1. user \in Row /\ today \in Nat
    BY DaysAssumption DEF TypeOK
  <2> QED
    BY <2>1, Agrees DEF QueriesAgree
<1> QED
  BY <1>1, TypeCorrect, PTL

-----------------------------------------------------------------------------
(***************************************************************************)
(* The dates.  Subscriptions are opened one after the other, so the last   *)
(* one made is the one the mirror shows, unless an attempt outranks it;    *)
(* what the account was entitled to, and what it was promised, ended no    *)
(* later than its trial or than the mirror of that last subscription says. *)
(***************************************************************************)

Last(s) == s \in Made /\ \A t \in Made : t <= s

\* Until when a subscription that is not active, nor an attempt, gives access.
AccessEnd(x) ==
    IF x.endedAt # Null THEN x.endedAt ELSE sooner(x.start + UnpaidGrace, x.end)

SubOK(x) ==
    /\ x.status = "none" => x = NoSub
    /\ x.status # "none" => x.start \in 1 .. today /\ x.end >= x.start /\ x.end # Null
    /\ x.status \in Live => x.endedAt = Null
    /\ x.status \in {"canceled", "incomplete_expired"} =>
         x.endedAt # Null /\ x.start <= x.endedAt /\ x.endedAt <= today

SubsInTurn ==
    \A t \in Made : \A s \in 1 .. t - 1 :
        s \in Made /\ sub[s].status \notin Live /\ sub[s].endedAt <= sub[t].start

\* The mirror of a row that is up to date.
Mirrors(u, x) ==
    /\ x.status = "active" => u.status = "ACTIVE"
    /\ x.status = "incomplete" => u.accessEndedAt >= x.start
    /\ x.status \notin {"active", "incomplete"} => u.accessEndedAt = AccessEnd(x)

MirrorDates ==
    /\ user.status \in UnpaidStatuses => user.accessEndedAt # Null /\ user.accessEndedAt <= today
    /\ user.accessEndedAt <= user.periodEnd \/ user.accessEndedAt <= today
    /\ ~Outranked => \A s \in Subs : Last(s) =>
         /\ ~owed /\ sync # NoSync => sync.seen = sub[s]
         /\ ~Behind => Mirrors(user, sub[s])

SyncOK ==
    sync # NoSync =>
        /\ SubOK(sync.seen) /\ (sync.trialEndsAt # Null => sync.trialConsumed)
        /\ \/ user.trialConsumed /\ ~sync.trialConsumed
           \/ sync.trialConsumed = user.trialConsumed /\ sync.trialEndsAt = user.trialEndsAt

TrialOK == user.trialEndsAt # Null => user.trialConsumed

\* The day d is not after access by the subscription ended.
Covers(x, d) ==
    \/ x.status = "active"
    \/ x.status = "incomplete" /\ d <= x.start
    \/ x.status \notin {"active", "incomplete"} /\ d <= AccessEnd(x)

\* Access was not over on day d, as far as the trial and the last subscription tell.
Held(d) ==
    /\ d <= today
    /\ ~erased /\ ~Outranked =>
         \/ d <= user.trialEndsAt
         \/ \E s \in Subs : Last(s) /\ Covers(sub[s], d)

\* The end of access that a mirror written today, or later, would show.
Bears(x, d) == x.status \in {"active", "incomplete"} \/ d <= AccessEnd(x)

SubscriptionEnd(u) == IF u.accessEndedAt # Null THEN u.accessEndedAt
                      ELSE IF u.status \in UnpaidStatuses THEN Null ELSE u.periodEnd

PromiseOK ==
    LET d == promised - CleanupGrace IN
    ~erased /\ ~Outranked =>
        \/ d <= user.trialEndsAt
        \/ /\ d <= today
           /\ hasActiveSubscription(user.status) \/ d <= SubscriptionEnd(user)
           /\ sync # NoSync => Bears(sync.seen, d)
           /\ \A s \in Subs : Last(s) => Bears(sub[s], d)

RetentionInv ==
    /\ TypeOK /\ (\A s \in Subs : SubOK(sub[s])) /\ SubsInTurn
    /\ TrialOK /\ SyncOK /\ MirrorDates /\ Held(entitled) /\ PromiseOK

LEMMA LiveIsLast ==
  ASSUME TypeOK, SubsInTurn, NEW s \in Subs, sub[s].status \in Live
  PROVE  Last(s)
<1>1. s \in Made
  BY DEF Made, Live
<1>2. ASSUME NEW t \in Made, ~(t <= s) PROVE FALSE
  <2>1. t \in Nat /\ s \in Nat /\ s \in 1 .. t - 1
    BY <1>2, DaysAssumption DEF Made, Subs
  <2> QED
    BY <2>1 DEF SubsInTurn
<1> QED
  BY <1>1, <1>2 DEF Last

LEMMA OneLast ==
  ASSUME NEW s \in Subs, NEW t \in Subs, Last(s), Last(t) PROVE s = t
<1>1. s \in Nat /\ t \in Nat /\ s <= t /\ t <= s
  BY DaysAssumption DEF Last, Subs
<1> QED
  BY <1>1

\* But for an attempt that outranks what was paid for, the authoritative subscription is
\* the last.
LEMMA AuthoritativeIsLast ==
  ASSUME TypeOK, SubsInTurn, ~Outranked, NEW s \in Subs, Authoritative(s)
  PROVE  Last(s)
<1>1. SUFFICES ASSUME NEW t \in Made, ~(t <= s) PROVE FALSE
  BY DEF Last, Authoritative
<1>2. s \in Nat /\ 1 <= s /\ t \in Nat /\ s < t /\ s \in Made /\ t \in Subs
  BY <1>1, DaysAssumption DEF Authoritative, Subs, Made
<1>3. s \in 1 .. t - 1 /\ s # t
  BY <1>2
<1>4. sub[s].status \notin Live
  BY <1>3 DEF SubsInTurn
<1>5. Priority(sub[s].status) > Priority(sub[t].status)
  BY <1>2, <1>3 DEF Authoritative
<1>6. sub[s].status \in SubStatuses \ {"none"} /\ sub[t].status \in SubStatuses \ {"none"}
  BY <1>2 DEF TypeOK, Subscription, Made
<1>7. ~(sub[s].status = "incomplete_expired" /\ sub[t].status = "canceled")
  BY <1>2 DEF Outranked
<1> QED
  BY <1>4, <1>5, <1>6, <1>7 DEF Priority, SubStatuses, Live

LEMMA EndTyped ==
  ASSUME NEW x \in Subscription, SubOK(x), x.status # "none", today \in Nat
  PROVE  /\ AccessEnd(x) \in Nat /\ AccessEnd(x) # Null
         /\ x.start \in Nat /\ x.end \in Nat /\ x.endedAt \in Nat
         /\ AccessEnd(x) <= x.end \/ AccessEnd(x) <= today
<1>1. x.start \in Nat /\ x.end \in Nat /\ x.endedAt \in Nat /\ x.start >= 1 /\ x.end >= x.start
      /\ x.status \in SubStatuses
  BY DEF SubOK, Subscription, Dates
<1>2. x.endedAt # Null => x.endedAt <= today
  BY <1>1 DEF SubOK, SubStatuses, Live
<1> QED
  BY <1>1, <1>2, DaysAssumption DEF AccessEnd, sooner, Null

\* A step that leaves the subscriptions, the row and the day alone.
LEMMA UntouchedHeld ==
  ASSUME NEW d \in Nat, Held(d), UNCHANGED <<today, user, sub, erased>>
  PROVE  Held(d)'
BY DEF Held, Outranked, Last, Made, Covers, AccessEnd

\* A subscription is written as the last one, covering today.
LEMMA Written ==
  ASSUME RetentionInv, NEW s \in Subs, NEW new \in Subscription, Writes(s, new),
         SubOK(new), new.status # "none", Covers(new, today),
         \/ /\ sub[s].status = "none" /\ 1 .. s - 1 \subseteq Made
            /\ \A t \in Subs : sub[t].status \notin Live
            /\ new.start = today
         \/ sub[s].status \in Live /\ new.start >= sub[s].start
  PROVE  /\ (\A t \in Subs : SubOK(sub[t]))' /\ SubsInTurn' /\ TrialOK' /\ SyncOK'
         /\ MirrorDates' /\ PromiseOK'
         /\ \A d \in Nat : Held(d) => Held(d)'
<1> USE DaysAssumption
<1>1. /\ sub' = [sub EXCEPT ![s] = new] /\ owed' = TRUE
      /\ UNCHANGED <<today, user, sync, erased, promised>>
      /\ sub \in [Subs -> Subscription] /\ today \in Nat
  BY DEF Writes, RetentionInv, TypeOK
<1>2. sub'[s] = new /\ (\A t \in Subs : t # s => sub'[t] = sub[t]) /\ sub' \in [Subs -> Subscription]
  BY <1>1
<1>3. (\A t \in Subs : SubOK(sub[t]))'
  BY <1>1, <1>2 DEF RetentionInv, SubOK
<1>4. Made' = Made \cup {s}
  BY <1>1, <1>2 DEF Made
<1>5. \A t \in Made : t <= s /\ (t = s => sub[s].status \in Live)
  <2> TAKE t \in Made
  <2>1. t \in Subs /\ t \in Nat /\ s \in Nat
    BY DEF Made, Subs
  <2>2. CASE sub[s].status \in Live
    BY <2>2, LiveIsLast DEF Last, RetentionInv
  <2>3. CASE sub[s].status = "none" /\ t > s
    <3>1. s \in 1 .. t - 1
      BY <2>1, <2>3 DEF Subs
    <3> QED
      BY <2>3, <3>1 DEF SubsInTurn, RetentionInv, Made
  <2>4. CASE sub[s].status = "none" /\ t = s
    BY <2>4 DEF Made
  <2> QED
    BY <2>1, <2>2, <2>3, <2>4
<1>6. Last(s)' /\ \A t \in Subs : Last(t)' => t = s
  <2>1. \A t \in Made' : t <= s /\ t \in Nat /\ s \in Nat
    BY <1>4, <1>5 DEF Subs, Made
  <2> QED
    BY <1>4, <2>1 DEF Last
<1>7. SubsInTurn'
  <2> SUFFICES ASSUME NEW t \in Made', NEW r \in 1 .. t - 1
               PROVE  r \in Made' /\ sub'[r].status \notin Live /\ sub'[r].endedAt <= sub'[t].start
    BY DEF SubsInTurn
  <2>1. t <= s /\ t \in Nat /\ r \in Nat /\ s \in Nat /\ r < t /\ r \in Subs /\ t \in Subs
    BY <1>4, <1>5 DEF Subs, Made
  <2>2. sub'[r] = sub[r] /\ r # s
    BY <1>2, <2>1
  <2>3. CASE t \in Made /\ t # s
    BY <1>2, <1>4, <2>1, <2>2, <2>3 DEF SubsInTurn, RetentionInv
  <2>4. CASE t = s /\ sub[s].status \in Live
    <3>1. s \in Made
      BY <2>4 DEF Made, Live
    <3>2. r \in Made /\ sub[r].status \notin Live /\ sub[r].endedAt <= sub[s].start
      BY <2>4, <3>1 DEF SubsInTurn, RetentionInv
    <3>3. sub[r].endedAt \in Nat /\ sub[s].start \in Nat /\ new.start \in Nat /\ new.start >= sub[s].start
      BY <1>1, <2>1, <2>4 DEF Subscription, Dates, Live
    <3> QED
      BY <1>2, <1>4, <2>2, <2>4, <3>2, <3>3
  <2>5. CASE t = s /\ sub[s].status = "none"
    <3>1. /\ r \in Made /\ sub[r].status \notin Live /\ new.start = today
      BY <2>1, <2>5 DEF Live
    <3>2. sub[r].endedAt <= today
      BY <1>1, <2>1, <3>1 DEF RetentionInv, SubOK, Made, Live, Subscription, SubStatuses
    <3> QED
      BY <1>2, <1>4, <2>2, <2>5, <3>1, <3>2
  <2> QED
    BY <1>4, <1>5, <2>3, <2>4, <2>5
<1>8. TrialOK' /\ SyncOK'
  BY <1>1 DEF RetentionInv, TrialOK, SyncOK, SubOK
<1>9. Outranked => Outranked'
  <2>1. sub[s].status \notin {"incomplete_expired", "canceled"}
    BY DEF Live
  <2> QED
    BY <1>2, <2>1 DEF Outranked
<1>10. MirrorDates'
  BY <1>1 DEF RetentionInv, MirrorDates, Behind
<1>11. ASSUME NEW d \in Int, d <= today PROVE Covers(new, d) /\ Bears(new, d)
  <2>1. AccessEnd(new) \in Nat /\ new.start \in Nat
    BY <1>1, EndTyped
  <2> QED
    BY <1>1, <1>11, <2>1 DEF Covers, Bears
<1>12. PromiseOK'
  <2> DEFINE d == promised - CleanupGrace
  <2>1. d \in Int /\ PromiseOK /\ promised' = promised
    BY <1>1 DEF RetentionInv, TypeOK, Dates
  <2>2. d <= today => \A t \in Subs : Last(t)' => Bears(sub'[t], d)
    BY <1>2, <1>6, <1>11, <2>1
  <2>3. sync # NoSync /\ Bears(sync.seen, d) => Bears(sync.seen, d)'
    BY <1>1 DEF Bears, AccessEnd
  <2> QED
    BY <1>1, <1>9, <2>1, <2>2, <2>3 DEF PromiseOK, Bears, AccessEnd
<1>13. ASSUME NEW d \in Nat, Held(d) PROVE Held(d)'
  <2>1. d <= today /\ Covers(sub'[s], d)
    BY <1>2, <1>11, <1>13 DEF Held
  <2> QED
    BY <1>1, <1>6, <2>1 DEF Held, Covers, AccessEnd
<1> QED
  BY <1>3, <1>7, <1>8, <1>10, <1>12, <1>13

LEMMA StripeKeeps ==
  ASSUME RetentionInv, Subscribe \/ \E s \in Subs : Pay(s) \/ Renew(s) \/ End(s)
  PROVE  /\ (\A t \in Subs : SubOK(sub[t]))' /\ SubsInTurn' /\ TrialOK' /\ SyncOK'
         /\ MirrorDates' /\ PromiseOK'
         /\ \A d \in Nat : Held(d) => Held(d)'
<1>1. today \in Nat /\ today >= 1 /\ Period \in Nat /\ Period >= 1 /\ UnpaidGrace \in Nat
      /\ \A s \in Subs : sub[s] \in Subscription
  BY DaysAssumption DEF RetentionInv, TypeOK
\* A new period, paid or not, covers today.
<1>2. ASSUME NEW status \in Live
      PROVE  /\ Opened(status) \in Subscription /\ SubOK(Opened(status))
             /\ Opened(status).status # "none" /\ Opened(status).start = today
             /\ Covers(Opened(status), today)
  <2> DEFINE x == Opened(status)
  <2>1. /\ x.status = status /\ x.start = today /\ x.end = today + Period /\ x.endedAt = Null
        /\ x \in Subscription
    BY <1>1 DEF Opened, Subscription, SubStatuses, Live, Dates, Null
  <2> HIDE DEF x
  <2>2. today <= AccessEnd(x)
    BY <1>1, <2>1 DEF AccessEnd, sooner
  <2>3. SubOK(x)
    BY <1>1, <2>1 DEF SubOK, Live, Null
  <2>4. Covers(x, today)
    BY <1>1, <2>1, <2>2 DEF Covers
  <2> QED
    BY <2>1, <2>3, <2>4 DEF Live, x
<1>3. CASE Subscribe
  <2>1. PICK s \in Subs, status \in {"incomplete", "active"} :
          sub[s].status = "none" /\ 1 .. s - 1 \subseteq Made /\ Writes(s, Opened(status))
    BY <1>3 DEF Subscribe
  <2>2. \A t \in Subs : sub[t].status \notin Live
    BY <1>3 DEF Subscribe
  <2>3. status \in Live
    BY DEF Live
  <2> QED
    BY <1>2, <2>1, <2>2, <2>3, Written
<1>4. ASSUME NEW s \in Subs, Pay(s) PROVE sub[s].status \in Live /\ SubOK(sub[s])
  BY <1>4 DEF Pay, Live, RetentionInv
<1>5. ASSUME NEW s \in Subs, Pay(s)
      PROVE  /\ (\A t \in Subs : SubOK(sub[t]))' /\ SubsInTurn' /\ TrialOK' /\ SyncOK'
             /\ MirrorDates' /\ PromiseOK'
             /\ \A d \in Nat : Held(d) => Held(d)'
  <2> DEFINE new == [sub[s] EXCEPT !.status = "active"]
  <2>1. /\ new \in Subscription /\ new.status = "active" /\ new.start = sub[s].start
        /\ new.end = sub[s].end /\ new.endedAt = sub[s].endedAt /\ sub[s].status \in Live
        /\ SubOK(sub[s]) /\ sub[s].start \in Nat
    BY <1>1, <1>4, <1>5 DEF Subscription, SubStatuses, Dates
  <2>2. Writes(s, new)
    BY <1>5 DEF Pay
  <2> HIDE DEF new
  <2>3. SubOK(new) /\ Covers(new, today)
    BY <2>1 DEF SubOK, Live, Covers
  <2> QED
    BY <2>1, <2>2, <2>3, Written
<1>6. ASSUME NEW s \in Subs, Renew(s)
      PROVE  /\ (\A t \in Subs : SubOK(sub[t]))' /\ SubsInTurn' /\ TrialOK' /\ SyncOK'
             /\ MirrorDates' /\ PromiseOK'
             /\ \A d \in Nat : Held(d) => Held(d)'
  <2>1. PICK status \in {sub[s].status, "past_due"} : Writes(s, Opened(status))
    BY <1>6 DEF Renew
  <2>2. sub[s].status \in Live /\ status \in Live
    BY <1>6, <2>1 DEF Renew, Live
  <2>3. sub[s].start \in Nat /\ sub[s].start <= today
    BY <1>1, <2>2 DEF RetentionInv, SubOK, Live, Subscription, Dates
  <2> QED
    BY <1>2, <2>1, <2>2, <2>3, Written
<1>7. ASSUME NEW s \in Subs, End(s)
      PROVE  /\ (\A t \in Subs : SubOK(sub[t]))' /\ SubsInTurn' /\ TrialOK' /\ SyncOK'
             /\ MirrorDates' /\ PromiseOK'
             /\ \A d \in Nat : Held(d) => Held(d)'
  <2> DEFINE status == IF sub[s].status = "incomplete" THEN "incomplete_expired" ELSE "canceled"
             new == [sub[s] EXCEPT !.endedAt = today, !.status = status]
  <2>1. status \in {"incomplete_expired", "canceled"}
    OBVIOUS
  <2>2. Writes(s, new) /\ sub[s].status \in Live
    BY <1>7 DEF End
  <2> HIDE DEF status
  <2>3. /\ new \in Subscription /\ new.status = status /\ new.start = sub[s].start
        /\ new.end = sub[s].end /\ new.endedAt = today
        /\ SubOK(sub[s]) /\ sub[s].start \in Nat
    BY <1>1, <2>1 DEF Subscription, SubStatuses, Dates, RetentionInv
  <2> HIDE DEF new
  <2>4. SubOK(new)
    BY <1>1, <2>1, <2>2, <2>3 DEF SubOK, Live, Null
  <2>5. AccessEnd(new) = today
    BY <1>1, <2>3 DEF AccessEnd, Null
  <2>6. Covers(new, today)
    BY <1>1, <2>1, <2>3, <2>5 DEF Covers
  <2> QED
    BY <2>1, <2>2, <2>3, <2>4, <2>6, Written
<1> QED
  BY <1>3, <1>5, <1>6, <1>7

\* The mirror is read, written, or fails.
LEMMA MirrorKeeps ==
  ASSUME RetentionInv, SyncRead \/ SyncWrite \/ SyncFails
  PROVE  /\ (\A t \in Subs : SubOK(sub[t]))' /\ SubsInTurn' /\ TrialOK' /\ SyncOK'
         /\ MirrorDates' /\ PromiseOK'
         /\ \A d \in Nat : Held(d) => Held(d)'
<1> USE DaysAssumption
<1>0. today \in Nat /\ today >= 1 /\ user \in Row /\ sub \in [Subs -> Subscription]
      /\ UNCHANGED <<today, sub, promised>>
  BY DEF RetentionInv, TypeOK, SyncRead, SyncWrite, SyncFails
<1>1. (\A t \in Subs : SubOK(sub[t]))' /\ SubsInTurn' /\ (Outranked' <=> Outranked)
      /\ \A t \in Subs : Last(t)' <=> Last(t)
  BY <1>0 DEF RetentionInv, SubOK, SubsInTurn, Made, Outranked, Last
<1>2. CASE SyncRead
  <2>1. PICK s \in Subs : /\ Authoritative(s)
                          /\ sync' = [seen |-> sub[s], trialEndsAt |-> user.trialEndsAt,
                                      trialConsumed |-> user.trialConsumed]
    BY <1>2 DEF SyncRead
  <2>2. UNCHANGED <<user, erased>> /\ owed' = FALSE /\ sync = NoSync
    BY <1>2 DEF SyncRead
  <2>3. ~Outranked => Last(s) /\ \A t \in Subs : Last(t) => t = s
    BY <2>1, AuthoritativeIsLast, OneLast DEF RetentionInv
  <2>4. sync'.seen = sub[s] /\ SubOK(sub[s]) /\ sub[s].status # "none" /\ NoSync.seen.status = "none"
    BY <2>1 DEF RetentionInv, Authoritative, Made, NoSync, NoSub
  <2>5. TrialOK' /\ SyncOK'
    BY <1>0, <2>1, <2>2, <2>4 DEF RetentionInv, TrialOK, SyncOK, SubOK
  <2>6. MirrorDates'
    <3>1. sync' # NoSync
      BY <2>4
    <3>2. ~Outranked => \A t \in Subs : Last(t) => sync'.seen = sub[t]
      BY <2>3, <2>4
    <3> QED
      BY <1>0, <1>1, <2>2, <3>1, <3>2 DEF RetentionInv, MirrorDates, Behind
  <2>7. PromiseOK'
    <3> DEFINE d == promised - CleanupGrace
    <3>1. ~Outranked /\ (\A t \in Subs : Last(t) => Bears(sub[t], d)) => Bears(sub[s], d)
      BY <2>3
    <3> QED
      BY <1>0, <1>1, <2>2, <2>4, <3>1 DEF RetentionInv, PromiseOK, Bears, AccessEnd
  <2>8. \A d \in Nat : Held(d) => Held(d)'
    BY <1>0, <2>2, UntouchedHeld
  <2> QED
    BY <1>1, <2>5, <2>6, <2>7, <2>8
<1>3. CASE SyncFails
  <2>1. UNCHANGED <<user, erased>> /\ owed' = TRUE /\ sync' = NoSync
    BY <1>3 DEF SyncFails
  <2>2. TrialOK' /\ SyncOK'
    BY <2>1 DEF RetentionInv, TrialOK, SyncOK
  <2>3. MirrorDates'
    BY <1>0, <2>1 DEF RetentionInv, MirrorDates, Behind
  <2>4. PromiseOK'
    BY <1>0, <1>1, <2>1 DEF RetentionInv, PromiseOK, Bears, AccessEnd
  <2>5. \A d \in Nat : Held(d) => Held(d)'
    BY <1>0, <2>1, UntouchedHeld
  <2> QED
    BY <1>1, <2>2, <2>3, <2>4, <2>5
<1>4. CASE SyncWrite
  <2> DEFINE x == sync.seen
  <2>1. /\ x \in Subscription /\ x.status # "none" /\ SubOK(x) /\ x.status \in SubStatuses
        /\ sync # NoSync /\ sync' = NoSync /\ owed' = owed
        /\ sync.trialEndsAt \in Nat /\ sync.trialConsumed \in BOOLEAN
    BY <1>4 DEF RetentionInv, TypeOK, SyncWrite, SyncOK, Subscription, Dates
  <2>2. /\ user'.status = mapStripeSubscriptionStatus(x.status) /\ user'.periodEnd = x.end
        /\ user'.trialEndsAt = sync.trialEndsAt /\ user'.trialConsumed = sync.trialConsumed
        /\ user'.accessEndedAt = accessEndedAt(x)
        /\ erased' = (erased \/ (user.trialConsumed /\ ~sync.trialConsumed))
    BY <1>4 DEF SyncWrite
  <2> HIDE DEF x
  <2>3. /\ x.status = "active" => user'.status = "ACTIVE" /\ user'.accessEndedAt = Null
        /\ x.status = "incomplete" => user'.accessEndedAt = today
        /\ x.status \notin {"active", "incomplete"} => user'.accessEndedAt = AccessEnd(x)
    BY <2>1, <2>2 DEF accessEndedAt, getInactiveBillingAccessEndedAt, mapStripeSubscriptionStatus,
       AccessEnd, SubOK, SubStatuses, Live, Null
  <2>4. /\ AccessEnd(x) \in Nat /\ AccessEnd(x) # Null /\ x.start \in Nat /\ x.end \in Nat
        /\ AccessEnd(x) <= x.end \/ AccessEnd(x) <= today
        /\ x.start <= today
    BY <1>0, <2>1, EndTyped DEF SubOK
  <2>5. user'.status \in UnpaidStatuses =>
          x.status = "incomplete" \/ (x.status = "incomplete_expired" /\ AccessEnd(x) <= today)
    BY <2>1, <2>2 DEF UnpaidStatuses, mapStripeSubscriptionStatus, SubStatuses, AccessEnd, SubOK
  <2>6. /\ user'.status \in UnpaidStatuses =>
             user'.accessEndedAt # Null /\ user'.accessEndedAt <= today
        /\ user'.accessEndedAt <= user'.periodEnd \/ user'.accessEndedAt <= today
    BY <1>0, <2>2, <2>3, <2>4, <2>5 DEF Null
  <2>7. MirrorDates'
    <3>1. Mirrors(user', x)
      BY <1>0, <2>3, <2>4 DEF Mirrors
    <3>2. ~Outranked /\ ~owed => \A t \in Subs : Last(t) => x = sub[t]
      BY <2>1 DEF RetentionInv, MirrorDates, x
    <3>3. ASSUME ~Outranked, NEW t \in Subs, Last(t), ~owed PROVE Mirrors(user', sub'[t])
      <4>1. x = sub[t] /\ sub' = sub
        BY <1>0, <3>2, <3>3
      <4> QED
        BY <3>1, <4>1
    <3>4. ~Behind' => ~owed
      BY <2>1 DEF Behind
    <3>5. \A t \in Subs : ~Outranked' /\ Last(t)' /\ ~Behind' => Mirrors(user', sub'[t])
      BY <1>1, <3>3, <3>4
    <3>6. today' = today
      BY <1>0
    <3> QED
      BY <2>1, <2>6, <3>5, <3>6 DEF MirrorDates, Mirrors, AccessEnd, NoSync, NoSub
  <2>8. TrialOK' /\ SyncOK'
    BY <2>1, <2>2 DEF RetentionInv, TrialOK, SyncOK, NoSync, x
  <2>9. ~erased' => ~erased /\ user'.trialEndsAt = user.trialEndsAt
    BY <2>1, <2>2 DEF RetentionInv, SyncOK
  <2>10. PromiseOK'
    <3> DEFINE d == promised - CleanupGrace
    <3>1. d \in Int
      BY DEF RetentionInv, TypeOK, Dates
    <3>2. d <= today /\ Bears(x, d) => hasActiveSubscription(user'.status) \/ d <= SubscriptionEnd(user')
      BY <1>0, <2>3, <2>4, <3>1 DEF Bears, hasActiveSubscription, SubscriptionEnd, Null
    <3>3. PromiseOK
      BY DEF RetentionInv
    <3>4. (\A t \in Subs : Last(t) => Bears(sub[t], d)) => (\A t \in Subs : Last(t) => Bears(sub[t], d))'
      BY <1>0, <1>1 DEF Bears, AccessEnd
    <3> QED
      BY <1>0, <1>1, <2>1, <2>9, <3>2, <3>3, <3>4 DEF PromiseOK, x
  <2>11. \A d \in Nat : Held(d) => Held(d)'
    BY <1>0, <1>1, <2>9 DEF Held, Covers, AccessEnd
  <2> QED
    BY <1>1, <2>7, <2>8, <2>10, <2>11
<1> QED
  BY <1>2, <1>3, <1>4

\* What the notice says is kept is what the row says; nothing says it while access by a
\* subscription lasts.
LEMMA NoticeKeeps ==
  ASSUME RetentionInv, ShowNotice
  PROVE  PromiseOK'
<1> USE DaysAssumption
<1>1. /\ UNCHANGED <<today, user, sub, owed, sync, erased>> /\ ~Behind
      /\ today \in Nat /\ user \in Row /\ promised \in Nat /\ sub \in [Subs -> Subscription]
  BY DEF RetentionInv, TypeOK, ShowNotice, Dates
<1>2. PICK joined \in BOOLEAN : promised' = getTrialNotice(user, joined, today).contentKeptUntil
  BY DEF ShowNotice
<1>3. promised' > promised
  BY DEF ShowNotice
<1> DEFINE kept == getStorageCleanupEligibleAt(user)
           e == SubscriptionEnd(user)
<1>4. promised' = kept /\ ~isPaidTier(user, today)
  <2>1. promised' # Null
    BY <1>1, <1>2, <1>3, NoticeIsADate DEF Dates, Null
  <2> QED
    BY <1>2, <2>1 DEF getTrialNotice, NoNotice
<1>5. /\ user.trialEndsAt \in Nat /\ user.accessEndedAt \in Nat /\ user.periodEnd \in Nat
      /\ e \in Nat
  BY <1>1 DEF Row, Dates, SubscriptionEnd, Null
<1>6. getBillingAccessEndDate(user) = later(e, user.trialEndsAt)
  BY <1>5 DEF getBillingAccessEndDate, SubscriptionEnd, later, Null
<1>7. e <= today
  BY <1>1, <1>4, <1>5 DEF RetentionInv, MirrorDates, isPaidTier, PeriodStands, SubscriptionEnd, Null
<1>8. kept = Null \/ kept = later(e, user.trialEndsAt) + CleanupGrace
  BY <1>6 DEF getStorageCleanupEligibleAt
<1> DEFINE d == promised' - CleanupGrace
<1>9. d \in Int /\ (d <= user.trialEndsAt \/ d = e)
  BY <1>4, <1>5, <1>8 DEF later, Null
<1>10. ASSUME ~Outranked, d = e, NEW s \in Subs, Last(s) PROVE Bears(sub[s], d)
  <2>1. Mirrors(user, sub[s])
    BY <1>1, <1>10 DEF RetentionInv, MirrorDates
  <2>2. CASE sub[s].status \notin {"active", "incomplete"}
    <3>1. user.accessEndedAt = AccessEnd(sub[s]) /\ AccessEnd(sub[s]) # Null
      BY <1>1, <1>10, <2>1, <2>2, EndTyped DEF Mirrors, RetentionInv, Last, Made
    <3> QED
      BY <1>5, <1>10, <3>1 DEF Bears, SubscriptionEnd
  <2> QED
    BY <2>2 DEF Bears
<1>11. sync = NoSync
  BY <1>1 DEF Behind
<1> HIDE DEF d, e, kept
<1>12. ASSUME ~Outranked, d = e
       PROVE  \A s \in Subs : Last(s)' => Bears(sub[s], d)
  BY <1>1, <1>10, <1>12 DEF Last, Made
<1> QED
  BY <1>1, <1>5, <1>7, <1>9, <1>11, <1>12
  DEF PromiseOK, Outranked, Bears, AccessEnd, d, e, SubscriptionEnd

LEMMA OwnerKeeps ==
  ASSUME RetentionInv,
         ClaimTrial \/ CreateWorkspace \/ ShowNotice \/ ListExpired \/ DeleteExpired \/ Tick
  PROVE  /\ (\A t \in Subs : SubOK(sub[t]))' /\ SubsInTurn' /\ TrialOK' /\ SyncOK'
         /\ MirrorDates' /\ PromiseOK'
         /\ \A d \in Nat : Held(d) => Held(d)'
<1> USE DaysAssumption
<1>0. /\ UNCHANGED <<sub, owed, sync, erased>>
      /\ today \in Nat /\ user \in Row /\ promised \in Nat /\ sub \in [Subs -> Subscription]
  <2>1. UNCHANGED <<sub, owed, sync, erased>>
    BY DEF ClaimTrial, CreateWorkspace, ShowNotice, ListExpired, DeleteExpired, Tick
  <2> QED
    BY <2>1 DEF RetentionInv, TypeOK, Dates
<1>1. SubsInTurn' /\ (Outranked' <=> Outranked) /\ (Behind' <=> Behind)
      /\ \A t \in Subs : Last(t)' <=> Last(t)
  BY <1>0 DEF RetentionInv, SubsInTurn, Made, Outranked, Behind, Last
<1>2. CASE UNCHANGED <<today, user>>
  <2>1. (\A t \in Subs : SubOK(sub[t]))' /\ TrialOK' /\ SyncOK'
    BY <1>0, <1>2 DEF RetentionInv, SubOK, TrialOK, SyncOK
  <2>2. MirrorDates'
    BY <1>0, <1>1, <1>2 DEF RetentionInv, MirrorDates, Mirrors, AccessEnd
  <2>3. \A d \in Nat : Held(d) => Held(d)'
    BY <1>0, <1>2, UntouchedHeld
  <2>4. ASSUME promised' = promised PROVE PromiseOK'
    BY <1>0, <1>1, <1>2, <2>4 DEF RetentionInv, PromiseOK, Bears, AccessEnd, SubscriptionEnd, hasActiveSubscription
  <2> QED
    BY <1>1, <2>1, <2>2, <2>3, <2>4, NoticeKeeps
    DEF ClaimTrial, CreateWorkspace, ListExpired, DeleteExpired, Tick
<1>3. CASE ClaimTrial
  <2> DEFINE end == getDefaultTrialEndsAt(today)
  <2>1. /\ user.trialEndsAt = Null /\ ~user.trialConsumed
        /\ user' = [user EXCEPT !.trialEndsAt = end, !.trialConsumed = TRUE]
        /\ UNCHANGED <<today, promised>>
    BY <1>3 DEF ClaimTrial
  <2>2. end \in Nat
    BY <1>0 DEF getDefaultTrialEndsAt
  <2> HIDE DEF end
  <2>3. /\ user'.trialEndsAt = end /\ user'.trialConsumed = TRUE /\ user'.status = user.status
        /\ user'.accessEndedAt = user.accessEndedAt /\ user'.periodEnd = user.periodEnd
    BY <1>0, <2>1 DEF Row
  <2>4. (\A t \in Subs : SubOK(sub[t]))' /\ TrialOK' /\ SyncOK'
    BY <1>0, <2>1, <2>3 DEF RetentionInv, SubOK, TrialOK, SyncOK
  <2>5. MirrorDates'
    BY <1>0, <1>1, <2>1, <2>3 DEF RetentionInv, MirrorDates, Mirrors, AccessEnd
  <2>6. ASSUME NEW d \in Int, d <= user.trialEndsAt PROVE d <= user'.trialEndsAt
    BY <2>1, <2>2, <2>3, <2>6 DEF Null
  <2>7. PromiseOK'
    <3> DEFINE d == promised - CleanupGrace
    <3>1. d \in Int /\ PromiseOK
      BY <1>0 DEF RetentionInv
    <3>2. d <= user.trialEndsAt => d <= user'.trialEndsAt
      BY <2>6, <3>1
    <3> QED
      BY <1>0, <1>1, <2>1, <2>3, <3>1, <3>2 DEF PromiseOK, Bears, AccessEnd, SubscriptionEnd
  <2>8. \A d \in Nat : Held(d) => Held(d)'
    BY <1>0, <1>1, <2>1, <2>6 DEF Held, Covers, AccessEnd
  <2> QED
    BY <1>1, <2>4, <2>5, <2>7, <2>8
<1>4. CASE Tick
  <2>1. today' = today + 1 /\ sync = NoSync /\ UNCHANGED <<user, promised>>
    BY <1>4 DEF Tick
  <2>2. (\A t \in Subs : SubOK(sub[t]))'
    <3> SUFFICES ASSUME NEW t \in Subs PROVE SubOK(sub[t])'
      OBVIOUS
    <3>1. SubOK(sub[t]) /\ sub[t].start \in Nat /\ sub[t].endedAt \in Nat
      BY <1>0 DEF RetentionInv, Subscription, Dates
    <3> QED
      BY <1>0, <2>1, <3>1 DEF SubOK
  <2>3. TrialOK' /\ SyncOK'
    BY <1>0, <2>1 DEF RetentionInv, TrialOK, SyncOK
  <2>4. user.accessEndedAt \in Nat
    BY <1>0 DEF Row, Dates
  <2>5. MirrorDates'
    BY <1>0, <1>1, <2>1, <2>4 DEF RetentionInv, MirrorDates, Mirrors, AccessEnd
  <2>6. \A d \in Int : d <= today => d <= today'
    BY <1>0, <2>1
  <2>7. PromiseOK'
    <3>1. promised - CleanupGrace \in Int /\ PromiseOK
      BY <1>0 DEF RetentionInv
    <3> QED
      BY <1>0, <1>1, <2>1, <2>6, <3>1 DEF PromiseOK, Bears, AccessEnd
  <2>8. \A d \in Nat : Held(d) => Held(d)'
    BY <1>0, <1>1, <2>1, <2>6 DEF Held, Covers, AccessEnd
  <2> QED
    BY <1>1, <2>2, <2>3, <2>5, <2>7, <2>8
<1> QED
  BY <1>2, <1>3, <1>4 DEF CreateWorkspace, ShowNotice, ListExpired, DeleteExpired

\* Who is entitled today has a trial or a last subscription that says so.
LEMMA EntitledIsHeld ==
  TypeOK /\ (\A s \in Subs : SubOK(sub[s])) /\ SubsInTurn /\ EntitledNow => Held(today)
<1> SUFFICES ASSUME TypeOK, \A s \in Subs : SubOK(sub[s]), SubsInTurn, EntitledNow
             PROVE  Held(today)
  OBVIOUS
<1> USE DaysAssumption
<1>0. today \in Nat /\ user \in Row /\ sub \in [Subs -> Subscription]
  BY DEF TypeOK
<1>1. CASE hasActiveTrial(user.trialEndsAt, today)
  BY <1>0, <1>1 DEF hasActiveTrial, Held, Row, Dates
<1>2. ASSUME NEW s \in Subs, sub[s].status = "active" PROVE Held(today)
  <2>1. Last(s) /\ Covers(sub[s], today)
    BY <1>2, LiveIsLast DEF Covers, Live
  <2> QED
    BY <1>0, <2>1 DEF Held
<1>3. ASSUME NEW s \in Subs, sub[s].status = "past_due",
             today < getInactiveBillingAccessEndedAt(sub[s], today)
      PROVE  Held(today)
  <2>1. Last(s) /\ sub[s] \in Subscription /\ SubOK(sub[s])
    BY <1>0, <1>3, LiveIsLast DEF Live
  <2>2. getInactiveBillingAccessEndedAt(sub[s], today) = AccessEnd(sub[s])
    BY <1>3, <2>1 DEF getInactiveBillingAccessEndedAt, AccessEnd
  <2>3. AccessEnd(sub[s]) \in Nat
    BY <1>0, <1>3, <2>1, EndTyped
  <2>4. Covers(sub[s], today)
    BY <1>0, <1>3, <2>2, <2>3 DEF Covers
  <2> QED
    BY <1>0, <2>1, <2>4 DEF Held
<1> QED
  BY <1>1, <1>2, <1>3 DEF EntitledNow

LEMMA RetentionInit == Init => RetentionInv
<1> SUFFICES ASSUME Init PROVE RetentionInv
  OBVIOUS
<1> USE DaysAssumption
<1>1. TypeOK
  BY InitTypes
<1>2. /\ today = 1 /\ sync = NoSync /\ owed = FALSE /\ promised = Null
      /\ \A s \in Subs : sub[s] = NoSub
      /\ entitled = IF user = Row0 THEN Null ELSE 1
      /\ user \in {Row0, [Row0 EXCEPT !.trialEndsAt = getDefaultTrialEndsAt(1),
                                      !.trialConsumed = TRUE]}
  BY DEF Init
<1>3. /\ user.status = "FREE" /\ user.accessEndedAt = Null /\ user.periodEnd = Null
      /\ user.trialEndsAt # Null => user.trialConsumed
      /\ user.trialEndsAt \in Nat /\ entitled <= user.trialEndsAt /\ entitled <= 1
  <2>1. CASE user = Row0
    BY <1>2, <2>1 DEF Row0, Null
  <2>2. CASE user = [Row0 EXCEPT !.trialEndsAt = getDefaultTrialEndsAt(1), !.trialConsumed = TRUE]
    <3>1. user.trialEndsAt = 1 + TrialDays /\ user.trialConsumed
      BY <2>2 DEF Row0, getDefaultTrialEndsAt
    <3>2. user.status = "FREE" /\ user.accessEndedAt = Null /\ user.periodEnd = Null
      BY <2>2 DEF Row0
    <3> QED
      BY <1>2, <3>1, <3>2 DEF Null
  <2> QED
    BY <1>2, <2>1, <2>2
<1>4. Made = {} /\ \A s \in Subs : SubOK(sub[s])
  BY <1>2 DEF Made, SubOK, NoSub, Live
<1>5. SubsInTurn /\ TrialOK /\ SyncOK
  BY <1>2, <1>3, <1>4 DEF SubsInTurn, TrialOK, SyncOK
<1>6. MirrorDates
  BY <1>2, <1>3, <1>4 DEF MirrorDates, Last, UnpaidStatuses, Null
<1>7. Held(entitled)
  BY <1>2, <1>3 DEF Held
<1>8. PromiseOK
  BY <1>2, <1>3 DEF PromiseOK, Null
<1> QED
  BY <1>1, <1>4, <1>5, <1>6, <1>7, <1>8 DEF RetentionInv

LEMMA RetentionStep ==
  ASSUME RetentionInv, [Next]_vars PROVE RetentionInv'
<1>1. TypeOK'
  BY NextTypes DEF RetentionInv
<1>2. CASE Next
  <2>1. /\ (\A t \in Subs : SubOK(sub[t]))' /\ SubsInTurn' /\ TrialOK' /\ SyncOK'
        /\ MirrorDates' /\ PromiseOK'
        /\ \A d \in Nat : Held(d) => Held(d)'
    BY <1>2, StripeKeeps, MirrorKeeps, OwnerKeeps DEF Next, Step
  <2>2. Held(entitled)'
    <3>1. CASE EntitledNow'
      <4>1. (TypeOK /\ (\A s \in Subs : SubOK(sub[s])) /\ SubsInTurn /\ EntitledNow
                => Held(today))'
        BY EntitledIsHeld, PTL
      <4>2. entitled' = today'
        BY <1>2, <3>1 DEF Next
      <4> QED
        BY <1>1, <2>1, <3>1, <4>1, <4>2 DEF Held, Covers, AccessEnd
    <3>2. CASE ~EntitledNow'
      <4>1. entitled' = entitled /\ entitled \in Nat /\ Held(entitled)
        BY <1>2, <3>2 DEF Next, RetentionInv, TypeOK, Dates
      <4>2. \A d \in Nat : d = entitled => Held(d)
        BY <4>1
      <4> QED
        BY <2>1, <4>1, <4>2 DEF Held, Covers, AccessEnd
    <3> QED
      BY <3>1, <3>2
  <2> QED
    BY <1>1, <2>1, <2>2 DEF RetentionInv
<1>3. CASE UNCHANGED vars
  BY <1>1, <1>3 DEF vars, RetentionInv, SubOK, SubsInTurn, Made, TrialOK, SyncOK, MirrorDates,
     Mirrors, Outranked, Last, Behind, Held, Covers, PromiseOK, Bears, AccessEnd, SubscriptionEnd
<1> QED
  BY <1>2, <1>3

\* Whom the cleanup lists: access ended, and the retention after it is over.
LEMMA ListedIsOver ==
  ASSUME RetentionInv, [Next]_vars, Listing
  PROVE  LET end == later(SubscriptionEnd(user), user.trialEndsAt) IN
         /\ ~hasActiveSubscription(user.status) /\ end \in Nat /\ end + CleanupGrace <= today
         /\ user.trialEndsAt \in Nat /\ SubscriptionEnd(user) \in Nat
<1> USE DaysAssumption
<1>1. ListExpired
  BY DEF Listing, Next, Step, vars, ClaimTrial, CreateWorkspace, ShowNotice, Subscribe, Pay, Renew,
     End, Writes, SyncRead, SyncWrite, SyncFails, DeleteExpired, Tick
<1>2. user \in Row /\ today \in Nat
  BY DEF RetentionInv, TypeOK
<1>3. ~hasActiveSubscription(user.status) /\ lte(getStorageCleanupEligibleAt(user), today)
  BY <1>1, <1>2, ExpiryAgrees DEF ListExpired
<1>4. user.trialEndsAt \in Nat /\ user.accessEndedAt \in Nat /\ user.periodEnd \in Nat
      /\ SubscriptionEnd(user) \in Nat
  BY <1>2 DEF Row, Dates, SubscriptionEnd, Null
<1>5. getBillingAccessEndDate(user) = later(SubscriptionEnd(user), user.trialEndsAt)
  BY <1>4 DEF getBillingAccessEndDate, SubscriptionEnd, later, Null
<1>6. later(SubscriptionEnd(user), user.trialEndsAt) \in Nat
  BY <1>4 DEF later
<1> QED
  BY <1>2, <1>3, <1>4, <1>5, <1>6 DEF getStorageCleanupEligibleAt, lte, Null

\* The cleanup lists nobody before the retention is over that began with the last day
\* of access, but for news, an erased trial and an attempt that outranks what was paid
\* for (buildExpiredBillingWhereInput, syncStripeCustomerSubscriptions).
THEOREM RetentionHolds == Spec => RetentionRuns
<1>1. ASSUME RetentionInv, [Next]_vars
      PROVE  [(Listing /\ ~Behind /\ ~erased /\ ~Outranked) =>
                entitled + CleanupGrace <= today]_vars
  <2> SUFFICES ASSUME Listing, ~Behind, ~erased, ~Outranked
               PROVE  entitled + CleanupGrace <= today
    OBVIOUS
  <2> DEFINE e == SubscriptionEnd(user)
  <2>1. /\ ~hasActiveSubscription(user.status) /\ later(e, user.trialEndsAt) + CleanupGrace <= today
        /\ e \in Nat /\ user.trialEndsAt \in Nat
    BY <1>1, ListedIsOver
  <2>2. entitled \in Nat /\ today \in Nat /\ user \in Row /\ sub \in [Subs -> Subscription]
    BY <1>1, DaysAssumption DEF RetentionInv, TypeOK, Dates
  <2>3. CASE entitled <= user.trialEndsAt
    BY <2>1, <2>2, <2>3, DaysAssumption DEF later
  <2>4. ASSUME NEW s \in Subs, Last(s), Covers(sub[s], entitled) PROVE entitled <= e
    <3>1. Mirrors(user, sub[s]) /\ sub[s].status # "none" /\ SubOK(sub[s])
      BY <1>1, <2>4 DEF RetentionInv, MirrorDates, Last, Made
    <3>2. AccessEnd(sub[s]) \in Nat \ {0} /\ sub[s].start \in Nat /\ sub[s].start >= 1
      BY <2>2, <3>1, EndTyped DEF SubOK, Null
    <3>3. user.accessEndedAt \in Nat
      BY <2>2 DEF Row, Dates
    <3>4. user.accessEndedAt # Null /\ entitled <= user.accessEndedAt
      BY <2>1, <2>2, <2>4, <3>1, <3>2, <3>3 DEF Covers, Mirrors, hasActiveSubscription, Null
    <3> QED
      BY <3>4 DEF SubscriptionEnd
  <2>5. CASE entitled <= e
    BY <2>1, <2>2, <2>5, DaysAssumption DEF later
  <2> QED
    BY <1>1, <2>3, <2>4, <2>5 DEF RetentionInv, Held
<1> QED
  BY <1>1, RetentionInit, RetentionStep, PTL DEF Spec, RetentionRuns

\* Nor before the day that a notice gave to the owner (getTrialNotice), whether or not
\* the mirror has heard the news.
THEOREM PromiseHolds == Spec => KeptAsPromised
<1>1. ASSUME RetentionInv, [Next]_vars
      PROVE  [(Listing /\ ~erased /\ ~Outranked) => promised <= today]_vars
  <2> SUFFICES ASSUME Listing, ~erased, ~Outranked
               PROVE  promised <= today
    OBVIOUS
  <2> DEFINE e == SubscriptionEnd(user)
  <2>1. /\ ~hasActiveSubscription(user.status) /\ later(e, user.trialEndsAt) + CleanupGrace <= today
        /\ e \in Nat /\ user.trialEndsAt \in Nat
    BY <1>1, ListedIsOver
  <2>2. promised \in Nat /\ today \in Nat /\ CleanupGrace \in Nat
    BY <1>1, DaysAssumption DEF RetentionInv, TypeOK, Dates
  <2>3. promised - CleanupGrace <= user.trialEndsAt \/ promised - CleanupGrace <= e
    BY <1>1, <2>1 DEF RetentionInv, PromiseOK
  <2> HIDE DEF e
  <2> QED
    BY <2>1, <2>2, <2>3 DEF later
<1> QED
  BY <1>1, RetentionInit, RetentionStep, PTL DEF Spec, KeptAsPromised

-----------------------------------------------------------------------------
(* Seats.                                                                  *)

Steps == {"idle", "invite", "create", "reread", "apply", "applyNew", "undo", "cancel"}

\* What a request in each step knows of an invitation.
Knows(r) ==
  /\ at[r] \in {"create", "reread", "apply", "applyNew", "cancel"} =>
       on[r] \in Invites /\ invite[on[r]] # None
  /\ at[r] \in {"invite", "apply", "applyNew"} => seen[r] \in Seats!Row

SeatInv ==
  /\ scope \in {"WIDE", "NARROW"}
  /\ invite \in [Invites -> Seats!Row \cup {None}]
  /\ at \in [Requests -> Steps]
  /\ on \in [Requests -> Invites \cup {None}]
  /\ seen \in [Requests -> Seats!Row \cup {None}]
  /\ \A r \in Requests : Knows(r)

LEMMA RoleFacts ==
  /\ \A m : Seats!Rank(m) \in {0, 1, 2}
  /\ Seats!Rank(None) = 0 /\ Seats!Rank("COMMENTATOR") = 1 /\ Seats!Rank("ADMIN") = 2
BY SharedAssumption DEF Seats!Rank

\* A row whose status is set.
LEMMA StatusFacts ==
  ASSUME invite \in [Invites -> Seats!Row \cup {None}], NEW i \in Invites, invite[i] # None,
         NEW s \in {"PENDING", "ACCEPTED", "EXPIRED", "CANCELED"}
  PROVE  /\ Seats!Status(i, s) \in [Invites -> Seats!Row \cup {None}]
         /\ Seats!Status(i, s)[i] \in Seats!Row /\ Seats!Status(i, s)[i].status = s
         /\ \A j \in Invites : j # i => Seats!Status(i, s)[j] = invite[j]
<1>1. invite[i] \in Seats!Row
  OBVIOUS
<1>2. [invite[i] EXCEPT !.status = s] \in Seats!Row
      /\ [invite[i] EXCEPT !.status = s].status = s
  BY <1>1 DEF Seats!Row
<1>3. Seats!Status(i, s) = [invite EXCEPT ![i] = [invite[i] EXCEPT !.status = s]]
  BY DEF Seats!Status
<1> QED
  BY <1>2, <1>3

\* The rows an invitation leaves: none goes away, and none becomes accepted.
RowsKept ==
  /\ invite' \in [Invites -> Seats!Row \cup {None}]
  /\ \A i \in Invites : invite[i] # None => invite'[i] # None
NoneAccepted ==
  \A i \in Invites : invite'[i] # None /\ invite'[i].status = "ACCEPTED" =>
    invite[i] # None /\ invite[i].status = "ACCEPTED"

LEMMA RefreshFacts ==
  ASSUME invite \in [Invites -> Seats!Row \cup {None}], NEW role \in Seats!InviteRole,
         Seats!Refresh(role)
  PROVE  RowsKept /\ NoneAccepted
<1> DEFINE due == [i \in Invites |->
                     IF invite[i] # None /\ invite[i].status = "PENDING" /\ invite[i].late
                     THEN [invite[i] EXCEPT !.status = "EXPIRED"] ELSE invite[i]]
           open == {i \in Invites : Seats!Open(i)}
<1>0. None \notin Seats!Row
  BY NoneIsNoInvitation
<1>1. ASSUME NEW i \in Invites
      PROVE  /\ due[i] \in Seats!Row \cup {None} /\ (invite[i] # None => due[i] \in Seats!Row)
             /\ due[i] \in Seats!Row /\ due[i].status = "ACCEPTED" =>
                  invite[i] # None /\ invite[i].status = "ACCEPTED"
             /\ invite[i] = None => due[i] = None
  <2>1. CASE invite[i] # None /\ invite[i].status = "PENDING" /\ invite[i].late
    <3>1. due[i] = [invite[i] EXCEPT !.status = "EXPIRED"] /\ invite[i] \in Seats!Row
      BY <2>1
    <3>2. due[i] \in Seats!Row /\ due[i].status = "EXPIRED"
      BY <3>1 DEF Seats!Row
    <3> QED
      BY <2>1, <3>2
  <2>2. CASE ~(invite[i] # None /\ invite[i].status = "PENDING" /\ invite[i].late)
    <3>1. due[i] = invite[i]
      BY <2>2
    <3> QED
      BY <1>0, <3>1
  <2> QED
    BY <2>1, <2>2
<1>2. DOMAIN due = Invites
  OBVIOUS
<1>3. \/ invite' = [i \in Invites |-> IF i \in open THEN [due[i] EXCEPT !.role = role]
                      ELSE due[i]]
      \/ \E i \in Invites : invite[i] = None /\ invite' = [due EXCEPT ![i] = Seats!Fresh(role)]
  BY DEF Seats!Refresh
<1>4. ASSUME NEW i \in open
      PROVE  i \in Invites /\ invite[i] # None /\ invite[i].status = "PENDING"
             /\ due[i] = invite[i]
  BY DEF Seats!Open
<1>5. due \in [Invites -> Seats!Row \cup {None}]
  BY <1>1
<1> HIDE DEF due, open
<1>6. CASE invite' = [i \in Invites |-> IF i \in open THEN [due[i] EXCEPT !.role = role]
                        ELSE due[i]]
  <2>1. ASSUME NEW i \in Invites
        PROVE  /\ invite'[i] \in Seats!Row \cup {None}
               /\ (invite[i] # None => invite'[i] \in Seats!Row)
               /\ invite'[i] \in Seats!Row /\ invite'[i].status = "ACCEPTED" =>
                       invite[i] # None /\ invite[i].status = "ACCEPTED"
    <3>1. CASE i \in open
      <4>1. invite'[i] = [due[i] EXCEPT !.role = role] /\ due[i] \in Seats!Row
            /\ due[i].status = "PENDING"
        BY <3>1, <1>1, <1>4, <1>6
      <4>2. invite'[i] \in Seats!Row /\ invite'[i].status = "PENDING"
        BY <4>1 DEF Seats!Row
      <4> QED
        BY <4>2
    <3>2. CASE i \notin open
      <4>1. invite'[i] = due[i]
        BY <3>2, <1>6
      <4> QED
        BY <4>1, <1>1
    <3> QED
      BY <3>1, <3>2
  <2> QED
    BY <1>0, <1>6, <2>1 DEF RowsKept, NoneAccepted
<1>7. ASSUME NEW i \in Invites, invite[i] = None,
             invite' = [due EXCEPT ![i] = Seats!Fresh(role)]
      PROVE  RowsKept /\ NoneAccepted
  <2>1. Seats!Fresh(role) \in Seats!Row /\ Seats!Fresh(role).status = "PENDING"
    BY DEF Seats!Fresh, Seats!Row
  <2>2. invite'[i] = Seats!Fresh(role) /\ \A j \in Invites : j # i => invite'[j] = due[j]
    BY <1>5, <1>7
  <2>3. invite' \in [Invites -> Seats!Row \cup {None}]
    BY <1>5, <1>7, <2>1
  <2> QED
    BY <1>0, <1>1, <1>7, <2>1, <2>2, <2>3 DEF RowsKept, NoneAccepted
<1> QED
  BY <1>3, <1>6, <1>7

\* What a step does to the place, told apart as far as the properties can tell.
Admits == \E i \in Invites : /\ invite[i] # None /\ invite'[i] \in Seats!Row
                             /\ invite'[i].status = "ACCEPTED"
                             /\ scope = "NARROW" => Seats!Open(i)
                             /\ Seats!Rank(member') >= Seats!Rank(member)
Moves ==
  /\ RowsKept /\ scope' = scope
  /\ \/ Admits
     \/ /\ NoneAccepted
        /\ Seats!Rank(member') <= Seats!Rank(member) \/ scope = "WIDE"

-----------------------------------------------------------------------------
(* What the requests know stays true.                                      *)

LEMMA SameRequests ==
  ASSUME SeatInv, RowsKept, scope' = scope, UNCHANGED <<at, on, seen>>
  PROVE  SeatInv'
BY DEF SeatInv, RowsKept, Knows

LEMMA OneRequest ==
  ASSUME SeatInv, RowsKept, scope' = scope, NEW r \in Requests, NEW step \in Steps,
         NEW i \in Invites \cup {None}, NEW s \in Seats!Row \cup {None},
         at' = [at EXCEPT ![r] = step], on' = [on EXCEPT ![r] = i],
         seen' = [seen EXCEPT ![r] = s],
         step \in {"create", "reread", "apply", "applyNew", "cancel"} =>
           i \in Invites /\ invite'[i] # None,
         step \in {"invite", "apply", "applyNew"} => s \in Seats!Row
  PROVE  SeatInv'
<1>1. /\ at' \in [Requests -> Steps] /\ on' \in [Requests -> Invites \cup {None}]
      /\ seen' \in [Requests -> Seats!Row \cup {None}]
  BY DEF SeatInv
<1>2. ASSUME NEW q \in Requests
      PROVE  /\ at'[q] \in {"create", "reread", "apply", "applyNew", "cancel"} =>
                  on'[q] \in Invites /\ invite'[on'[q]] # None
             /\ at'[q] \in {"invite", "apply", "applyNew"} => seen'[q] \in Seats!Row
  <2>1. CASE q = r
    BY <2>1 DEF SeatInv
  <2>2. CASE q # r
    <3>1. at'[q] = at[q] /\ on'[q] = on[q] /\ seen'[q] = seen[q]
      BY <2>2 DEF SeatInv
    <3> QED
      BY <3>1 DEF SeatInv, Knows, RowsKept
  <2> QED
    BY <2>1, <2>2
<1> QED
  BY <1>1, <1>2 DEF SeatInv, RowsKept, Knows

LEMMA DoneRequest ==
  ASSUME SeatInv, RowsKept, scope' = scope, NEW r \in Requests, Seats!Done(r)
  PROVE  SeatInv'
BY OneRequest DEF Seats!Done, Steps

\* A step that leaves what the request is about.
LEMMA NextStep ==
  ASSUME SeatInv, RowsKept, scope' = scope, NEW r \in Requests, NEW step \in Steps,
         at' = [at EXCEPT ![r] = step], UNCHANGED <<on, seen>>,
         step \in {"create", "reread", "apply", "applyNew", "cancel"} =>
           on[r] \in Invites /\ invite'[on[r]] # None,
         step \in {"invite", "apply", "applyNew"} => seen[r] \in Seats!Row
  PROVE  SeatInv'
<1>1. PICK i \in Invites \cup {None}, s \in Seats!Row \cup {None} : i = on[r] /\ s = seen[r]
  BY DEF SeatInv
<1>2. on' = [on EXCEPT ![r] = i] /\ seen' = [seen EXCEPT ![r] = s]
  BY <1>1 DEF SeatInv
<1>3. step \in {"create", "reread", "apply", "applyNew", "cancel"} =>
        i \in Invites /\ invite'[i] # None
  BY <1>1
<1> QED
  BY <1>1, <1>2, <1>3, OneRequest

LEMMA FinishRequest ==
  ASSUME SeatInv, RowsKept, scope' = scope, NEW r \in Requests, NEW accepted,
         Seats!Finish(r, accepted)
  PROVE  SeatInv'
BY DoneRequest, NextStep DEF Seats!Finish, Steps

LEMMA ReadRequest ==
  ASSUME SeatInv, NEW r \in Requests, NEW i \in Invites, invite[i] # None,
         NEW step \in {"apply", "applyNew", "cancel"}, Seats!Read(r, i, step)
  PROVE  SeatInv'
<1>1. RowsKept /\ invite'[i] # None /\ invite[i] \in Seats!Row
  BY DEF Seats!Read, SeatInv, RowsKept
<1> QED
  BY <1>1, OneRequest DEF Seats!Read, Steps

\* A status that is set moves nothing else.
LEMMA StatusSet ==
  ASSUME invite \in [Invites -> Seats!Row \cup {None}], NEW i \in Invites, invite[i] # None,
         NEW s \in {"PENDING", "ACCEPTED", "EXPIRED", "CANCELED"}, invite' = Seats!Status(i, s)
  PROVE  /\ RowsKept /\ invite'[i] \in Seats!Row /\ invite'[i].status = s
         /\ s # "ACCEPTED" => NoneAccepted
<1>1. None \notin Seats!Row
  BY NoneIsNoInvitation
<1> QED
  BY <1>1, StatusFacts DEF RowsKept, NoneAccepted

-----------------------------------------------------------------------------
(* Step by step.                                                           *)

LEMMA QuietMoves ==
  ASSUME SeatInv, invite' = invite, scope' = scope,
         Seats!Rank(member') <= Seats!Rank(member) \/ scope = "WIDE"
  PROVE  Moves /\ RowsKept
BY DEF SeatInv, Moves, RowsKept, NoneAccepted

LEMMA SameMember == member' = member => Seats!Rank(member') <= Seats!Rank(member)
BY RoleFacts

LEMMA InvitingStep ==
  ASSUME SeatInv, NEW r \in Requests,
         \/ \E role \in Seats!InviteRole :
               Seats!InviteWideCheck(r, role) \/ Seats!InviteNarrow(role)
         \/ Seats!InviteWide(r)
  PROVE  SeatInv' /\ Moves
<1>1. ASSUME NEW role \in Seats!InviteRole, Seats!InviteWideCheck(r, role)
      PROVE  SeatInv' /\ Moves
  <2>1. Seats!Fresh(role) \in Seats!Row
    BY DEF Seats!Fresh, Seats!Row
  <2>2. Moves /\ RowsKept
    BY <1>1, QuietMoves DEF Seats!InviteWideCheck
  <2>3. on' = [on EXCEPT ![r] = on[r]] /\ on[r] \in Invites \cup {None}
    BY <1>1 DEF Seats!InviteWideCheck, SeatInv
  <2> QED
    BY <1>1, <2>1, <2>2, <2>3, OneRequest DEF Seats!InviteWideCheck, Steps
<1>2. ASSUME NEW role \in Seats!InviteRole, Seats!Refresh(role), UNCHANGED <<scope, member>>
      PROVE  RowsKept /\ Moves
  BY <1>2, RefreshFacts, SameMember DEF Moves, SeatInv
<1>3. ASSUME NEW role \in Seats!InviteRole, Seats!InviteNarrow(role)
      PROVE  SeatInv' /\ Moves
  BY <1>2, <1>3, SameRequests DEF Seats!InviteNarrow
<1>4. CASE Seats!InviteWide(r)
  <2>1. seen[r].role \in Seats!InviteRole
    BY <1>4 DEF Seats!InviteWide, SeatInv, Knows, Seats!Row
  <2> QED
    BY <1>2, <1>4, <2>1, DoneRequest DEF Seats!InviteWide
<1> QED
  BY <1>1, <1>3, <1>4

LEMMA ReadingStep ==
  ASSUME SeatInv, NEW r \in Requests,
         \/ \E i \in Invites :
               Seats!AcceptRead(r, i) \/ Seats!Register(r, i) \/ Seats!CancelWideCheck(r, i)
         \/ Seats!RegisterCreate(r) \/ Seats!RegisterRead(r) \/ Seats!RegisterUndo(r)
         \/ Seats!Crash(r)
  PROVE  SeatInv' /\ Moves
<1>1. /\ invite' = invite /\ scope' = scope
      /\ member' = member \/ member' = None
  BY DEF Seats!AcceptRead, Seats!Register, Seats!CancelWideCheck, Seats!RegisterCreate,
     Seats!RegisterRead, Seats!RegisterUndo,
         Seats!Crash, Seats!Read, Seats!Done
<1>2. Moves /\ RowsKept
  BY <1>1, QuietMoves, RoleFacts
<1>3. ASSUME NEW i \in Invites, Seats!AcceptRead(r, i) \/ Seats!CancelWideCheck(r, i)
      PROVE  SeatInv'
  BY <1>3, ReadRequest DEF Seats!AcceptRead, Seats!CancelWideCheck
<1>4. ASSUME NEW i \in Invites, Seats!Register(r, i)
      PROVE  SeatInv'
  <2>1. seen' = [seen EXCEPT ![r] = seen[r]] /\ seen[r] \in Seats!Row \cup {None}
    BY <1>4 DEF Seats!Register, SeatInv
  <2>2. invite'[i] # None
    BY <1>4 DEF Seats!Register, Seats!Open
  <2> QED
    BY <1>1, <1>2, <1>4, <2>1, <2>2, OneRequest DEF Seats!Register, Steps
<1>5. CASE Seats!RegisterCreate(r)
  BY <1>1, <1>2, <1>5, DoneRequest, NextStep DEF Seats!RegisterCreate, SeatInv, Knows, Steps
<1>6. CASE Seats!RegisterRead(r)
  <2>1. on[r] \in Invites /\ invite[on[r]] # None
    BY <1>6 DEF Seats!RegisterRead, SeatInv, Knows
  <2> QED
    BY <1>1, <1>2, <1>6, <2>1, ReadRequest, NextStep DEF Seats!RegisterRead, Steps
<1>7. CASE Seats!RegisterUndo(r) \/ Seats!Crash(r)
  BY <1>1, <1>2, <1>7, DoneRequest DEF Seats!RegisterUndo, Seats!Crash
<1> QED
  BY <1>2, <1>3, <1>4, <1>5, <1>6, <1>7

LEMMA GrantStep ==
  ASSUME SeatInv, NEW r \in Requests, Seats!Apply(r)
  PROVE  SeatInv' /\ Moves
<1> DEFINE i == on[r]
<1>0. i \in Invites /\ invite[i] # None /\ invite \in [Invites -> Seats!Row \cup {None}]
      /\ scope' = scope
  BY DEF Seats!Apply, SeatInv, Knows
<1>1. CASE invite' = Seats!Status(i, "EXPIRED") /\ Seats!Finish(r, FALSE) /\ UNCHANGED member
  <2>1. RowsKept /\ NoneAccepted
    BY <1>0, <1>1, StatusSet
  <2> QED
    BY <1>0, <1>1, <2>1, SameMember, FinishRequest DEF Moves
<1>2. CASE Seats!Grant(i, seen[r].role) /\ Seats!Finish(r, TRUE)
  <2>1. invite' = Seats!Status(i, "ACCEPTED") /\ (scope = "NARROW" => Seats!Open(i))
    BY <1>2 DEF Seats!Grant, Seats!Claim
  <2>2. RowsKept /\ invite'[i] \in Seats!Row /\ invite'[i].status = "ACCEPTED"
    BY <1>0, <2>1, StatusSet
  <2>3. Seats!Rank(member') >= Seats!Rank(member)
    BY <1>2, RoleFacts DEF Seats!Grant, Seats!Upsert
  <2>4. Moves
    BY <1>0, <2>1, <2>2, <2>3 DEF Moves, Admits
  <2> QED
    BY <1>0, <1>2, <2>2, <2>4, FinishRequest
<1>3. CASE Seats!Finish(r, FALSE) /\ UNCHANGED <<invite, member>>
  BY <1>0, <1>3, QuietMoves, SameMember, FinishRequest
<1> QED
  BY <1>1, <1>2, <1>3 DEF Seats!Apply

LEMMA PlaceStep ==
  ASSUME SeatInv,
         \/ \E r \in Requests : Seats!CancelWide(r)
         \/ \E role \in Seats!InviteRole : Seats!SetRole(role)
         \/ \E i \in Invites : Seats!RevokeNarrow(i) \/ Seats!AWeekPasses(i)
         \/ Seats!RemoveMember \/ Seats!ChangePlan \/ Seats!Demote
  PROVE  SeatInv' /\ Moves
<1>0. invite \in [Invites -> Seats!Row \cup {None}]
  BY DEF SeatInv
<1>1. ASSUME NEW r \in Requests, Seats!CancelWide(r)
      PROVE  SeatInv' /\ Moves
  <2>1. on[r] \in Invites /\ invite[on[r]] # None
    BY <1>1 DEF Seats!CancelWide, SeatInv, Knows
  <2>2. RowsKept /\ NoneAccepted
    BY <1>0, <1>1, <2>1, StatusSet DEF Seats!CancelWide
  <2> QED
    BY <1>1, <2>2, SameMember, DoneRequest DEF Seats!CancelWide, Moves
<1>2. ASSUME NEW i \in Invites, Seats!RevokeNarrow(i)
      PROVE  SeatInv' /\ Moves
  <2>1. RowsKept /\ NoneAccepted
    BY <1>0, <1>2, StatusSet DEF Seats!RevokeNarrow
  <2> QED
    BY <1>2, <2>1, SameMember, SameRequests DEF Seats!RevokeNarrow, Moves
<1>3. ASSUME NEW i \in Invites, Seats!AWeekPasses(i)
      PROVE  SeatInv' /\ Moves
  <2>1. invite[i] \in Seats!Row /\ invite[i] # None /\ None \notin Seats!Row
    BY <1>0, <1>3, NoneIsNoInvitation DEF Seats!AWeekPasses, Seats!Open
  <2>2. invite' = [invite EXCEPT ![i] = [invite[i] EXCEPT !.late = TRUE]]
    BY <1>3 DEF Seats!AWeekPasses
  <2>3. [invite[i] EXCEPT !.late = TRUE] \in Seats!Row
        /\ [invite[i] EXCEPT !.late = TRUE].status = invite[i].status
    BY <2>1 DEF Seats!Row
  <2>4. RowsKept /\ NoneAccepted
    BY <1>0, <2>1, <2>2, <2>3 DEF RowsKept, NoneAccepted
  <2> QED
    BY <1>3, <2>4, SameMember, SameRequests DEF Seats!AWeekPasses, Moves
<1>4. ASSUME NEW role \in Seats!InviteRole, Seats!SetRole(role)
      PROVE  SeatInv' /\ Moves
  BY <1>4, QuietMoves, SameRequests DEF Seats!SetRole
<1>5. CASE Seats!RemoveMember \/ Seats!ChangePlan \/ Seats!Demote
  <2>1. /\ UNCHANGED <<scope, invite, at, on, seen>>
        /\ \/ member' = member \/ member' = None
           \/ member = "ADMIN" /\ member' = "COMMENTATOR"
    BY <1>5 DEF Seats!RemoveMember, Seats!ChangePlan, Seats!Demote
  <2>2. Seats!Rank(member') <= Seats!Rank(member)
    BY <2>1, RoleFacts
  <2> QED
    BY <2>1, <2>2, QuietMoves, SameRequests
<1> QED
  BY <1>1, <1>2, <1>3, <1>4, <1>5

LEMMA SeatStart == Seats!Init => SeatInv
BY DEF Seats!Init, SeatInv, Knows, Steps

LEMMA SeatNext == SeatInv /\ Seats!Next => SeatInv' /\ Moves
<1> SUFFICES ASSUME SeatInv, Seats!Next PROVE SeatInv' /\ Moves
  OBVIOUS
<1>1. ASSUME NEW r \in Requests, Seats!Step(r) PROVE SeatInv' /\ Moves
  BY <1>1, InvitingStep, ReadingStep, GrantStep, PlaceStep DEF Seats!Step
<1>2. ASSUME NEW role \in Seats!InviteRole, Seats!InviteNarrow(role) PROVE SeatInv' /\ Moves
  <2>1. RowsKept /\ Moves
    BY <1>2, RefreshFacts, SameMember DEF Seats!InviteNarrow, Moves, SeatInv
  <2> QED
    BY <1>2, <2>1, SameRequests DEF Seats!InviteNarrow
<1> QED
  BY <1>1, <1>2, PlaceStep DEF Seats!Next

LEMMA SeatsHold == Seats!Spec => []SeatInv
<1>1. SeatInv /\ UNCHANGED Seats!vars => SeatInv'
  BY DEF SeatInv, Knows, Seats!vars
<1> QED
  BY <1>1, SeatStart, SeatNext, PTL DEF Seats!Spec

\* Nobody enters a folder or a file but by an invitation that is open at that moment.
LEMMA CancelledStays == Seats!Spec => Seats!CancelledStaysOut
<1>1. ASSUME SeatInv, Seats!Next, scope = "NARROW", Seats!Rank(member') > Seats!Rank(member)
      PROVE  \E i \in Invites : Seats!Open(i) /\ invite'[i].status = "ACCEPTED"
  <2>1. Admits
    BY <1>1, SeatNext, RoleFacts DEF Moves
  <2> QED
    BY <1>1, <2>1 DEF Admits
<1>2. SeatInv /\ [Seats!Next]_Seats!vars =>
        [scope = "NARROW" /\ Seats!Rank(member') > Seats!Rank(member) =>
           \E i \in Invites : Seats!Open(i) /\ invite'[i].status = "ACCEPTED"]_Seats!vars
  BY <1>1
<1> QED
  BY <1>2, SeatsHold, PTL DEF Seats!Spec, Seats!CancelledStaysOut

\* Accepting never takes a role away.
LEMMA RolesStay == Seats!Spec => Seats!NeverLowered
<1>1. ASSUME SeatInv, Seats!Next,
             NEW i \in Invites, invite[i] # None, invite[i].status # "ACCEPTED",
             invite'[i].status = "ACCEPTED"
      PROVE  Seats!Rank(member') >= Seats!Rank(member)
  <2>1. RowsKept /\ Moves
    BY <1>1, SeatNext DEF Moves
  <2>2. ~NoneAccepted
    BY <1>1, <2>1 DEF RowsKept, NoneAccepted
  <2> QED
    BY <2>1, <2>2 DEF Moves, Admits
<1>2. SeatInv /\ [Seats!Next]_Seats!vars =>
        [(\E i \in Invites : invite[i] # None /\ invite[i].status # "ACCEPTED"
                                 /\ invite'[i].status = "ACCEPTED")
           => Seats!Rank(member') >= Seats!Rank(member)]_Seats!vars
  BY <1>1
<1> QED
  BY <1>2, SeatsHold, PTL DEF Seats!Spec, Seats!NeverLowered

-----------------------------------------------------------------------------
Rows == [parent : Comments \cup {Thread!NoParent}, done : BOOLEAN, text : Thread!Texts,
         stamp : Nat]
Clicks == [phase : {"idle", "sent", "answered", "done"}, kind : Thread!ClickKinds,
           target : Comments \cup {Thread!NoParent}, done : BOOLEAN, text : Thread!Texts,
           ok : BOOLEAN,
           id : Comments \cup {Thread!NoParent}, snapshot : SUBSET Thread!Entries,
           touched : BOOLEAN]
FetchPhases == {"idle", "tag", "count", "revision", "rows", "apply"}
Requested == [phase : FetchPhases,
              header : Thread!Tags \cup {Thread!NoTag},
            tag : Thread!Tags \cup {Thread!NoTag}, offset : Nat, total : Nat,
            got : SUBSET Thread!Entries,
            rewound : BOOLEAN, twice : BOOLEAN, short : BOOLEAN]

ServerTypes ==
  comment \in [Comments -> Rows] /\ spent \in SUBSET Comments /\ clock \in Nat

TabTypes ==
  /\ view \in SUBSET Thread!Entries /\ etag \in Thread!Tags \cup {Thread!NoTag}
  /\ mutating \in BOOLEAN /\ overtaken \in BOOLEAN /\ rewound \in BOOLEAN /\ twice \in BOOLEAN
  /\ short \in BOOLEAN
  /\ fetch \in [Fetches -> Requested]
  /\ op \in [Thread!Ops -> Clicks]

Types == ServerTypes /\ TabTypes

\* The rows: an id is given out once, and replies are one level deep.
RowsOK ==
  \A c \in Thread!Existing :
    /\ c \in spent /\ comment[c].stamp <= clock
    /\ comment[c].parent # Thread!NoParent => comment[c].parent \in Thread!TopLevel

\* What an entry of a list says of the row that it shows, if that is still there.
Known(L) ==
  \A e \in L : e.key \in Comments =>
    e.key \in spent /\ (e.key \in Thread!Existing => comment[e.key].parent = e.parent)

\* An entry that is not saved belongs to a click that was made, and its row is not
\* beside it.
Unsaved(L) ==
  \A e \in L, o \in Thread!Ops : e.key = Thread!temp(o) =>
    /\ op[o].phase # "idle"
    /\ o \in Thread!InFlight => /\ op[o].kind = "ADD" /\ e.parent = op[o].target
                                /\ op[o].ok => \A g \in L : g.key # op[o].id

Sent(L) == \A e \in L, o \in Thread!Ops : e.key = Thread!temp(o) => o \in Thread!InFlight
Unique(L) == \A e, g \in L : e.key = g.key => e = g

ClicksOK ==
  /\ \A o \in Thread!Ops :
       /\ op[o].ok => op[o].phase = "answered"
       /\ (op[o].kind = "ADD" /\ op[o].ok) =>
            op[o].id \in spent
            /\ (op[o].id \in Thread!Existing => comment[op[o].id].parent = op[o].target)
       /\ (op[o].kind = "ADD" /\ op[o].target # Thread!NoParent) =>
            op[o].target \in spent
            /\ (op[o].target \in Thread!Existing
                  => comment[op[o].target].parent = Thread!NoParent)
  /\ \A o, p \in Thread!Ops :
       (o # p /\ op[o].kind = "ADD" /\ op[o].ok /\ op[p].kind = "ADD" /\ op[p].ok) =>
         op[o].id # op[p].id

\* A click of which nothing but its own handler has rewritten the list since.
Alone(o) == o \in Thread!InFlight /\ ~op[o].touched

ListsOK ==
  /\ Known(view) /\ Unsaved(view)
  /\ \A o \in Thread!Ops : Known(op[o].snapshot) /\ Unsaved(op[o].snapshot)

\* What the pages bring is saved.
PagesOK ==
  \A f \in Fetches :
    /\ Known(fetch[f].got) /\ \A e \in fetch[f].got : e.key \in Comments
    /\ ~fetch[f].twice => Unique(fetch[f].got)

\* Until an answer rewrites a newer list: the list, and the one a click alone would
\* put back.
Orderly(L) == Sent(L) /\ (~twice => Unique(L))
OrderOK ==
  ~overtaken =>
    /\ Orderly(view)
    /\ \A o \in Thread!Ops : Alone(o) /\ op[o].kind = "DELETE" => Orderly(op[o].snapshot)

CommentInv == Types /\ RowsOK /\ ClicksOK /\ ListsOK /\ PagesOK /\ OrderOK

-----------------------------------------------------------------------------
\* A tag the server does not give any more.
Old(tag, gone) ==
  \/ gone
  \/ \E c \in Thread!Existing : comment[c].stamp > tag.last
  \/ Cardinality(Thread!Existing) < tag.count

\* What the handler of o makes of a list, when its request is refused.
After(o, L) ==
  LET p == op[o] IN
    CASE p.kind = "ADD" /\ p.ok ->
           {IF e.key = Thread!temp(o) THEN Thread!Entry(p.id, e.parent, FALSE, "x")
              ELSE e : e \in L}
      [] p.kind = "ADD" /\ ~p.ok -> Thread!Without(L, Thread!temp(o))
      [] p.kind = "RESOLVE" /\ ~p.ok -> Thread!WithDone(L, p.target, p.done)
      [] p.kind = "EDIT" /\ p.ok -> Thread!WithText(L, p.target, p.text)
      [] p.kind = "DELETE" /\ ~p.ok -> p.snapshot
      [] OTHER -> L

\* A list that shows the rows, or that a handler is about to change behind
\* somebody's back.
Rests(L) == L = Thread!Listed \/ \E o \in Thread!InFlight : op[o].touched /\ After(o, L) # L

ViewFollows ==
  /\ (\A o \in Thread!Ops : ~Alone(o)) => Rests(view)
  /\ \A o \in Thread!Ops : Alone(o) => Rests(After(o, view))

OneAlone == \A o, p \in Thread!Ops : Alone(o) /\ Alone(p) => o = p

Rank(c) == Cardinality({d \in Thread!TopLevel : d < c})
First(n) == {c \in Thread!TopLevel : Rank(c) < n}
ReadTo(n) == {d \in Thread!Existing : d \in First(n) \/ comment[d].parent \in First(n)}

PagesSoFar(f) ==
  /\ ~fetch[f].twice
  /\ fetch[f].tag.count = Cardinality(Thread!Existing)
  /\ fetch[f].phase \in {"tag", "count", "rows"}
       => fetch[f].got = {Thread!shown(c) : c \in ReadTo(fetch[f].offset)}
  /\ fetch[f].phase = "rows"
       => fetch[f].short \/ Cardinality(Thread!TopLevel) <= fetch[f].total
  /\ fetch[f].phase = "apply" => fetch[f].short \/ fetch[f].got = Thread!Listed

FetchOK(f) ==
  /\ fetch[f].tag.last <= clock
  /\ fetch[f].phase \in {"count", "rows", "apply"} => fetch[f].tag # Thread!NoTag
  /\ fetch[f].phase # "idle" /\ fetch[f].tag = Thread!NoTag =>
       fetch[f].got = {} /\ fetch[f].offset = 0 /\ ~fetch[f].twice /\ ~fetch[f].rewound
  /\ fetch[f].phase \in {"tag", "revision"} /\ fetch[f].tag # Thread!NoTag =>
       fetch[f].phase = "tag" /\ fetch[f].offset # 0
  /\ fetch[f].phase = "count" => fetch[f].offset = 0
  /\ fetch[f].phase # "idle" /\ fetch[f].tag # Thread!NoTag =>
       Old(fetch[f].tag, fetch[f].rewound) \/ PagesSoFar(f)

TagOK ==
  /\ etag.last <= clock
  /\ etag # Thread!NoTag /\ ~short =>
       \/ overtaken \/ Old(etag, rewound)
       \/ ~twice /\ etag.count = Cardinality(Thread!Existing) /\ ViewFollows

TagInv == TagOK /\ OneAlone /\ \A f \in Fetches : FetchOK(f)
-----------------------------------------------------------------------------
\* The size of a set is the same in either module.
LEMMA SameCount ==
  ASSUME NEW S
  PROVE  Thread!Cardinality(S) = Cardinality(S)
BY DEF Thread!Cardinality, Cardinality

(* Keys.                                                                   *)

LEMMA KeyFacts ==
  /\ Thread!Ops \subseteq Nat \ {0} /\ Thread!NoParent \notin Comments
  /\ Comments \subseteq Thread!Keys
  /\ \A o \in Thread!Ops :
        Thread!temp(o) \in Thread!Keys /\ Thread!temp(o) \notin Comments
        /\ Thread!temp(o) # Thread!NoParent
  /\ \A o, p \in Thread!Ops : Thread!temp(o) = Thread!temp(p) => o = p
BY SharedAssumption DEF Thread!Ops, Thread!NoParent, Thread!Keys, Thread!Temps, Thread!temp

LEMMA RowTypes ==
  ASSUME ServerTypes, NEW c \in Comments
  PROVE  /\ comment[c].parent \in Comments \cup {Thread!NoParent} /\ comment[c].done \in BOOLEAN
         /\ comment[c].text \in Thread!Texts /\ comment[c].stamp \in Nat
BY DEF ServerTypes, Rows

LEMMA ClickTypes ==
  ASSUME TabTypes, NEW o \in Thread!Ops
  PROVE  /\ op[o].phase \in {"idle", "sent", "answered", "done"}
         /\ op[o].kind \in Thread!ClickKinds
         /\ op[o].target \in Comments \cup {Thread!NoParent} /\ op[o].done \in BOOLEAN
         /\ op[o].text \in Thread!Texts /\ op[o].ok \in BOOLEAN
         /\ op[o].id \in Comments \cup {Thread!NoParent}
         /\ op[o].snapshot \in SUBSET Thread!Entries
         /\ op[o].touched \in BOOLEAN
BY DEF TabTypes, Clicks

LEMMA FetchTypes ==
  ASSUME TabTypes, NEW f \in Fetches
  PROVE  /\ fetch[f].phase \in FetchPhases
         /\ fetch[f].header \in Thread!Tags \cup {Thread!NoTag}
         /\ fetch[f].tag \in Thread!Tags \cup {Thread!NoTag}
         /\ fetch[f].offset \in Nat /\ fetch[f].total \in Nat
         /\ fetch[f].got \in SUBSET Thread!Entries
         /\ fetch[f].rewound \in BOOLEAN /\ fetch[f].twice \in BOOLEAN
         /\ fetch[f].short \in BOOLEAN
BY DEF TabTypes, Requested

LEMMA EntryTypes ==
  ASSUME NEW e \in Thread!Entries
  PROVE  /\ e.key \in Thread!Keys /\ e.parent \in Comments \cup {Thread!NoParent}
         /\ e.done \in BOOLEAN /\ e.text \in Thread!Texts
BY DEF Thread!Entries

-----------------------------------------------------------------------------
(* The server's writes.                                                    *)

\* What they do to the rows as far as a list can tell: rows go, or come under an id
\* that was never given out; who is whose reply does not change.
RowsMove ==
  /\ spent \subseteq spent'
  /\ \A c \in Thread!Existing' : \/ c \in Thread!Existing
                                    /\ comment'[c].parent = comment[c].parent
                                 \/ c \notin spent /\ c \in spent'

LEMMA InsertRows ==
  ASSUME ServerTypes, RowsOK, NEW c \in Comments,
         NEW p \in Thread!TopLevel \cup {Thread!NoParent},
         NEW t \in Thread!Texts, Thread!Insert(c, p, t)
  PROVE  ServerTypes' /\ RowsOK' /\ RowsMove
<1>1. p \in Comments \cup {Thread!NoParent}
  BY DEF Thread!TopLevel, Thread!Existing
<1>2. [parent |-> p, done |-> FALSE, text |-> t, stamp |-> clock + 1] \in Rows
  BY <1>1 DEF Rows, ServerTypes
<1>3. ServerTypes'
  BY <1>2 DEF ServerTypes, Thread!Insert
<1>4. comment'[c].stamp = clock + 1 /\ comment'[c].parent = p /\ clock' = clock + 1
      /\ spent' = spent \cup {c} /\ c \notin spent
      /\ \A d \in Comments \ {c} : comment'[d] = comment[d]
  BY DEF Thread!Insert, ServerTypes
<1>5. clock \in Nat
  BY DEF ServerTypes
<1>6. c \notin Thread!Existing
  BY <1>4 DEF RowsOK
<1>7. Thread!Existing' = Thread!Existing \cup {c}
  BY <1>4, <1>5 DEF Thread!Existing
<1>8. Thread!TopLevel \subseteq Thread!TopLevel'
  BY <1>4, <1>6, <1>7 DEF Thread!TopLevel, Thread!Existing
<1>9. RowsOK'
  <2>1. ASSUME NEW d \in Thread!Existing' PROVE /\ d \in spent' /\ comment'[d].stamp <= clock'
                                                /\ comment'[d].parent # Thread!NoParent
                                                     => comment'[d].parent \in Thread!TopLevel'
    <3>1. CASE d = c
      BY <3>1, <1>4, <1>5, <1>8
    <3>2. CASE d # c
      <4>1. d \in Thread!Existing /\ comment'[d] = comment[d]
        BY <3>2, <1>4, <1>7 DEF Thread!Existing
      <4>2. comment[d].stamp \in Nat
        BY <4>1, RowTypes DEF Thread!Existing
      <4> QED
        BY <4>1, <4>2, <1>4, <1>5, <1>8 DEF RowsOK
    <3> QED
      BY <3>1, <3>2
  <2> QED
    BY <2>1 DEF RowsOK
<1>10. RowsMove
  BY <1>4, <1>7 DEF RowsMove, Thread!Existing
<1> QED
  BY <1>3, <1>9, <1>10

LEMMA UpdateRows ==
  ASSUME ServerTypes, RowsOK, NEW c \in Comments, NEW done \in BOOLEAN, NEW t \in Thread!Texts,
         Thread!Update(c, done, t)
  PROVE  ServerTypes' /\ RowsOK' /\ RowsMove
<1>1. clock \in Nat /\ c \in Thread!Existing
  BY DEF ServerTypes, Thread!Update
<1>2. comment'[c] \in Rows /\ comment'[c].parent = comment[c].parent
      /\ comment'[c].stamp = clock + 1
  <2>1. comment'[c] = [parent |-> comment[c].parent, done |-> done, text |-> t,
                       stamp |-> clock + 1]
    <3>1. comment[c] \in Rows /\ c \in DOMAIN comment
      BY DEF ServerTypes
    <3>2. comment' = [comment EXCEPT ![c].done = done, ![c].text = t, ![c].stamp = clock + 1]
      BY DEF Thread!Update
    <3> QED
      BY <3>1, <3>2 DEF Rows
  <2> QED
    BY <2>1, <1>1, RowTypes DEF Rows
<1>3. /\ clock' = clock + 1 /\ spent' = spent
      /\ \A d \in Comments \ {c} : comment'[d] = comment[d]
  BY DEF Thread!Update, ServerTypes
<1>4. ServerTypes'
  BY <1>1, <1>2, <1>3 DEF ServerTypes, Thread!Update
<1>5. Thread!Existing' = Thread!Existing
  BY <1>1, <1>2, <1>3 DEF Thread!Existing
<1>6. Thread!TopLevel' = Thread!TopLevel
  BY <1>2, <1>3, <1>5 DEF Thread!TopLevel, Thread!Existing
<1>7. RowsOK'
  <2>1. ASSUME NEW d \in Thread!Existing PROVE /\ d \in spent' /\ comment'[d].stamp <= clock'
                                               /\ comment'[d].parent # Thread!NoParent
                                                    => comment'[d].parent \in Thread!TopLevel'
    <3>1. comment[d].stamp \in Nat /\ comment'[d].parent = comment[d].parent
      BY RowTypes, <1>2, <1>3 DEF Thread!Existing
    <3>2. comment'[d].stamp <= clock'
      BY <3>1, <1>1, <1>2, <1>3 DEF RowsOK, Thread!Existing
    <3> QED
      BY <3>1, <3>2, <1>3, <1>6 DEF RowsOK
  <2> QED
    BY <2>1, <1>5 DEF RowsOK
<1>8. RowsMove
  BY <1>2, <1>3, <1>5 DEF RowsMove, Thread!Existing
<1> QED
  BY <1>4, <1>7, <1>8

Gone(c) == {d \in Thread!Existing : d = c \/ comment[d].parent = c}

LEMMA RemoveRows ==
  ASSUME ServerTypes, RowsOK, NEW c \in Comments, Thread!Remove(c)
  PROVE  /\ ServerTypes' /\ RowsOK' /\ RowsMove
         /\ c \in Thread!Existing /\ Thread!Existing' = Thread!Existing \ Gone(c)
         /\ \A d \in Thread!Existing' : comment'[d] = comment[d]
<1>1. c \in Thread!Existing /\ spent' = spent /\ clock' = clock
      /\ comment' = [d \in Comments |-> IF d \in Gone(c) THEN Thread!NoRow ELSE comment[d]]
  BY DEF Thread!Remove, Gone
<1>2. Thread!NoRow \in Rows /\ Thread!NoRow.stamp = 0
  BY DEF Thread!NoRow, Rows, Thread!Texts
<1>3. ServerTypes'
  BY <1>1, <1>2 DEF ServerTypes
<1>4. Thread!Existing' = Thread!Existing \ Gone(c)
      /\ \A d \in Thread!Existing' : comment'[d] = comment[d]
  BY <1>1, <1>2 DEF Thread!Existing
<1>5. RowsOK'
  <2>1. ASSUME NEW d \in Thread!Existing' PROVE /\ d \in spent' /\ comment'[d].stamp <= clock'
                                                /\ comment'[d].parent # Thread!NoParent
                                                     => comment'[d].parent \in Thread!TopLevel'
    <3>1. d \in Thread!Existing /\ d \notin Gone(c) /\ comment'[d] = comment[d]
          /\ comment[d].parent # c
      BY <1>4 DEF Gone
    <3>2. ASSUME comment[d].parent # Thread!NoParent
          PROVE comment[d].parent \in Thread!TopLevel'
      <4>1. comment[d].parent \in Thread!Existing
            /\ comment[comment[d].parent].parent = Thread!NoParent
        BY <3>1, <3>2 DEF RowsOK, Thread!TopLevel
      <4>2. comment[d].parent \notin Gone(c)
        BY <4>1, <3>1, KeyFacts DEF Gone, Thread!Existing
      <4> QED
        BY <4>1, <4>2, <1>4 DEF Thread!TopLevel
    <3> QED
      BY <3>1, <3>2, <1>1 DEF RowsOK
  <2> QED
    BY <2>1 DEF RowsOK
<1>6. RowsMove
  BY <1>1, <1>4 DEF RowsMove
<1> QED
  BY <1>1, <1>3, <1>4, <1>5, <1>6

-----------------------------------------------------------------------------
(* Steps that leave the lists and the clicks alone, or nearly.             *)

KeptClick(o) ==
  /\ op'[o].phase = op[o].phase /\ op'[o].kind = op[o].kind /\ op'[o].target = op[o].target
  /\ op'[o].done = op[o].done /\ op'[o].text = op[o].text /\ op'[o].ok = op[o].ok
  /\ op'[o].id = op[o].id /\ op'[o].snapshot = op[o].snapshot

KeptFetch(f) ==
  /\ fetch'[f].phase = fetch[f].phase /\ fetch'[f].header = fetch[f].header
  /\ fetch'[f].tag = fetch[f].tag /\ fetch'[f].offset = fetch[f].offset
  /\ fetch'[f].total = fetch[f].total /\ fetch'[f].got = fetch[f].got
  /\ fetch'[f].twice = fetch[f].twice /\ fetch'[f].short = fetch[f].short

\* A list the server's writes do not change says what it said.
LEMMA KnownStays ==
  ASSUME RowsMove, NEW L \in SUBSET Thread!Entries, Known(L)
  PROVE  Known(L)'
BY DEF Known, RowsMove

LEMMA WriteKeepsFetch ==
  ASSUME TabTypes, NEW c \in Comments,
         \/ \E p, t : Thread!Insert(c, p, t)
         \/ \E done, t : Thread!Update(c, done, t)
         \/ Thread!Remove(c)
  PROVE  fetch' \in [Fetches -> Requested] /\ \A f \in Fetches : KeptFetch(f)
<1>1. CASE fetch' = fetch
  BY <1>1 DEF TabTypes, KeptFetch
<1>2. CASE Thread!Remove(c)
  <2> DEFINE gone == {d \in Thread!Existing : d = c \/ comment[d].parent = c}
             Misses(tag) == \E d \in gone : comment[d].stamp > tag.last
  <2>1. fetch' = [f \in Fetches |->
          [fetch[f] EXCEPT !.rewound = @
           \/ (fetch[f].tag # Thread!NoTag /\ Misses(fetch[f].tag))]]
    BY <1>2 DEF Thread!Remove
  <2> HIDE DEF Misses
  <2>2. ASSUME NEW f \in Fetches
        PROVE  fetch'[f] \in Requested /\ KeptFetch(f)
    <3> DEFINE b == fetch[f].tag # Thread!NoTag /\ Misses(fetch[f].tag)
    <3>1. fetch'[f] = [fetch[f] EXCEPT !.rewound = fetch[f].rewound \/ b]
      BY <2>1
    <3>2. (fetch[f].rewound \/ b) \in BOOLEAN
      OBVIOUS
    <3> HIDE DEF b
    <3>3. fetch[f] \in Requested
      BY DEF TabTypes
    <3>4. fetch'[f] \in Requested
      BY <3>1, <3>2, <3>3 DEF Requested
    <3>5. KeptFetch(f)
      BY <3>1, <3>3 DEF KeptFetch, Requested
    <3> QED
      BY <3>4, <3>5
  <2> QED
    BY <2>1, <2>2
<1> QED
  BY <1>1, <1>2 DEF Thread!Insert, Thread!Update

LEMMA PagesStay ==
  ASSUME TabTypes, PagesOK, RowsMove, \A f \in Fetches : KeptFetch(f)
  PROVE  PagesOK'
<1> SUFFICES ASSUME NEW f \in Fetches
             PROVE  /\ Known(fetch[f].got)' /\ \A e \in fetch'[f].got : e.key \in Comments
                    /\ ~fetch'[f].twice => Unique(fetch'[f].got)
  BY DEF PagesOK, Unique
<1>1. fetch'[f].got = fetch[f].got /\ fetch'[f].twice = fetch[f].twice
  BY DEF KeptFetch
<1>2. fetch[f].got \in SUBSET Thread!Entries /\ Known(fetch[f].got)
  BY FetchTypes DEF PagesOK
<1>3. Known(fetch[f].got)'
  BY <1>1, <1>2 DEF Known, RowsMove
<1> QED
  BY <1>1, <1>3 DEF PagesOK

\* Another user's request.
LEMMA ElsewhereStep ==
  ASSUME CommentInv, Thread!Elsewhere
  PROVE  CommentInv'
<1>0. ServerTypes /\ TabTypes /\ RowsOK
  BY DEF CommentInv, Types
<1>1. PICK c \in Comments :
        \/ \E p \in Thread!TopLevel \cup {Thread!NoParent} : Thread!Insert(c, p, "x")
        \/ c \in Thread!Existing /\ Thread!Update(c, ~comment[c].done, comment[c].text)
        \/ c \in Thread!Existing /\ Thread!Remove(c)
  BY DEF Thread!Elsewhere, Thread!Existing
<1>2. ServerTypes' /\ RowsOK' /\ RowsMove
  <2>1. CASE \E p \in Thread!TopLevel \cup {Thread!NoParent} : Thread!Insert(c, p, "x")
    BY <2>1, <1>0, InsertRows DEF Thread!Texts
  <2>2. CASE c \in Thread!Existing /\ Thread!Update(c, ~comment[c].done, comment[c].text)
    <3> DEFINE b == ~comment[c].done
    <3>1. b \in BOOLEAN /\ comment[c].text \in Thread!Texts
          /\ Thread!Update(c, b, comment[c].text)
      BY <1>0, <2>2, RowTypes
    <3> HIDE DEF b
    <3> QED
      BY <3>1, <1>0, UpdateRows
  <2>3. CASE c \in Thread!Existing /\ Thread!Remove(c)
    BY <2>3, <1>0, RemoveRows
  <2> QED
    BY <1>1, <2>1, <2>2, <2>3
<1>3. fetch' \in [Fetches -> Requested] /\ \A f \in Fetches : KeptFetch(f)
  BY <1>0, <1>1, WriteKeepsFetch
<1>4. UNCHANGED <<view, etag, mutating, op, overtaken, twice, short>> /\ rewound' \in BOOLEAN
  <2>1. rewound' \in BOOLEAN
    BY <1>0, <1>1 DEF Thread!Insert, Thread!Update, Thread!Remove, TabTypes
  <2> QED
    BY <2>1 DEF Thread!Elsewhere
<1>5. Types'
  BY <1>0, <1>2, <1>3, <1>4 DEF Types, TabTypes
<1>6. ClicksOK'
  BY <1>2, <1>4 DEF CommentInv, ClicksOK, RowsMove
<1>7. ListsOK'
  <2>1. Known(view)' /\ Unsaved(view)'
    BY <1>2, <1>4 DEF CommentInv, ListsOK, Known, Unsaved, RowsMove, Thread!InFlight
  <2>2. ASSUME NEW o \in Thread!Ops PROVE Known(op[o].snapshot)' /\ Unsaved(op[o].snapshot)'
    <3>1. op[o].snapshot \in SUBSET Thread!Entries /\ Known(op[o].snapshot)
          /\ Unsaved(op[o].snapshot)
      BY <1>0, ClickTypes DEF CommentInv, ListsOK
    <3>2. Known(op[o].snapshot)'
      BY <3>1, <1>2, <1>4 DEF Known, RowsMove
    <3>3. Unsaved(op[o].snapshot)'
      BY <3>1, <1>4 DEF Unsaved, Thread!InFlight
    <3> QED
      BY <3>2, <3>3
  <2> QED
    BY <2>1, <2>2 DEF ListsOK
<1>8. PagesOK'
  BY <1>0, <1>2, <1>3, PagesStay DEF CommentInv
<1>9. OrderOK'
  BY <1>4 DEF CommentInv, OrderOK, Orderly, Sent, Unique, Alone, Thread!InFlight
<1> QED
  BY <1>2, <1>5, <1>6, <1>7, <1>8, <1>9 DEF CommentInv

\* The request of a click, carried out.
LEMMA AcceptStep ==
  ASSUME CommentInv, NEW o \in Thread!Ops, Thread!ServerAccepts(o)
  PROVE  CommentInv'
<1>0. ServerTypes /\ TabTypes /\ RowsOK /\ ClicksOK /\ op \in [Thread!Ops -> Clicks]
  BY DEF CommentInv, Types, TabTypes
<1>1. PICK ok \in BOOLEAN, c \in Comments :
        /\ CASE op[o].kind = "ADD" -> Thread!Insert(c, op[o].target, "x")
             [] op[o].kind = "RESOLVE" ->
                  c = op[o].target /\ Thread!Update(c, ~op[o].done, comment[c].text)
             [] op[o].kind = "EDIT" ->
                  c = op[o].target /\ Thread!Update(c, comment[c].done, op[o].text)
             [] op[o].kind = "DELETE" -> c = op[o].target /\ Thread!Remove(c)
        /\ op' = [op EXCEPT ![o].phase = "answered", ![o].ok = ok,
                            ![o].id = IF ok THEN c ELSE Thread!NoParent]
  BY DEF Thread!ServerAccepts
<1>2. op[o].phase = "sent" /\ UNCHANGED <<view, etag, mutating, overtaken, twice, short>>
  BY DEF Thread!ServerAccepts
<1>3. op[o].kind \in Thread!ClickKinds /\ op[o].target \in Comments \cup {Thread!NoParent}
      /\ op[o].done \in BOOLEAN /\ op[o].text \in Thread!Texts
      /\ comment[c].done \in BOOLEAN /\ comment[c].text \in Thread!Texts
  BY <1>0, ClickTypes, RowTypes
<1>4. ServerTypes' /\ RowsOK' /\ RowsMove
  <2>1. CASE op[o].kind = "ADD"
    <3>1. Thread!Insert(c, op[o].target, "x")
      BY <1>1, <2>1
    <3>2. op[o].target \in Thread!TopLevel \cup {Thread!NoParent}
      BY <3>1, <2>1, <1>0 DEF Thread!Insert, ClicksOK, Thread!TopLevel
    <3> QED
      BY <3>1, <3>2, <1>0, InsertRows DEF Thread!Texts
  <2>2. CASE op[o].kind = "RESOLVE"
    <3> DEFINE b == ~op[o].done
    <3>1. Thread!Update(c, b, comment[c].text) /\ b \in BOOLEAN
      BY <1>1, <1>3, <2>2
    <3> HIDE DEF b
    <3> QED
      BY <3>1, <1>0, <1>3, UpdateRows
  <2>3. CASE op[o].kind = "EDIT"
    <3>1. Thread!Update(c, comment[c].done, op[o].text)
      BY <1>1, <2>3
    <3> QED
      BY <3>1, <1>0, <1>3, UpdateRows
  <2>4. CASE op[o].kind = "DELETE"
    <3>1. Thread!Remove(c)
      BY <1>1, <2>4
    <3> QED
      BY <3>1, <1>0, RemoveRows
  <2> QED
    BY <1>3, <2>1, <2>2, <2>3, <2>4 DEF Thread!ClickKinds
<1>5. fetch' \in [Fetches -> Requested] /\ \A f \in Fetches : KeptFetch(f)
  <2>1. \/ Thread!Insert(c, op[o].target, "x") \/ Thread!Update(c, ~op[o].done, comment[c].text)
        \/ Thread!Update(c, comment[c].done, op[o].text) \/ Thread!Remove(c)
    BY <1>1, <1>3 DEF Thread!ClickKinds
  <2> QED
    BY <1>0, <2>1, WriteKeepsFetch
<1>6. /\ op' \in [Thread!Ops -> Clicks]
      /\ \A p \in Thread!Ops : p # o => op'[p] = op[p]
      /\ op'[o].phase = "answered" /\ op'[o].ok = ok /\ (ok => op'[o].id = c)
      /\ op'[o].kind = op[o].kind /\ op'[o].target = op[o].target
      /\ op'[o].snapshot = op[o].snapshot /\ op'[o].touched = op[o].touched
  <2>1. op[o] \in Clicks /\ o \in DOMAIN op
    BY <1>0
  <2>2. op'[o] = [op[o] EXCEPT !.phase = "answered", !.ok = ok,
                             !.id = IF ok THEN c ELSE Thread!NoParent]
    BY <1>1, <2>1 DEF Clicks
  <2>3. op'[o] \in Clicks /\ op'[o].phase = "answered" /\ op'[o].ok = ok /\ (ok => op'[o].id = c)
    BY <2>1, <2>2 DEF Clicks
  <2>4. /\ op'[o].kind = op[o].kind /\ op'[o].target = op[o].target
        /\ op'[o].snapshot = op[o].snapshot /\ op'[o].touched = op[o].touched
    BY <2>1, <2>2 DEF Clicks
  <2>5. DOMAIN op' = Thread!Ops /\ \A p \in Thread!Ops : p # o => op'[p] = op[p]
    BY <1>0, <1>1
  <2>6. op' \in [Thread!Ops -> Clicks]
    <3>1. op' = [p \in Thread!Ops |-> op'[p]]
      BY <1>0, <1>1
    <3>2. \A p \in Thread!Ops : op'[p] \in Clicks
      BY <2>3, <2>5, <1>0
    <3> QED
      BY <3>1, <3>2
  <2> QED
    BY <2>3, <2>4, <2>5, <2>6
<1>7. Thread!InFlight' = Thread!InFlight
  BY <1>2, <1>6 DEF Thread!InFlight
<1>8. Types'
  <2>1. rewound' \in BOOLEAN
    BY <1>0, <1>1, <1>3 DEF Thread!Insert, Thread!Update, Thread!Remove, TabTypes,
       Thread!ClickKinds
  <2> QED
    BY <2>1, <1>0, <1>2, <1>4, <1>5, <1>6 DEF Types, TabTypes
<1>9. op[o].kind = "ADD" => /\ c \notin spent /\ c \in spent'
                            /\ c \in Thread!Existing' => comment'[c].parent = op[o].target
  BY <1>0, <1>1 DEF Thread!Insert, ServerTypes
<1>10. ClicksOK'
  BY <1>0, <1>2, <1>4, <1>6, <1>9 DEF ClicksOK, RowsMove
<1>11. ASSUME NEW L \in SUBSET Thread!Entries, Known(L), Unsaved(L)
       PROVE  Unsaved(L)'
  BY <1>2, <1>6, <1>7, <1>9, <1>11, KeyFacts DEF Unsaved, Known
<1>12. ListsOK'
  <2>1. Known(view)' /\ Unsaved(view)'
    <3>1. view \in SUBSET Thread!Entries /\ view' = view /\ Known(view) /\ Unsaved(view)
      BY <1>0, <1>2 DEF CommentInv, ListsOK, TabTypes
    <3>2. Known(view)'
      BY <3>1, <1>4 DEF Known, RowsMove
    <3>3. Unsaved(view)'
      BY <3>1, <1>11 DEF Unsaved
    <3> QED
      BY <3>2, <3>3
  <2>2. ASSUME NEW p \in Thread!Ops PROVE Known(op[p].snapshot)' /\ Unsaved(op[p].snapshot)'
    <3>1. op[p].snapshot \in SUBSET Thread!Entries /\ Known(op[p].snapshot)
          /\ Unsaved(op[p].snapshot)
      BY <1>0, ClickTypes DEF CommentInv, ListsOK
    <3>2. op'[p].snapshot = op[p].snapshot
      BY <1>6
    <3>3. Known(op[p].snapshot)'
      BY <3>1, <3>2, <1>4 DEF Known, RowsMove
    <3>4. Unsaved(op[p].snapshot)'
      BY <3>1, <3>2, <1>11 DEF Unsaved
    <3> QED
      BY <3>3, <3>4
  <2> QED
    BY <2>1, <2>2 DEF ListsOK
<1>13. PagesOK'
  BY <1>0, <1>4, <1>5, PagesStay DEF CommentInv
<1>14. OrderOK'
  <2>1. \A p \in Thread!Ops : /\ Alone(p)' <=> Alone(p)
                              /\ op'[p].kind = op[p].kind /\ op'[p].snapshot = op[p].snapshot
    BY <1>6, <1>7 DEF Alone
  <2> QED
    BY <2>1, <1>2, <1>7 DEF CommentInv, OrderOK, Orderly, Sent, Unique
<1> QED
  BY <1>4, <1>8, <1>10, <1>12, <1>13, <1>14 DEF CommentInv

-----------------------------------------------------------------------------
(* The tab's own steps leave the rows alone.                               *)

LEMMA ServerStays ==
  ASSUME ServerTypes, RowsOK, UNCHANGED Thread!server
  PROVE  /\ ServerTypes' /\ RowsOK' /\ RowsMove
         /\ Thread!Existing' = Thread!Existing /\ Thread!TopLevel' = Thread!TopLevel
         /\ Thread!Listed' = Thread!Listed
BY DEF Thread!server, ServerTypes, RowsOK, RowsMove, Thread!Existing, Thread!TopLevel,
   Thread!Listed, Thread!shown

LEMMA TouchFacts ==
  ASSUME op \in [Thread!Ops -> Clicks], NEW o \in Thread!Ops, NEW click \in Clicks,
         op' = Thread!Touch([op EXCEPT ![o] = click], o)
  PROVE  /\ op' \in [Thread!Ops -> Clicks] /\ op'[o] = click
         /\ \A p \in Thread!Ops : p # o =>
              /\ KeptClick(p)
              /\ p \in Thread!InFlight => op'[p].touched = TRUE
              /\ p \notin Thread!InFlight => op'[p].touched = op[p].touched
<1>1. op' = [p \in Thread!Ops |-> IF p # o /\ p \in Thread!InFlight
                                  THEN [op[p] EXCEPT !.touched = TRUE]
                                  ELSE IF p = o THEN click ELSE op[p]]
  BY DEF Thread!Touch
<1>2. op'[o] = click
  BY <1>1
<1>3. ASSUME NEW p \in Thread!Ops, p # o
      PROVE  /\ op'[p] \in Clicks /\ KeptClick(p)
             /\ p \in Thread!InFlight => op'[p].touched = TRUE
             /\ p \notin Thread!InFlight => op'[p].touched = op[p].touched
  <2>1. op[p] \in Clicks
    OBVIOUS
  <2>2. CASE p \in Thread!InFlight
    <3>1. op'[p] = [op[p] EXCEPT !.touched = TRUE]
      BY <1>1, <1>3, <2>2
    <3> QED
      BY <2>1, <2>2, <3>1 DEF Clicks, KeptClick
  <2>3. CASE p \notin Thread!InFlight
    <3>1. op'[p] = op[p]
      BY <1>1, <1>3, <2>3
    <3> QED
      BY <2>1, <2>3, <3>1 DEF KeptClick
  <2> QED
    BY <2>2, <2>3
<1>4. op' \in [Thread!Ops -> Clicks]
  <2>1. \A p \in Thread!Ops : op'[p] \in Clicks
    BY <1>2, <1>3
  <2> QED
    BY <1>1, <2>1
<1> QED
  BY <1>2, <1>3, <1>4

\* A click: what it must leave so that the lists stay in order.
LEMMA BeginStep ==
  ASSUME CommentInv, NEW o \in Thread!Ops, NEW click \in Clicks,
         NEW M \in SUBSET Thread!Entries,
         Thread!Begin(o, click, M), ~click.ok, ~click.touched,
         click.kind = "ADD" /\ click.target # Thread!NoParent =>
           click.target \in spent
           /\ (click.target \in Thread!Existing
                 => comment[click.target].parent = Thread!NoParent),
         \A e \in M : \/ \E g \in view : e.key = g.key /\ e.parent = g.parent
                      \/ e.key = Thread!temp(o) /\ click.kind = "ADD"
                         /\ e.parent = click.target,
         Unique(view) /\ (\A g \in view : g.key # Thread!temp(o)) => Unique(M),
         click.snapshot = {} \/ click.snapshot = view,
         click.kind = "DELETE" => click.snapshot = view
  PROVE  CommentInv'
<1> DEFINE new == [click EXCEPT !.phase = "sent"]
<1>0. ServerTypes /\ TabTypes /\ RowsOK /\ ClicksOK /\ op \in [Thread!Ops -> Clicks]
      /\ view \in SUBSET Thread!Entries /\ Known(view) /\ Unsaved(view)
  BY DEF CommentInv, Types, TabTypes, ListsOK
<1>1. /\ op[o].phase = "idle" /\ view' = M /\ mutating' = TRUE
      /\ UNCHANGED <<Thread!server, etag, fetch, overtaken, rewound, twice, short>>
      /\ op' = Thread!Touch([op EXCEPT ![o] = new], o)
  BY DEF Thread!Begin
<1>2. /\ new \in Clicks /\ new.phase = "sent" /\ new.kind = click.kind /\ ~new.ok
      /\ ~new.touched
      /\ new.target = click.target /\ new.snapshot = click.snapshot
  BY DEF Clicks
<1> HIDE DEF new
<1>3. /\ op' \in [Thread!Ops -> Clicks] /\ op'[o] = new
      /\ \A p \in Thread!Ops : p # o => /\ KeptClick(p)
                                        /\ p \in Thread!InFlight => op'[p].touched = TRUE
  BY <1>0, <1>1, <1>2, TouchFacts
<1>4. o \notin Thread!InFlight /\ Thread!InFlight' = Thread!InFlight \cup {o}
  BY <1>1, <1>2, <1>3 DEF Thread!InFlight, KeptClick
<1>5. ServerTypes' /\ RowsOK' /\ RowsMove /\ Thread!Existing' = Thread!Existing
      /\ comment' = comment /\ spent' = spent
  BY <1>0, <1>1, ServerStays DEF Thread!server
<1>6. Types'
  BY <1>0, <1>1, <1>3, <1>5 DEF Types, TabTypes
<1>7. ClicksOK'
  <2>1. ASSUME NEW p \in Thread!Ops
        PROVE  /\ op'[p].ok => op'[p].phase = "answered"
               /\ (op'[p].kind = "ADD" /\ op'[p].ok) =>
                    op'[p].id \in spent
                    /\ (op'[p].id \in Thread!Existing
                          => comment[op'[p].id].parent = op'[p].target)
               /\ (op'[p].kind = "ADD" /\ op'[p].target # Thread!NoParent) =>
                    op'[p].target \in spent
                    /\ (op'[p].target \in Thread!Existing
                          => comment[op'[p].target].parent = Thread!NoParent)
    <3>1. CASE p = o
      BY <3>1, <1>2, <1>3
    <3>2. CASE p # o
      BY <3>2, <1>0, <1>3 DEF ClicksOK, KeptClick
    <3> QED
      BY <3>1, <3>2
  <2>2. \A p, q \in Thread!Ops :
          (p # q /\ op'[p].kind = "ADD" /\ op'[p].ok /\ op'[q].kind = "ADD" /\ op'[q].ok) =>
            op'[p].id # op'[q].id
    BY <1>0, <1>2, <1>3 DEF ClicksOK, KeptClick
  <2> QED
    BY <2>1, <2>2, <1>5 DEF ClicksOK
<1>8. ASSUME NEW L \in SUBSET Thread!Entries, Unsaved(L)
      PROVE  Unsaved(L)'
  <2>1. SUFFICES ASSUME NEW e \in L, NEW p \in Thread!Ops, e.key = Thread!temp(p)
                 PROVE  /\ op'[p].phase # "idle"
                        /\ p \in Thread!InFlight' =>
                             /\ op'[p].kind = "ADD" /\ e.parent = op'[p].target
                             /\ op'[p].ok => \A g \in L : g.key # op'[p].id
    BY DEF Unsaved
  <2>2. p # o
    BY <1>1, <1>8, <2>1 DEF Unsaved
  <2> QED
    BY <1>3, <1>4, <1>8, <2>1, <2>2 DEF Unsaved, KeptClick
<1>9. ListsOK'
  <2>1. Known(view)'
    <3>1. \A e \in M : e.key \in Comments
            => \E g \in view : e.key = g.key /\ e.parent = g.parent
      BY KeyFacts
    <3>2. Known(M)
      BY <1>0, <3>1 DEF Known
    <3> QED
      BY <3>2, <1>1, <1>5 DEF Known
  <2>2. Unsaved(view)'
    <3>1. SUFFICES ASSUME NEW e \in M, NEW p \in Thread!Ops, e.key = Thread!temp(p)
                   PROVE  /\ op'[p].phase # "idle"
                          /\ p \in Thread!InFlight' =>
                               /\ op'[p].kind = "ADD" /\ e.parent = op'[p].target
                               /\ op'[p].ok => \A g \in M : g.key # op'[p].id
      BY <1>1 DEF Unsaved
    <3>2. CASE p = o
      <4>1. \A g \in view : g.key # Thread!temp(o)
        BY <1>0, <1>1 DEF Unsaved
      <4>2. click.kind = "ADD" /\ e.parent = click.target
        BY <3>1, <3>2, <4>1
      <4> QED
        BY <3>2, <4>2, <1>2, <1>3
    <3>3. CASE p # o
      <4>1. PICK g \in view : e.key = g.key /\ e.parent = g.parent
        BY <3>1, <3>3, KeyFacts
      <4>2. /\ op[p].phase # "idle"
            /\ p \in Thread!InFlight => /\ op[p].kind = "ADD" /\ e.parent = op[p].target
                                        /\ op[p].ok => \A h \in view : h.key # op[p].id
        <5>1. g.key = Thread!temp(p)
          BY <3>1, <4>1
        <5>2. /\ op[p].phase # "idle"
              /\ p \in Thread!InFlight => /\ op[p].kind = "ADD" /\ g.parent = op[p].target
                                          /\ op[p].ok => \A h \in view : h.key # op[p].id
          BY <5>1, <1>0 DEF Unsaved
        <5> QED
          BY <5>2, <4>1
      <4>3. p \in Thread!InFlight /\ op[p].kind = "ADD" /\ op[p].ok => op[p].id \in Comments
        BY <1>0 DEF ClicksOK, ServerTypes
      <4>4. p \in Thread!InFlight /\ op[p].kind = "ADD"
            /\ op[p].ok => \A h \in M : h.key # op[p].id
        BY <4>2, <4>3, KeyFacts
      <4> QED
        BY <3>3, <4>2, <4>4, <1>3, <1>4 DEF KeptClick
    <3> QED
      BY <3>2, <3>3
  <2>3. ASSUME NEW p \in Thread!Ops PROVE Known(op[p].snapshot)' /\ Unsaved(op[p].snapshot)'
    <3>1. PICK L \in SUBSET Thread!Entries : L = op'[p].snapshot /\ Known(L) /\ Unsaved(L)
      <4>1. CASE p = o
        <5>1. Known({}) /\ Unsaved({}) /\ {} \in SUBSET Thread!Entries
          BY DEF Known, Unsaved
        <5> QED
          BY <4>1, <5>1, <1>0, <1>2, <1>3
      <4>2. CASE p # o
        BY <4>2, <1>0, <1>3, ClickTypes DEF CommentInv, ListsOK, KeptClick
      <4> QED
        BY <4>1, <4>2
    <3>2. Known(op[p].snapshot)'
      BY <3>1, <1>5 DEF Known
    <3>3. Unsaved(L)'
      BY <3>1, <1>8
    <3>4. Unsaved(op[p].snapshot)'
      BY <3>1, <3>3 DEF Unsaved
    <3> QED
      BY <3>2, <3>4
  <2> QED
    BY <2>1, <2>2, <2>3 DEF ListsOK
<1>10. PagesOK'
  <2>1. \A f \in Fetches : KeptFetch(f)
    BY <1>1 DEF KeptFetch
  <2> QED
    BY <2>1, <1>0, <1>5, PagesStay DEF CommentInv
<1>11. OrderOK'
  <2> SUFFICES ASSUME ~overtaken
               PROVE  /\ Orderly(view)'
                      /\ \A p \in Thread!Ops : Alone(p)' /\ op'[p].kind = "DELETE"
                           => Orderly(op[p].snapshot)'
    BY <1>1 DEF OrderOK, Alone
  <2>1. Sent(view) /\ (~twice => Unique(view))
    BY DEF CommentInv, OrderOK, Orderly
  <2>2. Sent(view)'
    BY <2>1, <1>1, <1>4, KeyFacts DEF Sent
  <2>3. ~twice => Unique(M)
    BY <2>1, <1>0, <1>1 DEF Unsaved
  <2>4. Orderly(view)'
    BY <2>2, <2>3, <1>1 DEF Orderly, Unique
  <2>5. ASSUME NEW p \in Thread!Ops, Alone(p)', op'[p].kind = "DELETE"
        PROVE  Orderly(op[p].snapshot)'
    <3>1. p = o
      BY <2>5, <1>3, <1>4 DEF Alone
    <3>2. op'[p].snapshot = view
      BY <2>5, <3>1, <1>2, <1>3
    <3> QED
      BY <3>2, <2>1, <1>1, <1>4 DEF Orderly, Sent, Unique
  <2> QED
    BY <2>4, <2>5
<1> QED
  BY <1>5, <1>6, <1>7, <1>9, <1>10, <1>11 DEF CommentInv

LEMMA NewClick ==
  /\ Thread!NoOp \in Clicks /\ Thread!NoOp.kind = "ADD"
  /\ Thread!NoOp.target = Thread!NoParent /\ Thread!NoOp.ok = FALSE
  /\ Thread!NoOp.touched = FALSE /\ Thread!NoOp.snapshot = {}
  /\ Thread!NoOp.id = Thread!NoParent
BY DEF Thread!NoOp, Clicks, Thread!ClickKinds, Thread!Texts

LEMMA AddStep ==
  ASSUME CommentInv, NEW o \in Thread!Ops, Thread!AddComment(o)
  PROVE  CommentInv'
<1>1. PICK p \in {e.key : e \in {v \in view : v.parent = Thread!NoParent /\ v.key \in Comments}}
                 \cup {Thread!NoParent} :
        Thread!Begin(o, [Thread!NoOp EXCEPT !.kind = "ADD", !.target = p],
                     view \cup {Thread!Entry(Thread!temp(o), p, FALSE, "x")})
  BY DEF Thread!AddComment
<1> DEFINE click == [Thread!NoOp EXCEPT !.kind = "ADD", !.target = p]
           new == Thread!Entry(Thread!temp(o), p, FALSE, "x")
<1>2. view \in SUBSET Thread!Entries /\ Known(view)
  BY DEF CommentInv, Types, TabTypes, ListsOK
<1>3. p \in Comments \cup {Thread!NoParent}
  BY <1>1
<1>4. p # Thread!NoParent => p \in spent /\ (p \in Thread!Existing
                                               => comment[p].parent = Thread!NoParent)
  BY <1>1, <1>2 DEF Known
<1>5. /\ click \in Clicks /\ ~click.ok /\ ~click.touched /\ click.target = p
      /\ click.kind = "ADD" /\ click.snapshot = {}
  BY <1>3, NewClick DEF Clicks, Thread!ClickKinds
<1>6. new \in Thread!Entries /\ new.key = Thread!temp(o) /\ new.parent = p
  BY <1>3, KeyFacts DEF Thread!Entry, Thread!Entries, Thread!Texts
<1>7. Thread!Begin(o, click, view \cup {new})
  BY <1>1
<1> HIDE DEF click, new
<1>8. view \cup {new} \in SUBSET Thread!Entries
  BY <1>2, <1>6
<1>9. Unique(view) /\ (\A g \in view : g.key # Thread!temp(o)) => Unique(view \cup {new})
  BY <1>6 DEF Unique
<1>10. \A e \in view \cup {new} : \/ \E g \in view : e.key = g.key /\ e.parent = g.parent
                                  \/ e.key = Thread!temp(o) /\ click.kind = "ADD"
                                     /\ e.parent = click.target
  BY <1>5, <1>6
<1> QED
  BY <1>4, <1>5, <1>7, <1>8, <1>9, <1>10, BeginStep

\* A change of the entries under a key leaves keys and parents as they are.
LEMMA DoneFacts ==
  ASSUME NEW L \in SUBSET Thread!Entries, NEW k, NEW b \in BOOLEAN
  PROVE  /\ Thread!WithDone(L, k, b) \in SUBSET Thread!Entries
         /\ \A e \in Thread!WithDone(L, k, b) :
               \E g \in L : e.key = g.key /\ e.parent = g.parent
         /\ Unique(L) => Unique(Thread!WithDone(L, k, b))
<1>1. ASSUME NEW g \in L
      PROVE  /\ [g EXCEPT !.done = b] \in Thread!Entries
             /\ [g EXCEPT !.done = b].key = g.key /\ [g EXCEPT !.done = b].parent = g.parent
  BY DEF Thread!Entries
<1>2. \A e \in Thread!WithDone(L, k, b) : \E g \in L :
         /\ e = IF g.key = k THEN [g EXCEPT !.done = b] ELSE g
         /\ e.key = g.key /\ e.parent = g.parent /\ e \in Thread!Entries
  BY <1>1 DEF Thread!WithDone
<1>3. Unique(L) => Unique(Thread!WithDone(L, k, b))
  BY <1>2 DEF Unique
<1> QED
  BY <1>2, <1>3

LEMMA TextFacts ==
  ASSUME NEW L \in SUBSET Thread!Entries, NEW k, NEW t \in Thread!Texts
  PROVE  /\ Thread!WithText(L, k, t) \in SUBSET Thread!Entries
         /\ \A e \in Thread!WithText(L, k, t) :
               \E g \in L : e.key = g.key /\ e.parent = g.parent
         /\ Unique(L) => Unique(Thread!WithText(L, k, t))
<1>1. ASSUME NEW g \in L
      PROVE  /\ [g EXCEPT !.text = t] \in Thread!Entries
             /\ [g EXCEPT !.text = t].key = g.key /\ [g EXCEPT !.text = t].parent = g.parent
  BY DEF Thread!Entries
<1>2. \A e \in Thread!WithText(L, k, t) : \E g \in L :
         /\ e = IF g.key = k THEN [g EXCEPT !.text = t] ELSE g
         /\ e.key = g.key /\ e.parent = g.parent /\ e \in Thread!Entries
  BY <1>1 DEF Thread!WithText
<1>3. Unique(L) => Unique(Thread!WithText(L, k, t))
  BY <1>2 DEF Unique
<1> QED
  BY <1>2, <1>3

LEMMA WithoutFacts ==
  ASSUME NEW L \in SUBSET Thread!Entries, NEW k
  PROVE  /\ Thread!Without(L, k) \in SUBSET L /\ \A e \in Thread!Without(L, k) : e.key # k
         /\ Unique(L) => Unique(Thread!Without(L, k))
BY DEF Thread!Without, Unique

LEMMA ResolveStep ==
  ASSUME CommentInv, NEW o \in Thread!Ops, Thread!ResolveComment(o)
  PROVE  CommentInv'
<1>1. PICK e \in view :
        /\ e.parent = Thread!NoParent /\ e.key \in Comments
        /\ Thread!Begin(o, [Thread!NoOp EXCEPT !.kind = "RESOLVE", !.target = e.key,
                            !.done = e.done],
                        Thread!WithDone(view, e.key, ~e.done))
  BY DEF Thread!ResolveComment
<1> DEFINE click == [Thread!NoOp EXCEPT !.kind = "RESOLVE", !.target = e.key, !.done = e.done]
           b == ~e.done
           M == Thread!WithDone(view, e.key, b)
<1>2. view \in SUBSET Thread!Entries /\ e.done \in BOOLEAN /\ b \in BOOLEAN
      /\ "x" \in Thread!Texts
  BY DEF CommentInv, Types, TabTypes, Thread!Entries, Thread!Texts
<1>3. /\ click \in Clicks /\ ~click.ok /\ ~click.touched
      /\ click.kind = "RESOLVE" /\ click.snapshot = {}
  BY <1>1, <1>2, NewClick DEF Clicks, Thread!ClickKinds
<1>4. Thread!Begin(o, click, M)
  BY <1>1
<1> HIDE DEF click, b
<1>5. /\ M \in SUBSET Thread!Entries /\ (Unique(view) => Unique(M))
      /\ \A d \in M : \E g \in view : d.key = g.key /\ d.parent = g.parent
  BY <1>2, DoneFacts
<1> HIDE DEF M
<1> QED
  BY <1>3, <1>4, <1>5, BeginStep

LEMMA EditStep ==
  ASSUME CommentInv, NEW o \in Thread!Ops, Thread!EditComment(o)
  PROVE  CommentInv'
<1>1. PICK e \in view, t \in Thread!Texts :
        /\ e.key \in Comments
        /\ Thread!Begin(o, [Thread!NoOp EXCEPT !.kind = "EDIT", !.target = e.key, !.text = t],
                        view)
  BY DEF Thread!EditComment
<1> DEFINE click == [Thread!NoOp EXCEPT !.kind = "EDIT", !.target = e.key, !.text = t]
<1>2. view \in SUBSET Thread!Entries
  BY DEF CommentInv, Types, TabTypes
<1>3. /\ click \in Clicks /\ ~click.ok /\ ~click.touched
      /\ click.kind = "EDIT" /\ click.snapshot = {}
  BY <1>1, NewClick DEF Clicks, Thread!ClickKinds
<1>4. Thread!Begin(o, click, view)
  BY <1>1
<1> HIDE DEF click
<1> QED
  BY <1>2, <1>3, <1>4, BeginStep

LEMMA DeleteStep ==
  ASSUME CommentInv, NEW o \in Thread!Ops, Thread!DeleteComment(o)
  PROVE  CommentInv'
<1>1. PICK e \in view :
        /\ e.key \in Comments
        /\ Thread!Begin(o, [Thread!NoOp EXCEPT !.kind = "DELETE", !.target = e.key,
                            !.snapshot = view],
                        Thread!Without(view, e.key))
  BY DEF Thread!DeleteComment
<1> DEFINE click == [Thread!NoOp EXCEPT !.kind = "DELETE", !.target = e.key, !.snapshot = view]
           M == Thread!Without(view, e.key)
<1>2. view \in SUBSET Thread!Entries /\ "x" \in Thread!Texts /\ TRUE \in BOOLEAN
  BY DEF CommentInv, Types, TabTypes, Thread!Texts
<1>3. /\ click \in Clicks /\ ~click.ok /\ ~click.touched
      /\ click.kind = "DELETE" /\ click.snapshot = view
  BY <1>1, <1>2, NewClick DEF Clicks, Thread!ClickKinds
<1>4. Thread!Begin(o, click, M)
  BY <1>1
<1> HIDE DEF click
<1>5. M \in SUBSET view /\ (Unique(view) => Unique(M))
  BY <1>2, WithoutFacts
<1> HIDE DEF M
<1>6. M \in SUBSET Thread!Entries
      /\ \A d \in M : \E g \in view : d.key = g.key /\ d.parent = g.parent
  BY <1>2, <1>5
<1> QED
  BY <1>3, <1>4, <1>5, <1>6, BeginStep

LEMMA ClickStep ==
  ASSUME CommentInv, NEW o \in Thread!Ops, Thread!Click(o)
  PROVE  CommentInv'
BY AddStep, ResolveStep, EditStep, DeleteStep DEF Thread!Click

\* The request of a click, lost or refused.
LEMMA RefuseStep ==
  ASSUME CommentInv, NEW o \in Thread!Ops, Thread!ServerRefuses(o)
  PROVE  CommentInv'
<1>0. ServerTypes /\ TabTypes /\ RowsOK /\ op \in [Thread!Ops -> Clicks]
  BY DEF CommentInv, Types, TabTypes
<1>1. /\ op[o].phase = "sent"
      /\ UNCHANGED <<Thread!server, view, etag, mutating, fetch, overtaken, rewound, twice, short>>
      /\ op' = [op EXCEPT ![o].phase = "answered", ![o].ok = FALSE]
  BY DEF Thread!ServerRefuses
<1>2. op[o].ok = FALSE
  BY <1>1, <1>0, ClickTypes DEF CommentInv, ClicksOK
<1>3. op' \in [Thread!Ops -> Clicks] /\ op'[o].phase = "answered"
      /\ \A p \in Thread!Ops : /\ p # o => op'[p] = op[p]
                               /\ op'[p].kind = op[p].kind /\ op'[p].target = op[p].target
                               /\ op'[p].ok = op[p].ok /\ op'[p].id = op[p].id
                               /\ op'[p].snapshot = op[p].snapshot
                               /\ op'[p].touched = op[p].touched
  <2>1. op[o] \in Clicks
    BY <1>0
  <2>2. op' = [op EXCEPT ![o] = [op[o] EXCEPT !.phase = "answered", !.ok = FALSE]]
    BY <1>1
  <2>3. [op[o] EXCEPT !.phase = "answered", !.ok = FALSE] \in Clicks
    BY <2>1 DEF Clicks
  <2>4. op' \in [Thread!Ops -> Clicks]
    BY <2>2, <2>3, <1>0
  <2>5. op'[o] = [op[o] EXCEPT !.phase = "answered", !.ok = FALSE]
    BY <2>2, <1>0
  <2>6. /\ op'[o].phase = "answered"
        /\ op'[o].kind = op[o].kind /\ op'[o].target = op[o].target
        /\ op'[o].ok = op[o].ok /\ op'[o].id = op[o].id
        /\ op'[o].snapshot = op[o].snapshot /\ op'[o].touched = op[o].touched
    BY <2>1, <2>5, <1>2 DEF Clicks
  <2>7. \A p \in Thread!Ops : p # o => op'[p] = op[p]
    BY <2>2, <1>0
  <2> QED
    BY <2>4, <2>6, <2>7
<1>4. Thread!InFlight' = Thread!InFlight
  BY <1>1, <1>3 DEF Thread!InFlight
<1>5. ServerTypes' /\ RowsOK' /\ RowsMove /\ Thread!Existing' = Thread!Existing
      /\ comment' = comment /\ spent' = spent
  BY <1>0, <1>1, ServerStays DEF Thread!server
<1>6. Types'
  BY <1>0, <1>1, <1>3, <1>5 DEF Types, TabTypes
<1>7. ClicksOK'
  BY <1>1, <1>3, <1>5 DEF CommentInv, ClicksOK
<1>8. \A p \in Thread!Ops : op'[p].phase # "idle" <=> op[p].phase # "idle"
  BY <1>1, <1>3
<1>9. ListsOK'
  <2>1. Known(view)' /\ Unsaved(view)'
    BY <1>1, <1>3, <1>4, <1>5, <1>8 DEF CommentInv, ListsOK, Known, Unsaved
  <2>2. ASSUME NEW p \in Thread!Ops PROVE Known(op[p].snapshot)' /\ Unsaved(op[p].snapshot)'
    <3>1. op[p].snapshot \in SUBSET Thread!Entries /\ Known(op[p].snapshot)
          /\ Unsaved(op[p].snapshot)
          /\ op'[p].snapshot = op[p].snapshot
      BY <1>0, <1>3, ClickTypes DEF CommentInv, ListsOK
    <3>2. Known(op[p].snapshot)'
      BY <3>1, <1>5 DEF Known
    <3>3. Unsaved(op[p].snapshot)'
      BY <3>1, <1>3, <1>4, <1>8 DEF Unsaved
    <3> QED
      BY <3>2, <3>3
  <2> QED
    BY <2>1, <2>2 DEF ListsOK
<1>10. PagesOK'
  <2>1. \A f \in Fetches : KeptFetch(f)
    BY <1>1 DEF KeptFetch
  <2> QED
    BY <2>1, <1>0, <1>5, PagesStay DEF CommentInv
<1>11. OrderOK'
  <2>1. \A p \in Thread!Ops : Alone(p)' <=> Alone(p)
    BY <1>3, <1>4 DEF Alone
  <2> QED
    BY <2>1, <1>1, <1>3, <1>4 DEF CommentInv, OrderOK, Orderly, Sent, Unique
<1> QED
  BY <1>5, <1>6, <1>7, <1>9, <1>10, <1>11 DEF CommentInv

\* What the answer makes of the list says what it must, and is in order when nothing
\* but the click has rewritten the list.
LEMMA AnsweredFacts ==
  ASSUME CommentInv, NEW o \in Thread!Ops, op[o].phase = "answered"
  PROVE  /\ Thread!Answered(o) \in SUBSET Thread!Entries /\ Known(Thread!Answered(o))
         /\ Unsaved(Thread!Answered(o))
         /\ \A e \in Thread!Answered(o) : e.key # Thread!temp(o)
         /\ ~overtaken /\ (Alone(o) \/ Thread!Answered(o) = view) => Orderly(Thread!Answered(o))
<1>0. /\ ServerTypes /\ TabTypes /\ ClicksOK /\ view \in SUBSET Thread!Entries
      /\ Known(view) /\ Unsaved(view) /\ OrderOK /\ o \in Thread!InFlight
      /\ Known(op[o].snapshot) /\ Unsaved(op[o].snapshot)
  BY DEF CommentInv, Types, TabTypes, ListsOK, Thread!InFlight
<1>1. /\ op[o].kind \in Thread!ClickKinds /\ op[o].target \in Comments \cup {Thread!NoParent}
      /\ op[o].done \in BOOLEAN /\ op[o].text \in Thread!Texts /\ op[o].ok \in BOOLEAN
      /\ op[o].id \in Comments \cup {Thread!NoParent}
      /\ op[o].snapshot \in SUBSET Thread!Entries
  BY <1>0, ClickTypes
\* A list with the keys and parents of the one on the screen.
<1>2. ASSUME NEW M \in SUBSET Thread!Entries,
             \A e \in M : \E g \in view : e.key = g.key /\ e.parent = g.parent,
             Unique(view) => Unique(M)
      PROVE  Known(M) /\ Unsaved(M) /\ (Orderly(view) => Orderly(M))
  <2>1. Known(M)
    BY <1>0, <1>2 DEF Known
  <2>2. Unsaved(M)
    <3>1. SUFFICES ASSUME NEW e \in M, NEW p \in Thread!Ops, e.key = Thread!temp(p)
                   PROVE  /\ op[p].phase # "idle"
                          /\ p \in Thread!InFlight =>
                               /\ op[p].kind = "ADD" /\ e.parent = op[p].target
                               /\ op[p].ok => \A g \in M : g.key # op[p].id
      BY DEF Unsaved
    <3>2. PICK g \in view : e.key = g.key /\ e.parent = g.parent
      BY <1>2
    <3>3. g.key = Thread!temp(p)
      BY <3>1, <3>2
    <3>4. /\ op[p].phase # "idle"
          /\ p \in Thread!InFlight => /\ op[p].kind = "ADD" /\ g.parent = op[p].target
                                      /\ op[p].ok => \A h \in view : h.key # op[p].id
      BY <3>3, <1>0 DEF Unsaved
    <3>5. (\A h \in view : h.key # op[p].id) => \A h \in M : h.key # op[p].id
      BY <1>2
    <3> QED
      BY <3>2, <3>4, <3>5
  <2>3. Sent(view) => Sent(M)
    BY <1>2 DEF Sent
  <2> QED
    BY <1>2, <2>1, <2>2, <2>3 DEF Orderly
\* Only an unsaved comment has an entry of its own.
<1>3. op[o].kind # "ADD" => /\ \A e \in view : e.key # Thread!temp(o)
                            /\ \A e \in op[o].snapshot : e.key # Thread!temp(o)
  BY <1>0 DEF Unsaved
<1>4. ~overtaken => Orderly(view)
  BY <1>0 DEF OrderOK
<1>5. CASE op[o].kind = "ADD" /\ op[o].ok
  <2> DEFINE id == op[o].id
             saved(e) == IF e.key = Thread!temp(o)
                THEN Thread!Entry(id, e.parent, FALSE, "x") ELSE e
             M == {saved(e) : e \in view}
  <2>1. Thread!Answered(o) = M
    BY <1>5 DEF Thread!Answered
  <2>2. id \in spent /\ id \in Comments
        /\ (id \in Thread!Existing => comment[id].parent = op[o].target)
    BY <1>0, <1>5 DEF ClicksOK, ServerTypes
  <2>3. ASSUME NEW e \in view
        PROVE  /\ saved(e) \in Thread!Entries /\ saved(e).parent = e.parent
               /\ e.key = Thread!temp(o) => saved(e).key = id /\ e.parent = op[o].target
               /\ e.key # Thread!temp(o) => saved(e) = e
    <3>1. e \in Thread!Entries /\ e.parent \in Comments \cup {Thread!NoParent}
      BY <1>0, EntryTypes
    <3>2. CASE e.key = Thread!temp(o)
      <4>1. saved(e) = [key |-> id, parent |-> e.parent, done |-> FALSE, text |-> "x"]
        BY <3>2 DEF Thread!Entry
      <4>2. saved(e) \in Thread!Entries
        <5>1. [key |-> id, parent |-> e.parent, done |-> FALSE, text |-> "x"] \in Thread!Entries
          BY <3>1, <2>2, KeyFacts DEF Thread!Entries, Thread!Texts
        <5> QED
          BY <4>1, <5>1
      <4>3. e.parent = op[o].target
        BY <3>2, <1>0 DEF Unsaved
      <4> QED
        <5> DEFINE r == [key |-> id, parent |-> e.parent, done |-> FALSE, text |-> "x"]
        <5>1. r.key = id /\ r.parent = e.parent
          OBVIOUS
        <5>2. saved(e) = r
          BY <4>1
        <5> HIDE DEF saved, id, r
        <5>3. saved(e).key = id /\ saved(e).parent = e.parent
          BY <5>1, <5>2
        <5> QED
          BY <3>2, <4>2, <4>3, <5>3
    <3> QED
      BY <3>1, <3>2
  <2> HIDE DEF saved
  <2>4. ASSUME NEW x \in M
        PROVE  /\ x \in Thread!Entries /\ x.key # Thread!temp(o)
               /\ \/ x \in view
                  \/ x.key = id /\ x.parent = op[o].target
                     /\ \E e \in view : e.key = Thread!temp(o) /\ x = saved(e)
    BY <2>2, <2>3, KeyFacts
  <2>5. Known(M)
    BY <2>2, <2>4, <1>0 DEF Known
  <2>6. (\E e \in view : e.key = Thread!temp(o)) => \A g \in view : g.key # id
    BY <1>0, <1>5 DEF Unsaved
  <2>7. Unsaved(M)
    <3>1. SUFFICES ASSUME NEW e \in M, NEW p \in Thread!Ops, e.key = Thread!temp(p)
                   PROVE  /\ op[p].phase # "idle"
                          /\ p \in Thread!InFlight =>
                               /\ op[p].kind = "ADD" /\ e.parent = op[p].target
                               /\ op[p].ok => \A g \in M : g.key # op[p].id
      BY DEF Unsaved
    <3>2. e \in view /\ p # o
      BY <3>1, <2>2, <2>4, KeyFacts
    <3>3. /\ op[p].phase # "idle"
          /\ p \in Thread!InFlight => /\ op[p].kind = "ADD" /\ e.parent = op[p].target
                                      /\ op[p].ok => \A h \in view : h.key # op[p].id
      BY <3>1, <3>2, <1>0 DEF Unsaved
    <3>4. op[p].kind = "ADD" /\ op[p].ok => op[p].id # id
      BY <3>2, <1>0, <1>5 DEF ClicksOK
    <3> QED
      BY <3>3, <3>4, <2>4
  <2>8. Orderly(view) => Orderly(M)
    <3>1. Sent(view) => Sent(M)
      <4>1. \A x \in M, p \in Thread!Ops : x.key = Thread!temp(p) => x \in view
        BY <2>2, <2>4, KeyFacts
      <4> QED
        BY <4>1 DEF Sent
    <3>2. Unique(view) => Unique(M)
      <4>1. SUFFICES ASSUME Unique(view), NEW x \in M, NEW y \in M, x.key = y.key
                     PROVE  x = y
        BY DEF Unique
      <4>2. CASE x \in view /\ y \in view
        BY <4>1, <4>2 DEF Unique
      <4>3. CASE x \notin view /\ y \notin view
        BY <4>1, <4>3, <2>4 DEF Unique
      <4>4. ~(x \in view /\ y \notin view) /\ ~(x \notin view /\ y \in view)
        BY <4>1, <2>4, <2>6
      <4> QED
        BY <4>2, <4>3, <4>4
    <3> QED
      BY <3>1, <3>2 DEF Orderly
  <2> HIDE DEF M
  <2> QED
    BY <1>4, <2>1, <2>4, <2>5, <2>7, <2>8
<1>6. CASE op[o].kind = "ADD" /\ ~op[o].ok
  <2>1. Thread!Answered(o) = Thread!Without(view, Thread!temp(o))
    BY <1>6 DEF Thread!Answered, Thread!Discard
  <2> DEFINE M == Thread!Without(view, Thread!temp(o))
  <2>2. /\ M \in SUBSET view /\ (\A e \in M : e.key # Thread!temp(o))
        /\ (Unique(view) => Unique(M))
    BY <1>0, <1>1, WithoutFacts
  <2> HIDE DEF M
  <2>3. Known(M) /\ Unsaved(M) /\ (Orderly(view) => Orderly(M))
    BY <1>0, <1>2, <2>2
  <2> QED
    BY <1>0, <1>4, <2>1, <2>2, <2>3 DEF M
<1>7. CASE op[o].kind = "RESOLVE" /\ ~op[o].ok
  <2> DEFINE M == Thread!WithDone(view, op[o].target, op[o].done)
  <2>1. Thread!Answered(o) = M
    BY <1>7 DEF Thread!Answered
  <2>2. /\ M \in SUBSET Thread!Entries /\ (Unique(view) => Unique(M))
        /\ \A e \in M : \E g \in view : e.key = g.key /\ e.parent = g.parent
    BY <1>0, <1>1, DoneFacts
  <2> HIDE DEF M
  <2>3. Known(M) /\ Unsaved(M) /\ (Orderly(view) => Orderly(M))
    BY <1>2, <2>2
  <2> QED
    BY <1>3, <1>4, <1>7, <2>1, <2>2, <2>3
<1>8. CASE op[o].kind = "EDIT" /\ op[o].ok
  <2> DEFINE M == Thread!WithText(view, op[o].target, op[o].text)
  <2>1. Thread!Answered(o) = M
    BY <1>8 DEF Thread!Answered
  <2>2. /\ M \in SUBSET Thread!Entries /\ (Unique(view) => Unique(M))
        /\ \A e \in M : \E g \in view : e.key = g.key /\ e.parent = g.parent
    BY <1>0, <1>1, TextFacts
  <2> HIDE DEF M
  <2>3. Known(M) /\ Unsaved(M) /\ (Orderly(view) => Orderly(M))
    BY <1>2, <2>2
  <2> QED
    BY <1>3, <1>4, <1>8, <2>1, <2>2, <2>3
<1>9. CASE op[o].kind = "DELETE" /\ ~op[o].ok
  <2>1. Thread!Answered(o) = op[o].snapshot
    BY <1>9 DEF Thread!Answered
  <2>2. ~overtaken /\ Alone(o) => Orderly(op[o].snapshot)
    BY <1>0, <1>9 DEF OrderOK
  <2> QED
    BY <1>0, <1>1, <1>3, <1>4, <1>9, <2>1, <2>2
<1>10. CASE op[o].kind # "ADD" /\ Thread!Answered(o) = view
  BY <1>0, <1>3, <1>4, <1>10
<1> QED
  BY <1>1, <1>5, <1>6, <1>7, <1>8, <1>9, <1>10 DEF Thread!ClickKinds, Thread!Answered

LEMMA AnswerStep ==
  ASSUME CommentInv, NEW o \in Thread!Ops, Thread!Answer(o)
  PROVE  CommentInv'
<1> DEFINE new == [Thread!NoOp EXCEPT !.phase = "done"]
<1>0. ServerTypes /\ TabTypes /\ RowsOK /\ ClicksOK /\ op \in [Thread!Ops -> Clicks]
  BY DEF CommentInv, Types, TabTypes
<1>1. /\ op[o].phase = "answered" /\ view' = Thread!Answered(o)
      /\ op' = Thread!Touch([op EXCEPT ![o] = new], o)
      /\ overtaken' = (overtaken \/ (op[o].touched /\ view' # view)) /\ mutating' = FALSE
      /\ UNCHANGED <<Thread!server, etag, fetch, rewound, twice, short>>
  BY DEF Thread!Answer
<1>2. /\ new \in Clicks /\ new.phase = "done" /\ new.kind = "ADD"
      /\ new.target = Thread!NoParent
      /\ ~new.ok /\ ~new.touched /\ new.snapshot = {}
  BY NewClick DEF Clicks
<1> HIDE DEF new
<1>3. /\ op' \in [Thread!Ops -> Clicks] /\ op'[o] = new
      /\ \A p \in Thread!Ops : p # o => /\ KeptClick(p)
                                        /\ p \in Thread!InFlight => op'[p].touched = TRUE
  BY <1>0, <1>1, <1>2, TouchFacts
<1>4. o \in Thread!InFlight /\ Thread!InFlight' = Thread!InFlight \ {o}
  BY <1>1, <1>2, <1>3 DEF Thread!InFlight, KeptClick
<1>5. ServerTypes' /\ RowsOK' /\ RowsMove /\ Thread!Existing' = Thread!Existing
      /\ comment' = comment /\ spent' = spent
  BY <1>0, <1>1, ServerStays DEF Thread!server
<1>6. /\ view' \in SUBSET Thread!Entries /\ Known(view') /\ Unsaved(view')
      /\ \A e \in view' : e.key # Thread!temp(o)
      /\ ~overtaken /\ (Alone(o) \/ view' = view) => Orderly(view')
  BY <1>1, AnsweredFacts
<1>7. Types'
  <2>1. overtaken' \in BOOLEAN
    BY <1>1
  <2> QED
    BY <2>1, <1>0, <1>1, <1>3, <1>5, <1>6 DEF Types, TabTypes
<1>8. ClicksOK'
  <2>1. ASSUME NEW p \in Thread!Ops
        PROVE  /\ op'[p].ok => op'[p].phase = "answered"
               /\ (op'[p].kind = "ADD" /\ op'[p].ok) =>
                    op'[p].id \in spent
                    /\ (op'[p].id \in Thread!Existing
                          => comment[op'[p].id].parent = op'[p].target)
               /\ (op'[p].kind = "ADD" /\ op'[p].target # Thread!NoParent) =>
                    op'[p].target \in spent
                    /\ (op'[p].target \in Thread!Existing
                          => comment[op'[p].target].parent = Thread!NoParent)
    <3>1. CASE p = o
      BY <3>1, <1>2, <1>3
    <3>2. CASE p # o
      BY <3>2, <1>0, <1>3 DEF ClicksOK, KeptClick
    <3> QED
      BY <3>1, <3>2
  <2>2. \A p, q \in Thread!Ops :
          (p # q /\ op'[p].kind = "ADD" /\ op'[p].ok /\ op'[q].kind = "ADD" /\ op'[q].ok) =>
            op'[p].id # op'[q].id
    BY <1>0, <1>2, <1>3 DEF ClicksOK, KeptClick
  <2> QED
    BY <2>1, <2>2, <1>5 DEF ClicksOK
<1>9. ASSUME NEW L \in SUBSET Thread!Entries, Unsaved(L)
      PROVE  Unsaved(L)'
  <2>1. SUFFICES ASSUME NEW e \in L, NEW p \in Thread!Ops, e.key = Thread!temp(p)
                 PROVE  /\ op'[p].phase # "idle"
                        /\ p \in Thread!InFlight' =>
                             /\ op'[p].kind = "ADD" /\ e.parent = op'[p].target
                             /\ op'[p].ok => \A g \in L : g.key # op'[p].id
    BY DEF Unsaved
  <2>2. CASE p = o
    BY <2>2, <1>2, <1>3, <1>4
  <2>3. CASE p # o
    BY <1>3, <1>4, <1>9, <2>1, <2>3 DEF Unsaved, KeptClick
  <2> QED
    BY <2>2, <2>3
<1>10. ListsOK'
  <2>1. Known(view)'
    BY <1>5, <1>6 DEF Known
  <2>2. Unsaved(view)'
    <3>1. PICK L \in SUBSET Thread!Entries : L = view' /\ Unsaved(L)
      BY <1>6
    <3>2. Unsaved(L)'
      BY <3>1, <1>9
    <3> QED
      BY <3>1, <3>2 DEF Unsaved
  <2>3. ASSUME NEW p \in Thread!Ops PROVE Known(op[p].snapshot)' /\ Unsaved(op[p].snapshot)'
    <3>1. PICK L \in SUBSET Thread!Entries : L = op'[p].snapshot /\ Known(L) /\ Unsaved(L)
      <4>1. CASE p = o
        <5>1. Known({}) /\ Unsaved({}) /\ {} \in SUBSET Thread!Entries
          BY DEF Known, Unsaved
        <5> QED
          BY <4>1, <5>1, <1>2, <1>3
      <4>2. CASE p # o
        BY <4>2, <1>0, <1>3, ClickTypes DEF CommentInv, ListsOK, KeptClick
      <4> QED
        BY <4>1, <4>2
    <3>2. Known(op[p].snapshot)'
      BY <3>1, <1>5 DEF Known
    <3>3. Unsaved(L)'
      BY <3>1, <1>9
    <3>4. Unsaved(op[p].snapshot)'
      BY <3>1, <3>3 DEF Unsaved
    <3> QED
      BY <3>2, <3>4
  <2> QED
    BY <2>1, <2>2, <2>3 DEF ListsOK
<1>11. PagesOK'
  <2>1. \A f \in Fetches : KeptFetch(f)
    BY <1>1 DEF KeptFetch
  <2> QED
    BY <2>1, <1>0, <1>5, PagesStay DEF CommentInv
<1>12. OrderOK'
  <2>1. \A p \in Thread!Ops : ~Alone(p)'
    BY <1>3, <1>4 DEF Alone
  <2>2. ~overtaken' => Orderly(view')
    <3>1. op[o].touched \in BOOLEAN
      BY <1>0, ClickTypes
    <3> QED
      BY <3>1, <1>1, <1>4, <1>6 DEF Alone
  <2>3. Orderly(view') => Orderly(view)'
    <3>1. ASSUME Sent(view') PROVE Sent(view)'
      <4>1. ASSUME NEW e \in view', NEW p \in Thread!Ops, e.key = Thread!temp(p)
            PROVE p \in Thread!InFlight'
        BY <3>1, <4>1, <1>4, <1>6 DEF Sent
      <4> QED
        BY <4>1 DEF Sent
    <3> QED
      BY <3>1, <1>1 DEF Orderly, Unique
  <2> QED
    BY <2>1, <2>2, <2>3 DEF OrderOK
<1> QED
  BY <1>5, <1>7, <1>8, <1>10, <1>11, <1>12 DEF CommentInv

-----------------------------------------------------------------------------
(* The requests for the list.                                              *)

LEMMA NewFetch ==
  /\ Thread!NoFetch \in Requested /\ Thread!NoFetch.phase = "idle" /\ Thread!NoFetch.got = {}
  /\ Thread!NoFetch.tag = Thread!NoTag
  /\ Thread!NoFetch.header = Thread!NoTag /\ Thread!NoFetch.offset = 0
  /\ Thread!NoFetch.twice = FALSE
  /\ Thread!NoFetch.rewound = FALSE /\ Thread!NoFetch.short = FALSE
BY DEF Thread!NoFetch, Requested, FetchPhases

\* Pages that come are no business of the rest until they are applied.
LEMMA FetchOnly ==
  ASSUME CommentInv, UNCHANGED <<Thread!server, view, etag, mutating, op, overtaken, rewound,
                                twice, short>>,
         fetch' \in [Fetches -> Requested], PagesOK'
  PROVE  CommentInv'
<1>0. ServerTypes /\ TabTypes /\ RowsOK
  BY DEF CommentInv, Types
<1>1. ServerTypes' /\ RowsOK' /\ Thread!Existing' = Thread!Existing /\ comment' = comment
      /\ spent' = spent
  BY <1>0, ServerStays DEF Thread!server
<1>2. Types'
  BY <1>0, <1>1 DEF Types, TabTypes
<1>3. ClicksOK' /\ ListsOK' /\ OrderOK'
  BY <1>1 DEF CommentInv, ClicksOK, ListsOK, OrderOK, Known, Unsaved, Orderly, Sent, Unique,
              Alone, Thread!InFlight
<1> QED
  BY <1>1, <1>2, <1>3 DEF CommentInv

\* One request moves on with what it has got, or gives it up.
LEMMA OneFetchMoves ==
  ASSUME CommentInv, NEW f \in Fetches, NEW new \in Requested,
         UNCHANGED <<Thread!server, view, etag, mutating, op, overtaken, rewound, twice, short>>,
         fetch' = [fetch EXCEPT ![f] = new],
         Known(new.got), \A e \in new.got : e.key \in Comments,
         ~new.twice => Unique(new.got)
  PROVE  CommentInv'
<1>0. ServerTypes /\ TabTypes /\ RowsOK /\ fetch \in [Fetches -> Requested]
  BY DEF CommentInv, Types, TabTypes
<1>1. Thread!Existing' = Thread!Existing /\ comment' = comment /\ spent' = spent
  BY <1>0, ServerStays DEF Thread!server
<1>2. fetch' \in [Fetches -> Requested]
  BY <1>0
<1>3. ASSUME NEW g \in Fetches
      PROVE  /\ Known(fetch'[g].got) /\ \A e \in fetch'[g].got : e.key \in Comments
             /\ ~fetch'[g].twice => Unique(fetch'[g].got)
  <2>1. CASE g = f
    BY <2>1, <1>0
  <2>2. CASE g # f
    BY <2>2, <1>0 DEF CommentInv, PagesOK
  <2> QED
    BY <2>1, <2>2
<1>4. PagesOK'
  BY <1>1, <1>3 DEF PagesOK, Known, Unique
<1> QED
  BY <1>2, <1>4, FetchOnly

LEMMA StartStep ==
  ASSUME CommentInv, NEW f \in Fetches, NEW header \in Thread!Tags \cup {Thread!NoTag},
         Thread!Start(f, header)
  PROVE  CommentInv'
<1> DEFINE new == [Thread!NoFetch EXCEPT !.phase = "tag", !.header = header]
<1>1. new \in Requested /\ new.got = {}
  BY NewFetch DEF Requested, FetchPhases
<1>2. /\ fetch' = [fetch EXCEPT ![f] = new]
      /\ UNCHANGED <<Thread!server, view, etag, mutating, op, overtaken, rewound, twice, short>>
  BY DEF Thread!Start
<1> HIDE DEF new
<1>3. Known(new.got) /\ Unique(new.got) /\ \A e \in new.got : e.key \in Comments
  BY <1>1 DEF Known, Unique
<1> QED
  BY <1>1, <1>2, <1>3, OneFetchMoves

LEMMA FailStep ==
  ASSUME CommentInv, NEW f \in Fetches, Thread!FetchFails(f)
  PROVE  CommentInv'
<1>1. Known(Thread!NoFetch.got) /\ Unique(Thread!NoFetch.got)
      /\ \A e \in Thread!NoFetch.got : e.key \in Comments
  BY NewFetch DEF Known, Unique
<1>2. /\ fetch' = [fetch EXCEPT ![f] = Thread!NoFetch]
      /\ UNCHANGED <<Thread!server, view, etag, mutating, op, overtaken, rewound, twice, short>>
  BY DEF Thread!FetchFails
<1> QED
  BY <1>1, <1>2, NewFetch, OneFetchMoves

\* A set of numbers has a least one, and a bounded one has a greatest one.
LEMMA LeastExists ==
  ASSUME NEW T \in SUBSET Nat, T # {}
  PROVE  \E m \in T : \A k \in T : m <= k
<1> DEFINE R == OpToRel(<, Nat)
<1>1. IsWellFoundedOn(R, Nat)
  BY NatLessThanWellFounded
<1>2. \A x, y \in Nat : x < y => <<x, y>> \in R
  BY DEF OpToRel
<1> HIDE DEF R
<1>3. PICK m \in T : \A k \in T : ~(<<k, m>> \in R)
  BY <1>1, WFMin
<1>4. ASSUME NEW k \in T PROVE m <= k
  <2>1. k \in Nat /\ m \in Nat /\ ~(<<k, m>> \in R)
    BY <1>3
  <2>2. ~(k < m)
    BY <1>2, <2>1
  <2> QED
    BY <2>1, <2>2
<1> QED
  BY <1>3, <1>4

LEMMA MaxExists ==
  ASSUME NEW S \in SUBSET Nat, NEW b \in Nat, \A x \in S : x <= b, S # {}
  PROVE  Thread!Max(S) \in S /\ \A x \in S : x <= Thread!Max(S)
<1> DEFINE T == {n \in Nat : \A x \in S : x <= n}
<1>1. PICK m \in T : \A k \in T : m <= k
  <2>1. T \in SUBSET Nat /\ b \in T
    OBVIOUS
  <2> HIDE DEF T
  <2> QED
    BY <2>1, LeastExists
<1>2. m \in S
  <2> SUFFICES ASSUME m \notin S PROVE FALSE
    OBVIOUS
  <2>1. PICK x \in S : TRUE
    OBVIOUS
  <2>2. m # 0
    BY <1>1, <2>1
  <2>3. m - 1 \in T
    BY <1>1, <2>2
  <2> QED
    BY <1>1, <2>2, <2>3
<1>3. \E x \in S : \A y \in S : x >= y
  BY <1>1, <1>2
<1> QED
  BY <1>3 DEF Thread!Max

LEMMA ExistingFinite ==
  ASSUME NEW S \in SUBSET Comments
  PROVE  IsFiniteSet(S) /\ Cardinality(S) \in Nat
BY SharedAssumption, FS_Subset, FS_CardinalityType

LEMMA RevisionFacts ==
  ASSUME ServerTypes, RowsOK
  PROVE  /\ Thread!Revision \in Thread!Tags /\ Thread!Revision # Thread!NoTag
         /\ Thread!Revision.count = Cardinality(Thread!Existing)
         /\ Thread!Revision.last <= clock
         /\ \A c \in Thread!Existing : comment[c].stamp <= Thread!Revision.last
<1> DEFINE S == {comment[c].stamp : c \in Thread!Existing}
           last == IF Thread!Existing = {} THEN 0 ELSE Thread!Max(S)
<1>1. Cardinality(Thread!Existing) \in Nat
  BY ExistingFinite DEF Thread!Existing
<1>2. \A c \in Thread!Existing : comment[c].stamp \in Nat /\ comment[c].stamp <= clock
  BY RowTypes DEF RowsOK, Thread!Existing
<1>3. S \in SUBSET Nat /\ clock \in Nat /\ \A x \in S : x <= clock
  BY <1>2 DEF ServerTypes
<1>4. Thread!Existing # {} => Thread!Max(S) \in S /\ \A x \in S : x <= Thread!Max(S)
  <2>1. Thread!Existing # {} => S # {}
    OBVIOUS
  <2> HIDE DEF S
  <2> QED
    BY <2>1, <1>3, MaxExists
<1>5. last \in Nat /\ last <= clock /\ \A c \in Thread!Existing : comment[c].stamp <= last
  <2>1. CASE Thread!Existing = {}
    BY <2>1, <1>3
  <2>2. CASE Thread!Existing # {}
    <3>1. last = Thread!Max(S)
      BY <2>2
    <3>2. \A c \in Thread!Existing : comment[c].stamp \in S
      OBVIOUS
    <3> HIDE DEF S, last
    <3> QED
      BY <2>2, <3>1, <3>2, <1>3, <1>4
  <2> QED
    BY <2>1, <2>2
<1>6. Thread!Revision = [count |-> Cardinality(Thread!Existing), last |-> last]
  BY SameCount DEF Thread!Revision
<1> HIDE DEF last
<1>7. Thread!Revision.count = Cardinality(Thread!Existing) /\ Thread!Revision.last = last
  BY <1>6
<1>8. Thread!Revision \in Thread!Tags /\ Thread!Revision # Thread!NoTag
  BY <1>1, <1>5, <1>6 DEF Thread!Tags, Thread!NoTag
<1> QED
  BY <1>5, <1>7, <1>8

\* What an answer to either query of the GET route makes of a request: it waits for the
\* other, or has both and is spared the rows or goes on to them.
Answers(f, new) ==
  /\ new \in Requested /\ new.offset = fetch[f].offset /\ new.got = fetch[f].got
  /\ new.twice = fetch[f].twice /\ new.rewound = fetch[f].rewound

RevisionIn(f, new) ==
  /\ Answers(f, new) /\ new.tag = Thread!Revision
  /\ \/ new.phase = "count"
     \/ /\ new.phase = "rows"
        /\ new.short \/ Cardinality(Thread!TopLevel) <= new.total

TotalIn(f, new) ==
  /\ Answers(f, new) /\ new.tag = fetch[f].tag /\ new.total = Cardinality(Thread!TopLevel)
  /\ \/ new.phase = "revision" /\ fetch[f].phase = "tag" /\ fetch[f].offset = 0
     \/ new.phase = "rows" /\ (fetch[f].phase = "count" \/ fetch[f].offset # 0)

LEMMA ReadRevisionFacts ==
  ASSUME ServerTypes, TabTypes, RowsOK, NEW f \in Fetches, Thread!ReadRevision(f)
  PROVE  /\ fetch[f].phase \in {"tag", "revision"} /\ fetch[f].offset = 0
         /\ UNCHANGED <<Thread!server, view, etag, mutating, op, overtaken, rewound, twice, short>>
         /\ \/ fetch' = [fetch EXCEPT ![f] = Thread!NoFetch]
            \/ \E new : fetch' = [fetch EXCEPT ![f] = new] /\ RevisionIn(f, new)
<1>0. fetch \in [Fetches -> Requested] /\ fetch[f] \in Requested
  BY DEF TabTypes
<1>1. /\ Cardinality(Thread!TopLevel) \in Nat /\ Thread!Revision \in Thread!Tags
      /\ Thread!NoTag \in Thread!Tags \cup {Thread!NoTag}
  BY ExistingFinite, RevisionFacts DEF Thread!TopLevel, Thread!Existing
<1>2. fetch[f].total \in Nat
  BY FetchTypes
<1>3. PICK late \in BOOLEAN :
        late <=> (fetch[f].phase = "revision" /\ fetch[f].total < Cardinality(Thread!TopLevel))
  OBVIOUS
<1>4. PICK read :
        /\ read = [fetch[f] EXCEPT !.tag = Thread!Revision, !.short = late]
        /\ read \in Requested /\ Answers(f, read) /\ read.tag = Thread!Revision
        /\ read.short = late /\ read.total = fetch[f].total
  <2> DEFINE k == [fetch[f] EXCEPT !.tag = Thread!Revision, !.short = late]
  <2>1. /\ k \in Requested /\ k.tag = Thread!Revision /\ k.short = late
        /\ k.total = fetch[f].total /\ k.offset = fetch[f].offset /\ k.got = fetch[f].got
        /\ k.twice = fetch[f].twice /\ k.rewound = fetch[f].rewound
    BY <1>0, <1>1 DEF Requested
  <2> HIDE DEF k
  <2>2. Answers(f, k)
    BY <2>1 DEF Answers
  <2> QED
    BY <2>1, <2>2 DEF k
<1>5. late = (fetch[f].phase = "revision" /\ fetch[f].total < Cardinality(Thread!TopLevel))
  BY <1>3
<1>6. /\ fetch[f].phase \in {"tag", "revision"} /\ fetch[f].offset = 0
      /\ UNCHANGED <<Thread!server, view, etag, mutating, op, overtaken, rewound, twice, short>>
      /\ IF fetch[f].phase = "tag"
         THEN fetch' = [fetch EXCEPT ![f] = [read EXCEPT !.phase = "count"]]
         ELSE Thread!Compared(f, read)
  BY <1>4, <1>5, SameCount DEF Thread!ReadRevision
<1>7. CASE fetch[f].phase = "tag"
  <2>1. RevisionIn(f, [read EXCEPT !.phase = "count"])
    BY <1>4 DEF RevisionIn, Answers, Requested, FetchPhases
  <2> QED
    BY <1>6, <1>7, <2>1
<1>8. CASE fetch[f].phase = "revision"
  <2>1. \/ fetch' = [fetch EXCEPT ![f] = Thread!NoFetch]
        \/ fetch' = [fetch EXCEPT ![f] = [read EXCEPT !.phase = "rows", !.header = Thread!NoTag]]
    BY <1>0, <1>6, <1>8 DEF Thread!Compared
  <2>2. late \/ Cardinality(Thread!TopLevel) <= fetch[f].total
    BY <1>1, <1>2, <1>3, <1>8
  <2>3. RevisionIn(f, [read EXCEPT !.phase = "rows", !.header = Thread!NoTag])
    BY <1>1, <1>4, <2>2 DEF RevisionIn, Answers, Requested, FetchPhases
  <2> QED
    BY <1>6, <2>1, <2>3
<1> QED
  BY <1>6, <1>7, <1>8

LEMMA ReadTotalFacts ==
  ASSUME ServerTypes, TabTypes, RowsOK, NEW f \in Fetches, Thread!ReadTotal(f)
  PROVE  /\ fetch[f].phase \in {"tag", "count"}
         /\ UNCHANGED <<Thread!server, view, etag, mutating, op, overtaken, rewound, twice, short>>
         /\ \/ fetch' = [fetch EXCEPT ![f] = Thread!NoFetch]
            \/ \E new : fetch' = [fetch EXCEPT ![f] = new] /\ TotalIn(f, new)
<1>0. fetch \in [Fetches -> Requested] /\ fetch[f] \in Requested
  BY DEF TabTypes
<1>1. Cardinality(Thread!TopLevel) \in Nat /\ Thread!NoTag \in Thread!Tags \cup {Thread!NoTag}
  BY ExistingFinite DEF Thread!TopLevel, Thread!Existing
<1>2. PICK read :
        /\ read = [fetch[f] EXCEPT !.total = Cardinality(Thread!TopLevel)]
        /\ read \in Requested /\ Answers(f, read) /\ read.tag = fetch[f].tag
        /\ read.total = Cardinality(Thread!TopLevel)
  <2> DEFINE k == [fetch[f] EXCEPT !.total = Cardinality(Thread!TopLevel)]
  <2>1. /\ k \in Requested /\ k.tag = fetch[f].tag
        /\ k.total = Cardinality(Thread!TopLevel)
        /\ k.offset = fetch[f].offset /\ k.got = fetch[f].got
        /\ k.twice = fetch[f].twice /\ k.rewound = fetch[f].rewound
    BY <1>0, <1>1 DEF Requested
  <2> HIDE DEF k
  <2>2. Answers(f, k)
    BY <2>1 DEF Answers
  <2> QED
    BY <2>1, <2>2 DEF k
<1>3. /\ fetch[f].phase \in {"tag", "count"}
      /\ UNCHANGED <<Thread!server, view, etag, mutating, op, overtaken, rewound, twice, short>>
      /\ IF fetch[f].phase = "tag" /\ fetch[f].offset = 0
         THEN fetch' = [fetch EXCEPT ![f] = [read EXCEPT !.phase = "revision"]]
         ELSE Thread!Compared(f, read)
  BY <1>2, SameCount DEF Thread!ReadTotal
<1>4. CASE fetch[f].phase = "tag" /\ fetch[f].offset = 0
  <2>1. TotalIn(f, [read EXCEPT !.phase = "revision"])
    BY <1>2, <1>4 DEF TotalIn, Answers, Requested, FetchPhases
  <2> QED
    BY <1>3, <1>4, <2>1
<1>5. CASE fetch[f].phase = "count" \/ fetch[f].offset # 0
  <2>1. \/ fetch' = [fetch EXCEPT ![f] = Thread!NoFetch]
        \/ fetch' = [fetch EXCEPT ![f] = [read EXCEPT !.phase = "rows", !.header = Thread!NoTag]]
    BY <1>0, <1>3, <1>5 DEF Thread!Compared
  <2>2. TotalIn(f, [read EXCEPT !.phase = "rows", !.header = Thread!NoTag])
    BY <1>1, <1>2, <1>5 DEF TotalIn, Answers, Requested, FetchPhases
  <2> QED
    BY <1>3, <2>1, <2>2
<1> QED
  BY <1>3, <1>4, <1>5

\* A request that is given up, or goes on with what it has.
LEMMA AnswerKeeps ==
  ASSUME CommentInv, NEW f \in Fetches,
         UNCHANGED <<Thread!server, view, etag, mutating, op, overtaken, rewound, twice, short>>,
         \/ fetch' = [fetch EXCEPT ![f] = Thread!NoFetch]
         \/ \E new : fetch' = [fetch EXCEPT ![f] = new] /\ Answers(f, new)
  PROVE  CommentInv'
<1>1. Known(Thread!NoFetch.got) /\ Unique(Thread!NoFetch.got)
      /\ \A e \in Thread!NoFetch.got : e.key \in Comments
  BY NewFetch DEF Known, Unique
<1>2. /\ Known(fetch[f].got) /\ \A e \in fetch[f].got : e.key \in Comments
      /\ ~fetch[f].twice => Unique(fetch[f].got)
  BY DEF CommentInv, PagesOK
<1>3. CASE fetch' = [fetch EXCEPT ![f] = Thread!NoFetch]
  BY <1>1, <1>3, NewFetch, OneFetchMoves
<1>4. ASSUME NEW new, fetch' = [fetch EXCEPT ![f] = new], Answers(f, new)
      PROVE  CommentInv'
  <2>1. new \in Requested /\ new.got = fetch[f].got /\ new.twice = fetch[f].twice
    BY <1>4 DEF Answers
  <2> QED
    BY <1>2, <1>4, <2>1, OneFetchMoves
<1> QED
  BY <1>3, <1>4

LEMMA ReadRevisionStep ==
  ASSUME CommentInv, NEW f \in Fetches, Thread!ReadRevision(f)
  PROVE  CommentInv'
<1>1. ServerTypes /\ TabTypes /\ RowsOK
  BY DEF CommentInv, Types
<1>2. \A new : RevisionIn(f, new) => Answers(f, new)
  BY DEF RevisionIn
<1> QED
  BY <1>1, <1>2, ReadRevisionFacts, AnswerKeeps

LEMMA ReadTotalStep ==
  ASSUME CommentInv, NEW f \in Fetches, Thread!ReadTotal(f)
  PROVE  CommentInv'
<1>1. ServerTypes /\ TabTypes /\ RowsOK
  BY DEF CommentInv, Types
<1>2. \A new : TotalIn(f, new) => Answers(f, new)
  BY DEF TotalIn
<1> QED
  BY <1>1, <1>2, ReadTotalFacts, AnswerKeeps

\* What reading the rows of a page makes of a request.
PageRows(n) == {d \in Thread!Existing : d \in Thread!Page(n)
                \/ comment[d].parent \in Thread!Page(n)}
Shows(C) == {Thread!shown(c) : c \in C}
IsMore(f) == fetch[f].offset + Cardinality(Thread!Page(fetch[f].offset)) < fetch[f].total
EndsEarly(f) ==
  /\ ~IsMore(f)
  /\ fetch[f].offset + Cardinality(Thread!Page(fetch[f].offset)) < Cardinality(Thread!TopLevel)
Paged(f) ==
  [fetch[f] EXCEPT !.got = fetch[f].got \cup Shows(PageRows(fetch[f].offset)),
     !.twice = fetch[f].twice \/ \E e \in fetch[f].got : e.key \in PageRows(fetch[f].offset),
     !.short = fetch[f].short /\ EndsEarly(f),
     !.offset = IF IsMore(f) THEN fetch[f].offset + PageSize ELSE 0,
     !.total = 0, !.phase = IF IsMore(f) THEN "tag" ELSE "apply"]

LEMMA ReadRowsFacts ==
  ASSUME TabTypes, NEW f \in Fetches, Thread!ReadRows(f)
  PROVE  /\ fetch[f].phase = "rows"
         /\ UNCHANGED <<Thread!server, view, etag, mutating, op, overtaken, rewound, twice, short>>
         /\ fetch' = [fetch EXCEPT ![f] = Paged(f)]
<1>1. fetch \in [Fetches -> Requested]
  BY DEF TabTypes
<1> QED
  BY <1>1, SameCount DEF Thread!ReadRows, Paged, PageRows, Shows, IsMore, EndsEarly, Requested

LEMMA ShownFacts ==
  ASSUME ServerTypes, NEW C \in SUBSET Thread!Existing
  PROVE  /\ Shows(C) \in SUBSET Thread!Entries
         /\ \A c \in C : Thread!shown(c).key = c /\ Thread!shown(c).parent = comment[c].parent
         /\ \A e \in Shows(C) :
               e.key \in C /\ e = Thread!shown(e.key) /\ e.parent = comment[e.key].parent
<1>1. ASSUME NEW c \in C
      PROVE  Thread!shown(c) \in Thread!Entries /\ Thread!shown(c).key = c
             /\ Thread!shown(c).parent = comment[c].parent
  BY RowTypes, KeyFacts DEF Thread!shown, Thread!Entry, Thread!Entries, Thread!Existing
<1> QED
  BY <1>1 DEF Shows

LEMMA PagedFacts ==
  ASSUME ServerTypes, TabTypes, NEW f \in Fetches
  PROVE  /\ Paged(f) \in Requested
         /\ Paged(f).got = fetch[f].got \cup Shows(PageRows(fetch[f].offset))
         /\ Paged(f).twice <=> \/ fetch[f].twice
                               \/ \E e \in fetch[f].got : e.key \in PageRows(fetch[f].offset)
         /\ Paged(f).offset = IF IsMore(f) THEN fetch[f].offset + PageSize ELSE 0
         /\ Paged(f).phase = IF IsMore(f) THEN "tag" ELSE "apply"
         /\ Paged(f).tag = fetch[f].tag /\ Paged(f).rewound = fetch[f].rewound
         /\ Paged(f).short <=> fetch[f].short /\ EndsEarly(f)
<1> DEFINE g == fetch[f].got \cup Shows(PageRows(fetch[f].offset))
           b == fetch[f].twice \/ \E e \in fetch[f].got : e.key \in PageRows(fetch[f].offset)
           s == fetch[f].short /\ EndsEarly(f)
           n == IF IsMore(f) THEN fetch[f].offset + PageSize ELSE 0
           p == IF IsMore(f) THEN "tag" ELSE "apply"
<1>1. g \in SUBSET Thread!Entries
  <2>1. PageRows(fetch[f].offset) \in SUBSET Thread!Existing
    BY DEF PageRows
  <2> QED
    BY <2>1, ShownFacts, FetchTypes
<1>2. b \in BOOLEAN /\ s \in BOOLEAN
  OBVIOUS
<1>3. n \in Nat /\ p \in {"tag", "apply"}
  BY FetchTypes, SharedAssumption
<1>4. fetch[f] \in Requested
  BY DEF TabTypes
<1>5. Paged(f) = [fetch[f] EXCEPT !.got = g, !.twice = b, !.short = s, !.offset = n,
                  !.total = 0, !.phase = p]
  BY DEF Paged
<1> HIDE DEF g, b, s, n, p
<1>6. /\ Paged(f) \in Requested /\ Paged(f).got = g /\ Paged(f).twice = b /\ Paged(f).short = s
      /\ Paged(f).offset = n /\ Paged(f).phase = p
      /\ Paged(f).tag = fetch[f].tag /\ Paged(f).rewound = fetch[f].rewound
  <2>1. Paged(f) = [phase |-> p, header |-> fetch[f].header, tag |-> fetch[f].tag, offset |-> n,
                    total |-> 0, got |-> g, rewound |-> fetch[f].rewound, twice |-> b,
                    short |-> s]
    BY <1>4, <1>5 DEF Requested
  <2>2. Paged(f) \in Requested
    BY <1>1, <1>2, <1>3, <2>1, FetchTypes DEF Requested, FetchPhases
  <2> QED
    BY <2>1, <2>2
<1>7. (Paged(f).twice <=> b) /\ (Paged(f).short <=> s)
  BY <1>6
<1> QED
  BY <1>6, <1>7 DEF g, b, s, n, p

LEMMA ReadRowsStep ==
  ASSUME CommentInv, NEW f \in Fetches, Thread!ReadRows(f)
  PROVE  CommentInv'
<1> DEFINE C == PageRows(fetch[f].offset)
           got == fetch[f].got
           M == got \cup Shows(C)
<1>1. /\ ServerTypes /\ TabTypes /\ RowsOK
      /\ Known(got) /\ (\A e \in got : e.key \in Comments)
      /\ ~fetch[f].twice => Unique(got)
  BY DEF CommentInv, Types, PagesOK
<1>2. C \in SUBSET Thread!Existing
  BY DEF PageRows
<1>3. \A e \in Shows(C) :
         e.key \in C /\ e = Thread!shown(e.key) /\ e.parent = comment[e.key].parent
  BY <1>1, <1>2, ShownFacts
<1>4. Known(M)
  BY <1>1, <1>2, <1>3 DEF Known, RowsOK
<1>5. \A e \in M : e.key \in Comments
  BY <1>1, <1>2, <1>3 DEF Thread!Existing
<1>6. (~fetch[f].twice /\ \A e \in got : e.key \notin C) => Unique(M)
  BY <1>1, <1>3 DEF Unique
<1>7. Paged(f) \in Requested /\ Paged(f).got = M
      /\ (Paged(f).twice <=> fetch[f].twice \/ \E e \in got : e.key \in C)
  BY <1>1, PagedFacts
<1> HIDE DEF C, got, M
<1>8. ~Paged(f).twice => Unique(Paged(f).got)
  BY <1>6, <1>7
<1> QED
  BY <1>1, <1>4, <1>5, <1>7, <1>8, ReadRowsFacts, OneFetchMoves

LEMMA ApplyFacts ==
  ASSUME TabTypes, NEW f \in Fetches, Thread!Apply(f)
  PROVE  /\ op' \in [Thread!Ops -> Clicks]
         /\ \A p \in Thread!Ops :
               KeptClick(p) /\ (p \in Thread!InFlight => op'[p].touched = TRUE)
         /\ Thread!InFlight' = Thread!InFlight /\ \A p \in Thread!Ops : ~Alone(p)'
<1>0. op \in [Thread!Ops -> Clicks]
  BY DEF TabTypes
<1>1. op' = [o \in Thread!Ops |-> IF o \in Thread!InFlight
               THEN [op[o] EXCEPT !.touched = TRUE] ELSE op[o]]
  BY DEF Thread!Apply
<1>2. ASSUME NEW p \in Thread!Ops
      PROVE  op'[p] \in Clicks /\ KeptClick(p)
             /\ (p \in Thread!InFlight => op'[p].touched = TRUE)
  <2>1. op[p] \in Clicks
    BY <1>0
  <2>2. CASE p \in Thread!InFlight
    <3>1. op'[p] = [op[p] EXCEPT !.touched = TRUE]
      BY <1>1, <2>2
    <3> QED
      BY <2>1, <3>1 DEF Clicks, KeptClick
  <2>3. CASE p \notin Thread!InFlight
    <3>1. op'[p] = op[p]
      BY <1>1, <2>3
    <3> QED
      BY <2>1, <2>3, <3>1 DEF KeptClick
  <2> QED
    BY <2>2, <2>3
<1>3. op' \in [Thread!Ops -> Clicks]
  BY <1>1, <1>2
<1>4. Thread!InFlight' = Thread!InFlight
  BY <1>2 DEF Thread!InFlight, KeptClick
<1>5. \A p \in Thread!Ops : ~Alone(p)'
  BY <1>2, <1>4 DEF Alone
<1> QED
  BY <1>2, <1>3, <1>4, <1>5

LEMMA ApplyStep ==
  ASSUME CommentInv, NEW f \in Fetches, Thread!Apply(f)
  PROVE  CommentInv'
<1>0. ServerTypes /\ TabTypes /\ RowsOK /\ ClicksOK /\ fetch \in [Fetches -> Requested]
  BY DEF CommentInv, Types, TabTypes
<1>1. /\ view' = fetch[f].got /\ etag' = fetch[f].tag
      /\ overtaken' = FALSE /\ rewound' = fetch[f].rewound /\ twice' = fetch[f].twice
      /\ short' = fetch[f].short
      /\ fetch' = [fetch EXCEPT ![f] = Thread!NoFetch]
      /\ UNCHANGED <<Thread!server, mutating>>
  BY DEF Thread!Apply
<1>2. /\ op' \in [Thread!Ops -> Clicks] /\ Thread!InFlight' = Thread!InFlight
      /\ \A p \in Thread!Ops : KeptClick(p) /\ ~Alone(p)'
  BY <1>0, ApplyFacts
<1>3. ServerTypes' /\ RowsOK' /\ RowsMove /\ Thread!Existing' = Thread!Existing
      /\ comment' = comment /\ spent' = spent
  BY <1>0, <1>1, ServerStays DEF Thread!server
<1>4. /\ Known(view') /\ (\A e \in view' : e.key \in Comments) /\ (~twice' => Unique(view'))
  BY <1>1 DEF CommentInv, PagesOK
<1>5. Types'
  <2>1. fetch' \in [Fetches -> Requested]
    BY <1>0, <1>1, NewFetch
  <2>2. /\ fetch[f].tag \in Thread!Tags \cup {Thread!NoTag}
        /\ fetch[f].got \in SUBSET Thread!Entries
        /\ fetch[f].rewound \in BOOLEAN /\ fetch[f].twice \in BOOLEAN
        /\ fetch[f].short \in BOOLEAN
    BY <1>0, FetchTypes
  <2> QED
    BY <2>1, <2>2, <1>0, <1>1, <1>2, <1>3 DEF Types, TabTypes
<1>6. ClicksOK'
  BY <1>0, <1>2, <1>3 DEF ClicksOK, KeptClick
<1>7. ListsOK'
  <2>1. Known(view)' /\ Unsaved(view)'
    BY <1>3, <1>4, KeyFacts DEF Known, Unsaved
  <2>2. ASSUME NEW p \in Thread!Ops PROVE Known(op[p].snapshot)' /\ Unsaved(op[p].snapshot)'
    <3>1. /\ op[p].snapshot \in SUBSET Thread!Entries /\ Known(op[p].snapshot)
          /\ Unsaved(op[p].snapshot)
          /\ op'[p].snapshot = op[p].snapshot
      BY <1>0, <1>2, ClickTypes DEF CommentInv, ListsOK, KeptClick
    <3>2. Known(op[p].snapshot)'
      BY <3>1, <1>3 DEF Known
    <3>3. Unsaved(op[p].snapshot)'
      BY <3>1, <1>2 DEF Unsaved, KeptClick
    <3> QED
      BY <3>2, <3>3
  <2> QED
    BY <2>1, <2>2 DEF ListsOK
<1>8. PagesOK'
  <2>1. ASSUME NEW g \in Fetches
        PROVE  /\ Known(fetch'[g].got) /\ \A e \in fetch'[g].got : e.key \in Comments
               /\ ~fetch'[g].twice => Unique(fetch'[g].got)
    <3>1. CASE g = f
      BY <3>1, <1>0, <1>1, NewFetch DEF Known, Unique
    <3>2. CASE g # f
      BY <3>2, <1>0, <1>1 DEF CommentInv, PagesOK
    <3> QED
      BY <3>1, <3>2
  <2> QED
    BY <2>1, <1>3 DEF PagesOK, Known, Unique
<1>9. OrderOK'
  <2>1. Sent(view)' /\ (~twice' => Unique(view)')
    BY <1>4, KeyFacts DEF Sent, Unique
  <2>2. Orderly(view)'
    BY <2>1 DEF Orderly
  <2> QED
    BY <2>2, <1>2 DEF OrderOK
<1> QED
  BY <1>3, <1>5, <1>6, <1>7, <1>8, <1>9 DEF CommentInv

-----------------------------------------------------------------------------
LEMMA CommentStart == Thread!Init => CommentInv
<1> SUFFICES ASSUME Thread!Init PROVE CommentInv
  OBVIOUS
<1>1. PICK old \in SUBSET Comments :
        /\ spent = old /\ clock = Cardinality(old)
        /\ comment = [c \in Comments |->
                       IF c \in old
                       THEN [Thread!NoRow EXCEPT !.stamp
                               = Cardinality({d \in old : d <= c})] ELSE Thread!NoRow]
  BY SameCount DEF Thread!Init
<1>2. Thread!NoRow \in Rows /\ Thread!NoRow.stamp = 0 /\ Thread!NoRow.parent = Thread!NoParent
  BY DEF Thread!NoRow, Rows, Thread!Texts
<1>3. ASSUME NEW c \in Comments
      PROVE  /\ comment[c] \in Rows /\ comment[c].parent = Thread!NoParent
             /\ comment[c].stamp <= clock
             /\ comment[c].stamp # 0 => c \in spent
  <2>1. /\ Cardinality({d \in old : d <= c}) \in Nat /\ clock \in Nat
        /\ Cardinality({d \in old : d <= c}) <= clock
    <3>1. IsFiniteSet(old) /\ {d \in old : d <= c} \in SUBSET old
      BY ExistingFinite
    <3> QED
      BY <3>1, <1>1, FS_Subset, FS_CardinalityType
  <2>2. CASE c \in old
    <3>1. comment[c] = [Thread!NoRow EXCEPT !.stamp = Cardinality({d \in old : d <= c})]
      BY <1>1, <2>2
    <3> QED
      BY <3>1, <2>1, <2>2, <1>1, <1>2 DEF Rows
  <2>3. CASE c \notin old
    <3>1. comment[c] = Thread!NoRow
      BY <1>1, <2>3
    <3> QED
      BY <3>1, <2>1, <2>3, <1>1, <1>2
  <2> QED
    BY <2>2, <2>3
<1>4. ServerTypes
  <2>1. comment \in [Comments -> Rows]
    BY <1>1, <1>3
  <2>2. clock \in Nat
    BY <1>1, ExistingFinite
  <2> QED
    BY <2>1, <2>2, <1>1 DEF ServerTypes
<1>5. /\ view = {} /\ etag = Thread!NoTag /\ mutating = FALSE
      /\ fetch = [f \in Fetches |-> Thread!NoFetch] /\ op = [o \in Thread!Ops |-> Thread!NoOp]
      /\ overtaken = FALSE /\ rewound = FALSE /\ twice = FALSE /\ short = FALSE
  BY SameCount DEF Thread!Init
<1>6. Types
  BY <1>4, <1>5, NewFetch, NewClick DEF Types, TabTypes
<1>7. RowsOK
  BY <1>3 DEF RowsOK, Thread!Existing
<1>8. \A o \in Thread!Ops : op[o] = Thread!NoOp
  BY <1>5
<1>9. ClicksOK
  BY <1>8, NewClick DEF ClicksOK
<1>10. ListsOK
  BY <1>5, <1>8, NewClick DEF ListsOK, Known, Unsaved
<1>11. PagesOK
  BY <1>5, NewFetch DEF PagesOK, Known, Unique
<1>12. OrderOK
  BY <1>5, <1>8, NewClick DEF OrderOK, Orderly, Sent, Unique
<1> QED
  BY <1>6, <1>7, <1>9, <1>10, <1>11, <1>12 DEF CommentInv

LEMMA CommentNext == CommentInv /\ [Thread!Next]_Thread!vars => CommentInv'
<1> SUFFICES ASSUME CommentInv, [Thread!Next]_Thread!vars PROVE CommentInv'
  OBVIOUS
<1>1. CASE Thread!Elsewhere
  BY <1>1, ElsewhereStep
<1>2. ASSUME NEW o \in Thread!Ops, Thread!Click(o) \/ Thread!ServerAccepts(o)
             \/ Thread!ServerRefuses(o) \/ Thread!Answer(o)
      PROVE  CommentInv'
  BY <1>2, ClickStep, AcceptStep, RefuseStep, AnswerStep
<1>3. ASSUME NEW f \in Fetches,
             Thread!Poll(f) \/ Thread!LiveRefresh(f) \/ Thread!ReadRevision(f)
             \/ Thread!ReadTotal(f) \/ Thread!ReadRows(f) \/ Thread!Apply(f) \/ Thread!FetchFails(f)
      PROVE  CommentInv'
  <2>1. etag \in Thread!Tags \cup {Thread!NoTag}
    BY DEF CommentInv, Types, TabTypes
  <2>2. CASE Thread!Poll(f) \/ Thread!LiveRefresh(f)
    BY <2>1, <2>2, StartStep DEF Thread!Poll, Thread!LiveRefresh
  <2> QED
    BY <1>3, <2>2, ReadRevisionStep, ReadTotalStep, ReadRowsStep, ApplyStep, FailStep
<1>4. CASE UNCHANGED Thread!vars
  <2>1. /\ UNCHANGED <<Thread!server, view, etag, mutating, op, overtaken, rewound, twice, short>>
        /\ fetch' = fetch
    BY <1>4 DEF Thread!vars, Thread!server
  <2>2. ServerTypes /\ TabTypes /\ RowsOK /\ PagesOK
    BY DEF CommentInv, Types
  <2>3. fetch' \in [Fetches -> Requested] /\ \A f \in Fetches : KeptFetch(f)
    BY <2>1, <2>2 DEF TabTypes, KeptFetch
  <2>4. RowsMove
    BY <2>1, <2>2, ServerStays
  <2>5. PagesOK'
    BY <2>2, <2>3, <2>4, PagesStay
  <2> QED
    BY <2>1, <2>3, <2>5, FetchOnly
<1> QED
  BY <1>1, <1>2, <1>3, <1>4 DEF Thread!Next

LEMMA CommentsHold == Thread!Spec => []CommentInv
BY CommentStart, CommentNext, PTL DEF Thread!Spec

LEMMA ShownOnceFollows == CommentInv => Thread!ShownOnce
<1> SUFFICES ASSUME CommentInv PROVE Thread!ShownOnce
  OBVIOUS
<1>1. ~overtaken => Sent(view) /\ (~twice => Unique(view))
  BY DEF CommentInv, OrderOK, Orderly
<1>2. Unsaved(view) /\ ClicksOK
  BY DEF CommentInv, ListsOK
<1>3. ASSUME NEW e \in view, NEW o \in Thread!Ops, e.key = Thread!temp(o), op[o].ok
      PROVE  \A g \in view : g.key # op[o].id
  <2>1. o \in Thread!InFlight
    BY <1>2, <1>3 DEF ClicksOK, Thread!InFlight
  <2> QED
    BY <1>2, <1>3, <2>1 DEF Unsaved
<1> QED
  BY <1>1, <1>3 DEF Thread!ShownOnce, Sent, Unique

LEMMA OnceInTheThread == Thread!Spec => []Thread!ShownOnce
BY CommentsHold, ShownOnceFollows, PTL

-----------------------------------------------------------------------------
(* The tag.  A write of the server makes every tag in hand an old one.     *)

LEMMA ChangeAges ==
  ASSUME ServerTypes, NEW c \in Comments,
         \/ \E p, t : Thread!Insert(c, p, t)
         \/ \E done, t : Thread!Update(c, done, t)
  PROVE  /\ clock' = clock + 1 /\ UNCHANGED <<fetch, rewound>>
         /\ c \in Thread!Existing' /\ comment'[c].stamp = clock + 1
<1>1. clock \in Nat /\ comment \in [Comments -> Rows]
  BY DEF ServerTypes
<1>2. CASE \E p, t : Thread!Insert(c, p, t)
  BY <1>1, <1>2 DEF Thread!Insert, Thread!Existing
<1>3. CASE \E done, t : Thread!Update(c, done, t)
  <2>1. PICK done, t : Thread!Update(c, done, t)
    BY <1>3
  <2>2. /\ clock' = clock + 1 /\ UNCHANGED <<fetch, rewound>>
        /\ comment' = [comment EXCEPT ![c].done = done, ![c].text = t, ![c].stamp = clock + 1]
    BY <2>1 DEF Thread!Update
  <2>3. comment'[c].stamp = clock + 1
    <3>1. comment[c] \in Rows /\ c \in DOMAIN comment
      BY <1>1
    <3> QED
      BY <3>1, <2>2 DEF Rows
  <2> QED
    BY <1>1, <2>2, <2>3 DEF Thread!Existing
<1> QED
  BY <1>2, <1>3

LEMMA RemoveAges ==
  ASSUME ServerTypes, RowsOK, NEW c \in Comments, Thread!Remove(c)
  PROVE  /\ clock' = clock /\ Cardinality(Thread!Existing') < Cardinality(Thread!Existing)
         /\ Thread!Existing' \subseteq Thread!Existing
         /\ \A d \in Thread!Existing' : comment'[d] = comment[d]
         /\ \A d \in Thread!Existing \ Thread!Existing' : d \in Gone(c)
<1>1. c \in Thread!Existing /\ c \in Gone(c) /\ Thread!Existing' = Thread!Existing \ Gone(c)
      /\ \A d \in Thread!Existing' : comment'[d] = comment[d]
  BY RemoveRows DEF Gone
<1>2. IsFiniteSet(Thread!Existing)
  BY ExistingFinite DEF Thread!Existing
<1>3. Thread!Existing' \subseteq Thread!Existing /\ Thread!Existing' # Thread!Existing
  BY <1>1
<1>4. Cardinality(Thread!Existing') < Cardinality(Thread!Existing)
  BY <1>2, <1>3, FS_Subset, FS_CardinalityType
<1> QED
  BY <1>1, <1>3, <1>4 DEF Thread!Remove

LEMMA WriteAges ==
  ASSUME ServerTypes, RowsOK, NEW c \in Comments,
         \/ \E p, t : Thread!Insert(c, p, t)
         \/ \E done, t : Thread!Update(c, done, t)
         \/ Thread!Remove(c),
         NEW tag \in Thread!Tags, tag.last <= clock, NEW gone, NEW after,
         Old(tag, gone) \/ tag.count = Cardinality(Thread!Existing),
         gone => after,
         Thread!Remove(c) /\ (\E d \in Gone(c) : comment[d].stamp > tag.last) => after
  PROVE  \/ after \/ (\E d \in Thread!Existing' : comment'[d].stamp > tag.last)
         \/ Cardinality(Thread!Existing') < tag.count
<1>1. tag.last \in Nat /\ tag.count \in Nat /\ clock \in Nat
  BY DEF Thread!Tags, ServerTypes
<1>2. CASE (\E p, t : Thread!Insert(c, p, t)) \/ (\E done, t : Thread!Update(c, done, t))
  BY <1>1, <1>2, ChangeAges
<1>3. CASE Thread!Remove(c)
  <2>1. Cardinality(Thread!Existing) \in Nat /\ Cardinality(Thread!Existing') \in Nat
    BY ExistingFinite DEF Thread!Existing
  <2>2. CASE gone
    BY <2>2
  <2>3. CASE \E d \in Thread!Existing : comment[d].stamp > tag.last
    BY <1>3, <2>3, RemoveAges
  <2>4. CASE Cardinality(Thread!Existing) <= tag.count
    BY <1>1, <1>3, <2>1, <2>4, RemoveAges
  <2> QED
    BY <1>1, <2>1, <2>2, <2>3, <2>4 DEF Old
<1> QED
  BY <1>2, <1>3

\* A write leaves the clicks' order and the requests, and makes their tags old.
LEMMA WriteTagStep ==
  ASSUME CommentInv, TagInv, NEW c \in Comments,
         \/ \E p, t : Thread!Insert(c, p, t)
         \/ \E done, t : Thread!Update(c, done, t)
         \/ Thread!Remove(c),
         UNCHANGED <<etag, overtaken, short>>, \A o \in Thread!Ops : Alone(o)' <=> Alone(o)
  PROVE  TagInv'
<1>0. ServerTypes /\ TabTypes /\ RowsOK
  BY DEF CommentInv, Types
<1>1. \A f \in Fetches : KeptFetch(f)
  BY <1>0, WriteKeepsFetch
<1>2. clock \in Nat /\ clock' \in Nat /\ clock <= clock'
  BY <1>0, ChangeAges, RemoveAges DEF ServerTypes
<1>3. /\ rewound => rewound'
      /\ Thread!Remove(c) /\ (\E d \in Gone(c) : comment[d].stamp > etag.last) => rewound'
  <2>1. CASE ~Thread!Remove(c)
    <3>1. rewound' = rewound
      BY <2>1 DEF Thread!Insert, Thread!Update
    <3> QED
      BY <2>1, <3>1
  <2>2. CASE Thread!Remove(c)
    <3> DEFINE b == \E d \in Gone(c) : comment[d].stamp > etag.last
    <3>1. rewound' = (rewound \/ b)
      BY <2>2 DEF Thread!Remove, Gone
    <3> QED
      BY <3>1
  <2> QED
    BY <2>1, <2>2
<1>4. ASSUME NEW f \in Fetches
      PROVE  /\ fetch[f].rewound => fetch'[f].rewound
             /\ fetch[f].tag = Thread!NoTag /\ ~fetch[f].rewound => ~fetch'[f].rewound
             /\ Thread!Remove(c) /\ fetch[f].tag # Thread!NoTag
                /\ (\E d \in Gone(c) : comment[d].stamp > fetch[f].tag.last)
                     => fetch'[f].rewound
  <2>1. CASE ~Thread!Remove(c)
    <3>1. fetch' = fetch
      BY <2>1 DEF Thread!Insert, Thread!Update
    <3> QED
      BY <2>1, <3>1
  <2>2. CASE Thread!Remove(c)
    <3> DEFINE Misses(tag) == \E d \in Gone(c) : comment[d].stamp > tag.last
               b == fetch[f].tag # Thread!NoTag /\ Misses(fetch[f].tag)
    <3>1. fetch'[f] = [fetch[f] EXCEPT !.rewound = fetch[f].rewound \/ b]
      BY <2>2 DEF Thread!Remove, Gone
    <3>2. fetch[f] \in Requested
      BY <1>0 DEF TabTypes
    <3> HIDE DEF b
    <3>3. fetch'[f].rewound = (fetch[f].rewound \/ b)
      BY <3>1, <3>2 DEF Requested
    <3> USE DEF b
    <3> QED
      BY <3>3
  <2> QED
    BY <2>1, <2>2
<1>5. etag.last <= clock' /\ \A f \in Fetches : fetch'[f].tag.last <= clock'
  <2>1. etag.last \in Nat /\ etag.last <= clock
    BY <1>0 DEF TagInv, TagOK, TabTypes, Thread!Tags, Thread!NoTag
  <2>2. ASSUME NEW f \in Fetches PROVE fetch'[f].tag.last <= clock'
    <3>1. fetch[f].tag.last \in Nat /\ fetch[f].tag.last <= clock
      BY <1>0, FetchTypes DEF TagInv, FetchOK, Thread!Tags, Thread!NoTag
    <3> QED
      BY <1>1, <1>2, <3>1 DEF KeptFetch
  <2> QED
    BY <2>1, <2>2, <1>2
<1>6. ASSUME etag # Thread!NoTag, ~overtaken, ~short PROVE Old(etag, rewound)'
  <2>1. etag \in Thread!Tags /\ etag.last <= clock
        /\ (Old(etag, rewound) \/ etag.count = Cardinality(Thread!Existing))
    BY <1>0, <1>6 DEF TabTypes, TagInv, TagOK
  <2>2. \/ rewound' \/ (\E d \in Thread!Existing' : comment'[d].stamp > etag.last)
        \/ Cardinality(Thread!Existing') < etag.count
    BY <2>1, <1>0, <1>3, WriteAges
  <2> QED
    BY <2>2 DEF Old
<1>7. TagOK'
  BY <1>5, <1>6 DEF TagOK
<1>8. ASSUME NEW f \in Fetches, fetch[f].phase # "idle", fetch[f].tag # Thread!NoTag
      PROVE  Old(fetch[f].tag, fetch[f].rewound)'
  <2>1. fetch[f].tag \in Thread!Tags /\ fetch[f].tag.last <= clock
        /\ (Old(fetch[f].tag, fetch[f].rewound)
            \/ fetch[f].tag.count = Cardinality(Thread!Existing))
    BY <1>0, <1>8, FetchTypes DEF TagInv, FetchOK, PagesSoFar
  <2>2. \/ fetch'[f].rewound
        \/ (\E d \in Thread!Existing' : comment'[d].stamp > fetch[f].tag.last)
        \/ Cardinality(Thread!Existing') < fetch[f].tag.count
    <3> DEFINE tag == fetch[f].tag
               gone == fetch[f].rewound
               after == fetch'[f].rewound
    <3>1. tag \in Thread!Tags /\ tag.last <= clock
          /\ (Old(tag, gone) \/ tag.count = Cardinality(Thread!Existing))
      BY <2>1
    <3>2. gone => after
      BY <1>4
    <3>3. Thread!Remove(c) /\ (\E d \in Gone(c) : comment[d].stamp > tag.last) => after
      BY <1>4, <1>8
    <3>4. /\ \/ \E p, t : Thread!Insert(c, p, t)
             \/ \E done, t : Thread!Update(c, done, t)
             \/ Thread!Remove(c)
      OBVIOUS
    <3> HIDE DEF tag, gone, after
    <3>5. \/ after \/ (\E d \in Thread!Existing' : comment'[d].stamp > tag.last)
          \/ Cardinality(Thread!Existing') < tag.count
      BY <3>1, <3>2, <3>3, <3>4, <1>0, WriteAges
    <3> QED
      BY <3>5 DEF tag, after
  <2>3. fetch'[f].tag = fetch[f].tag
    BY <1>1 DEF KeptFetch
  <2> QED
    BY <2>2, <2>3 DEF Old
<1>9. ASSUME NEW f \in Fetches PROVE FetchOK(f)'
  BY <1>1, <1>4, <1>5, <1>8 DEF TagInv, FetchOK, KeptFetch
<1>10. OneAlone'
  BY DEF TagInv, OneAlone
<1> QED
  BY <1>7, <1>9, <1>10 DEF TagInv

LEMMA ElsewhereTag ==
  ASSUME CommentInv, TagInv, Thread!Elsewhere
  PROVE  TagInv'
<1>1. PICK c \in Comments : \/ \E p, t : Thread!Insert(c, p, t)
                            \/ \E done, t : Thread!Update(c, done, t)
                            \/ Thread!Remove(c)
  BY DEF Thread!Elsewhere, Thread!Existing
<1>2. UNCHANGED <<etag, overtaken, short, op>>
  BY DEF Thread!Elsewhere
<1>3. \A o \in Thread!Ops : Alone(o)' <=> Alone(o)
  BY <1>2 DEF Alone, Thread!InFlight
<1> QED
  BY <1>1, <1>2, <1>3, WriteTagStep

LEMMA AcceptTag ==
  ASSUME CommentInv, TagInv, NEW o \in Thread!Ops, Thread!ServerAccepts(o)
  PROVE  TagInv'
<1>0. TabTypes /\ op \in [Thread!Ops -> Clicks]
  BY DEF CommentInv, Types, TabTypes
<1>1. PICK ok \in BOOLEAN, c \in Comments :
        /\ \/ \E p, t : Thread!Insert(c, p, t)
           \/ \E done, t : Thread!Update(c, done, t)
           \/ Thread!Remove(c)
        /\ op' = [op EXCEPT ![o].phase = "answered", ![o].ok = ok,
                            ![o].id = IF ok THEN c ELSE Thread!NoParent]
  <2>1. op[o].kind \in Thread!ClickKinds
    BY <1>0, ClickTypes
  <2> QED
    BY <2>1 DEF Thread!ServerAccepts, Thread!ClickKinds
<1>2. op[o].phase = "sent" /\ UNCHANGED <<etag, overtaken, short>>
  BY DEF Thread!ServerAccepts
<1>3. /\ op'[o].phase = "answered" /\ op'[o].touched = op[o].touched
      /\ \A p \in Thread!Ops : p # o => op'[p] = op[p]
  <2>1. op[o] \in Clicks /\ o \in DOMAIN op
    BY <1>0
  <2>2. op'[o] = [op[o] EXCEPT !.phase = "answered", !.ok = ok,
                             !.id = IF ok THEN c ELSE Thread!NoParent]
    BY <1>1, <2>1 DEF Clicks
  <2> QED
    BY <1>0, <1>1, <2>1, <2>2 DEF Clicks
<1>4. \A p \in Thread!Ops : Alone(p)' <=> Alone(p)
  BY <1>2, <1>3 DEF Alone, Thread!InFlight
<1> QED
  BY <1>1, <1>2, <1>4, WriteTagStep

-----------------------------------------------------------------------------
(* Clicks and their answers, while the tag is the server's own.            *)

LEMMA OldStays ==
  ASSUME UNCHANGED Thread!server, NEW tag, NEW gone
  PROVE  Old(tag, gone)' <=> Old(tag, gone)
BY DEF Thread!server, Old, Thread!Existing

\* The requests are none of a click's business.
LEMMA FetchStays ==
  ASSUME CommentInv, TagInv, UNCHANGED <<Thread!server, fetch>>
  PROVE  \A f \in Fetches : FetchOK(f)'
<1>1. UNCHANGED <<comment, spent, clock, fetch>>
  BY DEF Thread!server
<1>2. Thread!Existing' = Thread!Existing /\ Thread!TopLevel' = Thread!TopLevel
  BY <1>1 DEF Thread!Existing, Thread!TopLevel
<1>3. Thread!Listed' = Thread!Listed /\ \A c : Thread!shown(c)' = Thread!shown(c)
  BY <1>1, <1>2 DEF Thread!Listed, Thread!shown
<1>4. \A n : ReadTo(n)' = ReadTo(n)
  BY <1>1, <1>2 DEF ReadTo, First, Rank
<1>5. \A f \in Fetches : PagesSoFar(f)' <=> PagesSoFar(f)
  BY <1>1, <1>2, <1>3, <1>4 DEF PagesSoFar
<1> QED
  BY <1>1, <1>2, <1>5 DEF TagInv, FetchOK, Old

LEMMA AfterKept ==
  ASSUME NEW p \in Thread!Ops, KeptClick(p), NEW L
  PROVE  After(p, L)' = After(p, L)
BY DEF KeptClick, After

LEMMA AnsweredIsAfter ==
  ASSUME NEW o \in Thread!Ops
  PROVE  Thread!Answered(o) = After(o, view)
BY DEF Thread!Answered, After, Thread!Discard

\* A click whose handler can take it back.
LEMMA BeginTag ==
  ASSUME CommentInv, TagInv, NEW o \in Thread!Ops, NEW click \in Clicks,
         NEW M \in SUBSET Thread!Entries,
         Thread!Begin(o, click, M), ~click.touched,
         Unique(view) => After(o, M)' = view
  PROVE  TagInv'
<1> DEFINE new == [click EXCEPT !.phase = "sent"]
<1>0. op \in [Thread!Ops -> Clicks] /\ TabTypes
  BY DEF CommentInv, Types, TabTypes
<1>1. /\ op[o].phase = "idle" /\ view' = M
      /\ UNCHANGED <<Thread!server, etag, fetch, overtaken, rewound, twice, short>>
      /\ op' = Thread!Touch([op EXCEPT ![o] = new], o)
  BY DEF Thread!Begin
<1>2. new \in Clicks /\ new.phase = "sent" /\ ~new.touched
  BY DEF Clicks
<1> HIDE DEF new
<1>3. /\ op'[o] = new
      /\ \A p \in Thread!Ops : p # o => /\ KeptClick(p)
                                        /\ p \in Thread!InFlight => op'[p].touched = TRUE
  BY <1>0, <1>1, <1>2, TouchFacts
<1>4. o \notin Thread!InFlight /\ Thread!InFlight' = Thread!InFlight \cup {o}
  BY <1>1, <1>2, <1>3 DEF Thread!InFlight, KeptClick
<1>5. \A p \in Thread!Ops : Alone(p)' <=> p = o
  BY <1>2, <1>3, <1>4 DEF Alone
<1>6. OneAlone'
  BY <1>5 DEF OneAlone
<1>7. Thread!Listed' = Thread!Listed
  BY <1>1 DEF Thread!server, Thread!Listed, Thread!Existing, Thread!shown
<1>8. ASSUME Unique(view), ViewFollows PROVE ViewFollows'
  <2>1. After(o, view)' = view
    BY <1>1, <1>8
  <2>2. view = Thread!Listed \/ \E p \in Thread!InFlight : p # o /\ After(p, view) # view
    <3>1. CASE \E u \in Thread!Ops : Alone(u)
      <4>1. PICK u \in Thread!Ops : Alone(u)
        BY <3>1
      <4>2. Rests(After(u, view))
        BY <1>8, <4>1 DEF ViewFollows
      <4>3. u \in Thread!InFlight /\ u # o
        BY <4>1, <1>4 DEF Alone
      <4>4. CASE After(u, view) = view
        BY <4>2, <4>4, <1>4 DEF Rests
      <4> QED
        BY <4>3, <4>4
    <3>2. CASE \A u \in Thread!Ops : ~Alone(u)
      BY <1>4, <1>8, <3>2 DEF ViewFollows, Rests
    <3> QED
      BY <3>1, <3>2
  <2>3. \A p \in Thread!InFlight : p # o /\ After(p, view) # view =>
          p \in Thread!InFlight' /\ op'[p].touched /\ After(p, view') = After(p, view')
    BY <1>3, <1>4 DEF Thread!InFlight
  <2>4. ASSUME NEW V, V = view
        PROVE  V = Thread!Listed'
               \/ \E p \in Thread!InFlight' : op'[p].touched /\ After(p, V)' # V
    <3>1. CASE V = Thread!Listed
      BY <3>1, <1>7
    <3>2. ASSUME NEW p \in Thread!InFlight, p # o, After(p, V) # V
          PROVE  p \in Thread!InFlight' /\ op'[p].touched /\ After(p, V)' # V
      <4>1. p \in Thread!Ops /\ KeptClick(p) /\ op'[p].touched
        BY <3>2, <1>3 DEF Thread!InFlight
      <4>2. After(p, V)' = After(p, V)
        BY <4>1, AfterKept
      <4> QED
        BY <3>2, <4>1, <4>2, <1>4
    <3> QED
      BY <2>2, <2>4, <3>1, <3>2
  <2>5. Rests(After(o, view))'
    <3>1. PICK V : V = view
      OBVIOUS
    <3>2. V = Thread!Listed' \/ \E p \in Thread!InFlight' : op'[p].touched /\ After(p, V)' # V
      BY <2>4, <3>1
    <3>3. Rests(V)'
      BY <3>2 DEF Rests
    <3>4. After(o, view)' = V
      BY <2>1, <3>1
    <3> QED
      BY <3>3, <3>4 DEF Rests
  <2> QED
    BY <1>5, <2>5 DEF ViewFollows
<1>9. TagOK'
  <2>1. Cardinality(Thread!Existing)' = Cardinality(Thread!Existing) /\ clock' = clock
    BY <1>1 DEF Thread!server, Thread!Existing
  <2>2. Old(etag, rewound)' <=> Old(etag, rewound)
    BY <1>1 DEF Old, Thread!server, Thread!Existing
  <2>3. ~overtaken /\ ~twice => Unique(view)
    BY DEF CommentInv, OrderOK, Orderly
  <2> QED
    BY <1>1, <1>8, <2>1, <2>2, <2>3 DEF TagInv, TagOK
<1>10. \A f \in Fetches : FetchOK(f)'
  BY <1>1, FetchStays
<1> QED
  BY <1>6, <1>9, <1>10 DEF TagInv

\* What the handler of a click that has just been made would put back.
LEMMA Undo ==
  ASSUME CommentInv, NEW o \in Thread!Ops, NEW click \in Clicks,
         NEW M \in SUBSET Thread!Entries,
         Thread!Begin(o, click, M), ~click.ok
  PROVE  /\ click.kind = "ADD" => After(o, M)' = Thread!Without(M, Thread!temp(o))
         /\ click.kind = "RESOLVE"
              => After(o, M)' = Thread!WithDone(M, click.target, click.done)
         /\ click.kind = "EDIT" => After(o, M)' = M
         /\ click.kind = "DELETE" => After(o, M)' = click.snapshot
<1> DEFINE new == [click EXCEPT !.phase = "sent"]
<1>0. op \in [Thread!Ops -> Clicks]
  BY DEF CommentInv, Types, TabTypes
<1>1. /\ new \in Clicks /\ new.kind = click.kind /\ new.target = click.target
      /\ new.done = click.done /\ new.snapshot = click.snapshot /\ ~new.ok
  BY DEF Clicks
<1>2. op' = Thread!Touch([op EXCEPT ![o] = new], o)
  BY DEF Thread!Begin
<1> HIDE DEF new
<1>3. op'[o] = new
  BY <1>0, <1>1, <1>2, TouchFacts
<1> QED
  BY <1>1, <1>3 DEF After

LEMMA AddTag ==
  ASSUME CommentInv, TagInv, NEW o \in Thread!Ops, Thread!AddComment(o)
  PROVE  TagInv'
<1>1. PICK p \in {e.key : e \in {v \in view : v.parent = Thread!NoParent /\ v.key \in Comments}}
                 \cup {Thread!NoParent} :
        Thread!Begin(o, [Thread!NoOp EXCEPT !.kind = "ADD", !.target = p],
                     view \cup {Thread!Entry(Thread!temp(o), p, FALSE, "x")})
  BY DEF Thread!AddComment
<1>2. view \in SUBSET Thread!Entries /\ Unsaved(view) /\ op[o].phase = "idle"
  BY <1>1 DEF CommentInv, Types, TabTypes, ListsOK, Thread!Begin
<1>3. p \in Comments \cup {Thread!NoParent}
  BY <1>1
<1>4. PICK click \in Clicks : /\ click = [Thread!NoOp EXCEPT !.kind = "ADD", !.target = p]
                              /\ ~click.ok /\ ~click.touched /\ click.kind = "ADD"
  <2> DEFINE k == [Thread!NoOp EXCEPT !.kind = "ADD", !.target = p]
  <2>1. k \in Clicks /\ ~k.ok /\ ~k.touched /\ k.kind = "ADD"
    BY <1>3, NewClick DEF Clicks, Thread!ClickKinds
  <2> QED
    BY <2>1
<1>5. PICK new \in Thread!Entries : new = Thread!Entry(Thread!temp(o), p, FALSE, "x")
      /\ new.key = Thread!temp(o)
  <2> DEFINE k == Thread!Entry(Thread!temp(o), p, FALSE, "x")
  <2>1. k \in Thread!Entries /\ k.key = Thread!temp(o)
    BY <1>3, KeyFacts DEF Thread!Entry, Thread!Entries, Thread!Texts
  <2> QED
    BY <2>1
<1>6. PICK M \in SUBSET Thread!Entries : M = view \cup {new}
  BY <1>2
<1>7. Thread!Begin(o, click, M)
  BY <1>1, <1>4, <1>5, <1>6
<1>8. Thread!Without(M, Thread!temp(o)) = view
  <2>1. ASSUME NEW e \in view PROVE e.key # Thread!temp(o) /\ e.parent # Thread!temp(o)
    <3>1. e.key # Thread!temp(o)
      BY <1>2 DEF Unsaved
    <3>2. e.parent \in Comments \cup {Thread!NoParent}
      BY <1>2, EntryTypes
    <3> QED
      BY <3>1, <3>2, KeyFacts
  <2> QED
    BY <2>1, <1>5, <1>6 DEF Thread!Without
<1>9. After(o, M)' = view
  BY <1>4, <1>7, <1>8, Undo
<1> QED
  BY <1>4, <1>7, <1>9, BeginTag

LEMMA UndoDone ==
  ASSUME NEW L \in SUBSET Thread!Entries, Unique(L), NEW e \in L, NEW b \in BOOLEAN
  PROVE  Thread!WithDone(Thread!WithDone(L, e.key, b), e.key, e.done) = L
<1>1. ASSUME NEW g \in L, g.key = e.key PROVE g = e
  BY <1>1 DEF Unique
<1> DEFINE flipped == [e EXCEPT !.done = b]
<1>2. flipped.key = e.key /\ [flipped EXCEPT !.done = e.done] = e
  BY DEF Thread!Entries
<1>3. Thread!WithDone(L, e.key, b) = (L \ {e}) \cup {flipped}
  BY <1>1 DEF Thread!WithDone
<1> HIDE DEF flipped
<1>4. Thread!WithDone((L \ {e}) \cup {flipped}, e.key, e.done) = L
  BY <1>1, <1>2 DEF Thread!WithDone
<1> QED
  BY <1>3, <1>4

LEMMA ResolveTag ==
  ASSUME CommentInv, TagInv, NEW o \in Thread!Ops, Thread!ResolveComment(o)
  PROVE  TagInv'
<1>1. PICK e \in view :
        /\ e.parent = Thread!NoParent /\ e.key \in Comments
        /\ Thread!Begin(o, [Thread!NoOp EXCEPT !.kind = "RESOLVE", !.target = e.key,
                            !.done = e.done],
                        Thread!WithDone(view, e.key, ~e.done))
  BY DEF Thread!ResolveComment
<1>2. view \in SUBSET Thread!Entries /\ e.done \in BOOLEAN
  BY DEF CommentInv, Types, TabTypes, Thread!Entries
<1>3. PICK click \in Clicks :
        /\ click = [Thread!NoOp EXCEPT !.kind = "RESOLVE", !.target = e.key, !.done = e.done]
        /\ ~click.ok /\ ~click.touched /\ click.kind = "RESOLVE"
        /\ click.target = e.key /\ click.done = e.done
  <2> DEFINE k == [Thread!NoOp EXCEPT !.kind = "RESOLVE", !.target = e.key, !.done = e.done]
  <2>1. /\ k \in Clicks /\ ~k.ok /\ ~k.touched /\ k.kind = "RESOLVE"
        /\ k.target = e.key /\ k.done = e.done
    BY <1>1, <1>2, NewClick DEF Clicks, Thread!ClickKinds
  <2> QED
    BY <2>1
<1>4. PICK b \in BOOLEAN : b = ~e.done
  OBVIOUS
<1>5. PICK M \in SUBSET Thread!Entries : M = Thread!WithDone(view, e.key, b)
  BY <1>2, DoneFacts
<1>6. Thread!Begin(o, click, M)
  BY <1>1, <1>3, <1>4, <1>5
<1>7. Unique(view) => Thread!WithDone(M, click.target, click.done) = view
  BY <1>2, <1>3, <1>5, UndoDone
<1>8. Unique(view) => After(o, M)' = view
  BY <1>3, <1>6, <1>7, Undo
<1> QED
  BY <1>3, <1>6, <1>8, BeginTag

LEMMA EditTag ==
  ASSUME CommentInv, TagInv, NEW o \in Thread!Ops, Thread!EditComment(o)
  PROVE  TagInv'
<1>1. PICK e \in view, t \in Thread!Texts :
        /\ e.key \in Comments
        /\ Thread!Begin(o, [Thread!NoOp EXCEPT !.kind = "EDIT", !.target = e.key, !.text = t],
                        view)
  BY DEF Thread!EditComment
<1>2. PICK M \in SUBSET Thread!Entries : M = view
  BY DEF CommentInv, Types, TabTypes
<1>3. PICK click \in Clicks :
        /\ click = [Thread!NoOp EXCEPT !.kind = "EDIT", !.target = e.key, !.text = t]
        /\ ~click.ok /\ ~click.touched /\ click.kind = "EDIT"
  <2> DEFINE k == [Thread!NoOp EXCEPT !.kind = "EDIT", !.target = e.key, !.text = t]
  <2>1. k \in Clicks /\ ~k.ok /\ ~k.touched /\ k.kind = "EDIT"
    BY <1>1, NewClick DEF Clicks, Thread!ClickKinds
  <2> QED
    BY <2>1
<1>4. Thread!Begin(o, click, M)
  BY <1>1, <1>2, <1>3
<1>5. After(o, M)' = view
  BY <1>2, <1>3, <1>4, Undo
<1> QED
  BY <1>3, <1>4, <1>5, BeginTag

LEMMA DeleteTag ==
  ASSUME CommentInv, TagInv, NEW o \in Thread!Ops, Thread!DeleteComment(o)
  PROVE  TagInv'
<1>1. PICK e \in view :
        /\ e.key \in Comments
        /\ Thread!Begin(o, [Thread!NoOp EXCEPT !.kind = "DELETE", !.target = e.key,
                            !.snapshot = view],
                        Thread!Without(view, e.key))
  BY DEF Thread!DeleteComment
<1>2. view \in SUBSET Thread!Entries /\ "x" \in Thread!Texts /\ TRUE \in BOOLEAN
  BY DEF CommentInv, Types, TabTypes, Thread!Texts
<1>3. PICK click \in Clicks :
        /\ click = [Thread!NoOp EXCEPT !.kind = "DELETE", !.target = e.key, !.snapshot = view]
        /\ ~click.ok /\ ~click.touched /\ click.kind = "DELETE" /\ click.snapshot = view
  <2> DEFINE k == [Thread!NoOp EXCEPT !.kind = "DELETE", !.target = e.key, !.snapshot = view]
  <2>1. k \in Clicks /\ ~k.ok /\ ~k.touched /\ k.kind = "DELETE" /\ k.snapshot = view
    BY <1>1, <1>2, NewClick DEF Clicks, Thread!ClickKinds
  <2> QED
    BY <2>1
<1>4. PICK M \in SUBSET Thread!Entries : M = Thread!Without(view, e.key)
  BY <1>2, WithoutFacts
<1>5. Thread!Begin(o, click, M)
  BY <1>1, <1>3, <1>4
<1>6. After(o, M)' = view
  BY <1>3, <1>5, Undo
<1> QED
  BY <1>3, <1>5, <1>6, BeginTag

\* A step that leaves the lists, and what the handlers would make of them.
LEMMA FollowsStays ==
  ASSUME CommentInv, TagInv,
         UNCHANGED <<Thread!server, view, etag, fetch, overtaken, rewound, twice, short>>,
         Thread!InFlight' = Thread!InFlight,
         \A p \in Thread!Ops : (Alone(p)' <=> Alone(p)) /\ op'[p].touched = op[p].touched,
         \A p \in Thread!Ops : \A L : After(p, L)' = After(p, L)
  PROVE  TagInv'
<1>1. UNCHANGED <<comment, spent, clock>>
  BY DEF Thread!server
<1>2. Thread!Existing' = Thread!Existing /\ Thread!Listed' = Thread!Listed
  BY <1>1 DEF Thread!Existing, Thread!Listed, Thread!shown
<1>3. \A L : Rests(L)' <=> Rests(L)
  BY <1>2 DEF Rests, Thread!InFlight
<1>4. ViewFollows => ViewFollows'
  <2>1. ASSUME ViewFollows, \A o \in Thread!Ops : ~Alone(o) PROVE Rests(view)'
    <3>1. PICK V : V = view /\ Rests(V)
      BY <2>1 DEF ViewFollows
    <3>2. Rests(V)'
      BY <3>1, <1>3
    <3> QED
      BY <3>1, <3>2 DEF Rests
  <2>2. ASSUME ViewFollows, NEW o \in Thread!Ops, Alone(o) PROVE Rests(After(o, view))'
    <3>1. PICK V : V = After(o, view) /\ Rests(V)
      BY <2>2 DEF ViewFollows
    <3>2. Rests(V)' /\ After(o, view)' = V
      BY <3>1, <1>3
    <3> QED
      BY <3>2 DEF Rests
  <2> QED
    BY <2>1, <2>2 DEF ViewFollows
<1>5. TagOK'
  <2>1. Old(etag, rewound)' <=> Old(etag, rewound)
    BY <1>1, <1>2 DEF Old
  <2> QED
    BY <1>1, <1>2, <1>4, <2>1 DEF TagInv, TagOK
<1>6. OneAlone'
  BY DEF TagInv, OneAlone
<1>7. \A f \in Fetches : FetchOK(f)'
  BY FetchStays
<1> QED
  BY <1>5, <1>6, <1>7 DEF TagInv

\* The request of a click, lost or refused: what its handler will do stays the same.
LEMMA RefuseTag ==
  ASSUME CommentInv, TagInv, NEW o \in Thread!Ops, Thread!ServerRefuses(o)
  PROVE  TagInv'
<1>0. ServerTypes /\ TabTypes /\ op \in [Thread!Ops -> Clicks]
  BY DEF CommentInv, Types, TabTypes
<1>1. /\ op[o].phase = "sent"
      /\ UNCHANGED <<Thread!server, view, etag, mutating, fetch, overtaken, rewound, twice, short>>
      /\ op' = [op EXCEPT ![o].phase = "answered", ![o].ok = FALSE]
  BY DEF Thread!ServerRefuses
<1>2. op[o].ok = FALSE
  BY <1>1, <1>0, ClickTypes DEF CommentInv, ClicksOK
<1>3. /\ op'[o].phase = "answered"
      /\ \A p \in Thread!Ops : /\ op'[p].kind = op[p].kind /\ op'[p].target = op[p].target
                               /\ op'[p].done = op[p].done /\ op'[p].text = op[p].text
                               /\ op'[p].ok = op[p].ok /\ op'[p].id = op[p].id
                               /\ op'[p].snapshot = op[p].snapshot
                               /\ op'[p].touched = op[p].touched
                               /\ p # o => op'[p].phase = op[p].phase
  <2>1. op[o] \in Clicks
    BY <1>0
  <2>2. op' = [op EXCEPT ![o] = [op[o] EXCEPT !.phase = "answered", !.ok = FALSE]]
    BY <1>1
  <2>3. op'[o] = [op[o] EXCEPT !.phase = "answered", !.ok = FALSE]
    BY <2>2, <1>0
  <2>4. /\ op'[o].phase = "answered"
        /\ op'[o].kind = op[o].kind /\ op'[o].target = op[o].target
        /\ op'[o].done = op[o].done /\ op'[o].text = op[o].text
        /\ op'[o].ok = op[o].ok /\ op'[o].id = op[o].id
        /\ op'[o].snapshot = op[o].snapshot /\ op'[o].touched = op[o].touched
    BY <2>1, <2>3, <1>2 DEF Clicks
  <2>5. \A p \in Thread!Ops : p # o => op'[p] = op[p]
    BY <2>2, <1>0
  <2> QED
    BY <2>4, <2>5
<1>4. Thread!InFlight' = Thread!InFlight
  BY <1>1, <1>3 DEF Thread!InFlight
<1>5. \A p \in Thread!Ops : (Alone(p)' <=> Alone(p)) /\ op'[p].touched = op[p].touched
  BY <1>3, <1>4 DEF Alone
<1>6. ASSUME NEW p \in Thread!Ops, NEW L PROVE After(p, L)' = After(p, L)
  <2>1. /\ op'[p].kind = op[p].kind /\ op'[p].target = op[p].target
        /\ op'[p].done = op[p].done /\ op'[p].text = op[p].text
        /\ op'[p].ok = op[p].ok /\ op'[p].id = op[p].id
        /\ op'[p].snapshot = op[p].snapshot
    BY <1>3
  <2> QED
    BY <2>1 DEF After
<1> QED
  BY <1>1, <1>4, <1>5, <1>6, FollowsStays

\* The answer of a click.  One that nothing has come between puts back what the list
\* was to become; one that rewrites a newer list is what "overtaken" says.
LEMMA AnswerTag ==
  ASSUME CommentInv, TagInv, NEW o \in Thread!Ops, Thread!Answer(o)
  PROVE  TagInv'
<1> DEFINE new == [Thread!NoOp EXCEPT !.phase = "done"]
<1>0. op \in [Thread!Ops -> Clicks] /\ TabTypes
  BY DEF CommentInv, Types, TabTypes
<1>1. /\ op[o].phase = "answered" /\ view' = After(o, view)
      /\ op' = Thread!Touch([op EXCEPT ![o] = new], o)
      /\ overtaken' = (overtaken \/ (op[o].touched /\ view' # view))
      /\ UNCHANGED <<Thread!server, etag, fetch, rewound, twice, short>>
  BY AnsweredIsAfter DEF Thread!Answer
<1>2. new \in Clicks /\ new.phase = "done"
  BY NewClick DEF Clicks
<1> HIDE DEF new
<1>3. /\ op'[o] = new
      /\ \A p \in Thread!Ops : p # o => /\ KeptClick(p)
                                        /\ p \in Thread!InFlight => op'[p].touched = TRUE
  BY <1>0, <1>1, <1>2, TouchFacts
<1>4. o \in Thread!InFlight /\ Thread!InFlight' = Thread!InFlight \ {o}
  BY <1>1, <1>2, <1>3 DEF Thread!InFlight, KeptClick
<1>5. \A p \in Thread!Ops : ~Alone(p)'
  BY <1>3, <1>4 DEF Alone
<1>6. OneAlone'
  BY <1>5 DEF OneAlone
<1>7. Thread!Existing' = Thread!Existing /\ Thread!Listed' = Thread!Listed
      /\ UNCHANGED <<comment, clock>>
  BY <1>1 DEF Thread!server, Thread!Listed, Thread!Existing, Thread!shown
\* A list with a handler that has it in mind still has it, unless that was o.
<1>8. ASSUME NEW V, V = Thread!Listed \/ \E p \in Thread!InFlight : p # o /\ After(p, V) # V
      PROVE  Rests(V)'
  <2>1. CASE V = Thread!Listed
    BY <2>1, <1>7 DEF Rests
  <2>2. ASSUME NEW p \in Thread!InFlight, p # o, After(p, V) # V
        PROVE  p \in Thread!InFlight' /\ op'[p].touched /\ After(p, V)' # V
    <3>1. p \in Thread!Ops /\ KeptClick(p) /\ op'[p].touched
      BY <2>2, <1>3 DEF Thread!InFlight
    <3>2. After(p, V)' = After(p, V)
      BY <3>1, AfterKept
    <3> QED
      BY <2>2, <3>1, <3>2, <1>4
  <2>3. V = Thread!Listed' \/ \E p \in Thread!InFlight' : op'[p].touched /\ After(p, V)' # V
    BY <1>7, <1>8, <2>1, <2>2
  <2> QED
    BY <2>3 DEF Rests
<1>9. ASSUME ViewFollows, ~overtaken'
      PROVE  Rests(view)'
  <2>1. PICK V : V = After(o, view) /\ V = view'
    BY <1>1
  <2>2. V = Thread!Listed \/ \E p \in Thread!InFlight : p # o /\ After(p, V) # V
    <3>1. CASE Alone(o)
      <4>1. Rests(V)
        BY <3>1, <2>1, <1>9 DEF ViewFollows
      <4>2. \A p \in Thread!InFlight : op[p].touched => p # o
        BY <3>1 DEF Alone
      <4> QED
        BY <4>1, <4>2 DEF Rests
    <3>2. CASE ~Alone(o)
      <4>1. V = view
        BY <3>2, <2>1, <1>1, <1>4, <1>9 DEF Alone
      <4>2. After(o, V) = V
        BY <4>1, <2>1
      <4>3. CASE \E u \in Thread!Ops : Alone(u)
        <5>1. PICK u \in Thread!Ops : Alone(u)
          BY <4>3
        <5>2. Rests(After(u, V)) /\ u \in Thread!InFlight /\ u # o
          BY <1>9, <3>2, <4>1, <5>1 DEF ViewFollows, Alone
        <5>3. CASE After(u, V) = V
          BY <4>2, <5>2, <5>3 DEF Rests
        <5> QED
          BY <5>2, <5>3
      <4>4. CASE \A u \in Thread!Ops : ~Alone(u)
        BY <1>9, <4>1, <4>2, <4>4 DEF ViewFollows, Rests
      <4> QED
        BY <4>3, <4>4
    <3> QED
      BY <3>1, <3>2
  <2>3. Rests(V)'
    BY <2>2, <1>8
  <2> QED
    BY <2>1, <2>3 DEF Rests
<1>10. ViewFollows /\ ~overtaken' => ViewFollows'
  BY <1>5, <1>9 DEF ViewFollows
<1>11. TagOK'
  <2>1. Old(etag, rewound)' <=> Old(etag, rewound)
    BY <1>1, <1>7 DEF Old
  <2>2. ~overtaken' => ~overtaken
    BY <1>1
  <2> QED
    BY <1>1, <1>7, <1>10, <2>1, <2>2 DEF TagInv, TagOK
<1>12. \A f \in Fetches : FetchOK(f)'
  BY <1>1, FetchStays
<1> QED
  BY <1>6, <1>11, <1>12 DEF TagInv

-----------------------------------------------------------------------------
(* The requests for the list.                                              *)

\* One request moves on: the others, and the list, are what they were.
LEMMA OneTagMoves ==
  ASSUME CommentInv, TagInv, NEW f \in Fetches, NEW new \in Requested,
         UNCHANGED <<Thread!server, view, etag, mutating, op, overtaken, rewound, twice, short>>,
         fetch' = [fetch EXCEPT ![f] = new],
         FetchOK(f)'
  PROVE  TagInv'
<1>0. TabTypes /\ fetch \in [Fetches -> Requested]
  BY DEF CommentInv, Types, TabTypes
<1>1. UNCHANGED <<comment, spent, clock>>
  BY DEF Thread!server
<1>2. Thread!Existing' = Thread!Existing /\ Thread!TopLevel' = Thread!TopLevel
  BY <1>1 DEF Thread!Existing, Thread!TopLevel
<1>3. Thread!Listed' = Thread!Listed /\ \A c : Thread!shown(c)' = Thread!shown(c)
  BY <1>1, <1>2 DEF Thread!Listed, Thread!shown
<1>4. \A n : ReadTo(n)' = ReadTo(n)
  BY <1>1, <1>2 DEF ReadTo, First, Rank
<1>5. ASSUME NEW g \in Fetches PROVE FetchOK(g)'
  <2>1. CASE g = f
    BY <2>1
  <2>2. CASE g # f
    <3>1. fetch'[g] = fetch[g]
      BY <2>2, <1>0
    <3>2. PagesSoFar(g)' <=> PagesSoFar(g)
      BY <3>1, <1>1, <1>2, <1>3, <1>4 DEF PagesSoFar
    <3> QED
      BY <3>1, <3>2, <1>1, <1>2 DEF TagInv, FetchOK, Old
  <2> QED
    BY <2>1, <2>2
<1>6. TagOK' /\ OneAlone'
  <2>1. Old(etag, rewound)' <=> Old(etag, rewound)
    BY <1>1, <1>2 DEF Old
  <2>2. \A o \in Thread!Ops : Alone(o)' <=> Alone(o)
    BY DEF Alone, Thread!InFlight
  <2>3. \A o, L : After(o, L)' = After(o, L)
    BY DEF After
  <2>4. ViewFollows' <=> ViewFollows
    BY <1>2, <1>3, <2>2, <2>3 DEF ViewFollows, Rests, Thread!InFlight
  <2> QED
    BY <1>1, <1>2, <2>1, <2>2, <2>4 DEF TagInv, TagOK, OneAlone
<1> QED
  BY <1>5, <1>6 DEF TagInv

LEMMA FreshTag ==
  ASSUME TabTypes, ServerTypes, NEW f \in Fetches,
         UNCHANGED Thread!server,
         fetch'[f].tag = Thread!NoTag,
         fetch'[f].phase = "idle" \/ /\ fetch'[f].phase \in {"tag", "revision"}
                                     /\ fetch'[f].got = {} /\ fetch'[f].offset = 0
                                     /\ ~fetch'[f].twice /\ ~fetch'[f].rewound
  PROVE  FetchOK(f)'
<1>1. clock' \in Nat /\ Thread!NoTag.last = 0
  BY DEF ServerTypes, Thread!server, Thread!NoTag
<1> QED
  BY <1>1 DEF FetchOK

LEMMA StartTag ==
  ASSUME CommentInv, TagInv, NEW f \in Fetches, NEW header \in Thread!Tags \cup {Thread!NoTag},
         Thread!Start(f, header)
  PROVE  TagInv'
<1>0. ServerTypes /\ TabTypes /\ fetch \in [Fetches -> Requested]
  BY DEF CommentInv, Types, TabTypes
<1>1. PICK new \in Requested :
        /\ new = [Thread!NoFetch EXCEPT !.phase = "tag", !.header = header]
        /\ new.phase = "tag" /\ new.tag = Thread!NoTag /\ new.got = {} /\ new.offset = 0
        /\ ~new.twice /\ ~new.rewound
  <2> DEFINE k == [Thread!NoFetch EXCEPT !.phase = "tag", !.header = header]
  <2>1. /\ k \in Requested /\ k.phase = "tag" /\ k.tag = Thread!NoTag /\ k.got = {}
        /\ k.offset = 0
        /\ ~k.twice /\ ~k.rewound
    BY NewFetch DEF Requested, FetchPhases
  <2> QED
    BY <2>1
<1>2. /\ fetch' = [fetch EXCEPT ![f] = new]
      /\ UNCHANGED <<Thread!server, view, etag, mutating, op, overtaken, rewound, twice, short>>
  BY <1>1 DEF Thread!Start
<1>3. fetch'[f] = new
  BY <1>0, <1>2
<1>4. FetchOK(f)'
  BY <1>0, <1>1, <1>2, <1>3, FreshTag
<1> QED
  BY <1>2, <1>4, OneTagMoves

\* A request that is given up.
LEMMA EndTag ==
  ASSUME CommentInv, TagInv, NEW f \in Fetches,
         UNCHANGED <<Thread!server, view, etag, mutating, op, overtaken, rewound, twice, short>>,
         fetch' = [fetch EXCEPT ![f] = Thread!NoFetch]
  PROVE  TagInv'
<1>0. ServerTypes /\ TabTypes /\ fetch \in [Fetches -> Requested]
  BY DEF CommentInv, Types, TabTypes
<1>1. fetch'[f] = Thread!NoFetch
  BY <1>0
<1>2. FetchOK(f)'
  BY <1>0, <1>1, NewFetch, FreshTag
<1> QED
  BY <1>2, NewFetch, OneTagMoves

\* The list and its tag are the tab's.
LEMMA ApplyTag ==
  ASSUME CommentInv, TagInv, NEW f \in Fetches, Thread!Apply(f)
  PROVE  TagInv'
<1>0. ServerTypes /\ TabTypes /\ fetch \in [Fetches -> Requested]
  BY DEF CommentInv, Types, TabTypes
<1>1. /\ fetch[f].phase = "apply" /\ view' = fetch[f].got /\ etag' = fetch[f].tag
      /\ overtaken' = FALSE /\ rewound' = fetch[f].rewound /\ twice' = fetch[f].twice
      /\ short' = fetch[f].short
      /\ fetch' = [fetch EXCEPT ![f] = Thread!NoFetch]
      /\ UNCHANGED <<Thread!server, mutating>>
  BY DEF Thread!Apply
<1>2. UNCHANGED <<comment, spent, clock>>
  BY <1>1 DEF Thread!server
<1>3. Thread!Existing' = Thread!Existing /\ Thread!TopLevel' = Thread!TopLevel
  BY <1>2 DEF Thread!Existing, Thread!TopLevel
<1>4. Thread!Listed' = Thread!Listed /\ \A c : Thread!shown(c)' = Thread!shown(c)
  BY <1>2, <1>3 DEF Thread!Listed, Thread!shown
<1>5. \A n : ReadTo(n)' = ReadTo(n)
  BY <1>2, <1>3 DEF ReadTo, First, Rank
<1>6. ASSUME NEW g \in Fetches PROVE FetchOK(g)'
  <2>1. CASE g = f
    <3>1. fetch'[f] = Thread!NoFetch
      BY <1>0, <1>1
    <3> QED
      BY <2>1, <3>1, <1>0, <1>1, NewFetch, FreshTag
  <2>2. CASE g # f
    <3>1. fetch'[g] = fetch[g]
      BY <2>2, <1>0, <1>1
    <3>2. PagesSoFar(g)' <=> PagesSoFar(g)
      BY <3>1, <1>2, <1>3, <1>4, <1>5 DEF PagesSoFar
    <3> QED
      BY <3>1, <3>2, <1>2, <1>3 DEF TagInv, FetchOK, Old
  <2> QED
    BY <2>1, <2>2
<1>7. \A o \in Thread!Ops : ~Alone(o)'
  BY <1>0, ApplyFacts
<1>8. fetch[f].tag.last <= clock
      /\ (Old(fetch[f].tag, fetch[f].rewound) \/ PagesSoFar(f))
  BY <1>1 DEF TagInv, FetchOK
<1>9. PagesSoFar(f) /\ ~short' =>
        ~twice' /\ etag'.count = Cardinality(Thread!Existing') /\ ViewFollows'
  <2>1. ASSUME PagesSoFar(f), ~short' PROVE view' = Thread!Listed'
    BY <2>1, <1>1, <1>4 DEF PagesSoFar
  <2>2. ASSUME PagesSoFar(f), ~short' PROVE ViewFollows'
    BY <2>1, <2>2, <1>7 DEF ViewFollows, Rests
  <2> QED
    BY <2>2, <1>1, <1>3 DEF PagesSoFar
<1>10. Old(fetch[f].tag, fetch[f].rewound) => Old(etag, rewound)'
  BY <1>1, <1>2, <1>3 DEF Old
<1>11. TagOK'
  BY <1>1, <1>2, <1>8, <1>9, <1>10 DEF TagOK
<1>12. OneAlone'
  BY <1>7 DEF OneAlone
<1> QED
  BY <1>6, <1>11, <1>12 DEF TagInv

-----------------------------------------------------------------------------
(* The pages: the rank of a top-level comment says which of them it is on.  *)

LEMMA RankFacts ==
  ASSUME ServerTypes, NEW c \in Thread!TopLevel
  PROVE  /\ c \in Nat /\ Rank(c) \in Nat /\ Rank(c) < Cardinality(Thread!TopLevel)
         /\ \A d \in Thread!TopLevel : d < c => Rank(d) < Rank(c)
<1>1. Thread!TopLevel \in SUBSET Comments /\ Comments \in SUBSET Nat
  BY SharedAssumption DEF Thread!TopLevel, Thread!Existing
<1>2. ASSUME NEW d \in Thread!TopLevel
      PROVE  /\ {e \in Thread!TopLevel : e < d} \in SUBSET Comments
             /\ IsFiniteSet({e \in Thread!TopLevel : e < d}) /\ Rank(d) \in Nat
  BY <1>1, ExistingFinite DEF Rank
<1>3. Rank(c) < Cardinality(Thread!TopLevel)
  <2>1. {e \in Thread!TopLevel : e < c} \in SUBSET Thread!TopLevel
        /\ c \notin {e \in Thread!TopLevel : e < c}
    BY <1>1
  <2>2. IsFiniteSet(Thread!TopLevel) /\ Cardinality(Thread!TopLevel) \in Nat
    BY <1>1, ExistingFinite
  <2> DEFINE S == {e \in Thread!TopLevel : e < c}
  <2>3. S \in SUBSET Thread!TopLevel /\ S # Thread!TopLevel
    BY <2>1
  <2> HIDE DEF S
  <2>4. Cardinality(S) < Cardinality(Thread!TopLevel)
    BY <2>2, <2>3, FS_Subset, FS_CardinalityType
  <2> QED
    BY <2>4 DEF Rank, S
<1>4. ASSUME NEW d \in Thread!TopLevel, d < c PROVE Rank(d) < Rank(c)
  <2> DEFINE S == {e \in Thread!TopLevel : e < d}
             T == {e \in Thread!TopLevel : e < c}
  <2>0. c \in Nat /\ d \in Nat /\ \A e \in Thread!TopLevel : e \in Nat
    BY <1>1
  <2>1. S \subseteq T /\ d \in T /\ d \notin S
    <3>1. ASSUME NEW e \in S PROVE e \in T
      BY <3>1, <2>0, <1>4
    <3>2. d \in T /\ d \notin S
      BY <2>0, <1>4
    <3> QED
      BY <3>1, <3>2
  <2>2. IsFiniteSet(T)
    BY <1>2
  <2> HIDE DEF S, T
  <2>3. Cardinality(S) < Cardinality(T)
    BY <2>1, <2>2, FS_Subset, FS_CardinalityType
  <2> QED
    BY <2>3 DEF Rank, S, T
<1> QED
  BY <1>1, <1>2, <1>3, <1>4

\* A page holds at most PageSize top-level comments.
LEMMA PageFits ==
  ASSUME ServerTypes, NEW n \in Nat
  PROVE  Cardinality(Thread!Page(n)) \in Nat /\ Cardinality(Thread!Page(n)) <= PageSize
<1>1. Thread!Page(n) = {c \in Thread!TopLevel : Rank(c) \in n .. n + PageSize - 1}
  BY SameCount DEF Thread!Page, Rank
<1> DEFINE I == n .. n + PageSize - 1
           r == [c \in Thread!Page(n) |-> Rank(c)]
<1>2. IsFiniteSet(I) /\ Cardinality(I) = PageSize
  <2> DEFINE b == n + PageSize - 1
  <2>1. b \in Int /\ n \in Int /\ ~(n > b) /\ b - n + 1 = PageSize
    BY SharedAssumption
  <2> HIDE DEF b
  <2>2. IsFiniteSet(n .. b) /\ Cardinality(n .. b) = b - n + 1
    BY <2>1, FS_Interval
  <2> QED
    BY <2>1, <2>2 DEF b
<1>3. r \in Injection(Thread!Page(n), I)
  <2>1. \A c \in Thread!Page(n) : c \in Thread!TopLevel /\ Rank(c) \in I
    BY <1>1
  <2>2. ASSUME NEW c \in Thread!Page(n), NEW d \in Thread!Page(n), Rank(c) = Rank(d) PROVE c = d
    <3>1. c \in Nat /\ d \in Nat /\ Rank(c) \in Nat /\ ~(c < d) /\ ~(d < c)
      BY <2>1, <2>2, RankFacts
    <3> QED
      BY <3>1
  <2> QED
    BY <2>1, <2>2 DEF Injection, IsInjective
<1> HIDE DEF I, r
<1>4. IsFiniteSet(Thread!Page(n)) /\ Cardinality(Thread!Page(n)) <= Cardinality(I)
  BY <1>2, <1>3, FS_Injection
<1> QED
  BY <1>2, <1>4, FS_CardinalityType

LEMMA PageIsNext ==
  ASSUME ServerTypes, NEW n \in Nat
  PROVE  /\ ReadTo(0) = {}
         /\ ReadTo(n) \cap PageRows(n) = {}
         /\ ReadTo(n) \cup PageRows(n) = ReadTo(n + PageSize)
<1>1. \A c \in Thread!TopLevel : Rank(c) \in Nat
  BY RankFacts
<1>2. Thread!Page(n) = {c \in Thread!TopLevel : Rank(c) \in n .. n + PageSize - 1}
  BY SameCount DEF Thread!Page, Rank
<1>3. PageSize \in Nat
  BY SharedAssumption
<1>4. First(0) = {} /\ First(n) \cap Thread!Page(n) = {}
      /\ First(n + PageSize) = First(n) \cup Thread!Page(n)
  BY <1>1, <1>2, <1>3 DEF First
<1>5. \A d \in First(n) \cup Thread!Page(n) : comment[d].parent = Thread!NoParent
  BY <1>2 DEF First, Thread!TopLevel
<1>6. Thread!NoParent \notin First(n) \cup Thread!Page(n)
  BY <1>2, KeyFacts DEF First, Thread!TopLevel, Thread!Existing
<1> QED
  BY <1>4, <1>5, <1>6 DEF ReadTo, PageRows

\* A page that is not full, or that the total says is the last one, is the last one.
LEMMA LastPage ==
  ASSUME ServerTypes, RowsOK, NEW n \in Nat,
         ~(n + Cardinality(Thread!Page(n)) < Cardinality(Thread!TopLevel))
  PROVE  ReadTo(n + PageSize) = Thread!Existing
<1>1. /\ Cardinality(Thread!Page(n)) \in Nat /\ Cardinality(Thread!Page(n)) <= PageSize
      /\ Cardinality(Thread!TopLevel) \in Nat /\ PageSize \in Nat
  BY PageFits, ExistingFinite, SharedAssumption DEF Thread!TopLevel, Thread!Existing
<1>2. \A c \in Thread!TopLevel : c \in First(n + PageSize)
  <2>1. ASSUME NEW c \in Thread!TopLevel PROVE Rank(c) < n + PageSize
    <3>1. Rank(c) \in Nat /\ Rank(c) < Cardinality(Thread!TopLevel)
      BY RankFacts
    <3> QED
      BY <3>1, <1>1
  <2> QED
    BY <2>1 DEF First
<1>3. \A d \in Thread!Existing : d \in Thread!TopLevel \/ comment[d].parent \in Thread!TopLevel
  BY DEF RowsOK, Thread!TopLevel
<1> QED
  BY <1>2, <1>3 DEF ReadTo

\* The first page's tag: nothing is read of the list yet.
LEMMA ReadRevisionTag ==
  ASSUME CommentInv, TagInv, NEW f \in Fetches, Thread!ReadRevision(f)
  PROVE  TagInv'
<1>0. ServerTypes /\ TabTypes /\ RowsOK /\ fetch \in [Fetches -> Requested]
  BY DEF CommentInv, Types, TabTypes
<1>1. /\ fetch[f].phase \in {"tag", "revision"} /\ fetch[f].offset = 0
      /\ UNCHANGED <<Thread!server, view, etag, mutating, op, overtaken, rewound, twice, short>>
  BY <1>0, ReadRevisionFacts
<1>2. UNCHANGED <<comment, spent, clock>>
  BY <1>1 DEF Thread!server
<1>3. Thread!Existing' = Thread!Existing /\ Thread!TopLevel' = Thread!TopLevel
      /\ \A c : Thread!shown(c)' = Thread!shown(c)
  BY <1>2 DEF Thread!Existing, Thread!TopLevel, Thread!shown
<1>4. \A n : ReadTo(n)' = ReadTo(n)
  BY <1>2, <1>3 DEF ReadTo, First, Rank
<1>5. CASE fetch' = [fetch EXCEPT ![f] = Thread!NoFetch]
  BY <1>1, <1>5, EndTag
<1>6. ASSUME NEW new, fetch' = [fetch EXCEPT ![f] = new], RevisionIn(f, new)
      PROVE  TagInv'
  <2>1. fetch'[f] = new /\ new \in Requested
    BY <1>0, <1>6 DEF RevisionIn, Answers
  <2>2. /\ new.phase \in {"count", "rows"} /\ new.tag = Thread!Revision /\ new.offset = 0
        /\ new.got = fetch[f].got /\ new.twice = fetch[f].twice
        /\ new.phase = "rows" => new.short \/ Cardinality(Thread!TopLevel) <= new.total
    BY <1>1, <1>6 DEF RevisionIn, Answers
  <2>3. new.got = {} /\ ~new.twice
    BY <1>1, <2>2 DEF TagInv, FetchOK
  <2>4. /\ Thread!Revision # Thread!NoTag
        /\ Thread!Revision.count = Cardinality(Thread!Existing) /\ Thread!Revision.last <= clock
    BY <1>0, RevisionFacts
  <2>5. {Thread!shown(c) : c \in ReadTo(0)} = {}
    BY <1>0, PageIsNext
  <2>6. PagesSoFar(f)'
    BY <1>3, <1>4, <2>1, <2>2, <2>3, <2>4, <2>5 DEF PagesSoFar
  <2>7. FetchOK(f)'
    BY <1>2, <2>1, <2>2, <2>4, <2>6 DEF FetchOK
  <2> QED
    BY <1>1, <1>6, <2>1, <2>2, <2>4, <2>7, OneTagMoves
<1> QED
  BY <1>0, <1>5, <1>6, ReadRevisionFacts

\* The total of a page: what the request has already stays as good as it was.
LEMMA ReadTotalTag ==
  ASSUME CommentInv, TagInv, NEW f \in Fetches, Thread!ReadTotal(f)
  PROVE  TagInv'
<1>0. ServerTypes /\ TabTypes /\ RowsOK /\ fetch \in [Fetches -> Requested]
  BY DEF CommentInv, Types, TabTypes
<1>1. /\ fetch[f].phase \in {"tag", "count"}
      /\ UNCHANGED <<Thread!server, view, etag, mutating, op, overtaken, rewound, twice, short>>
  BY <1>0, ReadTotalFacts
<1>2. UNCHANGED <<comment, spent, clock>>
  BY <1>1 DEF Thread!server
<1>3. Thread!Existing' = Thread!Existing /\ Thread!TopLevel' = Thread!TopLevel
      /\ \A c : Thread!shown(c)' = Thread!shown(c)
  BY <1>2 DEF Thread!Existing, Thread!TopLevel, Thread!shown
<1>4. \A n : ReadTo(n)' = ReadTo(n)
  BY <1>2, <1>3 DEF ReadTo, First, Rank
<1>5. CASE fetch' = [fetch EXCEPT ![f] = Thread!NoFetch]
  BY <1>1, <1>5, EndTag
<1>6. ASSUME NEW new, fetch' = [fetch EXCEPT ![f] = new], TotalIn(f, new)
      PROVE  TagInv'
  <2>1. /\ fetch'[f] = new /\ new \in Requested /\ new.phase \in {"revision", "rows"}
        /\ new.tag = fetch[f].tag /\ new.offset = fetch[f].offset /\ new.got = fetch[f].got
        /\ new.twice = fetch[f].twice /\ new.rewound = fetch[f].rewound
        /\ new.total = Cardinality(Thread!TopLevel)
    BY <1>0, <1>6 DEF TotalIn, Answers
  <2>2. FetchOK(f)
    BY DEF TagInv
  <2>3. CASE new.phase = "revision"
    <3>1. new.tag = Thread!NoTag
      BY <1>6, <2>1, <2>2, <2>3 DEF TotalIn, FetchOK
    <3>2. new.got = {} /\ new.offset = 0 /\ ~new.twice /\ ~new.rewound
      BY <1>1, <2>1, <2>2, <3>1 DEF FetchOK
    <3>3. FetchOK(f)'
      BY <1>0, <1>1, <2>1, <2>3, <3>1, <3>2, FreshTag
    <3> QED
      BY <1>1, <1>6, <2>1, <3>3, OneTagMoves
  <2>4. CASE new.phase = "rows"
    <3>1. new.tag # Thread!NoTag
      BY <1>1, <1>6, <2>1, <2>2, <2>4 DEF TotalIn, FetchOK
    <3>2. Old(fetch[f].tag, fetch[f].rewound) \/ PagesSoFar(f)
      BY <1>1, <2>1, <2>2, <3>1 DEF FetchOK
    <3>3. Old(fetch[f].tag, fetch[f].rewound) => Old(fetch[f].tag, fetch[f].rewound)'
      BY <1>2, <1>3, <2>1 DEF Old
    <3>4. Cardinality(Thread!TopLevel) \in Nat
      BY <1>0, ExistingFinite DEF Thread!TopLevel, Thread!Existing
    <3>5. PagesSoFar(f) => PagesSoFar(f)'
      BY <1>1, <1>3, <1>4, <2>1, <2>4, <3>4 DEF PagesSoFar
    <3>6. FetchOK(f)'
      BY <1>2, <2>1, <2>2, <2>4, <3>1, <3>2, <3>3, <3>5 DEF FetchOK
    <3> QED
      BY <1>1, <1>6, <2>1, <2>4, <3>1, <3>6, OneTagMoves
  <2> QED
    BY <2>1, <2>3, <2>4
<1> QED
  BY <1>0, <1>5, <1>6, ReadTotalFacts

LEMMA ReadRowsTag ==
  ASSUME CommentInv, TagInv, NEW f \in Fetches, Thread!ReadRows(f)
  PROVE  TagInv'
<1>0. ServerTypes /\ TabTypes /\ RowsOK /\ fetch \in [Fetches -> Requested]
  BY DEF CommentInv, Types, TabTypes
<1>1. /\ fetch[f].phase = "rows"
      /\ UNCHANGED <<Thread!server, view, etag, mutating, op, overtaken, rewound, twice, short>>
      /\ fetch' = [fetch EXCEPT ![f] = Paged(f)]
  BY <1>0, ReadRowsFacts
<1>2. UNCHANGED <<comment, spent, clock>>
  BY <1>1 DEF Thread!server
<1>3. Thread!Existing' = Thread!Existing /\ Thread!TopLevel' = Thread!TopLevel
      /\ \A c : Thread!shown(c)' = Thread!shown(c)
  BY <1>2 DEF Thread!Existing, Thread!TopLevel, Thread!shown
<1>4. Thread!Listed' = Thread!Listed /\ \A n : ReadTo(n)' = ReadTo(n)
  BY <1>2, <1>3 DEF Thread!Listed, ReadTo, First, Rank
<1>5. PICK n \in Nat, got \in SUBSET Thread!Entries, C \in SUBSET Thread!Existing :
        n = fetch[f].offset /\ got = fetch[f].got /\ C = PageRows(n)
  BY <1>0, FetchTypes DEF PageRows
<1>6. PICK more \in BOOLEAN : more <=> IsMore(f)
  OBVIOUS
<1>7. PICK new \in Requested :
        /\ new = Paged(f) /\ new.got = got \cup Shows(C)
        /\ new.twice <=> (fetch[f].twice \/ \E e \in got : e.key \in C)
        /\ new.offset = IF more THEN n + PageSize ELSE 0
        /\ new.phase = IF more THEN "tag" ELSE "apply"
        /\ new.tag = fetch[f].tag /\ new.rewound = fetch[f].rewound
        /\ new.short <=> fetch[f].short /\ EndsEarly(f)
  BY <1>0, <1>5, <1>6, PagedFacts
<1>8. fetch'[f] = new
  BY <1>0, <1>1, <1>7
<1>9. FetchOK(f) /\ new.tag # Thread!NoTag /\ fetch[f].tag.last <= clock
  BY <1>1, <1>7 DEF TagInv, FetchOK
<1>10. Old(fetch[f].tag, fetch[f].rewound) => Old(fetch[f].tag, fetch[f].rewound)'
  BY <1>2, <1>3, <1>7, <1>8 DEF Old
<1>11. ASSUME PagesSoFar(f) PROVE PagesSoFar(f)'
  <2>1. /\ got = Shows(ReadTo(n)) /\ ~fetch[f].twice
        /\ fetch[f].tag.count = Cardinality(Thread!Existing)
        /\ fetch[f].short \/ Cardinality(Thread!TopLevel) <= fetch[f].total
    BY <1>1, <1>5, <1>11 DEF PagesSoFar, Shows
  <2>2. ReadTo(n) \cap C = {} /\ ReadTo(n) \cup C = ReadTo(n + PageSize)
    BY <1>0, <1>5, PageIsNext
  <2>3. ReadTo(n) \in SUBSET Thread!Existing
    BY DEF ReadTo
  <2>4. \A e \in got : e.key \in ReadTo(n)
    BY <1>0, <2>1, <2>3, ShownFacts
  <2>5. ~new.twice
    BY <1>7, <2>1, <2>2, <2>4
  <2>6. new.got = {Thread!shown(c) : c \in ReadTo(n + PageSize)}
    BY <1>7, <2>1, <2>2 DEF Shows
  <2>7. more => new.phase = "tag" /\ new.got = {Thread!shown(c) : c \in ReadTo(new.offset)}
    BY <1>7, <2>6
  <2>8. ASSUME ~more, ~new.short PROVE new.phase = "apply" /\ new.got = Thread!Listed
    <3>1. /\ Cardinality(Thread!Page(n)) \in Nat /\ Cardinality(Thread!TopLevel) \in Nat
          /\ fetch[f].total \in Nat
      BY <1>0, PageFits, ExistingFinite, FetchTypes DEF Thread!TopLevel, Thread!Existing
    <3>2. ~(n + Cardinality(Thread!Page(n)) < fetch[f].total)
      BY <1>5, <1>6, <2>8 DEF IsMore
    <3>3. ~fetch[f].short
          \/ ~(n + Cardinality(Thread!Page(n)) < Cardinality(Thread!TopLevel))
      BY <1>5, <1>6, <1>7, <2>8 DEF EndsEarly
    <3>4. ~(n + Cardinality(Thread!Page(n)) < Cardinality(Thread!TopLevel))
      BY <2>1, <3>1, <3>2, <3>3
    <3>5. ReadTo(n + PageSize) = Thread!Existing
      BY <1>0, <3>4, LastPage
    <3> QED
      BY <1>7, <2>6, <2>8, <3>5 DEF Thread!Listed
  <2> QED
    BY <1>3, <1>4, <1>7, <1>8, <2>1, <2>5, <2>7, <2>8 DEF PagesSoFar
<1>12. more => new.offset # 0
  BY <1>7, SharedAssumption
<1>13. FetchOK(f)'
  <2>1. new.phase \in {"tag", "apply"} /\ (new.phase = "tag" => more)
    BY <1>7
  <2>2. Old(fetch[f].tag, fetch[f].rewound) \/ PagesSoFar(f)
    BY <1>1, <1>7, <1>9 DEF FetchOK
  <2> QED
    BY <1>2, <1>7, <1>8, <1>9, <1>10, <1>11, <1>12, <2>1, <2>2 DEF FetchOK
<1> QED
  BY <1>1, <1>7, <1>13, OneTagMoves

-----------------------------------------------------------------------------
LEMMA TagStart == Thread!Init => TagInv
<1> SUFFICES ASSUME Thread!Init PROVE TagInv
  OBVIOUS
<1>1. etag = Thread!NoTag /\ fetch = [f \in Fetches |-> Thread!NoFetch]
      /\ op = [o \in Thread!Ops |-> Thread!NoOp]
  BY SameCount DEF Thread!Init
<1>2. clock \in Nat
  BY CommentStart DEF CommentInv, Types, ServerTypes
<1>3. Thread!NoTag.last = 0 /\ Thread!NoOp.phase = "idle"
  BY DEF Thread!NoTag, Thread!NoOp
<1>4. TagOK
  BY <1>1, <1>2, <1>3 DEF TagOK
<1>5. OneAlone
  BY <1>1, <1>3 DEF OneAlone, Alone, Thread!InFlight
<1>6. \A f \in Fetches : FetchOK(f)
  BY <1>1, <1>2, <1>3, NewFetch DEF FetchOK
<1> QED
  BY <1>4, <1>5, <1>6 DEF TagInv

LEMMA TagNext == CommentInv /\ TagInv /\ [Thread!Next]_Thread!vars => TagInv'
<1> SUFFICES ASSUME CommentInv, TagInv, [Thread!Next]_Thread!vars PROVE TagInv'
  OBVIOUS
<1>1. CASE Thread!Elsewhere
  BY <1>1, ElsewhereTag
<1>2. ASSUME NEW o \in Thread!Ops, Thread!Click(o) \/ Thread!ServerAccepts(o)
             \/ Thread!ServerRefuses(o) \/ Thread!Answer(o)
      PROVE  TagInv'
  BY <1>2, AddTag, ResolveTag, EditTag, DeleteTag, AcceptTag, RefuseTag,
     AnswerTag DEF Thread!Click
<1>3. ASSUME NEW f \in Fetches,
             Thread!Poll(f) \/ Thread!LiveRefresh(f) \/ Thread!ReadRevision(f)
             \/ Thread!ReadTotal(f) \/ Thread!ReadRows(f) \/ Thread!Apply(f) \/ Thread!FetchFails(f)
      PROVE  TagInv'
  <2>1. etag \in Thread!Tags \cup {Thread!NoTag}
    BY DEF CommentInv, Types, TabTypes
  <2>2. CASE Thread!Poll(f) \/ Thread!LiveRefresh(f)
    BY <2>1, <2>2, StartTag DEF Thread!Poll, Thread!LiveRefresh
  <2>3. CASE Thread!FetchFails(f)
    BY <2>3, EndTag DEF Thread!FetchFails
  <2> QED
    BY <1>3, <2>2, <2>3, ReadRevisionTag, ReadTotalTag, ReadRowsTag, ApplyTag
<1>4. CASE UNCHANGED Thread!vars
  <2>1. UNCHANGED <<Thread!server, view, etag, fetch, op, overtaken, rewound, twice, short>>
    BY <1>4 DEF Thread!vars, Thread!server
  <2>2. Thread!InFlight' = Thread!InFlight
        /\ \A p \in Thread!Ops : (Alone(p)' <=> Alone(p)) /\ op'[p].touched = op[p].touched
    BY <2>1 DEF Thread!InFlight, Alone
  <2>3. \A p \in Thread!Ops : \A L : After(p, L)' = After(p, L)
    BY <2>1 DEF After
  <2> QED
    BY <2>1, <2>2, <2>3, FollowsStays
<1> QED
  BY <1>1, <1>2, <1>3, <1>4 DEF Thread!Next

LEMMA TagsHold == Thread!Spec => []TagInv
BY CommentsHold, TagStart, TagNext, PTL DEF Thread!Spec

LEMMA TagVouchesFollows == CommentInv /\ TagInv => Thread!TagVouches
<1> SUFFICES ASSUME CommentInv, TagInv,
                    etag = Thread!Revision, Thread!InFlight = {}, ~overtaken, ~rewound,
                    ~short
             PROVE  view = Thread!Listed
  BY DEF Thread!TagVouches
<1>1. ServerTypes /\ RowsOK
  BY DEF CommentInv, Types
<1>2. /\ Thread!Revision # Thread!NoTag /\ Thread!Revision.count = Cardinality(Thread!Existing)
      /\ Thread!Revision.last \in Nat
      /\ \A c \in Thread!Existing : comment[c].stamp <= Thread!Revision.last
  BY <1>1, RevisionFacts DEF Thread!Tags
<1>3. Cardinality(Thread!Existing) \in Nat
      /\ \A c \in Thread!Existing : comment[c].stamp \in Nat
  BY <1>1, ExistingFinite, RowTypes DEF Thread!Existing
<1>4. ~Old(etag, rewound)
  BY <1>2, <1>3 DEF Old
<1>5. ViewFollows
  BY <1>2, <1>4 DEF TagInv, TagOK
<1>6. \A o \in Thread!Ops : ~Alone(o)
  BY DEF Alone
<1> QED
  BY <1>5, <1>6 DEF ViewFollows, Rests

\* A tag in hand that is the server's own vouches for the list on the screen.
LEMMA TagInTheThread == Thread!Spec => []Thread!TagVouches
BY CommentsHold, TagsHold, TagVouchesFollows, PTL

-----------------------------------------------------------------------------
(* The ledger: sums.                                                       *)

\* The element a sum takes first, and the function it is read from: one value per
\* set of uploads, each the size of one of them and the value of the rest.
Picked(s) == CHOOSE x \in s : TRUE
Sums(g, u, A) ==
    g = [s \in SUBSET A |-> IF s = {} THEN 0 ELSE u[Picked(s)].size + g[s \ {Picked(s)}]]

\* The bytes of the uploads S, when "u" is what is known of each.
Total(u, S) == (CHOOSE g : Sums(g, u, S))[S]

\* The module's own sum is this one.
LEMMA BytesTotal ==
  ASSUME NEW S
  PROVE  Ledger!Bytes(S) = Total(up, S)
BY DEF Ledger!Bytes, Total, Sums, Picked, Ledger!MapThenSumSet, Ledger!MapThenFoldSet

LEMMA PickedIn ==
  ASSUME NEW s, s # {}
  PROVE  Picked(s) \in s
BY DEF Picked

\* What a finite set loses with its first element.
LEMMA Shorter ==
  ASSUME NEW s, IsFiniteSet(s), s # {}
  PROVE  /\ IsFiniteSet(s \ {Picked(s)})
         /\ Cardinality(s) \in Nat \ {0} /\ Cardinality(s \ {Picked(s)}) = Cardinality(s) - 1
BY PickedIn, FS_RemoveElement, FS_EmptySet, FS_CardinalityType

\* Such a function exists: one may be had for the sets of at most n uploads, for every n.
LEMMA SumExists ==
  ASSUME NEW A, IsFiniteSet(A), NEW u
  PROVE  \E g : Sums(g, u, A)
<1> DEFINE Low(n) == {s \in SUBSET A : Cardinality(s) <= n}
           Part(n, g) == g = [s \in Low(n) |->
                                IF s = {} THEN 0 ELSE u[Picked(s)].size + g[s \ {Picked(s)}]]
           Missing == {n \in Nat : ~ \E g : Part(n, g)}
<1>1. \A s \in SUBSET A : IsFiniteSet(s) /\ Cardinality(s) \in Nat
  BY FS_Subset, FS_CardinalityType
<1>2. \E g : Part(0, g)
  <2>1. \A s \in Low(0) : s = {}
    BY <1>1, FS_EmptySet
  <2> DEFINE g0 == [s \in Low(0) |-> 0]
  <2>2. Part(0, g0)
    BY <2>1
  <2> QED
    BY <2>2
<1>3. ASSUME NEW n \in Nat, NEW g, Part(n, g) PROVE \E h : Part(n + 1, h)
  <2> DEFINE step(f, s) == IF s = {} THEN 0 ELSE u[Picked(s)].size + f[s \ {Picked(s)}]
             h == [s \in Low(n + 1) |-> step(g, s)]
  <2>1. \A s \in Low(n) : s \in Low(n + 1)
    BY <1>1
  <2>0. \A s \in Low(n) : g[s] = step(g, s)
    BY <1>3
  <2>5. \A s \in Low(n) : h[s] = g[s]
    BY <2>0, <2>1
  <2>2. \A s \in Low(n + 1) : s # {} => s \ {Picked(s)} \in Low(n)
    BY <1>1, Shorter
  <2>3. \A s \in Low(n + 1) : step(g, s) = step(h, s)
    BY <2>2, <2>5
  <2>4. h = [s \in Low(n + 1) |-> step(h, s)]
    BY <2>3
  <2> QED
    BY <2>4
<1> HIDE DEF Part
<1>4. Missing = {}
  <2> SUFFICES ASSUME Missing # {} PROVE FALSE
    OBVIOUS
  <2>1. PICK m \in Missing : \A k \in Missing : m <= k
    <3>1. Missing \in SUBSET Nat
      OBVIOUS
    <3> HIDE DEF Missing
    <3> QED
      BY <3>1, LeastExists
  <2>2. m \in Nat /\ ~ \E g : Part(m, g)
    BY <2>1
  <2>3. m # 0
    BY <1>2, <2>2
  <2>4. m - 1 \in Nat /\ m - 1 \notin Missing
    BY <2>1, <2>2, <2>3
  <2>5. PICK g : Part(m - 1, g)
    BY <2>4
  <2>6. \E h : Part((m - 1) + 1, h)
    BY <1>3, <2>4, <2>5
  <2>7. (m - 1) + 1 = m
    BY <2>2
  <2> QED
    BY <2>2, <2>6, <2>7
<1>5. Cardinality(A) \in Nat /\ Low(Cardinality(A)) = SUBSET A
  BY FS_CardinalityType, FS_Subset
<1>6. PICK g : Part(Cardinality(A), g)
  BY <1>4, <1>5
<1> QED
  BY <1>5, <1>6 DEF Sums, Part

\* Only one: functions that add up the same sizes agree on the sets both know.
LEMMA SumsAgree ==
  ASSUME NEW A, NEW B, NEW u, NEW w, NEW g, NEW h, Sums(g, u, A), Sums(h, w, B),
         NEW S, IsFiniteSet(S), S \subseteq A, S \subseteq B,
         \A i \in S : u[i].size = w[i].size
  PROVE  g[S] = h[S]
<1> DEFINE Apart == {n \in Nat : \E s \in SUBSET S : Cardinality(s) = n /\ g[s] # h[s]}
<1>1. Apart = {}
  <2> SUFFICES ASSUME Apart # {} PROVE FALSE
    OBVIOUS
  <2>1. PICK m \in Apart : \A k \in Apart : m <= k
    <3>1. Apart \in SUBSET Nat
      OBVIOUS
    <3> HIDE DEF Apart
    <3> QED
      BY <3>1, LeastExists
  <2>2. PICK s \in SUBSET S : Cardinality(s) = m /\ g[s] # h[s]
    BY <2>1
  <2>3. g[{}] = 0 /\ h[{}] = 0
    BY DEF Sums
  <2>4. s # {}
    BY <2>2, <2>3
  <2> DEFINE rest == s \ {Picked(s)}
  <2>5. /\ g[s] = u[Picked(s)].size + g[rest]
        /\ h[s] = w[Picked(s)].size + h[rest]
    BY <2>4 DEF Sums
  <2>6. Picked(s) \in s
    BY <2>4, PickedIn
  <2>7. g[rest] # h[rest]
    BY <2>2, <2>5, <2>6
  <2>8. Cardinality(rest) = m - 1 /\ m - 1 \in Nat
    <3>1. IsFiniteSet(s)
      BY FS_Subset
    <3>2. Cardinality(s) \in Nat \ {0} /\ Cardinality(rest) = Cardinality(s) - 1
      BY <2>4, <3>1, Shorter
    <3> QED
      BY <2>2, <3>2
  <2>9. m - 1 \in Apart
    BY <2>7, <2>8
  <2> QED
    BY <2>1, <2>8, <2>9
<1> QED
  BY <1>1, FS_CardinalityType

LEMMA TotalIs ==
  ASSUME NEW A, IsFiniteSet(A), NEW u, NEW g, Sums(g, u, A), NEW S \in SUBSET A
  PROVE  Total(u, S) = g[S]
<1> DEFINE f == CHOOSE h : Sums(h, u, S)
<1>1. IsFiniteSet(S)
  BY FS_Subset
<1>2. Sums(f, u, S)
  BY <1>1, SumExists
<1> HIDE DEF f
<1>3. f[S] = g[S]
  BY <1>1, <1>2, SumsAgree
<1> QED
  BY <1>3 DEF Total, f

\* A sum is its own set's business.
LEMMA TotalKept ==
  ASSUME NEW S, IsFiniteSet(S), NEW u, NEW w, \A i \in S : u[i].size = w[i].size
  PROVE  Total(u, S) = Total(w, S)
<1>1. PICK g : Sums(g, u, S)
  BY SumExists
<1>2. PICK h : Sums(h, w, S)
  BY SumExists
<1>3. g[S] = h[S]
  BY <1>1, <1>2, SumsAgree
<1> QED
  BY <1>1, <1>2, <1>3, TotalIs

\* Sums are numbers.
LEMMA TotalType ==
  ASSUME NEW A, IsFiniteSet(A), NEW u, \A i \in A : u[i].size \in Nat, NEW S \in SUBSET A
  PROVE  Total(u, S) \in Nat
<1>1. PICK g : Sums(g, u, A)
  BY SumExists
<1> DEFINE Bad == {n \in Nat : \E s \in SUBSET A : Cardinality(s) = n /\ g[s] \notin Nat}
<1>2. Bad = {}
  <2> SUFFICES ASSUME Bad # {} PROVE FALSE
    OBVIOUS
  <2>1. PICK m \in Bad : \A k \in Bad : m <= k
    <3>1. Bad \in SUBSET Nat
      OBVIOUS
    <3> HIDE DEF Bad
    <3> QED
      BY <3>1, LeastExists
  <2>2. PICK s \in SUBSET A : Cardinality(s) = m /\ g[s] \notin Nat
    BY <2>1
  <2>3. g[{}] = 0
    BY <1>1 DEF Sums
  <2>4. s # {}
    BY <2>2, <2>3
  <2> DEFINE rest == s \ {Picked(s)}
  <2>5. g[s] = u[Picked(s)].size + g[rest]
    BY <1>1, <2>4 DEF Sums
  <2>6. u[Picked(s)].size \in Nat
    BY <2>4, PickedIn
  <2>7. g[rest] \notin Nat
    BY <2>2, <2>5, <2>6
  <2>8. Cardinality(rest) = m - 1 /\ m - 1 \in Nat
    <3>1. IsFiniteSet(s)
      BY FS_Subset
    <3>2. Cardinality(s) \in Nat \ {0} /\ Cardinality(rest) = Cardinality(s) - 1
      BY <2>4, <3>1, Shorter
    <3> QED
      BY <2>2, <3>2
  <2>9. m - 1 \in Bad
    BY <2>7, <2>8
  <2> QED
    BY <2>1, <2>8, <2>9
<1>3. g[S] \in Nat
  BY <1>2, FS_Subset, FS_CardinalityType
<1> QED
  BY <1>1, <1>3, TotalIs

\* One more upload adds its size, whichever is taken first.
LEMMA SumAdds ==
  ASSUME NEW A, IsFiniteSet(A), NEW u, \A i \in A : u[i].size \in Nat,
         NEW S \in SUBSET A, NEW i \in A \ S
  PROVE  Total(u, S \cup {i}) = u[i].size + Total(u, S)
<1>1. PICK g : Sums(g, u, A)
  BY SumExists
<1>2. \A s \in SUBSET A : g[s] \in Nat
  BY <1>1, TotalIs, TotalType
<1> DEFINE Wrong(s, x) == x \in A \ s /\ g[s \cup {x}] # u[x].size + g[s]
           Bad == {n \in Nat : \E s \in SUBSET A : Cardinality(s) = n /\ \E x : Wrong(s, x)}
<1>3. Bad = {}
  <2> SUFFICES ASSUME Bad # {} PROVE FALSE
    OBVIOUS
  <2>1. PICK m \in Bad : \A k \in Bad : m <= k
    <3>1. Bad \in SUBSET Nat
      OBVIOUS
    <3> HIDE DEF Bad
    <3> QED
      BY <3>1, LeastExists
  <2>2. PICK s \in SUBSET A, x \in A : Cardinality(s) = m /\ x \notin s
                                       /\ g[s \cup {x}] # u[x].size + g[s]
    BY <2>1
  <2> DEFINE t == s \cup {x}
             p == Picked(t)
  <2>3. t # {} /\ t \in SUBSET A /\ p \in t
    BY <2>2, PickedIn
  <2>4. g[t] = u[p].size + g[t \ {p}]
    BY <1>1, <2>3 DEF Sums
  <2>5. p # x
    <3> SUFFICES ASSUME p = x PROVE FALSE
      OBVIOUS
    <3>1. t \ {p} = s
      BY <2>2
    <3> QED
      BY <2>2, <2>4, <3>1
  <2>6. p \in s
    BY <2>3, <2>5
  <2> HIDE DEF p
  <2> DEFINE r == s \ {p}
  <2>7. r \in SUBSET A /\ s = r \cup {p} /\ t \ {p} = r \cup {x} /\ p \in A \ r /\ x \in A \ r
    BY <2>2, <2>5, <2>6
  <2>8. IsFiniteSet(s) /\ Cardinality(s) \in Nat /\ Cardinality(r) = Cardinality(s) - 1
        /\ Cardinality(r) \in Nat
    <3>1. IsFiniteSet(s)
      BY FS_Subset
    <3>2. IsFiniteSet(r) /\ Cardinality(r) = Cardinality(s) - 1
      BY <2>6, <3>1, FS_RemoveElement
    <3> QED
      BY <3>1, <3>2, FS_CardinalityType
  <2>9. Cardinality(r) \notin Bad
    <3>1. m \in Nat /\ ~(m <= Cardinality(r))
      BY <2>2, <2>8
    <3> HIDE DEF Bad
    <3> QED
      BY <2>1, <3>1
  <2> HIDE DEF r
  <2>10. ~Wrong(r, p) /\ ~Wrong(r, x)
    BY <2>7, <2>8, <2>9
  <2>11. g[s] = u[p].size + g[r] /\ g[t \ {p}] = u[x].size + g[r]
    BY <2>7, <2>10
  <2>12. u[p].size \in Nat /\ u[x].size \in Nat /\ g[r] \in Nat
    BY <1>2, <2>7
  <2> QED
    BY <2>2, <2>4, <2>11, <2>12
<1>4. Cardinality(S) \in Nat
  BY FS_Subset, FS_CardinalityType
<1>5. g[S \cup {i}] = u[i].size + g[S]
  BY <1>3, <1>4
<1> QED
  BY <1>1, <1>5, TotalIs

\* Fewer uploads, fewer bytes.
LEMMA TotalGrows ==
  ASSUME NEW S, IsFiniteSet(S), NEW u, \A i \in S : u[i].size \in Nat, NEW T \in SUBSET S
  PROVE  Total(u, T) <= Total(u, S)
<1> DEFINE Bad == {n \in Nat : \E s \in SUBSET S : Cardinality(s) = n /\ T \subseteq s
                                                   /\ ~(Total(u, T) <= Total(u, s))}
<1>1. \A s \in SUBSET S : Total(u, s) \in Nat
  BY TotalType
<1>2. Bad = {}
  <2> SUFFICES ASSUME Bad # {} PROVE FALSE
    OBVIOUS
  <2>1. PICK m \in Bad : \A k \in Bad : m <= k
    <3>1. Bad \in SUBSET Nat
      OBVIOUS
    <3> HIDE DEF Bad
    <3> QED
      BY <3>1, LeastExists
  <2>2. PICK s \in SUBSET S : Cardinality(s) = m /\ T \subseteq s
        /\ ~(Total(u, T) <= Total(u, s))
    BY <2>1
  <2>3. PICK i \in s : i \notin T
    <3>1. Total(u, T) \in Nat
      BY <1>1
    <3>2. s # T
      BY <2>2, <3>1
    <3> QED
      BY <2>2, <3>2
  <2> DEFINE r == s \ {i}
  <2>4. r \in SUBSET S /\ s = r \cup {i} /\ i \in S \ r /\ T \subseteq r
    BY <2>2, <2>3
  <2>5. Cardinality(r) \in Nat /\ Cardinality(r) = m - 1
    <3>1. IsFiniteSet(s)
      BY FS_Subset
    <3>2. IsFiniteSet(r) /\ Cardinality(r) = Cardinality(s) - 1
      BY <2>3, <3>1, FS_RemoveElement
    <3> QED
      BY <2>2, <3>2, FS_CardinalityType
  <2>6. Cardinality(r) \notin Bad
    <3>1. m \in Nat /\ ~(m <= Cardinality(r))
      BY <2>2, <2>5, FS_Subset, FS_CardinalityType
    <3> HIDE DEF Bad
    <3> QED
      BY <2>1, <3>1
  <2> HIDE DEF r
  <2>7. Total(u, T) <= Total(u, r)
    BY <2>4, <2>5, <2>6
  <2>8. Total(u, s) = u[i].size + Total(u, r)
    BY <2>4, SumAdds
  <2>9. Total(u, T) \in Nat /\ Total(u, r) \in Nat /\ u[i].size \in Nat
    BY <1>1, <2>4
  <2> QED
    BY <2>2, <2>7, <2>8, <2>9
<1>3. Cardinality(S) \in Nat
  BY FS_CardinalityType
<1> QED
  BY <1>2, <1>3

\* Two sets together weigh no more than one and the other.
LEMMA TotalUnion ==
  ASSUME NEW A, IsFiniteSet(A), NEW u, \A i \in A : u[i].size \in Nat,
         NEW S \in SUBSET A, NEW T \in SUBSET A
  PROVE  Total(u, S \cup T) <= Total(u, S) + Total(u, T)
<1> DEFINE Bad == {n \in Nat : \E t \in SUBSET A :
                      Cardinality(t) = n /\ ~(Total(u, S \cup t) <= Total(u, S) + Total(u, t))}
<1>1. \A s \in SUBSET A : Total(u, s) \in Nat
  BY TotalType
<1>2. Bad = {}
  <2> SUFFICES ASSUME Bad # {} PROVE FALSE
    OBVIOUS
  <2>1. PICK m \in Bad : \A k \in Bad : m <= k
    <3>1. Bad \in SUBSET Nat
      OBVIOUS
    <3> HIDE DEF Bad
    <3> QED
      BY <3>1, LeastExists
  <2>2. PICK t \in SUBSET A :
           Cardinality(t) = m /\ ~(Total(u, S \cup t) <= Total(u, S) + Total(u, t))
    BY <2>1
  <2>3. Total(u, S) \in Nat /\ Total(u, t) \in Nat
    BY <1>1
  <2>4. ~(t \subseteq S)
    <3> SUFFICES ASSUME t \subseteq S PROVE FALSE
      OBVIOUS
    <3>1. Total(u, S \cup t) = Total(u, S)
      <4>1. S \cup t = S
        OBVIOUS
      <4> QED
        BY <4>1, Zenon
    <3> QED
      BY <2>2, <2>3, <3>1
  <2>5. PICK i \in t : i \notin S
    BY <2>4
  <2> DEFINE r == t \ {i}
  <2>6. /\ r \in SUBSET A /\ S \cup r \in SUBSET A /\ t = r \cup {i} /\ i \in A \ r
        /\ i \in A \ (S \cup r) /\ S \cup t = (S \cup r) \cup {i}
    BY <2>5
  <2>7. Cardinality(r) \in Nat /\ Cardinality(r) = m - 1
    <3>1. IsFiniteSet(t)
      BY FS_Subset
    <3>2. IsFiniteSet(r) /\ Cardinality(r) = Cardinality(t) - 1
      BY <2>5, <3>1, FS_RemoveElement
    <3> QED
      BY <2>2, <3>2, FS_CardinalityType
  <2>8. Cardinality(r) \notin Bad
    <3>1. m \in Nat /\ ~(m <= Cardinality(r))
      BY <2>2, <2>7, FS_Subset, FS_CardinalityType
    <3> HIDE DEF Bad
    <3> QED
      BY <2>1, <3>1
  <2> HIDE DEF r
  <2>9. Total(u, S \cup r) <= Total(u, S) + Total(u, r)
    BY <2>6, <2>7, <2>8
  <2>10. Total(u, t) = u[i].size + Total(u, r)
    BY <2>6, SumAdds
  <2>12. Total(u, S \cup t) = u[i].size + Total(u, S \cup r)
    <3>1. Total(u, (S \cup r) \cup {i}) = u[i].size + Total(u, S \cup r)
      <4> DEFINE V == S \cup r
      <4>1. V \in SUBSET A /\ i \in A \ V
        BY <2>6
      <4> HIDE DEF V
      <4>2. Total(u, V \cup {i}) = u[i].size + Total(u, V)
        BY <4>1, SumAdds
      <4> QED
        BY <4>2 DEF V
    <3>2. Total(u, S \cup t) = Total(u, (S \cup r) \cup {i})
      BY <2>6, Zenon
    <3> QED
      BY <3>1, <3>2
  <2>11. Total(u, r) \in Nat /\ Total(u, S \cup r) \in Nat /\ u[i].size \in Nat
    BY <1>1, <2>6
  <2> QED
    BY <2>2, <2>3, <2>9, <2>10, <2>11, <2>12
<1>3. Cardinality(T) \in Nat
  BY FS_Subset, FS_CardinalityType
<1> QED
  BY <1>2, <1>3

-----------------------------------------------------------------------------
(* The ledger: what each slot may look like, and what was let in.          *)

Slots == [stage : Ledger!Stages, kind : Ledger!AllKinds \cup {"none"}, size : Sizes \cup {0},
          seen : Nat \cup {Ledger!NotRead}, admitted : BOOLEAN, slipped : BOOLEAN]

Early == {"idle", "asked", "read"}
Lent == {"held", "both", "stored"}

\* A slot in itself: a reservation was admitted, and only a request that is about to
\* compare has read the Bunny bytes.
SlotOK(r) ==
    /\ r.stage # "idle" => r.kind \in Ledger!AllKinds
    /\ r.stage \in Early => ~r.slipped
    /\ r.stage \in {"held", "both"} => r.admitted /\ ~r.slipped
    /\ r.stage = "read" => r.seen # Ledger!NotRead
    /\ r.seen # Ledger!NotRead => \/ r.stage = "read"
                                  \/ r.kind = "asset"
                                     /\ r.stage \in {"held", "lapsed", "orphaned"}

LetIn(r) == r.admitted /\ ~r.slipped
Booked == {i \in Uploads : up[i].stage \in Lent /\ LetIn(up[i])}
BookedBunny == {i \in Uploads : /\ up[i].stage \in {"both", "stored"} /\ up[i].kind = "bunny"
                                /\ LetIn(up[i])}

\* Whoever has read the Bunny bytes has seen at least the rows that count, and what
\* counts is below the limit from the first reservation on.
LedgerInv ==
    /\ up \in [Uploads -> Slots] /\ \A i \in Uploads : SlotOK(up[i])
    /\ \A i \in Uploads : up[i].seen # Ledger!NotRead => Total(up, BookedBunny) <= up[i].seen
    /\ Total(up, Booked) < Limit \/ \A i \in Uploads : up[i].stage \in Early

LEMMA SlotFields ==
  ASSUME NEW r \in Slots
  PROVE  /\ r.stage \in Ledger!Stages /\ r.kind \in Ledger!AllKinds \cup {"none"}
         /\ r.size \in Nat
         /\ r.seen \in Nat \cup {Ledger!NotRead} /\ r.admitted \in BOOLEAN
         /\ r.slipped \in BOOLEAN
<1>1. r.stage \in Ledger!Stages /\ r.kind \in Ledger!AllKinds \cup {"none"}
      /\ r.size \in Sizes \cup {0}
  BY DEF Slots
<1>2. r.seen \in Nat \cup {Ledger!NotRead} /\ r.admitted \in BOOLEAN /\ r.slipped \in BOOLEAN
  BY DEF Slots
<1>3. r.size \in Nat
  <2>1. \A n \in Sizes \cup {0} : n \in Nat
    BY LedgerAssumption
  <2> QED
    BY <1>1, <2>1
<1> QED
  BY <1>1, <1>2, <1>3

LEMMA LedgerStart == Ledger!Init => LedgerInv
<1> SUFFICES ASSUME Ledger!Init PROVE LedgerInv
  OBVIOUS
<1>1. Ledger!Idle \in Slots /\ SlotOK(Ledger!Idle) /\ Ledger!Idle.seen = Ledger!NotRead
      /\ Ledger!Idle.stage \in Early
  BY DEF Ledger!Idle, Slots, SlotOK, Early, Ledger!Stages, Ledger!NotRead
<1>2. up \in [Uploads -> Slots] /\ \A i \in Uploads : up[i] = Ledger!Idle
  BY <1>1 DEF Ledger!Init
<1> QED
  BY <1>1, <1>2 DEF LedgerInv

\* What one slot becomes decides whether the ledger stays in order.
LEMMA SlotStep ==
  ASSUME LedgerInv, NEW i \in Uploads, NEW r \in Slots, up' = [up EXCEPT ![i] = r], SlotOK(r),
         r.stage \in Lent => r.size = up[i].size,
         r.seen # Ledger!NotRead => Total(up, BookedBunny) <= r.seen,
         r.kind = "bunny" /\ r.stage \in {"both", "stored"} /\ LetIn(r) =>
            i \in BookedBunny \/ \A j \in Uploads : j # i => up[j].seen = Ledger!NotRead,
         \/ Total(up, Booked \ {i}) + up[i].size < Limit
         \/ /\ r.stage \in Lent /\ LetIn(r) => i \in Booked
            /\ r.stage \in Early \/ up[i].stage \notin Early
  PROVE  LedgerInv'
<1>1. /\ up' \in [Uploads -> Slots] /\ up'[i] = r
      /\ \A j \in Uploads : j # i => up'[j] = up[j]
  BY DEF LedgerInv
<1>2. \A j \in Uploads : SlotOK(up'[j])
  BY <1>1 DEF LedgerInv
<1>3. /\ IsFiniteSet(Uploads) /\ \A j \in Uploads : up[j].size \in Nat /\ up'[j].size \in Nat
      /\ Limit \in Nat
  BY <1>1, SlotFields, LedgerAssumption DEF LedgerInv
<1>4. \A S \in SUBSET Uploads : /\ IsFiniteSet(S)
                                /\ Total(up, S) \in Nat /\ Total(up', S) \in Nat
                                /\ \A T \in SUBSET S : Total(up, T) <= Total(up, S)
  BY <1>3, FS_Subset, TotalType, TotalGrows
<1>5. \A S \in SUBSET Uploads : (i \in S => r.size = up[i].size) => Total(up', S) = Total(up, S)
  BY <1>1, <1>4, TotalKept
<1>6. ASSUME NEW j \in Uploads, up'[j].seen # Ledger!NotRead
      PROVE  Total(up', BookedBunny') <= up'[j].seen
  <2>1. BookedBunny' \in SUBSET Uploads /\ BookedBunny \in SUBSET Uploads
    BY DEF BookedBunny
  <2>2. BookedBunny' \subseteq BookedBunny /\ (i \in BookedBunny' => r.size = up[i].size)
    <3>1. ASSUME i \in BookedBunny' PROVE i \in BookedBunny /\ r.size = up[i].size
      <4>1. r.kind = "bunny" /\ r.stage \in {"both", "stored"} /\ LetIn(r)
        BY <1>1, <3>1 DEF BookedBunny
      <4>2. r.seen = Ledger!NotRead
        BY <4>1 DEF SlotOK
      <4>3. j # i /\ up[j].seen # Ledger!NotRead
        BY <1>1, <1>6, <4>2
      <4> QED
        BY <4>1, <4>3 DEF Lent
    <3>2. ASSUME NEW k \in BookedBunny', k # i PROVE k \in BookedBunny
      BY <1>1, <3>2 DEF BookedBunny
    <3> QED
      BY <3>1, <3>2
  <2>3. Total(up', BookedBunny') <= Total(up, BookedBunny)
    BY <1>4, <1>5, <2>1, <2>2
  <2>4. Total(up, BookedBunny) <= up'[j].seen
    BY <1>1, <1>6 DEF LedgerInv
  <2>5. /\ Total(up', BookedBunny') \in Nat /\ Total(up, BookedBunny) \in Nat
        /\ up'[j].seen \in Nat
    BY <1>1, <1>4, <1>6, <2>1, SlotFields
  <2> QED
    BY <2>3, <2>4, <2>5
<1>7. Total(up', Booked') < Limit \/ \A j \in Uploads : up'[j].stage \in Early
  <2>1. Booked' \in SUBSET Uploads /\ Booked \in SUBSET Uploads
    BY DEF Booked
  <2>2. \A k \in Booked' : k # i => k \in Booked
    BY <1>1 DEF Booked
  <2>3. i \in Booked' => r.stage \in Lent /\ LetIn(r) /\ r.size = up[i].size
    BY <1>1 DEF Booked
  <2>4. Total(up', Booked') = Total(up, Booked')
    BY <1>5, <2>1, <2>3
  <2>5. CASE Total(up, Booked \ {i}) + up[i].size < Limit
    <3> DEFINE R == Booked \ {i}
    <3>1. /\ R \in SUBSET Uploads /\ i \in Uploads \ R /\ R \cup {i} \in SUBSET Uploads
          /\ Booked' \subseteq R \cup {i}
      BY <2>1, <2>2
    <3>2. Total(up, R) + up[i].size < Limit
      BY <2>5
    <3> HIDE DEF R
    <3>3. Total(up, R \cup {i}) = up[i].size + Total(up, R)
      BY <1>3, <3>1, SumAdds
    <3>4. Total(up, Booked') <= Total(up, R \cup {i})
      BY <1>4, <3>1
    <3>5. /\ Total(up, R) \in Nat /\ Total(up, R \cup {i}) \in Nat /\ Total(up, Booked') \in Nat
          /\ up[i].size \in Nat
      BY <1>3, <1>4, <2>1, <3>1
    <3> QED
      BY <1>3, <2>4, <3>2, <3>3, <3>4, <3>5
  <2>6. CASE /\ r.stage \in Lent /\ LetIn(r) => i \in Booked
             /\ r.stage \in Early \/ up[i].stage \notin Early
    <3>1. Booked' \subseteq Booked
      BY <2>2, <2>3, <2>6
    <3>2. CASE Total(up, Booked) < Limit
      <4>1. Total(up, Booked') <= Total(up, Booked)
        BY <1>4, <2>1, <3>1
      <4> QED
        BY <1>3, <1>4, <2>1, <2>4, <3>2, <4>1
    <3>3. CASE \A j \in Uploads : up[j].stage \in Early
      BY <1>1, <2>6, <3>3
    <3> QED
      BY <3>2, <3>3 DEF LedgerInv
  <2> QED
    BY <2>5, <2>6
<1> QED
  BY <1>1, <1>2, <1>6, <1>7 DEF LedgerInv

LEMMA BytesOf ==
  /\ Ledger!Bytes(Ledger!Rows({"asset"})) = Total(up, Ledger!Rows({"asset"}))
  /\ Ledger!Bytes(Ledger!Rows({"version"})) = Total(up, Ledger!Rows({"version"}))
  /\ Ledger!Bytes(Ledger!Rows({"subtitle"})) = Total(up, Ledger!Rows({"subtitle"}))
  /\ Ledger!Bytes(Ledger!Rows({"bunny"})) = Total(up, Ledger!Rows({"bunny"}))
  /\ Ledger!Bytes(Ledger!InStage({"held", "both"})) = Total(up,
                                                            Ledger!InStage({"held", "both"}))
BY DEF Ledger!Bytes, Total, Sums, Picked, Ledger!MapThenSumSet, Ledger!MapThenFoldSet

\* What counts is not more than the sum a request compares, its own size left aside.
LEMMA Headroom ==
  ASSUME LedgerInv, NEW i \in Uploads, up[i].seen # Ledger!NotRead
  PROVE  /\ Ledger!CountedFor(i) \in Nat /\ Total(up, Booked \ {i}) \in Nat
         /\ Total(up, Booked \ {i}) <= Ledger!CountedFor(i)
         /\ ~Ledger!FallbackBlind => Ledger!FallbackFor(i) = Ledger!CountedFor(i)
<1> DEFINE a == Ledger!Rows({"asset"})
           v == Ledger!Rows({"version"})
           s == Ledger!Rows({"subtitle"})
           b == BookedBunny
           h == Ledger!InStage({"held", "both"})
           T(X) == Total(up, X)
<1>1. /\ IsFiniteSet(Uploads) /\ \A j \in Uploads : up[j].size \in Nat
      /\ up[i].seen \in Nat /\ T(b) <= up[i].seen
  BY SlotFields, LedgerAssumption DEF LedgerInv
<1>2. /\ a \in SUBSET Uploads /\ v \in SUBSET Uploads /\ s \in SUBSET Uploads
      /\ b \in SUBSET Uploads /\ h \in SUBSET Uploads /\ Booked \ {i} \in SUBSET Uploads
  BY DEF Ledger!Rows, Ledger!InStage, BookedBunny, Booked
<1>3. Booked \ {i} \subseteq (((a \cup v) \cup s) \cup b) \cup h
  <2>1. ASSUME NEW j \in Booked, j \notin h, j \notin b
        PROVE  j \in a \/ j \in v \/ j \in s
    <3>1. j \in Uploads /\ up[j].stage = "stored" /\ LetIn(up[j]) /\ up[j].kind # "bunny"
      BY <2>1 DEF Booked, Lent, Ledger!InStage, BookedBunny
    <3>2. up[j].kind \in {"version", "asset", "subtitle", "bunny"}
      BY <3>1 DEF LedgerInv, SlotOK, Ledger!AllKinds
    <3> QED
      BY <3>1, <3>2 DEF Ledger!Rows, Ledger!InStage
  <2> QED
    BY <2>1
<1>4. /\ Ledger!AssetBytes = T(a) /\ Ledger!VersionBytes = T(v) /\ Ledger!SubtitleBytes = T(s)
      /\ Ledger!ReservedBytes = T(h)
  BY BytesOf DEF Ledger!AssetBytes, Ledger!VersionBytes, Ledger!SubtitleBytes,
     Ledger!ReservedBytes
<1> HIDE DEF a, v, s, b, h, T
<1>5. \A X \in SUBSET Uploads : T(X) \in Nat
  BY <1>1, TotalType DEF T
<1>6. \A X, Y \in SUBSET Uploads : T(X \cup Y) <= T(X) + T(Y)
  BY <1>1, TotalUnion DEF T
<1>7. \A Y \in SUBSET Uploads : \A X \in SUBSET Y : T(X) <= T(Y)
  BY <1>1, FS_Subset, TotalGrows DEF T
<1> DEFINE V == a \cup v
           W == V \cup s
           X == W \cup b
           Y == X \cup h
<1>8. T(V) <= T(a) + T(v) /\ T(W) <= T(V) + T(s) /\ T(X) <= T(W) + T(b) /\ T(Y) <= T(X) + T(h)
  BY <1>2, <1>6
<1>9. /\ T(a) \in Nat /\ T(v) \in Nat /\ T(s) \in Nat /\ T(b) \in Nat /\ T(h) \in Nat
      /\ T(V) \in Nat /\ T(W) \in Nat /\ T(X) \in Nat /\ T(Y) \in Nat
      /\ T(Booked \ {i}) \in Nat /\ T(Booked \ {i}) <= T(Y)
  BY <1>2, <1>3, <1>5, <1>7
<1> HIDE DEF V, W, X, Y
<1>10. T(Booked \ {i}) <= T(a) + T(v) + T(s) + T(h) + up[i].seen
  BY <1>1, <1>8, <1>9
<1>11. Ledger!CountedFor(i) = T(a) + T(v) + T(s) + T(h) + up[i].seen
  BY <1>4 DEF Ledger!CountedFor, Ledger!R2Bytes
<1>12. Ledger!FallbackFor(i) = T(a) + T(h) + up[i].seen
       /\ (~Ledger!FallbackBlind => ~(T(v) + T(s) > 0))
  BY <1>4 DEF Ledger!FallbackFor, Ledger!FallbackBlind
<1> QED
  BY <1>1, <1>9, <1>10, <1>11, <1>12 DEF T

\* The bytes a request reads are at least those of the rows that count.
LEMMA ReadsEnough ==
  ASSUME LedgerInv
  PROVE  Ledger!BunnyBytes \in Nat /\ Total(up, BookedBunny) <= Ledger!BunnyBytes
<1>1. IsFiniteSet(Uploads) /\ \A j \in Uploads : up[j].size \in Nat
  BY SlotFields, LedgerAssumption DEF LedgerInv
<1>2. BookedBunny \subseteq Ledger!Rows({"bunny"}) /\ Ledger!Rows({"bunny"}) \in SUBSET Uploads
  BY DEF BookedBunny, Ledger!Rows, Ledger!InStage
<1>3. IsFiniteSet(Ledger!Rows({"bunny"}))
  BY <1>1, <1>2, FS_Subset
<1>4. Ledger!BunnyBytes = Total(up, Ledger!Rows({"bunny"}))
  BY BytesOf DEF Ledger!BunnyBytes
<1>5. \A j \in Ledger!Rows({"bunny"}) : up[j].size \in Nat
  BY <1>1, <1>2
<1> QED
  BY <1>1, <1>2, <1>3, <1>4, <1>5, TotalType, TotalGrows

\* A slot that is forgotten books nothing.
LEMMA ForgetStep ==
  ASSUME LedgerInv, NEW i \in Uploads, up' = [up EXCEPT ![i] = Ledger!Idle]
  PROVE  LedgerInv'
<1>1. /\ Ledger!Idle \in Slots /\ SlotOK(Ledger!Idle) /\ Ledger!Idle.seen = Ledger!NotRead
      /\ Ledger!Idle.stage \in Early
      /\ Ledger!Idle.stage \notin Lent /\ Ledger!Idle.kind # "bunny"
  BY DEF Ledger!Idle, Slots, SlotOK, Early, Ledger!Stages, Ledger!NotRead, Lent
<1> QED
  BY <1>1, SlotStep

LEMMA AskStep ==
  ASSUME LedgerInv, NEW i \in Uploads, NEW kind \in Kinds, NEW size \in Sizes,
         Ledger!Ask(i, kind, size)
  PROVE  LedgerInv'
<1> DEFINE r == [Ledger!Idle EXCEPT !.stage = "asked", !.kind = kind, !.size = size]
<1>1. /\ r \in Slots /\ SlotOK(r) /\ r.seen = Ledger!NotRead /\ r.stage \in Early
      /\ r.stage \notin Lent
      /\ r.stage \notin {"both", "stored"}
  BY LedgerAssumption DEF Ledger!Idle, Slots, SlotOK, Early, Ledger!Stages, Ledger!NotRead, Lent
<1>2. up' = [up EXCEPT ![i] = r]
  BY DEF Ledger!Ask
<1> HIDE DEF r
<1> QED
  BY <1>1, <1>2, SlotStep

\* Steps that neither read nor let in: whatever the slot becomes, it counted before if
\* it counts afterwards, and its Bunny bytes are not read any more.
LEMMA QuietStep ==
  ASSUME LedgerInv, NEW i \in Uploads, NEW r \in Slots, up' = [up EXCEPT ![i] = r],
         r.kind = up[i].kind, r.size = up[i].size, r.seen = Ledger!NotRead,
         up[i].stage \notin Early, r.stage \notin Early,
         r.stage \in {"held", "both"} => r.admitted /\ ~r.slipped,
         r.stage \in Lent /\ LetIn(r) => up[i].stage \in {"held", "both"},
         r.kind = "bunny" /\ r.stage \in {"both", "stored"} /\ LetIn(r) =>
            up[i].stage = "both" \/ \A j \in Uploads : j # i => up[j].seen = Ledger!NotRead
  PROVE  LedgerInv'
<1>1. up[i] \in Slots /\ SlotOK(up[i])
  BY DEF LedgerInv
<1>2. SlotOK(r)
  BY <1>1 DEF SlotOK, Early
<1>3. r.stage \in Lent /\ LetIn(r) => i \in Booked
  BY <1>1 DEF LetIn, Booked, SlotOK, Lent
<1>4. r.kind = "bunny" /\ r.stage \in {"both", "stored"} /\ LetIn(r) =>
         i \in BookedBunny \/ \A j \in Uploads : j # i => up[j].seen = Ledger!NotRead
  BY <1>1 DEF LetIn, BookedBunny, SlotOK
<1> QED
  BY <1>2, <1>3, <1>4, SlotStep

\* A request reads the Bunny bytes.
LEMMA BunnyReadStep ==
  ASSUME LedgerInv, NEW i \in Uploads, Ledger!ReadBunny(i) \/ Ledger!PrefetchBunny(i)
  PROVE  LedgerInv'
<1>1. up \in [Uploads -> Slots] /\ up[i] \in Slots /\ SlotOK(up[i])
  BY DEF LedgerInv
<1>2. Ledger!BunnyBytes \in Nat /\ Total(up, BookedBunny) <= Ledger!BunnyBytes
  BY ReadsEnough
<1>3. PICK n \in Nat : n = Ledger!BunnyBytes
  BY <1>2
<1>4. PICK stage \in Ledger!Stages :
         /\ up' = [up EXCEPT ![i].stage = stage, ![i].seen = n]
         /\ \/ up[i].stage = "asked" /\ stage = "read"
            \/ Ledger!Attachable(i) /\ stage = up[i].stage
  <2>1. CASE Ledger!ReadBunny(i)
    BY <1>3, <2>1 DEF Ledger!ReadBunny, Ledger!Stages
  <2>2. CASE Ledger!PrefetchBunny(i)
    <3>1. up' = [up EXCEPT ![i].stage = up[i].stage, ![i].seen = n]
          /\ up[i].stage \in Ledger!Stages
      BY <1>1, <1>3, <2>2 DEF Ledger!PrefetchBunny, Slots
    <3> QED
      BY <2>2, <3>1 DEF Ledger!PrefetchBunny
  <2> QED
    BY <2>1, <2>2
<1> DEFINE r == [up[i] EXCEPT !.stage = stage, !.seen = n]
<1>5. /\ r \in Slots /\ r.stage = stage /\ r.kind = up[i].kind /\ r.size = up[i].size
      /\ r.seen = n /\ r.admitted = up[i].admitted /\ r.slipped = up[i].slipped
  BY <1>1 DEF Slots
<1>6. up' = [up EXCEPT ![i] = r]
  BY <1>1, <1>4
<1> HIDE DEF r
<1>7. SlotOK(r) /\ (r.stage \in Lent /\ LetIn(r) => i \in Booked)
  BY <1>1, <1>4, <1>5 DEF SlotOK, LetIn, Booked, Lent, Early, Ledger!Attachable, Ledger!NotRead
<1>8. r.stage \in Early \/ up[i].stage \notin Early
  BY <1>4, <1>5 DEF Early
<1>9. ~(r.kind = "bunny" /\ r.stage \in {"both", "stored"})
  BY <1>4, <1>5 DEF Ledger!Attachable
<1>10. Total(up, BookedBunny) <= r.seen
  BY <1>2, <1>3, <1>5
<1> QED
  BY <1>5, <1>6, <1>7, <1>8, <1>9, <1>10, SlotStep

\* A request that is let in finds room for its size beside everything that counts.
LEMMA AdmitStep ==
  ASSUME LedgerInv, NEW i \in Uploads, Ledger!Reserve(i)
  PROVE  LedgerInv'
<1>1. /\ up \in [Uploads -> Slots] /\ up[i] \in Slots /\ SlotOK(up[i]) /\ up[i].stage = "read"
  BY DEF LedgerInv, Ledger!Reserve
<1>2. up[i].seen # Ledger!NotRead /\ up[i].slipped = FALSE /\ up[i].size \in Nat
  BY <1>1, SlotFields DEF SlotOK, Early
<1> DEFINE r == [up[i] EXCEPT !.stage = "held", !.seen = Ledger!NotRead, !.admitted = TRUE]
<1>3. /\ r \in Slots /\ r.stage = "held" /\ r.kind = up[i].kind /\ r.size = up[i].size
      /\ r.seen = Ledger!NotRead /\ r.admitted = TRUE /\ r.slipped = up[i].slipped
  BY <1>1 DEF Slots, Ledger!Stages
<1>4. up' = [up EXCEPT ![i] = r]
  BY <1>1 DEF Ledger!Reserve
<1> HIDE DEF r
<1>5. SlotOK(r)
  BY <1>1, <1>2, <1>3 DEF SlotOK, Early
<1>6. Total(up, Booked \ {i}) + up[i].size < Limit
  <2>1. Ledger!CountedFor(i) + up[i].size < Limit
    BY DEF Ledger!Reserve
  <2>2. /\ Ledger!CountedFor(i) \in Nat /\ Total(up, Booked \ {i}) \in Nat
        /\ Total(up, Booked \ {i}) <= Ledger!CountedFor(i)
    BY <1>2, Headroom
  <2> QED
    BY <1>2, <2>1, <2>2, LedgerAssumption
<1> QED
  BY <1>3, <1>4, <1>5, <1>6, SlotStep

\* So does an asset whose reservation is gone, unless version or subtitle rows escape
\* the route's own sum: then it is named a slip.
LEMMA CommitAssetStep ==
  ASSUME LedgerInv, NEW i \in Uploads, Ledger!CommitAsset(i)
  PROVE  LedgerInv'
<1>1. /\ up \in [Uploads -> Slots] /\ up[i] \in Slots /\ SlotOK(up[i]) /\ up[i].size \in Nat
      /\ Ledger!Attachable(i) /\ up[i].seen # Ledger!NotRead
  BY SlotFields DEF LedgerInv, Ledger!CommitAsset
<1>2. PICK slips \in BOOLEAN : slips = (up[i].stage # "held" /\ Ledger!FallbackBlind)
  OBVIOUS
<1> DEFINE r == [up[i] EXCEPT !.stage = "stored", !.seen = Ledger!NotRead, !.admitted = TRUE,
                              !.slipped = slips]
<1>3. /\ r \in Slots /\ r.stage = "stored" /\ r.kind = up[i].kind /\ r.size = up[i].size
      /\ r.seen = Ledger!NotRead /\ r.admitted = TRUE /\ r.slipped = slips
  BY <1>1 DEF Slots, Ledger!Stages
<1>4. up' = [up EXCEPT ![i] = r]
  BY <1>1, <1>2 DEF Ledger!CommitAsset
<1> HIDE DEF r
<1>5. up[i].stage \notin Early /\ r.stage \notin Early /\ r.kind # "bunny"
      /\ r.stage \notin {"held", "both"}
  BY <1>1, <1>3 DEF Ledger!Attachable, Early
<1>6. CASE up[i].stage = "held" \/ slips
  <2>1. LetIn(r) => up[i].stage \in {"held", "both"}
    BY <1>3, <1>6 DEF LetIn
  <2> QED
    BY <1>3, <1>4, <1>5, <2>1, QuietStep
<1>7. CASE up[i].stage # "held" /\ ~slips
  <2>1. Ledger!FallbackFor(i) + up[i].size < Limit /\ ~Ledger!FallbackBlind
    BY <1>2, <1>7 DEF Ledger!CommitAsset
  <2>2. /\ Ledger!CountedFor(i) \in Nat /\ Total(up, Booked \ {i}) \in Nat
        /\ Total(up, Booked \ {i}) <= Ledger!CountedFor(i)
        /\ Ledger!FallbackFor(i) = Ledger!CountedFor(i)
    BY <1>1, <2>1, Headroom
  <2>3. Total(up, Booked \ {i}) + up[i].size < Limit
    BY <1>1, <2>1, <2>2, LedgerAssumption
  <2>4. SlotOK(r)
    BY <1>1, <1>3, <1>5 DEF SlotOK
  <2> QED
    BY <1>3, <1>4, <1>5, <2>3, <2>4, SlotStep
<1> QED
  BY <1>6, <1>7

LEMMA CommitVersionStep ==
  ASSUME LedgerInv, NEW i \in Uploads, Ledger!CommitVersion(i)
  PROVE  LedgerInv'
<1>1. /\ up \in [Uploads -> Slots] /\ up[i] \in Slots /\ SlotOK(up[i]) /\ up[i].kind = "version"
      /\ up[i].stage \in {"held", "lapsed"}
  BY DEF LedgerInv, Ledger!CommitVersion
<1>2. PICK held \in BOOLEAN : held = (up[i].stage = "held")
  OBVIOUS
<1> DEFINE r == [up[i] EXCEPT !.stage = "stored", !.admitted = held]
<1>3. /\ r \in Slots /\ r.stage = "stored" /\ r.kind = up[i].kind /\ r.size = up[i].size
      /\ r.seen = up[i].seen /\ r.admitted = held /\ r.slipped = up[i].slipped
  BY <1>1 DEF Slots, Ledger!Stages
<1>4. up' = [up EXCEPT ![i] = r]
  BY <1>1, <1>2 DEF Ledger!CommitVersion
<1> HIDE DEF r
<1>5. r.seen = Ledger!NotRead /\ up[i].stage \notin Early /\ r.stage \notin Early
  BY <1>1, <1>3 DEF SlotOK, Early
<1>6. LetIn(r) => up[i].stage \in {"held", "both"}
  BY <1>2, <1>3 DEF LetIn
<1> QED
  BY <1>1, <1>3, <1>4, <1>5, <1>6, QuietStep

\* A Bunny row counts only if nobody stood between the read of the Bunny bytes and
\* their use.
LEMMA CommitBunnyStep ==
  ASSUME LedgerInv, NEW i \in Uploads, Ledger!CommitBunny(i)
  PROVE  LedgerInv'
<1>1. /\ up \in [Uploads -> Slots] /\ up[i] \in Slots /\ SlotOK(up[i]) /\ up[i].kind = "bunny"
      /\ up[i].stage \in {"held", "orphaned"}
  BY DEF LedgerInv, Ledger!CommitBunny
<1>2. PICK held \in BOOLEAN, slips \in BOOLEAN :
         held = (up[i].stage = "held") /\ slips = Ledger!BunnyReadPending(i)
  BY DEF Ledger!BunnyReadPending
<1> DEFINE r == [up[i] EXCEPT !.stage = "stored", !.admitted = held, !.slipped = slips]
<1>3. /\ r \in Slots /\ r.stage = "stored" /\ r.kind = up[i].kind /\ r.size = up[i].size
      /\ r.seen = up[i].seen /\ r.admitted = held /\ r.slipped = slips
  BY <1>1 DEF Slots, Ledger!Stages
<1>4. up' = [up EXCEPT ![i] = r]
  BY <1>1, <1>2 DEF Ledger!CommitBunny
<1> HIDE DEF r
<1>5. r.seen = Ledger!NotRead /\ up[i].stage \notin Early /\ r.stage \notin Early
  BY <1>1, <1>3 DEF SlotOK, Early
<1>6. LetIn(r) => /\ up[i].stage \in {"held", "both"}
                  /\ \A j \in Uploads : j # i => up[j].seen = Ledger!NotRead
  BY <1>2, <1>3 DEF LetIn, Ledger!BunnyReadPending
<1> QED
  BY <1>1, <1>3, <1>4, <1>5, <1>6, QuietStep

\* The subtitle's row beside its reservation, and alone; a reservation that lapses.
LEMMA ReservationStep ==
  ASSUME LedgerInv, NEW i \in Uploads, Ledger!StoreSubtitle(i) \/ Ledger!ReleaseSubtitle(i)
         \/ Ledger!Lapse(i)
  PROVE  LedgerInv'
<1>1. up \in [Uploads -> Slots] /\ up[i] \in Slots /\ SlotOK(up[i])
  BY DEF LedgerInv
<1>2. PICK stage \in Ledger!Stages :
         /\ up' = [up EXCEPT ![i].stage = stage]
         /\ \/ up[i].kind = "subtitle" /\ up[i].stage = "held" /\ stage = "both"
            \/ up[i].stage = "both" /\ stage = "stored"
            \/ up[i].kind \in {"version", "asset"} /\ up[i].stage = "held" /\ stage = "lapsed"
  BY DEF Ledger!StoreSubtitle, Ledger!ReleaseSubtitle, Ledger!Lapse, Ledger!Move, Ledger!Stages
<1> DEFINE r == [up[i] EXCEPT !.stage = stage]
<1>3. /\ r \in Slots /\ r.stage = stage /\ r.kind = up[i].kind /\ r.size = up[i].size
      /\ r.seen = up[i].seen /\ r.admitted = up[i].admitted /\ r.slipped = up[i].slipped
  BY <1>1 DEF Slots
<1>4. up' = [up EXCEPT ![i] = r]
  BY <1>1, <1>2
<1> HIDE DEF r
<1>5. up[i].stage \notin Early /\ r.stage \notin Early /\ up[i].stage \in {"held", "both"}
  BY <1>1, <1>2, <1>3 DEF Early
<1>6. CASE r.seen = Ledger!NotRead
  <2>1. r.stage \in {"held", "both"} => r.admitted /\ ~r.slipped
    BY <1>1, <1>3, <1>5 DEF SlotOK
  <2>2. r.kind = "bunny" /\ r.stage \in {"both", "stored"} => up[i].stage = "both"
    BY <1>2, <1>3
  <2> QED
    BY <1>3, <1>4, <1>5, <1>6, <2>1, <2>2, QuietStep
<1>7. CASE r.seen # Ledger!NotRead
  <2>1. up[i].kind = "asset" /\ up[i].stage = "held" /\ stage = "lapsed"
    BY <1>1, <1>2, <1>3, <1>7 DEF SlotOK
  <2>2. SlotOK(r) /\ r.stage \notin Lent
    BY <1>1, <1>3, <2>1 DEF SlotOK, Early, Lent, Ledger!AllKinds
  <2>3. Total(up, BookedBunny) <= r.seen
    BY <1>3, <1>7 DEF LedgerInv
  <2>4. ~(r.kind = "bunny")
    BY <1>3, <2>1
  <2> QED
    BY <1>3, <1>4, <1>5, <2>2, <2>3, <2>4, SlotStep
<1> QED
  BY <1>6, <1>7

\* A POST that is refused, one that fails, and a Bunny upload that is cancelled.
LEMMA GiveUpStep ==
  ASSUME LedgerInv, NEW i \in Uploads,
         Ledger!CommitAssetRefused(i) \/ Ledger!CommitAssetFails(i) \/ Ledger!CancelBunny(i)
  PROVE  LedgerInv'
<1>1. up \in [Uploads -> Slots] /\ up[i] \in Slots /\ SlotOK(up[i])
  BY DEF LedgerInv
<1>2. CASE Ledger!CommitAssetRefused(i)
  <2> DEFINE r == [up[i] EXCEPT !.seen = Ledger!NotRead]
  <2>1. /\ r \in Slots /\ r.stage = up[i].stage /\ r.kind = up[i].kind /\ r.size = up[i].size
        /\ r.seen = Ledger!NotRead /\ r.admitted = up[i].admitted /\ r.slipped = up[i].slipped
    BY <1>1 DEF Slots
  <2>2. up' = [up EXCEPT ![i] = r]
    BY <1>1, <1>2 DEF Ledger!CommitAssetRefused
  <2> HIDE DEF r
  <2>3. up[i].stage \in {"lapsed", "orphaned"}
    BY <1>2 DEF Ledger!CommitAssetRefused, Ledger!Attachable
  <2>4. up[i].stage \notin Early /\ r.stage \notin Early /\ r.stage \notin Lent
        /\ r.stage \notin {"held", "both", "stored"}
    BY <2>1, <2>3 DEF Early, Lent
  <2> QED
    BY <2>1, <2>2, <2>4, QuietStep
<1>3. CASE Ledger!CommitAssetFails(i) \/ Ledger!CancelBunny(i)
  <2> DEFINE r == [up[i] EXCEPT !.stage = "orphaned", !.seen = Ledger!NotRead,
                   !.admitted = FALSE]
  <2>1. /\ r \in Slots /\ r.stage = "orphaned" /\ r.kind = up[i].kind /\ r.size = up[i].size
        /\ r.seen = Ledger!NotRead /\ r.admitted = FALSE /\ r.slipped = up[i].slipped
    BY <1>1 DEF Slots, Ledger!Stages
  <2>2. up[i].stage \in {"held", "lapsed", "orphaned"}
    BY <1>3 DEF Ledger!CommitAssetFails, Ledger!CancelBunny, Ledger!Attachable
  <2>3. up' = [up EXCEPT ![i] = r]
    <3>1. CASE Ledger!CommitAssetFails(i)
      BY <1>1, <3>1 DEF Ledger!CommitAssetFails
    <3>2. CASE Ledger!CancelBunny(i)
      <4>1. up[i].seen = Ledger!NotRead
        BY <1>1, <3>2 DEF Ledger!CancelBunny, SlotOK
      <4> DEFINE q == [up[i] EXCEPT !.stage = "orphaned", !.admitted = FALSE]
      <4>2. q = r
        BY <1>1, <4>1 DEF Slots
      <4>3. up' = [up EXCEPT ![i] = q]
        BY <1>1, <3>2 DEF Ledger!CancelBunny
      <4> QED
        BY <4>2, <4>3
    <3> QED
      BY <1>3, <3>1, <3>2
  <2> HIDE DEF r
  <2>4. up[i].stage \notin Early /\ r.stage \notin Early /\ r.stage \notin Lent
        /\ r.stage \notin {"held", "both", "stored"}
    BY <2>1, <2>2 DEF Early, Lent
  <2> QED
    BY <2>1, <2>3, <2>4, QuietStep
<1> QED
  BY <1>2, <1>3

LEMMA LedgerNext ==
  ASSUME LedgerInv, Ledger!Next
  PROVE  LedgerInv'
<1>1. PICK i \in Uploads : Ledger!Step(i) \/ \E kind \in Kinds,
      size \in Sizes : Ledger!Ask(i, kind, size)
  BY DEF Ledger!Next
<1>2. CASE \E kind \in Kinds, size \in Sizes : Ledger!Ask(i, kind, size)
  BY <1>2, AskStep
<1>3. CASE Ledger!ReserveRefused(i) \/ Ledger!Forget(i)
  BY <1>3, ForgetStep DEF Ledger!ReserveRefused, Ledger!Forget
<1> QED
  BY <1>1, <1>2, <1>3, BunnyReadStep, AdmitStep, CommitVersionStep, CommitBunnyStep,
     ReservationStep,
     CommitAssetStep, GiveUpStep DEF Ledger!Step

LEMMA LedgerHolds == Ledger!Spec => []LedgerInv
<1>1. LedgerInv /\ UNCHANGED up => LedgerInv'
  BY DEF LedgerInv, BookedBunny, Booked
<1> QED
  BY <1>1, LedgerStart, LedgerNext, PTL DEF Ledger!Spec

LEMMA RoomIsKept == LedgerInv => Ledger!NoDoubleBooking
<1> SUFFICES ASSUME LedgerInv PROVE Ledger!NoDoubleBooking
  OBVIOUS
<1>1. {i \in Ledger!Charged : up[i].admitted /\ ~up[i].slipped} = Booked
  BY DEF Ledger!Charged, Ledger!InStage, Booked, LetIn, Lent
<1>2. (\A i \in Uploads : up[i].stage \in Early) => Ledger!Charged = {}
  BY DEF Ledger!Charged, Ledger!InStage, Early
<1>3. Ledger!Bytes({i \in Ledger!Charged : up[i].admitted /\ ~up[i].slipped}) = Total(up,
                                                                                      Booked)
  <2>1. Ledger!Bytes({i \in Ledger!Charged : up[i].admitted /\ ~up[i].slipped})
                 = Total(up, {i \in Ledger!Charged : up[i].admitted /\ ~up[i].slipped})
    BY DEF Ledger!Bytes, Total, Sums, Picked, Ledger!MapThenSumSet, Ledger!MapThenFoldSet
  <2> QED
    BY <1>1, <2>1
<1> QED
  BY <1>2, <1>3 DEF Ledger!NoDoubleBooking, LedgerInv

\* What was let in stays below the limit.
LEMMA RoomInTheLedger == Ledger!Spec => []Ledger!NoDoubleBooking
BY LedgerHolds, RoomIsKept, PTL

-----------------------------------------------------------------------------
(* The team: the three sets of rows, side by side.                         *)

LEMMA TeamIsRetention == TeamSpec => Spec
<1>1. TeamInit => Init
  BY DEF TeamInit
<1>2. [TeamNext]_everything => [Next]_vars
  BY DEF TeamNext, Dated, Seated, Stored, Talk, everything
<1> QED
  BY <1>1, <1>2, PTL DEF TeamSpec, Spec

LEMMA TeamIsSeats == TeamSpec => Seats!Spec
<1>1. TeamInit => Seats!Init
  BY DEF TeamInit
<1>2. [TeamNext]_everything => [Seats!Next]_Seats!vars
  BY DEF TeamNext, Dated, Seated, Stored, Talk, everything, seats, Seats!vars
<1> QED
  BY <1>1, <1>2, PTL DEF TeamSpec, Seats!Spec

LEMMA TeamIsLedger == TeamSpec => Ledger!Spec
<1>1. TeamInit => Ledger!Init
  BY DEF TeamInit
<1>2. [TeamNext]_everything => [Ledger!Next]_up
  BY DEF TeamNext, Dated, Seated, Stored, Talk, everything
<1> QED
  BY <1>1, <1>2, PTL DEF TeamSpec, Ledger!Spec

LEMMA TeamIsThread == TeamSpec => Thread!Spec
<1>1. TeamInit => Thread!Init
  BY DEF TeamInit
<1>2. [TeamNext]_everything => [Thread!Next]_Thread!vars
  BY DEF TeamNext, Dated, Seated, Stored, Talk, everything, thread, Thread!vars
<1> QED
  BY <1>1, <1>2, PTL DEF TeamSpec, Thread!Spec

\* Nobody enters a folder or a file, or is promoted there, but by an invitation that is
\* open at that very moment (applyInvitationMembership's claim against the two routes
\* that cancel), however long ago the request read it.
THEOREM CancelledStaysOutHolds == TeamSpec => CancelledStaysOut
BY TeamIsSeats, CancelledStays, PTL DEF CancelledStaysOut

\* Accepting never takes a role away (the upsert of applyInvitationMembership),
\* whatever was read before a promotion or an earlier acceptance.
THEOREM NeverLoweredHolds == TeamSpec => Seats!NeverLowered
BY TeamIsSeats, RolesStay, PTL

\* Concurrent uploads never book the same headroom twice: what a check let in
\* (reserveStorageQuota, the assets route's own sum) stays below the limit, the two
\* named slips excepted, whatever is read before the lock and written outside it.
THEOREM NoDoubleBookingHolds == TeamSpec => []NoDoubleBooking
BY TeamIsLedger, RoomInTheLedger, PTL DEF NoDoubleBooking

\* A comment is shown once (use-comment-actions against the polls and the notices of
\* use-video-page-data), the three named cases excepted.
THEOREM ShownOnceHolds == TeamSpec => []ShownOnce
BY TeamIsThread, OnceInTheThread, PTL DEF ShownOnce

\* A poll that the entity tag spares leaves nothing missing, out of date or undone on
\* the screen (the GET route's tag and the list it stands for), the three named cases
\* excepted.
THEOREM TagVouchesHolds == TeamSpec => []TagVouches
BY TeamIsThread, TagInTheThread, PTL DEF TagVouches
===============================================================================
