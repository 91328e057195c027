---------------------------- MODULE BillingProofs ----------------------------
(***************************************************************************)
(* What is proved of billing, for any numbers of callers, subscriptions,   *)
(* blocks, seats and events.                                               *)
(*                                                                         *)
(* Every reachable state is well typed.  What an account has paid for      *)
(* shrinks only when a change it scheduled lands: an upgrade writes the    *)
(* items it read or more, and what is scheduled beside it is never lost to *)
(* a change that read before it.  And the copy of Stripe that access is    *)
(* read off is current whenever no notification is owed and none is being  *)
(* answered.                                                               *)
(***************************************************************************)
EXTENDS Billing, WellFoundedInduction, TLAPS

-----------------------------------------------------------------------------
(* The invariant.                                                          *)

\* "b" is at least "a": no lower plan and no fewer blocks.
Within(a, b) == ~isPlanUpgrade(b.plan, a.plan) /\ a.blocks <= b.blocks

\* A subscription in itself: what is scheduled is less than what is paid for, a schedule
\* that waits for nothing stores the items of today, and an update that waits for its
\* invoice is more and stands beside no schedule.
InOrder(sub) ==
    /\ sub.status = "none" => sub.items = NoItems
    /\ sub.status # "none" => sub.items \in Items
    /\ Pending(sub.schedule) => Attached(sub.schedule) /\ Within(sub.schedule.next, sub.items)
    /\ Attached(sub.schedule) /\ ~Pending(sub.schedule) => sub.schedule.base = sub.items
    /\ sub.update # NoItems => ~Attached(sub.schedule) /\ Within(sub.items, sub.update)

\* What a change has read of its subscription, and means to write: an upgrade finds the
\* items it has read, a downgrade at most these.
Stands(q, sub) ==
    /\ sub.status # "none" /\ sub.update = NoItems
    /\ q.target \in Items /\ q.seen.items \in Items /\ Within(sub.items, q.seen.items)
    /\ q.step \in {"charge", "update"} =>
          /\ sub.items = q.seen.items /\ Within(q.seen.items, q.target)
          /\ ~Pending(sub.schedule)
          /\ q.step = "update" \/ ~Attached(q.seen.schedule) => ~Attached(sub.schedule)
    /\ q.step \in {"mark", "schedule", "write"} => Within(q.target, q.seen.items)

Changing == {"charge", "update", "mark", "schedule", "write"}
Leasing == Changing \cup {"load", "release", "clear", "find", "claim", "stop"}
Copying == {"listed", "read"}

\* A change works under the lease, on a subscription there is in "S".
CallOK(q, S) ==
    /\ q.step \in Changing \cup {"release", "claim", "stop"} =>
          q.sub \in Subs /\ S[q.sub].status # "none"
    /\ q.step \in Changing => Stands(q, S[q.sub])
    /\ q.step = "create" \/ (q.step = "load" /\ q.kind = "plan") => q.target \in Items
    /\ q.view.sub # 0 => S[q.view.sub].status # "none"

BillingInv ==
    /\ TypeOK /\ \A s \in Subs : InOrder(subs[s])
    /\ user.sub # 0 => subs[user.sub].status # "none"
    /\ \A c \in Calls : CallOK(calls[c], subs) /\ (calls[c].step \in Leasing => lease = c)

\* The mirror agrees with Stripe, or somebody is going to copy what Stripe says: the
\* news is owed, a delivery waits for the lock, or one has listed what is still so.
Part(v) == [sub |-> v.sub, status |-> v.status, plan |-> v.plan, blocks |-> v.blocks]
Agrees(q) == q.step \in Copying => Part(q.view) = Truth
MirrorInv ==
    /\ \A c, d \in Calls : calls[c].step \in Copying /\ calls[d].step \in Copying => c = d
    /\ \/ Listed = {} \/ owed
       \/ \E c \in Calls : calls[c].kind = "webhook" /\ calls[c].step = "sync"
       \/ \E c \in Calls : /\ calls[c].kind = "webhook" /\ calls[c].step \in Copying
                           /\ Agrees(calls[c])
       \/ Mirror = Truth /\ \A c \in Calls : Agrees(calls[c])

-----------------------------------------------------------------------------
(* Items, schedules and subscriptions.                                     *)

\* What a subscription is for: a plan that is sold and a number of blocks.
LEMMA ItemFacts ==
  /\ NoItems \notin Items /\ NoItems.plan = "NONE"
  /\ \A x \in Items : x.plan \in Plans /\ x.blocks \in 0..MaxBlocks /\ x.blocks \in Nat
BY BillingAssumption DEF Items, NoItems, Plans

\* "Within" is a preorder of the items.
LEMMA WithinItself ==
  ASSUME NEW x \in Items
  PROVE  Within(x, x)
BY ItemFacts DEF Within, isPlanUpgrade, Plans

\* ... and from one to the next.
LEMMA WithinFar ==
  ASSUME NEW x \in Items, NEW y \in Items, NEW z \in Items, Within(x, y), Within(y, z)
  PROVE  Within(x, z)
<1>1. x.blocks \in Nat /\ y.blocks \in Nat /\ z.blocks \in Nat
  BY ItemFacts
<1>2. x.plan \in Plans /\ y.plan \in Plans /\ z.plan \in Plans
  BY ItemFacts
<1>3. x.blocks <= z.blocks
  BY <1>1 DEF Within
<1>4. ~isPlanUpgrade(z.plan, x.plan)
  BY <1>2 DEF Within, isPlanUpgrade, Plans
<1> QED
  BY <1>3, <1>4 DEF Within

\* A schedule stores items, and waits for other items or for none.
LEMMA ScheduleFacts ==
  /\ NoSchedule \in Schedule /\ ~Attached(NoSchedule) /\ ~Pending(NoSchedule)
  /\ NoSchedule.next = NoItems
  /\ \A x \in Schedule : /\ Attached(x) => x.base \in Items
                         /\ Pending(x) => x.next \in Items
                         /\ x.next \in Items \cup {NoItems}
  /\ \A b \in Items : \A n \in Items \cup {NoItems} :
        /\ [base |-> b, next |-> n] \in Schedule /\ Attached([base |-> b, next |-> n])
        /\ [base |-> b, next |-> n].base = b /\ [base |-> b, next |-> n].next = n
        /\ Pending([base |-> b, next |-> n]) <=> n # NoItems
<1>1. NoSchedule \in Schedule /\ NoSchedule.base = NoItems /\ NoSchedule.next = NoItems
  BY DEF NoSchedule, Schedule
<1>2. \A x \in Schedule : x.base \in Items \cup {NoItems} /\ x.next \in Items \cup {NoItems}
  BY <1>1 DEF Schedule
<1>3. \A b \in Items : \A n \in Items \cup {NoItems} :
        /\ [base |-> b, next |-> n] \in Schedule
        /\ [base |-> b, next |-> n].base = b /\ [base |-> b, next |-> n].next = n
  BY DEF Schedule
<1> QED
  BY <1>1, <1>2, <1>3, ItemFacts DEF Attached, Pending

Statuses == {"none", "session", "incomplete", "active", "past_due", "canceled"}

\* The fields of a subscription, and of the one there is not.
LEMMA SubFields ==
  ASSUME NEW sub \in Subscription
  PROVE  /\ sub.status \in Statuses /\ sub.items \in Items \cup {NoItems}
         /\ sub.schedule \in Schedule /\ sub.cancels \in BOOLEAN
         /\ sub.update \in Items \cup {NoItems}
BY DEF Subscription, Statuses

\* A subscription that is not there is in order.
LEMMA NoSubFacts ==
  /\ NoSub \in Subscription /\ InOrder(NoSub) /\ NoSub.status = "none" /\ NoSub.items = NoItems
  /\ NoSub.schedule = NoSchedule
<1>1. /\ NoSub.status = "none" /\ NoSub.items = NoItems /\ NoSub.schedule = NoSchedule
      /\ NoSub.update = NoItems
  BY DEF NoSub
<1>2. NoSub \in Subscription
  BY ScheduleFacts DEF NoSub, Subscription
<1> QED
  BY <1>1, <1>2, ScheduleFacts DEF InOrder

\* What may become of a subscription without anybody's change: it stays in order, a
\* change that was read before still stands, and its items shrink only as scheduled.
ItemsKept(sub, new) ==
    \/ new.items = sub.items
    \/ Within(sub.items, new.items)
    \/ new.items = sub.schedule.next
Lives(sub, new) ==
    /\ new \in Subscription /\ sub.status # "none" /\ new.status # "none"
    /\ InOrder(new) /\ ItemsKept(sub, new)
    /\ \A q \in Call : Stands(q, sub) => Stands(q, new)

\* Its status changes, or whether it is to cancel.
LEMMA StatusLives ==
  ASSUME NEW sub \in Subscription, InOrder(sub), sub.status # "none",
         NEW new \in Subscription, new.status # "none", new.items = sub.items,
         new.schedule = sub.schedule, new.update = sub.update
  PROVE  Lives(sub, new)
BY DEF Lives, InOrder, ItemsKept, Stands

\* Its schedule goes, or its schedule and the update that waits.
LEMMA UnscheduledLives ==
  ASSUME NEW sub \in Subscription, InOrder(sub), sub.status # "none",
         NEW new \in Subscription, new.status # "none", new.items = sub.items,
         new.schedule = NoSchedule, new.update \in {sub.update, NoItems}
  PROVE  Lives(sub, new)
BY ScheduleFacts DEF Lives, InOrder, ItemsKept, Stands

\* What was scheduled lands.
LEMMA LandedLives ==
  ASSUME NEW sub \in Subscription, InOrder(sub), sub.status # "none", Pending(sub.schedule),
         NEW new \in Subscription, new.status # "none", new.items = sub.schedule.next,
         new.schedule = [base |-> sub.schedule.next, next |-> NoItems], new.update = sub.update
  PROVE  Lives(sub, new)
<1>1. sub.schedule.next \in Items /\ sub.items \in Items
  BY SubFields, ScheduleFacts DEF InOrder
<1>2. Attached(new.schedule) /\ ~Pending(new.schedule) /\ new.schedule.base = new.items
  BY <1>1, ScheduleFacts
<1>3. sub.update = NoItems /\ Within(sub.schedule.next, sub.items)
  BY DEF InOrder
<1>4. InOrder(new)
  BY <1>1, <1>2, <1>3 DEF InOrder
<1>5. ASSUME NEW q \in Call, Stands(q, sub) PROVE Stands(q, new)
  <2>1. q.seen.items \in Items /\ Within(sub.items, q.seen.items)
    BY <1>5 DEF Stands
  <2>2. Within(new.items, q.seen.items)
    BY <1>1, <1>3, <2>1, WithinFar
  <2> QED
    BY <1>3, <1>5, <2>2 DEF Stands
<1> QED
  BY <1>4, <1>5 DEF Lives, ItemsKept

\* A schedule that waits for nothing ends.
LEMMA RestoredLives ==
  ASSUME NEW sub \in Subscription, InOrder(sub), sub.status # "none", Attached(sub.schedule),
         ~Pending(sub.schedule), NEW new \in Subscription, new.status # "none",
         new.items = sub.schedule.base, new.schedule = NoSchedule, new.update = sub.update
  PROVE  Lives(sub, new)
<1>1. new.items = sub.items
  BY DEF InOrder
<1> QED
  BY <1>1, UnscheduledLives

\* The update that waited is paid, or expires.
LEMMA SettledLives ==
  ASSUME NEW sub \in Subscription, InOrder(sub), sub.status # "none", sub.update # NoItems,
         NEW new \in Subscription, new.status # "none", new.items \in {sub.items, sub.update},
         new.schedule = sub.schedule, new.update = NoItems
  PROVE  Lives(sub, new)
<1>1. Within(sub.items, sub.update) /\ sub.items \in Items /\ sub.update \in Items
  BY SubFields DEF InOrder
<1>2. ~Attached(new.schedule) /\ ~Pending(new.schedule)
  BY DEF InOrder
<1>3. InOrder(new)
  BY <1>1, <1>2 DEF InOrder
<1>4. \A q \in Call : ~Stands(q, sub)
  BY DEF Stands
<1> QED
  BY <1>1, <1>3, <1>4 DEF Lives, ItemsKept

-----------------------------------------------------------------------------
(* Calls.                                                                  *)

Targets == Items \cup [plan : {"NONE"}, blocks : 0..MaxBlocks]

\* The fields of a call and of the view it carries.
LEMMA CallFields ==
  ASSUME NEW q \in Call
  PROVE  /\ q.kind \in Kinds /\ q.step \in Steps /\ q.sub \in Subs \cup {0}
         /\ q.seen \in Subscription /\ q.target \in Targets /\ q.marked \in BOOLEAN
         /\ q.previous \in Plans \cup {"NONE"} /\ q.view \in View /\ q.trial \in BOOLEAN
         /\ q.people \in SUBSET People
BY DEF Call, Targets

\* The fields of a view.
LEMMA ViewFields ==
  /\ NoView \in View /\ NoView.sub = 0
  /\ \A v \in View : /\ v.sub \in Subs \cup {0} /\ v.plan \in Plans \cup {"NONE"}
                     /\ v.status \in {"INCOMPLETE", "ACTIVE", "PAST_DUE", "CANCELED"}
                     /\ v.blocks \in 0..MaxBlocks /\ v.cancels \in BOOLEAN
                     /\ v.pending \in Plans \cup {"NONE"}
BY BillingAssumption DEF View, NoView

\* What a call shares with the one it came from.
Same(q, new) ==
  /\ new.kind = q.kind /\ new.sub = q.sub /\ new.seen = q.seen /\ new.target = q.target
  /\ new.marked = q.marked /\ new.previous = q.previous /\ new.view = q.view
  /\ new.trial = q.trial /\ new.people = q.people

\* A call that goes to another step is a call, and keeps the rest.
LEMMA StepSet ==
  ASSUME NEW q \in Call, NEW x \in Steps
  PROVE  /\ [q EXCEPT !.step = x] \in Call /\ [q EXCEPT !.step = x].step = x
         /\ Same(q, [q EXCEPT !.step = x])
BY DEF Call, Same

\* Nothing is known to a call that has not begun.
LEMMA IdleFacts ==
  /\ IdleCall \in Call /\ IdleCall.step = "none" /\ IdleCall.kind = "none"
  /\ IdleCall.view = NoView /\ IdleCall.sub = 0
<1>1. NoSub \in Subscription /\ NoView \in View
  BY NoSubFacts, ViewFields
<1>2. NoItems \in Targets
  BY BillingAssumption DEF NoItems, Targets
<1>3. {} \in SUBSET People /\ FALSE \in BOOLEAN
  OBVIOUS
<1> QED
  BY <1>1, <1>2, <1>3 DEF IdleCall, Call, Targets, Kinds, Steps

-----------------------------------------------------------------------------
(* The subscription that counts.                                           *)

\* A bounded set of numbers has its greatest.
LEMMA GreatestExists ==
  ASSUME NEW T \in SUBSET Nat, NEW b \in Nat, \A x \in T : x <= b, T # {}
  PROVE  \E m \in T : \A k \in T : k <= m
<1> DEFINE R == OpToRel(<, Nat)
           U == {n \in Nat : \A x \in T : x <= n}
<1>1. IsWellFoundedOn(R, Nat)
  BY NatLessThanWellFounded
<1>2. \A x, y \in Nat : x < y => <<x, y>> \in R
  BY DEF OpToRel
<1>3. U \in SUBSET Nat /\ b \in U
  OBVIOUS
<1> HIDE DEF R
<1>4. PICK m \in U : \A k \in U : ~(<<k, m>> \in R)
  <2> HIDE DEF U
  <2> QED
    BY <1>1, <1>3, WFMin
<1>5. m \in T
  <2> SUFFICES ASSUME m \notin T PROVE FALSE
    OBVIOUS
  <2>1. PICK x \in T : TRUE
    OBVIOUS
  <2>2. m \in Nat /\ x \in Nat /\ x <= m /\ x # m
    BY <1>4, <2>1
  <2>3. m - 1 \in Nat /\ m - 1 < m
    BY <2>2
  <2>4. \A y \in T : y <= m - 1
    BY <1>4, <2>3
  <2>5. m - 1 \in U
    BY <2>3, <2>4
  <2> QED
    BY <1>2, <1>4, <2>2, <2>3, <2>5
<1> QED
  BY <1>4, <1>5

\* One of them outranks the others.
LEMMA Outranking ==
  ASSUME NEW from \in SUBSET Subs, from # {},
         \A s \in from : subs[s].status \in Live \cup {"canceled"}
  PROVE  \E m \in from : \A t \in from :
            \/ Priority[subs[m].status] > Priority[subs[t].status]
            \/ Priority[subs[m].status] = Priority[subs[t].status] /\ m >= t
<1> DEFINE Of(p) == {s \in from : Priority[subs[s].status] = p}
<1>1. \A s \in from : Priority[subs[s].status] \in {100, 80, 50, 10}
  BY DEF Priority, Live
<1>2. PICK p \in {100, 80, 50, 10} : /\ Of(p) # {}
                                     /\ \A s \in from : Priority[subs[s].status] <= p
  <2>1. Of(100) # {} \/ Of(80) # {} \/ Of(50) # {} \/ Of(10) # {}
    BY <1>1
  <2>2. CASE Of(100) # {}
    <3>1. \A s \in from : Priority[subs[s].status] <= 100
      BY <1>1
    <3> QED
      BY <2>2, <3>1
  <2>3. CASE Of(100) = {} /\ Of(80) # {}
    <3>1. \A s \in from : Priority[subs[s].status] <= 80
      BY <1>1, <2>3
    <3> QED
      BY <2>3, <3>1
  <2>4. CASE Of(100) = {} /\ Of(80) = {} /\ Of(50) # {}
    <3>1. \A s \in from : Priority[subs[s].status] <= 50
      BY <1>1, <2>4
    <3> QED
      BY <2>4, <3>1
  <2>5. CASE Of(100) = {} /\ Of(80) = {} /\ Of(50) = {}
    <3>1. \A s \in from : Priority[subs[s].status] <= 10
      BY <1>1, <2>5
    <3> QED
      BY <2>1, <2>5, <3>1
  <2> QED
    BY <2>2, <2>3, <2>4, <2>5
<1>3. Of(p) \in SUBSET Nat /\ \A s \in Of(p) : s <= MaxSubs
  <2>1. \A s \in Subs : s \in Nat /\ s <= MaxSubs
    BY BillingAssumption DEF Subs
  <2>2. Of(p) \subseteq Subs
    OBVIOUS
  <2> QED
    BY <2>1, <2>2
<1>4. PICK m \in Of(p) : \A k \in Of(p) : k <= m
  <2> HIDE DEF Of
  <2> QED
    BY <1>2, <1>3, GreatestExists, BillingAssumption
<1>5. m \in from /\ Priority[subs[m].status] = p
  BY <1>4
<1>6. \A t \in from : \/ Priority[subs[m].status] > Priority[subs[t].status]
                      \/ Priority[subs[m].status] = Priority[subs[t].status] /\ m >= t
  <2> TAKE t \in from
  <2>0. m \in Nat /\ t \in Nat
    BY <1>5, BillingAssumption DEF Subs
  <2>1. CASE t \in Of(p)
    BY <1>4, <1>5, <2>0, <2>1
  <2>2. CASE t \notin Of(p)
    <3>1. Priority[subs[t].status] # p /\ Priority[subs[t].status] <= p
      BY <1>2, <2>2
    <3>2. Priority[subs[t].status] \in {100, 80, 50, 10}
      BY <1>1
    <3> QED
      BY <1>5, <3>1, <3>2
  <2> QED
    BY <2>1, <2>2
<1> QED
  BY <1>5, <1>6

\* selectAuthoritativeSubscription picks one of what it is given, if there is any.
LEMMA Authoritative ==
  ASSUME NEW from \in SUBSET Subs, from # {},
         \A s \in from : subs[s].status \in Live \cup {"canceled"}
  PROVE  selectAuthoritativeSubscription(from) \in from
BY Outranking DEF selectAuthoritativeSubscription

\* It picks nothing of nothing.
LEMMA NewestFacts ==
  ASSUME NEW from \in SUBSET Subs, \A s \in from : subs[s].status \in Live \cup {"canceled"}
  PROVE  /\ from = {} => selectAuthoritativeSubscription(from) = 0
         /\ from # {} => selectAuthoritativeSubscription(from) \in from
         /\ selectAuthoritativeSubscription(from) \in from \cup {0}
<1>1. from = {} => selectAuthoritativeSubscription(from) = 0
  BY DEF selectAuthoritativeSubscription
<1>2. from # {} => selectAuthoritativeSubscription(from) \in from
  BY Authoritative
<1> QED
  BY <1>1, <1>2

\* What Stripe lists has items.
LEMMA ListedMade ==
  ASSUME TypeOK, \A s \in Subs : InOrder(subs[s]), NEW s \in Listed
  PROVE  /\ s \in Subs /\ s # 0
         /\ subs[s].status \in {"incomplete", "active", "past_due", "canceled"}
         /\ subs[s] \in Subscription /\ subs[s].items \in Items
<1>1. s \in Subs /\ s # 0 /\ subs[s].status \in {"incomplete", "active", "past_due", "canceled"}
  BY BillingAssumption DEF Listed, Live, Subs
<1>2. subs[s] \in Subscription /\ InOrder(subs[s])
  BY <1>1 DEF TypeOK
<1>3. subs[s].items \in Items
  BY <1>1, <1>2 DEF InOrder
<1> QED
  BY <1>1, <1>2, <1>3

\* What is read of a subscription is a view.
LEMMA ViewOfFacts ==
  ASSUME TypeOK, \A s \in Subs : InOrder(subs[s]), NEW s \in Listed \cup {0}
  PROVE  /\ ViewOf(s) \in View /\ ViewOf(s).sub = s
         /\ s # 0 => ViewOf(s).plan \in Plans
<1>1. CASE s = 0
  BY <1>1, ViewFields DEF ViewOf
<1>2. CASE s \in Listed
  <2>1. /\ s \in Subs /\ s # 0
        /\ subs[s].status \in {"incomplete", "active", "past_due", "canceled"}
        /\ subs[s] \in Subscription /\ subs[s].items \in Items
    BY <1>2, ListedMade
  <2>2. mapStripeSubscriptionStatus[subs[s].status]
          \in {"INCOMPLETE", "ACTIVE", "PAST_DUE", "CANCELED"}
    BY <2>1 DEF mapStripeSubscriptionStatus
  <2>3. subs[s].items.plan \in Plans /\ subs[s].items.blocks \in 0..MaxBlocks
    BY <2>1, ItemFacts
  <2>4. subs[s].cancels \in BOOLEAN /\ subs[s].schedule \in Schedule
    BY <2>1, SubFields
  <2>5. subs[s].schedule.next.plan \in Plans \cup {"NONE"}
    BY <2>4, ScheduleFacts, ItemFacts
  <2>6. PICK over \in BOOLEAN : over = (subs[s].status = "canceled")
    OBVIOUS
  <2>7. PICK n \in 0..MaxBlocks : n = IF over THEN 0 ELSE subs[s].items.blocks
    BY <2>3, BillingAssumption
  <2>8. PICK p \in Plans \cup {"NONE"} : p = IF over THEN "NONE" ELSE subs[s].schedule.next.plan
    BY <2>5
  <2>9. ViewOf(s) = [sub |-> s, status |-> mapStripeSubscriptionStatus[subs[s].status],
                     plan |-> subs[s].items.plan, blocks |-> n,
                     cancels |-> subs[s].cancels, pending |-> p]
    BY <2>1, <2>6, <2>7, <2>8 DEF ViewOf
  <2> QED
    BY <2>1, <2>2, <2>3, <2>4, <2>9 DEF View
<1> QED
  BY <1>1, <1>2

\* What a listing shows: one of the listed subscriptions, or that there is none.
LEMMA ProviderFacts ==
  ASSUME TypeOK, \A s \in Subs : InOrder(subs[s])
  PROVE  /\ Provider \in View
         /\ Provider.sub # 0 => Provider.sub \in Subs /\ subs[Provider.sub].status # "none"
         /\ Listed # {} => Provider.plan \in Plans
<1>1. PICK s : s = selectAuthoritativeSubscription(Listed)
  OBVIOUS
<1>2. Listed \in SUBSET Subs /\ \A t \in Listed : subs[t].status \in Live \cup {"canceled"}
  BY DEF Listed
<1>3. s \in Listed \cup {0} /\ (Listed # {} => s \in Listed)
  BY <1>1, <1>2, NewestFacts
<1>4. ViewOf(s) \in View /\ ViewOf(s).sub = s /\ (s # 0 => ViewOf(s).plan \in Plans)
  BY <1>3, ViewOfFacts
<1>5. \A t \in Listed : t \in Subs /\ t # 0 /\ subs[t].status # "none"
  BY ListedMade
<1>6. Provider = ViewOf(s)
  BY <1>1 DEF Provider
<1> QED
  BY <1>3, <1>4, <1>5, <1>6

-----------------------------------------------------------------------------
(* A step, put together.                                                   *)

Rest ==
    /\ owed' \in BOOLEAN /\ user' \in User /\ editors' \in SUBSET People
    /\ lease' \in Calls \cup {"nobody", "left"} /\ spent' \in BOOLEAN /\ events' \in 0..MaxEvents

\* The invariant of the next state, from its parts.
LEMMA Together ==
  ASSUME BillingInv, Rest, subs' \in [Subs -> Subscription], \A s \in Subs : InOrder(subs'[s]),
         user'.sub # 0 => subs'[user'.sub].status # "none",
         calls' \in [Calls -> Call],
         \A c \in Calls : CallOK(calls'[c], subs'),
         \A c \in Calls : calls'[c].step \in Leasing => lease' = c
  PROVE  BillingInv'
BY DEF BillingInv, TypeOK, Rest, InOrder, Pending, Attached, Within, CallOK, Stands

\* A call that stands while the subscriptions live on.
LEMMA CallLives ==
  ASSUME NEW S \in [Subs -> Subscription], NEW T \in [Subs -> Subscription],
         NEW q \in Call, CallOK(q, S),
         \A s \in Subs : S[s].status # "none" => T[s].status # "none",
         q.step \in Changing =>
           \A s \in Subs : S[s].status # "none" => T[s] = S[s] \/ Lives(S[s], T[s])
  PROVE  CallOK(q, T)
<1>1. q.step \in Changing => Stands(q, T[q.sub])
  <2> SUFFICES ASSUME q.step \in Changing PROVE Stands(q, T[q.sub])
    OBVIOUS
  <2>1. q.sub \in Subs /\ Stands(q, S[q.sub]) /\ S[q.sub].status # "none"
    BY DEF CallOK
  <2>2. T[q.sub] = S[q.sub] \/ Lives(S[q.sub], T[q.sub])
    BY <2>1
  <2> QED
    BY <2>1, <2>2 DEF Lives
<1>2. q.step \in Changing \cup {"release", "claim", "stop"} =>
        q.sub \in Subs /\ T[q.sub].status # "none"
  BY DEF CallOK
<1>3. q.view \in View
  BY CallFields
<1>4. q.view.sub # 0 => T[q.view.sub].status # "none"
  BY <1>3, ViewFields DEF CallOK
<1> QED
  BY <1>1, <1>2, <1>4 DEF CallOK

\* A step of Stripe.
LEMMA StripeTogether ==
  ASSUME BillingInv, NEW s \in Subs, NEW new, Lives(subs[s], new),
         subs' = [subs EXCEPT ![s] = new], owed' \in BOOLEAN, events' \in 0..MaxEvents,
         UNCHANGED <<user, editors, lease, calls, spent>>
  PROVE  BillingInv'
<1>1. /\ subs \in [Subs -> Subscription] /\ user \in User /\ user.sub \in Subs \cup {0}
      /\ editors \in SUBSET People /\ lease \in Calls \cup {"nobody", "left"}
      /\ calls \in [Calls -> Call] /\ spent \in BOOLEAN
      /\ \A t \in Subs : InOrder(subs[t])
  BY DEF BillingInv, TypeOK, User
<1>2. new \in Subscription /\ InOrder(new) /\ new.status # "none"
  BY DEF Lives
<1>3. subs' \in [Subs -> Subscription] /\ \A t \in Subs : InOrder(subs'[t])
  BY <1>1, <1>2
<1>4. \A t \in Subs : /\ subs[t].status # "none" => subs'[t].status # "none"
                      /\ subs'[t] = subs[t] \/ Lives(subs[t], subs'[t])
  BY <1>1, <1>2
<1>5. ASSUME NEW c \in Calls
      PROVE  CallOK(calls[c], subs') /\ (calls[c].step \in Leasing => lease = c)
  <2>1. calls[c] \in Call /\ CallOK(calls[c], subs) /\ (calls[c].step \in Leasing => lease = c)
    BY <1>1 DEF BillingInv
  <2> QED
    BY <1>1, <1>3, <1>4, <2>1, CallLives
<1>6. user.sub # 0 => subs'[user.sub].status # "none"
  BY <1>1, <1>4 DEF BillingInv
<1>7. Rest
  BY <1>1 DEF Rest
<1> QED
  BY <1>1, <1>3, <1>5, <1>6, <1>7, Together

\* A step of a call: what the others go by is left as they know it, or lives on.
LEMMA CallTogether ==
  ASSUME BillingInv, NEW c \in Calls, NEW q \in Call, calls' = [calls EXCEPT ![c] = q],
         NEW T \in [Subs -> Subscription], subs' = T, \A s \in Subs : InOrder(T[s]),
         \A s \in Subs : subs[s].status # "none" => T[s].status # "none",
         \/ lease = c
         \/ \A s \in Subs : subs[s].status # "none" => T[s] = subs[s] \/ Lives(subs[s], T[s]),
         Rest, user'.sub # 0 => T[user'.sub].status # "none",
         CallOK(q, T), q.step \in Leasing => lease' = c,
         lease' = lease \/ lease \in {c, "nobody", "left"}
  PROVE  BillingInv'
<1>1. /\ subs \in [Subs -> Subscription] /\ calls \in [Calls -> Call]
      /\ "nobody" \notin Calls /\ "left" \notin Calls
  BY BillingAssumption DEF BillingInv, TypeOK
<1>2. calls' \in [Calls -> Call]
  BY <1>1
<1>3. ASSUME NEW d \in Calls
      PROVE  CallOK(calls'[d], T) /\ (calls'[d].step \in Leasing => lease' = d)
  <2>1. CASE d = c
    BY <1>1, <2>1
  <2>2. CASE d # c
    <3>1. calls'[d] = calls[d] /\ calls[d] \in Call
      BY <1>1, <2>2
    <3>2. CallOK(calls[d], subs) /\ (calls[d].step \in Leasing => lease = d)
      BY DEF BillingInv
    <3>3. calls[d].step \in Leasing => lease' = d
      BY <1>1, <2>2, <3>2
    <3>4. calls[d].step \in Changing =>
            \A s \in Subs : subs[s].status # "none" => T[s] = subs[s] \/ Lives(subs[s], T[s])
      BY <2>2, <3>2 DEF Leasing
    <3>5. CallOK(calls[d], T)
      BY <1>1, <3>1, <3>2, <3>4, CallLives
    <3> QED
      BY <3>1, <3>3, <3>5
  <2> QED
    BY <2>1, <2>2
<1> QED
  BY <1>2, <1>3, Together

\* A step of a call that leaves the subscriptions alone.
LEMMA CallAlone ==
  ASSUME BillingInv, NEW c \in Calls, NEW q \in Call, calls' = [calls EXCEPT ![c] = q],
         subs' = subs, Rest, user'.sub # 0 => subs[user'.sub].status # "none",
         CallOK(q, subs), q.step \in Leasing => lease' = c,
         lease' = lease \/ lease \in {c, "nobody", "left"}
  PROVE  BillingInv'
<1>1. subs \in [Subs -> Subscription] /\ \A s \in Subs : InOrder(subs[s])
  BY DEF BillingInv, TypeOK
<1> QED
  BY <1>1, CallTogether

\* A step of a call that writes one subscription.
LEMMA CallWrites ==
  ASSUME BillingInv, NEW c \in Calls, NEW q \in Call, calls' = [calls EXCEPT ![c] = q],
         NEW s \in Subs, NEW new \in Subscription, InOrder(new), new.status # "none",
         subs' = [subs EXCEPT ![s] = new],
         lease = c \/ Lives(subs[s], new) \/ subs[s].status = "none",
         UNCHANGED <<user, editors, lease, spent, events>>, owed' \in BOOLEAN,
         CallOK(q, [subs EXCEPT ![s] = new]), q.step \in Leasing => lease = c
  PROVE  BillingInv'
<1>1. /\ subs \in [Subs -> Subscription] /\ \A t \in Subs : InOrder(subs[t])
      /\ user \in User /\ user.sub \in Subs \cup {0}
      /\ editors \in SUBSET People /\ lease \in Calls \cup {"nobody", "left"}
      /\ spent \in BOOLEAN /\ events \in 0..MaxEvents
  BY DEF BillingInv, TypeOK, User
<1> DEFINE T == [subs EXCEPT ![s] = new]
<1>2. T \in [Subs -> Subscription] /\ T[s] = new /\ \A t \in Subs : t # s => T[t] = subs[t]
  BY <1>1
<1>3. subs' = T /\ CallOK(q, T)
  OBVIOUS
<1> HIDE DEF T
<1>4. \A t \in Subs : InOrder(T[t]) /\ (subs[t].status # "none" => T[t].status # "none")
  BY <1>1, <1>2
<1>5. user.sub # 0 => T[user.sub].status # "none"
  BY <1>1, <1>4 DEF BillingInv
<1>6. \/ lease = c
      \/ \A t \in Subs : subs[t].status # "none" => T[t] = subs[t] \/ Lives(subs[t], T[t])
  BY <1>2
<1>7. Rest
  BY <1>1 DEF Rest
<1> QED
  BY <1>2, <1>3, <1>4, <1>5, <1>6, <1>7, CallTogether

-----------------------------------------------------------------------------
(* Stripe and its customer.                                                *)

\* An event more is still within the bound.
LEMMA EventCounts ==
  ASSUME BillingInv, Event \/ UNCHANGED events
  PROVE  events' \in 0..MaxEvents
BY BillingAssumption DEF BillingInv, TypeOK, Event

\* A subscription whose status changes.
LEMMA StatusSet ==
  ASSUME NEW sub \in Subscription, NEW x \in Statuses,
         NEW new, new = [sub EXCEPT !.status = x]
  PROVE  /\ new \in Subscription /\ new.status = x /\ new.items = sub.items
         /\ new.schedule = sub.schedule /\ new.update = sub.update
BY DEF Subscription, Statuses

\* One that is set to cancel, or no longer.
LEMMA CancelsSet ==
  ASSUME NEW sub \in Subscription, NEW x \in BOOLEAN,
         NEW new, new = [sub EXCEPT !.cancels = x]
  PROVE  /\ new \in Subscription /\ new.status = sub.status /\ new.items = sub.items
         /\ new.schedule = sub.schedule /\ new.update = sub.update
BY DEF Subscription

\* One whose schedule is replaced.
LEMMA ScheduleSet ==
  ASSUME NEW sub \in Subscription, NEW x \in Schedule,
         NEW new, new = [sub EXCEPT !.schedule = x]
  PROVE  /\ new \in Subscription /\ new.status = sub.status /\ new.items = sub.items
         /\ new.schedule = x /\ new.update = sub.update
BY DEF Subscription

\* One with an update that waits for its invoice.
LEMMA UpdateSet ==
  ASSUME NEW sub \in Subscription, NEW x \in Items \cup {NoItems},
         NEW new, new = [sub EXCEPT !.update = x]
  PROVE  /\ new \in Subscription /\ new.status = sub.status /\ new.items = sub.items
         /\ new.schedule = sub.schedule /\ new.update = x
BY DEF Subscription

\* One with other items.
LEMMA ItemsSet ==
  ASSUME NEW sub \in Subscription, NEW x \in Items \cup {NoItems},
         NEW new, new = [sub EXCEPT !.items = x]
  PROVE  /\ new \in Subscription /\ new.status = sub.status /\ new.items = x
         /\ new.schedule = sub.schedule /\ new.update = sub.update
BY DEF Subscription

\* One that ends lives on as ended.
LEMMA EndedLives ==
  ASSUME NEW sub \in Subscription, InOrder(sub), sub.status # "none", NEW new, new = Ended(sub)
  PROVE  Lives(sub, new)
<1>1. /\ new \in Subscription /\ new.status = "canceled"
      /\ new.items = sub.items /\ new.schedule = NoSchedule /\ new.update = NoItems
  BY ScheduleFacts DEF Ended, Subscription
<1> QED
  BY <1>1, UnscheduledLives

\* A subscription is written that lives on.
Written(s) == \E new : Lives(subs[s], new) /\ subs' = [subs EXCEPT ![s] = new]

\* The subscription that was written is a witness.
LEMMA WrittenBy ==
  ASSUME NEW s \in Subs, NEW sub, sub = subs[s], NEW new, Lives(sub, new),
         subs' = [subs EXCEPT ![s] = new]
  PROVE  Written(s)
BY DEF Written

\* A period ends: what was scheduled lands, or what was to cancel does.
LEMMA PeriodLives ==
  ASSUME BillingInv, NEW s \in Subs, PeriodEnds(s)
  PROVE  subs' = subs \/ Written(s)
<1>1. PICK sub : sub = subs[s]
  OBVIOUS
<1>2. sub \in Subscription /\ InOrder(sub) /\ sub.status = "active"
  BY <1>1 DEF BillingInv, TypeOK, PeriodEnds
<1>3. CASE Pending(sub.schedule) /\ Writes(s, [sub EXCEPT !.items = sub.schedule.next,
             !.schedule = [base |-> sub.schedule.next, next |-> NoItems]])
  <2>1. PICK x, y : x = sub.schedule.next /\ y = [base |-> x, next |-> NoItems]
    OBVIOUS
  <2>2. PICK new : new = [sub EXCEPT !.items = x, !.schedule = y]
    OBVIOUS
  <2>3. x \in Items
    BY <1>2, <1>3, <2>1, SubFields, ScheduleFacts
  <2>4. y \in Schedule
    BY <2>1, <2>3, ScheduleFacts
  <2>5. /\ new \in Subscription /\ new.status = sub.status /\ new.items = x
        /\ new.schedule = y /\ new.update = sub.update
    BY <1>2, <2>2, <2>3, <2>4 DEF Subscription
  <2>6. Lives(sub, new)
    BY <1>2, <1>3, <2>1, <2>5, LandedLives
  <2>7. subs' = [subs EXCEPT ![s] = new]
    BY <1>3, <2>1, <2>2 DEF Writes
  <2> QED
    BY <1>1, <2>6, <2>7, WrittenBy
<1>4. CASE /\ Attached(sub.schedule) /\ ~Pending(sub.schedule)
           /\ Writes(s, [sub EXCEPT !.items = sub.schedule.base, !.schedule = NoSchedule])
  <2>1. PICK x : x = sub.schedule.base
    OBVIOUS
  <2>2. PICK new : new = [sub EXCEPT !.items = x, !.schedule = NoSchedule]
    OBVIOUS
  <2>3. x \in Items /\ NoSchedule \in Schedule
    BY <1>2, <1>4, <2>1, SubFields, ScheduleFacts
  <2>4. /\ new \in Subscription /\ new.status = sub.status /\ new.items = x
        /\ new.schedule = NoSchedule /\ new.update = sub.update
    BY <1>2, <2>2, <2>3 DEF Subscription
  <2>5. Lives(sub, new)
    BY <1>2, <1>4, <2>1, <2>4, RestoredLives
  <2>6. subs' = [subs EXCEPT ![s] = new]
    BY <1>4, <2>1, <2>2 DEF Writes
  <2> QED
    BY <1>1, <2>5, <2>6, WrittenBy
<1>5. CASE Writes(s, Ended(sub))
  <2>1. PICK new : new = Ended(sub)
    OBVIOUS
  <2>2. Lives(sub, new)
    BY <1>2, <2>1, EndedLives
  <2> QED
    BY <1>1, <1>5, <2>1, <2>2, WrittenBy DEF Writes
<1>6. CASE UNCHANGED subs
  BY <1>6
<1> QED
  BY <1>1, <1>3, <1>4, <1>5, <1>6 DEF PeriodEnds

\* An update that waited is settled: it is paid, or it expires.
LEMMA SettleLives ==
  ASSUME BillingInv, NEW s \in Subs, UpdateSettles(s)
  PROVE  Written(s)
<1>1. PICK sub : sub = subs[s]
  OBVIOUS
<1>2. sub \in Subscription /\ InOrder(sub) /\ sub.status = "active" /\ sub.update # NoItems
  BY <1>1 DEF BillingInv, TypeOK, UpdateSettles
<1>3. PICK x : x = sub.update
  OBVIOUS
<1>4. x \in Items \cup {NoItems} /\ NoItems \in Items \cup {NoItems}
  BY <1>2, <1>3, SubFields
<1>5. CASE subs' = [subs EXCEPT ![s] = [sub EXCEPT !.items = x, !.update = NoItems]]
  <2>1. PICK new : new = [sub EXCEPT !.items = x, !.update = NoItems]
    OBVIOUS
  <2>2. /\ new \in Subscription /\ new.status = sub.status /\ new.items = x
        /\ new.schedule = sub.schedule /\ new.update = NoItems
    BY <1>2, <1>4, <2>1 DEF Subscription
  <2>3. Lives(sub, new)
    BY <1>2, <1>3, <2>2, SettledLives
  <2> QED
    BY <1>1, <1>5, <2>1, <2>3, WrittenBy
<1>6. CASE subs' = [subs EXCEPT ![s] = [sub EXCEPT !.update = NoItems]]
  <2>1. PICK new : new = [sub EXCEPT !.update = NoItems]
    OBVIOUS
  <2>2. /\ new \in Subscription /\ new.status = sub.status /\ new.items = sub.items
        /\ new.schedule = sub.schedule /\ new.update = NoItems
    BY <1>2, <1>4, <2>1, UpdateSet
  <2>3. Lives(sub, new)
    BY <1>2, <1>3, <2>2, SettledLives
  <2> QED
    BY <1>1, <1>6, <2>1, <2>3, WrittenBy
<1> QED
  BY <1>1, <1>3, <1>5, <1>6 DEF UpdateSettles, Writes

\* Whatever Stripe does by itself writes one subscription that lives on.
LEMMA StripeWrites ==
  ASSUME BillingInv, NEW s \in Subs, Stripe(s)
  PROVE  subs' = subs \/ Written(s)
<1>1. PICK sub : sub = subs[s]
  OBVIOUS
<1>2. sub \in Subscription /\ InOrder(sub)
  BY <1>1 DEF BillingInv, TypeOK
<1>5. ASSUME NEW x \in Statuses \ {"none"}, sub.status # "none",
             subs' = [subs EXCEPT ![s] = [sub EXCEPT !.status = x]]
      PROVE  Written(s)
  <2>1. PICK new : new = [sub EXCEPT !.status = x]
    OBVIOUS
  <2>2. /\ new \in Subscription /\ new.status = x /\ new.items = sub.items
        /\ new.schedule = sub.schedule /\ new.update = sub.update
    BY <1>2, <2>1, StatusSet
  <2>3. Lives(sub, new)
    BY <1>2, <1>5, <2>2, StatusLives
  <2> QED
    BY <1>1, <1>5, <2>1, <2>3, WrittenBy
<1>6. CASE Pay(s)
  <2>1. PICK x \in {"active", "incomplete"} : subs' = [subs EXCEPT ![s] = [sub EXCEPT !.status = x]]
    BY <1>1, <1>6 DEF Pay, Writes
  <2>2. sub.status = "session" /\ x \in Statuses \ {"none"}
    BY <1>1, <1>6, <2>1 DEF Pay, Statuses
  <2> QED
    BY <1>5, <2>1, <2>2
<1>7. CASE RenewalFails(s)
  <2>1. sub.status = "active" /\ "past_due" \in Statuses \ {"none"}
        /\ subs' = [subs EXCEPT ![s] = [sub EXCEPT !.status = "past_due"]]
    BY <1>1, <1>7 DEF RenewalFails, Writes, Statuses
  <2> QED
    BY <1>5, <2>1
<1>8. CASE DunningEnds(s)
  <2>1. sub.status # "none" /\ "active" \in Statuses \ {"none"}
    BY <1>1, <1>8 DEF DunningEnds, Unpaid, Statuses
  <2>2. CASE subs' = [subs EXCEPT ![s] = [sub EXCEPT !.status = "active"]]
    BY <1>5, <2>1, <2>2
  <2>3. CASE subs' = [subs EXCEPT ![s] = Ended(sub)]
    <3>1. PICK new : new = Ended(sub)
      OBVIOUS
    <3>2. Lives(sub, new)
      BY <1>2, <2>1, <3>1, EndedLives
    <3> QED
      BY <1>1, <2>3, <3>1, <3>2, WrittenBy
  <2> QED
    BY <1>1, <1>8, <2>2, <2>3 DEF DunningEnds, Writes
<1>9. CASE PeriodEnds(s)
  BY <1>9, PeriodLives
<1>10. CASE UpdateSettles(s)
  BY <1>10, SettleLives
<1>11. CASE Portal(s)
  <2>1. PICK x \in BOOLEAN : x = ~sub.cancels
    OBVIOUS
  <2>2. PICK new : new = [sub EXCEPT !.cancels = x]
    OBVIOUS
  <2>3. /\ new \in Subscription /\ new.status = sub.status /\ new.items = sub.items
        /\ new.schedule = sub.schedule /\ new.update = sub.update
    BY <1>2, <2>2, CancelsSet
  <2>4. sub.status # "none"
    BY <1>1, <1>11 DEF Portal
  <2>5. Lives(sub, new)
    BY <1>2, <2>3, <2>4, StatusLives
  <2>6. subs' = [subs EXCEPT ![s] = new]
    BY <1>1, <1>11, <2>1, <2>2 DEF Portal, Writes
  <2> QED
    BY <1>1, <2>5, <2>6, WrittenBy
<1> QED
  BY <1>6, <1>7, <1>8, <1>9, <1>10, <1>11 DEF Stripe

\* No subscription is lost to what Stripe does.
LEMMA StripeLives ==
  ASSUME BillingInv, NEW s \in Subs, Stripe(s)
  PROVE  /\ owed' = TRUE /\ UNCHANGED <<user, editors, lease, calls, spent>>
         /\ events' \in 0..MaxEvents
<1>1. owed' = TRUE /\ UNCHANGED <<user, editors, lease, calls, spent>>
  BY DEF Stripe, Pay, RenewalFails, DunningEnds, PeriodEnds, UpdateSettles, Portal, Writes
<1>2. Event \/ UNCHANGED events
  BY DEF Stripe, Pay, RenewalFails, DunningEnds, PeriodEnds, UpdateSettles, Portal
<1> QED
  BY <1>1, <1>2, EventCounts

\* What Stripe and the customer do keeps the invariant.
LEMMA StripeStep ==
  ASSUME BillingInv, NEW s \in Subs, Stripe(s)
  PROVE  BillingInv'
<1>1. /\ owed' \in BOOLEAN /\ UNCHANGED <<user, editors, lease, calls, spent>>
      /\ events' \in 0..MaxEvents
  BY StripeLives
<1>2. CASE subs' = subs
  <2>1. UNCHANGED <<subs, user, editors, lease, calls, spent>>
    BY <1>1, <1>2
  <2> QED
    BY <1>1, <2>1 DEF BillingInv, TypeOK, InOrder, Pending, Attached, Within, CallOK, Stands
<1>3. CASE Written(s)
  BY <1>1, <1>3, StripeTogether DEF Written
<1> QED
  BY <1>2, <1>3, StripeWrites

-----------------------------------------------------------------------------
(* What runs.                                                              *)

\* A call under the invariant.
LEMMA Here ==
  ASSUME BillingInv, NEW c \in Calls
  PROVE  /\ subs \in [Subs -> Subscription] /\ user \in User /\ calls \in [Calls -> Call]
         /\ calls[c] \in Call /\ CallOK(calls[c], subs) /\ (calls[c].step \in Leasing => lease = c)
         /\ owed \in BOOLEAN /\ editors \in SUBSET People /\ spent \in BOOLEAN
         /\ lease \in Calls \cup {"nobody", "left"} /\ events \in 0..MaxEvents
         /\ user.sub \in Subs \cup {0} /\ (user.sub # 0 => subs[user.sub].status # "none")
         /\ \A s \in Subs : subs[s] \in Subscription /\ InOrder(subs[s])
         /\ calls[c].view.sub # 0 => subs[calls[c].view.sub].status # "none"
BY DEF BillingInv, TypeOK, User, CallOK

\* A call goes on with nothing to stand for, or is over.
Light == Steps \ (Leasing \cup {"create"})

\* There is nothing to know for a call that stands for nothing.
LEMMA LightStands ==
  ASSUME NEW q, NEW S, q.step \in Light, q.view.sub # 0 => S[q.view.sub].status # "none"
  PROVE  CallOK(q, S) /\ q.step \notin Leasing
BY DEF CallOK, Light, Leasing

\* It goes on.
LEMMA GoStep ==
  ASSUME BillingInv, NEW c \in Calls, NEW x \in Light, Go(c, x), UNCHANGED subs, Rest,
         user'.sub # 0 => subs[user'.sub].status # "none",
         lease' = lease \/ lease \in {c, "nobody", "left"}
  PROVE  BillingInv'
<1>1. PICK q : q = [calls[c] EXCEPT !.step = x]
  OBVIOUS
<1>2. x \in Steps /\ calls[c] \in Call
  BY Here DEF Light
<1>3. q \in Call /\ q.step = x /\ q.view = calls[c].view
  BY <1>1, <1>2, StepSet DEF Same
<1>4. calls' = [calls EXCEPT ![c] = q]
  BY <1>1 DEF Go
<1>5. CallOK(q, subs) /\ q.step \notin Leasing
  BY <1>3, Here, LightStands
<1> QED
  BY <1>3, <1>4, <1>5, CallAlone

\* It ends.
LEMMA EndsStep ==
  ASSUME BillingInv, NEW c \in Calls, Ends(c), UNCHANGED subs, Rest,
         user'.sub # 0 => subs[user'.sub].status # "none",
         lease' = lease \/ lease \in {c, "nobody", "left"}
  PROVE  BillingInv'
<1>1. IdleCall \in Call /\ IdleCall.step \in Light /\ IdleCall.view.sub = 0
  BY IdleFacts, ViewFields DEF Light, Steps, Leasing, Changing
<1>2. CallOK(IdleCall, subs) /\ IdleCall.step \notin Leasing
  BY <1>1, LightStands
<1> QED
  BY <1>1, <1>2, CallAlone DEF Ends

\* A step that leaves all but the calls.
LEMMA AsItWas ==
  ASSUME BillingInv, UNCHANGED <<owed, user, editors, lease, spent>>, events' \in 0..MaxEvents
  PROVE  Rest
BY DEF BillingInv, TypeOK, Rest

\* A call begins.
LEMMA StartStep ==
  ASSUME BillingInv, NEW c \in Calls, NEW q \in Call, Starts(c, q), q.view = NoView,
         q.step \in Light \cup {"load", "find", "create"},
         q.step = "create" \/ (q.step = "load" /\ q.kind = "plan") => q.target \in Items,
         q.step \in Leasing => lease' = c,
         UNCHANGED <<subs, user, editors, spent>>, owed' \in BOOLEAN, events' \in 0..MaxEvents,
         lease' = lease \/ (lease = "nobody" /\ lease' = c)
  PROVE  BillingInv'
<1>1. q.view.sub = 0
  BY ViewFields
<1>2. CallOK(q, subs)
  BY <1>1 DEF CallOK, Light, Leasing, Changing
<1>3. Rest
  BY Here DEF Rest
<1>4. user'.sub # 0 => subs[user'.sub].status # "none"
  BY Here
<1>5. /\ calls' = [calls EXCEPT ![c] = q] /\ subs' = subs
      /\ lease' = lease \/ lease \in {c, "nobody", "left"}
  BY DEF Starts
<1> QED
  BY <1>2, <1>3, <1>4, <1>5, CallAlone

\* A notification begins a call.
LEMMA DeliverStep ==
  ASSUME BillingInv, NEW c \in Calls, Deliver(c)
  PROVE  BillingInv'
<1>1. PICK q : q = [IdleCall EXCEPT !.kind = "webhook", !.step = "sync"]
  OBVIOUS
<1>2. q \in Call /\ q.step = "sync" /\ q.view = NoView
  BY <1>1, IdleFacts DEF Call, Kinds, Steps
<1>3. q.step \in Light /\ q.step \notin Leasing /\ q.step # "create"
  BY <1>2 DEF Light, Steps, Leasing, Changing
<1>4. /\ Starts(c, q) /\ UNCHANGED <<subs, user, editors, lease, spent, events>>
      /\ owed' \in BOOLEAN
  BY <1>1 DEF Deliver
<1>5. events' \in 0..MaxEvents
  BY <1>4, EventCounts
<1> QED
  BY <1>2, <1>3, <1>4, <1>5, StartStep

\* A Checkout is asked for.
LEMMA CheckoutAskStep ==
  ASSUME BillingInv, NEW c \in Calls, CheckoutAsk(c)
  PROVE  BillingInv'
<1>1. PICK plan \in Plans :
        Starts(c, [IdleCall EXCEPT !.kind = "checkout", !.step = "create",
                                   !.target = [plan |-> plan, blocks |-> 0]])
  BY DEF CheckoutAsk
<1>2. PICK t : t = [plan |-> plan, blocks |-> 0]
  OBVIOUS
<1>3. t \in Items /\ t \in Targets
  BY <1>2, BillingAssumption DEF Items, Targets
<1>4. PICK q : q = [IdleCall EXCEPT !.kind = "checkout", !.step = "create", !.target = t]
  OBVIOUS
<1>5. q \in Call /\ q.step = "create" /\ q.view = NoView /\ q.target = t
  BY <1>3, <1>4, IdleFacts DEF Call, Kinds, Steps, Targets
<1>6. q.step \notin Leasing
  BY <1>5 DEF Leasing, Changing
<1>7. Starts(c, q)
  BY <1>1, <1>2, <1>4
<1>8. UNCHANGED <<subs, owed, user, editors, lease, spent>> /\ events' \in 0..MaxEvents
      /\ owed' \in BOOLEAN
  BY EventCounts, Here DEF CheckoutAsk
<1> QED
  BY <1>3, <1>5, <1>6, <1>7, <1>8, StartStep

\* An editor is asked for.
LEMMA AddCheckStep ==
  ASSUME BillingInv, NEW c \in Calls, AddCheck(c)
  PROVE  BillingInv'
<1>1. PICK p \in People :
        Starts(c, [IdleCall EXCEPT !.kind = "add", !.step = "admit", !.people = {p}])
  BY DEF AddCheck
<1>2. PICK q : q = [IdleCall EXCEPT !.kind = "add", !.step = "admit", !.people = {p}]
  OBVIOUS
<1>3. {p} \in SUBSET People
  OBVIOUS
<1>4. q \in Call /\ q.step = "admit" /\ q.view = NoView
  BY <1>2, <1>3, IdleFacts DEF Call, Kinds, Steps
<1>5. q.step \in Light /\ q.step \notin Leasing /\ q.step # "create"
  BY <1>4 DEF Light, Steps, Leasing, Changing
<1>6. UNCHANGED <<subs, owed, user, editors, lease, spent>> /\ events' \in 0..MaxEvents
      /\ owed' \in BOOLEAN
  BY EventCounts, Here DEF AddCheck
<1> QED
  BY <1>1, <1>2, <1>4, <1>5, <1>6, StartStep

\* A cancellation is asked for.
LEMMA CancelBeginStep ==
  ASSUME BillingInv, NEW c \in Calls, CancelBegin(c)
  PROVE  BillingInv'
<1>1. PICK q : q = [IdleCall EXCEPT !.kind = "cancel", !.step = "find"]
  OBVIOUS
<1>2. q \in Call /\ q.step = "find" /\ q.view = NoView
  BY <1>1, IdleFacts DEF Call, Kinds, Steps
<1>3. Starts(c, q) /\ lease = "nobody" /\ lease' = c
  BY <1>1 DEF CancelBegin, Claims
<1>4. UNCHANGED <<subs, owed, user, editors, spent>> /\ events' \in 0..MaxEvents
      /\ owed' \in BOOLEAN
  BY EventCounts, Here DEF CancelBegin
<1> QED
  BY <1>2, <1>3, <1>4, StartStep

\* A change is asked for, if the lease is free.
LEMMA ChangeBeginStep ==
  ASSUME BillingInv, NEW c \in Calls, ChangeBegin(c)
  PROVE  BillingInv'
<1>1. PICK plan \in Plans, n \in 0..MaxBlocks :
         \/ Starts(c, [IdleCall EXCEPT !.kind = "plan", !.step = "load",
                                       !.target = [plan |-> plan, blocks |-> 0]])
         \/ Starts(c, [IdleCall EXCEPT !.kind = "blocks", !.step = "load",
                                       !.target = [plan |-> "NONE", blocks |-> n]])
         \/ Starts(c, [IdleCall EXCEPT !.kind = "undo", !.step = "load"])
  BY DEF ChangeBegin
<1>2. \E q : /\ q \in Call /\ q.step = "load" /\ q.view = NoView /\ Starts(c, q)
             /\ q.kind = "plan" => q.target \in Items
  <2>1. CASE Starts(c, [IdleCall EXCEPT !.kind = "plan", !.step = "load",
                                        !.target = [plan |-> plan, blocks |-> 0]])
    <3>1. PICK t : t = [plan |-> plan, blocks |-> 0]
      OBVIOUS
    <3>2. t \in Targets /\ t \in Items
      BY <3>1, BillingAssumption DEF Items, Targets
    <3>3. PICK q : q = [IdleCall EXCEPT !.kind = "plan", !.step = "load", !.target = t]
      OBVIOUS
    <3>4. q \in Call /\ q.step = "load" /\ q.view = NoView /\ q.target = t
      BY <3>2, <3>3, IdleFacts DEF Call, Kinds, Steps, Targets
    <3> QED
      BY <2>1, <3>2, <3>1, <3>3, <3>4
  <2>2. CASE Starts(c, [IdleCall EXCEPT !.kind = "blocks", !.step = "load",
                                        !.target = [plan |-> "NONE", blocks |-> n]])
    <3>1. PICK t : t = [plan |-> "NONE", blocks |-> n]
      OBVIOUS
    <3>2. t \in Targets
      BY <3>1 DEF Targets
    <3>3. PICK q : q = [IdleCall EXCEPT !.kind = "blocks", !.step = "load", !.target = t]
      OBVIOUS
    <3>4. q \in Call /\ q.step = "load" /\ q.view = NoView /\ q.kind = "blocks"
      BY <3>2, <3>3, IdleFacts DEF Call, Kinds, Steps, Targets
    <3> QED
      BY <2>2, <3>1, <3>3, <3>4
  <2>3. CASE Starts(c, [IdleCall EXCEPT !.kind = "undo", !.step = "load"])
    <3>1. PICK q : q = [IdleCall EXCEPT !.kind = "undo", !.step = "load"]
      OBVIOUS
    <3>2. q \in Call /\ q.step = "load" /\ q.view = NoView /\ q.kind = "undo"
      BY <3>1, IdleFacts DEF Call, Kinds, Steps
    <3> QED
      BY <2>3, <3>1, <3>2
  <2> QED
    BY <1>1, <2>1, <2>2, <2>3
<1>3. lease = "nobody" /\ lease' = c
  BY DEF ChangeBegin, Claims
<1>4. UNCHANGED <<subs, owed, user, editors, spent>> /\ events' \in 0..MaxEvents
      /\ owed' \in BOOLEAN
  BY EventCounts, Here DEF ChangeBegin
<1> QED
  BY <1>2, <1>3, <1>4, StartStep

\* syncStripeCustomerSubscriptions lists under the lock.
LEMMA SyncListStep ==
  ASSUME BillingInv, NEW c \in Calls, SyncList(c)
  PROVE  BillingInv'
<1>1. PICK v : v = Provider
  OBVIOUS
<1>2. v \in View /\ (v.sub # 0 => subs[v.sub].status # "none")
  BY <1>1, ProviderFacts DEF BillingInv
<1>3. PICK q : q = [calls[c] EXCEPT !.step = "listed", !.view = v]
  OBVIOUS
<1>4. q \in Call /\ q.step = "listed" /\ q.view = v
  <2>1. calls[c] \in Call
    BY Here
  <2> QED
    BY <1>2, <1>3, <2>1 DEF Call, Steps
<1>5. q.step \in Light
  BY <1>4 DEF Light, Steps, Leasing, Changing
<1>6. CallOK(q, subs) /\ q.step \notin Leasing
  BY <1>2, <1>4, <1>5, LightStands
<1>7. calls' = [calls EXCEPT ![c] = q]
  BY <1>1, <1>3 DEF SyncList
<1>8. UNCHANGED <<subs, owed, user, editors, lease, spent, events>>
  BY DEF SyncList
<1>9. Rest /\ (user'.sub # 0 => subs[user'.sub].status # "none")
  BY <1>8, Here, AsItWas
<1> QED
  BY <1>4, <1>6, <1>7, <1>8, <1>9, CallAlone

\* It reads the row.
LEMMA SyncReadStep ==
  ASSUME BillingInv, NEW c \in Calls, SyncRead(c)
  PROVE  BillingInv'
<1>1. PICK q : q = [calls[c] EXCEPT !.step = "read", !.trial = user.trial]
  OBVIOUS
<1>2. user.trial \in BOOLEAN
  BY Here DEF User
<1>3. q \in Call /\ q.step = "read" /\ q.view = calls[c].view
  <2>1. calls[c] \in Call
    BY Here
  <2> QED
    BY <1>1, <1>2, <2>1 DEF Call, Steps
<1>4. q.step \in Light
  BY <1>3 DEF Light, Steps, Leasing, Changing
<1>5. CallOK(q, subs) /\ q.step \notin Leasing
  BY <1>3, <1>4, Here, LightStands
<1>6. calls' = [calls EXCEPT ![c] = q]
  BY <1>1 DEF SyncRead
<1>7. UNCHANGED <<subs, owed, user, editors, lease, spent, events>>
  BY DEF SyncRead
<1>8. Rest /\ (user'.sub # 0 => subs[user'.sub].status # "none")
  BY <1>7, Here, AsItWas
<1> QED
  BY <1>3, <1>5, <1>6, <1>7, <1>8, CallAlone

\* What the mirror writes to the row is a row.
LEMMA MirroredFacts ==
  ASSUME user \in User, NEW v \in View, NEW trial \in BOOLEAN, NEW u, u = Mirrored(v, trial)
  PROVE  /\ u \in User /\ u.sub = v.sub /\ u.status = v.status /\ u.blocks = v.blocks
         /\ u.plan = IF v.plan = "NONE" THEN user.plan ELSE v.plan
<1>1. PICK plan \in Plans : plan = IF v.plan = "NONE" THEN user.plan ELSE v.plan
  BY ViewFields DEF User
<1>2. PICK founding \in Subs \cup {0} : founding = IF KeepsFounding(v) THEN user.founding ELSE 0
  BY DEF User
<1>3. u = [user EXCEPT !.sub = v.sub, !.status = v.status, !.blocks = v.blocks,
                       !.cancels = v.cancels, !.plan = plan, !.pending = v.pending,
                       !.founding = founding, !.trial = trial]
  BY <1>1, <1>2 DEF Mirrored, User
<1>4. /\ v.sub \in Subs \cup {0} /\ v.blocks \in 0..MaxBlocks /\ v.cancels \in BOOLEAN
      /\ v.pending \in Plans \cup {"NONE"}
      /\ v.status \in {"FREE", "INCOMPLETE", "ACTIVE", "PAST_DUE", "CANCELED"}
  BY ViewFields
<1>5. u \in User
  BY <1>1, <1>2, <1>3, <1>4 DEF User
<1>6. u.sub = v.sub /\ u.status = v.status /\ u.blocks = v.blocks /\ u.plan = plan
  BY <1>3 DEF User
<1> QED
  BY <1>1, <1>5, <1>6

\* It writes the mirror.
LEMMA SyncWriteStep ==
  ASSUME BillingInv, NEW c \in Calls, SyncWrite(c)
  PROVE  BillingInv'
<1>1. PICK v, trial : v = calls[c].view /\ trial = calls[c].trial
  OBVIOUS
<1>2. v \in View /\ trial \in BOOLEAN /\ (v.sub # 0 => subs[v.sub].status # "none")
  BY <1>1, Here, CallFields
<1>3. user' = Mirrored(v, trial)
  BY <1>1 DEF SyncWrite
<1>4. user' \in User /\ user'.sub = v.sub
  BY <1>2, <1>3, Here, MirroredFacts
<1>5. editors' \in SUBSET People
  BY Here DEF SyncWrite, Demoted
<1>6. UNCHANGED <<subs, owed, lease, spent, events>>
  BY DEF SyncWrite
<1>7. Rest
  BY <1>4, <1>5, <1>6, Here DEF Rest
<1>8. "return" \in Light
  BY DEF Light, Steps, Leasing, Changing
<1> QED
  BY <1>2, <1>4, <1>6, <1>7, <1>8, GoStep, EndsStep DEF SyncWrite

\* It fails.
LEMMA SyncFailsStep ==
  ASSUME BillingInv, NEW c \in Calls, SyncFails(c)
  PROVE  BillingInv'
<1>1. UNCHANGED <<subs, user, editors, lease, spent>> /\ owed' \in BOOLEAN
  BY Here DEF SyncFails
<1>2. events' \in 0..MaxEvents
  BY EventCounts DEF SyncFails
<1>3. Rest /\ (user'.sub # 0 => subs[user'.sub].status # "none")
  BY <1>1, <1>2, Here DEF Rest
<1>4. "return" \in Light
  BY DEF Light, Steps, Leasing, Changing
<1> QED
  BY <1>1, <1>3, <1>4, GoStep, EndsStep DEF SyncFails

\* The mark and the claim on the row.
LEMMA PendingSet ==
  ASSUME user \in User, NEW p \in Plans \cup {"NONE"}, NEW u, u = [user EXCEPT !.pending = p]
  PROVE  /\ u \in User /\ u.sub = user.sub /\ u.status = user.status /\ u.plan = user.plan
         /\ u.blocks = user.blocks
BY DEF User

\* A user whose subscription is to cancel, or no longer.
LEMMA ClaimSet ==
  ASSUME user \in User, NEW b \in BOOLEAN, NEW u, u = [user EXCEPT !.cancels = b]
  PROVE  /\ u \in User /\ u.sub = user.sub /\ u.status = user.status /\ u.plan = user.plan
         /\ u.blocks = user.blocks
BY DEF User

\* Whatever else a call does to the row, it leaves what gives access.
SameAccess ==
  /\ user' \in User /\ user'.sub = user.sub /\ user'.status = user.status
  /\ user'.plan = user.plan /\ user'.blocks = user.blocks

\* Marks and claims are not what gives access.
LEMMA MarksOnly ==
  ASSUME BillingInv, NEW c \in Calls,
         Mark(c) \/ Clear(c) \/ ScheduleFails(c) \/ CancelClaim(c) \/ CancelFails(c)
  PROVE  SameAccess
<1>1. user \in User /\ calls[c].previous \in Plans \cup {"NONE"} /\ "SOLO" \in Plans
  BY Here, CallFields DEF Plans
<1>2. CASE UNCHANGED user
  BY <1>1, <1>2 DEF SameAccess
<1>3. ASSUME NEW p \in Plans \cup {"NONE"}, user' = [user EXCEPT !.pending = p] PROVE SameAccess
  BY <1>1, <1>3, PendingSet DEF SameAccess
<1>4. ASSUME NEW b \in BOOLEAN, user' = [user EXCEPT !.cancels = b] PROVE SameAccess
  BY <1>1, <1>4, ClaimSet DEF SameAccess
<1>5. CASE Mark(c) \/ Clear(c)
  BY <1>1, <1>3, <1>5 DEF Mark, Clear
<1>6. CASE ScheduleFails(c)
  BY <1>1, <1>2, <1>3, <1>6 DEF ScheduleFails
<1>7. CASE CancelClaim(c) \/ CancelFails(c)
  BY <1>2, <1>4, <1>7 DEF CancelClaim, CancelFails
<1> QED
  BY <1>5, <1>6, <1>7

\* A mark or a claim leaves which subscription the account has.
LEMMA RestKept ==
  ASSUME BillingInv, SameAccess, UNCHANGED <<owed, editors, spent>>, events' \in 0..MaxEvents,
         lease' \in Calls \cup {"nobody", "left"}
  PROVE  Rest /\ (user'.sub # 0 => subs[user'.sub].status # "none")
BY DEF BillingInv, TypeOK, Rest, SameAccess

\* A downgrade is marked.
LEMMA MarkStep ==
  ASSUME BillingInv, NEW c \in Calls, Mark(c)
  PROVE  BillingInv'
<1>1. PICK q : q = [calls[c] EXCEPT !.step = "schedule", !.marked = TRUE, !.previous = user.pending]
  OBVIOUS
<1>2. user.pending \in Plans \cup {"NONE"}
  BY Here DEF User
<1>3. /\ q \in Call /\ q.step = "schedule" /\ q.view = calls[c].view /\ q.sub = calls[c].sub
      /\ q.seen = calls[c].seen /\ q.target = calls[c].target
  <2>1. calls[c] \in Call
    BY Here
  <2> QED
    BY <1>1, <1>2, <2>1 DEF Call, Steps
<1>4. calls[c].step = "mark" /\ lease = c
  BY Here DEF Mark, At, Leasing, Changing
<1>5. CallOK(q, subs)
  BY <1>3, <1>4, Here DEF CallOK, Changing, Stands
<1>6. calls' = [calls EXCEPT ![c] = q]
  BY <1>1 DEF Mark
<1>7. UNCHANGED <<subs, owed, editors, lease, spent, events>>
  BY DEF Mark
<1>8. Rest /\ (user'.sub # 0 => subs[user'.sub].status # "none")
  BY <1>7, Here, MarksOnly, RestKept
<1> QED
  BY <1>3, <1>4, <1>5, <1>6, <1>7, <1>8, CallAlone

\* The mark is cleared.
LEMMA ClearStep ==
  ASSUME BillingInv, NEW c \in Calls, Clear(c)
  PROVE  BillingInv'
<1>1. UNCHANGED <<subs, owed, editors, lease, spent, events>> /\ Go(c, "sync")
  BY DEF Clear
<1>2. Rest /\ (user'.sub # 0 => subs[user'.sub].status # "none")
  BY <1>1, Here, MarksOnly, RestKept
<1>3. "sync" \in Light
  BY DEF Light, Steps, Leasing, Changing
<1> QED
  BY <1>1, <1>2, <1>3, GoStep

\* A schedule that fails gives its mark back.
LEMMA ScheduleFailsStep ==
  ASSUME BillingInv, NEW c \in Calls, ScheduleFails(c)
  PROVE  BillingInv'
<1>1. UNCHANGED <<subs, owed, editors, lease, spent>> /\ Go(c, "return")
  BY DEF ScheduleFails
<1>2. events' \in 0..MaxEvents
  BY EventCounts DEF ScheduleFails
<1>3. Rest /\ (user'.sub # 0 => subs[user'.sub].status # "none")
  BY <1>1, <1>2, Here, MarksOnly, RestKept
<1>4. "return" \in Light
  BY DEF Light, Steps, Leasing, Changing
<1> QED
  BY <1>1, <1>3, <1>4, GoStep

\* A cancellation that fails gives its claim back.
LEMMA CancelFailsStep ==
  ASSUME BillingInv, NEW c \in Calls, CancelFails(c)
  PROVE  BillingInv'
<1>1. UNCHANGED <<subs, owed, editors, lease, spent>> /\ Go(c, "sync")
  BY DEF CancelFails
<1>2. events' \in 0..MaxEvents
  BY EventCounts DEF CancelFails
<1>3. Rest /\ (user'.sub # 0 => subs[user'.sub].status # "none")
  BY <1>1, <1>2, Here, MarksOnly, RestKept
<1>4. "sync" \in Light
  BY DEF Light, Steps, Leasing, Changing
<1> QED
  BY <1>1, <1>3, <1>4, GoStep

\* A cancellation claims the row.
LEMMA CancelClaimStep ==
  ASSUME BillingInv, NEW c \in Calls, CancelClaim(c)
  PROVE  BillingInv'
<1>1. UNCHANGED <<subs, owed, editors, lease, spent, events>>
  BY DEF CancelClaim
<1>2. Rest /\ (user'.sub # 0 => subs[user'.sub].status # "none")
  BY <1>1, Here, MarksOnly, RestKept
<1>3. CASE Go(c, "return")
  <2>1. "return" \in Light
    BY DEF Light, Steps, Leasing, Changing
  <2> QED
    BY <1>1, <1>2, <1>3, <2>1, GoStep
<1>4. CASE calls' = [calls EXCEPT ![c].step = "stop", ![c].marked = TRUE]
  <2>1. PICK q : q = [calls[c] EXCEPT !.step = "stop", !.marked = TRUE]
    OBVIOUS
  <2>2. /\ q \in Call /\ q.step = "stop" /\ q.view = calls[c].view /\ q.sub = calls[c].sub
    <3>1. calls[c] \in Call
      BY Here
    <3> QED
      BY <2>1, <3>1 DEF Call, Steps
  <2>3. calls[c].step = "claim" /\ lease = c
    BY Here DEF CancelClaim, At, Leasing, Changing
  <2>4. CallOK(q, subs)
    BY <2>2, <2>3, Here DEF CallOK, Changing
  <2>5. calls' = [calls EXCEPT ![c] = q]
    BY <1>4, <2>1
  <2> QED
    BY <1>1, <1>2, <2>2, <2>3, <2>4, <2>5, CallAlone
<1> QED
  BY <1>3, <1>4 DEF CancelClaim

\* The lease is let go and the request answered.
LEMMA ReturnStep ==
  ASSUME BillingInv, NEW c \in Calls, Return(c)
  PROVE  BillingInv'
<1>1. UNCHANGED <<subs, owed, user, editors, spent, events>> /\ Ends(c)
      /\ lease' = IF lease = c THEN "nobody" ELSE lease
  BY DEF Return
<1>2. Rest /\ (user'.sub # 0 => subs[user'.sub].status # "none")
  BY <1>1, Here DEF Rest
<1> QED
  BY <1>1, <1>2, EndsStep

\* A call dies.
LEMMA CrashStep ==
  ASSUME BillingInv, NEW c \in Calls, Crash(c)
  PROVE  BillingInv'
<1>1. /\ UNCHANGED <<subs, user, editors, spent>> /\ Ends(c) /\ owed' \in BOOLEAN
      /\ lease' = IF lease = c THEN "left" ELSE lease
  BY Here DEF Crash
<1>2. events' \in 0..MaxEvents
  BY EventCounts DEF Crash
<1>3. Rest /\ (user'.sub # 0 => subs[user'.sub].status # "none")
  BY <1>1, <1>2, Here DEF Rest
<1> QED
  BY <1>1, <1>3, EndsStep

\* A place is taken: the role is written.
LEMMA AddCommitStep ==
  ASSUME BillingInv, NEW c \in Calls, AddCommit(c)
  PROVE  BillingInv'
<1>1. UNCHANGED <<subs, owed, user, lease, spent, events>> /\ Ends(c)
      /\ editors' = editors \cup calls[c].people
  BY DEF AddCommit
<1>2. editors' \in SUBSET People
  BY <1>1, Here, CallFields
<1>3. Rest /\ (user'.sub # 0 => subs[user'.sub].status # "none")
  BY <1>1, <1>2, Here DEF Rest
<1> QED
  BY <1>1, <1>3, EndsStep

\* Neither a call nor Stripe.
LEMMA OtherStep ==
  ASSUME BillingInv, StartTrial \/ TrialEnds \/ LeaseLapses \/ \E p \in People : Remove(p)
  PROVE  BillingInv'
<1>1. UNCHANGED <<subs, calls, owed, events>>
  BY DEF StartTrial, TrialEnds, LeaseLapses, Remove
<1>2. user' \in User /\ user'.sub = user.sub
  <2>1. user \in User
    BY DEF BillingInv, TypeOK
  <2> QED
    BY <2>1 DEF StartTrial, TrialEnds, LeaseLapses, Remove, User
<1>3. editors' \in SUBSET People /\ spent' \in BOOLEAN
  BY DEF StartTrial, TrialEnds, LeaseLapses, Remove, BillingInv, TypeOK
<1>4. lease' = lease \/ (lease = "left" /\ lease' = "nobody")
  BY DEF StartTrial, TrialEnds, LeaseLapses, Remove
<1>5. Rest
  BY <1>1, <1>2, <1>3, <1>4 DEF BillingInv, TypeOK, Rest
<1>6. \A c \in Calls : CallOK(calls[c], subs) /\ (calls[c].step \in Leasing => lease' = c)
  BY <1>4, BillingAssumption DEF BillingInv
<1>7. /\ subs \in [Subs -> Subscription] /\ \A s \in Subs : InOrder(subs[s])
      /\ user.sub # 0 => subs[user.sub].status # "none"
      /\ calls \in [Calls -> Call]
  BY DEF BillingInv, TypeOK
<1> QED
  BY <1>1, <1>2, <1>5, <1>6, <1>7, Together

-----------------------------------------------------------------------------
(* Changes.                                                                *)

\* Where a change goes: what is charged at once is more than today and stands beside
\* nothing that is scheduled, what is scheduled is at most what there is.
LEMMA RouteFacts ==
  ASSUME NEW sub \in Subscription, InOrder(sub), sub.status # "none",
         NEW kind \in {"plan", "blocks", "undo"}, NEW want \in Targets,
         kind = "plan" => want \in Items, NEW r, r = Route(kind, want, sub)
  PROVE  /\ r.step \in {"return", "release", "charge", "mark", "schedule"}
         /\ r.target \in Items
         /\ r.step = "charge" => ~Pending(sub.schedule) /\ Within(sub.items, r.target)
         /\ r.step \in {"mark", "schedule"} => Within(r.target, sub.items)
<1>1. PICK base : base = baseTarget(sub)
  OBVIOUS
<1>2. sub.items \in Items
  BY DEF InOrder
<1>3. /\ base \in Items /\ Within(base, sub.items)
      /\ ~Pending(sub.schedule) => base = sub.items
  <2>1. CASE Pending(sub.schedule)
    BY <1>1, <2>1, SubFields, ScheduleFacts DEF baseTarget, InOrder
  <2>2. CASE ~Pending(sub.schedule)
    BY <1>1, <1>2, <2>2, WithinItself DEF baseTarget
  <2> QED
    BY <2>1, <2>2
<1>4. want.blocks \in 0..MaxBlocks
  BY ItemFacts DEF Targets
<1>5. PICK target : target = IF kind = "plan" THEN [plan |-> want.plan, blocks |-> base.blocks]
                                              ELSE [plan |-> base.plan, blocks |-> want.blocks]
  OBVIOUS
<1>6. /\ sub.items.plan \in Plans /\ sub.items.blocks \in Nat
      /\ base.plan \in Plans /\ base.blocks \in 0..MaxBlocks /\ base.blocks \in Nat
      /\ want.blocks \in Nat /\ (kind = "plan" => want.plan \in Plans)
  BY <1>2, <1>3, <1>4, ItemFacts, BillingAssumption
<1>7. /\ target \in Items
      /\ target.plan = IF kind = "plan" THEN want.plan ELSE base.plan
      /\ target.blocks = IF kind = "plan" THEN base.blocks ELSE want.blocks
  BY <1>4, <1>5, <1>6 DEF Items
<1> DEFINE more == IF kind = "plan" THEN isPlanUpgrade(sub.items.plan, want.plan)
                                    ELSE want.blocks > sub.items.blocks
<1>9. ~more => Within(target, sub.items)
  <2>1. CASE kind = "plan"
    BY <1>3, <1>6, <1>7, <2>1 DEF Within
  <2>2. CASE kind # "plan"
    BY <1>3, <1>6, <1>7, <2>2 DEF Within
  <2> QED
    BY <2>1, <2>2
<1>10. more /\ ~Pending(sub.schedule) => Within(sub.items, target)
  BY <1>3, <1>6, <1>7 DEF Within, isPlanUpgrade
<1>11. r.target = IF kind = "undo" THEN sub.items ELSE target
  BY <1>1, <1>5 DEF Route
<1>12. /\ r.step \in {"return", "release", "charge", "mark", "schedule"}
       /\ r.step = "charge" => kind # "undo" /\ more /\ ~Pending(sub.schedule)
       /\ r.step \in {"mark", "schedule"} => kind # "undo" /\ ~more
  <2> DEFINE same == IF kind = "plan" THEN want.plan = sub.items.plan /\ ~Pending(sub.schedule)
                     ELSE want.blocks = base.blocks /\ want.blocks = sub.items.blocks
  <2>1. r.step = CASE kind = "undo" -> IF Attached(sub.schedule) THEN "release" ELSE "return"
                   [] kind # "undo" /\ (same \/ (more /\ Pending(sub.schedule))) -> "return"
                   [] kind # "undo" /\ more /\ ~Pending(sub.schedule) -> "charge"
                   [] kind # "undo" /\ ~same /\ ~more /\ target = sub.items -> "release"
                   [] kind = "plan" /\ ~more /\ isPlanUpgrade(want.plan, sub.items.plan) -> "mark"
                   [] OTHER -> "schedule"
    BY <1>1, <1>5 DEF Route
  <2> HIDE DEF same, more
  <2> QED
    BY <2>1
<1> QED
  BY <1>2, <1>7, <1>9, <1>10, <1>11, <1>12

\* A change reads the subscription and takes its route.
LEMMA ChangeLoadStep ==
  ASSUME BillingInv, NEW c \in Calls, ChangeLoad(c)
  PROVE  BillingInv'
<1>1. UNCHANGED <<subs, owed, user, editors, lease, spent, events>>
  BY DEF ChangeLoad
<1>2. Rest /\ (user'.sub # 0 => subs[user'.sub].status # "none")
  BY <1>1, Here, AsItWas
<1>3. CASE Go(c, "return")
  <2>1. "return" \in Light
    BY DEF Light, Steps, Leasing, Changing
  <2> QED
    BY <1>1, <1>2, <1>3, <2>1, GoStep
<1>4. CASE ~Go(c, "return")
  <2>1. PICK old, s, sub : old = calls[c] /\ s = user.sub /\ sub = subs[s]
    OBVIOUS
  <2>2. PICK r : r = Route(old.kind, old.target, sub)
    OBVIOUS
  <2>3. Changeable /\ calls' = [calls EXCEPT ![c].step = r.step, ![c].sub = s, ![c].seen = sub,
                                             ![c].target = r.target]
    BY <1>4, <2>1, <2>2 DEF ChangeLoad
  <2>4. old \in Call /\ CallOK(old, subs) /\ old.step = "load" /\ lease = c
        /\ old.kind \in {"plan", "blocks", "undo"}
    BY <2>1, Here DEF ChangeLoad, Is, Leasing
  <2>5. s \in Subs /\ sub \in Subscription /\ InOrder(sub) /\ sub.status = "active"
        /\ sub.update = NoItems
    BY <2>1, <2>3, Here DEF Changeable
  <2>6. old.target \in Targets /\ (old.kind = "plan" => old.target \in Items)
    BY <2>4, CallFields DEF CallOK
  <2>7. /\ r.step \in {"return", "release", "charge", "mark", "schedule"}
        /\ r.target \in Items
        /\ r.step = "charge" => ~Pending(sub.schedule) /\ Within(sub.items, r.target)
        /\ r.step \in {"mark", "schedule"} => Within(r.target, sub.items)
    BY <2>2, <2>4, <2>5, <2>6, RouteFacts
  <2>8. PICK x, t : x = r.step /\ t = r.target
    OBVIOUS
  <2>9. PICK q : q = [old EXCEPT !.step = x, !.sub = s, !.seen = sub, !.target = t]
    OBVIOUS
  <2>10. x \in Steps /\ t \in Targets
    BY <2>7, <2>8 DEF Steps, Targets
  <2>11. q \in Call
    BY <2>4, <2>5, <2>9, <2>10 DEF Call, Targets
  <2>12. q.step = x /\ q.sub = s /\ q.seen = sub /\ q.target = t /\ q.view = old.view
    BY <2>4, <2>9 DEF Call
  <2>13. sub.items \in Items
    BY <2>5 DEF InOrder
  <2>14. Within(sub.items, sub.items)
    BY <2>13, WithinItself
  <2>15. q.step \in Changing => Stands(q, sub)
    BY <2>5, <2>7, <2>8, <2>12, <2>13, <2>14 DEF Stands, Changing
  <2>16. q.step # "create" /\ q.step # "load"
    BY <2>7, <2>8, <2>12
  <2>17. CallOK(q, subs)
    BY <2>1, <2>4, <2>5, <2>12, <2>15, <2>16 DEF CallOK
  <2>18. calls' = [calls EXCEPT ![c] = q]
    BY <2>1, <2>3, <2>8, <2>9
  <2> QED
    BY <1>1, <1>2, <2>4, <2>11, <2>17, <2>18, CallAlone
<1> QED
  BY <1>3, <1>4

\* What a step of a change knows of its subscription.
LEMMA Changes ==
  ASSUME BillingInv, NEW c \in Calls, calls[c].step \in Changing
  PROVE  /\ calls[c].sub \in Subs /\ lease = c /\ Stands(calls[c], subs[calls[c].sub])
BY Here DEF CallOK, Leasing

\* A call that releases, claims or stops holds the lease and its subscription.
LEMMA Attends ==
  ASSUME BillingInv, NEW c \in Calls, calls[c].step \in {"release", "claim", "stop"}
  PROVE  /\ calls[c].sub \in Subs /\ lease = c /\ subs[calls[c].sub].status # "none"
BY Here DEF CallOK, Leasing

\* A step that writes nothing but where the call is.
LEMMA MovesOn ==
  ASSUME BillingInv, NEW c \in Calls, NEW x \in Steps, Go(c, x),
         UNCHANGED <<subs, owed, user, editors, lease, spent, events>>,
         x \in Light \/ \E q \in Call : /\ q = [calls[c] EXCEPT !.step = x] /\ lease = c
                                        /\ CallOK(q, subs)
  PROVE  BillingInv'
<1>1. Rest /\ (user'.sub # 0 => subs[user'.sub].status # "none")
  BY Here, AsItWas
<1>2. CASE x \in Light
  BY <1>1, <1>2, GoStep
<1>3. CASE \E q \in Call : q = [calls[c] EXCEPT !.step = x] /\ lease = c /\ CallOK(q, subs)
  <2>1. PICK q \in Call : q = [calls[c] EXCEPT !.step = x] /\ lease = c /\ CallOK(q, subs)
    BY <1>3
  <2>2. calls' = [calls EXCEPT ![c] = q]
    BY <2>1 DEF Go
  <2> QED
    BY <1>1, <2>1, <2>2, CallAlone
<1> QED
  BY <1>2, <1>3

\* A change that writes a subscription and goes on: it holds the lease.
LEMMA ChangeWrites ==
  ASSUME BillingInv, NEW c \in Calls, lease = c, NEW x \in Steps, Go(c, x),
         NEW s \in Subs, s = calls[c].sub, NEW new \in Subscription, InOrder(new),
         new.status # "none", subs' = [subs EXCEPT ![s] = new], owed' \in BOOLEAN,
         UNCHANGED <<user, editors, lease, spent, events>>,
         x \in Light \cup {"clear", "update", "write"},
         NEW q, q = [calls[c] EXCEPT !.step = x], x \in {"update", "write"} => Stands(q, new)
  PROVE  BillingInv'
<1>1. /\ subs \in [Subs -> Subscription] /\ calls[c] \in Call
      /\ calls[c].view \in View /\ calls[c].view.sub \in Subs \cup {0}
      /\ calls[c].view.sub # 0 => subs[calls[c].view.sub].status # "none"
  BY Here, CallFields, ViewFields
<1>2. q \in Call /\ q.step = x /\ q.view = calls[c].view /\ q.sub = s
  BY <1>1, StepSet DEF Same
<1> DEFINE T == [subs EXCEPT ![s] = new]
<1>3. T[s] = new /\ \A t \in Subs : T[t] = IF t = s THEN new ELSE subs[t]
  BY <1>1
<1>4. q.view.sub # 0 => T[q.view.sub].status # "none"
  BY <1>1, <1>2, <1>3
<1> HIDE DEF T
<1>5. CallOK(q, T)
  <2>1. CASE x \in Light
    BY <1>2, <1>4, <2>1, LightStands
  <2>2. CASE x = "clear"
    BY <1>2, <1>4, <2>2 DEF CallOK, Changing
  <2>3. CASE x \in {"update", "write"}
    BY <1>2, <1>3, <1>4, <2>3 DEF CallOK
  <2> QED
    BY <2>1, <2>2, <2>3
<1>6. calls' = [calls EXCEPT ![c] = q]
  BY DEF Go
<1> QED
  BY <1>2, <1>5, <1>6, CallWrites DEF T

\* The steps a change goes on to.
LEMMA NamedSteps ==
  /\ "sync" \in Light /\ "return" \in Light
  /\ {"sync", "return", "clear", "update", "write"} \subseteq Steps
BY DEF Light, Steps, Leasing, Changing

\* An upgrade is charged: the schedule goes first if there is one.
LEMMA ChargeStep ==
  ASSUME BillingInv, NEW c \in Calls, Charge(c)
  PROVE  BillingInv'
<1>1. PICK q0, s, sub, q : /\ q0 = calls[c] /\ s = q0.sub /\ sub = subs[s]
                           /\ q = [q0 EXCEPT !.step = "update"]
  OBVIOUS
<1>2. q0 \in Call /\ q0.step = "charge"
  BY <1>1, Here DEF Charge, At
<1>3. s \in Subs /\ lease = c /\ Stands(q0, sub)
  BY <1>1, <1>2, Changes DEF Changing
<1>4. q \in Call /\ q.step = "update" /\ Same(q0, q)
  BY <1>1, <1>2, StepSet, NamedSteps
<1>5. sub \in Subscription /\ InOrder(sub) /\ sub.status # "none"
  BY <1>1, <1>3, Here DEF Stands
<1>6. UNCHANGED <<user, editors, lease, spent, events>>
  BY DEF Charge
<1>7. CASE Go(c, "return") /\ UNCHANGED <<subs, owed>>
  BY <1>6, <1>7, NamedSteps, MovesOn
<1>8. CASE ~Attached(q0.seen.schedule) /\ Go(c, "update") /\ UNCHANGED <<subs, owed>>
  <2>1. Stands(q, sub)
    BY <1>2, <1>3, <1>4, <1>8 DEF Stands, Same
  <2>2. CallOK(q, subs)
    BY <1>1, <1>2, <1>3, <1>4, <1>5, <2>1, Here DEF CallOK, Same
  <2> QED
    BY <1>1, <1>3, <1>4, <1>6, <1>8, <2>2, NamedSteps, MovesOn
<1>9. CASE /\ Go(c, "update") /\ Attached(sub.schedule)
           /\ Writes(s, [sub EXCEPT !.schedule = NoSchedule])
  <2>1. PICK new : new = [sub EXCEPT !.schedule = NoSchedule]
    OBVIOUS
  <2>2. /\ new \in Subscription /\ new.status = sub.status /\ new.items = sub.items
        /\ new.schedule = NoSchedule /\ new.update = sub.update
    BY <1>5, <2>1, ScheduleFacts, ScheduleSet
  <2>3. Lives(sub, new)
    BY <1>5, <2>2, UnscheduledLives
  <2>4. Stands(q, new)
    BY <1>2, <1>3, <1>4, <2>2, ScheduleFacts DEF Stands, Same
  <2>5. subs' = [subs EXCEPT ![s] = new] /\ owed' \in BOOLEAN
    BY <1>9, <2>1 DEF Writes
  <2>6. InOrder(new) /\ new.status # "none"
    BY <2>3 DEF Lives
  <2> QED
    BY <1>1, <1>3, <1>6, <1>9, <2>2, <2>4, <2>5, <2>6, NamedSteps, ChangeWrites
<1> QED
  BY <1>1, <1>7, <1>8, <1>9 DEF Charge, Released

\* A schedule is called off.
LEMMA ReleaseStep ==
  ASSUME BillingInv, NEW c \in Calls, Release(c)
  PROVE  BillingInv'
<1>1. PICK q0, s, sub, q : /\ q0 = calls[c] /\ s = q0.sub /\ sub = subs[s]
                           /\ q = [q0 EXCEPT !.step = "clear"]
  OBVIOUS
<1>2. q0 \in Call /\ q0.step = "release"
  BY <1>1, Here DEF Release, At
<1>3. s \in Subs /\ lease = c /\ sub.status # "none"
  BY <1>1, <1>2, Attends
<1>4. sub \in Subscription /\ InOrder(sub)
  BY <1>1, <1>3, Here
<1>5. UNCHANGED <<user, editors, lease, spent, events>>
  BY DEF Release
<1>6. CASE Go(c, "return") /\ UNCHANGED <<subs, owed>>
  BY <1>5, <1>6, NamedSteps, MovesOn
<1>7. CASE Go(c, "clear") /\ Writes(s, [sub EXCEPT !.schedule = NoSchedule])
  <2>1. PICK new : new = [sub EXCEPT !.schedule = NoSchedule]
    OBVIOUS
  <2>2. /\ new \in Subscription /\ new.status = sub.status /\ new.items = sub.items
        /\ new.schedule = NoSchedule /\ new.update = sub.update
    BY <1>4, <2>1, ScheduleFacts, ScheduleSet
  <2>3. Lives(sub, new)
    BY <1>3, <1>4, <2>2, UnscheduledLives
  <2>4. subs' = [subs EXCEPT ![s] = new] /\ owed' \in BOOLEAN
    BY <1>7, <2>1 DEF Writes
  <2>5. InOrder(new) /\ new.status # "none"
    BY <2>3 DEF Lives
  <2> QED
    BY <1>1, <1>3, <1>5, <1>7, <2>2, <2>4, <2>5, NamedSteps, ChangeWrites
<1> QED
  BY <1>1, <1>6, <1>7 DEF Release, Released

\* What an upgrade sends is its target: the items are those that were read.
LEMMA UpdatedIsTarget ==
  ASSUME NEW q, NEW sub, Stands(q, sub), q.step = "update"
  PROVE  Updated(sub, q.seen.items, q.target) = q.target
<1>1. q.target \in Items /\ q.seen.items \in Items /\ sub.items = q.seen.items
      /\ Within(q.seen.items, q.target)
  BY DEF Stands
<1>2. q.target.blocks \in Nat /\ q.seen.items.blocks \in Nat
  BY <1>1, ItemFacts
<1>3. (IF q.target.plan # q.seen.items.plan THEN q.target.plan ELSE sub.items.plan) = q.target.plan
  BY <1>1
<1>4. (IF q.target.blocks + q.seen.items.blocks > 0 THEN q.target.blocks ELSE sub.items.blocks)
        = q.target.blocks
  BY <1>1, <1>2
<1>5. Updated(sub, q.seen.items, q.target) = [plan |-> q.target.plan, blocks |-> q.target.blocks]
  BY <1>3, <1>4 DEF Updated
<1>6. q.target = [plan |-> q.target.plan, blocks |-> q.target.blocks]
  BY <1>1 DEF Items
<1> QED
  BY <1>5, <1>6

\* An upgrade is written, at once or waiting for its invoice.
LEMMA UpdateStep ==
  ASSUME BillingInv, NEW c \in Calls, Update(c)
  PROVE  BillingInv'
<1>1. PICK q0, s, sub, items : /\ q0 = calls[c] /\ s = q0.sub /\ sub = subs[s]
                               /\ items = Updated(sub, q0.seen.items, q0.target)
  OBVIOUS
<1>2. q0 \in Call /\ q0.step = "update"
  BY <1>1, Here DEF Update, At
<1>3. s \in Subs /\ lease = c /\ Stands(q0, sub)
  BY <1>1, <1>2, Changes DEF Changing
<1>4. sub \in Subscription /\ InOrder(sub) /\ sub.status # "none"
  BY <1>1, <1>3, Here DEF Stands
<1>5. UNCHANGED <<user, editors, lease, spent, events>>
  BY DEF Update
<1>6. /\ items \in Items /\ Within(sub.items, items) /\ sub.items \in Items
      /\ ~Attached(sub.schedule) /\ ~Pending(sub.schedule) /\ sub.update = NoItems
  BY <1>1, <1>2, <1>3, UpdatedIsTarget DEF Stands
<1>7. CASE Go(c, "return") /\ UNCHANGED <<subs, owed>>
  BY <1>5, <1>7, NamedSteps, MovesOn
<1>8. CASE Go(c, "sync") /\ Writes(s, [sub EXCEPT !.items = items])
  <2>1. PICK new, q : new = [sub EXCEPT !.items = items] /\ q = [q0 EXCEPT !.step = "sync"]
    OBVIOUS
  <2>2. /\ new \in Subscription /\ new.status = sub.status /\ new.items = items
        /\ new.schedule = sub.schedule /\ new.update = sub.update
    BY <1>4, <1>6, <2>1, ItemsSet
  <2>3. InOrder(new)
    BY <1>4, <1>6, <2>2 DEF InOrder
  <2>4. subs' = [subs EXCEPT ![s] = new] /\ owed' \in BOOLEAN
    BY <1>8, <2>1 DEF Writes
  <2> QED
    BY <1>1, <1>3, <1>4, <1>5, <1>8, <2>1, <2>2, <2>3, <2>4, NamedSteps, ChangeWrites
<1>9. CASE Go(c, "return") /\ Writes(s, [sub EXCEPT !.update = items])
  <2>1. PICK new, q : new = [sub EXCEPT !.update = items] /\ q = [q0 EXCEPT !.step = "return"]
    OBVIOUS
  <2>2. /\ new \in Subscription /\ new.status = sub.status /\ new.items = sub.items
        /\ new.schedule = sub.schedule /\ new.update = items
    BY <1>4, <1>6, <2>1, UpdateSet
  <2>3. InOrder(new)
    BY <1>4, <1>6, <2>2 DEF InOrder
  <2>4. subs' = [subs EXCEPT ![s] = new] /\ owed' \in BOOLEAN
    BY <1>9, <2>1 DEF Writes
  <2> QED
    BY <1>1, <1>3, <1>4, <1>5, <1>9, <2>1, <2>2, <2>3, <2>4, NamedSteps, ChangeWrites
<1> QED
  BY <1>1, <1>7, <1>8, <1>9 DEF Update

\* A schedule is made of what there is.
LEMMA ScheduleCreateStep ==
  ASSUME BillingInv, NEW c \in Calls, ScheduleCreate(c)
  PROVE  BillingInv'
<1>1. PICK q0, s, sub, q : /\ q0 = calls[c] /\ s = q0.sub /\ sub = subs[s]
                           /\ q = [q0 EXCEPT !.step = "write"]
  OBVIOUS
<1>2. q0 \in Call /\ q0.step = "schedule"
  BY <1>1, Here DEF ScheduleCreate, At
<1>3. s \in Subs /\ lease = c /\ Stands(q0, sub)
  BY <1>1, <1>2, Changes DEF Changing
<1>4. q \in Call /\ q.step = "write" /\ Same(q0, q)
  BY <1>1, <1>2, StepSet, NamedSteps
<1>5. sub \in Subscription /\ InOrder(sub) /\ sub.status # "none"
  BY <1>1, <1>3, Here DEF Stands
<1>6. UNCHANGED <<user, editors, lease, spent, events>> /\ Go(c, "write")
  BY DEF ScheduleCreate
<1>7. Stands(q, sub)
  BY <1>2, <1>3, <1>4 DEF Stands, Same
<1>8. CASE UNCHANGED <<subs, owed>>
  <2>1. CallOK(q, subs)
    BY <1>1, <1>2, <1>3, <1>4, <1>5, <1>7, Here DEF CallOK, Same
  <2> QED
    BY <1>1, <1>3, <1>4, <1>6, <1>8, <2>1, NamedSteps, MovesOn
<1>9. CASE Writes(s, [sub EXCEPT !.schedule = [base |-> sub.items, next |-> NoItems]])
  <2>1. PICK x : x = [base |-> sub.items, next |-> NoItems]
    OBVIOUS
  <2>2. PICK new : new = [sub EXCEPT !.schedule = x]
    OBVIOUS
  <2>3. sub.items \in Items /\ sub.update = NoItems
    BY <1>3, <1>5 DEF InOrder, Stands
  <2>4. x \in Schedule /\ Attached(x) /\ ~Pending(x) /\ x.base = sub.items
    BY <2>1, <2>3, ScheduleFacts
  <2>5. /\ new \in Subscription /\ new.status = sub.status /\ new.items = sub.items
        /\ new.schedule = x /\ new.update = sub.update
    BY <1>5, <2>2, <2>4, ScheduleSet
  <2>6. InOrder(new) /\ new.status # "none"
    BY <1>5, <2>3, <2>4, <2>5 DEF InOrder
  <2>7. Stands(q, new)
    BY <1>4, <1>7, <2>5 DEF Stands
  <2>8. subs' = [subs EXCEPT ![s] = new] /\ owed' \in BOOLEAN
    BY <1>9, <2>1, <2>2 DEF Writes
  <2> QED
    BY <1>1, <1>3, <1>6, <2>5, <2>6, <2>7, <2>8, NamedSteps, ChangeWrites
<1> QED
  BY <1>1, <1>8, <1>9 DEF ScheduleCreate

\* The subscription a schedule was written to.
LEMMA PhasesWritten ==
  ASSUME NEW sub \in Subscription, sub.status = "active", NEW q, Stands(q, sub), q.step = "write",
         NEW new, new = [sub EXCEPT !.items = q.seen.items,
                           !.schedule = [base |-> q.seen.items, next |-> q.target]]
  PROVE  /\ new \in Subscription /\ new.status = "active" /\ InOrder(new)
         /\ new.items = q.seen.items /\ Within(sub.items, new.items)
<1>1. /\ q.seen.items \in Items /\ q.target \in Items /\ sub.update = NoItems
      /\ Within(sub.items, q.seen.items) /\ Within(q.target, q.seen.items)
  BY DEF Stands
<1>2. PICK x, y : x = q.seen.items /\ y = [base |-> x, next |-> q.target]
  OBVIOUS
<1>3. y \in Schedule /\ Attached(y) /\ y.next = q.target
  BY <1>1, <1>2, ScheduleFacts
<1>4. Pending(y)
  BY <1>1, <1>2, ScheduleFacts, ItemFacts
<1>5. new = [sub EXCEPT !.items = x, !.schedule = y] /\ x \in Items
  BY <1>1, <1>2
<1>6. /\ new \in Subscription /\ new.status = sub.status /\ new.items = x
      /\ new.schedule = y /\ new.update = sub.update
  BY <1>3, <1>5 DEF Subscription
<1>7. InOrder(new)
  BY <1>1, <1>2, <1>3, <1>4, <1>6 DEF InOrder
<1> QED
  BY <1>1, <1>2, <1>6, <1>7

\* What is scheduled is written to it.
LEMMA ScheduleWriteStep ==
  ASSUME BillingInv, NEW c \in Calls, ScheduleWrite(c)
  PROVE  BillingInv'
<1>1. PICK q0, s, sub, q : /\ q0 = calls[c] /\ s = q0.sub /\ sub = subs[s]
                           /\ q = [q0 EXCEPT !.step = "sync"]
  OBVIOUS
<1>2. q0 \in Call /\ q0.step = "write"
  BY <1>1, Here DEF ScheduleWrite, At
<1>3. s \in Subs /\ lease = c /\ Stands(q0, sub)
  BY <1>1, <1>2, Changes DEF Changing
<1>4. sub \in Subscription /\ sub.status = "active"
  BY <1>1, <1>3, Here DEF ScheduleWrite
<1>5. PICK new : new = [sub EXCEPT !.items = q0.seen.items,
                          !.schedule = [base |-> q0.seen.items, next |-> q0.target]]
  OBVIOUS
<1>6. new \in Subscription /\ new.status = "active" /\ InOrder(new)
  BY <1>2, <1>3, <1>4, <1>5, PhasesWritten
<1>7. subs' = [subs EXCEPT ![s] = new] /\ owed' \in BOOLEAN
  BY <1>1, <1>5 DEF ScheduleWrite, Writes
<1>8. UNCHANGED <<user, editors, lease, spent, events>> /\ Go(c, "sync")
  BY DEF ScheduleWrite
<1> QED
  BY <1>1, <1>3, <1>6, <1>7, <1>8, NamedSteps, ChangeWrites

\* A cancellation finds its subscription.
LEMMA CancelFindStep ==
  ASSUME BillingInv, NEW c \in Calls, CancelFind(c)
  PROVE  BillingInv'
<1>1. UNCHANGED <<subs, owed, user, editors, lease, spent, events>>
  BY DEF CancelFind
<1>2. Rest /\ (user'.sub # 0 => subs[user'.sub].status # "none")
  BY <1>1, Here, AsItWas
<1>3. PICK s, old : s = selectAuthoritativeSubscription(Cancelable) /\ old = calls[c]
  OBVIOUS
<1>4. old \in Call /\ old.step = "find" /\ lease = c
  BY <1>3, Here DEF CancelFind, Is, Leasing
<1>5. CASE s = 0
  BY <1>1, <1>3, <1>5, NamedSteps, MovesOn DEF CancelFind
<1>6. CASE s # 0
  <2>1. Cancelable \in SUBSET Subs /\ Cancelable \subseteq Listed
        /\ \A t \in Cancelable : subs[t].status \in Live \cup {"canceled"}
    BY DEF Cancelable, Listed
  <2>2. s \in Cancelable
    BY <1>3, <1>6, <2>1, NewestFacts
  <2>3. s \in Subs /\ subs[s].status # "none" /\ subs[s] \in Subscription
    BY <2>1, <2>2, ListedMade DEF BillingInv
  <2>4. PICK x \in {"claim", "stop"} : x = IF subs[s].status = "active" /\ user.sub = s
                                           THEN "claim" ELSE "stop"
    OBVIOUS
  <2>5. PICK q : q = [old EXCEPT !.sub = s, !.seen = subs[s], !.step = x]
    OBVIOUS
  <2>6. q \in Call
    BY <1>4, <2>3, <2>5 DEF Call, Steps
  <2>7. q.sub = s /\ q.step = x /\ q.view = old.view
    BY <1>4, <2>5 DEF Call
  <2>8. CallOK(q, subs)
    BY <1>3, <2>3, <2>7, Here DEF CallOK, Changing
  <2>9. calls' = [calls EXCEPT ![c] = q]
    BY <1>3, <1>6, <2>4, <2>5 DEF CancelFind
  <2> QED
    BY <1>1, <1>2, <1>4, <2>6, <2>8, <2>9, CallAlone
<1> QED
  BY <1>5, <1>6

\* A cancellation is written to Stripe.
LEMMA CancelStopStep ==
  ASSUME BillingInv, NEW c \in Calls, CancelStop(c)
  PROVE  BillingInv'
<1>1. PICK q0, s, sub, q : /\ q0 = calls[c] /\ s = q0.sub /\ sub = subs[s]
                           /\ q = [q0 EXCEPT !.step = "sync"]
  OBVIOUS
<1>2. q0 \in Call /\ q0.step = "stop"
  BY <1>1, Here DEF CancelStop, At
<1>3. s \in Subs /\ lease = c /\ sub.status # "none"
  BY <1>1, <1>2, Attends
<1>4. sub \in Subscription /\ InOrder(sub)
  BY <1>1, <1>3, Here
<1>5. UNCHANGED <<user, editors, lease, spent, events>> /\ owed' \in BOOLEAN
  BY DEF CancelStop, Writes
<1>6. CASE Writes(s, Ended(sub)) /\ Go(c, "sync")
  <2>1. PICK new : new = Ended(sub)
    OBVIOUS
  <2>2. Lives(sub, new)
    BY <1>3, <1>4, <2>1, EndedLives
  <2>3. new \in Subscription /\ InOrder(new) /\ new.status # "none"
    BY <2>2 DEF Lives
  <2>4. subs' = [subs EXCEPT ![s] = new]
    BY <1>6, <2>1 DEF Writes
  <2> QED
    BY <1>1, <1>3, <1>5, <1>6, <2>3, <2>4, NamedSteps, ChangeWrites
<1>7. CASE Writes(s, [sub EXCEPT !.cancels = TRUE]) /\ Go(c, "sync")
  <2>1. PICK new : new = [sub EXCEPT !.cancels = TRUE]
    OBVIOUS
  <2>2. /\ new \in Subscription /\ new.status = sub.status /\ new.items = sub.items
        /\ new.schedule = sub.schedule /\ new.update = sub.update
    BY <1>4, <2>1, CancelsSet
  <2>3. InOrder(new) /\ new.status # "none"
    BY <1>3, <1>4, <2>2 DEF InOrder
  <2>4. subs' = [subs EXCEPT ![s] = new]
    BY <1>7, <2>1 DEF Writes
  <2> QED
    BY <1>1, <1>3, <1>5, <1>7, <2>2, <2>3, <2>4, NamedSteps, ChangeWrites
<1>8. CASE /\ Writes(s, [sub EXCEPT !.schedule = NoSchedule])
           /\ calls' = [calls EXCEPT ![c].seen.schedule = NoSchedule]
  <2>1. PICK new, seen : /\ new = [sub EXCEPT !.schedule = NoSchedule]
                         /\ seen = [q0.seen EXCEPT !.schedule = NoSchedule]
    OBVIOUS
  <2>2. /\ new \in Subscription /\ new.status = sub.status /\ new.items = sub.items
        /\ new.schedule = NoSchedule /\ new.update = sub.update
    BY <1>4, <2>1, ScheduleFacts, ScheduleSet
  <2>3. Lives(sub, new)
    BY <1>3, <1>4, <2>2, UnscheduledLives
  <2>4. q0.seen \in Subscription
    BY <1>2, CallFields
  <2>5. seen \in Subscription
    BY <2>1, <2>4, ScheduleFacts, ScheduleSet
  <2>6. PICK p : p = [q0 EXCEPT !.seen = seen]
    OBVIOUS
  <2>7. p \in Call /\ p.step = "stop" /\ p.view = q0.view /\ p.sub = s
    BY <1>1, <1>2, <2>5, <2>6 DEF Call
  <2>8. calls' = [calls EXCEPT ![c] = p]
    BY <1>1, <1>8, <2>1, <2>6
  <2>9. subs' = [subs EXCEPT ![s] = new]
    BY <1>8, <2>1 DEF Writes
  <2> DEFINE T == [subs EXCEPT ![s] = new]
  <2>10. \A t \in Subs : T[t] = IF t = s THEN new ELSE subs[t]
    BY Here
  <2>11. q0.view.sub \in Subs \cup {0} /\ (q0.view.sub # 0 => subs[q0.view.sub].status # "none")
    BY <1>1, <1>2, Here, CallFields, ViewFields
  <2> HIDE DEF T
  <2>12. CallOK(p, T)
    BY <1>3, <2>2, <2>7, <2>10, <2>11 DEF CallOK, Changing
  <2>13. new \in Subscription /\ InOrder(new) /\ new.status # "none"
    BY <2>3 DEF Lives
  <2> QED
    BY <1>3, <1>5, <2>7, <2>8, <2>9, <2>12, <2>13, CallWrites DEF T
<1> QED
  BY <1>1, <1>6, <1>7, <1>8 DEF CancelStop

\* A Checkout page is opened.
LEMMA CheckoutCreateStep ==
  ASSUME BillingInv, NEW c \in Calls, CheckoutCreate(c)
  PROVE  BillingInv'
<1>1. UNCHANGED <<owed, user, editors, lease, spent, events>> /\ Ends(c)
  BY DEF CheckoutCreate
<1>2. CASE UNCHANGED subs
  <2>1. Rest /\ (user'.sub # 0 => subs[user'.sub].status # "none")
    BY <1>1, Here, AsItWas
  <2> QED
    BY <1>1, <1>2, <2>1, EndsStep
<1>3. CASE ~UNCHANGED subs
  <2>0. PICK items : items = calls[c].target
    OBVIOUS
  <2>1. PICK s \in Subs :
           /\ subs[s].status = "none" /\ items = calls[c].target
           /\ subs' = [subs EXCEPT ![s] = [NoSub EXCEPT !.status = "session", !.items = items]]
    BY <1>3, <2>0 DEF CheckoutCreate
  <2>2. items \in Items
    BY <2>1, Here DEF CheckoutCreate, At, CallOK
  <2>3. PICK new : new = [NoSub EXCEPT !.status = "session", !.items = items]
    OBVIOUS
  <2>4. /\ new.status = "session" /\ new.items = items /\ new.schedule = NoSchedule
        /\ new.update = NoItems
    BY <2>3 DEF NoSub
  <2>5. new \in Subscription
    BY <2>2, <2>3, NoSubFacts DEF Subscription
  <2>6. InOrder(new)
    BY <2>2, <2>4, ScheduleFacts DEF InOrder
  <2> DEFINE T == [subs EXCEPT ![s] = new]
  <2>7. IdleCall \in Call /\ IdleCall.step \in Light /\ IdleCall.view.sub = 0
    BY IdleFacts, ViewFields DEF Light, Steps, Leasing, Changing
  <2> HIDE DEF T
  <2>8. CallOK(IdleCall, T) /\ IdleCall.step \notin Leasing
    BY <2>7, LightStands
  <2>9. subs' = [subs EXCEPT ![s] = new] /\ owed' \in BOOLEAN
    BY <1>1, <2>1, <2>3, Here
  <2>10. calls' = [calls EXCEPT ![c] = IdleCall]
    BY <1>1 DEF Ends
  <2> QED
    BY <1>1, <2>1, <2>4, <2>5, <2>6, <2>7, <2>8, <2>9, <2>10, CallWrites DEF T
<1> QED
  BY <1>2, <1>3

\* The invariant holds at first.
LEMMA BillingInit == Init => BillingInv
<1> SUFFICES ASSUME Init PROVE BillingInv
  OBVIOUS
<1>1. /\ owed = FALSE /\ lease = "nobody" /\ events = 0 /\ calls = [c \in Calls |-> IdleCall]
  BY DEF Init
<1>2. IdleCall \in Call /\ IdleCall.step = "none" /\ IdleCall.view.sub = 0
  BY IdleFacts, ViewFields
<1>3. ASSUME NEW c \in Calls, NEW S PROVE CallOK(calls[c], S) /\ calls[c].step \notin Leasing
  <2>1. calls[c] = IdleCall
    BY <1>1
  <2> QED
    BY <1>2, <2>1 DEF CallOK, Leasing, Changing
<1>4. calls \in [Calls -> Call]
  BY <1>1, <1>2
<1>5. events \in 0..MaxEvents /\ lease \in Calls \cup {"nobody", "left"} /\ owed \in BOOLEAN
  <2>1. 0 \in 0..MaxEvents
    BY BillingAssumption
  <2>2. owed \in BOOLEAN
    BY <1>1
  <2> QED
    BY <1>1, <2>1, <2>2
<1>6. ASSUME NEW trial \in BOOLEAN
      PROVE  /\ Free(trial) \in User /\ Free(trial).sub = 0
  BY BillingAssumption DEF Free, User, Plans
<1>7. 1 \in Subs
  BY BillingAssumption DEF Subs
<1>8. CASE /\ subs = [s \in Subs |-> NoSub] /\ \E trial \in BOOLEAN : user = Free(trial)
           /\ editors = {} /\ spent = FALSE
  <2>1. user \in User /\ user.sub = 0
    BY <1>6, <1>8
  <2>2. subs \in [Subs -> Subscription] /\ \A s \in Subs : InOrder(subs[s])
    BY <1>8, NoSubFacts
  <2>3. editors \in SUBSET People /\ spent \in BOOLEAN
    BY <1>8
  <2> QED
    BY <1>3, <1>4, <1>5, <2>1, <2>2, <2>3 DEF BillingInv, TypeOK
<1>9. ASSUME NEW items \in Items, NEW founder \in {0, 1},
             subs = [s \in Subs |-> IF s = 1 THEN Running(items) ELSE NoSub],
             user = [Free(TRUE) EXCEPT !.sub = 1, !.status = "ACTIVE", !.plan = items.plan,
                                           !.blocks = items.blocks, !.founding = founder],
             editors = IF items.plan = "SOLO" /\ founder = 0 THEN {} ELSE People, spent = TRUE
      PROVE  BillingInv
  <2>1. PICK free : free = Free(TRUE)
    OBVIOUS
  <2>2. free \in User
    BY <1>6, <2>1
  <2>3. items.plan \in Plans /\ items.blocks \in 0..MaxBlocks /\ founder \in Subs \cup {0}
    BY <1>7, ItemFacts
  <2>4. user = [free EXCEPT !.sub = 1, !.status = "ACTIVE", !.plan = items.plan,
                            !.blocks = items.blocks, !.founding = founder]
    BY <1>9, <2>1
  <2>5. user \in User
    BY <1>7, <2>2, <2>3, <2>4 DEF User
  <2>6. user.sub = 1
    BY <2>2, <2>4 DEF User
  <2>7. PICK run : run = Running(items)
    OBVIOUS
  <2>8. /\ run.status = "active" /\ run.items = items /\ run.schedule = NoSchedule
        /\ run.update = NoItems
    BY <2>7 DEF Running, NoSub
  <2>9. run \in Subscription
    BY <2>7, NoSubFacts DEF Running, Subscription
  <2>10. InOrder(run)
    BY <2>8, ScheduleFacts DEF InOrder
  <2>11. subs = [s \in Subs |-> IF s = 1 THEN run ELSE NoSub]
    BY <1>9, <2>7
  <2>12. subs \in [Subs -> Subscription] /\ \A s \in Subs : InOrder(subs[s])
    BY <2>9, <2>10, <2>11, NoSubFacts
  <2>13. subs[user.sub].status # "none"
    BY <1>7, <2>6, <2>8, <2>11
  <2>14. editors \in SUBSET People /\ spent \in BOOLEAN
    BY <1>9
  <2> QED
    BY <1>3, <1>4, <1>5, <2>5, <2>12, <2>13, <2>14 DEF BillingInv, TypeOK
<1> QED
  BY <1>8, <1>9 DEF Init

\* A step that changes nothing keeps the invariant.
LEMMA StutterKeeps ==
  ASSUME BillingInv, UNCHANGED vars
  PROVE  BillingInv'
BY DEF BillingInv, TypeOK, InOrder, Pending, Attached, Within, CallOK, Stands, vars

\* Every step of a call keeps the invariant.
LEMMA CallsNext ==
  ASSUME BillingInv, NEW c \in Calls,
         Deliver(c) \/ SyncList(c) \/ Runs(c) \/ Failures(c) \/ Requests(c)
  PROVE  BillingInv'
<1>1. CASE Deliver(c) \/ SyncList(c)
  BY <1>1, DeliverStep, SyncListStep
<1>2. CASE Runs(c)
  <2>1. CASE Sync(c) \/ ChangeLoad(c) \/ Charge(c) \/ Update(c) \/ Mark(c)
    BY <2>1, SyncReadStep, SyncWriteStep, ChangeLoadStep, ChargeStep, UpdateStep, MarkStep DEF Sync
  <2>2. CASE ScheduleCreate(c) \/ ScheduleWrite(c) \/ Release(c) \/ Clear(c) \/ Return(c)
    BY <2>2, ScheduleCreateStep, ScheduleWriteStep, ReleaseStep, ClearStep, ReturnStep
  <2>3. CASE CancelFind(c) \/ CancelClaim(c) \/ CancelStop(c) \/ CheckoutCreate(c) \/ AddCommit(c)
    BY <2>3, CancelFindStep, CancelClaimStep, CancelStopStep, CheckoutCreateStep, AddCommitStep
  <2> QED
    BY <1>2, <2>1, <2>2, <2>3 DEF Runs
<1>3. CASE Failures(c)
  BY <1>3, SyncFailsStep, ScheduleFailsStep, CancelFailsStep, CrashStep DEF Failures
<1>4. CASE Requests(c)
  BY <1>4, ChangeBeginStep, CancelBeginStep, CheckoutAskStep, AddCheckStep DEF Requests
<1> QED
  BY <1>1, <1>2, <1>3, <1>4

\* Every step keeps the invariant.
LEMMA BillingNext ==
  ASSUME BillingInv, [Next]_vars
  PROVE  BillingInv'
<1>1. CASE UNCHANGED vars
  BY <1>1, StutterKeeps
<1>2. CASE \E c \in Calls : Deliver(c) \/ SyncList(c) \/ Runs(c) \/ Failures(c) \/ Requests(c)
  BY <1>2, CallsNext
<1>3. CASE \E s \in Subs : Stripe(s)
  BY <1>3, StripeStep
<1>4. CASE StartTrial \/ TrialEnds \/ LeaseLapses \/ \E p \in People : Remove(p)
  BY <1>4, OtherStep
<1> QED
  BY <1>1, <1>2, <1>3, <1>4 DEF Next

\* It always holds.
LEMMA BillingHolds == Spec => []BillingInv
<1>1. BillingInv /\ [Next]_vars => BillingInv'
  BY BillingNext
<1> QED
  BY <1>1, BillingInit, PTL DEF Spec

\* Every reachable state is well typed, whatever notifications, requests, payments,
\* failures and crashes came in, for any numbers of them.
THEOREM TypeCorrect == Spec => []TypeOK
<1>1. BillingInv => TypeOK
  BY DEF BillingInv
<1> QED
  BY <1>1, BillingHolds, PTL

-----------------------------------------------------------------------------
(* What is paid for stays.                                                 *)

\* Nothing is written, or one subscription whose items are kept.
Keeps ==
    \/ subs' = subs
    \/ \E s \in Subs : \E new : /\ subs' = [subs EXCEPT ![s] = new]
                                /\ subs[s].items \in Items => ItemsKept(subs[s], new)

\* Only the subscription that is written can lose items.
LEMMA KeepsBy ==
  ASSUME NEW s \in Subs, NEW sub, sub = subs[s], NEW new, subs' = [subs EXCEPT ![s] = new],
         sub.items \in Items => ItemsKept(sub, new)
  PROVE  Keeps
BY DEF Keeps

\* Let go of, put beside a schedule or set to cancel: the same items.
LEMMA ItemsUntouched ==
  ASSUME NEW sub \in Subscription
  PROVE  /\ \A x : ItemsKept(sub, [sub EXCEPT !.schedule = x])
         /\ \A x : ItemsKept(sub, [sub EXCEPT !.cancels = x])
         /\ \A x : ItemsKept(sub, [sub EXCEPT !.update = x])
         /\ ItemsKept(sub, Ended(sub))
BY DEF ItemsKept, Ended, Subscription

\* What Stripe does by itself takes nothing but what was scheduled.
LEMMA StripeKeeps ==
  ASSUME BillingInv, NEW s \in Subs, Stripe(s)
  PROVE  Keeps
<1>1. CASE subs' = subs
  BY <1>1 DEF Keeps
<1>2. CASE Written(s)
  <2>1. PICK sub, new : sub = subs[s] /\ Lives(sub, new) /\ subs' = [subs EXCEPT ![s] = new]
    BY <1>2 DEF Written
  <2>2. ItemsKept(sub, new)
    BY <2>1 DEF Lives
  <2> QED
    BY <2>1, <2>2, KeepsBy
<1> QED
  BY <1>1, <1>2, StripeWrites

\* The writes that leave the items alone.
LEMMA WritesKeep ==
  ASSUME BillingInv, NEW c \in Calls,
         Charge(c) \/ Release(c) \/ ScheduleCreate(c) \/ CancelStop(c)
  PROVE  Keeps
<1>1. PICK s, sub : s = calls[c].sub /\ sub = subs[s]
  OBVIOUS
<1>2. calls[c].step \in Changing \/ calls[c].step \in {"release", "claim", "stop"}
  BY DEF Charge, Release, ScheduleCreate, CancelStop, At, Changing
<1>3. s \in Subs
  BY <1>1, <1>2, Changes, Attends
<1>4. sub \in Subscription
  BY <1>1, <1>3, Here
<1>5. PICK t : t = [base |-> sub.items, next |-> NoItems]
  OBVIOUS
<1>6. \/ subs' = subs
      \/ subs' = [subs EXCEPT ![s] = [sub EXCEPT !.schedule = NoSchedule]]
      \/ subs' = [subs EXCEPT ![s] = [sub EXCEPT !.schedule = t]]
      \/ subs' = [subs EXCEPT ![s] = [sub EXCEPT !.cancels = TRUE]]
      \/ subs' = [subs EXCEPT ![s] = Ended(sub)]
  BY <1>1, <1>5 DEF Charge, Release, Released, ScheduleCreate, CancelStop, Writes
<1>7. \/ subs' = subs
      \/ \E new : subs' = [subs EXCEPT ![s] = new] /\ ItemsKept(sub, new)
  BY <1>4, <1>6, ItemsUntouched
<1>8. CASE subs' = subs
  BY <1>8 DEF Keeps
<1>9. CASE \E new : subs' = [subs EXCEPT ![s] = new] /\ ItemsKept(sub, new)
  BY <1>1, <1>3, <1>9, KeepsBy
<1> QED
  BY <1>7, <1>8, <1>9

\* An upgrade never takes anything away.
LEMMA UpdateKeeps ==
  ASSUME BillingInv, NEW c \in Calls, Update(c)
  PROVE  Keeps
<1>1. PICK q, s, sub, items : /\ q = calls[c] /\ s = q.sub /\ sub = subs[s]
                              /\ items = Updated(sub, q.seen.items, q.target)
  OBVIOUS
<1>2. q.step = "update"
  BY <1>1 DEF Update, At
<1>3. s \in Subs /\ Stands(q, sub)
  BY <1>1, <1>2, Changes DEF Changing
<1>4. sub \in Subscription
  BY <1>1, <1>3, Here
<1>5. Within(sub.items, items)
  BY <1>1, <1>2, <1>3, UpdatedIsTarget DEF Stands
<1>6. CASE subs' = subs
  BY <1>6 DEF Keeps
<1>7. CASE subs' = [subs EXCEPT ![s] = [sub EXCEPT !.items = items]]
  <2>1. PICK new : new = [sub EXCEPT !.items = items]
    OBVIOUS
  <2>2. new.items = items
    BY <1>4, <2>1 DEF Subscription
  <2>3. ItemsKept(sub, new)
    BY <1>5, <2>2 DEF ItemsKept
  <2> QED
    BY <1>1, <1>3, <1>7, <2>1, <2>3, KeepsBy
<1>8. CASE subs' = [subs EXCEPT ![s] = [sub EXCEPT !.update = items]]
  <2>1. PICK new : new = [sub EXCEPT !.update = items]
    OBVIOUS
  <2>2. ItemsKept(sub, new)
    BY <1>4, <2>1, ItemsUntouched
  <2> QED
    BY <1>1, <1>3, <1>8, <2>1, <2>2, KeepsBy
<1> QED
  BY <1>1, <1>6, <1>7, <1>8 DEF Update, Writes

\* Neither does the schedule that is written.
LEMMA ScheduleWriteKeeps ==
  ASSUME BillingInv, NEW c \in Calls, ScheduleWrite(c)
  PROVE  Keeps
<1>1. PICK q, s, sub : q = calls[c] /\ s = q.sub /\ sub = subs[s]
  OBVIOUS
<1>2. q.step = "write"
  BY <1>1 DEF ScheduleWrite, At
<1>3. s \in Subs /\ Stands(q, sub)
  BY <1>1, <1>2, Changes DEF Changing
<1>4. sub \in Subscription /\ sub.status = "active"
  BY <1>1, <1>3, Here DEF ScheduleWrite
<1>5. PICK new : new = [sub EXCEPT !.items = q.seen.items,
                          !.schedule = [base |-> q.seen.items, next |-> q.target]]
  OBVIOUS
<1>6. Within(sub.items, new.items)
  BY <1>2, <1>3, <1>4, <1>5, PhasesWritten
<1>7. ItemsKept(sub, new)
  BY <1>6 DEF ItemsKept
<1>8. subs' = [subs EXCEPT ![s] = new]
  BY <1>1, <1>5 DEF ScheduleWrite, Writes
<1> QED
  BY <1>1, <1>3, <1>7, <1>8, KeepsBy

\* A page is opened where there was no subscription.
LEMMA CheckoutKeeps ==
  ASSUME BillingInv, NEW c \in Calls, CheckoutCreate(c)
  PROVE  Keeps
<1>1. CASE UNCHANGED subs
  BY <1>1 DEF Keeps
<1>2. CASE ~UNCHANGED subs
  <2>1. PICK s, new : s \in Subs /\ subs[s].status = "none" /\ subs' = [subs EXCEPT ![s] = new]
    BY <1>2 DEF CheckoutCreate
  <2>2. PICK sub : sub = subs[s]
    OBVIOUS
  <2>3. InOrder(sub) /\ sub.status = "none"
    BY <2>1, <2>2, Here
  <2>4. sub.items \notin Items
    BY <2>3, ItemFacts DEF InOrder
  <2> QED
    BY <2>1, <2>2, <2>4, KeepsBy
<1> QED
  BY <1>1, <1>2

\* No step takes more than what was scheduled.
LEMMA NextKeeps ==
  ASSUME BillingInv, [Next]_vars
  PROVE  Keeps
<1>1. CASE UNCHANGED vars
  BY <1>1 DEF Keeps, vars
<1>2. ASSUME NEW c \in Calls, Deliver(c) \/ SyncList(c) \/ Runs(c) \/ Failures(c) \/ Requests(c)
      PROVE  Keeps
  <2>1. CASE \/ Charge(c) \/ Release(c) \/ ScheduleCreate(c) \/ CancelStop(c)
             \/ Update(c) \/ ScheduleWrite(c) \/ CheckoutCreate(c)
    BY <2>1, WritesKeep, UpdateKeeps, ScheduleWriteKeeps, CheckoutKeeps
  <2>2. CASE ~(\/ Charge(c) \/ Release(c) \/ ScheduleCreate(c) \/ CancelStop(c)
               \/ Update(c) \/ ScheduleWrite(c) \/ CheckoutCreate(c))
    <3>1. CASE Deliver(c) \/ SyncList(c) \/ Failures(c) \/ Requests(c)
      BY <3>1 DEF Keeps, Deliver, SyncList, Failures, Requests, SyncFails, ScheduleFails,
         CancelFails, Crash, ChangeBegin, CancelBegin, CheckoutAsk, AddCheck
    <3>2. CASE Runs(c)
      BY <2>2, <3>2 DEF Keeps, Runs, Sync, SyncRead, SyncWrite, ChangeLoad, Mark, Clear, Return,
         CancelFind, CancelClaim, AddCommit
    <3> QED
      BY <1>2, <3>1, <3>2
  <2> QED
    BY <2>1, <2>2
<1>3. CASE \E s \in Subs : Stripe(s)
  BY <1>3, StripeKeeps
<1>4. CASE StartTrial \/ TrialEnds \/ LeaseLapses \/ \E p \in People : Remove(p)
  BY <1>4 DEF Keeps, StartTrial, TrialEnds, LeaseLapses, Remove
<1> QED
  BY <1>1, <1>2, <1>3, <1>4 DEF Next

\* An account keeps what it has paid for (billing-change's upgrades against its
\* schedules): the items shrink only when a scheduled change lands.
THEOREM PaidItemsStayHolds == Spec => PaidItemsStay
<1>1. ASSUME BillingInv, [Next]_vars
      PROVE  [\A s \in Subs :
                LET before == subs[s].items
                    after == subs'[s].items
                IN before \in Items /\ after # before =>
                     \/ ~isPlanUpgrade(after.plan, before.plan) /\ after.blocks >= before.blocks
                     \/ after = subs[s].schedule.next]_vars
  <2> SUFFICES ASSUME NEW s \in Subs, subs[s].items \in Items, subs'[s].items # subs[s].items
               PROVE  \/ /\ ~isPlanUpgrade(subs'[s].items.plan, subs[s].items.plan)
                         /\ subs'[s].items.blocks >= subs[s].items.blocks
                      \/ subs'[s].items = subs[s].schedule.next
    OBVIOUS
  <2>1. subs' # subs
    OBVIOUS
  <2>2. PICK t, new : /\ t \in Subs /\ subs' = [subs EXCEPT ![t] = new]
                      /\ subs[t].items \in Items => ItemsKept(subs[t], new)
    BY <1>1, <2>1, NextKeeps DEF Keeps
  <2>3. subs \in [Subs -> Subscription]
    BY <1>1 DEF BillingInv, TypeOK
  <2>4. PICK sub : sub = subs[s]
    OBVIOUS
  <2>5. t = s /\ subs'[s] = new
    BY <2>2, <2>3
  <2>6. ItemsKept(sub, new)
    BY <2>2, <2>4, <2>5
  <2>7. \/ Within(sub.items, new.items)
        \/ new.items = sub.schedule.next
    BY <2>4, <2>5, <2>6 DEF ItemsKept
  <2> QED
    BY <2>4, <2>5, <2>7 DEF Within
<1>2. BillingInv /\ [Next]_vars =>
             [\A s \in Subs :
                LET before == subs[s].items
                    after == subs'[s].items
                IN before \in Items /\ after # before =>
                     \/ ~isPlanUpgrade(after.plan, before.plan) /\ after.blocks >= before.blocks
                     \/ after = subs[s].schedule.next]_vars
  BY <1>1
<1> QED
  BY <1>2, BillingHolds, PTL DEF Spec, PaidItemsStay

-----------------------------------------------------------------------------
(* The mirror.                                                             *)

\* The subscription that counts among "from", as "S" has them.
Newest(S, from) ==
    CHOOSE s \in from : \A t \in from :
        \/ Priority[S[s].status] > Priority[S[t].status]
        \/ Priority[S[s].status] = Priority[S[t].status] /\ s >= t

\* There is one that outranks all the others, and only one.
LEMMA NewestIsOne ==
  ASSUME NEW S, NEW from \in SUBSET Subs, \A s \in from : S[s].status \in Live \cup {"canceled"},
         NEW m \in from,
         \A t \in from : \/ Priority[S[m].status] > Priority[S[t].status]
                         \/ Priority[S[m].status] = Priority[S[t].status] /\ m >= t
  PROVE  Newest(S, from) = m
<1>1. \A s \in from : Priority[S[s].status] \in Nat /\ s \in Nat
  BY BillingAssumption DEF Priority, Live, Subs
<1>2. PICK n \in from : /\ n = Newest(S, from)
                        /\ \A t \in from : \/ Priority[S[n].status] > Priority[S[t].status]
                                           \/ Priority[S[n].status] = Priority[S[t].status] /\ n >= t
  BY DEF Newest
<1> QED
  BY <1>1, <1>2

\* What a listing shows stays while the listed subscriptions do.
LEMMA ProviderStays ==
  ASSUME TypeOK, \A s \in Subs : InOrder(subs[s]), Listed' = Listed,
         \A s \in Listed : subs'[s] = subs[s]
  PROVE  Truth' = Truth
<1>1. PICK from, S, T : from = Listed /\ S = subs /\ T = subs'
  OBVIOUS
<1>2. /\ from \in SUBSET Subs /\ \A s \in from : S[s].status \in Live \cup {"canceled"}
      /\ \A s \in from : T[s] = S[s] /\ s # 0
  BY <1>1, ListedMade DEF Listed
<1>3. PICK m : m = selectAuthoritativeSubscription(from)
  OBVIOUS
<1>4. selectAuthoritativeSubscription(Listed)' = m
  <2>1. CASE from = {}
    BY <1>1, <1>3, <2>1 DEF selectAuthoritativeSubscription
  <2>2. CASE from # {}
    <3>1. m \in from
      BY <1>1, <1>2, <1>3, <2>2, NewestFacts
    <3>2. PICK n \in from :
            \A t \in from : \/ Priority[S[n].status] > Priority[S[t].status]
                            \/ Priority[S[n].status] = Priority[S[t].status] /\ n >= t
      BY <1>1, <1>2, <2>2, Outranking
    <3>3. Newest(S, from) = n
      BY <1>2, <3>2, NewestIsOne
    <3>4. Newest(T, from) = n
      <4>1. \A s \in from : T[s].status \in Live \cup {"canceled"}
        BY <1>2
      <4>2. \A t \in from : \/ Priority[T[n].status] > Priority[T[t].status]
                            \/ Priority[T[n].status] = Priority[T[t].status] /\ n >= t
        BY <1>2, <3>2
      <4> QED
        BY <1>2, <4>1, <4>2, NewestIsOne
    <3>5. m = Newest(S, from)
      BY <1>1, <1>3, <2>2 DEF selectAuthoritativeSubscription, Newest
    <3>6. selectAuthoritativeSubscription(Listed)' = Newest(T, from)
      BY <1>1, <2>2 DEF selectAuthoritativeSubscription, Newest
    <3> QED
      BY <3>3, <3>4, <3>5, <3>6
  <2> QED
    BY <2>1, <2>2
<1>5. m \in Listed \cup {0}
  BY <1>1, <1>2, <1>3, NewestFacts
<1>6. ViewOf(m)' = ViewOf(m)
  BY <1>5 DEF ViewOf
<1>7. Provider' = Provider
  BY <1>1, <1>3, <1>4, <1>6 DEF Provider
<1> QED
  BY <1>7 DEF Truth

\* News is owed again, or owed still.
LEMMA OwedStep ==
  ASSUME MirrorInv, owed' = TRUE, calls \in [Calls -> Call],
         \/ calls' = calls
         \/ \E c \in Calls : \E q : calls' = [calls EXCEPT ![c] = q] /\ q.step \notin Copying
  PROVE  MirrorInv'
<1>1. \A c, d \in Calls : calls'[c].step \in Copying /\ calls'[d].step \in Copying => c = d
  BY DEF MirrorInv
<1> QED
  BY <1>1 DEF MirrorInv

\* A step of a call that copies nothing and owes nothing.
LEMMA QuietStep ==
  ASSUME BillingInv, MirrorInv, NEW c \in Calls, NEW q, calls' = [calls EXCEPT ![c] = q],
         q.step \notin Copying, Mirror' = Mirror, Truth' = Truth, Listed' = Listed, owed' = owed,
         calls[c].kind # "webhook" \/ calls[c].step \notin Copying \cup {"sync"}
  PROVE  MirrorInv'
<1>1. calls \in [Calls -> Call]
  BY DEF BillingInv, TypeOK
<1>2. \A d \in Calls : calls'[d] = IF d = c THEN q ELSE calls[d]
  BY <1>1
<1>3. \A d, e \in Calls : calls'[d].step \in Copying /\ calls'[e].step \in Copying => d = e
  BY <1>2 DEF MirrorInv
<1>4. CASE Listed = {} \/ owed
  BY <1>3, <1>4 DEF MirrorInv
<1>5. CASE \E d \in Calls : calls[d].kind = "webhook" /\ calls[d].step = "sync"
  <2>1. PICK d \in Calls : calls[d].kind = "webhook" /\ calls[d].step = "sync"
    BY <1>5
  <2>2. calls'[d] = calls[d]
    BY <1>2, <2>1
  <2> QED
    BY <1>3, <2>1, <2>2 DEF MirrorInv
<1>6. CASE \E d \in Calls : /\ calls[d].kind = "webhook" /\ calls[d].step \in Copying
                            /\ Agrees(calls[d])
  <2>1. PICK d \in Calls : /\ calls[d].kind = "webhook" /\ calls[d].step \in Copying
                           /\ Part(calls[d].view) = Truth
    BY <1>6 DEF Agrees
  <2>2. calls'[d] = calls[d]
    BY <1>2, <2>1
  <2>3. Part(calls'[d].view) = Truth'
    BY <2>1, <2>2
  <2> QED
    BY <1>3, <2>1, <2>2, <2>3 DEF MirrorInv, Agrees
<1>7. CASE Mirror = Truth /\ \A d \in Calls : Agrees(calls[d])
  <2>1. \A d \in Calls : calls[d].step \in Copying => Part(calls[d].view) = Truth
    BY <1>7 DEF Agrees
  <2>2. \A d \in Calls : calls'[d].step \in Copying => Part(calls'[d].view) = Truth'
    BY <1>2, <2>1
  <2>3. Mirror' = Truth'
    BY <1>7
  <2> QED
    BY <1>3, <2>2, <2>3 DEF MirrorInv, Agrees
<1> QED
  BY <1>4, <1>5, <1>6, <1>7 DEF MirrorInv

\* Where the subscriptions stay, so does what Stripe says.
LEMMA SameTruth ==
  ASSUME BillingInv, subs' = subs
  PROVE  Truth' = Truth /\ Listed' = Listed
<1>1. Listed' = Listed
  BY DEF Listed
<1> QED
  BY <1>1, ProviderStays DEF BillingInv

\* Where what gives access stays, so does the mirror.
LEMMA SameMirror ==
  ASSUME SameAccess
  PROVE  Mirror' = Mirror
BY DEF SameAccess, Mirror

\* Whoever writes to Stripe makes it owe news.
LEMMA ChangesOwe ==
  ASSUME BillingInv, MirrorInv, NEW c \in Calls,
         \/ Charge(c) \/ Update(c) \/ ScheduleCreate(c) \/ ScheduleWrite(c) \/ Release(c)
         \/ CancelStop(c)
  PROVE  MirrorInv'
<1>1. calls \in [Calls -> Call]
  BY DEF BillingInv, TypeOK
<1>2. PICK q : calls' = [calls EXCEPT ![c] = q] /\ q.step \notin Copying
  <2>1. ASSUME NEW x \in {"update", "write", "sync", "return", "clear"}, Go(c, x)
        PROVE  \E q : calls' = [calls EXCEPT ![c] = q] /\ q.step \notin Copying
    <3>1. PICK q : q = [calls[c] EXCEPT !.step = x]
      OBVIOUS
    <3>2. q.step = x
      BY <1>1, <3>1 DEF Call
    <3>3. calls' = [calls EXCEPT ![c] = q]
      BY <2>1, <3>1 DEF Go
    <3> QED
      BY <3>2, <3>3 DEF Copying
  <2>2. ASSUME calls[c].step = "stop", calls' = [calls EXCEPT ![c].seen.schedule = NoSchedule]
        PROVE  \E q : calls' = [calls EXCEPT ![c] = q] /\ q.step \notin Copying
    <3>1. PICK q : q = [calls[c] EXCEPT !.seen.schedule = NoSchedule]
      OBVIOUS
    <3>2. q.step = "stop"
      BY <1>1, <2>2, <3>1 DEF Call
    <3>3. calls' = [calls EXCEPT ![c] = q]
      BY <2>2, <3>1
    <3> QED
      BY <3>2, <3>3 DEF Copying
  <2> QED
    BY <2>1, <2>2 DEF Charge, Update, ScheduleCreate, ScheduleWrite, Release, Released,
       CancelStop, At
<1>3. calls[c].step \notin Copying \cup {"sync"}
  BY DEF Charge, Update, ScheduleCreate, ScheduleWrite, Release, CancelStop, At, Copying
<1>4. owed' = TRUE \/ (subs' = subs /\ owed' = owed)
  BY DEF Charge, Update, ScheduleCreate, ScheduleWrite, Release, Released, CancelStop, Writes
<1>5. CASE owed' = TRUE
  BY <1>1, <1>2, <1>5, OwedStep
<1>6. CASE subs' = subs /\ owed' = owed
  <2>1. Mirror' = Mirror
    <3>1. user' = user
      BY DEF Charge, Update, ScheduleCreate, ScheduleWrite, Release, CancelStop
    <3> QED
      BY <3>1 DEF Mirror
  <2> QED
    BY <1>2, <1>3, <1>6, <2>1, SameTruth, QuietStep
<1> QED
  BY <1>4, <1>5, <1>6

\* Steps that write neither to Stripe nor what gives access.
LEMMA AsideSteps ==
  ASSUME BillingInv, MirrorInv, NEW c \in Calls, UNCHANGED <<subs, owed>>, Mirror' = Mirror,
         NEW q, calls' = [calls EXCEPT ![c] = q], q.step \notin Copying,
         calls[c].step \notin Copying \cup {"sync"}
  PROVE  MirrorInv'
BY SameTruth, QuietStep

\* Marks, claims and answers leave the mirror as it stands.
LEMMA BookkeepingStep ==
  ASSUME BillingInv, MirrorInv, NEW c \in Calls,
         \/ ChangeLoad(c) \/ Mark(c) \/ ScheduleFails(c) \/ Clear(c) \/ Return(c)
         \/ CancelFind(c) \/ CancelClaim(c) \/ CancelFails(c) \/ AddCommit(c)
  PROVE  MirrorInv'
<1>1. calls \in [Calls -> Call] /\ calls[c] \in Call
  BY DEF BillingInv, TypeOK
<1>2. UNCHANGED <<subs, owed>>
  BY DEF ChangeLoad, Mark, ScheduleFails, Clear, Return, CancelFind, CancelClaim, CancelFails,
     AddCommit
<1>3. calls[c].step \notin Copying \cup {"sync"}
  BY DEF ChangeLoad, Mark, ScheduleFails, Clear, Return, CancelFind, CancelClaim, CancelFails,
     AddCommit, At, Is, Copying
<1>4. Mirror' = Mirror
  <2>1. CASE Mark(c) \/ Clear(c) \/ ScheduleFails(c) \/ CancelClaim(c) \/ CancelFails(c)
    BY <2>1, MarksOnly, SameMirror
  <2>2. CASE ChangeLoad(c) \/ Return(c) \/ CancelFind(c) \/ AddCommit(c)
    <3>1. user' = user
      BY <2>2 DEF ChangeLoad, Return, CancelFind, AddCommit
    <3> QED
      BY <3>1 DEF Mirror
  <2> QED
    BY <2>1, <2>2
<1>5. \E q : calls' = [calls EXCEPT ![c] = q] /\ q.step \notin Copying
  <2>1. ASSUME NEW x \in {"sync", "return"}, Go(c, x)
        PROVE  \E q : calls' = [calls EXCEPT ![c] = q] /\ q.step \notin Copying
    <3>1. PICK q : q = [calls[c] EXCEPT !.step = x]
      OBVIOUS
    <3>2. q.step = x
      BY <1>1, <3>1 DEF Call
    <3>3. calls' = [calls EXCEPT ![c] = q]
      BY <2>1, <3>1 DEF Go
    <3> QED
      BY <3>2, <3>3 DEF Copying
  <2>2. CASE Ends(c)
    BY <2>2, IdleFacts DEF Ends, Copying
  <2>3. CASE Mark(c)
    <3>1. PICK q : q = [calls[c] EXCEPT !.step = "schedule", !.marked = TRUE,
                                        !.previous = user.pending]
      OBVIOUS
    <3>2. q.step = "schedule"
      BY <1>1, <3>1 DEF Call
    <3>3. calls' = [calls EXCEPT ![c] = q]
      BY <2>3, <3>1 DEF Mark
    <3> QED
      BY <3>2, <3>3 DEF Copying
  <2>4. CASE CancelClaim(c) /\ ~Go(c, "return")
    <3>1. PICK q : q = [calls[c] EXCEPT !.step = "stop", !.marked = TRUE]
      OBVIOUS
    <3>2. q.step = "stop"
      BY <1>1, <3>1 DEF Call
    <3>3. calls' = [calls EXCEPT ![c] = q]
      BY <2>4, <3>1 DEF CancelClaim
    <3> QED
      BY <3>2, <3>3 DEF Copying
  <2>5. CASE CancelFind(c) /\ ~Go(c, "return")
    <3>1. PICK s, x : /\ s = selectAuthoritativeSubscription(Cancelable) /\ x \in {"claim", "stop"}
                      /\ x = IF subs[s].status = "active" /\ user.sub = s THEN "claim" ELSE "stop"
      OBVIOUS
    <3>2. PICK q : q = [calls[c] EXCEPT !.sub = s, !.seen = subs[s], !.step = x]
      OBVIOUS
    <3>3. q.step = x
      BY <1>1, <3>2 DEF Call
    <3>4. calls' = [calls EXCEPT ![c] = q]
      BY <2>5, <3>1, <3>2 DEF CancelFind
    <3> QED
      BY <3>1, <3>3, <3>4 DEF Copying
  <2>6. CASE ChangeLoad(c) /\ ~Go(c, "return")
    <3>1. PICK old, s, sub : old = calls[c] /\ s = user.sub /\ sub = subs[s]
      OBVIOUS
    <3>2. PICK r : r = Route(old.kind, old.target, sub)
      OBVIOUS
    <3>3. Changeable /\ calls' = [calls EXCEPT ![c].step = r.step, ![c].sub = s,
                                               ![c].seen = sub, ![c].target = r.target]
      BY <2>6, <3>1, <3>2 DEF ChangeLoad
    <3>4. /\ old \in Call /\ CallOK(old, subs) /\ old.step = "load"
          /\ old.kind \in {"plan", "blocks", "undo"}
      BY <2>6, <3>1, Here DEF ChangeLoad, Is
    <3>5. s \in Subs /\ sub \in Subscription /\ InOrder(sub) /\ sub.status = "active"
      BY <3>1, <3>3, Here DEF Changeable
    <3>6. old.target \in Targets /\ (old.kind = "plan" => old.target \in Items)
      BY <3>4, CallFields DEF CallOK
    <3>7. r.step \in {"return", "release", "charge", "mark", "schedule"}
      BY <3>2, <3>4, <3>5, <3>6, RouteFacts
    <3>8. PICK x, t : x = r.step /\ t = r.target
      OBVIOUS
    <3>9. PICK q : q = [old EXCEPT !.step = x, !.sub = s, !.seen = sub, !.target = t]
      OBVIOUS
    <3>10. q.step = x
      BY <3>4, <3>9 DEF Call
    <3>11. calls' = [calls EXCEPT ![c] = q]
      BY <3>1, <3>3, <3>8, <3>9
    <3> QED
      BY <3>7, <3>8, <3>10, <3>11 DEF Copying
  <2> QED
    BY <2>1, <2>2, <2>3, <2>4, <2>5, <2>6 DEF ScheduleFails, Clear, Return, CancelFails, AddCommit
<1> QED
  BY <1>2, <1>3, <1>4, <1>5, AsideSteps

\* So do the requests that begin.
LEMMA RequestsStep ==
  ASSUME BillingInv, MirrorInv, NEW c \in Calls, Requests(c)
  PROVE  MirrorInv'
<1>1. UNCHANGED <<subs, owed, user>>
  BY DEF Requests, ChangeBegin, CancelBegin, CheckoutAsk, AddCheck
<1>2. Mirror' = Mirror
  BY <1>1 DEF Mirror
<1>3. PICK q : Starts(c, q) /\ q.step \in {"load", "find", "create", "admit"}
  <2>1. ASSUME NEW k, NEW x \in {"load", "find", "create", "admit"}, NEW t, NEW P,
               \/ Starts(c, [IdleCall EXCEPT !.kind = k, !.step = x])
               \/ Starts(c, [IdleCall EXCEPT !.kind = k, !.step = x, !.target = t])
               \/ Starts(c, [IdleCall EXCEPT !.kind = k, !.step = x, !.people = P])
        PROVE  \E q : Starts(c, q) /\ q.step \in {"load", "find", "create", "admit"}
    <3>1. /\ [IdleCall EXCEPT !.kind = k, !.step = x].step = x
          /\ [IdleCall EXCEPT !.kind = k, !.step = x, !.target = t].step = x
          /\ [IdleCall EXCEPT !.kind = k, !.step = x, !.people = P].step = x
      BY DEF IdleCall
    <3> QED
      BY <2>1, <3>1
  <2>2. CASE ChangeBegin(c)
    BY <2>1, <2>2 DEF ChangeBegin
  <2>3. CASE CancelBegin(c) \/ CheckoutAsk(c) \/ AddCheck(c)
    BY <2>1, <2>3 DEF CancelBegin, CheckoutAsk, AddCheck
  <2> QED
    BY <2>2, <2>3 DEF Requests
<1>4. calls[c].step \notin Copying \cup {"sync"}
  BY <1>3, IdleFacts DEF Starts, Copying
<1>5. calls' = [calls EXCEPT ![c] = q] /\ q.step \notin Copying
  BY <1>3 DEF Starts, Copying
<1> QED
  BY <1>1, <1>2, <1>4, <1>5, AsideSteps

\* A page that is opened is not listed yet.
LEMMA CheckoutStep ==
  ASSUME BillingInv, MirrorInv, NEW c \in Calls, CheckoutCreate(c)
  PROVE  MirrorInv'
<1>1. /\ UNCHANGED <<owed, user>> /\ calls' = [calls EXCEPT ![c] = IdleCall]
      /\ calls[c].step = "create"
  BY DEF CheckoutCreate, Ends, At
<1>2. IdleCall.step \notin Copying /\ calls[c].step \notin Copying \cup {"sync"}
  BY <1>1, IdleFacts DEF Copying
<1>3. Mirror' = Mirror
  BY <1>1 DEF Mirror
<1>4. CASE UNCHANGED subs
  BY <1>1, <1>2, <1>3, <1>4, AsideSteps
<1>5. CASE ~UNCHANGED subs
  <2>1. PICK s, items :
           /\ s \in Subs /\ subs[s].status = "none"
           /\ subs' = [subs EXCEPT ![s] = [NoSub EXCEPT !.status = "session", !.items = items]]
    BY <1>5 DEF CheckoutCreate
  <2>2. PICK new : new = [NoSub EXCEPT !.status = "session", !.items = items]
    OBVIOUS
  <2>3. new.status = "session" /\ subs' = [subs EXCEPT ![s] = new]
    BY <2>1, <2>2 DEF NoSub
  <2>4. \A t \in Subs : subs'[t] = IF t = s THEN new ELSE subs[t]
    BY <2>3 DEF BillingInv, TypeOK
  <2>5. Listed' = Listed
    BY <2>1, <2>3, <2>4 DEF Listed, Live
  <2>6. \A t \in Listed : subs'[t] = subs[t]
    BY <2>1, <2>4 DEF Listed, Live
  <2>7. Truth' = Truth
    BY <2>5, <2>6, ProviderStays DEF BillingInv
  <2> QED
    BY <1>1, <1>2, <1>3, <2>5, <2>7, QuietStep
<1> QED
  BY <1>4, <1>5

\* A copy that fails owes its news again.
LEMMA GivesUpStep ==
  ASSUME BillingInv, MirrorInv, NEW c \in Calls, Crash(c) \/ SyncFails(c)
  PROVE  MirrorInv'
<1>1. calls \in [Calls -> Call] /\ calls[c] \in Call
  BY DEF BillingInv, TypeOK
<1>2. UNCHANGED <<subs, user>>
  BY DEF Crash, SyncFails
<1>3. PICK q : calls' = [calls EXCEPT ![c] = q] /\ q.step \notin Copying
  <2>1. CASE Ends(c)
    BY <2>1, IdleFacts DEF Ends, Copying
  <2>2. CASE Go(c, "return")
    <3>1. PICK q : q = [calls[c] EXCEPT !.step = "return"]
      OBVIOUS
    <3>2. q.step = "return"
      BY <1>1, <3>1 DEF Call
    <3>3. calls' = [calls EXCEPT ![c] = q]
      BY <2>2, <3>1 DEF Go
    <3> QED
      BY <3>2, <3>3 DEF Copying
  <2> QED
    BY <2>1, <2>2 DEF Crash, SyncFails
<1>4. CASE calls[c].kind = "webhook"
  <2>1. owed' = TRUE
    BY <1>4 DEF Crash, SyncFails
  <2> QED
    BY <1>1, <1>3, <2>1, OwedStep
<1>5. CASE calls[c].kind # "webhook"
  <2>1. owed' = owed
    <3>1. owed \in BOOLEAN
      BY DEF BillingInv, TypeOK
    <3> QED
      BY <1>5, <3>1 DEF Crash, SyncFails
  <2>2. Mirror' = Mirror
    BY <1>2 DEF Mirror
  <2> QED
    BY <1>2, <1>3, <1>5, <2>1, <2>2, SameTruth, QuietStep
<1> QED
  BY <1>4, <1>5

\* News is delivered: a delivery waits for the lock.
LEMMA DeliverMirrors ==
  ASSUME BillingInv, MirrorInv, NEW c \in Calls, Deliver(c)
  PROVE  MirrorInv'
<1>1. calls \in [Calls -> Call]
  BY DEF BillingInv, TypeOK
<1>2. PICK q : q = [IdleCall EXCEPT !.kind = "webhook", !.step = "sync"]
  OBVIOUS
<1>3. q.kind = "webhook" /\ q.step = "sync"
  BY <1>2 DEF IdleCall
<1>4. calls' = [calls EXCEPT ![c] = q]
  BY <1>2 DEF Deliver, Starts
<1>5. \A d \in Calls : calls'[d] = IF d = c THEN q ELSE calls[d]
  BY <1>1, <1>4
<1>6. \A d, e \in Calls : calls'[d].step \in Copying /\ calls'[e].step \in Copying => d = e
  BY <1>3, <1>5 DEF MirrorInv, Copying
<1>7. \E d \in Calls : calls'[d].kind = "webhook" /\ calls'[d].step = "sync"
  BY <1>3, <1>5
<1> QED
  BY <1>6, <1>7 DEF MirrorInv

\* It lists under the lock: what it has listed is what is so.
LEMMA SyncListMirrors ==
  ASSUME BillingInv, MirrorInv, NEW c \in Calls, SyncList(c)
  PROVE  MirrorInv'
<1>1. calls \in [Calls -> Call] /\ calls[c] \in Call /\ calls[c].step = "sync"
  BY DEF BillingInv, TypeOK, SyncList, At
<1>2. PICK v : v = Provider
  OBVIOUS
<1>3. PICK q : q = [calls[c] EXCEPT !.step = "listed", !.view = v]
  OBVIOUS
<1>4. q.step = "listed" /\ q.view = v /\ q.kind = calls[c].kind
  BY <1>1, <1>3 DEF Call
<1>5. calls' = [calls EXCEPT ![c] = q]
  BY <1>2, <1>3 DEF SyncList
<1>6. \A d \in Calls : calls'[d] = IF d = c THEN q ELSE calls[d]
  BY <1>1, <1>5
<1>7. UNCHANGED <<subs, owed, user>>
  BY DEF SyncList
<1>8. Truth' = Truth /\ Listed' = Listed /\ Mirror' = Mirror
  <2>1. Mirror' = Mirror
    BY <1>7 DEF Mirror
  <2> QED
    BY <1>7, <2>1, SameTruth
<1>9. Part(q.view) = Truth
  BY <1>2, <1>4 DEF Part, Truth
<1>10. \A d \in Calls : calls[d].step \notin Copying
  BY DEF SyncList, Locked, Copying
<1>11. \A d, e \in Calls : calls'[d].step \in Copying /\ calls'[e].step \in Copying => d = e
  BY <1>6, <1>10
<1>12. CASE Listed = {} \/ owed
  BY <1>7, <1>8, <1>11, <1>12 DEF MirrorInv
<1>13. CASE \E d \in Calls : calls[d].kind = "webhook" /\ calls[d].step = "sync"
  <2>1. PICK d \in Calls : calls[d].kind = "webhook" /\ calls[d].step = "sync"
    BY <1>13
  <2>2. CASE d = c
    <3>1. /\ calls'[c].kind = "webhook" /\ calls'[c].step \in Copying
          /\ Part(calls'[c].view) = Truth'
      BY <1>4, <1>6, <1>8, <1>9, <2>1, <2>2 DEF Copying
    <3> QED
      BY <1>11, <3>1 DEF MirrorInv, Agrees
  <2>3. CASE d # c
    <3>1. calls'[d] = calls[d]
      BY <1>6, <2>3
    <3> QED
      BY <1>11, <2>1, <3>1 DEF MirrorInv
  <2> QED
    BY <2>2, <2>3
<1>14. CASE Mirror = Truth
  <2>1. Mirror' = Truth'
    BY <1>8, <1>14
  <2>2. \A d \in Calls : calls'[d].step \in Copying => Part(calls'[d].view) = Truth'
    BY <1>6, <1>8, <1>9, <1>10
  <2> QED
    BY <1>11, <2>1, <2>2 DEF MirrorInv, Agrees
<1> QED
  BY <1>10, <1>12, <1>13, <1>14 DEF MirrorInv

\* It reads what it has listed.
LEMMA SyncReadMirrors ==
  ASSUME BillingInv, MirrorInv, NEW c \in Calls, SyncRead(c)
  PROVE  MirrorInv'
<1>1. calls \in [Calls -> Call] /\ calls[c] \in Call /\ calls[c].step = "listed"
  BY DEF BillingInv, TypeOK, SyncRead, At
<1>2. PICK q : q = [calls[c] EXCEPT !.step = "read", !.trial = user.trial]
  OBVIOUS
<1>3. q.step = "read" /\ q.view = calls[c].view /\ q.kind = calls[c].kind
  BY <1>1, <1>2 DEF Call
<1>4. calls' = [calls EXCEPT ![c] = q]
  BY <1>2 DEF SyncRead
<1>5. \A d \in Calls : /\ calls'[d].kind = calls[d].kind /\ calls'[d].view = calls[d].view
                       /\ calls'[d].step \in Copying <=> calls[d].step \in Copying
                       /\ calls'[d].step = "sync" <=> calls[d].step = "sync"
  <2>1. \A d \in Calls : calls'[d] = IF d = c THEN q ELSE calls[d]
    BY <1>1, <1>4
  <2> QED
    BY <1>1, <1>3, <2>1 DEF Copying
<1>6. UNCHANGED <<subs, owed, user>>
  BY DEF SyncRead
<1>7. Truth' = Truth /\ Listed' = Listed /\ Mirror' = Mirror /\ owed' = owed
  <2>1. Mirror' = Mirror
    BY <1>6 DEF Mirror
  <2> QED
    BY <1>6, <2>1, SameTruth
<1>8. \A d, e \in Calls : calls'[d].step \in Copying /\ calls'[e].step \in Copying => d = e
  BY <1>5 DEF MirrorInv
<1>9. PICK t, m : t = Truth /\ m = Mirror
  OBVIOUS
<1>10. \/ Listed' = {} \/ owed'
       \/ \E d \in Calls : calls'[d].kind = "webhook" /\ calls'[d].step = "sync"
       \/ \E d \in Calls : /\ calls'[d].kind = "webhook" /\ calls'[d].step \in Copying
                           /\ Part(calls'[d].view) = t
       \/ m = t /\ \A d \in Calls : calls'[d].step \in Copying => Part(calls'[d].view) = t
  BY <1>5, <1>7, <1>9 DEF MirrorInv, Agrees
<1> QED
  BY <1>7, <1>8, <1>9, <1>10 DEF MirrorInv, Agrees

\* It writes: the mirror agrees if what it has read still is so.
LEMMA SyncWriteMirrors ==
  ASSUME BillingInv, MirrorInv, NEW c \in Calls, SyncWrite(c)
  PROVE  MirrorInv'
<1>1. /\ calls \in [Calls -> Call] /\ calls[c] \in Call /\ calls[c].step = "read"
      /\ user \in User
  BY DEF BillingInv, TypeOK, SyncWrite, At
<1>2. PICK q : /\ calls' = [calls EXCEPT ![c] = q] /\ q.step \notin Copying
  <2>1. CASE Ends(c)
    BY <2>1, IdleFacts DEF Ends, Copying
  <2>2. CASE Go(c, "return")
    <3>1. PICK q : q = [calls[c] EXCEPT !.step = "return"]
      OBVIOUS
    <3>2. q.step = "return"
      BY <1>1, <3>1 DEF Call
    <3>3. calls' = [calls EXCEPT ![c] = q]
      BY <2>2, <3>1 DEF Go
    <3> QED
      BY <3>2, <3>3 DEF Copying
  <2> QED
    BY <2>1, <2>2 DEF SyncWrite
<1>3. \A d \in Calls : calls'[d] = IF d = c THEN q ELSE calls[d]
  BY <1>1, <1>2
<1>4. \A d \in Calls : calls[d].step \in Copying => d = c
  BY <1>1 DEF MirrorInv, Copying
<1>5. \A d \in Calls : calls'[d].step \notin Copying
  BY <1>2, <1>3, <1>4
<1>6. Truth' = Truth /\ Listed' = Listed /\ owed' = owed
  <2>1. UNCHANGED <<subs, owed>>
    BY DEF SyncWrite
  <2> QED
    BY <2>1, SameTruth
<1>7. CASE Listed = {} \/ owed
  BY <1>5, <1>6, <1>7 DEF MirrorInv
<1>8. CASE \E d \in Calls : calls[d].kind = "webhook" /\ calls[d].step = "sync"
  <2>1. PICK d \in Calls : calls[d].kind = "webhook" /\ calls[d].step = "sync"
    BY <1>8
  <2>2. calls'[d] = calls[d]
    BY <1>1, <1>3, <2>1
  <2> QED
    BY <1>5, <2>1, <2>2 DEF MirrorInv
<1>9. CASE Listed # {} /\ Part(calls[c].view) = Truth
  <2>1. PICK v, trial, u : /\ v = calls[c].view /\ trial = calls[c].trial
                           /\ u = Mirrored(v, trial)
    OBVIOUS
  <2>2. v \in View /\ trial \in BOOLEAN
    BY <1>1, <2>1, CallFields
  <2>3. /\ u.sub = v.sub /\ u.status = v.status /\ u.blocks = v.blocks
        /\ u.plan = IF v.plan = "NONE" THEN user.plan ELSE v.plan
    BY <1>1, <2>1, <2>2, MirroredFacts
  <2>4. v.plan = Provider.plan
    BY <1>9, <2>1 DEF Part, Truth
  <2>5. v.plan \in Plans
    BY <1>9, <2>4, ProviderFacts DEF BillingInv
  <2>6. user' = u
    BY <2>1 DEF SyncWrite
  <2>7. u.plan = v.plan
    BY <2>3, <2>5 DEF Plans
  <2>8. Mirror' = Part(v)
    BY <2>3, <2>6, <2>7 DEF Mirror, Part
  <2>9. Mirror' = Truth'
    BY <1>6, <1>9, <2>1, <2>8
  <2> QED
    BY <1>5, <2>9 DEF MirrorInv, Agrees
<1> QED
  <2>1. \/ Listed = {} \/ owed
        \/ \E d \in Calls : calls[d].kind = "webhook" /\ calls[d].step = "sync"
        \/ Part(calls[c].view) = Truth
    BY <1>1, <1>4 DEF MirrorInv, Agrees, Copying
  <2> QED
    BY <1>7, <1>8, <1>9, <2>1

\* The trial, the end of the lease and the editors leave the mirror alone.
LEMMA OthersMirror ==
  ASSUME BillingInv, MirrorInv,
         \/ UNCHANGED vars
         \/ StartTrial \/ TrialEnds \/ LeaseLapses \/ \E p \in People : Remove(p)
  PROVE  MirrorInv'
<1>1. UNCHANGED <<subs, owed, calls>>
  BY DEF vars, StartTrial, TrialEnds, LeaseLapses, Remove
<1>2. Mirror' = Mirror
  <2>1. user \in User
    BY DEF BillingInv, TypeOK
  <2>2. user' = user \/ user' = [user EXCEPT !.trial = TRUE]
    BY DEF vars, StartTrial, TrialEnds, LeaseLapses, Remove
  <2> QED
    BY <2>1, <2>2 DEF Mirror, User
<1>3. Truth' = Truth /\ Listed' = Listed
  BY <1>1, SameTruth
<1> QED
  BY <1>1, <1>2, <1>3 DEF MirrorInv, Agrees

\* Every step keeps the mirror or owes news.
LEMMA MirrorNext ==
  ASSUME BillingInv, MirrorInv, [Next]_vars
  PROVE  MirrorInv'
<1>1. ASSUME NEW c \in Calls, Deliver(c) \/ SyncList(c) \/ Runs(c) \/ Failures(c) \/ Requests(c)
      PROVE  MirrorInv'
  <2>1. CASE Deliver(c) \/ SyncList(c) \/ Requests(c)
    BY <2>1, DeliverMirrors, SyncListMirrors, RequestsStep
  <2>2. CASE Failures(c)
    BY <2>2, GivesUpStep, BookkeepingStep DEF Failures
  <2>3. CASE Runs(c)
    <3>1. CASE Sync(c)
      BY <3>1, SyncReadMirrors, SyncWriteMirrors DEF Sync
    <3>2. CASE ~Sync(c)
      BY <2>3, <3>2, BookkeepingStep, ChangesOwe, CheckoutStep DEF Runs
    <3> QED
      BY <3>1, <3>2
  <2> QED
    BY <1>1, <2>1, <2>2, <2>3
<1>2. ASSUME NEW s \in Subs, Stripe(s)
      PROVE  MirrorInv'
  <2>1. owed' = TRUE /\ calls' = calls
    BY <1>2, StripeLives
  <2>2. calls \in [Calls -> Call]
    BY DEF BillingInv, TypeOK
  <2> QED
    BY <2>1, <2>2, OwedStep
<1> QED
  BY <1>1, <1>2, OthersMirror DEF Next

\* At first the mirror agrees.
LEMMA MirrorInit == Init => MirrorInv
<1> SUFFICES ASSUME Init PROVE MirrorInv
  OBVIOUS
<1>1. calls = [c \in Calls |-> IdleCall]
  BY DEF Init
<1>2. \A c \in Calls : calls[c].step \notin Copying
  BY <1>1, IdleFacts DEF Copying
<1>3. CASE subs = [s \in Subs |-> NoSub]
  <2>1. Listed = {}
    BY <1>3, NoSubFacts DEF Listed, Live
  <2> QED
    BY <1>2, <2>1 DEF MirrorInv
<1>4. ASSUME NEW items \in Items, NEW founder,
             subs = [s \in Subs |-> IF s = 1 THEN Running(items) ELSE NoSub],
             user = [Free(TRUE) EXCEPT !.sub = 1, !.status = "ACTIVE", !.plan = items.plan,
                                           !.blocks = items.blocks, !.founding = founder]
      PROVE  MirrorInv
  <2>1. PICK run : run = Running(items)
    OBVIOUS
  <2>2. run.status = "active" /\ run.items = items
    BY <2>1 DEF Running, NoSub
  <2>3. 1 \in Subs /\ subs[1] = run
    BY <1>4, <2>1, BillingAssumption DEF Subs
  <2>4. Listed = {1}
    BY <1>4, <2>1, <2>2, <2>3, NoSubFacts DEF Listed, Live
  <2>5. BillingInv
    BY BillingInit
  <2>6. selectAuthoritativeSubscription(Listed) = 1
    <3>1. PICK from : from = Listed
      OBVIOUS
    <3>2. from \in SUBSET Subs /\ \A s \in from : subs[s].status \in Live \cup {"canceled"}
      BY <3>1 DEF Listed
    <3>3. selectAuthoritativeSubscription(from) \in from
      BY <2>4, <3>1, <3>2, NewestFacts
    <3> QED
      BY <2>4, <3>1, <3>3
  <2>7. Provider = ViewOf(1)
    BY <2>6 DEF Provider
  <2>8. /\ Provider.sub = 1 /\ Provider.status = "ACTIVE" /\ Provider.plan = items.plan
        /\ Provider.blocks = items.blocks
    BY <2>2, <2>3, <2>7 DEF ViewOf, mapStripeSubscriptionStatus
  <2>9. /\ user.sub = 1 /\ user.status = "ACTIVE" /\ user.plan = items.plan
        /\ user.blocks = items.blocks
    BY <1>4 DEF Free
  <2>10. Mirror = Truth
    BY <2>8, <2>9 DEF Mirror, Truth
  <2> QED
    BY <1>2, <2>10 DEF MirrorInv, Agrees
<1> QED
  BY <1>3, <1>4 DEF Init

\* Once every notification is answered and nothing is being copied, the mirror that
\* access is read off (syncStripeCustomerSubscriptions) shows what the customer pays
\* for, in whatever order notifications, requests and slow answers of Stripe came in.
THEOREM MirrorIsCurrentHolds == Spec => []MirrorIsCurrent
<1>1. MirrorInv => MirrorIsCurrent
  BY DEF MirrorInv, MirrorIsCurrent, Agrees, Copying
<1>2. BillingInv /\ MirrorInv /\ [Next]_vars => MirrorInv'
  BY MirrorNext
<1> QED
  BY <1>1, <1>2, MirrorInit, BillingHolds, PTL DEF Spec
====
