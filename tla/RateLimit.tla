------------------------------- MODULE RateLimit -------------------------------
(***************************************************************************)
(* One bucket of the rate limiter: a row of an unlogged table that counts  *)
(* the calls of one key in a fixed window, and the cleanup that deletes    *)
(* old rows.                                                               *)
(*                                                                         *)
(* A call carries the time its statement began, NOW(), and takes effect    *)
(* later: it may wait for the row.  When the table does not answer, the    *)
(* call is let through; when the database restarts after a crash, an       *)
(* unlogged table is empty.                                                *)
(***************************************************************************)
EXTENDS Naturals

CONSTANTS
    Window,       \* windowMs
    MaxRequests,  \* maxRequests
    CleanupAge,   \* cleanup_rate_limits: an hour, as long as the longest window
    MaxWait,      \* bound: time a statement waits for the row
    LastTime      \* bound: time a behaviour lasts

ASSUME LimitAssumption ==
    /\ Window \in Nat /\ MaxRequests \in Nat \ {0} /\ CleanupAge \in Nat
    /\ MaxWait \in Nat /\ LastTime \in Nat
    /\ Window <= CleanupAge /\ 2 * MaxWait <= Window

VARIABLES
    now,
    bucket,   \* the row, or NoRow
    waiting,  \* the times at which waiting calls began
    from,     \* a stretch of time begins here
    passed,   \* calls begun in it that were counted and let through, until it is forgot
    forgot    \* the limiter lost its count in it

vars == <<now, bucket, waiting, from, passed, forgot>>

Times == 0 .. LastTime
NoRow == [count |-> 0, start |-> 0]

InStretch(t) == from <= t /\ t + 2 * MaxWait <= from + Window

TypeOK ==
    /\ now \in Times /\ waiting \subseteq Times /\ from \in Times
    /\ bucket.count \in Nat /\ bucket.start \in Times
    /\ passed \in Nat /\ forgot \in BOOLEAN

Init ==
    /\ now = 0 /\ bucket = NoRow /\ waiting = {}
    /\ from \in Times /\ passed = 0 /\ forgot = FALSE

\* checkRateLimit sends its statement.
Call ==
    /\ waiting' = waiting \cup {now}
    /\ UNCHANGED <<now, bucket, from, passed, forgot>>

\* Mutation: every call that is let through moves the window on.
UpsertSliding(t) ==
    /\ t \in waiting /\ waiting' \in {waiting, waiting \ {t}}
    /\ bucket' = IF bucket = NoRow \/ bucket.start + Window < t \/ bucket.count < MaxRequests
                 THEN [count |-> IF bucket.start + Window < t THEN 1 ELSE bucket.count + 1,
                       start |-> t]
                 ELSE [bucket EXCEPT !.start = t, !.count = 1]
    /\ passed' = IF bucket'.count <= MaxRequests /\ InStretch(t) /\ ~forgot
                 THEN passed + 1 ELSE passed
    /\ UNCHANGED <<now, from, forgot>>

\* The statement: a new row, a new window in the old row, or one call more in it.
\* Several calls may have begun at t.
Upsert(t) ==
    /\ t \in waiting /\ waiting' \in {waiting, waiting \ {t}}
    /\ bucket' = IF bucket = NoRow \/ bucket.start + Window < t
                 THEN [count |-> 1, start |-> t]
                 ELSE [bucket EXCEPT !.count = IF @ > MaxRequests THEN @ ELSE @ + 1]
    /\ passed' = IF bucket'.count <= MaxRequests /\ InStretch(t) /\ ~forgot
                 THEN passed + 1 ELSE passed
    /\ UNCHANGED <<now, from, forgot>>

\* The table does not answer: the call is let through uncounted.
Fails(t) ==
    /\ t \in waiting /\ waiting' = waiting \ {t}
    /\ forgot' = (forgot \/ InStretch(t))
    /\ UNCHANGED <<now, bucket, from, passed>>

\* cleanup_rate_limits, every few minutes in every process.
Cleanup ==
    /\ bucket # NoRow /\ bucket.start + CleanupAge < now
    /\ bucket' = NoRow
    /\ UNCHANGED <<now, waiting, from, passed, forgot>>

\* The database recovers from a crash, and its unlogged tables are emptied; the
\* statements under way are lost.
Restart ==
    /\ bucket' = NoRow /\ waiting' = {}
    /\ forgot' = (forgot \/ InStretch(now))
    /\ UNCHANGED <<now, from, passed>>

Tick ==
    /\ now < LastTime /\ now' = now + 1
    /\ \A t \in waiting : now' <= t + MaxWait
    /\ UNCHANGED <<bucket, waiting, from, passed, forgot>>

Next ==
    \/ Call \/ Cleanup \/ Restart \/ Tick
    \/ \E t \in Times : Upsert(t) \/ Fails(t)

Spec == Init /\ [][Next]_vars

-----------------------------------------------------------------------------
\* In a stretch of time as long as the window, less what a statement may wait for
\* its row before and after it, no more than twice the limit is counted and let
\* through, whatever the order in which waiting calls reach the row and whenever
\* the cleanup runs between them; unless a call went uncounted in that stretch or
\* the database lost the table.
TwiceTheLimit == ~forgot => passed <= 2 * MaxRequests
===============================================================================
