----------------------------- MODULE WatchProgress -----------------------------
(***************************************************************************)
(* Where a viewer got to in each version of a video, saved while they      *)
(* watch and offered when they come back.                                  *)
(*                                                                         *)
(* The page keeps one save under way and one payload waiting; the answer   *)
(* of a save sends what waits.  The viewer may open another version, or    *)
(* leave, while a save is under way; what they leave with goes out as a    *)
(* beacon that nobody waits for.                                           *)
(***************************************************************************)
EXTENDS Naturals, FiniteSets

CONSTANTS
    LastPosition,  \* bound: positions of the player
    MinDelta,      \* a smaller move is not saved, 2 seconds
    MaxSends       \* bound: saves ever sent

VARIABLES
    version,  \* activeVersionId
    at,       \* the player's position in it
    reached,  \* positions the viewer was at, by version
    row,      \* WatchProgress rows, by version; 0 for none
    pending,  \* pendingProgressPayloadRef, or NoPayload
    busy,     \* progressWriteInFlightRef
    saved,    \* lastSavedProgressRef
    debounce, \* progressDebounceTimerRef
    sends,    \* saves under way
    sent,     \* saves ever sent
    crossed   \* another version was opened while a save was under way

vars == <<version, at, reached, row, pending, busy, saved, debounce, sends, sent, crossed>>

Versions == {1, 2}
Positions == 0 .. LastPosition
NoPayload == [progress |-> 0, force |-> FALSE]

TypeOK ==
    /\ version \in Versions /\ at \in Positions /\ saved \in Positions
    /\ reached \in [Versions -> SUBSET Positions] /\ row \in [Versions -> Positions]
    /\ pending.progress \in Positions /\ {busy, debounce, crossed} \subseteq BOOLEAN
    /\ Cardinality(sends) <= sent /\ sent <= MaxSends

Init ==
    /\ version = 1 /\ at = 0
    /\ reached = [v \in Versions |-> {0}] /\ row = [v \in Versions |-> 0]
    /\ pending = NoPayload /\ busy = FALSE /\ saved = 0 /\ debounce = FALSE
    /\ sends = {} /\ sent = 0 /\ crossed = FALSE

Far(a, b) == a >= b + MinDelta \/ b >= a + MinDelta
Higher(a, b) == IF a > b THEN a ELSE b

Send(v, progress, waits) ==
    /\ sent < MaxSends /\ sent' = sent + 1
    /\ sends' = sends \cup {[id |-> sent', of |-> v, progress |-> progress,
                             waits |-> waits, done |-> FALSE]}

\* Mutation: a save goes out whether or not one is under way.
FlushAnyway(v, payload, away) ==
    IF payload = NoPayload
    THEN pending' = payload /\ busy' = away /\ UNCHANGED <<sends, sent>>
    ELSE pending' = NoPayload /\ busy' = TRUE /\ Send(v, payload.progress, TRUE)

\* flushScheduledWatchProgress, of the version it was made for.
flushScheduledWatchProgress(v, payload, away) ==
    CASE away \/ payload = NoPayload ->
           pending' = payload /\ busy' = away /\ UNCHANGED <<sends, sent>>
      [] ~away /\ payload # NoPayload /\ ~payload.force /\ ~Far(payload.progress, saved) ->
           pending' = NoPayload /\ busy' = away /\ UNCHANGED <<sends, sent>>
      [] OTHER ->
           pending' = NoPayload /\ busy' = TRUE /\ Send(v, payload.progress, TRUE)

-----------------------------------------------------------------------------
\* The viewer watches on, or goes back.
Watch ==
    /\ at' \in Positions \ {at}
    /\ reached' = [reached EXCEPT ![version] = @ \cup {at'}]
    /\ UNCHANGED <<version, row, pending, busy, saved, debounce, sends, sent, crossed>>

\* scheduleWatchProgressSave: every five seconds, when the player pauses or ends, and
\* when the tab is hidden; the last three are forced and go out at once.
scheduleWatchProgressSave(force) ==
    /\ at > 0
    /\ force \/ Far(at, saved)
    /\ LET payload == [progress |-> Higher(pending.progress, at),
                       force |-> pending.force \/ force]
       IN IF force
          THEN debounce' = FALSE /\ flushScheduledWatchProgress(version, payload, busy)
          ELSE debounce' = TRUE /\ pending' = payload /\ UNCHANGED <<busy, sends, sent>>
    /\ UNCHANGED <<version, at, reached, row, saved, crossed>>

Debounced ==
    /\ debounce /\ debounce' = FALSE
    /\ flushScheduledWatchProgress(version, pending, busy)
    /\ UNCHANGED <<version, at, reached, row, saved, crossed>>

\* POST watch/[videoId]/progress writes the row of the version it names.
Saved(s) ==
    /\ ~s.done
    /\ row' = [row EXCEPT ![s.of] = s.progress]
    /\ sends' = (sends \ {s}) \cup (IF s.waits THEN {[s EXCEPT !.done = TRUE]} ELSE {})
    /\ UNCHANGED <<version, at, reached, pending, busy, saved, debounce, sent, crossed>>

\* The answer, or none: what waits goes out under the version of this save.
Answered(s) ==
    /\ s.waits
    /\ saved' = IF s.done THEN s.progress ELSE saved
    /\ LET rest == sends \ {s} IN
       IF pending = NoPayload \/ (~pending.force /\ ~Far(pending.progress, saved'))
       THEN /\ pending' = NoPayload /\ busy' = FALSE
            /\ sends' = rest /\ UNCHANGED sent
       ELSE /\ pending' = NoPayload /\ busy' = TRUE
            /\ sent < MaxSends /\ sent' = sent + 1
            /\ sends' = rest \cup {[id |-> sent', of |-> s.of, progress |-> pending.progress,
                                    waits |-> TRUE, done |-> FALSE]}
    /\ UNCHANGED <<version, at, reached, row, debounce, crossed>>

Lost(s) ==
    /\ ~s.done /\ ~s.waits /\ sends' = sends \ {s}
    /\ UNCHANGED <<version, at, reached, row, pending, busy, saved, debounce, sent, crossed>>

Fresh ==
    /\ pending' = NoPayload /\ busy' = FALSE /\ saved' = 0 /\ debounce' = FALSE

\* The effect of another version: nothing is under way for it, whatever is.
SwitchVersion ==
    /\ version' = 3 - version /\ at' = 0
    /\ Fresh
    /\ crossed' = (crossed \/ \E s \in sends : s.waits)
    /\ UNCHANGED <<reached, row, sends, sent>>

\* saveProgressOnLeave, and the page is opened again: answers find nobody.
Leave ==
    /\ LET final == Higher(at, pending.progress)
           unheard == {[s EXCEPT !.waits = FALSE] : s \in {t \in sends : ~t.done}}
       IN IF final > 0
          THEN /\ sent < MaxSends /\ sent' = sent + 1
               /\ sends' = unheard \cup {[id |-> sent', of |-> version, progress |-> final,
                                          waits |-> FALSE, done |-> FALSE]}
          ELSE sends' = unheard /\ UNCHANGED sent
    /\ Fresh /\ at' = 0 /\ UNCHANGED <<version, reached, row, crossed>>

Next ==
    \/ Watch \/ Debounced \/ SwitchVersion \/ Leave
    \/ \E force \in BOOLEAN : scheduleWatchProgressSave(force)
    \/ \E s \in sends : Saved(s) \/ Answered(s) \/ Lost(s)

Spec == Init /\ [][Next]_vars

-----------------------------------------------------------------------------
\* The page has one save under way at most, so that none overtakes another, and what
\* is stored for a version is a place the viewer was at in it; unless another version
\* was opened while a save was under way.
SavesInTurn ==
    ~crossed => /\ \A s, t \in sends : s.waits /\ t.waits => s = t
                /\ \A v \in Versions : row[v] \in reached[v]

\* Without that exception: what is stored for a version is a place the viewer was at in
\* it.  Not so when the answer of the old version's save sends what waits for the new.
RowsAreOwn == \A v \in Versions : row[v] \in reached[v]
===============================================================================
