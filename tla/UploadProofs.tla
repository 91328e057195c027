----------------------------- MODULE UploadProofs -----------------------------
(***************************************************************************)
(* Theorems about R2Upload, for any number of uploads and requests and     *)
(* with or without crashes, and about BunnyUpload, for any finite number   *)
(* of files.                                                               *)
(*                                                                         *)
(* The bucket.  The safety invariants are not inductive by themselves:     *)
(* nothing in them says that the r2-init POST that inserts a session is    *)
(* the only one for its upload, or that a request in the middle of its     *)
(* work has a session.  IInv adds the three facts that are missing.        *)
(***************************************************************************)
EXTENDS MCUploads, FiniteSetTheorems, TLAPS

\* The r2-init POST that is about to write a session found none and is alone.
InitAlone ==
    /\ \A r \in Requests : at[r] \in InitSteps =>
           session[on[r]] = "none" /\ hold[on[r]] # "none"
    /\ \A r, q \in Requests :
           at[r] \in InitSteps /\ at[q] \in InitSteps /\ on[r] = on[q] => r = q

\* Every other request works on a session that exists.
SessionExists ==
    \A r \in Requests : at[r] \in Steps \ (InitSteps \cup {"idle"}) => session[on[r]] # "none"

\* Once an upload is old no request can attach or complete it.
OldAreQuiet ==
    /\ \A u \in sweep : age[u] = "old"
    /\ \A r \in Requests : at[r] \in AttachSteps \cup CompleteSteps => age[on[r]] # "old"

IInv ==
    /\ TypeOK
    /\ InitAlone
    /\ SessionExists
    /\ OldAreQuiet
    /\ RowsArePaidOnce
    /\ OneRowPerUpload
    /\ CleanupOnlyOfPending
    /\ SweeperSparesUsedObjects

-----------------------------------------------------------------------------
(***************************************************************************)
(* Type correctness: one step of the proof for each action.                *)
(***************************************************************************)

\* Every step, of a request, of the browser, of the sweeper or of time, keeps
\* each store and each request's position in its type.
LEMMA TypeStep == TypeOK /\ [Next]_vars => TypeOK'
<1> SUFFICES ASSUME TypeOK, [Next]_vars PROVE TypeOK'
  OBVIOUS
<1> USE DEF TypeOK, Row, Ages, Statuses, Contents, Steps, Running, InitSteps,
            CompleteSteps, CancelSteps, AttachSteps, RemoveSteps
<1>1. ASSUME NEW r \in Requests, ServerStep(r) PROVE TypeOK'
  <2>1. CASE InitPresign(r)
    BY <2>1 DEF InitPresign, Continue, Goto
  <2>2. CASE InitPresignFails(r)
    BY <2>2 DEF InitPresignFails, Continue, Goto, Released
  <2>3. CASE InitSession(r)
    BY <2>3 DEF InitSession, Continue, Goto
  <2>4. CASE InitSessionFails(r)
    BY <2>4 DEF InitSessionFails, Continue, Goto, stores
  <2>5. CASE CompleteSend(r)
    BY <2>5 DEF CompleteSend, Continue, Goto, Assemble
  <2>6. CASE CompleteSendFails(r)
    BY <2>6 DEF CompleteSendFails, Continue, Goto, Assemble
  <2>7. CASE CompleteAbort(r)
    BY <2>7 DEF CompleteAbort, Continue, Goto, AbortMultipart
  <2>8. CASE CompleteCancel(r)
    BY <2>8 DEF CompleteCancel, Continue, Goto, CancelSession
  <2>9. CASE CompleteRelease(r)
    BY <2>9 DEF CompleteRelease, Continue, Goto, Released
  <2>10. CASE CancelUpdate(r)
    BY <2>10 DEF CancelUpdate, Continue, Goto, CancelSession
  <2>11. CASE CancelDelete(r)
    BY <2>11 DEF CancelDelete, Continue, Goto, AbortMultipart, DeleteObject
  <2>12. CASE CancelRelease(r)
    BY <2>12 DEF CancelRelease, Continue, Goto, Released
  <2>13. CASE AttachHead(r)
    BY <2>13 DEF AttachHead, Continue, Goto, stores
  <2>14. CASE AttachMagic(r)
    BY <2>14 DEF AttachMagic, Continue, Goto, stores
  <2>15. CASE AttachCancel(r)
    BY <2>15 DEF AttachCancel, Continue, Goto, CancelSession
  <2>16. CASE AttachDelete(r)
    BY <2>16 DEF AttachDelete, Continue, Goto, DeleteObject
  <2>17. CASE CommitVersion(r)
    BY <2>17 DEF CommitVersion, Continue, Goto, Released, Finalize
  <2>18. CASE CommitAsset(r)
    BY <2>18 DEF CommitAsset, Continue, Goto, Released, Live, Finalize
  <2>19. CASE AttachFails(r)
    BY <2>19 DEF AttachFails, Continue, Goto, stores
  <2>20. CASE AttachAssetFails(r)
    BY <2>20 DEF AttachAssetFails, Continue, Goto, Released
  <2>21. CASE RemoveObject(r)
    BY <2>21 DEF RemoveObject, Continue, Goto, DeleteObject
  <2>22. CASE RemoveRows(r)
    BY <2>22 DEF RemoveRows, Continue, Goto, DropRows
  <2>23. QED
    BY <1>1, <2>1, <2>2, <2>3, <2>4, <2>5, <2>6, <2>7, <2>8, <2>9, <2>10,
       <2>11, <2>12, <2>13, <2>14, <2>15, <2>16, <2>17, <2>18, <2>19, <2>20,
       <2>21, <2>22 DEF ServerStep
<1>2. ASSUME NEW r \in Requests, NEW u \in Uploads, Arrive(r, u) PROVE TypeOK'
  <2>1. CASE InitReserve(r, u)
    BY <2>1 DEF InitReserve, Begin, Goto
  <2>2. CASE CompleteRead(r, u)
    BY <2>2 DEF CompleteRead, Begin, Goto, Unexpired, stores
  <2>3. CASE CancelRead(r, u)
    BY <2>3 DEF CancelRead, Begin, Goto, Unexpired, stores
  <2>4. CASE AttachRead(r, u)
    BY <2>4 DEF AttachRead, Begin, Goto, Unexpired, stores
  <2>5. CASE DeleteRow(r, u)
    BY <2>5 DEF DeleteRow, Begin, Goto, DropRows, HasRow
  <2>6. CASE DeleteVideo(r, u)
    BY <2>6 DEF DeleteVideo, Begin, Goto, DeleteObject, HasRow
  <2>7. CASE DeleteVideoFails(r, u)
    BY <2>7 DEF DeleteVideoFails, Begin, Goto, DeleteObject
  <2>8. QED
    BY <1>2, <2>1, <2>2, <2>3, <2>4, <2>5, <2>6, <2>7 DEF Arrive
<1>3. ASSUME NEW u \in Uploads, PutObject(u) PROVE TypeOK'
  BY <1>3 DEF PutObject
<1>4. ASSUME NEW u \in Uploads, Age(u) PROVE TypeOK'
  BY <1>4 DEF Age, InFlight
<1>5. ASSUME NEW u \in Uploads, SweepDelete(u) PROVE TypeOK'
  BY <1>5 DEF SweepDelete, DeleteObject
<1>6. ASSUME NEW u \in Uploads, SweepFails(u) PROVE TypeOK'
  BY <1>6 DEF SweepFails
<1>7. CASE SweepList
  BY <1>7 DEF SweepList, HasRow
<1>8. ASSUME NEW r \in Requests, Answer(r) PROVE TypeOK'
  BY <1>8 DEF Answer, Goto
<1>9. ASSUME NEW r \in Requests, Crash(r) PROVE TypeOK'
  BY <1>9 DEF Crash, Goto
<1>10. CASE UNCHANGED vars
  BY <1>10 DEF vars
<1>11. QED
  BY <1>1, <1>2, <1>3, <1>4, <1>5, <1>6, <1>7, <1>8, <1>9, <1>10 DEF Next

\* The stores and the requests keep their types whatever requests arrive, fail
\* or crash.
THEOREM TypeCorrect == Spec => []TypeOK
<1>1. Init => TypeOK
  BY DEF Init, TypeOK, Row, Ages, Statuses, Steps
<1>2. TypeOK /\ [Next]_vars => TypeOK'
  BY TypeStep
<1>3. QED
  BY <1>1, <1>2, PTL DEF Spec

-----------------------------------------------------------------------------
(***************************************************************************)
(* The inductive invariant.                                                *)
(***************************************************************************)
LEMMA InvInit == Init => IInv
  BY DEF Init, IInv, TypeOK, Row, Ages, Statuses, Steps, Running, InitSteps, CompleteSteps,
         CancelSteps, AttachSteps, RemoveSteps, InitAlone, SessionExists, OldAreQuiet,
         RowsArePaidOnce, OneRowPerUpload, CleanupOnlyOfPending, SweeperSparesUsedObjects

\* The invariant survives every step.  The commits need InitAlone (the hold they
\* release is not taken again), the r2-init insert needs it too (it overwrites
\* no settled session), and the sweeper's list needs OldAreQuiet.
LEMMA InvStep == IInv /\ [Next]_vars => IInv'
<1> SUFFICES ASSUME IInv, [Next]_vars PROVE IInv'
  OBVIOUS
<1>a. TypeOK /\ TypeOK'
  BY TypeStep DEF IInv
<1> DEFINE Others == /\ InitAlone /\ SessionExists /\ OldAreQuiet
                     /\ RowsArePaidOnce /\ OneRowPerUpload
                     /\ CleanupOnlyOfPending /\ SweeperSparesUsedObjects
<1>b. SUFFICES Others'
  BY <1>a DEF IInv
<1> USE <1>a DEF IInv, TypeOK, Row, Ages, Statuses, Contents, Steps, Running, InitSteps,
                 CompleteSteps, CancelSteps, AttachSteps, RemoveSteps, InitAlone,
                 SessionExists, OldAreQuiet, RowsArePaidOnce, OneRowPerUpload,
                 CleanupOnlyOfPending, SweeperSparesUsedObjects, InFlight, HasRow, Live
<1>1. ASSUME NEW r \in Requests, ServerStep(r) PROVE Others'
  <2>1. CASE InitPresign(r)
    BY <2>1 DEF InitPresign, Continue, Goto
  <2>2. CASE InitPresignFails(r)
    BY <2>2 DEF InitPresignFails, Continue, Goto, Released
  <2>3. CASE InitSession(r)
    BY <2>3 DEF InitSession, Continue, Goto
  <2>4. CASE InitSessionFails(r)
    BY <2>4 DEF InitSessionFails, Continue, Goto, stores
  <2>5. CASE CompleteSend(r)
    BY <2>5 DEF CompleteSend, Continue, Goto, Assemble
  <2>6. CASE CompleteSendFails(r)
    BY <2>6 DEF CompleteSendFails, Continue, Goto, Assemble
  <2>7. CASE CompleteAbort(r)
    BY <2>7 DEF CompleteAbort, Continue, Goto, AbortMultipart
  <2>8. CASE CompleteCancel(r)
    BY <2>8 DEF CompleteCancel, Continue, Goto, CancelSession
  <2>9. CASE CompleteRelease(r)
    BY <2>9 DEF CompleteRelease, Continue, Goto, Released
  <2>10. CASE CancelUpdate(r)
    BY <2>10 DEF CancelUpdate, Continue, Goto, CancelSession
  <2>11. CASE CancelDelete(r)
    BY <2>11 DEF CancelDelete, Continue, Goto, AbortMultipart, DeleteObject
  <2>12. CASE CancelRelease(r)
    BY <2>12 DEF CancelRelease, Continue, Goto, Released
  <2>13. CASE AttachHead(r)
    BY <2>13 DEF AttachHead, Continue, Goto, stores
  <2>14. CASE AttachMagic(r)
    BY <2>14 DEF AttachMagic, Continue, Goto, stores
  <2>15. CASE AttachCancel(r)
    BY <2>15 DEF AttachCancel, Continue, Goto, CancelSession
  <2>16. CASE AttachDelete(r)
    BY <2>16 DEF AttachDelete, Continue, Goto, DeleteObject
  <2>17. CASE CommitVersion(r)
    BY <2>17 DEF CommitVersion, Continue, Goto, Released, Finalize
  <2>18. CASE CommitAsset(r)
    BY <2>18 DEF CommitAsset, Continue, Goto, Released, Live, Finalize
  <2>19. CASE AttachFails(r)
    BY <2>19 DEF AttachFails, Continue, Goto, stores
  <2>20. CASE AttachAssetFails(r)
    BY <2>20 DEF AttachAssetFails, Continue, Goto, Released
  <2>21. CASE RemoveObject(r)
    BY <2>21 DEF RemoveObject, Continue, Goto, DeleteObject
  <2>22. CASE RemoveRows(r)
    BY <2>22 DEF RemoveRows, Continue, Goto, DropRows
  <2>23. QED
    BY <1>1, <2>1, <2>2, <2>3, <2>4, <2>5, <2>6, <2>7, <2>8, <2>9, <2>10,
       <2>11, <2>12, <2>13, <2>14, <2>15, <2>16, <2>17, <2>18, <2>19, <2>20,
       <2>21, <2>22 DEF ServerStep
<1>2. ASSUME NEW r \in Requests, NEW u \in Uploads, Arrive(r, u) PROVE Others'
  <2>1. CASE InitReserve(r, u)
    BY <2>1 DEF InitReserve, Begin, Goto
  <2>2. CASE CompleteRead(r, u)
    BY <2>2 DEF CompleteRead, Begin, Goto, Unexpired, stores
  <2>3. CASE CancelRead(r, u)
    BY <2>3 DEF CancelRead, Begin, Goto, Unexpired, stores
  <2>4. CASE AttachRead(r, u)
    BY <2>4 DEF AttachRead, Begin, Goto, Unexpired, stores
  <2>5. CASE DeleteRow(r, u)
    BY <2>5 DEF DeleteRow, Begin, Goto, DropRows, HasRow
  <2>6. CASE DeleteVideo(r, u)
    BY <2>6 DEF DeleteVideo, Begin, Goto, DeleteObject, HasRow
  <2>7. CASE DeleteVideoFails(r, u)
    BY <2>7 DEF DeleteVideoFails, Begin, Goto, DeleteObject
  <2>8. QED
    BY <1>2, <2>1, <2>2, <2>3, <2>4, <2>5, <2>6, <2>7 DEF Arrive
<1>3. ASSUME NEW u \in Uploads, PutObject(u) PROVE Others'
  BY <1>3 DEF PutObject
<1>4. ASSUME NEW u \in Uploads, Age(u) PROVE Others'
  BY <1>4 DEF Age, InFlight
<1>5. ASSUME NEW u \in Uploads, SweepDelete(u) PROVE Others'
  BY <1>5 DEF SweepDelete, DeleteObject
<1>6. ASSUME NEW u \in Uploads, SweepFails(u) PROVE Others'
  BY <1>6 DEF SweepFails
<1>7. CASE SweepList
  BY <1>7 DEF SweepList, HasRow
<1>8. ASSUME NEW r \in Requests, Answer(r) PROVE Others'
  BY <1>8 DEF Answer, Goto
<1>9. ASSUME NEW r \in Requests, Crash(r) PROVE Others'
  BY <1>9 DEF Crash, Goto
<1>10. CASE UNCHANGED vars
  BY <1>10 DEF vars
<1> HIDE DEF Others
<1>11. QED
  BY <1>1, <1>2, <1>3, <1>4, <1>5, <1>6, <1>7, <1>8, <1>9, <1>10 DEF Next

THEOREM Invariance == Spec => []IInv
  BY InvInit, InvStep, PTL DEF Spec

-----------------------------------------------------------------------------
(***************************************************************************)
(* What follows from it.                                                   *)
(***************************************************************************)

\* A version or asset row always stands on a finalized session whose
\* reservation no longer counts: no interleaving of the three committing routes
\* with cancellations, failures or crashes charges an upload twice.
THEOREM PaidOnce == Spec => []RowsArePaidOnce
<1>1. IInv => RowsArePaidOnce
  BY DEF IInv
<1>2. QED
  BY <1>1, Invariance, PTL

\* However many requests pass finalizeR2VideoUpload's checks for one upload, at
\* most one writes a row.
THEOREM OneRow == Spec => []OneRowPerUpload
<1>1. IInv => OneRowPerUpload
  BY DEF IInv
<1>2. QED
  BY <1>1, Invariance, PTL

\* A cancelling request reaches the bucket and the quota only for an upload that
\* no row owns.
THEOREM CleanupSafe == Spec => []CleanupOnlyOfPending
<1>1. IInv => CleanupOnlyOfPending
  BY DEF IInv
<1>2. QED
  BY <1>1, Invariance, PTL

\* What the orphan sweeper listed stays without a row, and without a request
\* that could write one, until it is deleted.
THEOREM SweeperSafe == Spec => []SweeperSparesUsedObjects
<1>1. IInv => SweeperSparesUsedObjects
  BY DEF IInv
<1>2. QED
  BY <1>1, Invariance, PTL

\* No step moves a finalized or cancelled session, and none gives a finalized
\* upload a row again once its row is deleted.
THEOREM Settled == Spec => SettledForGood
<1>1. ASSUME IInv, [Next]_vars
      PROVE  [\A u \in Uploads :
                 /\ session[u] \in {"FINALIZED", "CANCELLED"} => session'[u] = session[u]
                 /\ session[u] = "FINALIZED" /\ ~HasRow(u) => ~HasRow(u)']_vars
  <2> DEFINE Goal == \A u \in Uploads :
                        /\ session[u] \in {"FINALIZED", "CANCELLED"} => session'[u] = session[u]
                        /\ session[u] = "FINALIZED" /\ ~HasRow(u) => ~HasRow(u)'
  <2> SUFFICES ASSUME Next PROVE Goal
    BY <1>1
  <2> USE <1>1 DEF IInv, TypeOK, Row, Steps, InitSteps, InitAlone, HasRow
  <2>1. ASSUME NEW r \in Requests, ServerStep(r) PROVE Goal
    <3>1. CASE InitSession(r)
      BY <3>1 DEF InitSession, Continue, Goto
    <3>2. CASE CompleteCancel(r) \/ CancelUpdate(r) \/ AttachCancel(r)
      BY <3>2 DEF CompleteCancel, CancelUpdate, AttachCancel, CancelSession
    <3>3. CASE CommitVersion(r) \/ CommitAsset(r)
      BY <3>3 DEF CommitVersion, CommitAsset, Finalize, Continue
    <3>4. CASE RemoveRows(r)
      BY <3>4 DEF RemoveRows, DropRows
    <3>5. CASE UNCHANGED <<session, rows>>
      BY <3>5
    <3>6. QED
      BY <2>1, <3>1, <3>2, <3>3, <3>4, <3>5
         DEF ServerStep, InitPresign, InitPresignFails, InitSessionFails, CompleteSend,
             CompleteSendFails, CompleteAbort, CompleteRelease, CancelDelete, CancelRelease,
             AttachHead, AttachMagic, AttachDelete, AttachFails, AttachAssetFails,
             RemoveObject, stores
  <2>2. ASSUME NEW r \in Requests, NEW u \in Uploads, Arrive(r, u) PROVE Goal
    BY <2>2 DEF Arrive, InitReserve, CompleteRead, CancelRead, AttachRead, DeleteRow,
                DeleteVideo, DeleteVideoFails, DropRows, stores
  <2>3. CASE UNCHANGED <<session, rows>>
    BY <2>3
  <2> HIDE DEF Goal
  <2>4. QED
    BY <2>1, <2>2, <2>3
       DEF Next, Answer, Crash, PutObject, Age, SweepDelete, SweepFails, SweepList
<1>2. QED
  BY <1>1, Invariance, PTL DEF Spec, SettledForGood

-----------------------------------------------------------------------------
(***************************************************************************)
(* Bunny.  One clean-up works at a time, on a video that no row names, and *)
(* is asked for once by the loop, which then awaits it, and once by the    *)
(* button, which no ref leads to twice.  A file that has not been sent has *)
(* neither a row nor a save under way.  What the orphan script has listed  *)
(* is so old that its grant is over: no row comes to it any more.          *)
(***************************************************************************)

Unsent == {"new", "queued", "init"}
ByLoop(f) == <<f, "loop">>
ByButton(f) == <<f, "button">>

CleaningAlone ==
    \A w \in Files \X Bunny!Askers :
        wipe[w] = "working" => lock = w /\ attached[w[1]] = 0

LoopAwaits ==
    /\ \A f \in Files : wipe[ByLoop(f)] # "none" => loop[f] \in {"cleaning", "over"}
    /\ \A f \in Files : tusRef = f => loop[f] = "sending"

ButtonAsksOnce ==
    \A f \in Files :
        /\ pendingRef = f \/ cancelling = f \/ wipe[ByButton(f)] # "none" => loop[f] \notin Unsent
        /\ wipe[ByButton(f)] # "none" => cancelling = f \/ pendingRef # f

UnsentIsUnsaved ==
    \A f \in Files : /\ loop[f] \in Unsent => attached[f] = 0 /\ post[f] = "none"
                     /\ loop[f] = "new" => of[f] = 0

ListedIsOld ==
    \A f \in script.of :
        elapsed[f] = Bunny!Week /\ (script.step = "deleting" => attached[f] = 0)

BunnyInv ==
    /\ Bunny!TypeOK
    /\ CleaningAlone
    /\ LoopAwaits
    /\ ButtonAsksOnce
    /\ UnsentIsUnsaved
    /\ ListedIsOld

Loops == Bunny!InHand \cup {"new", "queued", "over"}
Shown == {"hidden", "pending", "uploading", "done", "error", "cancelled"}
Posts == {"none", "sent", "ok", "bad"}
Wipes == {"none", "sent", "working", "answered"}
Videos == Bunny!Present \cup {"none", "gone"}
Drops == 0 .. Bunny!Cardinality(Files)
Holds == {"none", "held", "released", "lapsed"}
Cleanups == Files \X Bunny!Askers

\* The types, each by its name.
LEMMA BunnyTypes ==
    ASSUME Bunny!TypeOK
    PROVE  /\ loop \in [Files -> Loops] /\ of \in [Files -> Drops]
           /\ status \in [Files -> Shown] /\ cancelRef \in BOOLEAN /\ uploading \in BOOLEAN
           /\ tusRef \in Files \cup {None} /\ pendingRef \in Files \cup {None}
           /\ cancelling \in Files \cup {None}
           /\ post \in [Files -> Posts] /\ wipe \in [Cleanups -> Wipes]
           /\ media \in [Files -> Videos] /\ granted \in [Files -> Holds]
           /\ attached \in [Files -> 0 .. 1]
<1>1. {tusRef, pendingRef, cancelling} \subseteq Files \cup {None}
  BY DEF Bunny!TypeOK
<1>2. /\ loop \in [Files -> Loops] /\ of \in [Files -> Drops]
      /\ status \in [Files -> Shown]
  BY DEF Bunny!TypeOK, Loops, Shown, Drops
<1>5. cancelRef \in BOOLEAN /\ uploading \in BOOLEAN
  BY ZenonT(20) DEF Bunny!TypeOK
<1>3. post \in [Files -> Posts] /\ wipe \in [Cleanups -> Wipes]
  BY DEF Bunny!TypeOK, Posts, Wipes, Cleanups
<1>4. /\ media \in [Files -> Videos] /\ granted \in [Files -> Holds]
      /\ attached \in [Files -> 0 .. 1]
  BY DEF Bunny!TypeOK, Videos, Holds
<1> QED
  BY <1>1, <1>2, <1>3, <1>4, <1>5

\* The loop's clean-ups and the button's are each of one file.
LEMMA CleanupMade ==
    ASSUME NEW f \in Files, NEW g \in Files
    PROVE  /\ ByLoop(f) \in Cleanups /\ ByButton(f) \in Cleanups
           /\ ByLoop(f) # ByButton(g)
           /\ f # g => ByLoop(f) # ByLoop(g) /\ ByButton(f) # ByButton(g)
BY DEF Cleanups, Bunny!Askers, ByLoop, ByButton

\* What a step of the page must keep: a clean-up at work works on, no row is written and
\* a file that has not been sent was not sent before.
LEMMA PageKeeps ==
    ASSUME BunnyInv, UNCHANGED <<lock, attached, elapsed, script>>,
           loop' \in [Files -> Loops], of' \in [Files -> Drops],
           status' \in [Files -> Shown], cancelRef' \in BOOLEAN, uploading' \in BOOLEAN,
           tusRef' \in Files \cup {None}, pendingRef' \in Files \cup {None},
           cancelling' \in Files \cup {None},
           post' \in [Files -> Posts], wipe' \in [Cleanups -> Wipes],
           media' \in [Files -> Videos], granted' \in [Files -> Holds],
           \A w \in Cleanups : wipe'[w] = "working" <=> wipe[w] = "working",
           \A f \in Files : attached[f] = 1 => granted'[f] # "held",
           \A f \in Files : loop'[f] \in Unsent => loop[f] \in Unsent /\ post'[f] = "none",
           \A f \in Files : loop'[f] = "new" => of'[f] = 0,
           LoopAwaits', ButtonAsksOnce'
    PROVE  BunnyInv'
<1>1. lock' \in Cleanups \cup {None} /\ (lock' # None => wipe'[lock'] = "working")
  <2>1. lock \in Cleanups \cup {None} /\ (lock # None => wipe[lock] = "working")
    BY DEF BunnyInv, Bunny!TypeOK, Cleanups
  <2>2. CASE lock = None
    BY <2>2
  <2>3. CASE lock \in Cleanups
    BY <2>1, <2>3
  <2> QED
    BY <2>1, <2>2, <2>3
<1>2. Bunny!TypeOK'
  <2>1. /\ attached' \in [Files -> 0 .. 1] /\ elapsed' \in [Files -> 0 .. Bunny!Week]
        /\ script'.step \in {"idle", "listed", "deleting"} /\ script'.of \subseteq Files
    BY DEF BunnyInv, Bunny!TypeOK
  <2>2. \A f \in Files : attached'[f] = 1 => granted'[f] # "held"
    OBVIOUS
  <2>3. {tusRef', pendingRef', cancelling'} \subseteq Files \cup {None}
    OBVIOUS
  <2>4. /\ loop' \in [Files -> Bunny!InHand \cup {"new", "queued", "over"}]
        /\ status' \in [Files -> {"hidden", "pending", "uploading", "done", "error", "cancelled"}]
    BY DEF Loops, Shown
  <2>5. /\ post' \in [Files -> {"none", "sent", "ok", "bad"}]
        /\ wipe' \in [Files \X Bunny!Askers -> {"none", "sent", "working", "answered"}]
        /\ lock' \in (Files \X Bunny!Askers) \cup {None}
    BY <1>1 DEF Posts, Wipes, Cleanups
  <2>7. of' \in [Files -> 0 .. Bunny!Cardinality(Files)]
    BY DEF Drops
  <2>6. /\ media' \in [Files -> Bunny!Present \cup {"none", "gone"}]
        /\ granted' \in [Files -> {"none", "held", "released", "lapsed"}]
    BY DEF Videos, Holds
  <2> QED
    BY <1>1, <2>1, <2>2, <2>3, <2>4, <2>5, <2>6, <2>7 DEF Bunny!TypeOK
<1>3. CleaningAlone'
  BY DEF BunnyInv, CleaningAlone, Cleanups
<1>4. UnsentIsUnsaved' /\ ListedIsOld'
  BY DEF BunnyInv, UnsentIsUnsaved, ListedIsOld, Unsent
<1> QED
  BY <1>2, <1>3, <1>4 DEF BunnyInv

\* The loop gives up on a file it holds a grant for: its only clean-up is sent.
LEMMA GivesUp ==
    ASSUME BunnyInv, NEW f \in Files, loop[f] \in {"init", "sending", "saving"},
           Bunny!GiveUp(f)
    PROVE  /\ loop' \in [Files -> Loops] /\ loop'[f] = "cleaning"
           /\ \A g \in Files : g # f => loop'[g] = loop[g]
           /\ UNCHANGED <<of, status, cancelRef, uploading, cancelling>>
           /\ wipe' \in [Cleanups -> Wipes]
           /\ \A w \in Cleanups : wipe'[w] = "working" <=> wipe[w] = "working"
           /\ \A g \in Files : /\ g # f => wipe'[ByLoop(g)] = wipe[ByLoop(g)]
                               /\ wipe'[ByButton(g)] = wipe[ByButton(g)]
<1>1. /\ loop' = [loop EXCEPT ![f] = "cleaning"]
      /\ wipe' = [wipe EXCEPT ![ByLoop(f)] = "sent"]
      /\ UNCHANGED <<of, status, cancelRef, uploading, cancelling>>
  BY DEF Bunny!GiveUp, ByLoop
<1>2. loop \in [Files -> Loops] /\ wipe \in [Cleanups -> Wipes]
  BY BunnyTypes DEF BunnyInv
<1>3. wipe[ByLoop(f)] = "none"
  BY DEF BunnyInv, LoopAwaits
<1>4. "cleaning" \in Loops /\ "sent" \in Wipes
  BY DEF Loops, Bunny!InHand, Wipes
<1> QED
  BY <1>1, <1>2, <1>3, <1>4, CleanupMade

\* Fewer drops than files: a file that has just landed belongs to none.
LEMMA DropCounts ==
    ASSUME of \in [Files -> Drops], NEW g \in Files, of[g] = 0
    PROVE  Bunny!Cardinality({of[f] : f \in Files} \ {0}) + 1 \in Drops
<1> DEFINE others == Files \ {g}
           drops == {of[f] : f \in Files} \ {0}
           seen == {of[f] : f \in others}
<1>1. /\ IsFiniteSet(Files) /\ IsFiniteSet(others)
      /\ Cardinality(others) = Cardinality(Files) - 1
      /\ Cardinality(Files) \in Nat /\ Cardinality(others) \in Nat
  BY FilesAssumption, FS_RemoveElement, FS_CardinalityType
<1>2. IsFiniteSet(seen) /\ Cardinality(seen) <= Cardinality(others)
  <2>1. ([f \in others |-> of[f]]) \in Surjection(others, seen)
    BY DEF Surjection
  <2> QED
    BY <1>1, <2>1, FS_Surjection
<1>3. drops \subseteq seen
  OBVIOUS
<1>4. IsFiniteSet(drops) /\ Cardinality(drops) <= Cardinality(seen)
  BY <1>2, <1>3, FS_Subset
<1>5. Cardinality(drops) \in Nat /\ Cardinality(seen) \in Nat
  BY <1>2, <1>4, FS_CardinalityType
<1>6. \A S : Bunny!Cardinality(S) = Cardinality(S)
  BY DEF Bunny!Cardinality, Cardinality
<1>7. Cardinality(drops) + 1 \in 0 .. Cardinality(Files)
  BY <1>1, <1>2, <1>4, <1>5
<1> QED
  BY <1>6, <1>7 DEF Drops

\* What the loop does when it is through with a file.
LEMMA ProceedKeeps ==
    ASSUME BunnyInv, NEW f \in Files, NEW end \in {"done", "error"},
           loop[f] \in {"init", "saving", "cleaning"}, Bunny!Proceed(f, end)
    PROVE  /\ loop' \in [Files -> Loops]
           /\ status' \in [Files -> Shown]
           /\ uploading' \in BOOLEAN /\ tusRef' = None /\ pendingRef' = None
           /\ UNCHANGED <<of, cancelRef, cancelling>>
           /\ \A g \in Files : loop'[g] \in Unsent => loop[g] \in Unsent
           /\ \A g \in Files : loop[g] = "over" => loop'[g] = "over"
           /\ \A g \in Files : loop[g] = "cleaning" /\ g # f => loop'[g] = "cleaning"
           /\ loop'[f] = "over"
           /\ \A g \in Files : loop'[g] = "new" => loop[g] = "new"
<1>1. \A g : Bunny!Told(f, end, g) \in
                [Files -> Shown]
  BY DEF BunnyInv, Bunny!TypeOK, Bunny!Told, Shown
<1>2. \A g \in Bunny!Waiting(f) : g \in Files /\ loop[g] = "queued"
  BY DEF Bunny!Waiting
<1>3. /\ loop \in [Files -> Loops]
      /\ status \in [Files -> Shown]
      /\ uploading \in BOOLEAN
  BY BunnyTypes DEF BunnyInv
<1>4. tusRef' = None /\ pendingRef' = None /\ UNCHANGED <<of, cancelRef, cancelling>>
  BY DEF Bunny!Proceed
<1>5. CASE cancelRef \/ Bunny!Waiting(f) = {}
  <2>1. /\ loop' = [g \in Files |-> IF g \in Bunny!Waiting(f) \cup {f} THEN "over" ELSE loop[g]]
        /\ status' = IF cancelRef THEN status ELSE Bunny!Told(f, end, f)
        /\ uploading' = FALSE
    BY <1>5 DEF Bunny!Proceed
  <2> QED
    BY <1>1, <1>2, <1>3, <1>4, <2>1 DEF Unsent, Loops
<1>6. CASE ~(cancelRef \/ Bunny!Waiting(f) = {})
  <2>1. PICK g \in Bunny!Waiting(f) :
           /\ loop' = [loop EXCEPT ![f] = "over", ![g] = "init"]
           /\ status' = Bunny!Told(f, end, g) /\ UNCHANGED uploading
    BY <1>6 DEF Bunny!Proceed
  <2> QED
    BY <1>1, <1>2, <1>3, <1>4, <2>1 DEF Unsent, Loops, Bunny!InHand
<1> QED
  BY <1>5, <1>6

\* Files land on the window.
LEMMA DropKeeps ==
    ASSUME BunnyInv, NEW S \in SUBSET Files, Bunny!Drop(S)
    PROVE  BunnyInv'
<1>1. PICK g \in S : loop[g] = "new" /\ of[g] = 0
  BY DEF Bunny!Drop, BunnyInv, UnsentIsUnsaved
<1>2. PICK n \in Drops : n = Bunny!Cardinality({of[f] : f \in Files} \ {0}) + 1
  BY <1>1, DropCounts, BunnyTypes DEF BunnyInv
<1>3. of' = [f \in Files |-> IF f \in S THEN n ELSE of[f]]
  BY <1>2 DEF Bunny!Drop
<1>4. PICK first \in S :
        /\ loop' = [f \in Files |->
                      IF f = first THEN "init" ELSE IF f \in S THEN "queued" ELSE loop[f]]
        /\ status' = [f \in Files |->
                        IF f = first THEN "uploading" ELSE IF f \in S THEN "pending" ELSE "hidden"]
  BY DEF Bunny!Drop
<1>5. \A f \in S : loop[f] = "new"
  BY DEF Bunny!Drop
<1>6. /\ cancelRef' = FALSE /\ uploading' = TRUE
      /\ UNCHANGED <<tusRef, pendingRef, cancelling, Bunny!server>>
  BY DEF Bunny!Drop
<1>7. loop' \in [Files -> Loops] /\ status' \in [Files -> Shown]
  BY <1>4, BunnyTypes DEF BunnyInv, Loops, Shown, Bunny!InHand
<1>8. of' \in [Files -> Drops]
  BY <1>3, BunnyTypes DEF BunnyInv
<1>9. \A f \in Files : /\ loop'[f] \in Unsent => loop[f] \in Unsent /\ post[f] = "none"
                       /\ loop'[f] = "new" => of'[f] = 0
  BY <1>3, <1>4, <1>5 DEF BunnyInv, UnsentIsUnsaved, Unsent
<1>10. LoopAwaits' /\ ButtonAsksOnce'
  BY <1>4, <1>5, <1>6 DEF BunnyInv, LoopAwaits, ButtonAsksOnce, Unsent, Bunny!server
<1> QED
  BY <1>6, <1>7, <1>8, <1>9, <1>10, BunnyTypes, PageKeeps DEF BunnyInv, Bunny!TypeOK, Bunny!server

\* A grant comes: to the loop, or to nobody after a cancel.
LEMMA GrantedKeeps ==
    ASSUME BunnyInv, NEW f \in Files, Bunny!Granted(f)
    PROVE  BunnyInv'
<1>1. /\ loop[f] = "init" /\ pendingRef' = f
      /\ granted' = [granted EXCEPT ![f] = "held"] /\ media' = [media EXCEPT ![f] = "empty"]
      /\ UNCHANGED <<tusRef, post, lock, attached, elapsed, script>>
  BY DEF Bunny!Granted
<1>2. /\ granted' \in [Files -> Holds] /\ media' \in [Files -> Videos]
      /\ \A g \in Files : attached[g] = 1 => granted'[g] # "held"
  BY <1>1, BunnyTypes
     DEF BunnyInv, Bunny!TypeOK, UnsentIsUnsaved, Unsent, Holds, Videos, Bunny!Present
<1>3. /\ loop' \in [Files -> Loops] /\ loop'[f] \in {"cleaning", "loading"}
      /\ \A g \in Files : g # f => loop'[g] = loop[g]
      /\ UNCHANGED <<of, status, cancelRef, uploading, cancelling>>
      /\ wipe' \in [Cleanups -> Wipes]
      /\ \A w \in Cleanups : wipe'[w] = "working" <=> wipe[w] = "working"
      /\ \A g \in Files : /\ g # f => wipe'[ByLoop(g)] = wipe[ByLoop(g)]
                          /\ wipe'[ByButton(g)] = wipe[ByButton(g)]
      /\ loop'[f] = "loading" => wipe' = wipe
  <2>1. CASE cancelRef
    BY <1>1, <2>1, GivesUp DEF Bunny!Granted
  <2>2. CASE ~cancelRef
    <3>1. /\ loop' = [loop EXCEPT ![f] = "loading"]
          /\ UNCHANGED <<of, status, cancelRef, uploading, cancelling, wipe>>
      BY <2>2 DEF Bunny!Granted
    <3> QED
      BY <3>1, BunnyTypes DEF BunnyInv, Loops, Bunny!InHand
  <2> QED
    BY <2>1, <2>2
<1>4. LoopAwaits'
  BY <1>1, <1>3 DEF BunnyInv, LoopAwaits
<1>5. ButtonAsksOnce'
  BY <1>1, <1>3 DEF BunnyInv, ButtonAsksOnce, Unsent
<1>6. \A g \in Files : /\ loop'[g] \in Unsent => loop[g] \in Unsent /\ post'[g] = "none"
                       /\ loop'[g] = "new" => of'[g] = 0
  BY <1>1, <1>3 DEF BunnyInv, UnsentIsUnsaved, Unsent
<1> QED
  BY <1>1, <1>2, <1>3, <1>4, <1>5, <1>6, BunnyTypes, PageKeeps DEF BunnyInv

\* The loop is through with a file: its init failed, its row is saved, or it is cleaned up.
LEMMA ThroughKeeps ==
    ASSUME BunnyInv, NEW f \in Files,
           Bunny!InitFails(f) \/ Bunny!Saved(f) \/ Bunny!CleanedUp(f)
    PROVE  BunnyInv'
<1>1. /\ loop[f] \in {"init", "saving", "cleaning"}
      /\ \E end \in {"done", "error"} : Bunny!Proceed(f, end)
      /\ UNCHANGED <<lock, attached, elapsed, script>>
  BY DEF Bunny!InitFails, Bunny!Saved, Bunny!CleanedUp
<1>2. /\ loop' \in [Files -> Loops] /\ status' \in [Files -> Shown]
      /\ uploading' \in BOOLEAN /\ tusRef' = None /\ pendingRef' = None
      /\ UNCHANGED <<of, cancelRef, cancelling>>
      /\ \A g \in Files : loop'[g] \in Unsent => loop[g] \in Unsent
      /\ \A g \in Files : loop[g] = "over" => loop'[g] = "over"
      /\ \A g \in Files : loop[g] = "cleaning" /\ g # f => loop'[g] = "cleaning"
      /\ loop'[f] = "over"
      /\ \A g \in Files : loop'[g] = "new" => loop[g] = "new"
  BY <1>1, ProceedKeeps
<1>3. /\ granted' \in [Files -> Holds] /\ media' \in [Files -> Videos]
      /\ \A g \in Files : attached[g] = 1 => granted'[g] # "held"
  <2>1. CASE Bunny!InitFails(f)
    <3>1. PICK left \in {<<"none", "none">>, <<"held", "none">>, <<"held", "empty">>} :
             granted' = [granted EXCEPT ![f] = left[1]] /\ media' = [media EXCEPT ![f] = left[2]]
      BY <2>1 DEF Bunny!InitFails
    <3>2. left[1] \in Holds /\ left[2] \in Videos
      BY DEF Holds, Videos, Bunny!Present
    <3> QED
      BY <2>1, <3>1, <3>2, BunnyTypes
         DEF BunnyInv, Bunny!TypeOK, UnsentIsUnsaved, Unsent, Bunny!InitFails
  <2>2. CASE UNCHANGED <<granted, media>>
    BY <2>2, BunnyTypes DEF BunnyInv, Bunny!TypeOK
  <2> QED
    BY <2>1, <2>2 DEF Bunny!Saved, Bunny!CleanedUp
<1>4. /\ post' \in [Files -> Posts]
      /\ \A g \in Files : post[g] = "none" => post'[g] = "none"
  BY BunnyTypes DEF BunnyInv, Bunny!InitFails, Bunny!Saved, Bunny!CleanedUp, Posts
<1>5. /\ wipe' \in [Cleanups -> Wipes]
      /\ \A w \in Cleanups : /\ wipe'[w] = "working" <=> wipe[w] = "working"
                             /\ wipe'[w] # "none" => wipe[w] # "none"
  <2>1. CASE Bunny!CleanedUp(f)
    <3>1. wipe' = [wipe EXCEPT ![ByLoop(f)] = "none"] /\ wipe[ByLoop(f)] = "answered"
      BY <2>1 DEF Bunny!CleanedUp, ByLoop
    <3> QED
      BY <3>1, BunnyTypes, CleanupMade DEF BunnyInv, Wipes
  <2>2. CASE UNCHANGED wipe
    BY <2>2, BunnyTypes DEF BunnyInv
  <2> QED
    BY <2>1, <2>2 DEF Bunny!InitFails, Bunny!Saved
<1>6. LoopAwaits'
  BY <1>1, <1>2, <1>5, CleanupMade, FilesAssumption DEF BunnyInv, LoopAwaits
<1>7. ButtonAsksOnce'
  BY <1>2, <1>5, CleanupMade, FilesAssumption DEF BunnyInv, ButtonAsksOnce
<1>8. \A g \in Files : /\ loop'[g] \in Unsent => loop[g] \in Unsent /\ post'[g] = "none"
                       /\ loop'[g] = "new" => of'[g] = 0
  BY <1>2, <1>4 DEF BunnyInv, UnsentIsUnsaved
<1> QED
  BY <1>1, <1>2, <1>3, <1>4, <1>5, <1>6, <1>7, <1>8, BunnyTypes, PageKeeps DEF BunnyInv

\* Sending: it starts, ends or fails, and what was sent is saved or refused.
LEMMA SendKeeps ==
    ASSUME BunnyInv, NEW f \in Files,
           Bunny!StartTus(f) \/ Bunny!TusDone(f) \/ Bunny!TusFails(f) \/ Bunny!SaveFails(f)
    PROVE  BunnyInv'
<1>1. CASE Bunny!StartTus(f)
  <2>1. /\ loop[f] = "loading" /\ loop' = [loop EXCEPT ![f] = "sending"] /\ tusRef' = f
        /\ UNCHANGED <<of, status, cancelRef, pendingRef, uploading, cancelling, post, wipe>>
        /\ UNCHANGED <<lock, media, granted, attached, elapsed, script>>
    BY <1>1 DEF Bunny!StartTus, Bunny!server
  <2>2. loop' \in [Files -> Loops]
    BY <2>1, BunnyTypes DEF BunnyInv, Loops, Bunny!InHand
  <2>3. LoopAwaits' /\ ButtonAsksOnce'
    BY <2>1, BunnyTypes DEF BunnyInv, LoopAwaits, ButtonAsksOnce, Unsent
  <2>4. \A g \in Files : /\ loop'[g] \in Unsent => loop[g] \in Unsent /\ post'[g] = "none"
                         /\ loop'[g] = "new" => of'[g] = 0
    BY <2>1, BunnyTypes DEF BunnyInv, UnsentIsUnsaved, Unsent
  <2>5. \A g \in Files : attached[g] = 1 => granted'[g] # "held"
    BY <2>1 DEF BunnyInv, Bunny!TypeOK
  <2> QED
    BY <2>1, <2>2, <2>3, <2>4, <2>5, BunnyTypes, PageKeeps DEF BunnyInv
<1>2. CASE ~Bunny!StartTus(f)
  <2>1. /\ loop[f] \in {"sending", "saving"}
        /\ UNCHANGED <<lock, granted, attached, elapsed, script>>
        /\ UNCHANGED <<of, status, cancelRef, pendingRef, uploading, cancelling>>
        /\ tusRef' \in {None, tusRef} /\ (loop[f] = "sending" => tusRef' = None)
    BY <1>2 DEF Bunny!TusDone, Bunny!TusFails, Bunny!SaveFails, Bunny!GiveUp
  <2>2. media' \in [Files -> Videos]
    BY <1>2, BunnyTypes
       DEF BunnyInv, Bunny!TusDone, Bunny!TusFails, Bunny!SaveFails, Videos, Bunny!Present
  <2>3. /\ loop' \in [Files -> Loops] /\ loop'[f] \in {"cleaning", "saving"}
        /\ \A g \in Files : g # f => loop'[g] = loop[g]
        /\ wipe' \in [Cleanups -> Wipes]
        /\ \A w \in Cleanups : wipe'[w] = "working" <=> wipe[w] = "working"
        /\ \A g \in Files : /\ g # f => wipe'[ByLoop(g)] = wipe[ByLoop(g)]
                            /\ wipe'[ByButton(g)] = wipe[ByButton(g)]
        /\ loop'[f] = "saving" => wipe' = wipe /\ loop[f] = "sending"
        /\ post' \in [Files -> Posts] /\ \A g \in Files : g # f => post'[g] = post[g]
    <3>1. CASE Bunny!GiveUp(f)
      <4>1. post' \in [Files -> Posts] /\ \A g \in Files : g # f => post'[g] = post[g]
        BY <1>2, <3>1, BunnyTypes
           DEF BunnyInv, Bunny!TusDone, Bunny!TusFails, Bunny!SaveFails, Posts
      <4> QED
        BY <2>1, <3>1, <4>1, GivesUp
    <3>2. CASE ~Bunny!GiveUp(f)
      <4>1. /\ loop' = [loop EXCEPT ![f] = "saving"] /\ wipe' = wipe /\ loop[f] = "sending"
            /\ post' = [post EXCEPT ![f] = "sent"]
        BY <1>2, <3>2 DEF Bunny!TusDone, Bunny!TusFails, Bunny!SaveFails
      <4> QED
        BY <4>1, BunnyTypes DEF BunnyInv, Loops, Bunny!InHand, Posts
    <3> QED
      BY <3>1, <3>2
  <2>4. LoopAwaits'
    BY <2>1, <2>3, FilesAssumption DEF BunnyInv, LoopAwaits
  <2>5. ButtonAsksOnce'
    BY <2>1, <2>3 DEF BunnyInv, ButtonAsksOnce, Unsent
  <2>6. \A g \in Files : /\ loop'[g] \in Unsent => loop[g] \in Unsent /\ post'[g] = "none"
                         /\ loop'[g] = "new" => of'[g] = 0
    BY <2>1, <2>3 DEF BunnyInv, UnsentIsUnsaved, Unsent
  <2>7. \A g \in Files : attached[g] = 1 => granted'[g] # "held"
    BY <2>1 DEF BunnyInv, Bunny!TypeOK
  <2> QED
    BY <2>1, <2>2, <2>3, <2>4, <2>5, <2>6, <2>7, BunnyTypes, PageKeeps DEF BunnyInv
<1> QED
  BY <1>1, <1>2

\* What a cancel ends with.
LEMMA DiscardedFacts ==
    ASSUME BunnyInv, Bunny!Discarded
    PROVE  /\ status' \in [Files -> Shown] /\ tusRef' = None /\ pendingRef' = None
           /\ uploading' = FALSE /\ cancelling' = None
BY BunnyTypes DEF BunnyInv, Bunny!Discarded, Shown

\* The button: its clean-up is sent for what is pending, and answered.
LEMMA CancelKeeps ==
    ASSUME BunnyInv, Bunny!CancelUpload \/ Bunny!CancelAnswered
    PROVE  BunnyInv'
<1>1. /\ UNCHANGED <<of, post, lock, media, granted, attached, elapsed, script>>
      /\ tusRef' = None /\ cancelRef' \in BOOLEAN
      /\ loop' \in [Files -> Loops]
      /\ \A g \in Files : loop'[g] = loop[g] \/ (loop[g] = "sending" /\ loop'[g] = "hung")
  <2>1. CASE Bunny!CancelUpload
    <3>1. /\ UNCHANGED <<of, post, lock, media, granted, attached, elapsed, script>>
          /\ cancelRef' = TRUE
          /\ loop' = [f \in Files |-> IF f = tusRef THEN "hung" ELSE loop[f]]
          /\ tusRef' = None
      BY <2>1 DEF Bunny!CancelUpload, Bunny!Discarded
    <3> QED
      BY <3>1, BunnyTypes DEF BunnyInv, LoopAwaits, Loops, Bunny!InHand
  <2>2. CASE Bunny!CancelAnswered
    BY <2>2, BunnyTypes DEF BunnyInv, Bunny!CancelAnswered, Bunny!Discarded
  <2> QED
    BY <2>1, <2>2
<1>2. /\ status' \in [Files -> Shown] /\ uploading' \in BOOLEAN
      /\ pendingRef' \in {None, pendingRef} /\ cancelling' \in {None, pendingRef}
      /\ wipe' \in [Cleanups -> Wipes]
      /\ \A w \in Cleanups : wipe'[w] = "working" <=> wipe[w] = "working"
      /\ \A f \in Files : wipe'[ByLoop(f)] = wipe[ByLoop(f)]
      /\ \A f \in Files : wipe'[ByButton(f)] # "none" =>
            \/ cancelling' = f /\ pendingRef = f
            \/ pendingRef' # f /\ wipe[ByButton(f)] # "none"
  <2>1. CASE Bunny!CancelUpload /\ pendingRef = None
    <3>1. Bunny!Discarded /\ wipe' = wipe /\ cancelling = None
      BY <2>1 DEF Bunny!CancelUpload
    <3> QED
      BY <3>1, DiscardedFacts, BunnyTypes, FilesAssumption DEF BunnyInv
  <2>2. CASE Bunny!CancelUpload /\ pendingRef # None
    <3>1. /\ wipe' = [wipe EXCEPT ![ByButton(pendingRef)] = "sent"]
          /\ cancelling = None /\ cancelling' = pendingRef
          /\ UNCHANGED <<status, pendingRef, uploading>>
      BY <2>2 DEF Bunny!CancelUpload, ByButton
    <3>2. PICK g \in Files : g = pendingRef
      BY <2>2, BunnyTypes DEF BunnyInv
    <3>3. wipe[ByButton(g)] = "none"
      BY <3>1, <3>2, FilesAssumption DEF BunnyInv, ButtonAsksOnce
    <3>4. "sent" \in Wipes
      BY DEF Wipes
    <3>5. \A f \in Files : wipe[ByButton(f)] # "none" => pendingRef # f
      BY <3>1, FilesAssumption DEF BunnyInv, ButtonAsksOnce
    <3> QED
      BY <3>1, <3>2, <3>3, <3>4, <3>5, BunnyTypes, CleanupMade DEF BunnyInv
  <2>3. CASE Bunny!CancelAnswered
    <3>1. PICK g \in Files : g = cancelling
      BY <2>3, BunnyTypes DEF BunnyInv, Bunny!CancelAnswered
    <3>2. /\ wipe' = [wipe EXCEPT ![ByButton(g)] = "none"] /\ wipe[ByButton(g)] = "answered"
          /\ Bunny!Discarded
      BY <2>3, <3>1 DEF Bunny!CancelAnswered, ByButton
    <3>3. "none" \in Wipes
      BY DEF Wipes
    <3> QED
      BY <3>1, <3>2, <3>3, DiscardedFacts, BunnyTypes, CleanupMade, FilesAssumption DEF BunnyInv
  <2> QED
    BY <2>1, <2>2, <2>3
<1>3. LoopAwaits'
  BY <1>1, <1>2, FilesAssumption DEF BunnyInv, LoopAwaits
<1>4. ButtonAsksOnce'
  BY <1>1, <1>2, FilesAssumption DEF BunnyInv, ButtonAsksOnce, Unsent
<1>5. \A g \in Files : /\ loop'[g] \in Unsent => loop[g] \in Unsent /\ post'[g] = "none"
                       /\ loop'[g] = "new" => of'[g] = 0
  BY <1>1 DEF BunnyInv, UnsentIsUnsaved, Unsent
<1>6. \A g \in Files : attached[g] = 1 => granted'[g] # "held"
  BY <1>1 DEF BunnyInv, Bunny!TypeOK
<1>7. /\ tusRef' \in Files \cup {None} /\ pendingRef' \in Files \cup {None}
      /\ cancelling' \in Files \cup {None}
  BY <1>1, <1>2, BunnyTypes DEF BunnyInv
<1> QED
  BY <1>1, <1>2, <1>3, <1>4, <1>5, <1>6, <1>7, BunnyTypes, PageKeeps DEF BunnyInv

\* The page goes away; a clean-up that is at work goes on.
LEMMA LeaveKeeps ==
    ASSUME BunnyInv, NEW tidy \in BOOLEAN, Bunny!Leave(tidy)
    PROVE  BunnyInv'
<1>1. /\ loop' = [f \in Files |->
                    IF loop[f] \in Bunny!InHand \cup {"queued"} THEN "over" ELSE loop[f]]
      /\ status' = [f \in Files |-> "hidden"] /\ cancelRef' = FALSE /\ uploading' = FALSE
      /\ tusRef' = None /\ pendingRef' = None /\ cancelling' = None
      /\ UNCHANGED <<of, lock, attached, elapsed, script>>
      /\ post' = [f \in Files |-> IF post[f] = "sent" THEN "sent" ELSE "none"]
  BY DEF Bunny!Leave
<1>2. PICK S \in SUBSET {f \in Files : loop[f] = "init"} :
        /\ media' = [f \in Files |-> IF f \in S THEN "empty" ELSE media[f]]
        /\ granted' = [f \in Files |-> IF f \in S THEN "held" ELSE granted[f]]
  BY DEF Bunny!Leave
<1>3. /\ media' \in [Files -> Videos] /\ granted' \in [Files -> Holds]
      /\ \A g \in Files : attached[g] = 1 => granted'[g] # "held"
  BY <1>2, BunnyTypes
     DEF BunnyInv, Bunny!TypeOK, UnsentIsUnsaved, Unsent, Holds, Videos, Bunny!Present
<1>4. /\ loop' \in [Files -> Loops] /\ status' \in [Files -> Shown] /\ post' \in [Files -> Posts]
      /\ \A g \in Files : loop'[g] \in {"new", "over"} /\ (loop'[g] = "new" => loop[g] = "new")
  BY <1>1, BunnyTypes DEF BunnyInv, Loops, Shown, Posts
<1>5. wipe' = [w \in Cleanups |->
                  IF tidy /\ w = ByButton(pendingRef) /\ wipe[w] # "working" THEN "sent"
                  ELSE IF wipe[w] = "answered" THEN "none" ELSE wipe[w]]
  BY DEF Bunny!Leave, ByButton, Cleanups
<1>6. /\ wipe' \in [Cleanups -> Wipes]
      /\ \A w \in Cleanups : /\ wipe'[w] = "working" <=> wipe[w] = "working"
                             /\ wipe'[w] # "none" => w = ByButton(pendingRef) \/ wipe[w] # "none"
  BY <1>5, BunnyTypes DEF BunnyInv, Wipes
<1>7. LoopAwaits'
  <2>1. \A f \in Files : ByLoop(f) # ByButton(pendingRef)
    BY DEF ByLoop, ByButton
  <2> QED
    BY <1>1, <1>4, <1>6, <2>1, CleanupMade, FilesAssumption DEF BunnyInv, LoopAwaits
<1>8. ButtonAsksOnce'
  <2>1. ASSUME NEW f \in Files, wipe'[ByButton(f)] # "none" PROVE loop[f] \notin Unsent
    <3>1. ByButton(f) = ByButton(pendingRef) => f = pendingRef
      BY DEF ByButton
    <3> QED
      BY <1>6, <2>1, <3>1, CleanupMade DEF BunnyInv, ButtonAsksOnce
  <2> QED
    BY <1>1, <1>4, <2>1, FilesAssumption DEF ButtonAsksOnce, Unsent
<1>9. \A g \in Files : /\ loop'[g] \in Unsent => loop[g] \in Unsent /\ post'[g] = "none"
                       /\ loop'[g] = "new" => of'[g] = 0
  BY <1>1, <1>4 DEF BunnyInv, UnsentIsUnsaved, Unsent
<1> QED
  BY <1>1, <1>3, <1>4, <1>6, <1>7, <1>8, <1>9, BunnyTypes, PageKeeps DEF BunnyInv

\* What any other step must keep: it asks for no clean-up and sends no save.
LEMMA ServerKeeps ==
    ASSUME BunnyInv, UNCHANGED Bunny!page,
           post' \in [Files -> Posts], wipe' \in [Cleanups -> Wipes],
           \A f \in Files : post[f] = "none" => post'[f] = "none",
           \A w \in Cleanups : wipe'[w] # "none" => wipe[w] # "none",
           lock' \in Cleanups \cup {None}, lock' # None => wipe'[lock'] = "working",
           media' \in [Files -> Videos], granted' \in [Files -> Holds],
           attached' \in [Files -> 0 .. 1], elapsed' \in [Files -> 0 .. Bunny!Week],
           script'.step \in {"idle", "listed", "deleting"}, script'.of \subseteq Files,
           \A f \in Files : attached'[f] = 1 => granted'[f] # "held",
           \A f \in Files : attached'[f] # attached[f] => attached'[f] = 0 \/ post[f] = "sent",
           CleaningAlone', ListedIsOld'
    PROVE  BunnyInv'
<1>1. UNCHANGED <<loop, of, status, cancelRef, tusRef, pendingRef, uploading, cancelling>>
  BY DEF Bunny!page
<1>2. Bunny!TypeOK'
  <2>1. {tusRef', pendingRef', cancelling'} \subseteq Files \cup {None}
    BY <1>1, BunnyTypes DEF BunnyInv
  <2>2. /\ loop' \in [Files -> Bunny!InHand \cup {"new", "queued", "over"}]
        /\ status' \in [Files -> {"hidden", "pending", "uploading", "done", "error", "cancelled"}]
    BY <1>1, BunnyTypes DEF BunnyInv, Loops, Shown
  <2>3. /\ post' \in [Files -> {"none", "sent", "ok", "bad"}]
        /\ wipe' \in [Files \X Bunny!Askers -> {"none", "sent", "working", "answered"}]
        /\ lock' \in (Files \X Bunny!Askers) \cup {None}
    BY DEF Posts, Wipes, Cleanups
  <2>4. /\ media' \in [Files -> Bunny!Present \cup {"none", "gone"}]
        /\ granted' \in [Files -> {"none", "held", "released", "lapsed"}]
    BY DEF Videos, Holds
  <2>5. of' \in [Files -> 0 .. Bunny!Cardinality(Files)]
    BY <1>1, BunnyTypes DEF BunnyInv, Drops
  <2>6. cancelRef' \in BOOLEAN /\ uploading' \in BOOLEAN
    BY <1>1, BunnyTypes DEF BunnyInv
  <2> QED
    BY <2>1, <2>2, <2>3, <2>4, <2>5, <2>6 DEF Bunny!TypeOK
<1>3. LoopAwaits' /\ ButtonAsksOnce'
  BY <1>1, CleanupMade DEF BunnyInv, LoopAwaits, ButtonAsksOnce
<1>4. UnsentIsUnsaved'
  <2>1. \A f \in Files : attached'[f] \in 0 .. 1
    OBVIOUS
  <2> QED
    BY <1>1, <2>1 DEF BunnyInv, UnsentIsUnsaved
<1> QED
  BY <1>2, <1>3, <1>4 DEF BunnyInv

\* The stores' types, for the steps that leave them alone.
LEMMA Stores ==
    ASSUME BunnyInv
    PROVE  /\ lock \in Cleanups \cup {None} /\ (lock # None => wipe[lock] = "working")
           /\ elapsed \in [Files -> 0 .. Bunny!Week]
           /\ script.step \in {"idle", "listed", "deleting"} /\ script.of \subseteq Files
           /\ \A f \in Files : attached[f] = 1 => granted[f] # "held"
           /\ \A w \in Cleanups : wipe[w] = "working" => lock = w /\ attached[w[1]] = 0
           /\ \A w \in Cleanups : w[1] \in Files
           /\ None \notin Cleanups
BY FilesAssumption DEF BunnyInv, Bunny!TypeOK, CleaningAlone, Cleanups

\* The row is saved or refused, and deleted.
LEMMA RowKeeps ==
    ASSUME BunnyInv, NEW f \in Files,
           Bunny!Attach(f) \/ Bunny!RefuseSave(f) \/ Bunny!DeleteRow(f)
    PROVE  BunnyInv'
<1>1. UNCHANGED <<wipe, lock, elapsed, script>> /\ UNCHANGED Bunny!page
  BY DEF Bunny!Attach, Bunny!RefuseSave, Bunny!DeleteRow
<1>2. CASE Bunny!Attach(f)
  <2>1. PICK x \in {"ok", "bad", "none"} : post' = [post EXCEPT ![f] = x]
    BY <1>2 DEF Bunny!Attach, Bunny!SaveAnswer
  <2>2. /\ post[f] = "sent" /\ elapsed[f] < 1 /\ lock = None
        /\ attached' = [attached EXCEPT ![f] = 1] /\ media' = media
        /\ granted' = [granted EXCEPT ![f] = IF granted[f] = "held" THEN "released" ELSE granted[f]]
    BY <1>2 DEF Bunny!Attach, Bunny!Expired
  <2>3. /\ post' \in [Files -> Posts] /\ (\A g \in Files : post[g] = "none" => post'[g] = "none")
    BY <2>1, <2>2, BunnyTypes DEF BunnyInv, Posts
  <2>4. attached' \in [Files -> 0 .. 1] /\ granted' \in [Files -> Holds]
    BY <2>2, BunnyTypes DEF BunnyInv, Holds
  <2>5. \A g \in Files : attached'[g] = 1 => granted'[g] # "held"
    BY <2>2, BunnyTypes, Stores DEF BunnyInv
  <2>6. \A g \in Files : attached'[g] # attached[g] => post[g] = "sent"
    BY <2>2, BunnyTypes DEF BunnyInv
  <2>7. CleaningAlone'
    BY <1>1, <2>2, Stores DEF CleaningAlone, Cleanups
  <2>8. f \notin script.of
    BY <2>2, BunnyTypes DEF BunnyInv, ListedIsOld, Bunny!Week
  <2>9. ListedIsOld'
    BY <1>1, <2>2, <2>8, BunnyTypes DEF BunnyInv, ListedIsOld
  <2> QED
    BY <1>1, <2>2, <2>3, <2>4, <2>5, <2>6, <2>7, <2>9, Stores, BunnyTypes, ServerKeeps
       DEF BunnyInv
<1>3. CASE Bunny!RefuseSave(f)
  <2>1. PICK x \in {"bad", "none"} : post' = [post EXCEPT ![f] = x]
    BY <1>3 DEF Bunny!RefuseSave, Bunny!SaveAnswer
  <2>2. post[f] = "sent" /\ UNCHANGED <<media, granted, attached>>
    BY <1>3 DEF Bunny!RefuseSave
  <2>3. /\ post' \in [Files -> Posts] /\ (\A g \in Files : post[g] = "none" => post'[g] = "none")
    BY <2>1, <2>2, BunnyTypes DEF BunnyInv, Posts
  <2>4. CleaningAlone' /\ ListedIsOld'
    BY <1>1, <2>2 DEF BunnyInv, CleaningAlone, ListedIsOld
  <2> QED
    BY <1>1, <2>2, <2>3, <2>4, Stores, BunnyTypes, ServerKeeps DEF BunnyInv
<1>4. CASE Bunny!DeleteRow(f)
  <2>1. PICK x \in {media[f], "gone"} : media' = [media EXCEPT ![f] = x]
    BY <1>4 DEF Bunny!DeleteRow
  <2>2. attached' = [attached EXCEPT ![f] = 0] /\ UNCHANGED <<post, granted>>
    BY <1>4 DEF Bunny!DeleteRow
  <2>3. media' \in [Files -> Videos] /\ attached' \in [Files -> 0 .. 1]
    BY <2>1, <2>2, BunnyTypes DEF BunnyInv, Videos
  <2>4. \A g \in Files : attached'[g] = attached[g] \/ attached'[g] = 0
    BY <2>2, BunnyTypes DEF BunnyInv
  <2>5. CleaningAlone'
    BY <1>1, <2>4, Stores DEF CleaningAlone, Cleanups
  <2>6. ListedIsOld'
    BY <1>1, <2>4, Stores DEF BunnyInv, ListedIsOld
  <2>7. \A g \in Files : attached'[g] = 1 => granted'[g] # "held"
    BY <2>2, <2>4, Stores
  <2> QED
    BY <1>1, <2>2, <2>3, <2>4, <2>5, <2>6, <2>7, Stores, BunnyTypes, ServerKeeps DEF BunnyInv
<1> QED
  BY <1>2, <1>3, <1>4

\* A clean-up takes the lock, or is answered at once; and ends.
LEMMA CleanupKeeps ==
    ASSUME BunnyInv, NEW w \in Cleanups, Bunny!StartCleanup(w) \/ Bunny!FinishCleanup(w)
    PROVE  BunnyInv'
<1>1. UNCHANGED <<post, attached, elapsed, script>> /\ UNCHANGED Bunny!page
  BY DEF Bunny!StartCleanup, Bunny!FinishCleanup
<1>2. w[1] \in Files /\ Bunny!CleanupAnswer(w) \in {"answered", "none"}
  BY Stores DEF Bunny!CleanupAnswer
<1>3. CASE Bunny!StartCleanup(w) /\ (attached[w[1]] > 0 \/ elapsed[w[1]] >= Bunny!Expired)
  <2>1. PICK x \in {"answered", "none"} : wipe' = [wipe EXCEPT ![w] = x]
    BY <1>2, <1>3 DEF Bunny!StartCleanup
  <2>2. wipe[w] = "sent" /\ UNCHANGED <<lock, granted, media>>
    BY <1>3 DEF Bunny!StartCleanup
  <2>3. /\ wipe' \in [Cleanups -> Wipes]
        /\ \A v \in Cleanups : /\ wipe'[v] # "none" => wipe[v] # "none"
                               /\ wipe'[v] = "working" <=> wipe[v] = "working"
    BY <2>1, <2>2, BunnyTypes DEF BunnyInv, Wipes
  <2>4. CleaningAlone' /\ ListedIsOld'
    BY <1>1, <2>2, <2>3, Stores DEF BunnyInv, CleaningAlone, ListedIsOld, Cleanups
  <2>5. lock' # None => wipe'[lock'] = "working"
    BY <2>2, <2>3, Stores
  <2> QED
    BY <1>1, <2>2, <2>3, <2>4, <2>5, Stores, BunnyTypes, ServerKeeps DEF BunnyInv
<1>4. CASE Bunny!StartCleanup(w) /\ ~(attached[w[1]] > 0 \/ elapsed[w[1]] >= Bunny!Expired)
  <2>1. /\ wipe' = [wipe EXCEPT ![w] = "working"] /\ wipe[w] = "sent" /\ lock = None /\ lock' = w
        /\ UNCHANGED media
    BY <1>4 DEF Bunny!StartCleanup
  <2>2. granted' = [granted EXCEPT ![w[1]] =
                       IF granted[w[1]] = "held" THEN "released" ELSE granted[w[1]]]
    BY <1>4 DEF Bunny!StartCleanup
  <2>3. /\ wipe' \in [Cleanups -> Wipes] /\ wipe'[w] = "working"
        /\ \A v \in Cleanups : v # w => wipe'[v] = wipe[v]
    BY <2>1, BunnyTypes DEF BunnyInv, Wipes
  <2>4. attached[w[1]] = 0
    BY <1>2, <1>4, BunnyTypes DEF BunnyInv
  <2>5. CleaningAlone'
    BY <1>1, <2>1, <2>3, <2>4, Stores DEF CleaningAlone, Cleanups
  <2>6. ListedIsOld'
    BY <1>1 DEF BunnyInv, ListedIsOld
  <2>7. granted' \in [Files -> Holds] /\ \A g \in Files : attached[g] = 1 => granted'[g] # "held"
    BY <1>2, <2>2, BunnyTypes, Stores DEF BunnyInv, Holds
  <2> QED
    BY <1>1, <2>1, <2>3, <2>5, <2>6, <2>7, Stores, BunnyTypes, ServerKeeps DEF BunnyInv
<1>5. CASE Bunny!FinishCleanup(w)
  <2>1. PICK x \in {media[w[1]], "gone"} : media' = [media EXCEPT ![w[1]] = x]
    BY <1>5 DEF Bunny!FinishCleanup
  <2>2. PICK y \in {"answered", "none"} : wipe' = [wipe EXCEPT ![w] = y]
    BY <1>2, <1>5 DEF Bunny!FinishCleanup
  <2>3. wipe[w] = "working" /\ lock' = None /\ UNCHANGED granted
    BY <1>5 DEF Bunny!FinishCleanup
  <2>4. /\ wipe' \in [Cleanups -> Wipes]
        /\ \A v \in Cleanups : /\ wipe'[v] # "none" => wipe[v] # "none"
                               /\ wipe'[v] = "working" => wipe[v] = "working" /\ v # w
    BY <2>2, <2>3, BunnyTypes DEF BunnyInv, Wipes
  <2>5. media' \in [Files -> Videos]
    BY <1>2, <2>1, BunnyTypes DEF BunnyInv, Videos
  <2>6. CleaningAlone'
    BY <2>3, <2>4, Stores DEF CleaningAlone, Cleanups
  <2>7. ListedIsOld'
    BY <1>1 DEF BunnyInv, ListedIsOld
  <2> QED
    BY <1>1, <2>3, <2>4, <2>5, <2>6, <2>7, Stores, BunnyTypes, ServerKeeps DEF BunnyInv
<1> QED
  BY <1>3, <1>4, <1>5

\* Hours pass; the orphan script lists, reads, deletes and ends.
LEMMA ScriptKeeps ==
    ASSUME BunnyInv,
           \/ Bunny!TimePasses \/ Bunny!SweepList \/ Bunny!SweepRead \/ Bunny!SweepEnd
           \/ \E f \in Files : Bunny!SweepDelete(f) \/ Bunny!SweepSkip(f)
    PROVE  BunnyInv'
<1>1. UNCHANGED <<post, wipe, lock, attached>> /\ UNCHANGED Bunny!page
  BY DEF Bunny!TimePasses, Bunny!SweepList, Bunny!SweepRead, Bunny!SweepEnd,
         Bunny!SweepDelete, Bunny!SweepSkip
<1>2. CleaningAlone'
  BY <1>1 DEF BunnyInv, CleaningAlone
<1>3. /\ elapsed' \in [Files -> 0 .. Bunny!Week]
      /\ \A f \in Files : elapsed[f] = Bunny!Week => elapsed'[f] = Bunny!Week
  BY Stores DEF Bunny!TimePasses, Bunny!SweepList, Bunny!SweepRead, Bunny!SweepEnd,
                Bunny!SweepDelete, Bunny!SweepSkip, Bunny!Week
<1>4. /\ granted' \in [Files -> Holds]
      /\ \A f \in Files : attached[f] = 1 => granted'[f] # "held"
  <2>1. CASE Bunny!TimePasses
    <3>1. \A f \in Files : granted'[f] \in {granted[f], "lapsed"}
      BY <2>1 DEF Bunny!TimePasses
    <3>2. DOMAIN granted' = Files /\ granted' = [f \in Files |-> granted'[f]]
      BY <2>1 DEF Bunny!TimePasses
    <3> QED
      BY <3>1, <3>2, Stores, BunnyTypes DEF BunnyInv, Holds
  <2>2. CASE UNCHANGED granted
    BY <2>2, Stores, BunnyTypes DEF BunnyInv
  <2> QED
    BY <2>1, <2>2 DEF Bunny!SweepList, Bunny!SweepRead, Bunny!SweepEnd, Bunny!SweepDelete,
                      Bunny!SweepSkip
<1>5. media' \in [Files -> Videos]
  BY BunnyTypes DEF BunnyInv, Videos, Bunny!TimePasses, Bunny!SweepList, Bunny!SweepRead,
                    Bunny!SweepEnd, Bunny!SweepDelete, Bunny!SweepSkip
<1>6. /\ script'.step \in {"idle", "listed", "deleting"} /\ script'.of \subseteq Files
      /\ ListedIsOld'
  <2>1. CASE Bunny!TimePasses
    BY <1>1, <1>3, <2>1, Stores DEF BunnyInv, ListedIsOld, Bunny!TimePasses
  <2>2. CASE Bunny!SweepList
    <3>1. /\ script' = [step |-> "listed", of |-> {f \in Files : Bunny!Eligible(f)}]
          /\ elapsed' = elapsed
      BY <2>2 DEF Bunny!SweepList
    <3>2. \A f \in Files : Bunny!Eligible(f) => elapsed[f] = Bunny!Week
      BY Stores DEF Bunny!Eligible, Bunny!Week
    <3> QED
      BY <3>1, <3>2 DEF ListedIsOld
  <2>3. CASE Bunny!SweepRead
    BY <1>1, <2>3, Stores DEF BunnyInv, ListedIsOld, Bunny!SweepRead
  <2>4. CASE Bunny!SweepEnd
    BY <2>4 DEF ListedIsOld, Bunny!SweepEnd
  <2>5. ASSUME NEW f \in Files, Bunny!SweepDelete(f) \/ Bunny!SweepSkip(f)
        PROVE  /\ script'.step \in {"idle", "listed", "deleting"} /\ script'.of \subseteq Files
               /\ ListedIsOld'
    <3>1. script' = [script EXCEPT !.of = script.of \ {f}] /\ elapsed' = elapsed
      BY <2>5 DEF Bunny!SweepDelete, Bunny!SweepSkip
    <3>2. script'.step = script.step \/ script'.of = {}
      BY <3>1
    <3> QED
      BY <1>1, <3>1, <3>2, Stores DEF BunnyInv, ListedIsOld
  <2> QED
    BY <2>1, <2>2, <2>3, <2>4, <2>5
<1> QED
  BY <1>1, <1>2, <1>3, <1>4, <1>5, <1>6, Stores, BunnyTypes, ServerKeeps DEF BunnyInv

\* The invariant holds at first and is kept.
LEMMA BunnyHolds == Bunny!Spec => []BunnyInv
<1>1. Bunny!Init => BunnyInv
  <2> SUFFICES ASSUME Bunny!Init PROVE BunnyInv
    OBVIOUS
  <2>1. /\ loop = [f \in Files |-> "new"] /\ of = [f \in Files |-> 0]
        /\ status = [f \in Files |-> "hidden"] /\ cancelRef = FALSE /\ uploading = FALSE
        /\ tusRef = None /\ pendingRef = None /\ cancelling = None
        /\ post = [f \in Files |-> "none"] /\ wipe = [w \in Cleanups |-> "none"]
        /\ lock = None /\ media = [f \in Files |-> "none"]
        /\ granted = [f \in Files |-> "none"] /\ attached = [f \in Files |-> 0]
        /\ elapsed = [f \in Files |-> 0] /\ script = [step |-> "idle", of |-> {}]
    BY DEF Bunny!Init, Cleanups
  <2>2. Bunny!Cardinality(Files) \in Nat
    <3>1. Cardinality(Files) \in Nat
      BY FilesAssumption, FS_CardinalityType
    <3> QED
      BY <3>1 DEF Bunny!Cardinality, Cardinality
  <2>3. of \in [Files -> 0 .. Bunny!Cardinality(Files)]
    BY <2>1, <2>2
  <2>4. cancelRef \in BOOLEAN /\ uploading \in BOOLEAN
    BY <2>1
  <2>5. /\ loop \in [Files -> Bunny!InHand \cup {"new", "queued", "over"}]
        /\ wipe \in [Files \X Bunny!Askers -> {"none", "sent", "working", "answered"}]
        /\ lock \in (Files \X Bunny!Askers) \cup {None}
        /\ media \in [Files -> Bunny!Present \cup {"none", "gone"}]
        /\ {tusRef, pendingRef, cancelling} \subseteq Files \cup {None}
        /\ elapsed \in [Files -> 0 .. Bunny!Week]
    BY <2>1 DEF Cleanups, Bunny!Week
  <2>6. Bunny!TypeOK
    BY <2>1, <2>3, <2>4, <2>5 DEF Bunny!TypeOK
  <2>7. CleaningAlone /\ LoopAwaits /\ ButtonAsksOnce /\ UnsentIsUnsaved /\ ListedIsOld
    BY <2>1, FilesAssumption, CleanupMade
       DEF CleaningAlone, LoopAwaits, ButtonAsksOnce, UnsentIsUnsaved, ListedIsOld, Cleanups
  <2> QED
    BY <2>6, <2>7 DEF BunnyInv
<1>2. BunnyInv /\ [Bunny!Next]_Bunny!vars => BunnyInv'
  <2> SUFFICES ASSUME BunnyInv, [Bunny!Next]_Bunny!vars PROVE BunnyInv'
    OBVIOUS
  <2>1. CASE UNCHANGED Bunny!vars
    <3>1. UNCHANGED Bunny!page /\ UNCHANGED Bunny!server
      BY <2>1 DEF Bunny!vars
    <3>2. CleaningAlone' /\ ListedIsOld'
      BY <3>1 DEF BunnyInv, CleaningAlone, ListedIsOld, Bunny!server
    <3> QED
      BY <3>1, <3>2, Stores, BunnyTypes, ServerKeeps DEF BunnyInv, Bunny!server
  <2>2. CASE Bunny!Next
    BY <2>2, DropKeeps, GrantedKeeps, ThroughKeeps, SendKeeps, CancelKeeps, LeaveKeeps,
       RowKeeps, CleanupKeeps, ScriptKeeps DEF Bunny!Next, Bunny!LoopStep, Cleanups
  <2> QED
    BY <2>1, <2>2
<1> QED
  BY <1>1, <1>2, PTL DEF Bunny!Spec

\* The page's refs and loops and the server's rows keep their types, and whoever waits
\* for the lock finds it free or held by a clean-up at work, for any number of files.
THEOREM BunnyTypeCorrect == Bunny!Spec => []Bunny!TypeOK
<1>1. BunnyInv => Bunny!TypeOK
  BY DEF BunnyInv
<1> QED
  BY <1>1, BunnyHolds, PTL

\* A video that a row names is deleted with the row and in no other way: not by a
\* cancel that raced the save, nor by the orphan script, however many drops, cancels,
\* saves and departures overlap (bunny-init's DELETE, bunny-orphan-cleanup).
THEOREM AttachedStay == Bunny!Spec => AttachedVideosStay
<1> DEFINE Stays == \A f \in Files :
               attached[f] > 0 /\ attached'[f] > 0 /\ media[f] \in Bunny!Present
                   => media'[f] \in Bunny!Present
<1>1. ASSUME BunnyInv, [Bunny!Next]_Bunny!vars PROVE [Stays]_Bunny!vars
  <2> SUFFICES ASSUME Bunny!Next, NEW f \in Files, attached[f] > 0, attached'[f] > 0,
                      media[f] \in Bunny!Present
               PROVE  media'[f] \in Bunny!Present
    BY <1>1
  <2>1. media \in [Files -> Videos] /\ attached \in [Files -> 0 .. 1]
    BY <1>1, BunnyTypes DEF BunnyInv
  <2>2. loop[f] \notin Unsent
    BY <1>1, <2>1 DEF BunnyInv, UnsentIsUnsaved
  <2>3. CASE UNCHANGED media
    BY <2>3
  <2>4. ASSUME NEW g \in Files, Bunny!Granted(g) \/ Bunny!InitFails(g) \/ Bunny!TusDone(g)
        PROVE  media'[f] \in Bunny!Present
    <3>1. CASE g = f
      BY <2>1, <2>2, <2>4, <3>1
         DEF Bunny!Granted, Bunny!InitFails, Bunny!TusDone, Unsent, Bunny!Present
    <3>2. CASE g # f
      BY <2>1, <2>4, <3>2 DEF Bunny!Granted, Bunny!InitFails, Bunny!TusDone
    <3> QED
      BY <3>1, <3>2
  <2>5. ASSUME NEW w \in Files \X Bunny!Askers, Bunny!FinishCleanup(w)
        PROVE  media'[f] \in Bunny!Present
    <3>1. w[1] # f /\ w[1] \in Files
      BY <1>1, <2>1, <2>5, Stores DEF Bunny!FinishCleanup, Cleanups
    <3>2. PICK x : media' = [media EXCEPT ![w[1]] = x]
      BY <2>5 DEF Bunny!FinishCleanup
    <3> QED
      BY <2>1, <3>1, <3>2
  <2>6. ASSUME NEW g \in Files, Bunny!DeleteRow(g) \/ Bunny!SweepDelete(g)
        PROVE  media'[f] \in Bunny!Present
    <3>1. g # f
      BY <1>1, <2>1, <2>6 DEF BunnyInv, ListedIsOld, Bunny!DeleteRow, Bunny!SweepDelete
    <3> QED
      BY <2>1, <2>6, <3>1 DEF Bunny!DeleteRow, Bunny!SweepDelete
  <2>7. ASSUME NEW tidy \in BOOLEAN, Bunny!Leave(tidy) PROVE media'[f] \in Bunny!Present
    BY <2>1, <2>7 DEF Bunny!Leave, Bunny!Present
  <2>8. CASE Bunny!CancelUpload \/ Bunny!CancelAnswered
             \/ Bunny!TimePasses \/ Bunny!SweepList \/ Bunny!SweepRead \/ Bunny!SweepEnd
    BY <2>3, <2>8 DEF Bunny!CancelUpload, Bunny!CancelAnswered, Bunny!TimePasses,
                      Bunny!SweepList, Bunny!SweepRead, Bunny!SweepEnd
  <2>9. ASSUME NEW S \in SUBSET Files, Bunny!Drop(S) PROVE UNCHANGED media
    BY <2>9 DEF Bunny!Drop, Bunny!server
  <2>10. ASSUME NEW g \in Files,
                \/ Bunny!StartTus(g) \/ Bunny!TusFails(g) \/ Bunny!Saved(g)
                \/ Bunny!SaveFails(g) \/ Bunny!CleanedUp(g)
                \/ Bunny!Attach(g) \/ Bunny!RefuseSave(g) \/ Bunny!SweepSkip(g)
         PROVE  UNCHANGED media
    BY <2>10 DEF Bunny!StartTus, Bunny!TusFails, Bunny!Saved, Bunny!SaveFails,
                 Bunny!CleanedUp, Bunny!Attach, Bunny!RefuseSave, Bunny!SweepSkip,
                 Bunny!server
  <2>11. ASSUME NEW w \in Files \X Bunny!Askers, Bunny!StartCleanup(w) PROVE UNCHANGED media
    BY <2>11 DEF Bunny!StartCleanup
  <2> QED
    BY <2>3, <2>4, <2>5, <2>6, <2>7, <2>8, <2>9, <2>10, <2>11
       DEF Bunny!Next, Bunny!LoopStep
<1>2. Bunny!Spec => [][Stays]_Bunny!vars
  BY <1>1, BunnyHolds, PTL DEF Bunny!Spec
<1> QED
  BY <1>2 DEF AttachedVideosStay, Bunny!AttachedVideosStay

\* While a cancel stands, no file is taken up and no row is asked for, in whichever
\* awaits the loops of however many drops were when it was clicked (isCancelled).
THEOREM CancelHolds == Bunny!Spec => CancelStands
<1> DEFINE Stands == \A f \in Files :
               cancelRef /\ cancelRef' /\ loop'[f] \in {"init", "saving"} => loop[f] = loop'[f]
<1>1. ASSUME BunnyInv, [Bunny!Next]_Bunny!vars PROVE [Stands]_Bunny!vars
  <2> SUFFICES ASSUME Bunny!Next, NEW f \in Files, cancelRef, cancelRef',
                      loop'[f] \in {"init", "saving"}
               PROVE  loop[f] = loop'[f]
    BY <1>1
  <2>1. loop \in [Files -> Loops]
    BY <1>1, BunnyTypes DEF BunnyInv
  <2>2. ASSUME NEW g \in Files, Bunny!LoopStep(g) PROVE loop[f] = loop'[f]
    <3>1. CASE Bunny!GiveUp(g)
      BY <2>1, <3>1 DEF Bunny!GiveUp
    <3>2. ASSUME NEW end, Bunny!Proceed(g, end) PROVE loop[f] = loop'[f]
      BY <2>1, <3>2 DEF Bunny!Proceed
    <3>3. CASE Bunny!StartTus(g)
      BY <2>1, <3>3 DEF Bunny!StartTus
    <3> QED
      BY <2>2, <3>1, <3>2, <3>3
         DEF Bunny!LoopStep, Bunny!Granted, Bunny!InitFails, Bunny!TusDone, Bunny!TusFails,
             Bunny!Saved, Bunny!SaveFails, Bunny!CleanedUp
  <2>3. CASE Bunny!CancelUpload
    BY <2>1, <2>3 DEF Bunny!CancelUpload
  <2>4. CASE UNCHANGED loop
    BY <2>4
  <2>5. CASE (\E S \in SUBSET Files : Bunny!Drop(S)) \/ \E tidy \in BOOLEAN : Bunny!Leave(tidy)
    BY <2>5 DEF Bunny!Drop, Bunny!Leave
  <2>6. CASE Bunny!CancelAnswered \/ Bunny!TimePasses \/ Bunny!SweepList \/ Bunny!SweepRead
             \/ Bunny!SweepEnd
    BY <2>4, <2>6 DEF Bunny!CancelAnswered, Bunny!TimePasses, Bunny!SweepList,
                      Bunny!SweepRead, Bunny!SweepEnd, Bunny!page
  <2>7. ASSUME NEW g \in Files,
               \/ Bunny!Attach(g) \/ Bunny!RefuseSave(g) \/ Bunny!DeleteRow(g)
               \/ Bunny!SweepDelete(g) \/ Bunny!SweepSkip(g)
        PROVE  UNCHANGED loop
    BY <2>7 DEF Bunny!Attach, Bunny!RefuseSave, Bunny!DeleteRow, Bunny!SweepDelete,
                Bunny!SweepSkip, Bunny!page
  <2>8. ASSUME NEW w \in Files \X Bunny!Askers, Bunny!StartCleanup(w) \/ Bunny!FinishCleanup(w)
        PROVE  UNCHANGED loop
    BY <2>8 DEF Bunny!StartCleanup, Bunny!FinishCleanup, Bunny!page
  <2> QED
    BY <2>2, <2>3, <2>4, <2>5, <2>6, <2>7, <2>8 DEF Bunny!Next
<1>2. Bunny!Spec => [][Stands]_Bunny!vars
  BY <1>1, BunnyHolds, PTL DEF Bunny!Spec
<1> QED
  BY <1>2 DEF CancelStands, Bunny!CancelStands
=============================================================================
