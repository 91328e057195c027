--------------------------- MODULE DriveImportProofs ---------------------------
(***************************************************************************)
(* Theorems about DriveImport, for any number of imports and processes.    *)
(*                                                                         *)
(* The first invariant holds even when answers of the database get lost:   *)
(* the claim on the status keeps finalizers apart.  The second is about    *)
(* the quota and the media and needs LostAnswers = FALSE; it says what a   *)
(* process that is about to touch either still knows about the row.        *)
(***************************************************************************)
EXTENDS DriveImportRefinement, TLAPS

Undertakes == StartSteps \cup CopySteps
Settling == {"final.check", "final.commit", "final.refuse", "final.handback"}

\* The request or the copy that carries an import out holds its reservation's
\* id, and there is one of them.
WorkersHold == \A p \in Procs : at[p] \in Undertakes => hold[on[p]] # "none"
OneWorker ==
    \A p, q \in Procs :
        on[p] = on[q] /\ at[p] \in Undertakes /\ at[q] \in Undertakes => p = q

\* The row is missing exactly until its reservation's holder has written it.
RowBegins ==
    /\ \A i \in Imports : status[i] # "none" => hold[i] # "none"
    /\ \A p \in Procs :
          /\ at[p] = "start.row" => status[on[p]] = "none" /\ hold[on[p]] = "held"
          /\ at[p] \in Undertakes \ {"start.row"} => status[on[p]] # "none"

\* Whoever is past the claim has the row to itself until it lets go of it.
OneFinalizer ==
    \A p, q \in Procs :
        on[p] = on[q] /\ at[p] \in Settling /\ at[q] \in Settling => p = q
FinalizersClaimed ==
    \A p \in Procs :
        /\ at[p] \in Settling \ {"final.handback"} => status[on[p]] = "FINALIZING"
        /\ at[p] = "final.handback" => status[on[p]] \in {"FINALIZING", "DONE"}

IInv ==
    /\ TypeOK
    /\ WorkersHold
    /\ OneWorker
    /\ RowBegins
    /\ OneFinalizer
    /\ FinalizersClaimed
    /\ OneRowPerImport

\* What the media is while somebody still works on it: only a copy touches an S3
\* object, only the request a Bunny video, and only before the mark.
Backed ==
    \A p \in Procs :
        /\ at[p] \in CopySteps => backend[on[p]] = "S3" /\ ~transferred[on[p]]
        /\ at[p] \in (StartSteps \ {"start.row"}) \cup {"poll.bunny"} => backend[on[p]] = "BUNNY"
        /\ at[p] \in {"start.row", "fetch.send"} => media[on[p]] = "none"
        /\ at[p] = "start.row" => ~transferred[on[p]]
        /\ at[p] = "copy.mark" =>
              status[on[p]] = "FAILED" \/ media[on[p]] = "landed"
        /\ at[p] \in CleanSteps => status[on[p]] = "FAILED"
Untouched == \A i \in Imports : hold[i] = "none" => media[i] = "none" /\ ~transferred[i]

\* Whoever is about to claim a row, or has, finds its media in storage.
Finished(i) ==
    /\ backend[i] = "S3" => transferred[i]
    /\ backend[i] = "BUNNY" => media[i] \in {"landed", "broken"}
Landed ==
    /\ \A i \in Imports :
          /\ backend[i] = "S3" /\ transferred[i] => status[i] = "FAILED" \/ media[i] = "landed"
          /\ status[i] \in {"FINALIZING", "DONE"} => Finished(i)
    /\ \A p \in Procs :
          at[p] = "final.claim" => status[on[p]] = "FAILED" \/ Finished(on[p])

MediaInv == Backed /\ Untouched /\ Landed

-----------------------------------------------------------------------------
(***************************************************************************)
(* Type correctness.                                                       *)
(***************************************************************************)

\* Every step keeps the variables in their types.
LEMMA TypeStep == TypeOK /\ [Next]_vars => TypeOK'
<1> SUFFICES ASSUME TypeOK, [Next]_vars PROVE TypeOK'
  OBVIOUS
<1> USE DEF TypeOK, Statuses, Active, Media, Running, StartSteps, CopySteps, PollSteps,
        FinalSteps, CleanSteps, Goto, Begin, From, Answered, row
<1>1. ASSUME NEW p \in Procs, Step(p) PROVE TypeOK'
  <2>1. CASE StartRow(p)
    BY <2>1 DEF StartRow
  <2>2. CASE StartRowFails(p)
    BY <2>2 DEF StartRowFails
  <2>3. CASE FetchSend(p)
    BY <2>3 DEF FetchSend
  <2>4. CASE FetchSendFails(p)
    BY <2>4 DEF FetchSendFails
  <2>5. CASE FetchRecord(p)
    BY <2>5 DEF FetchRecord
  <2>6. CASE FetchRecordFails(p)
    BY <2>6 DEF FetchRecordFails
  <2>7. CASE FetchSearch(p)
    BY <2>7 DEF FetchSearch
  <2>8. CASE CopyAcquire(p)
    BY <2>8 DEF CopyAcquire
  <2>9. CASE CopyRead(p)
    BY <2>9 DEF CopyRead
  <2>10. CASE CopyOpen(p)
    BY <2>10 DEF CopyOpen
  <2>11. CASE CopyOpenFails(p)
    BY <2>11 DEF CopyOpenFails
  <2>12. CASE CopyRecord(p)
    BY <2>12 DEF CopyRecord
  <2>13. CASE CopyRecordFails(p)
    BY <2>13 DEF CopyRecordFails
  <2>14. CASE CopySend(p)
    BY <2>14 DEF CopySend
  <2>15. CASE CopySendFails(p)
    BY <2>15 DEF CopySendFails
  <2>16. CASE CopyMark(p)
    BY <2>16 DEF CopyMark
  <2>17. CASE CopyMarkFails(p)
    BY <2>17 DEF CopyMarkFails
  <2>18. CASE CopyDiscard(p)
    BY <2>18 DEF CopyDiscard, DeleteMedia
  <2>19. CASE CopyUndo(p)
    BY <2>19 DEF CopyUndo, DeleteMedia, AbortUpload
  <2>20. CASE FinalClaim(p)
    BY <2>20 DEF FinalClaim
  <2>21. CASE FinalClaimFails(p)
    BY <2>21 DEF FinalClaimFails
  <2>22. CASE FinalCheck(p)
    BY <2>22 DEF FinalCheck
  <2>23. CASE FinalCommit(p)
    BY <2>23 DEF FinalCommit
  <2>24. CASE FinalCommitFails(p)
    BY <2>24 DEF FinalCommitFails
  <2>25. CASE FinalHandback(p)
    BY <2>25 DEF FinalHandback
  <2>26. CASE FailRow(p)
    BY <2>26 DEF FailRow, Cleanup
  <2>27. CASE FailMisses(p)
    BY <2>27 DEF FailMisses, Cleanup
  <2>28. CASE CleanMedia(p)
    BY <2>28 DEF CleanMedia, DeleteMedia, AbortUpload
  <2>29. CASE PollStatus(p)
    BY <2>29 DEF PollStatus
  <2>30. QED
    BY <1>1, <2>1, <2>2, <2>3, <2>4, <2>5, <2>6, <2>7, <2>8, <2>9, <2>10, <2>11, <2>12, <2>13, <2>14, <2>15, <2>16, <2>17, <2>18, <2>19, <2>20, <2>21, <2>22, <2>23, <2>24, <2>25, <2>26, <2>27, <2>28, <2>29 DEF Step
<1>2. ASSUME NEW p \in Procs, Crash(p) PROVE TypeOK'
  BY <1>2, ImportAssumption DEF Crash
<1>3. ASSUME NEW p \in Procs, NEW i \in Imports,
             StartReserve(p, i) \/ Poll(p, i) \/ PollStale(p, i)
      PROVE  TypeOK'
  BY <1>3 DEF StartReserve, Poll, PollS3, PollBunny, PollStale
<1>4. ASSUME NEW i \in Imports, BunnyWorks(i) PROVE TypeOK'
  <2>1. PICK m \in Media : media' = [media EXCEPT ![i] = m]
    BY <1>4 DEF BunnyWorks
  <2>2. media' \in [Imports -> Media]
    BY <2>1
  <2>3. QED
    BY <1>4, <2>2 DEF BunnyWorks
<1>5. ASSUME NEW i \in Imports, Old(i) PROVE TypeOK'
  BY <1>5 DEF Old
<1>6. CASE UNCHANGED vars
  BY <1>6 DEF vars
<1>7. QED
  BY <1>1, <1>2, <1>3, <1>4, <1>5, <1>6 DEF Next

\* Every variable stays in its type.
THEOREM TypeCorrect == Spec => []TypeOK
<1>1. Init => TypeOK
  BY ImportAssumption DEF Init, TypeOK, Statuses, Active, Media
<1>2. QED
  BY <1>1, TypeStep, PTL DEF Spec

-----------------------------------------------------------------------------
(***************************************************************************)
(* The status as a lock.                                                   *)
(***************************************************************************)

\* Every step keeps the invariant.
LEMMA InvStep == IInv /\ [Next]_vars => IInv'
<1> SUFFICES ASSUME IInv, [Next]_vars PROVE IInv'
  OBVIOUS
<1> DEFINE Locked == WorkersHold /\ OneWorker /\ RowBegins /\ OneFinalizer
                        /\ FinalizersClaimed /\ OneRowPerImport
<1>a. TypeOK' /\ TypeOK
  BY TypeStep DEF IInv
<1> USE <1>a DEF IInv, TypeOK, Statuses, Active, WorkersHold, OneWorker, RowBegins, OneFinalizer,
        FinalizersClaimed, OneRowPerImport, Undertakes, Settling, StartSteps, CopySteps,
        FinalSteps, Goto, Begin, From, Answered, row
<1>1. ASSUME NEW p \in Procs, Step(p) PROVE Locked'
  <2>1. CASE StartRow(p)
    BY <2>1 DEF StartRow
  <2>2. CASE StartRowFails(p)
    BY <2>2 DEF StartRowFails
  <2>3. CASE FetchSend(p)
    BY <2>3 DEF FetchSend
  <2>4. CASE FetchSendFails(p)
    BY <2>4 DEF FetchSendFails
  <2>5. CASE FetchRecord(p)
    BY <2>5 DEF FetchRecord
  <2>6. CASE FetchRecordFails(p)
    BY <2>6 DEF FetchRecordFails
  <2>7. CASE FetchSearch(p)
    BY <2>7 DEF FetchSearch
  <2>8. CASE CopyAcquire(p)
    BY <2>8 DEF CopyAcquire
  <2>9. CASE CopyRead(p)
    BY <2>9 DEF CopyRead
  <2>10. CASE CopyOpen(p)
    BY <2>10 DEF CopyOpen
  <2>11. CASE CopyOpenFails(p)
    BY <2>11 DEF CopyOpenFails
  <2>12. CASE CopyRecord(p)
    BY <2>12 DEF CopyRecord
  <2>13. CASE CopyRecordFails(p)
    BY <2>13 DEF CopyRecordFails
  <2>14. CASE CopySend(p)
    BY <2>14 DEF CopySend
  <2>15. CASE CopySendFails(p)
    BY <2>15 DEF CopySendFails
  <2>16. CASE CopyMark(p)
    BY <2>16 DEF CopyMark
  <2>17. CASE CopyMarkFails(p)
    BY <2>17 DEF CopyMarkFails
  <2>18. CASE CopyDiscard(p)
    BY <2>18 DEF CopyDiscard, DeleteMedia
  <2>19. CASE CopyUndo(p)
    BY <2>19 DEF CopyUndo, DeleteMedia, AbortUpload
  <2>20. CASE FinalClaim(p)
    BY <2>20 DEF FinalClaim
  <2>21. CASE FinalClaimFails(p)
    BY <2>21 DEF FinalClaimFails
  <2>22. CASE FinalCheck(p)
    BY <2>22 DEF FinalCheck
  <2>23. CASE FinalCommit(p)
    BY <2>23 DEF FinalCommit
  <2>24. CASE FinalCommitFails(p)
    BY <2>24 DEF FinalCommitFails
  <2>25. CASE FinalHandback(p)
    BY <2>25 DEF FinalHandback
  <2>26. CASE FailRow(p)
    BY <2>26 DEF FailRow, Cleanup, FailSteps, FailsFrom
  <2>27. CASE FailMisses(p)
    BY <2>27 DEF FailMisses, FailSteps
  <2>28. CASE CleanMedia(p)
    BY <2>28 DEF CleanMedia, DeleteMedia, AbortUpload, CleanSteps
  <2>29. CASE PollStatus(p)
    BY <2>29 DEF PollStatus
  <2>30. QED
    BY <1>1, <2>1, <2>2, <2>3, <2>4, <2>5, <2>6, <2>7, <2>8, <2>9, <2>10, <2>11, <2>12, <2>13, <2>14, <2>15, <2>16, <2>17, <2>18, <2>19, <2>20, <2>21, <2>22, <2>23, <2>24, <2>25, <2>26, <2>27, <2>28, <2>29 DEF Step
<1>2. ASSUME NEW p \in Procs, Crash(p) PROVE Locked'
  BY <1>2 DEF Crash
<1>3. ASSUME NEW p \in Procs, NEW i \in Imports, StartReserve(p, i) PROVE Locked'
  BY <1>3 DEF StartReserve
<1>4. ASSUME NEW p \in Procs, NEW i \in Imports, Poll(p, i) PROVE Locked'
  BY <1>4 DEF Poll, PollS3, PollBunny
<1>5. ASSUME NEW p \in Procs, NEW i \in Imports, PollStale(p, i) PROVE Locked'
  BY <1>5 DEF PollStale, Working
<1>6. ASSUME NEW i \in Imports, BunnyWorks(i) PROVE Locked'
  BY <1>6 DEF BunnyWorks
<1>7. ASSUME NEW i \in Imports, Old(i) PROVE Locked'
  BY <1>7 DEF Old
<1>8. CASE UNCHANGED vars
  BY <1>8 DEF vars
<1>9. QED
  BY <1>1, <1>2, <1>3, <1>4, <1>5, <1>6, <1>7, <1>8 DEF Next

\* The invariant, of every behaviour.
THEOREM Invariance == Spec => []IInv
<1>1. Init => IInv
  BY ImportAssumption DEF Init, IInv, TypeOK, Statuses, Active, Media, WorkersHold, OneWorker,
     RowBegins, OneFinalizer, FinalizersClaimed, OneRowPerImport, Undertakes, Settling,
     StartSteps, CopySteps
<1>2. QED
  BY <1>1, InvStep, PTL DEF Spec

\* One video per finished import and none for any other, whatever crashes and
\* whichever answers get lost.
THEOREM OneRow == Spec => []OneRowPerImport
<1>1. IInv => OneRowPerImport
  BY DEF IInv
<1>2. QED
  BY <1>1, Invariance, PTL

\* No step takes a finished import back: whoever is past the claim still has it
\* FINALIZING, and every other write is conditional on the status.
THEOREM Settled == Spec => SettledForGood
<1> DEFINE Stays == \A i \in Imports : status[i] \in {"DONE", "FAILED"} => status'[i] = status[i]
<1>1. IInv /\ [Next]_vars => [Stays]_vars
  <2> SUFFICES ASSUME IInv, [Next]_vars PROVE Stays
    OBVIOUS
  <2> USE DEF IInv, TypeOK, Statuses, Active, FinalizersClaimed, RowBegins, Undertakes, Settling,
          StartSteps, CopySteps, Goto, Begin, From, Answered, row
  <2>1. ASSUME NEW p \in Procs, Step(p) PROVE Stays
    <3>1. CASE StartRow(p)
      BY <3>1 DEF StartRow
    <3>2. CASE StartRowFails(p)
      BY <3>2 DEF StartRowFails
    <3>3. CASE FetchSend(p)
      BY <3>3 DEF FetchSend
    <3>4. CASE FetchSendFails(p)
      BY <3>4 DEF FetchSendFails
    <3>5. CASE FetchRecord(p)
      BY <3>5 DEF FetchRecord
    <3>6. CASE FetchRecordFails(p)
      BY <3>6 DEF FetchRecordFails
    <3>7. CASE FetchSearch(p)
      BY <3>7 DEF FetchSearch
    <3>8. CASE CopyAcquire(p)
      BY <3>8 DEF CopyAcquire
    <3>9. CASE CopyRead(p)
      BY <3>9 DEF CopyRead
    <3>10. CASE CopyOpen(p)
      BY <3>10 DEF CopyOpen
    <3>11. CASE CopyOpenFails(p)
      BY <3>11 DEF CopyOpenFails
    <3>12. CASE CopyRecord(p)
      BY <3>12 DEF CopyRecord
    <3>13. CASE CopyRecordFails(p)
      BY <3>13 DEF CopyRecordFails
    <3>14. CASE CopySend(p)
      BY <3>14 DEF CopySend
    <3>15. CASE CopySendFails(p)
      BY <3>15 DEF CopySendFails
    <3>16. CASE CopyMark(p)
      BY <3>16 DEF CopyMark
    <3>17. CASE CopyMarkFails(p)
      BY <3>17 DEF CopyMarkFails
    <3>18. CASE CopyDiscard(p)
      BY <3>18 DEF CopyDiscard, DeleteMedia
    <3>19. CASE CopyUndo(p)
      BY <3>19 DEF CopyUndo, DeleteMedia, AbortUpload
    <3>20. CASE FinalClaim(p)
      BY <3>20 DEF FinalClaim
    <3>21. CASE FinalClaimFails(p)
      BY <3>21 DEF FinalClaimFails
    <3>22. CASE FinalCheck(p)
      BY <3>22 DEF FinalCheck
    <3>23. CASE FinalCommit(p)
      BY <3>23 DEF FinalCommit
    <3>24. CASE FinalCommitFails(p)
      BY <3>24 DEF FinalCommitFails
    <3>25. CASE FinalHandback(p)
      BY <3>25 DEF FinalHandback
    <3>26. CASE FailRow(p)
      BY <3>26 DEF FailRow, Cleanup, FailSteps, FailsFrom
    <3>27. CASE FailMisses(p)
      BY <3>27 DEF FailMisses, FailSteps
    <3>28. CASE CleanMedia(p)
      BY <3>28 DEF CleanMedia, DeleteMedia, AbortUpload, CleanSteps
    <3>29. CASE PollStatus(p)
      BY <3>29 DEF PollStatus
    <3>30. QED
      BY <2>1, <3>1, <3>2, <3>3, <3>4, <3>5, <3>6, <3>7, <3>8, <3>9, <3>10, <3>11, <3>12, <3>13, <3>14, <3>15, <3>16, <3>17, <3>18, <3>19, <3>20, <3>21, <3>22, <3>23, <3>24, <3>25, <3>26, <3>27, <3>28, <3>29 DEF Step
  <2>2. ASSUME NEW p \in Procs, Crash(p) PROVE Stays
    BY <2>2 DEF Crash
  <2>3. ASSUME NEW p \in Procs, NEW i \in Imports, StartReserve(p, i) PROVE Stays
    BY <2>3 DEF StartReserve
  <2>4. ASSUME NEW p \in Procs, NEW i \in Imports, Poll(p, i) PROVE Stays
    BY <2>4 DEF Poll, PollS3, PollBunny
  <2>5. ASSUME NEW p \in Procs, NEW i \in Imports, PollStale(p, i) PROVE Stays
    BY <2>5 DEF PollStale, Working
  <2>6. ASSUME NEW i \in Imports, BunnyWorks(i) PROVE Stays
    BY <2>6 DEF BunnyWorks
  <2>7. ASSUME NEW i \in Imports, Old(i) PROVE Stays
    BY <2>7 DEF Old
  <2>8. CASE UNCHANGED vars
    BY <2>8 DEF vars
  <2>9. QED
    BY <2>1, <2>2, <2>3, <2>4, <2>5, <2>6, <2>7, <2>8 DEF Next
<1>2. QED
  BY <1>1, Invariance, PTL DEF Spec, SettledForGood

-----------------------------------------------------------------------------
(***************************************************************************)
(* The quota and the media, while the database answers what it commits.    *)
(***************************************************************************)

\* Every step keeps the reservation in step with the status.
LEMMA HoldStep ==
    ASSUME ~LostAnswers, IInv, HoldFollowsStatus, [Next]_vars
    PROVE  HoldFollowsStatus'
<1> USE DEF IInv, TypeOK, Statuses, Active, RowBegins, Undertakes, FinalizersClaimed, Settling, StartSteps,
        CopySteps, Goto, Begin, From, Answered, row, HoldFollowsStatus
<1>1. ASSUME NEW p \in Procs, Step(p) PROVE HoldFollowsStatus'
  <2>1. CASE StartRow(p)
    BY <2>1 DEF StartRow
  <2>2. CASE StartRowFails(p)
    BY <2>2 DEF StartRowFails
  <2>3. CASE FetchSend(p)
    BY <2>3 DEF FetchSend
  <2>4. CASE FetchSendFails(p)
    BY <2>4 DEF FetchSendFails
  <2>5. CASE FetchRecord(p)
    BY <2>5 DEF FetchRecord
  <2>6. CASE FetchRecordFails(p)
    BY <2>6 DEF FetchRecordFails
  <2>7. CASE FetchSearch(p)
    BY <2>7 DEF FetchSearch
  <2>8. CASE CopyAcquire(p)
    BY <2>8 DEF CopyAcquire
  <2>9. CASE CopyRead(p)
    BY <2>9 DEF CopyRead
  <2>10. CASE CopyOpen(p)
    BY <2>10 DEF CopyOpen
  <2>11. CASE CopyOpenFails(p)
    BY <2>11 DEF CopyOpenFails
  <2>12. CASE CopyRecord(p)
    BY <2>12 DEF CopyRecord
  <2>13. CASE CopyRecordFails(p)
    BY <2>13 DEF CopyRecordFails
  <2>14. CASE CopySend(p)
    BY <2>14 DEF CopySend
  <2>15. CASE CopySendFails(p)
    BY <2>15 DEF CopySendFails
  <2>16. CASE CopyMark(p)
    BY <2>16 DEF CopyMark
  <2>17. CASE CopyMarkFails(p)
    BY <2>17 DEF CopyMarkFails
  <2>18. CASE CopyDiscard(p)
    BY <2>18 DEF CopyDiscard, DeleteMedia
  <2>19. CASE CopyUndo(p)
    BY <2>19 DEF CopyUndo, DeleteMedia, AbortUpload
  <2>20. CASE FinalClaim(p)
    BY <2>20 DEF FinalClaim
  <2>21. CASE FinalClaimFails(p)
    BY <2>21 DEF FinalClaimFails
  <2>22. CASE FinalCheck(p)
    BY <2>22 DEF FinalCheck
  <2>23. CASE FinalCommit(p)
    BY <2>23 DEF FinalCommit
  <2>24. CASE FinalCommitFails(p)
    BY <2>24 DEF FinalCommitFails
  <2>25. CASE FinalHandback(p)
    BY <2>25 DEF FinalHandback
  <2>26. CASE FailRow(p)
    BY <2>26 DEF FailRow, Cleanup, FailSteps, FailsFrom
  <2>27. CASE FailMisses(p)
    BY <2>27 DEF FailMisses, FailSteps
  <2>28. CASE CleanMedia(p)
    BY <2>28 DEF CleanMedia, DeleteMedia, AbortUpload, CleanSteps
  <2>29. CASE PollStatus(p)
    BY <2>29 DEF PollStatus
  <2>30. QED
    BY <1>1, <2>1, <2>2, <2>3, <2>4, <2>5, <2>6, <2>7, <2>8, <2>9, <2>10, <2>11, <2>12, <2>13, <2>14, <2>15, <2>16, <2>17, <2>18, <2>19, <2>20, <2>21, <2>22, <2>23, <2>24, <2>25, <2>26, <2>27, <2>28, <2>29 DEF Step
<1>2. ASSUME NEW p \in Procs, Crash(p) PROVE HoldFollowsStatus'
  BY <1>2 DEF Crash
<1>3. ASSUME NEW p \in Procs, NEW i \in Imports, StartReserve(p, i) PROVE HoldFollowsStatus'
  BY <1>3 DEF StartReserve
<1>4. ASSUME NEW p \in Procs, NEW i \in Imports, Poll(p, i) PROVE HoldFollowsStatus'
  BY <1>4 DEF Poll, PollS3, PollBunny
<1>5. ASSUME NEW p \in Procs, NEW i \in Imports, PollStale(p, i) PROVE HoldFollowsStatus'
  BY <1>5 DEF PollStale, Working
<1>6. ASSUME NEW i \in Imports, BunnyWorks(i) PROVE HoldFollowsStatus'
  BY <1>6 DEF BunnyWorks
<1>7. ASSUME NEW i \in Imports, Old(i) PROVE HoldFollowsStatus'
  BY <1>7 DEF Old
<1>8. CASE UNCHANGED vars
  BY <1>8 DEF vars
<1>9. QED
  BY <1>1, <1>2, <1>3, <1>4, <1>5, <1>6, <1>7, <1>8 DEF Next

\* The quota is held exactly while an import can still become a video.
THEOREM HoldFollows == ~LostAnswers => (Spec => []HoldFollowsStatus)
<1> SUFFICES ASSUME ~LostAnswers PROVE Spec => []HoldFollowsStatus
  OBVIOUS
<1>1. Init => HoldFollowsStatus
  BY DEF Init, HoldFollowsStatus, Active
<1>2. IInv /\ HoldFollowsStatus /\ [Next]_vars => HoldFollowsStatus'
  BY HoldStep
<1>3. QED
  BY <1>1, <1>2, Invariance, PTL DEF Spec

\* Every step keeps what the processes know about the media true.
LEMMA MediaStep ==
    ASSUME ~LostAnswers, IInv, HoldFollowsStatus, MediaInv, [Next]_vars
    PROVE  MediaInv'
<1>a. \A i \in Imports : backend[i] \in {"S3", "BUNNY"}
  BY ImportAssumption DEF IInv, TypeOK
<1> USE DEF IInv, TypeOK, Statuses, Active, WorkersHold, OneWorker, RowBegins, OneFinalizer,
        FinalizersClaimed, HoldFollowsStatus, Undertakes, Settling, StartSteps, CopySteps, CleanSteps,
        Goto, Begin, From, Answered, row, MediaInv, Backed, Untouched, Landed, Finished
<1>1. ASSUME NEW p \in Procs, Step(p) PROVE MediaInv'
  <2>1. CASE StartRow(p)
    <3>1. UNCHANGED <<hold, backend, media, recorded, transferred, rows, on>>
      BY <2>1 DEF StartRow
    <3>2. at[p] = "start.row" /\ status' = [status EXCEPT ![on[p]] = "TRANSFERRING"]
      BY <2>1 DEF StartRow
    <3>3. at' = [at EXCEPT ![p] = IF backend[on[p]] = "S3" THEN "copy.queued" ELSE "fetch.send"]
      BY <2>1 DEF StartRow
    <3>4. backend[on[p]] \in {"S3", "BUNNY"}
      BY <1>a
    <3>5. Backed'
      BY <3>1, <3>2, <3>3, <3>4
    <3>6. Untouched' /\ Landed'
      BY <3>1, <3>2, <3>3
    <3>7. QED
      BY <3>5, <3>6
  <2>2. CASE StartRowFails(p)
    BY <2>2 DEF StartRowFails
  <2>3. CASE FetchSend(p)
    BY <2>3 DEF FetchSend
  <2>4. CASE FetchSendFails(p)
    BY <2>4 DEF FetchSendFails
  <2>5. CASE FetchRecord(p)
    BY <2>5 DEF FetchRecord
  <2>6. CASE FetchRecordFails(p)
    BY <2>6 DEF FetchRecordFails
  <2>7. CASE FetchSearch(p)
    BY <2>7 DEF FetchSearch
  <2>8. CASE CopyAcquire(p)
    BY <2>8 DEF CopyAcquire
  <2>9. CASE CopyRead(p)
    BY <2>9 DEF CopyRead
  <2>10. CASE CopyOpen(p)
    BY <2>10 DEF CopyOpen
  <2>11. CASE CopyOpenFails(p)
    BY <2>11 DEF CopyOpenFails
  <2>12. CASE CopyRecord(p)
    BY <2>12 DEF CopyRecord
  <2>13. CASE CopyRecordFails(p)
    BY <2>13 DEF CopyRecordFails
  <2>14. CASE CopySend(p)
    BY <2>14 DEF CopySend
  <2>15. CASE CopySendFails(p)
    BY <2>15 DEF CopySendFails
  <2>16. CASE CopyMark(p)
    <3>1. Backed'
      BY <2>16 DEF CopyMark
    <3>2. Untouched'
      BY <2>16 DEF CopyMark
    <3>3. \A i \in Imports :
            /\ transferred[i] => transferred'[i]
            /\ transferred'[i] => \/ transferred[i]
                                  \/ i = on[p] /\ status[i] = "TRANSFERRING"
      BY <2>16 DEF CopyMark
    <3>4. /\ UNCHANGED <<status, backend, media, on>>
          /\ backend[on[p]] = "S3"
          /\ status[on[p]] = "FAILED" \/ media[on[p]] = "landed"
      BY <2>16 DEF CopyMark
    <3>5. transferred' = [transferred EXCEPT ![on[p]] = @ \/ status[on[p]] = "TRANSFERRING"]
      BY <2>16 DEF CopyMark
    <3>6. at' = [at EXCEPT ![p] = IF status[on[p]] = "TRANSFERRING" THEN "final.claim" ELSE "copy.discard"]
      BY <2>16 DEF CopyMark
    <3>7. \A q \in Procs : at'[q] = "final.claim"
             => at[q] = "final.claim" \/ (on[q] = on[p] /\ transferred'[on[p]])
      <4>1. status[on[p]] = "TRANSFERRING" => transferred'[on[p]]
        BY <3>5
      <4>2. \A q \in Procs : at'[q] = "final.claim"
               => at[q] = "final.claim" \/ (q = p /\ status[on[p]] = "TRANSFERRING")
        BY <3>6
      <4>3. QED
        BY <4>1, <4>2
    <3>8. Landed'
      BY <3>3, <3>4, <3>7
    <3>9. QED
      BY <3>1, <3>2, <3>8
  <2>17. CASE CopyMarkFails(p)
    BY <2>17 DEF CopyMarkFails
  <2>18. CASE CopyDiscard(p)
    BY <2>18 DEF CopyDiscard, DeleteMedia
  <2>19. CASE CopyUndo(p)
    BY <2>19 DEF CopyUndo, DeleteMedia, AbortUpload
  <2>20. CASE FinalClaim(p)
    BY <2>20 DEF FinalClaim
  <2>21. CASE FinalClaimFails(p)
    BY <2>21 DEF FinalClaimFails
  <2>22. CASE FinalCheck(p)
    BY <2>22 DEF FinalCheck
  <2>23. CASE FinalCommit(p)
    BY <2>23 DEF FinalCommit
  <2>24. CASE FinalCommitFails(p)
    BY <2>24 DEF FinalCommitFails
  <2>25. CASE FinalHandback(p)
    BY <2>25 DEF FinalHandback
  <2>26. CASE FailRow(p)
    BY <2>26 DEF FailRow, Cleanup, FailSteps, FailsFrom
  <2>27. CASE FailMisses(p)
    BY <2>27 DEF FailMisses, FailSteps
  <2>28. CASE CleanMedia(p)
    BY <2>28 DEF CleanMedia, DeleteMedia, AbortUpload, CleanSteps
  <2>29. CASE PollStatus(p)
    BY <2>29 DEF PollStatus
  <2>30. QED
    BY <1>1, <2>1, <2>2, <2>3, <2>4, <2>5, <2>6, <2>7, <2>8, <2>9, <2>10, <2>11, <2>12, <2>13, <2>14, <2>15, <2>16, <2>17, <2>18, <2>19, <2>20, <2>21, <2>22, <2>23, <2>24, <2>25, <2>26, <2>27, <2>28, <2>29 DEF Step
<1>2. ASSUME NEW p \in Procs, Crash(p) PROVE MediaInv'
  BY <1>2 DEF Crash
<1>3. ASSUME NEW p \in Procs, NEW i \in Imports, StartReserve(p, i) PROVE MediaInv'
  BY <1>3 DEF StartReserve
<1>4. ASSUME NEW p \in Procs, NEW i \in Imports, Poll(p, i) PROVE MediaInv'
  BY <1>4 DEF Poll, PollS3, PollBunny
<1>5. ASSUME NEW p \in Procs, NEW i \in Imports, PollStale(p, i) PROVE MediaInv'
  BY <1>5 DEF PollStale, Working
<1>6. ASSUME NEW i \in Imports, BunnyWorks(i) PROVE MediaInv'
  BY <1>6 DEF BunnyWorks
<1>7. ASSUME NEW i \in Imports, Old(i) PROVE MediaInv'
  BY <1>7 DEF Old
<1>8. CASE UNCHANGED vars
  BY <1>8 DEF vars
<1>9. QED
  BY <1>1, <1>2, <1>3, <1>4, <1>5, <1>6, <1>7, <1>8 DEF Next

\* A process that is late never deletes the media of an import that became a
\* video.
THEOREM MediaStays == ~LostAnswers => (Spec => []AttachedMediaStays)
<1> SUFFICES ASSUME ~LostAnswers PROVE Spec => []AttachedMediaStays
  OBVIOUS
<1>1. Init => MediaInv
  BY DEF Init, MediaInv, Backed, Untouched, Landed, Finished, StartSteps, CopySteps, CleanSteps
<1>2. IInv /\ HoldFollowsStatus /\ MediaInv /\ [Next]_vars => MediaInv'
  BY MediaStep
<1>3. IInv /\ MediaInv => AttachedMediaStays
  BY ImportAssumption DEF IInv, TypeOK, MediaInv, Landed, Finished, AttachedMediaStays
<1>4. QED
  BY <1>1, <1>2, <1>3, Invariance, HoldFollows, PTL DEF Spec

-----------------------------------------------------------------------------
(***************************************************************************)
(* The refinement.  A step of the code moves at most one import in the     *)
(* eyes of the promise.                                                    *)
(***************************************************************************)

\* What the promise sees of an import, by its status and its reservation.
Seen(i) ==
    /\ status[i] = "DONE" => OutcomeOf(i) = "landed" /\ ChargeOf(i) = "video"
    /\ status[i] = "FAILED" => OutcomeOf(i) = "failed" /\ ChargeOf(i) = "nothing"
    /\ status[i] \in Active => OutcomeOf(i) = "running" /\ ChargeOf(i) = "hold"
    /\ status[i] = "none" /\ hold[i] = "none" => OutcomeOf(i) = "none" /\ ChargeOf(i) = "nothing"
    /\ status[i] = "none" /\ hold[i] = "held" => OutcomeOf(i) = "running" /\ ChargeOf(i) = "hold"
    /\ status[i] = "none" /\ hold[i] = "released"
          => OutcomeOf(i) = "failed" /\ ChargeOf(i) = "nothing"

Open(i) == status[i] \in Active \/ (status[i] = "none" /\ hold[i] = "held")

Still(i) ==
    \/ status'[i] = status[i] /\ hold'[i] = hold[i]
    \/ Open(i) /\ Open(i)'
Starts(i) == status[i] = "none" /\ hold[i] = "none" /\ Open(i)'
Ends(i) ==
    /\ Open(i)
    /\ \/ status'[i] \in {"DONE", "FAILED"}
       \/ status'[i] = "none" /\ hold'[i] = "released"
Moves(i) == (Starts(i) \/ Ends(i)) /\ \A j \in Imports \ {i} : Still(j)

\* The code's step, seen through status and reservation.
LEMMA OneMoves ==
    ASSUME ~LostAnswers, IInv, HoldFollowsStatus, [Next]_vars
    PROVE  (\A i \in Imports : Still(i)) \/ \E i \in Imports : Moves(i)
<1> USE DEF IInv, TypeOK, Statuses, Active, RowBegins, FinalizersClaimed, HoldFollowsStatus, Undertakes,
        Settling, StartSteps, CopySteps, Goto, Begin, From, Answered, row, Still, Open
<1> DEFINE Quiet == \A i \in Imports : Still(i)
<1>1. ASSUME NEW p \in Procs, Step(p) PROVE Quiet \/ Moves(on[p])
  <2>1. CASE StartRow(p)
    BY <2>1 DEF StartRow
  <2>2. CASE StartRowFails(p)
    BY <2>2 DEF StartRowFails, Moves, Ends
  <2>3. CASE FetchSend(p)
    BY <2>3 DEF FetchSend
  <2>4. CASE FetchSendFails(p)
    BY <2>4 DEF FetchSendFails
  <2>5. CASE FetchRecord(p)
    BY <2>5 DEF FetchRecord
  <2>6. CASE FetchRecordFails(p)
    BY <2>6 DEF FetchRecordFails
  <2>7. CASE FetchSearch(p)
    BY <2>7 DEF FetchSearch
  <2>8. CASE CopyAcquire(p)
    BY <2>8 DEF CopyAcquire
  <2>9. CASE CopyRead(p)
    BY <2>9 DEF CopyRead
  <2>10. CASE CopyOpen(p)
    BY <2>10 DEF CopyOpen
  <2>11. CASE CopyOpenFails(p)
    BY <2>11 DEF CopyOpenFails
  <2>12. CASE CopyRecord(p)
    BY <2>12 DEF CopyRecord
  <2>13. CASE CopyRecordFails(p)
    BY <2>13 DEF CopyRecordFails
  <2>14. CASE CopySend(p)
    BY <2>14 DEF CopySend
  <2>15. CASE CopySendFails(p)
    BY <2>15 DEF CopySendFails
  <2>16. CASE CopyMark(p)
    BY <2>16 DEF CopyMark
  <2>17. CASE CopyMarkFails(p)
    BY <2>17 DEF CopyMarkFails
  <2>18. CASE CopyDiscard(p)
    BY <2>18 DEF CopyDiscard, DeleteMedia
  <2>19. CASE CopyUndo(p)
    BY <2>19 DEF CopyUndo, DeleteMedia, AbortUpload
  <2>20. CASE FinalClaim(p)
    BY <2>20 DEF FinalClaim
  <2>21. CASE FinalClaimFails(p)
    BY <2>21 DEF FinalClaimFails
  <2>22. CASE FinalCheck(p)
    BY <2>22 DEF FinalCheck
  <2>23. CASE FinalCommit(p)
    BY <2>23 DEF FinalCommit, Moves, Ends
  <2>24. CASE FinalCommitFails(p)
    BY <2>24 DEF FinalCommitFails
  <2>25. CASE FinalHandback(p)
    BY <2>25 DEF FinalHandback
  <2>26. CASE FailRow(p)
    BY <2>26 DEF FailRow, Moves, Ends, Cleanup, FailSteps, FailsFrom
  <2>27. CASE FailMisses(p)
    BY <2>27 DEF FailMisses, FailSteps
  <2>28. CASE CleanMedia(p)
    BY <2>28 DEF CleanMedia, DeleteMedia, AbortUpload, CleanSteps
  <2>29. CASE PollStatus(p)
    BY <2>29 DEF PollStatus
  <2>30. QED
    BY <1>1, <2>1, <2>2, <2>3, <2>4, <2>5, <2>6, <2>7, <2>8, <2>9, <2>10, <2>11, <2>12, <2>13, <2>14, <2>15, <2>16, <2>17, <2>18, <2>19, <2>20, <2>21, <2>22, <2>23, <2>24, <2>25, <2>26, <2>27, <2>28, <2>29 DEF Step
<1>2. ASSUME NEW p \in Procs, Crash(p) PROVE Quiet
  BY <1>2 DEF Crash
<1>3. ASSUME NEW p \in Procs, NEW i \in Imports, StartReserve(p, i) PROVE Moves(i)
  BY <1>3 DEF StartReserve, Moves, Starts
<1>4. ASSUME NEW p \in Procs, NEW i \in Imports, Poll(p, i) PROVE Quiet
  BY <1>4 DEF Poll
<1>5. ASSUME NEW p \in Procs, NEW i \in Imports, PollStale(p, i) PROVE Quiet
  BY <1>5 DEF PollStale
<1>6. ASSUME NEW i \in Imports, BunnyWorks(i) \/ Old(i) PROVE Quiet
  BY <1>6 DEF BunnyWorks, Old
<1>7. CASE UNCHANGED vars
  BY <1>7 DEF vars
<1>8. QED
  <2> HIDE DEF IInv, TypeOK, RowBegins, FinalizersClaimed, HoldFollowsStatus, Still, Open, Quiet
  <2>1. ASSUME NEW p \in Procs, Step(p) PROVE Quiet \/ \E i \in Imports : Moves(i)
    <3>1. on[p] \in Imports
      BY DEF IInv, TypeOK
    <3>2. QED
      BY <1>1, <2>1, <3>1
  <2>2. CASE \E p \in Procs : Step(p) \/ Crash(p)
    BY <1>2, <2>1, <2>2 DEF Quiet
  <2>3. CASE \E p \in Procs, i \in Imports : StartReserve(p, i)
    BY <1>3, <2>3
  <2>4. CASE \E p \in Procs, i \in Imports : Poll(p, i) \/ PollStale(p, i)
    BY <1>4, <1>5, <2>4 DEF Quiet
  <2>5. CASE \E i \in Imports : BunnyWorks(i) \/ Old(i)
    BY <1>6, <2>5 DEF Quiet
  <2>6. QED
    BY <1>7, <2>2, <2>3, <2>4, <2>5 DEF Next, Quiet

\* A step the promise sees is a step the promise allows.
LEMMA PromiseStep ==
    ASSUME IInv, IInv', HoldFollowsStatus, HoldFollowsStatus',
           (\A i \in Imports : Still(i)) \/ \E i \in Imports : Moves(i)
    PROVE  [Promise!PromiseNext]_(Promise!promised)
<1>1. \A i \in Imports : Seen(i) /\ status[i] \in Statuses /\ hold[i] \in {"none", "held", "released"}
  BY DEF Seen, IInv, TypeOK, Statuses, Active, OneRowPerImport, HoldFollowsStatus, OutcomeOf, ChargeOf
<1>2. \A i \in Imports : Seen(i)' /\ status'[i] \in Statuses /\ hold'[i] \in {"none", "held", "released"}
  BY DEF Seen, IInv, TypeOK, Statuses, Active, OneRowPerImport, HoldFollowsStatus, OutcomeOf, ChargeOf
<1>3. \A i \in Imports : Still(i) => OutcomeOf(i)' = OutcomeOf(i) /\ ChargeOf(i)' = ChargeOf(i)
  BY <1>1, <1>2 DEF Still, Open, Seen, Statuses, Active
<1>4. \A i \in Imports : Starts(i) =>
         /\ OutcomeOf(i) = "none"
         /\ OutcomeOf(i)' = "running" /\ ChargeOf(i)' = "hold"
  BY <1>1, <1>2 DEF Starts, Open, Seen, Statuses, Active
<1>5. \A i \in Imports : Ends(i) =>
         /\ OutcomeOf(i) = "running" /\ ChargeOf(i) = "hold"
         /\ \/ OutcomeOf(i)' = "landed" /\ ChargeOf(i)' = "video"
            \/ OutcomeOf(i)' = "failed" /\ ChargeOf(i)' = "nothing"
  BY <1>1, <1>2 DEF Ends, Open, Seen, Statuses, Active
<1>6. CASE \A i \in Imports : Still(i)
  BY <1>3, <1>6 DEF Promise!promised
<1>7. ASSUME NEW i \in Imports, Moves(i) PROVE Promise!PromiseNext
  <2>1. \A j \in Imports \ {i} : OutcomeOf(j)' = OutcomeOf(j) /\ ChargeOf(j)' = ChargeOf(j)
    BY <1>3, <1>7 DEF Moves
  <2>2. CASE Starts(i)
    <3>1. Promise!Begins(i)
      BY <1>4, <2>1, <2>2 DEF Promise!Begins
    <3>2. QED
      BY <3>1 DEF Promise!PromiseNext
  <2>3. CASE Ends(i)
    <3>1. Promise!Lands(i) \/ Promise!Fails(i)
      BY <1>5, <2>1, <2>3 DEF Promise!Lands, Promise!Fails
    <3>2. QED
      BY <3>1 DEF Promise!PromiseNext
  <2>4. QED
    BY <1>7, <2>2, <2>3 DEF Moves
<1>8. QED
  BY <1>6, <1>7

\* The import keeps the promise: one outcome, for good, and the bytes counted
\* exactly once at every moment.
THEOREM Keeps == ~LostAnswers => (Spec => KeepsThePromise)
<1> SUFFICES ASSUME ~LostAnswers PROVE Spec => KeepsThePromise
  OBVIOUS
<1>1. Init => Promise!PromiseInit
  BY DEF Init, Promise!PromiseInit, OutcomeOf, ChargeOf, Active
<1>2. /\ IInv /\ IInv' /\ HoldFollowsStatus /\ HoldFollowsStatus' /\ [Next]_vars
      => [Promise!PromiseNext]_(Promise!promised)
  BY OneMoves, PromiseStep
<1>3. QED
  BY <1>1, <1>2, Invariance, HoldFollows, PTL DEF Spec, KeepsThePromise, Promise!PromiseSpec

===============================================================================
