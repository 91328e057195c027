------------------------------ MODULE MCUploads ------------------------------
(***************************************************************************)
(* The three ways a file reaches storage: uploaded by its user to the      *)
(* bucket or to Bunny, or copied from a Drive whose answers get lost.      *)
(* "part" says which of them a behaviour is about; the others stay in      *)
(* their initial states, where nothing fair is enabled.                    *)
(***************************************************************************)
EXTENDS R2Upload, Naturals

CONSTANTS
    Imports, Procs, Backends, CopySlots, MaxCrashes,   \* of DriveImport
    Files, None                                        \* of BunnyUpload

ASSUME SlotsAndCrashes == CopySlots \in Nat \ {0} /\ MaxCrashes \in Nat

VARIABLES
    part,     \* "bucket", "bunny" or "drive"
    loop, of, status, cancelRef, tusRef, pendingRef, uploading, cancelling,
    post, wipe, lock, media, granted, attached, elapsed, script,
    dStatus, dBackend, dHold, dRecorded, dTransferred, dMedia, dRows, dOld,
    dAt, dOn, dCopying, dCrashes

Drive == INSTANCE DriveImport WITH
    LostAnswers <- TRUE,
    status <- dStatus, backend <- dBackend, hold <- dHold, recorded <- dRecorded,
    transferred <- dTransferred, media <- dMedia, rows <- dRows, old <- dOld,
    at <- dAt, on <- dOn, copying <- dCopying, crashes <- dCrashes

Bunny == INSTANCE BunnyUpload WITH
    at <- loop, hold <- granted, rows <- attached, age <- elapsed, sweep <- script

\* Finitely many files; the missing one is no file, and a free lock no clean-up.
ASSUME FilesAssumption ==
    IsFiniteSet(Files) /\ None \notin Files \cup (Files \X Bunny!Askers)

driveVars ==
    <<dStatus, dBackend, dHold, dRecorded, dTransferred, dMedia, dRows, dOld,
      dAt, dOn, dCopying, dCrashes>>
bunnyVars ==
    <<loop, of, status, cancelRef, tusRef, pendingRef, uploading, cancelling,
      post, wipe, lock, media, granted, attached, elapsed, script>>
allVars == <<part, vars, driveVars, bunnyVars>>

Beginning ==
    /\ Init /\ Drive!Init /\ Bunny!Init
    /\ part # "drive" => \A i \in Imports : dBackend[i] = "S3"

ToBucket == part = "bucket" /\ Next /\ UNCHANGED <<part, driveVars, bunnyVars>>
FromDrive == part = "drive" /\ Drive!Next /\ UNCHANGED <<part, vars, bunnyVars>>
ToBunny == part = "bunny" /\ Bunny!Next /\ UNCHANGED <<part, vars, driveVars>>

\* The bucket and the Drive in one run, ...
UploadsInit == part \in {"bucket", "drive"} /\ Beginning
UploadsSpec ==
    /\ UploadsInit /\ [][ToBucket \/ FromDrive]_allVars
    /\ Fairness /\ Drive!Fairness

\* ... and Bunny in another.
BunnyInit == part = "bunny" /\ Beginning
BunnySpec == BunnyInit /\ [][ToBunny]_allVars /\ Bunny!Fairness

-----------------------------------------------------------------------------
\* A polled import ends as DONE or FAILED, whatever crashed and whichever
\* statement committed without an answer (finalizeDriveImport, failDriveImport).
ImportsSettle == Drive!ImportsSettle

\* A video that a row names is deleted with the row and in no other way: not by a
\* cancel that raced the save, nor by the orphan script (bunny-init's DELETE counts the
\* rows under the lock; the script waits for longer than a grant lives).
AttachedVideosStay == Bunny!AttachedVideosStay

\* While a cancel stands, no file is taken up and no row is asked for, however many
\* awaits the loops were in when it was clicked (isCancelled after each).
CancelStands == Bunny!CancelStands

\* A Bunny video gets a row or goes away, whatever was lost: the cancel, its answer,
\* the page or the deletion with the row (scripts/bunny-orphan-cleanup).
StrayVideosGo == Bunny!StrayVideosGo

\* The dialog does not stay busy: a loop ends, fails or is cancelled, and a cancel
\* ends although the aborted loop never does.
UploaderSettles == Bunny!UploaderSettles
=============================================================================
