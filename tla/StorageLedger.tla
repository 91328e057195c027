---------------------------- MODULE StorageLedger ----------------------------
(***************************************************************************)
(* The storage quota of one billed account: what its rows and its live     *)
(* reservations add up to, and how an upload is admitted against the       *)
(* account's limit and later moved from its reservation to its row.        *)
(*                                                                         *)
(* Reservations serialise on a per-account advisory lock, but two things   *)
(* happen outside it: the Bunny bytes and the limit are read before the    *)
(* lock is taken, and the version, subtitle and Bunny rows are written by  *)
(* transactions that do not take it.                                       *)
(***************************************************************************)
EXTENDS Integers, FiniteSetsExt

CONSTANTS
    Uploads,    \* upload slots of the account
    Kinds,      \* which of AllKinds the account uses
    Sizes,      \* sizes an upload may declare
    Limit       \* storage.limitBytes

\* "version": an R2 video version.  "asset": an R2 video asset.  "subtitle": a
\* subtitle track.  "bunny": a version hosted by Bunny.
AllKinds == {"version", "asset", "subtitle", "bunny"}

VARIABLE up     \* per slot: the upload's stage and what its requests have read

NotRead == -1

(***************************************************************************)
(* "held": a reservation that counts.  "lapsed": its deadline has passed.  *)
(* "orphaned": the row is gone but the client's token still works, after a *)
(* Bunny DELETE or a failed asset POST.  "both": a subtitle row whose      *)
(* reservation is not released yet.                                        *)
(***************************************************************************)
Stages == {"idle", "asked", "read", "held", "lapsed", "orphaned", "both", "stored"}

Idle == [stage |-> "idle", kind |-> "none", size |-> 0, seen |-> NotRead,
         admitted |-> FALSE, slipped |-> FALSE]

TypeOK ==
    up \in [Uploads -> [stage : Stages, kind : AllKinds \cup {"none"}, size : Sizes \cup {0},
                        seen : Nat \cup {NotRead}, admitted : BOOLEAN, slipped : BOOLEAN]]

Bytes(S) == MapThenSumSet(LAMBDA i : up[i].size, S)
InStage(stages) == {i \in Uploads : up[i].stage \in stages}
Rows(kinds) == {i \in InStage({"both", "stored"}) : up[i].kind \in kinds}

AssetBytes == Bytes(Rows({"asset"}))
VersionBytes == Bytes(Rows({"version"}))
SubtitleBytes == Bytes(Rows({"subtitle"}))
BunnyBytes == Bytes(Rows({"bunny"}))
ReservedBytes == Bytes(InStage({"held", "both"}))
R2Bytes == AssetBytes + VersionBytes + SubtitleBytes

\* getUserTotalStorageBytes
Used == R2Bytes + BunnyBytes + ReservedBytes

\* Broken form of CountedFor: the reservations of other uploads are left out.
CountedWithoutHolds(i) == R2Bytes + up[i].seen

\* The sum reserveStorageQuota compares: everything under the lock but Bunny.
CountedFor(i) == R2Bytes + ReservedBytes + up[i].seen

\* The sum of the assets route when its reservation is missing.
FallbackFor(i) == AssetBytes + ReservedBytes + up[i].seen

Init == up = [i \in Uploads |-> Idle]

Move(i, stage) == up' = [up EXCEPT ![i].stage = stage]

\* The init routes refuse first on an unlocked total (enforceStorageQuota).
Ask(i, kind, size) ==
    /\ up[i] = Idle
    /\ kind # "subtitle" => Used + size < Limit
    /\ up' = [up EXCEPT ![i] = [Idle EXCEPT !.stage = "asked", !.kind = kind, !.size = size]]

ReadBunny(i) ==
    /\ up[i].stage = "asked"
    /\ up' = [up EXCEPT ![i].stage = "read", ![i].seen = BunnyBytes]

Reserve(i) ==
    /\ up[i].stage = "read"
    /\ CountedFor(i) + up[i].size < Limit
    /\ up' = [up EXCEPT ![i].stage = "held", ![i].seen = NotRead, ![i].admitted = TRUE]

ReserveRefused(i) ==
    /\ up[i].stage = "read"
    /\ CountedFor(i) + up[i].size >= Limit
    /\ up' = [up EXCEPT ![i] = Idle]

\* A session outlives its reservation; a Bunny grant (1h) and the request that
\* stores a subtitle end before theirs (2h, 30min).
Lapse(i) ==
    /\ up[i].stage = "held" /\ up[i].kind \in {"version", "asset"}
    /\ Move(i, "lapsed")

(***************************************************************************)
(* Commits.  A row counts as admitted when a check let it in: the          *)
(* reservation it stands on or the assets route's own sum.                 *)
(***************************************************************************)
CommitVersion(i) ==
    /\ up[i].kind = "version" /\ up[i].stage \in {"held", "lapsed"}
    /\ up' = [up EXCEPT ![i].stage = "stored", ![i].admitted = (up[i].stage = "held")]

\* Some other request has read the Bunny bytes and not yet used them: it will
\* not see the row this one writes.
BunnyReadPending(i) == \E j \in Uploads \ {i} : up[j].seen # NotRead

CommitBunny(i) ==
    /\ up[i].kind = "bunny" /\ up[i].stage \in {"held", "orphaned"}
    /\ up' = [up EXCEPT ![i].stage = "stored", ![i].admitted = (up[i].stage = "held"),
                        ![i].slipped = BunnyReadPending(i)]

StoreSubtitle(i) ==
    /\ up[i].kind = "subtitle" /\ up[i].stage = "held"
    /\ Move(i, "both")

ReleaseSubtitle(i) ==
    /\ up[i].stage = "both"
    /\ Move(i, "stored")

Attachable(i) == up[i].kind = "asset" /\ up[i].stage \in {"held", "lapsed", "orphaned"}

\* The assets route's own sum leaves out version and subtitle rows.
FallbackBlind == VersionBytes + SubtitleBytes > 0

PrefetchBunny(i) ==
    /\ Attachable(i) /\ up[i].seen = NotRead
    /\ up' = [up EXCEPT ![i].seen = BunnyBytes]

CommitAsset(i) ==
    /\ Attachable(i) /\ up[i].seen # NotRead
    /\ up[i].stage = "held" \/ FallbackFor(i) + up[i].size < Limit
    /\ up' = [up EXCEPT ![i].stage = "stored", ![i].seen = NotRead, ![i].admitted = TRUE,
                        ![i].slipped = up[i].stage # "held" /\ FallbackBlind]

CommitAssetRefused(i) ==
    /\ Attachable(i) /\ up[i].seen # NotRead
    /\ up[i].stage # "held" /\ FallbackFor(i) + up[i].size >= Limit
    /\ up' = [up EXCEPT ![i].seen = NotRead]

\* Any other failure: the catch block releases the reservation, the upload
\* token stays good and the client may send the POST again.
CommitAssetFails(i) ==
    /\ Attachable(i) /\ up[i].seen # NotRead
    /\ up' = [up EXCEPT ![i].stage = "orphaned", ![i].seen = NotRead, ![i].admitted = FALSE]

\* DELETE bunny-init releases the reservation; the grant has no tombstone.
CancelBunny(i) ==
    /\ up[i].kind = "bunny" /\ up[i].stage = "held"
    /\ up' = [up EXCEPT ![i].stage = "orphaned", ![i].admitted = FALSE]

\* The upload is cancelled or given up, its token expires, its row is deleted,
\* or the server dies before the reservation is written.
Forget(i) ==
    /\ up[i].stage # "idle"
    /\ up' = [up EXCEPT ![i] = Idle]

Step(i) ==
    \/ ReadBunny(i) \/ Reserve(i) \/ ReserveRefused(i) \/ Lapse(i)
    \/ CommitVersion(i) \/ CommitBunny(i) \/ StoreSubtitle(i) \/ ReleaseSubtitle(i)
    \/ PrefetchBunny(i) \/ CommitAsset(i) \/ CommitAssetRefused(i) \/ CommitAssetFails(i)
    \/ CancelBunny(i) \/ Forget(i)

Next ==
    \E i \in Uploads :
        Step(i) \/ \E kind \in Kinds, size \in Sizes : Ask(i, kind, size)

Spec == Init /\ [][Next]_up

-----------------------------------------------------------------------------
(***************************************************************************)
(* Properties.                                                             *)
(***************************************************************************)
Charged == InStage({"held", "both", "stored"})

\* Concurrent uploads never book the same headroom twice: what a check let in
\* stays below the limit, except for Bunny rows committed while another request
\* stood between its Bunny read and its use of it, and assets let in by the
\* route's own sum over an account with version or subtitle rows.
NoDoubleBooking ==
    Bytes({i \in Charged : up[i].admitted /\ ~up[i].slipped}) < Limit \/ Charged = {}

\* A POST whose reservation is gone is held to the limit like any reservation.
FallbackEnforcesTheLimit ==
    [][\A i \in Uploads :
          up[i].stage = "orphaned" /\ up'[i].stage = "stored" /\ up[i].kind = "asset" =>
              Bytes(Charged \ {i}) + up[i].size < Limit]_up
===============================================================================
