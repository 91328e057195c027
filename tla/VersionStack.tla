----------------------------- MODULE VersionStack -----------------------------
(***************************************************************************)
(* The versions of a file: their numbers, and which one is displayed.      *)
(*                                                                         *)
(* New cuts arrive through the versions POST, image uploads and Drive      *)
(* imports, whole files are stacked onto one another, and single versions  *)
(* are activated (PATCH) or deleted.  What runs in contentTransaction is   *)
(* one step here: it is Serializable under the project's lock, and either  *)
(* retried or refused.  What PATCH and DELETE do outside it is not: each   *)
(* of their reads and writes is a step, and any other request may come     *)
(* between two of them.                                                    *)
(***************************************************************************)
EXTENDS Integers, FiniteSets

CONSTANTS
    Videos,     \* ids of Video rows
    Versions,   \* ids of VideoVersion rows
    NoVideo,    \* the parent of a version that does not exist
    Requests,   \* request slots of the server
    MaxNumber,  \* bound: the highest version number modelled
    MayCrash    \* TRUE: a server process may die between two statements

ASSUME StackAssumption ==
    /\ NoVideo \notin Videos
    /\ IsFiniteSet(Versions)
    /\ MaxNumber \in Nat
    /\ MayCrash \in BOOLEAN

VARIABLES
    files,      \* the Video rows that exist
    parent,     \* VideoVersion.videoParentId
    number,     \* VideoVersion.versionNumber, 0 for a version that does not exist
    active,     \* versions with isActive
    req         \* per request: its next step and what it has read

vars == <<files, parent, number, active, req>>
tables == <<files, parent, number, active>>

Numbers == 1..MaxNumber
Of(v) == {x \in Versions : parent[x] = v}
Free == Of(NoVideo)

\* Row ids are never given twice: a finite set of them is recycled here only
\* when no running request still refers to the row that had the id before.
Refers(m, id) ==
    \E f \in DOMAIN m :
        m[f] = id \/ (f \in {"sourceVersions", "targetVersions"} /\ id \in m[f])
Fresh(id) == \A r \in Requests : ~Refers(req[r], id)

\* orderBy versionNumber desc, take 1; 0 for a file without versions
IsLatest(n, v) ==
    /\ \A x \in Of(v) : number[x] <= n
    /\ \/ n = 0 /\ Of(v) = {}
       \/ \E x \in Of(v) : number[x] = n

Idle == [at |-> "idle"]
Posting == [at : {"post.commit"}, video : Videos, latest : 0..MaxNumber]
Activating == [at : {"activate.clear", "activate.set"}, video : Videos, version : Versions]
Deleting == [at : {"delete.count", "delete.commit"}, video : Videos, version : Versions,
             wasActive : BOOLEAN]
Merging ==
    {m \in [at : {"merge.commit"}, source : Videos, target : Videos,
            sourceVersions : SUBSET Versions, targetVersions : SUBSET Versions] :
        m.source # m.target}

TypeOK ==
    /\ files \subseteq Videos
    /\ parent \in [Versions -> files \cup {NoVideo}]
    /\ number \in [Versions -> 0..MaxNumber]
    /\ active \subseteq Versions \ Free
    /\ req \in [Requests -> {Idle} \cup Posting \cup Activating \cup Deleting \cup Merging]

Init ==
    /\ files = {}
    /\ parent = [x \in Versions |-> NoVideo]
    /\ number = [x \in Versions |-> 0]
    /\ active = {}
    /\ req = [r \in Requests |-> Idle]

Put(r, state) == req' = [req EXCEPT ![r] = state]

Create(x, v, n) ==
    /\ x \in Free /\ Fresh(x) /\ n \in Numbers
    /\ parent' = [parent EXCEPT ![x] = v]
    /\ number' = [number EXCEPT ![x] = n]

(***************************************************************************)
(* Operations that are one content transaction.                            *)
(***************************************************************************)

\* POST videos, an image upload or a Drive import without a target file.
CreateVideo(r, v, x) ==
    /\ req[r] = Idle /\ v \notin files /\ Fresh(v)
    /\ files' = files \cup {v}
    /\ Create(x, v, 1)
    /\ active' = active \cup {x}
    /\ UNCHANGED req

\* An image upload or a Drive import into an existing file reads the latest
\* number inside its transaction.
AddVersion(r, v, x) ==
    /\ req[r] = Idle /\ v \in files
    /\ \E n \in 0..MaxNumber : IsLatest(n, v) /\ Create(x, v, n + 1)
    /\ active' = (active \ Of(v)) \cup {x}
    /\ UNCHANGED <<files, req>>

\* Video and bulk DELETE; the version rows cascade.
DeleteVideo(r, v) ==
    /\ req[r] = Idle /\ v \in files
    /\ files' = files \ {v}
    /\ parent' = [x \in Versions |-> IF x \in Of(v) THEN NoVideo ELSE parent[x]]
    /\ number' = [x \in Versions |-> IF x \in Of(v) THEN 0 ELSE number[x]]
    /\ active' = active \ Of(v)
    /\ UNCHANGED req

(***************************************************************************)
(* POST versions: the number is computed from a read made before the       *)
(* transaction; (videoParentId, versionNumber) is unique.                  *)
(***************************************************************************)
PostRead(r, v) ==
    /\ req[r] = Idle /\ v \in files
    /\ \E n \in 0..MaxNumber :
          IsLatest(n, v) /\ Put(r, [at |-> "post.commit", video |-> v, latest |-> n])
    /\ UNCHANGED tables

Taken(n, v) == \E y \in Of(v) : number[y] = n

PostCommit(r, x) ==
    LET v == req[r].video
        n == req[r].latest + 1
    IN  /\ req[r].at = "post.commit"
        /\ v \in files /\ ~Taken(n, v)
        /\ Create(x, v, n)
        /\ \E setActive \in BOOLEAN :
              active' = IF setActive THEN (active \ Of(v)) \cup {x} ELSE active
        /\ Put(r, Idle)
        /\ UNCHANGED files

(***************************************************************************)
(* PATCH { isActive: true }: three statements, no transaction.             *)
(***************************************************************************)
ActivateRead(r, x) ==
    /\ req[r] = Idle /\ x \notin Free
    /\ Put(r, [at |-> "activate.clear", video |-> parent[x], version |-> x])
    /\ UNCHANGED tables

ActivateClear(r) ==
    /\ req[r].at = "activate.clear"
    /\ active' = active \ Of(req[r].video)
    /\ Put(r, [req[r] EXCEPT !.at = "activate.set"])
    /\ UNCHANGED <<files, parent, number>>

ActivateSet(r) ==
    /\ req[r].at = "activate.set" /\ req[r].version \notin Free
    /\ active' = active \cup {req[r].version}
    /\ Put(r, Idle)
    /\ UNCHANGED <<files, parent, number>>

\* The version was deleted meanwhile: update throws, nothing undoes the clear.
ActivateMisses(r) ==
    /\ req[r].at = "activate.set" /\ req[r].version \in Free
    /\ Put(r, Idle)
    /\ UNCHANGED tables

(***************************************************************************)
(* DELETE version: the flag and the count are read before the transaction, *)
(* which is READ COMMITTED and takes no lock.                              *)
(***************************************************************************)
DeleteRead(r, x) ==
    /\ req[r] = Idle /\ x \notin Free
    /\ Put(r, [at |-> "delete.count", video |-> parent[x], version |-> x,
               wasActive |-> x \in active])
    /\ UNCHANGED tables

DeleteCount(r) ==
    /\ req[r].at = "delete.count"
    /\ Put(r, IF Cardinality(Of(req[r].video)) > 1
              THEN [req[r] EXCEPT !.at = "delete.commit"] ELSE Idle)
    /\ UNCHANGED tables

\* Broken form of DeleteCommit: the oldest of the rest is displayed instead
\* (orderBy without desc).
DeleteCommitOldest(r) ==
    LET x == req[r].version
        rest == Of(req[r].video) \ {x}
    IN  /\ req[r].at = "delete.commit" /\ x \notin Free
        /\ parent' = [parent EXCEPT ![x] = NoVideo]
        /\ number' = [number EXCEPT ![x] = 0]
        /\ active' = (active \ {x}) \cup
               {y \in rest : req[r].wasActive /\ \A z \in rest : number[z] >= number[y]}
        /\ Put(r, Idle)
        /\ UNCHANGED files

DeleteCommit(r) ==
    LET v == req[r].video
        x == req[r].version
        rest == Of(v) \ {x}
    IN  /\ req[r].at = "delete.commit" /\ x \notin Free
        /\ parent' = [parent EXCEPT ![x] = NoVideo]
        /\ number' = [number EXCEPT ![x] = 0]
        /\ active' = (active \ {x}) \cup
               {y \in rest : req[r].wasActive /\ \A z \in rest : number[z] <= number[y]}
        /\ Put(r, Idle)
        /\ UNCHANGED files

(***************************************************************************)
(* Stacking one file onto another: a preview whose token is a digest of    *)
(* both version lists, then the same call again with the token.            *)
(***************************************************************************)
MergePreview(r, s, t) ==
    /\ req[r] = Idle /\ {s, t} \subseteq files /\ s # t /\ Of(s) # {}
    /\ Put(r, [at |-> "merge.commit", source |-> s, target |-> t,
               sourceVersions |-> Of(s), targetVersions |-> Of(t)])
    /\ UNCHANGED tables

Confirmed(m) == m.sourceVersions = Of(m.source) /\ m.targetVersions = Of(m.target)

\* Broken form of MergeNumber: the source is read newest first.
MergeNumberReversed(x, s, base) == base + Cardinality({y \in Of(s) : number[y] >= number[x]})

\* base + index + 1 for the versions of the source in the order of their numbers
MergeNumber(x, s, base) == base + Cardinality({y \in Of(s) : number[y] <= number[x]})

MergeCommit(r) ==
    LET s == req[r].source
        t == req[r].target
    IN  /\ req[r].at = "merge.commit"
        /\ {s, t} \subseteq files /\ Of(s) # {} /\ Confirmed(req[r])
        /\ \E base \in 0..MaxNumber :
              /\ IsLatest(base, t)
              /\ base + Cardinality(Of(s)) <= MaxNumber
              /\ number' = [x \in Versions |->
                               IF x \in Of(s) THEN MergeNumber(x, s, base) ELSE number[x]]
        /\ parent' = [x \in Versions |-> IF x \in Of(s) THEN t ELSE parent[x]]
        /\ active' = (active \ (Of(t) \cup Of(s))) \cup
               {x \in Of(s) : \A y \in Of(s) : number[y] <= number[x]}
        /\ files' = files \ {s}
        /\ Put(r, Idle)

\* A version list changed since the preview: a new token is sent for approval.
MergeAsksAgain(r) ==
    /\ req[r].at = "merge.commit"
    /\ {req[r].source, req[r].target} \subseteq files /\ Of(req[r].source) # {}
    /\ ~Confirmed(req[r])
    /\ Put(r, [req[r] EXCEPT !.sourceVersions = Of(req[r].source),
                             !.targetVersions = Of(req[r].target)])
    /\ UNCHANGED tables

\* A conflict, a taken number, a file or version that is gone, access revoked:
\* the request ends before, or is rolled back to before, its first write.
Refuse(r) ==
    /\ req[r].at \in {"post.commit", "activate.clear", "delete.count", "delete.commit",
                      "merge.commit"}
    /\ Put(r, Idle)
    /\ UNCHANGED tables

Crash(r) ==
    /\ MayCrash
    /\ req[r].at = "activate.set"
    /\ Put(r, Idle)
    /\ UNCHANGED tables

Continue(r) ==
    \/ ActivateClear(r) \/ ActivateSet(r) \/ ActivateMisses(r)
    \/ DeleteCount(r) \/ DeleteCommit(r)
    \/ MergeCommit(r) \/ MergeAsksAgain(r)
    \/ Refuse(r)

Step(r) ==
    \/ Continue(r)
    \/ \E v \in Videos : PostRead(r, v) \/ DeleteVideo(r, v)
    \/ \E x \in Versions : PostCommit(r, x) \/ ActivateRead(r, x) \/ DeleteRead(r, x)
    \/ \E v \in Videos, x \in Versions : CreateVideo(r, v, x) \/ AddVersion(r, v, x)
    \/ \E s, t \in Videos : MergePreview(r, s, t)

Next == \E r \in Requests : Step(r) \/ Crash(r)

Spec == Init /\ [][Next]_vars

-----------------------------------------------------------------------------
(***************************************************************************)
(* Properties.                                                             *)
(***************************************************************************)

\* No two versions of a file ever carry the same number, although POST versions
\* computes its number before its transaction and stacking renumbers.
NumbersAreUnique ==
    \A x, y \in Versions \ Free :
        parent[x] = parent[y] /\ number[x] = number[y] => x = y

\* No request reorders the cuts of a file, and the cuts a file receives by
\* stacking come after its own.
CutsKeepTheirOrder ==
    [][\A x, y \in Versions \ Free :
          /\ {x, y} \cap Free' = {}
          /\ parent'[x] = parent'[y]
          /\ \/ parent[x] = parent[y] /\ number[x] < number[y]
             \/ parent[x] = parent'[x] /\ parent[x] # parent[y]
          => number'[x] < number'[y]]_vars

Settling(v) == \E r \in Requests : req[r].at = "activate.set" /\ req[r].video = v

\* A file displays exactly one version, but for the moment between the two
\* writes of an activation.
OneActiveVersion ==
    \A v \in files : Settling(v) \/ Cardinality(Of(v) \cap active) = 1

\* A file never loses its last version while it exists.
LastVersionStays ==
    \A v \in files : Of(v) # {}
===============================================================================
