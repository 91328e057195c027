----------------------------- MODULE ContentTree -----------------------------
(***************************************************************************)
(* The folders and files of one project, who may see and edit them, and    *)
(* the operations that move them and change their access.                  *)
(*                                                                         *)
(* Every operation below runs in contentTransaction: Serializable, under   *)
(* the project's advisory lock, and, where it changes access, only with a  *)
(* confirmation token that hashes the whole permission graph.  So each is  *)
(* one step; what can go wrong is what a long sequence of legal steps of   *)
(* several managers makes of the tree.                                     *)
(*                                                                         *)
(* The code decides who may see a file twice: checkVideoAccess walks from  *)
(* the file to the root, visibleVideoWhere is a nested query.  Both are    *)
(* here, as the code has them.                                             *)
(***************************************************************************)
EXTENDS Integers, FiniteSets

CONSTANTS
  Folders,    \* the folders that may come to exist in the project
  Videos,     \* the files
  Users,      \* people with an account, besides the owner
  Owner,      \* owns the project and its workspace
  Guest,      \* anybody who is not signed in
  None,       \* not there: a folder or a file that does not exist
  Root,       \* the top of the project
  There,      \* the top of another project in the workspace; also its name
  Workspace,  \* the workspace, as a place where a role is held
  MaxDepth,   \* MAX_FOLDER_DEPTH and the trigger's limit, 10 in the code
  MaxGrants   \* bound: roles held by people other than the owner

ASSUME TreeAssumption ==
  /\ MaxDepth \in Nat \ {0} /\ MaxGrants \in Nat
  /\ None # Root /\ None # There /\ Root # There /\ Workspace \notin {None, Root, There}
  /\ {None, Root, There, Workspace} \cap (Folders \cup Videos) = {}
  /\ Folders \cap Videos = {}
  /\ Owner # Guest /\ {Owner, Guest} \cap Users = {}

VARIABLES
  parent,   \* parent[f]: the folder around f, Root, or None if f does not exist
  mode,     \* accessMode of a folder
  at,       \* at[v]: where the file is, or None
  vmode,    \* accessMode of a file
  link,     \* link[v]: a share link of the file exists
  role,     \* role[u][t]: membership of u in a thing t
  public,   \* the project's visibility is PUBLIC
  paid      \* the workspace owner's billing is active

vars == <<parent, mode, at, vmode, link, role, public, paid>>

Modes == {"INHERIT", "RESTRICTED", "PUBLIC"}
Roles == {"NONE", "COMMENTATOR", "ADMIN"}

\* Root stands for the project itself where roles are concerned.
Things == Folders \cup Videos \cup {Root, There, Workspace}
Actors == Users \cup {Owner}
People == Actors \cup {Guest}

Live == {f \in Folders : parent[f] # None}
LiveVideos == {v \in Videos : at[v] # None}

RoleOf(x, t) == IF x \in Users THEN role[x][t] ELSE "NONE"

-----------------------------------------------------------------------------
(* Projects: resolveProjectPermissions over the queries of                 *)
(* checkProjectAccess, and its twin in query form, projectAudience.        *)

projectOf(v) == IF at[v] = There THEN There ELSE Root

isPublic(pr) == pr = Root /\ public

workspaceRole(x) == IF x = Owner THEN "OWNER" ELSE RoleOf(x, Workspace)

checkProjectAccess(x, pr) ==
  LET isOwner == x = Owner
      isProjectMember == RoleOf(x, pr) # "NONE"
      isProjectAdmin == RoleOf(x, pr) = "ADMIN"
      isWorkspaceMember == workspaceRole(x) # "NONE"
      isWorkspaceAdmin == workspaceRole(x) \in {"ADMIN", "OWNER"}
  IN [hasAccess |-> paid /\ (isOwner \/ isProjectMember \/ isPublic(pr) \/ isWorkspaceMember),
      canEdit |-> paid /\ (isOwner \/ isProjectAdmin \/ isWorkspaceAdmin)]

Holds(x, t, manage) ==
  RoleOf(x, t) \in (IF manage THEN {"ADMIN"} ELSE {"ADMIN", "COMMENTATOR"})

projectAudience(x, manage, pr) ==
  /\ paid
  /\ \/ ~manage /\ isPublic(pr)
     \/ x = Owner
     \/ Holds(x, pr, manage)
     \/ Holds(x, Workspace, manage)

-----------------------------------------------------------------------------
(* The way from a folder up to the root, which every loop below follows.   *)

Above(d) ==
  LET above[f \in Folders] == {f} \cup (IF parent[f] \in Folders THEN above[parent[f]] ELSE {})
  IN IF d \in Folders /\ parent[d] # None THEN above[d] ELSE {}

Depth(d) == Cardinality(Above(d))  \* levels down to d, 0 for the root

\* What a loop that begins at f has behind it when it comes to g, and its turns so far.
Before(f, g) == Above(f) \ Above(g)
Turn(f, g) == Depth(f) - Depth(g)

Unrestricted(S) == \A h \in S : mode[h] # "RESTRICTED"

-----------------------------------------------------------------------------
(* The query form: openToRoot, folderAudience, visibleVideoWhere.  The     *)
(* nested conditions are unrolled: a level of nesting is a folder g of     *)
(* the way up, and "depth" is how many levels the query has.               *)

openToRoot(f, depth) == Unrestricted(Above(f) \ {f}) /\ Depth(f) <= depth

folderAudience(x, manage, publicFolders, f, depth) ==
  \E g \in Above(f) :
    /\ \/ Holds(x, g, manage)
       \/ ~manage /\ publicFolders /\ mode[g] = "PUBLIC" /\ openToRoot(g, depth - Turn(f, g))
       \/ mode[g] # "RESTRICTED" /\ parent[g] = Root /\ projectAudience(x, manage, Root)
    /\ Unrestricted(Before(f, g)) /\ Turn(f, g) < depth

visibleVideo(x, manage, publicFolders, v) ==
  /\ paid
  /\ \/ projectAudience(x, TRUE, projectOf(v))
     \/ Holds(x, v, manage)
     \/ /\ vmode[v] = "INHERIT"
        /\ IF at[v] \in {Root, There}
           THEN projectAudience(x, manage, at[v])
           ELSE folderAudience(x, manage, publicFolders, at[v], MaxDepth)

visibleFolder(x, manage, publicFolders, f) ==
  /\ paid
  /\ \/ projectAudience(x, TRUE, Root)
     \/ folderAudience(x, manage, publicFolders, f, MaxDepth)

\* checkFolderAccess: the project itself, or one of its folders.
checkFolderAccess(x, d) ==
  LET project == checkProjectAccess(x, IF d = There THEN There ELSE Root)
  IN IF d \in {Root, There} \/ project.canEdit
     THEN project
     ELSE [hasAccess |-> visibleFolder(x, FALSE, TRUE, d),
           canEdit |-> x # Guest /\ visibleFolder(x, TRUE, TRUE, d)]

-----------------------------------------------------------------------------
(* The walk: checkVideoAccess, one folder per turn, at most MaxDepth.      *)

\* The folders that the walk from f looks at: it breaks off at one that x is an admin
\* of, at a restricted one and when its turns are used up.
comesTo(x, f, turn) ==
  {g \in Above(f) : /\ \A h \in Before(f, g) : RoleOf(x, h) # "ADMIN" /\ mode[h] # "RESTRICTED"
                    /\ turn + Turn(f, g) < MaxDepth}

\* The rest of the walk from f on: a role was found, or a public folder passed, before.
Walk(x, f, turn, member, opened) ==
  LET seen == comesTo(x, f, turn)
      goesOn(g) == RoleOf(x, g) # "ADMIN" /\ mode[g] # "RESTRICTED"
      publicReach == opened \/ \E g \in seen : mode[g] = "PUBLIC"
  IN [hasAccess |-> \/ member \/ \E g \in seen : RoleOf(x, g) # "NONE"
                    \/ /\ \E g \in seen : goesOn(g) /\ parent[g] = Root
                       /\ publicReach \/ checkProjectAccess(x, Root).hasAccess,
      canEdit |-> \E g \in seen : RoleOf(x, g) = "ADMIN"]

\* broken form: starts the walk one turn late
checkVideoAccessShort(x, v) ==
  IF checkProjectAccess(x, projectOf(v)).canEdit \/ vmode[v] # "INHERIT"
     \/ RoleOf(x, v) = "ADMIN" \/ at[v] \in {Root, There} \/ ~paid
  THEN [hasAccess |-> visibleVideo(x, FALSE, TRUE, v), canEdit |-> visibleVideo(x, TRUE, TRUE, v)]
  ELSE Walk(x, at[v], 1, RoleOf(x, v) # "NONE", FALSE)

checkVideoAccess(x, v) ==
  LET project == checkProjectAccess(x, projectOf(v))
      member == RoleOf(x, v) # "NONE"
      inherits == vmode[v] = "INHERIT" /\ RoleOf(x, v) # "ADMIN"
  IN IF project.canEdit THEN project
     ELSE IF ~paid THEN [hasAccess |-> FALSE, canEdit |-> FALSE]
     ELSE IF ~inherits THEN [hasAccess |-> member, canEdit |-> RoleOf(x, v) = "ADMIN"]
     ELSE IF at[v] \in {Root, There}
          THEN [hasAccess |-> member \/ project.hasAccess, canEdit |-> FALSE]
     ELSE Walk(x, at[v], 0, member, FALSE)

-----------------------------------------------------------------------------
(* The tree: helpers of the folder operations.                             *)

\* f and what is below it
folderSubtree(f) == {g \in Live : f \in Above(g)}

\* hasRestrictedAncestor, and the same including the folder itself.
Enclosed(d) == ~Unrestricted(Above(d))
hasRestrictedAncestor(f) == Enclosed(parent[f])

\* The nearest public folder at or above f, or f: the walk ends at a restricted one.
publicListingRoot(f) ==
  LET found == {g \in Above(f) : /\ Turn(f, g) < MaxDepth /\ mode[g] = "PUBLIC"
                                 /\ \A h \in Before(f, g) : mode[h] = "INHERIT"}
  IN IF found = {} THEN f ELSE CHOOSE g \in found : TRUE

\* What the project page lists to x who has opened folder f.
openedSubtree(x, f) ==
  IF checkProjectAccess(x, Root).hasAccess THEN {}
  ELSE folderSubtree(publicListingRoot(f))
listedFolders(x, f) ==
  LET all == checkProjectAccess(x, Root).hasAccess
  IN {g \in Live : \/ visibleFolder(x, FALSE, all, g)
                   \/ g \in openedSubtree(x, f) /\ visibleFolder(x, FALSE, TRUE, g)}
listedVideos(x, f) ==
  LET all == checkProjectAccess(x, Root).hasAccess
  IN {v \in LiveVideos : /\ projectOf(v) = Root
                         /\ \/ visibleVideo(x, FALSE, all, v)
                            \/ /\ at[v] \in openedSubtree(x, f)
                               /\ visibleVideo(x, FALSE, TRUE, v)}

-----------------------------------------------------------------------------
(* The steps.  a is the signed-in actor.                                   *)

Grants == {g \in Users \X Things : role[g[1]][g[2]] # "NONE"}

\* Rows of members go with what they belong to (ON DELETE CASCADE).
Forget(T) == role' = [u \in Users |-> [t \in Things |-> IF t \in T THEN "NONE" ELSE role[u][t]]]

\* The files in these folders lose their links; so do the files of V.
RevokeLinks(F, V) ==
  link' = [v \in Videos |-> link[v] /\ v \notin V /\ at[v] \notin F]

Init ==
  /\ parent = [f \in Folders |-> None]
  /\ mode = [f \in Folders |-> "INHERIT"]
  /\ at = [v \in Videos |-> None]
  /\ vmode = [v \in Videos |-> "INHERIT"]
  /\ link = [v \in Videos |-> FALSE]
  /\ role = [u \in Users |-> [t \in Things |-> "NONE"]]
  /\ public = FALSE
  /\ paid = TRUE

CreateFolder(a, f, d) ==
  /\ parent[f] = None
  /\ checkFolderAccess(a, d).canEdit
  /\ Depth(d) < MaxDepth
  /\ parent' = [parent EXCEPT ![f] = d]
  /\ UNCHANGED <<mode, at, vmode, link, role, public, paid>>

DeleteFolder(a, f) ==
  /\ checkFolderAccess(a, f).canEdit
  /\ \A g \in Live : parent[g] # f
  /\ \A v \in LiveVideos : at[v] # f
  /\ parent' = [parent EXCEPT ![f] = None]
  /\ mode' = [mode EXCEPT ![f] = "INHERIT"]
  /\ Forget({f})
  /\ UNCHANGED <<at, vmode, link, public, paid>>

\* Public folders that end up below a restricted one go back to INHERIT.
ClosedPublic(F) == [g \in Folders |-> IF g \in F /\ mode[g] = "PUBLIC" THEN "INHERIT" ELSE mode[g]]

\* broken form: revokes the links of the folder's own files only
SetFolderAccessShallow(a, f, m) ==
  /\ checkFolderAccess(a, f).canEdit
  /\ m = "PUBLIC" => ~hasRestrictedAncestor(f)
  /\ IF "RESTRICTED" \in {m, mode[f]} THEN RevokeLinks({f}, {}) ELSE UNCHANGED link
  /\ LET closed == IF m = "RESTRICTED" THEN folderSubtree(f) \ {f} ELSE {}
     IN mode' = [ClosedPublic(closed) EXCEPT ![f] = m]
  /\ UNCHANGED <<parent, at, vmode, role, public, paid>>

SetFolderAccess(a, f, m) ==
  /\ checkFolderAccess(a, f).canEdit
  /\ m = "PUBLIC" => ~hasRestrictedAncestor(f)
  /\ LET keepsLinks == m # "RESTRICTED" /\ mode[f] # "RESTRICTED"
         closed == IF m = "RESTRICTED" THEN folderSubtree(f) \ {f} ELSE {}
     IN /\ IF keepsLinks THEN UNCHANGED link ELSE RevokeLinks(folderSubtree(f), {})
        /\ mode' = [ClosedPublic(closed) EXCEPT ![f] = m]
  /\ UNCHANGED <<parent, at, vmode, role, public, paid>>

\* The folder with all that is in it goes below d, within the trigger's depth.
Relocate(f, d) ==
  /\ d \notin folderSubtree(f)
  /\ \A g \in folderSubtree(f) : Depth(d) + Depth(g) - Depth(f) < MaxDepth
  /\ parent' = [parent EXCEPT ![f] = d]
  /\ RevokeLinks(folderSubtree(f), {})
  /\ UNCHANGED <<at, vmode, role, public, paid>>

\* broken form: asks for rights on the destination only
MoveFolderByDestination(a, f, d) ==
  /\ checkFolderAccess(a, d).canEdit
  /\ mode' = ClosedPublic(IF Enclosed(d) THEN folderSubtree(f) ELSE {})
  /\ Relocate(f, d)

\* broken form: leaves public folders public wherever they go
MoveFolderAsIs(a, f, d) ==
  /\ checkFolderAccess(a, f).canEdit
  /\ checkFolderAccess(a, d).canEdit
  /\ Relocate(f, d)
  /\ UNCHANGED mode

MoveFolder(a, f, d) ==
  /\ checkFolderAccess(a, f).canEdit
  /\ checkFolderAccess(a, d).canEdit
  /\ mode' = ClosedPublic(IF Enclosed(d) THEN folderSubtree(f) ELSE {})
  /\ Relocate(f, d)

SetVideoAccess(a, v, m) ==
  /\ checkVideoAccess(a, v).canEdit
  /\ vmode' = [vmode EXCEPT ![v] = m]
  /\ RevokeLinks({}, {v})
  /\ UNCHANGED <<parent, mode, at, role, public, paid>>

\* moveContentVideos: files of one project, to a folder of it or to another project.
MoveVideos(a, V, d) ==
  /\ \A v, w \in V : projectOf(v) = projectOf(w)
  /\ \E v \in V : at[v] # d
  /\ checkFolderAccess(a, d).canEdit
  /\ \A v \in V : /\ checkVideoAccess(a, v).canEdit
                  /\ (d = There) # (at[v] = There) => checkProjectAccess(a, projectOf(v)).canEdit
  /\ at' = [v \in Videos |-> IF v \in V THEN d ELSE at[v]]
  /\ RevokeLinks({}, V)
  /\ UNCHANGED <<parent, mode, vmode, role, public, paid>>

CreateVideo(a, v, d) ==
  /\ at[v] = None
  /\ checkFolderAccess(a, d).canEdit
  /\ at' = [at EXCEPT ![v] = d]
  /\ UNCHANGED <<parent, mode, vmode, link, role, public, paid>>

DeleteVideos(a, V) ==
  /\ \A v \in V : visibleVideo(a, TRUE, TRUE, v)
  /\ \A v, w \in V : projectOf(v) = projectOf(w)
  /\ at' = [v \in Videos |-> IF v \in V THEN None ELSE at[v]]
  /\ vmode' = [v \in Videos |-> IF v \in V THEN "INHERIT" ELSE vmode[v]]
  /\ RevokeLinks({}, V)
  /\ Forget(V)
  /\ UNCHANGED <<parent, mode, public, paid>>

Share(a, v) ==
  /\ checkVideoAccess(a, v).canEdit
  /\ link' = [link EXCEPT ![v] = TRUE]
  /\ UNCHANGED <<parent, mode, at, vmode, role, public, paid>>

Unshare(a, v) ==
  /\ checkVideoAccess(a, v).canEdit
  /\ link' = [link EXCEPT ![v] = FALSE]
  /\ UNCHANGED <<parent, mode, at, vmode, role, public, paid>>

RevokeMember(a, u, t) ==
  /\ IF t \in Videos THEN checkVideoAccess(a, t).canEdit ELSE checkFolderAccess(a, t).canEdit
  /\ role' = [role EXCEPT ![u][t] = "NONE"]
  /\ UNCHANGED <<parent, mode, at, vmode, link, public, paid>>

SetVisibility(a) ==
  /\ checkProjectAccess(a, Root).canEdit
  /\ public' = ~public
  /\ UNCHANGED <<parent, mode, at, vmode, link, role, paid>>

\* Members of the project, of the other one and of the workspace have routes of
\* their own; so does the acceptance of an invitation, which never lowers a role.
Join(u, t, r) ==
  /\ role[u][t] = "NONE" => Cardinality(Grants) < MaxGrants
  /\ role[u][t] # "ADMIN"
  /\ role' = [role EXCEPT ![u][t] = r]
  /\ UNCHANGED <<parent, mode, at, vmode, link, public, paid>>

Leave(u, t) ==
  /\ role' = [role EXCEPT ![u][t] = "NONE"]
  /\ UNCHANGED <<parent, mode, at, vmode, link, public, paid>>

Billing ==
  /\ paid' = ~paid
  /\ UNCHANGED <<parent, mode, at, vmode, link, role, public>>

Content(a) ==
  \/ \E f \in Folders, d \in Live \cup {Root} : CreateFolder(a, f, d)
  \/ \E f \in Live : DeleteFolder(a, f)
  \/ \E f \in Live, m \in Modes : SetFolderAccess(a, f, m)
  \/ \E f \in Live, d \in Live \cup {Root} : MoveFolder(a, f, d)
  \/ \E v \in LiveVideos, m \in Modes \ {"PUBLIC"} : SetVideoAccess(a, v, m)
  \/ \E V \in SUBSET LiveVideos \ {{}}, d \in Live \cup {Root, There} : MoveVideos(a, V, d)
  \/ \E v \in Videos, d \in Live \cup {Root, There} : CreateVideo(a, v, d)
  \/ \E V \in SUBSET LiveVideos \ {{}} : DeleteVideos(a, V)
  \/ \E v \in LiveVideos : Share(a, v) \/ Unshare(a, v)
  \/ \E u \in Users, t \in Live \cup LiveVideos : RevokeMember(a, u, t)
  \/ SetVisibility(a)

Next ==
  \/ \E a \in Actors : Content(a)
  \/ \E u \in Users, t \in Live \cup LiveVideos \cup {Root, There, Workspace} :
       \/ \E r \in Roles \ {"NONE"} : Join(u, t, r)
       \/ t \in {Root, There, Workspace} /\ Leave(u, t)
  \/ Billing

Spec == Init /\ [][Next]_vars

-----------------------------------------------------------------------------
(* Properties.                                                             *)

\* Values are of their type, and rows reference rows that exist: a folder's parent, a
\* file's folder, a member's thing.
TypeOK ==
  /\ parent \in [Folders -> Folders \cup {Root, None}]
  /\ mode \in [Folders -> Modes]
  /\ at \in [Videos -> Folders \cup {Root, There, None}]
  /\ vmode \in [Videos -> Modes \ {"PUBLIC"}]
  /\ link \in [Videos -> BOOLEAN]
  /\ role \in [Users -> [Things -> Roles]]
  /\ public \in BOOLEAN /\ paid \in BOOLEAN
  /\ \A f \in Live : parent[f] \in Live \cup {Root}
  /\ \A v \in LiveVideos : at[v] \in Live \cup {Root, There}
  /\ \A u \in Users, t \in Things :
       role[u][t] # "NONE" => t \in Live \cup LiveVideos \cup {Root, There, Workspace}

\* The two decisions agree, for everybody and every file: what a list shows and what a
\* bulk operation may touch is what opening the file allows.
WalkMatchesQuery ==
  \A x \in People, v \in LiveVideos :
    checkVideoAccess(x, v) = [hasAccess |-> visibleVideo(x, FALSE, TRUE, v),
                              canEdit |-> visibleVideo(x, TRUE, TRUE, v)]

\* No public folder lies below a restricted one, whatever was moved and restricted in
\* which order: nothing becomes public again when a restriction is lifted.
PublicIsOpen == \A f \in Live : mode[f] = "PUBLIC" => ~hasRestrictedAncestor(f)

\* Who has no access to the project and opens a folder is shown nothing outside the
\* innermost public folder around it, unless a role of theirs admits them.
ListingStaysInside ==
  \A x \in People, f \in Live :
    ~checkProjectAccess(x, Root).hasAccess =>
      \A p \in Above(f) : mode[p] = "PUBLIC" =>
        /\ \A g \in listedFolders(x, f) :
             g \in folderSubtree(p) \/ \E h \in Above(g) : RoleOf(x, h) # "NONE"
        /\ \A v \in listedVideos(x, f) :
             \/ at[v] \in folderSubtree(p)
             \/ \E h \in {v} \cup Above(at[v]) : RoleOf(x, h) # "NONE"

\* What keeps others from a file: itself, the nearest restricted folder, or its project.
Boundary(v) ==
  LET restricted == {g \in Above(at[v]) : mode[g] = "RESTRICTED"}
  IN IF vmode[v] = "RESTRICTED" THEN {v}
     ELSE IF restricted = {} THEN {projectOf(v)}
     ELSE {g \in restricted : restricted \subseteq Above(g)}

\* A share link is revoked whenever the boundary around its file changes, however far
\* above the file the change is made; no old link opens a file from behind a new one.
LinksDieWithAccess ==
  [][\A v \in Videos : link[v] /\ link'[v] => Boundary(v)' = Boundary(v)]_vars

\* What x may do with t, by the query form; for a file the walk decides alike.
Reaches(x, t) ==
  LET sees == IF t \in Videos THEN visibleVideo(x, FALSE, TRUE, t) ELSE visibleFolder(x, FALSE, TRUE, t)
      edits == IF t \in Videos THEN visibleVideo(x, TRUE, TRUE, t) ELSE visibleFolder(x, TRUE, TRUE, t)
  IN IF edits THEN 2 ELSE IF sees THEN 1 ELSE 0

\* Whoever comes to see or edit more of what was there before owes it to somebody who
\* could edit that very thing: no move, deletion or change of access of a manager of one
\* part of the tree opens another part, to the manager or to anybody else.
Manager(a) == paid /\ \E t \in Things : role[a][t] = "ADMIN"
Granted == \E u \in Users, t \in Things : role'[u][t] \notin {role[u][t], "NONE"}

Rearranged == <<parent, mode, at, vmode, role, public>>' # <<parent, mode, at, vmode, role, public>>
Kept == (Live \cap Live') \cup (LiveVideos \cap LiveVideos')
Wider(t) == \E x \in Users \cup {Guest} : Reaches(x, t)' > Reaches(x, t)

OnlyManagersWiden ==
  [][Rearranged /\ ~Granted => \A a \in Users : Manager(a) =>
       \A t \in Kept : Reaches(a, t) = 2 \/ ~Wider(t) \/ ~Content(a)]_vars

=============================================================================
