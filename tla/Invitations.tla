----------------------------- MODULE Invitations -----------------------------
(***************************************************************************)
(* The invitations of one address to one place, the membership they grant  *)
(* and the account they may create.                                        *)
(*                                                                         *)
(* The place is a project or a workspace (scope WIDE), or a folder or a    *)
(* file (scope NARROW).  The two kinds are accepted by the same code but   *)
(* differently: a narrow invitation is claimed by a guarded update before  *)
(* anything is granted, a wide one grants and is then updated by its id.   *)
(* They are also cancelled by different routes: a narrow one in one        *)
(* statement of a content transaction, whatever its status, a wide one     *)
(* after a look at its status.                                             *)
(***************************************************************************)
EXTENDS Naturals, FiniteSets

CONSTANTS
  Invites,  \* rows of the invitations table for this address and place
  Requests, \* requests under way
  None      \* not there

VARIABLES
  scope,   \* "WIDE" or "NARROW"; never changes
  row,     \* row[i]: None or the invitation's status, role and whether it is past expiresAt
  account, \* the address has an account
  member,  \* the role it holds in the place
  solo,    \* the account that pays has room for its owner only
  at,      \* at[r]: what the request does next
  on,      \* on[r]: the invitation it is about
  seen     \* seen[r]: that invitation as the request read it

vars == <<scope, row, account, member, solo, at, on, seen>>

InviteRole == {"COMMENTATOR", "ADMIN"}
Row == [status : {"PENDING", "ACCEPTED", "EXPIRED", "CANCELED"},
        role : InviteRole, late : BOOLEAN]

Open(i) == row[i] # None /\ row[i].status = "PENDING" /\ ~row[i].late
Fresh(role) == [status |-> "PENDING", role |-> role, late |-> FALSE]
Status(i, s) == [row EXCEPT ![i].status = s]
Rank(r) == CASE r = "ADMIN" -> 2 [] r = "COMMENTATOR" -> 1 [] OTHER -> 0

\* checkEditorAddition for this person: an editor takes no second seat.
EditorAllowed == ~solo \/ member = "ADMIN"

Init ==
  /\ scope \in {"WIDE", "NARROW"}
  /\ row = [i \in Invites |-> None]
  /\ account \in BOOLEAN
  /\ member = None
  /\ solo \in BOOLEAN
  /\ at = [r \in Requests |-> "idle"]
  /\ on = [r \in Requests |-> None]
  /\ seen = [r \in Requests |-> None]

-----------------------------------------------------------------------------
(* Inviting.                                                               *)

\* createOrRefreshInvitation, Serializable: overdue rows expire, open ones get the role
\* and a new week; without an open one there is a new row.
Refresh(role) ==
  LET due == [i \in Invites |->
                IF row[i] # None /\ row[i].status = "PENDING" /\ row[i].late
                THEN [row[i] EXCEPT !.status = "EXPIRED"] ELSE row[i]]
      open == {i \in Invites : Open(i)}
  IN IF open # {}
     THEN row' = [i \in Invites |-> IF i \in open THEN [due[i] EXCEPT !.role = role] ELSE due[i]]
     ELSE \E i \in Invites :
            /\ row[i] = None
            /\ row' = [due EXCEPT ![i] = Fresh(role)]

InviteNarrow(role) ==
  /\ scope = "NARROW"
  /\ role = "ADMIN" => EditorAllowed
  /\ Refresh(role)
  /\ UNCHANGED <<scope, account, member, solo, at, on, seen>>

\* The members route looks for a member first, and writes later.
InviteWideCheck(r, role) ==
  /\ scope = "WIDE" /\ at[r] = "idle"
  /\ member = None
  /\ role = "ADMIN" => EditorAllowed
  /\ at' = [at EXCEPT ![r] = "invite"]
  /\ seen' = [seen EXCEPT ![r] = Fresh(role)]
  /\ UNCHANGED <<scope, row, account, member, solo, on>>

Done(r) ==
  /\ at' = [at EXCEPT ![r] = "idle"]
  /\ on' = [on EXCEPT ![r] = None]
  /\ seen' = [seen EXCEPT ![r] = None]

InviteWide(r) ==
  /\ at[r] = "invite"
  /\ Refresh(seen[r].role)
  /\ Done(r)
  /\ UNCHANGED <<scope, account, member, solo>>

-----------------------------------------------------------------------------
(* Accepting: the page or the registration reads the row, then applies it. *)

Read(r, i, step) ==
  /\ at' = [at EXCEPT ![r] = step]
  /\ on' = [on EXCEPT ![r] = i]
  /\ seen' = [seen EXCEPT ![r] = row[i]]
  /\ UNCHANGED <<scope, row, member, solo>>

AcceptRead(r, i) ==
  /\ at[r] = "idle" /\ account
  /\ row[i] # None /\ row[i].status = "PENDING"
  /\ Read(r, i, "apply")
  /\ UNCHANGED account

\* register: a good invitation admits, the account is created (the address is unique),
\* and the invitation is read again.
Register(r, i) ==
  /\ at[r] = "idle" /\ Open(i)
  /\ at' = [at EXCEPT ![r] = "create"]
  /\ on' = [on EXCEPT ![r] = i]
  /\ UNCHANGED <<scope, row, account, member, solo, seen>>

RegisterCreate(r) ==
  /\ at[r] = "create"
  /\ IF account THEN Done(r) /\ UNCHANGED account
     ELSE /\ account' = TRUE
          /\ at' = [at EXCEPT ![r] = "reread"]
          /\ UNCHANGED <<on, seen>>
  /\ UNCHANGED <<scope, row, member, solo>>

RegisterRead(r) ==
  /\ at[r] = "reread"
  /\ IF row[on[r]].status = "PENDING"
     THEN Read(r, on[r], "applyNew")
     ELSE /\ at' = [at EXCEPT ![r] = "undo"]
          /\ UNCHANGED <<scope, row, member, solo, on, seen>>
  /\ UNCHANGED account

\* The membership an accepted invitation leaves: never less than there was.
Upsert(role) == IF Rank(role) > Rank(member) THEN role ELSE member

\* A broken form of Claim: the row that was read is taken for the row that is there.
ClaimById(i) == row' = Status(i, "ACCEPTED")

\* The claim of a narrow invitation.
Claim(i) == Open(i) /\ row' = Status(i, "ACCEPTED")

\* applyInvitationMembership; the account must still be there for the grant (a reference).
Grant(i, role) ==
  /\ account
  /\ IF scope = "NARROW" THEN Claim(i) ELSE row' = Status(i, "ACCEPTED")
  /\ member' = Upsert(role)

Finish(r, accepted) ==
  IF at[r] = "applyNew" /\ ~accepted
  THEN at' = [at EXCEPT ![r] = "undo"] /\ UNCHANGED <<on, seen>>
  ELSE Done(r)

Apply(r) ==
  /\ at[r] \in {"apply", "applyNew"}
  /\ LET i == on[r]
         refused == seen[r].role = "ADMIN" /\ ~EditorAllowed
     IN \/ /\ seen[r].late
           /\ row' = Status(i, "EXPIRED")
           /\ Finish(r, FALSE)
           /\ UNCHANGED member
        \/ /\ ~seen[r].late /\ ~refused
           /\ Grant(i, seen[r].role)
           /\ Finish(r, TRUE)
        \/ /\ ~seen[r].late
           /\ refused \/ ~account \/ (scope = "NARROW" /\ ~Open(i))
           /\ Finish(r, FALSE)
           /\ UNCHANGED <<row, member>>
  /\ UNCHANGED <<scope, account, solo>>

\* A registration whose invitation came to nothing deletes the account it created, and
\* with it whatever the account holds.
RegisterUndo(r) ==
  /\ at[r] = "undo"
  /\ account' = FALSE
  /\ member' = None
  /\ Done(r)
  /\ UNCHANGED <<scope, row, solo>>

-----------------------------------------------------------------------------
(* Cancelling, members, plans and time.                                    *)

RevokeNarrow(i) ==
  /\ scope = "NARROW" /\ row[i] # None
  /\ row' = Status(i, "CANCELED")
  /\ UNCHANGED <<scope, account, member, solo, at, on, seen>>

CancelWideCheck(r, i) ==
  /\ scope = "WIDE" /\ at[r] = "idle"
  /\ row[i] # None /\ row[i].status = "PENDING"
  /\ Read(r, i, "cancel")
  /\ UNCHANGED account

CancelWide(r) ==
  /\ at[r] = "cancel"
  /\ row' = Status(on[r], "CANCELED")
  /\ Done(r)
  /\ UNCHANGED <<scope, account, member, solo>>

SetRole(role) ==
  /\ scope = "WIDE" /\ member # None
  /\ role = "ADMIN" => EditorAllowed
  /\ member' = role
  /\ UNCHANGED <<scope, row, account, solo, at, on, seen>>

RemoveMember ==
  /\ member # None
  /\ member' = None
  /\ UNCHANGED <<scope, row, account, solo, at, on, seen>>

\* The plan changes, or is marked to change at the end of the period.
ChangePlan ==
  /\ solo' = ~solo
  /\ UNCHANGED <<scope, row, account, member, at, on, seen>>

\* A plan with room for the owner only demotes when it arrives (demoteAccountEditors).
Demote ==
  /\ solo /\ member = "ADMIN"
  /\ member' = "COMMENTATOR"
  /\ UNCHANGED <<scope, row, account, solo, at, on, seen>>

AWeekPasses(i) ==
  /\ Open(i)
  /\ row' = [row EXCEPT ![i].late = TRUE]
  /\ UNCHANGED <<scope, account, member, solo, at, on, seen>>

Crash(r) ==
  /\ at[r] # "idle"
  /\ Done(r)
  /\ UNCHANGED <<scope, row, account, member, solo>>

Step(r) ==
  \/ \E role \in InviteRole : InviteWideCheck(r, role)
  \/ \E i \in Invites : AcceptRead(r, i) \/ Register(r, i) \/ CancelWideCheck(r, i)
  \/ InviteWide(r) \/ RegisterCreate(r) \/ RegisterRead(r) \/ Apply(r) \/ RegisterUndo(r)
  \/ CancelWide(r) \/ Crash(r)

Next ==
  \/ \E r \in Requests : Step(r)
  \/ \E role \in InviteRole : InviteNarrow(role) \/ SetRole(role)
  \/ \E i \in Invites : RevokeNarrow(i) \/ AWeekPasses(i)
  \/ RemoveMember \/ ChangePlan \/ Demote

Spec == Init /\ [][Next]_vars

-----------------------------------------------------------------------------
(* Properties.                                                             *)

TypeOK ==
  /\ scope \in {"WIDE", "NARROW"}
  /\ row \in [Invites -> Row \cup {None}]
  /\ account \in BOOLEAN /\ solo \in BOOLEAN
  /\ member \in InviteRole \cup {None}
  /\ member # None => account
  /\ at \in [Requests -> {"idle", "invite", "create", "reread", "apply", "applyNew",
                          "undo", "cancel"}]
  /\ on \in [Requests -> Invites \cup {None}]
  /\ seen \in [Requests -> Row \cup {None}]

\* Nobody enters a folder or a file, or is promoted there, but by an invitation that is
\* open at that very moment, however long ago the request read it: "cancellation wins
\* if already committed".
CancelledStaysOut ==
  [][scope = "NARROW" /\ Rank(member') > Rank(member) =>
       \E i \in Invites : Open(i) /\ row'[i].status = "ACCEPTED"]_vars

\* Accepting never takes a role away, whatever was read before a promotion or an
\* earlier acceptance.
NeverLowered ==
  [][(\E i \in Invites : row[i] # None /\ row[i].status # "ACCEPTED"
                         /\ row'[i].status = "ACCEPTED")
       => Rank(member') >= Rank(member)]_vars
=============================================================================
