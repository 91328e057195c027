-------------------------------- MODULE Signup --------------------------------
(***************************************************************************)
(* How one address becomes an account, proves itself and gets its trial.   *)
(*                                                                         *)
(* Registration, a social sign-in, a verification link, a request for      *)
(* another link and the claim of a deferred trial run side by side, each   *)
(* in several statements with no transaction around them; a process may    *)
(* die between two of them.  What accepting an invitation does in detail   *)
(* is the subject of Invitations.                                          *)
(***************************************************************************)
EXTENDS Naturals, FiniteSets

CONSTANTS
    Calls,      \* requests under way
    MaxTokens,  \* bound: verification links ever made
    MaxUsers,   \* bound: accounts ever made for the address
    Smtp        \* isEmailVerificationEnabled

VARIABLES
    account,  \* the row with the address, or NoAccount
    tokens,   \* VerificationToken rows of the address
    expired,  \* those past their two hours
    mailed,   \* those that reached the mailbox
    made,     \* accounts made for the address
    last,     \* the link made last, 0 for none
    invited,  \* a pending invitation of the address
    calls,    \* what each request does next, and to which account
    excused   \* the last link is too old, or a process died before it made one

vars == <<account, tokens, expired, mailed, made, last, invited, calls, excused>>

Tokens == 1 .. MaxTokens
Users == 1 .. MaxUsers

NoAccount == [id |-> 0, verified |-> FALSE, social |-> FALSE, member |-> FALSE, trials |-> 0]
Idle == [step |-> "idle", id |-> 0, invitation |-> FALSE, token |-> 0]

Exists == account # NoAccount
\* Who can sign in: authorize, and the OAuth providers.
SignedIn == Exists /\ (account.verified \/ account.social)

At(c, step) == calls[c].step = step
Goes(c, step) == calls' = [calls EXCEPT ![c].step = step]
Begins(c, call) == calls[c] = Idle /\ calls' = [calls EXCEPT ![c] = call]
Ends(c) == calls' = [calls EXCEPT ![c] = Idle]

TypeOK ==
    /\ account.id \in Users \cup {0}
    /\ {account.verified, account.social, account.member} \subseteq BOOLEAN
    /\ account.trials \in Nat /\ made \in Users \cup {0}
    /\ tokens \subseteq Tokens /\ expired \subseteq tokens /\ mailed \subseteq tokens
    /\ last \in Tokens \cup {0} /\ {invited, excused} \subseteq BOOLEAN
    /\ \A c \in Calls : calls[c].id \in Users \cup {0} /\ calls[c].token \in Tokens \cup {0}

Init ==
    /\ account = NoAccount
    /\ tokens = {} /\ expired = {} /\ mailed = {} /\ last = 0
    /\ invited \in BOOLEAN
    /\ calls = [c \in Calls |-> Idle]
    /\ made = 0 /\ excused = FALSE

-----------------------------------------------------------------------------
(***************************************************************************)
(* Making the account.                                                     *)
(***************************************************************************)

\* POST auth/register: the checks, then the password is hashed.
RegisterCheck(c) ==
    /\ ~Exists
    /\ \E invitation \in {FALSE, invited} :
         Begins(c, [Idle EXCEPT !.step = "create", !.invitation = invitation])
    /\ UNCHANGED <<account, tokens, expired, mailed, made, last, invited, excused>>

\* What registration still owes once the account stands.
Owed == IF Smtp THEN "wipe" ELSE "count"

\* The address is unique: a registration that comes second fails.
RegisterCreate(c) ==
    /\ At(c, "create")
    /\ IF Exists
       THEN Ends(c) /\ UNCHANGED account
            /\ UNCHANGED made
       ELSE /\ made < MaxUsers /\ made' = made + 1
            /\ account' = [NoAccount EXCEPT !.id = made', !.verified = ~Smtp]
            /\ calls' = [calls EXCEPT ![c].id = made', ![c].step =
                           IF calls[c].invitation THEN "accept" ELSE Owed]
    /\ UNCHANGED <<tokens, expired, mailed, last, invited, excused>>

\* acceptInvitationTokenForUser, which the editor limit may refuse; without it
\* the account goes away again.
RegisterAccept(c) ==
    /\ At(c, "accept")
    /\ \/ /\ invited /\ invited' = FALSE
          /\ account' = IF account.id = calls[c].id THEN [account EXCEPT !.member = TRUE]
                        ELSE account
          /\ Goes(c, Owed)
       \/ /\ account' = IF account.id = calls[c].id THEN NoAccount ELSE account
          /\ Ends(c) /\ UNCHANGED invited
    /\ UNCHANGED <<tokens, expired, mailed, made, last, excused>>

\* A social sign-in makes the account through the adapter, which leaves the
\* address unverified, and an event considers the trial.
SocialSignIn(c) ==
    /\ ~Exists
    /\ made < MaxUsers /\ made' = made + 1
    /\ Begins(c, [Idle EXCEPT !.step = "count", !.id = made'])
    /\ account' = [NoAccount EXCEPT !.id = made', !.social = TRUE]
    /\ UNCHANGED <<tokens, expired, mailed, last, invited, excused>>

-----------------------------------------------------------------------------
(***************************************************************************)
(* The link.                                                               *)
(***************************************************************************)

\* POST auth/verify-email/resend
Resend(c) ==
    /\ Smtp /\ Exists /\ ~account.verified
    /\ Begins(c, [Idle EXCEPT !.step = "wipe"])
    /\ UNCHANGED <<account, tokens, expired, mailed, made, last, invited, excused>>

\* createVerificationToken deletes the links there are ...
Wipe(c) ==
    /\ At(c, "wipe")
    /\ tokens' = {} /\ expired' = {} /\ mailed' = {}
    /\ Goes(c, "insert")
    /\ UNCHANGED <<account, made, last, invited, excused>>

\* Mutation: it deletes them once the new one is there.
InsertThenWipe(c) ==
    /\ At(c, "insert")
    /\ last < MaxTokens /\ last' = last + 1
    /\ tokens' = {} /\ expired' = {} /\ mailed' = {} /\ excused' = FALSE
    /\ Ends(c)
    /\ UNCHANGED <<account, made, invited>>

\* ... and makes a new one, which is mailed; a failure of the mail is only logged.
Insert(c) ==
    /\ At(c, "insert")
    /\ last < MaxTokens /\ last' = last + 1
    /\ tokens' = tokens \cup {last'} /\ excused' = FALSE
    /\ mailed' \in {mailed, mailed \cup {last'}}
    /\ Ends(c)
    /\ UNCHANGED <<account, expired, made, invited>>

Used(t) == tokens' = tokens \ {t} /\ expired' = expired \ {t} /\ mailed' = mailed \ {t}

\* GET auth/verify-email, consumeVerificationToken: the row is read ...
VerifyFind(c, t) ==
    /\ t \in mailed \cap tokens
    /\ \/ t \in expired /\ Used(t) /\ UNCHANGED calls
       \/ /\ t \notin expired
          /\ Begins(c, [Idle EXCEPT !.step = "verify", !.token = t])
          /\ UNCHANGED <<tokens, expired, mailed>>
    /\ UNCHANGED <<account, made, last, invited, excused>>

\* ... and the address marked verified and the row deleted in one transaction,
\* which fails if the row is gone.
VerifyCommit(c) ==
    /\ At(c, "verify")
    /\ IF calls[c].token \in tokens
       THEN /\ Used(calls[c].token)
            /\ IF Exists /\ ~account.verified
               THEN /\ account' = [account EXCEPT !.verified = TRUE]
                    /\ calls' = [calls EXCEPT ![c] =
                                   [Idle EXCEPT !.step = "count", !.id = account.id]]
               ELSE Ends(c) /\ UNCHANGED account
       ELSE Ends(c) /\ UNCHANGED <<account, tokens, expired, mailed>>
    /\ UNCHANGED <<made, last, invited, excused>>

Expire(t) ==
    /\ t \in tokens \ expired /\ expired' = expired \cup {t}
    /\ excused' = (excused \/ t = last)
    /\ UNCHANGED <<account, tokens, mailed, made, last, invited, calls>>

-----------------------------------------------------------------------------
(***************************************************************************)
(* The trial.                                                              *)
(***************************************************************************)

\* startCardlessTrialOnSignup: who arrived as somebody's collaborator waits.
arrivedAsCollaborator == account.member \/ invited

Count(c) ==
    /\ At(c, "count")
    /\ IF arrivedAsCollaborator THEN Ends(c) ELSE Goes(c, "grant")
    /\ UNCHANGED <<account, tokens, expired, mailed, made, last, invited, excused>>

\* startCardlessTrial: one update of a row whose trial was never used.
Grant(c) ==
    /\ At(c, "grant")
    /\ account' = IF account.id = calls[c].id /\ account.trials = 0
                  THEN [account EXCEPT !.trials = @ + 1] ELSE account
    /\ Ends(c)
    /\ UNCHANGED <<tokens, expired, mailed, made, last, invited, excused>>

\* POST billing/trial, of whoever is signed in.
ClaimTrial(c) ==
    /\ SignedIn
    /\ Begins(c, [Idle EXCEPT !.step = "grant", !.id = account.id])
    /\ UNCHANGED <<account, tokens, expired, mailed, made, last, invited, excused>>

-----------------------------------------------------------------------------
(***************************************************************************)
(* Others, and a process that dies.                                        *)
(***************************************************************************)

Invite ==
    /\ ~invited /\ invited' = TRUE
    /\ UNCHANGED <<account, tokens, expired, mailed, made, last, calls, excused>>

\* It is cancelled, declined or too old, or accepted by who is signed in.
InvitationEnds ==
    /\ invited /\ invited' = FALSE
    /\ account' \in {account} \cup (IF SignedIn THEN {[account EXCEPT !.member = TRUE]} ELSE {})
    /\ UNCHANGED <<tokens, expired, mailed, made, last, calls, excused>>

LeaveTeam ==
    /\ account.member /\ account' = [account EXCEPT !.member = FALSE]
    /\ UNCHANGED <<tokens, expired, mailed, made, last, invited, calls, excused>>

Crash(c) ==
    /\ calls[c] # Idle /\ Ends(c)
    /\ excused' = (excused \/ calls[c].step \in {"accept", "wipe", "insert"})
    /\ UNCHANGED <<account, tokens, expired, mailed, made, last, invited>>

Next ==
    \/ \E c \in Calls :
         \/ RegisterCheck(c) \/ RegisterCreate(c) \/ RegisterAccept(c) \/ SocialSignIn(c)
         \/ Resend(c) \/ Wipe(c) \/ Insert(c) \/ \E t \in Tokens : VerifyFind(c, t)
         \/ VerifyCommit(c) \/ Count(c) \/ Grant(c) \/ ClaimTrial(c) \/ Crash(c)
    \/ \E t \in Tokens : Expire(t)
    \/ Invite \/ InvitationEnds \/ LeaveTeam

Spec == Init /\ [][Next]_vars

-----------------------------------------------------------------------------
\* Whoever waits to be verified has a link that works, the last one made, until
\* it is too old: neither two requests for a link that run side by side nor a
\* registration taken back leave an account without one; only a process that died
\* does, until the next request.
LastLinkWorks ==
    Exists /\ ~account.verified /\ ~account.social /\ ~excused
        /\ (\A c \in Calls : calls[c].step \notin {"accept", "wipe", "insert"})
      => last \in tokens

\* No account is given two trials, and none before its address is proven, by a
\* link, by the provider of a social sign-in, or where no mail is sent at all:
\* whichever of the three ways to a trial run side by side.
TrialOnceProven ==
    /\ account.trials <= 1
    /\ account.trials = 1 => account.verified \/ account.social

\* "at most one live token" (lib/email-verification.ts:57): not so for two requests
\* side by side, since the deletion and the insertion are two statements.
AtMostOneLink == Cardinality(tokens) <= 1
===============================================================================
