------------------------------- MODULE Approvals -------------------------------
(***************************************************************************)
(* Approval requests on a version: opening one, the approvers' answers,    *)
(* cancelling it, and announcing the outcome.                              *)
(*                                                                         *)
(* Each route checks first, outside any transaction, and then runs a       *)
(* Serializable transaction that reads everything again.  A transaction is *)
(* two steps here, the snapshot it reads and its commit; the commit is     *)
(* refused when PostgreSQL would report a serialization failure: a row it  *)
(* writes has changed, or what it read was changed by a transaction that   *)
(* in turn read what it writes.  A cancellation reads no decisions, so an  *)
(* approval that leaves the request open may still commit after it.        *)
(***************************************************************************)
EXTENDS Naturals

CONSTANTS
    Requests,   \* ids of ApprovalRequest rows
    Versions,   \* versions approval is asked for
    Approvers,  \* users who may be asked
    Calls,      \* slots of the server for HTTP calls
    MayCrash    \* TRUE: a server process may die after its commit

VARIABLES
    status,     \* ApprovalRequest.status, "none" before the row exists
    target,     \* ApprovalRequest.versionId
    decision,   \* ApprovalDecision.status by approver, "none" without a row
    call,       \* per call: its next step and what it has read
    announced   \* APPROVAL_COMPLETED events and rejection notices per request

vars == <<status, target, decision, call, announced>>
tables == <<status, target, decision>>

Statuses == {"none", "PENDING", "APPROVED", "REJECTED", "CANCELED"}
Answers == {"APPROVED", "REJECTED"}
Decisions == [Approvers -> {"none", "PENDING"} \cup Answers]

Idle == [at |-> "idle"]
Creating == [at : {"create.read"}, version : Versions, approvers : (SUBSET Approvers) \ {{}}]
Inserting == [at : {"create.commit"}, version : Versions, approvers : (SUBSET Approvers) \ {{}},
              seen : SUBSET Requests]
Deciding == [at : {"decide.read"}, request : Requests, approver : Approvers, answer : Answers]
Recording == [at : {"decide.commit"}, request : Requests, approver : Approvers,
              answer : Answers, seen : Decisions]
Announcing == [at : {"decide.announce"}, request : Requests, outcome : Answers]
Canceling == [at : {"cancel.read", "cancel.commit"}, request : Requests]

TypeOK ==
    /\ status \in [Requests -> Statuses]
    /\ target \in [Requests -> Versions]
    /\ decision \in [Requests -> Decisions]
    /\ call \in [Calls -> {Idle} \cup Creating \cup Inserting \cup Deciding \cup Recording
                            \cup Announcing \cup Canceling]
    /\ announced \in [Requests -> Nat]

Init ==
    /\ status = [q \in Requests |-> "none"]
    /\ target \in [Requests -> Versions]
    /\ decision = [q \in Requests |-> [a \in Approvers |-> "none"]]
    /\ call = [c \in Calls |-> Idle]
    /\ announced = [q \in Requests |-> 0]

Put(c, state) == call' = [call EXCEPT ![c] = state]

Of(v) == {q \in Requests : status[q] # "none" /\ target[q] = v}
Pending(q) == status[q] = "PENDING"

(***************************************************************************)
(* POST versions/{id}/approvals.                                           *)
(***************************************************************************)
CreateCheck(c, v, approvers) ==
    /\ call[c] = Idle /\ approvers # {}
    /\ Put(c, [at |-> "create.read", version |-> v, approvers |-> approvers])
    /\ UNCHANGED <<tables, announced>>

CreateRead(c) ==
    /\ call[c].at = "create.read"
    /\ \A q \in Of(call[c].version) : ~Pending(q)
    /\ Put(c, [at |-> "create.commit", version |-> call[c].version,
               approvers |-> call[c].approvers, seen |-> Of(call[c].version)])
    /\ UNCHANGED <<tables, announced>>

CreateCommit(c, q) ==
    /\ call[c].at = "create.commit"
    /\ Of(call[c].version) = call[c].seen
    /\ status[q] = "none"
    /\ status' = [status EXCEPT ![q] = "PENDING"]
    /\ target' = [target EXCEPT ![q] = call[c].version]
    /\ decision' = [decision EXCEPT ![q] =
                       [a \in Approvers |-> IF a \in call[c].approvers THEN "PENDING" ELSE "none"]]
    /\ Put(c, Idle)
    /\ UNCHANGED announced

(***************************************************************************)
(* POST approvals/{id}/decision.                                           *)
(***************************************************************************)
DecideCheck(c, q, a, answer) ==
    /\ call[c] = Idle
    /\ Pending(q) /\ decision[q][a] = "PENDING"
    /\ Put(c, [at |-> "decide.read", request |-> q, approver |-> a, answer |-> answer])
    /\ UNCHANGED <<tables, announced>>

DecideRead(c) ==
    LET q == call[c].request
        a == call[c].approver
    IN  /\ call[c].at = "decide.read"
        /\ Pending(q) /\ decision[q][a] = "PENDING"
        /\ Put(c, [at |-> "decide.commit", request |-> q, approver |-> a,
                   answer |-> call[c].answer, seen |-> decision[q]])
        /\ UNCHANGED <<tables, announced>>

\* What the snapshot says once the approver's own answer is in it.
Outcome(m) ==
    IF m.answer = "REJECTED" THEN "REJECTED"
    ELSE IF \A a \in Approvers \ {m.approver} : m.seen[a] \in {"none", "APPROVED"}
         THEN "APPROVED" ELSE "PENDING"

\* Broken forms of Serializable: snapshot isolation, and the default level.
SnapshotIsolated(m) == Outcome(m) # "PENDING" => Pending(m.request)
ReadCommitted(m) == TRUE

\* Another answer to the same request read the row this one writes.  Only an
\* answer that resolves the request writes the request's own row.
Serializable(m) ==
    /\ decision[m.request] = m.seen
    /\ Outcome(m) # "PENDING" => Pending(m.request)

DecideCommit(c) ==
    LET m == call[c]
        q == m.request
    IN  /\ m.at = "decide.commit"
        /\ Serializable(m)
        /\ decision' = [decision EXCEPT ![q][m.approver] = m.answer]
        /\ IF Outcome(m) = "PENDING"
           THEN UNCHANGED status /\ Put(c, Idle)
           ELSE /\ status' = [status EXCEPT ![q] = Outcome(m)]
                /\ Put(c, [at |-> "decide.announce", request |-> q, outcome |-> Outcome(m)])
        /\ UNCHANGED <<target, announced>>

Announce(c) ==
    /\ call[c].at = "decide.announce"
    /\ announced' = [announced EXCEPT ![call[c].request] = @ + 1]
    /\ Put(c, Idle)
    /\ UNCHANGED tables

(***************************************************************************)
(* POST approvals/{id}/cancel.                                             *)
(***************************************************************************)
CancelCheck(c, q) ==
    /\ call[c] = Idle /\ Pending(q)
    /\ Put(c, [at |-> "cancel.read", request |-> q])
    /\ UNCHANGED <<tables, announced>>

CancelRead(c) ==
    /\ call[c].at = "cancel.read" /\ Pending(call[c].request)
    /\ Put(c, [call[c] EXCEPT !.at = "cancel.commit"])
    /\ UNCHANGED <<tables, announced>>

CancelCommit(c) ==
    /\ call[c].at = "cancel.commit" /\ Pending(call[c].request)
    /\ status' = [status EXCEPT ![call[c].request] = "CANCELED"]
    /\ Put(c, Idle)
    /\ UNCHANGED <<target, decision, announced>>

\* Not pending any more, already answered, a serialization failure, an error.
Refuse(c) ==
    /\ call[c].at \in {"create.read", "create.commit", "decide.read", "decide.commit",
                       "cancel.read", "cancel.commit"}
    /\ Put(c, Idle)
    /\ UNCHANGED <<tables, announced>>

\* The requester's access check throws, or the process dies, after the commit.
Crash(c) ==
    /\ MayCrash
    /\ call[c].at = "decide.announce"
    /\ Put(c, Idle)
    /\ UNCHANGED <<tables, announced>>

Continue(c) ==
    \/ CreateRead(c) \/ DecideRead(c) \/ DecideCommit(c) \/ Announce(c)
    \/ CancelRead(c) \/ CancelCommit(c) \/ Refuse(c) \/ Crash(c)

Next ==
    \E c \in Calls :
        \/ Continue(c)
        \/ \E v \in Versions, S \in SUBSET Approvers : CreateCheck(c, v, S)
        \/ \E q \in Requests : CreateCommit(c, q) \/ CancelCheck(c, q)
        \/ \E q \in Requests, a \in Approvers, answer \in Answers : DecideCheck(c, q, a, answer)

Spec == Init /\ [][Next]_vars

-----------------------------------------------------------------------------
(***************************************************************************)
(* Properties.                                                             *)
(***************************************************************************)
Asked(q) == {a \in Approvers : decision[q][a] # "none"}

\* A request is approved exactly when every approver has approved and rejected
\* exactly when one has rejected: two last approvals at the same time do not
\* leave it open, and an approval racing a rejection does not approve it.
OutcomeMatchesAnswers ==
    \A q \in Requests : status[q] # "none" =>
        /\ status[q] = "APPROVED" <=> \A a \in Asked(q) : decision[q][a] = "APPROVED"
        /\ status[q] = "REJECTED" <=> \E a \in Asked(q) : decision[q][a] = "REJECTED"

\* A version never has two requests waiting for answers.
OnePendingPerVersion ==
    \A q, p \in Requests : Pending(q) /\ Pending(p) /\ target[q] = target[p] => q = p

\* A resolved or cancelled request stays as it is, and an approver's answer is
\* never replaced by another one.
AnswersAreFinal ==
    [][\A q \in Requests :
          /\ status[q] \in {"APPROVED", "REJECTED", "CANCELED"} => status'[q] = status[q]
          /\ \A a \in Approvers :
                decision[q][a] \in Answers => decision'[q][a] = decision[q][a]]_vars

\* An outcome is announced at most once, and only the outcome the request has.
OutcomeAnnouncedOnce ==
    /\ \A q \in Requests : announced[q] <= 1 /\ (announced[q] = 1 => status[q] \in Answers)
    /\ \A c \in Calls : call[c].at = "decide.announce" =>
           status[call[c].request] = call[c].outcome /\ announced[call[c].request] = 0
===============================================================================
