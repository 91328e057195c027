------------------------------ MODULE MCProject ------------------------------
(***************************************************************************)
(* Two parts of a project, side by side: the approvals of its versions     *)
(* (Approvals), and its folders and who may see what is in them            *)
(* (ContentTree).  "about" says which of them a behaviour is about; the    *)
(* other never moves.  A configuration may name calls and folders by the   *)
(* same model values, so that one symmetry serves both.                    *)
(***************************************************************************)
EXTENDS ContentTree, TLC

CONSTANTS Requests, Versions, Approvers, Calls, MayCrash   \* of Approvals

ASSUME CrashAssumption == MayCrash \in BOOLEAN

VARIABLES about, status, target, decision, call, announced

Reviews == INSTANCE Approvals

reviewVars == <<status, target, decision, call, announced>>
everything == <<about, vars, reviewVars>>

ProjectInit ==
    /\ about \in {"approvals", "content"}
    /\ Init /\ Reviews!Init

Reviewing == about = "approvals" /\ Reviews!Next /\ UNCHANGED <<about, vars>>
Arranging == about = "content" /\ Next /\ UNCHANGED <<about, reviewVars>>

ProjectNext == Reviewing \/ Arranging

ProjectSpec == ProjectInit /\ [][ProjectNext]_everything

ProjectSymmetry ==
    Permutations(Calls \cup Folders) \cup Permutations(Requests) \cup Permutations(Approvers)

-----------------------------------------------------------------------------
\* A request is approved when all its approvers approved, rejected when one of them
\* rejected, whoever answered at the same time (the decision route's transaction).
OutcomeMatchesAnswers == Reviews!OutcomeMatchesAnswers

\* An outcome is announced once at most, and only the one the request has.
OutcomeAnnouncedOnce == Reviews!OutcomeAnnouncedOnce
===============================================================================
