-------------------------- MODULE ReviewLifecycle --------------------------
(***************************************************************************)
(* The state machine of a change request with the approvals and objections *)
(* of its current round of review, every decision taken in one atomic      *)
(* step.  It is the lifecycle as it is served.  ChangeRequestStatus in     *)
(* db/release.py and the docstrings of api/release.py describe the same    *)
(* one but for two actions that they exclude:                              *)
(*   - AmendLate: required_approvers is changed after submission           *)
(*     (update_change_request allows it before SUBMITTED);                 *)
(*   - Resubmit: a request that was sent back is submitted again directly  *)
(*     (db/release.py has it go back to DRAFT).                            *)
(***************************************************************************)
EXTENDS Integers, FiniteSets

CONSTANTS Reviewers, MaxRequired

VARIABLES
  phase,      \* where the change request is in its life
  need,       \* approvals it takes
  backers,    \* reviewers whose approval stands
  objectors   \* reviewers whose request for changes stands

vars == <<phase, need, backers, objectors>>

Init == phase = "absent" /\ need = 0 /\ backers = {} /\ objectors = {}

Standing == UNCHANGED <<need, backers, objectors>>

Create ==
  /\ phase = "absent"
  /\ phase' = "draft"
  /\ need' \in 0 .. MaxRequired
  /\ UNCHANGED <<backers, objectors>>

MoveBar == need' \in 0 .. MaxRequired /\ UNCHANGED <<phase, backers, objectors>>

\* The bar is set before anybody is asked to vote.
Amend == phase = "draft" /\ MoveBar

\* Not as documented.  Approvals already given are not counted again.
AmendLate == phase \in {"submitted", "changes_requested", "approved", "closed"} /\ MoveBar

Discard == phase = "draft" /\ phase' = "deleted" /\ Standing

\* A round of review starts from nothing.
Restart == phase' = "submitted" /\ backers' = {} /\ objectors' = {} /\ UNCHANGED need

Submit == phase = "draft" /\ Restart

\* Not as documented.
Resubmit == phase = "changes_requested" /\ Restart

\* Approval by decree, not open to a request that several reviewers share.
Approve ==
  /\ phase = "submitted"
  /\ need <= 1 \/ backers = {}
  /\ phase' = "approved"
  /\ Standing

Reject == phase = "submitted" /\ phase' = "changes_requested" /\ Standing

Back(r) ==
  /\ phase = "submitted"
  /\ backers' = backers \cup {r}
  /\ objectors' = objectors \ {r}
  /\ phase' = IF Cardinality(backers') >= need THEN "approved" ELSE "submitted"
  /\ UNCHANGED need

Object(r) ==
  /\ phase = "submitted"
  /\ backers' = backers \ {r}
  /\ objectors' = objectors \cup {r}
  /\ phase' = "changes_requested"
  /\ UNCHANGED need

Withdraw(r) ==
  /\ phase \in {"draft", "submitted", "changes_requested", "merged", "closed"}
  /\ backers' = backers \ {r}
  /\ objectors' = objectors \ {r}
  /\ UNCHANGED <<phase, need>>

Merge == phase = "approved" /\ phase' = "merged" /\ Standing

Close ==
  /\ phase \in {"draft", "submitted", "changes_requested", "approved"}
  /\ phase' = "closed"
  /\ Standing

Next ==
  \/ Create \/ Amend \/ AmendLate \/ Discard \/ Submit \/ Resubmit
  \/ Approve \/ Reject \/ Merge \/ Close
  \/ \E r \in Reviewers : Back(r) \/ Object(r) \/ Withdraw(r)

Spec == Init /\ [][Next]_vars
=============================================================================
