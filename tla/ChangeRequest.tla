--------------------------- MODULE ChangeRequest ---------------------------
(***************************************************************************)
(* One change request (CR) of apps/api/src/api/release.py, its reviewers   *)
(* and its comment thread, under concurrent HTTP requests.                 *)
(*                                                                         *)
(* Every handler runs in a session of its own (db/connection.py,           *)
(* get_session): it SELECTs the CR, checks it, assigns attributes, and the *)
(* session commits after the handler has returned.  The ORM writes only    *)
(* the columns whose value differs from the one it loaded, with            *)
(* "UPDATE ... WHERE id = ?" and no version check.  So a request takes two *)
(* steps here: the handler reads the committed rows, checks them and       *)
(* leaves the columns it will write in tx[c]; Commit applies them to       *)
(* whatever the rows have become, or Rollback drops them.  The endpoints   *)
(* take no lock and need no login, so requests interleave on SQLite and on *)
(* PostgreSQL alike.  With a single client the requests are serialised.    *)
(*                                                                         *)
(* CRs share nothing, so one CR is enough.  Titles, notes, names and       *)
(* approved_by and the like are left out; a timestamp column is modelled   *)
(* by whether it has been set.                                             *)
(***************************************************************************)
EXTENDS Integers, FiniteSets

CONSTANTS
  Clients,      \* callers; each has at most one request under way
  Reviewers,    \* users who may be assigned as reviewers
  Comments,     \* identifiers comments may get
  Contents,     \* values of the "changes" column
  MaxRequired,  \* the bound of required_approvers (10 in the code)
  ForeignKeys,  \* TRUE on PostgreSQL; SQLite is opened without foreign keys
  Keep          \* "this column is not written"; also the null parent

Status == {"draft", "submitted", "changes_requested", "approved", "merged", "closed"}
RowStatus == Status \cup {"absent", "deleted"}
VoteStatus == {"none", "pending", "approved", "changes_requested"}
Stamps == {"submitted", "approved", "merged", "closed"}

ASSUME KeepAssumption == Keep \notin (RowStatus \cup Stamps \cup VoteStatus
                                      \cup {"insert", "remove", "touch"}
                                      \cup Contents \cup Int \cup Comments)
ASSUME ReviewersAssumption == IsFiniteSet(Reviewers)
ASSUME MaxRequiredAssumption == MaxRequired \in Nat
ASSUME ContentsAssumption == Contents # {}
ASSUME ForeignKeysAssumption == ForeignKeys \in BOOLEAN

VARIABLES
  cr,      \* the row: status, required_approvers, changes, timestamps set
  votes,   \* reviewer |-> status of the reviewer row, "none" if no row
  thread,  \* comment rows: posted, their parents, soft-deleted ones
  tx       \* client |-> what its open session will write

vars == <<cr, votes, thread, tx>>

-----------------------------------------------------------------------------
(* The open session of a client.                                           *)

\* What a session may write to a reviewer row; "touch" is an UPDATE of
\* reviewed_at that leaves the status alone.
VoteWrite == {Keep, "insert", "remove", "touch",
              "pending", "approved", "changes_requested"}

NoVotes == [r \in Reviewers |-> Keep]

Idle == [op |-> "idle", status |-> Keep, stamp |-> Keep, required |-> Keep,
         content |-> Keep, votes |-> NoVotes, comments |-> {}, parent |-> Keep]

\* Operations whose flush updates or refreshes the CR row.
RowOps == {"update", "submit", "decide", "vote", "close", "merge"}
Ops == RowOps \cup {"idle", "delete", "assign", "withdraw", "comment", "erase"}

Tx == [op : Ops, status : Status \cup {Keep}, stamp : Stamps \cup {Keep},
       required : (0 .. MaxRequired) \cup {Keep}, content : Contents \cup {Keep},
       votes : [Reviewers -> VoteWrite], comments : SUBSET Comments,
       parent : Comments \cup {Keep}]

\* An attribute set to the value it was loaded with is not written.
Assign(loaded, new) == IF new = loaded THEN Keep ELSE new

\* Wrong: every column of the row is written, the untouched ones as null.
ColumnOverwritten(stored, written) == written

\* The value of a column after a session has been flushed.
Column(stored, written) == IF written = Keep THEN stored ELSE written

Exists == cr.status \in Status                  \* otherwise 404
Open == cr.status \in Status \ {"merged", "closed"}
Approvals == {r \in Reviewers : votes[r] = "approved"}
Assigned == {r \in Reviewers : votes[r] # "none"}

Begin(c, t) ==
  /\ tx[c] = Idle
  /\ tx' = [tx EXCEPT ![c] = t]
  /\ UNCHANGED <<cr, votes, thread>>

\* A handler that moves the CR to status s and sets the timestamp of that move.
MoveTo(op, s, stamp) == [Idle EXCEPT !.op = op, !.status = s, !.stamp = stamp]

-----------------------------------------------------------------------------
(* Wrong handlers, which the properties below must tell from the right     *)
(* ones: a guard dropped, a reset forgotten, a comparison off by one.      *)

UpdateAnyStatus(c) ==
  /\ Exists
  /\ \E n \in 0 .. MaxRequired, x \in Contents :
       Begin(c, [Idle EXCEPT !.op = "update", !.required = Assign(cr.required, n),
                             !.content = Assign(cr.content, x)])

DeleteAnyStatus(c) == Exists /\ Begin(c, [Idle EXCEPT !.op = "delete"])

SubmitKeepsVotes(c) ==
  /\ cr.status \in {"draft", "changes_requested"}
  /\ Begin(c, MoveTo("submit", "submitted", "submitted"))

RejectToDraft(c) == cr.status = "submitted" /\ Begin(c, MoveTo("decide", "draft", Keep))

MergeAnyStatus(c) == Open /\ Begin(c, MoveTo("merge", "merged", "merged"))

QuorumExceededWith(r) == Cardinality(Approvals \cup {r}) > cr.required

AcceptedWithoutParent(t) ==
  /\ t.op \in RowOps => Exists
  /\ \A r \in Reviewers : t.votes[r] = "insert" => votes[r] = "none"

-----------------------------------------------------------------------------
(* The handlers.                                                           *)

\* Nobody knows the identifier of a CR before it is committed.
CreateChangeRequest ==
  /\ cr.status = "absent"
  /\ \E n \in 0 .. MaxRequired, x \in Contents, chosen \in SUBSET Reviewers :
       /\ cr' = [status |-> "draft", required |-> n, content |-> x, stamps |-> {}]
       /\ votes' = [r \in Reviewers |-> IF r \in chosen THEN "pending" ELSE "none"]
  /\ UNCHANGED <<thread, tx>>

\* PATCH: a field left out of the request is one assigned its loaded value.
UpdateChangeRequest(c) ==
  /\ cr.status \in Status \ {"merged"}
  /\ \E n \in 0 .. MaxRequired, x \in Contents :
       Begin(c, [Idle EXCEPT !.op = "update", !.required = Assign(cr.required, n),
                             !.content = Assign(cr.content, x)])

DeleteChangeRequest(c) ==
  /\ cr.status = "draft"
  /\ Begin(c, [Idle EXCEPT !.op = "delete", !.comments = thread.posted,
                 !.votes = [r \in Reviewers |-> IF r \in Assigned THEN "remove" ELSE Keep]])

\* Submitting resets every reviewer who has voted.
SubmitChangeRequest(c) ==
  /\ cr.status \in {"draft", "changes_requested"}
  /\ Begin(c, [MoveTo("submit", "submitted", "submitted") EXCEPT
                 !.votes = [r \in Reviewers |-> IF r \in Assigned
                                                  THEN Assign(votes[r], "pending") ELSE Keep]])

ApproveChangeRequest(c) ==
  /\ cr.status = "submitted"
  /\ ~(cr.required > 1 /\ Assigned # {})
  /\ Begin(c, MoveTo("decide", "approved", "approved"))

RejectChangeRequest(c) ==
  /\ cr.status = "submitted"
  /\ Begin(c, MoveTo("decide", "changes_requested", Keep))

CloseChangeRequest(c) ==
  /\ Open
  /\ Begin(c, MoveTo("close", "closed", "closed"))

MergeChangeRequest(c) ==
  /\ cr.status = "approved"
  /\ Begin(c, MoveTo("merge", "merged", "merged"))

AssignReviewer(c, r) ==
  /\ Open
  /\ votes[r] = "none"                       \* otherwise 409
  /\ Begin(c, [Idle EXCEPT !.op = "assign", !.votes[r] = "insert"])

RemoveReviewer(c, r) ==
  /\ cr.status \in Status \ {"approved"}
  /\ votes[r] # "none"
  /\ Begin(c, [Idle EXCEPT !.op = "withdraw", !.votes[r] = "remove"])

\* _maybe_auto_merge, on the rows this session has loaded.
QuorumWith(r) == cr.required <= 0 \/ Cardinality(Approvals \cup {r}) >= cr.required

\* A repeated vote still updates reviewed_at.
Vote(r, v) == IF votes[r] = v THEN "touch" ELSE v

ReviewerApprove(c, r) ==
  /\ cr.status = "submitted"
  /\ votes[r] # "none"
  /\ Begin(c, [(IF QuorumWith(r) THEN MoveTo("vote", "approved", "approved")
                                 ELSE MoveTo("vote", Keep, Keep))
               EXCEPT !.votes[r] = Vote(r, "approved")])

ReviewerReject(c, r) ==
  /\ cr.status = "submitted"
  /\ votes[r] # "none"
  /\ Begin(c, [MoveTo("vote", "changes_requested", Keep)
               EXCEPT !.votes[r] = Vote(r, "changes_requested")])

\* A reply names a comment of the same CR, a soft-deleted one included.
CreateComment(c, m) ==
  /\ Open
  /\ \A d \in Clients : m \notin tx[d].comments          \* identifiers are fresh
  /\ m \notin thread.used
  /\ \E p \in thread.posted \cup {Keep} :
       Begin(c, [Idle EXCEPT !.op = "comment", !.comments = {m}, !.parent = p])

DeleteComment(c, m) ==
  /\ m \in thread.posted
  /\ Begin(c, [Idle EXCEPT !.op = "erase", !.comments = {m}])

-----------------------------------------------------------------------------
(* The end of the session.                                                 *)

\* No StaleDataError (an UPDATE or refresh of a row that is gone; a DELETE of
\* one only warns) and no IntegrityError.
Accepted(t) ==
  /\ t.op \in RowOps => Exists
  /\ t.op \in {"assign", "comment"} /\ ForeignKeys => Exists
  /\ t.op = "comment" /\ ForeignKeys => t.parent \in thread.posted \cup {Keep}
  /\ t.op = "erase" => t.comments \subseteq thread.posted
  /\ \A r \in Reviewers :
       CASE t.votes[r] = "insert" -> votes[r] = "none"
         [] t.votes[r] \in {Keep, "remove"} -> TRUE
         [] OTHER -> votes[r] # "none"

WrittenVote(stored, written) ==
  CASE written \in {Keep, "touch"} -> stored
    [] written = "insert" -> "pending"
    [] written = "remove" -> "none"
    [] OTHER -> written

\* The ORM deletes the children it loaded; foreign keys cascade to the others.
CommitDelete(c) ==
  LET t == tx[c]
      gone == IF ForeignKeys THEN thread.posted ELSE t.comments
  IN /\ t.op = "delete"
     /\ cr' = [cr EXCEPT !.status = "deleted"]
     /\ votes' = [r \in Reviewers |-> IF ForeignKeys THEN "none"
                                      ELSE WrittenVote(votes[r], t.votes[r])]
     /\ thread' = [thread EXCEPT !.posted = @ \ gone, !.erased = @ \ gone]
     /\ tx' = [tx EXCEPT ![c] = Idle]

CommitWrites(c) ==
  LET t == tx[c]
  IN /\ t.op \notin {"idle", "delete"}
     /\ Accepted(t)
     /\ cr' = [status |-> Column(cr.status, t.status),
               required |-> Column(cr.required, t.required),
               content |-> Column(cr.content, t.content),
               stamps |-> cr.stamps \cup ({t.stamp} \ {Keep})]
     /\ votes' = [r \in Reviewers |-> WrittenVote(votes[r], t.votes[r])]
     /\ thread' = CASE t.op = "comment" ->
                         [thread EXCEPT !.posted = @ \cup t.comments,
                                        !.used = @ \cup t.comments,
                                        !.parent = [m \in Comments |->
                                           IF m \in t.comments THEN t.parent ELSE @[m]]]
                    [] t.op = "erase" -> [thread EXCEPT !.erased = @ \cup t.comments]
                    [] OTHER -> thread
     /\ tx' = [tx EXCEPT ![c] = Idle]

\* Stale row, constraint violation, "database is locked", lost connection, or
\* the server stopping: get_session rolls back.
Rollback(c) ==
  /\ tx[c].op # "idle"
  /\ tx' = [tx EXCEPT ![c] = Idle]
  /\ UNCHANGED <<cr, votes, thread>>

-----------------------------------------------------------------------------
Init ==
  /\ \E x \in Contents :
       cr = [status |-> "absent", required |-> 0, content |-> x, stamps |-> {}]
  /\ votes = [r \in Reviewers |-> "none"]
  /\ thread = [posted |-> {}, used |-> {}, erased |-> {},
               parent |-> [m \in Comments |-> Keep]]
  /\ tx = [c \in Clients |-> Idle]

Request(c) ==
  \/ UpdateChangeRequest(c)
  \/ DeleteChangeRequest(c)
  \/ SubmitChangeRequest(c)
  \/ ApproveChangeRequest(c)
  \/ RejectChangeRequest(c)
  \/ CloseChangeRequest(c)
  \/ MergeChangeRequest(c)
  \/ \E r \in Reviewers : AssignReviewer(c, r)
  \/ \E r \in Reviewers : RemoveReviewer(c, r)
  \/ \E r \in Reviewers : ReviewerApprove(c, r)
  \/ \E r \in Reviewers : ReviewerReject(c, r)
  \/ \E m \in Comments : CreateComment(c, m)
  \/ \E m \in Comments : DeleteComment(c, m)

Next ==
  \/ CreateChangeRequest
  \/ \E c \in Clients : Request(c)
  \/ \E c \in Clients : CommitDelete(c)
  \/ \E c \in Clients : CommitWrites(c)
  \/ \E c \in Clients : Rollback(c)

Spec == Init /\ [][Next]_vars

-----------------------------------------------------------------------------
(* What holds however the requests interleave.                             *)

\* Every variable has its type; a session never holds more than one
\* operation's writes.
TypeOK ==
  /\ cr \in [status : RowStatus, required : 0 .. MaxRequired,
             content : Contents, stamps : SUBSET Stamps]
  /\ votes \in [Reviewers -> VoteStatus]
  /\ thread \in [posted : SUBSET Comments, used : SUBSET Comments,
                 erased : SUBSET Comments, parent : [Comments -> Comments \cup {Keep}]]
  /\ tx \in [Clients -> Tx]

\* However stale the reads of racing requests are, nothing is approved that
\* was never submitted, and nothing is merged that was never approved
\* (submit, approve, reviewer_approve and merge_change_request).
ApprovedBeforeMerged ==
  /\ cr.status = "merged" => {"submitted", "approved", "merged"} \subseteq cr.stamps
  /\ cr.status = "approved" => {"submitted", "approved"} \subseteq cr.stamps

\* A CR that is still a draft, the only kind delete_change_request accepts,
\* carries no decision: no timestamp is set and no reviewer has voted, so a
\* late commit never takes a reviewed CR back to DRAFT.  (A comment in
\* db/release.py has CHANGES_REQUESTED loop back to DRAFT; no endpoint does.)
DraftPristine ==
  cr.status \in {"absent", "draft"} =>
    cr.stamps = {} /\ \A r \in Reviewers : votes[r] \in {"none", "pending"}

\* No reviewer row and no comment outlives the CR.  Overlapping requests need
\* foreign keys for that (an assignment or a comment may commit after the
\* deletion it did not see); the ORM's cascade is enough when they do not.
NoOrphans ==
  ~Exists => Assigned = {} /\ thread.posted = {}

-----------------------------------------------------------------------------
(* What the endpoints promise, and keep when requests do not overlap.      *)

Objections == {r \in Reviewers : votes[r] = "changes_requested"}

\* A CR with a standing request for changes is never under review, approved
\* or merged: reviewer_reject sends it back and submit wipes the votes.
ObjectionBlocks == Objections # {} => cr.status \in {"changes_requested", "closed"}

\* A new approval of a submitted CR approves the CR if it brings the approvals
\* to required_approvers, and leaves it under review if it does not
\* (docstring of reviewer_approve).
QuorumApproves ==
  [][ cr.status = "submitted" /\ Approvals' \ Approvals # {}
      => cr'.status = IF Cardinality(Approvals') >= cr'.required
                      THEN "approved" ELSE "submitted" ]_vars

\* The first half of that for a CR that two or more reviewers have to approve, the case
\* required_approvers was introduced for ("two reviewers, each approves");
\* it is lost when the two votes overlap, each counted without the other.
SharedQuorumApproves ==
  [][ /\ cr.status = "submitted"
      /\ cr'.required > 1
      /\ Approvals' \ Approvals # {}
      /\ Cardinality(Approvals') >= cr'.required
      => cr'.status = "approved" ]_vars

\* What was merged stays as it was merged: neither the status, the changes
\* nor required_approvers of a merged CR are written again.
MergedIsFrozen == [][cr.status = "merged" => cr' = cr]_vars

Lifecycle == INSTANCE ReviewLifecycle WITH
               phase <- cr.status, need <- cr.required,
               backers <- Approvals, objectors <- Objections

\* Reading in one step and writing in another implements the atomic review
\* lifecycle as it is served, reviewer removal, re-submission and deletion included.
ImplementsLifecycle == Lifecycle!Spec
=============================================================================
