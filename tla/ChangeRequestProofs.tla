------------------------ MODULE ChangeRequestProofs ------------------------
(***************************************************************************)
(* What holds of ChangeRequest for every number of clients, reviewers and  *)
(* comments.  First, requests overlapping in every way: approval precedes  *)
(* the merge and a draft carries no decision.  Then, one request at a      *)
(* time: an approval approves the CR just when it completes the quorum, an *)
(* objection blocks, what was merged stays as it is, and the two steps of  *)
(* a request, reading and committing, implement the atomic lifecycle of a  *)
(* review as it is served.  Last, what foreign keys keep however requests  *)
(* overlap: no row outlives its CR.                                        *)
(***************************************************************************)
EXTENDS ChangeRequest, FiniteSetTheorems, TLAPS

\* The timestamps the row must have when it has a status.
Evidence(status) ==
  CASE status = "submitted" -> {"submitted"}
    [] status = "changes_requested" -> {"submitted"}
    [] status = "approved" -> {"submitted", "approved"}
    [] status = "merged" -> {"submitted", "approved", "merged"}
    [] OTHER -> {}

\* An open session that will write status s brings the timestamp of s along
\* and has read a row that had the others; one that will write a vote has read
\* a row that had been submitted.
TxEvidence(t) ==
  /\ t.status \notin {"draft"}
  /\ t.status # Keep => Evidence(t.status) \subseteq cr.stamps \cup {t.stamp}
  /\ t.status = Keep => t.stamp = Keep
  /\ (\E r \in Reviewers : t.votes[r] \in {"approved", "changes_requested"})
        => "submitted" \in cr.stamps

IInv ==
  /\ TypeOK
  /\ Evidence(cr.status) \subseteq cr.stamps
  /\ DraftPristine
  /\ \A c \in Clients : TxEvidence(tx[c])

-----------------------------------------------------------------------------
(* Sessions.                                                               *)

\* A closed session is a well-typed session that writes nothing.
LEMMA IdleTx == Idle \in Tx /\ Idle.op = "idle"
BY DEF Idle, Tx, Ops, RowOps, NoVotes, VoteWrite

\* What MoveTo builds: a typed session with the status and the timestamp of the
\* move and no vote.
LEMMA MoveToTx ==
  ASSUME NEW op \in Ops, NEW s \in Status \cup {Keep}, NEW stamp \in Stamps \cup {Keep}
  PROVE  /\ MoveTo(op, s, stamp) \in Tx
         /\ MoveTo(op, s, stamp).status = s
         /\ MoveTo(op, s, stamp).stamp = stamp
         /\ MoveTo(op, s, stamp).votes = NoVotes
BY IdleTx DEF MoveTo, Idle, Tx

\* Opening a session changes no row, so it keeps the invariant as soon as
\* what it will write is well typed and has its evidence.
LEMMA BeginKeeps ==
  ASSUME IInv, NEW c \in Clients, NEW t \in Tx, TxEvidence(t), Begin(c, t)
  PROVE  IInv'
<1>1. tx' \in [Clients -> Tx] /\ cr' = cr /\ votes' = votes /\ thread' = thread
  BY DEF IInv, TypeOK, Begin
<1>2. TypeOK'
  BY <1>1 DEF IInv, TypeOK
<1>3. (Evidence(cr.status) \subseteq cr.stamps)' /\ DraftPristine'
  BY <1>1 DEF IInv, DraftPristine
<1>4. ASSUME NEW d \in Clients PROVE TxEvidence(tx[d])'
  <2>1. tx'[d] = t \/ tx'[d] = tx[d]
    BY DEF Begin, IInv, TypeOK
  <2>2. TxEvidence(tx[d])
    BY DEF IInv
  <2> QED
    BY <1>1, <2>1, <2>2 DEF TxEvidence
<1> QED
  BY <1>2, <1>3, <1>4 DEF IInv

-----------------------------------------------------------------------------
(* The handlers, one fact each.                                            *)

\* create_cr inserts a draft that nobody has decided anything about.
LEMMA CreateKeeps == ASSUME IInv, CreateChangeRequest PROVE IInv'
<1>1. PICK n \in 0 .. MaxRequired, x \in Contents, chosen \in SUBSET Reviewers :
        /\ cr' = [status |-> "draft", required |-> n, content |-> x, stamps |-> {}]
        /\ votes' = [r \in Reviewers |-> IF r \in chosen THEN "pending" ELSE "none"]
  BY DEF CreateChangeRequest
<1>2. thread' = thread /\ tx' = tx /\ cr.stamps = {}
  BY DEF CreateChangeRequest, IInv, DraftPristine
<1>3. TypeOK'
  BY <1>1, <1>2 DEF IInv, TypeOK, RowStatus, Status, VoteStatus
<1>4. (Evidence(cr.status) \subseteq cr.stamps)' /\ DraftPristine'
  BY <1>1 DEF Evidence, DraftPristine
<1>5. \A c \in Clients : TxEvidence(tx[c])'
  BY <1>1, <1>2 DEF IInv, TxEvidence
<1> QED
  BY <1>3, <1>4, <1>5 DEF IInv

\* A PATCH writes neither a status nor a vote, so it needs no evidence.
LEMMA UpdateKeeps ==
  ASSUME IInv, NEW c \in Clients, UpdateChangeRequest(c) PROVE IInv'
<1>1. PICK n \in 0 .. MaxRequired, x \in Contents :
        Begin(c, [Idle EXCEPT !.op = "update", !.required = Assign(cr.required, n),
                              !.content = Assign(cr.content, x)])
  BY DEF UpdateChangeRequest
<1> DEFINE t == [Idle EXCEPT !.op = "update", !.required = Assign(cr.required, n),
                             !.content = Assign(cr.content, x)]
<1>2. t \in Tx
  BY IdleTx DEF Tx, Idle, Assign, Ops, RowOps
<1>3. t.status = Keep /\ t.stamp = Keep /\ t.votes = NoVotes
  BY DEF Idle
<1>4. TxEvidence(t)
  BY <1>3, KeepAssumption DEF TxEvidence, NoVotes, RowStatus, Status, VoteStatus
<1> HIDE DEF t
<1> QED
  BY <1>1, <1>2, <1>4, BeginKeeps DEF t

\* A deletion removes rows; what it will write decides nothing.
LEMMA DeleteKeeps ==
  ASSUME IInv, NEW c \in Clients, DeleteChangeRequest(c) PROVE IInv'
<1> DEFINE w == [r \in Reviewers |-> IF r \in Assigned THEN "remove" ELSE Keep]
           t == [Idle EXCEPT !.op = "delete", !.comments = thread.posted, !.votes = w]
<1>1. Begin(c, t)
  BY DEF DeleteChangeRequest
<1>2. w \in [Reviewers -> VoteWrite] /\ thread.posted \in SUBSET Comments
  BY DEF VoteWrite, IInv, TypeOK
<1>3. t \in Tx
  BY <1>2, IdleTx DEF Tx, Idle, Ops
<1>4. t.status = Keep /\ t.stamp = Keep /\ t.votes = w
  BY DEF Idle
<1>5. TxEvidence(t)
  BY <1>4, KeepAssumption DEF TxEvidence, RowStatus, Status, VoteStatus
<1> HIDE DEF t
<1> QED
  BY <1>1, <1>3, <1>5, BeginKeeps

\* A handler that opens MoveTo(op, s, stamp) on a row with the evidence of s.
LEMMA MoveKeeps ==
  ASSUME IInv, NEW c \in Clients,
         NEW op \in Ops, NEW s \in Status \cup {Keep}, NEW stamp \in Stamps \cup {Keep},
         s # "draft", s = Keep => stamp = Keep,
         s # Keep => Evidence(s) \subseteq cr.stamps \cup {stamp},
         NEW w \in [Reviewers -> VoteWrite],
         (\E r \in Reviewers : w[r] \in {"approved", "changes_requested"})
            => "submitted" \in cr.stamps,
         Begin(c, [MoveTo(op, s, stamp) EXCEPT !.votes = w])
  PROVE  IInv'
<1> DEFINE t == [MoveTo(op, s, stamp) EXCEPT !.votes = w]
<1>1. MoveTo(op, s, stamp) \in Tx
  BY MoveToTx
<1>2. t \in Tx /\ t.votes = w /\ t.status = s /\ t.stamp = stamp
  BY <1>1, MoveToTx DEF Tx
<1>3. TxEvidence(t)
  BY <1>2 DEF TxEvidence
<1> HIDE DEF t
<1> QED
  BY <1>2, <1>3, BeginKeeps DEF t

\* The same for the handlers that write no vote.
LEMMA SimpleMoveKeeps ==
  ASSUME IInv, NEW c \in Clients,
         NEW op \in Ops, NEW s \in Status \cup {Keep}, NEW stamp \in Stamps \cup {Keep},
         s # "draft", s = Keep => stamp = Keep,
         s # Keep => Evidence(s) \subseteq cr.stamps \cup {stamp},
         Begin(c, MoveTo(op, s, stamp))
  PROVE  IInv'
<1>1. \A r \in Reviewers : NoVotes[r] \notin {"approved", "changes_requested"}
  BY KeepAssumption DEF NoVotes, VoteStatus
<1>2. MoveTo(op, s, stamp) \in Tx /\ TxEvidence(MoveTo(op, s, stamp))
  BY <1>1, MoveToTx DEF TxEvidence
<1> QED
  BY <1>2, BeginKeeps

\* approve, reject, close and merge_change_request: the guard each handler
\* checked on the row it read is the evidence of the status it will write.
LEMMA DecisionsKeep ==
  ASSUME IInv, NEW c \in Clients,
         \/ ApproveChangeRequest(c) \/ RejectChangeRequest(c)
         \/ CloseChangeRequest(c) \/ MergeChangeRequest(c)
  PROVE  IInv'
<1> USE KeepAssumption DEF Ops, RowOps, Status, RowStatus, Stamps
<1>1. CASE ApproveChangeRequest(c)
  <2>1. Evidence("approved") \subseteq cr.stamps \cup {"approved"}
    BY <1>1 DEF ApproveChangeRequest, IInv, Evidence
  <2> QED
    BY <1>1, <2>1, SimpleMoveKeeps DEF ApproveChangeRequest
<1>2. CASE RejectChangeRequest(c)
  <2>1. Evidence("changes_requested") \subseteq cr.stamps \cup {Keep}
    BY <1>2 DEF RejectChangeRequest, IInv, Evidence
  <2> QED
    BY <1>2, <2>1, SimpleMoveKeeps DEF RejectChangeRequest
<1>3. CASE CloseChangeRequest(c)
  <2>1. Evidence("closed") \subseteq cr.stamps \cup {"closed"}
    BY DEF Evidence
  <2> QED
    BY <1>3, <2>1, SimpleMoveKeeps DEF CloseChangeRequest
<1>4. CASE MergeChangeRequest(c)
  <2>1. Evidence("merged") \subseteq cr.stamps \cup {"merged"}
    BY <1>4 DEF MergeChangeRequest, IInv, Evidence
  <2> QED
    BY <1>4, <2>1, SimpleMoveKeeps DEF MergeChangeRequest
<1> QED
  BY <1>1, <1>2, <1>3, <1>4

\* Submitting brings its own evidence and only ever resets votes.
LEMMA SubmitKeeps ==
  ASSUME IInv, NEW c \in Clients, SubmitChangeRequest(c) PROVE IInv'
<1> DEFINE w == [r \in Reviewers |-> IF r \in Assigned
                                        THEN Assign(votes[r], "pending") ELSE Keep]
<1>1. w \in [Reviewers -> VoteWrite]
  BY DEF VoteWrite, Assign
<1>2. \A r \in Reviewers : w[r] \notin {"approved", "changes_requested"}
  BY KeepAssumption DEF Assign, VoteStatus
<1>3. Begin(c, [MoveTo("submit", "submitted", "submitted") EXCEPT !.votes = w])
  BY DEF SubmitChangeRequest
<1>4. Evidence("submitted") \subseteq cr.stamps \cup {"submitted"}
  BY DEF Evidence
<1>5. "submit" \in Ops /\ "submitted" \in Status \cup {Keep}
      /\ "submitted" \in Stamps \cup {Keep} /\ "submitted" # Keep
  BY KeepAssumption DEF Ops, RowOps, Status, Stamps
<1> HIDE DEF w
<1> QED
  BY <1>1, <1>2, <1>3, <1>4, <1>5, MoveKeeps

\* Assigning and removing a reviewer insert or delete a row; neither is a vote.
LEMMA AssignmentKeeps ==
  ASSUME IInv, NEW c \in Clients, NEW r \in Reviewers,
         AssignReviewer(c, r) \/ RemoveReviewer(c, r)
  PROVE  IInv'
<1>1. ASSUME NEW op \in {"assign", "withdraw"}, NEW v \in {"insert", "remove"},
             Begin(c, [Idle EXCEPT !.op = op, !.votes[r] = v])
      PROVE  IInv'
  <2> DEFINE t == [Idle EXCEPT !.op = op, !.votes[r] = v]
  <2>1. t \in Tx
    BY IdleTx DEF Tx, Idle, Ops, NoVotes, VoteWrite
  <2>2. t.status = Keep /\ t.stamp = Keep /\ t.votes = [NoVotes EXCEPT ![r] = v]
    BY DEF Idle
  <2>3. TxEvidence(t)
    BY <2>2, KeepAssumption DEF TxEvidence, NoVotes, RowStatus, Status, VoteStatus
  <2> HIDE DEF t
  <2> QED
    BY <1>1, <2>1, <2>3, BeginKeeps DEF t
<1> QED
  BY <1>1 DEF AssignReviewer, RemoveReviewer

\* A vote is taken on a row read as submitted: the evidence of the vote and of
\* the status it may bring.
LEMMA VoteKeeps ==
  ASSUME IInv, NEW c \in Clients, NEW r \in Reviewers,
         ReviewerApprove(c, r) \/ ReviewerReject(c, r)
  PROVE  IInv'
<1>1. cr.status = "submitted" /\ "submitted" \in cr.stamps
  BY DEF ReviewerApprove, ReviewerReject, IInv, Evidence
<1>2. ASSUME NEW s \in {"approved", "changes_requested", Keep}, NEW stamp,
             stamp = IF s = "approved" THEN "approved" ELSE Keep,
             NEW v \in {"approved", "changes_requested", "touch"},
             Begin(c, [MoveTo("vote", s, stamp) EXCEPT !.votes[r] = v])
      PROVE  IInv'
  <2> DEFINE t == [MoveTo("vote", s, stamp) EXCEPT !.votes[r] = v]
  <2>1. MoveTo("vote", s, stamp) \in Tx
    BY <1>2, MoveToTx DEF Ops, RowOps, Status, Stamps
  <2>2. t.status = s /\ t.stamp = stamp /\ t \in Tx
    <3>1. t.status = MoveTo("vote", s, stamp).status
          /\ t.stamp = MoveTo("vote", s, stamp).stamp
      BY <2>1 DEF Tx
    <3>2. t \in Tx
      BY <2>1 DEF Tx, VoteWrite
    <3> QED
      BY <3>1, <3>2 DEF MoveTo, Idle
  <2>3. TxEvidence(t)
    BY <1>1, <1>2, <2>2, KeepAssumption DEF TxEvidence, Evidence, RowStatus, Status
  <2> HIDE DEF t
  <2> QED
    BY <1>2, <2>2, <2>3, BeginKeeps DEF t
<1>3. CASE ReviewerApprove(c, r)
  <2>1. Vote(r, "approved") \in {"approved", "changes_requested", "touch"}
    BY DEF Vote
  <2>2. CASE QuorumWith(r)
    BY <1>2, <1>3, <2>1, <2>2 DEF ReviewerApprove
  <2>3. CASE ~QuorumWith(r)
    <3>1. Keep # "approved"
      BY KeepAssumption DEF RowStatus, Status
    <3> QED
      BY <1>2, <1>3, <2>1, <2>3, <3>1 DEF ReviewerApprove
  <2> QED
    BY <2>2, <2>3
<1>4. CASE ReviewerReject(c, r)
  <2>1. Vote(r, "changes_requested") \in {"approved", "changes_requested", "touch"}
    BY DEF Vote
  <2> QED
    BY <1>2, <1>4, <2>1 DEF ReviewerReject
<1> QED
  BY <1>3, <1>4

\* Comments touch neither the CR row nor the votes.
LEMMA CommentKeeps ==
  ASSUME IInv, NEW c \in Clients, NEW m \in Comments,
         CreateComment(c, m) \/ DeleteComment(c, m)
  PROVE  IInv'
<1>1. ASSUME NEW t \in Tx, t.status = Keep, t.stamp = Keep, t.votes = NoVotes,
             Begin(c, t)
      PROVE  IInv'
  <2>1. TxEvidence(t)
    BY <1>1, KeepAssumption DEF TxEvidence, NoVotes, RowStatus, Status, VoteStatus
  <2> QED
    BY <1>1, <2>1, BeginKeeps
<1>2. CASE CreateComment(c, m)
  <2>1. PICK p \in thread.posted \cup {Keep} :
          Begin(c, [Idle EXCEPT !.op = "comment", !.comments = {m}, !.parent = p])
    BY <1>2 DEF CreateComment
  <2> DEFINE t == [Idle EXCEPT !.op = "comment", !.comments = {m}, !.parent = p]
  <2>2. p \in Comments \cup {Keep}
    BY DEF IInv, TypeOK
  <2>3. t \in Tx
    BY <2>2, IdleTx DEF Tx, Idle, Ops
  <2>4. t.status = Keep /\ t.stamp = Keep /\ t.votes = NoVotes
    BY DEF Idle
  <2> HIDE DEF t
  <2> QED
    BY <1>1, <2>1, <2>3, <2>4 DEF t
<1>3. CASE DeleteComment(c, m)
  <2> DEFINE t == [Idle EXCEPT !.op = "erase", !.comments = {m}]
  <2>1. t \in Tx
    BY IdleTx DEF Tx, Idle, Ops
  <2>2. t.status = Keep /\ t.stamp = Keep /\ t.votes = NoVotes
    BY DEF Idle
  <2>3. Begin(c, t)
    BY <1>3 DEF DeleteComment
  <2> HIDE DEF t
  <2> QED
    BY <1>1, <2>1, <2>2, <2>3
<1> QED
  BY <1>2, <1>3

-----------------------------------------------------------------------------
(* The end of a session.                                                   *)

\* Closing a session and growing the set of timestamps keeps the evidence of
\* the sessions that remain open.
LEMMA EvidenceStays ==
  ASSUME IInv, NEW c \in Clients, tx' = [tx EXCEPT ![c] = Idle],
         cr.stamps \subseteq cr'.stamps
  PROVE  /\ tx' \in [Clients -> Tx]
         /\ \A d \in Clients : TxEvidence(tx[d])'
<1>1. tx' \in [Clients -> Tx]
  BY IdleTx DEF IInv, TypeOK
<1>2. ASSUME NEW d \in Clients PROVE TxEvidence(tx[d])'
  <2>1. CASE d = c
    <3>1. tx'[d] = Idle
      BY <2>1 DEF IInv, TypeOK
    <3>2. Idle.status = Keep /\ Idle.stamp = Keep /\ Idle.votes = NoVotes
      BY DEF Idle
    <3> QED
      BY <3>1, <3>2, KeepAssumption DEF TxEvidence, NoVotes, RowStatus, Status, VoteStatus
  <2>2. CASE d # c
    <3>1. tx'[d] = tx[d] /\ TxEvidence(tx[d])
      BY <2>2 DEF IInv, TypeOK
    <3> QED
      BY <3>1 DEF TxEvidence
  <2> QED
    BY <2>1, <2>2
<1> QED
  BY <1>1, <1>2

\* A rollback forgets what one session would have written.
LEMMA RollbackKeeps == ASSUME IInv, NEW c \in Clients, Rollback(c) PROVE IInv'
<1>1. UNCHANGED <<cr, votes, thread>> /\ tx' = [tx EXCEPT ![c] = Idle]
  BY DEF Rollback
<1>2. tx' \in [Clients -> Tx] /\ \A d \in Clients : TxEvidence(tx[d])'
  BY <1>1, EvidenceStays
<1> QED
  BY <1>1, <1>2 DEF IInv, TypeOK, DraftPristine

\* Committing a deletion leaves a row that needs no evidence.
LEMMA CommitDeleteKeeps ==
  ASSUME IInv, NEW c \in Clients, CommitDelete(c) PROVE IInv'
<1>1. cr' = [cr EXCEPT !.status = "deleted"] /\ tx' = [tx EXCEPT ![c] = Idle]
  BY DEF CommitDelete
<1>2. cr'.status = "deleted" /\ cr'.stamps = cr.stamps
      /\ cr' \in [status : RowStatus, required : 0 .. MaxRequired,
                 content : Contents, stamps : SUBSET Stamps]
  BY <1>1 DEF IInv, TypeOK, RowStatus
<1>3. tx' \in [Clients -> Tx] /\ \A d \in Clients : TxEvidence(tx[d])'
  BY <1>1, <1>2, EvidenceStays
<1>4. votes' \in [Reviewers -> VoteStatus]
  <2>1. tx[c].votes \in [Reviewers -> VoteWrite]
    BY DEF IInv, TypeOK, Tx
  <2>2. \A r \in Reviewers : WrittenVote(votes[r], tx[c].votes[r]) \in VoteStatus
    BY <2>1 DEF IInv, TypeOK, WrittenVote, VoteWrite, VoteStatus
  <2> QED
    BY <2>2 DEF CommitDelete, VoteStatus
<1>5. thread' \in [posted : SUBSET Comments, used : SUBSET Comments,
                  erased : SUBSET Comments, parent : [Comments -> Comments \cup {Keep}]]
  BY DEF CommitDelete, IInv, TypeOK
<1>6. (Evidence(cr.status) \subseteq cr.stamps)' /\ DraftPristine'
  BY <1>2 DEF Evidence, DraftPristine
<1> QED
  BY <1>2, <1>3, <1>4, <1>5, <1>6 DEF IInv, TypeOK

\* Committing any other session, on rows that may have changed since it read
\* them: timestamps only accumulate, so the evidence it saw is still there.
LEMMA CommitWritesKeeps ==
  ASSUME IInv, NEW c \in Clients, CommitWrites(c) PROVE IInv'
<1> DEFINE t == tx[c]
<1>1. t \in Tx /\ TxEvidence(t)
  BY DEF IInv, TypeOK
<1>2. /\ cr' = [status |-> Column(cr.status, t.status),
                required |-> Column(cr.required, t.required),
                content |-> Column(cr.content, t.content),
                stamps |-> cr.stamps \cup ({t.stamp} \ {Keep})]
      /\ votes' = [r \in Reviewers |-> WrittenVote(votes[r], t.votes[r])]
      /\ tx' = [tx EXCEPT ![c] = Idle]
  BY DEF CommitWrites
<1>3. tx' \in [Clients -> Tx] /\ \A d \in Clients : TxEvidence(tx[d])'
  BY <1>2, EvidenceStays
<1>4. cr' \in [status : RowStatus, required : 0 .. MaxRequired,
               content : Contents, stamps : SUBSET Stamps]
  <2>1. Column(cr.status, t.status) \in RowStatus
    BY <1>1 DEF Column, IInv, TypeOK, Tx, RowStatus
  <2>2. Column(cr.required, t.required) \in 0 .. MaxRequired
    BY <1>1 DEF Column, IInv, TypeOK, Tx
  <2>3. Column(cr.content, t.content) \in Contents
    BY <1>1 DEF Column, IInv, TypeOK, Tx
  <2>4. cr.stamps \cup ({t.stamp} \ {Keep}) \in SUBSET Stamps
    BY <1>1 DEF IInv, TypeOK, Tx
  <2> QED
    BY <1>2, <2>1, <2>2, <2>3, <2>4
<1>5. votes' \in [Reviewers -> VoteStatus]
  <2>1. t.votes \in [Reviewers -> VoteWrite] /\ votes \in [Reviewers -> VoteStatus]
    BY <1>1 DEF IInv, TypeOK, Tx
  <2>2. \A r \in Reviewers : WrittenVote(votes[r], t.votes[r]) \in VoteStatus
    BY <2>1 DEF WrittenVote, VoteWrite, VoteStatus
  <2> QED
    BY <1>2, <2>2
<1>6. thread' \in [posted : SUBSET Comments, used : SUBSET Comments,
                  erased : SUBSET Comments, parent : [Comments -> Comments \cup {Keep}]]
  <2>1. t.comments \in SUBSET Comments /\ t.parent \in Comments \cup {Keep}
    BY <1>1 DEF Tx
  <2>2. thread \in [posted : SUBSET Comments, used : SUBSET Comments,
                    erased : SUBSET Comments, parent : [Comments -> Comments \cup {Keep}]]
    BY DEF IInv, TypeOK
  <2>3. CASE t.op = "comment"
    <3>1. thread' = [thread EXCEPT !.posted = @ \cup t.comments,
                                   !.used = @ \cup t.comments,
                                   !.parent = [m \in Comments |->
                                      IF m \in t.comments THEN t.parent ELSE @[m]]]
      BY <2>3 DEF CommitWrites
    <3> QED
      BY <2>1, <2>2, <3>1
  <2>4. CASE t.op = "erase"
    <3>1. thread' = [thread EXCEPT !.erased = @ \cup t.comments]
      BY <2>4 DEF CommitWrites
    <3> QED
      BY <2>1, <2>2, <3>1
  <2>5. CASE t.op \notin {"comment", "erase"}
    <3>1. thread' = thread
      BY <2>5 DEF CommitWrites
    <3> QED
      BY <2>2, <3>1
  <2> QED
    BY <2>3, <2>4, <2>5
<1>7. (Evidence(cr.status) \subseteq cr.stamps)'
  <2>1. cr'.status = Column(cr.status, t.status)
        /\ cr'.stamps = cr.stamps \cup ({t.stamp} \ {Keep})
    BY <1>2
  <2>2. CASE t.status = Keep
    BY <2>1, <2>2 DEF Column, IInv
  <2>3. CASE t.status # Keep
    <3>1. Evidence(t.status) \subseteq cr.stamps \cup {t.stamp}
      BY <1>1, <2>3 DEF TxEvidence
    <3>2. Keep \notin Evidence(t.status)
      BY KeepAssumption DEF Evidence, Stamps
    <3> QED
      BY <2>1, <2>3, <3>1, <3>2 DEF Column
  <2> QED
    BY <2>2, <2>3
<1>8. DraftPristine'
  <2> SUFFICES ASSUME cr'.status \in {"absent", "draft"}
               PROVE  /\ cr'.stamps = {}
                      /\ \A r \in Reviewers : votes'[r] \in {"none", "pending"}
    BY DEF DraftPristine
  <2>1. t.status = Keep /\ t.stamp = Keep /\ cr.status \in {"absent", "draft"}
    BY <1>1, <1>2 DEF Column, TxEvidence, Tx, Status
  <2>2. cr.stamps = {} /\ \A r \in Reviewers : votes[r] \in {"none", "pending"}
    BY <2>1 DEF IInv, DraftPristine
  <2>3. \A r \in Reviewers : t.votes[r] \notin {"approved", "changes_requested"}
    BY <1>1, <2>2 DEF TxEvidence
  <2>4. \A r \in Reviewers : t.votes[r] \in VoteWrite
    BY <1>1 DEF Tx
  <2>5. \A r \in Reviewers : WrittenVote(votes[r], t.votes[r]) \in {"none", "pending"}
    BY <2>2, <2>3, <2>4 DEF WrittenVote, VoteWrite
  <2> QED
    BY <1>2, <2>1, <2>2, <2>5
<1> QED
  BY <1>2, <1>3, <1>4, <1>5, <1>6, <1>7, <1>8 DEF IInv, TypeOK

-----------------------------------------------------------------------------
(* The theorems.                                                           *)

\* The invariant holds before the CR exists.
LEMMA InitIInv == Init => IInv
<1> SUFFICES ASSUME Init PROVE IInv
  OBVIOUS
<1>1. TypeOK
  BY IdleTx, MaxRequiredAssumption
     DEF Init, TypeOK, RowStatus, Status, VoteStatus, Stamps
<1>2. Evidence(cr.status) \subseteq cr.stamps /\ DraftPristine
  BY DEF Init, Evidence, DraftPristine
<1>3. Idle.status = Keep /\ Idle.stamp = Keep /\ Idle.votes = NoVotes
  BY DEF Idle
<1>4. TxEvidence(Idle)
  BY <1>3, KeepAssumption DEF TxEvidence, NoVotes, RowStatus, Status, VoteStatus
<1> QED
  BY <1>1, <1>2, <1>4 DEF IInv, Init

\* Every step keeps the invariant.
LEMMA NextIInv == IInv /\ [Next]_vars => IInv'
<1> SUFFICES ASSUME IInv, [Next]_vars PROVE IInv'
  OBVIOUS
<1>1. CASE CreateChangeRequest
  BY <1>1, CreateKeeps
<1>2. CASE \E c \in Clients : Request(c)
  <2>1. PICK c \in Clients : Request(c)
    BY <1>2
  <2> QED
    BY <2>1, UpdateKeeps, DeleteKeeps, SubmitKeeps, DecisionsKeep, AssignmentKeeps,
       VoteKeeps, CommentKeeps DEF Request
<1>3. CASE \E c \in Clients : CommitDelete(c)
  BY <1>3, CommitDeleteKeeps
<1>4. CASE \E c \in Clients : CommitWrites(c)
  BY <1>4, CommitWritesKeeps
<1>5. CASE \E c \in Clients : Rollback(c)
  BY <1>5, RollbackKeeps
<1>6. CASE UNCHANGED vars
  BY <1>6 DEF vars, IInv, TypeOK, DraftPristine, TxEvidence
<1> QED
  BY <1>1, <1>2, <1>3, <1>4, <1>5, <1>6 DEF Next

\* IInv is an invariant: the rows have their types and the evidence of their
\* status, and every open session brings or has seen the evidence of what it
\* is about to write.
THEOREM Invariance == Spec => []IInv
BY InitIInv, NextIInv, PTL DEF Spec

\* The rows and the open sessions always have their types.
THEOREM TypeCorrect == Spec => []TypeOK
<1>1. IInv => TypeOK
  BY DEF IInv
<1> QED
  BY <1>1, Invariance, PTL

\* Nothing is approved that was never submitted nor merged that was never
\* approved, for every number of racing submit, vote, approve, reject, close,
\* merge and PATCH requests.
THEOREM ApprovalPrecedesMerge == Spec => []ApprovedBeforeMerged
<1>1. IInv => ApprovedBeforeMerged
  BY DEF IInv, ApprovedBeforeMerged, Evidence
<1> QED
  BY <1>1, Invariance, PTL

\* No late commit takes a CR that was reviewed back to DRAFT, where
\* delete_change_request would accept it.
THEOREM DraftsArePristine == Spec => []DraftPristine
<1>1. IInv => DraftPristine
  BY DEF IInv
<1> QED
  BY <1>1, Invariance, PTL

-----------------------------------------------------------------------------
(* One request at a time.                                                  *)

\* A single worker that takes a request at a time.
OneAtATime == \A c, d \in Clients : c = d

-----------------------------------------------------------------------------
(* What an open session will do to the rows as they are: the guard and the *)
(* decision of its handler still hold when nobody else has committed.      *)

Silent(t) == t.status = Keep /\ t.votes = NoVotes

WillAmend(t) == t.op = "update" /\ cr.status \in Status \ {"merged"} /\ Silent(t)

WillDiscard(t) ==
  /\ t.op = "delete"
  /\ cr.status = "draft"
  /\ t.comments = thread.posted
  /\ \A r \in Assigned : t.votes[r] = "remove"
  /\ \A r \in Reviewers \ Assigned : t.votes[r] = Keep

WillSubmit(t) ==
  /\ t.op = "submit"
  /\ cr.status \in {"draft", "changes_requested"}
  /\ t.status = "submitted"
  /\ \A r \in Assigned : t.votes[r] = Assign(votes[r], "pending")
  /\ \A r \in Reviewers \ Assigned : t.votes[r] = Keep

WillDecide(t) ==
  /\ t.op \in {"decide", "close", "merge"}
  /\ t.votes = NoVotes
  /\ \/ cr.status = "submitted" /\ t.status = "changes_requested"
     \/ cr.status = "submitted" /\ t.status = "approved" /\ ~(cr.required > 1 /\ Assigned # {})
     \/ Open /\ t.status = "closed"
     \/ cr.status = "approved" /\ t.status = "merged"

WillBack(t, r) ==
  /\ t.op = "vote"
  /\ cr.status = "submitted"
  /\ votes[r] # "none"
  /\ t.status = IF QuorumWith(r) THEN "approved" ELSE Keep
  /\ t.votes = [NoVotes EXCEPT ![r] = Vote(r, "approved")]

WillObject(t, r) ==
  /\ t.op = "vote"
  /\ cr.status = "submitted"
  /\ votes[r] # "none"
  /\ t.status = "changes_requested"
  /\ t.votes = [NoVotes EXCEPT ![r] = Vote(r, "changes_requested")]

WillAssign(t, r) ==
  /\ t.op = "assign"
  /\ Open
  /\ votes[r] = "none"
  /\ t.status = Keep
  /\ t.votes = [NoVotes EXCEPT ![r] = "insert"]

WillWithdraw(t, r) ==
  /\ t.op = "withdraw"
  /\ cr.status \in Status \ {"approved"}
  /\ t.status = Keep
  /\ t.votes = [NoVotes EXCEPT ![r] = "remove"]

WillTalk(t) == t.op \in {"comment", "erase"} /\ Exists /\ Silent(t)

Current(t) ==
  \/ t = Idle
  \/ WillAmend(t) \/ WillDiscard(t) \/ WillSubmit(t) \/ WillDecide(t) \/ WillTalk(t)
  \/ \E r \in Reviewers :
       WillBack(t, r) \/ WillObject(t, r) \/ WillAssign(t, r) \/ WillWithdraw(t, r)

\* Only a PATCH writes the columns that are no decision.
Decides(t) == t.op # "update" => t.required = Keep /\ t.content = Keep

\* The invariant of requests that do not overlap.
Serial ==
  /\ NoOrphans
  /\ \A c \in Clients : Current(tx[c]) /\ Decides(tx[c])

-----------------------------------------------------------------------------
(* The handlers.                                                           *)

\* Keep is none of the values a session writes.
LEMMA KeepIsNoValue ==
  /\ Keep \notin RowStatus /\ Keep \notin VoteStatus
  /\ Keep \notin {"insert", "remove", "touch"}
BY KeepAssumption

\* An opened session holds what its handler put there.
LEMMA OpenedWith ==
  ASSUME TypeOK, NEW c \in Clients, NEW t, Begin(c, t)
  PROVE  tx'[c] = t /\ cr' = cr /\ votes' = votes /\ thread' = thread
BY DEF TypeOK, Begin

\* What a session that only moves the CR holds.
LEMMA SimpleMoveFields ==
  ASSUME NEW op, NEW s, NEW stamp, NEW t, t = MoveTo(op, s, stamp)
  PROVE  t.op = op /\ t.status = s /\ t.votes = NoVotes /\ Decides(t)
BY DEF MoveTo, Idle, Decides

\* update_change_request.
LEMMA UpdateReads ==
  ASSUME TypeOK, NEW c \in Clients, UpdateChangeRequest(c)
  PROVE  WillAmend(tx'[c]) /\ Decides(tx'[c])
<1>1. PICK n \in 0 .. MaxRequired, x \in Contents :
        Begin(c, [Idle EXCEPT !.op = "update", !.required = Assign(cr.required, n),
                              !.content = Assign(cr.content, x)])
  BY DEF UpdateChangeRequest
<1>2. tx'[c] = [Idle EXCEPT !.op = "update", !.required = Assign(cr.required, n),
                            !.content = Assign(cr.content, x)]
  BY <1>1, OpenedWith
<1>3. tx'[c].op = "update" /\ tx'[c].status = Keep /\ tx'[c].votes = NoVotes
  BY <1>2 DEF Idle
<1> QED
  BY <1>3 DEF UpdateChangeRequest, WillAmend, Silent, Decides

\* delete_change_request loads the children it will delete.
LEMMA DeleteReads ==
  ASSUME TypeOK, NEW c \in Clients, DeleteChangeRequest(c)
  PROVE  WillDiscard(tx'[c]) /\ Decides(tx'[c])
<1> DEFINE w == [r \in Reviewers |-> IF r \in Assigned THEN "remove" ELSE Keep]
<1>1. tx'[c] = [Idle EXCEPT !.op = "delete", !.comments = thread.posted, !.votes = w]
  BY OpenedWith DEF DeleteChangeRequest
<1>2. /\ tx'[c].op = "delete" /\ tx'[c].comments = thread.posted /\ tx'[c].votes = w
      /\ Decides(tx'[c])
  BY <1>1 DEF Idle, Decides
<1> QED
  BY <1>2 DEF DeleteChangeRequest, WillDiscard, Assigned

\* submit_change_request.
LEMMA SubmitReads ==
  ASSUME TypeOK, NEW c \in Clients, SubmitChangeRequest(c)
  PROVE  WillSubmit(tx'[c]) /\ Decides(tx'[c])
<1> DEFINE w == [r \in Reviewers |-> IF r \in Assigned
                                        THEN Assign(votes[r], "pending") ELSE Keep]
<1>1. tx'[c] = [MoveTo("submit", "submitted", "submitted") EXCEPT !.votes = w]
  BY OpenedWith DEF SubmitChangeRequest
<1>2. /\ tx'[c].op = "submit" /\ tx'[c].status = "submitted" /\ tx'[c].votes = w
      /\ Decides(tx'[c])
  BY <1>1 DEF MoveTo, Idle, Decides
<1> QED
  BY <1>2 DEF SubmitChangeRequest, WillSubmit, Assigned

\* approve, reject, close and merge_change_request.
LEMMA DecisionReads ==
  ASSUME TypeOK, NEW c \in Clients,
         \/ ApproveChangeRequest(c) \/ RejectChangeRequest(c)
         \/ CloseChangeRequest(c) \/ MergeChangeRequest(c)
  PROVE  WillDecide(tx'[c]) /\ Decides(tx'[c])
<1>1. CASE ApproveChangeRequest(c)
  <2>1. tx'[c] = MoveTo("decide", "approved", "approved")
    BY <1>1, OpenedWith DEF ApproveChangeRequest
  <2> QED
    BY <1>1, <2>1, SimpleMoveFields DEF ApproveChangeRequest, WillDecide
<1>2. CASE RejectChangeRequest(c)
  <2>1. tx'[c] = MoveTo("decide", "changes_requested", Keep)
    BY <1>2, OpenedWith DEF RejectChangeRequest
  <2> QED
    BY <1>2, <2>1, SimpleMoveFields DEF RejectChangeRequest, WillDecide
<1>3. CASE CloseChangeRequest(c)
  <2>1. tx'[c] = MoveTo("close", "closed", "closed")
    BY <1>3, OpenedWith DEF CloseChangeRequest
  <2> QED
    BY <1>3, <2>1, SimpleMoveFields DEF CloseChangeRequest, WillDecide
<1>4. CASE MergeChangeRequest(c)
  <2>1. tx'[c] = MoveTo("merge", "merged", "merged")
    BY <1>4, OpenedWith DEF MergeChangeRequest
  <2> QED
    BY <1>4, <2>1, SimpleMoveFields DEF MergeChangeRequest, WillDecide
<1> QED
  BY <1>1, <1>2, <1>3, <1>4

\* assign_reviewer.
LEMMA AssignReads ==
  ASSUME TypeOK, NEW c \in Clients, NEW r \in Reviewers, AssignReviewer(c, r)
  PROVE  WillAssign(tx'[c], r) /\ Decides(tx'[c])
<1>1. tx'[c] = [Idle EXCEPT !.op = "assign", !.votes[r] = "insert"]
  BY OpenedWith DEF AssignReviewer
<1>2. /\ tx'[c].op = "assign" /\ tx'[c].status = Keep
      /\ tx'[c].votes = [NoVotes EXCEPT ![r] = "insert"] /\ Decides(tx'[c])
  BY <1>1 DEF Idle, Decides
<1> QED
  BY <1>2 DEF AssignReviewer, WillAssign

\* remove_reviewer.
LEMMA RemoveReads ==
  ASSUME TypeOK, NEW c \in Clients, NEW r \in Reviewers, RemoveReviewer(c, r)
  PROVE  WillWithdraw(tx'[c], r) /\ Decides(tx'[c])
<1>1. tx'[c] = [Idle EXCEPT !.op = "withdraw", !.votes[r] = "remove"]
  BY OpenedWith DEF RemoveReviewer
<1>2. /\ tx'[c].op = "withdraw" /\ tx'[c].status = Keep
      /\ tx'[c].votes = [NoVotes EXCEPT ![r] = "remove"] /\ Decides(tx'[c])
  BY <1>1 DEF Idle, Decides
<1> QED
  BY <1>2 DEF RemoveReviewer, WillWithdraw

\* reviewer_approve with _maybe_auto_merge.
LEMMA BackReads ==
  ASSUME TypeOK, NEW c \in Clients, NEW r \in Reviewers, ReviewerApprove(c, r)
  PROVE  WillBack(tx'[c], r) /\ Decides(tx'[c])
<1>1. tx'[c] = [(IF QuorumWith(r) THEN MoveTo("vote", "approved", "approved")
                                  ELSE MoveTo("vote", Keep, Keep))
                EXCEPT !.votes[r] = Vote(r, "approved")]
  BY OpenedWith DEF ReviewerApprove
<1>2. CASE QuorumWith(r)
  <2>1. tx'[c] = [MoveTo("vote", "approved", "approved")
                  EXCEPT !.votes[r] = Vote(r, "approved")]
    BY <1>1, <1>2
  <2>2. /\ tx'[c].op = "vote" /\ tx'[c].status = "approved" /\ Decides(tx'[c])
        /\ tx'[c].votes = [NoVotes EXCEPT ![r] = Vote(r, "approved")]
    BY <2>1 DEF MoveTo, Idle, Decides
  <2> QED
    BY <1>2, <2>2 DEF ReviewerApprove, WillBack
<1>3. CASE ~QuorumWith(r)
  <2>1. tx'[c] = [MoveTo("vote", Keep, Keep) EXCEPT !.votes[r] = Vote(r, "approved")]
    BY <1>1, <1>3
  <2>2. /\ tx'[c].op = "vote" /\ tx'[c].status = Keep /\ Decides(tx'[c])
        /\ tx'[c].votes = [NoVotes EXCEPT ![r] = Vote(r, "approved")]
    BY <2>1 DEF MoveTo, Idle, Decides
  <2> QED
    BY <1>3, <2>2 DEF ReviewerApprove, WillBack
<1> QED
  BY <1>2, <1>3

\* reviewer_reject.
LEMMA ObjectReads ==
  ASSUME TypeOK, NEW c \in Clients, NEW r \in Reviewers, ReviewerReject(c, r)
  PROVE  WillObject(tx'[c], r) /\ Decides(tx'[c])
<1>1. tx'[c] = [MoveTo("vote", "changes_requested", Keep)
                EXCEPT !.votes[r] = Vote(r, "changes_requested")]
  BY OpenedWith DEF ReviewerReject
<1>2. /\ tx'[c].op = "vote" /\ tx'[c].status = "changes_requested" /\ Decides(tx'[c])
      /\ tx'[c].votes = [NoVotes EXCEPT ![r] = Vote(r, "changes_requested")]
  BY <1>1 DEF MoveTo, Idle, Decides
<1> QED
  BY <1>2 DEF ReviewerReject, WillObject

\* create_comment and delete_comment, on a CR that is there.
LEMMA TalkReads ==
  ASSUME TypeOK, NoOrphans, NEW c \in Clients, NEW m \in Comments,
         CreateComment(c, m) \/ DeleteComment(c, m)
  PROVE  WillTalk(tx'[c]) /\ Decides(tx'[c])
<1>1. CASE CreateComment(c, m)
  <2>1. PICK p \in thread.posted \cup {Keep} :
          Begin(c, [Idle EXCEPT !.op = "comment", !.comments = {m}, !.parent = p])
    BY <1>1 DEF CreateComment
  <2>2. tx'[c] = [Idle EXCEPT !.op = "comment", !.comments = {m}, !.parent = p]
    BY <2>1, OpenedWith
  <2>3. tx'[c].op = "comment" /\ Silent(tx'[c]) /\ Decides(tx'[c])
    BY <2>2 DEF Idle, Silent, Decides
  <2> QED
    BY <1>1, <2>3 DEF CreateComment, WillTalk, Open, Exists
<1>2. CASE DeleteComment(c, m)
  <2>1. tx'[c] = [Idle EXCEPT !.op = "erase", !.comments = {m}]
    BY <1>2, OpenedWith DEF DeleteComment
  <2>2. tx'[c].op = "erase" /\ Silent(tx'[c]) /\ Decides(tx'[c])
    BY <2>1 DEF Idle, Silent, Decides
  <2> QED
    BY <1>2, <2>2 DEF DeleteComment, WillTalk, NoOrphans
<1> QED
  BY <1>1, <1>2

\* Every handler leaves a session that is current, and touches no row.
LEMMA HandlersRead ==
  ASSUME TypeOK, NoOrphans, NEW c \in Clients, Request(c)
  PROVE  /\ Current(tx'[c]) /\ Decides(tx'[c])
         /\ cr' = cr /\ votes' = votes /\ thread' = thread
<1>1. cr' = cr /\ votes' = votes /\ thread' = thread
  BY DEF Request, Begin, UpdateChangeRequest, DeleteChangeRequest, SubmitChangeRequest,
         ApproveChangeRequest, RejectChangeRequest, CloseChangeRequest,
         MergeChangeRequest, AssignReviewer, RemoveReviewer, ReviewerApprove,
         ReviewerReject, CreateComment, DeleteComment
<1>2. Current(tx'[c]) /\ Decides(tx'[c])
  BY UpdateReads, DeleteReads, SubmitReads, DecisionReads, AssignReads, RemoveReads,
     BackReads, ObjectReads, TalkReads DEF Request, Current
<1> QED
  BY <1>1, <1>2

-----------------------------------------------------------------------------
(* The end of a session.                                                   *)

\* What a commit does to the columns.
LEMMA Committed ==
  ASSUME TypeOK, NEW c \in Clients, CommitWrites(c)
  PROVE  /\ cr'.status = Column(cr.status, tx[c].status)
         /\ cr'.required = Column(cr.required, tx[c].required)
         /\ cr'.content = Column(cr.content, tx[c].content)
         /\ cr'.stamps = cr.stamps \cup ({tx[c].stamp} \ {Keep})
         /\ tx'[c] = Idle
BY DEF CommitWrites, TypeOK

\* A session without votes leaves the reviewer rows alone.
LEMMA NoVoteWritten ==
  ASSUME TypeOK, NEW c \in Clients, CommitWrites(c), tx[c].votes = NoVotes
  PROVE  votes' = votes
<1>1. votes' = [r \in Reviewers |-> WrittenVote(votes[r], tx[c].votes[r])]
  BY DEF CommitWrites
<1>2. \A r \in Reviewers : WrittenVote(votes[r], tx[c].votes[r]) = votes[r]
  BY KeepIsNoValue DEF NoVotes, WrittenVote
<1> QED
  BY <1>1, <1>2 DEF TypeOK

\* A session with one vote changes one reviewer row.
LEMMA OneVoteWritten ==
  ASSUME TypeOK, NEW c \in Clients, CommitWrites(c), NEW r \in Reviewers, NEW v,
         tx[c].votes = [NoVotes EXCEPT ![r] = v]
  PROVE  votes' = [votes EXCEPT ![r] = WrittenVote(votes[r], v)]
<1>1. votes' = [q \in Reviewers |-> WrittenVote(votes[q], tx[c].votes[q])]
  BY DEF CommitWrites
<1>2. WrittenVote(votes[r], tx[c].votes[r]) = WrittenVote(votes[r], v)
  BY DEF NoVotes
<1>3. \A q \in Reviewers \ {r} : WrittenVote(votes[q], tx[c].votes[q]) = votes[q]
  BY KeepIsNoValue DEF NoVotes, WrittenVote
<1> QED
  BY <1>1, <1>2, <1>3 DEF TypeOK

\* A vote that repeats what is stored and one that changes it end alike.
LEMMA VoteStands ==
  ASSUME NEW r \in Reviewers, NEW v \in {"approved", "changes_requested"}
  PROVE  WrittenVote(votes[r], Vote(r, v)) = v
BY KeepIsNoValue DEF WrittenVote, Vote, VoteStatus

\* A PATCH is an amendment.
LEMMA AmendCommits ==
  ASSUME TypeOK, NEW c \in Clients, CommitWrites(c), WillAmend(tx[c])
  PROVE  Lifecycle!Amend \/ Lifecycle!AmendLate
<1>1. cr'.status = cr.status /\ votes' = votes
  BY Committed, NoVoteWritten DEF WillAmend, Silent, Column
<1>2. cr'.required \in 0 .. MaxRequired
  <2>1. tx[c] \in Tx
    BY DEF TypeOK
  <2> QED
    BY <2>1, Committed DEF TypeOK, Tx, Column
<1> QED
  BY <1>1, <1>2 DEF Lifecycle!Amend, Lifecycle!AmendLate, Lifecycle!MoveBar, WillAmend,
                    Status, Approvals, Objections

\* A submission starts a round of review from nothing.
LEMMA SubmitCommits ==
  ASSUME TypeOK, NEW c \in Clients, CommitWrites(c), WillSubmit(tx[c]), Decides(tx[c])
  PROVE  Lifecycle!Submit \/ Lifecycle!Resubmit
<1>1. cr'.status = "submitted" /\ cr'.required = cr.required
  BY Committed, KeepIsNoValue DEF WillSubmit, Decides, Column, RowStatus, Status
<1>2. ASSUME NEW r \in Reviewers PROVE votes'[r] \in {"none", "pending"}
  <2>1. votes'[r] = WrittenVote(votes[r], tx[c].votes[r])
    BY DEF CommitWrites
  <2> QED
    BY <2>1, KeepIsNoValue DEF WillSubmit, WrittenVote, Assign, Assigned, VoteStatus
<1>3. Approvals' = {} /\ Objections' = {}
  BY <1>2 DEF Approvals, Objections
<1> QED
  BY <1>1, <1>3 DEF Lifecycle!Submit, Lifecycle!Resubmit, Lifecycle!Restart, WillSubmit

\* Approving by decree, rejecting, closing and merging.
LEMMA DecisionCommits ==
  ASSUME TypeOK, NEW c \in Clients, CommitWrites(c), WillDecide(tx[c]), Decides(tx[c])
  PROVE  Lifecycle!Approve \/ Lifecycle!Reject \/ Lifecycle!Close \/ Lifecycle!Merge
<1>1. /\ cr'.status = tx[c].status /\ cr'.required = cr.required
      /\ Approvals' = Approvals /\ Objections' = Objections
  <2>1. votes' = votes
    BY NoVoteWritten DEF WillDecide
  <2>2. tx[c].status # Keep
    BY KeepIsNoValue DEF WillDecide, RowStatus, Status
  <2> QED
    BY <2>1, <2>2, Committed DEF WillDecide, Decides, Column, Approvals, Objections
<1>2. CASE cr.status = "submitted" /\ tx[c].status = "changes_requested"
  BY <1>1, <1>2 DEF Lifecycle!Reject, Lifecycle!Standing
<1>3. CASE cr.status = "submitted" /\ tx[c].status = "approved"
           /\ ~(cr.required > 1 /\ Assigned # {})
  <2>1. cr.required <= 1 \/ Approvals = {}
    BY <1>3 DEF TypeOK, Assigned, Approvals
  <2> QED
    BY <1>1, <1>3, <2>1 DEF Lifecycle!Approve, Lifecycle!Standing
<1>4. CASE Open /\ tx[c].status = "closed"
  BY <1>1, <1>4 DEF Lifecycle!Close, Lifecycle!Standing, Open, Status
<1>5. CASE cr.status = "approved" /\ tx[c].status = "merged"
  BY <1>1, <1>5 DEF Lifecycle!Merge, Lifecycle!Standing
<1> QED
  BY <1>2, <1>3, <1>4, <1>5 DEF WillDecide

\* The two modules count alike.
LEMMA SameCount == ASSUME NEW S PROVE Lifecycle!Cardinality(S) = Cardinality(S)
BY DEF Cardinality, Lifecycle!Cardinality

\* An approval counts itself among those that were read.
LEMMA BackCommits ==
  ASSUME TypeOK, NEW c \in Clients, CommitWrites(c), Decides(tx[c]),
         NEW r \in Reviewers, WillBack(tx[c], r)
  PROVE  Lifecycle!Back(r)
<1>1. cr'.required = cr.required /\ cr.required \in Nat
  BY Committed DEF WillBack, Decides, Column, TypeOK
<1>2. votes' = [votes EXCEPT ![r] = "approved"]
  BY OneVoteWritten, VoteStands DEF WillBack
<1>3. Approvals' = Approvals \cup {r} /\ Objections' = Objections \ {r}
  BY <1>2 DEF Approvals, Objections, TypeOK
<1>4. QuorumWith(r) <=> Cardinality(Approvals') >= cr.required
  <2>1. IsFiniteSet(Approvals \cup {r})
    BY ReviewersAssumption, FS_Subset DEF Approvals
  <2>2. Cardinality(Approvals \cup {r}) \in Nat
    BY <2>1, FS_CardinalityType
  <2> QED
    BY <1>1, <1>3, <2>2 DEF QuorumWith
<1>5. cr'.status = IF QuorumWith(r) THEN "approved" ELSE "submitted"
  BY Committed, KeepIsNoValue DEF WillBack, Column, RowStatus, Status
<1>6. cr'.status = IF Cardinality(Approvals') >= cr.required THEN "approved" ELSE "submitted"
  BY <1>4, <1>5
<1> QED
  BY <1>1, <1>3, <1>6, SameCount DEF Lifecycle!Back, WillBack

\* A request for changes sends the CR back.
LEMMA ObjectCommits ==
  ASSUME TypeOK, NEW c \in Clients, CommitWrites(c), Decides(tx[c]),
         NEW r \in Reviewers, WillObject(tx[c], r)
  PROVE  Lifecycle!Object(r)
<1>1. cr'.required = cr.required /\ cr'.status = "changes_requested"
  BY Committed, KeepIsNoValue DEF WillObject, Decides, Column, RowStatus, Status
<1>2. votes' = [votes EXCEPT ![r] = "changes_requested"]
  BY OneVoteWritten, VoteStands DEF WillObject
<1>3. Approvals' = Approvals \ {r} /\ Objections' = Objections \cup {r}
  BY <1>2 DEF Approvals, Objections, TypeOK
<1> QED
  BY <1>1, <1>3 DEF Lifecycle!Object, WillObject

\* Removing a reviewer takes the vote along.
LEMMA WithdrawCommits ==
  ASSUME TypeOK, NEW c \in Clients, CommitWrites(c), Decides(tx[c]),
         NEW r \in Reviewers, WillWithdraw(tx[c], r)
  PROVE  Lifecycle!Withdraw(r)
<1>1. cr'.required = cr.required /\ cr'.status = cr.status
  BY Committed DEF WillWithdraw, Decides, Column
<1>2. votes' = [votes EXCEPT ![r] = "none"]
  BY OneVoteWritten, KeepIsNoValue DEF WillWithdraw, WrittenVote
<1>3. Approvals' = Approvals \ {r} /\ Objections' = Objections \ {r}
  BY <1>2 DEF Approvals, Objections, TypeOK
<1> QED
  BY <1>1, <1>3 DEF Lifecycle!Withdraw, WillWithdraw, Status

\* Assigning a reviewer and commenting decide nothing.
LEMMA OthersStutter ==
  ASSUME TypeOK, NEW c \in Clients, CommitWrites(c), Decides(tx[c]),
         WillTalk(tx[c]) \/ \E r \in Reviewers : WillAssign(tx[c], r)
  PROVE  UNCHANGED Lifecycle!vars
<1>1. cr'.required = cr.required /\ cr'.status = cr.status
  BY Committed DEF WillTalk, WillAssign, Silent, Decides, Column
<1>2. Approvals' = Approvals /\ Objections' = Objections
  <2>1. CASE WillTalk(tx[c])
    BY <2>1, NoVoteWritten DEF WillTalk, Silent, Approvals, Objections
  <2>2. ASSUME NEW r \in Reviewers, WillAssign(tx[c], r)
        PROVE  Approvals' = Approvals /\ Objections' = Objections
    <3>1. votes' = [votes EXCEPT ![r] = "pending"] /\ votes[r] = "none"
      BY <2>2, OneVoteWritten, KeepIsNoValue DEF WillAssign, WrittenVote
    <3> QED
      BY <3>1 DEF Approvals, Objections, TypeOK
  <2> QED
    BY <2>1, <2>2
<1> QED
  BY <1>1, <1>2 DEF Lifecycle!vars

\* Deleting a draft, which carries no vote that counts, with all it has.
LEMMA DiscardCommits ==
  ASSUME IInv, NEW c \in Clients, CommitDelete(c), WillDiscard(tx[c])
  PROVE  Lifecycle!Discard /\ Assigned' = {} /\ thread'.posted = {} /\ tx'[c] = Idle
<1>1. /\ cr'.status = "deleted" /\ cr'.required = cr.required
      /\ tx'[c] = Idle
  BY DEF CommitDelete, IInv, TypeOK
<1>2. ASSUME NEW r \in Reviewers PROVE votes'[r] = "none"
  <2>1. votes'[r] = IF ForeignKeys THEN "none" ELSE WrittenVote(votes[r], tx[c].votes[r])
    BY DEF CommitDelete
  <2> QED
    BY <2>1, KeepIsNoValue DEF WillDiscard, Assigned, WrittenVote
<1>3. thread'.posted = {}
  BY DEF CommitDelete, WillDiscard, IInv, TypeOK
<1>4. Approvals = {} /\ Objections = {}
  BY DEF WillDiscard, IInv, DraftPristine, Approvals, Objections
<1>5. Approvals' = {} /\ Objections' = {} /\ Assigned' = {}
  BY <1>2 DEF Approvals, Objections, Assigned
<1> QED
  BY <1>1, <1>3, <1>4, <1>5 DEF Lifecycle!Discard, Lifecycle!Standing, WillDiscard

\* The commit of a current session is a step of the lifecycle, or none.
LEMMA CommitImplements ==
  ASSUME TypeOK, NEW c \in Clients, CommitWrites(c), Current(tx[c]), Decides(tx[c])
  PROVE  [Lifecycle!Next]_(Lifecycle!vars) /\ Exists'
<1>1. tx[c].op # "idle" /\ tx[c] # Idle /\ tx[c].op # "delete"
  BY IdleTx DEF CommitWrites
<1>2. [Lifecycle!Next]_(Lifecycle!vars)
  BY <1>1, AmendCommits, SubmitCommits, DecisionCommits, BackCommits, ObjectCommits,
     WithdrawCommits, OthersStutter DEF Current, WillDiscard,
                                         Lifecycle!Next
<1>3. Exists
  BY <1>1 DEF Current, WillAmend, WillDiscard, WillSubmit, WillDecide, WillTalk, WillBack,
              WillObject, WillAssign, WillWithdraw, Open, Exists, Status
<1>4. tx[c].status \in Status \cup {Keep}
  BY DEF TypeOK, Tx
<1>5. Exists'
  BY <1>3, <1>4, Committed DEF Exists, Column
<1> QED
  BY <1>2, <1>5

\* Creation is the first step of the lifecycle: the reviewers it assigns have
\* not voted.
LEMMA CreateImplements ==
  ASSUME IInv, CreateChangeRequest PROVE Lifecycle!Create /\ Exists'
<1>1. PICK n \in 0 .. MaxRequired, x \in Contents, chosen \in SUBSET Reviewers :
        /\ cr' = [status |-> "draft", required |-> n, content |-> x, stamps |-> {}]
        /\ votes' = [r \in Reviewers |-> IF r \in chosen THEN "pending" ELSE "none"]
  BY DEF CreateChangeRequest
<1>2. cr.status = "absent" /\ \A r \in Reviewers : votes[r] \in {"none", "pending"}
  BY DEF CreateChangeRequest, IInv, DraftPristine
<1>3. Approvals' = {} /\ Approvals = {} /\ Objections' = {} /\ Objections = {}
  BY <1>1, <1>2 DEF Approvals, Objections
<1> QED
  BY <1>1, <1>2, <1>3 DEF Lifecycle!Create, Exists, Status

-----------------------------------------------------------------------------
(* The invariant.                                                          *)

\* What a session will do stays what it is while no row changes.
LEMMA CurrentStays ==
  ASSUME NEW t, Current(t), cr' = cr, votes' = votes, thread' = thread
  PROVE  Current(t)'
<1>1. /\ WillAmend(t)' = WillAmend(t) /\ WillSubmit(t)' = WillSubmit(t)
      /\ WillTalk(t)' = WillTalk(t)
  BY DEF WillAmend, WillSubmit, WillTalk, Silent, Open, Exists, Assigned
<1>2. WillDiscard(t)' = WillDiscard(t)
  BY DEF WillDiscard, Silent, Open, Exists, Assigned
<1>3. WillDecide(t)' = WillDecide(t)
  BY DEF WillDecide, Silent, Open, Exists, Assigned, QuorumWith, Approvals, Vote
<1>4. ASSUME NEW r
      PROVE  /\ WillBack(t, r)' = WillBack(t, r) /\ WillObject(t, r)' = WillObject(t, r)
             /\ WillAssign(t, r)' = WillAssign(t, r) /\ WillWithdraw(t, r)' = WillWithdraw(t, r)
  BY DEF WillBack, WillObject, WillAssign, WillWithdraw, Silent, Open, Exists, Assigned,
         QuorumWith, Approvals, Vote
<1> QED
  BY <1>1, <1>2, <1>3, <1>4 DEF Current

\* With one client, a session that ends leaves none open.
LEMMA EndedSerial ==
  ASSUME OneAtATime, NEW c \in Clients, tx'[c] = Idle, NoOrphans'
  PROVE  Serial'
<1>1. ASSUME NEW d \in Clients PROVE tx'[d] = Idle
  BY <1>1 DEF OneAtATime
<1>2. Decides(Idle)
  BY DEF Decides, Idle
<1> QED
  BY <1>1, <1>2 DEF Serial, Current

\* Before the CR exists nothing is open.
LEMMA InitSerial == Init => Serial
<1> SUFFICES ASSUME Init PROVE Serial
  OBVIOUS
<1>1. Decides(Idle)
  BY DEF Decides, Idle
<1> QED
  BY <1>1 DEF Init, Serial, NoOrphans, Assigned, Current

\* Every step keeps the invariant and is a step of the lifecycle, or none.
LEMMA StepImplements ==
  ASSUME OneAtATime, IInv, Serial, [Next]_vars
  PROVE  Serial' /\ [Lifecycle!Next]_(Lifecycle!vars)
<1>0. TypeOK /\ NoOrphans
  BY DEF IInv, Serial
<1>1. CASE CreateChangeRequest
  <2>1. Lifecycle!Create /\ Exists' /\ tx' = tx
    BY <1>1, CreateImplements DEF CreateChangeRequest
  <2>2. ASSUME NEW c \in Clients PROVE tx[c] = Idle /\ Decides(tx[c])
    BY <1>1 DEF Serial, CreateChangeRequest, Current, WillAmend, WillDiscard, WillSubmit,
                WillDecide, WillTalk, WillBack, WillObject, WillAssign, WillWithdraw,
                Open, Exists, Status
  <2>3. Serial'
    BY <2>1, <2>2 DEF Serial, NoOrphans, Current, Decides
  <2> QED
    BY <2>1, <2>3 DEF Lifecycle!Next
<1>2. CASE \E c \in Clients : Request(c)
  <2>1. PICK c \in Clients : Request(c)
    BY <1>2
  <2>2. /\ Current(tx'[c]) /\ Decides(tx'[c])
        /\ cr' = cr /\ votes' = votes /\ thread' = thread
    BY <1>0, <2>1, HandlersRead
  <2>3. ASSUME NEW d \in Clients PROVE Current(tx[d])' /\ Decides(tx[d])'
    <3>1. tx'[d] = tx'[c]
      BY <2>3 DEF OneAtATime
    <3> QED
      BY <2>2, <3>1, CurrentStays DEF Decides
  <2>4. NoOrphans'
    BY <1>0, <2>2 DEF NoOrphans, Exists, Assigned
  <2>5. UNCHANGED Lifecycle!vars
    BY <2>2 DEF Lifecycle!vars, Approvals, Objections
  <2> QED
    BY <2>3, <2>4, <2>5 DEF Serial
<1>3. CASE \E c \in Clients : CommitDelete(c)
  <2>1. PICK c \in Clients : CommitDelete(c)
    BY <1>3
  <2>2. tx[c].op = "delete" /\ Current(tx[c])
    BY <2>1 DEF CommitDelete, Serial
  <2>3. WillDiscard(tx[c])
    BY <2>2, IdleTx DEF Current, WillAmend, WillSubmit, WillDecide, WillTalk, WillBack,
                        WillObject, WillAssign, WillWithdraw
  <2>4. Lifecycle!Discard /\ Assigned' = {} /\ thread'.posted = {} /\ tx'[c] = Idle
    BY <2>1, <2>3, DiscardCommits
  <2> QED
    BY <2>4, EndedSerial DEF NoOrphans, Lifecycle!Next
<1>4. CASE \E c \in Clients : CommitWrites(c)
  <2>1. PICK c \in Clients : CommitWrites(c)
    BY <1>4
  <2>2. [Lifecycle!Next]_(Lifecycle!vars) /\ Exists'
    BY <1>0, <2>1, CommitImplements DEF Serial
  <2>3. tx'[c] = Idle
    BY <1>0, <2>1, Committed
  <2> QED
    BY <2>2, <2>3, EndedSerial DEF NoOrphans
<1>5. CASE \E c \in Clients : Rollback(c)
  <2>1. PICK c \in Clients : Rollback(c)
    BY <1>5
  <2>2. tx'[c] = Idle /\ cr' = cr /\ votes' = votes /\ thread' = thread
    BY <1>0, <2>1 DEF Rollback, TypeOK
  <2>3. NoOrphans' /\ UNCHANGED Lifecycle!vars
    BY <1>0, <2>2 DEF NoOrphans, Exists, Assigned, Lifecycle!vars, Approvals, Objections
  <2> QED
    BY <2>2, <2>3, EndedSerial
<1>6. CASE UNCHANGED vars
  <2>1. cr' = cr /\ votes' = votes /\ thread' = thread /\ tx' = tx
    BY <1>6 DEF vars
  <2>2. NoOrphans' /\ UNCHANGED Lifecycle!vars
    BY <1>0, <2>1 DEF NoOrphans, Exists, Assigned, Lifecycle!vars, Approvals, Objections
  <2>3. ASSUME NEW c \in Clients PROVE Current(tx[c])' /\ Decides(tx[c])'
    BY <2>1, CurrentStays DEF Serial, Decides
  <2> QED
    BY <2>2, <2>3 DEF Serial
<1> QED
  BY <1>1, <1>2, <1>3, <1>4, <1>5, <1>6 DEF Next

-----------------------------------------------------------------------------
(* The theorems about requests that do not overlap.                        *)

\* An open session would do to the rows as they are what its handler decided.
LEMMA SerialInvariance == ASSUME OneAtATime PROVE Spec => [](IInv /\ Serial)
<1>1. IInv /\ Serial /\ [Next]_vars => Serial'
  BY StepImplements
<1> QED
  BY <1>1, InitSerial, Invariance, PTL DEF Spec

\* Every step of Spec is a step of the lifecycle, or none.
LEMMA LifecycleSteps ==
  ASSUME OneAtATime PROVE Spec => [][Lifecycle!Next]_(Lifecycle!vars)
<1>1. IInv /\ Serial /\ [Next]_vars => [Lifecycle!Next]_(Lifecycle!vars)
  BY StepImplements
<1> QED
  BY <1>1, SerialInvariance, PTL DEF Spec

\* Requests that read in one step and write in another implement the atomic
\* review lifecycle, for every number of reviewers.
THEOREM LifecycleImplemented == ASSUME OneAtATime PROVE Spec => ImplementsLifecycle
<1>1. Init => Lifecycle!Init
  BY DEF Init, Lifecycle!Init, Approvals, Objections
<1> QED
  BY <1>1, LifecycleSteps, PTL DEF Spec, ImplementsLifecycle,
                                  Lifecycle!Spec

\* A standing request for changes keeps the CR from being under review,
\* approved or merged: submit wipes the votes, reviewer_reject sends it back.
THEOREM ObjectionsBlock == ASSUME OneAtATime PROVE Spec => []ObjectionBlocks
<1>1. Init => ObjectionBlocks
  BY DEF Init, ObjectionBlocks, Objections
<1>2. ObjectionBlocks /\ [Lifecycle!Next]_(Lifecycle!vars) => ObjectionBlocks'
  BY DEF ObjectionBlocks, Lifecycle!Next, Lifecycle!vars,
         Lifecycle!Create, Lifecycle!Amend, Lifecycle!AmendLate, Lifecycle!MoveBar,
         Lifecycle!Discard, Lifecycle!Submit, Lifecycle!Resubmit, Lifecycle!Restart,
         Lifecycle!Approve,
         Lifecycle!Reject, Lifecycle!Back, Lifecycle!Object, Lifecycle!Withdraw,
         Lifecycle!Merge, Lifecycle!Close, Lifecycle!Standing
<1> QED
  BY <1>1, <1>2, LifecycleSteps, PTL DEF Spec

\* A new approval of a submitted CR approves it if it completes the quorum and
\* leaves it under review if it does not, however many reviewers share it.
THEOREM QuorumIsHonoured == ASSUME OneAtATime PROVE Spec => QuorumApproves
<1> DEFINE Honoured ==
      cr.status = "submitted" /\ Approvals' \ Approvals # {}
      => cr'.status = IF Cardinality(Approvals') >= cr'.required
                      THEN "approved" ELSE "submitted"
<1>1. [Lifecycle!Next]_(Lifecycle!vars) => Honoured
  <2> SUFFICES ASSUME [Lifecycle!Next]_(Lifecycle!vars), cr.status = "submitted",
                      Approvals' \ Approvals # {}
               PROVE  cr'.status = IF Cardinality(Approvals') >= cr'.required
                                   THEN "approved" ELSE "submitted"
    OBVIOUS
  <2>1. PICK r \in Reviewers : Lifecycle!Back(r)
    BY DEF Lifecycle!Next, Lifecycle!vars, Lifecycle!Create,
           Lifecycle!Amend, Lifecycle!AmendLate, Lifecycle!MoveBar, Lifecycle!Discard,
           Lifecycle!Submit, Lifecycle!Resubmit, Lifecycle!Restart, Lifecycle!Approve,
           Lifecycle!Reject, Lifecycle!Object, Lifecycle!Withdraw, Lifecycle!Merge,
           Lifecycle!Close, Lifecycle!Standing
  <2> QED
    BY <2>1, SameCount DEF Lifecycle!Back
<1>2. [Lifecycle!Next]_(Lifecycle!vars) => [Honoured]_vars
  BY <1>1
<1>3. [][Lifecycle!Next]_(Lifecycle!vars) /\ [][Next]_vars => [][Honoured]_vars
  BY <1>2, PTL
<1> QED
  BY <1>3, LifecycleSteps, PTL DEF Spec, QuorumApproves

\* Whatever a session may still do to a merged CR leaves its row alone.
LEMMA MergedRowStays ==
  ASSUME IInv, Serial, [Next]_vars, cr.status = "merged"
  PROVE  cr' = cr
<1>0. TypeOK /\ NoOrphans
  BY DEF IInv, Serial
<1>1. CASE \E c \in Clients : Request(c)
  BY <1>0, <1>1, HandlersRead
<1>2. CASE \E c \in Clients : CommitDelete(c)
  <2>1. PICK c \in Clients : tx[c].op = "delete"
    BY <1>2 DEF CommitDelete
  <2> QED
    BY <2>1, IdleTx DEF Serial, Current, WillAmend, WillDiscard, WillSubmit, WillDecide,
                        WillTalk, WillBack, WillObject, WillAssign, WillWithdraw
<1>3. CASE \E c \in Clients : CommitWrites(c)
  <2>1. PICK c \in Clients : CommitWrites(c)
    BY <1>3
  <2>2. tx[c].op # "idle"
    BY <2>1 DEF CommitWrites
  <2>3. tx[c].op # "update" /\ tx[c].status = Keep
    BY <2>2, IdleTx
       DEF Serial, Current, WillAmend, WillDiscard, WillSubmit, WillDecide, WillTalk,
           WillBack, WillObject, WillAssign, WillWithdraw, Silent, Open
  <2>4. tx[c].required = Keep /\ tx[c].content = Keep /\ tx[c].stamp = Keep
    BY <2>3 DEF Serial, Decides, IInv, TxEvidence
  <2>5. cr' = [status |-> cr.status, required |-> cr.required, content |-> cr.content,
               stamps |-> cr.stamps]
    BY <2>1, <2>3, <2>4 DEF CommitWrites, Column
  <2> QED
    BY <1>0, <2>5 DEF TypeOK
<1> QED
  BY <1>1, <1>2, <1>3 DEF Next, vars, CreateChangeRequest, Rollback

\* What was merged stays as it was merged: no later request that reads it as
\* merged writes its status, its changes or its required_approvers.
THEOREM MergedStays == ASSUME OneAtATime PROVE Spec => MergedIsFrozen
<1>1. IInv /\ Serial /\ [Next]_vars => [cr.status = "merged" => cr' = cr]_vars
  BY MergedRowStays
<1> QED
  BY <1>1, SerialInvariance, PTL DEF Spec, MergedIsFrozen

-----------------------------------------------------------------------------
(* Rows that outlive their CR.                                             *)

\* Only an assignment inserts a reviewer row.
Inserts(t) == (\E r \in Reviewers : t.votes[r] = "insert") => t.op = "assign"

\* Every session a handler opens does.
LEMMA CurrentInserts == ASSUME NEW t, Current(t) PROVE Inserts(t)
<1> SUFFICES ASSUME NEW r \in Reviewers, t.votes[r] = "insert" PROVE t.op = "assign"
  BY DEF Inserts
<1>1. Idle.votes[r] = Keep /\ NoVotes[r] = Keep
  BY DEF Idle, NoVotes
<1>2. ASSUME NEW q \in Reviewers, NEW v, t.votes = [NoVotes EXCEPT ![q] = v]
      PROVE  v = "insert"
  BY <1>2, <1>1, KeepIsNoValue DEF NoVotes
<1>3. ~Silent(t) /\ t # Idle /\ t.votes # NoVotes
  BY <1>1, KeepIsNoValue DEF Silent
<1>4. ~WillDiscard(t) /\ ~WillSubmit(t)
  BY KeepIsNoValue DEF WillDiscard, WillSubmit, Assign, Assigned
<1>5. ASSUME NEW q \in Reviewers
      PROVE  ~WillBack(t, q) /\ ~WillObject(t, q) /\ ~WillWithdraw(t, q)
  BY <1>2 DEF WillBack, WillObject, WillWithdraw, Vote
<1> QED
  BY <1>3, <1>4, <1>5 DEF Current, WillAmend, WillDecide, WillTalk, WillAssign

\* With foreign keys a commit on a CR that is gone adds nothing to it, and one
\* that deletes the CR takes everything along.
LEMMA StepOrphansNothing ==
  ASSUME ForeignKeys, IInv, NoOrphans, \A c \in Clients : Inserts(tx[c]), [Next]_vars
  PROVE  NoOrphans' /\ \A c \in Clients : Inserts(tx[c])'
<1>0. TypeOK
  BY DEF IInv
<1>1. Inserts(Idle)
  BY CurrentInserts DEF Current
<1>2. CASE CreateChangeRequest
  <2>1. Exists' /\ tx' = tx
    BY <1>2, CreateImplements DEF CreateChangeRequest
  <2> QED
    BY <2>1 DEF NoOrphans, Inserts
<1>3. CASE \E c \in Clients : Request(c)
  <2>1. PICK c \in Clients : Request(c)
    BY <1>3
  <2>2. Current(tx'[c]) /\ cr' = cr /\ votes' = votes /\ thread' = thread
    BY <1>0, <2>1, HandlersRead
  <2>3. ASSUME NEW d \in Clients PROVE Inserts(tx[d])'
    <3>1. tx'[d] = tx[d] \/ d = c
      BY <1>0, <2>1 DEF Request, Begin, TypeOK, UpdateChangeRequest, DeleteChangeRequest,
         SubmitChangeRequest, ApproveChangeRequest, RejectChangeRequest,
         CloseChangeRequest, MergeChangeRequest, AssignReviewer, RemoveReviewer,
         ReviewerApprove, ReviewerReject, CreateComment, DeleteComment
    <3> QED
      BY <2>2, <3>1, CurrentInserts DEF Inserts
  <2> QED
    BY <2>2, <2>3 DEF NoOrphans, Exists, Assigned
<1>4. ASSUME NEW c \in Clients, tx' = [tx EXCEPT ![c] = Idle]
      PROVE  \A d \in Clients : Inserts(tx[d])'
  BY <1>0, <1>1, <1>4 DEF TypeOK, Inserts
<1>5. CASE \E c \in Clients : CommitDelete(c)
  <2>1. PICK c \in Clients : CommitDelete(c)
    BY <1>5
  <2>2. Assigned' = {} /\ thread'.posted = {} /\ tx' = [tx EXCEPT ![c] = Idle]
    BY <1>0, <2>1 DEF CommitDelete, Assigned, TypeOK
  <2> QED
    BY <1>4, <2>2 DEF NoOrphans
<1>6. CASE \E c \in Clients : CommitWrites(c)
  <2>1. PICK c \in Clients : CommitWrites(c)
    BY <1>6
  <2>2. tx' = [tx EXCEPT ![c] = Idle] /\ Accepted(tx[c]) /\ tx[c] \in Tx
    BY <1>0, <2>1 DEF CommitWrites, TypeOK
  <2>3. CASE Exists
    <3>1. Exists'
      BY <1>0, <2>1, <2>2, <2>3, Committed DEF Exists, Column, Tx
    <3> QED
      BY <1>4, <2>2, <3>1 DEF NoOrphans
  <2>4. CASE ~Exists
    <3>1. Assigned = {} /\ thread.posted = {}
      BY <2>4 DEF NoOrphans
    <3>2. tx[c].op \notin {"assign", "comment"}
      BY <2>2, <2>4 DEF Accepted
    <3>3. ASSUME NEW r \in Reviewers PROVE votes'[r] = "none"
      <4>1. votes'[r] = WrittenVote(votes[r], tx[c].votes[r]) /\ votes[r] = "none"
        BY <2>1, <3>1 DEF CommitWrites, Assigned
      <4>2. tx[c].votes[r] # "insert"
        BY <3>2 DEF Inserts
      <4>3. tx[c].votes[r] \in {Keep, "remove"}
        BY <2>2, <4>1, <4>2 DEF Accepted
      <4> QED
        BY <4>1, <4>3, KeepIsNoValue DEF WrittenVote
    <3>4. thread'.posted = thread.posted
      BY <1>0, <2>1, <3>2 DEF CommitWrites, TypeOK
    <3> QED
      BY <1>4, <2>2, <3>1, <3>3, <3>4 DEF NoOrphans, Assigned
  <2> QED
    BY <2>3, <2>4
<1>7. CASE \E c \in Clients : Rollback(c)
  BY <1>4, <1>7 DEF Rollback, NoOrphans, Exists, Assigned
<1>8. CASE UNCHANGED vars
  BY <1>8 DEF vars, NoOrphans, Exists, Assigned, Inserts
<1> QED
  BY <1>2, <1>3, <1>5, <1>6, <1>7, <1>8 DEF Next

\* No reviewer row and no comment outlives the CR: on PostgreSQL however
\* requests overlap, on SQLite, which is opened without foreign keys, as long
\* as they do not.
THEOREM NothingOrphaned ==
  ASSUME ForeignKeys \/ OneAtATime PROVE Spec => []NoOrphans
<1>1. CASE ForeignKeys
  <2> DEFINE Kept == NoOrphans /\ \A c \in Clients : Inserts(tx[c])
  <2>1. Init => Kept
    BY InitSerial, CurrentInserts DEF Serial
  <2>2. IInv /\ Kept /\ [Next]_vars => Kept'
    BY <1>1, StepOrphansNothing
  <2>3. Kept => NoOrphans
    OBVIOUS
  <2> QED
    BY <2>1, <2>2, <2>3, Invariance, PTL DEF Spec
<1>2. CASE OneAtATime
  <2>1. Serial => NoOrphans
    BY DEF Serial
  <2> QED
    BY <1>2, <2>1, SerialInvariance, PTL
<1> QED
  BY <1>1, <1>2
=============================================================================
