---------------------------- MODULE EvidenceReview ----------------------------
(***************************************************************************)
(* Data sources, the evidence found in them, the proposals generated from  *)
(* it or made by a client, and the decisions about those (api/sources.py,  *)
(* api/candidates.py, services/candidates.py, api/proposals.py).           *)
(*                                                                         *)
(* Endpoints of sources and evidence are authenticated, those of proposals *)
(* are not.  The rows are those of one project.  The classification of a   *)
(* field is left open; files, snapshots, statistics and the cache, whose   *)
(* content is read and not used, are left out.                             *)
(***************************************************************************)
EXTENDS AuditedMembers

CONSTANTS
  Fields, ClassIris,   \* a generated class IRI is not one of ClassIris
  NoUuid               \* a source that a client names by something else than an id

ASSUME FieldsAssumption == IsFiniteSet(Fields)
ASSUME NoUuidAssumption == NoUuid \notin Nat \cup {None}

Verdicts == {"accept", "reject", "merge", "defer"}   \* any string is taken
StatusAfter(verdict) ==
  CASE verdict = "accept" -> "ACCEPTED" [] verdict = "reject" -> "REJECTED"
    [] verdict = "merge" -> "MERGED" [] OTHER -> "PENDING"

Source(fields) == [table |-> "source", fields |-> fields]

\* by is the decision that confirmed it; None for a user or nobody.
Evidence(s, f) ==
  [table |-> "evidence", source |-> s, field |-> f, iri |-> None, confirmed |-> FALSE,
   by |-> None]

\* The content names a field and a class and, later, what has been confirmed.
Naming(f, iri) == [field |-> f, iri |-> iri, confirmed |-> {}]

\* The context may name a field, too, and goes before the content.
Proposal(s, project, context, content) ==
  [table |-> "proposal", source |-> s, project |-> project, context |-> context,
   status |-> "PENDING", content |-> content]

\* A generated proposal belongs to the project; a profiled one has a context.
Generated(s, f, context) == Proposal(s, TRUE, context, Naming(f, "suggested"))

FieldOf(p) == IF p.context # None THEN p.context ELSE p.content.field

EvidenceOf(s) == {e \in Rows("evidence") : db[e].source = s}

\* The plan p with a new row for each of rows, in any order.
AndAll(p, rows) ==
  LET last == Max({made} \cup DOMAIN p.insert)
      order == CHOOSE f \in [last + 1 .. last + Cardinality(rows) -> rows] : Range(f) = rows
  IN [p EXCEPT !.insert = Over(@, order)]

SetAll(ids, columns) == [NoPlan EXCEPT !.update = [i \in ids |-> columns]]

-----------------------------------------------------------------------------
(* Sources and evidence.                                                   *)

CreateSource(r) == BeginLocked(r, AndEntry(New(Source({})), "create"), Done)

UploadSource(r) ==
  \E fields \in SUBSET Fields, auto \in BOOLEAN :
    LET found == IF auto THEN {Evidence(made + 1, f) : f \in fields} ELSE {}
    IN BeginLocked(r, AndNew(AndAll(New(Source(fields)), found),
                             AuditEntry(made + 1, "create")), Done)

UpdateSource(r) ==
  \E s \in Rows("source") : BeginLocked(r, New(AuditEntry(s, "update")), Done)

DeleteSource(r) ==
  \E s \in Rows("source") :
    LET runs == {p \in Rows("profiling") : db[p].source = s}
    IN BeginLocked(r, And(Drop({s} \cup EvidenceOf(s) \cup runs),
                          New(AuditEntry(s, "delete"))), Done)

CreateEvidence(r) ==
  \E s \in Rows("source"), f \in Fields \cup {None}, iri \in ClassIris \cup {None} :
    BeginLocked(r, AndEntry(New([Evidence(s, f) EXCEPT !.iri = iri]), "create"), Done)

Aligned(iri) == [iri |-> iri, confirmed |-> TRUE, by |-> None]
Rejected == [iri |-> None, confirmed |-> FALSE, by |-> None]

AlignEvidence(r) ==
  \E e \in Rows("evidence"), iri \in ClassIris :
    BeginLocked(r, And(Set(e, Aligned(iri)), New(AuditEntry(None, "align"))), Done)

RejectEvidence(r) ==
  \E e \in Rows("evidence") :
    BeginLocked(r, And(Set(e, Rejected), New(AuditEntry(None, "reject"))), Done)

\* Any number of them, with one entry.
BulkConfirm(r) ==
  \E ids \in SUBSET Rows("evidence"), iri \in ClassIris :
    BeginLocked(r, And(SetAll(ids, Aligned(iri)), New(AuditEntry(None, "align"))), Done)

BulkReject(r) ==
  \E ids \in SUBSET Rows("evidence") :
    BeginLocked(r, And(SetAll(ids, Rejected), New(AuditEntry(None, "reject"))), Done)

CreateProfilingRun(r) ==
  \E s \in Rows("source") :
    BeginLocked(r, AndEntry(New([table |-> "profiling", source |-> s, status |-> "pending"]),
                            "create"), Done)

\* The newest run of the source is completed.
ExecuteProfiling(r) ==
  \E s \in Rows("source") :
    LET runs == {p \in Rows("profiling") : db[p].source = s}
    IN /\ db[s].fields # {}
       /\ BeginLocked(r, IF runs = {} THEN NoPlan ELSE Set(Max(runs), [status |-> "completed"]),
                      Done)

-----------------------------------------------------------------------------
(* Proposals.                                                              *)

\* Fields that are aligned already, or that have a proposal, get one again.
FromProfiling(s, fields) == AndAll(NoPlan, {Generated(s, f, f) : f \in fields})

GenerateFromProfiling(r) ==
  \E s \in Rows("source") :
    \E fields \in SUBSET db[s].fields : Begin(r, FromProfiling(s, fields), Done)

NameOf(e) == IF db[e].field = None THEN "unknown" ELSE db[e].field

\* One for each field, with the source of its first evidence.
FromEvidence ==
  LET open == {e \in Rows("evidence") : ~db[e].confirmed /\ db[e].iri = None}
      first(f) == Min({e \in open : NameOf(e) = f})
  IN AndAll(NoPlan, {Generated(db[first(f)].source, f, None) : f \in {NameOf(e) : e \in open}})

GenerateFromEvidence(r) == Begin(r, FromEvidence, Done)

\* The client chooses what the proposal is about, and need not name a source, a
\* project, a field or a class.
CreateProposal(r) ==
  \E s \in Rows("source") \cup {None, NoUuid}, project \in BOOLEAN,
     f \in Fields \cup {None}, iri \in ClassIris \cup {None} :
    \E context \in {None, f} :
      Begin(r, New(Proposal(s, project, context, Naming(f, iri))), Done)

\* The client replaces the content.
UpdateProposal(r) ==
  \E p \in Rows("proposal"), f \in Fields \cup {None}, iri \in ClassIris \cup {None} :
    /\ db[p].status = "PENDING"
    /\ Begin(r, Set(p, [content |-> Naming(f, iri)]), Done)

DeleteProposal(r) ==
  \E p \in Rows("proposal") :
    /\ db[p].status = "PENDING"
    /\ Begin(r, Drop({p} \cup {d \in Rows("decision") : db[d].proposal = p}), Done)

\* The request keeps the proposal as it has read it here.
CreateDecision(r) ==
  \E p \in Rows("proposal"), v \in Verdicts :
    /\ db[p].status = "PENDING"
    /\ Begin(r, And(Set(p, [status |-> StatusAfter(v)]),
                    New([table |-> "decision", proposal |-> p, verdict |-> v])),
             <<"decide", p, v, made + 1, db[p]>>)

DecisionFlushes(r) ==
  LET job == session[r].job
  IN job[1] = "decide" /\ Flush(r, [job EXCEPT ![1] = "confirm"])

\* Evidence of the proposal's source and field, or of the source if no field is
\* named.  A source that is no id does not narrow the search; with no field either,
\* it takes all evidence of the project.  Without a source nothing is confirmed.
Matched(p) ==
  {e \in Rows("evidence") :
     /\ p.source # None /\ p.source \in {NoUuid, db[e].source}
     /\ FieldOf(p) \in {None, db[e].field}
     /\ p.source = NoUuid /\ FieldOf(p) = None => p.project}

\* The entry about a confirmation is not made by record_audit: it has no hash.  It
\* goes into the chain of the proposal's project.
Confirmation(e) ==
  [table |-> "audit", prev |-> None, hashed |-> FALSE, target |-> e, after |-> "confirm"]

DecisionConfirms(r) ==
  LET job == session[r].job
      p == job[5]
      ids == Matched(p)
      noted == IF p.project THEN ids ELSE {}
      iri(e) == IF p.content.iri = None THEN db[e].iri ELSE p.content.iri
      confirmed == [NoPlan EXCEPT !.update =
                      [e \in ids |-> [iri |-> iri(e), confirmed |-> TRUE, by |-> job[4]]]]
      report == [status |-> "ACCEPTED", content |-> [p.content EXCEPT !.confirmed = ids]]
  IN /\ job[1] = "confirm"
     /\ IF job[3] = "accept" /\ ids # {}
        THEN Continue(r, AndAll(And(SetAll({job[2]}, report), And(confirmed, session[r].plan)),
                                {Confirmation(e) : e \in noted}), Done)
        ELSE Continue(r, session[r].plan, Done)

\* Wrong: proposals that are not pending are not skipped.
BatchReviewAll(r) ==
  \E ps \in SUBSET Rows("proposal"), v \in {"accept", "reject"} :
    Begin(r, SetAll(ps, [status |-> StatusAfter(v)]), Done)

\* No decision is kept and no evidence confirmed.
BatchReviewProposals(r) ==
  \E ps \in SUBSET {p \in Rows("proposal") : db[p].status = "PENDING"},
     v \in {"accept", "reject"} :
    Begin(r, SetAll(ps, [status |-> StatusAfter(v)]), Done)

-----------------------------------------------------------------------------
SourceRequest(r) ==
  \/ CreateSource(r) \/ UploadSource(r) \/ UpdateSource(r) \/ DeleteSource(r)
  \/ CreateEvidence(r) \/ AlignEvidence(r) \/ RejectEvidence(r)
  \/ BulkConfirm(r) \/ BulkReject(r)
  \/ CreateProfilingRun(r) \/ ExecuteProfiling(r)

ProposalRequest(r) ==
  \/ GenerateFromProfiling(r) \/ GenerateFromEvidence(r) \/ CreateProposal(r)
  \/ UpdateProposal(r) \/ DeleteProposal(r) \/ BatchReviewProposals(r)
  \/ CreateDecision(r)

ProposalStep(r) == DecisionFlushes(r) \/ DecisionConfirms(r)

EvidenceRow(row) ==
  \/ row.table = "source" /\ row.fields \subseteq Fields
  \/ row.table = "evidence" /\ row.field \in Fields \cup {None} /\ row.confirmed \in BOOLEAN
  \/ row.table = "profiling" /\ row.status \in {"pending", "completed"}
  \/ row.table = "proposal" /\ row.status \in {StatusAfter(v) : v \in Verdicts}
  \/ row.table = "decision" /\ row.verdict \in Verdicts

\* With one client at a time a decision stands: its proposal has the status it
\* gave, no other decision follows it, and the evidence that it confirmed can be
\* traced both ways, from the evidence to an accepted proposal and from the
\* proposal to the evidence.  (Two reviewers at a time can both decide.)
DecisionsStand ==
  ~overlap =>
    /\ \A d \in Rows("decision") :
         StatusAfter(db[d].verdict) # "PENDING" =>
           /\ db[d].proposal \in DOMAIN db
           /\ db[db[d].proposal].status = StatusAfter(db[d].verdict)
           /\ \A other \in Rows("decision") : db[other].proposal = db[d].proposal => other <= d
    /\ \A e \in Rows("evidence") :
         db[e].by # None =>
           /\ db[db[e].by].verdict = "accept"
           /\ e \in db[db[db[e].by].proposal].content.confirmed

\* Every entry extends the project's hash chain, as the developer guide asks of
\* every endpoint that changes something: here, also those that a decision about a
\* proposal makes.
EvidenceChainVerifies == scenario.uses = "evidence" /\ ~overlap => ChainIsIntact
=============================================================================
