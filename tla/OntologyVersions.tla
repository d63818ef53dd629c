-------------------------- MODULE OntologyVersions --------------------------
(***************************************************************************)
(* Ontologies, their content, versions and forks (api/ontologies.py).      *)
(*                                                                         *)
(* No endpoint here needs a login, so none holds the writer lock before it *)
(* writes.  Classes, properties, relations and constraints are rows of one *)
(* shape: iri, ref (the IRI they point at: parent, domain, source or       *)
(* target), link (the id that goes with it) and rev, which stands for the  *)
(* texts that can be edited and, of a constraint, is its severity.  An IRI *)
(* is a pair of a namespace and a local name.  Ids of range classes,       *)
(* counters and is_locked, which no code sets, are left out.               *)
(***************************************************************************)
EXTENDS DatabaseSession

CONSTANTS Namespaces, LocalNames, Labels

Content == {"class", "property", "relation", "constraint"}
OntologyStatus == {"DRAFT", "PUBLISHED", "DEPRECATED", "ARCHIVED"}

Iris == Namespaces \X LocalNames
Revs(table) == IF table = "constraint" THEN {"violation", "warning"} ELSE {0, 1}

Ontology(ns, head) ==
  [table |-> "ontology", ns |-> ns, head |-> head, status |-> "DRAFT", rev |-> 0]

Element(table, o, iri, ref, link, rev) ==
  [table |-> table, onto |-> o, iri |-> iri, ref |-> ref, link |-> link, rev |-> rev]

Version(o, label, status, at, snapshot, base) ==
  [table |-> "version", onto |-> o, label |-> label, status |-> status,
   at |-> at, snapshot |-> snapshot, base |-> base]

Of(o, table) == {i \in Rows(table) : db[i].onto = o}
Elements(o) == UNION {Of(o, t) : t \in Content}

\* A snapshot holds what an element says, not its row.
Entry(e) == [table |-> e.table, iri |-> e.iri, ref |-> e.ref, rev |-> e.rev]
Snapshot(ids) == {Entry(db[i]) : i \in ids}

\* The class of o that an IRI names, if there is one.
ClassNamed(o, iri) ==
  LET named == {c \in Of(o, "class") : db[c].iri = iri}
  IN IF named = {} THEN None ELSE CHOOSE c \in named : TRUE

-----------------------------------------------------------------------------
(* Ontologies.                                                             *)

CreateOntology(r) ==
  \E ns \in Namespaces : Begin(r, New(Ontology(ns, None)), Done)

UpdateOntology(r) ==
  \E o \in Rows("ontology") :
    /\ db[o].status # "PUBLISHED"
    /\ Begin(r, Set(o, [rev |-> 1]), Done)

UpdateOntologyStatus(r) ==
  \E o \in Rows("ontology"), s \in OntologyStatus :
    Begin(r, Set(o, [status |-> s]), Done)

\* Wrong: only the row itself is deleted.
Alone(ids) == ids

\* What the ORM deletes with a class or property: by domain_id,
\* ontology_class_id and property_id.
Attached(ids) == ids \cup {i \in DOMAIN db : db[i].table \in Content /\ db[i].link \in ids}
WithDependents(ids) == Attached(Attached(ids))

\* Constraints that are attached to nothing stay behind.
DeleteOntology(r) ==
  \E o \in Rows("ontology") :
    /\ db[o].status = "DRAFT"
    /\ Begin(r, Drop({o} \cup Of(o, "version")
                     \cup WithDependents(Elements(o) \ Of(o, "constraint"))), Done)

-----------------------------------------------------------------------------
(* Content.  The status of the ontology is not looked at.                  *)

CreateClass(r) ==
  \E o \in Rows("ontology"), iri \in Iris, parent \in Iris \cup {None} :
    /\ ClassNamed(o, iri) = None
    /\ Begin(r, New(Element("class", o, iri, parent, None, 0)), Done)

CreateProperty(r) ==
  \E o \in Rows("ontology"), iri \in Iris, domain \in Iris \cup {None} :
    /\ \A p \in Rows("property") : db[p].iri # iri
    /\ Begin(r, New(Element("property", o, iri, domain, ClassNamed(o, domain), 0)), Done)

CreateRelation(r) ==
  \E o \in Rows("ontology"), iri \in Iris, source \in Iris :
    Begin(r, New(Element("relation", o, iri, source, None, 0)), Done)

CreateConstraint(r) ==
  \E o \in Rows("ontology"), s \in Revs("constraint"), target \in Iris :
    \E of \in {None} \cup Of(o, "class") \cup Of(o, "property") :
      Begin(r, New(Element("constraint", o, None, target, of, s)), Done)

Edit(r, table) ==
  \E i \in Rows(table) :
    \E rev \in Revs(table) \ {db[i].rev} : Begin(r, Set(i, [rev |-> rev]), Done)

\* Relations cannot be updated.
UpdateClass(r) == Edit(r, "class")
UpdateProperty(r) == Edit(r, "property")
UpdateConstraint(r) == Edit(r, "constraint")

Delete(r, table) ==
  \E i \in Rows(table) : Begin(r, Drop(WithDependents({i})), Done)

DeleteClass(r) == Delete(r, "class")
DeleteProperty(r) == Delete(r, "property")
DeleteRelation(r) == Delete(r, "relation")
DeleteConstraint(r) == Delete(r, "constraint")

-----------------------------------------------------------------------------
(* Publishing the content.  The ontology and the number of violations, the *)
(* classes, and the rest are read by separate statements.                  *)

PublishOntology(r) ==
  \E o \in Rows("ontology"), label \in Labels :
    /\ db[o].status \notin {"PUBLISHED", "ARCHIVED"}
    /\ \A c \in Of(o, "constraint") : db[c].rev # "violation"
    /\ Begin(r, Set(o, [head |-> label, status |-> "PUBLISHED"]), <<"publish", o, label>>)

\* Wrong: the ontology's row is committed before its version exists.
PublishCommitsHead(r) ==
  LET job == session[r].job IN
  /\ job[1] = "publish"
  /\ CommitAndGoOn(r, <<"publish rest", job[2], job[3], Snapshot(Of(job[2], "class"))>>)

PublishReadsClasses(r) ==
  LET job == session[r].job IN
  /\ job[1] = "publish"
  /\ Continue(r, session[r].plan,
              <<"publish rest", job[2], job[3], Snapshot(Of(job[2], "class"))>>)

PublishReadsRest(r) ==
  LET job == session[r].job
      rest == Elements(job[2]) \ Of(job[2], "class")
      version == Version(job[2], job[3], "PUBLISHED", made,
                         job[4] \cup Snapshot(rest), None)
  IN /\ job[1] = "publish rest"
     /\ Continue(r, AndNew(session[r].plan, version), Done)

-----------------------------------------------------------------------------
(* Forks.  The row of the new ontology is flushed before the content of    *)
(* the source is read.                                                     *)

ForkIri(iri, ns) == IF iri = None THEN None ELSE <<ns, iri[2]>>

\* The parent of a class keeps its IRI, and no link is carried over.
Forked(e, o, ns) ==
  [e EXCEPT !.onto = o, !.iri = ForkIri(@, ns), !.link = None,
            !.ref = IF e.table = "class" THEN @ ELSE ForkIri(@, ns)]

Copies(ids, o, ns) ==
  [NoPlan EXCEPT !.insert = [i \in {made + j : j \in ids} |-> Forked(db[i - made], o, ns)]]

ForkOntology(r) ==
  \E src \in Rows("ontology"), ns \in Namespaces, tag \in Labels :
    Begin(r, New(Ontology(ns, tag)), <<"fork", src, made + 1>>)

\* Wrong: the new ontology is not written before the source is read.
ForkUnlocked(r) ==
  /\ session[r].job[1] = "fork"
  /\ Continue(r, session[r].plan, [session[r].job EXCEPT ![1] = "copy"])

ForkFlushes(r) ==
  /\ session[r].job[1] = "fork"
  /\ Flush(r, [session[r].job EXCEPT ![1] = "copy"])

ForkCopiesClasses(r) ==
  LET job == session[r].job
      p == session[r].plan
      classes == Of(job[2], "class")
  IN /\ job[1] = "copy"
     /\ Continue(r, And(p, Copies(classes, job[3], p.insert[job[3]].ns)),
                 <<"copy rest", job[2], job[3], Snapshot(classes)>>)

\* The snapshot keeps the IRIs of the source.
ForkCopiesRest(r) ==
  LET job == session[r].job
      p == session[r].plan
      fork == p.insert[job[3]]
      rest == Elements(job[2]) \ Of(job[2], "class")
      version == Version(job[3], fork.head, "DRAFT", None,
                         job[4] \cup Snapshot(rest), job[2])
  IN /\ job[1] = "copy rest"
     /\ Continue(r, AndNew(And(p, Copies(rest, job[3], fork.ns)), version), Done)

-----------------------------------------------------------------------------
(* Versions.                                                               *)

\* The published versions of o with the latest time.
Latest(o) ==
  LET published == {v \in Of(o, "version") : db[v].status = "PUBLISHED"}
  IN {v \in published : \A w \in published : db[w].at <= db[v].at}

CreateDraftVersion(r) ==
  \E o \in Rows("ontology"), label \in Labels :
    \/ /\ Latest(o) = {}
       /\ Begin(r, New(Version(o, label, "DRAFT", None, {}, None)), Done)
    \/ \E parent \in Latest(o) :
         Begin(r, New(Version(o, label, "DRAFT", None, db[parent].snapshot, parent)), Done)

\* The client's snapshot replaces the whole one.
UpdateVersionContent(r) ==
  \E v \in Rows("version") :
    /\ db[v].status = "DRAFT"
    /\ Begin(r, Set(v, [snapshot |-> {}]), Done)

\* Wrong: the time of publication is that of the draft's creation.
PublishVersionUnstamped(r) ==
  \E v \in Rows("version") :
    /\ db[v].onto \in Rows("ontology")
    /\ db[v].status = "DRAFT"
    /\ Begin(r, And(Set(v, [status |-> "PUBLISHED", at |-> v]),
                    Set(db[v].onto, [head |-> db[v].label, status |-> "PUBLISHED"])), Done)

\* The state of the ontology and its violations are not looked at.
PublishVersion(r) ==
  \E v \in Rows("version") :
    /\ db[v].onto \in Rows("ontology")
    /\ db[v].status = "DRAFT"
    /\ Begin(r, And(Set(v, [status |-> "PUBLISHED", at |-> made + 1]),
                    Set(db[v].onto, [head |-> db[v].label, status |-> "PUBLISHED"])), Done)

-----------------------------------------------------------------------------
ContentRequest(r) ==
  \/ CreateOntology(r) \/ UpdateOntology(r) \/ DeleteOntology(r)
  \/ CreateClass(r) \/ CreateProperty(r) \/ CreateRelation(r) \/ CreateConstraint(r)
  \/ UpdateClass(r) \/ UpdateProperty(r) \/ UpdateConstraint(r)
  \/ DeleteClass(r) \/ DeleteProperty(r) \/ DeleteRelation(r) \/ DeleteConstraint(r)
  \/ ForkOntology(r)

VersionRequest(r) ==
  \/ UpdateOntologyStatus(r)
  \/ PublishOntology(r)
  \/ CreateDraftVersion(r) \/ UpdateVersionContent(r) \/ PublishVersion(r)
  \/ DeleteOntology(r)

OntologyStep(r) ==
  \/ PublishReadsClasses(r) \/ PublishReadsRest(r)
  \/ ForkFlushes(r) \/ ForkCopiesClasses(r) \/ ForkCopiesRest(r)

OntologyRow(row) ==
  \/ row \in [table : {"ontology"}, ns : Namespaces, head : Labels \cup {None},
              status : OntologyStatus, rev : {0, 1}]
  \/ /\ row.table \in Content
     /\ row.iri \in Iris \cup {None} /\ row.ref \in Iris \cup {None}
     /\ row.rev \in Revs(row.table)
  \/ /\ row.table = "version"
     /\ row.label \in Labels /\ row.status \in {"DRAFT", "PUBLISHED"}
     /\ row.status = "PUBLISHED" => row.at \in Nat

\* Once an ontology has a published version, its version field names one that
\* is published, however publications overlap: a publication always writes
\* both, in one transaction.
HeadIsPublished ==
  \A v \in Rows("version") :
    db[v].status = "PUBLISHED" /\ db[v].onto \in DOMAIN db =>
      \E w \in Of(db[v].onto, "version") :
        db[w].status = "PUBLISHED" /\ db[w].label = db[db[v].onto].head

\* While no two requests overlap, what a property or constraint is attached to
\* is a class or property of the same ontology that exists: deleting it deletes
\* what is attached, also through the class of a property.
NoDanglingLinks ==
  ~overlap =>
    \A i \in DOMAIN db : db[i].table \in Content /\ db[i].link # None =>
      db[i].link \in Elements(db[i].onto)

\* A fork is a copy of one state of its source, with edits of the source going
\* on, and so is its first version: the new row, flushed before the source is
\* read, keeps other writers out until the fork is committed.
ForkIsWhole ==
  [][\A v \in DOMAIN db' \ DOMAIN db :
       db'[v].table = "version" /\ db'[v].onto \in DOMAIN db' \ DOMAIN db
       => LET src == Elements(db'[v].base)
              fork == db'[v].onto
              ns == db'[fork].ns
              copied == {i \in DOMAIN db' : db'[i].table \in Content /\ db'[i].onto = fork}
          IN /\ {db'[i] : i \in copied} = {Forked(db[i], fork, ns) : i \in src}
             /\ db'[v].snapshot = Snapshot(src)]_db

\* With one client at a time a new draft starts from the version that the
\* ontology shows as its own.  (Overlapping publications may commit in the
\* other order than they took their times.)
DraftsStartAtHead ==
  [][~overlap =>
       \A v \in DOMAIN db' \ DOMAIN db :
         /\ db'[v].table = "version"
         /\ db'[v].status = "DRAFT"
         /\ db'[v].base \in Rows("version")
         => db[db'[v].base].label = db[db'[v].onto].head]_db
=============================================================================
