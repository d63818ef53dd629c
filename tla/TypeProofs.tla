------------------------------ MODULE TypeProofs ------------------------------
(***************************************************************************)
(* Every row of the database has the columns of its table, with values of  *)
(* their types, whatever requests overlap: each plan keeps the types also  *)
(* when the rows it changes have been changed or deleted since it was      *)
(* made.  Also, what the subscribers of webhooks hear.                     *)
(***************************************************************************)
EXTENDS ServerProofs

\* The value v of column c in a table of each component.
OntologyValue(table, c, v) ==
  /\ table = "ontology" =>
       /\ c = "ns" => v \in Namespaces
       /\ c = "head" => v \in Labels \cup {None}
       /\ c = "status" => v \in OntologyStatus
       /\ c = "rev" => v \in {0, 1}
  /\ table \in Content =>
       /\ c \in {"iri", "ref"} => v \in Iris \cup {None}
       /\ c = "rev" => v \in Revs(table)
  /\ table = "version" =>
       /\ c = "label" => v \in Labels
       /\ c = "status" => v \in {"DRAFT", "PUBLISHED"}

ReleaseValue(table, c, v) ==
  /\ table = "release" =>
       /\ c = "label" => v \in ReleaseLabels
       /\ c = "status" => v \in {"DRAFT", "RELEASED"}
       /\ c = "text" => v \in {0, 1}
  /\ table = "deployment" => (c = "status" => v \in DeploymentStatus)
  /\ table = "webhook" =>
       /\ c = "events" => v \in Subscriptions
       /\ c = "retries" => v \in 0 .. MaxRetries

AuditedValue(table, c, v) ==
  /\ table = "user" => (c = "user" => v \in Users)
  /\ table = "member" =>
       /\ c = "user" => v \in Users
       /\ c = "role" => v \in Roles
       /\ c = "active" => v \in BOOLEAN
  /\ table = "audit" =>
       /\ c = "prev" => v \in Nat \cup {None}
       /\ c = "hashed" => v \in BOOLEAN

ObjectValue(table, c, v) ==
  /\ table = "object" =>
       /\ c = "key" => v \in Keys \cup {None}
       /\ c = "rev" => v \in {0, 1}
       /\ c = "deleted" => v \in BOOLEAN
  /\ table = "link" => (c = "rev" => v \in {0, 1})

WorkspaceValue(table, c, v) ==
  /\ table = "workspace" =>
       /\ c = "slug" => v \in Slugs
       /\ c = "owner" => v \in Users
       /\ c = "deleted" => v \in BOOLEAN
       /\ c = "rev" => v \in {0, 1}
  /\ table = "wsmember" =>
       /\ c = "user" => v \in Users
       /\ c = "role" => v \in WorkspaceRoles
       /\ c = "active" => v \in BOOLEAN
  /\ table = "provider" => (c = "status" => v \in {"active", "disabled"})
  /\ table = "login" => (c = "consumed" => v \in BOOLEAN)

EvidenceValue(table, c, v) ==
  /\ table = "source" => (c = "fields" => v \subseteq Fields)
  /\ table = "evidence" =>
       /\ c = "field" => v \in Fields \cup {None}
       /\ c = "confirmed" => v \in BOOLEAN
  /\ table = "profiling" => (c = "status" => v \in {"pending", "completed"})
  /\ table = "proposal" => (c = "status" => v \in {StatusAfter(w) : w \in Verdicts})
  /\ table = "decision" => (c = "verdict" => v \in Verdicts)

ConnectorValue(table, c, v) ==
  table = "connector" =>
    /\ c = "config" => v \in [Settings -> {"absent", "clear", "sealed"}]
    /\ c = "secret" => v \subseteq Settings
    /\ c = "status" => v \in ConnectorStatus

Value(table, c, v) ==
  /\ OntologyValue(table, c, v)
  /\ ReleaseValue(table, c, v)
  /\ AuditedValue(table, c, v)
  /\ ObjectValue(table, c, v)
  /\ WorkspaceValue(table, c, v)
  /\ EvidenceValue(table, c, v)
  /\ ConnectorValue(table, c, v)

\* The tables whose rows are given as a set of records.
Exact == {"ontology", "member", "object", "workspace"}

\* A row has its columns, and a published version its time.
Typed(row) ==
  /\ DOMAIN row = Columns(row.table)
  /\ \A c \in DOMAIN row : Value(row.table, c, row[c])
  /\ row.table = "version" /\ row.status = "PUBLISHED" => row.at \in Nat
  /\ row.table \in Exact => row = [c \in DOMAIN row |-> row[c]]

\* Columns that a row of its type may get.
Suits(row, columns) ==
  /\ DOMAIN columns \subseteq Columns(row.table) \ {"table"}
  /\ \A c \in DOMAIN columns : Value(row.table, c, columns[c])
  /\ row.table = "version" =>
       /\ "at" \in DOMAIN columns => columns.at \in Nat
       /\ "status" \in DOMAIN columns => "at" \in DOMAIN columns \/ row.at \in Nat

\* Nobody is about to insert a row with identifier i.
Taken(i) == i \in 1 .. made /\ \A q \in Requests : i \notin DOMAIN session[q].plan.insert

\* Row i, if it is still there, may get the columns.
Updates(i, columns) == Taken(i) /\ (i \in DOMAIN db => Suits(db[i], columns))

\* What the steps that are still to come rest on.
JobTyped(p, job) ==
  /\ job[1] \in {"publish", "publish rest"} => job[3] \in Labels
  /\ job[1] \in {"fork", "copy", "copy rest"} =>
       /\ job[3] \in DOMAIN p.insert /\ p.insert[job[3]].table = "ontology"
       /\ p.insert[job[3]].head \in Labels
  /\ job[1] \in {"callback", "provision"} => job[3] \in Users
  /\ job[1] \in {"decide", "confirm"} =>
       Taken(job[2]) /\ (job[2] \in DOMAIN db => db[job[2]].table = "proposal")

\* A plan that keeps the types.
Planned(p) ==
  /\ IsPlan(p)
  /\ \E n \in Nat : DOMAIN p.insert \subseteq 0 .. n
  /\ \A i \in DOMAIN p.insert : Typed(p.insert[i])
  /\ \A i \in DOMAIN p.update : Updates(i, p.update[i])

\* It inserts under identifiers that the request has already, or that are above
\* all that are in use.
Proper(r, p) ==
  /\ Planned(p)
  /\ \A i \in DOMAIN p.insert : i \in DOMAIN session[r].plan.insert \/ i \notin 1 .. made

AllTyped ==
  /\ \A i \in DOMAIN db : Typed(db[i])
  /\ \A r \in Requests :
       Planned(session[r].plan) /\ JobTyped(session[r].plan, session[r].job)

-----------------------------------------------------------------------------
(* Plans.                                                                  *)

LEMMA ProperNothing == ASSUME NEW r PROVE Proper(r, NoPlan)
BY DEF Proper, Planned, NoPlan, IsPlan, Nothing

LEMMA ProperNew ==
  ASSUME Base, NEW r, NEW row, Typed(row)
  PROVE  Proper(r, New(row))
<1>1. New(row) = [insert |-> Only(made + 1, row), update |-> Nothing, delete |-> {}]
  BY DEF New, NoPlan
<1>2. made + 1 \in Nat /\ made + 1 \notin 1 .. made /\ DOMAIN Only(made + 1, row) \subseteq 0 .. made + 1
  BY DEF Base, Only
<1> QED
  BY <1>1, <1>2 DEF Proper, Planned, IsPlan, Only, Nothing

LEMMA ProperDrop == ASSUME NEW r, NEW ids PROVE Proper(r, Drop(ids))
BY DEF Proper, Planned, Drop, NoPlan, IsPlan, Nothing

\* What is in the database is about to be inserted by nobody.
LEMMA RowsAreTaken ==
  ASSUME Base, NEW i \in DOMAIN db
  PROVE  Taken(i)
BY DEF Base, Taken, Good, Fresh

LEMMA ProperSetAll ==
  ASSUME Base, NEW r, NEW ids, ids \subseteq DOMAIN db, NEW columns,
         \A i \in ids : Suits(db[i], columns)
  PROVE  Proper(r, SetAll(ids, columns))
<1>1. SetAll(ids, columns) =
        [insert |-> Nothing, update |-> [i \in ids |-> columns], delete |-> {}]
  BY DEF SetAll, NoPlan
<1>2. \A i \in ids : Updates(i, columns)
  BY RowsAreTaken DEF Updates
<1> QED
  BY <1>1, <1>2 DEF Proper, Planned, IsPlan, Nothing

\* A row gets those of the columns that differ.
LEMMA ProperSet ==
  ASSUME Base, NEW r, NEW i \in DOMAIN db, NEW columns, Suits(db[i], columns)
  PROVE  Proper(r, Set(i, columns))
<1> DEFINE changed == {c \in DOMAIN columns : db[i][c] # columns[c]}
           given == [c \in changed |-> columns[c]]
           update == IF changed = {} THEN Nothing ELSE Only(i, given)
<1>1. Set(i, columns) = [insert |-> Nothing, update |-> update, delete |-> {}]
  BY DEF Set, NoPlan
<1>2. Suits(db[i], given)
  <2>1. /\ DOMAIN given \subseteq Columns(db[i].table) \ {"table"}
        /\ \A c \in DOMAIN given : Value(db[i].table, c, given[c])
    BY DEF Suits
  <2>2. ASSUME db[i].table = "version"
        PROVE  /\ "at" \in DOMAIN given => given.at \in Nat
               /\ "status" \in DOMAIN given => "at" \in DOMAIN given \/ db[i].at \in Nat
    <3>1. /\ "at" \in DOMAIN columns => columns.at \in Nat
          /\ "status" \in DOMAIN columns => "at" \in DOMAIN columns \/ db[i].at \in Nat
      BY <2>2 DEF Suits
    <3>2. CASE "at" \in DOMAIN columns /\ db[i].at = columns.at
      BY <3>1, <3>2
    <3>3. CASE "at" \in DOMAIN columns /\ db[i].at # columns.at
      BY <3>1, <3>3
    <3>4. CASE "at" \notin DOMAIN columns
      BY <3>1, <3>4
    <3> QED
      BY <3>2, <3>3, <3>4
  <2> HIDE DEF given
  <2> QED
    BY <2>1, <2>2 DEF Suits
<1>3. Updates(i, given)
  BY <1>2, RowsAreTaken DEF Updates
<1>4. DOMAIN update \subseteq {i} /\ \A j \in DOMAIN update : update[j] = given
  BY DEF Nothing, Only
<1> HIDE DEF update, given
<1> QED
  BY <1>1, <1>3, <1>4 DEF Proper, Planned, IsPlan, Nothing

LEMMA ProperAnd ==
  ASSUME NEW r, NEW p, NEW q, Proper(r, p), Proper(r, q)
  PROVE  Proper(r, And(p, q))
<1> DEFINE ins == Over(p.insert, q.insert)
           upd == Over(p.update, q.update)
<1>1. And(p, q) = [insert |-> ins, update |-> upd, delete |-> p.delete \cup q.delete]
  BY DEF And
<1>2. \E n \in Nat : DOMAIN ins \subseteq 0 .. n
  <2>1. PICK m \in Nat, n \in Nat :
          DOMAIN p.insert \subseteq 0 .. m /\ DOMAIN q.insert \subseteq 0 .. n
    BY DEF Proper, Planned
  <2>2. DOMAIN ins \subseteq 0 .. m + n /\ m + n \in Nat
    BY <2>1 DEF Over
  <2> QED
    BY <2>2
<1>3. \A i \in DOMAIN ins :
        Typed(ins[i]) /\ (i \in DOMAIN session[r].plan.insert \/ i \notin 1 .. made)
  BY DEF Proper, Planned, Over
<1>4. \A i \in DOMAIN upd : Updates(i, upd[i])
  BY DEF Proper, Planned, Over
<1> HIDE DEF ins, upd
<1> QED
  BY <1>1, <1>2, <1>3, <1>4 DEF Proper, Planned, IsPlan

LEMMA ProperAndNew ==
  ASSUME Base, NEW r, NEW p, Proper(r, p), NEW row, Typed(row)
  PROVE  Proper(r, AndNew(p, row))
<1> DEFINE last == Max({made} \cup DOMAIN p.insert)
           ins == Over(p.insert, Only(last + 1, row))
<1>1. PICK n \in Nat : DOMAIN p.insert \subseteq 0 .. n
  BY DEF Proper, Planned
<1>2. last \in Nat /\ made <= last /\ \A i \in DOMAIN p.insert : i <= last
  BY <1>1, MaxAbove DEF Base
<1>3. AndNew(p, row) = [insert |-> ins, update |-> p.update, delete |-> p.delete]
  BY DEF AndNew, Proper, Planned, IsPlan
<1> HIDE DEF last
<1>4. last + 1 \notin 1 .. made
  BY <1>2 DEF Base
<1>5. DOMAIN ins \subseteq 0 .. last + 1 /\ last + 1 \in Nat
  BY <1>1, <1>2 DEF Over, Only
<1>6. \A i \in DOMAIN ins :
        Typed(ins[i]) /\ (i \in DOMAIN session[r].plan.insert \/ i \notin 1 .. made)
  BY <1>4 DEF Proper, Planned, Over, Only
<1> HIDE DEF ins
<1> QED
  BY <1>3, <1>5, <1>6 DEF Proper, Planned, IsPlan

LEMMA ProperAndAll ==
  ASSUME Base, NEW r \in Requests, NEW p, Good(r, p), Proper(r, p),
         NEW rows, IsFiniteSet(rows), \A row \in rows : HasTable(row) /\ Typed(row)
  PROVE  Proper(r, AndAll(p, rows))
<1> DEFINE a == AndAll(p, rows)
<1>1. /\ Good(r, a) /\ a.update = p.update
      /\ \A i \in DOMAIN a.insert :
           \/ i \in DOMAIN p.insert /\ a.insert[i] = p.insert[i]
           \/ i \notin 1 .. made /\ a.insert[i] \in rows
  BY AndAllIs
<1> HIDE DEF a
<1>2. \A i \in DOMAIN a.insert :
        Typed(a.insert[i]) /\ (i \in DOMAIN session[r].plan.insert \/ i \notin 1 .. made)
  BY <1>1 DEF Proper, Planned
<1> QED
  BY <1>1, <1>2 DEF Proper, Planned, Good, a

-----------------------------------------------------------------------------
(* Rows and what is written.                                               *)

\* The columns of each table.
LEMMA OntologyColumns ==
  /\ Columns("ontology") = {"table", "ns", "head", "status", "rev"}
  /\ \A t \in Content : Columns(t) = {"table", "onto", "iri", "ref", "link", "rev"}
  /\ Columns("version") = {"table", "onto", "label", "status", "at", "snapshot", "base"}
BY DEF Columns, Content

LEMMA ReleaseColumns ==
  /\ Columns("release") = {"table", "label", "status", "text", "checksum", "results"}
  /\ Columns("report") = {"table", "release"} /\ Columns("bundle") = {"table", "release"}
  /\ Columns("deployment") = {"table", "release", "status"}
  /\ Columns("webhook") = {"table", "name", "events", "enabled", "retries"}
BY DEF Columns, Content

LEMMA AuditedColumns ==
  /\ Columns("audit") = {"table", "prev", "hashed", "target", "after"}
  /\ Columns("user") = {"table", "user"}
  /\ Columns("member") = {"table", "user", "role", "active"}
  /\ Columns("object") = {"table", "key", "rev", "deleted"}
  /\ Columns("link") = {"table", "source", "target", "rev"}
BY DEF Columns, Content

LEMMA WorkspaceColumns ==
  /\ Columns("workspace") = {"table", "slug", "owner", "deleted", "rev"}
  /\ Columns("wsmember") = {"table", "ws", "user", "role", "active"}
  /\ Columns("provider") = {"table", "ws", "status", "provision"}
  /\ Columns("login") = {"table", "provider", "ws", "consumed"}
BY DEF Columns, Content

LEMMA EvidenceColumns ==
  /\ Columns("source") = {"table", "fields"}
  /\ Columns("evidence") = {"table", "source", "field", "iri", "confirmed", "by"}
  /\ Columns("profiling") = {"table", "source", "status"}
  /\ Columns("proposal") = {"table", "source", "project", "context", "status", "content"}
  /\ Columns("decision") = {"table", "proposal", "verdict"}
  /\ Columns("connector") = {"table", "config", "secret", "status", "deleted"}
BY DEF Columns, Content

LEMMA TableIsColumn == \A table : "table" \in Columns(table)
BY DEF Columns

Known == Content \cup
  {"ontology", "version", "release", "report", "deployment", "bundle", "webhook",
   "user", "member", "audit", "object", "link", "workspace", "wsmember", "provider",
   "login", "source", "evidence", "profiling", "proposal", "decision", "connector"}

LEMMA TablesAreKnown == \A uses : Tables(uses) \subseteq Known
BY DEF Tables, Known, Content

\* A row that has the type of its table is one of a component, and the other way
\* round.
LEMMA TypedIsRow ==
  ASSUME NEW row, Typed(row), row.table \in Known
  PROVE  IsRow(row)
<1>1. CASE row.table = "ontology"
  <2>1. row = [c \in {"table", "ns", "head", "status", "rev"} |-> row[c]]
    BY <1>1, OntologyColumns DEF Typed, Exact
  <2>2. /\ row.ns \in Namespaces /\ row.head \in Labels \cup {None}
        /\ row.status \in OntologyStatus /\ row.rev \in {0, 1}
    BY <1>1, OntologyColumns DEF Typed, Value, OntologyValue
  <2>3. OntologyRow(row)
    BY <1>1, <2>1, <2>2 DEF OntologyRow
  <2> QED
    BY <2>3 DEF IsRow
<1>2. CASE row.table \in Content \cup {"version"}
  <2>1. OntologyRow(row)
    BY <1>2, OntologyColumns DEF Typed, Value, OntologyValue, OntologyRow
  <2> QED
    BY <2>1 DEF IsRow
<1>3. CASE row.table \in {"release", "report", "deployment", "bundle", "webhook"}
  <2>1. ReleaseRow(row)
    BY <1>3, ReleaseColumns DEF Typed, Value, ReleaseValue, ReleaseRow
  <2> QED
    BY <2>1 DEF IsRow
<1>4. CASE row.table \in {"user", "audit"}
  <2>1. AuditedRow(row)
    BY <1>4, AuditedColumns DEF Typed, Value, AuditedValue, AuditedRow
  <2> QED
    BY <2>1 DEF IsRow
<1>5. CASE row.table = "member"
  <2>1. row = [c \in {"table", "user", "role", "active"} |-> row[c]]
    BY <1>5, AuditedColumns DEF Typed, Exact
  <2>2. row.user \in Users /\ row.role \in Roles /\ row.active \in BOOLEAN
    BY <1>5, AuditedColumns DEF Typed, Value, AuditedValue
  <2>3. AuditedRow(row)
    BY <1>5, <2>1, <2>2 DEF AuditedRow
  <2> QED
    BY <2>3 DEF IsRow
<1>6. CASE row.table = "object"
  <2>1. row = [c \in {"table", "key", "rev", "deleted"} |-> row[c]]
    BY <1>6, AuditedColumns DEF Typed, Exact
  <2>2. row.key \in Keys \cup {None} /\ row.rev \in {0, 1} /\ row.deleted \in BOOLEAN
    BY <1>6, AuditedColumns DEF Typed, Value, ObjectValue
  <2>3. ObjectRow(row)
    BY <1>6, <2>1, <2>2 DEF ObjectRow
  <2> QED
    BY <2>3 DEF IsRow
<1>7. CASE row.table = "link"
  <2>1. ObjectRow(row)
    BY <1>7, AuditedColumns DEF Typed, Value, ObjectValue, ObjectRow
  <2> QED
    BY <2>1 DEF IsRow
<1>8. CASE row.table = "workspace"
  <2>1. row = [c \in {"table", "slug", "owner", "deleted", "rev"} |-> row[c]]
    BY <1>8, WorkspaceColumns DEF Typed, Exact
  <2>2. /\ row.slug \in Slugs /\ row.owner \in Users
        /\ row.deleted \in BOOLEAN /\ row.rev \in {0, 1}
    BY <1>8, WorkspaceColumns DEF Typed, Value, WorkspaceValue
  <2>3. WorkspaceRow(row)
    BY <1>8, <2>1, <2>2 DEF WorkspaceRow
  <2> QED
    BY <2>3 DEF IsRow
<1>9. CASE row.table \in {"wsmember", "provider", "login"}
  <2>1. WorkspaceRow(row)
    BY <1>9, WorkspaceColumns DEF Typed, Value, WorkspaceValue, WorkspaceRow
  <2> QED
    BY <2>1 DEF IsRow
<1>10. CASE row.table \in {"source", "evidence", "profiling", "proposal", "decision"}
  <2>1. EvidenceRow(row)
    BY <1>10, EvidenceColumns DEF Typed, Value, EvidenceValue, EvidenceRow
  <2> QED
    BY <2>1 DEF IsRow
<1>11. CASE row.table = "connector"
  <2>1. ConnectorRow(row)
    BY <1>11, EvidenceColumns DEF Typed, Value, ConnectorValue, ConnectorRow
  <2> QED
    BY <2>1 DEF IsRow
<1> QED
  BY <1>1, <1>2, <1>3, <1>4, <1>5, <1>6, <1>7, <1>8, <1>9, <1>10, <1>11 DEF Known

LEMMA RowIsTyped ==
  ASSUME NEW row, DOMAIN row = Columns(row.table), IsRow(row)
  PROVE  Typed(row)
<1> DEFINE Fitting == \A c \in DOMAIN row : Value(row.table, c, row[c])
<1>1. CASE OntologyRow(row)
  <2>1. row.table \in Content \cup {"ontology", "version"}
    BY <1>1 DEF OntologyRow
  <2>2. Fitting
    BY <1>1, <2>1 DEF OntologyRow, Value, OntologyValue, ReleaseValue, AuditedValue, ObjectValue,
                      WorkspaceValue, EvidenceValue, ConnectorValue, Content
  <2>3. row.table \in Exact => row = [c \in DOMAIN row |-> row[c]]
    BY <1>1, <2>1 DEF OntologyRow, Exact, Content
  <2>4. row.table = "version" /\ row.status = "PUBLISHED" => row.at \in Nat
    BY <1>1 DEF OntologyRow, Content
  <2> QED
    BY <2>2, <2>3, <2>4 DEF Typed
<1>2. CASE ReleaseRow(row)
  <2>1. row.table \in {"release", "report", "deployment", "bundle", "webhook"}
    BY <1>2 DEF ReleaseRow
  <2>2. Fitting
    BY <1>2, <2>1 DEF ReleaseRow, Value, OntologyValue, ReleaseValue, AuditedValue, ObjectValue,
                      WorkspaceValue, EvidenceValue, ConnectorValue, Content
  <2> QED
    BY <2>1, <2>2 DEF Typed, Exact
<1>3. CASE AuditedRow(row)
  <2>1. row.table \in {"user", "member", "audit"}
    BY <1>3 DEF AuditedRow
  <2>2. Fitting
    BY <1>3, <2>1 DEF AuditedRow, Value, OntologyValue, ReleaseValue, AuditedValue, ObjectValue,
                      WorkspaceValue, EvidenceValue, ConnectorValue, Content
  <2>3. row.table \in Exact => row = [c \in DOMAIN row |-> row[c]]
    BY <1>3, <2>1 DEF AuditedRow, Exact
  <2> QED
    BY <2>1, <2>2, <2>3 DEF Typed
<1>4. CASE ObjectRow(row)
  <2>1. row.table \in {"object", "link"}
    BY <1>4 DEF ObjectRow
  <2>2. Fitting
    BY <1>4, <2>1 DEF ObjectRow, Value, OntologyValue, ReleaseValue, AuditedValue, ObjectValue,
                      WorkspaceValue, EvidenceValue, ConnectorValue, Content
  <2>3. row.table \in Exact => row = [c \in DOMAIN row |-> row[c]]
    BY <1>4, <2>1 DEF ObjectRow, Exact
  <2> QED
    BY <2>1, <2>2, <2>3 DEF Typed
<1>5. CASE WorkspaceRow(row)
  <2>1. row.table \in {"workspace", "wsmember", "provider", "login"}
    BY <1>5 DEF WorkspaceRow
  <2>2. Fitting
    BY <1>5, <2>1 DEF WorkspaceRow, Value, OntologyValue, ReleaseValue, AuditedValue, ObjectValue,
                      WorkspaceValue, EvidenceValue, ConnectorValue, Content
  <2>3. row.table \in Exact => row = [c \in DOMAIN row |-> row[c]]
    BY <1>5, <2>1 DEF WorkspaceRow, Exact
  <2> QED
    BY <2>1, <2>2, <2>3 DEF Typed
<1>6. CASE EvidenceRow(row)
  <2>1. row.table \in {"source", "evidence", "profiling", "proposal", "decision"}
    BY <1>6 DEF EvidenceRow
  <2>2. Fitting
    BY <1>6, <2>1 DEF EvidenceRow, Value, OntologyValue, ReleaseValue, AuditedValue, ObjectValue,
                      WorkspaceValue, EvidenceValue, ConnectorValue, Content
  <2> QED
    BY <2>1, <2>2 DEF Typed, Exact
<1>7. CASE ConnectorRow(row)
  <2>1. row.table = "connector"
    BY <1>7 DEF ConnectorRow
  <2>2. Fitting
    BY <1>7, <2>1 DEF ConnectorRow, Value, OntologyValue, ReleaseValue, AuditedValue, ObjectValue,
                      WorkspaceValue, EvidenceValue, ConnectorValue, Content
  <2> QED
    BY <2>1, <2>2 DEF Typed, Exact
<1> QED
  BY <1>1, <1>2, <1>3, <1>4, <1>5, <1>6, <1>7 DEF IsRow

\* A row keeps its type when it gets columns that suit it, and so do other columns
\* that suit it.
LEMMA TypedAfter ==
  ASSUME NEW row, Typed(row), NEW columns, Suits(row, columns)
  PROVE  /\ Typed(Over(columns, row))
         /\ \A other : Suits(row, other) => Suits(Over(columns, row), other)
<1> DEFINE new == Over(columns, row)
<1>1. /\ new = [c \in DOMAIN new |-> new[c]]
      /\ DOMAIN new = DOMAIN columns \cup DOMAIN row
      /\ \A c \in DOMAIN new : new[c] = IF c \in DOMAIN columns THEN columns[c] ELSE row[c]
  BY DEF Over
<1>2. "table" \in DOMAIN row /\ "table" \notin DOMAIN columns
  BY TableIsColumn DEF Typed, Suits
<1> HIDE DEF new
<1>3. new.table = row.table /\ DOMAIN new = Columns(row.table)
  BY <1>1, <1>2 DEF Typed, Suits
<1>4. \A c \in DOMAIN new : Value(new.table, c, new[c])
  BY <1>1, <1>3 DEF Typed, Suits
<1>5. row.table = "version" /\ row.at \in Nat => new.at \in Nat
  BY <1>1, <1>3, OntologyColumns DEF Suits
<1>6. new.table = "version" /\ new.status = "PUBLISHED" => new.at \in Nat
  <2> SUFFICES ASSUME row.table = "version", new.status = "PUBLISHED" PROVE new.at \in Nat
    BY <1>3
  <2>1. "status" \in DOMAIN new /\ "at" \in DOMAIN new
    BY <1>3, OntologyColumns
  <2>2. CASE "at" \in DOMAIN columns
    BY <1>1, <2>1, <2>2 DEF Suits
  <2>3. CASE "at" \notin DOMAIN columns
    BY <1>1, <1>5, <2>1, <2>3 DEF Suits, Typed
  <2> QED
    BY <2>2, <2>3
<1>7. Typed(new)
  BY <1>1, <1>3, <1>4, <1>6 DEF Typed
<1>8. ASSUME NEW other, Suits(row, other) PROVE Suits(new, other)
  BY <1>3, <1>5, <1>8 DEF Suits
<1> QED
  BY <1>7, <1>8 DEF new

-----------------------------------------------------------------------------
(* Steps of a session.                                                     *)

LEMMA NothingIsPlanned == Planned(NoPlan) /\ JobTyped(NoPlan, Done)
<1>1. Done[1] = "commit"
  BY DEF Done
<1>2. JobTyped(NoPlan, Done)
  BY <1>1 DEF JobTyped
<1>3. Planned(NoPlan)
  BY DEF Planned, NoPlan, IsPlan, Nothing
<1> QED
  BY <1>2, <1>3

\* What is taken stays taken, and the rows that are changed suit their changes on.
LEMMA TypesLast ==
  ASSUME \A i : Taken(i) => Taken(i)',
         \A i : Taken(i) /\ i \in DOMAIN db' =>
                  /\ i \in DOMAIN db /\ db'[i].table = db[i].table
                  /\ \A c : Suits(db[i], c) => Suits(db'[i], c),
         NEW p, NEW job
  PROVE  /\ Planned(p) => Planned(p)'
         /\ JobTyped(p, job) => JobTyped(p, job)'
<1>1. ASSUME NEW i, NEW c, Updates(i, c) PROVE Updates(i, c)'
  <2>1. Taken(i) /\ Taken(i)'
    BY <1>1 DEF Updates
  <2>2. i \in DOMAIN db' => Suits(db'[i], c)
    BY <1>1, <2>1 DEF Updates
  <2>3. i \in DOMAIN db' => Suits(db[i], c)'
    BY <2>2 DEF Suits
  <2> QED
    BY <2>1, <2>3 DEF Updates
<1>2. Planned(p) => Planned(p)'
  BY <1>1 DEF Planned
<1>3. JobTyped(p, job) => JobTyped(p, job)'
  BY DEF JobTyped
<1> QED
  BY <1>2, <1>3

LEMMA PlanTypes ==
  ASSUME Base, AllTyped, NEW r \in Requests, NEW plan, NEW job,
         Proper(r, plan), JobTyped(plan, job),
         session'[r].plan = plan, session'[r].job = job,
         \A q \in Requests \ {r} : session'[q] = session[q],
         db' = db, made' \in Nat, made <= made'
  PROVE  AllTyped'
<1>1. made \in Nat
  BY DEF Base
<1>2. ASSUME NEW i, Taken(i) PROVE Taken(i)'
  <2>1. i \in 1 .. made /\ \A q \in Requests : i \notin DOMAIN session[q].plan.insert
    BY <1>2 DEF Taken
  <2>2. i \notin DOMAIN plan.insert
    BY <2>1 DEF Proper
  <2>3. i \in 1 .. made'
    BY <1>1, <2>1
  <2> QED
    BY <2>1, <2>2, <2>3 DEF Taken
<1>3. \A i : Taken(i) /\ i \in DOMAIN db' =>
                  /\ i \in DOMAIN db /\ db'[i].table = db[i].table
                  /\ \A c : Suits(db[i], c) => Suits(db'[i], c)
  OBVIOUS
<1>4. ASSUME NEW q \in Requests
      PROVE  (Planned(session[q].plan) /\ JobTyped(session[q].plan, session[q].job))'
  <2> DEFINE p == IF q = r THEN plan ELSE session[q].plan
             j == IF q = r THEN job ELSE session[q].job
  <2>1. session'[q].plan = p /\ session'[q].job = j
    OBVIOUS
  <2>2. Planned(p) /\ JobTyped(p, j)
    BY DEF AllTyped, Proper
  <2>3. \A x, y : Planned(x) /\ JobTyped(x, y) => (\A z : z = x => Planned(z)')
                    /\ (\A z, w : z = x /\ w = y => JobTyped(z, w)')
    BY <1>2, <1>3, TypesLast
  <2> HIDE DEF p, j
  <2> QED
    BY <2>1, <2>2, <2>3
<1>5. \A i \in DOMAIN db' : Typed(db[i])'
  BY DEF AllTyped, Typed
<1> QED
  BY <1>4, <1>5 DEF AllTyped

\* What a plan makes of the rows.
LEMMA WrittenAs ==
  ASSUME NEW p, NEW i \in DOMAIN Written(p)
  PROVE  \/ i \in DOMAIN p.insert /\ i \notin DOMAIN db \ p.delete /\ Written(p)[i] = p.insert[i]
         \/ /\ i \in DOMAIN db \ p.delete
            /\ Written(p)[i] = IF i \in DOMAIN p.update THEN Over(p.update[i], db[i]) ELSE db[i]
BY DEF Written, Over

LEMMA CommitTypes ==
  ASSUME Base, AllTyped, NEW r \in Requests, db' = Written(session[r].plan), NEW job,
         session'[r].plan = NoPlan, session'[r].job = job, JobTyped(NoPlan, job)',
         \A q \in Requests \ {r} : session'[q] = session[q],
         made' = made
  PROVE  AllTyped'
<1> DEFINE p == session[r].plan
<1>1. Planned(p) /\ \A i \in DOMAIN db : Typed(db[i])
  BY DEF AllTyped
<1>2. \A i \in DOMAIN p.update : i \in DOMAIN db => Suits(db[i], p.update[i])
  BY <1>1 DEF Planned, Updates
<1>3. db' = Written(p)
  OBVIOUS
<1>4. DOMAIN NoPlan.insert = {} /\ Planned(NoPlan)
  BY NothingIsPlanned DEF NoPlan, Nothing
<1> HIDE DEF p
<1>5. ASSUME NEW i, Taken(i) PROVE Taken(i)'
  BY <1>4, <1>5 DEF Taken
<1>6. ASSUME NEW i \in DOMAIN db' PROVE Typed(db'[i])
  <2>1. CASE i \in DOMAIN p.insert /\ db'[i] = p.insert[i]
    BY <1>1, <2>1 DEF Planned
  <2>2. CASE i \in DOMAIN db \ p.delete
             /\ db'[i] = IF i \in DOMAIN p.update THEN Over(p.update[i], db[i]) ELSE db[i]
    BY <1>1, <1>2, <2>2, TypedAfter
  <2> QED
    BY <1>3, <1>6, <2>1, <2>2, WrittenAs
<1>7. ASSUME NEW i, Taken(i), i \in DOMAIN db'
      PROVE  /\ i \in DOMAIN db /\ db'[i].table = db[i].table
             /\ \A c : Suits(db[i], c) => Suits(db'[i], c)
  <2>1. i \notin DOMAIN p.insert
    BY <1>7 DEF Taken, p
  <2>2. /\ i \in DOMAIN db \ p.delete
        /\ db'[i] = IF i \in DOMAIN p.update THEN Over(p.update[i], db[i]) ELSE db[i]
    BY <1>3, <1>7, <2>1, WrittenAs
  <2>3. i \in DOMAIN p.update => db'[i].table = db[i].table
    <3> SUFFICES ASSUME i \in DOMAIN p.update PROVE Over(p.update[i], db[i]).table = db[i].table
      BY <2>2
    <3>1. "table" \notin DOMAIN p.update[i] /\ "table" \in DOMAIN db[i]
      BY <1>1, <1>2, <2>2, TableIsColumn DEF Suits, Typed
    <3> QED
      BY <3>1 DEF Over
  <2> QED
    BY <1>1, <1>2, <2>2, <2>3, TypedAfter
<1>8. ASSUME NEW q \in Requests
      PROVE  (Planned(session[q].plan) /\ JobTyped(session[q].plan, session[q].job))'
  <2>1. CASE q = r
    <3>1. \A x : x = NoPlan => Planned(x)'
      BY <1>4, <1>5, <1>7, TypesLast
    <3> QED
      BY <2>1, <3>1
  <2>2. CASE q # r
    <3>1. session'[q] = session[q] /\ Planned(session[q].plan)
          /\ JobTyped(session[q].plan, session[q].job)
      BY <2>2 DEF AllTyped
    <3>2. \A x, y : Planned(x) /\ JobTyped(x, y) => (\A z : z = x => Planned(z)')
                      /\ (\A z, w : z = x /\ w = y => JobTyped(z, w)')
      BY <1>5, <1>7, TypesLast
    <3> QED
      BY <3>1, <3>2
  <2> QED
    BY <2>1, <2>2
<1>9. (\A i \in DOMAIN db : Typed(db[i]))'
  BY <1>6 DEF Typed
<1> QED
  BY <1>8, <1>9 DEF AllTyped

LEMMA DropTypes ==
  ASSUME Base, AllTyped, db' = db, made' = made,
         \A q \in Requests : session'[q] \in {session[q], Closed}
  PROVE  AllTyped'
<1>1. DOMAIN NoPlan.insert = {} /\ Planned(NoPlan) /\ JobTyped(NoPlan, Done)
      /\ Closed.plan = NoPlan /\ Closed.job = Done
  BY NothingIsPlanned DEF NoPlan, Nothing, Closed
<1>2. ASSUME NEW i, Taken(i) PROVE Taken(i)'
  BY <1>1, <1>2 DEF Taken
<1>3. \A i : Taken(i) /\ i \in DOMAIN db' =>
                  /\ i \in DOMAIN db /\ db'[i].table = db[i].table
                  /\ \A c : Suits(db[i], c) => Suits(db'[i], c)
  OBVIOUS
<1>4. ASSUME NEW q \in Requests
      PROVE  (Planned(session[q].plan) /\ JobTyped(session[q].plan, session[q].job))'
  <2>1. \/ session'[q].plan = session[q].plan /\ session'[q].job = session[q].job
        \/ session'[q].plan = NoPlan /\ session'[q].job = Done
    BY <1>1
  <2>2. \A x, y : Planned(x) /\ JobTyped(x, y) => (\A z : z = x => Planned(z)')
                    /\ (\A z, w : z = x /\ w = y => JobTyped(z, w)')
    BY <1>2, <1>3, TypesLast
  <2>3. Planned(session[q].plan) /\ JobTyped(session[q].plan, session[q].job)
    BY DEF AllTyped
  <2> QED
    BY <1>1, <2>1, <2>2, <2>3
<1>5. (\A i \in DOMAIN db : Typed(db[i]))'
  BY DEF AllTyped, Typed
<1> QED
  BY <1>4, <1>5 DEF AllTyped

\* A request that comes in with a plan that keeps the types.
Starts(r) ==
  \E plan, job :
    /\ Begin(r, plan, job) \/ BeginLocked(r, plan, job)
    /\ Proper(r, plan) /\ JobTyped(plan, job)

LEMMA OpenTypes ==
  ASSUME Base, AllTyped, NEW r \in Requests, Opens(r), Starts(r)
  PROVE  AllTyped'
<1>1. PICK plan, job :
        /\ Begin(r, plan, job) \/ BeginLocked(r, plan, job)
        /\ Proper(r, plan) /\ JobTyped(plan, job)
  BY DEF Starts
<1>2. /\ session'[r] = [open |-> TRUE, plan |-> plan, job |-> job]
      /\ \A q \in Requests \ {r} : session'[q] = session[q]
      /\ db' = db
  BY <1>1, OpenedAs DEF Begin, BeginLocked
<1>3. PICK p, j, lock :
        Open(r, p, j, lock) /\ Good(r, p) /\ (lock = writer \/ (writer = None /\ lock = r))
  BY DEF Opens
<1>4. Base' /\ made' >= made + 1
  BY <1>3, OpenKeeps
<1>5. made' \in Nat /\ made <= made'
  BY <1>4 DEF Base
<1>6. session'[r].plan = plan /\ session'[r].job = job
  BY <1>2
<1> QED
  BY <1>1, <1>2, <1>5, <1>6, PlanTypes

\* A request that reads on, and its plan keeps the types.
ReadsOn(r) ==
  \E plan, job : Continue(r, plan, job) /\ Proper(r, plan) /\ JobTyped(plan, job)

LEMMA ContinueTypes ==
  ASSUME Base, AllTyped, NEW r \in Requests, session[r].open, ReadsOn(r),
         made' \in Nat, made <= made'
  PROVE  AllTyped'
<1>1. PICK plan, job : Continue(r, plan, job) /\ Proper(r, plan) /\ JobTyped(plan, job)
  BY DEF ReadsOn
<1>2. /\ session'[r] = [open |-> TRUE, plan |-> plan, job |-> job]
      /\ \A q \in Requests \ {r} : session'[q] = session[q]
      /\ db' = db
  BY <1>1, ContinuedAs
<1>3. session'[r].plan = plan /\ session'[r].job = job
  BY <1>2
<1> QED
  BY <1>1, <1>2, <1>3, PlanTypes

LEMMA FlushTypes ==
  ASSUME Base, AllTyped, NEW r \in Requests, session[r].open, NEW job, Flush(r, job),
         JobTyped(session[r].plan, job)
  PROVE  AllTyped'
<1> DEFINE plan == session[r].plan
<1>1. /\ Base' /\ made' = made /\ db' = db
      /\ session'[r] = [open |-> TRUE, plan |-> plan, job |-> job]
      /\ \A q \in Requests \ {r} : session'[q] = session[q]
  BY FlushKeeps
<1>2. session'[r].plan = plan /\ session'[r].job = job
  BY <1>1
<1>3. made' \in Nat /\ made <= made'
  BY <1>1 DEF Base
<1>4. Proper(r, plan) /\ JobTyped(plan, job)
  BY DEF AllTyped, Proper
<1> HIDE DEF plan
<1> QED
  BY <1>1, <1>2, <1>3, <1>4, PlanTypes

-----------------------------------------------------------------------------
(* The columns of each component are no others' concern.                   *)

LEMMA OntologyValues ==
  \A t \in Content \cup {"ontology", "version"} : \A c, v : OntologyValue(t, c, v) => Value(t, c, v)
BY DEF Value, ReleaseValue, AuditedValue, ObjectValue, WorkspaceValue, EvidenceValue,
       ConnectorValue, Content

LEMMA ReleaseValues ==
  \A t \in {"release", "report", "deployment", "bundle", "webhook"} :
    \A c, v : ReleaseValue(t, c, v) => Value(t, c, v)
BY DEF Value, OntologyValue, AuditedValue, ObjectValue, WorkspaceValue, EvidenceValue,
       ConnectorValue, Content

LEMMA AuditedValues ==
  \A t \in {"user", "member", "audit"} : \A c, v : AuditedValue(t, c, v) => Value(t, c, v)
BY DEF Value, OntologyValue, ReleaseValue, ObjectValue, WorkspaceValue, EvidenceValue,
       ConnectorValue, Content

LEMMA ObjectValues ==
  \A t \in {"object", "link"} : \A c, v : ObjectValue(t, c, v) => Value(t, c, v)
BY DEF Value, OntologyValue, ReleaseValue, AuditedValue, WorkspaceValue, EvidenceValue,
       ConnectorValue, Content

LEMMA WorkspaceValues ==
  \A t \in {"workspace", "wsmember", "provider", "login"} :
    \A c, v : WorkspaceValue(t, c, v) => Value(t, c, v)
BY DEF Value, OntologyValue, ReleaseValue, AuditedValue, ObjectValue, EvidenceValue,
       ConnectorValue, Content

LEMMA EvidenceValues ==
  \A t \in {"source", "evidence", "profiling", "proposal", "decision"} :
    \A c, v : EvidenceValue(t, c, v) => Value(t, c, v)
BY DEF Value, OntologyValue, ReleaseValue, AuditedValue, ObjectValue, WorkspaceValue,
       ConnectorValue, Content

LEMMA ConnectorValues ==
  \A c, v : ConnectorValue("connector", c, v) => Value("connector", c, v)
BY DEF Value, OntologyValue, ReleaseValue, AuditedValue, ObjectValue, WorkspaceValue,
       EvidenceValue, Content

\* The rows of a table are in the database, and have its type.
LEMMA TypedRows ==
  ASSUME AllTyped, NEW table, NEW i \in Rows(table)
  PROVE  i \in DOMAIN db /\ db[i].table = table /\ Typed(db[i])
BY DEF AllTyped, Rows

\* What most requests do: a plan, and then the commit.
LEMMA StartsDone ==
  ASSUME NEW r, NEW plan, Begin(r, plan, Done) \/ BeginLocked(r, plan, Done), Proper(r, plan)
  PROVE  Starts(r)
<1>1. Done[1] = "commit"
  BY DEF Done
<1>2. JobTyped(plan, Done)
  BY <1>1 DEF JobTyped
<1> QED
  BY <1>2 DEF Starts

-----------------------------------------------------------------------------
(* Ontologies.                                                             *)

LEMMA TypedOntology ==
  ASSUME NEW ns \in Namespaces, NEW head \in Labels \cup {None}
  PROVE  Typed(Ontology(ns, head))
<1> DEFINE row == Ontology(ns, head)
<1>1. /\ DOMAIN row = {"table", "ns", "head", "status", "rev"} /\ row.table = "ontology"
      /\ row.ns = ns /\ row.head = head /\ row.status = "DRAFT" /\ row.rev = 0
      /\ row = [c \in DOMAIN row |-> row[c]]
  BY DEF Ontology
<1> HIDE DEF row
<1>2. \A c \in DOMAIN row : OntologyValue("ontology", c, row[c])
  BY <1>1 DEF OntologyValue, OntologyStatus, Content
<1> QED
  BY <1>1, <1>2, OntologyValues, OntologyColumns DEF Typed, row

LEMMA TypedElement ==
  ASSUME NEW table \in Content, NEW o, NEW iri \in Iris \cup {None}, NEW ref \in Iris \cup {None},
         NEW link, NEW rev \in Revs(table)
  PROVE  Typed(Element(table, o, iri, ref, link, rev))
<1> DEFINE row == Element(table, o, iri, ref, link, rev)
<1>1. /\ DOMAIN row = {"table", "onto", "iri", "ref", "link", "rev"} /\ row.table = table
      /\ row.iri = iri /\ row.ref = ref /\ row.rev = rev
  BY DEF Element
<1> HIDE DEF row
<1>2. table \notin {"ontology", "version"} \cup Exact
  BY DEF Content, Exact
<1>3. \A c \in DOMAIN row : OntologyValue(table, c, row[c])
  BY <1>1, <1>2 DEF OntologyValue
<1> QED
  BY <1>1, <1>2, <1>3, OntologyValues, OntologyColumns DEF Typed, row

LEMMA TypedVersion ==
  ASSUME NEW o, NEW label \in Labels, NEW status \in {"DRAFT", "PUBLISHED"}, NEW at,
         status = "PUBLISHED" => at \in Nat, NEW snapshot, NEW base
  PROVE  Typed(Version(o, label, status, at, snapshot, base))
<1> DEFINE row == Version(o, label, status, at, snapshot, base)
<1>1. /\ DOMAIN row = {"table", "onto", "label", "status", "at", "snapshot", "base"}
      /\ row.table = "version" /\ row.label = label /\ row.status = status /\ row.at = at
  BY DEF Version
<1> HIDE DEF row
<1>2. \A c \in DOMAIN row : OntologyValue("version", c, row[c])
  BY <1>1 DEF OntologyValue, Content
<1> QED
  BY <1>1, <1>2, OntologyValues, OntologyColumns DEF Typed, Exact, row

\* What an ontology and a version may get.
LEMMA OntologySuits ==
  ASSUME NEW row, row.table = "ontology", NEW columns,
         DOMAIN columns \subseteq {"head", "status", "rev"},
         "head" \in DOMAIN columns => columns.head \in Labels,
         "status" \in DOMAIN columns => columns.status \in OntologyStatus,
         "rev" \in DOMAIN columns => columns.rev \in {0, 1}
  PROVE  Suits(row, columns)
<1>1. \A c \in DOMAIN columns : OntologyValue("ontology", c, columns[c])
  BY DEF OntologyValue, Content
<1> QED
  BY <1>1, OntologyValues, OntologyColumns DEF Suits

LEMMA VersionSuits ==
  ASSUME NEW row, row.table = "version", NEW columns,
         DOMAIN columns = {"snapshot"}
         \/ (DOMAIN columns = {"status", "at"} /\ columns.status = "PUBLISHED" /\ columns.at \in Nat)
  PROVE  Suits(row, columns)
<1>1. \A c \in DOMAIN columns : OntologyValue("version", c, columns[c])
  BY DEF OntologyValue, Content
<1> QED
  BY <1>1, OntologyValues, OntologyColumns DEF Suits

LEMMA OntologyTypes ==
  ASSUME Base, AllTyped, NEW r \in Requests, ContentRequest(r) \/ VersionRequest(r)
  PROVE  Starts(r)
<1>1. CASE CreateOntology(r)
  <2>1. PICK ns \in Namespaces : Begin(r, New(Ontology(ns, None)), Done)
    BY <1>1 DEF CreateOntology
  <2> QED
    BY <2>1, TypedOntology, ProperNew, StartsDone
<1>2. CASE UpdateOntology(r)
  <2>1. PICK o \in Rows("ontology") : Begin(r, Set(o, [rev |-> 1]), Done)
    BY <1>2 DEF UpdateOntology
  <2>2. o \in DOMAIN db /\ Suits(db[o], [rev |-> 1])
    BY TypedRows, OntologySuits
  <2> QED
    BY <2>1, <2>2, ProperSet, StartsDone
<1>3. CASE UpdateOntologyStatus(r)
  <2>1. PICK o \in Rows("ontology"), s \in OntologyStatus : Begin(r, Set(o, [status |-> s]), Done)
    BY <1>3 DEF UpdateOntologyStatus
  <2>2. o \in DOMAIN db /\ Suits(db[o], [status |-> s])
    BY TypedRows, OntologySuits
  <2> QED
    BY <2>1, <2>2, ProperSet, StartsDone
<1>4. CASE DeleteOntology(r) \/ DeleteClass(r) \/ DeleteProperty(r) \/ DeleteRelation(r)
           \/ DeleteConstraint(r)
  <2>1. PICK ids : Begin(r, Drop(ids), Done)
    BY <1>4 DEF DeleteOntology, DeleteClass, DeleteProperty, DeleteRelation, DeleteConstraint, Delete
  <2> QED
    BY <2>1, ProperDrop, StartsDone
<1>5. CASE CreateClass(r) \/ CreateProperty(r) \/ CreateRelation(r) \/ CreateConstraint(r)
  <2> DEFINE Given(row) == \E table \in Content, iri, ref \in Iris \cup {None} :
               \E rev \in Revs(table) : \E o, link : row = Element(table, o, iri, ref, link, rev)
  <2>1. /\ {"class", "property", "relation", "constraint"} \subseteq Content
        /\ 0 \in Revs("class") /\ 0 \in Revs("property") /\ 0 \in Revs("relation")
    BY DEF Content, Revs
  <2>2. \E row : Begin(r, New(row), Done) /\ Given(row)
    <3>1. CASE CreateClass(r)
      <4>1. PICK o \in Rows("ontology"), iri \in Iris, parent \in Iris \cup {None} :
              Begin(r, New(Element("class", o, iri, parent, None, 0)), Done)
        BY <3>1 DEF CreateClass
      <4>2. Given(Element("class", o, iri, parent, None, 0))
        BY <2>1
      <4> QED
        BY <4>1, <4>2
    <3>2. CASE CreateProperty(r)
      <4>1. PICK o \in Rows("ontology"), iri \in Iris, domain \in Iris \cup {None} :
              Begin(r, New(Element("property", o, iri, domain, ClassNamed(o, domain), 0)), Done)
        BY <3>2 DEF CreateProperty
      <4>2. Given(Element("property", o, iri, domain, ClassNamed(o, domain), 0))
        BY <2>1
      <4> QED
        BY <4>1, <4>2
    <3>3. CASE CreateRelation(r)
      <4>1. PICK o \in Rows("ontology"), iri \in Iris, source \in Iris :
              Begin(r, New(Element("relation", o, iri, source, None, 0)), Done)
        BY <3>3 DEF CreateRelation
      <4>2. Given(Element("relation", o, iri, source, None, 0))
        BY <2>1
      <4> QED
        BY <4>1, <4>2
    <3>4. CASE CreateConstraint(r)
      <4>1. PICK s \in Revs("constraint"), target \in Iris :
              \E o, of : Begin(r, New(Element("constraint", o, None, target, of, s)), Done)
        BY <3>4 DEF CreateConstraint
      <4>2. PICK o, of : Begin(r, New(Element("constraint", o, None, target, of, s)), Done)
        BY <4>1
      <4>3. Given(Element("constraint", o, None, target, of, s))
        BY <2>1
      <4> QED
        BY <4>2, <4>3
    <3> QED
      BY <1>5, <3>1, <3>2, <3>3, <3>4
  <2>3. PICK row : Begin(r, New(row), Done) /\ Given(row)
    BY <2>2
  <2>4. PICK table \in Content, iri \in Iris \cup {None}, ref \in Iris \cup {None} :
          \E rev \in Revs(table) : \E o, link : row = Element(table, o, iri, ref, link, rev)
    BY <2>3
  <2>5. Typed(row)
    BY <2>4, TypedElement
  <2> HIDE DEF Given
  <2> QED
    BY <2>3, <2>5, ProperNew, StartsDone
<1>6. CASE UpdateClass(r) \/ UpdateProperty(r) \/ UpdateConstraint(r)
  <2>0. PICK table \in Content :
          \E i \in Rows(table), rev \in Revs(table) : Begin(r, Set(i, [rev |-> rev]), Done)
    BY <1>6 DEF UpdateClass, UpdateProperty, UpdateConstraint, Edit, Content
  <2>1. PICK i \in Rows(table), rev \in Revs(table) : Begin(r, Set(i, [rev |-> rev]), Done)
    BY <2>0
  <2>2. i \in DOMAIN db /\ db[i].table = table
    BY TypedRows
  <2>3. Suits(db[i], [rev |-> rev])
    <3>1. table \notin {"ontology", "version"}
      BY DEF Content
    <3>2. OntologyValue(table, "rev", rev)
      BY <3>1 DEF OntologyValue
    <3> QED
      BY <2>2, <3>1, <3>2, OntologyValues, OntologyColumns DEF Suits
  <2> QED
    BY <2>1, <2>2, <2>3, ProperSet, StartsDone
<1>7. CASE ForkOntology(r)
  <2>1. PICK src \in Rows("ontology"), ns \in Namespaces, tag \in Labels :
          Begin(r, New(Ontology(ns, tag)), <<"fork", src, made + 1>>)
    BY <1>7 DEF ForkOntology
  <2>2. Proper(r, New(Ontology(ns, tag)))
    BY TypedOntology, ProperNew
  <2> DEFINE job == <<"fork", src, made + 1>>
             p == New(Ontology(ns, tag))
  <2>3. made + 1 \in DOMAIN p.insert /\ p.insert[made + 1] = Ontology(ns, tag)
    BY DEF New, NoPlan, Only
  <2>4. Ontology(ns, tag).table = "ontology" /\ Ontology(ns, tag).head \in Labels
    BY DEF Ontology
  <2>5. job[1] = "fork" /\ job[3] = made + 1
    OBVIOUS
  <2> HIDE DEF job, p
  <2>6. JobTyped(p, job)
    BY <2>3, <2>4, <2>5 DEF JobTyped
  <2> QED
    BY <2>1, <2>2, <2>6 DEF Starts, job, p
<1>8. CASE PublishOntology(r)
  <2>1. PICK o \in Rows("ontology"), label \in Labels :
          Begin(r, Set(o, [head |-> label, status |-> "PUBLISHED"]), <<"publish", o, label>>)
    BY <1>8 DEF PublishOntology
  <2>2. o \in DOMAIN db /\ Suits(db[o], [head |-> label, status |-> "PUBLISHED"])
    BY TypedRows, OntologySuits DEF OntologyStatus
  <2>3. \A p : JobTyped(p, <<"publish", o, label>>)
    BY DEF JobTyped
  <2> QED
    BY <2>1, <2>2, <2>3, ProperSet DEF Starts
<1>9. CASE CreateDraftVersion(r)
  <2>1. PICK label \in Labels :
          \E o, snapshot, base : Begin(r, New(Version(o, label, "DRAFT", None, snapshot, base)), Done)
    BY <1>9 DEF CreateDraftVersion
  <2>2. PICK o, snapshot, base : Begin(r, New(Version(o, label, "DRAFT", None, snapshot, base)), Done)
    BY <2>1
  <2> QED
    BY <2>2, TypedVersion, ProperNew, StartsDone
<1>10. CASE UpdateVersionContent(r)
  <2>1. PICK v \in Rows("version") : Begin(r, Set(v, [snapshot |-> {}]), Done)
    BY <1>10 DEF UpdateVersionContent
  <2>2. v \in DOMAIN db /\ Suits(db[v], [snapshot |-> {}])
    BY TypedRows, VersionSuits
  <2> QED
    BY <2>1, <2>2, ProperSet, StartsDone
<1>11. CASE PublishVersion(r)
  <2>1. PICK v \in Rows("version") :
          /\ db[v].onto \in Rows("ontology")
          /\ Begin(r, And(Set(v, [status |-> "PUBLISHED", at |-> made + 1]),
                          Set(db[v].onto, [head |-> db[v].label, status |-> "PUBLISHED"])), Done)
    BY <1>11 DEF PublishVersion
  <2> DEFINE o == db[v].onto
             p == Set(v, [status |-> "PUBLISHED", at |-> made + 1])
             q == Set(o, [head |-> db[v].label, status |-> "PUBLISHED"])
  <2>2. /\ v \in DOMAIN db /\ db[v].table = "version" /\ Typed(db[v])
        /\ o \in DOMAIN db /\ db[o].table = "ontology" /\ made + 1 \in Nat
    BY <2>1, TypedRows DEF Base
  <2>3. db[v].label \in Labels
    BY <2>2, OntologyColumns DEF Typed, Value, OntologyValue
  <2>4. Suits(db[v], [status |-> "PUBLISHED", at |-> made + 1])
    BY <2>2, VersionSuits
  <2>5. Suits(db[o], [head |-> db[v].label, status |-> "PUBLISHED"])
    BY <2>2, <2>3, OntologySuits DEF OntologyStatus
  <2>6. Proper(r, p) /\ Proper(r, q)
    BY <2>2, <2>4, <2>5, ProperSet
  <2>7. Begin(r, And(p, q), Done)
    BY <2>1
  <2> HIDE DEF o, p, q
  <2> QED
    BY <2>6, <2>7, ProperAnd, StartsDone
<1> QED
  BY <1>1, <1>2, <1>3, <1>4, <1>5, <1>6, <1>7, <1>8, <1>9, <1>10, <1>11
     DEF ContentRequest, VersionRequest

\* An element is copied with its columns.
LEMMA TypedForked ==
  ASSUME NEW e, Typed(e), e.table \in Content, NEW o, NEW ns \in Namespaces
  PROVE  Typed(Forked(e, o, ns))
<1> DEFINE row == Forked(e, o, ns)
<1>1. DOMAIN e = {"table", "onto", "iri", "ref", "link", "rev"}
  BY OntologyColumns DEF Typed
<1>2. e.iri \in Iris \cup {None} /\ e.ref \in Iris \cup {None} /\ e.rev \in Revs(e.table)
  BY <1>1 DEF Typed, Value, OntologyValue
<1>3. \A iri \in Iris \cup {None} : ForkIri(iri, ns) \in Iris \cup {None}
  BY DEF ForkIri, Iris
<1>4. DOMAIN row = DOMAIN e /\ row.table = e.table
  BY <1>1 DEF Forked
<1>5. row.iri = ForkIri(e.iri, ns) /\ row.rev = e.rev
  BY <1>1 DEF Forked
<1>6. row.ref \in {e.ref, ForkIri(e.ref, ns)}
  BY <1>1 DEF Forked
<1> HIDE DEF row
<1>7. /\ row.iri \in Iris \cup {None} /\ row.ref \in Iris \cup {None}
      /\ row.rev \in Revs(row.table)
  BY <1>2, <1>3, <1>4, <1>5, <1>6
<1>8. row.table \notin {"ontology", "version"} \cup Exact
  BY <1>4 DEF Content, Exact
<1>9. \A c \in DOMAIN row : OntologyValue(row.table, c, row[c])
  BY <1>7, <1>8 DEF OntologyValue
<1> QED
  BY <1>1, <1>4, <1>8, <1>9, OntologyValues, OntologyColumns DEF Typed, row

LEMMA ProperCopies ==
  ASSUME Base, NEW r \in Requests, NEW ids, ids \subseteq DOMAIN db, NEW o, NEW ns \in Namespaces,
         \A j \in ids : Typed(db[j]) /\ db[j].table \in Content
  PROVE  Proper(r, Copies(ids, o, ns))
<1> DEFINE ins == [i \in {made + j : j \in ids} |-> Forked(db[i - made], o, ns)]
<1>1. Copies(ids, o, ns) = [insert |-> ins, update |-> Nothing, delete |-> {}]
  <2>1. Copies(ids, o, ns) = [NoPlan EXCEPT !.insert = ins]
    BY Zenon DEF Copies
  <2> HIDE DEF ins
  <2> QED
    BY <2>1 DEF NoPlan
<1>2. made \in Nat /\ \A j \in ids : j \in 1 .. made
  BY DEF Base
<1>3. DOMAIN ins \subseteq 0 .. made + made /\ made + made \in Nat
  BY <1>2
<1>4. ASSUME NEW i \in DOMAIN ins PROVE Typed(ins[i]) /\ i \notin 1 .. made
  <2>1. PICK j \in ids : i = made + j
    BY <1>4
  <2>2. i \notin 1 .. made /\ i - made = j
    BY <1>2, <2>1
  <2>3. ins[i] = Forked(db[j], o, ns)
    BY <1>4, <2>2
  <2> HIDE DEF ins
  <2> QED
    BY <2>2, <2>3, TypedForked
<1> HIDE DEF ins
<1> QED
  BY <1>1, <1>3, <1>4 DEF Proper, Planned, IsPlan, Nothing

\* A job that rests on nothing.
Free(job) ==
  job[1] \notin {"publish", "publish rest", "fork", "copy", "copy rest", "callback", "provision",
                 "decide", "confirm"}

LEMMA FreeJob == ASSUME NEW p, NEW job, Free(job) PROVE JobTyped(p, job)
BY DEF Free, JobTyped

\* A request that goes on with a plan and a job of their types.
GoesOnTyped(r) ==
  \/ ReadsOn(r)
  \/ \E job : Flush(r, job) /\ JobTyped(session[r].plan, job)
  \/ \E job : CommitAndGoOn(r, job) /\ Free(job)

LEMMA ReadsOnDone ==
  ASSUME NEW r, NEW plan, Continue(r, plan, Done), Proper(r, plan)
  PROVE  ReadsOn(r)
<1>1. Done[1] = "commit"
  BY DEF Done
<1>2. JobTyped(plan, Done)
  BY <1>1 DEF JobTyped
<1> QED
  BY <1>2 DEF ReadsOn

LEMMA OwnPlan ==
  ASSUME AllTyped, NEW r \in Requests
  PROVE  Proper(r, session[r].plan) /\ JobTyped(session[r].plan, session[r].job)
BY DEF AllTyped, Proper

LEMMA OntologyStepTypes ==
  ASSUME Base, AllTyped, NEW r \in Requests, OntologyStep(r)
  PROVE  GoesOnTyped(r)
<1> DEFINE job == session[r].job
           plan == session[r].plan
<1>1. Proper(r, plan) /\ JobTyped(plan, job)
  BY OwnPlan
<1>2. ASSUME NEW o PROVE /\ Elements(o) \subseteq DOMAIN db
                         /\ \A j \in Elements(o) : Typed(db[j]) /\ db[j].table \in Content
                         /\ Of(o, "class") \subseteq Elements(o)
  BY DEF Elements, Of, Rows, AllTyped, Content
<1>3. ASSUME job[1] \in {"copy", "copy rest"}
      PROVE  /\ job[3] \in DOMAIN plan.insert
             /\ plan.insert[job[3]].table = "ontology"
             /\ plan.insert[job[3]].ns \in Namespaces
             /\ plan.insert[job[3]].head \in Labels
  <2>1. /\ job[3] \in DOMAIN plan.insert /\ plan.insert[job[3]].table = "ontology"
        /\ plan.insert[job[3]].head \in Labels
    BY <1>1, <1>3 DEF JobTyped
  <2>2. Typed(plan.insert[job[3]])
    BY <1>1, <2>1 DEF Proper, Planned
  <2> QED
    BY <2>1, <2>2, OntologyColumns DEF Typed, Value, OntologyValue
<1>4. CASE PublishReadsClasses(r)
  <2>1. job[1] = "publish" /\ job[3] \in Labels
    BY <1>1, <1>4 DEF PublishReadsClasses, JobTyped
  <2>2. PICK o, seen : Continue(r, plan, <<"publish rest", o, job[3], seen>>)
    BY <1>4 DEF PublishReadsClasses
  <2>3. JobTyped(plan, <<"publish rest", o, job[3], seen>>)
    BY <2>1 DEF JobTyped
  <2> HIDE DEF plan, job
  <2>4. ReadsOn(r)
    BY <1>1, <2>2, <2>3 DEF ReadsOn
  <2> QED
    BY <2>4 DEF GoesOnTyped
<1>5. CASE PublishReadsRest(r)
  <2>1. job[1] = "publish rest" /\ job[3] \in Labels
    BY <1>1, <1>5 DEF PublishReadsRest, JobTyped
  <2>2. PICK o, snapshot :
          Continue(r, AndNew(plan, Version(o, job[3], "PUBLISHED", made, snapshot, None)), Done)
    BY <1>5 DEF PublishReadsRest
  <2>3. Typed(Version(o, job[3], "PUBLISHED", made, snapshot, None))
    BY <2>1, TypedVersion DEF Base
  <2> HIDE DEF plan, job
  <2>4. ReadsOn(r)
    BY <1>1, <2>2, <2>3, ProperAndNew, ReadsOnDone
  <2> QED
    BY <2>4 DEF GoesOnTyped
<1>6. CASE ForkFlushes(r)
  <2>1. job[1] = "fork" /\ Flush(r, [job EXCEPT ![1] = "copy"])
    BY <1>6 DEF ForkFlushes
  <2>2. [job EXCEPT ![1] = "copy"][3] = job[3]
    OBVIOUS
  <2>3. [job EXCEPT ![1] = "copy"][1] \in {"copy", job[1]}
    OBVIOUS
  <2>4. /\ job[3] \in DOMAIN plan.insert /\ plan.insert[job[3]].table = "ontology"
        /\ plan.insert[job[3]].head \in Labels
    BY <1>1, <2>1 DEF JobTyped
  <2> HIDE DEF plan, job
  <2>5. JobTyped(plan, [job EXCEPT ![1] = "copy"])
    BY <2>1, <2>2, <2>3, <2>4 DEF JobTyped
  <2> QED
    BY <2>1, <2>5 DEF GoesOnTyped, plan
<1>7. CASE ForkCopiesClasses(r)
  <2> DEFINE classes == Of(job[2], "class")
             ns == plan.insert[job[3]].ns
             new == And(plan, Copies(classes, job[3], ns))
             next == <<"copy rest", job[2], job[3], Snapshot(classes)>>
  <2>1. job[1] = "copy" /\ Continue(r, new, next)
    BY <1>7 DEF ForkCopiesClasses
  <2>2. /\ classes \subseteq DOMAIN db
        /\ \A j \in classes : Typed(db[j]) /\ db[j].table \in Content
    BY <1>2
  <2>3. ns \in Namespaces
    BY <1>3, <2>1
  <2>4. Proper(r, Copies(classes, job[3], ns))
    BY <2>2, <2>3, ProperCopies
  <2>5. Proper(r, new)
    BY <1>1, <2>4, ProperAnd
  <2>6. job[3] \in DOMAIN new.insert /\ new.insert[job[3]] = plan.insert[job[3]]
    BY <1>3, <2>1 DEF And, Over
  <2>7. next[1] = "copy rest" /\ next[3] = job[3]
    OBVIOUS
  <2> HIDE DEF new, next
  <2>8. JobTyped(new, next)
    BY <1>3, <2>1, <2>6, <2>7 DEF JobTyped
  <2>9. ReadsOn(r)
    BY <2>1, <2>5, <2>8 DEF ReadsOn
  <2> QED
    BY <2>9 DEF GoesOnTyped
<1>8. CASE ForkCopiesRest(r)
  <2> DEFINE rest == Elements(job[2]) \ Of(job[2], "class")
             fork == plan.insert[job[3]]
             copied == And(plan, Copies(rest, job[3], fork.ns))
             version == Version(job[3], fork.head, "DRAFT", None,
                                job[4] \cup Snapshot(rest), job[2])
  <2>1. job[1] = "copy rest" /\ Continue(r, AndNew(copied, version), Done)
    BY <1>8 DEF ForkCopiesRest
  <2>2. /\ rest \subseteq DOMAIN db
        /\ \A j \in rest : Typed(db[j]) /\ db[j].table \in Content
    BY <1>2
  <2>3. fork.ns \in Namespaces
    BY <1>3, <2>1
  <2>4. Proper(r, Copies(rest, job[3], fork.ns))
    BY <2>2, <2>3, ProperCopies
  <2>5. Proper(r, copied)
    BY <1>1, <2>4, ProperAnd
  <2>6. fork.head \in Labels
    BY <1>3, <2>1
  <2>7. Typed(version)
    BY <2>6, TypedVersion
  <2> HIDE DEF copied, version
  <2>8. ReadsOn(r)
    BY <2>1, <2>5, <2>7, ProperAndNew, ReadsOnDone
  <2> QED
    BY <2>8 DEF GoesOnTyped
<1> QED
  BY <1>4, <1>5, <1>6, <1>7, <1>8 DEF OntologyStep

-----------------------------------------------------------------------------
(* Releases.                                                               *)

LEMMA FreeJobs ==
  /\ Free(Done)
  /\ \A n : Free(<<"commit", n>>) /\ Free(<<"test", n>>)
  /\ \A event, n : Free(<<"announce", event, n>>)
  /\ \A target, after, again : Free(<<"audit", target, after, again>>)
BY DEF Free, Done

LEMMA StartsFree ==
  ASSUME NEW r, NEW plan, NEW job, Begin(r, plan, job) \/ BeginLocked(r, plan, job),
         Proper(r, plan), Free(job)
  PROVE  Starts(r)
BY FreeJob DEF Starts

\* The tables of this component have columns of no other.
LEMMA ReleaseSuits ==
  ASSUME NEW row, row.table \in {"release", "report", "deployment", "bundle", "webhook"},
         NEW columns, DOMAIN columns \subseteq Columns(row.table) \ {"table"},
         \A c \in DOMAIN columns : ReleaseValue(row.table, c, columns[c])
  PROVE  Suits(row, columns)
BY ReleaseValues DEF Suits

LEMMA TypedRelease ==
  ASSUME NEW row, row.table \in {"release", "report", "deployment", "bundle", "webhook"},
         DOMAIN row = Columns(row.table),
         \A c \in DOMAIN row : ReleaseValue(row.table, c, row[c])
  PROVE  Typed(row)
BY ReleaseValues DEF Typed, Exact

LEMMA ReleaseTypes ==
  ASSUME Base, AllTyped, NEW r \in Requests, ReleaseRequest(r)
  PROVE  Starts(r)
<1>1. CASE CreateWebhook(r)
  <2>1. PICK events \in Subscriptions, k \in 0 .. MaxRetries :
          BeginLocked(r, New(Webhook("second", events, k)), Done)
    BY <1>1 DEF CreateWebhook
  <2>2. Typed(Webhook("second", events, k))
    BY ReleaseColumns, TypedRelease DEF Webhook, ReleaseValue
  <2> QED
    BY <2>1, <2>2, ProperNew, StartsDone
<1>2. CASE UpdateWebhook(r)
  <2> DEFINE Given(columns) ==
               /\ DOMAIN columns \subseteq {"events", "retries", "enabled"}
               /\ "events" \in DOMAIN columns => columns.events \in Subscriptions
               /\ "retries" \in DOMAIN columns => columns.retries \in 0 .. MaxRetries
  <2>1. PICK w \in Rows("webhook") :
          \/ \E events \in Subscriptions : BeginLocked(r, Set(w, [events |-> events]), Done)
          \/ \E k \in 0 .. MaxRetries : BeginLocked(r, Set(w, [retries |-> k]), Done)
          \/ BeginLocked(r, Set(w, [enabled |-> ~db[w].enabled]), Done)
    BY <1>2 DEF UpdateWebhook
  <2>2. /\ \A events \in Subscriptions : Given([events |-> events])
        /\ \A k \in 0 .. MaxRetries : Given([retries |-> k])
        /\ Given([enabled |-> ~db[w].enabled])
    OBVIOUS
  <2>3. w \in DOMAIN db /\ db[w].table = "webhook"
    BY TypedRows
  <2>4. ASSUME NEW columns, Given(columns) PROVE Suits(db[w], columns)
    BY <2>3, <2>4, ReleaseColumns, ReleaseSuits DEF ReleaseValue
  <2> HIDE DEF Given
  <2>5. PICK columns : Given(columns) /\ BeginLocked(r, Set(w, columns), Done)
    BY <2>1, <2>2
  <2> QED
    BY <2>3, <2>4, <2>5, ProperSet, StartsDone
<1>3. CASE DeleteWebhook(r)
  <2>1. PICK ids : BeginLocked(r, Drop(ids), Done)
    BY <1>3 DEF DeleteWebhook
  <2> QED
    BY <2>1, ProperDrop, StartsDone
<1>4. CASE CreateRelease(r)
  <2>1. PICK label \in ReleaseLabels : Begin(r, New(Release(label)), Done)
    BY <1>4 DEF CreateRelease
  <2>2. Typed(Release(label))
    BY ReleaseColumns, TypedRelease DEF Release, ReleaseValue
  <2> QED
    BY <2>1, <2>2, ProperNew, StartsDone
<1>5. CASE UpdateRelease(r) \/ DownloadRelease(r) \/ PublishRelease(r)
  <2> DEFINE Given(columns) ==
               /\ DOMAIN columns \subseteq {"text", "checksum", "status"}
               /\ "text" \in DOMAIN columns => columns.text \in {0, 1}
               /\ "status" \in DOMAIN columns => columns.status = "RELEASED"
  <2>1. ASSUME NEW i \in Rows("release")
        PROVE  /\ Given([text |-> 1 - db[i].text])
               /\ Given([checksum |-> Checksum(i)])
               /\ Given([status |-> "RELEASED", checksum |-> Checksum(i)])
    <3>1. db[i].table = "release" /\ Typed(db[i])
      BY TypedRows
    <3>2. db[i].text \in {0, 1}
      BY <3>1, ReleaseColumns DEF Typed, Value, ReleaseValue
    <3>3. 1 - db[i].text \in {0, 1}
      BY <3>2
    <3> QED
      BY <3>3
  <2>2. ASSUME NEW i \in Rows("release"), NEW columns, Given(columns)
        PROVE  i \in DOMAIN db /\ Suits(db[i], columns)
    <3>1. i \in DOMAIN db /\ db[i].table = "release"
      BY TypedRows
    <3> QED
      BY <2>2, <3>1, ReleaseColumns, ReleaseSuits DEF ReleaseValue
  <2> HIDE DEF Given
  <2>3. PICK i \in Rows("release") :
          \E columns, job : Given(columns) /\ Begin(r, Set(i, columns), job) /\ Free(job)
    BY <1>5, <2>1, FreeJobs DEF UpdateRelease, DownloadRelease, PublishRelease
  <2>4. PICK columns, job : Given(columns) /\ Begin(r, Set(i, columns), job) /\ Free(job)
    BY <2>3
  <2> QED
    BY <2>2, <2>4, ProperSet, StartsFree
<1>6. CASE RunPreflight(r)
  <2>1. PICK i \in Rows("release") :
          Begin(r, And(New([table |-> "report", release |-> i]), Set(i, [results |-> made + 1])),
                Done)
    BY <1>6 DEF RunPreflight
  <2>2. i \in DOMAIN db /\ db[i].table = "release"
    BY TypedRows
  <2>3. Suits(db[i], [results |-> made + 1])
    BY <2>2, ReleaseColumns, ReleaseSuits DEF ReleaseValue
  <2>4. Typed([table |-> "report", release |-> i])
    BY ReleaseColumns, TypedRelease DEF ReleaseValue
  <2> QED
    BY <2>1, <2>2, <2>3, <2>4, ProperNew, ProperSet, ProperAnd, StartsDone
<1>7. CASE CreateDeployment(r)
  <2>1. PICK i : Begin(r, New([table |-> "deployment", release |-> i, status |-> "SUCCEEDED"]),
                       <<"announce", "deployment.succeeded", made + 1>>)
    BY <1>7 DEF CreateDeployment
  <2>2. Typed([table |-> "deployment", release |-> i, status |-> "SUCCEEDED"])
    BY ReleaseColumns, TypedRelease DEF ReleaseValue, DeploymentStatus
  <2> QED
    BY <2>1, <2>2, ProperNew, StartsFree, FreeJobs
<1>8. CASE UpdateDeployment(r) \/ RollbackDeployment(r)
  <2>1. PICK i \in Rows("deployment"), s \in DeploymentStatus :
          \E job : Begin(r, Set(i, [status |-> s]), job) /\ Free(job)
    BY <1>8, FreeJobs DEF UpdateDeployment, RollbackDeployment, DeploymentStatus
  <2>2. PICK job : Begin(r, Set(i, [status |-> s]), job) /\ Free(job)
    BY <2>1
  <2>3. i \in DOMAIN db /\ db[i].table = "deployment"
    BY TypedRows
  <2>4. Suits(db[i], [status |-> s])
    BY <2>3, ReleaseColumns, ReleaseSuits DEF ReleaseValue
  <2> QED
    BY <2>2, <2>3, <2>4, ProperSet, StartsFree
<1>9. CASE CreateUseCaseBundle(r)
  <2>1. PICK i : Begin(r, New([table |-> "bundle", release |-> i]), Done)
    BY <1>9 DEF CreateUseCaseBundle
  <2>2. Typed([table |-> "bundle", release |-> i])
    BY ReleaseColumns, TypedRelease DEF ReleaseValue
  <2> QED
    BY <2>1, <2>2, ProperNew, StartsDone
<1>10. CASE TestWebhook(r)
  <2>1. BeginLocked(r, NoPlan, <<"test", made + 1>>)
    BY <1>10 DEF TestWebhook
  <2> QED
    BY <2>1, ProperNothing, StartsFree, FreeJobs
<1> QED
  BY <1>1, <1>2, <1>3, <1>4, <1>5, <1>6, <1>7, <1>8, <1>9, <1>10 DEF ReleaseRequest

LEMMA ReleaseStepTypes ==
  ASSUME NEW r, ReleaseStep(r)
  PROVE  GoesOnTyped(r)
<1>1. CASE FlushAndAnnounce(r)
  <2>1. PICK n : Flush(r, <<"commit", n>>)
    BY <1>1 DEF FlushAndAnnounce
  <2>2. JobTyped(session[r].plan, <<"commit", n>>)
    BY FreeJob, FreeJobs
  <2> QED
    BY <2>1, <2>2 DEF GoesOnTyped
<1>2. CASE TestReturns(r)
  <2>1. Continue(r, NoPlan, Done)
    BY <1>2 DEF TestReturns
  <2> QED
    BY <2>1, ProperNothing, ReadsOnDone DEF GoesOnTyped
<1> QED
  BY <1>1, <1>2 DEF ReleaseStep

-----------------------------------------------------------------------------
(* Members, and the audit chain.                                           *)

LEMMA TypedEntry ==
  ASSUME Base, NEW target, NEW after
  PROVE  Typed(AuditEntry(target, after))
<1> DEFINE row == AuditEntry(target, after)
<1>1. LatestEntry \in Nat \cup {None}
  <2>1. made \in Nat /\ Entries \subseteq 0 .. made
    BY DEF Base, Entries, Rows
  <2>2. ASSUME Entries # {} PROVE Newest(Entries) \in Nat
    <3>1. Newest(Entries) \in Entries
      BY <2>1, <2>2, NewestIs
    <3>2. Newest(Entries) \in 0 .. made
      BY <2>1, <3>1
    <3> QED
      BY <2>1, <3>2
  <2> QED
    BY <2>2 DEF LatestEntry
<1>2. /\ DOMAIN row = {"table", "prev", "hashed", "target", "after"} /\ row.table = "audit"
      /\ row.prev = LatestEntry /\ row.hashed = TRUE
  BY DEF AuditEntry
<1> HIDE DEF row
<1>3. \A c \in DOMAIN row : AuditedValue("audit", c, row[c])
  BY <1>1, <1>2 DEF AuditedValue
<1> QED
  BY <1>2, <1>3, AuditedValues, AuditedColumns DEF Typed, Exact, row

LEMMA ProperNewEntry ==
  ASSUME Base, NEW r, NEW target, NEW after
  PROVE  Proper(r, New(AuditEntry(target, after)))
BY TypedEntry, ProperNew

LEMMA ProperWithEntry ==
  ASSUME Base, NEW r, NEW p, Proper(r, p), NEW target, NEW after
  PROVE  /\ Proper(r, And(p, New(AuditEntry(target, after))))
         /\ Proper(r, AndNew(p, AuditEntry(target, after)))
         /\ Proper(r, AndEntry(p, after))
<1>1. \A t : Typed(AuditEntry(t, after))
  BY TypedEntry
<1> QED
  BY <1>1, ProperNew, ProperAnd, ProperAndNew DEF AndEntry

LEMMA ProperUser ==
  ASSUME Base, NEW r, NEW u \in Users
  PROVE  Proper(r, EnsureUser(u))
<1> DEFINE row == [table |-> "user", user |-> u]
<1>1. DOMAIN row = {"table", "user"} /\ row.table = "user" /\ row.user = u
  OBVIOUS
<1> HIDE DEF row
<1>2. \A c \in DOMAIN row : AuditedValue("user", c, row[c])
  BY <1>1 DEF AuditedValue
<1>3. Typed(row)
  BY <1>1, <1>2, AuditedValues, AuditedColumns DEF Typed, Exact
<1>4. EnsureUser(u) = NoPlan \/ EnsureUser(u) = New(row)
  BY DEF EnsureUser, row
<1> QED
  BY <1>3, <1>4, ProperNew, ProperNothing

LEMMA UsersAreKnown ==
  ASSUME AllTyped
  PROVE  KnownUsers \subseteq Users
<1> SUFFICES ASSUME NEW i \in Rows("user") PROVE db[i].user \in Users
  BY DEF KnownUsers
<1>1. db[i].table = "user" /\ Typed(db[i])
  BY TypedRows
<1> QED
  BY <1>1, AuditedColumns DEF Typed, Value, AuditedValue

LEMMA MemberSuits ==
  ASSUME NEW row, row.table = "member", NEW columns,
         DOMAIN columns \subseteq {"role", "active"},
         "role" \in DOMAIN columns => columns.role \in Roles,
         "active" \in DOMAIN columns => columns.active \in BOOLEAN
  PROVE  Suits(row, columns)
<1>1. \A c \in DOMAIN columns : AuditedValue("member", c, columns[c])
  BY DEF AuditedValue
<1> QED
  BY <1>1, AuditedValues, AuditedColumns DEF Suits

LEMMA MemberTypes ==
  ASSUME Base, AllTyped, NEW r \in Requests, MemberRequest(r)
  PROVE  Starts(r)
<1> DEFINE Edited(m, columns, after) == And(Set(m, columns), New(AuditEntry(m, after)))
<1>1. ASSUME NEW m, m \in Rows("member"), NEW columns, NEW after,
             DOMAIN columns \subseteq {"role", "active"},
             "role" \in DOMAIN columns => columns.role \in Roles,
             "active" \in DOMAIN columns => columns.active \in BOOLEAN
      PROVE  Proper(r, Edited(m, columns, after))
  <2>1. m \in DOMAIN db /\ Suits(db[m], columns)
    BY <1>1, TypedRows, MemberSuits
  <2> QED
    BY <2>1, ProperSet, ProperWithEntry
<1>2. CASE InviteMember(r)
  <2>1. PICK u \in Users, role \in Roles :
          \/ \E after : BeginLocked(r, AndEntry(AndNew(EnsureUser(u),
                 [table |-> "member", user |-> u, role |-> role, active |-> TRUE]), after), Done)
          \/ \E m \in MemberRow(u) :
               BeginLocked(r, Edited(m, [role |-> role, active |-> TRUE], <<role, TRUE>>), Done)
    BY <1>2 DEF InviteMember
  <2> DEFINE row == [table |-> "member", user |-> u, role |-> role, active |-> TRUE]
  <2>2. CASE \E after : BeginLocked(r, AndEntry(AndNew(EnsureUser(u), row), after), Done)
    <3>1. PICK after : BeginLocked(r, AndEntry(AndNew(EnsureUser(u), row), after), Done)
      BY <2>2
    <3>2. /\ DOMAIN row = {"table", "user", "role", "active"} /\ row.table = "member"
          /\ row.user = u /\ row.role = role /\ row.active = TRUE
          /\ row = [c \in DOMAIN row |-> row[c]]
      OBVIOUS
    <3> HIDE DEF row
    <3>3. \A c \in DOMAIN row : AuditedValue("member", c, row[c])
      BY <3>2 DEF AuditedValue
    <3>4. Typed(row)
      BY <3>2, <3>3, AuditedValues, AuditedColumns DEF Typed
    <3> QED
      BY <3>1, <3>4, ProperUser, ProperAndNew, ProperWithEntry, StartsDone
  <2>3. CASE \E m \in MemberRow(u) :
               BeginLocked(r, Edited(m, [role |-> role, active |-> TRUE], <<role, TRUE>>), Done)
    <3>1. PICK m \in MemberRow(u) :
            BeginLocked(r, Edited(m, [role |-> role, active |-> TRUE], <<role, TRUE>>), Done)
      BY <2>3
    <3>2. Proper(r, Edited(m, [role |-> role, active |-> TRUE], <<role, TRUE>>))
      BY <1>1 DEF MemberRow
    <3> HIDE DEF Edited
    <3> QED
      BY <3>1, <3>2, StartsDone
  <2> HIDE DEF Edited
  <2> QED
    BY <2>1, <2>2, <2>3
<1>3. CASE UpdateMemberRole(r)
  <2>1. PICK m \in Rows("member"), role \in Roles :
          BeginLocked(r, Edited(m, [role |-> role], <<role, db[m].active>>), Done)
    BY <1>3 DEF UpdateMemberRole
  <2>2. Proper(r, Edited(m, [role |-> role], <<role, db[m].active>>))
    BY <1>1
  <2> HIDE DEF Edited
  <2> QED
    BY <2>1, <2>2, StartsDone
<1>4. CASE RemoveMember(r)
  <2>1. PICK m \in Rows("member") :
          BeginLocked(r, Edited(m, [active |-> FALSE], <<db[m].role, FALSE>>), Done)
    BY <1>4 DEF RemoveMember
  <2>2. Proper(r, Edited(m, [active |-> FALSE], <<db[m].role, FALSE>>))
    BY <1>1
  <2> HIDE DEF Edited
  <2> QED
    BY <2>1, <2>2, StartsDone
<1> QED
  BY <1>2, <1>3, <1>4 DEF MemberRequest

LEMMA AuditStepTypes ==
  ASSUME Base, NEW r \in Requests, AuditStep(r)
  PROVE  GoesOnTyped(r)
<1>1. CASE CommitThenAudit(r)
  <2> DEFINE job == session[r].job
  <2>1. job[1] = "audit" /\ CommitAndGoOn(r, [job EXCEPT ![1] = "record"])
    BY <1>1 DEF CommitThenAudit
  <2>2. [job EXCEPT ![1] = "record"][1] \in {"record", job[1]}
    OBVIOUS
  <2>3. Free([job EXCEPT ![1] = "record"])
    BY <2>1, <2>2 DEF Free
  <2> HIDE DEF job
  <2> QED
    BY <2>1, <2>3 DEF GoesOnTyped
<1>2. CASE RecordAudit(r)
  <2>1. PICK target, after : Continue(r, New(AuditEntry(target, after)), Done)
    BY <1>2 DEF RecordAudit
  <2> QED
    BY <2>1, ProperNewEntry, ReadsOnDone DEF GoesOnTyped
<1> QED
  BY <1>1, <1>2 DEF AuditStep

-----------------------------------------------------------------------------
(* Objects.                                                                *)

LEMMA TypedObject ==
  ASSUME NEW key \in Keys \cup {None} PROVE Typed(Object(key))
<1> DEFINE row == Object(key)
<1>1. /\ DOMAIN row = {"table", "key", "rev", "deleted"} /\ row.table = "object"
      /\ row.key = key /\ row.rev = 0 /\ row.deleted = FALSE
      /\ row = [c \in DOMAIN row |-> row[c]]
  BY DEF Object
<1> HIDE DEF row
<1>2. \A c \in DOMAIN row : ObjectValue("object", c, row[c])
  BY <1>1 DEF ObjectValue
<1> QED
  BY <1>1, <1>2, ObjectValues, AuditedColumns DEF Typed, row

LEMMA TypedLink == ASSUME NEW s, NEW t PROVE Typed(Link(s, t))
<1> DEFINE row == Link(s, t)
<1>1. DOMAIN row = {"table", "source", "target", "rev"} /\ row.table = "link" /\ row.rev = 0
  BY DEF Link
<1> HIDE DEF row
<1>2. \A c \in DOMAIN row : ObjectValue("link", c, row[c])
  BY <1>1 DEF ObjectValue
<1> QED
  BY <1>1, <1>2, ObjectValues, AuditedColumns DEF Typed, Exact, row

\* The payload of an object or a link, and the mark of a deleted object.
LEMMA ObjectSuits ==
  ASSUME AllTyped, NEW i, i \in Rows("object") \/ i \in Rows("link")
  PROVE  /\ i \in DOMAIN db
         /\ Suits(db[i], [rev |-> 1 - db[i].rev])
         /\ i \in Rows("object") => Suits(db[i], [deleted |-> TRUE])
<1>1. i \in DOMAIN db /\ db[i].table \in {"object", "link"} /\ Typed(db[i])
  BY TypedRows
<1>2. db[i].rev \in {0, 1}
  BY <1>1, AuditedColumns DEF Typed, Value, ObjectValue
<1>3. 1 - db[i].rev \in {0, 1}
  BY <1>2
<1>4. Suits(db[i], [rev |-> 1 - db[i].rev])
  <2>1. ObjectValue(db[i].table, "rev", 1 - db[i].rev)
    BY <1>1, <1>3 DEF ObjectValue
  <2> QED
    BY <1>1, <2>1, ObjectValues, AuditedColumns DEF Suits
<1>5. i \in Rows("object") => Suits(db[i], [deleted |-> TRUE])
  <2> SUFFICES ASSUME i \in Rows("object") PROVE Suits(db[i], [deleted |-> TRUE])
    OBVIOUS
  <2> DEFINE columns == [deleted |-> TRUE]
  <2>1. DOMAIN columns = {"deleted"} /\ columns.deleted = TRUE /\ db[i].table = "object"
    BY DEF Rows
  <2> HIDE DEF columns
  <2>2. \A c \in DOMAIN columns : ObjectValue("object", c, columns[c])
    BY <2>1 DEF ObjectValue
  <2>3. DOMAIN columns \subseteq Columns("object") \ {"table"}
    BY <2>1, AuditedColumns
  <2>4. Suits(db[i], columns)
    BY <2>1, <2>2, <2>3, ObjectValues DEF Suits
  <2> QED
    BY <2>4 DEF columns
<1> QED
  BY <1>1, <1>4, <1>5

LEMMA UpdateTypes ==
  ASSUME Base, AllTyped, NEW r \in Requests,
         NEW i, i \in Rows("object") \/ i \in Rows("link"), Update(r, i)
  PROVE  Starts(r)
<1>1. BeginLocked(r, Set(i, [rev |-> 1 - db[i].rev]), <<"audit", i, "update", TRUE>>)
  BY DEF Update, Audited
<1> QED
  BY <1>1, ObjectSuits, ProperSet, StartsFree, FreeJobs

LEMMA ObjectTypes ==
  ASSUME Base, AllTyped, NEW r \in Requests, ObjectRequest(r)
  PROVE  Starts(r)
<1>1. Visible \subseteq Rows("object") /\ \A key : Keyed(key) \subseteq Rows("object")
  BY DEF Visible, Keyed
<1>2. CASE CreateObject(r)
  <2>1. CASE \E key \in Keys \cup {None} : BeginLocked(r, AndEntry(New(Object(key)), "create"), Done)
    BY <2>1, TypedObject, ProperNew, ProperWithEntry, StartsDone
  <2>2. CASE \E key \in Keys : \E i \in Keyed(key) : Update(r, i)
    BY <1>1, <2>2, UpdateTypes
  <2> QED
    BY <1>2, <2>1, <2>2 DEF CreateObject
<1>3. CASE UpdateObject(r) \/ UpdateLink(r)
  BY <1>1, <1>3, UpdateTypes DEF UpdateObject, UpdateLink
<1>4. CASE BulkUpsert(r)
  <2>1. PICK key \in Keys : \E plan :
          /\ BeginLocked(r, plan, <<"audit", None, "update", FALSE>>)
          /\ \/ plan \in {AndNew(New(Object(key)), Object(key)), New(Object(key)), NoPlan}
             \/ \E i \in Keyed(key) : plan = Set(i, [rev |-> 1 - db[i].rev])
    <3>1. PICK key \in Keys : \E twice \in BOOLEAN :
            BeginLocked(r, IF Keyed(key) = {}
                           THEN IF twice THEN AndNew(New(Object(key)), Object(key))
                                ELSE New(Object(key))
                           ELSE IF Cardinality(Keyed(key)) = 1
                           THEN Set(CHOOSE i \in Keyed(key) : TRUE,
                                    [rev |-> 1 - db[CHOOSE i \in Keyed(key) : TRUE].rev])
                           ELSE NoPlan,
                        <<"audit", None, "update", FALSE>>)
      BY <1>4 DEF BulkUpsert
    <3>2. Keyed(key) # {} => (CHOOSE i \in Keyed(key) : TRUE) \in Keyed(key)
      OBVIOUS
    <3> QED
      BY <3>1, <3>2
  <2>2. PICK plan :
          /\ BeginLocked(r, plan, <<"audit", None, "update", FALSE>>)
          /\ \/ plan \in {AndNew(New(Object(key)), Object(key)), New(Object(key)), NoPlan}
             \/ \E i \in Keyed(key) : plan = Set(i, [rev |-> 1 - db[i].rev])
    BY <2>1
  <2>3. Proper(r, plan)
    <3>1. CASE plan \in {AndNew(New(Object(key)), Object(key)), New(Object(key)), NoPlan}
      BY <3>1, TypedObject, ProperNew, ProperAndNew, ProperNothing
    <3>2. CASE \E i \in Keyed(key) : plan = Set(i, [rev |-> 1 - db[i].rev])
      BY <1>1, <3>2, ObjectSuits, ProperSet
    <3> QED
      BY <2>2, <3>1, <3>2
  <2> QED
    BY <2>2, <2>3, StartsFree, FreeJobs
<1>5. CASE SoftDeleteObject(r)
  <2>1. PICK i \in Visible :
          BeginLocked(r, Set(i, [deleted |-> TRUE]), <<"audit", i, "delete", FALSE>>)
    BY <1>5 DEF SoftDeleteObject
  <2> QED
    BY <1>1, <2>1, ObjectSuits, ProperSet, StartsFree, FreeJobs
<1>6. CASE HardDeleteObject(r) \/ DeleteLink(r)
  <2>1. PICK i, ids : BeginLocked(r, Drop(ids), <<"audit", i, "delete", FALSE>>)
    BY <1>6 DEF HardDeleteObject, DeleteLink
  <2> QED
    BY <2>1, ProperDrop, StartsFree, FreeJobs
<1>7. CASE CreateLink(r)
  <2>1. CASE \E s, t : BeginLocked(r, AndEntry(New(Link(s, t)), "create"), Done)
    BY <2>1, TypedLink, ProperNew, ProperWithEntry, StartsDone
  <2>2. CASE \E l \in Rows("link") : Update(r, l)
    BY <2>2, UpdateTypes
  <2> QED
    BY <1>7, <2>1, <2>2 DEF CreateLink
<1> QED
  BY <1>2, <1>3, <1>4, <1>5, <1>6, <1>7 DEF ObjectRequest

-----------------------------------------------------------------------------
(* Workspaces.                                                             *)

LEMMA TypedWorkspace ==
  ASSUME NEW slug \in Slugs, NEW u \in Users PROVE Typed(Workspace(slug, u))
<1> DEFINE row == Workspace(slug, u)
<1>1. /\ DOMAIN row = {"table", "slug", "owner", "deleted", "rev"} /\ row.table = "workspace"
      /\ row.slug = slug /\ row.owner = u /\ row.deleted = FALSE /\ row.rev = 0
      /\ row = [c \in DOMAIN row |-> row[c]]
  BY DEF Workspace
<1> HIDE DEF row
<1>2. \A c \in DOMAIN row : WorkspaceValue("workspace", c, row[c])
  BY <1>1 DEF WorkspaceValue
<1> QED
  BY <1>1, <1>2, WorkspaceValues, WorkspaceColumns DEF Typed, row

\* Rows of the other tables of this component.
LEMMA TypedOfWorkspace ==
  ASSUME NEW row, row.table \in {"wsmember", "provider", "login"},
         DOMAIN row = Columns(row.table),
         \A c \in DOMAIN row : WorkspaceValue(row.table, c, row[c])
  PROVE  Typed(row)
BY WorkspaceValues DEF Typed, Exact

LEMMA TypedMembership ==
  ASSUME NEW w, NEW u \in Users, NEW role \in WorkspaceRoles PROVE Typed(Membership(w, u, role))
<1> DEFINE row == Membership(w, u, role)
<1>1. /\ DOMAIN row = {"table", "ws", "user", "role", "active"} /\ row.table = "wsmember"
      /\ row.user = u /\ row.role = role /\ row.active = TRUE
  BY DEF Membership
<1> HIDE DEF row
<1>2. \A c \in DOMAIN row : WorkspaceValue("wsmember", c, row[c])
  BY <1>1 DEF WorkspaceValue
<1> QED
  BY <1>1, <1>2, WorkspaceColumns, TypedOfWorkspace DEF row

LEMMA TypedProvider == ASSUME NEW w PROVE Typed(Provider(w))
<1> DEFINE row == Provider(w)
<1>1. /\ DOMAIN row = {"table", "ws", "status", "provision"} /\ row.table = "provider"
      /\ row.status = "active"
  BY DEF Provider
<1> HIDE DEF row
<1>2. \A c \in DOMAIN row : WorkspaceValue("provider", c, row[c])
  BY <1>1 DEF WorkspaceValue
<1> QED
  BY <1>1, <1>2, WorkspaceColumns, TypedOfWorkspace DEF row

LEMMA WorkspaceSuits ==
  ASSUME NEW row, row.table \in {"workspace", "wsmember", "provider", "login"},
         NEW columns, DOMAIN columns \subseteq Columns(row.table) \ {"table"},
         \A c \in DOMAIN columns : WorkspaceValue(row.table, c, columns[c])
  PROVE  Suits(row, columns)
BY WorkspaceValues DEF Suits

LEMMA MarkSuits ==
  ASSUME NEW row
  PROVE  /\ row.table = "workspace" => Suits(row, [deleted |-> TRUE])
         /\ row.table = "login" => Suits(row, [consumed |-> TRUE])
<1>1. ASSUME row.table = "workspace" PROVE Suits(row, [deleted |-> TRUE])
  <2> DEFINE columns == [deleted |-> TRUE]
  <2>1. DOMAIN columns = {"deleted"} /\ columns.deleted = TRUE
    OBVIOUS
  <2> HIDE DEF columns
  <2>2. \A c \in DOMAIN columns : WorkspaceValue("workspace", c, columns[c])
    BY <2>1 DEF WorkspaceValue
  <2>3. Suits(row, columns)
    BY <1>1, <2>1, <2>2, WorkspaceColumns, WorkspaceSuits
  <2> QED
    BY <2>3 DEF columns
<1>2. ASSUME row.table = "login" PROVE Suits(row, [consumed |-> TRUE])
  <2> DEFINE columns == [consumed |-> TRUE]
  <2>1. DOMAIN columns = {"consumed"} /\ columns.consumed = TRUE
    OBVIOUS
  <2> HIDE DEF columns
  <2>2. \A c \in DOMAIN columns : WorkspaceValue("login", c, columns[c])
    BY <2>1 DEF WorkspaceValue
  <2>3. Suits(row, columns)
    BY <1>2, <2>1, <2>2, WorkspaceColumns, WorkspaceSuits
  <2> QED
    BY <2>3 DEF columns
<1> QED
  BY <1>1, <1>2

LEMMA MembershipSuits ==
  ASSUME NEW m \in Rows("wsmember"), AllTyped, NEW columns,
         DOMAIN columns \subseteq {"role", "active"},
         "role" \in DOMAIN columns => columns.role \in WorkspaceRoles,
         "active" \in DOMAIN columns => columns.active \in BOOLEAN
  PROVE  m \in DOMAIN db /\ Suits(db[m], columns)
<1>1. m \in DOMAIN db /\ db[m].table = "wsmember"
  BY TypedRows
<1>2. \A c \in DOMAIN columns : WorkspaceValue("wsmember", c, columns[c])
  BY DEF WorkspaceValue
<1> QED
  BY <1>1, <1>2, WorkspaceColumns, WorkspaceSuits

LEMMA ProperOwn ==
  ASSUME Base, NEW r, NEW slug \in Slugs, NEW u \in Users
  PROVE  Proper(r, OwnWorkspace(slug, u))
<1>1. "owner" \in WorkspaceRoles
  BY DEF WorkspaceRoles
<1> QED
  BY <1>1, TypedWorkspace, TypedMembership, ProperNew, ProperAndNew DEF OwnWorkspace

LEMMA WorkspaceTypes ==
  ASSUME Base, AllTyped, NEW r \in Requests, WorkspaceRequest(r)
  PROVE  Starts(r)
<1>0. KnownUsers \subseteq Users /\ FreeSlugs \subseteq Slugs
  BY UsersAreKnown DEF FreeSlugs
<1>1. CASE CreateWorkspace(r)
  <2>1. PICK u \in Users, slug \in Slugs :
          BeginLocked(r, AndNew(OwnWorkspace(slug, u), AuditEntry(made + 1, "create")), Done)
    BY <1>0, <1>1 DEF CreateWorkspace
  <2> QED
    BY <2>1, ProperOwn, ProperWithEntry, StartsDone
<1>2. CASE ListMyWorkspaces(r)
  <2>1. PICK u \in Users, slug \in Slugs : BeginLocked(r, OwnWorkspace(slug, u), Done)
    BY <1>0, <1>2 DEF ListMyWorkspaces
  <2> QED
    BY <2>1, ProperOwn, StartsDone
<1>3. CASE UpdateWorkspace(r) \/ DeleteWorkspace(r)
  <2>1. ASSUME NEW w \in Rows("workspace")
        PROVE  /\ w \in DOMAIN db
               /\ Suits(db[w], [rev |-> 1 - db[w].rev])
               /\ Suits(db[w], [deleted |-> TRUE])
    <3>1. w \in DOMAIN db /\ db[w].table = "workspace" /\ Typed(db[w])
      BY TypedRows
    <3>2. db[w].rev \in {0, 1}
      BY <3>1, WorkspaceColumns DEF Typed, Value, WorkspaceValue
    <3>3. 1 - db[w].rev \in {0, 1}
      BY <3>2
    <3>4. Suits(db[w], [rev |-> 1 - db[w].rev])
      BY <3>1, <3>3, WorkspaceColumns, WorkspaceSuits DEF WorkspaceValue
    <3>5. Suits(db[w], [deleted |-> TRUE])
      BY <3>1, MarkSuits
    <3> QED
      BY <3>1, <3>4, <3>5
  <2>2. CASE UpdateWorkspace(r)
    <3>1. PICK w \in Rows("workspace") :
            BeginLocked(r, And(Set(w, [rev |-> 1 - db[w].rev]), New(AuditEntry(w, "update"))), Done)
      BY <2>2 DEF UpdateWorkspace
    <3> QED
      BY <2>1, <3>1, ProperSet, ProperWithEntry, StartsDone
  <2>3. CASE DeleteWorkspace(r)
    <3>1. PICK w \in Rows("workspace") :
            BeginLocked(r, And(And(Set(w, [deleted |-> TRUE]), Drop(In(w))),
                               New(AuditEntry(w, "delete"))), Done)
      BY <2>3 DEF DeleteWorkspace
    <3>2. Proper(r, And(Set(w, [deleted |-> TRUE]), Drop(In(w))))
      BY <2>1, ProperSet, ProperDrop, ProperAnd
    <3> QED
      BY <3>1, <3>2, ProperWithEntry, StartsDone
  <2> QED
    BY <1>3, <2>2, <2>3
<1>4. CASE InviteWorkspaceMember(r)
  <2>1. PICK w \in Rows("workspace"), u \in Users, role \in WorkspaceRoles :
          BeginLocked(r, AndEntry(AndNew(EnsureUser(u), Membership(w, u, role)), "create"), Done)
    BY <1>4 DEF InviteWorkspaceMember
  <2>2. Proper(r, AndNew(EnsureUser(u), Membership(w, u, role)))
    BY TypedMembership, ProperUser, ProperAndNew
  <2> QED
    BY <2>1, <2>2, ProperWithEntry, StartsDone
<1>5. CASE ChangeMemberRole(r)
  <2>1. PICK m \in Rows("wsmember"), role \in WorkspaceRoles :
          BeginLocked(r, And(Set(m, [role |-> role]), New(AuditEntry(m, "update"))), Done)
    BY <1>5 DEF ChangeMemberRole, ActiveMember, In
  <2>2. m \in DOMAIN db /\ Suits(db[m], [role |-> role])
    BY MembershipSuits
  <2> QED
    BY <2>1, <2>2, ProperSet, ProperWithEntry, StartsDone
<1>6. CASE RemoveWorkspaceMember(r)
  <2>1. PICK m \in Rows("wsmember") :
          BeginLocked(r, And(Set(m, [active |-> FALSE]), New(AuditEntry(m, "delete"))), Done)
    BY <1>6 DEF RemoveWorkspaceMember, ActiveMember, In
  <2>2. m \in DOMAIN db /\ Suits(db[m], [active |-> FALSE])
    BY MembershipSuits
  <2> QED
    BY <2>1, <2>2, ProperSet, ProperWithEntry, StartsDone
<1>7. CASE CreateProvider(r)
  <2>1. PICK w \in Rows("workspace") : BeginLocked(r, AndEntry(New(Provider(w)), "create"), Done)
    BY <1>7 DEF CreateProvider
  <2> QED
    BY <2>1, TypedProvider, ProperNew, ProperWithEntry, StartsDone
<1>8. CASE UpdateProvider(r)
  <2>1. PICK p \in Rows("provider"), status \in {"active", "disabled"}, provision \in BOOLEAN :
          BeginLocked(r, And(Set(p, [status |-> status, provision |-> provision]),
                             New(AuditEntry(p, "update"))), Done)
    BY <1>8 DEF UpdateProvider
  <2>2. p \in DOMAIN db /\ db[p].table = "provider"
    BY TypedRows
  <2>3. Suits(db[p], [status |-> status, provision |-> provision])
    BY <2>2, WorkspaceColumns, WorkspaceSuits DEF WorkspaceValue
  <2> QED
    BY <2>1, <2>2, <2>3, ProperSet, ProperWithEntry, StartsDone
<1>9. CASE DeleteProvider(r)
  <2>1. PICK p, ids : BeginLocked(r, And(Drop(ids), New(AuditEntry(p, "delete"))), Done)
    BY <1>9 DEF DeleteProvider
  <2> QED
    BY <2>1, ProperDrop, ProperWithEntry, StartsDone
<1>10. CASE TestProvider(r)
  <2>1. BeginLocked(r, NoPlan, Done)
    BY <1>10 DEF TestProvider
  <2> QED
    BY <2>1, ProperNothing, StartsDone
<1>11. CASE SsoLogin(r)
  <2>1. PICK p, w : Begin(r, New([table |-> "login", provider |-> p, ws |-> w,
                                  consumed |-> FALSE]), Done)
    BY <1>11 DEF SsoLogin
  <2> DEFINE row == [table |-> "login", provider |-> p, ws |-> w, consumed |-> FALSE]
  <2>2. /\ DOMAIN row = {"table", "provider", "ws", "consumed"} /\ row.table = "login"
        /\ row.consumed = FALSE
    OBVIOUS
  <2>3. Begin(r, New(row), Done)
    BY <2>1
  <2> HIDE DEF row
  <2>4. \A c \in DOMAIN row : WorkspaceValue("login", c, row[c])
    BY <2>2 DEF WorkspaceValue
  <2>5. Typed(row)
    BY <2>2, <2>4, WorkspaceColumns, TypedOfWorkspace
  <2> QED
    BY <2>3, <2>5, ProperNew, StartsDone
<1>12. CASE SsoCallback(r)
  <2>1. PICK l \in Rows("login"), u \in Users :
          Begin(r, Set(l, [consumed |-> TRUE]),
                <<"callback", db[l].ws, u, db[db[l].provider].provision>>)
    BY <1>12 DEF SsoCallback
  <2>2. l \in DOMAIN db /\ db[l].table = "login"
    BY TypedRows
  <2>3. Suits(db[l], [consumed |-> TRUE])
    BY <2>2, MarkSuits
  <2>4. \A w, provision, p : JobTyped(p, <<"callback", w, u, provision>>)
    BY DEF JobTyped
  <2> QED
    BY <2>1, <2>2, <2>3, <2>4, ProperSet DEF Starts
<1> QED
  BY <1>1, <1>2, <1>3, <1>4, <1>5, <1>6, <1>7, <1>8, <1>9, <1>10, <1>11, <1>12
     DEF WorkspaceRequest

LEMMA WorkspaceStepTypes ==
  ASSUME Base, AllTyped, NEW r \in Requests, WorkspaceStep(r)
  PROVE  GoesOnTyped(r)
<1> DEFINE job == session[r].job
           plan == session[r].plan
<1>1. Proper(r, plan) /\ JobTyped(plan, job)
  BY OwnPlan
<1>2. CASE CallbackFlushes(r)
  <2>1. job[1] = "callback" /\ Flush(r, [job EXCEPT ![1] = "provision"])
    BY <1>2 DEF CallbackFlushes
  <2>2. [job EXCEPT ![1] = "provision"][3] = job[3]
    OBVIOUS
  <2>3. [job EXCEPT ![1] = "provision"][1] \in {"provision", job[1]}
    OBVIOUS
  <2> HIDE DEF plan, job
  <2>4. job[3] \in Users
    BY <1>1, <2>1 DEF JobTyped
  <2>5. JobTyped(plan, [job EXCEPT ![1] = "provision"])
    BY <2>1, <2>2, <2>3, <2>4 DEF JobTyped
  <2> QED
    BY <2>1, <2>5 DEF GoesOnTyped, plan
<1>3. CASE CallbackProvisions(r)
  <2> DEFINE u == job[3]
             user == And(plan, EnsureUser(u))
             joined == AndNew(user, Membership(job[2], u, "member"))
  <2>1. job[1] = "provision"
    BY <1>3 DEF CallbackProvisions
  <2>2. u \in Users
    BY <1>1, <2>1 DEF JobTyped
  <2>3. Proper(r, user)
    BY <1>1, <2>2, ProperUser, ProperAnd
  <2>4. Typed(Membership(job[2], u, "member"))
    BY <2>2, TypedMembership DEF WorkspaceRoles
  <2>5. \/ Continue(r, plan, Done)
        \/ Continue(r, AndNew(plan, AuditEntry(None, "rejected")), Done)
        \/ Continue(r, AndNew(joined, AuditEntry(None, "login")), Done)
        \/ Continue(r, AndNew(user, AuditEntry(None, "login")), Done)
    BY <1>3 DEF CallbackProvisions
  <2> HIDE DEF plan, user, job
  <2>6. Proper(r, joined)
    BY <2>3, <2>4, ProperAndNew
  <2> HIDE DEF joined
  <2>7. ReadsOn(r)
    BY <1>1, <2>3, <2>5, <2>6, ProperWithEntry, ReadsOnDone
  <2> QED
    BY <2>7 DEF GoesOnTyped
<1> QED
  BY <1>2, <1>3 DEF WorkspaceStep

-----------------------------------------------------------------------------
(* Sources, evidence and proposals.                                        *)

LEMMA EvidenceSuits ==
  ASSUME NEW row, row.table \in {"source", "evidence", "profiling", "proposal", "decision"},
         NEW columns, DOMAIN columns \subseteq Columns(row.table) \ {"table"},
         \A c \in DOMAIN columns : EvidenceValue(row.table, c, columns[c])
  PROVE  Suits(row, columns)
BY EvidenceValues DEF Suits

LEMMA TypedOfEvidence ==
  ASSUME NEW row, row.table \in {"source", "evidence", "profiling", "proposal", "decision"},
         DOMAIN row = Columns(row.table),
         \A c \in DOMAIN row : EvidenceValue(row.table, c, row[c])
  PROVE  Typed(row)
BY EvidenceValues DEF Typed, Exact

LEMMA TypedSource == ASSUME NEW fields \in SUBSET Fields PROVE Typed(Source(fields))
<1> DEFINE row == Source(fields)
<1>1. DOMAIN row = {"table", "fields"} /\ row.table = "source" /\ row.fields = fields
  BY DEF Source
<1> HIDE DEF row
<1>2. \A c \in DOMAIN row : EvidenceValue("source", c, row[c])
  BY <1>1 DEF EvidenceValue
<1> QED
  BY <1>1, <1>2, EvidenceColumns, TypedOfEvidence DEF row

LEMMA TypedEvidence ==
  ASSUME NEW s, NEW f \in Fields \cup {None}, NEW iri
  PROVE  Typed(Evidence(s, f)) /\ Typed([Evidence(s, f) EXCEPT !.iri = iri])
<1>3. SUFFICES ASSUME NEW row, row \in {Evidence(s, f), [Evidence(s, f) EXCEPT !.iri = iri]}
               PROVE  Typed(row)
  OBVIOUS
<1>1. /\ DOMAIN row = {"table", "source", "field", "iri", "confirmed", "by"}
      /\ row.table = "evidence" /\ row.field = f /\ row.confirmed = FALSE
  BY <1>3 DEF Evidence
<1>2. \A c \in DOMAIN row : EvidenceValue("evidence", c, row[c])
  BY <1>1 DEF EvidenceValue
<1> QED
  BY <1>1, <1>2, EvidenceColumns, TypedOfEvidence

LEMMA TypedProposal ==
  ASSUME NEW s, NEW project, NEW context, NEW content
  PROVE  Typed(Proposal(s, project, context, content))
<1> DEFINE row == Proposal(s, project, context, content)
<1>1. /\ DOMAIN row = {"table", "source", "project", "context", "status", "content"}
      /\ row.table = "proposal" /\ row.status = "PENDING"
  BY DEF Proposal
<1>2. StatusAfter("defer") = "PENDING" /\ "defer" \in Verdicts
  BY DEF StatusAfter, Verdicts
<1> HIDE DEF row
<1>3. \A c \in DOMAIN row : EvidenceValue("proposal", c, row[c])
  BY <1>1, <1>2 DEF EvidenceValue
<1> QED
  BY <1>1, <1>3, EvidenceColumns, TypedOfEvidence DEF row

\* What evidence and proposals get.
LEMMA MarkingSuits ==
  ASSUME NEW row, row.table = "evidence", NEW iri, NEW mark \in BOOLEAN, NEW by
  PROVE  Suits(row, [iri |-> iri, confirmed |-> mark, by |-> by])
<1> DEFINE columns == [iri |-> iri, confirmed |-> mark, by |-> by]
<1>1. DOMAIN columns = {"iri", "confirmed", "by"} /\ columns.confirmed = mark
  OBVIOUS
<1> HIDE DEF columns
<1>2. \A c \in DOMAIN columns : EvidenceValue("evidence", c, columns[c])
  BY <1>1 DEF EvidenceValue
<1>3. Suits(row, columns)
  BY <1>1, <1>2, EvidenceColumns, EvidenceSuits
<1> QED
  BY <1>3 DEF columns

LEMMA ProposalSuits ==
  ASSUME NEW row, row.table = "proposal", NEW columns,
         DOMAIN columns \subseteq {"status", "content"},
         "status" \in DOMAIN columns => columns.status \in {StatusAfter(v) : v \in Verdicts}
  PROVE  Suits(row, columns)
<1>1. \A c \in DOMAIN columns : EvidenceValue("proposal", c, columns[c])
  BY DEF EvidenceValue
<1> QED
  BY <1>1, EvidenceColumns, EvidenceSuits

\* The rows of an upload, and their entry.
LEMMA ProperFound ==
  ASSUME Base, {"audit", "source", "evidence"} \subseteq Tables(scenario.uses),
         NEW r \in Requests, NEW given \in SUBSET Fields, NEW fields \in SUBSET Fields,
         NEW found, found \in {{}, {Evidence(made + 1, f) : f \in fields}}, NEW target
  PROVE  Proper(r, AndNew(AndAll(New(Source(given)), found), AuditEntry(target, "create")))
<1>1. /\ Good(r, New(Source(given))) /\ Proper(r, New(Source(given)))
      /\ IsFiniteSet(found) /\ \A row \in found : HasTable(row)
  BY FoundRows, TypedSource, ProperNew
<1>2. \A row \in found : Typed(row)
  BY TypedEvidence
<1>3. Proper(r, AndAll(New(Source(given)), found))
  BY <1>1, <1>2, ProperAndAll
<1> QED
  BY <1>3, ProperWithEntry

LEMMA SourceTypes ==
  ASSUME Base, AllTyped, Uses("evidence"), NEW r \in Requests, SourceRequest(r)
  PROVE  Starts(r)
<1>1. {"audit", "source", "evidence"} \subseteq Tables(scenario.uses)
  BY EvidenceTables
<1>2. CASE CreateSource(r)
  BY <1>2, TypedSource, ProperNew, ProperWithEntry, StartsDone DEF CreateSource
<1>3. CASE UploadSource(r)
  <2>1. PICK fields \in SUBSET Fields, auto \in BOOLEAN :
          BeginLocked(r, AndNew(AndAll(New(Source(fields)),
                                       IF auto THEN {Evidence(made + 1, f) : f \in fields} ELSE {}),
                                AuditEntry(made + 1, "create")), Done)
    BY <1>3 DEF UploadSource
  <2> DEFINE found == IF auto THEN {Evidence(made + 1, f) : f \in fields} ELSE {}
  <2>2. found \in {{}, {Evidence(made + 1, f) : f \in fields}}
    OBVIOUS
  <2> HIDE DEF found
  <2>3. Proper(r, AndNew(AndAll(New(Source(fields)), found), AuditEntry(made + 1, "create")))
    BY <1>1, <2>2, ProperFound
  <2> QED
    BY <2>1, <2>3, StartsDone DEF found
<1>4. CASE UpdateSource(r)
  <2>1. PICK s : BeginLocked(r, New(AuditEntry(s, "update")), Done)
    BY <1>4 DEF UpdateSource
  <2> QED
    BY <2>1, ProperNewEntry, StartsDone
<1>5. CASE DeleteSource(r)
  <2>1. PICK s, ids : BeginLocked(r, And(Drop(ids), New(AuditEntry(s, "delete"))), Done)
    BY <1>5 DEF DeleteSource
  <2> QED
    BY <2>1, ProperDrop, ProperWithEntry, StartsDone
<1>6. CASE CreateEvidence(r)
  <2>1. PICK s \in Rows("source"), f \in Fields \cup {None}, iri \in ClassIris \cup {None} :
          BeginLocked(r, AndEntry(New([Evidence(s, f) EXCEPT !.iri = iri]), "create"), Done)
    BY <1>6 DEF CreateEvidence
  <2> QED
    BY <2>1, TypedEvidence, ProperNew, ProperWithEntry, StartsDone
<1>7. ASSUME NEW e \in Rows("evidence")
      PROVE  /\ e \in DOMAIN db
             /\ \A iri : Suits(db[e], Aligned(iri))
             /\ Suits(db[e], Rejected)
  <2>1. e \in DOMAIN db /\ db[e].table = "evidence"
    BY TypedRows
  <2> QED
    BY <2>1, MarkingSuits DEF Aligned, Rejected
<1>8. CASE AlignEvidence(r) \/ RejectEvidence(r)
  <2>1. PICK e \in Rows("evidence") :
          \E columns, after :
            /\ Suits(db[e], columns)
            /\ BeginLocked(r, And(Set(e, columns), New(AuditEntry(None, after))), Done)
    BY <1>7, <1>8 DEF AlignEvidence, RejectEvidence
  <2>2. PICK columns, after :
            /\ Suits(db[e], columns)
            /\ BeginLocked(r, And(Set(e, columns), New(AuditEntry(None, after))), Done)
    BY <2>1
  <2> QED
    BY <1>7, <2>2, ProperSet, ProperWithEntry, StartsDone
<1>9. CASE BulkConfirm(r) \/ BulkReject(r)
  <2>1. PICK ids \in SUBSET Rows("evidence") :
          \E columns, after :
            /\ \A e \in ids : Suits(db[e], columns)
            /\ BeginLocked(r, And(SetAll(ids, columns), New(AuditEntry(None, after))), Done)
    BY <1>7, <1>9 DEF BulkConfirm, BulkReject
  <2>2. PICK columns, after :
            /\ \A e \in ids : Suits(db[e], columns)
            /\ BeginLocked(r, And(SetAll(ids, columns), New(AuditEntry(None, after))), Done)
    BY <2>1
  <2>3. ids \subseteq DOMAIN db
    BY <1>7
  <2> QED
    BY <2>2, <2>3, ProperSetAll, ProperWithEntry, StartsDone
<1>10. CASE CreateProfilingRun(r)
  <2>1. PICK s :
          BeginLocked(r, AndEntry(New([table |-> "profiling", source |-> s, status |-> "pending"]),
                                  "create"), Done)
    BY <1>10 DEF CreateProfilingRun
  <2>2. Typed([table |-> "profiling", source |-> s, status |-> "pending"])
    BY EvidenceColumns, TypedOfEvidence DEF EvidenceValue
  <2> QED
    BY <2>1, <2>2, ProperNew, ProperWithEntry, StartsDone
<1>11. CASE ExecuteProfiling(r)
  <2> DEFINE runs(s) == {p \in Rows("profiling") : db[p].source = s}
             plan(s) == IF runs(s) = {} THEN NoPlan ELSE Set(Max(runs(s)), [status |-> "completed"])
  <2>1. PICK s \in Rows("source") : BeginLocked(r, plan(s), Done)
    BY <1>11 DEF ExecuteProfiling
  <2>2. ASSUME runs(s) # {} PROVE Max(runs(s)) \in Rows("profiling")
    <3>1. made \in Nat /\ runs(s) \subseteq 0 .. made /\ runs(s) \subseteq Rows("profiling")
      BY DEF Base, Rows
    <3> HIDE DEF runs
    <3>2. Max(runs(s)) \in runs(s)
      BY <2>2, <3>1, MaxIs
    <3> QED
      BY <3>1, <3>2
  <2>3. ASSUME NEW p \in Rows("profiling") PROVE Proper(r, Set(p, [status |-> "completed"]))
    <3>1. p \in DOMAIN db /\ db[p].table = "profiling"
      BY TypedRows
    <3>2. Suits(db[p], [status |-> "completed"])
      BY <3>1, EvidenceColumns, EvidenceSuits DEF EvidenceValue
    <3> QED
      BY <3>1, <3>2, ProperSet
  <2> HIDE DEF runs
  <2>4. Proper(r, plan(s))
    BY <2>2, <2>3, ProperNothing
  <2> HIDE DEF plan
  <2> QED
    BY <2>1, <2>4, StartsDone
<1> QED
  BY <1>2, <1>3, <1>4, <1>5, <1>6, <1>8, <1>9, <1>10, <1>11 DEF SourceRequest

LEMMA ProposalTypes ==
  ASSUME Base, AllTyped, Uses("evidence"), NEW r \in Requests, ProposalRequest(r)
  PROVE  Starts(r)
<1>1. {"proposal", "decision"} \subseteq Tables(scenario.uses)
  BY EvidenceTables
<1>2. /\ \A s, project, c, content :
           LET row == Proposal(s, project, c, content)
           IN HasTable(row) /\ Typed(row)
      /\ \A s, f, c : HasTable(Generated(s, f, c)) /\ Typed(Generated(s, f, c))
  <2>1. \A s, project, c, content : HasTable(Proposal(s, project, c, content))
    BY <1>1 DEF HasTable, Proposal
  <2> QED
    BY <2>1, TypedProposal DEF Generated
<1>3. ASSUME NEW g, IsFiniteSet(DOMAIN g), \A f \in DOMAIN g : HasTable(g[f]) /\ Typed(g[f])
      PROVE  Proper(r, AndAll(NoPlan, {g[f] : f \in DOMAIN g}))
  <2> DEFINE rows == {g[f] : f \in DOMAIN g}
  <2>1. IsFiniteSet(rows) /\ \A row \in rows : HasTable(row) /\ Typed(row)
    BY <1>3, FiniteImage
  <2> HIDE DEF rows
  <2>2. Proper(r, AndAll(NoPlan, rows))
    BY <2>1, GoodNothing, ProperNothing, ProperAndAll
  <2> QED
    BY <2>2 DEF rows
<1>4. CASE GenerateFromProfiling(r)
  <2>1. PICK s \in Rows("source") :
          \E fields \in SUBSET db[s].fields : Begin(r, FromProfiling(s, fields), Done)
    BY <1>4 DEF GenerateFromProfiling
  <2>2. PICK fields \in SUBSET db[s].fields : Begin(r, FromProfiling(s, fields), Done)
    BY <2>1
  <2>3. IsFiniteSet(fields)
    <3>1. s \in DOMAIN db /\ db[s].table = "source" /\ HasTable(db[s])
      BY DEF Base, Rows
    <3>2. IsFiniteSet(db[s].fields)
      BY <3>1 DEF HasTable
    <3> QED
      BY <3>2, FS_Subset
  <2> DEFINE g == [f \in fields |-> Generated(s, f, f)]
  <2>4. /\ DOMAIN g = fields
        /\ \A f \in DOMAIN g : HasTable(g[f]) /\ Typed(g[f])
        /\ {Generated(s, f, f) : f \in fields} = {g[f] : f \in DOMAIN g}
    BY <1>2
  <2> HIDE DEF g
  <2>5. Proper(r, FromProfiling(s, fields))
    BY <1>3, <2>3, <2>4 DEF FromProfiling
  <2> QED
    BY <2>2, <2>5, StartsDone
<1>5. CASE GenerateFromEvidence(r)
  <2> DEFINE open == {e \in Rows("evidence") : ~db[e].confirmed /\ db[e].iri = None}
             first(f) == Min({e \in open : NameOf(e) = f})
             h == [e \in open |-> NameOf(e)]
             fields == {NameOf(e) : e \in open}
             g == [f \in fields |-> Generated(db[first(f)].source, f, None)]
  <2>1. IsFiniteSet(open)
    BY RowsAreFinite DEF Rows
  <2>2. fields = {h[e] : e \in DOMAIN h} /\ DOMAIN h = open
    OBVIOUS
  <2> HIDE DEF h
  <2>3. IsFiniteSet(fields)
    <3> HIDE DEF open, fields
    <3> QED
      BY <2>1, <2>2, FiniteImage
  <2>4. /\ DOMAIN g = fields
        /\ \A f \in DOMAIN g : HasTable(g[f]) /\ Typed(g[f])
        /\ {Generated(db[first(f)].source, f, None) : f \in fields} = {g[f] : f \in DOMAIN g}
    <3> HIDE DEF first, fields
    <3> QED
      BY <1>2
  <2>5. FromEvidence = AndAll(NoPlan, {Generated(db[first(f)].source, f, None) : f \in fields})
    BY DEF FromEvidence
  <2> HIDE DEF g, first, fields
  <2>6. Proper(r, FromEvidence)
    BY <1>3, <2>3, <2>4, <2>5
  <2> QED
    BY <1>5, <2>6, StartsDone DEF GenerateFromEvidence
<1>6. CASE UpdateProposal(r)
  <2>1. PICK p \in Rows("proposal") : \E f, iri : Begin(r, Set(p, [content |-> Naming(f, iri)]), Done)
    BY <1>6 DEF UpdateProposal
  <2>2. PICK f, iri : Begin(r, Set(p, [content |-> Naming(f, iri)]), Done)
    BY <2>1
  <2> DEFINE columns == [content |-> Naming(f, iri)]
  <2>3. DOMAIN columns = {"content"}
    OBVIOUS
  <2> HIDE DEF columns
  <2>4. p \in DOMAIN db /\ Suits(db[p], columns)
    BY <2>3, TypedRows, ProposalSuits
  <2> QED
    BY <2>2, <2>4, ProperSet, StartsDone DEF columns
<1>11. CASE CreateProposal(r)
  <2>1. PICK s, project, c, content : Begin(r, New(Proposal(s, project, c, content)), Done)
    BY <1>11 DEF CreateProposal
  <2> QED
    BY <1>2, <2>1, ProperNew, StartsDone
<1>7. CASE DeleteProposal(r)
  <2>1. PICK ids : Begin(r, Drop(ids), Done)
    BY <1>7 DEF DeleteProposal
  <2> QED
    BY <2>1, ProperDrop, StartsDone
<1>8. ASSUME NEW p \in Rows("proposal"), NEW v \in Verdicts
      PROVE  p \in DOMAIN db /\ db[p].table = "proposal" /\ Suits(db[p], [status |-> StatusAfter(v)])
  <2>1. p \in DOMAIN db /\ db[p].table = "proposal"
    BY TypedRows
  <2> QED
    BY <2>1, ProposalSuits
<1>9. CASE BatchReviewProposals(r)
  <2>1. PICK ps \in SUBSET Rows("proposal"), v \in Verdicts :
          Begin(r, SetAll(ps, [status |-> StatusAfter(v)]), Done)
    BY <1>9 DEF BatchReviewProposals, Verdicts
  <2>2. Proper(r, SetAll(ps, [status |-> StatusAfter(v)]))
    BY <1>8, ProperSetAll
  <2> QED
    BY <2>1, <2>2, StartsDone
<1>10. CASE CreateDecision(r)
  <2> DEFINE row(p, v) == [table |-> "decision", proposal |-> p, verdict |-> v]
  <2>1. PICK p \in Rows("proposal"), v \in Verdicts :
          Begin(r, And(Set(p, [status |-> StatusAfter(v)]), New(row(p, v))),
                <<"decide", p, v, made + 1, db[p]>>)
    BY <1>10 DEF CreateDecision
  <2>2. Typed(row(p, v))
    BY EvidenceColumns, TypedOfEvidence DEF EvidenceValue
  <2> HIDE DEF row
  <2> DEFINE plan == And(Set(p, [status |-> StatusAfter(v)]), New(row(p, v)))
             job == <<"decide", p, v, made + 1, db[p]>>
  <2>3. Proper(r, plan)
    BY <1>8, <2>2, ProperSet, ProperNew, ProperAnd
  <2>4. job[1] = "decide" /\ job[2] = p
    OBVIOUS
  <2> HIDE DEF plan, job
  <2>5. JobTyped(plan, job)
    BY <1>8, <2>4, RowsAreTaken DEF JobTyped
  <2> QED
    BY <2>1, <2>3, <2>5 DEF Starts, plan, job
<1> QED
  BY <1>4, <1>5, <1>6, <1>7, <1>9, <1>10, <1>11 DEF ProposalRequest

\* Changes to rows that are there, or gone.
LEMMA ProperUpdate ==
  ASSUME NEW r, NEW columns, \A i \in DOMAIN columns : Updates(i, columns[i])
  PROVE  Proper(r, [insert |-> Nothing, update |-> columns, delete |-> {}])
<1> DEFINE p == [insert |-> Nothing, update |-> columns, delete |-> {}]
<1>1. /\ IsPlan(p) /\ p.update = columns /\ DOMAIN p.insert = {}
  BY DEF IsPlan, Nothing
<1> HIDE DEF p
<1>2. Proper(r, p)
  BY <1>1 DEF Proper, Planned
<1> QED
  BY <1>2 DEF p

LEMMA ProposalStepTypes ==
  ASSUME Base, AllTyped, Uses("evidence"), NEW r \in Requests, ProposalStep(r)
  PROVE  GoesOnTyped(r)
<1>1. Good(r, session[r].plan) /\ Proper(r, session[r].plan)
      /\ JobTyped(session[r].plan, session[r].job)
  BY OwnPlan DEF Base
<1>2. CASE DecisionFlushes(r)
  <2> DEFINE job == session[r].job
             plan == session[r].plan
  <2>1. job[1] = "decide" /\ Flush(r, [job EXCEPT ![1] = "confirm"])
    BY <1>2 DEF DecisionFlushes
  <2>2. [job EXCEPT ![1] = "confirm"][2] = job[2]
    OBVIOUS
  <2>3. [job EXCEPT ![1] = "confirm"][1] \in {"confirm", job[1]}
    OBVIOUS
  <2> HIDE DEF plan, job
  <2>4. Taken(job[2]) /\ (job[2] \in DOMAIN db => db[job[2]].table = "proposal")
    BY <1>1, <2>1 DEF JobTyped, plan, job
  <2>5. JobTyped(plan, [job EXCEPT ![1] = "confirm"])
    BY <2>1, <2>2, <2>3, <2>4 DEF JobTyped
  <2> QED
    BY <2>1, <2>5 DEF GoesOnTyped, plan
<1>3. CASE DecisionConfirms(r)
  <2> DEFINE job == session[r].job
             p == job[5]
             ids == Matched(p)
             noted == IF p.project THEN ids ELSE {}
             iri(e) == IF p.content.iri = None THEN db[e].iri ELSE p.content.iri
             update == [e \in ids |-> [iri |-> iri(e), confirmed |-> TRUE, by |-> job[4]]]
             confirmed == [NoPlan EXCEPT !.update = update]
             report == [status |-> "ACCEPTED", content |-> [p.content EXCEPT !.confirmed = ids]]
             changed == And(SetAll({job[2]}, report), And(confirmed, session[r].plan))
  <2>1. job[1] = "confirm"
    BY <1>3 DEF DecisionConfirms
  <2>2. \/ Continue(r, AndAll(changed, {Confirmation(e) : e \in noted}), Done)
        \/ Continue(r, session[r].plan, Done)
    BY <1>3 DEF DecisionConfirms
  <2>3. Taken(job[2]) /\ (job[2] \in DOMAIN db => db[job[2]].table = "proposal")
    BY <1>1, <2>1 DEF JobTyped
  <2>4. ids \subseteq Rows("evidence")
    BY DEF Matched
  <2>5. ids \subseteq DOMAIN db /\ ids \subseteq 1 .. made /\ IsFiniteSet(noted)
    BY <2>4, RowsAreMade, RowsAreFinite DEF Rows
  <2>6. \A e \in ids : Updates(e, update[e])
    <3>1. ASSUME NEW e \in ids, NEW named, NEW by
          PROVE  Updates(e, [iri |-> named, confirmed |-> TRUE, by |-> by])
      <4>1. e \in DOMAIN db /\ db[e].table = "evidence"
        BY <2>4 DEF Rows
      <4> QED
        BY <4>1, MarkingSuits, RowsAreTaken DEF Updates
    <3>2. \A e \in ids : update[e] = [iri |-> iri(e), confirmed |-> TRUE, by |-> job[4]]
      OBVIOUS
    <3> HIDE DEF iri, ids, update, job
    <3> QED
      BY <3>1, <3>2
  <2>7. DOMAIN report = {"status", "content"} /\ report.status = "ACCEPTED"
    OBVIOUS
  <2> HIDE DEF report, job, p
  <2>8. Updates(job[2], report) /\ Editable(report)
    <3>1. StatusAfter("accept") = "ACCEPTED" /\ "accept" \in Verdicts
      BY DEF StatusAfter, Verdicts
    <3>2. job[2] \in DOMAIN db => Suits(db[job[2]], report)
      BY <2>3, <2>7, <3>1, ProposalSuits
    <3> QED
      BY <2>3, <2>7, <3>2 DEF Updates, Editable
  <2>9. SetAll({job[2]}, report)
          = [insert |-> Nothing, update |-> [i \in {job[2]} |-> report], delete |-> {}]
    BY DEF SetAll, NoPlan
  <2>10. Good(r, SetAll({job[2]}, report)) /\ Proper(r, SetAll({job[2]}, report))
    <3>1. job[2] \in 1 .. made
      BY <2>3 DEF Taken
    <3>2. Good(r, SetAll({job[2]}, report))
      BY <2>8, <3>1, GoodSetAll
    <3> DEFINE upd == [i \in {job[2]} |-> report]
    <3>3. DOMAIN upd = {job[2]} /\ \A i \in DOMAIN upd : upd[i] = report /\ i = job[2]
      OBVIOUS
    <3> HIDE DEF upd
    <3>4. \A i \in DOMAIN upd : Updates(i, upd[i])
      BY <2>8, <3>3
    <3>5. SetAll({job[2]}, report) = [insert |-> Nothing, update |-> upd, delete |-> {}]
      BY <2>9 DEF upd
    <3>6. Proper(r, SetAll({job[2]}, report))
      BY <3>4, <3>5, ProperUpdate
    <3> QED
      BY <3>2, <3>6
  <2>11. Good(r, confirmed) /\ Proper(r, confirmed)
    <3>1. DOMAIN update = ids /\ \A e \in ids : Editable(update[e])
      BY DEF Editable
    <3> HIDE DEF update, ids
    <3>2. confirmed = [insert |-> Nothing, update |-> update, delete |-> {}]
      BY DEF NoPlan
    <3> HIDE DEF confirmed
    <3>3. Good(r, confirmed)
      BY <2>5, <3>1, <3>2 DEF Good, IsPlan, Nothing
    <3>4. Proper(r, confirmed)
      BY <2>6, <3>1, <3>2, ProperUpdate
    <3> QED
      BY <3>3, <3>4
  <2> HIDE DEF confirmed, ids, noted
  <2>12. Good(r, changed) /\ Proper(r, changed)
    BY <1>1, <2>10, <2>11, GoodAnd, ProperAnd
  <2> DEFINE rows == {Confirmation(e) : e \in noted}
             g == [e \in noted |-> Confirmation(e)]
  <2>13. IsFiniteSet(rows)
    <3>1. DOMAIN g = noted /\ rows = {g[e] : e \in DOMAIN g}
      OBVIOUS
    <3> HIDE DEF g, rows
    <3> QED
      BY <2>5, <3>1, FiniteImage
  <2>14. \A e : HasTable(Confirmation(e)) /\ Typed(Confirmation(e))
    <3> SUFFICES ASSUME NEW e PROVE HasTable(Confirmation(e)) /\ Typed(Confirmation(e))
      OBVIOUS
    <3> DEFINE row == Confirmation(e)
    <3>1. /\ DOMAIN row = {"table", "prev", "hashed", "target", "after"} /\ row.table = "audit"
          /\ row.prev = None /\ row.hashed = FALSE
      BY DEF Confirmation
    <3> HIDE DEF row
    <3>2. \A c \in DOMAIN row : AuditedValue("audit", c, row[c])
      BY <3>1 DEF AuditedValue
    <3>3. Typed(row) /\ HasTable(row)
      BY <3>1, <3>2, AuditedValues, AuditedColumns, EvidenceTables DEF Typed, Exact, HasTable
    <3> QED
      BY <3>3 DEF row
  <2>15. \A row \in rows : HasTable(row) /\ Typed(row)
    BY <2>14
  <2> HIDE DEF rows, changed
  <2>16. Proper(r, AndAll(changed, rows))
    BY <2>12, <2>13, <2>15, ProperAndAll
  <2>17. ReadsOn(r)
    BY <1>1, <2>2, <2>16, ReadsOnDone DEF rows
  <2> QED
    BY <2>17 DEF GoesOnTyped
<1> QED
  BY <1>2, <1>3 DEF ProposalStep

-----------------------------------------------------------------------------
(* Connectors.                                                             *)

\* Values stay absent, in clear or sealed.
LEMMA ConfigsLast ==
  ASSUME NEW config \in [Settings -> {"absent", "clear", "sealed"}], NEW fields
  PROVE  /\ Seal(config, fields) \in [Settings -> {"absent", "clear", "sealed"}]
         /\ Unseal(config, fields) \in [Settings -> {"absent", "clear", "sealed"}]
BY DEF Seal, Unseal

LEMMA ConnectorSuits ==
  ASSUME NEW c \in Live, AllTyped, NEW columns,
         DOMAIN columns \subseteq {"config", "secret", "status", "deleted"},
         "config" \in DOMAIN columns =>
           columns.config \in [Settings -> {"absent", "clear", "sealed"}],
         "secret" \in DOMAIN columns => columns.secret \subseteq Settings,
         "status" \in DOMAIN columns => columns.status \in ConnectorStatus
  PROVE  c \in DOMAIN db /\ Suits(db[c], columns)
<1>1. c \in DOMAIN db /\ db[c].table = "connector"
  BY TypedRows DEF Live
<1>2. \A x \in DOMAIN columns : ConnectorValue("connector", x, columns[x])
  BY DEF ConnectorValue
<1> QED
  BY <1>1, <1>2, ConnectorValues, EvidenceColumns DEF Suits

LEMMA ConnectorTypes ==
  ASSUME Base, AllTyped, Uses("connectors"), NEW r \in Requests, ConnectorRequest(r)
  PROVE  Starts(r)
<1>1. {"audit", "source", "evidence"} \subseteq Tables(scenario.uses)
  BY ConnectorTables
<1>2. ASSUME NEW c \in Live, NEW columns, NEW after,
             DOMAIN columns \subseteq {"config", "secret", "status", "deleted"},
             "config" \in DOMAIN columns =>
               columns.config \in [Settings -> {"absent", "clear", "sealed"}],
             "secret" \in DOMAIN columns => columns.secret \subseteq Settings,
             "status" \in DOMAIN columns => columns.status \in ConnectorStatus,
             BeginLocked(r, And(Set(c, columns), New(AuditEntry(c, after))), Done)
      PROVE  Starts(r)
  <2>1. c \in DOMAIN db /\ Suits(db[c], columns)
    BY <1>2, ConnectorSuits
  <2> QED
    BY <1>2, <2>1, ProperSet, ProperWithEntry, StartsDone
<1>3. CASE CreateConnector(r)
  <2>1. PICK given \in SUBSET Settings, secret \in SUBSET Settings :
          BeginLocked(r, AndEntry(New(Connector(Seal(InClear(given), secret), secret)), "create"), Done)
    BY <1>3 DEF CreateConnector
  <2> DEFINE row == Connector(Seal(InClear(given), secret), secret)
  <2>2. InClear(given) \in [Settings -> {"absent", "clear", "sealed"}]
    BY DEF InClear
  <2>3. Seal(InClear(given), secret) \in [Settings -> {"absent", "clear", "sealed"}]
    BY <2>2, ConfigsLast
  <2>4. /\ DOMAIN row = {"table", "config", "secret", "status", "deleted"}
        /\ row.table = "connector" /\ row.config = Seal(InClear(given), secret)
        /\ row.secret = secret /\ row.status = "ACTIVE"
    BY DEF Connector
  <2>5. BeginLocked(r, AndEntry(New(row), "create"), Done)
    BY <2>1
  <2> HIDE DEF row
  <2>6. \A c \in DOMAIN row : ConnectorValue("connector", c, row[c])
    BY <2>3, <2>4 DEF ConnectorValue, ConnectorStatus
  <2>7. Typed(row)
    BY <2>4, <2>6, ConnectorValues, EvidenceColumns DEF Typed, Exact
  <2> QED
    BY <2>5, <2>7, ProperNew, ProperWithEntry, StartsDone
<1>4. CASE UpdateConnector(r)
  <2>1. PICK c \in Live, given \in SUBSET Settings, secret \in SUBSET Settings,
             status \in ConnectorStatus :
          LET merged == [f \in Settings |-> IF f \in given THEN "clear" ELSE db[c].config[f]]
              stored == Seal(Unseal(merged, secret), secret)
          IN BeginLocked(r, And(Set(c, [config |-> stored, secret |-> secret, status |-> status]),
                                New(AuditEntry(c, "update"))), Done)
    BY <1>4 DEF UpdateConnector
  <2> DEFINE merged == [f \in Settings |-> IF f \in given THEN "clear" ELSE db[c].config[f]]
             stored == Seal(Unseal(merged, secret), secret)
             columns == [config |-> stored, secret |-> secret, status |-> status]
  <2>2. db[c].config \in [Settings -> {"absent", "clear", "sealed"}]
    <3>1. db[c].table = "connector" /\ Typed(db[c])
      BY TypedRows DEF Live
    <3> QED
      BY <3>1, EvidenceColumns DEF Typed, Value, ConnectorValue
  <2>3. merged \in [Settings -> {"absent", "clear", "sealed"}]
    BY <2>2
  <2> HIDE DEF merged
  <2>4. stored \in [Settings -> {"absent", "clear", "sealed"}]
    BY <2>3, ConfigsLast
  <2> HIDE DEF stored
  <2>5. /\ DOMAIN columns = {"config", "secret", "status"}
        /\ columns.config = stored /\ columns.secret = secret /\ columns.status = status
    OBVIOUS
  <2>6. BeginLocked(r, And(Set(c, columns), New(AuditEntry(c, "update"))), Done)
    BY <2>1 DEF merged, stored
  <2> HIDE DEF columns
  <2> QED
    BY <1>2, <2>4, <2>5, <2>6
<1>5. CASE DeleteConnector(r)
  <2>1. PICK c \in Live :
          BeginLocked(r, And(Set(c, [deleted |-> TRUE, status |-> "ARCHIVED"]),
                             New(AuditEntry(c, "delete"))), Done)
    BY <1>5 DEF DeleteConnector
  <2> DEFINE columns == [deleted |-> TRUE, status |-> "ARCHIVED"]
  <2>2. DOMAIN columns = {"deleted", "status"} /\ columns.status \in ConnectorStatus
    BY DEF ConnectorStatus
  <2>3. BeginLocked(r, And(Set(c, columns), New(AuditEntry(c, "delete"))), Done)
    BY <2>1
  <2> HIDE DEF columns
  <2> QED
    BY <1>2, <2>2, <2>3
<1>6. CASE TestConnector(r)
  <2>1. PICK c \in Live, ok \in BOOLEAN :
          BeginLocked(r, And(Set(c, [status |-> IF ok THEN "ACTIVE" ELSE "ERROR"]),
                             New(AuditEntry(c, "test"))), Done)
    BY <1>6 DEF TestConnector
  <2> DEFINE columns == [status |-> IF ok THEN "ACTIVE" ELSE "ERROR"]
  <2>2. DOMAIN columns = {"status"} /\ columns.status \in ConnectorStatus
    BY DEF ConnectorStatus
  <2>3. BeginLocked(r, And(Set(c, columns), New(AuditEntry(c, "test"))), Done)
    BY <2>1
  <2> HIDE DEF columns
  <2> QED
    BY <1>2, <2>2, <2>3
<1>7. CASE SnapshotConnector(r)
  <2>1. PICK c : BeginLocked(r, New(AuditEntry(c, "read")), Done)
    BY <1>7 DEF SnapshotConnector
  <2> QED
    BY <2>1, ProperNewEntry, StartsDone
<1>8. CASE SnapshotToEvidence(r)
  <2>1. PICK fields \in SUBSET Fields, auto \in BOOLEAN :
          BeginLocked(r, AndNew(AndAll(New(Source({})),
                                       IF auto THEN {Evidence(made + 1, f) : f \in fields} ELSE {}),
                                AuditEntry(made + 1, "create")), Done)
    BY <1>8 DEF SnapshotToEvidence
  <2> DEFINE found == IF auto THEN {Evidence(made + 1, f) : f \in fields} ELSE {}
  <2>2. found \in {{}, {Evidence(made + 1, f) : f \in fields}} /\ {} \in SUBSET Fields
    OBVIOUS
  <2> HIDE DEF found
  <2>3. Proper(r, AndNew(AndAll(New(Source({})), found), AuditEntry(made + 1, "create")))
    BY <1>1, <2>2, ProperFound
  <2> QED
    BY <2>1, <2>3, StartsDone DEF found
<1> QED
  BY <1>3, <1>4, <1>5, <1>6, <1>7, <1>8 DEF ConnectorRequest

-----------------------------------------------------------------------------
(* Every step keeps the types.                                             *)

\* Only an open request goes on.
LEMMA GoesOnTypes ==
  ASSUME Base, AllTyped, NEW r \in Requests, session[r].open, GoesOnTyped(r),
         made' \in Nat, made <= made'
  PROVE  AllTyped'
<1>1. CASE ReadsOn(r)
  BY <1>1, ContinueTypes
<1>2. CASE \E job : Flush(r, job) /\ JobTyped(session[r].plan, job)
  BY <1>2, FlushTypes
<1>3. CASE \E job : CommitAndGoOn(r, job) /\ Free(job)
  <2>1. PICK job : CommitAndGoOn(r, job) /\ Free(job)
    BY <1>3
  <2>2. /\ made' = made /\ db' = Written(session[r].plan)
        /\ session'[r] = [open |-> TRUE, plan |-> NoPlan, job |-> job]
        /\ \A q \in Requests \ {r} : session'[q] = session[q]
    BY <2>1, CommitAndGoOnKeeps
  <2>3. session'[r].plan = NoPlan /\ session'[r].job = job
    BY <2>2
  <2>4. JobTyped(NoPlan, job)'
    BY <2>1 DEF Free, JobTyped
  <2> QED
    BY <2>2, <2>3, <2>4, CommitTypes
<1> QED
  BY <1>1, <1>2, <1>3 DEF GoesOnTyped

LEMMA CommitStepTypes ==
  ASSUME Base, AllTyped, NEW r \in Requests, Commit(r)
  PROVE  AllTyped'
<1>1. /\ made' = made /\ db' = Written(session[r].plan) /\ session'[r] = Closed
      /\ \A q \in Requests \ {r} : session'[q] = session[q]
  BY CommitKeeps
<1>2. session'[r].plan = NoPlan /\ session'[r].job = Done
  BY <1>1 DEF Closed
<1>3. JobTyped(NoPlan, Done)'
  <2>1. Done[1] = "commit"
    BY DEF Done
  <2> QED
    BY <2>1 DEF JobTyped
<1> QED
  BY <1>1, <1>2, <1>3, CommitTypes

LEMMA RequestTypes ==
  ASSUME Base, AllTyped, NEW r \in Requests, Request(r)
  PROVE  Starts(r)
<1>1. CASE Uses("evidence") /\ (SourceRequest(r) \/ ProposalRequest(r))
  BY <1>1, SourceTypes, ProposalTypes
<1>2. CASE Uses("connectors") /\ ConnectorRequest(r)
  BY <1>2, ConnectorTypes
<1> QED
  BY <1>1, <1>2, OntologyTypes, MemberTypes, ObjectTypes, WorkspaceTypes DEF Request

LEMMA StepTypes ==
  ASSUME Base, AllTyped, NEW r \in Requests, Step(r)
  PROVE  GoesOnTyped(r)
<1>1. CASE Uses("evidence") /\ ProposalStep(r)
  BY <1>1, ProposalStepTypes
<1> QED
  BY <1>1, OntologyStepTypes, AuditStepTypes, WorkspaceStepTypes DEF Step

LEMMA AllTypedStep ==
  ASSUME Base, Deciding, AllTyped, [Next]_vars
  PROVE  AllTyped'
<1>1. made' \in Nat /\ made <= made'
  BY BaseStep DEF Base
<1>2. CASE UNCHANGED dbVars
  <2>1. db' = db /\ made' = made /\ session' = session
    BY <1>2 DEF dbVars
  <2> QED
    BY <2>1, DropTypes
<1>3. ASSUME NEW r \in Requests, CanOpen(r), Request(r) PROVE AllTyped'
  BY <1>3, RequestOpens, RequestTypes, OpenTypes
<1>4. ASSUME NEW r \in Requests, session[r].open, Step(r) PROVE AllTyped'
  BY <1>1, <1>4, StepTypes, GoesOnTypes
<1>5. ASSUME NEW r \in Requests, Commit(r) PROVE AllTyped'
  BY <1>5, CommitStepTypes
<1>6. ASSUME NEW r \in Requests, Rollback(r) PROVE AllTyped'
  <2>1. db' = db /\ made' = made /\ \A q \in Requests : session'[q] \in {session[q], Closed}
    BY <1>6, RollbackKeeps
  <2> QED
    BY <2>1, DropTypes
<1>7. ASSUME NEW r \in Requests, Uses("releases"), ReleaseRequest(r) PROVE AllTyped'
  BY <1>7, ReleaseRequestOpens, ReleaseTypes, OpenTypes
<1>8. ASSUME NEW r \in Requests, ReleaseStep(r) PROVE AllTyped'
  <2>1. Closed.job[1] = "commit"
    BY DEF Closed, Done
  <2>2. session[r].job[1] \in {"announce", "test"}
    BY <1>8 DEF ReleaseStep, FlushAndAnnounce, TestReturns
  <2>3. session[r].open
    BY <2>1, <2>2 DEF Base, IsSession
  <2> QED
    BY <1>1, <1>8, <2>3, ReleaseStepTypes, GoesOnTypes
<1>9. CASE ServerStops
  <2>1. db' = db /\ made' = made /\ \A q \in Requests : session'[q] \in {session[q], Closed}
    BY <1>9, StopKeeps DEF ServerStops
  <2> QED
    BY <2>1, DropTypes
<1>10. DispatchStep => UNCHANGED dbVars
  BY DEF DispatchStep, DispatchReads, DispatchRecords, DispatchFails, Deliver
<1>11. UNCHANGED vars => UNCHANGED dbVars
  BY DEF vars
<1> QED
  BY <1>2, <1>3, <1>4, <1>5, <1>6, <1>7, <1>8, <1>9, <1>10, <1>11 DEF Next

LEMMA AllTypedInit ==
  ASSUME Init
  PROVE  AllTyped
<1>1. scenario \in Scenarios /\ InitDatabase(InitialRows(scenario.uses))
  BY DEF Init
<1> DEFINE rows == InitialRows(scenario.uses)
<1>2. \A i \in DOMAIN rows : DOMAIN rows[i] = Columns(rows[i].table) /\ IsRow(rows[i])
  BY <1>1, InitialRowsAssumption
<1>3. db = rows /\ session = [r \in Requests |-> Closed]
  BY <1>1 DEF InitDatabase
<1> HIDE DEF rows
<1>4. \A i \in DOMAIN db : Typed(db[i])
  BY <1>2, <1>3, RowIsTyped
<1>5. Closed.plan = NoPlan /\ Closed.job = Done
  BY DEF Closed
<1> QED
  BY <1>3, <1>4, <1>5, NothingIsPlanned DEF AllTyped

-----------------------------------------------------------------------------
(* What receivers of webhooks hear, however often the server stops: nothing *)
(* of a transaction that is still open.                                    *)

Unheard(n) == \A x \in DOMAIN heard : x[1] # n

\* A task has not notified those that it is still to notify, and nobody before
\* it has read the webhooks; it names each webhook once.
Task(n) ==
  LET task == dispatch[n]
  IN /\ n \in 1 .. made
     /\ task = [event |-> task.event, at |-> task.at, left |-> task.left, due |-> task.due]
     /\ task.at = "start" => task.left = {} /\ task.due = {} /\ Unheard(n)
     /\ task.left \cap task.due = {}
     /\ \A d, e \in task.left \cup task.due : d.to = e.to => d = e
     /\ \A d \in task.left \cup task.due : <<n, d.to>> \notin DOMAIN heard

\* The event that a request is to announce is its own, and new.
Waits(r, n) ==
  /\ n \notin DOMAIN dispatch
  /\ Unheard(n)
  /\ \A q \in Requests \ {r} : session[q].job[1] = "announce" => session[q].job[3] # n

\* While a request that has announced its event is open, it holds the lock that
\* the delivery records need.
Holds(r, n) ==
  /\ writer = r
  /\ Unheard(n)
  /\ n \in DOMAIN dispatch => dispatch[n].due = {}

JobFits(r) ==
  LET job == session[r].job
  IN \/ job = Done
     \/ \E n \in 1 .. made : job = <<"test", n>>
     \/ \E e \in Announced, n \in 1 .. made : job = <<"announce", e, n>> /\ Waits(r, n)
     \/ \E n \in 1 .. made : job = <<"commit", n>> /\ Holds(r, n)

Announcing ==
  /\ ~Uses("releases") => DOMAIN dispatch = {} /\ DOMAIN heard = {}
  /\ Uses("releases") => \A r \in Requests : JobFits(r)
  /\ \A n \in DOMAIN dispatch : Task(n)
  /\ \A x \in DOMAIN heard : x[1] \in 1 .. made /\ heard[x] \in Outcomes

-----------------------------------------------------------------------------
\* A request whose job stays fits as long as its event stays new, or its lock.
LEMMA FitsOn ==
  ASSUME Base, NEW r \in Requests, JobFits(r), session'[r].job = session[r].job,
         made' \in Nat, made <= made',
         \A n \in 1 .. made :
           session[r].job[1] = "announce" /\ session[r].job[3] = n /\ Waits(r, n) => Waits(r, n)',
         \A n \in 1 .. made : Holds(r, n) => Holds(r, n)'
  PROVE  JobFits(r)'
<1> DEFINE job == session[r].job
<1>1. \A n \in 1 .. made : n \in 1 .. made'
  BY DEF Base
<1>2. CASE job = Done
  BY <1>2 DEF JobFits
<1>3. CASE \E n \in 1 .. made : job = <<"test", n>>
  BY <1>1, <1>3 DEF JobFits
<1>4. CASE \E e \in Announced, n \in 1 .. made : job = <<"announce", e, n>> /\ Waits(r, n)
  <2>1. PICK e \in Announced, n \in 1 .. made : job = <<"announce", e, n>> /\ Waits(r, n)
    BY <1>4
  <2>2. job[1] = "announce" /\ job[3] = n
    BY <2>1
  <2>3. Waits(r, n)'
    BY <2>1, <2>2
  <2> QED
    BY <1>1, <2>1, <2>3 DEF JobFits
<1>5. CASE \E n \in 1 .. made : job = <<"commit", n>> /\ Holds(r, n)
  BY <1>1, <1>5 DEF JobFits
<1> QED
  BY <1>2, <1>3, <1>4, <1>5 DEF JobFits

\* Nothing is announced or heard, and a request may get a new job.
LEMMA JobStep ==
  ASSUME Base, Announcing, Uses("releases"), NEW r \in Requests, NEW job,
         session'[r].job = job, \A q \in Requests \ {r} : session'[q] = session[q],
         made' \in Nat, made <= made', scenario' = scenario,
         \A q \in Requests \ {r} : writer = q => writer' = q,
         UNCHANGED dispatchVars,
         \/ job = Done
         \/ \E e \in Announced :
              job = <<"announce", e, made + 1>> /\ made + 1 <= made'
  PROVE  Announcing'
<1>1. made \in Nat /\ \A n \in 1 .. made : n \in 1 .. made'
  BY DEF Base
<1>2. dispatch' = dispatch /\ heard' = heard
  BY DEF dispatchVars
<1>3. job[1] = "announce" => job[3] = made + 1
  <2>1. Done[1] = "commit"
    BY DEF Done
  <2> QED
    BY <2>1
<1>4. ASSUME NEW q \in Requests \ {r} PROVE JobFits(q)'
  <2>1. JobFits(q) /\ session'[q].job = session[q].job
    BY <1>4 DEF Announcing
  <2>2. ASSUME NEW n \in 1 .. made, Waits(q, n) PROVE Waits(q, n)'
    <3>1. \A p \in Requests \ {q} : session'[p].job[1] = "announce" => session'[p].job[3] # n
      BY <1>1, <1>3, <2>2 DEF Waits
    <3> QED
      BY <1>2, <2>2, <3>1 DEF Waits, Unheard
  <2>3. ASSUME NEW n \in 1 .. made, Holds(q, n) PROVE Holds(q, n)'
    BY <1>2, <2>3 DEF Holds, Unheard
  <2> QED
    BY <2>1, <2>2, <2>3, FitsOn
<1>5. JobFits(r)'
  <2>1. CASE job = Done
    BY <2>1 DEF JobFits
  <2>2. CASE \E e \in Announced : job = <<"announce", e, made + 1>> /\ made + 1 <= made'
    <3>1. PICK e \in Announced : job = <<"announce", e, made + 1>> /\ made + 1 <= made'
      BY <2>2
    <3>2. made + 1 \notin DOMAIN dispatch /\ Unheard(made + 1)
      BY <1>1 DEF Announcing, Task, Unheard
    <3>3. ASSUME NEW q \in Requests \ {r}, session[q].job[1] = "announce"
          PROVE  session[q].job[3] # made + 1
      <4>1. JobFits(q)
        BY DEF Announcing
      <4>2. Done[1] = "commit"
        BY DEF Done
      <4>3. PICK k \in Announced, n \in 1 .. made : session[q].job = <<"announce", k, n>>
        BY <3>3, <4>1, <4>2 DEF JobFits
      <4>4. session[q].job[3] = n
        BY <4>3
      <4> QED
        BY <1>1, <4>4
    <3>4. (\A q \in Requests \ {r} : session[q].job[1] = "announce" => session[q].job[3] # made + 1)
          /\ \A q \in Requests \ {r} : session'[q].job = session[q].job
      BY <3>3
    <3> DEFINE n == made + 1
    <3>5. n \in 1 .. made' /\ session'[r].job = <<"announce", e, n>>
      BY <1>1, <3>1
    <3>6. n \notin DOMAIN dispatch' /\ (\A x \in DOMAIN heard' : x[1] # n)
          /\ \A q \in Requests \ {r} : session'[q].job[1] = "announce" => session'[q].job[3] # n
      BY <1>2, <3>2, <3>4 DEF Unheard
    <3> HIDE DEF n
    <3> QED
      BY <3>5, <3>6 DEF JobFits, Waits, Unheard
  <2> QED
    BY <2>1, <2>2
<1>6. (\A n \in DOMAIN dispatch : Task(n))'
  <2> SUFFICES ASSUME NEW n \in DOMAIN dispatch PROVE Task(n)'
    BY <1>2
  <2>1. Task(n)
    BY DEF Announcing
  <2> QED
    BY <1>1, <1>2, <2>1 DEF Task, Unheard
<1>7. Uses("releases")'
  BY DEF Uses
<1>8. (\A x \in DOMAIN heard : x[1] \in 1 .. made /\ heard[x] \in Outcomes)'
  BY <1>1, <1>2 DEF Announcing
<1> QED
  BY <1>4, <1>5, <1>6, <1>7, <1>8 DEF Announcing

\* A request that comes in raises the highest identifier.
LEMMA OpensRaises ==
  ASSUME Base, NEW r \in Requests, Opens(r)
  PROVE  made' \in Nat /\ made + 1 <= made' /\ scenario' = scenario
<1>1. PICK plan, job, lock :
        /\ Open(r, plan, job, lock)
        /\ Good(r, plan)
        /\ lock = writer \/ (writer = None /\ lock = r)
  BY DEF Opens
<1>2. Base' /\ made' >= made + 1
  BY <1>1, OpenKeeps
<1>3. made \in Nat /\ made' \in Nat
  BY <1>2 DEF Base
<1> QED
  BY <1>1, <1>2, <1>3 DEF Open

\* The requests that announce nothing, or later.
LEMMA ReleaseRequestStep ==
  ASSUME Base, Announcing, Uses("releases"), NEW r \in Requests,
         ReleaseRequest(r), ~TestWebhook(r)
  PROVE  Announcing'
<1>1. made' \in Nat /\ made + 1 <= made' /\ scenario' = scenario /\ made <= made'
  BY ReleaseRequestOpens, OpensRaises DEF Base
<1>2. UNCHANGED dispatchVars
  BY DEF ReleaseRequest
<1> DEFINE Given(job) == job = Done \/ \E e \in Announced : job = <<"announce", e, made + 1>>
<1>3. PICK plan, job :
        /\ Begin(r, plan, job) \/ BeginLocked(r, plan, job)
        /\ Given(job)
  <2>1. \A job : job = Done => Given(job)
    OBVIOUS
  <2>2. \A e \in Announced : Given(<<"announce", e, made + 1>>)
    OBVIOUS
  <2>3. {"release.published", "deployment.succeeded", "deployment.rollback"} \subseteq Announced
    BY DEF Announced
  <2> HIDE DEF Given
  <2>4. CASE CreateWebhook(r) \/ UpdateWebhook(r) \/ DeleteWebhook(r)
             \/ CreateRelease(r) \/ UpdateRelease(r) \/ DownloadRelease(r)
             \/ RunPreflight(r) \/ UpdateDeployment(r) \/ CreateUseCaseBundle(r)
    <3>1. \E plan : Begin(r, plan, Done) \/ BeginLocked(r, plan, Done)
      BY <2>4 DEF CreateWebhook, UpdateWebhook, DeleteWebhook, CreateRelease, UpdateRelease,
                  DownloadRelease, RunPreflight, UpdateDeployment, CreateUseCaseBundle
    <3> QED
      BY <2>1, <3>1
  <2>5. CASE PublishRelease(r)
    <3>1. \E plan : Begin(r, plan, <<"announce", "release.published", made + 1>>)
      BY <2>5 DEF PublishRelease
    <3> QED
      BY <2>2, <2>3, <3>1
  <2>6. CASE CreateDeployment(r)
    <3>1. \E plan : Begin(r, plan, <<"announce", "deployment.succeeded", made + 1>>)
      BY <2>6 DEF CreateDeployment
    <3> QED
      BY <2>2, <2>3, <3>1
  <2>7. CASE RollbackDeployment(r)
    <3>1. \E plan : Begin(r, plan, <<"announce", "deployment.rollback", made + 1>>)
      BY <2>7 DEF RollbackDeployment
    <3> QED
      BY <2>2, <2>3, <3>1
  <2> QED
    BY <2>4, <2>5, <2>6, <2>7 DEF ReleaseRequest
<1>4. session'[r].job = job /\ \A q \in Requests \ {r} : session'[q] = session[q]
  BY <1>3, JobOfOpened
<1>5. \A q \in Requests : writer = q => writer' = q
  BY <1>3, NoneIsNoRequest DEF Begin, BeginLocked, Open
<1> QED
  BY <1>1, <1>2, <1>3, <1>4, <1>5, JobStep

\* An event is announced: its task is new, and nobody has heard of it.
LEMMA AnnounceStep ==
  ASSUME Base, Announcing, Uses("releases"), NEW r \in Requests,
         NEW e, NEW n \in Nat, Announce(e, n), n \notin DOMAIN dispatch, Unheard(n),
         \A q \in Requests \ {r} : session[q].job[1] = "announce" => session[q].job[3] # n,
         made' \in Nat, made <= made', n \in 1 .. made', scenario' = scenario,
         \A q \in Requests \ {r} : session'[q] = session[q],
         \A q \in Requests \ {r} : writer = q => writer' = q,
         \/ session'[r].job = <<"test", n>>
         \/ session'[r].job = <<"commit", n>> /\ writer' = r
  PROVE  Announcing'
<1> DEFINE task == [event |-> e, at |-> "start", left |-> {}, due |-> {}]
<1>1. made \in Nat /\ \A k \in 1 .. made : k \in 1 .. made'
  BY DEF Base
<1>2. /\ heard' = heard
      /\ DOMAIN dispatch' = DOMAIN dispatch \cup {n}
      /\ dispatch'[n] = task
      /\ \A k \in DOMAIN dispatch : dispatch'[k] = dispatch[k]
  BY DEF Announce, Over, Only
<1>3. task = [event |-> task.event, at |-> task.at, left |-> task.left, due |-> task.due]
      /\ task.left = {} /\ task.due = {}
  OBVIOUS
<1> HIDE DEF task
<1>4. (\A k \in DOMAIN dispatch : Task(k))'
  <2> SUFFICES ASSUME NEW k \in DOMAIN dispatch' PROVE Task(k)'
    OBVIOUS
  <2>1. CASE k \in DOMAIN dispatch
    <3>1. Task(k) /\ dispatch'[k] = dispatch[k]
      BY <1>2, <2>1 DEF Announcing
    <3> QED
      BY <1>1, <1>2, <3>1 DEF Task, Unheard
  <2>2. CASE k = n
    BY <1>2, <1>3, <2>2 DEF Task, Unheard
  <2> QED
    BY <1>2, <2>1, <2>2
<1>5. ASSUME NEW q \in Requests \ {r} PROVE JobFits(q)'
  <2>1. JobFits(q) /\ session'[q].job = session[q].job
    BY <1>5 DEF Announcing
  <2>2. ASSUME NEW k \in 1 .. made, session[q].job[1] = "announce", session[q].job[3] = k,
               Waits(q, k)
        PROVE  Waits(q, k)'
    <3>1. k # n
      BY <1>5, <2>2
    <3>2. session'[r].job[1] # "announce"
      OBVIOUS
    <3>3. \A p \in Requests \ {q} : session'[p].job[1] = "announce" => session'[p].job[3] # k
      BY <2>2, <3>2 DEF Waits
    <3> QED
      BY <1>2, <2>2, <3>1, <3>3 DEF Waits, Unheard
  <2>3. ASSUME NEW k \in 1 .. made, Holds(q, k) PROVE Holds(q, k)'
    BY <1>2, <1>3, <1>5, <2>3 DEF Holds, Unheard
  <2> QED
    BY <2>1, <2>2, <2>3, FitsOn
<1>6. JobFits(r)'
  BY <1>2, <1>3 DEF JobFits, Holds, Unheard
<1>7. Uses("releases")'
  BY DEF Uses
<1>8. (\A x \in DOMAIN heard : x[1] \in 1 .. made /\ heard[x] \in Outcomes)'
  BY <1>1, <1>2 DEF Announcing
<1> QED
  BY <1>4, <1>5, <1>6, <1>7, <1>8 DEF Announcing

LEMMA TestWebhookStep ==
  ASSUME Base, Announcing, Uses("releases"), NEW r \in Requests, TestWebhook(r)
  PROVE  Announcing'
<1>1. made \in Nat /\ made' \in Nat /\ made + 1 <= made' /\ scenario' = scenario
  BY ReleaseRequestOpens, OpensRaises DEF Base, ReleaseRequest
<1> DEFINE n == made + 1
<1>2. n \in Nat /\ made <= made' /\ n \in 1 .. made'
  BY <1>1
<1>3. BeginLocked(r, NoPlan, <<"test", n>>) /\ Announce("manual", n)
  BY DEF TestWebhook
<1>4. n \notin DOMAIN dispatch /\ Unheard(n)
  BY <1>1 DEF Announcing, Task, Unheard
<1>5. ASSUME NEW q \in Requests \ {r}, session[q].job[1] = "announce"
      PROVE  session[q].job[3] # n
  <2>1. JobFits(q)
    BY DEF Announcing
  <2>2. Done[1] = "commit"
    BY DEF Done
  <2>3. PICK k \in Announced, m \in 1 .. made : session[q].job = <<"announce", k, m>>
    BY <1>5, <2>1, <2>2 DEF JobFits
  <2>4. session[q].job[3] = m
    BY <2>3
  <2> QED
    BY <1>1, <2>4
<1> HIDE DEF n
<1>6. session'[r].job = <<"test", n>> /\ \A q \in Requests \ {r} : session'[q] = session[q]
  BY <1>3, JobOfOpened
<1>7. \A q \in Requests : writer = q => writer' = q
  BY <1>3, NoneIsNoRequest DEF BeginLocked
<1> QED
  BY <1>1, <1>2, <1>3, <1>4, <1>5, <1>6, <1>7, AnnounceStep

LEMMA FlushAndAnnounceStep ==
  ASSUME Base, Announcing, Uses("releases"), NEW r \in Requests, session[r].open,
         FlushAndAnnounce(r)
  PROVE  Announcing'
<1> DEFINE job == session[r].job
<1>1. /\ job[1] = "announce"
      /\ Flush(r, <<"commit", job[3]>>)
      /\ Announce(job[2], job[3])
  BY DEF FlushAndAnnounce
<1>2. JobFits(r)
  BY DEF Announcing
<1>3. Done[1] = "commit"
  BY DEF Done
<1>4. PICK e \in Announced, n \in 1 .. made : job = <<"announce", e, n>> /\ Waits(r, n)
  BY <1>1, <1>2, <1>3 DEF JobFits
<1> HIDE DEF job
<1>5. job[2] = e /\ job[3] = n
  BY <1>4
<1>6. Flush(r, <<"commit", n>>) /\ Announce(e, n)
  BY <1>1, <1>5
<1>7. made' = made /\ scenario' = scenario /\ writer' = r
      /\ session'[r].job = <<"commit", n>>
      /\ \A q \in Requests \ {r} : session'[q] = session[q]
  BY <1>6, FlushKeeps, JobOfOpen
<1>8. \A q \in Requests \ {r} : writer # q
  BY <1>6, NoneIsNoRequest DEF Flush, Writable
<1>9. made \in Nat /\ n \in Nat
  BY DEF Base
<1> QED
  BY <1>4, <1>6, <1>7, <1>8, <1>9, AnnounceStep DEF Waits

\* A request ends, or goes on to its commit.
LEMMA EndStep ==
  ASSUME Base, Announcing, Uses("releases"), NEW r \in Requests,
         \/ Commit(r) /\ UNCHANGED dispatchVars
         \/ Rollback(r) /\ UNCHANGED dispatchVars
         \/ session[r].open /\ TestReturns(r)
  PROVE  Announcing'
<1>1. UNCHANGED dispatchVars
  BY DEF TestReturns
<1>2. made \in Nat /\ Closed.job = Done
  BY DEF Base, Closed
<1>3. /\ session'[r].job = Done /\ \A q \in Requests \ {r} : session'[q] = session[q]
      /\ made' = made \/ made' = Max({made} \cup DOMAIN NoPlan.insert)
      /\ scenario' = scenario
      /\ \A q \in Requests \ {r} : writer = q => writer' = q
  <2>1. CASE Commit(r)
    BY <1>2, <2>1, CommitKeeps, NoneIsNoRequest
  <2>2. CASE Rollback(r)
    <3>1. \A q \in Requests \ {r} : writer = q => writer' = q
      BY <2>2 DEF Rollback
    <3> QED
      BY <1>2, <2>2, <3>1, RollbackKeeps
  <2>3. CASE session[r].open /\ TestReturns(r)
    <3>1. Continue(r, NoPlan, Done)
      BY <2>3 DEF TestReturns
    <3>2. made' = Max({made} \cup DOMAIN NoPlan.insert) /\ scenario' = scenario /\ writer' = writer
      BY <3>1 DEF Continue
    <3> QED
      BY <2>3, <3>1, <3>2, JobOfOpen
  <2> QED
    BY <2>1, <2>2, <2>3
<1>4. made' \in Nat /\ made <= made'
  <2>1. DOMAIN NoPlan.insert \subseteq 0 .. 0
    BY DEF NoPlan, Nothing
  <2>2. Max({made} \cup DOMAIN NoPlan.insert) \in Nat
        /\ made <= Max({made} \cup DOMAIN NoPlan.insert)
    BY <1>2, <2>1, MaxAbove
  <2> QED
    BY <1>2, <1>3, <2>2
<1> QED
  BY <1>1, <1>3, <1>4, JobStep

-----------------------------------------------------------------------------
\* One dispatch task makes a step; the requests do nothing.
LEMMA TaskStep ==
  ASSUME Base, Announcing, NEW n \in DOMAIN dispatch, UNCHANGED dbVars,
         DOMAIN dispatch' = DOMAIN dispatch,
         \A k \in DOMAIN dispatch \ {n} : dispatch'[k] = dispatch[k],
         \A x \in DOMAIN heard' :
           (x \in DOMAIN heard /\ heard'[x] = heard[x]) \/ (x[1] = n /\ heard'[x] \in Outcomes),
         Task(n)',
         \A r \in Requests : Holds(r, n) => Holds(r, n)'
  PROVE  Announcing'
<1>1. /\ Uses("releases") /\ Uses("releases")'
      /\ made' = made /\ made \in Nat /\ session' = session /\ writer' = writer
      /\ n \in 1 .. made
  BY DEF Announcing, Base, Uses, dbVars, Task
<1>2. \A k : k # n /\ Unheard(k) => Unheard(k)'
  BY DEF Unheard
<1>3. ASSUME NEW k \in DOMAIN dispatch' PROVE Task(k)'
  <2>1. CASE k = n
    BY <2>1
  <2>2. CASE k # n
    <3>1. Task(k) /\ dispatch'[k] = dispatch[k]
      BY <1>3, <2>2 DEF Announcing
    <3>2. \A d \in dispatch[k].left \cup dispatch[k].due : <<k, d.to>> \notin DOMAIN heard'
      <4> SUFFICES ASSUME NEW d \in dispatch[k].left \cup dispatch[k].due,
                          <<k, d.to>> \in DOMAIN heard'
                   PROVE  FALSE
        OBVIOUS
      <4>1. <<k, d.to>>[1] # n
        BY <2>2
      <4>2. <<k, d.to>> \notin DOMAIN heard
        BY <3>1 DEF Task
      <4> QED
        BY <4>1, <4>2
    <3> QED
      BY <1>1, <1>2, <2>2, <3>1, <3>2 DEF Task
  <2> QED
    BY <2>1, <2>2
<1>4. ASSUME NEW r \in Requests PROVE JobFits(r)'
  <2>1. JobFits(r) /\ session'[r].job = session[r].job
    BY <1>1 DEF Announcing
  <2>2. ASSUME NEW k \in 1 .. made, Waits(r, k) PROVE Waits(r, k)'
    BY <1>1, <1>2, <2>2 DEF Waits
  <2>3. ASSUME NEW k \in 1 .. made, Holds(r, k) PROVE Holds(r, k)'
    <3>1. CASE k = n
      BY <2>3, <3>1
    <3>2. CASE k # n
      BY <1>1, <1>2, <2>3, <3>2 DEF Holds
    <3> QED
      BY <3>1, <3>2
  <2>4. made' \in Nat /\ made <= made'
    BY <1>1
  <2> QED
    BY <2>1, <2>2, <2>3, <2>4, FitsOn
<1>5. \A x \in DOMAIN heard' : x[1] \in 1 .. made' /\ heard'[x] \in Outcomes
  BY <1>1 DEF Announcing
<1> QED
  BY <1>1, <1>3, <1>4, <1>5 DEF Announcing

LEMMA DispatchReadsStep ==
  ASSUME Base, Announcing, NEW n \in DOMAIN dispatch, DispatchReads(n)
  PROVE  Announcing'
<1> DEFINE subscribed == {w \in Rows("webhook") : db[w].enabled /\ dispatch[n].event \in db[w].events}
           found == {[to |-> w, retries |-> db[w].retries] : w \in subscribed}
           task == dispatch[n]
<1>1. /\ Task(n) /\ task.at = "start"
      /\ dispatch' = [dispatch EXCEPT ![n].at = "record", ![n].left = found]
      /\ UNCHANGED dbVars /\ heard' = heard /\ made' = made
  BY DEF DispatchReads, Announcing, dbVars
<1>2. \A d, e \in found : d.to = e.to => d = e
  OBVIOUS
<1> HIDE DEF found
<1>3. task.left = {} /\ task.due = {} /\ Unheard(n)
  BY <1>1 DEF Task
<1>4. dispatch'[n] = [event |-> task.event, at |-> "record", left |-> found, due |-> {}]
      /\ \A k \in DOMAIN dispatch \ {n} : dispatch'[k] = dispatch[k]
      /\ DOMAIN dispatch' = DOMAIN dispatch
  <2>1. task = [event |-> task.event, at |-> task.at, left |-> task.left, due |-> task.due]
    BY <1>1 DEF Task
  <2>2. dispatch'[n] = [[task EXCEPT !.at = "record"] EXCEPT !.left = found]
    BY <1>1
  <2> QED
    BY <1>1, <1>3, <2>1, <2>2
<1>5. Task(n)'
  <2> DEFINE after == dispatch'[n]
  <2>1. /\ after.at = "record" /\ after.left = found /\ after.due = {}
        /\ after = [event |-> after.event, at |-> after.at, left |-> after.left, due |-> after.due]
    BY <1>4
  <2> HIDE DEF after
  <2>2. \A d \in found : <<n, d.to>> \notin DOMAIN heard
    <3> SUFFICES ASSUME NEW d \in found, <<n, d.to>> \in DOMAIN heard PROVE FALSE
      OBVIOUS
    <3>1. <<n, d.to>>[1] = n
      OBVIOUS
    <3> QED
      BY <1>3, <3>1 DEF Unheard
  <2>3. n \in 1 .. made'
    BY <1>1 DEF Task
  <2>4. after = dispatch'[n]
    BY DEF after
  <2>5. /\ after.left \cup after.due = found /\ after.left \cap after.due = {}
        /\ after.at # "start" /\ heard' = heard
    BY <1>1, <2>1
  <2>6. /\ \A d, e \in after.left \cup after.due : d.to = e.to => d = e
        /\ \A d \in after.left \cup after.due : <<n, d.to>> \notin DOMAIN heard'
    BY <1>2, <2>2, <2>5
  <2> QED
    BY <2>1, <2>3, <2>4, <2>5, <2>6 DEF Task
<1>6. \A r \in Requests : Holds(r, n) => Holds(r, n)'
  BY <1>1, <1>4 DEF Holds, Unheard, dbVars
<1> QED
  BY <1>1, <1>4, <1>5, <1>6, TaskStep

\* A record can only be written while no request holds the lock, so none has
\* announced the event and is still open.
LEMMA DispatchRecordsStep ==
  ASSUME Base, Announcing, NEW n \in DOMAIN dispatch, DispatchRecords(n)
  PROVE  Announcing'
<1> DEFINE task == dispatch[n]
<1>1. PICK d \in task.left :
        /\ task.at = "record" /\ RecordWritten
        /\ dispatch' = [dispatch EXCEPT ![n].left = @ \ {d},
                          ![n].due = IF d.retries = 0 THEN @ ELSE @ \cup {d}]
        /\ UNCHANGED <<dbVars, heard>>
  BY DEF DispatchRecords
<1> DEFINE due == IF d.retries = 0 THEN task.due ELSE task.due \cup {d}
<1>2. Task(n)
  BY DEF Announcing
<1>3. dispatch'[n] = [event |-> task.event, at |-> "record", left |-> task.left \ {d}, due |-> due]
      /\ \A k \in DOMAIN dispatch \ {n} : dispatch'[k] = dispatch[k]
      /\ DOMAIN dispatch' = DOMAIN dispatch
  <2>1. task = [event |-> task.event, at |-> task.at, left |-> task.left, due |-> task.due]
    BY <1>2 DEF Task
  <2>2. dispatch'[n] = [[task EXCEPT !.left = task.left \ {d}] EXCEPT !.due = due]
    BY <1>1, <2>1
  <2> QED
    BY <1>1, <2>1, <2>2
<1>4. Task(n)'
  <2> DEFINE after == dispatch'[n]
  <2>1. /\ after.at = "record" /\ after.left = task.left \ {d} /\ after.due = due
        /\ after = [event |-> after.event, at |-> after.at, left |-> after.left, due |-> after.due]
    BY <1>3
  <2>2. task.left \cap task.due = {} /\ due \subseteq task.due \cup {d}
        /\ (task.left \ {d}) \cup due \subseteq task.left \cup task.due
        /\ (task.left \ {d}) \cap due = {}
    BY <1>2 DEF Task
  <2>3. n \in 1 .. made' /\ heard' = heard
    BY <1>1, <1>2 DEF Task, dbVars
  <2>4. /\ \A e, f \in task.left \cup task.due : e.to = f.to => e = f
        /\ \A e \in task.left \cup task.due : <<n, e.to>> \notin DOMAIN heard
    BY <1>2 DEF Task
  <2> HIDE DEF due, task
  <2>5. /\ \A e, f \in after.left \cup after.due : e.to = f.to => e = f
        /\ \A e \in after.left \cup after.due : <<n, e.to>> \notin DOMAIN heard'
        /\ after.left \cap after.due = {}
    BY <2>1, <2>2, <2>3, <2>4
  <2> QED
    BY <2>1, <2>3, <2>5 DEF Task
<1>5. \A r \in Requests : ~Holds(r, n)
  BY <1>1, NoneIsNoRequest DEF Holds, RecordWritten
<1> QED
  BY <1>1, <1>3, <1>4, <1>5, TaskStep

LEMMA DispatchFailsStep ==
  ASSUME Base, Announcing, NEW n \in DOMAIN dispatch, DispatchFails(n)
  PROVE  Announcing'
<1> DEFINE task == dispatch[n]
<1>1. /\ Task(n) /\ task.at = "record"
      /\ dispatch' = [dispatch EXCEPT ![n].at = "failed", ![n].left = {}]
      /\ UNCHANGED dbVars /\ heard' = heard /\ made' = made
  BY DEF DispatchFails, Announcing, dbVars
<1>2. dispatch'[n] = [event |-> task.event, at |-> "failed", left |-> {}, due |-> task.due]
      /\ \A k \in DOMAIN dispatch \ {n} : dispatch'[k] = dispatch[k]
      /\ DOMAIN dispatch' = DOMAIN dispatch
  <2>1. task = [event |-> task.event, at |-> task.at, left |-> task.left, due |-> task.due]
    BY <1>1 DEF Task
  <2>2. dispatch'[n] = [[task EXCEPT !.at = "failed"] EXCEPT !.left = {}]
    BY <1>1
  <2> QED
    BY <1>1, <2>1, <2>2
<1>3. Task(n)'
  <2> DEFINE after == dispatch'[n]
  <2>1. /\ after.at = "failed" /\ after.left = {} /\ after.due = task.due
        /\ after = [event |-> after.event, at |-> after.at, left |-> after.left, due |-> after.due]
    BY <1>2
  <2>2. /\ \A e, f \in after.left \cup after.due : e.to = f.to => e = f
        /\ \A e \in after.left \cup after.due : <<n, e.to>> \notin DOMAIN heard'
        /\ after.left \cap after.due = {} /\ n \in 1 .. made'
    BY <1>1, <2>1 DEF Task
  <2> QED
    BY <2>1, <2>2 DEF Task
<1>4. \A r \in Requests : Holds(r, n) => Holds(r, n)'
  BY <1>1, <1>2 DEF Holds, Unheard, dbVars
<1> QED
  BY <1>1, <1>2, <1>3, <1>4, TaskStep

\* A post is the first to its webhook, and the last, however it ends.
LEMMA DeliverStep ==
  ASSUME Base, Announcing, NEW n \in DOMAIN dispatch, Deliver(n)
  PROVE  Announcing'
<1> DEFINE task == dispatch[n]
<1>1. PICK d \in task.due, outcome \in Outcomes :
        /\ dispatch' = [dispatch EXCEPT ![n].due = @ \ {d}]
        /\ heard' = Over(Only(<<n, d.to>>, outcome), heard)
        /\ UNCHANGED dbVars
  BY DEF Deliver, RecordStored
<1>2. Task(n) /\ <<n, d.to>> \notin DOMAIN heard
  BY DEF Announcing, Task
<1> DEFINE post == <<n, d.to>>
<1>3. heard' = Over(Only(post, outcome), heard)
  BY <1>1
<1>4. post[1] = n
  OBVIOUS
<1>5. DOMAIN heard' = DOMAIN heard \cup {post} /\ heard'[post] = outcome
      /\ \A x \in DOMAIN heard \ {post} : heard'[x] = heard[x]
  <2> HIDE DEF post
  <2> QED
    BY <1>3 DEF Over, Only
<1>6. dispatch'[n] = [event |-> task.event, at |-> task.at, left |-> task.left,
                      due |-> task.due \ {d}]
      /\ \A k \in DOMAIN dispatch \ {n} : dispatch'[k] = dispatch[k]
      /\ DOMAIN dispatch' = DOMAIN dispatch
  <2>1. task = [event |-> task.event, at |-> task.at, left |-> task.left, due |-> task.due]
    BY <1>2 DEF Task
  <2>2. dispatch'[n] = [task EXCEPT !.due = task.due \ {d}]
    BY <1>1
  <2> QED
    BY <1>1, <2>1, <2>2
<1>7. Task(n)'
  <2> DEFINE after == dispatch'[n]
  <2>1. /\ after.at = task.at /\ after.left = task.left /\ after.due = task.due \ {d}
        /\ after = [event |-> after.event, at |-> after.at, left |-> after.left, due |-> after.due]
    BY <1>6
  <2>2. task.at # "start" /\ n \in 1 .. made'
    BY <1>1, <1>2 DEF Task, dbVars
  <2>3. /\ \A e, f \in after.left \cup after.due : e.to = f.to => e = f
        /\ after.left \cap after.due = {}
    BY <1>2, <2>1 DEF Task
  <2>4. ASSUME NEW e \in after.left \cup after.due PROVE <<n, e.to>> \notin DOMAIN heard'
    <3>1. e \in task.left \cup task.due /\ e # d
      BY <1>2, <2>1, <2>4 DEF Task
    <3>2. e.to # d.to /\ <<n, e.to>> \notin DOMAIN heard
      BY <1>2, <3>1 DEF Task
    <3>3. <<n, e.to>> # post
      BY <3>2
    <3> QED
      BY <1>5, <3>2, <3>3
  <2> QED
    BY <2>1, <2>2, <2>3, <2>4 DEF Task
<1>8. \A r \in Requests : ~Holds(r, n)
  BY DEF Holds
<1>9. \A x \in DOMAIN heard' :
        (x \in DOMAIN heard /\ heard'[x] = heard[x]) \/ (x[1] = n /\ heard'[x] \in Outcomes)
  <2> HIDE DEF post
  <2> QED
    BY <1>4, <1>5
<1> QED
  BY <1>1, <1>6, <1>7, <1>8, <1>9, TaskStep

-----------------------------------------------------------------------------
\* All tasks are lost, and so are all requests.
LEMMA ServerStopsStep ==
  ASSUME Base, Announcing, ServerStops
  PROVE  Announcing'
<1>1. Stop /\ dispatch' = <<>> /\ heard' = heard
  BY DEF ServerStops
<1>2. made' = made /\ scenario' = scenario /\ \A q \in Requests : session'[q] = Closed
  BY <1>1, StopKeeps
<1>3. DOMAIN dispatch' = {} /\ Closed.job = Done
  BY <1>1 DEF Closed
<1>4. \A q \in Requests : JobFits(q)'
  BY <1>2, <1>3 DEF JobFits
<1> QED
  BY <1>1, <1>2, <1>3, <1>4 DEF Announcing, Uses

\* The endpoints of other groups start no task.
LEMMA OthersAnnounceNothing ==
  ASSUME Base, Deciding, Announcing, ~Uses("releases"), [Next]_vars
  PROVE  Announcing'
<1>1. scenario' = scenario
  BY BaseStep
<1>2. DOMAIN dispatch = {} /\ DOMAIN heard = {}
  BY DEF Announcing
<1>3. DOMAIN dispatch' = {} /\ DOMAIN heard' = {}
  <2>1. CASE UNCHANGED dispatchVars
    BY <1>2, <2>1 DEF dispatchVars
  <2>2. CASE ServerStops
    BY <1>2, <2>2 DEF ServerStops
  <2>3. ~DispatchStep
    BY <1>2 DEF DispatchStep
  <2> QED
    BY <2>1, <2>2, <2>3 DEF Next, vars
<1> QED
  BY <1>1, <1>3 DEF Announcing, Uses

LEMMA AnnouncingStep ==
  ASSUME Base, Deciding, Announcing, [Next]_vars
  PROVE  Announcing'
<1> SUFFICES ASSUME Uses("releases") PROVE Announcing'
  BY OthersAnnounceNothing
<1>1. CASE UNCHANGED vars
  BY <1>1, SMTT(30) DEF vars, dbVars, dispatchVars, Announcing, Uses, JobFits, Waits, Holds, Task, Unheard
<1>2. ASSUME NEW r \in Requests, Commit(r) \/ Rollback(r), UNCHANGED dispatchVars PROVE Announcing'
  BY <1>2, EndStep
<1>3. ASSUME NEW r \in Requests, ReleaseRequest(r) PROVE Announcing'
  BY <1>3, ReleaseRequestStep, TestWebhookStep
<1>4. ASSUME NEW r \in Requests, ReleaseStep(r) PROVE Announcing'
  <2>1. session[r].open
    <3>1. Closed.job[1] = "commit"
      BY DEF Closed, Done
    <3>2. session[r].job[1] \in {"announce", "test"}
      BY <1>4 DEF ReleaseStep, FlushAndAnnounce, TestReturns
    <3> QED
      BY <3>1, <3>2 DEF Base, IsSession
  <2>2. CASE FlushAndAnnounce(r)
    BY <2>1, <2>2, FlushAndAnnounceStep
  <2>3. CASE TestReturns(r)
    BY <2>1, <2>3, EndStep
  <2> QED
    BY <1>4, <2>2, <2>3 DEF ReleaseStep
<1>5. CASE DispatchStep
  <2>1. PICK n \in DOMAIN dispatch :
          DispatchReads(n) \/ DispatchRecords(n) \/ DispatchFails(n) \/ Deliver(n)
    BY <1>5 DEF DispatchStep
  <2> QED
    BY <2>1, DispatchReadsStep, DispatchRecordsStep, DispatchFailsStep, DeliverStep
<1>6. CASE ServerStops
  BY <1>6, ServerStopsStep
<1>7. /\ ~Uses("content") /\ ~Uses("versions") /\ ~Uses("members") /\ ~Uses("objects")
      /\ ~Uses("workspaces") /\ ~Uses("evidence") /\ ~Uses("connectors")
  BY DEF Uses
<1>8. \A r \in Requests : ~Request(r) /\ ~Step(r)
  BY <1>7 DEF Request, Step
<1> QED
  BY <1>1, <1>2, <1>3, <1>4, <1>5, <1>6, <1>8 DEF Next

LEMMA AnnouncingInit ==
  ASSUME Init PROVE Announcing
<1>1. DOMAIN dispatch = {} /\ DOMAIN heard = {}
  BY DEF Init, InitDispatch
<1>2. session = [r \in Requests |-> Closed] /\ Closed.job = Done
  BY DEF Init, InitDatabase, Closed
<1> QED
  BY <1>1, <1>2 DEF Announcing, JobFits

\* The invariant holds in every reachable state.
THEOREM Announcements == Spec => [](Base /\ Announcing)
<1>1. Init => Base /\ Deciding /\ Announcing
  BY BaseInit, AnnouncingInit
<1>2. Base /\ Deciding /\ Announcing /\ [Next]_vars => (Base /\ Deciding /\ Announcing)'
  BY BaseStep, DecidingStep, AnnouncingStep
<1> QED
  BY <1>1, <1>2, PTL DEF Spec

\* No receiver hears of a publication, deployment or rollback while the
\* transaction that makes it is open, with any number of concurrent requests
\* and webhooks and wherever the server stops.
THEOREM HeardAfterwards == Spec => []HeardAfterTheFact
<1>1. Base /\ Announcing => HeardAfterTheFact
  <2> SUFFICES ASSUME Base, Announcing,
                      NEW x \in DOMAIN heard, NEW r \in Requests,
                      session[r].open, session[r].job = <<"commit", x[1]>>
               PROVE  FALSE
    BY DEF HeardAfterTheFact
  <2>1. Uses("releases") /\ JobFits(r)
    BY DEF Announcing
  <2>2. session[r].job # Done
    BY DEF Done
  <2>3. session[r].job[1] = "commit" /\ session[r].job[2] = x[1]
    OBVIOUS
  <2>4. PICK n \in 1 .. made : session[r].job = <<"commit", n>> /\ Holds(r, n)
    BY <2>1, <2>2, <2>3 DEF JobFits
  <2>5. n = x[1]
    BY <2>3, <2>4
  <2> QED
    BY <2>4, <2>5 DEF Holds, Unheard
<1> QED
  BY <1>1, Announcements, PTL

-----------------------------------------------------------------------------
(* The types of the dispatch tasks.                                        *)

DispatchTyped ==
  \A n \in DOMAIN dispatch :
    dispatch[n].event \in Announced /\ dispatch[n].at \in {"start", "record", "failed"}

LEMMA DispatchTypedStep ==
  ASSUME Base, Announcing, DispatchTyped, [Next]_vars
  PROVE  DispatchTyped'
<1>1. CASE UNCHANGED dispatchVars
  BY <1>1 DEF dispatchVars, DispatchTyped
<1>2. ASSUME NEW e \in Announced, NEW n, Announce(e, n) PROVE DispatchTyped'
  <2> DEFINE task == [event |-> e, at |-> "start", left |-> {}, due |-> {}]
  <2>1. task.event \in Announced /\ task.at = "start"
    OBVIOUS
  <2>2. /\ DOMAIN dispatch' = DOMAIN dispatch \cup {n}
        /\ \A k \in DOMAIN dispatch' : dispatch'[k] = IF k = n THEN task ELSE dispatch[k]
    BY <1>2 DEF Announce, Over, Only
  <2> HIDE DEF task
  <2> QED
    BY <2>1, <2>2 DEF DispatchTyped
<1>3. ASSUME NEW r \in Requests, TestWebhook(r) PROVE DispatchTyped'
  <2>1. Announce("manual", made + 1) /\ "manual" \in Announced
    BY <1>3 DEF TestWebhook, Announced
  <2> QED
    BY <1>2, <2>1
<1>4. ASSUME NEW r \in Requests, Uses("releases"), FlushAndAnnounce(r) PROVE DispatchTyped'
  <2>1. session[r].job[1] = "announce" /\ Announce(session[r].job[2], session[r].job[3])
    BY <1>4 DEF FlushAndAnnounce
  <2>2. JobFits(r) /\ Done[1] = "commit"
    BY <1>4 DEF Announcing, Done
  <2>3. PICK e \in Announced, n \in 1 .. made : session[r].job = <<"announce", e, n>>
    BY <2>1, <2>2 DEF JobFits
  <2>4. session[r].job[2] = e
    BY <2>3
  <2> QED
    BY <1>2, <2>1, <2>4
<1>5. ASSUME NEW n \in DOMAIN dispatch,
             DispatchReads(n) \/ DispatchRecords(n) \/ DispatchFails(n) \/ Deliver(n)
      PROVE  DispatchTyped'
  <2> DEFINE task == dispatch[n]
  <2>1. Task(n) /\ task.event \in Announced /\ task.at \in {"start", "record", "failed"}
    BY DEF Announcing, DispatchTyped
  <2>2. task = [event |-> task.event, at |-> task.at, left |-> task.left, due |-> task.due]
    BY <2>1 DEF Task
  <2>3. /\ DOMAIN dispatch' = DOMAIN dispatch
        /\ \A k \in DOMAIN dispatch \ {n} : dispatch'[k] = dispatch[k]
        /\ dispatch'[n].event = task.event
        /\ dispatch'[n].at \in {"start", "record", "failed"}
    <3>1. CASE DispatchReads(n)
      <4>1. PICK left : dispatch' = [dispatch EXCEPT ![n].at = "record", ![n].left = left]
        BY <3>1 DEF DispatchReads
      <4>2. dispatch'[n] = [[task EXCEPT !.at = "record"] EXCEPT !.left = left]
        BY <4>1
      <4>3. dispatch'[n] = [event |-> task.event, at |-> "record", left |-> left, due |-> task.due]
        BY <2>2, <4>2
      <4>4. dispatch'[n].event = task.event /\ dispatch'[n].at \in {"start", "record", "failed"}
        BY <2>1, <4>3
      <4> QED
        BY <4>1, <4>4
    <3>2. CASE DispatchRecords(n)
      <4>1. PICK left, due : dispatch' = [dispatch EXCEPT ![n].left = left, ![n].due = due]
        BY <3>2 DEF DispatchRecords
      <4>2. dispatch'[n] = [[task EXCEPT !.left = left] EXCEPT !.due = due]
        BY <4>1
      <4>3. dispatch'[n] = [event |-> task.event, at |-> task.at, left |-> left, due |-> due]
        BY <2>2, <4>2
      <4>4. dispatch'[n].event = task.event /\ dispatch'[n].at \in {"start", "record", "failed"}
        BY <2>1, <4>3
      <4> QED
        BY <4>1, <4>4
    <3>3. CASE DispatchFails(n)
      <4>1. dispatch' = [dispatch EXCEPT ![n].at = "failed", ![n].left = {}]
        BY <3>3 DEF DispatchFails
      <4>2. dispatch'[n] = [[task EXCEPT !.at = "failed"] EXCEPT !.left = {}]
        BY <4>1
      <4>3. dispatch'[n] = [event |-> task.event, at |-> "failed", left |-> {}, due |-> task.due]
        BY <2>2, <4>2
      <4>4. dispatch'[n].event = task.event /\ dispatch'[n].at \in {"start", "record", "failed"}
        BY <2>1, <4>3
      <4> QED
        BY <4>1, <4>4
    <3>4. CASE Deliver(n)
      <4>1. PICK due : dispatch' = [dispatch EXCEPT ![n].due = due]
        BY <3>4 DEF Deliver, RecordStored
      <4>2. dispatch'[n] = [task EXCEPT !.due = due]
        BY <4>1
      <4>3. dispatch'[n] = [event |-> task.event, at |-> task.at, left |-> task.left, due |-> due]
        BY <2>2, <4>2
      <4>4. dispatch'[n].event = task.event /\ dispatch'[n].at \in {"start", "record", "failed"}
        BY <2>1, <4>3
      <4> QED
        BY <4>1, <4>4
    <3> HIDE DEF task
    <3> QED
      BY <1>5, <3>1, <3>2, <3>3, <3>4
  <2> HIDE DEF task
  <2> QED
    BY <2>1, <2>3 DEF DispatchTyped
<1>6. CASE ServerStops
  <2>1. DOMAIN dispatch' = {}
    BY <1>6 DEF ServerStops
  <2> QED
    BY <2>1 DEF DispatchTyped
<1>7. \A r \in Requests : ReleaseRequest(r) => UNCHANGED dispatchVars \/ TestWebhook(r)
  BY DEF ReleaseRequest
<1>8. ASSUME NEW r \in Requests, Uses("releases"), ReleaseStep(r)
      PROVE  UNCHANGED dispatchVars \/ FlushAndAnnounce(r)
  BY <1>8 DEF ReleaseStep, TestReturns
<1>9. DispatchStep => \E n \in DOMAIN dispatch :
          DispatchReads(n) \/ DispatchRecords(n) \/ DispatchFails(n) \/ Deliver(n)
  BY DEF DispatchStep
<1>10. ASSUME NEW r \in Requests, Uses("releases"), ReleaseRequest(r) \/ ReleaseStep(r)
       PROVE  DispatchTyped'
  <2>1. UNCHANGED dispatchVars \/ TestWebhook(r) \/ FlushAndAnnounce(r)
    BY <1>7, <1>8, <1>10
  <2> QED
    BY <1>1, <1>3, <1>4, <1>10, <2>1
<1>11. \/ UNCHANGED dispatchVars
       \/ \E r \in Requests : Uses("releases") /\ (ReleaseRequest(r) \/ ReleaseStep(r))
       \/ DispatchStep \/ ServerStops
  BY DEF Next, vars
<1> QED
  BY <1>1, <1>5, <1>6, <1>9, <1>10, <1>11

\* The invariant of the types, with the ones it rests on.
THEOREM RowsKeepTypes == Spec => [](Base /\ Announcing /\ AllTyped /\ DispatchTyped)
<1> DEFINE All == Base /\ Deciding /\ Announcing /\ AllTyped /\ DispatchTyped
<1>1. Init => All
  <2> SUFFICES ASSUME Init PROVE All
    OBVIOUS
  <2>1. DispatchTyped
    BY DEF Init, InitDispatch, DispatchTyped
  <2> QED
    BY <2>1, BaseInit, AnnouncingInit, AllTypedInit
<1>2. All /\ [Next]_vars => All'
  <2> SUFFICES ASSUME All, [Next]_vars PROVE All'
    OBVIOUS
  <2>1. Base'
    BY BaseStep
  <2> QED
    BY <2>1, DecidingStep, AnnouncingStep, AllTypedStep, DispatchTypedStep
<1>3. All => Base /\ Announcing /\ AllTyped /\ DispatchTyped
  OBVIOUS
<1> QED
  BY <1>1, <1>2, <1>3, PTL DEF Spec

\* Every row has the columns of its table with values of their types, and every
\* session, task and count the values it may have: no request writes a status
\* that does not exist, a half-made row or a published version without its time,
\* and none changes the table of a row, whatever is changed or deleted between
\* its reads and its commit.
THEOREM TypesAreKept == Spec => []TypeOK
<1>1. Base /\ Announcing /\ AllTyped /\ DispatchTyped /\ DatabaseTypeOK => TypeOK
  <2> SUFFICES ASSUME Base, Announcing, AllTyped, DispatchTyped, DatabaseTypeOK PROVE TypeOK
    OBVIOUS
  <2>1. DispatchTypeOK
    <3>1. \A n \in DOMAIN dispatch : n \in 1 .. made
      BY DEF Announcing, Task
    <3>2. \A x \in DOMAIN heard : x[1] \in 1 .. made /\ heard[x] \in Outcomes
      BY DEF Announcing
    <3> QED
      BY <3>1, <3>2 DEF DispatchTypeOK, DispatchTyped
  <2>2. ASSUME NEW i \in DOMAIN db
        PROVE  /\ db[i].table \in Tables(scenario.uses) /\ DOMAIN db[i] = Columns(db[i].table)
               /\ IsRow(db[i])
    <3>1. db[i].table \in Tables(scenario.uses) /\ Typed(db[i])
      BY DEF Base, HasTable, AllTyped
    <3> QED
      BY <3>1, TypedIsRow, TablesAreKnown DEF Typed
  <2> QED
    BY <2>1, <2>2 DEF TypeOK
<1> QED
  BY <1>1, RowsKeepTypes, DatabaseIsSound, PTL
=============================================================================
