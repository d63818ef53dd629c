-------------------------------- MODULE Server --------------------------------
(***************************************************************************)
(* The API server: requests of its components on one database, and the     *)
(* dispatch tasks that some of them start.  A behaviour uses the requests  *)
(* of one group of endpoints (scenario.uses), which keeps the instances    *)
(* that TLC checks small; all of them share the sessions, the writer lock  *)
(* and the tables.                                                         *)
(***************************************************************************)
EXTENDS OntologyVersions, Releases, Objects, Workspaces, EvidenceReview, Connectors

CONSTANT InitialRows(_)   \* what is in the database for each use

\* The tables that the endpoints of a group write.
Tables(uses) ==
  CASE uses \in {"content", "versions"} -> Content \cup {"ontology", "version"}
    [] uses = "releases" -> {"release", "report", "deployment", "bundle", "webhook"}
    [] uses = "members" -> {"user", "member", "audit"}
    [] uses = "objects" -> {"object", "link", "audit"}
    [] uses = "workspaces" ->
         {"user", "workspace", "wsmember", "provider", "login", "audit"}
    [] uses = "evidence" ->
         {"source", "evidence", "profiling", "proposal", "decision", "audit"}
    [] uses = "connectors" -> {"connector", "source", "evidence", "audit"}
    [] OTHER -> {}

\* The columns of a table.
Columns(table) ==
  {"table"} \cup
    CASE table = "ontology" -> {"ns", "head", "status", "rev"}
      [] table \in Content -> {"onto", "iri", "ref", "link", "rev"}
      [] table = "version" -> {"onto", "label", "status", "at", "snapshot", "base"}
      [] table = "release" -> {"label", "status", "text", "checksum", "results"}
      [] table \in {"report", "bundle"} -> {"release"}
      [] table = "deployment" -> {"release", "status"}
      [] table = "webhook" -> {"name", "events", "enabled", "retries"}
      [] table = "audit" -> {"prev", "hashed", "target", "after"}
      [] table = "user" -> {"user"}
      [] table = "member" -> {"user", "role", "active"}
      [] table = "object" -> {"key", "rev", "deleted"}
      [] table = "link" -> {"source", "target", "rev"}
      [] table = "workspace" -> {"slug", "owner", "deleted", "rev"}
      [] table = "wsmember" -> {"ws", "user", "role", "active"}
      [] table = "provider" -> {"ws", "status", "provision"}
      [] table = "login" -> {"provider", "ws", "consumed"}
      [] table = "source" -> {"fields"}
      [] table = "evidence" -> {"source", "field", "iri", "confirmed", "by"}
      [] table = "profiling" -> {"source", "status"}
      [] table = "proposal" -> {"source", "project", "context", "status", "content"}
      [] table = "decision" -> {"proposal", "verdict"}
      [] table = "connector" -> {"config", "secret", "status", "deleted"}

\* A row of one of the components.
IsRow(row) ==
  \/ OntologyRow(row) \/ ReleaseRow(row) \/ AuditedRow(row) \/ ObjectRow(row)
  \/ WorkspaceRow(row) \/ EvidenceRow(row) \/ ConnectorRow(row)

\* The database of a group starts with rows of its tables that keep the unique
\* indexes.
ASSUME InitialRowsAssumption ==
  \A s \in Scenarios :
    LET rows == InitialRows(s.uses)
    IN /\ Len(rows) \in Nat /\ DOMAIN rows = 1 .. Len(rows)
       /\ \A i \in DOMAIN rows :
            /\ "table" \in DOMAIN rows[i] /\ rows[i].table \in Tables(s.uses)
            /\ DOMAIN rows[i] = Columns(rows[i].table) /\ IsRow(rows[i])
            /\ rows[i].table = "source" => rows[i] \in {Source(f) : f \in SUBSET Fields}
       /\ ~Violates(rows)

vars == <<dbVars, dispatchVars>>

Init ==
  /\ \E s \in Scenarios : scenario = s /\ InitDatabase(InitialRows(s.uses))
  /\ InitDispatch

Uses(group) == scenario.uses = group

\* A request comes in, and what its handler does next.
Request(r) ==
  \/ Uses("content") /\ ContentRequest(r)
  \/ Uses("versions") /\ VersionRequest(r)
  \/ Uses("members") /\ MemberRequest(r)
  \/ Uses("objects") /\ ObjectRequest(r)
  \/ Uses("workspaces") /\ WorkspaceRequest(r)
  \/ Uses("evidence") /\ (SourceRequest(r) \/ ProposalRequest(r))
  \/ Uses("connectors") /\ ConnectorRequest(r)

Step(r) ==
  \/ (Uses("content") \/ Uses("versions")) /\ OntologyStep(r)
  \/ (Uses("members") \/ Uses("objects")) /\ AuditStep(r)
  \/ Uses("workspaces") /\ WorkspaceStep(r)
  \/ Uses("evidence") /\ ProposalStep(r)

ServerStops ==
  /\ Stop
  /\ dispatch' = <<>>
  /\ UNCHANGED heard

Next ==
  \/ \E r \in Requests : CanOpen(r) /\ Request(r) /\ UNCHANGED dispatchVars
  \/ \E r \in Requests : session[r].open /\ Step(r) /\ UNCHANGED dispatchVars
  \/ \E r \in Requests : Commit(r) /\ UNCHANGED dispatchVars
  \/ \E r \in Requests : Rollback(r) /\ UNCHANGED dispatchVars
  \/ \E r \in Requests : Uses("releases") /\ CanOpen(r) /\ ReleaseRequest(r)
  \/ \E r \in Requests : Uses("releases") /\ ReleaseStep(r)
  \/ DispatchStep
  \/ ServerStops

Spec == Init /\ [][Next]_vars

TypeOK ==
  /\ DatabaseTypeOK
  /\ DispatchTypeOK
  /\ \A i \in DOMAIN db :
       /\ db[i].table \in Tables(scenario.uses) /\ DOMAIN db[i] = Columns(db[i].table)
       /\ IsRow(db[i])
=============================================================================
