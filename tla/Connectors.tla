------------------------------ MODULE Connectors ------------------------------
(***************************************************************************)
(* Connectors to external data (api/connectors.py, core/secrets.py).       *)
(* Every request is authenticated and keeps the writer lock while it calls *)
(* the external system.  Of a value in a config only its form is modelled: *)
(* in clear or sealed (encrypted); clients send values in clear.           *)
(***************************************************************************)
EXTENDS EvidenceReview

CONSTANT Settings   \* the fields of a config

ConnectorStatus == {"ACTIVE", "DISABLED", "ERROR", "ARCHIVED"}

Connector(config, secret) ==
  [table |-> "connector", config |-> config, secret |-> secret, status |-> "ACTIVE",
   deleted |-> FALSE]

Live == {c \in Rows("connector") : ~db[c].deleted}

InClear(given) == [f \in Settings |-> IF f \in given THEN "clear" ELSE "absent"]

\* Only the fields that are named are touched, by either.
Seal(config, fields) ==
  [f \in Settings |-> IF f \in fields /\ config[f] = "clear" THEN "sealed" ELSE config[f]]
Unseal(config, fields) ==
  [f \in Settings |-> IF f \in fields /\ config[f] = "sealed" THEN "clear" ELSE config[f]]

-----------------------------------------------------------------------------
CreateConnector(r) ==
  \E given, secret \in SUBSET Settings :
    BeginLocked(r, AndEntry(New(Connector(Seal(InClear(given), secret), secret)), "create"), Done)

\* Wrong: a new list of secret fields is stored without sealing them.
UpdateListOnly(r) ==
  \E c \in Live, secret \in SUBSET Settings :
    BeginLocked(r, And(Set(c, [secret |-> secret]), New(AuditEntry(c, "update"))), Done)

\* What is given replaces the values there were, and without a list of secret
\* fields the old one is kept.  The values are unsealed by the new list: one that
\* was sealed under the old list only stays as it is, and cannot be read again.
UpdateConnector(r) ==
  \E c \in Live, given, secret \in SUBSET Settings, status \in ConnectorStatus :
    LET merged == [f \in Settings |-> IF f \in given THEN "clear" ELSE db[c].config[f]]
        stored == Seal(Unseal(merged, secret), secret)
    IN BeginLocked(r, And(Set(c, [config |-> stored, secret |-> secret, status |-> status]),
                          New(AuditEntry(c, "update"))), Done)

DeleteConnector(r) ==
  \E c \in Live :
    BeginLocked(r, And(Set(c, [deleted |-> TRUE, status |-> "ARCHIVED"]),
                       New(AuditEntry(c, "delete"))), Done)

\* The row is read before the external system is asked, for up to half a minute.
TestConnector(r) ==
  \E c \in Live, ok \in BOOLEAN :
    BeginLocked(r, And(Set(c, [status |-> IF ok THEN "ACTIVE" ELSE "ERROR"]),
                       New(AuditEntry(c, "test"))), Done)

SnapshotConnector(r) ==
  \E c \in Live : BeginLocked(r, New(AuditEntry(c, "read")), Done)

\* The new source has no schema of the kind that is profiled.
SnapshotToEvidence(r) ==
  \E fields \in SUBSET Fields, auto \in BOOLEAN :
    /\ Live # {}
    /\ LET found == IF auto THEN {Evidence(made + 1, f) : f \in fields} ELSE {}
       IN BeginLocked(r, AndNew(AndAll(New(Source({})), found),
                                AuditEntry(made + 1, "create")), Done)

-----------------------------------------------------------------------------
ConnectorRequest(r) ==
  \/ CreateConnector(r) \/ UpdateConnector(r) \/ DeleteConnector(r)
  \/ TestConnector(r) \/ SnapshotConnector(r) \/ SnapshotToEvidence(r)

ConnectorRow(row) ==
  /\ row.table = "connector"
  /\ row.config \in [Settings -> {"absent", "clear", "sealed"}]
  /\ row.secret \subseteq Settings /\ row.status \in ConnectorStatus

\* The columns of a connector agree, whichever requests wrote them: a value whose
\* field is on the list of secrets is sealed, however config and list were edited,
\* and a connector that was deleted stays archived, although a test of it that
\* takes long writes a status at its end.
ConnectorColumnsAgree ==
  \A c \in Rows("connector") :
    /\ \A f \in db[c].secret : db[c].config[f] # "clear"
    /\ db[c].deleted => db[c].status = "ARCHIVED"
=============================================================================
