------------------------------- MODULE MCServer -------------------------------
(***************************************************************************)
(* Instances of Server: two request slots, and for each group of endpoints *)
(* what is in the database, how many requests are made, and whether they   *)
(* overlap.                                                                *)
(***************************************************************************)
EXTENDS Server, TLC

CONSTANTS r1, r2

TwoRequests == {r1, r2}
Symmetry == Permutations(TwoRequests)

Scenario(uses, over, requests, straddles) ==
  [uses |-> uses, overlap |-> over, requests |-> requests, straddles |-> straddles]

Solo(uses, requests) == Scenario(uses, FALSE, requests, {})
Overlapping(uses, requests) == Scenario(uses, TRUE, requests, {})

\* A second ends while the second entry is made after those of the database.
AtTheEndOfASecond == Scenario("members", TRUE, 3, {5})

MCScenarios ==
  {Overlapping("content", 2), Solo("content", 2),
   Overlapping("versions", 4), Solo("versions", 4),
   Overlapping("releases", 3), Solo("releases", 3),
   Overlapping("members", 4), AtTheEndOfASecond,
   Overlapping("objects", 3), Solo("objects", 3),
   Overlapping("workspaces", 3),
   Overlapping("evidence", 2), Solo("evidence", 3),
   Overlapping("connectors", 2)}

ReleasesOnly == {Solo("releases", 2)}
ClockOnly == {AtTheEndOfASecond}
EvidenceOnly == {Solo("evidence", 2)}

MCUniqueKeys ==
  {<<"class", {"iri"}>>, <<"property", {"iri"}>>, <<"version", {"onto", "label"}>>,
   <<"release", {"label"}>>, <<"webhook", {"name"}>>,
   <<"user", {"user"}>>, <<"member", {"user"}>>,
   <<"workspace", {"slug"}>>, <<"wsmember", {"ws", "user"}>>}

X == <<"a", "x">>
OneEntry(target) ==
  [table |-> "audit", prev |-> None, hashed |-> TRUE, target |-> target,
   after |-> <<"owner", TRUE>>]
Member(u) == [table |-> "member", user |-> u, role |-> "owner", active |-> TRUE]
User(u) == [table |-> "user", user |-> u]

\* An ontology with content, a published version and a draft.
OntologyRows ==
  << [Ontology("a", "v1") EXCEPT !.status = "PUBLISHED"],
     Element("class", 1, X, None, None, 0),
     Element("property", 1, X, X, 2, 0),
     Element("constraint", 1, None, X, 3, "warning"),
     Version(1, "v2", "DRAFT", None, {}, None),
     Version(1, "v1", "PUBLISHED", 6, {}, None) >>

\* A draft release and a subscriber.
ReleaseRows ==
  << Release("1.0"),
     Webhook("first", {"release.published", "deployment.succeeded"}, 2) >>

MemberRows == << User("ann"), Member("ann"), OneEntry(2) >>

\* An object with a key, one without, and a link between them.
ObjectRows == << Object("k"), Object(None), Link(1, 2) >>

\* A workspace with its owner, an administrator, and a login under way.
WorkspaceRows ==
  << User("ann"), User("bob"), Workspace("a", "ann"), Membership(3, "ann", "owner"),
     Membership(3, "bob", "admin"), Provider(3),
     [table |-> "login", provider |-> 6, ws |-> 3, consumed |-> FALSE] >>

\* A source with a piece of evidence for its field and one for none, and a
\* proposal.
EvidenceRows ==
  << Source({"f"}), Evidence(1, "f"), Evidence(1, None), Generated(1, "f", "f") >>

\* A connector whose password is a secret.
ConnectorRows ==
  << Connector([host |-> "clear", password |-> "sealed"], {"password"}), OneEntry(1) >>

MCInitialRows(uses) ==
  CASE uses \in {"content", "versions"} -> OntologyRows
    [] uses = "releases" -> ReleaseRows
    [] uses = "members" -> MemberRows
    [] uses = "objects" -> ObjectRows
    [] uses = "workspaces" -> WorkspaceRows
    [] uses = "evidence" -> EvidenceRows
    [] uses = "connectors" -> ConnectorRows

MCSubscriptions ==
  {{"release.published", "deployment.succeeded"}, {"release.published", "manual"}}
=============================================================================
