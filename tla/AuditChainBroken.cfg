\* A decision about a proposal breaks the hash chain of the project.
SPECIFICATION Spec
CONSTANTS
  r1 = r1
  r2 = r2
  None = None
  Requests <- TwoRequests
  UniqueKeys <- MCUniqueKeys
  Scenarios <- EvidenceOnly
  InitialRows <- MCInitialRows
  Namespaces = {"a", "b"}
  LocalNames = {"x"}
  Labels = {"v1", "v2", "v3"}
  Subscriptions <- MCSubscriptions
  ReleaseLabels = {"1.0"}
  MaxRetries = 2
  Users = {"ann", "bob", "cid"}
  Roles = {"owner", "viewer"}
  Second = 2
  Keys = {"k"}
  Slugs = {"a", "b"}
  Fields = {"f"}
  ClassIris = {"aligned"}
  NoUuid = NoUuid
  Settings = {"host", "password"}
SYMMETRY Symmetry
INVARIANTS
  EvidenceChainVerifies
\* Nothing is left to do when all requests are served.
CHECK_DEADLOCK FALSE
