\* Any two requests may overlap, on PostgreSQL.
SPECIFICATION Spec
CONSTANTS
  c1 = c1
  c2 = c2
  r1 = r1
  r2 = r2
  m1 = m1
  m2 = m2
  textA = textA
  textB = textB
  Keep = Keep
  Clients <- TwoClients
  Reviewers <- TwoReviewers
  Comments <- OneComment
  Contents <- OneText
  MaxRequired = 2
  ForeignKeys = TRUE
\* A merged or deleted CR without reviewers has nothing left to do.
CHECK_DEADLOCK FALSE
SYMMETRY Symmetry
INVARIANTS
  TypeOK
  ApprovedBeforeMerged
  DraftPristine
  NoOrphans
