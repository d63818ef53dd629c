\* Requests that never overlap: every endpoint promise, with two reviewers.
SPECIFICATION Spec
CONSTANTS
  c1 = c1
  c2 = c2
  r1 = r1
  r2 = r2
  m1 = m1
  m2 = m2
  textA = textA
  textB = textB
  Keep = Keep
  Clients <- OneClient
  Reviewers <- TwoReviewers
  Comments <- TwoComments
  Contents <- TwoTexts
  MaxRequired = 2
  ForeignKeys = FALSE
INVARIANTS
  ObjectionBlocks
  NoOrphans
PROPERTIES
  QuorumApproves
  MergedIsFrozen
  ImplementsLifecycle
\* A merged or deleted CR without reviewers has nothing left to do.
CHECK_DEADLOCK FALSE
