\* One request at a time: the branches of an ontology stay well formed.
SPECIFICATION Spec
CONSTANTS
  u1 = u1
  main = main
  dev = dev
  hotfix = hotfix
  rel1 = rel1
  ver1 = ver1
  ver2 = ver2
  Nil = Nil
  Main = main
  Clients <- OneUser
  Branches <- ThreeBranches
  Tags <- OneTag
  Versions <- TwoVersions
SYMMETRY Symmetry
INVARIANTS
  TypeOK
  OneDefaultBranch
PROPERTIES
  ProtectedHeadsMoveByMerge
  ProtectedBranchesStay
