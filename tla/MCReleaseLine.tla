--------------------------- MODULE MCReleaseLine ---------------------------
(***************************************************************************)
(* A small instance of ReleaseLine: one request at a time, as on SQLite.   *)
(***************************************************************************)
EXTENDS ReleaseLine, TLC

CONSTANTS u1, main, dev, hotfix, rel1, ver1, ver2

OneUser == {u1}
ThreeBranches == {main, dev, hotfix}
OneTag == {rel1}
TwoVersions == {ver1, ver2}

Symmetry == Permutations({dev, hotfix}) \cup Permutations({ver1, ver2})
=============================================================================
