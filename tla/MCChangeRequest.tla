-------------------------- MODULE MCChangeRequest --------------------------
(***************************************************************************)
(* Small instances of ChangeRequest for TLC: one client (requests never    *)
(* overlap) and two clients (any two requests may).                        *)
(***************************************************************************)
EXTENDS ChangeRequest, TLC

CONSTANTS c1, c2, r1, r2, m1, m2, textA, textB

OneClient == {c1}
TwoClients == {c1, c2}
TwoReviewers == {r1, r2}
NoComment == {}
OneComment == {m1}
TwoComments == {m1, m2}
OneText == {textA}
TwoTexts == {textA, textB}

\* Clients and reviewers are interchangeable: sound for the invariants and
\* action properties of the runs that use it, none of which is about liveness.
Symmetry == Permutations({c1, c2}) \cup Permutations({r1, r2})
=============================================================================
