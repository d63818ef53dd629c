---------------------------- MODULE ReleaseLine ----------------------------
(***************************************************************************)
(* The release line of one ontology: branches with a head version, the     *)
(* default branch, protection, merges and tags (api/release_line.py).      *)
(*                                                                         *)
(* Every endpoint authenticates first, which updates the caller's user row *)
(* in the request's own transaction (api/auth.py, _make_principal).  On    *)
(* SQLite that takes the one writer lock before anything is read, so       *)
(* requests run one after the other; on PostgreSQL, whose engine the code  *)
(* cannot build at present, it would only make the requests of one user    *)
(* wait for each other.  A client is therefore a user, and one client is   *)
(* the deployment there is.                                                *)
(*                                                                         *)
(* A handler reads committed rows and checks them, leaving in tx[c] what   *)
(* its session will write; Commit applies it to the rows as they are then. *)
(* Descriptions and authors are left out; what a role may do is not part   *)
(* of this module.                                                         *)
(***************************************************************************)
EXTENDS Integers, FiniteSets

CONSTANTS
  Clients,    \* users, each with at most one request under way
  Branches,   \* branch names
  Main,       \* the name "main"
  Tags,       \* tag names
  Versions,   \* the ontology's OntologyVersion rows
  Nil         \* no version, no merge

ASSUME MainAssumption == Main \in Branches

VARIABLES
  live,        \* branches that have a row; a name has at most one (unique) and
               \* is free again when its row has been deleted
  default,     \* rows with is_default
  protected,   \* rows with is_protected
  head,        \* head_version_id
  tags,        \* tag name |-> version_id, Nil if no row
  lastMerge,   \* the newest branch_merges row
  tx           \* client |-> what its open session will write

rows == <<live, default, protected, head, tags, lastMerge>>
vars == <<live, default, protected, head, tags, lastMerge, tx>>

-----------------------------------------------------------------------------
(* Sessions.                                                               *)

Idle == [op |-> "idle", needs |-> {}, insert |-> {}, delete |-> {},
         promote |-> {}, demote |-> {}, protect |-> {}, expose |-> {},
         move |-> {}, version |-> Nil, tag |-> {}, untag |-> {}, merge |-> Nil]

MergeRow == [source : Branches, target : Branches, before : Versions \cup {Nil},
             after : Versions, strategy : {"noop", "fast_forward", "merge_commit"}]

Tx == [op : {"idle", "branch", "read", "tag", "merge"},
       needs : SUBSET Branches, insert : SUBSET Branches, delete : SUBSET Branches,
       promote : SUBSET Branches, demote : SUBSET Branches,
       protect : SUBSET Branches, expose : SUBSET Branches, move : SUBSET Branches,
       version : Versions \cup {Nil}, tag : SUBSET Tags, untag : SUBSET Tags,
       merge : MergeRow \cup {Nil}]

ASSUME NilAssumption == Nil \notin Versions \cup MergeRow

Begin(c, t) ==
  /\ tx[c] = Idle
  /\ tx' = [tx EXCEPT ![c] = t]
  /\ UNCHANGED rows

\* SELECT ... WHERE is_default is read with scalar_one_or_none: a second
\* default row is an error and the request fails.
AtMostOneDefault == Cardinality(default) <= 1

-----------------------------------------------------------------------------
(* Wrong handlers the properties must notice.                              *)

CreateDefaultAlways(c, b) ==
  /\ b \notin live
  /\ \E v \in Versions \cup {Nil} :
       Begin(c, [Idle EXCEPT !.op = "branch", !.insert = {b}, !.move = {b},
                             !.version = v, !.promote = {b}])

DeleteWithoutChecks(c, b) ==
  b \in live /\ Begin(c, [Idle EXCEPT !.op = "branch", !.delete = {b}])

SetHeadOnAnyBranch(c, b, v) ==
  /\ b \in live
  /\ Begin(c, [Idle EXCEPT !.op = "branch", !.needs = {b}, !.move = {b}, !.version = v])

MergeFromAnyBranch(c, source, target) ==
  /\ {source, target} \subseteq live
  /\ source # target
  /\ Begin(c, [Idle EXCEPT !.op = "merge", !.needs = {target}, !.move = {target},
                           !.version = head[source],
                           !.merge = [source |-> source, target |-> target,
                                      before |-> head[target], after |-> head[source],
                                      strategy |-> "fast_forward"]])

-----------------------------------------------------------------------------
(* The handlers.                                                           *)

\* _ensure_default_branch: GET /branches and GET /branches/all write too.
EnsureDefaultBranch(c) ==
  /\ default = {}
  /\ Begin(c, [Idle EXCEPT !.op = "read", !.insert = {Main}, !.promote = {Main}])

\* The first branch is the default one.
CreateBranch(c, b) ==
  /\ b \notin live
  /\ AtMostOneDefault
  /\ \E v \in Versions \cup {Nil}, guarded \in BOOLEAN :
       Begin(c, [Idle EXCEPT !.op = "branch", !.insert = {b},
                             !.move = {b}, !.version = v,
                             !.promote = IF default = {} THEN {b} ELSE {},
                             !.protect = IF guarded THEN {b} ELSE {}])

\* An attribute set to its loaded value is not written.
UpdateBranch(c, b) ==
  /\ b \in live
  /\ \E guarded \in BOOLEAN :
       Begin(c, [Idle EXCEPT !.op = "branch", !.needs = {b},
                             !.protect = IF guarded THEN {b} \ protected ELSE {},
                             !.expose = IF guarded THEN {} ELSE {b} \cap protected])

DeleteBranch(c, b) ==
  /\ b \in live \ (default \cup protected)
  /\ Begin(c, [Idle EXCEPT !.op = "branch", !.delete = {b}])

SetDefaultBranch(c, b) ==
  /\ b \in live \ default                    \* already default: nothing to do
  /\ AtMostOneDefault
  /\ Begin(c, [Idle EXCEPT !.op = "branch", !.needs = {b} \cup default,
                           !.promote = {b}, !.demote = default])

SetBranchHead(c, b, v) ==
  /\ b \in live \ protected
  /\ Begin(c, [Idle EXCEPT !.op = "branch", !.needs = {b},
                           !.move = {d \in {b} : head[d] # v}, !.version = v])

\* Protection does not matter, nor does ancestry: whenever the heads differ
\* the target takes the head of the source.
Strategy(source, target, forced) ==
  IF head[source] = head[target] THEN "noop"
  ELSE IF head[target] # Nil /\ forced THEN "merge_commit" ELSE "fast_forward"

MergeBranch(c, source, target) ==
  /\ {source, target} \subseteq live
  /\ source # target
  /\ head[source] # Nil
  /\ \E forced \in BOOLEAN :
       LET how == Strategy(source, target, forced)
       IN Begin(c, [Idle EXCEPT !.op = "merge", !.needs = {target},
                                !.move = IF how = "noop" THEN {} ELSE {target},
                                !.version = head[source],
                                !.merge = [source |-> source, target |-> target,
                                           before |-> head[target],
                                           after |-> head[source], strategy |-> how]])

CreateTag(c, g, v) ==
  /\ tags[g] = Nil
  /\ Begin(c, [Idle EXCEPT !.op = "tag", !.tag = {g}, !.version = v])

DeleteTag(c, g) ==
  /\ tags[g] # Nil
  /\ Begin(c, [Idle EXCEPT !.op = "tag", !.untag = {g}])

-----------------------------------------------------------------------------
(* The end of the session.                                                 *)

\* No row to update has gone, no name is taken (uq_..._ontology_name).
Accepted(t) ==
  /\ t.needs \subseteq live
  /\ t.insert \cap live = {}
  /\ \A g \in t.tag : tags[g] = Nil

Commit(c) ==
  LET t == tx[c]
  IN /\ t.op # "idle"
     /\ Accepted(t)
     /\ live' = (live \cup t.insert) \ t.delete
     /\ default' = ((default \ t.demote) \cup t.promote) \ t.delete
     /\ protected' = ((protected \ t.expose) \cup t.protect) \ t.delete
     /\ head' = [b \in Branches |-> IF b \in t.move THEN t.version
                                    ELSE IF b \in t.delete THEN Nil ELSE head[b]]
     /\ tags' = [g \in Tags |-> IF g \in t.tag THEN t.version
                                ELSE IF g \in t.untag THEN Nil ELSE tags[g]]
     /\ lastMerge' = IF t.merge = Nil THEN lastMerge ELSE t.merge
     /\ tx' = [tx EXCEPT ![c] = Idle]

\* Stale row, name taken, lock timeout, lost connection or server stop.
Rollback(c) ==
  /\ tx[c].op # "idle"
  /\ tx' = [tx EXCEPT ![c] = Idle]
  /\ UNCHANGED rows

-----------------------------------------------------------------------------
Init ==
  /\ live = {} /\ default = {} /\ protected = {}
  /\ head = [b \in Branches |-> Nil]
  /\ tags = [g \in Tags |-> Nil]
  /\ lastMerge = Nil
  /\ tx = [c \in Clients |-> Idle]

Request(c) ==
  \/ EnsureDefaultBranch(c)
  \/ \E b \in Branches : CreateBranch(c, b) \/ UpdateBranch(c, b)
  \/ \E b \in Branches : DeleteBranch(c, b) \/ SetDefaultBranch(c, b)
  \/ \E b \in Branches, v \in Versions : SetBranchHead(c, b, v)
  \/ \E source, target \in Branches : MergeBranch(c, source, target)
  \/ \E g \in Tags, v \in Versions : CreateTag(c, g, v)
  \/ \E g \in Tags : DeleteTag(c, g)

Next == \E c \in Clients : Request(c) \/ Commit(c) \/ Rollback(c)

Spec == Init /\ [][Next]_vars

-----------------------------------------------------------------------------
TypeOK ==
  /\ live \subseteq Branches /\ default \subseteq Branches /\ protected \subseteq Branches
  /\ head \in [Branches -> Versions \cup {Nil}]
  /\ tags \in [Tags -> Versions \cup {Nil}]
  /\ lastMerge \in MergeRow \cup {Nil}
  /\ tx \in [Clients -> Tx]

\* As long as an ontology has branches it has exactly one default branch, the
\* one GET /branches returns (OntologyBranch docstring; create, set-default
\* and delete between them have to keep it: the index that docstring speaks of
\* is not in the migration).
OneDefaultBranch ==
  /\ default \subseteq live
  /\ live # {} => \E b \in live : default = {b}

\* The head of a protected branch moves only by a merge, which leaves a
\* branch_merges row with the head it replaced and the head it set, unless the
\* branch goes altogether.
ProtectedHeadsMoveByMerge ==
  [][\A b \in protected :
       head'[b] # head[b] =>
         /\ lastMerge' # Nil /\ lastMerge'.target = b
         /\ lastMerge'.before = head[b] /\ lastMerge'.after = head'[b]]_vars

\* A branch that is protected, or the default one, is never deleted.
ProtectedBranchesStay == [][protected \cup default \subseteq live']_vars
=============================================================================
