------------------------- MODULE ReleaseLineProofs -------------------------
(***************************************************************************)
(* What holds of ReleaseLine for every set of branches, tags and versions: *)
(* the types with any number of clients, and with one request at a time    *)
(* (the SQLite deployment) the default branch and branch protection.       *)
(***************************************************************************)
EXTENDS ReleaseLine, TLAPS

\* The writer lock of SQLite: there are no two requests under way.
OneAtATime == \A c, d \in Clients : c = d

-----------------------------------------------------------------------------
(* The rows as the commit of t would leave them.                           *)

LiveAfter(t) == (live \cup t.insert) \ t.delete
DefaultAfter(t) == ((default \ t.demote) \cup t.promote) \ t.delete
ProtectedAfter(t) == ((protected \ t.expose) \cup t.protect) \ t.delete
HeadAfter(t, b) ==
  IF b \in t.move THEN t.version ELSE IF b \in t.delete THEN Nil ELSE head[b]

\* A line with branches has one default branch; what is protected exists.
WellFormed(branches, defaults, guarded) ==
  /\ defaults \subseteq branches
  /\ branches # {} => \E b \in branches : defaults = {b}
  /\ guarded \subseteq branches

\* The merge that t stores is the one that moves the head of b.
MergeOf(t, b) ==
  /\ t.merge # Nil /\ t.merge.target = b
  /\ t.merge.before = head[b] /\ t.merge.after = HeadAfter(t, b)

\* What t will write keeps the line well formed, every branch that is
\* protected or the default one, and the protected heads that no merge moves.
\* It is about the rows as t read them, which is why it needs OneAtATime.
Harmless(t) ==
  /\ WellFormed(LiveAfter(t), DefaultAfter(t), ProtectedAfter(t))
  /\ protected \cup default \subseteq LiveAfter(t)
  /\ \A b \in protected : HeadAfter(t, b) # head[b] => MergeOf(t, b)

Line == WellFormed(live, default, protected) /\ \A c \in Clients : Harmless(tx[c])

-----------------------------------------------------------------------------
(* Types.                                                                  *)

LEMMA IdleType == Idle \in Tx
BY DEF Idle, Tx

LEMMA BeginType ==
  ASSUME TypeOK, NEW c \in Clients, NEW t \in Tx, Begin(c, t)
  PROVE  TypeOK'
BY DEF TypeOK, Begin, rows

LEMMA CommitType ==
  ASSUME TypeOK, NEW c \in Clients, Commit(c)
  PROVE  TypeOK'
<1> DEFINE t == tx[c]
<1>1. t \in Tx
  BY DEF TypeOK
<1>2. live' \subseteq Branches
  BY <1>1 DEF TypeOK, Commit, Tx
<1>3. default' \subseteq Branches /\ protected' \subseteq Branches
  BY <1>1 DEF TypeOK, Commit, Tx
<1>4. head' \in [Branches -> Versions \cup {Nil}] /\ tags' \in [Tags -> Versions \cup {Nil}]
  BY <1>1 DEF TypeOK, Commit, Tx
<1>5. lastMerge' \in MergeRow \cup {Nil}
  BY <1>1 DEF TypeOK, Commit, Tx
<1>6. tx' \in [Clients -> Tx]
  BY IdleType DEF TypeOK, Commit
<1> QED
  BY <1>2, <1>3, <1>4, <1>5, <1>6 DEF TypeOK

LEMMA RollbackType ==
  ASSUME TypeOK, NEW c \in Clients, Rollback(c)
  PROVE  TypeOK'
BY IdleType DEF TypeOK, Rollback, rows

\* What MergeBranch will write.
Merging(source, target, how) ==
  [Idle EXCEPT !.op = "merge", !.needs = {target},
               !.move = IF how = "noop" THEN {} ELSE {target},
               !.version = head[source],
               !.merge = [source |-> source, target |-> target, before |-> head[target],
                          after |-> head[source], strategy |-> how]]

LEMMA MergingType ==
  ASSUME TypeOK, NEW source \in Branches, NEW target \in Branches, head[source] # Nil,
         NEW how \in {"noop", "fast_forward", "merge_commit"}
  PROVE  Merging(source, target, how) \in Tx
<1> DEFINE m == [source |-> source, target |-> target, before |-> head[target],
                 after |-> head[source], strategy |-> how]
<1>1. m \in MergeRow
  BY DEF MergeRow, TypeOK
<1>2. \A n \in MergeRow, v \in Versions \cup {Nil} :
        [Idle EXCEPT !.op = "merge", !.needs = {target},
                     !.move = IF how = "noop" THEN {} ELSE {target},
                     !.version = v, !.merge = n] \in Tx
  BY DEF Idle, Tx
<1>3. head[source] \in Versions \cup {Nil}
  BY DEF TypeOK
<1> HIDE DEF m
<1>4. [Idle EXCEPT !.op = "merge", !.needs = {target},
                     !.move = IF how = "noop" THEN {} ELSE {target},
                     !.version = head[source], !.merge = m] \in Tx
  BY <1>1, <1>2, <1>3
<1> QED
  BY <1>4 DEF m, Merging

\* A request opens a session with something of type Tx.
LEMMA RequestType ==
  ASSUME TypeOK, NEW c \in Clients, Request(c)
  PROVE  TypeOK'
<1> SUFFICES \E t \in Tx : Begin(c, t)
  BY BeginType
<1>1. CASE EnsureDefaultBranch(c)
  BY <1>1, MainAssumption DEF EnsureDefaultBranch, Idle, Tx
<1>2. ASSUME NEW b \in Branches, CreateBranch(c, b) PROVE \E t \in Tx : Begin(c, t)
  <2> DEFINE creating(v, guarded) ==
               [Idle EXCEPT !.op = "branch", !.insert = {b}, !.move = {b}, !.version = v,
                            !.promote = IF default = {} THEN {b} ELSE {},
                            !.protect = IF guarded THEN {b} ELSE {}]
  <2>1. PICK v \in Versions \cup {Nil}, guarded \in BOOLEAN : Begin(c, creating(v, guarded))
    BY <1>2 DEF CreateBranch
  <2>2. creating(v, guarded) \in Tx
    BY DEF Idle, Tx
  <2> QED
    BY <2>1, <2>2
<1>3. ASSUME NEW b \in Branches, UpdateBranch(c, b) PROVE \E t \in Tx : Begin(c, t)
  BY <1>3 DEF UpdateBranch, Idle, Tx
<1>4. ASSUME NEW b \in Branches, DeleteBranch(c, b) PROVE \E t \in Tx : Begin(c, t)
  BY <1>4 DEF DeleteBranch, Idle, Tx
<1>5. ASSUME NEW b \in Branches, SetDefaultBranch(c, b) PROVE \E t \in Tx : Begin(c, t)
  BY <1>5 DEF SetDefaultBranch, Idle, Tx, TypeOK
<1>6. ASSUME NEW b \in Branches, NEW v \in Versions, SetBranchHead(c, b, v)
      PROVE  \E t \in Tx : Begin(c, t)
  BY <1>6 DEF SetBranchHead, Idle, Tx
<1>7. ASSUME NEW source \in Branches, NEW target \in Branches, MergeBranch(c, source, target)
      PROVE  \E t \in Tx : Begin(c, t)
  <2>1. PICK forced \in BOOLEAN :
          Begin(c, Merging(source, target, Strategy(source, target, forced)))
    BY <1>7 DEF MergeBranch, Merging
  <2>2. Strategy(source, target, forced) \in {"noop", "fast_forward", "merge_commit"}
    BY DEF Strategy
  <2>3. head[source] # Nil
    BY <1>7 DEF MergeBranch
  <2> QED
    BY <2>1, <2>2, <2>3, MergingType
<1>8. ASSUME NEW g \in Tags, NEW v \in Versions, CreateTag(c, g, v)
      PROVE  \E t \in Tx : Begin(c, t)
  BY <1>8 DEF CreateTag, Idle, Tx
<1>9. ASSUME NEW g \in Tags, DeleteTag(c, g) PROVE \E t \in Tx : Begin(c, t)
  BY <1>9 DEF DeleteTag, Idle, Tx
<1> QED
  BY <1>1, <1>2, <1>3, <1>4, <1>5, <1>6, <1>7, <1>8, <1>9 DEF Request

LEMMA TypesKept == ASSUME TypeOK, [Next]_vars PROVE TypeOK'
<1>1. CASE UNCHANGED vars
  BY <1>1 DEF vars, TypeOK
<1>2. ASSUME NEW c \in Clients, Request(c) \/ Commit(c) \/ Rollback(c) PROVE TypeOK'
  BY <1>2, RequestType, CommitType, RollbackType
<1> QED
  BY <1>1, <1>2 DEF Next

LEMMA TypesAtFirst == Init => TypeOK
BY IdleType DEF Init, TypeOK

\* Whatever the clients do, on either database, the rows and what the open
\* sessions will write have their types: a stored merge names the head it set,
\* which is a version and never empty.
THEOREM TypeCorrect == Spec => []TypeOK
BY TypesAtFirst, TypesKept, PTL DEF Spec

-----------------------------------------------------------------------------
(* One request at a time: the default branch and branch protection.        *)

LEMMA IdleIsHarmless ==
  ASSUME TypeOK, WellFormed(live, default, protected)
  PROVE  Harmless(Idle)
BY DEF Harmless, WellFormed, Idle, LiveAfter, DefaultAfter, ProtectedAfter, HeadAfter, TypeOK

LEMMA BeginLine ==
  ASSUME OneAtATime, TypeOK, Line, NEW c \in Clients, NEW t, Begin(c, t), Harmless(t)
  PROVE  Line'
<1>1. UNCHANGED rows
  BY DEF Begin
<1>2. \A d \in Clients : tx'[d] = t
  BY DEF Begin, OneAtATime, TypeOK
<1>3. Harmless(tx[c])' <=> Harmless(tx'[c])
  BY <1>1 DEF rows, Harmless, WellFormed, MergeOf, LiveAfter, DefaultAfter, ProtectedAfter, HeadAfter
<1> QED
  BY <1>1, <1>2 DEF Line, rows, Harmless, WellFormed, MergeOf,
                    LiveAfter, DefaultAfter, ProtectedAfter, HeadAfter

\* What every handler but the merge leaves in its session is harmless.
LEMMA EnsureIsHarmless ==
  ASSUME TypeOK, Line, default = {}
  PROVE  Harmless([Idle EXCEPT !.op = "read", !.insert = {Main}, !.promote = {Main}])
BY DEF Line, Harmless, WellFormed, Idle, LiveAfter, DefaultAfter, ProtectedAfter, HeadAfter

LEMMA CreateIsHarmless ==
  ASSUME TypeOK, Line, NEW b \in Branches, b \notin live,
         NEW v \in Versions \cup {Nil}, NEW guarded \in BOOLEAN
  PROVE  Harmless([Idle EXCEPT !.op = "branch", !.insert = {b}, !.move = {b}, !.version = v,
                               !.promote = IF default = {} THEN {b} ELSE {},
                               !.protect = IF guarded THEN {b} ELSE {}])
<1> DEFINE t == [Idle EXCEPT !.op = "branch", !.insert = {b}, !.move = {b}, !.version = v,
                             !.promote = IF default = {} THEN {b} ELSE {},
                             !.protect = IF guarded THEN {b} ELSE {}]
<1>1. /\ t.insert = {b} /\ t.delete = {} /\ t.demote = {} /\ t.expose = {}
      /\ t.promote = IF default = {} THEN {b} ELSE {}
      /\ t.protect \subseteq {b} /\ t.move = {b}
  BY DEF Idle
<1>2. WellFormed(live, default, protected)
  BY DEF Line
<1> HIDE DEF t
<1>3. DefaultAfter(t) = IF default = {} THEN {b} ELSE default
  BY <1>1 DEF DefaultAfter
<1>4. LiveAfter(t) = live \cup {b} /\ ProtectedAfter(t) \subseteq protected \cup {b}
  BY <1>1 DEF LiveAfter, ProtectedAfter
<1>5. WellFormed(LiveAfter(t), DefaultAfter(t), ProtectedAfter(t))
  BY <1>2, <1>3, <1>4 DEF WellFormed
<1>6. \A d \in protected : HeadAfter(t, d) = head[d]
  BY <1>1, <1>2 DEF WellFormed, HeadAfter
<1>7. Harmless(t)
  BY <1>2, <1>4, <1>5, <1>6 DEF Harmless, WellFormed
<1> QED
  BY <1>7 DEF t

LEMMA UpdateIsHarmless ==
  ASSUME TypeOK, Line, NEW b \in live, NEW guarded \in BOOLEAN
  PROVE  Harmless([Idle EXCEPT !.op = "branch", !.needs = {b},
                               !.protect = IF guarded THEN {b} \ protected ELSE {},
                               !.expose = IF guarded THEN {} ELSE {b} \cap protected])
BY DEF Line, Harmless, WellFormed, Idle, LiveAfter, DefaultAfter, ProtectedAfter, HeadAfter

LEMMA DeleteIsHarmless ==
  ASSUME TypeOK, Line, NEW b \in live \ (default \cup protected)
  PROVE  Harmless([Idle EXCEPT !.op = "branch", !.delete = {b}])
BY DEF Line, Harmless, WellFormed, Idle, LiveAfter, DefaultAfter, ProtectedAfter, HeadAfter

LEMMA SetDefaultIsHarmless ==
  ASSUME TypeOK, Line, NEW b \in live \ default
  PROVE  Harmless([Idle EXCEPT !.op = "branch", !.needs = {b} \cup default,
                               !.promote = {b}, !.demote = default])
BY DEF Line, Harmless, WellFormed, Idle, LiveAfter, DefaultAfter, ProtectedAfter, HeadAfter

LEMMA SetHeadIsHarmless ==
  ASSUME TypeOK, Line, NEW b \in live \ protected, NEW v \in Versions
  PROVE  Harmless([Idle EXCEPT !.op = "branch", !.needs = {b},
                               !.move = {d \in {b} : head[d] # v}, !.version = v])
<1> DEFINE t == [Idle EXCEPT !.op = "branch", !.needs = {b},
                             !.move = {d \in {b} : head[d] # v}, !.version = v]
<1>1. /\ t.insert = {} /\ t.delete = {} /\ t.promote = {} /\ t.demote = {}
      /\ t.protect = {} /\ t.expose = {}
      /\ t.move \subseteq {b}
  BY DEF Idle
<1> HIDE DEF t
<1>2. \A d \in protected : HeadAfter(t, d) = head[d]
  BY <1>1 DEF HeadAfter
<1>3. WellFormed(live, default, protected)
  BY DEF Line
<1>4. LiveAfter(t) = live /\ DefaultAfter(t) = default /\ ProtectedAfter(t) = protected
  BY <1>1 DEF LiveAfter, DefaultAfter, ProtectedAfter
<1>5. Harmless(t)
  BY <1>2, <1>3, <1>4 DEF Harmless, WellFormed
<1> QED
  BY <1>5 DEF t

LEMMA TagIsHarmless ==
  ASSUME TypeOK, Line
  PROVE  /\ \A g \in Tags, v \in Versions :
              Harmless([Idle EXCEPT !.op = "tag", !.tag = {g}, !.version = v])
         /\ \A g \in Tags : Harmless([Idle EXCEPT !.op = "tag", !.untag = {g}])
BY DEF Line, Harmless, WellFormed, Idle, LiveAfter, DefaultAfter, ProtectedAfter, HeadAfter

\* A merge may move a protected head, and then stores both heads.
LEMMA MergingIsHarmless ==
  ASSUME TypeOK, Line, NEW source \in live, NEW target \in live, head[source] # Nil,
         NEW how \in {"noop", "fast_forward", "merge_commit"}
  PROVE  Harmless(Merging(source, target, how))
<1> DEFINE t == Merging(source, target, how)
<1>1. /\ t.insert = {} /\ t.delete = {} /\ t.promote = {} /\ t.demote = {}
      /\ t.protect = {} /\ t.expose = {}
      /\ t.move \subseteq {target} /\ t.version = head[source]
      /\ t.merge = [source |-> source, target |-> target, before |-> head[target],
                    after |-> head[source], strategy |-> how]
  BY DEF Merging, Idle
<1>2. t.merge # Nil
  BY <1>1, NilAssumption DEF MergeRow, TypeOK
<1>3. WellFormed(live, default, protected)
  BY DEF Line
<1> HIDE DEF t
<1>4. LiveAfter(t) = live /\ DefaultAfter(t) = default /\ ProtectedAfter(t) = protected
  BY <1>1 DEF LiveAfter, DefaultAfter, ProtectedAfter
<1>5. \A b \in protected : HeadAfter(t, b) # head[b] => MergeOf(t, b)
  BY <1>1, <1>2 DEF HeadAfter, MergeOf
<1>6. Harmless(t)
  BY <1>3, <1>4, <1>5 DEF Harmless, WellFormed
<1> QED
  BY <1>6 DEF t

\* A request leaves the rows alone and something harmless in its session.
LEMMA RequestLine ==
  ASSUME OneAtATime, TypeOK, Line, NEW c \in Clients, Request(c)
  PROVE  Line'
<1>0. live \subseteq Branches
  BY DEF TypeOK
<1>1. CASE EnsureDefaultBranch(c)
  BY <1>1, BeginLine, EnsureIsHarmless DEF EnsureDefaultBranch
<1>2. ASSUME NEW b \in Branches, CreateBranch(c, b) PROVE Line'
  BY <1>2, BeginLine, CreateIsHarmless DEF CreateBranch
<1>3. ASSUME NEW b \in Branches, UpdateBranch(c, b) PROVE Line'
  BY <1>3, BeginLine, UpdateIsHarmless DEF UpdateBranch
<1>4. ASSUME NEW b \in Branches, DeleteBranch(c, b) PROVE Line'
  BY <1>4, BeginLine, DeleteIsHarmless DEF DeleteBranch
<1>5. ASSUME NEW b \in Branches, SetDefaultBranch(c, b) PROVE Line'
  BY <1>5, BeginLine, SetDefaultIsHarmless DEF SetDefaultBranch
<1>6. ASSUME NEW b \in Branches, NEW v \in Versions, SetBranchHead(c, b, v) PROVE Line'
  BY <1>6, BeginLine, SetHeadIsHarmless DEF SetBranchHead
<1>7. ASSUME NEW source \in Branches, NEW target \in Branches, MergeBranch(c, source, target)
      PROVE  Line'
  <2>1. PICK forced \in BOOLEAN :
          Begin(c, Merging(source, target, Strategy(source, target, forced)))
    BY <1>7 DEF MergeBranch, Merging
  <2>2. Strategy(source, target, forced) \in {"noop", "fast_forward", "merge_commit"}
    BY DEF Strategy
  <2>3. source \in live /\ target \in live /\ head[source] # Nil
    BY <1>7 DEF MergeBranch
  <2> QED
    BY <2>1, <2>2, <2>3, BeginLine, MergingIsHarmless
<1>8. ASSUME NEW g \in Tags, NEW v \in Versions, CreateTag(c, g, v) PROVE Line'
  BY <1>8, BeginLine, TagIsHarmless DEF CreateTag
<1>9. ASSUME NEW g \in Tags, DeleteTag(c, g) PROVE Line'
  BY <1>9, BeginLine, TagIsHarmless DEF DeleteTag
<1> QED
  BY <1>1, <1>2, <1>3, <1>4, <1>5, <1>6, <1>7, <1>8, <1>9 DEF Request

\* The commit makes the rows what they were going to be, and the session idle.
LEMMA CommitLine ==
  ASSUME OneAtATime, TypeOK, Line, NEW c \in Clients, Commit(c)
  PROVE  Line'
<1>1. Harmless(tx[c])
  BY DEF Line
<1>2. /\ live' = LiveAfter(tx[c]) /\ default' = DefaultAfter(tx[c])
      /\ protected' = ProtectedAfter(tx[c])
  BY DEF Commit, LiveAfter, DefaultAfter, ProtectedAfter
<1>3. WellFormed(live, default, protected)'
  BY <1>1, <1>2 DEF Harmless, WellFormed
<1>4. TypeOK'
  BY CommitType
<1>5. Harmless(Idle)'
  BY <1>3, <1>4, IdleIsHarmless, PTL
<1>6. \A d \in Clients : tx'[d] = Idle
  BY DEF Commit, OneAtATime, TypeOK
<1> QED
  BY <1>3, <1>5, <1>6 DEF Line

LEMMA RollbackLine ==
  ASSUME OneAtATime, TypeOK, Line, NEW c \in Clients, Rollback(c)
  PROVE  Line'
<1>1. UNCHANGED rows /\ \A d \in Clients : tx'[d] = Idle
  BY DEF Rollback, OneAtATime, TypeOK
<1>2. WellFormed(live, default, protected)'
  BY <1>1 DEF Line, rows, WellFormed
<1>3. TypeOK'
  BY RollbackType
<1>4. Harmless(Idle)'
  BY <1>2, <1>3, IdleIsHarmless, PTL
<1> QED
  BY <1>1, <1>2, <1>4 DEF Line

LEMMA LineKept ==
  ASSUME OneAtATime, TypeOK, Line, [Next]_vars
  PROVE  Line'
<1>1. CASE UNCHANGED vars
  BY <1>1 DEF vars, Line, Harmless, WellFormed, MergeOf,
              LiveAfter, DefaultAfter, ProtectedAfter, HeadAfter
<1>2. ASSUME NEW c \in Clients, Request(c) \/ Commit(c) \/ Rollback(c) PROVE Line'
  BY <1>2, RequestLine, CommitLine, RollbackLine
<1> QED
  BY <1>1, <1>2 DEF Next

LEMMA LineAtFirst == Init => Line
<1> SUFFICES ASSUME Init PROVE Line
  OBVIOUS
<1>1. TypeOK /\ WellFormed(live, default, protected)
  BY TypesAtFirst DEF Init, WellFormed
<1> QED
  BY <1>1, IdleIsHarmless DEF Init, Line

\* The invariant of the SQLite deployment: the rows are well formed, and so
\* would they be after the commit of whatever is under way.
THEOREM Invariance == ASSUME OneAtATime PROVE Spec => [](TypeOK /\ Line)
<1>1. Init => TypeOK /\ Line
  BY TypesAtFirst, LineAtFirst
<1>2. TypeOK /\ Line /\ [Next]_vars => (TypeOK /\ Line)'
  BY TypesKept, LineKept
<1> QED
  BY <1>1, <1>2, PTL DEF Spec

\* One request at a time: a line with branches always has exactly one default
\* branch, whichever branches are created, promoted and deleted.
THEOREM DefaultIsUnique == ASSUME OneAtATime PROVE Spec => []OneDefaultBranch
<1>1. Line => OneDefaultBranch
  BY DEF Line, WellFormed, OneDefaultBranch
<1> QED
  BY <1>1, Invariance, PTL

\* A step changes rows only by the commit of a harmless session.
LEMMA StepRows ==
  ASSUME Line, [Next]_vars
  PROVE  \/ UNCHANGED rows
         \/ \E c \in Clients : Commit(c) /\ Harmless(tx[c])
<1>1. ASSUME NEW c \in Clients, Request(c) PROVE UNCHANGED rows
  BY <1>1 DEF Request, EnsureDefaultBranch, CreateBranch, UpdateBranch, DeleteBranch,
              SetDefaultBranch, SetBranchHead, MergeBranch, CreateTag, DeleteTag, Begin
<1> QED
  BY <1>1 DEF Next, Rollback, vars, rows, Line

\* One request at a time: no step deletes a branch that is protected or the
\* default one.
THEOREM ProtectedAreKept == ASSUME OneAtATime PROVE Spec => ProtectedBranchesStay
<1>1. Line /\ [Next]_vars => [protected \cup default \subseteq live']_vars
  <2> SUFFICES ASSUME Line, [Next]_vars PROVE protected \cup default \subseteq live'
    OBVIOUS
  <2>1. CASE UNCHANGED rows
    BY <2>1 DEF rows, Line, WellFormed
  <2>2. ASSUME NEW c \in Clients, Commit(c), Harmless(tx[c])
        PROVE  protected \cup default \subseteq live'
    BY <2>2 DEF Commit, Harmless, LiveAfter
  <2> QED
    BY <2>1, <2>2, StepRows
<1> QED
  BY <1>1, Invariance, PTL DEF Spec, ProtectedBranchesStay

\* One request at a time: a protected head moves only by a merge that stores
\* the head it found and the head it set.
THEOREM MergesMoveProtectedHeads ==
  ASSUME OneAtATime PROVE Spec => ProtectedHeadsMoveByMerge
<1> DEFINE Explained ==
      \A b \in protected :
        head'[b] # head[b] =>
          /\ lastMerge' # Nil /\ lastMerge'.target = b
          /\ lastMerge'.before = head[b] /\ lastMerge'.after = head'[b]
<1>1. TypeOK /\ Line /\ [Next]_vars => [Explained]_vars
  <2> SUFFICES ASSUME TypeOK, Line, [Next]_vars PROVE Explained
    OBVIOUS
  <2>1. CASE UNCHANGED rows
    BY <2>1 DEF rows
  <2>2. ASSUME NEW c \in Clients, Commit(c), Harmless(tx[c]) PROVE Explained
    <3>1. protected \subseteq Branches
      BY DEF TypeOK
    <3>2. \A b \in Branches : head'[b] = HeadAfter(tx[c], b)
      BY <2>2 DEF Commit, HeadAfter
    <3>3. tx[c].merge # Nil => lastMerge' = tx[c].merge
      BY <2>2 DEF Commit
    <3> QED
      BY <2>2, <3>1, <3>2, <3>3 DEF Harmless, MergeOf
  <2> QED
    BY <2>1, <2>2, StepRows
<1> QED
  BY <1>1, Invariance, PTL DEF Spec, ProtectedHeadsMoveByMerge
=============================================================================
