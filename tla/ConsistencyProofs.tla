-------------------------- MODULE ConsistencyProofs --------------------------
(***************************************************************************)
(* What the rows of the database say of each other: the audit chain, the   *)
(* members and their entries, the ends of links, the owners of workspaces, *)
(* the columns of a connector; and, in the second part, the head of an     *)
(* ontology.  One handler writes several rows at once after it has read    *)
(* others, so each is a matter of what other requests commit in between:   *)
(* nothing, for a request that holds the writer lock since before it read. *)
(* The invariant says of each such request that the database would be      *)
(* sound after its plan was written, and of each that holds no lock that   *)
(* its plan harms nothing.                                                 *)
(***************************************************************************)
EXTENDS ServerProofs

TableOf(d, table) == {i \in DOMAIN d : d[i].table = table}

\* A row has at least the columns of its table.
Shaped(row) == Columns(row.table) \subseteq DOMAIN row

\* As long as the times of the entries rise.
Chain(d) ==
  Rising(TableOf(d, "audit")) =>
    \A e \in TableOf(d, "audit") :
      LET before == {f \in TableOf(d, "audit") : f < e}
      IN d[e].hashed /\ d[e].prev = IF before = {} THEN None ELSE Max(before)

MembersMatch(d) ==
  \A m \in TableOf(d, "member") :
    LET about == {e \in TableOf(d, "audit") : d[e].target = m}
    IN about # {} /\ d[Max(about)].after = Diff(d[m])

EndsExist(d) ==
  \A l \in TableOf(d, "link") : {d[l].source, d[l].target} \subseteq TableOf(d, "object")

\* The unique index on memberships; NULL is no workspace and no user.
Indexed == <<"wsmember", {"ws", "user"}>> \in UniqueKeys /\ None \notin Nat \cup Users

\* Every workspace that is not deleted has a membership of its owner, active or
\* not, and, with the index, the owner has no other role in an active one.
Owned(d) ==
  /\ \A i \in TableOf(d, "wsmember") \cup TableOf(d, "provider") \cup TableOf(d, "login") :
       d[i].ws \in TableOf(d, "workspace")
  /\ Indexed =>
       \A m \in TableOf(d, "wsmember") :
         LET w == d[d[m].ws]
         IN d[m].active /\ ~w.deleted /\ d[m].user = w.owner => d[m].role = "owner"
  /\ \A w \in TableOf(d, "workspace") :
       ~d[w].deleted =>
         \E m \in TableOf(d, "wsmember") : d[m].ws = w /\ d[m].user = d[w].owner

ColumnsAgree(d) ==
  \A c \in TableOf(d, "connector") :
    /\ \A f \in d[c].secret : d[c].config[f] # "clear"
    /\ d[c].deleted => d[c].status = "ARCHIVED"

Sound(d) ==
  /\ \A i \in DOMAIN d : Shaped(d[i])
  /\ Chained => Chain(d)
  /\ Uses("members") => MembersMatch(d)
  /\ Uses("objects") => EndsExist(d)
  /\ Uses("workspaces") => Owned(d)
  /\ Uses("connectors") => ColumnsAgree(d)

\* A sound database that has kept all workspaces.
Keeps(d) == Sound(d) /\ TableOf(db, "workspace") \subseteq TableOf(d, "workspace")

\* A plan that harms no sound database, whatever has been committed since it was
\* made: an SSO login or the mark that it was used, or an entry that no chain
\* is claimed for.
Harmless(p) ==
  /\ p.delete = {}
  /\ \/ /\ Uses("workspaces")
        /\ \A i \in DOMAIN p.update : DOMAIN p.update[i] \subseteq {"consumed"}
        /\ \A i \in DOMAIN p.insert :
             /\ Shaped(p.insert[i])
             /\ p.insert[i].table = "login" /\ p.insert[i].ws \in Rows("workspace")
     \/ /\ Uses("objects") /\ ~Chained
        /\ DOMAIN p.update = {}
        /\ \A i \in DOMAIN p.insert : Shaped(p.insert[i]) /\ p.insert[i].table = "audit"

\* Nobody else commits before request r does.
Exclusive(r) == writer = r \/ ~overlap

Held(p) == Fits(p) => Keeps(Written(p))

\* An SSO callback between its parts.
AtCallback(r) ==
  LET s == session[r]
  IN /\ Harmless(s.plan) /\ DOMAIN s.plan.insert = {}
     /\ \E w \in Rows("workspace") : \E u, may :
          \/ s.job = <<"callback", w, u, may>>
          \/ s.job = <<"provision", w, u, may>> /\ writer = r

\* An open request has the database to itself and would leave it sound, or is
\* harmless; between its parts it is at its callback, or an object handler.
Orderly(r) ==
  session[r].open =>
    /\ (Exclusive(r) /\ Held(session[r].plan)) \/ Harmless(session[r].plan)
    /\ Uses("members") => session[r].job = Done
    /\ Uses("workspaces") => session[r].job = Done \/ AtCallback(r)

Consistent ==
  /\ Sound(db)
  /\ ~overlap => \A q, r \in Requests : session[q].open /\ session[r].open => q = r
  /\ \A r \in Requests : Orderly(r)

\* The groups of endpoints whose rows say something of each other.
Covered == scenario.uses \in {"members", "objects", "workspaces", "connectors"}

-----------------------------------------------------------------------------
(* Databases that differ in one row.                                       *)

Adds(d, e, row, f) ==
  /\ e \in Nat
  /\ DOMAIN f = DOMAIN d \cup {e}
  /\ \A i \in DOMAIN d : i < e /\ f[i] = d[i]
  /\ f[e] = row

\* Row i gets new values in these columns.
Edits(d, i, columns, f) ==
  /\ i \in DOMAIN d
  /\ DOMAIN f = DOMAIN d
  /\ \A j \in DOMAIN d \ {i} : f[j] = d[j]
  /\ DOMAIN d[i] \subseteq DOMAIN f[i]
  /\ \A c \in DOMAIN d[i] : f[i][c] = IF c \in DOMAIN columns THEN columns[c] ELSE d[i][c]

Removes(d, ids, f) ==
  /\ DOMAIN f = DOMAIN d \ ids
  /\ \A i \in DOMAIN f : f[i] = d[i]

IsDatabase(d) == \E n \in Nat : DOMAIN d \subseteq 0 .. n

LEMMA MaxOf ==
  ASSUME NEW n \in Nat, NEW S, S \subseteq 0 .. n, S # {}
  PROVE  Max(S) \in S /\ \A x \in S : x <= Max(S)
BY MaxIs

\* The highest of a set with a number above it.
LEMMA MaxOfMore ==
  ASSUME NEW n \in Nat, NEW S, S \subseteq 0 .. n, NEW e \in Nat, \A x \in S : x < e
  PROVE  Max(S \cup {e}) = e
<1> DEFINE T == S \cup {e}
           m == IF n < e THEN e ELSE n
<1>1. m \in Nat /\ T \subseteq 0 .. m /\ T # {} /\ e \in T
  OBVIOUS
<1>2. \A x \in T : x \in Nat /\ (x = e \/ x < e)
  OBVIOUS
<1> HIDE DEF T, m
<1>3. Max(T) \in T /\ e <= Max(T)
  BY <1>1, MaxIs
<1>4. Max(T) \in Nat
  BY <1>2, <1>3
<1>5. Max(T) = e
  BY <1>2, <1>3, <1>4
<1> QED
  BY <1>5 DEF T

\* An entry with the newest one before it extends the chain.
LEMMA ChainGrows ==
  ASSUME NEW d, IsDatabase(d), Chain(d), NEW e, NEW row, NEW f, Adds(d, e, row, f),
         row.table = "audit", row.hashed,
         Rising(TableOf(d, "audit")) =>
           row.prev = IF TableOf(d, "audit") = {} THEN None ELSE Max(TableOf(d, "audit"))
  PROVE  Chain(f)
<1>1. TableOf(f, "audit") = TableOf(d, "audit") \cup {e}
  BY DEF TableOf, Adds
<1>2. DOMAIN d \subseteq Nat
  BY DEF IsDatabase
<1> SUFFICES ASSUME Rising(TableOf(f, "audit")), NEW x \in TableOf(f, "audit")
             PROVE  LET before == {y \in TableOf(f, "audit") : y < x}
                    IN f[x].hashed /\ f[x].prev = IF before = {} THEN None ELSE Max(before)
  BY DEF Chain
<1>5. Rising(TableOf(d, "audit"))
  BY <1>1 DEF Rising
<1>3. CASE x = e
  <2>1. {y \in TableOf(f, "audit") : y < e} = TableOf(d, "audit")
    BY <1>1, <1>2 DEF TableOf, Adds
  <2> QED
    BY <1>3, <1>5, <2>1 DEF Adds
<1>4. CASE x \in TableOf(d, "audit")
  <2>1. {y \in TableOf(f, "audit") : y < x} = {y \in TableOf(d, "audit") : y < x}
    BY <1>1, <1>2, <1>4 DEF TableOf, Adds
  <2>2. f[x] = d[x]
    BY <1>4 DEF TableOf, Adds
  <2> QED
    BY <1>4, <1>5, <2>1, <2>2 DEF Chain
<1> QED
  BY <1>1, <1>3, <1>4

\* The chain is that of the entries, whatever happens to other rows.
LEMMA ChainStays ==
  ASSUME NEW d, Chain(d), NEW f, TableOf(f, "audit") = TableOf(d, "audit"),
         \A e \in TableOf(d, "audit") : f[e].hashed = d[e].hashed /\ f[e].prev = d[e].prev
  PROVE  Chain(f)
BY DEF Chain

-----------------------------------------------------------------------------
(* The database after a plan is written.                                   *)

LEMMA WrittenIs ==
  ASSUME NEW r \in Requests, NEW p, Good(r, p)
  PROVE  /\ DOMAIN Written(p) = (DOMAIN db \ p.delete) \cup DOMAIN p.insert
         /\ DOMAIN db \cap DOMAIN p.insert = {}
         /\ \A i \in DOMAIN p.insert : Written(p)[i] = p.insert[i]
         /\ \A i \in DOMAIN db \ p.delete :
              Written(p)[i] = IF i \in DOMAIN p.update THEN Over(p.update[i], db[i]) ELSE db[i]
<1>1. \A i \in DOMAIN p.insert : i \notin DOMAIN db
  BY DEF Good, Fresh
<1> DEFINE kept == [i \in DOMAIN db \ p.delete |->
                      IF i \in DOMAIN p.update THEN Over(p.update[i], db[i]) ELSE db[i]]
<1>2. Written(p) = Over(kept, p.insert)
  BY DEF Written
<1>3. DOMAIN kept = DOMAIN db \ p.delete
      /\ \A i \in DOMAIN db \ p.delete :
           kept[i] = IF i \in DOMAIN p.update THEN Over(p.update[i], db[i]) ELSE db[i]
  OBVIOUS
<1> HIDE DEF kept
<1> QED
  BY <1>1, <1>2, <1>3 DEF Over

LEMMA WrittenKept ==
  ASSUME NEW r \in Requests, NEW p, Good(r, p), NEW i \in DOMAIN db \ p.delete
  PROVE  Written(p)[i] = IF i \in DOMAIN p.update THEN Over(p.update[i], db[i]) ELSE db[i]
<1> DEFINE kept == [j \in DOMAIN db \ p.delete |->
                      IF j \in DOMAIN p.update THEN Over(p.update[j], db[j]) ELSE db[j]]
<1>1. Written(p) = Over(kept, p.insert)
  BY DEF Written
<1>2. i \in DOMAIN kept
      /\ kept[i] = IF i \in DOMAIN p.update THEN Over(p.update[i], db[i]) ELSE db[i]
  OBVIOUS
<1> HIDE DEF kept
<1>3. Written(p)[i] = kept[i]
  BY <1>1, <1>2 DEF Over
<1> QED
  BY <1>2, <1>3

LEMMA WrittenIsDatabase ==
  ASSUME Base, NEW r \in Requests, NEW p, Good(r, p)
  PROVE  IsDatabase(Written(p)) /\ IsDatabase(db)
<1>1. made \in Nat /\ \A i \in DOMAIN db : i \in 0 .. made
  BY DEF Base
<1>2. PICK n \in Nat : DOMAIN p.insert \subseteq 0 .. n
  BY DEF Good
<1> DEFINE m == IF made < n THEN n ELSE made
<1>3. m \in Nat /\ 0 .. made \subseteq 0 .. m /\ 0 .. n \subseteq 0 .. m
  BY <1>1
<1> HIDE DEF m
<1>4. DOMAIN Written(p) \subseteq DOMAIN db \cup DOMAIN p.insert
  BY WrittenIs
<1>5. DOMAIN Written(p) \subseteq 0 .. m
  BY <1>1, <1>2, <1>3, <1>4
<1> QED
  BY <1>1, <1>3, <1>5 DEF IsDatabase

\* One more row, with an identifier above all others.
LEMMA WrittenAndNew ==
  ASSUME Base, NEW r \in Requests, NEW p, Good(r, p), NEW row, HasTable(row)
  PROVE  \E e \in Nat :
           /\ Adds(Written(p), e, row, Written(AndNew(p, row)))
           /\ Max(DOMAIN AndNew(p, row).insert) = e
           /\ made < e
<1> DEFINE ids == {made} \cup DOMAIN p.insert
           e == Max(ids) + 1
           q == AndNew(p, row)
<1>1. PICK n \in Nat : DOMAIN p.insert \subseteq 0 .. n
  BY DEF Good
<1>2. made \in Nat /\ \A i \in DOMAIN db : i \in Nat /\ i <= made
  BY DEF Base
<1>3. Max(ids) \in Nat /\ made <= Max(ids) /\ \A x \in DOMAIN p.insert : x <= Max(ids)
  BY <1>1, <1>2, MaxAbove
<1>4. q = [insert |-> Over(p.insert, Only(e, row)), update |-> p.update, delete |-> p.delete]
  BY DEF AndNew, Good, IsPlan
<1>5. Good(r, q)
  BY GoodAndNew
<1>6. e \in Nat /\ made < e
  BY <1>2, <1>3
<1>7. \A x \in DOMAIN p.insert : x \in Nat /\ x < e
  BY <1>1, <1>3
<1> HIDE DEF e, q
<1>8. /\ DOMAIN q.insert = DOMAIN p.insert \cup {e}
      /\ \A x \in DOMAIN p.insert : q.insert[x] = p.insert[x]
      /\ q.insert[e] = row
  <2>1. q.insert = Over(p.insert, Only(e, row)) /\ e \notin DOMAIN p.insert
    BY <1>4, <1>6, <1>7
  <2> QED
    BY <2>1 DEF Over, Only
<1>9. Max(DOMAIN q.insert) = e
  BY <1>1, <1>6, <1>7, <1>8, MaxOfMore
<1>10. Adds(Written(p), e, row, Written(q))
  <2>1. q.update = p.update /\ q.delete = p.delete
    BY <1>4
  <2>2. DOMAIN Written(q) = DOMAIN Written(p) \cup {e} /\ Written(q)[e] = row
    BY <1>5, <1>8, <2>1, WrittenIs
  <2>3. ASSUME NEW i \in DOMAIN Written(p) PROVE i < e /\ Written(q)[i] = Written(p)[i]
    <3>1. CASE i \in DOMAIN p.insert
      BY <1>5, <1>7, <1>8, <3>1, WrittenIs
    <3>2. CASE i \in DOMAIN db \ p.delete
      <4>1. i < e
        BY <1>2, <1>6, <3>2
      <4>2. i \in DOMAIN db \ q.delete
        BY <2>1, <3>2
      <4>3. Written(q)[i] = IF i \in DOMAIN p.update THEN Over(p.update[i], db[i]) ELSE db[i]
        BY <1>5, <2>1, <4>2, WrittenKept
      <4> QED
        BY <3>2, <4>1, <4>3, WrittenIs
    <3> QED
      BY <2>3, <3>1, <3>2, WrittenIs
  <2> QED
    BY <1>6, <2>2, <2>3 DEF Adds
<1> QED
  BY <1>6, <1>9, <1>10 DEF q

\* The one new row of a plan that changes and deletes others.
LEMMA WrittenAndOne ==
  ASSUME Base, NEW r \in Requests, NEW p, Good(r, p), DOMAIN p.insert = {},
         NEW row, HasTable(row)
  PROVE  Adds(Written(p), made + 1, row, Written(And(p, New(row))))
<1> DEFINE e == made + 1
           q == And(p, New(row))
<1>1. made \in Nat /\ e \in Nat /\ \A i \in DOMAIN db : i \in Nat /\ i < e
  BY DEF Base
<1>2. Good(r, q)
  BY GoodNew, GoodAnd
<1>3. New(row) = [insert |-> Only(e, row), update |-> Nothing, delete |-> {}]
  BY DEF New, NoPlan
<1> HIDE DEF e
<1>4. /\ q.insert = Over(p.insert, Only(e, row))
      /\ q.update = Over(p.update, Nothing)
      /\ q.delete = p.delete
  BY <1>3 DEF And
<1> HIDE DEF q
<1>5. DOMAIN q.insert = {e} /\ q.insert[e] = row
  BY <1>4 DEF Over, Only
<1>6. DOMAIN q.update = DOMAIN p.update /\ \A i \in DOMAIN p.update : q.update[i] = p.update[i]
  BY <1>4 DEF Over, Nothing
<1>7. DOMAIN Written(q) = DOMAIN Written(p) \cup {e} /\ Written(q)[e] = row
  BY <1>2, <1>4, <1>5, WrittenIs
<1>8. ASSUME NEW i \in DOMAIN Written(p) PROVE i < e /\ Written(q)[i] = Written(p)[i]
  <2>1. i \in DOMAIN db \ p.delete
    BY WrittenIs
  <2>2. Written(q)[i] = IF i \in DOMAIN p.update THEN Over(p.update[i], db[i]) ELSE db[i]
    BY <1>2, <1>4, <1>6, <2>1, WrittenIs
  <2> QED
    BY <1>1, <2>1, <2>2, WrittenIs
<1>9. Adds(Written(p), e, row, Written(q))
  BY <1>1, <1>7, <1>8 DEF Adds
<1> QED
  BY <1>9 DEF e, q

LEMMA WrittenNew ==
  ASSUME Base, NEW r \in Requests, NEW row, HasTable(row)
  PROVE  /\ Adds(db, made + 1, row, Written(New(row)))
         /\ Max(DOMAIN New(row).insert) = made + 1
<1> DEFINE e == made + 1
<1>1. made \in Nat /\ e \in Nat /\ \A i \in DOMAIN db : i \in Nat /\ i < e
  BY DEF Base
<1>2. Good(r, New(row))
  BY GoodNew
<1>3. New(row) = [insert |-> Only(e, row), update |-> Nothing, delete |-> {}]
  BY DEF New, NoPlan
<1> HIDE DEF e
<1>4. New(row).insert = Only(e, row) /\ New(row).update = Nothing /\ New(row).delete = {}
  BY <1>3
<1>5. DOMAIN New(row).insert = {e} /\ New(row).insert[e] = row /\ DOMAIN New(row).update = {}
  BY <1>4 DEF Only, Nothing
<1>6. Adds(db, e, row, Written(New(row)))
  BY <1>1, <1>2, <1>4, <1>5, WrittenIs DEF Adds
<1>7. Max({} \cup {e}) = e
  <2>1. 0 \in Nat /\ {} \subseteq 0 .. 0 /\ \A x \in {} : x < e
    OBVIOUS
  <2> QED
    BY <1>1, <2>1, MaxOfMore
<1>8. Max(DOMAIN New(row).insert) = e
  <2>1. DOMAIN New(row).insert = {} \cup {e}
    BY <1>5
  <2> QED
    BY <1>7, <2>1
<1> QED
  BY <1>6, <1>8 DEF e

LEMMA WrittenNothing ==
  ASSUME Base, NEW r \in Requests
  PROVE  Removes(db, {}, Written(NoPlan))
<1>1. Good(r, NoPlan)
  BY GoodNothing
<1>2. DOMAIN NoPlan.insert = {} /\ DOMAIN NoPlan.update = {} /\ NoPlan.delete = {}
  BY DEF NoPlan, Nothing
<1> QED
  BY <1>1, <1>2, WrittenIs DEF Removes

LEMMA WrittenDrop ==
  ASSUME Base, NEW r \in Requests, NEW ids, ids \subseteq 1 .. made
  PROVE  Removes(db, ids, Written(Drop(ids)))
<1>1. Good(r, Drop(ids))
  BY GoodDrop
<1>2. DOMAIN Drop(ids).insert = {} /\ DOMAIN Drop(ids).update = {} /\ Drop(ids).delete = ids
  BY DEF Drop, NoPlan, Nothing
<1> QED
  BY <1>1, <1>2, WrittenIs DEF Removes

\* Only the columns whose value differs are written; the others have it already.
LEMMA WrittenSet ==
  ASSUME Base, NEW r \in Requests, NEW i \in DOMAIN db, NEW columns, Editable(columns),
         NEW p, Good(r, p), p.insert = Nothing, p.update = Set(i, columns).update,
         i \notin p.delete
  PROVE  \E d : Edits(db, i, columns, d) /\ Removes(d, p.delete, Written(p))
<1> DEFINE changed == {c \in DOMAIN columns : db[i][c] # columns[c]}
           some == [c \in changed |-> columns[c]]
           d == [j \in DOMAIN db |-> IF j = i /\ changed # {} THEN Over(some, db[i]) ELSE db[j]]
<1>1. p.update = IF changed = {} THEN Nothing ELSE Only(i, some)
  BY DEF Set, NoPlan
<1>2. Edits(db, i, columns, d)
  <2>1. CASE changed = {}
    BY <2>1 DEF Edits
  <2>2. CASE changed # {}
    <3>1. d[i] = Over(some, db[i])
      BY <2>2
    <3>2. DOMAIN Over(some, db[i]) = changed \cup DOMAIN db[i]
          /\ \A c \in DOMAIN db[i] :
               Over(some, db[i])[c] = IF c \in changed THEN columns[c] ELSE db[i][c]
      BY DEF Over
    <3>3. \A c \in DOMAIN db[i] : d[i][c] = IF c \in DOMAIN columns THEN columns[c] ELSE db[i][c]
      BY <3>1, <3>2
    <3> QED
      BY <3>1, <3>2, <3>3 DEF Edits
  <2> QED
    BY <2>1, <2>2
<1>3. DOMAIN Written(p) = DOMAIN d \ p.delete
  BY WrittenIs DEF Nothing
<1>4. ASSUME NEW j \in DOMAIN db \ p.delete PROVE Written(p)[j] = d[j]
  <2> HIDE DEF d, some, changed
  <2>1. Written(p)[j] = IF j \in DOMAIN p.update THEN Over(p.update[j], db[j]) ELSE db[j]
    BY <1>4, WrittenKept
  <2> USE DEF d
  <2>2. CASE changed = {}
    BY <1>1, <1>4, <2>1, <2>2 DEF Nothing
  <2>3. CASE changed # {}
    BY <1>1, <1>4, <2>1, <2>3 DEF Only
  <2> QED
    BY <2>2, <2>3
<1>5. Removes(d, p.delete, Written(p))
  BY <1>3, <1>4 DEF Removes
<1> QED
  BY <1>2, <1>5

-----------------------------------------------------------------------------
(* Databases that are ready for an entry, and those with one.              *)

Groups(d) ==
  /\ Uses("objects") => EndsExist(d)
  /\ Uses("workspaces") => Owned(d)
  /\ Uses("connectors") => ColumnsAgree(d)

Ready(d) ==
  /\ IsDatabase(d)
  /\ \A i \in DOMAIN d : Shaped(d[i])
  /\ TableOf(d, "audit") = Entries
  /\ \A e \in Entries : d[e].hashed = db[e].hashed /\ d[e].prev = db[e].prev
  /\ Groups(d)
  /\ Rows("workspace") \subseteq TableOf(d, "workspace")

LEMMA ColumnsOf ==
  /\ Columns("audit") = {"table", "prev", "hashed", "target", "after"}
  /\ Columns("user") = {"table", "user"}
  /\ Columns("member") = {"table", "user", "role", "active"}
  /\ Columns("object") = {"table", "key", "rev", "deleted"}
  /\ Columns("link") = {"table", "source", "target", "rev"}
  /\ Columns("workspace") = {"table", "slug", "owner", "deleted", "rev"}
  /\ Columns("wsmember") = {"table", "ws", "user", "role", "active"}
  /\ Columns("provider") = {"table", "ws", "status", "provision"}
  /\ Columns("login") = {"table", "provider", "ws", "consumed"}
  /\ Columns("source") = {"table", "fields"}
  /\ Columns("evidence") = {"table", "source", "field", "iri", "confirmed", "by"}
  /\ Columns("connector") = {"table", "config", "secret", "status", "deleted"}
BY DEF Columns, Content

LEMMA HasTableColumn == \A table : "table" \in Columns(table)
BY DEF Columns

LEMMA ReadyDatabase ==
  ASSUME Base, Sound(db)
  PROVE  Ready(db)
<1>1. IsDatabase(db)
  <2>1. made \in Nat /\ DOMAIN db \subseteq 0 .. made
    BY DEF Base
  <2> QED
    BY <2>1 DEF IsDatabase
<1> QED
  BY <1>1 DEF Ready, Sound, Groups, TableOf, Rows, Entries

LEMMA ReadyKeeps ==
  ASSUME Sound(db), NEW d, Ready(d), ~Uses("members")
  PROVE  Keeps(d)
<1>1. Chained => Chain(d)
  <2>1. TableOf(db, "audit") = Entries
    BY DEF TableOf, Rows, Entries
  <2> QED
    BY <2>1, ChainStays DEF Ready, Sound
<1>2. TableOf(db, "workspace") = Rows("workspace")
  BY DEF TableOf, Rows
<1> QED
  BY <1>1, <1>2 DEF Ready, Keeps, Sound, Groups

Ruled == {"link", "workspace", "wsmember", "provider", "login", "connector"}

\* The rows of d are there, and new ones that no rule is about.
Grows(d, f) ==
  /\ \A i \in DOMAIN d : i \in DOMAIN f /\ f[i] = d[i]
  /\ \A i \in DOMAIN f \ DOMAIN d : f[i].table \notin Ruled

LEMMA PlainRows ==
  ASSUME NEW d, NEW f, Grows(d, f), Groups(d)
  PROVE  Groups(f)
<1>1. \A i \in DOMAIN d : i \in DOMAIN f /\ f[i] = d[i]
  BY DEF Grows
<1>2. \A t \in Ruled : TableOf(f, t) = TableOf(d, t)
  BY <1>1 DEF TableOf, Grows
<1>3. TableOf(d, "object") \subseteq TableOf(f, "object")
  BY <1>1 DEF TableOf
<1>4. \A t : TableOf(d, t) \subseteq DOMAIN d
  BY DEF TableOf
<1>5. EndsExist(d) => EndsExist(f)
  BY <1>1, <1>2, <1>3, <1>4 DEF EndsExist, Ruled
<1>6. ColumnsAgree(d) => ColumnsAgree(f)
  BY <1>1, <1>2, <1>4 DEF ColumnsAgree, Ruled
<1>7. ASSUME Owned(d) PROVE Owned(f)
  <2>1. TableOf(f, "workspace") = TableOf(d, "workspace")
        /\ TableOf(f, "wsmember") = TableOf(d, "wsmember")
        /\ TableOf(f, "provider") = TableOf(d, "provider")
        /\ TableOf(f, "login") = TableOf(d, "login")
    BY <1>2 DEF Ruled
  <2>2. \A m \in TableOf(d, "wsmember") : d[m].ws \in DOMAIN d
    BY <1>4, <1>7 DEF Owned
  <2>3. \A i \in TableOf(f, "wsmember") \cup TableOf(f, "provider") \cup TableOf(f, "login") :
          f[i].ws \in TableOf(f, "workspace")
    BY <1>1, <1>4, <1>7, <2>1 DEF Owned
  <2>4. ASSUME Indexed, NEW m \in TableOf(f, "wsmember")
        PROVE  LET w == f[f[m].ws]
               IN f[m].active /\ ~w.deleted /\ f[m].user = w.owner => f[m].role = "owner"
    <3>1. f[m] = d[m] /\ f[d[m].ws] = d[d[m].ws]
      BY <1>1, <1>4, <2>1, <2>2
    <3> QED
      BY <1>7, <2>1, <2>4, <3>1 DEF Owned
  <2>5. ASSUME NEW w \in TableOf(f, "workspace"), ~f[w].deleted
        PROVE  \E m \in TableOf(f, "wsmember") : f[m].ws = w /\ f[m].user = f[w].owner
    <3>1. f[w] = d[w]
      BY <1>1, <1>4, <2>1
    <3>2. PICK m \in TableOf(d, "wsmember") : d[m].ws = w /\ d[m].user = d[w].owner
      BY <1>7, <2>1, <2>5, <3>1 DEF Owned
    <3>3. f[m] = d[m]
      BY <1>1, <1>4
    <3> QED
      BY <2>1, <3>1, <3>2, <3>3
  <2> QED
    BY <2>3, <2>4, <2>5 DEF Owned
<1> QED
  BY <1>5, <1>6, <1>7 DEF Groups

\* More rows, with what the rules say of them as a condition.
LEMMA ReadyMore ==
  ASSUME NEW d, Ready(d), NEW e, NEW row, NEW f, Adds(d, e, row, f),
         Shaped(row), row.table # "audit", Groups(f)
  PROVE  Ready(f)
<1>1. \A i \in DOMAIN d : i # e /\ i \in DOMAIN f /\ f[i] = d[i]
  BY DEF Adds
<1>2. DOMAIN f = DOMAIN d \cup {e} /\ f[e] = row /\ e \in Nat /\ \A i \in DOMAIN d : i < e
  BY DEF Adds
<1>3. TableOf(f, "audit") = TableOf(d, "audit")
  BY <1>1, <1>2 DEF TableOf
<1>4. TableOf(d, "workspace") \subseteq TableOf(f, "workspace")
  BY <1>1 DEF TableOf
<1>5. IsDatabase(f)
  <2>1. DOMAIN d \subseteq Nat
    BY DEF Ready, IsDatabase
  <2>2. DOMAIN f \subseteq 0 .. e
    BY <1>2, <2>1
  <2> QED
    BY <1>2, <2>2 DEF IsDatabase
<1>6. \A i \in DOMAIN f : Shaped(f[i])
  BY <1>1, <1>2 DEF Ready
<1>7. \A i \in Entries : i \in DOMAIN d
  BY DEF Ready, TableOf
<1> QED
  BY <1>1, <1>3, <1>4, <1>5, <1>6, <1>7 DEF Ready

LEMMA ReadyPlain ==
  ASSUME NEW d, Ready(d), NEW e, NEW row, NEW f, Adds(d, e, row, f), Shaped(row),
         row.table \notin Ruled \cup {"audit"}
  PROVE  Ready(f)
<1>1. Groups(d) /\ row.table # "audit" /\ Grows(d, f)
  BY DEF Ready, Adds, Grows
<1>2. Groups(f)
  BY <1>1, PlainRows
<1> QED
  BY <1>1, <1>2, ReadyMore

\* The same for any number of rows.
LEMMA ReadyGrows ==
  ASSUME NEW d, Ready(d), NEW f, Grows(d, f), IsDatabase(f),
         \A i \in DOMAIN f \ DOMAIN d : Shaped(f[i]) /\ f[i].table # "audit"
  PROVE  Ready(f)
<1>1. \A i \in DOMAIN d : i \in DOMAIN f /\ f[i] = d[i]
  BY DEF Grows
<1>2. Groups(f)
  BY PlainRows DEF Ready
<1>3. TableOf(f, "audit") = TableOf(d, "audit")
      /\ TableOf(d, "workspace") \subseteq TableOf(f, "workspace")
  BY <1>1 DEF TableOf
<1>4. \A e \in Entries : e \in DOMAIN d
  BY DEF Ready, TableOf
<1> QED
  BY <1>1, <1>2, <1>3, <1>4 DEF Ready

LEMMA ReadyEdit ==
  ASSUME NEW d, Ready(d), NEW i, NEW columns, NEW f, Edits(d, i, columns, f),
         {"table", "hashed", "prev"} \cap DOMAIN columns = {}, Groups(f)
  PROVE  Ready(f)
<1>1. \A j \in DOMAIN d : Columns(d[j].table) \subseteq DOMAIN d[j] /\ "table" \in DOMAIN d[j]
  BY HasTableColumn DEF Ready, Shaped
<1>2. \A j \in DOMAIN d : f[j].table = d[j].table /\ DOMAIN d[j] \subseteq DOMAIN f[j]
  BY <1>1 DEF Edits
<1>3. \A t : TableOf(f, t) = TableOf(d, t)
  BY <1>2 DEF TableOf, Edits
<1>4. \A j \in DOMAIN f : Shaped(f[j])
  BY <1>1, <1>2 DEF Shaped, Edits
<1>5. ASSUME NEW e \in Entries PROVE f[e].hashed = d[e].hashed /\ f[e].prev = d[e].prev
  <2>1. e \in DOMAIN d /\ d[e].table = "audit"
    BY DEF Ready, TableOf
  <2>2. {"hashed", "prev"} \subseteq DOMAIN d[e]
    BY <1>1, <2>1, ColumnsOf
  <2> QED
    BY <2>1, <2>2 DEF Edits
<1> QED
  BY <1>3, <1>4, <1>5 DEF Ready, IsDatabase, Edits

LEMMA ReadyLess ==
  ASSUME NEW d, Ready(d), NEW ids, NEW f, Removes(d, ids, f), Groups(f),
         \A i \in ids : i \in DOMAIN d => d[i].table \notin {"audit", "workspace"}
  PROVE  Ready(f)
<1>1. \A i \in DOMAIN f : i \in DOMAIN d /\ f[i] = d[i]
  BY DEF Removes
<1>2. TableOf(f, "audit") = TableOf(d, "audit") /\ TableOf(f, "workspace") = TableOf(d, "workspace")
  BY <1>1 DEF TableOf, Removes
<1>3. \A e \in Entries : e \in DOMAIN f
  BY <1>2 DEF Ready, TableOf
<1> QED
  BY <1>1, <1>2, <1>3 DEF Ready, IsDatabase, Removes

\* Nothing else than an entry is written last.
LEMMA ReadyEntry ==
  ASSUME Sound(db), NEW d, Ready(d),
         NEW e, NEW target, NEW after, NEW f, Adds(d, e, AuditEntry(target, after), f),
         Uses("members") => MembersMatch(f)
  PROVE  Keeps(f)
<1> DEFINE row == AuditEntry(target, after)
<1>1. row.table = "audit" /\ row.hashed /\ row.prev = LatestEntry /\ Shaped(row)
  BY ColumnsOf DEF AuditEntry, Shaped
<1> HIDE DEF row
<1>2. Adds(d, e, row, f)
  BY DEF row
<1>3. \A i \in DOMAIN d : i # e /\ i \in DOMAIN f /\ f[i] = d[i]
  BY <1>2 DEF Adds
<1>4. \A i \in DOMAIN f : Shaped(f[i])
  BY <1>1, <1>2 DEF Ready, Adds
<1>5. Groups(f)
  <2>1. Groups(d) /\ Grows(d, f)
    BY <1>1, <1>2 DEF Ready, Adds, Grows, Ruled
  <2> QED
    BY <2>1, PlainRows
<1>6. TableOf(db, "workspace") \subseteq TableOf(f, "workspace")
  BY <1>3 DEF Ready, TableOf, Rows
<1>7. ASSUME Chained PROVE Chain(f)
  <2>1. Chain(db) /\ TableOf(db, "audit") = Entries
    BY <1>7 DEF Sound, TableOf, Rows, Entries
  <2>2. Chain(d)
    BY <2>1, ChainStays DEF Ready
  <2>3. ASSUME Rising(Entries)
        PROVE  LatestEntry = IF Entries = {} THEN None ELSE Max(Entries)
    <3>1. CASE Entries = {}
      BY <3>1 DEF LatestEntry
    <3>2. CASE Entries # {}
      <4>1. PICK n \in Nat : DOMAIN d \subseteq 0 .. n
        BY DEF Ready, IsDatabase
      <4>2. Entries \subseteq 0 .. n
        BY <4>1 DEF Ready, TableOf
      <4>3. Max(Entries) \in Entries /\ Newest(Entries) = Max(Entries)
        BY <2>3, <3>2, <4>2, MaxIs, NewestIsLast
      <4>4. db[Max(Entries)].hashed
        BY <2>1, <2>3, <4>3 DEF Chain
      <4>5. Max(Entries) # None => LatestEntry = Max(Entries)
        BY <3>2, <4>3, <4>4 DEF LatestEntry
      <4>6. Max(Entries) = None => LatestEntry = None
        BY <3>2, <4>3 DEF LatestEntry
      <4> QED
        BY <3>2, <4>5, <4>6
    <3> QED
      BY <3>1, <3>2
  <2>4. Rising(TableOf(d, "audit")) =>
          row.prev = IF TableOf(d, "audit") = {} THEN None ELSE Max(TableOf(d, "audit"))
    BY <1>1, <2>3 DEF Ready
  <2>5. IsDatabase(d)
    BY DEF Ready
  <2> QED
    BY <1>1, <1>2, <2>2, <2>4, <2>5, ChainGrows
<1> QED
  BY <1>4, <1>5, <1>6, <1>7 DEF Keeps, Sound, Groups

-----------------------------------------------------------------------------
(* Plans with one entry, or none.                                          *)

Logged == "audit" \in Tables(scenario.uses) /\ ~Uses("members")

LEMMA KeepsNothing ==
  ASSUME Base, Sound(db), Logged, NEW r \in Requests
  PROVE  Keeps(Written(NoPlan))
<1>1. Removes(db, {}, Written(NoPlan))
  BY WrittenNothing
<1>2. Grows(db, Written(NoPlan)) /\ IsDatabase(Written(NoPlan))
  <2>1. Good(r, NoPlan)
    BY GoodNothing
  <2> QED
    BY <1>1, <2>1, WrittenIsDatabase DEF Removes, Grows
<1>3. Ready(db)
  BY ReadyDatabase
<1>4. Ready(Written(NoPlan))
  BY <1>1, <1>2, <1>3, ReadyGrows DEF Removes
<1> QED
  BY <1>4, ReadyKeeps DEF Logged

LEMMA KeepsEntry ==
  ASSUME Base, Sound(db), Logged, NEW r \in Requests, NEW target, NEW after
  PROVE  Keeps(Written(New(AuditEntry(target, after))))
<1>1. HasTable(AuditEntry(target, after))
  BY GoodEntry DEF Logged
<1>2. Adds(db, made + 1, AuditEntry(target, after), Written(New(AuditEntry(target, after))))
  BY <1>1, WrittenNew
<1> QED
  BY <1>2, ReadyDatabase, ReadyEntry DEF Logged

\* An entry about the newest row of a plan, or about another.
LEMMA KeepsAndEntry ==
  ASSUME Base, Sound(db), Logged, NEW r \in Requests, NEW p, Good(r, p), Ready(Written(p)),
         NEW target, NEW after
  PROVE  /\ Keeps(Written(AndNew(p, AuditEntry(target, after))))
         /\ Keeps(Written(AndEntry(p, after)))
<1>1. ASSUME NEW t PROVE Keeps(Written(AndNew(p, AuditEntry(t, after))))
  <2>1. HasTable(AuditEntry(t, after))
    BY GoodEntry DEF Logged
  <2>2. PICK e \in Nat :
          Adds(Written(p), e, AuditEntry(t, after), Written(AndNew(p, AuditEntry(t, after))))
    BY <2>1, WrittenAndNew
  <2> QED
    BY <2>2, ReadyEntry DEF Logged
<1> QED
  BY <1>1 DEF AndEntry

LEMMA KeepsNewAndEntry ==
  ASSUME Base, Sound(db), Logged, NEW r \in Requests, NEW row, HasTable(row), Shaped(row),
         row.table # "audit", \A f : Adds(db, made + 1, row, f) => Groups(f), NEW after
  PROVE  Keeps(Written(AndEntry(New(row), after)))
<1>1. Good(r, New(row)) /\ Adds(db, made + 1, row, Written(New(row)))
  BY GoodNew, WrittenNew
<1>2. Ready(Written(New(row)))
  BY <1>1, ReadyDatabase, ReadyMore
<1> QED
  BY <1>1, <1>2, KeepsAndEntry

LEMMA WrittenSetOnly ==
  ASSUME Base, NEW r \in Requests, NEW i \in DOMAIN db, NEW columns, Editable(columns)
  PROVE  Edits(db, i, columns, Written(Set(i, columns))) /\ Good(r, Set(i, columns))
<1>1. Good(r, Set(i, columns))
  BY GoodSet, RowsAreMade
<1>2. Set(i, columns).insert = Nothing /\ Set(i, columns).delete = {}
  BY DEF Set, NoPlan
<1>3. PICK d : Edits(db, i, columns, d) /\ Removes(d, {}, Written(Set(i, columns)))
  <2>1. \E d : Edits(db, i, columns, d)
               /\ Removes(d, Set(i, columns).delete, Written(Set(i, columns)))
    BY <1>1, <1>2, WrittenSet
  <2> QED
    BY <1>2, <2>1
<1>4. Edits(db, i, columns, Written(Set(i, columns)))
  <2>1. DOMAIN Written(Set(i, columns)) = DOMAIN d
        /\ \A j \in DOMAIN d : Written(Set(i, columns))[j] = d[j]
    BY <1>3 DEF Removes
  <2> QED
    BY <1>3, <2>1 DEF Edits
<1> QED
  BY <1>1, <1>4

LEMMA ReadySet ==
  ASSUME Base, Sound(db), NEW r \in Requests, NEW i \in DOMAIN db, NEW columns,
         Editable(columns), {"hashed", "prev"} \cap DOMAIN columns = {},
         \A f : Edits(db, i, columns, f) => Groups(f)
  PROVE  Ready(Written(Set(i, columns)))
<1>1. Edits(db, i, columns, Written(Set(i, columns)))
  BY WrittenSetOnly
<1>2. {"table", "hashed", "prev"} \cap DOMAIN columns = {}
  BY DEF Editable
<1> QED
  BY <1>1, <1>2, ReadyDatabase, ReadyEdit

LEMMA KeepsSetAndEntry ==
  ASSUME Base, Sound(db), Logged, NEW r \in Requests, NEW i \in DOMAIN db, NEW columns,
         Editable(columns), {"hashed", "prev"} \cap DOMAIN columns = {},
         \A f : Edits(db, i, columns, f) => Groups(f), NEW target, NEW after
  PROVE  Keeps(Written(And(Set(i, columns), New(AuditEntry(target, after)))))
<1> DEFINE p == Set(i, columns)
           row == AuditEntry(target, after)
<1>1. Ready(Written(p)) /\ Good(r, p)
  BY ReadySet, WrittenSetOnly
<1>2. DOMAIN p.insert = {}
  BY DEF Set, NoPlan, Nothing
<1>3. HasTable(row)
  BY GoodEntry DEF Logged
<1> HIDE DEF p
<1>4. Adds(Written(p), made + 1, row, Written(And(p, New(row))))
  BY <1>1, <1>2, <1>3, WrittenAndOne
<1> QED
  BY <1>1, <1>4, ReadyEntry DEF Logged, p

LEMMA EditedRow ==
  ASSUME Sound(db), NEW i \in DOMAIN db, NEW columns, NEW f, Edits(db, i, columns, f),
         "table" \notin DOMAIN columns
  PROVE  /\ \A c \in Columns(db[i].table) :
              f[i][c] = IF c \in DOMAIN columns THEN columns[c] ELSE db[i][c]
         /\ \A j \in DOMAIN db : f[j].table = db[j].table
         /\ \A t : TableOf(f, t) = TableOf(db, t)
<1>1. \A j \in DOMAIN db : Columns(db[j].table) \subseteq DOMAIN db[j] /\ "table" \in DOMAIN db[j]
  BY HasTableColumn DEF Sound, Shaped
<1>2. \A j \in DOMAIN db : f[j].table = db[j].table
  BY <1>1 DEF Edits
<1>3. \A t : TableOf(f, t) = TableOf(db, t)
  BY <1>2 DEF TableOf, Edits
<1> QED
  BY <1>1, <1>2, <1>3 DEF Edits

-----------------------------------------------------------------------------
(* Connectors.                                                             *)

RowAgrees(row) ==
  /\ \A f \in row.secret : row.config[f] # "clear"
  /\ row.deleted => row.status = "ARCHIVED"

LEMMA ConnectorsOnly ==
  ASSUME Uses("connectors")
  PROVE  /\ Logged
         /\ \A d : Groups(d) <=> ColumnsAgree(d)
<1>1. ~Uses("members") /\ ~Uses("objects") /\ ~Uses("workspaces")
  BY DEF Uses
<1> QED
  BY <1>1, ConnectorTables DEF Logged, Groups

LEMMA KeepsConnector ==
  ASSUME Base, Sound(db), Uses("connectors"), NEW r \in Requests, NEW c \in Live,
         NEW columns, Editable(columns), {"hashed", "prev"} \cap DOMAIN columns = {},
         \A f : Edits(db, c, columns, f) => RowAgrees(f[c]), NEW target, NEW after
  PROVE  Keeps(Written(And(Set(c, columns), New(AuditEntry(target, after)))))
<1>1. c \in DOMAIN db /\ "table" \notin DOMAIN columns
  BY DEF Live, Rows, Editable
<1>2. ASSUME NEW f, Edits(db, c, columns, f) PROVE ColumnsAgree(f)
  <2>1. TableOf(f, "connector") = TableOf(db, "connector")
    BY <1>1, <1>2, EditedRow
  <2>2. ColumnsAgree(db)
    BY DEF Sound
  <2>3. \A k \in TableOf(db, "connector") \ {c} : f[k] = db[k]
    BY <1>2 DEF Edits, TableOf
  <2> QED
    BY <1>2, <2>1, <2>2, <2>3 DEF ColumnsAgree, RowAgrees
<1> QED
  BY <1>1, <1>2, ConnectorsOnly, KeepsSetAndEntry

LEMMA ConnectorRequestKeeps ==
  ASSUME Base, Sound(db), Uses("connectors"), NEW r \in Requests, ConnectorRequest(r)
  PROVE  \E plan : BeginLocked(r, plan, Done) /\ Good(r, plan) /\ Keeps(Written(plan))
<1> USE Base
<1>1. Logged /\ {"audit", "source", "evidence", "connector"} \subseteq Tables(scenario.uses)
  BY ConnectorsOnly, ConnectorTables
<1>2. ASSUME NEW c \in Live
      PROVE  /\ c \in DOMAIN db /\ c \in 1 .. made /\ ~db[c].deleted
             /\ db[c].table = "connector" /\ RowAgrees(db[c])
  <2>1. c \in DOMAIN db /\ ~db[c].deleted /\ c \in TableOf(db, "connector")
    BY DEF Live, Rows, TableOf
  <2> QED
    BY <2>1 DEF Sound, ColumnsAgree, RowAgrees, TableOf, Base
<1>3. \A c \in Live : \A columns, after :
        Editable(columns) => Good(r, And(Set(c, columns), New(AuditEntry(c, after))))
  <2> SUFFICES ASSUME NEW c \in Live, NEW columns, NEW after, Editable(columns)
               PROVE  Good(r, And(Set(c, columns), New(AuditEntry(c, after))))
    OBVIOUS
  <2>1. Good(r, Set(c, columns))
    BY <1>2, GoodSet
  <2> QED
    BY <1>1, <2>1, GoodAndEntry
<1>4. CASE CreateConnector(r)
  <2>1. PICK given \in SUBSET Settings, secret \in SUBSET Settings :
          BeginLocked(r, AndEntry(New(Connector(Seal(InClear(given), secret), secret)), "create"), Done)
    BY <1>4 DEF CreateConnector
  <2> DEFINE row == Connector(Seal(InClear(given), secret), secret)
  <2>2. row.table = "connector" /\ RowAgrees(row) /\ DOMAIN row = Columns("connector")
    BY ColumnsOf DEF Connector, RowAgrees, Seal, InClear
  <2> HIDE DEF row
  <2>3. HasTable(row) /\ Shaped(row)
    BY <1>1, <2>2, ColumnsOf DEF HasTable, Shaped
  <2>4. ASSUME NEW f, Adds(db, made + 1, row, f) PROVE ColumnsAgree(f)
    <3>1. ASSUME NEW c \in TableOf(f, "connector")
          PROVE  c = made + 1 \/ (c \in TableOf(db, "connector") /\ f[c] = db[c])
      BY <2>4 DEF Adds, TableOf
    <3>2. ColumnsAgree(db) /\ f[made + 1] = row
      BY <2>4 DEF Sound, Adds
    <3> QED
      BY <2>2, <3>1, <3>2 DEF ColumnsAgree, RowAgrees
  <2>5. Keeps(Written(AndEntry(New(row), "create")))
    BY <1>1, <2>2, <2>3, <2>4, ConnectorsOnly, KeepsNewAndEntry
  <2>6. Good(r, AndEntry(New(row), "create"))
    BY <1>1, <2>3, GoodNew, GoodAndEntry
  <2> QED
    BY <2>1, <2>5, <2>6 DEF row
<1>5. CASE UpdateConnector(r)
  <2>1. PICK c \in Live, given \in SUBSET Settings, secret \in SUBSET Settings,
             status \in ConnectorStatus :
          LET merged == [f \in Settings |-> IF f \in given THEN "clear" ELSE db[c].config[f]]
              stored == Seal(Unseal(merged, secret), secret)
          IN BeginLocked(r, And(Set(c, [config |-> stored, secret |-> secret, status |-> status]),
                                New(AuditEntry(c, "update"))), Done)
    BY <1>5 DEF UpdateConnector
  <2> DEFINE merged == [f \in Settings |-> IF f \in given THEN "clear" ELSE db[c].config[f]]
             stored == Seal(Unseal(merged, secret), secret)
             columns == [config |-> stored, secret |-> secret, status |-> status]
  <2>2. \A f \in secret : stored[f] # "clear"
    BY DEF Seal
  <2> HIDE DEF stored
  <2>3. Editable(columns) /\ {"hashed", "prev"} \cap DOMAIN columns = {}
        /\ "table" \notin DOMAIN columns
    BY DEF Editable
  <2>4. ASSUME NEW f, Edits(db, c, columns, f) PROVE RowAgrees(f[c])
    <3>1. \A x \in Columns("connector") :
            f[c][x] = IF x \in DOMAIN columns THEN columns[x] ELSE db[c][x]
      BY <1>2, <2>3, <2>4, EditedRow
    <3>2. f[c].config = stored /\ f[c].secret = secret /\ f[c].deleted = db[c].deleted
      BY <3>1, ColumnsOf
    <3> QED
      BY <1>2, <2>2, <3>2 DEF RowAgrees
  <2> HIDE DEF columns
  <2>5. Keeps(Written(And(Set(c, columns), New(AuditEntry(c, "update")))))
    BY <2>3, <2>4, KeepsConnector
  <2> QED
    BY <1>3, <2>1, <2>3, <2>5 DEF columns, stored
<1>6. CASE DeleteConnector(r)
  <2> DEFINE columns == [deleted |-> TRUE, status |-> "ARCHIVED"]
  <2>1. PICK c \in Live :
          BeginLocked(r, And(Set(c, columns), New(AuditEntry(c, "delete"))), Done)
    BY <1>6 DEF DeleteConnector
  <2>2. Editable(columns) /\ {"hashed", "prev"} \cap DOMAIN columns = {}
        /\ "table" \notin DOMAIN columns
    BY DEF Editable
  <2>3. ASSUME NEW f, Edits(db, c, columns, f) PROVE RowAgrees(f[c])
    <3>1. \A x \in Columns("connector") :
            f[c][x] = IF x \in DOMAIN columns THEN columns[x] ELSE db[c][x]
      BY <1>2, <2>2, <2>3, EditedRow
    <3>2. f[c].config = db[c].config /\ f[c].secret = db[c].secret /\ f[c].status = "ARCHIVED"
      BY <3>1, ColumnsOf
    <3> QED
      BY <1>2, <3>2 DEF RowAgrees
  <2> HIDE DEF columns
  <2>4. Keeps(Written(And(Set(c, columns), New(AuditEntry(c, "delete")))))
    BY <2>2, <2>3, KeepsConnector
  <2> QED
    BY <1>3, <2>1, <2>2, <2>4
<1>7. CASE TestConnector(r)
  <2>1. PICK c, status :
          c \in Live
          /\ BeginLocked(r, And(Set(c, [status |-> status]), New(AuditEntry(c, "test"))), Done)
    BY <1>7 DEF TestConnector
  <2> DEFINE columns == [status |-> status]
  <2>2. Editable(columns) /\ {"hashed", "prev"} \cap DOMAIN columns = {}
        /\ "table" \notin DOMAIN columns
    BY DEF Editable
  <2>3. ASSUME NEW f, Edits(db, c, columns, f) PROVE RowAgrees(f[c])
    <3>1. \A x \in Columns("connector") :
            f[c][x] = IF x \in DOMAIN columns THEN columns[x] ELSE db[c][x]
      BY <1>2, <2>1, <2>2, <2>3, EditedRow
    <3>2. f[c].config = db[c].config /\ f[c].secret = db[c].secret /\ f[c].deleted = db[c].deleted
      BY <3>1, ColumnsOf
    <3> QED
      BY <1>2, <2>1, <3>2 DEF RowAgrees
  <2> HIDE DEF columns
  <2>4. Keeps(Written(And(Set(c, columns), New(AuditEntry(c, "test")))))
    BY <2>1, <2>2, <2>3, KeepsConnector
  <2> QED
    BY <1>3, <2>1, <2>2, <2>4 DEF columns
<1>8. CASE SnapshotConnector(r)
  <2>1. PICK c \in Live : BeginLocked(r, New(AuditEntry(c, "read")), Done)
    BY <1>8 DEF SnapshotConnector
  <2> QED
    BY <1>1, <2>1, KeepsEntry, GoodEntry
<1>9. CASE SnapshotToEvidence(r)
  <2>1. PICK fields \in SUBSET Fields, auto \in BOOLEAN :
          BeginLocked(r, AndNew(AndAll(New(Source({})),
                                       IF auto THEN {Evidence(made + 1, f) : f \in fields} ELSE {}),
                                AuditEntry(made + 1, "create")), Done)
    BY <1>9 DEF SnapshotToEvidence
  <2> DEFINE found == IF auto THEN {Evidence(made + 1, f) : f \in fields} ELSE {}
  <2>2. found \in {{}, {Evidence(made + 1, f) : f \in fields}} /\ {} \in SUBSET Fields
    OBVIOUS
  <2>3. \A row \in found : row.table = "evidence" /\ Shaped(row)
    BY ColumnsOf DEF Evidence, Shaped
  <2>4. Source({}).table = "source" /\ Shaped(Source({}))
    BY ColumnsOf DEF Source, Shaped
  <2> DEFINE q == AndAll(New(Source({})), found)
  <2> HIDE DEF found
  <2>5. /\ Good(r, New(Source({})))
        /\ IsFiniteSet(found) /\ \A row \in found : HasTable(row)
    BY <1>1, <2>2, FoundRows
  <2>6. /\ Good(r, q) /\ q.update = New(Source({})).update /\ q.delete = New(Source({})).delete
        /\ \A i \in DOMAIN q.insert :
             \/ i \in DOMAIN New(Source({})).insert /\ q.insert[i] = New(Source({})).insert[i]
             \/ q.insert[i] \in found
    BY <2>5, AndAllIs
  <2>7. New(Source({})).update = Nothing /\ New(Source({})).delete = {}
        /\ \A i \in DOMAIN New(Source({})).insert : New(Source({})).insert[i] = Source({})
    BY DEF New, NoPlan, Only
  <2>8. \A i \in DOMAIN q.insert :
          q.insert[i].table \in {"source", "evidence"} /\ Shaped(q.insert[i])
    BY <2>3, <2>4, <2>6, <2>7
  <2> HIDE DEF q
  <2>9. \A i \in DOMAIN db : i \in DOMAIN Written(q) /\ Written(q)[i] = db[i]
    <3> SUFFICES ASSUME NEW i \in DOMAIN db
                 PROVE  i \in DOMAIN Written(q) /\ Written(q)[i] = db[i]
      OBVIOUS
    <3>1. i \in DOMAIN db \ q.delete /\ i \notin DOMAIN q.update
      BY <2>6, <2>7 DEF Nothing
    <3>2. Written(q)[i] = IF i \in DOMAIN q.update THEN Over(q.update[i], db[i]) ELSE db[i]
      BY <2>6, <3>1, WrittenKept
    <3>3. DOMAIN Written(q) = (DOMAIN db \ q.delete) \cup DOMAIN q.insert
      BY <2>6, WrittenIs
    <3> QED
      BY <3>1, <3>2, <3>3
  <2>10. \A i \in DOMAIN Written(q) \ DOMAIN db :
           i \in DOMAIN q.insert /\ Written(q)[i] = q.insert[i]
    BY <2>6, WrittenIs
  <2>11. Grows(db, Written(q)) /\ IsDatabase(Written(q))
    BY <2>6, <2>8, <2>9, <2>10, WrittenIsDatabase DEF Grows, Ruled
  <2>12. Ready(Written(q))
    BY <2>8, <2>10, <2>11, ReadyDatabase, ReadyGrows
  <2>13. Keeps(Written(AndNew(q, AuditEntry(made + 1, "create"))))
    BY <1>1, <2>6, <2>12, KeepsAndEntry
  <2>14. Good(r, AndNew(q, AuditEntry(made + 1, "create")))
    BY <1>1, <2>6, GoodAndEntry
  <2> QED
    BY <2>1, <2>13, <2>14 DEF q, found
<1> QED
  BY <1>4, <1>5, <1>6, <1>7, <1>8, <1>9 DEF ConnectorRequest

-----------------------------------------------------------------------------
(* Objects and links.                                                      *)

LEMMA ObjectsOnly ==
  ASSUME Uses("objects")
  PROVE  /\ Logged
         /\ \A d : Groups(d) <=> EndsExist(d)
<1>1. ~Uses("members") /\ ~Uses("connectors") /\ ~Uses("workspaces")
  BY DEF Uses
<1> QED
  BY <1>1, ObjectTables DEF Logged, Groups

\* No endpoint moves an end of a link.
LEMMA KeepsObject ==
  ASSUME Base, Sound(db), Uses("objects"), NEW r \in Requests, NEW i \in DOMAIN db,
         NEW columns, DOMAIN columns \subseteq {"rev", "deleted"}
  PROVE  Keeps(Written(Set(i, columns))) /\ Good(r, Set(i, columns))
<1>1. Editable(columns) /\ {"hashed", "prev"} \cap DOMAIN columns = {}
      /\ "table" \notin DOMAIN columns
  BY DEF Editable
<1>2. ASSUME NEW f, Edits(db, i, columns, f) PROVE EndsExist(f)
  <2>1. \A t : TableOf(f, t) = TableOf(db, t)
    BY <1>1, <1>2, EditedRow
  <2>2. ASSUME NEW l \in TableOf(db, "link")
        PROVE  f[l].source = db[l].source /\ f[l].target = db[l].target
    <3>1. CASE l = i
      <4>1. \A x \in Columns("link") :
              f[i][x] = IF x \in DOMAIN columns THEN columns[x] ELSE db[i][x]
        BY <1>1, <1>2, <3>1, EditedRow DEF TableOf
      <4> QED
        BY <3>1, <4>1, ColumnsOf
    <3>2. CASE l # i
      BY <1>2, <3>2 DEF Edits, TableOf
    <3> QED
      BY <3>1, <3>2
  <2>3. EndsExist(db)
    BY DEF Sound
  <2> QED
    BY <2>1, <2>2, <2>3 DEF EndsExist
<1>3. Ready(Written(Set(i, columns)))
  BY <1>1, <1>2, ObjectsOnly, ReadySet
<1> QED
  BY <1>1, <1>3, ReadyKeeps, WrittenSetOnly, ObjectsOnly DEF Logged

LEMMA KeepsDrop ==
  ASSUME Base, Sound(db), Uses("objects"), NEW r \in Requests,
         NEW ids, ids \subseteq Rows("object") \cup Rows("link"),
         \A f : Removes(db, ids, f) => EndsExist(f)
  PROVE  Keeps(Written(Drop(ids))) /\ Good(r, Drop(ids))
<1>1. ids \subseteq 1 .. made
  BY RowsAreMade
<1>2. Removes(db, ids, Written(Drop(ids)))
  BY <1>1, WrittenDrop
<1>3. \A i \in ids : i \in DOMAIN db => db[i].table \notin {"audit", "workspace"}
  BY DEF Rows
<1>4. Ready(Written(Drop(ids)))
  BY <1>2, <1>3, ReadyDatabase, ReadyLess, ObjectsOnly
<1> QED
  BY <1>1, <1>4, ReadyKeeps, GoodDrop, ObjectsOnly DEF Logged

LEMMA ObjectRequestKeeps ==
  ASSUME Base, Sound(db), Uses("objects"), NEW r \in Requests, ObjectRequest(r)
  PROVE  \E plan, job : BeginLocked(r, plan, job) /\ Good(r, plan) /\ Keeps(Written(plan))
<1> USE Base
<1>1. Logged /\ {"audit", "object", "link"} \subseteq Tables(scenario.uses)
  BY ObjectsOnly, ObjectTables
<1> DEFINE Kept == \E plan, job :
                     BeginLocked(r, plan, job) /\ Good(r, plan) /\ Keeps(Written(plan))
<1>2. \A plan, job :
        BeginLocked(r, plan, job) /\ Good(r, plan) /\ Keeps(Written(plan)) => Kept
  OBVIOUS
<1> HIDE DEF Kept
<1> SUFFICES Kept
  BY DEF Kept
<1>3. EndsExist(db) /\ \A table : Rows(table) = TableOf(db, table)
  BY DEF Sound, Rows, TableOf
<1>4. \A key : LET row == Object(key)
               IN HasTable(row) /\ Shaped(row) /\ row.table = "object"
  BY <1>1, ColumnsOf DEF HasTable, Shaped, Object
<1>5. ASSUME NEW i \in DOMAIN db, Update(r, i) PROVE Kept
  <2> DEFINE columns == [rev |-> 1 - db[i].rev]
  <2>1. BeginLocked(r, Set(i, columns), Audited(i))
    BY <1>5 DEF Update
  <2>2. DOMAIN columns \subseteq {"rev", "deleted"}
    OBVIOUS
  <2> HIDE DEF columns
  <2> QED
    BY <1>2, <2>1, <2>2, KeepsObject
<1>6. \A i \in Visible : i \in DOMAIN db /\ i \in Rows("object")
  BY DEF Visible, Rows
<1>7. ASSUME NEW f, NEW row, Adds(db, made + 1, row, f), row.table = "object"
      PROVE  Groups(f)
  <2>1. Grows(db, f) /\ Groups(db)
    BY <1>3, <1>7, ObjectsOnly DEF Adds, Grows, Ruled
  <2> QED
    BY <2>1, PlainRows
<1>8. CASE CreateObject(r)
  <2>1. CASE \E key : BeginLocked(r, AndEntry(New(Object(key)), "create"), Done)
    <3>1. PICK key : BeginLocked(r, AndEntry(New(Object(key)), "create"), Done)
      BY <2>1
    <3>2. Keeps(Written(AndEntry(New(Object(key)), "create")))
      BY <1>1, <1>4, <1>7, KeepsNewAndEntry
    <3>3. Good(r, AndEntry(New(Object(key)), "create"))
      BY <1>1, <1>4, GoodNew, GoodAndEntry
    <3> QED
      BY <1>2, <3>1, <3>2, <3>3
  <2>2. CASE \E key, i : i \in Keyed(key) /\ Update(r, i)
    BY <1>5, <1>6, <2>2 DEF Keyed
  <2> QED
    BY <1>8, <2>1, <2>2 DEF CreateObject
<1>9. CASE UpdateObject(r)
  BY <1>5, <1>6, <1>9 DEF UpdateObject
<1>10. CASE BulkUpsert(r)
  <2>1. PICK key \in Keys, twice \in BOOLEAN :
          LET fresh == New(Object(key))
              plan == IF Keyed(key) = {}
                      THEN IF twice THEN AndNew(fresh, Object(key)) ELSE fresh
                      ELSE IF Cardinality(Keyed(key)) = 1
                      THEN LET i == CHOOSE i \in Keyed(key) : TRUE
                           IN Set(i, [rev |-> 1 - db[i].rev])
                      ELSE NoPlan
          IN BeginLocked(r, plan, <<"audit", None, "update", FALSE>>)
    BY <1>10 DEF BulkUpsert
  <2> DEFINE row == Object(key)
             fresh == New(row)
             found == CHOOSE i \in Keyed(key) : TRUE
             columns == [rev |-> 1 - db[found].rev]
             job == <<"audit", None, "update", FALSE>>
  <2>2. HasTable(row) /\ Shaped(row) /\ row.table \notin Ruled \cup {"audit"}
    BY <1>4 DEF Ruled
  <2>3. \/ BeginLocked(r, AndNew(fresh, row), job)
        \/ BeginLocked(r, fresh, job)
        \/ Keyed(key) # {} /\ BeginLocked(r, Set(found, columns), job)
        \/ BeginLocked(r, NoPlan, job)
    BY <2>1
  <2>4. DOMAIN columns \subseteq {"rev", "deleted"}
    OBVIOUS
  <2> HIDE DEF row, columns, job
  <2>5. Good(r, fresh) /\ Good(r, AndNew(fresh, row))
    BY <2>2, GoodNew, GoodAndNew
  <2>6. Ready(Written(fresh))
    <3>1. Adds(db, made + 1, row, Written(fresh))
      BY <2>2, WrittenNew
    <3> QED
      BY <2>2, <3>1, ReadyDatabase, ReadyPlain
  <2>7. Ready(Written(AndNew(fresh, row)))
    <3>1. PICK e \in Nat : Adds(Written(fresh), e, row, Written(AndNew(fresh, row)))
      BY <2>2, <2>5, WrittenAndNew
    <3> QED
      BY <2>2, <2>6, <3>1, ReadyPlain
  <2>8. Keyed(key) # {} => found \in DOMAIN db
    BY <1>6 DEF Keyed
  <2> HIDE DEF fresh, found
  <2>9. Keeps(Written(fresh)) /\ Keeps(Written(AndNew(fresh, row)))
    BY <1>1, <2>6, <2>7, ReadyKeeps DEF Logged
  <2>10. Keyed(key) # {} => Keeps(Written(Set(found, columns))) /\ Good(r, Set(found, columns))
    BY <2>4, <2>8, KeepsObject
  <2>11. Keeps(Written(NoPlan)) /\ Good(r, NoPlan)
    BY <1>1, KeepsNothing, GoodNothing
  <2> QED
    BY <1>2, <2>3, <2>5, <2>9, <2>10, <2>11
<1>11. CASE SoftDeleteObject(r)
  <2> DEFINE columns == [deleted |-> TRUE]
  <2>1. PICK i \in Visible :
          BeginLocked(r, Set(i, columns), <<"audit", i, "delete", FALSE>>)
    BY <1>11 DEF SoftDeleteObject
  <2>2. DOMAIN columns \subseteq {"rev", "deleted"}
    OBVIOUS
  <2> HIDE DEF columns
  <2> QED
    BY <1>2, <1>6, <2>1, <2>2, KeepsObject
<1>12. CASE HardDeleteObject(r)
  <2>1. PICK i \in Visible :
          /\ \A l \in Rows("link") : db[l].target = i => db[l].source = i
          /\ BeginLocked(r, Drop({i} \cup {l \in Rows("link") : db[l].source = i}),
                         <<"audit", i, "delete", FALSE>>)
    BY <1>12 DEF HardDeleteObject
  <2> DEFINE ids == {i} \cup {l \in Rows("link") : db[l].source = i}
  <2>2. ids \subseteq Rows("object") \cup Rows("link")
    BY <1>6
  <2>3. ASSUME NEW f, Removes(db, ids, f) PROVE EndsExist(f)
    <3>1. DOMAIN f = DOMAIN db \ ids /\ \A j \in DOMAIN f : f[j] = db[j]
      BY <2>3 DEF Removes
    <3>2. ASSUME NEW l \in TableOf(f, "link")
          PROVE  {f[l].source, f[l].target} \subseteq TableOf(f, "object")
      <4>1. l \in Rows("link") /\ l \notin ids /\ f[l] = db[l]
        BY <3>1 DEF TableOf, Rows
      <4>2. db[l].source # i /\ db[l].target # i
        BY <2>1, <4>1
      <4>3. {db[l].source, db[l].target} \subseteq Rows("object")
        BY <1>3, <4>1 DEF EndsExist
      <4>4. \A j \in Rows("object") : j \in DOMAIN db /\ j \notin Rows("link")
        BY DEF Rows
      <4>5. \A j \in Rows("object") \ {i} : j \in TableOf(f, "object")
        BY <3>1, <4>4 DEF TableOf, Rows
      <4> QED
        BY <4>1, <4>2, <4>3, <4>5
    <3> QED
      BY <3>2 DEF EndsExist
  <2> HIDE DEF ids
  <2>4. Keeps(Written(Drop(ids))) /\ Good(r, Drop(ids))
    BY <2>2, <2>3, KeepsDrop
  <2> QED
    BY <1>2, <2>1, <2>4 DEF ids
<1>13. CASE CreateLink(r)
  <2>1. CASE \E s, t, job : 
               /\ s \in Visible /\ t \in Visible
               /\ BeginLocked(r, AndEntry(New(Link(s, t)), "create"), job)
    <3>1. PICK s, t, job :
               /\ s \in Visible /\ t \in Visible
               /\ BeginLocked(r, AndEntry(New(Link(s, t)), "create"), job)
      BY <2>1
    <3> DEFINE row == Link(s, t)
    <3>2. HasTable(row) /\ Shaped(row) /\ row.table = "link"
          /\ row.source = s /\ row.target = t
      BY <1>1, ColumnsOf DEF HasTable, Shaped, Link
    <3> HIDE DEF row
    <3>3. ASSUME NEW f, Adds(db, made + 1, row, f) PROVE EndsExist(f)
      <4>1. \A l \in TableOf(f, "link") :
              l = made + 1 \/ (l \in TableOf(db, "link") /\ f[l] = db[l])
        BY <3>3 DEF Adds, TableOf
      <4>2. TableOf(db, "object") \subseteq TableOf(f, "object") /\ f[made + 1] = row
        BY <3>3 DEF Adds, TableOf
      <4>3. {s, t} \subseteq TableOf(db, "object")
        BY <1>3, <1>6, <3>1
      <4> QED
        BY <1>3, <3>2, <4>1, <4>2, <4>3 DEF EndsExist
    <3>4. Keeps(Written(AndEntry(New(row), "create")))
      BY <1>1, <3>2, <3>3, ObjectsOnly, KeepsNewAndEntry
    <3>5. Good(r, AndEntry(New(row), "create"))
      BY <1>1, <3>2, GoodNew, GoodAndEntry
    <3> QED
      BY <1>2, <3>1, <3>4, <3>5 DEF row
  <2>2. CASE \E l \in Rows("link") : Update(r, l)
    BY <1>5, <2>2 DEF Rows
  <2> QED
    BY <1>13, <2>1, <2>2 DEF CreateLink
<1>14. CASE UpdateLink(r)
  BY <1>5, <1>14 DEF UpdateLink, Rows
<1>15. CASE DeleteLink(r)
  <2>1. PICK l \in Rows("link") :
          BeginLocked(r, Drop({l}), <<"audit", l, "delete", FALSE>>)
    BY <1>15 DEF DeleteLink
  <2>2. ASSUME NEW f, Removes(db, {l}, f) PROVE EndsExist(f)
    <3>1. DOMAIN f = DOMAIN db \ {l} /\ \A j \in DOMAIN f : f[j] = db[j]
      BY <2>2 DEF Removes
    <3>2. \A k \in TableOf(f, "link") : k \in TableOf(db, "link") /\ f[k] = db[k]
      BY <3>1 DEF TableOf
    <3>3. TableOf(db, "object") \subseteq TableOf(f, "object")
      BY <2>1, <3>1 DEF TableOf, Rows
    <3> QED
      BY <1>3, <3>2, <3>3 DEF EndsExist
  <2>3. Keeps(Written(Drop({l}))) /\ Good(r, Drop({l}))
    <3>1. {l} \subseteq Rows("object") \cup Rows("link")
      OBVIOUS
    <3> QED
      BY <2>2, <3>1, KeepsDrop
  <2> QED
    BY <1>2, <2>1, <2>3
<1> QED
  BY <1>8, <1>9, <1>10, <1>11, <1>12, <1>13, <1>14, <1>15 DEF ObjectRequest

-----------------------------------------------------------------------------
(* Members.                                                                *)

\* Every member is the old one, or the one that the new entry is about.
LEMMA MembersGetEntry ==
  ASSUME Sound(db), Uses("members"), NEW d, Ready(d), NEW m, NEW after,
         \A x \in TableOf(d, "member") \ {m} : x \in Rows("member") /\ d[x] = db[x],
         \A x \in Entries : d[x] = db[x],
         m \in TableOf(d, "member") => Diff(d[m]) = after,
         NEW e, NEW f, Adds(d, e, AuditEntry(m, after), f)
  PROVE  Keeps(f)
<1> DEFINE row == AuditEntry(m, after)
           about(g, x) == {y \in TableOf(g, "audit") : g[y].target = x}
<1>1. row.table = "audit" /\ row.target = m /\ row.after = after
  BY DEF AuditEntry
<1> HIDE DEF row
<1>2. /\ e \in Nat /\ DOMAIN f = DOMAIN d \cup {e} /\ f[e] = row
      /\ \A i \in DOMAIN d : i < e /\ i \in DOMAIN f /\ f[i] = d[i]
  BY DEF Adds, row
<1>3. PICK n \in Nat : DOMAIN d \subseteq 0 .. n
  BY DEF Ready, IsDatabase
<1>4. TableOf(f, "audit") = Entries \cup {e} /\ e \notin DOMAIN d
  <2>1. TableOf(d, "audit") = Entries
    BY DEF Ready
  <2>2. e \notin DOMAIN d
    BY <1>2, <1>3
  <2> QED
    BY <1>1, <1>2, <2>1, <2>2 DEF TableOf
<1>5. \A y \in Entries : y \in DOMAIN d /\ y < e /\ f[y] = db[y]
  BY <1>2 DEF Ready, TableOf
<1>6. TableOf(f, "member") = TableOf(d, "member")
  BY <1>1, <1>2, <1>4 DEF TableOf
<1>7. ASSUME NEW x \in TableOf(f, "member")
      PROVE  about(f, x) # {} /\ f[Max(about(f, x))].after = Diff(f[x])
  <2>1. f[x] = d[x]
    BY <1>2, <1>6 DEF TableOf
  <2>2. CASE x = m
    <3> DEFINE old == {y \in Entries : f[y].target = m}
    <3>1. about(f, x) = old \cup {e}
      BY <1>1, <1>2, <1>4, <2>2
    <3>2. old \subseteq 0 .. n /\ \A y \in old : y < e
      BY <1>3, <1>5
    <3> HIDE DEF old
    <3>3. Max(old \cup {e}) = e
      BY <1>2, <3>2, MaxOfMore
    <3> QED
      BY <1>1, <1>2, <1>6, <2>1, <2>2, <3>1, <3>3
  <2>3. CASE x # m
    <3>1. x \in TableOf(db, "member") /\ f[x] = db[x]
      BY <1>6, <2>1, <2>3 DEF TableOf, Rows
    <3>2. TableOf(db, "audit") = Entries
      BY DEF TableOf, Rows, Entries
    <3>3. about(f, x) = about(db, x)
      BY <1>1, <1>2, <1>4, <1>5, <2>3, <3>2
    <3>4. about(db, x) # {} /\ db[Max(about(db, x))].after = Diff(db[x])
      BY <3>1 DEF Sound, MembersMatch
    <3>5. about(db, x) \subseteq 0 .. n
      BY <1>3, <1>5, <3>2
    <3>6. Max(about(db, x)) \in Entries
      BY <3>2, <3>4, <3>5, MaxIs
    <3> QED
      BY <1>5, <3>1, <3>3, <3>4, <3>6
  <2> QED
    BY <2>2, <2>3
<1>8. MembersMatch(f)
  BY <1>7 DEF MembersMatch
<1> QED
  BY <1>8, ReadyEntry

\* A user who was not known comes first.
LEMMA ReadyUser ==
  ASSUME Base, Sound(db), "user" \in Tables(scenario.uses), NEW r \in Requests, NEW u
  PROVE  LET p == EnsureUser(u)
         IN /\ Good(r, p) /\ Ready(Written(p)) /\ p.delete = {} /\ p.update = Nothing
            /\ \A i \in DOMAIN db : i \in DOMAIN Written(p) /\ Written(p)[i] = db[i]
            /\ \A i \in DOMAIN Written(p) \ DOMAIN db :
                 Written(p)[i] = [table |-> "user", user |-> u]
<1> DEFINE row == [table |-> "user", user |-> u]
           p == EnsureUser(u)
<1>1. Good(r, p)
  BY GoodUser
<1>2. HasTable(row) /\ Shaped(row) /\ row.table \notin Ruled \cup {"audit"}
  BY ColumnsOf DEF HasTable, Shaped, Ruled
<1> HIDE DEF row
<1>3. CASE p = NoPlan
  <2>1. Removes(db, {}, Written(NoPlan))
    BY WrittenNothing
  <2>2. DOMAIN Written(NoPlan) = DOMAIN db /\ \A i \in DOMAIN db : Written(NoPlan)[i] = db[i]
    BY <2>1 DEF Removes
  <2>3. Grows(db, Written(NoPlan)) /\ IsDatabase(Written(NoPlan))
    BY <1>1, <1>3, <2>2, WrittenIsDatabase DEF Grows
  <2>4. Ready(Written(NoPlan))
    BY <2>2, <2>3, ReadyDatabase, ReadyGrows
  <2>5. NoPlan.delete = {} /\ NoPlan.update = Nothing
    BY DEF NoPlan
  <2> HIDE DEF p
  <2> QED
    BY <1>1, <1>3, <2>2, <2>4, <2>5 DEF p
<1>4. CASE p = New(row)
  <2>1. Adds(db, made + 1, row, Written(New(row)))
    BY <1>2, WrittenNew
  <2>2. Ready(Written(New(row)))
    BY <1>2, <2>1, ReadyDatabase, ReadyPlain
  <2>3. New(row).delete = {} /\ New(row).update = Nothing
    BY DEF New, NoPlan
  <2>4. /\ \A i \in DOMAIN db : i \in DOMAIN Written(New(row)) /\ Written(New(row))[i] = db[i]
        /\ \A i \in DOMAIN Written(New(row)) \ DOMAIN db : Written(New(row))[i] = row
    BY <2>1 DEF Adds
  <2> HIDE DEF p
  <2> QED
    BY <1>1, <1>4, <2>2, <2>3, <2>4 DEF p, row
<1> QED
  BY <1>3, <1>4 DEF EnsureUser, row

LEMMA KeepsMember ==
  ASSUME Base, Sound(db), Uses("members"), NEW r \in Requests, NEW m \in Rows("member"),
         NEW columns, DOMAIN columns \subseteq {"role", "active"}, NEW after,
         after = <<IF "role" \in DOMAIN columns THEN columns.role ELSE db[m].role,
                   IF "active" \in DOMAIN columns THEN columns.active ELSE db[m].active>>
  PROVE  LET plan == And(Set(m, columns), New(AuditEntry(m, after)))
         IN Good(r, plan) /\ Keeps(Written(plan))
<1> DEFINE p == Set(m, columns)
           row == AuditEntry(m, after)
           d == Written(p)
<1>1. m \in DOMAIN db /\ db[m].table = "member" /\ m \in 1 .. made
  BY RowsAreMade DEF Rows
<1>2. Editable(columns) /\ "table" \notin DOMAIN columns
      /\ {"hashed", "prev"} \cap DOMAIN columns = {}
  BY DEF Editable
<1>3. "audit" \in Tables(scenario.uses) /\ \A f : Groups(f)
  BY MemberTables DEF Uses, Groups
<1>4. Good(r, p) /\ Edits(db, m, columns, d) /\ Ready(d)
  BY <1>1, <1>2, <1>3, WrittenSetOnly, ReadySet
<1>5. DOMAIN p.insert = {}
  BY DEF Set, NoPlan, Nothing
<1>6. HasTable(row) /\ Good(r, And(p, New(row)))
  BY <1>3, <1>4, GoodEntry, GoodAndEntry
<1> HIDE DEF p, row
<1>7. Adds(d, made + 1, row, Written(And(p, New(row))))
  BY <1>4, <1>5, <1>6, WrittenAndOne
<1>8. Diff(d[m]) = after
  <2>1. \A c \in Columns("member") :
          d[m][c] = IF c \in DOMAIN columns THEN columns[c] ELSE db[m][c]
    BY <1>1, <1>2, <1>4, EditedRow
  <2>2. d[m].role = (IF "role" \in DOMAIN columns THEN columns.role ELSE db[m].role)
        /\ d[m].active = (IF "active" \in DOMAIN columns THEN columns.active ELSE db[m].active)
    BY <2>1, ColumnsOf
  <2> QED
    BY <2>2 DEF Diff
<1>9. \A x \in TableOf(d, "member") \ {m} : x \in Rows("member") /\ d[x] = db[x]
  BY <1>4 DEF TableOf, Rows, Edits
<1>10. \A x \in Entries : d[x] = db[x]
  BY <1>1, <1>4 DEF Entries, Rows, Edits
<1> HIDE DEF d
<1>11. Keeps(Written(And(p, New(row))))
  BY <1>4, <1>7, <1>8, <1>9, <1>10, MembersGetEntry DEF row
<1> QED
  BY <1>6, <1>11 DEF p, row

LEMMA MemberRequestKeeps ==
  ASSUME Base, Sound(db), Uses("members"), NEW r \in Requests, MemberRequest(r)
  PROVE  \E plan : BeginLocked(r, plan, Done) /\ Good(r, plan) /\ Keeps(Written(plan))
<1> USE Base
<1>1. {"audit", "user", "member"} \subseteq Tables(scenario.uses)
  BY MemberTables
<1>2. CASE InviteMember(r)
  <2> DEFINE member(u, role) == [table |-> "member", user |-> u, role |-> role, active |-> TRUE]
  <2>1. PICK u \in Users, role \in Roles :
          \/ BeginLocked(r, AndEntry(AndNew(EnsureUser(u), member(u, role)),
                                     Diff(member(u, role))), Done)
          \/ \E m \in MemberRow(u) :
               BeginLocked(r, And(Set(m, [role |-> role, active |-> TRUE]),
                                  New(AuditEntry(m, <<role, TRUE>>))), Done)
    BY <1>2 DEF InviteMember
  <2>2. CASE \E m \in MemberRow(u) :
               BeginLocked(r, And(Set(m, [role |-> role, active |-> TRUE]),
                                  New(AuditEntry(m, <<role, TRUE>>))), Done)
    <3> DEFINE columns == [role |-> role, active |-> TRUE]
    <3>1. PICK m \in Rows("member") :
            BeginLocked(r, And(Set(m, columns), New(AuditEntry(m, <<role, TRUE>>))), Done)
      BY <2>2 DEF MemberRow
    <3>2. /\ DOMAIN columns = {"role", "active"} /\ columns.role = role /\ columns.active = TRUE
      OBVIOUS
    <3> HIDE DEF columns
    <3> QED
      BY <3>1, <3>2, KeepsMember
  <2>3. CASE BeginLocked(r, AndEntry(AndNew(EnsureUser(u), member(u, role)),
                                     Diff(member(u, role))), Done)
    <3> DEFINE row == member(u, role)
               p == EnsureUser(u)
               q == AndNew(p, row)
               d == Written(q)
    <3>1. HasTable(row) /\ Shaped(row) /\ row.table \notin Ruled \cup {"audit"}
      BY <1>1, ColumnsOf DEF HasTable, Shaped, Ruled
    <3> HIDE DEF row
    <3>2. /\ Good(r, p) /\ Ready(Written(p))
          /\ \A i \in DOMAIN db : i \in DOMAIN Written(p) /\ Written(p)[i] = db[i]
          /\ \A i \in DOMAIN Written(p) \ DOMAIN db :
               Written(p)[i] = [table |-> "user", user |-> u]
      BY <1>1, ReadyUser
    <3> HIDE DEF p
    <3>3. PICK m \in Nat : Adds(Written(p), m, row, d) /\ Max(DOMAIN q.insert) = m
      BY <3>1, <3>2, WrittenAndNew
    <3>4. Good(r, q) /\ Good(r, AndEntry(q, Diff(row))) /\ HasTable(AuditEntry(m, Diff(row)))
      BY <1>1, <3>1, <3>2, GoodAndNew, GoodAndEntry, GoodEntry
    <3>5. Ready(d)
      BY <3>1, <3>2, <3>3, ReadyPlain
    <3>6. AndEntry(q, Diff(row)) = AndNew(q, AuditEntry(m, Diff(row)))
      BY <3>3 DEF AndEntry
    <3> HIDE DEF q
    <3>7. PICK e \in Nat :
            Adds(d, e, AuditEntry(m, Diff(row)), Written(AndEntry(q, Diff(row))))
      BY <3>4, <3>6, WrittenAndNew
    <3>8. d[m] = row /\ \A x \in DOMAIN d \ {m} : x \in DOMAIN Written(p) /\ d[x] = Written(p)[x]
      BY <3>3 DEF Adds
    <3>9. ASSUME NEW x \in DOMAIN d \ {m}, d[x].table = "member"
          PROVE  x \in Rows("member") /\ d[x] = db[x]
      <4>1. x \in DOMAIN Written(p) /\ d[x] = Written(p)[x]
        BY <3>8
      <4>2. x \in DOMAIN db
        BY <3>2, <3>9, <4>1
      <4> QED
        BY <3>2, <3>9, <4>1, <4>2 DEF Rows
    <3>10. \A x \in Entries : d[x] = db[x]
      <4> SUFFICES ASSUME NEW x \in Entries PROVE d[x] = db[x]
        OBVIOUS
      <4>1. x \in DOMAIN Written(p) /\ Written(p)[x] = db[x]
        BY <3>2 DEF Entries, Rows
      <4> QED
        BY <3>3, <4>1 DEF Adds
    <3> HIDE DEF d
    <3>11. Keeps(Written(AndEntry(q, Diff(row))))
      <4>1. \A x \in TableOf(d, "member") \ {m} : x \in Rows("member") /\ d[x] = db[x]
        BY <3>9 DEF TableOf
      <4> QED
        BY <3>5, <3>7, <3>8, <3>10, <4>1, MembersGetEntry
    <3> QED
      BY <2>3, <3>4, <3>11 DEF q, p, row
  <2> QED
    BY <2>1, <2>2, <2>3
<1>3. CASE UpdateMemberRole(r)
  <2>1. PICK m \in Rows("member"), role \in Roles :
          BeginLocked(r, And(Set(m, [role |-> role]),
                             New(AuditEntry(m, <<role, db[m].active>>))), Done)
    BY <1>3 DEF UpdateMemberRole
  <2> DEFINE columns == [role |-> role]
  <2>2. DOMAIN columns = {"role"} /\ columns.role = role
    OBVIOUS
  <2> HIDE DEF columns
  <2>3. LET plan == And(Set(m, columns), New(AuditEntry(m, <<role, db[m].active>>)))
        IN Good(r, plan) /\ Keeps(Written(plan))
    BY <2>2, KeepsMember
  <2> QED
    BY <2>1, <2>3 DEF columns
<1>4. CASE RemoveMember(r)
  <2>1. PICK m \in Rows("member") :
          BeginLocked(r, And(Set(m, [active |-> FALSE]),
                             New(AuditEntry(m, <<db[m].role, FALSE>>))), Done)
    BY <1>4 DEF RemoveMember
  <2> DEFINE columns == [active |-> FALSE]
  <2>2. DOMAIN columns = {"active"} /\ columns.active = FALSE
    OBVIOUS
  <2> HIDE DEF columns
  <2>3. LET plan == And(Set(m, columns), New(AuditEntry(m, <<db[m].role, FALSE>>)))
        IN Good(r, plan) /\ Keeps(Written(plan))
    BY <2>2, KeepsMember
  <2> QED
    BY <2>1, <2>3 DEF columns
<1> QED
  BY <1>2, <1>3, <1>4 DEF MemberRequest

-----------------------------------------------------------------------------
(* Workspaces.                                                             *)

LEMMA WorkspacesOnly ==
  ASSUME Uses("workspaces")
  PROVE  /\ Logged
         /\ {"user", "workspace", "wsmember", "provider", "login", "audit"}
              = Tables(scenario.uses)
         /\ \A d : Groups(d) <=> Owned(d)
<1>1. ~Uses("members") /\ ~Uses("objects") /\ ~Uses("connectors")
  BY DEF Uses
<1> QED
  BY <1>1, WorkspaceTables DEF Logged, Groups

\* Fewer rows, or other values: a workspace can be deleted, a membership can end
\* or go with its workspace, and only who is not the owner gets a lower role.
LEMMA OwnedAlike ==
  ASSUME NEW d, Owned(d), NEW f,
         TableOf(f, "workspace") = TableOf(d, "workspace"),
         \A w \in TableOf(d, "workspace") :
           f[w].owner = d[w].owner /\ (~f[w].deleted => ~d[w].deleted),
         TableOf(f, "wsmember") \subseteq TableOf(d, "wsmember"),
         \A m \in TableOf(d, "wsmember") :
           m \in TableOf(f, "wsmember") \/ f[d[m].ws].deleted,
         \A m \in TableOf(f, "wsmember") :
           /\ f[m].ws = d[m].ws /\ f[m].user = d[m].user
           /\ f[m].active => d[m].active
           /\ f[m].role = d[m].role \/ f[m].role = "owner" \/ d[m].user # d[d[m].ws].owner,
         TableOf(f, "provider") \cup TableOf(f, "login")
           \subseteq TableOf(d, "provider") \cup TableOf(d, "login"),
         \A i \in TableOf(f, "provider") \cup TableOf(f, "login") : f[i].ws = d[i].ws
  PROVE  Owned(f)
<1>1. \A i \in TableOf(d, "wsmember") \cup TableOf(d, "provider") \cup TableOf(d, "login") :
        d[i].ws \in TableOf(d, "workspace")
  BY DEF Owned
<1>2. \A i \in TableOf(f, "wsmember") \cup TableOf(f, "provider") \cup TableOf(f, "login") :
        f[i].ws \in TableOf(f, "workspace")
  BY <1>1
<1>3. ASSUME Indexed, NEW m \in TableOf(f, "wsmember"), f[m].active, ~f[f[m].ws].deleted,
             f[m].user = f[f[m].ws].owner
      PROVE  f[m].role = "owner"
  <2>1. f[m].ws = d[m].ws /\ d[m].ws \in TableOf(d, "workspace") /\ m \in TableOf(d, "wsmember")
    BY <1>1
  <2>2. ~d[d[m].ws].deleted /\ d[m].user = d[d[m].ws].owner /\ d[m].active
    BY <1>3, <2>1
  <2>3. d[m].role = "owner"
    BY <1>3, <2>1, <2>2 DEF Owned
  <2> QED
    BY <2>2, <2>3
<1>4. ASSUME NEW w \in TableOf(f, "workspace"), ~f[w].deleted
      PROVE  \E m \in TableOf(f, "wsmember") : f[m].ws = w /\ f[m].user = f[w].owner
  <2>1. w \in TableOf(d, "workspace") /\ ~d[w].deleted /\ f[w].owner = d[w].owner
    BY <1>4
  <2>2. PICK m \in TableOf(d, "wsmember") : d[m].ws = w /\ d[m].user = d[w].owner
    BY <2>1 DEF Owned
  <2>3. m \in TableOf(f, "wsmember")
    BY <1>4, <2>2
  <2> QED
    BY <2>1, <2>2, <2>3
<1> QED
  BY <1>2, <1>3, <1>4 DEF Owned

\* More rows in the workspaces that there are.
LEMMA OwnedGrows ==
  ASSUME NEW d, Owned(d), NEW f,
         \A i \in DOMAIN d : i \in DOMAIN f /\ f[i] = d[i],
         \A i \in DOMAIN f \ DOMAIN d :
           /\ f[i].table # "workspace"
           /\ f[i].table \in {"wsmember", "provider", "login"} =>
                f[i].ws \in TableOf(d, "workspace")
           /\ Indexed /\ f[i].table = "wsmember" =>
                LET w == d[f[i].ws]
                IN f[i].active /\ ~w.deleted /\ f[i].user = w.owner => f[i].role = "owner"
  PROVE  Owned(f)
<1>1. TableOf(f, "workspace") = TableOf(d, "workspace")
  BY DEF TableOf
<1>2. \A t : \A i \in TableOf(f, t) : i \in TableOf(d, t) \/ i \in DOMAIN f \ DOMAIN d
  BY DEF TableOf
<1>3. \A t : \A i \in TableOf(d, t) : i \in TableOf(f, t) /\ f[i] = d[i]
  BY DEF TableOf
<1>4. ASSUME NEW i \in TableOf(f, "wsmember") \cup TableOf(f, "provider") \cup TableOf(f, "login")
      PROVE  f[i].ws \in TableOf(f, "workspace")
  <2>1. f[i].table \in {"wsmember", "provider", "login"}
    BY DEF TableOf
  <2>2. CASE i \in DOMAIN f \ DOMAIN d
    BY <1>1, <2>1, <2>2
  <2>3. CASE i \in TableOf(d, "wsmember") \cup TableOf(d, "provider") \cup TableOf(d, "login")
    BY <1>1, <1>3, <2>3 DEF Owned
  <2> QED
    BY <1>2, <2>2, <2>3
<1>5. ASSUME Indexed, NEW m \in TableOf(f, "wsmember"), f[m].active, ~f[f[m].ws].deleted,
             f[m].user = f[f[m].ws].owner
      PROVE  f[m].role = "owner"
  <2>1. f[m].ws \in TableOf(d, "workspace") /\ f[f[m].ws] = d[f[m].ws]
    BY <1>1, <1>3, <1>4
  <2>2. CASE m \in TableOf(d, "wsmember")
    BY <1>3, <1>5, <2>1, <2>2 DEF Owned
  <2>3. CASE m \in DOMAIN f \ DOMAIN d
    BY <1>5, <2>1, <2>3 DEF TableOf
  <2> QED
    BY <1>2, <2>2, <2>3
<1>6. ASSUME NEW w \in TableOf(f, "workspace"), ~f[w].deleted
      PROVE  \E m \in TableOf(f, "wsmember") : f[m].ws = w /\ f[m].user = f[w].owner
  <2>1. w \in TableOf(d, "workspace") /\ f[w] = d[w]
    BY <1>1, <1>3
  <2>2. PICK m \in TableOf(d, "wsmember") : d[m].ws = w /\ d[m].user = d[w].owner
    BY <1>6, <2>1 DEF Owned
  <2>3. m \in TableOf(f, "wsmember") /\ f[m] = d[m]
    BY <1>3
  <2> QED
    BY <2>1, <2>2, <2>3
<1> QED
  BY <1>4, <1>5, <1>6 DEF Owned

\* What the endpoints write into a row of a workspace.
LEMMA OwnedEdit ==
  ASSUME Sound(db), Uses("workspaces"), NEW i \in DOMAIN db, NEW columns, NEW f,
         Edits(db, i, columns, f),
         DOMAIN columns \subseteq
           {"rev", "deleted", "role", "active", "status", "provision", "consumed"},
         "deleted" \in DOMAIN columns => columns.deleted = TRUE,
         "active" \in DOMAIN columns => columns.active = FALSE,
         "role" \in DOMAIN columns /\ db[i].user = db[db[i].ws].owner => columns.role = "owner"
  PROVE  Groups(f)
<1>1. "table" \notin DOMAIN columns
  OBVIOUS
<1>2. \A t : TableOf(f, t) = TableOf(db, t)
  BY <1>1, EditedRow
<1>3. \A j \in DOMAIN db \ {i} : f[j] = db[j]
  BY DEF Edits
<1>4. \A c \in Columns(db[i].table) :
        f[i][c] = IF c \in DOMAIN columns THEN columns[c] ELSE db[i][c]
  BY <1>1, EditedRow
<1>5. ASSUME NEW w \in TableOf(db, "workspace")
      PROVE  f[w].owner = db[w].owner /\ (~f[w].deleted => ~db[w].deleted)
  <2>1. CASE w = i
    <3>1. {"owner", "deleted"} \subseteq Columns(db[i].table)
      BY <2>1, ColumnsOf DEF TableOf
    <3>2. f[i].owner = db[i].owner
      BY <1>4, <3>1
    <3>3. f[i].deleted = IF "deleted" \in DOMAIN columns THEN columns.deleted ELSE db[i].deleted
      BY <1>4, <3>1
    <3> QED
      BY <2>1, <3>2, <3>3
  <2>2. CASE w # i
    BY <1>3, <2>2 DEF TableOf
  <2> QED
    BY <2>1, <2>2
<1>6. ASSUME NEW m \in TableOf(db, "wsmember")
      PROVE  /\ f[m].ws = db[m].ws /\ f[m].user = db[m].user
             /\ f[m].active => db[m].active
             /\ f[m].role = db[m].role \/ f[m].role = "owner" \/ db[m].user # db[db[m].ws].owner
  <2>1. CASE m = i
    <3>1. {"ws", "user", "active", "role"} \subseteq Columns(db[i].table)
      BY <2>1, ColumnsOf DEF TableOf
    <3>2. f[i].ws = db[i].ws /\ f[i].user = db[i].user
      BY <1>4, <3>1
    <3>3. f[i].active = IF "active" \in DOMAIN columns THEN columns.active ELSE db[i].active
      BY <1>4, <3>1
    <3>4. f[i].role = IF "role" \in DOMAIN columns THEN columns.role ELSE db[i].role
      BY <1>4, <3>1
    <3> QED
      BY <2>1, <3>2, <3>3, <3>4
  <2>2. CASE m # i
    BY <1>3, <2>2 DEF TableOf
  <2> QED
    BY <2>1, <2>2
<1>7. ASSUME NEW j \in TableOf(db, "provider") \cup TableOf(db, "login")
      PROVE  f[j].ws = db[j].ws
  <2>1. CASE j = i
    <3>1. "ws" \in Columns(db[i].table)
      BY <2>1, ColumnsOf DEF TableOf
    <3> QED
      BY <1>4, <2>1, <3>1
  <2>2. CASE j # i
    BY <1>3, <2>2 DEF TableOf
  <2> QED
    BY <2>1, <2>2
<1>8. Owned(db)
  BY DEF Sound
<1>9. Owned(f)
  BY <1>2, <1>5, <1>6, <1>7, <1>8, OwnedAlike
<1> QED
  BY <1>9, WorkspacesOnly

LEMMA HeldOwned ==
  ASSUME Base, Sound(db), Uses("workspaces"), NEW r \in Requests, NEW i \in DOMAIN db,
         NEW columns, DOMAIN columns \subseteq
           {"rev", "deleted", "role", "active", "status", "provision"},
         "deleted" \in DOMAIN columns => columns.deleted = TRUE,
         "active" \in DOMAIN columns => columns.active = FALSE,
         "role" \in DOMAIN columns /\ db[i].user = db[db[i].ws].owner => columns.role = "owner",
         NEW target, NEW after
  PROVE  LET plan == And(Set(i, columns), New(AuditEntry(target, after)))
         IN Good(r, plan) /\ Held(plan)
<1>1. Editable(columns) /\ {"hashed", "prev"} \cap DOMAIN columns = {}
  BY DEF Editable
<1>2. \A f : Edits(db, i, columns, f) => Groups(f)
  BY OwnedEdit
<1>3. Keeps(Written(And(Set(i, columns), New(AuditEntry(target, after)))))
  BY <1>1, <1>2, KeepsSetAndEntry, WorkspacesOnly
<1>4. Good(r, Set(i, columns))
  BY <1>1, WrittenSetOnly
<1>5. Good(r, And(Set(i, columns), New(AuditEntry(target, after))))
  BY <1>4, GoodAndEntry, WorkspacesOnly DEF Logged
<1> QED
  BY <1>3, <1>5 DEF Held

\* A workspace comes with its owner.
LEMMA OwnWorkspaceKeeps ==
  ASSUME Base, Sound(db), Uses("workspaces"), NEW r \in Requests, NEW slug, NEW u
  PROVE  LET p == OwnWorkspace(slug, u)
         IN Good(r, p) /\ Ready(Written(p))
<1> DEFINE row == Workspace(slug, u)
           member == Membership(made + 1, u, "owner")
           p == New(row)
           q == AndNew(p, member)
           f == Written(q)
           w == made + 1
<1>1. /\ row.table = "workspace" /\ row.owner = u /\ Shaped(row) /\ HasTable(row)
      /\ member.table = "wsmember" /\ member.ws = w /\ member.user = u
      /\ member.role = "owner" /\ Shaped(member) /\ HasTable(member)
  BY WorkspacesOnly, ColumnsOf DEF Workspace, Membership, Shaped, HasTable
<1> HIDE DEF row, member
<1>2. Good(r, p) /\ Adds(db, w, row, Written(p))
  BY <1>1, GoodNew, WrittenNew
<1>3. Good(r, q)
  BY <1>1, <1>2, GoodAndNew
<1> HIDE DEF p
<1>4. PICK e \in Nat : Adds(Written(p), e, member, f)
  BY <1>1, <1>2, WrittenAndNew
<1> HIDE DEF q
<1>5. IsDatabase(f)
  BY <1>3, WrittenIsDatabase
<1>6. made \in Nat /\ w \notin DOMAIN db
  BY DEF Base
<1>7. /\ \A i \in DOMAIN db : i \in DOMAIN f /\ f[i] = db[i]
      /\ w \in DOMAIN f /\ f[w] = row
      /\ e \in DOMAIN f /\ f[e] = member /\ e # w
      /\ \A i \in DOMAIN f : i \in DOMAIN db \cup {w, e}
  BY <1>2, <1>4, <1>6 DEF Adds
<1> HIDE DEF f, w
<1>8. /\ TableOf(f, "workspace") = TableOf(db, "workspace") \cup {w}
      /\ TableOf(f, "wsmember") = TableOf(db, "wsmember") \cup {e}
      /\ TableOf(f, "provider") = TableOf(db, "provider")
      /\ TableOf(f, "login") = TableOf(db, "login")
  BY <1>1, <1>7 DEF TableOf
<1>9. \A t : \A i \in TableOf(db, t) : i \in DOMAIN f /\ f[i] = db[i]
  BY <1>7 DEF TableOf
<1>10. Owned(db)
  BY DEF Sound
<1>11. ASSUME NEW m \in TableOf(f, "wsmember")
       PROVE  /\ f[m].ws \in TableOf(f, "workspace")
              /\ Indexed =>
                   LET x == f[f[m].ws]
                   IN f[m].active /\ ~x.deleted /\ f[m].user = x.owner => f[m].role = "owner"
  <2>1. CASE m = e
    BY <1>1, <1>7, <1>8, <2>1
  <2>2. CASE m \in TableOf(db, "wsmember")
    <3>1. f[m] = db[m] /\ db[m].ws \in TableOf(db, "workspace")
      BY <1>9, <1>10, <2>2 DEF Owned
    <3>2. f[db[m].ws] = db[db[m].ws]
      BY <1>9, <3>1
    <3>3. Indexed => LET x == db[db[m].ws]
                     IN db[m].active /\ ~x.deleted /\ db[m].user = x.owner => db[m].role = "owner"
      BY <1>10, <2>2 DEF Owned
    <3> QED
      BY <1>8, <3>1, <3>2, <3>3
  <2> QED
    BY <1>8, <2>1, <2>2
<1>12. ASSUME NEW x \in TableOf(f, "workspace"), ~f[x].deleted
       PROVE  \E m \in TableOf(f, "wsmember") : f[m].ws = x /\ f[m].user = f[x].owner
  <2>1. CASE x = w
    <3>1. e \in TableOf(f, "wsmember") /\ f[e].ws = x /\ f[e].user = f[x].owner
      BY <1>1, <1>7, <1>8, <2>1
    <3> QED
      BY <3>1
  <2>2. CASE x \in TableOf(db, "workspace")
    <3>1. f[x] = db[x]
      BY <1>9, <2>2
    <3>2. PICK m \in TableOf(db, "wsmember") : db[m].ws = x /\ db[m].user = db[x].owner
      BY <1>10, <1>12, <2>2, <3>1 DEF Owned
    <3>3. m \in TableOf(f, "wsmember") /\ f[m] = db[m]
      BY <1>8, <1>9
    <3> QED
      BY <3>1, <3>2, <3>3
  <2> QED
    BY <1>8, <2>1, <2>2
<1>13. \A i \in TableOf(f, "provider") \cup TableOf(f, "login") :
         f[i].ws \in TableOf(f, "workspace")
  BY <1>8, <1>9, <1>10 DEF Owned
<1>14. Owned(f)
  BY <1>11, <1>12, <1>13 DEF Owned
<1>15. Groups(f)
  BY <1>14, WorkspacesOnly
<1>16. Ready(db) /\ TableOf(f, "audit") = TableOf(db, "audit")
  BY <1>1, <1>7, ReadyDatabase DEF TableOf
<1>17. \A i \in DOMAIN f : Shaped(f[i])
  BY <1>1, <1>7 DEF Sound
<1>18. \A i \in Entries : i \in DOMAIN db
  BY DEF Entries, Rows
<1>19. Ready(f)
  BY <1>5, <1>7, <1>8, <1>15, <1>16, <1>17, <1>18 DEF Ready
<1> QED
  BY <1>3, <1>19 DEF f, q, p, member, row, OwnWorkspace

\* The memberships go with the workspace, and nothing else does.
LEMMA DeletedWorkspaceKeeps ==
  ASSUME Base, Sound(db), Uses("workspaces"), NEW r \in Requests, NEW w \in Rows("workspace"),
         NEW after
  PROVE  LET plan == And(And(Set(w, [deleted |-> TRUE]), Drop(In(w))),
                         New(AuditEntry(w, after)))
         IN Good(r, plan) /\ Held(plan)
<1> DEFINE columns == [deleted |-> TRUE]
           s == Set(w, columns)
           p == And(s, Drop(In(w)))
           row == AuditEntry(w, after)
           plan == And(p, New(row))
<1>1. w \in DOMAIN db /\ w \in 1 .. made /\ In(w) \subseteq 1 .. made
      /\ w \in TableOf(db, "workspace")
  BY RowsAreMade DEF Rows, In, TableOf
<1>2. DOMAIN columns = {"deleted"} /\ columns.deleted = TRUE /\ Editable(columns)
  BY DEF Editable
<1> HIDE DEF columns
<1>3. Good(r, s) /\ Good(r, Drop(In(w)))
  BY <1>1, <1>2, GoodSet, GoodDrop
<1>4. Good(r, p) /\ HasTable(row) /\ Good(r, plan)
  <2>1. Good(r, p)
    BY <1>3, GoodAnd
  <2>2. "audit" \in Tables(scenario.uses)
    BY WorkspacesOnly
  <2> QED
    BY <2>1, <2>2, GoodEntry, GoodAndEntry
<1>5. p.insert = Nothing /\ p.update = s.update /\ p.delete = In(w)
  <2> DEFINE changed == {c \in DOMAIN columns : db[w][c] # columns[c]}
             some == [c \in changed |-> columns[c]]
  <2>1. s = [insert |-> Nothing, update |-> IF changed = {} THEN Nothing ELSE Only(w, some),
             delete |-> {}]
    BY DEF Set, NoPlan
  <2>2. p = [insert |-> Over(s.insert, Nothing), update |-> Over(s.update, Nothing),
             delete |-> s.delete \cup In(w)]
    BY DEF And, Drop, NoPlan
  <2> HIDE DEF changed, some, p, s
  <2>3. Over(Nothing, Nothing) = Nothing
    BY DEF Over, Nothing
  <2>4. Over(Only(w, some), Nothing) = Only(w, some)
    <3>1. DOMAIN Over(Only(w, some), Nothing) = {w} /\ Over(Only(w, some), Nothing)[w] = some
      BY DEF Over, Only, Nothing
    <3>2. Over(Only(w, some), Nothing) = [k \in {w} |-> some]
      BY <3>1 DEF Over
    <3> QED
      BY <3>2 DEF Only
  <2> QED
    BY <2>1, <2>2, <2>3, <2>4
<1>6. In(w) = {m \in TableOf(db, "wsmember") : db[m].ws = w} /\ w \notin In(w)
  BY <1>1 DEF In, Rows, TableOf
<1>7. PICK d : Edits(db, w, columns, d) /\ Removes(d, In(w), Written(p))
  <2> HIDE DEF p, s
  <2>1. \E d : Edits(db, w, columns, d) /\ Removes(d, p.delete, Written(p))
    BY <1>1, <1>2, <1>4, <1>5, <1>6, WrittenSet DEF s
  <2> QED
    BY <1>5, <2>1
<1> HIDE DEF p, s, row
<1>8. Ready(d)
  <2>1. Groups(d)
    BY <1>1, <1>2, <1>7, OwnedEdit
  <2> QED
    BY <1>2, <1>7, <2>1, ReadyDatabase, ReadyEdit
<1>9. \A t : TableOf(d, t) = TableOf(db, t)
  BY <1>1, <1>2, <1>7, EditedRow
<1>10. /\ d[w].deleted = TRUE
       /\ \A m \in TableOf(db, "wsmember") : d[m] = db[m]
  <2>1. \A c \in Columns(db[w].table) :
          d[w][c] = IF c \in DOMAIN columns THEN columns[c] ELSE db[w][c]
    BY <1>1, <1>2, <1>7, EditedRow
  <2>2. d[w].deleted = TRUE
    BY <1>1, <1>2, <2>1, ColumnsOf DEF TableOf
  <2> QED
    BY <1>1, <1>7, <2>2 DEF Edits, TableOf
<1> DEFINE f == Written(p)
<1>11. DOMAIN f = DOMAIN d \ In(w) /\ \A i \in DOMAIN f : f[i] = d[i]
  BY <1>7 DEF Removes
<1>12. \A i \in In(w) : d[i].table = "wsmember"
  BY <1>6, <1>9 DEF TableOf
<1>13. Ready(f)
  <2>1. /\ TableOf(f, "workspace") = TableOf(d, "workspace")
        /\ TableOf(f, "provider") = TableOf(d, "provider")
        /\ TableOf(f, "login") = TableOf(d, "login")
        /\ TableOf(f, "wsmember") = TableOf(d, "wsmember") \ In(w)
        /\ \A t : TableOf(f, t) \subseteq DOMAIN f
    BY <1>11, <1>12 DEF TableOf
  <2>2. Owned(d)
    BY <1>8, WorkspacesOnly DEF Ready
  <2>3. f[w].deleted = TRUE
    BY <1>1, <1>9, <1>10, <1>11, <2>1
  <2>4. \A m \in TableOf(d, "wsmember") : m \in TableOf(f, "wsmember") \/ f[d[m].ws].deleted
    BY <1>6, <1>9, <1>10, <2>1, <2>3
  <2> HIDE DEF f
  <2>5. Owned(f)
    BY <1>11, <2>1, <2>2, <2>4, OwnedAlike
  <2>6. \A i \in In(w) : i \in DOMAIN d => d[i].table \notin {"audit", "workspace"}
    BY <1>12
  <2> QED
    BY <1>7, <1>8, <2>5, <2>6, WorkspacesOnly, ReadyLess DEF f
<1>14. DOMAIN p.insert = {}
  BY <1>5 DEF Nothing
<1>15. Adds(Written(p), made + 1, row, Written(plan))
  BY <1>4, <1>14, WrittenAndOne
<1>16. ~Uses("members")
  BY WorkspacesOnly DEF Logged
<1>17. Keeps(Written(plan))
  BY <1>13, <1>15, <1>16, ReadyEntry DEF row
<1> QED
  BY <1>4, <1>17 DEF Held, p, s, row, columns

\* With the index, who owns a workspace and is no member of it any more cannot
\* be invited.
LEMMA InvitedKeeps ==
  ASSUME Base, Sound(db), Uses("workspaces"), NEW r \in Requests, NEW w \in Rows("workspace"),
         NEW u \in Users, NEW role, NEW after
  PROVE  LET plan == AndEntry(AndNew(EnsureUser(u), Membership(w, u, role)), after)
         IN Good(r, plan) /\ Held(plan)
<1> DEFINE row == Membership(w, u, role)
           p == EnsureUser(u)
           q == AndNew(p, row)
           plan == AndEntry(q, after)
<1>1. /\ row.table = "wsmember" /\ row.ws = w /\ row.user = u
      /\ Shaped(row) /\ HasTable(row)
  BY WorkspacesOnly, ColumnsOf DEF Membership, Shaped, HasTable
<1> HIDE DEF row
<1>2. /\ Good(r, p) /\ Ready(Written(p))
      /\ \A i \in DOMAIN db : i \in DOMAIN Written(p) /\ Written(p)[i] = db[i]
      /\ \A i \in DOMAIN Written(p) \ DOMAIN db :
           Written(p)[i] = [table |-> "user", user |-> u]
  BY ReadyUser, WorkspacesOnly
<1> HIDE DEF p
<1>3. Good(r, q) /\ Good(r, plan)
  BY <1>1, <1>2, GoodAndNew, GoodAndEntry, WorkspacesOnly
<1>4. PICK m \in Nat : Adds(Written(p), m, row, Written(q))
  BY <1>1, <1>2, WrittenAndNew
<1> DEFINE entry == AuditEntry(Max(DOMAIN q.insert), after)
<1>5. HasTable(entry)
  BY GoodEntry, WorkspacesOnly
<1>6. plan = AndNew(q, entry)
  BY DEF AndEntry
<1> HIDE DEF q, entry
<1>7. PICK e \in Nat : Adds(Written(q), e, entry, Written(plan))
  BY <1>3, <1>5, <1>6, WrittenAndNew
<1> DEFINE d == Written(p)
           f == Written(q)
           g == Written(plan)
<1>8. /\ \A i \in DOMAIN db : i < m /\ i \in DOMAIN g /\ g[i] = db[i]
      /\ m \in DOMAIN g /\ g[m] = row
      /\ \A i \in DOMAIN d : i \in DOMAIN f /\ f[i] = d[i]
      /\ DOMAIN f = DOMAIN d \cup {m} /\ f[m] = row
  <2>1. /\ \A i \in DOMAIN d : i < m /\ i \in DOMAIN f /\ f[i] = d[i]
        /\ DOMAIN f = DOMAIN d \cup {m} /\ f[m] = row
    BY <1>4 DEF Adds
  <2>2. \A i \in DOMAIN f : i \in DOMAIN g /\ g[i] = f[i]
    BY <1>7 DEF Adds
  <2> HIDE DEF d, f, g
  <2>3. ASSUME NEW i \in DOMAIN db PROVE i < m /\ i \in DOMAIN g /\ g[i] = db[i]
    <3>1. i \in DOMAIN d /\ d[i] = db[i]
      BY <1>2 DEF d
    <3> QED
      BY <2>1, <2>2, <3>1
  <2> QED
    BY <2>1, <2>2, <2>3
<1>9. w \in Nat /\ w \in DOMAIN d /\ d[w] = db[w] /\ db[w].table = "workspace"
  <2>1. w \in 1 .. made /\ made \in Nat /\ w \in DOMAIN db /\ db[w].table = "workspace"
    BY RowsAreMade DEF Rows, Base
  <2> QED
    BY <1>2, <2>1
<1> HIDE DEF plan
<1>10. ASSUME Indexed, Fits(plan), NEW o \in TableOf(db, "wsmember"), db[o].ws = w, db[o].user = u
       PROVE  FALSE
  <2> DEFINE key == <<"wsmember", {"ws", "user"}>>
  <2>1. key \in UniqueKeys /\ None # w /\ None # u
    BY <1>9, <1>10 DEF Indexed
  <2>2. o \in DOMAIN db /\ db[o].table = "wsmember"
    BY DEF TableOf
  <2>3. o < m /\ o \in DOMAIN g /\ g[o] = db[o] /\ m \in DOMAIN g /\ g[m] = row
    BY <1>8, <2>2
  <2> HIDE DEF g
  <2>4. key[1] = "wsmember" /\ key[2] = {"ws", "user"}
    OBVIOUS
  <2>5. o \in {i \in DOMAIN g : g[i].table = key[1]} /\ m \in {i \in DOMAIN g : g[i].table = key[1]}
    BY <1>1, <2>2, <2>3, <2>4
  <2>6. \A c \in key[2] : g[o][c] = g[m][c] /\ g[o][c] # None
    BY <1>1, <1>10, <2>1, <2>3, <2>4
  <2> HIDE DEF key
  <2>7. Violates(g)
    BY <2>1, <2>3, <2>5, <2>6 DEF Violates
  <2> QED
    BY <1>10, <2>7 DEF Fits, g
<1>11. ASSUME Fits(plan) PROVE Keeps(g)
  <2>1. Owned(d) /\ Owned(db)
    BY <1>2, WorkspacesOnly DEF Ready, Sound
  <2>2. ASSUME Indexed PROVE d[w].deleted \/ u # d[w].owner
    <3>1. w \in TableOf(db, "workspace")
      BY DEF Rows, TableOf
    <3> QED
      BY <1>9, <1>10, <1>11, <2>1, <2>2, <3>1 DEF Owned
  <2>3. \A i \in DOMAIN f \ DOMAIN d : i = m /\ f[i] = row
    BY <1>8
  <2>4. w \in TableOf(d, "workspace")
    BY <1>9 DEF TableOf
  <2> HIDE DEF d, f, g
  <2>5. Owned(f)
    BY <1>1, <1>8, <2>1, <2>2, <2>3, <2>4, OwnedGrows
  <2>6. Ready(f)
    BY <1>1, <1>2, <1>4, <2>5, WorkspacesOnly, ReadyMore DEF d, f
  <2> QED
    BY <1>3, <1>6, <2>6, KeepsAndEntry, WorkspacesOnly DEF f, g, entry
<1> QED
  BY <1>3, <1>11 DEF Held, plan, q, p, row

\* Every row is there, with all values but the marks of used logins.
Alike(f) ==
  \A i \in DOMAIN db :
    /\ i \in DOMAIN f /\ DOMAIN db[i] \subseteq DOMAIN f[i]
    /\ \A c \in DOMAIN db[i] \ {"consumed"} : f[i][c] = db[i][c]

LEMMA LoginsAreHarmless ==
  ASSUME Base, Sound(db), Uses("workspaces"), NEW r \in Requests, NEW p, Good(r, p),
         Harmless(p)
  PROVE  Ready(Written(p)) /\ Alike(Written(p))
<1> DEFINE f == Written(p)
<1>1. /\ p.delete = {}
      /\ \A i \in DOMAIN p.update : DOMAIN p.update[i] \subseteq {"consumed"}
      /\ \A i \in DOMAIN p.insert :
           /\ Shaped(p.insert[i])
           /\ p.insert[i].table = "login" /\ p.insert[i].ws \in Rows("workspace")
  <2>1. ~Uses("objects")
    BY DEF Uses
  <2> QED
    BY <2>1 DEF Harmless
<1>2. /\ DOMAIN f = DOMAIN db \cup DOMAIN p.insert
      /\ \A i \in DOMAIN p.insert : f[i] = p.insert[i]
  BY <1>1, WrittenIs
<1>3. ASSUME NEW i \in DOMAIN db
      PROVE  /\ DOMAIN db[i] \subseteq DOMAIN f[i]
             /\ \A c \in DOMAIN db[i] \ {"consumed"} : f[i][c] = db[i][c]
  <2>1. f[i] = IF i \in DOMAIN p.update THEN Over(p.update[i], db[i]) ELSE db[i]
    BY <1>1, WrittenKept
  <2> HIDE DEF f
  <2>2. CASE i \in DOMAIN p.update
    <3>1. f[i] = Over(p.update[i], db[i]) /\ DOMAIN p.update[i] \subseteq {"consumed"}
      BY <1>1, <2>1, <2>2
    <3>2. DOMAIN f[i] = DOMAIN p.update[i] \cup DOMAIN db[i]
          /\ \A c \in DOMAIN db[i] \ DOMAIN p.update[i] : f[i][c] = db[i][c]
      BY <3>1 DEF Over
    <3> QED
      BY <3>1, <3>2
  <2>3. CASE i \notin DOMAIN p.update
    BY <2>1, <2>3
  <2> QED
    BY <2>2, <2>3
<1>4. IsDatabase(f)
  BY WrittenIsDatabase
<1> HIDE DEF f
<1>5. Alike(f)
  BY <1>2, <1>3 DEF Alike
<1>6. \A i \in DOMAIN db : Columns(db[i].table) \subseteq DOMAIN db[i] /\ "table" \in DOMAIN db[i]
  BY HasTableColumn DEF Sound, Shaped
<1>7. \A i \in DOMAIN db : f[i].table = db[i].table
  BY <1>3, <1>6
<1>8. \A i \in DOMAIN f : Shaped(f[i])
  BY <1>1, <1>2, <1>3, <1>6, <1>7 DEF Shaped
<1>9. /\ \A t : t # "login" => TableOf(f, t) = TableOf(db, t)
      /\ \A i \in TableOf(f, "login") : i \in TableOf(db, "login") \/ i \in DOMAIN p.insert
  BY <1>1, <1>2, <1>7 DEF TableOf
<1>10. \A t : \A i \in TableOf(db, t) : i \in DOMAIN db /\ db[i].table = t
  BY DEF TableOf
<1>11. ASSUME NEW w \in TableOf(db, "workspace")
       PROVE  f[w].owner = db[w].owner /\ f[w].deleted = db[w].deleted
  <2>1. w \in DOMAIN db /\ {"owner", "deleted"} \subseteq DOMAIN db[w]
    BY <1>6, <1>10, ColumnsOf
  <2> QED
    BY <1>3, <2>1
<1>12. ASSUME NEW m \in TableOf(db, "wsmember")
       PROVE  /\ f[m].ws = db[m].ws /\ f[m].user = db[m].user
              /\ f[m].active = db[m].active /\ f[m].role = db[m].role
  <2>1. m \in DOMAIN db /\ {"ws", "user", "role", "active"} \subseteq DOMAIN db[m]
    BY <1>6, <1>10, ColumnsOf
  <2> QED
    BY <1>3, <2>1
<1>13. ASSUME NEW i \in TableOf(db, "provider") \cup TableOf(db, "login")
       PROVE  f[i].ws = db[i].ws
  <2>1. i \in DOMAIN db /\ "ws" \in DOMAIN db[i]
    BY <1>6, <1>10, ColumnsOf
  <2> QED
    BY <1>3, <2>1
<1>14. Owned(f)
  <2>1. Owned(db)
    BY DEF Sound
  <2>2. \A i \in TableOf(f, "wsmember") \cup TableOf(f, "provider") \cup TableOf(f, "login") :
          f[i].ws \in TableOf(f, "workspace")
    <3> SUFFICES ASSUME NEW i \in TableOf(f, "wsmember") \cup TableOf(f, "provider")
                                    \cup TableOf(f, "login")
                 PROVE  f[i].ws \in TableOf(db, "workspace")
      BY <1>9
    <3>1. CASE i \in DOMAIN p.insert
      BY <1>1, <1>2, <3>1 DEF Rows, TableOf
    <3>2. CASE i \in TableOf(db, "wsmember") \cup TableOf(db, "provider") \cup TableOf(db, "login")
      BY <1>12, <1>13, <2>1, <3>2 DEF Owned
    <3> QED
      BY <1>9, <3>1, <3>2
  <2>3. ASSUME Indexed, NEW m \in TableOf(f, "wsmember"), f[m].active, ~f[f[m].ws].deleted,
               f[m].user = f[f[m].ws].owner
        PROVE  f[m].role = "owner"
    <3>1. m \in TableOf(db, "wsmember") /\ db[m].ws \in TableOf(db, "workspace")
      BY <1>9, <2>1 DEF Owned
    <3>2. db[m].active /\ ~db[db[m].ws].deleted /\ db[m].user = db[db[m].ws].owner
          /\ f[m].role = db[m].role
      BY <1>11, <1>12, <2>3, <3>1
    <3> QED
      BY <2>1, <2>3, <3>1, <3>2 DEF Owned
  <2>4. ASSUME NEW w \in TableOf(f, "workspace"), ~f[w].deleted
        PROVE  \E m \in TableOf(f, "wsmember") : f[m].ws = w /\ f[m].user = f[w].owner
    <3>1. w \in TableOf(db, "workspace") /\ ~db[w].deleted /\ f[w].owner = db[w].owner
      BY <1>9, <1>11, <2>4
    <3>2. PICK m \in TableOf(db, "wsmember") : db[m].ws = w /\ db[m].user = db[w].owner
      BY <2>1, <3>1 DEF Owned
    <3>3. m \in TableOf(f, "wsmember") /\ f[m].ws = db[m].ws /\ f[m].user = db[m].user
      BY <1>9, <1>12
    <3> QED
      BY <3>1, <3>2, <3>3
  <2> QED
    BY <2>2, <2>3, <2>4 DEF Owned
<1>15. Ready(db) /\ TableOf(db, "audit") = Entries
  BY ReadyDatabase DEF Ready
<1>16. ASSUME NEW e \in Entries PROVE f[e].hashed = db[e].hashed /\ f[e].prev = db[e].prev
  <2>1. e \in DOMAIN db /\ {"hashed", "prev"} \subseteq DOMAIN db[e]
    BY <1>6, <1>10, <1>15, ColumnsOf
  <2> QED
    BY <1>3, <2>1
<1>17. Ready(f)
  BY <1>4, <1>8, <1>9, <1>14, <1>15, <1>16, WorkspacesOnly DEF Ready, Rows, TableOf
<1> QED
  BY <1>5, <1>17 DEF f

\* Where no chain is claimed, neither does another entry harm.
LEMMA EntriesAreHarmless ==
  ASSUME Base, Sound(db), Uses("objects"), NEW r \in Requests, NEW p, Good(r, p),
         Harmless(p)
  PROVE  Keeps(Written(p))
<1> DEFINE f == Written(p)
<1>1. /\ p.delete = {} /\ DOMAIN p.update = {} /\ ~Chained
      /\ \A i \in DOMAIN p.insert : Shaped(p.insert[i]) /\ p.insert[i].table = "audit"
  <2>1. ~Uses("workspaces")
    BY DEF Uses
  <2> QED
    BY <2>1 DEF Harmless
<1>2. /\ DOMAIN f = DOMAIN db \cup DOMAIN p.insert
      /\ \A i \in DOMAIN p.insert : f[i] = p.insert[i]
      /\ DOMAIN db \cap DOMAIN p.insert = {}
      /\ \A i \in DOMAIN db : f[i] = db[i]
  BY <1>1, WrittenIs, ZenonT(60)
<1> HIDE DEF f
<1>3. Grows(db, f)
  BY <1>1, <1>2 DEF Grows, Ruled
<1>4. Groups(f)
  BY <1>3, PlainRows DEF Sound, Groups
<1>5. \A i \in DOMAIN f : Shaped(f[i])
  BY <1>1, <1>2 DEF Sound
<1>6. TableOf(db, "workspace") \subseteq TableOf(f, "workspace") /\ ~Uses("members")
  BY <1>2 DEF TableOf, Uses
<1> QED
  BY <1>1, <1>4, <1>5, <1>6 DEF Keeps, Sound, Groups, f

LEMMA HarmlessKeeps ==
  ASSUME Base, Sound(db), NEW r \in Requests, NEW p, Good(r, p), Harmless(p)
  PROVE  Keeps(Written(p))
<1>1. CASE Uses("workspaces")
  <2>1. Ready(Written(p)) /\ ~Uses("members")
    BY <1>1, LoginsAreHarmless, WorkspacesOnly DEF Logged
  <2> QED
    BY <2>1, ReadyKeeps
<1>2. CASE Uses("objects")
  BY <1>2, EntriesAreHarmless
<1> QED
  BY <1>1, <1>2 DEF Harmless

LEMMA CallbackUser ==
  ASSUME Base, Sound(db), Uses("workspaces"), NEW r \in Requests, NEW p, Good(r, p),
         Harmless(p), DOMAIN p.insert = {}, NEW u
  PROVE  LET q == And(p, EnsureUser(u))
         IN Good(r, q) /\ Ready(Written(q)) /\ Alike(Written(q))
<1> DEFINE row == [table |-> "user", user |-> u]
           q == And(p, EnsureUser(u))
<1>1. HasTable(row) /\ Shaped(row) /\ row.table \notin Ruled \cup {"audit"}
  BY WorkspacesOnly, ColumnsOf DEF HasTable, Shaped, Ruled
<1> HIDE DEF row
<1>2. Good(r, q)
  BY GoodUser, GoodAnd, WorkspacesOnly
<1>3. CASE EnsureUser(u) = NoPlan
  <2>1. q = [insert |-> Over(p.insert, Nothing), update |-> Over(p.update, Nothing),
             delete |-> p.delete \cup {}]
    BY <1>3 DEF And, NoPlan
  <2> HIDE DEF q
  <2>2. q.insert = Over(p.insert, Nothing) /\ q.update = Over(p.update, Nothing)
        /\ q.delete = p.delete
    BY <2>1
  <2>3. DOMAIN q.insert = {}
    BY <2>2 DEF Over, Nothing
  <2>4. DOMAIN q.update = DOMAIN p.update /\ \A i \in DOMAIN p.update : q.update[i] = p.update[i]
    BY <2>2 DEF Over, Nothing
  <2>5. ~Uses("objects")
    BY DEF Uses
  <2>6. Harmless(q)
    BY <2>2, <2>3, <2>4, <2>5 DEF Harmless
  <2>7. Ready(Written(q)) /\ Alike(Written(q))
    BY <1>2, <2>6, LoginsAreHarmless
  <2> QED
    BY <1>2, <2>7 DEF q
<1>4. CASE EnsureUser(u) = New(row)
  <2>1. Ready(Written(p)) /\ Alike(Written(p))
    BY LoginsAreHarmless
  <2>2. Adds(Written(p), made + 1, row, Written(And(p, New(row))))
    BY <1>1, WrittenAndOne
  <2>3. Ready(Written(And(p, New(row))))
    BY <1>1, <2>1, <2>2, ReadyPlain
  <2>4. Alike(Written(And(p, New(row))))
    BY <2>1, <2>2 DEF Alike, Adds
  <2> QED
    BY <1>2, <1>4, <2>3, <2>4
<1> QED
  BY <1>3, <1>4 DEF EnsureUser, row

\* Who owns the workspace has been a member of it before.
LEMMA CallbackMember ==
  ASSUME Base, Sound(db), Uses("workspaces"), NEW r \in Requests, NEW p, Good(r, p),
         Ready(Written(p)), Alike(Written(p)), NEW w \in Rows("workspace"), NEW u,
         {m \in In(w) : db[m].user = u} = {}
  PROVE  LET q == AndNew(p, Membership(w, u, "member"))
         IN Good(r, q) /\ Ready(Written(q))
<1> DEFINE row == Membership(w, u, "member")
           q == AndNew(p, row)
           d == Written(p)
           f == Written(q)
<1>1. /\ row.table = "wsmember" /\ row.ws = w /\ row.user = u
      /\ Shaped(row) /\ HasTable(row)
  BY WorkspacesOnly, ColumnsOf DEF Membership, Shaped, HasTable
<1> HIDE DEF row
<1>2. Good(r, q)
  BY <1>1, GoodAndNew
<1>3. PICK e \in Nat : Adds(d, e, row, f)
  BY <1>1, WrittenAndNew
<1>4. Owned(d) /\ Owned(db) /\ w \in TableOf(d, "workspace") /\ w \in TableOf(db, "workspace")
  <2>1. Rows("workspace") = TableOf(db, "workspace")
    BY DEF Rows, TableOf
  <2> QED
    BY <2>1, WorkspacesOnly DEF Ready, Sound
<1> HIDE DEF q
<1>5. d[w].deleted \/ u # d[w].owner
  <2>1. db[w].deleted \/ u # db[w].owner
    <3>1. \A m \in TableOf(db, "wsmember") : db[m].ws = w => db[m].user # u
      BY DEF In, Rows, TableOf
    <3> QED
      BY <1>4, <3>1 DEF Owned
  <2>2. d[w].deleted = db[w].deleted /\ d[w].owner = db[w].owner
    <3>1. w \in DOMAIN db /\ {"owner", "deleted"} \subseteq DOMAIN db[w]
      BY <1>4, ColumnsOf DEF Sound, Shaped, TableOf
    <3> QED
      BY <3>1 DEF Alike
  <2> QED
    BY <2>1, <2>2
<1>6. /\ \A i \in DOMAIN d : i \in DOMAIN f /\ f[i] = d[i]
      /\ \A i \in DOMAIN f \ DOMAIN d : f[i] = row
  BY <1>3 DEF Adds
<1> HIDE DEF d, f
<1>7. Owned(f)
  BY <1>1, <1>4, <1>5, <1>6, OwnedGrows
<1>8. Ready(f)
  BY <1>1, <1>3, <1>7, WorkspacesOnly, ReadyMore DEF d
<1> QED
  BY <1>2, <1>8 DEF f, q, row

LEMMA CallbackKeeps ==
  ASSUME Base, Sound(db), Uses("workspaces"), NEW r \in Requests, AtCallback(r),
         CallbackProvisions(r)
  PROVE  /\ writer = r
         /\ \E plan : Continue(r, plan, Done) /\ Good(r, plan) /\ Keeps(Written(plan))
<1> DEFINE job == session[r].job
           p == session[r].plan
<1>1. job[1] = "provision" /\ Harmless(p) /\ DOMAIN p.insert = {}
  BY DEF CallbackProvisions, AtCallback
<1>2. PICK w, u, may :
        w \in Rows("workspace")
        /\ (job = <<"callback", w, u, may>> \/ (job = <<"provision", w, u, may>> /\ writer = r))
  BY DEF AtCallback
<1>3. job # <<"callback", w, u, may>>
  BY <1>1
<1>4. writer = r /\ job[2] = w /\ job[3] = u
  BY <1>2, <1>3
<1> DEFINE user == And(p, EnsureUser(u))
           member == IF {m \in In(w) : db[m].user = u} = {}
                     THEN AndNew(user, Membership(w, u, "member")) ELSE user
<1>5. \/ Continue(r, p, Done)
      \/ Continue(r, AndNew(p, AuditEntry(None, "rejected")), Done)
      \/ Continue(r, AndNew(member, AuditEntry(None, "login")), Done)
  BY <1>4 DEF CallbackProvisions
<1>6. Good(r, p)
  BY DEF Base
<1> HIDE DEF p
<1>7. Ready(Written(p)) /\ Keeps(Written(p))
  BY <1>1, <1>6, LoginsAreHarmless, HarmlessKeeps
<1>8. Good(r, user) /\ Ready(Written(user)) /\ Alike(Written(user))
  BY <1>1, <1>6, CallbackUser
<1> HIDE DEF user
<1>9. Good(r, member) /\ Ready(Written(member))
  <2>1. CASE {m \in In(w) : db[m].user = u} = {}
    <3>1. Good(r, AndNew(user, Membership(w, u, "member")))
          /\ Ready(Written(AndNew(user, Membership(w, u, "member"))))
      BY <1>2, <1>8, <2>1, CallbackMember
    <3> QED
      BY <2>1, <3>1
  <2>2. CASE {m \in In(w) : db[m].user = u} # {}
    BY <1>8, <2>2
  <2> QED
    BY <2>1, <2>2
<1> HIDE DEF member
<1>10. \A q, target, after :
         Good(r, q) /\ Ready(Written(q)) =>
           /\ Good(r, AndNew(q, AuditEntry(target, after)))
           /\ Keeps(Written(AndNew(q, AuditEntry(target, after))))
  BY WorkspacesOnly, KeepsAndEntry, GoodAndEntry
<1> QED
  BY <1>4, <1>5, <1>6, <1>7, <1>9, <1>10

\* A request of another group holds the lock; the two of a login do not.
WorkspaceOpens(r) ==
  \/ \E plan : BeginLocked(r, plan, Done) /\ Good(r, plan) /\ Held(plan)
  \/ \E plan : Begin(r, plan, Done) /\ Good(r, plan) /\ Harmless(plan)
  \/ \E plan, w, u, may :
       /\ Begin(r, plan, <<"callback", w, u, may>>)
       /\ Good(r, plan) /\ Harmless(plan) /\ DOMAIN plan.insert = {}
       /\ w \in Rows("workspace")

LEMMA SsoOpens ==
  ASSUME Base, Sound(db), Uses("workspaces"), NEW r \in Requests, SsoLogin(r) \/ SsoCallback(r)
  PROVE  WorkspaceOpens(r)
<1>1. Owned(db) /\ \A t : Rows(t) = TableOf(db, t)
  BY DEF Sound, Rows, TableOf
<1>2. CASE SsoLogin(r)
  <2>1. PICK p \in Rows("provider") :
          Begin(r, New([table |-> "login", provider |-> p, ws |-> db[p].ws,
                        consumed |-> FALSE]), Done)
    BY <1>2 DEF SsoLogin
  <2> DEFINE row == [table |-> "login", provider |-> p, ws |-> db[p].ws, consumed |-> FALSE]
             plan == New(row)
  <2>2. row.table = "login" /\ row.ws \in Rows("workspace") /\ Shaped(row) /\ HasTable(row)
    BY <1>1, WorkspacesOnly, ColumnsOf DEF Owned, Shaped, HasTable
  <2> HIDE DEF row
  <2>3. Good(r, plan)
    BY <2>2, GoodNew
  <2>4. plan.delete = {} /\ plan.update = Nothing
        /\ \A i \in DOMAIN plan.insert : plan.insert[i] = row
    BY DEF New, NoPlan, Only
  <2> HIDE DEF plan
  <2>5. Harmless(plan)
    BY <2>2, <2>4 DEF Harmless, Nothing
  <2>6. Begin(r, plan, Done)
    BY <2>1 DEF plan, row
  <2> QED
    BY <2>3, <2>5, <2>6 DEF WorkspaceOpens
<1>3. CASE SsoCallback(r)
  <2> DEFINE columns == [consumed |-> TRUE]
  <2>1. PICK l \in Rows("login"), u \in Users :
          Begin(r, Set(l, columns),
                <<"callback", db[l].ws, u, db[db[l].provider].provision>>)
    BY <1>3 DEF SsoCallback
  <2> DEFINE plan == Set(l, columns)
             changed == {c \in DOMAIN columns : db[l][c] # columns[c]}
             some == [c \in changed |-> columns[c]]
  <2>2. DOMAIN columns = {"consumed"}
    OBVIOUS
  <2> HIDE DEF columns
  <2>3. Good(r, plan)
    <3>1. l \in 1 .. made /\ Editable(columns)
      BY <2>2, RowsAreMade DEF Editable
    <3> QED
      BY <3>1, GoodSet
  <2>4. plan = [insert |-> Nothing, update |-> IF changed = {} THEN Nothing ELSE Only(l, some),
                delete |-> {}]
    BY DEF Set, NoPlan
  <2>5. DOMAIN some \subseteq {"consumed"}
    BY <2>2
  <2> HIDE DEF changed, some, plan
  <2>6. /\ plan.delete = {} /\ DOMAIN plan.insert = {}
        /\ \A i \in DOMAIN plan.update : DOMAIN plan.update[i] \subseteq {"consumed"}
    BY <2>4, <2>5 DEF Only, Nothing
  <2>7. Harmless(plan)
    BY <2>6 DEF Harmless
  <2>8. db[l].ws \in Rows("workspace")
    BY <1>1 DEF Owned
  <2>9. Begin(r, plan, <<"callback", db[l].ws, u, db[db[l].provider].provision>>)
    BY <2>1 DEF plan
  <2> QED
    BY <2>3, <2>6, <2>7, <2>8, <2>9 DEF WorkspaceOpens
<1> QED
  BY <1>2, <1>3

LEMMA ProviderOpens ==
  ASSUME Base, Sound(db), Uses("workspaces"), NEW r \in Requests,
         CreateProvider(r) \/ UpdateProvider(r) \/ DeleteProvider(r) \/ TestProvider(r)
  PROVE  WorkspaceOpens(r)
<1>1. Owned(db) /\ \A t : Rows(t) = TableOf(db, t)
  BY DEF Sound, Rows, TableOf
<1>2. CASE CreateProvider(r)
  <2>1. PICK w \in Rows("workspace") :
          BeginLocked(r, AndEntry(New(Provider(w)), "create"), Done)
    BY <1>2 DEF CreateProvider
  <2> DEFINE row == Provider(w)
             plan == AndEntry(New(row), "create")
  <2>2. row.table = "provider" /\ row.ws = w /\ Shaped(row) /\ HasTable(row)
    BY WorkspacesOnly, ColumnsOf DEF Provider, Shaped, HasTable
  <2> HIDE DEF row
  <2>3. ASSUME NEW f, Adds(db, made + 1, row, f) PROVE Groups(f)
    <3>1. /\ \A i \in DOMAIN db : i \in DOMAIN f /\ f[i] = db[i]
          /\ \A i \in DOMAIN f \ DOMAIN db : f[i] = row
      BY <2>3 DEF Adds
    <3>2. Owned(f)
      BY <1>1, <2>2, <3>1, OwnedGrows
    <3> QED
      BY <3>2, WorkspacesOnly
  <2>4. Keeps(Written(plan))
    BY <2>2, <2>3, KeepsNewAndEntry, WorkspacesOnly
  <2>5. Good(r, plan)
    BY <2>2, GoodNew, GoodAndEntry, WorkspacesOnly
  <2>6. BeginLocked(r, plan, Done)
    BY <2>1 DEF row
  <2> HIDE DEF plan
  <2> QED
    BY <2>4, <2>5, <2>6 DEF WorkspaceOpens, Held
<1>3. CASE UpdateProvider(r)
  <2>1. PICK p, status, provision :
          /\ p \in Rows("provider")
          /\ BeginLocked(r, And(Set(p, [status |-> status, provision |-> provision]),
                                New(AuditEntry(p, "update"))), Done)
    BY <1>3 DEF UpdateProvider
  <2> DEFINE columns == [status |-> status, provision |-> provision]
             plan == And(Set(p, columns), New(AuditEntry(p, "update")))
  <2>2. DOMAIN columns = {"status", "provision"} /\ p \in DOMAIN db
    BY <2>1 DEF Rows
  <2>3. BeginLocked(r, plan, Done)
    BY <2>1
  <2> HIDE DEF columns
  <2>4. Good(r, plan) /\ Held(plan)
    BY <2>2, HeldOwned
  <2> HIDE DEF plan
  <2> QED
    BY <2>3, <2>4 DEF WorkspaceOpens
<1>4. CASE DeleteProvider(r)
  <2>1. PICK p \in Rows("provider") :
          BeginLocked(r, And(Drop({p} \cup {l \in Rows("login") : db[l].provider = p}),
                             New(AuditEntry(p, "delete"))), Done)
    BY <1>4 DEF DeleteProvider
  <2> DEFINE ids == {p} \cup {l \in Rows("login") : db[l].provider = p}
             d == Written(Drop(ids))
             row == AuditEntry(p, "delete")
             plan == And(Drop(ids), New(row))
  <2>2. ids \subseteq 1 .. made /\ \A i \in ids : db[i].table \in {"provider", "login"}
    <3>1. \A i \in ids : i \in Rows("provider") \/ i \in Rows("login")
      OBVIOUS
    <3> HIDE DEF ids
    <3> QED
      BY <3>1, RowsAreMade DEF Rows
  <2>3. BeginLocked(r, plan, Done)
    BY <2>1
  <2> HIDE DEF ids
  <2>4. Removes(db, ids, d) /\ Good(r, Drop(ids))
    BY <2>2, WrittenDrop, GoodDrop
  <2>5. HasTable(row) /\ Good(r, plan)
    BY <2>4, WorkspacesOnly, GoodEntry, GoodAndEntry
  <2>6. DOMAIN Drop(ids).insert = {}
    BY DEF Drop, NoPlan, Nothing
  <2> HIDE DEF row
  <2>7. Adds(d, made + 1, row, Written(plan))
    BY <2>4, <2>5, <2>6, WrittenAndOne
  <2> HIDE DEF d
  <2>8. DOMAIN d = DOMAIN db \ ids /\ \A i \in DOMAIN d : d[i] = db[i]
    BY <2>4 DEF Removes
  <2>9. /\ TableOf(d, "workspace") = TableOf(db, "workspace")
        /\ TableOf(d, "wsmember") = TableOf(db, "wsmember")
        /\ TableOf(d, "provider") \subseteq TableOf(db, "provider")
        /\ TableOf(d, "login") \subseteq TableOf(db, "login")
        /\ \A t : TableOf(d, t) \subseteq DOMAIN d
    BY <2>2, <2>8 DEF TableOf
  <2>10. Owned(d)
    BY <1>1, <2>8, <2>9, OwnedAlike
  <2>11. Ready(d)
    <3>1. \A i \in ids : i \in DOMAIN db => db[i].table \notin {"audit", "workspace"}
      BY <2>2
    <3> QED
      BY <2>4, <2>10, <3>1, WorkspacesOnly, ReadyDatabase, ReadyLess
  <2>12. Keeps(Written(plan))
    BY <2>7, <2>11, WorkspacesOnly, ReadyEntry DEF row, Logged
  <2> HIDE DEF plan
  <2> QED
    BY <2>3, <2>5, <2>12 DEF WorkspaceOpens, Held
<1>5. CASE TestProvider(r)
  <2>1. BeginLocked(r, NoPlan, Done)
    BY <1>5 DEF TestProvider
  <2>2. Good(r, NoPlan) /\ Keeps(Written(NoPlan))
    BY GoodNothing, KeepsNothing, WorkspacesOnly
  <2> QED
    BY <2>1, <2>2 DEF WorkspaceOpens, Held
<1> QED
  BY <1>2, <1>3, <1>4, <1>5

LEMMA MembershipOpens ==
  ASSUME Base, Sound(db), Uses("workspaces"), NEW r \in Requests,
         InviteWorkspaceMember(r) \/ ChangeMemberRole(r) \/ RemoveWorkspaceMember(r)
  PROVE  WorkspaceOpens(r)
<1>1. \A w, u : \A m \in ActiveMember(w, u) :
        m \in DOMAIN db /\ db[m].user = u /\ db[m].ws = w
  BY DEF ActiveMember, In, Rows
<1>2. CASE InviteWorkspaceMember(r)
  <2>1. PICK w \in Rows("workspace"), u \in Users, role \in WorkspaceRoles :
          BeginLocked(r, AndEntry(AndNew(EnsureUser(u), Membership(w, u, role)), "create"), Done)
    BY <1>2 DEF InviteWorkspaceMember
  <2> DEFINE plan == AndEntry(AndNew(EnsureUser(u), Membership(w, u, role)), "create")
  <2>2. Good(r, plan) /\ Held(plan)
    BY InvitedKeeps
  <2> HIDE DEF plan
  <2> QED
    BY <2>1, <2>2 DEF WorkspaceOpens, plan
<1>3. CASE ChangeMemberRole(r)
  <2>1. PICK w, u, role, m :
          /\ u = db[w].owner => role = "owner"
          /\ m \in ActiveMember(w, u)
          /\ BeginLocked(r, And(Set(m, [role |-> role]), New(AuditEntry(m, "update"))), Done)
    BY <1>3 DEF ChangeMemberRole
  <2> DEFINE columns == [role |-> role]
             plan == And(Set(m, columns), New(AuditEntry(m, "update")))
  <2>2. DOMAIN columns = {"role"} /\ columns.role = role
    OBVIOUS
  <2>3. m \in DOMAIN db /\ (db[m].user = db[db[m].ws].owner => role = "owner")
    BY <1>1, <2>1
  <2>4. BeginLocked(r, plan, Done)
    BY <2>1
  <2> HIDE DEF columns
  <2>5. Good(r, plan) /\ Held(plan)
    BY <2>2, <2>3, HeldOwned
  <2> HIDE DEF plan
  <2> QED
    BY <2>4, <2>5 DEF WorkspaceOpens
<1>4. CASE RemoveWorkspaceMember(r)
  <2>1. PICK w, u, m :
          /\ m \in ActiveMember(w, u)
          /\ BeginLocked(r, And(Set(m, [active |-> FALSE]), New(AuditEntry(m, "delete"))), Done)
    BY <1>4 DEF RemoveWorkspaceMember
  <2> DEFINE columns == [active |-> FALSE]
             plan == And(Set(m, columns), New(AuditEntry(m, "delete")))
  <2>2. DOMAIN columns = {"active"} /\ columns.active = FALSE /\ m \in DOMAIN db
    BY <1>1, <2>1
  <2>3. BeginLocked(r, plan, Done)
    BY <2>1
  <2> HIDE DEF columns
  <2>4. Good(r, plan) /\ Held(plan)
    BY <2>2, HeldOwned
  <2> HIDE DEF plan
  <2> QED
    BY <2>3, <2>4 DEF WorkspaceOpens
<1> QED
  BY <1>2, <1>3, <1>4

LEMMA WorkspaceRequestKeeps ==
  ASSUME Base, Sound(db), Uses("workspaces"), NEW r \in Requests, WorkspaceRequest(r)
  PROVE  WorkspaceOpens(r)
<1>1. CASE CreateWorkspace(r)
  <2>1. PICK slug, u, target :
          BeginLocked(r, AndNew(OwnWorkspace(slug, u), AuditEntry(target, "create")), Done)
    BY <1>1 DEF CreateWorkspace
  <2> DEFINE plan == AndNew(OwnWorkspace(slug, u), AuditEntry(target, "create"))
  <2>2. Good(r, OwnWorkspace(slug, u)) /\ Ready(Written(OwnWorkspace(slug, u)))
    BY OwnWorkspaceKeeps
  <2>3. Good(r, plan) /\ Keeps(Written(plan))
    BY <2>2, WorkspacesOnly, GoodAndEntry, KeepsAndEntry
  <2> HIDE DEF plan
  <2> QED
    BY <2>1, <2>3 DEF WorkspaceOpens, Held, plan
<1>2. CASE ListMyWorkspaces(r)
  <2>1. PICK slug, u : BeginLocked(r, OwnWorkspace(slug, u), Done)
    BY <1>2 DEF ListMyWorkspaces
  <2> DEFINE plan == OwnWorkspace(slug, u)
  <2>2. Good(r, plan) /\ Ready(Written(plan))
    BY OwnWorkspaceKeeps
  <2>3. Keeps(Written(plan))
    BY <2>2, WorkspacesOnly, ReadyKeeps DEF Logged
  <2> HIDE DEF plan
  <2> QED
    BY <2>1, <2>2, <2>3 DEF WorkspaceOpens, Held, plan
<1>3. CASE UpdateWorkspace(r)
  <2>1. PICK w, rev :
          /\ w \in Rows("workspace")
          /\ BeginLocked(r, And(Set(w, [rev |-> rev]), New(AuditEntry(w, "update"))), Done)
    BY <1>3 DEF UpdateWorkspace
  <2> DEFINE columns == [rev |-> rev]
             plan == And(Set(w, columns), New(AuditEntry(w, "update")))
  <2>2. DOMAIN columns = {"rev"} /\ w \in DOMAIN db
    BY <2>1 DEF Rows
  <2>3. BeginLocked(r, plan, Done)
    BY <2>1
  <2> HIDE DEF columns
  <2>4. Good(r, plan) /\ Held(plan)
    BY <2>2, HeldOwned
  <2> HIDE DEF plan
  <2> QED
    BY <2>3, <2>4 DEF WorkspaceOpens
<1>4. CASE DeleteWorkspace(r)
  <2>1. PICK w \in Rows("workspace") :
          BeginLocked(r, And(And(Set(w, [deleted |-> TRUE]), Drop(In(w))),
                             New(AuditEntry(w, "delete"))), Done)
    BY <1>4 DEF DeleteWorkspace
  <2> DEFINE plan == And(And(Set(w, [deleted |-> TRUE]), Drop(In(w))),
                         New(AuditEntry(w, "delete")))
  <2>2. Good(r, plan) /\ Held(plan)
    BY DeletedWorkspaceKeeps
  <2> HIDE DEF plan
  <2> QED
    BY <2>1, <2>2 DEF WorkspaceOpens, plan
<1> QED
  BY <1>1, <1>2, <1>3, <1>4, SsoOpens, ProviderOpens, MembershipOpens DEF WorkspaceRequest

-----------------------------------------------------------------------------
(* Steps of the sessions.                                                  *)

LEMMA SoundSame ==
  ASSUME NEW d, d = db', scenario' = scenario, Sound(d)
  PROVE  Sound(db)'
<1>1. Chained' = Chained /\ \A group : Uses(group)' = Uses(group)
  BY DEF Chained, Uses, overlap
<1>2. (\A i \in DOMAIN db : Shaped(db[i]))'
  BY DEF Sound, Shaped
<1>3. Chained => Chain(db)'
  BY DEF Sound, Chain, TableOf, Rising, CreatedAt
<1>4. Uses("members") => MembersMatch(db)'
  BY DEF Sound, MembersMatch, TableOf
<1>5. Uses("objects") => EndsExist(db)'
  BY DEF Sound, EndsExist, TableOf
<1>6. Uses("workspaces") => Owned(db)'
  BY DEF Sound, Owned, TableOf, Indexed
<1>7. Uses("connectors") => ColumnsAgree(db)'
  BY DEF Sound, ColumnsAgree, TableOf
<1> QED
  BY <1>1, <1>2, <1>3, <1>4, <1>5, <1>6, <1>7 DEF Sound

\* As long as nobody commits, plans are as good as before.
LEMMA PlansSame ==
  ASSUME db' = db, scenario' = scenario, NEW p
  PROVE  /\ Sound(db) => Sound(db)'
         /\ Held(p) => Held(p)'
         /\ Harmless(p) => Harmless(p)'
<1>1. Sound(db) => Sound(db)'
  BY SoundSame
<1>2. Harmless(p) => Harmless(p)'
  BY DEF Harmless, Uses, Chained, overlap, Rows, Shaped
<1>3. ASSUME Held(p) PROVE Held(p)'
  <2>1. Written(p)' = Written(p)
    BY DEF Written
  <2>2. Fits(p)' => Fits(p)
    BY <2>1 DEF Fits, Stale, Violates
  <2>3. ASSUME Keeps(Written(p)) PROVE Keeps(Written(p))'
    <3>1. Chained' = Chained /\ \A group : Uses(group)' = Uses(group)
      BY DEF Chained, Uses, overlap
    <3> DEFINE f == Written(p)
    <3>2. f' = f
      BY <2>1
    <3>3. Sound(f) /\ TableOf(db, "workspace") \subseteq TableOf(f, "workspace")
      BY <2>3 DEF Keeps
    <3> HIDE DEF f
    <3>4. Sound(f)'
      <4>1. (\A i \in DOMAIN f : Shaped(f[i]))'
        BY <3>2, <3>3 DEF Sound, Shaped, Columns
      <4>2. Chained => Chain(f)'
        BY <3>2, <3>3 DEF Sound, Chain, TableOf, Rising, CreatedAt
      <4>3. Uses("members") => MembersMatch(f)'
        BY <3>2, <3>3 DEF Sound, MembersMatch, TableOf
      <4>4. Uses("objects") => EndsExist(f)'
        BY <3>2, <3>3 DEF Sound, EndsExist, TableOf
      <4>5. Uses("workspaces") => Owned(f)'
        BY <3>2, <3>3 DEF Sound, Owned, TableOf, Indexed
      <4>6. Uses("connectors") => ColumnsAgree(f)'
        BY <3>2, <3>3 DEF Sound, ColumnsAgree, TableOf
      <4> QED
        BY <3>1, <4>1, <4>2, <4>3, <4>4, <4>5, <4>6 DEF Sound
    <3>5. TableOf(db, "workspace")' \subseteq TableOf(f, "workspace")'
      BY <3>2, <3>3 DEF TableOf
    <3> QED
      BY <3>4, <3>5 DEF Keeps, f
  <2> QED
    BY <1>3, <2>2, <2>3 DEF Held
<1> QED
  BY <1>1, <1>2, <1>3

\* A harmless plan is so for as long as there are workspaces for its logins.
LEMMA HarmlessLasts ==
  ASSUME NEW p, Harmless(p), scenario' = scenario,
         Rows("workspace") \subseteq Rows("workspace")'
  PROVE  Harmless(p)'
<1>1. Chained' = Chained /\ \A group : Uses(group)' = Uses(group)
  BY DEF Chained, Uses, overlap
<1> QED
  BY <1>1 DEF Harmless, Shaped, Columns

\* A request that does nothing, while nobody commits.
LEMMA OrderlyStays ==
  ASSUME db' = db, scenario' = scenario, NEW q \in Requests, Orderly(q),
         session'[q] = session[q], writer = q => writer' = q
  PROVE  Orderly(q)'
<1> SUFFICES ASSUME session[q].open
             PROVE  (/\ (Exclusive(q) /\ Held(session[q].plan)) \/ Harmless(session[q].plan)
                     /\ Uses("members") => session[q].job = Done
                     /\ Uses("workspaces") => session[q].job = Done \/ AtCallback(q))'
  BY DEF Orderly
<1> DEFINE p == session[q].plan
<1>1. /\ (Exclusive(q) /\ Held(p)) \/ Harmless(p)
      /\ Uses("members") => session[q].job = Done
      /\ Uses("workspaces") => session[q].job = Done \/ AtCallback(q)
  BY DEF Orderly
<1>2. session'[q].plan = p /\ session'[q].job = session[q].job
  OBVIOUS
<1>3. Exclusive(q) => Exclusive(q)'
  BY DEF Exclusive, overlap
<1>4. Held(p) => Held(session[q].plan)'
  BY <1>2, PlansSame
<1>5. Harmless(p) => Harmless(session[q].plan)'
  BY <1>2, PlansSame
<1>6. AtCallback(q) => AtCallback(q)'
  <2> SUFFICES ASSUME AtCallback(q) PROVE AtCallback(q)'
    OBVIOUS
  <2>1. Harmless(session[q].plan)' /\ DOMAIN session'[q].plan.insert = {}
    BY <1>5 DEF AtCallback
  <2>2. (\E w \in Rows("workspace") : \E u, may :
           \/ session[q].job = <<"callback", w, u, may>>
           \/ session[q].job = <<"provision", w, u, may>> /\ writer = q)'
    BY DEF AtCallback, Rows
  <2> QED
    BY <2>1, <2>2 DEF AtCallback
<1>7. \A group : Uses(group)' = Uses(group)
  BY DEF Uses
<1> QED
  BY <1>1, <1>2, <1>3, <1>4, <1>5, <1>6, <1>7

\* A request that does nothing, while another one commits.
LEMMA OrderlyAfterCommit ==
  ASSUME Base, Consistent, scenario' = scenario, NEW r \in Requests, session[r].open,
         NEW q \in Requests \ {r}, session'[q] = session[q], writer \in {None, r},
         Rows("workspace") \subseteq Rows("workspace")'
  PROVE  Orderly(q)'
<1> SUFFICES ASSUME session[q].open
             PROVE  Orderly(q)'
  BY DEF Orderly
<1>1. overlap /\ Orderly(q) /\ writer # q
  BY NoneIsNoRequest DEF Consistent
<1>2. ~Exclusive(q)
  BY <1>1 DEF Exclusive
<1> DEFINE p == session[q].plan
<1>3. /\ Harmless(p)
      /\ Uses("members") => session[q].job = Done
      /\ Uses("workspaces") => session[q].job = Done \/ AtCallback(q)
  BY <1>1, <1>2 DEF Orderly
<1>4. session'[q].plan = p /\ session'[q].job = session[q].job
      /\ \A group : Uses(group)' = Uses(group)
  BY DEF Uses
<1>5. Harmless(session[q].plan)'
  BY <1>3, <1>4, HarmlessLasts
<1>6. AtCallback(q) => AtCallback(q)'
  <2> SUFFICES ASSUME AtCallback(q) PROVE AtCallback(q)'
    OBVIOUS
  <2>1. PICK w, u, may : w \in Rows("workspace") /\ session[q].job = <<"callback", w, u, may>>
    BY <1>1 DEF AtCallback
  <2>2. w \in Rows("workspace")'
    BY <2>1
  <2>3. DOMAIN session'[q].plan.insert = {}
    BY DEF AtCallback
  <2> QED
    BY <1>4, <1>5, <2>1, <2>2, <2>3 DEF AtCallback
<1> QED
  BY <1>3, <1>4, <1>5, <1>6 DEF Orderly

LEMMA OneMoves ==
  ASSUME Consistent, Sound(db)', scenario' = scenario, NEW r \in Requests,
         \A q \in Requests \ {r} : session'[q] = session[q],
         \A q \in Requests : Orderly(q)',
         session'[r].open =>
           session[r].open \/ overlap \/ \A q \in Requests : ~session[q].open
  PROVE  Consistent'
<1>1. overlap' = overlap
  BY DEF overlap
<1>2. ASSUME ~overlap, NEW p \in Requests, NEW q \in Requests,
             session'[p].open, session'[q].open
      PROVE  p = q
  BY <1>2 DEF Consistent
<1> QED
  BY <1>1, <1>2 DEF Consistent

LEMMA OpenConsistent ==
  ASSUME Base, Consistent, NEW r \in Requests, NEW plan, NEW job, NEW lock,
         Open(r, plan, job, lock), lock = writer \/ (writer = None /\ lock = r),
         (lock = r /\ Held(plan)) \/ Harmless(plan),
         Uses("members") => job = Done,
         Uses("workspaces") =>
           \/ job = Done
           \/ /\ Harmless(plan) /\ DOMAIN plan.insert = {}
              /\ \E w \in Rows("workspace") : \E u, may : job = <<"callback", w, u, may>>
  PROVE  Consistent'
<1>1. /\ session'[r] = [open |-> TRUE, plan |-> plan, job |-> job]
      /\ \A q \in Requests \ {r} : session'[q] = session[q]
      /\ writer' = lock /\ db' = db /\ scenario' = scenario
  BY OpenedAs
<1>2. session'[r].plan = plan /\ session'[r].job = job
  BY <1>1
<1>3. overlap \/ \A q \in Requests : ~session[q].open
  BY DEF Open, CanOpen
<1>4. \A q \in Requests \ {r} : Orderly(q)'
  <2> SUFFICES ASSUME NEW q \in Requests \ {r} PROVE Orderly(q)'
    OBVIOUS
  <2>1. writer = q => writer' = q
    BY <1>1, NoneIsNoRequest
  <2> QED
    BY <1>1, <2>1, OrderlyStays DEF Consistent
<1>5. \A group : Uses(group)' = Uses(group)
  BY <1>1 DEF Uses
<1>6. Held(plan) => Held(session[r].plan)'
  BY <1>1, <1>2, PlansSame
<1>7. Harmless(plan) => Harmless(session[r].plan)'
  BY <1>1, <1>2, PlansSame
<1>8. Orderly(r)'
  <2>1. ((Exclusive(r) /\ Held(session[r].plan)) \/ Harmless(session[r].plan))'
    BY <1>1, <1>6, <1>7 DEF Exclusive
  <2>2. (Uses("workspaces") => session[r].job = Done \/ AtCallback(r))'
    <3> SUFFICES ASSUME Uses("workspaces"), job # Done PROVE AtCallback(r)'
      BY <1>2, <1>5
    <3>1. Harmless(plan) /\ DOMAIN plan.insert = {}
      OBVIOUS
    <3>2. (\E w \in Rows("workspace") : \E u, may : session[r].job = <<"callback", w, u, may>>)'
      BY <1>1, <1>2 DEF Rows
    <3> QED
      BY <1>2, <1>7, <3>1, <3>2 DEF AtCallback
  <2>3. (Uses("members") => session[r].job = Done)'
    BY <1>2, <1>5
  <2> QED
    BY <2>1, <2>2, <2>3 DEF Orderly
<1>9. Sound(db)'
  BY <1>1, PlansSame DEF Consistent
<1> QED
  BY <1>1, <1>3, <1>4, <1>8, <1>9, OneMoves

\* The database after a commit.
LEMMA CommitIsSound ==
  ASSUME Base, Consistent, NEW r \in Requests, session[r].open,
         Fits(session[r].plan), db' = Written(session[r].plan), scenario' = scenario
  PROVE  Sound(db)' /\ Rows("workspace") \subseteq Rows("workspace")'
<1> DEFINE p == session[r].plan
           d == Written(p)
<1>1. Good(r, p)
  BY DEF Base
<1>2. Orderly(r) /\ Sound(db)
  BY DEF Consistent
<1>3. Keeps(d)
  <2>1. CASE Harmless(p)
    BY <1>1, <1>2, <2>1, HarmlessKeeps
  <2>2. CASE Held(p)
    BY <2>2 DEF Held
  <2> QED
    BY <1>2, <2>1, <2>2 DEF Orderly
<1>4. Sound(d) /\ TableOf(db, "workspace") \subseteq TableOf(d, "workspace") /\ db' = d
  BY <1>3 DEF Keeps
<1> HIDE DEF d
<1>5. Sound(db)'
  BY <1>4, SoundSame
<1>6. Rows("workspace") \subseteq Rows("workspace")'
  BY <1>4 DEF Rows, TableOf
<1> QED
  BY <1>5, <1>6

LEMMA CommitConsistent ==
  ASSUME Base, Consistent, NEW r \in Requests, Commit(r)
  PROVE  Consistent'
<1>1. /\ session[r].open /\ writer \in {None, r}
      /\ Fits(session[r].plan) /\ db' = Written(session[r].plan) /\ scenario' = scenario
      /\ session' = [session EXCEPT ![r] = Closed]
  BY DEF Commit, Writable
<1>2. session'[r] = Closed /\ \A q \in Requests \ {r} : session'[q] = session[q]
  BY <1>1 DEF Base
<1>3. Sound(db)' /\ Rows("workspace") \subseteq Rows("workspace")'
  BY <1>1, CommitIsSound
<1>4. \A q \in Requests \ {r} : Orderly(q)'
  BY <1>1, <1>2, <1>3, OrderlyAfterCommit
<1>5. Orderly(r)' /\ ~session'[r].open
  BY <1>2 DEF Orderly, Closed
<1> QED
  BY <1>1, <1>2, <1>3, <1>4, <1>5, OneMoves

LEMMA RollbackConsistent ==
  ASSUME Base, Consistent, NEW r \in Requests, Rollback(r)
  PROVE  Consistent'
<1>1. /\ db' = db /\ scenario' = scenario
      /\ session' = [session EXCEPT ![r] = Closed]
      /\ writer' = IF writer = r THEN None ELSE writer
  BY DEF Rollback
<1>2. session'[r] = Closed /\ \A q \in Requests \ {r} : session'[q] = session[q]
  BY <1>1 DEF Base
<1>3. \A q \in Requests \ {r} : Orderly(q)'
  <2> SUFFICES ASSUME NEW q \in Requests \ {r} PROVE Orderly(q)'
    OBVIOUS
  <2>1. writer = q => writer' = q
    BY <1>1
  <2> QED
    BY <1>1, <1>2, <2>1, OrderlyStays DEF Consistent
<1>4. Orderly(r)' /\ ~session'[r].open
  BY <1>2 DEF Orderly, Closed
<1>5. Sound(db)'
  BY <1>1, PlansSame DEF Consistent
<1> QED
  BY <1>1, <1>2, <1>3, <1>4, <1>5, OneMoves

LEMMA StopConsistent ==
  ASSUME Consistent, Stop
  PROVE  Consistent'
<1>1. db' = db /\ scenario' = scenario /\ \A r \in Requests : session'[r] = Closed
  BY DEF Stop
<1>2. Sound(db)'
  BY <1>1, PlansSame DEF Consistent
<1>3. \A r \in Requests : Orderly(r)' /\ ~session'[r].open
  BY <1>1 DEF Orderly, Closed
<1> QED
  BY <1>2, <1>3 DEF Consistent

LEMMA IdleConsistent ==
  ASSUME Consistent, UNCHANGED dbVars
  PROVE  Consistent'
<1>1. db' = db /\ scenario' = scenario /\ session' = session /\ writer' = writer
  BY DEF dbVars
<1>2. Sound(db)'
  BY <1>1, PlansSame DEF Consistent
<1>3. \A r \in Requests : Orderly(r)'
  BY <1>1, OrderlyStays DEF Consistent
<1>4. overlap' = overlap
  BY <1>1 DEF overlap
<1> QED
  BY <1>1, <1>2, <1>3, <1>4 DEF Consistent

\* A callback, or the entry of an object, in the same transaction.
LEMMA ContinueConsistent ==
  ASSUME Base, Consistent, NEW r \in Requests, session[r].open, NEW plan,
         Continue(r, plan, Done), (Exclusive(r) /\ Held(plan)) \/ Harmless(plan)
  PROVE  Consistent'
<1>1. /\ session'[r] = [open |-> TRUE, plan |-> plan, job |-> Done]
      /\ \A q \in Requests \ {r} : session'[q] = session[q]
  BY ContinuedAs
<1>2. session'[r].plan = plan /\ session'[r].job = Done
      /\ db' = db /\ scenario' = scenario /\ writer' = writer
  BY <1>1 DEF Continue
<1>3. \A q \in Requests \ {r} : Orderly(q)'
  BY <1>1, <1>2, OrderlyStays DEF Consistent
<1>4. Held(plan) => Held(session[r].plan)'
  BY <1>2, PlansSame
<1>5. Harmless(plan) => Harmless(session[r].plan)'
  BY <1>2, PlansSame
<1>6. Exclusive(r) => Exclusive(r)'
  BY <1>2 DEF Exclusive, overlap
<1>7. Orderly(r)'
  BY <1>2, <1>4, <1>5, <1>6 DEF Orderly
<1>8. Sound(db)'
  BY <1>2, PlansSame DEF Consistent
<1> QED
  BY <1>1, <1>2, <1>3, <1>7, <1>8, OneMoves

\* The job of an SSO callback goes from one part to the next.
LEMMA FlushConsistent ==
  ASSUME Base, Consistent, Uses("workspaces"), NEW r \in Requests, session[r].open,
         CallbackFlushes(r)
  PROVE  Consistent'
<1> DEFINE job == session[r].job
           next == [job EXCEPT ![1] = "provision"]
<1>1. job[1] = "callback" /\ Flush(r, next)
  BY DEF CallbackFlushes
<1>2. job # Done
  BY <1>1 DEF Done
<1>3. AtCallback(r)
  BY <1>2 DEF Consistent, Orderly
<1>4. PICK w, u, may :
        /\ w \in Rows("workspace")
        /\ job = <<"callback", w, u, may>> \/ job = <<"provision", w, u, may>>
  BY <1>3 DEF AtCallback
<1> HIDE DEF job
<1>5. job # <<"provision", w, u, may>>
  BY <1>1
<1>6. next = <<"provision", w, u, may>>
  BY <1>4, <1>5
<1> HIDE DEF next
<1>7. writer \in {None, r}
  BY <1>1 DEF Flush, Writable
<1>8. /\ db' = db /\ scenario' = scenario /\ writer' = r
      /\ session'[r] = [open |-> TRUE, plan |-> session[r].plan, job |-> next]
      /\ \A q \in Requests \ {r} : session'[q] = session[q]
  BY <1>1, FlushKeeps
<1>9. session'[r].plan = session[r].plan /\ session'[r].job = next
  BY <1>8
<1>10. Harmless(session[r].plan) /\ DOMAIN session[r].plan.insert = {}
  BY <1>3 DEF AtCallback
<1>11. Harmless(session[r].plan)'
  BY <1>8, <1>9, <1>10, PlansSame
<1>12. ~Uses("members")' /\ Uses("workspaces")'
  BY <1>8 DEF Uses
<1>13. AtCallback(r)'
  <2>1. (\E x \in Rows("workspace") : \E y, z :
           session[r].job = <<"provision", x, y, z>> /\ writer = r)'
    BY <1>4, <1>6, <1>8, <1>9 DEF Rows
  <2>2. DOMAIN session'[r].plan.insert = {}
    BY <1>9, <1>10
  <2> QED
    BY <1>11, <2>1, <2>2 DEF AtCallback
<1>14. Orderly(r)'
  BY <1>11, <1>12, <1>13 DEF Orderly
<1>15. \A q \in Requests \ {r} : Orderly(q)'
  <2> SUFFICES ASSUME NEW q \in Requests \ {r} PROVE Orderly(q)'
    OBVIOUS
  <2>1. writer = q => writer' = q
    BY <1>7, NoneIsNoRequest
  <2> QED
    BY <1>8, <2>1, OrderlyStays DEF Consistent
<1>16. Sound(db)'
  BY <1>8, PlansSame DEF Consistent
<1> QED
  BY <1>8, <1>14, <1>15, <1>16, OneMoves

\* With nothing to write, a database is sound afterwards if it was before.
NothingIsHeld == \A q \in Requests : Held(NoPlan)

LEMMA NothingHolds == Base /\ Sound(db) /\ Logged => NothingIsHeld
BY KeepsNothing DEF NothingIsHeld, Held

\* After its first commit, a handler of objects starts anew.
LEMMA GoOnConsistent ==
  ASSUME Base, Consistent, Uses("objects"), NEW r \in Requests, session[r].open, NEW job,
         CommitAndGoOn(r, job)
  PROVE  Consistent'
<1>1. /\ Base' /\ scenario' = scenario /\ db' = Written(session[r].plan)
      /\ writer \in {None, r}
      /\ session'[r] = [open |-> TRUE, plan |-> NoPlan, job |-> job]
      /\ \A q \in Requests \ {r} : session'[q] = session[q]
  BY CommitAndGoOnKeeps
<1>2. session'[r].plan = NoPlan
  BY <1>1
<1>3. Fits(session[r].plan)
  BY DEF CommitAndGoOn
<1>4. Sound(db)' /\ Rows("workspace") \subseteq Rows("workspace")'
  BY <1>1, <1>3, CommitIsSound
<1>5. \A q \in Requests \ {r} : Orderly(q)'
  BY <1>1, <1>4, OrderlyAfterCommit
<1>6. Uses("objects")' /\ ~Uses("members")' /\ ~Uses("workspaces")' /\ Logged'
  BY <1>1, ObjectTables DEF Uses, Logged, Tables
<1>7. CASE Chained
  <2>1. ~overlap
    BY <1>7 DEF Chained, Uses
  <2>2. (Base /\ Sound(db) /\ Logged => NothingIsHeld)'
    BY NothingHolds, PTL
  <2>3. Held(session[r].plan)'
    BY <1>1, <1>2, <1>4, <1>6, <2>2 DEF NothingIsHeld
  <2>4. Exclusive(r)'
    BY <1>1, <2>1 DEF Exclusive, overlap
  <2>5. Orderly(r)'
    BY <1>6, <2>3, <2>4 DEF Orderly
  <2> QED
    BY <1>1, <1>4, <1>5, <2>5, OneMoves
<1>8. CASE ~Chained
  <2>1. ~Chained'
    BY <1>1, <1>8 DEF Chained, overlap
  <2>2. Harmless(NoPlan)'
    BY <1>6, <2>1 DEF Harmless, NoPlan, Nothing
  <2>3. Harmless(session[r].plan)'
    BY <1>2, <2>2
  <2>4. Orderly(r)'
    BY <1>6, <2>3 DEF Orderly
  <2> QED
    BY <1>1, <1>4, <1>5, <2>4, OneMoves
<1> QED
  BY <1>7, <1>8

\* The entry that an object handler writes in its second transaction.
LEMMA RecordConsistent ==
  ASSUME Base, Consistent, Uses("objects"), NEW r \in Requests, session[r].open,
         RecordAudit(r)
  PROVE  Consistent'
<1>1. PICK target, after : Continue(r, New(AuditEntry(target, after)), Done)
  BY DEF RecordAudit
<1> DEFINE row == AuditEntry(target, after)
           plan == New(row)
<1>2. CASE Chained
  <2>1. Exclusive(r)
    BY <1>2 DEF Chained, Uses, Exclusive
  <2>2. Keeps(Written(plan))
    BY ObjectsOnly, KeepsEntry DEF Consistent
  <2> HIDE DEF plan
  <2>3. Held(plan)
    BY <2>2 DEF Held
  <2> QED
    BY <1>1, <2>1, <2>3, ContinueConsistent DEF plan
<1>3. CASE ~Chained
  <2>1. row.table = "audit" /\ Shaped(row)
    BY ColumnsOf DEF AuditEntry, Shaped
  <2> HIDE DEF row
  <2>2. plan = [insert |-> Only(made + 1, row), update |-> Nothing, delete |-> {}]
    BY DEF New, NoPlan
  <2> HIDE DEF plan
  <2>3. Harmless(plan)
    BY <1>3, <2>1, <2>2 DEF Harmless, Only, Nothing
  <2> QED
    BY <1>1, <2>3, ContinueConsistent DEF plan, row
<1> QED
  BY <1>2, <1>3

-----------------------------------------------------------------------------
(* Every behaviour.                                                        *)

LEMMA RequestConsistent ==
  ASSUME Base, Covered, Consistent, NEW r \in Requests, Request(r)
  PROVE  Consistent'
<1>1. Sound(db)
  BY DEF Consistent
<1>2. ASSUME NEW plan, NEW job, BeginLocked(r, plan, job), Held(plan),
             ~Uses("objects") => job = Done
      PROVE  Consistent'
  <2>1. writer = None /\ Open(r, plan, job, r)
    BY <1>2 DEF BeginLocked
  <2>2. Uses("objects") => ~Uses("members") /\ ~Uses("workspaces")
    BY DEF Uses
  <2>3. Uses("members") => job = Done
    BY <1>2, <2>2
  <2>4. Uses("workspaces") => job = Done
    BY <1>2, <2>2
  <2> QED
    BY <1>2, <2>1, <2>3, <2>4, OpenConsistent
<1>3. CASE Uses("members") /\ MemberRequest(r)
  <2>1. PICK plan : BeginLocked(r, plan, Done) /\ Keeps(Written(plan))
    BY <1>1, <1>3, MemberRequestKeeps
  <2> QED
    BY <1>2, <2>1 DEF Held
<1>4. CASE Uses("objects") /\ ObjectRequest(r)
  <2>1. PICK plan, job : BeginLocked(r, plan, job) /\ Keeps(Written(plan))
    BY <1>1, <1>4, ObjectRequestKeeps
  <2> QED
    BY <1>2, <1>4, <2>1 DEF Held
<1>5. CASE Uses("connectors") /\ ConnectorRequest(r)
  <2>1. PICK plan : BeginLocked(r, plan, Done) /\ Keeps(Written(plan))
    BY <1>1, <1>5, ConnectorRequestKeeps
  <2> QED
    BY <1>2, <2>1 DEF Held
<1>6. CASE Uses("workspaces") /\ WorkspaceRequest(r)
  <2>1. WorkspaceOpens(r)
    BY <1>1, <1>6, WorkspaceRequestKeeps
  <2>2. CASE \E plan : BeginLocked(r, plan, Done) /\ Good(r, plan) /\ Held(plan)
    BY <1>2, <2>2
  <2>3. CASE \E plan : Begin(r, plan, Done) /\ Good(r, plan) /\ Harmless(plan)
    <3>1. PICK plan : Open(r, plan, Done, writer) /\ Harmless(plan)
      BY <2>3 DEF Begin
    <3> QED
      BY <3>1, OpenConsistent
  <2>4. CASE \E plan, w, u, may :
               /\ Begin(r, plan, <<"callback", w, u, may>>)
               /\ Good(r, plan) /\ Harmless(plan) /\ DOMAIN plan.insert = {}
               /\ w \in Rows("workspace")
    <3>1. PICK plan, w, u, may :
            /\ Open(r, plan, <<"callback", w, u, may>>, writer)
            /\ Harmless(plan) /\ DOMAIN plan.insert = {} /\ w \in Rows("workspace")
      BY <2>4 DEF Begin
    <3>2. ~Uses("members")
      BY <1>6 DEF Uses
    <3> DEFINE job == <<"callback", w, u, may>>
    <3>3. \E x \in Rows("workspace") : \E y, z : job = <<"callback", x, y, z>>
      BY <3>1
    <3>4. Open(r, plan, job, writer)
      BY <3>1
    <3> HIDE DEF job
    <3> QED
      BY <3>1, <3>2, <3>3, <3>4, OpenConsistent
  <2> QED
    BY <2>1, <2>2, <2>3, <2>4 DEF WorkspaceOpens
<1>7. ~Uses("content") /\ ~Uses("versions") /\ ~Uses("evidence")
  BY DEF Covered, Uses
<1> QED
  BY <1>3, <1>4, <1>5, <1>6, <1>7 DEF Request

LEMMA StepConsistent ==
  ASSUME Base, Covered, Consistent, NEW r \in Requests, session[r].open, Step(r)
  PROVE  Consistent'
<1>1. Sound(db) /\ Orderly(r)
  BY DEF Consistent
<1>2. CASE Uses("members") /\ AuditStep(r)
  <2>1. session[r].job = Done
    BY <1>1, <1>2 DEF Orderly
  <2>2. session[r].job[1] = "commit"
    BY <2>1 DEF Done
  <2> QED
    BY <1>2, <2>2 DEF AuditStep, CommitThenAudit, RecordAudit
<1>3. CASE Uses("objects") /\ AuditStep(r)
  <2>1. CASE CommitThenAudit(r)
    <3>1. PICK job : CommitAndGoOn(r, job)
      BY <2>1 DEF CommitThenAudit
    <3> QED
      BY <1>3, <3>1, GoOnConsistent
  <2>2. CASE RecordAudit(r)
    BY <1>3, <2>2, RecordConsistent
  <2> QED
    BY <1>3, <2>1, <2>2 DEF AuditStep
<1>4. CASE Uses("workspaces") /\ WorkspaceStep(r)
  <2>1. CASE CallbackFlushes(r)
    BY <1>4, <2>1, FlushConsistent
  <2>2. CASE CallbackProvisions(r)
    <3>1. session[r].job[1] = "provision"
      BY <2>2 DEF CallbackProvisions
    <3>2. AtCallback(r)
      BY <1>1, <1>4, <3>1 DEF Orderly, Done
    <3>3. /\ writer = r
          /\ \E plan : Continue(r, plan, Done) /\ Good(r, plan) /\ Keeps(Written(plan))
      BY <1>1, <1>4, <2>2, <3>2, CallbackKeeps
    <3>4. PICK plan : Continue(r, plan, Done) /\ Keeps(Written(plan))
      BY <3>3
    <3>5. Exclusive(r) /\ Held(plan)
      BY <3>3, <3>4 DEF Exclusive, Held
    <3> QED
      BY <3>4, <3>5, ContinueConsistent
  <2> QED
    BY <1>4, <2>1, <2>2 DEF WorkspaceStep
<1>5. ~Uses("content") /\ ~Uses("versions") /\ ~Uses("evidence")
  BY DEF Covered, Uses
<1> QED
  BY <1>2, <1>3, <1>4, <1>5 DEF Step

LEMMA ConsistentStep ==
  ASSUME Base, Covered, Consistent, [Next]_vars
  PROVE  Consistent'
<1>1. DispatchStep => UNCHANGED dbVars
  BY DEF DispatchStep, DispatchReads, DispatchRecords, DispatchFails, Deliver
<1>2. ~Uses("releases")
  BY DEF Covered, Uses
<1>3. CASE \E r \in Requests : Request(r)
  BY <1>3, RequestConsistent
<1>4. CASE \E r \in Requests : session[r].open /\ Step(r)
  BY <1>4, StepConsistent
<1>5. CASE \E r \in Requests : Commit(r)
  BY <1>5, CommitConsistent
<1>6. CASE \E r \in Requests : Rollback(r)
  BY <1>6, RollbackConsistent
<1>7. CASE Stop
  BY <1>7, StopConsistent
<1>8. CASE UNCHANGED dbVars
  BY <1>8, IdleConsistent
<1> QED
  BY <1>1, <1>2, <1>3, <1>4, <1>5, <1>6, <1>7, <1>8 DEF Next, ServerStops, vars

-----------------------------------------------------------------------------
(* The theorems.                                                           *)

Consistency == Base /\ Deciding /\ (Covered => Consistent)

LEMMA ConsistencyInit ==
  Init /\ Sound(db) => Consistency
<1> SUFFICES ASSUME Init, Sound(db) PROVE Consistency
  OBVIOUS
<1>1. Base /\ Deciding
  BY BaseInit
<1>2. \A r \in Requests : ~session[r].open
  BY DEF Init, InitDatabase, Closed
<1>3. Consistent
  BY <1>2 DEF Consistent, Orderly
<1> QED
  BY <1>1, <1>3 DEF Consistency

LEMMA ConsistencyStep ==
  Consistency /\ [Next]_vars => Consistency'
<1> SUFFICES ASSUME Consistency, [Next]_vars PROVE Consistency'
  OBVIOUS
<1>1. Base' /\ Deciding' /\ scenario' = scenario
  BY BaseStep, DecidingStep DEF Consistency
<1>2. Covered' <=> Covered
  BY <1>1 DEF Covered
<1>3. Covered => Consistent'
  BY ConsistentStep DEF Consistency
<1> QED
  BY <1>1, <1>2, <1>3 DEF Consistency

\* From a sound database on, the database stays sound: every open request has it
\* to itself since before it read and would leave it sound, or harms nothing.
THEOREM StaysConsistent == Spec /\ Sound(db) => []Consistency
BY ConsistencyInit, ConsistencyStep, PTL DEF Spec

\* Only the endpoints of a group write its tables.
LEMMA RowsOfTheGroup ==
  ASSUME Base
  PROVE  /\ Rows("member") # {} => Uses("members")
         /\ Rows("link") # {} => Uses("objects")
         /\ Rows("wsmember") # {} => Uses("workspaces")
         /\ Rows("connector") # {} => Uses("connectors")
<1>1. \A i \in DOMAIN db : db[i].table \in Tables(scenario.uses)
  BY DEF Base, HasTable
<1>2. Uses("content") \/ Uses("versions") => Tables(scenario.uses) = Content \cup {"ontology", "version"}
  BY OntologyTables
<1>3. Uses("releases") =>
        Tables(scenario.uses) = {"release", "report", "deployment", "bundle", "webhook"}
  BY ReleaseTables
<1>4. /\ Uses("members") => Tables(scenario.uses) = {"user", "member", "audit"}
      /\ Uses("objects") => Tables(scenario.uses) = {"object", "link", "audit"}
  BY MemberTables, ObjectTables
<1>5. Uses("workspaces") =>
        Tables(scenario.uses) =
          {"user", "workspace", "wsmember", "provider", "login", "audit"}
  BY WorkspaceTables
<1>6. Uses("evidence") =>
        Tables(scenario.uses) =
          {"source", "evidence", "profiling", "proposal", "decision", "audit"}
  BY EvidenceTables
<1>7. Uses("connectors") =>
        Tables(scenario.uses) = {"connector", "source", "evidence", "audit"}
  BY ConnectorTables
<1>8. \/ Uses("content") \/ Uses("versions") \/ Uses("releases") \/ Uses("members")
      \/ Uses("objects") \/ Uses("workspaces") \/ Uses("evidence") \/ Uses("connectors")
      \/ Tables(scenario.uses) = {}
  BY DEF Uses, Tables
<1> QED
  BY <1>1, <1>2, <1>3, <1>4, <1>5, <1>6, <1>7, <1>8 DEF Rows, Content, Uses

\* What a sound database says of the rows of each group.
LEMMA SoundRows ==
  ASSUME Consistency
  PROVE  /\ ChainVerifies
         /\ MembersMatchAudit
         /\ LinkEndsExist
         /\ ConnectorColumnsAgree
         /\ Indexed => OwnersKeepTheirRole
<1>1. /\ Rows("member") # {} => Uses("members")
      /\ Rows("link") # {} => Uses("objects")
      /\ Rows("wsmember") # {} => Uses("workspaces")
      /\ Rows("connector") # {} => Uses("connectors")
  BY RowsOfTheGroup DEF Consistency
<1>2. Covered => Sound(db)
  BY DEF Consistency, Consistent
<1>3. \A table : Rows(table) = TableOf(db, table)
  BY DEF Rows, TableOf
<1>4. ChainVerifies
  <2>1. SUFFICES ASSUME Chained, InTime PROVE ChainIsIntact
    BY DEF ChainVerifies
  <2>2. Covered
    BY <2>1 DEF Chained, Covered
  <2>3. Chain(db)
    BY <1>2, <2>1, <2>2 DEF Sound
  <2>4. Rising(Entries) /\ TableOf(db, "audit") = Entries
    BY <1>3, <2>1 DEF InTime, Rising, Entries
  <2>5. PICK n \in Nat : Entries \subseteq 0 .. n
    BY DEF Consistency, Base, Entries, Rows
  <2>6. SUFFICES ASSUME NEW e \in Entries
                 PROVE  LET before == {f \in Entries : CreatedAt(f) < CreatedAt(e)}
                        IN /\ db[e].hashed
                           /\ db[e].prev = IF before = {} THEN None ELSE Newest(before)
    BY DEF ChainIsIntact
  <2> DEFINE before == {f \in Entries : f < e}
  <2>7. before = {f \in Entries : CreatedAt(f) < CreatedAt(e)}
    BY <2>4, <2>5, RisingOrder
  <2>8. db[e].hashed /\ db[e].prev = IF before = {} THEN None ELSE Max(before)
    BY <2>3, <2>4 DEF Chain
  <2>9. before # {} => Newest(before) = Max(before)
    <3>1. before \subseteq 0 .. n /\ Rising(before)
      BY <2>4, <2>5 DEF Rising
    <3> QED
      BY <3>1, NewestIsLast
  <2> QED
    BY <2>7, <2>8, <2>9
<1>5. MembersMatchAudit
  <2>1. CASE Uses("members")
    <3>1. MembersMatch(db)
      BY <1>2, <2>1 DEF Sound, Covered, Uses
    <3> QED
      BY <1>3, <3>1 DEF MembersMatch, MembersMatchAudit, Entries
  <2> QED
    BY <1>1, <2>1 DEF MembersMatchAudit
<1>6. LinkEndsExist
  <2>1. CASE Uses("objects")
    <3>1. EndsExist(db)
      BY <1>2, <2>1 DEF Sound, Covered, Uses
    <3> QED
      BY <1>3, <3>1 DEF EndsExist, LinkEndsExist
  <2> QED
    BY <1>1, <2>1 DEF LinkEndsExist
<1>7. ConnectorColumnsAgree
  <2>1. CASE Uses("connectors")
    <3>1. ColumnsAgree(db)
      BY <1>2, <2>1 DEF Sound, Covered, Uses
    <3> QED
      BY <1>3, <3>1 DEF ColumnsAgree, ConnectorColumnsAgree
  <2> QED
    BY <1>1, <2>1 DEF ConnectorColumnsAgree
<1>8. Indexed => OwnersKeepTheirRole
  <2>1. CASE Uses("workspaces")
    <3>1. Owned(db)
      BY <1>2, <2>1 DEF Sound, Covered, Uses
    <3> QED
      BY <1>3, <3>1 DEF Owned, OwnersKeepTheirRole
  <2> QED
    BY <1>1, <2>1 DEF OwnersKeepTheirRole
<1> QED
  BY <1>4, <1>5, <1>6, <1>7, <1>8

\* The audit chain that record_audit appends to verifies, however the requests
\* of these endpoints overlap, if it verified at the start and as long as the times
\* that entries are given rise (ChainVerifies says so).
THEOREM ChainKeepsVerifying == Spec /\ Sound(db) => []ChainVerifies
<1>1. Consistency => ChainVerifies
  BY SoundRows
<1> QED
  BY <1>1, StaysConsistent, PTL

\* The newest audit entry about a member tells the role and state the member has.
THEOREM MembersAreAudited == Spec /\ Sound(db) => []MembersMatchAudit
<1>1. Consistency => MembersMatchAudit
  BY SoundRows
<1> QED
  BY <1>1, StaysConsistent, PTL

\* Both ends of every link are objects: delete_object takes the links with it.
THEOREM LinksHaveTheirEnds == Spec /\ Sound(db) => []LinkEndsExist
<1>1. Consistency => LinkEndsExist
  BY SoundRows
<1> QED
  BY <1>1, StaysConsistent, PTL

\* No secret field of a connector is stored in clear, and a deleted connector
\* is archived.
THEOREM ConnectorsAgree == Spec /\ Sound(db) => []ConnectorColumnsAgree
<1>1. Consistency => ConnectorColumnsAgree
  BY SoundRows
<1> QED
  BY <1>1, StaysConsistent, PTL

\* The owner of a workspace that is not deleted has no other role in it, whoever
\* adds, changes or provisions members, given the unique index on memberships.
THEOREM OwnersStayOwners ==
  ASSUME Indexed
  PROVE  Spec /\ Sound(db) => []OwnersKeepTheirRole
<1>1. Consistency => OwnersKeepTheirRole
  BY SoundRows
<1> QED
  BY <1>1, StaysConsistent, PTL

-----------------------------------------------------------------------------
(* The head of an ontology, for every number of overlapping requests: once *)
(* an ontology has a published version, its version field names one that   *)
(* is published.  No endpoint of ontologies holds a lock before it writes, *)
(* so a publication commits on whatever the ontology has become.  The      *)
(* invariant says of its plan that it promotes one label of one ontology,  *)
(* in the ontology's row and in that of a version, and that where it found *)
(* the label in the row already, the row still has it or names another     *)
(* published version.                                                      *)


\* The columns that a head is about.
Labelled(row) ==
  /\ row.table = "version" => {"onto", "label", "status"} \subseteq DOMAIN row
  /\ row.table = "ontology" => "head" \in DOMAIN row

Belongs(d, o) == o \in DOMAIN d => d[o].table = "ontology"

Published(d, v, o, label) ==
  /\ v \in TableOf(d, "version")
  /\ d[v].onto = o /\ d[v].label = label /\ d[v].status = "PUBLISHED"

Named(d, o) == \E w : Published(d, w, o, d[o].head)

Headed(d) ==
  /\ \A i \in DOMAIN d : Labelled(d[i])
  /\ \A v \in TableOf(d, "version") :
       /\ d[v].onto \in 1 .. made
       /\ Belongs(d, d[v].onto)
       /\ d[v].status = "PUBLISHED" /\ d[v].onto \in DOMAIN d => Named(d, d[v].onto)

\* The rows that a plan changes or deletes, and those its versions belong to.
Speaks(p) ==
  DOMAIN p.update \cup p.delete
    \cup {p.insert[i].onto : i \in TableOf(p.insert, "version")}

Attaches(d, p) ==
  /\ Speaks(p) \subseteq 1 .. made
  /\ \A i \in DOMAIN p.insert : Labelled(p.insert[i])
  /\ \A v \in TableOf(p.insert, "version") :
       Belongs(d, p.insert[v].onto) /\ Belongs(p.insert, p.insert[v].onto)
  /\ \A i \in DOMAIN p.update : {"onto", "label"} \cap DOMAIN p.update[i] = {}

\* A plan that publishes nothing, and takes no version from its ontology.
Drafts(d, p) ==
  /\ Uses("versions") => \A i \in DOMAIN p.insert : p.insert[i].table = "version"
  /\ \A v \in TableOf(p.insert, "version") : p.insert[v].status = "DRAFT"
  /\ \A i \in DOMAIN p.update :
       /\ "head" \notin DOMAIN p.update[i]
       /\ "status" \in DOMAIN p.update[i] => i \notin TableOf(d, "version")
  /\ \A v \in p.delete \cap TableOf(d, "version") : d[v].onto \in p.delete

\* A plan that publishes nothing but versions of o with this label, and makes it
\* the head of o, or has found it there.
Promotes(d, p, o, label) ==
  /\ Uses("versions")
  /\ p.delete = {}
  /\ \A i \in DOMAIN p.insert :
       /\ p.insert[i].table = "version"
       /\ p.insert[i].onto = o /\ p.insert[i].label = label
  /\ \A i \in DOMAIN p.update :
       /\ "head" \in DOMAIN p.update[i] => i = o /\ p.update[i].head = label
       /\ "status" \in DOMAIN p.update[i] /\ i \in TableOf(d, "version") =>
            p.update[i].status = "PUBLISHED" /\ d[i].onto = o /\ d[i].label = label
  /\ o \in TableOf(d, "ontology") =>
       \/ o \in DOMAIN p.update /\ "head" \in DOMAIN p.update[o]
       \/ d[o].head = label
       \/ Named(d, o)

\* It does publish one.
Publishes(d, p, o, label) ==
  \/ \E v \in TableOf(p.insert, "version") :
       p.insert[v].onto = o /\ p.insert[v].label = label /\ p.insert[v].status = "PUBLISHED"
  \/ \E v \in DOMAIN p.update :
       /\ "status" \in DOMAIN p.update[v]
       /\ v \in DOMAIN d => d[v].table = "version" /\ d[v].onto = o /\ d[v].label = label

Between(d, p, job) ==
  /\ job[1] \in {"publish", "publish rest"}
  /\ Promotes(d, p, job[2], job[3])
  /\ DOMAIN p.insert = {}
  /\ job[2] \in DOMAIN p.update /\ Belongs(d, job[2])

Forking(p, job) ==
  /\ job[1] \in {"fork", "copy", "copy rest"}
  /\ {1, 3} \subseteq DOMAIN job
  /\ job[3] \in TableOf(p.insert, "ontology")

Proceeds(d, p, job) ==
  \/ Drafts(d, p) /\ (job = Done \/ Forking(p, job))
  \/ job = Done /\ \E o, label : Promotes(d, p, o, label) /\ Publishes(d, p, o, label)
  \/ Between(d, p, job)

\* What others insert is not what a plan speaks of, nor where a version belongs.
Heads ==
  /\ Headed(db)
  /\ \A r \in Requests :
       /\ Attaches(db, session[r].plan)
       /\ Proceeds(db, session[r].plan, session[r].job)
       /\ \A v \in TableOf(db, "version") : db[v].onto \notin DOMAIN session[r].plan.insert
       /\ \A q \in Requests \ {r} :
            Speaks(session[q].plan) \cap DOMAIN session[r].plan.insert = {}

Publication == Uses("content") \/ Uses("versions")

-----------------------------------------------------------------------------
(* A commit.                                                               *)

\* A row that was there keeps its table and what it belongs to; the rest of it
\* is as before, or as the plan wants it.
LEMMA RowAfter ==
  ASSUME Base, Headed(db), NEW r \in Requests, NEW p, Good(r, p), Attaches(db, p),
         NEW d, d = Written(p), NEW i \in DOMAIN d, i \notin DOMAIN p.insert
  PROVE  /\ i \in DOMAIN db \ p.delete
         /\ d[i].table = db[i].table
         /\ DOMAIN db[i] \subseteq DOMAIN d[i]
         /\ \A c \in DOMAIN db[i] :
              d[i][c] = IF i \in DOMAIN p.update /\ c \in DOMAIN p.update[i]
                          THEN p.update[i][c] ELSE db[i][c]
         /\ db[i].table = "version" => d[i].onto = db[i].onto /\ d[i].label = db[i].label
<1>1. i \in DOMAIN db \ p.delete
  BY WrittenIs
<1>2. d[i] = IF i \in DOMAIN p.update THEN Over(p.update[i], db[i]) ELSE db[i]
  BY <1>1, WrittenKept
<1>3. /\ DOMAIN db[i] \subseteq DOMAIN d[i]
      /\ \A c \in DOMAIN db[i] :
           d[i][c] = IF i \in DOMAIN p.update /\ c \in DOMAIN p.update[i]
                       THEN p.update[i][c] ELSE db[i][c]
  <2>1. CASE i \in DOMAIN p.update
    <3>1. d[i] = Over(p.update[i], db[i])
      BY <1>2, <2>1
    <3> QED
      BY <2>1, <3>1 DEF Over
  <2>2. CASE i \notin DOMAIN p.update
    BY <1>2, <2>2
  <2> QED
    BY <2>1, <2>2
<1>4. "table" \in DOMAIN db[i] /\ Labelled(db[i])
  BY <1>1 DEF Base, HasTable, Headed
<1>5. i \in DOMAIN p.update => {"onto", "label", "table"} \cap DOMAIN p.update[i] = {}
  BY DEF Attaches, Good, Editable
<1>6. d[i].table = db[i].table
  BY <1>3, <1>4, <1>5
<1>7. db[i].table = "version" => d[i].onto = db[i].onto /\ d[i].label = db[i].label
  BY <1>3, <1>4, <1>5 DEF Labelled
<1> QED
  BY <1>1, <1>3, <1>6, <1>7

LEMMA InsertedAfter ==
  ASSUME NEW r \in Requests, NEW p, Good(r, p), NEW d, d = Written(p)
  PROVE  /\ \A i \in DOMAIN p.insert : i \in DOMAIN d /\ i \notin DOMAIN db /\ d[i] = p.insert[i]
         /\ \A i \in DOMAIN db \ p.delete : i \in DOMAIN d /\ i \notin DOMAIN p.insert
BY WrittenIs

\* A published version stays published unless its ontology goes.
LEMMA PublishedStays ==
  ASSUME Base, Headed(db), NEW r \in Requests, NEW p, Good(r, p), Attaches(db, p),
         NEW d, d = Written(p),
         Drafts(db, p) \/ \E o, label : Promotes(db, p, o, label),
         NEW v, NEW o, NEW label, Published(db, v, o, label), o \notin p.delete
  PROVE  Published(d, v, o, label)
<1>1. v \in TableOf(db, "version") /\ v \in DOMAIN db /\ db[v].table = "version" /\ db[v].onto = o
      /\ db[v].label = label /\ db[v].status = "PUBLISHED"
  BY DEF Published, TableOf
<1>2. v \notin p.delete
  BY <1>1 DEF Drafts, Promotes
<1>3. v \in DOMAIN d /\ v \notin DOMAIN p.insert
  BY <1>1, <1>2, InsertedAfter
<1>4. /\ d[v].table = "version" /\ d[v].onto = o /\ d[v].label = label
      /\ \A c \in DOMAIN db[v] :
           d[v][c] = IF v \in DOMAIN p.update /\ c \in DOMAIN p.update[v]
                       THEN p.update[v][c] ELSE db[v][c]
  BY <1>1, <1>3, RowAfter
<1>5. "status" \in DOMAIN db[v]
  BY <1>1 DEF Headed, Labelled
<1>6. v \in DOMAIN p.update /\ "status" \in DOMAIN p.update[v] =>
        p.update[v].status = "PUBLISHED"
  BY <1>1 DEF Drafts, Promotes
<1>7. d[v].status = "PUBLISHED"
  BY <1>1, <1>4, <1>5, <1>6
<1> QED
  BY <1>3, <1>4, <1>7 DEF Published, TableOf

LEMMA BelongsAfter ==
  ASSUME Base, Headed(db), NEW r \in Requests, NEW p, Good(r, p), Attaches(db, p),
         NEW d, d = Written(p),
         \A v \in TableOf(db, "version") : db[v].onto \notin DOMAIN p.insert,
         NEW v \in TableOf(d, "version")
  PROVE  d[v].onto \in 1 .. made /\ Belongs(d, d[v].onto)
<1>1. CASE v \in DOMAIN p.insert
  <2>1. d[v] = p.insert[v] /\ v \in TableOf(p.insert, "version")
    BY <1>1, InsertedAfter DEF TableOf
  <2> DEFINE o == p.insert[v].onto
  <2>2. o \in 1 .. made /\ Belongs(db, o) /\ Belongs(p.insert, o)
    BY <2>1 DEF Attaches, Speaks
  <2>3. Belongs(d, o)
    <3> SUFFICES ASSUME o \in DOMAIN d PROVE d[o].table = "ontology"
      BY DEF Belongs
    <3> HIDE DEF o
    <3>1. CASE o \in DOMAIN p.insert
      BY <2>2, <3>1, InsertedAfter DEF Belongs
    <3>2. CASE o \notin DOMAIN p.insert
      BY <2>2, <3>2, RowAfter DEF Belongs
    <3> QED
      BY <3>1, <3>2
  <2> QED
    BY <2>1, <2>2, <2>3
<1>2. CASE v \notin DOMAIN p.insert
  <2>1. v \in DOMAIN d /\ d[v].table = "version"
    BY DEF TableOf
  <2>2. v \in TableOf(db, "version") /\ d[v].onto = db[v].onto
    BY <1>2, <2>1, RowAfter DEF TableOf
  <2> DEFINE o == db[v].onto
  <2>3. o \in 1 .. made /\ Belongs(db, o) /\ o \notin DOMAIN p.insert
    BY <2>2 DEF Headed
  <2> HIDE DEF o
  <2>4. Belongs(d, o)
    BY <2>3, RowAfter DEF Belongs
  <2> QED
    BY <2>2, <2>3, <2>4 DEF o
<1> QED
  BY <1>1, <1>2

\* The version that a plan publishes is there and published after it.
LEMMA PublishedAfter ==
  ASSUME Base, Headed(db), NEW r \in Requests, NEW p, Good(r, p), Attaches(db, p), Fits(p),
         NEW d, d = Written(p), NEW o, NEW label,
         Promotes(db, p, o, label), Publishes(db, p, o, label)
  PROVE  \E w : Published(d, w, o, label)
<1>1. CASE \E v \in TableOf(p.insert, "version") :
             /\ p.insert[v].onto = o /\ p.insert[v].label = label
             /\ p.insert[v].status = "PUBLISHED"
  <2>1. PICK v \in TableOf(p.insert, "version") :
          /\ p.insert[v].onto = o /\ p.insert[v].label = label
          /\ p.insert[v].status = "PUBLISHED"
    BY <1>1
  <2>2. v \in DOMAIN d /\ d[v] = p.insert[v] /\ d[v].table = "version"
    BY InsertedAfter DEF TableOf
  <2> QED
    BY <2>1, <2>2 DEF Published, TableOf
<1>2. CASE \E v \in DOMAIN p.update :
             /\ "status" \in DOMAIN p.update[v]
             /\ v \in DOMAIN db =>
                  db[v].table = "version" /\ db[v].onto = o /\ db[v].label = label
  <2>1. PICK v \in DOMAIN p.update :
          /\ "status" \in DOMAIN p.update[v]
          /\ v \in DOMAIN db =>
               db[v].table = "version" /\ db[v].onto = o /\ db[v].label = label
    BY <1>2
  <2>2. v \in DOMAIN db /\ p.delete = {}
    BY DEF Fits, Stale, Promotes
  <2>3. v \in DOMAIN d /\ v \notin DOMAIN p.insert
    BY <2>2, InsertedAfter
  <2>4. db[v].table = "version" /\ db[v].onto = o /\ db[v].label = label
    BY <2>1, <2>2
  <2>5. "status" \in DOMAIN db[v] /\ v \in TableOf(db, "version")
    BY <2>2, <2>4 DEF Headed, Labelled, TableOf
  <2>6. d[v].status = p.update[v].status
    BY <2>1, <2>3, <2>5, RowAfter
  <2>7. p.update[v].status = "PUBLISHED"
    BY <2>1, <2>5 DEF Promotes
  <2>8. d[v].table = "version" /\ d[v].onto = o /\ d[v].label = label
    BY <2>3, <2>4, RowAfter
  <2> QED
    BY <2>3, <2>6, <2>7, <2>8 DEF Published, TableOf
<1> QED
  BY <1>1, <1>2 DEF Publishes

\* What is published after a plan, but was not, is what the plan promotes.
LEMMA NewlyPublished ==
  ASSUME Base, Headed(db), NEW r \in Requests, NEW p, Good(r, p), Attaches(db, p),
         NEW d, d = Written(p),
         NEW v \in TableOf(d, "version"), d[v].status = "PUBLISHED"
  PROVE  /\ Drafts(db, p) => v \in TableOf(db, "version") /\ db[v].status = "PUBLISHED"
         /\ \A o, label : Promotes(db, p, o, label) =>
              \/ d[v].onto = o
              \/ v \in TableOf(db, "version") /\ db[v].status = "PUBLISHED"
<1>1. CASE v \in DOMAIN p.insert
  <2>1. d[v] = p.insert[v] /\ v \in TableOf(p.insert, "version")
    BY <1>1, InsertedAfter DEF TableOf
  <2> QED
    BY <1>1, <2>1 DEF Drafts, Promotes
<1>2. CASE v \notin DOMAIN p.insert
  <2>1. v \in DOMAIN d /\ d[v].table = "version"
    BY DEF TableOf
  <2>2. /\ v \in DOMAIN db /\ db[v].table = "version" /\ d[v].onto = db[v].onto
        /\ \A c \in DOMAIN db[v] :
              d[v][c] = IF v \in DOMAIN p.update /\ c \in DOMAIN p.update[v]
                          THEN p.update[v][c] ELSE db[v][c]
    BY <1>2, <2>1, RowAfter
  <2>3. v \in TableOf(db, "version") /\ "status" \in DOMAIN db[v]
    BY <2>2 DEF TableOf, Headed, Labelled
  <2>4. ~(v \in DOMAIN p.update /\ "status" \in DOMAIN p.update[v]) => db[v].status = "PUBLISHED"
    BY <2>2, <2>3
  <2> QED
    BY <2>2, <2>3, <2>4 DEF Drafts, Promotes
<1> QED
  BY <1>1, <1>2

LEMMA HeadedAfter ==
  ASSUME Base, Headed(db), NEW r \in Requests, NEW p, Good(r, p), Attaches(db, p), Fits(p),
         NEW d, d = Written(p),
         \A v \in TableOf(db, "version") : db[v].onto \notin DOMAIN p.insert,
         Drafts(db, p) \/ \E o, label : Promotes(db, p, o, label) /\ Publishes(db, p, o, label)
  PROVE  Headed(d)
<1>1. ASSUME NEW i \in DOMAIN d PROVE Labelled(d[i])
  <2>1. CASE i \in DOMAIN p.insert
    BY <2>1, InsertedAfter DEF Attaches
  <2>2. CASE i \notin DOMAIN p.insert
    BY <2>2, RowAfter DEF Headed, Labelled
  <2> QED
    BY <2>1, <2>2
<1>2. \A v \in TableOf(d, "version") : d[v].onto \in 1 .. made /\ Belongs(d, d[v].onto)
  BY BelongsAfter
<1>3. ASSUME NEW v \in TableOf(d, "version"), d[v].status = "PUBLISHED", d[v].onto \in DOMAIN d
      PROVE  Named(d, d[v].onto)
  <2> DEFINE o == d[v].onto
  <2>1. d[o].table = "ontology"
    BY <1>2, <1>3 DEF Belongs
  <2>2. ASSUME v \in TableOf(db, "version"), db[v].status = "PUBLISHED"
        PROVE  /\ o \in DOMAIN db \ p.delete /\ o \notin DOMAIN p.insert
               /\ db[o].table = "ontology" /\ Named(db, o)
    <3>1. v \in DOMAIN d /\ v \notin DOMAIN p.insert
      BY <2>2, InsertedAfter DEF TableOf
    <3>2. o = db[v].onto
      BY <2>2, <3>1, RowAfter DEF TableOf
    <3>3. o \notin DOMAIN p.insert
      BY <2>2, <3>2
    <3> HIDE DEF o
    <3>4. o \in DOMAIN db \ p.delete /\ db[o].table = "ontology"
      BY <1>3, <2>1, <3>3, RowAfter DEF o
    <3>5. Named(db, o)
      BY <2>2, <3>2, <3>4 DEF Headed
    <3> QED
      BY <3>3, <3>4, <3>5
  <2> HIDE DEF o
  <2>3. ASSUME o \in DOMAIN db \ p.delete, o \in DOMAIN d, o \notin DOMAIN p.insert,
               db[o].table = "ontology",
               ~(o \in DOMAIN p.update /\ "head" \in DOMAIN p.update[o])
        PROVE  d[o].head = db[o].head
    <3>1. "head" \in DOMAIN db[o]
      BY <2>3 DEF Headed, Labelled
    <3> QED
      BY <2>3, <3>1, RowAfter
  <2>4. o \in DOMAIN d
    BY <1>3 DEF o
  <2>5. ASSUME Drafts(db, p) \/ \E k, label : Promotes(db, p, k, label),
               Named(db, o), o \notin p.delete, d[o].head = db[o].head
        PROVE  Named(d, o)
    <3>1. PICK w : Published(db, w, o, db[o].head)
      BY <2>5 DEF Named
    <3>2. Published(d, w, o, db[o].head)
      BY <2>5, <3>1, PublishedStays
    <3> QED
      BY <2>5, <3>2 DEF Named
  <2>6. CASE Drafts(db, p)
    <3>1. v \in TableOf(db, "version") /\ db[v].status = "PUBLISHED"
      BY <1>3, <2>6, NewlyPublished
    <3>2. ~(o \in DOMAIN p.update /\ "head" \in DOMAIN p.update[o])
      BY <2>6 DEF Drafts
    <3> QED
      BY <2>2, <2>3, <2>4, <2>5, <2>6, <3>1, <3>2 DEF o
  <2>7. ASSUME NEW k, NEW label, Promotes(db, p, k, label), Publishes(db, p, k, label)
        PROVE  Named(d, o)
    <3>1. o # k => v \in TableOf(db, "version") /\ db[v].status = "PUBLISHED"
      BY <1>3, <2>7, NewlyPublished DEF o
    <3>2. CASE o # k
      <4>1. ~(o \in DOMAIN p.update /\ "head" \in DOMAIN p.update[o])
        BY <2>7, <3>2 DEF Promotes
      <4> QED
        BY <2>2, <2>3, <2>4, <2>5, <2>7, <3>1, <3>2, <4>1
    <3>3. CASE o = k
      <4>1. o \notin DOMAIN p.insert /\ p.delete = {}
        BY <2>1, <2>4, <2>7, InsertedAfter DEF Promotes
      <4>2. o \in TableOf(db, "ontology") /\ o \in DOMAIN db \ p.delete
        BY <2>1, <2>4, <4>1, RowAfter DEF TableOf
      <4>3. \E w : Published(d, w, o, label)
        BY <2>7, <3>3, PublishedAfter
      <4>4. CASE o \in DOMAIN p.update /\ "head" \in DOMAIN p.update[o]
        <5>1. "head" \in DOMAIN db[o] /\ p.update[o].head = label
          BY <2>7, <4>2, <4>4 DEF Promotes, Headed, Labelled, TableOf
        <5>2. d[o].head = label
          BY <2>4, <4>1, <4>4, <5>1, RowAfter
        <5> QED
          BY <4>3, <5>2 DEF Named
      <4>5. CASE ~(o \in DOMAIN p.update /\ "head" \in DOMAIN p.update[o])
        <5>1. d[o].head = db[o].head
          BY <2>3, <2>4, <4>1, <4>2, <4>5 DEF TableOf
        <5>2. CASE db[o].head = label
          BY <4>3, <5>1, <5>2 DEF Named
        <5>3. CASE Named(db, o)
          BY <2>5, <2>7, <4>1, <5>1, <5>3
        <5> QED
          BY <2>7, <3>3, <4>2, <4>5, <5>2, <5>3 DEF Promotes
      <4> QED
        BY <4>4, <4>5
    <3> QED
      BY <3>2, <3>3
  <2> QED
    BY <2>6, <2>7 DEF o
<1> QED
  BY <1>1, <1>2, <1>3 DEF Headed

\* What another plan speaks of is not new, and keeps its table, what it belongs
\* to and its label.
LEMMA SpokenOf ==
  ASSUME Base, Headed(db), NEW r \in Requests, NEW p, Good(r, p), Attaches(db, p),
         NEW d, d = Written(p), NEW i \in DOMAIN d, i \notin DOMAIN p.insert
  PROVE  /\ i \in DOMAIN db /\ d[i].table = db[i].table
         /\ \A table : i \in TableOf(d, table) => i \in TableOf(db, table)
         /\ db[i].table = "version" => d[i].onto = db[i].onto /\ d[i].label = db[i].label
<1>1. /\ i \in DOMAIN db /\ d[i].table = db[i].table
      /\ db[i].table = "version" => d[i].onto = db[i].onto /\ d[i].label = db[i].label
  BY RowAfter
<1> QED
  BY <1>1 DEF TableOf

\* A commit leaves the plans of others what they are.
LEMMA OthersLast ==
  ASSUME Base, Headed(db), NEW r \in Requests, NEW p, Good(r, p), Attaches(db, p), Fits(p),
         NEW d, d = Written(p),
         Drafts(db, p) \/ \E o, label : Promotes(db, p, o, label) /\ Publishes(db, p, o, label),
         NEW s, Attaches(db, s), Speaks(s) \cap DOMAIN p.insert = {}
  PROVE  /\ Attaches(d, s)
         /\ Drafts(db, s) => Drafts(d, s)
         /\ \A o, label : Promotes(db, s, o, label) => Promotes(d, s, o, label)
         /\ \A o, label : Publishes(db, s, o, label) => Publishes(d, s, o, label)
         /\ \A job : Between(db, s, job) => Between(d, s, job)
<1>1. ASSUME NEW i \in Speaks(s), i \in DOMAIN d
      PROVE  /\ i \in DOMAIN db /\ d[i].table = db[i].table
             /\ \A table : i \in TableOf(d, table) => i \in TableOf(db, table)
             /\ db[i].table = "version" => d[i].onto = db[i].onto /\ d[i].label = db[i].label
  <2>1. i \notin DOMAIN p.insert
    BY <1>1
  <2> QED
    BY <1>1, <2>1, SpokenOf
<1>2. \A o \in Speaks(s) : Belongs(db, o) => Belongs(d, o)
  BY <1>1 DEF Belongs
<1>3. Attaches(d, s)
  <2>1. \A v \in TableOf(s.insert, "version") : s.insert[v].onto \in Speaks(s)
    BY DEF Speaks
  <2> QED
    BY <1>2, <2>1 DEF Attaches
<1>4. DOMAIN s.update \subseteq Speaks(s) /\ s.delete \subseteq Speaks(s)
  BY DEF Speaks
<1>5. \A i, table : i \in TableOf(d, table) => i \in DOMAIN d /\ d[i].table = table
  BY DEF TableOf
<1>6. ASSUME Drafts(db, s) PROVE Drafts(d, s)
  <2>1. \A i \in DOMAIN s.update : i \in TableOf(d, "version") => i \in TableOf(db, "version")
    BY <1>1, <1>4, <1>5
  <2>2. \A v \in s.delete \cap TableOf(d, "version") :
          v \in TableOf(db, "version") /\ d[v].onto = db[v].onto
    BY <1>1, <1>4, <1>5 DEF TableOf
  <2> QED
    BY <1>6, <2>1, <2>2 DEF Drafts
<1>7. ASSUME NEW o, NEW label, Promotes(db, s, o, label) PROVE Promotes(d, s, o, label)
  <2>1. \A i \in DOMAIN s.update :
          i \in TableOf(d, "version") =>
            i \in TableOf(db, "version") /\ d[i].onto = db[i].onto /\ d[i].label = db[i].label
    BY <1>1, <1>4, <1>5 DEF TableOf
  <2>2. ASSUME o \in TableOf(d, "ontology")
        PROVE  \/ o \in DOMAIN s.update /\ "head" \in DOMAIN s.update[o]
               \/ d[o].head = label
               \/ Named(d, o)
    <3>1. \A i \in DOMAIN p.insert : p.insert[i].table = "version"
      BY <1>7 DEF Drafts, Promotes
    <3>2. o \in DOMAIN d /\ d[o].table = "ontology"
      BY <2>2, <1>5
    <3>3. o \notin DOMAIN p.insert
      BY <3>1, <3>2, InsertedAfter
    <3>4. o \in DOMAIN db \ p.delete /\ db[o].table = "ontology"
      BY <3>2, <3>3, RowAfter
    <3>5. o \in TableOf(db, "ontology") /\ "head" \in DOMAIN db[o]
      BY <3>4 DEF TableOf, Headed, Labelled
    <3>6. d[o].head = IF o \in DOMAIN p.update /\ "head" \in DOMAIN p.update[o]
                        THEN p.update[o].head ELSE db[o].head
      BY <3>2, <3>3, <3>5, RowAfter
    <3>7. CASE o \in DOMAIN p.update /\ "head" \in DOMAIN p.update[o]
      <4>1. PICK k, name : Promotes(db, p, k, name) /\ Publishes(db, p, k, name)
        BY <3>7 DEF Drafts
      <4>2. k = o /\ p.update[o].head = name
        BY <3>7, <4>1 DEF Promotes
      <4>3. \E w : Published(d, w, k, name)
        BY <4>1, PublishedAfter
      <4> QED
        BY <3>6, <3>7, <4>2, <4>3 DEF Named
    <3>8. CASE ~(o \in DOMAIN p.update /\ "head" \in DOMAIN p.update[o])
      <4>1. d[o].head = db[o].head
        BY <3>6, <3>8
      <4>2. CASE Named(db, o)
        <5>1. PICK w : Published(db, w, o, db[o].head)
          BY <4>2 DEF Named
        <5>2. Published(d, w, o, db[o].head)
          BY <3>4, <5>1, PublishedStays
        <5> QED
          BY <4>1, <5>2 DEF Named
      <4> QED
        BY <1>7, <3>5, <4>1, <4>2 DEF Promotes
    <3> QED
      BY <3>7, <3>8
  <2> QED
    BY <1>7, <2>1, <2>2 DEF Promotes
<1>8. ASSUME NEW o, NEW label, Publishes(db, s, o, label) PROVE Publishes(d, s, o, label)
  <2>1. ASSUME NEW v \in DOMAIN s.update, v \in DOMAIN d,
               v \in DOMAIN db => db[v].table = "version" /\ db[v].onto = o /\ db[v].label = label
        PROVE  d[v].table = "version" /\ d[v].onto = o /\ d[v].label = label
    BY <1>1, <1>4, <2>1
  <2> QED
    BY <1>8, <2>1 DEF Publishes
<1>9. ASSUME NEW job, Between(db, s, job) PROVE Between(d, s, job)
  <2>1. Promotes(d, s, job[2], job[3]) /\ Belongs(d, job[2])
    BY <1>2, <1>4, <1>7, <1>9 DEF Between
  <2> QED
    BY <1>9, <2>1 DEF Between
<1> QED
  BY <1>3, <1>6, <1>7, <1>8, <1>9

-----------------------------------------------------------------------------
(* The sessions.                                                           *)

LEMMA NoPlanProceeds ==
  ASSUME NEW d
  PROVE  Attaches(d, NoPlan) /\ Drafts(d, NoPlan) /\ Proceeds(d, NoPlan, Done)
         /\ Speaks(NoPlan) = {} /\ DOMAIN NoPlan.insert = {}
<1>1. DOMAIN NoPlan.insert = {} /\ DOMAIN NoPlan.update = {} /\ NoPlan.delete = {}
  BY DEF NoPlan, Nothing
<1>2. TableOf(NoPlan.insert, "version") = {}
  BY <1>1 DEF TableOf
<1>3. Speaks(NoPlan) = {}
  BY <1>1, <1>2 DEF Speaks
<1>4. Attaches(d, NoPlan) /\ Drafts(d, NoPlan)
  BY <1>1, <1>2, <1>3 DEF Attaches, Drafts
<1> QED
  BY <1>1, <1>3, <1>4 DEF Proceeds

\* What is said of a database and a plan stays true of them.
LEMMA StillProceeds ==
  ASSUME scenario' = scenario, made \in Nat, made' \in Nat, made <= made',
         NEW d, NEW p, NEW job
  PROVE  /\ Headed(d) => Headed(d)'
         /\ Attaches(d, p) => Attaches(d, p)'
         /\ Proceeds(d, p, job) => Proceeds(d, p, job)'
<1>1. 1 .. made \subseteq 1 .. made'
  OBVIOUS
<1>2. Headed(d) => Headed(d)'
  BY <1>1 DEF Headed, TableOf, Labelled, Belongs, Named, Published
<1>3. Attaches(d, p) => Attaches(d, p)'
  BY <1>1 DEF Attaches, TableOf, Speaks, Labelled, Belongs
<1>4. Drafts(d, p) => Drafts(d, p)'
  BY DEF Drafts, TableOf, Uses
<1>5. \A o, label : Promotes(d, p, o, label) => Promotes(d, p, o, label)'
  BY DEF Promotes, TableOf, Uses, Named, Published
<1>6. \A o, label : Publishes(d, p, o, label) => Publishes(d, p, o, label)'
  BY DEF Publishes, TableOf
<1>7. Forking(p, job) => Forking(p, job)'
  BY DEF Forking, TableOf
<1>8. Between(d, p, job) => Between(d, p, job)'
  BY <1>5 DEF Between, Belongs
<1> QED
  BY <1>2, <1>3, <1>4, <1>5, <1>6, <1>7, <1>8 DEF Proceeds

\* A plan that request r may come to: it promotes nothing by halves, and speaks of
\* what is in the database or of what the request spoke of or inserts already.
Prepares(r, plan, job) ==
  LET old == session[r].plan
  IN /\ Attaches(db, plan)
     /\ Proceeds(db, plan, job)
     /\ Speaks(plan) \subseteq DOMAIN db \cup Speaks(old) \cup DOMAIN old.insert
     /\ \A i \in DOMAIN plan.insert : i \in DOMAIN old.insert \/ i \notin 1 .. made

LEMMA PlanHeads ==
  ASSUME Base, Heads, NEW r \in Requests, NEW plan, NEW job, Good(r, plan),
         Prepares(r, plan, job),
         session'[r].plan = plan, session'[r].job = job,
         \A q \in Requests \ {r} : session'[q] = session[q],
         db' = db, scenario' = scenario, made' \in Nat, made <= made'
  PROVE  Heads'
<1>1. made \in Nat
  BY DEF Base
<1>2. Headed(db)'
  BY <1>1, StillProceeds DEF Heads
<1>3. ASSUME NEW q \in Requests
      PROVE  (Attaches(db, session[q].plan) /\ Proceeds(db, session[q].plan, session[q].job))'
  <2>1. CASE q = r
    <3>1. Attaches(db, plan)' /\ Proceeds(db, plan, job)'
      BY <1>1, StillProceeds DEF Prepares
    <3> QED
      BY <2>1, <3>1
  <2>2. CASE q # r
    <3> DEFINE s == session[q]
    <3>1. Attaches(db, s.plan) /\ Proceeds(db, s.plan, s.job) /\ session'[q] = s
      BY <2>2 DEF Heads
    <3>2. Attaches(db, s.plan)' /\ Proceeds(db, s.plan, s.job)'
      BY <1>1, <3>1, StillProceeds
    <3> QED
      BY <3>1, <3>2
  <2> QED
    BY <2>1, <2>2
<1>4. /\ \A v \in TableOf(db, "version") : db[v].onto \notin DOMAIN plan.insert
      /\ \A q \in Requests \ {r} : Speaks(session[q].plan) \cap DOMAIN plan.insert = {}
  <2>1. \A v \in TableOf(db, "version") :
          db[v].onto \in 1 .. made /\ db[v].onto \notin DOMAIN session[r].plan.insert
    BY DEF Heads, Headed
  <2>2. \A q \in Requests \ {r} :
          /\ Speaks(session[q].plan) \subseteq 1 .. made
          /\ Speaks(session[q].plan) \cap DOMAIN session[r].plan.insert = {}
    BY DEF Heads, Attaches
  <2> QED
    BY <2>1, <2>2 DEF Prepares
<1>5. \A q \in Requests \ {r} : Speaks(plan) \cap DOMAIN session[q].plan.insert = {}
  <2> SUFFICES ASSUME NEW q \in Requests \ {r}, NEW i \in Speaks(plan)
               PROVE  i \notin DOMAIN session[q].plan.insert
    OBVIOUS
  <2>1. \A j \in DOMAIN session[q].plan.insert :
          j \notin DOMAIN db /\ j \notin DOMAIN session[r].plan.insert
    BY DEF Base, Good, Fresh
  <2>2. Speaks(session[r].plan) \cap DOMAIN session[q].plan.insert = {}
    BY DEF Heads
  <2> QED
    BY <2>1, <2>2 DEF Prepares
<1>6. /\ TableOf(db, "version")' = TableOf(db, "version")
      /\ \A q \in Requests : Speaks(session[q].plan)' =
           IF q = r THEN Speaks(plan) ELSE Speaks(session[q].plan)
  BY DEF TableOf, Speaks
<1>7. \A q \in Requests \ {r} :
        /\ session'[q].plan = session[q].plan
        /\ \A v \in TableOf(db, "version") : db[v].onto \notin DOMAIN session[q].plan.insert
        /\ \A s \in Requests \ {q} :
             Speaks(session[s].plan) \cap DOMAIN session[q].plan.insert = {}
  BY DEF Heads
<1>8. ASSUME NEW q \in Requests
      PROVE  (/\ \A v \in TableOf(db, "version") : db[v].onto \notin DOMAIN session[q].plan.insert
              /\ \A s \in Requests \ {q} :
                   Speaks(session[s].plan) \cap DOMAIN session[q].plan.insert = {})'
  <2>1. CASE q = r
    BY <1>4, <1>6, <2>1
  <2>2. CASE q # r
    BY <1>5, <1>6, <1>7, <2>2
  <2> QED
    BY <2>1, <2>2
<1> QED
  BY <1>2, <1>3, <1>8 DEF Heads

\* Requests end without a commit, or do nothing.
LEMMA DropHeads ==
  ASSUME Base, Heads, db' = db, scenario' = scenario, made' = made,
         \A q \in Requests : session'[q] \in {session[q], Closed}
  PROVE  Heads'
<1>1. made \in Nat /\ made' \in Nat /\ made <= made'
  BY DEF Base
<1>2. Headed(db)'
  BY <1>1, StillProceeds DEF Heads
<1>3. Closed.plan = NoPlan /\ Closed.job = Done
  BY DEF Closed
<1>4. ASSUME NEW q \in Requests
      PROVE  (Attaches(db, session[q].plan) /\ Proceeds(db, session[q].plan, session[q].job))'
  <2> DEFINE s == session'[q]
  <2>1. Attaches(db, s.plan) /\ Proceeds(db, s.plan, s.job)
    <3>1. Attaches(db, NoPlan) /\ Proceeds(db, NoPlan, Done)
      BY NoPlanProceeds
    <3> QED
      BY <1>3, <3>1 DEF Heads
  <2>2. CASE session'[q] = session[q]
    <3>1. Attaches(db, session[q].plan)' /\ Proceeds(db, session[q].plan, session[q].job)'
      <4> DEFINE t == session[q]
      <4>1. Attaches(db, t.plan)' /\ Proceeds(db, t.plan, t.job)'
        BY <1>1, StillProceeds, <2>2 DEF Heads
      <4> QED
        BY <2>2, <4>1
    <3> QED
      BY <3>1
  <2>3. CASE session'[q] = Closed
    <3>1. Attaches(db, NoPlan)' /\ Proceeds(db, NoPlan, Done)'
      BY <1>1, NoPlanProceeds, StillProceeds
    <3> QED
      BY <1>3, <2>3, <3>1
  <2> QED
    BY <2>2, <2>3
<1>5. \A q \in Requests :
        \/ session'[q].plan = session[q].plan
        \/ session'[q].plan = NoPlan
  BY <1>3
<1>6. TableOf(db, "version")' = TableOf(db, "version")
      /\ \A q \in Requests : Speaks(session[q].plan)' = Speaks(session[q].plan)
                             \/ Speaks(session[q].plan)' = {}
  <2>1. Speaks(NoPlan) = {}
    BY NoPlanProceeds
  <2>2. \A q \in Requests : Speaks(session[q].plan)' =
          {i \in Speaks(session'[q].plan) : TRUE}
    BY DEF Speaks, TableOf
  <2>3. TableOf(db, "version")' = TableOf(db, "version")
    BY DEF TableOf
  <2> QED
    BY <1>5, <2>1, <2>2, <2>3
<1>7. ASSUME NEW q \in Requests
      PROVE  (/\ \A v \in TableOf(db, "version") : db[v].onto \notin DOMAIN session[q].plan.insert
              /\ \A s \in Requests \ {q} :
                   Speaks(session[s].plan) \cap DOMAIN session[q].plan.insert = {})'
  <2>1. DOMAIN session'[q].plan.insert = DOMAIN session[q].plan.insert
        \/ DOMAIN session'[q].plan.insert = {}
    BY <1>5, NoPlanProceeds
  <2> QED
    BY <1>6, <2>1 DEF Heads
<1> QED
  BY <1>2, <1>4, <1>7 DEF Heads

\* What is committed promotes something, or publishes nothing.
LEMMA CommittedProceeds ==
  ASSUME NEW d, NEW p, NEW job, Proceeds(d, p, job), job[1] = "commit"
  PROVE  Drafts(d, p) \/ \E o, label : Promotes(d, p, o, label) /\ Publishes(d, p, o, label)
<1>1. ~Between(d, p, job)
  BY DEF Between
<1> QED
  BY <1>1 DEF Proceeds

LEMMA CommitHeads ==
  ASSUME Base, Heads, NEW r \in Requests, Commit(r)
  PROVE  Heads'
<1> DEFINE p == session[r].plan
           d == Written(p)
<1>1. /\ made' = made /\ scenario' = scenario /\ db' = d
      /\ session'[r] = Closed
      /\ \A q \in Requests \ {r} : session'[q] = session[q]
  BY CommitKeeps
<1>2. made \in Nat /\ made <= made' /\ Good(r, p)
  BY <1>1 DEF Base
<1>3. Fits(p) /\ session[r].job[1] = "commit"
  BY DEF Commit
<1>4. /\ Attaches(db, p) /\ Proceeds(db, p, session[r].job) /\ Headed(db)
      /\ \A v \in TableOf(db, "version") : db[v].onto \notin DOMAIN p.insert
      /\ \A q \in Requests \ {r} : Speaks(session[q].plan) \cap DOMAIN p.insert = {}
  BY DEF Heads
<1>5. Drafts(db, p) \/ \E o, label : Promotes(db, p, o, label) /\ Publishes(db, p, o, label)
  BY <1>3, <1>4, CommittedProceeds
<1>6. Closed.plan = NoPlan /\ Closed.job = Done
  BY DEF Closed
<1>7. \A v \in DOMAIN d \cap DOMAIN p.insert : d[v] = p.insert[v]
  BY <1>2, InsertedAfter
<1>8. \A v \in TableOf(d, "version") \ DOMAIN p.insert :
        v \in TableOf(db, "version") /\ d[v].onto = db[v].onto
  <2> SUFFICES ASSUME NEW v \in TableOf(d, "version") \ DOMAIN p.insert
               PROVE  v \in TableOf(db, "version") /\ d[v].onto = db[v].onto
    OBVIOUS
  <2>1. v \in DOMAIN d /\ v \notin DOMAIN p.insert /\ d[v].table = "version"
    BY DEF TableOf
  <2> HIDE DEF p, d
  <2>2. v \in TableOf(db, "version") /\ v \in DOMAIN db /\ d[v].table = db[v].table
    BY <1>2, <1>4, <2>1, SpokenOf DEF d, TableOf
  <2>3. db[v].table = "version" => d[v].onto = db[v].onto
    BY <1>2, <1>4, <2>1, SpokenOf DEF d
  <2> QED
    BY <2>1, <2>2, <2>3
<1>9. ASSUME NEW q \in Requests \ {r}
      PROVE  Attaches(d, session[q].plan) /\ Proceeds(d, session[q].plan, session[q].job)
  <2> DEFINE s == session[q].plan
             job == session[q].job
  <2>1. Attaches(db, s) /\ Speaks(s) \cap DOMAIN p.insert = {} /\ Proceeds(db, s, job)
    BY DEF Heads
  <2> HIDE DEF s, job, p, d
  <2>2. /\ Attaches(d, s)
        /\ Drafts(db, s) => Drafts(d, s)
        /\ \A o, label : Promotes(db, s, o, label) => Promotes(d, s, o, label)
        /\ \A o, label : Publishes(db, s, o, label) => Publishes(d, s, o, label)
        /\ \A j : Between(db, s, j) => Between(d, s, j)
    BY <1>2, <1>3, <1>4, <1>5, <2>1, OthersLast DEF d, p
  <2>3. Proceeds(d, s, job)
    BY <2>1, <2>2 DEF Proceeds
  <2> QED
    BY <2>2, <2>3 DEF s, job
<1>10. Headed(d)
  BY <1>2, <1>3, <1>4, <1>5, HeadedAfter
<1>11. ASSUME NEW v \in TableOf(d, "version"), NEW q \in Requests \ {r}
       PROVE  d[v].onto \notin DOMAIN session[q].plan.insert
  <2>1. CASE v \in DOMAIN p.insert
    <3>1. d[v] = p.insert[v] /\ v \in TableOf(p.insert, "version")
      BY <1>7, <1>11, <2>1 DEF TableOf
    <3>2. d[v].onto \in Speaks(p)
      BY <3>1 DEF Speaks
    <3>3. Speaks(p) \cap DOMAIN session[q].plan.insert = {}
      BY DEF Heads
    <3> QED
      BY <3>2, <3>3
  <2>2. CASE v \notin DOMAIN p.insert
    BY <1>8, <1>11, <2>2 DEF Heads
  <2> QED
    BY <2>1, <2>2
<1> HIDE DEF p, d
<1>12. Headed(db)'
  BY <1>1, <1>2, <1>10, StillProceeds
<1>13. ASSUME NEW q \in Requests
       PROVE  (Attaches(db, session[q].plan) /\ Proceeds(db, session[q].plan, session[q].job))'
  <2>1. CASE q = r
    <3>1. session'[q].plan = NoPlan /\ session'[q].job = Done
      BY <1>1, <1>6, <2>1
    <3>2. db' = d /\ scenario' = scenario /\ made' \in Nat
      BY <1>1, <1>2
    <3> QED
      BY <1>2, <3>1, <3>2, NoPlanProceeds, StillProceeds
  <2>2. CASE q # r
    <3> DEFINE s == session[q]
    <3>1. session'[q] = s /\ Attaches(d, s.plan) /\ Proceeds(d, s.plan, s.job)
      BY <1>1, <1>9, <2>2
    <3>2. db' = d /\ made' \in Nat
      BY <1>1, <1>2
    <3> QED
      BY <1>1, <1>2, <3>1, <3>2, StillProceeds
  <2> QED
    BY <2>1, <2>2
<1>14. /\ TableOf(db, "version")' = TableOf(d, "version")
       /\ DOMAIN session'[r].plan.insert = {}
       /\ \A q \in Requests : Speaks(session[q].plan)' =
            IF q = r THEN {} ELSE Speaks(session[q].plan)
  <2>1. TableOf(db, "version")' = TableOf(d, "version")
    BY <1>1 DEF TableOf
  <2>2. Speaks(NoPlan) = {} /\ DOMAIN NoPlan.insert = {}
    BY NoPlanProceeds
  <2>3. \A q \in Requests : Speaks(session[q].plan)' = Speaks(session'[q].plan)
    BY DEF Speaks, TableOf
  <2> QED
    BY <1>1, <1>6, <2>1, <2>2, <2>3
<1>15. ASSUME NEW q \in Requests
       PROVE  (/\ \A v \in TableOf(db, "version") : db[v].onto \notin DOMAIN session[q].plan.insert
               /\ \A s \in Requests \ {q} :
                    Speaks(session[s].plan) \cap DOMAIN session[q].plan.insert = {})'
  <2>1. CASE q = r
    BY <1>14, <2>1
  <2>2. CASE q # r
    <3>1. session'[q] = session[q]
          /\ \A s \in Requests \ {q} :
               Speaks(session[s].plan) \cap DOMAIN session[q].plan.insert = {}
      BY <1>1, <2>2 DEF Heads
    <3> QED
      BY <1>1, <1>11, <1>14, <2>2, <3>1
  <2> QED
    BY <2>1, <2>2
<1> QED
  BY <1>12, <1>13, <1>15 DEF Heads

LEMMA OpenHeads ==
  ASSUME Base, Heads, NEW r \in Requests, Opens(r),
         NEW plan, NEW job, Begin(r, plan, job), Prepares(r, plan, job)
  PROVE  Heads'
<1>1. PICK p, j, lock :
        Open(r, p, j, lock) /\ Good(r, p) /\ (lock = writer \/ (writer = None /\ lock = r))
  BY DEF Opens
<1>2. /\ session'[r] = [open |-> TRUE, plan |-> plan, job |-> job]
      /\ \A q \in Requests \ {r} : session'[q] = session[q]
      /\ db' = db /\ scenario' = scenario
  BY OpenedAs DEF Begin
<1>3. session'[r] = [open |-> TRUE, plan |-> p, job |-> j]
  BY <1>1, OpenedAs
<1>4. session'[r].plan = plan /\ session'[r].plan = p /\ session'[r].job = job
  BY <1>2, <1>3
<1>5. Base' /\ made' >= made + 1
  BY <1>1, OpenKeeps
<1>6. made \in Nat /\ made' \in Nat /\ made <= made'
  BY <1>5 DEF Base
<1> QED
  BY <1>1, <1>2, <1>4, <1>6, PlanHeads

LEMMA ContinueHeads ==
  ASSUME Base, Heads, NEW r \in Requests, session[r].open, NEW plan, NEW job,
         Continue(r, plan, job), Good(r, plan), Prepares(r, plan, job)
  PROVE  Heads'
<1>1. /\ session'[r] = [open |-> TRUE, plan |-> plan, job |-> job]
      /\ \A q \in Requests \ {r} : session'[q] = session[q]
      /\ db' = db /\ scenario' = scenario
  BY ContinuedAs
<1>2. session'[r].plan = plan /\ session'[r].job = job
  BY <1>1
<1>3. Base' /\ made' >= made
  BY ContinueKeeps
<1>4. made \in Nat /\ made' \in Nat /\ made <= made'
  BY <1>3 DEF Base
<1> QED
  BY <1>1, <1>2, <1>4, PlanHeads

\* A flush changes what the request does next.
LEMMA FlushHeads ==
  ASSUME Base, Heads, NEW r \in Requests, session[r].open, NEW job, Flush(r, job),
         Proceeds(db, session[r].plan, job)
  PROVE  Heads'
<1> DEFINE plan == session[r].plan
<1>1. /\ Base' /\ made' = made /\ db' = db /\ scenario' = scenario
      /\ session'[r] = [open |-> TRUE, plan |-> plan, job |-> job]
      /\ \A q \in Requests \ {r} : session'[q] = session[q]
  BY FlushKeeps
<1>2. session'[r].plan = plan /\ session'[r].job = job
  BY <1>1
<1>3. made \in Nat /\ made' \in Nat /\ made <= made' /\ Good(r, plan)
  BY <1>1 DEF Base
<1>4. Prepares(r, plan, job)
  BY DEF Prepares, Heads
<1> HIDE DEF plan
<1> QED
  BY <1>1, <1>2, <1>3, <1>4, PlanHeads

-----------------------------------------------------------------------------
(* The endpoints of ontologies.                                            *)

LEMMA PreparesNew ==
  ASSUME Base, Heads, NEW r \in Requests, NEW row, Labelled(row),
         row.table = "version" => row.onto \in TableOf(db, "ontology") /\ row.status = "DRAFT",
         Uses("versions") => row.table = "version"
  PROVE  Prepares(r, New(row), Done) /\ Attaches(db, New(row)) /\ Drafts(db, New(row))
<1> DEFINE e == made + 1
           p == New(row)
<1>1. p = [insert |-> Only(e, row), update |-> Nothing, delete |-> {}]
  BY DEF New, NoPlan
<1>2. e \notin 1 .. made /\ made \in Nat
  BY DEF Base
<1> HIDE DEF e
<1>3. p.insert = Only(e, row) /\ p.update = Nothing /\ p.delete = {}
  BY <1>1
<1> HIDE DEF p
<1>4. DOMAIN p.insert = {e} /\ p.insert[e] = row /\ DOMAIN p.update = {}
  BY <1>3 DEF Only, Nothing
<1>5. TableOf(p.insert, "version") = IF row.table = "version" THEN {e} ELSE {}
  BY <1>4 DEF TableOf
<1>6. row.table = "version" =>
        /\ row.onto \in DOMAIN db /\ row.onto \in 1 .. made /\ row.onto # e
        /\ Belongs(db, row.onto)
  BY <1>2 DEF TableOf, Base, Belongs
<1>7. Speaks(p) = IF row.table = "version" THEN {row.onto} ELSE {}
  BY <1>3, <1>4, <1>5 DEF Speaks
<1>8. Attaches(db, p)
  BY <1>3, <1>4, <1>5, <1>6, <1>7 DEF Attaches, Belongs
<1>9. Drafts(db, p)
  BY <1>3, <1>4, <1>5 DEF Drafts
<1>10. Prepares(r, p, Done)
  BY <1>2, <1>4, <1>6, <1>7, <1>8, <1>9 DEF Prepares, Proceeds
<1> QED
  BY <1>8, <1>9, <1>10 DEF p

LEMMA PreparesDrop ==
  ASSUME Base, Heads, NEW r \in Requests, NEW ids, ids \subseteq DOMAIN db,
         \A v \in ids \cap TableOf(db, "version") : db[v].onto \in ids
  PROVE  Prepares(r, Drop(ids), Done)
<1> DEFINE p == Drop(ids)
<1>1. p = [insert |-> Nothing, update |-> Nothing, delete |-> ids]
  BY DEF Drop, NoPlan
<1>2. p.insert = Nothing /\ p.update = Nothing /\ p.delete = ids
  BY <1>1
<1> HIDE DEF p
<1>3. DOMAIN p.insert = {} /\ DOMAIN p.update = {} /\ TableOf(p.insert, "version") = {}
  BY <1>2 DEF Nothing, TableOf
<1>4. Speaks(p) = ids /\ ids \subseteq 1 .. made
  BY <1>2, <1>3 DEF Speaks, Base
<1>5. Attaches(db, p) /\ Drafts(db, p)
  BY <1>2, <1>3, <1>4 DEF Attaches, Drafts
<1>6. Prepares(r, p, Done)
  BY <1>3, <1>4, <1>5 DEF Prepares, Proceeds
<1> QED
  BY <1>6 DEF p

\* The columns that are to get a new value.
LEMMA SetIs ==
  ASSUME NEW i, NEW columns, NEW p, p = Set(i, columns)
  PROVE  /\ IsPlan(p) /\ p.insert = Nothing /\ p.delete = {}
         /\ DOMAIN p.update \subseteq {i}
         /\ \A j \in DOMAIN p.update :
              /\ DOMAIN p.update[j] \subseteq DOMAIN columns
              /\ \A c \in DOMAIN p.update[j] : p.update[j][c] = columns[c]
         /\ \A c \in DOMAIN columns :
              db[i][c] # columns[c] => i \in DOMAIN p.update /\ c \in DOMAIN p.update[i]
<1> DEFINE changed == {c \in DOMAIN columns : db[i][c] # columns[c]}
           update == IF changed = {} THEN Nothing ELSE Only(i, [c \in changed |-> columns[c]])
<1>1. p = [insert |-> Nothing, update |-> update, delete |-> {}]
  BY DEF Set, NoPlan
<1>2. /\ DOMAIN update \subseteq {i}
      /\ \A j \in DOMAIN update : DOMAIN update[j] = changed /\ j = i
                                  /\ \A c \in changed : update[j][c] = columns[c]
      /\ changed # {} => i \in DOMAIN update
  <2>1. CASE changed = {}
    BY <2>1 DEF Nothing
  <2>2. CASE changed # {}
    BY <2>2 DEF Only
  <2> QED
    BY <2>1, <2>2
<1> HIDE DEF update
<1>3. IsPlan(p) /\ p.insert = Nothing /\ p.update = update /\ p.delete = {}
  BY <1>1 DEF IsPlan
<1>4. \A c \in DOMAIN columns : db[i][c] # columns[c] => c \in changed
  OBVIOUS
<1>5. changed \subseteq DOMAIN columns
  OBVIOUS
<1> HIDE DEF changed
<1>6. \A c \in DOMAIN columns :
        db[i][c] # columns[c] => i \in DOMAIN update /\ c \in DOMAIN update[i]
  BY <1>2, <1>4
<1> QED
  BY <1>2, <1>3, <1>5, <1>6

LEMMA PreparesSet ==
  ASSUME Base, Heads, NEW r \in Requests, NEW i \in DOMAIN db, NEW columns,
         {"onto", "label", "head"} \cap DOMAIN columns = {},
         "status" \in DOMAIN columns => i \notin TableOf(db, "version")
  PROVE  Prepares(r, Set(i, columns), Done)
<1> DEFINE p == Set(i, columns)
<1>1. /\ p.insert = Nothing /\ p.delete = {} /\ DOMAIN p.update \subseteq {i}
      /\ \A j \in DOMAIN p.update : DOMAIN p.update[j] \subseteq DOMAIN columns
  BY SetIs
<1> HIDE DEF p
<1>2. DOMAIN p.insert = {} /\ TableOf(p.insert, "version") = {}
  BY <1>1 DEF Nothing, TableOf
<1>3. Speaks(p) \subseteq {i} /\ i \in 1 .. made
  BY <1>1, <1>2 DEF Speaks, Base
<1>4. Attaches(db, p) /\ Drafts(db, p)
  BY <1>1, <1>2, <1>3 DEF Attaches, Drafts
<1>5. Prepares(r, p, Done)
  BY <1>2, <1>3, <1>4 DEF Prepares, Proceeds
<1> QED
  BY <1>5 DEF p

LEMMA PreparesPublish ==
  ASSUME Base, Heads, Uses("versions"), NEW r \in Requests, NEW o \in Rows("ontology"),
         db[o].status # "PUBLISHED", NEW label
  PROVE  Prepares(r, Set(o, [head |-> label, status |-> "PUBLISHED"]), <<"publish", o, label>>)
<1> DEFINE columns == [head |-> label, status |-> "PUBLISHED"]
           p == Set(o, columns)
<1>1. DOMAIN columns = {"head", "status"} /\ columns.head = label
      /\ columns.status = "PUBLISHED"
  OBVIOUS
<1> HIDE DEF columns
<1>2. /\ p.insert = Nothing /\ p.delete = {} /\ DOMAIN p.update \subseteq {o}
      /\ \A j \in DOMAIN p.update :
           /\ DOMAIN p.update[j] \subseteq DOMAIN columns
           /\ \A c \in DOMAIN p.update[j] : p.update[j][c] = columns[c]
      /\ \A c \in DOMAIN columns :
           db[o][c] # columns[c] => o \in DOMAIN p.update /\ c \in DOMAIN p.update[o]
  BY SetIs
<1> HIDE DEF p
<1>3. DOMAIN p.insert = {} /\ TableOf(p.insert, "version") = {}
  BY <1>2 DEF Nothing, TableOf
<1>4. o \in DOMAIN db /\ db[o].table = "ontology" /\ o \in 1 .. made
  BY DEF Rows, Base
<1>5. Speaks(p) \subseteq {o} /\ o \in DOMAIN p.update
  BY <1>1, <1>2, <1>3 DEF Speaks
<1>6. Attaches(db, p)
  BY <1>1, <1>2, <1>3, <1>4, <1>5 DEF Attaches
<1>7. Promotes(db, p, o, label)
  <2>1. o \notin TableOf(db, "version")
    BY <1>4 DEF TableOf
  <2>2. \A i \in DOMAIN p.update : "head" \in DOMAIN p.update[i] => i = o /\ p.update[i].head = label
    BY <1>1, <1>2
  <2>3. \/ o \in DOMAIN p.update /\ "head" \in DOMAIN p.update[o]
        \/ db[o].head = label
    BY <1>1, <1>2
  <2> QED
    BY <1>2, <1>3, <2>1, <2>2, <2>3 DEF Promotes
<1>8. Between(db, p, <<"publish", o, label>>)
  BY <1>3, <1>4, <1>5, <1>7 DEF Between, Belongs
<1>9. Prepares(r, p, <<"publish", o, label>>)
  BY <1>3, <1>4, <1>5, <1>6, <1>8 DEF Prepares, Proceeds
<1> QED
  BY <1>9 DEF p, columns

LEMMA PreparesPublishVersion ==
  ASSUME Base, Heads, Uses("versions"), NEW r \in Requests, NEW v \in Rows("version"),
         db[v].onto \in DOMAIN db, db[v].status = "DRAFT", NEW stamp, NEW head,
         stamp = [status |-> "PUBLISHED", at |-> made + 1],
         head = [head |-> db[v].label, status |-> "PUBLISHED"]
  PROVE  Prepares(r, And(Set(v, stamp), Set(db[v].onto, head)), Done)
<1> DEFINE o == db[v].onto
           label == db[v].label
           p == Set(v, stamp)
           q == Set(o, head)
           pq == And(p, q)
<1>1. /\ v \in DOMAIN db /\ db[v].table = "version" /\ v \in TableOf(db, "version")
      /\ o \in DOMAIN db /\ db[o].table = "ontology"
      /\ v # o /\ v \in 1 .. made /\ o \in 1 .. made
  <2>1. v \in DOMAIN db /\ db[v].table = "version" /\ v \in TableOf(db, "version")
    BY DEF Rows, TableOf
  <2>2. db[o].table = "ontology"
    BY <2>1 DEF Heads, Headed, Belongs
  <2> QED
    BY <2>1, <2>2 DEF Base
<1>2. /\ DOMAIN stamp = {"status", "at"} /\ stamp.status = "PUBLISHED"
      /\ DOMAIN head = {"head", "status"} /\ head.head = label /\ head.status = "PUBLISHED"
  OBVIOUS
<1>3. /\ p.insert = Nothing /\ p.delete = {} /\ DOMAIN p.update \subseteq {v}
      /\ \A j \in DOMAIN p.update :
           /\ DOMAIN p.update[j] \subseteq {"status", "at"}
           /\ \A c \in DOMAIN p.update[j] : p.update[j][c] = stamp[c]
      /\ v \in DOMAIN p.update /\ "status" \in DOMAIN p.update[v]
  BY <1>2, SetIs
<1>4. /\ q.insert = Nothing /\ q.delete = {} /\ DOMAIN q.update \subseteq {o}
      /\ \A j \in DOMAIN q.update :
           /\ DOMAIN q.update[j] \subseteq {"head", "status"}
           /\ \A c \in DOMAIN q.update[j] : q.update[j][c] = head[c]
      /\ db[o].head = label \/ (o \in DOMAIN q.update /\ "head" \in DOMAIN q.update[o])
  <2>1. \A c \in DOMAIN head :
           db[o][c] # head[c] => o \in DOMAIN q.update /\ c \in DOMAIN q.update[o]
    BY SetIs
  <2>2. /\ q.insert = Nothing /\ q.delete = {} /\ DOMAIN q.update \subseteq {o}
        /\ \A j \in DOMAIN q.update :
             /\ DOMAIN q.update[j] \subseteq DOMAIN head
             /\ \A c \in DOMAIN q.update[j] : q.update[j][c] = head[c]
    BY SetIs
  <2> QED
    BY <1>2, <2>1, <2>2
<1>5. pq.insert = Over(p.insert, q.insert) /\ pq.update = Over(p.update, q.update)
      /\ pq.delete = {}
  BY <1>3, <1>4 DEF And
<1> HIDE DEF p, q, pq
<1>6. DOMAIN pq.insert = {} /\ TableOf(pq.insert, "version") = {}
  BY <1>3, <1>4, <1>5 DEF Over, Nothing, TableOf
<1>7. /\ DOMAIN pq.update = DOMAIN p.update \cup DOMAIN q.update
      /\ \A i \in DOMAIN pq.update :
           pq.update[i] = IF i \in DOMAIN p.update THEN p.update[i] ELSE q.update[i]
  BY <1>5 DEF Over
<1>8. /\ v \in DOMAIN pq.update /\ pq.update[v] = p.update[v]
      /\ \A i \in DOMAIN pq.update : i = v \/ (i = o /\ i \in DOMAIN q.update
                                               /\ pq.update[i] = q.update[i])
      /\ o \in DOMAIN q.update => o \in DOMAIN pq.update /\ pq.update[o] = q.update[o]
  BY <1>1, <1>3, <1>4, <1>7
<1>9. Speaks(pq) \subseteq {v, o}
  BY <1>5, <1>6, <1>8 DEF Speaks
<1> HIDE DEF o, label
<1>10. Attaches(db, pq)
  BY <1>1, <1>3, <1>4, <1>6, <1>8, <1>9 DEF Attaches
<1>11. Promotes(db, pq, o, label)
  <2>1. ASSUME NEW i \in DOMAIN pq.update, "head" \in DOMAIN pq.update[i]
        PROVE  i = o /\ pq.update[i].head = label
    BY <1>2, <1>3, <1>4, <1>8, <2>1
  <2>2. ASSUME NEW i \in DOMAIN pq.update, "status" \in DOMAIN pq.update[i],
               i \in TableOf(db, "version")
        PROVE  pq.update[i].status = "PUBLISHED" /\ db[i].onto = o /\ db[i].label = label
    <3>1. i = v
      BY <1>1, <1>8, <2>2 DEF TableOf
    <3> QED
      BY <1>2, <1>3, <1>8, <2>2, <3>1 DEF o, label
  <2>3. \/ o \in DOMAIN pq.update /\ "head" \in DOMAIN pq.update[o]
        \/ db[o].head = label
    BY <1>4, <1>8
  <2> QED
    BY <1>5, <1>6, <2>1, <2>2, <2>3 DEF Promotes
<1>12. Publishes(db, pq, o, label)
  BY <1>1, <1>3, <1>8 DEF Publishes, o, label
<1>13. Prepares(r, pq, Done)
  BY <1>1, <1>6, <1>9, <1>10, <1>11, <1>12 DEF Prepares, Proceeds
<1> QED
  BY <1>13 DEF pq, p, q, o

\* What is deleted with some elements is elements.
LEMMA DependentsAreContent ==
  ASSUME NEW ids, ids \subseteq DOMAIN db, \A i \in ids : db[i].table \in Content
  PROVE  /\ WithDependents(ids) \subseteq DOMAIN db
         /\ \A i \in WithDependents(ids) : db[i].table \in Content
BY DEF WithDependents, Attached

LEMMA PreparesDeletion ==
  ASSUME Base, Heads, NEW r \in Requests, NEW o \in Rows("ontology")
  PROVE  Prepares(r, Drop({o} \cup Of(o, "version")
                          \cup WithDependents(Elements(o) \ Of(o, "constraint"))), Done)
<1> DEFINE elements == Elements(o) \ Of(o, "constraint")
           ids == {o} \cup Of(o, "version") \cup WithDependents(elements)
<1>1. elements \subseteq DOMAIN db /\ \A i \in elements : db[i].table \in Content
  BY DEF Elements, Of, Rows
<1> HIDE DEF elements
<1>2. /\ WithDependents(elements) \subseteq DOMAIN db
      /\ \A i \in WithDependents(elements) : db[i].table \in Content
  BY <1>1, DependentsAreContent
<1>3. o \in DOMAIN db /\ db[o].table = "ontology" /\ "version" \notin Content
      /\ Of(o, "version") \subseteq DOMAIN db /\ \A v \in Of(o, "version") : db[v].onto = o
  BY DEF Rows, Of, Content
<1>4. ids \subseteq DOMAIN db
  BY <1>2, <1>3
<1>5. \A v \in ids \cap TableOf(db, "version") : db[v].onto \in ids
  BY <1>2, <1>3 DEF TableOf
<1> HIDE DEF ids
<1>6. Prepares(r, Drop(ids), Done)
  BY <1>4, <1>5, PreparesDrop
<1> QED
  BY <1>6 DEF ids, elements

LEMMA VersionHeads ==
  ASSUME Base, Heads, Uses("versions"), NEW r \in Requests, VersionRequest(r)
  PROVE  Heads'
<1>1. ASSUME NEW plan, NEW job, Begin(r, plan, job), Prepares(r, plan, job)
      PROVE  Heads'
  BY <1>1, ContentRequestOpens, OpenHeads
<1>2. \A table : Rows(table) = TableOf(db, table)
  BY DEF Rows, TableOf
<1>3. CASE UpdateOntologyStatus(r)
  <2>1. PICK o \in Rows("ontology"), s \in OntologyStatus : Begin(r, Set(o, [status |-> s]), Done)
    BY <1>3 DEF UpdateOntologyStatus
  <2>2. o \in DOMAIN db /\ o \notin TableOf(db, "version")
    BY DEF Rows, TableOf
  <2>3. Prepares(r, Set(o, [status |-> s]), Done)
    BY <2>2, PreparesSet
  <2> QED
    BY <1>1, <2>1, <2>3
<1>4. CASE PublishOntology(r)
  <2>1. PICK o \in Rows("ontology"), label \in Labels :
          /\ db[o].status \notin {"PUBLISHED", "ARCHIVED"}
          /\ Begin(r, Set(o, [head |-> label, status |-> "PUBLISHED"]), <<"publish", o, label>>)
    BY <1>4 DEF PublishOntology
  <2>2. Prepares(r, Set(o, [head |-> label, status |-> "PUBLISHED"]), <<"publish", o, label>>)
    BY <2>1, PreparesPublish
  <2> QED
    BY <1>1, <2>1, <2>2
<1>5. CASE CreateDraftVersion(r)
  <2>1. PICK o \in Rows("ontology"), label \in Labels :
          \E snapshot, base : Begin(r, New(Version(o, label, "DRAFT", None, snapshot, base)), Done)
    BY <1>5 DEF CreateDraftVersion
  <2>2. PICK snapshot, base : Begin(r, New(Version(o, label, "DRAFT", None, snapshot, base)), Done)
    BY <2>1
  <2> DEFINE row == Version(o, label, "DRAFT", None, snapshot, base)
  <2>3. Labelled(row) /\ row.table = "version" /\ row.status = "DRAFT" /\ row.onto = o
    BY DEF Version, Labelled
  <2>4. Begin(r, New(row), Done)
    BY <2>2
  <2> HIDE DEF row
  <2>5. Prepares(r, New(row), Done)
    BY <1>2, <2>3, PreparesNew
  <2> QED
    BY <1>1, <2>4, <2>5
<1>6. CASE UpdateVersionContent(r)
  <2>1. PICK v \in Rows("version") : Begin(r, Set(v, [snapshot |-> {}]), Done)
    BY <1>6 DEF UpdateVersionContent
  <2>2. v \in DOMAIN db
    BY DEF Rows
  <2>3. Prepares(r, Set(v, [snapshot |-> {}]), Done)
    BY <2>2, PreparesSet
  <2> QED
    BY <1>1, <2>1, <2>3
<1>7. CASE PublishVersion(r)
  <2> DEFINE stamp == [status |-> "PUBLISHED", at |-> made + 1]
             head(v) == [head |-> db[v].label, status |-> "PUBLISHED"]
  <2>1. PICK v \in Rows("version") :
          /\ db[v].onto \in DOMAIN db /\ db[v].status = "DRAFT"
          /\ Begin(r, And(Set(v, stamp), Set(db[v].onto, head(v))), Done)
    BY <1>7 DEF PublishVersion, Rows
  <2>2. Prepares(r, And(Set(v, stamp), Set(db[v].onto, head(v))), Done)
    BY <2>1, PreparesPublishVersion
  <2> HIDE DEF stamp, head
  <2> QED
    BY <1>1, <2>1, <2>2
<1>8. CASE DeleteOntology(r)
  <2>1. PICK o \in Rows("ontology") :
          Begin(r, Drop({o} \cup Of(o, "version")
                        \cup WithDependents(Elements(o) \ Of(o, "constraint"))), Done)
    BY <1>8 DEF DeleteOntology
  <2> QED
    BY <1>1, <2>1, PreparesDeletion
<1> QED
  BY <1>3, <1>4, <1>5, <1>6, <1>7, <1>8 DEF VersionRequest

LEMMA ContentHeads ==
  ASSUME Base, Heads, Uses("content"), NEW r \in Requests, ContentRequest(r)
  PROVE  Heads'
<1>1. ASSUME NEW plan, NEW job, Begin(r, plan, job), Prepares(r, plan, job)
      PROVE  Heads'
  BY <1>1, ContentRequestOpens, OpenHeads
<1>2. ~Uses("versions")
  BY DEF Uses
<1>3. CASE CreateOntology(r)
  <2>1. PICK ns \in Namespaces : Begin(r, New(Ontology(ns, None)), Done)
    BY <1>3 DEF CreateOntology
  <2>2. Labelled(Ontology(ns, None)) /\ Ontology(ns, None).table = "ontology"
    BY DEF Ontology, Labelled
  <2>3. Prepares(r, New(Ontology(ns, None)), Done)
    BY <1>2, <2>2, PreparesNew
  <2> QED
    BY <1>1, <2>1, <2>3
<1>4. CASE UpdateOntology(r)
  <2>1. PICK o \in Rows("ontology") : Begin(r, Set(o, [rev |-> 1]), Done)
    BY <1>4 DEF UpdateOntology
  <2>2. o \in DOMAIN db
    BY DEF Rows
  <2>3. Prepares(r, Set(o, [rev |-> 1]), Done)
    BY <2>2, PreparesSet
  <2> QED
    BY <1>1, <2>1, <2>3
<1>5. CASE DeleteOntology(r)
  <2>1. PICK o \in Rows("ontology") :
          Begin(r, Drop({o} \cup Of(o, "version")
                        \cup WithDependents(Elements(o) \ Of(o, "constraint"))), Done)
    BY <1>5 DEF DeleteOntology
  <2> QED
    BY <1>1, <2>1, PreparesDeletion
<1>6. ASSUME NEW table \in Content, NEW o, NEW iri, NEW ref, NEW link, NEW rev,
             Begin(r, New(Element(table, o, iri, ref, link, rev)), Done)
      PROVE  Heads'
  <2> DEFINE row == Element(table, o, iri, ref, link, rev)
  <2>1. Labelled(row) /\ row.table # "version"
    BY DEF Element, Labelled, Content
  <2> HIDE DEF row
  <2>2. Prepares(r, New(row), Done)
    BY <1>2, <2>1, PreparesNew
  <2> QED
    BY <1>1, <1>6, <2>2 DEF row
<1>7. CASE CreateClass(r) \/ CreateProperty(r) \/ CreateRelation(r) \/ CreateConstraint(r)
  <2>1. {"class", "property", "relation", "constraint"} \subseteq Content
    BY DEF Content
  <2>2. CASE CreateClass(r)
    BY <1>6, <2>1, <2>2 DEF CreateClass
  <2>3. CASE CreateProperty(r)
    BY <1>6, <2>1, <2>3 DEF CreateProperty
  <2>4. CASE CreateRelation(r)
    BY <1>6, <2>1, <2>4 DEF CreateRelation
  <2>5. CASE CreateConstraint(r)
    BY <1>6, <2>1, <2>5 DEF CreateConstraint
  <2> QED
    BY <1>7, <2>2, <2>3, <2>4, <2>5
<1>8. ASSUME NEW table, Edit(r, table) PROVE Heads'
  <2>1. PICK i \in Rows(table) : \E rev : Begin(r, Set(i, [rev |-> rev]), Done)
    BY <1>8 DEF Edit
  <2>2. PICK rev : Begin(r, Set(i, [rev |-> rev]), Done)
    BY <2>1
  <2>3. i \in DOMAIN db
    BY DEF Rows
  <2>4. Prepares(r, Set(i, [rev |-> rev]), Done)
    BY <2>3, PreparesSet
  <2> QED
    BY <1>1, <2>2, <2>4
<1>9. ASSUME NEW table \in Content, Delete(r, table) PROVE Heads'
  <2>1. PICK i \in Rows(table) : Begin(r, Drop(WithDependents({i})), Done)
    BY <1>9 DEF Delete
  <2>2. {i} \subseteq DOMAIN db /\ \A j \in {i} : db[j].table \in Content
    BY <1>9 DEF Rows
  <2> DEFINE ids == WithDependents({i})
  <2>3. ids \subseteq DOMAIN db /\ \A j \in ids : db[j].table \in Content
    BY <2>2, DependentsAreContent
  <2> HIDE DEF ids
  <2>4. \A v \in ids \cap TableOf(db, "version") : db[v].onto \in ids
    BY <2>3 DEF TableOf, Content
  <2>5. Prepares(r, Drop(ids), Done)
    BY <2>3, <2>4, PreparesDrop
  <2> QED
    BY <1>1, <2>1, <2>5 DEF ids
<1>10. CASE ForkOntology(r)
  <2>1. PICK src \in Rows("ontology"), ns \in Namespaces, tag \in Labels :
          Begin(r, New(Ontology(ns, tag)), <<"fork", src, made + 1>>)
    BY <1>10 DEF ForkOntology
  <2> DEFINE row == Ontology(ns, tag)
             job == <<"fork", src, made + 1>>
  <2>2. Labelled(row) /\ row.table = "ontology"
    BY DEF Ontology, Labelled
  <2> HIDE DEF row
  <2>3. Prepares(r, New(row), Done) /\ Drafts(db, New(row))
    BY <1>2, <2>2, PreparesNew
  <2>4. made + 1 \in TableOf(New(row).insert, "ontology")
    <3>1. New(row).insert = Only(made + 1, row)
      BY DEF New, NoPlan
    <3> QED
      BY <2>2, <3>1 DEF TableOf, Only
  <2>5. Proceeds(db, New(row), job)
    BY <2>3, <2>4 DEF Proceeds, Forking
  <2> HIDE DEF job
  <2>6. Prepares(r, New(row), job)
    BY <2>3, <2>5 DEF Prepares
  <2> QED
    BY <1>1, <2>1, <2>6 DEF row, job
<1>11. {"class", "property", "relation", "constraint"} \subseteq Content
  BY DEF Content
<1> QED
  BY <1>3, <1>4, <1>5, <1>7, <1>8, <1>9, <1>10, <1>11
     DEF ContentRequest, UpdateClass, UpdateProperty, UpdateConstraint,
         DeleteClass, DeleteProperty, DeleteRelation, DeleteConstraint

LEMMA BetweenPublications ==
  ASSUME NEW d, NEW p, NEW job, Proceeds(d, p, job), job[1] \in {"publish", "publish rest"}
  PROVE  /\ Between(d, p, job) /\ Promotes(d, p, job[2], job[3]) /\ DOMAIN p.insert = {}
         /\ job[2] \in DOMAIN p.update /\ Belongs(d, job[2])
<1>1. Done[1] = "commit"
  BY DEF Done
<1>2. job # Done /\ ~Forking(p, job)
  BY <1>1 DEF Forking
<1>3. Between(d, p, job)
  BY <1>2 DEF Proceeds
<1> QED
  BY <1>3 DEF Between

LEMMA ReadsClassesHeads ==
  ASSUME Base, Heads, NEW r \in Requests, session[r].open, PublishReadsClasses(r)
  PROVE  Heads'
<1> DEFINE plan == session[r].plan
           job == session[r].job
           next == <<"publish rest", job[2], job[3], Snapshot(Of(job[2], "class"))>>
<1>1. job[1] = "publish" /\ Continue(r, plan, next)
  BY DEF PublishReadsClasses
<1>2. Attaches(db, plan) /\ Proceeds(db, plan, job)
  BY DEF Heads
<1>3. /\ Promotes(db, plan, job[2], job[3]) /\ DOMAIN plan.insert = {}
      /\ job[2] \in DOMAIN plan.update /\ Belongs(db, job[2])
  BY <1>1, <1>2, BetweenPublications
<1>4. Between(db, plan, next)
  BY <1>3 DEF Between
<1> HIDE DEF next
<1>5. Prepares(r, plan, next)
  BY <1>2, <1>4 DEF Prepares, Proceeds
<1>6. Good(r, plan)
  BY DEF Base
<1> QED
  BY <1>1, <1>5, <1>6, ContinueHeads

LEMMA ReadsRestHeads ==
  ASSUME Base, Heads, NEW r \in Requests, session[r].open, PublishReadsRest(r)
  PROVE  Heads'
<1> DEFINE p == session[r].plan
           job == session[r].job
           o == job[2]
           label == job[3]
           snapshot == job[4] \cup Snapshot(Elements(o) \ Of(o, "class"))
           row == Version(o, label, "PUBLISHED", made, snapshot, None)
           q == AndNew(p, row)
           e == Max({made} \cup DOMAIN p.insert) + 1
<1>1. job[1] = "publish rest" /\ Continue(r, q, Done)
  BY DEF PublishReadsRest
<1>2. Attaches(db, p) /\ Proceeds(db, p, job) /\ Good(r, p)
  BY DEF Heads, Base
<1>3. /\ Promotes(db, p, o, label) /\ DOMAIN p.insert = {}
      /\ o \in DOMAIN p.update /\ Belongs(db, o)
      /\ Uses("versions")
  <2>1. Promotes(db, p, o, label) /\ DOMAIN p.insert = {}
        /\ o \in DOMAIN p.update /\ Belongs(db, o)
    BY <1>1, <1>2, BetweenPublications
  <2> HIDE DEF p, o, label, job
  <2> QED
    BY <2>1 DEF Promotes
<1>4. row.table = "version" /\ row.onto = o /\ row.label = label /\ row.status = "PUBLISHED"
      /\ Labelled(row) /\ HasTable(row)
  BY <1>3, OntologyTables DEF Version, Labelled, HasTable
<1>5. e \in Nat /\ e \notin 1 .. made /\ made \in Nat
  <2>1. made \in Nat /\ DOMAIN p.insert \subseteq 0 .. 0 /\ 0 \in Nat
    BY <1>3 DEF Base
  <2>2. Max({made} \cup DOMAIN p.insert) \in Nat /\ made <= Max({made} \cup DOMAIN p.insert)
    BY <2>1, MaxAbove
  <2> QED
    BY <2>1, <2>2
<1>6. Good(r, q)
  BY <1>2, <1>4, GoodAndNew
<1>7. q = [insert |-> Over(p.insert, Only(e, row)), update |-> p.update, delete |-> p.delete]
  BY <1>2 DEF AndNew, Good, IsPlan
<1> HIDE DEF row, e, q, p, label, o
<1>8. q.insert = Over(p.insert, Only(e, row)) /\ q.update = p.update /\ q.delete = p.delete
  BY <1>7
<1>9. DOMAIN q.insert = {e} /\ q.insert[e] = row /\ TableOf(q.insert, "version") = {e}
  <2>1. DOMAIN q.insert = {e} /\ q.insert[e] = row
    BY <1>3, <1>8 DEF Over, Only
  <2> QED
    BY <1>4, <2>1 DEF TableOf
<1>10. o \in Speaks(p) /\ Speaks(p) \subseteq 1 .. made
  BY <1>2, <1>3 DEF Speaks, Attaches
<1>11. Speaks(q) \subseteq Speaks(p)
  BY <1>4, <1>8, <1>9, <1>10 DEF Speaks
<1>12. Attaches(db, q)
  BY <1>2, <1>3, <1>4, <1>5, <1>8, <1>9, <1>10, <1>11 DEF Attaches, Belongs
<1>13. Promotes(db, q, o, label)
  BY <1>3, <1>4, <1>8, <1>9 DEF Promotes
<1>14. Publishes(db, q, o, label)
  BY <1>4, <1>9 DEF Publishes
<1>15. Prepares(r, q, Done)
  BY <1>5, <1>9, <1>11, <1>12, <1>13, <1>14 DEF Prepares, Proceeds, p
<1> QED
  BY <1>1, <1>6, <1>15, ContinueHeads

\* What a fork has to do, by its job.
LEMMA ForkProceeds ==
  ASSUME NEW d, NEW p, NEW job, Proceeds(d, p, job), job[1] \in {"fork", "copy", "copy rest"}
  PROVE  /\ Drafts(d, p) /\ Forking(p, job) /\ job[3] \in TableOf(p.insert, "ontology")
         /\ ~Uses("versions")
<1>1. Drafts(d, p) /\ Forking(p, job)
  <2>1. Done[1] = "commit"
    BY DEF Done
  <2>2. job # Done /\ ~Between(d, p, job)
    BY <2>1 DEF Between
  <2> QED
    BY <2>2 DEF Proceeds
<1>2. ~Uses("versions")
  BY <1>1 DEF Forking, Drafts, TableOf
<1> QED
  BY <1>1, <1>2 DEF Forking

LEMMA ForkFlushHeads ==
  ASSUME Base, Heads, NEW r \in Requests, session[r].open, ForkFlushes(r)
  PROVE  Heads'
<1> DEFINE plan == session[r].plan
           job == session[r].job
           next == [job EXCEPT ![1] = "copy"]
<1>1. job[1] = "fork" /\ Flush(r, next)
  BY DEF ForkFlushes
<1>2. Proceeds(db, plan, job)
  BY DEF Heads
<1>3. Drafts(db, plan) /\ Forking(plan, job)
  BY <1>1, <1>2, ForkProceeds
<1> HIDE DEF job
<1>4. next[1] = "copy" /\ next[3] = job[3] /\ DOMAIN next = DOMAIN job
  <2>1. {1, 3} \subseteq DOMAIN job
    BY <1>3 DEF Forking
  <2>2. \A f : {1, 3} \subseteq DOMAIN f =>
          LET g == [f EXCEPT ![1] = "copy"]
          IN g[1] = "copy" /\ g[3] = f[3] /\ DOMAIN g = DOMAIN f
    OBVIOUS
  <2> QED
    BY <2>1, <2>2
<1> HIDE DEF next
<1>5. Proceeds(db, plan, next)
  BY <1>3, <1>4 DEF Proceeds, Forking
<1> QED
  BY <1>1, <1>5, FlushHeads

\* The rows that a fork copies are elements.
LEMMA CopiesAre ==
  ASSUME Base, NEW ids, ids \subseteq DOMAIN db, \A i \in ids : db[i].table \in Content,
         NEW o, NEW ns, NEW c, c = Copies(ids, o, ns)
  PROVE  /\ c.update = Nothing /\ c.delete = {}
         /\ \A i \in DOMAIN c.insert : i \notin 1 .. made /\ c.insert[i].table \in Content
<1> DEFINE ins == [i \in {made + j : j \in ids} |-> Forked(db[i - made], o, ns)]
<1>1. c = [insert |-> ins, update |-> Nothing, delete |-> {}]
  BY DEF Copies, NoPlan
<1>2. made \in Nat /\ \A j \in ids : j \in 1 .. made /\ "table" \in DOMAIN db[j]
  BY DEF Base, HasTable
<1>3. ASSUME NEW i \in DOMAIN ins PROVE i \notin 1 .. made /\ ins[i].table \in Content
  <2>1. PICK j \in ids : i = made + j
    BY <1>3
  <2>2. i \in Nat /\ made < i /\ i - made = j
    BY <1>2, <2>1
  <2>3. ins[i] = Forked(db[j], o, ns)
    BY <1>3, <2>2
  <2>4. Forked(db[j], o, ns).table = db[j].table
    BY <1>2 DEF Forked
  <2> QED
    BY <1>2, <2>2, <2>3, <2>4
<1> HIDE DEF ins
<1> QED
  BY <1>1, <1>3

\* The plan q is p and inserts more.
Enlarges(p, q) ==
  /\ DOMAIN q.update = DOMAIN p.update /\ q.delete = p.delete
  /\ \A i \in DOMAIN p.update : q.update[i] = p.update[i]
  /\ DOMAIN p.insert \subseteq DOMAIN q.insert
  /\ \A i \in DOMAIN p.insert : q.insert[i] = p.insert[i]

EnlargesByContent(p, q) ==
  /\ Enlarges(p, q)
  /\ \A i \in DOMAIN q.insert \ DOMAIN p.insert :
       i \notin 1 .. made /\ q.insert[i].table \in Content

\* A fork gets more rows: elements, or a draft of the new ontology.
LEMMA ForkGrows ==
  ASSUME Base, Heads, NEW r \in Requests, ~Uses("versions"), NEW q,
         LET p == session[r].plan
         IN /\ Drafts(db, p)
            /\ Enlarges(p, q)
            /\ \A i \in DOMAIN q.insert \ DOMAIN p.insert :
                 /\ i \notin 1 .. made
                 /\ \/ q.insert[i].table \in Content
                    \/ /\ Labelled(q.insert[i]) /\ q.insert[i].status = "DRAFT"
                       /\ q.insert[i].onto \in TableOf(p.insert, "ontology")
  PROVE  /\ Prepares(r, q, Done) /\ Drafts(db, q)
         /\ TableOf(session[r].plan.insert, "ontology") \subseteq TableOf(q.insert, "ontology")
         /\ \A job : Forking(q, job) => Prepares(r, q, job)
<1> DEFINE p == session[r].plan
<1>1. Attaches(db, p) /\ Good(r, p) /\ DOMAIN p.insert \subseteq 1 .. made
  BY DEF Heads, Base
<1>2. \A i \in DOMAIN p.insert : i \notin DOMAIN db
  BY <1>1 DEF Good, Fresh
<1> HIDE DEF p
<1>3. \A v \in TableOf(q.insert, "version") :
        \/ v \in TableOf(p.insert, "version") /\ q.insert[v] = p.insert[v]
        \/ /\ q.insert[v].status = "DRAFT" /\ q.insert[v].onto \in TableOf(p.insert, "ontology")
  BY DEF Enlarges, TableOf, Content, p
<1>4. Speaks(q) \subseteq Speaks(p) \cup DOMAIN p.insert
  BY <1>3 DEF Enlarges, Speaks, TableOf, p
<1>5. Speaks(q) \subseteq 1 .. made
  BY <1>1, <1>4 DEF Attaches
<1>6. \A i \in DOMAIN q.insert : Labelled(q.insert[i])
  BY <1>1 DEF Enlarges, Attaches, Labelled, Content, p
<1>7. \A o \in 1 .. made : Belongs(p.insert, o) => Belongs(q.insert, o)
  BY DEF Enlarges, Belongs, p
<1>8. ASSUME NEW v \in TableOf(q.insert, "version")
      PROVE  Belongs(db, q.insert[v].onto) /\ Belongs(q.insert, q.insert[v].onto)
  <2> DEFINE o == q.insert[v].onto
  <2>1. o \in 1 .. made
    BY <1>5 DEF Speaks
  <2>2. Belongs(db, o) /\ Belongs(p.insert, o)
    <3>1. CASE v \in TableOf(p.insert, "version") /\ q.insert[v] = p.insert[v]
      BY <1>1, <3>1 DEF Attaches
    <3>2. CASE o \in TableOf(p.insert, "ontology")
      BY <1>2, <3>2 DEF TableOf, Belongs
    <3> QED
      BY <1>3, <3>1, <3>2
  <2> HIDE DEF o
  <2>3. Belongs(q.insert, o)
    BY <1>7, <2>1, <2>2
  <2> QED
    BY <2>2, <2>3 DEF o
<1>9. Attaches(db, q)
  BY <1>1, <1>5, <1>6, <1>8 DEF Enlarges, Attaches, p
<1>10. Drafts(db, q)
  BY <1>3 DEF Enlarges, Drafts, p
<1>11. TableOf(p.insert, "ontology") \subseteq TableOf(q.insert, "ontology")
  BY DEF Enlarges, TableOf, p
<1>12. \A job : job = Done \/ Forking(q, job) => Prepares(r, q, job)
  BY <1>4, <1>9, <1>10 DEF Prepares, Proceeds, p
<1> QED
  BY <1>10, <1>11, <1>12 DEF p

\* What a plan with copies in it inserts, changes and deletes.
LEMMA WithCopies ==
  ASSUME Base, NEW ids, ids \subseteq DOMAIN db, \A i \in ids : db[i].table \in Content,
         NEW o, NEW ns, NEW p, NEW q, q = And(p, Copies(ids, o, ns))
  PROVE  EnlargesByContent(p, q)
<1> DEFINE c == Copies(ids, o, ns)
<1>1. /\ c.update = Nothing /\ c.delete = {}
      /\ \A i \in DOMAIN c.insert : i \notin 1 .. made /\ c.insert[i].table \in Content
  BY CopiesAre
<1> HIDE DEF c
<1>2. /\ q.insert = Over(p.insert, c.insert)
      /\ q.update = Over(p.update, c.update) /\ q.delete = p.delete \cup c.delete
  BY DEF And, c
<1>3. DOMAIN q.update = DOMAIN p.update /\ \A i \in DOMAIN p.update : q.update[i] = p.update[i]
  BY <1>1, <1>2 DEF Over, Nothing
<1>4. /\ DOMAIN q.insert = DOMAIN p.insert \cup DOMAIN c.insert
      /\ \A i \in DOMAIN q.insert :
           q.insert[i] = IF i \in DOMAIN p.insert THEN p.insert[i] ELSE c.insert[i]
  BY <1>2 DEF Over
<1> QED
  BY <1>1, <1>2, <1>3, <1>4 DEF EnlargesByContent, Enlarges

LEMMA CopyHeads ==
  ASSUME Base, Heads, NEW r \in Requests, session[r].open, ForkCopiesClasses(r)
  PROVE  Heads'
<1> DEFINE job == session[r].job
           p == session[r].plan
           classes == Of(job[2], "class")
           c == Copies(classes, job[3], p.insert[job[3]].ns)
           q == And(p, c)
           next == <<"copy rest", job[2], job[3], Snapshot(classes)>>
<1>1. job[1] = "copy" /\ Continue(r, q, next)
  BY DEF ForkCopiesClasses
<1>2. Drafts(db, p) /\ job[3] \in TableOf(p.insert, "ontology") /\ ~Uses("versions")
  BY <1>1, ForkProceeds DEF Heads
<1>3. classes \subseteq DOMAIN db /\ \A i \in classes : db[i].table \in Content
  BY DEF Of, Rows, Content
<1>4. Good(r, p) /\ Good(r, c)
  BY <1>3, GoodCopies DEF Base
<1>5. Good(r, q)
  BY <1>4, GoodAnd
<1> HIDE DEF classes
<1>6. EnlargesByContent(p, q)
  <2> DEFINE ns == p.insert[job[3]].ns
             to == job[3]
  <2>1. c = Copies(classes, to, ns)
    OBVIOUS
  <2> HIDE DEF p, c, ns, to
  <2>2. q = And(p, Copies(classes, to, ns))
    BY <2>1
  <2> HIDE DEF q
  <2> QED
    BY <1>3, <2>2, WithCopies
<1> HIDE DEF q
<1>7. /\ TableOf(p.insert, "ontology") \subseteq TableOf(q.insert, "ontology")
      /\ \A j : Forking(q, j) => Prepares(r, q, j)
  BY <1>2, <1>6, ForkGrows DEF EnlargesByContent
<1>8. Forking(q, next)
  <2>1. next[1] = "copy rest" /\ next[3] = job[3] /\ {1, 3} \subseteq DOMAIN next
    OBVIOUS
  <2> HIDE DEF next, job, p
  <2> QED
    BY <1>2, <1>7, <2>1 DEF Forking
<1> HIDE DEF next
<1>9. Prepares(r, q, next)
  BY <1>7, <1>8
<1> QED
  BY <1>1, <1>5, <1>9, ContinueHeads

LEMMA CopyRestHeads ==
  ASSUME Base, Heads, Publication, NEW r \in Requests, session[r].open, ForkCopiesRest(r)
  PROVE  Heads'
<1> DEFINE job == session[r].job
           p == session[r].plan
           o == job[3]
           fork == p.insert[o]
           rest == Elements(job[2]) \ Of(job[2], "class")
           c == Copies(rest, o, fork.ns)
           row == Version(o, fork.head, "DRAFT", None, job[4] \cup Snapshot(rest), job[2])
           q == And(p, c)
           e == Max({made} \cup DOMAIN q.insert) + 1
           s == AndNew(q, row)
<1>1. job[1] = "copy rest" /\ Continue(r, s, Done)
  BY DEF ForkCopiesRest
<1>2. Drafts(db, p) /\ o \in TableOf(p.insert, "ontology") /\ ~Uses("versions")
  BY <1>1, ForkProceeds DEF Heads
<1>3. rest \subseteq DOMAIN db /\ \A i \in rest : db[i].table \in Content
  BY DEF Elements, Of, Rows
<1>4. Good(r, p) /\ Good(r, c)
  BY <1>3, GoodCopies DEF Base
<1>5. Good(r, q)
  BY <1>4, GoodAnd
<1>6. Labelled(row) /\ row.status = "DRAFT" /\ row.onto = o /\ HasTable(row)
  BY OntologyTables DEF Version, Labelled, HasTable, Publication
<1> HIDE DEF rest, row
<1>7. EnlargesByContent(p, q)
  <2> DEFINE ns == fork.ns
             to == o
  <2>1. c = Copies(rest, to, ns)
    OBVIOUS
  <2> HIDE DEF p, c, ns, to
  <2>2. q = And(p, Copies(rest, to, ns))
    BY <2>1
  <2> HIDE DEF q
  <2> QED
    BY <1>3, <2>2, WithCopies
<1> HIDE DEF q
<1>8. Good(r, s)
  BY <1>5, <1>6, GoodAndNew
<1>9. e \in Nat /\ e \notin 1 .. made /\ e \notin DOMAIN q.insert
  <2>1. made \in Nat
    BY DEF Base
  <2>2. PICK n \in Nat : DOMAIN q.insert \subseteq 0 .. n
    BY <1>5 DEF Good
  <2>3. /\ Max({made} \cup DOMAIN q.insert) \in Nat /\ made <= Max({made} \cup DOMAIN q.insert)
        /\ \A i \in DOMAIN q.insert : i <= Max({made} \cup DOMAIN q.insert)
    BY <2>1, <2>2, MaxAbove
  <2> DEFINE m == Max({made} \cup DOMAIN q.insert)
  <2>4. e = m + 1 /\ m \in Nat /\ made <= m /\ \A i \in DOMAIN q.insert : i \in Nat /\ i <= m
    BY <2>2, <2>3
  <2> HIDE DEF m, e
  <2> QED
    BY <2>1, <2>4
<1>10. s = [insert |-> Over(q.insert, Only(e, row)), update |-> q.update, delete |-> q.delete]
  BY <1>5 DEF AndNew, Good, IsPlan
<1> HIDE DEF e, s
<1>11. s.insert = Over(q.insert, Only(e, row)) /\ s.update = q.update /\ s.delete = q.delete
  BY <1>10
<1>12. /\ DOMAIN s.insert = DOMAIN q.insert \cup {e} /\ s.insert[e] = row
       /\ \A i \in DOMAIN q.insert : s.insert[i] = q.insert[i]
  BY <1>9, <1>11 DEF Over, Only
<1>13. Enlarges(p, s)
  BY <1>7, <1>11, <1>12 DEF EnlargesByContent, Enlarges
<1>14. \A i \in DOMAIN s.insert \ DOMAIN p.insert :
         /\ i \notin 1 .. made
         /\ \/ s.insert[i].table \in Content
            \/ /\ Labelled(s.insert[i]) /\ s.insert[i].status = "DRAFT"
               /\ s.insert[i].onto \in TableOf(p.insert, "ontology")
  BY <1>2, <1>6, <1>7, <1>9, <1>12 DEF EnlargesByContent
<1>15. Prepares(r, s, Done)
  BY <1>2, <1>13, <1>14, ForkGrows
<1> QED
  BY <1>1, <1>8, <1>15, ContinueHeads

-----------------------------------------------------------------------------
(* Every behaviour.                                                        *)

LEMMA HeadsStep ==
  ASSUME Base, Publication, Heads, [Next]_vars
  PROVE  Heads'
<1>1. DispatchStep => UNCHANGED dbVars
  BY DEF DispatchStep, DispatchReads, DispatchRecords, DispatchFails, Deliver
<1>2. ~Uses("releases") /\ ~Uses("members") /\ ~Uses("objects") /\ ~Uses("workspaces")
      /\ ~Uses("evidence") /\ ~Uses("connectors")
  BY DEF Publication, Uses
<1>3. ASSUME NEW r \in Requests, Request(r) PROVE Heads'
  BY <1>2, <1>3, ContentHeads, VersionHeads DEF Request
<1>4. ASSUME NEW r \in Requests, session[r].open, Step(r) PROVE Heads'
  <2>1. OntologyStep(r)
    BY <1>2, <1>4 DEF Step
  <2> QED
    BY <1>4, <2>1, ReadsClassesHeads, ReadsRestHeads, ForkFlushHeads, CopyHeads, CopyRestHeads
       DEF OntologyStep
<1>5. ASSUME NEW r \in Requests, Commit(r) PROVE Heads'
  BY <1>5, CommitHeads
<1>6. ASSUME NEW r \in Requests, Rollback(r) PROVE Heads'
  <2>1. \A q \in Requests : session'[q] \in {session[q], Closed}
    BY <1>6, RollbackKeeps
  <2>2. db' = db /\ scenario' = scenario /\ made' = made
    BY <1>6 DEF Rollback
  <2> QED
    BY <2>1, <2>2, DropHeads
<1>7. CASE Stop
  <2>1. \A q \in Requests : session'[q] = Closed
    BY <1>7 DEF Stop
  <2>2. db' = db /\ scenario' = scenario /\ made' = made
    BY <1>7 DEF Stop
  <2> QED
    BY <2>1, <2>2, DropHeads
<1>8. CASE UNCHANGED dbVars
  BY <1>8, DropHeads DEF dbVars
<1> QED
  BY <1>1, <1>2, <1>3, <1>4, <1>5, <1>6, <1>7, <1>8 DEF Next, ServerStops, vars

LEMMA HeadsInit ==
  ASSUME Base, Headed(db), Init
  PROVE  Heads
<1>1. Closed.plan = NoPlan /\ Closed.job = Done
  BY DEF Closed
<1>2. \A r \in Requests : session[r] = Closed
  BY DEF Init, InitDatabase
<1>3. /\ Attaches(db, NoPlan) /\ Proceeds(db, NoPlan, Done)
      /\ Speaks(NoPlan) = {} /\ DOMAIN NoPlan.insert = {}
  BY NoPlanProceeds
<1>4. \A r \in Requests : session[r].plan = NoPlan /\ session[r].job = Done
  BY <1>1, <1>2
<1> QED
  BY <1>3, <1>4 DEF Heads

\* The groups of endpoints that write no version have none.
LEMMA VersionsAreOfOntologies ==
  ASSUME Base, Rows("version") # {}
  PROVE  Publication
<1>1. PICK v : v \in DOMAIN db /\ db[v].table = "version"
  BY DEF Rows
<1>2. "version" \in Tables(scenario.uses)
  BY <1>1 DEF Base, HasTable
<1> QED
  BY <1>2 DEF Tables, Publication, Uses

LEMMA HeadedIsPublished == ASSUME Headed(db) PROVE HeadIsPublished
<1> SUFFICES ASSUME NEW v \in Rows("version"), db[v].status = "PUBLISHED",
                    db[v].onto \in DOMAIN db
             PROVE  \E w \in Of(db[v].onto, "version") :
                      db[w].status = "PUBLISHED" /\ db[w].label = db[db[v].onto].head
  BY DEF HeadIsPublished
<1>1. Named(db, db[v].onto)
  BY DEF Headed, Rows, TableOf
<1>2. PICK w : Published(db, w, db[v].onto, db[db[v].onto].head)
  BY <1>1 DEF Named
<1> QED
  BY <1>2 DEF Published, TableOf, Of, Rows

Publishing == Base /\ Deciding /\ (Publication => Heads)

LEMMA PublishingStep == Publishing /\ [Next]_vars => Publishing'
<1> SUFFICES ASSUME Publishing, [Next]_vars PROVE Publishing'
  OBVIOUS
<1>1. Base' /\ Deciding' /\ scenario' = scenario
  BY BaseStep, DecidingStep DEF Publishing
<1>2. Publication' <=> Publication
  BY <1>1 DEF Publication, Uses
<1>3. Publication => Heads'
  BY HeadsStep DEF Publishing
<1> QED
  BY <1>1, <1>2, <1>3 DEF Publishing

\* In every behaviour that starts from a database whose versions belong to
\* ontologies with a published head: an ontology with a published version has
\* the label of a published version as its head, however publications, edits,
\* forks and deletions overlap and whenever the server stops (publish_ontology,
\* publish_version and delete_ontology of api/ontologies.py).
THEOREM HeadsArePublished == Spec /\ Headed(db) => []HeadIsPublished
<1>1. Init /\ Headed(db) => Publishing
  BY BaseInit, HeadsInit DEF Publishing
<1>2. Publishing => HeadIsPublished
  <2>1. CASE Publication
    BY <2>1, HeadedIsPublished DEF Publishing, Heads
  <2>2. CASE ~Publication
    BY <2>2, VersionsAreOfOntologies DEF Publishing, HeadIsPublished
  <2> QED
    BY <2>1, <2>2
<1> QED
  BY <1>1, <1>2, PublishingStep, PTL DEF Spec
=============================================================================
