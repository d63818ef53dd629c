----------------------------- MODULE ServerProofs -----------------------------
(***************************************************************************)
(* What holds of the database sessions of Server for every number of       *)
(* concurrent requests, whatever the clients send and however often the    *)
(* server stops: a plan never takes an identifier that is in use, a commit *)
(* never breaks a unique index, and whoever holds the writer lock is open. *)
(***************************************************************************)
EXTENDS Server, FiniteSetTheorems, WellFoundedInduction, TLAPS

-----------------------------------------------------------------------------
(* The greatest of a set of numbers.                                       *)

\* A set of natural numbers that is bounded has a greatest element.
LEMMA MaxIs ==
  ASSUME NEW S, NEW n \in Nat, S \subseteq 0 .. n, S # {}
  PROVE  Max(S) \in S /\ \A y \in S : y <= Max(S)
<1> DEFINE T == {n - x : x \in S}
<1>1. T \subseteq Nat /\ T # {}
  <2>1. \A x \in S : n - x \in Nat
    OBVIOUS
  <2> QED
    BY <2>1
<1>2. PICK x \in T : \A y \in T : ~(<<y, x>> \in OpToRel(<, Nat))
  BY <1>1, NatLessThanWellFounded, WFMin
<1>3. \A y \in T : x <= y
  <2>1. \A y \in T : ~(y < x)
    BY <1>1, <1>2 DEF OpToRel
  <2> QED
    BY <1>1, <2>1
<1>4. PICK z \in S : x = n - z
  BY <1>2
<1>5. \A y \in S : z >= y
  BY <1>3, <1>4
<1> QED
  BY <1>4, <1>5 DEF Max

\* The greatest of a number and a bounded set is above all of them.
LEMMA MaxAbove ==
  ASSUME NEW m \in Nat, NEW S, NEW n \in Nat, S \subseteq 0 .. n
  PROVE  /\ Max({m} \cup S) \in Nat
         /\ m <= Max({m} \cup S)
         /\ \A y \in S : y <= Max({m} \cup S)
<1>1. {m} \cup S \subseteq 0 .. m + n
  OBVIOUS
<1>2. m + n \in Nat /\ {m} \cup S # {}
  OBVIOUS
<1> DEFINE M == Max({m} \cup S)
<1>3. M \in {m} \cup S /\ \A y \in {m} \cup S : y <= M
  BY <1>1, <1>2, MaxIs
<1> HIDE DEF M
<1>4. M \in Nat /\ m <= M /\ \A y \in S : y <= M
  BY <1>1, <1>3
<1> USE DEF M
<1> QED
  BY <1>4

-----------------------------------------------------------------------------
(* The newest of a set of entries.                                         *)

\* The times of these entries rise.
Rising(entries) == \A e, f \in entries : e < f => CreatedAt(e) < CreatedAt(f)

LEMMA TimeIsANumber ==
  ASSUME NEW e \in Nat
  PROVE  CreatedAt(e) \in Int /\ CreatedAt(e) + 2 * Second \in 0 .. 2 * e + 2 * Second + 1
<1>1. Second \in Nat
  BY SecondAssumption
<1> QED
  BY <1>1 DEF CreatedAt

LEMMA NewestIs ==
  ASSUME NEW S, NEW n \in Nat, S \subseteq 0 .. n, S # {}
  PROVE  Newest(S) \in S /\ \A f \in S : CreatedAt(f) <= CreatedAt(Newest(S))
<1> DEFINE Shift(e) == CreatedAt(e) + 2 * Second
           T == {Shift(e) : e \in S}
           m == 2 * n + 2 * Second + 1
<1>1. m \in Nat /\ Second \in Nat
  BY SecondAssumption
<1>2. \A e \in S : e \in Nat /\ e <= n /\ CreatedAt(e) \in Int /\ Shift(e) \in 0 .. m
  <2> SUFFICES ASSUME NEW e \in S
               PROVE  e \in Nat /\ e <= n /\ CreatedAt(e) \in Int /\ Shift(e) \in 0 .. m
    OBVIOUS
  <2>1. e \in Nat /\ e <= n
    OBVIOUS
  <2>2. CreatedAt(e) \in Int /\ Shift(e) \in 0 .. 2 * e + 2 * Second + 1
    BY <2>1, TimeIsANumber
  <2> HIDE DEF Shift
  <2> QED
    BY <1>1, <2>1, <2>2
<1>3. T \subseteq 0 .. m /\ T # {}
  BY <1>2
<1> HIDE DEF m
<1>4. Max(T) \in T /\ \A t \in T : t <= Max(T)
  BY <1>1, <1>3, MaxIs
<1>5. PICK e \in S : Max(T) = Shift(e)
  BY <1>4
<1>6. \A f \in S : Shift(f) <= Shift(e)
  BY <1>4, <1>5
<1>7. \A f \in S : CreatedAt(f) <= CreatedAt(e)
  BY <1>1, <1>2, <1>6
<1> QED
  BY <1>7 DEF Newest

\* While times rise, the order of time is that of the identifiers.
LEMMA RisingOrder ==
  ASSUME NEW S, NEW n \in Nat, S \subseteq 0 .. n, Rising(S),
         NEW e \in S, NEW f \in S
  PROVE  CreatedAt(f) < CreatedAt(e) <=> f < e
<1>1. e \in Nat /\ f \in Nat /\ CreatedAt(e) \in Int /\ CreatedAt(f) \in Int
  BY TimeIsANumber
<1>2. (f < e => CreatedAt(f) < CreatedAt(e)) /\ (e < f => CreatedAt(e) < CreatedAt(f))
  BY DEF Rising
<1> QED
  BY <1>1, <1>2

LEMMA NewestIsLast ==
  ASSUME NEW S, NEW n \in Nat, S \subseteq 0 .. n, S # {}, Rising(S)
  PROVE  Newest(S) = Max(S)
<1>1. Newest(S) \in S /\ \A f \in S : CreatedAt(f) <= CreatedAt(Newest(S))
  BY NewestIs
<1>2. Max(S) \in S /\ \A f \in S : f <= Max(S)
  BY MaxIs
<1> DEFINE last == Max(S)
           newest == Newest(S)
<1> HIDE DEF last, newest
<1>3. /\ newest \in S /\ last \in S /\ newest <= last
      /\ CreatedAt(last) <= CreatedAt(newest)
  BY <1>1, <1>2 DEF last, newest
<1>4. newest \in Nat /\ last \in Nat /\ CreatedAt(newest) \in Int /\ CreatedAt(last) \in Int
  BY <1>3, TimeIsANumber
<1>5. newest < last => CreatedAt(newest) < CreatedAt(last)
  BY <1>3 DEF Rising
<1> QED
  BY <1>3, <1>4, <1>5 DEF last, newest

-----------------------------------------------------------------------------
(* The invariant of the sessions.                                          *)

IsPlan(p) == p = [insert |-> p.insert, update |-> p.update, delete |-> p.delete]
IsSession(s) ==
  /\ s = [open |-> s.open, plan |-> s.plan, job |-> s.job]
  /\ s.open \in BOOLEAN
  /\ IsPlan(s.plan)
  /\ ~s.open => s = Closed

\* A row of a table that the endpoints of this behaviour write.
HasTable(row) ==
  /\ "table" \in DOMAIN row
  /\ row.table \in Tables(scenario.uses)
  /\ row.table = "source" => "fields" \in DOMAIN row /\ IsFiniteSet(row.fields)

\* No request changes the table of a row, or the fields of a source.
Editable(columns) == {"table", "fields"} \cap DOMAIN columns = {}

Fresh(r, i) ==
  /\ i \in Nat \ {0}
  /\ i \notin DOMAIN db
  /\ \A q \in Requests \ {r} : i \notin DOMAIN session[q].plan.insert

\* A plan that request r may have: its new rows get identifiers that nobody
\* uses or is about to use, and what it changes or deletes has been there.
Good(r, p) ==
  /\ IsPlan(p)
  /\ \E n \in Nat : DOMAIN p.insert \subseteq 0 .. n
  /\ \A i \in DOMAIN p.insert : Fresh(r, i) /\ HasTable(p.insert[i])
  /\ \A i \in DOMAIN p.update : Editable(p.update[i])
  /\ DOMAIN p.update \cup p.delete \subseteq 1 .. made

Base ==
  /\ made \in Nat
  /\ served \in 0 .. scenario.requests
  /\ scenario \in Scenarios
  /\ \A i \in DOMAIN db : i \in 1 .. made /\ HasTable(db[i])
  /\ ~Violates(db)
  /\ session = [r \in Requests |-> session[r]]
  /\ \A r \in Requests :
       /\ IsSession(session[r])
       /\ Good(r, session[r].plan)
       /\ DOMAIN session[r].plan.insert \subseteq 1 .. made
  /\ writer \in Requests \cup {None}
  /\ writer # None => session[writer].open

-----------------------------------------------------------------------------
(* Plans.                                                                  *)

\* Nothing is always a good plan.
LEMMA GoodNothing == ASSUME NEW r, Base PROVE Good(r, NoPlan)
BY DEF Good, NoPlan, IsPlan, Nothing

\* A new row gets an identifier above all that are in use.
LEMMA GoodNew ==
  ASSUME NEW r \in Requests, Base, NEW row, HasTable(row)
  PROVE  Good(r, New(row))
<1>1. New(row) = [insert |-> Only(made + 1, row), update |-> Nothing, delete |-> {}]
  BY DEF New, NoPlan
<1>2. Fresh(r, made + 1) /\ made + 1 \in Nat
  <2>1. made + 1 \notin DOMAIN db
    BY DEF Base
  <2>2. \A q \in Requests : made + 1 \notin DOMAIN session[q].plan.insert
    BY DEF Base
  <2> QED
    BY <2>1, <2>2 DEF Fresh, Base
<1>3. DOMAIN Only(made + 1, row) \subseteq 0 .. made + 1
  BY <1>2 DEF Base, Only
<1> QED
  BY <1>1, <1>2, <1>3 DEF Good, IsPlan, Only, Nothing

LEMMA GoodDrop ==
  ASSUME NEW r, Base, NEW ids, ids \subseteq 1 .. made
  PROVE  Good(r, Drop(ids))
BY DEF Good, Drop, NoPlan, IsPlan, Nothing

\* The ORM changes columns, never the table of a row.
LEMMA GoodSet ==
  ASSUME NEW r, Base, NEW i \in 1 .. made, NEW columns, Editable(columns)
  PROVE  Good(r, Set(i, columns))
<1> DEFINE changed == {c \in DOMAIN columns : db[i][c] # columns[c]}
           update == IF changed = {} THEN Nothing ELSE Only(i, [c \in changed |-> columns[c]])
<1>1. Set(i, columns) = [insert |-> Nothing, update |-> update, delete |-> {}]
  BY DEF Set, NoPlan
<1>2. DOMAIN update \subseteq {i} /\ \A j \in DOMAIN update : Editable(update[j])
  <2>1. CASE changed = {}
    BY <2>1 DEF Nothing
  <2>2. CASE changed # {}
    BY <2>2 DEF Only, Editable
  <2> QED
    BY <2>1, <2>2
<1> HIDE DEF update
<1> QED
  BY <1>1, <1>2 DEF Good, IsPlan, Nothing

LEMMA GoodSetAll ==
  ASSUME NEW r, Base, NEW ids, ids \subseteq 1 .. made,
         NEW columns, Editable(columns)
  PROVE  Good(r, SetAll(ids, columns))
<1>1. SetAll(ids, columns) =
        [insert |-> Nothing, update |-> [i \in ids |-> columns], delete |-> {}]
  BY DEF SetAll, NoPlan
<1> QED
  BY <1>1 DEF Good, IsPlan, Nothing

\* Two good plans make one.
LEMMA GoodAnd ==
  ASSUME NEW r, NEW p, NEW q, Good(r, p), Good(r, q)
  PROVE  Good(r, And(p, q))
<1> DEFINE ins == Over(p.insert, q.insert)
           upd == Over(p.update, q.update)
<1>1. And(p, q) = [insert |-> ins, update |-> upd, delete |-> p.delete \cup q.delete]
  BY DEF And
<1>2. \E n \in Nat : DOMAIN ins \subseteq 0 .. n
  <2>1. PICK m \in Nat, n \in Nat :
          DOMAIN p.insert \subseteq 0 .. m /\ DOMAIN q.insert \subseteq 0 .. n
    BY DEF Good
  <2>2. DOMAIN ins \subseteq 0 .. m + n /\ m + n \in Nat
    BY <2>1 DEF Over
  <2> QED
    BY <2>2
<1>3. \A i \in DOMAIN ins : Fresh(r, i) /\ HasTable(ins[i])
  BY DEF Good, Over
<1>4. \A i \in DOMAIN upd : Editable(upd[i])
  BY DEF Good, Over, Editable
<1>5. DOMAIN upd \cup (p.delete \cup q.delete) \subseteq 1 .. made
  BY DEF Good, Over
<1> HIDE DEF ins, upd
<1> QED
  BY <1>1, <1>2, <1>3, <1>4, <1>5 DEF Good, IsPlan

\* An identifier above those of the plan and all in use is fresh.
LEMMA FreshAbove ==
  ASSUME NEW r \in Requests, Base, NEW i \in Nat, made < i
  PROVE  Fresh(r, i)
<1>1. i \notin DOMAIN db
  BY DEF Base
<1>2. \A q \in Requests : i \notin DOMAIN session[q].plan.insert
  BY DEF Base
<1> QED
  BY <1>1, <1>2 DEF Fresh, Base

\* A plan may get one more row.
LEMMA GoodAndNew ==
  ASSUME NEW r \in Requests, Base, NEW p, Good(r, p), NEW row, HasTable(row)
  PROVE  Good(r, AndNew(p, row))
<1> DEFINE last == Max({made} \cup DOMAIN p.insert)
           ins == Over(p.insert, Only(last + 1, row))
<1>1. PICK n \in Nat : DOMAIN p.insert \subseteq 0 .. n
  BY DEF Good
<1>2. last \in Nat /\ made <= last /\ \A i \in DOMAIN p.insert : i <= last
  BY <1>1, MaxAbove DEF Base
<1>3. AndNew(p, row) = [insert |-> ins, update |-> p.update, delete |-> p.delete]
  BY DEF AndNew, Good, IsPlan
<1> HIDE DEF last
<1>4. Fresh(r, last + 1)
  BY <1>2, FreshAbove DEF Base
<1>5. DOMAIN ins \subseteq 0 .. last + 1 /\ last + 1 \in Nat
  BY <1>1, <1>2 DEF Over, Only
<1>6. \A i \in DOMAIN ins : Fresh(r, i) /\ HasTable(ins[i])
  BY <1>4 DEF Good, Over, Only
<1> HIDE DEF ins
<1> QED
  BY <1>3, <1>5, <1>6 DEF Good, IsPlan

\* A plan may get any finite number of rows.
LEMMA AndAllIs ==
  ASSUME NEW r \in Requests, Base, NEW p, Good(r, p),
         NEW rows, IsFiniteSet(rows), \A row \in rows : HasTable(row)
  PROVE  /\ Good(r, AndAll(p, rows))
         /\ AndAll(p, rows).update = p.update
         /\ AndAll(p, rows).delete = p.delete
         /\ \A i \in DOMAIN AndAll(p, rows).insert :
              \/ i \in DOMAIN p.insert /\ AndAll(p, rows).insert[i] = p.insert[i]
              \/ i \notin 1 .. made /\ AndAll(p, rows).insert[i] \in rows
<1> DEFINE last == Max({made} \cup DOMAIN p.insert)
           n == Cardinality(rows)
           ids == last + 1 .. last + n
           order == CHOOSE f \in [ids -> rows] : Range(f) = rows
           ins == Over(p.insert, order)
<1>1. PICK m \in Nat : DOMAIN p.insert \subseteq 0 .. m
  BY DEF Good
<1>2. last \in Nat /\ made <= last /\ \A i \in DOMAIN p.insert : i <= last
  BY <1>1, MaxAbove DEF Base
<1>3. AndAll(p, rows) = [insert |-> ins, update |-> p.update, delete |-> p.delete]
  BY DEF AndAll, Good, IsPlan
<1> HIDE DEF last
<1>4. n \in Nat /\ ExistsBijection(1 .. n, rows)
  BY FS_CardinalityType
<1> HIDE DEF n
<1>5. order \in [ids -> rows]
  <2>1. PICK f \in Bijection(1 .. n, rows) : TRUE
    BY <1>4 DEF ExistsBijection
  <2> DEFINE g == [i \in ids |-> f[i - last]]
  <2>2. f \in [1 .. n -> rows] /\ \A x \in rows : \E i \in 1 .. n : f[i] = x
    BY <2>1 DEF Bijection, Surjection, Injection
  <2>3. \A i \in ids : i - last \in 1 .. n
    BY <1>2, <1>4
  <2>4. g \in [ids -> rows]
    BY <2>2, <2>3
  <2>5. \A x \in rows : \E i \in ids : g[i] = x
    <3> SUFFICES ASSUME NEW x \in rows PROVE \E i \in ids : g[i] = x
      OBVIOUS
    <3>1. PICK i \in 1 .. n : f[i] = x
      BY <2>2
    <3>2. i + last \in ids /\ (i + last) - last = i
      BY <1>2, <1>4
    <3> QED
      BY <3>1, <3>2
  <2>6. Range(g) = rows
    <3> HIDE DEF g
    <3> QED
      BY <2>4, <2>5 DEF Range
  <2> HIDE DEF g
  <2> QED
    BY <2>4, <2>6
<1>6. \A i \in ids : i \in Nat /\ made < i /\ i <= last + n
  BY <1>2, <1>4 DEF Base
<1> HIDE DEF ids, order
<1>7. DOMAIN ins \subseteq 0 .. last + n /\ last + n \in Nat
  <2>1. DOMAIN ins = DOMAIN p.insert \cup ids
    BY <1>5 DEF Over
  <2>2. last + n \in Nat /\ \A i \in DOMAIN p.insert : i \in 0 .. last + n
    BY <1>1, <1>2, <1>4
  <2>3. \A i \in ids : i \in 0 .. last + n
    BY <1>6, <2>2
  <2> QED
    BY <2>1, <2>2, <2>3
<1>8. \A i \in DOMAIN ins : Fresh(r, i) /\ HasTable(ins[i])
  <2>1. \A i \in ids : Fresh(r, i) /\ HasTable(order[i])
    BY <1>5, <1>6, FreshAbove
  <2> QED
    BY <1>5, <2>1 DEF Over, Good
<1>9. \A i \in DOMAIN ins :
        \/ i \in DOMAIN p.insert /\ ins[i] = p.insert[i]
        \/ i \notin 1 .. made /\ ins[i] \in rows
  <2>1. \A i \in ids : i \notin 1 .. made
    BY <1>6 DEF Base
  <2> QED
    BY <1>5, <2>1 DEF Over
<1> HIDE DEF ins
<1>10. Good(r, AndAll(p, rows))
  BY <1>3, <1>7, <1>8 DEF Good, IsPlan
<1> QED
  BY <1>3, <1>9, <1>10

LEMMA GoodAndAll ==
  ASSUME NEW r \in Requests, Base, NEW p, Good(r, p),
         NEW rows, IsFiniteSet(rows), \A row \in rows : HasTable(row)
  PROVE  Good(r, AndAll(p, rows))
BY AndAllIs

-----------------------------------------------------------------------------
(* Steps of a session.                                                     *)

LEMMA OpenIsSession ==
  ASSUME NEW plan, IsPlan(plan), NEW job
  PROVE  IsSession([open |-> TRUE, plan |-> plan, job |-> job])
BY DEF IsSession

LEMMA ClosedIsSession == IsSession(Closed)
BY DEF IsSession, Closed, NoPlan, IsPlan

\* The plan of one request becomes another good one.
LEMMA PlanKeeps ==
  ASSUME Base, NEW r \in Requests, NEW plan, NEW job, Good(r, plan),
         session'[r] = [open |-> TRUE, plan |-> plan, job |-> job],
         \A q \in Requests \ {r} : session'[q] = session[q],
         session' = [q \in Requests |-> session'[q]],
         db' = db, scenario' = scenario,
         NEW k \in Nat, made <= k, made' = Max({k} \cup DOMAIN plan.insert),
         served' \in 0 .. scenario.requests,
         writer' = writer \/ (writer = None /\ writer' = r)
  PROVE  Base' /\ made' >= k
<1> DEFINE m == Max({k} \cup DOMAIN plan.insert)
<1>1. made' = m
  OBVIOUS
<1>3. PICK n \in Nat : DOMAIN plan.insert \subseteq 0 .. n
  BY DEF Good
<1>4. m \in Nat /\ k <= m /\ \A i \in DOMAIN plan.insert : i <= m
  BY <1>3, MaxAbove
<1> HIDE DEF m
<1>5. made' \in Nat /\ made <= made' /\ \A i \in 1 .. made : i \in 1 .. made'
  <2>1. made \in Nat
    BY DEF Base
  <2>2. made' \in Nat /\ made <= made'
    BY <1>1, <1>4, <2>1
  <2> QED
    BY <2>1, <2>2
<1>7. (\A i \in DOMAIN db : i \in 1 .. made /\ HasTable(db[i]))'
  BY <1>5 DEF Base, HasTable
<1>8. ~Violates(db)'
  BY DEF Base, Violates
<1>9. ASSUME NEW q \in Requests
      PROVE  (/\ IsSession(session[q])
              /\ Good(q, session[q].plan)
              /\ DOMAIN session[q].plan.insert \subseteq 1 .. made)'
  <2>1. CASE q = r
    <3>1. session'[q].plan = plan /\ IsSession(session'[q])
      BY <2>1, OpenIsSession DEF Good
    <3>2. \A i \in DOMAIN plan.insert : Fresh(q, i)'
      BY <2>1 DEF Good, Fresh
    <3>3. Good(q, plan)'
      BY <1>5, <3>2 DEF Good, HasTable
    <3>4. \A i \in DOMAIN plan.insert : i \in 1 .. made'
      BY <1>1, <1>3, <1>4 DEF Good, Fresh
    <3> QED
      BY <3>1, <3>3, <3>4
  <2>2. CASE q # r
    <3>1. session'[q] = session[q] /\ Good(q, session[q].plan)
          /\ DOMAIN session[q].plan.insert \subseteq 1 .. made /\ IsSession(session[q])
      BY <2>2 DEF Base
    <3>2. ASSUME NEW i \in DOMAIN session[q].plan.insert PROVE Fresh(q, i)'
      <4>1. Fresh(q, i)
        BY <3>1 DEF Good
      <4>2. i \notin DOMAIN plan.insert
        BY <2>2, <3>2 DEF Good, Fresh
      <4> QED
        BY <4>1, <4>2 DEF Fresh
    <3>3. Good(q, session[q].plan)'
      <4>1. /\ IsPlan(session[q].plan)
            /\ \E l \in Nat : DOMAIN session[q].plan.insert \subseteq 0 .. l
            /\ \A i \in DOMAIN session[q].plan.insert : HasTable(session[q].plan.insert[i])'
            /\ \A i \in DOMAIN session[q].plan.update :
                 Editable(session[q].plan.update[i])
        BY <3>1 DEF Good, HasTable
      <4>2. DOMAIN session[q].plan.update \cup session[q].plan.delete \subseteq 1 .. made'
        BY <1>5, <3>1 DEF Good
      <4> QED
        BY <3>1, <3>2, <4>1, <4>2 DEF Good
    <3> QED
      BY <1>5, <3>1, <3>3
  <2> QED
    BY <2>1, <2>2
<1>10. writer' \in Requests \cup {None} /\ (writer' # None => session'[writer'].open)
  BY NoneIsNoRequest DEF Base
<1> QED
  BY <1>1, <1>4, <1>5, <1>7, <1>8, <1>9, <1>10 DEF Base

\* What an opened request is.
LEMMA OpenedAs ==
  ASSUME Base, NEW r \in Requests, NEW plan, NEW job, NEW lock, Open(r, plan, job, lock)
  PROVE  /\ session'[r] = [open |-> TRUE, plan |-> plan, job |-> job]
         /\ \A q \in Requests \ {r} : session'[q] = session[q]
         /\ session' = [q \in Requests |-> session'[q]]
         /\ writer' = lock /\ db' = db /\ scenario' = scenario
BY DEF Base, Open

\* Opening a request with a good plan, with or without the free lock.
LEMMA OpenKeeps ==
  ASSUME Base, NEW r \in Requests, NEW plan, NEW job, NEW lock,
         Open(r, plan, job, lock), Good(r, plan),
         lock = writer \/ (writer = None /\ lock = r)
  PROVE  Base' /\ made' >= made + 1
<1>1. /\ session'[r] = [open |-> TRUE, plan |-> plan, job |-> job]
      /\ \A q \in Requests \ {r} : session'[q] = session[q]
      /\ session' = [q \in Requests |-> session'[q]]
      /\ writer' = lock /\ db' = db /\ scenario' = scenario
  BY OpenedAs
<1>2. made' = Max({made + 1} \cup DOMAIN plan.insert)
  BY DEF Open
<1>3. made + 1 \in Nat /\ made <= made + 1
  BY DEF Base
<1>4. served' \in 0 .. scenario.requests
  <2>1. scenario.requests \in Nat
    BY ScenariosAssumption DEF Base
  <2> QED
    BY <2>1 DEF Base, Open, CanOpen
<1> QED
  BY <1>1, <1>2, <1>3, <1>4, PlanKeeps

\* An open request goes on with a good plan.
LEMMA ContinuedAs ==
  ASSUME Base, NEW r \in Requests, session[r].open, NEW plan, NEW job, Continue(r, plan, job)
  PROVE  /\ session'[r] = [open |-> TRUE, plan |-> plan, job |-> job]
         /\ \A q \in Requests \ {r} : session'[q] = session[q]
         /\ session' = [q \in Requests |-> session'[q]]
         /\ writer' = writer /\ db' = db /\ scenario' = scenario /\ served' = served
<1>1. IsSession(session[r]) /\ session = [q \in Requests |-> session[q]]
  BY DEF Base
<1>2. session'[r] = [session[r] EXCEPT !.plan = plan, !.job = job]
  BY <1>1 DEF Continue
<1>3. session'[r] = [open |-> session[r].open, plan |-> plan, job |-> job]
  BY <1>1, <1>2 DEF IsSession
<1>4. session[r].open = TRUE
  BY <1>1 DEF IsSession
<1> QED
  BY <1>1, <1>3, <1>4 DEF Continue

LEMMA ContinueKeeps ==
  ASSUME Base, NEW r \in Requests, session[r].open, NEW plan, NEW job,
         Continue(r, plan, job), Good(r, plan)
  PROVE  Base' /\ made' >= made
<1>1. /\ session'[r] = [open |-> TRUE, plan |-> plan, job |-> job]
      /\ \A q \in Requests \ {r} : session'[q] = session[q]
      /\ session' = [q \in Requests |-> session'[q]]
      /\ writer' = writer /\ db' = db /\ scenario' = scenario /\ served' = served
  BY ContinuedAs
<1>2. made' = Max({made} \cup DOMAIN plan.insert)
  BY DEF Continue
<1>3. made \in Nat /\ made <= made /\ served' \in 0 .. scenario.requests
  BY <1>1 DEF Base
<1> QED
  BY <1>1, <1>2, <1>3, PlanKeeps

\* Plans are dropped or stay as they are, and the rows in the database with them.
LEMMA DropKeeps ==
  ASSUME Base, session' = [q \in Requests |-> session'[q]],
         \A q \in Requests :
           IsSession(session'[q]) /\ session'[q].plan \in {session[q].plan, NoPlan},
         db' = db, scenario' = scenario, made' = made, served' = served,
         writer' \in Requests \cup {None}, writer' # None => session'[writer'].open
  PROVE  Base'
<1>1. \A q \in Requests : DOMAIN session'[q].plan.insert \subseteq DOMAIN session[q].plan.insert
  BY DEF NoPlan, Nothing
<1>2. ASSUME NEW q \in Requests
      PROVE  (/\ IsSession(session[q])
              /\ Good(q, session[q].plan)
              /\ DOMAIN session[q].plan.insert \subseteq 1 .. made)'
  <2>1. Good(q, session[q].plan) /\ DOMAIN session[q].plan.insert \subseteq 1 .. made
    BY DEF Base
  <2>2. \A i \in Nat : Fresh(q, i) => Fresh(q, i)'
    BY <1>1 DEF Fresh
  <2>3. CASE session'[q].plan = session[q].plan
    <3>1. Good(q, session[q].plan)'
      BY <2>1, <2>2, <2>3 DEF Good, HasTable, Fresh
    <3> QED
      BY <2>1, <2>3, <3>1
  <2>4. CASE session'[q].plan = NoPlan
    <3>1. Good(q, NoPlan)'
      BY DEF Good, NoPlan, IsPlan, Nothing
    <3>2. DOMAIN NoPlan.insert = {}
      BY DEF NoPlan, Nothing
    <3> QED
      BY <2>4, <3>1, <3>2
  <2> QED
    BY <2>3, <2>4
<1>3. ~Violates(db)'
  BY DEF Base, Violates
<1>4. (\A i \in DOMAIN db : i \in 1 .. made /\ HasTable(db[i]))'
  BY DEF Base, HasTable
<1> QED
  BY <1>2, <1>3, <1>4 DEF Base

\* A flush that succeeds takes the lock.
LEMMA FlushKeeps ==
  ASSUME Base, NEW r \in Requests, session[r].open, NEW job, Flush(r, job)
  PROVE  /\ Base' /\ made' = made /\ db' = db /\ scenario' = scenario /\ writer' = r
         /\ session'[r] = [open |-> TRUE, plan |-> session[r].plan, job |-> job]
         /\ \A q \in Requests \ {r} : session'[q] = session[q]
<1>1. IsSession(session[r]) /\ session = [q \in Requests |-> session[q]]
      /\ \A q \in Requests : IsSession(session[q])
  BY DEF Base
<1>2. /\ session'[r] = [session[r] EXCEPT !.job = job]
      /\ \A q \in Requests \ {r} : session'[q] = session[q]
      /\ session' = [q \in Requests |-> session'[q]]
  BY <1>1 DEF Flush
<1>3. session'[r] = [open |-> TRUE, plan |-> session[r].plan, job |-> job]
  <2>1. session'[r] = [open |-> session[r].open, plan |-> session[r].plan, job |-> job]
    BY <1>1, <1>2 DEF IsSession
  <2>2. session[r].open = TRUE
    BY <1>1 DEF IsSession
  <2> QED
    BY <2>1, <2>2
<1>4. \A q \in Requests : IsSession(session'[q]) /\ session'[q].plan = session[q].plan
  <2>1. IsSession(session'[r])
    BY <1>1, <1>3, OpenIsSession DEF IsSession
  <2> QED
    BY <1>1, <1>2, <1>3, <2>1
<1>5. writer' = r /\ db' = db /\ scenario' = scenario /\ made' = made /\ served' = served
  BY DEF Flush
<1>6. Base'
  <2>1. writer' \in Requests \cup {None} /\ session'[writer'].open
    BY <1>3, <1>5
  <2> QED
    BY <1>2, <1>4, <1>5, <2>1, DropKeeps
<1> QED
  BY <1>2, <1>3, <1>5, <1>6

\* An end without a commit.
LEMMA RollbackKeeps ==
  ASSUME Base, NEW r \in Requests, Rollback(r)
  PROVE  /\ Base' /\ made' = made /\ db' = db /\ scenario' = scenario
         /\ session'[r] = Closed
         /\ \A q \in Requests \ {r} : session'[q] = session[q]
         /\ writer' \in {None, writer} \ {r}
<1>1. session = [q \in Requests |-> session[q]] /\ \A q \in Requests : IsSession(session[q])
  BY DEF Base
<1>2. /\ session'[r] = Closed
      /\ \A q \in Requests \ {r} : session'[q] = session[q]
      /\ session' = [q \in Requests |-> session'[q]]
  BY <1>1 DEF Rollback
<1>3. db' = db /\ scenario' = scenario /\ made' = made /\ served' = served
  BY DEF Rollback
<1>8. writer' \in {None, writer} \ {r}
  BY NoneIsNoRequest DEF Rollback
<1>4. Closed.plan = NoPlan
  BY DEF Closed
<1>5. \A q \in Requests : IsSession(session'[q]) /\ session'[q].plan \in {session[q].plan, NoPlan}
  BY <1>1, <1>2, <1>4, ClosedIsSession
<1>6. writer' \in Requests \cup {None} /\ (writer' # None => session'[writer'].open)
  BY <1>2, <1>8 DEF Base
<1>7. Base'
  <2>1. session' = [q \in Requests |-> session'[q]]
    BY <1>2
  <2> QED
    BY <1>3, <1>5, <1>6, <2>1, DropKeeps
<1> QED
  BY <1>2, <1>3, <1>7, <1>8

LEMMA StopKeeps ==
  ASSUME Base, Stop
  PROVE  /\ Base' /\ made' = made /\ db' = db /\ scenario' = scenario /\ writer' = None
         /\ \A q \in Requests : session'[q] = Closed
<1>1. Closed.plan = NoPlan
  BY DEF Closed
<1>2. /\ session' = [q \in Requests |-> session'[q]] /\ \A q \in Requests : session'[q] = Closed
      /\ db' = db /\ scenario' = scenario /\ made' = made /\ served' = served /\ writer' = None
  BY DEF Stop
<1>3. Base'
  BY <1>1, <1>2, ClosedIsSession, DropKeeps
<1> QED
  BY <1>2, <1>3

-----------------------------------------------------------------------------
(* Commits.                                                                *)

\* What is written has a table, and an identifier that has been made.
LEMMA WrittenRows ==
  ASSUME Base, NEW r \in Requests, NEW i \in DOMAIN Written(session[r].plan)
  PROVE  i \in 1 .. made /\ HasTable(Written(session[r].plan)[i])
<1> DEFINE p == session[r].plan
<1>1. Good(r, p) /\ DOMAIN p.insert \subseteq 1 .. made
  BY DEF Base
<1>2. \A j \in DOMAIN db : j \in 1 .. made /\ HasTable(db[j])
  BY DEF Base
<1> HIDE DEF p
<1>3. CASE i \in DOMAIN p.insert /\ i \notin DOMAIN db \ p.delete
  BY <1>1, <1>3 DEF Written, Over, Good, p
<1>4. CASE i \in DOMAIN db \ p.delete
  <2>1. Written(p)[i] = IF i \in DOMAIN p.update THEN Over(p.update[i], db[i]) ELSE db[i]
    BY <1>4 DEF Written, Over
  <2>2. CASE i \in DOMAIN p.update
    <3>1. "table" \notin DOMAIN p.update[i] /\ "fields" \notin DOMAIN p.update[i]
      BY <1>1, <1>4, <2>2 DEF Good, Editable
    <3>2. HasTable(Over(p.update[i], db[i]))
      <4> DEFINE row == Over(p.update[i], db[i])
      <4>1. HasTable(db[i])
        BY <1>2, <1>4
      <4>2. "table" \in DOMAIN row /\ row.table = db[i].table
        BY <3>1, <4>1 DEF HasTable, Over
      <4>3. "fields" \in DOMAIN db[i] => "fields" \in DOMAIN row /\ row.fields = db[i].fields
        BY <3>1 DEF Over
      <4> HIDE DEF row
      <4>4. HasTable(row)
        BY <4>1, <4>2, <4>3 DEF HasTable
      <4> QED
        BY <4>4 DEF row
    <3> QED
      BY <1>2, <1>4, <2>1, <2>2, <3>2 DEF p
  <2>3. CASE i \notin DOMAIN p.update
    BY <1>2, <1>4, <2>1, <2>3 DEF p
  <2> QED
    BY <2>2, <2>3
<1>5. i \in DOMAIN p.insert \/ i \in DOMAIN db \ p.delete
  BY DEF Written, Over, p
<1> QED
  BY <1>3, <1>4, <1>5

\* A plan is written and dropped.
LEMMA WriteKeeps ==
  ASSUME Base, NEW r \in Requests, Fits(session[r].plan), db' = Written(session[r].plan),
         session' = [q \in Requests |-> session'[q]],
         \A q \in Requests \ {r} : session'[q] = session[q],
         IsSession(session'[r]), session'[r].plan = NoPlan,
         scenario' = scenario, made' = made, served' = served, writer' = None
  PROVE  Base'
<1>1. (\A i \in DOMAIN db : i \in 1 .. made /\ HasTable(db[i]))'
  BY WrittenRows DEF HasTable
<1>2. ~Violates(db)'
  BY DEF Fits, Violates
<1>3. DOMAIN db' \subseteq DOMAIN db \cup DOMAIN session[r].plan.insert
  BY DEF Written, Over
<1>4. DOMAIN NoPlan.insert = {}
  BY DEF NoPlan, Nothing
<1>5. ASSUME NEW q \in Requests
      PROVE  (/\ IsSession(session[q])
              /\ Good(q, session[q].plan)
              /\ DOMAIN session[q].plan.insert \subseteq 1 .. made)'
  <2>1. CASE q = r
    <3>1. Good(q, NoPlan)'
      BY DEF Good, NoPlan, IsPlan, Nothing
    <3> QED
      BY <1>4, <2>1, <3>1
  <2>2. CASE q # r
    <3>1. session'[q] = session[q] /\ Good(q, session[q].plan)
          /\ DOMAIN session[q].plan.insert \subseteq 1 .. made /\ IsSession(session[q])
      BY <2>2 DEF Base
    <3>2. ASSUME NEW i \in DOMAIN session[q].plan.insert PROVE Fresh(q, i)'
      <4>1. Fresh(q, i)
        BY <3>1 DEF Good
      <4>2. i \notin DOMAIN session[r].plan.insert /\ i \notin DOMAIN db
        BY <2>2, <4>1 DEF Fresh
      <4> QED
        BY <1>3, <1>4, <4>1, <4>2 DEF Fresh
    <3>3. Good(q, session[q].plan)'
      <4>1. /\ IsPlan(session[q].plan)
            /\ \E l \in Nat : DOMAIN session[q].plan.insert \subseteq 0 .. l
            /\ \A i \in DOMAIN session[q].plan.insert : HasTable(session[q].plan.insert[i])'
            /\ \A i \in DOMAIN session[q].plan.update :
                 Editable(session[q].plan.update[i])
        BY <3>1 DEF Good, HasTable
      <4>2. DOMAIN session[q].plan.update \cup session[q].plan.delete \subseteq 1 .. made'
        BY <3>1 DEF Good
      <4> QED
        BY <3>1, <3>2, <4>1, <4>2 DEF Good
    <3> QED
      BY <3>1, <3>3
  <2> QED
    BY <2>1, <2>2
<1> QED
  BY <1>1, <1>2, <1>5 DEF Base

LEMMA CommitKeeps ==
  ASSUME Base, NEW r \in Requests, Commit(r)
  PROVE  /\ Base' /\ made' = made /\ scenario' = scenario /\ writer' = None
         /\ db' = Written(session[r].plan) /\ writer \in {None, r}
         /\ session'[r] = Closed
         /\ \A q \in Requests \ {r} : session'[q] = session[q]
<1>1. /\ session'[r] = Closed /\ \A q \in Requests \ {r} : session'[q] = session[q]
      /\ session' = [q \in Requests |-> session'[q]]
  BY DEF Base, Commit
<1>2. Closed.plan = NoPlan
  BY DEF Closed
<1>3. /\ scenario' = scenario /\ made' = made /\ served' = served /\ writer' = None
      /\ db' = Written(session[r].plan) /\ Fits(session[r].plan) /\ writer \in {None, r}
  BY DEF Commit, Writable
<1>4. Base'
  BY <1>1, <1>2, <1>3, ClosedIsSession, WriteKeeps
<1> QED
  BY <1>1, <1>3, <1>4

\* A commit in the middle of a handler.
LEMMA CommitAndGoOnKeeps ==
  ASSUME Base, NEW r \in Requests, session[r].open, NEW job, CommitAndGoOn(r, job)
  PROVE  /\ Base' /\ made' = made /\ scenario' = scenario /\ writer' = None
         /\ db' = Written(session[r].plan) /\ writer \in {None, r}
         /\ session'[r] = [open |-> TRUE, plan |-> NoPlan, job |-> job]
         /\ \A q \in Requests \ {r} : session'[q] = session[q]
<1>1. IsSession(session[r]) /\ session = [q \in Requests |-> session[q]]
  BY DEF Base
<1>2. /\ session'[r] = [session[r] EXCEPT !.plan = NoPlan, !.job = job]
      /\ \A q \in Requests \ {r} : session'[q] = session[q]
      /\ session' = [q \in Requests |-> session'[q]]
  BY <1>1 DEF CommitAndGoOn
<1>3. session'[r] = [open |-> TRUE, plan |-> NoPlan, job |-> job]
  <2>1. session'[r] = [open |-> session[r].open, plan |-> NoPlan, job |-> job]
    BY <1>1, <1>2 DEF IsSession
  <2>2. session[r].open = TRUE
    BY <1>1 DEF IsSession
  <2> QED
    BY <2>1, <2>2
<1>4. IsPlan(NoPlan)
  BY DEF IsPlan, NoPlan
<1>5. IsSession(session'[r]) /\ session'[r].plan = NoPlan
  BY <1>3, <1>4, OpenIsSession
<1>6. /\ scenario' = scenario /\ made' = made /\ served' = served /\ writer' = None
      /\ db' = Written(session[r].plan) /\ Fits(session[r].plan) /\ writer \in {None, r}
  BY DEF CommitAndGoOn, Writable
<1>7. Base'
  BY <1>2, <1>5, <1>6, WriteKeeps
<1> QED
  BY <1>2, <1>3, <1>6, <1>7

-----------------------------------------------------------------------------
(* What a step of a request does to its session.                           *)

Opens(r) ==
  \E plan, job, lock :
    /\ Open(r, plan, job, lock)
    /\ Good(r, plan)
    /\ lock = writer \/ (writer = None /\ lock = r)

Continues(r) ==
  /\ session[r].open
  /\ \E plan, job : Continue(r, plan, job) /\ Good(r, plan)

Flushes(r) == session[r].open /\ \E job : Flush(r, job)
GoesOn(r) == session[r].open /\ \E job : CommitAndGoOn(r, job)

LEMMA Begins ==
  ASSUME NEW r, NEW plan, NEW job, Good(r, plan), Begin(r, plan, job)
  PROVE  Opens(r)
BY DEF Begin, Opens

LEMMA BeginsLocked ==
  ASSUME NEW r, NEW plan, NEW job, Good(r, plan), BeginLocked(r, plan, job)
  PROVE  Opens(r)
BY DEF BeginLocked, Opens

\* The rows that a request finds have been made before.
LEMMA RowsAreMade ==
  ASSUME Base
  PROVE  DOMAIN db \subseteq 1 .. made /\ \A table : Rows(table) \subseteq 1 .. made
BY DEF Base, Rows

\* The tables of each group.
LEMMA OntologyTables ==
  ASSUME Uses("content") \/ Uses("versions")
  PROVE  Tables(scenario.uses) = Content \cup {"ontology", "version"}
BY DEF Uses, Tables

LEMMA ReleaseTables ==
  ASSUME Uses("releases")
  PROVE  Tables(scenario.uses) = {"release", "report", "deployment", "bundle", "webhook"}
BY DEF Uses, Tables

LEMMA MemberTables ==
  ASSUME Uses("members") PROVE Tables(scenario.uses) = {"user", "member", "audit"}
BY DEF Uses, Tables

LEMMA ObjectTables ==
  ASSUME Uses("objects") PROVE Tables(scenario.uses) = {"object", "link", "audit"}
BY DEF Uses, Tables

LEMMA WorkspaceTables ==
  ASSUME Uses("workspaces")
  PROVE  Tables(scenario.uses) =
           {"user", "workspace", "wsmember", "provider", "login", "audit"}
BY DEF Uses, Tables

LEMMA EvidenceTables ==
  ASSUME Uses("evidence")
  PROVE  Tables(scenario.uses) =
           {"source", "evidence", "profiling", "proposal", "decision", "audit"}
BY DEF Uses, Tables

LEMMA ConnectorTables ==
  ASSUME Uses("connectors")
  PROVE  Tables(scenario.uses) = {"connector", "source", "evidence", "audit"}
BY DEF Uses, Tables

-----------------------------------------------------------------------------
(* Ontologies.                                                             *)

LEMMA ContentRequestOpens ==
  ASSUME Base, Uses("content") \/ Uses("versions"), NEW r \in Requests,
         ContentRequest(r) \/ VersionRequest(r)
  PROVE  Opens(r)
<1> USE Base
<1>1. Tables(scenario.uses) = Content \cup {"ontology", "version"}
  BY OntologyTables
<1>2. \A table : Rows(table) \subseteq 1 .. made
  BY RowsAreMade
<1>3. DOMAIN db \subseteq 1 .. made
  BY RowsAreMade
<1>4. CASE CreateOntology(r)
  <2>1. PICK ns \in Namespaces : Begin(r, New(Ontology(ns, None)), Done)
    BY <1>4 DEF CreateOntology
  <2>2. HasTable(Ontology(ns, None))
    BY <1>1 DEF HasTable, Ontology
  <2> QED
    BY <2>1, <2>2, GoodNew, Begins
<1>5. CASE UpdateOntology(r)
  <2>1. PICK o \in Rows("ontology") : Begin(r, Set(o, [rev |-> 1]), Done)
    BY <1>5 DEF UpdateOntology
  <2>2. o \in 1 .. made /\ Editable([rev |-> 1])
    BY <1>2 DEF Editable
  <2> QED
    BY <2>1, <2>2, GoodSet, Begins
<1>6. CASE UpdateOntologyStatus(r)
  <2>1. PICK o \in Rows("ontology"), s \in OntologyStatus : Begin(r, Set(o, [status |-> s]), Done)
    BY <1>6 DEF UpdateOntologyStatus
  <2>2. o \in 1 .. made /\ Editable([status |-> s])
    BY <1>2 DEF Editable
  <2> QED
    BY <2>1, <2>2, GoodSet, Begins
<1>7. CASE DeleteOntology(r)
  <2> DEFINE ids(o) == {o} \cup Of(o, "version")
                       \cup WithDependents(Elements(o) \ Of(o, "constraint"))
  <2>1. PICK o \in Rows("ontology") : Begin(r, Drop(ids(o)), Done)
    BY <1>7 DEF DeleteOntology
  <2>2. ids(o) \subseteq 1 .. made
    BY <1>2, <1>3 DEF Of, Elements, WithDependents, Attached
  <2> HIDE DEF ids
  <2> QED
    BY <2>1, <2>2, GoodDrop, Begins
<1>8. CASE CreateClass(r)
  <2>1. PICK o \in Rows("ontology"), iri \in Iris, parent \in Iris \cup {None} :
          Begin(r, New(Element("class", o, iri, parent, None, 0)), Done)
    BY <1>8 DEF CreateClass
  <2>2. HasTable(Element("class", o, iri, parent, None, 0))
    BY <1>1 DEF HasTable, Element, Content
  <2> QED
    BY <2>1, <2>2, GoodNew, Begins
<1>9. CASE CreateProperty(r)
  <2>1. PICK o \in Rows("ontology"), iri \in Iris, domain \in Iris \cup {None} :
          Begin(r, New(Element("property", o, iri, domain, ClassNamed(o, domain), 0)), Done)
    BY <1>9 DEF CreateProperty
  <2>2. HasTable(Element("property", o, iri, domain, ClassNamed(o, domain), 0))
    BY <1>1 DEF HasTable, Element, Content
  <2> QED
    BY <2>1, <2>2, GoodNew, Begins
<1>10. CASE CreateRelation(r)
  <2>1. PICK o \in Rows("ontology"), iri \in Iris, source \in Iris :
          Begin(r, New(Element("relation", o, iri, source, None, 0)), Done)
    BY <1>10 DEF CreateRelation
  <2>2. HasTable(Element("relation", o, iri, source, None, 0))
    BY <1>1 DEF HasTable, Element, Content
  <2> QED
    BY <2>1, <2>2, GoodNew, Begins
<1>11. CASE CreateConstraint(r)
  <2>1. PICK o \in Rows("ontology"), s \in Revs("constraint"), target \in Iris :
          \E of \in {None} \cup Of(o, "class") \cup Of(o, "property") :
            Begin(r, New(Element("constraint", o, None, target, of, s)), Done)
    BY <1>11 DEF CreateConstraint
  <2>2. PICK of : Begin(r, New(Element("constraint", o, None, target, of, s)), Done)
    BY <2>1
  <2>3. HasTable(Element("constraint", o, None, target, of, s))
    BY <1>1 DEF HasTable, Element, Content
  <2> QED
    BY <2>2, <2>3, GoodNew, Begins
<1>12. ASSUME NEW table, Edit(r, table) PROVE Opens(r)
  <2>1. PICK i \in Rows(table) : \E rev : Begin(r, Set(i, [rev |-> rev]), Done)
    BY <1>12 DEF Edit
  <2>2. PICK rev : Begin(r, Set(i, [rev |-> rev]), Done)
    BY <2>1
  <2>3. i \in 1 .. made /\ Editable([rev |-> rev])
    BY <1>2 DEF Editable
  <2> QED
    BY <2>2, <2>3, GoodSet, Begins
<1>13. ASSUME NEW table, Delete(r, table) PROVE Opens(r)
  <2>1. PICK i \in Rows(table) : Begin(r, Drop(WithDependents({i})), Done)
    BY <1>13 DEF Delete
  <2>2. WithDependents({i}) \subseteq 1 .. made
    BY <1>2, <1>3 DEF WithDependents, Attached
  <2> QED
    BY <2>1, <2>2, GoodDrop, Begins
<1>14. CASE ForkOntology(r)
  <2>1. PICK src \in Rows("ontology"), ns \in Namespaces, tag \in Labels :
          Begin(r, New(Ontology(ns, tag)), <<"fork", src, made + 1>>)
    BY <1>14 DEF ForkOntology
  <2>2. HasTable(Ontology(ns, tag))
    BY <1>1 DEF HasTable, Ontology
  <2> QED
    BY <2>1, <2>2, GoodNew, Begins
<1>15. CASE PublishOntology(r)
  <2>1. PICK o \in Rows("ontology"), label \in Labels :
          Begin(r, Set(o, [head |-> label, status |-> "PUBLISHED"]), <<"publish", o, label>>)
    BY <1>15 DEF PublishOntology
  <2>2. o \in 1 .. made /\ Editable([head |-> label, status |-> "PUBLISHED"])
    BY <1>2 DEF Editable
  <2> QED
    BY <2>1, <2>2, GoodSet, Begins
<1>16. CASE CreateDraftVersion(r)
  <2>1. PICK o \in Rows("ontology"), label \in Labels :
          \E snapshot, parent :
            Begin(r, New(Version(o, label, "DRAFT", None, snapshot, parent)), Done)
    BY <1>16 DEF CreateDraftVersion
  <2>2. PICK snapshot, parent :
          Begin(r, New(Version(o, label, "DRAFT", None, snapshot, parent)), Done)
    BY <2>1
  <2>3. HasTable(Version(o, label, "DRAFT", None, snapshot, parent))
    BY <1>1 DEF HasTable, Version
  <2> QED
    BY <2>2, <2>3, GoodNew, Begins
<1>17. CASE UpdateVersionContent(r)
  <2>1. PICK v \in Rows("version") : Begin(r, Set(v, [snapshot |-> {}]), Done)
    BY <1>17 DEF UpdateVersionContent
  <2>2. v \in 1 .. made /\ Editable([snapshot |-> {}])
    BY <1>2 DEF Editable
  <2> QED
    BY <2>1, <2>2, GoodSet, Begins
<1>18. CASE PublishVersion(r)
  <2> DEFINE stamp == [status |-> "PUBLISHED", at |-> made + 1]
             head(v) == [head |-> db[v].label, status |-> "PUBLISHED"]
  <2>1. PICK v \in Rows("version") :
          /\ db[v].onto \in DOMAIN db
          /\ Begin(r, And(Set(v, stamp), Set(db[v].onto, head(v))), Done)
    BY <1>18 DEF PublishVersion, Rows
  <2>2. /\ v \in 1 .. made /\ db[v].onto \in 1 .. made
        /\ Editable(stamp) /\ Editable(head(v))
    BY <1>2, <1>3, <2>1 DEF Editable
  <2> HIDE DEF stamp, head
  <2>3. Good(r, Set(v, stamp)) /\ Good(r, Set(db[v].onto, head(v)))
    BY <2>2, GoodSet
  <2> QED
    BY <2>1, <2>3, GoodAnd, Begins
<1>19. CASE ContentRequest(r)
  BY <1>19, <1>4, <1>5, <1>7, <1>8, <1>9, <1>10, <1>11, <1>12, <1>13, <1>14
     DEF ContentRequest, UpdateClass, UpdateProperty, UpdateConstraint,
         DeleteClass, DeleteProperty, DeleteRelation, DeleteConstraint
<1>20. CASE VersionRequest(r)
  BY <1>20, <1>6, <1>7, <1>15, <1>16, <1>17, <1>18 DEF VersionRequest
<1> QED
  BY <1>19, <1>20

\* A copy of a row keeps its table, and gets an identifier above all in use.
LEMMA GoodCopies ==
  ASSUME Base, NEW r \in Requests, NEW ids, ids \subseteq DOMAIN db, NEW o, NEW ns
  PROVE  Good(r, Copies(ids, o, ns))
<1> DEFINE ins == [i \in {made + j : j \in ids} |-> Forked(db[i - made], o, ns)]
<1>1. Copies(ids, o, ns) = [insert |-> ins, update |-> Nothing, delete |-> {}]
  BY SMTT(30) DEF Copies, NoPlan
<1>2. made \in Nat /\ \A j \in ids : j \in 1 .. made /\ HasTable(db[j])
  BY DEF Base
<1>3. DOMAIN ins \subseteq 0 .. made + made /\ made + made \in Nat
  BY <1>2
<1>4. ASSUME NEW i \in DOMAIN ins PROVE Fresh(r, i) /\ HasTable(ins[i])
  <2>1. PICK j \in ids : i = made + j
    BY <1>4
  <2>2. i \in Nat /\ made < i /\ i - made = j
    BY <1>2, <2>1
  <2>3. ins[i] = Forked(db[j], o, ns)
    BY <1>4, <2>2
  <2>4. HasTable(Forked(db[j], o, ns))
    BY <1>2 DEF HasTable, Forked
  <2> QED
    BY <2>2, <2>3, <2>4, FreshAbove
<1> HIDE DEF ins
<1> QED
  BY <1>1, <1>3, <1>4 DEF Good, IsPlan, Nothing

LEMMA OntologyStepGoesOn ==
  ASSUME Base, Uses("content") \/ Uses("versions"), NEW r \in Requests,
         session[r].open, OntologyStep(r)
  PROVE  Continues(r) \/ Flushes(r)
<1> USE Base
<1>1. Good(r, session[r].plan)
  BY DEF Base
<1>2. \A o : Of(o, "class") \subseteq DOMAIN db /\ Elements(o) \subseteq DOMAIN db
  BY DEF Of, Elements, Rows
<1>3. \A o, label, status, at, snapshot, base :
        HasTable(Version(o, label, status, at, snapshot, base))
  BY OntologyTables DEF HasTable, Version
<1>4. CASE PublishReadsClasses(r)
  BY <1>1, <1>4 DEF PublishReadsClasses, Continues
<1>5. CASE PublishReadsRest(r)
  <2>1. PICK o, label, at, snapshot :
          Continue(r, AndNew(session[r].plan, Version(o, label, "PUBLISHED", at, snapshot, None)),
                   Done)
    BY <1>5 DEF PublishReadsRest
  <2>2. Good(r, AndNew(session[r].plan, Version(o, label, "PUBLISHED", at, snapshot, None)))
    BY <1>1, <1>3, GoodAndNew
  <2> QED
    BY <2>1, <2>2 DEF Continues
<1>6. CASE ForkFlushes(r)
  BY <1>6 DEF ForkFlushes, Flushes
<1>7. CASE ForkCopiesClasses(r)
  <2>1. PICK ids, o, ns, job :
          /\ ids \in SUBSET DOMAIN db
          /\ Continue(r, And(session[r].plan, Copies(ids, o, ns)), job)
    BY <1>2, <1>7 DEF ForkCopiesClasses
  <2>2. Good(r, And(session[r].plan, Copies(ids, o, ns)))
    BY <1>1, <2>1, GoodCopies, GoodAnd
  <2> QED
    BY <2>1, <2>2 DEF Continues
<1>8. CASE ForkCopiesRest(r)
  <2>1. PICK ids, o, ns, label, snapshot, base :
          /\ ids \in SUBSET DOMAIN db
          /\ Continue(r, AndNew(And(session[r].plan, Copies(ids, o, ns)),
                                Version(o, label, "DRAFT", None, snapshot, base)), Done)
    <3> DEFINE job == session[r].job
               rest == Elements(job[2]) \ Of(job[2], "class")
               fork == session[r].plan.insert[job[3]]
    <3>1. rest \in SUBSET DOMAIN db
      BY <1>2
    <3>2. Continue(r, AndNew(And(session[r].plan, Copies(rest, job[3], fork.ns)),
                             Version(job[3], fork.head, "DRAFT", None,
                                     job[4] \cup Snapshot(rest), job[2])), Done)
      BY <1>8 DEF ForkCopiesRest
    <3> QED
      BY <3>1, <3>2
  <2>2. Good(r, And(session[r].plan, Copies(ids, o, ns)))
    BY <1>1, <2>1, GoodCopies, GoodAnd
  <2>3. Good(r, AndNew(And(session[r].plan, Copies(ids, o, ns)),
                       Version(o, label, "DRAFT", None, snapshot, base)))
    BY <1>3, <2>2, GoodAndNew
  <2> QED
    BY <2>1, <2>3 DEF Continues
<1> QED
  BY <1>4, <1>5, <1>6, <1>7, <1>8 DEF OntologyStep

-----------------------------------------------------------------------------
(* Releases.                                                               *)

LEMMA ReleaseRequestOpens ==
  ASSUME Base, Uses("releases"), NEW r \in Requests, ReleaseRequest(r)
  PROVE  Opens(r)
<1> USE Base
<1>1. \A table : Rows(table) \subseteq 1 .. made
  BY RowsAreMade
<1>2. \A t \in {"release", "report", "deployment", "bundle", "webhook"} :
        \A row : "table" \in DOMAIN row /\ row.table = t => HasTable(row)
  BY ReleaseTables DEF HasTable
<1>3. Good(r, NoPlan)
  BY GoodNothing
<1>4. CASE CreateWebhook(r)
  <2>1. PICK events \in Subscriptions, k \in 0 .. MaxRetries :
          BeginLocked(r, New(Webhook("second", events, k)), Done)
    BY <1>4 DEF CreateWebhook
  <2>2. HasTable(Webhook("second", events, k))
    BY <1>2 DEF Webhook
  <2> QED
    BY <2>1, <2>2, GoodNew, BeginsLocked
<1>5. CASE UpdateWebhook(r)
  <2>1. PICK w, columns :
          /\ w \in Rows("webhook")
          /\ Editable(columns) /\ BeginLocked(r, Set(w, columns), Done)
    <3>1. PICK w \in Rows("webhook") :
            \/ \E events \in Subscriptions : BeginLocked(r, Set(w, [events |-> events]), Done)
            \/ \E k \in 0 .. MaxRetries : BeginLocked(r, Set(w, [retries |-> k]), Done)
            \/ BeginLocked(r, Set(w, [enabled |-> ~db[w].enabled]), Done)
      BY <1>5 DEF UpdateWebhook
    <3>2. CASE \E events \in Subscriptions : BeginLocked(r, Set(w, [events |-> events]), Done)
      <4>1. PICK events : BeginLocked(r, Set(w, [events |-> events]), Done)
        BY <3>2
      <4>2. Editable([events |-> events])
        BY DEF Editable
      <4> QED
        BY <4>1, <4>2
    <3>3. CASE \E k \in 0 .. MaxRetries : BeginLocked(r, Set(w, [retries |-> k]), Done)
      <4>1. PICK k : BeginLocked(r, Set(w, [retries |-> k]), Done)
        BY <3>3
      <4>2. Editable([retries |-> k])
        BY DEF Editable
      <4> QED
        BY <4>1, <4>2
    <3>4. CASE BeginLocked(r, Set(w, [enabled |-> ~db[w].enabled]), Done)
      <4>1. Editable([enabled |-> ~db[w].enabled])
        BY DEF Editable
      <4> QED
        BY <3>4, <4>1
    <3> QED
      BY <3>1, <3>2, <3>3, <3>4
  <2>2. w \in 1 .. made
    BY <1>1, <2>1
  <2> QED
    BY <2>1, <2>2, GoodSet, BeginsLocked
<1>6. CASE DeleteWebhook(r)
  <2>1. PICK w \in Rows("webhook") : BeginLocked(r, Drop({w}), Done)
    BY <1>6 DEF DeleteWebhook
  <2>2. {w} \subseteq 1 .. made
    BY <1>1
  <2> QED
    BY <2>1, <2>2, GoodDrop, BeginsLocked
<1>7. CASE TestWebhook(r)
  BY <1>3, <1>7, BeginsLocked DEF TestWebhook
<1>8. CASE CreateRelease(r)
  <2>1. PICK label \in ReleaseLabels : Begin(r, New(Release(label)), Done)
    BY <1>8 DEF CreateRelease
  <2>2. HasTable(Release(label))
    BY <1>2 DEF Release
  <2> QED
    BY <2>1, <2>2, GoodNew, Begins
<1>9. CASE UpdateRelease(r)
  <2>1. PICK i, t :
          /\ i \in Rows("release")
          /\ Begin(r, Set(i, [text |-> t]), Done)
    BY <1>9 DEF UpdateRelease
  <2>2. i \in 1 .. made /\ Editable([text |-> t])
    BY <1>1, <2>1 DEF Editable
  <2> QED
    BY <2>1, <2>2, GoodSet, Begins
<1>10. CASE DownloadRelease(r)
  <2>1. PICK i, c :
          /\ i \in Rows("release")
          /\ Begin(r, Set(i, [checksum |-> c]), Done)
    BY <1>10 DEF DownloadRelease
  <2>2. i \in 1 .. made /\ Editable([checksum |-> c])
    BY <1>1, <2>1 DEF Editable
  <2> QED
    BY <2>1, <2>2, GoodSet, Begins
<1>11. CASE RunPreflight(r)
  <2>1. PICK i, n :
          /\ i \in Rows("release")
          /\ Begin(r, And(New([table |-> "report", release |-> i]), Set(i, [results |-> n])), Done)
    BY <1>11 DEF RunPreflight
  <2>2. i \in 1 .. made /\ Editable([results |-> n])
        /\ HasTable([table |-> "report", release |-> i])
    BY <1>1, <1>2, <2>1 DEF Editable
  <2>3. Good(r, New([table |-> "report", release |-> i])) /\ Good(r, Set(i, [results |-> n]))
    BY <2>2, GoodNew, GoodSet
  <2> QED
    BY <2>1, <2>3, GoodAnd, Begins
<1>12. CASE PublishRelease(r)
  <2>1. PICK i, c, job :
          /\ i \in Rows("release")
          /\ Begin(r, Set(i, [status |-> "RELEASED", checksum |-> c]), job)
    BY <1>12 DEF PublishRelease
  <2>2. i \in 1 .. made /\ Editable([status |-> "RELEASED", checksum |-> c])
    BY <1>1, <2>1 DEF Editable
  <2> QED
    BY <2>1, <2>2, GoodSet, Begins
<1>13. CASE CreateDeployment(r)
  <2>1. PICK i, job :
          /\ i \in Rows("release")
          /\ Begin(r, New([table |-> "deployment", release |-> i, status |-> "SUCCEEDED"]), job)
    BY <1>13 DEF CreateDeployment
  <2>2. HasTable([table |-> "deployment", release |-> i, status |-> "SUCCEEDED"])
    BY <1>2, <2>1
  <2> QED
    BY <2>1, <2>2, GoodNew, Begins
<1>14. CASE UpdateDeployment(r)
  <2>1. PICK i \in Rows("deployment"), s \in DeploymentStatus : Begin(r, Set(i, [status |-> s]), Done)
    BY <1>14 DEF UpdateDeployment
  <2>2. i \in 1 .. made /\ Editable([status |-> s])
    BY <1>1 DEF Editable
  <2> QED
    BY <2>1, <2>2, GoodSet, Begins
<1>15. CASE RollbackDeployment(r)
  <2>1. PICK i, job :
          /\ i \in Rows("deployment")
          /\ Begin(r, Set(i, [status |-> "ROLLED_BACK"]), job)
    BY <1>15 DEF RollbackDeployment
  <2>2. i \in 1 .. made /\ Editable([status |-> "ROLLED_BACK"])
    BY <1>1, <2>1 DEF Editable
  <2> QED
    BY <2>1, <2>2, GoodSet, Begins
<1>16. CASE CreateUseCaseBundle(r)
  <2>1. PICK i \in Rows("release") : Begin(r, New([table |-> "bundle", release |-> i]), Done)
    BY <1>16 DEF CreateUseCaseBundle
  <2>2. HasTable([table |-> "bundle", release |-> i])
    BY <1>2
  <2> QED
    BY <2>1, <2>2, GoodNew, Begins
<1> QED
  BY <1>4, <1>5, <1>6, <1>7, <1>8, <1>9, <1>10, <1>11, <1>12, <1>13, <1>14, <1>15, <1>16
     DEF ReleaseRequest

LEMMA ReleaseStepGoesOn ==
  ASSUME Base, NEW r \in Requests, ReleaseStep(r)
  PROVE  Continues(r) \/ Flushes(r)
<1>1. session[r].job[1] \in {"announce", "test"}
  BY DEF ReleaseStep, FlushAndAnnounce, TestReturns
<1>2. session[r].open
  <2>1. ~session[r].open => session[r] = Closed
    BY DEF Base, IsSession
  <2>2. Closed.job[1] = "commit"
    BY DEF Closed, Done
  <2> QED
    BY <1>1, <2>1, <2>2
<1>3. CASE FlushAndAnnounce(r)
  BY <1>2, <1>3 DEF FlushAndAnnounce, Flushes
<1>4. CASE TestReturns(r)
  BY <1>2, <1>4, GoodNothing DEF TestReturns, Continues
<1> QED
  BY <1>3, <1>4 DEF ReleaseStep

-----------------------------------------------------------------------------
(* The audit chain and the members.                                        *)

\* An entry, or an entry with a plan, where a group has entries.
LEMMA GoodEntry ==
  ASSUME Base, "audit" \in Tables(scenario.uses), NEW r \in Requests, NEW target, NEW after
  PROVE  HasTable(AuditEntry(target, after)) /\ Good(r, New(AuditEntry(target, after)))
<1>1. HasTable(AuditEntry(target, after))
  BY DEF HasTable, AuditEntry
<1> QED
  BY <1>1, GoodNew

LEMMA GoodAndEntry ==
  ASSUME Base, "audit" \in Tables(scenario.uses), NEW r \in Requests, NEW p, Good(r, p),
         NEW target, NEW after
  PROVE  /\ Good(r, AndEntry(p, after))
         /\ Good(r, AndNew(p, AuditEntry(target, after)))
         /\ Good(r, And(p, New(AuditEntry(target, after))))
<1>1. HasTable(AuditEntry(target, after))
      /\ HasTable(AuditEntry(Max(DOMAIN p.insert), after))
  BY GoodEntry
<1>2. Good(r, New(AuditEntry(target, after)))
  BY GoodEntry
<1> QED
  BY <1>1, <1>2, GoodAnd, GoodAndNew DEF AndEntry

LEMMA GoodUser ==
  ASSUME Base, "user" \in Tables(scenario.uses), NEW r \in Requests, NEW u
  PROVE  Good(r, EnsureUser(u))
<1>1. HasTable([table |-> "user", user |-> u])
  BY DEF HasTable
<1> QED
  BY <1>1, GoodNew, GoodNothing DEF EnsureUser

LEMMA MemberRequestOpens ==
  ASSUME Base, Uses("members"), NEW r \in Requests, MemberRequest(r)
  PROVE  Opens(r)
<1> USE Base
<1>1. {"audit", "user", "member"} \subseteq Tables(scenario.uses)
  BY MemberTables
<1>2. \A table : Rows(table) \subseteq 1 .. made
  BY RowsAreMade
<1>3. ASSUME NEW m \in Rows("member"), NEW columns, Editable(columns), NEW after,
             BeginLocked(r, And(Set(m, columns), New(AuditEntry(m, after))), Done)
      PROVE  Opens(r)
  <2>1. Good(r, Set(m, columns))
    BY <1>2, <1>3, GoodSet
  <2>2. Good(r, And(Set(m, columns), New(AuditEntry(m, after))))
    BY <1>1, <2>1, GoodAndEntry
  <2> QED
    BY <1>3, <2>2, BeginsLocked
<1>4. CASE InviteMember(r)
  <2> DEFINE member(u, role) == [table |-> "member", user |-> u, role |-> role, active |-> TRUE]
  <2>1. PICK u \in Users, role \in Roles :
          \/ BeginLocked(r, AndEntry(AndNew(EnsureUser(u), member(u, role)),
                                     Diff(member(u, role))), Done)
          \/ \E m \in MemberRow(u) :
               BeginLocked(r, And(Set(m, [role |-> role, active |-> TRUE]),
                                  New(AuditEntry(m, <<role, TRUE>>))), Done)
    BY <1>4 DEF InviteMember
  <2>2. HasTable(member(u, role))
    BY <1>1 DEF HasTable
  <2> HIDE DEF member
  <2>3. Good(r, AndNew(EnsureUser(u), member(u, role)))
    BY <1>1, <2>2, GoodUser, GoodAndNew
  <2>4. Good(r, AndEntry(AndNew(EnsureUser(u), member(u, role)), Diff(member(u, role))))
    BY <1>1, <2>3, GoodAndEntry
  <2>5. CASE \E m \in MemberRow(u) :
               BeginLocked(r, And(Set(m, [role |-> role, active |-> TRUE]),
                                  New(AuditEntry(m, <<role, TRUE>>))), Done)
    <3>1. Editable([role |-> role, active |-> TRUE]) /\ MemberRow(u) \subseteq Rows("member")
      BY DEF Editable, MemberRow
    <3> QED
      BY <1>3, <2>5, <3>1
  <2> QED
    BY <2>1, <2>4, <2>5, BeginsLocked
<1>5. CASE UpdateMemberRole(r)
  <2>1. PICK m \in Rows("member"), role \in Roles :
          BeginLocked(r, And(Set(m, [role |-> role]),
                             New(AuditEntry(m, <<role, db[m].active>>))), Done)
    BY <1>5 DEF UpdateMemberRole
  <2>2. Editable([role |-> role])
    BY DEF Editable
  <2> QED
    BY <1>3, <2>1, <2>2
<1>6. CASE RemoveMember(r)
  <2>1. PICK m \in Rows("member") :
          BeginLocked(r, And(Set(m, [active |-> FALSE]),
                             New(AuditEntry(m, <<db[m].role, FALSE>>))), Done)
    BY <1>6 DEF RemoveMember
  <2>2. Editable([active |-> FALSE])
    BY DEF Editable
  <2> QED
    BY <1>3, <2>1, <2>2
<1> QED
  BY <1>4, <1>5, <1>6 DEF MemberRequest

LEMMA AuditStepGoesOn ==
  ASSUME Base, "audit" \in Tables(scenario.uses), NEW r \in Requests,
         session[r].open, AuditStep(r)
  PROVE  Continues(r) \/ GoesOn(r)
<1>1. CASE CommitThenAudit(r)
  BY <1>1 DEF CommitThenAudit, GoesOn
<1>2. CASE RecordAudit(r)
  <2>1. PICK target, after : Continue(r, New(AuditEntry(target, after)), Done)
    BY <1>2 DEF RecordAudit
  <2>2. Good(r, New(AuditEntry(target, after)))
    BY GoodEntry
  <2> QED
    BY <2>1, <2>2 DEF Continues
<1> QED
  BY <1>1, <1>2 DEF AuditStep

-----------------------------------------------------------------------------
(* Objects.                                                                *)

LEMMA ObjectRequestOpens ==
  ASSUME Base, Uses("objects"), NEW r \in Requests, ObjectRequest(r)
  PROVE  Opens(r)
<1> USE Base
<1>1. {"audit", "object", "link"} \subseteq Tables(scenario.uses)
  BY ObjectTables
<1>2. \A table : Rows(table) \subseteq 1 .. made
  BY RowsAreMade
<1>3. /\ Visible \subseteq 1 .. made
      /\ \A key : Keyed(key) \subseteq 1 .. made
  BY <1>2 DEF Visible, Keyed
<1>4. /\ \A key : HasTable(Object(key))
      /\ \A s, t : HasTable(Link(s, t))
  BY <1>1 DEF HasTable, Object, Link
<1>5. ASSUME NEW i \in 1 .. made PROVE Good(r, Set(i, [rev |-> 1 - db[i].rev]))
  <2>1. Editable([rev |-> 1 - db[i].rev])
    BY DEF Editable
  <2> QED
    BY <2>1, GoodSet
<1>6. ASSUME NEW i \in 1 .. made, Update(r, i) PROVE Opens(r)
  BY <1>5, <1>6, BeginsLocked DEF Update
<1>7. CASE CreateObject(r)
  <2>1. \/ \E key : BeginLocked(r, AndEntry(New(Object(key)), "create"), Done)
        \/ \E i \in 1 .. made : Update(r, i)
    BY <1>3, <1>7 DEF CreateObject
  <2>2. CASE \E key : BeginLocked(r, AndEntry(New(Object(key)), "create"), Done)
    <3>1. PICK key : BeginLocked(r, AndEntry(New(Object(key)), "create"), Done)
      BY <2>2
    <3>2. Good(r, AndEntry(New(Object(key)), "create"))
      BY <1>1, <1>4, GoodNew, GoodAndEntry
    <3> QED
      BY <3>1, <3>2, BeginsLocked
  <2> QED
    BY <1>6, <2>1, <2>2
<1>8. CASE UpdateObject(r)
  BY <1>3, <1>6, <1>8 DEF UpdateObject
<1>9. CASE BulkUpsert(r)
  <2> DEFINE fresh(key) == New(Object(key))
             one(key) == CHOOSE i \in Keyed(key) : TRUE
             plan(key, twice) ==
               IF Keyed(key) = {} THEN IF twice THEN AndNew(fresh(key), Object(key)) ELSE fresh(key)
               ELSE IF Cardinality(Keyed(key)) = 1
               THEN Set(one(key), [rev |-> 1 - db[one(key)].rev])
               ELSE NoPlan
  <2>1. PICK key \in Keys, twice \in BOOLEAN :
          BeginLocked(r, plan(key, twice), <<"audit", None, "update", FALSE>>)
    BY <1>9 DEF BulkUpsert
  <2>2. Good(r, fresh(key)) /\ Good(r, AndNew(fresh(key), Object(key))) /\ Good(r, NoPlan)
    BY <1>4, GoodNew, GoodAndNew, GoodNothing
  <2>3. Keyed(key) # {} => one(key) \in 1 .. made
    BY <1>3
  <2>4. Keyed(key) # {} => Good(r, Set(one(key), [rev |-> 1 - db[one(key)].rev]))
    BY <1>5, <2>3
  <2>5. Good(r, plan(key, twice))
    BY <2>2, <2>4
  <2> HIDE DEF plan
  <2> QED
    BY <2>1, <2>5, BeginsLocked
<1>10. CASE SoftDeleteObject(r)
  <2>1. PICK i \in Visible :
          BeginLocked(r, Set(i, [deleted |-> TRUE]), <<"audit", i, "delete", FALSE>>)
    BY <1>10 DEF SoftDeleteObject
  <2>2. i \in 1 .. made /\ Editable([deleted |-> TRUE])
    BY <1>3 DEF Editable
  <2> QED
    BY <2>1, <2>2, GoodSet, BeginsLocked
<1>11. CASE HardDeleteObject(r)
  <2> DEFINE ids(i) == {i} \cup {l \in Rows("link") : db[l].source = i}
  <2>1. PICK i \in Visible : BeginLocked(r, Drop(ids(i)), <<"audit", i, "delete", FALSE>>)
    BY <1>11 DEF HardDeleteObject
  <2>2. ids(i) \subseteq 1 .. made
    BY <1>2, <1>3
  <2> HIDE DEF ids
  <2> QED
    BY <2>1, <2>2, GoodDrop, BeginsLocked
<1>12. CASE CreateLink(r)
  <2>1. \/ \E s, t : BeginLocked(r, AndEntry(New(Link(s, t)), "create"), Done)
        \/ \E i \in 1 .. made : Update(r, i)
    BY <1>2, <1>12 DEF CreateLink
  <2>2. CASE \E s, t : BeginLocked(r, AndEntry(New(Link(s, t)), "create"), Done)
    <3>1. PICK s, t : BeginLocked(r, AndEntry(New(Link(s, t)), "create"), Done)
      BY <2>2
    <3>2. Good(r, AndEntry(New(Link(s, t)), "create"))
      BY <1>1, <1>4, GoodNew, GoodAndEntry
    <3> QED
      BY <3>1, <3>2, BeginsLocked
  <2> QED
    BY <1>6, <2>1, <2>2
<1>13. CASE UpdateLink(r)
  BY <1>2, <1>6, <1>13 DEF UpdateLink
<1>14. CASE DeleteLink(r)
  <2>1. PICK l \in Rows("link") : BeginLocked(r, Drop({l}), <<"audit", l, "delete", FALSE>>)
    BY <1>14 DEF DeleteLink
  <2>2. {l} \subseteq 1 .. made
    BY <1>2
  <2> QED
    BY <2>1, <2>2, GoodDrop, BeginsLocked
<1> QED
  BY <1>7, <1>8, <1>9, <1>10, <1>11, <1>12, <1>13, <1>14 DEF ObjectRequest

-----------------------------------------------------------------------------
(* Workspaces.                                                             *)

LEMMA WorkspaceRequestOpens ==
  ASSUME Base, Uses("workspaces"), NEW r \in Requests, WorkspaceRequest(r)
  PROVE  Opens(r)
<1> USE Base
<1>1. {"audit", "user", "workspace", "wsmember", "provider", "login"}
        \subseteq Tables(scenario.uses)
  BY WorkspaceTables
<1>2. \A table : Rows(table) \subseteq 1 .. made
  BY RowsAreMade
<1>3. /\ \A slug, u : HasTable(Workspace(slug, u))
      /\ \A w, u, role : HasTable(Membership(w, u, role))
      /\ \A w : HasTable(Provider(w))
  BY <1>1 DEF HasTable, Workspace, Membership, Provider
<1>4. ASSUME NEW i \in 1 .. made, NEW columns, Editable(columns), NEW after,
             BeginLocked(r, And(Set(i, columns), New(AuditEntry(i, after))), Done)
      PROVE  Opens(r)
  <2>1. Good(r, Set(i, columns))
    BY <1>4, GoodSet
  <2>2. Good(r, And(Set(i, columns), New(AuditEntry(i, after))))
    BY <1>1, <2>1, GoodAndEntry
  <2> QED
    BY <1>4, <2>2, BeginsLocked
<1>5. \A slug, u : Good(r, OwnWorkspace(slug, u))
  BY <1>3, GoodNew, GoodAndNew DEF OwnWorkspace
<1>6. CASE CreateWorkspace(r)
  <2>1. PICK slug, u, target :
          BeginLocked(r, AndNew(OwnWorkspace(slug, u), AuditEntry(target, "create")), Done)
    BY <1>6 DEF CreateWorkspace
  <2>2. Good(r, AndNew(OwnWorkspace(slug, u), AuditEntry(target, "create")))
    BY <1>1, <1>5, GoodAndEntry
  <2> QED
    BY <2>1, <2>2, BeginsLocked
<1>7. CASE ListMyWorkspaces(r)
  <2>1. PICK slug, u : BeginLocked(r, OwnWorkspace(slug, u), Done)
    BY <1>7 DEF ListMyWorkspaces
  <2> QED
    BY <1>5, <2>1, BeginsLocked
<1>8. CASE UpdateWorkspace(r)
  <2>1. PICK w, rev :
          /\ w \in Rows("workspace")
          /\ BeginLocked(r, And(Set(w, [rev |-> rev]), New(AuditEntry(w, "update"))), Done)
    BY <1>8 DEF UpdateWorkspace
  <2>2. w \in 1 .. made /\ Editable([rev |-> rev])
    BY <1>2, <2>1 DEF Editable
  <2> QED
    BY <1>4, <2>1, <2>2
<1>9. CASE DeleteWorkspace(r)
  <2>1. PICK w \in Rows("workspace") :
          BeginLocked(r, And(And(Set(w, [deleted |-> TRUE]), Drop(In(w))),
                             New(AuditEntry(w, "delete"))), Done)
    BY <1>9 DEF DeleteWorkspace
  <2>2. w \in 1 .. made /\ In(w) \subseteq 1 .. made /\ Editable([deleted |-> TRUE])
    BY <1>2 DEF In, Editable
  <2>3. Good(r, Set(w, [deleted |-> TRUE])) /\ Good(r, Drop(In(w)))
    BY <2>2, GoodSet, GoodDrop
  <2>4. Good(r, And(Set(w, [deleted |-> TRUE]), Drop(In(w))))
    BY <2>3, GoodAnd
  <2>5. Good(r, And(And(Set(w, [deleted |-> TRUE]), Drop(In(w))), New(AuditEntry(w, "delete"))))
    BY <1>1, <2>4, GoodAndEntry
  <2> QED
    BY <2>1, <2>5, BeginsLocked
<1>10. CASE InviteWorkspaceMember(r)
  <2>1. PICK w, u, role :
          BeginLocked(r, AndEntry(AndNew(EnsureUser(u), Membership(w, u, role)), "create"), Done)
    BY <1>10 DEF InviteWorkspaceMember
  <2>2. Good(r, AndNew(EnsureUser(u), Membership(w, u, role)))
    BY <1>1, <1>3, GoodUser, GoodAndNew
  <2>3. Good(r, AndEntry(AndNew(EnsureUser(u), Membership(w, u, role)), "create"))
    BY <1>1, <2>2, GoodAndEntry
  <2> QED
    BY <2>1, <2>3, BeginsLocked
<1>11. CASE ChangeMemberRole(r)
  <2>1. PICK w, u, role, m :
          /\ m \in ActiveMember(w, u)
          /\ BeginLocked(r, And(Set(m, [role |-> role]), New(AuditEntry(m, "update"))), Done)
    BY <1>11 DEF ChangeMemberRole
  <2>2. m \in 1 .. made /\ Editable([role |-> role])
    BY <1>2, <2>1 DEF ActiveMember, In, Editable
  <2> QED
    BY <1>4, <2>1, <2>2
<1>12. CASE RemoveWorkspaceMember(r)
  <2>1. PICK w, u, m :
          /\ m \in ActiveMember(w, u)
          /\ BeginLocked(r, And(Set(m, [active |-> FALSE]), New(AuditEntry(m, "delete"))), Done)
    BY <1>12 DEF RemoveWorkspaceMember
  <2>2. m \in 1 .. made /\ Editable([active |-> FALSE])
    BY <1>2, <2>1 DEF ActiveMember, In, Editable
  <2> QED
    BY <1>4, <2>1, <2>2
<1>13. CASE CreateProvider(r)
  <2>1. PICK w : BeginLocked(r, AndEntry(New(Provider(w)), "create"), Done)
    BY <1>13 DEF CreateProvider
  <2>2. Good(r, AndEntry(New(Provider(w)), "create"))
    BY <1>1, <1>3, GoodNew, GoodAndEntry
  <2> QED
    BY <2>1, <2>2, BeginsLocked
<1>14. CASE UpdateProvider(r)
  <2>1. PICK p, status, provision :
          /\ p \in Rows("provider")
          /\ BeginLocked(r, And(Set(p, [status |-> status, provision |-> provision]),
                                New(AuditEntry(p, "update"))), Done)
    BY <1>14 DEF UpdateProvider
  <2>2. p \in 1 .. made /\ Editable([status |-> status, provision |-> provision])
    BY <1>2, <2>1 DEF Editable
  <2> QED
    BY <1>4, <2>1, <2>2
<1>15. CASE DeleteProvider(r)
  <2> DEFINE ids(p) == {p} \cup {l \in Rows("login") : db[l].provider = p}
  <2>1. PICK p \in Rows("provider") :
          BeginLocked(r, And(Drop(ids(p)), New(AuditEntry(p, "delete"))), Done)
    BY <1>15 DEF DeleteProvider
  <2>2. ids(p) \subseteq 1 .. made
    BY <1>2
  <2> HIDE DEF ids
  <2>3. Good(r, And(Drop(ids(p)), New(AuditEntry(p, "delete"))))
    BY <1>1, <2>2, GoodDrop, GoodAndEntry
  <2> QED
    BY <2>1, <2>3, BeginsLocked
<1>16. CASE TestProvider(r)
  BY <1>16, GoodNothing, BeginsLocked DEF TestProvider
<1>17. CASE SsoLogin(r)
  <2>1. PICK p, w :
          Begin(r, New([table |-> "login", provider |-> p, ws |-> w, consumed |-> FALSE]), Done)
    BY <1>17 DEF SsoLogin
  <2>2. HasTable([table |-> "login", provider |-> p, ws |-> w, consumed |-> FALSE])
    BY <1>1 DEF HasTable
  <2> QED
    BY <2>1, <2>2, GoodNew, Begins
<1>18. CASE SsoCallback(r)
  <2>1. PICK l, job :
          /\ l \in Rows("login")
          /\ Begin(r, Set(l, [consumed |-> TRUE]), job)
    BY <1>18 DEF SsoCallback
  <2>2. l \in 1 .. made /\ Editable([consumed |-> TRUE])
    BY <1>2, <2>1 DEF Editable
  <2> QED
    BY <2>1, <2>2, GoodSet, Begins
<1> QED
  BY <1>6, <1>7, <1>8, <1>9, <1>10, <1>11, <1>12, <1>13, <1>14, <1>15, <1>16, <1>17, <1>18
     DEF WorkspaceRequest

LEMMA WorkspaceStepGoesOn ==
  ASSUME Base, Uses("workspaces"), NEW r \in Requests, session[r].open, WorkspaceStep(r)
  PROVE  Continues(r) \/ Flushes(r)
<1> USE Base
<1>1. {"audit", "user", "wsmember"} \subseteq Tables(scenario.uses)
  BY WorkspaceTables
<1>2. Good(r, session[r].plan)
  BY DEF Base
<1>3. CASE CallbackFlushes(r)
  BY <1>3 DEF CallbackFlushes, Flushes
<1>4. CASE CallbackProvisions(r)
  <2> DEFINE p == session[r].plan
             w == session[r].job[2]
             u == session[r].job[3]
             user == And(p, EnsureUser(u))
             member == IF {m \in In(w) : db[m].user = u} = {}
                       THEN AndNew(user, Membership(w, u, "member")) ELSE user
  <2>1. Good(r, user)
    BY <1>1, <1>2, GoodUser, GoodAnd
  <2>2. HasTable(Membership(w, u, "member"))
    BY <1>1 DEF HasTable, Membership
  <2>3. Good(r, member)
    BY <2>1, <2>2, GoodAndNew
  <2>4. Good(r, AndNew(p, AuditEntry(None, "rejected")))
        /\ Good(r, AndNew(member, AuditEntry(None, "login")))
    BY <1>1, <1>2, <2>3, GoodAndEntry
  <2>5. \/ Continue(r, p, Done)
        \/ Continue(r, AndNew(p, AuditEntry(None, "rejected")), Done)
        \/ Continue(r, AndNew(member, AuditEntry(None, "login")), Done)
    BY <1>4 DEF CallbackProvisions
  <2> HIDE DEF p, member
  <2> QED
    BY <1>2, <2>4, <2>5 DEF Continues, p
<1> QED
  BY <1>3, <1>4 DEF WorkspaceStep

-----------------------------------------------------------------------------
(* Sources, evidence, proposals and connectors.                            *)

\* What a function has as values on a finite domain is finite.
LEMMA FiniteImage ==
  ASSUME NEW f, IsFiniteSet(DOMAIN f)
  PROVE  IsFiniteSet({f[x] : x \in DOMAIN f})
<1> DEFINE S == DOMAIN f
           T == {f[x] : x \in S}
           g == [x \in S |-> f[x]]
<1>1. g \in Surjection(S, T)
  BY DEF Surjection
<1> HIDE DEF g
<1> QED
  BY <1>1, FS_Surjection

LEMMA RowsAreFinite ==
  ASSUME Base, NEW ids, ids \subseteq DOMAIN db
  PROVE  IsFiniteSet(ids)
<1>1. made \in Nat /\ ids \in SUBSET (1 .. made)
  BY DEF Base
<1>2. IsFiniteSet(1 .. made)
  BY <1>1, FS_Interval
<1> QED
  BY <1>1, <1>2, FS_Subset

\* The rows of an upload: a source, and evidence for its fields.
LEMMA FoundRows ==
  ASSUME Base, {"audit", "source", "evidence"} \subseteq Tables(scenario.uses),
         NEW r \in Requests, NEW given \in SUBSET Fields, NEW fields \in SUBSET Fields,
         NEW found, found \in {{}, {Evidence(made + 1, f) : f \in fields}}
  PROVE  /\ Good(r, New(Source(given))) /\ HasTable(Source(given))
         /\ IsFiniteSet(found) /\ \A row \in found : HasTable(row)
<1>1. IsFiniteSet(given) /\ IsFiniteSet(fields)
  BY FieldsAssumption, FS_Subset
<1>2. HasTable(Source(given))
  BY <1>1 DEF HasTable, Source
<1>3. \A f : HasTable(Evidence(made + 1, f))
  BY DEF HasTable, Evidence
<1>4. IsFiniteSet({Evidence(made + 1, f) : f \in fields})
  <2> DEFINE g == [f \in fields |-> Evidence(made + 1, f)]
  <2>1. {g[f] : f \in DOMAIN g} = {Evidence(made + 1, f) : f \in fields} /\ DOMAIN g = fields
    OBVIOUS
  <2> HIDE DEF g
  <2>2. IsFiniteSet(DOMAIN g)
    BY <1>1, <2>1
  <2> QED
    BY <2>1, <2>2, FiniteImage
<1>5. IsFiniteSet(found) /\ \A row \in found : HasTable(row)
  <2>1. CASE found = {}
    BY <2>1, FS_EmptySet
  <2>2. CASE found = {Evidence(made + 1, f) : f \in fields}
    BY <1>3, <1>4, <2>2
  <2> QED
    BY <2>1, <2>2
<1>6. Good(r, New(Source(given)))
  BY <1>2, GoodNew
<1> QED
  BY <1>2, <1>5, <1>6

LEMMA GoodFound ==
  ASSUME Base, {"audit", "source", "evidence"} \subseteq Tables(scenario.uses),
         NEW r \in Requests, NEW given \in SUBSET Fields, NEW fields \in SUBSET Fields,
         NEW found, found \in {{}, {Evidence(made + 1, f) : f \in fields}},
         NEW target, NEW after
  PROVE  Good(r, AndNew(AndAll(New(Source(given)), found), AuditEntry(target, after)))
<1>1. /\ Good(r, New(Source(given)))
      /\ IsFiniteSet(found) /\ \A row \in found : HasTable(row)
  BY FoundRows
<1>2. Good(r, AndAll(New(Source(given)), found))
  BY <1>1, GoodAndAll
<1> QED
  BY <1>2, GoodAndEntry

LEMMA SourceRequestOpens ==
  ASSUME Base, Uses("evidence"), NEW r \in Requests, SourceRequest(r)
  PROVE  Opens(r)
<1> USE Base
<1>1. {"audit", "source", "evidence", "profiling"} \subseteq Tables(scenario.uses)
  BY EvidenceTables
<1>2. \A table : Rows(table) \subseteq 1 .. made
  BY RowsAreMade
<1>3. /\ HasTable(Source({}))
      /\ \A s, f : HasTable(Evidence(s, f))
      /\ \A s : HasTable([table |-> "profiling", source |-> s, status |-> "pending"])
  BY <1>1, FS_EmptySet DEF HasTable, Source, Evidence
<1>4. \A iri : Editable(Aligned(iri)) /\ Editable(Rejected)
  BY DEF Editable, Aligned, Rejected
<1>5. ASSUME NEW p, Good(r, p), NEW target, NEW after,
             BeginLocked(r, And(p, New(AuditEntry(target, after))), Done)
      PROVE  Opens(r)
  <2>1. Good(r, And(p, New(AuditEntry(target, after))))
    BY <1>1, <1>5, GoodAndEntry
  <2> QED
    BY <1>5, <2>1, BeginsLocked
<1>6. ASSUME NEW row, HasTable(row), BeginLocked(r, AndEntry(New(row), "create"), Done)
      PROVE  Opens(r)
  <2>1. Good(r, AndEntry(New(row), "create"))
    BY <1>1, <1>6, GoodNew, GoodAndEntry
  <2> QED
    BY <1>6, <2>1, BeginsLocked
<1>7. CASE CreateSource(r)
  BY <1>3, <1>6, <1>7 DEF CreateSource
<1>8. CASE UploadSource(r)
  <2>1. PICK fields \in SUBSET Fields, auto \in BOOLEAN :
          BeginLocked(r, AndNew(AndAll(New(Source(fields)),
                                       IF auto THEN {Evidence(made + 1, f) : f \in fields} ELSE {}),
                                AuditEntry(made + 1, "create")), Done)
    BY <1>8 DEF UploadSource
  <2> DEFINE found == IF auto THEN {Evidence(made + 1, f) : f \in fields} ELSE {}
  <2>2. found \in {{}, {Evidence(made + 1, f) : f \in fields}}
    OBVIOUS
  <2> HIDE DEF found
  <2>3. Good(r, AndNew(AndAll(New(Source(fields)), found), AuditEntry(made + 1, "create")))
    BY <1>1, <2>2, GoodFound
  <2> QED
    BY <2>1, <2>3, BeginsLocked DEF found
<1>9. CASE UpdateSource(r)
  <2>1. PICK s : BeginLocked(r, New(AuditEntry(s, "update")), Done)
    BY <1>9 DEF UpdateSource
  <2>2. Good(r, New(AuditEntry(s, "update")))
    BY <1>1, GoodEntry
  <2> QED
    BY <2>1, <2>2, BeginsLocked
<1>10. CASE DeleteSource(r)
  <2> DEFINE ids(s) == {s} \cup EvidenceOf(s) \cup {p \in Rows("profiling") : db[p].source = s}
  <2>1. PICK s \in Rows("source") :
          BeginLocked(r, And(Drop(ids(s)), New(AuditEntry(s, "delete"))), Done)
    BY <1>10 DEF DeleteSource
  <2>2. ids(s) \subseteq 1 .. made
    BY <1>2 DEF EvidenceOf
  <2> HIDE DEF ids
  <2> QED
    BY <1>5, <2>1, <2>2, GoodDrop
<1>11. CASE CreateEvidence(r)
  <2>1. PICK s, f, iri :
          BeginLocked(r, AndEntry(New([Evidence(s, f) EXCEPT !.iri = iri]), "create"), Done)
    BY <1>11 DEF CreateEvidence
  <2>2. HasTable([Evidence(s, f) EXCEPT !.iri = iri])
    BY <1>1 DEF HasTable, Evidence
  <2> QED
    BY <1>6, <2>1, <2>2
<1>12. CASE AlignEvidence(r)
  <2>1. PICK e \in Rows("evidence"), iri \in ClassIris :
          BeginLocked(r, And(Set(e, Aligned(iri)), New(AuditEntry(None, "align"))), Done)
    BY <1>12 DEF AlignEvidence
  <2>2. Good(r, Set(e, Aligned(iri)))
    BY <1>2, <1>4, GoodSet
  <2> QED
    BY <1>5, <2>1, <2>2
<1>13. CASE RejectEvidence(r)
  <2>1. PICK e \in Rows("evidence") :
          BeginLocked(r, And(Set(e, Rejected), New(AuditEntry(None, "reject"))), Done)
    BY <1>13 DEF RejectEvidence
  <2>2. Good(r, Set(e, Rejected))
    BY <1>2, <1>4, GoodSet
  <2> QED
    BY <1>5, <2>1, <2>2
<1>14. CASE BulkConfirm(r)
  <2>1. PICK ids \in SUBSET Rows("evidence"), iri \in ClassIris :
          BeginLocked(r, And(SetAll(ids, Aligned(iri)), New(AuditEntry(None, "align"))), Done)
    BY <1>14 DEF BulkConfirm
  <2>2. Good(r, SetAll(ids, Aligned(iri)))
    BY <1>2, <1>4, GoodSetAll
  <2> QED
    BY <1>5, <2>1, <2>2
<1>15. CASE BulkReject(r)
  <2>1. PICK ids \in SUBSET Rows("evidence") :
          BeginLocked(r, And(SetAll(ids, Rejected), New(AuditEntry(None, "reject"))), Done)
    BY <1>15 DEF BulkReject
  <2>2. Good(r, SetAll(ids, Rejected))
    BY <1>2, <1>4, GoodSetAll
  <2> QED
    BY <1>5, <2>1, <2>2
<1>16. CASE CreateProfilingRun(r)
  <2>1. PICK s :
          BeginLocked(r, AndEntry(New([table |-> "profiling", source |-> s, status |-> "pending"]),
                                  "create"), Done)
    BY <1>16 DEF CreateProfilingRun
  <2> QED
    BY <1>3, <1>6, <2>1
<1>17. CASE ExecuteProfiling(r)
  <2> DEFINE runs(s) == {p \in Rows("profiling") : db[p].source = s}
             plan(s) == IF runs(s) = {} THEN NoPlan ELSE Set(Max(runs(s)), [status |-> "completed"])
  <2>1. PICK s \in Rows("source") : BeginLocked(r, plan(s), Done)
    BY <1>17 DEF ExecuteProfiling
  <2>2. ASSUME runs(s) # {} PROVE Max(runs(s)) \in 1 .. made
    <3>1. made \in Nat /\ runs(s) \subseteq 0 .. made /\ runs(s) \subseteq 1 .. made
      BY <1>2 DEF Base
    <3> HIDE DEF runs
    <3>2. Max(runs(s)) \in runs(s)
      BY <2>2, <3>1, MaxIs
    <3> QED
      BY <3>1, <3>2
  <2>3. Editable([status |-> "completed"])
    BY DEF Editable
  <2> HIDE DEF runs
  <2>4. Good(r, plan(s))
    BY <2>2, <2>3, GoodSet, GoodNothing
  <2> HIDE DEF plan
  <2> QED
    BY <2>1, <2>4, BeginsLocked
<1> QED
  BY <1>7, <1>8, <1>9, <1>10, <1>11, <1>12, <1>13, <1>14, <1>15, <1>16, <1>17
     DEF SourceRequest

LEMMA ProposalRequestOpens ==
  ASSUME Base, Uses("evidence"), NEW r \in Requests, ProposalRequest(r)
  PROVE  Opens(r)
<1> USE Base
<1>1. {"proposal", "decision"} \subseteq Tables(scenario.uses)
  BY EvidenceTables
<1>2. \A table : Rows(table) \subseteq 1 .. made
  BY RowsAreMade
<1>3. /\ \A s, f, c : HasTable(Generated(s, f, c))
      /\ \A s, project, c, content : HasTable(Proposal(s, project, c, content))
      /\ \A p, v : HasTable([table |-> "decision", proposal |-> p, verdict |-> v])
  BY <1>1 DEF HasTable, Proposal, Generated
<1>4. ASSUME NEW g, IsFiniteSet(DOMAIN g), \A f \in DOMAIN g : HasTable(g[f])
      PROVE  Good(r, AndAll(NoPlan, {g[f] : f \in DOMAIN g}))
  <2> DEFINE rows == {g[f] : f \in DOMAIN g}
  <2>1. IsFiniteSet(rows) /\ \A row \in rows : HasTable(row)
    BY <1>4, FiniteImage
  <2> HIDE DEF rows
  <2>2. Good(r, AndAll(NoPlan, rows))
    BY <2>1, GoodNothing, GoodAndAll
  <2> QED
    BY <2>2 DEF rows
<1>5. CASE GenerateFromProfiling(r)
  <2>1. PICK s \in Rows("source") :
          \E fields \in SUBSET db[s].fields : Begin(r, FromProfiling(s, fields), Done)
    BY <1>5 DEF GenerateFromProfiling
  <2>2. PICK fields \in SUBSET db[s].fields : Begin(r, FromProfiling(s, fields), Done)
    BY <2>1
  <2>3. IsFiniteSet(fields)
    <3>1. s \in DOMAIN db /\ db[s].table = "source" /\ HasTable(db[s])
      BY DEF Base, Rows
    <3>2. IsFiniteSet(db[s].fields)
      BY <3>1 DEF HasTable
    <3> QED
      BY <3>2, FS_Subset
  <2> DEFINE g == [f \in fields |-> Generated(s, f, f)]
  <2>4. /\ DOMAIN g = fields
        /\ \A f \in DOMAIN g : HasTable(g[f])
        /\ {Generated(s, f, f) : f \in fields} = {g[f] : f \in DOMAIN g}
    BY <1>3
  <2> HIDE DEF g
  <2>5. Good(r, FromProfiling(s, fields))
    BY <1>4, <2>3, <2>4 DEF FromProfiling
  <2> QED
    BY <2>2, <2>5, Begins
<1>6. CASE GenerateFromEvidence(r)
  <2> DEFINE open == {e \in Rows("evidence") : ~db[e].confirmed /\ db[e].iri = None}
             first(f) == Min({e \in open : NameOf(e) = f})
             h == [e \in open |-> NameOf(e)]
             fields == {NameOf(e) : e \in open}
             g == [f \in fields |-> Generated(db[first(f)].source, f, None)]
  <2>1. IsFiniteSet(open)
    BY RowsAreFinite DEF Rows
  <2>2. fields = {h[e] : e \in DOMAIN h} /\ DOMAIN h = open
    OBVIOUS
  <2> HIDE DEF h
  <2>3. IsFiniteSet(fields)
    <3> HIDE DEF open, fields
    <3> QED
      BY <2>1, <2>2, FiniteImage
  <2>4. /\ DOMAIN g = fields
        /\ \A f \in DOMAIN g : HasTable(g[f])
        /\ {Generated(db[first(f)].source, f, None) : f \in fields} = {g[f] : f \in DOMAIN g}
    <3> HIDE DEF first, fields
    <3> QED
      BY <1>3
  <2>5. FromEvidence = AndAll(NoPlan, {Generated(db[first(f)].source, f, None) : f \in fields})
    BY DEF FromEvidence
  <2> HIDE DEF g, first, fields
  <2>6. Good(r, FromEvidence)
    BY <1>4, <2>3, <2>4, <2>5
  <2> QED
    BY <1>6, <2>6, Begins DEF GenerateFromEvidence
<1>7. CASE UpdateProposal(r)
  <2>1. PICK p \in Rows("proposal") : \E f, iri : Begin(r, Set(p, [content |-> Naming(f, iri)]), Done)
    BY <1>7 DEF UpdateProposal
  <2>2. PICK f, iri : Begin(r, Set(p, [content |-> Naming(f, iri)]), Done)
    BY <2>1
  <2>3. p \in 1 .. made /\ Editable([content |-> Naming(f, iri)])
    BY <1>2 DEF Editable
  <2> QED
    BY <2>2, <2>3, GoodSet, Begins
<1>11. CASE CreateProposal(r)
  <2>1. PICK s, project, c, content : Begin(r, New(Proposal(s, project, c, content)), Done)
    BY <1>11 DEF CreateProposal
  <2> QED
    BY <1>3, <2>1, GoodNew, Begins
<1>8. CASE DeleteProposal(r)
  <2> DEFINE ids(p) == {p} \cup {d \in Rows("decision") : db[d].proposal = p}
  <2>1. PICK p \in Rows("proposal") : Begin(r, Drop(ids(p)), Done)
    BY <1>8 DEF DeleteProposal
  <2>2. ids(p) \subseteq 1 .. made
    BY <1>2
  <2> HIDE DEF ids
  <2> QED
    BY <2>1, <2>2, GoodDrop, Begins
<1>9. CASE BatchReviewProposals(r)
  <2>1. PICK ps \in SUBSET Rows("proposal"), v \in {"accept", "reject"} :
          Begin(r, SetAll(ps, [status |-> StatusAfter(v)]), Done)
    BY <1>9 DEF BatchReviewProposals
  <2>2. ps \subseteq 1 .. made /\ Editable([status |-> StatusAfter(v)])
    BY <1>2 DEF Editable
  <2> QED
    BY <2>1, <2>2, GoodSetAll, Begins
<1>10. CASE CreateDecision(r)
  <2> DEFINE row(p, v) == [table |-> "decision", proposal |-> p, verdict |-> v]
  <2>1. PICK p, v, job :
          /\ p \in Rows("proposal")
          /\ Begin(r, And(Set(p, [status |-> StatusAfter(v)]), New(row(p, v))), job)
    BY <1>10 DEF CreateDecision
  <2>2. p \in 1 .. made /\ Editable([status |-> StatusAfter(v)]) /\ HasTable(row(p, v))
    BY <1>2, <1>3, <2>1 DEF Editable
  <2> HIDE DEF row
  <2>3. Good(r, Set(p, [status |-> StatusAfter(v)])) /\ Good(r, New(row(p, v)))
    BY <2>2, GoodSet, GoodNew
  <2> QED
    BY <2>1, <2>3, GoodAnd, Begins
<1> QED
  BY <1>5, <1>6, <1>7, <1>8, <1>9, <1>10, <1>11 DEF ProposalRequest

\* A decision that is being made names a proposal that there has been.
IsDecision(job, highest) ==
  \/ job = Done
  \/ \E step \in {"decide", "confirm"}, p \in 1 .. highest :
       \E v, n, row : job = <<step, p, v, n, row>>

Deciding == Uses("evidence") => \A r \in Requests : IsDecision(session[r].job, made)

LEMMA ProposalStepGoesOn ==
  ASSUME Base, Deciding, Uses("evidence"), NEW r \in Requests, session[r].open, ProposalStep(r)
  PROVE  Continues(r) \/ Flushes(r)
<1> USE Base
<1>1. "audit" \in Tables(scenario.uses)
  BY EvidenceTables
<1>2. Good(r, session[r].plan)
  BY DEF Base
<1>3. CASE DecisionFlushes(r)
  BY <1>3 DEF DecisionFlushes, Flushes
<1>4. CASE DecisionConfirms(r)
  <2> DEFINE job == session[r].job
             p == job[5]
             ids == Matched(p)
             iri(e) == IF p.content.iri = None THEN db[e].iri ELSE p.content.iri
             update == [e \in ids |-> [iri |-> iri(e), confirmed |-> TRUE, by |-> job[4]]]
             confirmed == [NoPlan EXCEPT !.update = update]
             report == [status |-> "ACCEPTED", content |-> [p.content EXCEPT !.confirmed = ids]]
             changed == And(SetAll({job[2]}, report), And(confirmed, session[r].plan))
             noted == IF p.project THEN ids ELSE {}
             g == [e \in noted |-> Confirmation(e)]
  <2>1. job[1] = "confirm"
    BY <1>4 DEF DecisionConfirms
  <2>2. \/ Continue(r, AndAll(changed, {Confirmation(e) : e \in noted}), Done)
        \/ Continue(r, session[r].plan, Done)
    BY <1>4 DEF DecisionConfirms
  <2>3. {job[2]} \subseteq 1 .. made
    <3>1. IsDecision(job, made)
      BY DEF Deciding
    <3>2. job # Done
      BY <2>1 DEF Done
    <3>3. PICK step \in {"decide", "confirm"}, q \in 1 .. made :
            \E v, n, row : job = <<step, q, v, n, row>>
      BY <3>1, <3>2 DEF IsDecision
    <3>4. PICK v, n, row : job = <<step, q, v, n, row>>
      BY <3>3
    <3> HIDE DEF job
    <3>5. job[2] = q
      BY <3>4
    <3> QED
      BY <3>5
  <2>4. ids \subseteq DOMAIN db /\ ids \subseteq 1 .. made
    BY RowsAreMade DEF Matched, Rows
  <2>5. IsFiniteSet(noted)
    BY <2>4, RowsAreFinite, FS_EmptySet
  <2>6. Editable(report) /\ \A e \in ids : Editable(update[e])
    BY DEF Editable
  <2> HIDE DEF report, job, p
  <2>7. Good(r, confirmed)
    <3>1. DOMAIN update = ids
      OBVIOUS
    <3> HIDE DEF update, ids
    <3>2. confirmed = [insert |-> Nothing, update |-> update, delete |-> {}]
      BY DEF NoPlan
    <3> HIDE DEF confirmed
    <3> QED
      BY <2>4, <2>6, <3>1, <3>2 DEF Good, IsPlan, Nothing
  <2> HIDE DEF confirmed, ids, noted
  <2>8. Good(r, SetAll({job[2]}, report))
    BY <2>3, <2>6, GoodSetAll
  <2>9. Good(r, changed)
    BY <1>2, <2>7, <2>8, GoodAnd
  <2>10. DOMAIN g = noted /\ {Confirmation(e) : e \in noted} = {g[e] : e \in DOMAIN g}
    OBVIOUS
  <2>11. \A e : HasTable(Confirmation(e))
    BY <1>1 DEF HasTable, Confirmation
  <2> DEFINE rows == {Confirmation(e) : e \in noted}
  <2>12. \A row \in rows : HasTable(row)
    BY <2>11
  <2>13. IsFiniteSet(rows)
    <3> HIDE DEF g
    <3> QED
      BY <2>5, <2>10, FiniteImage
  <2> HIDE DEF rows, changed
  <2>14. Good(r, AndAll(changed, rows))
    BY <2>9, <2>12, <2>13, GoodAndAll
  <2> QED
    BY <1>2, <2>2, <2>14 DEF Continues, rows
<1> QED
  BY <1>3, <1>4 DEF ProposalStep

LEMMA ConnectorRequestOpens ==
  ASSUME Base, Uses("connectors"), NEW r \in Requests, ConnectorRequest(r)
  PROVE  Opens(r)
<1> USE Base
<1>1. {"audit", "source", "evidence", "connector"} \subseteq Tables(scenario.uses)
  BY ConnectorTables
<1>2. Live \subseteq 1 .. made
  BY RowsAreMade DEF Live
<1>3. \A config, secret : HasTable(Connector(config, secret))
  BY <1>1 DEF HasTable, Connector
<1>4. ASSUME NEW c \in Live, NEW columns, Editable(columns), NEW after,
             BeginLocked(r, And(Set(c, columns), New(AuditEntry(c, after))), Done)
      PROVE  Opens(r)
  <2>1. Good(r, Set(c, columns))
    BY <1>2, <1>4, GoodSet
  <2>2. Good(r, And(Set(c, columns), New(AuditEntry(c, after))))
    BY <1>1, <2>1, GoodAndEntry
  <2> QED
    BY <1>4, <2>2, BeginsLocked
<1>5. CASE CreateConnector(r)
  <2>1. PICK config, secret :
          BeginLocked(r, AndEntry(New(Connector(config, secret)), "create"), Done)
    BY <1>5 DEF CreateConnector
  <2>2. Good(r, AndEntry(New(Connector(config, secret)), "create"))
    BY <1>1, <1>3, GoodNew, GoodAndEntry
  <2> QED
    BY <2>1, <2>2, BeginsLocked
<1>6. CASE UpdateConnector(r)
  <2>1. PICK c, config, secret, status :
          /\ c \in Live
          /\ BeginLocked(r, And(Set(c, [config |-> config, secret |-> secret, status |-> status]),
                                New(AuditEntry(c, "update"))), Done)
    BY <1>6 DEF UpdateConnector
  <2>2. Editable([config |-> config, secret |-> secret, status |-> status])
    BY DEF Editable
  <2> QED
    BY <1>4, <2>1, <2>2
<1>7. CASE DeleteConnector(r)
  <2>1. PICK c \in Live :
          BeginLocked(r, And(Set(c, [deleted |-> TRUE, status |-> "ARCHIVED"]),
                             New(AuditEntry(c, "delete"))), Done)
    BY <1>7 DEF DeleteConnector
  <2>2. Editable([deleted |-> TRUE, status |-> "ARCHIVED"])
    BY DEF Editable
  <2> QED
    BY <1>4, <2>1, <2>2
<1>8. CASE TestConnector(r)
  <2>1. PICK c, status :
          /\ c \in Live
          /\ BeginLocked(r, And(Set(c, [status |-> status]), New(AuditEntry(c, "test"))), Done)
    BY <1>8 DEF TestConnector
  <2>2. Editable([status |-> status])
    BY DEF Editable
  <2> QED
    BY <1>4, <2>1, <2>2
<1>9. CASE SnapshotConnector(r)
  <2>1. PICK c : BeginLocked(r, New(AuditEntry(c, "read")), Done)
    BY <1>9 DEF SnapshotConnector
  <2>2. Good(r, New(AuditEntry(c, "read")))
    BY <1>1, GoodEntry
  <2> QED
    BY <2>1, <2>2, BeginsLocked
<1>10. CASE SnapshotToEvidence(r)
  <2>1. PICK fields \in SUBSET Fields, auto \in BOOLEAN :
          BeginLocked(r, AndNew(AndAll(New(Source({})),
                                       IF auto THEN {Evidence(made + 1, f) : f \in fields} ELSE {}),
                                AuditEntry(made + 1, "create")), Done)
    BY <1>10 DEF SnapshotToEvidence
  <2> DEFINE found == IF auto THEN {Evidence(made + 1, f) : f \in fields} ELSE {}
  <2>2. found \in {{}, {Evidence(made + 1, f) : f \in fields}} /\ {} \in SUBSET Fields
    OBVIOUS
  <2> HIDE DEF found
  <2>3. Good(r, AndNew(AndAll(New(Source({})), found), AuditEntry(made + 1, "create")))
    BY <1>1, <2>2, GoodFound
  <2> QED
    BY <2>1, <2>3, BeginsLocked DEF found
<1> QED
  BY <1>5, <1>6, <1>7, <1>8, <1>9, <1>10 DEF ConnectorRequest

-----------------------------------------------------------------------------
(* Every behaviour.                                                        *)

LEMMA RequestOpens ==
  ASSUME Base, NEW r \in Requests, Request(r)
  PROVE  Opens(r)
BY ContentRequestOpens, MemberRequestOpens, ObjectRequestOpens, WorkspaceRequestOpens,
   SourceRequestOpens, ProposalRequestOpens, ConnectorRequestOpens DEF Request

LEMMA StepGoesOn ==
  ASSUME Base, Deciding, NEW r \in Requests, session[r].open, Step(r)
  PROVE  Continues(r) \/ Flushes(r) \/ GoesOn(r)
<1>1. Uses("members") \/ Uses("objects") => "audit" \in Tables(scenario.uses)
  BY MemberTables, ObjectTables
<1> QED
  BY <1>1, OntologyStepGoesOn, AuditStepGoesOn, WorkspaceStepGoesOn, ProposalStepGoesOn DEF Step

\* What a step of the server is for the database sessions.
LEMMA SessionStep ==
  ASSUME Base, Deciding, Next
  PROVE  \/ \E r \in Requests : \/ Opens(r) \/ Continues(r) \/ Flushes(r) \/ GoesOn(r)
                                \/ Commit(r) \/ Rollback(r)
         \/ Stop
         \/ UNCHANGED dbVars
<1>1. DispatchStep => UNCHANGED dbVars
  BY DEF DispatchStep, DispatchReads, DispatchRecords, DispatchFails, Deliver
<1> QED
  BY <1>1, RequestOpens, StepGoesOn, ReleaseRequestOpens, ReleaseStepGoesOn DEF Next, ServerStops

LEMMA BaseStep ==
  ASSUME Base, Deciding, [Next]_vars
  PROVE  Base' /\ scenario' = scenario /\ made' >= made
<1>1. made \in Nat
  BY DEF Base
<1>2. CASE UNCHANGED dbVars
  <2>1. Base'
    BY <1>2 DEF dbVars, Base, Violates, Good, Fresh, HasTable
  <2> QED
    BY <1>1, <1>2, <2>1 DEF dbVars
<1>3. ASSUME NEW r \in Requests, Opens(r) PROVE Base' /\ scenario' = scenario /\ made' >= made
  <2>1. PICK plan, job, lock :
          /\ Open(r, plan, job, lock)
          /\ Good(r, plan)
          /\ lock = writer \/ (writer = None /\ lock = r)
    BY <1>3 DEF Opens
  <2>2. Base' /\ made' >= made + 1
    BY <2>1, OpenKeeps
  <2>3. scenario' = scenario
    BY <2>1 DEF Open
  <2>4. made' \in Nat
    BY <2>2 DEF Base
  <2> QED
    BY <1>1, <2>2, <2>3, <2>4
<1>4. ASSUME NEW r \in Requests, Continues(r) PROVE Base' /\ scenario' = scenario /\ made' >= made
  <2>1. PICK plan, job : session[r].open /\ Continue(r, plan, job) /\ Good(r, plan)
    BY <1>4 DEF Continues
  <2>2. scenario' = scenario
    BY <2>1 DEF Continue
  <2> QED
    BY <2>1, <2>2, ContinueKeeps
<1>5. ASSUME NEW r \in Requests, Flushes(r) PROVE Base' /\ scenario' = scenario /\ made' >= made
  <2>1. PICK job : session[r].open /\ Flush(r, job)
    BY <1>5 DEF Flushes
  <2>2. Base' /\ made' = made /\ scenario' = scenario
    BY <2>1, FlushKeeps
  <2> QED
    BY <1>1, <2>2
<1>6. ASSUME NEW r \in Requests, GoesOn(r) PROVE Base' /\ scenario' = scenario /\ made' >= made
  <2>1. PICK job : session[r].open /\ CommitAndGoOn(r, job)
    BY <1>6 DEF GoesOn
  <2>2. Base' /\ made' = made /\ scenario' = scenario
    BY <2>1, CommitAndGoOnKeeps
  <2> QED
    BY <1>1, <2>2
<1>7. ASSUME NEW r \in Requests, Commit(r) PROVE Base' /\ scenario' = scenario /\ made' >= made
  BY <1>1, <1>7, CommitKeeps
<1>8. ASSUME NEW r \in Requests, Rollback(r) PROVE Base' /\ scenario' = scenario /\ made' >= made
  BY <1>1, <1>8, RollbackKeeps
<1>9. CASE Stop
  BY <1>1, <1>9, StopKeeps
<1>10. Next \/ UNCHANGED dbVars
  BY DEF vars
<1> QED
  BY <1>2, <1>3, <1>4, <1>5, <1>6, <1>7, <1>8, <1>9, <1>10, SessionStep

\* The job of a request that comes in, and of one that goes on.
LEMMA JobOfOpened ==
  ASSUME Base, NEW r \in Requests, NEW plan, NEW job,
         Begin(r, plan, job) \/ BeginLocked(r, plan, job)
  PROVE  session'[r].job = job /\ \A q \in Requests \ {r} : session'[q] = session[q]
<1>1. PICK lock : Open(r, plan, job, lock)
  BY DEF Begin, BeginLocked
<1>2. /\ session'[r] = [open |-> TRUE, plan |-> plan, job |-> job]
      /\ \A q \in Requests \ {r} : session'[q] = session[q]
  BY <1>1, OpenedAs
<1> QED
  BY <1>2

LEMMA JobOfOpen ==
  ASSUME Base, NEW r \in Requests, session[r].open, NEW job,
         (\E plan : Continue(r, plan, job)) \/ Flush(r, job) \/ CommitAndGoOn(r, job)
  PROVE  session'[r].job = job /\ \A q \in Requests \ {r} : session'[q] = session[q]
<1>1. \E p : /\ session'[r] = [open |-> TRUE, plan |-> p, job |-> job]
             /\ \A q \in Requests \ {r} : session'[q] = session[q]
  <2>1. CASE \E plan : Continue(r, plan, job)
    BY <2>1, ContinuedAs
  <2>2. CASE Flush(r, job)
    <3>1. /\ session'[r] = [open |-> TRUE, plan |-> session[r].plan, job |-> job]
          /\ \A q \in Requests \ {r} : session'[q] = session[q]
      BY <2>2, FlushKeeps
    <3> QED
      BY <3>1
  <2>3. CASE CommitAndGoOn(r, job)
    <3>1. /\ session'[r] = [open |-> TRUE, plan |-> NoPlan, job |-> job]
          /\ \A q \in Requests \ {r} : session'[q] = session[q]
      BY <2>3, CommitAndGoOnKeeps
    <3> QED
      BY <3>1
  <2> QED
    BY <2>1, <2>2, <2>3
<1>2. PICK p : /\ session'[r] = [open |-> TRUE, plan |-> p, job |-> job]
               /\ \A q \in Requests \ {r} : session'[q] = session[q]
  BY <1>1
<1> QED
  BY <1>2

LEMMA DecisionLasts ==
  ASSUME NEW m \in Nat, NEW n \in Nat, m <= n, NEW job, IsDecision(job, m)
  PROVE  IsDecision(job, n)
<1>1. \A p \in 1 .. m : p \in 1 .. n
  OBVIOUS
<1>2. CASE job = Done
  BY <1>2 DEF IsDecision
<1>3. CASE \E step \in {"decide", "confirm"}, p \in 1 .. m :
             \E v, k, row : job = <<step, p, v, k, row>>
  BY <1>1, <1>3 DEF IsDecision
<1> QED
  BY <1>2, <1>3 DEF IsDecision

LEMMA DecidingStep ==
  ASSUME Base, Deciding, [Next]_vars
  PROVE  Deciding'
<1> USE Base
<1>1. made \in Nat /\ made' \in Nat /\ made <= made' /\ scenario' = scenario
  BY BaseStep DEF Base
<1> SUFFICES ASSUME Uses("evidence") PROVE \A r \in Requests : IsDecision(session'[r].job, made')
  BY <1>1 DEF Deciding, Uses
<1>2. \A r \in Requests : IsDecision(session[r].job, made')
  BY <1>1, DecisionLasts DEF Deciding
<1> DEFINE Changes(r) ==
             /\ IsDecision(session'[r].job, made')
             /\ \A q \in Requests \ {r} : session'[q] = session[q]
<1>3. ASSUME NEW r \in Requests, Changes(r)
      PROVE  \A q \in Requests : IsDecision(session'[q].job, made')
  BY <1>2, <1>3
<1>4. IsDecision(Done, made') /\ Closed.job = Done
  BY DEF IsDecision, Closed
<1>5. ASSUME NEW r \in Requests, SourceRequest(r) PROVE Changes(r)
  <2>1. \E plan : BeginLocked(r, plan, Done)
    <3>1. SourceRequest(r) => \E plan : BeginLocked(r, plan, Done)
      BY DEF SourceRequest, CreateSource, UploadSource, UpdateSource, DeleteSource,
             CreateEvidence, AlignEvidence, RejectEvidence, BulkConfirm, BulkReject,
             CreateProfilingRun, ExecuteProfiling
    <3> QED
      BY <1>5, <3>1
  <2> QED
    BY <1>4, <2>1, JobOfOpened
<1>6. ASSUME NEW r \in Requests, ProposalRequest(r) PROVE Changes(r)
  <2>1. CASE CreateDecision(r)
    <3>1. PICK plan, p, v, row : 
            /\ p \in Rows("proposal")
            /\ Begin(r, plan, <<"decide", p, v, made + 1, row>>)
      BY <2>1 DEF CreateDecision
    <3>2. p \in 1 .. made
      BY <3>1, RowsAreMade
    <3>3. IsDecision(<<"decide", p, v, made + 1, row>>, made)
      BY <3>2 DEF IsDecision
    <3> QED
      BY <1>1, <3>1, <3>3, DecisionLasts, JobOfOpened
  <2>2. CASE ~CreateDecision(r)
    <3>1. \E plan : Begin(r, plan, Done)
      BY <1>6, <2>2 DEF ProposalRequest, GenerateFromProfiling, GenerateFromEvidence,
             CreateProposal, UpdateProposal, DeleteProposal, BatchReviewProposals
    <3> QED
      BY <1>4, <3>1, JobOfOpened
  <2> QED
    BY <2>1, <2>2
<1>7. ASSUME NEW r \in Requests, session[r].open, ProposalStep(r) PROVE Changes(r)
  <2>1. CASE DecisionFlushes(r)
    <3> DEFINE job == session[r].job
    <3>1. job[1] = "decide" /\ Flush(r, [job EXCEPT ![1] = "confirm"])
      BY <2>1 DEF DecisionFlushes
    <3>2. job # Done
      BY <3>1 DEF Done
    <3>3. IsDecision(job, made)
      BY DEF Deciding
    <3>4. PICK step \in {"decide", "confirm"}, p \in 1 .. made :
            \E v, n, row : job = <<step, p, v, n, row>>
      BY <3>2, <3>3 DEF IsDecision
    <3>5. PICK v, n, row : job = <<step, p, v, n, row>>
      BY <3>4
    <3> HIDE DEF job
    <3>6. [job EXCEPT ![1] = "confirm"] = <<"confirm", p, v, n, row>>
      BY <3>5
    <3>7. IsDecision(<<"confirm", p, v, n, row>>, made)
      BY DEF IsDecision
    <3>8. IsDecision(<<"confirm", p, v, n, row>>, made')
      BY <1>1, <3>7, DecisionLasts
    <3>9. Flush(r, <<"confirm", p, v, n, row>>)
      BY <3>1, <3>6
    <3>10. /\ session'[r].job = <<"confirm", p, v, n, row>>
           /\ \A q \in Requests \ {r} : session'[q] = session[q]
      BY <1>7, <3>9, JobOfOpen
    <3> QED
      BY <3>8, <3>10
  <2>2. CASE DecisionConfirms(r)
    <3>1. \E plan : Continue(r, plan, Done)
      BY <2>2 DEF DecisionConfirms
    <3> QED
      BY <1>4, <1>7, <3>1, JobOfOpen
  <2> QED
    BY <1>7, <2>1, <2>2 DEF ProposalStep
<1>8. ASSUME NEW r \in Requests, Commit(r) \/ Rollback(r) PROVE Changes(r)
  BY <1>4, <1>8, CommitKeeps, RollbackKeeps
<1>9. CASE Stop
  BY <1>4, <1>9, StopKeeps
<1>10. CASE UNCHANGED dbVars
  BY <1>2, <1>10 DEF dbVars
<1>11. DispatchStep => UNCHANGED dbVars
  BY DEF DispatchStep, DispatchReads, DispatchRecords, DispatchFails, Deliver
<1>12. \/ \E r \in Requests : SourceRequest(r) \/ ProposalRequest(r) \/ Commit(r) \/ Rollback(r)
       \/ \E r \in Requests : session[r].open /\ ProposalStep(r)
       \/ Stop
       \/ UNCHANGED dbVars
  BY <1>11 DEF Next, vars, Request, Step, ServerStops, Uses
<1> HIDE DEF Changes
<1> QED
  BY <1>3, <1>5, <1>6, <1>7, <1>8, <1>9, <1>10, <1>12

\* The initial database.
LEMMA BaseInit ==
  ASSUME Init
  PROVE  Base /\ Deciding
<1>1. scenario \in Scenarios /\ InitDatabase(InitialRows(scenario.uses))
  BY DEF Init
<1> DEFINE rows == InitialRows(scenario.uses)
<1>2. /\ Len(rows) \in Nat /\ DOMAIN rows = 1 .. Len(rows) /\ ~Violates(rows)
      /\ \A i \in DOMAIN rows :
           /\ "table" \in DOMAIN rows[i] /\ rows[i].table \in Tables(scenario.uses)
           /\ rows[i].table = "source" => rows[i] \in {Source(f) : f \in SUBSET Fields}
  BY <1>1, InitialRowsAssumption
<1>3. db = rows /\ made = Max({0} \cup DOMAIN rows)
  BY <1>1 DEF InitDatabase
<1> HIDE DEF rows
<1>4. made \in Nat /\ \A i \in DOMAIN rows : i \in 1 .. made
  <2>1. DOMAIN rows \subseteq 0 .. Len(rows)
    BY <1>2
  <2>2. made \in Nat /\ \A i \in DOMAIN rows : i <= made
    BY <1>2, <1>3, <2>1, MaxAbove
  <2> QED
    BY <1>2, <2>2
<1>5. \A i \in DOMAIN rows : HasTable(rows[i])
  <2> SUFFICES ASSUME NEW i \in DOMAIN rows PROVE HasTable(rows[i])
    OBVIOUS
  <2>1. CASE rows[i].table = "source"
    <3>1. PICK f \in SUBSET Fields : rows[i] = Source(f)
      BY <1>2, <2>1
    <3>2. IsFiniteSet(f)
      BY FieldsAssumption, FS_Subset
    <3> QED
      BY <1>2, <3>1, <3>2 DEF HasTable, Source
  <2>2. CASE rows[i].table # "source"
    BY <1>2, <2>2 DEF HasTable
  <2> QED
    BY <2>1, <2>2
<1>6. session = [r \in Requests |-> Closed] /\ writer = None /\ served = 0
  BY <1>1 DEF InitDatabase
<1>7. Closed.plan = NoPlan /\ Closed.job = Done
  BY DEF Closed
<1>8. \A r : Good(r, NoPlan)
  BY DEF Good, NoPlan, IsPlan, Nothing
<1>9. DOMAIN NoPlan.insert = {}
  BY DEF NoPlan, Nothing
<1>10. served \in 0 .. scenario.requests
  BY <1>1, <1>6, ScenariosAssumption
<1>11. Base
  BY <1>1, <1>2, <1>3, <1>4, <1>5, <1>6, <1>7, <1>8, <1>9, <1>10, ClosedIsSession DEF Base
<1>12. Deciding
  BY <1>6, <1>7 DEF Deciding, IsDecision
<1> QED
  BY <1>11, <1>12

\* In every reachable state, the plans of all open requests are good ones.
THEOREM Plans == Spec => [](Base /\ Deciding)
<1>1. Init => Base /\ Deciding
  BY BaseInit
<1>2. Base /\ Deciding /\ [Next]_vars => (Base /\ Deciding)'
  BY BaseStep, DecidingStep
<1> QED
  BY <1>1, <1>2, PTL DEF Spec

\* Identifiers are unique: a row in the database has one that has been made, and
\* none that an open request is about to insert; the unique indexes hold, and
\* whoever holds the writer lock has an open session.
THEOREM DatabaseIsSound == Spec => []DatabaseTypeOK
<1>1. Base => DatabaseTypeOK
  <2> SUFFICES ASSUME Base PROVE DatabaseTypeOK
    OBVIOUS
  <2>1. \A i \in DOMAIN db : i \in 1 .. made /\ "table" \in DOMAIN db[i]
    BY DEF Base, HasTable
  <2>2. ASSUME NEW r \in Requests
        PROVE  /\ session[r].open \in BOOLEAN
               /\ ~session[r].open => session[r] = Closed
               /\ DOMAIN session[r].plan.insert \subseteq 1 .. made
               /\ DOMAIN session[r].plan.insert \cap DOMAIN db = {}
               /\ DOMAIN session[r].plan.update \cup session[r].plan.delete \subseteq 1 .. made
    BY DEF Base, IsSession, Good, Fresh
  <2> QED
    BY <2>1, <2>2 DEF Base, DatabaseTypeOK
<1> QED
  BY <1>1, Plans, PTL
=============================================================================
