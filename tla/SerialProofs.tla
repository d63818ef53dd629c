----------------------------- MODULE SerialProofs -----------------------------
(***************************************************************************)
(* What holds while requests do not overlap, for every number of them; and *)
(* of forks, however requests overlap.                                     *)
(***************************************************************************)
EXTENDS ConsistencyProofs, TypeProofs

\* The checksum of a published release is one over its text.
Matches(row) ==
  row.table = "release" /\ row.status = "RELEASED" => row.checksum[1] = row.text

\* What a property is attached to is a class of its ontology, and what a constraint
\* is attached to a class or a property; nothing else is attached.
LinkFits(d, row) ==
  /\ row.table \in {"property", "constraint"}
  /\ row.link \in DOMAIN d
  /\ d[row.link].onto = row.onto
  /\ d[row.link].table \in IF row.table = "property" THEN {"class"} ELSE {"class", "property"}

IsLinked(row) == row.table \in Content /\ row.link # None

Linked(d) == \A i \in DOMAIN d : IsLinked(d[i]) => LinkFits(d, d[i])

Reviewing == Uses("evidence") \/ Uses("connectors")

\* A decision is about a proposal; one that is not deferred gave it its status and
\* is the last; evidence that one has confirmed is among what its proposal names.
Decided(d) ==
  /\ \A i \in TableOf(d, "proposal") : "confirmed" \in DOMAIN d[i].content
  /\ \A x \in TableOf(d, "decision") :
       /\ d[x].proposal \in TableOf(d, "proposal")
       /\ StatusAfter(d[x].verdict) # "PENDING" =>
            /\ d[d[x].proposal].status = StatusAfter(d[x].verdict)
            /\ \A y \in TableOf(d, "decision") : d[y].proposal = d[x].proposal => y <= x
  /\ \A e \in TableOf(d, "evidence") :
       d[e].by # None =>
         /\ d[e].by \in TableOf(d, "decision") /\ d[d[e].by].verdict = "accept"
         /\ e \in d[d[d[e].by].proposal].content.confirmed

Agreed(d) ==
  /\ Uses("releases") => \A i \in DOMAIN d : Matches(d[i])
  /\ Publication => Linked(d)
  /\ Reviewing => Decided(d)

-----------------------------------------------------------------------------
(* What a plan leaves so, if nobody else commits before it is written.     *)

KeepsChecksums(d, p) ==
  /\ \A i \in DOMAIN p.insert : Matches(p.insert[i])
  /\ \A i \in DOMAIN p.update : i \in DOMAIN d => Matches(Over(p.update[i], d[i]))

KeepsLinks(d, p) ==
  /\ \A i \in DOMAIN p.update : {"onto", "link"} \cap DOMAIN p.update[i] = {}
  /\ \A i \in DOMAIN p.insert :
       IsLinked(p.insert[i]) => LinkFits(d, p.insert[i]) /\ p.insert[i].link \notin p.delete
  /\ \A i \in DOMAIN d \ p.delete : IsLinked(d[i]) => d[i].link \notin p.delete

\* The plan confirms evidence e by a decision of its own.
Confirms(p, e) ==
  LET x == p.update[e].by
      q == p.insert[x].proposal
  IN /\ x \in TableOf(p.insert, "decision") /\ p.insert[x].verdict = "accept"
     /\ q \in DOMAIN p.update /\ "content" \in DOMAIN p.update[q]
     /\ e \in p.update[q].content.confirmed

\* It decides on a proposal that is pending.
Decides(d, p, x) ==
  LET q == p.insert[x].proposal
      after == StatusAfter(p.insert[x].verdict)
  IN /\ q \in TableOf(d, "proposal") \ p.delete /\ d[q].status = "PENDING"
     /\ \A y \in DOMAIN d : y <= x
     /\ IF q \in DOMAIN p.update /\ "status" \in DOMAIN p.update[q]
        THEN p.update[q].status = after ELSE after = "PENDING"

KeepsDecisions(d, p) ==
  /\ \A i \in DOMAIN p.update :
       /\ {"proposal", "verdict"} \cap DOMAIN p.update[i] = {}
       /\ {"status", "content"} \cap DOMAIN p.update[i] # {} /\ i \in TableOf(d, "proposal") =>
            d[i].status = "PENDING"
       /\ "content" \in DOMAIN p.update[i] => "confirmed" \in DOMAIN p.update[i].content
       /\ "by" \in DOMAIN p.update[i] /\ p.update[i].by # None => Confirms(p, i)
  /\ \A x, y \in TableOf(p.insert, "decision") : x = y
  /\ \A x \in TableOf(p.insert, "decision") : Decides(d, p, x)
  /\ \A e \in TableOf(p.insert, "evidence") : p.insert[e].by = None
  /\ \A i \in TableOf(p.insert, "proposal") : "confirmed" \in DOMAIN p.insert[i].content
  /\ \A i \in p.delete :
       /\ i \in TableOf(d, "decision") => d[i].proposal \in p.delete
       /\ i \in TableOf(d, "proposal") =>
            /\ d[i].status = "PENDING"
            /\ \A x \in TableOf(d, "decision") : d[x].proposal = i => x \in p.delete

\* A decision before what it confirms has been found.
HalfDecided(d, p, job) ==
  job[1] \in {"decide", "confirm"} =>
    /\ job[2] \in TableOf(d, "proposal") /\ d[job[2]].status = "PENDING" /\ job[5] = d[job[2]]
    /\ p.delete = {} /\ DOMAIN p.insert = {job[4]} /\ DOMAIN p.update \subseteq {job[2]}
    /\ p.insert[job[4]].table = "decision"
    /\ p.insert[job[4]].proposal = job[2] /\ p.insert[job[4]].verdict = job[3]

Agrees(d, p, job) ==
  /\ Uses("releases") => KeepsChecksums(d, p)
  /\ Publication => KeepsLinks(d, p)
  /\ Reviewing => KeepsDecisions(d, p) /\ HalfDecided(d, p, job)

Covers == Uses("releases") \/ Publication \/ Reviewing

\* While requests do not overlap, the database agrees, and would after the one
\* that is open.
OneByOne ==
  ~overlap /\ Covers =>
    /\ \A q, r \in Requests : session[q].open /\ session[r].open => q = r
    /\ Agreed(db)
    /\ \A r \in Requests : session[r].open => Agrees(db, session[r].plan, session[r].job)

-----------------------------------------------------------------------------
(* Steps of a session.                                                     *)

LEMMA AgreesSame ==
  ASSUME scenario' = scenario, db' = db
  PROVE  /\ \A d : Agreed(d) => Agreed(d)'
         /\ \A d, p, job : Agrees(d, p, job) => Agrees(d, p, job)'
         /\ Agreed(db) => Agreed(db)'
         /\ \A p, job : Agrees(db, p, job) => Agrees(db, p, job)'
         /\ overlap' = overlap /\ Covers' = Covers
<1>1. \A group : Uses(group)' = Uses(group)
  BY DEF Uses
<1>2. (Publication' <=> Publication) /\ (Reviewing' <=> Reviewing) /\ Covers' = Covers
  BY <1>1 DEF Publication, Reviewing, Covers
<1>3. overlap' = overlap
  BY DEF overlap
<1>4. /\ \A d : Agreed(d) => Agreed(d)'
      /\ \A d, p, job : Agrees(d, p, job) => Agrees(d, p, job)'
  BY <1>1, <1>2 DEF Agreed, Agrees
<1>5. /\ Agreed(db) => Agreed(db)'
      /\ \A p, job : Agrees(db, p, job) => Agrees(db, p, job)'
  BY <1>1, <1>2 DEF Agreed, Agrees
<1> QED
  BY <1>2, <1>3, <1>4, <1>5

\* The one that is open gets a plan.
LEMMA PlanAgrees ==
  ASSUME Base, OneByOne, NEW r \in Requests, NEW plan, NEW job,
         ~overlap /\ Covers => Agrees(db, plan, job),
         session'[r].plan = plan, session'[r].job = job,
         \A q \in Requests \ {r} : session'[q] = session[q],
         ~overlap => \A q \in Requests \ {r} : ~session[q].open,
         db' = db, scenario' = scenario
  PROVE  OneByOne'
<1>1. overlap' = overlap /\ Covers' = Covers
  BY AgreesSame
<1> SUFFICES ASSUME ~overlap, Covers PROVE OneByOne'
  BY <1>1 DEF OneByOne, Covers
<1>2. Agreed(db)'
  BY AgreesSame DEF OneByOne, Covers
<1>3. ASSUME NEW q \in Requests, session'[q].open
      PROVE  q = r /\ Agrees(db, session[q].plan, session[q].job)'
  <2>1. q = r
    BY <1>3
  <2>2. \A x, y : x = plan /\ y = job => Agrees(db, x, y)'
    BY AgreesSame
  <2> QED
    BY <2>1, <2>2
<1> QED
  BY <1>2, <1>3 DEF OneByOne

LEMMA DropAgrees ==
  ASSUME Base, OneByOne, db' = db, scenario' = scenario,
         \A q \in Requests : session'[q] \in {session[q], Closed}
  PROVE  OneByOne'
<1>1. overlap' = overlap /\ Covers' = Covers
  BY AgreesSame
<1> SUFFICES ASSUME ~overlap, Covers PROVE OneByOne'
  BY <1>1 DEF OneByOne, Covers
<1>2. Agreed(db)'
  BY AgreesSame DEF OneByOne, Covers
<1>3. ASSUME NEW q \in Requests, session'[q].open
      PROVE  session[q].open /\ Agrees(db, session[q].plan, session[q].job)'
  <2>1. session'[q] = session[q]
    BY <1>3 DEF Closed
  <2>2. Agrees(db, session[q].plan, session[q].job)
    BY <1>3, <2>1 DEF OneByOne, Covers
  <2>3. \A x, y : x = session[q].plan /\ y = session[q].job => Agrees(db, x, y)'
    BY <2>2, AgreesSame
  <2> QED
    BY <1>3, <2>1, <2>3
<1>4. \A q, r \in Requests : session[q].open /\ session[r].open => q = r
  BY DEF OneByOne, Covers
<1> QED
  BY <1>2, <1>3, <1>4 DEF OneByOne

-----------------------------------------------------------------------------
(* A commit.                                                               *)

\* A row that was there is the same but for the columns that it gets.
LEMMA StillThere ==
  ASSUME Base, AllTyped, NEW r \in Requests, NEW p, p = session[r].plan,
         NEW d, d = Written(p), NEW i \in DOMAIN d, i \notin DOMAIN p.insert
  PROVE  /\ i \in DOMAIN db \ p.delete
         /\ d[i].table = db[i].table
         /\ i \notin DOMAIN p.update => d[i] = db[i]
         /\ i \in DOMAIN p.update => d[i] = Over(p.update[i], db[i])
         /\ i \in DOMAIN p.update => DOMAIN p.update[i] \subseteq Columns(db[i].table)
         /\ \A c \in Columns(db[i].table) :
              d[i][c] = IF i \in DOMAIN p.update /\ c \in DOMAIN p.update[i]
                        THEN p.update[i][c] ELSE db[i][c]
<1>1. /\ i \in DOMAIN db \ p.delete
      /\ d[i] = IF i \in DOMAIN p.update THEN Over(p.update[i], db[i]) ELSE db[i]
  BY WrittenAs
<1>2. Typed(db[i]) /\ DOMAIN db[i] = Columns(db[i].table)
  BY <1>1 DEF AllTyped, Typed
<1>3. i \in DOMAIN p.update => DOMAIN p.update[i] \subseteq Columns(db[i].table) \ {"table"}
  BY <1>1 DEF AllTyped, Planned, Updates, Suits
<1>4. \A c \in Columns(db[i].table) :
              d[i][c] = IF i \in DOMAIN p.update /\ c \in DOMAIN p.update[i]
                        THEN p.update[i][c] ELSE db[i][c]
  BY <1>1, <1>2, <1>3 DEF Over
<1>5. d[i].table = db[i].table
  BY <1>3, <1>4, TableIsColumn
<1> QED
  BY <1>1, <1>3, <1>4, <1>5

LEMMA NewThere ==
  ASSUME Base, NEW r \in Requests, NEW p, p = session[r].plan, NEW d, d = Written(p)
  PROVE  /\ \A i \in DOMAIN p.insert :
              i \in DOMAIN d /\ i \notin DOMAIN db /\ d[i] = p.insert[i] /\ i \in 1 .. made
         /\ \A i \in DOMAIN db \ p.delete : i \in DOMAIN d /\ i \notin DOMAIN p.insert
<1>1. Good(r, p) /\ DOMAIN p.insert \subseteq 1 .. made
  BY DEF Base
<1> QED
  BY <1>1, InsertedAfter

LEMMA MatchesAfter ==
  ASSUME NEW p, NEW d, d = Written(p), \A i \in DOMAIN db : Matches(db[i]), KeepsChecksums(db, p)
  PROVE  \A i \in DOMAIN d : Matches(d[i])
<1> SUFFICES ASSUME NEW i \in DOMAIN d PROVE Matches(d[i])
  OBVIOUS
<1> QED
  BY WrittenAs DEF KeepsChecksums

LEMMA LinkedAfter ==
  ASSUME Base, AllTyped, NEW r \in Requests, NEW p, p = session[r].plan, NEW d, d = Written(p),
         Linked(db), KeepsLinks(db, p)
  PROVE  Linked(d)
<1>1. ASSUME NEW t \in DOMAIN db \ p.delete, db[t].table \in Content
      PROVE  t \in DOMAIN d /\ d[t].table = db[t].table /\ d[t].onto = db[t].onto
             /\ d[t].link = db[t].link
  <2>1. t \in DOMAIN d /\ t \notin DOMAIN p.insert
    BY NewThere
  <2>2. {"onto", "link"} \subseteq Columns(db[t].table)
    BY <1>1, OntologyColumns
  <2>3. t \in DOMAIN p.update => {"onto", "link"} \cap DOMAIN p.update[t] = {}
    BY DEF KeepsLinks
  <2> QED
    BY <2>1, <2>2, <2>3, StillThere
<1>2. ASSUME NEW row, IsLinked(row), LinkFits(db, row), row.link \notin p.delete
      PROVE  LinkFits(d, row)
  <2>1. row.link \in DOMAIN db \ p.delete /\ db[row.link].table \in Content
    BY <1>2 DEF LinkFits, Content
  <2> QED
    BY <1>1, <1>2, <2>1 DEF LinkFits
<1>3. ASSUME NEW i \in DOMAIN d, IsLinked(d[i]) PROVE LinkFits(d, d[i])
  <2>1. CASE i \in DOMAIN p.insert
    <3>1. d[i] = p.insert[i]
      BY <2>1, NewThere
    <3> QED
      BY <1>2, <1>3, <2>1, <3>1 DEF KeepsLinks
  <2>2. CASE i \notin DOMAIN p.insert
    <3>1. i \in DOMAIN db \ p.delete /\ d[i].table = db[i].table
      BY <2>2, StillThere
    <3>2. db[i].table \in Content
      BY <1>3, <3>1 DEF IsLinked
    <3>3. d[i].onto = db[i].onto /\ d[i].link = db[i].link
      BY <1>1, <3>1, <3>2
    <3>4. IsLinked(db[i])
      BY <1>3, <3>1, <3>3 DEF IsLinked
    <3>5. LinkFits(db, db[i]) /\ db[i].link \notin p.delete
      BY <3>1, <3>4 DEF Linked, KeepsLinks
    <3>6. LinkFits(d, db[i])
      BY <1>2, <3>4, <3>5
    <3> QED
      BY <3>1, <3>3, <3>6 DEF LinkFits
  <2> QED
    BY <2>1, <2>2
<1> QED
  BY <1>3 DEF Linked

LEMMA DecidedAfter ==
  ASSUME Base, AllTyped, NEW r \in Requests, NEW p, p = session[r].plan, NEW d, d = Written(p),
         Decided(db), KeepsDecisions(db, p)
  PROVE  Decided(d)
\* The proposals, the decisions and the evidence that there were.
<1>1. ASSUME NEW i \in DOMAIN d, i \notin DOMAIN p.insert
      PROVE  i \in DOMAIN db \ p.delete /\ d[i].table = db[i].table
  BY <1>1, StillThere
<1>2. ASSUME NEW i \in DOMAIN d, i \notin DOMAIN p.insert, d[i].table = "proposal"
      PROVE  /\ db[i].status # "PENDING" =>
                  d[i].status = db[i].status /\ d[i].content = db[i].content
             /\ d[i].status = IF i \in DOMAIN p.update /\ "status" \in DOMAIN p.update[i]
                              THEN p.update[i].status ELSE db[i].status
             /\ d[i].content = IF i \in DOMAIN p.update /\ "content" \in DOMAIN p.update[i]
                               THEN p.update[i].content ELSE db[i].content
             /\ "confirmed" \in DOMAIN d[i].content
  <2>1. i \in TableOf(db, "proposal")
    BY <1>1, <1>2 DEF TableOf
  <2>2. {"status", "content"} \subseteq Columns(db[i].table)
    BY <2>1, EvidenceColumns DEF TableOf
  <2>3. /\ d[i].status = IF i \in DOMAIN p.update /\ "status" \in DOMAIN p.update[i]
                              THEN p.update[i].status ELSE db[i].status
        /\ d[i].content = IF i \in DOMAIN p.update /\ "content" \in DOMAIN p.update[i]
                               THEN p.update[i].content ELSE db[i].content
    BY <1>2, <2>2, StillThere
  <2>4. "confirmed" \in DOMAIN db[i].content
    BY <2>1 DEF Decided
  <2> QED
    BY <2>1, <2>3, <2>4 DEF KeepsDecisions
<1>3. ASSUME NEW i \in DOMAIN d, i \notin DOMAIN p.insert, d[i].table = "decision"
      PROVE  d[i].proposal = db[i].proposal /\ d[i].verdict = db[i].verdict
             /\ i \in TableOf(db, "decision") \ p.delete
  <2>1. i \in TableOf(db, "decision") \ p.delete
    BY <1>1, <1>3 DEF TableOf
  <2>2. {"proposal", "verdict"} \subseteq Columns(db[i].table)
    BY <2>1, EvidenceColumns DEF TableOf
  <2>3. i \in DOMAIN p.update => {"proposal", "verdict"} \cap DOMAIN p.update[i] = {}
    BY DEF KeepsDecisions
  <2> QED
    BY <1>3, <2>1, <2>2, <2>3, StillThere
<1>4. ASSUME NEW q \in TableOf(db, "proposal") \ p.delete
      PROVE  q \in TableOf(d, "proposal") /\ q \notin DOMAIN p.insert
  <2>1. q \in DOMAIN d /\ q \notin DOMAIN p.insert
    BY NewThere DEF TableOf
  <2> QED
    BY <1>1, <2>1 DEF TableOf
\* A decision that there was has its proposal on.
<1>5. ASSUME NEW x \in DOMAIN d, x \notin DOMAIN p.insert, d[x].table = "decision"
      PROVE  d[x].proposal \in TableOf(db, "proposal") \ p.delete
  <2>1. d[x].proposal = db[x].proposal /\ x \in TableOf(db, "decision") \ p.delete
    BY <1>3, <1>5
  <2>2. db[x].proposal \in TableOf(db, "proposal")
    BY <2>1 DEF Decided
  <2> QED
    BY <2>1, <2>2 DEF KeepsDecisions
<1>6. \A x \in TableOf(d, "decision") :
        x \in DOMAIN p.insert => x \in TableOf(p.insert, "decision") /\ d[x] = p.insert[x]
  BY NewThere DEF TableOf
<1>7. ASSUME NEW i \in TableOf(d, "proposal") PROVE "confirmed" \in DOMAIN d[i].content
  <2>1. CASE i \in DOMAIN p.insert
    <3>1. d[i] = p.insert[i] /\ i \in TableOf(p.insert, "proposal")
      BY <2>1, NewThere DEF TableOf
    <3> QED
      BY <3>1 DEF KeepsDecisions
  <2>2. CASE i \notin DOMAIN p.insert
    BY <1>2, <2>2 DEF TableOf
  <2> QED
    BY <2>1, <2>2
<1>8. ASSUME NEW x \in TableOf(d, "decision")
      PROVE  /\ d[x].proposal \in TableOf(d, "proposal")
             /\ StatusAfter(d[x].verdict) # "PENDING" =>
                  /\ d[d[x].proposal].status = StatusAfter(d[x].verdict)
                  /\ \A y \in TableOf(d, "decision") : d[y].proposal = d[x].proposal => y <= x
  <2> DEFINE q == d[x].proposal
  <2>1. CASE x \in DOMAIN p.insert
    <3>1. x \in TableOf(p.insert, "decision") /\ d[x] = p.insert[x]
      BY <1>6, <2>1
    <3>2. Decides(db, p, x)
      BY <3>1 DEF KeepsDecisions
    <3>3. q \in TableOf(db, "proposal") \ p.delete /\ db[q].status = "PENDING"
          /\ (\A y \in DOMAIN db : y <= x)
          /\ IF q \in DOMAIN p.update /\ "status" \in DOMAIN p.update[q]
             THEN p.update[q].status = StatusAfter(d[x].verdict)
             ELSE StatusAfter(d[x].verdict) = "PENDING"
      BY <3>1, <3>2 DEF Decides
    <3> HIDE DEF q
    <3>4. q \in TableOf(d, "proposal") /\ q \notin DOMAIN p.insert
      BY <1>4, <3>3
    <3>5. StatusAfter(d[x].verdict) # "PENDING" => d[q].status = StatusAfter(d[x].verdict)
      BY <1>2, <3>3, <3>4 DEF TableOf
    <3>6. ASSUME NEW y \in TableOf(d, "decision") PROVE y <= x
      <4>1. CASE y \in DOMAIN p.insert
        <5>1. y = x
          BY <1>6, <3>1, <4>1 DEF KeepsDecisions
        <5>2. x \in DOMAIN p.insert
          BY <2>1
        <5>3. x \in 1 .. made
          BY <5>2, NewThere
        <5>4. x \in Nat
          BY <5>3
        <5> QED
          BY <5>1, <5>4
      <4>2. CASE y \notin DOMAIN p.insert
        BY <1>1, <3>3, <4>2 DEF TableOf
      <4> QED
        BY <4>1, <4>2
    <3> QED
      BY <3>4, <3>5, <3>6 DEF q
  <2>2. CASE x \notin DOMAIN p.insert
    <3>1. /\ q = db[x].proposal /\ d[x].verdict = db[x].verdict
          /\ x \in TableOf(db, "decision") \ p.delete
          /\ q \in TableOf(db, "proposal") \ p.delete
      BY <1>3, <1>5, <2>2 DEF TableOf
    <3>2. StatusAfter(d[x].verdict) # "PENDING" =>
            /\ db[q].status = StatusAfter(d[x].verdict)
            /\ \A y \in TableOf(db, "decision") : db[y].proposal = q => y <= x
      BY <3>1 DEF Decided
    <3>3. q \in TableOf(d, "proposal") /\ q \notin DOMAIN p.insert
      BY <1>4, <3>1
    <3> HIDE DEF q
    <3>4. ASSUME StatusAfter(d[x].verdict) # "PENDING" PROVE d[q].status = StatusAfter(d[x].verdict)
      BY <1>2, <3>2, <3>3, <3>4 DEF TableOf
    <3>5. ASSUME StatusAfter(d[x].verdict) # "PENDING",
                 NEW y \in TableOf(d, "decision"), d[y].proposal = q
          PROVE  y <= x
      <4>1. y \notin DOMAIN p.insert
        <5> SUFFICES ASSUME y \in DOMAIN p.insert PROVE FALSE
          OBVIOUS
        <5>1. y \in TableOf(p.insert, "decision") /\ p.insert[y].proposal = q
          BY <1>6, <3>5
        <5>2. db[q].status = "PENDING"
          BY <5>1 DEF KeepsDecisions, Decides
        <5> QED
          BY <3>2, <3>5, <5>2
      <4>2. y \in TableOf(db, "decision") /\ db[y].proposal = q
        BY <1>3, <3>5, <4>1 DEF TableOf
      <4> QED
        BY <3>2, <3>5, <4>2
    <3> QED
      BY <3>3, <3>4, <3>5 DEF q
  <2> QED
    BY <2>1, <2>2
<1>9. ASSUME NEW e \in TableOf(d, "evidence"), d[e].by # None
      PROVE  /\ d[e].by \in TableOf(d, "decision") /\ d[d[e].by].verdict = "accept"
             /\ e \in d[d[d[e].by].proposal].content.confirmed
  <2>1. e \notin DOMAIN p.insert
    <3> SUFFICES ASSUME e \in DOMAIN p.insert PROVE FALSE
      OBVIOUS
    <3>1. d[e] = p.insert[e] /\ e \in TableOf(p.insert, "evidence")
      BY NewThere DEF TableOf
    <3> QED
      BY <1>9, <3>1 DEF KeepsDecisions
  <2>2. e \in TableOf(db, "evidence") \ p.delete
    BY <1>1, <2>1 DEF TableOf
  <2>3. "by" \in Columns(db[e].table)
    BY <2>2, EvidenceColumns DEF TableOf
  <2>4. d[e].by = IF e \in DOMAIN p.update /\ "by" \in DOMAIN p.update[e]
                  THEN p.update[e].by ELSE db[e].by
    BY <2>1, <2>3, StillThere DEF TableOf
  <2>5. CASE e \in DOMAIN p.update /\ "by" \in DOMAIN p.update[e]
    <3> DEFINE x == d[e].by
               q == p.insert[x].proposal
    <3>1. p.update[e].by = x /\ Confirms(p, e)
      BY <1>9, <2>4, <2>5 DEF KeepsDecisions
    <3>2. /\ x \in TableOf(p.insert, "decision") /\ p.insert[x].verdict = "accept"
          /\ q \in DOMAIN p.update /\ "content" \in DOMAIN p.update[q]
          /\ e \in p.update[q].content.confirmed
      BY <3>1 DEF Confirms
    <3>3. q \in TableOf(db, "proposal") \ p.delete
      BY <3>2 DEF KeepsDecisions, Decides
    <3> HIDE DEF x, q
    <3>a. x \in DOMAIN p.insert /\ p.insert[x].table = "decision"
      BY <3>2 DEF TableOf
    <3>b. x \in DOMAIN d /\ d[x] = p.insert[x]
      BY <3>a, NewThere
    <3>4. x \in TableOf(d, "decision") /\ d[x] = p.insert[x]
      BY <3>a, <3>b DEF TableOf
    <3>5. q \in TableOf(d, "proposal") /\ q \notin DOMAIN p.insert
      BY <1>4, <3>3
    <3>6. d[q].content = p.update[q].content
      BY <1>2, <3>2, <3>5 DEF TableOf
    <3>7. d[x].proposal = q
      BY <3>4 DEF q
    <3>8. d[x].verdict = "accept"
      BY <3>2, <3>4
    <3> QED
      BY <3>2, <3>4, <3>6, <3>7, <3>8 DEF x
  <2>6. CASE ~(e \in DOMAIN p.update /\ "by" \in DOMAIN p.update[e])
    <3> DEFINE x == db[e].by
               q == db[x].proposal
    <3>1. d[e].by = x /\ x # None
      BY <1>9, <2>4, <2>6
    <3>2. x \in TableOf(db, "decision") /\ db[x].verdict = "accept"
          /\ e \in db[q].content.confirmed
      BY <2>2, <3>1 DEF Decided
    <3> HIDE DEF x
    <3>3. StatusAfter("accept") = "ACCEPTED"
      BY DEF StatusAfter
    <3>4. q \in TableOf(db, "proposal") /\ db[q].status = "ACCEPTED"
      BY <3>2, <3>3 DEF Decided
    <3>5. x \notin p.delete
      BY <3>2, <3>4 DEF KeepsDecisions
    <3>6. q \notin p.delete
      BY <3>4 DEF KeepsDecisions
    <3>7. x \in DOMAIN d /\ x \notin DOMAIN p.insert
      BY <3>2, <3>5, NewThere DEF TableOf
    <3>8. x \in TableOf(d, "decision")
      BY <1>1, <3>2, <3>7 DEF TableOf
    <3>9. d[x].proposal = q /\ d[x].verdict = "accept"
      BY <1>3, <3>2, <3>7, <3>8 DEF TableOf
    <3> HIDE DEF q
    <3>10. q \in TableOf(d, "proposal") /\ q \notin DOMAIN p.insert
      BY <1>4, <3>4, <3>6
    <3>11. d[q].content = db[q].content
      BY <1>2, <3>4, <3>10 DEF TableOf
    <3>12. e \in db[q].content.confirmed
      BY <3>2 DEF q
    <3> QED
      BY <3>1, <3>8, <3>9, <3>11, <3>12
  <2> QED
    BY <2>5, <2>6
<1> QED
  BY <1>7, <1>8, <1>9 DEF Decided

LEMMA CommitAgrees ==
  ASSUME Base, AllTyped, OneByOne, NEW r \in Requests, Commit(r)
  PROVE  OneByOne'
<1> DEFINE p == session[r].plan
           d == Written(p)
<1>1. /\ db' = d /\ scenario' = scenario /\ session'[r] = Closed
      /\ \A q \in Requests \ {r} : session'[q] = session[q]
  BY CommitKeeps
<1>2. session[r].open
  BY DEF Commit
<1>3. \A group : Uses(group)' = Uses(group)
  BY <1>1 DEF Uses
<1>4. overlap' = overlap /\ Covers' = Covers
  BY <1>1, <1>3 DEF overlap, Covers, Publication, Reviewing
<1> SUFFICES ASSUME ~overlap, Covers PROVE OneByOne'
  BY <1>4 DEF OneByOne, Covers
<1>5. /\ Agreed(db) /\ Agrees(db, p, session[r].job)
      /\ \A q \in Requests \ {r} : ~session[q].open
  BY <1>2 DEF OneByOne, Covers
<1> HIDE DEF d, p
<1>6. Uses("releases") => \A i \in DOMAIN d : Matches(d[i])
  BY <1>5, MatchesAfter DEF d, Agreed, Agrees
<1>7. Publication => Linked(d)
  BY <1>5, LinkedAfter DEF d, p, Agreed, Agrees
<1>8. Reviewing => Decided(d)
  BY <1>5, DecidedAfter DEF d, p, Agreed, Agrees
<1>9. Agreed(db)'
  BY <1>1, <1>3, <1>6, <1>7, <1>8 DEF Agreed, Publication, Reviewing
<1>10. \A q \in Requests : ~session'[q].open
  BY <1>1, <1>5 DEF Closed
<1> QED
  BY <1>9, <1>10 DEF OneByOne

-----------------------------------------------------------------------------
(* Requests and what they do next.                                         *)

\* A request starts, or goes on, with a plan that the rest of the database agrees to.
StartsAgreeing(r) ==
  \E plan, job : (Begin(r, plan, job) \/ BeginLocked(r, plan, job)) /\ Agrees(db, plan, job)

GoesOnAgreeing(r) ==
  \/ \E plan, job : Continue(r, plan, job) /\ Agrees(db, plan, job)
  \/ \E job : Flush(r, job) /\ Agrees(db, session[r].plan, job)

\* A row with the columns that differ is the row with all of them.
LEMMA OverSet ==
  ASSUME NEW i, NEW columns, DOMAIN columns \subseteq DOMAIN db[i]
  PROVE  /\ Set(i, columns).insert = Nothing /\ Set(i, columns).delete = {}
         /\ DOMAIN Set(i, columns).update \subseteq {i}
         /\ i \in DOMAIN Set(i, columns).update =>
              /\ DOMAIN Set(i, columns).update[i] \subseteq DOMAIN columns
              /\ \A c \in DOMAIN Set(i, columns).update[i] :
                   Set(i, columns).update[i][c] = columns[c]
              /\ Over(Set(i, columns).update[i], db[i]) = Over(columns, db[i])
         /\ i \notin DOMAIN Set(i, columns).update => \A c \in DOMAIN columns : db[i][c] = columns[c]
         /\ i \in DOMAIN Set(i, columns).update =>
              \A c \in DOMAIN columns \ DOMAIN Set(i, columns).update[i] : db[i][c] = columns[c]
<1> DEFINE changed == {c \in DOMAIN columns : db[i][c] # columns[c]}
           given == [c \in changed |-> columns[c]]
           update == IF changed = {} THEN Nothing ELSE Only(i, given)
<1>1. Set(i, columns) = [insert |-> Nothing, update |-> update, delete |-> {}]
  BY DEF Set, NoPlan
<1>2. Over(given, db[i]) = Over(columns, db[i])
  <2>1. DOMAIN Over(given, db[i]) = DOMAIN db[i] /\ DOMAIN Over(columns, db[i]) = DOMAIN db[i]
    BY DEF Over
  <2>2. \A c \in DOMAIN db[i] : Over(given, db[i])[c] = Over(columns, db[i])[c]
    BY DEF Over
  <2>3. /\ Over(given, db[i]) = [c \in DOMAIN Over(given, db[i]) |-> Over(given, db[i])[c]]
        /\ Over(columns, db[i]) = [c \in DOMAIN Over(columns, db[i]) |-> Over(columns, db[i])[c]]
    BY DEF Over
  <2> HIDE DEF given
  <2> QED
    BY <2>1, <2>2, <2>3
<1>3. /\ DOMAIN given \subseteq DOMAIN columns
      /\ \A c \in DOMAIN given : given[c] = columns[c]
      /\ \A c \in DOMAIN columns \ DOMAIN given : db[i][c] = columns[c]
  OBVIOUS
<1>4. /\ DOMAIN update \subseteq {i}
      /\ i \in DOMAIN update => update[i] = given
      /\ i \notin DOMAIN update => \A c \in DOMAIN columns : db[i][c] = columns[c]
  BY DEF Nothing, Only
<1> HIDE DEF given, update
<1> QED
  BY <1>1, <1>2, <1>3, <1>4

-----------------------------------------------------------------------------
(* Releases.                                                               *)

LEMMA ChecksumNew ==
  ASSUME NEW row, Matches(row)
  PROVE  KeepsChecksums(db, New(row))
BY DEF KeepsChecksums, New, NoPlan, Nothing, Only

LEMMA ChecksumNothing ==
  /\ KeepsChecksums(db, NoPlan)
  /\ \A ids : KeepsChecksums(db, Drop(ids))
BY DEF KeepsChecksums, Drop, NoPlan, Nothing

LEMMA ChecksumSet ==
  ASSUME NEW i, NEW columns, DOMAIN columns \subseteq DOMAIN db[i],
         Matches(Over(columns, db[i]))
  PROVE  KeepsChecksums(db, Set(i, columns))
BY OverSet DEF KeepsChecksums, Nothing

LEMMA ChecksumAnd ==
  ASSUME NEW p, NEW q, KeepsChecksums(db, p), KeepsChecksums(db, q)
  PROVE  KeepsChecksums(db, And(p, q))
BY DEF KeepsChecksums, And, Over

LEMMA ReleaseAgrees ==
  ASSUME NEW p, NEW job, Uses("releases"), KeepsChecksums(db, p)
  PROVE  Agrees(db, p, job)
BY DEF Agrees, Publication, Reviewing, Uses

\* What a release gets while the checksum stays one over its text.
LEMMA ReleasePlans ==
  ASSUME Base, AllTyped, Agreed(db), NEW r \in Requests, Uses("releases"), ReleaseRequest(r)
  PROVE  StartsAgreeing(r)
<1> DEFINE Fine(plan) ==
             \E job : (Begin(r, plan, job) \/ BeginLocked(r, plan, job)) /\ KeepsChecksums(db, plan)
<1>0. \A plan : Fine(plan) => StartsAgreeing(r)
  BY ReleaseAgrees DEF StartsAgreeing
<1>1. CASE CreateWebhook(r)
  <2>1. PICK events, k : BeginLocked(r, New(Webhook("second", events, k)), Done)
    BY <1>1 DEF CreateWebhook
  <2>2. KeepsChecksums(db, New(Webhook("second", events, k)))
    BY ChecksumNew DEF Matches, Webhook
  <2> QED
    BY <1>0, <2>1, <2>2
<1>2. CASE CreateRelease(r)
  <2>1. PICK label : Begin(r, New(Release(label)), Done)
    BY <1>2 DEF CreateRelease
  <2>2. KeepsChecksums(db, New(Release(label)))
    BY ChecksumNew DEF Matches, Release
  <2> QED
    BY <1>0, <2>1, <2>2
<1>3. CASE CreateDeployment(r)
  <2>1. PICK i, job : Begin(r, New([table |-> "deployment", release |-> i, status |-> "SUCCEEDED"]),
                            job)
    BY <1>3 DEF CreateDeployment
  <2>2. KeepsChecksums(db, New([table |-> "deployment", release |-> i, status |-> "SUCCEEDED"]))
    BY ChecksumNew DEF Matches
  <2> QED
    BY <1>0, <2>1, <2>2
<1>11. CASE CreateUseCaseBundle(r)
  <2>1. PICK i : Begin(r, New([table |-> "bundle", release |-> i]), Done)
    BY <1>11 DEF CreateUseCaseBundle
  <2>2. KeepsChecksums(db, New([table |-> "bundle", release |-> i]))
    BY ChecksumNew DEF Matches
  <2> QED
    BY <1>0, <2>1, <2>2
<1>4. CASE DeleteWebhook(r) \/ TestWebhook(r)
  <2>1. PICK plan : (\E job : BeginLocked(r, plan, job)) /\ (plan = NoPlan \/ \E ids : plan = Drop(ids))
    BY <1>4 DEF DeleteWebhook, TestWebhook
  <2> QED
    BY <1>0, <2>1, ChecksumNothing
\* What is no release may get anything.
<1>5. CASE UpdateWebhook(r) \/ UpdateDeployment(r) \/ RollbackDeployment(r)
  <2> DEFINE Given(i, columns) ==
               \/ i \in Rows("webhook") /\ DOMAIN columns \subseteq {"events", "retries", "enabled"}
               \/ i \in Rows("deployment") /\ DOMAIN columns \subseteq {"status"}
  <2>1. /\ \A w \in Rows("webhook") :
             /\ \A events : Given(w, [events |-> events])
             /\ \A k : Given(w, [retries |-> k])
             /\ Given(w, [enabled |-> ~db[w].enabled])
        /\ \A i \in Rows("deployment") : \A s : Given(i, [status |-> s])
    OBVIOUS
  <2>2. ASSUME NEW i, NEW columns, Given(i, columns) PROVE KeepsChecksums(db, Set(i, columns))
    <3>1. db[i].table \in {"webhook", "deployment"} /\ DOMAIN db[i] = Columns(db[i].table)
      BY <2>2, TypedRows DEF Typed
    <3>2. DOMAIN columns \subseteq DOMAIN db[i] \ {"table"}
      BY <2>2, <3>1, ReleaseColumns DEF Rows
    <3>3. Over(columns, db[i]).table = db[i].table
      BY <3>1, <3>2, TableIsColumn DEF Over
    <3>4. Matches(Over(columns, db[i]))
      BY <3>1, <3>3 DEF Matches
    <3> QED
      BY <3>2, <3>4, ChecksumSet
  <2> HIDE DEF Given
  <2>3. PICK i : \E columns, job : Given(i, columns)
                   /\ (Begin(r, Set(i, columns), job) \/ BeginLocked(r, Set(i, columns), job))
    BY <1>5, <2>1 DEF UpdateWebhook, UpdateDeployment, RollbackDeployment
  <2>4. PICK columns, job : Given(i, columns)
                   /\ (Begin(r, Set(i, columns), job) \/ BeginLocked(r, Set(i, columns), job))
    BY <2>3
  <2> QED
    BY <1>0, <2>2, <2>4
<1>6. ASSUME NEW i \in Rows("release")
      PROVE  /\ DOMAIN db[i] = {"table", "label", "status", "text", "checksum", "results"}
             /\ db[i].table = "release" /\ Matches(db[i])
             /\ Checksum(i)[1] = db[i].text
  BY <1>6, TypedRows, ReleaseColumns DEF Typed, Agreed, Checksum
<1>7. CASE UpdateRelease(r)
  <2>1. PICK i \in Rows("release") :
          db[i].status = "DRAFT" /\ Begin(r, Set(i, [text |-> 1 - db[i].text]), Done)
    BY <1>7 DEF UpdateRelease
  <2>2. Over([text |-> 1 - db[i].text], db[i]).status = "DRAFT"
    BY <1>6, <2>1 DEF Over
  <2>3. Matches(Over([text |-> 1 - db[i].text], db[i]))
    BY <2>2 DEF Matches
  <2>4. KeepsChecksums(db, Set(i, [text |-> 1 - db[i].text]))
    BY <1>6, <2>3, ChecksumSet
  <2> QED
    BY <1>0, <2>1, <2>4
<1>8. CASE DownloadRelease(r)
  <2>1. PICK i \in Rows("release") : Begin(r, Set(i, [checksum |-> Checksum(i)]), Done)
    BY <1>8 DEF DownloadRelease
  <2> DEFINE row == Over([checksum |-> Checksum(i)], db[i])
  <2>2. row.checksum = Checksum(i) /\ row.text = db[i].text
    BY <1>6 DEF Over
  <2>3. Matches(row)
    BY <1>6, <2>2 DEF Matches
  <2>4. KeepsChecksums(db, Set(i, [checksum |-> Checksum(i)]))
    BY <1>6, <2>3, ChecksumSet
  <2> QED
    BY <1>0, <2>1, <2>4
<1>9. CASE PublishRelease(r)
  <2>1. PICK i \in Rows("release") : \E job :
          Begin(r, Set(i, [status |-> "RELEASED", checksum |-> Checksum(i)]), job)
    BY <1>9 DEF PublishRelease
  <2> DEFINE row == Over([status |-> "RELEASED", checksum |-> Checksum(i)], db[i])
  <2>2. row.checksum = Checksum(i) /\ row.text = db[i].text
    BY <1>6 DEF Over
  <2>3. Matches(row)
    BY <1>6, <2>2 DEF Matches
  <2>4. KeepsChecksums(db, Set(i, [status |-> "RELEASED", checksum |-> Checksum(i)]))
    BY <1>6, <2>3, ChecksumSet
  <2> QED
    BY <1>0, <2>1, <2>4
<1>10. CASE RunPreflight(r)
  <2>1. PICK i \in Rows("release") :
          Begin(r, And(New([table |-> "report", release |-> i]), Set(i, [results |-> made + 1])),
                Done)
    BY <1>10 DEF RunPreflight
  <2> DEFINE row == Over([results |-> made + 1], db[i])
  <2>2. /\ row.checksum = db[i].checksum /\ row.text = db[i].text
        /\ row.status = db[i].status /\ row.table = db[i].table
    BY <1>6 DEF Over
  <2>3. Matches(row)
    BY <1>6, <2>2 DEF Matches
  <2>4. KeepsChecksums(db, Set(i, [results |-> made + 1]))
    BY <1>6, <2>3, ChecksumSet
  <2>5. KeepsChecksums(db, New([table |-> "report", release |-> i]))
    BY ChecksumNew DEF Matches
  <2> QED
    BY <1>0, <2>1, <2>4, <2>5, ChecksumAnd
<1> QED
  BY <1>1, <1>2, <1>3, <1>4, <1>5, <1>7, <1>8, <1>9, <1>10, <1>11 DEF ReleaseRequest

LEMMA ReleaseGoesOn ==
  ASSUME NEW r \in Requests, Uses("releases"), ReleaseStep(r),
         Agrees(db, session[r].plan, session[r].job)
  PROVE  GoesOnAgreeing(r)
<1>1. KeepsChecksums(db, session[r].plan)
  BY DEF Agrees
<1>2. CASE FlushAndAnnounce(r)
  <2>1. PICK job : Flush(r, job)
    BY <1>2 DEF FlushAndAnnounce
  <2> QED
    BY <1>1, <2>1, ReleaseAgrees DEF GoesOnAgreeing
<1>3. CASE TestReturns(r)
  <2>1. Continue(r, NoPlan, Done)
    BY <1>3 DEF TestReturns
  <2> QED
    BY <2>1, ChecksumNothing, ReleaseAgrees DEF GoesOnAgreeing
<1> QED
  BY <1>2, <1>3 DEF ReleaseStep

-----------------------------------------------------------------------------
(* Ontologies.                                                             *)

LEMMA LinksNew ==
  ASSUME NEW row, IsLinked(row) => LinkFits(db, row)
  PROVE  KeepsLinks(db, New(row))
BY DEF KeepsLinks, New, NoPlan, Nothing, Only

LEMMA LinksSet ==
  ASSUME NEW i, NEW columns, {"onto", "link"} \cap DOMAIN columns = {}
  PROVE  KeepsLinks(db, Set(i, columns))
<1> DEFINE p == Set(i, columns)
<1>1. /\ p.insert = Nothing /\ p.delete = {}
      /\ \A j \in DOMAIN p.update : DOMAIN p.update[j] \subseteq DOMAIN columns
  BY SetIs
<1> HIDE DEF p
<1> QED
  BY <1>1 DEF KeepsLinks, Nothing, p

\* More that is attached to nothing.
LEMMA LinksMore ==
  ASSUME NEW p, NEW q, KeepsLinks(db, p), q.delete = {},
         \A i \in DOMAIN q.insert : ~IsLinked(q.insert[i]),
         \A i \in DOMAIN q.update : {"onto", "link"} \cap DOMAIN q.update[i] = {}
  PROVE  KeepsLinks(db, And(p, q))
BY DEF KeepsLinks, And, Over

LEMMA LinksAndNew ==
  ASSUME NEW p, IsPlan(p), KeepsLinks(db, p), NEW row, ~IsLinked(row)
  PROVE  KeepsLinks(db, AndNew(p, row))
<1> DEFINE n == Max({made} \cup DOMAIN p.insert) + 1
           ins == Over(p.insert, Only(n, row))
<1>1. AndNew(p, row) = [insert |-> ins, update |-> p.update, delete |-> p.delete]
  BY DEF AndNew, IsPlan
<1> HIDE DEF n
<1>2. \A i \in DOMAIN ins : (i \in DOMAIN p.insert /\ ins[i] = p.insert[i]) \/ ins[i] = row
  BY DEF Over, Only
<1> HIDE DEF ins
<1> QED
  BY <1>1, <1>2 DEF KeepsLinks

\* A copy is attached to nothing.
LEMMA CopiesUnlinked ==
  ASSUME Base, NEW ids, ids \subseteq DOMAIN db,
         \A j \in ids : Typed(db[j]) /\ db[j].table \in Content, NEW o, NEW ns
  PROVE  LET c == Copies(ids, o, ns)
         IN /\ c.delete = {} /\ c.update = Nothing
            /\ \A i \in DOMAIN c.insert : ~IsLinked(c.insert[i])
<1> DEFINE ins == [i \in {made + j : j \in ids} |-> Forked(db[i - made], o, ns)]
<1>1. Copies(ids, o, ns) = [insert |-> ins, update |-> Nothing, delete |-> {}]
  <2>1. Copies(ids, o, ns) = [NoPlan EXCEPT !.insert = ins]
    BY Zenon DEF Copies
  <2> HIDE DEF ins
  <2> QED
    BY <2>1 DEF NoPlan
<1>2. made \in Nat /\ \A j \in ids : j \in 1 .. made
  BY DEF Base
<1>3. ASSUME NEW i \in DOMAIN ins PROVE ~IsLinked(ins[i])
  <2>1. PICK j \in ids : i = made + j
    BY <1>3
  <2>2. i - made = j
    BY <1>2, <2>1
  <2>3. ins[i] = Forked(db[j], o, ns)
    BY <1>3, <2>2
  <2>4. "link" \in DOMAIN db[j]
    BY OntologyColumns DEF Typed
  <2>5. Forked(db[j], o, ns).link = None
    BY <2>4 DEF Forked
  <2> HIDE DEF ins
  <2> QED
    BY <2>3, <2>5 DEF IsLinked
<1> HIDE DEF ins
<1> QED
  BY <1>1, <1>3

\* What is attached to something that is deleted is deleted: a constraint on a
\* property of a class goes with the class.
LEMMA DependentsLinked ==
  ASSUME Base, Linked(db), NEW ids, ids \subseteq DOMAIN db,
         NEW i \in DOMAIN db, IsLinked(db[i]), db[i].link \in WithDependents(ids)
  PROVE  i \in WithDependents(ids)
<1> DEFINE k == db[i].link
<1>1. /\ \A j \in ids : j \in Attached(ids)
      /\ \A j \in Attached(ids) : j \in WithDependents(ids)
      /\ db[i].table \in Content
  BY DEF Attached, WithDependents, IsLinked
<1>2. CASE k \in Attached(ids)
  BY <1>1, <1>2 DEF Attached, WithDependents
<1>3. CASE k \notin Attached(ids)
  <2>1. k \in DOMAIN db /\ db[k].table \in Content /\ db[k].link \in Attached(ids) /\ k \notin ids
    BY <1>1, <1>3 DEF WithDependents, Attached
  <2>2. None \notin DOMAIN db
    BY NoneIsNoNumber DEF Base
  <2> DEFINE m == db[k].link
  <2>3. m \in DOMAIN db /\ m # None
    BY <2>1, <2>2 DEF Attached
  <2>4. db[k].table \in {"class", "property"}
    BY DEF Linked, LinkFits
  <2>5. IsLinked(db[k])
    BY <2>1, <2>3 DEF IsLinked
  <2>6. db[k].table = "property" /\ db[m].table = "class"
    BY <2>1, <2>4, <2>5 DEF Linked, LinkFits
  <2>7. m \notin ids
    BY <1>3, <2>1 DEF Attached
  <2>8. db[m].table \in Content /\ db[m].link \in ids
    BY <2>1, <2>7 DEF Attached
  <2>9. db[m].link # None
    BY <2>2, <2>8
  <2>10. IsLinked(db[m])
    BY <2>8, <2>9 DEF IsLinked
  <2>11. db[m].table \in {"property", "constraint"}
    BY <2>3, <2>10 DEF Linked, LinkFits
  <2> QED
    BY <2>6, <2>11
<1> QED
  BY <1>2, <1>3

LEMMA DropIs == \A gone : Drop(gone) = [insert |-> Nothing, update |-> Nothing, delete |-> gone]
BY DEF Drop, NoPlan

\* Together with what is no content.
LEMMA LinksDrop ==
  ASSUME Base, Linked(db), NEW ids, ids \subseteq DOMAIN db, NEW others,
         \A i \in others \cap DOMAIN db : db[i].table \notin Content
  PROVE  KeepsLinks(db, Drop(others \cup WithDependents(ids)))
<1> DEFINE gone == others \cup WithDependents(ids)
<1>2. ASSUME NEW i \in DOMAIN db \ gone, IsLinked(db[i]) PROVE db[i].link \notin gone
  <2>1. db[i].link \in DOMAIN db /\ db[db[i].link].table \in Content
    BY <1>2 DEF Linked, LinkFits, Content
  <2>2. db[i].link \notin others
    BY <2>1
  <2>3. db[i].link \notin WithDependents(ids)
    BY <1>2, DependentsLinked
  <2> QED
    BY <2>2, <2>3
<1> HIDE DEF gone
<1>1. Drop(gone) = [insert |-> Nothing, update |-> Nothing, delete |-> gone]
  BY DropIs
<1>3. KeepsLinks(db, Drop(gone))
  BY <1>1, <1>2 DEF KeepsLinks, Nothing
<1> QED
  BY <1>3 DEF gone

LEMMA OntologyAgrees ==
  ASSUME NEW p, NEW job, Publication, KeepsLinks(db, p)
  PROVE  Agrees(db, p, job)
BY DEF Agrees, Publication, Reviewing, Uses

LEMMA OntologyPlans ==
  ASSUME Base, AllTyped, Agreed(db), NEW r \in Requests, Publication,
         ContentRequest(r) \/ VersionRequest(r)
  PROVE  StartsAgreeing(r)
<1> DEFINE Fine(plan) == (\E job : Begin(r, plan, job)) /\ KeepsLinks(db, plan)
<1>0. (\A plan : Fine(plan) => StartsAgreeing(r)) /\ Linked(db)
  BY OntologyAgrees DEF StartsAgreeing, Agreed
<1>1. CASE CreateOntology(r) \/ ForkOntology(r)
  <2>1. PICK ns, head : \E job : Begin(r, New(Ontology(ns, head)), job)
    BY <1>1 DEF CreateOntology, ForkOntology
  <2>2. KeepsLinks(db, New(Ontology(ns, head)))
    BY LinksNew DEF IsLinked, Ontology, Content
  <2> QED
    BY <1>0, <2>1, <2>2
<1>2. CASE UpdateOntology(r) \/ UpdateOntologyStatus(r) \/ PublishOntology(r)
           \/ UpdateVersionContent(r)
  <2> DEFINE Given(columns) == {"onto", "link"} \cap DOMAIN columns = {}
  <2>1. /\ Given([rev |-> 1]) /\ Given([snapshot |-> {}])
        /\ \A s : Given([status |-> s])
        /\ \A label : Given([head |-> label, status |-> "PUBLISHED"])
    OBVIOUS
  <2> HIDE DEF Given
  <2>2. PICK i, columns : Given(columns) /\ \E job : Begin(r, Set(i, columns), job)
    BY <1>2, <2>1
       DEF UpdateOntology, UpdateOntologyStatus, PublishOntology, UpdateVersionContent
  <2> QED
    BY <1>0, <2>2, LinksSet DEF Given
<1>3. CASE UpdateClass(r) \/ UpdateProperty(r) \/ UpdateConstraint(r)
  <2>1. PICK i, rev : Begin(r, Set(i, [rev |-> rev]), Done)
    BY <1>3 DEF UpdateClass, UpdateProperty, UpdateConstraint, Edit
  <2>2. KeepsLinks(db, Set(i, [rev |-> rev]))
    BY LinksSet
  <2> QED
    BY <1>0, <2>1, <2>2
<1>4. CASE PublishVersion(r)
  <2>1. PICK v : Begin(r, And(Set(v, [status |-> "PUBLISHED", at |-> made + 1]),
                              Set(db[v].onto, [head |-> db[v].label, status |-> "PUBLISHED"])),
                       Done)
    BY <1>4 DEF PublishVersion
  <2> DEFINE p == Set(v, [status |-> "PUBLISHED", at |-> made + 1])
             q == Set(db[v].onto, [head |-> db[v].label, status |-> "PUBLISHED"])
  <2>2. KeepsLinks(db, p) /\ KeepsLinks(db, q)
    BY LinksSet
  <2>3. q.delete = {} /\ q.insert = Nothing
    BY SetIs
  <2> HIDE DEF p, q
  <2>4. KeepsLinks(db, And(p, q))
    BY <2>2, <2>3, LinksMore DEF KeepsLinks, Nothing
  <2> QED
    BY <1>0, <2>1, <2>4 DEF p, q
<1>5. CASE CreateClass(r)
  <2>1. PICK o, iri, parent : Begin(r, New(Element("class", o, iri, parent, None, 0)), Done)
    BY <1>5 DEF CreateClass
  <2>2. KeepsLinks(db, New(Element("class", o, iri, parent, None, 0)))
    BY LinksNew DEF IsLinked, Element
  <2> QED
    BY <1>0, <2>1, <2>2
<1>6. CASE CreateRelation(r)
  <2>1. PICK o, iri, source : Begin(r, New(Element("relation", o, iri, source, None, 0)), Done)
    BY <1>6 DEF CreateRelation
  <2>2. KeepsLinks(db, New(Element("relation", o, iri, source, None, 0)))
    BY LinksNew DEF IsLinked, Element
  <2> QED
    BY <1>0, <2>1, <2>2
<1>7. CASE CreateProperty(r)
  <2>1. PICK o, iri, domain :
          Begin(r, New(Element("property", o, iri, domain, ClassNamed(o, domain), 0)), Done)
    BY <1>7 DEF CreateProperty
  <2> DEFINE k == ClassNamed(o, domain)
             row == Element("property", o, iri, domain, k, 0)
  <2>2. k # None => k \in Of(o, "class")
    BY DEF ClassNamed
  <2> HIDE DEF k
  <2>3. row.table = "property" /\ row.onto = o /\ row.link = k
    BY DEF Element
  <2>4. k # None => LinkFits(db, row)
    BY <2>2, <2>3 DEF LinkFits, Of, Rows
  <2>5. KeepsLinks(db, New(row))
    BY <2>3, <2>4, LinksNew DEF IsLinked
  <2> QED
    BY <1>0, <2>1, <2>5 DEF k
<1>8. CASE CreateConstraint(r)
  <2>1. PICK o, s, target : \E of \in {None} \cup Of(o, "class") \cup Of(o, "property") :
          Begin(r, New(Element("constraint", o, None, target, of, s)), Done)
    BY <1>8 DEF CreateConstraint
  <2>2. PICK of \in {None} \cup Of(o, "class") \cup Of(o, "property") :
          Begin(r, New(Element("constraint", o, None, target, of, s)), Done)
    BY <2>1
  <2> DEFINE row == Element("constraint", o, None, target, of, s)
  <2>3. row.table = "constraint" /\ row.onto = o /\ row.link = of
    BY DEF Element
  <2>4. of # None => LinkFits(db, row)
    BY <2>3 DEF LinkFits, Of, Rows
  <2>5. KeepsLinks(db, New(row))
    BY <2>3, <2>4, LinksNew DEF IsLinked
  <2> QED
    BY <1>0, <2>2, <2>5
<1>9. CASE CreateDraftVersion(r)
  <2>1. PICK o, label, snapshot, base :
          Begin(r, New(Version(o, label, "DRAFT", None, snapshot, base)), Done)
    BY <1>9 DEF CreateDraftVersion
  <2>2. KeepsLinks(db, New(Version(o, label, "DRAFT", None, snapshot, base)))
    BY LinksNew DEF IsLinked, Version, Content
  <2> QED
    BY <1>0, <2>1, <2>2
<1>10. CASE DeleteClass(r) \/ DeleteProperty(r) \/ DeleteRelation(r) \/ DeleteConstraint(r)
  <2>1. PICK i \in DOMAIN db : Begin(r, Drop(WithDependents({i})), Done)
    BY <1>10 DEF DeleteClass, DeleteProperty, DeleteRelation, DeleteConstraint, Delete, Rows
  <2>2. KeepsLinks(db, Drop({} \cup WithDependents({i})))
    BY <1>0, LinksDrop
  <2>3. {} \cup WithDependents({i}) = WithDependents({i})
    OBVIOUS
  <2> QED
    BY <1>0, <2>1, <2>2, <2>3
<1>11. CASE DeleteOntology(r)
  <2>1. PICK o \in Rows("ontology") :
          Begin(r, Drop({o} \cup Of(o, "version")
                        \cup WithDependents(Elements(o) \ Of(o, "constraint"))), Done)
    BY <1>11 DEF DeleteOntology
  <2>2. \A i \in {o} \cup Of(o, "version") : db[i].table \notin Content
    BY DEF Rows, Of, Content
  <2>3. Elements(o) \ Of(o, "constraint") \subseteq DOMAIN db
    BY DEF Elements, Of, Rows
  <2>4. KeepsLinks(db, Drop({o} \cup Of(o, "version")
                            \cup WithDependents(Elements(o) \ Of(o, "constraint"))))
    BY <1>0, <2>2, <2>3, LinksDrop
  <2> QED
    BY <1>0, <2>1, <2>4
<1> QED
  BY <1>1, <1>2, <1>3, <1>4, <1>5, <1>6, <1>7, <1>8, <1>9, <1>10, <1>11
     DEF ContentRequest, VersionRequest

LEMMA OntologyGoesOn ==
  ASSUME Base, AllTyped, NEW r \in Requests, Publication, OntologyStep(r),
         Agrees(db, session[r].plan, session[r].job)
  PROVE  GoesOnAgreeing(r)
<1> DEFINE plan == session[r].plan
           job == session[r].job
<1>1. KeepsLinks(db, plan) /\ IsPlan(plan)
  BY OwnPlan DEF Agrees, Proper, Planned
<1>2. ASSUME NEW o PROVE /\ Elements(o) \subseteq DOMAIN db
                         /\ \A j \in Elements(o) : Typed(db[j]) /\ db[j].table \in Content
                         /\ Of(o, "class") \subseteq Elements(o)
  BY DEF Elements, Of, Rows, AllTyped, Content
<1>3. ASSUME NEW p, NEW next, Continue(r, p, next), KeepsLinks(db, p) PROVE GoesOnAgreeing(r)
  BY <1>3, OntologyAgrees DEF GoesOnAgreeing
<1>4. ASSUME NEW o, NEW ids, ids \subseteq Elements(o), NEW fork, NEW ns
      PROVE  KeepsLinks(db, And(plan, Copies(ids, fork, ns))) /\ IsPlan(And(plan, Copies(ids, fork, ns)))
  <2> DEFINE c == Copies(ids, fork, ns)
  <2>1. ids \subseteq DOMAIN db /\ \A j \in ids : Typed(db[j]) /\ db[j].table \in Content
    BY <1>2, <1>4
  <2>2. c.delete = {} /\ c.update = Nothing /\ \A i \in DOMAIN c.insert : ~IsLinked(c.insert[i])
    BY <2>1, CopiesUnlinked
  <2> HIDE DEF c, plan
  <2>3. KeepsLinks(db, And(plan, c))
    BY <1>1, <2>2, LinksMore DEF Nothing
  <2>4. IsPlan(And(plan, c))
    BY DEF IsPlan, And
  <2> QED
    BY <2>3, <2>4 DEF c
<1>5. \A o, label, status, at, snapshot, base :
        ~IsLinked(Version(o, label, status, at, snapshot, base))
  BY DEF IsLinked, Version, Content
<1>6. CASE PublishReadsClasses(r)
  <2>1. PICK next : Continue(r, plan, next)
    BY <1>6 DEF PublishReadsClasses
  <2> QED
    BY <1>1, <1>3, <2>1
<1>7. CASE PublishReadsRest(r)
  <2>1. PICK o, label, snapshot :
          Continue(r, AndNew(plan, Version(o, label, "PUBLISHED", made, snapshot, None)), Done)
    BY <1>7 DEF PublishReadsRest
  <2> HIDE DEF plan
  <2> QED
    BY <1>1, <1>3, <1>5, <2>1, LinksAndNew
<1>8. CASE ForkFlushes(r)
  <2>1. PICK next : Flush(r, next)
    BY <1>8 DEF ForkFlushes
  <2> QED
    BY <1>1, <2>1, OntologyAgrees DEF GoesOnAgreeing
<1>9. CASE ForkCopiesClasses(r)
  <2> DEFINE ns == plan.insert[job[3]].ns
             classes == Of(job[2], "class")
  <2>1. PICK next : Continue(r, And(plan, Copies(classes, job[3], ns)), next)
    BY <1>9 DEF ForkCopiesClasses
  <2>2. classes \subseteq Elements(job[2])
    BY <1>2
  <2> HIDE DEF plan, job, ns, classes
  <2> QED
    BY <1>3, <1>4, <2>1, <2>2
<1>10. CASE ForkCopiesRest(r)
  <2> DEFINE fork == plan.insert[job[3]]
             rest == Elements(job[2]) \ Of(job[2], "class")
             copied == And(plan, Copies(rest, job[3], fork.ns))
  <2>1. PICK snapshot :
          Continue(r, AndNew(copied, Version(job[3], fork.head, "DRAFT", None, snapshot, job[2])),
                   Done)
    BY <1>10 DEF ForkCopiesRest
  <2>2. rest \subseteq Elements(job[2])
    OBVIOUS
  <2> HIDE DEF plan, job, fork, rest
  <2>3. KeepsLinks(db, copied) /\ IsPlan(copied)
    BY <1>4, <2>2
  <2> HIDE DEF copied
  <2> QED
    BY <1>3, <1>5, <2>1, <2>3, LinksAndNew
<1> QED
  BY <1>6, <1>7, <1>8, <1>9, <1>10 DEF OntologyStep

-----------------------------------------------------------------------------
(* Evidence and proposals.                                                 *)

\* A row that decides nothing.
Neutral(row) ==
  /\ row.table # "decision"
  /\ row.table = "evidence" => row.by = None
  /\ row.table = "proposal" => "confirmed" \in DOMAIN row.content

\* A change that no decision rests on.
Light(i, columns) ==
  /\ {"proposal", "verdict"} \cap DOMAIN columns = {}
  /\ {"status", "content"} \cap DOMAIN columns # {} /\ i \in TableOf(db, "proposal") =>
       db[i].status = "PENDING"
  /\ "content" \in DOMAIN columns => "confirmed" \in DOMAIN columns.content
  /\ "by" \in DOMAIN columns => columns.by = None

\* Decisions go with their proposals, and only while these are pending.
Spares(ids) ==
  \A i \in ids :
    /\ i \in TableOf(db, "decision") => db[i].proposal \in ids
    /\ i \in TableOf(db, "proposal") =>
         /\ db[i].status = "PENDING"
         /\ \A x \in TableOf(db, "decision") : db[x].proposal = i => x \in ids

Undecided(p) ==
  /\ \A i \in DOMAIN p.insert : Neutral(p.insert[i])
  /\ \A i \in DOMAIN p.update : Light(i, p.update[i])
  /\ Spares(p.delete)

LEMMA UndecidedAgrees ==
  ASSUME Reviewing, NEW p, Undecided(p)
  PROVE  Agrees(db, p, Done)
<1>1. Done[1] = "commit" /\ ~Uses("releases") /\ ~Publication
  BY DEF Done, Uses, Publication, Reviewing
<1>2. TableOf(p.insert, "decision") = {}
  BY DEF Undecided, Neutral, TableOf
<1>3. KeepsDecisions(db, p)
  BY <1>2 DEF KeepsDecisions, Undecided, Neutral, Light, Spares, TableOf
<1> QED
  BY <1>1, <1>3 DEF Agrees, HalfDecided

LEMMA UndecidedNothing == Undecided(NoPlan)
BY DEF Undecided, NoPlan, Nothing, Spares

LEMMA UndecidedNew ==
  ASSUME NEW row, Neutral(row)
  PROVE  Undecided(New(row))
BY DEF Undecided, New, NoPlan, Nothing, Only, Spares

LEMMA UndecidedDrop ==
  ASSUME NEW gone, Spares(gone)
  PROVE  Undecided(Drop(gone))
BY DropIs DEF Undecided, Nothing

LEMMA LightPart ==
  ASSUME NEW i, NEW columns, Light(i, columns), NEW given,
         DOMAIN given \subseteq DOMAIN columns, \A c \in DOMAIN given : given[c] = columns[c]
  PROVE  Light(i, given)
BY DEF Light

LEMMA UndecidedSet ==
  ASSUME NEW i, NEW columns, Light(i, columns)
  PROVE  Undecided(Set(i, columns))
<1> DEFINE p == Set(i, columns)
<1>1. /\ p.insert = Nothing /\ p.delete = {} /\ DOMAIN p.update \subseteq {i}
      /\ \A j \in DOMAIN p.update :
           /\ DOMAIN p.update[j] \subseteq DOMAIN columns
           /\ \A c \in DOMAIN p.update[j] : p.update[j][c] = columns[c]
  BY SetIs
<1> HIDE DEF p
<1>2. \A j \in DOMAIN p.update : Light(j, p.update[j])
  BY <1>1, LightPart
<1> QED
  BY <1>1, <1>2 DEF Undecided, Nothing, Spares, p

LEMMA UndecidedSetAll ==
  ASSUME NEW ids, NEW columns, \A i \in ids : Light(i, columns)
  PROVE  Undecided(SetAll(ids, columns))
BY DEF Undecided, SetAll, NoPlan, Nothing, Spares

LEMMA UndecidedAnd ==
  ASSUME NEW p, NEW q, Undecided(p), Undecided(q)
  PROVE  Undecided(And(p, q))
<1> DEFINE a == And(p, q)
<1>1. a.insert = Over(p.insert, q.insert) /\ a.update = Over(p.update, q.update)
      /\ a.delete = p.delete \cup q.delete
  BY DEF And
<1> HIDE DEF a
<1>2. \A i \in DOMAIN a.insert : Neutral(a.insert[i])
  BY <1>1 DEF Over, Undecided
<1>3. \A i \in DOMAIN a.update : Light(i, a.update[i])
  BY <1>1 DEF Over, Undecided
<1>4. Spares(a.delete)
  BY <1>1 DEF Undecided, Spares
<1> QED
  BY <1>2, <1>3, <1>4 DEF Undecided, a

LEMMA UndecidedAndNew ==
  ASSUME NEW p, IsPlan(p), Undecided(p), NEW row, Neutral(row)
  PROVE  Undecided(AndNew(p, row))
<1> DEFINE n == Max({made} \cup DOMAIN p.insert) + 1
           ins == Over(p.insert, Only(n, row))
<1>1. AndNew(p, row) = [insert |-> ins, update |-> p.update, delete |-> p.delete]
  BY DEF AndNew, IsPlan
<1> HIDE DEF n
<1>2. \A i \in DOMAIN ins : Neutral(ins[i])
  BY DEF Over, Only, Undecided
<1> HIDE DEF ins
<1> QED
  BY <1>1, <1>2 DEF Undecided

LEMMA UndecidedAndAll ==
  ASSUME Base, NEW r \in Requests, NEW p, Good(r, p), Undecided(p),
         NEW rows, IsFiniteSet(rows), \A row \in rows : HasTable(row) /\ Neutral(row)
  PROVE  Undecided(AndAll(p, rows))
<1> DEFINE a == AndAll(p, rows)
<1>1. /\ a.update = p.update /\ a.delete = p.delete
      /\ \A i \in DOMAIN a.insert :
           (i \in DOMAIN p.insert /\ a.insert[i] = p.insert[i]) \/ a.insert[i] \in rows
  BY AndAllIs
<1> HIDE DEF a
<1> QED
  BY <1>1 DEF Undecided, a

LEMMA UndecidedRows ==
  /\ \A target, after : Neutral(AuditEntry(target, after))
  /\ \A fields : Neutral(Source(fields))
  /\ \A s, f, iri : Neutral(Evidence(s, f)) /\ Neutral([Evidence(s, f) EXCEPT !.iri = iri])
  /\ \A s, project, context, f, iri : Neutral(Proposal(s, project, context, Naming(f, iri)))
  /\ \A s : Neutral([table |-> "profiling", source |-> s, status |-> "pending"])
<1>1. \A target, after : Neutral(AuditEntry(target, after))
  BY DEF Neutral, AuditEntry
<1>2. \A fields : Neutral(Source(fields))
  BY DEF Neutral, Source
<1>3. \A s, f, iri : Neutral(Evidence(s, f)) /\ Neutral([Evidence(s, f) EXCEPT !.iri = iri])
  BY DEF Neutral, Evidence
<1>4. \A s, project, context, f, iri : Neutral(Proposal(s, project, context, Naming(f, iri)))
  BY DEF Neutral, Proposal, Naming
<1>5. \A s : Neutral([table |-> "profiling", source |-> s, status |-> "pending"])
  BY DEF Neutral
<1> QED
  BY <1>1, <1>2, <1>3, <1>4, <1>5

\* With an entry in the audit log.
LEMMA UndecidedEntry ==
  ASSUME NEW p, IsPlan(p), Undecided(p), NEW target, NEW after
  PROVE  /\ Undecided(And(p, New(AuditEntry(target, after))))
         /\ Undecided(AndNew(p, AuditEntry(target, after)))
         /\ Undecided(AndEntry(p, after))
<1>1. Undecided(And(p, New(AuditEntry(target, after))))
  BY UndecidedRows, UndecidedNew, UndecidedAnd
<1>2. \A t : Undecided(AndNew(p, AuditEntry(t, after)))
  BY UndecidedRows, UndecidedAndNew
<1> QED
  BY <1>1, <1>2 DEF AndEntry

LEMMA PlansOfOne ==
  /\ \A row : IsPlan(New(row))
  /\ \A i, columns : IsPlan(Set(i, columns))
  /\ \A ids, columns : IsPlan(SetAll(ids, columns))
  /\ \A gone : IsPlan(Drop(gone))
<1>1. \A row : IsPlan(New(row))
  BY DEF IsPlan, New, NoPlan
<1>2. \A i, columns : IsPlan(Set(i, columns))
  BY SetIs
<1>3. \A ids, columns : IsPlan(SetAll(ids, columns))
  BY DEF IsPlan, SetAll, NoPlan
<1>4. \A gone : IsPlan(Drop(gone))
  BY DropIs DEF IsPlan
<1> QED
  BY <1>1, <1>2, <1>3, <1>4

LEMMA StartsUndecided ==
  ASSUME Reviewing, NEW r, NEW plan, Undecided(plan),
         Begin(r, plan, Done) \/ BeginLocked(r, plan, Done)
  PROVE  StartsAgreeing(r)
BY UndecidedAgrees DEF StartsAgreeing

LEMMA SourcePlans ==
  ASSUME Base, AllTyped, NEW r \in Requests, Uses("evidence"), SourceRequest(r)
  PROVE  StartsAgreeing(r)
<1> USE DEF Reviewing
<1>1. CASE CreateSource(r)
  <2>1. BeginLocked(r, AndEntry(New(Source({})), "create"), Done)
    BY <1>1 DEF CreateSource
  <2> QED
    BY <2>1, UndecidedRows, UndecidedNew, PlansOfOne, UndecidedEntry, StartsUndecided
<1>2. CASE UploadSource(r)
  <2>1. PICK fields \in SUBSET Fields, auto \in BOOLEAN :
          BeginLocked(r, AndNew(AndAll(New(Source(fields)),
                                       IF auto THEN {Evidence(made + 1, f) : f \in fields} ELSE {}),
                                AuditEntry(made + 1, "create")), Done)
    BY <1>2 DEF UploadSource
  <2> DEFINE found == IF auto THEN {Evidence(made + 1, f) : f \in fields} ELSE {}
             p == New(Source(fields))
             a == AndAll(p, found)
  <2>2. found \in {{}, {Evidence(made + 1, f) : f \in fields}}
    OBVIOUS
  <2>3. \A row \in found : Neutral(row)
    BY UndecidedRows
  <2> HIDE DEF found
  <2>4. Good(r, p) /\ IsFiniteSet(found) /\ \A row \in found : HasTable(row)
    BY <2>2, EvidenceTables, FoundRows
  <2>5. Undecided(p)
    BY UndecidedRows, UndecidedNew
  <2> HIDE DEF p
  <2>6. Undecided(a) /\ IsPlan(a)
    BY <2>3, <2>4, <2>5, UndecidedAndAll, AndAllIs DEF Good
  <2> HIDE DEF a
  <2>7. Undecided(AndNew(a, AuditEntry(made + 1, "create")))
    BY <2>6, UndecidedEntry
  <2> QED
    BY <2>1, <2>7, StartsUndecided DEF a, found, p
<1>3. CASE UpdateSource(r)
  <2>1. PICK s : BeginLocked(r, New(AuditEntry(s, "update")), Done)
    BY <1>3 DEF UpdateSource
  <2> QED
    BY <2>1, UndecidedRows, UndecidedNew, StartsUndecided
<1>4. CASE DeleteSource(r)
  <2>1. PICK s \in Rows("source") :
          LET runs == {p \in Rows("profiling") : db[p].source = s}
          IN BeginLocked(r, And(Drop({s} \cup EvidenceOf(s) \cup runs),
                                New(AuditEntry(s, "delete"))), Done)
    BY <1>4 DEF DeleteSource
  <2> DEFINE runs == {p \in Rows("profiling") : db[p].source = s}
             gone == {s} \cup EvidenceOf(s) \cup runs
  <2>2. BeginLocked(r, And(Drop(gone), New(AuditEntry(s, "delete"))), Done)
    BY <2>1
  <2>3. \A i \in gone : db[i].table \in {"source", "evidence", "profiling"}
    BY DEF EvidenceOf, Rows
  <2> HIDE DEF gone
  <2>4. Spares(gone)
    BY <2>3 DEF Spares, TableOf
  <2> QED
    BY <2>2, <2>4, UndecidedDrop, PlansOfOne, UndecidedEntry, StartsUndecided
<1>5. CASE CreateEvidence(r)
  <2>1. PICK s, f, iri :
          BeginLocked(r, AndEntry(New([Evidence(s, f) EXCEPT !.iri = iri]), "create"), Done)
    BY <1>5 DEF CreateEvidence
  <2> QED
    BY <2>1, UndecidedRows, UndecidedNew, PlansOfOne, UndecidedEntry, StartsUndecided
<1>6. /\ \A e, iri : Light(e, Aligned(iri))
      /\ \A e : Light(e, Rejected)
  BY DEF Light, Aligned, Rejected
<1>7. CASE AlignEvidence(r) \/ RejectEvidence(r)
  <2>1. PICK e, columns, after :
          /\ Light(e, columns)
          /\ BeginLocked(r, And(Set(e, columns), New(AuditEntry(None, after))), Done)
    BY <1>6, <1>7 DEF AlignEvidence, RejectEvidence
  <2> QED
    BY <2>1, UndecidedSet, PlansOfOne, UndecidedEntry, StartsUndecided
<1>8. CASE BulkConfirm(r) \/ BulkReject(r)
  <2>1. PICK ids, columns, after :
          /\ \A e \in ids : Light(e, columns)
          /\ BeginLocked(r, And(SetAll(ids, columns), New(AuditEntry(None, after))), Done)
    BY <1>6, <1>8 DEF BulkConfirm, BulkReject
  <2> QED
    BY <2>1, UndecidedSetAll, PlansOfOne, UndecidedEntry, StartsUndecided
<1>9. CASE CreateProfilingRun(r)
  <2>1. PICK s :
          BeginLocked(r, AndEntry(New([table |-> "profiling", source |-> s, status |-> "pending"]),
                                  "create"), Done)
    BY <1>9 DEF CreateProfilingRun
  <2> QED
    BY <2>1, UndecidedRows, UndecidedNew, PlansOfOne, UndecidedEntry, StartsUndecided
<1>10. CASE ExecuteProfiling(r)
  <2> DEFINE runs(s) == {p \in Rows("profiling") : db[p].source = s}
             plan(s) == IF runs(s) = {} THEN NoPlan ELSE Set(Max(runs(s)), [status |-> "completed"])
  <2>1. PICK s \in Rows("source") : BeginLocked(r, plan(s), Done)
    BY <1>10 DEF ExecuteProfiling
  <2>2. ASSUME runs(s) # {} PROVE Max(runs(s)) \in Rows("profiling")
    <3>1. made \in Nat /\ runs(s) \subseteq 0 .. made /\ runs(s) \subseteq Rows("profiling")
      BY DEF Base, Rows
    <3> HIDE DEF runs
    <3>2. Max(runs(s)) \in runs(s)
      BY <2>2, <3>1, MaxIs
    <3> QED
      BY <3>1, <3>2
  <2>3. ASSUME NEW p \in Rows("profiling") PROVE Undecided(Set(p, [status |-> "completed"]))
    <3>1. Light(p, [status |-> "completed"])
      BY DEF Light, Rows, TableOf
    <3> QED
      BY <3>1, UndecidedSet
  <2> HIDE DEF runs
  <2>4. Undecided(plan(s))
    BY <2>2, <2>3, UndecidedNothing
  <2> HIDE DEF plan
  <2> QED
    BY <2>1, <2>4, StartsUndecided
<1> QED
  BY <1>1, <1>2, <1>3, <1>4, <1>5, <1>7, <1>8, <1>9, <1>10 DEF SourceRequest

\* A decision and the status that it gives.
LEMMA DecidesNow ==
  ASSUME Base, AllTyped, Agreed(db), Uses("evidence"), NEW q \in Rows("proposal"),
         db[q].status = "PENDING", NEW v
  PROVE  Agrees(db, And(Set(q, [status |-> StatusAfter(v)]),
                        New([table |-> "decision", proposal |-> q, verdict |-> v])),
                <<"decide", q, v, made + 1, db[q]>>)
<1> DEFINE columns == [status |-> StatusAfter(v)]
           row == [table |-> "decision", proposal |-> q, verdict |-> v]
           s == Set(q, columns)
           p == And(s, New(row))
           x == made + 1
           job == <<"decide", q, v, x, db[q]>>
<1>1. q \in DOMAIN db /\ db[q].table = "proposal" /\ "status" \in DOMAIN db[q]
  <2>1. q \in DOMAIN db /\ db[q].table = "proposal" /\ Typed(db[q])
    BY TypedRows
  <2> QED
    BY <2>1, EvidenceColumns DEF Typed
<1>2. /\ s.insert = Nothing /\ s.delete = {} /\ DOMAIN s.update \subseteq {q}
      /\ q \in DOMAIN s.update =>
           /\ DOMAIN s.update[q] \subseteq {"status"}
           /\ "status" \in DOMAIN s.update[q] => s.update[q].status = StatusAfter(v)
           /\ "status" \notin DOMAIN s.update[q] => db[q].status = StatusAfter(v)
      /\ q \notin DOMAIN s.update => db[q].status = StatusAfter(v)
  <2>1. DOMAIN columns = {"status"} /\ columns.status = StatusAfter(v)
    OBVIOUS
  <2> HIDE DEF columns
  <2> QED
    BY <1>1, <2>1, OverSet
<1>3. /\ p.insert = Over(s.insert, Only(x, row)) /\ p.update = Over(s.update, Nothing)
      /\ p.delete = s.delete \cup {}
  BY DEF And, New, NoPlan
<1>4. row.table = "decision" /\ row.proposal = q /\ row.verdict = v
  OBVIOUS
<1> HIDE DEF row, s, p, columns
<1>5. /\ DOMAIN p.insert = {x} /\ p.insert[x] = row /\ p.delete = {}
      /\ DOMAIN p.update = DOMAIN s.update
      /\ q \in DOMAIN s.update => p.update[q] = s.update[q]
  BY <1>2, <1>3 DEF Over, Only, Nothing
<1>6. q \in TableOf(db, "proposal") /\ \A y \in DOMAIN db : y <= x
  BY <1>1 DEF TableOf, Base
<1>7. TableOf(p.insert, "decision") = {x} /\ TableOf(p.insert, "evidence") = {}
      /\ TableOf(p.insert, "proposal") = {}
  BY <1>4, <1>5 DEF TableOf
<1>8. Decides(db, p, x)
  BY <1>2, <1>4, <1>5, <1>6 DEF Decides
<1>9. \A i \in DOMAIN p.update : i = q /\ DOMAIN p.update[i] \subseteq {"status"}
  BY <1>2, <1>5
<1> HIDE DEF x
<1>10. KeepsDecisions(db, p)
  BY <1>5, <1>7, <1>8, <1>9 DEF KeepsDecisions
<1>11. HalfDecided(db, p, job)
  <2>1. job[2] = q /\ job[3] = v /\ job[4] = x /\ job[5] = db[q]
    OBVIOUS
  <2> HIDE DEF job
  <2>2. DOMAIN p.update \subseteq {q}
    BY <1>9
  <2> QED
    BY <1>4, <1>5, <1>6, <2>1, <2>2 DEF HalfDecided
<1> HIDE DEF job
<1>12. Agrees(db, p, job)
  BY <1>10, <1>11 DEF Agrees, Uses, Publication, Reviewing
<1> QED
  BY <1>12 DEF job, x, p, s, row, columns

LEMMA ProposalPlans ==
  ASSUME Base, AllTyped, Agreed(db), NEW r \in Requests, Uses("evidence"), ProposalRequest(r)
  PROVE  StartsAgreeing(r)
<1> USE DEF Reviewing
<1>1. \A s, f, c : Neutral(Generated(s, f, c)) /\ HasTable(Generated(s, f, c))
  BY UndecidedRows, EvidenceTables DEF HasTable, Proposal, Generated
<1>2. ASSUME NEW g, IsFiniteSet(DOMAIN g), \A f \in DOMAIN g : HasTable(g[f]) /\ Neutral(g[f])
      PROVE  Undecided(AndAll(NoPlan, {g[f] : f \in DOMAIN g}))
  <2> DEFINE rows == {g[f] : f \in DOMAIN g}
  <2>1. IsFiniteSet(rows) /\ \A row \in rows : HasTable(row) /\ Neutral(row)
    BY <1>2, FiniteImage
  <2> HIDE DEF rows
  <2>2. Undecided(AndAll(NoPlan, rows))
    BY <2>1, GoodNothing, UndecidedNothing, UndecidedAndAll
  <2> QED
    BY <2>2 DEF rows
<1>3. CASE GenerateFromProfiling(r)
  <2>1. PICK s \in Rows("source") :
          \E fields \in SUBSET db[s].fields : Begin(r, FromProfiling(s, fields), Done)
    BY <1>3 DEF GenerateFromProfiling
  <2>2. PICK fields \in SUBSET db[s].fields : Begin(r, FromProfiling(s, fields), Done)
    BY <2>1
  <2>3. IsFiniteSet(fields)
    <3>1. s \in DOMAIN db /\ db[s].table = "source" /\ HasTable(db[s])
      BY DEF Base, Rows
    <3>2. IsFiniteSet(db[s].fields)
      BY <3>1 DEF HasTable
    <3> QED
      BY <3>2, FS_Subset
  <2> DEFINE g == [f \in fields |-> Generated(s, f, f)]
  <2>4. /\ DOMAIN g = fields
        /\ \A f \in DOMAIN g : HasTable(g[f]) /\ Neutral(g[f])
        /\ {Generated(s, f, f) : f \in fields} = {g[f] : f \in DOMAIN g}
    BY <1>1
  <2> HIDE DEF g
  <2>5. Undecided(FromProfiling(s, fields))
    BY <1>2, <2>3, <2>4 DEF FromProfiling
  <2> QED
    BY <2>2, <2>5, StartsUndecided
<1>4. CASE GenerateFromEvidence(r)
  <2> DEFINE open == {e \in Rows("evidence") : ~db[e].confirmed /\ db[e].iri = None}
             first(f) == Min({e \in open : NameOf(e) = f})
             h == [e \in open |-> NameOf(e)]
             fields == {NameOf(e) : e \in open}
             g == [f \in fields |-> Generated(db[first(f)].source, f, None)]
  <2>1. IsFiniteSet(open)
    BY RowsAreFinite DEF Rows
  <2>2. fields = {h[e] : e \in DOMAIN h} /\ DOMAIN h = open
    OBVIOUS
  <2> HIDE DEF h
  <2>3. IsFiniteSet(fields)
    <3> HIDE DEF open, fields
    <3> QED
      BY <2>1, <2>2, FiniteImage
  <2>4. /\ DOMAIN g = fields
        /\ \A f \in DOMAIN g : HasTable(g[f]) /\ Neutral(g[f])
        /\ {Generated(db[first(f)].source, f, None) : f \in fields} = {g[f] : f \in DOMAIN g}
    <3> HIDE DEF first, fields
    <3> QED
      BY <1>1
  <2>5. FromEvidence = AndAll(NoPlan, {Generated(db[first(f)].source, f, None) : f \in fields})
    BY DEF FromEvidence
  <2> HIDE DEF g, first, fields
  <2>6. Undecided(FromEvidence)
    BY <1>2, <2>3, <2>4, <2>5
  <2> QED
    BY <1>4, <2>6, StartsUndecided DEF GenerateFromEvidence
<1>5. CASE UpdateProposal(r)
  <2>1. PICK p \in Rows("proposal") :
          db[p].status = "PENDING" /\ \E f, iri : Begin(r, Set(p, [content |-> Naming(f, iri)]), Done)
    BY <1>5 DEF UpdateProposal
  <2>2. PICK f, iri : Begin(r, Set(p, [content |-> Naming(f, iri)]), Done)
    BY <2>1
  <2>3. Light(p, [content |-> Naming(f, iri)])
    BY <2>1 DEF Light, Naming
  <2> QED
    BY <2>2, <2>3, UndecidedSet, StartsUndecided
<1>9. CASE CreateProposal(r)
  <2>1. PICK s, project, c, f, iri :
          Begin(r, New(Proposal(s, project, c, Naming(f, iri))), Done)
    BY <1>9 DEF CreateProposal
  <2> QED
    BY <2>1, UndecidedRows, UndecidedNew, StartsUndecided
<1>6. CASE DeleteProposal(r)
  <2>1. PICK p \in Rows("proposal") :
          /\ db[p].status = "PENDING"
          /\ Begin(r, Drop({p} \cup {d \in Rows("decision") : db[d].proposal = p}), Done)
    BY <1>6 DEF DeleteProposal
  <2> DEFINE gone == {p} \cup {d \in Rows("decision") : db[d].proposal = p}
  <2>2. Spares(gone)
    BY <2>1 DEF Spares, TableOf, Rows
  <2> HIDE DEF gone
  <2>3. Undecided(Drop(gone))
    BY <2>2, UndecidedDrop
  <2> QED
    BY <2>1, <2>3, StartsUndecided DEF gone
<1>7. CASE BatchReviewProposals(r)
  <2>1. PICK ps \in SUBSET {p \in Rows("proposal") : db[p].status = "PENDING"} : \E v :
          Begin(r, SetAll(ps, [status |-> StatusAfter(v)]), Done)
    BY <1>7 DEF BatchReviewProposals
  <2>3. PICK v : Begin(r, SetAll(ps, [status |-> StatusAfter(v)]), Done)
    BY <2>1
  <2>2. \A p \in ps : Light(p, [status |-> StatusAfter(v)])
    BY DEF Light
  <2> QED
    BY <2>2, <2>3, UndecidedSetAll, StartsUndecided
<1>8. CASE CreateDecision(r)
  <2>1. PICK p \in Rows("proposal"), v \in Verdicts :
          /\ db[p].status = "PENDING"
          /\ Begin(r, And(Set(p, [status |-> StatusAfter(v)]),
                          New([table |-> "decision", proposal |-> p, verdict |-> v])),
                   <<"decide", p, v, made + 1, db[p]>>)
    BY <1>8 DEF CreateDecision
  <2> QED
    BY <2>1, DecidesNow DEF StartsAgreeing
<1> QED
  BY <1>3, <1>4, <1>5, <1>6, <1>7, <1>8, <1>9 DEF ProposalRequest

LEMMA AndAllKeeps ==
  ASSUME NEW p, "insert" \in DOMAIN p, NEW rows, NEW x \in DOMAIN p.insert
  PROVE  x \in DOMAIN AndAll(p, rows).insert /\ AndAll(p, rows).insert[x] = p.insert[x]
<1> DEFINE order == CHOOSE f \in [Max({made} \cup DOMAIN p.insert) + 1
                                    .. Max({made} \cup DOMAIN p.insert) + Cardinality(rows) -> rows] :
                      Range(f) = rows
<1>1. AndAll(p, rows) = [p EXCEPT !.insert = Over(@, order)]
  BY DEF AndAll
<1> HIDE DEF order
<1> QED
  BY <1>1 DEF Over

LEMMA SetAllIs ==
  \A group, columns : SetAll(group, columns) =
    [insert |-> Nothing, update |-> [i \in group |-> columns], delete |-> {}]
BY DEF SetAll, NoPlan

LEMMA AndIs ==
  \A p, q : And(p, q) = [insert |-> Over(p.insert, q.insert), update |-> Over(p.update, q.update),
                         delete |-> p.delete \cup q.delete]
BY DEF And

\* What report on z, confirmations n and decision m make together.
Together(c, z, report, m, n) ==
  /\ "insert" \in DOMAIN c /\ c.delete = {}
  /\ DOMAIN c.insert = DOMAIN m.insert
  /\ \A i \in DOMAIN m.insert : c.insert[i] = m.insert[i]
  /\ DOMAIN c.update = {z} \cup DOMAIN n.update /\ c.update[z] = report
  /\ \A e \in DOMAIN n.update : c.update[e] = n.update[e]

LEMMA ReportIs ==
  ASSUME NEW z, NEW report, NEW m, m.delete = {}, DOMAIN m.update \subseteq {z},
         NEW n, n.insert = Nothing, z \notin DOMAIN n.update, n.delete = {}
  PROVE  Together(And(SetAll({z}, report), And(n, m)), z, report, m, n)
<1> DEFINE upd == [i \in {z} |-> report]
           s == SetAll({z}, report)
           t == And(n, m)
           both == And(s, t)
<1>1. s.insert = Nothing /\ s.update = upd /\ s.delete = {}
  BY SetAllIs
<1>2. /\ t.insert = Over(Nothing, m.insert) /\ t.update = Over(n.update, m.update)
      /\ t.delete = {} \cup m.delete
  BY AndIs
<1>3. DOMAIN upd = {z} /\ upd[z] = report
  OBVIOUS
<1> HIDE DEF upd, s, t
<1>4. /\ both.insert = Over(s.insert, t.insert) /\ both.update = Over(s.update, t.update)
      /\ both.delete = s.delete \cup t.delete /\ "insert" \in DOMAIN both
  BY AndIs
<1> HIDE DEF both
<1>5. both.delete = {}
  BY <1>1, <1>2, <1>4
<1>6. DOMAIN both.insert = DOMAIN m.insert
      /\ \A i \in DOMAIN m.insert : both.insert[i] = m.insert[i]
  BY <1>1, <1>2, <1>4 DEF Over, Nothing
<1>7. /\ DOMAIN both.update = {z} \cup DOMAIN n.update /\ both.update[z] = report
      /\ \A e \in DOMAIN n.update : both.update[e] = n.update[e]
  BY <1>1, <1>2, <1>3, <1>4 DEF Over
<1>8. both = And(SetAll({z}, report), And(n, m))
  BY DEF both, s, t
<1>9. Together(both, z, report, m, n)
  BY <1>4, <1>5, <1>6, <1>7 DEF Together
<1> QED
  BY <1>8, <1>9

\* What a decision confirms, with the proposal naming it.
LEMMA ConfirmsAll ==
  ASSUME NEW p, NEW q, NEW x, NEW found, NEW update, NEW report, NEW a,
         KeepsDecisions(db, p), q \in TableOf(db, "proposal") \ found, db[q].status = "PENDING",
         DOMAIN p.insert = {x}, p.insert[x].table = "decision", p.insert[x].proposal = q,
         p.insert[x].verdict = "accept",
         \A e \in found : DOMAIN update[e] = {"iri", "confirmed", "by"} /\ update[e].by = x,
         DOMAIN report = {"status", "content"}, report.status = "ACCEPTED",
         "confirmed" \in DOMAIN report.content, report.content.confirmed = found,
         DOMAIN a.update = {q} \cup found, a.update[q] = report,
         \A e \in found : a.update[e] = update[e],
         a.delete = {}, x \in DOMAIN a.insert, a.insert[x] = p.insert[x],
         \A i \in DOMAIN a.insert : i = x \/ a.insert[i].table = "audit"
  PROVE  KeepsDecisions(db, a)
<1>1. TableOf(a.insert, "decision") = {x} /\ TableOf(a.insert, "evidence") = {}
      /\ TableOf(a.insert, "proposal") = {}
  BY DEF TableOf
<1>2. \A y \in DOMAIN db : y <= x
  BY DEF KeepsDecisions, Decides, TableOf
<1>3. StatusAfter("accept") = "ACCEPTED"
  BY DEF StatusAfter
<1>4. Decides(db, a, x)
  BY <1>2, <1>3 DEF Decides
<1>5. ASSUME NEW e \in found PROVE Confirms(a, e)
  <2>1. a.update[e].by = x
    BY <1>5
  <2>2. q \in DOMAIN a.update /\ "content" \in DOMAIN a.update[q]
        /\ e \in a.update[q].content.confirmed
    BY <1>5
  <2> QED
    BY <1>1, <2>1, <2>2 DEF Confirms
<1>6. ASSUME NEW i \in DOMAIN a.update
      PROVE  /\ {"proposal", "verdict"} \cap DOMAIN a.update[i] = {}
             /\ {"status", "content"} \cap DOMAIN a.update[i] # {} /\ i \in TableOf(db, "proposal") =>
                  db[i].status = "PENDING"
             /\ "content" \in DOMAIN a.update[i] => "confirmed" \in DOMAIN a.update[i].content
             /\ "by" \in DOMAIN a.update[i] /\ a.update[i].by # None => Confirms(a, i)
  <2>1. CASE i = q
    BY <2>1
  <2>2. CASE i \in found
    <3>1. DOMAIN a.update[i] = {"iri", "confirmed", "by"}
      BY <2>2
    <3> QED
      BY <1>5, <2>2, <3>1
  <2> QED
    BY <1>6, <2>1, <2>2
<1> QED
  BY <1>1, <1>4, <1>6 DEF KeepsDecisions

LEMMA ProposalGoesOn ==
  ASSUME Base, AllTyped, Agreed(db), NEW r \in Requests, Uses("evidence"), ProposalStep(r),
         Agrees(db, session[r].plan, session[r].job)
  PROVE  GoesOnAgreeing(r)
<1> USE DEF Reviewing
<1> DEFINE job == session[r].job
           p == session[r].plan
<1>1. Good(r, p) /\ KeepsDecisions(db, p) /\ HalfDecided(db, p, job)
  BY DEF Base, Agrees
<1>2. \A plan, next : KeepsDecisions(db, plan) /\ HalfDecided(db, plan, next) => Agrees(db, plan, next)
  BY DEF Agrees, Uses, Publication
<1>3. \A plan : HalfDecided(db, plan, Done)
  <2>1. Done[1] = "commit"
    BY DEF Done
  <2> QED
    BY <2>1 DEF HalfDecided
<1>4. CASE DecisionFlushes(r)
  <2> DEFINE next == [job EXCEPT ![1] = "confirm"]
  <2>1. job[1] = "decide" /\ Flush(r, next)
    BY <1>4 DEF DecisionFlushes
  <2>2. next[2] = job[2] /\ next[3] = job[3] /\ next[4] = job[4] /\ next[5] = job[5]
    OBVIOUS
  <2> HIDE DEF next, job, p
  <2>3. HalfDecided(db, p, next)
    BY <1>1, <2>1, <2>2 DEF HalfDecided
  <2> QED
    BY <1>1, <1>2, <2>1, <2>3 DEF GoesOnAgreeing, p
<1>5. CASE DecisionConfirms(r)
  <2> DEFINE q == job[2]
             x == job[4]
             kept == job[5]
             found == Matched(kept)
             iri(e) == IF kept.content.iri = None THEN db[e].iri ELSE kept.content.iri
             update == [e \in found |-> [iri |-> iri(e), confirmed |-> TRUE, by |-> x]]
             confirmed == [NoPlan EXCEPT !.update = update]
             report == [status |-> "ACCEPTED", content |-> [kept.content EXCEPT !.confirmed = found]]
             changed == And(SetAll({q}, report), And(confirmed, p))
             noted == IF kept.project THEN found ELSE {}
             rows == {Confirmation(e) : e \in noted}
             a == AndAll(changed, rows)
  <2>1. /\ job[1] = "confirm"
        /\ (job[3] = "accept" /\ Continue(r, a, Done)) \/ Continue(r, p, Done)
    BY <1>5 DEF DecisionConfirms
  <2> SUFFICES ASSUME job[3] = "accept", Continue(r, a, Done) PROVE GoesOnAgreeing(r)
    BY <1>1, <1>2, <1>3, <2>1 DEF GoesOnAgreeing
  <2>2. /\ q \in TableOf(db, "proposal") /\ db[q].status = "PENDING" /\ kept = db[q]
        /\ p.delete = {} /\ DOMAIN p.insert = {x} /\ DOMAIN p.update \subseteq {q}
        /\ p.insert[x].table = "decision" /\ p.insert[x].proposal = q
        /\ p.insert[x].verdict = "accept"
    BY <1>1, <2>1 DEF HalfDecided
  <2>3. found \subseteq Rows("evidence")
    BY DEF Matched
  <2>4. q \notin found /\ found \subseteq 1 .. made /\ IsFiniteSet(found)
    BY <2>2, <2>3, RowsAreMade, RowsAreFinite DEF TableOf, Rows
  <2>5. "confirmed" \in DOMAIN kept.content
    BY <2>2 DEF Agreed, Decided
  <2>6. /\ DOMAIN report = {"status", "content"} /\ report.status = "ACCEPTED"
        /\ "confirmed" \in DOMAIN report.content /\ report.content.confirmed = found
    BY <2>5
  <2>7. /\ DOMAIN update = found
        /\ \A e \in found : DOMAIN update[e] = {"iri", "confirmed", "by"} /\ update[e].by = x
        /\ \A e \in found : Editable(update[e])
    BY DEF Editable
  <2> HIDE DEF update, report, found, p, job
  <2>8. confirmed = [insert |-> Nothing, update |-> update, delete |-> {}]
    BY DEF NoPlan
  <2> HIDE DEF confirmed
  <2>9. Good(r, changed)
    <3>1. q \in 1 .. made
      BY <2>2, RowsAreMade DEF TableOf
    <3>2. Good(r, SetAll({q}, report))
      BY <2>6, <3>1, GoodSetAll DEF Editable
    <3>3. Good(r, confirmed)
      BY <2>4, <2>7, <2>8 DEF Good, IsPlan, Nothing
    <3> QED
      BY <1>1, <3>2, <3>3, GoodAnd DEF p
  <2>10. IsFiniteSet(rows)
    <3> DEFINE g == [e \in noted |-> Confirmation(e)]
    <3>1. DOMAIN g = noted /\ rows = {g[e] : e \in DOMAIN g}
      OBVIOUS
    <3>2. IsFiniteSet(noted)
      BY <2>4, FS_EmptySet
    <3> HIDE DEF g, rows, noted
    <3> QED
      BY <3>1, <3>2, FiniteImage
  <2>11. \A row \in rows : HasTable(row) /\ row.table = "audit"
    BY EvidenceTables DEF Confirmation, HasTable
  <2>17. q \notin DOMAIN update
    BY <2>4, <2>7
  <2> HIDE DEF q, x, kept
  <2>12. /\ "insert" \in DOMAIN changed /\ changed.delete = {}
         /\ DOMAIN changed.insert = DOMAIN p.insert
         /\ \A i \in DOMAIN p.insert : changed.insert[i] = p.insert[i]
         /\ DOMAIN changed.update = {q} \cup DOMAIN update /\ changed.update[q] = report
         /\ \A e \in DOMAIN update : changed.update[e] = update[e]
    <3>1. p.delete = {} /\ DOMAIN p.update \subseteq {q}
      BY <2>2
    <3>2. changed = And(SetAll({q}, report), And(confirmed, p))
      OBVIOUS
    <3>3. confirmed.insert = Nothing /\ confirmed.update = update /\ confirmed.delete = {}
      BY <2>8
    <3> HIDE DEF changed, a, rows
    <3>4. q \notin DOMAIN confirmed.update
      BY <2>17, <3>3
    <3>5. Together(changed, q, report, p, confirmed)
      BY <3>1, <3>2, <3>3, <3>4, ReportIs
    <3> QED
      BY <3>3, <3>5 DEF Together
  <2> HIDE DEF changed, rows
  <2>13. /\ a.update = changed.update /\ a.delete = changed.delete
         /\ \A i \in DOMAIN a.insert :
              \/ i \in DOMAIN changed.insert /\ a.insert[i] = changed.insert[i]
              \/ i \notin 1 .. made /\ a.insert[i] \in rows
    BY <2>9, <2>10, <2>11, AndAllIs
  <2>14. \A i \in DOMAIN changed.insert : i \in DOMAIN a.insert /\ a.insert[i] = changed.insert[i]
    BY <2>12, AndAllKeeps
  <2> HIDE DEF a
  <2>15. KeepsDecisions(db, p)
    BY <1>1 DEF p
  <2>16. KeepsDecisions(db, a)
    <3>1. q \in TableOf(db, "proposal") \ found /\ db[q].status = "PENDING"
      BY <2>2, <2>4
    <3>2. /\ DOMAIN p.insert = {x} /\ p.insert[x].table = "decision"
          /\ p.insert[x].proposal = q /\ p.insert[x].verdict = "accept"
      BY <2>2
    <3>3. DOMAIN a.update = {q} \cup found /\ a.update[q] = report
          /\ \A e \in found : a.update[e] = update[e]
      BY <2>7, <2>12, <2>13
    <3>4. a.delete = {}
      BY <2>12, <2>13
    <3>5. x \in DOMAIN a.insert /\ a.insert[x] = p.insert[x]
      BY <2>12, <2>14, <3>2
    <3>6. \A i \in DOMAIN a.insert : i = x \/ a.insert[i].table = "audit"
      BY <2>11, <2>12, <2>13, <3>2
    <3>7. \A e \in found : DOMAIN update[e] = {"iri", "confirmed", "by"} /\ update[e].by = x
      BY <2>7
    <3> QED
      BY <2>6, <2>15, <3>1, <3>2, <3>3, <3>4, <3>5, <3>6, <3>7, ConfirmsAll
  <2> QED
    BY <1>2, <1>3, <2>16 DEF GoesOnAgreeing
<1> QED
  BY <1>4, <1>5 DEF ProposalStep

\* A connector decides nothing; the evidence that its snapshot makes is open.
LEMMA ConnectorPlans ==
  ASSUME Base, NEW r \in Requests, Uses("connectors"), ConnectorRequest(r)
  PROVE  StartsAgreeing(r)
<1> USE DEF Reviewing
<1>1. \A config, secret : Neutral(Connector(config, secret))
  BY DEF Neutral, Connector
<1>2. ASSUME NEW c, NEW columns, NEW after,
             {"proposal", "verdict", "content", "by"} \cap DOMAIN columns = {},
             c \in Live,
             BeginLocked(r, And(Set(c, columns), New(AuditEntry(c, after))), Done)
      PROVE  StartsAgreeing(r)
  <2>1. c \notin TableOf(db, "proposal")
    BY <1>2 DEF Live, Rows, TableOf
  <2>2. Light(c, columns)
    BY <1>2, <2>1 DEF Light
  <2>3. Undecided(Set(c, columns)) /\ IsPlan(Set(c, columns))
    BY <2>2, UndecidedSet, PlansOfOne
  <2> QED
    BY <1>2, <2>3, UndecidedEntry, StartsUndecided
<1>3. CASE CreateConnector(r)
  <2>1. PICK config, secret :
          BeginLocked(r, AndEntry(New(Connector(config, secret)), "create"), Done)
    BY <1>3 DEF CreateConnector
  <2> QED
    BY <1>1, <2>1, UndecidedNew, PlansOfOne, UndecidedEntry, StartsUndecided
<1>4. CASE UpdateConnector(r)
  <2>1. PICK c, config, secret, status :
          /\ c \in Live
          /\ BeginLocked(r, And(Set(c, [config |-> config, secret |-> secret, status |-> status]),
                                New(AuditEntry(c, "update"))), Done)
    BY <1>4 DEF UpdateConnector
  <2>2. {"proposal", "verdict", "content", "by"}
          \cap DOMAIN [config |-> config, secret |-> secret, status |-> status] = {}
    OBVIOUS
  <2> QED
    BY <1>2, <2>1, <2>2
<1>5. CASE DeleteConnector(r)
  <2>1. PICK c \in Live :
          BeginLocked(r, And(Set(c, [deleted |-> TRUE, status |-> "ARCHIVED"]),
                             New(AuditEntry(c, "delete"))), Done)
    BY <1>5 DEF DeleteConnector
  <2>2. {"proposal", "verdict", "content", "by"}
          \cap DOMAIN [deleted |-> TRUE, status |-> "ARCHIVED"] = {}
    OBVIOUS
  <2> QED
    BY <1>2, <2>1, <2>2
<1>6. CASE TestConnector(r)
  <2>1. PICK c, status :
          /\ c \in Live
          /\ BeginLocked(r, And(Set(c, [status |-> status]), New(AuditEntry(c, "test"))), Done)
    BY <1>6 DEF TestConnector
  <2>2. {"proposal", "verdict", "content", "by"} \cap DOMAIN [status |-> status] = {}
    OBVIOUS
  <2> QED
    BY <1>2, <2>1, <2>2
<1>7. CASE SnapshotConnector(r)
  <2>1. PICK c : BeginLocked(r, New(AuditEntry(c, "read")), Done)
    BY <1>7 DEF SnapshotConnector
  <2> QED
    BY <2>1, UndecidedRows, UndecidedNew, StartsUndecided
<1>8. CASE SnapshotToEvidence(r)
  <2>1. PICK fields \in SUBSET Fields, auto \in BOOLEAN :
          BeginLocked(r, AndNew(AndAll(New(Source({})),
                                       IF auto THEN {Evidence(made + 1, f) : f \in fields} ELSE {}),
                                AuditEntry(made + 1, "create")), Done)
    BY <1>8 DEF SnapshotToEvidence
  <2> DEFINE found == IF auto THEN {Evidence(made + 1, f) : f \in fields} ELSE {}
             p == New(Source({}))
             a == AndAll(p, found)
  <2>2. found \in {{}, {Evidence(made + 1, f) : f \in fields}} /\ {} \in SUBSET Fields
    OBVIOUS
  <2>3. \A row \in found : Neutral(row)
    BY UndecidedRows
  <2> HIDE DEF found
  <2>4. Good(r, p) /\ IsFiniteSet(found) /\ \A row \in found : HasTable(row)
    BY <2>2, ConnectorTables, FoundRows
  <2>5. Undecided(p)
    BY UndecidedRows, UndecidedNew
  <2> HIDE DEF p
  <2>6. Undecided(a) /\ IsPlan(a)
    BY <2>3, <2>4, <2>5, UndecidedAndAll, AndAllIs DEF Good
  <2> HIDE DEF a
  <2>7. Undecided(AndNew(a, AuditEntry(made + 1, "create")))
    BY <2>6, UndecidedEntry
  <2> QED
    BY <2>1, <2>7, StartsUndecided DEF a, found, p
<1> QED
  BY <1>3, <1>4, <1>5, <1>6, <1>7, <1>8 DEF ConnectorRequest

-----------------------------------------------------------------------------
(* Every step.                                                             *)

LEMMA RequestPlans ==
  ASSUME Base, AllTyped, Agreed(db), Covers, NEW r \in Requests,
         Request(r) \/ (Uses("releases") /\ ReleaseRequest(r))
  PROVE  StartsAgreeing(r)
<1>2. CASE Uses("releases") /\ ReleaseRequest(r)
  BY <1>2, ReleasePlans
<1>3. CASE Request(r)
  <2>1. CASE Publication /\ (ContentRequest(r) \/ VersionRequest(r))
    BY <2>1, OntologyPlans
  <2>2. CASE Uses("evidence") /\ (SourceRequest(r) \/ ProposalRequest(r))
    BY <2>2, SourcePlans, ProposalPlans
  <2>3. CASE Uses("connectors") /\ ConnectorRequest(r)
    BY <2>3, ConnectorPlans
  <2>4. ~Uses("members") /\ ~Uses("objects") /\ ~Uses("workspaces")
    BY DEF Covers, Publication, Reviewing, Uses
  <2> QED
    BY <1>3, <2>1, <2>2, <2>3, <2>4 DEF Request, Publication
<1> QED
  BY <1>2, <1>3

LEMMA StepPlans ==
  ASSUME Base, AllTyped, Agreed(db), Covers, NEW r \in Requests,
         Agrees(db, session[r].plan, session[r].job),
         Step(r) \/ (Uses("releases") /\ ReleaseStep(r))
  PROVE  GoesOnAgreeing(r)
<1>1. ~Uses("members") /\ ~Uses("objects") /\ ~Uses("workspaces")
  BY DEF Covers, Publication, Reviewing, Uses
<1>2. CASE Uses("releases") /\ ReleaseStep(r)
  BY <1>2, ReleaseGoesOn
<1>3. CASE Publication /\ OntologyStep(r)
  BY <1>3, OntologyGoesOn
<1>4. CASE Uses("evidence") /\ ProposalStep(r)
  BY <1>4, ProposalGoesOn
<1> QED
  BY <1>1, <1>2, <1>3, <1>4 DEF Step, Publication

\* A request that starts, when no other is open or it does not matter.
LEMMA StartAgrees ==
  ASSUME Base, OneByOne, NEW r \in Requests, CanOpen(r), NEW plan, NEW job, NEW lock,
         Open(r, plan, job, lock), ~overlap /\ Covers => Agrees(db, plan, job)
  PROVE  OneByOne'
<1>1. /\ session'[r] = [open |-> TRUE, plan |-> plan, job |-> job]
      /\ \A q \in Requests \ {r} : session'[q] = session[q]
      /\ db' = db /\ scenario' = scenario
  BY OpenedAs
<1>2. session'[r].plan = plan /\ session'[r].job = job
  BY <1>1
<1>3. ~overlap => \A q \in Requests \ {r} : ~session[q].open
  BY DEF CanOpen
<1> QED
  BY <1>1, <1>2, <1>3, PlanAgrees

LEMMA GoOnAgrees ==
  ASSUME Base, OneByOne, NEW r \in Requests, session[r].open, NEW plan, NEW job,
         Continue(r, plan, job) \/ (Flush(r, job) /\ plan = session[r].plan),
         ~overlap /\ Covers => Agrees(db, plan, job)
  PROVE  OneByOne'
<1>1. /\ session'[r] = [open |-> TRUE, plan |-> plan, job |-> job]
      /\ \A q \in Requests \ {r} : session'[q] = session[q]
      /\ db' = db /\ scenario' = scenario
  BY ContinuedAs, FlushKeeps
<1>2. session'[r].plan = plan /\ session'[r].job = job
  BY <1>1
<1>3. overlap' = overlap /\ Covers' = Covers
  BY <1>1, AgreesSame
<1> SUFFICES ASSUME ~overlap, Covers PROVE OneByOne'
  BY <1>3 DEF OneByOne
<1>4. \A q \in Requests \ {r} : ~session[q].open
  BY DEF OneByOne
<1> QED
  BY <1>1, <1>2, <1>4, PlanAgrees

LEMMA OneByOneStep ==
  ASSUME Base, Deciding, AllTyped, OneByOne, [Next]_vars
  PROVE  OneByOne'
<1>1. scenario' = scenario
  BY BaseStep
<1>2. overlap' = overlap /\ Covers' = Covers
  <2>1. \A group : Uses(group)' = Uses(group)
    BY <1>1 DEF Uses
  <2> QED
    BY <1>1, <2>1 DEF overlap, Covers, Publication, Reviewing
<1> SUFFICES ASSUME ~overlap, Covers PROVE OneByOne'
  BY <1>2 DEF OneByOne
<1>3. /\ Agreed(db)
      /\ \A r \in Requests : session[r].open => Agrees(db, session[r].plan, session[r].job)
  BY DEF OneByOne
<1>4. CASE UNCHANGED dbVars
  <2>1. db' = db /\ session' = session
    BY <1>4 DEF dbVars
  <2> QED
    BY <1>1, <2>1, DropAgrees
<1>5. ASSUME NEW r \in Requests, CanOpen(r),
             Request(r) \/ (Uses("releases") /\ ReleaseRequest(r))
      PROVE  OneByOne'
  <2>1. StartsAgreeing(r)
    BY <1>3, <1>5, RequestPlans
  <2>2. PICK plan, job : (Begin(r, plan, job) \/ BeginLocked(r, plan, job)) /\ Agrees(db, plan, job)
    BY <2>1 DEF StartsAgreeing
  <2>3. PICK lock : Open(r, plan, job, lock)
    BY <2>2 DEF Begin, BeginLocked
  <2> QED
    BY <1>5, <2>2, <2>3, StartAgrees
<1>6. ASSUME NEW r \in Requests, session[r].open,
             Step(r) \/ (Uses("releases") /\ ReleaseStep(r))
      PROVE  OneByOne'
  <2>1. GoesOnAgreeing(r)
    BY <1>3, <1>6, StepPlans
  <2>2. CASE \E plan, job : Continue(r, plan, job) /\ Agrees(db, plan, job)
    BY <1>6, <2>2, GoOnAgrees
  <2>3. CASE \E job : Flush(r, job) /\ Agrees(db, session[r].plan, job)
    BY <1>6, <2>3, GoOnAgrees
  <2> QED
    BY <2>1, <2>2, <2>3 DEF GoesOnAgreeing
<1>7. ASSUME NEW r \in Requests, Commit(r) PROVE OneByOne'
  BY <1>7, CommitAgrees
<1>8. ASSUME NEW r \in Requests, Rollback(r) PROVE OneByOne'
  <2>1. db' = db /\ \A q \in Requests : session'[q] \in {session[q], Closed}
    BY <1>8, RollbackKeeps
  <2> QED
    BY <1>1, <2>1, DropAgrees
<1>9. ASSUME NEW r \in Requests, ReleaseStep(r) PROVE session[r].open
  <2>1. Closed.job[1] = "commit"
    BY DEF Closed, Done
  <2>2. session[r].job[1] \in {"announce", "test"}
    BY <1>9 DEF ReleaseStep, FlushAndAnnounce, TestReturns
  <2> QED
    BY <2>1, <2>2 DEF Base, IsSession
<1>10. CASE ServerStops
  <2>1. db' = db /\ \A q \in Requests : session'[q] \in {session[q], Closed}
    BY <1>10, StopKeeps DEF ServerStops
  <2> QED
    BY <1>1, <2>1, DropAgrees
<1>11. DispatchStep => UNCHANGED dbVars
  BY DEF DispatchStep, DispatchReads, DispatchRecords, DispatchFails, Deliver
<1>12. UNCHANGED vars => UNCHANGED dbVars
  BY DEF vars
<1> QED
  BY <1>4, <1>5, <1>6, <1>7, <1>8, <1>9, <1>10, <1>11, <1>12 DEF Next

\* While requests do not overlap, each finds the database as the one before left
\* it, and leaves it so for the next.
THEOREM RequestsAgree == Spec /\ Agreed(db) => [](Base /\ AllTyped /\ OneByOne)
<1>1. Init /\ Agreed(db) => OneByOne
  <2> SUFFICES ASSUME Init, Agreed(db) PROVE OneByOne
    OBVIOUS
  <2>1. session = [r \in Requests |-> Closed]
    BY DEF Init, InitDatabase
  <2>2. \A r \in Requests : ~session[r].open
    BY <2>1 DEF Closed
  <2> QED
    BY <2>2 DEF OneByOne
<1>2. Base /\ Deciding /\ AllTyped /\ OneByOne /\ [Next]_vars => OneByOne'
  BY OneByOneStep
<1>3. Spec => [](Base /\ Deciding)
  BY Plans
<1>4. Spec => []AllTyped
  BY RowsKeepTypes, PTL
<1> QED
  BY <1>1, <1>2, <1>3, <1>4, PTL DEF Spec

\* While no two requests overlap, the checksum of a published release was computed
\* over the texts it is published with.
THEOREM PublishedAsChecked == Spec /\ Agreed(db) => []ReleasedMatchesChecksum
<1>1. Base /\ OneByOne => ReleasedMatchesChecksum
  <2> SUFFICES ASSUME Base, OneByOne, ~overlap, NEW i \in Rows("release"), db[i].status = "RELEASED"
               PROVE  db[i].checksum[1] = db[i].text
    BY DEF ReleasedMatchesChecksum
  <2>1. i \in DOMAIN db /\ db[i].table = "release" /\ "release" \in Tables(scenario.uses)
    BY DEF Base, Rows, HasTable
  <2>2. Uses("releases")
    BY <2>1 DEF Tables, Content, Uses
  <2>3. Matches(db[i])
    BY <2>1, <2>2 DEF OneByOne, Covers, Agreed
  <2> QED
    BY <2>1, <2>3 DEF Matches
<1> QED
  BY <1>1, RequestsAgree, PTL

\* While no two requests overlap, what a property or constraint is attached to is a
\* class or property of the same ontology that exists.
THEOREM NothingDangles == Spec /\ Agreed(db) => []NoDanglingLinks
<1>1. Base /\ OneByOne => NoDanglingLinks
  <2> SUFFICES ASSUME Base, OneByOne, ~overlap, NEW i \in DOMAIN db,
                      db[i].table \in Content, db[i].link # None
               PROVE  db[i].link \in Elements(db[i].onto)
    BY DEF NoDanglingLinks
  <2>1. db[i].table \in Tables(scenario.uses)
    BY DEF Base, HasTable
  <2>2. Publication
    BY <2>1 DEF Tables, Content, Publication, Uses
  <2>3. LinkFits(db, db[i])
    BY <2>2 DEF OneByOne, Covers, Agreed, Linked, IsLinked
  <2>4. db[i].link \in DOMAIN db /\ db[db[i].link].onto = db[i].onto
        /\ db[db[i].link].table \in {"class", "property"}
    BY <2>3 DEF LinkFits
  <2> QED
    BY <2>4 DEF Elements, Of, Rows, Content
<1> QED
  BY <1>1, RequestsAgree, PTL

\* With one client at a time a decision stands: its proposal has the status it gave,
\* no other follows it, and what it confirmed is traced both ways.
THEOREM DecisionsAreFinal == Spec /\ Agreed(db) => []DecisionsStand
<1>1. Base /\ OneByOne => DecisionsStand
  <2> SUFFICES ASSUME Base, OneByOne, ~overlap PROVE DecisionsStand
    BY DEF DecisionsStand
  <2>1. ASSUME NEW i \in Rows("decision") \cup Rows("evidence") PROVE Reviewing
    <3>1. db[i].table \in {"decision", "evidence"} /\ db[i].table \in Tables(scenario.uses)
      BY DEF Base, Rows, HasTable
    <3> QED
      BY <3>1 DEF Tables, Content, Reviewing, Uses
  <2>2. CASE Reviewing
    <3>1. Decided(db)
      BY <2>2 DEF OneByOne, Covers, Agreed
    <3>2. \A table : TableOf(db, table) = Rows(table)
      BY DEF TableOf, Rows
    <3> QED
      BY <3>1, <3>2 DEF Decided, DecisionsStand, TableOf
  <2>3. CASE ~Reviewing
    BY <2>1, <2>3 DEF DecisionsStand
  <2> QED
    BY <2>2, <2>3
<1> QED
  BY <1>1, RequestsAgree, PTL

-----------------------------------------------------------------------------
(* Forks, however requests overlap.  A fork holds the writer lock since    *)
(* before it has read the source until it commits: nobody else commits in  *)
(* between, so what it copied in two steps is one state, and still the one *)
(* that is there.                                                          *)

ElementsOf(d) == {i \in DOMAIN d : d[i].table \in Content}
ElementsIn(d, o, tables) == {i \in DOMAIN d : d[i].table \in tables /\ d[i].onto = o}

\* The ontologies that elements belong to.
Homes(d) == {d[i].onto : i \in ElementsOf(d)}

\* The elements that plan p inserts are those of o, from these tables, for the
\* ontology fork.
Replicates(d, p, o, fork, tables) ==
  {p.insert[i] : i \in ElementsOf(p.insert)}
    = {Forked(d[i], fork, p.insert[fork].ns) : i \in ElementsIn(d, o, tables)}

Snapped(d, o, tables) == {Entry(d[i]) : i \in ElementsIn(d, o, tables)}

\* Version v is inserted together with its ontology.
IsFork(p, v) == v \in TableOf(p.insert, "version") /\ p.insert[v].onto \in DOMAIN p.insert

\* How far a fork has come, by what is to be done next.
HalfCopied(d, p, job) ==
  /\ job[1] \in {"publish", "publish rest"} => DOMAIN p.insert = {} /\ job[2] \in 1 .. made
  /\ job[1] \in {"fork", "copy", "copy rest"} =>
       /\ job[3] \in DOMAIN p.insert /\ p.insert[job[3]].table = "ontology"
       /\ TableOf(p.insert, "version") = {} /\ {1, 3} \subseteq DOMAIN job
  /\ job[1] \in {"fork", "copy"} => ElementsOf(p.insert) = {}
  /\ job[1] = "copy rest" =>
       Replicates(d, p, job[2], job[3], {"class"}) /\ job[4] = Snapped(d, job[2], {"class"})

Whole(d, p, v) ==
  /\ Replicates(d, p, p.insert[v].base, p.insert[v].onto, Content)
  /\ p.insert[v].snapshot = Snapped(d, p.insert[v].base, Content)

Copying(d, p, job) ==
  /\ \A i \in DOMAIN p.update : "onto" \notin DOMAIN p.update[i]
  /\ HalfCopied(d, p, job)
  /\ \A v \in DOMAIN p.insert : IsFork(p, v) => Whole(d, p, v)

Locks(p, job) == job[1] \in {"copy", "copy rest"} \/ \E v \in DOMAIN p.insert : IsFork(p, v)

Placed(d) == Homes(d) \subseteq 1 .. made

Forks ==
  /\ Placed(db)
  /\ \A r \in Requests :
       LET plan == session[r].plan
       IN /\ Placed(plan.insert)
          /\ Copying(db, plan, session[r].job)
          /\ Locks(plan, session[r].job) => writer = r
          /\ Homes(db) \cap DOMAIN plan.insert = {}
          /\ \A q \in Requests \ {r} : Homes(session[q].plan.insert) \cap DOMAIN plan.insert = {}

\* What is said of a database and a plan stays true of them.
LEMMA StillCopying ==
  ASSUME made \in Nat, made' \in Nat, made <= made', NEW d, NEW p, NEW job
  PROVE  /\ Placed(d) => Placed(d)'
         /\ Copying(d, p, job) => Copying(d, p, job)'
<1>1. 1 .. made \subseteq 1 .. made'
  OBVIOUS
<1>2. Placed(d) => Placed(d)'
  BY <1>1 DEF Placed, Homes, ElementsOf
<1>3. /\ \A o, fork, tables : Replicates(d, p, o, fork, tables)' <=> Replicates(d, p, o, fork, tables)
      /\ \A o, tables : Snapped(d, o, tables)' = Snapped(d, o, tables)
  BY DEF Replicates, Snapped, ElementsOf, ElementsIn, Forked, Entry, ForkIri
<1>4. \A v : (Whole(d, p, v)' <=> Whole(d, p, v)) /\ (IsFork(p, v)' <=> IsFork(p, v))
  BY <1>3 DEF Whole, IsFork, TableOf
<1>5. HalfCopied(d, p, job) => HalfCopied(d, p, job)'
  BY <1>1, <1>3 DEF HalfCopied, TableOf, ElementsOf
<1> QED
  BY <1>2, <1>4, <1>5 DEF Copying

LEMMA NothingCopied ==
  ASSUME NEW d
  PROVE  /\ Placed(NoPlan.insert) /\ Copying(d, NoPlan, Done) /\ ~Locks(NoPlan, Done)
         /\ DOMAIN NoPlan.insert = {} /\ Homes(NoPlan.insert) = {}
<1>1. DOMAIN NoPlan.insert = {} /\ DOMAIN NoPlan.update = {}
  BY DEF NoPlan, Nothing
<1>2. ElementsOf(NoPlan.insert) = {} /\ Homes(NoPlan.insert) = {}
  BY <1>1 DEF ElementsOf, Homes
<1>3. Done[1] = "commit"
  BY DEF Done
<1>4. \A v : ~IsFork(NoPlan, v)
  BY <1>1 DEF IsFork
<1>5. Copying(d, NoPlan, Done)
  BY <1>1, <1>3, <1>4 DEF Copying, HalfCopied
<1> QED
  BY <1>1, <1>2, <1>3, <1>4, <1>5 DEF Placed, Locks

\* A plan that request r may come to: its new elements belong to what is there or
\* to what it inserts already, and its new rows are new.
Fetches(r, plan, job) ==
  LET old == session[r].plan
  IN /\ Homes(plan.insert) \subseteq DOMAIN db \cup DOMAIN old.insert
     /\ \A i \in DOMAIN plan.insert : i \in DOMAIN old.insert \/ i \notin 1 .. made
     /\ Copying(db, plan, job)

LEMMA PlanForks ==
  ASSUME Base, Forks, NEW r \in Requests, NEW plan, NEW job, Fetches(r, plan, job),
         session'[r].plan = plan, session'[r].job = job,
         \A q \in Requests \ {r} : session'[q] = session[q] /\ (writer = q => writer' = q),
         Locks(plan, job) => writer' = r,
         db' = db, made' \in Nat, made <= made'
  PROVE  Forks'
<1> DEFINE old == session[r].plan
<1>1. made \in Nat /\ DOMAIN db \subseteq 1 .. made /\ DOMAIN old.insert \subseteq 1 .. made
  BY DEF Base
<1>2. /\ Homes(plan.insert) \subseteq DOMAIN db \cup DOMAIN old.insert
      /\ \A i \in DOMAIN plan.insert : i \in DOMAIN old.insert \/ i \notin 1 .. made
      /\ Copying(db, plan, job)
  BY DEF Fetches
<1>3. Placed(plan.insert)
  BY <1>1, <1>2 DEF Placed
<1>4. /\ Placed(db) /\ Homes(db) \cap DOMAIN old.insert = {}
      /\ \A q \in Requests \ {r} :
           /\ Placed(session[q].plan.insert)
           /\ Homes(session[q].plan.insert) \cap DOMAIN old.insert = {}
           /\ Homes(old.insert) \cap DOMAIN session[q].plan.insert = {}
  BY DEF Forks
<1>5. Homes(db) \cap DOMAIN plan.insert = {}
  BY <1>2, <1>4 DEF Placed
<1>6. \A q \in Requests \ {r} : Homes(session[q].plan.insert) \cap DOMAIN plan.insert = {}
  BY <1>2, <1>4 DEF Placed
<1>7. \A q \in Requests \ {r} : Homes(plan.insert) \cap DOMAIN session[q].plan.insert = {}
  <2> SUFFICES ASSUME NEW q \in Requests \ {r}, NEW i \in DOMAIN session[q].plan.insert
               PROVE  i \notin Homes(plan.insert)
    OBVIOUS
  <2>1. i \notin DOMAIN db /\ i \notin DOMAIN old.insert
    BY DEF Base, Good, Fresh
  <2> QED
    BY <1>2, <2>1
<1> HIDE DEF old
<1>8. /\ Homes(db)' = Homes(db)
      /\ \A q \in Requests : Homes(session[q].plan.insert)' =
           IF q = r THEN Homes(plan.insert) ELSE Homes(session[q].plan.insert)
      /\ \A q \in Requests : Locks(session[q].plan, session[q].job)' <=>
           IF q = r THEN Locks(plan, job) ELSE Locks(session[q].plan, session[q].job)
  BY DEF Homes, ElementsOf, Locks, IsFork, TableOf
<1>9. Placed(db)'
  <2>1. \A d : d = db => Placed(d)'
    BY <1>1, <1>4, StillCopying
  <2> QED
    BY <2>1
<1>10. ASSUME NEW q \in Requests
       PROVE  (LET p == session[q].plan
               IN /\ Placed(p.insert)
                  /\ Copying(db, p, session[q].job)
                  /\ Locks(p, session[q].job) => writer = q
                  /\ Homes(db) \cap DOMAIN p.insert = {}
                  /\ \A s \in Requests \ {q} : Homes(session[s].plan.insert) \cap DOMAIN p.insert = {})'
  <2>1. CASE q = r
    <3>1. Placed(plan.insert)' /\ Copying(db, plan, job)'
      BY <1>1, <1>2, <1>3, StillCopying
    <3> QED
      BY <1>5, <1>6, <1>8, <2>1, <3>1
  <2>2. CASE q # r
    <3> DEFINE s == session[q]
    <3>1. /\ session'[q] = s /\ Placed(s.plan.insert) /\ Copying(db, s.plan, s.job)
          /\ Locks(s.plan, s.job) => writer = q
          /\ Homes(db) \cap DOMAIN s.plan.insert = {}
          /\ \A t \in Requests \ {q} : Homes(session[t].plan.insert) \cap DOMAIN s.plan.insert = {}
      BY <2>2 DEF Forks
    <3>2. Placed(s.plan.insert)' /\ Copying(db, s.plan, s.job)'
      BY <1>1, <3>1, StillCopying
    <3> QED
      BY <1>7, <1>8, <2>2, <3>1, <3>2
  <2> QED
    BY <2>1, <2>2
<1> QED
  BY <1>9, <1>10 DEF Forks

\* Requests end without a commit, or do nothing.
LEMMA DropForks ==
  ASSUME Base, Forks, db' = db, made' = made,
         \A q \in Requests :
           \/ session'[q] = Closed
           \/ session'[q] = session[q] /\ (writer = q => writer' = q)
  PROVE  Forks'
<1>1. Closed.plan = NoPlan /\ Closed.job = Done
  BY DEF Closed
<1>2. made \in Nat /\ made' \in Nat /\ made <= made'
  BY DEF Base
<1>3. /\ Homes(db)' = Homes(db) /\ Homes(NoPlan.insert) = {} /\ DOMAIN NoPlan.insert = {}
      /\ \A q \in Requests : Homes(session[q].plan.insert)' = Homes(session'[q].plan.insert)
      /\ \A q \in Requests : Locks(session[q].plan, session[q].job)' <=>
                               Locks(session'[q].plan, session'[q].job)
  BY NothingCopied DEF Homes, ElementsOf, Locks, IsFork, TableOf
<1>4. Placed(db)'
  <2>1. \A d : d = db /\ Placed(d) => Placed(d)'
    BY <1>2, StillCopying
  <2> QED
    BY <2>1 DEF Forks
<1>5. \A q \in Requests : Homes(session'[q].plan.insert) \subseteq Homes(session[q].plan.insert)
  BY <1>1, <1>3
<1>6. ASSUME NEW q \in Requests
      PROVE  (LET p == session[q].plan
              IN /\ Placed(p.insert)
                 /\ Copying(db, p, session[q].job)
                 /\ Locks(p, session[q].job) => writer = q
                 /\ Homes(db) \cap DOMAIN p.insert = {}
                 /\ \A s \in Requests \ {q} : Homes(session[s].plan.insert) \cap DOMAIN p.insert = {})'
  <2>1. CASE session'[q] = Closed
    <3>1. Placed(NoPlan.insert)' /\ Copying(db, NoPlan, Done)' /\ ~Locks(NoPlan, Done)
      BY <1>2, NothingCopied, StillCopying
    <3> QED
      BY <1>1, <1>3, <2>1, <3>1
  <2>2. CASE session'[q] = session[q] /\ (writer = q => writer' = q)
    <3> DEFINE s == session[q]
    <3>1. /\ session'[q] = s /\ Placed(s.plan.insert) /\ Copying(db, s.plan, s.job)
          /\ Locks(s.plan, s.job) => writer = q
          /\ Homes(db) \cap DOMAIN s.plan.insert = {}
          /\ \A t \in Requests \ {q} : Homes(session[t].plan.insert) \cap DOMAIN s.plan.insert = {}
      BY <2>2 DEF Forks
    <3>2. Placed(s.plan.insert)' /\ Copying(db, s.plan, s.job)'
      BY <1>2, <3>1, StillCopying
    <3> QED
      BY <1>3, <1>5, <2>2, <3>1, <3>2
  <2> QED
    BY <2>1, <2>2
<1> QED
  BY <1>4, <1>6 DEF Forks

\* The elements after a commit, and what they belong to.
LEMMA ElementsAfter ==
  ASSUME Base, AllTyped, Forks, NEW r \in Requests, NEW p, p = session[r].plan,
         NEW d, d = Written(p), NEW i \in ElementsOf(d)
  PROVE  \/ i \in ElementsOf(p.insert) /\ d[i] = p.insert[i]
         \/ i \in ElementsOf(db) /\ i \notin DOMAIN p.insert /\ d[i].onto = db[i].onto
<1>1. i \in DOMAIN d /\ d[i].table \in Content
  BY DEF ElementsOf
<1>2. CASE i \in DOMAIN p.insert
  <2>1. d[i] = p.insert[i]
    BY <1>2, NewThere
  <2> QED
    BY <1>1, <1>2, <2>1 DEF ElementsOf
<1>3. CASE i \notin DOMAIN p.insert
  <2>1. /\ i \in DOMAIN db /\ d[i].table = db[i].table
        /\ \A c \in Columns(db[i].table) :
              d[i][c] = IF i \in DOMAIN p.update /\ c \in DOMAIN p.update[i]
                        THEN p.update[i][c] ELSE db[i][c]
    BY <1>1, <1>3, StillThere
  <2>2. db[i].table \in Content /\ "onto" \in Columns(db[i].table)
    BY <1>1, <2>1, OntologyColumns
  <2>3. i \in DOMAIN p.update => "onto" \notin DOMAIN p.update[i]
    BY DEF Forks, Copying
  <2>4. d[i].onto = db[i].onto
    BY <2>1, <2>2, <2>3
  <2> QED
    BY <1>3, <2>1, <2>2, <2>4 DEF ElementsOf
<1> QED
  BY <1>2, <1>3

\* What does not depend on the database, of a request that holds no lock.
LEMMA UnlockedCopying ==
  ASSUME NEW c, NEW d, NEW p, NEW job, Copying(c, p, job), ~Locks(p, job)
  PROVE  Copying(d, p, job)
BY DEF Copying, HalfCopied, Locks

LEMMA CommitForks ==
  ASSUME Base, AllTyped, Forks, NEW r \in Requests, Commit(r)
  PROVE  Forks'
<1> DEFINE p == session[r].plan
           d == Written(p)
<1>1. /\ made' = made /\ db' = d /\ writer \in {None, r} /\ session'[r] = Closed
      /\ \A q \in Requests \ {r} : session'[q] = session[q]
  BY CommitKeeps
<1>2. made \in Nat /\ made' \in Nat /\ made <= made'
  BY <1>1 DEF Base
<1>3. Closed.plan = NoPlan /\ Closed.job = Done
  BY DEF Closed
<1>4. Homes(d) \subseteq Homes(db) \cup Homes(p.insert)
  <2> SUFFICES ASSUME NEW i \in ElementsOf(d) PROVE d[i].onto \in Homes(db) \cup Homes(p.insert)
    BY DEF Homes
  <2> HIDE DEF d, p
  <2>1. \/ i \in ElementsOf(p.insert) /\ d[i] = p.insert[i]
        \/ i \in ElementsOf(db) /\ i \notin DOMAIN p.insert /\ d[i].onto = db[i].onto
    BY ElementsAfter DEF d, p
  <2> QED
    BY <2>1 DEF Homes
<1>5. Placed(d)
  BY <1>4 DEF Forks, Placed
<1> HIDE DEF d
<1>6. /\ Homes(db)' = Homes(d) /\ Homes(NoPlan.insert) = {} /\ DOMAIN NoPlan.insert = {}
      /\ \A q \in Requests : Homes(session[q].plan.insert)' = Homes(session'[q].plan.insert)
      /\ \A q \in Requests : Locks(session[q].plan, session[q].job)' <=>
                               Locks(session'[q].plan, session'[q].job)
  BY <1>1, NothingCopied DEF Homes, ElementsOf, Locks, IsFork, TableOf
<1>7. Placed(db)'
  BY <1>1, <1>2, <1>5, StillCopying
<1>8. \A q \in Requests : Homes(session'[q].plan.insert) \subseteq Homes(session[q].plan.insert)
  BY <1>1, <1>3, <1>6
<1>9. ASSUME NEW q \in Requests
      PROVE  (LET s == session[q].plan
              IN /\ Placed(s.insert)
                 /\ Copying(db, s, session[q].job)
                 /\ Locks(s, session[q].job) => writer = q
                 /\ Homes(db) \cap DOMAIN s.insert = {}
                 /\ \A t \in Requests \ {q} : Homes(session[t].plan.insert) \cap DOMAIN s.insert = {})'
  <2>1. CASE q = r
    <3>1. /\ \A c : Placed(NoPlan.insert)' /\ Copying(c, NoPlan, Done)'
          /\ ~Locks(NoPlan, Done)
      BY <1>2, NothingCopied, StillCopying
    <3> QED
      BY <1>1, <1>3, <1>6, <2>1, <3>1
  <2>2. CASE q # r
    <3> DEFINE s == session[q]
    <3>1. /\ session'[q] = s /\ Placed(s.plan.insert) /\ Copying(db, s.plan, s.job)
          /\ Locks(s.plan, s.job) => writer = q
          /\ Homes(db) \cap DOMAIN s.plan.insert = {}
          /\ \A t \in Requests \ {q} : Homes(session[t].plan.insert) \cap DOMAIN s.plan.insert = {}
      BY <1>1, <2>2 DEF Forks
    <3>2. ~Locks(s.plan, s.job)
      BY <1>1, <2>2, <3>1, NoneIsNoRequest
    <3>3. Copying(d, s.plan, s.job)
      BY <3>1, <3>2, UnlockedCopying
    <3>4. \A c, x, y : c = d /\ x = s.plan /\ y = s.job => Placed(x.insert)' /\ Copying(c, x, y)'
      BY <1>2, <3>1, <3>3, StillCopying
    <3>5. Homes(d) \cap DOMAIN s.plan.insert = {}
      BY <1>4, <2>2, <3>1
    <3> QED
      BY <1>1, <1>6, <1>8, <2>2, <3>1, <3>2, <3>4, <3>5
  <2> QED
    BY <2>1, <2>2
<1> QED
  BY <1>7, <1>9 DEF Forks

\* What a commit stores of a fork is a copy of what is there.
LEMMA WholeForks ==
  ASSUME Base, AllTyped, Forks, NEW r \in Requests, Commit(r)
  PROVE  \A v \in DOMAIN db' \ DOMAIN db :
           db'[v].table = "version" /\ db'[v].onto \in DOMAIN db' \ DOMAIN db
           => LET src == Elements(db'[v].base)
                  fork == db'[v].onto
                  ns == db'[fork].ns
                  copied == {i \in DOMAIN db' : db'[i].table \in Content /\ db'[i].onto = fork}
              IN /\ {db'[i] : i \in copied} = {Forked(db[i], fork, ns) : i \in src}
                 /\ db'[v].snapshot = Snapshot(src)
<1> DEFINE p == session[r].plan
           d == Written(p)
<1>1. db' = d
  BY CommitKeeps
<1> SUFFICES ASSUME NEW v \in DOMAIN d \ DOMAIN db, d[v].table = "version",
                    d[v].onto \in DOMAIN d \ DOMAIN db
             PROVE  LET src == Elements(d[v].base)
                        fork == d[v].onto
                        ns == d[fork].ns
                        copied == {i \in DOMAIN d : d[i].table \in Content /\ d[i].onto = fork}
                    IN /\ {d[i] : i \in copied} = {Forked(db[i], fork, ns) : i \in src}
                       /\ d[v].snapshot = Snapshot(src)
  BY <1>1
<1> DEFINE fork == d[v].onto
           src == ElementsIn(db, d[v].base, Content)
           copied == {i \in DOMAIN d : d[i].table \in Content /\ d[i].onto = fork}
<1>2. /\ v \in DOMAIN p.insert /\ fork \in DOMAIN p.insert
      /\ d[v] = p.insert[v] /\ d[fork] = p.insert[fork]
  <2>1. \A i \in DOMAIN d \ DOMAIN db : i \in DOMAIN p.insert
    BY WrittenAs
  <2> QED
    BY <2>1, NewThere
<1>3. Whole(db, p, v)
  BY <1>2 DEF Forks, Copying, IsFork, TableOf
<1> HIDE DEF p
<1>4. /\ {p.insert[i] : i \in ElementsOf(p.insert)} = {Forked(db[i], fork, d[fork].ns) : i \in src}
      /\ d[v].snapshot = {Entry(db[i]) : i \in src}
  BY <1>2, <1>3 DEF Whole, Replicates, Snapped
<1>5. \A i \in ElementsOf(p.insert) : p.insert[i].onto = fork
  <2> SUFFICES ASSUME NEW i \in ElementsOf(p.insert) PROVE p.insert[i].onto = fork
    OBVIOUS
  <2>1. PICK j \in src : p.insert[i] = Forked(db[j], fork, d[fork].ns)
    BY <1>4
  <2>2. "onto" \in DOMAIN db[j]
    <3>1. Typed(db[j]) /\ db[j].table \in Content
      BY <2>1 DEF ElementsIn, AllTyped
    <3> QED
      BY <3>1, OntologyColumns DEF Typed
  <2> HIDE DEF fork, d
  <2> QED
    BY <2>1, <2>2 DEF Forked
<1>6. Homes(db) \cap DOMAIN p.insert = {}
  BY DEF Forks, p
<1>7. \A i \in copied : i \in ElementsOf(p.insert) /\ d[i] = p.insert[i]
  <2> SUFFICES ASSUME NEW i \in copied PROVE i \in ElementsOf(p.insert) /\ d[i] = p.insert[i]
    OBVIOUS
  <2>1. i \in ElementsOf(d) /\ d[i].onto = fork
    BY DEF ElementsOf
  <2> HIDE DEF d, fork
  <2>2. \/ i \in ElementsOf(p.insert) /\ d[i] = p.insert[i]
        \/ i \in ElementsOf(db) /\ i \notin DOMAIN p.insert /\ d[i].onto = db[i].onto
    BY <2>1, ElementsAfter DEF d, p
  <2> QED
    BY <1>2, <1>6, <2>1, <2>2 DEF Homes
<1>8. \A i \in ElementsOf(p.insert) : i \in copied /\ d[i] = p.insert[i]
  <2>1. \A i \in DOMAIN p.insert : i \in DOMAIN d /\ d[i] = p.insert[i]
    BY NewThere DEF p
  <2> QED
    BY <1>5, <2>1 DEF ElementsOf
<1>9. src = Elements(d[v].base)
  BY DEF ElementsIn, Elements, Of, Rows
<1> HIDE DEF d, fork, copied, src
<1>10. {d[i] : i \in copied} = {p.insert[i] : i \in ElementsOf(p.insert)}
  BY <1>7, <1>8
<1>11. /\ {d[i] : i \in copied} = {Forked(db[i], fork, d[fork].ns) : i \in src}
       /\ d[v].snapshot = Snapshot(src)
  BY <1>4, <1>10 DEF Snapshot
<1> QED
  BY <1>9, <1>11 DEF fork, copied

-----------------------------------------------------------------------------
(* The endpoints of ontologies, and what they do later.                    *)

FetchesUnlocked(r, plan, job) == Fetches(r, plan, job) /\ ~Locks(plan, job)

StartsWhole(r) == \E plan, job : Begin(r, plan, job) /\ FetchesUnlocked(r, plan, job)

GoesOnWhole(r) ==
  \/ \E plan, job : /\ Continue(r, plan, job)
                    /\ Fetches(r, plan, job)
                    /\ Locks(plan, job) => writer = r
  \/ \E job : Flush(r, job) /\ Fetches(r, session[r].plan, job)

\* A plan without new rows.
LEMMA FetchesNothing ==
  ASSUME NEW r, NEW p, NEW job, DOMAIN p.insert = {},
         \A i \in DOMAIN p.update : "onto" \notin DOMAIN p.update[i],
         \/ job[1] = "commit"
         \/ job[1] \in {"publish", "publish rest"} /\ job[2] \in 1 .. made
  PROVE  FetchesUnlocked(r, p, job)
<1>1. ElementsOf(p.insert) = {} /\ Homes(p.insert) = {} /\ \A v : ~IsFork(p, v)
  BY DEF ElementsOf, Homes, IsFork
<1>2. HalfCopied(db, p, job)
  BY <1>1 DEF HalfCopied
<1>3. Copying(db, p, job)
  BY <1>1, <1>2 DEF Copying
<1> QED
  BY <1>1, <1>3 DEF FetchesUnlocked, Fetches, Locks

\* An update of other columns than the ontology that a row belongs to.
LEMMA SetStays ==
  ASSUME NEW i, NEW columns, "onto" \notin DOMAIN columns
  PROVE  LET p == Set(i, columns)
         IN DOMAIN p.insert = {} /\ \A j \in DOMAIN p.update : "onto" \notin DOMAIN p.update[j]
<1> DEFINE p == Set(i, columns)
<1>1. /\ p.insert = Nothing
      /\ \A j \in DOMAIN p.update : DOMAIN p.update[j] \subseteq DOMAIN columns
  BY SetIs
<1> HIDE DEF p
<1> QED
  BY <1>1 DEF Nothing, p

LEMMA FetchesSet ==
  ASSUME NEW r, NEW i, NEW columns, "onto" \notin DOMAIN columns, NEW job,
         \/ job[1] = "commit"
         \/ job[1] \in {"publish", "publish rest"} /\ job[2] \in 1 .. made
  PROVE  FetchesUnlocked(r, Set(i, columns), job)
BY SetStays, FetchesNothing

LEMMA FetchesDrop ==
  ASSUME NEW r, NEW gone
  PROVE  FetchesUnlocked(r, Drop(gone), Done)
<1> DEFINE p == Drop(gone)
<1>1. p.insert = Nothing /\ p.update = Nothing
  BY DropIs
<1>2. Done[1] = "commit"
  BY DEF Done
<1> HIDE DEF p
<1>3. FetchesUnlocked(r, p, Done)
  BY <1>1, <1>2, FetchesNothing DEF Nothing
<1> QED
  BY <1>3 DEF p

\* A new row of an ontology that is there, or an ontology.
LEMMA FetchesNew ==
  ASSUME Base, NEW r \in Requests, NEW row,
         row.table \in Content \cup {"version"} => row.onto \in DOMAIN db, NEW job,
         \/ job[1] = "commit"
         \/ /\ job[1] = "fork" /\ job[3] = made + 1 /\ {1, 3} \subseteq DOMAIN job
            /\ row.table = "ontology"
  PROVE  FetchesUnlocked(r, New(row), job)
<1> DEFINE n == made + 1
           p == New(row)
<1>1. p.insert = Only(n, row) /\ p.update = Nothing
  BY DEF New, NoPlan
<1>2. n \notin 1 .. made /\ n \notin DOMAIN db
  BY DEF Base
<1> HIDE DEF n
<1> HIDE DEF p
<1>3. DOMAIN p.insert = {n} /\ p.insert[n] = row /\ DOMAIN p.update = {}
  BY <1>1 DEF Only, Nothing
<1>4. Homes(p.insert) \subseteq DOMAIN db
  BY <1>3 DEF Homes, ElementsOf
<1>5. \A v : ~IsFork(p, v)
  BY <1>2, <1>3 DEF IsFork, TableOf
<1>6. job[1] = "fork" =>
        /\ ElementsOf(p.insert) = {} /\ TableOf(p.insert, "version") = {}
        /\ job[3] = n /\ {1, 3} \subseteq DOMAIN job
  BY <1>3 DEF ElementsOf, TableOf, Content, n
<1>7. HalfCopied(db, p, job)
  BY <1>3, <1>6 DEF HalfCopied
<1>8. Copying(db, p, job)
  BY <1>3, <1>5, <1>7 DEF Copying
<1>9. FetchesUnlocked(r, p, job)
  BY <1>2, <1>3, <1>4, <1>5, <1>8 DEF FetchesUnlocked, Fetches, Locks
<1> QED
  BY <1>9 DEF p

LEMMA WholeStarts ==
  ASSUME Base, NEW r \in Requests, ContentRequest(r) \/ VersionRequest(r)
  PROVE  StartsWhole(r)
<1>0. (\A plan, job : Begin(r, plan, job) /\ FetchesUnlocked(r, plan, job) => StartsWhole(r))
      /\ Done[1] = "commit"
  BY DEF StartsWhole, Done
<1>1. CASE CreateOntology(r)
  <2>1. PICK ns : Begin(r, New(Ontology(ns, None)), Done)
    BY <1>1 DEF CreateOntology
  <2>2. FetchesUnlocked(r, New(Ontology(ns, None)), Done)
    BY <1>0, FetchesNew DEF Ontology, Content
  <2> QED
    BY <1>0, <2>1, <2>2
<1>2. CASE ForkOntology(r)
  <2>1. PICK src, ns, tag : Begin(r, New(Ontology(ns, tag)), <<"fork", src, made + 1>>)
    BY <1>2 DEF ForkOntology
  <2> DEFINE job == <<"fork", src, made + 1>>
  <2>2. job[1] = "fork" /\ job[3] = made + 1 /\ {1, 3} \subseteq DOMAIN job
    OBVIOUS
  <2> HIDE DEF job
  <2>3. FetchesUnlocked(r, New(Ontology(ns, tag)), job)
    BY <2>2, FetchesNew DEF Ontology, Content
  <2> QED
    BY <1>0, <2>1, <2>3 DEF job
<1>3. CASE UpdateOntology(r) \/ UpdateOntologyStatus(r) \/ UpdateVersionContent(r)
  <2> DEFINE Given(columns) == "onto" \notin DOMAIN columns
  <2>1. Given([rev |-> 1]) /\ Given([snapshot |-> {}]) /\ \A s : Given([status |-> s])
    OBVIOUS
  <2> HIDE DEF Given
  <2>2. PICK i, columns : Given(columns) /\ Begin(r, Set(i, columns), Done)
    BY <1>3, <2>1 DEF UpdateOntology, UpdateOntologyStatus, UpdateVersionContent
  <2> QED
    BY <1>0, <2>2, FetchesSet DEF Given
<1>4. CASE UpdateClass(r) \/ UpdateProperty(r) \/ UpdateConstraint(r)
  <2>1. PICK i, rev : Begin(r, Set(i, [rev |-> rev]), Done)
    BY <1>4 DEF UpdateClass, UpdateProperty, UpdateConstraint, Edit
  <2>2. FetchesUnlocked(r, Set(i, [rev |-> rev]), Done)
    BY <1>0, FetchesSet
  <2> QED
    BY <1>0, <2>1, <2>2
<1>5. CASE PublishOntology(r)
  <2>1. PICK o \in Rows("ontology") : \E label :
          Begin(r, Set(o, [head |-> label, status |-> "PUBLISHED"]), <<"publish", o, label>>)
    BY <1>5 DEF PublishOntology
  <2>4. PICK label :
          Begin(r, Set(o, [head |-> label, status |-> "PUBLISHED"]), <<"publish", o, label>>)
    BY <2>1
  <2> DEFINE job == <<"publish", o, label>>
  <2>2. job[1] = "publish" /\ job[2] \in 1 .. made
    BY DEF Rows, Base
  <2> HIDE DEF job
  <2>3. FetchesUnlocked(r, Set(o, [head |-> label, status |-> "PUBLISHED"]), job)
    BY <2>2, FetchesSet
  <2> QED
    BY <1>0, <2>4, <2>3 DEF job
<1>6. CASE PublishVersion(r)
  <2> DEFINE p(v) == Set(v, [status |-> "PUBLISHED", at |-> made + 1])
             q(v) == Set(db[v].onto, [head |-> db[v].label, status |-> "PUBLISHED"])
  <2>1. PICK v : Begin(r, And(p(v), q(v)), Done)
    BY <1>6 DEF PublishVersion
  <2>2. /\ p(v).insert = Nothing /\ q(v).insert = Nothing
        /\ \A j \in DOMAIN p(v).update : "onto" \notin DOMAIN p(v).update[j]
        /\ \A j \in DOMAIN q(v).update : "onto" \notin DOMAIN q(v).update[j]
    BY SetIs
  <2> HIDE DEF p, q
  <2> DEFINE s == And(p(v), q(v))
  <2>3. /\ DOMAIN s.insert = {}
        /\ \A j \in DOMAIN s.update : "onto" \notin DOMAIN s.update[j]
    BY <2>2 DEF And, Over, Nothing
  <2>4. Begin(r, s, Done)
    BY <2>1
  <2> HIDE DEF s
  <2>5. FetchesUnlocked(r, s, Done)
    BY <1>0, <2>3, FetchesNothing
  <2> QED
    BY <1>0, <2>4, <2>5
<1>7. ASSUME NEW table, NEW o \in DOMAIN db, NEW iri, NEW ref, NEW link, NEW rev,
             Begin(r, New(Element(table, o, iri, ref, link, rev)), Done)
      PROVE  StartsWhole(r)
  <2>1. FetchesUnlocked(r, New(Element(table, o, iri, ref, link, rev)), Done)
    BY <1>0, FetchesNew DEF Element
  <2> QED
    BY <1>0, <1>7, <2>1
<1>8. CASE CreateClass(r) \/ CreateProperty(r) \/ CreateRelation(r) \/ CreateConstraint(r)
  <2>1. Rows("ontology") \subseteq DOMAIN db
    BY DEF Rows
  <2>2. CASE CreateClass(r)
    BY <1>7, <2>1, <2>2 DEF CreateClass
  <2>3. CASE CreateProperty(r)
    BY <1>7, <2>1, <2>3 DEF CreateProperty
  <2>4. CASE CreateRelation(r)
    BY <1>7, <2>1, <2>4 DEF CreateRelation
  <2>5. CASE CreateConstraint(r)
    BY <1>7, <2>1, <2>5 DEF CreateConstraint
  <2> QED
    BY <1>8, <2>2, <2>3, <2>4, <2>5
<1>9. CASE CreateDraftVersion(r)
  <2>1. PICK o \in Rows("ontology") : \E label, snapshot, base :
          Begin(r, New(Version(o, label, "DRAFT", None, snapshot, base)), Done)
    BY <1>9 DEF CreateDraftVersion
  <2>3. PICK label, snapshot, base :
          Begin(r, New(Version(o, label, "DRAFT", None, snapshot, base)), Done)
    BY <2>1
  <2>2. FetchesUnlocked(r, New(Version(o, label, "DRAFT", None, snapshot, base)), Done)
    BY <1>0, FetchesNew DEF Version, Rows
  <2> QED
    BY <1>0, <2>2, <2>3
<1>10. CASE DeleteOntology(r) \/ DeleteClass(r) \/ DeleteProperty(r) \/ DeleteRelation(r)
            \/ DeleteConstraint(r)
  <2>1. PICK gone : Begin(r, Drop(gone), Done)
    BY <1>10
       DEF DeleteOntology, DeleteClass, DeleteProperty, DeleteRelation, DeleteConstraint, Delete
  <2> QED
    BY <1>0, <2>1, FetchesDrop
<1> QED
  BY <1>1, <1>2, <1>3, <1>4, <1>5, <1>6, <1>8, <1>9, <1>10 DEF ContentRequest, VersionRequest

\* Plan c inserts the copies of these elements, for the ontology o.
InsertsCopies(c, o, ns, ids) ==
  /\ c.update = Nothing
  /\ \A i \in DOMAIN c.insert :
       i \notin 1 .. made /\ c.insert[i].table \in Content /\ c.insert[i].onto = o
  /\ {c.insert[i] : i \in DOMAIN c.insert} = {Forked(db[j], o, ns) : j \in ids}

\* Plan q is p with these copies.
AddsCopies(p, q, o, ns, ids) ==
  /\ \A i \in DOMAIN p.insert : i \in DOMAIN q.insert /\ q.insert[i] = p.insert[i]
  /\ \A i \in DOMAIN q.insert \ DOMAIN p.insert :
       i \notin 1 .. made /\ q.insert[i].table \in Content /\ q.insert[i].onto = o
  /\ {q.insert[i] : i \in ElementsOf(q.insert)} =
       {p.insert[i] : i \in ElementsOf(p.insert)} \cup {Forked(db[j], o, ns) : j \in ids}
  /\ DOMAIN q.update = DOMAIN p.update
  /\ \A i \in DOMAIN p.update : q.update[i] = p.update[i]

\* The rows that a fork copies, as they are inserted.
LEMMA CopiesInserted ==
  ASSUME Base, AllTyped, NEW ids, ids \subseteq DOMAIN db, \A i \in ids : db[i].table \in Content,
         NEW o, NEW ns, NEW c, c = Copies(ids, o, ns)
  PROVE  InsertsCopies(c, o, ns, ids)
<1> DEFINE ins == [i \in {made + j : j \in ids} |-> Forked(db[i - made], o, ns)]
<1>1. c = [insert |-> ins, update |-> Nothing, delete |-> {}]
  BY DEF Copies, NoPlan
<1>2. made \in Nat /\ \A j \in ids : j \in 1 .. made
  BY DEF Base
<1>3. \A j \in ids : made + j \in DOMAIN ins /\ ins[made + j] = Forked(db[j], o, ns)
  BY <1>2
<1>4. \A i \in DOMAIN ins : \E j \in ids : i = made + j
  OBVIOUS
<1> HIDE DEF ins
<1>5. {ins[i] : i \in DOMAIN ins} = {Forked(db[j], o, ns) : j \in ids}
  BY <1>3, <1>4
<1>6. \A j \in ids : Forked(db[j], o, ns).onto = o
  <2>1. \A j \in ids : "onto" \in DOMAIN db[j]
    BY OntologyColumns DEF AllTyped, Typed
  <2> QED
    BY <2>1 DEF Forked
<1>7. \A i \in DOMAIN ins : ins[i].onto = o
  BY <1>3, <1>4, <1>6
<1>8. \A i \in DOMAIN c.insert : i \notin 1 .. made /\ c.insert[i].table \in Content
  BY CopiesAre
<1> QED
  BY <1>1, <1>5, <1>7, <1>8 DEF InsertsCopies

\* A plan with copies added to it.
LEMMA WithMoreCopies ==
  ASSUME Base, AllTyped, NEW ids, ids \subseteq DOMAIN db, \A i \in ids : db[i].table \in Content,
         NEW o, NEW ns, NEW p, DOMAIN p.insert \subseteq 1 .. made,
         NEW q, q = And(p, Copies(ids, o, ns))
  PROVE  AddsCopies(p, q, o, ns, ids)
<1> DEFINE c == Copies(ids, o, ns)
<1>0. InsertsCopies(c, o, ns, ids)
  BY CopiesInserted
<1> HIDE DEF c
<1>1. /\ c.update = Nothing
      /\ \A i \in DOMAIN c.insert :
           i \notin 1 .. made /\ c.insert[i].table \in Content /\ c.insert[i].onto = o
      /\ {c.insert[i] : i \in DOMAIN c.insert} = {Forked(db[j], o, ns) : j \in ids}
  BY <1>0 DEF InsertsCopies
<1>2. q.insert = Over(p.insert, c.insert) /\ q.update = Over(p.update, c.update)
  BY DEF And, c
<1>3. /\ DOMAIN q.insert = DOMAIN p.insert \cup DOMAIN c.insert
      /\ \A i \in DOMAIN p.insert : q.insert[i] = p.insert[i]
      /\ \A i \in DOMAIN c.insert : q.insert[i] = c.insert[i] /\ i \notin DOMAIN p.insert
  BY <1>1, <1>2 DEF Over
<1>4. DOMAIN q.update = DOMAIN p.update /\ \A i \in DOMAIN p.update : q.update[i] = p.update[i]
  BY <1>1, <1>2 DEF Over, Nothing
<1>5. ElementsOf(q.insert) = ElementsOf(p.insert) \cup DOMAIN c.insert
  BY <1>1, <1>3 DEF ElementsOf
<1>6. {q.insert[i] : i \in ElementsOf(q.insert)} =
        {p.insert[i] : i \in ElementsOf(p.insert)} \cup {c.insert[i] : i \in DOMAIN c.insert}
  <2>1. \A i \in ElementsOf(p.insert) : q.insert[i] = p.insert[i]
    BY <1>3 DEF ElementsOf
  <2> QED
    BY <1>3, <1>5, <2>1
<1> QED
  BY <1>1, <1>3, <1>4, <1>6 DEF AddsCopies

\* What Fetches asks of a plan that copies, apart from how far it has come.
LEMMA HomesOfCopies ==
  ASSUME NEW q, NEW o, \A i \in ElementsOf(q.insert) : q.insert[i].onto = o
  PROVE  Homes(q.insert) \subseteq {o}
BY DEF Homes

LEMMA CopyWhole ==
  ASSUME Base, AllTyped, Forks, NEW r \in Requests, session[r].open, ForkCopiesClasses(r)
  PROVE  GoesOnWhole(r)
<1> DEFINE job == session[r].job
           p == session[r].plan
           o == job[3]
           ns == p.insert[o].ns
           classes == Of(job[2], "class")
           q == And(p, Copies(classes, o, ns))
           next == <<"copy rest", job[2], o, Snapshot(classes)>>
<1>1. job[1] = "copy" /\ Continue(r, q, next)
  BY DEF ForkCopiesClasses
<1>2. /\ o \in DOMAIN p.insert /\ p.insert[o].table = "ontology"
      /\ TableOf(p.insert, "version") = {} /\ ElementsOf(p.insert) = {}
      /\ \A i \in DOMAIN p.update : "onto" \notin DOMAIN p.update[i]
      /\ writer = r /\ DOMAIN p.insert \subseteq 1 .. made
  BY <1>1 DEF Forks, Copying, HalfCopied, Locks, Base
<1>3. classes = ElementsIn(db, job[2], {"class"}) /\ classes \subseteq DOMAIN db
      /\ \A i \in classes : db[i].table \in Content
  BY DEF Of, Rows, Content, ElementsIn
<1>4. next[1] = "copy rest" /\ next[2] = job[2] /\ next[3] = o /\ next[4] = Snapshot(classes)
      /\ {1, 3} \subseteq DOMAIN next
  OBVIOUS
<1> HIDE DEF next, classes, ns, o, job, p
<1>5a. AddsCopies(p, q, o, ns, classes)
  BY <1>2, <1>3, WithMoreCopies
<1> HIDE DEF q
<1>5. /\ \A i \in DOMAIN p.insert : i \in DOMAIN q.insert /\ q.insert[i] = p.insert[i]
      /\ \A i \in DOMAIN q.insert \ DOMAIN p.insert :
           i \notin 1 .. made /\ q.insert[i].table \in Content /\ q.insert[i].onto = o
      /\ {q.insert[i] : i \in ElementsOf(q.insert)} =
           {p.insert[i] : i \in ElementsOf(p.insert)} \cup {Forked(db[j], o, ns) : j \in classes}
      /\ DOMAIN q.update = DOMAIN p.update
      /\ \A i \in DOMAIN p.update : q.update[i] = p.update[i]
  BY <1>5a DEF AddsCopies
<1>6. {q.insert[i] : i \in ElementsOf(q.insert)} = {Forked(db[j], o, ns) : j \in classes}
  BY <1>2, <1>5
<1>7. ns = q.insert[o].ns /\ o \in DOMAIN q.insert /\ q.insert[o].table = "ontology"
  BY <1>2, <1>5 DEF ns
<1>8. Replicates(db, q, next[2], next[3], {"class"}) /\ next[4] = Snapped(db, next[2], {"class"})
  BY <1>3, <1>4, <1>6, <1>7 DEF Replicates, Snapped, Snapshot
<1>9. TableOf(q.insert, "version") = {}
  BY <1>2, <1>5 DEF TableOf, Content
<1>10. \A i \in ElementsOf(q.insert) : q.insert[i].onto = o
  BY <1>2, <1>5 DEF ElementsOf
<1>11. HalfCopied(db, q, next)
  BY <1>4, <1>7, <1>8, <1>9 DEF HalfCopied
<1>12. Copying(db, q, next)
  BY <1>2, <1>5, <1>9, <1>11 DEF Copying, IsFork
<1>13. Fetches(r, q, next)
  <2>1. Homes(q.insert) \subseteq {o}
    BY <1>10, HomesOfCopies
  <2>2. \A i \in DOMAIN q.insert : i \in DOMAIN p.insert \/ i \notin 1 .. made
    BY <1>5
  <2> QED
    BY <1>2, <1>12, <2>1, <2>2 DEF Fetches, p
<1> QED
  BY <1>1, <1>2, <1>13 DEF GoesOnWhole

LEMMA CopyRestWhole ==
  ASSUME Base, AllTyped, Forks, NEW r \in Requests, session[r].open, ForkCopiesRest(r)
  PROVE  GoesOnWhole(r)
<1> DEFINE job == session[r].job
           p == session[r].plan
           src == job[2]
           o == job[3]
           ns == p.insert[o].ns
           rest == Elements(src) \ Of(src, "class")
           row == Version(o, p.insert[o].head, "DRAFT", None, job[4] \cup Snapshot(rest), src)
           q == And(p, Copies(rest, o, ns))
           e == Max({made} \cup DOMAIN q.insert) + 1
           s == AndNew(q, row)
<1>1. job[1] = "copy rest" /\ Continue(r, s, Done)
  BY DEF ForkCopiesRest
<1>2. /\ o \in DOMAIN p.insert /\ p.insert[o].table = "ontology"
      /\ TableOf(p.insert, "version") = {}
      /\ Replicates(db, p, src, o, {"class"}) /\ job[4] = Snapped(db, src, {"class"})
      /\ \A i \in DOMAIN p.update : "onto" \notin DOMAIN p.update[i]
      /\ writer = r /\ DOMAIN p.insert \subseteq 1 .. made /\ Good(r, p) /\ Placed(p.insert)
  BY <1>1 DEF Forks, Copying, HalfCopied, Locks, Base
<1>3. /\ rest \subseteq DOMAIN db /\ \A i \in rest : db[i].table \in Content
      /\ ElementsIn(db, src, Content) = ElementsIn(db, src, {"class"}) \cup rest
  BY DEF Elements, Of, Rows, ElementsIn, Content
<1>4. /\ row.table = "version" /\ row.onto = o /\ row.base = src
      /\ row.snapshot = job[4] \cup Snapshot(rest)
  BY DEF Version
<1>5. Good(r, q)
  BY <1>2, <1>3, GoodCopies, GoodAnd
<1> HIDE DEF row, rest, ns, o, src
<1>6. e \in Nat /\ e \notin 1 .. made /\ e \notin DOMAIN q.insert
  <2> HIDE DEF q
  <2>1. made \in Nat
    BY DEF Base
  <2>2. PICK n \in Nat : DOMAIN q.insert \subseteq 0 .. n
    BY <1>5 DEF Good
  <2>3. /\ Max({made} \cup DOMAIN q.insert) \in Nat
        /\ made <= Max({made} \cup DOMAIN q.insert)
        /\ \A i \in DOMAIN q.insert : i <= Max({made} \cup DOMAIN q.insert)
    BY <2>1, <2>2, MaxAbove
  <2> DEFINE m == Max({made} \cup DOMAIN q.insert)
  <2>4. m \in Nat /\ made <= m /\ \A i \in DOMAIN q.insert : i \in Nat /\ i <= m
    BY <2>2, <2>3
  <2>5. e = m + 1
    OBVIOUS
  <2> HIDE DEF m, e
  <2> QED
    BY <2>1, <2>4, <2>5
<1> HIDE DEF p, job
<1>7a. AddsCopies(p, q, o, ns, rest)
  BY <1>2, <1>3, WithMoreCopies
<1> HIDE DEF q
<1>7. /\ \A i \in DOMAIN p.insert : i \in DOMAIN q.insert /\ q.insert[i] = p.insert[i]
      /\ \A i \in DOMAIN q.insert \ DOMAIN p.insert :
           i \notin 1 .. made /\ q.insert[i].table \in Content /\ q.insert[i].onto = o
      /\ {q.insert[i] : i \in ElementsOf(q.insert)} =
           {p.insert[i] : i \in ElementsOf(p.insert)} \cup {Forked(db[j], o, ns) : j \in rest}
      /\ DOMAIN q.update = DOMAIN p.update
      /\ \A i \in DOMAIN p.update : q.update[i] = p.update[i]
  BY <1>7a DEF AddsCopies
<1>8. s = [insert |-> Over(q.insert, Only(e, row)), update |-> q.update, delete |-> q.delete]
  BY <1>5 DEF AndNew, Good, IsPlan
<1> HIDE DEF e, s
<1>9. s.insert = Over(q.insert, Only(e, row)) /\ s.update = q.update
  BY <1>8
<1>10. /\ DOMAIN s.insert = DOMAIN q.insert \cup {e} /\ s.insert[e] = row
       /\ \A i \in DOMAIN q.insert : s.insert[i] = q.insert[i]
  BY <1>6, <1>9 DEF Over, Only
<1>11. ElementsOf(s.insert) = ElementsOf(q.insert) /\ TableOf(s.insert, "version") = {e}
  <2>1. "version" \notin Content
    BY DEF Content
  <2>2. \A i \in DOMAIN q.insert : q.insert[i].table # "version"
    BY <1>2, <1>7, <2>1 DEF TableOf
  <2> QED
    BY <1>4, <1>10, <2>1, <2>2 DEF ElementsOf, TableOf
<1>12. {s.insert[i] : i \in ElementsOf(s.insert)} = {q.insert[i] : i \in ElementsOf(q.insert)}
  BY <1>10, <1>11 DEF ElementsOf
<1>13. ns = s.insert[o].ns
  BY <1>2, <1>7, <1>10 DEF ns
<1>14. {p.insert[i] : i \in ElementsOf(p.insert)}
         = {Forked(db[j], o, ns) : j \in ElementsIn(db, src, {"class"})}
  BY <1>2 DEF Replicates, ns
<1>15. {s.insert[i] : i \in ElementsOf(s.insert)}
         = {Forked(db[j], o, ns) : j \in ElementsIn(db, src, Content)}
  BY <1>3, <1>7, <1>12, <1>14
<1>16. row.snapshot = Snapped(db, src, Content)
  BY <1>2, <1>3, <1>4 DEF Snapped, Snapshot
<1>17. Whole(db, s, e)
  BY <1>4, <1>10, <1>13, <1>15, <1>16 DEF Whole, Replicates
<1>18. \A v \in DOMAIN s.insert : IsFork(s, v) => v = e
  BY <1>11 DEF IsFork
<1>19. Done[1] = "commit"
  BY DEF Done
<1>20. Copying(db, s, Done)
  <2>1. HalfCopied(db, s, Done)
    BY <1>19 DEF HalfCopied
  <2>2. \A i \in DOMAIN s.update : "onto" \notin DOMAIN s.update[i]
    BY <1>2, <1>7, <1>9
  <2> QED
    BY <1>17, <1>18, <2>1, <2>2 DEF Copying
<1>21. \A i \in ElementsOf(s.insert) : s.insert[i].onto = o
  <2> SUFFICES ASSUME NEW i \in ElementsOf(s.insert) PROVE s.insert[i].onto = o
    OBVIOUS
  <2>1. PICK j \in ElementsIn(db, src, Content) : s.insert[i] = Forked(db[j], o, ns)
    BY <1>15
  <2>2. "onto" \in DOMAIN db[j]
    BY <2>1, OntologyColumns DEF ElementsIn, AllTyped, Typed
  <2> QED
    BY <2>1, <2>2 DEF Forked
<1>22. \A i \in DOMAIN s.insert : i \in DOMAIN p.insert \/ i \notin 1 .. made
  BY <1>6, <1>7, <1>10
<1>23. Fetches(r, s, Done)
  <2>1. Homes(s.insert) \subseteq {o}
    BY <1>21, HomesOfCopies
  <2> QED
    BY <1>2, <1>20, <1>22, <2>1 DEF Fetches, p
<1> QED
  BY <1>1, <1>2, <1>23 DEF GoesOnWhole

LEMMA ReadsClassesWhole ==
  ASSUME Base, Forks, NEW r \in Requests, session[r].open, PublishReadsClasses(r)
  PROVE  GoesOnWhole(r)
<1> DEFINE p == session[r].plan
           job == session[r].job
           next == <<"publish rest", job[2], job[3], Snapshot(Of(job[2], "class"))>>
<1>1. job[1] = "publish" /\ Continue(r, p, next)
  BY DEF PublishReadsClasses
<1>2. /\ DOMAIN p.insert = {} /\ job[2] \in 1 .. made
      /\ \A i \in DOMAIN p.update : "onto" \notin DOMAIN p.update[i]
  BY <1>1 DEF Forks, Copying, HalfCopied
<1>3. next[1] = "publish rest" /\ next[2] = job[2]
  OBVIOUS
<1> HIDE DEF p, next, job
<1>4. FetchesUnlocked(r, p, next)
  BY <1>2, <1>3, FetchesNothing
<1> QED
  BY <1>1, <1>4 DEF GoesOnWhole, FetchesUnlocked

\* The version that is published is of an ontology that was there.
LEMMA ReadsRestWhole ==
  ASSUME Base, Forks, NEW r \in Requests, session[r].open, PublishReadsRest(r)
  PROVE  GoesOnWhole(r)
<1> DEFINE p == session[r].plan
           job == session[r].job
           o == job[2]
           snapshot == job[4] \cup Snapshot(Elements(o) \ Of(o, "class"))
           row == Version(o, job[3], "PUBLISHED", made, snapshot, None)
           q == AndNew(p, row)
           e == Max({made} \cup DOMAIN p.insert) + 1
<1>1. job[1] = "publish rest" /\ Continue(r, q, Done)
  BY DEF PublishReadsRest
<1>2. /\ DOMAIN p.insert = {} /\ o \in 1 .. made /\ Good(r, p)
      /\ \A i \in DOMAIN p.update : "onto" \notin DOMAIN p.update[i]
  BY <1>1 DEF Forks, Copying, HalfCopied, Base
<1>3. row.table = "version" /\ row.onto = o
  BY DEF Version
<1>4. e \in Nat /\ e \notin 1 .. made
  <2>1. made \in Nat /\ DOMAIN p.insert \subseteq 0 .. 0 /\ 0 \in Nat
    BY <1>2 DEF Base
  <2>2. Max({made} \cup DOMAIN p.insert) \in Nat /\ made <= Max({made} \cup DOMAIN p.insert)
    BY <2>1, MaxAbove
  <2> DEFINE m == Max({made} \cup DOMAIN p.insert)
  <2>3. e = m + 1 /\ m \in Nat /\ made <= m
    BY <2>2
  <2> HIDE DEF m, e
  <2> QED
    BY <2>1, <2>3
<1> HIDE DEF row, o
<1>5. q = [insert |-> Over(p.insert, Only(e, row)), update |-> p.update, delete |-> p.delete]
  BY <1>2 DEF AndNew, Good, IsPlan
<1> HIDE DEF e, q, p, job
<1>6. DOMAIN q.insert = {e} /\ q.insert[e] = row /\ q.update = p.update
  BY <1>2, <1>5 DEF Over, Only
<1>7. ElementsOf(q.insert) = {} /\ Homes(q.insert) = {}
  BY <1>3, <1>6 DEF ElementsOf, Homes, Content
<1>8. \A v : ~IsFork(q, v)
  BY <1>2, <1>3, <1>4, <1>6 DEF IsFork, TableOf
<1>9. Done[1] = "commit"
  BY DEF Done
<1>10. HalfCopied(db, q, Done)
  BY <1>9 DEF HalfCopied
<1>11. Copying(db, q, Done)
  BY <1>2, <1>6, <1>8, <1>10 DEF Copying
<1>12. Fetches(r, q, Done)
  BY <1>4, <1>6, <1>7, <1>11 DEF Fetches
<1>13. ~Locks(q, Done)
  BY <1>8, <1>9 DEF Locks
<1> QED
  BY <1>1, <1>12, <1>13 DEF GoesOnWhole

LEMMA FlushWhole ==
  ASSUME Base, Forks, NEW r \in Requests, session[r].open, ForkFlushes(r)
  PROVE  GoesOnWhole(r)
<1> DEFINE p == session[r].plan
           job == session[r].job
           next == [job EXCEPT ![1] = "copy"]
<1>1. job[1] = "fork" /\ Flush(r, next)
  BY DEF ForkFlushes
<1>2. Copying(db, p, job) /\ Placed(p.insert)
  BY DEF Forks
<1>3. /\ job[3] \in DOMAIN p.insert /\ p.insert[job[3]].table = "ontology"
      /\ TableOf(p.insert, "version") = {} /\ {1, 3} \subseteq DOMAIN job
      /\ ElementsOf(p.insert) = {}
  BY <1>1, <1>2 DEF Copying, HalfCopied
<1> HIDE DEF job
<1>4. next[1] = "copy" /\ next[3] = job[3] /\ DOMAIN next = DOMAIN job
  <2>1. \A f : {1, 3} \subseteq DOMAIN f =>
          LET g == [f EXCEPT ![1] = "copy"]
          IN g[1] = "copy" /\ g[3] = f[3] /\ DOMAIN g = DOMAIN f
    OBVIOUS
  <2> QED
    BY <1>3, <2>1
<1> HIDE DEF next, p
<1>5. HalfCopied(db, p, next)
  BY <1>3, <1>4 DEF HalfCopied
<1>6. Copying(db, p, next)
  BY <1>2, <1>5 DEF Copying
<1>7. Homes(p.insert) = {}
  BY <1>3 DEF Homes
<1>8. Fetches(r, p, next)
  BY <1>6, <1>7 DEF Fetches, p
<1> QED
  BY <1>1, <1>8 DEF GoesOnWhole, p

-----------------------------------------------------------------------------
(* Every behaviour.                                                        *)

LEMMA StartForks ==
  ASSUME Base, Forks, NEW r \in Requests, StartsWhole(r), made' \in Nat, made <= made'
  PROVE  Forks'
<1>1. PICK plan, job : Begin(r, plan, job) /\ FetchesUnlocked(r, plan, job)
  BY DEF StartsWhole
<1>2. /\ session'[r] = [open |-> TRUE, plan |-> plan, job |-> job]
      /\ \A q \in Requests \ {r} : session'[q] = session[q]
      /\ db' = db /\ writer' = writer
  BY <1>1, OpenedAs DEF Begin
<1>3. session'[r].plan = plan /\ session'[r].job = job
  BY <1>2
<1>4. Fetches(r, plan, job) /\ ~Locks(plan, job)
  BY <1>1 DEF FetchesUnlocked
<1> QED
  BY <1>2, <1>3, <1>4, PlanForks

LEMMA GoOnForks ==
  ASSUME Base, Forks, NEW r \in Requests, session[r].open, GoesOnWhole(r),
         made' \in Nat, made <= made'
  PROVE  Forks'
<1>1. ASSUME NEW plan, NEW job, Continue(r, plan, job), Fetches(r, plan, job),
             Locks(plan, job) => writer = r
      PROVE  Forks'
  <2>1. /\ session'[r] = [open |-> TRUE, plan |-> plan, job |-> job]
        /\ \A q \in Requests \ {r} : session'[q] = session[q]
        /\ db' = db /\ writer' = writer
    BY <1>1, ContinuedAs
  <2>2. session'[r].plan = plan /\ session'[r].job = job
    BY <2>1
  <2> QED
    BY <1>1, <2>1, <2>2, PlanForks
<1>2. ASSUME NEW job, Flush(r, job), Fetches(r, session[r].plan, job)
      PROVE  Forks'
  <2> DEFINE plan == session[r].plan
  <2>1. /\ session'[r] = [open |-> TRUE, plan |-> plan, job |-> job]
        /\ \A q \in Requests \ {r} : session'[q] = session[q]
        /\ db' = db /\ writer' = r
    BY <1>2, FlushKeeps
  <2>2. session'[r].plan = plan /\ session'[r].job = job
    BY <2>1
  <2>3. \A q \in Requests \ {r} : writer # q
    BY <1>2, NoneIsNoRequest DEF Flush, Writable
  <2>4. Fetches(r, plan, job)
    BY <1>2
  <2> HIDE DEF plan
  <2> QED
    BY <2>1, <2>2, <2>3, <2>4, PlanForks
<1> QED
  BY <1>1, <1>2 DEF GoesOnWhole

\* Only the requests of the group are served.
LEMMA OntologyMoves ==
  ASSUME Base, Publication, [Next]_vars
  PROVE  \/ \E r \in Requests : ContentRequest(r) \/ VersionRequest(r)
         \/ \E r \in Requests : session[r].open /\ OntologyStep(r)
         \/ \E r \in Requests : Commit(r) \/ Rollback(r)
         \/ Stop \/ UNCHANGED dbVars
<1>1. DispatchStep => UNCHANGED dbVars
  BY DEF DispatchStep, DispatchReads, DispatchRecords, DispatchFails, Deliver
<1>2. ~Uses("releases") /\ ~Uses("members") /\ ~Uses("objects") /\ ~Uses("workspaces")
      /\ ~Uses("evidence") /\ ~Uses("connectors")
  BY DEF Publication, Uses
<1> QED
  BY <1>1, <1>2 DEF Next, Request, Step, ServerStops, vars

LEMMA ForksStep ==
  ASSUME Base, Deciding, AllTyped, Publication, Forks, [Next]_vars
  PROVE  Forks'
<1>1. made \in Nat /\ made' \in Nat /\ made <= made'
  <2>1. Base' /\ made' >= made
    BY BaseStep
  <2> QED
    BY <2>1 DEF Base
<1>2. ASSUME NEW r \in Requests, ContentRequest(r) \/ VersionRequest(r) PROVE Forks'
  <2>1. StartsWhole(r)
    BY <1>2, WholeStarts
  <2> QED
    BY <1>1, <2>1, StartForks
<1>3. ASSUME NEW r \in Requests, session[r].open, OntologyStep(r) PROVE Forks'
  <2>1. GoesOnWhole(r)
    BY <1>3, ReadsClassesWhole, ReadsRestWhole, FlushWhole, CopyWhole, CopyRestWhole
       DEF OntologyStep
  <2> QED
    BY <1>1, <1>3, <2>1, GoOnForks
<1>4. ASSUME NEW r \in Requests, Commit(r) PROVE Forks'
  BY <1>4, CommitForks
<1>5. ASSUME NEW r \in Requests, Rollback(r) PROVE Forks'
  <2>1. /\ db' = db /\ made' = made /\ session'[r] = Closed
        /\ \A q \in Requests \ {r} : session'[q] = session[q]
    BY <1>5, RollbackKeeps
  <2>2. \A q \in Requests \ {r} : writer = q => writer' = q
    BY <1>5 DEF Rollback
  <2> QED
    BY <2>1, <2>2, DropForks
<1>6. CASE Stop
  <2>1. db' = db /\ made' = made /\ \A q \in Requests : session'[q] = Closed
    BY <1>6 DEF Stop
  <2> QED
    BY <2>1, DropForks
<1>7. CASE UNCHANGED dbVars
  <2>1. db' = db /\ made' = made /\ writer' = writer /\ session' = session
    BY <1>7 DEF dbVars
  <2> QED
    BY <2>1, DropForks
<1> QED
  BY <1>2, <1>3, <1>4, <1>5, <1>6, <1>7, OntologyMoves

\* Only a commit changes the database.
LEMMA OntologiesWritten ==
  ASSUME Base, Deciding, AllTyped, Publication, Forks, [Next]_vars, db' # db
  PROVE  \E r \in Requests : Commit(r)
<1>1. ASSUME NEW r \in Requests, ContentRequest(r) \/ VersionRequest(r) PROVE db' = db
  <2>1. StartsWhole(r)
    BY <1>1, WholeStarts
  <2> QED
    BY <2>1 DEF StartsWhole, Begin, Open
<1>2. ASSUME NEW r \in Requests, session[r].open, OntologyStep(r) PROVE db' = db
  BY <1>2 DEF OntologyStep, PublishReadsClasses, PublishReadsRest, ForkFlushes,
              ForkCopiesClasses, ForkCopiesRest, Continue, Flush
<1>3. ASSUME NEW r \in Requests, Rollback(r) PROVE db' = db
  BY <1>3 DEF Rollback
<1>4. Stop \/ UNCHANGED dbVars => db' = db
  BY DEF Stop, dbVars
<1> QED
  BY <1>1, <1>2, <1>3, <1>4, OntologyMoves

LEMMA ForksInit ==
  ASSUME Base, Init, Placed(db)
  PROVE  Forks
<1>1. Closed.plan = NoPlan /\ Closed.job = Done
  BY DEF Closed
<1>2. \A r \in Requests : session[r] = Closed
  BY DEF Init, InitDatabase
<1>3. \A r \in Requests : session[r].plan = NoPlan /\ session[r].job = Done
  BY <1>1, <1>2
<1> QED
  BY <1>3, NothingCopied DEF Forks

\* In every behaviour that starts from content of ontologies that have been made: a
\* fork is a copy of one state of its source, with edits of the source going on,
\* and so is its first version, however requests overlap (fork_ontology of
\* api/ontologies.py, which flushes the new row before it reads the source).
THEOREM ForksAreWhole == Spec /\ Placed(db) => ForkIsWhole
<1> DEFINE Copied == Base /\ Deciding /\ AllTyped /\ (Publication => Forks)
<1>1. Init /\ Placed(db) /\ Base /\ Deciding /\ AllTyped => Copied
  BY ForksInit
<1>2. Copied /\ Base' /\ Deciding' /\ AllTyped' /\ [Next]_vars => Copied'
  <2> SUFFICES ASSUME Copied, Base', Deciding', AllTyped', [Next]_vars, Publication' PROVE Forks'
    BY DEF Publication, Uses
  <2>1. scenario' = scenario
    BY BaseStep
  <2>2. Publication
    BY <2>1 DEF Publication, Uses
  <2> QED
    BY <2>2, ForksStep
<1>3. Copied /\ Base' /\ [Next]_vars =>
        [\A v \in DOMAIN db' \ DOMAIN db :
           db'[v].table = "version" /\ db'[v].onto \in DOMAIN db' \ DOMAIN db
           => LET src == Elements(db'[v].base)
                  fork == db'[v].onto
                  ns == db'[fork].ns
                  copied == {i \in DOMAIN db' : db'[i].table \in Content /\ db'[i].onto = fork}
              IN /\ {db'[i] : i \in copied} = {Forked(db[i], fork, ns) : i \in src}
                 /\ db'[v].snapshot = Snapshot(src)]_db
  <2> SUFFICES ASSUME Copied, Base', [Next]_vars, db' # db,
                      NEW v \in DOMAIN db' \ DOMAIN db, db'[v].table = "version"
               PROVE  db'[v].onto \in DOMAIN db' \ DOMAIN db
           => LET src == Elements(db'[v].base)
                  fork == db'[v].onto
                  ns == db'[fork].ns
                  copied == {i \in DOMAIN db' : db'[i].table \in Content /\ db'[i].onto = fork}
              IN /\ {db'[i] : i \in copied} = {Forked(db[i], fork, ns) : i \in src}
                 /\ db'[v].snapshot = Snapshot(src)
    OBVIOUS
  <2>1. scenario' = scenario
    BY BaseStep
  <2>2. "version" \in Tables(scenario.uses)
    BY <2>1 DEF Base, HasTable
  <2>3. Publication
    BY <2>2 DEF Tables, Publication, Uses
  <2>4. PICK r \in Requests : Commit(r)
    BY <2>3, OntologiesWritten
  <2> QED
    BY <2>3, <2>4, WholeForks
<1>4. Spec => [](Base /\ Deciding)
  BY Plans
<1>5. Spec => []AllTyped
  BY RowsKeepTypes, PTL
<1> QED
  BY <1>1, <1>2, <1>3, <1>4, <1>5, PTL DEF Spec, ForkIsWhole

-----------------------------------------------------------------------------
(* Drafts, while requests do not overlap: the version of an ontology that  *)
(* was published last has the label that the ontology shows.               *)

PublishedOf(d, o) ==
  {v \in TableOf(d, "version") : d[v].onto = o /\ d[v].status = "PUBLISHED"}

\* The published version v was not published after now, and the last one of an
\* ontology that is there has its head.
DatedAt(d, v, now) ==
  LET o == d[v].onto
  IN /\ d[v].at \in 1 .. now /\ o \in 1 .. now
     /\ o \in DOMAIN d =>
          /\ d[o].table = "ontology"
          /\ (\A w \in PublishedOf(d, o) : d[w].at <= d[v].at) => d[o].head = d[v].label

Dated(d, now) ==
  \A v \in TableOf(d, "version") : d[v].status = "PUBLISHED" => DatedAt(d, v, now)

\* A plan that publishes nothing, and leaves what is published to its ontology and
\* the ontology its head.
Quiet(d, p) ==
  /\ DOMAIN p.insert \cap DOMAIN d = {}
  /\ \A v \in TableOf(p.insert, "version") : p.insert[v].status # "PUBLISHED"
  /\ \A i \in DOMAIN p.update :
       /\ {"table", "head", "onto", "label", "at"} \cap DOMAIN p.update[i] = {}
       /\ "status" \in DOMAIN p.update[i] => i \notin TableOf(d, "version")
  /\ \A v \in TableOf(d, "version") :
       d[v].status = "PUBLISHED" =>
         d[v].onto \notin DOMAIN p.insert /\ (v \in p.delete => d[v].onto \in p.delete)

\* A draft of this plan that starts from a version starts from the head.
StartsAtHead(d, p) ==
  \A v \in TableOf(p.insert, "version") :
    p.insert[v].status = "DRAFT" /\ p.insert[v].base \in TableOf(d, "version") =>
      d[p.insert[v].base].label = d[p.insert[v].onto].head

\* A publication of o before its version is planned.
HalfPublished(d, p, o, label, now) ==
  /\ o \in TableOf(d, "ontology")
  /\ DOMAIN p.insert = {} /\ p.delete = {} /\ DOMAIN p.update \subseteq {o}
  /\ o \in DOMAIN p.update => DOMAIN p.update[o] \subseteq {"head", "status"}
  /\ label = IF o \in DOMAIN p.update /\ "head" \in DOMAIN p.update[o]
             THEN p.update[o].head ELSE d[o].head
  /\ \A v \in TableOf(d, "version") : d[v].status = "PUBLISHED" => d[v].at < now

Dates(p, job, now) ==
  /\ StartsAtHead(db, p)
  /\ job[1] = "commit" => Dated(Written(p), now)
  /\ job[1] \in {"fork", "copy", "copy rest"} =>
       Quiet(db, p) /\ job[2] \in TableOf(db, "ontology") /\ {1, 2, 3} \subseteq DOMAIN job
  /\ job[1] \in {"publish", "publish rest"} => HalfPublished(db, p, job[2], job[3], now)

Headings ==
  ~overlap /\ Publication =>
    /\ \A q, r \in Requests : session[q].open /\ session[r].open => q = r
    /\ Dated(db, made)
    /\ \A r \in Requests : session[r].open => Dates(session[r].plan, session[r].job, made)

LEMMA DatedLater ==
  ASSUME NEW m \in Nat, NEW n \in Nat, m <= n
  PROVE  /\ \A d : Dated(d, m) => Dated(d, n)
         /\ \A p, job : Dated(db, m) /\ Dates(p, job, m) => Dates(p, job, n)
<1>1. 1 .. m \subseteq 1 .. n
  OBVIOUS
<1>2. \A d, v : DatedAt(d, v, m) => DatedAt(d, v, n)
  BY <1>1 DEF DatedAt
<1>3. \A d : Dated(d, m) => Dated(d, n)
  BY <1>2 DEF Dated
<1>4. ASSUME NEW p, NEW o, NEW label, Dated(db, m), HalfPublished(db, p, o, label, m)
      PROVE  HalfPublished(db, p, o, label, n)
  <2>1. \A v \in TableOf(db, "version") : db[v].status = "PUBLISHED" => db[v].at < n
    <3> SUFFICES ASSUME NEW v \in TableOf(db, "version"), db[v].status = "PUBLISHED"
                 PROVE  db[v].at < n
      OBVIOUS
    <3>1. db[v].at \in 1 .. m
      BY <1>4 DEF Dated, DatedAt
    <3>2. db[v].at < m
      BY <1>4 DEF HalfPublished
    <3> QED
      BY <3>1, <3>2
  <2> QED
    BY <1>4, <2>1 DEF HalfPublished
<1> QED
  BY <1>3, <1>4 DEF Dates

\* What the rows are after plan p.
Became(p, d) ==
  /\ DOMAIN d = (DOMAIN db \ p.delete) \cup DOMAIN p.insert
  /\ \A i \in DOMAIN p.insert : d[i] = p.insert[i]
  /\ \A i \in DOMAIN db \ p.delete :
       d[i] = IF i \in DOMAIN p.update THEN Over(p.update[i], db[i]) ELSE db[i]

LEMMA RowsWritten ==
  ASSUME NEW p, DOMAIN p.insert \cap DOMAIN db = {}
  PROVE  Became(p, Written(p))
BY DEF Became, Written, Over

\* A column of a row that a plan does not touch.
LEMMA ColumnWritten ==
  ASSUME NEW p, DOMAIN p.insert \cap DOMAIN db = {}, NEW d, d = Written(p),
         NEW i \in DOMAIN db \ p.delete, NEW c \in DOMAIN db[i],
         i \in DOMAIN p.update => c \notin DOMAIN p.update[i]
  PROVE  i \in DOMAIN d /\ d[i][c] = db[i][c]
<1>1. Became(p, d)
  BY RowsWritten
<1>2. d[i] = IF i \in DOMAIN p.update THEN Over(p.update[i], db[i]) ELSE db[i]
  BY <1>1 DEF Became
<1> QED
  BY <1>1, <1>2 DEF Became, Over

LEMMA DatedQuiet ==
  ASSUME AllTyped, NEW now, Dated(db, now), NEW p, Quiet(db, p), NEW d, d = Written(p)
  PROVE  Dated(d, now)
<1>1. /\ DOMAIN p.insert \cap DOMAIN db = {}
      /\ \A i \in DOMAIN p.update :
           {"table", "head", "onto", "label", "at"} \cap DOMAIN p.update[i] = {}
  BY DEF Quiet
<1>2. /\ DOMAIN d = (DOMAIN db \ p.delete) \cup DOMAIN p.insert
      /\ \A i \in DOMAIN p.insert : d[i] = p.insert[i]
  BY <1>1, RowsWritten DEF Became
<1>3. \A i \in DOMAIN db : DOMAIN db[i] = Columns(db[i].table) /\ "table" \in DOMAIN db[i]
  BY TableIsColumn DEF AllTyped, Typed
<1>4. \A i \in DOMAIN db \ p.delete : \A c \in DOMAIN db[i] \cap {"table", "head", "onto", "label", "at"} :
        d[i][c] = db[i][c]
  BY <1>1, ColumnWritten
<1>5. \A i \in DOMAIN db \ p.delete : d[i].table = db[i].table
  BY <1>3, <1>4
<1>6. ASSUME NEW i \in DOMAIN db \ p.delete, db[i].table = "version"
      PROVE  /\ d[i].onto = db[i].onto /\ d[i].label = db[i].label /\ d[i].at = db[i].at
             /\ d[i].status = db[i].status
  <2>1. {"onto", "label", "at", "status"} \subseteq DOMAIN db[i]
    BY <1>3, <1>6, OntologyColumns
  <2>2. i \in DOMAIN p.update => "status" \notin DOMAIN p.update[i]
    BY <1>6 DEF Quiet, TableOf
  <2> QED
    BY <1>1, <1>4, <2>1, <2>2, ColumnWritten
<1>7. ASSUME NEW i \in DOMAIN db \ p.delete, db[i].table = "ontology"
      PROVE  d[i].head = db[i].head
  <2>1. "head" \in DOMAIN db[i]
    BY <1>3, <1>7, OntologyColumns
  <2> QED
    BY <1>4, <2>1
<1>8. ASSUME NEW v \in TableOf(d, "version"), d[v].status = "PUBLISHED"
      PROVE  v \in TableOf(db, "version") \ p.delete /\ db[v].status = "PUBLISHED"
  <2>1. v \notin DOMAIN p.insert
    BY <1>2, <1>8 DEF Quiet, TableOf
  <2>2. v \in DOMAIN db \ p.delete
    BY <1>2, <2>1 DEF TableOf
  <2>3. db[v].table = "version"
    BY <1>5, <2>2 DEF TableOf
  <2> QED
    BY <1>6, <1>8, <2>2, <2>3 DEF TableOf
<1>9. ASSUME NEW v \in TableOf(d, "version"), d[v].status = "PUBLISHED"
      PROVE  DatedAt(d, v, now)
  <2> DEFINE o == db[v].onto
  <2>1. /\ v \in TableOf(db, "version") \ p.delete /\ db[v].status = "PUBLISHED"
        /\ DatedAt(db, v, now)
    BY <1>8, <1>9 DEF Dated
  <2>2. d[v].onto = o /\ d[v].label = db[v].label /\ d[v].at = db[v].at
    BY <1>6, <2>1 DEF TableOf
  <2>3. CASE o \notin DOMAIN d
    BY <2>1, <2>2, <2>3 DEF DatedAt
  <2>4. CASE o \in DOMAIN d
    <3>1. o \in DOMAIN db \ p.delete
      BY <1>2, <2>1, <2>4 DEF Quiet
    <3>2. db[o].table = "ontology" /\ d[o].table = "ontology" /\ d[o].head = db[o].head
      BY <1>5, <1>7, <2>1, <3>1 DEF DatedAt
    <3>3. ASSUME NEW w \in PublishedOf(db, o)
          PROVE  w \in PublishedOf(d, o) /\ d[w].at = db[w].at
      <4>1. w \in DOMAIN db \ p.delete /\ db[w].table = "version"
        BY <3>1 DEF Quiet, PublishedOf, TableOf
      <4>2. w \in DOMAIN d /\ d[w].table = "version"
        BY <1>2, <1>5, <4>1
      <4> QED
        BY <1>6, <4>1, <4>2 DEF PublishedOf, TableOf
    <3> HIDE DEF o
    <3> QED
      BY <2>1, <2>2, <3>1, <3>2, <3>3 DEF DatedAt, o
  <2> QED
    BY <2>3, <2>4
<1> QED
  BY <1>9 DEF Dated

\* A publication dates x, of o, later than all others, and makes its label the
\* head of o.
Tops(p, o, x, now) ==
  /\ o \in TableOf(db, "ontology") /\ p.delete = {}
  /\ DOMAIN p.insert \cap DOMAIN db = {} /\ DOMAIN p.insert \subseteq {x}
  /\ x \in DOMAIN p.insert => x \notin 1 .. made
  /\ x \in DOMAIN db => db[x].table = "version" /\ db[x].onto = o
  /\ DOMAIN p.update \subseteq {o, x}
  /\ o \in DOMAIN p.update => DOMAIN p.update[o] \subseteq {"head", "status"}
  /\ LET d == Written(p)
     IN /\ x \in TableOf(d, "version") /\ d[x].onto = o /\ d[x].status = "PUBLISHED"
        /\ d[o].head = d[x].label
        /\ d[x].at \in 1 .. now
        /\ \A v \in TableOf(db, "version") : db[v].status = "PUBLISHED" => db[v].at < d[x].at

LEMMA DatedTops ==
  ASSUME Base, AllTyped, Dated(db, made), NEW now \in Nat, made <= now,
         NEW p, NEW o, NEW x, Tops(p, o, x, now), NEW d, d = Written(p)
  PROVE  Dated(d, now)
<1>1. /\ o \in TableOf(db, "ontology") /\ p.delete = {}
      /\ DOMAIN p.insert \cap DOMAIN db = {} /\ DOMAIN p.insert \subseteq {x}
      /\ x \in DOMAIN p.insert => x \notin 1 .. made
      /\ x \in DOMAIN db => db[x].table = "version" /\ db[x].onto = o
      /\ DOMAIN p.update \subseteq {o, x}
      /\ o \in DOMAIN p.update => DOMAIN p.update[o] \subseteq {"head", "status"}
      /\ x \in TableOf(d, "version") /\ d[x].onto = o /\ d[x].status = "PUBLISHED"
      /\ d[o].head = d[x].label
      /\ d[x].at \in 1 .. now
      /\ \A v \in TableOf(db, "version") : db[v].status = "PUBLISHED" => db[v].at < d[x].at
  BY DEF Tops
<1>2. /\ DOMAIN d = DOMAIN db \cup DOMAIN p.insert
      /\ \A i \in DOMAIN db \ {o, x} : d[i] = db[i]
  <2>1. Became(p, d)
    BY <1>1, RowsWritten
  <2> QED
    BY <1>1, <2>1 DEF Became
<1>3. o \in DOMAIN d /\ d[o].table = "ontology"
  <2>1. o \in DOMAIN db \ p.delete /\ "table" \in DOMAIN db[o] /\ db[o].table = "ontology"
    BY <1>1, TableIsColumn DEF AllTyped, Typed, TableOf
  <2>2. o \in DOMAIN p.update => "table" \notin DOMAIN p.update[o]
    BY <1>1
  <2> QED
    BY <1>1, <2>1, <2>2, ColumnWritten
<1>4. o # x /\ o \in 1 .. made /\ 1 .. made \subseteq 1 .. now /\ made \in Nat
  BY <1>1, <1>3 DEF TableOf, Base
<1>5. DatedAt(d, x, now)
  BY <1>1, <1>3, <1>4 DEF DatedAt
<1>6. ASSUME NEW v \in TableOf(d, "version"), d[v].status = "PUBLISHED", v # x
      PROVE  DatedAt(d, v, now)
  <2> DEFINE k == d[v].onto
  <2>1. v \in DOMAIN db /\ d[v] = db[v] /\ v \in TableOf(db, "version")
    BY <1>1, <1>2, <1>3, <1>6 DEF TableOf
  <2>2. DatedAt(db, v, made) /\ db[v].at < d[x].at
    BY <1>1, <1>6, <2>1 DEF Dated
  <2>3. d[v].at \in 1 .. made /\ k \in 1 .. made
    BY <2>1, <2>2 DEF DatedAt
  <2>4. d[v].at \in 1 .. now /\ k \in 1 .. now
    BY <1>4, <2>3
  <2>5. CASE k = o
    <3>1. x \in PublishedOf(d, k) /\ ~(d[x].at <= d[v].at)
      BY <1>1, <2>1, <2>2, <2>3, <2>5 DEF PublishedOf
    <3> HIDE DEF k
    <3> QED
      BY <1>1, <1>3, <2>4, <2>5, <3>1 DEF DatedAt, k
  <2>6. CASE k # o
    <3>1. ASSUME k \in DOMAIN d
          PROVE  k \in DOMAIN db /\ d[k] = db[k] /\ db[k].table = "ontology"
                 /\ ((\A w \in PublishedOf(db, k) : db[w].at <= db[v].at) => db[k].head = db[v].label)
      <4>1. k \in DOMAIN db
        BY <1>1, <1>2, <2>3, <3>1
      <4>2. db[k].table = "ontology"
            /\ ((\A w \in PublishedOf(db, k) : db[w].at <= db[v].at) => db[k].head = db[v].label)
        BY <2>1, <2>2, <4>1 DEF DatedAt
      <4> QED
        BY <1>1, <1>2, <2>6, <4>1, <4>2
    <3>2. ASSUME NEW w \in PublishedOf(db, k)
          PROVE  w \in PublishedOf(d, k) /\ d[w].at = db[w].at
      <4>1. w \in DOMAIN db /\ db[w].table = "version" /\ db[w].onto = k
        BY <3>2 DEF PublishedOf, TableOf
      <4>2. w # x /\ w # o
        BY <1>1, <2>6, <4>1 DEF TableOf
      <4>3. d[w] = db[w] /\ w \in DOMAIN d
        BY <1>2, <4>1, <4>2
      <4> QED
        BY <3>2, <4>3 DEF PublishedOf, TableOf
    <3> HIDE DEF k
    <3> QED
      BY <2>1, <2>4, <3>1, <3>2 DEF DatedAt, k
  <2> QED
    BY <2>5, <2>6
<1> QED
  BY <1>5, <1>6 DEF Dated

-----------------------------------------------------------------------------
(* The endpoints of ontologies, and what they do later.                    *)

StartsDated(r) == \E plan, job : Begin(r, plan, job) /\ Dates(plan, job, made + 1)

GoesOnDated(r) ==
  \/ \E plan, job : Continue(r, plan, job) /\ Dates(plan, job, made)
  \/ \E job : Flush(r, job) /\ Dates(session[r].plan, job, made)

LEMMA MadeGrows == ASSUME Base PROVE made \in Nat /\ made + 1 \in Nat /\ made <= made + 1
BY DEF Base

\* A quiet plan, of a fork or of a request that has no more to read.
LEMMA DatesQuiet ==
  ASSUME Base, AllTyped, Dated(db, made), NEW p, Quiet(db, p), StartsAtHead(db, p), NEW job,
         \/ job[1] = "commit"
         \/ /\ job[1] \in {"fork", "copy", "copy rest"} /\ {1, 2, 3} \subseteq DOMAIN job
            /\ job[2] \in TableOf(db, "ontology")
  PROVE  Dates(p, job, made) /\ Dates(p, job, made + 1)
<1>1. made \in Nat /\ made + 1 \in Nat /\ made <= made + 1
  BY MadeGrows
<1>2. Dated(Written(p), made)
  BY DatedQuiet
<1>3. Dated(Written(p), made + 1)
  BY <1>1, <1>2, DatedLater
<1> QED
  BY <1>2, <1>3 DEF Dates

\* A plan that only updates columns that say nothing of publications.
LEMMA DatesSet ==
  ASSUME Base, AllTyped, Dated(db, made), NEW i, NEW columns,
         {"table", "head", "onto", "label", "at"} \cap DOMAIN columns = {},
         "status" \in DOMAIN columns => i \notin TableOf(db, "version")
  PROVE  Dates(Set(i, columns), Done, made + 1)
<1> DEFINE p == Set(i, columns)
<1>1. /\ p.insert = Nothing /\ p.delete = {} /\ DOMAIN p.update \subseteq {i}
      /\ \A j \in DOMAIN p.update : DOMAIN p.update[j] \subseteq DOMAIN columns
  BY SetIs
<1>2. Done[1] = "commit"
  BY DEF Done
<1> HIDE DEF p
<1>3. Quiet(db, p) /\ StartsAtHead(db, p)
  BY <1>1 DEF Quiet, StartsAtHead, TableOf, Nothing
<1>4. Dates(p, Done, made + 1)
  BY <1>2, <1>3, DatesQuiet
<1> QED
  BY <1>4 DEF p

LEMMA DatesDrop ==
  ASSUME Base, AllTyped, Dated(db, made), NEW gone,
         \A v \in gone \cap TableOf(db, "version") : db[v].onto \in gone
  PROVE  Dates(Drop(gone), Done, made + 1)
<1> DEFINE p == Drop(gone)
<1>1. p.insert = Nothing /\ p.update = Nothing /\ p.delete = gone
  BY DropIs
<1>2. Done[1] = "commit"
  BY DEF Done
<1> HIDE DEF p
<1>3. Quiet(db, p) /\ StartsAtHead(db, p)
  BY <1>1 DEF Quiet, StartsAtHead, TableOf, Nothing
<1>4. Dates(p, Done, made + 1)
  BY <1>2, <1>3, DatesQuiet
<1> QED
  BY <1>4 DEF p

LEMMA DatesNew ==
  ASSUME Base, AllTyped, Dated(db, made), NEW row,
         row.table = "version" =>
           /\ row.status # "PUBLISHED"
           /\ row.base \in TableOf(db, "version") => db[row.base].label = db[row.onto].head,
         NEW job,
         \/ job[1] = "commit"
         \/ /\ job[1] = "fork" /\ {1, 2, 3} \subseteq DOMAIN job
            /\ job[2] \in TableOf(db, "ontology")
  PROVE  Dates(New(row), job, made + 1)
<1> DEFINE n == made + 1
           p == New(row)
<1>1. p.insert = Only(n, row) /\ p.update = Nothing /\ p.delete = {}
  BY DEF New, NoPlan
<1>2. n \notin 1 .. made /\ n \notin DOMAIN db
  BY DEF Base
<1> HIDE DEF n
<1> HIDE DEF p
<1>3. DOMAIN p.insert = {n} /\ p.insert[n] = row /\ DOMAIN p.update = {}
  BY <1>1 DEF Only, Nothing
<1>4. \A v \in TableOf(db, "version") : db[v].status = "PUBLISHED" => db[v].onto # n
  BY <1>2 DEF Dated, DatedAt
<1>5. Quiet(db, p)
  BY <1>1, <1>2, <1>3, <1>4 DEF Quiet, TableOf
<1>6. StartsAtHead(db, p)
  BY <1>3 DEF StartsAtHead, TableOf
<1>7. Dates(p, job, made + 1)
  BY <1>5, <1>6, DatesQuiet
<1> QED
  BY <1>7 DEF p

\* What a row has in a column after a plan.
LEMMA ColumnIs ==
  ASSUME NEW p, DOMAIN p.insert \cap DOMAIN db = {}, NEW d, d = Written(p),
         NEW i \in DOMAIN db \ p.delete, NEW c \in DOMAIN db[i]
  PROVE  /\ i \in DOMAIN d
         /\ d[i][c] = IF i \in DOMAIN p.update /\ c \in DOMAIN p.update[i]
                      THEN p.update[i][c] ELSE db[i][c]
<1>1. Became(p, d)
  BY RowsWritten
<1>2. d[i] = IF i \in DOMAIN p.update THEN Over(p.update[i], db[i]) ELSE db[i]
  BY <1>1 DEF Became
<1> QED
  BY <1>1, <1>2 DEF Became, Over

LEMMA LatestIsHead ==
  ASSUME Base, Dated(db, made), NEW o \in Rows("ontology"), NEW v \in Latest(o)
  PROVE  db[v].label = db[o].head
<1>1. v \in TableOf(db, "version") /\ db[v].onto = o /\ db[v].status = "PUBLISHED" /\ o \in DOMAIN db
  BY DEF Latest, Of, Rows, TableOf
<1>2. \A w \in PublishedOf(db, o) : db[w].at <= db[v].at
  BY DEF Latest, Of, Rows, TableOf, PublishedOf
<1> QED
  BY <1>1, <1>2 DEF Dated, DatedAt

\* publish_version: the row of the version and that of its ontology.
LEMMA DatesPublication ==
  ASSUME Base, AllTyped, Dated(db, made), NEW v \in Rows("version"),
         db[v].onto \in Rows("ontology")
  PROVE  Dates(And(Set(v, [status |-> "PUBLISHED", at |-> made + 1]),
                   Set(db[v].onto, [head |-> db[v].label, status |-> "PUBLISHED"])), Done, made + 1)
<1> DEFINE o == db[v].onto
           one == [status |-> "PUBLISHED", at |-> made + 1]
           two == [head |-> db[v].label, status |-> "PUBLISHED"]
           s == Set(v, one)
           t == Set(o, two)
           p == And(s, t)
           d == Written(p)
<1>1. /\ DOMAIN one = {"status", "at"} /\ one["status"] = "PUBLISHED" /\ one["at"] = made + 1
      /\ DOMAIN two = {"head", "status"} /\ two["head"] = db[v].label
  OBVIOUS
<1>2. /\ v \in DOMAIN db /\ db[v].table = "version" /\ o \in DOMAIN db /\ db[o].table = "ontology"
      /\ v # o
      /\ DOMAIN db[v] = {"table", "onto", "label", "status", "at", "snapshot", "base"}
      /\ DOMAIN db[o] = {"table", "ns", "head", "status", "rev"}
  BY OntologyColumns DEF Rows, AllTyped, Typed
<1> HIDE DEF one, two, o
<1>3. /\ s.insert = Nothing /\ s.delete = {} /\ DOMAIN s.update \subseteq {v}
      /\ \A j \in DOMAIN s.update :
           /\ DOMAIN s.update[j] \subseteq DOMAIN one
           /\ \A c \in DOMAIN s.update[j] : s.update[j][c] = one[c]
      /\ \A c \in DOMAIN one :
           db[v][c] # one[c] => v \in DOMAIN s.update /\ c \in DOMAIN s.update[v]
  BY SetIs
<1>4. /\ t.insert = Nothing /\ t.delete = {} /\ DOMAIN t.update \subseteq {o}
      /\ \A j \in DOMAIN t.update :
           /\ DOMAIN t.update[j] \subseteq DOMAIN two
           /\ \A c \in DOMAIN t.update[j] : t.update[j][c] = two[c]
      /\ \A c \in DOMAIN two :
           db[o][c] # two[c] => o \in DOMAIN t.update /\ c \in DOMAIN t.update[o]
  BY SetIs
<1> HIDE DEF s, t
<1>5. /\ DOMAIN p.insert = {} /\ p.delete = {}
      /\ DOMAIN p.update = DOMAIN s.update \cup DOMAIN t.update
      /\ \A j \in DOMAIN s.update : p.update[j] = s.update[j]
      /\ \A j \in DOMAIN t.update : p.update[j] = t.update[j]
  BY <1>2, <1>3, <1>4 DEF And, Over, Nothing
<1> HIDE DEF p
<1>6. \A i \in DOMAIN db : \A c \in DOMAIN db[i] :
        /\ i \in DOMAIN d
        /\ d[i][c] = IF i \in DOMAIN p.update /\ c \in DOMAIN p.update[i]
                     THEN p.update[i][c] ELSE db[i][c]
  BY <1>5, ColumnIs
<1> HIDE DEF d
<1>7. v \in DOMAIN p.update <=> v \in DOMAIN s.update
  BY <1>2, <1>3, <1>4, <1>5
<1>8. o \in DOMAIN p.update <=> o \in DOMAIN t.update
  BY <1>2, <1>3, <1>4, <1>5
<1>9. d[v]["status"] = "PUBLISHED" /\ d[v]["at"] = made + 1
  BY <1>1, <1>2, <1>3, <1>5, <1>6, <1>7
<1>10. v \in DOMAIN d /\ d[v]["table"] = "version" /\ d[v]["onto"] = o /\ d[v]["label"] = db[v].label
  BY <1>1, <1>2, <1>3, <1>5, <1>6, <1>7 DEF o
<1>11. d[o]["head"] = db[v].label
  BY <1>1, <1>2, <1>4, <1>5, <1>6, <1>8
<1>12. \A w \in TableOf(db, "version") : db[w].status = "PUBLISHED" => db[w].at < made + 1
  BY DEF Dated, DatedAt, Base
<1>13. made + 1 \in 1 .. made + 1
  BY DEF Base
<1>14. o \in DOMAIN p.update => DOMAIN p.update[o] \subseteq {"head", "status"}
  BY <1>1, <1>4, <1>5, <1>8
<1>15. Tops(p, o, v, made + 1)
  BY <1>2, <1>3, <1>4, <1>5, <1>9, <1>10, <1>11, <1>12, <1>13, <1>14 DEF Tops, TableOf, o, d
<1>16. Dated(Written(p), made + 1)
  BY <1>15, MadeGrows, DatedTops
<1>17. Done[1] = "commit"
  BY DEF Done
<1>18. StartsAtHead(db, p)
  BY <1>5 DEF StartsAtHead, TableOf
<1>19. Dates(p, Done, made + 1)
  BY <1>16, <1>17, <1>18 DEF Dates
<1> QED
  BY <1>19 DEF p, s, t, one, two, o

LEMMA DatedStarts ==
  ASSUME Base, AllTyped, Dated(db, made), NEW r \in Requests,
         ContentRequest(r) \/ VersionRequest(r)
  PROVE  StartsDated(r)
<1>0. /\ \A plan, job : Begin(r, plan, job) /\ Dates(plan, job, made + 1) => StartsDated(r)
      /\ Done[1] = "commit" /\ "version" \notin Content
      /\ \A table : Rows(table) = TableOf(db, table)
  BY DEF StartsDated, Done, Content, Rows, TableOf
<1>1. CASE CreateOntology(r)
  <2>1. PICK ns : Begin(r, New(Ontology(ns, None)), Done)
    BY <1>1 DEF CreateOntology
  <2>2. Dates(New(Ontology(ns, None)), Done, made + 1)
    BY <1>0, DatesNew DEF Ontology
  <2> QED
    BY <1>0, <2>1, <2>2
<1>2. CASE ForkOntology(r)
  <2>1. PICK src \in Rows("ontology") :
          \E ns, tag : Begin(r, New(Ontology(ns, tag)), <<"fork", src, made + 1>>)
    BY <1>2 DEF ForkOntology
  <2>2. PICK ns, tag : Begin(r, New(Ontology(ns, tag)), <<"fork", src, made + 1>>)
    BY <2>1
  <2> DEFINE job == <<"fork", src, made + 1>>
  <2>3. job[1] = "fork" /\ job[2] = src /\ {1, 2, 3} \subseteq DOMAIN job
    OBVIOUS
  <2> HIDE DEF job
  <2>4. job[2] \in TableOf(db, "ontology")
    BY <1>0, <2>3
  <2>5. Dates(New(Ontology(ns, tag)), job, made + 1)
    BY <2>3, <2>4, DatesNew DEF Ontology
  <2> QED
    BY <1>0, <2>2, <2>5 DEF job
<1>3. CASE UpdateOntology(r) \/ UpdateClass(r) \/ UpdateProperty(r) \/ UpdateConstraint(r)
  <2>1. PICK i, rev : Begin(r, Set(i, [rev |-> rev]), Done)
    BY <1>3 DEF UpdateOntology, UpdateClass, UpdateProperty, UpdateConstraint, Edit
  <2>2. Dates(Set(i, [rev |-> rev]), Done, made + 1)
    BY DatesSet
  <2> QED
    BY <1>0, <2>1, <2>2
<1>4. CASE UpdateVersionContent(r)
  <2>1. PICK i : Begin(r, Set(i, [snapshot |-> {}]), Done)
    BY <1>4 DEF UpdateVersionContent
  <2>2. Dates(Set(i, [snapshot |-> {}]), Done, made + 1)
    BY DatesSet
  <2> QED
    BY <1>0, <2>1, <2>2
<1>5. CASE UpdateOntologyStatus(r)
  <2>1. PICK i \in Rows("ontology"), s \in OntologyStatus : Begin(r, Set(i, [status |-> s]), Done)
    BY <1>5 DEF UpdateOntologyStatus
  <2>2. i \notin TableOf(db, "version")
    BY DEF Rows, TableOf
  <2>3. Dates(Set(i, [status |-> s]), Done, made + 1)
    BY <2>2, DatesSet
  <2> QED
    BY <1>0, <2>1, <2>3
<1>6. CASE PublishOntology(r)
  <2>1. PICK o \in Rows("ontology") : \E label :
          Begin(r, Set(o, [head |-> label, status |-> "PUBLISHED"]), <<"publish", o, label>>)
    BY <1>6 DEF PublishOntology
  <2>2. PICK label :
          Begin(r, Set(o, [head |-> label, status |-> "PUBLISHED"]), <<"publish", o, label>>)
    BY <2>1
  <2> DEFINE job == <<"publish", o, label>>
             columns == [head |-> label, status |-> "PUBLISHED"]
             p == Set(o, columns)
  <2>3. job[1] = "publish" /\ job[2] = o /\ job[3] = label
        /\ DOMAIN columns = {"head", "status"} /\ columns["head"] = label
    OBVIOUS
  <2> HIDE DEF job, columns
  <2>4. /\ p.insert = Nothing /\ p.delete = {} /\ DOMAIN p.update \subseteq {o}
        /\ \A j \in DOMAIN p.update :
             /\ DOMAIN p.update[j] \subseteq DOMAIN columns
             /\ \A c \in DOMAIN p.update[j] : p.update[j][c] = columns[c]
        /\ db[o]["head"] # columns["head"] => o \in DOMAIN p.update /\ "head" \in DOMAIN p.update[o]
    BY <2>3, SetIs
  <2> HIDE DEF p
  <2>5. label = IF o \in DOMAIN p.update /\ "head" \in DOMAIN p.update[o]
                THEN p.update[o].head ELSE db[o].head
    BY <2>3, <2>4
  <2>6. \A v \in TableOf(db, "version") : db[v].status = "PUBLISHED" => db[v].at < made + 1
    BY DEF Dated, DatedAt, Base
  <2>7. HalfPublished(db, p, o, label, made + 1)
    BY <1>0, <2>3, <2>4, <2>5, <2>6 DEF HalfPublished, Nothing
  <2>8. StartsAtHead(db, p)
    BY <2>4 DEF StartsAtHead, TableOf, Nothing
  <2>9. Dates(p, job, made + 1)
    BY <2>3, <2>7, <2>8 DEF Dates
  <2> QED
    BY <1>0, <2>2, <2>9 DEF p, job, columns
<1>7. CASE PublishVersion(r)
  <2>1. PICK v \in Rows("version") :
          /\ db[v].onto \in Rows("ontology")
          /\ Begin(r, And(Set(v, [status |-> "PUBLISHED", at |-> made + 1]),
                          Set(db[v].onto, [head |-> db[v].label, status |-> "PUBLISHED"])), Done)
    BY <1>7 DEF PublishVersion
  <2>2. Dates(And(Set(v, [status |-> "PUBLISHED", at |-> made + 1]),
                  Set(db[v].onto, [head |-> db[v].label, status |-> "PUBLISHED"])), Done, made + 1)
    BY <2>1, DatesPublication
  <2> QED
    BY <1>0, <2>1, <2>2
<1>8. CASE CreateClass(r) \/ CreateProperty(r) \/ CreateRelation(r) \/ CreateConstraint(r)
  <2>1. ASSUME NEW table \in Content, NEW o, NEW iri, NEW ref, NEW link, NEW rev,
               Begin(r, New(Element(table, o, iri, ref, link, rev)), Done)
        PROVE  StartsDated(r)
    <3>1. Element(table, o, iri, ref, link, rev).table # "version"
      BY <1>0 DEF Element
    <3>2. Dates(New(Element(table, o, iri, ref, link, rev)), Done, made + 1)
      BY <1>0, <3>1, DatesNew
    <3> QED
      BY <1>0, <2>1, <3>2
  <2>2. {"class", "property", "relation", "constraint"} \subseteq Content
    BY DEF Content
  <2>3. CASE CreateClass(r)
    BY <2>1, <2>2, <2>3 DEF CreateClass
  <2>4. CASE CreateProperty(r)
    BY <2>1, <2>2, <2>4 DEF CreateProperty
  <2>5. CASE CreateRelation(r)
    BY <2>1, <2>2, <2>5 DEF CreateRelation
  <2>6. CASE CreateConstraint(r)
    BY <2>1, <2>2, <2>6 DEF CreateConstraint
  <2> QED
    BY <1>8, <2>3, <2>4, <2>5, <2>6
<1>9. CASE CreateDraftVersion(r)
  <2>1. ASSUME NEW o, NEW label, NEW snapshot, NEW base,
               base \in TableOf(db, "version") => db[base].label = db[o].head,
               Begin(r, New(Version(o, label, "DRAFT", None, snapshot, base)), Done)
        PROVE  StartsDated(r)
    <3> DEFINE row == Version(o, label, "DRAFT", None, snapshot, base)
    <3>1. row.status = "DRAFT" /\ row.base = base /\ row.onto = o
      BY DEF Version
    <3> HIDE DEF row
    <3>2. Dates(New(row), Done, made + 1)
      BY <1>0, <2>1, <3>1, DatesNew
    <3> QED
      BY <1>0, <2>1, <3>2 DEF row
  <2>2. PICK o \in Rows("ontology"), label \in Labels :
          \/ Begin(r, New(Version(o, label, "DRAFT", None, {}, None)), Done)
          \/ \E parent \in Latest(o) :
               Begin(r, New(Version(o, label, "DRAFT", None, db[parent].snapshot, parent)), Done)
    BY <1>9 DEF CreateDraftVersion
  <2>3. CASE Begin(r, New(Version(o, label, "DRAFT", None, {}, None)), Done)
    <3>1. None \notin TableOf(db, "version")
      BY NoneIsNoNumber DEF TableOf, Base
    <3> QED
      BY <2>1, <2>3, <3>1
  <2>4. ASSUME NEW parent \in Latest(o),
               Begin(r, New(Version(o, label, "DRAFT", None, db[parent].snapshot, parent)), Done)
        PROVE  StartsDated(r)
    <3>1. db[parent].label = db[o].head
      BY LatestIsHead
    <3> QED
      BY <2>1, <2>4, <3>1
  <2> QED
    BY <2>2, <2>3, <2>4
<1>10. CASE DeleteClass(r) \/ DeleteProperty(r) \/ DeleteRelation(r) \/ DeleteConstraint(r)
  <2>1. {"class", "property", "relation", "constraint"} \subseteq Content
    BY DEF Content
  <2>2. PICK table \in Content : Delete(r, table)
    BY <1>10, <2>1 DEF DeleteClass, DeleteProperty, DeleteRelation, DeleteConstraint
  <2>3. PICK i \in Rows(table) : Begin(r, Drop(WithDependents({i})), Done)
    BY <2>2 DEF Delete
  <2>4. {i} \subseteq DOMAIN db /\ \A j \in {i} : db[j].table \in Content
    BY DEF Rows
  <2>5. \A j \in WithDependents({i}) : db[j].table \in Content
    BY <2>4, DependentsAreContent
  <2>6. WithDependents({i}) \cap TableOf(db, "version") = {}
    BY <1>0, <2>5 DEF TableOf
  <2>7. Dates(Drop(WithDependents({i})), Done, made + 1)
    BY <2>6, DatesDrop
  <2> QED
    BY <1>0, <2>3, <2>7
<1>11. CASE DeleteOntology(r)
  <2>1. PICK o \in Rows("ontology") :
          Begin(r, Drop({o} \cup Of(o, "version")
                        \cup WithDependents(Elements(o) \ Of(o, "constraint"))), Done)
    BY <1>11 DEF DeleteOntology
  <2> DEFINE elements == Elements(o) \ Of(o, "constraint")
             gone == {o} \cup Of(o, "version") \cup WithDependents(elements)
  <2>2. elements \subseteq DOMAIN db /\ \A i \in elements : db[i].table \in Content
    BY DEF Elements, Of, Rows
  <2> HIDE DEF elements
  <2>3. \A i \in WithDependents(elements) : db[i].table \in Content
    BY <2>2, DependentsAreContent
  <2>4. \A v \in gone \cap TableOf(db, "version") : db[v].onto \in gone
    BY <1>0, <2>3 DEF TableOf, Of, Rows
  <2> HIDE DEF gone
  <2>5. Dates(Drop(gone), Done, made + 1)
    BY <2>4, DatesDrop
  <2> QED
    BY <1>0, <2>1, <2>5 DEF gone, elements
<1> QED
  BY <1>1, <1>2, <1>3, <1>4, <1>5, <1>6, <1>7, <1>8, <1>9, <1>10, <1>11
     DEF ContentRequest, VersionRequest

-----------------------------------------------------------------------------
(* What a publication or a fork does later.                                *)

\* A quiet plan with more rows that publish nothing, and drafts of no version.
LEMMA MoreIsQuiet ==
  ASSUME Base, Dated(db, made), NEW p, Quiet(db, p), StartsAtHead(db, p), NEW q,
         q.delete = p.delete, DOMAIN q.update = DOMAIN p.update,
         \A i \in DOMAIN p.update : q.update[i] = p.update[i],
         \A i \in DOMAIN p.insert : i \in DOMAIN q.insert /\ q.insert[i] = p.insert[i],
         \A i \in DOMAIN q.insert \ DOMAIN p.insert :
           /\ i \notin 1 .. made
           /\ q.insert[i].table = "version" =>
                q.insert[i].status # "PUBLISHED" /\ q.insert[i].base \notin TableOf(db, "version")
  PROVE  Quiet(db, q) /\ StartsAtHead(db, q)
<1>1. DOMAIN db \subseteq 1 .. made
  BY DEF Base
<1>2. \A v \in TableOf(db, "version") : db[v].status = "PUBLISHED" => db[v].onto \in 1 .. made
  BY DEF Dated, DatedAt
<1>3. DOMAIN q.insert \cap DOMAIN db = {}
  BY <1>1 DEF Quiet
<1>4. \A v \in TableOf(q.insert, "version") :
        \/ v \in TableOf(p.insert, "version") /\ q.insert[v] = p.insert[v]
        \/ q.insert[v].status # "PUBLISHED" /\ q.insert[v].base \notin TableOf(db, "version")
  BY DEF TableOf
<1>5. \A v \in TableOf(db, "version") : db[v].status = "PUBLISHED" => db[v].onto \notin DOMAIN q.insert
  BY <1>2 DEF Quiet
<1>6. Quiet(db, q)
  BY <1>3, <1>4, <1>5 DEF Quiet
<1>7. StartsAtHead(db, q)
  BY <1>4 DEF StartsAtHead
<1> QED
  BY <1>6, <1>7

\* The identifier of the next row of a plan.
LEMMA NextIsNew ==
  ASSUME Base, NEW r \in Requests, NEW q, Good(r, q), NEW row
  PROVE  \E e : /\ e \notin 1 .. made /\ e \notin DOMAIN q.insert
                /\ AndNew(q, row) = [insert |-> Over(q.insert, Only(e, row)),
                                     update |-> q.update, delete |-> q.delete]
<1> DEFINE e == Max({made} \cup DOMAIN q.insert) + 1
<1>1. made \in Nat
  BY DEF Base
<1>2. PICK n \in Nat : DOMAIN q.insert \subseteq 0 .. n
  BY DEF Good
<1>3. /\ Max({made} \cup DOMAIN q.insert) \in Nat
      /\ made <= Max({made} \cup DOMAIN q.insert)
      /\ \A i \in DOMAIN q.insert : i <= Max({made} \cup DOMAIN q.insert)
  BY <1>1, <1>2, MaxAbove
<1>4. e \notin 1 .. made /\ e \notin DOMAIN q.insert
  <2> DEFINE m == Max({made} \cup DOMAIN q.insert)
  <2>1. m \in Nat /\ made <= m /\ \A i \in DOMAIN q.insert : i \in Nat /\ i <= m
    BY <1>2, <1>3
  <2>2. e = m + 1
    OBVIOUS
  <2> HIDE DEF m, e
  <2> QED
    BY <1>1, <2>1, <2>2
<1>5. AndNew(q, row) = [insert |-> Over(q.insert, Only(e, row)),
                        update |-> q.update, delete |-> q.delete]
  BY DEF AndNew, Good, IsPlan
<1> HIDE DEF e
<1> QED
  BY <1>4, <1>5

LEMMA ReadsClassesDated ==
  ASSUME Base, NEW r \in Requests, Dates(session[r].plan, session[r].job, made),
         PublishReadsClasses(r)
  PROVE  GoesOnDated(r)
<1> DEFINE p == session[r].plan
           job == session[r].job
           next == <<"publish rest", job[2], job[3], Snapshot(Of(job[2], "class"))>>
<1>1. job[1] = "publish" /\ Continue(r, p, next)
  BY DEF PublishReadsClasses
<1>2. next[1] = "publish rest" /\ next[2] = job[2] /\ next[3] = job[3]
  OBVIOUS
<1> HIDE DEF p, next, job
<1>3. Dates(p, job, made)
  BY DEF p, job
<1>4. Dates(p, next, made)
  BY <1>1, <1>2, <1>3 DEF Dates
<1> QED
  BY <1>1, <1>4 DEF GoesOnDated

\* The new version is dated later than all others of any ontology.
LEMMA ReadsRestDated ==
  ASSUME Base, AllTyped, Dated(db, made), NEW r \in Requests,
         Dates(session[r].plan, session[r].job, made), PublishReadsRest(r)
  PROVE  GoesOnDated(r)
<1> DEFINE p == session[r].plan
           job == session[r].job
           o == job[2]
           snapshot == job[4] \cup Snapshot(Elements(o) \ Of(o, "class"))
           row == Version(o, job[3], "PUBLISHED", made, snapshot, None)
           q == AndNew(p, row)
           d == Written(q)
<1>1. job[1] = "publish rest" /\ Continue(r, q, Done)
  BY DEF PublishReadsRest
<1>2. HalfPublished(db, p, o, job[3], made) /\ Good(r, p)
  BY <1>1 DEF Dates, Base
<1>3. /\ row.table = "version" /\ row.onto = o /\ row.status = "PUBLISHED"
      /\ row.at = made /\ row.label = job[3]
  BY DEF Version
<1> HIDE DEF row, o, p, job
<1>4. PICK e : /\ e \notin 1 .. made
               /\ q = [insert |-> Over(p.insert, Only(e, row)),
                       update |-> p.update, delete |-> p.delete]
  BY <1>2, NextIsNew
<1> HIDE DEF q
<1>5. /\ o \in TableOf(db, "ontology") /\ DOMAIN p.insert = {} /\ p.delete = {}
      /\ DOMAIN p.update \subseteq {o}
      /\ o \in DOMAIN p.update => DOMAIN p.update[o] \subseteq {"head", "status"}
      /\ job[3] = IF o \in DOMAIN p.update /\ "head" \in DOMAIN p.update[o]
                  THEN p.update[o].head ELSE db[o].head
      /\ \A v \in TableOf(db, "version") : db[v].status = "PUBLISHED" => db[v].at < made
  BY <1>2 DEF HalfPublished
<1>6. DOMAIN q.insert = {e} /\ q.insert[e] = row /\ q.update = p.update /\ q.delete = {}
  BY <1>4, <1>5 DEF Over, Only
<1>7. e \notin DOMAIN db /\ o \in DOMAIN db /\ made \in 1 .. made
  BY <1>4, <1>5 DEF Base, TableOf
<1>8. DOMAIN q.insert \cap DOMAIN db = {}
  BY <1>6, <1>7
<1>9. e \in DOMAIN d /\ d[e] = row
  <2>1. Became(q, d)
    BY <1>8, RowsWritten
  <2> QED
    BY <1>6, <2>1 DEF Became
<1>10. d[o]["head"] = job[3]
  <2>1. "head" \in DOMAIN db[o]
    BY <1>5, <1>7, OntologyColumns DEF AllTyped, Typed, TableOf
  <2>2. o \in DOMAIN db \ q.delete
    BY <1>6, <1>7
  <2> HIDE DEF d
  <2>3. d[o]["head"] = IF o \in DOMAIN q.update /\ "head" \in DOMAIN q.update[o]
                       THEN q.update[o]["head"] ELSE db[o]["head"]
    BY <1>8, <2>1, <2>2, ColumnIs DEF d
  <2> QED
    BY <1>5, <1>6, <2>3
<1> HIDE DEF d
<1>11. Tops(q, o, e, made)
  BY <1>3, <1>4, <1>5, <1>6, <1>7, <1>8, <1>9, <1>10 DEF Tops, TableOf, d
<1>12. made \in Nat /\ made <= made
  BY DEF Base
<1>13. Dated(Written(q), made)
  BY <1>11, <1>12, DatedTops
<1>14. StartsAtHead(db, q)
  BY <1>3, <1>6 DEF StartsAtHead, TableOf
<1>15. Done[1] = "commit"
  BY DEF Done
<1>16. Dates(q, Done, made)
  BY <1>13, <1>14, <1>15 DEF Dates
<1> QED
  BY <1>1, <1>16 DEF GoesOnDated

LEMMA FlushDated ==
  ASSUME Base, AllTyped, Dated(db, made), NEW r \in Requests,
         Dates(session[r].plan, session[r].job, made), ForkFlushes(r)
  PROVE  GoesOnDated(r)
<1> DEFINE p == session[r].plan
           job == session[r].job
           next == [job EXCEPT ![1] = "copy"]
<1>1. job[1] = "fork" /\ Flush(r, next)
  BY DEF ForkFlushes
<1>2. /\ Quiet(db, p) /\ StartsAtHead(db, p) /\ job[2] \in TableOf(db, "ontology")
      /\ {1, 2, 3} \subseteq DOMAIN job
  BY <1>1 DEF Dates
<1> HIDE DEF job
<1>3. next[1] = "copy" /\ next[2] = job[2] /\ DOMAIN next = DOMAIN job
  <2>1. \A f : {1, 2, 3} \subseteq DOMAIN f =>
          LET g == [f EXCEPT ![1] = "copy"]
          IN g[1] = "copy" /\ g[2] = f[2] /\ DOMAIN g = DOMAIN f
    OBVIOUS
  <2> QED
    BY <1>2, <2>1
<1> HIDE DEF next, p
<1>4. Dates(p, next, made)
  BY <1>2, <1>3, DatesQuiet
<1> QED
  BY <1>1, <1>4 DEF GoesOnDated, p

LEMMA CopyDated ==
  ASSUME Base, AllTyped, Dated(db, made), NEW r \in Requests,
         Dates(session[r].plan, session[r].job, made), ForkCopiesClasses(r)
  PROVE  GoesOnDated(r)
<1> DEFINE job == session[r].job
           p == session[r].plan
           o == job[3]
           ns == p.insert[o].ns
           classes == Of(job[2], "class")
           c == Copies(classes, o, ns)
           q == And(p, c)
           next == <<"copy rest", job[2], o, Snapshot(classes)>>
<1>1. job[1] = "copy" /\ Continue(r, q, next)
  BY DEF ForkCopiesClasses
<1>2. /\ Quiet(db, p) /\ StartsAtHead(db, p) /\ job[2] \in TableOf(db, "ontology")
      /\ DOMAIN p.insert \subseteq 1 .. made
  BY <1>1 DEF Dates, Base
<1>3. classes \subseteq DOMAIN db /\ \A i \in classes : db[i].table \in Content
  BY DEF Of, Rows, Content
<1>4. next[1] = "copy rest" /\ next[2] = job[2] /\ {1, 2, 3} \subseteq DOMAIN next
  OBVIOUS
<1> HIDE DEF next, classes, ns, o, job, p
<1>5. AddsCopies(p, q, o, ns, classes)
  BY <1>2, <1>3, WithMoreCopies
<1>6. c.delete = {}
  BY <1>3, CopiesAre
<1>7. q.delete = p.delete
  BY <1>6 DEF And
<1> HIDE DEF q, c
<1>8. /\ DOMAIN q.update = DOMAIN p.update
      /\ \A i \in DOMAIN p.update : q.update[i] = p.update[i]
      /\ \A i \in DOMAIN p.insert : i \in DOMAIN q.insert /\ q.insert[i] = p.insert[i]
      /\ \A i \in DOMAIN q.insert \ DOMAIN p.insert :
           i \notin 1 .. made /\ q.insert[i].table # "version"
  BY <1>5 DEF AddsCopies, Content
<1>9. Quiet(db, q) /\ StartsAtHead(db, q)
  BY <1>2, <1>7, <1>8, MoreIsQuiet
<1>10. Dates(q, next, made)
  BY <1>2, <1>4, <1>9, DatesQuiet
<1> QED
  BY <1>1, <1>10 DEF GoesOnDated

\* The draft of a fork is of an ontology, not of a version.
LEMMA CopyRestDated ==
  ASSUME Base, AllTyped, Dated(db, made), NEW r \in Requests,
         Dates(session[r].plan, session[r].job, made), ForkCopiesRest(r)
  PROVE  GoesOnDated(r)
<1> DEFINE job == session[r].job
           p == session[r].plan
           src == job[2]
           o == job[3]
           ns == p.insert[o].ns
           rest == Elements(src) \ Of(src, "class")
           row == Version(o, p.insert[o].head, "DRAFT", None, job[4] \cup Snapshot(rest), src)
           c == Copies(rest, o, ns)
           q == And(p, c)
           s == AndNew(q, row)
<1>1. job[1] = "copy rest" /\ Continue(r, s, Done)
  BY DEF ForkCopiesRest
<1>2. /\ Quiet(db, p) /\ StartsAtHead(db, p) /\ src \in TableOf(db, "ontology")
      /\ DOMAIN p.insert \subseteq 1 .. made /\ Good(r, p)
  BY <1>1 DEF Dates, Base
<1>3. rest \subseteq DOMAIN db /\ \A i \in rest : db[i].table \in Content
  BY DEF Elements, Of, Rows
<1>4. row.table = "version" /\ row.status = "DRAFT" /\ row.base = src
  BY DEF Version
<1>5. src \notin TableOf(db, "version")
  BY <1>2 DEF TableOf
<1>6. Good(r, q)
  <2>1. Good(r, c)
    BY <1>3, GoodCopies
  <2> QED
    BY <1>2, <2>1, GoodAnd
<1> HIDE DEF row, rest, ns, o, src, p, job
<1>7. AddsCopies(p, q, o, ns, rest)
  BY <1>2, <1>3, WithMoreCopies
<1>8. c.delete = {}
  BY <1>3, CopiesAre
<1>9. q.delete = p.delete
  BY <1>8 DEF And
<1> HIDE DEF q, c
<1>10. /\ DOMAIN q.update = DOMAIN p.update
       /\ \A i \in DOMAIN p.update : q.update[i] = p.update[i]
       /\ \A i \in DOMAIN p.insert : i \in DOMAIN q.insert /\ q.insert[i] = p.insert[i]
       /\ \A i \in DOMAIN q.insert \ DOMAIN p.insert :
            i \notin 1 .. made /\ q.insert[i].table # "version"
  BY <1>7 DEF AddsCopies, Content
<1>11. PICK e : /\ e \notin 1 .. made /\ e \notin DOMAIN q.insert
                /\ s = [insert |-> Over(q.insert, Only(e, row)),
                        update |-> q.update, delete |-> q.delete]
  BY <1>6, NextIsNew
<1> HIDE DEF s
<1>12. /\ s.update = q.update /\ s.delete = q.delete
       /\ DOMAIN s.insert = DOMAIN q.insert \cup {e} /\ s.insert[e] = row
       /\ \A i \in DOMAIN q.insert : s.insert[i] = q.insert[i]
  BY <1>11 DEF Over, Only
<1>13. \A i \in DOMAIN p.insert : i \in DOMAIN s.insert /\ s.insert[i] = p.insert[i]
  BY <1>10, <1>12
<1>14. \A i \in DOMAIN s.insert \ DOMAIN p.insert :
         /\ i \notin 1 .. made
         /\ s.insert[i].table = "version" =>
              s.insert[i].status # "PUBLISHED" /\ s.insert[i].base \notin TableOf(db, "version")
  BY <1>4, <1>5, <1>10, <1>11, <1>12
<1>15. Quiet(db, s) /\ StartsAtHead(db, s)
  BY <1>2, <1>9, <1>10, <1>12, <1>13, <1>14, MoreIsQuiet
<1>16. Done[1] = "commit"
  BY DEF Done
<1>17. Dates(s, Done, made)
  BY <1>15, <1>16, DatesQuiet
<1> QED
  BY <1>1, <1>17 DEF GoesOnDated

-----------------------------------------------------------------------------
(* Every behaviour.                                                        *)

LEMMA DatedSame ==
  ASSUME db' = db
  PROVE  /\ \A n : Dated(db, n) => Dated(db, n)'
         /\ \A p, job, n : Dates(p, job, n) => Dates(p, job, n)'
<1>1. \A n : Dated(db, n) => Dated(db, n)'
  BY DEF Dated, DatedAt, PublishedOf, TableOf
<1>2. \A p : (Quiet(db, p) => Quiet(db, p)') /\ (StartsAtHead(db, p) => StartsAtHead(db, p)')
  BY DEF Quiet, StartsAtHead, TableOf
<1>3. \A p, o, label, n : HalfPublished(db, p, o, label, n) => HalfPublished(db, p, o, label, n)'
  BY DEF HalfPublished, TableOf
<1>4. \A p : Written(p)' = Written(p)
  BY DEF Written
<1>5. TableOf(db, "ontology")' = TableOf(db, "ontology")
  BY DEF TableOf
<1>6. \A p, n : Dated(Written(p), n) => Dated(Written(p), n)'
  BY <1>4 DEF Dated, DatedAt, PublishedOf, TableOf
<1> QED
  BY <1>1, <1>2, <1>3, <1>5, <1>6 DEF Dates

\* The one that is open gets a plan.
LEMMA PlanHeadings ==
  ASSUME Base, Headings, NEW r \in Requests, NEW plan, NEW job, NEW now \in Nat,
         ~overlap /\ Publication => Dates(plan, job, now),
         made' \in Nat, made <= now, now <= made',
         session'[r].plan = plan, session'[r].job = job,
         \A q \in Requests \ {r} : session'[q] = session[q],
         ~overlap /\ Publication => \A q \in Requests \ {r} : ~session[q].open,
         db' = db, scenario' = scenario
  PROVE  Headings'
<1>1. overlap' = overlap /\ Publication' = Publication
  BY DEF overlap, Publication, Uses
<1> SUFFICES ASSUME ~overlap, Publication PROVE Headings'
  BY <1>1 DEF Headings
<1>2. made \in Nat /\ made <= made'
  BY DEF Base
<1>3. Dated(db, made')
  BY <1>2, DatedLater DEF Headings
<1>4. Dated(db, made)'
  <2>1. \A n : n = made' => Dated(db, n)'
    BY <1>3, DatedSame
  <2> QED
    BY <2>1
<1>5. Dates(plan, job, made')
  <2>1. Dated(db, now)
    BY <1>2, DatedLater DEF Headings
  <2> QED
    BY <2>1, DatedLater
<1>6. ASSUME NEW q \in Requests, session'[q].open
      PROVE  q = r /\ Dates(session[q].plan, session[q].job, made)'
  <2>1. q = r
    BY <1>6
  <2>2. \A x, y, n : x = plan /\ y = job /\ n = made' => Dates(x, y, n)'
    BY <1>5, DatedSame
  <2> QED
    BY <2>1, <2>2
<1> QED
  BY <1>4, <1>6 DEF Headings

LEMMA DropHeadings ==
  ASSUME Base, Headings, db' = db, made' = made, scenario' = scenario,
         \A q \in Requests : session'[q] \in {session[q], Closed}
  PROVE  Headings'
<1>1. overlap' = overlap /\ Publication' = Publication
  BY DEF overlap, Publication, Uses
<1> SUFFICES ASSUME ~overlap, Publication PROVE Headings'
  BY <1>1 DEF Headings
<1>2. Dated(db, made)'
  <2>1. \A n : n = made => Dated(db, n)'
    BY DatedSame DEF Headings
  <2> QED
    BY <2>1
<1>3. ASSUME NEW q \in Requests, session'[q].open
      PROVE  session[q].open /\ Dates(session[q].plan, session[q].job, made)'
  <2>1. session'[q] = session[q]
    BY <1>3 DEF Closed
  <2>2. Dates(session[q].plan, session[q].job, made)
    BY <1>3, <2>1 DEF Headings
  <2>3. \A x, y, n : x = session[q].plan /\ y = session[q].job /\ n = made => Dates(x, y, n)'
    BY <2>2, DatedSame
  <2> QED
    BY <1>3, <2>1, <2>3
<1>4. \A q, r \in Requests : session[q].open /\ session[r].open => q = r
  BY DEF Headings
<1> QED
  BY <1>2, <1>3, <1>4 DEF Headings

LEMMA CommitHeadings ==
  ASSUME Base, Headings, NEW r \in Requests, Commit(r)
  PROVE  Headings'
<1>1. /\ db' = Written(session[r].plan) /\ made' = made /\ scenario' = scenario
      /\ session'[r] = Closed /\ \A q \in Requests \ {r} : session'[q] = session[q]
  BY CommitKeeps
<1>2. overlap' = overlap /\ Publication' = Publication
  BY <1>1 DEF overlap, Publication, Uses
<1> SUFFICES ASSUME ~overlap, Publication PROVE Headings'
  BY <1>2 DEF Headings
<1>3. session[r].open /\ session[r].job[1] = "commit"
  BY DEF Commit
<1>4. Dated(Written(session[r].plan), made)
  BY <1>3 DEF Headings, Dates
<1>5. Dated(db, made)'
  <2>1. \A d, n : Dated(d, n) => Dated(d, n)'
    BY DEF Dated, DatedAt, PublishedOf, TableOf
  <2>2. Dated(db', made')
    BY <1>1, <1>4
  <2> QED
    BY <2>2 DEF Dated, DatedAt, PublishedOf, TableOf
<1>6. \A q \in Requests : ~session'[q].open
  BY <1>1, <1>3 DEF Closed, Headings
<1> QED
  BY <1>5, <1>6 DEF Headings

LEMMA HeadingsStep ==
  ASSUME Base, Deciding, AllTyped, Publication, ~overlap, Headings, [Next]_vars
  PROVE  Headings' /\ (db' # db => \E r \in Requests : Commit(r))
<1>0. Base'
  BY BaseStep
<1>1. /\ made \in Nat /\ made' \in Nat /\ made <= made' /\ scenario' = scenario
      /\ made + 1 \in Nat /\ made <= made + 1 /\ made <= made
  <2>1. Base' /\ made' >= made /\ scenario' = scenario
    BY BaseStep
  <2> QED
    BY <2>1 DEF Base
<1>2. Dated(db, made)
  BY DEF Headings
<1>3. ASSUME NEW r \in Requests, ContentRequest(r) \/ VersionRequest(r)
      PROVE  Headings' /\ db' = db
  <2>1. PICK plan, job : Begin(r, plan, job) /\ Dates(plan, job, made + 1)
    BY <1>2, <1>3, DatedStarts DEF StartsDated
  <2>2. /\ session'[r] = [open |-> TRUE, plan |-> plan, job |-> job]
        /\ \A q \in Requests \ {r} : session'[q] = session[q]
        /\ db' = db
    BY <2>1, OpenedAs DEF Begin
  <2>3. session'[r].plan = plan /\ session'[r].job = job
    BY <2>2
  <2>4. \A q \in Requests : ~session[q].open
    BY <2>1 DEF Begin, Open, CanOpen
  <2>5. made + 1 <= made'
    <3>1. made' = Max({made + 1} \cup DOMAIN plan.insert)
      BY <2>1 DEF Begin, Open
    <3>2. PICK n \in Nat : DOMAIN session'[r].plan.insert \subseteq 0 .. n
      BY <1>0 DEF Base, Good
    <3>3. DOMAIN plan.insert \subseteq 0 .. n
      BY <2>3, <3>2
    <3>4. made + 1 <= Max({made + 1} \cup DOMAIN plan.insert)
      BY <1>1, <3>3, MaxAbove
    <3> QED
      BY <3>1, <3>4
  <2> QED
    BY <1>1, <2>1, <2>2, <2>3, <2>4, <2>5, PlanHeadings
<1>4. ASSUME NEW r \in Requests, session[r].open, OntologyStep(r)
      PROVE  Headings' /\ db' = db
  <2>0. Dates(session[r].plan, session[r].job, made)
    BY <1>4 DEF Headings
  <2>1. GoesOnDated(r)
    BY <1>2, <1>4, <2>0, ReadsClassesDated, ReadsRestDated, FlushDated, CopyDated, CopyRestDated
       DEF OntologyStep
  <2>2. \A q \in Requests \ {r} : ~session[q].open
    BY <1>4 DEF Headings
  <2>3. ASSUME NEW plan, NEW job, Continue(r, plan, job), Dates(plan, job, made)
        PROVE  Headings' /\ db' = db
    <3>1. /\ session'[r] = [open |-> TRUE, plan |-> plan, job |-> job]
          /\ \A q \in Requests \ {r} : session'[q] = session[q]
          /\ db' = db
      BY <1>4, <2>3, ContinuedAs
    <3>2. session'[r].plan = plan /\ session'[r].job = job
      BY <3>1
    <3> QED
      BY <1>1, <2>2, <2>3, <3>1, <3>2, PlanHeadings
  <2>4. ASSUME NEW job, Flush(r, job), Dates(session[r].plan, job, made)
        PROVE  Headings' /\ db' = db
    <3> DEFINE plan == session[r].plan
    <3>1. /\ session'[r] = [open |-> TRUE, plan |-> plan, job |-> job]
          /\ \A q \in Requests \ {r} : session'[q] = session[q]
          /\ db' = db
      BY <1>4, <2>4, FlushKeeps
    <3>2. session'[r].plan = plan /\ session'[r].job = job
      BY <3>1
    <3>3. Dates(plan, job, made)
      BY <2>4
    <3> HIDE DEF plan
    <3> QED
      BY <1>1, <2>2, <3>1, <3>2, <3>3, PlanHeadings
  <2> QED
    BY <2>1, <2>3, <2>4 DEF GoesOnDated
<1>5. ASSUME NEW r \in Requests, Commit(r) PROVE Headings'
  BY <1>5, CommitHeadings
<1>6. ASSUME NEW r \in Requests, Rollback(r) PROVE Headings' /\ db' = db
  <2>1. db' = db /\ made' = made /\ \A q \in Requests : session'[q] \in {session[q], Closed}
    BY <1>6, RollbackKeeps
  <2> QED
    BY <1>1, <2>1, DropHeadings
<1>7. CASE Stop
  <2>1. db' = db /\ made' = made /\ \A q \in Requests : session'[q] \in {session[q], Closed}
    BY <1>7 DEF Stop
  <2> QED
    BY <1>1, <2>1, DropHeadings
<1>8. CASE UNCHANGED dbVars
  <2>1. db' = db /\ made' = made /\ \A q \in Requests : session'[q] \in {session[q], Closed}
    BY <1>8 DEF dbVars
  <2> QED
    BY <1>1, <2>1, DropHeadings
<1> QED
  BY <1>3, <1>4, <1>5, <1>6, <1>7, <1>8, OntologyMoves

\* While requests do not overlap, and from published versions that were dated as
\* publications date them: a new draft starts from the version that its ontology
\* shows (create_draft_version of services/version_service.py takes the version
\* published last, publications set the ontology's own label).
THEOREM DraftsStartFromHead == Spec /\ Dated(db, made) => DraftsStartAtHead
<1> DEFINE Ordered == Base /\ Deciding /\ AllTyped /\ Headings
<1>1. Init /\ Dated(db, made) /\ Base /\ Deciding /\ AllTyped => Ordered
  <2> SUFFICES ASSUME Init, Dated(db, made) PROVE Headings
    OBVIOUS
  <2>1. session = [r \in Requests |-> Closed]
    BY DEF Init, InitDatabase
  <2>2. \A r \in Requests : ~session[r].open
    BY <2>1 DEF Closed
  <2> QED
    BY <2>2 DEF Headings
<1>2. Ordered /\ Base' /\ Deciding' /\ AllTyped' /\ [Next]_vars => Ordered'
  <2> SUFFICES ASSUME Ordered, Base', Deciding', AllTyped', [Next]_vars PROVE Headings'
    OBVIOUS
  <2>1. scenario' = scenario
    BY BaseStep
  <2>2. overlap' = overlap /\ Publication' = Publication
    BY <2>1 DEF overlap, Publication, Uses
  <2>3. CASE ~overlap /\ Publication
    BY <2>3, HeadingsStep
  <2>4. CASE overlap \/ ~Publication
    BY <2>2, <2>4 DEF Headings
  <2> QED
    BY <2>3, <2>4
<1>3. Ordered /\ Base' /\ [Next]_vars =>
        [~overlap =>
           \A v \in DOMAIN db' \ DOMAIN db :
             /\ db'[v].table = "version"
             /\ db'[v].status = "DRAFT"
             /\ db'[v].base \in Rows("version")
             => db[db'[v].base].label = db[db'[v].onto].head]_db
  <2> SUFFICES ASSUME Ordered, Base', [Next]_vars, db' # db, ~overlap,
                      NEW v \in DOMAIN db' \ DOMAIN db, db'[v].table = "version",
                      db'[v].status = "DRAFT", db'[v].base \in Rows("version")
               PROVE  db[db'[v].base].label = db[db'[v].onto].head
    OBVIOUS
  <2>1. scenario' = scenario
    BY BaseStep
  <2>2. "version" \in Tables(scenario.uses)
    BY <2>1 DEF Base, HasTable
  <2>3. Publication
    BY <2>2 DEF Tables, Publication, Uses
  <2>4. PICK r \in Requests : Commit(r)
    BY <2>3, HeadingsStep
  <2> DEFINE p == session[r].plan
  <2>5. db' = Written(p)
    BY <2>4, CommitKeeps
  <2>6. session[r].open /\ StartsAtHead(db, p)
    BY <2>3, <2>4 DEF Commit, Headings, Dates
  <2>7. v \in DOMAIN p.insert /\ db'[v] = p.insert[v]
    <3>1. \A d : d = Written(p) => \A i \in DOMAIN p.insert : d[i] = p.insert[i]
      BY NewThere
    <3>2. DOMAIN Written(p) \subseteq DOMAIN db \cup DOMAIN p.insert
      BY DEF Written, Over
    <3> QED
      BY <2>5, <3>1, <3>2
  <2> HIDE DEF p
  <2> QED
    BY <2>6, <2>7 DEF StartsAtHead, TableOf, Rows
<1>4. Spec => [](Base /\ Deciding)
  BY Plans
<1>5. Spec => []AllTyped
  BY RowsKeepTypes, PTL
<1> QED
  BY <1>1, <1>2, <1>3, <1>4, <1>5, PTL DEF Spec, DraftsStartAtHead

-----------------------------------------------------------------------------
\* What the theorems ask of the first database is so of an empty one: every
\* behaviour from there is covered by all of them.
LEMMA EmptyDatabase ==
  ASSUME DOMAIN db = {}
  PROVE  Sound(db) /\ Headed(db) /\ Agreed(db) /\ Placed(db) /\ Dated(db, made)
<1>1. \A table : TableOf(db, table) = {}
  BY DEF TableOf
<1>2. Sound(db)
  BY <1>1 DEF Sound, Chain, MembersMatch, EndsExist, Owned, ColumnsAgree
<1>3. Headed(db)
  BY <1>1 DEF Headed
<1>4. Agreed(db)
  BY <1>1 DEF Agreed, Linked, Decided
<1>5. Placed(db)
  BY DEF Placed, Homes, ElementsOf
<1>6. Dated(db, made)
  BY <1>1 DEF Dated
<1> QED
  BY <1>2, <1>3, <1>4, <1>5, <1>6
=============================================================================
