--------------------------- MODULE DatabaseSession ---------------------------
(***************************************************************************)
(* A request and its database session (db/connection.py get_session, on    *)
(* SQLite): what it has read decides a plan of rows to insert, to change   *)
(* and to delete, which is written when the session is flushed and stored  *)
(* by the commit after the handler, or dropped by a rollback.              *)
(*                                                                         *)
(* Reading takes no lock, so what a plan rests on may be out of date when  *)
(* it is written.  The first flush of a transaction takes the one writer   *)
(* lock of the database file and keeps it to the end of the transaction;   *)
(* an authenticated request flushes the user's last login first of all     *)
(* (api/auth.py), so it holds the lock while it reads.  The ORM writes the *)
(* columns whose value differs from the one it read and no others, fails   *)
(* when a row it changes is gone, and does not mind when a row it deletes  *)
(* is gone.  Foreign keys are not checked.                                 *)
(*                                                                         *)
(* The components define their handlers with the actions of this module.   *)
(***************************************************************************)
EXTENDS Integers, Sequences, FiniteSetsExt

CONSTANTS
  Requests,     \* slots for the requests that are open at the same time
  None,         \* NULL; also: no request holds the lock
  UniqueKeys,   \* the unique indexes: a set of <<table, set of columns>>
  Scenarios     \* bounds: what the clients of a behaviour use, whether their
                \* requests overlap, how many they make, and at which moments
                \* the clock is read while a second ends

ASSUME NoneIsNoRequest == None \notin Requests
ASSUME NoneIsNoNumber == None \notin Nat
ASSUME ScenariosAssumption ==
  Scenarios \subseteq
    [uses : STRING, overlap : BOOLEAN, requests : Nat, straddles : SUBSET Nat]

VARIABLES
  db,        \* row id |-> row, a record with its table and columns
  session,   \* request |-> is it open, its plan, and what it does next
  writer,    \* the request whose session holds the writer lock
  made,      \* the highest identifier so far; every request raises it, so it
             \* also serves as the clock
  served,    \* number of requests so far
  scenario   \* the one of this behaviour

dbVars == <<db, session, writer, made, served, scenario>>
overlap == scenario.overlap

\* One key with its value, and f with what only g has (:> and @@ of module TLC,
\* with a definition that a proof can expand).
Only(key, value) == [k \in {key} |-> value]
Over(f, g) == [k \in DOMAIN f \cup DOMAIN g |-> IF k \in DOMAIN f THEN f[k] ELSE g[k]]

Nothing == [k \in {} |-> None]

NoPlan == [insert |-> Nothing, update |-> Nothing, delete |-> {}]
Done == <<"commit">>
Closed == [open |-> FALSE, plan |-> NoPlan, job |-> Done]

Rows(table) == {i \in DOMAIN db : db[i].table = table}

\* A new row gets an identifier above all that are in use.
New(row) == [NoPlan EXCEPT !.insert = Only(made + 1, row)]
Drop(ids) == [NoPlan EXCEPT !.delete = ids]

\* The columns of row i that are to get a value other than the one read.
Set(i, columns) ==
  LET changed == {c \in DOMAIN columns : db[i][c] # columns[c]}
  IN [NoPlan EXCEPT !.update =
        IF changed = {} THEN Nothing ELSE Only(i, [c \in changed |-> columns[c]])]

And(p, q) == [insert |-> Over(p.insert, q.insert),
              update |-> Over(p.update, q.update),
              delete |-> p.delete \cup q.delete]

AndNew(p, row) ==
  [p EXCEPT !.insert = Over(@, Only(Max({made} \cup DOMAIN @) + 1, row))]

Written(p) ==
  Over([i \in DOMAIN db \ p.delete |->
          IF i \in DOMAIN p.update THEN Over(p.update[i], db[i]) ELSE db[i]],
       p.insert)

Stale(p) == ~(DOMAIN p.update \subseteq DOMAIN db)

\* Two rows agree on the columns of a unique index.
Violates(d) ==
  \E key \in UniqueKeys :
    LET rows == {i \in DOMAIN d : d[i].table = key[1]}
    IN \E i, j \in rows : i < j /\ \A c \in key[2] : d[i][c] = d[j][c] /\ d[i][c] # None

Writable(r) == writer \in {None, r}
Fits(p) == ~Stale(p) /\ ~Violates(Written(p))

-----------------------------------------------------------------------------
CanOpen(r) ==
  /\ ~session[r].open
  /\ overlap \/ \A q \in Requests : ~session[q].open
  /\ served < scenario.requests

Open(r, plan, job, lock) ==
  /\ CanOpen(r)
  /\ session' = [session EXCEPT ![r] = [open |-> TRUE, plan |-> plan, job |-> job]]
  /\ made' = Max({made + 1} \cup DOMAIN plan.insert)
  /\ served' = served + 1
  /\ writer' = lock
  /\ UNCHANGED <<db, scenario>>

\* A request without login reads and plans; nothing is locked yet.
Begin(r, plan, job) == Open(r, plan, job, writer)

\* Wrong: the login is not written first.
BeginUnlocked(r, plan, job) == Begin(r, plan, job)

\* An authenticated request: it holds the writer lock from its first statement.
BeginLocked(r, plan, job) == writer = None /\ Open(r, plan, job, r)

\* Goes on reading, in the same transaction.
Continue(r, plan, job) ==
  /\ session' = [session EXCEPT ![r].plan = plan, ![r].job = job]
  /\ made' = Max({made} \cup DOMAIN plan.insert)
  /\ UNCHANGED <<db, writer, served, scenario>>

\* The plan is written, and seen by no other session before the commit.
Flush(r, job) ==
  /\ Writable(r)
  /\ Fits(session[r].plan)
  /\ writer' = r
  /\ session' = [session EXCEPT ![r].job = job]
  /\ UNCHANGED <<db, made, served, scenario>>

\* session.commit() inside a handler: the lock is given up and the handler
\* goes on with a new transaction.
CommitAndGoOn(r, job) ==
  /\ Writable(r)
  /\ Fits(session[r].plan)
  /\ db' = Written(session[r].plan)
  /\ session' = [session EXCEPT ![r].plan = NoPlan, ![r].job = job]
  /\ writer' = None
  /\ UNCHANGED <<made, served, scenario>>

\* Wrong: the lock is kept.
CommitKeepsLock(r) ==
  /\ session[r].open
  /\ session[r].job[1] = "commit"
  /\ Writable(r)
  /\ Fits(session[r].plan)
  /\ db' = Written(session[r].plan)
  /\ session' = [session EXCEPT ![r] = Closed]
  /\ UNCHANGED <<writer, made, served, scenario>>

Commit(r) ==
  /\ session[r].open
  /\ session[r].job[1] = "commit"
  /\ Writable(r)
  /\ Fits(session[r].plan)
  /\ db' = Written(session[r].plan)
  /\ session' = [session EXCEPT ![r] = Closed]
  /\ writer' = None
  /\ UNCHANGED <<made, served, scenario>>

\* An exception, "database is locked", a failed commit, a client that went
\* away or a stop of the server.
Rollback(r) ==
  /\ session[r].open
  /\ session' = [session EXCEPT ![r] = Closed]
  /\ writer' = IF writer = r THEN None ELSE writer
  /\ UNCHANGED <<db, made, served, scenario>>

\* The server stops: every transaction that is open is lost.
Stop ==
  /\ session' = [r \in Requests |-> Closed]
  /\ writer' = None
  /\ UNCHANGED <<db, made, served, scenario>>

InitDatabase(rows) ==
  /\ db = rows
  /\ session = [r \in Requests |-> Closed]
  /\ writer = None
  /\ made = Max({0} \cup DOMAIN rows)
  /\ served = 0
  /\ scenario \in Scenarios

DatabaseTypeOK ==
  /\ \A i \in DOMAIN db : i \in 1 .. made /\ "table" \in DOMAIN db[i]
  /\ \A r \in Requests :
       LET plan == session[r].plan
       IN /\ session[r].open \in BOOLEAN
          /\ ~session[r].open => session[r] = Closed
          /\ DOMAIN plan.insert \subseteq 1 .. made
          /\ DOMAIN plan.insert \cap DOMAIN db = {}
          /\ DOMAIN plan.update \cup plan.delete \subseteq 1 .. made
  /\ writer \in Requests \cup {None}
  /\ writer # None => session[writer].open
  /\ ~Violates(db)
  /\ served \in 0 .. scenario.requests
  /\ scenario \in Scenarios
=============================================================================
