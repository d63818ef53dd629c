------------------------------- MODULE Objects -------------------------------
(***************************************************************************)
(* Objects and the links between them (api/objects.py).  Every request is  *)
(* authenticated.  All but the creations commit, and then write their      *)
(* audit entry in a second transaction.  rev stands for the payload.       *)
(*                                                                         *)
(* The webhooks of this module are never sent: building their payload      *)
(* reads an attribute that the principal does not have, and the error is   *)
(* swallowed.                                                              *)
(***************************************************************************)
EXTENDS AuditedMembers

CONSTANTS Keys   \* identity keys

Object(key) == [table |-> "object", key |-> key, rev |-> 0, deleted |-> FALSE]
Link(s, t) == [table |-> "link", source |-> s, target |-> t, rev |-> 0]

Visible == {i \in Rows("object") : ~db[i].deleted}
Keyed(key) == {i \in Visible : db[i].key = key}

\* An update reads its row again after the commit.
Audited(i) == <<"audit", i, "update", TRUE>>

Update(r, i) == BeginLocked(r, Set(i, [rev |-> 1 - db[i].rev]), Audited(i))

\* Two visible objects with the key are an error.
CreateObject(r) ==
  \/ \E key \in Keys \cup {None} :
       /\ key = None \/ Keyed(key) = {}
       /\ BeginLocked(r, AndEntry(New(Object(key)), "create"), Done)
  \/ \E key \in Keys :
       /\ Cardinality(Keyed(key)) = 1
       /\ \E i \in Keyed(key) : Update(r, i)

UpdateObject(r) == \E i \in Visible : Update(r, i)

\* The items of one payload do not see each other's inserts: a key that is in
\* it twice gives two objects.
BulkUpsert(r) ==
  \E key \in Keys, twice \in BOOLEAN :
    LET fresh == New(Object(key))
        plan == IF Keyed(key) = {} THEN IF twice THEN AndNew(fresh, Object(key)) ELSE fresh
                ELSE IF Cardinality(Keyed(key)) = 1
                THEN LET i == CHOOSE i \in Keyed(key) : TRUE
                     IN Set(i, [rev |-> 1 - db[i].rev])
                ELSE NoPlan
    IN BeginLocked(r, plan, <<"audit", None, "update", FALSE>>)

SoftDeleteObject(r) ==
  \E i \in Visible :
    BeginLocked(r, Set(i, [deleted |-> TRUE]), <<"audit", i, "delete", FALSE>>)

\* Wrong: links that end at the object are left as they are.
HardDeleteLeavingLinks(r) ==
  \E i \in Visible :
    BeginLocked(r, Drop({i} \cup {l \in Rows("link") : db[l].source = i}),
                <<"audit", i, "delete", FALSE>>)

\* The links from the object go with it.  Another link to it would get NULL for
\* its target, which that column does not take: the request fails.
HardDeleteObject(r) ==
  \E i \in Visible :
    /\ \A l \in Rows("link") : db[l].target = i => db[l].source = i
    /\ BeginLocked(r, Drop({i} \cup {l \in Rows("link") : db[l].source = i}),
                   <<"audit", i, "delete", FALSE>>)

\* With a relation or a key, a link between the two is updated if there is one.
CreateLink(r) ==
  \E s \in Visible, t \in Visible :
    LET between == {l \in Rows("link") : db[l].source = s /\ db[l].target = t}
    IN \/ BeginLocked(r, AndEntry(New(Link(s, t)), "create"), Done)
       \/ /\ Cardinality(between) = 1
          /\ \E l \in between : Update(r, l)

UpdateLink(r) == \E l \in Rows("link") : Update(r, l)

DeleteLink(r) ==
  \E l \in Rows("link") : BeginLocked(r, Drop({l}), <<"audit", l, "delete", FALSE>>)

ObjectRequest(r) ==
  \/ CreateObject(r) \/ UpdateObject(r) \/ BulkUpsert(r)
  \/ SoftDeleteObject(r) \/ HardDeleteObject(r)
  \/ CreateLink(r) \/ UpdateLink(r) \/ DeleteLink(r)

ObjectRow(row) ==
  \/ row \in [table : {"object"}, key : Keys \cup {None}, rev : {0, 1}, deleted : BOOLEAN]
  \/ row.table = "link" /\ row.rev \in {0, 1}

\* Both ends of a link exist, whichever requests overlap: the one that creates
\* it and the one that deletes an end do not, since each holds the writer lock
\* while it looks.
LinkEndsExist ==
  \A l \in Rows("link") : {db[l].source, db[l].target} \subseteq Rows("object")
=============================================================================
