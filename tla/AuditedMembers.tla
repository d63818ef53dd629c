--------------------------- MODULE AuditedMembers ---------------------------
(***************************************************************************)
(* Project members and the audit chain (api/members.py, api/auth.py        *)
(* record_audit, api/audit.py verify_chain).                               *)
(*                                                                         *)
(* An entry of the chain holds the hash of the newest entry before it; the *)
(* id of an entry stands for its hash and for the moment at which it is    *)
(* made.  The time it is given may be another (CreatedAt).  Who may call   *)
(* is left out: a global administrator may do everything.                  *)
(***************************************************************************)
EXTENDS DatabaseSession

CONSTANTS
  Users, Roles,
  Second       \* so many moments are a second

ASSUME SecondAssumption == Second \in Nat \ {0}

Entries == Rows("audit")

\* created_at has the seconds of one reading of the clock and the microseconds of
\* the next one: when a second ends in between, it is a second too early.  (No two
\* entries have the same time.)
CreatedAt(e) == IF e \in scenario.straddles THEN 2 * (e - Second) + 1 ELSE 2 * e

\* The first of the entries by falling time.
Newest(entries) == CHOOSE e \in entries : \A f \in entries : CreatedAt(f) <= CreatedAt(e)

\* The hash of the newest entry, if it has one.
LatestEntry ==
  LET newest == IF Entries = {} THEN None ELSE Newest(Entries)
  IN IF newest # None /\ db[newest].hashed THEN newest ELSE None

AuditEntry(target, after) ==
  [table |-> "audit", prev |-> LatestEntry, hashed |-> TRUE, target |-> target,
   after |-> after]

\* The plan p with an entry about its newest row.
AndEntry(p, after) == AndNew(p, AuditEntry(Max(DOMAIN p.insert), after))

KnownUsers == {db[i].user : i \in Rows("user")}
EnsureUser(u) == IF u \in KnownUsers THEN NoPlan ELSE New([table |-> "user", user |-> u])

-----------------------------------------------------------------------------
\* What an entry keeps of a membership.
Diff(m) == <<m.role, m.active>>

MemberRow(u) == {m \in Rows("member") : db[m].user = u}

\* A member who was removed comes back.
InviteMember(r) ==
  \E u \in Users, role \in Roles :
    LET member == [table |-> "member", user |-> u, role |-> role, active |-> TRUE]
    IN \/ /\ MemberRow(u) = {}
          /\ BeginLocked(r, AndEntry(AndNew(EnsureUser(u), member), Diff(member)), Done)
       \/ \E m \in MemberRow(u) :
            BeginLocked(r, And(Set(m, [role |-> role, active |-> TRUE]),
                               New(AuditEntry(m, <<role, TRUE>>))), Done)

UpdateMemberRole(r) ==
  \E m \in Rows("member"), role \in Roles :
    BeginLocked(r, And(Set(m, [role |-> role]),
                       New(AuditEntry(m, <<role, db[m].active>>))), Done)

\* Wrong: the change is committed before the entry is written.
RemoveMemberThenAudit(r) ==
  \E m \in Rows("member") :
    BeginLocked(r, Set(m, [active |-> FALSE]), <<"audit", m, <<db[m].role, FALSE>>, FALSE>>)

RemoveMember(r) ==
  \E m \in Rows("member") :
    BeginLocked(r, And(Set(m, [active |-> FALSE]),
                       New(AuditEntry(m, <<db[m].role, FALSE>>))), Done)

\* For handlers that commit before they write their entry, with the job
\* <<"audit", target, after, again>>: the first commit, and the entry in a second
\* transaction, which has no lock when it looks for the newest entry.  Some read
\* their row again in between, and fail if it is gone.
CommitThenAudit(r) ==
  LET job == session[r].job
  IN job[1] = "audit" /\ CommitAndGoOn(r, [job EXCEPT ![1] = "record"])

RecordAudit(r) ==
  LET job == session[r].job
  IN /\ job[1] = "record"
     /\ job[4] => job[2] \in DOMAIN db
     /\ Continue(r, New(AuditEntry(job[2], job[3])), Done)

-----------------------------------------------------------------------------
MemberRequest(r) == InviteMember(r) \/ UpdateMemberRole(r) \/ RemoveMember(r)
AuditStep(r) == CommitThenAudit(r) \/ RecordAudit(r)

AuditedRow(row) ==
  \/ row.table = "user" /\ row.user \in Users
  \/ row \in [table : {"member"}, user : Users, role : Roles, active : BOOLEAN]
  \/ row.table = "audit" /\ row.prev \in Nat \cup {None} /\ row.hashed \in BOOLEAN

\* verify_chain returns ok: it walks the entries by rising time.
ChainIsIntact ==
  \A e \in Entries :
    LET before == {f \in Entries : CreatedAt(f) < CreatedAt(e)}
    IN /\ db[e].hashed
       /\ db[e].prev = IF before = {} THEN None ELSE Newest(before)

\* Each entry is written by the first transaction of an authenticated request,
\* which has had the lock since before it read the newest entry, or by an SSO
\* callback, which takes it before.  Handlers of objects write theirs in a second
\* transaction, which is as good while no requests overlap.
Chained ==
  scenario.uses \in {"members", "workspaces", "connectors"}
                    \cup (IF overlap THEN {} ELSE {"objects"})

\* No entry has been given a time before that of an entry made earlier.
InTime == \A e, f \in Entries : e < f => CreatedAt(e) < CreatedAt(f)

\* The chain verifies, also when requests overlap and wherever the server stops, as
\* long as the times that the entries are given rise.
ChainVerifies == Chained /\ InTime => ChainIsIntact

\* The chain verifies whatever the clock shows when an entry is made: created_at is
\* set by the program to have the chain in strict order of time.
ChainVerifiesAtAnyTime == Chained => ChainIsIntact

\* The entry last written about a member tells the role and state the member has,
\* whatever overlaps or fails: the change and its entry are one transaction.
MembersMatchAudit ==
  \A m \in Rows("member") :
    LET about == {e \in Entries : db[e].target = m}
    IN about # {} /\ db[Max(about)].after = Diff(db[m])
=============================================================================
