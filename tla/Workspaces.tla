------------------------------ MODULE Workspaces ------------------------------
(***************************************************************************)
(* Workspaces, their members, and single sign-on (api/workspace.py,        *)
(* api/sso.py).  Everything but the two login endpoints is authenticated;  *)
(* the caller is a user, and what he may do depends on his role.  There is *)
(* one protocol, OIDC; tokens, plans, quotas, passwords and the expiry of  *)
(* logins are left out.  An identity provider answers with any user.       *)
(***************************************************************************)
EXTENDS AuditedMembers

CONSTANTS Slugs

\* A viewer may do what a member may, and is left out.
WorkspaceRoles == {"member", "admin", "owner"}
AdminRoles == {"admin", "owner"}

Workspace(slug, owner) ==
  [table |-> "workspace", slug |-> slug, owner |-> owner, deleted |-> FALSE, rev |-> 0]

Membership(w, u, role) ==
  [table |-> "wsmember", ws |-> w, user |-> u, role |-> role, active |-> TRUE]

Provider(w) ==
  [table |-> "provider", ws |-> w, status |-> "active", provision |-> TRUE]

In(w) == {m \in Rows("wsmember") : db[m].ws = w}

\* _membership: the active one only.
ActiveMember(w, u) == {m \in In(w) : db[m].user = u /\ db[m].active}

HasRole(w, u, roles) == \E m \in ActiveMember(w, u) : db[m].role \in roles
Allowed(w, roles) == \E u \in KnownUsers : HasRole(w, u, roles)

-----------------------------------------------------------------------------
(* Workspaces.                                                             *)

FreeSlugs == {s \in Slugs : \A w \in Rows("workspace") : db[w].slug # s}

OwnWorkspace(slug, u) ==
  AndNew(New(Workspace(slug, u)), Membership(made + 1, u, "owner"))

CreateWorkspace(r) ==
  \E u \in KnownUsers, slug \in FreeSlugs :
    BeginLocked(r, AndNew(OwnWorkspace(slug, u), AuditEntry(made + 1, "create")), Done)

\* A user without an active membership gets a workspace of his own, without an
\* entry; one with two cannot list them.  Deleted workspaces count.
ListMyWorkspaces(r) ==
  \E u \in KnownUsers, slug \in FreeSlugs :
    /\ \A m \in Rows("wsmember") : db[m].user = u => ~db[m].active
    /\ BeginLocked(r, OwnWorkspace(slug, u), Done)

UpdateWorkspace(r) ==
  \E w \in Rows("workspace") :
    /\ Allowed(w, AdminRoles)
    /\ BeginLocked(r, And(Set(w, [rev |-> 1 - db[w].rev]), New(AuditEntry(w, "update"))), Done)

\* It can be deleted again.
DeleteWorkspace(r) ==
  \E w \in Rows("workspace") :
    BeginLocked(r, And(And(Set(w, [deleted |-> TRUE]), Drop(In(w))),
                       New(AuditEntry(w, "delete"))), Done)

-----------------------------------------------------------------------------
(* Members.                                                                *)

\* Wrong: a membership that is not active is found too, and comes back with the
\* role of the invitation.
InviteReactivates(r) ==
  \E w \in Rows("workspace"), u \in Users, role \in WorkspaceRoles :
    /\ Allowed(w, AdminRoles)
    /\ \E m \in In(w) :
         /\ db[m].user = u /\ ~db[m].active
         /\ BeginLocked(r, Set(m, [active |-> TRUE, role |-> role]), Done)

\* Only an active membership is found.  For a user who was removed a second row
\* is inserted, which the unique index refuses.
InviteWorkspaceMember(r) ==
  \E w \in Rows("workspace"), u \in Users, role \in WorkspaceRoles :
    /\ Allowed(w, AdminRoles)
    /\ ActiveMember(w, u) = {}
    /\ BeginLocked(r, AndEntry(AndNew(EnsureUser(u), Membership(w, u, role)), "create"), Done)

ChangeMemberRole(r) ==
  \E w \in Rows("workspace"), u \in KnownUsers, role \in WorkspaceRoles :
    /\ Allowed(w, {"owner"})
    /\ u = db[w].owner => role = "owner"
    /\ \E m \in ActiveMember(w, u) :
         BeginLocked(r, And(Set(m, [role |-> role]), New(AuditEntry(m, "update"))), Done)

\* By himself, or by an administrator unless he owns the workspace.
RemoveWorkspaceMember(r) ==
  \E w \in Rows("workspace"), actor, u \in KnownUsers :
    /\ \/ actor = u
       \/ HasRole(w, actor, AdminRoles) /\ u # db[w].owner
    /\ \E m \in ActiveMember(w, u) :
         BeginLocked(r, And(Set(m, [active |-> FALSE]), New(AuditEntry(m, "delete"))), Done)

-----------------------------------------------------------------------------
(* Identity providers, one for each workspace.                             *)

CreateProvider(r) ==
  \E w \in Rows("workspace") :
    /\ Allowed(w, AdminRoles)
    /\ \A p \in Rows("provider") : db[p].ws # w
    /\ BeginLocked(r, AndEntry(New(Provider(w)), "create"), Done)

UpdateProvider(r) ==
  \E p \in Rows("provider"), status \in {"active", "disabled"}, provision \in BOOLEAN :
    /\ Allowed(db[p].ws, AdminRoles)
    /\ BeginLocked(r, And(Set(p, [status |-> status, provision |-> provision]),
                          New(AuditEntry(p, "update"))), Done)

\* The logins that are under way go with it.
DeleteProvider(r) ==
  \E p \in Rows("provider") :
    /\ Allowed(db[p].ws, AdminRoles)
    /\ BeginLocked(r, And(Drop({p} \cup {l \in Rows("login") : db[l].provider = p}),
                          New(AuditEntry(p, "delete"))), Done)

\* Keeps the writer lock while it asks the provider.
TestProvider(r) ==
  \E p \in Rows("provider") : Allowed(db[p].ws, AdminRoles) /\ BeginLocked(r, NoPlan, Done)

\* A provider that the client names need not be active.
SsoLogin(r) ==
  \E p \in Rows("provider") :
    /\ ~db[db[p].ws].deleted
    /\ Begin(r, New([table |-> "login", provider |-> p, ws |-> db[p].ws,
                     consumed |-> FALSE]), Done)

\* The code is exchanged before the login is marked as consumed.
SsoCallback(r) ==
  \E l \in Rows("login"), u \in Users :
    /\ ~db[l].consumed
    /\ db[l].provider \in Rows("provider")
    /\ db[db[l].provider].status = "active"
    /\ Begin(r, Set(l, [consumed |-> TRUE]),
             <<"callback", db[l].ws, u, db[db[l].provider].provision>>)

CallbackFlushes(r) ==
  LET job == session[r].job
  IN job[1] = "callback" /\ Flush(r, [job EXCEPT ![1] = "provision"])

\* The user is created if he may be, and becomes a member if he has never been
\* one; no error undoes what has been written.  The workspace may be deleted.
CallbackProvisions(r) ==
  LET job == session[r].job
      w == job[2]
      u == job[3]
      p == session[r].plan
      user == And(p, EnsureUser(u))
      member == IF {m \in In(w) : db[m].user = u} = {}
                THEN AndNew(user, Membership(w, u, "member")) ELSE user
  IN /\ job[1] = "provision"
     /\ \/ Continue(r, p, Done)   \* no address in the answer
        \/ /\ u \notin KnownUsers /\ ~job[4]
           /\ Continue(r, AndNew(p, AuditEntry(None, "rejected")), Done)
        \/ /\ u \in KnownUsers \/ job[4]
           /\ Continue(r, AndNew(member, AuditEntry(None, "login")), Done)

-----------------------------------------------------------------------------
WorkspaceRequest(r) ==
  \/ CreateWorkspace(r) \/ ListMyWorkspaces(r) \/ UpdateWorkspace(r) \/ DeleteWorkspace(r)
  \/ InviteWorkspaceMember(r) \/ ChangeMemberRole(r) \/ RemoveWorkspaceMember(r)
  \/ CreateProvider(r) \/ UpdateProvider(r) \/ DeleteProvider(r) \/ TestProvider(r)
  \/ SsoLogin(r) \/ SsoCallback(r)

WorkspaceStep(r) == CallbackFlushes(r) \/ CallbackProvisions(r)

WorkspaceRow(row) ==
  \/ row \in [table : {"workspace"}, slug : Slugs, owner : Users, deleted : BOOLEAN, rev : {0, 1}]
  \/ /\ row.table = "wsmember"
     /\ row.user \in Users /\ row.role \in WorkspaceRoles /\ row.active \in BOOLEAN
  \/ row.table = "provider" /\ row.status \in {"active", "disabled"}
  \/ row.table = "login" /\ row.consumed \in BOOLEAN

\* Whoever owns a workspace has the role of an owner in it for as long as he is a
\* member, whichever invitations, role changes, departures and logins overlap:
\* after he has left, neither an invitation nor a login makes him a member of a
\* lower rank.  (A deleted workspace can get its owner back as a member, from a
\* login that was under way.)
OwnersKeepTheirRole ==
  \A m \in Rows("wsmember") :
    LET w == db[db[m].ws]
    IN db[m].active /\ ~w.deleted /\ db[m].user = w.owner => db[m].role = "owner"
=============================================================================
