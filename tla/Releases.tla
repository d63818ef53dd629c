------------------------------ MODULE Releases ------------------------------
(***************************************************************************)
(* Releases, deployments, and their announcement to outbound webhooks      *)
(* (api/release.py, api/webhooks.py, services/webhook_dispatcher.py).      *)
(*                                                                         *)
(* Publishing, deploying and rolling back start a task that announces the  *)
(* event, after their flush and before their commit.  The task reads the   *)
(* webhooks; for each subscriber it flushes a delivery record, in a        *)
(* session that is closed without a commit and for which the writer lock   *)
(* must be free, and then starts a delivery, which posts.  An event has    *)
(* the number of its request.  There is one project; payloads, signatures, *)
(* sizes and the artifacts are left out.                                   *)
(***************************************************************************)
EXTENDS DatabaseSession

CONSTANTS
  Subscriptions,  \* the sets of events that a client may give a webhook
  ReleaseLabels,  \* version strings
  MaxRetries      \* bound of a webhook's retry_count (10 in the code)

ASSUME RetriesAssumption == MaxRetries \in Nat \ {0}

VARIABLES
  dispatch,  \* event |-> its dispatch task
  heard      \* <<event, webhook>> |-> how the last attempt to post it ended

dispatchVars == <<dispatch, heard>>

DeploymentStatus ==
  {"PENDING", "RUNNING", "SUCCESS", "SUCCEEDED", "FAILED", "ROLLED_BACK"}
Announced == {"release.published", "deployment.succeeded", "deployment.rollback", "manual"}

Release(label) ==
  [table |-> "release", label |-> label, status |-> "DRAFT", text |-> 0,
   checksum |-> None, results |-> None]

Webhook(name, events, retries) ==
  [table |-> "webhook", name |-> name, events |-> events, enabled |-> TRUE,
   retries |-> retries]

-----------------------------------------------------------------------------
(* The dispatch task.                                                      *)

Announce(event, n) ==
  /\ dispatch' = Over(Only(n, [event |-> event, at |-> "start", left |-> {}, due |-> {}]),
                       dispatch)
  /\ UNCHANGED heard

\* A test request waits for its dispatch, which is a part of it.
TestRequest(n) == {r \in Requests : session[r].open /\ session[r].job = <<"test", n>>}
Running(n) == dispatch[n].event = "manual" => TestRequest(n) # {}

DispatchReads(n) ==
  LET subscribed == {w \in Rows("webhook") : db[w].enabled /\ dispatch[n].event \in db[w].events}
  IN /\ Running(n)
     /\ dispatch[n].at = "start"
     /\ dispatch' = [dispatch EXCEPT ![n].at = "record",
                       ![n].left = {[to |-> w, retries |-> db[w].retries] : w \in subscribed}]
     /\ UNCHANGED <<dbVars, heard>>

\* Wrong: the record is not written before the delivery starts.
RecordUnwritten == TRUE

\* The record is flushed, and its session closed.
RecordWritten == writer = None

DispatchRecords(n) ==
  \E d \in dispatch[n].left :
    /\ Running(n)
    /\ dispatch[n].at = "record"
    /\ RecordWritten
    /\ dispatch' = [dispatch EXCEPT ![n].left = @ \ {d},
                      ![n].due = IF d.retries = 0 THEN @ ELSE @ \cup {d}]
    /\ UNCHANGED <<dbVars, heard>>

\* "database is locked": nobody else is notified; what has been started goes on.
DispatchFails(n) ==
  /\ Running(n)
  /\ dispatch[n].at = "record"
  /\ dispatch[n].left # {}
  /\ writer # None
  /\ dispatch' = [dispatch EXCEPT ![n].at = "failed", ![n].left = {}]
  /\ UNCHANGED <<dbVars, heard>>

\* The record that an attempt would be written to was rolled back.
RecordStored == FALSE

Outcomes == {"SUCCESS", "RETRYING", "DROPPED"}

\* One attempt, the last one if retries is 1: without its record a delivery ends
\* with the first.  With it, a failed one would be repeated.
Deliver(n) ==
  \E d \in dispatch[n].due, outcome \in Outcomes :
    /\ outcome = "RETRYING" => d.retries > 1
    /\ outcome = "DROPPED" => d.retries = 1
    /\ dispatch' = [dispatch EXCEPT ![n].due =
                      IF RecordStored /\ outcome = "RETRYING"
                      THEN (@ \ {d}) \cup {[d EXCEPT !.retries = @ - 1]}
                      ELSE @ \ {d}]
    /\ heard' = Over(Only(<<n, d.to>>, outcome), heard)
    /\ UNCHANGED dbVars

-----------------------------------------------------------------------------
(* Webhook configurations: authenticated.                                  *)

CreateWebhook(r) ==
  \E events \in Subscriptions, k \in 0 .. MaxRetries :
    BeginLocked(r, New(Webhook("second", events, k)), Done)

UpdateWebhook(r) ==
  \E w \in Rows("webhook") :
    \/ \E events \in Subscriptions : BeginLocked(r, Set(w, [events |-> events]), Done)
    \/ \E k \in 0 .. MaxRetries : BeginLocked(r, Set(w, [retries |-> k]), Done)
    \/ BeginLocked(r, Set(w, [enabled |-> ~db[w].enabled]), Done)

DeleteWebhook(r) ==
  \E w \in Rows("webhook") : BeginLocked(r, Drop({w}), Done)

TestWebhook(r) ==
  /\ Rows("webhook") # {}
  /\ BeginLocked(r, NoPlan, <<"test", made + 1>>)
  /\ Announce("manual", made + 1)

TestReturns(r) ==
  /\ session[r].job[1] = "test"
  /\ LET d == dispatch[session[r].job[2]]
     IN d.at = "record" /\ d.left = {} /\ d.due = {}
  /\ Continue(r, NoPlan, Done)
  /\ UNCHANGED dispatchVars

-----------------------------------------------------------------------------
(* Releases.                                                               *)

CreateRelease(r) ==
  \E label \in ReleaseLabels : Begin(r, New(Release(label)), Done)

UpdateRelease(r) ==
  \E i \in Rows("release") :
    /\ db[i].status = "DRAFT"
    /\ Begin(r, Set(i, [text |-> 1 - db[i].text]), Done)

\* The checksum is one of the manifest; part of it are the texts and the
\* results of the last preflight.
Checksum(i) == <<db[i].text, db[i].results>>

DownloadRelease(r) ==
  \E i \in Rows("release") :
    /\ db[i].checksum = None
    /\ Begin(r, Set(i, [checksum |-> Checksum(i)]), Done)

RunPreflight(r) ==
  \E i \in Rows("release") :
    Begin(r, And(New([table |-> "report", release |-> i]), Set(i, [results |-> made + 1])), Done)

\* Wrong: a checksum that a download has stored is kept.
PublishKeepsChecksum(r) ==
  \E i \in Rows("release") :
    /\ db[i].status = "DRAFT"
    /\ Begin(r, Set(i, [status |-> "RELEASED",
                        checksum |-> IF db[i].checksum = None THEN Checksum(i)
                                     ELSE db[i].checksum]),
             <<"announce", "release.published", made + 1>>)

PublishRelease(r) ==
  \E i \in Rows("release") :
    /\ db[i].status = "DRAFT"
    /\ Begin(r, Set(i, [status |-> "RELEASED", checksum |-> Checksum(i)]),
             <<"announce", "release.published", made + 1>>)

CreateDeployment(r) ==
  \E i \in Rows("release") :
    /\ db[i].status \in {"RELEASED", "PUBLISHED"}
    /\ Begin(r, New([table |-> "deployment", release |-> i, status |-> "SUCCEEDED"]),
             <<"announce", "deployment.succeeded", made + 1>>)

UpdateDeployment(r) ==
  \E i \in Rows("deployment"), s \in DeploymentStatus : Begin(r, Set(i, [status |-> s]), Done)

RollbackDeployment(r) ==
  \E i \in Rows("deployment") :
    /\ db[i].status # "ROLLED_BACK"
    /\ Begin(r, Set(i, [status |-> "ROLLED_BACK"]),
             <<"announce", "deployment.rollback", made + 1>>)

CreateUseCaseBundle(r) ==
  \E i \in Rows("release") :
    Begin(r, New([table |-> "bundle", release |-> i]), Done)

\* What publishing and deploying do between their flush and their commit.
FlushAndAnnounce(r) ==
  LET job == session[r].job
  IN /\ job[1] = "announce"
     /\ Flush(r, <<"commit", job[3]>>)
     /\ Announce(job[2], job[3])

-----------------------------------------------------------------------------
ReleaseRequest(r) ==
  \/ /\ \/ CreateWebhook(r) \/ UpdateWebhook(r) \/ DeleteWebhook(r)
        \/ CreateRelease(r) \/ UpdateRelease(r) \/ DownloadRelease(r)
        \/ RunPreflight(r) \/ PublishRelease(r)
        \/ CreateDeployment(r) \/ UpdateDeployment(r) \/ RollbackDeployment(r)
        \/ CreateUseCaseBundle(r)
     /\ UNCHANGED dispatchVars
  \/ TestWebhook(r)

ReleaseStep(r) == FlushAndAnnounce(r) \/ TestReturns(r)

DispatchStep ==
  \E n \in DOMAIN dispatch :
    DispatchReads(n) \/ DispatchRecords(n) \/ DispatchFails(n) \/ Deliver(n)

InitDispatch == dispatch = <<>> /\ heard = <<>>

ReleaseRow(row) ==
  \/ /\ row.table = "release"
     /\ row.label \in ReleaseLabels /\ row.status \in {"DRAFT", "RELEASED"}
     /\ row.text \in {0, 1}
  \/ row.table \in {"report", "bundle"}
  \/ row.table = "deployment" /\ row.status \in DeploymentStatus
  \/ row.table = "webhook" /\ row.events \in Subscriptions /\ row.retries \in 0 .. MaxRetries

DispatchTypeOK ==
  /\ \A n \in DOMAIN dispatch :
       /\ n \in 1 .. made
       /\ dispatch[n].event \in Announced
       /\ dispatch[n].at \in {"start", "record", "failed"}
  /\ \A x \in DOMAIN heard : x[1] \in 1 .. made /\ heard[x] \in Outcomes

\* No receiver hears of a publication or deployment while the transaction that
\* makes it is still open, although its announcement starts before the commit:
\* the delivery record waits for the writer lock, which that transaction holds.
\* (It does hear of one that is then rolled back.)
HeardAfterTheFact ==
  \A x \in DOMAIN heard, r \in Requests :
    ~(session[r].open /\ session[r].job = <<"commit", x[1]>>)

\* A delivery that failed and has attempts left is due again ("automatic retry",
\* "exponential-backoff retry" in webhook_dispatcher.py).  It never is: the loop
\* looks for the record of the delivery, which was rolled back, and returns.
FailedDeliveriesAreRepeated ==
  \A x \in DOMAIN heard :
    heard[x] = "RETRYING" /\ x[1] \in DOMAIN dispatch =>
      \E d \in dispatch[x[1]].due : d.to = x[2]

\* While no two requests overlap, the checksum of a published release was
\* computed over the texts it is published with, also when an earlier download
\* had stored one.
ReleasedMatchesChecksum ==
  ~overlap =>
    \A i \in Rows("release") :
      db[i].status = "RELEASED" => db[i].checksum[1] = db[i].text
=============================================================================
