----------------------------- MODULE Automation -----------------------------
(***************************************************************************)
(* Triggers, the action they or a user start, and the cron loop            *)
(* (services/webhook_dispatcher.py, api/webhooks.py, api/action.py,        *)
(* api/main.py), on SQLite.                                                *)
(*                                                                         *)
(* An authenticated request stores the user's last login before anything   *)
(* else (api/auth.py), so it holds the writer lock of the database file    *)
(* from its first statement to its commit: such requests do not overlap,   *)
(* and one is a single step here unless it starts something early, as      *)
(* run_action does; "request" is the run that one is about to commit.      *)
(* An inbound webhook needs no login and uses synchronous sessions inside  *)
(* the event loop; while the lock is held it blocks the loop until SQLite  *)
(* gives up, and fails, so it happens only when no request is open.  The   *)
(* rest of the server may hold the lock at any time: "database is locked"  *)
(* is always a possible outcome of a write.                                *)
(*                                                                         *)
(* A background task changes the status of its run in sessions that flush  *)
(* and are closed without a commit: nothing is stored.  Payloads,          *)
(* templates, names and times other than the minute are left out.          *)
(***************************************************************************)
EXTENDS Integers, Sequences, FiniteSets

CONSTANTS
  Triggers, Runs,   \* identifiers
  None,             \* no trigger (a user started the run), no open request
  Cron,             \* trigger |-> its cron fields, <<>> for an inbound one
  Target,           \* trigger |-> what it starts, "action" or "workflow"
  Date,             \* hour, day, month and weekday, fixed in the model
  LastTick,         \* bound of the clock, which counts half minutes
  MaxEdits,         \* bound of the PATCH and DELETE requests
  MaxStops          \* bound of the stops of the server

ASSUME TargetAssumption == Target \in [Triggers -> {"action", "workflow"}]
ASSUME RunsAssumption == IsFiniteSet(Runs)
ASSUME NoneAssumption == None \notin Triggers \cup Runs
ASSUME BoundsAssumption == LastTick \in Nat /\ MaxEdits \in Nat /\ MaxStops \in Nat

VARIABLES
  live,      \* the targets that exist: the action type, the workflow
  trigger,   \* the trigger_configs rows: status, total_runs
  row,       \* the action_runs and workflow_executions rows
  task,      \* the background task of an action run
  request,   \* the run a run_action request has created and not committed
  cron,      \* the cron loop: asleep until a tick, or firing what it read
  clock, edits, stops

database == <<live, trigger, row>>
bounds == <<edits, stops>>
vars == <<live, trigger, row, task, request, cron, clock, edits, stops>>

TriggerStatus == {"ACTIVE", "PAUSED", "ERROR"}
NoRun == [status |-> "absent", trigger |-> None, minute |-> 0, life |-> 0]
NoTask == [at |-> "none", for |-> None, stored |-> FALSE, acts |-> 0]
Minute == clock \div 2

Unused(r) == row[r] = NoRun /\ task[r] = NoTask
Free == request = None    \* nothing that is modelled holds the writer lock

\* Wrong: raw SQL stores the value of the enum where the ORM expects its name.
NewRunByValue(t) == [status |-> "pending", trigger |-> t, minute |-> Minute, life |-> stops]

NewRun(t) == [status |-> "PENDING", trigger |-> t, minute |-> Minute, life |-> stops]

-----------------------------------------------------------------------------
(* Cron expressions: minute, hour, day, month, weekday (0 is Sunday).  A   *)
(* field is <<"any">>, <<"step", n>>, <<"list", set>>, <<"value", n>> or   *)
(* <<"junk">>.  What cannot be parsed matches nothing.                     *)

Lowest == <<0, 0, 1, 1, 0>>

FieldMatches(field, value, least) ==
  CASE field[1] = "any" -> TRUE
    [] field[1] = "step" -> field[2] # 0 /\ (value - least) % field[2] = 0
    [] field[1] = "list" -> value \in field[2]
    [] field[1] = "value" -> value = field[2]
    [] OTHER -> FALSE

CronMatches(fields, now) ==
  Len(fields) = 5 /\ \A i \in 1 .. 5 : FieldMatches(fields[i], now[i], Lowest[i])

Due(t) == CronMatches(Cron[t], <<Minute>> \o Date)

-----------------------------------------------------------------------------
(* What background tasks store.                                            *)

\* The run gets its status, and unless that is SUCCESS its trigger is put in
\* ERROR; all of it is flushed, and dropped when the session is closed.
Mark(r, status) == UNCHANGED <<trigger, row>>

Queue(r, t) ==
  task' = IF t # None /\ Target[t] = "workflow" THEN task  \* WorkflowExecution
          ELSE [task EXCEPT ![r] = [NoTask EXCEPT !.at = "queued", !.for = t]]

\* Wrong: counted on an object that no open session knows.
CountDetached(t) == UNCHANGED trigger

\* The UPDATE of total_runs finds no row when the trigger has been deleted.
Count(t) ==
  trigger' = IF trigger[t].status = "deleted" THEN trigger
             ELSE [trigger EXCEPT ![t].total = @ + 1]

-----------------------------------------------------------------------------
(* Authenticated requests.                                                 *)

Store(t, status) ==
  /\ Free
  /\ trigger' = [trigger EXCEPT ![t].status = status]
  /\ UNCHANGED <<live, row, task, request, cron, clock, stops>>

Edit == edits < MaxEdits /\ edits' = edits + 1

CreateTrigger(t) ==
  /\ trigger[t].status = "none"
  /\ Target[t] \in live
  /\ Store(t, "ACTIVE")
  /\ UNCHANGED edits

UpdateTrigger(t) ==
  /\ trigger[t].status \in TriggerStatus
  /\ \E s \in TriggerStatus \ {trigger[t].status} : Store(t, s)
  /\ Edit

DeleteTrigger(t) ==
  /\ trigger[t].status \in TriggerStatus
  /\ Store(t, "deleted")
  /\ Edit

\* An action type is not deleted while a run of it is RUNNING.  SQLite checks
\* no foreign keys: triggers and runs stay.
DeleteTarget(target) ==
  /\ Free
  /\ target \in live
  /\ target = "action" => \A r \in Runs : row[r].status # "RUNNING"
  /\ live' = live \ {target}
  /\ Edit
  /\ UNCHANGED <<trigger, row, task, request, cron, clock, stops>>

\* The task is created before the run is committed.  A RUNNING run with the
\* same input would be returned instead of a new one.
RunAction(r) ==
  /\ Free
  /\ "action" \in live
  /\ \A q \in Runs : row[q].status # "RUNNING"
  /\ Unused(r)
  /\ request' = r
  /\ Queue(r, None)
  /\ UNCHANGED <<database, cron, clock, bounds>>

CommitRunAction ==
  /\ request # None
  /\ row' = [row EXCEPT ![request] = NewRun(None)]
  /\ request' = None
  /\ UNCHANGED <<live, trigger, task, cron, clock, bounds>>

RollbackRunAction ==
  /\ request # None
  /\ request' = None
  /\ UNCHANGED <<database, task, cron, clock, bounds>>

\* Only a RUNNING run is canceled; for any other the answer is 200 as well.
CancelActionRun(r) ==
  /\ Free
  /\ row[r] # NoRun
  /\ row' = IF row[r].status # "RUNNING" THEN row
            ELSE [row EXCEPT ![r].status = "CANCELED"]
  /\ UNCHANGED <<live, trigger, task, request, cron, clock, bounds>>

-----------------------------------------------------------------------------
(* Inbound webhooks and the cron loop.                                     *)

\* Wrong: the task is created, and counted, although the row is rolled back.
InboundBeforeCommit(t, r) ==
  /\ Free
  /\ trigger[t].status = "ACTIVE"
  /\ Cron[t] = <<>>
  /\ Target[t] \in live
  /\ Unused(r)
  /\ row' \in {row, [row EXCEPT ![r] = NewRun(t)]}
  /\ Count(t)
  /\ Queue(r, t)
  /\ UNCHANGED <<live, request, cron, clock, bounds>>

InboundWebhook(t, r) ==
  /\ Free
  /\ trigger[t].status = "ACTIVE"
  /\ Cron[t] = <<>>
  /\ Target[t] \in live                     \* otherwise 404
  /\ Unused(r)
  /\ row' = [row EXCEPT ![r] = NewRun(t)]
  /\ Count(t)
  /\ Queue(r, t)
  /\ UNCHANGED <<live, request, cron, clock, bounds>>

CronScan ==
  /\ cron.at = "asleep"
  /\ clock >= cron.wake
  /\ cron' = [cron EXCEPT !.at = "firing",
                          !.todo = {t \in Triggers : /\ trigger[t].status = "ACTIVE"
                                                     /\ Cron[t] # <<>>}]
  /\ UNCHANGED <<database, task, request, clock, bounds>>

\* Wrong: the loop sleeps until half a minute after it woke up.
SleepHalf == [at |-> "asleep", todo |-> {}, wake |-> clock + 1]

\* A minute from now, whatever the iteration took.
Sleep == [at |-> "asleep", todo |-> {}, wake |-> clock + 2]

\* Not due at this moment, or its target is gone.
CronSkip(t) ==
  /\ t \in cron.todo
  /\ ~Due(t) \/ Target[t] \notin live
  /\ cron' = [cron EXCEPT !.todo = @ \ {t}]
  /\ UNCHANGED <<database, task, request, clock, bounds>>

\* The trigger was read by CronScan and may have been paused since.  For an
\* action total_runs is set on the object of a closed session, and not stored.
CronFire(t, r) ==
  /\ t \in cron.todo
  /\ Due(t)
  /\ Target[t] \in live
  /\ Free
  /\ Unused(r)
  /\ cron' = [cron EXCEPT !.todo = @ \ {t}]
  /\ row' = [row EXCEPT ![r] = NewRun(t)]
  /\ IF Target[t] = "workflow" THEN Count(t) ELSE UNCHANGED trigger
  /\ Queue(r, t)
  /\ UNCHANGED <<live, request, clock, bounds>>

\* "database is locked" is raised through run_cron_triggers, so the triggers
\* that are left are not fired in this iteration.
CronAborts(t) ==
  /\ t \in cron.todo
  /\ Due(t)
  /\ Target[t] \in live
  /\ cron' = Sleep
  /\ UNCHANGED <<database, task, request, clock, bounds>>

CronSleeps ==
  /\ cron.at = "firing"
  /\ cron.todo = {}
  /\ cron' = Sleep
  /\ UNCHANGED <<database, task, request, clock, bounds>>

-----------------------------------------------------------------------------
(* The background task of an action run.                                   *)

Step(r, t) ==
  /\ task' = [task EXCEPT ![r] = t]
  /\ UNCHANGED <<live, request, cron, clock, bounds>>

\* RUNNING is flushed and dropped, and the input read from the row, which is
\* {} if the request that created the run has not committed it.
StartTask(r) ==
  /\ task[r].at = "queued"
  /\ Step(r, [task[r] EXCEPT !.at = "running", !.stored = row[r] # NoRun])
  /\ Mark(r, "RUNNING")

\* The first flush waits for the writer lock and gives up; nobody catches it.
TaskDies(r) ==
  /\ task[r].at = "queued"
  /\ row[r] # NoRun
  /\ Step(r, [task[r] EXCEPT !.at = "ended"])
  /\ UNCHANGED <<trigger, row>>

\* Code that fails in the sandbox, and a receiver that answers 500, succeed.
Act(r) ==
  /\ task[r].at = "running"
  /\ Step(r, [task[r] EXCEPT !.at = "SUCCESS", !.acts = @ + 1])
  /\ UNCHANGED <<trigger, row>>

\* An exception: the call failed, before or after the receiver acted on it.
Fail(r) ==
  /\ task[r].at = "running"
  /\ \E n \in {0, 1} :
       Step(r, [task[r] EXCEPT !.at = "FAILED", !.acts = @ + n])
  /\ UNCHANGED <<trigger, row>>

\* Wrong: a failed call is made again.
FinishOrRetry(r) ==
  /\ task[r].at \in {"SUCCESS", "FAILED"}
  /\ Step(r, [task[r] EXCEPT !.at = IF task[r].at = "FAILED" THEN "running" ELSE "ended"])
  /\ Mark(r, task[r].at)

FinishTask(r) ==
  /\ task[r].at \in {"SUCCESS", "FAILED"}
  /\ Step(r, [task[r] EXCEPT !.at = "ended"])
  /\ Mark(r, task[r].at)

Tick ==
  /\ clock < LastTick
  /\ clock' = clock + 1
  /\ UNCHANGED <<database, task, request, cron, bounds>>

\* What was in memory is gone; after the restart the cron loop scans at once.
ServerStop ==
  /\ stops < MaxStops
  /\ stops' = stops + 1
  /\ request' = None
  /\ task' = [r \in Runs |-> IF task[r].at = "none" THEN NoTask
                             ELSE [task[r] EXCEPT !.at = "ended"]]
  /\ cron' = [Sleep EXCEPT !.wake = clock]
  /\ UNCHANGED <<database, clock, edits>>

Init ==
  /\ live = {"action", "workflow"}
  /\ trigger = [t \in Triggers |-> [status |-> "none", total |-> 0]]
  /\ row = [r \in Runs |-> NoRun]
  /\ task = [r \in Runs |-> NoTask]
  /\ Free
  /\ cron = [at |-> "asleep", todo |-> {}, wake |-> 0]
  /\ clock = 0 /\ edits = 0 /\ stops = 0

Next ==
  \/ \E t \in Triggers : CreateTrigger(t) \/ UpdateTrigger(t) \/ DeleteTrigger(t)
  \/ \E target \in {"action", "workflow"} : DeleteTarget(target)
  \/ \E r \in Runs : RunAction(r) \/ CancelActionRun(r)
  \/ CommitRunAction \/ RollbackRunAction
  \/ \E t \in Triggers, r \in Runs : InboundWebhook(t, r) \/ CronFire(t, r)
  \/ \E t \in Triggers : CronSkip(t) \/ CronAborts(t)
  \/ CronScan \/ CronSleeps
  \/ \E r \in Runs : StartTask(r) \/ TaskDies(r) \/ Act(r) \/ Fail(r) \/ FinishTask(r)
  \/ Tick \/ ServerStop

Spec == Init /\ [][Next]_vars

-----------------------------------------------------------------------------
(* Properties.                                                             *)

TypeOK ==
  /\ live \subseteq {"action", "workflow"}
  /\ trigger \in [Triggers -> [status : TriggerStatus \cup {"none", "deleted"}, total : Nat]]
  /\ row \in [Runs -> [status : {"absent", "PENDING", "RUNNING", "SUCCESS", "FAILED", "CANCELED"},
                       trigger : Triggers \cup {None}, minute : Nat, life : Nat]]
  /\ task \in [Runs -> [at : {"none", "queued", "running", "SUCCESS", "FAILED", "ended"},
                        for : Triggers \cup {None}, stored : BOOLEAN, acts : Nat]]
  /\ cron \in [at : {"asleep", "firing"}, todo : SUBSET Triggers, wake : Nat]
  /\ clock \in 0 .. LastTick /\ edits \in 0 .. MaxEdits /\ stops \in 0 .. MaxStops

\* total_runs of a trigger is the number of stored runs it started, with the
\* exception of actions started by the schedule, which are not counted at all:
\* the count and the row are one transaction, and neither a PATCH nor a task
\* that is under way at the same time loses a count.
TotalRunsCountsRows ==
  \A t \in Triggers :
    trigger[t].status \in TriggerStatus =>
      trigger[t].total = IF Cron[t] # <<>> /\ Target[t] = "action" THEN 0
                         ELSE Cardinality({r \in Runs : row[r].trigger = t})

\* An action started by a trigger acts only for a run that is stored, and with
\* the input stored there: a stop or a rollback never leaves an unexplained
\* effect.  (This is not so for run_action, which creates the task first.)
TriggeredActsHaveRows ==
  \A r \in Runs : task[r].acts > 0 /\ task[r].for # None
                    => row[r].trigger = task[r].for /\ task[r].stored

\* However runs, stops and failures fall, no run acts twice.
ActsAtMostOnce == \A r \in Runs : task[r].acts <= 1

\* While the server is up, the schedule starts a trigger at most once in a
\* minute, however long an iteration of the loop takes.  (After a restart the
\* loop scans at once, and the same minute may be served again.)
OncePerMinute ==
  \A r, q \in Runs :
    /\ row[r].trigger # None
    /\ row[r].trigger = row[q].trigger
    /\ Cron[row[r].trigger] # <<>>
    /\ row[r].minute = row[q].minute
    /\ row[r].life = row[q].life
    => r = q

\* api/action.py:9-10 and api/webhooks.py:803-805: an executed run goes from
\* PENDING to RUNNING to SUCCESS or FAILED.
EndedRunsHaveVerdict ==
  \A r \in Runs : task[r].at = "ended" /\ task[r].acts > 0 /\ row[r] # NoRun
                    => row[r].status \in {"SUCCESS", "FAILED", "CANCELED"}
=============================================================================
