-------------------------- MODULE AutomationProofs --------------------------
(***************************************************************************)
(* What holds of Automation for every set of triggers and runs, all cron   *)
(* expressions and any number of edits, stops and minutes.                 *)
(***************************************************************************)
EXTENDS Automation, FiniteSetTheorems, TLAPS

Started(t) == {r \in Runs : row[r].trigger = t}
Scheduled(r) == row[r].trigger # None /\ Cron[row[r].trigger] # <<>>

Types == TypeOK /\ request \in Runs \cup {None}

\* A run that a request is about to commit has no row, and no trigger started it.
RequestIsNew ==
  request # None => row[request] = NoRun /\ task[request].for = None

\* A trigger that has not been created has started nothing.
Uncreated ==
  \A t \in Triggers :
    trigger[t].status = "none" =>
      trigger[t].total = 0 /\ t \notin cron.todo /\ Started(t) = {}

Counts == TotalRunsCountsRows /\ Uncreated

\* A task acts when it leaves "running"; the row of one that a trigger started
\* is there before it, and is found when it starts.
TaskOfRun(r) ==
  /\ task[r].at \in {"none", "queued", "running"} => task[r].acts = 0
  /\ task[r].acts <= 1
  /\ task[r].for # None =>
       /\ row[r].trigger = task[r].for
       /\ task[r].at \in {"running", "SUCCESS", "FAILED"} \/ task[r].acts > 0
            => task[r].stored

Tasks == RequestIsNew /\ \A r \in Runs : TaskOfRun(r)

\* What the schedule has started in this life of the server is older than the
\* minute of the next iteration, and of what is left of this one.
Served(r) ==
  /\ row[r].minute <= Minute
  /\ cron.at = "asleep" => row[r].minute < cron.wake \div 2
  /\ row[r].trigger \in cron.todo => row[r].minute < Minute

Schedule ==
  /\ OncePerMinute
  /\ cron.at = "asleep" => cron.todo = {}
  /\ \A r \in Runs : row[r].life <= stops
  /\ \A r \in Runs : Scheduled(r) /\ row[r].life = stops => Served(r)

-----------------------------------------------------------------------------
(* Types.                                                                  *)

LEMMA MinuteIsNat == ASSUME TypeOK PROVE Minute \in Nat
BY BoundsAssumption DEF TypeOK, Minute

LEMMA NewRunType ==
  ASSUME TypeOK, NEW t \in Triggers \cup {None}
  PROVE  NewRun(t) \in [status : {"absent", "PENDING", "RUNNING", "SUCCESS", "FAILED", "CANCELED"},
                        trigger : Triggers \cup {None}, minute : Nat, life : Nat]
BY MinuteIsNat, BoundsAssumption DEF NewRun, TypeOK

RunStates ==
  [status : {"absent", "PENDING", "RUNNING", "SUCCESS", "FAILED", "CANCELED"},
   trigger : Triggers \cup {None}, minute : Nat, life : Nat]

TaskStates ==
  [at : {"none", "queued", "running", "SUCCESS", "FAILED", "ended"},
   for : Triggers \cup {None}, stored : BOOLEAN, acts : Nat]

LEMMA NoTaskType == NoTask \in TaskStates
BY DEF NoTask, TaskStates

\* The task when it has acted n times more.
Acted(t, at, n) == [t EXCEPT !.at = at, !.acts = @ + n]

LEMMA ActedType ==
  ASSUME NEW t \in TaskStates, NEW at \in {"SUCCESS", "FAILED"}, NEW n \in {0, 1}
  PROVE  Acted(t, at, n) \in TaskStates
<1> DEFINE m == t.acts + n
<1>1. m \in Nat
  BY DEF TaskStates
<1>2. \A k \in Nat : [t EXCEPT !.at = at, !.acts = k] \in TaskStates
  BY DEF TaskStates
<1> QED
  BY <1>1, <1>2 DEF Acted

LEMMA QueueType ==
  ASSUME TypeOK, NEW r \in Runs, NEW t \in Triggers \cup {None}, Queue(r, t)
  PROVE  task' \in [Runs -> TaskStates]
BY NoTaskType DEF Queue, TypeOK, TaskStates

LEMMA CountType ==
  ASSUME TypeOK, NEW t \in Triggers, Count(t)
  PROVE  /\ trigger' \in [Triggers -> [status : TriggerStatus \cup {"none", "deleted"}, total : Nat]]
         /\ \A u \in Triggers : trigger'[u].status = trigger[u].status
BY DEF Count, TypeOK

LEMMA StepType ==
  ASSUME TypeOK, NEW r \in Runs, NEW t \in TaskStates, Step(r, t)
  PROVE  task' \in [Runs -> TaskStates]
BY DEF Step, TypeOK, TaskStates

LEMMA SleepType ==
  ASSUME TypeOK
  PROVE  Sleep \in [at : {"asleep", "firing"}, todo : SUBSET Triggers, wake : Nat]
BY BoundsAssumption DEF Sleep, TypeOK

\* Every step keeps the types.
LEMMA TypesKept == ASSUME Types, [Next]_vars PROVE Types'
<1> USE DEF Types
<1>1. ASSUME NEW t \in Triggers, CreateTrigger(t) PROVE Types'
  BY <1>1 DEF CreateTrigger, Store, TypeOK, TriggerStatus
<1>2. ASSUME NEW t \in Triggers, UpdateTrigger(t) PROVE Types'
  BY <1>2, BoundsAssumption DEF UpdateTrigger, Store, Edit, TypeOK, TriggerStatus
<1>3. ASSUME NEW t \in Triggers, DeleteTrigger(t) PROVE Types'
  BY <1>3, BoundsAssumption, SMTT(30) DEF DeleteTrigger, Store, Edit, TypeOK, TriggerStatus
<1>4. ASSUME NEW target \in {"action", "workflow"}, DeleteTarget(target) PROVE Types'
  BY <1>4, BoundsAssumption DEF DeleteTarget, Edit, TypeOK
<1>5. ASSUME NEW r \in Runs, RunAction(r) PROVE Types'
  BY <1>5, QueueType DEF RunAction, TypeOK, database, bounds, TaskStates
<1>6. CASE CommitRunAction
  BY <1>6, NewRunType DEF CommitRunAction, TypeOK, bounds
<1>7. CASE RollbackRunAction
  BY <1>7 DEF RollbackRunAction, TypeOK, database, bounds
<1>8. ASSUME NEW r \in Runs, CancelActionRun(r) PROVE Types'
  <2>1. row[r] \in RunStates /\ row \in [Runs -> RunStates]
    BY DEF TypeOK, RunStates
  <2>2. [row[r] EXCEPT !.status = "CANCELED"] \in RunStates
    BY <2>1 DEF RunStates
  <2>3. row' \in [Runs -> RunStates]
    BY <1>8, <2>1, <2>2 DEF CancelActionRun
  <2> QED
    BY <1>8, <2>3 DEF CancelActionRun, TypeOK, bounds, RunStates
<1>9. ASSUME NEW t \in Triggers, NEW r \in Runs, InboundWebhook(t, r) PROVE Types'
  BY <1>9, NewRunType, QueueType, CountType DEF InboundWebhook, TypeOK, bounds, TaskStates
<1>10. CASE CronScan
  BY <1>10 DEF CronScan, TypeOK, database, bounds
<1>11. ASSUME NEW t \in Triggers, CronSkip(t) PROVE Types'
  BY <1>11 DEF CronSkip, TypeOK, database, bounds
<1>12. ASSUME NEW t \in Triggers, NEW r \in Runs, CronFire(t, r) PROVE Types'
  <2>1. trigger' \in [Triggers -> [status : TriggerStatus \cup {"none", "deleted"}, total : Nat]]
    BY <1>12, CountType DEF CronFire, TypeOK
  <2> QED
    BY <1>12, <2>1, NewRunType, QueueType DEF CronFire, TypeOK, bounds, TaskStates
<1>13. ASSUME NEW t \in Triggers, CronAborts(t) PROVE Types'
  BY <1>13, SleepType DEF CronAborts, TypeOK, database, bounds
<1>14. CASE CronSleeps
  BY <1>14, SleepType DEF CronSleeps, TypeOK, database, bounds
<1>15. ASSUME NEW r \in Runs, StartTask(r) \/ TaskDies(r) \/ Act(r) \/ Fail(r) \/ FinishTask(r)
       PROVE  Types'
  <2>1. UNCHANGED <<trigger, row, live, request, cron, clock, bounds>>
    BY <1>15 DEF StartTask, TaskDies, Act, Fail, FinishTask, Step, Mark
  <2>2. \E t \in TaskStates : Step(r, t)
    <3>1. task[r] \in TaskStates
      BY DEF TypeOK, TaskStates
    <3>2. CASE StartTask(r)
      <4>1. [task[r] EXCEPT !.at = "running", !.stored = row[r] # NoRun] \in TaskStates
        BY <3>1 DEF TaskStates
      <4> QED
        BY <3>2, <4>1 DEF StartTask
    <3>3. CASE TaskDies(r) \/ FinishTask(r)
      <4>1. [task[r] EXCEPT !.at = "ended"] \in TaskStates
        BY <3>1 DEF TaskStates
      <4> QED
        BY <3>3, <4>1 DEF TaskDies, FinishTask
    <3>4. CASE Act(r)
      <4>1. Step(r, Acted(task[r], "SUCCESS", 1))
        BY <3>4 DEF Act, Acted
      <4> QED
        BY <3>1, <4>1, ActedType
    <3>5. CASE Fail(r)
      <4>1. PICK n \in {0, 1} : Step(r, Acted(task[r], "FAILED", n))
        BY <3>5 DEF Fail, Acted
      <4> QED
        BY <3>1, <4>1, ActedType
    <3> QED
      BY <1>15, <3>2, <3>3, <3>4, <3>5
  <2>3. task' \in [Runs -> TaskStates]
    BY <2>2, StepType
  <2> QED
    BY <2>1, <2>3 DEF TypeOK, bounds, TaskStates
<1>16. CASE Tick
  BY <1>16, BoundsAssumption DEF Tick, TypeOK, database, bounds
<1>17. CASE ServerStop
  <2>1. task' \in [Runs -> TaskStates]
    BY <1>17, NoTaskType, ZenonT(60) DEF ServerStop, TypeOK, TaskStates
  <2>2. cron' \in [at : {"asleep", "firing"}, todo : SUBSET Triggers, wake : Nat]
    <3>1. clock \in Nat
      BY BoundsAssumption DEF TypeOK
    <3> QED
      BY <1>17, <3>1 DEF ServerStop, Sleep
  <2> QED
    BY <1>17, <2>1, <2>2, BoundsAssumption DEF ServerStop, TypeOK, database, TaskStates
<1>18. CASE UNCHANGED vars
  BY <1>18 DEF vars, TypeOK
<1> QED
  BY <1>1, <1>2, <1>3, <1>4, <1>5, <1>6, <1>7, <1>8, <1>9, <1>10, <1>11, <1>12, <1>13,
     <1>14, <1>15, <1>16, <1>17, <1>18 DEF Next

\* In the initial state nothing has been created.
LEMMA TypesInit == Init => Types
BY NoTaskType, BoundsAssumption DEF Init, Types, TypeOK, NoRun, TaskStates, Free

\* TypeOK of Automation (the columns of api/action.py and api/webhooks.py keep their
\* values) holds in every reachable state.
THEOREM TypeCorrect == Spec => []TypeOK
<1>1. Spec => []Types
  BY TypesInit, TypesKept, PTL DEF Spec
<1>2. Types => TypeOK
  BY DEF Types
<1> QED
  BY <1>1, <1>2, PTL

-----------------------------------------------------------------------------
(* What total_runs counts.                                                 *)

Tally(t) ==
  IF Cron[t] # <<>> /\ Target[t] = "action" THEN 0 ELSE Cardinality(Started(t))

LEMMA StartedIsFinite == ASSUME NEW t PROVE IsFiniteSet(Started(t))
BY RunsAssumption, FS_Subset DEF Started

\* A step that starts no run and changes no count.
LEMMA NothingCounted ==
  ASSUME Types, Counts,
         \A r \in Runs : row'[r].trigger = row[r].trigger,
         \A t \in Triggers :
           /\ trigger'[t].total = trigger[t].total
           /\ trigger'[t].status \in TriggerStatus
                => trigger[t].status \in TriggerStatus \cup {"none"}
           /\ trigger'[t].status = "none"
                => trigger[t].status = "none" /\ t \notin cron'.todo
  PROVE  Counts'
<1>1. \A t \in Triggers : Started(t)' = Started(t)
  BY DEF Started
<1>2. ASSUME NEW t \in Triggers, trigger'[t].status \in TriggerStatus
      PROVE  trigger'[t].total = IF Cron[t] # <<>> /\ Target[t] = "action" THEN 0
                                 ELSE Cardinality(Started(t)')
  <2>1. CASE trigger[t].status \in TriggerStatus
    BY <1>1, <2>1 DEF Counts, TotalRunsCountsRows, Started
  <2>2. CASE trigger[t].status = "none"
    BY <1>1, <2>2, FS_EmptySet DEF Counts, Uncreated
  <2> QED
    BY <1>2, <2>1, <2>2
<1>3. TotalRunsCountsRows'
  BY <1>2 DEF TotalRunsCountsRows, Started
<1>4. Uncreated'
  BY <1>1 DEF Counts, Uncreated
<1> QED
  BY <1>3, <1>4 DEF Counts

\* A trigger starts a run and counts it, unless the schedule starts an action.
LEMMA RunCounted ==
  ASSUME Types, Counts, NEW t \in Triggers, NEW r \in Runs,
         trigger[t].status # "none", row[r] = NoRun,
         row' = [row EXCEPT ![r] = NewRun(t)],
         cron'.todo \subseteq cron.todo,
         IF Cron[t] # <<>> /\ Target[t] = "action" THEN UNCHANGED trigger ELSE Count(t)
  PROVE  Counts'
<1>1. row'[r].trigger = t /\ row[r].trigger # t /\ (\A q \in Runs \ {r} : row'[q] = row[q])
  BY NoneAssumption DEF Types, TypeOK, NewRun, NoRun
<1>2. Started(t)' = Started(t) \cup {r} /\ r \notin Started(t)
  BY <1>1 DEF Started
<1>3. Cardinality(Started(t)') = Cardinality(Started(t)) + 1
  BY <1>2, StartedIsFinite, FS_AddElement
<1>4. ASSUME NEW u \in Triggers, u # t PROVE Started(u)' = Started(u)
  <2>1. row[r].trigger # u
    BY NoneAssumption DEF NoRun
  <2> QED
    BY <1>1, <1>4, <2>1 DEF Started
<1>5. ASSUME NEW u \in Triggers
      PROVE  trigger'[u].status = trigger[u].status /\ (u # t => trigger'[u] = trigger[u])
  BY DEF Count, Types, TypeOK
<1>6. trigger[t].status \in TriggerStatus =>
        trigger'[t].total = IF Cron[t] # <<>> /\ Target[t] = "action" THEN trigger[t].total
                            ELSE trigger[t].total + 1
  BY DEF Count, Types, TypeOK, TriggerStatus
<1>7. TotalRunsCountsRows'
  <2>1. ASSUME NEW u \in Triggers, trigger'[u].status \in TriggerStatus
        PROVE  trigger'[u].total = Tally(u)'
    <3>1. trigger[u].total = Tally(u)
      <4>1. trigger[u].status \in TriggerStatus
        BY <1>5, <2>1
      <4> QED
        BY <4>1 DEF Counts, TotalRunsCountsRows, Tally, Started
    <3>2. CASE u # t
      BY <1>4, <1>5, <3>1, <3>2 DEF Tally
    <3>3. CASE u = t
      <4>1. trigger[t].status \in TriggerStatus
        BY <1>5, <2>1, <3>3
      <4> QED
        BY <1>3, <1>6, <3>1, <3>3, <4>1 DEF Tally
    <3> QED
      BY <3>2, <3>3
  <2> QED
    BY <2>1 DEF TotalRunsCountsRows, Tally, Started
<1>8. Uncreated'
  <2>1. ASSUME NEW u \in Triggers, trigger'[u].status = "none"
        PROVE  trigger'[u].total = 0 /\ u \notin cron'.todo /\ Started(u)' = {}
    <3>1. trigger[u].status = "none" /\ u # t /\ trigger'[u] = trigger[u]
      BY <1>5, <2>1
    <3> QED
      BY <1>4, <3>1 DEF Counts, Uncreated
  <2> QED
    BY <2>1 DEF Uncreated
<1> QED
  BY <1>7, <1>8 DEF Counts

\* Every step keeps the counts.  A run that is being committed has no trigger
\* before and none after.
LEMMA CountsKept ==
  ASSUME Types, RequestIsNew, Counts, [Next]_vars PROVE Counts'
<1> USE DEF Types
<1>1. ASSUME NEW t \in Triggers, CreateTrigger(t) \/ UpdateTrigger(t) \/ DeleteTrigger(t)
      PROVE  Counts'
  <2>1. \E s \in TriggerStatus \cup {"deleted"} : Store(t, s)
    BY <1>1 DEF CreateTrigger, UpdateTrigger, DeleteTrigger, TriggerStatus
  <2>2. PICK s \in TriggerStatus \cup {"deleted"} : Store(t, s)
    BY <2>1
  <2>3. trigger[t].status \in TriggerStatus \cup {"none"}
    BY <1>1 DEF CreateTrigger, UpdateTrigger, DeleteTrigger
  <2>4. row' = row /\ cron' = cron
    BY <2>2 DEF Store
  <2>5. ASSUME NEW u \in Triggers
        PROVE  /\ trigger'[u].total = trigger[u].total
               /\ u # t => trigger'[u] = trigger[u]
               /\ u = t => trigger'[u].status = s
    BY <2>2 DEF Store, TypeOK
  <2>6. ASSUME NEW u \in Triggers, trigger'[u].status = "none"
        PROVE  trigger[u].status = "none" /\ u \notin cron'.todo
    <3>1. u # t
      BY <2>5, <2>6 DEF TriggerStatus
    <3> QED
      BY <2>4, <2>5, <2>6, <3>1 DEF Counts, Uncreated
  <2>7. ASSUME NEW u \in Triggers, trigger'[u].status \in TriggerStatus
        PROVE  trigger[u].status \in TriggerStatus \cup {"none"}
    BY <2>3, <2>5, <2>7
  <2>8. \A u \in Triggers : trigger'[u].total = trigger[u].total
    BY <2>5
  <2> QED
    BY <2>4, <2>6, <2>7, <2>8, NothingCounted
<1>2. ASSUME UNCHANGED trigger, \A r \in Runs : row'[r].trigger = row[r].trigger,
             \A t \in cron'.todo : t \in cron.todo \/ trigger[t].status = "ACTIVE"
      PROVE  Counts'
  <2>1. \A t \in Triggers : trigger[t].status = "none" => t \notin cron'.todo
    BY <1>2 DEF Counts, Uncreated
  <2> QED
    BY <1>2, <2>1, NothingCounted
<1>3. CASE CommitRunAction
  <2>1. \A r \in Runs : row'[r].trigger = row[r].trigger
    BY <1>3 DEF CommitRunAction, RequestIsNew, TypeOK, NewRun, NoRun
  <2> QED
    BY <1>2, <1>3, <2>1 DEF CommitRunAction
<1>4. ASSUME NEW r \in Runs, CancelActionRun(r) PROVE Counts'
  <2>1. \A q \in Runs : row'[q].trigger = row[q].trigger
    BY <1>4 DEF CancelActionRun, TypeOK
  <2> QED
    BY <1>2, <1>4, <2>1 DEF CancelActionRun
<1>5. ASSUME NEW t \in Triggers, NEW r \in Runs, InboundWebhook(t, r) PROVE Counts'
  BY <1>5, RunCounted DEF InboundWebhook, Unused
<1>6. ASSUME NEW t \in Triggers, NEW r \in Runs, CronFire(t, r) PROVE Counts'
  <2>1. trigger[t].status # "none"
    BY <1>6 DEF CronFire, Counts, Uncreated
  <2>2. row[r] = NoRun /\ row' = [row EXCEPT ![r] = NewRun(t)]
    BY <1>6 DEF CronFire, Unused
  <2>3. cron'.todo \subseteq cron.todo
    BY <1>6 DEF CronFire, TypeOK
  <2>4. CASE Target[t] = "workflow"
    BY <1>6, <2>1, <2>2, <2>3, <2>4, RunCounted DEF CronFire
  <2>5. CASE Target[t] = "action" /\ Cron[t] # <<>>
    BY <1>6, <2>1, <2>2, <2>3, <2>5, RunCounted DEF CronFire
  <2>6. Cron[t] # <<>>
    BY <1>6 DEF CronFire, Due, CronMatches
  <2> QED
    BY <2>4, <2>5, <2>6, TargetAssumption
<1>7. CASE CronScan \/ CronSleeps \/ \E t \in Triggers : CronSkip(t) \/ CronAborts(t)
  <2>1. UNCHANGED <<trigger, row>>
    BY <1>7 DEF CronScan, CronSleeps, CronSkip, CronAborts, database
  <2>2. ASSUME NEW t \in cron'.todo PROVE t \in cron.todo \/ trigger[t].status = "ACTIVE"
    <3>1. CASE CronScan
      BY <2>2, <3>1 DEF CronScan, TypeOK
    <3>2. CASE CronSleeps \/ \E u \in Triggers : CronAborts(u)
      BY <2>2, <3>2 DEF CronSleeps, CronAborts, Sleep
    <3>3. CASE \E u \in Triggers : CronSkip(u)
      BY <2>2, <3>3 DEF CronSkip, TypeOK
    <3> QED
      BY <1>7, <3>1, <3>2, <3>3
  <2> QED
    BY <1>2, <2>1, <2>2
<1>8. CASE ServerStop
  BY <1>2, <1>8 DEF ServerStop, Sleep, database
<1>9. CASE UNCHANGED <<trigger, row, cron>>
  BY <1>2, <1>9
<1> QED
  BY <1>1, <1>3, <1>4, <1>5, <1>6, <1>7, <1>8, <1>9
  DEF Next, vars, database, DeleteTarget, RunAction, RollbackRunAction, StartTask, Mark,
      TaskDies, Act, Fail, FinishTask, Step, Tick

-----------------------------------------------------------------------------
(* What the tasks do.                                                      *)

\* The task of run r takes a step; the rows and the other tasks stay.
LEMMA TaskStepKeeps ==
  ASSUME Types, Tasks, NEW r \in Runs, NEW t \in TaskStates, Step(r, t), row' = row,
         t.for = task[r].for,
         TaskOfRun(r) /\ task'[r] = t => TaskOfRun(r)'
  PROVE  Tasks'
<1>1. task'[r] = t /\ (\A q \in Runs \ {r} : task'[q] = task[q]) /\ request' = request
  BY DEF Step, Types, TypeOK
<1>2. RequestIsNew'
  BY <1>1 DEF Tasks, RequestIsNew, Types
<1>3. \A q \in Runs : TaskOfRun(q)'
  BY <1>1 DEF Tasks, TaskOfRun
<1> QED
  BY <1>2, <1>3 DEF Tasks

LEMMA TasksKept == ASSUME Types, Tasks, [Next]_vars PROVE Tasks'
<1>1. ASSUME NEW r \in Runs, RunAction(r) PROVE Tasks'
  <2>1. row[r] = NoRun /\ request' = r /\ row' = row
    BY <1>1 DEF RunAction, Unused, database
  <2>2. task' = [task EXCEPT ![r] = [NoTask EXCEPT !.at = "queued", !.for = None]]
    BY <1>1 DEF RunAction, Queue
  <2>3. task'[r].for = None /\ task'[r].acts = 0
    BY <2>2 DEF NoTask, Types, TypeOK
  <2>4. TaskOfRun(r)'
    BY <2>3 DEF TaskOfRun
  <2>5. \A q \in Runs \ {r} : TaskOfRun(q)'
    BY <2>1, <2>2 DEF Tasks, TaskOfRun, Types, TypeOK
  <2> QED
    BY <2>1, <2>3, <2>4, <2>5 DEF Tasks, RequestIsNew
<1>2. CASE CommitRunAction
  <2>1. request' = None /\ task' = task /\ \A q \in Runs \ {request} : row'[q] = row[q]
    BY <1>2 DEF CommitRunAction, Types, TypeOK
  <2>2. task[request].for = None /\ request \in Runs
    BY <1>2 DEF CommitRunAction, Tasks, RequestIsNew, Types
  <2>3. \A q \in Runs : TaskOfRun(q)'
    BY <2>1, <2>2 DEF Tasks, TaskOfRun
  <2> QED
    BY <2>1, <2>3 DEF Tasks, RequestIsNew
<1>3. ASSUME NEW r \in Runs, CancelActionRun(r) PROVE Tasks'
  <2>1. task' = task /\ request' = request /\ request = None
    BY <1>3 DEF CancelActionRun, Free
  <2>2. \A q \in Runs : row'[q].trigger = row[q].trigger
    BY <1>3 DEF CancelActionRun, Types, TypeOK
  <2> QED
    BY <2>1, <2>2 DEF Tasks, RequestIsNew, TaskOfRun
<1>4. ASSUME NEW t \in Triggers, NEW r \in Runs, InboundWebhook(t, r) \/ CronFire(t, r)
      PROVE  Tasks'
  <2>1. request' = None /\ row' = [row EXCEPT ![r] = NewRun(t)] /\ Queue(r, t) /\ task[r] = NoTask
    BY <1>4 DEF InboundWebhook, CronFire, Free, Unused
  <2>2. row'[r].trigger = t
    BY <2>1 DEF NewRun, Types, TypeOK
  <2>3. task'[r] = NoTask \/ task'[r] = [NoTask EXCEPT !.at = "queued", !.for = t]
    BY <2>1 DEF Queue, Types, TypeOK
  <2>4. TaskOfRun(r)'
    <3>1. CASE task'[r] = NoTask
      BY <3>1 DEF NoTask, TaskOfRun
    <3>2. CASE task'[r] = [NoTask EXCEPT !.at = "queued", !.for = t]
      BY <2>2, <3>2 DEF NoTask, TaskOfRun
    <3> QED
      BY <2>3, <3>1, <3>2
  <2>5. \A q \in Runs \ {r} : task'[q] = task[q] /\ row'[q] = row[q]
    BY <2>1 DEF Queue, Types, TypeOK
  <2>6. \A q \in Runs \ {r} : TaskOfRun(q)'
    BY <2>5 DEF Tasks, TaskOfRun
  <2> QED
    BY <2>1, <2>4, <2>6 DEF Tasks, RequestIsNew
<1>5. ASSUME NEW r \in Runs, StartTask(r) PROVE Tasks'
  <2> DEFINE t == [task[r] EXCEPT !.at = "running", !.stored = row[r] # NoRun]
  <2>1. Step(r, t) /\ row' = row /\ task[r].at = "queued"
    BY <1>5 DEF StartTask, Mark
  <2>2. t \in TaskStates /\ t.for = task[r].for /\ t.acts = task[r].acts
        /\ t.at = "running" /\ (t.stored <=> row[r] # NoRun)
    BY ZenonT(60) DEF TaskStates, Types, TypeOK
  <2>3. row[r].trigger # None => row[r] # NoRun
    BY DEF NoRun
  <2> HIDE DEF t
  <2>4. TaskOfRun(r) /\ task'[r] = t => TaskOfRun(r)'
    BY <2>1, <2>2, <2>3 DEF TaskOfRun
  <2> QED
    BY <2>1, <2>2, <2>4, TaskStepKeeps
<1>6. ASSUME NEW r \in Runs, TaskDies(r) \/ FinishTask(r) PROVE Tasks'
  <2> DEFINE t == [task[r] EXCEPT !.at = "ended"]
  <2>1. Step(r, t) /\ row' = row
    BY <1>6 DEF TaskDies, FinishTask, Mark
  <2>2. t \in TaskStates /\ t.for = task[r].for /\ t.acts = task[r].acts
        /\ t.at = "ended" /\ t.stored = task[r].stored
    BY ZenonT(60) DEF TaskStates, Types, TypeOK
  <2> HIDE DEF t
  <2>3. TaskOfRun(r) /\ task'[r] = t => TaskOfRun(r)'
    BY <2>1, <2>2 DEF TaskOfRun
  <2> QED
    BY <2>1, <2>2, <2>3, TaskStepKeeps
<1>7. ASSUME NEW r \in Runs, Act(r) \/ Fail(r) PROVE Tasks'
  <2>1. PICK at \in {"SUCCESS", "FAILED"}, n \in {0, 1} : Step(r, Acted(task[r], at, n))
    BY <1>7 DEF Act, Fail, Acted
  <2> DEFINE t == Acted(task[r], at, n)
  <2>2. row' = row /\ task[r].at = "running"
    BY <1>7 DEF Act, Fail
  <2>3. task[r] \in TaskStates
    BY DEF TaskStates, Types, TypeOK
  <2>4. t \in TaskStates
    BY <2>3, ActedType
  <2>5. t.for = task[r].for /\ t.acts = task[r].acts + n /\ t.at = at
        /\ t.stored = task[r].stored
    BY <2>3 DEF TaskStates, Acted
  <2>6. task[r].acts = 0 => t.acts \in {0, 1}
    BY <2>5
  <2> HIDE DEF t
  <2>7. TaskOfRun(r) /\ task'[r] = t => TaskOfRun(r)'
    BY <2>2, <2>5, <2>6 DEF TaskOfRun
  <2> QED
    BY <2>1, <2>2, <2>4, <2>5, <2>7, TaskStepKeeps DEF t
<1>8. CASE ServerStop
  <2>1. row' = row /\ request' = None
    BY <1>8 DEF ServerStop, database
  <2>2. \A r \in Runs : task'[r] \in {NoTask, [task[r] EXCEPT !.at = "ended"]}
    BY <1>8 DEF ServerStop
  <2>3. ASSUME NEW r \in Runs PROVE TaskOfRun(r)'
    <3>1. CASE task'[r] = NoTask
      <4>1. task'[r].acts = 0 /\ task'[r].for = None
        BY <3>1 DEF NoTask
      <4> QED
        BY <4>1 DEF TaskOfRun
    <3>2. CASE task'[r] = [task[r] EXCEPT !.at = "ended"]
      <4>1. /\ task'[r].acts = task[r].acts /\ task'[r].for = task[r].for
            /\ task'[r].at = "ended" /\ task'[r].stored = task[r].stored
        BY <3>2 DEF Types, TypeOK
      <4> QED
        BY <2>1, <4>1 DEF Tasks, TaskOfRun
    <3> QED
      BY <2>2, <3>1, <3>2
  <2> QED
    BY <2>1, <2>3 DEF Tasks, RequestIsNew
<1>9. CASE UNCHANGED <<row, task>> /\ request' \in {request, None}
  BY <1>9 DEF Tasks, RequestIsNew, TaskOfRun
<1> QED
  BY <1>1, <1>2, <1>3, <1>4, <1>5, <1>6, <1>7, <1>8, <1>9
  DEF Next, vars, database, CreateTrigger, UpdateTrigger, DeleteTrigger, Store, DeleteTarget,
      RollbackRunAction, CronScan, CronSleeps, CronSkip, CronAborts, Tick

-----------------------------------------------------------------------------
(* The schedule.                                                           *)

LEMMA Halves ==
  ASSUME NEW a \in Nat, NEW b \in Nat, a <= b
  PROVE  /\ a \div 2 <= b \div 2
         /\ (a + 2) \div 2 = a \div 2 + 1
OBVIOUS

LEMMA ClockTypes ==
  ASSUME Types
  PROVE  /\ clock \in Nat /\ stops \in Nat
         /\ cron.wake \in Nat /\ cron.todo \subseteq Triggers
         /\ \A r \in Runs : row[r].minute \in Nat /\ row[r].life \in Nat
BY BoundsAssumption DEF Types, TypeOK

\* A step that starts no run of a trigger.
LEMMA NothingStarted ==
  ASSUME Types, Schedule, stops' = stops,
         \A r \in Runs :
           row'[r].trigger # None => /\ row'[r].trigger = row[r].trigger
                                     /\ row'[r].minute = row[r].minute
                                     /\ row'[r].life = row[r].life,
         \A r \in Runs : row'[r].life <= stops,
         cron'.at = "asleep" => cron'.todo = {},
         \A r \in Runs : Scheduled(r) /\ row[r].life = stops /\ Served(r)
                           /\ row'[r].trigger # None => Served(r)'
  PROVE  Schedule'
<1>1. OncePerMinute'
  BY DEF Schedule, OncePerMinute
<1>2. ASSUME NEW r \in Runs, Scheduled(r)', (row[r].life = stops)' PROVE Served(r)'
  BY <1>2 DEF Schedule, Scheduled
<1> QED
  BY <1>1, <1>2 DEF Schedule

\* An iteration of the loop goes to sleep: what it started is of this minute or
\* older, and it sleeps for a whole one.
LEMMA SleepServes ==
  ASSUME Types, NEW r \in Runs, Served(r), cron' = Sleep, row' = row, clock' = clock
  PROVE  Served(r)'
<1>1. (clock + 2) \div 2 = Minute + 1 /\ Minute \in Int
  BY Halves, ClockTypes DEF Minute
<1>2. cron'.wake = clock + 2 /\ cron'.todo = {}
  BY DEF Sleep
<1>3. row[r].minute < Minute + 1
  BY <1>1, ClockTypes DEF Served
<1>4. cron'.wake \div 2 = Minute + 1
  BY <1>1, <1>2
<1> QED
  BY <1>2, <1>3, <1>4 DEF Served, Minute

LEMMA ScheduleKept == ASSUME Types, Schedule, [Next]_vars PROVE Schedule'
<1>0. \A r \in Runs : row[r].life <= stops
  BY DEF Schedule
<1>1. CASE UNCHANGED <<row, cron, clock, stops>>
  BY <1>0, <1>1, NothingStarted DEF Schedule, Served, Minute
<1>2. CASE CommitRunAction
  <2>1. request \in Runs /\ UNCHANGED <<cron, clock, stops>>
    BY <1>2 DEF CommitRunAction, Types, bounds
  <2>2. row'[request].trigger = None /\ row'[request].life = stops
        /\ \A q \in Runs \ {request} : row'[q] = row[q]
    BY <1>2, <2>1 DEF CommitRunAction, Types, TypeOK, NewRun
  <2>3. \A r \in Runs : row'[r].life <= stops
    BY <1>0, <2>2, ClockTypes
  <2> QED
    BY <2>1, <2>2, <2>3, NothingStarted DEF Schedule, Served, Minute
<1>3. ASSUME NEW r \in Runs, CancelActionRun(r) PROVE Schedule'
  <2>1. \A q \in Runs : /\ row'[q].trigger = row[q].trigger
                        /\ row'[q].minute = row[q].minute
                        /\ row'[q].life = row[q].life
    BY <1>3 DEF CancelActionRun, Types, TypeOK
  <2>2. UNCHANGED <<cron, clock, stops>>
    BY <1>3 DEF CancelActionRun, bounds
  <2> QED
    BY <1>0, <2>1, <2>2, NothingStarted DEF Schedule, Served, Minute
<1>4. ASSUME NEW t \in Triggers, NEW r \in Runs, InboundWebhook(t, r) \/ CronFire(t, r)
      PROVE  Schedule'
  <2>1. row'[r].trigger = t /\ row'[r].minute = Minute /\ row'[r].life = stops
        /\ \A q \in Runs \ {r} : row'[q] = row[q]
    <3>1. row' = [row EXCEPT ![r] = NewRun(t)]
      BY <1>4 DEF InboundWebhook, CronFire
    <3>2. r \in DOMAIN row /\ DOMAIN row = Runs
      BY DEF Types, TypeOK
    <3>3. NewRun(t).trigger = t /\ NewRun(t).minute = Minute /\ NewRun(t).life = stops
      BY DEF NewRun
    <3> QED
      BY <3>1, <3>2, <3>3
  <2>2. clock' = clock /\ stops' = stops /\ cron'.at = cron.at /\ cron'.wake = cron.wake
        /\ cron'.todo \subseteq cron.todo
    BY <1>4 DEF InboundWebhook, CronFire, bounds, Types, TypeOK
  <2>3. \/ Cron[t] = <<>>
        \/ t \in cron.todo /\ cron'.todo = cron.todo \ {t}
    BY <1>4 DEF InboundWebhook, CronFire, Types, TypeOK
  <2>4. t # None
    BY NoneAssumption
  <2>5. ASSUME NEW q \in Runs \ {r}, row[q].trigger = t, Cron[t] # <<>>, row[q].life = stops
        PROVE  row[q].minute # Minute
    <3>1. Served(q)
      BY <2>4, <2>5 DEF Schedule, Scheduled
    <3>2. row[q].minute < Minute
      BY <2>3, <2>5, <3>1 DEF Served
    <3> QED
      BY <3>2, ClockTypes
  <2>6. OncePerMinute'
    <3>1. ASSUME NEW q \in Runs \ {r}, row'[q].trigger = t, Cron[t] # <<>>,
                 row'[q].minute = row'[r].minute, row'[q].life = row'[r].life
          PROVE  FALSE
      BY <2>1, <2>5, <3>1
    <3>2. ASSUME NEW p \in Runs, NEW q \in Runs, p # q,
                 row'[p].trigger # None, row'[p].trigger = row'[q].trigger,
                 Cron[row'[p].trigger] # <<>>, row'[p].minute = row'[q].minute,
                 row'[p].life = row'[q].life
          PROVE  FALSE
      <4>1. CASE p = r
        BY <2>1, <3>1, <3>2, <4>1
      <4>2. CASE q = r
        BY <2>1, <3>1, <3>2, <4>2
      <4>3. CASE p # r /\ q # r
        BY <2>1, <3>2, <4>3 DEF Schedule, OncePerMinute
      <4> QED
        BY <4>1, <4>2, <4>3
    <3> QED
      BY <3>2 DEF OncePerMinute
  <2>7. \A q \in Runs : row'[q].life <= stops'
    BY <1>0, <2>1, <2>2, ClockTypes
  <2>8. cron'.at = "asleep" => cron'.todo = {}
    BY <2>2 DEF Schedule
  <2>9. ASSUME NEW q \in Runs, Scheduled(q)', (row[q].life = stops)' PROVE Served(q)'
    <3>1. CASE q # r
      <4>1. row'[q] = row[q]
        BY <2>1, <3>1
      <4>2. Served(q)
        BY <2>2, <2>9, <4>1 DEF Schedule, Scheduled
      <4> QED
        BY <2>2, <4>1, <4>2 DEF Served, Minute
    <3>2. CASE q = r
      <4>1. t \in cron.todo /\ cron'.todo = cron.todo \ {t}
        BY <2>1, <2>3, <2>9, <3>2 DEF Scheduled
      <4>2. cron'.at # "asleep"
        BY <2>2, <4>1 DEF Schedule
      <4>3. row'[q].minute <= Minute'
        BY <2>1, <2>2, <3>2, ClockTypes DEF Minute
      <4> QED
        BY <2>1, <3>2, <4>1, <4>2, <4>3 DEF Served
    <3> QED
      BY <3>1, <3>2
  <2> QED
    BY <2>6, <2>7, <2>8, <2>9 DEF Schedule
<1>5. CASE CronScan
  <2>1. UNCHANGED <<row, clock, stops>> /\ cron'.at = "firing"
    BY <1>5 DEF CronScan, database, bounds, Types, TypeOK
  <2>2. cron.at = "asleep" /\ cron.wake <= clock
    BY <1>5, ClockTypes DEF CronScan
  <2>3. cron.wake \div 2 <= Minute /\ cron.wake \div 2 \in Int /\ Minute \in Int
    BY <2>2, Halves, ClockTypes DEF Minute
  <2>4. ASSUME NEW r \in Runs, Served(r) PROVE Served(r)'
    <3>1. row[r].minute < Minute
      BY <2>2, <2>3, <2>4, ClockTypes DEF Served
    <3> QED
      BY <2>1, <2>4, <3>1 DEF Served, Minute
  <2> QED
    BY <1>0, <2>1, <2>4, NothingStarted
<1>6. ASSUME NEW t \in Triggers, CronSkip(t) PROVE Schedule'
  <2>1. UNCHANGED <<row, clock, stops>> /\ cron'.at = cron.at /\ cron'.wake = cron.wake
        /\ cron'.todo \subseteq cron.todo
    BY <1>6 DEF CronSkip, database, bounds, Types, TypeOK
  <2>2. ASSUME NEW r \in Runs, Served(r) PROVE Served(r)'
    BY <2>1, <2>2 DEF Served, Minute
  <2>3. cron'.at = "asleep" => cron'.todo = {}
    BY <2>1 DEF Schedule
  <2> QED
    BY <1>0, <2>1, <2>2, <2>3, NothingStarted
<1>7. CASE CronSleeps \/ \E t \in Triggers : CronAborts(t)
  <2>1. UNCHANGED <<row, clock, stops>> /\ cron' = Sleep
    BY <1>7 DEF CronSleeps, CronAborts, database, bounds
  <2>2. cron'.todo = {}
    BY <2>1 DEF Sleep
  <2> QED
    BY <1>0, <2>1, <2>2, SleepServes, NothingStarted
<1>8. CASE Tick
  <2>1. UNCHANGED <<row, cron, stops>> /\ clock' = clock + 1
    BY <1>8 DEF Tick, database, bounds
  <2>2. Minute <= Minute' /\ Minute \in Int /\ Minute' \in Int
    <3>1. clock \in Nat /\ clock + 1 \in Nat /\ clock <= clock + 1
      BY ClockTypes
    <3>2. clock \div 2 <= (clock + 1) \div 2
      BY <3>1, Halves
    <3> QED
      BY <2>1, <3>1, <3>2 DEF Minute
  <2>3. ASSUME NEW r \in Runs, Served(r) PROVE Served(r)'
    BY <2>1, <2>2, <2>3, ClockTypes DEF Served
  <2> QED
    BY <1>0, <2>1, <2>3, NothingStarted DEF Schedule
<1>9. CASE ServerStop
  <2>1. row' = row /\ stops' = stops + 1 /\ cron'.todo = {}
    BY <1>9 DEF ServerStop, database, Sleep
  <2>2. \A r \in Runs : row[r].life <= stops' /\ row[r].life # stops'
    BY <1>0, <2>1, ClockTypes
  <2>3. OncePerMinute'
    BY <2>1 DEF Schedule, OncePerMinute
  <2> QED
    BY <2>1, <2>2, <2>3 DEF Schedule
<1>10. CASE \/ UNCHANGED vars \/ RollbackRunAction
            \/ \E t \in Triggers : CreateTrigger(t) \/ UpdateTrigger(t) \/ DeleteTrigger(t)
            \/ \E target \in {"action", "workflow"} : DeleteTarget(target)
            \/ \E r \in Runs : RunAction(r) \/ StartTask(r) \/ TaskDies(r) \/ Act(r)
                               \/ Fail(r) \/ FinishTask(r)
  <2>1. UNCHANGED <<row, cron, clock, stops>>
    BY <1>10 DEF vars, database, bounds, CreateTrigger, UpdateTrigger, DeleteTrigger, Store,
                 DeleteTarget, RunAction, RollbackRunAction, StartTask, Mark, TaskDies, Act,
                 Fail, FinishTask, Step
  <2> QED
    BY <1>1, <2>1
<1> QED
  BY <1>2, <1>3, <1>4, <1>5, <1>6, <1>7, <1>8, <1>9, <1>10 DEF Next

-----------------------------------------------------------------------------
(* The theorems.                                                           *)

IInv == Types /\ Counts /\ Tasks /\ Schedule

LEMMA InitIInv == Init => IInv
<1> SUFFICES ASSUME Init PROVE IInv
  OBVIOUS
<1>1. Types
  BY TypesInit
<1>2. \A r \in Runs : row[r].trigger = None /\ row[r].life = 0 /\ TaskOfRun(r)
  BY DEF Init, NoRun, NoTask, TaskOfRun
<1>3. Tasks
  BY <1>2 DEF Init, Free, Tasks, RequestIsNew
<1>4. \A t \in Triggers : /\ trigger[t].status = "none" /\ trigger[t].total = 0
                          /\ t \notin cron.todo /\ Started(t) = {}
  BY <1>2, NoneAssumption DEF Init, Started
<1>5. Counts
  BY <1>4 DEF Counts, TotalRunsCountsRows, Uncreated, TriggerStatus
<1>6. Schedule
  BY <1>2, BoundsAssumption DEF Init, Schedule, OncePerMinute, Scheduled
<1> QED
  BY <1>1, <1>3, <1>5, <1>6 DEF IInv

\* The inductive invariant holds in every reachable state.
THEOREM Invariance == Spec => []IInv
<1>1. IInv /\ [Next]_vars => IInv'
  BY TypesKept, CountsKept, TasksKept, ScheduleKept DEF IInv, Tasks
<1> QED
  BY <1>1, InitIInv, PTL DEF Spec

\* TotalRunsCountsRows of Automation: a trigger's total_runs is the number of runs it has
\* started, whatever requests, tasks, iterations of the cron loop and stops come between.
THEOREM CountersAreExact == Spec => []TotalRunsCountsRows
<1>1. IInv => TotalRunsCountsRows
  BY DEF IInv, Counts
<1> QED
  BY <1>1, Invariance, PTL

\* ActsAtMostOnce of Automation: the background task of a run (services/webhook_dispatcher.py
\* _execute_action_run, api/action.py _execute_action) performs its action once at most.
THEOREM EffectsHappenOnce == Spec => []ActsAtMostOnce
<1>1. IInv => ActsAtMostOnce
  BY DEF IInv, Tasks, TaskOfRun, ActsAtMostOnce
<1> QED
  BY <1>1, Invariance, PTL

\* TriggeredActsHaveRows of Automation: what a trigger has performed is explained by the row of
\* a run, which was committed before the task began.
THEOREM EffectsAreExplained == Spec => []TriggeredActsHaveRows
<1>1. IInv => TriggeredActsHaveRows
  BY DEF IInv, Tasks, TaskOfRun, TriggeredActsHaveRows
<1> QED
  BY <1>1, Invariance, PTL

\* OncePerMinute of Automation: the loop that sleeps a minute after each iteration
\* (api/main.py) never serves a trigger twice in one minute of one life of the server.
THEOREM ScheduleFiresOnce == Spec => []OncePerMinute
<1>1. IInv => OncePerMinute
  BY DEF IInv, Schedule
<1> QED
  BY <1>1, Invariance, PTL
=============================================================================
