------------------------- MODULE WorkflowExecution -------------------------
(***************************************************************************)
(* The executions of one workflow (runtime/workflow_executor.py), however  *)
(* they are started: POST .../execute waiting for the result ("sync"), the *)
(* same with async_run ("async"), or an inbound webhook or the schedule    *)
(* ("trigger", services/webhook_dispatcher.py).                            *)
(*                                                                         *)
(* All the writes of an execution, its step results included, are one      *)
(* transaction: the caller's for a sync execution, the executor's own for  *)
(* the others, which find their row by SELECT.  What a step does outside   *)
(* the database (a webhook, sandboxed code) is not undone by a rollback.   *)
(*                                                                         *)
(* Executions may overlap at every await.  On SQLite the writer lock makes *)
(* one wait for another as soon as it has flushed; that only removes       *)
(* interleavings.  Payloads, input mappings and delays are left out, and a *)
(* step's type too: what matters of a dispatch is whether it returns,      *)
(* raises, or leaves the session unusable.                                 *)
(***************************************************************************)
EXTENDS Integers, Sequences, FiniteSets

CONSTANTS
  Executions,   \* identifiers of executions
  Plans,        \* step lists the workflow may have
  ForeignKeys   \* TRUE on PostgreSQL: deleting the workflow cascades

\* A step: retry_policy.max_attempts, and an error_handler: "stop",
\* "continue", or the position of the step goto_step names.  A position past
\* the end stands for an identifier no step has; the API checks neither that
\* the target exists nor that it comes later.
Handlers == {<<"stop">>, <<"continue">>} \cup ({"goto"} \X (Nat \ {0}))
PlanStep == [attempts : Nat \ {0}, handler : Handlers]

ASSUME PlansAssumption == Plans # {} /\ Plans \subseteq Seq(PlanStep)
ASSUME ForeignKeysAssumption == ForeignKeys \in BOOLEAN

VARIABLES
  workflow,   \* the row: status, steps, total_executions, failed_executions
  row,        \* the committed execution rows with their step results
  origin,     \* how an execution was started
  request,    \* the session of the async request that started it
  run,        \* the executor's local state, kept after it has ended
  dispatched  \* the steps an execution has called, whatever came of it

vars == <<workflow, row, origin, request, run, dispatched>>

Final == {"success", "failed"}
StepStatus == {"success", "failed", "skipped"}
Ended == {"committed", "not found", "workflow gone", "raised", "stopped"}

NoRow == [status |-> "absent", results |-> <<>>, error |-> FALSE]
PendingRow == [NoRow EXCEPT !.status = "pending"]

NotRun == [at |-> "idle", plan |-> <<>>, next |-> 1, attempt |-> 1, target |-> 0,
           results |-> <<>>, verdict |-> "success", error |-> FALSE,
           total |-> 0, failed |-> 0]

\* The executor has loaded the workflow: a snapshot of its steps and counters.
Started == [NotRun EXCEPT !.at = "running", !.plan = workflow.steps,
                          !.total = workflow.total, !.failed = workflow.failed]

Live == workflow.status # "deleted"

-----------------------------------------------------------------------------
(* Starting an execution.                                                  *)

\* The execution row and everything the executor does share this request's
\* session.
ExecuteSync(e) ==
  /\ origin[e] = "none"
  /\ workflow.status \in {"draft", "active"}
  /\ origin' = [origin EXCEPT ![e] = "sync"]
  /\ run' = [run EXCEPT ![e] = Started]
  /\ UNCHANGED <<workflow, row, request, dispatched>>

\* The task is created while the row is still uncommitted.
ExecuteAsync(e) ==
  /\ origin[e] = "none"
  /\ workflow.status \in {"draft", "active"}
  /\ origin' = [origin EXCEPT ![e] = "async"]
  /\ request' = [request EXCEPT ![e] = "open"]
  /\ run' = [run EXCEPT ![e].at = "queued"]
  /\ UNCHANGED <<workflow, row, dispatched>>

CommitRequest(e) ==
  /\ request[e] = "open"
  /\ request' = [request EXCEPT ![e] = "closed"]
  /\ row' = [row EXCEPT ![e] = PendingRow]
  /\ UNCHANGED <<workflow, origin, run, dispatched>>

RollbackRequest(e) ==
  /\ request[e] = "open"
  /\ request' = [request EXCEPT ![e] = "closed"]
  /\ UNCHANGED <<workflow, row, origin, run, dispatched>>

\* Wrong: the task is created before the row is committed.
TriggerBeforeCommit(e) ==
  /\ origin[e] = "none"
  /\ Live
  /\ origin' = [origin EXCEPT ![e] = "trigger"]
  /\ request' = [request EXCEPT ![e] = "open"]
  /\ run' = [run EXCEPT ![e].at = "queued"]
  /\ UNCHANGED <<workflow, row, dispatched>>

\* A trigger looks at no status, and commits the row before the task exists.
FireTrigger(e) ==
  /\ origin[e] = "none"
  /\ Live
  /\ origin' = [origin EXCEPT ![e] = "trigger"]
  /\ row' = [row EXCEPT ![e] = PendingRow]
  /\ run' = [run EXCEPT ![e].at = "queued"]
  /\ UNCHANGED <<workflow, request, dispatched>>

-----------------------------------------------------------------------------
(* The executor.                                                           *)

End(e, how) ==
  /\ run' = [run EXCEPT ![e].at = how]
  /\ UNCHANGED <<workflow, row, origin, request, dispatched>>

\* LookupError, which _safe_execute logs and drops.
NotFound(e) ==
  /\ run[e].at = "queued"
  /\ row[e].status = "absent"
  /\ End(e, "not found")

\* The row is set to FAILED and flushed; the owned session then closes without
\* a commit, so nothing is stored.
WorkflowGone(e) ==
  /\ run[e].at = "queued"
  /\ row[e].status = "pending"
  /\ ~Live
  /\ End(e, "workflow gone")

\* The row is PENDING: an execution is queued once, and its RUNNING status is
\* never committed on its own.
Load(e) ==
  /\ run[e].at = "queued"
  /\ row[e].status = "pending"
  /\ Live
  /\ run' = [run EXCEPT ![e] = Started]
  /\ UNCHANGED <<workflow, row, origin, request, dispatched>>

Current(u) == u.plan[u.next]

\* Wrong: the step after the target is taken for the target.
ReachedLate(u) == u.target \in {0, u.next - 1}

\* The step to run next is not one that a goto passes over.
Reached(u) == u.target \in {0, u.next}

AtStep(e) == run[e].at = "running" /\ run[e].next <= Len(run[e].plan)

Record(u, status) ==
  [u EXCEPT !.results = Append(@, status), !.next = @ + 1, !.attempt = 1,
            !.target = IF status = "skipped" THEN @ ELSE 0]

SkipStep(e) ==
  /\ AtStep(e)
  /\ ~Reached(run[e])
  /\ run' = [run EXCEPT ![e] = Record(@, "skipped")]
  /\ UNCHANGED <<workflow, row, origin, request, dispatched>>

Dispatch(e) ==
  /\ AtStep(e)
  /\ Reached(run[e])
  /\ dispatched' = [dispatched EXCEPT ![e] = @ \cup {run[e].next}]
  /\ UNCHANGED <<workflow, origin, request>>

\* Wrong: the result of a step is stored through a session of its own.
StepStoredAtOnce(e) ==
  /\ Dispatch(e)
  /\ run' = [run EXCEPT ![e] = Record(@, "success")]
  /\ row' = [row EXCEPT ![e].results = Append(@, "success")]

StepSucceeds(e) ==
  /\ Dispatch(e)
  /\ run' = [run EXCEPT ![e] = Record(@, "success")]
  /\ UNCHANGED row

\* Wrong: one attempt too many.
RetryOnceMore(e) ==
  /\ Dispatch(e)
  /\ run[e].attempt <= Current(run[e]).attempts
  /\ run' = [run EXCEPT ![e].attempt = @ + 1]
  /\ UNCHANGED row

AttemptFails(e) ==
  /\ Dispatch(e)
  /\ run[e].attempt < Current(run[e]).attempts
  /\ run' = [run EXCEPT ![e].attempt = @ + 1]
  /\ UNCHANGED row

\* Wrong: "stop" marks the execution failed and goes on to the next step.
StopGoesOn(handler, u) ==
  CASE handler[1] = "stop"     -> [u EXCEPT !.verdict = "failed", !.error = TRUE]
    [] handler[1] = "continue" -> u
    [] handler[1] = "goto"     -> [u EXCEPT !.target = handler[2], !.error = TRUE]

\* Wrong: goto_step moves to the target directly, earlier steps included.
JumpAnywhere(handler, u) ==
  CASE handler[1] = "stop"     -> [u EXCEPT !.at = "halted", !.verdict = "failed",
                                            !.error = TRUE]
    [] handler[1] = "continue" -> u
    [] handler[1] = "goto"     ->
         [u EXCEPT !.error = TRUE, !.next = handler[2],
                   !.results = SubSeq(@, 1, IF handler[2] < u.next THEN handler[2] - 1
                                            ELSE Len(@))]

\* What the step's error_handler does once its failure is recorded.
Handled(handler, u) ==
  CASE handler[1] = "stop"     -> [u EXCEPT !.at = "halted", !.verdict = "failed",
                                            !.error = TRUE]
    [] handler[1] = "continue" -> u
    [] handler[1] = "goto"     -> [u EXCEPT !.target = handler[2], !.error = TRUE]

\* Recorded FAILED whatever the handler, also where the module's docstring has
\* "continue" record SKIPPED.
StepFails(e) ==
  /\ Dispatch(e)
  /\ run[e].attempt = Current(run[e]).attempts
  /\ run' = [run EXCEPT ![e] = Handled(Current(@).handler, Record(@, "failed"))]
  /\ UNCHANGED row

Finished(e) ==
  \/ run[e].at = "halted"
  \/ run[e].at = "running" /\ run[e].next > Len(run[e].plan)

\* Wrong: every execution counts as a failure.
CountAsFailed(u) == u.failed + 1

\* The column is written only by an execution that failed.
FailedAfter(u) == IF u.verdict = "failed" THEN u.failed + 1 ELSE workflow.failed

\* Finalize and commit: the counters become what was loaded, plus one.
Commit(e) ==
  /\ Finished(e)
  /\ Live
  /\ origin[e] # "sync" => row[e].status = "pending"
  /\ row' = [row EXCEPT ![e] = [status |-> run[e].verdict, results |-> run[e].results,
                                error |-> run[e].error]]
  /\ workflow' = [workflow EXCEPT !.total = run[e].total + 1,
                                  !.failed = FailedAfter(run[e])]
  /\ run' = [run EXCEPT ![e].at = "committed"]
  /\ UNCHANGED <<origin, request, dispatched>>

\* An exception leaves the executor and its transaction is rolled back: a
\* flush failed (from then on the session refuses every statement, so no
\* error_handler can be applied), the database is locked, a row to update is
\* gone, or retry_policy does not parse.
Raise(e) == run[e].at \in {"queued", "running", "halted"} /\ End(e, "raised")

\* The process ends; tasks and open sessions are lost, nothing resumes them.
ServerStop ==
  /\ run' = [e \in Executions |->
               IF run[e].at \in {"queued", "running", "halted"}
                 THEN [run[e] EXCEPT !.at = "stopped"] ELSE run[e]]
  /\ request' = [e \in Executions |-> IF request[e] = "open" THEN "closed" ELSE request[e]]
  /\ <<run, request>>' # <<run, request>>
  /\ UNCHANGED <<workflow, row, origin, dispatched>>

-----------------------------------------------------------------------------
(* The workflow itself.                                                    *)

\* Steps are edited in DRAFT only; the status may become anything.
UpdateWorkflow ==
  /\ Live
  /\ \E s \in {"draft", "active", "archived"}, p \in Plans :
       /\ workflow.status # "draft" => p = workflow.steps
       /\ workflow' = [workflow EXCEPT !.status = s, !.steps = p]
  /\ UNCHANGED <<row, origin, request, run, dispatched>>

\* Its transaction and that of an open request exclude each other: the writer
\* lock on SQLite, the key-share lock of the inserted row on PostgreSQL.
Inserting(e) ==
  \/ request[e] = "open"
  \/ origin[e] = "sync" /\ run[e].at \in {"running", "halted"}

DeleteWorkflow ==
  /\ workflow.status = "draft"
  /\ \A e \in Executions : ~Inserting(e)
  /\ workflow' = [workflow EXCEPT !.status = "deleted"]
  /\ row' = IF ForeignKeys THEN [e \in Executions |-> NoRow] ELSE row
  /\ UNCHANGED <<origin, request, run, dispatched>>

-----------------------------------------------------------------------------
Init ==
  /\ \E p \in Plans :
       workflow = [status |-> "draft", steps |-> p, total |-> 0, failed |-> 0]
  /\ row = [e \in Executions |-> NoRow]
  /\ origin = [e \in Executions |-> "none"]
  /\ request = [e \in Executions |-> "none"]
  /\ run = [e \in Executions |-> NotRun]
  /\ dispatched = [e \in Executions |-> {}]

Start(e) == ExecuteSync(e) \/ ExecuteAsync(e) \/ FireTrigger(e)

CloseRequest(e) == CommitRequest(e) \/ RollbackRequest(e)

Proceed(e) ==
  \/ NotFound(e)
  \/ WorkflowGone(e)
  \/ Load(e)
  \/ SkipStep(e)
  \/ StepSucceeds(e)
  \/ AttemptFails(e)
  \/ StepFails(e)
  \/ Commit(e)
  \/ Raise(e)

Next ==
  \/ \E e \in Executions : Start(e) \/ CloseRequest(e) \/ Proceed(e)
  \/ ServerStop
  \/ UpdateWorkflow
  \/ DeleteWorkflow

\* The event loop resumes every task and every request; steps time out.
Fairness == \A e \in Executions : WF_vars(CloseRequest(e)) /\ WF_vars(Proceed(e))

Spec == Init /\ [][Next]_vars /\ Fairness

-----------------------------------------------------------------------------
(* Properties.                                                             *)

WorkflowState ==
  [status : {"draft", "active", "archived", "deleted"}, steps : Plans,
   total : Nat, failed : Nat]

RowState ==
  [status : {"absent", "pending"} \cup Final, results : Seq(StepStatus), error : BOOLEAN]

RunState ==
  [at : {"idle", "queued", "running", "halted"} \cup Ended,
   plan : Plans \cup {<<>>}, next : Nat \ {0}, attempt : Nat \ {0}, target : Nat,
   results : Seq(StepStatus), verdict : Final, error : BOOLEAN, total : Nat, failed : Nat]

\* An executor has a result for every step before the one it is at, which it
\* has tried no more often than the step allows.
InPlan(u) ==
  /\ u.next = Len(u.results) + 1 /\ u.next <= Len(u.plan) + 1
  /\ u.next <= Len(u.plan) => u.attempt <= u.plan[u.next].attempts

TypeOK ==
  /\ workflow \in WorkflowState
  /\ row \in [Executions -> RowState]
  /\ origin \in [Executions -> {"none", "sync", "async", "trigger"}]
  /\ request \in [Executions -> {"none", "open", "closed"}]
  /\ run \in [Executions -> RunState]
  /\ \A e \in Executions : InPlan(run[e])
  /\ dispatched \in [Executions -> SUBSET (Nat \ {0})]

Stored(e) == row[e].status \in Final
FailedAt(e, i) == row[e].results[i] = "failed"
HandlerOf(e, i) == run[e].plan[i].handler[1]

\* The stored verdict is the one the error handlers call for: an execution
\* fails at its first unhandled step failure, no later step is dispatched, and
\* it succeeds only after every step has a result; error is kept exactly when
\* some failure was not told to "continue".
VerdictFollowsHandlers ==
  \A e \in Executions : Stored(e) =>
    LET n == Len(row[e].results)
        stops == {i \in 1 .. n : FailedAt(e, i) /\ HandlerOf(e, i) = "stop"}
        jumps == {i \in 1 .. n : FailedAt(e, i) /\ HandlerOf(e, i) = "goto"}
    IN /\ row[e].status = "failed" => stops = {n}
       /\ row[e].status = "success" => stops = {} /\ n = Len(run[e].plan)
       /\ row[e].error <=> stops \cup jumps # {}
       /\ dispatched[e] \subseteq 1 .. n

\* A step is passed over, and not called, exactly when a failed step before it
\* jumped over it, and its result says so.  A target that does not come later is
\* never reached: every step that is left is passed over.
JumpsSkipExactly ==
  \A e \in Executions : Stored(e) => \A i \in 1 .. Len(row[e].results) :
    /\ i \notin dispatched[e] <=>
         \E j \in 1 .. i - 1 :
           /\ FailedAt(e, j) /\ HandlerOf(e, j) = "goto"
           /\ run[e].plan[j].handler[2] \notin j + 1 .. i
           /\ \A k \in j + 1 .. i - 1 : k \notin dispatched[e]
    /\ i \notin dispatched[e] => row[e].results[i] = "skipped"

\* Step results become visible together with the verdict or not at all, and a
\* sync execution never leaves a PENDING row behind, whatever raises.
AllOrNothing ==
  \A e \in Executions :
    /\ ~Stored(e) => row[e].results = <<>> /\ ~row[e].error
    /\ origin[e] = "sync" => row[e].status # "pending"

\* The statistics of a workflow never count an execution that is not stored,
\* nor a failure that did not happen, although overlapping executions write
\* them from stale reads.
StatisticsNeverOvercount ==
  Live => /\ workflow.total <= Cardinality({e \in Executions : Stored(e)})
          /\ workflow.failed <= Cardinality({e \in Executions : row[e].status = "failed"})

\* Whatever the error handlers say, an execution that was started ends.
ExecutionsEnd ==
  \A e \in Executions : (origin[e] # "none") ~> (run[e].at \in Ended)

\* A triggered execution gets its verdict, unless the executor raises, the
\* process stops or the workflow is deleted first: its row was committed before
\* its task could look for it.
TriggeredExecutionsSettle ==
  \A e \in Executions :
    (origin[e] = "trigger") ~> (Stored(e) \/ run[e].at \in {"raised", "stopped"} \/ ~Live)

\* An execution started with async_run does not stay PENDING with nobody left
\* to run it, short of an exception, a stop or the deletion of the workflow.
\* It does: the task may look for its row before the request has committed it.
AsyncExecutionIsFound ==
  \A e \in Executions :
    run[e].at = "not found" => row[e].status # "pending"
=============================================================================
