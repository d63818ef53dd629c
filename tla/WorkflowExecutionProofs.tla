---------------------- MODULE WorkflowExecutionProofs ----------------------
(***************************************************************************)
(* What holds of WorkflowExecution for every set of executions and of step *)
(* lists, on both databases, whatever steps fail and whenever the server   *)
(* stops.                                                                  *)
(***************************************************************************)
EXTENDS WorkflowExecution, FiniteSetTheorems, SequenceTheorems, TLAPS

-----------------------------------------------------------------------------
(* The inductive invariant: what the results of an executor say.           *)

\* Steps whose failure ended the execution, or made it look for a later step.
Stops(u, i) == u.results[i] = "failed" /\ u.plan[i].handler[1] = "stop"
Jumps(u, i) == u.results[i] = "failed" /\ u.plan[i].handler[1] = "goto"

\* Step i comes after a jump whose target is still to come.
JumpedOver(u, i) ==
  \E j \in 1 .. i - 1 :
    /\ Jumps(u, j) /\ u.plan[j].handler[2] \notin j + 1 .. i
    /\ \A k \in j + 1 .. i - 1 : u.results[k] = "skipped"

\* target names the step that is looked for, and is 0 when none is.
Looking(u) ==
  \/ /\ u.target = 0
     /\ u.next > 1 => u.results[u.next - 1] # "skipped" /\ ~Jumps(u, u.next - 1)
  \/ \E j \in 1 .. u.next - 1 :
       /\ Jumps(u, j) /\ u.target = u.plan[j].handler[2]
       /\ u.target \notin j + 1 .. u.next - 1
       /\ \A k \in j + 1 .. u.next - 1 : u.results[k] = "skipped"

\* Every result is explained by those before it and by what was called.
Explained(u, called) ==
  /\ \A i \in 1 .. u.next - 1 :
       /\ u.results[i] = "skipped" <=> JumpedOver(u, i)
       /\ u.results[i] = "skipped" <=> i \notin called
       /\ Stops(u, i) => u.verdict = "failed" /\ i = u.next - 1
  /\ u.error <=> \E i \in 1 .. u.next - 1 : Stops(u, i) \/ Jumps(u, i)
  /\ u.verdict = "failed" => u.next > 1 /\ Stops(u, u.next - 1)

\* The executor is at a step it may already have called, has met a stop, or has
\* committed what it had.
Progress(u, called) ==
  /\ u.at = "running" =>
       /\ u.verdict = "success" /\ Looking(u)
       /\ called \subseteq 1 .. u.next /\ called \subseteq 1 .. Len(u.plan)
       /\ u.next \in called => Reached(u)
  /\ u.at = "halted" => u.verdict = "failed" /\ called \subseteq 1 .. u.next - 1
  /\ u.at = "committed" =>
       /\ called \subseteq 1 .. u.next - 1
       /\ u.verdict = "success" => u.next = Len(u.plan) + 1

Traced(u, called) ==
  /\ u.at \in {"running", "halted", "committed"} => Explained(u, called)
  /\ u.at \in {"idle", "queued"} => called = {}
  /\ Progress(u, called)

\* What is stored of an execution, and when.
Origins(e) ==
  /\ origin[e] = "none" => run[e].at = "idle" /\ request[e] = "none"
  /\ origin[e] = "none" \/ request[e] = "open" => row[e].status = "absent"
  /\ origin[e] = "sync" => row[e].status # "pending"
  /\ request[e] # "none" => origin[e] = "async"
  /\ ~Stored(e) => row[e].results = <<>> /\ row[e].error = FALSE
  /\ Stored(e) =>
       /\ run[e].at = "committed"
       /\ row[e] = [status |-> run[e].verdict, results |-> run[e].results,
                    error |-> run[e].error]

Traces == \A e \in Executions : Traced(run[e], dispatched[e]) /\ Origins(e)

-----------------------------------------------------------------------------
(* Types, and where an executor is in its plan.                            *)

LEMMA EmptyResults == <<>> \in Seq(StepStatus) /\ Len(<<>>) = 0
BY EmptySeq

LEMMA RowTypes == NoRow \in RowState /\ PendingRow \in RowState
BY EmptyResults DEF NoRow, PendingRow, RowState

LEMMA NotRunType == NotRun \in RunState /\ InPlan(NotRun)
BY EmptyResults DEF NotRun, RunState, InPlan, Final

LEMMA PlanSteps ==
  ASSUME NEW p \in Plans, NEW i \in 1 .. Len(p)
  PROVE  /\ p \in Seq(PlanStep) /\ Len(p) \in Nat /\ p[i] \in PlanStep
         /\ p[i].attempts \in Nat \ {0}
<1>1. p \in Seq(PlanStep)
  BY PlansAssumption
<1>2. p[i] \in PlanStep /\ Len(p) \in Nat
  BY <1>1, ElementOfSeq, LenProperties
<1> QED
  BY <1>1, <1>2 DEF PlanStep

LEMMA StartedType ==
  ASSUME TypeOK
  PROVE  Started \in RunState /\ InPlan(Started)
<1>1. /\ Started.at = "running" /\ Started.plan = workflow.steps /\ Started.next = 1
      /\ Started.attempt = 1 /\ Started.results = <<>>
      /\ workflow.steps \in Plans
  BY DEF Started, NotRun, TypeOK, WorkflowState
<1>2. Started \in RunState
  <2>1. workflow.steps \in Plans \cup {<<>>} /\ workflow.total \in Nat /\ workflow.failed \in Nat
    BY DEF TypeOK, WorkflowState
  <2> QED
    BY <2>1, NotRunType, Zenon DEF Started, RunState
<1>3. workflow.steps \in Seq(PlanStep) /\ Len(workflow.steps) \in Nat
  BY <1>1, PlansAssumption
<1>4. 1 <= Len(workflow.steps) => 1 <= workflow.steps[1].attempts
  BY <1>1, <1>3, PlanSteps
<1> QED
  BY <1>1, <1>2, <1>3, <1>4 DEF InPlan

\* The executor with other results, at another step.
Moved(u, results, next, attempt, target) ==
  [u EXCEPT !.results = results, !.next = next, !.attempt = attempt, !.target = target]

LEMMA MovedType ==
  ASSUME NEW u \in RunState, NEW results \in Seq(StepStatus), NEW next \in Nat \ {0},
         NEW attempt \in Nat \ {0}, NEW target \in Nat
  PROVE  Moved(u, results, next, attempt, target) \in RunState
BY Zenon DEF RunState, Moved

LEMMA MovedFields ==
  ASSUME NEW u \in RunState, NEW results, NEW next, NEW attempt, NEW target
  PROVE  LET r == Moved(u, results, next, attempt, target)
         IN /\ r.at = u.at /\ r.plan = u.plan /\ r.next = next /\ r.attempt = attempt
            /\ r.target = target /\ r.results = results
            /\ r.verdict = u.verdict /\ r.error = u.error
            /\ r.total = u.total /\ r.failed = u.failed
BY Zenon DEF RunState, Moved

\* The executor at the step after the one that it has recorded.
LEMMA RecordFields ==
  ASSUME NEW u \in RunState, NEW status \in StepStatus
  PROVE  LET r == Record(u, status)
         IN /\ r \in RunState
            /\ r.at = u.at /\ r.plan = u.plan /\ r.next = u.next + 1 /\ r.attempt = 1
            /\ r.target = IF status = "skipped" THEN u.target ELSE 0
            /\ r.results = Append(u.results, status)
            /\ r.verdict = u.verdict /\ r.error = u.error
            /\ r.total = u.total /\ r.failed = u.failed
<1> DEFINE s == Append(u.results, status)
           n == u.next + 1
           t == IF status = "skipped" THEN u.target ELSE 0
           r == Moved(u, s, n, 1, t)
<1>1. s \in Seq(StepStatus) /\ n \in Nat \ {0} /\ 1 \in Nat \ {0} /\ t \in Nat
  BY DEF RunState
<1>2. Record(u, status) = r
  BY DEF Record, Moved, RunState
<1> HIDE DEF s, n, t
<1>3. r \in RunState
  BY <1>1, MovedType
<1>4. /\ r.at = u.at /\ r.plan = u.plan /\ r.next = n /\ r.attempt = 1
      /\ r.target = t /\ r.results = s
      /\ r.verdict = u.verdict /\ r.error = u.error
      /\ r.total = u.total /\ r.failed = u.failed
  BY MovedFields
<1> QED
  BY <1>2, <1>3, <1>4 DEF s, n, t

LEMMA RecordInPlan ==
  ASSUME NEW u \in RunState, NEW status \in StepStatus, InPlan(u), u.next <= Len(u.plan)
  PROVE  InPlan(Record(u, status))
<1> DEFINE r == Record(u, status)
<1>1. /\ r.plan = u.plan /\ r.next = u.next + 1 /\ r.attempt = 1
      /\ r.results = Append(u.results, status)
  BY RecordFields
<1>2. Len(r.results) = Len(u.results) + 1 /\ u.next \in Nat /\ Len(u.results) \in Nat
  BY <1>1 DEF RunState
<1>3. Len(u.plan) \in Nat /\ \A i \in 1 .. Len(u.plan) : u.plan[i].attempts \in Nat \ {0}
  <2>1. CASE u.plan \in Plans
    BY <2>1, PlansAssumption, PlanSteps
  <2> QED
    BY <2>1 DEF RunState
<1> HIDE DEF r
<1>4. r.next = Len(r.results) + 1 /\ r.next <= Len(r.plan) + 1
  BY <1>1, <1>2, <1>3 DEF InPlan
<1>5. r.next <= Len(r.plan) => r.attempt <= r.plan[r.next].attempts
  BY <1>1, <1>2, <1>3
<1>6. InPlan(r)
  BY <1>4, <1>5 DEF InPlan
<1> QED
  BY <1>6 DEF r

\* The error handlers there are.
LEMMA HandlerKinds ==
  ASSUME NEW h \in Handlers
  PROVE  /\ h[1] \in {"stop", "continue", "goto"}
         /\ h[1] = "goto" => h[2] \in Nat \ {0}
BY DEF Handlers

LEMMA HandlerOfStep ==
  ASSUME NEW u \in RunState, u.next <= Len(u.plan)
  PROVE  /\ u.next \in 1 .. Len(u.plan) /\ u.plan \in Plans
         /\ Current(u) = u.plan[u.next] /\ Current(u) \in PlanStep
         /\ Current(u).handler \in Handlers
<1>1. u.plan \in Plans
  <2>1. u.plan # <<>>
    BY DEF RunState
  <2> QED
    BY <2>1 DEF RunState
<1>2. u.next \in 1 .. Len(u.plan)
  BY <1>1, PlansAssumption DEF RunState
<1>3. u.plan[u.next] \in PlanStep
  BY <1>1, <1>2, PlanSteps
<1> QED
  BY <1>1, <1>2, <1>3 DEF Current, PlanStep

\* What the error handler of a failed step makes of the executor.
LEMMA HandledFields ==
  ASSUME NEW u \in RunState, NEW h \in Handlers
  PROVE  LET r == Handled(h, u)
         IN /\ r \in RunState
            /\ r.at = IF h[1] = "stop" THEN "halted" ELSE u.at
            /\ r.verdict = IF h[1] = "stop" THEN "failed" ELSE u.verdict
            /\ r.error = IF h[1] = "continue" THEN u.error ELSE TRUE
            /\ r.target = IF h[1] = "goto" THEN h[2] ELSE u.target
            /\ r.plan = u.plan /\ r.next = u.next /\ r.attempt = u.attempt
            /\ r.results = u.results /\ r.total = u.total /\ r.failed = u.failed
<1>1. CASE h[1] = "stop"
  <2> DEFINE r == [u EXCEPT !.at = "halted", !.verdict = "failed", !.error = TRUE]
  <2>1. Handled(h, u) = r
    BY <1>1 DEF Handled
  <2>2. /\ "halted" \in {"idle", "queued", "running", "halted"} \cup Ended
        /\ "failed" \in Final /\ TRUE \in BOOLEAN
    BY DEF Final
  <2>3. r \in RunState
    BY <2>2, Zenon DEF RunState
  <2>4. /\ r.at = "halted" /\ r.verdict = "failed" /\ r.error = TRUE
        /\ r.plan = u.plan /\ r.next = u.next /\ r.attempt = u.attempt
        /\ r.results = u.results /\ r.total = u.total /\ r.failed = u.failed
        /\ r.target = u.target
    BY Zenon DEF RunState
  <2> HIDE DEF r
  <2> QED
    BY <1>1, <2>1, <2>3, <2>4
<1>2. CASE h[1] = "continue"
  <2>1. Handled(h, u) = u
    BY <1>2 DEF Handled
  <2> QED
    BY <1>2, <2>1
<1>3. CASE h[1] = "goto"
  <2> DEFINE r == [u EXCEPT !.target = h[2], !.error = TRUE]
  <2>1. Handled(h, u) = r
    BY <1>3 DEF Handled
  <2>2. h[2] \in Nat /\ TRUE \in BOOLEAN
    BY <1>3, HandlerKinds
  <2>3. r \in RunState
    BY <2>2, Zenon DEF RunState
  <2>4. /\ r.at = u.at /\ r.verdict = u.verdict /\ r.error = TRUE
        /\ r.plan = u.plan /\ r.next = u.next /\ r.attempt = u.attempt
        /\ r.results = u.results /\ r.total = u.total /\ r.failed = u.failed
        /\ r.target = h[2]
    BY Zenon DEF RunState
  <2> HIDE DEF r
  <2> QED
    BY <1>3, <2>1, <2>3, <2>4
<1> QED
  BY <1>1, <1>2, <1>3, HandlerKinds

\* One more attempt.
LEMMA RetryFields ==
  ASSUME NEW u \in RunState
  PROVE  LET r == [u EXCEPT !.attempt = @ + 1]
         IN /\ r \in RunState
            /\ r.at = u.at /\ r.plan = u.plan /\ r.next = u.next /\ r.attempt = u.attempt + 1
            /\ r.target = u.target /\ r.results = u.results
            /\ r.verdict = u.verdict /\ r.error = u.error
            /\ r.total = u.total /\ r.failed = u.failed
<1> DEFINE n == u.attempt + 1
           r == [u EXCEPT !.attempt = n]
<1>1. n \in Nat \ {0}
  BY DEF RunState
<1> HIDE DEF n
<1>2. r \in RunState
  BY <1>1, Zenon DEF RunState
<1>3. /\ r.at = u.at /\ r.plan = u.plan /\ r.next = u.next /\ r.attempt = n
      /\ r.target = u.target /\ r.results = u.results
      /\ r.verdict = u.verdict /\ r.error = u.error
      /\ r.total = u.total /\ r.failed = u.failed
  BY Zenon DEF RunState
<1> HIDE DEF r
<1> QED
  BY <1>2, <1>3 DEF n, r

\* The executor where it was, now in the given state.
LEMMA AtFields ==
  ASSUME NEW u \in RunState, NEW at \in {"idle", "queued", "running", "halted"} \cup Ended
  PROVE  LET r == [u EXCEPT !.at = at]
         IN /\ r \in RunState
            /\ r.at = at /\ r.plan = u.plan /\ r.next = u.next /\ r.attempt = u.attempt
            /\ r.target = u.target /\ r.results = u.results
            /\ r.verdict = u.verdict /\ r.error = u.error
            /\ r.total = u.total /\ r.failed = u.failed
BY Zenon DEF RunState

\* An execution's state becomes r and nothing else of run changes.
Becomes(e, r) == run' = [run EXCEPT ![e] = r]

LEMMA BecomesType ==
  ASSUME TypeOK, NEW e \in Executions, NEW r \in RunState, InPlan(r), Becomes(e, r)
  PROVE  /\ run' \in [Executions -> RunState] /\ \A d \in Executions : InPlan(run'[d])
         /\ run'[e] = r /\ \A d \in Executions \ {e} : run'[d] = run[d]
BY DEF TypeOK, Becomes

LEMMA AtInPlan ==
  ASSUME NEW u \in RunState, InPlan(u),
         NEW at \in {"idle", "queued", "running", "halted"} \cup Ended
  PROVE  InPlan([u EXCEPT !.at = at])
BY AtFields DEF InPlan

\* What the executor does at a step.
SkipOf(u) == Record(u, "skipped")
SuccessOf(u) == Record(u, "success")
RetryOf(u) == [u EXCEPT !.attempt = @ + 1]
FailureOf(u) == Handled(Current(u).handler, Record(u, "failed"))

LEMMA StepStatuses == {"skipped", "success", "failed"} = StepStatus
BY DEF StepStatus

LEMMA StepTypes ==
  ASSUME NEW u \in RunState, InPlan(u), u.next <= Len(u.plan)
  PROVE  /\ SkipOf(u) \in RunState /\ InPlan(SkipOf(u))
         /\ SuccessOf(u) \in RunState /\ InPlan(SuccessOf(u))
         /\ FailureOf(u) \in RunState /\ InPlan(FailureOf(u))
         /\ u.attempt < Current(u).attempts => RetryOf(u) \in RunState /\ InPlan(RetryOf(u))
<1>1. SkipOf(u) \in RunState /\ InPlan(SkipOf(u))
  BY RecordFields, RecordInPlan, StepStatuses DEF SkipOf
<1>2. SuccessOf(u) \in RunState /\ InPlan(SuccessOf(u))
  BY RecordFields, RecordInPlan, StepStatuses DEF SuccessOf
<1>3. FailureOf(u) \in RunState /\ InPlan(FailureOf(u))
  <2> DEFINE v == Record(u, "failed")
             h == Current(u).handler
  <2>1. v \in RunState /\ InPlan(v)
    BY RecordFields, RecordInPlan, StepStatuses
  <2>2. h \in Handlers
    BY HandlerOfStep
  <2> HIDE DEF v, h
  <2> DEFINE w == Handled(h, v)
  <2>3. /\ w \in RunState /\ w.plan = v.plan /\ w.next = v.next
        /\ w.attempt = v.attempt /\ w.results = v.results
    BY <2>1, <2>2, HandledFields, Zenon
  <2> HIDE DEF w
  <2>4. InPlan(w)
    BY <2>1, <2>3 DEF InPlan
  <2> QED
    BY <2>3, <2>4 DEF v, h, w, FailureOf
<1>4. ASSUME u.attempt < Current(u).attempts PROVE RetryOf(u) \in RunState /\ InPlan(RetryOf(u))
  <2> DEFINE r == RetryOf(u)
  <2>1. /\ r \in RunState /\ r.plan = u.plan /\ r.next = u.next
        /\ r.attempt = u.attempt + 1 /\ r.results = u.results
    BY RetryFields DEF RetryOf
  <2>2. /\ u.next \in 1 .. Len(u.plan) /\ Current(u) = u.plan[u.next] /\ u.attempt \in Nat
        /\ u.plan \in Plans
    BY HandlerOfStep DEF RunState
  <2>3. u.plan[u.next].attempts \in Nat
    BY <2>2, PlanSteps
  <2> HIDE DEF r
  <2>4. r.attempt <= u.plan[u.next].attempts
    BY <1>4, <2>1, <2>2, <2>3
  <2>5. InPlan(r)
    BY <2>1, <2>4 DEF InPlan
  <2> QED
    BY <2>1, <2>5 DEF r
<1> QED
  BY <1>1, <1>2, <1>3, <1>4

\* The steps of an executor, each of one of these forms.
LEMMA EndBecomes ==
  ASSUME TypeOK, NEW e \in Executions, NEW how, End(e, how)
  PROVE  Becomes(e, [run[e] EXCEPT !.at = how])
BY DEF End, Becomes, TypeOK

LEMMA DispatchStep ==
  ASSUME TypeOK, NEW e \in Executions, Dispatch(e)
  PROVE  /\ run[e].at = "running" /\ run[e].next <= Len(run[e].plan) /\ Reached(run[e])
         /\ dispatched' \in [Executions -> SUBSET (Nat \ {0})]
         /\ dispatched'[e] = dispatched[e] \cup {run[e].next}
         /\ \A d \in Executions \ {e} : dispatched'[d] = dispatched[d]
BY DEF Dispatch, AtStep, TypeOK, RunState

LEMMA CountersType ==
  ASSUME NEW w \in WorkflowState, NEW total \in Nat, NEW failed \in Nat
  PROVE  [w EXCEPT !.total = total, !.failed = failed] \in WorkflowState
BY Zenon DEF WorkflowState

LEMMA TypesKept == ASSUME TypeOK, [Next]_vars PROVE TypeOK'
<1> USE DEF TypeOK
<1>1. ASSUME NEW e \in Executions, ExecuteSync(e) PROVE TypeOK'
  <2>1. Becomes(e, Started)
    BY <1>1 DEF ExecuteSync, Becomes
  <2> QED
    BY <1>1, <2>1, StartedType, BecomesType DEF ExecuteSync
<1>2. ASSUME NEW e \in Executions, Becomes(e, [run[e] EXCEPT !.at = "queued"])
      PROVE  run' \in [Executions -> RunState] /\ \A d \in Executions : InPlan(run'[d])
  BY <1>2, AtFields, AtInPlan, BecomesType
<1>3. ASSUME NEW e \in Executions, ExecuteAsync(e) PROVE TypeOK'
  <2>1. Becomes(e, [run[e] EXCEPT !.at = "queued"])
    BY <1>3 DEF ExecuteAsync, Becomes
  <2> QED
    BY <1>2, <1>3, <2>1 DEF ExecuteAsync
<1>4. ASSUME NEW e \in Executions, FireTrigger(e) PROVE TypeOK'
  <2>1. Becomes(e, [run[e] EXCEPT !.at = "queued"])
    BY <1>4 DEF FireTrigger, Becomes
  <2> QED
    BY <1>2, <1>4, <2>1, RowTypes DEF FireTrigger
<1>5. ASSUME NEW e \in Executions, CloseRequest(e) PROVE TypeOK'
  BY <1>5, RowTypes DEF CloseRequest, CommitRequest, RollbackRequest
<1>6. ASSUME NEW e \in Executions, NEW how \in {"queued"} \cup Ended, End(e, how) PROVE TypeOK'
  <2>1. Becomes(e, [run[e] EXCEPT !.at = how])
    BY <1>6, EndBecomes
  <2> QED
    BY <1>6, <2>1, AtFields, AtInPlan, BecomesType DEF End
<1>7. ASSUME NEW e \in Executions, NotFound(e) \/ WorkflowGone(e) \/ Raise(e) PROVE TypeOK'
  BY <1>6, <1>7 DEF NotFound, WorkflowGone, Raise, Ended
<1>8. ASSUME NEW e \in Executions, Load(e) PROVE TypeOK'
  <2>1. Becomes(e, Started)
    BY <1>8 DEF Load, Becomes
  <2> QED
    BY <1>8, <2>1, StartedType, BecomesType DEF Load
<1>9. ASSUME NEW e \in Executions, SkipStep(e) PROVE TypeOK'
  <2>1. Becomes(e, SkipOf(run[e])) /\ run[e].next <= Len(run[e].plan)
    BY <1>9 DEF SkipStep, AtStep, Becomes, SkipOf
  <2> QED
    BY <1>9, <2>1, StepTypes, BecomesType DEF SkipStep
<1>10. ASSUME NEW e \in Executions, StepSucceeds(e) PROVE TypeOK'
  <2>1. Becomes(e, SuccessOf(run[e])) /\ run[e].next <= Len(run[e].plan)
    BY <1>10, DispatchStep DEF StepSucceeds, Becomes, SuccessOf
  <2> QED
    BY <1>10, <2>1, StepTypes, BecomesType, DispatchStep DEF StepSucceeds, Dispatch
<1>11. ASSUME NEW e \in Executions, AttemptFails(e) PROVE TypeOK'
  <2>1. /\ Becomes(e, RetryOf(run[e])) /\ run[e].next <= Len(run[e].plan)
        /\ run[e].attempt < Current(run[e]).attempts
    BY <1>11, DispatchStep DEF AttemptFails, Becomes, RetryOf
  <2> QED
    BY <1>11, <2>1, StepTypes, BecomesType, DispatchStep DEF AttemptFails, Dispatch
<1>12. ASSUME NEW e \in Executions, StepFails(e) PROVE TypeOK'
  <2>1. Becomes(e, FailureOf(run[e])) /\ run[e].next <= Len(run[e].plan)
    BY <1>12, DispatchStep DEF StepFails, Becomes, FailureOf
  <2> QED
    BY <1>12, <2>1, StepTypes, BecomesType, DispatchStep DEF StepFails, Dispatch
<1>13. ASSUME NEW e \in Executions, Commit(e) PROVE TypeOK'
  <2> DEFINE r == [status |-> run[e].verdict, results |-> run[e].results, error |-> run[e].error]
  <2>1. Becomes(e, [run[e] EXCEPT !.at = "committed"])
    BY <1>13 DEF Commit, Becomes
  <2>2. run' \in [Executions -> RunState] /\ \A d \in Executions : InPlan(run'[d])
    <3>1. "committed" \in {"idle", "queued", "running", "halted"} \cup Ended
      BY DEF Ended
    <3> DEFINE u == [run[e] EXCEPT !.at = "committed"]
    <3>2. u \in RunState /\ InPlan(u)
      BY <3>1, AtFields, AtInPlan
    <3> HIDE DEF u
    <3> QED
      BY <2>1, <3>2, BecomesType DEF u
  <2>3. r \in RowState
    BY Zenon DEF RunState, RowState
  <2>4. run[e].total + 1 \in Nat /\ FailedAfter(run[e]) \in Nat
    <3>1. run[e].total \in Nat /\ run[e].failed \in Nat
      BY DEF RunState
    <3>2. workflow.failed \in Nat
      BY DEF WorkflowState
    <3> QED
      BY <3>1, <3>2 DEF FailedAfter
  <2> HIDE DEF r
  <2>5. row' = [row EXCEPT ![e] = r]
    BY <1>13 DEF Commit, r
  <2>6. row' \in [Executions -> RowState]
    BY <2>3, <2>5
  <2>7. workflow' \in WorkflowState
    <3> DEFINE total == run[e].total + 1
               failed == FailedAfter(run[e])
    <3>1. workflow' = [workflow EXCEPT !.total = total, !.failed = failed]
      BY <1>13 DEF Commit
    <3>2. total \in Nat /\ failed \in Nat /\ workflow \in WorkflowState
      BY <2>4
    <3> HIDE DEF total, failed
    <3> QED
      BY <3>1, <3>2, CountersType
  <2> QED
    BY <1>13, <2>2, <2>6, <2>7 DEF Commit
<1>14. CASE ServerStop
  <2>1. \A e \in Executions :
          run'[e] = run[e] \/ run'[e] = [run[e] EXCEPT !.at = "stopped"]
    BY <1>14 DEF ServerStop
  <2>2. \A e \in Executions : run'[e] \in RunState /\ InPlan(run'[e])
    <3>1. "stopped" \in {"idle", "queued", "running", "halted"} \cup Ended
      BY DEF Ended
    <3>2. ASSUME NEW u \in RunState, InPlan(u)
          PROVE  [u EXCEPT !.at = "stopped"] \in RunState /\ InPlan([u EXCEPT !.at = "stopped"])
      BY <3>1, <3>2, AtFields, AtInPlan
    <3> TAKE e \in Executions
    <3>3. run[e] \in RunState /\ InPlan(run[e])
      OBVIOUS
    <3>4. CASE run'[e] = run[e]
      BY <3>3, <3>4
    <3>5. CASE run'[e] = [run[e] EXCEPT !.at = "stopped"]
      BY <3>2, <3>3, <3>5
    <3> QED
      BY <2>1, <3>4, <3>5
  <2>3. run' \in [Executions -> RunState]
    BY <1>14, <2>2 DEF ServerStop
  <2>4. request' \in [Executions -> {"none", "open", "closed"}]
    BY <1>14 DEF ServerStop
  <2> QED
    BY <1>14, <2>2, <2>3, <2>4 DEF ServerStop
<1>15. CASE UpdateWorkflow
  <2>1. PICK s \in {"draft", "active", "archived"}, p \in Plans :
          workflow' = [workflow EXCEPT !.status = s, !.steps = p]
    BY <1>15 DEF UpdateWorkflow
  <2>2. workflow' \in WorkflowState
    BY <2>1 DEF WorkflowState
  <2> QED
    BY <1>15, <2>2 DEF UpdateWorkflow
<1>16. CASE DeleteWorkflow
  <2>1. workflow' \in WorkflowState
    BY <1>16 DEF DeleteWorkflow, WorkflowState
  <2> QED
    BY <1>16, <2>1, RowTypes DEF DeleteWorkflow
<1>17. CASE UNCHANGED vars
  BY <1>17 DEF vars
<1> QED
  BY <1>1, <1>3, <1>4, <1>5, <1>7, <1>8, <1>9, <1>10, <1>11, <1>12, <1>13, <1>14, <1>15,
     <1>16, <1>17 DEF Next, Start, Proceed

LEMMA TypesAtFirst == Init => TypeOK
BY RowTypes, NotRunType DEF Init, TypeOK, WorkflowState

\* An executor has recorded exactly the steps before the one it is at, stays
\* inside its plan and never tries a step more often than the step allows.
THEOREM TypeCorrect == Spec => []TypeOK
BY TypesAtFirst, TypesKept, PTL DEF Spec

-----------------------------------------------------------------------------
(* Results: one more explains nothing else.                                *)

\* An executor with one more result.
Extends(r, u, status) ==
  /\ r.plan = u.plan /\ r.next = u.next + 1 /\ r.results = Append(u.results, status)

LEMMA ExtendedResults ==
  ASSUME NEW u \in RunState, InPlan(u), NEW status \in StepStatus, NEW r, Extends(r, u, status)
  PROVE  /\ u.next \in Nat \ {0}
         /\ \A i \in 1 .. u.next - 1 : r.results[i] = u.results[i]
         /\ r.results[u.next] = status
<1>1. u.results \in Seq(StepStatus) /\ u.next \in Nat \ {0} /\ u.next = Len(u.results) + 1
  BY DEF RunState, InPlan
<1> QED
  BY <1>1 DEF Extends

LEMMA ExtendedSteps ==
  ASSUME NEW u \in RunState, InPlan(u), NEW status \in StepStatus, NEW r, Extends(r, u, status)
  PROVE  /\ \A i \in 1 .. u.next - 1 : Stops(r, i) <=> Stops(u, i)
         /\ \A i \in 1 .. u.next - 1 : Jumps(r, i) <=> Jumps(u, i)
         /\ \A i \in 1 .. u.next : JumpedOver(r, i) <=> JumpedOver(u, i)
<1>0. u.next \in Nat \ {0} /\ \A i \in 1 .. u.next - 1 : r.results[i] = u.results[i]
  BY ExtendedResults
<1>1. /\ u.next \in Nat \ {0} /\ r.plan = u.plan
      /\ \A i \in 1 .. u.next - 1 : r.results[i] = u.results[i]
  BY <1>0 DEF Extends
<1>2. \A i \in 1 .. u.next - 1 : (Stops(r, i) <=> Stops(u, i)) /\ (Jumps(r, i) <=> Jumps(u, i))
  BY <1>1 DEF Stops, Jumps
<1>3. \A i \in 1 .. u.next : JumpedOver(r, i) <=> JumpedOver(u, i)
  BY <1>1, <1>2 DEF JumpedOver
<1> QED
  BY <1>2, <1>3

\* The executor runs a step unless a jump passes over it.
LEMMA ReachedOrJumpedOver ==
  ASSUME NEW u \in RunState, InPlan(u), u.next <= Len(u.plan), Looking(u)
  PROVE  Reached(u) <=> ~JumpedOver(u, u.next)
<1> DEFINE n == u.next - 1
<1>1. u.next \in Nat \ {0} /\ u.target \in Nat
  BY DEF RunState
<1>2. \A j \in 1 .. n : Jumps(u, j) => u.plan[j].handler[2] # 0 /\ u.results[j] # "skipped"
  <2> TAKE j \in 1 .. n
  <2>1. u.plan \in Plans /\ j \in 1 .. Len(u.plan)
    BY <1>1, HandlerOfStep
  <2>2. u.plan[j].handler \in Handlers
    BY <2>1, PlanSteps DEF PlanStep
  <2> QED
    BY <2>2, HandlerKinds DEF Jumps
<1>3. CASE /\ u.target = 0
           /\ u.next > 1 => u.results[u.next - 1] # "skipped" /\ ~Jumps(u, u.next - 1)
  <2>1. ~JumpedOver(u, u.next)
    <3> SUFFICES ASSUME NEW j \in 1 .. n, Jumps(u, j),
                        \A k \in j + 1 .. n : u.results[k] = "skipped"
                 PROVE  FALSE
      BY <1>1 DEF JumpedOver
    <3>1. CASE j = n
      BY <1>1, <1>3, <3>1
    <3>2. CASE j < n
      BY <1>1, <1>3, <3>2
    <3> QED
      BY <1>1, <3>1, <3>2
  <2> QED
    BY <1>3, <2>1 DEF Reached
<1>4. ASSUME NEW j \in 1 .. n, Jumps(u, j), u.target = u.plan[j].handler[2],
             u.target \notin j + 1 .. n, \A k \in j + 1 .. n : u.results[k] = "skipped"
      PROVE  Reached(u) <=> ~JumpedOver(u, u.next)
  <2>1. u.target # 0
    BY <1>2, <1>4
  <2>2. ASSUME NEW i \in 1 .. n, Jumps(u, i), \A k \in i + 1 .. n : u.results[k] = "skipped"
        PROVE  i = j
    BY <1>1, <1>2, <1>4, <2>2
  <2>3. JumpedOver(u, u.next) <=> u.target \notin j + 1 .. u.next
    BY <1>1, <1>4, <2>2 DEF JumpedOver
  <2> QED
    BY <1>1, <1>4, <2>1, <2>3 DEF Reached
<1> QED
  BY <1>3, <1>4 DEF Looking

\* The results of r, one more than those of u, are explained by those before
\* them; nothing is said yet of a stop or a jump at the last one.
RightlyGiven(r, u, called) ==
  /\ u.next \in Nat \ {0} /\ r.next = u.next + 1
  /\ \A i \in 1 .. r.next - 1 :
       /\ r.results[i] = "skipped" <=> JumpedOver(r, i)
       /\ r.results[i] = "skipped" <=> i \notin called
  /\ \A i \in 1 .. u.next - 1 : ~Stops(r, i)
  /\ u.error <=> \E i \in 1 .. u.next - 1 : Stops(r, i) \/ Jumps(r, i)

\* One more result, rightly given, leaves all of them explained; what is new is
\* said of the result itself.
LEMMA RecordExplained ==
  ASSUME NEW u \in RunState, InPlan(u), NEW status \in StepStatus, NEW r, Extends(r, u, status),
         NEW called, NEW more, more = called \/ more = called \cup {u.next},
         Explained(u, called), u.verdict = "success",
         status = "skipped" <=> JumpedOver(u, u.next),
         status = "skipped" <=> u.next \notin more
  PROVE  RightlyGiven(r, u, more)
<1>1. /\ u.next \in Nat \ {0}
      /\ \A i \in 1 .. u.next - 1 : r.results[i] = u.results[i]
      /\ r.results[u.next] = status
  BY ExtendedResults
<1>2. r.next = u.next + 1
  BY DEF Extends
<1>3. \A i \in 1 .. u.next : JumpedOver(r, i) <=> JumpedOver(u, i)
  BY ExtendedSteps
<1>4. /\ \A i \in 1 .. u.next - 1 : Stops(r, i) <=> Stops(u, i)
      /\ \A i \in 1 .. u.next - 1 : Jumps(r, i) <=> Jumps(u, i)
  BY ExtendedSteps
<1>5. \A i \in 1 .. u.next - 1 :
        /\ r.results[i] = "skipped" <=> JumpedOver(r, i)
        /\ r.results[i] = "skipped" <=> i \notin more
        /\ ~Stops(r, i)
  BY <1>1, <1>3, <1>4 DEF Explained
<1>6. /\ r.results[u.next] = "skipped" <=> JumpedOver(r, u.next)
      /\ r.results[u.next] = "skipped" <=> u.next \notin more
  BY <1>1, <1>3
<1>7. u.error <=> \E i \in 1 .. u.next - 1 : Stops(r, i) \/ Jumps(r, i)
  BY <1>4, Zenon DEF Explained
<1> QED
  BY <1>1, <1>2, <1>5, <1>6, <1>7 DEF RightlyGiven

\* A jump passes over the step.
LEMMA SkipTraced ==
  ASSUME NEW u \in RunState, InPlan(u), u.at = "running", u.next <= Len(u.plan), ~Reached(u),
         NEW called, Traced(u, called)
  PROVE  Traced(SkipOf(u), called)
<1> DEFINE r == SkipOf(u)
<1>1. /\ r.at = "running" /\ r.plan = u.plan /\ r.next = u.next + 1 /\ r.target = u.target
      /\ r.results = Append(u.results, "skipped") /\ r.verdict = u.verdict /\ r.error = u.error
  BY RecordFields, StepStatuses DEF SkipOf
<1>2. /\ u.verdict = "success" /\ Looking(u) /\ called \subseteq 1 .. u.next
      /\ called \subseteq 1 .. Len(u.plan) /\ u.next \notin called /\ Explained(u, called)
  BY DEF Traced, Progress
<1> HIDE DEF r
<1>3. Extends(r, u, "skipped")
  BY <1>1 DEF Extends
<1>4. JumpedOver(u, u.next)
  BY <1>2, ReachedOrJumpedOver
<1>5. /\ \A i \in 1 .. r.next - 1 :
           /\ r.results[i] = "skipped" <=> JumpedOver(r, i)
           /\ r.results[i] = "skipped" <=> i \notin called
      /\ \A i \in 1 .. u.next - 1 : ~Stops(r, i)
      /\ u.error <=> \E i \in 1 .. u.next - 1 : Stops(r, i) \/ Jumps(r, i)
  <2>1. RightlyGiven(r, u, called)
    BY <1>2, <1>3, <1>4, RecordExplained, StepStatuses
  <2> QED
    BY <2>1 DEF RightlyGiven
<1>6. /\ u.next \in Nat \ {0} /\ r.results[u.next] = "skipped"
      /\ \A i \in 1 .. u.next - 1 : r.results[i] = u.results[i]
  <2>1. "skipped" \in StepStatus
    BY StepStatuses
  <2> QED
    BY <1>3, <2>1, ExtendedResults
<1>7. ~Stops(r, u.next) /\ ~Jumps(r, u.next)
  BY <1>6 DEF Stops, Jumps
<1>8. Explained(r, called)
  <2>1. r.error <=> \E i \in 1 .. r.next - 1 : Stops(r, i) \/ Jumps(r, i)
    BY <1>1, <1>5, <1>6, <1>7
  <2>2. \A i \in 1 .. r.next - 1 : ~Stops(r, i)
    BY <1>1, <1>5, <1>6, <1>7
  <2>3. r.verdict # "failed"
    BY <1>1, <1>2
  <2> QED
    BY <1>5, <2>1, <2>2, <2>3 DEF Explained
<1>9. Looking(r)
  <2>1. u.target # 0 /\ u.target # u.next
    BY DEF Reached
  <2>2. PICK j \in 1 .. u.next - 1 :
          /\ Jumps(u, j) /\ u.target = u.plan[j].handler[2]
          /\ u.target \notin j + 1 .. u.next - 1
          /\ \A k \in j + 1 .. u.next - 1 : u.results[k] = "skipped"
    BY <1>2, <2>1 DEF Looking
  <2>3. Jumps(r, j)
    BY <1>3, <2>2, ExtendedSteps, StepStatuses
  <2>4. r.target = r.plan[j].handler[2] /\ r.target \notin j + 1 .. r.next - 1
    BY <1>1, <1>6, <2>1, <2>2, SMTT(30)
  <2>5. ASSUME NEW k \in j + 1 .. r.next - 1 PROVE r.results[k] = "skipped"
    <3>1. k = u.next \/ (k \in 1 .. u.next - 1 /\ k \in j + 1 .. u.next - 1)
      BY <1>1, <1>6
    <3>2. CASE k = u.next
      BY <1>6, <3>2
    <3>3. CASE k \in 1 .. u.next - 1 /\ k \in j + 1 .. u.next - 1
      BY <1>6, <2>2, <3>3
    <3> QED
      BY <3>1, <3>2, <3>3
  <2>6. j \in 1 .. r.next - 1
    BY <1>1, <1>6
  <2> QED
    BY <2>3, <2>4, <2>5, <2>6 DEF Looking
<1>10. Progress(r, called)
  BY <1>1, <1>2, <1>6, <1>9 DEF Progress
<1>11. Traced(r, called)
  BY <1>1, <1>8, <1>10 DEF Traced
<1> QED
  BY <1>11 DEF r

\* The step that is run, with the result it gets.
LEMMA ReachedResult ==
  ASSUME NEW u \in RunState, InPlan(u), u.at = "running", u.next <= Len(u.plan), Reached(u),
         NEW called, Traced(u, called),
         NEW status \in {"success", "failed"}, NEW r, Extends(r, u, status)
  PROVE  r.results[u.next] = status /\ RightlyGiven(r, u, called \cup {u.next})
<1>1. /\ u.verdict = "success" /\ Looking(u) /\ Explained(u, called)
  BY DEF Traced, Progress
<1>2. status \in StepStatus /\ status # "skipped"
  BY StepStatuses
<1>3. ~JumpedOver(u, u.next)
  BY <1>1, ReachedOrJumpedOver
<1>4. RightlyGiven(r, u, called \cup {u.next})
  BY <1>1, <1>2, <1>3, RecordExplained
<1>5. r.results[u.next] = status
  BY <1>2, ExtendedResults
<1> QED
  BY <1>4, <1>5

LEMMA SuccessTraced ==
  ASSUME NEW u \in RunState, InPlan(u), u.at = "running", u.next <= Len(u.plan), Reached(u),
         NEW called, Traced(u, called)
  PROVE  Traced(SuccessOf(u), called \cup {u.next})
<1> DEFINE r == SuccessOf(u)
<1>1. /\ r.at = "running" /\ r.plan = u.plan /\ r.next = u.next + 1 /\ r.target = 0
      /\ r.results = Append(u.results, "success") /\ r.verdict = u.verdict /\ r.error = u.error
  BY RecordFields, StepStatuses DEF SuccessOf
<1>2. /\ u.verdict = "success" /\ called \subseteq 1 .. u.next /\ called \subseteq 1 .. Len(u.plan)
  BY DEF Traced, Progress
<1> HIDE DEF r
<1>3. Extends(r, u, "success")
  BY <1>1 DEF Extends
<1>4. /\ u.next \in Nat \ {0} /\ r.next = u.next + 1 /\ r.results[u.next] = "success"
      /\ \A i \in 1 .. r.next - 1 :
           /\ r.results[i] = "skipped" <=> JumpedOver(r, i)
           /\ r.results[i] = "skipped" <=> i \notin called \cup {u.next}
      /\ \A i \in 1 .. u.next - 1 : ~Stops(r, i)
      /\ u.error <=> \E i \in 1 .. u.next - 1 : Stops(r, i) \/ Jumps(r, i)
  <2>1. r.results[u.next] = "success" /\ RightlyGiven(r, u, called \cup {u.next})
    BY <1>3, ReachedResult
  <2> QED
    BY <2>1 DEF RightlyGiven
<1>5. ~Stops(r, u.next) /\ ~Jumps(r, u.next)
  BY <1>4 DEF Stops, Jumps
<1>6. Explained(r, called \cup {u.next})
  <2>1. r.error <=> \E i \in 1 .. r.next - 1 : Stops(r, i) \/ Jumps(r, i)
    BY <1>1, <1>4, <1>5
  <2>2. \A i \in 1 .. r.next - 1 : ~Stops(r, i)
    BY <1>1, <1>4, <1>5
  <2>3. r.verdict # "failed"
    BY <1>1, <1>2
  <2> QED
    BY <1>4, <2>1, <2>2, <2>3 DEF Explained
<1>7. Looking(r)
  <2>1. r.next - 1 = u.next
    BY <1>4
  <2>2. r.results[r.next - 1] # "skipped" /\ ~Jumps(r, r.next - 1) /\ r.target = 0
    BY <1>1, <1>4, <1>5, <2>1
  <2> QED
    BY <2>2 DEF Looking
<1>8. r.next \notin called \cup {u.next}
  BY <1>2, <1>4
<1>9. called \cup {u.next} \subseteq 1 .. r.next /\ called \cup {u.next} \subseteq 1 .. Len(r.plan)
  <2>1. u.next \in 1 .. Len(u.plan)
    BY HandlerOfStep
  <2>2. \A i \in called \cup {u.next} : i \in 1 .. Len(u.plan) /\ i \in 1 .. u.next + 1
    BY <1>2, <1>4, <2>1
  <2> QED
    BY <1>1, <2>2
<1>10. Progress(r, called \cup {u.next})
  BY <1>1, <1>2, <1>7, <1>8, <1>9 DEF Progress
<1>11. Traced(r, called \cup {u.next})
  BY <1>1, <1>6, <1>10 DEF Traced
<1> QED
  BY <1>11 DEF r

LEMMA FailureTraced ==
  ASSUME NEW u \in RunState, InPlan(u), u.at = "running", u.next <= Len(u.plan), Reached(u),
         NEW called, Traced(u, called)
  PROVE  Traced(FailureOf(u), called \cup {u.next})
<1> DEFINE v == Record(u, "failed")
           h == Current(u).handler
           r == FailureOf(u)
<1>1. /\ v \in RunState /\ v.at = "running" /\ v.plan = u.plan /\ v.next = u.next + 1
      /\ v.target = 0 /\ v.results = Append(u.results, "failed")
      /\ v.verdict = u.verdict /\ v.error = u.error
  BY RecordFields, StepStatuses
<1>2. h \in Handlers /\ h[1] \in {"stop", "continue", "goto"} /\ h = u.plan[u.next].handler
  BY HandlerOfStep, HandlerKinds
<1>3. r = Handled(h, v)
  BY DEF FailureOf
<1> HIDE DEF v, h, r
<1>4. /\ r.at = IF h[1] = "stop" THEN "halted" ELSE v.at
      /\ r.verdict = IF h[1] = "stop" THEN "failed" ELSE v.verdict
      /\ r.error = IF h[1] = "continue" THEN v.error ELSE TRUE
      /\ r.target = IF h[1] = "goto" THEN h[2] ELSE v.target
      /\ r.plan = v.plan /\ r.next = v.next /\ r.results = v.results
  BY <1>1, <1>2, <1>3, HandledFields
<1>5. /\ u.verdict = "success" /\ called \subseteq 1 .. u.next /\ called \subseteq 1 .. Len(u.plan)
  BY DEF Traced, Progress
<1>6. Extends(r, u, "failed")
  BY <1>1, <1>4 DEF Extends
<1>7. /\ u.next \in Nat \ {0} /\ r.next = u.next + 1 /\ r.results[u.next] = "failed"
      /\ \A i \in 1 .. r.next - 1 :
           /\ r.results[i] = "skipped" <=> JumpedOver(r, i)
           /\ r.results[i] = "skipped" <=> i \notin called \cup {u.next}
      /\ \A i \in 1 .. u.next - 1 : ~Stops(r, i)
      /\ u.error <=> \E i \in 1 .. u.next - 1 : Stops(r, i) \/ Jumps(r, i)
  <2>1. r.results[u.next] = "failed" /\ RightlyGiven(r, u, called \cup {u.next})
    BY <1>6, ReachedResult
  <2> QED
    BY <2>1 DEF RightlyGiven
<1>8. (Stops(r, u.next) <=> h[1] = "stop") /\ (Jumps(r, u.next) <=> h[1] = "goto")
  <2>1. r.plan[u.next].handler = h /\ r.results[u.next] = "failed"
    BY <1>1, <1>2, <1>4, <1>7
  <2> QED
    BY <2>1 DEF Stops, Jumps
<1>9. Explained(r, called \cup {u.next})
  <2>1. r.error <=> \E i \in 1 .. r.next - 1 : Stops(r, i) \/ Jumps(r, i)
    <3>1. CASE h[1] = "continue"
      BY <1>1, <1>4, <1>7, <1>8, <3>1
    <3>2. CASE h[1] \in {"stop", "goto"}
      <4>1. r.error = TRUE
        BY <1>4, <3>2
      <4>2. u.next \in 1 .. r.next - 1 /\ (Stops(r, u.next) \/ Jumps(r, u.next))
        BY <1>7, <1>8, <3>2
      <4> QED
        BY <4>1, <4>2
    <3> QED
      BY <1>2, <3>1, <3>2
  <2>2. \A i \in 1 .. r.next - 1 : Stops(r, i) => r.verdict = "failed" /\ i = r.next - 1
    BY <1>4, <1>7, <1>8
  <2>3. r.verdict = "failed" => r.next > 1 /\ Stops(r, r.next - 1)
    <3>1. r.verdict = "failed" => h[1] = "stop"
      BY <1>1, <1>4, <1>5
    <3> QED
      BY <1>7, <1>8, <3>1
  <2> QED
    BY <1>7, <2>1, <2>2, <2>3 DEF Explained
<1>10. r.at = "running" => r.verdict = "success" /\ Looking(r)
  <2> SUFFICES ASSUME r.at = "running" PROVE r.verdict = "success" /\ Looking(r)
    OBVIOUS
  <2>1. h[1] # "stop"
    BY <1>4
  <2>2. CASE h[1] = "continue"
    <3>1. r.next - 1 = u.next
      BY <1>7
    <3>2. r.results[r.next - 1] # "skipped" /\ ~Jumps(r, r.next - 1) /\ r.target = 0
      BY <1>1, <1>4, <1>7, <1>8, <2>2, <3>1
    <3>3. Looking(r)
      BY <3>2 DEF Looking
    <3> QED
      BY <1>1, <1>4, <1>5, <2>2, <3>3
  <2>3. CASE h[1] = "goto"
    <3>1. /\ u.next \in 1 .. r.next - 1 /\ Jumps(r, u.next)
          /\ r.target = r.plan[u.next].handler[2]
      BY <1>1, <1>2, <1>4, <1>7, <1>8, <2>3
    <3>2. u.next + 1 .. r.next - 1 = {}
      BY <1>7
    <3>3. Looking(r)
      BY <3>1, <3>2 DEF Looking
    <3> QED
      BY <1>1, <1>4, <1>5, <2>3, <3>3
  <2> QED
    BY <1>2, <2>1, <2>2, <2>3
<1>11. r.next \notin called \cup {u.next}
  BY <1>5, <1>7
<1>12. /\ called \cup {u.next} \subseteq 1 .. r.next - 1
       /\ called \cup {u.next} \subseteq 1 .. r.next
       /\ called \cup {u.next} \subseteq 1 .. Len(r.plan)
  <2>1. u.next \in 1 .. Len(u.plan) /\ r.next = u.next + 1 /\ r.plan = u.plan
    BY <1>1, <1>4, HandlerOfStep
  <2>2. \A i \in called \cup {u.next} :
          i \in 1 .. Len(u.plan) /\ i \in 1 .. u.next /\ i \in 1 .. u.next + 1
    BY <1>5, <1>7, <2>1
  <2>3. r.next - 1 = u.next
    BY <1>7
  <2> QED
    BY <2>1, <2>2, <2>3
<1>13. r.at \in {"running", "halted"} /\ (r.at = "halted" => r.verdict = "failed")
  BY <1>1, <1>4
<1>14. Progress(r, called \cup {u.next})
  BY <1>10, <1>11, <1>12, <1>13 DEF Progress
<1>15. Traced(r, called \cup {u.next})
  BY <1>9, <1>13, <1>14 DEF Traced
<1> QED
  BY <1>15 DEF r

\* The step is tried again.
LEMMA RetryTraced ==
  ASSUME NEW u \in RunState, InPlan(u), u.at = "running", u.next <= Len(u.plan), Reached(u),
         NEW called, Traced(u, called)
  PROVE  Traced(RetryOf(u), called \cup {u.next})
<1> DEFINE r == RetryOf(u)
<1>1. /\ r.at = "running" /\ r.plan = u.plan /\ r.next = u.next /\ r.target = u.target
      /\ r.results = u.results /\ r.verdict = u.verdict /\ r.error = u.error
  BY RetryFields DEF RetryOf
<1> HIDE DEF r
<1>2. /\ u.verdict = "success" /\ Looking(u) /\ Explained(u, called)
      /\ called \subseteq 1 .. u.next /\ called \subseteq 1 .. Len(u.plan)
  BY DEF Traced, Progress
<1>3. u.next \in 1 .. Len(u.plan) /\ u.next \in Nat \ {0}
  BY HandlerOfStep DEF RunState
<1>4. \A i : /\ Stops(r, i) <=> Stops(u, i)
             /\ Jumps(r, i) <=> Jumps(u, i)
             /\ JumpedOver(r, i) <=> JumpedOver(u, i)
  BY <1>1 DEF Stops, Jumps, JumpedOver
<1>5. Looking(r)
  BY <1>1, <1>2, <1>4 DEF Looking
<1>6. \A i \in 1 .. u.next - 1 : i # u.next
  BY <1>3
<1>7. Explained(r, called \cup {u.next})
  BY <1>1, <1>2, <1>4, <1>6 DEF Explained
<1>8. Reached(r)
  BY <1>1 DEF Reached
<1>9. called \cup {u.next} \subseteq 1 .. u.next /\ called \cup {u.next} \subseteq 1 .. Len(u.plan)
  <2>1. u.next \in 1 .. u.next
    BY <1>3
  <2> QED
    BY <1>2, <1>3, <2>1
<1>10. Progress(r, called \cup {u.next})
  BY <1>1, <1>2, <1>5, <1>8, <1>9 DEF Progress
<1>11. Traced(r, called \cup {u.next})
  BY <1>1, <1>7, <1>10 DEF Traced
<1> QED
  BY <1>11 DEF r

LEMMA StartedTraced == ASSUME TypeOK PROVE Traced(Started, {})
<1>1. /\ Started.at = "running" /\ Started.next = 1 /\ Started.target = 0
      /\ Started.verdict = "success" /\ Started.error = FALSE
  BY DEF Started, NotRun
<1>2. 1 .. 1 - 1 = {}
  OBVIOUS
<1>3. Explained(Started, {}) /\ Looking(Started)
  BY <1>1, <1>2 DEF Explained, Looking
<1>4. Progress(Started, {})
  BY <1>1, <1>3 DEF Progress
<1> QED
  BY <1>1, <1>3, <1>4 DEF Traced

\* An end other than the commit says nothing of the results.
LEMMA DroppedTraced ==
  ASSUME NEW u \in RunState, NEW at \in Ended \ {"committed"}, NEW called
  PROVE  Traced([u EXCEPT !.at = at], called)
<1>1. [u EXCEPT !.at = at].at = at
  BY AtFields
<1> QED
  BY <1>1 DEF Traced, Progress, Ended

LEMMA CommittedTraced ==
  ASSUME NEW u \in RunState, InPlan(u), NEW called, Traced(u, called),
         u.at = "halted" \/ (u.at = "running" /\ u.next > Len(u.plan))
  PROVE  Traced([u EXCEPT !.at = "committed"], called)
<1> DEFINE r == [u EXCEPT !.at = "committed"]
<1>1. /\ r.at = "committed" /\ r.plan = u.plan /\ r.next = u.next /\ r.target = u.target
      /\ r.results = u.results /\ r.verdict = u.verdict /\ r.error = u.error
  <2>1. "committed" \in {"idle", "queued", "running", "halted"} \cup Ended
    BY DEF Ended
  <2> QED
    BY <2>1, AtFields
<1> HIDE DEF r
<1>2. Explained(u, called) /\ Progress(u, called)
  BY DEF Traced
<1>3. \A i : /\ Stops(r, i) <=> Stops(u, i)
             /\ Jumps(r, i) <=> Jumps(u, i)
             /\ JumpedOver(r, i) <=> JumpedOver(u, i)
  BY <1>1 DEF Stops, Jumps, JumpedOver
<1>4. Explained(r, called)
  BY <1>1, <1>2, <1>3 DEF Explained
<1>5. /\ called \subseteq 1 .. u.next - 1
      /\ u.verdict = "success" => u.next = Len(u.plan) + 1
  <2>1. CASE u.at = "halted"
    BY <1>2, <2>1 DEF Progress
  <2>2. CASE u.at = "running" /\ u.next > Len(u.plan)
    <3>1. u.next \in Nat /\ Len(u.plan) \in Nat
      <4>1. CASE u.plan \in Plans
        BY <4>1, PlansAssumption DEF RunState
      <4> QED
        BY <4>1, EmptyResults DEF RunState
    <3>2. u.next = Len(u.plan) + 1
      BY <2>2, <3>1 DEF InPlan
    <3>3. Len(u.plan) = u.next - 1
      BY <3>1, <3>2
    <3> QED
      BY <1>2, <2>2, <3>2, <3>3 DEF Progress
  <2> QED
    BY <2>1, <2>2
<1>6. Progress(r, called)
  BY <1>1, <1>5 DEF Progress
<1>7. Traced(r, called)
  BY <1>1, <1>4, <1>6 DEF Traced
<1> QED
  BY <1>7 DEF r

LEMMA IdleTraced == Traced(NotRun, {})
BY DEF Traced, Progress, NotRun

LEMMA QueuedTraced ==
  ASSUME NEW u \in RunState, NEW called, Traced(u, called), u.at = "idle"
  PROVE  Traced([u EXCEPT !.at = "queued"], called)
<1>1. [u EXCEPT !.at = "queued"].at = "queued"
  BY AtFields
<1> QED
  BY <1>1 DEF Traced, Progress

-----------------------------------------------------------------------------
(* Every step keeps the traces.                                            *)

\* Nothing that is said of another execution changes.
Others(e) ==
  \A d \in Executions \ {e} :
    /\ run'[d] = run[d] /\ dispatched'[d] = dispatched[d] /\ row'[d] = row[d]
    /\ origin'[d] = origin[d] /\ request'[d] = request[d]

LEMMA OneTrace ==
  ASSUME TypeOK, Traces, NEW e \in Executions, Others(e),
         Traced(run'[e], dispatched'[e]), Origins(e)'
  PROVE  Traces'
<1>1. ASSUME NEW d \in Executions \ {e} PROVE Traced(run'[d], dispatched'[d]) /\ Origins(d)'
  BY <1>1 DEF Others, Traces, Origins, Stored
<1> QED
  BY <1>1 DEF Traces

\* A step of the executor that touches neither the row nor where it came from.
LEMMA StepKeepsTraces ==
  ASSUME TypeOK, Traces, NEW e \in Executions, NEW r \in RunState, Becomes(e, r),
         run[e].at \notin {"idle", "committed"}, Traced(r, dispatched'[e]),
         \A d \in Executions \ {e} : dispatched'[d] = dispatched[d],
         UNCHANGED <<row, origin, request>>
  PROVE  Traces'
<1>1. run'[e] = r /\ Others(e)
  BY DEF Becomes, TypeOK, Others
<1>2. Origins(e)'
  BY DEF Traces, Origins, Stored
<1> QED
  BY <1>1, <1>2, OneTrace

LEMMA TracesKept == ASSUME TypeOK, Traces, [Next]_vars PROVE Traces'
<1>0. \A e \in Executions : run[e] \in RunState /\ InPlan(run[e])
  BY DEF TypeOK
<1>1. ASSUME NEW e \in Executions, ExecuteSync(e) PROVE Traces'
  <2>1. run'[e] = Started /\ Others(e) /\ dispatched'[e] = {}
    BY <1>1 DEF ExecuteSync, TypeOK, Others, Traces, Origins, Traced
  <2>2. /\ row'[e] = row[e] /\ row[e].status = "absent" /\ ~Stored(e)
        /\ origin'[e] = "sync" /\ request'[e] = "none"
    BY <1>1 DEF ExecuteSync, TypeOK, Traces, Origins, Stored, Final
  <2>3. Origins(e)'
    BY <2>2 DEF Origins, Stored, Traces
  <2> QED
    BY <2>1, <2>3, StartedTraced, OneTrace
<1>2. ASSUME NEW e \in Executions, ExecuteAsync(e) PROVE Traces'
  <2>1. run[e].at = "idle"
    BY <1>2 DEF ExecuteAsync, Traces, Origins
  <2>2. run'[e] = [run[e] EXCEPT !.at = "queued"] /\ Others(e) /\ dispatched'[e] = dispatched[e]
    BY <1>2 DEF ExecuteAsync, TypeOK, Others
  <2>3. Traced(run'[e], dispatched'[e])
    BY <1>0, <2>1, <2>2, QueuedTraced DEF Traces
  <2>4. /\ row'[e] = row[e] /\ row[e].status = "absent" /\ ~Stored(e)
        /\ origin'[e] = "async" /\ request'[e] = "open"
    BY <1>2 DEF ExecuteAsync, TypeOK, Traces, Origins, Stored, Final
  <2>5. Origins(e)'
    BY <2>4 DEF Origins, Stored, Traces
  <2> QED
    BY <2>2, <2>3, <2>5, OneTrace
<1>3. ASSUME NEW e \in Executions, FireTrigger(e) PROVE Traces'
  <2>1. run[e].at = "idle" /\ request[e] = "none"
    BY <1>3 DEF FireTrigger, Traces, Origins
  <2>2. run'[e] = [run[e] EXCEPT !.at = "queued"] /\ Others(e) /\ dispatched'[e] = dispatched[e]
    BY <1>3 DEF FireTrigger, TypeOK, Others
  <2>3. Traced(run'[e], dispatched'[e])
    BY <1>0, <2>1, <2>2, QueuedTraced DEF Traces
  <2>4. row'[e] = PendingRow /\ origin'[e] = "trigger" /\ request'[e] = "none"
    BY <1>3, <2>1 DEF FireTrigger, TypeOK
  <2>5. Origins(e)'
    BY <2>4 DEF Origins, Stored, PendingRow, NoRow, Final
  <2> QED
    BY <2>2, <2>3, <2>5, OneTrace
<1>4. ASSUME NEW e \in Executions, CommitRequest(e) PROVE Traces'
  <2>1. /\ run'[e] = run[e] /\ Others(e) /\ dispatched'[e] = dispatched[e]
        /\ row'[e] = PendingRow /\ origin'[e] = "async" /\ request'[e] = "closed"
    BY <1>4 DEF CommitRequest, TypeOK, Others, Traces, Origins
  <2>2. Origins(e)'
    BY <2>1 DEF Origins, Stored, PendingRow, NoRow, Final
  <2> QED
    BY <2>1, <2>2, OneTrace DEF Traces
<1>5. ASSUME NEW e \in Executions, RollbackRequest(e) PROVE Traces'
  <2>1. /\ run'[e] = run[e] /\ Others(e) /\ dispatched'[e] = dispatched[e]
        /\ row'[e] = row[e] /\ origin'[e] = "async" /\ request'[e] = "closed"
    BY <1>5 DEF RollbackRequest, TypeOK, Others, Traces, Origins
  <2>2. Origins(e)'
    BY <2>1 DEF Origins, Stored, Traces
  <2> QED
    BY <2>1, <2>2, OneTrace DEF Traces
<1>6. ASSUME NEW e \in Executions, NotFound(e) \/ WorkflowGone(e) \/ Raise(e) PROVE Traces'
  <2>1. PICK how \in Ended \ {"committed"} :
          run[e].at \in {"queued", "running", "halted"} /\ End(e, how)
    BY <1>6 DEF NotFound, WorkflowGone, Raise, Ended
  <2> DEFINE r == [run[e] EXCEPT !.at = how]
  <2>2. Becomes(e, r) /\ UNCHANGED <<row, origin, request, dispatched>>
    BY <2>1, EndBecomes DEF End
  <2>3. r \in RunState
    BY <1>0, AtFields
  <2>4. Traced(r, dispatched[e])
    BY <1>0, DroppedTraced
  <2> HIDE DEF r
  <2> QED
    BY <2>1, <2>2, <2>3, <2>4, StepKeepsTraces
<1>7. ASSUME NEW e \in Executions, Load(e) PROVE Traces'
  <2>1. Becomes(e, Started) /\ UNCHANGED <<row, origin, request, dispatched>>
    BY <1>7 DEF Load, Becomes
  <2>2. run[e].at = "queued" /\ dispatched[e] = {}
    BY <1>7 DEF Load, Traces, Traced
  <2>3. Started \in RunState
    BY StartedType
  <2>4. Traced(Started, {})
    BY StartedTraced
  <2> QED
    BY <2>1, <2>2, <2>3, <2>4, StepKeepsTraces
<1>8. ASSUME NEW e \in Executions, SkipStep(e) PROVE Traces'
  <2> DEFINE r == SkipOf(run[e])
  <2>1. Becomes(e, r) /\ UNCHANGED <<row, origin, request, dispatched>>
    BY <1>8 DEF SkipStep, Becomes, SkipOf
  <2>2. run[e].at = "running" /\ run[e].next <= Len(run[e].plan) /\ ~Reached(run[e])
    BY <1>8 DEF SkipStep, AtStep
  <2>3. r \in RunState
    BY <1>0, <2>2, StepTypes
  <2>4. Traced(r, dispatched[e])
    BY <1>0, <2>2, SkipTraced DEF Traces
  <2> HIDE DEF r
  <2> QED
    BY <2>1, <2>2, <2>3, <2>4, StepKeepsTraces
<1>9. ASSUME NEW e \in Executions, Dispatch(e), UNCHANGED row,
             NEW r \in RunState, Becomes(e, r), Traced(r, dispatched[e] \cup {run[e].next})
      PROVE  Traces'
  <2>1. /\ run[e].at = "running" /\ dispatched'[e] = dispatched[e] \cup {run[e].next}
        /\ \A d \in Executions \ {e} : dispatched'[d] = dispatched[d]
    BY <1>9, DispatchStep
  <2>2. UNCHANGED <<row, origin, request>>
    BY <1>9 DEF Dispatch
  <2> QED
    BY <1>9, <2>1, <2>2, StepKeepsTraces
<1>10. ASSUME NEW e \in Executions, StepSucceeds(e) PROVE Traces'
  <2>1. Becomes(e, SuccessOf(run[e])) /\ Dispatch(e) /\ UNCHANGED row
    BY <1>10 DEF StepSucceeds, Becomes, SuccessOf
  <2>2. run[e].at = "running" /\ run[e].next <= Len(run[e].plan) /\ Reached(run[e])
    BY <2>1, DispatchStep
  <2> QED
    BY <1>0, <1>9, <2>1, <2>2, StepTypes, SuccessTraced DEF Traces
<1>11. ASSUME NEW e \in Executions, AttemptFails(e) PROVE Traces'
  <2>1. /\ Becomes(e, RetryOf(run[e])) /\ Dispatch(e) /\ UNCHANGED row
        /\ run[e].attempt < Current(run[e]).attempts
    BY <1>11 DEF AttemptFails, Becomes, RetryOf
  <2>2. run[e].at = "running" /\ run[e].next <= Len(run[e].plan) /\ Reached(run[e])
    BY <2>1, DispatchStep
  <2> QED
    BY <1>0, <1>9, <2>1, <2>2, StepTypes, RetryTraced DEF Traces
<1>12. ASSUME NEW e \in Executions, StepFails(e) PROVE Traces'
  <2>1. Becomes(e, FailureOf(run[e])) /\ Dispatch(e) /\ UNCHANGED row
    BY <1>12 DEF StepFails, Becomes, FailureOf
  <2>2. run[e].at = "running" /\ run[e].next <= Len(run[e].plan) /\ Reached(run[e])
    BY <2>1, DispatchStep
  <2> QED
    BY <1>0, <1>9, <2>1, <2>2, StepTypes, FailureTraced DEF Traces
<1>13. ASSUME NEW e \in Executions, Commit(e) PROVE Traces'
  <2> DEFINE u == run[e]
             r == [u EXCEPT !.at = "committed"]
             stored == [status |-> u.verdict, results |-> u.results, error |-> u.error]
  <2>1. run'[e] = r /\ Others(e) /\ dispatched'[e] = dispatched[e]
    BY <1>13 DEF Commit, TypeOK, Others
  <2>2. /\ row'[e] = stored /\ origin'[e] = origin[e] /\ request'[e] = request[e]
        /\ stored.status = u.verdict /\ u.verdict \in Final
    BY <1>0, <1>13 DEF Commit, TypeOK, RunState
  <2>3. u.at = "halted" \/ (u.at = "running" /\ u.next > Len(u.plan))
    BY <1>13 DEF Commit, Finished
  <2>4. Traced(r, dispatched[e])
    BY <1>0, <2>3, CommittedTraced DEF Traces
  <2>5. r.at = "committed" /\ r.verdict = u.verdict /\ r.results = u.results /\ r.error = u.error
    <3>1. "committed" \in {"idle", "queued", "running", "halted"} \cup Ended
      BY DEF Ended
    <3> QED
      BY <1>0, <3>1, AtFields
  <2>6. origin[e] # "none" /\ request[e] # "open"
    <3>1. origin[e] # "none"
      BY <2>3 DEF Traces, Origins
    <3>2. CASE origin[e] = "sync"
      BY <3>2 DEF Traces, Origins
    <3>3. CASE origin[e] # "sync"
      BY <1>13, <3>3 DEF Commit, Traces, Origins
    <3> QED
      BY <3>1, <3>2, <3>3
  <2>7. request[e] # "none" => origin[e] = "async"
    BY DEF Traces, Origins
  <2> HIDE DEF u, r, stored
  <2>8. Origins(e)'
    <3>1. Stored(e)' /\ row'[e].status \notin {"pending", "absent"}
      BY <2>2 DEF Stored, Final
    <3>2. row'[e] = [status |-> run'[e].verdict, results |-> run'[e].results,
                     error |-> run'[e].error]
      BY <2>1, <2>2, <2>5 DEF stored
    <3> QED
      BY <2>1, <2>2, <2>5, <2>6, <2>7, <3>1, <3>2 DEF Origins
  <2> QED
    BY <2>1, <2>4, <2>8, OneTrace
<1>14. CASE ServerStop
  <2> SUFFICES ASSUME NEW e \in Executions
               PROVE  Traced(run'[e], dispatched'[e]) /\ Origins(e)'
    BY DEF Traces
  <2>1. /\ row'[e] = row[e] /\ origin'[e] = origin[e] /\ dispatched'[e] = dispatched[e]
        /\ request'[e] = IF request[e] = "open" THEN "closed" ELSE request[e]
    BY <1>14 DEF ServerStop
  <2>2. CASE run[e].at \in {"queued", "running", "halted"}
    <3>1. run'[e] = [run[e] EXCEPT !.at = "stopped"]
      BY <1>14, <2>2 DEF ServerStop
    <3>2. Traced(run'[e], dispatched[e])
      <4>1. "stopped" \in Ended \ {"committed"}
        BY DEF Ended
      <4>2. Traced([run[e] EXCEPT !.at = "stopped"], dispatched[e])
        BY <1>0, <4>1, DroppedTraced
      <4> QED
        BY <3>1, <4>2
    <3>3. Origins(e)'
      BY <2>1, <2>2 DEF Traces, Origins, Stored
    <3> QED
      BY <2>1, <3>2, <3>3
  <2>3. CASE run[e].at \notin {"queued", "running", "halted"}
    <3>1. run'[e] = run[e]
      BY <1>14, <2>3 DEF ServerStop
    <3> QED
      BY <2>1, <3>1 DEF Traces, Origins, Stored
  <2> QED
    BY <2>2, <2>3
<1>15. CASE UpdateWorkflow
  BY <1>15 DEF UpdateWorkflow, Traces, Origins, Stored
<1>16. CASE DeleteWorkflow
  <2> SUFFICES ASSUME NEW e \in Executions
               PROVE  Traced(run'[e], dispatched'[e]) /\ Origins(e)'
    BY DEF Traces
  <2>1. /\ run'[e] = run[e] /\ origin'[e] = origin[e] /\ dispatched'[e] = dispatched[e]
        /\ request'[e] = request[e] /\ (row'[e] = row[e] \/ row'[e] = NoRow)
    BY <1>16 DEF DeleteWorkflow
  <2>2. CASE row'[e] = row[e]
    BY <2>1, <2>2 DEF Traces, Origins, Stored
  <2>3. CASE row'[e] = NoRow
    <3>1. row'[e].status = "absent" /\ row'[e].results = <<>> /\ row'[e].error = FALSE
      BY <2>3 DEF NoRow
    <3>2. ~Stored(e)'
      BY <3>1 DEF Stored, Final
    <3>3. Traced(run[e], dispatched[e]) /\ Origins(e)
      BY DEF Traces
    <3>4. Origins(e)'
      BY <2>1, <3>1, <3>2, <3>3 DEF Origins
    <3> QED
      BY <2>1, <3>3, <3>4
  <2> QED
    BY <2>1, <2>2, <2>3
<1>17. CASE UNCHANGED vars
  BY <1>17 DEF vars, Traces, Origins, Stored
<1> QED
  BY <1>1, <1>2, <1>3, <1>4, <1>5, <1>6, <1>7, <1>8, <1>10, <1>11, <1>12, <1>13, <1>14, <1>15,
     <1>16, <1>17 DEF Next, Start, CloseRequest, Proceed

LEMMA TracesAtFirst == Init => Traces
BY IdleTraced DEF Init, Traces, Origins, Stored, NoRow, NotRun, Final

\* The inductive invariant: what an executor has recorded is explained by the
\* error handlers, and a row says what its executor had when it committed.
THEOREM Invariance == Spec => [](TypeOK /\ Traces)
<1>1. Init => TypeOK /\ Traces
  BY TypesAtFirst, TracesAtFirst
<1>2. TypeOK /\ Traces /\ [Next]_vars => (TypeOK /\ Traces)'
  BY TypesKept, TracesKept
<1> QED
  BY <1>1, <1>2, PTL DEF Spec

\* Step results become visible with the verdict or not at all, and a sync
\* execution leaves no PENDING row.
THEOREM ResultsAreWhole == Spec => []AllOrNothing
<1>1. Traces => AllOrNothing
  BY DEF Traces, Origins, AllOrNothing
<1> QED
  BY <1>1, Invariance, PTL

\* What a stored row says is what its executor had.
LEMMA StoredIsTraced ==
  ASSUME TypeOK, Traces, NEW e \in Executions, Stored(e)
  PROVE  LET u == run[e]
         IN /\ u \in RunState /\ InPlan(u) /\ Len(u.results) = u.next - 1
            /\ row[e].status = u.verdict /\ row[e].results = u.results /\ row[e].error = u.error
            /\ Explained(u, dispatched[e])
            /\ dispatched[e] \subseteq 1 .. u.next - 1
            /\ u.verdict = "success" => u.next - 1 = Len(u.plan)
<1> DEFINE u == run[e]
<1>1. u \in RunState /\ InPlan(u)
  BY DEF TypeOK
<1>2. /\ u.at = "committed"
      /\ row[e] = [status |-> u.verdict, results |-> u.results, error |-> u.error]
  BY DEF Traces, Origins
<1>3. Traced(u, dispatched[e])
  BY DEF Traces
<1> HIDE DEF u
<1>4. Explained(u, dispatched[e]) /\ Progress(u, dispatched[e])
  BY <1>2, <1>3 DEF Traced
<1>5. Len(u.results) \in Nat /\ Len(u.plan) \in Nat
  <2>1. CASE u.plan \in Plans
    BY <1>1, <2>1, PlansAssumption DEF RunState
  <2> QED
    BY <1>1, <2>1, EmptyResults DEF RunState
<1>6. Len(u.results) = u.next - 1
  BY <1>1, <1>5 DEF InPlan
<1>7. /\ dispatched[e] \subseteq 1 .. u.next - 1
      /\ u.verdict = "success" => u.next - 1 = Len(u.plan)
  BY <1>2, <1>4, <1>5 DEF Progress
<1>8. row[e].status = u.verdict /\ row[e].results = u.results /\ row[e].error = u.error
  BY <1>2
<1> QED
  BY <1>1, <1>4, <1>6, <1>7, <1>8 DEF u

\* The stored verdict is the one that the error handlers call for, for every
\* step list, and no step after the last result was ever called.
THEOREM VerdictIsDue == Spec => []VerdictFollowsHandlers
<1>1. TypeOK /\ Traces => VerdictFollowsHandlers
  <2> SUFFICES ASSUME TypeOK, Traces, NEW e \in Executions, Stored(e)
               PROVE  LET n == Len(row[e].results)
                          stops == {i \in 1 .. n : FailedAt(e, i) /\ HandlerOf(e, i) = "stop"}
                          jumps == {i \in 1 .. n : FailedAt(e, i) /\ HandlerOf(e, i) = "goto"}
                      IN /\ row[e].status = "failed" => stops = {n}
                         /\ row[e].status = "success" => stops = {} /\ n = Len(run[e].plan)
                         /\ row[e].error <=> stops \cup jumps # {}
                         /\ dispatched[e] \subseteq 1 .. n
    BY DEF VerdictFollowsHandlers
  <2> DEFINE u == run[e]
             n == u.next - 1
             stops == {i \in 1 .. n : FailedAt(e, i) /\ HandlerOf(e, i) = "stop"}
             jumps == {i \in 1 .. n : FailedAt(e, i) /\ HandlerOf(e, i) = "goto"}
  <2>1. /\ u \in RunState /\ Len(u.results) = n
        /\ row[e].status = u.verdict /\ row[e].results = u.results /\ row[e].error = u.error
        /\ Explained(u, dispatched[e]) /\ dispatched[e] \subseteq 1 .. n
        /\ u.verdict = "success" => n = Len(u.plan)
    BY StoredIsTraced
  <2>2. /\ stops = {i \in 1 .. n : Stops(u, i)}
        /\ jumps = {i \in 1 .. n : Jumps(u, i)}
    BY <2>1 DEF FailedAt, HandlerOf, Stops, Jumps
  <2>3. u.verdict \in Final /\ u.next \in Nat \ {0}
    BY <2>1 DEF RunState
  <2> HIDE DEF stops, jumps
  <2>4. u.verdict = "failed" => stops = {n}
    <3> SUFFICES ASSUME u.verdict = "failed" PROVE stops = {n}
      OBVIOUS
    <3>1. n \in 1 .. n /\ Stops(u, n)
      BY <2>1, <2>3 DEF Explained
    <3>2. \A i \in 1 .. n : Stops(u, i) => i = n
      BY <2>1 DEF Explained
    <3> QED
      BY <2>2, <3>1, <3>2
  <2>5. u.verdict = "success" => stops = {}
    <3> SUFFICES ASSUME u.verdict = "success" PROVE stops = {}
      OBVIOUS
    <3>1. \A i \in 1 .. n : ~Stops(u, i)
      BY <2>1 DEF Explained
    <3> QED
      BY <2>2, <3>1
  <2>6. u.error <=> stops \cup jumps # {}
    <3>1. u.error <=> \E i \in 1 .. n : Stops(u, i) \/ Jumps(u, i)
      BY <2>1 DEF Explained
    <3>2. (\E i \in 1 .. n : Stops(u, i) \/ Jumps(u, i)) <=> stops \cup jumps # {}
      BY <2>2
    <3> QED
      BY <3>1, <3>2
  <2>7. Len(row[e].results) = n
    BY <2>1
  <2> QED
    BY <2>1, <2>4, <2>5, <2>6, <2>7 DEF stops, jumps
<1> QED
  BY <1>1, Invariance, PTL

\* A step is passed over exactly when a failed step jumped over it, and what is
\* passed over was never called.
THEOREM SkipsAreExact == Spec => []JumpsSkipExactly
<1>1. TypeOK /\ Traces => JumpsSkipExactly
  <2> SUFFICES ASSUME TypeOK, Traces, NEW e \in Executions, Stored(e),
                      NEW i \in 1 .. Len(row[e].results)
               PROVE  /\ i \notin dispatched[e] <=>
                           \E j \in 1 .. i - 1 :
                             /\ FailedAt(e, j) /\ HandlerOf(e, j) = "goto"
                             /\ run[e].plan[j].handler[2] \notin j + 1 .. i
                             /\ \A k \in j + 1 .. i - 1 : k \notin dispatched[e]
                      /\ i \notin dispatched[e] => row[e].results[i] = "skipped"
    BY DEF JumpsSkipExactly
  <2>1. /\ row[e].results = run[e].results /\ Len(run[e].results) = run[e].next - 1
        /\ Explained(run[e], dispatched[e]) /\ run[e].next \in Nat \ {0}
    BY StoredIsTraced DEF RunState
  <2>2. /\ run[e].results[i] = "skipped" <=> JumpedOver(run[e], i)
        /\ \A k \in 1 .. i : run[e].results[k] = "skipped" <=> k \notin dispatched[e]
    BY <2>1 DEF Explained
  <2>3. \A j \in 1 .. i - 1 :
          (\A k \in j + 1 .. i - 1 : run[e].results[k] = "skipped")
            <=> (\A k \in j + 1 .. i - 1 : k \notin dispatched[e])
    BY <2>1, <2>2
  <2>4. \A j \in 1 .. i - 1 :
          Jumps(run[e], j) <=> FailedAt(e, j) /\ HandlerOf(e, j) = "goto"
    BY <2>1 DEF Jumps, FailedAt, HandlerOf
  <2>5. JumpedOver(run[e], i) <=>
          \E j \in 1 .. i - 1 :
            /\ FailedAt(e, j) /\ HandlerOf(e, j) = "goto"
            /\ run[e].plan[j].handler[2] \notin j + 1 .. i
            /\ \A k \in j + 1 .. i - 1 : k \notin dispatched[e]
    BY <2>3, <2>4 DEF JumpedOver
  <2>6. i \in 1 .. i
    BY <2>1
  <2> QED
    BY <2>1, <2>2, <2>5, <2>6
<1> QED
  BY <1>1, Invariance, PTL

-----------------------------------------------------------------------------
(* Statistics: counters written from stale reads lag, and never lead.      *)

StoredRows == {e \in Executions : Stored(e)}
FailedRows == {e \in Executions : row[e].status = "failed"}

Bounded(total, failed) == total <= Cardinality(StoredRows) /\ failed <= Cardinality(FailedRows)

Open(u) == u.at \in {"running", "halted"}

\* What a running execution has read was no more than was stored then, and is
\* no more than is stored now, the execution itself not being among them.
Counted ==
  /\ IsFiniteSet(StoredRows)
  /\ Live => Bounded(workflow.total, workflow.failed)
  /\ Live => \A e \in Executions : Open(run[e]) => Bounded(run[e].total, run[e].failed)

LEMMA StoredCounts ==
  ASSUME IsFiniteSet(StoredRows)
  PROVE  /\ IsFiniteSet(FailedRows)
         /\ Cardinality(StoredRows) \in Nat /\ Cardinality(FailedRows) \in Nat
<1>1. FailedRows \subseteq StoredRows
  BY DEF FailedRows, StoredRows, Stored, Final
<1> QED
  BY <1>1, FS_Subset, FS_CardinalityType

\* A step that stores nothing: the counters stay, and an execution that starts
\* running reads them.
LEMMA NothingStored ==
  ASSUME Counted, StoredRows' = StoredRows, FailedRows' = FailedRows, Live' => Live,
         workflow'.total = workflow.total, workflow'.failed = workflow.failed,
         \A e \in Executions : Open(run'[e]) =>
           \/ run'[e].total = workflow.total /\ run'[e].failed = workflow.failed
           \/ /\ Open(run[e])
              /\ run'[e].total = run[e].total /\ run'[e].failed = run[e].failed
  PROVE  Counted'
BY DEF Counted, Bounded

LEMMA RowsUnchanged ==
  ASSUME row' = row
  PROVE  StoredRows' = StoredRows /\ FailedRows' = FailedRows
BY DEF StoredRows, FailedRows, Stored

LEMMA StartedCounters ==
  Started.total = workflow.total /\ Started.failed = workflow.failed
BY DEF Started, NotRun

\* A step of an executor that commits nothing.
LEMMA StepCounts ==
  ASSUME TypeOK, Counted, NEW e \in Executions, NEW r, Becomes(e, r), UNCHANGED <<workflow, row>>,
         Open(r) =>
           \/ r.total = workflow.total /\ r.failed = workflow.failed
           \/ Open(run[e]) /\ r.total = run[e].total /\ r.failed = run[e].failed
  PROVE  Counted'
<1>1. run'[e] = r /\ \A d \in Executions \ {e} : run'[d] = run[d]
  BY DEF Becomes, TypeOK
<1>2. Live' => Live
  BY DEF Live
<1> QED
  BY <1>1, <1>2, NothingStored, RowsUnchanged

\* A row that is inserted, PENDING, where there was none.
LEMMA PendingCounts ==
  ASSUME TypeOK, NEW e \in Executions, row[e].status = "absent",
         row' = [row EXCEPT ![e] = PendingRow]
  PROVE  StoredRows' = StoredRows /\ FailedRows' = FailedRows
<1>1. row'[e].status = "pending" /\ \A d \in Executions \ {e} : row'[d] = row[d]
  BY DEF TypeOK, PendingRow, NoRow
<1> QED
  BY <1>1 DEF StoredRows, FailedRows, Stored, Final

\* A commit stores one row more and counts at most one more than was read.
LEMMA CommitCounts ==
  ASSUME TypeOK, Traces, Counted, NEW e \in Executions, Commit(e)
  PROVE  Counted'
<1> DEFINE u == run[e]
<1>1. /\ u \in RunState /\ Live /\ ~Stored(e) /\ row[e].status # "failed" /\ Open(u)
      /\ \A d \in Executions \ {e} : row'[d] = row[d] /\ run'[d] = run[d]
      /\ row'[e].status = u.verdict /\ run'[e].at = "committed"
      /\ workflow'.total = u.total + 1 /\ workflow'.failed = FailedAfter(u)
  <2>1. u \in RunState /\ Live /\ Open(u)
    BY DEF Commit, Finished, TypeOK, Open
  <2>2. ~Stored(e) /\ row[e].status # "failed"
    BY <2>1 DEF Traces, Origins, Open, Stored, Final
  <2>3. /\ \A d \in Executions \ {e} : row'[d] = row[d] /\ run'[d] = run[d]
        /\ row'[e].status = u.verdict
    BY DEF Commit, TypeOK
  <2>4. run'[e].at = "committed"
    BY <2>1 DEF Commit, TypeOK, RunState
  <2>5. workflow'.total = u.total + 1 /\ workflow'.failed = FailedAfter(u)
    BY DEF Commit, TypeOK, WorkflowState
  <2> QED
    BY <2>1, <2>2, <2>3, <2>4, <2>5
<1>2. u.verdict \in Final /\ u.total \in Nat /\ u.failed \in Nat
  BY <1>1 DEF RunState
<1>3. /\ Bounded(u.total, u.failed) /\ Bounded(workflow.total, workflow.failed)
      /\ IsFiniteSet(StoredRows) /\ workflow.failed \in Nat
  BY <1>1 DEF Counted, TypeOK, WorkflowState
<1> HIDE DEF u
<1>4. StoredRows' = StoredRows \cup {e} /\ e \notin StoredRows
  BY <1>1, <1>2 DEF StoredRows, Stored, Final
<1>5. /\ e \notin FailedRows
      /\ FailedRows' = IF u.verdict = "failed" THEN FailedRows \cup {e} ELSE FailedRows
  BY <1>1, <1>2 DEF FailedRows, Final
<1>6. IsFiniteSet(StoredRows') /\ Cardinality(StoredRows') = Cardinality(StoredRows) + 1
  BY <1>3, <1>4, FS_AddElement
<1>7. IsFiniteSet(FailedRows) /\ Cardinality(StoredRows) \in Nat /\ Cardinality(FailedRows) \in Nat
  BY <1>3, StoredCounts
<1>8. Cardinality(FailedRows') = IF u.verdict = "failed" THEN Cardinality(FailedRows) + 1
                                 ELSE Cardinality(FailedRows)
  BY <1>5, <1>7, FS_AddElement
<1>9. \A total, failed \in Nat : Bounded(total, failed) =>
        total <= Cardinality(StoredRows') /\ failed <= Cardinality(FailedRows')
  BY <1>6, <1>7, <1>8 DEF Bounded
<1>10. workflow'.total <= Cardinality(StoredRows')
  BY <1>1, <1>2, <1>3, <1>6, <1>7 DEF Bounded
<1>11. workflow'.failed <= Cardinality(FailedRows')
  BY <1>1, <1>2, <1>3, <1>7, <1>8 DEF Bounded, FailedAfter
<1>12. ASSUME NEW d \in Executions, Open(run'[d])
       PROVE  run'[d].total <= Cardinality(StoredRows') /\ run'[d].failed <= Cardinality(FailedRows')
  <2>1. d # e
    BY <1>1, <1>12 DEF Open
  <2>2. run'[d] = run[d] /\ run[d].total \in Nat /\ run[d].failed \in Nat
    BY <1>1, <2>1 DEF TypeOK, RunState
  <2>3. Bounded(run[d].total, run[d].failed)
    BY <1>1, <1>12, <2>2 DEF Counted
  <2> QED
    BY <1>9, <2>2, <2>3
<1> QED
  BY <1>6, <1>10, <1>11, <1>12 DEF Counted, Bounded

LEMMA CountedKept == ASSUME TypeOK, Traces, Counted, [Next]_vars PROVE Counted'
<1>0. \A e \in Executions : run[e] \in RunState /\ InPlan(run[e])
  BY DEF TypeOK
<1>1. ASSUME NEW e \in Executions, ExecuteSync(e) \/ Load(e) PROVE Counted'
  <2>1. Becomes(e, Started) /\ UNCHANGED <<workflow, row>>
    BY <1>1 DEF ExecuteSync, Load, Becomes
  <2> QED
    BY <2>1, StepCounts, StartedCounters
<1>2. ASSUME NEW e \in Executions, ExecuteAsync(e) PROVE Counted'
  <2>1. Becomes(e, [run[e] EXCEPT !.at = "queued"]) /\ UNCHANGED <<workflow, row>>
    BY <1>2 DEF ExecuteAsync, Becomes
  <2>2. ~Open([run[e] EXCEPT !.at = "queued"])
    BY <1>0, AtFields DEF Open
  <2> QED
    BY <2>1, <2>2, StepCounts
<1>3. ASSUME NEW e \in Executions, FireTrigger(e) PROVE Counted'
  <2>1. row[e].status = "absent" /\ row' = [row EXCEPT ![e] = PendingRow]
    BY <1>3 DEF FireTrigger, Traces, Origins
  <2>2. run'[e].at = "queued" /\ \A d \in Executions \ {e} : run'[d] = run[d]
    BY <1>3 DEF FireTrigger, TypeOK, RunState
  <2>3. workflow' = workflow /\ (Live' => Live)
    BY <1>3 DEF FireTrigger, Live
  <2> QED
    BY <2>1, <2>2, <2>3, PendingCounts, NothingStored DEF Open
<1>4. ASSUME NEW e \in Executions, CommitRequest(e) PROVE Counted'
  <2>1. row[e].status = "absent" /\ row' = [row EXCEPT ![e] = PendingRow]
    BY <1>4 DEF CommitRequest, Traces, Origins
  <2>2. run' = run /\ workflow' = workflow /\ (Live' => Live)
    BY <1>4 DEF CommitRequest, Live
  <2> QED
    BY <2>1, <2>2, PendingCounts, NothingStored
<1>5. ASSUME NEW e \in Executions, RollbackRequest(e) PROVE Counted'
  <2>1. run' = run /\ workflow' = workflow /\ row' = row /\ (Live' => Live)
    BY <1>5 DEF RollbackRequest, Live
  <2> QED
    BY <2>1, RowsUnchanged, NothingStored
<1>6. ASSUME NEW e \in Executions, NotFound(e) \/ WorkflowGone(e) \/ Raise(e) PROVE Counted'
  <2>1. PICK how \in Ended : End(e, how)
    BY <1>6 DEF NotFound, WorkflowGone, Raise, Ended
  <2>2. Becomes(e, [run[e] EXCEPT !.at = how]) /\ UNCHANGED <<workflow, row>>
    BY <2>1, EndBecomes DEF End
  <2>3. ~Open([run[e] EXCEPT !.at = how])
    <3>1. [run[e] EXCEPT !.at = how].at = how
      BY <1>0, AtFields
    <3> QED
      BY <3>1 DEF Open, Ended
  <2> QED
    BY <2>2, <2>3, StepCounts
<1>7. ASSUME NEW e \in Executions, NEW r, Becomes(e, r), UNCHANGED <<workflow, row>>,
             run[e].at = "running", r.total = run[e].total, r.failed = run[e].failed
      PROVE  Counted'
  BY <1>7, StepCounts DEF Open
<1>8. ASSUME NEW e \in Executions, SkipStep(e) PROVE Counted'
  <2>1. /\ Becomes(e, SkipOf(run[e])) /\ UNCHANGED <<workflow, row>> /\ run[e].at = "running"
    BY <1>8 DEF SkipStep, AtStep, Becomes, SkipOf
  <2>2. SkipOf(run[e]).total = run[e].total /\ SkipOf(run[e]).failed = run[e].failed
    BY <1>0, RecordFields, StepStatuses DEF SkipOf
  <2> QED
    BY <1>7, <2>1, <2>2
<1>9. ASSUME NEW e \in Executions, StepSucceeds(e) PROVE Counted'
  <2>1. Becomes(e, SuccessOf(run[e])) /\ UNCHANGED <<workflow, row>> /\ run[e].at = "running"
    BY <1>9, DispatchStep DEF StepSucceeds, Dispatch, AtStep, Becomes, SuccessOf
  <2>2. SuccessOf(run[e]).total = run[e].total /\ SuccessOf(run[e]).failed = run[e].failed
    BY <1>0, RecordFields, StepStatuses DEF SuccessOf
  <2> QED
    BY <1>7, <2>1, <2>2
<1>10. ASSUME NEW e \in Executions, AttemptFails(e) PROVE Counted'
  <2>1. Becomes(e, RetryOf(run[e])) /\ UNCHANGED <<workflow, row>> /\ run[e].at = "running"
    BY <1>10 DEF AttemptFails, Dispatch, AtStep, Becomes, RetryOf
  <2>2. RetryOf(run[e]).total = run[e].total /\ RetryOf(run[e]).failed = run[e].failed
    BY <1>0, RetryFields DEF RetryOf
  <2> QED
    BY <1>7, <2>1, <2>2
<1>11. ASSUME NEW e \in Executions, StepFails(e) PROVE Counted'
  <2>1. /\ Becomes(e, FailureOf(run[e])) /\ UNCHANGED <<workflow, row>>
        /\ run[e].at = "running" /\ run[e].next <= Len(run[e].plan)
    BY <1>11 DEF StepFails, Dispatch, AtStep, Becomes, FailureOf
  <2>2. FailureOf(run[e]).total = run[e].total /\ FailureOf(run[e]).failed = run[e].failed
    <3> DEFINE v == Record(run[e], "failed")
               h == Current(run[e]).handler
    <3>1. v \in RunState /\ v.total = run[e].total /\ v.failed = run[e].failed
      BY <1>0, RecordFields, StepStatuses
    <3>2. h \in Handlers
      BY <1>0, <2>1, HandlerOfStep
    <3> HIDE DEF v, h
    <3>3. Handled(h, v).total = v.total /\ Handled(h, v).failed = v.failed
      BY <3>1, <3>2, HandledFields
    <3> QED
      BY <3>1, <3>3 DEF v, h, FailureOf
  <2> QED
    BY <1>7, <2>1, <2>2
<1>12. ASSUME NEW e \in Executions, Commit(e) PROVE Counted'
  BY <1>12, CommitCounts
<1>13. CASE ServerStop
  <2>1. row' = row /\ workflow' = workflow /\ (Live' => Live)
    BY <1>13 DEF ServerStop, Live
  <2>2. ASSUME NEW e \in Executions, Open(run'[e]) PROVE run'[e] = run[e]
    <3>1. CASE run[e].at \in {"queued", "running", "halted"}
      <4>1. run'[e] = [run[e] EXCEPT !.at = "stopped"]
        BY <1>13, <3>1 DEF ServerStop
      <4>2. run'[e].at = "stopped"
        BY <1>0, <4>1 DEF RunState
      <4> QED
        BY <2>2, <4>2 DEF Open
    <3>2. CASE run[e].at \notin {"queued", "running", "halted"}
      BY <1>13, <3>2 DEF ServerStop
    <3> QED
      BY <3>1, <3>2
  <2> QED
    BY <2>1, <2>2, RowsUnchanged, NothingStored
<1>14. CASE UpdateWorkflow
  <2>1. row' = row /\ run' = run /\ Live
    BY <1>14 DEF UpdateWorkflow
  <2>2. workflow'.total = workflow.total /\ workflow'.failed = workflow.failed
    BY <1>14 DEF UpdateWorkflow, TypeOK, WorkflowState
  <2> QED
    BY <2>1, <2>2, RowsUnchanged, NothingStored
<1>15. CASE DeleteWorkflow
  <2>1. ~Live'
    BY <1>15 DEF DeleteWorkflow, Live, TypeOK, WorkflowState
  <2>2. StoredRows' \subseteq StoredRows
    BY <1>15 DEF DeleteWorkflow, StoredRows, Stored, NoRow, Final
  <2>3. IsFiniteSet(StoredRows')
    BY <2>2, FS_Subset DEF Counted
  <2> QED
    BY <2>1, <2>3 DEF Counted
<1>16. CASE UNCHANGED vars
  <2>1. row' = row /\ run' = run /\ workflow' = workflow /\ (Live' => Live)
    BY <1>16 DEF vars, Live
  <2> QED
    BY <2>1, RowsUnchanged, NothingStored
<1> QED
  BY <1>1, <1>2, <1>3, <1>4, <1>5, <1>6, <1>8, <1>9, <1>10, <1>11, <1>12, <1>13, <1>14, <1>15,
     <1>16 DEF Next, Start, CloseRequest, Proceed

LEMMA CountedAtFirst == Init => Counted
<1> SUFFICES ASSUME Init PROVE Counted
  OBVIOUS
<1>1. StoredRows = {} /\ FailedRows = {}
  BY DEF Init, StoredRows, FailedRows, Stored, NoRow, Final
<1>2. IsFiniteSet({}) /\ Cardinality({}) = 0
  BY FS_EmptySet
<1>3. workflow.total = 0 /\ workflow.failed = 0 /\ \A e \in Executions : ~Open(run[e])
  BY DEF Init, NotRun, Open
<1> QED
  BY <1>1, <1>2, <1>3 DEF Counted, Bounded

\* Overlapping executions may lose each other's counts, but however many there
\* are the statistics never claim one that is not stored.
THEOREM StatisticsLag == Spec => []StatisticsNeverOvercount
<1>1. Counted => StatisticsNeverOvercount
  BY DEF Counted, Bounded, StatisticsNeverOvercount, StoredRows, FailedRows
<1>2. Init => Counted
  BY CountedAtFirst
<1>3. TypeOK /\ Traces /\ Counted /\ [Next]_vars => Counted'
  BY CountedKept
<1> QED
  BY <1>1, <1>2, <1>3, Invariance, PTL DEF Spec
=============================================================================
