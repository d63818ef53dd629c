------------------------ MODULE MCWorkflowExecution ------------------------
(***************************************************************************)
(* A small instance of WorkflowExecution: every kind of step list with one *)
(* execution, and overlapping executions of short ones.                    *)
(***************************************************************************)
EXTENDS WorkflowExecution, TLC

CONSTANTS e1, e2

OneExecution == {e1}
TwoExecutions == {e1, e2}

Step(n, h) == [attempts |-> n, handler |-> h]
Stop == <<"stop">>
Continue == <<"continue">>
Goto(t) == <<"goto", t>>

\* Two steps with retries.
RetriedLists ==
  {<<Step(2, Stop), Step(1, Continue)>>, <<Step(1, Goto(2)), Step(2, Goto(1))>>}

\* Three steps; jumps backwards, onto itself, forwards and to a missing step.
ThreeSteps ==
  {<<Step(1, a), Step(1, b), Step(1, Stop)>> :
     a \in {Stop, Continue, Goto(1), Goto(2), Goto(3), Goto(4)},
     b \in {Stop, Continue, Goto(1), Goto(3)}}

ShortLists == {<<Step(1, Stop)>>, <<Step(2, Goto(1)), Step(1, Stop)>>}

OneStep == {<<Step(1, Stop)>>}

AllLists == ThreeSteps \cup RetriedLists \cup ShortLists

\* Two executions, and edits of any kind, where the lists are few; where they are
\* many, one execution, and edits that leave one of RetriedLists.
Small ==
  \/ {workflow.steps, workflow'.steps} \subseteq ShortLists
  \/ /\ workflow.steps \notin ShortLists
     /\ workflow'.steps \in {workflow.steps} \cup RetriedLists
     /\ origin'[e2] = "none"

SmallSpec == Init /\ [][Next /\ Small]_vars /\ Fairness
=============================================================================
