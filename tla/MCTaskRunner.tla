---------------------------- MODULE MCTaskRunner ----------------------------
(***************************************************************************)
(* Instances of TaskRunner for TLC: a task-agent Task has one mount without *)
(* repositories; a plain Task has two mounts, the second one with one and   *)
(* a goal; the mounts of another plain Task share their marker.             *)
(***************************************************************************)
EXTENDS TaskRunner

Files(path) == [path |-> path, git |-> FALSE, goal |-> FALSE]
Repository(path) == [path |-> path, git |-> TRUE, goal |-> FALSE]

AgentTask == [extension |-> TRUE, mounts |-> <<Files(<<"w", "/", "a">>)>>]
PlainTask == [extension |-> FALSE,
  mounts |-> <<Files(<<"w", "/", "a">>),
               [Repository(<<"w", "/", "b">>) EXCEPT !.goal = TRUE]>>]
CollidingTask == [extension |-> FALSE,
  mounts |-> <<Files(<<"a", "-", "b">>), Repository(<<"a", "/", "b">>)>>]

AllTasks == {AgentTask, PlainTask, CollidingTask}
\* The markers of a plain Task go with its container: a second suspension finds
\* what the first one found.
Stops == [t \in AllTasks |-> IF t.extension THEN 2 ELSE 1]

PlainTasks == {PlainTask}
NoStops == [t \in PlainTasks |-> 0]
=============================================================================
