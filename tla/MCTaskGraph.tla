---------------------------- MODULE MCTaskGraph ----------------------------
(***************************************************************************)
(* Instances of TaskGraph for TLC: a two-task chain over two revisions, a  *)
(* revision that is taken back, and a single task.                         *)
(***************************************************************************)
EXTENDS TaskGraph, TLC

CONSTANTS a, b, x, y, v, w

Chain(rev, bodyA, bodyB) ==
  [revision |-> rev, tasks |-> <<a, b>>,
   body |-> (a :> bodyA @@ b :> bodyB), inputs |-> (a :> {} @@ b :> {a})]
Single(rev, bodyA) ==
  [revision |-> rev, tasks |-> <<a>>, body |-> (a :> bodyA), inputs |-> (a :> {})]

\* Revision 1 lists the dependent task before its dependency.  Revision 2
\* changes the first task, and the second may be reused, or it takes the second
\* out, and the first, outside its impact, keeps its result.
Reversed == [Chain(1, x, x) EXCEPT !.tasks = <<b, a>>]
Shortened == [Chain(2, x, x) EXCEPT !.tasks = <<a>>]
ChangedPlans == {Reversed, Chain(2, y, x), Shortened}
SettlingPlans == {Reversed, Shortened}
\* Revision 3 restores the definitions of revision 1.
RevertedPlans == {Chain(1, x, x), Chain(2, y, x), Chain(3, x, x)}
SinglePlan == {Single(1, x)}

Symmetry == Permutations(Operator)
=============================================================================
