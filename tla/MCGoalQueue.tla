---------------------------- MODULE MCGoalQueue ----------------------------
(* Two loops and an accept; and statements that the model refutes, which   *)
(* no run checks (the README tells the behaviours).                        *)
EXTENDS GoalQueue, TLC

\* The same without the exception for an accept of a run without a goal.
CountedIsDoneAnyway ==
    ~crossed => \A l \in Loop : job[l].pc = "counted" => queue[job[l].goal].status = "done"

\* A run counts for one goal.
OneGoalPerRun == ~crossed => \A r \in Run : Cardinality(LinkedTo(r)) <= 1

\* A goal in progress has a loop at it, or a run that waits for its accept.
InProgressIsCared == ~crossed => \A g \in In("in_progress") :
    \/ queue[g].linked # {}
    \/ \E l \in Loop : job[l].goal = g

\* bound: no death in a behaviour in which two operations met.
OneFault == crossed => deaths = 0

Alike == Permutations(Loop) \cup Permutations(User)
=============================================================================
