----------------------------- MODULE TaskBoard -----------------------------
(***************************************************************************)
(* core/task_board.py, core/task_graph.py: the statuses a task of          *)
(* task_plan.json moves through and what the board computes from them.     *)
(* A plan is two functions on task numbers (the position in the list):     *)
(* its status and the tasks it depends on.  "absent" is a number that no   *)
(* task has yet.                                                           *)
(***************************************************************************)
EXTENDS Naturals, FiniteSets

Statuses == {"backlog", "ready", "in_progress", "testing", "reviewing",
             "blocked", "done", "discarded"}

\* ALLOWED_TRANSITIONS: update_status raises on anything else.
Allowed == [s \in Statuses |->
    CASE s = "backlog"     -> {"ready", "discarded"}
      [] s = "ready"       -> {"in_progress", "blocked", "discarded"}
      [] s = "in_progress" -> {"testing", "blocked", "discarded", "ready"}
      [] s = "testing"     -> {"reviewing", "blocked", "in_progress", "discarded"}
      [] s = "reviewing"   -> {"done", "blocked", "in_progress", "discarded"}
      [] s = "blocked"     -> {"ready", "discarded"}
      [] OTHER             -> {}]

\* Mutant: whatever is over, for good or not, counts as done.
DoneOrOver(status) == {t \in DOMAIN status : status[t] \in {"done", "discarded", "blocked"}}

Done(status) == {t \in DOMAIN status : status[t] = "done"}

\* ready_tasks, ready_nodes, _ready_count: the same filter in three places.
ReadyTasks(status, deps) ==
    {t \in DOMAIN status : status[t] = "ready" /\ deps[t] \subseteq Done(status)}

\* select_serial: the first n ready tasks of the list.
FirstReady(status, deps, n) ==
    LET ready == ReadyTasks(status, deps)
    IN  {t \in ready : Cardinality({u \in ready : u <= t}) <= n}

\* promote_unblocked: a waiting task whose dependencies are done is ready.
Promoted(status, deps) ==
    [t \in DOMAIN status |->
        IF status[t] = "backlog" /\ deps[t] \subseteq Done(status)
        THEN "ready" ELSE status[t]]

\* The hops of complete_task, each saved on its own.
Hop(s) == CASE s = "in_progress" -> "testing"
            [] s = "testing"     -> "reviewing"
            [] s = "reviewing"   -> "done"

\* What finalize calls active, and when the plan is resolved.
Active(status) == {t \in DOMAIN status : status[t] \notin {"absent", "discarded"}}
Resolved(status) == Active(status) # {} /\ Active(status) \subseteq Done(status)
=============================================================================
