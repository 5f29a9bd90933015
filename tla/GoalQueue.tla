----------------------------- MODULE GoalQueue -----------------------------
(* goal_queue.json, the supervised loops that work it off and the `accept` *)
(* commands that tick its goals.  Every operation reads the whole file,    *)
(* edits its copy and replaces the file, under no lock.                    *)
EXTENDS Naturals, FiniteSets

CONSTANTS
    Loop,       \* processes in run_supervised_goal_loop
    User,       \* `accept` commands typed by the user
    LastGoal,   \* goals are 1..LastGoal, in the order of the queue
    LastRun,    \* bound: runs are 1..LastRun
    MaxDeaths   \* bound

Proc == Loop \cup User
Goal == 1..LastGoal
Run  == 1..LastRun

ASSUME QueueAssumption ==
    /\ Loop \cap User = {}
    /\ LastGoal \in Nat
    /\ LastRun \in Nat \ {0}
    /\ MaxDeaths \in Nat

VARIABLES
    queue,      \* status and linked runs of each goal
    runs,       \* runs 1..runs have ended; run 1 is older than the queue
    accepted,   \* history: runs that were ever accepted
    job,        \* what each process is at
    crossed,    \* history: two processes were between a read and its write
    stray,      \* history: a run was accepted that no goal was linked to
    deaths

vars == <<queue, runs, accepted, job, crossed, stray, deaths>>

Item  == [status : {"pending", "in_progress", "done"}, linked : SUBSET Run]
Queue == [Goal -> Item]
Fresh == [g \in Goal |-> [status |-> "pending", linked |-> {}]]

\* pc "mark", "link", "done" and "release" are operations of GoalQueueStore;
\* half way, copy is what the operation is going to write.
Idle == [pc |-> "idle", goal |-> 0, run |-> 0, half |-> FALSE, copy |-> Fresh]
Operations == {"mark", "link", "done", "release"}

Init ==
    /\ queue = Fresh
    /\ runs = 1
    /\ accepted = {}
    /\ job = [p \in Proc |-> Idle]
    /\ crossed = FALSE
    /\ stray = FALSE
    /\ deaths = 0

-----------------------------------------------------------------------------
(* GoalQueueStore *)

First(S) == {g \in S : \A h \in S : g <= h}
In(s)    == {g \in Goal : queue[g].status = s}

\* Mutant: an abandoned goal is taken up again.
NextOpen == First(In("pending") \cup In("in_progress"))

\* next_pending, as a set: empty when the queue is worked off.
NextPending == First(In("pending"))

LinkedTo(r) == {g \in Goal : r \in queue[g].linked}

\* _find_queue_item_for_run
TargetOf(r) ==
    IF LinkedTo(r) # {} THEN First(LinkedTo(r))
    ELSE IF In("in_progress") # {} THEN First(In("in_progress"))
    ELSE First(In("pending"))

\* Mutant: the run that ticked the goal is not noted.
UnlinkedDone(r) == [g \in Goal |->
    IF g \in TargetOf(r) THEN [queue[g] EXCEPT !.status = "done"] ELSE queue[g]]

MarkedDone(r) == [g \in Goal |->
    IF g \in TargetOf(r) THEN [status |-> "done", linked |-> queue[g].linked \cup {r}]
    ELSE queue[g]]

\* Mutant: whatever the goal is by now.
ReleasedAnyway(g) == [queue EXCEPT ![g].status = "pending"]

\* release_in_progress
Released(g) ==
    [queue EXCEPT ![g].status = IF @ = "in_progress" THEN "pending" ELSE @]

Edited(j) ==
    CASE j.pc = "mark"    -> [queue EXCEPT ![j.goal].status = "in_progress"]
      [] j.pc = "link"    -> [queue EXCEPT ![j.goal].linked = @ \cup {j.run}]
      [] j.pc = "release" -> Released(j.goal)
      [] j.pc = "done"    -> MarkedDone(j.run)

\* Where the process goes from the operation: a loop accepts what it linked,
\* counts what was accepted and stops after a release.
After(p) ==
    CASE job[p].pc = "mark" -> [job[p] EXCEPT !.pc = "running"]
      [] job[p].pc = "link" -> [job[p] EXCEPT !.pc = "linked"]
      [] job[p].pc = "done" /\ p \in Loop -> [job[p] EXCEPT !.pc = "counted"]
      [] OTHER -> Idle

\* Whom p meets half way, when it reads what it will act on.
Crosses(p) == \E o \in Proc \ {p} : job[o].half \/ job[o].pc = "mark"

\* release and done leave the file alone when there is nothing to change.
Writes(j) == j.pc \in {"mark", "link"} \/ Edited(j) # queue

Read(p) ==
    /\ job[p].pc \in Operations
    /\ ~job[p].half
    /\ IF Writes(job[p])
       THEN /\ job' = [job EXCEPT ![p].half = TRUE, ![p].copy = Edited(job[p])]
            /\ crossed' = (crossed \/ Crosses(p))
       ELSE /\ job' = [job EXCEPT ![p] = After(p)]
            /\ UNCHANGED crossed
    /\ UNCHANGED <<queue, runs, accepted, stray, deaths>>

Write(p) ==
    /\ job[p].half
    /\ queue' = job[p].copy
    /\ job' = [job EXCEPT ![p] = [After(p) EXCEPT !.half = FALSE, !.copy = Fresh]]
    /\ UNCHANGED <<runs, accepted, crossed, stray, deaths>>

-----------------------------------------------------------------------------
(* run_supervised_goal_loop; a loop that stopped may be started again *)

Goes(p, new) == job' = [job EXCEPT ![p] = new]

Take(l) ==
    /\ job[l].pc = "idle"
    /\ \E g \in NextPending : Goes(l, [Idle EXCEPT !.pc = "mark", !.goal = g])
    /\ crossed' = (crossed \/ Crosses(l))
    /\ UNCHANGED <<queue, runs, accepted, stray, deaths>>

\* slice_runner: RunCommand in mode "goal".
Slice(l) ==
    /\ job[l].pc = "running"
    /\ runs < LastRun
    /\ runs' = runs + 1
    /\ Goes(l, [job[l] EXCEPT !.pc = "link", !.run = runs + 1])
    /\ UNCHANGED <<queue, accepted, crossed, stray, deaths>>

\* The budget hard stop, a run that is blocked or paused, a refused accept.
GiveUp(l) ==
    /\ job[l].pc = "linked"
    /\ Goes(l, [job[l] EXCEPT !.pc = "release"])
    /\ UNCHANGED <<queue, runs, accepted, crossed, stray, deaths>>

\* "awaiting_accept": the goal is left to the user.
Await(l) ==
    /\ job[l].pc = "linked"
    /\ Goes(l, Idle)
    /\ UNCHANGED <<queue, runs, accepted, crossed, stray, deaths>>

\* AcceptCommand with no blockers, up to mark_done_for_run.
Accept(p, r) ==
    /\ accepted' = accepted \cup {r}
    /\ stray' = (stray \/ LinkedTo(r) = {})
    /\ Goes(p, [job[p] EXCEPT !.pc = "done", !.run = r])
    /\ UNCHANGED <<queue, runs, crossed, deaths>>

AcceptSlice(l) == job[l].pc = "linked" /\ Accept(l, job[l].run)

AcceptRun(u) == job[u].pc = "idle" /\ \E r \in 1..runs : Accept(u, r)

\* slices_completed += 1
Count(l) ==
    /\ job[l].pc = "counted"
    /\ Goes(l, Idle)
    /\ UNCHANGED <<queue, runs, accepted, crossed, stray, deaths>>

\* A crash; also an exception of RunCommand, which nobody catches.
Dies(p) ==
    /\ job[p].pc # "idle"
    /\ deaths < MaxDeaths
    /\ deaths' = deaths + 1
    /\ Goes(p, Idle)
    /\ UNCHANGED <<queue, runs, accepted, crossed, stray>>

LoopStep(l) == Take(l) \/ Slice(l) \/ GiveUp(l) \/ Await(l) \/ AcceptSlice(l) \/ Count(l)

Next ==
    \/ \E l \in Loop : LoopStep(l)
    \/ \E u \in User : AcceptRun(u)
    \/ \E p \in Proc : Read(p) \/ Write(p) \/ Dies(p)

Spec == Init /\ [][Next]_vars

-----------------------------------------------------------------------------
(* Properties *)

TypeOK ==
    /\ queue \in Queue
    /\ runs \in Run
    /\ accepted \subseteq 1..runs
    /\ job \in [Proc -> [pc : Operations \cup {"idle", "running", "linked", "counted"},
                         goal : 0..LastGoal, run : 0..LastRun,
                         half : BOOLEAN, copy : Queue]]
    /\ crossed \in BOOLEAN
    /\ stray \in BOOLEAN
    /\ deaths \in 0..MaxDeaths

\* A goal is done only with a run that was accepted linked to it, whoever read
\* and wrote the queue in whatever order, and whoever died.
DoneHasAcceptedRun ==
    \A g \in Goal : queue[g].status = "done" => queue[g].linked \cap accepted # {}

\* Unless two read-change-writes met, a goal that is done is not taken up
\* again and not released, by a loop that was still at it when it was ticked.
DoneIsFinal ==
    [][~crossed' => \A g \in Goal :
         queue[g].status = "done" => queue'[g].status = "done"]_vars

\* Unless two read-change-writes met, two loops are never at the same goal.
OneLoopPerGoal ==
    ~crossed => \A k, l \in Loop :
        job[k].goal = job[l].goal /\ job[k].pc = "running" /\ job[l].pc = "running" => k = l

\* A slice that a loop counts as completed ticked the goal of this loop, unless
\* two read-change-writes met or a run was accepted that had no goal yet.
CountedIsDone ==
    ~crossed /\ ~stray =>
        \A l \in Loop : job[l].pc = "counted" => queue[job[l].goal].status = "done"
=============================================================================
