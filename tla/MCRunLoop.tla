----------------------------- MODULE MCRunLoop -----------------------------
(* Plans for TLC, and statements of the sources that the model refutes as  *)
(* well; no run checks them, the README tells the behaviours.              *)
EXTENDS RunLoop

Chain == [t \in 1..Planned |-> IF t = 1 THEN {} ELSE {t - 1}]
Free  == [t \in 1..Planned |-> {}]
Cycle2 == [t \in 1..Planned |-> IF t = 1 THEN {Planned} ELSE {t - 1}]

OnlyChain == {Chain}
OnlyFree  == {Free}
Both      == {Chain, Free}
OnlyCycle == {Cycle2}

\* A run that ended completed did all its tasks (OnlyCycle).
EndedCompletedIsResolved ==
    pc = "off" /\ ended = "clean" /\ run.status = "completed" => Resolved(status)

\* Resume declines only a run whose tasks are done (MaxCrashes = 1).
DeclinesOnlyResolved ==
    [][pc = "resumed" /\ pc' = "off" /\ ended' = "clean" => Resolved(status)]_vars

\* After "continue once" the next iteration is spent before a new question
\* (MaxStarts = 3, Limit = 3, HardStopAt = 2).
ContinueOnceSpends ==
    [][pc = "iterate" /\ Len(decisions') > Len(decisions)
        => \A i \in mem.applied :
             ~(decisions[i].kind = "budget" /\ decisions[i].answer = "yes")]_vars

\* A task that only ran out of rounds is continued while it may be (OnlyFree).
FuseIsContinued ==
    [][pc = "after" /\ pc' = "outer" /\ mem.paused = {} /\ Rings /\ mem.blocked = "fuse"
        => ~MayContinue]_vars

\* The task that a "create repair task" answer adds does not wait for the very
\* task it is to repair (MaxRepairs = 1).
RepairCanStart ==
    \A t \in Task : asked[t] # 0 => decisions[asked[t]].task \notin deps[t]

\* A task the user keeps for inspection, and whose execution he has not
\* approved again, is not replaced behind his back (OnlyFree).
ManualReviewHolds ==
    [][\A t \in Task, i \in DOMAIN decisions :
        /\ decisions[i].kind = "repair" /\ decisions[i].task = t
        /\ decisions[i].answer = "no"
        /\ \A j \in DOMAIN decisions :
             decisions[j].task = t => decisions[j].answer = "no"
        => ~(status[t] = "blocked" /\ status'[t] = "discarded")]_vars

\* At or past the hard stop no blocked task is driven again (OnlyFree).
NoContinuePastHardStop ==
    [][pc = "after" /\ pc' = "cycle" /\ mem'.continues # mem.continues
        => ~AtHardStop]_vars

\* Once a repair has replaced a task, no crash leaves an unfinished task
\* waiting for the replaced one (OnlyChain, MaxCrashes = 1).
RewiredAtomically ==
    pc = "off" => \A t \in Task, d \in Task :
        status[t] \notin {"absent", "done", "discarded"} /\ d \in deps[t]
            => status[d] # "discarded"

\* A run that was executed and is recorded completed has no task still to do
\* (OnlyFree, MaxStarts = 3, MaxIterations = 1, MaxCycles = 6, MaxRounds = 1,
\* MaxReplans = 2, MaxTask = 9, Limit = HardStopAt = 50; some eighty steps).
CompletedNeverReopens ==
    run.status = "completed" /\ run.phase # "PLAN" => Resolved(status)
=============================================================================
