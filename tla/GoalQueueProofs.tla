-------------------------- MODULE GoalQueueProofs --------------------------
(* What holds of goal_queue.json for any number of loops, accepts, goals,  *)
(* runs and deaths.  Three invariants, each on top of the one before:      *)
(* Basic types the state, SoundInv says that nobody writes a goal as done  *)
(* without an accepted run, SerialInv says what holds as long as no two    *)
(* read-change-writes have met, and TickInv what then holds of the links.  *)
EXTENDS GoalQueue, TLAPS

Stages == Operations \cup {"idle", "running", "linked", "counted"}

\* Which process may be at which operation, and with what run and goal.
JobInv ==
    \A p \in Proc :
        /\ job[p].half => job[p].pc \in Operations
        /\ job[p].pc \notin {"idle", "done"} => p \in Loop
        /\ p \in Loop /\ job[p].pc # "idle" => job[p].goal \in Goal
        /\ job[p].pc \in {"link", "linked"} => job[p].run \in 1..runs
        /\ job[p].pc = "done" => job[p].run \in accepted

Basic == TypeOK /\ JobInv

\* Every goal that is done in q has a run that was accepted.
DoneIn(q) == \A g \in Goal : q[g].status = "done" => q[g].linked \cap accepted # {}

SoundInv == DoneIn(queue) /\ \A p \in Proc : DoneIn(job[p].copy)

-----------------------------------------------------------------------------
(* The operators of the queue *)

LEMMA FirstIn == ASSUME NEW S PROVE First(S) \subseteq S
  BY DEF First

LEMMA TargetIsGoal == ASSUME NEW r PROVE TargetOf(r) \subseteq Goal
  BY DEF TargetOf, First, LinkedTo, In

\* What each operation writes, goal by goal.
LEMMA EditedAt ==
  ASSUME Basic, NEW p \in Proc, job[p].pc \in Operations
  PROVE  /\ Edited(job[p]) \in Queue
         /\ job[p].pc = "mark" => \A g \in Goal :
              /\ Edited(job[p])[g].linked = queue[g].linked
              /\ g # job[p].goal => Edited(job[p])[g].status = queue[g].status
              /\ g = job[p].goal => Edited(job[p])[g].status = "in_progress"
         /\ job[p].pc = "link" => \A g \in Goal :
              /\ Edited(job[p])[g].status = queue[g].status
              /\ g # job[p].goal => Edited(job[p])[g].linked = queue[g].linked
              /\ g = job[p].goal =>
                   Edited(job[p])[g].linked = queue[g].linked \cup {job[p].run}
         /\ job[p].pc = "release" => \A g \in Goal :
              /\ Edited(job[p])[g].linked = queue[g].linked
              /\ g # job[p].goal => Edited(job[p])[g].status = queue[g].status
              /\ queue[g].status = "done" => Edited(job[p])[g].status = "done"
         /\ job[p].pc = "done" => \A g \in Goal :
              /\ g \notin TargetOf(job[p].run) => Edited(job[p])[g] = queue[g]
              /\ g \in TargetOf(job[p].run) =>
                   /\ Edited(job[p])[g].status = "done"
                   /\ Edited(job[p])[g].linked = queue[g].linked \cup {job[p].run}
<1>0. /\ queue \in [Goal -> Item]
      /\ \A g \in Goal : /\ queue[g].status \in {"pending", "in_progress", "done"}
                         /\ queue[g].linked \in SUBSET Run
                         /\ queue[g] = [status |-> queue[g].status, linked |-> queue[g].linked]
  BY DEF Basic, TypeOK, Queue, Item
<1>1. CASE job[p].pc = "mark"
  <2>1. Edited(job[p]) = [g \in Goal |-> IF g = job[p].goal
          THEN [status |-> "in_progress", linked |-> queue[g].linked] ELSE queue[g]]
    <3>1. Edited(job[p]) = [queue EXCEPT ![job[p].goal].status = "in_progress"]
      BY <1>1 DEF Edited
    <3>2. job[p].goal \in Goal
      BY <1>1 DEF Basic, JobInv
    <3> QED
      BY <1>0, <3>1, <3>2
  <2> QED
    BY <1>0, <1>1, <2>1 DEF Queue, Item
<1>2. CASE job[p].pc = "link"
  <2>1. job[p].run \in Run
    BY <1>2, QueueAssumption DEF Basic, TypeOK, JobInv, Run
  <2>2. job[p].goal \in Goal
    BY <1>2 DEF Basic, JobInv
  <2>3. Edited(job[p]) = [g \in Goal |-> IF g = job[p].goal
          THEN [status |-> queue[g].status, linked |-> queue[g].linked \cup {job[p].run}]
          ELSE queue[g]]
    <3>1. Edited(job[p]) = [queue EXCEPT ![job[p].goal].linked = @ \cup {job[p].run}]
      BY <1>2 DEF Edited
    <3> QED
      BY <1>0, <2>2, <3>1
  <2>4. \A g \in Goal : queue[g].linked \cup {job[p].run} \in SUBSET Run
    BY <1>0, <2>1
  <2> QED
    BY <1>0, <1>2, <2>3, <2>4 DEF Queue, Item
<1>3. CASE job[p].pc = "release"
  <2>1. job[p].goal \in Goal
    BY <1>3 DEF Basic, JobInv
  <2>2. Edited(job[p]) = [g \in Goal |-> IF g = job[p].goal /\ queue[g].status = "in_progress"
          THEN [status |-> "pending", linked |-> queue[g].linked]
          ELSE queue[g]]
    <3>1. Edited(job[p]) = [queue EXCEPT ![job[p].goal].status =
                              IF @ = "in_progress" THEN "pending" ELSE @]
      BY <1>3 DEF Edited, Released
    <3>2. CASE queue[job[p].goal].status = "in_progress"
      <4>1. Edited(job[p]) = [queue EXCEPT ![job[p].goal] =
              [queue[job[p].goal] EXCEPT !.status = "pending"]]
        BY <2>1, <3>1, <3>2
      <4>2. [queue[job[p].goal] EXCEPT !.status = "pending"]
              = [status |-> "pending", linked |-> queue[job[p].goal].linked]
        BY <1>0, <2>1
      <4>3. Edited(job[p]) = [g \in Goal |-> IF g = job[p].goal
              THEN [status |-> "pending", linked |-> queue[job[p].goal].linked] ELSE queue[g]]
        BY <1>0, <4>1, <4>2
      <4> QED
        BY <3>2, <4>3
    <3>3. CASE queue[job[p].goal].status # "in_progress"
      <4>1. Edited(job[p]) = [queue EXCEPT ![job[p].goal] =
              [queue[job[p].goal] EXCEPT !.status = queue[job[p].goal].status]]
        BY <2>1, <3>1, <3>3
      <4>2. [queue[job[p].goal] EXCEPT !.status = queue[job[p].goal].status]
              = queue[job[p].goal]
        BY <1>0, <2>1
      <4> QED
        BY <1>0, <2>1, <3>3, <4>1, <4>2
    <3> QED
      BY <3>2, <3>3
  <2> QED
    BY <1>0, <1>3, <2>2 DEF Queue, Item
<1>4. CASE job[p].pc = "done"
  <2>1. job[p].run \in Run
    BY <1>4, QueueAssumption DEF Basic, TypeOK, JobInv, Run
  <2>2. Edited(job[p]) = MarkedDone(job[p].run)
    BY <1>4 DEF Edited
  <2> QED
    BY <1>0, <1>4, <2>1, <2>2 DEF MarkedDone, Queue, Item
<1> QED
  BY <1>1, <1>2, <1>3, <1>4 DEF Operations

-----------------------------------------------------------------------------
(* The steps: the queue changes only in a write *)

LEMMA QueueWriters ==
  ASSUME [Next]_vars
  PROVE  \/ UNCHANGED queue
         \/ \E p \in Proc : Write(p)
  BY DEF Next, vars, LoopStep, Take, Slice, GiveUp, Await, AcceptSlice, AcceptRun,
         Accept, Count, Dies, Read

\* Where an operation lets its process go.
LEMMA AfterAt ==
  ASSUME Basic, NEW p \in Proc, job[p].pc \in Operations
  PROVE  /\ After(p).pc \in {"idle", "running", "linked", "counted"}
         /\ After(p) = [pc |-> After(p).pc, goal |-> After(p).goal, run |-> After(p).run,
                        half |-> After(p).half, copy |-> After(p).copy]
         /\ After(p).half = job[p].half \/ After(p).half = FALSE
         /\ After(p).copy = job[p].copy \/ After(p).copy = Fresh
         /\ After(p).pc # "idle" =>
              p \in Loop /\ After(p).goal = job[p].goal /\ After(p).run = job[p].run
         /\ After(p).pc = "running" <=> job[p].pc = "mark"
         /\ After(p).pc = "linked" <=> job[p].pc = "link"
         /\ After(p).pc = "counted" <=> (job[p].pc = "done" /\ p \in Loop)
         /\ After(p).pc = "idle" => After(p) = Idle
<1>1. job[p] = [pc |-> job[p].pc, goal |-> job[p].goal, run |-> job[p].run,
                half |-> job[p].half, copy |-> job[p].copy]
  BY DEF Basic, TypeOK
<1>2. CASE job[p].pc = "mark"
  BY <1>1, <1>2 DEF After, Basic, JobInv
<1>3. CASE job[p].pc = "link"
  BY <1>1, <1>3 DEF After, Basic, JobInv
<1>4. CASE job[p].pc = "done"
  BY <1>1, <1>4 DEF After, Idle
<1>5. CASE job[p].pc = "release"
  BY <1>5 DEF After, Idle
<1> QED
  BY <1>2, <1>3, <1>4, <1>5 DEF Operations

-----------------------------------------------------------------------------
(* Types, and who is at what *)

LEMMA FreshIsQueue == Fresh \in Queue /\ DoneIn(Fresh)
  BY DEF Fresh, Queue, Item, DoneIn

Job == [pc : Stages, goal : 0..LastGoal, run : 0..LastRun, half : BOOLEAN, copy : Queue]

LEMMA BasicStarts == Init => Basic
<1> SUFFICES ASSUME Init PROVE Basic
  OBVIOUS
<1>1. Idle \in Job
  BY FreshIsQueue, QueueAssumption DEF Job, Stages, Operations, Idle
<1>2. job \in [Proc -> Job]
  BY <1>1 DEF Init
<1>3. runs \in Run /\ accepted \subseteq 1..runs /\ deaths \in 0..MaxDeaths
  BY QueueAssumption DEF Init, Run
<1>4. crossed \in BOOLEAN /\ stray \in BOOLEAN /\ queue \in Queue
  BY FreshIsQueue DEF Init
<1>5. JobInv
  BY DEF Init, JobInv, Idle
<1> QED
  BY <1>2, <1>3, <1>4, <1>5 DEF Basic, TypeOK, Job, Stages

LEMMA StagePut ==
  ASSUME NEW j \in Job, NEW l \in Stages, NEW new, new = [j EXCEPT !.pc = l]
  PROVE  /\ new \in Job /\ new.pc = l /\ new.goal = j.goal /\ new.run = j.run
         /\ new.half = j.half /\ new.copy = j.copy
  BY DEF Job

\* What Basic asks of the files and of the job new of process p.
Bounded ==
    /\ queue' \in Queue /\ runs' \in Run /\ runs <= runs'
    /\ accepted' \subseteq 1..runs' /\ accepted \subseteq accepted'
    /\ crossed' \in BOOLEAN /\ stray' \in BOOLEAN /\ deaths' \in 0..MaxDeaths

Fits(p, new) ==
    /\ new.half => new.pc \in Operations
    /\ new.pc \notin {"idle", "done"} => p \in Loop
    /\ p \in Loop /\ new.pc # "idle" => new.goal \in Goal
    /\ new.pc \in {"link", "linked"} => new.run \in 1..runs'
    /\ new.pc = "done" => new.run \in accepted'

LEMMA BasicByJob ==
  ASSUME Basic, NEW p \in Proc, NEW new \in Job,
         job' = [job EXCEPT ![p] = new], Bounded, Fits(p, new)
  PROVE  Basic'
<1>1. job \in [Proc -> Job] /\ runs \in Run
  BY DEF Basic, TypeOK, Job, Stages
<1>2. job' \in [Proc -> Job]
  BY <1>1
<1>3. TypeOK'
  BY <1>2 DEF TypeOK, Job, Stages, Bounded
<1>4. \A q \in Proc : q # p => job'[q] = job[q]
  BY <1>1
<1>5. job'[p] = new
  BY <1>1
<1>6. \A q \in Proc : job[q].run \in 1..runs => job[q].run \in 1..runs'
  BY <1>1, QueueAssumption DEF Job, Run, Bounded
<1>7. JobInv'
  <2> SUFFICES ASSUME NEW q \in Proc PROVE JobInv!(q)'
    BY DEF JobInv
  <2>1. CASE q = p
    BY <1>5, <2>1 DEF Fits
  <2>2. CASE q # p
    BY <1>4, <1>6, <2>2 DEF JobInv, Basic, Bounded
  <2> QED
    BY <2>1, <2>2
<1> QED
  BY <1>3, <1>7 DEF Basic

LEMMA BoundedIfKept ==
  ASSUME Basic, queue' \in Queue, UNCHANGED <<runs, accepted, stray>>,
         crossed' \in BOOLEAN, deaths' \in 0..MaxDeaths
  PROVE  Bounded
  BY QueueAssumption DEF Basic, TypeOK, Bounded, Run

LEMMA AfterIsJob ==
  ASSUME Basic, NEW p \in Proc, job[p].pc \in Operations
  PROVE  After(p) \in Job /\ (job[p].half = FALSE => After(p).half = FALSE)
<1>1. job[p] \in Job
  BY DEF Basic, TypeOK, Job, Stages
<1>2. /\ After(p).goal \in 0..LastGoal /\ After(p).run \in 0..LastRun
      /\ After(p).pc \in Stages
  <2>1. CASE After(p).pc = "idle"
    <3>1. After(p) = Idle
      BY <2>1, AfterAt
    <3> QED
      BY <3>1, QueueAssumption DEF Idle, Stages
  <2>2. CASE After(p).pc # "idle"
    BY <1>1, <2>2, AfterAt DEF Job, Stages
  <2> QED
    BY <2>1, <2>2
<1>3. After(p).half \in BOOLEAN /\ After(p).copy \in Queue
  BY <1>1, AfterAt, FreshIsQueue DEF Job
<1>4. After(p) = [pc |-> After(p).pc, goal |-> After(p).goal, run |-> After(p).run,
                  half |-> After(p).half, copy |-> After(p).copy]
  BY AfterAt
<1>5. After(p) \in Job
  BY <1>2, <1>3, <1>4 DEF Job
<1> QED
  BY <1>5, AfterAt

LEMMA BasicKept == Basic /\ [Next]_vars => Basic'
<1> SUFFICES ASSUME Basic, [Next]_vars PROVE Basic'
  OBVIOUS
<1> USE DEF Goes
<1>1. /\ job \in [Proc -> Job] /\ queue \in Queue /\ runs \in Run
      /\ accepted \subseteq 1..runs /\ deaths \in 0..MaxDeaths
  BY DEF Basic, TypeOK, Job, Stages
<1>2. crossed \in BOOLEAN /\ stray \in BOOLEAN
  BY DEF Basic, TypeOK
<1>3. Idle \in Job /\ \A p \in Proc : Fits(p, Idle)
  BY FreshIsQueue, QueueAssumption DEF Idle, Job, Stages, Operations, Fits
<1>4. ASSUME NEW l \in Loop, Take(l) PROVE Basic'
  <2>1. PICK g, new : /\ g \in NextPending
                      /\ new = [Idle EXCEPT !.pc = "mark", !.goal = g]
                      /\ job' = [job EXCEPT ![l] = new]
    BY <1>4 DEF Take
  <2>2. g \in Goal
    BY <2>1 DEF NextPending, First, In
  <2>3. new = [pc |-> "mark", goal |-> g, run |-> 0, half |-> FALSE, copy |-> Fresh]
    BY <2>1 DEF Idle
  <2>4. new \in Job /\ Fits(l, new)
    BY <2>2, <2>3, FreshIsQueue, QueueAssumption DEF Job, Stages, Operations, Goal, Fits
  <2>5. Bounded
    BY <1>1, <1>2, <1>4, BoundedIfKept DEF Take, Crosses
  <2> QED
    BY <2>1, <2>4, <2>5, BasicByJob DEF Proc
<1>5. ASSUME NEW l \in Loop, Slice(l) PROVE Basic'
  <2>1. /\ runs + 1 \in 0..LastRun /\ l \in Proc /\ job[l] \in Job
        /\ job[l].goal \in Goal /\ job[l].half = FALSE
    BY <1>1, <1>5, QueueAssumption DEF Slice, Run, Proc, Basic, JobInv, Operations, Job
  <2>2. PICK new : /\ new = [job[l] EXCEPT !.pc = "link", !.run = runs + 1]
                   /\ job' = [job EXCEPT ![l] = new]
    BY <1>5 DEF Slice
  <2>3. new \in Job /\ new.pc = "link" /\ new.goal = job[l].goal
        /\ new.run = runs + 1 /\ new.half = FALSE
    BY <2>1, <2>2 DEF Job, Stages, Operations
  <2>4. Fits(l, new)
    BY <1>1, <1>5, <2>1, <2>3 DEF Slice, Fits, Run
  <2>5. Bounded
    BY <1>1, <1>2, <1>5, QueueAssumption DEF Slice, Bounded, Run
  <2> QED
    BY <2>1, <2>2, <2>3, <2>4, <2>5, BasicByJob
<1>6. ASSUME NEW l \in Loop, GiveUp(l) PROVE Basic'
  <2>1. l \in Proc /\ job[l] \in Job /\ job[l].goal \in Goal /\ job[l].half = FALSE
    BY <1>1, <1>6 DEF GiveUp, Basic, JobInv, Proc, Operations, Job
  <2>2. PICK new : /\ new = [job[l] EXCEPT !.pc = "release"]
                   /\ job' = [job EXCEPT ![l] = new]
    BY <1>6 DEF GiveUp
  <2>3. new \in Job /\ new.pc = "release" /\ new.goal = job[l].goal /\ new.half = FALSE
    BY <2>1, <2>2, StagePut DEF Stages, Operations
  <2>4. Fits(l, new)
    BY <2>1, <2>3 DEF Fits
  <2>5. Bounded
    BY <1>1, <1>2, <1>6, BoundedIfKept DEF GiveUp
  <2> QED
    BY <2>1, <2>2, <2>3, <2>4, <2>5, BasicByJob
<1>7. ASSUME NEW l \in Loop, Await(l) \/ Count(l) PROVE Basic'
  <2>1. Bounded
    BY <1>1, <1>2, <1>7, BoundedIfKept DEF Await, Count
  <2> QED
    BY <1>3, <1>7, <2>1, BasicByJob DEF Await, Count, Proc
<1>8. ASSUME NEW p \in Proc, NEW r \in 1..runs, Accept(p, r),
             p \in Loop => job[p].pc = "linked",
             p \in User => job[p].pc = "idle"
      PROVE Basic'
  <2>1. /\ r \in 0..LastRun /\ r \in Run /\ job[p] \in Job /\ job[p].half = FALSE
        /\ p \in Loop => job[p].goal \in Goal
    BY <1>1, <1>8, QueueAssumption DEF Basic, JobInv, Operations, Job, Proc, Run
  <2>2. PICK new : /\ new = [job[p] EXCEPT !.pc = "done", !.run = r]
                   /\ job' = [job EXCEPT ![p] = new]
    BY <1>8 DEF Accept
  <2>3. new \in Job /\ new.pc = "done" /\ new.goal = job[p].goal
        /\ new.run = r /\ new.half = FALSE
    BY <2>1, <2>2 DEF Job, Stages, Operations
  <2>4. Fits(p, new)
    BY <1>8, <2>1, <2>3 DEF Fits, Operations, Accept
  <2>5. stray' \in BOOLEAN
    BY <1>8 DEF Accept
  <2>6. Bounded
    BY <1>1, <1>2, <1>8, <2>1, <2>5, QueueAssumption DEF Accept, Bounded, Run
  <2> QED
    BY <2>2, <2>3, <2>4, <2>6, BasicByJob
<1>9. ASSUME NEW l \in Loop, AcceptSlice(l) PROVE Basic'
  <2>1. job[l].run \in 1..runs /\ l \in Proc /\ l \notin User
    BY <1>9, QueueAssumption DEF AcceptSlice, Basic, JobInv, Proc
  <2> QED
    BY <1>8, <1>9, <2>1 DEF AcceptSlice
<1>10. ASSUME NEW u \in User, AcceptRun(u) PROVE Basic'
  BY <1>8, <1>10, QueueAssumption DEF AcceptRun, Proc
<1>11. ASSUME NEW p \in Proc, job[p].pc \in Operations,
              NEW j \in Job, j.pc = After(p).pc, j.goal = After(p).goal,
              j.run = After(p).run, j.half = FALSE
       PROVE  (accepted' = accepted /\ runs' = runs) => Fits(p, j)
  BY <1>11, AfterAt DEF Fits, Basic, JobInv, Operations
<1>12. ASSUME NEW p \in Proc, Read(p) PROVE Basic'
  <2>1. /\ Edited(job[p]) \in Queue /\ job[p].pc \in Operations
        /\ job[p] \in Job /\ job[p].half = FALSE
    BY <1>1, <1>12, EditedAt DEF Read, Job
  <2>2. CASE Writes(job[p])
    <3>1. PICK new : /\ new = [job[p] EXCEPT !.half = TRUE, !.copy = Edited(job[p])]
                     /\ job' = [job EXCEPT ![p] = new]
      BY <1>12, <2>2 DEF Read
    <3>2. new \in Job /\ new.pc = job[p].pc /\ new.goal = job[p].goal /\ new.run = job[p].run
      BY <2>1, <3>1 DEF Job
    <3>3. Fits(p, new)
      BY <1>12, <2>1, <3>2 DEF Fits, Read, Basic, JobInv
    <3>4. crossed' \in BOOLEAN
      BY <1>12, <2>2 DEF Read
    <3>5. Bounded
      BY <1>1, <1>12, <3>4, BoundedIfKept DEF Read
    <3> QED
      BY <3>1, <3>2, <3>3, <3>5, BasicByJob
  <2>3. CASE ~Writes(job[p])
    <3>1. After(p) \in Job /\ After(p).half = FALSE
      BY <2>1, AfterIsJob
    <3>2. job' = [job EXCEPT ![p] = After(p)]
      BY <1>12, <2>3 DEF Read
    <3>3. Bounded
      BY <1>1, <1>2, <1>12, <2>3, BoundedIfKept DEF Read
    <3>4. Fits(p, After(p))
      BY <1>11, <1>12, <2>1, <3>1 DEF Read
    <3> QED
      BY <3>1, <3>2, <3>3, <3>4, BasicByJob
  <2> QED
    BY <2>2, <2>3
<1>13. ASSUME NEW p \in Proc, Write(p) PROVE Basic'
  <2>1. job[p].pc \in Operations /\ job[p].copy \in Queue /\ job[p] \in Job
    BY <1>1, <1>13 DEF Write, Basic, JobInv, Job
  <2>2. After(p) \in Job
    BY <2>1, AfterIsJob
  <2>3. PICK new : /\ new = [After(p) EXCEPT !.half = FALSE, !.copy = Fresh]
                   /\ job' = [job EXCEPT ![p] = new]
    BY <1>13 DEF Write
  <2>4. new \in Job /\ new.pc = After(p).pc /\ new.goal = After(p).goal
        /\ new.run = After(p).run /\ new.half = FALSE
    BY <2>2, <2>3, FreshIsQueue DEF Job
  <2>5. Fits(p, new)
    BY <1>11, <1>13, <2>1, <2>4 DEF Write
  <2>6. Bounded
    BY <1>1, <1>2, <1>13, <2>1, BoundedIfKept DEF Write
  <2> QED
    BY <2>3, <2>4, <2>5, <2>6, BasicByJob
<1>14. ASSUME NEW p \in Proc, Dies(p) PROVE Basic'
  <2>1. deaths' \in 0..MaxDeaths
    BY <1>1, <1>14, QueueAssumption DEF Dies
  <2>2. Bounded
    BY <1>1, <1>2, <1>14, <2>1, BoundedIfKept DEF Dies
  <2> QED
    BY <1>3, <1>14, <2>2, BasicByJob DEF Dies
<1>15. CASE UNCHANGED vars
  BY <1>15 DEF vars, Basic, TypeOK, JobInv
<1> QED
  BY <1>4, <1>5, <1>6, <1>7, <1>9, <1>10, <1>12, <1>13, <1>14, <1>15 DEF Next, LoopStep

\* The queue, the runs and what each loop and each accept is at keep their
\* types, whoever reads and writes goal_queue.json in whatever order.
THEOREM TypeCorrect == Spec => []TypeOK
<1>1. Basic => TypeOK
  BY DEF Basic
<1> QED
  BY <1>1, BasicStarts, BasicKept, PTL DEF Spec

-----------------------------------------------------------------------------
(* A goal that is done has an accepted run *)

LEMMA EditedIsSound ==
  ASSUME Basic, SoundInv, NEW p \in Proc, job[p].pc \in Operations
  PROVE  DoneIn(Edited(job[p]))
<1> SUFFICES ASSUME NEW g \in Goal, Edited(job[p])[g].status = "done"
             PROVE  Edited(job[p])[g].linked \cap accepted # {}
  BY DEF DoneIn
<1>1. queue[g].status = "done" => queue[g].linked \cap accepted # {}
  BY DEF SoundInv, DoneIn
<1>2. CASE job[p].pc = "mark"
  BY <1>1, <1>2, EditedAt
<1>3. CASE job[p].pc = "link"
  BY <1>1, <1>3, EditedAt
<1>4. CASE job[p].pc = "release"
  <2>1. queue[g].status = "done"
    <3>1. job[p].goal \in Goal
      BY <1>4 DEF Basic, JobInv
    <3>2. queue \in [Goal -> Item]
      BY DEF Basic, TypeOK, Queue
    <3>3. Edited(job[p]) = [queue EXCEPT ![job[p].goal].status =
                              IF @ = "in_progress" THEN "pending" ELSE @]
      BY <1>4 DEF Edited, Released
    <3>4. CASE g = job[p].goal
      BY <3>2, <3>3, <3>4 DEF Item
    <3>5. CASE g # job[p].goal
      BY <1>4, <3>5, EditedAt
    <3> QED
      BY <3>4, <3>5
  <2> QED
    BY <1>1, <1>4, <2>1, EditedAt
<1>5. CASE job[p].pc = "done"
  <2>1. job[p].run \in accepted
    BY <1>5 DEF Basic, JobInv
  <2>2. CASE g \in TargetOf(job[p].run)
    BY <1>5, <2>1, <2>2, EditedAt
  <2>3. CASE g \notin TargetOf(job[p].run)
    BY <1>1, <1>5, <2>3, EditedAt
  <2> QED
    BY <2>2, <2>3
<1> QED
  BY <1>2, <1>3, <1>4, <1>5 DEF Operations

\* What a step does to the queue, to the copies and to the accepted runs.
LEMMA CopiesOf ==
  ASSUME Basic, [Next]_vars
  PROVE  /\ accepted \subseteq accepted'
         /\ queue' # queue => \E p \in Proc : job[p].half /\ queue' = job[p].copy
         /\ \A p \in Proc : \/ job'[p].copy = job[p].copy
                            \/ job'[p].copy = Fresh
                            \/ Read(p) /\ job'[p].copy = Edited(job[p])
<1> USE DEF Goes
<1>1. job \in [Proc -> Job]
  BY DEF Basic, TypeOK, Job, Stages
<1>2. ASSUME NEW l \in Loop, Take(l) PROVE \A p \in Proc : job'[p].copy \in {job[p].copy, Fresh}
  BY <1>1, <1>2 DEF Take, Idle, Proc
<1>3. ASSUME NEW l \in Loop, Slice(l) \/ GiveUp(l) \/ Await(l) \/ Count(l)
      PROVE \A p \in Proc : job'[p].copy \in {job[p].copy, Fresh}
  <2>1. CASE Slice(l)
    BY <1>1, <2>1 DEF Slice, Proc, Job
  <2>2. CASE GiveUp(l)
    BY <1>1, <2>2 DEF GiveUp, Proc, Job
  <2>3. CASE Await(l) \/ Count(l)
    BY <1>1, <2>3 DEF Await, Count, Idle, Proc
  <2> QED
    BY <1>3, <2>1, <2>2, <2>3
<1>4. ASSUME NEW q \in Proc, NEW r, Accept(q, r)
      PROVE \A p \in Proc : job'[p].copy \in {job[p].copy, Fresh}
  BY <1>1, <1>4 DEF Accept, Job
<1>5. ASSUME NEW q \in Proc, Read(q)
      PROVE \A p \in Proc : \/ job'[p].copy \in {job[p].copy, Fresh}
                            \/ p = q /\ job'[p].copy = Edited(job[p])
  <2>1. CASE Writes(job[q])
    BY <1>1, <1>5, <2>1 DEF Read, Job
  <2>2. CASE ~Writes(job[q])
    BY <1>1, <1>5, <2>2, AfterAt DEF Read
  <2> QED
    BY <2>1, <2>2
<1>6. ASSUME NEW q \in Proc, Write(q)
      PROVE \A p \in Proc : job'[p].copy \in {job[p].copy, Fresh}
  <2>1. job[q].pc \in Operations
    BY <1>6 DEF Write, Basic, JobInv
  <2>2. After(q) \in Job
    BY <2>1, AfterIsJob
  <2> QED
    BY <1>1, <1>6, <2>2 DEF Write, Job
<1>7. ASSUME NEW q \in Proc, Dies(q)
      PROVE \A p \in Proc : job'[p].copy \in {job[p].copy, Fresh}
  BY <1>1, <1>7 DEF Dies, Idle
<1>8. queue' # queue => \E p \in Proc : job[p].half /\ queue' = job[p].copy
  BY QueueWriters DEF Write
<1>9. accepted \subseteq accepted'
  BY DEF Next, vars, LoopStep, Take, Slice, GiveUp, Await, AcceptSlice, AcceptRun,
         Accept, Count, Dies, Read, Write
<1>10. UNCHANGED vars => \A p \in Proc : job'[p].copy = job[p].copy
  BY DEF vars
<1>11. \A l \in Loop : l \in Proc
  BY DEF Proc
<1>12. \A u \in User : u \in Proc
  BY DEF Proc
<1>13. \A p \in Proc : \/ job'[p].copy \in {job[p].copy, Fresh}
                       \/ Read(p) /\ job'[p].copy = Edited(job[p])
  BY <1>2, <1>3, <1>4, <1>5, <1>6, <1>7, <1>10, <1>11, <1>12
  DEF Next, LoopStep, AcceptSlice, AcceptRun
<1> QED
  BY <1>8, <1>9, <1>13

LEMMA SoundKept == Basic /\ SoundInv /\ [Next]_vars => SoundInv'
<1> SUFFICES ASSUME Basic, SoundInv, [Next]_vars PROVE SoundInv'
  OBVIOUS
<1>1. accepted \subseteq accepted'
  BY CopiesOf
<1>2. \A q : DoneIn(q) => \A g \in Goal : q[g].status = "done" => q[g].linked \cap accepted' # {}
  BY <1>1 DEF DoneIn
<1>3. DoneIn(queue')
  BY CopiesOf DEF SoundInv
<1>4. \A p \in Proc : DoneIn(job'[p].copy)
  <2> SUFFICES ASSUME NEW p \in Proc PROVE DoneIn(job'[p].copy)
    OBVIOUS
  <2>1. CASE Read(p) /\ job'[p].copy = Edited(job[p])
    BY <2>1, EditedIsSound DEF Read
  <2>2. CASE job'[p].copy \in {job[p].copy, Fresh}
    BY <2>2, FreshIsQueue DEF SoundInv
  <2> QED
    BY <2>1, <2>2, CopiesOf
<1> QED
  BY <1>2, <1>3, <1>4 DEF SoundInv, DoneIn

\* No goal is ticked off without an accepted run that is linked to it, for any
\* number of loops and accepts that overwrite each other's queue or die.
THEOREM DoneIsAccepted == Spec => []DoneHasAcceptedRun
<1>1. Init => SoundInv
  BY FreshIsQueue DEF Init, SoundInv, Idle, DoneIn
<1>2. SoundInv => DoneHasAcceptedRun
  BY DEF SoundInv, DoneIn, DoneHasAcceptedRun
<1> QED
  BY <1>1, <1>2, BasicStarts, BasicKept, SoundKept, PTL DEF Spec

-----------------------------------------------------------------------------
(* As long as no two operations met *)

\* Between what an operation acts on and its write.
Busy(p) == job[p].half \/ job[p].pc = "mark"

\* Nobody else is; the goal that is being taken is still pending; a copy has
\* every tick of the queue and makes nothing pending but what it releases; no
\* two loops are at one goal; and the goal of a loop is not pending.
Serial ==
    /\ \A p, o \in Proc : Busy(p) /\ Busy(o) => p = o
    /\ \A p \in Proc : job[p].pc = "mark" /\ ~job[p].half => queue[job[p].goal].status = "pending"
    /\ \A p \in Proc, g \in Goal : job[p].half /\ queue[g].status = "done"
         => job[p].copy[g].status = "done"
    /\ \A p \in Proc, g \in Goal : job[p].half /\ job[p].copy[g].status = "pending"
         => queue[g].status = "pending" \/ (job[p].pc = "release" /\ g = job[p].goal)
    /\ \A p \in Proc : job[p].half /\ job[p].pc = "mark"
         => job[p].copy[job[p].goal].status # "pending"
    /\ \A k, l \in Loop : job[k].pc # "idle" /\ job[l].pc # "idle" /\ job[k].goal = job[l].goal
         => k = l
    /\ \A l \in Loop : job[l].pc \notin {"idle", "mark"}
         => queue[job[l].goal].status # "pending"

SerialInv == ~crossed => Serial

\* A step that leaves the queue and ends or goes on with a job.
LEMMA QuietStep ==
  ASSUME Basic, SerialInv, NEW p \in Proc, NEW new, job' = [job EXCEPT ![p] = new],
         queue' = queue, crossed' = crossed, new.half = FALSE, new.pc # "mark",
         p \in Loop /\ new.pc # "idle"
           => job[p].pc \notin {"idle", "mark"} /\ new.goal = job[p].goal
  PROVE  SerialInv'
<1> SUFFICES ASSUME ~crossed PROVE Serial'
  BY DEF SerialInv
<1>1. job \in [Proc -> Job]
  BY DEF Basic, TypeOK, Job, Stages
<1>2. /\ \A q \in Proc : q # p => job'[q] = job[q]
      /\ job'[p] = new
  BY <1>1
<1>3. Serial
  BY DEF SerialInv
<1>4. \A l \in Loop : l \in Proc
  BY DEF Proc
<1> QED
  BY <1>2, <1>3, <1>4 DEF Serial, Busy

LEMMA TakeIsSerial ==
  ASSUME Basic, SerialInv, NEW l \in Loop, Take(l)
  PROVE  SerialInv'
<1> SUFFICES ASSUME ~crossed' PROVE Serial'
  BY DEF SerialInv
<1>1. job \in [Proc -> Job] /\ l \in Proc
  BY DEF Basic, TypeOK, Job, Stages, Proc
<1>2. PICK g, new : /\ g \in NextPending
                    /\ new = [Idle EXCEPT !.pc = "mark", !.goal = g]
                    /\ job' = [job EXCEPT ![l] = new]
  BY DEF Take, Goes
<1>3. new.pc = "mark" /\ new.goal = g /\ new.half = FALSE
  BY <1>2 DEF Idle
<1>4. g \in Goal /\ queue[g].status = "pending"
  BY <1>2 DEF NextPending, First, In
<1>5. /\ \A q \in Proc : q # l => job'[q] = job[q]
      /\ job'[l] = new
  BY <1>1, <1>2
<1>6. queue' = queue /\ ~crossed /\ \A q \in Proc : q # l => ~Busy(q)
  BY DEF Take, Crosses, Busy
<1>7. Serial
  BY <1>6 DEF SerialInv
<1>8. \A k \in Loop : k \in Proc
  BY DEF Proc
<1> QED
  BY <1>3, <1>4, <1>5, <1>6, <1>7, <1>8 DEF Serial, Busy

LEMMA ReadIsSerial ==
  ASSUME Basic, SerialInv, NEW p \in Proc, Read(p), Writes(job[p])
  PROVE  SerialInv'
<1> SUFFICES ASSUME ~crossed' PROVE Serial'
  BY DEF SerialInv
<1>1. job \in [Proc -> Job] /\ job[p] \in Job
  BY DEF Basic, TypeOK, Job, Stages
<1>2. PICK new : /\ new = [job[p] EXCEPT !.half = TRUE, !.copy = Edited(job[p])]
                 /\ job' = [job EXCEPT ![p] = new]
  BY DEF Read
<1>3. /\ new.pc = job[p].pc /\ new.goal = job[p].goal /\ new.half = TRUE
      /\ new.copy = Edited(job[p])
  BY <1>1, <1>2 DEF Job
<1>4. /\ \A q \in Proc : q # p => job'[q] = job[q]
      /\ job'[p] = new
  BY <1>1, <1>2
<1>5. queue' = queue /\ ~crossed /\ \A q \in Proc : q # p => ~Busy(q)
  BY DEF Read, Crosses, Busy
<1>6. job[p].pc \in Operations /\ ~job[p].half
  BY DEF Read
<1>7. Serial
  BY <1>5 DEF SerialInv
<1>8. \A k \in Loop : k \in Proc
  BY DEF Proc
<1>9. \A g \in Goal :
        /\ queue[g].status = "done" => Edited(job[p])[g].status = "done"
        /\ Edited(job[p])[g].status = "pending"
             => queue[g].status = "pending" \/ (job[p].pc = "release" /\ g = job[p].goal)
  <2> SUFFICES ASSUME NEW g \in Goal
               PROVE  /\ queue[g].status = "done" => Edited(job[p])[g].status = "done"
                      /\ Edited(job[p])[g].status = "pending"
                           => queue[g].status = "pending"
                              \/ (job[p].pc = "release" /\ g = job[p].goal)
    OBVIOUS
  <2>1. CASE job[p].pc = "mark"
    <3>1. queue[job[p].goal].status = "pending"
      BY <1>6, <1>7, <2>1 DEF Serial
    <3> QED
      BY <1>6, <2>1, <3>1, EditedAt
  <2>2. CASE job[p].pc = "link"
    BY <1>6, <2>2, EditedAt
  <2>3. CASE job[p].pc = "release"
    BY <1>6, <2>3, EditedAt
  <2>4. CASE job[p].pc = "done"
    <3>1. Edited(job[p])[g] = queue[g] \/ Edited(job[p])[g].status = "done"
      BY <1>6, <2>4, EditedAt
    <3> QED
      BY <3>1
  <2> QED
    BY <1>6, <2>1, <2>2, <2>3, <2>4 DEF Operations
<1>10. job[p].pc = "mark" => Edited(job[p])[job[p].goal].status # "pending"
  <2> SUFFICES ASSUME job[p].pc = "mark"
               PROVE  Edited(job[p])[job[p].goal].status # "pending"
    OBVIOUS
  <2>1. job[p].goal \in Goal
    BY DEF Basic, JobInv
  <2> QED
    BY <1>6, <2>1, EditedAt
<1> QED
  BY <1>3, <1>4, <1>5, <1>6, <1>7, <1>8, <1>9, <1>10 DEF Serial, Busy

\* The job a write leaves behind.
LEMMA WriteLeaves ==
  ASSUME Basic, NEW p \in Proc, Write(p)
  PROVE  /\ job[p].pc \in Operations
         /\ \A q \in Proc : q # p => job'[q] = job[q]
         /\ job'[p].half = FALSE
         /\ job'[p].pc = After(p).pc
         /\ job'[p].goal = After(p).goal
         /\ job'[p].run = After(p).run
<1>1. job \in [Proc -> Job] /\ job[p].pc \in Operations
  BY DEF Write, Basic, JobInv, TypeOK, Job, Stages
<1>2. After(p) \in Job
  BY <1>1, AfterIsJob
<1> QED
  BY <1>1, <1>2 DEF Write, Job

LEMMA WriteIsSerial ==
  ASSUME Basic, SerialInv, NEW p \in Proc, Write(p)
  PROVE  SerialInv'
<1> SUFFICES ASSUME ~crossed PROVE Serial'
  BY DEF SerialInv, Write
<1>1. /\ job[p].half /\ queue' = job[p].copy /\ job[p].pc \in Operations
      /\ \A q \in Proc : q # p => job'[q] = job[q]
      /\ job'[p].half = FALSE /\ job'[p].pc = After(p).pc /\ job'[p].goal = After(p).goal
  BY WriteLeaves DEF Write
<1>2. Serial
  BY DEF SerialInv
<1>3. \A q \in Proc : q # p => ~Busy(q)
  BY <1>1, <1>2 DEF Serial, Busy
<1>4. job'[p].pc # "mark"
  BY <1>1, AfterAt
<1>5. ~Busy(p)'
  BY <1>1, <1>4 DEF Busy
<1>6. \A q \in Proc : ~Busy(q)'
  BY <1>1, <1>3, <1>5 DEF Busy
<1>7. \A k \in Loop : k \in Proc
  BY DEF Proc
<1>8. \A l \in Loop : job'[l].pc # "idle" => job[l].pc # "idle" /\ job'[l].goal = job[l].goal
  <2> SUFFICES ASSUME NEW l \in Loop, job'[l].pc # "idle"
               PROVE  job[l].pc # "idle" /\ job'[l].goal = job[l].goal
    OBVIOUS
  <2>1. CASE l = p
    <3>1. After(p).goal = job[p].goal
      BY <1>1, <2>1, AfterAt
    <3> QED
      BY <1>1, <2>1, <3>1 DEF Operations
  <2>2. CASE l # p
    BY <1>1, <1>7, <2>2
  <2> QED
    BY <2>1, <2>2
<1>9. ASSUME NEW l \in Loop, job'[l].pc \notin {"idle", "mark"}
      PROVE  queue'[job'[l].goal].status # "pending"
  <2>1. job[l].goal \in Goal /\ job'[l].goal = job[l].goal /\ job[l].pc # "idle"
    BY <1>7, <1>8, <1>9 DEF Basic, JobInv
  <2>2. CASE l = p
    <3>1. job[p].pc # "release"
      BY <1>1, <1>9, <2>2, AfterAt
    <3>2. CASE job[p].pc = "mark"
      BY <1>1, <1>2, <2>1, <2>2, <3>2 DEF Serial
    <3>3. CASE job[p].pc # "mark"
      BY <1>1, <1>2, <2>1, <2>2, <3>1, <3>3 DEF Serial
    <3> QED
      BY <3>2, <3>3
  <2>3. CASE l # p
    <3>1. job[l].pc # "mark"
      BY <1>3, <1>7, <2>3 DEF Busy
    <3>2. queue[job[l].goal].status # "pending"
      BY <1>2, <2>1, <3>1 DEF Serial
    <3>3. ~(job[p].pc = "release" /\ job[l].goal = job[p].goal)
      BY <1>2, <2>1, <2>3 DEF Serial, Basic, JobInv
    <3> QED
      BY <1>1, <1>2, <2>1, <3>2, <3>3 DEF Serial
  <2> QED
    BY <2>2, <2>3
<1>10. \A q \in Proc : ~job'[q].half /\ job'[q].pc # "mark"
  BY <1>6 DEF Busy
<1> QED
  BY <1>2, <1>6, <1>7, <1>8, <1>9, <1>10 DEF Serial

LEMMA SerialKept == Basic /\ SerialInv /\ [Next]_vars => SerialInv'
<1> SUFFICES ASSUME Basic, SerialInv, [Next]_vars PROVE SerialInv'
  OBVIOUS
<1> USE DEF Goes
<1>1. job \in [Proc -> Job]
  BY DEF Basic, TypeOK, Job, Stages
<1>2. \A l \in Loop : l \in Proc
  BY DEF Proc
<1>3. \A u \in User : u \in Proc /\ u \notin Loop
  BY QueueAssumption DEF Proc
<1>4. Idle.half = FALSE /\ Idle.pc = "idle"
  BY DEF Idle
<1>5. \A p \in Proc : ~(job[p].half /\ job[p].pc \notin Operations)
  BY DEF Basic, JobInv
<1>6. ASSUME NEW l \in Loop, Slice(l) PROVE SerialInv'
  <2>1. PICK new : /\ new = [job[l] EXCEPT !.pc = "link", !.run = runs + 1]
                   /\ job' = [job EXCEPT ![l] = new]
    BY <1>6 DEF Slice
  <2>2. new.pc = "link" /\ new.goal = job[l].goal /\ new.half = FALSE
    BY <1>1, <1>2, <1>5, <1>6, <2>1 DEF Slice, Job, Operations
  <2> QED
    BY <1>2, <1>6, <2>1, <2>2, QuietStep DEF Slice
<1>7. ASSUME NEW l \in Loop, GiveUp(l) PROVE SerialInv'
  <2>1. PICK new : /\ new = [job[l] EXCEPT !.pc = "release"]
                   /\ job' = [job EXCEPT ![l] = new]
    BY <1>7 DEF GiveUp
  <2>2. new.pc = "release" /\ new.goal = job[l].goal /\ new.half = FALSE
    BY <1>1, <1>2, <1>5, <1>7, <2>1 DEF GiveUp, Job, Operations
  <2> QED
    BY <1>2, <1>7, <2>1, <2>2, QuietStep DEF GiveUp
<1>8. ASSUME NEW l \in Loop, Await(l) \/ Count(l) PROVE SerialInv'
  BY <1>2, <1>4, <1>8, QuietStep DEF Await, Count
<1>9. ASSUME NEW p \in Proc, NEW r, Accept(p, r), job[p].pc \in {"idle", "linked"},
             p \in Loop => job[p].pc = "linked"
      PROVE  SerialInv'
  <2>1. PICK new : /\ new = [job[p] EXCEPT !.pc = "done", !.run = r]
                   /\ job' = [job EXCEPT ![p] = new]
    BY <1>9 DEF Accept
  <2>2. new.pc = "done" /\ new.goal = job[p].goal /\ new.half = FALSE
    BY <1>1, <1>5, <1>9, <2>1 DEF Job, Operations
  <2> QED
    BY <1>9, <2>1, <2>2, QuietStep DEF Accept
<1>10. ASSUME NEW p \in Proc, Read(p), ~Writes(job[p]) PROVE SerialInv'
  <2>1. job' = [job EXCEPT ![p] = After(p)] /\ queue' = queue /\ crossed' = crossed
        /\ job[p].pc \in Operations /\ job[p].half = FALSE
    BY <1>1, <1>10 DEF Read, Job
  <2>2. After(p).half = FALSE /\ After(p).pc # "mark" /\ job[p].pc \notin {"idle", "mark"}
    BY <1>10, <2>1, AfterAt, AfterIsJob DEF Writes, Operations
  <2>3. After(p).pc # "idle" => After(p).goal = job[p].goal
    BY <2>1, AfterAt
  <2> QED
    BY <2>1, <2>2, <2>3, QuietStep
<1>11. ASSUME NEW p \in Proc, Dies(p) PROVE SerialInv'
  BY <1>4, <1>11, QuietStep DEF Dies
<1>12. CASE UNCHANGED vars
  BY <1>12 DEF vars, SerialInv, Serial, Busy
<1>13. ASSUME NEW l \in Loop, AcceptSlice(l) PROVE SerialInv'
  BY <1>2, <1>9, <1>13 DEF AcceptSlice
<1>14. ASSUME NEW u \in User, AcceptRun(u) PROVE SerialInv'
  BY <1>3, <1>9, <1>14 DEF AcceptRun
<1> QED
  BY <1>6, <1>7, <1>8, <1>10, <1>11, <1>12, <1>13, <1>14,
     TakeIsSerial, ReadIsSerial, WriteIsSerial
  DEF Next, LoopStep

LEMMA SerialStarts == Init => SerialInv
<1> SUFFICES ASSUME Init PROVE Serial
  BY DEF SerialInv
<1>1. \A p \in Proc : job[p] = Idle
  BY DEF Init
<1>2. \A l \in Loop : l \in Proc
  BY DEF Proc
<1> QED
  BY <1>1, <1>2 DEF Serial, Busy, Idle

\* As long as no two read-change-writes have met, no two loops run a slice of
\* the same goal, however many there are and whoever dies.
THEOREM LoopsApart == Spec => []OneLoopPerGoal
<1>1. Basic /\ SerialInv => OneLoopPerGoal
  BY DEF SerialInv, Serial, OneLoopPerGoal
<1> QED
  BY <1>1, BasicStarts, BasicKept, SerialStarts, SerialKept, PTL DEF Spec

\* As long as no two read-change-writes have met, a goal that was ticked off
\* stays so, also under a loop that was still at work on it.
THEOREM TicksStay == Spec => DoneIsFinal
<1> DEFINE Stays == ~crossed' => \A g \in Goal :
                      queue[g].status = "done" => queue'[g].status = "done"
<1>1. ASSUME Basic, SerialInv, [Next]_vars PROVE Stays
  <2> SUFFICES ASSUME ~crossed', queue' # queue PROVE Stays
    OBVIOUS
  <2>1. PICK p \in Proc : Write(p)
    BY <1>1, QueueWriters
  <2>2. Serial /\ job[p].half /\ queue' = job[p].copy
    BY <1>1, <2>1 DEF Write, SerialInv
  <2> QED
    BY <2>2 DEF Serial
<1>2. ASSUME Basic, SerialInv, [Next]_vars PROVE [Stays]_vars
  BY <1>1, <1>2
<1> QED
  BY <1>2, BasicStarts, BasicKept, SerialStarts, SerialKept, PTL DEF Spec, DoneIsFinal

-----------------------------------------------------------------------------
(* As long as moreover no run was accepted that had no goal *)

\* Runs are linked to one goal and only after they began; a run about to be
\* linked is at one loop only; a loop that goes on is linked to its goal;
\* an accepted run has a goal; copies add a link only to link; and what a
\* half-way operation of a loop, or one that counts, is about is in the queue.
Linked ==
    /\ \A g, h \in Goal, r \in Run : r \in queue[g].linked /\ r \in queue[h].linked => g = h
    /\ \A g \in Goal : queue[g].linked \subseteq 1..runs
    /\ \A l \in Loop, g \in Goal : job[l].pc = "link" => job[l].run \notin queue[g].linked
    /\ \A k, l \in Loop :
         job[k].pc = "link" /\ job[l].pc = "link" /\ job[k].run = job[l].run => k = l
    /\ \A l \in Loop : job[l].pc \in {"linked", "done"} => job[l].run \in queue[job[l].goal].linked
    /\ \A p \in Proc : job[p].pc = "done" => \E g \in Goal : job[p].run \in queue[g].linked
    /\ \A p \in Proc, g \in Goal : job[p].half =>
         /\ queue[g].linked \subseteq job[p].copy[g].linked
         /\ job[p].pc = "link" /\ g = job[p].goal
              => job[p].copy[g].linked = queue[g].linked \cup {job[p].run}
         /\ ~(job[p].pc = "link" /\ g = job[p].goal)
              => job[p].copy[g].linked = queue[g].linked
    /\ \A l \in Loop : job[l].half /\ job[l].pc = "done" => job[l].copy[job[l].goal].status = "done"
    /\ \A l \in Loop : job[l].pc = "counted" => queue[job[l].goal].status = "done"

TickInv == ~crossed /\ ~stray => Linked

\* The goal that an accept ticks is the one its run is linked to.
LEMMA TargetOfLinked ==
  ASSUME Basic, Linked, NEW p \in Proc, job[p].pc = "done"
  PROVE  /\ \A g \in TargetOf(job[p].run) : job[p].run \in queue[g].linked
         /\ p \in Loop => job[p].goal \in TargetOf(job[p].run)
<1>1. job[p].run \in Run
  BY QueueAssumption DEF Basic, JobInv, TypeOK, Run
<1>2. LinkedTo(job[p].run) # {}
  BY DEF Linked, LinkedTo
<1>3. TargetOf(job[p].run) = First(LinkedTo(job[p].run))
  BY <1>2 DEF TargetOf
<1>4. \A g \in TargetOf(job[p].run) : job[p].run \in queue[g].linked
  BY <1>3 DEF First, LinkedTo
<1>5. ASSUME p \in Loop PROVE job[p].goal \in TargetOf(job[p].run)
  <2>1. job[p].goal \in Goal /\ job[p].goal \in LinkedTo(job[p].run)
    BY <1>5 DEF Linked, Basic, JobInv, LinkedTo
  <2>2. \A g \in LinkedTo(job[p].run) : g = job[p].goal
    BY <1>1, <2>1 DEF Linked, LinkedTo
  <2>3. job[p].goal <= job[p].goal
    BY <2>1, QueueAssumption DEF Goal
  <2> QED
    BY <1>3, <2>1, <2>2, <2>3 DEF First
<1> QED
  BY <1>4, <1>5

LEMMA ReadIsLinked ==
  ASSUME Basic, TickInv, NEW p \in Proc, Read(p), ~crossed', ~stray'
  PROVE  Linked'
<1>1. job \in [Proc -> Job] /\ job[p] \in Job /\ job[p].pc \in Operations /\ ~job[p].half
      /\ queue' = queue /\ runs' = runs
  BY DEF Read, Basic, TypeOK, Job, Stages
<1>2. Linked
  BY DEF Read, TickInv
<1>3. \A k \in Loop : k \in Proc
  BY DEF Proc
<1>4. CASE Writes(job[p])
  <2>1. PICK new : /\ new = [job[p] EXCEPT !.half = TRUE, !.copy = Edited(job[p])]
                   /\ job' = [job EXCEPT ![p] = new]
    BY <1>4 DEF Read
  <2>2. /\ new.pc = job[p].pc /\ new.goal = job[p].goal /\ new.run = job[p].run
        /\ new.half = TRUE /\ new.copy = Edited(job[p])
    BY <1>1, <2>1 DEF Job
  <2>3. /\ \A q \in Proc : q # p => job'[q] = job[q]
        /\ job'[p] = new
    BY <1>1, <2>1
  <2>4. ASSUME NEW g \in Goal
        PROVE  /\ queue[g].linked \subseteq Edited(job[p])[g].linked
               /\ job[p].pc = "link" /\ g = job[p].goal
                    => Edited(job[p])[g].linked = queue[g].linked \cup {job[p].run}
               /\ ~(job[p].pc = "link" /\ g = job[p].goal)
                    => Edited(job[p])[g].linked = queue[g].linked
    <3>1. CASE job[p].pc = "done"
      <4>1. CASE g \in TargetOf(job[p].run)
        <5>1. Edited(job[p])[g].linked = queue[g].linked \cup {job[p].run}
          BY <1>1, <3>1, <4>1, EditedAt
        <5>2. job[p].run \in queue[g].linked
          BY <1>2, <3>1, <4>1, TargetOfLinked
        <5> QED
          BY <3>1, <5>1, <5>2
      <4>2. CASE g \notin TargetOf(job[p].run)
        BY <1>1, <3>1, <4>2, EditedAt
      <4> QED
        BY <4>1, <4>2
    <3>2. CASE job[p].pc = "link"
      BY <1>1, <3>2, EditedAt
    <3>3. CASE job[p].pc \in {"mark", "release"}
      BY <1>1, <3>3, EditedAt
    <3> QED
      BY <1>1, <3>1, <3>2, <3>3 DEF Operations
  <2>5. p \in Loop /\ job[p].pc = "done" => Edited(job[p])[job[p].goal].status = "done"
    <3> SUFFICES ASSUME p \in Loop, job[p].pc = "done"
                 PROVE  Edited(job[p])[job[p].goal].status = "done"
      OBVIOUS
    <3>1. job[p].goal \in Goal /\ job[p].goal \in TargetOf(job[p].run)
      BY <1>2, TargetOfLinked DEF Basic, JobInv
    <3> QED
      BY <1>1, <3>1, EditedAt
  <2> QED
    BY <1>1, <1>2, <1>3, <2>2, <2>3, <2>4, <2>5 DEF Linked
<1>5. CASE ~Writes(job[p])
  <2>1. job' = [job EXCEPT ![p] = After(p)] /\ After(p).half = FALSE
    BY <1>1, <1>5, AfterIsJob DEF Read, Job
  <2>2. /\ \A q \in Proc : q # p => job'[q] = job[q]
        /\ job'[p] = After(p)
    BY <1>1, <2>1
  <2>3. job[p].pc \notin {"mark", "link"} /\ Edited(job[p]) = queue
    BY <1>5 DEF Writes
  <2>4. After(p).pc \in {"idle", "counted"}
    BY <1>1, <2>3, AfterAt
  <2>5. After(p).pc = "counted" => queue[After(p).goal].status = "done"
    <3> SUFFICES ASSUME After(p).pc = "counted" PROVE queue[After(p).goal].status = "done"
      OBVIOUS
    <3>1. job[p].pc = "done" /\ p \in Loop /\ After(p).goal = job[p].goal
      BY <1>1, AfterAt
    <3>2. job[p].goal \in Goal /\ job[p].goal \in TargetOf(job[p].run)
      BY <1>2, <3>1, TargetOfLinked DEF Basic, JobInv
    <3> QED
      BY <1>1, <2>3, <3>1, <3>2, EditedAt
  <2> QED
    BY <1>1, <1>2, <1>3, <2>1, <2>2, <2>4, <2>5 DEF Linked
<1> QED
  BY <1>4, <1>5

LEMMA WriteIsLinked ==
  ASSUME Basic, SerialInv, TickInv, NEW p \in Proc, Write(p), ~crossed', ~stray'
  PROVE  Linked'
<1>1. /\ job[p].half /\ queue' = job[p].copy /\ job[p].pc \in Operations /\ runs' = runs
      /\ \A q \in Proc : q # p => job'[q] = job[q]
      /\ job'[p].half = FALSE /\ job'[p].pc = After(p).pc /\ job'[p].goal = After(p).goal
      /\ job'[p].run = After(p).run
  BY WriteLeaves DEF Write
<1>2. Linked /\ Serial
  BY DEF Write, TickInv, SerialInv
<1>3. \A q \in Proc : ~job'[q].half
  BY <1>1, <1>2 DEF Serial, Busy
<1>4. \A k \in Loop : k \in Proc
  BY DEF Proc
<1>5. \A l \in Loop : job[l].pc # "idle" => job[l].goal \in Goal
  BY <1>4 DEF Basic, JobInv
<1>6. \A l \in Loop : job'[l].pc # "idle" =>
        job[l].pc # "idle" /\ job'[l].goal = job[l].goal /\ job'[l].run = job[l].run
  <2> SUFFICES ASSUME NEW l \in Loop, job'[l].pc # "idle"
               PROVE  job[l].pc # "idle" /\ job'[l].goal = job[l].goal /\ job'[l].run = job[l].run
    OBVIOUS
  <2>1. CASE l = p
    <3>1. After(p).goal = job[p].goal /\ After(p).run = job[p].run
      BY <1>1, <2>1, AfterAt
    <3> QED
      BY <1>1, <2>1, <3>1 DEF Operations
  <2>2. CASE l # p
    BY <1>1, <1>4, <2>2
  <2> QED
    BY <2>1, <2>2
<1>7. \A q \in Proc : job'[q].pc \in {"link", "done"} => q # p
  BY <1>1, AfterAt
<1>8. \A g \in Goal :
        /\ queue[g].linked \subseteq queue'[g].linked
        /\ \A r \in queue'[g].linked :
             r \in queue[g].linked \/ (job[p].pc = "link" /\ g = job[p].goal /\ r = job[p].run)
        /\ job[p].pc = "link" /\ g = job[p].goal => job[p].run \in queue'[g].linked
        /\ queue[g].status = "done" => queue'[g].status = "done"
  BY <1>1, <1>2 DEF Linked, Serial
<1>9. job[p].pc = "link" =>
        /\ p \in Loop /\ job[p].run \in 1..runs
        /\ \A g \in Goal : job[p].run \notin queue[g].linked
  BY <1>2 DEF Linked, Basic, JobInv
<1>10. \A g, h \in Goal, r \in Run : r \in queue'[g].linked /\ r \in queue'[h].linked => g = h
  BY <1>2, <1>8, <1>9 DEF Linked
<1>11. \A g \in Goal : queue'[g].linked \subseteq 1..runs'
  BY <1>1, <1>2, <1>8, <1>9 DEF Linked
<1>12. \A l \in Loop, g \in Goal : job'[l].pc = "link" => job'[l].run \notin queue'[g].linked
  <2> SUFFICES ASSUME NEW l \in Loop, NEW g \in Goal, job'[l].pc = "link"
               PROVE  job'[l].run \notin queue'[g].linked
    OBVIOUS
  <2>1. l # p /\ job'[l] = job[l]
    BY <1>1, <1>4, <1>7
  <2>2. ~(job[p].pc = "link" /\ job[l].run = job[p].run)
    BY <1>2, <1>9, <2>1 DEF Linked
  <2>3. job[l].run \notin queue[g].linked
    BY <1>2, <2>1 DEF Linked
  <2> QED
    BY <1>8, <2>1, <2>2, <2>3
<1>13. \A k, l \in Loop :
         job'[k].pc = "link" /\ job'[l].pc = "link" /\ job'[k].run = job'[l].run => k = l
  BY <1>1, <1>2, <1>4, <1>7 DEF Linked
<1>14. ASSUME NEW l \in Loop, job'[l].pc \in {"linked", "done"}
       PROVE  job'[l].run \in queue'[job'[l].goal].linked
  <2>1. job[l].goal \in Goal /\ job'[l].goal = job[l].goal /\ job'[l].run = job[l].run
    BY <1>5, <1>6, <1>14
  <2>2. CASE l = p
    <3>1. job[p].pc = "link"
      BY <1>1, <1>14, <2>2, AfterAt
    <3> QED
      BY <1>8, <2>1, <2>2, <3>1
  <2>3. CASE l # p
    <3>1. job[l].run \in queue[job[l].goal].linked
      BY <1>1, <1>2, <1>4, <1>14, <2>3 DEF Linked
    <3> QED
      BY <1>8, <2>1, <3>1
  <2> QED
    BY <2>2, <2>3
<1>15. \A q \in Proc : job'[q].pc = "done" => \E g \in Goal : job'[q].run \in queue'[g].linked
  BY <1>1, <1>2, <1>7, <1>8 DEF Linked
<1>16. ASSUME NEW l \in Loop, job'[l].pc = "counted" PROVE queue'[job'[l].goal].status = "done"
  <2>1. job[l].goal \in Goal /\ job'[l].goal = job[l].goal
    BY <1>5, <1>6, <1>16
  <2>2. CASE l = p
    <3>1. job[p].pc = "done"
      BY <1>1, <1>16, <2>2, AfterAt
    <3> QED
      BY <1>1, <1>2, <2>1, <2>2, <3>1 DEF Linked
  <2>3. CASE l # p
    BY <1>1, <1>2, <1>4, <1>8, <1>16, <2>1, <2>3 DEF Linked
  <2> QED
    BY <2>2, <2>3
<1> QED
  BY <1>3, <1>4, <1>10, <1>11, <1>12, <1>13, <1>14, <1>15, <1>16 DEF Linked

\* A step that leaves the queue and gives p another job; from "link" on.
LEMMA LinkedByJob ==
  ASSUME Basic, Linked, NEW p \in Proc, NEW new, job' = [job EXCEPT ![p] = new],
         queue' = queue, runs <= runs', new.half = FALSE, runs' \in Run,
         new.pc = "link" => p \in Loop /\ new.run = runs + 1,
         p \in Loop /\ new.pc \in {"linked", "done"} => new.run \in queue[new.goal].linked,
         new.pc = "done" => \E g \in Goal : new.run \in queue[g].linked,
         new.pc # "counted"
  PROVE  Linked'
<1>1. job \in [Proc -> Job] /\ runs \in Run
  BY DEF Basic, TypeOK, Job, Stages
<1>2. /\ \A q \in Proc : q # p => job'[q] = job[q]
      /\ job'[p] = new
  BY <1>1
<1>3. runs \in Nat /\ runs' \in Nat /\ runs + 1 \notin 1..runs
  BY <1>1, QueueAssumption DEF Run
<1>4. \A l \in Loop : l \in Proc /\ (job[l].pc = "link" => job[l].run \in 1..runs)
  BY DEF Proc, Basic, JobInv
<1>5. \A g \in Goal : queue[g].linked \subseteq 1..runs'
  BY <1>3 DEF Linked
<1>6. \A l \in Loop, g \in Goal : job'[l].pc = "link" => job'[l].run \notin queue[g].linked
  BY <1>2, <1>3, <1>4 DEF Linked
<1>7. \A k, l \in Loop :
        job'[k].pc = "link" /\ job'[l].pc = "link" /\ job'[k].run = job'[l].run => k = l
  BY <1>2, <1>3, <1>4 DEF Linked
<1> QED
  BY <1>2, <1>4, <1>5, <1>6, <1>7 DEF Linked

LEMMA TickKept == Basic /\ SerialInv /\ TickInv /\ [Next]_vars => TickInv'
<1> SUFFICES ASSUME Basic, SerialInv, TickInv, [Next]_vars, ~crossed', ~stray' PROVE Linked'
  BY DEF TickInv
<1> USE DEF Goes
<1>1. job \in [Proc -> Job] /\ runs \in Run /\ runs \in Nat
  BY QueueAssumption DEF Basic, TypeOK, Job, Stages, Run
<1>2. \A l \in Loop : l \in Proc
  BY DEF Proc
<1>3. \A u \in User : u \in Proc /\ u \notin Loop
  BY QueueAssumption DEF Proc
<1>5. Linked
  <2>1. ASSUME NEW p \in Proc, Read(p) PROVE Linked
    BY <2>1 DEF Read, TickInv
  <2>2. ASSUME NEW p \in Proc, Write(p) PROVE Linked
    BY <2>2 DEF Write, TickInv
  <2>3. ASSUME NEW p \in Proc, Dies(p) PROVE Linked
    BY <2>3 DEF Dies, TickInv
  <2>4. ASSUME NEW p \in Loop, Take(p) PROVE Linked
    BY <2>4 DEF Take, TickInv
  <2>5. ASSUME NEW p \in Loop, Slice(p) PROVE Linked
    BY <2>5 DEF Slice, TickInv
  <2>6. ASSUME NEW p \in Loop, GiveUp(p) PROVE Linked
    BY <2>6 DEF GiveUp, TickInv
  <2>7. ASSUME NEW p \in Loop, Await(p) PROVE Linked
    BY <2>7 DEF Await, TickInv
  <2>8. ASSUME NEW p \in Loop, Count(p) PROVE Linked
    BY <2>8 DEF Count, TickInv
  <2>9. ASSUME NEW p \in Proc, NEW r, Accept(p, r) PROVE Linked
    BY <2>9 DEF Accept, TickInv
  <2>10. CASE UNCHANGED vars
    BY <2>10 DEF vars, TickInv
  <2> QED
    BY <1>2, <1>3, <2>1, <2>2, <2>3, <2>4, <2>5,
       <2>6, <2>7, <2>8, <2>9, <2>10 DEF Next, LoopStep, AcceptSlice, AcceptRun
<1>6. Idle.half = FALSE /\ Idle.pc = "idle"
  BY DEF Idle
<1>7. \A p \in Proc : ~(job[p].half /\ job[p].pc \notin Operations)
  BY DEF Basic, JobInv
<1>8. ASSUME NEW l \in Loop, Take(l) PROVE Linked'
  <2>1. PICK g, new : /\ g \in NextPending
                      /\ new = [Idle EXCEPT !.pc = "mark", !.goal = g]
                      /\ job' = [job EXCEPT ![l] = new]
    BY <1>8 DEF Take
  <2>2. new.pc = "mark" /\ new.half = FALSE
    BY <2>1 DEF Idle
  <2>3. queue' = queue /\ runs <= runs' /\ runs' \in Run
    BY <1>1, <1>8 DEF Take
  <2> QED
    BY <1>2, <1>5, <2>1, <2>2, <2>3, LinkedByJob
<1>9. ASSUME NEW l \in Loop, Slice(l) PROVE Linked'
  <2>1. PICK new : /\ new = [job[l] EXCEPT !.pc = "link", !.run = runs + 1]
                   /\ job' = [job EXCEPT ![l] = new]
    BY <1>9 DEF Slice
  <2>2. new.pc = "link" /\ new.run = runs + 1 /\ new.half = FALSE
    BY <1>1, <1>2, <1>7, <1>9, <2>1 DEF Slice, Job, Operations
  <2>3. runs' \in Run /\ runs <= runs'
    BY <1>1, <1>9, QueueAssumption DEF Slice, Run
  <2> QED
    BY <1>2, <1>5, <1>9, <2>1, <2>2, <2>3, LinkedByJob DEF Slice
<1>10. ASSUME NEW l \in Loop, GiveUp(l) PROVE Linked'
  <2>1. PICK new : /\ new = [job[l] EXCEPT !.pc = "release"]
                   /\ job' = [job EXCEPT ![l] = new]
    BY <1>10 DEF GiveUp
  <2>2. new.pc = "release" /\ new.half = FALSE
    BY <1>1, <1>2, <1>7, <1>10, <2>1 DEF GiveUp, Job, Operations
  <2>3. queue' = queue /\ runs <= runs' /\ runs' \in Run
    BY <1>1, <1>10 DEF GiveUp
  <2> QED
    BY <1>2, <1>5, <2>1, <2>2, <2>3, LinkedByJob
<1>11. ASSUME NEW p \in Proc, Await(p) \/ Count(p) \/ Dies(p) PROVE Linked'
  <2>1. /\ queue' = queue /\ runs <= runs' /\ runs' \in Run
        /\ job' = [job EXCEPT ![p] = Idle]
    BY <1>1, <1>11 DEF Await, Count, Dies
  <2> QED
    BY <1>5, <1>6, <2>1, LinkedByJob
<1>12. ASSUME NEW p \in Proc, NEW r, Accept(p, r), job[p].pc \in {"idle", "linked"},
              p \in Loop => job[p].pc = "linked" /\ r = job[p].run
       PROVE  Linked'
  <2>1. PICK new : /\ new = [job[p] EXCEPT !.pc = "done", !.run = r]
                   /\ job' = [job EXCEPT ![p] = new]
    BY <1>12 DEF Accept
  <2>2. new.pc = "done" /\ new.run = r /\ new.goal = job[p].goal /\ new.half = FALSE
    BY <1>1, <1>7, <1>12, <2>1 DEF Job, Operations
  <2>3. \E g \in Goal : r \in queue[g].linked
    BY <1>12 DEF Accept, LinkedTo
  <2>4. p \in Loop => r \in queue[job[p].goal].linked
    BY <1>5, <1>12 DEF Linked
  <2>5. queue' = queue /\ runs <= runs' /\ runs' \in Run
    BY <1>1, <1>12 DEF Accept
  <2>6. /\ new.pc # "link" /\ new.pc # "counted"
        /\ p \in Loop => new.run \in queue[new.goal].linked
        /\ \E g \in Goal : new.run \in queue[g].linked
    BY <2>2, <2>3, <2>4
  <2> QED
    BY <1>5, <2>1, <2>2, <2>5, <2>6, LinkedByJob
<1>13. ASSUME NEW l \in Loop, AcceptSlice(l) PROVE Linked'
  BY <1>2, <1>12, <1>13 DEF AcceptSlice
<1>14. ASSUME NEW u \in User, AcceptRun(u) PROVE Linked'
  BY <1>3, <1>12, <1>14 DEF AcceptRun
<1>15. CASE UNCHANGED vars
  BY <1>5, <1>15 DEF vars, Linked
<1> QED
  BY <1>2, <1>8, <1>9, <1>10, <1>11, <1>13, <1>14, <1>15, ReadIsLinked, WriteIsLinked
  DEF Next, LoopStep

LEMMA TickStarts == Init => TickInv
<1> SUFFICES ASSUME Init PROVE Linked
  BY DEF TickInv
<1>1. \A p \in Proc : job[p] = Idle
  BY DEF Init
<1>2. \A l \in Loop : l \in Proc
  BY DEF Proc
<1>3. \A g \in Goal : queue[g].linked = {}
  BY DEF Init, Fresh
<1> QED
  BY <1>1, <1>2, <1>3 DEF Linked, Idle

\* A slice that a loop counts as completed has ticked the goal of this loop, as
\* long as no two read-change-writes have met and every accepted run had a goal.
THEOREM CountsHold == Spec => []CountedIsDone
<1>1. TickInv => CountedIsDone
  BY DEF TickInv, Linked, CountedIsDone
<1> QED
  BY <1>1, BasicStarts, BasicKept, SerialStarts, SerialKept, TickStarts, TickKept, PTL DEF Spec
=============================================================================
