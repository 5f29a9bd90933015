--------------------------- MODULE RunLoopProofs ---------------------------
(***************************************************************************)
(* What RunLoop keeps for every plan and every bound: the types, the table *)
(* of statuses, that nothing starts before what it waits for (IInv), that  *)
(* one iteration is enough (OuterInv), what a process leaves in the files  *)
(* when it ends (FilesInv), and the cap on repairs (LineageInv).           *)
(***************************************************************************)
EXTENDS RunLoop, SequenceTheorems, FiniteSetTheorems, TLAPS

\* A task in one of these has been started (or is over, and was).
Begun == {"in_progress", "testing", "reviewing", "done"}

\* What a task that was started waits for is done.
PlanInv == \A t \in Task : status[t] \in Begun => deps[t] \subseteq Done(status)

\* The selection: what it waits for is done, and only its first task has
\* left "ready".
ChosenInv ==
    pc \in {"next", "turn", "answer", "hops"} => \A t \in mem.chosen :
        /\ deps[t] \subseteq Done(status)
        /\ pc = "next" \/ ~Current(t) => status[t] = "ready"
        /\ pc \in {"turn", "answer"} /\ Current(t) => status[t] = "in_progress"
        /\ pc = "hops" /\ Current(t) => status[t] \in {"in_progress", "testing", "reviewing"}

\* A replan works on blocked tasks; the one it replaces is discarded before
\* its dependents are rewired.
ReplanInv ==
    /\ pc \in {"replan", "supersede", "rewire"} =>
         \A t \in mem.todo : status[t] = "blocked" /\ Failures(t) # <<>>
    /\ pc \in {"supersede", "rewire"} =>
         mem.old \in Task \ mem.todo /\ mem.new \in Task
    /\ pc = "supersede" => status[mem.old] = "blocked"
    /\ pc = "rewire" => status[mem.old] = "discarded"

\* The plan in a resume's memory is ahead of the file by what the answers
\* allow: a blocked task set ready, or a task that is not in the file.
DraftInv ==
    pc \in {"apply", "write"} => \A t \in Task :
        \/ draft.status[t] = status[t] /\ draft.deps[t] = deps[t]
        \/ status[t] = "blocked" /\ draft.status[t] = "ready" /\ draft.deps[t] = deps[t]
        \/ status[t] = "absent" /\ draft.status[t] = "backlog"

IInv == TypeOK /\ PlanInv /\ ChosenInv /\ ReplanInv /\ DraftInv

-----------------------------------------------------------------------------
(* Facts about the definitions *)

LEMMA Constants ==
    /\ MaxTask \in Nat /\ MaxTask >= 1 /\ Planned \in Task
    /\ MaxRounds \in Nat /\ MaxRounds >= 1
    /\ MaxIterations \in Nat /\ MaxCycles \in Nat /\ SoftCap \in Nat
<1> DEFINE n == Planned + MaxRepairs
<1>1. /\ Planned \in Nat \ {0} /\ MaxTask \in Nat \ {0} /\ MaxRepairs \in Nat
      /\ MaxReplans \in Nat /\ MaxTask >= n * (1 + MaxReplans)
  BY RunAssumption DEF RunAssumption
<1>2. n \in Nat /\ n * MaxReplans \in Nat /\ n >= Planned
  BY <1>1
<1>3. n * (1 + MaxReplans) = n + n * MaxReplans
  BY <1>1, <1>2
<1>4. Planned <= MaxTask
  <2> HIDE DEF n
  <2> QED BY <1>1, <1>2, <1>3
<1> QED BY <1>1, <1>4, RunAssumption DEF RunAssumption, Task

LEMMA BlankType == Blank \in Memory
BY Constants DEF Blank, Memory

LEMMA NoDraftType == NoDraft \in Draft
BY DEF NoDraft, Draft, Board, Waits

LEMMA AllowedTable ==
    /\ Allowed["backlog"] = {"ready", "discarded"}
    /\ Allowed["ready"] = {"in_progress", "blocked", "discarded"}
    /\ Allowed["in_progress"] = {"testing", "blocked", "discarded", "ready"}
    /\ Allowed["testing"] = {"reviewing", "blocked", "in_progress", "discarded"}
    /\ Allowed["reviewing"] = {"done", "blocked", "in_progress", "discarded"}
    /\ Allowed["blocked"] = {"ready", "discarded"}
    /\ Allowed["done"] = {}
    /\ Allowed["discarded"] = {}
BY DEF Allowed, Statuses

-----------------------------------------------------------------------------
(* Type correctness *)

LEMMA TypeInit == Init => TypeOK
<1> SUFFICES ASSUME Init PROVE TypeOK
  OBVIOUS
<1>1. status \in Board /\ deps \in Waits
  <2> PICK p \in Plans :
        /\ status = [t \in Task |-> IF t > Planned THEN "absent"
                                    ELSE IF p[t] = {} THEN "ready" ELSE "backlog"]
        /\ deps = [t \in Task |-> IF t > Planned THEN {} ELSE p[t]]
    BY DEF Init
  <2>1. p \in [1..Planned -> SUBSET (1..Planned)] /\ 1..Planned \subseteq Task
    BY RunAssumption, Constants DEF RunAssumption, Task
  <2> QED BY <2>1, Constants DEF Statuses, Task, Board, Waits
<1>2. source \in [Task -> 0..MaxTask] /\ asked \in [Task -> Nat]
  BY Constants DEF Init
<1>3. evidence \in Evidence /\ decisions \in Seq(Decision)
  BY DEF Init, Evidence
<1>4. run \in RunRecord /\ summary \in Summary
  BY Constants DEF Init, Outcome, RunRecord, Summary
<1>5. providerSeen \in BOOLEAN /\ pauseFile \in BOOLEAN
  BY DEF Init
<1>6. mem \in Memory /\ draft \in Draft
  BY BlankType, NoDraftType DEF Init
<1> QED BY <1>1, <1>2, <1>3, <1>4, <1>5, <1>6 DEF TypeOK, Init, Steps

\* The fields of a process's memory that an action writes stay in their types.
LEMMA MemoryUpdates ==
    ASSUME NEW m \in Memory
    PROVE  /\ \A i \in 0..MaxIterations, c \in 0..MaxCycles, f \in [Task -> 0..SoftCap] :
                [m EXCEPT !.iter = i, !.cycle = c, !.continues = f] \in Memory
           /\ \A i \in 0..MaxIterations : [m EXCEPT !.iter = i] \in Memory
           /\ \A c \in 0..MaxCycles : [m EXCEPT !.cycle = c] \in Memory
           /\ \A A \in SUBSET Nat : [m EXCEPT !.applied = A] \in Memory
           /\ \A S \in SUBSET Task, n \in Nat, P \in SUBSET Task :
                [m EXCEPT !.chosen = S, !.spent = n, !.blocked = "none", !.paused = P] \in Memory
           /\ \A r \in 0..MaxRounds : [m EXCEPT !.round = r] \in Memory
           /\ \A n \in Nat : [m EXCEPT !.spent = n] \in Memory
           /\ \A b \in BOOLEAN : [m EXCEPT !.userPaused = b] \in Memory
           /\ \A f \in [Task -> 0..SoftCap] : [m EXCEPT !.continues = f] \in Memory
<1>1. \A i \in 0..MaxIterations, c \in 0..MaxCycles, f \in [Task -> 0..SoftCap] :
        [m EXCEPT !.iter = i, !.cycle = c, !.continues = f] \in Memory
  BY DEF Memory
<1>2. \A i \in 0..MaxIterations : [m EXCEPT !.iter = i] \in Memory
  BY DEF Memory
<1>3. \A c \in 0..MaxCycles : [m EXCEPT !.cycle = c] \in Memory
  BY DEF Memory
<1>4. \A A \in SUBSET Nat : [m EXCEPT !.applied = A] \in Memory
  BY DEF Memory
<1>5. \A S \in SUBSET Task, n \in Nat, P \in SUBSET Task :
        [m EXCEPT !.chosen = S, !.spent = n, !.blocked = "none", !.paused = P] \in Memory
  BY DEF Memory
<1>6. \A r \in 0..MaxRounds : [m EXCEPT !.round = r] \in Memory
  BY DEF Memory
<1>7. \A n \in Nat : [m EXCEPT !.spent = n] \in Memory
  BY DEF Memory
<1>8. \A b \in BOOLEAN : [m EXCEPT !.userPaused = b] \in Memory
  BY DEF Memory
<1>9. \A f \in [Task -> 0..SoftCap] : [m EXCEPT !.continues = f] \in Memory
  BY DEF Memory
<1> QED BY <1>1, <1>2, <1>3, <1>4, <1>5, <1>6, <1>7, <1>8, <1>9

\* The same, for a task that is over and for the rings.
LEMMA TaskUpdates ==
    ASSUME NEW m \in Memory, NEW S \in SUBSET Task
    PROVE  /\ \A r \in 0..MaxRounds : [m EXCEPT !.chosen = S, !.round = r] \in Memory
           /\ \A b \in {"none", "fuse", "provider", "other"} : [m EXCEPT !.blocked = b] \in Memory
           /\ [m EXCEPT !.paused = S] \in Memory
           /\ \A n \in Nat : [m EXCEPT !.blocked = "other", !.spent = n] \in Memory
           /\ \A c, e \in BOOLEAN :
                [m EXCEPT !.todo = S, !.created = c, !.escalated = e] \in Memory
           /\ \A e \in BOOLEAN : [m EXCEPT !.todo = S, !.escalated = e] \in Memory
           /\ \A c \in BOOLEAN, o \in 0..MaxTask, n \in 0..MaxTask :
                [m EXCEPT !.todo = S, !.created = c, !.old = o, !.new = n] \in Memory
           /\ \A o \in 0..MaxTask, n \in 0..MaxTask : [m EXCEPT !.old = o, !.new = n] \in Memory
           /\ \A c, e \in BOOLEAN : [m EXCEPT !.created = c, !.escalated = e] \in Memory
<1>1. \A r \in 0..MaxRounds : [m EXCEPT !.chosen = S, !.round = r] \in Memory
  BY DEF Memory
<1>2. \A b \in {"none", "fuse", "provider", "other"} : [m EXCEPT !.blocked = b] \in Memory
  BY DEF Memory
<1>3. [m EXCEPT !.paused = S] \in Memory
  BY DEF Memory
<1>4. \A n \in Nat : [m EXCEPT !.blocked = "other", !.spent = n] \in Memory
  BY DEF Memory
<1>5. \A c, e \in BOOLEAN : [m EXCEPT !.todo = S, !.created = c, !.escalated = e] \in Memory
  BY DEF Memory
<1>6. \A e \in BOOLEAN : [m EXCEPT !.todo = S, !.escalated = e] \in Memory
  BY DEF Memory
<1>7. \A c \in BOOLEAN, o \in 0..MaxTask, n \in 0..MaxTask :
        [m EXCEPT !.todo = S, !.created = c, !.old = o, !.new = n] \in Memory
  BY DEF Memory
<1>8. \A o \in 0..MaxTask, n \in 0..MaxTask : [m EXCEPT !.old = o, !.new = n] \in Memory
  BY DEF Memory
<1>9. \A c, e \in BOOLEAN : [m EXCEPT !.created = c, !.escalated = e] \in Memory
  BY DEF Memory
<1> QED BY <1>1, <1>2, <1>3, <1>4, <1>5, <1>6, <1>7, <1>8, <1>9

LEMMA OverType == ASSUME mem \in Memory, NEW t \in Task PROVE Over(t) \in Memory
<1>1. mem.chosen \ {t} \in SUBSET Task /\ 0 \in 0..MaxRounds
  BY Constants DEF Memory
<1> QED BY <1>1, TaskUpdates DEF Over

\* The actions that leave the memory as it is are those a frame names.
LEMMA MemoryStep == TypeOK /\ [Next]_vars => mem' \in Memory
<1> SUFFICES ASSUME TypeOK, [Next]_vars PROVE mem' \in Memory
  OBVIOUS
<1>0. mem \in Memory
  BY DEF TypeOK
<1>1. CASE Launch \/ Resume
  BY <1>1, BlankType, MemoryUpdates DEF Launch, Resume, Started
<1>2. CASE ApplyDecision
  <2>1. PICK i \in Unapplied : mem' = [mem EXCEPT !.applied = @ \cup {i}]
    BY <1>2 DEF ApplyDecision
  <2>2. mem.applied \cup {i} \in SUBSET Nat
    BY <1>0, <2>1 DEF TypeOK, Memory, Unapplied
  <2> QED BY <1>0, <2>1, <2>2, MemoryUpdates
<1>3. CASE Iterate
  <2>1. mem.iter - 1 \in 0..MaxIterations
    BY <1>0, <1>3, Constants DEF Iterate, Memory
  <2>2. 0 \in 0..MaxCycles /\ [t \in Task |-> 0] \in [Task -> 0..SoftCap]
    BY Constants
  <2> QED BY <1>0, <1>3, <2>1, <2>2, MemoryUpdates DEF Iterate
<1>4. CASE Cycle
  <2>1. mem.cycle + 1 \in 0..MaxCycles
    BY <1>0, <1>4, Constants DEF Cycle, Memory
  <2> QED BY <1>0, <1>4, <2>1, MemoryUpdates DEF Cycle
<1>5. CASE Execute
  <2>1. FirstReady(status, deps, MaxTasks) \in SUBSET Task
    BY DEF FirstReady, ReadyTasks, TypeOK, Board
  <2> QED BY <1>0, <1>5, <2>1, MemoryUpdates DEF Execute, TypeOK
<1>6. CASE UserPaused
  BY <1>0, <1>6, MemoryUpdates DEF UserPaused
<1>7. CASE SoftContinue
  <2>1. /\ mem' = [mem EXCEPT !.continues[summary.task] = @ + 1]
        /\ mem.continues[summary.task] < SoftCap
    BY <1>7 DEF SoftContinue, MayContinue
  <2> DEFINE f == [mem.continues EXCEPT ![summary.task] = @ + 1]
  <2>2. f \in [Task -> 0..SoftCap]
    <3>1. mem.continues \in [Task -> 0..SoftCap]
      BY <1>0 DEF Memory
    <3>2. ASSUME NEW t \in Task PROVE f[t] \in 0..SoftCap
      <4>1. CASE t = summary.task
        BY <2>1, <3>1, <4>1, Constants
      <4>2. CASE t # summary.task
        BY <3>1, <4>2
      <4> QED BY <4>1, <4>2
    <3> QED BY <3>1, <3>2
  <2>3. mem' = [mem EXCEPT !.continues = f]
    BY <2>1
  <2> HIDE DEF f
  <2> QED BY <1>0, <2>2, <2>3, MemoryUpdates
<1>8. CASE Replan
  <2>1. PICK S \in SUBSET Candidates :
          mem' = [mem EXCEPT !.todo = S, !.created = FALSE, !.escalated = FALSE]
    BY <1>8 DEF Replan
  <2>2. S \in SUBSET Task
    BY <2>1 DEF Candidates
  <2> QED BY <1>0, <2>1, <2>2, TaskUpdates
<1>9. CASE Rewire
  <2>1. 0 \in 0..MaxTask /\ {} \in SUBSET Task
    BY Constants
  <2>2. mem' = [mem EXCEPT !.old = 0, !.new = 0]
    BY <1>9 DEF Rewire
  <2> QED BY <1>0, <2>1, <2>2, TaskUpdates
<1>10. CASE ReplanEnds
  BY <1>0, <1>10, TaskUpdates DEF ReplanEnds
<1>11. CASE ResumeDeclines \/ Finish \/ Crash
  BY <1>11, BlankType DEF ResumeDeclines, Finish, Crash, Exit
<1>12. ASSUME NEW t \in Task, TaskStep(t) PROVE mem' \in Memory
  <2>1. Over(t) \in Memory
    BY <1>0, OverType
  <2>2. CASE StartTask(t)
    <3>1. 1 \in 0..MaxRounds
      BY Constants
    <3> QED BY <1>0, <2>2, <3>1, MemoryUpdates DEF StartTask
  <2>3. CASE GateBlocks(t) \/ FuseTrips(t) \/ ContractFails(t) \/ NeedsApproval(t) \/ Raises(t)
    <3>1. PICK how \in {"other", "fuse", "provider"} : mem' = [Over(t) EXCEPT !.blocked = how]
      BY <2>3 DEF GateBlocks, FuseTrips, ContractFails, NeedsApproval, Raises, Block
    <3> QED BY <2>1, <3>1, TaskUpdates
  <2>4. CASE PauseTask(t)
    <3>1. Over(t).paused = mem.paused /\ mem.paused \cup {t} \in SUBSET Task
      BY <1>0 DEF Over, Memory
    <3>2. mem' = [Over(t) EXCEPT !.paused = mem.paused \cup {t}]
      BY <2>4, <3>1 DEF PauseTask
    <3> QED BY <2>1, <3>1, <3>2, TaskUpdates
  <2>5. CASE AskModel(t)
    <3>1. mem.spent + 1 \in Nat
      BY <1>0 DEF Memory
    <3> QED BY <1>0, <2>5, <3>1, MemoryUpdates DEF AskModel
  <2>6. CASE OverBudget(t)
    <3>1. Over(t).spent = mem.spent /\ mem.spent + 1 \in Nat
      BY <1>0 DEF Over, Memory
    <3>2. mem' = [Over(t) EXCEPT !.blocked = "other", !.spent = mem.spent + 1]
      BY <2>6, <3>1 DEF OverBudget
    <3> QED BY <2>1, <3>1, <3>2, TaskUpdates
  <2>7. CASE GoOn(t)
    <3>1. mem.round + 1 \in 0..MaxRounds
      BY <1>0, <2>7, Constants DEF GoOn, Memory
    <3> QED BY <1>0, <2>7, <3>1, MemoryUpdates DEF GoOn
  <2>8. CASE Completes(t) \/ HopTask(t)
    BY <1>0, <2>1, <2>8 DEF Completes, HopTask
  <2> QED BY <1>12, <2>2, <2>3, <2>4, <2>5, <2>6, <2>7, <2>8 DEF TaskStep
<1>13. ASSUME NEW t \in Task, Escalate(t) \/ AddRepair(t) PROVE mem' \in Memory
  <2>1. mem.todo \ {t} \in SUBSET Task /\ mem.todo \in SUBSET Task /\ t \in 0..MaxTask
    BY <1>0, Constants DEF Memory, Task
  <2>2. CASE Escalate(t)
    BY <1>0, <2>1, <2>2, TaskUpdates DEF Escalate
  <2>3. CASE AddRepair(t)
    <3>1. PICK n \in Task : mem' = [mem EXCEPT !.todo = @ \ {t}, !.created = TRUE, !.old = t, !.new = n]
      BY <2>3 DEF AddRepair
    <3>2. n \in 0..MaxTask
      BY Constants DEF Task
    <3> QED BY <1>0, <2>1, <3>1, <3>2, TaskUpdates
  <2> QED BY <1>13, <2>2, <2>3
<1>14. CASE \/ ResumeRefused \/ WritePlan \/ ResumeGoesOn \/ BudgetGuard \/ IterationsUp
            \/ CyclesUp \/ NothingReady \/ Outer \/ Settle \/ Finalize \/ NotBlocked
            \/ Blocked \/ Supersede \/ RequestPause \/ Decide \/ UNCHANGED vars
  BY <1>0, <1>14 DEF ResumeRefused, WritePlan, ResumeGoesOn, BudgetGuard, IterationsUp,
     CyclesUp, NothingReady, Outer, Settle, Finalize, NotBlocked, Blocked, Supersede,
     RequestPause, Decide, vars
<1> QED
  BY <1>1, <1>2, <1>3, <1>4, <1>5, <1>6, <1>7, <1>8, <1>9, <1>10, <1>11, <1>12, <1>13, <1>14
  DEF Next, Process

\* What the actions write into the files has the type of the file.
LEMMA BoardUpdates ==
    ASSUME NEW b \in Board, NEW w \in Waits
    PROVE  /\ \A t \in Nat, x \in Statuses \cup {"absent"} : [b EXCEPT ![t] = x] \in Board
           /\ Promoted(b, w) \in Board
           /\ DOMAIN Promoted(b, w) = Task
           /\ \A t \in Nat, D \in SUBSET Task : [w EXCEPT ![t] = D] \in Waits
           /\ Done(b) \in SUBSET Task /\ Active(b) \in SUBSET Task
BY DEF Board, Waits, Promoted, Statuses, Done, Active

LEMMA RunUpdates ==
    /\ \A x \in {"running", "paused", "blocked", "completed"} :
            run \in RunRecord => [run EXCEPT !.status = x] \in RunRecord
    /\ run \in RunRecord => [run EXCEPT !.phase = "ACCEPTED"] \in RunRecord
    /\ Waiting \in RunRecord
    /\ [status |-> "completed", phase |-> "DONE"] \in RunRecord
    /\ [status |-> "running", phase |-> "REPLAN"] \in RunRecord
    /\ [status |-> "running", phase |-> "RESUME"] \in RunRecord
    /\ [status |-> "running", phase |-> "EXECUTE"] \in RunRecord
BY DEF RunRecord, Waiting

LEMMA VerdictType == run \in RunRecord => Verdict \in RunRecord
BY RunUpdates DEF Verdict

LEMMA DecidedType ==
    ASSUME NEW kind \in {"approval", "budget", "repair"}, NEW t \in 0..MaxTask
    PROVE  Decided(kind, t) \in Decision
BY DEF Decided, Decision

LEMMA AskedType ==
    ASSUME decisions \in Seq(Decision), NEW d \in Decision
    PROVE  Append(decisions, d) \in Seq(Decision)
OBVIOUS

LEMMA SummaryType ==
    ASSUME NEW t \in Task, NEW x \in Outcome
    PROVE  [task |-> t, exit |-> x] \in Summary
BY Constants DEF Summary, Task

LEMMA RecordedType ==
    ASSUME evidence \in Evidence, NEW t \in Task, NEW k \in Kinds, NEW b \in BOOLEAN
    PROVE  Recorded(t, k, b) \in Evidence
<1> DEFINE e == evidence[t]
           new == [exec |-> <<k>> \o e.exec, fail |-> IF b THEN <<k>> \o e.fail ELSE e.fail]
<1>1. e \in [exec : Seq(Kinds), fail : Seq(Kinds)]
  BY DEF Evidence
<1>2. new \in [exec : Seq(Kinds), fail : Seq(Kinds)]
  <2>1. <<k>> \in Seq(Kinds) /\ e.exec \in Seq(Kinds) /\ e.fail \in Seq(Kinds)
    BY <1>1
  <2>2. <<k>> \o e.exec \in Seq(Kinds) /\ <<k>> \o e.fail \in Seq(Kinds)
    BY <2>1
  <2> QED BY <2>1, <2>2
<1>3. Recorded(t, k, b) = [evidence EXCEPT ![t] = new]
  BY <1>1 DEF Recorded, Evidence
<1> HIDE DEF new
<1> QED BY <1>2, <1>3 DEF Evidence

LEMMA HandledType ==
    ASSUME evidence \in Evidence, NEW t \in Task, Failures(t) # <<>>
    PROVE  Handled(t) \in Evidence
<1> DEFINE e == evidence[t]
           new == IF e.exec # <<>> THEN [exec |-> Tail(e.exec), fail |-> e.fail]
                  ELSE [exec |-> e.exec, fail |-> Tail(e.fail)]
<1>1. e \in [exec : Seq(Kinds), fail : Seq(Kinds)]
  BY DEF Evidence
<1>2. e.exec # <<>> \/ e.fail # <<>>
  BY <1>1 DEF Failures
<1>3. new \in [exec : Seq(Kinds), fail : Seq(Kinds)]
  <2>1. CASE e.exec # <<>>
    <3>1. Tail(e.exec) \in Seq(Kinds)
      BY <1>1, <2>1
    <3> QED BY <1>1, <2>1, <3>1
  <2>2. CASE e.exec = <<>>
    <3>1. Tail(e.fail) \in Seq(Kinds)
      BY <1>1, <1>2, <2>2
    <3> QED BY <1>1, <2>2, <3>1
  <2> QED BY <2>1, <2>2
<1>4. Handled(t) = [evidence EXCEPT ![t] = new]
  BY <1>1 DEF Handled, Evidence
<1> HIDE DEF new
<1> QED BY <1>3, <1>4 DEF Evidence

\* The task of a step, and the number it has.
LEMMA TaskIsNat == \A t \in Task : t \in Nat /\ t \in 0..MaxTask
BY Constants DEF Task

LEMMA BlockType ==
    ASSUME TypeOK, NEW t \in Task, NEW how \in {"fuse", "provider", "other"},
           NEW k \in Kinds, NEW b \in BOOLEAN, Block(t, how, k, b)
    PROVE  /\ status' \in Board /\ evidence' \in Evidence /\ pc' \in Steps
           /\ UNCHANGED <<deps, source, asked, run, calls, pauseFile, draft, bounds>>
<1>1. "blocked" \in Statuses
  BY DEF Statuses
<1>2. status' \in Board
  BY <1>1, BoardUpdates, TaskIsNat DEF Block, TypeOK
<1>3. evidence' \in Evidence
  BY RecordedType DEF Block, TypeOK
<1> QED BY <1>2, <1>3 DEF Block, Steps

LEMMA TypeStep == TypeOK /\ ChosenInv /\ ReplanInv /\ [Next]_vars => TypeOK'
<1> SUFFICES ASSUME TypeOK, ChosenInv, ReplanInv, [Next]_vars PROVE TypeOK'
  OBVIOUS
<1> USE DEF plan, files, bounds
<1>0. mem' \in Memory
  BY MemoryStep
<1>a. Statuses = {"backlog", "ready", "in_progress", "testing", "reviewing",
                 "blocked", "done", "discarded"}
  BY DEF Statuses
<1>b. {"max_rounds", "other"} \subseteq Outcome
  BY DEF Outcome
<1>1. CASE UNCHANGED vars
  BY <1>0, <1>1 DEF TypeOK, Steps, vars
<1>2. CASE Launch
  BY <1>0, <1>2 DEF TypeOK, Steps, Launch, Started
<1>3. CASE ResumeRefused
  BY <1>0, <1>3 DEF TypeOK, Steps, ResumeRefused
<1>4. CASE ResumeDeclines
  BY <1>0, <1>4, NoDraftType DEF TypeOK, Steps, ResumeDeclines, Exit
<1>5. CASE ResumeGoesOn
  BY <1>0, <1>5, NoDraftType, RunUpdates DEF TypeOK, Steps, ResumeGoesOn
<1>6. CASE Iterate \/ IterationsUp \/ Cycle \/ NothingReady \/ Outer
  BY <1>0, <1>6 DEF TypeOK, Steps, Iterate, IterationsUp, Cycle, NothingReady, Outer
<1>7. CASE CyclesUp
  BY <1>0, <1>7, RunUpdates DEF TypeOK, Steps, CyclesUp
<1>8. CASE Finish
  BY <1>0, <1>8, RunUpdates DEF TypeOK, Steps, Finish, Exit
<1>9. CASE Execute
  BY <1>0, <1>9, RunUpdates DEF TypeOK, Steps, Execute
<1>10. CASE UserPaused
  BY <1>0, <1>10, RunUpdates DEF TypeOK, Steps, UserPaused
<1>11. CASE NotBlocked \/ Blocked \/ Replan
  BY <1>0, <1>11 DEF TypeOK, Steps, NotBlocked, Blocked, Replan
<1>12. CASE ReplanEnds
  BY <1>0, <1>12, RunUpdates DEF TypeOK, Steps, ReplanEnds
<1>13. CASE RequestPause
  BY <1>0, <1>13 DEF TypeOK, Steps, RequestPause
<1>14. CASE Crash
  BY <1>0, <1>14, NoDraftType DEF TypeOK, Steps, Crash
<1>15. CASE Resume
  <2>1. draft' \in Draft /\ pauseFile' \in BOOLEAN /\ pc' \in Steps
    BY <1>15 DEF Resume, Draft, TypeOK, Steps
  <2> QED BY <1>0, <2>1, <1>15 DEF TypeOK, Resume, Started
<1>16. CASE Finalize
  <2>1. run' \in RunRecord /\ calls' \in Nat
    BY <1>16, VerdictType DEF Finalize, TypeOK, Memory
  <2> QED BY <1>0, <2>1, <1>16 DEF TypeOK, Steps, Finalize
<1>17. CASE Settle
  <2>1. status' \in Board
    <3>1. Promoted(status, deps) \in Board
      BY BoardUpdates DEF TypeOK
    <3> QED BY <3>1, <1>17, <1>a DEF Settle, Board, TypeOK
  <2> QED BY <1>0, <2>1, <1>17 DEF TypeOK, Steps, Settle
<1>18. CASE SoftContinue
  <2>1. status' \in Board
    BY <1>18, <1>a DEF SoftContinue, TypeOK, Board
  <2> QED BY <1>0, <2>1, <1>18 DEF TypeOK, Steps, SoftContinue
<1>19. CASE Supersede
  <2>1. status' \in Board
    BY <1>19, <1>a DEF Supersede, TypeOK, Board
  <2> QED BY <1>0, <2>1, <1>19 DEF TypeOK, Steps, Supersede
<1>20. CASE BudgetGuard
  <2>1. decisions' \in Seq(Decision)
    BY <1>20, DecidedType, AskedType, Constants DEF BudgetGuard, TypeOK
  <2> QED BY <1>0, <2>1, <1>20, RunUpdates DEF TypeOK, Steps, BudgetGuard
<1>21. CASE Decide
  <2>1. PICK i \in Pending, a \in {"yes", "no"} : decisions' = [decisions EXCEPT ![i].answer = a]
    BY <1>21 DEF Decide
  <2>2. decisions[i] \in Decision /\ i \in DOMAIN decisions
    BY <2>1 DEF TypeOK, Pending
  <2>3. [decisions[i] EXCEPT !.answer = a] \in Decision
    BY <2>2 DEF Decision
  <2>4. decisions' \in Seq(Decision)
    BY <2>1, <2>2, <2>3 DEF TypeOK
  <2> QED BY <1>0, <2>4, <1>21 DEF TypeOK, Steps, Decide
<1>22. CASE WritePlan
  <2>1. status' \in Board /\ deps' \in Waits /\ asked' \in [Task -> Nat]
    BY <1>22, BoardUpdates DEF WritePlan, TypeOK, Draft
  <2> QED BY <1>0, <2>1, <1>22 DEF TypeOK, Steps, WritePlan
<1>23. CASE ApplyDecision
  <2>1. PICK i \in Unapplied : /\ GrantApproval(i) \/ AddAsked(i) \/ ChangesNothing(i)
                              /\ decisions' = [decisions EXCEPT ![i].applied = TRUE]
    BY <1>23 DEF ApplyDecision
  <2>2. i \in DOMAIN decisions /\ i \in Nat /\ decisions[i] \in Decision
    BY <2>1 DEF TypeOK, Unapplied
  <2>3. decisions' \in Seq(Decision)
    <3>1. \A b \in BOOLEAN : [decisions[i] EXCEPT !.applied = b] \in Decision
      BY <2>2 DEF Decision
    <3>2. [decisions[i] EXCEPT !.applied = TRUE] \in Decision
      BY <3>1
    <3> QED BY <2>1, <2>2, <3>2 DEF TypeOK
  <2>4. draft' \in Draft
    <3>1. draft.status \in Board /\ draft.deps \in Waits /\ draft.asked \in [Task -> Nat]
      BY DEF TypeOK, Draft
    <3>2. CASE GrantApproval(i)
      <4>1. decisions[i].task \in Nat
        BY <2>2, Constants DEF Decision
      <4>2. [draft.status EXCEPT ![decisions[i].task] = "ready"] \in Board
        BY <3>1, <4>1, <1>a, BoardUpdates
      <4> QED BY <3>2, <4>2 DEF GrantApproval, TypeOK, Draft
    <3>3. CASE AddAsked(i)
      <4>1. PICK m \in Task :
              draft' = [status |-> [draft.status EXCEPT ![m] = "backlog"],
                        deps |-> [draft.deps EXCEPT ![m] = LastActive(draft.status)],
                        asked |-> [draft.asked EXCEPT ![m] = i]]
        BY <3>3 DEF AddAsked
      <4>2. LastActive(draft.status) \in SUBSET Task
        BY <3>1, BoardUpdates DEF LastActive
      <4>3. /\ [draft.status EXCEPT ![m] = "backlog"] \in Board
            /\ [draft.deps EXCEPT ![m] = LastActive(draft.status)] \in Waits
        BY <3>1, <4>1, <4>2, <1>a, BoardUpdates, TaskIsNat
      <4> QED BY <2>2, <3>1, <4>1, <4>3 DEF Draft
    <3> QED BY <2>1, <3>2, <3>3 DEF ChangesNothing, TypeOK
  <2> QED BY <1>0, <2>3, <2>4, <1>23 DEF TypeOK, Steps, ApplyDecision
<1>24. CASE Rewire
  <2>1. deps' \in Waits
    <3>1. mem.new \in Task
      BY <1>24 DEF Rewire, ReplanInv
    <3> QED BY <1>24, <3>1 DEF Rewire, TypeOK, Waits
  <2> QED BY <1>0, <2>1, <1>24 DEF TypeOK, Steps, Rewire
<1>25. ASSUME NEW t \in Task, AskModel(t) \/ GoOn(t) \/ Completes(t) PROVE TypeOK'
  BY <1>0, <1>25 DEF TypeOK, Steps, AskModel, GoOn, Completes
<1>26. ASSUME NEW t \in Task, StartTask(t) PROVE TypeOK'
  <2>1. status' \in Board
    BY <1>26, <1>a, BoardUpdates, TaskIsNat DEF StartTask, TypeOK
  <2> QED BY <1>0, <2>1, <1>26 DEF TypeOK, Steps, StartTask
<1>27. ASSUME NEW t \in Task, PauseTask(t) PROVE TypeOK'
  <2>1. summary' \in Summary
    BY <1>27, <1>b, SummaryType DEF PauseTask
  <2> QED BY <1>0, <2>1, <1>27 DEF TypeOK, Steps, PauseTask
<1>28. ASSUME NEW t \in Task, OverBudget(t) PROVE TypeOK'
  <2>1. status' \in Board /\ evidence' \in Evidence
    BY <1>28, <1>a, BoardUpdates, TaskIsNat, RecordedType DEF OverBudget, TypeOK, Kinds
  <2> QED BY <1>0, <2>1, <1>28 DEF TypeOK, Steps, OverBudget
<1>29. ASSUME NEW t \in Task, GateBlocks(t) \/ Raises(t) PROVE TypeOK'
  <2>1. \E how \in {"fuse", "provider", "other"}, k \in Kinds : Block(t, how, k, TRUE)
    BY <1>29 DEF GateBlocks, Raises, Kinds
  <2>2. /\ status' \in Board /\ evidence' \in Evidence /\ pc' \in Steps
        /\ UNCHANGED <<deps, source, asked, run, calls, pauseFile, draft, bounds>>
    BY <2>1, BlockType
  <2>3. providerSeen' \in BOOLEAN /\ UNCHANGED <<decisions, summary>>
    BY <1>29 DEF GateBlocks, Raises, TypeOK
  <2> QED BY <1>0, <2>2, <2>3 DEF TypeOK
<1>30. ASSUME NEW t \in Task, FuseTrips(t) \/ ContractFails(t) PROVE TypeOK'
  <2>1. \E how \in {"fuse", "other"} : Block(t, how, "plain", FALSE)
    BY <1>30 DEF FuseTrips, ContractFails
  <2>2. /\ status' \in Board /\ evidence' \in Evidence /\ pc' \in Steps
        /\ UNCHANGED <<deps, source, asked, run, calls, pauseFile, draft, bounds>>
    BY <2>1, BlockType DEF Kinds
  <2>3. summary' \in Summary /\ UNCHANGED <<decisions, providerSeen>>
    BY <1>30, <1>b, SummaryType DEF FuseTrips, ContractFails
  <2> QED BY <1>0, <2>2, <2>3 DEF TypeOK
<1>31. ASSUME NEW t \in Task, NeedsApproval(t) PROVE TypeOK'
  <2>1. Block(t, "other", "risky", TRUE)
    BY <1>31 DEF NeedsApproval
  <2>2. /\ status' \in Board /\ evidence' \in Evidence /\ pc' \in Steps
        /\ UNCHANGED <<deps, source, asked, run, calls, pauseFile, draft, bounds>>
    BY <2>1, BlockType DEF Kinds
  <2>3. summary' \in Summary
    BY <1>31, <1>b, SummaryType DEF NeedsApproval
  <2>4. decisions' \in Seq(Decision)
    BY <1>31, DecidedType, AskedType, TaskIsNat DEF NeedsApproval, TypeOK
  <2>5. UNCHANGED providerSeen
    BY <1>31 DEF NeedsApproval
  <2> QED BY <1>0, <2>2, <2>3, <2>4, <2>5 DEF TypeOK
<1>32. ASSUME NEW t \in Task, HopTask(t) PROVE TypeOK'
  <2>1. Hop(status[t]) \in {"testing", "reviewing", "done"} /\ status' \in Board
    <3>1. status[t] \in {"in_progress", "testing", "reviewing"}
      BY <1>32 DEF HopTask, ChosenInv, Current
    <3>2. Hop(status[t]) \in {"testing", "reviewing", "done"}
      BY <3>1 DEF Hop
    <3> QED BY <1>32, <3>2, <1>a, BoardUpdates, TaskIsNat DEF HopTask, TypeOK
  <2>2. summary' \in Summary /\ pc' \in Steps
    BY <1>32, <1>b, SummaryType DEF HopTask, TypeOK, Steps
  <2> QED BY <1>0, <2>1, <2>2, <1>32 DEF TypeOK, HopTask
<1>33. ASSUME NEW t \in Task, Escalate(t) PROVE TypeOK'
  <2>1. decisions' \in Seq(Decision)
    BY <1>33, DecidedType, AskedType, TaskIsNat DEF Escalate, TypeOK
  <2>2. evidence' \in Evidence
    BY <1>33, HandledType DEF Escalate, TypeOK, ReplanInv
  <2> QED BY <1>0, <2>1, <2>2, <1>33 DEF TypeOK, Escalate
<1>34. ASSUME NEW t \in Task, AddRepair(t) PROVE TypeOK'
  <2>1. evidence' \in Evidence
    BY <1>34, HandledType DEF AddRepair, TypeOK, ReplanInv
  <2>2. PICK m \in Task : /\ status' = [status EXCEPT ![m] = "ready"]
                         /\ deps' = [deps EXCEPT ![m] = LastDone]
                         /\ source' = [source EXCEPT ![m] = t]
    BY <1>34 DEF AddRepair
  <2>3. LastDone \in SUBSET Task
    BY BoardUpdates DEF LastDone, TypeOK
  <2>4. status' \in Board /\ deps' \in Waits
    BY <2>2, <2>3, <1>a, BoardUpdates, TaskIsNat DEF TypeOK
  <2>5. source' \in [Task -> 0..MaxTask]
    BY <2>2, TaskIsNat DEF TypeOK
  <2> QED BY <1>0, <2>1, <2>4, <2>5, <1>34 DEF TypeOK, Steps, AddRepair
<1>35. CASE \E t \in Task : TaskStep(t)
  BY <1>25, <1>26, <1>27, <1>28, <1>29, <1>30, <1>31, <1>32, <1>35 DEF TaskStep
<1> QED
  BY <1>1, <1>2, <1>3, <1>4, <1>5, <1>6, <1>7, <1>8, <1>9, <1>10, <1>11, <1>12, <1>13,
     <1>14, <1>15, <1>16, <1>17, <1>18, <1>19, <1>20, <1>21, <1>22, <1>23, <1>24, <1>25,
     <1>26, <1>27, <1>28, <1>29, <1>30, <1>31, <1>32, <1>33, <1>34, <1>35
  DEF Next, Process

-----------------------------------------------------------------------------
(* The statuses *)

\* Six actions block the current task, each for its own reason.
Blocks(t) == \/ GateBlocks(t) \/ FuseTrips(t) \/ ContractFails(t)
             \/ NeedsApproval(t) \/ Raises(t) \/ OverBudget(t)

LEMMA OneCurrent ==
    ASSUME TypeOK, NEW t \in Task, NEW u \in Task, Current(t), Current(u)
    PROVE  t = u
BY TaskIsNat DEF Current

LEMMA CurrentIsNotOver ==
    ASSUME ChosenInv, NEW t \in Task, Current(t), pc \in {"next", "turn", "answer", "hops"}
    PROVE  /\ pc = "next" => status[t] = "ready"
           /\ pc \in {"turn", "answer"} => status[t] = "in_progress"
           /\ pc = "hops" => status[t] \in {"in_progress", "testing", "reviewing"}
           /\ deps[t] \subseteq Done(status)
BY DEF ChosenInv, Current

LEMMA BlocksEffect ==
    ASSUME TypeOK, NEW t \in Task, Blocks(t)
    PROVE  /\ Current(t) /\ pc \in {"next", "turn", "answer"} /\ pc' = "next"
           /\ status' = [status EXCEPT ![t] = "blocked"] /\ deps' = deps
           /\ mem'.chosen = mem.chosen \ {t}
<1>1. Over(t).chosen = mem.chosen \ {t} /\ Over(t) \in Memory
  BY OverType DEF TypeOK, Memory, Over
<1>2. CASE OverBudget(t)
  <2>1. mem' = [Over(t) EXCEPT !.blocked = "other", !.spent = @ + 1]
    BY <1>2 DEF OverBudget
  <2>2. mem'.chosen = Over(t).chosen
    BY <1>1, <2>1 DEF Memory
  <2> QED BY <1>1, <1>2, <2>2 DEF OverBudget
<1>3. CASE \E how \in {"fuse", "provider", "other"}, k \in Kinds, b \in BOOLEAN : Block(t, how, k, b)
  <2>1. PICK how \in {"fuse", "provider", "other"} : mem' = [Over(t) EXCEPT !.blocked = how]
    BY <1>3 DEF Block
  <2>2. mem'.chosen = Over(t).chosen
    BY <1>1, <2>1 DEF Memory
  <2>3. ~OverBudget(t) => Current(t) /\ pc \in {"next", "turn", "answer"}
    BY DEF Blocks, GateBlocks, FuseTrips, ContractFails, NeedsApproval, Raises
  <2> QED BY <1>1, <1>2, <1>3, <2>2, <2>3 DEF Block
<1>4. OverBudget(t) \/ \E how \in {"fuse", "provider", "other"}, k \in Kinds, b \in BOOLEAN : Block(t, how, k, b)
  BY DEF Blocks, GateBlocks, FuseTrips, ContractFails, NeedsApproval, Raises, Kinds
<1> QED BY <1>2, <1>3, <1>4

LEMMA StatusChangers ==
    ASSUME [Next]_vars
    PROVE  \/ status' = status
           \/ WritePlan \/ Settle \/ SoftContinue \/ Supersede
           \/ \E t \in Task : StartTask(t) \/ Blocks(t) \/ HopTask(t) \/ AddRepair(t)
<1> USE DEF plan
<1>1. CASE \E t \in Task : TaskStep(t)
  BY <1>1 DEF TaskStep, Blocks, PauseTask, AskModel, GoOn, Completes
<1>2. CASE \E t \in Task : Escalate(t) \/ AddRepair(t)
  BY <1>2 DEF Escalate
<1>3. CASE \/ ApplyDecision \/ ResumeDeclines \/ ResumeGoesOn \/ Iterate \/ BudgetGuard
           \/ IterationsUp \/ Cycle \/ CyclesUp \/ NothingReady \/ Outer \/ Finish
  BY <1>3 DEF ApplyDecision, ResumeDeclines, ResumeGoesOn, Iterate, BudgetGuard,
     IterationsUp, Cycle, CyclesUp, NothingReady, Outer, Finish
<1>4. CASE \/ Execute \/ Finalize \/ UserPaused \/ NotBlocked \/ Blocked \/ Replan
           \/ Rewire \/ ReplanEnds
  BY <1>4 DEF Execute, Finalize, UserPaused, NotBlocked, Blocked, Replan, Rewire, ReplanEnds
<1>5. CASE \/ Launch \/ ResumeRefused \/ Resume \/ RequestPause \/ Decide \/ Crash
           \/ UNCHANGED vars
  BY <1>5 DEF Launch, ResumeRefused, Resume, RequestPause, Decide, Crash, vars
<1> QED BY <1>1, <1>2, <1>3, <1>4, <1>5 DEF Next, Process

Moves(t) == \/ status'[t] = status[t]
            \/ status[t] = "absent" /\ status'[t] \in {"backlog", "ready"}
            \/ status[t] # "absent" /\ status'[t] \in Allowed[status[t]]

LEMMA TableStep ==
    ASSUME IInv, [Next]_vars, NEW t \in Task
    PROVE  Moves(t)
<1> USE AllowedTable
<1>0. status \in Board
  BY DEF IInv, TypeOK
<1>1. CASE status' = status
  BY <1>1 DEF Moves
<1>2. CASE WritePlan
  <2>1. draft.status \in Board
    BY DEF IInv, TypeOK, Draft
  <2>2. \/ status'[t] = draft.status[t]
        \/ draft.status[t] = "backlog" /\ status'[t] = "ready"
    BY <1>2, <2>1 DEF WritePlan, Promoted, Board
  <2>3. \/ draft.status[t] = status[t]
        \/ status[t] = "blocked" /\ draft.status[t] = "ready"
        \/ status[t] = "absent" /\ draft.status[t] = "backlog"
    BY <1>2 DEF WritePlan, IInv, DraftInv
  <2> QED BY <2>2, <2>3 DEF Moves
<1>3. CASE Settle
  <2>1. \/ status'[t] = status[t]
        \/ status[t] = "in_progress" /\ status'[t] = "ready"
        \/ status[t] = "backlog" /\ status'[t] = "ready"
    BY <1>0, <1>3 DEF Settle, Promoted, Board
  <2> QED BY <2>1 DEF Moves
<1>4. CASE SoftContinue
  <2>1. status'[t] = status[t] \/ (status[t] = "blocked" /\ status'[t] = "ready")
    <3>1. /\ status' = [status EXCEPT ![summary.task] = "ready"]
          /\ status[summary.task] = "blocked"
      BY <1>4 DEF SoftContinue, MayContinue
    <3>2. CASE t = summary.task
      BY <1>0, <3>1, <3>2 DEF Board
    <3>3. CASE t # summary.task
      BY <1>0, <3>1, <3>3 DEF Board
    <3> QED BY <3>2, <3>3
  <2> QED BY <2>1 DEF Moves
<1>5. CASE Supersede
  <2>1. status'[t] = status[t] \/ (status[t] = "blocked" /\ status'[t] = "discarded")
    <3>1. /\ status' = [status EXCEPT ![mem.old] = "discarded"]
          /\ status[mem.old] = "blocked"
      BY <1>5 DEF Supersede, IInv, ReplanInv
    <3>2. CASE t = mem.old
      BY <1>0, <3>1, <3>2 DEF Board
    <3>3. CASE t # mem.old
      BY <1>0, <3>1, <3>3 DEF Board
    <3> QED BY <3>2, <3>3
  <2> QED BY <2>1 DEF Moves
<1>6. ASSUME NEW u \in Task, StartTask(u) \/ Blocks(u) \/ HopTask(u) \/ AddRepair(u)
      PROVE  Moves(t)
  <2>1. CASE StartTask(u)
    <3>1. status[u] = "ready"
      BY <2>1, CurrentIsNotOver DEF StartTask, IInv
    <3> QED BY <1>0, <2>1, <3>1 DEF StartTask, Moves, Board
  <2>2. CASE Blocks(u)
    <3>1. status[u] \in {"ready", "in_progress"} /\ status' = [status EXCEPT ![u] = "blocked"]
      BY <2>2, CurrentIsNotOver, BlocksEffect DEF IInv
    <3> QED BY <1>0, <3>1 DEF Moves, Board
  <2>3. CASE HopTask(u)
    <3>1. status[u] \in {"in_progress", "testing", "reviewing"}
      BY <2>3, CurrentIsNotOver DEF HopTask, IInv
    <3>2. /\ status[u] = "in_progress" => Hop(status[u]) = "testing"
          /\ status[u] = "testing" => Hop(status[u]) = "reviewing"
          /\ status[u] = "reviewing" => Hop(status[u]) = "done"
      BY DEF Hop
    <3>3. status'[t] = status[t] \/ (t = u /\ status'[t] = Hop(status[u]))
      <4>1. status' = [status EXCEPT ![u] = Hop(status[u])]
        BY <2>3 DEF HopTask
      <4> QED BY <1>0, <4>1 DEF Board
    <3> QED BY <3>1, <3>2, <3>3 DEF Moves
  <2>4. CASE AddRepair(u)
    <3>1. PICK n \in Task : status[n] = "absent" /\ status' = [status EXCEPT ![n] = "ready"]
      BY <2>4 DEF AddRepair, NextId
    <3> QED BY <1>0, <3>1 DEF Moves, Board
  <2> QED BY <1>6, <2>1, <2>2, <2>3, <2>4
<1> QED BY StatusChangers, <1>1, <1>2, <1>3, <1>4, <1>5, <1>6

\* A task that is done stays done.
LEMMA DoneStays ==
    ASSUME IInv, [Next]_vars
    PROVE  Done(status) \subseteq Done(status')
<1> SUFFICES ASSUME NEW t \in Task, status[t] = "done"
             PROVE  t \in DOMAIN status' /\ status'[t] = "done"
  BY DEF Done, IInv, TypeOK, Board
<1>1. status' \in Board
  BY TypeStep DEF IInv, TypeOK
<1>2. status'[t] = "done"
  BY TableStep, AllowedTable DEF Moves
<1> QED BY <1>1, <1>2 DEF Board

-----------------------------------------------------------------------------
(* Where a step leads *)

Plain == {"off", "resumed", "iterate", "cycle", "execute", "finalize", "after",
          "outer", "finish"}

LEMMA StepLeads ==
    ASSUME [Next]_vars
    PROVE  \/ UNCHANGED <<status, deps, evidence, pc, mem, draft>>
           \/ Resume \/ ApplyDecision
           \/ Replan \/ Supersede \/ Rewire
           \/ Execute \/ (\E t \in Task : TaskStep(t) \/ Escalate(t) \/ AddRepair(t))
           \/ pc' \in Plain
<1> USE DEF Plain, plan, files
<1>1. CASE UNCHANGED vars \/ ResumeRefused \/ RequestPause \/ Decide
  BY <1>1 DEF vars, ResumeRefused, RequestPause, Decide
<1>2. CASE Launch \/ WritePlan \/ ResumeDeclines \/ ResumeGoesOn \/ Iterate \/ BudgetGuard
           \/ IterationsUp \/ Cycle \/ CyclesUp \/ NothingReady \/ Outer \/ Finish
  BY <1>2 DEF Launch, WritePlan, ResumeDeclines, ResumeGoesOn, Iterate, BudgetGuard,
     IterationsUp, Cycle, CyclesUp, NothingReady, Outer, Finish, Exit
<1>3. CASE Settle \/ Finalize \/ UserPaused \/ NotBlocked \/ Blocked \/ SoftContinue
           \/ ReplanEnds \/ Crash
  BY <1>3 DEF Settle, Finalize, UserPaused, NotBlocked, Blocked, SoftContinue, ReplanEnds,
     Crash
<1> QED BY <1>1, <1>2, <1>3 DEF Next, Process

LEMMA DepsChangers ==
    ASSUME [Next]_vars
    PROVE  \/ deps' = deps
           \/ WritePlan \/ Rewire \/ (\E t \in Task : AddRepair(t))
<1> USE DEF plan
<1>1. CASE \E t \in Task : TaskStep(t)
  <2>1. PICK t \in Task : TaskStep(t)
    BY <1>1
  <2>2. CASE StartTask(t) \/ PauseTask(t) \/ AskModel(t) \/ GoOn(t) \/ Completes(t) \/ HopTask(t)
    BY <2>2 DEF StartTask, PauseTask, AskModel, GoOn, Completes, HopTask
  <2>3. CASE Blocks(t)
    BY <2>3 DEF Blocks, OverBudget, GateBlocks, FuseTrips, ContractFails, NeedsApproval,
       Raises, Block
  <2> QED BY <2>1, <2>2, <2>3 DEF TaskStep, Blocks
<1>2. CASE \E t \in Task : Escalate(t) \/ AddRepair(t)
  BY <1>2 DEF Escalate
<1>3. CASE \/ ApplyDecision \/ ResumeDeclines \/ ResumeGoesOn \/ Iterate \/ BudgetGuard
           \/ IterationsUp \/ Cycle \/ CyclesUp \/ NothingReady \/ Outer \/ Finish
  BY <1>3 DEF ApplyDecision, ResumeDeclines, ResumeGoesOn, Iterate, BudgetGuard,
     IterationsUp, Cycle, CyclesUp, NothingReady, Outer, Finish
<1>4. CASE \/ Execute \/ Finalize \/ UserPaused \/ NotBlocked \/ Blocked \/ Replan
           \/ Supersede \/ ReplanEnds \/ Settle \/ SoftContinue
  BY <1>4 DEF Execute, Finalize, UserPaused, NotBlocked, Blocked, Replan, Supersede,
     ReplanEnds, Settle, SoftContinue
<1>5. CASE \/ Launch \/ ResumeRefused \/ Resume \/ RequestPause \/ Decide \/ Crash
           \/ UNCHANGED vars
  BY <1>5 DEF Launch, ResumeRefused, Resume, RequestPause, Decide, Crash, vars
<1> QED BY <1>1, <1>2, <1>3, <1>4, <1>5 DEF Next, Process

-----------------------------------------------------------------------------
(* The parts of the invariant *)

\* Only StartTask begins a task.
LEMMA BeginsByStart ==
    ASSUME IInv, [Next]_vars, NEW t \in Task, status[t] \notin Begun, status'[t] \in Begun
    PROVE  StartTask(t)
<1>0. status \in Board
  BY DEF IInv, TypeOK
<1>1. ~WritePlan
  <2> SUFFICES ASSUME WritePlan PROVE FALSE
    OBVIOUS
  <2>1. draft.status \in Board
    BY DEF IInv, TypeOK, Draft
  <2>2. status'[t] = draft.status[t] \/ status'[t] = "ready"
    BY <2>1 DEF WritePlan, Promoted, Board
  <2>3. draft.status[t] \in {status[t], "ready", "backlog"}
    BY DEF WritePlan, IInv, DraftInv
  <2> QED BY <2>2, <2>3 DEF Begun
<1>2. ~Settle
  BY <1>0 DEF Settle, Promoted, Board, Begun
<1>3. ~SoftContinue
  <2>1. ASSUME SoftContinue PROVE status'[t] \in {status[t], "ready"}
    BY <1>0, <2>1 DEF SoftContinue, Board
  <2> QED BY <2>1 DEF Begun
<1>4. ~Supersede
  <2>1. ASSUME Supersede PROVE status'[t] \in {status[t], "discarded"}
    BY <1>0, <2>1 DEF Supersede, Board
  <2> QED BY <2>1 DEF Begun
<1>5. ASSUME NEW u \in Task, StartTask(u) \/ Blocks(u) \/ HopTask(u) \/ AddRepair(u)
      PROVE  StartTask(t)
  <2>1. CASE StartTask(u)
    <3>1. t = u
      BY <1>0, <2>1 DEF StartTask, Board
    <3> QED BY <2>1, <3>1
  <2>2. CASE Blocks(u)
    <3>1. status'[t] \in {status[t], "blocked"}
      BY <1>0, <2>2, BlocksEffect DEF IInv, Board
    <3> QED BY <3>1 DEF Begun
  <2>3. CASE HopTask(u)
    <3>1. status[u] \in Begun /\ status' = [status EXCEPT ![u] = Hop(status[u])]
      BY <2>3, CurrentIsNotOver DEF HopTask, IInv, Begun
    <3> QED BY <1>0, <3>1 DEF Board
  <2>4. CASE AddRepair(u)
    <3>1. PICK n \in Task : status' = [status EXCEPT ![n] = "ready"]
      BY <2>4 DEF AddRepair
    <3>2. status'[t] \in {status[t], "ready"}
      BY <1>0, <3>1 DEF Board
    <3> QED BY <3>2 DEF Begun
  <2> QED BY <1>5, <2>1, <2>2, <2>3, <2>4
<1> QED BY StatusChangers, <1>1, <1>2, <1>3, <1>4, <1>5

LEMMA PlanStep == IInv /\ [Next]_vars => PlanInv'
<1> SUFFICES ASSUME IInv, [Next]_vars, NEW t \in Task, status'[t] \in Begun
             PROVE  deps'[t] \subseteq Done(status')
  BY DEF PlanInv
<1>0. status \in Board /\ deps \in Waits
  BY DEF IInv, TypeOK
<1>1. CASE status[t] \notin Begun
  <2>1. StartTask(t)
    BY <1>1, BeginsByStart
  <2>2. deps'[t] \subseteq Done(status)
    BY <2>1, CurrentIsNotOver DEF StartTask, IInv
  <2> QED BY <2>2, DoneStays
<1>2. CASE status[t] \in Begun
  <2>1. deps[t] \subseteq Done(status)
    BY <1>2 DEF IInv, PlanInv
  <2>2. deps'[t] = deps[t]
    <3>1. CASE WritePlan
      BY <1>2, <3>1 DEF WritePlan, IInv, DraftInv, Begun
    <3>2. CASE Rewire
      <4>1. mem.old \notin deps[t]
        BY <2>1, <3>2 DEF Rewire, IInv, ReplanInv, Done
      <4> QED BY <3>2, <4>1 DEF Rewire
    <3>3. CASE \E u \in Task : AddRepair(u)
      <4>1. PICK n \in Task : status[n] = "absent" /\ deps' = [deps EXCEPT ![n] = LastDone]
        BY <3>3 DEF AddRepair, NextId
      <4>2. n # t
        BY <1>2, <4>1 DEF Begun
      <4> QED BY <1>0, <4>1, <4>2 DEF Waits
    <3> QED BY <3>1, <3>2, <3>3, DepsChangers
  <2> QED BY <2>1, <2>2, DoneStays
<1> QED BY <1>1, <1>2

\* The current task leaves the selection, whatever became of it.
LEMMA LeavesSelection ==
    ASSUME IInv, [Next]_vars, NEW t \in Task, Current(t),
           pc \in {"next", "turn", "answer", "hops"}, pc' = "next", deps' = deps,
           mem'.chosen = mem.chosen \ {t},
           \A u \in Task \ {t} : status'[u] = status[u]
    PROVE  ChosenInv'
<1> SUFFICES ASSUME NEW u \in mem.chosen \ {t}
             PROVE  deps'[u] \subseteq Done(status') /\ status'[u] = "ready"
  BY DEF ChosenInv
<1>1. u \in Task /\ u # t
  BY DEF IInv, TypeOK, Memory
<1>2. ~Current(u)
  BY <1>1, OneCurrent DEF IInv
<1>3. status[u] = "ready" /\ deps[u] \subseteq Done(status)
  BY <1>2 DEF IInv, ChosenInv
<1> QED BY <1>1, <1>3, DoneStays

LEMMA ChosenStep == IInv /\ [Next]_vars => ChosenInv'
<1> SUFFICES ASSUME IInv, [Next]_vars PROVE ChosenInv'
  OBVIOUS
<1>0. mem \in Memory /\ status \in Board
  BY DEF IInv, TypeOK
<1>1. CASE UNCHANGED <<status, deps, evidence, pc, mem, draft>>
  BY <1>1 DEF IInv, ChosenInv, Current, Done
<1>2. CASE Execute
  <2>1. mem'.chosen = FirstReady(status, deps, MaxTasks)
    BY <1>0, <1>2 DEF Execute, Memory
  <2>2. \A t \in FirstReady(status, deps, MaxTasks) :
          status[t] = "ready" /\ deps[t] \subseteq Done(status)
    BY DEF FirstReady, ReadyTasks
  <2>3. pc' = "next" /\ status' = status /\ deps' = deps
    BY <1>2 DEF Execute, plan
  <2> QED BY <2>1, <2>2, <2>3 DEF ChosenInv
<1>3. ASSUME NEW t \in Task, TaskStep(t) PROVE ChosenInv'
  <2>1. CASE StartTask(t)
    <3>1. /\ Current(t) /\ pc = "next" /\ pc' = "turn" /\ deps' = deps
          /\ status' = [status EXCEPT ![t] = "in_progress"]
      BY <2>1 DEF StartTask
    <3>2. mem'.chosen = mem.chosen
      BY <1>0, <2>1 DEF StartTask, Memory
    <3>3. ASSUME NEW u \in mem.chosen
          PROVE  /\ deps'[u] \subseteq Done(status')
                 /\ u # t => ~Current(u) /\ status'[u] = "ready"
                 /\ u = t => status'[u] = "in_progress"
      <4>1. u \in Task
        BY <1>0 DEF Memory
      <4>2. u # t => ~Current(u)
        BY <3>1, <4>1, OneCurrent DEF IInv
      <4>3. deps[u] \subseteq Done(status) /\ status[u] = "ready"
        BY <3>1 DEF IInv, ChosenInv
      <4> QED BY <1>0, <3>1, <4>1, <4>2, <4>3, DoneStays DEF Board
    <3>4. \A u \in mem.chosen : Current(u)' <=> Current(u)
      BY <3>2 DEF Current
    <3> QED BY <3>1, <3>2, <3>3, <3>4 DEF ChosenInv
  <2>2. CASE Blocks(t)
    <3>1. \A u \in Task \ {t} : status'[u] = status[u]
      BY <1>0, <2>2, BlocksEffect DEF IInv, Board
    <3> QED BY <2>2, <3>1, BlocksEffect, LeavesSelection DEF IInv
  <2>3. CASE PauseTask(t)
    <3>1. mem'.chosen = mem.chosen \ {t}
      BY <1>0, <2>3 DEF PauseTask, Over, Memory
    <3> QED BY <2>3, <3>1, LeavesSelection DEF PauseTask, plan
  <2>4. CASE AskModel(t) \/ GoOn(t) \/ Completes(t)
    <3>1. mem'.chosen = mem.chosen /\ status' = status /\ deps' = deps
      BY <1>0, <2>4 DEF AskModel, GoOn, Completes, Memory, plan
    <3>2. Current(t) /\ pc \in {"turn", "answer"} /\ pc' \in {"turn", "answer", "hops"}
      BY <2>4 DEF AskModel, GoOn, Completes
    <3>3. \A u \in mem.chosen : Current(u)' <=> Current(u)
      BY <3>1 DEF Current
    <3> QED BY <3>1, <3>2, <3>3 DEF IInv, ChosenInv
  <2>5. CASE HopTask(t)
    <3>1. /\ Current(t) /\ pc = "hops" /\ deps' = deps
          /\ status' = [status EXCEPT ![t] = Hop(status[t])]
      BY <2>5 DEF HopTask
    <3>2. \A u \in Task \ {t} : status'[u] = status[u]
      BY <1>0, <3>1 DEF Board
    <3>3. CASE status'[t] = "done"
      <4>1. mem'.chosen = mem.chosen \ {t} /\ pc' = "next"
        BY <1>0, <2>5, <3>3 DEF HopTask, Over, Memory
      <4> QED BY <3>1, <3>2, <4>1, LeavesSelection
    <3>4. CASE status'[t] # "done"
      <4>1. mem' = mem /\ pc' = "hops"
        BY <2>5, <3>4 DEF HopTask
      <4>2. status'[t] \in {"testing", "reviewing"}
        <5>1. status[t] \in {"in_progress", "testing", "reviewing"}
          BY <3>1, CurrentIsNotOver DEF IInv
        <5>2. Hop(status[t]) \in {"testing", "reviewing", "done"}
          BY <5>1 DEF Hop
        <5> QED BY <1>0, <3>1, <3>4, <5>2 DEF Board
      <4>3. ASSUME NEW u \in mem.chosen
            PROVE  /\ deps'[u] \subseteq Done(status')
                   /\ u # t => ~Current(u) /\ status'[u] = "ready"
        <5>1. u \in Task
          BY <1>0 DEF Memory
        <5>2. u # t => ~Current(u)
          BY <3>1, <5>1, OneCurrent DEF IInv
        <5>3. deps[u] \subseteq Done(status) /\ (u # t => status[u] = "ready")
          BY <3>1, <5>2 DEF IInv, ChosenInv
        <5> QED BY <3>1, <3>2, <5>1, <5>2, <5>3, DoneStays
      <4>4. \A u \in mem.chosen : Current(u)' <=> Current(u)
        BY <4>1 DEF Current
      <4> QED BY <3>1, <4>1, <4>2, <4>3, <4>4 DEF ChosenInv
    <3> QED BY <3>3, <3>4
  <2> QED BY <1>3, <2>1, <2>2, <2>3, <2>4, <2>5 DEF TaskStep, Blocks
<1>4. CASE pc' \notin {"next", "turn", "answer", "hops"}
  BY <1>4 DEF ChosenInv
<1>5. Resume \/ ApplyDecision \/ Replan \/ Supersede \/ Rewire \/ pc' \in Plain
        \/ (\E t \in Task : Escalate(t) \/ AddRepair(t))
      => pc' \notin {"next", "turn", "answer", "hops"}
  BY DEF Resume, ApplyDecision, Replan, Supersede, Rewire, Plain, Escalate, AddRepair
<1> QED BY StepLeads, <1>1, <1>2, <1>3, <1>4, <1>5

LEMMA ReplanStep == IInv /\ [Next]_vars => ReplanInv'
<1> SUFFICES ASSUME IInv, [Next]_vars PROVE ReplanInv'
  OBVIOUS
<1>0. mem \in Memory /\ status \in Board /\ evidence \in Evidence
  BY DEF IInv, TypeOK
<1>1. CASE UNCHANGED <<status, deps, evidence, pc, mem, draft>>
  BY <1>1 DEF IInv, ReplanInv, Failures
<1>2. CASE Replan
  <2>1. PICK S \in SUBSET Candidates :
          mem' = [mem EXCEPT !.todo = S, !.created = FALSE, !.escalated = FALSE]
    BY <1>2 DEF Replan
  <2>2. mem'.todo = S
    BY <1>0, <2>1 DEF Memory
  <2>3. pc' = "replan" /\ status' = status /\ evidence' = evidence
    BY <1>2 DEF Replan, plan, files
  <2> QED BY <2>1, <2>2, <2>3 DEF ReplanInv, Candidates, Failures
<1>3. ASSUME NEW t \in Task, Escalate(t) PROVE ReplanInv'
  <2>1. mem'.todo = mem.todo \ {t}
    BY <1>0, <1>3 DEF Escalate, Memory
  <2>2. \A u \in Task \ {t} : evidence'[u] = evidence[u]
    BY <1>0, <1>3 DEF Escalate, Handled, Evidence
  <2>3. pc = "replan" /\ pc' = "replan" /\ status' = status
    BY <1>3 DEF Escalate, plan
  <2>4. mem.todo \subseteq Task
    BY <1>0 DEF Memory
  <2> QED BY <2>1, <2>2, <2>3, <2>4 DEF IInv, ReplanInv, Failures
<1>4. ASSUME NEW t \in Task, AddRepair(t) PROVE ReplanInv'
  <2>1. PICK n \in Task :
          /\ status[n] = "absent"
          /\ status' = [status EXCEPT ![n] = "ready"]
          /\ mem' = [mem EXCEPT !.todo = @ \ {t}, !.created = TRUE, !.old = t, !.new = n]
    BY <1>4 DEF AddRepair, NextId
  <2>2. mem'.todo = mem.todo \ {t} /\ mem'.old = t /\ mem'.new = n
    BY <1>0, <2>1 DEF Memory
  <2>3. \A u \in Task \ {t} : evidence'[u] = evidence[u]
    BY <1>0, <1>4 DEF AddRepair, Handled, Evidence
  <2>4. pc = "replan" /\ pc' = "supersede" /\ t \in mem.todo
    BY <1>4 DEF AddRepair
  <2>5. mem.todo \subseteq Task
    BY <1>0 DEF Memory
  <2>6. \A u \in mem.todo : status[u] = "blocked" /\ Failures(u) # <<>>
    BY <2>4 DEF IInv, ReplanInv
  <2>7. \A u \in mem.todo : status'[u] = "blocked"
    BY <1>0, <2>1, <2>5, <2>6 DEF Board
  <2> QED BY <2>2, <2>3, <2>4, <2>5, <2>6, <2>7 DEF ReplanInv, Failures
<1>5. CASE Supersede
  <2>1. /\ pc = "supersede" /\ pc' = "rewire" /\ mem' = mem /\ evidence' = evidence
        /\ status' = [status EXCEPT ![mem.old] = "discarded"]
    BY <1>5 DEF Supersede, files
  <2>2. /\ mem.old \in Task \ mem.todo /\ mem.new \in Task /\ mem.todo \subseteq Task
        /\ \A t \in mem.todo : status[t] = "blocked" /\ Failures(t) # <<>>
    BY <1>0, <2>1 DEF IInv, ReplanInv, Memory
  <2>3. status'[mem.old] = "discarded" /\ \A t \in mem.todo : status'[t] = status[t]
    BY <1>0, <2>1, <2>2 DEF Board
  <2> QED BY <2>1, <2>2, <2>3 DEF ReplanInv, Failures
<1>6. CASE Rewire
  <2>1. mem'.todo = mem.todo
    BY <1>0, <1>6 DEF Rewire, Memory
  <2>2. pc = "rewire" /\ pc' = "replan" /\ status' = status /\ evidence' = evidence
    BY <1>6 DEF Rewire, files
  <2> QED BY <2>1, <2>2 DEF IInv, ReplanInv, Failures
<1>7. CASE pc' \notin {"replan", "supersede", "rewire"}
  BY <1>7 DEF ReplanInv
<1>8. ASSUME NEW t \in Task, TaskStep(t) PROVE pc' \notin {"replan", "supersede", "rewire"}
  <2>1. CASE Blocks(t)
    BY <2>1, BlocksEffect DEF IInv
  <2> QED BY <1>8, <2>1 DEF TaskStep, Blocks, StartTask, PauseTask, AskModel, GoOn,
     Completes, HopTask
<1>9. Resume \/ ApplyDecision \/ Execute \/ pc' \in Plain
      => pc' \notin {"replan", "supersede", "rewire"}
  BY DEF Resume, ApplyDecision, Execute, Plain
<1> QED BY StepLeads, <1>1, <1>2, <1>3, <1>4, <1>5, <1>6, <1>7, <1>8, <1>9

LEMMA DraftStep == IInv /\ [Next]_vars => DraftInv'
<1> SUFFICES ASSUME IInv, [Next]_vars PROVE DraftInv'
  OBVIOUS
<1>0. draft.status \in Board /\ draft.deps \in Waits
  BY DEF IInv, TypeOK, Draft
<1>1. CASE UNCHANGED <<status, deps, evidence, pc, mem, draft>>
  BY <1>1 DEF IInv, DraftInv
<1>2. CASE Resume
  BY <1>2 DEF Resume, DraftInv, plan
<1>3. CASE ApplyDecision
  <2>1. PICK i \in Unapplied : GrantApproval(i) \/ AddAsked(i) \/ ChangesNothing(i)
    BY <1>3 DEF ApplyDecision
  <2>2. pc = "apply" /\ UNCHANGED <<status, deps>>
    BY <1>3 DEF ApplyDecision, plan
  <2>3. CASE GrantApproval(i)
    <3>1. draft' = [draft EXCEPT !.status[decisions[i].task] = "ready"]
          /\ draft.status[decisions[i].task] = "blocked"
      BY <2>3 DEF GrantApproval
    <3>2. draft'.deps = draft.deps /\ \A t \in Task :
            draft'.status[t] = IF t = decisions[i].task THEN "ready" ELSE draft.status[t]
      BY <1>0, <3>1 DEF IInv, TypeOK, Draft, Board
    <3>3. ASSUME NEW t \in Task
          PROVE  \/ draft.status[t] = status[t] /\ draft.deps[t] = deps[t]
                 \/ status[t] = "blocked" /\ draft.status[t] = "ready" /\ draft.deps[t] = deps[t]
                 \/ status[t] = "absent" /\ draft.status[t] = "backlog"
      BY <2>2 DEF IInv, DraftInv
    <3> QED BY <2>2, <3>1, <3>2, <3>3 DEF DraftInv
  <2>4. CASE AddAsked(i)
    <3>1. PICK n \in Task :
            /\ draft.status[n] = "absent"
            /\ draft' = [status |-> [draft.status EXCEPT ![n] = "backlog"],
                         deps |-> [draft.deps EXCEPT ![n] = LastActive(draft.status)],
                         asked |-> [draft.asked EXCEPT ![n] = i]]
      BY <2>4 DEF AddAsked, NextId
    <3>2. \A t \in Task \ {n} : draft'.status[t] = draft.status[t] /\ draft'.deps[t] = draft.deps[t]
      BY <1>0, <3>1 DEF Board, Waits
    <3>3. draft'.status[n] = "backlog" /\ status[n] = "absent"
      BY <1>0, <2>2, <3>1 DEF Board, IInv, DraftInv
    <3>4. ASSUME NEW t \in Task \ {n}
          PROVE  \/ draft.status[t] = status[t] /\ draft.deps[t] = deps[t]
                 \/ status[t] = "blocked" /\ draft.status[t] = "ready" /\ draft.deps[t] = deps[t]
                 \/ status[t] = "absent" /\ draft.status[t] = "backlog"
      BY <2>2 DEF IInv, DraftInv
    <3> QED BY <2>2, <3>2, <3>3, <3>4 DEF DraftInv
  <2>5. CASE ChangesNothing(i)
    BY <2>2, <2>5 DEF ChangesNothing, IInv, DraftInv
  <2> QED BY <2>1, <2>3, <2>4, <2>5
<1>4. CASE pc' \notin {"apply", "write"}
  BY <1>4 DEF DraftInv
<1>5. ASSUME NEW t \in Task, TaskStep(t) PROVE pc' \notin {"apply", "write"}
  <2>1. CASE Blocks(t)
    BY <2>1, BlocksEffect DEF IInv
  <2> QED BY <1>5, <2>1 DEF TaskStep, Blocks, StartTask, PauseTask, AskModel, GoOn,
     Completes, HopTask
<1>6. Execute \/ Replan \/ Supersede \/ Rewire \/ pc' \in Plain
        \/ (\E t \in Task : Escalate(t) \/ AddRepair(t))
      => pc' \notin {"apply", "write"}
  BY DEF Execute, Replan, Supersede, Rewire, Plain, Escalate, AddRepair
<1> QED BY StepLeads, <1>1, <1>2, <1>3, <1>4, <1>5, <1>6

-----------------------------------------------------------------------------
(* The invariant and what follows from it *)

LEMMA InvInit == Init => IInv
<1> SUFFICES ASSUME Init PROVE IInv
  OBVIOUS
<1>1. PlanInv
  <2>1. \A t \in Task : status[t] \notin Begun
    BY DEF Init, Begun
  <2> QED BY <2>1 DEF PlanInv
<1> QED BY <1>1, TypeInit DEF Init, IInv, ChosenInv, ReplanInv, DraftInv

LEMMA InvStep == IInv /\ [Next]_vars => IInv'
BY TypeStep, PlanStep, ChosenStep, ReplanStep, DraftStep DEF IInv

LEMMA InvAlways == Spec => []IInv
BY InvInit, InvStep, PTL DEF Spec

(* Every variable of the run, in files and in memory, keeps its type.      *)
THEOREM TypeCorrect == Spec => []TypeOK
<1>1. IInv => TypeOK
  BY DEF IInv
<1> QED BY InvAlways, <1>1, PTL

(* No task is begun, and none is finished, before all it waits for is      *)
(* done, for every plan, cap and history of failures, answers and crashes. *)
THEOREM DependenciesHold == Spec => []DependenciesDone
<1>1. IInv => DependenciesDone
  BY DEF IInv, PlanInv, DependenciesDone, Begun, Done
<1> QED BY InvAlways, <1>1, PTL

(* Every write of a status, by any component, is one the board's table     *)
(* allows; so a task that is done or discarded stays so.                   *)
THEOREM TableHolds == Spec => StatusFollowsTable
<1> DEFINE Follows == \A t \in Task :
              \/ status'[t] = status[t]
              \/ status[t] = "absent" /\ status'[t] \in {"backlog", "ready"}
              \/ status[t] # "absent" /\ status'[t] \in Allowed[status[t]]
<1>1. IInv /\ [Next]_vars => [Follows]_vars
  BY TableStep DEF Moves
<1> QED BY InvAlways, <1>1, PTL DEF Spec, StatusFollowsTable

-----------------------------------------------------------------------------
(* The iterations *)

\* The inner loop is left with a reason to stop the iterations as well.
OuterInv ==
    pc = "outer" => mem.userPaused \/ run.status \in {"blocked", "paused"} \/ Ready = {}

LEMMA OuterReached ==
    ASSUME [Next]_vars, pc' = "outer"
    PROVE  \/ CyclesUp \/ NothingReady \/ UserPaused \/ Blocked \/ ReplanEnds
           \/ pc = "outer" /\ UNCHANGED <<status, deps, run, mem>>
<1> USE DEF plan, files
<1>1. CASE UNCHANGED vars \/ ResumeRefused \/ RequestPause \/ Decide
  BY <1>1 DEF vars, ResumeRefused, RequestPause, Decide
<1>2. ~(\/ Launch \/ Resume \/ ApplyDecision \/ WritePlan \/ ResumeDeclines \/ ResumeGoesOn
        \/ Iterate \/ BudgetGuard \/ IterationsUp \/ Cycle \/ Outer \/ Finish)
  BY DEF Launch, Resume, ApplyDecision, WritePlan, ResumeDeclines, ResumeGoesOn, Iterate,
     BudgetGuard, IterationsUp, Cycle, Outer, Finish, Exit
<1>3. ~(\/ Execute \/ Settle \/ Finalize \/ NotBlocked \/ SoftContinue \/ Replan
        \/ Supersede \/ Rewire \/ Crash)
  BY DEF Execute, Settle, Finalize, NotBlocked, SoftContinue, Replan, Supersede, Rewire, Crash
<1>4. ASSUME NEW t \in Task, TaskStep(t) \/ Escalate(t) \/ AddRepair(t) PROVE FALSE
  <2>1. CASE Blocks(t)
    BY <2>1 DEF Blocks, GateBlocks, FuseTrips, ContractFails, NeedsApproval, Raises,
       OverBudget, Block
  <2>2. CASE HopTask(t)
    BY <2>2 DEF HopTask
  <2> QED BY <1>4, <2>1, <2>2 DEF TaskStep, Blocks, StartTask, PauseTask, AskModel, GoOn,
          Completes, Escalate, AddRepair
<1> QED BY <1>1, <1>2, <1>3, <1>4 DEF Next, Process

LEMMA OuterStep == IInv /\ OuterInv /\ [Next]_vars => OuterInv'
<1> SUFFICES ASSUME IInv, OuterInv, [Next]_vars, pc' = "outer"
             PROVE  mem'.userPaused \/ run'.status \in {"blocked", "paused"} \/ Ready' = {}
  BY DEF OuterInv
<1>0. run \in RunRecord /\ mem \in Memory
  BY DEF IInv, TypeOK
<1>1. CASE pc = "outer" /\ UNCHANGED <<status, deps, run, mem>>
  BY <1>1 DEF OuterInv, Ready, ReadyTasks, Done
<1>2. CASE CyclesUp
  BY <1>2 DEF CyclesUp, Waiting
<1>3. CASE NothingReady
  BY <1>3 DEF NothingReady, Ready, ReadyTasks, Done, plan
<1>4. CASE UserPaused \/ Blocked
  BY <1>0, <1>4 DEF UserPaused, Blocked, BlockedHere, RunRecord, files
<1>5. CASE ReplanEnds
  BY <1>0, <1>5 DEF ReplanEnds, Waiting, RunRecord
<1> QED BY OuterReached, <1>1, <1>2, <1>3, <1>4, <1>5

(* Whatever the cap on iterations, a process drives the plan in the inner  *)
(* loop of one: it never goes from the end of one iteration to another.    *)
THEOREM OneIteration == Spec => OneIterationIsEnough
<1>1. Init => OuterInv
  BY DEF Init, OuterInv
<1>2. IInv /\ OuterInv /\ [Next]_vars => [pc = "outer" => pc' # "iterate"]_vars
  <2> SUFFICES ASSUME OuterInv, [Next]_vars, pc = "outer" PROVE pc' # "iterate" \/ UNCHANGED vars
    OBVIOUS
  <2>1. CASE Outer
    BY <2>1 DEF Outer, OuterInv
  <2>2. ~(Launch \/ ResumeGoesOn)
    BY DEF Launch, CanStart, ResumeGoesOn
  <2>3. CASE ~Outer
    <3>1. CASE pc' = pc
      BY <3>1
    <3>2. CASE Crash
      BY <3>2 DEF Crash
    <3>3. CASE ResumeRefused \/ RequestPause \/ Decide
      BY <3>3 DEF ResumeRefused, RequestPause, Decide
    <3>4. ~(\/ Resume \/ ApplyDecision \/ WritePlan \/ ResumeDeclines \/ Iterate \/ BudgetGuard
            \/ IterationsUp \/ Cycle \/ CyclesUp \/ NothingReady \/ Finish \/ Execute)
      BY DEF Resume, CanStart, ApplyDecision, WritePlan, ResumeDeclines, Iterate, BudgetGuard,
         IterationsUp, Cycle, CyclesUp, NothingReady, Finish, Execute
    <3>5. ~(\/ Settle \/ Finalize \/ UserPaused \/ NotBlocked \/ Blocked \/ SoftContinue
            \/ Replan \/ Supersede \/ Rewire \/ ReplanEnds)
      BY DEF Settle, Finalize, UserPaused, NotBlocked, Blocked, BlockedHere, SoftContinue,
         Replan, Supersede, Rewire, ReplanEnds
    <3>6. ASSUME NEW t \in Task, TaskStep(t) \/ Escalate(t) \/ AddRepair(t) PROVE FALSE
      BY <3>6 DEF TaskStep, StartTask, GateBlocks, PauseTask, AskModel, OverBudget, GoOn,
         Completes, FuseTrips, ContractFails, NeedsApproval, Raises, HopTask, Escalate, AddRepair
    <3> QED BY <2>2, <2>3, <3>1, <3>2, <3>3, <3>4, <3>5, <3>6 DEF Next, Process, vars
  <2> QED BY <2>1, <2>3
<1> QED BY InvAlways, <1>1, <1>2, OuterStep, PTL DEF Spec, OneIterationIsEnough

-----------------------------------------------------------------------------
(***************************************************************************)
(* What a run that ended leaves in its files.  The parts of FilesInv say    *)
(* for every place of the process what its end relies on: the question that *)
(* is open and the status (AskedInv), the answers and their tasks           *)
(* (AnswerInv), the tasks that were replaced (FollowInv), the tasks half    *)
(* way and the ones that could start (SettledInv), the approvals            *)
(* (ApprovalInv), and what "completed" stands for (DoneInv).                *)
(***************************************************************************)

Executing == {"next", "turn", "answer", "hops"}
Replanning == {"replan", "supersede", "rewire"}
Drafting == {"apply", "write"}

\* A question that was asked is in the run's status, or on its way to it.
AskedInv ==
    crashes = 0 /\ Pending # {} =>
        /\ pc \notin Drafting \cup {"resumed"}
        /\ pc \in {"off", "iterate", "cycle", "execute", "after", "outer", "finish"} =>
             run.status = "paused"
        /\ pc \in Replanning => mem.escalated

\* An answer that counts as applied has its task, in the draft or in the plan.
Wanted(i) == /\ decisions[i].applied
             /\ decisions[i].kind = "repair" /\ decisions[i].answer = "yes"

AnswerInv ==
    /\ \A i \in DOMAIN decisions : decisions[i].applied => decisions[i].answer # "pending"
    /\ \A t \in Task : status[t] = "absent" => asked[t] = 0
    /\ pc \in Drafting => \A t \in Task : draft.status[t] = "absent" => draft.asked[t] = 0
    /\ crashes = 0 => \A i \in DOMAIN decisions : Wanted(i) =>
         \E t \in Task : IF pc \in Drafting THEN draft.asked[t] = i ELSE asked[t] = i

\* Nobody waits for a replaced task, but while its dependents are rewired.
FollowInv ==
    crashes = 0 =>
        /\ \A t \in Task : \A d \in deps[t] :
             status[d] = "discarded" => pc = "rewire" /\ d = mem.old
        /\ pc \in Drafting => \A t \in Task : \A d \in draft.deps[t] :
             status[d] # "discarded"

\* A task is half way only while the selection is executed, and a task that
\* could start is promoted before the execute is over.
HalfWay == {"in_progress", "testing", "reviewing"}

SettledInv ==
    /\ pc \in {"supersede", "rewire"} => status[mem.new] = "ready"
    /\ crashes = 0 =>
         /\ \A t \in Task : status[t] \in HalfWay =>
              \/ pc \in Executing /\ t \in mem.paused /\ status[t] = "in_progress"
              \/ pc \in Executing \ {"next"} /\ Current(t)
         /\ pc \notin Executing => \A t \in Task :
              status[t] = "backlog" => ~(deps[t] \subseteq Done(status))

\* An approval that is not both given and applied is the last one asked for
\* its task, and the task stays where it was blocked: nothing says that only
\* its rounds ran out.
Granted(i) == decisions[i].answer = "yes" /\ decisions[i].applied

Stuck == {"blocked", "discarded"}

ApprovalInv ==
    \A i \in DOMAIN decisions : decisions[i].kind = "approval" =>
        /\ decisions[i].task \in Task /\ status[decisions[i].task] # "absent"
        /\ \/ Granted(i)
           \/ /\ status[decisions[i].task] \in Stuck
              /\ pc \in Drafting => draft.status[decisions[i].task] \in Stuck
              /\ ~(summary.task = decisions[i].task /\ summary.exit = "max_rounds")
              /\ \A j \in DOMAIN decisions :
                   decisions[j].kind = "approval" /\ decisions[j].task = decisions[i].task
                     => j <= i

\* "completed" is said of a resolved board, and taken back by the next execute.
Complete == run.status = "completed" /\ run.phase # "PLAN"
AddedOnly(st, as) ==
    /\ \E t \in Task : st[t] = "done"
    /\ \A t \in Task : \/ st[t] \in {"absent", "done", "discarded"}
                       \/ as[t] # 0 /\ st[t] \in {"backlog", "ready"}

DoneInv ==
    /\ pc \in Executing \cup {"finalize"} => run.status = "running"
    /\ pc \in Replanning => run.status = "blocked"
    /\ Complete => AddedOnly(status, asked)
    /\ Complete /\ pc \in Drafting => AddedOnly(draft.status, draft.asked)

FilesInv == AskedInv /\ AnswerInv /\ FollowInv /\ SettledInv /\ ApprovalInv /\ DoneInv

\* A step of a task touches neither the record nor the dependencies.
LEMMA TaskFrame ==
    ASSUME NEW t \in Task, TaskStep(t)
    PROVE  /\ UNCHANGED <<deps, source, asked, run, draft, crashes>>
           /\ pc \in Executing /\ pc' \in Executing /\ Current(t)
           /\ UNCHANGED decisions \/ NeedsApproval(t)
<1>1. CASE StartTask(t) \/ PauseTask(t) \/ AskModel(t) \/ GoOn(t) \/ Completes(t) \/ HopTask(t)
  BY <1>1 DEF StartTask, PauseTask, AskModel, GoOn, Completes, HopTask, plan, files, bounds,
     Executing
<1>2. CASE Blocks(t)
  BY <1>2 DEF Blocks, GateBlocks, FuseTrips, ContractFails, NeedsApproval, Raises, OverBudget,
     Block, files, bounds, Executing
<1> QED BY <1>1, <1>2 DEF TaskStep, Blocks

LEMMA AskedStep == IInv /\ AskedInv /\ DoneInv /\ [Next]_vars => AskedInv'
<1> SUFFICES ASSUME IInv, AskedInv, DoneInv, [Next]_vars, crashes' = 0, Pending' # {}
             PROVE  AskedInv'
  BY DEF AskedInv
<1> USE DEF plan, files, bounds
<1>0. run \in RunRecord /\ mem \in Memory /\ decisions \in Seq(Decision)
  BY DEF IInv, TypeOK
<1>1. CASE \E t \in Task : TaskStep(t)
  BY <1>1, TaskFrame DEF AskedInv, Executing, Drafting, Replanning
<1>2. CASE Execute \/ Settle
  BY <1>2 DEF Execute, Settle, AskedInv, Drafting, Replanning
<1>3. CASE Finalize
  BY <1>3 DEF Finalize, Verdict, Waiting, Pending, AskedInv, Drafting, Replanning
<1>4. CASE Launch \/ Iterate \/ IterationsUp \/ Cycle \/ NothingReady \/ Outer \/ NotBlocked
  <2>1. Pending # {} /\ crashes = 0 /\ run' = run
    BY <1>4 DEF Launch, Started, Iterate, IterationsUp, Cycle, NothingReady, Outer, NotBlocked,
       Pending
  <2> QED BY <1>4, <2>1 DEF Launch, CanStart, Iterate, IterationsUp, Cycle, NothingReady, Outer,
          NotBlocked, AskedInv, Drafting, Replanning
<1>5. CASE BudgetGuard \/ CyclesUp
  BY <1>5 DEF BudgetGuard, CyclesUp, Waiting, AskedInv, Drafting, Replanning
<1>6. CASE UserPaused
  BY <1>0, <1>6 DEF UserPaused, RunRecord, AskedInv, Drafting, Replanning
<1>7. CASE Finish \/ ResumeDeclines
  <2>1. Pending # {} /\ crashes = 0
    BY <1>7 DEF Finish, ResumeDeclines, Exit, Pending
  <2> QED BY <1>7, <2>1 DEF Finish, ResumeDeclines, Exit, AskedInv, Drafting, Replanning
<1>8. ~(Resume \/ ApplyDecision \/ WritePlan \/ ResumeGoesOn)
  <2>1. ~Resume
    BY DEF Resume, Pending
  <2>2. ~WritePlan /\ ~ResumeGoesOn
    BY DEF WritePlan, ResumeGoesOn, AskedInv, Drafting, Pending
  <2>3. ~ApplyDecision
    <3> SUFFICES ASSUME ApplyDecision PROVE FALSE
      OBVIOUS
    <3>1. PICK i \in Unapplied : decisions' = [decisions EXCEPT ![i].applied = TRUE]
      BY DEF ApplyDecision
    <3>2. pc = "apply" /\ crashes = 0
      BY DEF ApplyDecision
    <3>3. Pending # {}
      BY <1>0, <3>1 DEF Pending, Unapplied, Decision
    <3> QED BY <3>2, <3>3 DEF AskedInv, Drafting
  <2> QED BY <2>1, <2>2, <2>3
<1>9. ~(Blocked \/ SoftContinue \/ Replan)
  <2> SUFFICES ASSUME Blocked \/ SoftContinue \/ Replan PROVE FALSE
    OBVIOUS
  <2>1. pc = "after" /\ run.status = "blocked"
    BY DEF Blocked, SoftContinue, Replan, BlockedHere
  <2>2. Pending # {} /\ crashes = 0
    BY DEF Blocked, SoftContinue, Replan, Pending
  <2> QED BY <2>1, <2>2 DEF AskedInv
<1>10. ASSUME NEW t \in Task, Escalate(t) PROVE AskedInv'
  <2>1. pc' = "replan" /\ mem'.escalated
    BY <1>0, <1>10 DEF Escalate, Memory
  <2> QED BY <2>1 DEF AskedInv, Drafting, Replanning
<1>11. ASSUME NEW t \in Task, AddRepair(t) PROVE AskedInv'
  <2>1. pc' = "supersede" /\ pc = "replan" /\ decisions' = decisions /\ crashes' = crashes
    BY <1>11 DEF AddRepair
  <2>2. mem'.escalated = mem.escalated
    BY <1>0, <1>11 DEF AddRepair, Memory
  <2> QED BY <2>1, <2>2 DEF AskedInv, Drafting, Replanning, Pending
<1>12. CASE Supersede \/ Rewire
  <2>1. pc' \in Replanning /\ pc \in Replanning /\ decisions' = decisions /\ crashes' = crashes
    BY <1>12 DEF Supersede, Rewire, Replanning
  <2>2. mem'.escalated = mem.escalated
    BY <1>0, <1>12 DEF Supersede, Rewire, Memory
  <2> QED BY <2>1, <2>2 DEF AskedInv, Drafting, Replanning, Pending
<1>13. CASE ReplanEnds
  <2>1. Pending # {} /\ crashes = 0 /\ pc = "replan"
    BY <1>13 DEF ReplanEnds, Pending
  <2>2. mem.escalated
    BY <2>1 DEF AskedInv, Replanning
  <2> QED BY <1>13, <2>2 DEF ReplanEnds, Waiting, AskedInv, Drafting, Replanning
<1>14. CASE ResumeRefused \/ RequestPause \/ UNCHANGED vars
  BY <1>14 DEF ResumeRefused, RequestPause, vars, AskedInv, Pending
<1>15. CASE Decide
  <2>1. Pending # {}
    BY <1>15 DEF Decide
  <2> QED BY <1>15, <2>1 DEF Decide, AskedInv
<1>16. CASE Crash
  <2>1. crashes \in Nat
    BY DEF IInv, TypeOK
  <2> QED BY <1>16, <2>1 DEF Crash
<1> QED
  BY <1>1, <1>2, <1>3, <1>4, <1>5, <1>6, <1>7, <1>8, <1>9, <1>10, <1>11, <1>12, <1>13, <1>14,
     <1>15, <1>16
  DEF Next, Process

\* Who writes the record, and what.
LEMMA DoneStep == IInv /\ DoneInv /\ ApprovalInv /\ [Next]_vars => DoneInv'
<1> SUFFICES ASSUME IInv, DoneInv, ApprovalInv, [Next]_vars PROVE DoneInv'
  OBVIOUS
<1> USE DEF plan, files, bounds
<1>0. /\ run \in RunRecord /\ mem \in Memory /\ status \in Board
      /\ draft.status \in Board /\ draft.asked \in [Task -> Nat] /\ asked \in [Task -> Nat]
  BY DEF IInv, TypeOK, Draft
<1>1. CASE \E t \in Task : TaskStep(t)
  BY <1>1, TaskFrame DEF DoneInv, Complete, Executing, Drafting, Replanning
<1>2. CASE Execute
  BY <1>2 DEF Execute, DoneInv, Complete, Executing, Drafting, Replanning
<1>3. CASE Settle
  BY <1>3 DEF Settle, DoneInv, Complete, Executing, Drafting, Replanning
<1>4. CASE Finalize
  <2>1. pc' = "after" /\ run' = Verdict /\ status' = status /\ asked' = asked
    BY <1>4 DEF Finalize
  <2>2. run'.status = "completed" => Resolved(status)
    <3>1. [run EXCEPT !.status = "blocked"].status = "blocked"
          /\ [run EXCEPT !.status = "running"].status = "running"
      BY <1>0 DEF RunRecord
    <3> QED BY <2>1, <3>1 DEF Verdict, Waiting
  <2>3. Resolved(status) => AddedOnly(status, asked)
    BY <1>0 DEF Resolved, AddedOnly, Active, Done, Board
  <2> QED BY <2>1, <2>2, <2>3 DEF DoneInv, Complete, Executing, Drafting, Replanning
<1>5. CASE \/ Launch \/ Iterate \/ IterationsUp \/ Cycle \/ NothingReady \/ Outer \/ NotBlocked
           \/ Blocked \/ ResumeDeclines \/ ResumeRefused \/ RequestPause \/ Decide \/ Crash
  <2>1. UNCHANGED <<run, status, asked>>
    BY <1>5 DEF Launch, Iterate, IterationsUp, Cycle, NothingReady, Outer, NotBlocked, Blocked,
       ResumeDeclines, ResumeRefused, RequestPause, Decide, Crash
  <2>2. pc' \notin Executing \cup {"finalize"} \cup Replanning \cup Drafting \/ UNCHANGED <<pc, draft>>
    BY <1>5 DEF Launch, Iterate, IterationsUp, Cycle, NothingReady, Outer, NotBlocked, Blocked,
       ResumeDeclines, ResumeRefused, RequestPause, Decide, Crash, Exit, Executing, Drafting,
       Replanning
  <2> QED BY <2>1, <2>2 DEF DoneInv, Complete
<1>6. CASE BudgetGuard \/ CyclesUp \/ UserPaused \/ ReplanEnds \/ SoftContinue
  <2>1. pc' \notin Executing \cup {"finalize"} \cup Drafting
    BY <1>6 DEF BudgetGuard, CyclesUp, UserPaused, ReplanEnds, SoftContinue, Executing, Drafting
  <2>2. pc' \notin Replanning
    BY <1>6 DEF BudgetGuard, CyclesUp, UserPaused, ReplanEnds, SoftContinue, Replanning
  <2>3. run'.status # "completed"
    BY <1>0, <1>6 DEF BudgetGuard, CyclesUp, UserPaused, ReplanEnds, SoftContinue, BlockedHere,
       Waiting, RunRecord
  <2> QED BY <2>1, <2>2, <2>3 DEF DoneInv, Complete
<1>7. CASE Finish
  <2>1. pc' = "off" /\ status' = status /\ asked' = asked
    BY <1>7 DEF Finish, Exit
  <2>2. Complete' => Complete
    BY <1>0, <1>7 DEF Finish, Complete, RunRecord
  <2> QED BY <2>1, <2>2 DEF DoneInv, Executing, Drafting, Replanning
<1>8. CASE ResumeGoesOn
  BY <1>8 DEF ResumeGoesOn, DoneInv, Complete, Executing, Drafting, Replanning
<1>9. CASE Resume
  <2>1. draft'.status = status /\ draft'.asked = asked
    BY <1>9 DEF Resume
  <2> QED BY <1>9, <2>1 DEF Resume, DoneInv, Complete, Executing, Drafting, Replanning
<1>10. CASE ApplyDecision
  <2>1. /\ pc = "apply" /\ pc' \in Drafting /\ UNCHANGED <<run, status, asked>>
    BY <1>10 DEF ApplyDecision, Drafting
  <2>2. ASSUME AddedOnly(draft.status, draft.asked)
        PROVE  AddedOnly(draft'.status, draft'.asked)
    <3>1. PICK i \in Unapplied : GrantApproval(i) \/ AddAsked(i) \/ ChangesNothing(i)
      BY <1>10 DEF ApplyDecision
    <3>2. ~GrantApproval(i)
      <4>1. ASSUME GrantApproval(i) PROVE decisions[i].task \in Task
        BY <4>1 DEF GrantApproval, Unapplied, IInv, TypeOK, Decision, ApprovalInv
      <4> QED BY <2>2, <4>1 DEF GrantApproval, AddedOnly
    <3>3. CASE AddAsked(i)
      <4>1. PICK n \in Task :
              /\ draft.status[n] = "absent"
              /\ draft' = [status |-> [draft.status EXCEPT ![n] = "backlog"],
                            deps |-> [draft.deps EXCEPT ![n] = LastActive(draft.status)],
                            asked |-> [draft.asked EXCEPT ![n] = i]]
        BY <3>3 DEF AddAsked, NextId
      <4>2. i # 0
        BY <3>1 DEF Unapplied, IInv, TypeOK
      <4>3. \A t \in Task : /\ draft'.status[t] = IF t = n THEN "backlog" ELSE draft.status[t]
                            /\ draft'.asked[t] = IF t = n THEN i ELSE draft.asked[t]
        BY <1>0, <4>1 DEF Board
      <4> QED BY <2>2, <4>1, <4>2, <4>3 DEF AddedOnly
    <3>4. CASE ChangesNothing(i)
      BY <2>2, <3>4 DEF ChangesNothing
    <3> QED BY <3>1, <3>2, <3>3, <3>4
  <2> QED BY <2>1, <2>2 DEF DoneInv, Complete, Executing, Drafting, Replanning
<1>11. CASE WritePlan
  <2>1. /\ status' = Promoted(draft.status, draft.deps) /\ asked' = draft.asked
        /\ pc = "write" /\ pc' = "resumed" /\ run' = run
    BY <1>11 DEF WritePlan
  <2>2. \A t \in Task : \/ status'[t] = draft.status[t]
                        \/ draft.status[t] = "backlog" /\ status'[t] = "ready"
    BY <1>0, <2>1 DEF Promoted, Board
  <2>3. AddedOnly(draft.status, draft.asked) => AddedOnly(status', asked')
    BY <2>1, <2>2 DEF AddedOnly
  <2> QED BY <2>1, <2>3 DEF DoneInv, Complete, Executing, Drafting, Replanning
<1>12. CASE Replan \/ Supersede \/ Rewire \/ (\E t \in Task : Escalate(t) \/ AddRepair(t))
  <2>1. pc' \in Replanning /\ run' = run
    BY <1>12 DEF Replan, Supersede, Rewire, Escalate, AddRepair, Replanning
  <2>2. run.status = "blocked"
    BY <1>12 DEF Replan, BlockedHere, Supersede, Rewire, Escalate, AddRepair, DoneInv, Replanning
  <2> QED BY <2>1, <2>2 DEF DoneInv, Complete, Executing, Drafting, Replanning
<1>13. CASE UNCHANGED vars
  BY <1>13 DEF vars, DoneInv, Complete
<1> QED
  BY <1>1, <1>2, <1>3, <1>4, <1>5, <1>6, <1>7, <1>8, <1>9, <1>10, <1>11, <1>12, <1>13
  DEF Next, Process

\* Who writes decisions.jsonl, and what.
LEMMA DecisionsStep ==
    ASSUME IInv, [Next]_vars
    PROVE  \/ decisions' = decisions
           \/ ApplyDecision
           \/ Decide
           \/ \E d \in Decision :
                /\ decisions' = Append(decisions, d)
                /\ d.answer = "pending" /\ ~d.applied
                /\ d.kind = "approval" => \E t \in Task : NeedsApproval(t) /\ d.task = t
<1> USE DEF files, plan
<1>1. CASE \E t \in Task : TaskStep(t)
  <2>1. PICK t \in Task : TaskStep(t)
    BY <1>1
  <2>2. CASE NeedsApproval(t)
    <3>1. Decided("approval", t) \in Decision
      BY TaskIsNat, DecidedType
    <3> QED BY <2>2, <3>1 DEF NeedsApproval, Decided
  <2> QED BY <2>1, <2>2, TaskFrame
<1>2. CASE BudgetGuard
  <2>1. Decided("budget", 0) \in Decision
    BY Constants DEF Decided, Decision
  <2> QED BY <1>2, <2>1 DEF BudgetGuard, Decided
<1>3. ASSUME NEW t \in Task, Escalate(t)
      PROVE  \E d \in Decision : /\ decisions' = Append(decisions, d)
                                 /\ d.answer = "pending" /\ ~d.applied /\ d.kind # "approval"
  <2>1. Decided("repair", t) \in Decision
    BY TaskIsNat, DecidedType
  <2> QED BY <1>3, <2>1 DEF Escalate, Decided
<1>4. CASE \/ Launch \/ ResumeRefused \/ Resume \/ WritePlan \/ ResumeDeclines \/ ResumeGoesOn
           \/ Iterate \/ IterationsUp \/ Cycle \/ CyclesUp \/ NothingReady \/ Outer \/ Finish
           \/ Execute \/ Settle \/ Finalize
  BY <1>4 DEF Launch, ResumeRefused, Resume, WritePlan, ResumeDeclines, ResumeGoesOn, Iterate,
     IterationsUp, Cycle, CyclesUp, NothingReady, Outer, Finish, Execute, Settle, Finalize
<1>5. CASE \/ UserPaused \/ NotBlocked \/ Blocked \/ SoftContinue \/ Replan \/ Supersede \/ Rewire
           \/ ReplanEnds \/ RequestPause \/ Crash \/ UNCHANGED vars
           \/ (\E t \in Task : AddRepair(t))
  BY <1>5 DEF UserPaused, NotBlocked, Blocked, SoftContinue, Replan, Supersede, Rewire,
     ReplanEnds, RequestPause, Crash, vars, AddRepair
<1> QED BY <1>1, <1>2, <1>3, <1>4, <1>5 DEF Next, Process

\* What a decision keeps, and what is new about it.
LEMMA DecisionKept ==
    ASSUME IInv, AnswerInv, [Next]_vars, NEW i \in DOMAIN decisions
    PROVE  /\ i \in DOMAIN decisions' /\ i \in Nat /\ i >= 1
           /\ decisions'[i].kind = decisions[i].kind /\ decisions'[i].task = decisions[i].task
           /\ decisions[i].applied =>
                decisions'[i].applied /\ decisions'[i].answer = decisions[i].answer
           /\ decisions'[i].applied /\ ~decisions[i].applied =>
                ApplyDecision /\ i \in Unapplied /\ decisions'[i].answer = decisions[i].answer
<1>0. decisions \in Seq(Decision) /\ i \in 1..Len(decisions)
  BY DEF IInv, TypeOK
<1>1. CASE decisions' = decisions
  BY <1>0, <1>1
<1>2. CASE ApplyDecision
  <2>1. PICK k \in Unapplied : decisions' = [decisions EXCEPT ![k].applied = TRUE]
    BY <1>2 DEF ApplyDecision
  <2> QED BY <1>0, <1>2, <2>1 DEF Unapplied, Decision
<1>3. CASE Decide
  <2>1. PICK k \in Pending, a \in {"yes", "no"} : decisions' = [decisions EXCEPT ![k].answer = a]
    BY <1>3 DEF Decide
  <2>2. ~decisions[k].applied
    BY <1>0, <2>1 DEF Pending, AnswerInv
  <2> QED BY <1>0, <2>1, <2>2 DEF Pending, Decision
<1>4. CASE \E d \in Decision : decisions' = Append(decisions, d)
  BY <1>0, <1>4
<1> QED BY <1>1, <1>2, <1>3, <1>4, DecisionsStep

LEMMA DecisionNew ==
    ASSUME IInv, [Next]_vars, NEW i \in DOMAIN decisions', i \notin DOMAIN decisions
    PROVE  /\ decisions'[i].answer = "pending" /\ ~decisions'[i].applied
           /\ DOMAIN decisions' \subseteq DOMAIN decisions \cup {i}
           /\ \A j \in DOMAIN decisions : j < i
           /\ decisions'[i].kind = "approval" =>
                \E t \in Task : NeedsApproval(t) /\ decisions'[i].task = t
<1>0. decisions \in Seq(Decision) /\ DOMAIN decisions = 1..Len(decisions)
  BY DEF IInv, TypeOK
<1>1. ~ApplyDecision /\ ~Decide
  <2>1. ASSUME ApplyDecision \/ Decide PROVE DOMAIN decisions' = DOMAIN decisions
    BY <2>1, <1>0 DEF ApplyDecision, Decide
  <2> QED BY <2>1
<1>2. PICK d \in Decision :
        /\ decisions' = Append(decisions, d)
        /\ d.answer = "pending" /\ ~d.applied
        /\ d.kind = "approval" => \E t \in Task : NeedsApproval(t) /\ d.task = t
  BY <1>1, DecisionsStep
<1>3. i = Len(decisions) + 1 /\ decisions'[i] = d
  BY <1>0, <1>2
<1> QED BY <1>0, <1>2, <1>3

\* A resume's draft is its own: what others do meanwhile leaves it alone.
LEMMA DraftingSteps ==
    ASSUME [Next]_vars, pc \in Drafting \/ pc' \in Drafting
    PROVE  \/ Resume \/ ApplyDecision \/ WritePlan \/ Crash
           \/ UNCHANGED <<pc, draft, asked, status, deps, crashes, summary>>
<1> USE DEF Drafting, plan, files, bounds
<1>1. CASE UNCHANGED vars \/ ResumeRefused \/ RequestPause \/ Decide
  BY <1>1 DEF vars, ResumeRefused, RequestPause, Decide
<1>2. ~(\/ Launch \/ ResumeDeclines \/ ResumeGoesOn \/ Iterate \/ BudgetGuard \/ IterationsUp
        \/ Cycle \/ CyclesUp \/ NothingReady \/ Outer \/ Finish)
  BY DEF Launch, CanStart, ResumeDeclines, ResumeGoesOn, Iterate, BudgetGuard, IterationsUp,
     Cycle, CyclesUp, NothingReady, Outer, Finish, Exit
<1>3. ~(\/ Execute \/ Settle \/ Finalize \/ UserPaused \/ NotBlocked \/ Blocked \/ SoftContinue
        \/ Replan \/ Supersede \/ Rewire \/ ReplanEnds)
  BY DEF Execute, Settle, Finalize, UserPaused, NotBlocked, Blocked, BlockedHere, SoftContinue,
     Replan, Supersede, Rewire, ReplanEnds
<1>4. ~(\E t \in Task : TaskStep(t) \/ Escalate(t) \/ AddRepair(t))
  BY TaskFrame DEF Executing, Escalate, AddRepair
<1> QED BY <1>1, <1>2, <1>3, <1>4 DEF Next, Process

\* Only a resume that was applied tells which answer asked for a task.
LEMMA AskedChangers ==
    ASSUME [Next]_vars
    PROVE  asked' = asked \/ WritePlan
<1> USE DEF plan
<1>1. CASE \E t \in Task : TaskStep(t) \/ Escalate(t) \/ AddRepair(t)
  BY <1>1, TaskFrame DEF Escalate, AddRepair
<1>2. CASE \/ ApplyDecision \/ ResumeDeclines \/ ResumeGoesOn \/ Iterate \/ BudgetGuard
           \/ IterationsUp \/ Cycle \/ CyclesUp \/ NothingReady \/ Outer \/ Finish
  BY <1>2 DEF ApplyDecision, ResumeDeclines, ResumeGoesOn, Iterate, BudgetGuard,
     IterationsUp, Cycle, CyclesUp, NothingReady, Outer, Finish
<1>3. CASE \/ Execute \/ Settle \/ Finalize \/ UserPaused \/ NotBlocked \/ Blocked
           \/ SoftContinue \/ Replan \/ Supersede \/ Rewire \/ ReplanEnds
  BY <1>3 DEF Execute, Settle, Finalize, UserPaused, NotBlocked, Blocked, SoftContinue, Replan,
     Supersede, Rewire, ReplanEnds
<1>4. CASE \/ Launch \/ ResumeRefused \/ Resume \/ RequestPause \/ Decide \/ Crash
           \/ UNCHANGED vars
  BY <1>4 DEF Launch, ResumeRefused, Resume, RequestPause, Decide, Crash, vars
<1> QED BY <1>1, <1>2, <1>3, <1>4 DEF Next, Process

\* Who looks at a run without crashes looks at a step without one.
LEMMA NoCrash ==
    ASSUME IInv, [Next]_vars, crashes' = 0
    PROVE  crashes = 0 /\ ~Crash
<1>1. ~Crash
  BY DEF Crash, IInv, TypeOK
<1>2. crashes' = crashes \/ Crash
  <2> USE DEF bounds, vars
  <2>1. CASE \E t \in Task : TaskStep(t) \/ Escalate(t) \/ AddRepair(t)
    BY <2>1, TaskFrame DEF Escalate, AddRepair
  <2> QED
    BY <2>1 DEF Next, Process, Launch, Started, ResumeRefused, Resume, RequestPause, Decide,
       ApplyDecision, WritePlan, ResumeDeclines, ResumeGoesOn, Iterate, BudgetGuard,
       IterationsUp, Cycle, CyclesUp, NothingReady, Outer, Finish, Exit, Execute, Settle,
       Finalize, UserPaused, NotBlocked, Blocked, SoftContinue, Replan, Supersede, Rewire,
       ReplanEnds
<1> QED BY <1>1, <1>2

LEMMA AnswerStep == IInv /\ AnswerInv /\ [Next]_vars => AnswerInv'
<1> SUFFICES ASSUME IInv, AnswerInv, [Next]_vars PROVE AnswerInv'
  OBVIOUS
<1>0. /\ status \in Board /\ draft.status \in Board /\ draft.asked \in [Task -> Nat]
      /\ asked \in [Task -> Nat] /\ crashes \in Nat /\ decisions \in Seq(Decision)
  BY DEF IInv, TypeOK, Draft
<1>1. ASSUME NEW i \in DOMAIN decisions', decisions'[i].applied
      PROVE  decisions'[i].answer # "pending"
  <2>1. i \in DOMAIN decisions
    BY <1>1, DecisionNew
  <2> QED BY <1>1, <2>1, DecisionKept DEF AnswerInv, Unapplied
<1>2. ASSUME NEW t \in Task, status'[t] = "absent" PROVE asked'[t] = 0
  <2>1. status[t] = "absent"
    BY <1>0, <1>2, TableStep, AllowedTable DEF Moves, Board, Statuses
  <2>2. CASE WritePlan
    <3>1. draft.status[t] = "absent"
      BY <1>0, <1>2, <2>2 DEF WritePlan, Promoted, Board
    <3> QED BY <2>2, <3>1 DEF WritePlan, AnswerInv, Drafting
  <2> QED BY <2>1, <2>2, AskedChangers DEF AnswerInv
\* What an applied decision does to the draft.
<1>3. ASSUME ApplyDecision
      PROVE  /\ pc \in Drafting /\ pc' \in Drafting /\ crashes' = crashes
             /\ \A t \in Task : /\ draft'.status[t] = "absent" => draft'.asked[t] = 0
                                /\ draft.asked[t] # 0 => draft'.asked[t] = draft.asked[t]
             /\ \A i \in DOMAIN decisions : Wanted(i)' /\ ~Wanted(i) =>
                  \E t \in Task : draft'.asked[t] = i
  <2>1. PICK i \in Unapplied :
          /\ GrantApproval(i) \/ AddAsked(i) \/ ChangesNothing(i)
          /\ decisions' = [decisions EXCEPT ![i].applied = TRUE]
    BY <1>3 DEF ApplyDecision
  <2>2. pc \in Drafting /\ pc' \in Drafting /\ crashes' = crashes
    BY <1>3 DEF ApplyDecision, Drafting, bounds
  <2>3. \A k \in DOMAIN decisions : Wanted(k)' /\ ~Wanted(k) =>
          k = i /\ decisions[i].kind = "repair" /\ decisions[i].answer = "yes"
    <3> SUFFICES ASSUME NEW k \in DOMAIN decisions, Wanted(k)', ~Wanted(k)
                 PROVE  k = i /\ decisions[i].kind = "repair" /\ decisions[i].answer = "yes"
      OBVIOUS
    <3>1. k # i => decisions'[k] = decisions[k]
      BY <1>0, <2>1
    <3>2. decisions'[k].kind = decisions[k].kind /\ decisions'[k].answer = decisions[k].answer
      BY <1>0, <2>1 DEF Decision
    <3> QED BY <3>1, <3>2 DEF Wanted
  <2>4. CASE GrantApproval(i)
    <3>1. draft'.asked = draft.asked
      BY <2>4 DEF GrantApproval, IInv, TypeOK, Draft
    <3>2. \A t \in Task : draft'.status[t] = "absent" => draft.status[t] = "absent"
      BY <1>0, <2>4 DEF GrantApproval, IInv, TypeOK, Draft, Board
    <3> QED BY <2>2, <2>3, <2>4, <3>1, <3>2 DEF GrantApproval, AnswerInv
  <2>5. CASE AddAsked(i)
    <3>1. PICK n \in Task :
            /\ draft.status[n] = "absent"
            /\ draft' = [status |-> [draft.status EXCEPT ![n] = "backlog"],
                         deps |-> [draft.deps EXCEPT ![n] = LastActive(draft.status)],
                         asked |-> [draft.asked EXCEPT ![n] = i]]
      BY <2>5 DEF AddAsked, NextId
    <3>2. \A t \in Task : /\ draft'.status[t] = IF t = n THEN "backlog" ELSE draft.status[t]
                          /\ draft'.asked[t] = IF t = n THEN i ELSE draft.asked[t]
      BY <1>0, <3>1 DEF Board
    <3>3. draft.asked[n] = 0
      BY <2>2, <3>1 DEF AnswerInv
    <3> QED BY <2>2, <2>3, <3>2, <3>3 DEF AnswerInv
  <2>6. CASE ChangesNothing(i)
    BY <2>2, <2>3, <2>6 DEF ChangesNothing, AnswerInv
  <2> QED BY <2>1, <2>4, <2>5, <2>6
<1>4. ASSUME pc' \in Drafting, NEW t \in Task, draft'.status[t] = "absent"
      PROVE  draft'.asked[t] = 0
  <2>1. CASE Resume
    <3>1. draft'.status = status /\ draft'.asked = asked
      BY <2>1 DEF Resume
    <3> QED BY <1>4, <3>1 DEF AnswerInv
  <2>2. ~WritePlan /\ ~Crash
    BY <1>4 DEF WritePlan, Crash, Drafting
  <2> QED BY <1>3, <1>4, <2>1, <2>2, DraftingSteps DEF AnswerInv
<1>5. ASSUME crashes' = 0, NEW i \in DOMAIN decisions', Wanted(i)'
      PROVE  \E t \in Task : IF pc' \in Drafting THEN draft'.asked[t] = i ELSE asked'[t] = i
  <2>1. i \in DOMAIN decisions /\ i # 0
    BY <1>5, DecisionNew, DecisionKept DEF Wanted
  <2>2. ~Crash /\ crashes = 0
    BY <1>5, NoCrash
  <2>3. CASE Wanted(i)
    <3>1. PICK t \in Task : IF pc \in Drafting THEN draft.asked[t] = i ELSE asked[t] = i
      BY <2>1, <2>2, <2>3 DEF AnswerInv
    <3>2. CASE Resume
      <4>1. draft'.asked = asked /\ asked' = asked /\ pc \notin Drafting
        BY <3>2 DEF Resume, CanStart, Drafting, plan
      <4> QED BY <3>1, <4>1
    <3>3. CASE WritePlan
      BY <3>1, <3>3 DEF WritePlan, Drafting
    <3>4. CASE ApplyDecision
      BY <1>3, <2>1, <3>1, <3>4
    <3>5. CASE pc \in Drafting \/ pc' \in Drafting
      BY <2>2, <3>1, <3>2, <3>3, <3>4, <3>5, DraftingSteps
    <3>6. CASE pc \notin Drafting /\ pc' \notin Drafting
      BY <3>1, <3>3, <3>6, AskedChangers
    <3> QED BY <3>5, <3>6
  <2>4. CASE ~Wanted(i)
    <3>1. ApplyDecision
      BY <1>1, <1>5, <2>1, <2>4, DecisionKept DEF Wanted, AnswerInv
    <3> QED BY <1>3, <1>5, <2>1, <2>4, <3>1
  <2> QED BY <2>3, <2>4
<1> QED BY <1>1, <1>2, <1>4, <1>5 DEF AnswerInv

\* Only the task that a repair replaced is newly discarded.
LEMMA DiscardedBySupersede ==
    ASSUME IInv, [Next]_vars, NEW t \in Task, status[t] # "discarded", status'[t] = "discarded"
    PROVE  Supersede /\ t = mem.old
<1>0. status \in Board
  BY DEF IInv, TypeOK
<1>1. ~WritePlan
  <2> SUFFICES ASSUME WritePlan PROVE FALSE
    OBVIOUS
  <2>1. draft.status \in Board
    BY DEF IInv, TypeOK, Draft
  <2>2. status'[t] = draft.status[t] \/ status'[t] = "ready"
    BY <2>1 DEF WritePlan, Promoted, Board
  <2>3. draft.status[t] \in {status[t], "ready", "backlog"}
    BY DEF WritePlan, IInv, DraftInv
  <2> QED BY <2>2, <2>3
<1>2. ~Settle
  BY <1>0 DEF Settle, Promoted, Board
<1>3. ~SoftContinue
  <2>1. ASSUME SoftContinue PROVE status'[t] \in {status[t], "ready"}
    BY <1>0, <2>1 DEF SoftContinue, Board
  <2> QED BY <2>1
<1>4. ASSUME NEW u \in Task PROVE ~(StartTask(u) \/ Blocks(u) \/ HopTask(u) \/ AddRepair(u))
  <2>1. ASSUME StartTask(u) PROVE status'[t] \in {status[t], "in_progress"}
    BY <1>0, <2>1 DEF StartTask, Board
  <2>2. ASSUME Blocks(u) PROVE status'[t] \in {status[t], "blocked"}
    BY <1>0, <2>2, BlocksEffect DEF IInv, Board
  <2>3. ASSUME HopTask(u) PROVE status'[t] \in {status[t], "testing", "reviewing", "done"}
    <3>1. status[u] \in HalfWay /\ status' = [status EXCEPT ![u] = Hop(status[u])]
      BY <2>3, CurrentIsNotOver DEF HopTask, IInv, HalfWay
    <3>2. Hop(status[u]) \in {"testing", "reviewing", "done"}
      BY <3>1 DEF Hop, HalfWay
    <3> QED BY <1>0, <3>1, <3>2 DEF Board
  <2>4. ASSUME AddRepair(u) PROVE status'[t] \in {status[t], "ready"}
    BY <1>0, <2>4 DEF AddRepair, Board
  <2> QED BY <2>1, <2>2, <2>3, <2>4
<1>5. Supersede
  BY <1>1, <1>2, <1>3, <1>4, StatusChangers
<1> QED BY <1>0, <1>5 DEF Supersede, Board

\* Between the repair and the rewiring only the process and crashes move on.
LEMMA RewiringSteps ==
    ASSUME [Next]_vars, pc \in {"supersede", "rewire"}
    PROVE  \/ Supersede \/ Rewire \/ Crash
           \/ UNCHANGED <<pc, mem, status, deps, draft, crashes>>
<1> USE DEF plan, files, bounds
<1>1. CASE UNCHANGED vars \/ ResumeRefused \/ RequestPause \/ Decide
  BY <1>1 DEF vars, ResumeRefused, RequestPause, Decide
<1>2. ~(\/ Launch \/ Resume \/ ApplyDecision \/ WritePlan \/ ResumeDeclines \/ ResumeGoesOn
        \/ Iterate \/ BudgetGuard \/ IterationsUp \/ Cycle \/ CyclesUp \/ NothingReady
        \/ Outer \/ Finish)
  BY DEF Launch, Resume, CanStart, ApplyDecision, WritePlan, ResumeDeclines, ResumeGoesOn,
     Iterate, BudgetGuard, IterationsUp, Cycle, CyclesUp, NothingReady, Outer, Finish
<1>3. ~(\/ Execute \/ Settle \/ Finalize \/ UserPaused \/ NotBlocked \/ Blocked \/ SoftContinue
        \/ Replan \/ ReplanEnds)
  BY DEF Execute, Settle, Finalize, UserPaused, NotBlocked, Blocked, BlockedHere, SoftContinue,
     Replan, ReplanEnds
<1>4. ~(\E t \in Task : TaskStep(t) \/ Escalate(t) \/ AddRepair(t))
  BY TaskFrame DEF Executing, Escalate, AddRepair
<1> QED BY <1>1, <1>2, <1>3, <1>4 DEF Next, Process

LEMMA FollowStep == IInv /\ FollowInv /\ SettledInv /\ [Next]_vars => FollowInv'
<1> SUFFICES ASSUME IInv, FollowInv, SettledInv, [Next]_vars, crashes' = 0
             PROVE  FollowInv'
  BY DEF FollowInv
<1>0. /\ status \in Board /\ deps \in Waits /\ mem \in Memory
      /\ draft.status \in Board /\ draft.deps \in Waits
  BY DEF IInv, TypeOK, Draft
<1>1. crashes = 0 /\ ~Crash
  BY NoCrash
<1>2. ASSUME NEW t \in Task, NEW d \in deps'[t], status'[d] = "discarded"
      PROVE  pc' = "rewire" /\ d = mem'.old
  <2>0. d \in Task
    BY <1>2, TypeStep DEF IInv, TypeOK, Waits
  <2>1. CASE deps' = deps
    <3>1. CASE status[d] = "discarded"
      <4>1. pc = "rewire" /\ d = mem.old
        BY <1>1, <1>2, <2>1, <3>1 DEF FollowInv
      <4>2. ~Supersede
        BY <4>1 DEF Supersede
      <4>3. CASE Rewire
        <5>1. d \notin deps'[t]
          BY <1>0, <4>1, <4>3 DEF Rewire, SettledInv, IInv, ReplanInv, Waits
        <5> QED BY <5>1
      <4> QED BY <1>1, <4>1, <4>2, <4>3, RewiringSteps
    <3>2. CASE status[d] # "discarded"
      <4>1. Supersede /\ d = mem.old
        BY <1>2, <2>0, <3>2, DiscardedBySupersede
      <4> QED BY <4>1 DEF Supersede
    <3> QED BY <3>1, <3>2
  <2>2. CASE WritePlan
    <3>1. d \in draft.deps[t] /\ status'[d] \in {draft.status[d], "ready"} /\ pc = "write"
      BY <1>0, <2>0, <2>2 DEF WritePlan, Promoted, Board
    <3>2. draft.status[d] \in {status[d], "ready", "backlog"}
      BY <2>0, <3>1 DEF IInv, DraftInv
    <3> QED BY <1>1, <1>2, <3>1, <3>2 DEF FollowInv, Drafting
  <2>3. CASE Rewire
    <3>1. status' = status /\ pc = "rewire" /\ status[mem.new] = "ready"
      BY <2>3 DEF Rewire, SettledInv
    <3>2. d # mem.new
      BY <1>2, <3>1
    <3>3. d \in deps[t] /\ d # mem.old
      BY <1>0, <2>3, <3>2 DEF Rewire, Waits
    <3> QED BY <1>1, <1>2, <3>1, <3>3 DEF FollowInv
  <2>4. ASSUME NEW u \in Task, AddRepair(u) PROVE FALSE
    <3>1. PICK n \in Task : /\ status[n] = "absent"
                            /\ status' = [status EXCEPT ![n] = "ready"]
                            /\ deps' = [deps EXCEPT ![n] = LastDone]
      BY <2>4 DEF AddRepair, NextId
    <3>2. d # n /\ status[d] = "discarded"
      BY <1>0, <1>2, <2>0, <3>1 DEF Board
    <3>3. t # n
      BY <1>0, <1>2, <3>1, <3>2 DEF Waits, LastDone, Done
    <3>4. d \in deps[t]
      BY <1>0, <1>2, <3>1, <3>3 DEF Waits
    <3>5. pc = "replan"
      BY <2>4 DEF AddRepair
    <3> QED BY <1>1, <3>2, <3>4, <3>5 DEF FollowInv
  <2> QED BY <2>1, <2>2, <2>3, <2>4, DepsChangers
<1>3. ASSUME pc' \in Drafting, NEW t \in Task, NEW d \in draft'.deps[t]
      PROVE  status'[d] # "discarded"
  <2>1. CASE Resume
    <3>1. draft'.deps = deps /\ status' = status /\ pc = "off"
      BY <2>1 DEF Resume, CanStart, plan
    <3> QED BY <1>1, <1>3, <3>1 DEF FollowInv
  <2>2. CASE ApplyDecision
    <3>1. PICK i \in Unapplied : GrantApproval(i) \/ AddAsked(i) \/ ChangesNothing(i)
      BY <2>2 DEF ApplyDecision
    <3>2. status' = status /\ pc \in Drafting
      BY <2>2 DEF ApplyDecision, plan, Drafting
    <3>3. CASE GrantApproval(i) \/ ChangesNothing(i)
      <4>1. draft'.deps = draft.deps
        BY <3>3 DEF GrantApproval, ChangesNothing, IInv, TypeOK, Draft
      <4> QED BY <1>1, <1>3, <3>2, <4>1 DEF FollowInv
    <3>4. CASE AddAsked(i)
      <4>1. PICK n \in Task :
              draft' = [status |-> [draft.status EXCEPT ![n] = "backlog"],
                        deps |-> [draft.deps EXCEPT ![n] = LastActive(draft.status)],
                        asked |-> [draft.asked EXCEPT ![n] = i]]
        BY <3>4 DEF AddAsked
      <4>2. d \in draft.deps[t] \/ d \in LastActive(draft.status)
        BY <1>0, <1>3, <4>1 DEF Waits
      <4>3. ASSUME d \in LastActive(draft.status) PROVE status[d] # "discarded"
        <5>1. d \in Task /\ draft.status[d] \notin {"absent", "discarded"}
          BY <1>0, <4>3 DEF LastActive, Active, Board
        <5> QED BY <3>2, <5>1 DEF IInv, DraftInv, Drafting
      <4> QED BY <1>1, <3>2, <4>2, <4>3 DEF FollowInv
    <3> QED BY <3>1, <3>3, <3>4
  <2>3. ~WritePlan
    BY <1>3 DEF WritePlan, Drafting
  <2> QED BY <1>1, <1>3, <2>1, <2>2, <2>3, DraftingSteps DEF FollowInv
<1> QED BY <1>2, <1>3 DEF FollowInv

\* While the selection is executed the process runs its tasks and settles.
LEMMA ExecutingSteps ==
    ASSUME [Next]_vars, pc \in Executing
    PROVE  \/ Settle \/ Crash \/ (\E t \in Task : TaskStep(t))
           \/ UNCHANGED <<pc, mem, status, deps, draft, crashes>>
<1> USE DEF plan, files, bounds, Executing
<1>1. CASE UNCHANGED vars \/ ResumeRefused \/ RequestPause \/ Decide
  BY <1>1 DEF vars, ResumeRefused, RequestPause, Decide
<1>2. ~(\/ Launch \/ Resume \/ ApplyDecision \/ WritePlan \/ ResumeDeclines \/ ResumeGoesOn
        \/ Iterate \/ BudgetGuard \/ IterationsUp \/ Cycle \/ CyclesUp \/ NothingReady
        \/ Outer \/ Finish)
  BY DEF Launch, Resume, CanStart, ApplyDecision, WritePlan, ResumeDeclines, ResumeGoesOn,
     Iterate, BudgetGuard, IterationsUp, Cycle, CyclesUp, NothingReady, Outer, Finish
<1>3. ~(\/ Execute \/ Finalize \/ UserPaused \/ NotBlocked \/ Blocked \/ SoftContinue
        \/ Replan \/ Supersede \/ Rewire \/ ReplanEnds
        \/ \E t \in Task : Escalate(t) \/ AddRepair(t))
  BY DEF Execute, Finalize, UserPaused, NotBlocked, Blocked, BlockedHere, SoftContinue,
     Replan, Supersede, Rewire, ReplanEnds, Escalate, AddRepair
<1> QED BY <1>1, <1>2, <1>3 DEF Next, Process

\* A paused task stays on the list until the selection is settled.
LEMMA PausedStays ==
    ASSUME IInv, NEW t \in Task, TaskStep(t)
    PROVE  /\ mem.paused \subseteq mem'.paused
           /\ PauseTask(t) => t \in mem'.paused
<1>0. mem \in Memory
  BY DEF IInv, TypeOK
<1>1. Over(t).paused = mem.paused /\ Over(t) \in Memory
  BY <1>0, OverType DEF Over, Memory
<1>2. CASE StartTask(t) \/ AskModel(t) \/ GoOn(t) \/ Completes(t)
  BY <1>0, <1>2 DEF StartTask, AskModel, GoOn, Completes, PauseTask, Memory
<1>3. CASE HopTask(t)
  BY <1>1, <1>3 DEF HopTask, PauseTask
<1>4. CASE PauseTask(t)
  <2>1. mem' = [Over(t) EXCEPT !.paused = mem.paused \cup {t}]
    BY <1>1, <1>4 DEF PauseTask
  <2> QED BY <1>1, <2>1 DEF Memory
<1>5. CASE Blocks(t)
  <2>1. CASE OverBudget(t)
    <3>1. mem' = [Over(t) EXCEPT !.blocked = "other", !.spent = @ + 1] /\ ~PauseTask(t)
      BY <2>1 DEF OverBudget, PauseTask
    <3> QED BY <1>1, <3>1 DEF Memory
  <2>2. CASE \E how \in {"fuse", "provider", "other"}, k \in Kinds, b \in BOOLEAN :
                Block(t, how, k, b)
    <3>1. PICK how \in {"fuse", "provider", "other"} : mem' = [Over(t) EXCEPT !.blocked = how]
      BY <2>2 DEF Block
    <3>2. mem'.paused = mem.paused
      BY <1>1, <3>1 DEF Memory
    <3>3. t \in Task /\ status' = [status EXCEPT ![t] = "blocked"]
      BY <2>2 DEF Block
    <3>4. ~PauseTask(t)
      <4>1. status'[t] = "blocked"
        BY <3>3 DEF IInv, TypeOK, Board
      <4>2. PauseTask(t) => status[t] = "in_progress" /\ status' = status
        BY CurrentIsNotOver DEF PauseTask, IInv, plan
      <4> QED BY <4>1, <4>2
    <3> QED BY <3>2, <3>4
  <2> QED BY <1>5, <2>1, <2>2 DEF Blocks, GateBlocks, FuseTrips, ContractFails, NeedsApproval,
          Raises, Kinds
<1> QED BY <1>2, <1>3, <1>4, <1>5 DEF TaskStep, Blocks

LEMMA HalfWayStep ==
    ASSUME IInv, SettledInv, [Next]_vars, crashes' = 0, NEW t \in Task, status'[t] \in HalfWay
    PROVE  \/ pc' \in Executing /\ t \in mem'.paused /\ status'[t] = "in_progress"
           \/ pc' \in Executing \ {"next"} /\ Current(t)'
<1>0. status \in Board /\ mem \in Memory
  BY DEF IInv, TypeOK
<1>1. crashes = 0 /\ ~Crash
  BY NoCrash
<1>2. CASE status[t] \notin HalfWay
  <2>1. status[t] # "done"
    <3>1. ASSUME status[t] = "done" PROVE status'[t] = "done"
      BY <3>1, TableStep, AllowedTable DEF Moves
    <3> QED BY <3>1 DEF HalfWay
  <2>2. StartTask(t)
    BY <1>2, <2>1, BeginsByStart DEF Begun, HalfWay
  <2>3. mem'.chosen = mem.chosen
    BY <1>0, <2>2 DEF StartTask, Memory
  <2> QED BY <2>2, <2>3 DEF StartTask, Current, Executing
<1>3. CASE status[t] \in HalfWay
  <2>1. /\ pc \in Executing
        /\ \/ t \in mem.paused /\ status[t] = "in_progress"
           \/ pc # "next" /\ Current(t)
    BY <1>1, <1>3 DEF SettledInv
  <2>2. ~Settle
    <3> SUFFICES ASSUME Settle PROVE FALSE
      OBVIOUS
    <3>1. t \in mem.paused /\ status[t] = "in_progress"
      BY <2>1 DEF Settle
    <3> QED BY <3>1 DEF Settle, HalfWay
  <2>3. CASE UNCHANGED <<pc, mem, status, deps, draft, crashes>>
    BY <1>1, <1>3, <2>3 DEF SettledInv, Current
  <2>4. ASSUME NEW u \in Task, TaskStep(u), u # t
        PROVE  pc' \in Executing /\ t \in mem'.paused /\ status'[t] = "in_progress"
    <3>1. Current(u) /\ pc' \in Executing /\ mem.paused \subseteq mem'.paused
      BY <2>4, TaskFrame, PausedStays
    <3>2. t \in mem.paused /\ status[t] = "in_progress"
      BY <2>1, <2>4, <3>1, OneCurrent DEF IInv
    <3>3. status'[t] = status[t]
      <4>1. CASE Blocks(u)
        BY <1>0, <2>4, <4>1, BlocksEffect DEF IInv, Board
      <4> QED BY <1>0, <2>4, <4>1 DEF TaskStep, Blocks, StartTask, PauseTask, AskModel, GoOn,
              Completes, HopTask, Board, plan
    <3> QED BY <3>1, <3>2, <3>3
  <2>5. CASE TaskStep(t)
    <3>1. Current(t) /\ pc' \in Executing
      BY <2>5, TaskFrame
    <3>2. ~StartTask(t) /\ ~Blocks(t)
      <4>1. ~StartTask(t)
        BY <1>3, CurrentIsNotOver DEF StartTask, IInv, HalfWay
      <4>2. ~Blocks(t)
        <5>1. ASSUME Blocks(t) PROVE status'[t] = "blocked"
          BY <1>0, <5>1, BlocksEffect DEF IInv, Board
        <5> QED BY <5>1 DEF HalfWay
      <4> QED BY <4>1, <4>2
    <3>3. CASE PauseTask(t)
      <4>1. status'[t] = "in_progress"
        BY <3>3, CurrentIsNotOver DEF PauseTask, IInv, plan
      <4> QED BY <2>5, <3>1, <3>3, <4>1, PausedStays
    <3>4. CASE AskModel(t) \/ GoOn(t) \/ Completes(t)
      <4>1. mem'.chosen = mem.chosen /\ pc' \in Executing \ {"next"}
        BY <1>0, <3>4 DEF AskModel, GoOn, Completes, Memory, Executing
      <4> QED BY <3>1, <4>1 DEF Current
    <3>5. CASE HopTask(t)
      <4>1. status'[t] # "done"
        BY DEF HalfWay
      <4>2. mem' = mem /\ pc' = "hops"
        BY <3>5, <4>1 DEF HopTask
      <4> QED BY <3>1, <4>2 DEF Current, Executing
    <3> QED BY <2>5, <3>2, <3>3, <3>4, <3>5 DEF TaskStep, Blocks
  <2> QED BY <1>1, <2>1, <2>2, <2>3, <2>4, <2>5, ExecutingSteps
<1> QED BY <1>2, <1>3

LEMMA BacklogStep ==
    ASSUME IInv, SettledInv, [Next]_vars, crashes' = 0, pc' \notin Executing,
           NEW t \in Task, status'[t] = "backlog"
    PROVE  ~(deps'[t] \subseteq Done(status'))
<1>0. /\ status \in Board /\ deps \in Waits /\ draft.status \in Board /\ draft.deps \in Waits
      /\ status' \in Board
  BY TypeStep DEF IInv, TypeOK, Draft
<1>1. crashes = 0 /\ ~Crash
  BY NoCrash
<1>2. CASE Settle
  <2>1. status[t] = "backlog" /\ ~(deps[t] \subseteq Done(status)) /\ deps' = deps
    BY <1>0, <1>2 DEF Settle, Promoted, Board
  <2>2. Done(status') \subseteq Done(status)
    BY <1>0, <1>2 DEF Settle, Promoted, Board, Done
  <2> QED BY <2>1, <2>2
<1>3. CASE WritePlan
  <2>1. status' = Promoted(draft.status, draft.deps) /\ deps' = draft.deps
    BY <1>3 DEF WritePlan
  <2>2. Done(status') = Done(draft.status)
    BY <1>0, <2>1 DEF Promoted, Board, Done
  <2> QED BY <1>0, <2>1, <2>2 DEF Promoted, Board
<1>4. CASE ~Settle /\ ~WritePlan
  <2>1. pc \notin Executing
    <3> SUFFICES ASSUME pc \in Executing PROVE FALSE
      OBVIOUS
    <3> QED BY <1>1, <1>4, ExecutingSteps, TaskFrame
  <2>2. \A u \in Task : ~StartTask(u) /\ ~Blocks(u) /\ ~HopTask(u)
    BY <2>1, TaskFrame DEF TaskStep, Blocks
  <2>3. Done(status') = Done(status)
    <3>1. CASE status' = status
      BY <3>1
    <3>2. CASE SoftContinue
      <4>1. status' = [status EXCEPT ![summary.task] = "ready"] /\ status[summary.task] = "blocked"
        BY <3>2 DEF SoftContinue, MayContinue
      <4> QED BY <1>0, <4>1 DEF Done, Board
    <3>3. CASE Supersede
      <4>1. status' = [status EXCEPT ![mem.old] = "discarded"] /\ status[mem.old] = "blocked"
        BY <3>3 DEF Supersede, IInv, ReplanInv
      <4> QED BY <1>0, <4>1 DEF Done, Board
    <3>4. CASE \E u \in Task : AddRepair(u)
      <4>1. PICK n \in Task : status[n] = "absent" /\ status' = [status EXCEPT ![n] = "ready"]
        BY <3>4 DEF AddRepair, NextId
      <4> QED BY <1>0, <4>1 DEF Done, Board
    <3> QED BY <1>4, <2>2, <3>1, <3>2, <3>3, <3>4, StatusChangers
  <2>4. status[t] = "backlog"
    <3>1. CASE status' = status
      BY <3>1
    <3>2. CASE SoftContinue \/ \E u \in Task : AddRepair(u)
      BY <1>0, <3>2 DEF SoftContinue, AddRepair, Board
    <3>3. CASE Supersede
      BY <1>0, <3>3 DEF Supersede, Board
    <3> QED BY <1>4, <2>2, <3>1, <3>2, <3>3, StatusChangers
  <2>5. ~(deps[t] \subseteq Done(status))
    BY <1>1, <2>1, <2>4 DEF SettledInv
  <2>6. CASE Rewire
    <3>1. CASE mem.old \in deps[t]
      <4>1. mem.new \in deps'[t] /\ status[mem.new] = "ready" /\ status' = status
        BY <2>6, <3>1 DEF Rewire, SettledInv
      <4> QED BY <4>1 DEF Done
    <3>2. CASE mem.old \notin deps[t]
      <4>1. deps'[t] = deps[t]
        BY <2>6, <3>2 DEF Rewire
      <4> QED BY <2>3, <2>5, <4>1
    <3> QED BY <3>1, <3>2
  <2>7. ASSUME NEW u \in Task, AddRepair(u) PROVE deps'[t] = deps[t]
    <3>1. PICK n \in Task : status[n] = "absent" /\ deps' = [deps EXCEPT ![n] = LastDone]
      BY <2>7 DEF AddRepair, NextId
    <3> QED BY <1>0, <2>4, <3>1 DEF Waits
  <2> QED BY <1>4, <2>3, <2>5, <2>6, <2>7, DepsChangers
<1> QED BY <1>2, <1>3, <1>4

LEMMA SettledStep == IInv /\ SettledInv /\ [Next]_vars => SettledInv'
<1> SUFFICES ASSUME IInv, SettledInv, [Next]_vars PROVE SettledInv'
  OBVIOUS
<1>0. status \in Board /\ mem \in Memory
  BY DEF IInv, TypeOK
<1>1. ASSUME pc' \in {"supersede", "rewire"} PROVE status'[mem'.new] = "ready"
  <2>1. CASE pc \in {"supersede", "rewire"}
    <3>1. status[mem.new] = "ready"
      BY <2>1 DEF SettledInv
    <3>2. CASE Supersede
      <4>1. status[mem.old] = "blocked" /\ mem.new \in Task
        BY <3>2 DEF Supersede, IInv, ReplanInv
      <4> QED BY <1>0, <3>1, <3>2, <4>1 DEF Supersede, Board
    <3>3. ~Rewire /\ ~Crash
      BY <1>1 DEF Rewire, Crash
    <3> QED BY <2>1, <3>1, <3>2, <3>3, RewiringSteps
  <2>2. CASE pc \notin {"supersede", "rewire"}
    <3>1. \E t \in Task : AddRepair(t)
      <4>1. ~Resume /\ ~ApplyDecision /\ ~Replan /\ ~Supersede /\ ~Rewire /\ ~Execute
        BY <1>1, <2>2 DEF Resume, ApplyDecision, Replan, Supersede, Rewire, Execute
      <4>2. \A t \in Task : ~TaskStep(t) /\ ~Escalate(t)
        BY <1>1, TaskFrame DEF Executing, Escalate
      <4> QED BY <1>1, <2>2, <4>1, <4>2, StepLeads DEF Plain
    <3>2. PICK t \in Task, n \in Task :
            /\ status' = [status EXCEPT ![n] = "ready"]
            /\ mem' = [mem EXCEPT !.todo = @ \ {t}, !.created = TRUE, !.old = t, !.new = n]
      BY <3>1 DEF AddRepair
    <3>3. mem'.new = n
      BY <1>0, <3>2 DEF Memory
    <3> QED BY <1>0, <3>2, <3>3 DEF Board
  <2> QED BY <2>1, <2>2
<1> QED BY <1>1, HalfWayStep, BacklogStep DEF SettledInv

\* The summary is that of the task whose turn has just ended.
LEMMA SummaryStep ==
    ASSUME IInv, [Next]_vars
    PROVE  \/ summary' = summary
           \/ \E u \in Task : /\ TaskStep(u) /\ status[u] \in HalfWay
                              /\ summary'.task = u
<1> USE DEF plan, files
<1>1. CASE \E t \in Task : TaskStep(t)
  <2>1. PICK t \in Task : TaskStep(t)
    BY <1>1
  <2>2. CASE StartTask(t) \/ GateBlocks(t) \/ AskModel(t) \/ OverBudget(t) \/ GoOn(t)
             \/ Completes(t) \/ Raises(t)
    BY <2>2 DEF StartTask, GateBlocks, AskModel, OverBudget, GoOn, Completes, Raises
  <2>3. CASE PauseTask(t) \/ FuseTrips(t) \/ ContractFails(t) \/ NeedsApproval(t) \/ HopTask(t)
    <3>1. Current(t) /\ pc \in {"turn", "answer", "hops"}
      BY <2>3 DEF PauseTask, FuseTrips, ContractFails, NeedsApproval, HopTask
    <3>2. status[t] \in HalfWay
      BY <3>1, CurrentIsNotOver DEF IInv, HalfWay
    <3>3. CASE HopTask(t)
      <4>1. summary' = summary \/ summary' = [task |-> t, exit |-> "other"]
        BY <3>3 DEF HopTask
      <4> QED BY <2>1, <3>2, <4>1
    <3>4. CASE PauseTask(t) \/ FuseTrips(t) \/ ContractFails(t) \/ NeedsApproval(t)
      <4>1. \E x : summary' = [task |-> t, exit |-> x]
        BY <3>4 DEF PauseTask, FuseTrips, ContractFails, NeedsApproval
      <4> QED BY <2>1, <3>2, <4>1
    <3> QED BY <2>3, <3>3, <3>4
  <2> QED BY <2>1, <2>2, <2>3 DEF TaskStep
<1>2. CASE \/ Launch \/ ResumeRefused \/ Resume \/ WritePlan \/ ResumeDeclines \/ ResumeGoesOn
           \/ Iterate \/ IterationsUp \/ Cycle \/ CyclesUp \/ NothingReady \/ Outer \/ Finish
           \/ Execute \/ Settle \/ Finalize \/ BudgetGuard \/ ApplyDecision \/ Decide
  BY <1>2 DEF Launch, ResumeRefused, Resume, WritePlan, ResumeDeclines, ResumeGoesOn, Iterate,
     IterationsUp, Cycle, CyclesUp, NothingReady, Outer, Finish, Execute, Settle, Finalize,
     BudgetGuard, ApplyDecision, Decide
<1>3. CASE \/ UserPaused \/ NotBlocked \/ Blocked \/ SoftContinue \/ Replan \/ Supersede \/ Rewire
           \/ ReplanEnds \/ RequestPause \/ Crash \/ UNCHANGED vars
           \/ (\E t \in Task : Escalate(t) \/ AddRepair(t))
  BY <1>3 DEF UserPaused, NotBlocked, Blocked, SoftContinue, Replan, Supersede, Rewire,
     ReplanEnds, RequestPause, Crash, vars, Escalate, AddRepair
<1> QED BY <1>1, <1>2, <1>3 DEF Next, Process

\* What an approval still holds back stays held back.
LEMMA StaysStuck ==
    ASSUME IInv, ApprovalInv, AnswerInv, [Next]_vars,
           NEW i \in DOMAIN decisions, decisions[i].kind = "approval", ~Granted(i), ~Granted(i)',
           NEW t \in Task, t = decisions[i].task
    PROVE  /\ status'[t] \in Stuck
           /\ pc' \in Drafting => draft'.status[t] \in Stuck
           /\ ~(summary'.task = t /\ summary'.exit = "max_rounds")
<1>0. status \in Board /\ draft.status \in Board /\ decisions \in Seq(Decision)
  BY DEF IInv, TypeOK, Draft
<1>1. /\ status[t] \in Stuck
      /\ pc \in Drafting => draft.status[t] \in Stuck
      /\ ~(summary.task = t /\ summary.exit = "max_rounds")
      /\ \A j \in DOMAIN decisions :
           decisions[j].kind = "approval" /\ decisions[j].task = t => j <= i
  BY DEF ApprovalInv
<1>2. status'[t] \in Stuck
  <2>1. CASE WritePlan
    BY <1>0, <1>1, <2>1 DEF WritePlan, Promoted, Board, Stuck, Drafting
  <2>2. CASE Settle
    BY <1>0, <1>1, <2>2 DEF Settle, Promoted, Board, Stuck
  <2>3. CASE SoftContinue
    BY <1>0, <1>1, <2>3 DEF SoftContinue, MayContinue, Board
  <2>4. CASE Supersede
    BY <1>0, <1>1, <2>4 DEF Supersede, Board, Stuck
  <2>5. ASSUME NEW u \in Task, StartTask(u) \/ HopTask(u) PROVE status'[t] = status[t]
    <3>1. status[u] \in {"ready", "in_progress", "testing", "reviewing"}
      BY <2>5, CurrentIsNotOver DEF StartTask, HopTask, IInv
    <3>2. u # t
      BY <1>1, <3>1 DEF Stuck
    <3> QED BY <1>0, <2>5, <3>2 DEF StartTask, HopTask, Board
  <2>6. ASSUME NEW u \in Task, Blocks(u) PROVE status'[t] \in Stuck
    <3>1. status' = [status EXCEPT ![u] = "blocked"]
      BY <2>6, BlocksEffect DEF IInv
    <3> QED BY <1>0, <1>1, <3>1 DEF Board, Stuck
  <2>7. ASSUME NEW u \in Task, AddRepair(u) PROVE status'[t] = status[t]
    <3>1. PICK n \in Task : status[n] = "absent" /\ status' = [status EXCEPT ![n] = "ready"]
      BY <2>7 DEF AddRepair, NextId
    <3>2. n # t
      BY <1>1, <3>1 DEF Stuck
    <3> QED BY <1>0, <3>1, <3>2 DEF Board
  <2> QED BY <1>1, <2>1, <2>2, <2>3, <2>4, <2>5, <2>6, <2>7, StatusChangers
<1>3. ASSUME pc' \in Drafting PROVE draft'.status[t] \in Stuck
  <2>1. CASE Resume
    BY <1>1, <2>1 DEF Resume
  <2>2. CASE ApplyDecision
    <3>1. PICK k \in Unapplied :
            /\ GrantApproval(k) \/ AddAsked(k) \/ ChangesNothing(k)
            /\ decisions' = [decisions EXCEPT ![k].applied = TRUE]
      BY <2>2 DEF ApplyDecision
    <3>2. draft.status[t] \in Stuck
      BY <1>1, <2>2 DEF ApplyDecision, Drafting
    <3>3. CASE GrantApproval(k)
      <4>1. k \in DOMAIN decisions /\ ~Granted(k) /\ decisions[k].kind = "approval"
            /\ decisions[k].answer = "yes"
        BY <3>1, <3>3 DEF Unapplied, Granted, GrantApproval
      <4>2. \A j \in DOMAIN decisions :
              decisions[j].kind = "approval" /\ decisions[j].task = decisions[k].task => j <= k
        BY <4>1 DEF ApprovalInv
      <4>3. k # i
        <5> SUFFICES ASSUME k = i PROVE FALSE
          OBVIOUS
        <5>1. decisions[i] \in Decision /\ decisions[i].answer = "yes"
          BY <1>0, <4>1
        <5>2. decisions'[i] = [decisions[i] EXCEPT !.applied = TRUE]
          BY <1>0, <3>1
        <5>3. decisions'[i].applied /\ decisions'[i].answer = "yes"
          BY <5>1, <5>2 DEF Decision
        <5> QED BY <5>3 DEF Granted
      <4>4. decisions[k].task # t
        <5> SUFFICES ASSUME decisions[k].task = t PROVE FALSE
          OBVIOUS
        <5>1. k <= i /\ i <= k /\ i \in Nat /\ k \in Nat
          BY <1>0, <1>1, <4>1, <4>2
        <5> QED BY <4>3, <5>1
      <4>5. draft'.status = [draft.status EXCEPT ![decisions[k].task] = "ready"]
        BY <3>3 DEF GrantApproval, IInv, TypeOK, Draft
      <4> QED BY <1>0, <3>2, <4>4, <4>5 DEF Board
    <3>4. CASE AddAsked(k)
      <4>1. PICK n \in Task :
              /\ draft.status[n] = "absent"
              /\ draft' = [status |-> [draft.status EXCEPT ![n] = "backlog"],
                           deps |-> [draft.deps EXCEPT ![n] = LastActive(draft.status)],
                           asked |-> [draft.asked EXCEPT ![n] = k]]
        BY <3>4 DEF AddAsked, NextId
      <4>2. n # t
        BY <3>2, <4>1 DEF Stuck
      <4> QED BY <1>0, <3>2, <4>1, <4>2 DEF Board
    <3>5. CASE ChangesNothing(k)
      BY <3>2, <3>5 DEF ChangesNothing
    <3> QED BY <3>1, <3>3, <3>4, <3>5
  <2>3. ~WritePlan /\ ~Crash
    BY <1>3 DEF WritePlan, Crash, Drafting
  <2> QED BY <1>1, <1>3, <2>1, <2>2, <2>3, DraftingSteps
<1>4. ~(summary'.task = t /\ summary'.exit = "max_rounds")
  <2>1. CASE summary' = summary
    BY <1>1, <2>1
  <2>2. ASSUME NEW u \in Task, status[u] \in HalfWay, summary'.task = u PROVE u # t
    BY <1>1, <2>2 DEF HalfWay, Stuck
  <2> QED BY <2>1, <2>2, SummaryStep
<1> QED BY <1>2, <1>3, <1>4

LEMMA ApprovalStep == IInv /\ ApprovalInv /\ AnswerInv /\ [Next]_vars => ApprovalInv'
<1> SUFFICES ASSUME IInv, ApprovalInv, AnswerInv, [Next]_vars,
                    NEW i \in DOMAIN decisions', decisions'[i].kind = "approval"
             PROVE  /\ decisions'[i].task \in Task /\ status'[decisions'[i].task] # "absent"
                    /\ \/ Granted(i)'
                       \/ /\ status'[decisions'[i].task] \in Stuck
                          /\ pc' \in Drafting => draft'.status[decisions'[i].task] \in Stuck
                          /\ ~(summary'.task = decisions'[i].task /\ summary'.exit = "max_rounds")
                          /\ \A j \in DOMAIN decisions' :
                               decisions'[j].kind = "approval"
                                 /\ decisions'[j].task = decisions'[i].task => j <= i
  BY DEF ApprovalInv
<1>0. status \in Board /\ DOMAIN decisions \subseteq Nat /\ DOMAIN decisions' \subseteq Nat
  BY TypeStep DEF IInv, TypeOK
<1>1. CASE i \in DOMAIN decisions
  <2>1. PICK t : t = decisions[i].task
    OBVIOUS
  <2>2. decisions[i].kind = "approval" /\ decisions'[i].task = t
    BY <1>1, <2>1, DecisionKept
  <2>3. t \in Task /\ status[t] # "absent"
    BY <1>1, <2>1, <2>2 DEF ApprovalInv
  <2>4. status'[t] # "absent"
    BY <1>0, <2>3, TableStep, AllowedTable DEF Moves, Board, Statuses
  <2>5. ASSUME ~Granted(i)'
        PROVE  /\ status'[t] \in Stuck
               /\ pc' \in Drafting => draft'.status[t] \in Stuck
               /\ ~(summary'.task = t /\ summary'.exit = "max_rounds")
               /\ \A j \in DOMAIN decisions' :
                    decisions'[j].kind = "approval" /\ decisions'[j].task = t => j <= i
    <3>1. ~Granted(i)
      BY <1>1, <2>5, DecisionKept DEF Granted
    <3>2. /\ status'[t] \in Stuck
          /\ pc' \in Drafting => draft'.status[t] \in Stuck
          /\ ~(summary'.task = t /\ summary'.exit = "max_rounds")
      BY <1>1, <2>1, <2>2, <2>3, <2>5, <3>1, StaysStuck
    <3>3. ASSUME NEW j \in DOMAIN decisions', decisions'[j].kind = "approval",
                 decisions'[j].task = t
          PROVE  j <= i
      <4>1. CASE j \in DOMAIN decisions
        <5>1. decisions[j].kind = "approval" /\ decisions[j].task = t
          BY <3>3, <4>1, DecisionKept
        <5> QED BY <1>1, <2>1, <2>2, <3>1, <4>1, <5>1 DEF ApprovalInv
      <4>2. CASE j \notin DOMAIN decisions
        <5>1. NeedsApproval(t)
          BY <3>3, <4>2, DecisionNew
        <5>2. status[t] = "in_progress"
          BY <2>3, <5>1, CurrentIsNotOver DEF NeedsApproval, IInv
        <5>3. status[t] \in Stuck
          BY <1>1, <2>1, <2>2, <3>1 DEF ApprovalInv
        <5> QED BY <5>2, <5>3 DEF Stuck
      <4> QED BY <4>1, <4>2
    <3> QED BY <3>2, <3>3
  <2> QED BY <2>2, <2>3, <2>4, <2>5
<1>2. CASE i \notin DOMAIN decisions
  <2>1. PICK t \in Task : NeedsApproval(t) /\ decisions'[i].task = t
    BY <1>2, DecisionNew
  <2>2. status'[t] = "blocked" /\ pc' = "next" /\ summary' = [task |-> t, exit |-> "other"]
    BY <1>0, <2>1 DEF NeedsApproval, Block, Board
  <2>3. \A j \in DOMAIN decisions' : j <= i
    <3>1. /\ DOMAIN decisions' \subseteq DOMAIN decisions \cup {i}
          /\ \A j \in DOMAIN decisions : j < i
      BY <1>2, DecisionNew
    <3> QED BY <1>0, <3>1
  <2> QED BY <2>1, <2>2, <2>3 DEF Stuck, Drafting
<1> QED BY <1>1, <1>2

-----------------------------------------------------------------------------
LEMMA FilesInit == Init => FilesInv
<1> SUFFICES ASSUME Init PROVE FilesInv
  OBVIOUS
<1>1. AskedInv /\ ApprovalInv
  BY DEF Init, AskedInv, ApprovalInv, Pending
<1>2. AnswerInv /\ DoneInv
  BY DEF Init, AnswerInv, DoneInv, Complete, Drafting, Executing, Replanning
<1>3. PICK p \in Plans :
        /\ status = [t \in Task |-> IF t > Planned THEN "absent"
                                    ELSE IF p[t] = {} THEN "ready" ELSE "backlog"]
        /\ deps = [t \in Task |-> IF t > Planned THEN {} ELSE p[t]]
  BY DEF Init
<1>4. \A t \in Task : status[t] \in {"absent", "ready", "backlog"}
  BY <1>3
<1>5. \A t \in Task : status[t] = "backlog" => deps[t] # {}
  BY <1>3
<1>6. FollowInv
  <2>1. \A t \in Task : deps[t] \subseteq Task
    BY TypeInit DEF TypeOK, Waits
  <2> QED BY <1>4, <2>1 DEF Init, FollowInv, Drafting
<1>7. SettledInv
  <2>1. Done(status) = {}
    BY <1>3, <1>4 DEF Done
  <2>2. \A t \in Task : status[t] = "backlog" => ~(deps[t] \subseteq Done(status))
    BY <1>5, <2>1
  <2> QED BY <1>4, <2>2 DEF Init, SettledInv, HalfWay
<1> QED BY <1>1, <1>2, <1>6, <1>7 DEF FilesInv

LEMMA FilesStep == IInv /\ FilesInv /\ [Next]_vars => FilesInv'
BY AskedStep, AnswerStep, FollowStep, SettledStep, ApprovalStep, DoneStep DEF FilesInv

LEMMA FilesAlways == Spec => [](IInv /\ FilesInv)
<1>1. Init => IInv /\ FilesInv
  BY InvInit, FilesInit
<1>2. IInv /\ FilesInv /\ [Next]_vars => (IInv /\ FilesInv)'
  BY InvStep, FilesStep
<1> QED BY <1>1, <1>2, PTL DEF Spec

(* However a process comes to its end, a question that is still open is    *)
(* what run.json reports: paused, never complete, running or blocked.      *)
THEOREM QuestionsAreReported == Spec => []PendingMeansPaused
<1>1. FilesInv => PendingMeansPaused
  BY DEF FilesInv, AskedInv, PendingMeansPaused
<1> QED BY FilesAlways, <1>1, PTL

(* An answer is never marked applied and lost: outside the resume that     *)
(* applies it, the task it asked for is in task_plan.json.                 *)
THEOREM AnswersHaveTheirTask == Spec => []AppliedHasEffect
<1>1. FilesInv => AppliedHasEffect
  BY DEF FilesInv, AnswerInv, AppliedHasEffect, Wanted, Drafting
<1> QED BY FilesAlways, <1>1, PTL

(* Nobody is left waiting for a task that a repair has replaced.           *)
THEOREM DependentsAreRewired == Spec => []DependentsFollowRepair
<1>1. FilesInv => DependentsFollowRepair
  BY DEF FilesInv, FollowInv, DependentsFollowRepair
<1> QED BY FilesAlways, <1>1, PTL

(* A process that ends by itself leaves no task half way, and none waiting *)
(* that could start.                                                       *)
THEOREM AllSettled == Spec => []NothingLeftBehind
<1>1. FilesInv => NothingLeftBehind
  BY DEF FilesInv, SettledInv, NothingLeftBehind, Executing, HalfWay
<1> QED BY FilesAlways, <1>1, PTL

(* What "completed" in run.json means to whoever reads it, and what a      *)
(* later resume may add to it.                                             *)
THEOREM CompletedMeansResolved == Spec => []CompletedIsResolved
<1>1. IInv /\ FilesInv => CompletedIsResolved
  <2> SUFFICES ASSUME IInv, FilesInv, Complete
               PROVE  /\ Active(status) # {}
                      /\ \A t \in Active(status) \ Done(status) :
                           asked[t] # 0 /\ status[t] \in {"backlog", "ready"}
    BY DEF CompletedIsResolved, Complete
  <2>1. AddedOnly(status, asked) /\ status \in Board
    BY DEF FilesInv, DoneInv, IInv, TypeOK
  <2> QED BY <2>1 DEF AddedOnly, Active, Done, Board
<1> QED BY FilesAlways, <1>1, PTL

(* Whatever sets a blocked task ready (a soft-fuse continue, a resume), a  *)
(* task whose last approval was not granted is not begun.                  *)
THEOREM ApprovalsHold == Spec => ApprovalHolds
<1> DEFINE Held == \A t \in Task, i \in DOMAIN decisions :
              /\ decisions[i].kind = "approval" /\ decisions[i].task = t
              /\ \A j \in DOMAIN decisions :
                   decisions[j].kind = "approval" /\ decisions[j].task = t => j <= i
              /\ status[t] = "ready" /\ status'[t] = "in_progress"
              => decisions[i].answer = "yes"
<1>1. FilesInv /\ [Next]_vars => [Held]_vars
  BY DEF FilesInv, ApprovalInv, Granted, Stuck
<1> QED BY FilesAlways, <1>1, PTL DEF Spec, ApprovalHolds

-----------------------------------------------------------------------------
(***************************************************************************)
(* Lineages.  Root is defined by recursion over source; that it is a        *)
(* function at all, and the only one, is kept from step to step: a repair   *)
(* task gets a number that no task has, so nobody is a repair of it yet.    *)
(***************************************************************************)

IsRoot(f, src) == f = [t \in Task |-> IF src[t] = 0 THEN t ELSE f[src[t]]]

RootInv == /\ \E f : IsRoot(f, source)
           /\ \A f, g : IsRoot(f, source) /\ IsRoot(g, source) => f = g

SourceInv == \A t \in Task :
    /\ status[t] = "absent" => source[t] = 0
    /\ source[t] # 0 => status[source[t]] # "absent"

LineageInv == SourceInv /\ RootInv /\ LineageBounded

LEMMA RootIs == RootInv => IsRoot(Root, source)
BY DEF RootInv, IsRoot, Root

\* Giving a source to a task that is nobody's source extends the roots by it.
LEMMA RootExtends ==
    ASSUME NEW src \in [Task -> 0..MaxTask], NEW n \in Task, NEW t \in Task, t # n,
           src[n] = 0, \A u \in Task : src[u] # n,
           NEW s2, \A u \in Task : s2[u] = IF u = n THEN t ELSE src[u]
    PROVE  /\ \A f : IsRoot(f, src) => IsRoot([f EXCEPT ![n] = f[t]], s2)
           /\ \A g : IsRoot(g, s2) => IsRoot([g EXCEPT ![n] = n], src) /\ g[n] = g[t]
<1>0. /\ s2[n] = t
      /\ \A u \in Task : u # n => s2[u] = src[u]
      /\ t # 0
  BY TaskIsNat DEF Task
<1>1. \A u \in Task : src[u] # 0 => src[u] \in Task
  BY Constants DEF Task
<1>2. ASSUME NEW f, IsRoot(f, src) PROVE IsRoot([f EXCEPT ![n] = f[t]], s2)
  <2> DEFINE h == [f EXCEPT ![n] = f[t]]
  <2>1. DOMAIN f = Task /\ f = [u \in Task |-> f[u]]
    BY <1>2 DEF IsRoot
  <2>2. \A u \in Task : f[u] = IF src[u] = 0 THEN u ELSE f[src[u]]
    BY <1>2 DEF IsRoot
  <2>3. h = [u \in Task |-> IF u = n THEN f[t] ELSE f[u]]
    BY <2>1
  <2>4. \A u \in Task : h[u] = IF s2[u] = 0 THEN u ELSE h[s2[u]]
    <3> SUFFICES ASSUME NEW u \in Task PROVE h[u] = IF s2[u] = 0 THEN u ELSE h[s2[u]]
      OBVIOUS
    <3>1. CASE u = n
      <4>1. h[u] = f[t] /\ s2[u] = t /\ h[t] = f[t]
        BY <1>0, <2>3, <3>1
      <4> QED BY <1>0, <4>1
    <3>2. CASE u # n
      <4>1. h[u] = f[u] /\ s2[u] = src[u]
        BY <1>0, <2>3, <3>2
      <4>2. src[u] # 0 => h[src[u]] = f[src[u]]
        BY <1>1, <2>3
      <4> QED BY <2>2, <4>1, <4>2
    <3> QED BY <3>1, <3>2
  <2> HIDE DEF h
  <2>5. h = [u \in Task |-> IF s2[u] = 0 THEN u ELSE h[s2[u]]]
    BY <2>3, <2>4
  <2> QED BY <2>5 DEF IsRoot, h
<1>3. ASSUME NEW g, IsRoot(g, s2) PROVE IsRoot([g EXCEPT ![n] = n], src) /\ g[n] = g[t]
  <2> DEFINE h == [g EXCEPT ![n] = n]
  <2>1. DOMAIN g = Task /\ g = [u \in Task |-> g[u]]
    BY <1>3 DEF IsRoot
  <2>2. \A u \in Task : g[u] = IF s2[u] = 0 THEN u ELSE g[s2[u]]
    BY <1>3 DEF IsRoot
  <2>3. h = [u \in Task |-> IF u = n THEN n ELSE g[u]]
    BY <2>1
  <2>4. \A u \in Task : h[u] = IF src[u] = 0 THEN u ELSE h[src[u]]
    <3> SUFFICES ASSUME NEW u \in Task PROVE h[u] = IF src[u] = 0 THEN u ELSE h[src[u]]
      OBVIOUS
    <3>1. CASE u = n
      BY <2>3, <3>1
    <3>2. CASE u # n
      <4>1. h[u] = g[u] /\ s2[u] = src[u]
        BY <1>0, <2>3, <3>2
      <4>2. src[u] # 0 => h[src[u]] = g[src[u]]
        BY <1>1, <2>3
      <4> QED BY <2>2, <4>1, <4>2
    <3> QED BY <3>1, <3>2
  <2>5. g[n] = g[t]
    BY <1>0, <2>2
  <2> HIDE DEF h
  <2>6. h = [u \in Task |-> IF src[u] = 0 THEN u ELSE h[src[u]]]
    BY <2>3, <2>4
  <2> QED BY <2>5, <2>6 DEF IsRoot, h
<1> QED BY <1>2, <1>3

LEMMA SourceChangers ==
    ASSUME [Next]_vars
    PROVE  source' = source \/ \E t \in Task : AddRepair(t)
<1> USE DEF plan
<1>1. CASE \E t \in Task : TaskStep(t) \/ Escalate(t)
  BY <1>1, TaskFrame DEF Escalate
<1>2. CASE \/ ApplyDecision \/ WritePlan \/ ResumeDeclines \/ ResumeGoesOn \/ Iterate
           \/ BudgetGuard \/ IterationsUp \/ Cycle \/ CyclesUp \/ NothingReady \/ Outer \/ Finish
  BY <1>2 DEF ApplyDecision, WritePlan, ResumeDeclines, ResumeGoesOn, Iterate, BudgetGuard,
     IterationsUp, Cycle, CyclesUp, NothingReady, Outer, Finish
<1>3. CASE \/ Execute \/ Settle \/ Finalize \/ UserPaused \/ NotBlocked \/ Blocked
           \/ SoftContinue \/ Replan \/ Supersede \/ Rewire \/ ReplanEnds
  BY <1>3 DEF Execute, Settle, Finalize, UserPaused, NotBlocked, Blocked, SoftContinue, Replan,
     Supersede, Rewire, ReplanEnds
<1>4. CASE \/ Launch \/ ResumeRefused \/ Resume \/ RequestPause \/ Decide \/ Crash
           \/ UNCHANGED vars
  BY <1>4 DEF Launch, ResumeRefused, Resume, RequestPause, Decide, Crash, vars
<1> QED BY <1>1, <1>2, <1>3, <1>4 DEF Next, Process

LEMMA RepairsFinite == ASSUME NEW r PROVE IsFiniteSet(Repairs(r)) /\ Cardinality(Repairs(r)) \in Nat
<1>1. IsFiniteSet(Task)
  BY Constants, FS_Interval DEF Task
<1>2. Repairs(r) \subseteq Task
  BY DEF Repairs
<1> QED BY <1>1, <1>2, FS_Subset, FS_CardinalityType

LEMMA LineageStep == IInv /\ LineageInv /\ [Next]_vars => LineageInv'
<1> SUFFICES ASSUME IInv, LineageInv, [Next]_vars PROVE LineageInv'
  OBVIOUS
<1>0. status \in Board /\ source \in [Task -> 0..MaxTask] /\ MaxReplans \in Nat
  BY RunAssumption DEF IInv, TypeOK, RunAssumption
<1>1. \A t \in Task : status'[t] = "absent" => status[t] = "absent"
  BY <1>0, TableStep, AllowedTable DEF Moves, Board, Statuses
<1>2. CASE source' = source
  <2>1. SourceInv'
    <3> SUFFICES ASSUME NEW t \in Task
                 PROVE  /\ status'[t] = "absent" => source'[t] = 0
                        /\ source'[t] # 0 => status'[source'[t]] # "absent"
      BY DEF SourceInv
    <3>1. source[t] # 0 => source[t] \in Task
      BY <1>0 DEF Task
    <3> QED BY <1>1, <1>2, <3>1 DEF LineageInv, SourceInv
  <2>2. RootInv'
    BY <1>2 DEF LineageInv, RootInv
  <2>3. LineageBounded'
    BY <1>2 DEF LineageInv, LineageBounded, Repairs, Root
  <2> QED BY <2>1, <2>2, <2>3 DEF LineageInv
<1>3. ASSUME NEW t \in Task, AddRepair(t) PROVE LineageInv'
  <2>1. PICK n \in Task : /\ status[n] = "absent"
                          /\ status' = [status EXCEPT ![n] = "ready"]
                          /\ source' = [source EXCEPT ![n] = t]
    BY <1>3 DEF AddRepair, NextId
  <2>2. status[t] # "absent" /\ t # n /\ t # 0
    BY <1>3, <2>1, TaskIsNat DEF AddRepair, IInv, ReplanInv, Task
  <2>3. source[n] = 0 /\ \A u \in Task : source[u] # n
    BY <2>1, TaskIsNat DEF LineageInv, SourceInv, Task
  <2>4. /\ \A u \in Task : source'[u] = IF u = n THEN t ELSE source[u]
        /\ \A u \in Task : status'[u] = IF u = n THEN "ready" ELSE status[u]
    BY <1>0, <2>1 DEF Board
  <2>5. SourceInv'
    <3> SUFFICES ASSUME NEW u \in Task
                 PROVE  /\ status'[u] = "absent" => source'[u] = 0
                        /\ source'[u] # 0 => status'[source'[u]] # "absent"
      BY DEF SourceInv
    <3>1. source[u] # 0 => source[u] \in Task
      BY <1>0 DEF Task
    <3> QED BY <2>2, <2>4, <3>1 DEF LineageInv, SourceInv
  <2>6. /\ \A f : IsRoot(f, source) => IsRoot([f EXCEPT ![n] = f[t]], source')
        /\ \A g : IsRoot(g, source') => IsRoot([g EXCEPT ![n] = n], source) /\ g[n] = g[t]
    <3>1. source \in [Task -> 0..MaxTask]
      BY <1>0
    <3>2. ASSUME NEW f, IsRoot(f, source) PROVE IsRoot([f EXCEPT ![n] = f[t]], source')
      BY ONLY <2>2, <2>3, <2>4, <3>1, <3>2, n \in Task, t \in Task, RootExtends
    <3>3. ASSUME NEW g, IsRoot(g, source')
          PROVE  IsRoot([g EXCEPT ![n] = n], source) /\ g[n] = g[t]
      BY ONLY <2>2, <2>3, <2>4, <3>1, <3>3, n \in Task, t \in Task, RootExtends
    <3> QED BY <3>2, <3>3
  <2>7. IsRoot(Root, source)
    BY RootIs DEF LineageInv
  <2>8. \A g : IsRoot(g, source') => g = [Root EXCEPT ![n] = Root[t]]
    <3> SUFFICES ASSUME NEW g, IsRoot(g, source') PROVE g = [Root EXCEPT ![n] = Root[t]]
      OBVIOUS
    <3>1. [g EXCEPT ![n] = n] = Root /\ g[n] = g[t]
      BY <2>6, <2>7 DEF LineageInv, RootInv
    <3>2. g = [u \in Task |-> g[u]] /\ DOMAIN g = Task
      BY DEF IsRoot
    <3>3. Root[t] = g[t] /\ \A u \in Task : u # n => Root[u] = g[u]
      BY <2>2, <3>1, <3>2
    <3>4. Root = [u \in Task |-> Root[u]] /\ DOMAIN Root = Task
      BY <2>7 DEF IsRoot
    <3> QED BY <3>1, <3>2, <3>3, <3>4
  <2>9. RootInv'
    BY <2>6, <2>7, <2>8 DEF RootInv
  <2>10. Root' = [Root EXCEPT ![n] = Root[t]]
    <3>1. (RootInv => IsRoot(Root, source))'
      BY RootIs, PTL
    <3> QED BY <2>8, <2>9, <3>1
  <2>11. \A u \in Task : Root'[u] = IF u = n THEN Root[t] ELSE Root[u]
    BY <2>7, <2>10 DEF IsRoot
  <2>12. ASSUME NEW r \in Task
         PROVE  Repairs(r)' = IF r = Root[t] THEN Repairs(r) \cup {n} ELSE Repairs(r)
    BY <2>2, <2>3, <2>4, <2>11 DEF Repairs
  <2>13. LineageBounded'
    <3> SUFFICES ASSUME NEW r \in Task PROVE Cardinality(Repairs(r)') <= MaxReplans
      BY DEF LineageBounded
    <3>1. Cardinality(Repairs(r)) <= MaxReplans
      BY DEF LineageInv, LineageBounded
    <3>2. CASE r = Root[t]
      <4>1. ~(Cardinality(Repairs(r)) >= MaxReplans)
        BY <1>3, <3>2 DEF AddRepair, MustAsk
      <4>2. n \notin Repairs(r)
        BY <2>3 DEF Repairs
      <4>3. Cardinality(Repairs(r) \cup {n}) = Cardinality(Repairs(r)) + 1
        BY <4>2, RepairsFinite, FS_AddElement
      <4> QED BY <1>0, <2>12, <3>2, <4>1, <4>3, RepairsFinite
    <3>3. CASE r # Root[t]
      BY <2>12, <3>1, <3>3
    <3> QED BY <3>2, <3>3
  <2> QED BY <2>5, <2>9, <2>13 DEF LineageInv
<1> QED BY <1>2, <1>3, SourceChangers

(* However failures, answers, crashes and restarts alternate, a task and    *)
(* the repairs of its repairs never use up more than the cap of the policy. *)
THEOREM LineagesEnd == Spec => []LineageBounded
<1>1. Init => LineageInv
  <2> SUFFICES ASSUME Init PROVE LineageInv
    OBVIOUS
  <2>1. source = [t \in Task |-> 0] /\ MaxReplans \in Nat
    BY RunAssumption DEF Init, RunAssumption
  <2>2. SourceInv
    BY <2>1 DEF SourceInv
  <2>3. RootInv
    <3>1. PICK id : id = [t \in Task |-> t]
      OBVIOUS
    <3>2. \A f : IsRoot(f, source) <=> f = id
      BY <2>1, <3>1 DEF IsRoot
    <3>3. IsRoot(id, source)
      BY <3>2
    <3>4. \E f : IsRoot(f, source)
      BY <3>3
    <3>5. ASSUME NEW f, NEW g, IsRoot(f, source), IsRoot(g, source) PROVE f = g
      BY <3>2, <3>5
    <3> QED BY <3>4, <3>5 DEF RootInv
  <2>4. LineageBounded
    <3>1. \A r : Repairs(r) = {}
      BY <2>1 DEF Repairs
    <3> QED BY <2>1, <3>1, FS_EmptySet DEF LineageBounded
  <2> QED BY <2>2, <2>3, <2>4 DEF LineageInv
<1>2. IInv /\ LineageInv /\ [Next]_vars => LineageInv'
  BY LineageStep
<1>3. LineageInv => LineageBounded
  BY DEF LineageInv
<1> QED BY InvAlways, <1>1, <1>2, <1>3, PTL DEF Spec

=============================================================================
