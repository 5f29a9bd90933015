------------------------------ MODULE RunLoop ------------------------------
(***************************************************************************)
(* One run of the runtime, from its finished plan to the end of its last   *)
(* process: RunCommand.continue_run with its budget guard, the loop of     *)
(* ExecuteCommands, the model-driven turns of a task, the finalizer, the   *)
(* soft-fuse and replan rings, decisions, pause, crash and resume.         *)
(*                                                                         *)
(* What a process keeps in memory is in mem and dies with it; everything   *)
(* else is a file of the run directory, written where the code writes it.  *)
(* One process at a time runs (WriterLock); the user answers decisions and *)
(* asks for a pause whenever he likes.                                     *)
(***************************************************************************)
EXTENDS TaskBoard, Sequences

CONSTANTS
    Planned,        \* the planner's tasks are 1..Planned
    MaxTask,        \* bound: task numbers, planned and created
    Plans,          \* plans the planner may make: what each task waits for
    MaxTasks,       \* max_tasks_per_iteration
    MaxIterations,  \* bound: --max-iterations, or max_iterations_per_goal
    MaxCycles,      \* _policy_max_inner_execute_cycles
    MaxRounds,      \* the model-driven round fuse of one attempt
    SoftCap,        \* max_soft_fuse_continues_per_task
    MaxReplans,     \* max_replans_per_task
    MaxItems,       \* ReplanCommand.max_items
    Limit,          \* max_model_calls_per_goal
    HardStopAt,     \* the first number of calls at hard_stop_threshold
    Rings,          \* autonomy_rings_default_on: FALSE for ask_everything
    MaxStarts,      \* bound: processes started for this run
    MaxPauses,      \* bound: pauses the user asks for
    MaxCrashes,     \* bound: processes that die
    MaxRepairs      \* bound: repair tasks the user asks for in a decision

Task == 1..MaxTask

ASSUME RunAssumption ==
    /\ {Planned, MaxTask, MaxTasks, MaxCycles, MaxRounds,
        MaxItems, Limit, HardStopAt} \subseteq Nat \ {0}
    /\ {MaxIterations, SoftCap, MaxStarts, MaxPauses, MaxCrashes, MaxRepairs,
        MaxReplans} \subseteq Nat
    /\ Rings \in BOOLEAN
    /\ Plans \subseteq [1..Planned -> SUBSET (1..Planned)]
    /\ \A p \in Plans : \A t \in 1..Planned : t \notin p[t]  \* cycles pass the planner
    /\ MaxTask >= (Planned + MaxRepairs) * (1 + MaxReplans)

VARIABLES
    status, deps,   \* task_plan.json: status and depends_on of each task
    source,         \* replan.source_task_id of a repair task, else 0
    asked,          \* the decision that asked for this task, else 0
    evidence,       \* failures of a task that no replan has handled yet
    decisions,      \* decisions.jsonl, with the decision_applied events
    run,            \* run.json: status and current_phase
    calls,          \* cost_report.json: model calls
    summary,        \* agent_loop_run_summary.json: task and exit_reason
    providerSeen,   \* task_failures.jsonl holds a provider failure
    pauseFile,      \* pause.request exists
    pc, mem,        \* the running process, if any
    draft,          \* the plan a resume is editing in memory
    ended,          \* how the last process ended
    starts, pauses, crashes  \* counters of the bounds

plan   == <<status, deps, source, asked>>
files  == <<evidence, decisions, run, calls, summary, providerSeen>>
bounds == <<ended, starts, pauses, crashes>>
vars   == <<plan, files, pauseFile, pc, mem, draft, bounds>>

-----------------------------------------------------------------------------
Kinds   == {"plain", "risky"}   \* risky: _needs_decision(failure_type)
Outcome == {"none", "max_rounds", "other"}
Decision == [kind : {"approval", "budget", "repair"}, task : 0..MaxTask,
             answer : {"pending", "yes", "no"}, applied : BOOLEAN]

Steps == {"off", "apply", "write", "resumed", "iterate", "cycle", "execute",
          "next", "turn", "answer", "hops", "settle", "finalize", "after",
          "replan", "supersede", "rewire", "outer", "finish"}

\* The memory of a process: RunCommand's counters, then ExecuteCommand's
\* selection and results, then ReplanCommand's candidates and flags.
Memory == [iter : 0..MaxIterations, cycle : 0..MaxCycles,
           continues : [Task -> 0..SoftCap], applied : SUBSET Nat,
           userPaused : BOOLEAN,
           spent : Nat, chosen : SUBSET Task, round : 0..MaxRounds,
           blocked : {"none", "fuse", "provider", "other"}, paused : SUBSET Task,
           todo : SUBSET Task, old : 0..MaxTask, new : 0..MaxTask,
           created : BOOLEAN, escalated : BOOLEAN]

Blank == [iter |-> 0, cycle |-> 0, continues |-> [t \in Task |-> 0],
          applied |-> {}, userPaused |-> FALSE,
          spent |-> 0, chosen |-> {}, round |-> 0, blocked |-> "none",
          paused |-> {}, todo |-> {}, old |-> 0, new |-> 0,
          created |-> FALSE, escalated |-> FALSE]

\* _next_task_id: one more than the largest number in use.  RunAssumption
\* leaves a number for every task that can be asked for.
NextId(st, n) == st[n] = "absent" /\ \A t \in 1..(n-1) : st[t] # "absent"

NoDraft == [status |-> [t \in Task |-> "absent"], deps |-> [t \in Task |-> {}],
            asked |-> [t \in Task |-> 0]]

Board     == [Task -> Statuses \cup {"absent"}]
Waits     == [Task -> SUBSET Task]
Evidence  == [Task -> [exec : Seq(Kinds), fail : Seq(Kinds)]]
RunRecord == [status : {"running", "paused", "blocked", "completed"},
              phase : {"PLAN", "EXECUTE", "REPLAN", "RESUME", "DECISION",
                       "DONE", "ACCEPTED"}]
Summary   == [task : 0..MaxTask, exit : Outcome]
Draft     == [status : Board, deps : Waits, asked : [Task -> Nat]]

TypeOK ==
    /\ status \in Board
    /\ deps \in Waits
    /\ source \in [Task -> 0..MaxTask]
    /\ asked \in [Task -> Nat]
    /\ evidence \in Evidence
    /\ decisions \in Seq(Decision)
    /\ run \in RunRecord
    /\ calls \in Nat
    /\ summary \in Summary
    /\ providerSeen \in BOOLEAN
    /\ pauseFile \in BOOLEAN
    /\ pc \in Steps
    /\ mem \in Memory
    /\ draft \in Draft
    /\ ended \in {"never", "clean", "crashed"}
    /\ starts \in Nat /\ pauses \in Nat /\ crashes \in Nat

\* PlanCommand leaves run.json "completed" in phase PLAN.
Init ==
    /\ \E p \in Plans :
        /\ status = [t \in Task |-> IF t > Planned THEN "absent"
                                    ELSE IF p[t] = {} THEN "ready" ELSE "backlog"]
        /\ deps = [t \in Task |-> IF t > Planned THEN {} ELSE p[t]]
    /\ source = [t \in Task |-> 0]
    /\ asked = [t \in Task |-> 0]
    /\ evidence = [t \in Task |-> [exec |-> <<>>, fail |-> <<>>]]
    /\ decisions = <<>>
    /\ run = [status |-> "completed", phase |-> "PLAN"]
    /\ calls = 0
    /\ summary = [task |-> 0, exit |-> "none"]
    /\ providerSeen = FALSE
    /\ pauseFile = FALSE
    /\ pc = "off" /\ mem = Blank /\ draft = NoDraft
    /\ ended = "never" /\ starts = 0 /\ pauses = 0 /\ crashes = 0

-----------------------------------------------------------------------------
(* Starting a process: run on an existing session, or resume *)

Pending == {i \in DOMAIN decisions : decisions[i].answer = "pending"}
Unapplied == {i \in DOMAIN decisions :
                decisions[i].answer # "pending" /\ ~decisions[i].applied}

CanStart == pc = "off" /\ starts < MaxStarts

\* A new process, with the iterations it was given (0 is an option too).
Started == /\ \E n \in 0..MaxIterations : mem' = [Blank EXCEPT !.iter = n]
           /\ starts' = starts + 1
           /\ UNCHANGED <<ended, pauses, crashes>>

\* RunCommand.run without a goal, or after PlanCommand: continue_run.
Launch ==
    /\ CanStart
    /\ pc' = "iterate"
    /\ Started
    /\ UNCHANGED <<plan, files, pauseFile, draft>>

\* ResumeCommand drops a stale pause signal first, then refuses while a
\* decision is pending.
ResumeRefused ==
    /\ CanStart
    /\ Pending # {}
    /\ pauseFile
    /\ pauseFile' = FALSE
    /\ UNCHANGED <<plan, files, pc, mem, draft, bounds>>

\* Without unapplied decisions _apply_resolved_decisions writes nothing.
Resume ==
    /\ CanStart
    /\ Pending = {}
    /\ pauseFile' = FALSE
    /\ pc' = IF Unapplied = {} THEN "resumed" ELSE "apply"
    /\ draft' = [status |-> status, deps |-> deps, asked |-> asked]
    /\ Started
    /\ UNCHANGED <<plan, files>>

\* The task a resume adds for an answered decision waits for the last
\* active task of the list, if any.
LastActive(st) == {t \in Active(st) : \A u \in Active(st) : u <= t}

\* What the answer of decision i does to the plan in memory.
GrantApproval(i) ==
    /\ decisions[i].kind = "approval" /\ decisions[i].answer = "yes"
    /\ draft.status[decisions[i].task] = "blocked"
    /\ draft' = [draft EXCEPT !.status[decisions[i].task] = "ready"]

AddAsked(i) ==
    /\ decisions[i].kind = "repair" /\ decisions[i].answer = "yes"
    /\ \E n \in Task :
        /\ NextId(draft.status, n)
        /\ draft' = [status |-> [draft.status EXCEPT ![n] = "backlog"],
                      deps |-> [draft.deps EXCEPT ![n] = LastActive(draft.status)],
                      asked |-> [draft.asked EXCEPT ![n] = i]]

ChangesNothing(i) ==
    /\ ~(decisions[i].kind = "repair" /\ decisions[i].answer = "yes")
    /\ ~(/\ decisions[i].kind = "approval" /\ decisions[i].answer = "yes"
         /\ draft.status[decisions[i].task] = "blocked")
    /\ draft' = draft

\* Each decision edits the plan in memory and records decision_applied.
ApplyDecision ==
    /\ pc = "apply"
    /\ \E i \in Unapplied :
        /\ \A j \in Unapplied : i <= j
        /\ GrantApproval(i) \/ AddAsked(i) \/ ChangesNothing(i)
        /\ decisions' = [decisions EXCEPT ![i].applied = TRUE]
        /\ mem' = [mem EXCEPT !.applied = @ \cup {i}]
        /\ pc' = IF Unapplied = {i} THEN "write" ELSE "apply"
    /\ UNCHANGED <<plan, evidence, run, calls, summary, providerSeen, pauseFile,
                   bounds>>

\* Mutant: the edited plan is not saved.
WritePlanNothing ==
    /\ pc = "write"
    /\ pc' = "resumed"
    /\ UNCHANGED <<plan, files, pauseFile, mem, draft, bounds>>

\* Only now is task_plan.json written, once for all the decisions.
WritePlan ==
    /\ pc = "write"
    /\ status' = Promoted(draft.status, draft.deps)
    /\ deps' = draft.deps
    /\ asked' = draft.asked
    /\ pc' = "resumed"
    /\ UNCHANGED <<source, files, pauseFile, mem, draft, bounds>>

Exit == /\ pc' = "off"
        /\ mem' = Blank
        /\ ended' = "clean"
        /\ UNCHANGED <<starts, pauses, crashes>>

\* "Run is already completed; no unapplied decisions found."
ResumeDeclines ==
    /\ pc = "resumed"
    /\ run.status = "completed" /\ mem.applied = {}
    /\ Exit
    /\ draft' = NoDraft
    /\ UNCHANGED <<plan, files, pauseFile>>

ResumeGoesOn ==
    /\ pc = "resumed"
    /\ ~(run.status = "completed" /\ mem.applied = {})
    /\ run' = IF run.status = "paused" THEN [status |-> "running", phase |-> "RESUME"] ELSE run
    /\ pc' = "iterate"
    /\ draft' = NoDraft
    /\ UNCHANGED <<plan, evidence, decisions, calls, summary, providerSeen,
                   pauseFile, mem, bounds>>

-----------------------------------------------------------------------------
(* RunCommand: the iterations, the budget guard and the inner loop *)

Ready == ReadyTasks(status, deps)
Decided(kind, t) == [kind |-> kind, task |-> t, answer |-> "pending", applied |-> FALSE]
AtHardStop == calls >= HardStopAt   \* hard_stop or exceeded
Waiting == [status |-> "paused", phase |-> "DECISION"]

Iterate ==
    /\ pc = "iterate"
    /\ mem.iter > 0
    /\ ~AtHardStop
    /\ mem' = [mem EXCEPT !.iter = @ - 1, !.cycle = 0,
                          !.continues = [t \in Task |-> 0]]
    /\ pc' = "cycle"
    /\ UNCHANGED <<plan, files, pauseFile, draft, bounds>>

\* _budget_guard at the hard stop: one pending budget decision at a time.
BudgetGuard ==
    /\ pc = "iterate"
    /\ mem.iter > 0
    /\ AtHardStop
    /\ decisions' = IF \E i \in Pending : decisions[i].kind = "budget"
                    THEN decisions ELSE Append(decisions, Decided("budget", 0))
    /\ run' = Waiting
    /\ pc' = "finish"
    /\ UNCHANGED <<plan, evidence, calls, summary, providerSeen, pauseFile,
                   mem, draft, bounds>>

IterationsUp ==
    /\ pc = "iterate"
    /\ mem.iter = 0
    /\ pc' = "finish"
    /\ UNCHANGED <<plan, files, pauseFile, mem, draft, bounds>>

Cycle ==
    /\ pc = "cycle"
    /\ Ready # {} /\ mem.cycle < MaxCycles
    /\ mem' = [mem EXCEPT !.cycle = @ + 1]
    /\ pc' = "execute"
    /\ UNCHANGED <<plan, files, pauseFile, draft, bounds>>

\* Mutant: the cycle limit stops the inner loop and leaves run.json alone.
CyclesUpUnmarked ==
    /\ pc = "cycle"
    /\ Ready # {} /\ mem.cycle = MaxCycles
    /\ pc' = "outer"
    /\ UNCHANGED <<plan, files, pauseFile, mem, draft, bounds>>

\* No cycle left: _pause_for_recovery_limit, without a decision to answer.
CyclesUp ==
    /\ pc = "cycle"
    /\ Ready # {} /\ mem.cycle = MaxCycles
    /\ run' = Waiting
    /\ pc' = "outer"
    /\ UNCHANGED <<plan, evidence, decisions, calls, summary, providerSeen,
                   pauseFile, mem, draft, bounds>>

NothingReady ==
    /\ pc = "cycle"
    /\ Ready = {}
    /\ pc' = "outer"
    /\ UNCHANGED <<plan, files, pauseFile, mem, draft, bounds>>

\* After the inner loop: stop, or iterate again.
Outer ==
    /\ pc = "outer"
    /\ pc' = IF mem.userPaused \/ run.status \in {"blocked", "paused"} \/ Ready = {}
             THEN "finish" ELSE "iterate"
    /\ UNCHANGED <<plan, files, pauseFile, mem, draft, bounds>>

\* The end of continue_run; a completed run whose executable verification
\* passed is accepted on the way (_maybe_auto_finalize).  Nothing has verified
\* anything before the first execute.
Finish ==
    /\ pc = "finish"
    /\ \/ UNCHANGED run
       \/ Rings /\ run.status = "completed" /\ run.phase # "PLAN"
          /\ run' = [run EXCEPT !.phase = "ACCEPTED"]
    /\ Exit
    /\ UNCHANGED <<plan, evidence, decisions, calls, summary, providerSeen,
                   pauseFile, draft>>

-----------------------------------------------------------------------------
(* ExecuteCommand: select, run the selected tasks, settle, finalize *)

Execute ==
    /\ pc = "execute"
    /\ run' = [status |-> "running", phase |-> "EXECUTE"]
    /\ mem' = [mem EXCEPT !.chosen = FirstReady(status, deps, MaxTasks),
                          !.spent = calls, !.blocked = "none", !.paused = {}]
    /\ pc' = "next"
    /\ UNCHANGED <<plan, evidence, decisions, calls, summary, providerSeen,
                   pauseFile, draft, bounds>>

\* The task at hand: the first of the selection that is still to be run.
Current(t) == t \in mem.chosen /\ \A u \in mem.chosen : t <= u

\* _execute_task marks the task in_progress before the first turn.
StartTask(t) ==
    /\ pc = "next"
    /\ Current(t)
    /\ status' = [status EXCEPT ![t] = "in_progress"]
    /\ mem' = [mem EXCEPT !.round = 1]
    /\ pc' = "turn"
    /\ UNCHANGED <<deps, source, asked, files, pauseFile, draft, bounds>>

\* The task is over: with the next one of the selection.
Over(t) == [mem EXCEPT !.chosen = @ \ {t}, !.round = 0]

\* Both evidence files get the newest failure in front.
Recorded(t, kind, inFailures) ==
    LET e == evidence[t]
    IN  [evidence EXCEPT ![t] =
           [exec |-> <<kind>> \o e.exec,
            fail |-> IF inFailures THEN <<kind>> \o e.fail ELSE e.fail]]

\* How a task that is not over budget is blocked: its status, its evidence, its result.
Block(t, how, kind, inFailures) ==
    /\ status' = [status EXCEPT ![t] = "blocked"]
    /\ evidence' = Recorded(t, kind, inFailures)
    /\ mem' = [Over(t) EXCEPT !.blocked = how]
    /\ pc' = "next"
    /\ UNCHANGED <<deps, source, asked, run, calls, pauseFile, draft, bounds>>

\* The delegation gate denies the worker before the task has started.
GateBlocks(t) ==
    /\ pc = "next"
    /\ Current(t)
    /\ Block(t, "other", "plain", TRUE)
    /\ UNCHANGED <<decisions, summary, providerSeen>>

-----------------------------------------------------------------------------
(* run_model_driven_turn: the turns of the task that is in progress *)

\* A pause is honoured at the turn boundary and its signal consumed; the
\* task stays in_progress until the selection is settled.
PauseTask(t) ==
    /\ pc = "turn"
    /\ Current(t)
    /\ pauseFile
    /\ pauseFile' = FALSE
    /\ summary' = [task |-> t, exit |-> "other"]
    /\ mem' = [Over(t) EXCEPT !.paused = @ \cup {t}]
    /\ pc' = "next"
    /\ UNCHANGED <<plan, evidence, decisions, run, calls, providerSeen, draft, bounds>>

\* chat counts the call before it is made, and refuses it past the limit.
AskModel(t) ==
    /\ pc = "turn"
    /\ Current(t)
    /\ ~pauseFile
    /\ mem.spent < Limit
    /\ mem' = [mem EXCEPT !.spent = @ + 1]
    /\ pc' = "answer"
    /\ UNCHANGED <<plan, files, pauseFile, draft, bounds>>

\* The refused call stays counted; the exception blocks the task, and its
\* failure type (provider_budget) asks nobody.
OverBudget(t) ==
    /\ pc = "turn"
    /\ Current(t)
    /\ ~pauseFile
    /\ mem.spent >= Limit
    /\ status' = [status EXCEPT ![t] = "blocked"]
    /\ evidence' = Recorded(t, "plain", TRUE)
    /\ mem' = [Over(t) EXCEPT !.blocked = "other", !.spent = @ + 1]
    /\ pc' = "next"
    /\ UNCHANGED <<deps, source, asked, decisions, run, calls, summary,
                   providerSeen, pauseFile, draft, bounds>>

\* Tools were called (or the reply was no decision): another round.
GoOn(t) ==
    /\ pc = "answer"
    /\ Current(t)
    /\ mem.round < MaxRounds
    /\ mem' = [mem EXCEPT !.round = @ + 1]
    /\ pc' = "turn"
    /\ UNCHANGED <<plan, files, pauseFile, draft, bounds>>

\* The completion contract holds, fuse or not: complete_task begins.
Completes(t) ==
    /\ pc = "answer"
    /\ Current(t)
    /\ pc' = "hops"
    /\ UNCHANGED <<plan, files, pauseFile, mem, draft, bounds>>

\* The fuse trips with the contract unmet: no round is left, or too many
\* replies in a row were no decision.
FuseTrips(t) ==
    /\ pc = "answer"
    /\ Current(t)
    /\ Block(t, "fuse", "plain", FALSE)
    /\ summary' = [task |-> t, exit |-> "max_rounds"]
    /\ UNCHANGED <<decisions, providerSeen>>

\* The model says it is done and the contract says it is not.
ContractFails(t) ==
    /\ pc = "answer"
    /\ Current(t)
    /\ Block(t, "other", "plain", FALSE)
    /\ summary' = [task |-> t, exit |-> "other"]
    /\ UNCHANGED <<decisions, providerSeen>>

\* A tool of the batch needs a human: nothing is run, a decision is asked.
NeedsApproval(t) ==
    /\ pc = "answer"
    /\ Current(t)
    /\ Block(t, "other", "risky", TRUE)
    /\ decisions' = Append(decisions, Decided("approval", t))
    /\ summary' = [task |-> t, exit |-> "other"]
    /\ UNCHANGED providerSeen

\* chat or a tool raises: _failure_type tells provider failures and those
\* for a human apart.
Raises(t) ==
    /\ pc = "answer"
    /\ Current(t)
    /\ \/ (\E kind \in Kinds : Block(t, "other", kind, TRUE)) /\ UNCHANGED providerSeen
       \/ Block(t, "provider", "plain", TRUE) /\ providerSeen' = TRUE
    /\ UNCHANGED <<decisions, summary>>

\* complete_task saves every hop; the notes and the summary come last.
HopTask(t) ==
    /\ pc = "hops"
    /\ Current(t)
    /\ status' = [status EXCEPT ![t] = Hop(@)]
    /\ IF status'[t] = "done"
       THEN /\ summary' = [task |-> t, exit |-> "other"]
            /\ mem' = Over(t)
            /\ pc' = "next"
       ELSE UNCHANGED <<summary, mem, pc>>
    /\ UNCHANGED <<deps, source, asked, evidence, decisions, run, calls,
                   providerSeen, pauseFile, draft, bounds>>

\* Mutant: paused tasks go back to ready and no task is promoted.
SettleNoPromotion ==
    /\ pc = "next"
    /\ mem.chosen = {}
    /\ status' = [t \in Task |-> IF t \in mem.paused THEN "ready" ELSE status[t]]
    /\ pc' = "finalize"
    /\ UNCHANGED <<deps, source, asked, files, pauseFile, mem, draft, bounds>>

\* Mutant: tasks are promoted and a paused task stays as it is.
SettleForgetsPaused ==
    /\ pc = "next"
    /\ mem.chosen = {}
    /\ status' = Promoted(status, deps)
    /\ pc' = "finalize"
    /\ UNCHANGED <<deps, source, asked, files, pauseFile, mem, draft, bounds>>

\* After the whole selection: promote_unblocked, then paused tasks go back
\* to ready.
Settle ==
    /\ pc = "next"
    /\ mem.chosen = {}
    /\ status' = [t \in Task |-> IF t \in mem.paused /\ status[t] = "in_progress"
                                 THEN "ready" ELSE Promoted(status, deps)[t]]
    /\ pc' = "finalize"
    /\ UNCHANGED <<deps, source, asked, files, pauseFile, mem, draft, bounds>>

\* Mutant: a run that is blocked says so although a decision is pending.
VerdictBlockedFirst ==
    IF mem.blocked # "none" /\ Ready = {} THEN [run EXCEPT !.status = "blocked"]
    ELSE IF Pending # {} THEN Waiting
    ELSE IF Resolved(status) THEN [status |-> "completed", phase |-> "DONE"]
    ELSE [run EXCEPT !.status = "running"]

\* Mutant: a run with nothing left to execute is complete.
VerdictNothingReady ==
    IF Pending # {} THEN Waiting
    ELSE IF Ready = {} THEN [status |-> "completed", phase |-> "DONE"]
    ELSE [run EXCEPT !.status = "running"]

\* finalize: the order of its cases, and "blocked" only if this execute
\* blocked something.
Verdict ==
    IF Pending # {} THEN Waiting
    ELSE IF Resolved(status) THEN [status |-> "completed", phase |-> "DONE"]
    ELSE IF mem.blocked # "none" /\ Ready = {} THEN [run EXCEPT !.status = "blocked"]
    ELSE [run EXCEPT !.status = "running"]

Finalize ==
    /\ pc = "finalize"
    /\ calls' = mem.spent
    /\ run' = Verdict
    /\ pc' = "after"
    /\ UNCHANGED <<plan, evidence, decisions, summary, providerSeen, pauseFile,
                   mem, draft, bounds>>

-----------------------------------------------------------------------------
(* RunCommand after an execute: pause, provider stop, soft fuse, replan *)

\* _mark_run_paused: the status is paused, the phase stays.
UserPaused ==
    /\ pc = "after"
    /\ mem.paused # {}
    /\ run' = [run EXCEPT !.status = "paused"]
    /\ mem' = [mem EXCEPT !.userPaused = TRUE]
    /\ pc' = "outer"
    /\ UNCHANGED <<plan, evidence, decisions, calls, summary, providerSeen,
                   pauseFile, draft, bounds>>

NotBlocked ==
    /\ pc = "after"
    /\ mem.paused = {}
    /\ run.status # "blocked"
    /\ pc' = "cycle"
    /\ UNCHANGED <<plan, files, pauseFile, mem, draft, bounds>>

BlockedHere == pc = "after" /\ mem.paused = {} /\ run.status = "blocked"

\* _latest_provider_transient_failure looks at the whole failures file.
Blocked ==
    /\ BlockedHere
    /\ providerSeen \/ ~Rings
    /\ pc' = "outer"
    /\ UNCHANGED <<plan, files, pauseFile, mem, draft, bounds>>

\* pressure is hard_stop, and not yet exceeded: the one status
\* _auto_continue_soft_fuse looks for.
SaysHardStop == AtHardStop /\ calls < Limit

\* Mutant: whatever ended the turn of a blocked task, it is continued.
MayContinueAnyExit ==
    /\ summary.task # 0
    /\ ~SaysHardStop
    /\ mem.continues[summary.task] < SoftCap
    /\ status[summary.task] = "blocked"

\* The latest loop summary is of a task that the soft fuse blocked and that
\* has continues left.
MayContinue ==
    /\ summary.exit = "max_rounds"
    /\ ~SaysHardStop
    /\ mem.continues[summary.task] < SoftCap
    /\ status[summary.task] = "blocked"

SoftContinue ==
    /\ BlockedHere
    /\ Rings /\ ~providerSeen
    /\ MayContinue
    /\ status' = [status EXCEPT ![summary.task] = "ready"]
    /\ mem' = [mem EXCEPT !.continues[summary.task] = @ + 1]
    /\ pc' = "cycle"
    /\ UNCHANGED <<deps, source, asked, files, pauseFile, draft, bounds>>

-----------------------------------------------------------------------------
(* ReplanCommand *)

\* The newest failure of t that is not handled: execution evidence first.
Failures(t) == evidence[t].exec \o evidence[t].fail
Handled(t) ==
    LET e == evidence[t]
    IN  [evidence EXCEPT ![t] =
           IF e.exec # <<>> THEN [exec |-> Tail(e.exec), fail |-> e.fail]
           ELSE [exec |-> e.exec, fail |-> Tail(e.fail)]]

Candidates == {t \in Task : status[t] = "blocked" /\ Failures(t) # <<>>}

\* The first tasks a task was replanned from, and how many repairs it had.
Root == LET root[t \in Task] == IF source[t] = 0 THEN t ELSE root[source[t]] IN root
Repairs(r) == {t \in Task : source[t] # 0 /\ Root[t] = r}

\* At most MaxItems candidates, the newest; their order is abstracted.
Replan ==
    /\ BlockedHere
    /\ Rings /\ ~providerSeen /\ ~MayContinue
    /\ \E S \in SUBSET Candidates :
        /\ Cardinality(S) <= MaxItems
        /\ Cardinality(S) < MaxItems => S = Candidates
        /\ mem' = [mem EXCEPT !.todo = S, !.created = FALSE, !.escalated = FALSE]
    /\ pc' = "replan"
    /\ UNCHANGED <<plan, files, pauseFile, draft, bounds>>

\* Mutant: the lineage cap is not consulted.
MustAskOnlyRisky(t) == Head(Failures(t)) = "risky"

\* The lineage used up its replans, or the failure is for a human.
MustAsk(t) == \/ Cardinality(Repairs(Root[t])) >= MaxReplans
              \/ Head(Failures(t)) = "risky"

Escalate(t) ==
    /\ pc = "replan"
    /\ t \in mem.todo
    /\ MustAsk(t)
    /\ decisions' = Append(decisions, Decided("repair", t))
    /\ evidence' = Handled(t)
    /\ mem' = [mem EXCEPT !.todo = @ \ {t}, !.escalated = TRUE]
    /\ UNCHANGED <<plan, run, calls, summary, providerSeen, pauseFile, pc, draft, bounds>>

\* _done_dependencies: the last done task of the list.
LastDone == {t \in Done(status) : \A u \in Done(status) : u <= t}

\* add_task: the repair task is ready behind the last done one.
AddRepair(t) ==
    /\ pc = "replan"
    /\ t \in mem.todo
    /\ ~MustAsk(t)
    /\ \E n \in Task :
        /\ NextId(status, n)
        /\ status' = [status EXCEPT ![n] = "ready"]
        /\ deps' = [deps EXCEPT ![n] = LastDone]
        /\ source' = [source EXCEPT ![n] = t]
        /\ mem' = [mem EXCEPT !.todo = @ \ {t}, !.created = TRUE, !.old = t, !.new = n]
    /\ evidence' = Handled(t)
    /\ pc' = "supersede"
    /\ UNCHANGED <<asked, decisions, run, calls, summary, providerSeen,
                   pauseFile, draft, bounds>>

Supersede ==
    /\ pc = "supersede"
    /\ status' = [status EXCEPT ![mem.old] = "discarded"]
    /\ pc' = "rewire"
    /\ UNCHANGED <<deps, source, asked, files, pauseFile, mem, draft, bounds>>

\* Mutant: the tasks behind the failed one keep waiting for it.
RewireNobody ==
    /\ pc = "rewire"
    /\ mem' = [mem EXCEPT !.old = 0, !.new = 0]
    /\ pc' = "replan"
    /\ UNCHANGED <<plan, files, pauseFile, draft, bounds>>

\* _rewire_dependents: what waited for the failed task waits for its repair.
Rewire ==
    /\ pc = "rewire"
    /\ deps' = [t \in Task |-> IF mem.old \in deps[t]
                               THEN (deps[t] \ {mem.old}) \cup {mem.new} ELSE deps[t]]
    /\ mem' = [mem EXCEPT !.old = 0, !.new = 0]
    /\ pc' = "replan"
    /\ UNCHANGED <<status, source, asked, files, pauseFile, draft, bounds>>

\* _update_run_status, and how _auto_goal_replan takes the result.
ReplanEnds ==
    /\ pc = "replan"
    /\ mem.todo = {}
    /\ run' = IF mem.escalated THEN Waiting
              ELSE IF mem.created THEN [status |-> "running", phase |-> "REPLAN"]
              ELSE [run EXCEPT !.status = "blocked"]
    /\ pc' = IF mem.created /\ ~mem.escalated THEN "cycle" ELSE "outer"
    /\ mem' = [mem EXCEPT !.created = FALSE, !.escalated = FALSE]
    /\ UNCHANGED <<plan, evidence, decisions, calls, summary, providerSeen,
                   pauseFile, draft, bounds>>

-----------------------------------------------------------------------------
(* The user and the operating system *)

RequestPause ==
    /\ pc # "off"
    /\ pauses < MaxPauses
    /\ pauseFile' = TRUE
    /\ pauses' = pauses + 1
    /\ UNCHANGED <<plan, files, pc, mem, draft, ended, starts, crashes>>

\* DecideCommand; the bound on repairs keeps the task numbers finite.
Decide ==
    /\ \E i \in Pending, a \in {"yes", "no"} :
        /\ decisions[i].kind = "repair" /\ a = "yes" =>
             Cardinality({j \in DOMAIN decisions :
                decisions[j].kind = "repair" /\ decisions[j].answer = "yes"}) < MaxRepairs
        /\ decisions' = [decisions EXCEPT ![i].answer = a]
    /\ UNCHANGED <<plan, evidence, run, calls, summary, providerSeen, pauseFile,
                   pc, mem, draft, bounds>>

Crash ==
    /\ pc # "off"
    /\ crashes < MaxCrashes
    /\ crashes' = crashes + 1
    /\ pc' = "off"
    /\ mem' = Blank
    /\ draft' = NoDraft
    /\ ended' = "crashed"
    /\ UNCHANGED <<plan, files, pauseFile, starts, pauses>>

-----------------------------------------------------------------------------
TaskStep(t) ==
    \/ StartTask(t) \/ GateBlocks(t) \/ PauseTask(t) \/ AskModel(t)
    \/ OverBudget(t) \/ GoOn(t) \/ Completes(t) \/ FuseTrips(t)
    \/ ContractFails(t) \/ NeedsApproval(t) \/ Raises(t) \/ HopTask(t)

\* The steps of the process that has the run.
Process ==
    \/ ApplyDecision \/ WritePlan \/ ResumeDeclines \/ ResumeGoesOn
    \/ Iterate \/ BudgetGuard \/ IterationsUp \/ Cycle \/ CyclesUp
    \/ NothingReady \/ Outer \/ Finish
    \/ Execute \/ (\E t \in Task : TaskStep(t)) \/ Settle \/ Finalize
    \/ UserPaused \/ NotBlocked \/ Blocked \/ SoftContinue
    \/ Replan \/ (\E t \in Task : Escalate(t) \/ AddRepair(t))
    \/ Supersede \/ Rewire \/ ReplanEnds

Next == Launch \/ ResumeRefused \/ Resume \/ Process
        \/ RequestPause \/ Decide \/ Crash

Spec == Init /\ [][Next]_vars

\* The thread that runs continue_run is never left waiting: its calls return
\* or raise.  Nothing is promised of users, crashes or new starts.
FairSpec == Spec /\ WF_vars(Process)

-----------------------------------------------------------------------------
(* Properties *)

\* No task is begun, and none is finished, before all it waits for is done;
\* repairs that replace a dependency and answers that add tasks included.
DependenciesDone ==
    \A t \in Task : status[t] \in {"in_progress", "testing", "reviewing", "done"}
                      => \A d \in deps[t] : status[d] = "done"

\* Whoever writes a status (the board, the settling of a pause, a replan, a
\* resume that edits the plan by hand), the change is one the board allows.
StatusFollowsTable ==
    [][\A t \in Task : \/ status'[t] = status[t]
                       \/ status[t] = "absent" /\ status'[t] \in {"backlog", "ready"}
                       \/ status[t] # "absent" /\ status'[t] \in Allowed[status[t]]]_vars

\* Once executed, a run is reported complete only when every task that was
\* not superseded is done, or was added by an answer since and not begun: a
\* resume adds it and leaves the status as it is until the next execute.
CompletedIsResolved ==
    run.status = "completed" /\ run.phase # "PLAN" =>
        /\ Active(status) # {}
        /\ \A t \in Active(status) \ Done(status) :
             asked[t] # 0 /\ status[t] \in {"backlog", "ready"}

\* A lineage of repairs never grows past its cap, however failures, answers
\* and restarts alternate.
LineageBounded == \A t \in Task : Cardinality(Repairs(t)) <= MaxReplans

\* A process that ended by itself left no task half way and no task waiting
\* whose dependencies are done.
NothingLeftBehind ==
    pc = "off" /\ crashes = 0 =>
        \A t \in Task :
            /\ status[t] \notin {"in_progress", "testing", "reviewing"}
            /\ status[t] = "backlog" => ~(deps[t] \subseteq Done(status))

\* No unfinished task waits for a task that a repair replaced.
DependentsFollowRepair ==
    pc = "off" /\ crashes = 0 => \A t \in Task, d \in Task :
        status[t] \notin {"absent", "done", "discarded"} /\ d \in deps[t]
            => status[d] # "discarded"

\* When a process has ended by itself with a question open, the run says so.
PendingMeansPaused ==
    pc = "off" /\ crashes = 0 /\ Pending # {} => run.status = "paused"

\* A task that asked for approval does not run again unless it was granted.
ApprovalHolds ==
    [][\A t \in Task, i \in DOMAIN decisions :
        /\ decisions[i].kind = "approval" /\ decisions[i].task = t
        /\ \A j \in DOMAIN decisions :
             decisions[j].kind = "approval" /\ decisions[j].task = t => j <= i
        /\ status[t] = "ready" /\ status'[t] = "in_progress"
        => decisions[i].answer = "yes"]_vars

\* An answered question that asks for a repair has its task in the plan once
\* the resume that applied it is over.
AppliedHasEffect ==
    pc \notin {"apply", "write"} /\ crashes = 0 => \A i \in DOMAIN decisions :
        decisions[i].applied /\ decisions[i].kind = "repair" /\ decisions[i].answer = "yes"
            => \E t \in Task : asked[t] = i

\* Unless its process crashes, a task that was begun is settled (done, blocked,
\* or ready for a resume), however the run comes to its end.
BegunSettles ==
    []<>(crashes > 0 \/ \A t \in Task : status[t] # "in_progress")

\* The inner loop leaves nothing to a second iteration of continue_run: with
\* a cap of one or of more, a process drives the same tasks.
OneIterationIsEnough == [][pc = "outer" => pc' # "iterate"]_vars

-----------------------------------------------------------------------------
(* What the repository says and the code does not do *)

\* A run whose process has ended by itself does not say it is running.
StoppedIsNotRunning == pc = "off" /\ ended = "clean" => run.status # "running"
=============================================================================
