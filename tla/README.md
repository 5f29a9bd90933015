# Asteria runtime: TLA+ models and proofs

This directory holds TLA+ models of the runtime in `src/src/asteria_runtime`
(below, paths are relative to that directory unless they start with `src/`) and
of the server of Studio in `src/studio`, the configurations TLC checks them
with, and proofs that TLAPS checks.

Asteria drives a coding agent: a *goal* becomes a *plan* of tasks, a *run*
executes the plan by calling a model that uses tools, and every step is
recorded in files of `.asteria/` so that another process can look at the run,
stop it or take it up again. There is no database and no daemon: what the
components share are files, written by several commands that are processes of
their own, and one lock. That is where the properties below come from.

## 1. Inventory

| Component | State | Operations | Interacts with |
|---|---|---|---|
| **Writer lock** `core/workspace_writer_lock.py` | flock on `writer.lock`, `writer.holder.json`, per-process registry with a count | enter, nested enter, leave, `writer_process_alive` | `continue_run`, `ExecuteCommand.run`, `PromotionsCommand.run` enter it; cancel and routing probe it |
| **Plan board** `core/task_board.py`, `task_graph.py` | `task_plan.json`: status and `depends_on` of each task | ready selection, promotion, transition table, completion hops | written by execute, replan, resume |
| **Run loop** `commands/run_command.py`, `execute_command.py`, `core/model_driven_turn.py`, `run_state_finalizer.py`, `task_blocking_handler.py` | `run.json`, `cost_report.json`, loop summary, counters in memory | iterate, budget guard, cycle, execute, turn, block, finalize, soft-fuse and replan rings, pause | board, replan, decisions, budget, model, tools |
| **Replan** `commands/replan_command.py` | failure evidence, handled marks | escalate, add repair task, supersede, rewire | board, decisions, run record |
| **Resume and decisions** `commands/resume_command.py`, `decide_command.py` | `decisions.jsonl`, `decision_applied` events | ask, answer, apply, resume | board, run record, run loop |
| **Run signals** `core/run_control.py` | `pause.request`, `steer.request` | request, look, take, clear | user or Studio writes, the turn loop takes |
| **Run record: cancel, resume, review, accept** `commands/cancel_command.py`, `resume_command.py`, `review_command.py`, `accept_command.py`, `storage/run_store.py` | `run.json` status | load, poll the lock, judge, write | run next to the driver, outside the lock; the driver reads the status back |
| **Candidate promotions** `commands/promotions_command.py`, `core/candidate_promotion_queue.py`, `candidate_workspace.py` | `candidate_promotions.jsonl`, candidate copies, the main workspace | approve, retry, reject, discard, validate, copy, mark | driver, operator and `accept`, under the lock or not |
| **Decision log and audit chain** `storage/jsonl_store.py`, `audit_chain.py`, `core/runtime_policy.py`, `commands/decide_command.py` | `decisions.jsonl` and its chain | match, ask, append, seal, show, answer, rewrite | turn loops of the driver, `decide` processes |
| **Goal queue, supervised loop** `core/goal_queue.py`, `supervised_goal_loop.py` | `goal_queue.json`, loop state | take, mark, link, release, tick | runs, accept |
| **Studio jobs** `src/studio/server.mjs`, `lib/chat-routes.mjs`, `lib/run-conflict.mjs` | jobs, `liveJobs`, permission cards, the warm worker | submit, allow, deny, start, stop, settle, follow up | cold processes and the warm worker, which take the lock |
| **Delegation to experts** `core/candidate_execution_gateway.py`, `candidate_workspace.py`, `execute_command.py` | candidates, write scopes, status of each expert | delegate, create, run, gate, promote, credit | the lead's turn, git, the shared workspace |
| **Stores** `storage/json_store.py`, `jsonl_store.py` | the files of `.asteria/` and their temporary names | write (temporary file, fsync, rename), append, read all, rewrite all | every other component |
| **MCP servers** `core/mcp_adapter.py` | one server process for a run, a request counter, two pipes | handshake, call, read, time out, retry, close | threads of the turn loops, the server |
| **Background runs** `core/local_background_run.py` | `background_run_registry.json` | start, list, probe, link, save | operating system, run records, every status view |
| Budget `core/budget.py`, `deadline_budget.py` | counters, cost report | record, check, pressure | run loop, decisions |
| Tool gateway, permissions `core/tool_execution_gateway.py`, `permission_policy.py`, `security/` | policy, approvals | allow, deny, ask | turn loop, decisions |
| Failure evidence `core/task_execution_evidence.py`, `models/model_failure.py` | evidence files | record, classify | replan |
| Planner and agents `agents/`, `commands/plan_command.py` | goal spec, plan | plan, score | model, board |
| Review, sessions, compaction: what is not the run record | reports, session pointer, snapshots | review, compact | run record |
| Context and memory, model clients, process fence, reports and gates, command line, scripts | prompts; connections; process groups; reports | | |

Hard behaviours, by component, and what correctness means there:

- *Lock*: threads of one process nest, processes race, die, probe. One process
  at a time is inside; the count matches the open blocks; a probe that says
  "dead" is right at that instant.
- *Run loop*: five nested bounds (iterations, cycles, rounds, continues, replans)
  and the budget stop the same loop, and each stop reports something else; a task
  passes through two files and three statuses when it completes; a pause may
  land anywhere; a process may die between any two writes. No task starts before
  what it waits for; what the run record says agrees with the board; nothing is
  left half way; what the user answered takes effect; what he refused does not.
- *Signals and record*: senders, the driver, a resume and a cancel touch the same
  files with no common lock. Instructions arrive in order and once, a pause takes
  effect at the next boundary and not later, a driven run is not reported over.
- *Promotions*: three kinds of processes write rows about the same promotion while
  its files are copied one by one. The last row says what happened to the workspace.
- *Decision log*: a question is asked, answered and matched by three actors, the
  answer rewrites the file that others append to. What runs was granted.
- *Goal queue*: read-change-write of one file without a lock. A ticked goal has an
  accepted run, whatever was lost; as long as nothing was lost, loops share the goals.
- *Studio*: handlers interleave at every `await`; processes end, and stops and
  crashes of the worker come, between them. One writer, cards start once, every
  job settles.
- *Experts*: each writer works on a copy of a workspace that others go on changing,
  and the merge may fail half way. Nothing is overwritten, credit is for what landed.
- *Stores*: threads and processes write one file, and a kill or a power failure comes
  between any two system calls. A reader finds a whole file, an appended row stays.
- *MCP servers*: several threads read one pipe, and those of calls that were given up go on
  reading it. An answer belongs to its question, every call ends, the process can exit.
- *Background runs*: starts and views edit one list without a lock, while the processes
  it names end. What is shown as ended has ended, and every end is noticed.

`PROJECT.json` lists the components with their status and 40 hazards, each
at its line with the properties that watch it, or a note that says why none does.

## 2. Modules

```
SingleWriter  <=(implements)=  WriterLock   <-- MCWriterLock
                                    ^------ WriterLockProofs
TaskBoard  <--  RunLoop      <-- MCRunLoop
                   ^------ RunLoopProofs
RunControl   <-- MCRunControl
      ^------ RunControlProofs
Landing  <=(implements)=  Promotions   <-- MCPromotions
                               ^------ PromotionsProofs
GoalQueue    <-- MCGoalQueue
      ^------ GoalQueueProofs
DecisionLog         <-- MCDecisionLog
FileStore, Journal  <-- MCStores
      ^------ StoreProofs (all three)
StudioJobs          <-- MCStudioJobs
BackgroundRuns      <-- MCBackgroundRuns
      ^------ BackgroundProofs (both)
ExpertBatch         <-- MCExpertBatch
McpSession          <-- MCMcpSession
      ^------ WorkerProofs (both)
```

The modules that share a proof module do not interact; the names of `FileStore`, `Journal`,
`BackgroundRuns` and `McpSession` have a prefix where they would clash (`FileInit`, `BgNext`, ...).

### SingleWriter and WriterLock

`SingleWriter` is the promise: at most one process is the writer, and it stays
that until it leaves or dies. `WriterLock` is the code. A *process* has threads
(`procOf`), one guard (`_REGISTRY_GUARD`), one registry count; the flock belongs
to an *open file*, either the writer file of a process or the file a probing
thread opened, because flock separates open files and not processes.
`EnterNested`, `TryLock`, `WriteHolder`, `Register`, `Leave`, `UnlinkHolder`,
`Unlock` are the steps of `workspace_writer_lock`; `ProbeRegistry`, `ProbeLock`,
`ProbeUnlock` those of `writer_process_alive`. The holder file is best effort, so
its write and its unlink may fail. `Die` may hit between any two steps.

### TaskBoard and RunLoop

`TaskBoard` has the operators of the board: the transition table, the ready
filter, serial selection, promotion, the hops of `complete_task`, and when a plan
is resolved. `RunLoop` is one run, from its finished plan to the end of its last
process. A task is its number; the plan is the two functions `status` and `deps`
plus where a task came from (`source`: the task a repair replaces, `asked`: the
decision that wanted it). Files are variables of their own and survive a crash;
`mem` is the memory of the one process and does not. `pc` follows the code:

| `pc` | code |
|---|---|
| `off` | no process |
| `apply`, `write`, `resumed` | `ResumeCommand.run`: decisions applied to a plan in memory, plan saved once, record set |
| `iterate`, `cycle`, `outer`, `finish` | `_continue_run_unlocked`, `_execute_until_no_ready` |
| `execute`, `next`, `turn`, `answer`, `hops` | `ExecuteCommand`: selection, task, turn boundary, model answer, completion hops |
| `settle`, `finalize`, `after` | paused tasks set ready, `RunStateFinalizer`, the loop's look at the result |
| `replan`, `supersede`, `rewire` | `ReplanCommand`: one action for each save of the plan |

What the model answers, which gate blocks a task and which failure is risky is
a nondeterministic choice. `Decide`, `RequestPause` and `Crash` may come at any time.

### RunControl

The processes that surround a driver, each with one command: it runs the current
session or a follow-up of it, resumes, cancels, reviews, accepts or replans. `lock` is the
one of `SingleWriter`, with refusal.
The plan is left to `RunLoop`: here a cycle ends with any record the finalizer or
a replan can write. A resume clears the pause, loads the record and writes it back
*before* it asks for the lock, and a follow-up writes it before (`FollowsUp`); a cancel loads the
record, polls the lock, and then writes. Review, accept and a replan by hand judge the run and write
the record without the lock: `ReviewBegins` and `ReviewEnds` are the two writes of one copy with
a model call between them (brainstorm and research on an existing session are of the same shape), an accept
may have a review before it and has the lock only while it lands promotions (`AcceptPromotes`,
`AcceptLands`, `AcceptJudges`). What they write after the finalizer comes back to the driver: it leaves the loop on
"blocked" and "paused" (`After` leaves either way), and `SeesCompleted`, `AutoFinalizes` are the end of
a run that finds its record completed, whoever completed it. `over` is a history: who had the
lock when a cancel loaded the record. A file of `steer.request` is a number, its names are the variables `path`
and `taking`, and a sender keeps the file it opened whatever its name becomes:
`OpenSteer`, `WriteSteer` for `request_steer`, `TakeSteer`, `ReadSteer`, `DropSteer`
for `take_steer`. `pause` carries two history fields: the turns begun since the
request and the processes that were at work before it.

### Landing and Promotions

`Landing` is the promise: the files of one promotion at a time reach the main
workspace, only while nobody has refused it, and it counts as landed only with all
of them. `Promotions` is the code, with one driver (`Attempt` queues its own
candidate, automatically approved or not), operators and `accept`. The queue is
append-only and only the last row of a promotion counts, so it is the function
`status` and the number of rows `lines`; a promotion has the number of its first row.
The content of a file is the set of promotions whose edits it contains, so an
overwrite is visible as a lost member. A command is `Command`, then one action per
write: `Approve`, `Retry`, `Reject`, `RemoveCandidate`/`MarkDiscarded`, `Validate`,
`CopyFile` for each file, `MarkPromoted` or `Fail`, `Leave`. `accept` takes no lock
of its own: it looks at the queue, calls the bulk approval (which does take it),
looks again and writes the run. `Crash` may hit anywhere. The refinement maps the
open landing to the process that copies, and a promotion is refused when its last
row is `rejected` or `discarded`.

### DecisionLog

One run's `decisions.jsonl` and its chain. A turn loop (`thread`) comes to
`Gate` (a command the policy stops; `has_execution_approval` reads the file), then to
`RunCommand`, or to `Match` (a question that is open is not asked twice), `Count` and
`AppendRow` (the new question; its id is the number of rows plus one, read before the
append) and `Seal` (the chain entry, under `_JSONL_APPEND_LOCK` of the process). A `decide` process reads the whole file (`Show`,
`Resolve`), declines or puts the answer in its copy, `Truncate`s and `WriteBack`s
it. The command with its task and arguments is the fingerprint `Command`.
`disturbed` notes that two wrote at once or that a decide died in its write.

### GoalQueue

Every operation of `GoalQueueStore` is two actions, the read that computes `copy`
and the write that replaces the file, with anything in between; `crossed` notes
that two operations were half way at once. A supervised loop takes the first pending
goal, marks it, runs, links, then ticks or releases; the `accept` of the user ticks
what `_find_queue_item_for_run` finds, which falls back to an in-progress and then
to a pending goal (`stray` notes that). `Dies` may hit anywhere.

### StudioJobs

The server is one JavaScript thread, so an action is what runs between two awaits.
`Submit`, `Allow`, `Deny`, `Begin` are the handlers, `Launch` is `startRuntimeJob`
with the guard `Blocked`: the job is registered first, and where the command has text of the user
the spawn may throw, which leaves the job without a process (`pc` is "none"); `Stop` cancels the jobs of a session and kills a warm
worker; `Exit`, `SpawnError`, `Close`, `Snapshot`, `Settle` are the events of a cold
process and the follow-up after a resolved question; `WorkerReady`, `WorkerSays`,
`WorkerDies`, `WarmDone`, `WarmClose` those of the warm worker. A job's key is the
time of its start in milliseconds, so two may have the same one (`Keys`, `collided`).

### ExpertBatch

The lead delegates a batch: serially, in parallel when all only read, or with one
candidate per writer (`Kind`). `Create` makes a worktree or a copy, `Start`, `Writes`,
`Deletes`, `Runs`, `End` are the experts in the pool, `Join` waits for all or for
the first that raises, `Gate` compares scopes and changed files, `PromoteOrSkip`, `Promote`,
`Copy`, `CopyRaises`, `Landed` land one candidate after the other, `Return` and
`Raise` give the observation back and credit the lead. `Outside` is a user or another
process that edits or commits meanwhile (`disturbed`). The content of a file is
again the set of authors whose edits it has.

### McpSession

The session of one run: `call` is what the caller of `list_tools` or `invoke_tool` waits
for, `worker` the one-thread executor of each attempt, which may outlive the wait. `Look`
is `_ensure_initialized`, `Request` takes the next id and writes, `Read` is
`_read_response`: a thread takes any message of the pipe and throws away what does
not have its id. `Deliver`, `Fail`, `Timeout` are `_call_session_with_retries`; a timeout
closes the session for everybody, and so does `CloseAdapter` at the end of the run. A
launcher (`wrapped`) has a child that keeps the pipes open when it is terminated.
`Exit` is the interpreter, which first joins the threads of all executors. `Answer` and
`Crash` are the server.

### BackgroundRuns

The registry is the sequence of entries. A start is `Spawn`, `ReadList`, `List`, because the
process runs before it is listed and the list is read and replaced without a lock; a
view is `View`, `Probe`, `Save` (`refresh_statuses`). `CreateRun` and `ForegroundRun`
make run records, among which `_link_recent_run` looks for one that is newer than the
entry; `End` ends a process with exit code 0 or not; `Dies` is a command that stops half way.

### FileStore and Journal

`FileStore` is `JsonStore.write` at the level of system calls, on names and files: `Open`
empties the file of the temporary name even if another process has it open, `Write` goes over
what is there, `Sync`, then `Replace` gives the name to whatever file the temporary name
stands for by then. `Journal` is `JsonlStore`: `WriteLine` and `SyncLine` of an append, which
goes on on the last line if that has no end, `ReadRows` and `Rewrite` of a
runtime request that is answered. `Kill` and `KillAppend` keep what was given to the system; `PowerFails` and `PowerCut`
keep what was synced and any beginning of what was not. `MCStores` looks at both files in one
run, each while the other one rests; they do not interact.

## 3. Runs

| Run | Module | What is checked |
|---|---|---|
| `lock_safety` | MCWriterLock | `LockCoversBlocks`, `HolderOfWriterKept`, `DeadMeansNoWriter`, `RefinesSingleWriter`: nested blocks of threads and a rival process |
| `loop_main` | MCRunLoop | `DependenciesDone`, `CompletedIsResolved`, `LineageBounded`, `NothingLeftBehind`, `DependentsFollowRepair`, `PendingMeansPaused`, `AppliedHasEffect`, `ApprovalHolds`, `OneIterationIsEnough`, `BegunSettles`: one run with failures, repairs, answers, a pause, a crash and a restart |
| `control_main` | MCRunControl | `NoRivalSettles`, `PauseInTime`, `SteersInOrder`, `PauseIsFresh`: drivers, follow-ups, resumes, cancels, reviews, accepts and replans next to each other |
| `promotions_main` | MCPromotions | `LandedAsRecorded`, `RefinesLanding`: driver, operator and accept over two promotions |
| `decisions_main` | MCDecisionLog | `OnlyGrantedRuns`, `AnswerMeetsQuestion`, `DriverAloneVerifies`: what the policy stops and a user answers |
| `goals_main` | MCGoalQueue | `DoneHasAcceptedRun`, `OneLoopPerGoal`, `DoneIsFinal`: two loops and an accept on one file |
| `studio_main` | MCStudioJobs | `OneWriter`, `StoppedIsNotFollowed`, `JobsSettle`: two sessions on one server (a job without a process is not among those that settle) |
| `experts_main` | MCExpertBatch | `ReturnedAllOrNone`, `NothingOverwritten`, `CreditIsLanded`: batches of experts and the merge of their work |
| `mcp_main` | MCMcpSession | `AnswerIsMine`, `EveryCallEnds`, `ClosedRunExits`: a discovery and a retried call on one pipe, next to the threads that were given up |
| `background_main` | MCBackgroundRuns | `EndedIsDead`, `NothingForgotten`, `EndNoticed`: two starts and a repeated view on one list |
| `stores_main` | MCStores | `WholeFile`, `AppendedStays`: three writers of one file, four appends and a rewrite, kills and power failures |
| `loop_running` | MCRunLoop | `StoppedIsNotRunning`, which TLC refutes (section 6) |

Every property is stated in a comment at its definition. For each property of a
passing run `PROJECT.json` names a mutant of the code, defined next to the action
it replaces (`\* Mutant:`), that violates it.

**Bounds and why they are enough.**

- *Lock*: two threads in one process next to a rival of one thread is the least with
  nesting across threads and a race. Two nested blocks per thread (`MaxDepth`): three
  would not reach a new case of "the last block or not". The proofs drop these bounds.
- *Loop*: two planned tasks, as a chain and as independent ones, with `MaxTask` = 6 =
  (2 planned + 1 asked for) x (1 + 1 replan), so a task number is always there when
  the code wants one. Two starts, a crash between any two steps, two iterations,
  cycles and rounds, one soft-fuse continue, one replan per lineage, a limit of three model calls
  with the hard stop at two: every cap is reached before another one in some
  behaviour. One pause, one answer that asks for a repair.
- *Control*: three processes let a cancel, a resume and a driver meet, a review, an accept
  and a driver, or a driver, its successor and a refused one; one dies anywhere. Two instructions of a sender,
  one pause request. Processes are interchangeable, so they are declared symmetric.
- *Promotions*: one process of each kind; two files are the least with a landing that
  is half done, two promotions the least in which one lands over another; four rows
  are enough to fail, retry and refuse; one death. Git worktrees where the workspace is clean, copies otherwise.
- *Decisions*: two threads of the driver, one `decide` at a time, two commands, three
  questions (one asked again after a skip, another one beside it), one death.
- *Goals*: two loops and one accept, two goals, three runs (an old one and one per
  loop), one death. `OneFault` leaves out behaviours with both a death and two crossed
  operations: the properties that hold only without crossings are then checked with
  the death, and `DoneHasAcceptedRun` with either; its proof has no such bound.
- *Studio*: two sessions with two messages and three jobs (two messages and a
  follow-up), one crash of the worker.
- *Experts*: two files, one of them known to git; scopes: none, one file, or a
  directory that covers all; two experts, so one batch of two or two batches of one;
  two threads in the pool; three edits or commits by anybody.
- *MCP*: the discovery and one call with a retry, so three attempts: the least in which the
  thread of a call that was given up reads next to another one's.
- *Background*: two starts and one view are the least that cross; a list of two entries, one run
  record that either may be linked to, one death.
- *Stores*: two threads of a process and one of another, with a long and a short text, so
  that an overwrite may leave an end of the longer one. Once two processes wrote at once `WholeFile`
  promises nothing; the constraint `Apart` then leaves out most of what follows. Four
  records: a torn line, one appended to it, one before and one after; three faults.
- Bounds that exist only in the model are marked `bound:` in the CONSTANTS; the
  others are limits of the policy.

Symmetry is declared only in runs without a liveness property. Deadlock is not
checked: the runs end when the processes that may be started are over, and the
system may.

**Fairness.**

- `RunLoop!FairSpec`: weak fairness for the steps of the process. Model calls return
  or raise (`models/request_deadline.py`), and nothing in the loop waits for a user,
  who is asked by a record and an exit.
- `StudioJobs!FairSpec`: one weak fairness condition on everything that happens by
  itself: processes end, a killed worker dies, the event loop comes round. Which of them comes
  first is left open. A process that ends is an assumption about the runtime, which `BegunSettles` shows of the loop.
- `McpSession!FairSpec`: weak fairness for each thread that can go on, for each wait, which is
  timed, and for the exit of a run that closed its adapter. Nothing is assumed of the server.
- `BackgroundRuns!BgFairSpec`: somebody keeps asking for the status, and a command that is
  half way goes on. Nothing is assumed of the processes it lists.
- Users, servers, crashes, stops, answers and new starts get no fairness anywhere.

## 4. What is proved

TLAPS checks these for all values of the constants that satisfy the named
assumptions (`ProcAssumption`, `RunAssumption`, `ControlAssumption`,
`PromotionAssumption`, `QueueAssumption`, `LogAssumption`, `StudioAssumption`,
`ExpertAssumption`, `SessionAssumption`, `RegistryAssumption`, `WritersAssumption`,
`FaultsAssumption`). Every safety property of a passing run, invariant or action property,
is a theorem.

**WriterLockProofs**: `TypeCorrect`, `CountsRight`, `LockCovers`, `MutualExclusion`,
`Refinement`, `ProbeSound`, `HolderKept`. The properties are not inductive: a process that is
about to register has the flock and no entry yet. The invariant `IInv` adds where a
thread inside the guard stands and what it holds there (`GuardInv`), that an entry
implies the flock (`EntryInv`), that a probing thread has its own open file
(`ProbeInv`), and that the count is the cardinality of the set of open blocks
(`CountInv`), which the two lemmas `BlockOpened` and `BlockClosed` carry through a
step. Mutual exclusion follows from `EntryInv`, since a flock has one owner; the
refinement maps the abstract writer to the process with an entry.

**RunLoopProofs**, for every plan, cyclic ones included, and every cap: `TypeCorrect`,
`DependenciesHold`, `TableHolds`, `OneIteration`, `QuestionsAreReported`
(`PendingMeansPaused`), `AnswersHaveTheirTask` (`AppliedHasEffect`), `DependentsAreRewired`
(`DependentsFollowRepair`), `AllSettled` (`NothingLeftBehind`), `CompletedMeansResolved`
(`CompletedIsResolved`), `ApprovalsHold` (`ApprovalHolds`), `LineagesEnd`
(`LineageBounded`). There are three invariants, each with its own step lemmas.

- `IInv`. `DependenciesDone` alone is not inductive: the selection
  is made once and its tasks are begun later, a replan discards and rewires in separate
  saves, and a resume writes back a plan it edited long before. `IInv` is
  `TypeOK` with four parts: what a begun task waits for is done (`PlanInv`); what the
  selected tasks wait for is done, and only the first has left "ready" (`ChosenInv`);
  a replan works on tasks that are blocked, and the replaced one is discarded before
  the rewiring (`ReplanInv`); the plan in a resume's memory differs from the file
  only by a blocked task set ready or a task that the file does not have (`DraftInv`). The lemma
  `StatusChangers` lists the seven ways a status changes, so each part is checked
  against those and not against every action. `OneIteration` adds `OuterInv`: a
  process that comes to the end of an iteration has nothing ready, was paused, or
  has hit a cap, and the outer loop stops on each.
- `FilesInv`, on top of `IInv`: what the files say when a process is gone. The properties
  speak of `pc = "off"` and are silent about everything before; the parts of `FilesInv`
  say what each place of the process hands on. While a decision is open the
  record is paused, or the process is at a place from which it sets it so (`AskedInv`); an applied
  answer has its task in the draft until the draft is the plan (`AnswerInv`); a replaced
  task is waited for only in `rewire`, and there only the one in hand (`FollowInv`); a task
  half way is the current or a paused one of an execute (`SettledInv`); a task whose last
  approval is not granted is blocked or discarded in the plan and in the draft, and the summary
  does not call it a fuse (`ApprovalInv`); "completed" is taken back by the next execute, and
  in between only answers add tasks (`DoneInv`). `AskedInv`, `FollowInv`, most of `SettledInv`
  and the last part of `AnswerInv` hold until a process dies half way, as the properties they are for.
- `LineageInv`. `Root` is defined by recursion over `source`, so that it is a
  function at all has to be shown; `RootInv` says that there is one solution of its
  equation and keeps that from step to step, because a new repair's number is nobody's
  source (`RootExtends`). Then one repair adds one element to one lineage.

**RunControlProofs**: `TypeCorrect`, `RivalsSettleNothing` (`NoRivalSettles`), `PauseTakes`, `PauseFresh`,
`SteersHeardInOrder`. `IInv` says that
only the process with the lock is at work (`LockInv`), that whoever had the lock when a
cancel loaded the record has it still or is past its work, and past it once the cancel saw the lock
free (`OverInv`), that once a turn was begun under a
request no process is past a boundary (`TurnsInv`), and that a resumed process met
every request that is there (`MetInv`). `NoRivalSettles` is about two states, so it follows from
`LockInv` and `OverInv` at each step: a step of another driver is excluded by the one, a cancel that
began under this driver by the other. For the instructions `SteerInv` orders the files
that ever had the name `steer.request`: what a sender put into one comes before what
it put into a younger one (`FilesInv`), files younger than the one it has open have nothing of it
(`HandleInv`), and what was told comes before what is still to be read (`ToldInv`).

**PromotionsProofs**: `TypeCorrect`, `RowsAreTrue` (`LandedAsRecorded`), `Lands`
(`RefinesLanding`), for any number of operators, accepts, files, rows and crashes.
`IInv` has three parts: the files by themselves (`Files`: every known promotion has
files, only those were copied, a promoted one has all); the types of the jobs; and,
for every process, that its stage fits the files (`Fit`: inside a command it has the
lock, a promotion being checked or copied is open, and what is left to copy and what
has landed make up what it wants). A process inside the lock is alone there
(`LockIsMine`), so a step of one process disturbs the `Fit` of no other (`ByJob`).
`AutoInv` adds that the driver has its automatically approved promotion in hand. The
refinement needs the same facts: nobody else copies, so the set of open landings
before and after a step is known from the one job that moved (`OpenedIs`,
`OpenedBecomes`), and each action maps to one of `Landing` or to a stutter.

**GoalQueueProofs**: `TypeCorrect`, `DoneIsAccepted`, `LoopsApart`, `TicksStay`,
`CountsHold`, for any number of loops, accepts, goals, runs and deaths and without
`OneFault`. `DoneHasAcceptedRun` survives lost updates because every
copy that a process is about to write is itself sound (`SoundInv`): whoever writes
last writes a queue whose ticks have accepted runs. The other three hold until two
operations cross (`crossed`); `Serial` says what that means: at most one process is half way, its
copy keeps every tick, and loops past `mark` are at different goals that are no longer pending. `Linked` adds,
until a run was accepted that had no goal, that the run a loop accepts is linked to its goal and to no other.

**StoreProofs**, of `DecisionLog`: `TypeCorrect`, `GrantedOnly` (`OnlyGrantedRuns`), `AnswersMeet`
(`AnswerMeetsQuestion`), `DriverVerifies` (`DriverAloneVerifies`), for any number of threads,
decides, commands, questions and deaths. The first two hold until two writers met
(`disturbed`). `QuietInv` says what being alone gives: one thread asks or one decide
answers, ids are line numbers, a copy differs from the file by one answer, an approval in
the file or in a copy was granted. `DriverVerifies` has an invariant of its own (`ChainInv`): as
long as no decide wrote, a row and its seal are written under one lock.

Of `FileStore`: `FilesAreWhole` (`WholeFile`), for any writers, processes and sizes. `FileInv` says
what holds while no two processes wrote at once: one writer has the lock and the temporary file
(`OneWrites`), which is neither the file of the name nor the one the disk may still have; those two are
whole and on the disk (`OnDisks`), and the temporary one is as far as its writer (`Progress`).
`FileTypeOK` is not proved past a crossing, where it takes counting files.

Of `Journal`: `JournalTyped`, `RecordsStay` (`AppendedStays`), for any records and faults. A record
that was safe before the power failed *stands*: it is a line with its own end, in the file, on the
disk, and in the file without its last line if that is not on the disk yet (`Safe`). The end is
what makes it inductive: a whole line that lost its end is overwritten by the next append.

**BackgroundProofs**, of `StudioJobs`: `TypeCorrect`, `OneWriterHolds` (`OneWriter`), `StoppedStay`
(`StoppedIsNotFollowed`), for any number of sessions, messages, jobs and crashes of the worker. A
job's status follows its process and a follow-up has an origin that is over and was not
stopped (`Kept`); the worker is at the job it was given (`Held`); until two jobs
got one key, each is found under its own (`Keyed`), so the guard sees the writer there
is (`Lone`).

Of `BackgroundRuns`: `ListTyped`, `EndedAreDead` (`EndedIsDead`), `NoneForgotten`
(`NothingForgotten`), for any starts, views, runs and deaths. The first holds of
every entry of the list *and* of every copy a command has read, however old: no process starts twice,
so what was once true of its end stays true (`AllTrue`). The second needs, until two commands crossed,
that one is half way at most and that its copy is up to date (`UpToDate`).

**WorkerProofs**, of `ExpertBatch`: `TypeCorrect`, `BatchIsWhole` (`ReturnedAllOrNone`), `EditsSurvive`
(`NothingOverwritten`), `CreditsAreTrue` (`CreditIsLanded`), for any number of experts,
files, scopes, pool threads and edits. What a candidate may overwrite is decided when its copy
is made and looked at when it lands, with the work of all others in between. `IInv` carries it:
nothing is left behind by experts not asked for yet (`FreshInv`), who has a candidate at which
stage (`StageInv`), an expert's edits are where its tools put them (`OwnInv`) and not in the workspace
before it lands (`ApartInv`), a tree keeps what its promotion is measured by (`BaseInv`, while
nobody disturbed it), and what the landing has still to copy takes nothing out (`LandInv`).

Of `McpSession`: `SessionTyped`, `RepliesAreMine` (`AnswerIsMine`), for any calls, attempts and threads.
Every id on the pipe was given out (`Given`), and a message under the id a thread waits for is
about that thread's request (`Addressed`), although any thread may read it away.

**Only model-checked**: every safety property of a passing run is proved. Left to TLC are the
liveness properties `BegunSettles`, `JobsSettle`, `EveryCallEnds`,
`ClosedRunExits` and `EndNoticed`: liveness under fairness, and ENABLED, are beyond the
installed provers. Induction over data is too; `Root` is the one recursive function of a
proved module, and what is proved of it is kept by the steps of the system.


## 5. Abstractions

- One write of one file is atomic where the code writes a temporary file and renames
  it (`JsonStore.write`), except in `FileStore`, which is about that. `decide` rewrites
  `decisions.jsonl` in place, and there the model has two steps.
- In `RunLoop` processes of one run do not overlap. The lock gives this from `continue_run`
  on; what happens before it is in `RunControl`, for the record and the signals but
  not for the plan. The record of `RunLoop` has no writers but the commands in it (run, execute,
  replan, resume): what `CompletedIsResolved` and the others say of it is about the runtime's own
  verdicts, not those of a review or an accept of the user, which are in `RunControl`.
- One turn loop per process in `RunLoop` and `RunControl`. The parallel selections of
  `parallel_writes` and `parallel_readonly` are not modelled there (`DecisionLog` has
  their threads), and with them two loops that take `steer.request` at the same time.
- Of the budgets only model calls are counted. Candidates of a replan are a set:
  which of them are the newest is abstracted. Each call that needs approval needs a
  new one in `RunLoop` (commands differ); in `DecisionLog` they may be the same.
- `RunControl` takes mid-run steering to be switched on (`agent_loop.mid_run_steer`),
  and one selected task per execute: a pause ends the execute.
- Contents of files, in `Promotions` and `ExpertBatch`, are the sets of those whose
  edits they contain. Two edits of one file by the same author are one.
- Which candidate passes the merge gate (`Promotions`), which run is ready for an
  accept (`GoalQueue`) and how an expert ends (`ExpertBatch`) are inputs.
- The audit chain of `DecisionLog` binds a row by its content; hashes are not modelled.
- In Studio a spawn throws only where an argument is the text of a user (too long, or a NUL in it); a
  machine so short of resources that any spawn throws is left out.
- The model of Studio has the modes that Studio starts itself; reading modes, of which `decide`
  is one for its guard, are one mode.
- The server of `McpSession` sends nothing but replies, framed by lines. Whether an error is
  retried depends on words in its text and is left open.
- In `BackgroundRuns` a pid is not used again, and a time stamp is the number of run records.
- In `FileStore` a write is one system call, and a power failure may undo only the last rename.
- `disturbed`, `crossed`, `stray`, `collided` are history: they say that the one
  thing happened that the code gives no protection from, and the properties that
  mention them say what it does protect from. What goes wrong without them is in section 6.

Not modelled, and why:

- *Budget*: the other counters, the round trip through the cost report, deadlines.
- *Plan quality gate, validation probes, runtime requests, open questions, context
  compaction, decision memory*: inputs of the loop as it is modelled.
- *Tools and command policy*: which command line needs an approval is a pure function of its text.
- *Planner, context and prompts, model clients*: text and network I/O; `RunLoop` takes
  any plan the planner accepts, any answer and any failure at any call.
- *Process fence and heartbeat*: operating-system process groups and pipes.
- *The reports and verdicts of review, sessions, compaction, gates and acceptance*: which verdict
  comes out is an input. That they write run.json next to a driver, and that it reads them back, is
  in `RunControl` (of promoted acceptance failures, which also set it running, only as a
  review that ends running).
- *Command line, scripts, benchmarks*: no state of their own.

The command line, reports, acceptance and smoke tests, prompts and clients are by far the
largest part of the source; they are sequential code over text with no shared state to model.

Two facts the model shows: of the ways `continue_run` can stop, the test
`completed == 0 and blocked == 0` decides nothing that another test has not decided, and a second
iteration never happens (`OneIterationIsEnough`), so `--max-iterations` above one
has no effect beyond the first.

## 6. Where the code and its documentation disagree

Checked by a run:

- `loop_running`: a process ends and the run says "running" for good. One execute
  blocks a task, a later one of the same process completes another; the second blocked nothing,
  so the finalizer takes its last branch (`core/run_state_finalizer.py:73`).

Seen in the models, with a statement in an MC module that TLC refutes where one is named
(add it to a configuration of that module, with the constants its comment gives):

*Lock and loop*

- A refusal may name a dead process (`RefusalNamesHolder`), and a probe takes the flock
  for an instant and so can refuse a writer (`ProbeKeepsNobodyOut`,
  `core/workspace_writer_lock.py:162`). The first needs `RivalProc`.
- A cyclic plan passes the planner (`agents/planner.py:216`), never has a ready task,
  and the run goes on saying "completed" (`EndedCompletedIsResolved`).
- A run that died before its first execute still says "completed" from planning, and resume
  declines it (`commands/plan_command.py:830`, `resume_command.py:133`; `DeclinesOnlyResolved`).
- A completed run may have a task to do: an answer that is applied later adds one, and resume leaves
  a completed status as it is until the next execute (`commands/resume_command.py:157`;
  `CompletedNeverReopens`). It takes two failures of a task, one of them asked about, a second
  `run` that repairs it anyway, and then the answer. `CompletedIsResolved` allows for it.
- "Continue once" to the budget question is followed by the same question
  (`run_command.py:1505`; `ContinueOnceSpends`).
- The soft fuse compares the pressure with `hard_stop` only, and past the limit it
  is `exceeded` (`commands/run_command.py:1679`; `NoContinuePastHardStop`).
- An old provider failure keeps a fuse from being continued (`run_command.py:2889`;
  `FuseIsContinued`).
- A replan saves the plan three times; a crash before the third leaves tasks waiting
  for a discarded one (`commands/replan_command.py:637`; `RewiredAtomically`).
- A task kept for manual review is replaced on older evidence of the same failure
  (`replan_command.py:208`; `ManualReviewHolds`).
- A repair task the user asks for waits for the last active task, which may be
  the blocked one (`resume_command.py:691`; `RepairCanStart`).
- With more than one task per execute, a pause stops the task it meets and the
  other selected tasks still run.
- A budget message with the digits 429 in it is classified as a rate limit
  (`models/model_failure.py:145`).

*Signals and record*

- Cancel overwrites the record of a run that ended while it waited for the lock
  (`commands/cancel_command.py:90`; `CancelSparesSettled`).
- An instruction whose sender opened the file before the rename and wrote after the
  read is deleted (`core/run_control.py:106`; `SteerNotLost`). A crash between rename
  and read leaves instructions in `steer.request.taking`, and the next rename drops them.
- The process that a cancel's poll found gone can be followed by one that takes the lock
  before the cancel writes: a live run is declared cancelled (`CancelSparesLive`); the docstring says
  that this must never happen (`commands/cancel_command.py:13`).
- A review, an accept or a replan by hand next to a driver states its run completed, blocked or
  paused in the middle of a task (`commands/review_command.py:337`, `accept_command.py:215`,
  `replan_command.py:690`; `DrivenIsNotSettled`). A verdict that comes between the finalizer and the
  loop's look at the record makes the driver leave its loop or complete the run. Studio lets a
  review start next to a run as read-only (`src/studio/lib/run-conflict.mjs:30`), and
  `review_command.py:125` calls it a read-only review.
- A second resume removes the pause a live run was about to see, and when it is then
  refused for the lock it may leave a paused run recorded as running.

*Promotions*

- A copy that raises leaves the files copied before it in the main workspace under the row
  `promotion_failed` (`core/candidate_workspace.py:123`); `docs/zh/开发指南.md:88` says a failed candidate
  must not soil it (`FailedLeavesNoTrace`).
- A run can be accepted while a promotion is open, queued after accept looked
  (`AcceptedIsSettled`).
- Without git, or where the workspace was dirty, a candidate is a plain copy and its
  promotion overwrites what another one brought (`EditsStay`, with `Git` = FALSE).
- A promotion left `auto_approved` by a crash holds every accept, and the bulk approval
  does not take it (`OpenIsApprovable`).
- A worktree promotion that failed half way cannot be retried, its own files make the
  workspace dirty; approving one that is promoted turns it into `promotion_failed`.
  `retry` lands one that is pending manual approval without an approval.

*Decision log*

- A command approved "once" runs as often as it is asked for
  (`core/runtime_policy.py:161`); the option says "Allow this exact command once for this
  task" (`:246`; `OnceIsOnce`).
- An earlier "skip" hides a later approval of the same command (`LastAnswerCounts`).
- An answer leaves the chain as it was, and verification fails from then on; the
  docstring of `rechain_file` says status transitions re-seal (`storage/audit_chain.py:125`;
  `AnswersReseal`).
- Two threads may give two questions one id, and an answer then approves a command the
  user was not shown (`OnlyGrantedRunsEver`); a question appended while a `decide` is
  between its read and its write is lost (`QuestionsStay`).

*Goal queue*

- An accept of a run that has no goal ticks a goal in progress, whose loop counts it as
  its own or links a second run to it (`CountedIsDoneAnyway`, `OneGoalPerRun`).
- A goal in progress whose loop died is never taken up again, `next_pending` looks for
  pending ones only (`InProgressIsCared`, `core/supervised_goal_loop.py:166`).

*Studio*

- Two jobs started in one millisecond get one key, and the first is no longer seen by
  the guard (`OneWriterEver`, `src/studio/server.mjs:1178`).
- A job is registered as running before its process is spawned, and a spawn that throws at once (the
  goal is an argument without a limit) leaves it running for good, with no event to come
  (`src/studio/server.mjs:1243`; `EveryJobSettles`). Every later writer is refused in favour of it; the
  notice says to wait for it or to stop it (`lib/run-conflict.mjs:138`), and a Stop skips a job that has no process.
- An answer that was written is not followed by a resume when another job started
  meanwhile (`AnswerResumes`).
- A Stop kills the warm worker, and a job dispatched to it before it is gone dies with
  it (`StopSparesOthers`); the comment at `server.mjs:969` says the worker can only
  remove latency.
- The comment in `lib/run-conflict.mjs:33` takes `decide` to be read-only because Studio
  passes `--list-pending`; `lib/chat-routes.mjs:460` starts it with an answer, which
  rewrites `decisions.jsonl` next to a running driver.

*Experts*

- A batch lands in part when a later item turns out not to be ready
  (`core/candidate_workspace.py:141`); an expert that deletes a file is enough. The docstring says "all
  disjoint writers land or none do" (`core/candidate_execution_gateway.py:84`; `AllOrNone`).
- A copy made of a dirty workspace overwrites what somebody else edited under the batch,
  and a commit under the batch makes the check of a worktree pass over newer content
  (`NothingEverOverwritten`).
- An expert can be "ok" with work that never lands: edits by `run_command`, an item held
  back by the gate, the work of the others when one expert raises (`OkIsLanded`). The gate compares the
  scopes as strings; `src` next to `src/a` is caught only by the files that changed.
- Experts run without pause, steer or the approval gate, and `preview_and_promote_batch`
  does not ask for the manual approval of promotions.

*Stores*

- Two processes that write one file share its temporary name, so a reader finds an empty or mixed
  file or one of the renames fails (`storage/json_store.py:48`, whose comment says a crash
  "must never expose an empty or torn file"; `NeverTorn`).
- After a power failure in an append, the torn last line makes every `read_all` raise, and the next
  record is appended to it (`storage/jsonl_store.py:87`, whose comment says that fsync
  "makes each record crash-safe"; `CrashSafe`).

*MCP servers*

- A timeout closes the session, so the retry of the call, and every other call, writes to a
  broken pipe (`core/mcp_adapter.py:443`); `docs/zh/架构设计.md:187` lists the retry after a
  timeout ("超时重试") among what the adapter has (`RetryHasServer`).
- A run that raises does not close its adapter; then its process stays as long as a
  thread that was given up has a server that says nothing.

*Background runs*

- Every process that is gone at its second look or later is shown as completed with
  exit code 0 (`core/local_background_run.py:234`; `CompletedMeansExitZero`), one that is gone at
  the first as failed to start.
- A crash between spawn and append leaves a process nobody lists; a view that crosses a start removes
  its entry; two entries may link to one run.

## 7. Plan

What is left, in this order:

1. A ledger of tasks (each begun only after its dependencies, settled at most once)
   that `RunLoop` implements; a mailbox that the steer files of `RunControl` implement
   up to loss.
2. Parallel selections and worker slots, composed with `RunLoop`'s board.
3. Budget: round trips of the report, all counters, deadlines.
4. The command fence (`core/process_fence.py`): process groups of tools that outlive a turn.

## 8. Running

`tlc -config WriterLock_safety.cfg MCWriterLock.tla`, and likewise for the other
configurations (the prefix of a configuration names the module its MC module extends; `Stores` is `MCStores`).
`RunLoop_main.cfg` and `RunControl_main.cfg` take about three minutes, `ExpertBatch_main.cfg` and
`StudioJobs_main.cfg` about two with
two workers, the others less. `tlapm WriterLockProofs.tla`, and likewise for
`RunLoopProofs` (about four minutes), `RunControlProofs`, `PromotionsProofs`, `GoalQueueProofs`,
`StoreProofs`, `BackgroundProofs`, `WorkerProofs`.
