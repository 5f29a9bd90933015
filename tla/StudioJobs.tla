----------------------------- MODULE StudioJobs -----------------------------
(* The jobs of the Studio server.  The server is one JavaScript thread: an *)
(* action is what runs between two awaits.  A job is a cold process of its *)
(* own or a request to the one warm worker process.                        *)
EXTENDS Naturals, Sequences, FiniteSets

CONSTANTS
    Session,
    LastAsk,     \* bound: messages of the user are 1..LastAsk
    LastJob,     \* bound: jobs are 1..LastJob
    MaxCrashes   \* bound: crashes of the warm worker

ASSUME StudioAssumption ==
    /\ LastAsk \in Nat
    /\ LastJob \in Nat
    /\ MaxCrashes \in Nat

VARIABLES
    ask,        \* the messages: who sent them and what they start
    cards,      \* pendingJobs: messages whose permission card is open
    starting,   \* per message, the handlers on their way to startRuntimeJob
    jobs,       \* every job object, in the order of their start
    liveJobs,   \* the job that each key (the time of a start) leads to, or 0
    worker,     \* the warm worker and what the server knows of it
    collided,   \* history: a job was registered over one that still ran
    crashes

vars == <<ask, cards, starting, jobs, liveJobs, worker, collided, crashes>>
asking == <<ask, cards, starting>>

Ask == 1..LastAsk
Key == 1..LastJob

Mode == {"run", "resume", "decide"}

\* READ_ONLY_MODES; of the modes Studio starts, one stands for them.
mutatesWorkspace(mode) == mode # "decide"

\* active: the job of w.active (busy iff there is one); doing: the job python
\* is at; said: the job a done message is under way for; killed: by a Stop.
Down == [up |-> "down", active |-> 0, doing |-> 0, said |-> 0, killed |-> FALSE, dead |-> FALSE]

Init ==
    /\ ask = <<>>
    /\ cards = {}
    /\ starting = [a \in Ask |-> 0]
    /\ jobs = <<>>
    /\ liveJobs = [k \in Key |-> 0]
    /\ worker = [Down EXCEPT !.up = "booting"]
    /\ collided = FALSE
    /\ crashes = 0

-----------------------------------------------------------------------------
(* startRuntimeJob *)

\* What an iteration over liveJobs finds running; J, L: the job objects and
\* liveJobs.
Running(J, L) == {j \in DOMAIN J : J[j].status = "running" /\ \E k \in Key : L[k] = j}

\* blockingJob
Blocked(J, L, mode) ==
    mutatesWorkspace(mode) /\ \E j \in Running(J, L) : mutatesWorkspace(J[j].mode)

\* dispatchWarmRun accepts: the worker is ready and not busy.
Warms(mode) == mode = "run" /\ worker.up = "ready" /\ worker.active = 0

\* `job-${Date.now()}`: a time of its own, or that of the job started last.
Keys(J) == {Len(J) + 1} \cup {J[i].key : i \in {Len(J)} \ {0}}

\* spawn() throws on an argument that is too long or has a NUL; only the command
\* of a resume has no text of the user among its arguments.
SpawnMayThrow(mode) == mode # "resume" /\ ~Warms(mode)

\* J, L: as the caller leaves them; from: the job that is followed up.  A job whose
\* spawn threw is registered like any other and has no process: no event will come.
Launch(J, L, session, mode, follow, a, from) ==
    IF Blocked(J, L, mode) \/ Len(J) = LastJob
    THEN jobs' = J /\ liveJobs' = L /\ UNCHANGED <<worker, collided>>
    ELSE LET j == Len(J) + 1 IN
         \E key \in Keys(J), pc \in {"alive"} \cup (IF SpawnMayThrow(mode) THEN {"none"} ELSE {}) :
        /\ jobs' = Append(J, [session |-> session, mode |-> mode, follow |-> follow,
                ask |-> a, from |-> from, key |-> key, status |-> "running",
                cancelled |-> FALSE, warm |-> Warms(mode), pc |-> pc, code |-> 0])
        /\ liveJobs' = [L EXCEPT ![key] = j]
        /\ collided' = (collided \/ key # j)
        /\ worker' =
             IF Warms(mode)
             THEN [worker EXCEPT !.active = j, !.doing = IF worker.dead THEN 0 ELSE j]
             ELSE IF mode = "run" /\ worker.up = "down" THEN [Down EXCEPT !.up = "booting"]
             ELSE worker

-----------------------------------------------------------------------------
(* Messages and permission cards *)

\* submitUserGoal and handleDecisionResolve, up to their last await; a message
\* for the executor may be held back by a card.
Submit(session, mode, follow) ==
    /\ Len(ask) < LastAsk
    /\ mode # "resume"
    /\ follow => mode = "decide"
    /\ ~Blocked(jobs, liveJobs, mode)
    /\ LET a == Len(ask) + 1 IN
        /\ ask' = Append(ask, [session |-> session, mode |-> mode, follow |-> follow])
        /\ \/ starting' = [starting EXCEPT ![a] = 1] /\ UNCHANGED cards
           \/ /\ mutatesWorkspace(mode)
              /\ cards' = cards \cup {a}
              /\ UNCHANGED starting
    /\ UNCHANGED <<jobs, liveJobs, worker, collided, crashes>>

\* pendingJobs.delete, before the first await
CardsWithout(a) == cards \ {a}

\* handlePermission
Allow(a) ==
    /\ a \in cards
    /\ starting[a] < 2
    /\ cards' = CardsWithout(a)
    /\ starting' = [starting EXCEPT ![a] = @ + 1]
    /\ UNCHANGED <<ask, jobs, liveJobs, worker, collided, crashes>>

Deny(a) ==
    /\ a \in cards
    /\ cards' = CardsWithout(a)
    /\ UNCHANGED <<ask, starting, jobs, liveJobs, worker, collided, crashes>>

Begin(a) ==
    /\ starting[a] > 0
    /\ starting' = [starting EXCEPT ![a] = @ - 1]
    /\ Launch(jobs, liveJobs, ask[a].session, ask[a].mode, ask[a].follow, a, 0)
    /\ UNCHANGED <<ask, cards, crashes>>

\* Mutant: the status is set at once, while the process is still there.
CancelledNow(job) == [job EXCEPT !.cancelled = TRUE, !.follow = FALSE, !.status = "cancelled"]
\* Mutant: the follow-up is kept.
CancelledKeeps(job) == [job EXCEPT !.cancelled = TRUE]

Cancelled(job) == [job EXCEPT !.cancelled = TRUE, !.follow = FALSE]

\* stopSessionJobs: the processes of the running jobs get a signal.
Stop(session) ==
    /\ \E j \in Running(jobs, liveJobs) : jobs[j].session = session
    /\ jobs' = [j \in DOMAIN jobs |->
         IF j \in Running(jobs, liveJobs) /\ jobs[j].session = session THEN Cancelled(jobs[j])
         ELSE jobs[j]]
    /\ worker' = [worker EXCEPT !.killed = @ \/ \E j \in Running(jobs, liveJobs) :
         jobs[j].session = session /\ worker.active = j]
    /\ UNCHANGED <<asking, liveJobs, collided, crashes>>

-----------------------------------------------------------------------------
(* Cold processes *)

Goes(j, pc, code) == jobs' = [jobs EXCEPT ![j].pc = pc, ![j].code = code]

\* It ends by itself, or by the signal of a Stop.
Exit(j) ==
    /\ jobs[j].pc = "alive" /\ ~jobs[j].warm
    /\ \E code \in {0, 1} : Goes(j, "exited", code)
    /\ UNCHANGED <<asking, liveJobs, worker, collided, crashes>>

\* The "error" event of a process that could not be started; "close" follows.
SpawnError(j) ==
    /\ jobs[j].pc = "alive" /\ ~jobs[j].warm /\ ~jobs[j].cancelled
    /\ jobs' = [jobs EXCEPT ![j].pc = "exited", ![j].code = 1, ![j].status = "failed"]
    /\ UNCHANGED <<asking, liveJobs, worker, collided, crashes>>

Close(j) ==
    /\ jobs[j].pc = "exited"
    /\ Goes(j, "snapshot", jobs[j].code)
    /\ UNCHANGED <<asking, liveJobs, worker, collided, crashes>>

-----------------------------------------------------------------------------
(* The warm worker *)

WorkerReady ==
    /\ worker.up = "booting"
    /\ worker' = [worker EXCEPT !.up = "ready"]
    /\ UNCHANGED <<asking, jobs, liveJobs, collided, crashes>>

\* studio_worker answers the request it serves.
WorkerSays ==
    /\ worker.doing # 0
    /\ worker' = [worker EXCEPT !.doing = 0, !.said = worker.doing]
    /\ \E code \in {0, 1} : Goes(worker.doing, "alive", code)
    /\ UNCHANGED <<asking, liveJobs, collided, crashes>>

WorkerDies ==
    /\ worker.up # "down" /\ ~worker.dead
    /\ \/ worker.killed /\ UNCHANGED crashes
       \/ ~worker.killed /\ crashes < MaxCrashes /\ crashes' = crashes + 1
    /\ worker' = [worker EXCEPT !.dead = TRUE, !.doing = 0]
    /\ UNCHANGED <<asking, jobs, liveJobs, collided>>

\* handleWarmControl: the worker is free; after its last run it is replaced.
WarmDone ==
    /\ worker.said # 0
    /\ IF worker.active = worker.said
       THEN /\ Goes(worker.said, "snapshot", jobs[worker.said].code)
            /\ \/ worker' = [worker EXCEPT !.said = 0, !.active = 0]
               \/ worker' = Down
       ELSE worker' = [worker EXCEPT !.said = 0] /\ UNCHANGED jobs
    /\ UNCHANGED <<asking, liveJobs, collided, crashes>>

\* Mutant: the job in flight is forgotten with its worker.
Forgotten(j) == jobs

\* finalizeWarmActive for the job in flight
Lost(j) == IF j = 0 THEN jobs
           ELSE [jobs EXCEPT ![j].pc = "snapshot", ![j].code = IF jobs[j].cancelled THEN 0 ELSE 1]

\* handleWarmClose, when all the worker said has been read.
WarmClose ==
    /\ worker.dead /\ worker.said = 0
    /\ jobs' = Lost(worker.active)
    /\ worker' = Down
    /\ UNCHANGED <<asking, liveJobs, collided, crashes>>

-----------------------------------------------------------------------------
(* finalizeRuntimeJob *)

\* The last liveJobs.set; what nothing reads any more is forgotten.
Over(j, s) == [jobs EXCEPT ![j].status = s, ![j].pc = "over", ![j].code = 0,
                           ![j].warm = FALSE, ![j].follow = FALSE]
Reset(j) == [liveJobs EXCEPT ![jobs[j].key] = j]

\* After createWorkspaceSnapshot: a stopped job ends here.
Snapshot(j) ==
    /\ jobs[j].pc = "snapshot"
    /\ IF jobs[j].cancelled
       THEN jobs' = Over(j, "cancelled") /\ liveJobs' = Reset(j)
       ELSE Goes(j, "reading", jobs[j].code) /\ UNCHANGED liveJobs
    /\ UNCHANGED <<asking, worker, collided, crashes>>

\* After readRunUserProgress.  "completed" stands for what the run concluded.
Settle(j) ==
    /\ jobs[j].pc = "reading"
    /\ IF jobs[j].code = 0 /\ jobs[j].follow
       THEN Launch(Over(j, "completed"), Reset(j), jobs[j].session, "resume", FALSE, 0, j)
       ELSE /\ jobs' = Over(j, IF jobs[j].code = 0 THEN "completed" ELSE "failed")
            /\ liveJobs' = Reset(j)
            /\ UNCHANGED <<worker, collided>>
    /\ UNCHANGED <<asking, crashes>>

JobStep(j) == Exit(j) \/ Close(j) \/ Snapshot(j) \/ Settle(j)
WorkerStep == WorkerSays \/ WarmDone \/ WarmClose

Next ==
    \/ \E s \in Session, mode \in Mode, follow \in BOOLEAN : Submit(s, mode, follow)
    \/ \E a \in Ask : Allow(a) \/ Deny(a) \/ Begin(a)
    \/ \E s \in Session : Stop(s)
    \/ \E j \in DOMAIN jobs : JobStep(j) \/ SpawnError(j)
    \/ WorkerStep \/ WorkerReady \/ WorkerDies

\* Processes end, a signal reaches its process, and the event loop comes round
\* to what they leave behind; nothing is assumed of the order or of the user.
Fairness == WF_vars(\/ \E j \in DOMAIN jobs : JobStep(j)
                    \/ WorkerStep
                    \/ worker.killed /\ WorkerDies)

Spec == Init /\ [][Next]_vars
FairSpec == Spec /\ Fairness

-----------------------------------------------------------------------------
(* Properties *)

Job == [session : Session, mode : Mode, follow : BOOLEAN, ask : 0..LastAsk, from : 0..LastJob,
        key : Key, status : {"running", "cancelled", "failed", "completed"},
        cancelled : BOOLEAN, warm : BOOLEAN, code : {0, 1},
        pc : {"none", "alive", "exited", "snapshot", "reading", "over"}]

TypeOK ==
    /\ ask \in Seq([session : Session, mode : Mode, follow : BOOLEAN])
    /\ cards \subseteq DOMAIN ask
    /\ starting \in [Ask -> 0..2]
    /\ jobs \in Seq(Job)
    /\ liveJobs \in [Key -> 0..LastJob]
    /\ worker \in [up : {"down", "booting", "ready"}, active : 0..LastJob, doing : 0..LastJob,
                   said : 0..LastJob, killed : BOOLEAN, dead : BOOLEAN]
    /\ collided \in BOOLEAN
    /\ crashes \in 0..MaxCrashes

Working == {j \in DOMAIN jobs : mutatesWorkspace(jobs[j].mode) /\ jobs[j].pc = "alive"}

\* At most one process works on the files of the workspace for Studio, cold or
\* warm, stopped or not, also while an ending job waits for its snapshot;
\* unless two jobs were started in one millisecond and got the same key.
OneWriter == ~collided => \A j, k \in Working : j = k

\* A job that the user stopped is not followed up, whichever await of its
\* ending the Stop came into.
StoppedIsNotFollowed ==
    \A j \in DOMAIN jobs : jobs[j].from # 0 => ~jobs[jobs[j].from].cancelled

\* When no more jobs are started, every job that got a process gets to a final
\* status: no run is lost with its worker, whichever end of the process and of
\* the worker, kill or Stop came first (a job whose spawn threw stays "running").
JobsSettle == []<>(\A j \in DOMAIN jobs : jobs[j].pc = "none" \/ jobs[j].status # "running")
=============================================================================
