-------------------------- MODULE BackgroundProofs --------------------------
(* What holds of what runs beside its user: the jobs of the Studio server for *)
(* any number of sessions, messages, jobs and crashes of the warm worker      *)
(* (Kept and Held are about every state; Keyed and Lone hold until two jobs   *)
(* have one key), and the list of background runs for any number of starts,   *)
(* views, runs and deaths (ListInv).                                          *)
EXTENDS StudioJobs, BackgroundRuns, SequenceTheorems, TLAPS

Workers == [up : {"down", "booting", "ready"}, active : 0..LastJob, doing : 0..LastJob,
            said : 0..LastJob, killed : BOOLEAN, dead : BOOLEAN]

Keymap == [Key -> 0..LastJob]

\* There are as many messages and jobs as the bounds allow, and a handler is
\* on its way for a message that was sent.
Fits ==
    /\ Len(ask) <= LastAsk
    /\ Len(jobs) <= LastJob
    /\ \A a \in Ask : starting[a] > 0 => a \in DOMAIN ask

Typed == TypeOK /\ Fits

\* The status follows the process, a stopped job is not to be followed up,
\* and a job that was followed up is over and was not stopped.
Kept(J) == \A i \in DOMAIN J :
    /\ J[i].pc \in {"none", "alive"} => J[i].status = "running"
    /\ J[i].pc = "over" => J[i].status # "running"
    /\ J[i].cancelled => ~J[i].follow
    /\ J[i].from # 0 =>
         J[i].from \in DOMAIN J /\ J[J[i].from].pc = "over" /\ ~J[J[i].from].cancelled

\* The worker w is at the job it was given, or answers for it.
Held(w, J) ==
    /\ w.doing # 0 => w.doing = w.active
    /\ w.said # 0 => w.said = w.active
    /\ w.doing = 0 \/ w.said = 0
    /\ w.active # 0 => w.active \in DOMAIN J /\ J[w.active].pc = "alive" /\ J[w.active].warm

\* Each job is found under the key it was given.
Keyed(J, L) == \A i \in DOMAIN J : J[i].key = i /\ L[i] = i

Writes(job) == mutatesWorkspace(job.mode) /\ job.pc = "alive"

Lone(J) == \A i, j \in DOMAIN J : Writes(J[i]) /\ Writes(J[j]) => i = j

Apart(J, L) == Keyed(J, L) /\ Lone(J)

JobInv == Kept(jobs) /\ Held(worker, jobs) /\ (~collided => Apart(jobs, liveJobs))

-----------------------------------------------------------------------------
(* A new job *)

NewJob(J, w, session, mode, follow, a, from, key, pc) ==
    [session |-> session, mode |-> mode, follow |-> follow, ask |-> a, from |-> from,
     key |-> key, status |-> "running", cancelled |-> FALSE,
     warm |-> mode = "run" /\ w.up = "ready" /\ w.active = 0, pc |-> pc, code |-> 0]

LEMMA Less == ASSUME NEW x \in Nat, NEW y \in Nat, x <= y, x # y PROVE x < y
  OBVIOUS

\* J, L, worker after the launch, or nothing new.
LEMMA Launched ==
  ASSUME NEW J \in Seq(Job), NEW L \in Keymap, worker \in Workers, collided \in BOOLEAN,
         Len(J) <= LastJob, Kept(J), Held(worker, J), ~collided => Apart(J, L),
         NEW session \in Session, NEW mode \in Mode, NEW follow \in BOOLEAN,
         NEW a \in 0..LastAsk, NEW from \in 0..LastJob,
         from # 0 => from \in DOMAIN J /\ J[from].pc = "over" /\ ~J[from].cancelled,
         Launch(J, L, session, mode, follow, a, from)
  PROVE  /\ jobs' \in Seq(Job) /\ Len(jobs') <= LastJob /\ liveJobs' \in Keymap
         /\ worker' \in Workers /\ collided' \in BOOLEAN
         /\ JobInv'
<1>0. Len(J) \in Nat /\ LastJob \in Nat /\ DOMAIN J = 1..Len(J)
  BY StudioAssumption
<1>1. CASE Blocked(J, L, mode) \/ Len(J) = LastJob
  <2>1. jobs' = J /\ liveJobs' = L /\ worker' = worker /\ collided' = collided
    BY <1>1 DEF Launch
  <2> QED
    BY <2>1 DEF JobInv, Kept, Held, Apart, Keyed, Lone
<1>2. CASE ~Blocked(J, L, mode) /\ Len(J) # LastJob
  <2> DEFINE n == Len(J) + 1
  <2>1. PICK key \in Keys(J), pc \in {"none", "alive"} :
          /\ Warms(mode) => pc = "alive"
          /\ jobs' = Append(J, NewJob(J, worker, session, mode, follow, a, from, key, pc))
          /\ liveJobs' = [L EXCEPT ![key] = n]
          /\ collided' = (collided \/ key # n)
          /\ worker' = IF Warms(mode)
               THEN [worker EXCEPT !.active = n, !.doing = IF worker.dead THEN 0 ELSE n]
               ELSE IF mode = "run" /\ worker.up = "down" THEN [Down EXCEPT !.up = "booting"]
               ELSE worker
    BY <1>2 DEF Launch, NewJob, Warms, SpawnMayThrow
  <2>2. n \in Key /\ n \in 1..LastJob
    <3>1. Len(J) < LastJob
      <4>1. Len(J) # LastJob /\ Len(J) <= LastJob
        BY <1>2
      <4> QED
        BY <1>0, <4>1, Less
    <3> QED
      BY ONLY <1>0, <3>1 DEF Key
  <2>3. key \in Key
    <3>1. ASSUME Len(J) # 0 PROVE J[Len(J)].key \in Key
      <4>1. J[Len(J)] \in Job
        BY <1>0, <3>1
      <4> QED
        BY <4>1 DEF Job
    <3> QED
      BY <2>1, <2>2, <3>1 DEF Keys
  <2> DEFINE new == NewJob(J, worker, session, mode, follow, a, from, key, pc)
  <2>4. new \in Job
    BY <2>1, <2>3 DEF NewJob, Job
  <2>5. /\ new.mode = mode /\ new.pc \in {"none", "alive"} /\ new.status = "running"
        /\ new.key = key /\ new.cancelled = FALSE /\ new.from = from
        /\ Warms(mode) => new.warm /\ new.pc = "alive"
    BY <2>1 DEF NewJob, Warms
  <2> HIDE DEF new
  <2>6. /\ jobs' \in Seq(Job) /\ Len(jobs') = n /\ DOMAIN jobs' = 1..n
        /\ \A i \in DOMAIN J : jobs'[i] = J[i]
        /\ jobs'[n] = new
    BY <1>0, <2>1, <2>4, AppendProperties DEF new
  <2>7. liveJobs' \in Keymap
    BY <2>1, <2>2, <2>3 DEF Keymap
  <2>8. worker' \in Workers /\ collided' \in BOOLEAN
    <3>1. n \in 0..LastJob /\ 0 \in 0..LastJob
      BY <2>2, <1>0
    <3>2. [Down EXCEPT !.up = "booting"] \in Workers
      BY <3>1 DEF Workers, Down
    <3>3. [worker EXCEPT !.active = n, !.doing = IF worker.dead THEN 0 ELSE n] \in Workers
      <4> DEFINE doing == IF worker.dead THEN 0 ELSE n
      <4>1. doing \in 0..LastJob
        BY <3>1
      <4>2. worker \in Workers
        OBVIOUS
      <4> HIDE DEF doing
      <4> QED
        BY ONLY <3>1, <4>1, <4>2 DEF Workers
    <3>4. worker' \in Workers
      BY <2>1, <3>2, <3>3
    <3> QED
      BY <2>1, <3>4
  <2>9. Kept(jobs')
    BY <1>0, <2>5, <2>6 DEF Kept
  <2>10. Held(worker', jobs')
    <3>1. CASE Warms(mode)
      <4>1. /\ worker'.active = n /\ worker'.doing \in {0, n} /\ worker'.said = worker.said
            /\ worker.active = 0
        BY <2>1, <3>1 DEF Workers, Warms
      <4> QED
        BY <1>0, <2>5, <2>6, <3>1, <4>1 DEF Held
    <3>2. CASE ~Warms(mode)
      <4>1. \/ worker' = worker
            \/ worker'.active = 0 /\ worker'.doing = 0 /\ worker'.said = 0
        BY <2>1, <3>2 DEF Down
      <4> QED
        BY <1>0, <2>6, <4>1 DEF Held
    <3> QED
      BY <3>1, <3>2
  <2>11. ASSUME ~collided' PROVE Apart(jobs', liveJobs')
    <3>1. ~collided /\ key = n /\ Keyed(J, L) /\ Lone(J)
      BY <2>1, <2>11 DEF Apart
    <3>2. Keyed(jobs', liveJobs')
      <4>1. \A i \in DOMAIN J : i \in Key /\ i # n
        BY <1>0, <2>2 DEF Key
      <4> QED
        BY <1>0, <2>1, <2>2, <2>5, <2>6, <3>1, <4>1 DEF Keyed, Keymap
    <3>3. ASSUME mutatesWorkspace(mode), NEW i \in DOMAIN J PROVE ~Writes(J[i])
      <4> SUFFICES ASSUME Writes(J[i]) PROVE FALSE
        OBVIOUS
      <4>1. i \in Key /\ L[i] = i /\ J[i].status = "running"
        BY <1>0, <3>1 DEF Keyed, Kept, Writes, Key
      <4> QED
        BY <1>2, <3>3, <4>1 DEF Blocked, Running, Writes
    <3>4. Lone(jobs')
      BY <1>0, <2>5, <2>6, <3>1, <3>3 DEF Lone, Writes
    <3> QED
      BY <3>2, <3>4 DEF Apart
  <2>12. n <= LastJob
    BY <2>2
  <2> QED
    BY <2>6, <2>7, <2>8, <2>9, <2>10, <2>11, <2>12 DEF JobInv, Kept, Held, Apart, Keyed, Lone
<1> QED
  BY <1>1, <1>2

-----------------------------------------------------------------------------
(* A job that moves on *)

\* What a step may make of a job.
Onward(old, new) ==
    /\ new.key = old.key /\ new.mode = old.mode /\ new.from = old.from
    /\ new.pc = "alive" => old.pc = "alive"
    /\ new.pc \in {"none", "alive"} => new.status = "running"
    /\ new.pc = "over" => new.status # "running"
    /\ new.cancelled => ~new.follow
    /\ old.pc = "over" => new.pc = "over" /\ (new.cancelled => old.cancelled)

LEMMA Moved ==
  ASSUME Typed, JobInv, NEW J \in Seq(Job), NEW L \in Keymap, Len(J) = Len(jobs),
         \A i \in DOMAIN jobs : Onward(jobs[i], J[i]),
         L = liveJobs \/ \E j \in DOMAIN jobs : L = [liveJobs EXCEPT ![jobs[j].key] = j]
  PROVE  Kept(J) /\ (~collided => Apart(J, L))
<1>0. DOMAIN J = DOMAIN jobs /\ DOMAIN jobs = 1..Len(jobs)
  BY DEF Typed, TypeOK
<1>1. Kept(J)
  BY <1>0 DEF JobInv, Kept, Onward
<1>2. ASSUME ~collided PROVE Apart(J, L)
  <2>1. Keyed(jobs, liveJobs) /\ Lone(jobs)
    BY <1>2 DEF JobInv, Apart
  <2>2. Lone(J)
    BY <1>0, <2>1 DEF Lone, Writes, Onward
  <2>3. \A i \in DOMAIN jobs : L[i] = i
    <3>1. liveJobs \in Keymap
      BY DEF Typed, TypeOK, Keymap
    <3>2. CASE L = liveJobs
      BY <2>1, <3>2 DEF Keyed
    <3>3. ASSUME NEW j \in DOMAIN jobs, L = [liveJobs EXCEPT ![j] = j]
          PROVE  \A i \in DOMAIN jobs : L[i] = i
      <4>1. \A i \in DOMAIN jobs : i \in Key
        BY <1>0, StudioAssumption DEF Typed, Fits, Key
      <4> QED
        BY <2>1, <3>1, <3>3, <4>1 DEF Keyed, Keymap
    <3> QED
      BY <2>1, <3>2, <3>3 DEF Keyed
  <2> QED
    BY <1>0, <2>1, <2>2, <2>3 DEF Apart, Keyed, Onward
<1> QED
  BY <1>1, <1>2

\* The same for one job.
LEMMA OneMoved ==
  ASSUME Typed, JobInv, NEW j \in DOMAIN jobs, NEW job \in Job, Onward(jobs[j], job),
         NEW J, J = [jobs EXCEPT ![j] = job], NEW L \in Keymap,
         L = liveJobs \/ L = [liveJobs EXCEPT ![jobs[j].key] = j]
  PROVE  /\ J \in Seq(Job) /\ Len(J) = Len(jobs) /\ DOMAIN J = DOMAIN jobs
         /\ \A i \in DOMAIN jobs : J[i] = IF i = j THEN job ELSE jobs[i]
         /\ Kept(J) /\ (~collided => Apart(J, L))
<1>0. jobs \in Seq(Job) /\ j \in 1..Len(jobs) /\ DOMAIN jobs = 1..Len(jobs)
  BY DEF Typed, TypeOK
<1>1. /\ J \in Seq(Job) /\ Len(J) = Len(jobs)
      /\ \A i \in 1..Len(jobs) : J[i] = IF i = j THEN job ELSE jobs[i]
  BY <1>0, ExceptSeq
<1>2. \A i \in DOMAIN jobs : Onward(jobs[i], J[i])
  <2>1. \A i \in DOMAIN jobs : Onward(jobs[i], jobs[i])
    BY DEF Onward, JobInv, Kept
  <2> QED
    BY <1>0, <1>1, <2>1
<1>3. Kept(J) /\ (~collided => Apart(J, L))
  BY <1>1, <1>2, Moved
<1> QED
  BY <1>0, <1>1, <1>3

\* The job j with another pc, status, code, follow and warm.
LEMMA JobEdit ==
  ASSUME Typed, NEW j \in DOMAIN jobs
  PROVE  /\ jobs[j] \in Job
         /\ \A pc \in {"alive", "exited", "snapshot", "reading", "over"}, code \in {0, 1} :
              [jobs[j] EXCEPT !.pc = pc, !.code = code] \in Job
         /\ \A s \in {"cancelled", "failed", "completed"} :
              [jobs[j] EXCEPT !.status = s, !.pc = "over", !.code = 0, !.warm = FALSE,
                              !.follow = FALSE] \in Job
         /\ Cancelled(jobs[j]) \in Job
<1>1. jobs[j] \in Job
  BY DEF Typed, TypeOK
<1> QED
  BY ONLY <1>1 DEF Job, Cancelled

-----------------------------------------------------------------------------
(* The steps *)

AskOK ==
    /\ ask \in Seq([session : Session, mode : Mode, follow : BOOLEAN])
    /\ cards \subseteq DOMAIN ask
    /\ starting \in [Ask -> 0..2]
    /\ Len(ask) <= LastAsk
    /\ \A a \in Ask : starting[a] > 0 => a \in DOMAIN ask

JobsOK ==
    /\ jobs \in Seq(Job) /\ Len(jobs) <= LastJob
    /\ liveJobs \in Keymap
    /\ worker \in Workers
    /\ collided \in BOOLEAN
    /\ JobInv

Inv == AskOK /\ JobsOK /\ crashes \in 0..MaxCrashes

LEMMA Parts == Inv <=> Typed /\ JobInv
  BY DEF Inv, AskOK, JobsOK, Typed, TypeOK, Fits, Keymap, Workers

LEMMA InitInv == Init => Inv
<1> SUFFICES ASSUME Init PROVE Inv
  OBVIOUS
<1>1. AskOK
  BY StudioAssumption DEF Init, AskOK, Ask
<1>2. jobs = <<>> /\ jobs \in Seq(Job) /\ Len(jobs) = 0 /\ DOMAIN jobs = {}
  BY DEF Init
<1>3. liveJobs \in Keymap /\ collided \in BOOLEAN /\ worker \in Workers
  <2>1. 0 \in 0..LastJob
    BY StudioAssumption
  <2>2. liveJobs \in Keymap /\ collided \in BOOLEAN
    BY <2>1 DEF Init, Keymap
  <2>3. worker = [up |-> "booting", active |-> 0, doing |-> 0, said |-> 0, killed |-> FALSE,
                  dead |-> FALSE]
    BY DEF Init, Down
  <2> QED
    BY <2>1, <2>2, <2>3 DEF Workers
<1>4. worker.active = 0 /\ worker.doing = 0 /\ worker.said = 0
  BY DEF Init, Down
<1>5. JobInv
  BY <1>2, <1>4 DEF JobInv, Kept, Held, Apart, Keyed, Lone
<1>6. crashes \in 0..MaxCrashes
  BY StudioAssumption DEF Init
<1> QED
  BY <1>1, <1>2, <1>3, <1>5, <1>6, StudioAssumption DEF Inv, JobsOK

LEMMA SameAsks == ASSUME AskOK, UNCHANGED asking PROVE AskOK'
  BY DEF AskOK, asking

LEMMA SameJobs == ASSUME JobsOK, UNCHANGED <<jobs, liveJobs, worker, collided>> PROVE JobsOK'
  BY DEF JobsOK, JobInv

LEMMA AskSteps ==
  ASSUME AskOK,
         \/ \E s \in Session, mode \in Mode, follow \in BOOLEAN : Submit(s, mode, follow)
         \/ \E a \in Ask : Allow(a) \/ Deny(a) \/ Begin(a)
  PROVE  AskOK'
<1>0. DOMAIN ask = 1..Len(ask) /\ Len(ask) \in Nat
  BY DEF AskOK
<1>1. ASSUME NEW s \in Session, NEW mode \in Mode, NEW follow \in BOOLEAN,
             Submit(s, mode, follow)
      PROVE  AskOK'
  <2> DEFINE n == Len(ask) + 1
             msg == [session |-> s, mode |-> mode, follow |-> follow]
  <2>1. /\ ask' = Append(ask, msg)
        /\ starting' = [starting EXCEPT ![n] = 1] \/ starting' = starting
        /\ cards' = cards \cup {n} \/ cards' = cards
        /\ Len(ask) < LastAsk
    BY <1>1 DEF Submit
  <2>2. msg \in [session : Session, mode : Mode, follow : BOOLEAN]
    OBVIOUS
  <2> HIDE DEF msg
  <2>3. /\ ask' \in Seq([session : Session, mode : Mode, follow : BOOLEAN])
        /\ Len(ask') = n /\ DOMAIN ask' = 1..n
    BY <1>0, <2>1, <2>2, AppendProperties DEF AskOK
  <2>4. n \in Ask /\ n <= LastAsk
    BY <1>0, <2>1, StudioAssumption DEF Ask
  <2>5. starting' \in [Ask -> 0..2]
    BY <2>1, <2>4 DEF AskOK
  <2>6. \A a \in Ask : starting'[a] > 0 => a \in DOMAIN ask'
    BY <1>0, <2>1, <2>3, <2>4 DEF AskOK
  <2>7. cards' \subseteq DOMAIN ask'
    BY <1>0, <2>1, <2>3 DEF AskOK
  <2> QED
    BY <2>3, <2>4, <2>5, <2>6, <2>7 DEF AskOK
<1>2. ASSUME NEW a \in Ask, Allow(a) PROVE AskOK'
  BY <1>2 DEF AskOK, Allow, CardsWithout
<1>3. ASSUME NEW a \in Ask, Deny(a) PROVE AskOK'
  BY <1>3 DEF AskOK, Deny, CardsWithout
<1>4. ASSUME NEW a \in Ask, Begin(a) PROVE AskOK'
  <2>0. starting[a] \in 0..2
    BY DEF AskOK
  <2>1. /\ starting[a] > 0
        /\ starting' = [starting EXCEPT ![a] = starting[a] - 1]
        /\ ask' = ask /\ cards' = cards
    BY <1>4 DEF Begin
  <2>2. starting[a] - 1 \in 0..2
    BY <2>0, <2>1
  <2> QED
    BY <2>1, <2>2 DEF AskOK
<1> QED
  BY <1>1, <1>2, <1>3, <1>4

\* A handler gets to startRuntimeJob.
LEMMA BeginStep ==
  ASSUME AskOK, JobsOK, NEW a \in Ask, Begin(a)
  PROVE  JobsOK'
<1>1. a \in DOMAIN ask /\ ask[a] \in [session : Session, mode : Mode, follow : BOOLEAN]
  <2>1. starting[a] > 0
    BY DEF Begin
  <2>2. /\ ask \in Seq([session : Session, mode : Mode, follow : BOOLEAN])
        /\ starting[a] > 0 => a \in DOMAIN ask
    BY DEF AskOK
  <2> DEFINE Message == [session : Session, mode : Mode, follow : BOOLEAN]
  <2>3. ask \in Seq(Message) /\ a \in DOMAIN ask
    BY <2>1, <2>2
  <2> HIDE DEF Message
  <2>4. ask[a] \in Message
    BY <2>3
  <2> QED
    BY <2>3, <2>4 DEF Message
<1>2. a \in 0..LastAsk /\ 0 \in 0..LastJob
  BY StudioAssumption DEF Ask
<1>3. /\ ask[a].session \in Session /\ ask[a].mode \in Mode /\ ask[a].follow \in BOOLEAN
  BY <1>1
<1>4. Launch(jobs, liveJobs, ask[a].session, ask[a].mode, ask[a].follow, a, 0)
  BY DEF Begin
<1> QED
  BY <1>2, <1>3, <1>4, Launched DEF JobsOK, JobInv

\* A step of one job.
LEMMA JobStepOK ==
  ASSUME Typed, JobInv, NEW j \in DOMAIN jobs, NEW job \in Job, Onward(jobs[j], job),
         jobs' = [jobs EXCEPT ![j] = job],
         liveJobs' = liveJobs \/ liveJobs' = [liveJobs EXCEPT ![jobs[j].key] = j],
         collided' = collided, worker' \in Workers, Held(worker', jobs')
  PROVE  JobsOK'
<1>1. liveJobs' \in Keymap
  <2>1. jobs[j].key \in Key /\ j \in 0..LastJob /\ liveJobs \in Keymap
    <3>1. jobs[j] \in Job /\ jobs \in Seq(Job) /\ Len(jobs) <= LastJob /\ liveJobs \in Keymap
      BY DEF Typed, TypeOK, Fits, Keymap
    <3>2. jobs[j].key \in Key
      BY <3>1 DEF Job
    <3> QED
      BY <3>1, <3>2, StudioAssumption
  <2> QED
    BY <2>1 DEF Keymap
<1>2. /\ jobs' \in Seq(Job) /\ Len(jobs') = Len(jobs)
      /\ Kept(jobs') /\ (~collided => Apart(jobs', liveJobs'))
  BY <1>1, OneMoved
<1>3. Len(jobs) <= LastJob /\ collided \in BOOLEAN
  BY DEF Typed, TypeOK, Fits
<1> QED
  BY <1>1, <1>2, <1>3 DEF JobsOK, JobInv, Kept, Held, Apart, Keyed, Lone

\* What of a job's edits each step makes.
LEMMA SameWorker ==
  ASSUME Typed, JobInv, NEW j \in DOMAIN jobs, NEW job, job.pc = "alive" => job.warm = jobs[j].warm,
         j = worker.active => job.pc = "alive", NEW J,
         DOMAIN J = DOMAIN jobs,
         \A i \in DOMAIN jobs : J[i] = IF i = j THEN job ELSE jobs[i]
  PROVE  Held(worker, J)
  BY DEF JobInv, Held

LEMMA ColdSteps ==
  ASSUME Typed, JobInv, NEW j \in DOMAIN jobs, Exit(j) \/ SpawnError(j) \/ Close(j)
  PROVE  JobsOK'
<1>0. worker \in Workers /\ liveJobs \in Keymap /\ jobs[j] \in Job /\ j # worker.active
  <2>1. jobs[j].pc = "exited" \/ ~jobs[j].warm
    BY DEF Exit, SpawnError, Close
  <2>2. j # worker.active
    <3>1. j # 0
      BY DEF Typed, TypeOK
    <3> QED
      BY <2>1, <3>1 DEF JobInv, Held
  <2> QED
    BY <2>2, JobEdit DEF Typed, TypeOK, Keymap, Workers
<1>1. UNCHANGED <<liveJobs, worker, collided>>
  BY DEF Exit, SpawnError, Close
<1>2. PICK job \in Job : Onward(jobs[j], job) /\ jobs' = [jobs EXCEPT ![j] = job]
                         /\ job.pc # "alive"
  <2>1. CASE Exit(j)
    <3>1. PICK code \in {0, 1} : jobs' = [jobs EXCEPT ![j].pc = "exited", ![j].code = code]
      BY <2>1 DEF Exit, Goes
    <3> DEFINE job == [jobs[j] EXCEPT !.pc = "exited", !.code = code]
    <3>2. job \in Job /\ jobs' = [jobs EXCEPT ![j] = job]
      BY <3>1, JobEdit
    <3>3. Onward(jobs[j], job) /\ job.pc # "alive"
      BY <1>0, <2>1 DEF Onward, Exit, Job, JobInv, Kept
    <3> QED
      BY <3>2, <3>3
  <2>2. CASE SpawnError(j)
    <3> DEFINE job == [jobs[j] EXCEPT !.pc = "exited", !.code = 1, !.status = "failed"]
    <3>1. job \in Job
      BY <1>0 DEF Job
    <3>2. jobs' = [jobs EXCEPT ![j] = job]
      BY <2>2 DEF SpawnError
    <3>3. Onward(jobs[j], job) /\ job.pc # "alive"
      BY <1>0, <2>2 DEF Onward, SpawnError, Job, JobInv, Kept
    <3> QED
      BY <3>1, <3>2, <3>3
  <2>3. CASE Close(j)
    <3> DEFINE job == [jobs[j] EXCEPT !.pc = "snapshot", !.code = jobs[j].code]
    <3>1. job \in Job
      BY <1>0 DEF Job
    <3>2. jobs' = [jobs EXCEPT ![j] = job]
      BY <2>3 DEF Close, Goes
    <3>3. Onward(jobs[j], job) /\ job.pc # "alive"
      BY <1>0, <2>3 DEF Onward, Close, Job, JobInv, Kept
    <3> QED
      BY <3>1, <3>2, <3>3
  <2> QED
    BY <2>1, <2>2, <2>3
<1>3. /\ DOMAIN jobs' = DOMAIN jobs
      /\ \A i \in DOMAIN jobs : jobs'[i] = IF i = j THEN job ELSE jobs[i]
  BY <1>0, <1>2, OneMoved DEF Typed, TypeOK, Keymap
<1>4. Held(worker, jobs')
  BY <1>0, <1>2, <1>3, SameWorker
<1> QED
  BY <1>0, <1>1, <1>2, <1>4, JobStepOK

\* The server knows a worker w that is free, or down.
LEMMA FreeWorker ==
  ASSUME NEW w, w.active = 0, w.doing = 0, w.said = 0, NEW J
  PROVE  Held(w, J)
  BY DEF Held

LEMMA WorkerAlone ==
  ASSUME Typed, JobInv, WorkerReady \/ WorkerDies
  PROVE  JobsOK'
<1>1. UNCHANGED <<jobs, liveJobs, collided>>
  BY DEF WorkerReady, WorkerDies
<1>2. worker \in Workers /\ 0 \in 0..LastJob
  BY StudioAssumption DEF Typed, TypeOK, Workers
<1>3. \/ worker' = [worker EXCEPT !.up = "ready"]
      \/ worker' = [worker EXCEPT !.dead = TRUE, !.doing = 0]
  BY DEF WorkerReady, WorkerDies
<1>4. worker' \in Workers
  BY ONLY <1>2, <1>3 DEF Workers
<1>5. Held(worker', jobs)
  <2>1. /\ worker'.active = worker.active /\ worker'.said = worker.said
        /\ worker'.doing \in {worker.doing, 0}
    BY ONLY <1>2, <1>3 DEF Workers
  <2> QED
    BY <2>1 DEF JobInv, Held
<1> QED
  BY <1>1, <1>4, <1>5 DEF JobsOK, JobInv, Typed, TypeOK, Fits, Keymap

\* The worker answers, or is heard of, or lost.
LEMMA WarmSteps ==
  ASSUME Typed, JobInv, WorkerSays \/ WarmDone \/ WarmClose
  PROVE  JobsOK'
<1>0. /\ worker \in Workers /\ liveJobs \in Keymap /\ 0 \in 0..LastJob
      /\ jobs \in Seq(Job) /\ Len(jobs) <= LastJob /\ collided \in BOOLEAN
  BY StudioAssumption DEF Typed, TypeOK, Fits, Workers, Keymap
<1>1. UNCHANGED <<liveJobs, collided>>
  BY DEF WorkerSays, WarmDone, WarmClose
<1>2. /\ worker.active # 0 =>
            worker.active \in DOMAIN jobs /\ jobs[worker.active].pc = "alive"
      /\ worker.doing # 0 => worker.doing = worker.active /\ worker.said = 0
      /\ worker.said # 0 => worker.said = worker.active /\ worker.doing = 0
  BY DEF JobInv, Held
<1>3. Down \in Workers
  BY <1>0 DEF Down, Workers
<1>4. CASE WorkerSays
  <2> DEFINE j == worker.doing
  <2>1. /\ j = worker.active /\ j \in DOMAIN jobs /\ jobs[j].pc = "alive"
        /\ worker' = [worker EXCEPT !.doing = 0, !.said = worker.doing]
    BY <1>2, <1>4 DEF WorkerSays
  <2>2. PICK code \in {0, 1} : jobs' = [jobs EXCEPT ![j].pc = "alive", ![j].code = code]
    BY <1>4 DEF WorkerSays, Goes
  <2> DEFINE job == [jobs[j] EXCEPT !.pc = "alive", !.code = code]
  <2>3. job \in Job /\ jobs' = [jobs EXCEPT ![j] = job]
    BY <2>1, <2>2, JobEdit
  <2>4. jobs[j] \in Job
    BY <2>1, JobEdit
  <2>5. Onward(jobs[j], job) /\ job.warm = jobs[j].warm /\ job.pc = "alive"
    BY <2>1, <2>4 DEF Onward, Job, JobInv, Kept
  <2> HIDE DEF job
  <2>6. /\ DOMAIN jobs' = DOMAIN jobs
        /\ \A i \in DOMAIN jobs : jobs'[i] = IF i = j THEN job ELSE jobs[i]
    BY <1>0, <2>1, <2>3, <2>5, OneMoved
  <2>7. worker' \in Workers
    BY ONLY <1>0, <2>1 DEF Workers
  <2>8. worker'.active = j /\ worker'.doing = 0 /\ worker'.said = j
    BY ONLY <1>0, <2>1 DEF Workers
  <2>9. Held(worker', jobs')
    <3>1. jobs[j].warm
      BY <1>4, <2>1 DEF JobInv, Held, WorkerSays
    <3> QED
      BY <2>1, <2>5, <2>6, <2>8, <3>1 DEF Held
  <2> QED
    BY <1>1, <2>1, <2>3, <2>5, <2>7, <2>9, JobStepOK
<1>5. CASE WarmDone
  <2> DEFINE j == worker.said
             job == [jobs[j] EXCEPT !.pc = "snapshot", !.code = jobs[j].code]
  <2>0. /\ j = worker.active /\ worker.doing = 0 /\ j \in DOMAIN jobs /\ jobs[j].pc = "alive"
        /\ worker' = [worker EXCEPT !.said = 0, !.active = 0] \/ worker' = Down
    BY <1>2, <1>5 DEF WarmDone
  <2>1. /\ j = worker.active /\ worker.doing = 0 /\ j \in DOMAIN jobs /\ jobs[j].pc = "alive"
        /\ jobs' = [jobs EXCEPT ![j] = job]
    BY <1>5, <2>0 DEF WarmDone, Goes
  <2>2. jobs[j] \in Job
    BY <2>1, JobEdit
  <2>3. job \in Job
    BY <2>2 DEF Job
  <2>4. Onward(jobs[j], job)
    BY <2>1, <2>2 DEF Onward, Job, JobInv, Kept
  <2>5. worker' \in Workers
    BY ONLY <1>0, <1>3, <2>0 DEF Workers
  <2>6. worker'.active = 0 /\ worker'.doing = 0 /\ worker'.said = 0
    <3>1. CASE worker' = Down
      BY ONLY <3>1 DEF Down
    <3>2. CASE worker' = [worker EXCEPT !.said = 0, !.active = 0]
      <4>1. worker.doing = 0
        BY <2>0
      <4> QED
        BY ONLY <1>0, <3>2, <4>1 DEF Workers
    <3> QED
      BY <2>0, <3>1, <3>2
  <2>7. Held(worker', jobs')
    BY <2>6, FreeWorker
  <2> QED
    BY <1>1, <2>1, <2>3, <2>4, <2>5, <2>7, JobStepOK
<1>6. CASE WarmClose
  <2> DEFINE j == worker.active
  <2>1. worker' \in Workers /\ Held(worker', jobs')
    <3>1. worker' = Down
      BY <1>6 DEF WarmClose
    <3>2. worker'.active = 0 /\ worker'.doing = 0 /\ worker'.said = 0
      BY ONLY <3>1 DEF Down
    <3> QED
      BY <1>3, <3>1, <3>2, FreeWorker
  <2>2. CASE j = 0
    <3>1. jobs' = jobs
      BY <1>6, <2>2 DEF WarmClose, Lost
    <3> QED
      BY <1>0, <1>1, <2>1, <3>1 DEF JobsOK, JobInv
  <2>3. CASE j # 0
    <3> DEFINE code == IF jobs[j].cancelled THEN 0 ELSE 1
               job == [jobs[j] EXCEPT !.pc = "snapshot", !.code = code]
    <3>1. jobs' = [jobs EXCEPT ![j] = job] /\ j \in DOMAIN jobs /\ jobs[j].pc = "alive"
      BY <1>2, <1>6, <2>3 DEF WarmClose, Lost
    <3>2. jobs[j] \in Job
      BY <3>1, JobEdit
    <3>3. job \in Job
      BY <3>2 DEF Job
    <3>4. Onward(jobs[j], job)
      BY <3>1, <3>2 DEF Onward, Job, JobInv, Kept
    <3> QED
      BY <1>1, <2>1, <3>1, <3>3, <3>4, JobStepOK
  <2> QED
    BY <2>2, <2>3
<1> QED
  BY <1>4, <1>5, <1>6

\* The end of a job, whatever its status.
LEMMA OverJob ==
  ASSUME Typed, JobInv, NEW j \in DOMAIN jobs, NEW s \in {"cancelled", "failed", "completed"},
         jobs[j].pc # "alive"
  PROVE  /\ Over(j, s) \in Seq(Job) /\ Len(Over(j, s)) = Len(jobs)
         /\ DOMAIN Over(j, s) = DOMAIN jobs
         /\ Reset(j) \in Keymap
         /\ Kept(Over(j, s)) /\ Held(worker, Over(j, s))
         /\ ~collided => Apart(Over(j, s), Reset(j))
         /\ Over(j, s)[j].pc = "over" /\ Over(j, s)[j].cancelled = jobs[j].cancelled
<1> DEFINE job == [jobs[j] EXCEPT !.status = s, !.pc = "over", !.code = 0, !.warm = FALSE,
                                  !.follow = FALSE]
<1>1. job \in Job /\ jobs[j] \in Job
  BY JobEdit
<1>2. Over(j, s) = [jobs EXCEPT ![j] = job]
  BY DEF Over
<1>3. Onward(jobs[j], job) /\ job.pc = "over" /\ job.cancelled = jobs[j].cancelled
  BY <1>1 DEF Onward, Job
<1>4. liveJobs \in Keymap /\ j # worker.active /\ j \in 0..LastJob /\ jobs[j].key \in Key
  <2>1. j # 0 /\ liveJobs \in Keymap /\ j \in 0..LastJob
    BY StudioAssumption DEF Typed, TypeOK, Fits, Keymap
  <2>2. jobs[j].key \in Key
    BY <1>1 DEF Job
  <2> QED
    BY <2>1, <2>2 DEF JobInv, Held
<1>5. Reset(j) = [liveJobs EXCEPT ![jobs[j].key] = j] /\ Reset(j) \in Keymap
  BY <1>4 DEF Reset, Keymap
<1> HIDE DEF job
<1>6. /\ Over(j, s) \in Seq(Job) /\ Len(Over(j, s)) = Len(jobs)
      /\ DOMAIN Over(j, s) = DOMAIN jobs
      /\ \A i \in DOMAIN jobs : Over(j, s)[i] = IF i = j THEN job ELSE jobs[i]
      /\ Kept(Over(j, s)) /\ (~collided => Apart(Over(j, s), Reset(j)))
  <2>1. PICK J : J = Over(j, s)
    OBVIOUS
  <2>2. PICK L \in Keymap : L = Reset(j)
    BY <1>5
  <2>3. J = [jobs EXCEPT ![j] = job] /\ L = [liveJobs EXCEPT ![jobs[j].key] = j]
    BY <1>2, <1>5, <2>1, <2>2
  <2>5. PICK e \in Job : e = job /\ Onward(jobs[j], e)
    BY <1>1, <1>3
  <2>6. J = [jobs EXCEPT ![j] = e]
    BY <2>3, <2>5
  <2>4. /\ J \in Seq(Job) /\ Len(J) = Len(jobs) /\ DOMAIN J = DOMAIN jobs
        /\ \A i \in DOMAIN jobs : J[i] = IF i = j THEN e ELSE jobs[i]
        /\ Kept(J) /\ (~collided => Apart(J, L))
    <3>1. L = liveJobs \/ L = [liveJobs EXCEPT ![jobs[j].key] = j]
      BY <2>3
    <3>2. Onward(jobs[j], e)
      BY <2>5
    <3> QED
      BY <2>6, <3>1, <3>2, OneMoved, Zenon
  <2> QED
    BY <2>1, <2>2, <2>4, <2>5
<1>7. Held(worker, Over(j, s))
  BY <1>3, <1>4, <1>6, SameWorker
<1> QED
  BY <1>3, <1>5, <1>6, <1>7

\* The two awaits of finalizeRuntimeJob come back.
LEMMA EndSteps ==
  ASSUME Typed, JobInv, NEW j \in DOMAIN jobs, Snapshot(j) \/ Settle(j)
  PROVE  JobsOK'
<1>0. /\ worker \in Workers /\ liveJobs \in Keymap /\ jobs[j] \in Job
      /\ jobs \in Seq(Job) /\ Len(jobs) <= LastJob /\ collided \in BOOLEAN
  BY DEF Typed, TypeOK, Fits, Workers, Keymap
<1>1. jobs[j].pc # "alive"
  BY DEF Snapshot, Settle
<1>2. ASSUME NEW s \in {"cancelled", "failed", "completed"},
             jobs' = Over(j, s), liveJobs' = Reset(j), UNCHANGED <<worker, collided>>
      PROVE  JobsOK'
  <2>1. /\ Over(j, s) \in Seq(Job) /\ Len(Over(j, s)) = Len(jobs)
        /\ Reset(j) \in Keymap
        /\ Kept(Over(j, s)) /\ Held(worker, Over(j, s))
        /\ ~collided => Apart(Over(j, s), Reset(j))
    BY <1>1, OverJob
  <2> QED
    BY <1>0, <1>2, <2>1 DEF JobsOK, JobInv
<1>3. CASE Snapshot(j) /\ jobs[j].cancelled
  <2>1. jobs' = Over(j, "cancelled") /\ liveJobs' = Reset(j) /\ UNCHANGED <<worker, collided>>
    BY <1>3 DEF Snapshot
  <2> QED
    BY <1>2, <2>1
<1>4. CASE Snapshot(j) /\ ~jobs[j].cancelled
  <2> DEFINE job == [jobs[j] EXCEPT !.pc = "reading", !.code = jobs[j].code]
  <2>1. jobs' = [jobs EXCEPT ![j] = job] /\ UNCHANGED <<liveJobs, worker, collided>>
    BY <1>4 DEF Snapshot, Goes
  <2>2. job \in Job
    BY <1>0 DEF Job
  <2>3. Onward(jobs[j], job) /\ job.pc # "alive"
    BY <1>0, <1>4 DEF Onward, Snapshot, Job, JobInv, Kept
  <2> HIDE DEF job
  <2>4. j # worker.active
    <3>1. j # 0
      BY DEF Typed, TypeOK
    <3> QED
      BY <1>1, <3>1 DEF JobInv, Held
  <2>5. /\ DOMAIN jobs' = DOMAIN jobs
        /\ \A i \in DOMAIN jobs : jobs'[i] = IF i = j THEN job ELSE jobs[i]
    BY <1>0, <2>1, <2>2, <2>3, OneMoved
  <2>6. Held(worker, jobs')
    BY <2>3, <2>4, <2>5, SameWorker
  <2> QED
    BY <1>0, <2>1, <2>2, <2>3, <2>6, JobStepOK
<1>5. CASE Settle(j) /\ ~(jobs[j].code = 0 /\ jobs[j].follow)
  <2>1. PICK s \in {"completed", "failed"} :
          jobs' = Over(j, s) /\ liveJobs' = Reset(j) /\ UNCHANGED <<worker, collided>>
    BY <1>5 DEF Settle
  <2> QED
    BY <1>2, <2>1
<1>6. CASE Settle(j) /\ jobs[j].code = 0 /\ jobs[j].follow
  <2>1. PICK J : J = Over(j, "completed")
    OBVIOUS
  <2>2. PICK L : L = Reset(j)
    OBVIOUS
  <2>3. ~jobs[j].cancelled
    BY <1>6 DEF JobInv, Kept
  <2>4. /\ J \in Seq(Job) /\ Len(J) <= LastJob /\ L \in Keymap
        /\ Kept(J) /\ Held(worker, J) /\ (~collided => Apart(J, L))
        /\ j \in DOMAIN J /\ J[j].pc = "over" /\ ~J[j].cancelled
    BY <1>0, <1>1, <2>1, <2>2, <2>3, OverJob
  <2>5. Launch(J, L, jobs[j].session, "resume", FALSE, 0, j)
    BY <1>6, <2>1, <2>2 DEF Settle
  <2>6. jobs[j].session \in Session /\ "resume" \in Mode /\ 0 \in 0..LastAsk /\ j \in 0..LastJob
    <3>1. jobs[j].session \in Session
      BY <1>0 DEF Job
    <3> QED
      BY <1>0, <3>1, StudioAssumption DEF Mode
  <2> QED
    BY <1>0, <2>4, <2>5, <2>6, Launched, Zenon DEF JobsOK
<1> QED
  BY <1>3, <1>4, <1>5, <1>6

\* stopSessionJobs
LEMMA StopStep ==
  ASSUME Typed, JobInv, NEW session \in Session, Stop(session)
  PROVE  JobsOK'
<1>0. /\ worker \in Workers /\ liveJobs \in Keymap /\ DOMAIN jobs = 1..Len(jobs)
      /\ jobs \in Seq(Job) /\ Len(jobs) <= LastJob /\ Len(jobs) \in Nat /\ collided \in BOOLEAN
  BY DEF Typed, TypeOK, Fits, Workers, Keymap
<1> DEFINE Hit(j) == j \in Running(jobs, liveJobs) /\ jobs[j].session = session
<1>1. jobs' = [j \in DOMAIN jobs |-> IF Hit(j) THEN Cancelled(jobs[j]) ELSE jobs[j]]
  BY DEF Stop
<1>2. UNCHANGED <<liveJobs, collided>>
  BY DEF Stop
<1>3. PICK killed \in BOOLEAN : worker' = [worker EXCEPT !.killed = killed]
  <2>1. PICK killed : /\ worker' = [worker EXCEPT !.killed = killed]
                      /\ killed = (worker.killed \/ \E j \in Running(jobs, liveJobs) :
                           jobs[j].session = session /\ worker.active = j)
    BY DEF Stop
  <2> QED
    BY <2>1
<1>4. worker' \in Workers
  BY ONLY <1>0, <1>3 DEF Workers
<1>5. /\ worker'.active = worker.active /\ worker'.doing = worker.doing
      /\ worker'.said = worker.said
  BY ONLY <1>0, <1>3 DEF Workers
<1> HIDE DEF Hit
<1>6. /\ jobs' \in Seq(Job) /\ Len(jobs') = Len(jobs) /\ DOMAIN jobs' = DOMAIN jobs
      /\ \A i \in DOMAIN jobs : jobs'[i] = IF Hit(i) THEN Cancelled(jobs[i]) ELSE jobs[i]
  <2>1. \A i \in DOMAIN jobs : jobs[i] \in Job /\ Cancelled(jobs[i]) \in Job
    BY JobEdit
  <2> QED
    BY <1>0, <1>1, <2>1
<1>7. \A i \in DOMAIN jobs : /\ jobs'[i].pc = jobs[i].pc /\ jobs'[i].warm = jobs[i].warm
                             /\ Onward(jobs[i], jobs'[i])
  <2> SUFFICES ASSUME NEW i \in DOMAIN jobs
               PROVE  /\ jobs'[i].pc = jobs[i].pc /\ jobs'[i].warm = jobs[i].warm
                      /\ Onward(jobs[i], jobs'[i])
    OBVIOUS
  <2>1. jobs[i] \in Job
    BY JobEdit
  <2>2. CASE ~Hit(i)
    BY <1>6, <2>2 DEF Onward, JobInv, Kept
  <2>3. CASE Hit(i)
    <3>1. jobs'[i] = Cancelled(jobs[i]) /\ jobs[i].pc # "over"
      BY <1>6, <2>3 DEF Hit, Running, JobInv, Kept
    <3> QED
      BY <2>1, <3>1 DEF Onward, Cancelled, Job, JobInv, Kept
  <2> QED
    BY <2>2, <2>3
<1>8. Held(worker', jobs')
  BY <1>5, <1>6, <1>7 DEF JobInv, Held
<1>9. Kept(jobs') /\ (~collided => Apart(jobs', liveJobs))
  BY <1>0, <1>6, <1>7, Moved
<1> QED
  BY <1>0, <1>2, <1>4, <1>6, <1>8, <1>9 DEF JobsOK, JobInv

LEMMA InvNext == Inv /\ [Next]_vars => Inv'
<1> SUFFICES ASSUME Inv, [Next]_vars PROVE Inv'
  OBVIOUS
<1>0. AskOK /\ JobsOK /\ crashes \in 0..MaxCrashes /\ Typed /\ JobInv
  BY Parts DEF Inv
<1>1. ASSUME NEW s \in Session, NEW mode \in Mode, NEW follow \in BOOLEAN,
             Submit(s, mode, follow)
      PROVE  Inv'
  BY <1>0, <1>1, AskSteps, SameJobs DEF Inv, Submit
<1>2. ASSUME NEW a \in Ask, Allow(a) \/ Deny(a) PROVE Inv'
  BY <1>0, <1>2, AskSteps, SameJobs DEF Inv, Allow, Deny
<1>3. ASSUME NEW a \in Ask, Begin(a) PROVE Inv'
  BY <1>0, <1>3, AskSteps, BeginStep DEF Inv, Begin
<1>4. ASSUME NEW s \in Session, Stop(s) PROVE Inv'
  BY <1>0, <1>4, SameAsks, StopStep DEF Inv, Stop
<1>5. ASSUME NEW j \in DOMAIN jobs, Exit(j) \/ SpawnError(j) \/ Close(j) PROVE Inv'
  BY <1>0, <1>5, SameAsks, ColdSteps DEF Inv, Exit, SpawnError, Close
<1>6. ASSUME NEW j \in DOMAIN jobs, Snapshot(j) \/ Settle(j) PROVE Inv'
  BY <1>0, <1>6, SameAsks, EndSteps DEF Inv, Snapshot, Settle
<1>7. CASE WorkerStep
  BY <1>0, <1>7, SameAsks, WarmSteps DEF Inv, WorkerStep, WorkerSays, WarmDone, WarmClose
<1>8. CASE WorkerReady
  BY <1>0, <1>8, SameAsks, WorkerAlone DEF Inv, WorkerReady
<1>9. CASE WorkerDies
  <2>1. AskOK' /\ JobsOK'
    BY <1>0, <1>9, SameAsks, WorkerAlone DEF WorkerDies
  <2>2. crashes' \in 0..MaxCrashes
    <3>1. MaxCrashes \in Nat /\ crashes \in 0..MaxCrashes
      BY <1>0, StudioAssumption
    <3>2. crashes' = crashes \/ (crashes < MaxCrashes /\ crashes' = crashes + 1)
      BY <1>9 DEF WorkerDies
    <3> QED
      BY ONLY <3>1, <3>2
  <2> QED
    BY <2>1, <2>2 DEF Inv
<1>10. CASE UNCHANGED vars
  BY <1>0, <1>10, SameAsks, SameJobs DEF Inv, vars, asking
<1> QED
  BY <1>1, <1>2, <1>3, <1>4, <1>5, <1>6, <1>7, <1>8, <1>9, <1>10 DEF Next, JobStep

-----------------------------------------------------------------------------
(* The theorems *)

LEMMA InvAlways == Spec => []Inv
  BY InitInv, InvNext, PTL DEF Spec

(* The state of the Studio server is of its types.                          *)
THEOREM TypeCorrect == Spec => []TypeOK
<1>1. Inv => TypeOK
  BY Parts DEF Typed
<1> QED
  BY <1>1, InvAlways, PTL

(* As long as no two jobs got one key, at most one process works on the     *)
(* files of the workspace: startRuntimeJob refuses a second writer.         *)
THEOREM OneWriterHolds == Spec => []OneWriter
<1>1. Inv => OneWriter
  <2> SUFFICES ASSUME Inv, ~collided PROVE \A j, k \in Working : j = k
    BY DEF OneWriter
  <2>1. Lone(jobs)
    BY Parts DEF JobInv, Apart
  <2> QED
    BY <2>1 DEF Lone, Writes, Working
<1> QED
  BY <1>1, InvAlways, PTL

(* finalizeRuntimeJob follows up no job that the user stopped, whichever of *)
(* its awaits the Stop came into.                                           *)
THEOREM StoppedStay == Spec => []StoppedIsNotFollowed
<1>1. Inv => StoppedIsNotFollowed
  BY Parts DEF JobInv, Kept, StoppedIsNotFollowed
<1> QED
  BY <1>1, InvAlways, PTL

-----------------------------------------------------------------------------
(* The list of background runs *)

\* What an entry says is true now: its process was started, and if the entry
\* shows it as ended it is not alive.  It stays true, as no process starts twice.
Truth(e) == proc[e.pid] # "none" /\ (Ended(e) => proc[e.pid] # "alive")

AllTrue ==
    /\ \A n \in DOMAIN registry : Truth(registry[n])
    /\ \A c \in Cmd : \A n \in DOMAIN command[c].copy : Truth(command[c].copy[n])

ShownTruly == BgTypeOK /\ Len(runs) <= MaxRuns /\ AllTrue

Pids(list) == {list[n].pid : n \in DOMAIN list}

Spawned == \A c \in Cmd : command[c].pc = "list" => Len(command[c].copy) = 1 /\ command[c].copy[1].pid = c

\* What c has read is as the file is, in what matters to those that are listed.
UpToDate(c) ==
    /\ command[c].pc = "append" /\ Len(command[c].copy) < Keep =>
         /\ Len(registry) < Keep
         /\ Pids(registry) \cup {c} \subseteq Pids(command[c].copy)
    /\ command[c].pc = "probe" => command[c].copy = registry
    /\ command[c].pc = "write" =>
         /\ Len(command[c].copy) = Len(registry)
         /\ Pids(command[c].copy) = Pids(registry)

OneAtATime ==
    /\ \A c, o \in Cmd : HalfWay(c) /\ HalfWay(o) => c = o
    /\ Len(registry) < Keep => listed \subseteq Pids(registry)
    /\ \A c \in Cmd : UpToDate(c)

KeptInv == Spawned /\ (~crossed => OneAtATime)

ListInv == ShownTruly /\ KeptInv

\* The newest entries of a list are entries of it, and all of them unless they
\* fill the list.
LEMMA NewestOf ==
    ASSUME NEW list \in Seq(Entry)
    PROVE  /\ Newest(list) \in Seq(Entry)
           /\ \A n \in DOMAIN Newest(list) : \E k \in DOMAIN list : Newest(list)[n] = list[k]
           /\ Len(Newest(list)) < Keep => Newest(list) = list
  <1>1. Keep \in Nat \ {0} /\ Len(list) \in Nat /\ DOMAIN list = 1..Len(list)
    BY RegistryAssumption
  <1>2. CASE Len(list) <= Keep  BY <1>2 DEF Newest
  <1>3. CASE ~(Len(list) <= Keep)
    <2> DEFINE m == Len(list) - Keep + 1
               new == SubSeq(list, m, Len(list))
    <2>1. m \in Int /\ m >= 1 /\ m <= Len(list) /\ Newest(list) = new  BY <1>1, <1>3 DEF Newest
    <2>2. \A i \in m..Len(list) : list[i] \in Entry  BY <1>1, <2>1, ElementOfSeq
    <2> HIDE DEF m
    <2>3. /\ new \in Seq(Entry) /\ Len(new) = Len(list) - m + 1
          /\ \A i \in 1..Len(list) - m + 1 : new[i] = list[m + i - 1]
      BY <1>1, <2>1, <2>2, SubSeqProperties
    <2>4. DOMAIN new = 1..Len(list) - m + 1  BY <2>3, LenProperties
    <2>5. \A i \in 1..Len(list) - m + 1 : m + i - 1 \in DOMAIN list  BY <1>1, <2>1
    <2>6. Len(new) = Keep  BY <1>1, <2>3 DEF m
    <2>7. \A n \in DOMAIN new : \E k \in DOMAIN list : new[n] = list[k]  BY <2>3, <2>4, <2>5
    <2> HIDE DEF new
    <2> QED  BY <1>1, <2>1, <2>3, <2>6, <2>7
  <1> QED  BY <1>2, <1>3

LEMMA ListInit == BgInit => ListInv
  <1> SUFFICES ASSUME BgInit PROVE ListInv  OBVIOUS
  <1>1. BgTypeOK /\ Len(runs) <= MaxRuns
    <2>1. <<>> \in Seq(Entry) /\ <<>> \in Seq(Starter \cup {Foreground})  OBVIOUS
    <2>2. command \in [Cmd -> [pc : {"idle", "list", "append", "probe", "write"}, copy : Seq(Entry)]]
      BY <2>1 DEF BgInit, Idle
    <2>3. proc \in [Starter -> {"none", "alive", "ok", "bad"}]  BY DEF BgInit
    <2>4. deaths \in 0..MaxDeaths /\ Len(runs) <= MaxRuns  BY RegistryAssumption DEF BgInit
    <2>5. crossed \in BOOLEAN /\ listed \subseteq Starter  BY DEF BgInit
    <2> QED  BY <2>1, <2>2, <2>3, <2>4, <2>5 DEF BgInit, BgTypeOK
  <1>2. AllTrue  BY DEF BgInit, AllTrue, Idle
  <1>3. Spawned  BY DEF BgInit, Spawned, Idle
  <1>4. OneAtATime  BY DEF BgInit, OneAtATime, HalfWay, UpToDate, Idle
  <1> QED  BY <1>1, <1>2, <1>3, <1>4 DEF ListInv, ShownTruly, KeptInv

-----------------------------------------------------------------------------

\* A command goes on with a list of true entries.
LEMMA TrueJob ==
    ASSUME ShownTruly, NEW c \in Cmd, NEW pc \in {"idle", "list", "append", "probe", "write"},
           NEW list \in Seq(Entry), \A n \in DOMAIN list : Truth(list[n])',
           command' = [command EXCEPT ![c] = [pc |-> pc, copy |-> list]],
           \A e \in Entry : Truth(e) => Truth(e)'
    PROVE  /\ command' \in [Cmd -> [pc : {"idle", "list", "append", "probe", "write"}, copy : Seq(Entry)]]
           /\ (\A d \in Cmd : \A n \in DOMAIN command[d].copy : Truth(command[d].copy[n]))'
  <1>1. command \in [Cmd -> [pc : {"idle", "list", "append", "probe", "write"}, copy : Seq(Entry)]]
    BY DEF ShownTruly, BgTypeOK
  <1>2. command' \in [Cmd -> [pc : {"idle", "list", "append", "probe", "write"}, copy : Seq(Entry)]]
    BY <1>1
  <1>3. ASSUME NEW d \in Cmd, NEW n \in DOMAIN command'[d].copy PROVE Truth(command[d].copy[n])'
    <2>1. CASE d = c
      <3>1. command'[d].copy = list  BY <1>1, <2>1
      <3> QED  BY <1>3, <3>1 DEF Truth, Ended
    <2>2. CASE d # c
      <3>1. command'[d].copy = command[d].copy  BY <1>1, <2>2
      <3>2. command[d].copy[n] \in Entry /\ Truth(command[d].copy[n])
        BY <1>1, <1>3, <3>1, ElementOfSeq, LenProperties DEF ShownTruly, AllTrue
      <3> QED  BY <3>1, <3>2 DEF Truth, Ended
    <2> QED  BY <2>1, <2>2
  <1> QED  BY <1>2, <1>3

\* The entries of a file that nobody touches.
LEMMA TrueFile ==
    ASSUME ShownTruly, registry' = registry, \A e \in Entry : Truth(e) => Truth(e)'
    PROVE  (\A n \in DOMAIN registry : Truth(registry[n]))'
  <1>1. \A n \in DOMAIN registry : registry[n] \in Entry /\ Truth(registry[n])
    BY ElementOfSeq, LenProperties DEF ShownTruly, BgTypeOK, AllTrue
  <1> QED  BY <1>1 DEF Truth, Ended

LEMMA SameProcs ==
    ASSUME UNCHANGED proc, NEW e PROVE Truth(e)' = Truth(e)
  BY DEF Truth, Ended

LEMMA TypedJobs ==
    ASSUME ShownTruly
    PROVE  /\ registry \in Seq(Entry)
           /\ proc \in [Starter -> {"none", "alive", "ok", "bad"}]
           /\ command \in [Cmd -> [pc : {"idle", "list", "append", "probe", "write"}, copy : Seq(Entry)]]
           /\ \A c \in Cmd : command[c].copy \in Seq(Entry)
           /\ Starter \subseteq Cmd /\ Viewer \subseteq Cmd
  BY DEF ShownTruly, BgTypeOK, Cmd

\* A command takes its next step and leaves the file as it is.
LEMMA KeptJob ==
    ASSUME ShownTruly, KeptInv, NEW c \in Cmd,
           NEW pc \in {"idle", "list", "append", "probe", "write"}, NEW list \in Seq(Entry),
           command' = [command EXCEPT ![c] = [pc |-> pc, copy |-> list]],
           UNCHANGED <<registry, listed>>,
           crossed => crossed',
           pc = "list" => Len(list) = 1 /\ list[1].pid = c,
           ~crossed' /\ pc \in {"append", "probe", "write"} => \A o \in Cmd \ {c} : ~HalfWay(o),
           ~crossed => UpToDate(c)'
    PROVE  KeptInv'
  <1>1. /\ command'[c] = [pc |-> pc, copy |-> list]
        /\ \A d \in Cmd : d # c => command'[d] = command[d]
    BY TypedJobs
  <1>2. Spawned'  BY <1>1 DEF KeptInv, Spawned
  <1>3. ASSUME ~crossed' PROVE OneAtATime'
    <2>1. ~crossed /\ OneAtATime  BY <1>3 DEF KeptInv
    <2>2. \A d, o \in Cmd : HalfWay(d)' /\ HalfWay(o)' => d = o
      BY <1>1, <1>3, <2>1 DEF OneAtATime, HalfWay
    <2>3. ASSUME NEW d \in Cmd PROVE UpToDate(d)'
      <3>1. CASE d = c  BY <2>1, <3>1
      <3>2. CASE d # c
        <4>1. UpToDate(d) /\ command'[d] = command[d]  BY <1>1, <2>1, <3>2 DEF OneAtATime
        <4> QED  BY <4>1 DEF UpToDate
      <3> QED  BY <3>1, <3>2
    <2> QED  BY <2>1, <2>2, <2>3 DEF OneAtATime, Pids
  <1> QED  BY <1>2, <1>3 DEF KeptInv

\* A command replaces the file by what it has.
LEMMA KeptFile ==
    ASSUME ShownTruly, KeptInv, NEW c \in Cmd, HalfWay(c), Replaces(c),
           UNCHANGED crossed,
           ~crossed /\ Len(command[c].copy) < Keep => listed' \subseteq Pids(command[c].copy)
    PROVE  KeptInv'
  <1>1. /\ registry' = command[c].copy
        /\ command'[c] = Idle
        /\ \A d \in Cmd : d # c => command'[d] = command[d]
    BY TypedJobs DEF Replaces
  <1>2. Spawned'  BY <1>1 DEF KeptInv, Spawned, Idle
  <1>3. ASSUME ~crossed' PROVE OneAtATime'
    <2>1. ~crossed /\ OneAtATime  BY <1>3 DEF KeptInv
    <2>2. \A d \in Cmd : ~HalfWay(d)'  BY <1>1, <2>1 DEF OneAtATime, HalfWay, Idle
    <2>3. \A d \in Cmd : UpToDate(d)'  BY <2>2 DEF HalfWay, UpToDate
    <2>4. Len(registry') < Keep => listed' \subseteq Pids(registry)'
      BY <1>1, <2>1 DEF Pids
    <2> QED  BY <2>2, <2>3, <2>4 DEF OneAtATime
  <1> QED  BY <1>2, <1>3 DEF KeptInv

\* What c puts in the place of the file is true as well.
LEMMA TrueReplaced ==
    ASSUME ShownTruly, NEW c \in Cmd, Replaces(c), UNCHANGED <<proc, runs, deaths>>,
           crossed' \in BOOLEAN, listed' \subseteq Starter
    PROVE  ShownTruly'
  <1>1. registry' = command[c].copy /\ command' = [command EXCEPT ![c] = [pc |-> "idle", copy |-> <<>>]]
    BY DEF Replaces, Idle
  <1>2. \A e \in Entry : Truth(e) => Truth(e)'  BY SameProcs
  <1>3. <<>> \in Seq(Entry) /\ \A n \in DOMAIN <<>> : Truth(<<>>[n])'  OBVIOUS
  <1>4. /\ command' \in [Cmd -> [pc : {"idle", "list", "append", "probe", "write"}, copy : Seq(Entry)]]
        /\ (\A d \in Cmd : \A n \in DOMAIN command[d].copy : Truth(command[d].copy[n]))'
    BY <1>1, <1>2, <1>3, TrueJob
  <1>5. (\A n \in DOMAIN registry : Truth(registry[n]))'
    BY <1>1 DEF ShownTruly, AllTrue, Truth, Ended
  <1>6. registry' \in Seq(Entry)  BY <1>1, TypedJobs
  <1> QED  BY <1>4, <1>5, <1>6 DEF ShownTruly, AllTrue, BgTypeOK

\* Nothing but a command's step changes.
LEMMA TrueStep ==
    ASSUME ShownTruly, NEW c \in Cmd, NEW pc \in {"idle", "list", "append", "probe", "write"},
           NEW list \in Seq(Entry), \A n \in DOMAIN list : Truth(list[n])',
           command' = [command EXCEPT ![c] = [pc |-> pc, copy |-> list]],
           \A e \in Entry : Truth(e) => Truth(e)',
           proc' \in [Starter -> {"none", "alive", "ok", "bad"}],
           UNCHANGED <<registry, runs, listed>>,
           crossed' \in BOOLEAN, deaths' \in 0..MaxDeaths
    PROVE  ShownTruly'
  <1>1. /\ command' \in [Cmd -> [pc : {"idle", "list", "append", "probe", "write"}, copy : Seq(Entry)]]
        /\ (\A d \in Cmd : \A n \in DOMAIN command[d].copy : Truth(command[d].copy[n]))'
    BY TrueJob
  <1>2. (\A n \in DOMAIN registry : Truth(registry[n]))'  BY TrueFile
  <1> QED  BY <1>1, <1>2 DEF ShownTruly, AllTrue, BgTypeOK

\* The processes go on; nothing of the list or the commands changes.
LEMMA TrueProcs ==
    ASSUME ListInv, \A e \in Entry : Truth(e) => Truth(e)',
           proc' \in [Starter -> {"none", "alive", "ok", "bad"}],
           runs' \in Seq(Starter \cup {Foreground}), Len(runs') <= MaxRuns,
           UNCHANGED <<registry, command, crossed, listed, deaths>>
    PROVE  ListInv'
  <1>1. (\A n \in DOMAIN registry : Truth(registry[n]))'  BY TrueFile DEF ListInv
  <1>2. ASSUME NEW d \in Cmd, NEW n \in DOMAIN command[d].copy PROVE Truth(command[d].copy[n])'
    <2>1. command[d].copy[n] \in Entry  BY TypedJobs, ElementOfSeq, LenProperties DEF ListInv
    <2>2. Truth(command[d].copy[n])  BY DEF ListInv, ShownTruly, AllTrue
    <2> QED  BY <2>1, <2>2 DEF Truth, Ended
  <1>3. ShownTruly'  BY <1>1, <1>2 DEF ListInv, ShownTruly, AllTrue, BgTypeOK
  <1>4. KeptInv'
    <2>1. Spawned'  BY DEF ListInv, KeptInv, Spawned
    <2>2. ~crossed' => OneAtATime'  BY DEF ListInv, KeptInv, OneAtATime, HalfWay, UpToDate
    <2> QED  BY <2>1, <2>2 DEF KeptInv
  <1> QED  BY <1>3, <1>4 DEF ListInv

-----------------------------------------------------------------------------

LEMMA SpawnStep == ASSUME ListInv, NEW s \in Starter, Spawn(s) PROVE ListInv'
  <1>1. UNCHANGED <<registry, runs, crossed, listed, deaths>> /\ proc[s] = "none"  BY DEF Spawn
  <1>2. PICK p \in {"alive", "bad"}, e \in Entry :
          /\ e.pid = s
          /\ e.status = "starting" \/ p = "bad"
          /\ proc' = [proc EXCEPT ![s] = p]
          /\ command' = [command EXCEPT ![s] = [pc |-> "list", copy |-> <<e>>]]
    <2>1. NewEntry(s) \in Entry
      <3>1. Len(runs) \in 0..MaxRuns  BY DEF ListInv, ShownTruly, BgTypeOK
      <3> QED  BY <3>1, RegistryAssumption DEF NewEntry, Entry
    <2>2. /\ [NewEntry(s) EXCEPT !.status = "failed"] \in Entry
          /\ [NewEntry(s) EXCEPT !.status = "failed"].pid = s
      BY <2>1 DEF NewEntry, Entry
    <2>3. NewEntry(s).pid = s /\ NewEntry(s).status = "starting"  BY DEF NewEntry
    <2> QED  BY <2>1, <2>2, <2>3 DEF Spawn
  <1> DEFINE list == <<e>>
  <1>4. /\ proc' \in [Starter -> {"none", "alive", "ok", "bad"}]
        /\ proc'[s] = p /\ \A q \in Starter : q # s => proc'[q] = proc[q]
    BY <1>2, TypedJobs DEF ListInv
  <1>5. Truth(e)'  BY <1>2, <1>4 DEF Truth, Ended
  <1>6. \A f \in Entry : Truth(f) => Truth(f)'
    <2> SUFFICES ASSUME NEW f \in Entry, Truth(f) PROVE Truth(f)'  OBVIOUS
    <2>1. f.pid \in Starter /\ f.pid # s  BY <1>1 DEF Truth, Entry
    <2> QED  BY <1>4, <2>1 DEF Truth, Ended
  <1>7. list \in Seq(Entry) /\ Len(list) = 1 /\ list[1] = e /\ DOMAIN list = {1}
    OBVIOUS
  <1>8. command' = [command EXCEPT ![s] = [pc |-> "list", copy |-> list]]  BY <1>2
  <1>9. \A n \in DOMAIN list : Truth(list[n])'  BY <1>5, <1>7 DEF Truth, Ended
  <1> HIDE DEF list
  <1>10. s \in Cmd  BY DEF Cmd
  <1>11. ShownTruly'
    <2>1. crossed' \in BOOLEAN /\ deaths' \in 0..MaxDeaths  BY <1>1 DEF ListInv, ShownTruly, BgTypeOK
    <2> QED  BY <1>1, <1>4, <1>6, <1>7, <1>8, <1>9, <1>10, <2>1, TrueStep DEF ListInv
  <1>12. KeptInv'
    <2>1. UpToDate(s)'
      <3>1. command'[s].pc = "list"  BY <1>8, <1>10, TypedJobs DEF ListInv
      <3> QED  BY <3>1 DEF UpToDate
    <2> QED  BY <1>1, <1>2, <1>7, <1>8, <1>10, <2>1, KeptJob DEF ListInv
  <1> QED  BY <1>11, <1>12 DEF ListInv

LEMMA ReadListStep == ASSUME ListInv, NEW s \in Starter, ReadList(s) PROVE ListInv'
  <1> DEFINE own == command[s].copy
             all == registry \o own
  <1>1. PICK list :
        /\ list = Newest(all)
        /\ command' = [command EXCEPT ![s] = [pc |-> "append", copy |-> list]]
        /\ crossed' = (crossed \/ \E o \in Cmd \ {s} : HalfWay(o))
        /\ UNCHANGED <<registry, proc, runs, listed, deaths>> /\ command[s].pc = "list"
    BY DEF ReadList, Reads
  <1>2. s \in Cmd /\ registry \in Seq(Entry) /\ own \in Seq(Entry)  BY TypedJobs DEF ListInv
  <1>3. Len(own) = 1 /\ own[1].pid = s  BY <1>1, <1>2 DEF ListInv, KeptInv, Spawned
  <1>4. /\ all \in Seq(Entry) /\ Len(all) = Len(registry) + 1
        /\ Len(registry) \in Nat
        /\ \A i \in 1..Len(registry) : all[i] = registry[i]
        /\ all[Len(registry) + 1] = own[1]
    <2>1. /\ all \in Seq(Entry) /\ Len(all) = Len(registry) + Len(own)
          /\ \A i \in 1..Len(registry) + Len(own) :
               all[i] = IF i <= Len(registry) THEN registry[i] ELSE own[i - Len(registry)]
      BY <1>2, ConcatProperties
    <2>2. Len(registry) \in Nat  BY <1>2
    <2> HIDE DEF all, own
    <2> QED  BY <1>3, <2>1, <2>2
  <1>5. \A n \in DOMAIN all : Truth(all[n])
    <2>1. \A n \in DOMAIN registry : Truth(registry[n])  BY DEF ListInv, ShownTruly, AllTrue
    <2>2. Truth(own[1])  BY <1>2, <1>3, LenProperties DEF ListInv, ShownTruly, AllTrue
    <2>3. DOMAIN all = 1..Len(registry) + 1 /\ DOMAIN registry = 1..Len(registry)
      BY <1>2, <1>4, LenProperties
    <2> HIDE DEF all, own
    <2> QED  BY <1>4, <2>1, <2>2, <2>3 DEF Truth, Ended
  <1>6. Pids(registry) \cup {s} \subseteq Pids(all)
    <2>1. DOMAIN all = 1..Len(registry) + 1 /\ DOMAIN registry = 1..Len(registry)
      BY <1>2, <1>4, LenProperties
    <2> HIDE DEF all, own
    <2> QED  BY <1>3, <1>4, <2>1 DEF Pids
  <1> HIDE DEF all, own
  <1>7. /\ list \in Seq(Entry)
        /\ \A n \in DOMAIN list : \E k \in DOMAIN all : list[n] = all[k]
        /\ Len(list) < Keep => list = all
    BY <1>1, <1>4, NewestOf
  <1>8. \A n \in DOMAIN list : Truth(list[n])'  BY <1>1, <1>5, <1>7 DEF Truth, Ended
  <1>9. ShownTruly'
    <2>1. crossed' \in BOOLEAN /\ deaths' \in 0..MaxDeaths /\ UNCHANGED <<registry, runs, listed>>
          /\ proc' \in [Starter -> {"none", "alive", "ok", "bad"}]
      BY <1>1 DEF ListInv, ShownTruly, BgTypeOK
    <2>2. \A e \in Entry : Truth(e) => Truth(e)'  BY <1>1, SameProcs
    <2> QED  BY <1>1, <1>2, <1>7, <1>8, <2>1, <2>2, TrueStep DEF ListInv
  <1>10. UpToDate(s)'
    <2>1. command'[s] = [pc |-> "append", copy |-> list]  BY <1>1, <1>2, TypedJobs DEF ListInv
    <2>2. Len(list) < Keep => Len(registry) < Keep /\ Pids(registry) \cup {s} \subseteq Pids(list)
      BY <1>4, <1>6, <1>7, RegistryAssumption
    <2> QED  BY <1>1, <2>1, <2>2 DEF UpToDate
  <1>11. KeptInv'  BY <1>1, <1>2, <1>7, <1>10, KeptJob DEF ListInv
  <1> QED  BY <1>9, <1>11 DEF ListInv

LEMMA ListStep == ASSUME ListInv, NEW s \in Starter, List(s) PROVE ListInv'
  <1>1. /\ command[s].pc = "append" /\ Replaces(s)
        /\ listed' = listed \cup {s}
        /\ UNCHANGED <<proc, runs, crossed, deaths>>
    BY DEF List
  <1>2. s \in Cmd /\ HalfWay(s)  BY <1>1 DEF Cmd, HalfWay
  <1>3. ShownTruly'
    <2>1. crossed' \in BOOLEAN /\ listed' \subseteq Starter  BY <1>1 DEF ListInv, ShownTruly, BgTypeOK
    <2> QED  BY <1>1, <1>2, <2>1, TrueReplaced DEF ListInv
  <1>4. ~crossed /\ Len(command[s].copy) < Keep => listed' \subseteq Pids(command[s].copy)
    BY <1>1, <1>2 DEF ListInv, KeptInv, OneAtATime, UpToDate
  <1>5. KeptInv'  BY <1>1, <1>2, <1>4, KeptFile DEF ListInv
  <1> QED  BY <1>3, <1>5 DEF ListInv

LEMMA ProcSteps ==
    ASSUME ListInv, ForegroundRun \/ \E p \in Starter : CreateRun(p) \/ End(p) PROVE ListInv'
  <1>1. /\ proc \in [Starter -> {"none", "alive", "ok", "bad"}]
        /\ runs \in Seq(Starter \cup {Foreground}) /\ Len(runs) <= MaxRuns
    BY DEF ListInv, ShownTruly, BgTypeOK
  <1>2. ASSUME NEW q \in Starter \cup {Foreground}, Create(q), UNCHANGED proc PROVE ListInv'
    <2>1. runs' \in Seq(Starter \cup {Foreground}) /\ Len(runs') <= MaxRuns
      <3>1. Len(runs) < MaxRuns /\ runs' = Append(runs, q)  BY <1>2 DEF Create
      <3>2. Len(runs') = Len(runs) + 1 /\ Len(runs) \in Nat  BY <1>1, <3>1
      <3> QED  BY <1>1, <3>1, <3>2, RegistryAssumption
    <2>2. \A e \in Entry : Truth(e) => Truth(e)'  BY <1>2, SameProcs
    <2>3. UNCHANGED <<registry, command, crossed, listed, deaths>>  BY <1>2 DEF Create
    <2> QED  BY <1>1, <1>2, <2>1, <2>2, <2>3, TrueProcs
  <1>3. ASSUME NEW p \in Starter, CreateRun(p) PROVE ListInv'
    BY <1>2, <1>3 DEF CreateRun, Create
  <1>4. CASE ForegroundRun  BY <1>2, <1>4 DEF ForegroundRun, Create
  <1>5. ASSUME NEW p \in Starter, End(p) PROVE ListInv'
    <2>1. PICK x \in {"ok", "bad"} : proc' = [proc EXCEPT ![p] = x]  BY <1>5 DEF End
    <2>2. UNCHANGED <<registry, runs, command, crossed, listed, deaths>> /\ proc[p] = "alive"
      BY <1>5 DEF End
    <2>3. \A e \in Entry : Truth(e) => Truth(e)'
      <3> SUFFICES ASSUME NEW e \in Entry, Truth(e) PROVE Truth(e)'  OBVIOUS
      <3>1. e.pid \in Starter  BY DEF Entry
      <3>2. proc'[e.pid] = IF e.pid = p THEN x ELSE proc[e.pid]  BY <1>1, <2>1, <3>1
      <3> QED  BY <3>2 DEF Truth, Ended
    <2>4. proc' \in [Starter -> {"none", "alive", "ok", "bad"}]  BY <1>1, <2>1
    <2> QED  BY <1>1, <2>2, <2>3, <2>4, TrueProcs
  <1> QED  BY <1>3, <1>4, <1>5

LEMMA ViewStarts == ASSUME ListInv, NEW v \in Viewer, View(v) PROVE ListInv'
  <1>1. PICK list :
          /\ list = registry
          /\ command' = [command EXCEPT ![v] = [pc |-> "probe", copy |-> list]]
          /\ crossed' = (crossed \/ \E o \in Cmd \ {v} : HalfWay(o))
          /\ UNCHANGED <<registry, proc, runs, listed, deaths>>
    BY DEF View, Reads
  <1>2. v \in Cmd /\ list \in Seq(Entry)  BY <1>1, TypedJobs DEF ListInv
  <1>3. ShownTruly'
    <2>1. crossed' \in BOOLEAN /\ deaths' \in 0..MaxDeaths
          /\ proc' \in [Starter -> {"none", "alive", "ok", "bad"}]
      BY <1>1 DEF ListInv, ShownTruly, BgTypeOK
    <2>2. \A e \in Entry : Truth(e) => Truth(e)'  BY <1>1, SameProcs
    <2>3. \A n \in DOMAIN list : Truth(list[n])'
      BY <1>1 DEF ListInv, ShownTruly, AllTrue, Truth, Ended
    <2> QED  BY <1>1, <1>2, <2>1, <2>2, <2>3, TrueStep DEF ListInv
  <1>4. UpToDate(v)'
    <2>1. command'[v] = [pc |-> "probe", copy |-> list]  BY <1>1, <1>2, TypedJobs DEF ListInv
    <2> QED  BY <1>1, <2>1 DEF UpToDate
  <1>5. KeptInv'  BY <1>1, <1>2, <1>4, KeptJob DEF ListInv
  <1> QED  BY <1>3, <1>5 DEF ListInv

\* What a status view makes of an entry is true again.
LEMMA Refreshed ==
    ASSUME NEW e \in Entry, Truth(e), NEW r \in 0..MaxRuns
    PROVE  /\ [e EXCEPT !.status = Status(e), !.run = r] \in Entry
           /\ [e EXCEPT !.status = Status(e), !.run = r].pid = e.pid
           /\ Truth([e EXCEPT !.status = Status(e), !.run = r])
  <1>1. e.status \in {"starting", "running", "completed", "failed"}  BY DEF Entry
  <1>2. /\ Status(e) \in {"starting", "running", "completed", "failed"}
        /\ Status(e) \in {"completed", "failed"} => proc[e.pid] # "alive"
    BY <1>1 DEF Status, Ended, Alive, Truth
  <1> DEFINE f == [e EXCEPT !.status = Status(e), !.run = r]
  <1>3. f \in Entry /\ f.pid = e.pid /\ f.status = Status(e)  BY <1>2 DEF Entry
  <1> HIDE DEF f
  <1>4. Truth(f)  BY <1>2, <1>3 DEF Truth, Ended
  <1> QED  BY <1>3, <1>4 DEF f

LEMMA ProbeStep == ASSUME ListInv, NEW v \in Viewer, Probe(v) PROVE ListInv'
  <1>1. PICK r, new, next :
          /\ r \in [DOMAIN command[v].copy -> 0..MaxRuns]
          /\ new = [n \in DOMAIN command[v].copy |->
                       [command[v].copy[n] EXCEPT !.status = Status(command[v].copy[n]), !.run = r[n]]]
          /\ next \in {[pc |-> "write", copy |-> new], Idle}
          /\ command' = [command EXCEPT ![v] = next]
    BY DEF Probe
  <1>2. command[v].pc = "probe" /\ UNCHANGED <<registry, proc, runs, crossed, listed, deaths>>
    BY DEF Probe
  <1>3. PICK old : old = command[v].copy  OBVIOUS
  <1>4. v \in Cmd /\ HalfWay(v) /\ old \in Seq(Entry)  BY <1>2, <1>3, TypedJobs DEF ListInv, HalfWay
  <1>5. DOMAIN old = 1..Len(old) /\ Len(old) \in Nat  BY <1>4, LenProperties
  <1>6. \A n \in 1..Len(old) : old[n] \in Entry /\ Truth(old[n])
    BY <1>3, <1>4, <1>5, ElementOfSeq DEF ListInv, ShownTruly, AllTrue
  <1>7. \A n \in 1..Len(old) : new[n] \in Entry /\ new[n].pid = old[n].pid /\ Truth(new[n])
    <2> SUFFICES ASSUME NEW n \in 1..Len(old)
                 PROVE  new[n] \in Entry /\ new[n].pid = old[n].pid /\ Truth(new[n])
      OBVIOUS
    <2>1. new[n] = [old[n] EXCEPT !.status = Status(old[n]), !.run = r[n]]  BY <1>1, <1>3, <1>5
    <2>2. r[n] \in 0..MaxRuns  BY <1>1, <1>3, <1>5
    <2>3. PICK e \in Entry : e = old[n] /\ Truth(e)  BY <1>6
    <2>4. PICK x \in 0..MaxRuns : x = r[n]  BY <2>2
    <2>5. new[n] = [e EXCEPT !.status = Status(e), !.run = x]  BY <2>1, <2>3, <2>4
    <2>6. /\ [e EXCEPT !.status = Status(e), !.run = x] \in Entry
          /\ [e EXCEPT !.status = Status(e), !.run = x].pid = e.pid
          /\ Truth([e EXCEPT !.status = Status(e), !.run = x])
      BY <2>3, Refreshed
    <2> QED  BY <2>3, <2>5, <2>6
  <1>8. new \in Seq(Entry) /\ DOMAIN new = 1..Len(old) /\ Len(new) = Len(old)
    <2>1. DOMAIN new = 1..Len(old)  BY <1>1, <1>3, <1>5
    <2>2. new \in [1..Len(old) -> Entry]  BY <1>1, <1>3, <1>5, <1>7
    <2> QED  BY <1>5, <2>1, <2>2
  <1>9. PICK pc \in {"idle", "list", "append", "probe", "write"}, list \in Seq(Entry) :
          /\ next = [pc |-> pc, copy |-> list]
          /\ (pc = "write" /\ list = new) \/ (pc = "idle" /\ list = <<>>)
    <2>1. CASE next = [pc |-> "write", copy |-> new]  BY <1>8, <2>1
    <2>2. CASE next = Idle
      <3>1. <<>> \in Seq(Entry)  OBVIOUS
      <3> QED  BY <2>2, <3>1 DEF Idle
    <2> QED  BY <1>1, <2>1, <2>2
  <1>10. \A n \in DOMAIN list : Truth(list[n])'
    BY <1>2, <1>7, <1>8, <1>9 DEF Truth, Ended
  <1>11. ShownTruly'
    <2>1. crossed' \in BOOLEAN /\ deaths' \in 0..MaxDeaths
          /\ proc' \in [Starter -> {"none", "alive", "ok", "bad"}]
      BY <1>2 DEF ListInv, ShownTruly, BgTypeOK
    <2>2. \A e \in Entry : Truth(e) => Truth(e)'  BY <1>2, SameProcs
    <2> QED  BY <1>1, <1>2, <1>4, <1>9, <1>10, <2>1, <2>2, TrueStep DEF ListInv
  <1>12. ~crossed => UpToDate(v)'
    <2> SUFFICES ASSUME ~crossed PROVE UpToDate(v)'  OBVIOUS
    <2>1. old = registry  BY <1>2, <1>3, <1>4 DEF ListInv, KeptInv, OneAtATime, UpToDate
    <2>2. Pids(new) = Pids(old)  BY <1>5, <1>7, <1>8 DEF Pids
    <2>3. command'[v].pc = pc /\ command'[v].copy = list  BY <1>1, <1>4, <1>9, TypedJobs DEF ListInv
    <2> QED  BY <1>2, <1>8, <1>9, <2>1, <2>2, <2>3 DEF UpToDate
  <1>13. ~crossed => \A o \in Cmd \ {v} : ~HalfWay(o)
    BY <1>4 DEF ListInv, KeptInv, OneAtATime
  <1>14. KeptInv'  BY <1>1, <1>2, <1>4, <1>9, <1>12, <1>13, KeptJob DEF ListInv
  <1> QED  BY <1>11, <1>14 DEF ListInv

LEMMA SaveStep == ASSUME ListInv, NEW v \in Viewer, Save(v) PROVE ListInv'
  <1>1. command[v].pc = "write" /\ Replaces(v) /\ UNCHANGED <<proc, runs, crossed, listed, deaths>>
    BY DEF Save
  <1>2. v \in Cmd /\ HalfWay(v)  BY <1>1 DEF Cmd, HalfWay
  <1>3. ShownTruly'
    <2>1. crossed' \in BOOLEAN /\ listed' \subseteq Starter  BY <1>1 DEF ListInv, ShownTruly, BgTypeOK
    <2> QED  BY <1>1, <1>2, <2>1, TrueReplaced DEF ListInv
  <1>4. ~crossed /\ Len(command[v].copy) < Keep => listed' \subseteq Pids(command[v].copy)
    BY <1>1, <1>2 DEF ListInv, KeptInv, OneAtATime, UpToDate
  <1>5. KeptInv'  BY <1>1, <1>2, <1>4, KeptFile DEF ListInv
  <1> QED  BY <1>3, <1>5 DEF ListInv

LEMMA DiesStep == ASSUME ListInv, NEW c \in Cmd, Dies(c) PROVE ListInv'
  <1>1. /\ command' = [command EXCEPT ![c] = [pc |-> "idle", copy |-> <<>>]]
        /\ deaths < MaxDeaths /\ deaths' = deaths + 1
        /\ UNCHANGED <<registry, proc, runs, crossed, listed>>
    BY DEF Dies, Idle
  <1>2. <<>> \in Seq(Entry) /\ \A n \in DOMAIN <<>> : Truth(<<>>[n])'  OBVIOUS
  <1>3. ShownTruly'
    <2>1. crossed' \in BOOLEAN /\ proc' \in [Starter -> {"none", "alive", "ok", "bad"}]
      BY <1>1 DEF ListInv, ShownTruly, BgTypeOK
    <2>2. \A e \in Entry : Truth(e) => Truth(e)'  BY <1>1, SameProcs
    <2>3. deaths' \in 0..MaxDeaths
      BY <1>1, RegistryAssumption DEF ListInv, ShownTruly, BgTypeOK
    <2> QED  BY <1>1, <1>2, <2>1, <2>2, <2>3, TrueStep DEF ListInv
  <1>4. UpToDate(c)'
    <2>1. command'[c].pc = "idle"  BY <1>1, TypedJobs DEF ListInv
    <2> QED  BY <2>1 DEF UpToDate
  <1>5. KeptInv'  BY <1>1, <1>2, <1>4, KeptJob DEF ListInv
  <1> QED  BY <1>3, <1>5 DEF ListInv

LEMMA ListNext == ListInv /\ [BgNext]_bgVars => ListInv'
  <1> SUFFICES ASSUME ListInv, [BgNext]_bgVars PROVE ListInv'  OBVIOUS
  <1>1. ASSUME NEW s \in Starter, Spawn(s) \/ ReadList(s) \/ List(s) \/ CreateRun(s) \/ End(s)
        PROVE  ListInv'
    BY <1>1, SpawnStep, ReadListStep, ListStep, ProcSteps
  <1>2. CASE ForegroundRun  BY <1>2, ProcSteps
  <1>3. ASSUME NEW v \in Viewer, ViewStep(v) PROVE ListInv'
    BY <1>3, ViewStarts, ProbeStep, SaveStep DEF ViewStep
  <1>4. ASSUME NEW c \in Cmd, Dies(c) PROVE ListInv'  BY <1>4, DiesStep
  <1>5. CASE UNCHANGED bgVars
    <2>1. \A e \in Entry : Truth(e) => Truth(e)'  BY <1>5, SameProcs DEF bgVars
    <2>2. /\ proc' \in [Starter -> {"none", "alive", "ok", "bad"}]
          /\ runs' \in Seq(Starter \cup {Foreground}) /\ Len(runs') <= MaxRuns
      BY <1>5 DEF bgVars, ListInv, ShownTruly, BgTypeOK
    <2> QED  BY <1>5, <2>1, <2>2, TrueProcs DEF bgVars
  <1> QED  BY <1>1, <1>2, <1>3, <1>4, <1>5 DEF BgNext

LEMMA ListAlways == BgSpec => []ListInv
  <1> QED  BY ListInit, ListNext, PTL DEF BgSpec

\* The list, the processes, the run records and what every command has read
\* keep their types (BackgroundRunRegistry).
THEOREM ListTyped == BgSpec => []BgTypeOK
  <1>1. ListInv => BgTypeOK  BY DEF ListInv, ShownTruly
  <1> QED  BY <1>1, ListAlways, PTL

\* However starts and views overwrite each other's lists, what is shown as ended
\* has ended (BackgroundRunRegistry.refresh_statuses).
THEOREM EndedAreDead == BgSpec => []EndedIsDead
  <1>1. ListInv => EndedIsDead  BY DEF ListInv, ShownTruly, AllTrue, Truth, EndedIsDead, Entries
  <1> QED  BY <1>1, ListAlways, PTL

\* A list that has room and was never read by two at once lists every process
\* that was appended to it (BackgroundRunRegistry.append_run).
THEOREM NoneForgotten == BgSpec => []NothingForgotten
  <1>1. Pids(registry) = Shown  BY DEF Pids, Shown, Entries
  <1>2. ListInv => NothingForgotten  BY <1>1 DEF ListInv, KeptInv, OneAtATime, NothingForgotten
  <1> QED  BY <1>2, ListAlways, PTL
=============================================================================
