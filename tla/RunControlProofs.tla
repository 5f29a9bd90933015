-------------------------- MODULE RunControlProofs --------------------------
(***************************************************************************)
(* Proofs about RunControl for any processes, senders and bounds.          *)
(*                                                                         *)
(* IInv: only the process that has the lock is at work, whoever had it     *)
(* when a cancel loaded the record has it still or is past its work, no     *)
(* turn is under way once one was begun under a pause request, and a        *)
(* resumed process met every request that is there.                        *)
(*                                                                         *)
(* SteerInv, for the instructions: the files of a name are in the order in *)
(* which they were made, each holds of each sender what came before the    *)
(* next file, and what was told comes before what is still to be read.     *)
(***************************************************************************)
EXTENDS RunControl, TLAPS

\* The part of the type invariant the proofs need.
ControlType ==
    /\ record \in Status
    /\ lock \in Proc \cup {NoProc}
    /\ pc \in [Proc -> Steps]
    /\ pause \in [there : BOOLEAN, turns : Nat, met : SUBSET Proc]
    /\ seen \in [Proc -> {"unread", "running", "paused", "completed"}]
    /\ over \in [Proc -> Proc \cup {NoProc}]

LockInv == \A p \in Proc : pc[p] \in AtWork \cup {"promoting"} => lock = p

\* Past everything it did under the lock.
Past == {"judging", "gone"}

\* Who was at work when cancel p loaded the record is at work still, or past
\* it; and past it once p has seen the lock free.
OverInv == \A p \in Proc : over[p] # NoProc =>
              /\ over[p] = lock \/ pc[over[p]] \in Past
              /\ pc[p] = "write" => pc[over[p]] \in Past

\* Past the boundary of a turn.
Turning == {"steer", "taking", "taken", "model"}

TurnsInv ==
    /\ ~pause.there => pause.turns = 0
    /\ pause.turns <= 1
    /\ pause.turns = 1 => \A p \in Proc : pc[p] \notin Turning

\* Processes that cleared the signal: they never see one that was there then.
Resumed(p) == \/ pc[p] \in {"cleared", "loaded"}
              \/ pc[p] \in {"want"} \cup AtWork /\ seen[p] # "unread"

MetInv == /\ \A p \in Proc : pc[p] \in {"new", "cleared"} => seen[p] = "unread"
          /\ pause.there => \A p \in Proc : Resumed(p) => p \in pause.met

IInv == ControlType /\ LockInv /\ OverInv /\ TurnsInv /\ MetInv

LEMMA InitHolds == Init => IInv
BY ControlAssumption
   DEF Init, IInv, ControlType, LockInv, OverInv, Past, TurnsInv, MetInv, Resumed,
       AtWork, Driving, InTurn, Steps, Turning, NoPause, Status

LEMMA NextHolds == IInv /\ [Next]_vars => IInv'
<1> SUFFICES ASSUME IInv, [Next]_vars PROVE IInv'
  OBVIOUS
<1> USE ControlAssumption
<1>0. CASE UNCHANGED vars
  BY <1>0 DEF IInv, ControlType, LockInv, OverInv, Past, TurnsInv, MetInv, Resumed, vars, signals
<1>1. CASE \E s \in Sender : OpenSteer(s) \/ WriteSteer(s)
  BY <1>1 DEF IInv, ControlType, LockInv, OverInv, Past, TurnsInv, MetInv, Resumed,
              OpenSteer, WriteSteer
<1>2. CASE RequestPause
  BY <1>2 DEF IInv, ControlType, LockInv, OverInv, Past, TurnsInv, MetInv, Resumed,
              AtWork, Driving, InTurn, Turning, RequestPause
<1>3. ASSUME NEW p \in Proc,
             \/ ResumeClears(p) \/ ResumeLoads(p) \/ ResumeWrites(p) \/ RunStarts(p)
             \/ FollowsUp(p) \/ CancelLoads(p) \/ CancelPolls(p) \/ CancelWrites(p) \/ Crash(p)
      PROVE  IInv'
  <2>1. CASE ResumeClears(p)
    BY <1>3, <2>1 DEF IInv, ControlType, LockInv, OverInv, Past, TurnsInv, MetInv, Resumed,
       AtWork, Driving, InTurn, Steps, Turning, NoPause, Goes, ResumeClears
  <2>2. CASE ResumeLoads(p)
    BY <1>3, <2>2 DEF IInv, ControlType, LockInv, OverInv, Past, TurnsInv, MetInv, Resumed,
       AtWork, Driving, InTurn, Steps, Turning, Goes, ResumeLoads, Found, signals
  <2>3. CASE ResumeWrites(p)
    BY <1>3, <2>3 DEF IInv, ControlType, LockInv, OverInv, Past, TurnsInv, MetInv, Resumed,
       AtWork, Driving, InTurn, Steps, Turning, Goes, ResumeWrites, Forgets, signals, Status
  <2>4. CASE RunStarts(p) \/ FollowsUp(p)
    BY <1>3, <2>4 DEF IInv, ControlType, LockInv, OverInv, Past, TurnsInv, MetInv, Resumed,
       AtWork, Driving, InTurn, Steps, Turning, Goes, RunStarts, FollowsUp, signals, Status
  <2>5. CASE CancelLoads(p) \/ CancelPolls(p) \/ CancelWrites(p)
    BY <1>3, <2>5 DEF IInv, ControlType, LockInv, OverInv, Past, TurnsInv, MetInv, Resumed,
       AtWork, Driving, InTurn, Steps, Turning, Goes, CancelLoads, CancelPolls,
       CancelWrites, signals, Status
  <2>6. CASE Crash(p)
    BY <1>3, <2>6 DEF IInv, ControlType, LockInv, OverInv, Past, TurnsInv, MetInv, Resumed,
       AtWork, Driving, InTurn, Steps, Turning, Crash, Forgets, signals
  <2> QED BY <1>3, <2>1, <2>2, <2>3, <2>4, <2>5, <2>6
<1>4. ASSUME NEW p \in Proc, Drive(p) PROVE IInv'
  <2>1. CASE Enter(p)
    BY <2>1 DEF IInv, ControlType, LockInv, OverInv, Past, TurnsInv, MetInv, Resumed,
       AtWork, Driving, InTurn, Steps, Turning, Goes, Enter, Forgets, signals
  \* Every other step is one of the process that has the lock.
  <2>2. ASSUME pc[p] \in AtWork PROVE \A q \in Proc \ {p} : pc[q] \notin AtWork
    BY <2>2 DEF IInv, LockInv
  <2>3. CASE Execute(p) \/ LoopOver(p)
    BY <2>2, <2>3 DEF IInv, ControlType, LockInv, OverInv, Past, TurnsInv, MetInv, Resumed,
       AtWork, Driving, InTurn, Steps, Turning, Goes, Execute, LoopOver, signals, Status
  <2>4. CASE Boundary(p)
    BY <2>2, <2>4 DEF IInv, ControlType, LockInv, OverInv, Past, TurnsInv, MetInv, Resumed,
       AtWork, Driving, InTurn, Steps, Turning, Goes, Boundary, signals
  <2>5. CASE TakeSteer(p) \/ ReadSteer(p) \/ DropSteer(p) \/ NoSteer(p)
    BY <2>5 DEF IInv, ControlType, LockInv, OverInv, Past, TurnsInv, MetInv, Resumed,
       AtWork, Driving, InTurn, Steps, Turning, Goes, TakeSteer, ReadSteer, DropSteer,
       NoSteer, signals
  <2>6. CASE Turn(p)
    BY <2>2, <2>6 DEF IInv, ControlType, LockInv, OverInv, Past, TurnsInv, MetInv, Resumed,
       AtWork, Driving, InTurn, Steps, Turning, Goes, Turn
  <2>7. CASE Finalize(p) \/ After(p)
    BY <2>2, <2>7 DEF IInv, ControlType, LockInv, OverInv, Past, TurnsInv, MetInv, Resumed,
       AtWork, Driving, InTurn, Steps, Turning, Goes, Finalize, After, signals, Status
  <2>8. CASE TakePause(p)
    BY <2>8 DEF IInv, ControlType, LockInv, OverInv, Past, TurnsInv, MetInv, Resumed,
       AtWork, Driving, InTurn, Steps, Turning, NoPause, Goes, TakePause
  <2>9. CASE FinalizePaused(p) \/ MarkPaused(p) \/ SeesCompleted(p) \/ AutoFinalizes(p)
    BY <2>2, <2>9 DEF IInv, ControlType, LockInv, OverInv, Past, TurnsInv, MetInv, Resumed,
       AtWork, Driving, InTurn, Steps, Turning, Goes, FinalizePaused, MarkPaused,
       SeesCompleted, AutoFinalizes, signals, Status
  <2>10. CASE Leave(p)
    BY <2>2, <2>10 DEF IInv, ControlType, LockInv, OverInv, Past, TurnsInv, MetInv, Resumed,
       AtWork, Driving, InTurn, Steps, Turning, Goes, Leave, Forgets, signals
  <2> QED BY <1>4, <2>1, <2>3, <2>4, <2>5, <2>6, <2>7, <2>8, <2>9, <2>10 DEF Drive
<1>5. ASSUME NEW p \in Proc, Judge(p) PROVE IInv'
  <2>1. CASE ReviewBegins(p) \/ ReviewEnds(p) \/ ReviewRaises(p)
    BY <2>1 DEF IInv, ControlType, LockInv, OverInv, Past, TurnsInv, MetInv, Resumed,
       AtWork, Driving, InTurn, Steps, Turning, Goes, ReviewBegins, ReviewEnds,
       ReviewRaises, signals, Status
  <2>2. CASE AcceptStarts(p) \/ AcceptPromotes(p)
    BY <2>2 DEF IInv, ControlType, LockInv, OverInv, Past, TurnsInv, MetInv, Resumed,
       AtWork, Driving, InTurn, Steps, Turning, Goes, AcceptStarts, AcceptPromotes, signals
  <2>3. CASE AcceptLands(p)
    BY <2>3 DEF IInv, ControlType, LockInv, OverInv, Past, TurnsInv, MetInv, Resumed,
       AtWork, Driving, InTurn, Steps, Turning, Goes, AcceptLands, signals
  <2>4. CASE AcceptJudges(p)
    BY <2>4 DEF IInv, ControlType, LockInv, OverInv, Past, TurnsInv, MetInv, Resumed,
       AtWork, Driving, InTurn, Steps, Turning, Goes, AcceptJudges, signals, Status
  <2>5. CASE ReplanBegins(p) \/ ReplanEnds(p)
    BY <2>5 DEF IInv, ControlType, LockInv, OverInv, Past, TurnsInv, MetInv, Resumed,
       AtWork, Driving, InTurn, Steps, Turning, Goes, ReplanBegins, ReplanEnds, signals, Status
  <2> QED BY <1>5, <2>1, <2>2, <2>3, <2>4, <2>5 DEF Judge
<1> QED BY <1>0, <1>1, <1>2, <1>3, <1>4, <1>5 DEF Next

\* The inductive invariant, from which the three properties follow.
THEOREM Inductive == Spec => []IInv
BY InitHolds, NextHolds, PTL DEF Spec

\* NoRivalSettles: between the first turn of a task and its finalizer, only a
\* command that judges the run without the lock (review, accept, replan) and a
\* cancel that loaded the record when somebody else, or nobody, was at work
\* settle it; no second driver, resume, follow-up, refused process or cancel
\* of a run that this driver was driving does.
THEOREM RivalsSettleNothing == Spec => NoRivalSettles
<1>1. IInv /\ [Next]_vars =>
        [record' \notin {record, "running"} =>
          \A p \in Proc : Driven(p) /\ Driven(p)' =>
            \E q \in Proc : /\ pc'[q] # pc[q]
                            /\ \/ pc[q] \in {"reviewing", "judging", "replanning"}
                               \/ pc[q] = "write" /\ over[q] # p]_vars
  <2> SUFFICES ASSUME IInv, Next, record' \notin {record, "running"},
                      NEW p \in Proc, Driven(p), Driven(p)'
               PROVE  \E q \in Proc : /\ pc'[q] # pc[q]
                                      /\ \/ pc[q] \in {"reviewing", "judging", "replanning"}
                                         \/ pc[q] = "write" /\ over[q] # p
    OBVIOUS
  <2>1. PICK q \in Proc :
          \/ ResumeWrites(q) \/ FollowsUp(q) \/ Execute(q) \/ LoopOver(q) \/ Finalize(q)
          \/ After(q) \/ FinalizePaused(q) \/ MarkPaused(q) \/ AutoFinalizes(q)
          \/ CancelWrites(q) \/ ReviewBegins(q) \/ ReviewEnds(q) \/ AcceptJudges(q)
          \/ ReplanEnds(q)
    BY DEF Next, Drive, Judge, ResumeClears, ResumeLoads, RunStarts, Enter, Boundary,
       TakeSteer, ReadSteer, DropSteer, NoSteer, Turn, TakePause, SeesCompleted, Leave,
       CancelLoads, CancelPolls, ReviewRaises, AcceptStarts, AcceptPromotes, AcceptLands,
       ReplanBegins, Crash, OpenSteer, WriteSteer, RequestPause
  \* These write only that it is running.
  <2>2. CASE ResumeWrites(q) \/ FollowsUp(q) \/ Execute(q) \/ ReviewBegins(q)
    BY <2>2 DEF ResumeWrites, FollowsUp, Execute, ReviewBegins
  \* The one at work is p itself, and none of these steps begins and ends driven.
  <2>3. CASE \/ LoopOver(q) \/ Finalize(q) \/ After(q) \/ FinalizePaused(q)
             \/ MarkPaused(q) \/ AutoFinalizes(q)
    <3>1. pc[q] \in AtWork /\ pc[p] \in AtWork
      BY <2>3 DEF Goes, LoopOver, Finalize, After, FinalizePaused, MarkPaused,
         AutoFinalizes, Driven, AtWork, Driving, InTurn
    <3>2. p = q
      BY <3>1 DEF IInv, LockInv
    <3> QED BY <2>3, <3>2 DEF Goes, LoopOver, Finalize, After, FinalizePaused, MarkPaused,
         AutoFinalizes, Driven, InTurn, IInv, ControlType
  <2>4. CASE CancelWrites(q)
    <3>1. pc[q] = "write" /\ pc'[q] = "gone"
      BY <2>4 DEF CancelWrites, Goes, IInv, ControlType
    <3>2. pc[p] \notin Past /\ p # NoProc
      BY ControlAssumption DEF Driven, InTurn, Past
    <3> QED BY <3>1, <3>2 DEF IInv, OverInv
  <2>5. CASE ReviewEnds(q) \/ AcceptJudges(q) \/ ReplanEnds(q)
    BY <2>5 DEF ReviewEnds, AcceptJudges, ReplanEnds, Goes, IInv, ControlType
  <2> QED BY <2>1, <2>2, <2>3, <2>4, <2>5
<1> QED BY <1>1, Inductive, PTL DEF Spec, NoRivalSettles

\* PauseInTime: after a request at most one turn is begun.
THEOREM PauseTakes == Spec => []PauseInTime
<1>1. IInv => PauseInTime
  BY DEF IInv, TurnsInv, PauseInTime
<1> QED BY <1>1, Inductive, PTL

\* PauseIsFresh: at a boundary, a resumed process sees only requests it met.
THEOREM PauseFresh == Spec => PauseIsFresh
<1>1. IInv /\ [Next]_vars =>
        [\A p \in Proc :
           pc[p] = "boundary" /\ pc'[p] = "pausing" /\ seen[p] # "unread"
             => p \in pause.met]_vars
  <2> SUFFICES ASSUME IInv, Next, NEW p \in Proc,
                      pc[p] = "boundary", pc'[p] = "pausing", seen[p] # "unread"
               PROVE  p \in pause.met
    OBVIOUS
  <2>1. Resumed(p)
    BY DEF Resumed, AtWork, Driving, InTurn
  <2>2. pause.there
    <3>1. PICK q \in Proc : Drive(q) \/ ResumeClears(q) \/ ResumeLoads(q)
            \/ ResumeWrites(q) \/ RunStarts(q) \/ FollowsUp(q) \/ CancelLoads(q)
            \/ CancelPolls(q) \/ CancelWrites(q) \/ Crash(q) \/ Judge(q)
      BY DEF Next, OpenSteer, WriteSteer, RequestPause
    <3>2. CASE Boundary(q)
      BY <3>2 DEF Boundary, Goes, IInv, ControlType
    <3> QED
      BY <3>1, <3>2 DEF IInv, ControlType, Goes, Drive, ResumeClears, ResumeLoads,
         ResumeWrites, RunStarts, FollowsUp, CancelLoads, CancelPolls, CancelWrites, Crash,
         Enter, Execute, LoopOver, TakeSteer, ReadSteer, DropSteer, NoSteer, Turn, Finalize,
         After, TakePause, FinalizePaused, MarkPaused, SeesCompleted, AutoFinalizes, Leave,
         Judge, ReviewBegins, ReviewEnds, ReviewRaises, AcceptStarts, AcceptPromotes,
         AcceptLands, AcceptJudges, ReplanBegins, ReplanEnds
  <2> QED BY <2>1, <2>2 DEF IInv, MetInv
<1> QED BY <1>1, Inductive, PTL DEF Spec, PauseIsFresh

-----------------------------------------------------------------------------
(***************************************************************************)
(* SteersInOrder.  A sender appends to the file it opened, whatever became  *)
(* of its name, so what it wrote is spread over files.  SteerInv: the       *)
(* newest file is the only one that can be called steer.request; of one     *)
(* sender, older files hold older instructions; and what the model has      *)
(* heard is older than what a file that is still to be read holds.          *)
(***************************************************************************)

\* Everything the queue u says, its sender said before what it says in v.
Before(u, v) == \A i \in DOMAIN u, j \in DOMAIN v :
                    u[i][1] = v[j][1] => u[i][2] < v[j][2]

InOrder(u) == \A i, j \in DOMAIN u : i < j /\ u[i][1] = u[j][1] => u[i][2] < u[j][2]

\* Said, and not more than was sent.
Said(u, n) == \A i \in DOMAIN u : u[i][2] <= n[u[i][1]]

SilentIn(s, u) == \A i \in DOMAIN u : u[i][1] # s

SteerType ==
    /\ content \in Seq(Seq(Instruction))
    /\ path \in File \cup {0}
    /\ taking \in File \cup {0}
    /\ fd \in [Sender -> File \cup {0}]
    /\ sent \in [Sender -> 0..MaxSteers]
    /\ told \in Seq(Instruction)
    /\ pauses \in 0..MaxPauses
    /\ crashes \in 0..MaxCrashes
    /\ \A s \in Sender : fd[s] # 0 => sent[s] < MaxSteers

PlaceInv ==
    /\ path # 0 => path = Len(content)
    /\ taking # 0 /\ path # 0 => taking < path
    /\ \A p \in Proc : pc[p] = "taking" => taking # 0

FilesInv ==
    /\ \A f \in File : InOrder(content[f]) /\ Said(content[f], sent)
    /\ \A f, g \in File : f < g => Before(content[f], content[g])

\* Files younger than the one a sender has open hold nothing of it.
HandleInv == \A s \in Sender : fd[s] # 0 =>
                \A g \in File : fd[s] < g => SilentIn(s, content[g])

Unread(f) == \/ f = path
             \/ f = taking /\ (\E p \in Proc : pc[p] = "taking")

ToldInv == /\ InOrder(told) /\ Said(told, sent)
           /\ \A f \in File : Unread(f) => Before(told, content[f])

SteerInv == SteerType /\ PlaceInv /\ FilesInv /\ HandleInv /\ ToldInv

(* What is appended comes last.                                            *)
LEMMA Appended ==
    ASSUME NEW u \in Seq(Instruction), NEW e \in Instruction
    PROVE  /\ Append(u, e) \in Seq(Instruction)
           /\ \A i \in DOMAIN Append(u, e) :
                \/ i \in DOMAIN u /\ Append(u, e)[i] = u[i]
                \/ i = Len(u) + 1 /\ Append(u, e)[i] = e
           /\ \A i \in DOMAIN u : i \in Nat /\ i < Len(u) + 1
BY DEF Instruction

(* A joined queue is the one and then the other.                           *)
LEMMA Joined ==
    ASSUME NEW u \in Seq(Instruction), NEW v \in Seq(Instruction)
    PROVE  /\ u \o v \in Seq(Instruction)
           /\ \A i \in DOMAIN (u \o v) :
                \/ i \in DOMAIN u /\ (u \o v)[i] = u[i]
                \/ i - Len(u) \in DOMAIN v /\ (u \o v)[i] = v[i - Len(u)] /\ i > Len(u)
           /\ \A i \in DOMAIN u : i \in Nat /\ i <= Len(u)
           /\ Len(u) \in Nat /\ DOMAIN (u \o v) \subseteq Nat
<1>1. u \o v \in Seq(Instruction) /\ Len(u) \in Nat /\ Len(v) \in Nat
  OBVIOUS
<1>2. DOMAIN u = 1..Len(u) /\ DOMAIN v = 1..Len(v) /\ DOMAIN (u \o v) = 1..Len(u) + Len(v)
  OBVIOUS
<1>3. ASSUME NEW i \in 1..Len(u) + Len(v)
      PROVE  (u \o v)[i] = IF i <= Len(u) THEN u[i] ELSE v[i - Len(u)]
  BY <1>3
<1> QED BY <1>1, <1>2, <1>3

LEMMA JoinedInOrder ==
    ASSUME NEW u \in Seq(Instruction), NEW v \in Seq(Instruction),
           InOrder(u), InOrder(v), Before(u, v)
    PROVE  InOrder(u \o v)
<1> DEFINE w == u \o v
<1> SUFFICES ASSUME NEW i \in DOMAIN w, NEW j \in DOMAIN w, i < j, w[i][1] = w[j][1]
             PROVE  w[i][2] < w[j][2]
  BY DEF InOrder
<1>1. ASSUME NEW k \in DOMAIN w
      PROVE  \/ k \in DOMAIN u /\ w[k] = u[k] /\ k <= Len(u)
             \/ k - Len(u) \in DOMAIN v /\ w[k] = v[k - Len(u)] /\ k > Len(u)
  BY Joined
<1>3. Len(u) \in Nat /\ i \in Nat /\ j \in Nat
  BY Joined
<1> HIDE DEF w
<1>2. i - Len(u) < j - Len(u)
  BY <1>3
<1>4. CASE i \in DOMAIN u /\ w[i] = u[i] /\ j \in DOMAIN u /\ w[j] = u[j]
  BY <1>4 DEF InOrder
<1>5. CASE i \in DOMAIN u /\ w[i] = u[i] /\ j - Len(u) \in DOMAIN v /\ w[j] = v[j - Len(u)]
  BY <1>5 DEF Before
<1>6. CASE /\ i - Len(u) \in DOMAIN v /\ w[i] = v[i - Len(u)]
           /\ j - Len(u) \in DOMAIN v /\ w[j] = v[j - Len(u)]
  BY <1>2, <1>6 DEF InOrder
<1>7. CASE i > Len(u) /\ j <= Len(u)
  BY <1>3, <1>7
<1> QED BY <1>1, <1>4, <1>5, <1>6, <1>7

(* Nothing that happens outside the files of steer.request disturbs them.  *)
LEMMA Bystander ==
    ASSUME SteerInv, UNCHANGED steering, pauses' \in 0..MaxPauses,
           crashes' \in 0..MaxCrashes,
           \A p \in Proc : pc'[p] = "taking" => pc[p] = "taking"
    PROVE  SteerInv'
<1>1. SteerType'
  BY DEF SteerInv, SteerType, steering, File
<1>2. PlaceInv'
  BY DEF SteerInv, PlaceInv, steering
<1>3. FilesInv' /\ HandleInv'
  BY DEF SteerInv, FilesInv, HandleInv, steering, File
<1>4. \A f \in File : Unread(f)' => Unread(f)
  BY DEF Unread, steering
<1>5. ToldInv'
  BY <1>4 DEF SteerInv, ToldInv, steering, File
<1> QED BY <1>1, <1>2, <1>3, <1>5 DEF SteerInv

LEMMA SteerInit == Init => SteerInv
BY ControlAssumption
   DEF Init, SteerInv, SteerType, PlaceInv, FilesInv, HandleInv, ToldInv, InOrder,
       Said, Before, File, Unread

LEMMA TakeSteerKeeps ==
    ASSUME IInv, SteerInv, NEW p \in Proc, TakeSteer(p)
    PROVE  SteerInv'
<1>1. UNCHANGED <<content, fd, sent, told, pauses, crashes>> /\ path \in File
  BY DEF TakeSteer, SteerInv, SteerType
<1>2. SteerType'
  BY <1>1 DEF TakeSteer, SteerInv, SteerType, File
<1>3. PlaceInv'
  BY <1>1, <1>2 DEF TakeSteer, SteerInv, PlaceInv, Goes, File, SteerType, IInv, ControlType
<1>4. FilesInv' /\ HandleInv'
  BY <1>1 DEF SteerInv, FilesInv, HandleInv, File
<1>5. \A f \in File : Unread(f)' => f = path
  BY DEF TakeSteer, Unread, File, SteerInv, SteerType
<1>6. ToldInv'
  BY <1>1, <1>5 DEF SteerInv, ToldInv, File, Unread
<1> QED BY <1>2, <1>3, <1>4, <1>6 DEF SteerInv

LEMMA ReadSteerKeeps ==
    ASSUME IInv, SteerInv, NEW p \in Proc, ReadSteer(p)
    PROVE  SteerInv'
<1>1. /\ UNCHANGED <<path, taking, content, fd, sent, pauses, crashes>>
      /\ pc[p] = "taking" /\ taking \in File
  BY DEF ReadSteer, SteerInv, SteerType, PlaceInv, Goes
<1>2. PICK u \in Seq(Instruction), v \in Seq(Instruction) :
        /\ u = told /\ v = content[taking] /\ told' = u \o v
        /\ InOrder(u) /\ InOrder(v) /\ Before(u, v) /\ Said(u, sent) /\ Said(v, sent)
  <2>1. content[taking] \in Seq(Instruction) /\ told \in Seq(Instruction)
    BY <1>1 DEF SteerInv, SteerType, File
  <2>2. Unread(taking)
    BY <1>1 DEF Unread
  <2> QED BY <1>1, <2>1, <2>2 DEF ReadSteer, SteerInv, FilesInv, ToldInv
<1>3. SteerType'
  BY <1>1, <1>2 DEF SteerInv, SteerType, File
<1>4. PlaceInv'
  BY <1>1 DEF ReadSteer, SteerInv, PlaceInv, Goes, IInv, ControlType
<1>5. FilesInv' /\ HandleInv'
  BY <1>1 DEF SteerInv, FilesInv, HandleInv, File
<1>6. \A q \in Proc : pc'[q] # "taking"
  BY <1>1 DEF ReadSteer, Goes, IInv, ControlType, LockInv, AtWork, Driving, InTurn
<1>7. InOrder(told')
  BY <1>2, JoinedInOrder
<1>8. Said(told', sent')
  BY <1>1, <1>2, Joined DEF Said
<1>9. ASSUME NEW f \in File, Unread(f)' PROVE Before(told', content'[f])
  <2>1. f = path /\ taking < path /\ path \in File
    BY <1>1, <1>6, <1>9 DEF Unread, SteerInv, PlaceInv, File, SteerType
  <2>2. Before(u, content[f]) /\ Before(v, content[f])
    BY <1>1, <1>2, <2>1 DEF SteerInv, ToldInv, Unread, FilesInv
  <2>3. PICK w : w = content[f] /\ Before(u, w) /\ Before(v, w)
    BY <2>2
  <2>4. Before(u \o v, w)
    <3> SUFFICES ASSUME NEW i \in DOMAIN (u \o v), NEW j \in DOMAIN w,
                        (u \o v)[i][1] = w[j][1]
                 PROVE  (u \o v)[i][2] < w[j][2]
      BY DEF Before
    <3>1. \/ i \in DOMAIN u /\ (u \o v)[i] = u[i]
          \/ i - Len(u) \in DOMAIN v /\ (u \o v)[i] = v[i - Len(u)]
      BY Joined
    <3> QED BY <2>3, <3>1 DEF Before
  <2> QED BY <1>1, <1>2, <2>3, <2>4
<1>10. ToldInv'
  BY <1>1, <1>7, <1>8, <1>9 DEF ToldInv, File
<1> QED BY <1>3, <1>4, <1>5, <1>10 DEF SteerInv

LEMMA DropSteerKeeps ==
    ASSUME IInv, SteerInv, NEW p \in Proc, DropSteer(p)
    PROVE  SteerInv'
<1>1. UNCHANGED <<path, content, fd, sent, told, pauses, crashes>>
  BY DEF DropSteer
<1>2. SteerType'
  BY <1>1 DEF DropSteer, SteerInv, SteerType, File
<1>3. PlaceInv'
  BY <1>1 DEF DropSteer, SteerInv, PlaceInv, Goes, IInv, ControlType, LockInv, AtWork,
              Driving, InTurn
<1>4. FilesInv' /\ HandleInv'
  BY <1>1 DEF SteerInv, FilesInv, HandleInv, File
<1>5. \A f \in File : Unread(f)' => f = path
  BY <1>1 DEF DropSteer, Unread, File
<1>6. ToldInv'
  BY <1>1, <1>5 DEF SteerInv, ToldInv, File, Unread
<1> QED BY <1>2, <1>3, <1>4, <1>6 DEF SteerInv

LEMMA OpenSteerKeeps ==
    ASSUME SteerInv, NEW s \in Sender, OpenSteer(s)
    PROVE  SteerInv'
<1>1. UNCHANGED <<pc, taking, sent, told, pauses, crashes>>
  BY DEF OpenSteer
<1>2. CASE path = 0
  <2> DEFINE n == Len(content)
  <2>1. /\ n \in Nat /\ content' = Append(content, <<>>) /\ path' = n + 1
        /\ fd' = [fd EXCEPT ![s] = n + 1] /\ sent[s] < MaxSteers
    BY <1>2 DEF OpenSteer, SteerInv, SteerType
  <2>2. /\ content' \in Seq(Seq(Instruction)) /\ Len(content') = n + 1
        /\ content'[n + 1] = <<>>
        /\ \A f \in 1..n : content'[f] = content[f]
    BY <2>1 DEF SteerInv, SteerType
  <2> HIDE DEF n
  <2>3. File = 1..n /\ File' = 1..n + 1
    BY <2>2 DEF File, n
  <2>4. SteerType'
    <3>1. path' \in File' /\ taking' \in File' \cup {0} /\ fd' \in [Sender -> File' \cup {0}]
      BY <1>1, <2>1, <2>3 DEF SteerInv, SteerType
    <3> QED BY <1>1, <2>1, <2>2, <3>1 DEF SteerInv, SteerType
  <2>5. PlaceInv'
    BY <1>1, <2>1, <2>2, <2>3 DEF SteerInv, PlaceInv, SteerType
  <2>6. FilesInv'
    BY <1>1, <2>1, <2>2, <2>3 DEF SteerInv, FilesInv, InOrder, Said, Before
  <2>7. HandleInv'
    BY <1>1, <2>1, <2>2, <2>3 DEF SteerInv, SteerType, HandleInv, SilentIn
  <2>8. ASSUME NEW f \in File', Unread(f)' PROVE Before(told', content'[f])
    <3>1. CASE f = n + 1
      BY <3>1, <2>2 DEF Before
    <3>2. CASE f # n + 1
      <4>1. f \in File /\ Unread(f) /\ content'[f] = content[f]
        BY <1>1, <2>1, <2>2, <2>3, <2>8, <3>2 DEF Unread
      <4> QED BY <1>1, <4>1 DEF SteerInv, ToldInv
    <3> QED BY <3>1, <3>2
  <2>9. ToldInv'
    BY <1>1, <2>8 DEF SteerInv, ToldInv
  <2> QED BY <2>4, <2>5, <2>6, <2>7, <2>9 DEF SteerInv
<1>3. CASE path # 0
  <2>1. /\ UNCHANGED <<content, path>> /\ fd' = [fd EXCEPT ![s] = path]
        /\ sent[s] < MaxSteers /\ path = Len(content) /\ path \in File /\ path \in Nat
    BY <1>3 DEF OpenSteer, SteerInv, SteerType, PlaceInv, File
  <2>2. SteerType'
    BY <1>1, <2>1 DEF SteerInv, SteerType, File
  <2>3. PlaceInv' /\ FilesInv' /\ ToldInv'
    BY <1>1, <2>1 DEF SteerInv, PlaceInv, FilesInv, ToldInv, File, Unread
  <2>4. HandleInv'
    <3>1. \A g \in File : ~(path < g)
      BY <2>1 DEF File
    <3> QED BY <1>1, <2>1, <3>1 DEF SteerInv, SteerType, HandleInv, File
  <2> QED BY <2>2, <2>3, <2>4 DEF SteerInv
<1> QED BY <1>2, <1>3

(* What a sender writes is the youngest of its instructions, in whatever   *)
(* file, and the files after the one it has open hold none of them.        *)
LEMMA WriteSteerKeeps ==
    ASSUME SteerInv, NEW s \in Sender, WriteSteer(s)
    PROVE  SteerInv'
<1> DEFINE n == sent[s] + 1
           e == <<s, n>>
<1>1. /\ UNCHANGED <<pc, path, taking, told, pauses, crashes>>
      /\ sent' = [sent EXCEPT ![s] = n] /\ fd' = [fd EXCEPT ![s] = 0]
  BY DEF WriteSteer
<1>2. n \in 1..MaxSteers /\ n \in Nat /\ e \in Instruction /\ e[1] = s /\ e[2] = n /\ sent[s] < n
  BY ControlAssumption DEF WriteSteer, SteerInv, SteerType, Instruction
<1>3. PICK h \in File : h = fd[s]
  BY DEF WriteSteer, SteerInv, SteerType
<1>4. PICK u \in Seq(Instruction) : u = content[h]
  BY <1>3 DEF SteerInv, SteerType, File
<1>5. content' = [content EXCEPT ![h] = Append(u, e)]
  BY <1>3, <1>4 DEF WriteSteer
<1> HIDE DEF n, e
<1>6. /\ content' \in Seq(Seq(Instruction)) /\ Len(content') = Len(content)
      /\ content'[h] = Append(u, e)
      /\ \A f \in File : f # h => content'[f] = content[f]
  <2>1. Append(u, e) \in Seq(Instruction)
    BY <1>2, <1>4
  <2>2. content \in Seq(Seq(Instruction)) /\ h \in 1..Len(content)
    BY DEF SteerInv, SteerType, File
  <2> QED BY ONLY <1>5, <2>1, <2>2 DEF File
<1>7. File' = File /\ File \subseteq Nat
  BY <1>6 DEF File
<1>8. \A t \in Sender : sent'[t] \in Nat /\ sent[t] \in Nat /\ sent[t] <= sent'[t]
  BY <1>1, <1>2, ControlAssumption DEF SteerInv, SteerType
<1>9. sent'[s] = n
  BY <1>1 DEF SteerInv, SteerType
\* An instruction of the files as they are now is an old one or the new one.
<1>10. ASSUME NEW f \in File
       PROVE  /\ content[f] \in Seq(Instruction) /\ content'[f] \in Seq(Instruction)
              /\ \A i \in DOMAIN content'[f] :
                   \/ i \in DOMAIN content[f] /\ content'[f][i] = content[f][i]
                   \/ f = h /\ i = Len(content[f]) + 1 /\ content'[f][i] = e
              /\ \A i \in DOMAIN content[f] :
                    /\ i \in Nat /\ i < Len(content[f]) + 1
                    /\ content[f][i] \in Instruction
  <2>1. content[f] \in Seq(Instruction) /\ content'[f] \in Seq(Instruction)
    BY <1>6, <1>7 DEF SteerInv, SteerType, File
  <2>2. CASE f = h
    <3>1. content[f] = u /\ content'[f] = Append(u, e) /\ u \in Seq(Instruction)
      BY <1>4, <1>6, <2>2
    <3>2. \A i \in DOMAIN Append(u, e) :
            \/ i \in DOMAIN u /\ Append(u, e)[i] = u[i]
            \/ i = Len(u) + 1 /\ Append(u, e)[i] = e
      BY <1>2, Appended
    <3>3. \A i \in DOMAIN u : i \in Nat /\ i < Len(u) + 1 /\ u[i] \in Instruction
      BY <3>1
    <3>4. Append(u, e) \in Seq(Instruction)
      BY <1>2, Appended
    <3> QED BY ONLY <2>2, <3>1, <3>2, <3>3, <3>4
  <2>3. CASE f # h
    <3>1. content'[f] = content[f]
      BY <1>6, <2>3
    <3> QED BY <2>1, <2>3, <3>1
  <2> QED BY <2>2, <2>3
<1>11. \A f \in File : \A i \in DOMAIN content[f] :
          /\ content[f][i][1] \in Sender /\ content[f][i][2] \in Nat
          /\ content[f][i][2] <= sent[content[f][i][1]]
  BY <1>10 DEF SteerInv, FilesInv, Said, Instruction
<1>12. SteerType'
  <2>1. sent' \in [Sender -> 0..MaxSteers]
    BY <1>1, <1>2 DEF SteerInv, SteerType
  <2>2. fd' \in [Sender -> File' \cup {0}]
    BY <1>1, <1>7 DEF SteerInv, SteerType
  <2>3. \A t \in Sender : fd'[t] # 0 => sent'[t] < MaxSteers
    BY <1>1 DEF SteerInv, SteerType
  <2> QED BY <1>1, <1>6, <1>7, <2>1, <2>2, <2>3 DEF SteerInv, SteerType
<1>13. PlaceInv'
  BY <1>1, <1>6 DEF SteerInv, PlaceInv
<1>14. ASSUME NEW f \in File PROVE InOrder(content'[f]) /\ Said(content'[f], sent')
  <2>1. InOrder(content[f]) /\ Said(content[f], sent)
    BY DEF SteerInv, FilesInv
  <2>2. InOrder(content'[f])
    <3> SUFFICES ASSUME NEW i \in DOMAIN content'[f], NEW j \in DOMAIN content'[f], i < j,
                        content'[f][i][1] = content'[f][j][1]
                 PROVE  content'[f][i][2] < content'[f][j][2]
      BY DEF InOrder
    <3>1. /\ \/ i \in DOMAIN content[f] /\ content'[f][i] = content[f][i]
             \/ f = h /\ i = Len(content[f]) + 1 /\ content'[f][i] = e
          /\ \/ j \in DOMAIN content[f] /\ content'[f][j] = content[f][j]
             \/ f = h /\ j = Len(content[f]) + 1 /\ content'[f][j] = e
          /\ i \in Nat /\ j \in Nat
      BY <1>10
    <3>2. CASE i \in DOMAIN content[f] /\ content'[f][i] = content[f][i]
      <4>1. CASE j \in DOMAIN content[f] /\ content'[f][j] = content[f][j]
        BY <2>1, <3>2, <4>1 DEF InOrder
      <4>2. CASE content'[f][j] = e
        BY <1>2, <1>8, <1>11, <3>2, <4>2
      <4> QED BY <3>1, <4>1, <4>2
    <3>3. CASE i = Len(content[f]) + 1
      BY <1>10, <3>1, <3>3
    <3> QED BY <3>1, <3>2, <3>3
  <2>3. Said(content'[f], sent')
    <3> SUFFICES ASSUME NEW i \in DOMAIN content'[f]
                 PROVE  content'[f][i][2] <= sent'[content'[f][i][1]]
      BY DEF Said
    <3>1. CASE i \in DOMAIN content[f] /\ content'[f][i] = content[f][i]
      BY <1>8, <1>11, <3>1
    <3>2. CASE content'[f][i] = e
      BY <1>2, <1>9, <3>2
    <3> QED BY <1>10, <3>1, <3>2
  <2> QED BY <2>2, <2>3
<1>15. ASSUME NEW f \in File, NEW g \in File, f < g PROVE Before(content'[f], content'[g])
  <2>1. Before(content[f], content[g])
    BY <1>15 DEF SteerInv, FilesInv
  <2>2. f = h => SilentIn(s, content[g]) /\ g # h
    <3>1. h # 0 /\ (f = h => h < g /\ g # h)
      BY <1>7, <1>15 DEF File
    <3> QED BY <1>3, <3>1 DEF SteerInv, HandleInv
  <2> SUFFICES ASSUME NEW i \in DOMAIN content'[f], NEW j \in DOMAIN content'[g],
                      content'[f][i][1] = content'[g][j][1]
               PROVE  content'[f][i][2] < content'[g][j][2]
    BY DEF Before
  <2>3. CASE f = h /\ content'[f][i] = e
    <3>1. j \in DOMAIN content[g] /\ content'[g][j] = content[g][j]
      BY <1>10, <2>2, <2>3
    <3> QED BY <1>2, <2>2, <2>3, <3>1 DEF SilentIn
  <2>4. CASE i \in DOMAIN content[f] /\ content'[f][i] = content[f][i]
    <3>1. CASE j \in DOMAIN content[g] /\ content'[g][j] = content[g][j]
      BY <2>1, <2>4, <3>1 DEF Before
    <3>2. CASE content'[g][j] = e
      BY <1>2, <1>8, <1>11, <2>4, <3>2
    <3> QED BY <1>10, <3>1, <3>2
  <2> QED BY <1>10, <2>3, <2>4
<1>16. FilesInv'
  BY <1>7, <1>14, <1>15 DEF FilesInv
<1>17. HandleInv'
  <2> SUFFICES ASSUME NEW t \in Sender, fd'[t] # 0, NEW g \in File, fd'[t] < g
               PROVE  SilentIn(t, content'[g])
    BY <1>7 DEF HandleInv
  <2>1. t # s /\ fd'[t] = fd[t]
    BY <1>1 DEF SteerInv, SteerType
  <2>2. SilentIn(t, content[g])
    BY <2>1 DEF SteerInv, HandleInv
  <2> QED BY <1>2, <1>10, <2>1, <2>2 DEF SilentIn
<1>18. ToldInv'
  <2>1. Said(told, sent) /\ \A i \in DOMAIN told : told[i] \in Instruction
    BY DEF SteerInv, ToldInv, SteerType
  <2>2. \A i \in DOMAIN told : told[i][1] \in Sender /\ told[i][2] \in Nat
                                  /\ told[i][2] <= sent[told[i][1]]
    BY <2>1 DEF Said, Instruction
  <2>3. Said(told', sent')
    BY <1>1, <1>8, <2>2 DEF Said
  <2>4. ASSUME NEW f \in File, Unread(f)' PROVE Before(told', content'[f])
    <3>1. Before(told, content[f])
      BY <1>1, <2>4 DEF SteerInv, ToldInv, Unread
    <3> SUFFICES ASSUME NEW i \in DOMAIN told, NEW j \in DOMAIN content'[f],
                        told[i][1] = content'[f][j][1]
                 PROVE  told[i][2] < content'[f][j][2]
      BY <1>1 DEF Before
    <3>2. CASE j \in DOMAIN content[f] /\ content'[f][j] = content[f][j]
      BY <3>1, <3>2 DEF Before
    <3>3. CASE content'[f][j] = e
      BY <1>2, <1>8, <2>2, <3>3
    <3> QED BY <1>10, <3>2, <3>3
  <2> QED BY <1>1, <1>7, <2>3, <2>4 DEF SteerInv, ToldInv
<1> QED BY <1>12, <1>13, <1>16, <1>17, <1>18 DEF SteerInv

LEMMA SteerNext == IInv /\ SteerInv /\ [Next]_vars => SteerInv'
<1> SUFFICES ASSUME IInv, SteerInv, [Next]_vars PROVE SteerInv'
  OBVIOUS
<1>1. CASE \E p \in Proc : TakeSteer(p) \/ ReadSteer(p) \/ DropSteer(p)
  BY <1>1, TakeSteerKeeps, ReadSteerKeeps, DropSteerKeeps
<1>2. CASE \E s \in Sender : OpenSteer(s) \/ WriteSteer(s)
  BY <1>2, OpenSteerKeeps, WriteSteerKeeps
<1>3. CASE RequestPause
  <2>1. pauses' \in 0..MaxPauses
    BY <1>3, ControlAssumption DEF RequestPause, SteerInv, SteerType
  <2>2. UNCHANGED steering /\ crashes' \in 0..MaxCrashes /\ UNCHANGED pc
    BY <1>3 DEF RequestPause, SteerInv, SteerType
  <2> QED BY <2>1, <2>2, Bystander
<1>4. ASSUME NEW p \in Proc, Crash(p) PROVE SteerInv'
  <2>1. crashes' \in 0..MaxCrashes
    BY <1>4, ControlAssumption DEF Crash, SteerInv, SteerType
  <2>2. UNCHANGED steering /\ pauses' \in 0..MaxPauses
    BY <1>4 DEF Crash, signals, steering, SteerInv, SteerType
  <2>3. \A q \in Proc : pc'[q] = "taking" => pc[q] = "taking"
    BY <1>4 DEF Crash, IInv, ControlType
  <2> QED BY <2>1, <2>2, <2>3, Bystander
<1>5. CASE UNCHANGED vars
  BY <1>5, Bystander DEF vars, signals, steering, SteerInv, SteerType
<1>6. ASSUME NEW p \in Proc,
             \/ ResumeClears(p) \/ ResumeLoads(p) \/ ResumeWrites(p) \/ RunStarts(p)
             \/ FollowsUp(p) \/ CancelLoads(p) \/ CancelPolls(p) \/ CancelWrites(p)
             \/ Enter(p) \/ Execute(p) \/ LoopOver(p) \/ Boundary(p) \/ NoSteer(p)
             \/ Turn(p) \/ Finalize(p) \/ After(p) \/ TakePause(p)
             \/ FinalizePaused(p) \/ MarkPaused(p) \/ SeesCompleted(p)
             \/ AutoFinalizes(p) \/ Leave(p)
             \/ ReviewBegins(p) \/ ReviewEnds(p) \/ ReviewRaises(p)
             \/ AcceptStarts(p) \/ AcceptPromotes(p) \/ AcceptLands(p) \/ AcceptJudges(p)
             \/ ReplanBegins(p) \/ ReplanEnds(p)
      PROVE  SteerInv'
  <2>1. UNCHANGED steering /\ UNCHANGED <<pauses, crashes>>
    BY <1>6 DEF signals, steering, ResumeClears, ResumeLoads, ResumeWrites, RunStarts,
       FollowsUp, CancelLoads, CancelPolls, CancelWrites, Enter, Execute, LoopOver, Boundary,
       NoSteer, Turn, Finalize, After, TakePause, FinalizePaused, MarkPaused,
       SeesCompleted, AutoFinalizes, Leave, ReviewBegins, ReviewEnds, ReviewRaises,
       AcceptStarts, AcceptPromotes, AcceptLands, AcceptJudges, ReplanBegins, ReplanEnds
  <2>2. \E to \in Steps \ {"taking"} : pc' = [pc EXCEPT ![p] = to]
    BY <1>6 DEF Goes, Steps, AtWork, Driving, InTurn, ResumeClears, ResumeLoads,
       ResumeWrites, RunStarts, FollowsUp, CancelLoads, CancelPolls, CancelWrites, Enter,
       Execute, LoopOver, Boundary, NoSteer, Turn, Finalize, After, TakePause, FinalizePaused,
       MarkPaused, SeesCompleted, AutoFinalizes, Leave, ReviewBegins, ReviewEnds,
       ReviewRaises, AcceptStarts, AcceptPromotes, AcceptLands, AcceptJudges, ReplanBegins,
       ReplanEnds
  <2>3. \A q \in Proc : pc'[q] = "taking" => pc[q] = "taking"
    BY <2>2 DEF IInv, ControlType
  <2> QED BY <2>1, <2>3, Bystander DEF SteerInv, SteerType
<1> QED BY <1>1, <1>2, <1>3, <1>4, <1>5, <1>6 DEF Next, Drive, Judge

\* The types of everything, for any processes, senders and bounds.
THEOREM TypeCorrect == Spec => []TypeOK
<1>1. IInv /\ SteerInv => TypeOK
  BY DEF IInv, ControlType, SteerInv, SteerType, TypeOK
<1> QED BY <1>1, InitHolds, NextHolds, SteerInit, SteerNext, PTL DEF Spec

\* SteersInOrder: the model hears each sender in its order, nothing twice.
THEOREM SteersHeardInOrder == Spec => []SteersInOrder
<1>1. SteerInv => SteersInOrder
  BY DEF SteerInv, ToldInv, InOrder, SteersInOrder
<1> QED BY <1>1, InitHolds, NextHolds, SteerInit, SteerNext, PTL DEF Spec
=============================================================================
