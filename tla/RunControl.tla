----------------------------- MODULE RunControl -----------------------------
(***************************************************************************)
(* What other processes do to a run while one process drives it:           *)
(* `asteria pause` and `asteria steer` leave a file that the driver looks  *)
(* for at its turn boundaries (core/run_control.py); cancel, resume,       *)
(* review, accept, replan and a follow-up run write the run record         *)
(* (run.json) without the writer lock, and the driver reads it back.  The  *)
(* lock is the one of module SingleWriter; which tasks a turn belongs to   *)
(* is module RunLoop, and here any outcome of theirs.                      *)
(***************************************************************************)
EXTENDS Naturals, Sequences

CONSTANTS
    Proc,       \* processes of one command each; each lives once
    NoProc,     \* nobody has the writer lock
    Sender,     \* processes that steer
    MaxSteers,  \* bound: instructions of one sender
    MaxPauses,  \* bound: pause requests
    MaxCrashes  \* bound: processes that die half way

ASSUME ControlAssumption ==
    /\ NoProc \notin Proc
    /\ MaxSteers \in Nat /\ MaxPauses \in Nat /\ MaxCrashes \in Nat

VARIABLES
    record,     \* the status run.json states
    lock,       \* the process inside the writer lock, or NoProc
    pc,         \* pc[p]: where process p stands
    seen,       \* seen[p]: what resume p tells apart of the status it loaded, or
                \* "unread" (also for a process that is gone)
    over,       \* over[p]: who had the lock when cancel p loaded run.json, NoProc
                \* before and after (a history, read by no action)
    pause,      \* pause.request: is it there, the turns begun since the last
                \* request, and the processes that were at work before it
    path,       \* the file named steer.request, 0 if there is none
    taking,     \* the file named steer.request.taking, 0 if there is none
    content,    \* content[f]: the instructions file f holds
    fd,         \* fd[s]: the file sender s has open to append to, or 0
    sent,       \* sent[s]: instructions s has written
    told,       \* the instructions given to the model, in order
    pauses, crashes \* counts, for the bounds

signals == <<pause, path, taking, content, fd, sent, told, pauses>>
steering == <<path, taking, content, fd, sent, told>>
vars == <<record, lock, pc, seen, over, signals, crashes>>

Status  == {"running", "paused", "blocked", "completed", "cancelled"}
Settled == Status \ {"running"}

\* A file of steer.request exists for at least one instruction.
Instruction == Sender \X (1..MaxSteers)
File == 1..Len(content)

InTurn  == {"boundary", "steer", "taking", "taken", "model", "pausing"}
Driving == InTurn \cup {"settle", "paused", "mark"}
AtWork  == Driving \cup {"cycle", "after", "leave", "close", "out"}
Steps   == AtWork \cup {"new", "cleared", "loaded", "want", "poll", "write", "gone",
                        "reviewing", "accepting", "promoting", "judging", "replanning"}

TypeOK ==
    /\ record \in Status
    /\ lock \in Proc \cup {NoProc}
    /\ pc \in [Proc -> Steps]
    /\ seen \in [Proc -> {"unread", "running", "paused", "completed"}]
    /\ over \in [Proc -> Proc \cup {NoProc}]
    /\ pause \in [there : BOOLEAN, turns : Nat, met : SUBSET Proc]
    /\ content \in Seq(Seq(Instruction))
    /\ path \in File \cup {0}
    /\ taking \in File \cup {0}
    /\ fd \in [Sender -> File \cup {0}]
    /\ sent \in [Sender -> 0..MaxSteers]
    /\ told \in Seq(Instruction)
    /\ pauses \in 0..MaxPauses
    /\ crashes \in 0..MaxCrashes

NoPause == [there |-> FALSE, turns |-> 0, met |-> {}]

\* A run that was planned and never executed.
Init ==
    /\ record = "completed"
    /\ lock = NoProc
    /\ pc = [p \in Proc |-> "new"]
    /\ seen = [p \in Proc |-> "unread"]
    /\ over = [p \in Proc |-> NoProc]
    /\ pause = NoPause
    /\ path = 0 /\ taking = 0
    /\ content = <<>>
    /\ fd = [s \in Sender |-> 0]
    /\ sent = [s \in Sender |-> 0]
    /\ told = <<>>
    /\ pauses = 0 /\ crashes = 0

Goes(p, from, to) == /\ pc[p] = from
                     /\ pc' = [pc EXCEPT ![p] = to]

\* A process that ends keeps nothing.
Forgets(p) == seen' = [seen EXCEPT ![p] = "unread"]

-----------------------------------------------------------------------------
(* ResumeCommand.run: everything up to continue_run is outside the lock *)

\* Mutant: a resume leaves the signal where it is.
ResumeKeepsPause(p) ==
    /\ Goes(p, "new", "cleared")
    /\ UNCHANGED <<record, lock, seen, over, signals, crashes>>

ResumeClears(p) ==
    /\ Goes(p, "new", "cleared")
    /\ pause' = NoPause
    /\ UNCHANGED <<record, lock, seen, over, steering, pauses, crashes>>

\* All that a resume asks of the status: completed, paused, or else.
Found == IF record \in {"completed", "paused"} THEN record ELSE "running"

\* With a decision pending it raises; otherwise run.json is loaded.
ResumeLoads(p) ==
    /\ \/ Goes(p, "cleared", "gone") /\ UNCHANGED seen
       \/ Goes(p, "cleared", "loaded") /\ seen' = [seen EXCEPT ![p] = Found]
    /\ UNCHANGED <<record, lock, over, signals, crashes>>

\* A completed run with no decision applied is left alone, a paused one is
\* written back as running.
ResumeWrites(p) ==
    /\ \/ /\ seen[p] = "completed"
          /\ Goes(p, "loaded", "gone")
          /\ UNCHANGED record
          /\ Forgets(p)
       \/ /\ Goes(p, "loaded", "want")
          /\ IF seen[p] = "paused"
             THEN record' = "running" /\ seen' = [seen EXCEPT ![p] = "running"]
             ELSE UNCHANGED <<record, seen>>
    /\ UNCHANGED <<lock, over, signals, crashes>>

-----------------------------------------------------------------------------
(* RunCommand: continue_run and the turns of its tasks *)

\* `asteria run` of the current session comes straight to the lock.
RunStarts(p) ==
    /\ Goes(p, "new", "want")
    /\ UNCHANGED <<record, lock, seen, over, signals, crashes>>

\* `asteria run --continue-session`: prepare_session_follow_up has written the
\* record when continue_run asks for the lock.
FollowsUp(p) ==
    /\ Goes(p, "new", "want")
    /\ record' = "running"
    /\ UNCHANGED <<lock, seen, over, signals, crashes>>

\* workspace_writer_lock, or WorkspaceBusyError.
Enter(p) ==
    /\ \/ /\ lock = NoProc
          /\ Goes(p, "want", "cycle")
          /\ lock' = p
          /\ UNCHANGED seen
       \/ /\ lock # NoProc
          /\ Goes(p, "want", "gone")
          /\ UNCHANGED lock
          /\ Forgets(p)
    /\ UNCHANGED <<record, over, signals, crashes>>

\* A cycle executes a task, which may be blocked before its first turn, or
\* the loop is over: nothing ready, a cap, or the budget guard that pauses.
Execute(p) ==
    /\ Goes(p, "cycle", "boundary") \/ Goes(p, "cycle", "settle")
    /\ record' = "running"
    /\ UNCHANGED <<lock, seen, over, signals, crashes>>

LoopOver(p) ==
    /\ Goes(p, "cycle", "leave")
    /\ record' \in {record, "paused"}
    /\ UNCHANGED <<lock, seen, over, signals, crashes>>

\* Mutant: the turn does not look for a pause.
BoundaryBlind(p) ==
    /\ Goes(p, "boundary", "steer")
    /\ UNCHANGED <<record, lock, seen, over, signals, crashes>>

\* The start of a turn of run_model_driven_turn looks for the pause first.
Boundary(p) ==
    /\ \/ pause.there /\ Goes(p, "boundary", "pausing")
       \/ ~pause.there /\ Goes(p, "boundary", "steer")
    /\ UNCHANGED <<record, lock, seen, over, signals, crashes>>

\* Mutant: the signal is read where it lies and stays there.
TakeInPlace(p) ==
    /\ path # 0
    /\ Goes(p, "steer", "taking")
    /\ taking' = path
    /\ UNCHANGED <<record, lock, seen, over, pause, path, content, fd, sent, told,
                   pauses, crashes>>

\* take_steer: rename, which drops a file that a dead process left there,
TakeSteer(p) ==
    /\ path # 0
    /\ Goes(p, "steer", "taking")
    /\ taking' = path
    /\ path' = 0
    /\ UNCHANGED <<record, lock, seen, over, pause, content, fd, sent, told,
                   pauses, crashes>>

\* read,
ReadSteer(p) ==
    /\ Goes(p, "taking", "taken")
    /\ told' = told \o content[taking]
    /\ UNCHANGED <<record, lock, seen, over, pause, path, taking, content, fd, sent,
                   pauses, crashes>>

\* unlink.
DropSteer(p) ==
    /\ Goes(p, "taken", "model")
    /\ taking' = 0
    /\ UNCHANGED <<record, lock, seen, over, pause, path, content, fd, sent, told,
                   pauses, crashes>>

NoSteer(p) ==
    /\ path = 0
    /\ Goes(p, "steer", "model")
    /\ UNCHANGED <<record, lock, seen, over, signals, crashes>>

\* The model call and its tools; then the next turn, or the task is over.
Turn(p) ==
    /\ Goes(p, "model", "boundary") \/ Goes(p, "model", "settle")
    /\ pause' = IF pause.there THEN [pause EXCEPT !.turns = @ + 1] ELSE pause
    /\ UNCHANGED <<record, lock, seen, over, steering, pauses, crashes>>

\* RunStateFinalizer states whatever the board and the decisions tell.
Finalize(p) ==
    /\ Goes(p, "settle", "after")
    /\ record' \in Status \ {"cancelled"}
    /\ UNCHANGED <<lock, seen, over, signals, crashes>>

\* The next cycle, or a replan that states running, paused or blocked.
After(p) ==
    /\ Goes(p, "after", "cycle") \/ Goes(p, "after", "leave")
    /\ record' \in {record, "running", "paused", "blocked"}
    /\ UNCHANGED <<lock, seen, over, signals, crashes>>

\* _user_paused_model_driven_task consumes the signal; the finalizer states
\* running (the task is ready) or paused, then _mark_run_paused.
TakePause(p) ==
    /\ Goes(p, "pausing", "paused")
    /\ pause' = NoPause
    /\ UNCHANGED <<record, lock, seen, over, steering, pauses, crashes>>

FinalizePaused(p) ==
    /\ Goes(p, "paused", "mark")
    /\ record' \in {"running", "paused"}
    /\ UNCHANGED <<lock, seen, over, signals, crashes>>

MarkPaused(p) ==
    /\ Goes(p, "mark", "leave")
    /\ record' = "paused"
    /\ UNCHANGED <<lock, seen, over, signals, crashes>>

\* _maybe_auto_finalize: a record that says completed (its verification being
\* passed) is loaded again and written as accepted, whatever it says by then.
SeesCompleted(p) ==
    /\ record = "completed"
    /\ Goes(p, "leave", "close")
    /\ UNCHANGED <<record, lock, seen, over, signals, crashes>>

AutoFinalizes(p) ==
    /\ Goes(p, "close", "out")
    /\ record' = "completed"
    /\ UNCHANGED <<lock, seen, over, signals, crashes>>

Leave(p) ==
    /\ Goes(p, "leave", "gone") \/ Goes(p, "out", "gone")
    /\ lock' = NoProc
    /\ Forgets(p)
    /\ UNCHANGED <<record, over, signals, crashes>>

-----------------------------------------------------------------------------
(* CancelCommand.run *)

CancelLoads(p) ==
    /\ \/ record \in Settled /\ Goes(p, "new", "gone") /\ UNCHANGED over
       \/ /\ record \notin Settled
          /\ Goes(p, "new", "poll")
          /\ over' = [over EXCEPT ![p] = lock]
    /\ UNCHANGED <<record, lock, seen, signals, crashes>>

\* Mutant: a cancel does not look who has the lock.
CancelsAnyway(p) ==
    /\ Goes(p, "poll", "write")
    /\ UNCHANGED <<record, lock, seen, over, signals, crashes>>

\* writer_process_alive, until it says no or the deadline passes.
CancelPolls(p) ==
    /\ \/ /\ lock = NoProc
          /\ Goes(p, "poll", "write")
          /\ UNCHANGED over
       \/ /\ lock # NoProc
          /\ Goes(p, "poll", "gone")
          /\ over' = [over EXCEPT ![p] = NoProc]
    /\ UNCHANGED <<record, lock, seen, signals, crashes>>

\* What is written is the record that was loaded, with another status.
CancelWrites(p) ==
    /\ Goes(p, "write", "gone")
    /\ record' = "cancelled"
    /\ over' = [over EXCEPT ![p] = NoProc]
    /\ UNCHANGED <<lock, seen, signals, crashes>>

-----------------------------------------------------------------------------
(* ReviewCommand, AcceptCommand and ReplanCommand judge the run and write it *)
(* without asking for the lock.                                              *)

\* The copy that is loaded is written back as running, and, after a model
\* call, with the verdict.  BrainstormCommand and ResearchCommand on an
\* existing session are of the same shape, and end paused or running.
ReviewBegins(p) ==
    /\ Goes(p, "new", "reviewing")
    /\ record' = "running"
    /\ UNCHANGED <<lock, seen, over, signals, crashes>>

\* The verdict, of a review of its own or of one that an accept asked for.
ReviewEnds(p) ==
    /\ Goes(p, "reviewing", "gone") \/ Goes(p, "reviewing", "accepting")
    /\ record' \in {"running", "completed", "blocked", "paused"}
    /\ UNCHANGED <<lock, seen, over, signals, crashes>>

\* The model call raises.
ReviewRaises(p) ==
    /\ Goes(p, "reviewing", "gone")
    /\ UNCHANGED <<record, lock, seen, over, signals, crashes>>

\* AcceptCommand.run of a run whose last review passed, or with skip_review.
AcceptStarts(p) ==
    /\ Goes(p, "new", "accepting")
    /\ UNCHANGED <<record, lock, seen, over, signals, crashes>>

\* With nothing to promote it goes on; PromotionsCommand takes the lock, or
\* raises.
AcceptPromotes(p) ==
    /\ \/ Goes(p, "accepting", "judging") /\ UNCHANGED lock
       \/ lock = NoProc /\ Goes(p, "accepting", "promoting") /\ lock' = p
       \/ lock # NoProc /\ Goes(p, "accepting", "gone") /\ UNCHANGED lock
    /\ UNCHANGED <<record, seen, over, signals, crashes>>

AcceptLands(p) ==
    /\ Goes(p, "promoting", "judging")
    /\ lock' = NoProc
    /\ UNCHANGED <<record, seen, over, signals, crashes>>

AcceptJudges(p) ==
    /\ Goes(p, "judging", "gone")
    /\ record' \in {"completed", "blocked"}
    /\ UNCHANGED <<lock, seen, over, signals, crashes>>

\* The board is loaded and saved first, and the status is written last.
ReplanBegins(p) ==
    /\ Goes(p, "new", "replanning")
    /\ UNCHANGED <<record, lock, seen, over, signals, crashes>>

ReplanEnds(p) ==
    /\ Goes(p, "replanning", "gone")
    /\ record' \in {"running", "paused", "blocked"}
    /\ UNCHANGED <<lock, seen, over, signals, crashes>>

-----------------------------------------------------------------------------
(* The users and the operating system *)

\* request_pause overwrites the request that is there.
RequestPause ==
    /\ pauses < MaxPauses
    /\ pauses' = pauses + 1
    /\ pause' = [there |-> TRUE, turns |-> 0, met |-> {p \in Proc : pc[p] \notin {"new", "gone"}}]
    /\ UNCHANGED <<record, lock, pc, seen, over, steering, crashes>>

\* request_steer: open for append, which creates the file,
OpenSteer(s) ==
    /\ fd[s] = 0
    /\ sent[s] < MaxSteers
    /\ IF path = 0
       THEN content' = Append(content, <<>>) /\ path' = Len(content) + 1
       ELSE UNCHANGED <<content, path>>
    /\ fd' = [fd EXCEPT ![s] = path']
    /\ UNCHANGED <<record, lock, pc, seen, over, pause, taking, sent, told, pauses,
                   crashes>>

\* and write, to the file that was opened, whatever its name is by now.
WriteSteer(s) ==
    /\ fd[s] # 0
    /\ content' = [content EXCEPT ![fd[s]] = Append(@, <<s, sent[s] + 1>>)]
    /\ sent' = [sent EXCEPT ![s] = @ + 1]
    /\ fd' = [fd EXCEPT ![s] = 0]
    /\ UNCHANGED <<record, lock, pc, seen, over, pause, path, taking, told, pauses,
                   crashes>>

Crash(p) ==
    /\ crashes < MaxCrashes
    /\ pc[p] \notin {"new", "gone"}
    /\ crashes' = crashes + 1
    /\ pc' = [pc EXCEPT ![p] = "gone"]
    /\ lock' = IF lock = p THEN NoProc ELSE lock
    /\ over' = [over EXCEPT ![p] = NoProc]
    /\ Forgets(p)
    /\ UNCHANGED <<record, signals>>

Drive(p) ==
    \/ Enter(p) \/ Execute(p) \/ LoopOver(p) \/ Boundary(p)
    \/ TakeSteer(p) \/ ReadSteer(p) \/ DropSteer(p) \/ NoSteer(p) \/ Turn(p)
    \/ Finalize(p) \/ After(p) \/ TakePause(p) \/ FinalizePaused(p)
    \/ MarkPaused(p) \/ SeesCompleted(p) \/ AutoFinalizes(p) \/ Leave(p)

Judge(p) ==
    \/ ReviewBegins(p) \/ ReviewEnds(p) \/ ReviewRaises(p)
    \/ AcceptStarts(p) \/ AcceptPromotes(p) \/ AcceptLands(p) \/ AcceptJudges(p)
    \/ ReplanBegins(p) \/ ReplanEnds(p)

Next == \/ \E p \in Proc : \/ ResumeClears(p) \/ ResumeLoads(p) \/ ResumeWrites(p)
                           \/ RunStarts(p) \/ FollowsUp(p) \/ Drive(p) \/ Judge(p)
                           \/ CancelLoads(p) \/ CancelPolls(p) \/ CancelWrites(p)
                           \/ Crash(p)
        \/ \E s \in Sender : OpenSteer(s) \/ WriteSteer(s)
        \/ RequestPause

Spec == Init /\ [][Next]_vars

-----------------------------------------------------------------------------
(* Properties *)

Driven(p) == pc[p] \in InTurn \cup {"settle", "paused"}

\* Between the first turn of a task and the finalizer of its driver, nobody
\* settles the record but a command that judges the run without the lock
\* (review, accept, replan), and a cancel that had loaded it when another
\* process, or none, was at work: no second driver, no resume, no follow-up,
\* no refused process, and no cancel of a run this driver was already driving.
NoRivalSettles ==
    [][record' \notin {record, "running"} =>
         \A p \in Proc : Driven(p) /\ Driven(p)' =>
           \E q \in Proc : /\ pc'[q] # pc[q]
                           /\ \/ pc[q] \in {"reviewing", "judging", "replanning"}
                              \/ pc[q] = "write" /\ over[q] # p]_vars

\* A pause takes effect at the next turn boundary: after the request at most
\* the turn that had passed its boundary is begun, by whatever process.
PauseInTime == pause.turns <= 1

\* A process that resumed a run is paused only by a request that was made
\* after it began, never by one that an earlier process left behind.
PauseIsFresh ==
    [][\A p \in Proc :
        pc[p] = "boundary" /\ pc'[p] = "pausing" /\ seen[p] # "unread"
            => p \in pause.met]_vars

\* The model hears the instructions of one sender in their order and each at
\* most once, however sends, turns, crashes and restarts interleave.
SteersInOrder ==
    \A i, j \in DOMAIN told :
        i < j /\ told[i][1] = told[j][1] => told[i][2] < told[j][2]
=============================================================================
