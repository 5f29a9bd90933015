----------------------------- MODULE Promotions -----------------------------
(* Candidate promotions: a driver works in a copy of the workspace and the *)
(* files it changed are copied back, at once (auto_approved) or when an    *)
(* operator says so.  candidate_promotions.jsonl is append-only; of the    *)
(* rows of one promotion the last one counts, which is status[i].          *)
EXTENDS Naturals, FiniteSets

CONSTANTS
    Driver,         \* the process that drives the run
    Operators,      \* processes that run `promotions`
    Acceptors,      \* processes that run `accept`
    NoProc,
    LastFile,       \* files of the workspace are 1..LastFile
    Git,            \* `git worktree add` works here
    LastRow,        \* bound: rows of the queue
    MaxPromotions,  \* bound: candidates of the driver
    MaxCrashes      \* bound

Proc == {Driver} \cup Operators \cup Acceptors
File == 1..LastFile
Id   == 1..LastRow

ASSUME PromotionAssumption ==
    /\ Driver \notin Operators \cup Acceptors
    /\ NoProc \notin Proc
    /\ LastFile \in Nat
    /\ LastRow \in Nat
    /\ MaxPromotions \in Nat
    /\ MaxCrashes \in Nat
    /\ Git \in BOOLEAN

VARIABLES
    lines,     \* rows in the queue
    status,    \* the last row of each promotion, or "none"
    content,   \* per candidate and file it changed: its edit and those of its base
    worktree,  \* the candidates that are git worktrees
    there,     \* the candidates whose directory exists
    source,    \* the edits each file of the main workspace has
    landed,    \* history: the files of each promotion ever copied to the source
    run,       \* run.json as accept leaves it
    writer,    \* the process inside workspace_writer_lock
    job,       \* what each process is at
    crashes

queue == <<lines, status>>
candidates == <<content, worktree, there>>
vars == <<lines, status, content, worktree, there, source, landed, run, writer,
          job, crashes>>

\* What the queue knows as PROMOTABLE_PENDING_STATUSES.
Promotable == {"queued", "pending_manual_approval", "approved", "blocked",
               "promotion_failed"}
\* What accept counts as not settled.
Unsettled == Promotable \cup {"auto_approved"}
Status == Unsettled \cup {"none", "promoted", "rejected", "discarded"}

Known     == {i \in Id : status[i] # "none"}
Pending   == {i \in Id : status[i] \in Promotable}
Open      == {i \in Id : status[i] \in Unsettled}
Wanted(i) == {f \in File : i \in content[i][f]}
Clean(S)  == \A f \in S : source[f] = {}

\* for: the promotions of this command not begun yet; id: the one it is at;
\* left: files not copied yet; accept: PromotionsCommand runs inside accept;
\* blocked: accept has a blocker.
Idle == [pc |-> "idle", for |-> {}, id |-> 0, left |-> {}, accept |-> FALSE,
         blocked |-> FALSE]

Init ==
    /\ lines = 0
    /\ status = [i \in Id |-> "none"]
    /\ content = [i \in Id |-> [f \in File |-> {}]]
    /\ worktree = {}
    /\ there = {}
    /\ source = [f \in File |-> {}]
    /\ landed = [i \in Id |-> {}]
    /\ run = "open"
    /\ writer = NoProc
    /\ job = [p \in Proc |-> Idle]
    /\ crashes = 0

-----------------------------------------------------------------------------
At(p, l) == job[p].pc = l

\* One more row for promotion i.
Row(i, st) ==
    /\ lines < LastRow
    /\ lines' = lines + 1
    /\ status' = [status EXCEPT ![i] = st]

\* Mutant: the command does not take the lock.
EnterUnlocked(p) == UNCHANGED writer

\* workspace_writer_lock; a command that does not get it ends.
Enter(p) == writer = NoProc /\ writer' = p

\* After one promotion: the next one of --all-pending, or out of the lock.
Onward(p) == IF job[p].for = {} THEN "leave" ELSE "approve"

-----------------------------------------------------------------------------
(* The driver *)

\* A task attempt's candidate: created from the workspace as it is, edited,
\* past the merge gate.  enqueue_pending_manual_approval or
\* enqueue_auto_approved gives it the number of its row.
Attempt(p) ==
    /\ p = Driver
    /\ At(p, "idle")
    /\ Cardinality(Known) < MaxPromotions
    /\ Enter(p)
    /\ \E S \in (SUBSET File) \ {{}}, manual \in BOOLEAN :
        LET i == lines + 1 IN
        /\ Row(i, IF manual THEN "pending_manual_approval" ELSE "auto_approved")
        /\ content' = [content EXCEPT ![i] =
              [f \in File |-> IF f \in S THEN source[f] \cup {i} ELSE {}]]
        /\ worktree' = IF Git /\ Clean(File) THEN worktree \cup {i} ELSE worktree
        /\ there' = there \cup {i}
        /\ job' = [job EXCEPT ![p] = [Idle EXCEPT
              !.pc = IF manual THEN "leave" ELSE "check", !.id = i]]
    /\ UNCHANGED <<source, landed, run, crashes>>

-----------------------------------------------------------------------------
(* The operator's commands *)

\* promotions approve --promotion-id, retry, reject, discard: nothing looks at
\* the status here.
Command(p, i, pc) ==
    /\ At(p, "idle")
    /\ p \in Operators
    /\ i \in Known
    /\ Enter(p)
    /\ job' = [job EXCEPT ![p].pc = pc, ![p].id = i,
                          ![p].for = IF pc = "approve" THEN {i} ELSE {}]
    /\ UNCHANGED <<lines, status, candidates, source, landed, run, crashes>>

\* promotions approve --all-pending, which raises when there is none.
ApproveAll(p) ==
    /\ (At(p, "idle") /\ p \in Operators) \/ At(p, "accept")
    /\ Enter(p)
    /\ job' = [job EXCEPT ![p] =
         IF Pending = {} THEN [Idle EXCEPT !.pc = "leave"]
         ELSE [job[p] EXCEPT !.pc = "approve", !.for = Pending]]
    /\ UNCHANGED <<lines, status, candidates, source, landed, run, crashes>>

\* mark_approved, in the order of the queue.
Approve(p) ==
    /\ At(p, "approve")
    /\ \E i \in job[p].for :
        /\ \A j \in job[p].for : i <= j
        /\ Row(i, "approved")
        /\ job' = [job EXCEPT ![p].pc = "check", ![p].id = i, ![p].for = @ \ {i}]
    /\ UNCHANGED <<candidates, source, landed, run, writer, crashes>>

MayRetry(i) == status[i] \in Promotable

\* _promote on retry: a promoted one is returned, another that is not
\* promotable raises.
Retry(p) ==
    /\ At(p, "retry")
    /\ job' = [job EXCEPT ![p].pc = IF MayRetry(job[p].id) THEN "check" ELSE "leave"]
    /\ UNCHANGED <<lines, status, candidates, source, landed, run, writer, crashes>>

Reject(p) ==
    /\ At(p, "reject")
    /\ Row(job[p].id, "rejected")
    /\ job' = [job EXCEPT ![p].pc = "leave"]
    /\ UNCHANGED <<candidates, source, landed, run, writer, crashes>>

\* discard removes the directory, then writes its row.
RemoveCandidate(p) ==
    /\ At(p, "discard")
    /\ there' = there \ {job[p].id}
    /\ job' = [job EXCEPT ![p].pc = "discarded"]
    /\ UNCHANGED <<lines, status, content, worktree, source, landed, run, writer, crashes>>

MarkDiscarded(p) ==
    /\ At(p, "discarded")
    /\ Row(job[p].id, "discarded")
    /\ job' = [job EXCEPT ![p].pc = "leave"]
    /\ UNCHANGED <<candidates, source, landed, run, writer, crashes>>

-----------------------------------------------------------------------------
(* CandidateWorkspace.promote *)

\* validate_promotion_ready: the directory is there, and for a worktree the
\* source has no uncommitted change in the files.
MayPromote(i) ==
    /\ i \in there
    /\ i \in worktree => Clean(Wanted(i))

Validate(p) ==
    /\ At(p, "check")
    /\ MayPromote(job[p].id)
    /\ job' = [job EXCEPT ![p].pc = "copy", ![p].left = Wanted(job[p].id)]
    /\ UNCHANGED <<lines, status, candidates, source, landed, run, writer, crashes>>

\* The files are copied one by one, in order.
CopyFile(p) ==
    /\ At(p, "copy")
    /\ \E f \in job[p].left :
        /\ \A g \in job[p].left : f <= g
        /\ source' = [source EXCEPT ![f] = content[job[p].id][f]]
        /\ landed' = [landed EXCEPT ![job[p].id] = @ \cup {f}]
        /\ job' = [job EXCEPT ![p].left = @ \ {f}]
    /\ UNCHANGED <<lines, status, candidates, run, writer, crashes>>

\* Mutant: what is left to copy does not matter.
CopiedSome(p) == At(p, "copy")

Copied(p) == At(p, "copy") /\ job[p].left = {}

MarkPromoted(p) ==
    /\ Copied(p)
    /\ Row(job[p].id, "promoted")
    /\ job' = [job EXCEPT ![p].pc = Onward(p)]
    /\ UNCHANGED <<candidates, source, landed, run, writer, crashes>>

\* The validation or a copy raises: mark_promotion_failed.  In the driver the
\* exception goes on, in a command the next promotion follows.
Fail(p) ==
    /\ \/ At(p, "check") /\ ~MayPromote(job[p].id)
       \/ At(p, "copy") /\ job[p].left # {}
    /\ Row(job[p].id, "promotion_failed")
    /\ job' = [job EXCEPT ![p].pc = Onward(p), ![p].left = {}, ![p].blocked = TRUE]
    /\ UNCHANGED <<candidates, source, landed, run, writer, crashes>>

\* Out of the lock; accept goes on with what the command returned.
Leave(p) ==
    /\ At(p, "leave")
    /\ writer' = IF writer = p THEN NoProc ELSE writer
    /\ job' = [job EXCEPT ![p] = IF @.accept THEN [@ EXCEPT !.pc = "look", !.id = 0] ELSE Idle]
    /\ UNCHANGED <<lines, status, candidates, source, landed, run, crashes>>

-----------------------------------------------------------------------------
(* accept, which takes no lock of its own *)

\* _pending_promotions: something is open, and is approved first.
AcceptBegins(p) ==
    /\ At(p, "idle")
    /\ p \in Acceptors
    /\ job' = [job EXCEPT ![p] = [Idle EXCEPT !.accept = TRUE,
                                  !.pc = IF Open = {} THEN "look" ELSE "accept"]]
    /\ UNCHANGED <<lines, status, candidates, source, landed, run, writer, crashes>>

\* pending_after.
AcceptLooks(p) ==
    /\ At(p, "look")
    /\ job' = [job EXCEPT ![p].pc = "write", ![p].blocked = @ \/ Open # {}]
    /\ UNCHANGED <<lines, status, candidates, source, landed, run, writer, crashes>>

\* Accepted without a blocker; a review that did not pass is one, too.
AcceptWrites(p) ==
    /\ At(p, "write")
    /\ run' \in {"blocked"} \cup (IF job[p].blocked THEN {} ELSE {"accepted"})
    /\ job' = [job EXCEPT ![p] = Idle]
    /\ UNCHANGED <<lines, status, candidates, source, landed, writer, crashes>>

\* The lock is refused, or approve raises: accept ends with the exception.
AcceptRefused(p) ==
    /\ At(p, "accept")
    /\ writer # NoProc
    /\ job' = [job EXCEPT ![p] = Idle]
    /\ UNCHANGED <<lines, status, candidates, source, landed, run, writer, crashes>>

-----------------------------------------------------------------------------
Crash(p) ==
    /\ ~At(p, "idle")
    /\ crashes < MaxCrashes
    /\ crashes' = crashes + 1
    /\ writer' = IF writer = p THEN NoProc ELSE writer
    /\ job' = [job EXCEPT ![p] = Idle]
    /\ UNCHANGED <<lines, status, candidates, source, landed, run>>

Step(p) ==
    \/ Attempt(p)
    \/ \E i \in Id, pc \in {"approve", "retry", "reject", "discard"} :
         Command(p, i, pc)
    \/ ApproveAll(p) \/ Approve(p) \/ Retry(p) \/ Reject(p) \/ RemoveCandidate(p) \/ MarkDiscarded(p)
    \/ Validate(p) \/ CopyFile(p) \/ MarkPromoted(p) \/ Fail(p) \/ Leave(p)
    \/ AcceptBegins(p) \/ AcceptLooks(p) \/ AcceptWrites(p) \/ AcceptRefused(p)
    \/ Crash(p)

Next == \E p \in Proc : Step(p)

Spec == Init /\ [][Next]_vars

-----------------------------------------------------------------------------
(* Properties *)

PcOf == {"idle", "approve", "retry", "reject", "discard", "discarded", "check",
         "copy", "leave", "accept", "look", "write"}

TypeOK ==
    /\ lines \in 0..LastRow
    /\ status \in [Id -> Status]
    /\ content \in [Id -> [File -> SUBSET Id]]
    /\ worktree \subseteq Id
    /\ there \subseteq Id
    /\ source \in [File -> SUBSET Id]
    /\ landed \in [Id -> SUBSET File]
    /\ run \in {"open", "accepted", "blocked"}
    /\ writer \in Proc \cup {NoProc}
    /\ job \in [Proc -> [pc : PcOf, for : SUBSET Id, id : 0..LastRow,
                         left : SUBSET File, accept : BOOLEAN, blocked : BOOLEAN]]
    /\ crashes \in 0..MaxCrashes

Copying == {p \in Proc : At(p, "copy")}

\* What the queue says of a promotion is what happened to the workspace: one
\* that counts as promoted has brought all its files, whoever retried, refused
\* or accepted it meanwhile; and an auto_approved one is at its driver, unless
\* a driver died.
LandedAsRecorded ==
    \A i \in Id :
        /\ status[i] = "promoted" => landed[i] = Wanted(i)
        /\ status[i] = "auto_approved" =>
             (\E p \in Proc : job[p].id = i /\ ~At(p, "idle")) \/ crashes > 0

L == INSTANCE Landing WITH
    open <- {job[p].id : p \in Copying},
    wanted <- [i \in Id |-> Wanted(i)],
    outcome <- [i \in Id |-> CASE status[i] = "promoted" -> "landed"
                               [] status[i] \in {"rejected", "discarded"} -> "refused"
                               [] OTHER -> "undecided"]

\* The landings of one promotion at a time, never of a refused one, whatever
\* operators, accepts and the driver do at once: _PROMOTION_APPLY_LOCK
\* separates the threads of the driver, the writer lock the processes.
RefinesLanding == L!Spec

=============================================================================
