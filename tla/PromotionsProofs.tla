-------------------------- MODULE PromotionsProofs --------------------------
(* What holds of the promotion queue and the main workspace for any number *)
(* of operators, accepts, files, promotions, rows and crashes: the queue   *)
(* says what happened, and Promotions implements Landing.  The inductive   *)
(* invariant says who may be inside the writer lock, and what a promotion  *)
(* that is being checked or copied still has to bring.                     *)
EXTENDS Promotions, TLAPS

Job == [pc : PcOf, for : SUBSET Id, id : 0..LastRow, left : SUBSET File,
        accept : BOOLEAN, blocked : BOOLEAN]

\* The stages inside workspace_writer_lock, and those that are at a promotion.
Inside == {"approve", "retry", "reject", "discard", "discarded", "check", "copy", "leave"}
AtOne  == {"retry", "reject", "discard", "discarded", "check", "copy"}

\* The files by themselves: every promotion has files, each of a number that
\* was given out, and nothing but its files was ever copied.
Files ==
    /\ lines \in 0..LastRow
    /\ status \in [Id -> Status]
    /\ content \in [Id -> [File -> SUBSET Id]]
    /\ worktree \subseteq Id
    /\ there \subseteq Id
    /\ source \in [File -> SUBSET Id]
    /\ landed \in [Id -> SUBSET File]
    /\ run \in {"open", "accepted", "blocked"}
    /\ writer \in Proc \cup {NoProc}
    /\ crashes \in 0..MaxCrashes
    /\ \A i \in Id : /\ i \in Known => i <= lines /\ Wanted(i) # {}
                     /\ i \notin Known => Wanted(i) = {}
                     /\ landed[i] \subseteq Wanted(i)
                     /\ status[i] = "promoted" => landed[i] = Wanted(i)

\* A process p with job j fits the files.
Fit(p, j) ==
    /\ j.pc \in Inside => writer = p
    /\ j.for \subseteq Known
    /\ j.pc \in AtOne => j.id \in Known
    /\ j.pc \in {"check", "copy"} => status[j.id] \in Unsettled
    /\ j.pc = "copy" => j.left \subseteq Wanted(j.id) /\ Wanted(j.id) \subseteq j.left \cup landed[j.id]

IInv ==
    /\ Files
    /\ job \in [Proc -> Job]
    /\ \A p \in Proc : Fit(p, job[p])

-----------------------------------------------------------------------------
\* Nobody but p is inside the lock.
Alone(p) == \A q \in Proc \ {p} : job[q].pc \notin Inside

LEMMA LockIsMine ==
  ASSUME IInv, NEW p \in Proc, writer = NoProc \/ job[p].pc \in Inside
  PROVE  Alone(p)
<1>1. writer \in {p, NoProc}
  BY DEF IInv, Fit
<1> QED
  BY <1>1, PromotionAssumption DEF IInv, Fit, Alone

\* What has to be shown of a step that gives process p the job new.
LEMMA ByJob ==
  ASSUME IInv, NEW p \in Proc, NEW new \in Job, job' = [job EXCEPT ![p] = new],
         Files', Fit(p, new)',
         Alone(p) \/ UNCHANGED <<status, content, landed>>,
         Known \subseteq Known',
         writer \notin {p, NoProc} => writer' = writer
  PROVE  IInv'
<1>1. job \in [Proc -> Job]
  BY DEF IInv
<1>2. job' \in [Proc -> Job]
  BY <1>1
<1>3. /\ \A q \in Proc : q # p => job'[q] = job[q]
      /\ job'[p] = new
  BY <1>1
<1>4. ASSUME NEW q \in Proc PROVE Fit(q, job[q])'
  <2>1. CASE q = p
    BY <1>3, <2>1
  <2>2. CASE q # p /\ job[q].pc \notin Inside
    <3>1. Fit(q, job[q])
      BY DEF IInv
    <3> QED
      BY <1>3, <2>2, <3>1 DEF Fit, Inside, AtOne
  <2>3. CASE q # p /\ job[q].pc \in Inside
    <3>1. Fit(q, job[q]) /\ writer = q
      BY <2>3 DEF IInv, Fit
    <3>2. UNCHANGED <<status, content, landed>> /\ writer' = q
      BY <2>3, <3>1, PromotionAssumption DEF Alone
    <3> QED
      BY <1>3, <2>3, <3>1, <3>2 DEF Fit, Known, Wanted
  <2> QED
    BY <2>1, <2>2, <2>3
<1> QED
  BY <1>2, <1>4 DEF IInv

\* One more row of a known promotion, which is not "promoted" unless complete.
LEMMA RowKeepsFiles ==
  ASSUME IInv, NEW i \in Known, NEW st \in Status \ {"none"}, Row(i, st),
         st = "promoted" => landed[i] = Wanted(i),
         UNCHANGED <<candidates, source, landed, run, writer, crashes>>
  PROVE  Files' /\ Known' = Known /\ status'[i] = st
         /\ \A k \in Id : k # i => status'[k] = status[k]
<1>1. i \in Id /\ Files
  BY DEF Known, IInv
<1>2. /\ status' = [status EXCEPT ![i] = st]
      /\ lines' = lines + 1 /\ lines < LastRow
  BY DEF Row
<1>3. status' \in [Id -> Status] /\ lines' \in 0..LastRow
  BY <1>1, <1>2, PromotionAssumption DEF Files
<1>4. \A k \in Id : status'[k] = IF k = i THEN st ELSE status[k]
  BY <1>1, <1>2 DEF Files
<1>5. Known' = Known
  BY <1>1, <1>4 DEF Known
<1>6. \A k \in Id : k <= lines => k <= lines'
  BY <1>1, <1>2, PromotionAssumption DEF Files, Id
<1> QED
  BY <1>1, <1>3, <1>4, <1>5, <1>6 DEF Files, candidates, Wanted

LEMMA FilesIfKept ==
  ASSUME IInv, UNCHANGED <<lines, status, candidates, source, landed, run, crashes>>,
         writer' \in Proc \cup {NoProc}
  PROVE  Files' /\ Known' = Known
  BY DEF IInv, Files, candidates, Known, Wanted

LEMMA Starts == Init => IInv
<1> SUFFICES ASSUME Init PROVE IInv
  OBVIOUS
<1>1. Idle \in Job
  BY PromotionAssumption DEF Idle, Job, PcOf
<1>2. job \in [Proc -> Job]
  BY <1>1 DEF Init
<1>3. \A p \in Proc : Fit(p, job[p])
  BY DEF Init, Fit, Idle, Inside, AtOne
<1>4. \A i \in Id : i \notin Known /\ Wanted(i) = {} /\ landed[i] = {} /\ status[i] = "none"
  BY DEF Init, Known, Wanted
<1>5. Files
  BY <1>4, PromotionAssumption DEF Init, Files, Status, Id
<1> QED
  BY <1>2, <1>3, <1>5 DEF IInv

-----------------------------------------------------------------------------
(* The driver *)

LEMMA AttemptKeeps == ASSUME IInv, NEW p \in Proc, Attempt(p) PROVE IInv'
<1>0. PICK i : i = lines + 1
  OBVIOUS
<1>a. PICK S \in (SUBSET File) \ {{}}, manual \in BOOLEAN :
        /\ Row(i, IF manual THEN "pending_manual_approval" ELSE "auto_approved")
        /\ content' = [content EXCEPT ![i] =
              [f \in File |-> IF f \in S THEN source[f] \cup {i} ELSE {}]]
        /\ worktree' = IF Git /\ Clean(File) THEN worktree \cup {i} ELSE worktree
        /\ there' = there \cup {i}
        /\ job' = [job EXCEPT ![p] = [Idle EXCEPT
              !.pc = IF manual THEN "leave" ELSE "check", !.id = i]]
  BY <1>0 DEF Attempt
<1>b. PICK new : new = [Idle EXCEPT !.pc = IF manual THEN "leave" ELSE "check", !.id = i]
  OBVIOUS
<1>c. job' = [job EXCEPT ![p] = new]
  BY <1>a, <1>b
<1>1. /\ i = lines + 1 /\ S # {} /\ S \subseteq File
      /\ Row(i, IF manual THEN "pending_manual_approval" ELSE "auto_approved")
      /\ content' = [content EXCEPT ![i] =
            [f \in File |-> IF f \in S THEN source[f] \cup {i} ELSE {}]]
      /\ worktree' = IF Git /\ Clean(File) THEN worktree \cup {i} ELSE worktree
      /\ there' = there \cup {i}
      /\ job' = [job EXCEPT ![p] = new]
  <2>1. S # {} /\ S \subseteq File
    OBVIOUS
  <2> QED
    BY <1>0, <1>a, <1>c, <2>1, Zenon
<1>2. Files /\ job \in [Proc -> Job]
  BY DEF IInv
<1>3. lines < LastRow /\ lines' = lines + 1
  BY <1>1 DEF Row
<1>4. i \in Id /\ i \in 0..LastRow /\ ~(i <= lines) /\ lines' \in 0..LastRow
  BY <1>1, <1>2, <1>3, PromotionAssumption DEF Files, Id
<1>5. i \notin Known /\ Wanted(i) = {} /\ landed[i] = {}
  BY <1>2, <1>4 DEF Files
<1>6. writer = NoProc /\ writer' = p /\ UNCHANGED <<source, landed, run, crashes>>
  BY DEF Attempt, Enter
<1>7. /\ status'[i] \in {"pending_manual_approval", "auto_approved"}
      /\ \A k \in Id : k # i => status'[k] = status[k]
      /\ status' \in [Id -> Status]
  BY <1>1, <1>2, <1>4 DEF Row, Files, Status, Unsettled, Promotable
<1>8. \A f \in File : IF f \in S THEN source[f] \cup {i} \in SUBSET Id ELSE {} \in SUBSET Id
  BY <1>2, <1>4 DEF Files
<1>9. [f \in File |-> IF f \in S THEN source[f] \cup {i} ELSE {}] \in [File -> SUBSET Id]
  BY <1>8
<1>10. /\ content' \in [Id -> [File -> SUBSET Id]]
       /\ \A k \in Id : k # i => content'[k] = content[k]
       /\ \A f \in File : content'[i][f] = IF f \in S THEN source[f] \cup {i} ELSE {}
  BY <1>1, <1>2, <1>4, <1>9 DEF Files
<1>11. Wanted(i)' = S /\ \A k \in Id : k # i => Wanted(k)' = Wanted(k)
  BY <1>4, <1>10 DEF Wanted
<1>12. /\ i \in Known' /\ \A k \in Id : k # i => (k \in Known' <=> k \in Known)
       /\ status'[i] \in Unsettled /\ status'[i] # "promoted"
  BY <1>4, <1>7 DEF Known, Unsettled, Promotable
<1>13. \A k \in Id : k <= lines => k <= lines'
  BY <1>2, <1>3, PromotionAssumption DEF Files, Id
<1>14. i <= lines' /\ S # {}
  <2>1. lines \in Nat
    BY <1>2, PromotionAssumption DEF Files
  <2> QED
    BY <1>1, <1>3, <2>1
<1>15. worktree' \subseteq Id /\ there' \subseteq Id
  BY <1>1, <1>2, <1>4 DEF Files
<1>16. \A k \in Id : /\ k \in Known' => k <= lines' /\ Wanted(k)' # {}
                     /\ k \notin Known' => Wanted(k)' = {}
                     /\ landed'[k] \subseteq Wanted(k)'
                     /\ status'[k] = "promoted" => landed'[k] = Wanted(k)'
  BY <1>2, <1>5, <1>6, <1>7, <1>11, <1>12, <1>13, <1>14 DEF Files
<1>17. Files'
  BY <1>2, <1>4, <1>6, <1>7, <1>10, <1>15, <1>16 DEF Files
<1>18. /\ new.pc \in {"leave", "check"} /\ new.id = i /\ new.for = {}
       /\ new \in Job
  BY <1>b, <1>4, PromotionAssumption DEF Idle, Job, PcOf
<1>19. Fit(p, new)'
  BY <1>6, <1>12, <1>18 DEF Fit, Inside, AtOne
<1>20. Known \subseteq Known'
  BY <1>5, <1>12 DEF Known
<1>21. Alone(p)
  BY <1>6, LockIsMine
<1> QED
  BY <1>1, <1>6, <1>17, <1>18, <1>19, <1>20, <1>21, ByJob

-----------------------------------------------------------------------------
(* The commands *)

LEMMA CommandKeeps ==
  ASSUME IInv, NEW p \in Proc, NEW i \in Id, NEW pc \in {"approve", "retry", "reject", "discard"},
         Command(p, i, pc)
  PROVE  IInv'
<1>1. job \in [Proc -> Job] /\ job[p] \in Job /\ Fit(p, job[p])
  BY DEF IInv
<1>b. PICK D \in SUBSET {i} : D = IF pc = "approve" THEN {i} ELSE {}
  OBVIOUS
<1>2. PICK new : /\ new = [job[p] EXCEPT !.pc = pc, !.id = i, !.for = D]
                 /\ job' = [job EXCEPT ![p] = new]
  BY <1>1, <1>b DEF Command
<1>a. D \subseteq Id /\ i \in 0..LastRow /\ pc \in PcOf
  BY <1>2, PromotionAssumption DEF Id, PcOf
<1>3. /\ new \in Job /\ new.pc = pc /\ new.id = i
      /\ new.for \subseteq {i}
  BY <1>1, <1>2, <1>a DEF Job
<1>4. writer = NoProc /\ writer' = p /\ i \in Known
  BY DEF Command, Enter
<1>5. Files' /\ Known' = Known
  BY <1>4, FilesIfKept DEF Command
<1>6. Fit(p, new)'
  BY <1>3, <1>4, <1>5 DEF Fit
<1> QED
  BY <1>2, <1>3, <1>4, <1>5, <1>6, LockIsMine, ByJob

LEMMA ApproveAllKeeps == ASSUME IInv, NEW p \in Proc, ApproveAll(p) PROVE IInv'
<1>1. job \in [Proc -> Job] /\ job[p] \in Job /\ Fit(p, job[p]) /\ Files
  BY DEF IInv
<1>2. PICK new : /\ new = IF Pending = {} THEN [Idle EXCEPT !.pc = "leave"]
                          ELSE [job[p] EXCEPT !.pc = "approve", !.for = Pending]
                 /\ job' = [job EXCEPT ![p] = new]
  BY DEF ApproveAll
<1>3. Pending \subseteq Known /\ Pending \subseteq Id
  BY DEF Pending, Known, Promotable
<1>4. new \in Job /\ new.pc \in {"leave", "approve"} /\ new.for \subseteq Known
  <2>1. CASE Pending = {}
    <3>1. new = [pc |-> "leave", for |-> {}, id |-> 0, left |-> {}, accept |-> FALSE,
                 blocked |-> FALSE]
      BY <1>2, <2>1 DEF Idle
    <3> QED
      BY <3>1, PromotionAssumption DEF Job, PcOf
  <2>2. CASE Pending # {}
    <3>1. new = [job[p] EXCEPT !.pc = "approve", !.for = Pending]
      BY <1>2, <2>2
    <3> QED
      BY <1>1, <1>3, <3>1 DEF Job, PcOf
  <2> QED
    BY <2>1, <2>2
<1>5. writer = NoProc /\ writer' = p
  BY DEF ApproveAll, Enter
<1>6. Files' /\ Known' = Known
  BY <1>5, FilesIfKept DEF ApproveAll
<1>7. Fit(p, new)'
  BY <1>4, <1>5, <1>6 DEF Fit, Inside, AtOne
<1> QED
  BY <1>2, <1>4, <1>5, <1>6, <1>7, LockIsMine, ByJob

LEMMA ApproveKeeps == ASSUME IInv, NEW p \in Proc, Approve(p) PROVE IInv'
<1>1. job \in [Proc -> Job] /\ job[p] \in Job /\ Fit(p, job[p])
  BY DEF IInv
<1>a. PICK i \in job[p].for :
        /\ Row(i, "approved")
        /\ job' = [job EXCEPT ![p].pc = "check", ![p].id = i, ![p].for = @ \ {i}]
  BY DEF Approve
<1>2. PICK new : /\ Row(i, "approved")
                 /\ new = [job[p] EXCEPT !.pc = "check", !.id = i, !.for = @ \ {i}]
                 /\ job' = [job EXCEPT ![p] = new]
  BY <1>1, <1>a
<1>3. i \in Known /\ i \in 0..LastRow
  BY <1>1, PromotionAssumption DEF Fit, Known, Id
<1>4. new \in Job /\ new.pc = "check" /\ new.id = i /\ new.for \subseteq job[p].for
  BY <1>1, <1>2, <1>3 DEF Job, PcOf
<1>5. Files' /\ Known' = Known /\ status'[i] = "approved"
  BY <1>2, <1>3, RowKeepsFiles DEF Approve, Status, Unsettled, Promotable
<1>6. job[p].pc \in Inside /\ writer = p /\ writer' = p
  BY <1>1 DEF Approve, At, Inside, Fit
<1>7. Fit(p, new)'
  BY <1>1, <1>3, <1>4, <1>5, <1>6 DEF Fit, Unsettled, Promotable
<1> QED
  BY <1>2, <1>4, <1>5, <1>6, <1>7, LockIsMine, ByJob

LEMMA RetryKeeps == ASSUME IInv, NEW p \in Proc, Retry(p) PROVE IInv'
<1>1. job \in [Proc -> Job] /\ job[p] \in Job /\ Fit(p, job[p]) /\ job[p].pc = "retry"
  BY DEF IInv, Retry, At
<1>2. PICK new : /\ new = [job[p] EXCEPT !.pc = IF MayRetry(job[p].id) THEN "check" ELSE "leave"]
                 /\ job' = [job EXCEPT ![p] = new]
  BY DEF Retry
<1>3. /\ new \in Job /\ new.id = job[p].id /\ new.for = job[p].for
      /\ new.pc = IF MayRetry(job[p].id) THEN "check" ELSE "leave"
  BY <1>1, <1>2 DEF Job, PcOf
<1>4. writer = p /\ writer' = p
  BY <1>1 DEF Retry, Fit, Inside
<1>5. Files' /\ Known' = Known /\ UNCHANGED status
  BY <1>4, FilesIfKept DEF Retry
<1>6. Fit(p, new)'
  BY <1>1, <1>3, <1>4, <1>5 DEF Fit, Inside, AtOne, MayRetry, Unsettled
<1>7. UNCHANGED <<status, content, landed>>
  BY DEF Retry, candidates
<1> QED
  BY <1>2, <1>3, <1>4, <1>5, <1>6, <1>7, ByJob

LEMMA RejectKeeps ==
  ASSUME IInv, NEW p \in Proc, Reject(p) \/ MarkDiscarded(p)
  PROVE  IInv'
<1>1. /\ job \in [Proc -> Job] /\ job[p] \in Job /\ Fit(p, job[p])
      /\ job[p].pc \in {"reject", "discarded"}
  BY DEF IInv, Reject, MarkDiscarded, At
<1>a. PICK st \in {"rejected", "discarded"} : Row(job[p].id, st)
  BY DEF Reject, MarkDiscarded
<1>2. PICK new : /\ new = [job[p] EXCEPT !.pc = "leave"]
                 /\ job' = [job EXCEPT ![p] = new]
  BY DEF Reject, MarkDiscarded
<1>3. new \in Job /\ new.pc = "leave" /\ new.for = job[p].for
  BY <1>1, <1>2 DEF Job, PcOf
<1>4. job[p].id \in Known /\ writer = p /\ job[p].pc \in Inside
  BY <1>1 DEF Fit, AtOne, Inside
<1>5. UNCHANGED <<candidates, source, landed, run, writer, crashes>>
  BY DEF Reject, MarkDiscarded
<1>6. Files' /\ Known' = Known
  BY <1>a, <1>4, <1>5, RowKeepsFiles DEF Status
<1>7. Fit(p, new)'
  BY <1>1, <1>3, <1>4, <1>5, <1>6 DEF Fit, AtOne
<1> QED
  BY <1>2, <1>3, <1>4, <1>5, <1>6, <1>7, LockIsMine, ByJob

LEMMA RemoveKeeps == ASSUME IInv, NEW p \in Proc, RemoveCandidate(p) PROVE IInv'
<1>1. job \in [Proc -> Job] /\ job[p] \in Job /\ Fit(p, job[p]) /\ job[p].pc = "discard" /\ Files
  BY DEF IInv, RemoveCandidate, At
<1>2. PICK new : /\ new = [job[p] EXCEPT !.pc = "discarded"]
                 /\ job' = [job EXCEPT ![p] = new]
  BY DEF RemoveCandidate
<1>3. new \in Job /\ new.pc = "discarded" /\ new.id = job[p].id /\ new.for = job[p].for
  BY <1>1, <1>2 DEF Job, PcOf
<1>4. /\ UNCHANGED <<lines, status, content, worktree, source, landed, run, writer, crashes>>
      /\ there' \subseteq Id
  BY <1>1 DEF RemoveCandidate, Files
<1>5. Files' /\ Known' = Known
  BY <1>1, <1>4 DEF Files, Known, Wanted
<1>6. Fit(p, new)'
  BY <1>1, <1>3, <1>4, <1>5 DEF Fit, Inside, AtOne
<1> QED
  BY <1>2, <1>3, <1>4, <1>5, <1>6, ByJob

-----------------------------------------------------------------------------
(* Copying *)

LEMMA ValidateKeeps == ASSUME IInv, NEW p \in Proc, Validate(p) PROVE IInv'
<1>1. job \in [Proc -> Job] /\ job[p] \in Job /\ Fit(p, job[p]) /\ job[p].pc = "check"
  BY DEF IInv, Validate, At
<1>2. PICK new : /\ new = [job[p] EXCEPT !.pc = "copy", !.left = Wanted(job[p].id)]
                 /\ job' = [job EXCEPT ![p] = new]
  BY DEF Validate
<1>3. Wanted(job[p].id) \subseteq File
  BY DEF Wanted
<1>4. /\ new \in Job /\ new.pc = "copy" /\ new.id = job[p].id /\ new.for = job[p].for
      /\ new.left = Wanted(job[p].id)
  BY <1>1, <1>2, <1>3 DEF Job, PcOf
<1>5. UNCHANGED <<lines, status, candidates, source, landed, run, writer, crashes>>
  BY DEF Validate
<1>6. Files' /\ Known' = Known /\ UNCHANGED <<status, content, landed>>
  BY <1>5, FilesIfKept DEF candidates, IInv, Files
<1>7. Fit(p, new)'
  BY <1>1, <1>4, <1>5, <1>6 DEF Fit, Inside, AtOne, Wanted
<1> QED
  BY <1>2, <1>4, <1>5, <1>6, <1>7, ByJob

LEMMA CopyKeeps == ASSUME IInv, NEW p \in Proc, CopyFile(p) PROVE IInv'
<1>1. /\ job \in [Proc -> Job] /\ job[p] \in Job /\ Fit(p, job[p]) /\ job[p].pc = "copy"
      /\ Files
  BY DEF IInv, CopyFile, At
<1>2. PICK f, new :
        /\ f \in job[p].left
        /\ source' = [source EXCEPT ![f] = content[job[p].id][f]]
        /\ landed' = [landed EXCEPT ![job[p].id] = @ \cup {f}]
        /\ new = [job[p] EXCEPT !.left = @ \ {f}]
        /\ job' = [job EXCEPT ![p] = new]
  BY DEF CopyFile
<1>3. /\ new \in Job /\ new.pc = "copy" /\ new.id = job[p].id /\ new.for = job[p].for
      /\ new.left = job[p].left \ {f}
  BY <1>1, <1>2 DEF Job, PcOf
<1>4. /\ job[p].id \in Id /\ f \in Wanted(job[p].id) /\ f \in File
      /\ status[job[p].id] # "promoted" /\ writer = p /\ job[p].pc \in Inside
  BY <1>1, <1>2 DEF Fit, AtOne, Known, Job, Inside, Unsettled, Promotable
<1>5. UNCHANGED <<lines, status, candidates, run, writer, crashes>>
  BY DEF CopyFile
<1>6. \A k \in Id : landed'[k] = IF k = job[p].id THEN landed[k] \cup {f} ELSE landed[k]
  BY <1>1, <1>2, <1>4 DEF Files
<1>7. landed' \in [Id -> SUBSET File] /\ source' \in [File -> SUBSET Id]
  BY <1>1, <1>2, <1>4 DEF Files
<1>8. Files' /\ Known' = Known
  BY <1>1, <1>4, <1>5, <1>6, <1>7 DEF Files, candidates, Known, Wanted
<1>9. Fit(p, new)'
  <2>1. job[p].left \subseteq Wanted(job[p].id)
        /\ Wanted(job[p].id) \subseteq job[p].left \cup landed[job[p].id]
    BY <1>1 DEF Fit
  <2>2. \A k \in Id : Wanted(k)' = Wanted(k)
    BY <1>5 DEF candidates, Wanted
  <2>3. Wanted(new.id) \subseteq new.left \cup landed'[new.id]
    BY <1>3, <1>4, <1>6, <2>1
  <2> QED
    BY <1>1, <1>3, <1>4, <1>5, <1>8, <2>1, <2>2, <2>3 DEF Fit, AtOne
<1> QED
  BY <1>2, <1>3, <1>4, <1>5, <1>8, <1>9, LockIsMine, ByJob

LEMMA PromotedKeeps == ASSUME IInv, NEW p \in Proc, MarkPromoted(p) PROVE IInv'
<1>1. /\ job \in [Proc -> Job] /\ job[p] \in Job /\ Fit(p, job[p]) /\ job[p].pc = "copy"
      /\ job[p].left = {} /\ Files
  BY DEF IInv, MarkPromoted, Copied, At
<1>2. PICK new : /\ new = [job[p] EXCEPT !.pc = Onward(p)]
                 /\ job' = [job EXCEPT ![p] = new]
  BY DEF MarkPromoted
<1>3. new \in Job /\ new.pc \in {"leave", "approve"} /\ new.for = job[p].for
  BY <1>1, <1>2 DEF Job, PcOf, Onward
<1>4. /\ job[p].id \in Known /\ writer = p /\ job[p].pc \in Inside
      /\ landed[job[p].id] = Wanted(job[p].id)
  BY <1>1 DEF Fit, AtOne, Inside, Files, Known
<1>5. Row(job[p].id, "promoted") /\ UNCHANGED <<candidates, source, landed, run, writer, crashes>>
  BY DEF MarkPromoted
<1>6. Files' /\ Known' = Known
  BY <1>4, <1>5, RowKeepsFiles DEF Status
<1>7. Fit(p, new)'
  BY <1>1, <1>3, <1>4, <1>5, <1>6 DEF Fit, AtOne
<1> QED
  BY <1>2, <1>3, <1>4, <1>5, <1>6, <1>7, LockIsMine, ByJob

LEMMA FailKeeps == ASSUME IInv, NEW p \in Proc, Fail(p) PROVE IInv'
<1>1. /\ job \in [Proc -> Job] /\ job[p] \in Job /\ Fit(p, job[p])
      /\ job[p].pc \in {"check", "copy"} /\ Files
  BY DEF IInv, Fail, At
<1>2. PICK new : /\ new = [job[p] EXCEPT !.pc = Onward(p), !.left = {}, !.blocked = TRUE]
                 /\ job' = [job EXCEPT ![p] = new]
  BY DEF Fail
<1>3. new \in Job /\ new.pc \in {"leave", "approve"} /\ new.for = job[p].for
  BY <1>1, <1>2 DEF Job, PcOf, Onward
<1>4. job[p].id \in Known /\ writer = p /\ job[p].pc \in Inside
  BY <1>1 DEF Fit, AtOne, Inside
<1>5. /\ Row(job[p].id, "promotion_failed")
      /\ UNCHANGED <<candidates, source, landed, run, writer, crashes>>
  BY DEF Fail
<1>6. Files' /\ Known' = Known
  BY <1>4, <1>5, RowKeepsFiles DEF Status, Unsettled, Promotable
<1>7. Fit(p, new)'
  BY <1>1, <1>3, <1>4, <1>5, <1>6 DEF Fit, AtOne
<1> QED
  BY <1>2, <1>3, <1>4, <1>5, <1>6, <1>7, LockIsMine, ByJob

-----------------------------------------------------------------------------
(* Out of the lock: leaving, accept, crashes *)

\* A step that leaves the queue and the workspace and ends outside the lock.
LEMMA OutsideKeeps ==
  ASSUME IInv, NEW p \in Proc, NEW new \in Job, job' = [job EXCEPT ![p] = new],
         UNCHANGED <<lines, status, content, worktree, there, source, landed>>,
         run' \in {"open", "accepted", "blocked"}, crashes' \in 0..MaxCrashes,
         writer' \in {writer, NoProc}, writer \notin {p, NoProc} => writer' = writer,
         new.pc \notin Inside, new.for \subseteq Known
  PROVE  IInv'
<1>1. Files' /\ Known' = Known
  BY DEF IInv, Files, Known, Wanted
<1>2. Fit(p, new)'
  BY <1>1 DEF Fit, Inside, AtOne
<1> QED
  BY <1>1, <1>2, ByJob

LEMMA LeaveKeeps == ASSUME IInv, NEW p \in Proc, Leave(p) PROVE IInv'
<1>1. job[p] \in Job /\ Fit(p, job[p]) /\ Files
  BY DEF IInv
<1>2. PICK new : /\ new = IF job[p].accept THEN [job[p] EXCEPT !.pc = "look", !.id = 0] ELSE Idle
                 /\ job' = [job EXCEPT ![p] = new]
  BY DEF IInv, Leave
<1>3. new \in Job /\ new.pc \in {"look", "idle"} /\ new.for \subseteq Known
  <2>1. CASE job[p].accept
    <3>1. new = [job[p] EXCEPT !.pc = "look", !.id = 0]
      BY <1>2, <2>1
    <3>2. new \in Job /\ new.pc = "look" /\ new.for = job[p].for
      <4>1. 0 \in 0..LastRow
        BY PromotionAssumption
      <4> QED
        BY <1>1, <3>1, <4>1 DEF Job, PcOf
    <3> QED
      BY <1>1, <3>2 DEF Fit
  <2>2. CASE ~job[p].accept
    BY <1>2, <2>2, PromotionAssumption DEF Idle, Job, PcOf
  <2> QED
    BY <2>1, <2>2
<1>4. /\ UNCHANGED <<lines, status, content, worktree, there, source, landed, run, crashes>>
      /\ writer' = IF writer = p THEN NoProc ELSE writer
  BY DEF Leave, candidates
<1> QED
  BY <1>1, <1>2, <1>3, <1>4, OutsideKeeps DEF Files, Inside

LEMMA AcceptKeeps ==
  ASSUME IInv, NEW p \in Proc,
         AcceptBegins(p) \/ AcceptLooks(p) \/ AcceptWrites(p) \/ AcceptRefused(p)
  PROVE  IInv'
<1>1. job[p] \in Job /\ Fit(p, job[p]) /\ Files /\ job \in [Proc -> Job]
  BY DEF IInv
<1>2. /\ UNCHANGED <<lines, status, content, worktree, there, source, landed, writer, crashes>>
      /\ run' \in {"open", "accepted", "blocked"}
  BY <1>1 DEF AcceptBegins, AcceptLooks, AcceptWrites, AcceptRefused, candidates, Files
<1>3. Idle \in Job /\ Idle.pc = "idle" /\ Idle.for = {}
  BY PromotionAssumption DEF Idle, Job, PcOf
<1>4. PICK new \in Job : /\ job' = [job EXCEPT ![p] = new]
                         /\ new.pc \notin Inside /\ new.for \subseteq Known
  <2>1. CASE AcceptBegins(p)
    <3>a. PICK l \in {"look", "accept"} :
            job' = [job EXCEPT ![p] = [Idle EXCEPT !.accept = TRUE, !.pc = l]]
      BY <2>1 DEF AcceptBegins
    <3>1. PICK new : /\ new = [Idle EXCEPT !.accept = TRUE, !.pc = l]
                     /\ job' = [job EXCEPT ![p] = new]
      BY <3>a
    <3>2. new \in Job /\ new.pc \notin Inside /\ new.for = {}
      <4>1. new = [pc |-> l, for |-> {}, id |-> 0, left |-> {}, accept |-> TRUE,
                   blocked |-> FALSE]
        BY <3>1 DEF Idle
      <4> QED
        BY <4>1, PromotionAssumption DEF Job, PcOf, Inside
    <3> QED
      BY <3>1, <3>2
  <2>2. CASE AcceptLooks(p)
    <3>1. PICK new : /\ new = [job[p] EXCEPT !.pc = "write",
                                            !.blocked = job[p].blocked \/ Open # {}]
                     /\ job' = [job EXCEPT ![p] = new]
      BY <1>1, <2>2 DEF AcceptLooks
    <3>2. new \in Job /\ new.pc = "write" /\ new.for = job[p].for
      BY <1>1, <3>1 DEF Job, PcOf
    <3> QED
      BY <1>1, <3>1, <3>2 DEF Inside, Fit
  <2>3. CASE AcceptWrites(p) \/ AcceptRefused(p)
    BY <1>3, <2>3 DEF AcceptWrites, AcceptRefused, Inside
  <2> QED
    BY <2>1, <2>2, <2>3
<1> QED
  BY <1>1, <1>2, <1>4, OutsideKeeps DEF Files

LEMMA CrashKeeps == ASSUME IInv, NEW p \in Proc, Crash(p) PROVE IInv'
<1>1. Idle \in Job /\ Idle.pc = "idle" /\ Idle.for = {}
  BY PromotionAssumption DEF Idle, Job, PcOf
<1>2. Files
  BY DEF IInv
<1>3. /\ UNCHANGED <<lines, status, content, worktree, there, source, landed, run>>
      /\ writer' = IF writer = p THEN NoProc ELSE writer
      /\ crashes' \in 0..MaxCrashes
      /\ job' = [job EXCEPT ![p] = Idle]
  BY <1>2, PromotionAssumption DEF Crash, candidates, Files
<1> QED
  BY <1>1, <1>2, <1>3, OutsideKeeps DEF Files, Inside

LEMMA Kept == IInv /\ [Next]_vars => IInv'
<1>1. ASSUME IInv, NEW p \in Proc, Step(p) PROVE IInv'
  BY <1>1, AttemptKeeps, CommandKeeps, ApproveAllKeeps, ApproveKeeps, RetryKeeps, RejectKeeps,
     RemoveKeeps, ValidateKeeps, CopyKeeps, PromotedKeeps, FailKeeps, LeaveKeeps, AcceptKeeps,
     CrashKeeps
  DEF Step
<1>2. ASSUME IInv, UNCHANGED vars PROVE IInv'
  BY <1>2 DEF vars, IInv, Files, Fit, Known, Wanted
<1> QED
  BY <1>1, <1>2 DEF Next

\* Queue, candidates, workspace and processes keep their types, and nothing but
\* the files of a promotion is ever copied for it.
THEOREM TypeCorrect == Spec => []TypeOK
<1>1. IInv => TypeOK
  BY DEF IInv, Files, TypeOK, Job
<1> QED
  BY <1>1, Starts, Kept, PTL DEF Spec
-----------------------------------------------------------------------------
(* Rows and what happened *)

\* Only the driver writes auto_approved, and it has such a promotion in hand
\* until its next row, unless a process died.
AutoInv ==
    \A i \in Id : status[i] = "auto_approved" =>
        \/ crashes > 0
        \/ job[Driver].id = i /\ job[Driver].pc \in {"check", "copy"}

\* A row other than auto_approved, of the driver's promotion or while the
\* driver has none in hand or does not move.
LEMMA RowKeepsAuto ==
  ASSUME IInv, AutoInv, NEW i \in Id, NEW st \in Status \ {"auto_approved"}, Row(i, st),
         UNCHANGED crashes,
         \/ job'[Driver] = job[Driver]
         \/ i = job[Driver].id
         \/ job[Driver].pc \notin {"check", "copy"}
  PROVE  AutoInv'
<1>1. \A k \in Id : status'[k] = IF k = i THEN st ELSE status[k]
  BY DEF Row, IInv, Files
<1> QED
  BY <1>1 DEF AutoInv

LEMMA NoRowKeepsAuto ==
  ASSUME IInv, AutoInv, UNCHANGED <<status, crashes>>,
         \/ job'[Driver] = job[Driver]
         \/ job[Driver].pc \notin {"check", "copy"}
         \/ job'[Driver].id = job[Driver].id /\ job'[Driver].pc = "copy"
  PROVE  AutoInv'
  BY DEF AutoInv

LEMMA AutoKept == ASSUME IInv, AutoInv, NEW p \in Proc, Step(p) PROVE AutoInv'
<1>1. /\ job \in [Proc -> Job] /\ job[p] \in Job /\ Fit(p, job[p]) /\ Files
      /\ Driver \in Proc /\ job[Driver] \in Job
  BY DEF IInv, Proc
<1>2. ASSUME NEW new, job' = [job EXCEPT ![p] = new], p # Driver
      PROVE  job'[Driver] = job[Driver]
  BY <1>1, <1>2
<1>3. CASE Attempt(p)
  <2>a. PICK manual \in BOOLEAN :
          /\ Row(lines + 1, IF manual THEN "pending_manual_approval" ELSE "auto_approved")
          /\ job' = [job EXCEPT ![Driver] =
                [Idle EXCEPT !.pc = IF manual THEN "leave" ELSE "check", !.id = lines + 1]]
    BY <1>3 DEF Attempt
  <2>1. PICK i, new :
          /\ Row(i, IF manual THEN "pending_manual_approval" ELSE "auto_approved")
          /\ new = [Idle EXCEPT !.pc = IF manual THEN "leave" ELSE "check", !.id = i]
          /\ job' = [job EXCEPT ![Driver] = new]
    BY <2>a
  <2>2. new.id = i /\ (~manual => new.pc = "check")
    BY <2>1 DEF Idle
  <2>3. job'[Driver] = new
    BY <1>1, <2>1
  <2>4. job[Driver].pc = "idle" /\ UNCHANGED crashes
    BY <1>3 DEF Attempt, At
  <2>5. \A k \in Id : k # i => status'[k] = status[k]
    BY <1>1, <2>1 DEF Row, Files
  <2>6. ASSUME NEW k \in Id, status'[k] = "auto_approved"
        PROVE  \/ crashes' > 0
               \/ job'[Driver].id = k /\ job'[Driver].pc \in {"check", "copy"}
    <3>1. CASE k = i
      <4>1. ~manual
        BY <1>1, <2>1, <2>6, <3>1 DEF Row, Files
      <4> QED
        BY <2>2, <2>3, <3>1, <4>1
    <3>2. CASE k # i
      <4>1. status[k] = "auto_approved"
        BY <2>5, <2>6, <3>2
      <4>2. crashes > 0
        BY <2>4, <4>1 DEF AutoInv
      <4> QED
        BY <2>4, <4>2
    <3> QED
      BY <3>1, <3>2
  <2> QED
    BY <2>6 DEF AutoInv
<1>4. CASE \E i \in Id, pc \in {"approve", "retry", "reject", "discard"} : Command(p, i, pc)
  <2>1. p # Driver /\ UNCHANGED <<status, crashes>>
    BY <1>4, PromotionAssumption DEF Command
  <2>2. job'[Driver] = job[Driver]
    BY <1>1, <1>4, <2>1 DEF Command
  <2> QED
    BY <2>1, <2>2, NoRowKeepsAuto
<1>5. CASE ApproveAll(p) \/ Retry(p) \/ RemoveCandidate(p) \/ Leave(p)
           \/ AcceptBegins(p) \/ AcceptLooks(p) \/ AcceptWrites(p) \/ AcceptRefused(p)
  <2>1. p # Driver \/ job[p].pc \notin {"check", "copy"}
    BY <1>5, PromotionAssumption
    DEF ApproveAll, Retry, RemoveCandidate, Leave, AcceptBegins, AcceptLooks, AcceptWrites,
        AcceptRefused, At
  <2>2. UNCHANGED <<status, crashes>>
    BY <1>5 DEF ApproveAll, Retry, RemoveCandidate, Leave, AcceptBegins, AcceptLooks, AcceptWrites,
                AcceptRefused
  <2>3. \E new : job' = [job EXCEPT ![p] = new]
    BY <1>5 DEF ApproveAll, Retry, RemoveCandidate, Leave, AcceptBegins, AcceptLooks, AcceptWrites,
                AcceptRefused
  <2> QED
    BY <1>2, <2>1, <2>2, <2>3, NoRowKeepsAuto
<1>6. CASE Validate(p) \/ CopyFile(p)
  <2>1. UNCHANGED <<status, crashes>>
    BY <1>6 DEF Validate, CopyFile
  <2>2. PICK new : job' = [job EXCEPT ![p] = new] /\ new.id = job[p].id /\ new.pc = "copy"
    <3>1. CASE Validate(p)
      <4>1. PICK new : /\ new = [job[p] EXCEPT !.pc = "copy", !.left = Wanted(job[p].id)]
                       /\ job' = [job EXCEPT ![p] = new]
        BY <3>1 DEF Validate
      <4>2. Wanted(job[p].id) \subseteq File
        BY DEF Wanted
      <4>3. new.id = job[p].id /\ new.pc = "copy"
        BY <1>1, <4>1, <4>2 DEF Job
      <4> QED
        BY <4>1, <4>3
    <3>2. CASE CopyFile(p)
      <4>1. PICK f, new : /\ new = [job[p] EXCEPT !.left = @ \ {f}]
                          /\ job' = [job EXCEPT ![p] = new]
        BY <3>2 DEF CopyFile
      <4>2. new.id = job[p].id /\ new.pc = "copy"
        BY <1>1, <3>2, <4>1 DEF Job, CopyFile, At
      <4> QED
        BY <4>1, <4>2
    <3> QED
      BY <1>6, <3>1, <3>2
  <2> QED
    BY <1>1, <1>2, <2>1, <2>2, NoRowKeepsAuto
<1>7. CASE Approve(p) \/ Reject(p) \/ MarkDiscarded(p)
  <2>1. p # Driver \/ job[p].pc \notin {"check", "copy"}
    BY <1>7 DEF Approve, Reject, MarkDiscarded, At
  <2>2. PICK i \in Id, st \in Status \ {"auto_approved"} : Row(i, st) /\ UNCHANGED crashes
    BY <1>1, <1>7
    DEF Approve, Reject, MarkDiscarded, Status, Unsettled, Promotable, Fit, AtOne, Known, At, Job
  <2>3. \E new : job' = [job EXCEPT ![p] = new]
    BY <1>7 DEF Approve, Reject, MarkDiscarded
  <2> QED
    BY <1>2, <2>1, <2>2, <2>3, RowKeepsAuto
<1>8. CASE MarkPromoted(p) \/ Fail(p)
  <2>1. PICK st \in Status \ {"auto_approved"} : Row(job[p].id, st) /\ UNCHANGED crashes
    BY <1>8 DEF MarkPromoted, Fail, Status, Unsettled, Promotable
  <2>2. job[p].id \in Id
    BY <1>1, <1>8 DEF MarkPromoted, Copied, Fail, At, Fit, AtOne, Known
  <2>3. \E new : job' = [job EXCEPT ![p] = new]
    BY <1>8 DEF MarkPromoted, Fail
  <2> QED
    BY <1>2, <2>1, <2>2, <2>3, RowKeepsAuto
<1>9. CASE Crash(p)
  BY <1>1, <1>9, PromotionAssumption DEF Crash, AutoInv, Files
<1> QED
  BY <1>3, <1>4, <1>5, <1>6, <1>7, <1>8, <1>9 DEF Step

\* What the queue says of a promotion is what happened to the workspace: one
\* that counts as promoted has brought all its files, and an auto_approved one
\* is in its driver's hands unless a process died.
THEOREM RowsAreTrue == Spec => []LandedAsRecorded
<1>1. Init => IInv /\ AutoInv
  BY Starts DEF Init, AutoInv
<1>2. IInv /\ AutoInv /\ [Next]_vars => (IInv /\ AutoInv)'
  <2>1. ASSUME IInv, AutoInv, UNCHANGED vars PROVE AutoInv'
    BY <2>1 DEF vars, AutoInv
  <2> QED
    BY <2>1, Kept, AutoKept DEF Next
<1>3. IInv /\ AutoInv => LandedAsRecorded
  <2>1. Driver \in Proc
    BY DEF Proc
  <2> QED
    BY <2>1 DEF IInv, Files, AutoInv, LandedAsRecorded, At
<1> QED
  BY <1>1, <1>2, <1>3, PTL DEF Spec
-----------------------------------------------------------------------------
(* Promotions implements Landing *)

\* The state of Landing that the refinement mapping of L gives it.
Opened    == {job[p].id : p \in Copying}
AllWanted == [i \in Id |-> Wanted(i)]
Told(st)  == CASE st = "promoted" -> "landed"
               [] st \in {"rejected", "discarded"} -> "refused"
               [] OTHER -> "undecided"
Outcome   == [i \in Id |-> Told(status[i])]

LEMMA ToldIs ==
  /\ Told("promoted") = "landed"
  /\ Told("rejected") = "refused" /\ Told("discarded") = "refused"
  /\ \A st \in Unsettled \cup {"none"} : Told(st) = "undecided"
  BY DEF Told, Unsettled, Promotable

LEMMA LandingStarts == Init => L!Init
<1> SUFFICES ASSUME Init PROVE L!Init
  OBVIOUS
<1>1. Opened = {}
  <2>1. \A p \in Proc : job[p].pc = "idle"
    BY DEF Init, Idle
  <2> QED
    BY <2>1 DEF Opened, Copying, At
<1>2. AllWanted = [i \in Id |-> {}]
  BY DEF Init, AllWanted, Wanted
<1>3. Outcome = [i \in Id |-> "undecided"]
  <2>1. \A i \in Id : Told(status[i]) = "undecided"
    BY ToldIs DEF Init
  <2> QED
    BY <2>1 DEF Outcome
<1>4. landed = [i \in Id |-> {}]
  BY DEF Init
<1> QED
  BY <1>1, <1>2, <1>3, <1>4 DEF L!Init, Opened, AllWanted, Outcome, Told

\* One more row of promotion i, and what Landing sees of it.
LEMMA RowMaps ==
  ASSUME IInv, NEW i \in Id, NEW st, Row(i, st)
  PROVE  Outcome' = [Outcome EXCEPT ![i] = Told(st)]
<1>1. status \in [Id -> Status] /\ status' = [status EXCEPT ![i] = st]
  BY DEF IInv, Files, Row
<1>2. \A k \in Id : status'[k] = IF k = i THEN st ELSE status[k]
  BY <1>1
<1> QED
  BY <1>2 DEF Outcome

LEMMA SameRowMaps ==
  ASSUME IInv, NEW i \in Id, NEW st \in Unsettled, Row(i, st), status[i] \in Unsettled \cup {"none"}
  PROVE  Outcome' = Outcome
<1>1. Outcome' = [Outcome EXCEPT ![i] = Told(st)]
  BY RowMaps
<1>2. Told(st) = Outcome[i]
  BY ToldIs DEF Outcome
<1> QED
  BY <1>1, <1>2 DEF Outcome

\* Nobody else is copying while p is, or may be, inside the lock.
LEMMA OpenedIs ==
  ASSUME IInv, NEW p \in Proc, Alone(p)
  PROVE  Opened = IF job[p].pc = "copy" THEN {job[p].id} ELSE {}
<1>1. \A q \in Proc : job[q].pc = "copy" => q = p
  BY DEF Alone, Inside
<1> QED
  BY <1>1 DEF Opened, Copying, At

LEMMA OpenedBecomes ==
  ASSUME IInv, NEW p \in Proc, Alone(p), NEW new, job' = [job EXCEPT ![p] = new]
  PROVE  Opened' = IF new.pc = "copy" THEN {new.id} ELSE {}
<1>1. \A q \in Proc : job'[q] = IF q = p THEN new ELSE job[q]
  BY DEF IInv
<1>2. \A q \in Proc : job'[q].pc = "copy" => q = p
  BY <1>1 DEF Alone, Inside
<1>3. Opened' = {job'[q].id : q \in {q \in Proc : job'[q].pc = "copy"}}
  BY DEF Opened, Copying, At
<1> QED
  BY <1>1, <1>2, <1>3

LEMMA OpenedStays ==
  ASSUME IInv, NEW p \in Proc, NEW new, job' = [job EXCEPT ![p] = new],
         job[p].pc # "copy", new.pc # "copy"
  PROVE  Opened' = Opened
<1>1. \A q \in Proc : job'[q] = IF q = p THEN new ELSE job[q]
  BY DEF IInv
<1>2. \A q \in Proc : job'[q].pc = "copy" <=> job[q].pc = "copy"
  BY <1>1
<1>3. Opened' = {job'[q].id : q \in {q \in Proc : job'[q].pc = "copy"}}
  BY DEF Opened, Copying, At
<1>4. Opened = {job[q].id : q \in {q \in Proc : job[q].pc = "copy"}}
  BY DEF Opened, Copying, At
<1>5. \A q \in Proc : job[q].pc = "copy" => job'[q].id = job[q].id
  BY <1>1
<1> QED
  BY <1>2, <1>3, <1>4, <1>5

\* A step that only moves a process that copies neither before nor after.
LEMMA Stutters ==
  ASSUME IInv, NEW p \in Proc, NEW new, job' = [job EXCEPT ![p] = new],
         job[p].pc # "copy", new.pc # "copy",
         UNCHANGED <<content, landed>>, Outcome' = Outcome
  PROVE  UNCHANGED L!vars
<1>1. Opened' = Opened
  BY OpenedStays
<1>2. AllWanted' = AllWanted /\ landed' = landed
  BY DEF AllWanted, Wanted
<1> QED
  BY <1>1, <1>2 DEF L!vars, Opened, AllWanted, Outcome, Told

LEMMA OutcomeStays == ASSUME UNCHANGED status PROVE Outcome' = Outcome
  BY DEF Outcome
LEMMA AttemptMaps == ASSUME IInv, NEW p \in Proc, Attempt(p) PROVE L!Next
<1>1. job \in [Proc -> Job] /\ Files /\ At(p, "idle") /\ writer = NoProc
  BY DEF IInv, Attempt, Enter
<1>2. PICK S \in (SUBSET File) \ {{}}, manual \in BOOLEAN :
        /\ Row(lines + 1, IF manual THEN "pending_manual_approval" ELSE "auto_approved")
        /\ content' = [content EXCEPT ![lines + 1] =
              [f \in File |-> IF f \in S THEN source[f] \cup {lines + 1} ELSE {}]]
        /\ job' = [job EXCEPT ![p] = [Idle EXCEPT
              !.pc = IF manual THEN "leave" ELSE "check", !.id = lines + 1]]
  BY DEF Attempt
<1>3. PICK i : i = lines + 1
  OBVIOUS
<1>4. PICK new : /\ new = [Idle EXCEPT !.pc = IF manual THEN "leave" ELSE "check", !.id = i]
                 /\ job' = [job EXCEPT ![p] = new]
  BY <1>2, <1>3
<1>5. i \in Id /\ ~(i <= lines)
  BY <1>1, <1>2, <1>3, PromotionAssumption DEF Files, Row, Id
<1>6. i \notin Known /\ Wanted(i) = {} /\ status[i] = "none"
  BY <1>1, <1>5 DEF Files, Known
<1>7. /\ \A k \in Id : k # i => content'[k] = content[k]
      /\ \A f \in File : content'[i][f] = IF f \in S THEN source[f] \cup {i} ELSE {}
  BY <1>1, <1>2, <1>3, <1>5 DEF Files
<1>8. \A k \in Id : Wanted(k)' = IF k = i THEN S ELSE Wanted(k)
  BY <1>5, <1>7 DEF Wanted
<1>9. AllWanted[i] = {} /\ AllWanted' = [AllWanted EXCEPT ![i] = S] /\ S \in SUBSET File
  BY <1>5, <1>6, <1>8 DEF AllWanted
<1>10. Alone(p)
  BY <1>1, LockIsMine
<1>11. new.pc # "copy"
  BY <1>4 DEF Idle
<1>12. Opened = {} /\ Opened' = {}
  BY <1>1, <1>4, <1>10, <1>11, OpenedIs, OpenedBecomes DEF At
<1>13. Outcome' = Outcome
  <2>1. CASE manual
    BY <1>2, <1>3, <1>5, <1>6, <2>1, SameRowMaps DEF Unsettled, Promotable
  <2>2. CASE ~manual
    BY <1>2, <1>3, <1>5, <1>6, <2>2, SameRowMaps DEF Unsettled, Promotable
  <2> QED
    BY <2>1, <2>2
<1>14. landed' = landed
  BY DEF Attempt
<1>15. L!Propose(i, S)
  BY <1>9, <1>12, <1>13, <1>14 DEF L!Propose, Opened, AllWanted, Outcome, Told
<1> QED
  BY <1>5, <1>9, <1>15 DEF L!Next

\* A row that approves or refuses a known promotion inside the lock, while
\* nothing is copied.
LEMMA DecisionMaps ==
  ASSUME IInv, NEW p \in Proc, NEW i \in Known, NEW st, Row(i, st),
         Told(st) \in {"undecided", "refused"},
         NEW new, job' = [job EXCEPT ![p] = new],
         Alone(p), job[p].pc # "copy", new.pc # "copy",
         UNCHANGED <<content, landed>>
  PROVE  L!Next
<1>1. i \in Id /\ AllWanted[i] # {}
  BY DEF IInv, Files, Known, AllWanted
<1>2. Outcome' = [Outcome EXCEPT ![i] = Told(st)]
  BY <1>1, RowMaps
<1>3. Opened = {} /\ Opened' = {}
  BY OpenedIs, OpenedBecomes
<1>4. AllWanted' = AllWanted /\ landed' = landed
  BY DEF AllWanted, Wanted
<1>5. PICK o \in {"undecided", "refused"} : Outcome' = [Outcome EXCEPT ![i] = o]
  BY <1>2
<1>6. L!Decide(i)
  BY <1>1, <1>3, <1>4, <1>5 DEF L!Decide, Opened, AllWanted, Outcome, Told
<1> QED
  BY <1>1, <1>6 DEF L!Next

LEMMA ApproveMaps == ASSUME IInv, NEW p \in Proc, Approve(p) PROVE L!Next
<1>1. job[p] \in Job /\ Fit(p, job[p]) /\ job[p].pc = "approve"
  BY DEF IInv, Approve, At
<1>2. PICK i \in job[p].for :
        /\ Row(i, "approved")
        /\ job' = [job EXCEPT ![p] = [job[p] EXCEPT !.pc = "check", !.id = i, !.for = @ \ {i}]]
  BY DEF Approve, IInv
<1>3. PICK new : /\ new = [job[p] EXCEPT !.pc = "check", !.id = i, !.for = @ \ {i}]
                 /\ job' = [job EXCEPT ![p] = new]
  BY <1>2
<1>4. i \in Known /\ i \in 0..LastRow
  BY <1>1, PromotionAssumption DEF Fit, Known, Id
<1>5. new.pc = "check"
  BY <1>1, <1>3, <1>4 DEF Job
<1>6. Alone(p)
  BY <1>1, LockIsMine DEF Inside
<1>7. Told("approved") = "undecided"
  BY ToldIs DEF Unsettled, Promotable
<1>8. UNCHANGED <<content, landed>>
  BY DEF Approve, candidates
<1> QED
  BY <1>1, <1>2, <1>3, <1>4, <1>5, <1>6, <1>7, <1>8, DecisionMaps

LEMMA RejectMaps == ASSUME IInv, NEW p \in Proc, Reject(p) \/ MarkDiscarded(p) PROVE L!Next
<1>1. /\ job[p] \in Job /\ Fit(p, job[p])
      /\ job[p].pc \in {"reject", "discarded"}
  BY DEF IInv, Reject, MarkDiscarded, At
<1>2. PICK st \in {"rejected", "discarded"} : Row(job[p].id, st)
  BY DEF Reject, MarkDiscarded
<1>3. PICK new : /\ new = [job[p] EXCEPT !.pc = "leave"]
                 /\ job' = [job EXCEPT ![p] = new]
  BY DEF Reject, MarkDiscarded, IInv
<1>4. new.pc = "leave"
  BY <1>1, <1>3 DEF Job
<1>5. job[p].id \in Known /\ Alone(p)
  BY <1>1, LockIsMine DEF Fit, Inside, AtOne
<1>6. Told(st) = "refused"
  BY ToldIs
<1>7. UNCHANGED <<content, landed>>
  BY DEF Reject, MarkDiscarded, candidates
<1> QED
  BY <1>1, <1>2, <1>3, <1>4, <1>5, <1>6, <1>7, DecisionMaps

LEMMA ValidateMaps == ASSUME IInv, NEW p \in Proc, Validate(p) PROVE L!Next
<1>1. job[p] \in Job /\ Fit(p, job[p]) /\ job[p].pc = "check"
  BY DEF IInv, Validate, At
<1>2. PICK new : /\ new = [job[p] EXCEPT !.pc = "copy", !.left = Wanted(job[p].id)]
                 /\ job' = [job EXCEPT ![p] = new]
  BY DEF Validate, IInv
<1>3. Wanted(job[p].id) \subseteq File
  BY DEF Wanted
<1>4. new.pc = "copy" /\ new.id = job[p].id
  BY <1>1, <1>2, <1>3 DEF Job
<1>5. job[p].id \in Id /\ Outcome[job[p].id] = "undecided"
  BY <1>1, ToldIs DEF Fit, AtOne, Known, Outcome
<1>6. Alone(p)
  BY <1>1, LockIsMine DEF Inside
<1>a. Opened = {}
  BY <1>1, <1>6, OpenedIs
<1>b. Opened' = {new.id}
  BY <1>2, <1>4, <1>6, OpenedBecomes
<1>7. Opened = {} /\ Opened' = {job[p].id}
  BY <1>4, <1>a, <1>b
<1>8. AllWanted' = AllWanted /\ landed' = landed /\ Outcome' = Outcome
  BY OutcomeStays DEF Validate, candidates, AllWanted, Wanted
<1>9. PICK i \in Id : i = job[p].id
  BY <1>5
<1>10. L!Begin(i)
  BY <1>5, <1>7, <1>8, <1>9 DEF L!Begin, Opened, AllWanted, Outcome, Told
<1> QED
  BY <1>10 DEF L!Next

LEMMA CopyMaps == ASSUME IInv, NEW p \in Proc, CopyFile(p) PROVE L!Next
<1>1. job[p] \in Job /\ Fit(p, job[p]) /\ job[p].pc = "copy"
  BY DEF IInv, CopyFile, At
<1>2. PICK f \in job[p].left :
        /\ landed' = [landed EXCEPT ![job[p].id] = @ \cup {f}]
        /\ job' = [job EXCEPT ![p] = [job[p] EXCEPT !.left = @ \ {f}]]
  BY DEF CopyFile, IInv
<1>3. PICK new : /\ new = [job[p] EXCEPT !.left = @ \ {f}]
                 /\ job' = [job EXCEPT ![p] = new]
  BY <1>2
<1>4. new.pc = "copy" /\ new.id = job[p].id
  BY <1>1, <1>3 DEF Job
<1>5. job[p].id \in Id /\ f \in AllWanted[job[p].id] /\ f \in File
  BY <1>1 DEF Fit, AtOne, Known, AllWanted, Job
<1>6. Alone(p)
  BY <1>1, LockIsMine DEF Inside
<1>a. Opened = {job[p].id}
  BY <1>1, <1>6, OpenedIs
<1>b. Opened' = {new.id}
  BY <1>3, <1>4, <1>6, OpenedBecomes
<1>7. Opened = {job[p].id} /\ Opened' = Opened
  BY <1>4, <1>a, <1>b
<1>8. AllWanted' = AllWanted /\ Outcome' = Outcome
  BY OutcomeStays DEF CopyFile, candidates, AllWanted, Wanted
<1>9. PICK i \in Id, g \in File : i = job[p].id /\ g = f
  BY <1>5
<1>10. L!Copy(i, g)
  BY <1>2, <1>5, <1>7, <1>8, <1>9 DEF L!Copy, Opened, AllWanted, Outcome, Told
<1> QED
  BY <1>10 DEF L!Next

\* The process that copies stops copying: complete, or given up.
LEMMA EndMaps ==
  ASSUME IInv, NEW p \in Proc, job[p].pc = "copy",
         NEW new, job' = [job EXCEPT ![p] = new], new.pc # "copy",
         UNCHANGED <<content, landed>>,
         \/ /\ landed[job[p].id] = Wanted(job[p].id)
            /\ Outcome' = [Outcome EXCEPT ![job[p].id] = "landed"]
         \/ Outcome' = Outcome
  PROVE  L!Next
<1>1. job[p].id \in Id /\ Alone(p)
  BY LockIsMine DEF IInv, Fit, AtOne, Known, Inside
<1>2. Opened = {job[p].id} /\ Opened' = {}
  BY <1>1, OpenedIs, OpenedBecomes
<1>3. AllWanted' = AllWanted /\ landed' = landed
  BY DEF AllWanted, Wanted
<1>4. \/ landed[job[p].id] = AllWanted[job[p].id]
         /\ Outcome' = [Outcome EXCEPT ![job[p].id] = "landed"]
      \/ Outcome' = Outcome
  BY <1>1 DEF AllWanted
<1>5. PICK i \in Id : i = job[p].id
  BY <1>1
<1>6. L!End(i)
  BY <1>2, <1>3, <1>4, <1>5 DEF L!End, Opened, AllWanted, Outcome, Told
<1> QED
  BY <1>6 DEF L!Next

LEMMA PromotedMaps == ASSUME IInv, NEW p \in Proc, MarkPromoted(p) PROVE L!Next
<1>1. job[p] \in Job /\ Fit(p, job[p]) /\ job[p].pc = "copy" /\ job[p].left = {} /\ Files
  BY DEF IInv, MarkPromoted, Copied, At
<1>2. PICK new : /\ new = [job[p] EXCEPT !.pc = Onward(p)]
                 /\ job' = [job EXCEPT ![p] = new]
  BY DEF MarkPromoted, IInv
<1>3. new.pc # "copy"
  BY <1>1, <1>2 DEF Job, Onward
<1>4. job[p].id \in Id /\ landed[job[p].id] = Wanted(job[p].id)
  BY <1>1 DEF Fit, AtOne, Files, Known
<1>5. Outcome' = [Outcome EXCEPT ![job[p].id] = "landed"]
  BY <1>4, RowMaps, ToldIs DEF MarkPromoted
<1>6. UNCHANGED <<content, landed>>
  BY DEF MarkPromoted, candidates
<1> QED
  BY <1>1, <1>2, <1>3, <1>4, <1>5, <1>6, EndMaps

LEMMA FailMaps == ASSUME IInv, NEW p \in Proc, Fail(p) PROVE L!Next \/ UNCHANGED L!vars
<1>1. job[p] \in Job /\ Fit(p, job[p]) /\ job[p].pc \in {"check", "copy"}
  BY DEF IInv, Fail, At
<1>2. PICK new : /\ new = [job[p] EXCEPT !.pc = Onward(p), !.left = {}, !.blocked = TRUE]
                 /\ job' = [job EXCEPT ![p] = new]
  BY DEF Fail, IInv
<1>3. new.pc # "copy"
  BY <1>1, <1>2 DEF Job, Onward
<1>4. job[p].id \in Id /\ status[job[p].id] \in Unsettled
  BY <1>1 DEF Fit, AtOne, Known
<1>5. Outcome' = Outcome
  BY <1>4, SameRowMaps DEF Fail, Unsettled, Promotable
<1>6. UNCHANGED <<content, landed>>
  BY DEF Fail, candidates
<1> QED
  BY <1>1, <1>2, <1>3, <1>5, <1>6, EndMaps, Stutters

LEMMA CrashMaps == ASSUME IInv, NEW p \in Proc, Crash(p) PROVE L!Next \/ UNCHANGED L!vars
<1>1. Idle.pc # "copy" /\ job' = [job EXCEPT ![p] = Idle] /\ UNCHANGED <<content, landed>>
  BY DEF Crash, candidates, Idle
<1>2. Outcome' = Outcome
  BY OutcomeStays DEF Crash
<1> QED
  BY <1>1, <1>2, EndMaps, Stutters

LEMMA OthersStutter ==
  ASSUME IInv, NEW p \in Proc,
         \/ \E i \in Id, pc \in {"approve", "retry", "reject", "discard"} : Command(p, i, pc)
         \/ ApproveAll(p) \/ Retry(p) \/ RemoveCandidate(p) \/ Leave(p)
         \/ AcceptBegins(p) \/ AcceptLooks(p) \/ AcceptWrites(p) \/ AcceptRefused(p)
  PROVE  UNCHANGED L!vars
<1>1. job[p] \in Job /\ job \in [Proc -> Job]
  BY DEF IInv
<1>2. UNCHANGED <<status, content, landed>>
  BY DEF Command, ApproveAll, Retry, RemoveCandidate, Leave, AcceptBegins, AcceptLooks,
         AcceptWrites, AcceptRefused, candidates
<1>3. job[p].pc # "copy"
  BY DEF Command, ApproveAll, Retry, RemoveCandidate, Leave, AcceptBegins, AcceptLooks,
         AcceptWrites, AcceptRefused, At
<1>4. PICK new : job' = [job EXCEPT ![p] = new]
  <2>1. ASSUME NEW i, NEW pc, Command(p, i, pc)
        PROVE  \E new : job' = [job EXCEPT ![p] = new]
    BY <1>1, <2>1 DEF Command
  <2> QED
    BY <2>1 DEF ApproveAll, Retry, RemoveCandidate, Leave, AcceptBegins, AcceptLooks,
                AcceptWrites, AcceptRefused
<1>5. new = job'[p]
  BY <1>1, <1>4
<1>6. job'[p].pc # "copy"
  <2>1. CASE \E i \in Id, pc \in {"approve", "retry", "reject", "discard"} : Command(p, i, pc)
    <3>1. PICK i \in Id, pc \in {"approve", "retry", "reject", "discard"} :
            job' = [job EXCEPT ![p].pc = pc, ![p].id = i, ![p].for = IF pc = "approve" THEN {i} ELSE {}]
      BY <2>1 DEF Command
    <3>2. job'[p].pc = pc
      BY <1>1, <3>1 DEF Job
    <3> QED
      BY <3>2
  <2>2. CASE ApproveAll(p)
    BY <1>1, <2>2 DEF ApproveAll, Job, Idle
  <2>3. CASE Retry(p) \/ RemoveCandidate(p)
    BY <1>1, <2>3 DEF Retry, RemoveCandidate, Job
  <2>4. CASE Leave(p)
    BY <1>1, <2>4 DEF Leave, Job, Idle
  <2>5. CASE AcceptBegins(p)
    BY <1>1, <2>5 DEF AcceptBegins, Idle
  <2>6. CASE AcceptLooks(p)
    BY <1>1, <2>6 DEF AcceptLooks, Job
  <2>7. CASE AcceptWrites(p) \/ AcceptRefused(p)
    BY <1>1, <2>7 DEF AcceptWrites, AcceptRefused, Idle
  <2> QED
    BY <2>1, <2>2, <2>3, <2>4, <2>5, <2>6, <2>7
<1> QED
  BY <1>2, <1>3, <1>4, <1>5, <1>6, Stutters, OutcomeStays

LEMMA StepMaps == IInv /\ [Next]_vars => [L!Next]_(L!vars)
<1>1. ASSUME IInv, NEW p \in Proc, Step(p) PROVE L!Next \/ UNCHANGED L!vars
  BY <1>1, AttemptMaps, ApproveMaps, RejectMaps, ValidateMaps, CopyMaps, PromotedMaps, FailMaps,
     CrashMaps, OthersStutter
  DEF Step
<1>2. ASSUME IInv, UNCHANGED vars PROVE UNCHANGED L!vars
  <2>1. Outcome' = Outcome /\ AllWanted' = AllWanted /\ landed' = landed /\ Opened' = Opened
    BY <1>2, OutcomeStays DEF vars, AllWanted, Wanted, Opened, Copying, At
  <2> QED
    BY <2>1 DEF L!vars, Opened, AllWanted, Outcome, Told
<1> QED
  BY <1>1, <1>2 DEF Next

\* The files of one promotion at a time are copied into the main workspace,
\* never of a refused one, and it counts as landed only with all of them,
\* whatever operators, accepts and the driver do at once.
THEOREM Lands == Spec => RefinesLanding
<1>1. Init /\ [][Next]_vars => []IInv
  BY Starts, Kept, PTL
<1> QED
  BY <1>1, LandingStarts, StepMaps, PTL DEF Spec, RefinesLanding, L!Spec
=============================================================================
