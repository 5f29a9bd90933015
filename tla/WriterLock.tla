----------------------------- MODULE WriterLock -----------------------------
(***************************************************************************)
(* core/workspace_writer_lock.py: the cross-process single-writer lock of  *)
(* one workspace root.                                                     *)
(*                                                                         *)
(* Each process keeps a registry entry (its nesting count) under a process-*)
(* local guard; only the outermost block touches the OS lock.  An entry    *)
(* names its writer in writer.holder.json, best effort.  The probe         *)
(* writer_process_alive takes the same OS lock, outside the guard, and     *)
(* drops it.  A process may die between any two steps; the OS then drops   *)
(* its locks, and the holder file stays behind.                            *)
(***************************************************************************)
EXTENDS Naturals, FiniteSets

CONSTANTS
    Proc,       \* processes with this workspace open; a dead one stays dead
    Thread,     \* threads of all the processes
    procOf,     \* procOf[t]: the process of thread t
    NoProc,     \* no process: a free lock, a missing holder file
    NoThread,   \* nobody is inside the guard
    MaxDepth    \* bound: nested blocks one thread opens

ASSUME ProcAssumption ==
    /\ procOf \in [Thread -> Proc]
    /\ NoProc \notin Proc
    /\ NoThread \notin Thread
    /\ MaxDepth \in Nat

VARIABLES
    alive,      \* processes that have not died
    lockFile,   \* whether writer.lock exists: the first attempt creates it
    osLock,     \* the open file that holds the flock, or Free
    guard,      \* guard[p]: the thread inside p's _REGISTRY_GUARD
    registry,   \* registry[p]: count of p's _REGISTRY entry; 0 is no entry
    holder,     \* the process writer.holder.json names, NoProc if no file
    pc,         \* pc[t]: where thread t stands
    depth,      \* depth[t]: the blocks thread t is inside
    outcome     \* outcome[t]: how t's last call ended (what its caller sees)

vars == <<alive, lockFile, osLock, guard, registry, holder, pc, depth, outcome>>

(***************************************************************************)
(* The flock belongs to an open file: the writer file of a process (the    *)
(* guard allows one at a time) or the file a probing thread has opened.    *)
(***************************************************************************)
WriterFd(p) == [kind |-> "writer", proc |-> p, thread |-> NoThread]
ProbeFd(t)  == [kind |-> "probe", proc |-> procOf[t], thread |-> t]
Free        == [kind |-> "free", proc |-> NoProc, thread |-> NoThread]

Fds == {WriterFd(p) : p \in Proc} \cup {ProbeFd(t) : t \in Thread} \cup {Free}

Inside   == {"locked", "named", "unlink", "unlock"}  \* inside the guard
Steps    == {"idle", "checked", "probing"} \cup Inside
Outcomes == [call : {"none", "entered", "left"}, names : {NoProc}]
              \cup [call : {"busy"}, names : Proc \cup {NoProc}]
              \cup [call : {"alive", "dead"}, names : {NoProc}]

Ended(call) == [call |-> call, names |-> NoProc]

TypeOK ==
    /\ alive \in SUBSET Proc
    /\ lockFile \in BOOLEAN
    /\ osLock \in Fds
    /\ guard \in [Proc -> Thread \cup {NoThread}]
    /\ registry \in [Proc -> Nat]
    /\ holder \in Proc \cup {NoProc}
    /\ pc \in [Thread -> Steps]
    /\ depth \in [Thread -> 0..MaxDepth]
    /\ outcome \in [Thread -> Outcomes]

Init ==
    /\ alive = Proc
    /\ lockFile = FALSE
    /\ osLock = Free
    /\ guard = [p \in Proc |-> NoThread]
    /\ registry = [p \in Proc |-> 0]
    /\ holder = NoProc
    /\ pc = [t \in Thread |-> "idle"]
    /\ depth = [t \in Thread |-> 0]
    /\ outcome = [t \in Thread |-> Ended("none")]

-----------------------------------------------------------------------------
(* workspace_writer_lock: entering the block *)

CanCall(t) == /\ procOf[t] \in alive
              /\ pc[t] = "idle"
              /\ guard[procOf[t]] = NoThread

\* A nested block, of any thread of the process, only raises the count.
EnterNested(t) ==
    LET p == procOf[t] IN
    /\ CanCall(t)
    /\ depth[t] < MaxDepth
    /\ registry[p] > 0
    /\ registry' = [registry EXCEPT ![p] = @ + 1]
    /\ depth' = [depth EXCEPT ![t] = @ + 1]
    /\ outcome' = [outcome EXCEPT ![t] = Ended("entered")]
    /\ UNCHANGED <<alive, lockFile, osLock, guard, holder, pc>>

\* Mutants: the holder file alone decides; a flock that fails is taken for a
\* grant.
GrantedByHolderFile(p) == holder = NoProc
GrantedAlways(p) == TRUE

\* _try_lock: flock(LOCK_EX | LOCK_NB) succeeds when no open file has it.
Granted(p) == osLock = Free

\* The outermost block: flock without waiting, or WorkspaceBusyError with
\* whatever the holder file says at that moment.
TryLock(t) ==
    LET p == procOf[t] IN
    /\ CanCall(t)
    /\ depth[t] < MaxDepth
    /\ registry[p] = 0
    /\ lockFile' = TRUE
    /\ \/ /\ Granted(p)
          /\ osLock' = WriterFd(p)
          /\ guard' = [guard EXCEPT ![p] = t]
          /\ pc' = [pc EXCEPT ![t] = "locked"]
          /\ UNCHANGED outcome
       \/ /\ ~Granted(p)
          /\ outcome' = [outcome EXCEPT ![t] = [call |-> "busy", names |-> holder]]
          /\ UNCHANGED <<osLock, guard, pc>>
    /\ UNCHANGED <<alive, registry, holder, depth>>

\* The holder file is best effort: an OSError leaves the old content.
WriteHolder(t) ==
    /\ procOf[t] \in alive
    /\ pc[t] = "locked"
    /\ holder' \in {holder, procOf[t]}
    /\ pc' = [pc EXCEPT ![t] = "named"]
    /\ UNCHANGED <<alive, lockFile, osLock, guard, registry, depth, outcome>>

Register(t) ==
    LET p == procOf[t] IN
    /\ p \in alive
    /\ pc[t] = "named"
    /\ registry' = [registry EXCEPT ![p] = 1]
    /\ guard' = [guard EXCEPT ![p] = NoThread]
    /\ depth' = [depth EXCEPT ![t] = @ + 1]
    /\ pc' = [pc EXCEPT ![t] = "idle"]
    /\ outcome' = [outcome EXCEPT ![t] = Ended("entered")]
    /\ UNCHANGED <<alive, lockFile, osLock, holder>>

-----------------------------------------------------------------------------
(* workspace_writer_lock: the finally of the block *)

\* Mutant: the entry goes with the first block that closes.
CountDropped(p) == 0

\* The count of the entry once the block of the caller is gone; at zero the
\* entry goes too and the guard is kept for the unlink and the unlock.
CountAfterLeave(p) == registry[p] - 1

Leave(t) ==
    LET p == procOf[t] IN
    /\ CanCall(t)
    /\ depth[t] > 0
    /\ depth' = [depth EXCEPT ![t] = @ - 1]
    /\ registry' = [registry EXCEPT ![p] = CountAfterLeave(p)]
    /\ outcome' = [outcome EXCEPT ![t] = Ended("left")]
    /\ IF CountAfterLeave(p) = 0
       THEN /\ guard' = [guard EXCEPT ![p] = t]
            /\ pc' = [pc EXCEPT ![t] = "unlink"]
       ELSE UNCHANGED <<guard, pc>>
    /\ UNCHANGED <<alive, lockFile, osLock, holder>>

\* The unlink may fail too; the file then stays behind.
UnlinkHolder(t) ==
    /\ procOf[t] \in alive
    /\ pc[t] = "unlink"
    /\ holder' \in {holder, NoProc}
    /\ pc' = [pc EXCEPT ![t] = "unlock"]
    /\ UNCHANGED <<alive, lockFile, osLock, guard, registry, depth, outcome>>

Unlock(t) ==
    /\ procOf[t] \in alive
    /\ pc[t] = "unlock"
    /\ osLock' = Free
    /\ guard' = [guard EXCEPT ![procOf[t]] = NoThread]
    /\ pc' = [pc EXCEPT ![t] = "idle"]
    /\ UNCHANGED <<alive, lockFile, registry, holder, depth, outcome>>

-----------------------------------------------------------------------------
(* writer_process_alive *)

\* The registry answers for the process itself, inside the guard.
ProbeRegistry(t) ==
    /\ CanCall(t)
    /\ \/ /\ registry[procOf[t]] > 0
          /\ outcome' = [outcome EXCEPT ![t] = Ended("alive")]
          /\ UNCHANGED pc
       \/ /\ registry[procOf[t]] = 0
          /\ pc' = [pc EXCEPT ![t] = "checked"]
          /\ UNCHANGED outcome
    /\ UNCHANGED <<alive, lockFile, osLock, guard, registry, holder, depth>>

\* Mutant: a lock that cannot be taken or opened is reported free.
ProbeLockOptimistic(t) ==
    /\ procOf[t] \in alive
    /\ pc[t] = "checked"
    /\ \/ /\ osLock = Free
          /\ osLock' = ProbeFd(t)
          /\ pc' = [pc EXCEPT ![t] = "probing"]
          /\ UNCHANGED outcome
       \/ /\ pc' = [pc EXCEPT ![t] = "idle"]
          /\ outcome' = [outcome EXCEPT ![t] = Ended("dead")]
          /\ UNCHANGED osLock
    /\ UNCHANGED <<alive, lockFile, guard, registry, holder, depth>>

\* Outside the guard: no lock file answers "dead"; an open that fails and a
\* flock that fails both answer "alive".
ProbeLock(t) ==
    /\ procOf[t] \in alive
    /\ pc[t] = "checked"
    /\ \/ /\ ~lockFile
          /\ pc' = [pc EXCEPT ![t] = "idle"]
          /\ outcome' = [outcome EXCEPT ![t] = Ended("dead")]
          /\ UNCHANGED osLock
       \/ /\ lockFile
          /\ osLock = Free
          /\ osLock' = ProbeFd(t)
          /\ pc' = [pc EXCEPT ![t] = "probing"]
          /\ UNCHANGED outcome
       \/ /\ lockFile
          /\ pc' = [pc EXCEPT ![t] = "idle"]
          /\ outcome' = [outcome EXCEPT ![t] = Ended("alive")]
          /\ UNCHANGED osLock
    /\ UNCHANGED <<alive, lockFile, guard, registry, holder, depth>>

ProbeUnlock(t) ==
    /\ procOf[t] \in alive
    /\ pc[t] = "probing"
    /\ osLock' = Free
    /\ pc' = [pc EXCEPT ![t] = "idle"]
    /\ outcome' = [outcome EXCEPT ![t] = Ended("dead")]
    /\ UNCHANGED <<alive, lockFile, guard, registry, holder, depth>>

-----------------------------------------------------------------------------
(* A process dies (Stop tree-kills it, power loss): its memory is gone and *)
(* the OS drops the flock of every file it had open.                       *)
Die(p) ==
    /\ p \in alive
    /\ alive' = alive \ {p}
    /\ osLock' = IF osLock.proc = p THEN Free ELSE osLock
    /\ guard' = [guard EXCEPT ![p] = NoThread]
    /\ registry' = [registry EXCEPT ![p] = 0]
    /\ pc' = [t \in Thread |-> IF procOf[t] = p THEN "idle" ELSE pc[t]]
    /\ depth' = [t \in Thread |-> IF procOf[t] = p THEN 0 ELSE depth[t]]
    /\ outcome' = [t \in Thread |->
                      IF procOf[t] = p THEN Ended("none") ELSE outcome[t]]
    /\ UNCHANGED <<lockFile, holder>>

ThreadStep(t) ==
    \/ EnterNested(t) \/ TryLock(t) \/ WriteHolder(t) \/ Register(t)
    \/ Leave(t) \/ UnlinkHolder(t) \/ Unlock(t)
    \/ ProbeRegistry(t) \/ ProbeLock(t) \/ ProbeUnlock(t)

Next == \/ \E t \in Thread : ThreadStep(t)
        \/ \E p \in Proc : Die(p)

Spec == Init /\ [][Next]_vars

-----------------------------------------------------------------------------
(* Properties *)

Writing(p) == registry[p] > 0

(* The count of a registry entry is the number of blocks the threads of    *)
(* the process have open, so it reaches zero exactly when the last closes. *)
OpenBlocks(p) == {b \in Thread \X (1..MaxDepth) :
                    procOf[b[1]] = p /\ b[2] <= depth[b[1]]}

CountIsOpenBlocks ==
    \A p \in Proc : registry[p] = Cardinality(OpenBlocks(p))

(* A process inside the block holds the flock: no nested leave, of whatever*)
(* thread, and no probe lets it go while another block is still open.      *)
LockCoversBlocks ==
    \A t \in Thread : depth[t] > 0 => osLock = WriterFd(procOf[t])

(* Two threads are inside blocks at once only in the same process: the one *)
(* promise the three chokepoints (continue_run, ExecuteCommand.run,        *)
(* PromotionsCommand.run) rely on.                                         *)
OneWriter ==
    \A s, t \in Thread : depth[s] > 0 /\ depth[t] > 0 => procOf[s] = procOf[t]

(* While a process stays the writer nobody replaces or removes the holder  *)
(* file that names it: the unlink of the last writer and the write of the  *)
(* next one both happen under the flock.                                   *)
HolderOfWriterKept ==
    [][\A p \in Proc :
         Writing(p) /\ Writing(p)' /\ holder = p => holder' = p]_vars

(* A probe answers "dead" only at an instant when no process is inside the *)
(* block: the routing of cancel and of the session commands takes the      *)
(* answer as evidence that the process of a running record is gone.        *)
DeadMeansNoWriter ==
    [][\A t \in Thread :
         /\ ProbeLock(t) \/ ProbeUnlock(t)
         /\ pc'[t] = "idle" /\ outcome'[t] = Ended("dead")
         => \A p \in Proc : ~Writing(p)]_vars

(* The abstract specification this lock implements.                        *)
CurrentWriter == IF \E p \in Proc : Writing(p)
                 THEN CHOOSE p \in Proc : Writing(p)
                 ELSE NoProc

SW == INSTANCE SingleWriter WITH writer <- CurrentWriter
RefinesSingleWriter == SW!SWSpec
=============================================================================
