---------------------------- MODULE SingleWriter ----------------------------
(***************************************************************************)
(* What core/workspace_writer_lock.py promises the rest of Asteria: of all *)
(* the operating-system processes that open one workspace, at most one is  *)
(* the writer, it stays the writer until it leaves or dies, and a process  *)
(* becomes the writer only when nobody is.  How the promise is kept (flock,*)
(* registry, nesting, holder file, probes) is module WriterLock.           *)
(***************************************************************************)
CONSTANTS
    Proc,       \* the processes that may open the workspace
    NoProc      \* "nobody is the writer"

VARIABLE writer \* the process inside the outermost lock block

SWInit == writer = NoProc

\* A process enters the block only when no process is inside.
Enter == /\ writer = NoProc
         /\ writer' \in Proc

\* The writer leaves the block, or dies and the OS drops its lock.
Leave == /\ writer # NoProc
         /\ writer' = NoProc

SWNext == Enter \/ Leave

SWSpec == SWInit /\ [][SWNext]_writer
=============================================================================
