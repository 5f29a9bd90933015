----------------------------- MODULE FileStore -----------------------------
(* JsonStore.write: a file is replaced by way of a temporary file beside it, *)
(* under a lock of the process.  All writers of a file, in whatever process, *)
(* use the same temporary name.  Names and contents are those of a POSIX     *)
(* file system, on which an open file outlives its name.                     *)
EXTENDS Naturals, Sequences

CONSTANTS
    Writer,     \* threads that write the file
    Proc,       \* their processes
    ProcOf,     \* the process of each writer
    Size,       \* length of what each writer writes
    Nobody      \* no writer

ASSUME WritersAssumption ==
    /\ ProcOf \in [Writer -> Proc]
    /\ Size \in [Writer -> Nat \ {0}]
    /\ Writer # {} /\ Nobody \notin Writer /\ "none" \notin Writer

VARIABLES
    ino,        \* contents of the files: in the cache, and synced to the disk
    target,     \* the file the name stands for
    older,      \* the one it stood for before, as the disk may still have it
    tmp,        \* the file of the temporary name, or none
    pc, handle, \* where each writer is, and the file it has open
    lock,       \* _JSON_STORE_LOCK of each process
    last,       \* history: the writer whose write returned last
    crossed,    \* history: two processes were writing at once
    dark        \* history: the power failed

fileVars == <<ino, target, older, tmp, pc, handle, lock, last, crossed, dark>>

\* Contents are sequences of blocks, each marked with its writer.
Payload(w) == [i \in 1..Size[w] |-> w]

\* Enough files for the target before and after, the temporary one and those
\* the writers hold.
Inode == {"a", "b", "c"} \cup Writer
None  == "none"

\* No content; what becomes of a file that nothing refers to is forgotten.
Blank == [i \in Inode |-> [data |-> <<>>, synced |-> <<>>]]
Forget(f, used) == [i \in Inode |-> IF i \in used THEN f[i] ELSE Blank[i]]

FileInit ==
    \E w \in Writer :
        /\ ino = [Blank EXCEPT !["a"] = [data |-> Payload(w), synced |-> Payload(w)]]
        /\ target = "a"
        /\ older = "a"
        /\ tmp = None
        /\ pc = [v \in Writer |-> "idle"]
        /\ handle = [v \in Writer |-> None]
        /\ lock = [p \in Proc |-> Nobody]
        /\ last = w
        /\ crossed = FALSE
        /\ dark = FALSE

Opened == {handle[w] : w \in Writer}
Unused == Inode \ ({target, older, tmp} \cup Opened)

Goes(w, to) == pc' = [pc EXCEPT ![w] = to]

-----------------------------------------------------------------------------
(* JsonStore.write, one action for each call that reaches the system *)

Free(p) == lock[p] = Nobody

Acquire(w) ==
    /\ pc[w] = "idle"
    /\ Free(ProcOf[w])
    /\ lock' = [lock EXCEPT ![ProcOf[w]] = w]
    /\ crossed' = (crossed \/ \E v \in Writer : ProcOf[v] # ProcOf[w] /\ pc[v] # "idle")
    /\ Goes(w, "open")
    /\ UNCHANGED <<ino, target, older, tmp, handle, last, dark>>

\* open("w"): the file of the temporary name is emptied, whoever else has it
\* open; there is a new one if the name is free.
Open(w) ==
    /\ pc[w] = "open"
    /\ LET i == IF tmp = None THEN CHOOSE j \in Unused : TRUE ELSE tmp
       IN  /\ ino' = [ino EXCEPT ![i] = [data |-> <<>>,
                                        synced |-> IF tmp = None THEN <<>> ELSE @.synced]]
           /\ tmp' = i
           /\ handle' = [handle EXCEPT ![w] = i]
    /\ Goes(w, "write")
    /\ UNCHANGED <<target, older, lock, last, crossed, dark>>

\* The payload goes over what is there, and no further.
Over(old, new) ==
    new \o (IF Len(old) > Len(new) THEN SubSeq(old, Len(new) + 1, Len(old)) ELSE <<>>)

Write(w) ==
    /\ pc[w] = "write"
    /\ ino' = [ino EXCEPT ![handle[w]].data = Over(@, Payload(w))]
    /\ Goes(w, "sync")
    /\ UNCHANGED <<target, older, tmp, handle, lock, last, crossed, dark>>

\* Mutant: what is in the cache stays there.
CacheOnly(f) == f

Synced(f) == [f EXCEPT !.synced = f.data]

\* fsync, and the file is closed.
Sync(w) ==
    /\ pc[w] = "sync"
    /\ ino' = [ino EXCEPT ![handle[w]] = Synced(@)]
    /\ handle' = [handle EXCEPT ![w] = None]
    /\ Goes(w, "replace")
    /\ UNCHANGED <<target, older, tmp, lock, last, crossed, dark>>

Release(w) == lock' = [lock EXCEPT ![ProcOf[w]] = Nobody]

\* tmp_path.replace(path), whichever file has the temporary name by now; when
\* none has, FileNotFoundError.
Replace(w) ==
    /\ pc[w] = "replace"
    /\ IF tmp # None
       THEN /\ target' = tmp
            /\ older' = target
            /\ tmp' = None
            /\ last' = w
            /\ ino' = Forget(ino, {tmp, target} \cup Opened)
            /\ Goes(w, "idle")
       ELSE /\ Goes(w, "failed")
            /\ UNCHANGED <<ino, target, older, tmp, last>>
    /\ Release(w)
    /\ UNCHANGED <<handle, crossed, dark>>

-----------------------------------------------------------------------------
(* Faults *)

Stopped(w) == IF pc[w] = "failed" THEN "failed" ELSE "idle"

\* A process is killed: what it gave to the system stays.
Kill(p) ==
    /\ \E w \in Writer : ProcOf[w] = p /\ pc[w] \notin {"idle", "failed"}
    /\ pc' = [w \in Writer |-> IF ProcOf[w] = p THEN Stopped(w) ELSE pc[w]]
    /\ handle' = [w \in Writer |-> IF ProcOf[w] = p THEN None ELSE handle[w]]
    /\ lock' = [lock EXCEPT ![p] = Nobody]
    /\ UNCHANGED <<ino, target, older, tmp, last, crossed, dark>>

\* What the disk may have of a file: what was synced, or as much of the cache
\* as happened to be written.
OnDisk(f) == {f.synced} \cup {SubSeq(f.data, 1, n) : n \in 0..Len(f.data)}

\* The power fails: the cache is lost, the last renaming may be.
PowerFails ==
    /\ \E t \in {target, older} :
         /\ target' = t
         /\ older' = t
         /\ \E c \in IF ino[t].data = ino[t].synced THEN {ino[t].data} ELSE OnDisk(ino[t]) :
              ino' = [Blank EXCEPT ![t] = [data |-> c, synced |-> c]]
    /\ tmp' = None
    /\ pc' = [w \in Writer |-> Stopped(w)]
    /\ handle' = [w \in Writer |-> None]
    /\ lock' = [p \in Proc |-> Nobody]
    /\ dark' = TRUE
    /\ UNCHANGED <<last, crossed>>

Step(w) == Acquire(w) \/ Open(w) \/ Write(w) \/ Sync(w) \/ Replace(w)

FileNext ==
    \/ \E w \in Writer : Step(w)
    \/ \E p \in Proc : Kill(p)
    \/ PowerFails

FileSpec == FileInit /\ [][FileNext]_fileVars

-----------------------------------------------------------------------------
(* Properties *)

FileTypeOK ==
    /\ \A i \in Inode : ino[i].data \in Seq(Writer) /\ ino[i].synced \in Seq(Writer)
    /\ target \in Inode /\ older \in Inode
    /\ tmp \in Inode \cup {None}
    /\ pc \in [Writer -> {"idle", "open", "write", "sync", "replace", "failed"}]
    /\ handle \in [Writer -> Inode \cup {None}]
    /\ lock \in [Proc -> Writer \cup {Nobody}]
    /\ last \in Writer
    /\ crossed \in BOOLEAN /\ dark \in BOOLEAN

Whole(c) == \E w \in Writer : c = Payload(w)

\* What a reader finds is what the write that returned last wrote, or after a
\* power failure what some write wrote, all of it and nothing else, when threads
\* write at once and processes are killed anywhere - as long as two processes
\* do not write at once.
WholeFile ==
    ~crossed => IF dark THEN Whole(ino[target].data)
                        ELSE ino[target].data = Payload(last)
=============================================================================
