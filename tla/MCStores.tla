------------------------------ MODULE MCStores ------------------------------
(* Instances of FileStore and Journal for TLC in one run.  FileStore has two *)
(* threads of one process, which write a long and a short text, and a thread *)
(* of another process; Journal has four records.  The two files have nothing *)
(* to do with each other, so each is looked at while the other rests.  And   *)
(* two statements that the models refute, which no run checks.               *)
EXTENDS FileStore, Journal, TLC

CONSTANTS w1, w2, v, p, q, nobody, r1, r2, r3, r4

Writers   == {w1, w2, v}
Processes == {p, q}
Owner     == [w \in Writers |-> IF w = v THEN q ELSE p]
Length    == [w \in Writers |-> IF w = w1 THEN 2 ELSE 1]
Records   == {r1, r2, r3, r4}

StoresInit == FileInit /\ JournalInit

StoresNext ==
    \/ FileNext /\ JournalInit /\ UNCHANGED journal
    \/ JournalNext /\ FileInit /\ UNCHANGED fileVars

StoresSpec == StoresInit /\ [][StoresNext]_<<fileVars, journal>>

\* After two processes wrote at once, where the properties promise nothing,
\* the second thread, power failures and writes of the first process that
\* return are left out.
Apart == crossed => pc[w2] = "idle" /\ ~dark /\ last = v

Alike == Permutations(Records)

\* "must never expose an empty or torn file", whoever writes.
NeverTorn == Whole(ino[target].data)

\* "makes each record crash-safe": a record whose append returned can be read.
CrashSafe == \A r \in returned : Readable(lines) /\ r \in Rows(lines)
=============================================================================
