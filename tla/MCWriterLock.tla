---------------------------- MODULE MCWriterLock ----------------------------
(* A process of two threads next to a rival of one; and statements of the  *)
(* sources that the model refutes, which no run checks (the README tells   *)
(* the behaviours).                                                        *)
EXTENDS WriterLock, TLC

CONSTANTS p1, p2, p3, t1, t2, t3

NestingProc == {p1, p2}
NestingProcOf == t1 :> p1 @@ t2 :> p1 @@ t3 :> p2

\* Three processes of one thread, where a dead one can leave its holder file
\* between two live ones.
RivalProc == {p1, p2, p3}
RivalProcOf == t1 :> p1 @@ t2 :> p2 @@ t3 :> p3

MCThread == {t1, t2, t3}

\* workspace_writer_lock refuses "with a message that names the holder": a
\* message that names a process names the one that holds the lock.
RefusalNamesHolder ==
    [][\A t \in Thread :
         outcome'[t] # outcome[t] /\ outcome'[t].call = "busy"
           => outcome'[t].names \in {NoProc, osLock.proc}]_vars

\* writer_process_alive "never keeps anyone out": a refusal happens only
\* against a writer, never against a probe.
ProbeKeepsNobodyOut ==
    [][\A t \in Thread :
         outcome'[t] # outcome[t] /\ outcome'[t].call = "busy"
           => osLock.kind = "writer"]_vars
=============================================================================
