---------------------------- MODULE MCStudioJobs ----------------------------
(* Two sessions of Studio; and statements that the model refutes, which no *)
(* run checks (the README tells the behaviours).                           *)
EXTENDS StudioJobs, TLC

\* The guard of startRuntimeJob without the exception for equal keys.
OneWriterEver == \A j, k \in Working : j = k

\* An answered question resumes its run when the answer was written.
AnswerResumes ==
    [][\A j \in DOMAIN jobs : jobs[j].follow /\ jobs[j].pc = "reading" /\ jobs'[j].pc = "over"
         /\ jobs[j].code = 0 /\ Len(jobs) < LastJob => Len(jobs') > Len(jobs)]_vars

\* A worker that a Stop killed takes no job but the stopped one with it.
StopSparesOthers ==
    worker.killed /\ worker.active # 0 => jobs[worker.active].cancelled

\* A message that was started comes to an end, so that others can be started.
EveryJobSettles == []<>(\A j \in DOMAIN jobs : jobs[j].status # "running")
=============================================================================
