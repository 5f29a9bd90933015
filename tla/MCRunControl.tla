---------------------------- MODULE MCRunControl ----------------------------
(* Three processes of one command each (run, follow up, resume, cancel,      *)
(* review, accept or replan the run), and senders; and                       *)
(* statements of the sources that the model refutes, which no run checks (the *)
(* README tells the behaviours).                                             *)
EXTENDS RunControl, TLC

Alike == Permutations(Proc)

\* A cancel leaves the record of a settled run alone.
CancelSparesSettled ==
    [][(record \in Settled /\ record # "cancelled") => record' # "cancelled"]_vars

\* A run that a process drives is not reported settled: a review, an accept or
\* a replan of it writes its verdict next to the driver.
DrivenIsNotSettled ==
    \A p \in Proc : Driven(p) => record \in {"running", "cancelled"}

\* "`cancel` must never be how a live run gets declared dead"
\* (cancel_command.py:13-14): the driver came in after the poll.
CancelSparesLive == \A p \in Proc : Driven(p) => record # "cancelled"

\* Without a crash, an instruction whose request returned is told, or waits
\* in a file that a turn boundary is going to read.
Waiting == (IF path # 0 THEN {path} ELSE {})
             \cup (IF \E p \in Proc : pc[p] = "taking" THEN {taking} ELSE {})

SteerNotLost ==
    crashes = 0 => \A s \in Sender : \A n \in 1..sent[s] :
        \/ \E i \in DOMAIN told : told[i] = <<s, n>>
        \/ \E f \in Waiting : \E i \in DOMAIN content[f] : content[f][i] = <<s, n>>
=============================================================================
