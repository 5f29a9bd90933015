---------------------------- MODULE MCPromotions ----------------------------
(* A driver and operators, one of which may run accept; and statements that *)
(* the model refutes, which no run checks (the README tells the behaviours). *)
EXTENDS Promotions

\* An accepted run has no open promotion.
AcceptedIsSettled == run = "accepted" => Open = {}

\* What one promotion landed is not undone by another one (with any Git).
EditsStay == [][\A f \in File : source[f] \subseteq source'[f]]_vars

\* Each promotion that accept holds against the run can be approved in bulk.
OpenIsApprovable == writer = NoProc => Open \subseteq Pending

\* A promotion that failed has left nothing in the main workspace (the guide
\* says a failed candidate must not soil it).
FailedLeavesNoTrace ==
    \A i \in Id : status[i] = "promotion_failed" => landed[i] = {}
=============================================================================
