-------------------------- MODULE MCBackgroundRuns --------------------------
(* An instance of BackgroundRuns for TLC: two background starts and a status *)
(* view that is repeated; and a statement that the model refutes, which no   *)
(* run checks (the README tells the behaviour).                              *)
EXTENDS BackgroundRuns

CONSTANTS s1, s2, v1, foreground

Starters == {s1, s2}
Viewers  == {v1}

\* What the list shows as completed exited with 0.
CompletedMeansExitZero ==
    \A e \in Entries : e.status = "completed" => proc[e.pid] = "ok"
=============================================================================
