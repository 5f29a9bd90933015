--------------------------- MODULE MCExpertBatch ---------------------------
(* Two files, and statements that the model refutes, which no run checks (the *)
(* README tells the behaviours).                                              *)
EXTENDS ExpertBatch

\* No promotion overwrites anybody's edit, whoever touches the workspace.
NothingEverOverwritten == [][\A f \in File : shared[f] \subseteq shared'[f]]_vars

\* What an expert that is ok did is in the workspace when its batch is over.
OkIsLanded ==
    pc = "lead" => \A c \in Members, f \in File :
        status[c] = "ok" /\ c \in tree[c][f] => c \in shared[f]

\* A batch that no file error ended has landed as a whole or not at all, also
\* when an item that is not the first one turns out not to be ready.
AllOrNone == pc = "lead" /\ raised # "io" /\ ~disturbed => AllIn \/ NoneIn
=============================================================================
