---------------------------- MODULE MCMcpSession ----------------------------
(* An instance of McpSession for TLC: the discovery of a run, and then a     *)
(* call with a retry, next to the threads of the attempts that were given    *)
(* up; and a statement that the model refutes, which no run checks (the    *)
(* README tells the behaviour).                                              *)
EXTENDS McpSession

CONSTANTS discovery, c1

Calls    == {discovery, c1}
OneRetry == [c \in Calls |-> IF c = c1 THEN 2 ELSE 1]

\* "timeout retry": a call that is tried again has a server to talk to.
RetryHasServer ==
    \A c \in Call : call[c].pc = "calling" /\ call[c].try > 1 => open
=============================================================================
