------------------------------ MODULE Landing ------------------------------
(* What a queue of promotions promises about the main workspace: the files *)
(* of one promotion at a time are copied into it, only while nobody has    *)
(* refused that promotion, and it counts as landed only with all of them.  *)
CONSTANTS Id, File

VARIABLES
    open,     \* the promotion whose files are being copied, as a set
    landed,   \* the files of each promotion that have reached the workspace
    wanted,   \* the files each promotion is to bring
    outcome   \* "undecided", "landed" or "refused"

vars == <<open, landed, wanted, outcome>>

Init ==
    /\ open = {}
    /\ landed = [i \in Id |-> {}]
    /\ wanted = [i \in Id |-> {}]
    /\ outcome = [i \in Id |-> "undecided"]

Propose(i, S) ==
    /\ open = {}
    /\ wanted[i] = {}
    /\ wanted' = [wanted EXCEPT ![i] = S]
    /\ UNCHANGED <<open, landed, outcome>>

Begin(i) ==
    /\ open = {}
    /\ outcome[i] = "undecided"
    /\ open' = {i}
    /\ UNCHANGED <<landed, wanted, outcome>>

Copy(i, f) ==
    /\ open = {i}
    /\ f \in wanted[i]
    /\ landed' = [landed EXCEPT ![i] = @ \cup {f}]
    /\ UNCHANGED <<open, wanted, outcome>>

\* The landing ends: complete, or given up.
End(i) ==
    /\ open = {i}
    /\ open' = {}
    /\ \/ landed[i] = wanted[i] /\ outcome' = [outcome EXCEPT ![i] = "landed"]
       \/ UNCHANGED outcome
    /\ UNCHANGED <<landed, wanted>>

\* An operator refuses it, or takes it up again; nothing is landing then.
Decide(i) ==
    /\ open = {}
    /\ wanted[i] # {}
    /\ \E o \in {"undecided", "refused"} : outcome' = [outcome EXCEPT ![i] = o]
    /\ UNCHANGED <<open, landed, wanted>>

Next == \E i \in Id :
    \/ \E S \in SUBSET File : Propose(i, S)
    \/ \E f \in File : Copy(i, f)
    \/ Begin(i) \/ End(i) \/ Decide(i)

Spec == Init /\ [][Next]_vars
=============================================================================
