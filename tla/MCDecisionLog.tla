--------------------------- MODULE MCDecisionLog ---------------------------
(* Two threads of a driver and a decide; and statements that the model  *)
(* refutes, which no run checks (the README tells the behaviours).         *)
EXTENDS DecisionLog, TLC

\* A command whose last answer is "approve once" is not asked for again.
LastAnswerCounts ==
    [][\A t \in Thread : thread[t].pc = "match" /\ thread'[t].pc = "count" =>
        LET A == Answered(thread[t].cmd) IN
        \A i \in A : (\A j \in A : j <= i) => rows[i].answer # "approve_once"]_vars

\* A status transition re-seals the chain.
AnswersReseal == outside => Verified

\* An approved command was approved by the user, races or not.
OnlyGrantedRunsEver == ran \subseteq granted

\* A question, once in the file, does not vanish.
QuestionsStay == [][Len(rows') >= Len(rows) \/ \E d \in Decider : decider'[d].pc = "write"]_vars

Alike == Permutations(Thread) \cup Permutations(Decider) \cup Permutations(Command)

\* "Allow this exact command once for this task": a command that ran past the
\* policy does not run so again.
OnceIsOnce ==
    [][\A t \in Thread : thread[t].pc = "run" /\ Approved(thread[t].cmd)
                       /\ thread'[t] = Resting /\ UNCHANGED crashes
         => thread[t].cmd \notin ran]_vars
=============================================================================
