---------------------------- MODULE DecisionLog ----------------------------
(* decisions.jsonl of one run: the threads of the driver ask before they   *)
(* run a command the policy stops, and seal what they append in the audit  *)
(* chain; `decide` processes read the whole file and write it back with    *)
(* one answer, under no lock and without the chain.                        *)
EXTENDS Naturals, Sequences, FiniteSets

CONSTANTS
    Thread,      \* the turn loops of the driver (more than one: parallel writes)
    Decider,     \* decide processes
    Command,     \* a tool call with its task and arguments: the fingerprint
    NoCommand,
    NoThread,
    MaxRows,     \* bound: questions in the file, entries in the chain
    MaxCrashes   \* bound

ASSUME LogAssumption ==
    /\ NoCommand \notin Command
    /\ NoThread \notin Thread
    /\ MaxRows \in Nat
    /\ MaxCrashes \in Nat

VARIABLES
    rows,       \* decisions.jsonl
    chain,      \* decisions.jsonl.chain: the rows its entries bind
    latch,      \* who is inside _JSONL_APPEND_LOCK
    thread,     \* what each thread is at
    decider,    \* what each decide is at
    granted,    \* history: commands the user approved, as he was shown them
    ran,        \* history: commands that ran past the policy
    disturbed,  \* history: two wrote at once, or a decide died in its write
    outside,    \* history: a decide has written
    crashes

vars == <<rows, chain, latch, thread, decider, granted, ran, disturbed, outside, crashes>>
past == <<granted, ran, outside, crashes>>

Row == [id : 1..MaxRows + 1, cmd : Command, answer : {"none", "approve_once", "skip"}]

Resting == [pc |-> "idle", cmd |-> NoCommand, id |-> 0]
Away    == [pc |-> "idle", cmd |-> NoCommand, id |-> 0, copy |-> <<>>]

Init ==
    /\ rows = <<>>
    /\ chain = <<>>
    /\ latch = NoThread
    /\ thread = [t \in Thread |-> Resting]
    /\ decider = [d \in Decider |-> Away]
    /\ granted = {}
    /\ ran = {}
    /\ disturbed = FALSE
    /\ outside = FALSE
    /\ crashes = 0

\* Those between the read they decide on and the write that follows from it.
Writers == {t \in Thread : thread[t].pc \in {"count", "append"}}
           \cup {d \in Decider : decider[d].pc \in {"truncate", "write"}}

-----------------------------------------------------------------------------
(* The driver *)

Answered(c) == {i \in DOMAIN rows : rows[i].cmd = c /\ rows[i].answer # "none"}

\* Mutant: the question that is still open counts as well.
ApprovedOrOpen(c) ==
    \E i \in DOMAIN rows : rows[i].cmd = c /\ rows[i].answer # "skip"

\* has_execution_approval: the first answered question about the command.
Approved(c) == \E i \in Answered(c) :
    /\ rows[i].answer = "approve_once"
    /\ \A j \in Answered(c) : i <= j

\* create_policy_decision_if_needed, for a command the shell guard denies.
Gate(t) ==
    /\ thread[t].pc = "idle"
    /\ \E c \in Command :
        thread' = [thread EXCEPT ![t] = [pc |-> IF Approved(c) THEN "run" ELSE "match",
                                         cmd |-> c, id |-> 0]]
    /\ UNCHANGED <<rows, chain, latch, decider, disturbed, past>>

\* _create_execution_decision: an open question about it is not asked twice.
Match(t) ==
    /\ thread[t].pc = "match"
    /\ LET open == \E i \in DOMAIN rows :
                      rows[i].cmd = thread[t].cmd /\ rows[i].answer = "none"
       IN  /\ thread' = [thread EXCEPT ![t] = IF open THEN Resting ELSE [@ EXCEPT !.pc = "count"]]
           /\ disturbed' = (disturbed \/ (~open /\ Writers # {}))
    /\ UNCHANGED <<rows, chain, latch, decider, past>>

\* Mutant: the number of open questions is counted.
NextIdOfOpen == Cardinality({i \in DOMAIN rows : rows[i].answer = "none"}) + 1

\* _next_jsonl_id
NextId == Len(rows) + 1

Count(t) ==
    /\ thread[t].pc = "count"
    /\ thread' = [thread EXCEPT ![t].pc = "append", ![t].id = NextId]
    /\ UNCHANGED <<rows, chain, latch, decider, disturbed, past>>

\* Mutant: the append does not wait for the entry of another thread's row.
NoLatch == TRUE

\* _JSONL_APPEND_LOCK
LatchFree == latch = NoThread

\* JsonlStore.append: the record, inside the lock of the process ...
AppendRow(t) ==
    /\ thread[t].pc = "append"
    /\ LatchFree
    /\ Len(rows) < MaxRows /\ Len(chain) < MaxRows
    /\ rows' = Append(rows, [id |-> thread[t].id, cmd |-> thread[t].cmd, answer |-> "none"])
    /\ latch' = t
    /\ thread' = [thread EXCEPT ![t].pc = "seal"]
    /\ UNCHANGED <<chain, decider, disturbed, past>>

\* ... then append_chain_entry; the task is blocked until resume.
Seal(t) ==
    /\ thread[t].pc = "seal"
    /\ chain' = Append(chain, [id |-> thread[t].id, cmd |-> thread[t].cmd, answer |-> "none"])
    /\ latch' = NoThread
    /\ thread' = [thread EXCEPT ![t] = Resting]
    /\ UNCHANGED <<rows, decider, disturbed, past>>

\* context_with_approval looks again, and only then is the guard lifted.
RunCommand(t) ==
    /\ thread[t].pc = "run"
    /\ ran' = IF Approved(thread[t].cmd) THEN ran \cup {thread[t].cmd} ELSE ran
    /\ thread' = [thread EXCEPT ![t] = Resting]
    /\ UNCHANGED <<rows, chain, latch, decider, granted, disturbed, outside, crashes>>

-----------------------------------------------------------------------------
(* decide *)

\* The user is shown an open question (the list, or a card of Studio).
Show(d) ==
    /\ decider[d].pc = "idle"
    /\ \E i \in DOMAIN rows :
        /\ rows[i].answer = "none"
        /\ decider' = [decider EXCEPT ![d] =
             [pc |-> "shown", cmd |-> rows[i].cmd, id |-> rows[i].id, copy |-> <<>>]]
    /\ UNCHANGED <<rows, chain, latch, thread, disturbed, past>>

\* The row that a decision id names: the first one with it.
Named(i, n) == rows[i].id = n /\ \A j \in DOMAIN rows : rows[j].id = n => i <= j

\* _resolve_decision reads the file and changes one row of its copy.
Resolve(d) ==
    /\ decider[d].pc = "shown"
    /\ \E i \in DOMAIN rows, a \in {"approve_once", "skip"} :
        /\ Named(i, decider[d].id)
        /\ rows[i].answer = "none"
        /\ decider' = [decider EXCEPT ![d].pc = "truncate",
                                      ![d].copy = [rows EXCEPT ![i].answer = a]]
        /\ granted' = IF a = "approve_once" THEN granted \cup {decider[d].cmd} ELSE granted
    /\ disturbed' = (disturbed \/ Writers # {})
    /\ UNCHANGED <<rows, chain, latch, thread, ran, outside, crashes>>

\* No open row has that id any more: decide raises.
Declines(d) ==
    /\ decider[d].pc = "shown"
    /\ ~\E i \in DOMAIN rows : Named(i, decider[d].id) /\ rows[i].answer = "none"
    /\ decider' = [decider EXCEPT ![d] = Away]
    /\ UNCHANGED <<rows, chain, latch, thread, disturbed, past>>

\* _rewrite_decisions is Path.write_text: the file is emptied ...
Truncate(d) ==
    /\ decider[d].pc = "truncate"
    /\ rows' = <<>>
    /\ decider' = [decider EXCEPT ![d].pc = "write"]
    /\ UNCHANGED <<chain, latch, thread, disturbed, past>>

\* ... then written from its start, over what was appended meanwhile.
WriteBack(d) ==
    /\ decider[d].pc = "write"
    /\ rows' = decider[d].copy
    /\ outside' = TRUE
    /\ decider' = [decider EXCEPT ![d] = Away]
    /\ UNCHANGED <<chain, latch, thread, granted, ran, disturbed, crashes>>

-----------------------------------------------------------------------------
DriverDies ==
    /\ crashes < MaxCrashes
    /\ \E t \in Thread : thread[t] # Resting
    /\ thread' = [t \in Thread |-> Resting]
    /\ latch' = NoThread
    /\ crashes' = crashes + 1
    /\ UNCHANGED <<rows, chain, decider, granted, ran, disturbed, outside>>

DeciderDies(d) ==
    /\ crashes < MaxCrashes
    /\ decider[d].pc \in {"truncate", "write"}
    /\ decider' = [decider EXCEPT ![d] = Away]
    /\ crashes' = crashes + 1
    /\ disturbed' = (disturbed \/ decider[d].pc = "write")
    /\ UNCHANGED <<rows, chain, latch, thread, granted, ran, outside>>

Next ==
    \/ \E t \in Thread : \/ Gate(t) \/ Match(t) \/ Count(t) \/ AppendRow(t)
                         \/ Seal(t) \/ RunCommand(t)
    \/ \E d \in Decider : \/ Show(d) \/ Resolve(d) \/ Declines(d) \/ Truncate(d)
                          \/ WriteBack(d) \/ DeciderDies(d)
    \/ DriverDies

Spec == Init /\ [][Next]_vars

-----------------------------------------------------------------------------
(* Properties *)

TypeOK ==
    /\ rows \in Seq(Row)
    /\ chain \in Seq(Row)
    /\ latch \in Thread \cup {NoThread}
    /\ thread \in [Thread -> [pc : {"idle", "match", "count", "append", "seal", "run"},
                              cmd : Command \cup {NoCommand}, id : 0..MaxRows + 1]]
    /\ decider \in [Decider -> [pc : {"idle", "shown", "truncate", "write"},
                                cmd : Command \cup {NoCommand}, id : 0..MaxRows + 1,
                                copy : Seq(Row)]]
    /\ granted \subseteq Command
    /\ ran \subseteq Command
    /\ disturbed \in BOOLEAN
    /\ outside \in BOOLEAN
    /\ crashes \in 0..MaxCrashes

\* As long as no two writers met, a command the policy stops runs only after
\* the user approved the very command he was shown, however often it was
\* asked, skipped and asked again, by drivers that died in between too.
OnlyGrantedRuns == ~disturbed => ran \subseteq granted

\* As long as no two writers met, the id the user is about to answer names the
\* question he was shown, or one that was answered since.
AnswerMeetsQuestion ==
    ~disturbed => \A d \in Decider :
        /\ decider[d].pc = "shown"
        /\ \A e \in Decider : decider[e].pc # "write"
        => \E i \in DOMAIN rows : Named(i, decider[d].id) /\ rows[i].cmd = decider[d].cmd

\* verify_run: a file without a chain is not looked at.
Verified == chain = <<>> \/ chain = rows

\* The threads of the driver never raise a false alarm among themselves.
DriverAloneVerifies == ~outside /\ rows # <<>> /\ crashes = 0 /\ latch = NoThread
                       /\ (\A d \in Decider : decider[d].pc # "write") => Verified

=============================================================================
