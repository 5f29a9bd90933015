----------------------------- MODULE McpSession -----------------------------
(* McpAdapter and one StdioMcpSession: the tool calls of a run's threads    *)
(* share one server process, one request counter and one pair of pipes, on *)
(* which every caller reads for itself.                                    *)
EXTENDS Naturals, FiniteSets

CONSTANTS
    Call,       \* list_tools and invoke_tool calls of one run
    Discovery,  \* the call of discover_tools, before there are other threads
    Attempts    \* of each call: retry_attempts + 1

ASSUME SessionAssumption ==
    /\ Discovery \in Call
    /\ Attempts \in [Call -> Nat \ {0}]

VARIABLES
    call,       \* what the caller of each call waits for
    worker,     \* the one-thread executor of each attempt: session.call
    nextId,     \* _next_id
    initialized,
    open,       \* somebody has the other ends of the pipes
    wrapped,    \* the command is a launcher (npx, uvx): its child has them too
    inbox,      \* requests written and not answered
    outbox,     \* messages of the server not read yet
    run         \* "on", "closed" (after _close_mcp_adapter), "exited"

mcpVars == <<call, worker, nextId, initialized, open, wrapped, inbox, outbox, run>>

Attempt == UNION {{c} \X (1..Attempts[c]) : c \in Call}
Nothing == <<"nothing">>

\* The attempt a caller waits for.
Current(c) == <<c, call[c].try>>

Finished == {"off", "done", "failed"}
Running == {a \in Attempt : worker[a].pc \notin Finished}

Off == [pc |-> "off", id |-> 0, got |-> Nothing]

McpInit ==
    /\ call = [c \in Call |-> [pc |-> "idle", try |-> 1]]
    /\ worker = [a \in Attempt |-> Off]
    /\ nextId = 1
    /\ initialized = FALSE
    /\ open = TRUE
    /\ wrapped \in BOOLEAN
    /\ inbox = {}
    /\ outbox = {}
    /\ run = "on"

Goes(a, pc) ==
    worker' = [worker EXCEPT ![a].pc = pc, ![a].id = IF pc = "failed" THEN 0 ELSE @]

-----------------------------------------------------------------------------
(* StdioMcpSession.call, in the thread of one attempt *)

\* A request under the next id, or the broken pipe of a server that is gone.
Request(a, pc) ==
    IF open
    THEN /\ inbox' = inbox \cup {[id |-> nextId, for |-> a]}
         /\ worker' = [worker EXCEPT ![a].pc = pc, ![a].id = nextId]
         /\ nextId' = nextId + 1
    ELSE /\ Goes(a, "failed")
         /\ nextId' = nextId + 1
         /\ UNCHANGED inbox

\* _ensure_initialized looks at a flag that only a finished handshake sets.
Look(a) ==
    /\ worker[a].pc = "look"
    /\ IF initialized
       THEN Request(a, "wait")
       ELSE Request(a, "hello")
    /\ UNCHANGED <<call, initialized, open, wrapped, outbox, run>>

\* Mutant: whatever comes first is the reply.
MatchesAny(a, m) == TRUE

\* _read_response
Matches(a, m) == m.id = worker[a].id

\* A message is read once: one that is not a's reply is gone for everybody.
\* The reply to a handshake sets the flag and the call is sent, unless the
\* pipe is broken by then.
Read(a) ==
    /\ worker[a].pc \in {"hello", "wait"}
    /\ \E m \in outbox :
         /\ outbox' = outbox \ {m}
         /\ \/ /\ ~Matches(a, m)
               /\ UNCHANGED <<worker, nextId, initialized, inbox>>
            \/ /\ Matches(a, m) /\ ~m.ok
               /\ Goes(a, "failed")
               /\ UNCHANGED <<nextId, initialized, inbox>>
            \/ /\ Matches(a, m) /\ m.ok /\ worker[a].pc = "wait"
               /\ worker' = [worker EXCEPT ![a] = [pc |-> "done", id |-> 0, got |-> m.for]]
               /\ UNCHANGED <<nextId, initialized, inbox>>
            \/ /\ Matches(a, m) /\ m.ok /\ worker[a].pc = "hello"
               /\ initialized' = (initialized \/ open)
               /\ Request(a, "wait")
    /\ UNCHANGED <<call, open, wrapped, run>>

\* "MCP server closed stdout"
EndOfFile(a) ==
    /\ worker[a].pc \in {"hello", "wait"}
    /\ ~open
    /\ outbox = {}
    /\ Goes(a, "failed")
    /\ UNCHANGED <<call, nextId, initialized, open, wrapped, inbox, outbox, run>>

-----------------------------------------------------------------------------
(* McpAdapter._call_session_with_retries, in the thread of the caller *)

Submit(a) == worker' = [worker EXCEPT ![a].pc = "look"]

\* discover_tools comes before the run has other threads; retries of all of
\* them go to the same session.
Begin(c) ==
    /\ run = "on"
    /\ call[c].pc = "idle"
    /\ c = Discovery \/ call[Discovery].pc \in {"answered", "failed"}
    /\ call' = [call EXCEPT ![c].pc = "calling"]
    /\ Submit(<<c, 1>>)
    /\ UNCHANGED <<nextId, initialized, open, wrapped, inbox, outbox, run>>

Deliver(c) ==
    /\ call[c].pc = "calling"
    /\ worker[Current(c)].pc = "done"
    /\ call' = [call EXCEPT ![c].pc = "answered"]
    /\ worker' = [worker EXCEPT ![Current(c)] = Off]
    /\ UNCHANGED <<nextId, initialized, open, wrapped, inbox, outbox, run>>

Retry(c) ==
    /\ call[c].try < Attempts[c]
    /\ call' = [call EXCEPT ![c].try = @ + 1]
    /\ Submit(<<c, call[c].try + 1>>)

GiveUp(c) ==
    /\ call' = [call EXCEPT ![c].pc = "failed"]
    /\ UNCHANGED worker

\* session_error and execution_error are retried, protocol_error is not.
\* Which one it is depends on words in the text of the error, most of them the
\* server's: the choice is left open here.
Fail(c) ==
    /\ call[c].pc = "calling"
    /\ worker[Current(c)].pc = "failed"
    /\ Retry(c) \/ GiveUp(c)
    /\ UNCHANGED <<nextId, initialized, open, wrapped, inbox, outbox, run>>

\* Mutant: the process is left alone.
CloseLazily == UNCHANGED open

\* session.close: the process that was started, not the children it has.
Close == open' = (open /\ wrapped)

\* Mutant: only the first attempt is timed.
TimesOutFirst(c) == call[c].pc = "calling" /\ call[c].try = 1

TimesOut(c) == call[c].pc = "calling"

\* future.result gave up; the thread of the attempt goes on.
Timeout(c) ==
    /\ TimesOut(c)
    /\ worker[Current(c)].pc \notin Finished
    /\ Close
    /\ Retry(c) \/ (call[c].try = Attempts[c] /\ GiveUp(c))
    /\ UNCHANGED <<nextId, initialized, wrapped, inbox, outbox, run>>

-----------------------------------------------------------------------------
(* ExecuteCommand._wire_mcp_adapter and _close_mcp_adapter *)

Idle == \A c \in Call : call[c].pc # "calling"

\* The end of the run, which an exception of it leaves out.
CloseAdapter ==
    /\ run = "on"
    /\ Idle
    /\ Close
    /\ run' = "closed"
    /\ UNCHANGED <<call, worker, nextId, initialized, wrapped, inbox, outbox>>

\* The interpreter joins the threads of all executors before it exits.
Exit ==
    /\ run = "closed" \/ (run = "on" /\ Idle)
    /\ Running = {}
    /\ run' = "exited"
    /\ open' = FALSE
    /\ UNCHANGED <<call, worker, nextId, initialized, wrapped, inbox, outbox>>

-----------------------------------------------------------------------------
(* The server *)

\* It answers what it likes, in whatever order, with a result or an error.
Answer ==
    /\ open
    /\ \E r \in inbox, ok \in BOOLEAN :
         /\ inbox' = inbox \ {r}
         /\ outbox' = outbox \cup {[id |-> r.id, for |-> r.for, ok |-> ok]}
    /\ UNCHANGED <<call, worker, nextId, initialized, open, wrapped, run>>

Crash ==
    /\ open
    /\ open' = FALSE
    /\ UNCHANGED <<call, worker, nextId, initialized, wrapped, inbox, outbox, run>>

CallerStep(c) == Begin(c) \/ Deliver(c) \/ Fail(c) \/ Timeout(c)
WorkerStep(a) == Look(a) \/ Read(a) \/ EndOfFile(a)

McpNext ==
    \/ \E c \in Call : CallerStep(c)
    \/ \E a \in Attempt : WorkerStep(a)
    \/ CloseAdapter
    \/ Exit
    \/ Answer
    \/ Crash

McpSpec == McpInit /\ [][McpNext]_mcpVars

\* Threads that can run do, a wait is timed, and a run that is over ends its
\* process; nothing is assumed of the server, nor that calls are made.
Fairness ==
    /\ \A a \in Attempt : WF_mcpVars(WorkerStep(a))
    /\ \A c \in Call : WF_mcpVars(Deliver(c) \/ Fail(c) \/ Timeout(c))
    /\ WF_mcpVars(run = "closed" /\ Exit)

FairSpec == McpSpec /\ Fairness

-----------------------------------------------------------------------------
(* Properties *)

Message == [id : Nat, for : Attempt, ok : BOOLEAN]

McpTypeOK ==
    /\ call \in [Call -> [pc : {"idle", "calling", "answered", "failed"}, try : Nat \ {0}]]
    /\ \A c \in Call : Current(c) \in Attempt
    /\ worker \in [Attempt -> [pc : Finished \cup {"look", "hello", "wait"},
                               id : Nat, got : Attempt \cup {Nothing}]]
    /\ nextId \in Nat \ {0}
    /\ inbox \subseteq [id : Nat, for : Attempt]
    /\ outbox \subseteq Message
    /\ initialized \in BOOLEAN /\ open \in BOOLEAN /\ wrapped \in BOOLEAN
    /\ run \in {"on", "closed", "exited"}

\* What a call returns is the reply to its own request, however the replies of
\* concurrent calls, of retries and of calls given up mix on the pipe.
AnswerIsMine ==
    \A a \in Attempt : worker[a].pc = "done" => worker[a].got = a

\* A call always ends, whatever the server does or leaves out, and although
\* another caller may have taken its reply.
EveryCallEnds ==
    \A c \in Call : (call[c].pc = "calling") ~> (call[c].pc \in {"answered", "failed"})

\* A run that closed its adapter ends its process, although calls were given
\* up in it - unless a child of the launcher kept the pipes.
ClosedRunExits == (run = "closed" /\ ~wrapped) ~> (run = "exited")
=============================================================================
