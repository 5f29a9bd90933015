----------------------------- MODULE ExpertBatch -----------------------------
(* Delegation: the lead's turn loop hands a batch of calls to experts, which  *)
(* run one after the other, or at once on the shared workspace (only readers) *)
(* or each writer in a candidate of its own that a merge gate reconciles.     *)
(* The content of a file is the set of those whose edits it contains, so what *)
(* is overwritten is what leaves the set.                                     *)
EXTENDS Integers, FiniteSets

CONSTANTS
    Lead, User,    \* the lead agent, and somebody else who edits the workspace
    File,
    Dir,           \* a write_scope entry that covers every file
    Tracked,       \* the files git knows from the start
    Scopes,        \* the write_scopes the lead may give
    Workers,       \* max_parallel_workers_per_run
    MaxCalls,      \* bound: calls of one batch
    MaxChildren,   \* bound: experts of the whole turn
    MaxEdits       \* bound: changes of files, and commits, by anybody

Child  == 1..MaxChildren
Author == Child \cup {Lead, User}

ASSUME ExpertAssumption ==
    /\ Lead \notin Child
    /\ User \notin Child
    /\ Dir \notin File
    /\ IsFiniteSet(File)
    /\ Tracked \subseteq File
    /\ Scopes \subseteq SUBSET (File \cup {Dir})
    /\ {} \in Scopes
    /\ Workers \in Nat \ {0}
    /\ MaxCalls \in Nat
    /\ MaxChildren \in Nat
    /\ MaxEdits \in Nat

VARIABLES
    head,       \* the commit HEAD of the repository
    shared,     \* the workspace of the lead
    autonomous, \* both batch flags, which the permission mode sets together
    pc,         \* of the lead: "lead", "create", "run", "gate" or "land"
    first,      \* the first expert of the last batch
    minted,     \* subagent_counter: the last one
    writers,    \* the experts that are not read_only
    scope,      \* the write_scope each was given
    status,     \* of each expert
    tree,       \* the candidate of each isolated writer
    worktree,   \* the candidates that are git worktrees
    made,       \* the experts that have a candidate
    changed,    \* the files each expert's write tools report
    gone,       \* the files it deleted in its candidate
    item,       \* the expert whose candidate is being promoted, or 0
    todo,       \* its files still to be copied
    landed,     \* the experts promoted
    credited,   \* what the completion contract of the lead is credited with
    raised,     \* why the last batch came back as one failed observation, or "no"
    disturbed,  \* somebody else changed the workspace or HEAD under the batch
    edits       \* how many changes of files there were

repo     == <<head, shared>>
minting  == <<autonomous, first, minted, writers, scope>>
cand     == <<tree, worktree, made>>
work     == <<changed, gone>>
landing  == <<item, todo, landed>>
vars == <<head, shared, autonomous, first, minted, writers, scope, pc, status,
          tree, worktree, made, changed, gone, item, todo, landed, credited,
          raised, disturbed, edits>>

Ended   == {"ok", "cut", "raised"}
Members == first..minted

Init ==
    /\ head = [f \in File |-> {}]
    /\ shared = head
    /\ autonomous \in BOOLEAN
    /\ pc = "lead"
    /\ first = 1
    /\ minted = 0
    /\ writers = {}
    /\ scope = [c \in Child |-> {}]
    /\ status = [c \in Child |-> "none"]
    /\ tree = [c \in Child |-> [f \in File |-> {}]]
    /\ worktree = {}
    /\ made = {}
    /\ changed = [c \in Child |-> {}]
    /\ gone = [c \in Child |-> {}]
    /\ item = 0
    /\ todo = {}
    /\ landed = {}
    /\ credited = {}
    /\ raised = "no"
    /\ disturbed = FALSE
    /\ edits = 0

-----------------------------------------------------------------------------
(* What kind of batch, and where its experts work *)

Kind ==
    CASE minted = first \/ ~autonomous -> "serial"
      [] minted # first /\ autonomous /\ Members \cap writers = {} -> "fanout"
      [] OTHER -> "isolated"

\* path_in_write_scope
Covered(s) == IF Dir \in s THEN File ELSE s

Isolated(c) == c \in made

With(t, f, a) == [t EXCEPT ![f] = @ \cup {a}]

Counted == edits < MaxEdits /\ edits' = edits + 1

\* An edit of expert c in the root its context carries.
Edit(c, f) ==
    Counted /\ IF Isolated(c)
    THEN tree' = [tree EXCEPT ![c] = With(@, f, c)] /\ UNCHANGED shared
    ELSE shared' = With(shared, f, c) /\ UNCHANGED tree

\* Threads of the pool that are taken (one expert at a time when serial).
Busy  == {c \in Members : status[c] = "running"}
Limit == IF Kind = "serial" THEN 1 ELSE Workers

-----------------------------------------------------------------------------
(* The lead *)

LeadWrites(f) ==
    /\ pc = "lead"
    /\ Counted
    /\ shared' = With(shared, f, Lead)
    /\ UNCHANGED <<head, minting, pc, status, cand, work, landing, credited,
                   raised, disturbed>>

\* _spawn_batch mints the experts of n calls, W of them writers, with scopes s.
\* A read-only expert has no write_scope, and a call may leave it out.
Mint(n, W, s) ==
    /\ minted + n <= MaxChildren
    /\ first' = minted + 1
    /\ minted' = minted + n
    /\ \A c \in (minted + 1..minted + n) \ W : s[c] = {}
    /\ writers' = writers \cup W
    /\ scope' = [c \in Child |-> IF c \in DOMAIN s THEN s[c] ELSE scope[c]]
    /\ status' = [c \in Child |-> IF c \in minted + 1..minted + n THEN "waiting" ELSE status[c]]

\* One tool batch with spawn_subagent calls.
Delegate ==
    /\ pc = "lead"
    /\ \E n \in 1..MaxCalls :
        \E W \in SUBSET (minted + 1..minted + n), s \in [minted + 1..minted + n -> Scopes] :
            Mint(n, W, s)
    /\ UNCHANGED <<repo, autonomous, cand, work, landing, credited, edits>>
    /\ pc' = IF Kind' = "isolated" THEN "create" ELSE "run"
    /\ raised' = "no"
    /\ disturbed' = FALSE

\* The exception that ends a batch: _execute makes one observation of it.
Raise(why) ==
    /\ pc' = "lead"
    /\ raised' = why
    /\ item' = 0
    /\ todo' = {}
    /\ UNCHANGED <<landed, credited>>

\* Mutant of Credit: the observations of failed calls count as well.
CreditAnyhow(S) == credited' = credited \cup {p \in S \X File : p[2] \in changed[p[1]]}

\* The results of the experts S that are ok, with the files they changed.
Credit(S) ==
    credited' = credited \cup
        {p \in S \X File : status[p[1]] = "ok" /\ p[2] \in changed[p[1]]}

Return(S) ==
    /\ pc' = "lead"
    /\ Credit(S)
    /\ UNCHANGED <<landing, raised>>

-----------------------------------------------------------------------------
(* Candidates of an isolated batch, made one by one before anybody runs *)

Uncreated == (Members \cap writers) \ made

\* can_use_git_worktree: no tracked file is dirty.  A file HEAD has is tracked.
CleanTracked == \A f \in File : f \in Tracked \/ head[f] # {} => shared[f] = head[f]

\* A writer without scope, a dirty workspace, and a `git worktree add` that
\* fails all get a copy.
Create(c) ==
    /\ pc = "create"
    /\ c \in Uncreated
    /\ \A d \in Uncreated : c <= d
    /\ \/ /\ CleanTracked
          /\ scope[c] # {}
          /\ tree' = [tree EXCEPT ![c] = head]
          /\ worktree' = worktree \cup {c}
       \/ /\ tree' = [tree EXCEPT ![c] = shared]
          /\ UNCHANGED worktree
    /\ made' = made \cup {c}
    /\ pc' = IF Uncreated = {c} THEN "run" ELSE "create"
    /\ UNCHANGED <<repo, minting, status, work, landing, credited, raised, disturbed, edits>>

CreateRaises ==
    /\ pc = "create"
    /\ Raise("io")
    /\ UNCHANGED <<repo, minting, status, cand, work, disturbed, edits>>

-----------------------------------------------------------------------------
(* The experts *)

\* In the order of the calls, as threads come free; an exception in a serial
\* batch leaves the calls after it undone.
Start(c) ==
    /\ pc = "run"
    /\ c \in Members
    /\ status[c] = "waiting"
    /\ \A d \in Members : d < c => status[d] # "waiting"
    /\ Cardinality(Busy) < Limit
    /\ Kind = "serial" => \A d \in Members : status[d] # "raised"
    /\ status' = [status EXCEPT ![c] = "running"]
    /\ UNCHANGED <<repo, minting, pc, cand, work, landing, credited, raised, disturbed, edits>>

\* A write tool, which enforce_tool_permission_profile keeps in the scope.
Writes(c, f) ==
    /\ c \in Busy \cap writers
    /\ f \in Covered(scope[c])
    /\ Edit(c, f)
    /\ changed' = [changed EXCEPT ![c] = @ \cup {f}]
    /\ gone' = [gone EXCEPT ![c] = @ \ {f}]
    /\ UNCHANGED <<head, minting, pc, status, worktree, made, landing, credited,
                   raised, disturbed>>

\* apply_patch that deletes a file, which is reported like a change.
Deletes(c, f) ==
    /\ c \in Busy \cap writers
    /\ Isolated(c)
    /\ f \in Covered(scope[c]) \ gone[c]
    /\ tree[c][f] # {}
    /\ Edit(c, f)
    /\ changed' = [changed EXCEPT ![c] = @ \cup {f}]
    /\ gone' = [gone EXCEPT ![c] = @ \cup {f}]
    /\ UNCHANGED <<head, minting, pc, status, worktree, made, landing, credited,
                   raised, disturbed>>

\* run_command changes a file and reports none.  A reader has it too, on the
\* shared workspace.
Runs(c, f) ==
    /\ c \in Busy
    /\ Edit(c, f)
    /\ gone' = [gone EXCEPT ![c] = @ \ {f}]
    /\ disturbed' = (disturbed \/ (Kind = "isolated" /\ c \notin writers))
    /\ UNCHANGED <<head, minting, pc, status, worktree, made, changed, landing,
                   credited, raised>>

\* LocalExecutor returns "completed", or the turn ran out of its rounds, or a
\* model call raised.
End(c) ==
    /\ c \in Busy
    /\ \E result \in Ended : status' = [status EXCEPT ![c] = result]
    /\ UNCHANGED <<repo, minting, pc, cand, work, landing, credited, raised, disturbed, edits>>

Failed == \E c \in Members : status[c] = "raised"

\* Mutant when taken for Over: a serial batch waits for every result, too.
AllEnded == \A c \in Members : status[c] \in Ended
\* All results are in; of a serial batch: or one raised.
Over == \/ AllEnded
        \/ Kind = "serial" /\ Failed /\ Busy = {}

Join ==
    /\ pc = "run"
    /\ Over
    /\ \/ Failed /\ Raise("expert")
       \/ ~Failed /\ Kind # "isolated" /\ Return(Members)
       \/ /\ ~Failed
          /\ Kind = "isolated"
          /\ pc' = "gate"
          /\ UNCHANGED <<landing, credited, raised>>
    /\ UNCHANGED <<repo, minting, status, cand, work, disturbed, edits>>

-----------------------------------------------------------------------------
(* The merge gate and the promotion of a batch *)

Items == {c \in Members \cap made : status[c] = "ok" /\ changed[c] # {}}

\* _disjoint_write_gate_result compares the entries of the scopes as they are
\* written; _cross_task_file_conflicts compares the files.
Disjoint(S, set) == \A c, d \in S : c # d => set[c] \cap set[d] = {}
\* Mutant of GateOk: the declared scopes are enough.
GateOfScopes == Disjoint(Items, scope)
GateOk == Disjoint(Items, scope) /\ Disjoint(Items, changed)

Gate ==
    /\ pc = "gate"
    /\ \/ Items = {} /\ Return(Members)
       \/ Items # {} /\ ~GateOk /\ Return(Members \ Items)
       \/ /\ Items # {}
          /\ GateOk
          /\ pc' = "land"
          /\ UNCHANGED <<landing, credited, raised>>
    /\ UNCHANGED <<repo, minting, status, cand, work, disturbed, edits>>

\* validate_promotion_ready: the files are there, and those of a worktree are
\* not dirty in the workspace.
Ready(c) ==
    /\ changed[c] \cap gone[c] = {}
    /\ c \in worktree => \A f \in changed[c] : shared[f] = head[f]

\* Mutant of Promote: an item that is not ready is passed over.
PromoteOrSkip(c) ==
    /\ pc = "land"
    /\ item = 0
    /\ c \in Items \ landed
    /\ IF Ready(c) THEN item' = c /\ todo' = changed[c] /\ UNCHANGED landed
                   ELSE landed' = landed \cup {c} /\ UNCHANGED <<item, todo>>
    /\ UNCHANGED <<repo, minting, pc, status, cand, work, credited, raised, disturbed, edits>>

\* promote of the next item.
Promote(c) ==
    /\ pc = "land"
    /\ item = 0
    /\ c \in Items \ landed
    /\ \A d \in Items \ landed : c <= d
    /\ IF Ready(c)
       THEN /\ item' = c
            /\ todo' = changed[c]
            /\ UNCHANGED <<pc, raised, landed, credited>>
       ELSE Raise("not ready")
    /\ UNCHANGED <<repo, minting, status, cand, work, disturbed, edits>>

\* copy2 of one file.
Copied(f) == tree[item][f]

Copy(f) ==
    /\ item # 0
    /\ f \in todo
    /\ shared' = [shared EXCEPT ![f] = Copied(f)]
    /\ todo' = todo \ {f}
    /\ item' = IF todo = {f} THEN 0 ELSE item
    /\ landed' = IF todo = {f} THEN landed \cup {item} ELSE landed
    /\ UNCHANGED <<head, minting, pc, status, cand, work, credited, raised, disturbed, edits>>

CopyRaises ==
    /\ item # 0
    /\ Raise("io")
    /\ UNCHANGED <<repo, minting, status, cand, work, disturbed, edits>>

Landed ==
    /\ pc = "land"
    /\ Items \subseteq landed
    /\ Return(Members)
    /\ UNCHANGED <<repo, minting, status, cand, work, disturbed, edits>>

-----------------------------------------------------------------------------
(* Somebody else: edits a file, or commits all there is *)

Outside ==
    /\ Counted
    /\ \/ \E f \in File : shared' = With(shared, f, User) /\ UNCHANGED head
       \/ head' = shared /\ UNCHANGED shared
    /\ disturbed' = (disturbed \/ pc # "lead")
    /\ UNCHANGED <<minting, pc, status, cand, work, landing, credited, raised>>

Next ==
    \/ \E f \in File : LeadWrites(f)
    \/ Delegate
    \/ \E c \in Child : Create(c) \/ Start(c) \/ End(c) \/ Promote(c)
    \/ \E c \in Child, f \in File : Writes(c, f) \/ Deletes(c, f) \/ Runs(c, f)
    \/ CreateRaises
    \/ Join
    \/ Gate
    \/ \E f \in File : Copy(f)
    \/ CopyRaises
    \/ Landed
    \/ Outside

Spec == Init /\ [][Next]_vars

-----------------------------------------------------------------------------
(* Properties *)

TypeOK ==
    /\ head \in [File -> SUBSET Author]
    /\ shared \in [File -> SUBSET Author]
    /\ autonomous \in BOOLEAN
    /\ pc \in {"lead", "create", "run", "gate", "land"}
    /\ first \in Nat
    /\ minted \in 0..MaxChildren
    /\ writers \subseteq Child
    /\ scope \in [Child -> Scopes]
    /\ status \in [Child -> {"none", "waiting", "running"} \cup Ended]
    /\ tree \in [Child -> [File -> SUBSET Author]]
    /\ worktree \subseteq made
    /\ made \subseteq Child
    /\ changed \in [Child -> SUBSET File]
    /\ gone \in [Child -> SUBSET File]
    /\ item \in Child \cup {0}
    /\ todo \subseteq File
    /\ landed \subseteq Child
    /\ credited \subseteq Child \X File
    /\ raised \in {"no", "expert", "not ready", "io"}
    /\ disturbed \in BOOLEAN
    /\ edits \in 0..MaxEdits

\* No step takes an edit out of the workspace while nobody but the lead and
\* its writers touched it under the batch: no promotion overwrites the work of
\* the lead, of the other experts or of the user (execute_command
\* _spawn_isolated_writes, candidate_execution_gateway preview_and_promote_batch).
NothingOverwritten ==
    [][~disturbed => \A f \in File : shared[f] \subseteq shared'[f]]_vars

\* What the lead is credited with is in the workspace at that moment, whatever
\* was cut, blocked or disturbed (execute_command _result_from_outcome and the
\* end of _spawn_isolated_writes).
CreditIsLanded ==
    [][\A p \in credited' \ credited : p[1] \in shared'[p[2]]]_vars

AllIn  == \A c \in Items : \A f \in changed[c] : c \in shared[f]
NoneIn == \A c \in Items, f \in File : c \notin shared[f]

\* A batch that comes back with results has landed every writer that finished,
\* or none (candidate_execution_gateway preview_and_promote_batch).
ReturnedAllOrNone == pc = "lead" /\ raised = "no" => AllIn \/ NoneIn

=============================================================================
