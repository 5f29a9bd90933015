--------------------------- MODULE BackgroundRuns ---------------------------
(* background_run_registry.json: `goal --background` starts a process of    *)
(* its own and lists it; every status view follows the listed processes by *)
(* their pids, edits what it read of the list and replaces the file.       *)
EXTENDS Naturals, Sequences

CONSTANTS
    Starter,    \* `background start` commands; each also names its process
    Viewer,     \* commands that call background_run_projection
    Foreground, \* stands for the commands that create runs in the foreground
    Keep,       \* entries that append_run keeps, 32
    MaxRuns,    \* bound: run records created
    MaxDeaths   \* bound: starters and viewers that die half way

ASSUME RegistryAssumption ==
    /\ Starter \cap Viewer = {}
    /\ Foreground \notin Starter
    /\ Keep \in Nat \ {0}
    /\ MaxRuns \in Nat
    /\ MaxDeaths \in Nat

VARIABLES
    registry,   \* the entries, oldest first
    proc,       \* the background process of each starter
    runs,       \* who created each run record, oldest first
    command,    \* what each command is at, with its copy of the entries
    crossed,    \* history: two commands were between a read and its write
    listed,     \* history: processes that were appended to the list
    deaths

bgVars == <<registry, proc, runs, command, crossed, listed, deaths>>

Cmd == Starter \cup Viewer

\* since counts the runs older than the entry (started_at against created_at).
Entry == [pid : Starter, status : {"starting", "running", "completed", "failed"},
          run : 0..MaxRuns, since : 0..MaxRuns]

Idle == [pc |-> "idle", copy |-> <<>>]

BgInit ==
    /\ registry = <<>>
    /\ proc = [p \in Starter |-> "none"]
    /\ runs = <<>>
    /\ command = [c \in Cmd |-> Idle]
    /\ crossed = FALSE
    /\ listed = {}
    /\ deaths = 0

HalfWay(c) == command[c].pc \in {"append", "probe", "write"}

Reads(c, j) ==
    /\ command' = [command EXCEPT ![c] = j]
    /\ crossed' = (crossed \/ \E o \in Cmd \ {c} : HalfWay(o))

Replaces(c) ==
    /\ registry' = command[c].copy
    /\ command' = [command EXCEPT ![c] = Idle]

-----------------------------------------------------------------------------
(* start_local_background_run *)

NewEntry(s) == [pid |-> s, status |-> "starting", run |-> 0, since |-> Len(runs)]

\* Mutant: the list is begun anew.
NewestOnly(list) == <<list[Len(list)]>>

\* runs[-32:]
Newest(list) ==
    IF Len(list) <= Keep THEN list ELSE SubSeq(list, Len(list) - Keep + 1, Len(list))

\* The process runs from here on, and nothing lists it yet; or there is none,
\* which is listed as failed.
Spawn(s) ==
    /\ command[s].pc = "idle"
    /\ proc[s] = "none"
    /\ \/ /\ proc' = [proc EXCEPT ![s] = "alive"]
          /\ command' = [command EXCEPT ![s] = [pc |-> "list", copy |-> <<NewEntry(s)>>]]
       \/ /\ proc' = [proc EXCEPT ![s] = "bad"]
          /\ command' = [command EXCEPT ![s] =
                [pc |-> "list", copy |-> <<[NewEntry(s) EXCEPT !.status = "failed"]>>]]
    /\ UNCHANGED <<registry, runs, crossed, listed, deaths>>

\* append_run, its read and its write
ReadList(s) ==
    /\ command[s].pc = "list"
    /\ Reads(s, [pc |-> "append", copy |-> Newest(registry \o command[s].copy)])
    /\ UNCHANGED <<registry, proc, runs, listed, deaths>>

List(s) ==
    /\ command[s].pc = "append"
    /\ Replaces(s)
    /\ listed' = listed \cup {s}
    /\ UNCHANGED <<proc, runs, crossed, deaths>>

-----------------------------------------------------------------------------
(* The processes: `goal` commands, which create a run if they get that far  *)

Create(p) ==
    /\ Len(runs) < MaxRuns
    /\ runs' = Append(runs, p)
    /\ UNCHANGED <<registry, proc, command, crossed, listed, deaths>>

CreateRun(p) == proc[p] = "alive" /\ Create(p)

ForegroundRun == Create(Foreground)

\* A process ends, by itself or killed: exit 0 or not.
End(p) ==
    /\ proc[p] = "alive"
    /\ \E exit \in {"ok", "bad"} : proc' = [proc EXCEPT ![p] = exit]
    /\ UNCHANGED <<registry, runs, command, crossed, listed, deaths>>

-----------------------------------------------------------------------------
(* refresh_statuses *)

\* _link_recent_run: of these, the one modified last, whoever made it.
Candidates(e) == (e.since + 1)..Len(runs)

\* Mutant: only a process that made a run is seen.
AliveWithRun(p) == proc[p] = "alive" /\ \E i \in 1..Len(runs) : runs[i] = p

\* _pid_is_alive
Alive(p) == proc[p] = "alive"

Ended(e) == e.status \in {"completed", "failed"}

\* Mutant: a running entry is left as it is.
StatusOnce(e) ==
    IF e.status = "starting" THEN IF Alive(e.pid) THEN "running" ELSE "failed" ELSE e.status

\* A process that is gone at the first look "failed to start"; at a later one
\* _poll_exit_code makes its exit code 0, whatever it was.
Status(e) ==
    CASE Ended(e)            -> e.status
      [] e.status = "starting" -> IF Alive(e.pid) THEN "running" ELSE "failed"
      [] e.status = "running"  -> IF Alive(e.pid) THEN "running" ELSE "completed"

Links(e) == e.status = "running" /\ Alive(e.pid)

\* The runs an entry can be linked to by a refresh; one that is linked stays so.
Linked(e) ==
    IF Links(e) /\ e.run = 0 /\ Candidates(e) # {} THEN Candidates(e) ELSE {e.run}

View(v) ==
    /\ command[v].pc = "idle"
    /\ Reads(v, [pc |-> "probe", copy |-> registry])
    /\ UNCHANGED <<registry, proc, runs, listed, deaths>>

\* Every entry of the copy is probed.  The file is written again whenever one
\* changed or is linked; the evidence file of a linked run says the same.
Probe(v) ==
    /\ command[v].pc = "probe"
    /\ \E r \in [DOMAIN command[v].copy -> 0..MaxRuns] :
         LET old == command[v].copy
             new == [n \in DOMAIN old |-> [old[n] EXCEPT !.status = Status(old[n]), !.run = r[n]]]
             changed == new # old \/ \E n \in DOMAIN old : Links(old[n]) /\ r[n] # 0
         IN  /\ \A n \in DOMAIN old : r[n] \in Linked(old[n])
             /\ command' = [command EXCEPT ![v] =
                          IF changed THEN [pc |-> "write", copy |-> new] ELSE Idle]
    /\ UNCHANGED <<registry, proc, runs, crossed, listed, deaths>>

Save(v) ==
    /\ command[v].pc = "write"
    /\ Replaces(v)
    /\ UNCHANGED <<proc, runs, crossed, listed, deaths>>

\* A starter or a viewer dies half way, the background processes do not.
Dies(c) ==
    /\ command[c].pc # "idle"
    /\ deaths < MaxDeaths
    /\ deaths' = deaths + 1
    /\ command' = [command EXCEPT ![c] = Idle]
    /\ UNCHANGED <<registry, proc, runs, crossed, listed>>

-----------------------------------------------------------------------------

ViewStep(v) == View(v) \/ Probe(v) \/ Save(v)

BgNext ==
    \/ \E s \in Starter : Spawn(s) \/ ReadList(s) \/ List(s) \/ CreateRun(s) \/ End(s)
    \/ ForegroundRun
    \/ \E v \in Viewer : ViewStep(v)
    \/ \E c \in Cmd : Dies(c)

BgSpec == BgInit /\ [][BgNext]_bgVars

\* Somebody keeps looking at the status, and what is half way goes on.
BgFairSpec ==
    /\ BgSpec
    /\ \A v \in Viewer : WF_bgVars(ViewStep(v))
    /\ \A s \in Starter : WF_bgVars(ReadList(s) \/ List(s))

-----------------------------------------------------------------------------
(* Properties *)

Entries == {registry[n] : n \in DOMAIN registry}
Shown   == {e.pid : e \in Entries}

BgTypeOK ==
    /\ registry \in Seq(Entry)
    /\ proc \in [Starter -> {"none", "alive", "ok", "bad"}]
    /\ runs \in Seq(Starter \cup {Foreground})
    /\ command \in [Cmd -> [pc : {"idle", "list", "append", "probe", "write"}, copy : Seq(Entry)]]
    /\ crossed \in BOOLEAN
    /\ listed \subseteq Starter
    /\ deaths \in 0..MaxDeaths

\* A process the list shows as ended has ended, however the views and the
\* starts overwrite each other's lists.
EndedIsDead == \A e \in Entries : Ended(e) => proc[e.pid] # "alive"

\* Unless two commands were half way at once, the list forgets no process
\* while it has room for it.
NothingForgotten ==
    ~crossed /\ Len(registry) < Keep => listed \subseteq Shown

\* The end of a listed process is noticed, unless the list lost the entry.
EndNoticed ==
    \A p \in Starter :
        (p \in Shown /\ proc[p] # "alive") ~>
        (p \notin Shown \/ \E e \in Entries : e.pid = p /\ Ended(e))

=============================================================================
