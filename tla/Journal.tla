------------------------------ MODULE Journal ------------------------------
(* A JSONL file of one process: JsonlStore.append, read_all and rewrite_all, *)
(* kills and power failures at any point.                                    *)
EXTENDS Naturals, Sequences

CONSTANTS
    Record,     \* the records that are appended, each by a thread of its own
    MaxFaults   \* bound: kills and power failures

ASSUME FaultsAssumption == MaxFaults \in Nat

VARIABLES
    lines,      \* the file as the system shows it
    synced,     \* the file as the disk has it for sure
    append,     \* append of each record: "idle", "sync", "done" or "cut"
    copy,       \* the rows read for a rewrite, while there is one
    returned,   \* history: records whose append returned
    safe,       \* history: those that returned before the power first failed
    mixed,      \* history: a record was appended between a read and a rewrite
    cut,        \* history: the power failed
    faults

journal == <<lines, synced, append, copy, returned, safe, mixed, cut, faults>>

\* A line holds a record, or what no parser takes; the last may lack its end.
Line   == [rec : Record, ok : BOOLEAN, ended : BOOLEAN]
Copy   == [held : BOOLEAN, rows : Seq(Line)]
NoCopy == [held |-> FALSE, rows |-> <<>>]

JournalInit ==
    /\ lines = <<>> /\ synced = <<>>
    /\ append = [r \in Record |-> "idle"]
    /\ copy = NoCopy
    /\ returned = {} /\ safe = {}
    /\ mixed = FALSE /\ cut = FALSE
    /\ faults = 0

\* read_all raises on a line that does not parse.
Readable(file) == \A n \in DOMAIN file : file[n].ok
Rows(file)     == {file[n].rec : n \in {m \in DOMAIN file : file[m].ok}}

-----------------------------------------------------------------------------
(* JsonlStore *)

Front(file) == SubSeq(file, 1, Len(file) - 1)
NoEnd(file) == file # <<>> /\ ~file[Len(file)].ended

\* The text goes to the end of the file, on the last line if that has no end.
WithRecord(file, r) ==
    IF NoEnd(file)
    THEN Append(Front(file), [rec |-> r, ok |-> FALSE, ended |-> TRUE])
    ELSE Append(file, [rec |-> r, ok |-> TRUE, ended |-> TRUE])

\* _JSONL_APPEND_LOCK, which readers do not take.
AppendFree == \A r \in Record : append[r] # "sync"

WriteLine(r) ==
    /\ append[r] = "idle" /\ AppendFree
    /\ lines' = WithRecord(lines, r)
    /\ append' = [append EXCEPT ![r] = "sync"]
    /\ mixed' = (mixed \/ copy.held)
    /\ UNCHANGED <<synced, copy, returned, safe, cut, faults>>

\* Mutant: flush without fsync.
LinesCached == synced

LinesOnDisk == lines

\* fsync, and append returns.
SyncLine(r) ==
    /\ append[r] = "sync"
    /\ synced' = LinesOnDisk
    /\ append' = [append EXCEPT ![r] = "done"]
    /\ returned' = returned \cup {r}
    /\ safe' = IF cut THEN safe ELSE safe \cup {r}
    /\ UNCHANGED <<lines, copy, mixed, cut, faults>>

\* _rewrite_runtime_request reads ...
ReadRows ==
    /\ ~copy.held
    /\ Readable(lines)
    /\ copy' = [held |-> TRUE, rows |-> lines]
    /\ UNCHANGED <<lines, synced, append, returned, safe, mixed, cut, faults>>

Ends(file) == [n \in DOMAIN file |-> [file[n] EXCEPT !.ended = TRUE]]

Rewritten(file) == Ends(file)

\* ... and rewrite_all replaces the file, synced and under the lock, with the
\* rows that were read.
Rewrite ==
    /\ copy.held /\ AppendFree
    /\ lines' = Rewritten(copy.rows)
    /\ synced' = Rewritten(copy.rows)
    /\ copy' = NoCopy
    /\ UNCHANGED <<append, returned, safe, mixed, cut, faults>>

-----------------------------------------------------------------------------
(* Faults *)

Fault ==
    /\ faults < MaxFaults
    /\ faults' = faults + 1
    /\ append' = [r \in Record |-> IF append[r] = "sync" THEN "cut" ELSE append[r]]
    /\ copy' = NoCopy
    /\ UNCHANGED <<returned, safe, mixed>>

KillAppend == Fault /\ (copy.held \/ ~AppendFree) /\ UNCHANGED <<lines, synced, cut>>

\* Of a line that was not synced the disk has all, none, or a beginning.
Remains ==
    IF lines = synced THEN {lines}
    ELSE {synced, lines} \cup
         {Append(Front(lines), [lines[Len(lines)] EXCEPT !.ended = FALSE, !.ok = @ /\ all]) :
            all \in BOOLEAN}

PowerCut ==
    /\ Fault
    /\ lines' \in Remains
    /\ synced' = lines'
    /\ cut' = TRUE

JournalNext ==
    \/ \E r \in Record : WriteLine(r) \/ SyncLine(r)
    \/ ReadRows
    \/ Rewrite
    \/ KillAppend
    \/ PowerCut

JournalSpec == JournalInit /\ [][JournalNext]_journal

-----------------------------------------------------------------------------
(* Properties *)

JournalTypeOK ==
    /\ lines \in Seq(Line) /\ synced \in Seq(Line)
    /\ append \in [Record -> {"idle", "sync", "done", "cut"}]
    /\ copy \in Copy
    /\ safe \subseteq returned /\ returned \subseteq Record
    /\ mixed \in BOOLEAN /\ cut \in BOOLEAN
    /\ faults \in 0..MaxFaults

\* What was appended is read whatever processes are killed, and a record whose
\* append returned is still a line of its own after power failures, appends to
\* a torn line and rewrites - unless a rewrite began before the append and
\* ended after it.
AppendedStays ==
    ~mixed => /\ ~cut => Readable(lines) /\ returned \subseteq Rows(lines)
              /\ safe \subseteq Rows(lines)
=============================================================================
