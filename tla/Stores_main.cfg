\* Two threads of a process and one of another replace a file; four records
\* are appended while the journal is rewritten; kills and power failures.
SPECIFICATION StoresSpec
CONSTANTS
    w1 = w1
    w2 = w2
    v = v
    p = p
    q = q
    nobody = nobody
    r1 = r1
    r2 = r2
    r3 = r3
    r4 = r4
    Writer <- Writers
    Proc <- Processes
    ProcOf <- Owner
    Size <- Length
    Nobody <- nobody
    Record <- Records
    MaxFaults = 3
CONSTRAINT Apart
SYMMETRY Alike
INVARIANTS
    WholeFile
    AppendedStays
CHECK_DEADLOCK FALSE
