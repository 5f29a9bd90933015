---------------------------- MODULE StoreProofs -----------------------------
(* What holds of the files, for any number of threads, processes, records   *)
(* and faults.  First decisions.jsonl: Typed types the state, QuietInv says *)
(* what holds as long as no two writers met, and ChainInv what the driver   *)
(* keeps of the audit chain as long as it is alone.  Then JsonStore         *)
(* (FileInv) and JsonlStore (JournalInv), which have a state of their own.  *)
EXTENDS DecisionLog, FileStore, Journal, SequenceTheorems, TLAPS

\* The file fits its bound, and whoever is past the first step has a command.
Sized == /\ Len(rows) <= MaxRows
         /\ \A d \in Decider : Len(decider[d].copy) <= MaxRows

Placed ==
    /\ \A t \in Thread :
         /\ thread[t].pc # "idle" => thread[t].cmd \in Command
         /\ thread[t].pc \in {"append", "seal"} => thread[t].id \in 1..MaxRows + 1
    /\ \A d \in Decider : decider[d].pc = "shown" => decider[d].cmd \in Command

Typed == TypeOK /\ Sized /\ Placed

\* The ids of a file are its line numbers, and it approves what the user did.
Sound(r) == \A i \in DOMAIN r :
    /\ r[i].id = i
    /\ r[i].answer = "approve_once" => r[i].cmd \in granted

\* The questions that users look at are in the file.
Shows(r) == \A d \in Decider : decider[d].pc = "shown" =>
    /\ decider[d].id \in DOMAIN r
    /\ r[decider[d].id].cmd = decider[d].cmd

Asking(t)    == thread[t].pc \in {"count", "append"}
Answering(d) == decider[d].pc \in {"truncate", "write"}

Single ==
    /\ \A s, t \in Thread : Asking(s) /\ Asking(t) => s = t
    /\ \A d, e \in Decider : Answering(d) /\ Answering(e) => d = e
    /\ \A t \in Thread, d \in Decider : ~(Asking(t) /\ Answering(d))

Files ==
    /\ Sound(rows)
    /\ (\A d \in Decider : decider[d].pc # "write") => Shows(rows)
    /\ \A t \in Thread : thread[t].pc = "append" => thread[t].id = Len(rows) + 1

Copies == \A d \in Decider :
    /\ Answering(d) => Sound(decider[d].copy) /\ Shows(decider[d].copy)
    /\ decider[d].pc = "write" => rows = <<>>
    /\ decider[d].pc = "truncate" =>
         /\ DOMAIN decider[d].copy = DOMAIN rows
         /\ \A i \in DOMAIN rows : decider[d].copy[i].cmd = rows[i].cmd

Quiet == Single /\ Files /\ Copies /\ ran \subseteq granted

QuietInv == ~disturbed => Quiet

Question(t) == [id |-> thread[t].id, cmd |-> thread[t].cmd, answer |-> "none"]

ChainInv ==
    /\ \A t \in Thread : thread[t].pc = "seal" <=> latch = t
    /\ ~outside /\ crashes = 0 /\ (\A d \in Decider : decider[d].pc # "write")
         => IF latch = NoThread THEN chain = rows ELSE rows = Append(chain, Question(latch))

-----------------------------------------------------------------------------
(* Types *)

LEMMA TypedInit == Init => Typed
<1> SUFFICES ASSUME Init PROVE Typed
  OBVIOUS
<1>1. <<>> \in Seq(Row) /\ Len(<<>>) = 0
  OBVIOUS
<1>2. \A d \in Decider : decider[d] = Away
  BY DEF Init
<1>3. Sized
  BY <1>1, <1>2, LogAssumption DEF Init, Sized, Away
<1>4. Placed
  BY <1>2 DEF Init, Placed, Resting, Away
<1>5. Away \in [pc : {"idle", "shown", "truncate", "write"},
               cmd : Command \cup {NoCommand}, id : 0..MaxRows + 1, copy : Seq(Row)]
  BY <1>1, LogAssumption DEF Away
<1>6. Resting \in [pc : {"idle", "match", "count", "append", "seal", "run"},
                  cmd : Command \cup {NoCommand}, id : 0..MaxRows + 1]
  BY LogAssumption DEF Resting
<1>7. TypeOK
  <2>1. thread \in [Thread -> [pc : {"idle", "match", "count", "append", "seal", "run"},
                              cmd : Command \cup {NoCommand}, id : 0..MaxRows + 1]]
    BY <1>6 DEF Init
  <2>2. decider \in [Decider -> [pc : {"idle", "shown", "truncate", "write"},
                                cmd : Command \cup {NoCommand}, id : 0..MaxRows + 1,
                                copy : Seq(Row)]]
    BY <1>5 DEF Init
  <2> QED
    <3>1. rows \in Seq(Row) /\ chain \in Seq(Row)
      BY <1>1 DEF Init
    <3>2. /\ granted \subseteq Command /\ ran \subseteq Command
          /\ crashes \in 0..MaxCrashes /\ latch \in Thread \cup {NoThread}
      BY LogAssumption DEF Init
    <3>3. disturbed \in BOOLEAN /\ outside \in BOOLEAN
      BY DEF Init
    <3> QED
      BY <3>1, <3>2, <3>3, <2>1, <2>2 DEF TypeOK
<1> QED
  BY <1>3, <1>4, <1>7 DEF Typed

\* The copy of a decide: the file with one answer put in.
Put(r, i, a) == [r EXCEPT ![i].answer = a]

\* Nothing but that answer is different.
Differs(s, r, i, a) ==
    /\ DOMAIN s = DOMAIN r
    /\ \A j \in DOMAIN r : /\ s[j].id = r[j].id
                           /\ s[j].cmd = r[j].cmd
                           /\ s[j].answer = IF j = i THEN a ELSE r[j].answer

LEMMA AnswerPut ==
  ASSUME NEW r \in Seq(Row), NEW i \in DOMAIN r, NEW a \in {"approve_once", "skip"}
  PROVE  /\ Put(r, i, a) \in Seq(Row)
         /\ Len(Put(r, i, a)) = Len(r)
         /\ Differs(Put(r, i, a), r, i, a)
<1> DEFINE e == [r[i] EXCEPT !.answer = a]
           s == [r EXCEPT ![i] = e]
<1>1. r[i] \in Row /\ i \in 1..Len(r) /\ DOMAIN r = 1..Len(r)
  OBVIOUS
<1>2. e \in Row /\ e.id = r[i].id /\ e.cmd = r[i].cmd /\ e.answer = a
  BY <1>1 DEF Row
<1>3. s \in Seq(Row) /\ Len(s) = Len(r) /\ \A j \in 1..Len(r) : s[j] = IF j = i THEN e ELSE r[j]
  <2> HIDE DEF e
  <2> QED
    BY <1>1, <1>2, ExceptSeq
<1>4. Put(r, i, a) = s
  BY DEF Put
<1>5. DOMAIN s = DOMAIN r
  OBVIOUS
<1> HIDE DEF s
<1> QED
  BY <1>1, <1>2, <1>3, <1>4, <1>5 DEF Differs

LEMMA TypedNext == Typed /\ [Next]_vars => Typed'
<1> SUFFICES ASSUME Typed, [Next]_vars PROVE Typed'
  OBVIOUS
<1> USE LogAssumption DEF Typed, TypeOK, Sized, Placed, past
<1>0. Len(rows) \in Nat
  OBVIOUS
<1>1. ASSUME NEW t \in Thread, Gate(t) PROVE Typed'
  BY <1>1 DEF Gate
<1>2. ASSUME NEW t \in Thread, Match(t) PROVE Typed'
  <2>1. disturbed' \in BOOLEAN
    BY <1>2 DEF Match
  <2>2. \/ thread' = [thread EXCEPT ![t] = Resting]
        \/ thread' = [thread EXCEPT ![t].pc = "count"]
    BY <1>2 DEF Match
  <2> QED
    BY <1>2, <2>1, <2>2 DEF Match, Resting
<1>3. ASSUME NEW t \in Thread, Count(t) PROVE Typed'
  <2>1. NextId \in 1..MaxRows + 1
    BY <1>0 DEF NextId
  <2> QED
    <3>1. TypeOK'
      <4>1. thread' \in [Thread -> [pc : {"idle", "match", "count", "append", "seal", "run"},
                              cmd : Command \cup {NoCommand}, id : 0..MaxRows + 1]]
        <5>1. thread \in [Thread -> [pc : {"idle", "match", "count", "append", "seal", "run"},
                              cmd : Command \cup {NoCommand}, id : 0..MaxRows + 1]]
          OBVIOUS
        <5>2. thread' = [thread EXCEPT ![t].pc = "append", ![t].id = NextId] /\ t \in Thread
          BY <1>3 DEF Count
        <5>3. NextId \in 0..MaxRows + 1
          BY <2>1
        <5> QED
          BY ONLY <5>1, <5>2, <5>3
      <4> QED
        BY <1>3, <4>1 DEF Count
    <3>2. Sized' /\ Placed'
      BY <1>3, <2>1 DEF Count
    <3> QED
      BY <3>1, <3>2
<1>4. ASSUME NEW t \in Thread, AppendRow(t) PROVE Typed'
  <2>1. Question(t) \in Row
    BY <1>4 DEF AppendRow, Question, Row
  <2>2. rows' = Append(rows, Question(t)) /\ rows' \in Seq(Row) /\ Len(rows') = Len(rows) + 1
    BY <1>4, <2>1, AppendProperties DEF AppendRow, Question
  <2>3. TypeOK'
    BY <1>4, <2>2 DEF AppendRow
  <2>4. Sized'
    BY <1>0, <1>4, <2>2 DEF AppendRow
  <2>5. Placed'
    BY <1>4 DEF AppendRow
  <2> QED
    BY <2>3, <2>4, <2>5
<1>5. ASSUME NEW t \in Thread, Seal(t) PROVE Typed'
  <2>1. Question(t) \in Row
    BY <1>5 DEF Seal, Question, Row
  <2>2. chain' \in Seq(Row)
    BY <1>5, <2>1, AppendProperties DEF Seal, Question
  <2> QED
    BY <1>5, <2>2 DEF Seal, Resting
<1>6. ASSUME NEW t \in Thread, RunCommand(t) PROVE Typed'
  BY <1>6 DEF RunCommand, Resting
<1>7. ASSUME NEW d \in Decider, Show(d) PROVE Typed'
  <2>1. PICK i \in DOMAIN rows : decider' = [decider EXCEPT ![d] =
             [pc |-> "shown", cmd |-> rows[i].cmd, id |-> rows[i].id, copy |-> <<>>]]
    BY <1>7 DEF Show
  <2>2. rows[i] \in Row
    OBVIOUS
  <2>3. rows[i].cmd \in Command /\ rows[i].id \in 0..MaxRows + 1
    BY <2>2 DEF Row
  <2>4. <<>> \in Seq(Row) /\ Len(<<>>) = 0
    OBVIOUS
  <2> QED
    BY <1>7, <2>1, <2>3, <2>4 DEF Show
<1>8. ASSUME NEW d \in Decider, Resolve(d) PROVE Typed'
  <2>1. PICK i \in DOMAIN rows, a \in {"approve_once", "skip"} :
          decider' = [decider EXCEPT ![d].pc = "truncate",
                                     ![d].copy = Put(rows, i, a)]
    BY <1>8 DEF Resolve, Put
  <2>2. Put(rows, i, a) \in Seq(Row) /\ Len(Put(rows, i, a)) = Len(rows)
    BY AnswerPut
  <2>3. granted' \subseteq Command
    BY <1>8 DEF Resolve
  <2>4. disturbed' \in BOOLEAN
    BY <1>8 DEF Resolve
  <2>5. TypeOK'
    <3>1. decider' \in [Decider -> [pc : {"idle", "shown", "truncate", "write"},
                                cmd : Command \cup {NoCommand}, id : 0..MaxRows + 1,
                                copy : Seq(Row)]]
      <4>1. decider \in [Decider -> [pc : {"idle", "shown", "truncate", "write"},
                                cmd : Command \cup {NoCommand}, id : 0..MaxRows + 1,
                                copy : Seq(Row)]]
        OBVIOUS
      <4>2. d \in Decider
        OBVIOUS
      <4> QED
        BY ONLY <4>1, <4>2, <2>1, <2>2
    <3> QED
      BY <1>8, <3>1, <2>3, <2>4 DEF Resolve
  <2>6. Sized'
    BY <1>8, <2>1, <2>2 DEF Resolve
  <2>7. Placed'
    BY <1>8, <2>1 DEF Resolve
  <2> QED
    BY <2>5, <2>6, <2>7
<1>9. ASSUME NEW d \in Decider, Declines(d) PROVE Typed'
  BY <1>9 DEF Declines, Away
<1>10. ASSUME NEW d \in Decider, Truncate(d) PROVE Typed'
  <2>1. <<>> \in Seq(Row) /\ Len(<<>>) = 0
    OBVIOUS
  <2>2. TypeOK'
    <3>1. decider' \in [Decider -> [pc : {"idle", "shown", "truncate", "write"},
                                cmd : Command \cup {NoCommand}, id : 0..MaxRows + 1,
                                copy : Seq(Row)]]
      BY <1>10 DEF Truncate
    <3>2. rows' \in Seq(Row)
      BY <1>10, <2>1 DEF Truncate
    <3> QED
      BY <1>10, <3>1, <3>2 DEF Truncate
  <2>3. Sized'
    BY <1>10, <2>1 DEF Truncate
  <2>4. Placed'
    BY <1>10 DEF Truncate
  <2> QED
    BY <2>2, <2>3, <2>4
<1>11. ASSUME NEW d \in Decider, WriteBack(d) PROVE Typed'
  BY <1>11 DEF WriteBack, Away
<1>12. ASSUME NEW d \in Decider, DeciderDies(d) PROVE Typed'
  BY <1>12 DEF DeciderDies, Away
<1>13. CASE DriverDies
  BY <1>13 DEF DriverDies, Resting
<1>14. CASE UNCHANGED vars
  BY <1>14 DEF vars
<1> QED
  BY <1>1, <1>2, <1>3, <1>4, <1>5, <1>6, <1>7, <1>8, <1>9, <1>10, <1>11, <1>12, <1>13, <1>14
  DEF Next

(* The state of a run's decisions is of its types.                          *)
THEOREM TypeCorrect == Spec => []TypeOK
<1>1. Spec => []Typed
  BY TypedInit, TypedNext, PTL DEF Spec
<1> QED
  BY <1>1, PTL DEF Typed

-----------------------------------------------------------------------------
(* While no two writers met *)

LEMMA QuietInit == Init => QuietInv
  BY DEF Init, QuietInv, Quiet, Single, Files, Copies, Sound, Shows, Asking, Answering,
         Resting, Away

\* Whoever begins to write, undisturbed, is the only one.
LEMMA NobodyElse ==
  ASSUME Writers = {}
  PROVE  (\A t \in Thread : ~Asking(t)) /\ (\A d \in Decider : ~Answering(d))
  BY DEF Writers, Asking, Answering

\* What a thread does without touching the file.
LEMMA ThreadOnly ==
  ASSUME Typed, Quiet, NEW t \in Thread,
         NEW place, thread' = [thread EXCEPT ![t] = place],
         UNCHANGED <<rows, decider, granted>>, ran' \subseteq granted,
         place.pc \in {"count", "append"} =>
            Asking(t) \/ Writers = {},
         place.pc = "append" => place.id = Len(rows) + 1
  PROVE  Quiet'
<1>1. \A s \in Thread : thread'[s] = IF s = t THEN place ELSE thread[s]
  BY DEF Typed, TypeOK
<1>2. \A s \in Thread : Asking(s)' => Asking(s) \/ (s = t /\ Writers = {})
  BY <1>1 DEF Asking
<1>3. \A d \in Decider : Answering(d)' <=> Answering(d)
  BY DEF Answering
<1>4. Single'
  BY <1>2, <1>3, NobodyElse DEF Quiet, Single
<1>5. Files'
  BY <1>1 DEF Quiet, Files, Sound, Shows
<1>6. Copies'
  BY <1>3 DEF Quiet, Copies, Sound, Shows
<1> QED
  BY <1>4, <1>5, <1>6 DEF Quiet

LEMMA QuietNext == Typed /\ QuietInv /\ [Next]_vars => QuietInv'
<1> SUFFICES ASSUME Typed, QuietInv, [Next]_vars, ~disturbed' PROVE Quiet'
  BY DEF QuietInv
<1> USE DEF past
<1>1. ASSUME NEW t \in Thread, Gate(t) PROVE Quiet'
  <2>1. PICK c \in Command : thread' = [thread EXCEPT ![t] =
           [pc |-> IF Approved(c) THEN "run" ELSE "match", cmd |-> c, id |-> 0]]
    BY <1>1 DEF Gate
  <2> QED
    BY <1>1, <2>1, ThreadOnly DEF Gate, QuietInv, Quiet
<1>2. ASSUME NEW t \in Thread, Match(t) PROVE Quiet'
  <2>1. Quiet
    BY <1>2 DEF Match, QuietInv
  <2>2. CASE thread' = [thread EXCEPT ![t] = Resting]
    BY <1>2, <2>1, <2>2, ThreadOnly DEF Match, Resting, Quiet
  <2>3. CASE Writers = {} /\ thread' = [thread EXCEPT ![t] = [thread[t] EXCEPT !.pc = "count"]]
    <3>1. [thread[t] EXCEPT !.pc = "count"].pc = "count"
      BY DEF Typed, TypeOK
    <3> QED
      BY <1>2, <2>1, <2>3, <3>1, ThreadOnly DEF Match, Quiet
  <2> QED
    BY <1>2, <2>2, <2>3 DEF Match
<1>3. ASSUME NEW t \in Thread, Count(t) PROVE Quiet'
  <2>1. Quiet /\ Asking(t)
    BY <1>3 DEF Count, QuietInv, Asking
  <2> DEFINE place == [thread[t] EXCEPT !.pc = "append", !.id = NextId]
  <2>2. place.pc = "append" /\ place.id = Len(rows) + 1
    BY DEF Typed, TypeOK, NextId
  <2>3. thread' = [thread EXCEPT ![t] = place]
    BY <1>3 DEF Count
  <2> HIDE DEF place
  <2> QED
    BY <1>3, <2>1, <2>2, <2>3, ThreadOnly DEF Count, Quiet
<1>4. ASSUME NEW t \in Thread, AppendRow(t) PROVE Quiet'
  <2>1. Quiet /\ Asking(t)
    BY <1>4 DEF AppendRow, QuietInv, Asking
  <2>2. Question(t) \in Row
    BY <1>4 DEF AppendRow, Question, Row, Typed, Placed
  <2>3. /\ Len(rows') = Len(rows) + 1
        /\ DOMAIN rows' = 1..Len(rows) + 1 /\ DOMAIN rows = 1..Len(rows) /\ Len(rows) \in Nat
        /\ \A i \in 1..Len(rows) : rows'[i] = rows[i]
        /\ rows'[Len(rows) + 1] = Question(t)
    BY <1>4, <2>2, AppendProperties DEF AppendRow, Question, Typed, TypeOK
  <2>4. \A s \in Thread : thread'[s].pc = IF s = t THEN "seal" ELSE thread[s].pc
    BY <1>4 DEF AppendRow, Typed, TypeOK
  <2>5. Single'
    BY <1>4, <2>1, <2>4 DEF AppendRow, Quiet, Single, Asking, Answering
  <2>6. \A d \in Decider : ~Answering(d) /\ decider'[d] = decider[d]
    BY <1>4, <2>1 DEF AppendRow, Quiet, Single
  <2>7. \A s \in Thread : thread'[s].pc # "append"
    BY <2>1, <2>4 DEF Quiet, Single, Asking
  <2>8. Sound(rows)'
    BY <1>4, <2>1, <2>3 DEF AppendRow, Quiet, Files, Sound, Question
  <2>9. Shows(rows)'
    BY <2>1, <2>3, <2>6 DEF Quiet, Files, Shows, Answering
  <2>10. Copies'
    BY <2>6 DEF Copies, Answering
  <2> QED
    BY <1>4, <2>1, <2>5, <2>7, <2>8, <2>9, <2>10 DEF AppendRow, Quiet, Files
<1>5. ASSUME NEW t \in Thread, Seal(t) PROVE Quiet'
  BY <1>5, ThreadOnly DEF Seal, Resting, QuietInv, Quiet
<1>6. ASSUME NEW t \in Thread, RunCommand(t) PROVE Quiet'
  <2>1. Quiet
    BY <1>6 DEF RunCommand, QuietInv
  <2>2. Approved(thread[t].cmd) => thread[t].cmd \in granted
    BY <2>1 DEF Approved, Answered, Quiet, Files, Sound
  <2>3. ran' \subseteq granted
    BY <1>6, <2>1, <2>2 DEF RunCommand, Quiet
  <2> QED
    BY <1>6, <2>1, <2>3, ThreadOnly DEF RunCommand, Resting
<1>7. ASSUME NEW d \in Decider, Show(d) PROVE Quiet'
  <2>1. Quiet
    BY <1>7 DEF Show, QuietInv
  <2>2. PICK i \in DOMAIN rows : decider' = [decider EXCEPT ![d] =
             [pc |-> "shown", cmd |-> rows[i].cmd, id |-> rows[i].id, copy |-> <<>>]]
    BY <1>7 DEF Show
  <2>3. /\ \A e \in Decider \ {d} : decider'[e] = decider[e]
        /\ decider'[d].pc = "shown" /\ decider'[d].cmd = rows[i].cmd /\ decider'[d].id = i
    BY <2>1, <2>2 DEF Quiet, Files, Sound, Typed, TypeOK
  <2>4. /\ rows' = rows /\ thread' = thread /\ granted' = granted /\ ran' = ran
        /\ decider[d].pc = "idle"
    BY <1>7 DEF Show
  <2>5. \A e \in Decider : Answering(e)' => Answering(e) /\ e # d
    BY <2>3 DEF Answering
  <2>6. Single'
    BY <2>1, <2>4, <2>5 DEF Quiet, Single, Asking
  <2>7. \A e \in Decider : decider[e].pc # "write"
    BY <2>1 DEF Quiet, Copies
  <2>8. Files'
    BY <2>1, <2>3, <2>4, <2>7 DEF Quiet, Files, Sound, Shows
  <2>9. Copies'
    <3> SUFFICES ASSUME NEW e \in Decider, Answering(e)'
                 PROVE  /\ Sound(decider[e].copy) /\ Shows(decider[e].copy)'
                        /\ decider[e].pc = "truncate" =>
                             /\ DOMAIN decider[e].copy = DOMAIN rows
                             /\ \A j \in DOMAIN rows : decider[e].copy[j].cmd = rows[j].cmd
      BY <2>3, <2>4, <2>5, <2>7 DEF Copies, Sound, Shows, Answering
    <3>1. Answering(e) /\ e # d /\ decider[e].pc = "truncate"
      BY <2>5, <2>7 DEF Answering
    <3>2. /\ Sound(decider[e].copy) /\ Shows(decider[e].copy)
          /\ DOMAIN decider[e].copy = DOMAIN rows
          /\ \A j \in DOMAIN rows : decider[e].copy[j].cmd = rows[j].cmd
      BY <2>1, <3>1 DEF Quiet, Copies
    <3>3. decider'[e].copy = decider[e].copy
      BY <2>3, <3>1
    <3> QED
      BY <2>2, <2>3, <3>2, <3>3 DEF Shows
  <2> QED
    BY <2>1, <2>4, <2>6, <2>8, <2>9 DEF Quiet
<1>8. ASSUME NEW d \in Decider, Resolve(d) PROVE Quiet'
  <2>1. Quiet /\ Writers = {}
    BY <1>8 DEF Resolve, QuietInv
  <2>2. (\A t \in Thread : ~Asking(t)) /\ (\A e \in Decider : ~Answering(e))
    BY <2>1, NobodyElse
  <2>3. PICK i \in DOMAIN rows, a \in {"approve_once", "skip"} :
          /\ Named(i, decider[d].id)
          /\ decider' = [decider EXCEPT ![d].pc = "truncate", ![d].copy = Put(rows, i, a)]
          /\ granted' = IF a = "approve_once" THEN granted \cup {decider[d].cmd} ELSE granted
    BY <1>8 DEF Resolve, Put
  <2>4. /\ \A e \in Decider \ {d} : decider'[e] = decider[e]
        /\ decider'[d].pc = "truncate" /\ decider'[d].copy = Put(rows, i, a)
    BY <2>3 DEF Typed, TypeOK
  <2>5. /\ rows' = rows /\ thread' = thread /\ ran' = ran /\ decider[d].pc = "shown"
        /\ granted \subseteq granted'
    BY <1>8, <2>3 DEF Resolve
  <2>6. Differs(Put(rows, i, a), rows, i, a)
    BY AnswerPut DEF Typed, TypeOK
  <2>7. /\ Sound(rows) /\ Shows(rows)
        /\ \A e \in Decider : decider[e].pc \notin {"truncate", "write"}
    BY <2>1, <2>2 DEF Quiet, Files, Answering
  <2>8. rows[i].cmd = decider[d].cmd
    BY <2>3, <2>5, <2>7 DEF Named, Sound, Shows
  <2>9. Sound(Put(rows, i, a))'
    <3> SUFFICES ASSUME NEW j \in DOMAIN rows
                 PROVE  /\ Put(rows, i, a)[j].id = j
                        /\ Put(rows, i, a)[j].answer = "approve_once"
                             => Put(rows, i, a)[j].cmd \in granted'
      BY <2>5, <2>6 DEF Sound, Put, Differs
    <3> QED
      BY <2>3, <2>5, <2>6, <2>7, <2>8 DEF Sound, Differs
  <2>10. Shows(Put(rows, i, a))' /\ Shows(rows)'
    BY <2>4, <2>5, <2>6, <2>7 DEF Shows, Put, Differs
  <2>11. \A e \in Decider : Answering(e)' <=> e = d
    BY <2>4, <2>7 DEF Answering
  <2>12. Single'
    BY <2>2, <2>5, <2>11 DEF Single, Asking
  <2>13. Files'
    BY <2>5, <2>7, <2>10, <2>1 DEF Files, Sound, Quiet
  <2>14. Copies'
    <3>1. Sound(decider[d].copy)' /\ Shows(decider[d].copy)'
      BY <2>4, <2>5, <2>9, <2>10 DEF Sound, Shows, Put
    <3>2. /\ DOMAIN decider'[d].copy = DOMAIN rows'
          /\ \A j \in DOMAIN rows' : decider'[d].copy[j].cmd = rows'[j].cmd
      BY <2>4, <2>5, <2>6 DEF Differs
    <3>3. \A e \in Decider : decider'[e].pc \in {"truncate", "write"} => e = d
      BY <2>4, <2>7
    <3> QED
      BY <2>4, <3>1, <3>2, <3>3 DEF Copies, Answering
  <2> QED
    BY <2>1, <2>5, <2>12, <2>13, <2>14 DEF Quiet
<1>9. ASSUME NEW d \in Decider, Declines(d) PROVE Quiet'
  <2>1. Quiet /\ ~Answering(d)
    BY <1>9 DEF Declines, QuietInv, Answering
  <2> QED
    BY <1>9, <2>1 DEF Declines, Away, Quiet, Single, Files, Copies, Sound, Shows, Asking,
       Answering, Typed, TypeOK
<1>10. ASSUME NEW d \in Decider, Truncate(d) PROVE Quiet'
  <2>1. Quiet /\ Answering(d)
    BY <1>10 DEF Truncate, QuietInv, Answering
  <2>2. /\ \A e \in Decider \ {d} : decider'[e] = decider[e]
        /\ decider'[d].pc = "write" /\ decider'[d].copy = decider[d].copy
    BY <1>10 DEF Truncate, Typed, TypeOK
  <2>3. rows' = <<>> /\ thread' = thread /\ granted' = granted /\ ran' = ran
    BY <1>10 DEF Truncate
  <2>4. \A e \in Decider : Answering(e)' => e = d
    BY <2>1, <2>2 DEF Answering, Quiet, Single
  <2>5. Single'
    BY <2>1, <2>3, <2>4 DEF Quiet, Single, Asking
  <2>6. Files'
    BY <2>1, <2>2, <2>3 DEF Files, Sound, Quiet, Single, Asking
  <2>7. Copies'
    BY <2>1, <2>2, <2>3, <2>4 DEF Copies, Quiet, Sound, Shows, Answering
  <2> QED
    BY <2>1, <2>3, <2>5, <2>6, <2>7 DEF Quiet
<1>11. ASSUME NEW d \in Decider, WriteBack(d) PROVE Quiet'
  <2>1. Quiet /\ Answering(d)
    BY <1>11 DEF WriteBack, QuietInv, Answering
  <2>2. /\ \A e \in Decider \ {d} : decider'[e] = decider[e]
        /\ decider'[d].pc = "idle"
    BY <1>11 DEF WriteBack, Away, Typed, TypeOK
  <2>3. rows' = decider[d].copy /\ thread' = thread /\ granted' = granted /\ ran' = ran
    BY <1>11 DEF WriteBack
  <2>4. \A e \in Decider : ~Answering(e)'
    BY <2>1, <2>2 DEF Answering, Quiet, Single
  <2>5. Single'
    BY <2>1, <2>3, <2>4 DEF Quiet, Single, Asking
  <2>6. Sound(decider[d].copy) /\ Shows(decider[d].copy)
    BY <2>1 DEF Quiet, Copies
  <2>7. Files'
    BY <2>1, <2>2, <2>3, <2>6 DEF Files, Sound, Shows, Quiet, Single, Asking
  <2>8. Copies'
    BY <2>4 DEF Copies, Answering
  <2> QED
    BY <2>1, <2>3, <2>5, <2>7, <2>8 DEF Quiet
<1>12. ASSUME NEW d \in Decider, DeciderDies(d) PROVE Quiet'
  <2>1. Quiet /\ decider[d].pc = "truncate"
    BY <1>12 DEF DeciderDies, QuietInv
  <2>2. /\ \A e \in Decider \ {d} : decider'[e] = decider[e]
        /\ decider'[d].pc = "idle"
    BY <1>12 DEF DeciderDies, Away, Typed, TypeOK
  <2>3. rows' = rows /\ thread' = thread /\ granted' = granted /\ ran' = ran
    BY <1>12 DEF DeciderDies
  <2>4. \A e \in Decider : ~Answering(e)'
    BY <2>1, <2>2 DEF Answering, Quiet, Single
  <2>5. Single'
    BY <2>1, <2>3, <2>4 DEF Quiet, Single, Asking
  <2>6. \A e \in Decider : decider[e].pc # "write"
    BY <2>1 DEF Quiet, Single, Answering
  <2>7. Files'
    BY <2>1, <2>2, <2>3, <2>6 DEF Files, Sound, Shows, Quiet
  <2>8. Copies'
    BY <2>4 DEF Copies, Answering
  <2> QED
    BY <2>1, <2>3, <2>5, <2>7, <2>8 DEF Quiet
<1>13. CASE DriverDies
  BY <1>13 DEF DriverDies, Resting, QuietInv, Quiet, Single, Files, Copies, Sound, Shows,
     Asking, Answering
<1>14. CASE UNCHANGED vars
  BY <1>14 DEF vars, QuietInv, Quiet, Single, Files, Copies, Sound, Shows, Asking, Answering
<1> QED
  BY <1>1, <1>2, <1>3, <1>4, <1>5, <1>6, <1>7, <1>8, <1>9, <1>10, <1>11, <1>12, <1>13, <1>14
  DEF Next

LEMMA QuietAlways == Spec => [](Typed /\ QuietInv)
  BY TypedInit, TypedNext, QuietInit, QuietNext, PTL DEF Spec

(* As long as no two writers met, a command the policy stops runs only after *)
(* the user approved it.                                                     *)
THEOREM GrantedOnly == Spec => []OnlyGrantedRuns
<1>1. QuietInv => OnlyGrantedRuns
  BY DEF QuietInv, Quiet, OnlyGrantedRuns
<1> QED
  BY <1>1, QuietAlways, PTL

(* As long as no two writers met, the id a user is about to answer names the *)
(* question he was shown.                                                    *)
THEOREM AnswersMeet == Spec => []AnswerMeetsQuestion
<1>1. Typed /\ QuietInv => AnswerMeetsQuestion
  <2> SUFFICES ASSUME Typed, QuietInv, ~disturbed, NEW d \in Decider, decider[d].pc = "shown",
                      \A e \in Decider : decider[e].pc # "write"
               PROVE  \E i \in DOMAIN rows : Named(i, decider[d].id) /\ rows[i].cmd = decider[d].cmd
    BY DEF AnswerMeetsQuestion
  <2>1. Sound(rows) /\ Shows(rows)
    BY DEF QuietInv, Quiet, Files
  <2>2. DOMAIN rows = 1..Len(rows)
    BY DEF Typed, TypeOK
  <2>3. decider[d].id \in DOMAIN rows /\ rows[decider[d].id].cmd = decider[d].cmd
    BY <2>1 DEF Shows
  <2>4. Named(decider[d].id, decider[d].id)
    BY <2>1, <2>2, <2>3 DEF Sound, Named
  <2> QED
    BY <2>3, <2>4
<1> QED
  BY <1>1, QuietAlways, PTL

-----------------------------------------------------------------------------
(* The chain *)

LEMMA ChainInit == Init => ChainInv
  BY LogAssumption DEF Init, ChainInv, Resting

\* A step that leaves the file, the chain, the latch and whoever seals.
LEMMA ChainRests ==
  ASSUME Typed, ChainInv, UNCHANGED <<rows, chain, latch>>,
         outside => outside', crashes <= crashes',
         \A t \in Thread : thread[t].pc = "seal" \/ thread'[t].pc = "seal"
            => thread'[t] = thread[t],
         ~outside' /\ crashes' = 0 => \A d \in Decider :
            decider[d].pc = "write" => decider'[d].pc = "write"
  PROVE  ChainInv'
<1>1. \A t \in Thread : thread'[t].pc = "seal" <=> latch' = t
  BY DEF ChainInv
<1>2. latch # NoThread => Question(latch)' = Question(latch)
  BY DEF ChainInv, Typed, TypeOK, Question
<1>3. ASSUME ~outside', crashes' = 0, \A d \in Decider : decider'[d].pc # "write"
      PROVE  IF latch' = NoThread THEN chain' = rows' ELSE rows' = Append(chain', Question(latch)')
  <2>1. ~outside /\ crashes = 0 /\ \A d \in Decider : decider[d].pc # "write"
    <3>1. crashes \in Nat
      BY LogAssumption DEF Typed, TypeOK
    <3> QED
      BY <1>3, <3>1
  <2> QED
    BY <1>2, <2>1 DEF ChainInv
<1> QED
  BY <1>1, <1>3 DEF ChainInv

LEMMA ChainNext == Typed /\ ChainInv /\ [Next]_vars => ChainInv'
<1> SUFFICES ASSUME Typed, ChainInv, [Next]_vars PROVE ChainInv'
  OBVIOUS
<1> USE DEF past
<1>0. crashes \in Nat
  BY LogAssumption DEF Typed, TypeOK
<1>1. ASSUME NEW t \in Thread, Gate(t) \/ Match(t) \/ Count(t) \/ RunCommand(t) PROVE ChainInv'
  <2>1. /\ \A s \in Thread \ {t} : thread'[s] = thread[s]
        /\ thread[t].pc # "seal" /\ thread'[t].pc # "seal"
    BY <1>1 DEF Gate, Match, Count, RunCommand, Resting, Typed, TypeOK
  <2>2. UNCHANGED <<rows, chain, latch, decider, outside, crashes>>
    BY <1>1 DEF Gate, Match, Count, RunCommand
  <2> QED
    BY <1>0, <2>1, <2>2, ChainRests
<1>2. ASSUME NEW t \in Thread, AppendRow(t) PROVE ChainInv'
  <2>1. /\ rows' = Append(rows, Question(t)) /\ latch = NoThread /\ latch' = t
        /\ UNCHANGED <<chain, decider, outside, crashes>> /\ thread[t].pc = "append"
    BY <1>2 DEF AppendRow, LatchFree, Question
  <2>2. \A s \in Thread : /\ thread'[s].pc = IF s = t THEN "seal" ELSE thread[s].pc
                          /\ thread'[s].id = thread[s].id /\ thread'[s].cmd = thread[s].cmd
    BY <1>2 DEF AppendRow, Typed, TypeOK
  <2>3. Question(latch)' = Question(t)
    BY <2>1, <2>2 DEF Question
  <2>4. t # NoThread
    BY LogAssumption
  <2> QED
    BY <2>1, <2>2, <2>3, <2>4, LogAssumption DEF ChainInv
<1>3. ASSUME NEW t \in Thread, Seal(t) PROVE ChainInv'
  <2>1. /\ chain' = Append(chain, Question(t)) /\ latch' = NoThread /\ latch = t
        /\ UNCHANGED <<rows, decider, outside, crashes>>
    BY <1>3 DEF Seal, Question, ChainInv
  <2>2. \A s \in Thread : thread'[s].pc # "seal"
    BY <1>3, <2>1 DEF Seal, Resting, ChainInv, Typed, TypeOK
  <2>3. t # NoThread
    BY LogAssumption
  <2> QED
    BY <2>1, <2>2, <2>3, LogAssumption DEF ChainInv
<1>4. ASSUME NEW d \in Decider, Show(d) \/ Resolve(d) \/ Declines(d) PROVE ChainInv'
  <2>1. UNCHANGED <<rows, chain, latch, thread, outside, crashes>>
    BY <1>4 DEF Show, Resolve, Declines
  <2>2. decider[d].pc # "write" /\ \A e \in Decider \ {d} : decider'[e] = decider[e]
    BY <1>4 DEF Show, Resolve, Declines, Typed, TypeOK
  <2> QED
    BY <1>0, <2>1, <2>2, ChainRests
<1>5. ASSUME NEW d \in Decider, Truncate(d) PROVE ChainInv'
  <2>1. decider'[d].pc = "write"
    BY <1>5 DEF Truncate, Typed, TypeOK
  <2> QED
    BY <1>5, <2>1 DEF Truncate, ChainInv
<1>6. ASSUME NEW d \in Decider, WriteBack(d) PROVE ChainInv'
  BY <1>6 DEF WriteBack, ChainInv
<1>7. ASSUME NEW d \in Decider, DeciderDies(d) PROVE ChainInv'
  <2>1. crashes' # 0
    BY <1>0, <1>7 DEF DeciderDies
  <2> QED
    BY <1>7, <2>1 DEF DeciderDies, ChainInv
<1>8. CASE DriverDies
  <2>1. crashes' # 0
    BY <1>0, <1>8 DEF DriverDies
  <2> QED
    BY <1>8, <2>1, LogAssumption DEF DriverDies, ChainInv, Resting
<1>9. CASE UNCHANGED vars
  BY <1>9 DEF vars, ChainInv, Question
<1> QED
  BY <1>1, <1>2, <1>3, <1>4, <1>5, <1>6, <1>7, <1>8, <1>9 DEF Next

(* The threads of the driver never raise a false alarm among themselves.    *)
THEOREM DriverVerifies == Spec => []DriverAloneVerifies
<1>1. ChainInv => DriverAloneVerifies
  BY DEF ChainInv, DriverAloneVerifies, Verified
<1> QED
  BY <1>1, TypedInit, TypedNext, ChainInit, ChainNext, PTL DEF Spec

-----------------------------------------------------------------------------
(* A JSON file, as long as no two processes write it at once *)

Contents == [data : Seq(Writer), synced : Seq(Writer)]

Filed ==
    /\ ino \in [Inode -> Contents]
    /\ target \in Inode /\ older \in Inode
    /\ tmp \in (Inode \ {target, older}) \cup {None}
    /\ pc \in [Writer -> {"idle", "open", "write", "sync", "replace"}]
    /\ handle \in [Writer -> Inode \cup {None}]
    /\ lock \in [Proc -> Writer \cup {Nobody}]
    /\ last \in Writer

\* One writer at most, who has its process's lock and nobody else's file.
OneWrites ==
    /\ \A v, w \in Writer : pc[v] # "idle" /\ pc[w] # "idle" => v = w
    /\ \A w \in Writer : pc[w] # "idle" => lock[ProcOf[w]] = w
    /\ \A w \in Writer : handle[w] = IF pc[w] \in {"write", "sync"} THEN tmp ELSE None
    /\ \A w \in Writer : pc[w] \in {"write", "sync", "replace"} => tmp # None

\* The file of the name, and the one before, are whole and on the disk.
Durable(i) == Whole(ino[i].data) /\ ino[i].synced = ino[i].data

OnDisks ==
    /\ Durable(target) /\ Durable(older)
    /\ ~dark => ino[target].data = Payload(last)

\* How far the temporary file is.
Progress == \A w \in Writer :
    /\ pc[w] = "write" => ino[tmp].data = <<>>
    /\ pc[w] \in {"sync", "replace"} => ino[tmp].data = Payload(w)
    /\ pc[w] = "replace" => ino[tmp].synced = Payload(w)

FileInv == ~crossed => Filed /\ OneWrites /\ OnDisks /\ Progress

LEMMA NoneIsNoInode == None \notin Inode
  BY WritersAssumption DEF None, Inode

LEMMA PayloadOf ==
    ASSUME NEW w \in Writer
    PROVE  /\ Payload(w) \in Seq(Writer)
           /\ Over(<<>>, Payload(w)) = Payload(w)
  <1>1. Size[w] \in Nat  BY WritersAssumption
  <1>2. Payload(w) \in Seq(Writer)  BY <1>1 DEF Payload
  <1>3. Len(Payload(w)) \in Nat  BY <1>2
  <1>4. Over(<<>>, Payload(w)) = Payload(w) \o <<>>
    <2>1. ~(Len(<<>>) > Len(Payload(w)))  BY <1>3
    <2> QED  BY <2>1 DEF Over
  <1>5. Payload(w) \o <<>> = Payload(w)  BY <1>2, ConcatEmptySeq
  <1> QED  BY <1>2, <1>4, <1>5

LEMMA BlankOf == Blank \in [Inode -> Contents]
  <1>1. <<>> \in Seq(Writer)  OBVIOUS
  <1> QED  BY <1>1 DEF Blank, Contents

LEMMA FileStart == FileInit => FileInv
  <1> SUFFICES ASSUME FileInit PROVE FileInv  OBVIOUS
  <1>1. PICK w \in Writer :
          /\ ino = [Blank EXCEPT !["a"] = [data |-> Payload(w), synced |-> Payload(w)]]
          /\ target = "a" /\ older = "a" /\ tmp = None
          /\ pc = [v \in Writer |-> "idle"]
          /\ handle = [v \in Writer |-> None]
          /\ lock = [p \in Proc |-> Nobody]
          /\ last = w
    BY DEF FileInit
  <1>2. "a" \in Inode  BY DEF Inode
  <1>3. [data |-> Payload(w), synced |-> Payload(w)] \in Contents  BY PayloadOf DEF Contents
  <1>4. ino \in [Inode -> Contents]  BY <1>1, <1>2, <1>3, BlankOf
  <1>5. ino["a"] = [data |-> Payload(w), synced |-> Payload(w)]  BY <1>1, <1>2, BlankOf
  <1>6. Filed  BY <1>1, <1>2, <1>4 DEF Filed
  <1>7. OneWrites  BY <1>1 DEF OneWrites
  <1>8. OnDisks  BY <1>1, <1>5 DEF OnDisks, Durable, Whole
  <1>9. Progress  BY <1>1 DEF Progress
  <1> QED  BY <1>6, <1>7, <1>8, <1>9 DEF FileInv

-----------------------------------------------------------------------------

LEMMA AcquireStep == ASSUME FileInv, NEW w \in Writer, Acquire(w) PROVE FileInv'
  <1> SUFFICES ASSUME ~crossed' PROVE (Filed /\ OneWrites /\ OnDisks /\ Progress)'
    BY DEF FileInv
  <1>1. /\ pc[w] = "idle" /\ lock[ProcOf[w]] = Nobody
        /\ lock' = [lock EXCEPT ![ProcOf[w]] = w]
        /\ crossed' = (crossed \/ \E v \in Writer : ProcOf[v] # ProcOf[w] /\ pc[v] # "idle")
        /\ pc' = [pc EXCEPT ![w] = "open"]
        /\ UNCHANGED <<ino, target, older, tmp, handle, last, dark>>
    BY DEF Acquire, Free, Goes
  <1>2. Filed /\ OneWrites /\ OnDisks /\ Progress  BY <1>1 DEF FileInv
  <1>3. ProcOf[w] \in Proc /\ Nobody \notin Writer  BY WritersAssumption
  <1>4. \A v \in Writer : pc[v] = "idle"
    <2> TAKE v \in Writer
    <2>1. ProcOf[v] = ProcOf[w] \/ pc[v] = "idle"  BY <1>1
    <2> QED  BY <1>1, <1>2, <1>3, <2>1 DEF OneWrites
  <1>5. \A v \in Writer : pc'[v] = IF v = w THEN "open" ELSE "idle"  BY <1>1, <1>2, <1>4 DEF Filed
  <1>6. lock'[ProcOf[w]] = w /\ lock' \in [Proc -> Writer \cup {Nobody}]  BY <1>1, <1>2, <1>3 DEF Filed
  <1>7. Filed'  BY <1>1, <1>2, <1>6 DEF Filed
  <1>8. OneWrites'  BY <1>1, <1>2, <1>4, <1>5, <1>6 DEF OneWrites
  <1>9. OnDisks'  BY <1>1, <1>2 DEF OnDisks, Durable, Whole, Payload
  <1>10. Progress'  BY <1>5 DEF Progress
  <1> QED  BY <1>7, <1>8, <1>9, <1>10

\* What one writer does to the temporary file, other files being as they were.
LEMMA TmpOnly ==
    ASSUME Filed, OnDisks, NEW i \in Inode, NEW f \in Contents,
           i \notin {target, older},
           ino' = [ino EXCEPT ![i] = f],
           UNCHANGED <<target, older, last, dark>>
    PROVE  OnDisks' /\ ino' \in [Inode -> Contents] /\ ino'[i] = f
  <1>1. /\ ino' \in [Inode -> Contents] /\ ino'[i] = f
        /\ ino'[target] = ino[target] /\ ino'[older] = ino[older]
    BY DEF Filed
  <1>2. Durable(target)' /\ Durable(older)'  BY <1>1 DEF OnDisks, Durable
  <1>3. ~dark' => ino'[target].data = Payload(last)  BY <1>1 DEF OnDisks
  <1>4. OnDisks'  BY <1>1, <1>2, <1>3 DEF OnDisks
  <1> QED  BY <1>1, <1>4

LEMMA OpenStep == ASSUME FileInv, NEW w \in Writer, Open(w) PROVE FileInv'
  <1> SUFFICES ASSUME ~crossed' PROVE (Filed /\ OneWrites /\ OnDisks /\ Progress)'
    BY DEF FileInv
  <1> DEFINE i == IF tmp = None THEN CHOOSE j \in Unused : TRUE ELSE tmp
  <1>1. /\ ino' = [ino EXCEPT ![i] = [data |-> <<>>,
                                      synced |-> IF tmp = None THEN <<>> ELSE @.synced]]
        /\ tmp' = i
        /\ handle' = [handle EXCEPT ![w] = i]
    BY DEF Open
  <1>2. /\ pc[w] = "open" /\ pc' = [pc EXCEPT ![w] = "write"]
        /\ UNCHANGED <<target, older, lock, last, crossed, dark>>
    BY DEF Open, Goes
  <1>3. Filed /\ OneWrites /\ OnDisks /\ Progress  BY <1>2 DEF FileInv
  <1>4. \A v \in Writer : (v # w => pc[v] = "idle") /\ handle[v] = None
    BY <1>2, <1>3 DEF OneWrites
  <1>5. i \in Inode \ {target, older}
    <2>1. CASE tmp = None
      <3>1. \E j \in {"a", "b", "c"} : j # target /\ j # older  OBVIOUS
      <3>2. \E j : j \in Unused
        <4>1. Opened \subseteq {None}  BY <1>4 DEF Opened
        <4>2. PICK j \in Inode : j # target /\ j # older  BY <3>1 DEF Inode
        <4>3. j \in Unused  BY <2>1, <4>1, <4>2, NoneIsNoInode DEF Unused
        <4> QED  BY <4>3
      <3>3. i \in Unused  BY <1>1, <2>1, <3>2
      <3> QED  BY <3>3 DEF Unused
    <2>2. CASE tmp # None  BY <1>1, <1>3, <2>2 DEF Filed
    <2> QED  BY <2>1, <2>2
  <1>6. PICK f \in Contents : f.data = <<>> /\ ino' = [ino EXCEPT ![i] = f]
    <2>1. ino[i] \in Contents  BY <1>3, <1>5 DEF Filed
    <2>2. <<>> \in Seq(Writer)  OBVIOUS
    <2>3. PICK s \in Seq(Writer) : s = IF tmp = None THEN <<>> ELSE ino[i].synced
      BY <2>1, <2>2 DEF Contents
    <2>4. ino' = [ino EXCEPT ![i] = [data |-> <<>>, synced |-> s]]  BY <1>1, <1>3, <1>5, <2>3 DEF Filed
    <2>5. [data |-> <<>>, synced |-> s] \in Contents  BY <2>2, <2>3 DEF Contents
    <2> QED  BY <2>4, <2>5
  <1>7. OnDisks' /\ ino' \in [Inode -> Contents] /\ ino'[i] = f
    BY <1>2, <1>3, <1>5, <1>6, TmpOnly
  <1>8. /\ handle' \in [Writer -> Inode \cup {None}]
        /\ \A v \in Writer : handle'[v] = IF v = w THEN i ELSE None
    BY <1>1, <1>3, <1>4, <1>5 DEF Filed
  <1>9. /\ pc' \in [Writer -> {"idle", "open", "write", "sync", "replace"}]
        /\ \A v \in Writer : pc'[v] = IF v = w THEN "write" ELSE "idle"
    BY <1>2, <1>3, <1>4 DEF Filed
  <1>10. Filed'  BY <1>1, <1>2, <1>3, <1>5, <1>7, <1>8, <1>9 DEF Filed
  <1>11. OneWrites'
    <2>1. tmp' = i /\ i # None  BY <1>1, <1>5, NoneIsNoInode
    <2>2. \A v \in Writer : pc'[v] # "idle" => v = w  BY <1>9
    <2>3. lock'[ProcOf[w]] = w  BY <1>2, <1>3 DEF OneWrites
    <2>4. \A v \in Writer : handle'[v] = IF pc'[v] \in {"write", "sync"} THEN i ELSE None
      BY <1>8, <1>9
    <2> HIDE DEF i
    <2> QED  BY <2>1, <2>2, <2>3, <2>4 DEF OneWrites
  <1>12. Progress'  BY <1>1, <1>6, <1>7, <1>9 DEF Progress
  <1> QED  BY <1>7, <1>10, <1>11, <1>12

LEMMA WriteStep == ASSUME FileInv, NEW w \in Writer, Write(w) PROVE FileInv'
  <1> SUFFICES ASSUME ~crossed' PROVE (Filed /\ OneWrites /\ OnDisks /\ Progress)'
    BY DEF FileInv
  <1>1. /\ pc[w] = "write" /\ pc' = [pc EXCEPT ![w] = "sync"]
        /\ ino' = [ino EXCEPT ![handle[w]].data = Over(@, Payload(w))]
        /\ UNCHANGED <<target, older, tmp, handle, lock, last, crossed, dark>>
    BY DEF Write, Goes
  <1>2. Filed /\ OneWrites /\ OnDisks /\ Progress  BY <1>1 DEF FileInv
  <1>3. /\ handle[w] = tmp /\ tmp \in Inode \ {target, older} /\ ino[tmp].data = <<>>
        /\ \A v \in Writer : v # w => pc[v] = "idle"
    BY <1>1, <1>2 DEF OneWrites, Filed, Progress
  <1>4. PICK i \in Inode : i = tmp  BY <1>3
  <1>5. PICK f \in Contents : f.data = Payload(w) /\ ino' = [ino EXCEPT ![i] = f]
    <2>1. PICK g \in Contents : g = ino[i]  BY <1>2 DEF Filed
    <2>2. ino' = [ino EXCEPT ![i] = [g EXCEPT !.data = Over(<<>>, Payload(w))]]
      BY <1>1, <1>2, <1>3, <1>4, <2>1 DEF Filed
    <2>3. [g EXCEPT !.data = Over(<<>>, Payload(w))] \in Contents
          /\ [g EXCEPT !.data = Over(<<>>, Payload(w))].data = Payload(w)
      BY <2>1, PayloadOf DEF Contents
    <2> QED  BY <2>2, <2>3
  <1>6. OnDisks' /\ ino' \in [Inode -> Contents] /\ ino'[i] = f
    BY <1>1, <1>2, <1>3, <1>4, <1>5, TmpOnly
  <1>7. /\ pc' \in [Writer -> {"idle", "open", "write", "sync", "replace"}]
        /\ \A v \in Writer : pc'[v] = IF v = w THEN "sync" ELSE "idle"
    BY <1>1, <1>2, <1>3 DEF Filed
  <1>8. Filed'  BY <1>1, <1>2, <1>6, <1>7 DEF Filed
  <1>9. OneWrites'  BY <1>1, <1>2, <1>3, <1>7 DEF OneWrites
  <1>10. Progress'  BY <1>1, <1>4, <1>5, <1>6, <1>7 DEF Progress, Payload
  <1> QED  BY <1>6, <1>8, <1>9, <1>10

LEMMA SyncStep == ASSUME FileInv, NEW w \in Writer, Sync(w) PROVE FileInv'
  <1> SUFFICES ASSUME ~crossed' PROVE (Filed /\ OneWrites /\ OnDisks /\ Progress)'
    BY DEF FileInv
  <1>1. /\ pc[w] = "sync" /\ pc' = [pc EXCEPT ![w] = "replace"]
        /\ ino' = [ino EXCEPT ![handle[w]] = Synced(@)]
        /\ handle' = [handle EXCEPT ![w] = None]
        /\ UNCHANGED <<target, older, tmp, lock, last, crossed, dark>>
    BY DEF Sync, Goes
  <1>2. Filed /\ OneWrites /\ OnDisks /\ Progress  BY <1>1 DEF FileInv
  <1>3. /\ handle[w] = tmp /\ tmp \in Inode \ {target, older} /\ ino[tmp].data = Payload(w)
        /\ \A v \in Writer : v # w => pc[v] = "idle"
    BY <1>1, <1>2 DEF OneWrites, Filed, Progress
  <1>4. PICK i \in Inode : i = tmp  BY <1>3
  <1>5. PICK f \in Contents : f.data = Payload(w) /\ f.synced = Payload(w) /\ ino' = [ino EXCEPT ![i] = f]
    <2>1. PICK g \in Contents : g = ino[i]  BY <1>2 DEF Filed
    <2>2. ino' = [ino EXCEPT ![i] = [g EXCEPT !.synced = g.data]]
      BY <1>1, <1>2, <1>3, <1>4, <2>1 DEF Filed, Synced
    <2>3. [g EXCEPT !.synced = g.data] \in Contents
          /\ [g EXCEPT !.synced = g.data].data = Payload(w)
          /\ [g EXCEPT !.synced = g.data].synced = Payload(w)
      BY <1>3, <1>4, <2>1 DEF Contents
    <2> QED  BY <2>2, <2>3
  <1>6. OnDisks' /\ ino' \in [Inode -> Contents] /\ ino'[i] = f
    BY <1>1, <1>2, <1>3, <1>4, <1>5, TmpOnly
  <1>7. /\ pc' \in [Writer -> {"idle", "open", "write", "sync", "replace"}]
        /\ \A v \in Writer : pc'[v] = IF v = w THEN "replace" ELSE "idle"
    BY <1>1, <1>2, <1>3 DEF Filed
  <1>8. /\ handle' \in [Writer -> Inode \cup {None}]
        /\ \A v \in Writer : handle'[v] = None
    BY <1>1, <1>2, <1>3 DEF Filed, OneWrites
  <1>9. Filed'  BY <1>1, <1>2, <1>6, <1>7, <1>8 DEF Filed
  <1>10. OneWrites'  BY <1>1, <1>2, <1>3, <1>7, <1>8 DEF OneWrites
  <1>11. Progress'  BY <1>1, <1>4, <1>5, <1>6, <1>7 DEF Progress, Payload
  <1> QED  BY <1>6, <1>9, <1>10, <1>11

LEMMA ReplaceStep == ASSUME FileInv, NEW w \in Writer, Replace(w) PROVE FileInv'
  <1> SUFFICES ASSUME ~crossed' PROVE (Filed /\ OneWrites /\ OnDisks /\ Progress)'
    BY DEF FileInv
  <1>1. pc[w] = "replace" /\ UNCHANGED <<handle, crossed, dark>>  BY DEF Replace
  <1>2. Filed /\ OneWrites /\ OnDisks /\ Progress  BY <1>1 DEF FileInv
  <1>3. /\ tmp # None /\ tmp \in Inode
        /\ ino[tmp].data = Payload(w) /\ ino[tmp].synced = Payload(w)
        /\ \A v \in Writer : (v # w => pc[v] = "idle") /\ handle[v] = None
    BY <1>1, <1>2 DEF OneWrites, Filed, Progress
  <1>4. /\ target' = tmp /\ older' = target /\ tmp' = None /\ last' = w
        /\ ino' = Forget(ino, {tmp, target} \cup Opened)
        /\ pc' = [pc EXCEPT ![w] = "idle"]
        /\ lock' = [lock EXCEPT ![ProcOf[w]] = Nobody]
    BY <1>3 DEF Replace, Release, Goes
  <1>5. \A v \in Writer : pc'[v] = "idle"  BY <1>2, <1>3, <1>4 DEF Filed
  <1>6. /\ ino' \in [Inode -> Contents]
        /\ ino'[tmp] = ino[tmp] /\ ino'[target] = ino[target]
    BY <1>2, <1>3, <1>4, BlankOf DEF Forget, Filed
  <1>7. Filed'
    <2>1. lock' \in [Proc -> Writer \cup {Nobody}]  BY <1>2, <1>4 DEF Filed
    <2>2. pc' \in [Writer -> {"idle", "open", "write", "sync", "replace"}]  BY <1>2, <1>4 DEF Filed
    <2> QED  BY <1>1, <1>2, <1>3, <1>4, <1>6, <2>1, <2>2 DEF Filed
  <1>8. OneWrites'  BY <1>1, <1>3, <1>5 DEF OneWrites
  <1>9. OnDisks'
    <2>1. Whole(Payload(w))  BY DEF Whole
    <2>2. Whole(ino[target].data) /\ ino[target].synced = ino[target].data
      BY <1>2 DEF OnDisks, Durable
    <2>3. ino'[target'].data = Payload(w) /\ ino'[target'].synced = Payload(w)  BY <1>3, <1>4, <1>6
    <2>4. ino'[older'] = ino[target]  BY <1>4, <1>6
    <2> QED  BY <1>4, <2>1, <2>2, <2>3, <2>4 DEF OnDisks, Durable, Whole, Payload
  <1>10. Progress'  BY <1>5 DEF Progress
  <1> QED  BY <1>7, <1>8, <1>9, <1>10

LEMMA KillStep == ASSUME FileInv, NEW p \in Proc, Kill(p) PROVE FileInv'
  <1> SUFFICES ASSUME ~crossed' PROVE (Filed /\ OneWrites /\ OnDisks /\ Progress)'
    BY DEF FileInv
  <1>1. /\ \E w \in Writer : ProcOf[w] = p /\ pc[w] \notin {"idle", "failed"}
        /\ pc' = [w \in Writer |-> IF ProcOf[w] = p THEN Stopped(w) ELSE pc[w]]
        /\ handle' = [w \in Writer |-> IF ProcOf[w] = p THEN None ELSE handle[w]]
        /\ lock' = [lock EXCEPT ![p] = Nobody]
        /\ UNCHANGED <<ino, target, older, tmp, last, crossed, dark>>
    BY DEF Kill
  <1>2. Filed /\ OneWrites /\ OnDisks /\ Progress  BY <1>1 DEF FileInv
  <1>3. \A w \in Writer : pc'[w] = "idle" /\ handle'[w] = None
    <2> TAKE w \in Writer
    <2>1. CASE ProcOf[w] = p  BY <1>1, <1>2, <2>1 DEF Stopped, Filed
    <2>2. CASE ProcOf[w] # p
      <3>1. pc[w] = "idle"  BY <1>1, <1>2, <2>2 DEF OneWrites
      <3> QED  BY <1>1, <1>2, <2>2, <3>1 DEF OneWrites
    <2> QED  BY <2>1, <2>2
  <1>4. Filed'
    <2>1. lock' \in [Proc -> Writer \cup {Nobody}]  BY <1>1, <1>2 DEF Filed
    <2>2. /\ pc' \in [Writer -> {"idle", "open", "write", "sync", "replace"}]
          /\ handle' \in [Writer -> Inode \cup {None}]
      BY <1>1, <1>3
    <2> QED  BY <1>1, <1>2, <2>1, <2>2 DEF Filed
  <1>5. OneWrites'  BY <1>3 DEF OneWrites
  <1>6. OnDisks'  BY <1>1, <1>2 DEF OnDisks, Durable, Whole, Payload
  <1>7. Progress'  BY <1>3 DEF Progress
  <1> QED  BY <1>4, <1>5, <1>6, <1>7

LEMMA PowerStep == ASSUME FileInv, PowerFails PROVE FileInv'
  <1> SUFFICES ASSUME ~crossed' PROVE (Filed /\ OneWrites /\ OnDisks /\ Progress)'
    BY DEF FileInv
  <1>1. PICK t \in {target, older} :
          /\ target' = t /\ older' = t
          /\ \E c \in IF ino[t].data = ino[t].synced THEN {ino[t].data} ELSE OnDisk(ino[t]) :
               ino' = [Blank EXCEPT ![t] = [data |-> c, synced |-> c]]
    BY DEF PowerFails
  <1>2. /\ tmp' = None
        /\ pc' = [w \in Writer |-> Stopped(w)]
        /\ handle' = [w \in Writer |-> None]
        /\ lock' = [p \in Proc |-> Nobody]
        /\ dark' = TRUE
        /\ UNCHANGED <<last, crossed>>
    BY DEF PowerFails
  <1>3. Filed /\ OneWrites /\ OnDisks /\ Progress  BY <1>2 DEF FileInv
  <1>4. PICK c : c = ino[t].data /\ ino' = [Blank EXCEPT ![t] = [data |-> c, synced |-> c]]
    <2>1. ino[t].data = ino[t].synced  BY <1>1, <1>3 DEF OnDisks, Durable
    <2> QED  BY <1>1, <2>1
  <1>5. t \in Inode /\ Whole(c)  BY <1>1, <1>3, <1>4 DEF Filed, OnDisks, Durable
  <1>6. [data |-> c, synced |-> c] \in Contents
    <2>1. ino[t] \in Contents  BY <1>3, <1>5 DEF Filed
    <2> QED  BY <1>4, <2>1 DEF Contents
  <1>7. ino' \in [Inode -> Contents] /\ ino'[t] = [data |-> c, synced |-> c]
    BY <1>4, <1>5, <1>6, BlankOf
  <1>8. \A w \in Writer : pc'[w] = "idle" /\ handle'[w] = None  BY <1>2, <1>3 DEF Stopped, Filed
  <1>9. Filed'
    <2>1. /\ pc' \in [Writer -> {"idle", "open", "write", "sync", "replace"}]
          /\ handle' \in [Writer -> Inode \cup {None}] /\ lock' \in [Proc -> Writer \cup {Nobody}]
      BY <1>2, <1>8
    <2> QED  BY <1>1, <1>2, <1>3, <1>5, <1>7, <2>1 DEF Filed
  <1>10. OneWrites'  BY <1>8 DEF OneWrites
  <1>11. OnDisks'  BY <1>1, <1>2, <1>5, <1>7 DEF OnDisks, Durable, Whole, Payload
  <1>12. Progress'  BY <1>8 DEF Progress
  <1> QED  BY <1>9, <1>10, <1>11, <1>12

LEMMA FileSteps == FileInv /\ [FileNext]_fileVars => FileInv'
  <1> SUFFICES ASSUME FileInv, [FileNext]_fileVars PROVE FileInv'  OBVIOUS
  <1>1. CASE UNCHANGED fileVars
    BY <1>1 DEF fileVars, FileInv, Filed, OneWrites, OnDisks, Durable, Whole, Payload, Progress
  <1>2. CASE FileNext
    BY <1>2, AcquireStep, OpenStep, WriteStep, SyncStep, ReplaceStep, KillStep, PowerStep
    DEF FileNext, Step
  <1> QED  BY <1>1, <1>2

LEMMA FileAlways == FileSpec => []FileInv
  <1> QED  BY FileStart, FileSteps, PTL DEF FileSpec

\* A file is what the write that returned last wrote, after a power failure what
\* some write wrote, whatever threads, kills and failures do, while no two
\* processes write at once (JsonStore.write).
THEOREM FilesAreWhole == FileSpec => []WholeFile
  <1>1. FileInv => WholeFile  BY DEF FileInv, OnDisks, Durable, WholeFile
  <1> QED  BY <1>1, FileAlways, PTL

-----------------------------------------------------------------------------
(* A JSONL file *)

\* r is a line of its own, with its end.
Stands(file, r) == \E n \in DOMAIN file : file[n].rec = r /\ file[n].ok /\ file[n].ended

Lined == JournalTypeOK /\ (lines # synced => lines # <<>>)

\* As long as no append came between a read and its rewrite: what was safe
\* before the power failed stands in the file, on the disk, and in the file
\* without a last line that is not on the disk yet.
Safe == \A r \in safe :
    /\ Stands(lines, r) /\ Stands(synced, r)
    /\ lines # synced => Stands(Front(lines), r)

Intact ==
    /\ \A n \in DOMAIN lines : lines[n].ok /\ lines[n].ended
    /\ \A r \in Record : r \in returned \/ append[r] = "sync" => Stands(lines, r)

JournalInv ==
    /\ Lined
    /\ ~mixed => /\ copy.held => copy.rows = lines
                 /\ Safe
                 /\ ~cut => Intact

LEMMA LinesOf ==
    ASSUME NEW file \in Seq(Line)
    PROVE  /\ Len(file) \in Nat /\ DOMAIN file = 1..Len(file)
           /\ \A n \in 1..Len(file) : file[n] \in Line
           /\ file # <<>> => Len(file) > 0
  BY LenProperties, ElementOfSeq, EmptySeq

LEMMA FrontOf ==
    ASSUME NEW file \in Seq(Line), file # <<>>
    PROVE  /\ Front(file) \in Seq(Line) /\ Len(Front(file)) = Len(file) - 1
           /\ \A n \in 1..Len(file) - 1 : Front(file)[n] = file[n]
  <1>1. /\ Len(file) \in Nat /\ Len(file) > 0
        /\ \A n \in 1..Len(file) - 1 : file[n] \in Line
    BY LinesOf
  <1> DEFINE f == SubSeq(file, 1, Len(file) - 1)
  <1>2. /\ f \in Seq(Line)
        /\ Len(f) = IF 1 <= Len(file) - 1 THEN Len(file) - 1 - 1 + 1 ELSE 0
        /\ \A i \in 1..Len(file) - 1 - 1 + 1 : f[i] = file[1 + i - 1]
    BY <1>1, SubSeqProperties
  <1>3. Front(file) = f  BY DEF Front
  <1> HIDE DEF f
  <1>4. Len(f) = Len(file) - 1
    <2>1. PICK k \in Nat : k = Len(file) /\ k > 0  BY <1>1
    <2>2. Len(f) = IF 1 <= k - 1 THEN k - 1 - 1 + 1 ELSE 0  BY <1>2, <2>1
    <2>3. Len(f) = k - 1  BY <2>1, <2>2
    <2> QED  BY <2>1, <2>3
  <1>5. \A n \in 1..Len(file) - 1 : f[n] = file[n]
    <2> TAKE n \in 1..Len(file) - 1
    <2>1. n \in 1..Len(file) - 1 - 1 + 1 /\ 1 + n - 1 = n  BY <1>1
    <2>2. f[n] = file[1 + n - 1]  BY <1>2, <2>1
    <2> QED  BY <2>1, <2>2
  <1> QED  BY <1>2, <1>3, <1>4, <1>5

\* An append keeps every line that has its end, in front of its own.
LEMMA Written ==
    ASSUME NEW file \in Seq(Line), NEW r \in Record
    PROVE  /\ WithRecord(file, r) \in Seq(Line) /\ WithRecord(file, r) # <<>>
           /\ \A s \in Record : Stands(file, s) =>
                Stands(WithRecord(file, r), s) /\ Stands(Front(WithRecord(file, r)), s)
           /\ (\A n \in DOMAIN file : file[n].ok /\ file[n].ended) =>
                /\ \A n \in DOMAIN WithRecord(file, r) :
                     WithRecord(file, r)[n].ok /\ WithRecord(file, r)[n].ended
                /\ Stands(WithRecord(file, r), r)
  <1>0. /\ Len(file) \in Nat /\ DOMAIN file = 1..Len(file)
        /\ \A n \in 1..Len(file) : file[n] \in Line
        /\ file # <<>> => Len(file) > 0
    BY LinesOf
  <1> DEFINE old == IF NoEnd(file) THEN Front(file) ELSE file
             x == [rec |-> r, ok |-> IF NoEnd(file) THEN FALSE ELSE TRUE, ended |-> TRUE]
  <1>1. /\ x \in Line /\ WithRecord(file, r) = Append(old, x)
        /\ ~NoEnd(file) => x = [rec |-> r, ok |-> TRUE, ended |-> TRUE]
        /\ old = IF NoEnd(file) THEN Front(file) ELSE file
    BY DEF WithRecord, Line
  <1> HIDE DEF old, x
  <1>2. /\ old \in Seq(Line)
        /\ Len(old) = IF NoEnd(file) THEN Len(file) - 1 ELSE Len(file)
        /\ \A n \in 1..Len(old) : old[n] = file[n]
    <2>1. CASE NoEnd(file)
      <3>1. file # <<>>  BY <2>1 DEF NoEnd
      <3> QED  BY <1>1, <2>1, <3>1, FrontOf
    <2>2. CASE ~NoEnd(file)  BY <1>1, <2>2
    <2> QED  BY <2>1, <2>2
  <1> DEFINE new == Append(old, x)
  <1>3. /\ new \in Seq(Line) /\ Len(new) = Len(old) + 1 /\ Len(old) \in Nat
        /\ \A n \in 1..Len(old) : new[n] = old[n]
        /\ new[Len(old) + 1] = x /\ new # <<>>
    <2>1. new \in Seq(Line) /\ Len(new) = Len(old) + 1 /\ Len(old) \in Nat  BY <1>1, <1>2
    <2>2. \A n \in 1..Len(old) : new[n] = old[n]  BY <1>1, <1>2
    <2>3. new[Len(old) + 1] = x  BY <1>1, <1>2
    <2> HIDE DEF new
    <2>4. new # <<>>  BY <2>1, EmptySeq
    <2> QED  BY <2>1, <2>2, <2>3, <2>4
  <1> HIDE DEF new
  <1>4. DOMAIN old = 1..Len(old) /\ DOMAIN new = 1..Len(old) + 1  BY <1>2, <1>3, LenProperties
  <1>5. Front(new) = old
    <2>1. /\ Front(new) \in Seq(Line) /\ Len(Front(new)) = Len(old)
          /\ \A n \in 1..Len(old) : Front(new)[n] = new[n]
      <3>1. /\ Front(new) \in Seq(Line) /\ Len(Front(new)) = Len(new) - 1
            /\ \A n \in 1..Len(new) - 1 : Front(new)[n] = new[n]
        BY <1>3, FrontOf
      <3>2. Len(new) - 1 = Len(old)  BY <1>3
      <3> QED  BY <3>1, <3>2
    <2> QED  BY <1>2, <1>3, <2>1, SeqEqual
  <1>6. ASSUME NEW s \in Record, Stands(file, s) PROVE Stands(new, s) /\ Stands(old, s)
    <2>1. PICK n \in 1..Len(file) : file[n].rec = s /\ file[n].ok /\ file[n].ended
      BY <1>0, <1>6 DEF Stands
    <2>2. n \in 1..Len(old)
      <3>1. CASE NoEnd(file)
        <4>1. n # Len(file)  BY <2>1, <3>1 DEF NoEnd
        <4>2. Len(old) = Len(file) - 1 /\ n \in 1..Len(file)  BY <1>2, <2>1, <3>1
        <4>3. Len(file) \in Nat  BY <1>0
        <4> QED  BY <4>1, <4>2, <4>3
      <3>2. CASE ~NoEnd(file)  BY <1>2, <3>2
      <3> QED  BY <3>1, <3>2
    <2>3. old[n] = file[n] /\ new[n] = file[n] /\ n \in DOMAIN old /\ n \in DOMAIN new
      BY <1>2, <1>3, <1>4, <2>2
    <2> QED  BY <2>1, <2>3 DEF Stands
  <1>7. ASSUME \A n \in DOMAIN file : file[n].ok /\ file[n].ended
        PROVE  /\ \A n \in DOMAIN new : new[n].ok /\ new[n].ended
               /\ Stands(new, r)
    <2>1. ~NoEnd(file)  BY <1>0, <1>7 DEF NoEnd
    <2>2. x = [rec |-> r, ok |-> TRUE, ended |-> TRUE] /\ Len(old) = Len(file)  BY <1>1, <1>2, <2>1
    <2>3. \A n \in DOMAIN new : new[n].ok /\ new[n].ended
      <3> TAKE n \in DOMAIN new
      <3>1. n \in 1..Len(old) \/ n = Len(old) + 1  BY <1>3, <1>4
      <3>2. CASE n \in 1..Len(old)
        <4>1. new[n] = file[n] /\ n \in DOMAIN file  BY <1>0, <1>2, <1>3, <2>2, <3>2
        <4> QED  BY <1>7, <4>1
      <3>3. CASE n = Len(old) + 1
        <4>1. new[n] = x  BY <1>3, <3>3
        <4> QED  BY <2>2, <4>1
      <3> QED  BY <3>1, <3>2, <3>3
    <2>4. Stands(new, r)
      <3>1. Len(old) + 1 \in DOMAIN new  BY <1>3, <1>4
      <3> QED  BY <1>3, <2>2, <3>1 DEF Stands
    <2> QED  BY <2>3, <2>4
  <1>8. WithRecord(file, r) = new  BY <1>1 DEF new
  <1> QED  BY <1>3, <1>5, <1>6, <1>7, <1>8

\* A rewrite keeps what the lines hold and gives each its end.
LEMMA EndedLines ==
    ASSUME NEW file \in Seq(Line)
    PROVE  /\ Ends(file) \in Seq(Line)
           /\ \A r \in Record : Stands(file, r) => Stands(Ends(file), r)
           /\ (\A n \in DOMAIN file : file[n].ok) =>
                \A n \in DOMAIN Ends(file) : Ends(file)[n].ok /\ Ends(file)[n].ended
  <1>1. /\ Len(file) \in Nat /\ DOMAIN file = 1..Len(file)
        /\ \A n \in 1..Len(file) : file[n] \in Line
    BY LinesOf
  <1>2. \A n \in 1..Len(file) :
          /\ Ends(file)[n] \in Line /\ Ends(file)[n].rec = file[n].rec
          /\ Ends(file)[n].ok = file[n].ok /\ Ends(file)[n].ended = TRUE
    BY <1>1 DEF Ends, Line
  <1>3. DOMAIN Ends(file) = 1..Len(file) /\ Ends(file) \in [1..Len(file) -> Line]
    BY <1>1, <1>2 DEF Ends
  <1>4. Ends(file) \in Seq(Line)  BY <1>1, <1>3
  <1>5. ASSUME NEW r \in Record, Stands(file, r) PROVE Stands(Ends(file), r)
    <2>1. PICK n \in 1..Len(file) : file[n].rec = r /\ file[n].ok  BY <1>1, <1>5 DEF Stands
    <2> QED  BY <1>2, <1>3, <2>1 DEF Stands
  <1> QED  BY <1>1, <1>2, <1>3, <1>4, <1>5

LEMMA JournalStart == JournalInit => JournalInv
  <1> SUFFICES ASSUME JournalInit PROVE JournalInv  OBVIOUS
  <1>1. JournalTypeOK
    <2>1. <<>> \in Seq(Line)  OBVIOUS
    <2>2. copy \in Copy  BY <2>1 DEF JournalInit, NoCopy, Copy
    <2>3. append \in [Record -> {"idle", "sync", "done", "cut"}]  BY DEF JournalInit
    <2>4. mixed \in BOOLEAN /\ cut \in BOOLEAN  BY DEF JournalInit
    <2>5. faults \in 0..MaxFaults  BY FaultsAssumption DEF JournalInit
    <2> QED  BY <2>1, <2>2, <2>3, <2>4, <2>5 DEF JournalInit, JournalTypeOK
  <1>2. Safe /\ Intact /\ ~copy.held  BY DEF JournalInit, Safe, Intact, NoCopy
  <1> QED  BY <1>1, <1>2 DEF JournalInit, JournalInv, Lined

LEMMA JournalTypes ==
    ASSUME JournalInv
    PROVE  /\ lines \in Seq(Line) /\ synced \in Seq(Line)
           /\ append \in [Record -> {"idle", "sync", "done", "cut"}]
           /\ copy.held \in BOOLEAN /\ copy.rows \in Seq(Line)
           /\ safe \subseteq Record /\ returned \subseteq Record /\ safe \subseteq returned
           /\ lines # synced => lines # <<>>
  BY DEF JournalInv, Lined, JournalTypeOK, Copy

LEMMA WriteLineStep == ASSUME JournalInv, NEW r \in Record, WriteLine(r) PROVE JournalInv'
  <1>1. /\ append[r] = "idle" /\ append' = [append EXCEPT ![r] = "sync"]
        /\ lines' = WithRecord(lines, r)
        /\ mixed' = (mixed \/ copy.held)
        /\ UNCHANGED <<synced, copy, returned, safe, cut, faults>>
    BY DEF WriteLine
  <1>2. /\ lines \in Seq(Line) /\ safe \subseteq Record /\ returned \subseteq Record
        /\ append \in [Record -> {"idle", "sync", "done", "cut"}]
    BY JournalTypes
  <1>3. PICK old \in Seq(Line) : old = lines  BY <1>2
  <1>4. PICK new : new = WithRecord(old, r)  OBVIOUS
  <1>5. /\ new \in Seq(Line) /\ new # <<>>
        /\ \A s \in Record : Stands(old, s) => Stands(new, s) /\ Stands(Front(new), s)
        /\ (\A n \in DOMAIN old : old[n].ok /\ old[n].ended) =>
             /\ \A n \in DOMAIN new : new[n].ok /\ new[n].ended
             /\ Stands(new, r)
    BY <1>4, Written
  <1>6. lines' = new  BY <1>1, <1>3, <1>4
  <1>7. Lined'
    <2>1. append' \in [Record -> {"idle", "sync", "done", "cut"}]  BY <1>1, <1>2
    <2>2. mixed' \in BOOLEAN  BY <1>1 DEF JournalInv, Lined, JournalTypeOK, Copy
    <2> QED  BY <1>1, <1>5, <1>6, <2>1, <2>2 DEF JournalInv, Lined, JournalTypeOK
  <1>8. ASSUME ~mixed' PROVE ~copy'.held /\ Safe' /\ (~cut' => Intact')
    <2>1. ~mixed /\ ~copy.held /\ Safe /\ (~cut => Intact)  BY <1>1, <1>8 DEF JournalInv
    <2>2. Safe'
      <3> SUFFICES ASSUME NEW s \in safe
                   PROVE  Stands(new, s) /\ Stands(synced, s) /\ Stands(Front(new), s)
        BY <1>1, <1>6 DEF Safe
      <3> QED  BY <1>2, <1>3, <1>5, <2>1 DEF Safe
    <2>3. ASSUME ~cut' PROVE Intact'
      <3>1. Intact  BY <1>1, <2>1, <2>3
      <3>2. /\ \A n \in DOMAIN new : new[n].ok /\ new[n].ended
            /\ Stands(new, r)
        BY <1>3, <1>5, <3>1 DEF Intact
      <3>3. ASSUME NEW s \in Record, s \in returned \/ append'[s] = "sync" PROVE Stands(new, s)
        <4>1. s = r \/ s \in returned \/ append[s] = "sync"  BY <1>1, <1>2, <3>3
        <4> QED  BY <1>3, <1>5, <3>1, <3>2, <4>1 DEF Intact
      <3> QED  BY <1>1, <1>6, <3>2, <3>3 DEF Intact
    <2> QED  BY <1>1, <2>1, <2>2, <2>3
  <1> QED  BY <1>7, <1>8 DEF JournalInv

LEMMA SyncLineStep == ASSUME JournalInv, NEW r \in Record, SyncLine(r) PROVE JournalInv'
  <1>1. /\ append[r] = "sync" /\ append' = [append EXCEPT ![r] = "done"]
        /\ synced' = lines
        /\ returned' = returned \cup {r}
        /\ safe' = IF cut THEN safe ELSE safe \cup {r}
        /\ UNCHANGED <<lines, copy, mixed, cut, faults>>
    BY DEF SyncLine, LinesOnDisk
  <1>2. /\ lines \in Seq(Line) /\ safe \subseteq Record /\ returned \subseteq Record
        /\ append \in [Record -> {"idle", "sync", "done", "cut"}] /\ safe \subseteq returned
    BY JournalTypes
  <1>3. Lined'
    <2>1. append' \in [Record -> {"idle", "sync", "done", "cut"}]  BY <1>1, <1>2
    <2>2. safe' \subseteq returned' /\ returned' \subseteq Record  BY <1>1, <1>2
    <2> QED  BY <1>1, <1>2, <2>1, <2>2 DEF JournalInv, Lined, JournalTypeOK
  <1>4. ASSUME ~mixed' PROVE (copy'.held => copy'.rows = lines') /\ Safe' /\ (~cut' => Intact')
    <2>1. ~mixed /\ (copy.held => copy.rows = lines) /\ Safe /\ (~cut => Intact)
      BY <1>1, <1>4 DEF JournalInv
    <2>2. \A s \in safe' : Stands(lines, s)  BY <1>1, <2>1 DEF Safe, Intact
    <2>3. Safe'  BY <1>1, <2>2 DEF Safe, Stands
    <2>4. ASSUME ~cut' PROVE Intact'
      <3>1. \A s \in Record : s \in returned' \/ append'[s] = "sync" =>
              s \in returned \/ append[s] = "sync"
        BY <1>1, <1>2
      <3> QED  BY <1>1, <2>1, <2>4, <3>1 DEF Intact, Stands
    <2> QED  BY <1>1, <2>1, <2>3, <2>4
  <1> QED  BY <1>3, <1>4 DEF JournalInv

LEMMA ReadRowsStep == ASSUME JournalInv, ReadRows PROVE JournalInv'
  <1>1. /\ copy' = [held |-> TRUE, rows |-> lines]
        /\ UNCHANGED <<lines, synced, append, returned, safe, mixed, cut, faults>>
    BY DEF ReadRows
  <1>2. copy' \in Copy  BY <1>1, JournalTypes DEF Copy
  <1>3. Lined'  BY <1>1, <1>2 DEF JournalInv, Lined, JournalTypeOK
  <1>4. copy'.rows = lines'  BY <1>1
  <1>5. ~mixed' => Safe' /\ (~cut' => Intact')  BY <1>1 DEF JournalInv, Safe, Intact, Stands
  <1> QED  BY <1>3, <1>4, <1>5 DEF JournalInv

LEMMA RewriteStep == ASSUME JournalInv, Rewrite PROVE JournalInv'
  <1>1. /\ copy.held /\ AppendFree
        /\ lines' = Ends(copy.rows) /\ synced' = Ends(copy.rows) /\ copy' = NoCopy
        /\ UNCHANGED <<append, returned, safe, mixed, cut, faults>>
    BY DEF Rewrite, Rewritten
  <1>2. PICK held \in Seq(Line) : held = copy.rows  BY JournalTypes
  <1>3. /\ Ends(held) \in Seq(Line)
        /\ \A r \in Record : Stands(held, r) => Stands(Ends(held), r)
        /\ (\A n \in DOMAIN held : held[n].ok) =>
             \A n \in DOMAIN Ends(held) : Ends(held)[n].ok /\ Ends(held)[n].ended
    BY EndedLines
  <1>4. PICK new : new = Ends(held)  OBVIOUS
  <1>5. lines' = new /\ synced' = new /\ new \in Seq(Line)  BY <1>1, <1>2, <1>3, <1>4
  <1>6. copy' \in Copy /\ ~copy'.held
    <2>1. <<>> \in Seq(Line)  OBVIOUS
    <2> QED  BY <1>1, <2>1 DEF NoCopy, Copy
  <1>7. Lined'  BY <1>1, <1>5, <1>6 DEF JournalInv, Lined, JournalTypeOK
  <1>8. ASSUME ~mixed' PROVE Safe' /\ (~cut' => Intact')
    <2>1. held = lines /\ Safe /\ (~cut => Intact)  BY <1>1, <1>2, <1>8 DEF JournalInv
    <2>2. \A r \in safe : Stands(new, r)
      BY <1>3, <1>4, <2>1, JournalTypes DEF Safe
    <2>3. Safe'  BY <1>1, <1>5, <2>2 DEF Safe
    <2>4. ASSUME ~cut' PROVE Intact'
      <3>1. \A n \in DOMAIN new : new[n].ok /\ new[n].ended
        BY <1>1, <1>3, <1>4, <2>1, <2>4 DEF Intact
      <3>2. \A r \in Record : r \in returned \/ append[r] = "sync" => Stands(new, r)
        BY <1>1, <1>3, <1>4, <2>1, <2>4 DEF Intact
      <3> QED  BY <1>1, <1>5, <3>1, <3>2 DEF Intact
    <2> QED  BY <2>3, <2>4
  <1> QED  BY <1>6, <1>7, <1>8 DEF JournalInv

LEMMA FaultSteps == ASSUME JournalInv, KillAppend \/ PowerCut PROVE JournalInv'
  <1>1. Fault  BY DEF KillAppend, PowerCut
  <1>2. /\ faults < MaxFaults /\ faults' = faults + 1
        /\ append' = [r \in Record |-> IF append[r] = "sync" THEN "cut" ELSE append[r]]
        /\ copy' = NoCopy /\ UNCHANGED <<returned, safe, mixed>>
    BY <1>1 DEF Fault
  <1>3. /\ append' \in [Record -> {"idle", "sync", "done", "cut"}]
        /\ \A r \in Record : append'[r] # "sync"
    BY <1>2, JournalTypes
  <1>4. copy' \in Copy /\ ~copy'.held
    <2>1. <<>> \in Seq(Line)  OBVIOUS
    <2> QED  BY <1>2, <2>1 DEF NoCopy, Copy
  <1>5. faults' \in 0..MaxFaults  BY <1>2, FaultsAssumption DEF JournalInv, Lined, JournalTypeOK
  <1>6. CASE KillAppend
    <2>1. UNCHANGED <<lines, synced, cut>>  BY <1>6 DEF KillAppend
    <2>2. Lined'  BY <1>2, <1>3, <1>4, <1>5, <2>1 DEF JournalInv, Lined, JournalTypeOK
    <2>3. ~mixed' => Safe' /\ (~cut' => Intact')
      BY <1>2, <1>3, <2>1 DEF JournalInv, Safe, Intact, Stands
    <2> QED  BY <1>4, <2>2, <2>3 DEF JournalInv
  <1>7. CASE PowerCut
    <2>1. lines' \in Remains /\ synced' = lines' /\ cut' = TRUE  BY <1>7 DEF PowerCut
    <2>2. PICK old, new :
            /\ old \in Seq(Line) /\ old = lines /\ new = lines'
            /\ lines # synced => old # <<>>
      BY JournalTypes
    <2>3. /\ new \in Seq(Line)
          /\ ~mixed => \A r \in safe : Stands(new, r)
      <3>1. CASE new = lines \/ new = synced
        BY <3>1, JournalTypes DEF JournalInv, Safe
      <3>2. CASE ~(new = lines \/ new = synced)
        <4>1. PICK all \in BOOLEAN :
                new = Append(Front(old), [old[Len(old)] EXCEPT !.ended = FALSE, !.ok = @ /\ all])
          BY <2>1, <2>2, <3>2 DEF Remains
        <4>2. lines # synced /\ old # <<>>  BY <2>1, <2>2, <3>2 DEF Remains
        <4> DEFINE x == [old[Len(old)] EXCEPT !.ended = FALSE, !.ok = @ /\ all]
        <4>3. x \in Line
          <5>1. old[Len(old)] \in Line  BY <2>2, <4>2, LinesOf
          <5> QED  BY <5>1 DEF Line
        <4>4. PICK f \in Seq(Line) : f = Front(old)  BY <2>2, <4>2, FrontOf
        <4>5. /\ new \in Seq(Line) /\ Len(new) = Len(f) + 1
              /\ \A n \in 1..Len(f) : new[n] = f[n]
          <5> HIDE DEF x
          <5>1. new = Append(f, x)  BY <4>1, <4>4 DEF x
          <5> QED  BY <4>3, <4>4, <5>1
        <4>6. \A r \in Record : Stands(f, r) => Stands(new, r)
          <5>1. DOMAIN f = 1..Len(f) /\ DOMAIN new = 1..Len(f) + 1 /\ Len(f) \in Nat
            BY <4>5, LinesOf
          <5> QED  BY <4>5, <5>1 DEF Stands
        <4>7. ~mixed => \A r \in safe : Stands(f, r)  BY <2>2, <4>2, <4>4 DEF JournalInv, Safe
        <4> QED  BY <4>5, <4>6, <4>7, JournalTypes
      <3> QED  BY <3>1, <3>2
    <2>4. Lined'  BY <1>2, <1>3, <1>4, <1>5, <2>1, <2>2, <2>3 DEF JournalInv, Lined, JournalTypeOK
    <2>5. ~mixed' => Safe'  BY <1>2, <2>1, <2>2, <2>3 DEF Safe
    <2> QED  BY <1>4, <2>1, <2>4, <2>5 DEF JournalInv
  <1> QED  BY <1>6, <1>7

LEMMA JournalSteps == JournalInv /\ [JournalNext]_journal => JournalInv'
  <1> SUFFICES ASSUME JournalInv, [JournalNext]_journal PROVE JournalInv'  OBVIOUS
  <1>1. CASE UNCHANGED journal
    BY <1>1 DEF journal, JournalInv, Lined, JournalTypeOK, Safe, Intact, Stands
  <1>2. CASE JournalNext
    BY <1>2, WriteLineStep, SyncLineStep, ReadRowsStep, RewriteStep, FaultSteps DEF JournalNext
  <1> QED  BY <1>1, <1>2

LEMMA JournalAlways == JournalSpec => []JournalInv
  <1> QED  BY JournalStart, JournalSteps, PTL DEF JournalSpec

\* The file, the disk and the appends keep their types (JsonlStore).
THEOREM JournalTyped == JournalSpec => []JournalTypeOK
  <1>1. JournalInv => JournalTypeOK  BY DEF JournalInv, Lined
  <1> QED  BY <1>1, JournalAlways, PTL

\* An appended record stays readable over kills, and once its append returned over
\* power failures too, unless a rewrite was under way next to an append
\* (JsonlStore.append, rewrite_all).
THEOREM RecordsStay == JournalSpec => []AppendedStays
  <1>1. \A r : Stands(lines, r) => r \in Rows(lines)  BY DEF Stands, Rows
  <1>2. JournalInv => AppendedStays
    BY <1>1 DEF JournalInv, Lined, JournalTypeOK, Safe, Intact, Readable, AppendedStays
  <1> QED  BY <1>2, JournalAlways, PTL
=============================================================================
