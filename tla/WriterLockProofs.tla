-------------------------- MODULE WriterLockProofs --------------------------
(***************************************************************************)
(* Proofs about WriterLock for every set of processes and threads and every*)
(* nesting bound: type correctness, mutual exclusion between processes, and*)
(* that the lock implements SingleWriter.                                  *)
(***************************************************************************)
EXTENDS WriterLock, FiniteSetTheorems, TLAPS

(* Whoever stands inside the guard holds the OS lock and has no entry yet  *)
(* (entering) or any more (leaving); the guard knows who that is.          *)
GuardInv ==
    /\ \A t \in Thread : pc[t] \in Inside =>
          /\ guard[procOf[t]] = t
          /\ osLock = WriterFd(procOf[t])
          /\ registry[procOf[t]] = 0
    /\ \A t \in Thread : pc[t] \in {"locked", "named"} => depth[t] < MaxDepth
    /\ \A p \in Proc : guard[p] # NoThread =>
          /\ procOf[guard[p]] = p
          /\ pc[guard[p]] \in Inside

(* An entry in a registry means the OS lock is held by that process; there *)
(* is no lock without its file.                                            *)
EntryInv == /\ \A p \in Proc : registry[p] > 0 => osLock = WriterFd(p)
            /\ osLock # Free => lockFile

(* A probe between its flock and its unlock is the one that holds it.      *)
ProbeInv == \A t \in Thread : pc[t] = "probing" => osLock = ProbeFd(t)

(* A registry counts open blocks, of which there are finitely many.        *)
CountInv == \A p \in Proc : /\ IsFiniteSet(OpenBlocks(p))
                            /\ registry[p] = Cardinality(OpenBlocks(p))

IInv == TypeOK /\ GuardInv /\ EntryInv /\ ProbeInv /\ CountInv

-----------------------------------------------------------------------------
(* A thread that opens a block and raises the count keeps the count right. *)
LEMMA BlockOpened ==
    ASSUME TypeOK, CountInv, NEW t \in Thread, depth[t] < MaxDepth,
           depth' = [depth EXCEPT ![t] = @ + 1],
           registry' = [registry EXCEPT ![procOf[t]] = @ + 1]
    PROVE  CountInv'
<1> DEFINE new == <<t, depth[t] + 1>>
<1>1. SUFFICES ASSUME NEW p \in Proc
               PROVE  /\ IsFiniteSet(OpenBlocks(p)')
                      /\ registry'[p] = Cardinality(OpenBlocks(p)')
  BY DEF CountInv
<1>2. procOf[t] \in Proc /\ depth[t] \in 0..MaxDepth /\ MaxDepth \in Nat
  BY ProcAssumption DEF TypeOK
<1>3. CASE p = procOf[t]
  <2>1. OpenBlocks(p)' = OpenBlocks(p) \cup {new}
    <3>1. ASSUME NEW b \in Thread \X (1..MaxDepth)
          PROVE  b \in OpenBlocks(p)' <=> b \in OpenBlocks(p) \cup {new}
      <4>1. CASE b[1] = t
        <5>1. depth'[b[1]] = depth[t] + 1
          BY <4>1 DEF TypeOK
        <5>2. b = new <=> b[2] = depth[t] + 1
          BY <4>1
        <5>3. b[2] \in Nat
          OBVIOUS
        <5>4. b[2] <= depth[t] + 1 <=> b[2] <= depth[t] \/ b[2] = depth[t] + 1
          BY <5>3, <1>2
        <5> QED BY <5>1, <5>2, <5>4, <4>1, <1>3 DEF OpenBlocks
      <4>2. CASE b[1] # t
        BY <4>2 DEF OpenBlocks, TypeOK
      <4> QED BY <4>1, <4>2
    <3>2. new \in Thread \X (1..MaxDepth)
      BY <1>2
    <3> QED BY <3>1, <3>2 DEF OpenBlocks
  <2>2. new \notin OpenBlocks(p)
    BY <1>2 DEF OpenBlocks
  <2>3. registry'[p] = registry[p] + 1
    BY <1>3 DEF TypeOK
  <2>4. IsFiniteSet(OpenBlocks(p)) /\ registry[p] = Cardinality(OpenBlocks(p))
    BY DEF CountInv
  <2> HIDE DEF new
  <2>5. /\ IsFiniteSet(OpenBlocks(p) \cup {new})
        /\ Cardinality(OpenBlocks(p) \cup {new}) = Cardinality(OpenBlocks(p)) + 1
    BY ONLY <2>2, <2>4, FS_AddElement
  <2> QED BY ONLY <2>1, <2>3, <2>4, <2>5
<1>4. CASE p # procOf[t]
  <2>1. OpenBlocks(p)' = OpenBlocks(p)
    BY <1>4 DEF OpenBlocks, TypeOK
  <2>2. registry'[p] = registry[p]
    BY <1>4 DEF TypeOK
  <2> QED BY <2>1, <2>2 DEF CountInv
<1> QED BY <1>3, <1>4

(* A thread that closes a block and lowers the count keeps it right.       *)
LEMMA BlockClosed ==
    ASSUME TypeOK, CountInv, NEW t \in Thread, depth[t] > 0,
           depth' = [depth EXCEPT ![t] = @ - 1],
           registry' = [registry EXCEPT ![procOf[t]] = @ - 1]
    PROVE  CountInv' /\ registry[procOf[t]] > 0
<1> DEFINE old == <<t, depth[t]>>
<1>2. procOf[t] \in Proc /\ depth[t] \in 0..MaxDepth /\ MaxDepth \in Nat
  BY ProcAssumption DEF TypeOK
<1>3. old \in OpenBlocks(procOf[t])
  BY <1>2 DEF OpenBlocks
<1>4. ASSUME NEW p \in Proc
      PROVE  /\ IsFiniteSet(OpenBlocks(p)')
             /\ registry'[p] = Cardinality(OpenBlocks(p)')
  <2>1. CASE p = procOf[t]
    <3>1. OpenBlocks(p)' = OpenBlocks(p) \ {old}
      <4>1. ASSUME NEW b \in Thread \X (1..MaxDepth)
            PROVE  b \in OpenBlocks(p)' <=> b \in OpenBlocks(p) \ {old}
        <5>1. CASE b[1] = t
          <6>1. depth'[b[1]] = depth[t] - 1
            BY <5>1 DEF TypeOK
          <6>2. b = old <=> b[2] = depth[t]
            BY <5>1
          <6>3. b[2] \in Nat
            OBVIOUS
          <6>4. b[2] <= depth[t] - 1 <=> b[2] <= depth[t] /\ b[2] # depth[t]
            BY <6>3, <1>2
          <6> QED BY <6>1, <6>2, <6>4, <5>1, <2>1 DEF OpenBlocks
        <5>2. CASE b[1] # t
          BY <5>2 DEF OpenBlocks, TypeOK
        <5> QED BY <5>1, <5>2
      <4> QED BY <4>1 DEF OpenBlocks
    <3>2. registry'[p] = registry[p] - 1
      BY <2>1 DEF TypeOK
    <3>3. /\ IsFiniteSet(OpenBlocks(p)) /\ old \in OpenBlocks(p)
          /\ registry[p] = Cardinality(OpenBlocks(p))
      BY <1>3, <2>1 DEF CountInv
    <3> HIDE DEF old
    <3>4. /\ IsFiniteSet(OpenBlocks(p) \ {old})
          /\ Cardinality(OpenBlocks(p) \ {old}) = Cardinality(OpenBlocks(p)) - 1
      BY ONLY <3>3, FS_RemoveElement
    <3> QED BY ONLY <3>1, <3>2, <3>3, <3>4
  <2>2. CASE p # procOf[t]
    <3>1. OpenBlocks(p)' = OpenBlocks(p)
      BY <2>2 DEF OpenBlocks, TypeOK
    <3>2. registry'[p] = registry[p]
      BY <2>2 DEF TypeOK
    <3> QED BY <3>1, <3>2 DEF CountInv
  <2> QED BY <2>1, <2>2
<1>5. registry[procOf[t]] # 0
  BY <1>2, <1>3, FS_EmptySet DEF CountInv
<1> QED BY <1>2, <1>4, <1>5 DEF CountInv, TypeOK

(* A step that changes neither depths nor counts leaves CountInv alone.    *)
LEMMA CountUntouched ==
    ASSUME CountInv, UNCHANGED <<depth, registry>>
    PROVE  CountInv'
BY DEF CountInv, OpenBlocks

-----------------------------------------------------------------------------
LEMMA InitEstablishes == Init => IInv
<1> SUFFICES ASSUME Init PROVE IInv
  OBVIOUS
<1>1. TypeOK
  <2>1. Free \in Fds /\ Ended("none") \in Outcomes /\ "idle" \in Steps
    BY DEF Fds, Outcomes, Ended, Steps
  <2>2. 0 \in 0..MaxDepth
    BY ProcAssumption
  <2> QED BY <2>1, <2>2 DEF Init, TypeOK
<1>2. GuardInv /\ EntryInv /\ ProbeInv
  BY DEF Init, GuardInv, EntryInv, ProbeInv, Inside
<1>3. CountInv
  <2>1. ASSUME NEW p \in Proc PROVE OpenBlocks(p) = {}
    BY DEF Init, OpenBlocks
  <2> QED BY <2>1, FS_EmptySet DEF Init, CountInv
<1> QED BY <1>1, <1>2, <1>3 DEF IInv

(* Every step keeps the types.                                             *)
LEMMA TypeStep == IInv /\ [Next]_vars => TypeOK'
<1> SUFFICES ASSUME IInv, [Next]_vars PROVE TypeOK'
  OBVIOUS
<1>0. TypeOK
  BY DEF IInv
<1> USE <1>0, ProcAssumption DEF TypeOK, Steps, Inside, Outcomes, Ended, Fds
<1>1. ASSUME NEW t \in Thread, EnterNested(t) PROVE TypeOK'
  BY <1>1 DEF EnterNested
<1>2. ASSUME NEW t \in Thread, TryLock(t) PROVE TypeOK'
  BY <1>2 DEF TryLock
<1>3. ASSUME NEW t \in Thread, WriteHolder(t) PROVE TypeOK'
  BY <1>3 DEF WriteHolder
<1>4. ASSUME NEW t \in Thread, Register(t) PROVE TypeOK'
  <2>1. depth[t] < MaxDepth
    BY <1>4 DEF Register, IInv, GuardInv
  <2> QED BY <1>4, <2>1 DEF Register
<1>5. ASSUME NEW t \in Thread, Leave(t) PROVE TypeOK'
  <2>1. registry[procOf[t]] > 0
    BY <1>5, BlockClosed DEF Leave, CountAfterLeave, IInv
  <2>2. CountAfterLeave(procOf[t]) \in Nat
    BY <2>1 DEF CountAfterLeave
  <2> QED BY <1>5, <2>2 DEF Leave
<1>6. ASSUME NEW t \in Thread, UnlinkHolder(t) PROVE TypeOK'
  BY <1>6 DEF UnlinkHolder
<1>7. ASSUME NEW t \in Thread, Unlock(t) PROVE TypeOK'
  BY <1>7 DEF Unlock
<1>8. ASSUME NEW t \in Thread, ProbeRegistry(t) PROVE TypeOK'
  BY <1>8 DEF ProbeRegistry
<1>9. ASSUME NEW t \in Thread, ProbeLock(t) PROVE TypeOK'
  BY <1>9 DEF ProbeLock
<1>10. ASSUME NEW t \in Thread, ProbeUnlock(t) PROVE TypeOK'
  BY <1>10 DEF ProbeUnlock
<1>11. ASSUME NEW p \in Proc, Die(p) PROVE TypeOK'
  BY <1>11 DEF Die
<1>12. CASE UNCHANGED vars
  BY <1>12 DEF vars
<1> QED
  BY <1>1, <1>2, <1>3, <1>4, <1>5, <1>6, <1>7, <1>8, <1>9, <1>10, <1>11, <1>12
     DEF Next, ThreadStep

(* Every step keeps the rest of the invariant.                             *)
LEMMA StepKeeps == IInv /\ [Next]_vars => (GuardInv /\ EntryInv /\ ProbeInv /\ CountInv)'
<1> SUFFICES ASSUME IInv, [Next]_vars
             PROVE  GuardInv' /\ EntryInv' /\ ProbeInv' /\ CountInv'
  OBVIOUS
<1>0. TypeOK /\ GuardInv /\ EntryInv /\ ProbeInv /\ CountInv
  BY DEF IInv
<1>n. NoThread \notin Thread /\ procOf \in [Thread -> Proc]
  BY ProcAssumption
<1> USE <1>0, <1>n DEF TypeOK, GuardInv, EntryInv, ProbeInv, Inside, WriterFd, ProbeFd, Free
<1>1. ASSUME NEW t \in Thread, EnterNested(t)
      PROVE  GuardInv' /\ EntryInv' /\ ProbeInv' /\ CountInv'
  <2>1. CountInv'
    BY <1>1, BlockOpened DEF EnterNested, CanCall
  <2>2. GuardInv'
    BY <1>1 DEF EnterNested, CanCall
  <2>3. EntryInv' /\ ProbeInv'
    BY <1>1 DEF EnterNested, CanCall
  <2> QED BY <2>1, <2>2, <2>3
<1>2. ASSUME NEW t \in Thread, TryLock(t)
      PROVE  GuardInv' /\ EntryInv' /\ ProbeInv' /\ CountInv'
  <2>1. CountInv'
    BY <1>2, CountUntouched DEF TryLock, CanCall, Granted
  <2>2. GuardInv'
    BY <1>2 DEF TryLock, CanCall, Granted
  <2>3. EntryInv' /\ ProbeInv'
    BY <1>2 DEF TryLock, CanCall, Granted
  <2> QED BY <2>1, <2>2, <2>3
<1>3. ASSUME NEW t \in Thread, WriteHolder(t)
      PROVE  GuardInv' /\ EntryInv' /\ ProbeInv' /\ CountInv'
  <2>1. CountInv'
    BY <1>3, CountUntouched DEF WriteHolder
  <2>2. GuardInv'
    BY <1>3 DEF WriteHolder
  <2>3. EntryInv' /\ ProbeInv'
    BY <1>3 DEF WriteHolder
  <2> QED BY <2>1, <2>2, <2>3
<1>4. ASSUME NEW t \in Thread, Register(t)
      PROVE  GuardInv' /\ EntryInv' /\ ProbeInv' /\ CountInv'
  <2>1. CountInv'
    <3>0. registry[procOf[t]] = 0 /\ depth[t] < MaxDepth
      BY <1>4 DEF Register
    <3>1. registry' = [registry EXCEPT ![procOf[t]] = @ + 1]
      BY <3>0, <1>4, 0 + 1 = 1 DEF Register
    <3> QED BY <1>4, <3>0, <3>1, BlockOpened DEF Register
  <2>2. GuardInv'
    BY <1>4 DEF Register
  <2>3. EntryInv' /\ ProbeInv'
    BY <1>4 DEF Register
  <2> QED BY <2>1, <2>2, <2>3
<1>5. ASSUME NEW t \in Thread, Leave(t)
      PROVE  GuardInv' /\ EntryInv' /\ ProbeInv' /\ CountInv'
  <2>1. CountInv'
    BY <1>5, BlockClosed DEF Leave, CanCall, CountAfterLeave
  <2>2. GuardInv'
    BY <1>5 DEF Leave, CanCall, CountAfterLeave
  <2>3. EntryInv' /\ ProbeInv'
    BY <1>5 DEF Leave, CanCall, CountAfterLeave
  <2> QED BY <2>1, <2>2, <2>3
<1>6. ASSUME NEW t \in Thread, UnlinkHolder(t)
      PROVE  GuardInv' /\ EntryInv' /\ ProbeInv' /\ CountInv'
  <2>1. CountInv'
    BY <1>6, CountUntouched DEF UnlinkHolder
  <2>2. GuardInv'
    BY <1>6 DEF UnlinkHolder
  <2>3. EntryInv' /\ ProbeInv'
    BY <1>6 DEF UnlinkHolder
  <2> QED BY <2>1, <2>2, <2>3
<1>7. ASSUME NEW t \in Thread, Unlock(t)
      PROVE  GuardInv' /\ EntryInv' /\ ProbeInv' /\ CountInv'
  <2>1. CountInv'
    BY <1>7, CountUntouched DEF Unlock
  <2>2. GuardInv'
    BY <1>7 DEF Unlock
  <2>3. EntryInv' /\ ProbeInv'
    BY <1>7 DEF Unlock
  <2> QED BY <2>1, <2>2, <2>3
<1>8. ASSUME NEW t \in Thread, ProbeRegistry(t)
      PROVE  GuardInv' /\ EntryInv' /\ ProbeInv' /\ CountInv'
  <2>1. CountInv'
    BY <1>8, CountUntouched DEF ProbeRegistry, CanCall
  <2>2. GuardInv'
    BY <1>8 DEF ProbeRegistry, CanCall
  <2>3. EntryInv' /\ ProbeInv'
    BY <1>8 DEF ProbeRegistry, CanCall
  <2> QED BY <2>1, <2>2, <2>3
<1>9. ASSUME NEW t \in Thread, ProbeLock(t)
      PROVE  GuardInv' /\ EntryInv' /\ ProbeInv' /\ CountInv'
  <2>1. CountInv'
    BY <1>9, CountUntouched DEF ProbeLock
  <2>2. GuardInv'
    BY <1>9 DEF ProbeLock
  <2>3. EntryInv' /\ ProbeInv'
    BY <1>9 DEF ProbeLock
  <2> QED BY <2>1, <2>2, <2>3
<1>10. ASSUME NEW t \in Thread, ProbeUnlock(t)
      PROVE  GuardInv' /\ EntryInv' /\ ProbeInv' /\ CountInv'
  <2>1. CountInv'
    BY <1>10, CountUntouched DEF ProbeUnlock
  <2>2. GuardInv'
    BY <1>10 DEF ProbeUnlock
  <2>3. EntryInv' /\ ProbeInv'
    BY <1>10 DEF ProbeUnlock
  <2> QED BY <2>1, <2>2, <2>3
<1>11. ASSUME NEW p \in Proc, Die(p)
      PROVE  GuardInv' /\ EntryInv' /\ ProbeInv' /\ CountInv'
  <2>1. CountInv'
    <3>1. ASSUME NEW q \in Proc
          PROVE  /\ IsFiniteSet(OpenBlocks(q)')
                 /\ registry'[q] = Cardinality(OpenBlocks(q)')
      <4>1. CASE q = p
        <5>1. OpenBlocks(q)' = {}
          BY <1>11, <4>1, ProcAssumption DEF Die, OpenBlocks
        <5> QED BY <5>1, <1>11, <4>1, FS_EmptySet DEF Die
      <4>2. CASE q # p
        <5>1. OpenBlocks(q)' = OpenBlocks(q)
          BY <1>11, <4>2 DEF Die, OpenBlocks
        <5>2. registry'[q] = registry[q]
          BY <1>11, <4>2 DEF Die
        <5> QED BY <5>1, <5>2 DEF CountInv
      <4> QED BY <4>1, <4>2
    <3> QED BY <3>1 DEF CountInv
  <2>2. GuardInv'
    BY <1>11 DEF Die
  <2>3. EntryInv' /\ ProbeInv'
    BY <1>11 DEF Die
  <2> QED BY <2>1, <2>2, <2>3
<1>12. CASE UNCHANGED vars
  <2>1. CountInv'
    BY <1>12, CountUntouched DEF vars
  <2> QED BY <1>12, <2>1 DEF vars
<1> QED
  BY <1>1, <1>2, <1>3, <1>4, <1>5, <1>6, <1>7, <1>8, <1>9, <1>10, <1>11, <1>12
     DEF Next, ThreadStep

(* The strengthened invariant holds in every reachable state: the fact     *)
(* every theorem below about the lock of the code rests on.                *)
THEOREM IInvAlways == Spec => []IInv
<1>1. IInv /\ [Next]_vars => IInv'
  BY TypeStep, StepKeeps DEF IInv
<1> QED BY InitEstablishes, <1>1, PTL DEF Spec

(* The types of all variables hold in every behaviour, for any numbers of  *)
(* processes and threads.                                                  *)
THEOREM TypeCorrect == Spec => []TypeOK
BY IInvAlways, PTL DEF IInv

(* The count of a registry entry is always the number of open blocks, so a *)
(* nested leave never gives up the lock of a block that is still open.     *)
THEOREM CountsRight == Spec => []CountIsOpenBlocks
<1>1. IInv => CountIsOpenBlocks
  BY DEF IInv, CountInv, CountIsOpenBlocks
<1> QED BY IInvAlways, <1>1, PTL

(* A process that has a block open holds the OS lock.                      *)
THEOREM LockCovers == Spec => []LockCoversBlocks
<1>1. IInv => LockCoversBlocks
  <2> SUFFICES ASSUME IInv, NEW t \in Thread, depth[t] > 0
               PROVE  osLock = WriterFd(procOf[t])
    BY DEF LockCoversBlocks
  <2>1. procOf[t] \in Proc /\ depth[t] \in 1..MaxDepth
    BY ProcAssumption DEF IInv, TypeOK
  <2>2. <<t, depth[t]>> \in OpenBlocks(procOf[t])
    BY <2>1 DEF OpenBlocks
  <2>3. registry[procOf[t]] # 0
    BY <2>1, <2>2, FS_EmptySet DEF IInv, CountInv
  <2> QED BY <2>1, <2>3 DEF IInv, EntryInv, TypeOK
<1> QED BY IInvAlways, <1>1, PTL

(* Mutual exclusion: two threads inside blocks are of the same process.    *)
THEOREM MutualExclusion == Spec => []OneWriter
<1>1. LockCoversBlocks => OneWriter
  BY DEF LockCoversBlocks, OneWriter, WriterFd
<1> QED BY LockCovers, <1>1, PTL

-----------------------------------------------------------------------------
(* The lock implements SingleWriter.                                       *)

LEMMA WriterIsUnique ==
    ASSUME EntryInv, NEW p \in Proc, Writing(p)
    PROVE  CurrentWriter = p
<1>1. \A q \in Proc : Writing(q) => q = p
  BY DEF EntryInv, Writing, WriterFd
<1> QED BY <1>1 DEF CurrentWriter

LEMMA NobodyWrites ==
    ASSUME \A p \in Proc : ~Writing(p)
    PROVE  CurrentWriter = NoProc
BY DEF CurrentWriter

LEMMA RegistryKept ==
    ASSUME UNCHANGED registry
    PROVE  UNCHANGED CurrentWriter
BY DEF CurrentWriter, Writing

(* Every step of the lock enters, leaves or keeps the abstract writer.     *)
LEMMA StepRefines ==
    ASSUME IInv, IInv', [Next]_vars
    PROVE  [SW!SWNext]_CurrentWriter
<1>0. TypeOK /\ EntryInv /\ EntryInv' /\ GuardInv
  BY DEF IInv
<1>p. procOf \in [Thread -> Proc] /\ NoProc \notin Proc
  BY ProcAssumption
<1>q. \A p \in Proc : registry[p] \in Nat /\ registry'[p] \in Nat
  BY DEF IInv, TypeOK
<1>1. ASSUME NEW p \in Proc, Writing(p), Writing(p)'
      PROVE  UNCHANGED CurrentWriter
  <2>1. CurrentWriter = p
    BY <1>0, <1>1, WriterIsUnique
  <2>2. CurrentWriter' = p
    <3>1. \A q \in Proc : Writing(q)' => q = p
      BY <1>0, <1>1 DEF EntryInv, Writing, WriterFd
    <3> QED BY <1>1, <3>1 DEF CurrentWriter
  <2> QED BY <2>1, <2>2
<1>2. ASSUME NEW p \in Proc, Writing(p), \A q \in Proc : ~Writing(q)'
      PROVE  SW!Leave
  <2>1. CurrentWriter = p
    BY <1>0, <1>2, WriterIsUnique
  <2>2. CurrentWriter' = NoProc
    BY <1>2 DEF CurrentWriter
  <2> QED BY <1>p, <2>1, <2>2 DEF SW!Leave
<1>3. ASSUME NEW p \in Proc, \A q \in Proc : ~Writing(q), Writing(p)'
      PROVE  SW!Enter
  <2>1. CurrentWriter = NoProc
    BY <1>3, NobodyWrites
  <2>2. CurrentWriter' = p
    <3>1. \A q \in Proc : Writing(q)' => q = p
      BY <1>0, <1>3 DEF EntryInv, Writing, WriterFd
    <3> QED BY <1>3, <3>1 DEF CurrentWriter
  <2> QED BY <2>1, <2>2 DEF SW!Enter
<1>4. ASSUME NEW t \in Thread, EnterNested(t)
      PROVE  [SW!SWNext]_CurrentWriter
  <2>1. procOf[t] \in Proc /\ Writing(procOf[t]) /\ Writing(procOf[t])'
    BY <1>0, <1>p, <1>q, <1>4 DEF EnterNested, Writing, TypeOK
  <2> QED BY <1>1, <2>1
<1>5. ASSUME NEW t \in Thread, Register(t)
      PROVE  [SW!SWNext]_CurrentWriter
  <2>1. procOf[t] \in Proc /\ Writing(procOf[t])'
    BY <1>0, <1>p, <1>5 DEF Register, Writing, TypeOK
  <2>2. \A q \in Proc : ~Writing(q)
    BY <1>0, <1>p, <1>5
       DEF Register, GuardInv, EntryInv, Writing, Inside, WriterFd
  <2> QED BY <1>3, <2>1, <2>2 DEF SW!SWNext
<1>6. ASSUME NEW p \in Proc, Writing(p),
             \A q \in Proc : q # p => registry'[q] = registry[q]
      PROVE  [SW!SWNext]_CurrentWriter
  <2>1. \A q \in Proc : q # p => ~Writing(q)'
    BY <1>0, <1>6 DEF EntryInv, Writing, WriterFd
  <2>2. CASE Writing(p)'
    BY <1>1, <1>6, <2>2
  <2>3. CASE ~Writing(p)'
    BY <1>2, <1>6, <2>1, <2>3 DEF SW!SWNext
  <2> QED BY <2>2, <2>3
<1>7. ASSUME NEW t \in Thread, Leave(t)
      PROVE  [SW!SWNext]_CurrentWriter
  <2>1. registry[procOf[t]] > 0
    BY <1>7, BlockClosed DEF Leave, CountAfterLeave, IInv
  <2>2. \A q \in Proc : q # procOf[t] => registry'[q] = registry[q]
    BY <1>0, <1>7 DEF Leave, TypeOK
  <2> QED BY <1>6, <1>p, <2>1, <2>2 DEF Writing
<1>8. ASSUME NEW p \in Proc, Die(p)
      PROVE  [SW!SWNext]_CurrentWriter
  <2>1. \A q \in Proc : q # p => registry'[q] = registry[q]
    BY <1>0, <1>8 DEF Die, TypeOK
  <2>2. CASE Writing(p)
    BY <1>6, <2>1, <2>2
  <2>3. CASE ~Writing(p)
    <3>1. \A q \in Proc : registry'[q] > 0 <=> registry[q] > 0
      BY <1>0, <1>8, <2>1, <2>3 DEF Die, TypeOK, Writing
    <3> QED BY <3>1 DEF CurrentWriter, Writing
  <2> QED BY <2>2, <2>3
<1>9. ASSUME UNCHANGED registry
      PROVE  [SW!SWNext]_CurrentWriter
  BY <1>9, RegistryKept
<1>10. ASSUME NEW t \in Thread,
              \/ TryLock(t) \/ WriteHolder(t) \/ UnlinkHolder(t) \/ Unlock(t)
              \/ ProbeRegistry(t) \/ ProbeLock(t) \/ ProbeUnlock(t)
       PROVE  UNCHANGED registry
  BY <1>10 DEF TryLock, WriteHolder, UnlinkHolder, Unlock, ProbeRegistry,
               ProbeLock, ProbeUnlock
<1>11. CASE UNCHANGED vars
  BY <1>9, <1>11 DEF vars
<1>12. CASE Next
  BY <1>4, <1>5, <1>7, <1>8, <1>9, <1>10, <1>12 DEF Next, ThreadStep
<1> QED BY <1>11, <1>12

(* WriterLock implements SingleWriter: the process that has a registry     *)
(* entry is the abstract writer.                                           *)
THEOREM Refinement == Spec => RefinesSingleWriter
<1>1. Init => SW!SWInit
  BY NobodyWrites DEF Init, SW!SWInit, Writing
<1>2. IInv /\ IInv' /\ [Next]_vars => [SW!SWNext]_CurrentWriter
  BY StepRefines
<1> QED BY IInvAlways, <1>1, <1>2, PTL DEF Spec, RefinesSingleWriter, SW!SWSpec

-----------------------------------------------------------------------------
(* A probe reports a dead writer only when nobody writes.                  *)
THEOREM ProbeSound == Spec => DeadMeansNoWriter
<1> DEFINE Sound == \A t \in Thread :
              /\ ProbeLock(t) \/ ProbeUnlock(t)
              /\ pc'[t] = "idle" /\ outcome'[t] = Ended("dead")
              => \A p \in Proc : ~Writing(p)
<1>1. IInv => Sound
  <2> SUFFICES ASSUME IInv, NEW t \in Thread, NEW p \in Proc, Writing(p),
                      outcome'[t] = Ended("dead"), pc'[t] = "idle",
                      ProbeLock(t) \/ ProbeUnlock(t)
               PROVE  FALSE
    OBVIOUS
  <2>1. osLock = WriterFd(p) /\ lockFile
    BY DEF IInv, EntryInv, Writing, WriterFd, Free
  <2>2. CASE ProbeLock(t)
    BY <2>1, <2>2 DEF ProbeLock, IInv, TypeOK, Ended
  <2>3. CASE ProbeUnlock(t)
    BY <2>1, <2>3 DEF ProbeUnlock, IInv, ProbeInv, WriterFd, ProbeFd
  <2> QED BY <2>2, <2>3
<1>2. IInv => [Sound]_vars
  BY <1>1
<1> QED BY IInvAlways, <1>2, PTL DEF DeadMeansNoWriter

(* Nobody replaces or removes the holder file of a process that stays in.  *)
THEOREM HolderKept == Spec => HolderOfWriterKept
<1> DEFINE Kept == \A p \in Proc :
              Writing(p) /\ Writing(p)' /\ holder = p => holder' = p
<1>1. IInv /\ [Next]_vars => [Kept]_vars
  <2> SUFFICES ASSUME IInv, [Next]_vars, NEW p \in Proc, Writing(p), holder = p
               PROVE  holder' = p
    OBVIOUS
  <2>1. osLock = WriterFd(p) /\ registry[p] > 0
    BY DEF IInv, EntryInv, Writing
  <2>2. ASSUME NEW t \in Thread, WriteHolder(t) \/ UnlinkHolder(t)
        PROVE  FALSE
    <3>1. osLock = WriterFd(procOf[t]) /\ registry[procOf[t]] = 0
      BY <2>2 DEF WriteHolder, UnlinkHolder, IInv, GuardInv, Inside
    <3>2. procOf[t] = p
      BY <2>1, <3>1 DEF WriterFd
    <3> QED BY <2>1, <3>1, <3>2
  <2>3. CASE UNCHANGED vars
    BY <2>3 DEF vars
  <2>4. CASE \E q \in Proc : Die(q)
    BY <2>4 DEF Die
  <2>5. CASE \E t \in Thread : ThreadStep(t)
    BY <2>2, <2>5 DEF ThreadStep, EnterNested, TryLock, Register, Leave, Unlock,
                      ProbeRegistry, ProbeLock, ProbeUnlock
  <2> QED BY <2>3, <2>4, <2>5 DEF Next
<1> QED BY IInvAlways, <1>1, PTL DEF Spec, HolderOfWriterKept
=============================================================================
