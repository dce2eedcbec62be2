--------------------------- MODULE MemaRtlProofs ---------------------------
(***************************************************************************)
(* Proofs about the tracing runtime, for every set of processes, threads   *)
(* and functions, every buffer size and every setting; then about the      *)
(* trace as its reader sees it: what memaviz reads of a thread, and the    *)
(* call stack that a thread's records rebuild.                             *)
(***************************************************************************)
EXTENDS MemaRtl, FiniteSetTheorems, RecursionLemmas

USE ProcessAssumption

\* An event record is never one of the two values that stand for no record.
LEMMA EventKinds == /\ NoEvent \notin Record /\ Finalize \notin Record
                    /\ \A f \in Functions : [type |-> "enter", fn |-> f] \in Record
                    /\ \A f \in Functions : [type |-> "exit", fn |-> f] \in Record
                    /\ [type |-> "access", fn |-> NoFn] \in Record
  BY DEF NoEvent, Finalize, Record

\* A chunk that the runtime appends to the file is a chunk.
LEMMA BareChunk ==
  ASSUME NEW k \in {"header", "size", "body", "torn"}, NEW t \in Threads
  PROVE  Bare(k, t) \in Chunk /\ Bare(k, t).kind = k /\ Bare(k, t).by = t
<1>1. <<>> \in Seq(Record) /\ 0 \in Nat
  OBVIOUS
<1> QED
  BY <1>1 DEF Bare, Chunk

LEMMA BlockChunks ==
  ASSUME TypeOK, NEW t \in Threads
  PROVE  /\ SizeChunk(t) \in Chunk /\ BodyChunk(t) \in Chunk
         /\ SizeChunk(t).kind = "size" /\ SizeChunk(t).by = t
         /\ BodyChunk(t).kind = "body" /\ BodyChunk(t).by = t
         /\ SizeChunk(t).size = Len(buf[t]) /\ BodyChunk(t).data = buf[t]
<1>1. <<>> \in Seq(Record) /\ 0 \in Nat /\ buf[t] \in Seq(Record) /\ Len(buf[t]) \in Nat
  BY DEF TypeOK
<1> QED
  BY <1>1 DEF SizeChunk, BodyChunk, Chunk

LEMMA AppendChunk ==
  ASSUME TypeOK, NEW c \in Chunk
  PROVE  Append(file, c) \in Seq(Chunk)
  BY DEF TypeOK

\* Ending a process changes its state and at most the end of the file.
LEMMA DieType ==
  ASSUME TypeOK, NEW p \in Processes, NEW how \in Ended, Die(p, how)
  PROVE  TypeOK'
<1>1. file' \in Seq(Chunk)
  <2>1. file \in Seq(Chunk)
    BY DEF TypeOK
  <2>2. ASSUME NEW t \in Threads
        PROVE  Append(file, Bare("torn", t)) \in Seq(Chunk)
    BY BareChunk, AppendChunk
  <2> QED
    BY <2>1, <2>2 DEF Die, Torn
<1>2. pstate' \in [Processes -> {"unborn", "loaded", "running", "exiting"} \cup Ended]
  BY DEF TypeOK, Die
<1> QED
  BY <1>1, <1>2 DEF TypeOK, Die, eventVars

\* The initial state is well typed.
LEMMA InitType == Init => TypeOK
  BY OptionAssumption DEF Init, TypeOK, Ended, NoEvent, Finalize, Record

\* Every step keeps every variable in its type.
LEMMA TypeStep == TypeOK /\ EventInv /\ [Next]_vars => TypeOK'
<1> SUFFICES ASSUME TypeOK, EventInv, [Next]_vars
             PROVE  TypeOK'
  OBVIOUS
<1> USE EventKinds
<1>1. ASSUME NEW opened \in BOOLEAN, Initialize(opened)
      PROVE  TypeOK'
  <2>1. file' \in Seq(Chunk)
    <3> DEFINE h == Bare("header", MainOf[Root])
    <3>1. h \in Chunk
      BY BareChunk
    <3> HIDE DEF h
    <3>2. <<h>> \in Seq(Chunk)
      BY <3>1
    <3>3. file' = <<h>> \/ file' = file
      BY <1>1 DEF Initialize, h
    <3> QED
      BY <3>2, <3>3 DEF TypeOK
  <2>2. disable' \in [Processes -> BOOLEAN] /\ monitor' \in [Threads -> BOOLEAN]
    BY <1>1 DEF Initialize, TypeOK, InitialDisable, MonitorsFunctions, OptionSpace
  <2> QED
    BY <1>1, <2>1, <2>2 DEF Initialize, TypeOK
<1>2. ASSUME NEW t \in Threads, Runtime(t) \/ Program(t)
      PROVE  TypeOK'
  <2>1. ASSUME NEW f \in Functions, FunctionEntry(t, f)
        PROVE  TypeOK'
    <3>1. EntryCount(t, f) \in Nat /\ EntryStash(t, f) \in BOOLEAN
      BY DEF EntryCount, EntryStash, TypeOK
    <3>2. Append(stack[t], f) \in Seq(Functions)
      BY DEF TypeOK
    <3>3. stack' \in [Threads -> Seq(Functions)]
      BY <2>1, <3>2 DEF FunctionEntry, TypeOK
    <3>4. /\ ev' \in [Threads -> Record \cup {NoEvent, Finalize}]
          /\ count' \in [Threads -> Nat] /\ stash' \in [Threads -> BOOLEAN]
          /\ disable' \in [Processes -> BOOLEAN]
      BY <2>1, <3>1 DEF FunctionEntry, Blank, TypeOK
    <3> QED
      BY <2>1, <3>3, <3>4 DEF FunctionEntry, Blank, TypeOK
  <2>2. CASE FunctionExit(t)
    <3>1. stack[t] \in Seq(Functions) /\ stack[t] # <<>>
      BY <2>2 DEF FunctionExit, TypeOK
    <3>2. /\ Top(stack[t]) \in Functions
          /\ SubSeq(stack[t], 1, Len(stack[t]) - 1) \in Seq(Functions)
      BY <3>1 DEF Top
    <3>3. stack' \in [Threads -> Seq(Functions)]
      BY <2>2, <3>2 DEF FunctionExit, TypeOK
    <3>4. \A f \in Functions : ExitCount(t, f) \in Nat /\ ExitStash(t, f) \in BOOLEAN
      BY DEF ExitCount, ExitStash, TypeOK
    <3>5. /\ ev' \in [Threads -> Record \cup {NoEvent, Finalize}]
          /\ count' \in [Threads -> Nat] /\ stash' \in [Threads -> BOOLEAN]
          /\ disable' \in [Processes -> BOOLEAN]
      BY <2>2, <3>2, <3>4 DEF FunctionExit, Blank, TypeOK
    <3> QED
      BY <2>2, <3>3, <3>5 DEF FunctionExit, Blank, TypeOK
  <2>3. CASE Restore(t)
    BY <2>3 DEF Restore, TypeOK, logVars
  <2>4. CASE Access(t)
    BY <2>4 DEF Access, TypeOK, procVars, eventVars, logVars
  <2>5. CASE EventSkipped(t)
    BY <2>5 DEF EventSkipped, TypeOK, procVars, eventVars, logVars
  <2>6. CASE RecordFaults(t) \/ WriteAborts(t) \/ Terminate(t)
    BY <2>6, DieType DEF RecordFaults, WriteAborts, Terminate, Ended
  <2>7. CASE RecordEvent(t)
    <3>1. ev[t] \in Record
      BY <2>7 DEF RecordEvent, At, EventInv
    <3>2. /\ Append(buf[t], ev[t]) \in Seq(Record) /\ <<>> \in Seq(Record)
          /\ Append(recorded[t], ev[t]) \in Seq(Record)
      BY <3>1 DEF TypeOK
    <3>3. recorded' \in [Threads -> Seq(Record)]
      BY <2>7, <3>2 DEF RecordEvent, TypeOK
    <3>4. buf' \in [Threads -> Seq(Record)]
      BY <2>7, <3>2 DEF RecordEvent, TypeOK
    <3> QED
      BY <2>7, <3>3, <3>4 DEF RecordEvent, TypeOK, procVars, eventVars
  <2>8. CASE WriteSize(t)
    <3>1. file' \in Seq(Chunk)
      BY <2>8, BlockChunks, AppendChunk DEF WriteSize, Appended, TypeOK
    <3> QED
      BY <2>8, <3>1 DEF WriteSize, TypeOK, eventVars
  <2>9. CASE WriteBody(t)
    <3>1. file' \in Seq(Chunk)
      BY <2>9, BlockChunks, AppendChunk DEF WriteBody, Appended, TypeOK
    <3>2. durable[t] \o buf[t] \in Seq(Record)
      BY DEF TypeOK
    <3>3. durable' \in [Threads -> Seq(Record)]
      BY <2>9, <3>2 DEF WriteBody, TypeOK
    <3> QED
      BY <2>9, <3>1, <3>3 DEF WriteBody, TypeOK, eventVars, procVars
  <2>10. CASE UnlockAndReset(t)
    <3>1. <<>> \in Seq(Record) /\ AfterFlush(t) \in {"close", "code"}
      BY DEF AfterFlush
    <3>2. buf' \in [Threads -> Seq(Record)] /\ pc' = [pc EXCEPT ![t] = AfterFlush(t)]
      BY <2>10, <3>1 DEF UnlockAndReset, UnlockAs, TypeOK
    <3>3. /\ mutex' \in [Processes -> Threads \cup {NoThread}]
          /\ pc' \in [Threads ->
             {"code", "restore", "gate", "lock", "body", "unlock", "close", "ended"}]
      BY <2>10, <3>1, <3>2 DEF UnlockAndReset, UnlockAs, TypeOK
    <3>4. UNCHANGED <<flags, pstate, disable, fd, ev, ready, monitor, count, stash, stack,
                      file, recorded, durable>>
      BY <2>10 DEF UnlockAndReset, UnlockAs, eventVars, logVars
    <3> QED
      BY <3>2, <3>3, <3>4 DEF TypeOK
  <2>11. CASE Exit(t)
    <3>1. buf' \in [Threads -> Seq(Record)]
      <4>1. <<>> \in Seq(Record)
        OBVIOUS
      <4> QED
        BY <2>11, <4>1 DEF Exit, TypeOK
    <3> QED
      BY <2>11, <3>1 DEF Exit, TypeOK, eventVars, logVars
  <2>12. CASE Close(t)
    BY <2>12 DEF Close, TypeOK, eventVars, logVars
  <2>13. CASE Enable(t) \/ Disable(t)
    <3>1. PICK value \in BOOLEAN : Toggle(t, value)
      BY <2>13 DEF Enable, Disable
    <3>2. disable' \in [Processes -> BOOLEAN]
      BY <3>1 DEF Toggle, TypeOK
    <3> QED
      BY <3>1, <3>2 DEF Toggle, TypeOK, eventVars, logVars
  <2>14. ASSUME NEW c \in Processes, Fork(t, c)
         PROVE  TypeOK'
    <3>1. /\ MainOf[c] \in Threads /\ ProcOf[t] \in Processes
          /\ <<>> \in Seq(Record)
      OBVIOUS
    <3>2. buf' \in [Threads -> Seq(Record)] /\ stack' \in [Threads -> Seq(Functions)]
      BY <2>14, <3>1 DEF Fork, ChildBuffer, TypeOK
    <3>3. pstate' \in [Processes -> {"unborn", "loaded", "running", "exiting"} \cup Ended]
      BY <2>14 DEF Fork, TypeOK
    <3> QED
      BY <2>14, <3>1, <3>2, <3>3 DEF Fork, TypeOK, logVars
  <2> QED
    BY <1>2, <2>1, <2>2, <2>3, <2>4, <2>5, <2>6, <2>7, <2>8, <2>9, <2>10,
       <2>11, <2>12, <2>13, <2>14 DEF Runtime, Emptying, Program
<1>3. ASSUME NEW p \in Processes, Kill(p)
      PROVE  TypeOK'
  BY <1>3, DieType DEF Kill, Ended
<1>4. CASE AllEnded \/ UNCHANGED vars
  BY <1>4 DEF AllEnded, vars, TypeOK
<1> QED
  BY <1>1, <1>2, <1>3, <1>4 DEF Next

-----------------------------------------------------------------------------
\* What ending a process, or a step of the program that stays outside the
\* buffer, leaves alone.
LEMMA DieUnchanged ==
  ASSUME NEW p \in Processes, NEW how \in Ended, Die(p, how), TypeOK
  PROVE  /\ UNCHANGED <<fd, mutex, pc, ev, buf, recorded, durable, monitor, count, stack>>
         /\ pstate' = [pstate EXCEPT ![p] = how]
         /\ how \notin {"unborn", "loaded"}
  BY DEF Die, eventVars, Ended

\* A thread inside its critical section holds its process's write_mutex, so
\* no other thread of the process can be inside.
LEMMA HolderStep == IInv /\ [Next]_vars => HolderInv'
<1> SUFFICES ASSUME IInv, [Next]_vars
             PROVE  HolderInv'
  OBVIOUS
<1> USE DEF IInv
<1>1. ASSUME NEW opened \in BOOLEAN, Initialize(opened)
      PROVE  HolderInv'
  BY <1>1 DEF Initialize, HolderInv, Critical
<1>2. ASSUME NEW t \in Threads, Runtime(t) \/ Program(t)
      PROVE  HolderInv'
  <2>1. CASE (\E f \in Functions : FunctionEntry(t, f)) \/ FunctionExit(t) \/ Access(t)
    <3>1. mutex' = mutex /\ pc'[t] \in {"restore", "gate"} /\ \A u \in Threads \ {t} : pc'[u] = pc[u]
      <4>1. CASE (\E f \in Functions : FunctionEntry(t, f)) \/ FunctionExit(t)
        BY <4>1 DEF FunctionEntry, FunctionExit, Blank, TypeOK
      <4>2. CASE Access(t)
        BY <4>2 DEF Access, TypeOK, procVars
      <4> QED
        BY <2>1, <4>1, <4>2
    <3> QED
      BY <3>1 DEF HolderInv, Critical
  <2>2. CASE Restore(t) \/ EventSkipped(t)
    BY <2>2 DEF Restore, EventSkipped, HolderInv, Critical, TypeOK, procVars
  <2>3. CASE RecordFaults(t) \/ WriteAborts(t) \/ Terminate(t)
    BY <2>3, DieUnchanged DEF RecordFaults, WriteAborts, Terminate, Ended,
                              HolderInv, Critical, TypeOK
  <2>4. CASE RecordEvent(t)
    BY <2>4 DEF RecordEvent, HolderInv, Critical, TypeOK, procVars
  <2>5. CASE WriteSize(t)
    \* The mutex was free, so no thread of the process was inside.
    <3>1. /\ mutex[ProcOf[t]] = NoThread /\ mutex' = [mutex EXCEPT ![ProcOf[t]] = t]
          /\ pc' = [pc EXCEPT ![t] = "body"]
      BY <2>5 DEF WriteSize
    <3>2. \A u \in Threads : Critical(u) => ProcOf[u] # ProcOf[t]
      BY <3>1, NoThreadAssumption DEF HolderInv
    <3> QED
      BY <3>1, <3>2 DEF HolderInv, Critical, TypeOK
  <2>6. CASE WriteBody(t)
    BY <2>6 DEF WriteBody, At, HolderInv, Critical, TypeOK, procVars
  <2>7. CASE UnlockAndReset(t)
    \* Another thread inside would hold the mutex that t holds.
    BY <2>7 DEF UnlockAndReset, UnlockAs, AfterFlush, At, HolderInv, Critical, TypeOK
  <2>8. CASE Exit(t) \/ Close(t)
    <3>1. /\ mutex' = mutex /\ pc'[t] \in {"lock", "ended"}
          /\ \A u \in Threads \ {t} : pc'[u] = pc[u]
      <4>1. CASE Exit(t)
        BY <4>1 DEF Exit, TypeOK
      <4>2. CASE Close(t)
        BY <4>2 DEF Close, TypeOK
      <4> QED
        BY <2>8, <4>1, <4>2
    <3> QED
      BY <3>1 DEF HolderInv, Critical
  <2>9. CASE Enable(t) \/ Disable(t)
    BY <2>9 DEF Enable, Disable, Toggle, HolderInv, Critical, TypeOK
  <2>10. ASSUME NEW c \in Processes, Fork(t, c)
         PROVE  HolderInv'
    \* The threads of the child are not inside: it had not started.
    <3>1. \A u \in Threads : ProcOf[u] = c => ~Critical(u)
      BY <2>10 DEF Fork, FreshInv, Critical
    <3> QED
      BY <2>10, <3>1 DEF Fork, HolderInv, Critical, TypeOK
  <2> QED
    BY <1>2, <2>1, <2>2, <2>3, <2>4, <2>5, <2>6, <2>7, <2>8, <2>9, <2>10
       DEF Runtime, Emptying, Program
<1>3. ASSUME NEW p \in Processes, Kill(p)
      PROVE  HolderInv'
  BY <1>3, DieUnchanged DEF Kill, Ended, HolderInv, Critical
<1>4. CASE AllEnded \/ UNCHANGED vars
  BY <1>4 DEF AllEnded, vars, HolderInv, Critical
<1> QED
  BY <1>1, <1>2, <1>3, <1>4 DEF Next

\* A thread that is about to store a record has an event record to store.
LEMMA EventStep == IInv /\ [Next]_vars => EventInv'
<1> SUFFICES ASSUME IInv, [Next]_vars
             PROVE  EventInv'
  OBVIOUS
<1> USE DEF IInv
<1> USE EventKinds
<1>1. ASSUME NEW opened \in BOOLEAN, Initialize(opened)
      PROVE  EventInv'
  BY <1>1 DEF Initialize, EventInv
<1>2. ASSUME NEW t \in Threads, Runtime(t) \/ Program(t)
      PROVE  EventInv'
  <2>1. ASSUME NEW f \in Functions, FunctionEntry(t, f)
        PROVE  EventInv'
    BY <2>1 DEF FunctionEntry, Blank, EventInv, TypeOK
  <2>2. CASE FunctionExit(t)
    <3>1. Top(stack[t]) \in Functions
      <4>1. stack[t] \in Seq(Functions) /\ stack[t] # <<>>
        BY <2>2 DEF FunctionExit, TypeOK
      <4> QED
        BY <4>1 DEF Top
    <3> QED
      BY <2>2, <3>1 DEF FunctionExit, Blank, EventInv, TypeOK
  <2>3. CASE Access(t)
    BY <2>3 DEF Access, EventInv, TypeOK
  <2>4. CASE Restore(t)
    BY <2>4 DEF Restore, At, EventInv, TypeOK
  <2>5. CASE RecordFaults(t) \/ WriteAborts(t) \/ Terminate(t)
    BY <2>5, DieUnchanged DEF RecordFaults, WriteAborts, Terminate, Ended, EventInv, TypeOK
  <2>6. CASE EventSkipped(t) \/ RecordEvent(t)
    <3>1. /\ pc'[t] \in {"code", "lock"}
          /\ \A u \in Threads \ {t} : pc'[u] = pc[u] /\ ev'[u] = ev[u]
      BY <2>6 DEF EventSkipped, RecordEvent, TypeOK
    <3> QED
      BY <3>1 DEF EventInv
  <2>7. CASE WriteSize(t) \/ WriteBody(t) \/ UnlockAndReset(t)
    <3>1. /\ ev' = ev /\ pc'[t] \in {"body", "unlock", "close", "code"}
          /\ \A u \in Threads \ {t} : pc'[u] = pc[u]
      <4>1. CASE WriteSize(t) \/ WriteBody(t)
        BY <4>1 DEF WriteSize, WriteBody, TypeOK
      <4>2. CASE UnlockAndReset(t)
        BY <4>2 DEF UnlockAndReset, UnlockAs, AfterFlush, TypeOK
      <4> QED
        BY <2>7, <4>1, <4>2
    <3> QED
      BY <3>1 DEF EventInv
  <2>8. CASE Exit(t) \/ Close(t) \/ Enable(t) \/ Disable(t)
    <3>1. /\ pc'[t] \in {"code", "lock", "ended"}
          /\ \A u \in Threads \ {t} : pc'[u] = pc[u] /\ ev'[u] = ev[u]
      <4>1. CASE Exit(t)
        BY <4>1 DEF Exit, TypeOK
      <4>2. CASE Close(t)
        BY <4>2 DEF Close, TypeOK
      <4>3. CASE Enable(t) \/ Disable(t)
        BY <4>3 DEF Enable, Disable, Toggle, At
      <4> QED
        BY <2>8, <4>1, <4>2, <4>3
    <3> QED
      BY <3>1 DEF EventInv
  <2>9. ASSUME NEW c \in Processes, Fork(t, c)
        PROVE  EventInv'
    BY <2>9 DEF Fork, EventInv
  <2> QED
    BY <1>2, <2>1, <2>2, <2>3, <2>4, <2>5, <2>6, <2>7, <2>8, <2>9
       DEF Runtime, Emptying, Program
<1>3. ASSUME NEW p \in Processes, Kill(p)
      PROVE  EventInv'
  BY <1>3, DieUnchanged DEF Kill, Ended, EventInv
<1>4. CASE AllEnded \/ UNCHANGED vars
  BY <1>4 DEF AllEnded, vars, EventInv
<1> QED
  BY <1>1, <1>2, <1>3, <1>4 DEF Next

\* Ending a process starts none.
LEMMA FreshDie ==
  ASSUME NEW p \in Processes, NEW how \in Ended, Die(p, how), TypeOK, FreshInv
  PROVE  FreshInv'
<1>1. \A q \in Processes : pstate'[q] \in {"unborn", "loaded"} => pstate'[q] = pstate[q]
  BY DieUnchanged DEF TypeOK
<1>2. UNCHANGED <<pc, buf, recorded, durable, monitor, count, stack>>
  BY DieUnchanged
<1> QED
  BY <1>1, <1>2 DEF FreshInv

\* A process that has not started has recorded nothing and runs nothing.
LEMMA FreshStep == IInv /\ [Next]_vars => FreshInv'
<1> SUFFICES ASSUME IInv, [Next]_vars
             PROVE  FreshInv'
  OBVIOUS
<1> USE DEF IInv
<1>1. ASSUME NEW opened \in BOOLEAN, Initialize(opened)
      PROVE  FreshInv'
  BY <1>1 DEF Initialize, FreshInv, TypeOK
<1>2. ASSUME NEW t \in Threads, Runtime(t) \/ Program(t)
      PROVE  FreshInv'
  <2>1. ASSUME NEW c \in Processes, Fork(t, c)
        PROVE  FreshInv'
    BY <2>1 DEF Fork, FreshInv, TypeOK, logVars
  <2>2. CASE RecordFaults(t) \/ WriteAborts(t) \/ Terminate(t)
    <3>1. PICK how \in Ended : Die(ProcOf[t], how)
      BY <2>2 DEF RecordFaults, WriteAborts, Terminate, Ended
    <3> QED
      BY <3>1, FreshDie
  <2>3. CASE ~(\E c \in Processes : Fork(t, c)) /\ ~RecordFaults(t) /\ ~WriteAborts(t) /\ ~Terminate(t)
    \* The thread that steps belongs to a process that runs, and a step of it
    \* changes the state of no other thread.
    <3>1. /\ pstate[ProcOf[t]] \in {"running", "exiting"}
          /\ pstate' = pstate \/ pstate' = [pstate EXCEPT ![ProcOf[t]] = "exiting"]
      <4>1. pstate[ProcOf[t]] \in {"running", "exiting"}
        BY <1>2 DEF Runtime, Emptying, Program, FunctionEntry, FunctionExit, Access,
           Restore, EventSkipped, RecordEvent, RecordFaults, WriteSize, WriteBody, WriteAborts,
           UnlockAndReset, UnlockAs, Terminate, Exit, Close, Enable, Disable, Toggle, Fork,
           At, Live
      <4>2. pstate' = pstate \/ pstate' = [pstate EXCEPT ![ProcOf[t]] = "exiting"]
        BY <1>2, <2>3 DEF Runtime, Emptying, Program, FunctionEntry, FunctionExit, Access,
           Restore, EventSkipped, RecordEvent, WriteSize, WriteBody, UnlockAndReset,
           UnlockAs, Exit, Close, Enable, Disable, Toggle, procVars
      <4> QED
        BY <4>1, <4>2
    <3>2. \A u \in Threads \ {t} :
            /\ pc'[u] = pc[u] /\ buf'[u] = buf[u] /\ monitor'[u] = monitor[u]
            /\ recorded'[u] = recorded[u] /\ durable'[u] = durable[u]
            /\ count'[u] = count[u] /\ stack'[u] = stack[u]
      <4>1. CASE (\E f \in Functions : FunctionEntry(t, f)) \/ FunctionExit(t)
        <5>1. ASSUME NEW f \in Functions, FunctionEntry(t, f)
              PROVE  \A u \in Threads \ {t} :
                       /\ pc'[u] = pc[u] /\ buf'[u] = buf[u] /\ monitor'[u] = monitor[u]
                       /\ recorded'[u] = recorded[u] /\ durable'[u] = durable[u]
                       /\ count'[u] = count[u] /\ stack'[u] = stack[u]
          BY <5>1 DEF FunctionEntry, Blank, TypeOK
        <5>2. CASE FunctionExit(t)
          BY <5>2 DEF FunctionExit, Blank, TypeOK
        <5> QED
          BY <4>1, <5>1, <5>2
      <4>2. CASE Access(t) \/ Restore(t) \/ EventSkipped(t) \/ RecordEvent(t)
        <5>1. CASE Access(t)
          BY <5>1 DEF Access, TypeOK, eventVars, logVars
        <5>2. CASE Restore(t)
          BY <5>2 DEF Restore, TypeOK, eventVars, logVars
        <5>3. CASE EventSkipped(t)
          BY <5>3 DEF EventSkipped, TypeOK, eventVars, logVars
        <5>4. CASE RecordEvent(t)
          BY <5>4 DEF RecordEvent, TypeOK, eventVars, logVars
        <5> QED
          BY <4>2, <5>1, <5>2, <5>3, <5>4
      <4>3. CASE WriteSize(t) \/ WriteBody(t) \/ UnlockAndReset(t)
        <5>1. CASE WriteSize(t)
          BY <5>1 DEF WriteSize, TypeOK, eventVars, logVars
        <5>2. CASE WriteBody(t)
          BY <5>2 DEF WriteBody, TypeOK, eventVars, logVars
        <5>3. CASE UnlockAndReset(t)
          BY <5>3 DEF UnlockAndReset, UnlockAs, TypeOK, eventVars, logVars
        <5> QED
          BY <4>3, <5>1, <5>2, <5>3
      <4>4. CASE Exit(t) \/ Close(t) \/ Enable(t) \/ Disable(t)
        <5>1. CASE Exit(t)
          BY <5>1 DEF Exit, TypeOK, eventVars, logVars
        <5>2. CASE Close(t)
          BY <5>2 DEF Close, TypeOK, eventVars, logVars
        <5>3. CASE Enable(t) \/ Disable(t)
          BY <5>3 DEF Enable, Disable, Toggle, TypeOK, eventVars, logVars
        <5> QED
          BY <4>4, <5>1, <5>2, <5>3
      <4> QED
        BY <1>2, <2>3, <4>1, <4>2, <4>3, <4>4 DEF Runtime, Emptying, Program
    <3>3. \A q \in Processes : pstate'[q] \in {"unborn", "loaded"} => pstate'[q] = pstate[q] /\ q # ProcOf[t]
      BY <3>1 DEF TypeOK
    <3> QED
      BY <3>2, <3>3 DEF FreshInv
  <2> QED
    BY <2>1, <2>2, <2>3
<1>3. ASSUME NEW p \in Processes, Kill(p)
      PROVE  FreshInv'
  BY <1>3, FreshDie DEF Kill, Ended
<1>4. CASE AllEnded \/ UNCHANGED vars
  BY <1>4 DEF AllEnded, vars, FreshInv
<1> QED
  BY <1>1, <1>2, <1>3, <1>4 DEF Next

-----------------------------------------------------------------------------
\* A record appended to the buffer is appended to everything recorded.
LEMMA AppendConcat ==
  ASSUME NEW s \in Seq(Record), NEW b \in Seq(Record), NEW e \in Record
  PROVE  Append(s \o b, e) = s \o Append(b, e)
<1>1. /\ s \o b \in Seq(Record) /\ Append(b, e) \in Seq(Record)
      /\ Len(s \o b) = Len(s) + Len(b) /\ Len(Append(b, e)) = Len(b) + 1
      /\ Len(s) \in Nat /\ Len(b) \in Nat
  BY ConcatProperties, AppendProperties
<1>2. /\ Append(s \o b, e) \in Seq(Record) /\ s \o Append(b, e) \in Seq(Record)
      /\ Len(Append(s \o b, e)) = Len(s) + Len(b) + 1
      /\ Len(s \o Append(b, e)) = Len(s) + Len(b) + 1
  BY <1>1, ConcatProperties, AppendProperties
<1>3. ASSUME NEW i \in 1..(Len(s) + Len(b) + 1)
      PROVE  Append(s \o b, e)[i] = (s \o Append(b, e))[i]
  BY <1>1, <1>2
<1> QED
  BY <1>2, <1>3, SeqEqual

\* What a step does to the logs of the other threads: nothing.
LEMMA OthersKept ==
  ASSUME TypeOK, NEW t \in Threads, Runtime(t) \/ Program(t)
  PROVE  \A u \in Threads \ {t} :
           /\ recorded'[u] = recorded[u] /\ durable'[u] = durable[u]
           /\ pc'[u] = pc[u]
           /\ buf'[u] = buf[u] \/ (buf'[u] = <<>> /\ pstate[ProcOf[u]] = "unborn")
<1>1. ASSUME (\E f \in Functions : FunctionEntry(t, f)) \/ FunctionExit(t)
      PROVE  \A u \in Threads \ {t} :
               UNCHANGED <<recorded[u], durable[u], pc[u], buf[u]>>
  BY <1>1 DEF FunctionEntry, FunctionExit, Blank, TypeOK
<1>2. CASE RecordFaults(t) \/ WriteAborts(t) \/ Terminate(t)
  BY <1>2 DEF RecordFaults, WriteAborts, Terminate, Die
<1>3. CASE Access(t) \/ Restore(t) \/ EventSkipped(t) \/ RecordEvent(t)
  <2>1. CASE Access(t)
    BY <2>1 DEF Access, TypeOK, logVars
  <2>2. CASE Restore(t)
    BY <2>2 DEF Restore, TypeOK, logVars
  <2>3. CASE EventSkipped(t)
    BY <2>3 DEF EventSkipped, TypeOK, logVars
  <2>4. CASE RecordEvent(t)
    BY <2>4 DEF RecordEvent, TypeOK, logVars
  <2> QED
    BY <1>3, <2>1, <2>2, <2>3, <2>4
<1>4. CASE WriteSize(t) \/ WriteBody(t) \/ UnlockAndReset(t)
  <2>1. CASE WriteSize(t)
    BY <2>1 DEF WriteSize, TypeOK, logVars
  <2>2. CASE WriteBody(t)
    BY <2>2 DEF WriteBody, TypeOK, logVars
  <2>3. CASE UnlockAndReset(t)
    BY <2>3 DEF UnlockAndReset, UnlockAs, TypeOK, logVars
  <2> QED
    BY <1>4, <2>1, <2>2, <2>3
<1>5. CASE Exit(t) \/ Close(t) \/ Enable(t) \/ Disable(t)
  <2>1. CASE Exit(t)
    BY <2>1 DEF Exit, TypeOK, logVars
  <2>2. CASE Close(t)
    BY <2>2 DEF Close, TypeOK, logVars
  <2>3. CASE Enable(t) \/ Disable(t)
    BY <2>3 DEF Enable, Disable, Toggle, TypeOK, logVars
  <2> QED
    BY <1>5, <2>1, <2>2, <2>3
<1>6. ASSUME NEW c \in Processes, Fork(t, c)
      PROVE  \A u \in Threads \ {t} :
               /\ UNCHANGED <<recorded[u], durable[u], pc[u]>>
               /\ buf'[u] = buf[u] \/ (buf'[u] = <<>> /\ pstate[ProcOf[u]] = "unborn")
  BY <1>6 DEF Fork, ChildBuffer, TypeOK, logVars
<1> QED
  BY <1>1, <1>2, <1>3, <1>4, <1>5, <1>6 DEF Runtime, Emptying, Program

\* A descriptor never becomes open in a process that has started.
LEMMA NoReopen ==
  ASSUME TypeOK, NEW t \in Threads, Runtime(t) \/ Program(t), NEW p \in Processes,
         fd'[p] = "open"
  PROVE  fd[p] = "open" \/ pstate[p] = "unborn"
<1>1. ASSUME NEW c \in Processes, Fork(t, c)
      PROVE  fd[p] = "open" \/ pstate[p] = "unborn"
  BY <1>1 DEF Fork, TypeOK
<1>2. CASE Close(t)
  BY <1>2 DEF Close, TypeOK
<1> QED
  BY <1>1, <1>2 DEF Runtime, Emptying, Program, FunctionEntry, FunctionExit, Access, Restore,
     EventSkipped, RecordEvent, RecordFaults, WriteSize, WriteBody, WriteAborts,
     UnlockAndReset, UnlockAs, Exit, Terminate, Enable, Disable, Toggle, Die, procVars

\* A thread of a process whose file is open keeps durable \o Pending equal to
\* all it recorded, in each of its own steps.
LEMMA OwnLogKept ==
  ASSUME IInv, NEW t \in Threads, Runtime(t) \/ Program(t), fd'[ProcOf[t]] = "open"
  PROVE  recorded'[t] = durable'[t] \o Pending(t)'
<1> USE DEF IInv
<1>1. /\ recorded[t] \in Seq(Record) /\ durable[t] \in Seq(Record) /\ buf[t] \in Seq(Record)
      /\ t \in DOMAIN pc /\ t \in DOMAIN buf /\ t \in DOMAIN recorded /\ t \in DOMAIN durable
  BY DEF TypeOK
<1>2. durable[t] \o <<>> = durable[t]
  BY <1>1
<1>3. CASE pstate[ProcOf[t]] \notin {"running", "exiting"}
  \* Such a thread does not step.
  BY <1>3 DEF Runtime, Emptying, Program, FunctionEntry, FunctionExit, Access, Restore,
     EventSkipped, RecordEvent, RecordFaults, WriteSize, WriteBody, WriteAborts,
     UnlockAndReset, UnlockAs, Exit, Close, Terminate, Enable, Disable, Toggle, Fork, At, Live
<1>4. CASE pstate[ProcOf[t]] \in {"running", "exiting"}
  <2>1. fd[ProcOf[t]] = "open"
    BY <1>4, NoReopen
  <2>2. recorded[t] = durable[t] \o Pending(t)
    BY <2>1 DEF NothingLost
  <2>3. ASSUME NEW f \in Functions, FunctionEntry(t, f)
        PROVE  recorded'[t] = durable'[t] \o Pending(t)'
    BY <2>2, <2>3, <1>1 DEF FunctionEntry, Blank, At, Pending
  <2>4. CASE FunctionExit(t)
    BY <2>2, <2>4, <1>1 DEF FunctionExit, Blank, At, Pending
  <2>5. CASE Access(t) \/ Restore(t) \/ EventSkipped(t)
    BY <2>2, <2>5, <1>1 DEF Access, Restore, EventSkipped, At, Pending, logVars
  <2>6. CASE RecordFaults(t) \/ WriteAborts(t) \/ Terminate(t)
    BY <2>2, <2>6 DEF RecordFaults, WriteAborts, Terminate, Die, Pending
  <2>7. CASE RecordEvent(t)
    <3>1. /\ buf'[t] = Append(buf[t], ev[t])
          /\ pc'[t] # "unlock" /\ pc[t] # "unlock"
          /\ recorded'[t] = Append(recorded[t], ev[t])
          /\ durable'[t] = durable[t]
      BY <2>1, <2>7, <1>1 DEF RecordEvent, At
    <3>2. ev[t] \in Record
      BY <2>7 DEF RecordEvent, At, EventInv
    <3>3. recorded'[t] = Append(durable[t] \o buf[t], ev[t])
      <4>1. Pending(t) = buf[t]
        BY <3>1 DEF Pending
      <4>2. recorded[t] = durable[t] \o buf[t]
        BY <2>2, <4>1
      <4> QED
        BY <3>1, <4>2
    <3>4. Append(durable[t] \o buf[t], ev[t]) = durable[t] \o Append(buf[t], ev[t])
      <4>1. durable[t] \in Seq(Record) /\ buf[t] \in Seq(Record)
        BY <1>1
      <4> QED
        BY <3>2, <4>1, AppendConcat
    <3> QED
      BY <3>1, <3>3, <3>4 DEF Pending
  <2>8. CASE WriteSize(t)
    BY <2>2, <2>8, <1>1 DEF WriteSize, At, Pending
  <2>9. CASE WriteBody(t)
    \* The body holds the whole buffer, and nothing is pending until the reset.
    <3>1. /\ pc[t] = "body" /\ pc'[t] = "unlock" /\ recorded'[t] = recorded[t]
          /\ durable'[t] = durable[t] \o buf[t]
      BY <2>1, <2>9, <1>1 DEF WriteBody, At
    <3>2. (durable[t] \o buf[t]) \o <<>> = durable[t] \o buf[t]
      BY <1>1
    <3> QED
      BY <2>2, <3>1, <3>2 DEF Pending
  <2>10. CASE UnlockAndReset(t)
    BY <2>2, <2>10, <1>1 DEF UnlockAndReset, UnlockAs, AfterFlush, At, Pending, logVars
  <2>11. CASE Exit(t)
    BY <2>1, <2>2, <2>11, <1>1 DEF Exit, At, Pending, logVars
  <2>12. CASE Close(t)
    BY <2>1, <2>12 DEF Close, TypeOK
  <2>13. CASE Enable(t) \/ Disable(t)
    BY <2>2, <2>13 DEF Enable, Disable, Toggle, Pending, logVars
  <2>14. ASSUME NEW c \in Processes, Fork(t, c)
         PROVE  recorded'[t] = durable'[t] \o Pending(t)'
    <3>1. t # MainOf[c]
      BY <1>4, <2>14 DEF Fork
    <3> QED
      BY <2>2, <2>14, <3>1 DEF Fork, Pending, TypeOK, logVars
  <2> QED
    BY <2>3, <2>4, <2>5, <2>6, <2>7, <2>8, <2>9, <2>10, <2>11, <2>12, <2>13, <2>14
       DEF Runtime, Emptying, Program
<1> QED
  BY <1>3, <1>4

\* No step loses, repeats or reorders a record of a thread whose file is open.
LEMMA NothingLostStep == IInv /\ [Next]_vars => NothingLost'
<1> SUFFICES ASSUME IInv, [Next]_vars, NEW u \in Threads, fd'[ProcOf[u]] = "open"
             PROVE  recorded'[u] = durable'[u] \o Pending(u)'
  BY DEF NothingLost, Pending
<1> USE DEF IInv
<1>1. ASSUME NEW opened \in BOOLEAN, Initialize(opened)
      PROVE  recorded'[u] = durable'[u] \o Pending(u)'
  <2>1. CASE ProcOf[u] = Root
    <3>1. <<>> \o <<>> = <<>>
      OBVIOUS
    <3> QED
      BY <1>1, <2>1, <3>1 DEF Initialize, FreshInv, Pending
  <2>2. CASE ProcOf[u] # Root
    <3>1. fd[ProcOf[u]] = "open"
      BY <1>1, <2>2 DEF Initialize, TypeOK
    <3> QED
      BY <1>1, <3>1 DEF Initialize, NothingLost, Pending
  <2> QED
    BY <2>1, <2>2
<1>2. ASSUME NEW t \in Threads, Runtime(t) \/ Program(t)
      PROVE  recorded'[u] = durable'[u] \o Pending(u)'
  <2>1. CASE t = u
    BY <1>2, <2>1, OwnLogKept
  <2>2. CASE t # u /\ pstate[ProcOf[u]] = "unborn"
    <3>1. /\ pc'[u] = "code" /\ recorded'[u] = <<>> /\ durable'[u] = <<>> /\ buf'[u] = <<>>
      BY <1>2, <2>2, OthersKept DEF FreshInv
    <3>2. <<>> \o <<>> = <<>>
      OBVIOUS
    <3> QED
      BY <3>1, <3>2 DEF Pending
  <2>3. CASE t # u /\ pstate[ProcOf[u]] # "unborn"
    <3>1. fd[ProcOf[u]] = "open"
      BY <1>2, <2>3, NoReopen
    <3>2. UNCHANGED <<recorded[u], durable[u], pc[u], buf[u]>>
      BY <1>2, <2>3, OthersKept
    <3> QED
      BY <3>1, <3>2 DEF NothingLost, Pending
  <2> QED
    BY <2>1, <2>2, <2>3
<1>3. ASSUME NEW p \in Processes, Kill(p)
      PROVE  recorded'[u] = durable'[u] \o Pending(u)'
  BY <1>3 DEF Kill, Die, NothingLost, Pending
<1>4. CASE AllEnded \/ UNCHANGED vars
  BY <1>4 DEF AllEnded, vars, NothingLost, Pending
<1> QED
  BY <1>1, <1>2, <1>3, <1>4 DEF Next

-----------------------------------------------------------------------------
\* The cursor of a thread stays within its buffer, in each of its own steps.
LEMMA OwnBufferBound ==
  ASSUME IInv, NEW t \in Threads, Runtime(t) \/ Program(t)
  PROVE  /\ Len(buf'[t]) <= BufSize - 1
         /\ pc'[t] \in {"code", "restore", "gate"} => ~Full(buf'[t])
<1> USE DEF IInv
<1>1. /\ buf[t] \in Seq(Record) /\ Len(buf[t]) \in Nat /\ Len(<<>>) = 0
      /\ t \in DOMAIN pc /\ t \in DOMAIN buf
      /\ BufSize \in Nat /\ BufSize >= 2
  BY BufferAssumption DEF TypeOK
<1>2. /\ Len(buf[t]) <= BufSize - 1
      /\ pc[t] \in {"code", "restore", "gate"} => ~Full(buf[t])
      /\ ~Full(<<>>)
  BY <1>1 DEF BufferBound, Full
<1>3. CASE FunctionExit(t) \/ \E f \in Functions : FunctionEntry(t, f)
  BY <1>2, <1>3 DEF FunctionExit, FunctionEntry, At
<1>4. CASE Access(t) \/ Restore(t) \/ EventSkipped(t)
  BY <1>2, <1>4 DEF Access, Restore, EventSkipped, At
<1>5. CASE RecordFaults(t) \/ WriteAborts(t) \/ Terminate(t)
  BY <1>2, <1>5 DEF RecordFaults, WriteAborts, Terminate, Die
<1>6. CASE RecordEvent(t)
  \* The buffer was not full, so it has room; if it is full now, the thread
  \* goes on to empty it.
  <2>1. ev[t] \in Record /\ ~Full(buf[t])
    BY <1>2, <1>6 DEF RecordEvent, At, EventInv
  <2>2. Len(Append(buf[t], ev[t])) = Len(buf[t]) + 1
    BY <1>1, <2>1
  <2>3. Len(Append(buf[t], ev[t])) <= BufSize - 1
    BY <1>1, <1>2, <2>1, <2>2 DEF Full
  <2>4. \/ buf'[t] = <<>>
        \/ buf'[t] = Append(buf[t], ev[t]) /\ (Full(buf'[t]) => pc'[t] = "lock")
    BY <1>1, <1>6 DEF RecordEvent
  <2>5. CASE buf'[t] = <<>>
    BY <1>1, <1>2, <2>5
  <2>6. CASE buf'[t] # <<>>
    BY <2>3, <2>4, <2>6
  <2> QED
    BY <2>5, <2>6
<1>7. CASE WriteSize(t) \/ WriteBody(t)
  BY <1>1, <1>2, <1>7 DEF WriteSize, WriteBody
<1>8. CASE UnlockAndReset(t)
  BY <1>1, <1>2, <1>8 DEF UnlockAndReset, UnlockAs
<1>9. CASE Exit(t)
  <2>1. buf'[t] = <<>> \/ (buf'[t] = buf[t] /\ pc'[t] \in {"ended", "lock"})
    BY <1>1, <1>9 DEF Exit
  <2> QED
    BY <1>1, <1>2, <2>1
<1>10. CASE Close(t) \/ Enable(t) \/ Disable(t)
  BY <1>1, <1>2, <1>10 DEF Close, Enable, Disable, Toggle
<1>11. ASSUME NEW c \in Processes, Fork(t, c)
       PROVE  /\ Len(buf'[t]) <= BufSize - 1
              /\ pc'[t] \in {"code", "restore", "gate"} => ~Full(buf'[t])
  <2>1. buf'[t] = buf[t] \/ buf'[t] = <<>>
    BY <1>1, <1>11 DEF Fork, ChildBuffer
  <2>2. pc'[t] = pc[t]
    BY <1>11 DEF Fork
  <2> QED
    BY <1>1, <1>2, <2>1, <2>2
<1> QED
  BY <1>2, <1>3, <1>4, <1>5, <1>6, <1>7, <1>8, <1>9, <1>10, <1>11
     DEF Runtime, Emptying, Program

\* No step moves a cursor past the last slot of its buffer.
LEMMA BufferStep == IInv /\ [Next]_vars => BufferBound'
<1> SUFFICES ASSUME IInv, [Next]_vars, NEW u \in Threads
             PROVE  /\ Len(buf'[u]) <= BufSize - 1
                    /\ pc'[u] \in {"code", "restore", "gate"} => ~Full(buf'[u])
  BY DEF BufferBound, Full
<1> USE DEF IInv
<1>1. /\ Len(buf[u]) <= BufSize - 1
      /\ pc[u] \in {"code", "restore", "gate"} => ~Full(buf[u])
      /\ Len(<<>>) <= BufSize - 1 /\ ~Full(<<>>)
  BY BufferAssumption DEF BufferBound, Full
<1>2. ASSUME NEW t \in Threads, Runtime(t) \/ Program(t)
      PROVE  /\ Len(buf'[u]) <= BufSize - 1
             /\ pc'[u] \in {"code", "restore", "gate"} => ~Full(buf'[u])
  <2>1. CASE t = u
    BY <1>2, <2>1, OwnBufferBound
  <2>2. CASE t # u
    <3>1. pc'[u] = pc[u] /\ (buf'[u] = buf[u] \/ buf'[u] = <<>>)
      BY <1>2, <2>2, OthersKept
    <3> QED
      BY <1>1, <3>1
  <2> QED
    BY <2>1, <2>2
<1>3. CASE \/ \E opened \in BOOLEAN : Initialize(opened)
           \/ \E p \in Processes : Kill(p)
           \/ AllEnded \/ UNCHANGED vars
  BY <1>1, <1>3 DEF Initialize, Kill, Die, AllEnded, vars
<1> QED
  BY <1>2, <1>3 DEF Next

\* The inductive invariant holds initially.
LEMMA InitIInv == Init => IInv
<1> SUFFICES ASSUME Init PROVE IInv
  OBVIOUS
<1>1. TypeOK
  BY InitType
<1>2. HolderInv /\ EventInv
  BY DEF Init, HolderInv, EventInv, Critical
<1>3. FreshInv
  BY DEF Init, FreshInv
<1>4. NothingLost
  BY DEF Init, NothingLost
<1>5. BufferBound
  <2>1. Len(<<>>) <= BufSize - 1 /\ ~Full(<<>>)
    BY BufferAssumption DEF Full
  <2> QED
    BY <2>1 DEF Init, BufferBound
<1> QED
  BY <1>1, <1>2, <1>3, <1>4, <1>5 DEF IInv

\* IInv is an invariant of the runtime: the buffers, the lock and the trace
\* file of every process stay in the relation the properties below need.
THEOREM Invariance == Spec => []IInv
<1>1. IInv /\ [Next]_vars => IInv'
  <2> SUFFICES ASSUME IInv, [Next]_vars PROVE IInv'
    OBVIOUS
  <2>1. TypeOK'
    BY TypeStep DEF IInv
  <2> QED
    BY <2>1, HolderStep, EventStep, FreshStep, NothingLostStep, BufferStep DEF IInv
<1> QED
  BY InitIInv, <1>1, PTL DEF Spec

\* Every variable keeps its type.
THEOREM TypeCorrect == Spec => []TypeOK
<1>1. IInv => TypeOK
  BY DEF IInv
<1> QED
  BY Invariance, <1>1, PTL

\* Two threads of a process are never both between taking and releasing
\* write_mutex in __mema_empty_buffer.
THEOREM MutualExclusionHolds == Spec => []MutualExclusion
<1>1. IInv => MutualExclusion
  BY DEF IInv, HolderInv, MutualExclusion
<1> QED
  BY Invariance, <1>1, PTL

\* While the trace file is open nothing a thread recorded is lost or repeated.
THEOREM NothingLostHolds == Spec => []NothingLost
<1>1. IInv => NothingLost
  BY DEF IInv
<1> QED
  BY Invariance, <1>1, PTL

\* A record is only stored in a slot of the buffer.
THEOREM BufferBoundHolds == Spec => []BufferBound
<1>1. IInv => BufferBound
  BY DEF IInv
<1> QED
  BY Invariance, <1>1, PTL

-----------------------------------------------------------------------------
\* The number of monitored frames is a number.
LEMMA FramesFinite ==
  ASSUME NEW s \in Seq(Functions)
  PROVE  IsFiniteSet(MonitoredFrames(s)) /\ Cardinality(MonitoredFrames(s)) \in Nat
<1>1. IsFiniteSet(1..Len(s))
  BY FS_Interval
<1>2. MonitoredFrames(s) \subseteq 1..Len(s)
  BY DEF MonitoredFrames
<1> QED
  BY <1>1, <1>2, FS_Subset, FS_CardinalityType

\* A call adds a monitored frame exactly when its function is monitored.
LEMMA FramesOfCall ==
  ASSUME NEW s \in Seq(Functions), NEW f \in Functions
  PROVE  Cardinality(MonitoredFrames(Append(s, f))) =
           Cardinality(MonitoredFrames(s)) + (IF f \in Monitored THEN 1 ELSE 0)
<1>1. /\ Len(s) \in Nat /\ Len(Append(s, f)) = Len(s) + 1
      /\ \A i \in 1..Len(s) : Append(s, f)[i] = s[i]
      /\ Append(s, f)[Len(s) + 1] = f
  OBVIOUS
<1>2. CASE f \in Monitored
  <2>1. MonitoredFrames(Append(s, f)) = MonitoredFrames(s) \cup {Len(s) + 1}
    BY <1>1, <1>2 DEF MonitoredFrames
  <2>2. Len(s) + 1 \notin MonitoredFrames(s)
    BY <1>1 DEF MonitoredFrames
  <2> QED
    BY <1>2, <2>1, <2>2, FramesFinite, FS_AddElement
<1>3. CASE f \notin Monitored
  <2>1. MonitoredFrames(Append(s, f)) = MonitoredFrames(s)
    BY <1>1, <1>3 DEF MonitoredFrames
  <2> QED
    BY <1>3, <2>1, FramesFinite
<1> QED
  BY <1>2, <1>3

\* A return takes the frame of its own function away again.
LEMMA FramesOfReturn ==
  ASSUME NEW s \in Seq(Functions), s # <<>>
  PROVE  /\ SubSeq(s, 1, Len(s) - 1) \in Seq(Functions) /\ Top(s) \in Functions
         /\ Cardinality(MonitoredFrames(s)) =
              Cardinality(MonitoredFrames(SubSeq(s, 1, Len(s) - 1)))
                + (IF Top(s) \in Monitored THEN 1 ELSE 0)
<1> DEFINE front == SubSeq(s, 1, Len(s) - 1)
<1>1. front \in Seq(Functions) /\ Top(s) \in Functions
  BY DEF Top
<1>2. s = Append(front, Top(s))
  <2>1. Len(s) \in 1..Len(s) /\ 1 \in 1..Len(s)
    BY EmptySeq
  <2>2. SubSeq(s, 1, Len(s)) = front \o <<s[Len(s)]>>
    BY <2>1, SubSeqRecursiveSecond
  <2>3. SubSeq(s, 1, Len(s)) = s
    BY SubSeqFull
  <2>4. Append(front, Top(s)) = front \o <<Top(s)>>
    BY <1>1, AppendIsConcat
  <2> QED
    BY <2>2, <2>3, <2>4 DEF Top
<1> HIDE DEF front
<1>3. Cardinality(MonitoredFrames(s)) =
        Cardinality(MonitoredFrames(front)) + (IF Top(s) \in Monitored THEN 1 ELSE 0)
  BY <1>1, <1>2, FramesOfCall
<1> QED
  BY <1>1, <1>3 DEF front

\* A step other than a call, a return, a fork and the initialization leaves
\* every count and call stack alone.
LEMMA StacksKept ==
  ASSUME NEW t \in Threads, Runtime(t) \/ Program(t)
  PROVE  \/ UNCHANGED <<monitor, count, stack>>
         \/ FunctionExit(t) \/ \E f \in Functions : FunctionEntry(t, f)
         \/ \E c \in Processes : Fork(t, c)
  BY DEF Runtime, Emptying, Program, Access, Restore, EventSkipped, RecordEvent,
     RecordFaults, WriteSize, WriteBody, WriteAborts, UnlockAndReset, UnlockAs,
     Exit, Close, Terminate, Enable, Disable, Toggle, Die, eventVars

\* The count of a monitored thread follows its calls, returns and forks.
LEMMA CountStep == IInv /\ MonitorCount /\ [Next]_vars => MonitorCount'
<1> SUFFICES ASSUME IInv, MonitorCount, [Next]_vars, NEW u \in Threads, monitor'[u]
             PROVE  count'[u] = Cardinality(MonitoredFrames(stack'[u]))
  BY DEF MonitorCount, MonitoredFrames
<1> USE DEF IInv
<1>1. ASSUME NEW opened \in BOOLEAN, Initialize(opened)
      PROVE  count'[u] = Cardinality(MonitoredFrames(stack'[u]))
  <2>1. CASE u = MainOf[Root]
    <3>1. count'[u] = 0 /\ stack'[u] = <<>>
      BY <1>1, <2>1 DEF Initialize, FreshInv
    <3>2. MonitoredFrames(<<>>) = {}
      BY DEF MonitoredFrames
    <3> QED
      BY <3>1, <3>2, FS_EmptySet
  <2>2. CASE u # MainOf[Root]
    BY <1>1, <2>2 DEF Initialize, MonitorCount, TypeOK
  <2> QED
    BY <2>1, <2>2
<1>2. ASSUME NEW t \in Threads, Runtime(t) \/ Program(t)
      PROVE  count'[u] = Cardinality(MonitoredFrames(stack'[u]))
  <2>1. CASE UNCHANGED <<monitor, count, stack>>
    BY <2>1 DEF MonitorCount
  <2>2. ASSUME NEW f \in Functions, FunctionEntry(t, f)
        PROVE  count'[u] = Cardinality(MonitoredFrames(stack'[u]))
    <3>1. CASE u = t
      <4>1. /\ monitor[t] /\ count'[t] = EntryCount(t, f) /\ stack'[t] = Append(stack[t], f)
            /\ stack[t] \in Seq(Functions) /\ count[t] \in Nat
        BY <2>2, <3>1 DEF FunctionEntry, Blank, TypeOK
      <4>2. count[t] = Cardinality(MonitoredFrames(stack[t]))
        BY <4>1 DEF MonitorCount
      <4> QED
        BY <3>1, <4>1, <4>2, FramesOfCall DEF EntryCount
    <3>2. CASE u # t
      BY <2>2, <3>2 DEF FunctionEntry, Blank, MonitorCount, TypeOK
    <3> QED
      BY <3>1, <3>2
  <2>3. CASE FunctionExit(t)
    <3>1. CASE u = t
      <4> DEFINE front == SubSeq(stack[t], 1, Len(stack[t]) - 1)
      <4>1. /\ monitor[t] /\ count'[t] = ExitCount(t, Top(stack[t])) /\ stack'[t] = front
            /\ stack[t] \in Seq(Functions) /\ stack[t] # <<>> /\ count[t] \in Nat
        BY <2>3, <3>1 DEF FunctionExit, Blank, TypeOK
      <4>2. count[t] = Cardinality(MonitoredFrames(stack[t]))
        BY <4>1 DEF MonitorCount
      <4>3. Cardinality(MonitoredFrames(stack[t])) =
              Cardinality(MonitoredFrames(front)) + (IF Top(stack[t]) \in Monitored THEN 1 ELSE 0)
        BY <4>1, FramesOfReturn
      <4>4. Cardinality(MonitoredFrames(front)) \in Nat
        BY <4>1, FramesOfReturn, FramesFinite
      <4> HIDE DEF front
      <4> QED
        BY <3>1, <4>1, <4>2, <4>3, <4>4 DEF ExitCount
    <3>2. CASE u # t
      BY <2>3, <3>2 DEF FunctionExit, Blank, MonitorCount, TypeOK
    <3> QED
      BY <3>1, <3>2
  <2>4. ASSUME NEW c \in Processes, Fork(t, c)
        PROVE  count'[u] = Cardinality(MonitoredFrames(stack'[u]))
    <3>1. \E v \in Threads : monitor[v] /\ count'[u] = count[v] /\ stack'[u] = stack[v]
      <4>1. CASE u = MainOf[c]
        BY <2>4, <4>1 DEF Fork, TypeOK
      <4>2. CASE u # MainOf[c]
        BY <2>4, <4>2 DEF Fork, TypeOK
      <4> QED
        BY <4>1, <4>2
    <3> QED
      BY <3>1 DEF MonitorCount
  <2> QED
    BY <1>2, <2>1, <2>2, <2>3, <2>4, StacksKept
<1>3. CASE (\E p \in Processes : Kill(p)) \/ AllEnded \/ UNCHANGED vars
  BY <1>3 DEF Kill, Die, AllEnded, vars, eventVars, MonitorCount
<1> QED
  BY <1>1, <1>2, <1>3 DEF Next

\* monitor_func_entry_count is the number of monitored functions the thread
\* is in, however deep they nest and whatever process it was forked into.
THEOREM MonitorCountHolds == Spec => []MonitorCount
<1>1. Init => MonitorCount
  BY DEF Init, MonitorCount
<1> QED
  BY Invariance, <1>1, CountStep, PTL DEF Spec

-----------------------------------------------------------------------------
\* The settings are read once.
LEMMA FlagsKept == [Next]_vars => flags' = flags
<1> QED
  BY DEF Next, vars, Initialize, Runtime, Program, Emptying, FunctionEntry, FunctionExit,
     Access, Restore, EventSkipped, RecordFaults, RecordEvent, WriteSize, WriteBody, WriteAborts,
     UnlockAndReset, UnlockAs, Exit, Close, Terminate, Fork, Enable, Disable, Toggle, Kill,
     AllEnded, Die

\* What a step leaves alone of what MonitorGate speaks of.
LEMMA GateKept ==
  ASSUME TypeOK, NEW t \in Threads, Runtime(t) \/ Program(t), ~Enable(t), ~Disable(t)
  PROVE  \/ FunctionExit(t) \/ \E f \in Functions : FunctionEntry(t, f)
         \/ Restore(t) \/ \E c \in Processes : Fork(t, c)
         \/ /\ UNCHANGED <<disable, stash, monitor, count>>
            /\ \A u \in Threads : pc'[u] = "restore" <=> pc[u] = "restore"
            /\ \A p \in Processes : pstate'[p] \in {"running", "exiting"} =>
                                      pstate[p] \in {"running", "exiting"}
<1>1. CASE Access(t) \/ EventSkipped(t) \/ RecordEvent(t)
  <2>1. CASE Access(t)
    BY <2>1 DEF Access, At, TypeOK, procVars, eventVars
  <2>2. CASE EventSkipped(t)
    BY <2>2 DEF EventSkipped, At, TypeOK, procVars, eventVars
  <2>3. CASE RecordEvent(t)
    BY <2>3 DEF RecordEvent, At, TypeOK, procVars, eventVars
  <2> QED
    BY <1>1, <2>1, <2>2, <2>3
<1>2. CASE WriteSize(t) \/ WriteBody(t) \/ UnlockAndReset(t)
  <2>1. CASE WriteSize(t)
    BY <2>1 DEF WriteSize, At, TypeOK, procVars, eventVars
  <2>2. CASE WriteBody(t)
    BY <2>2 DEF WriteBody, At, TypeOK, procVars, eventVars
  <2>3. CASE UnlockAndReset(t)
    BY <2>3 DEF UnlockAndReset, UnlockAs, AfterFlush, At, TypeOK, procVars, eventVars
  <2> QED
    BY <1>2, <2>1, <2>2, <2>3
<1>3. CASE RecordFaults(t) \/ WriteAborts(t) \/ Terminate(t)
  <2>1. PICK how \in Ended : Die(ProcOf[t], how)
    BY <1>3 DEF RecordFaults, WriteAborts, Terminate, Ended
  <2> QED
    BY <2>1 DEF Die, Ended, TypeOK, eventVars
<1>4. CASE Exit(t)
  <2>1. /\ pc[t] = "code" /\ pc'[t] \in {"ended", "lock"}
        /\ \A u \in Threads \ {t} : pc'[u] = pc[u]
        /\ \A p \in Processes : pstate'[p] = pstate[p] \/ pstate[p] = "running"
    BY <1>4 DEF Exit, At, TypeOK
  <2> QED
    BY <1>4, <2>1 DEF Exit, eventVars
<1>5. CASE Close(t)
  BY <1>5 DEF Close, At, TypeOK, eventVars
<1> QED
  BY <1>1, <1>2, <1>3, <1>4, <1>5 DEF Runtime, Emptying, Program

\* monitor_func stays with the first thread of a process.
LEMMA MonitorStep == IInv /\ MonitorInv /\ [Next]_vars => MonitorInv'
<1> SUFFICES ASSUME IInv, MonitorInv, [Next]_vars, NEW u \in Threads
             PROVE  /\ monitor'[u] => u = MainOf[ProcOf[u]]
                    /\ pc'[u] = "restore" => monitor'[u]
  BY DEF MonitorInv
<1> USE DEF IInv
<1>1. ASSUME NEW opened \in BOOLEAN, Initialize(opened)
      PROVE  /\ monitor'[u] => u = MainOf[ProcOf[u]]
             /\ pc'[u] = "restore" => monitor'[u]
  BY <1>1 DEF Initialize, FreshInv, MonitorInv, TypeOK
<1>2. ASSUME NEW t \in Threads, Runtime(t) \/ Program(t)
      PROVE  /\ monitor'[u] => u = MainOf[ProcOf[u]]
             /\ pc'[u] = "restore" => monitor'[u]
  <2>1. CASE FunctionExit(t) \/ \E f \in Functions : FunctionEntry(t, f)
    <3>1. /\ monitor' = monitor
          /\ pc' = [pc EXCEPT ![t] = IF monitor[t] THEN "restore" ELSE "gate"]
      BY <2>1 DEF FunctionEntry, FunctionExit, Blank
    <3>2. pc'[u] = "restore" => monitor[u]
      <4>1. CASE u = t
        BY <3>1, <4>1 DEF TypeOK
      <4>2. CASE u # t
        BY <3>1, <4>2 DEF MonitorInv, TypeOK
      <4> QED
        BY <4>1, <4>2
    <3> QED
      BY <3>1, <3>2 DEF MonitorInv
  <2>2. CASE Restore(t)
    BY <2>2 DEF Restore, MonitorInv, TypeOK
  <2>3. ASSUME NEW c \in Processes, Fork(t, c)
        PROVE  /\ monitor'[u] => u = MainOf[ProcOf[u]]
               /\ pc'[u] = "restore" => monitor'[u]
    <3>1. CASE u = MainOf[c]
      <4>1. pc'[u] = "code" /\ u = MainOf[ProcOf[u]]
        BY <2>3, <3>1 DEF Fork, FreshInv
      <4> QED
        BY <4>1
    <3>2. CASE u # MainOf[c]
      BY <2>3, <3>2 DEF Fork, MonitorInv, TypeOK
    <3> QED
      BY <3>1, <3>2
  <2>4. CASE Enable(t) \/ Disable(t)
    BY <2>4 DEF Enable, Disable, Toggle, eventVars, MonitorInv
  <2> QED
    BY <1>2, <2>1, <2>2, <2>3, <2>4, GateKept DEF MonitorInv
<1>3. CASE (\E p \in Processes : Kill(p)) \/ AllEnded \/ UNCHANGED vars
  BY <1>3 DEF Kill, Die, AllEnded, vars, eventVars, MonitorInv
<1> QED
  BY <1>1, <1>2, <1>3 DEF Next

\* Tracing goes on and off with the outermost monitored call.
LEMMA GateStep == IInv /\ MonitorInv /\ MonitorGate /\ [Next]_vars => MonitorGate'
<1> DEFINE G(u) == (IF pc[u] = "restore" THEN stash[u] ELSE disable[ProcOf[u]]) <=> count[u] = 0
           R(p) == pstate[p] \in {"running", "exiting"}
<1> SUFFICES ASSUME IInv, MonitorInv, MonitorGate, [Next]_vars, ~Toggles,
                    NEW u \in Threads, monitor'[u], R(ProcOf[u])'
             PROVE  G(u)'
  BY FlagsKept DEF MonitorGate, Toggles
<1> USE DEF IInv
<1>1. ASSUME NEW v \in Threads, monitor[v], R(ProcOf[v])
      PROVE  G(v)
  BY <1>1 DEF MonitorGate
<1>2. ASSUME NEW opened \in BOOLEAN, Initialize(opened)
      PROVE  G(u)'
  <2>1. CASE ProcOf[u] = Root
    <3>1. count'[u] = 0 /\ pc'[u] = "code"
      BY <1>2, <2>1 DEF Initialize, FreshInv
    <3>2. u = MainOf[Root] /\ MonitorsFunctions
      <4>1. ~monitor[u]
        BY <1>2, <2>1 DEF Initialize, FreshInv
      <4> QED
        BY <1>2, <4>1 DEF Initialize, TypeOK
    <3>3. disable'[ProcOf[u]]
      BY <1>2, <2>1, <3>2 DEF Initialize, InitialDisable, TypeOK
    <3> QED
      BY <3>1, <3>3
  <2>2. CASE ProcOf[u] # Root
    <3>1. u # MainOf[Root]
      BY <2>2
    <3>2. monitor[u] /\ R(ProcOf[u]) /\ disable'[ProcOf[u]] = disable[ProcOf[u]]
      BY <1>2, <2>2, <3>1 DEF Initialize, TypeOK
    <3> QED
      BY <1>1, <1>2, <3>2 DEF Initialize
  <2> QED
    BY <2>1, <2>2
<1>3. ASSUME NEW t \in Threads, Runtime(t) \/ Program(t)
      PROVE  G(u)'
  <2>1. ASSUME NEW f \in Functions, FunctionEntry(t, f)
        PROVE  G(u)'
    <3>1. monitor[u] /\ R(ProcOf[u]) /\ G(u)
      BY <1>1, <2>1 DEF FunctionEntry
    <3>2. CASE u = t
      <4>1. /\ pc[t] = "code" /\ pc'[t] = "restore" /\ count[t] \in Nat
            /\ stash'[t] = EntryStash(t, f) /\ count'[t] = EntryCount(t, f)
        BY <2>1, <3>1, <3>2 DEF FunctionEntry, Blank, At, TypeOK
      <4>2. disable[ProcOf[t]] <=> count[t] = 0
        BY <3>1, <3>2, <4>1
      <4>3. stash'[t] <=> count'[t] = 0
        <5> DEFINE n == EntryCount(t, f)
        <5>1. /\ f \notin Monitored => n = count[t]
              /\ f \in Monitored =>
                   n # 0
          BY <4>1 DEF EntryCount
        <5> HIDE DEF n
        <5>2. EntryStash(t, f) <=> n = 0
          BY <4>2, <5>1, Zenon DEF EntryStash, n
        <5> QED
          BY <4>1, <5>2, Zenon DEF n
      <4> QED
        BY <3>2, <4>1, <4>3
    <3>3. CASE u # t
      <4>1. /\ pc'[u] = pc[u] /\ stash'[u] = stash[u] /\ count'[u] = count[u]
            /\ ProcOf[u] = ProcOf[t] => ~monitor[t]
        BY <2>1, <3>1, <3>3 DEF FunctionEntry, Blank, MonitorInv, TypeOK
      <4>2. disable'[ProcOf[u]] <=> disable[ProcOf[u]]
        BY <2>1, <4>1 DEF FunctionEntry, Blank, TypeOK
      <4> QED
        BY <3>1, <4>1, <4>2
    <3> QED
      BY <3>2, <3>3
  <2>2. CASE FunctionExit(t)
    <3>1. monitor[u] /\ R(ProcOf[u]) /\ G(u)
      BY <1>1, <2>2 DEF FunctionExit
    <3>2. CASE u = t
      <4>1. /\ pc[t] = "code" /\ pc'[t] = "restore" /\ count[t] \in Nat
            /\ stash'[t] = ExitStash(t, Top(stack[t]))
            /\ count'[t] = ExitCount(t, Top(stack[t]))
        BY <2>2, <3>1, <3>2 DEF FunctionExit, Blank, At, TypeOK
      <4>2. disable[ProcOf[t]] <=> count[t] = 0
        BY <3>1, <3>2, <4>1
      <4>3. stash'[t] <=> count'[t] = 0
        <5> DEFINE n == ExitCount(t, Top(stack[t]))
        <5>1. /\ Top(stack[t]) \notin Monitored => n = count[t]
              /\ Top(stack[t]) \in Monitored =>
                   (count[t] = 0 => n = 0)
          BY <4>1 DEF ExitCount
        <5> HIDE DEF n
        <5>2. ExitStash(t, Top(stack[t])) <=> n = 0
          BY <4>2, <5>1, Zenon DEF ExitStash, n
        <5> QED
          BY <4>1, <5>2, Zenon DEF n
      <4> QED
        BY <3>2, <4>1, <4>3
    <3>3. CASE u # t
      <4>1. /\ pc'[u] = pc[u] /\ stash'[u] = stash[u] /\ count'[u] = count[u]
            /\ ProcOf[u] = ProcOf[t] => ~monitor[t]
        BY <2>2, <3>1, <3>3 DEF FunctionExit, Blank, MonitorInv, TypeOK
      <4>2. disable'[ProcOf[u]] <=> disable[ProcOf[u]]
        BY <2>2, <4>1 DEF FunctionExit, Blank, TypeOK
      <4> QED
        BY <3>1, <4>1, <4>2
    <3> QED
      BY <3>2, <3>3
  <2>3. CASE Restore(t)
    <3>1. monitor[u] /\ R(ProcOf[u]) /\ G(u) /\ count'[u] = count[u]
      BY <1>1, <2>3 DEF Restore
    <3>2. CASE u = t
      BY <2>3, <3>1, <3>2 DEF Restore, At, TypeOK
    <3>3. CASE u # t
      \* t restores, so it is the monitored thread of another process.
      <4>1. ProcOf[u] # ProcOf[t]
        BY <2>3, <3>1, <3>3 DEF Restore, At, MonitorInv
      <4> QED
        BY <2>3, <3>1, <3>3, <4>1 DEF Restore, TypeOK
    <3> QED
      BY <3>2, <3>3
  <2>4. ASSUME NEW c \in Processes, Fork(t, c)
        PROVE  G(u)'
    <3>1. CASE ProcOf[u] = c
      <4>1. u = MainOf[c] /\ pc'[u] = "code"
        BY <2>4, <3>1 DEF Fork, FreshInv, TypeOK
      <4>2. /\ monitor[t] /\ count'[u] = count[t] /\ disable'[c] = disable[ProcOf[t]]
            /\ pc[t] = "code" /\ R(ProcOf[t])
        BY <2>4, <4>1 DEF Fork, At, Live, TypeOK
      <4> QED
        BY <1>1, <3>1, <4>1, <4>2
    <3>2. CASE ProcOf[u] # c
      <4>1. /\ monitor[u] /\ R(ProcOf[u]) /\ disable'[ProcOf[u]] = disable[ProcOf[u]]
            /\ pc'[u] = pc[u] /\ stash'[u] = stash[u] /\ count'[u] = count[u]
        BY <2>4, <3>2 DEF Fork, TypeOK
      <4> QED
        BY <1>1, <4>1
    <3> QED
      BY <3>1, <3>2
  <2>5. CASE /\ UNCHANGED <<disable, stash, monitor, count>>
             /\ \A v \in Threads : pc'[v] = "restore" <=> pc[v] = "restore"
             /\ \A p \in Processes : R(p)' => R(p)
    BY <1>1, <2>5
  <2>6. ~Enable(t) /\ ~Disable(t)
    BY DEF Toggles, Enable, Disable, Toggle
  <2> QED
    BY <1>3, <2>1, <2>2, <2>3, <2>4, <2>5, <2>6, GateKept
<1>4. ASSUME NEW p \in Processes, Kill(p)
      PROVE  G(u)'
  <2>1. R(ProcOf[u]) /\ UNCHANGED <<disable, stash, monitor, count, pc>>
    BY <1>4 DEF Kill, Die, eventVars, TypeOK
  <2> QED
    BY <1>1, <2>1
<1>5. CASE AllEnded \/ UNCHANGED vars
  BY <1>1, <1>5 DEF AllEnded, vars
<1> QED
  BY <1>2, <1>3, <1>4, <1>5 DEF Next

\* With a function option that matches, and while the program makes no
\* __mema_enable or __mema_disable call, tracing is on exactly inside the
\* monitored functions.
THEOREM MonitorGateHolds == Spec => []MonitorGate
<1>1. Init => MonitorInv /\ MonitorGate
  BY DEF Init, MonitorInv, MonitorGate
<1>2. IInv /\ MonitorInv /\ MonitorGate /\ [Next]_vars => MonitorInv' /\ MonitorGate'
  BY MonitorStep, GateStep
<1> QED
  BY Invariance, <1>1, <1>2, PTL DEF Spec

-----------------------------------------------------------------------------
\* A file stays framed when a chunk is added that fits the chunk before it: a
\* body or a torn body exactly after a size of the same writer.
LEMMA FramedAppend ==
  ASSUME file \in Seq(Chunk), file # <<>>, Framed, NEW c \in Chunk,
         file' = Append(file, c), FileEnd.kind # "torn",
         c.kind \in {"body", "torn"} <=> FileEnd.kind = "size",
         FileEnd.kind = "size" => c.by = FileEnd.by
  PROVE  Framed' /\ FileEnd' = c
<1> DEFINE n == Len(file)
<1>1. /\ n \in Nat \ {0} /\ Len(file') = n + 1 /\ file'[n + 1] = c
      /\ \A i \in 1..n : file'[i] = file[i]
  OBVIOUS
<1>2. FileEnd = file[n] /\ FileEnd' = c
  BY <1>1 DEF FileEnd
<1> HIDE DEF n
<1>3. ASSUME NEW i \in 1..(n + 1), file'[i].kind \in {"body", "torn"}
      PROVE  i > 1 /\ file'[i-1].kind = "size" /\ file'[i-1].by = file'[i].by
  <2>1. CASE i = n + 1
    BY <1>1, <1>2, <1>3, <2>1
  <2>2. CASE i # n + 1
    <3>1. i \in 1..n /\ file'[i] = file[i]
      BY <1>1, <2>2
    <3>2. i > 1 /\ file[i-1].kind = "size" /\ file[i-1].by = file[i].by
      BY <1>3, <3>1 DEF Framed, n
    <3>3. i - 1 \in 1..n
      BY <1>1, <3>1, <3>2
    <3> QED
      BY <1>1, <3>1, <3>2, <3>3
  <2> QED
    BY <2>1, <2>2
<1>4. ASSUME NEW i \in 1..(n + 1), file'[i].kind = "size", i < n + 1
      PROVE  file'[i+1].kind \in {"body", "torn"} /\ file'[i+1].by = file'[i].by
  <2>1. i \in 1..n /\ file'[i] = file[i] /\ n \in Nat
    BY <1>1, <1>4
  <2>2. CASE i = n
    BY <1>1, <1>2, <1>4, <2>1, <2>2
  <2>3. CASE i # n
    <3>1. i < n /\ i + 1 \in 1..n
      BY <2>1, <2>3
    <3>2. file[i+1].kind \in {"body", "torn"} /\ file[i+1].by = file[i].by
      BY <1>4, <2>1, <3>1 DEF Framed, n
    <3> QED
      BY <1>1, <2>1, <3>1, <3>2
  <2> QED
    BY <2>2, <2>3
<1>5. ASSUME NEW i \in 1..(n + 1), file'[i].kind = "torn"
      PROVE  i = n + 1
  <2>1. ASSUME i \in 1..n PROVE FALSE
    <3>1. file[i].kind = "torn"
      BY <1>1, <1>5, <2>1
    <3>2. i = n
      BY <2>1, <3>1 DEF Framed, n
    <3> QED
      BY <1>2, <3>1, <3>2
  <2> QED
    BY <1>1, <2>1
<1> QED
  BY <1>1, <1>2, <1>3, <1>4, <1>5 DEF Framed

\* Without fork() only the first process ever runs.
LEMMA OnlyRoot ==
  ASSUME IInv, FileInv, Forkers = {}, NEW t \in Threads, Runtime(t) \/ Program(t)
  PROVE  ProcOf[t] = Root /\ pstate[Root] \in {"running", "exiting"}
<1>1. Live(t)
  BY DEF Runtime, Emptying, Program, FunctionEntry, FunctionExit, Access, Restore,
     EventSkipped, RecordEvent, RecordFaults, WriteSize, WriteBody, WriteAborts,
     UnlockAndReset, UnlockAs, Exit, Close, Terminate, Enable, Disable, Toggle, Fork, At
<1> QED
  BY <1>1 DEF Live, FileInv

\* Ending the process leaves at most one torn body, after its size.
LEMMA DieFile ==
  ASSUME IInv, FileInv, NEW how \in Ended, Die(Root, how),
         pstate[Root] \in {"running", "exiting"}
  PROVE  FileInv'
<1> USE DEF IInv
<1>1. /\ pstate'[Root] = how /\ \A p \in Processes \ {Root} : pstate'[p] = "unborn"
      /\ how \notin {"loaded", "running", "exiting"}
  BY DEF Die, FileInv, TypeOK, Ended
<1>2. Framed'
  <2>1. CASE file' = file
    BY <2>1 DEF FileInv, Framed
  <2>2. ASSUME NEW t \in Threads, pc[t] = "body", fd[Root] = "open",
               file' = Append(file, Bare("torn", t))
        PROVE  Framed'
    <3>1. Bare("torn", t) \in Chunk /\ Bare("torn", t).kind = "torn" /\ Bare("torn", t).by = t
      BY BareChunk
    <3>2. file # <<>> /\ FileEnd.kind = "size" /\ FileEnd.by = t /\ Framed
      BY <2>2 DEF FileInv
    <3> QED
      BY <2>2, <3>1, <3>2, FramedAppend DEF TypeOK
  <2> QED
    BY <2>1, <2>2 DEF Die, Torn
<1> QED
  BY <1>1, <1>2 DEF FileInv

\* Without fork(), each step keeps the file framed.
LEMMA FileStep == IInv /\ FileInv /\ Forkers = {} /\ [Next]_vars => FileInv'
<1> SUFFICES ASSUME IInv, FileInv, Forkers = {}, [Next]_vars
             PROVE  FileInv'
  OBVIOUS
<1> USE DEF IInv
<1>1. ASSUME NEW opened \in BOOLEAN, Initialize(opened)
      PROVE  FileInv'
  <2> DEFINE h == Bare("header", MainOf[Root])
  <2>1. /\ \A p \in Processes \ {Root} : pstate'[p] = "unborn"
        /\ pstate'[Root] = "running" /\ fd[Root] = "none" /\ pc' = pc
    BY <1>1 DEF Initialize, FileInv, TypeOK
  <2>2. CASE fd'[Root] = "open"
    <3>1. file' = <<h>>
      BY <1>1, <2>1, <2>2 DEF Initialize
    <3>2. file' # <<>> /\ Len(file') = 1 /\ file'[1].kind = "header"
      BY <3>1, BareChunk
    <3>3. Framed'
      BY <3>2 DEF Framed
    <3>4. \A t \in Threads : pc'[t] # "body"
      <4>1. \A t \in Threads : ProcOf[t] # Root => pstate[ProcOf[t]] = "unborn"
        BY DEF FileInv
      <4> QED
        BY <1>1, <2>1, <4>1 DEF Initialize, FreshInv
    <3> QED
      BY <2>1, <3>2, <3>3, <3>4 DEF FileInv, FileEnd
  <2>3. CASE fd'[Root] # "open"
    <3>1. file' = file
      BY <1>1, <2>3 DEF Initialize, TypeOK
    <3> QED
      BY <2>1, <2>3, <3>1 DEF FileInv, Framed
  <2> QED
    BY <2>2, <2>3
<1>2. ASSUME NEW t \in Threads, Runtime(t) \/ Program(t)
      PROVE  FileInv'
  <2>1. ProcOf[t] = Root /\ pstate[Root] \in {"running", "exiting"}
    BY <1>2, OnlyRoot
  <2>2. \A u \in Threads : pc[u] = "body" => ProcOf[u] = Root
    BY DEF FileInv, FreshInv
  <2>3. CASE WriteSize(t)
    \* The mutex is free, so no thread is between its two writes.
    <3> DEFINE c == SizeChunk(t)
    <3>1. /\ UNCHANGED <<pstate, fd>> /\ pc' = [pc EXCEPT ![t] = "body"]
          /\ file' = IF fd[Root] = "open" THEN Append(file, c) ELSE file
      BY <2>1, <2>3 DEF WriteSize, Appended
    <3>2. \A u \in Threads : pc[u] # "body"
      BY <2>1, <2>2, <2>3, NoThreadAssumption DEF WriteSize, HolderInv, Critical
    <3>3. CASE fd[Root] = "open"
      <4>1. /\ file # <<>> /\ FileEnd.kind # "torn" /\ Framed
            /\ FileEnd.kind = "size" => pc[FileEnd.by] = "body"
        BY <2>1, <3>3 DEF FileInv
      <4>2. file[Len(file)] \in Chunk
        BY <4>1 DEF TypeOK
      <4>3. FileEnd.kind # "size"
        BY <3>2, <4>1, <4>2 DEF FileEnd, Chunk
      <4>5. c \in Chunk /\ c.kind = "size" /\ c.by = t
        BY BlockChunks
      <4>6. file' = Append(file, c)
        BY <3>1, <3>3
      <4> HIDE DEF c
      <4>7. Framed' /\ FileEnd' = c
        BY <4>1, <4>3, <4>5, <4>6, FramedAppend DEF TypeOK
      <4>8. file' # <<>>
        BY <4>5, <4>6, AppendProperties DEF TypeOK
      <4>9. /\ pc'[t] = "body"
            /\ \A u \in Threads : pc'[u] = "body" => u = t
        BY <3>1, <3>2 DEF TypeOK
      <4> QED
        BY <3>1, <4>5, <4>7, <4>8, <4>9 DEF FileInv
    <3>4. CASE fd[Root] # "open"
      BY <2>1, <3>1, <3>4 DEF FileInv, Framed
    <3> QED
      BY <3>3, <3>4
  <2>4. CASE WriteBody(t)
    \* The last chunk is the size this thread wrote.
    <3> DEFINE c == BodyChunk(t)
    <3>1. /\ UNCHANGED <<pstate, fd>> /\ pc[t] = "body"
          /\ pc' = [pc EXCEPT ![t] = "unlock"]
          /\ file' = IF fd[Root] = "open" THEN Append(file, c) ELSE file
      BY <2>1, <2>4 DEF WriteBody, Appended, At, procVars
    <3>2. \A u \in Threads : pc[u] = "body" => u = t
      BY <2>1, <2>2, <3>1 DEF HolderInv, Critical
    <3>3. CASE fd[Root] = "open"
      <4>1. file # <<>> /\ FileEnd.kind = "size" /\ FileEnd.by = t /\ Framed
        BY <2>1, <3>1, <3>3 DEF FileInv
      <4>2. c \in Chunk /\ c.kind = "body" /\ c.by = t
        BY BlockChunks
      <4>3. file' = Append(file, c)
        BY <3>1, <3>3
      <4> HIDE DEF c
      <4>5. Framed' /\ FileEnd' = c
        BY <4>1, <4>2, <4>3, FramedAppend DEF TypeOK
      <4>6. file' # <<>>
        BY <4>2, <4>3, AppendProperties DEF TypeOK
      <4>7. \A u \in Threads : pc'[u] # "body"
        BY <3>1, <3>2 DEF TypeOK
      <4> QED
        BY <3>1, <4>2, <4>5, <4>6, <4>7 DEF FileInv
    <3>4. CASE fd[Root] # "open"
      BY <2>1, <3>1, <3>4 DEF FileInv, Framed
    <3> QED
      BY <3>3, <3>4
  <2>5. CASE RecordFaults(t) \/ WriteAborts(t) \/ Terminate(t)
    <3>1. PICK how \in Ended : Die(Root, how)
      BY <2>1, <2>5 DEF RecordFaults, WriteAborts, Terminate, Ended
    <3> QED
      BY <2>1, <3>1, DieFile
  <2>6. CASE /\ file' = file
             /\ \A p \in Processes \ {Root} : pstate'[p] = pstate[p]
             /\ fd'[Root] = "open" => fd[Root] = "open"
             /\ pstate'[Root] \in {"running", "exiting"}
             /\ \A u \in Threads : pc'[u] = "body" <=> pc[u] = "body"
    <3>1. FileEnd' = FileEnd /\ Framed'
      BY <2>6 DEF FileInv, Framed, FileEnd
    <3>2. (file # <<>> /\ FileEnd.kind = "size") => FileEnd.by \in Threads
      <4>1. file # <<>> => file[Len(file)] \in Chunk
        BY DEF TypeOK
      <4> QED
        BY <4>1 DEF FileEnd, Chunk
    <3> QED
      BY <2>1, <2>6, <3>1, <3>2 DEF FileInv
  <2>7. CASE FunctionExit(t) \/ \E f \in Functions : FunctionEntry(t, f)
    <3>1. /\ UNCHANGED <<file, pstate, fd>> /\ pc[t] = "code"
          /\ pc' = [pc EXCEPT ![t] = IF monitor[t] THEN "restore" ELSE "gate"]
      BY <2>7 DEF FunctionExit, FunctionEntry, Blank, At
    <3>2. \A u \in Threads : pc'[u] = "body" <=> pc[u] = "body"
      BY <3>1 DEF TypeOK
    <3> QED
      BY <2>1, <2>6, <3>1, <3>2
  <2>8. CASE Access(t) \/ Restore(t) \/ EventSkipped(t) \/ RecordEvent(t)
    <3>1. CASE Access(t)
      BY <2>1, <2>6, <3>1 DEF Access, At, TypeOK, procVars, logVars
    <3>2. CASE Restore(t)
      BY <2>1, <2>6, <3>2 DEF Restore, At, TypeOK, procVars, logVars
    <3>3. CASE EventSkipped(t)
      BY <2>1, <2>6, <3>3 DEF EventSkipped, At, TypeOK, procVars, logVars
    <3>4. CASE RecordEvent(t)
      BY <2>1, <2>6, <3>4 DEF RecordEvent, At, TypeOK, procVars, logVars
    <3> QED
      BY <2>8, <3>1, <3>2, <3>3, <3>4
  <2>9. CASE UnlockAndReset(t)
    BY <2>1, <2>6, <2>9 DEF UnlockAndReset, UnlockAs, AfterFlush, At, TypeOK, logVars
  <2>10. CASE Exit(t)
    <3>1. /\ file' = file /\ UNCHANGED fd /\ pc[t] = "code"
          /\ pstate'[Root] = "exiting"
          /\ \A p \in Processes \ {Root} : pstate'[p] = pstate[p]
          /\ pc'[t] \in {"ended", "lock"} /\ \A u \in Threads \ {t} : pc'[u] = pc[u]
      BY <2>1, <2>10 DEF Exit, At, TypeOK, logVars
    <3> QED
      BY <2>6, <3>1
  <2>11. CASE Close(t)
    BY <2>1, <2>6, <2>11 DEF Close, At, TypeOK, logVars
  <2>12. CASE Enable(t) \/ Disable(t)
    BY <2>1, <2>6, <2>12 DEF Enable, Disable, Toggle, logVars
  <2> QED
    BY <1>2, <2>3, <2>4, <2>5, <2>7, <2>8, <2>9, <2>10, <2>11, <2>12
       DEF Runtime, Emptying, Program, Fork
<1>3. ASSUME NEW p \in Processes, Kill(p)
      PROVE  FileInv'
  <2>1. p = Root /\ Die(Root, "killed") /\ pstate[Root] \in {"running", "exiting"}
    BY <1>3 DEF Kill, FileInv
  <2> QED
    BY <2>1, DieFile DEF Ended
<1>4. CASE AllEnded \/ UNCHANGED vars
  BY <1>4 DEF AllEnded, vars, FileInv, Framed, FileEnd
<1> QED
  BY <1>1, <1>2, <1>3, <1>4 DEF Next

\* A program that does not fork leaves a file of whole blocks, each a size and
\* then its body, but for the end of the file when the process was cut off.
THEOREM FramedWithoutFork ==
  ASSUME Forkers = {}
  PROVE  Spec => []Framed
<1>1. Init => FileInv
  BY DEF Init, FileInv, Framed
<1>2. IInv /\ FileInv /\ [Next]_vars => FileInv'
  BY FileStep
<1>3. FileInv => Framed
  BY DEF FileInv
<1> QED
  BY Invariance, <1>1, <1>2, <1>3, PTL DEF Spec

-----------------------------------------------------------------------------
\* In a program of one thread, a file is being emptied or closed only when it
\* is open, the buffer is empty when it is closed, and nothing follows that.
OneThread == \A t \in Threads : t = MainOf[ProcOf[t]]
ExitInv ==
  \A t \in Threads :
    /\ pc[t] \in {"lock", "body", "unlock", "close"} => fd[ProcOf[t]] = "open"
    /\ pc[t] = "close" => buf[t] = <<>>
    /\ fd[ProcOf[t]] = "closed" => pc[t] = "ended" /\ recorded[t] = durable[t]

\* A thread's own step keeps that.
LEMMA OwnExitKept ==
  ASSUME IInv, OneThread, ExitInv, NEW t \in Threads, Runtime(t) \/ Program(t)
  PROVE  /\ pc'[t] \in {"lock", "body", "unlock", "close"} => fd'[ProcOf[t]] = "open"
         /\ pc'[t] = "close" => buf'[t] = <<>>
         /\ fd'[ProcOf[t]] = "closed" => pc'[t] = "ended" /\ recorded'[t] = durable'[t]
<1> USE DEF IInv
<1>0. /\ pc[t] \in {"lock", "body", "unlock", "close"} => fd[ProcOf[t]] = "open"
      /\ pc[t] = "close" => buf[t] = <<>>
      /\ fd[ProcOf[t]] = "closed" => pc[t] = "ended" /\ recorded[t] = durable[t]
      /\ fd[ProcOf[t]] \in {"none", "open", "closed"}
  BY DEF ExitInv, TypeOK
<1>1. ASSUME NEW f \in Functions, FunctionEntry(t, f) \/ FunctionExit(t)
      PROVE  pc'[t] \in {"restore", "gate"} /\ fd' = fd /\ pc[t] = "code"
  BY <1>1 DEF FunctionEntry, FunctionExit, Blank, At, TypeOK
<1>2. CASE FunctionExit(t) \/ Access(t) \/ Restore(t) \/ EventSkipped(t)
  <2>1. /\ pc'[t] \in {"restore", "gate", "code"} /\ fd' = fd
        /\ pc[t] \in {"code", "restore", "gate"}
    <3>1. CASE FunctionExit(t)
      BY <3>1 DEF FunctionExit, Blank, At, TypeOK
    <3>2. CASE Access(t)
      BY <3>2 DEF Access, At, TypeOK, procVars
    <3>3. CASE Restore(t)
      BY <3>3 DEF Restore, At, TypeOK
    <3>4. CASE EventSkipped(t)
      BY <3>4 DEF EventSkipped, At, TypeOK, procVars
    <3> QED
      BY <1>2, <3>1, <3>2, <3>3, <3>4
  <2> QED
    BY <1>0, <2>1
<1>3. CASE RecordFaults(t) \/ WriteAborts(t) \/ Terminate(t)
  BY <1>0, <1>3 DEF RecordFaults, WriteAborts, Terminate, Die
<1>4. CASE RecordEvent(t)
  <2>1. pc[t] = "gate" /\ fd' = fd /\ pc'[t] \in {"lock", "code"}
        /\ (pc'[t] = "lock" => fd[ProcOf[t]] # "none")
    BY <1>4 DEF RecordEvent, At, TypeOK, procVars
  <2> QED
    BY <1>0, <2>1
<1>5. CASE WriteSize(t)
  BY <1>0, <1>5 DEF WriteSize, At, TypeOK
<1>6. CASE WriteBody(t)
  BY <1>0, <1>6 DEF WriteBody, At, TypeOK, procVars
<1>7. CASE UnlockAndReset(t)
  <2>1. pc[t] = "unlock" /\ fd' = fd /\ buf'[t] = <<>> /\ pc'[t] \in {"close", "code"}
    BY <1>7 DEF UnlockAndReset, UnlockAs, AfterFlush, At, TypeOK
  <2> QED
    BY <1>0, <2>1
<1>8. CASE Close(t)
  <2>1. pc[t] = "close" /\ pc'[t] = "ended" /\ UNCHANGED <<buf, recorded, durable>>
    BY <1>8 DEF Close, At, TypeOK, logVars
  <2>2. recorded[t] = durable[t] \o <<>>
    BY <1>0, <2>1 DEF NothingLost, Pending
  <2>3. durable[t] \o <<>> = durable[t]
    BY DEF TypeOK
  <2> QED
    BY <2>1, <2>2, <2>3
<1>9. CASE Exit(t)
  <2>1. /\ pc[t] = "code" /\ fd' = fd /\ pc'[t] \in {"ended", "lock"}
        /\ (pc'[t] = "lock" => fd[ProcOf[t]] # "none")
    BY <1>9 DEF Exit, At, TypeOK
  <2> QED
    BY <1>0, <2>1
<1>10. CASE Enable(t) \/ Disable(t)
  BY <1>0, <1>10 DEF Enable, Disable, Toggle, At
<1>11. ASSUME NEW c \in Processes, Fork(t, c)
       PROVE  fd'[ProcOf[t]] = fd[ProcOf[t]] /\ pc' = pc /\ pc[t] = "code"
  <2>1. c # ProcOf[t]
    BY <1>11 DEF Fork, At, Live
  <2> QED
    BY <1>11, <2>1 DEF Fork, At, TypeOK
<1> QED
  BY <1>0, <1>1, <1>2, <1>3, <1>4, <1>5, <1>6, <1>7, <1>8, <1>9, <1>10, <1>11
     DEF Runtime, Emptying, Program

\* Its process is the only one whose descriptor it closes, and a child it
\* forks gets one that is not closed.
LEMMA OthersOpen ==
  ASSUME IInv, OneThread, ExitInv, NEW t \in Threads, Runtime(t) \/ Program(t),
         NEW p \in Processes, p # ProcOf[t]
  PROVE  fd'[p] = fd[p] \/ (pstate[p] = "unborn" /\ fd'[p] # "closed")
<1> USE DEF IInv
<1>1. ASSUME NEW c \in Processes, Fork(t, c)
      PROVE  fd'[p] = fd[p] \/ (pstate[p] = "unborn" /\ fd'[p] # "closed")
  <2>1. pc[t] = "code" /\ fd[ProcOf[t]] # "closed"
    BY <1>1 DEF Fork, At, ExitInv
  <2> QED
    BY <1>1, <2>1 DEF Fork, TypeOK
<1>2. CASE Close(t)
  BY <1>2 DEF Close, TypeOK
<1> QED
  BY <1>1, <1>2 DEF Runtime, Emptying, Program, FunctionEntry, FunctionExit, Access, Restore,
     EventSkipped, RecordEvent, RecordFaults, WriteSize, WriteBody, WriteAborts,
     UnlockAndReset, UnlockAs, Exit, Terminate, Enable, Disable, Toggle, Die, procVars

\* No step writes to a file that is closed, or closes it over a full buffer.
LEMMA ExitStep == IInv /\ OneThread /\ ExitInv /\ [Next]_vars => ExitInv'
<1> SUFFICES ASSUME IInv, OneThread, ExitInv, [Next]_vars, NEW u \in Threads
             PROVE  /\ pc'[u] \in {"lock", "body", "unlock", "close"} => fd'[ProcOf[u]] = "open"
                    /\ pc'[u] = "close" => buf'[u] = <<>>
                    /\ fd'[ProcOf[u]] = "closed" =>
                         pc'[u] = "ended" /\ recorded'[u] = durable'[u]
  BY DEF ExitInv
<1> USE DEF IInv
<1>0. /\ pc[u] \in {"lock", "body", "unlock", "close"} => fd[ProcOf[u]] = "open"
      /\ pc[u] = "close" => buf[u] = <<>>
      /\ fd[ProcOf[u]] = "closed" => pc[u] = "ended" /\ recorded[u] = durable[u]
      /\ pstate[ProcOf[u]] = "unborn" =>
           pc[u] = "code" /\ buf[u] = <<>> /\ recorded[u] = durable[u]
  BY DEF ExitInv, FreshInv
<1>1. ASSUME NEW opened \in BOOLEAN, Initialize(opened)
      PROVE  /\ UNCHANGED <<pc, buf, recorded, durable>>
             /\ fd'[ProcOf[u]] \in {fd[ProcOf[u]], "open"}
  BY <1>1 DEF Initialize, TypeOK
<1>2. ASSUME NEW t \in Threads, Runtime(t) \/ Program(t), t # u
      PROVE  /\ pc'[u] \in {"lock", "body", "unlock", "close"} => fd'[ProcOf[u]] = "open"
             /\ pc'[u] = "close" => buf'[u] = <<>>
             /\ fd'[ProcOf[u]] = "closed" => pc'[u] = "ended" /\ recorded'[u] = durable'[u]
  <2>1. ProcOf[u] # ProcOf[t]
    BY <1>2 DEF OneThread
  <2>2. \/ fd'[ProcOf[u]] = fd[ProcOf[u]]
        \/ pstate[ProcOf[u]] = "unborn" /\ fd'[ProcOf[u]] # "closed"
    BY <1>2, <2>1, OthersOpen
  <2>3. /\ recorded'[u] = recorded[u] /\ durable'[u] = durable[u] /\ pc'[u] = pc[u]
        /\ buf'[u] = buf[u] \/ buf'[u] = <<>>
    BY <1>2, OthersKept
  <2> QED
    BY <1>0, <2>2, <2>3
<1>3. ASSUME NEW p \in Processes, Kill(p)
      PROVE  UNCHANGED <<pc, buf, recorded, durable, fd>>
  BY <1>3 DEF Kill, Die
<1>4. CASE AllEnded \/ UNCHANGED vars
  BY <1>0, <1>4 DEF AllEnded, vars, procVars, logVars
<1> QED
  BY <1>0, <1>1, <1>2, <1>3, <1>4, OwnExitKept DEF Next

\* A process of one thread that ran to the end of exit() leaves nothing
\* unwritten: __mema_finalize empties the buffer before it closes the file.
\* (Of several threads it empties only the one that calls exit().)
THEOREM ExitLosesNothingHolds ==
  ASSUME OneThread
  PROVE  Spec => []ExitLosesNothing
<1>1. Init => ExitInv
  BY DEF Init, ExitInv
<1>2. IInv /\ ExitInv /\ [Next]_vars => ExitInv'
  BY ExitStep
<1>3. ExitInv => ExitLosesNothing
  BY DEF ExitInv, ExitLosesNothing
<1> QED
  BY Invariance, <1>1, <1>2, <1>3, PTL DEF Spec

-----------------------------------------------------------------------------
\* In TraceLog's terms a process that ends stops the writers of all its
\* threads, and nothing else.
LEMMA DieRefines ==
  ASSUME IInv, NEW p \in Processes, NEW how \in Ended, Die(p, how),
         pstate[p] \in {"running", "exiting"}
  PROVE  [Log!Next]_Log!logVars
<1> USE DEF IInv
<1> DEFINE W == {t \in Threads : ProcOf[t] = p}
<1>1. \A t \in W : StatusOf(t) = "writing" /\ StatusOf(t)' = "ended"
  BY DEF StatusOf, Live, Die, TypeOK, Ended
<1>2. \A t \in Threads \ W : StatusOf(t)' = StatusOf(t)
  BY DEF StatusOf, Live, Die, TypeOK
<1>3. UNCHANGED <<recorded, durable>>
  BY DEF Die
<1>4. Log!End(W)
  BY <1>1, <1>2, <1>3 DEF Log!End, Log!Move
<1>5. W \in SUBSET Threads
  OBVIOUS
<1> QED
  BY <1>4, <1>5 DEF Log!Next

\* A step that starts the writers of one process and records nothing.
LEMMA StartRefines ==
  ASSUME IInv, NEW p \in Processes, pstate[p] \in {"unborn", "loaded"},
         pstate' = [pstate EXCEPT ![p] = "running"], UNCHANGED <<recorded, durable>>
  PROVE  [Log!Next]_Log!logVars
<1> USE DEF IInv
<1> DEFINE W == {t \in Threads : ProcOf[t] = p}
<1>1. \A t \in W : StatusOf(t) = "idle" /\ StatusOf(t)' = "writing"
  BY DEF StatusOf, Live, TypeOK
<1>2. \A t \in Threads \ W : StatusOf(t)' = StatusOf(t)
  BY DEF StatusOf, Live, TypeOK
<1>3. Log!Begin(W)
  BY <1>1, <1>2 DEF Log!Begin, Log!Move
<1>4. W \in SUBSET Threads
  OBVIOUS
<1> QED
  BY <1>3, <1>4 DEF Log!Next

\* Every step of the runtime is a step of TraceLog or changes nothing there.
LEMMA StepRefines == IInv /\ [Next]_vars => [Log!Next]_Log!logVars
<1> SUFFICES ASSUME IInv, [Next]_vars
             PROVE  [Log!Next]_Log!logVars
  OBVIOUS
<1> USE DEF IInv
<1> DEFINE Quiet == /\ UNCHANGED <<recorded, durable>>
                    /\ \A t \in Threads : StatusOf(t)' = StatusOf(t)
<1>0. Quiet => [Log!Next]_Log!logVars
  BY DEF Log!logVars
<1>1. ASSUME NEW opened \in BOOLEAN, Initialize(opened)
      PROVE  [Log!Next]_Log!logVars
  BY <1>1, StartRefines DEF Initialize
<1>2. ASSUME NEW t \in Threads, Runtime(t) \/ Program(t)
      PROVE  [Log!Next]_Log!logVars
  <2>1. CASE RecordFaults(t) \/ WriteAborts(t) \/ Terminate(t)
    <3>1. PICK how \in Ended : Die(ProcOf[t], how)
      BY <2>1 DEF RecordFaults, WriteAborts, Terminate, Ended
    <3>2. pstate[ProcOf[t]] \in {"running", "exiting"}
      BY <2>1 DEF RecordFaults, WriteAborts, Terminate, At, Live
    <3> QED
      BY <3>1, <3>2, DieRefines
  <2>2. CASE RecordEvent(t)
    <3>1. ev[t] \in Record
      BY <2>2 DEF RecordEvent, At, EventInv
    <3>2. /\ recorded' = [recorded EXCEPT ![t] = Append(@, ev[t])]
          /\ durable' = durable /\ \A u \in Threads : StatusOf(u)' = StatusOf(u)
          /\ StatusOf(t) = "writing"
      BY <2>2 DEF RecordEvent, StatusOf, Live, At, procVars
    <3>3. Log!Add(t, ev[t])
      BY <3>2 DEF Log!Add
    <3> QED
      BY <3>1, <3>3 DEF Log!Next
  <2>3. CASE WriteBody(t) /\ fd[ProcOf[t]] = "open"
    <3>1. recorded[t] = durable[t] \o buf[t]
      BY <2>3 DEF WriteBody, At, NothingLost, Pending
    <3>2. durable' = [durable EXCEPT ![t] = recorded[t]]
      BY <2>3, <3>1 DEF WriteBody
    <3>3. /\ recorded' = recorded /\ \A u \in Threads : StatusOf(u)' = StatusOf(u)
          /\ StatusOf(t) = "writing"
      BY <2>3 DEF WriteBody, StatusOf, Live, At, procVars
    <3>4. Log!Commit(t)
      BY <3>2, <3>3 DEF Log!Commit
    <3> QED
      BY <3>4 DEF Log!Next
  <2>4. CASE WriteBody(t) /\ fd[ProcOf[t]] # "open"
    <3>1. durable' = durable
      BY <2>4 DEF WriteBody, TypeOK
    <3> QED
      BY <1>0, <2>4, <3>1 DEF WriteBody, StatusOf, Live, procVars
  <2>5. ASSUME NEW c \in Processes, Fork(t, c)
        PROVE  [Log!Next]_Log!logVars
    BY <2>5, StartRefines DEF Fork, logVars
  <2>6. CASE Exit(t)
    <3>1. \A u \in Threads : StatusOf(u)' = StatusOf(u)
      BY <2>6 DEF Exit, StatusOf, Live, TypeOK
    <3> QED
      BY <1>0, <2>6, <3>1 DEF Exit, logVars
  <2>7. CASE FunctionExit(t) \/ \E f \in Functions : FunctionEntry(t, f)
    BY <1>0, <2>7 DEF FunctionExit, FunctionEntry, StatusOf, Live
  <2>8. CASE \/ Access(t) \/ Restore(t) \/ EventSkipped(t) \/ WriteSize(t)
             \/ UnlockAndReset(t) \/ Close(t) \/ Enable(t) \/ Disable(t)
    BY <1>0, <2>8 DEF Access, Restore, EventSkipped, WriteSize, UnlockAndReset, UnlockAs,
                      Close, Enable, Disable, Toggle, StatusOf, Live, procVars, logVars
  <2> QED
    BY <1>2, <2>1, <2>2, <2>3, <2>4, <2>5, <2>6, <2>7, <2>8 DEF Runtime, Emptying, Program
<1>3. ASSUME NEW p \in Processes, Kill(p)
      PROVE  [Log!Next]_Log!logVars
  BY <1>3, DieRefines DEF Kill, Ended
<1>4. CASE AllEnded \/ UNCHANGED vars
  BY <1>0, <1>4 DEF AllEnded, vars, StatusOf, Live
<1> QED
  BY <1>1, <1>2, <1>3, <1>4 DEF Next

\* The runtime implements TraceLog: whatever the buffers, locks and forks, the
\* bodies a thread has written are all it had recorded at some moment.
THEOREM Refinement == Spec => ImplementsTraceLog
<1>1. Init => Log!Init
  BY DEF Init, Log!Init, StatusOf
<1>2. IInv /\ [Next]_vars => [Log!Next]_Log!logVars
  BY StepRefines
<1> QED
  BY Invariance, <1>1, <1>2, PTL DEF Spec, ImplementsTraceLog, Log!Spec
-----------------------------------------------------------------------------
\* The lemmas on sequences of records that follow need no processes.
HIDE ProcessAssumption

(* Replay and ReadBack, an element at a time.                                 *)

Frames == Functions \cup {NoFn}

\* Replaying a record keeps a stack a stack.
LEMMA ReplayStepType ==
  ASSUME NEW stk \in Seq(Frames), NEW r \in Record
  PROVE  ReplayStep(stk, r) \in Seq(Frames)
<1>1. r.fn \in Frames
  BY DEF Record, Frames
<1>2. Append(stk, r.fn) \in Seq(Frames)
  BY <1>1
<1>3. stk # <<>> => SubSeq(stk, 1, Len(stk) - 1) \in Seq(Frames)
  <2>1. ASSUME stk # <<>>
        PROVE  SubSeq(stk, 1, Len(stk) - 1) \in Seq(Frames)
    <3>1. Len(stk) \in Nat /\ Len(stk) > 0 /\ \A i \in 1..Len(stk) : stk[i] \in Frames
      BY <2>1, EmptySeq, ElementOfSeq
    <3> QED
      BY <3>1, SubSeqProperties
  <2> QED
    BY <2>1
<1> QED
  BY <1>2, <1>3 DEF ReplayStep

\* The stacks that replaying a sequence goes through.
LEMMA ReplayValues ==
  ASSUME NEW s \in Seq(Record)
  PROVE  \E f \in [0..Len(s) -> Seq(Frames)] :
           /\ f[0] = <<>> /\ \A i \in 1..Len(s) : f[i] = ReplayStep(f[i - 1], s[i])
           /\ Replay(s) = f[Len(s)]
<1> DEFINE st == [p \in Seq(Frames) \X Record |-> ReplayStep(p[1], p[2])]
           Body(g) == [i \in 0..Len(s) |-> IF i = 0 THEN <<>> ELSE ReplayStep(g[i - 1], s[i])]
           f == CHOOSE g : g = Body(g)
<1>1. Len(s) \in Nat /\ \A i \in 1..Len(s) : s[i] \in Record
  BY ElementOfSeq
<1>2. st \in [Seq(Frames) \X Record -> Seq(Frames)]
  BY ReplayStepType
<1>3. <<>> \in Seq(Frames)
  OBVIOUS
<1>4. PICK g \in [0..Len(s) -> Seq(Frames)] : IsAlong(g, st, <<>>, s, Len(s))
  <2> HIDE DEF st
  <2> QED
    BY <1>2, <1>3, AlongExists
<1>5. \A i \in 1..Len(s) : i - 1 \in 0..Len(s) /\ g[i] = ReplayStep(g[i - 1], s[i])
  <2> SUFFICES ASSUME NEW i \in 1..Len(s)
               PROVE  i - 1 \in 0..Len(s) /\ g[i] = ReplayStep(g[i - 1], s[i])
    OBVIOUS
  <2>1. i - 1 \in 0..Len(s)
    BY <1>1
  <2> DEFINE p == <<g[i - 1], s[i]>>
  <2>2. p \in Seq(Frames) \X Record
    BY <1>1, <1>4, <2>1
  <2>3. st[p] = ReplayStep(p[1], p[2])
    BY <2>2
  <2>4. p[1] = g[i - 1] /\ p[2] = s[i]
    OBVIOUS
  <2>5. g[i] = st[p]
    <3> HIDE DEF st
    <3> QED
      BY <1>4 DEF IsAlong
  <2> HIDE DEF st, p
  <2> QED
    BY <2>1, <2>3, <2>4, <2>5
<1>6. g = Body(g)
  <2>1. \A i \in 0..Len(s) : g[i] = IF i = 0 THEN <<>> ELSE ReplayStep(g[i - 1], s[i])
    BY <1>1, <1>4, <1>5 DEF IsAlong
  <2> QED
    BY <2>1
<1>7. f = Body(f)
  <2> HIDE DEF Body
  <2> QED
    BY <1>6
<1>8. f[0] = <<>> /\ \A i \in 1..Len(s) : f[i] = ReplayStep(f[i - 1], s[i])
  <2> HIDE DEF f
  <2> QED
    BY <1>1, <1>7
<1>9. \A i \in 0..Len(s) : f[i] = g[i]
  <2> HIDE DEF f, st, Body
  <2>1. f[0] = g[0] /\ Len(s) \in Nat
    BY <1>1, <1>4, <1>8 DEF IsAlong
  <2>2. \A i \in 1..Len(s) : f[i - 1] = g[i - 1] => f[i] = g[i]
    BY <1>5, <1>8
  <2> QED
    BY <2>1, <2>2, StepByStep, ZenonT(40)
<1>10. Replay(s) = f[Len(s)]
  BY DEF Replay
<1> HIDE DEF f, st, Body
<1>11. g[0] = <<>> /\ Replay(s) = g[Len(s)]
  BY <1>1, <1>8, <1>9, <1>10
<1> QED
  BY <1>5, <1>11

\* Replaying nothing gives the empty stack, one record more is one step more.
LEMMA ReplayAppend ==
  /\ Replay(<<>>) = <<>>
  /\ \A s \in Seq(Record) : Replay(s) \in Seq(Frames)
  /\ \A s \in Seq(Record) : \A r \in Record :
       Replay(Append(s, r)) = ReplayStep(Replay(s), r)
<1>1. Replay(<<>>) = <<>>
  <2>1. <<>> \in Seq(Record) /\ Len(<<>>) = 0
    OBVIOUS
  <2> QED
    BY <2>1, ReplayValues
<1>2. ASSUME NEW s \in Seq(Record)
      PROVE  Replay(s) \in Seq(Frames)
  <2>1. Len(s) \in 0..Len(s)
    OBVIOUS
  <2> QED
    BY <2>1, ReplayValues
<1>3. ASSUME NEW s \in Seq(Record), NEW r \in Record
      PROVE  Replay(Append(s, r)) = ReplayStep(Replay(s), r)
  <2> DEFINE n == Len(s)
             sr == Append(s, r)
  <2>1. /\ n \in Nat /\ sr \in Seq(Record) /\ Len(sr) = n + 1 /\ sr[n + 1] = r
        /\ \A i \in 1..n : sr[i] = s[i]
    OBVIOUS
  <2>2. PICK f : /\ f[0] = <<>> /\ \A i \in 1..n : f[i] = ReplayStep(f[i - 1], s[i])
                 /\ Replay(s) = f[n]
    BY ReplayValues
  <2> HIDE DEF n, sr
  <2>3. PICK g : /\ g[0] = <<>> /\ \A i \in 1..(n + 1) : g[i] = ReplayStep(g[i - 1], sr[i])
                 /\ Replay(sr) = g[n + 1]
    BY <2>1, ReplayValues
  <2>4. \A i \in 1..n : g[i] = ReplayStep(g[i - 1], s[i])
    BY <2>1, <2>3
  <2>5. f[n] = g[n]
    <3>1. \A i \in 1..n : f[i - 1] = g[i - 1] => f[i] = g[i]
      BY <2>2, <2>4
    <3>2. f[0] = g[0] /\ n \in Nat
      BY <2>1, <2>2, <2>3
    <3>3. \A i \in 0..n : f[i] = g[i]
      BY <3>1, <3>2, StepByStep, SMTT(40)
    <3> QED
      BY <3>2, <3>3
  <2>6. g[n + 1] = ReplayStep(g[n], r)
    <3>1. n + 1 \in 1..(n + 1) /\ (n + 1) - 1 = n
      BY <2>1
    <3> QED
      BY <2>1, <2>3, <3>1
  <2> QED
    BY <2>2, <2>3, <2>5, <2>6 DEF sr
<1> QED
  BY <1>1, <1>2, <1>3

-----------------------------------------------------------------------------
Reading == [next: {"header", "size", "body", "lost"}, size: Nat, got: Seq(Record)]

\* A reader that takes one more chunk is a reader.
LEMMA ReadStepType ==
  ASSUME NEW t \in Threads, NEW r \in Reading, NEW c \in Chunk
  PROVE  ReadStep(t, r, c) \in Reading
<1>1. c.data \in Seq(Record) /\ c.size \in Nat /\ r.got \in Seq(Record)
  BY DEF Chunk, Reading
<1>2. r.got \o c.data \in Seq(Record)
  BY <1>1, ConcatProperties
<1> QED
  BY <1>1, <1>2 DEF ReadStep, Reading

LEMMA UnreadType == Unread \in Reading
<1>1. <<>> \in Seq(Record) /\ 0 \in Nat
  OBVIOUS
<1> QED
  BY <1>1 DEF Unread, Reading

\* What a reader has after each chunk of a file.
LEMMA ReadValues ==
  ASSUME NEW t \in Threads, NEW s \in Seq(Chunk)
  PROVE  \E f \in [0..Len(s) -> Reading] :
           /\ f[0] = Unread /\ \A i \in 1..Len(s) : f[i] = ReadStep(t, f[i - 1], s[i])
           /\ ReadBack(t, s) = f[Len(s)]
<1> DEFINE st == [p \in Reading \X Chunk |-> ReadStep(t, p[1], p[2])]
           Body(g) == [i \in 0..Len(s) |-> IF i = 0 THEN Unread ELSE ReadStep(t, g[i - 1], s[i])]
           f == CHOOSE g : g = Body(g)
<1>1. Len(s) \in Nat /\ \A i \in 1..Len(s) : s[i] \in Chunk
  BY ElementOfSeq
<1>2. st \in [Reading \X Chunk -> Reading]
  BY ReadStepType
<1>3. Unread \in Reading
  BY UnreadType
<1>4. PICK g \in [0..Len(s) -> Reading] : IsAlong(g, st, Unread, s, Len(s))
  <2> HIDE DEF st
  <2> QED
    BY <1>2, <1>3, AlongExists
<1>5. \A i \in 1..Len(s) : i - 1 \in 0..Len(s) /\ g[i] = ReadStep(t, g[i - 1], s[i])
  <2> SUFFICES ASSUME NEW i \in 1..Len(s)
               PROVE  i - 1 \in 0..Len(s) /\ g[i] = ReadStep(t, g[i - 1], s[i])
    OBVIOUS
  <2>1. i - 1 \in 0..Len(s)
    BY <1>1
  <2> DEFINE p == <<g[i - 1], s[i]>>
  <2>2. p \in Reading \X Chunk
    BY <1>1, <1>4, <2>1
  <2>3. st[p] = ReadStep(t, p[1], p[2])
    BY <2>2
  <2>4. p[1] = g[i - 1] /\ p[2] = s[i]
    OBVIOUS
  <2>5. g[i] = st[p]
    <3> HIDE DEF st
    <3> QED
      BY <1>4 DEF IsAlong
  <2> HIDE DEF st, p
  <2> QED
    BY <2>1, <2>3, <2>4, <2>5
<1>6. g = Body(g)
  <2>1. \A i \in 0..Len(s) : g[i] = IF i = 0 THEN Unread ELSE ReadStep(t, g[i - 1], s[i])
    BY <1>1, <1>4, <1>5 DEF IsAlong
  <2> QED
    BY <2>1
<1>7. f = Body(f)
  <2> HIDE DEF Body
  <2> QED
    BY <1>6
<1>8. f[0] = Unread /\ \A i \in 1..Len(s) : f[i] = ReadStep(t, f[i - 1], s[i])
  <2> HIDE DEF f
  <2> QED
    BY <1>1, <1>7
<1>9. \A i \in 0..Len(s) : f[i] = g[i]
  <2> HIDE DEF f, st, Body
  <2>1. f[0] = g[0] /\ Len(s) \in Nat
    BY <1>1, <1>4, <1>8 DEF IsAlong
  <2>2. \A i \in 1..Len(s) : f[i - 1] = g[i - 1] => f[i] = g[i]
    BY <1>5, <1>8
  <2> QED
    BY <2>1, <2>2, StepByStep, ZenonT(40)
<1>10. ReadBack(t, s) = f[Len(s)]
  BY DEF ReadBack
<1> HIDE DEF f, st, Body
<1>11. g[0] = Unread /\ ReadBack(t, s) = g[Len(s)]
  BY <1>1, <1>8, <1>9, <1>10
<1> QED
  BY <1>5, <1>11

\* Of an empty file nothing is read, one chunk more is one step more.
LEMMA ReadAppend ==
  ASSUME NEW t \in Threads
  PROVE
  /\ ReadBack(t, <<>>) = Unread
  /\ \A s \in Seq(Chunk) : ReadBack(t, s) \in Reading
  /\ \A s \in Seq(Chunk) : \A r \in Chunk :
       ReadBack(t, Append(s, r)) = ReadStep(t, ReadBack(t, s), r)
<1>1. ReadBack(t, <<>>) = Unread
  <2> DEFINE none == <<>>
  <2>1. none \in Seq(Chunk) /\ Len(none) = 0
    OBVIOUS
  <2> HIDE DEF none
  <2>2. PICK f : f[0] = Unread /\ ReadBack(t, none) = f[Len(none)]
    BY <2>1, ReadValues
  <2> QED
    BY <2>1, <2>2 DEF none
<1>2. ASSUME NEW s \in Seq(Chunk)
      PROVE  ReadBack(t, s) \in Reading
  <2>1. Len(s) \in 0..Len(s)
    OBVIOUS
  <2> QED
    BY <2>1, ReadValues
<1>3. ASSUME NEW s \in Seq(Chunk), NEW r \in Chunk
      PROVE  ReadBack(t, Append(s, r)) = ReadStep(t, ReadBack(t, s), r)
  <2> DEFINE n == Len(s)
             sr == Append(s, r)
  <2>1. /\ n \in Nat /\ sr \in Seq(Chunk) /\ Len(sr) = n + 1 /\ sr[n + 1] = r
        /\ \A i \in 1..n : sr[i] = s[i]
    OBVIOUS
  <2>2. PICK f : /\ f[0] = Unread /\ \A i \in 1..n : f[i] = ReadStep(t, f[i - 1], s[i])
                 /\ ReadBack(t, s) = f[n]
    BY ReadValues
  <2> HIDE DEF n, sr
  <2>3. PICK g : /\ g[0] = Unread /\ \A i \in 1..(n + 1) : g[i] = ReadStep(t, g[i - 1], sr[i])
                 /\ ReadBack(t, sr) = g[n + 1]
    BY <2>1, ReadValues
  <2>4. \A i \in 1..n : g[i] = ReadStep(t, g[i - 1], s[i])
    BY <2>1, <2>3
  <2>5. f[n] = g[n]
    <3>1. \A i \in 1..n : f[i - 1] = g[i - 1] => f[i] = g[i]
      BY <2>2, <2>4
    <3>2. f[0] = g[0] /\ n \in Nat
      BY <2>1, <2>2, <2>3
    <3>3. \A i \in 0..n : f[i] = g[i]
      BY <3>1, <3>2, StepByStep, SMTT(40)
    <3> QED
      BY <3>2, <3>3
  <2>6. g[n + 1] = ReadStep(t, g[n], r)
    <3>1. n + 1 \in 1..(n + 1) /\ (n + 1) - 1 = n
      BY <2>1
    <3> QED
      BY <2>1, <2>3, <3>1
  <2> QED
    BY <2>2, <2>3, <2>5, <2>6 DEF sr
<1> QED
  BY <1>1, <1>2, <1>3

-----------------------------------------------------------------------------
(* What memaviz reads from the file.                                        *)

USE ProcessAssumption

\* How the reader takes a chunk that fits, and what any other leaves it with.
LEMMA ReadFits ==
  ASSUME NEW t \in Threads, NEW r \in Reading, NEW c \in Chunk
  PROVE  /\ (r.next = "header" /\ c.kind = "header") => ReadStep(t, r, c).next = "size"
         /\ (r.next = "size" /\ c.kind = "size") =>
              ReadStep(t, r, c).next = "body" /\ ReadStep(t, r, c).size = c.size
         /\ (r.next = "body" /\ c.kind = "body" /\ Len(c.data) = r.size) =>
              /\ ReadStep(t, r, c).next = "size"
              /\ ReadStep(t, r, c).got = IF c.by = t THEN r.got \o c.data ELSE r.got
         /\ c.kind # "body" => ReadStep(t, r, c).got = r.got
  BY DEF ReadStep, Reading

\* What is read of a file to which a chunk is added.
LEMMA ReadOneMore ==
  ASSUME TypeOK, NEW t \in Threads, NEW c \in Chunk, file' = Append(file, c)
  PROVE  /\ ReadBack(t, file) \in Reading
         /\ ReadBack(t, file') = ReadStep(t, ReadBack(t, file), c)
         /\ FileEnd' = c
<1>1. file \in Seq(Chunk)
  BY DEF TypeOK
<1>2. file'[Len(file')] = c
  BY <1>1
<1> QED
  BY <1>1, <1>2, ReadAppend DEF FileEnd

\* What is read of a thread is what it made durable; and while the process
\* runs, the reader has come to where the next write of a block belongs: after
\* a size, to a body of that many records.
InStep(t) ==
  IF FileEnd.kind = "size"
    THEN ReadBack(t, file).next = "body" /\ ReadBack(t, file).size = Len(buf[FileEnd.by])
    ELSE ReadBack(t, file).next = "size"
Written == pstate[Root] \in {"running", "exiting"} /\ fd[Root] = "open"
ReaderInv ==
  \A t \in Threads : /\ ReadBack(t, file).got = durable[t]
                     /\ Written => InStep(t)

\* While the process runs, a size at the end is of a thread about to write.
LEMMA EndWriter ==
  ASSUME TypeOK, FileInv, Written, FileEnd.kind = "size"
  PROVE  FileEnd.by \in Threads /\ pc[FileEnd.by] = "body"
<1>1. file # <<>> /\ pc[FileEnd.by] = "body"
  BY DEF FileInv, Written
<1>2. file[Len(file)] \in Chunk
  BY <1>1 DEF TypeOK
<1> QED
  BY <1>1, <1>2 DEF FileEnd, Chunk

\* A step that writes nothing leaves the reader where it is.
LEMMA ReaderKept ==
  ASSUME TypeOK, FileInv, ReaderInv, UNCHANGED <<file, durable>>,
         Written' => Written, \A u \in Threads : pc[u] = "body" => buf'[u] = buf[u]
  PROVE  ReaderInv'
<1>1. FileEnd' = FileEnd
  BY DEF FileEnd
<1>2. ASSUME Written, FileEnd.kind = "size"
      PROVE  buf'[FileEnd.by] = buf[FileEnd.by]
  BY <1>2, EndWriter
<1> QED
  BY <1>1, <1>2 DEF ReaderInv, InStep

\* A process that ends adds at most a torn body.
LEMMA ReaderDie ==
  ASSUME TypeOK, ReaderInv, NEW how \in Ended, Die(Root, how)
  PROVE  ReaderInv'
<1>1. durable' = durable /\ ~Written'
  BY DEF Die, Written, TypeOK, Ended
<1>2. ASSUME NEW t \in Threads, NEW u \in Threads, file' = Append(file, Bare("torn", u))
      PROVE  ReadBack(t, file').got = ReadBack(t, file).got
  <2>1. Bare("torn", u) \in Chunk /\ Bare("torn", u).kind # "body"
    BY BareChunk
  <2> QED
    BY <1>2, <2>1, ReadOneMore, ReadFits
<1>3. \A t \in Threads : ReadBack(t, file').got = ReadBack(t, file).got
  BY <1>2 DEF Die, Torn
<1> QED
  BY <1>1, <1>3 DEF ReaderInv

\* Before the runtime is initialized nothing has been written.
LoadedInv ==
  pstate[Root] = "loaded" =>
    file = <<>> /\ \A p \in Processes \ {Root} : pstate[p] = "unborn"

LEMMA LoadedStep == TypeOK /\ LoadedInv /\ [Next]_vars => LoadedInv'
<1> SUFFICES ASSUME TypeOK, LoadedInv, [Next]_vars, pstate'[Root] = "loaded"
             PROVE  file' = <<>> /\ \A p \in Processes \ {Root} : pstate'[p] = "unborn"
  BY DEF LoadedInv
<1>1. pstate[Root] = "loaded"
  <2>1. ASSUME NEW opened \in BOOLEAN, Initialize(opened)
        PROVE  FALSE
    BY <2>1 DEF Initialize, TypeOK
  <2>2. ASSUME NEW p \in Processes, NEW how \in Ended, Die(p, how)
        PROVE  pstate[Root] = "loaded"
    BY <2>2 DEF Die, Ended, TypeOK
  <2>3. ASSUME NEW p \in Processes, Kill(p)
        PROVE  pstate[Root] = "loaded"
    BY <2>2, <2>3 DEF Kill, Ended
  <2>4. ASSUME NEW t \in Threads, RecordFaults(t) \/ WriteAborts(t) \/ Terminate(t)
        PROVE  pstate[Root] = "loaded"
    BY <2>2, <2>4 DEF RecordFaults, WriteAborts, Terminate, Ended
  <2>5. ASSUME NEW t \in Threads, Exit(t) \/ \E c \in Processes : Fork(t, c)
        PROVE  pstate[Root] = "loaded"
    BY <2>5 DEF Exit, Fork, TypeOK
  <2>6. ASSUME NEW t \in Threads, Runtime(t) \/ Program(t)
        PROVE  pstate[Root] = "loaded"
    BY <2>4, <2>5, <2>6 DEF Runtime, Program, Emptying, FunctionEntry, FunctionExit, Access,
       Restore, EventSkipped, RecordEvent, WriteSize, WriteBody, UnlockAndReset, UnlockAs,
       Close, Enable, Disable, Toggle, procVars
  <2>7. CASE AllEnded \/ UNCHANGED vars
    BY <2>7 DEF AllEnded, vars
  <2> QED
    BY <2>1, <2>3, <2>6, <2>7 DEF Next
<1>2. pstate[Root] = "loaded" /\ \A t \in Threads : ~Live(t)
  BY <1>1 DEF LoadedInv, Live
<1>3. ASSUME NEW t \in Threads, Runtime(t) \/ Program(t)
      PROVE  FALSE
  BY <1>2, <1>3 DEF Runtime, Program, Emptying, FunctionEntry, FunctionExit,
     Access, Restore, EventSkipped, RecordFaults, RecordEvent, WriteSize, WriteBody, WriteAborts,
     UnlockAndReset, UnlockAs, Exit, Close, Terminate, Fork, Enable, Disable, Toggle, At
<1>4. ASSUME NEW opened \in BOOLEAN, Initialize(opened)
      PROVE  FALSE
  BY <1>4 DEF Initialize, TypeOK
<1>5. ASSUME NEW p \in Processes, Kill(p)
      PROVE  FALSE
  BY <1>2, <1>5 DEF Kill, LoadedInv
<1>6. CASE AllEnded \/ UNCHANGED vars
  BY <1>2, <1>6 DEF AllEnded, vars, LoadedInv
<1> QED
  BY <1>3, <1>4, <1>5, <1>6 DEF Next

\* Each step of a program that does not fork keeps the reader in step.
LEMMA ReaderStep ==
  IInv /\ FileInv /\ LoadedInv /\ ReaderInv /\ Forkers = {} /\ [Next]_vars => ReaderInv'
<1> SUFFICES ASSUME IInv, FileInv, LoadedInv, ReaderInv, Forkers = {}, [Next]_vars
             PROVE  ReaderInv'
  OBVIOUS
<1>0. TypeOK /\ FreshInv /\ HolderInv
  BY DEF IInv
<1>1. ASSUME NEW opened \in BOOLEAN, Initialize(opened)
      PROVE  ReaderInv'
  <2> DEFINE h == Bare("header", MainOf[Root])
  <2>1. /\ durable' = durable /\ file = <<>> /\ fd[Root] = "none"
        /\ \/ file' = Append(file, h)
           \/ UNCHANGED <<fd, file>>
    BY <1>1 DEF Initialize, LoadedInv, FileInv
  <2>2. h \in Chunk /\ h.kind = "header"
    BY BareChunk
  <2>3. CASE UNCHANGED <<fd, file>>
    BY <2>1, <2>3 DEF ReaderInv, Written
  <2>4. CASE file' = Append(file, h)
    <3>1. ASSUME NEW t \in Threads
          PROVE  ReadBack(t, file').got = durable'[t] /\ ReadBack(t, file').next = "size"
      <4>1. ReadBack(t, file) = Unread
        BY <2>1, ReadAppend
      <4>2. ReadBack(t, file).next = "header" /\ ReadBack(t, file).got = durable[t]
        BY <4>1 DEF Unread, ReaderInv
      <4>3. /\ ReadBack(t, file) \in Reading
            /\ ReadBack(t, file') = ReadStep(t, ReadBack(t, file), h)
        BY <1>0, <2>2, <2>4, ReadOneMore
      <4> HIDE DEF h
      <4> QED
        BY <2>1, <2>2, <4>2, <4>3, ReadFits
    <3>2. FileEnd' = h
      BY <1>0, <2>2, <2>4, ReadOneMore
    <3> QED
      BY <2>2, <3>1, <3>2 DEF ReaderInv, InStep
  <2> QED
    BY <2>1, <2>3, <2>4
<1>2. ASSUME NEW t \in Threads, Runtime(t) \/ Program(t)
      PROVE  ReaderInv'
  <2>1. ProcOf[t] = Root /\ pstate[Root] \in {"running", "exiting"}
    BY <1>2, OnlyRoot
  <2>2. CASE RecordFaults(t) \/ WriteAborts(t) \/ Terminate(t)
    <3>1. PICK how \in Ended : Die(Root, how)
      BY <2>1, <2>2 DEF RecordFaults, WriteAborts, Terminate, Ended
    <3> QED
      BY <1>0, <3>1, ReaderDie
  <2>3. CASE WriteSize(t)
    \* The mutex is free, so no thread is between its two writes.
    <3> DEFINE c == SizeChunk(t)
    <3>1. /\ UNCHANGED <<pstate, fd, buf, durable>>
          /\ file' = IF fd[Root] = "open" THEN Append(file, c) ELSE file
      BY <2>1, <2>3 DEF WriteSize, Appended
    <3>2. c \in Chunk /\ c.kind = "size" /\ c.by = t /\ c.size = Len(buf[t])
      BY <1>0, BlockChunks
    <3> HIDE DEF c
    <3>3. CASE fd[Root] = "open"
      <4>1. Written /\ FileEnd.kind # "size"
        <5>1. \A u \in Threads : pc[u] # "body"
          BY <1>0, <2>1, <2>3, NoThreadAssumption DEF WriteSize, HolderInv, Critical, FileInv, FreshInv
        <5>2. Written
          BY <2>1, <3>3 DEF Written
        <5> QED
          BY <1>0, <5>1, <5>2, EndWriter
      <4>2. ASSUME NEW u \in Threads
            PROVE  /\ ReadBack(u, file').got = durable'[u]
                   /\ ReadBack(u, file').next = "body" /\ ReadBack(u, file').size = Len(buf[t])
        <5>1. ReadBack(u, file).next = "size" /\ ReadBack(u, file).got = durable[u]
          BY <4>1 DEF ReaderInv, InStep
        <5>2. /\ ReadBack(u, file) \in Reading
              /\ ReadBack(u, file') = ReadStep(u, ReadBack(u, file), c)
          BY <1>0, <3>1, <3>2, <3>3, ReadOneMore
        <5>3. /\ ReadBack(u, file').got = durable[u] /\ ReadBack(u, file').next = "body"
              /\ ReadBack(u, file').size = Len(buf[t])
          BY <3>2, <5>1, <5>2, ReadFits
        <5> QED
          BY <3>1, <5>3
      <4>3. FileEnd' = c
        BY <1>0, <3>1, <3>2, <3>3, ReadOneMore
      <4> QED
        BY <3>1, <3>2, <4>2, <4>3 DEF ReaderInv, InStep
    <3>4. CASE fd[Root] # "open"
      BY <3>1, <3>4 DEF ReaderInv, Written
    <3> QED
      BY <3>3, <3>4
  <2>4. CASE WriteBody(t)
    \* The last chunk is the size this thread wrote, and its buffer is as it was.
    <3> DEFINE c == BodyChunk(t)
    <3>1. /\ UNCHANGED <<pstate, fd, buf>> /\ pc[t] = "body"
          /\ durable' = [durable EXCEPT ![t] =
                           IF fd[Root] = "open" THEN durable[t] \o buf[t] ELSE durable[t]]
          /\ file' = IF fd[Root] = "open" THEN Append(file, c) ELSE file
      BY <2>1, <2>4 DEF WriteBody, Appended, At, procVars
    <3>2. c \in Chunk /\ c.kind = "body" /\ c.by = t /\ c.data = buf[t]
      BY <1>0, BlockChunks
    <3> HIDE DEF c
    <3>3. CASE fd[Root] = "open"
      <4>1. Written /\ FileEnd.kind = "size" /\ FileEnd.by = t
        BY <2>1, <3>1, <3>3 DEF FileInv, Written
      <4>2. ASSUME NEW u \in Threads
            PROVE  ReadBack(u, file').got = durable'[u] /\ ReadBack(u, file').next = "size"
        <5>1. /\ ReadBack(u, file).next = "body" /\ ReadBack(u, file).size = Len(c.data)
              /\ ReadBack(u, file).got = durable[u]
          BY <3>2, <4>1 DEF ReaderInv, InStep
        <5>2. /\ ReadBack(u, file) \in Reading
              /\ ReadBack(u, file') = ReadStep(u, ReadBack(u, file), c)
          BY <1>0, <3>1, <3>2, <3>3, ReadOneMore
        <5>3. /\ ReadBack(u, file').next = "size"
              /\ ReadBack(u, file').got = IF u = t THEN durable[u] \o buf[t] ELSE durable[u]
          BY <3>2, <5>1, <5>2, ReadFits
        <5> QED
          BY <1>0, <3>1, <3>3, <5>3 DEF TypeOK
      <4>3. FileEnd' = c
        BY <1>0, <3>1, <3>2, <3>3, ReadOneMore
      <4> QED
        BY <3>2, <4>2, <4>3 DEF ReaderInv, InStep
    <3>4. CASE fd[Root] # "open"
      <4>1. durable' = durable
        BY <1>0, <3>1, <3>4 DEF TypeOK
      <4> QED
        BY <3>1, <3>4, <4>1 DEF ReaderInv, Written
    <3> QED
      BY <3>3, <3>4
  <2>5. CASE \/ FunctionExit(t) \/ \E f \in Functions : FunctionEntry(t, f)
             \/ Access(t) \/ Exit(t) \/ Enable(t) \/ Disable(t) \/ Restore(t)
             \/ EventSkipped(t) \/ RecordEvent(t) \/ UnlockAndReset(t) \/ Close(t)
    <3>1. /\ UNCHANGED <<file, durable>>
          /\ Written' => fd'[Root] = "open"
          /\ pc[t] = "body" => buf' = buf
          /\ \A u \in Threads \ {t} : buf'[u] = buf[u]
      BY <1>0, <2>5 DEF FunctionEntry, FunctionExit, Access, Exit, Enable, Disable, Toggle, Restore,
         EventSkipped, RecordEvent, UnlockAndReset, UnlockAs, Close, logVars, Written, At, TypeOK
    <3>2. fd'[Root] = "open" => fd[Root] = "open"
      <4>1. CASE Close(t)
        BY <1>0, <4>1, <2>1 DEF Close, TypeOK
      <4>2. CASE ~Close(t)
        BY <2>5, <4>2 DEF FunctionEntry, FunctionExit, Access, Exit, Enable, Disable, Toggle, Restore,
           EventSkipped, RecordEvent, UnlockAndReset, UnlockAs, procVars
      <4> QED
        BY <4>1, <4>2
    <3>3. Written' => Written
      BY <2>1, <3>1, <3>2 DEF Written
    <3>4. \A u \in Threads : pc[u] = "body" => buf'[u] = buf[u]
      BY <3>1
    <3> QED
      BY <1>0, <3>1, <3>3, <3>4, ReaderKept
  <2> QED
    BY <1>2, <2>2, <2>3, <2>4, <2>5 DEF Runtime, Emptying, Program, Fork
<1>3. ASSUME NEW p \in Processes, Kill(p)
      PROVE  ReaderInv'
  <2>1. Die(Root, "killed")
    BY <1>3 DEF Kill, FileInv
  <2> QED
    BY <1>0, <2>1, ReaderDie DEF Ended
<1>4. CASE AllEnded \/ UNCHANGED vars
  BY <1>0, <1>4, ReaderKept DEF AllEnded, vars, Written
<1> QED
  BY <1>1, <1>2, <1>3, <1>4 DEF Next

\* Of a program that does not fork, what memaviz reads from the file of a thread's
\* compressed blocks, and what the thread's buffer still holds, is everything it ever
\* recorded, for any threads, interleaving and end of the process.
THEOREM ReadsBackHolds ==
  ASSUME Forkers = {}
  PROVE  Spec => []ReadsBack
<1>1. Init => FileInv /\ LoadedInv
  BY DEF Init, FileInv, Framed, LoadedInv
<1>2. Init => ReaderInv
  BY ReadAppend DEF Init, ReaderInv, Written, Unread
<1>3. IInv => TypeOK
  BY DEF IInv
<1>4. IInv /\ FileInv /\ [Next]_vars => FileInv'
  BY FileStep
<1>5. IInv /\ FileInv /\ LoadedInv /\ ReaderInv /\ [Next]_vars => ReaderInv'
  BY ReaderStep
<1>6. IInv /\ ReaderInv => ReadsBack
  BY DEF IInv, NothingLost, ReaderInv, ReadsBack
<1> QED
  BY Invariance, <1>1, <1>2, <1>3, <1>4, <1>5, <1>6, LoadedStep, PTL DEF Spec

-----------------------------------------------------------------------------
(* The call stack in the records.                                           *)

\* A thread's records, with the one it is about to store.
Owed(t) == IF pc[t] = "gate" THEN Append(recorded[t], ev[t]) ELSE recorded[t]

\* While the program is traced from its start and toggles nothing, nothing is switched off and
\* nobody is monitored.
TracedInv ==
  ~Toggles /\ ~InitialDisable =>
    /\ \A p \in Processes : ~disable[p]
    /\ \A t \in Threads : ~monitor[t] /\ pc[t] # "restore" /\ Replay(Owed(t)) = stack[t]

\* What a step may leave alone for the records to keep rebuilding the stacks.
LEMMA TracedKept ==
  ASSUME TracedInv, flags' = flags, UNCHANGED <<recorded, ev, stack, monitor, disable>>,
         \A t \in Threads : /\ pc'[t] = "gate" <=> pc[t] = "gate"
                            /\ pc'[t] = "restore" => pc[t] = "restore"
  PROVE  TracedInv'
<1>1. \A t \in Threads : Owed(t)' = Owed(t)
  BY DEF Owed
<1>2. InitialDisable' = InitialDisable /\ Toggles' = Toggles
  BY DEF InitialDisable, MonitorsFunctions, Toggles
<1> QED
  BY <1>1, <1>2 DEF TracedInv

\* An event is about to be stored that the stack has already followed.
LEMMA TracedEvent ==
  ASSUME IInv, TracedInv, ~Toggles, ~InitialDisable, NEW t \in Threads, At(t, "code"),
         NEW e \in Record, flags' = flags, UNCHANGED <<recorded, monitor, disable>>,
         ev' = [ev EXCEPT ![t] = e], pc' = [pc EXCEPT ![t] = "gate"],
         NEW s, stack' = [stack EXCEPT ![t] = s], ReplayStep(stack[t], e) = s
  PROVE  TracedInv'
<1>1. /\ t \in DOMAIN pc /\ t \in DOMAIN ev /\ t \in DOMAIN stack
      /\ recorded[t] \in Seq(Record) /\ pc[t] = "code"
  BY DEF IInv, TypeOK, At
<1>2. Replay(recorded[t]) = stack[t]
  BY <1>1 DEF TracedInv, Owed
<1>3. Replay(Append(recorded[t], e)) = s
  BY <1>1, <1>2, ReplayAppend
<1>4. Owed(t)' = Append(recorded[t], e)
  BY <1>1 DEF Owed
<1>5. \A u \in Threads \ {t} : Owed(u)' = Owed(u) /\ stack'[u] = stack[u] /\ pc'[u] = pc[u]
  BY <1>1 DEF Owed
<1>6. ASSUME NEW u \in Threads
      PROVE  ~monitor'[u] /\ pc'[u] # "restore" /\ Replay(Owed(u)') = stack'[u]
  <2>1. CASE u = t
    BY <1>1, <1>3, <1>4, <2>1 DEF TracedInv
  <2>2. CASE u # t
    BY <1>5, <2>2 DEF TracedInv
  <2> QED
    BY <2>1, <2>2
<1>7. \A p \in Processes : ~disable'[p]
  BY DEF TracedInv
<1> QED
  BY <1>6, <1>7 DEF TracedInv

LEMMA TracedStep ==
  ASSUME Forkers = {}
  PROVE  IInv /\ TracedInv /\ [Next]_vars => TracedInv'
<1> SUFFICES ASSUME IInv, TracedInv, [Next]_vars, ~Toggles', ~InitialDisable'
             PROVE  TracedInv'
  BY DEF TracedInv
<1>0. TypeOK /\ EventInv
  BY DEF IInv
<1>1. flags' = flags
  BY FlagsKept
<1>2. ~Toggles /\ ~InitialDisable
  BY <1>1 DEF Toggles, InitialDisable, MonitorsFunctions
<1>3. /\ \A p \in Processes : ~disable[p]
      /\ \A t \in Threads : ~monitor[t] /\ pc[t] # "restore" /\ Replay(Owed(t)) = stack[t]
  BY <1>2 DEF TracedInv
<1>4. ASSUME NEW p \in Processes, NEW how \in Ended, Die(p, how)
      PROVE  TracedInv'
  BY <1>1, <1>4, TracedKept DEF Die, eventVars
<1>5. ASSUME NEW opened \in BOOLEAN, Initialize(opened)
      PROVE  TracedInv'
  <2> DEFINE off == FALSE
  <2>1. MonitorsFunctions = off /\ InitialDisable = off
    BY <1>2 DEF InitialDisable, MonitorsFunctions
  <2>2. /\ monitor' = [monitor EXCEPT ![MainOf[Root]] = off]
        /\ disable' = [disable EXCEPT ![Root] = off]
    BY <1>5, <2>1 DEF Initialize
  <2>3. /\ monitor[MainOf[Root]] = off /\ monitor \in [Threads -> BOOLEAN]
        /\ disable[Root] = off /\ disable \in [Processes -> BOOLEAN]
    BY <1>0, <1>3 DEF TypeOK
  <2> HIDE DEF off
  <2>4. monitor' = monitor /\ disable' = disable
    BY <2>2, <2>3
  <2> QED
    BY <1>1, <1>5, <2>4, TracedKept DEF Initialize
<1>6. ASSUME NEW t \in Threads, Runtime(t) \/ Program(t)
      PROVE  TracedInv'
  <2>1. ~monitor[t] /\ ~disable[ProcOf[t]] /\ stack[t] \in Seq(Functions)
    BY <1>0, <1>3 DEF TypeOK
  <2>2. ASSUME NEW n, NEW s, Blank(t, n, s)
        PROVE  UNCHANGED disable /\ pc' = [pc EXCEPT ![t] = "gate"]
    BY <1>0, <2>1, <2>2 DEF Blank, TypeOK
  <2>3. ASSUME NEW f \in Functions, FunctionEntry(t, f)
        PROVE  TracedInv'
    <3> DEFINE e == [type |-> "enter", fn |-> f]
    <3>1. e \in Record /\ ReplayStep(stack[t], e) = Append(stack[t], f)
      BY DEF Record, ReplayStep
    <3>2. /\ At(t, "code") /\ ev' = [ev EXCEPT ![t] = e] /\ UNCHANGED <<recorded, monitor>>
          /\ stack' = [stack EXCEPT ![t] = Append(stack[t], f)]
          /\ UNCHANGED disable /\ pc' = [pc EXCEPT ![t] = "gate"]
      BY <2>2, <2>3 DEF FunctionEntry
    <3> HIDE DEF e
    <3> QED
      BY <1>1, <1>2, <3>1, <3>2, TracedEvent
  <2>4. CASE FunctionExit(t)
    <3> DEFINE e == [type |-> "exit", fn |-> Top(stack[t])]
               s == SubSeq(stack[t], 1, Len(stack[t]) - 1)
    <3>1. stack[t] # <<>>
      BY <2>4 DEF FunctionExit
    <3>2. Top(stack[t]) \in Functions
      <4>1. Len(stack[t]) \in 1..Len(stack[t])
        BY <2>1, <3>1, EmptySeq
      <4> QED
        BY <2>1, <4>1, ElementOfSeq DEF Top
    <3>3. e \in Record /\ ReplayStep(stack[t], e) = s
      BY <3>1, <3>2 DEF Record, ReplayStep
    <3>4. /\ At(t, "code") /\ ev' = [ev EXCEPT ![t] = e] /\ UNCHANGED <<recorded, monitor>>
          /\ stack' = [stack EXCEPT ![t] = s]
          /\ UNCHANGED disable /\ pc' = [pc EXCEPT ![t] = "gate"]
      BY <2>2, <2>4 DEF FunctionExit
    <3> HIDE DEF e, s
    <3> QED
      BY <1>1, <1>2, <3>3, <3>4, TracedEvent
  <2>5. CASE Access(t)
    <3> DEFINE e == [type |-> "access", fn |-> NoFn]
    <3>1. e \in Record /\ ReplayStep(stack[t], e) = stack[t]
      BY DEF Record, ReplayStep
    <3>2. /\ At(t, "code") /\ ev' = [ev EXCEPT ![t] = e] /\ UNCHANGED <<recorded, monitor>>
          /\ stack' = [stack EXCEPT ![t] = stack[t]]
          /\ UNCHANGED disable /\ pc' = [pc EXCEPT ![t] = "gate"]
      BY <1>0, <2>5 DEF Access, procVars, eventVars, logVars, TypeOK
    <3> HIDE DEF e
    <3> QED
      BY <1>1, <1>2, <3>1, <3>2, TracedEvent
  <2>6. CASE EventSkipped(t) \/ RecordEvent(t)
    <3>1. /\ pc[t] = "gate" /\ ev[t] \in Record /\ recorded[t] \in Seq(Record)
          /\ t \in DOMAIN pc /\ t \in DOMAIN recorded
      BY <1>0, <2>6 DEF EventSkipped, RecordEvent, At, EventInv, TypeOK
    <3>2. Replay(Append(recorded[t], ev[t])) = stack[t]
      BY <1>3, <3>1 DEF Owed
    <3>3. /\ pc'[t] \notin {"gate", "restore"} /\ UNCHANGED <<stack, monitor, disable>>
          /\ \A u \in Threads \ {t} :
               pc'[u] = pc[u] /\ ev'[u] = ev[u] /\ recorded'[u] = recorded[u]
      <4>1. CASE EventSkipped(t)
        BY <1>0, <3>1, <4>1 DEF EventSkipped, TypeOK, procVars, eventVars, logVars
      <4>2. CASE RecordEvent(t)
        BY <1>0, <3>1, <4>2 DEF RecordEvent, TypeOK, procVars, eventVars, logVars
      <4> QED
        BY <2>6, <4>1, <4>2
    <3>4. Replay(recorded'[t]) = stack[t]
      <4>1. CASE EventSkipped(t)
        <5>1. ev[t].type = "access" /\ recorded' = recorded
          BY <2>1, <4>1 DEF EventSkipped, Skips, logVars
        <5>2. ReplayStep(Replay(recorded[t]), ev[t]) = Replay(recorded[t])
          BY <5>1 DEF ReplayStep
        <5> QED
          BY <3>1, <3>2, <5>1, <5>2, ReplayAppend
      <4>2. CASE RecordEvent(t)
        BY <3>1, <3>2, <4>2 DEF RecordEvent
      <4> QED
        BY <2>6, <4>1, <4>2
    <3>5. Owed(t)' = recorded'[t] /\ \A u \in Threads \ {t} : Owed(u)' = Owed(u)
      BY <3>3 DEF Owed
    <3>6. ASSUME NEW u \in Threads
          PROVE  ~monitor'[u] /\ pc'[u] # "restore" /\ Replay(Owed(u)') = stack'[u]
      BY <1>3, <3>3, <3>4, <3>5
    <3> QED
      BY <1>3, <3>3, <3>6 DEF TracedInv
  <2>7. CASE RecordFaults(t) \/ WriteAborts(t) \/ Terminate(t)
    BY <1>4, <2>7 DEF RecordFaults, WriteAborts, Terminate, Ended
  <2>8. CASE WriteSize(t) \/ WriteBody(t) \/ UnlockAndReset(t) \/ Close(t)
    <3>1. UNCHANGED <<recorded, ev, stack, monitor, disable>>
      BY <2>8 DEF WriteSize, WriteBody, UnlockAndReset, UnlockAs, Close, procVars, eventVars,
                  logVars
    <3>2. /\ pc[t] \notin {"gate", "restore"} /\ pc'[t] \notin {"gate", "restore"}
          /\ \A u \in Threads \ {t} : pc'[u] = pc[u]
      <4>1. /\ pc \in [Threads -> {"code", "restore", "gate", "lock", "body", "unlock",
                                  "close", "ended"}]
            /\ AfterFlush(t) \in {"close", "code"}
        BY <1>0 DEF TypeOK, AfterFlush
      <4>2. CASE WriteSize(t)
        BY <4>1, <4>2 DEF WriteSize, At
      <4>3. CASE WriteBody(t)
        BY <4>1, <4>3 DEF WriteBody, At
      <4>4. CASE UnlockAndReset(t)
        BY <4>1, <4>4 DEF UnlockAndReset, UnlockAs, At
      <4>5. CASE Close(t)
        BY <4>1, <4>5 DEF Close, At
      <4> QED
        BY <2>8, <4>2, <4>3, <4>4, <4>5
    <3>3. \A u \in Threads : /\ pc'[u] = "gate" <=> pc[u] = "gate"
                             /\ pc'[u] = "restore" => pc[u] = "restore"
      BY <3>2
    <3> QED
      BY <1>1, <3>1, <3>3, TracedKept
  <2>9. CASE Exit(t)
    <3>1. /\ UNCHANGED <<recorded, stack, monitor, disable>> /\ pc[t] = "code"
          /\ pc'[t] \in {"ended", "lock"} /\ ev' = [ev EXCEPT ![t] = Finalize]
          /\ \A u \in Threads \ {t} : pc'[u] = pc[u] /\ ev'[u] = ev[u]
      BY <1>0, <2>9 DEF Exit, At, TypeOK, eventVars, logVars
    <3>2. \A u \in Threads : Owed(u)' = Owed(u) /\ (pc'[u] = "restore" => pc[u] = "restore")
      BY <3>1 DEF Owed
    <3> QED
      BY <1>3, <3>1, <3>2 DEF TracedInv
  <2> QED
    BY <1>2, <1>3, <1>6, <2>3, <2>4, <2>5, <2>6, <2>7, <2>8, <2>9
    DEF Runtime, Program, Emptying, Restore, At, Enable, Disable, Toggle, Toggles, Fork
<1>7. ASSUME NEW p \in Processes, Kill(p)
      PROVE  TracedInv'
  BY <1>4, <1>7 DEF Kill, Ended
<1>8. CASE AllEnded \/ UNCHANGED vars
  BY <1>1, <1>8, TracedKept DEF AllEnded, vars
<1> QED
  BY <1>5, <1>6, <1>7, <1>8 DEF Next

\* Of a program that is traced from its start, toggles nothing and does not
\* fork, every thread's records rebuild the call stack it has.
THEOREM StackRebuiltHolds ==
  ASSUME Forkers = {}
  PROVE  Spec => []StackRebuilt
<1>1. Init => TracedInv
  BY ReplayAppend DEF Init, TracedInv, Owed
<1>2. IInv /\ TracedInv /\ [Next]_vars => TracedInv'
  BY TracedStep
<1>3. TracedInv => StackRebuilt
  BY DEF TracedInv, StackRebuilt, Owed
<1> QED
  BY Invariance, <1>1, <1>2, <1>3, PTL DEF Spec
=============================================================================
