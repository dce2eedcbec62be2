------------------------------ MODULE MemaRtl ------------------------------
(***************************************************************************)
(* The tracing runtime of memapass/mema_rtl.cpp, linked into the program   *)
(* it traces.  Every instrumented function entry, function exit and memory *)
(* access calls it; each thread has a record buffer of its own, which is   *)
(* written to one trace file when it fills and at exit.                    *)
(*                                                                         *)
(* A thread of the program is at pc "code" between callbacks.  The other   *)
(* values are places inside the runtime where another thread or process    *)
(* can be seen to run:                                                     *)
(*   restore  flags()->disable is forced on, the monitored count is done   *)
(*   gate     about to test flags()->disable and to store the record       *)
(*   lock     in __mema_empty_buffer, about to take write_mutex            *)
(*   body     write_mutex held, block size written                         *)
(*   unlock   write_mutex held, block body written                         *)
(*   close    in __mema_finalize, buffer emptied, file still open          *)
(*   ended    __mema_finalize done, the process is about to end            *)
(***************************************************************************)
EXTENDS Naturals, Sequences, FiniteSets

CONSTANTS
  Processes,   \* the traced process and those it forks
  Root,        \* the process the user started
  Threads,     \* the threads of all processes
  ProcOf,      \* the process a thread belongs to
  MainOf,      \* a process's first thread: the only one a fork copies
  Functions,   \* the instrumented functions
  Monitored,   \* those whose name matches the "function" option
  BufSize,     \* mem_accesses_bufsize
  Options,     \* the settings MEMA_OPTIONS may hold
  Forkers,     \* threads that call fork()
  Togglers,    \* threads that call __mema_enable and __mema_disable
  Toggled,     \* the settings under which the program has them do so
  Exiters,     \* threads that call exit() or return from main
  Killable,    \* processes a signal may end
  MaxDepth,    \* bound: calls nested in a thread
  MaxEvents,   \* bound: records of a thread
  NoThread, NoFn

\* The parsed Flags: whether a filename is set, what the function option
\* matches, and the two booleans that change what the runtime does.
OptionSpace == [filename: BOOLEAN, funcname: {"none", "match", "nomatch"},
                disable: BOOLEAN, compression: BOOLEAN]

ASSUME ProcessAssumption ==
  /\ Root \in Processes
  /\ ProcOf \in [Threads -> Processes]
  /\ MainOf \in [Processes -> Threads]
  /\ \A p \in Processes : ProcOf[MainOf[p]] = p
ASSUME BufferAssumption == BufSize \in Nat /\ BufSize >= 2
ASSUME OptionAssumption == Options \subseteq OptionSpace
ASSUME NoThreadAssumption == NoThread \notin Threads /\ NoFn \notin Functions
ASSUME BoundAssumption == MaxDepth \in Nat /\ MaxEvents \in Nat

VARIABLES
  flags,      \* flags() without disable: read once, copied by fork
  pstate,     \* per process: whether it runs and how it ended
  disable,    \* per process: flags()->disable
  fd,         \* per process: memaccess_fd ("closed": a number already closed)
  mutex,      \* per process: the thread holding write_mutex
  ready,      \* per thread: whether the buffer pointers have been set
  monitor,    \* per thread: monitor_func
  count,      \* per thread: monitor_func_entry_count
  pc, stash,  \* per thread: control, and the local variable stash
  ev,         \* per thread: the event being recorded
  stack,      \* per thread: the functions it is in, outermost first
  buf,        \* per thread: records from first_ to next_free_mem_access
  file,       \* the trace file: a sequence of writes
  recorded,   \* history, per thread: every record ever stored in its buffer
  durable     \* history, per thread: its records in a body it wrote whole

procVars  == <<pstate, disable, fd, mutex>>
eventVars == <<ready, monitor, count, stash, stack>>
logVars   == <<file, recorded, durable>>
vars == <<flags, pstate, disable, fd, mutex, ready, monitor, count, pc, stash,
          ev, stack, buf, file, recorded, durable>>

Record == [type: {"access", "enter", "exit"}, fn: Functions \cup {NoFn}]
NoEvent  == [type |-> "none", fn |-> NoFn]
Finalize == [type |-> "finalize", fn |-> NoFn]
Chunk == [kind: {"header", "size", "body", "torn"}, by: Threads,
          size: Nat, data: Seq(Record)]   \* size: what a size write announces

Ended == {"exited", "killed", "crashed", "aborted"}
Live(t) == pstate[ProcOf[t]] \in {"running", "exiting"}
At(t, l) == Live(t) /\ pc[t] = l

Init ==
  /\ flags \in Options
  /\ pstate = [p \in Processes |-> IF p = Root THEN "loaded" ELSE "unborn"]
  /\ disable = [p \in Processes |-> FALSE]
  /\ fd = [p \in Processes |-> "none"]
  /\ mutex = [p \in Processes |-> NoThread]
  /\ ready = [t \in Threads |-> FALSE]
  /\ monitor = [t \in Threads |-> FALSE]
  /\ count = [t \in Threads |-> 0]
  /\ pc = [t \in Threads |-> "code"]
  /\ stash = [t \in Threads |-> FALSE]
  /\ ev = [t \in Threads |-> NoEvent]
  /\ stack = [t \in Threads |-> <<>>]
  /\ buf = [t \in Threads |-> <<>>]
  /\ file = <<>>
  /\ recorded = [t \in Threads |-> <<>>]
  /\ durable = [t \in Threads |-> <<>>]

-----------------------------------------------------------------------------
\* __mema_intialize_function_monitoring runs only when a file is named, and
\* turns monitoring on only when a function matches.
MonitorsFunctions == flags.filename /\ flags.funcname = "match"

\* monitor_func starts with the program disabled (__mema_disable at 437).
InitialDisable == flags.disable \/ MonitorsFunctions

\* A write that holds no records.
Bare(kind, t) == [kind |-> kind, by |-> t, size |-> 0, data |-> <<>>]

\* __mema_initialize, from the constructor the pass adds, on the main thread
\* before any other exists.  open() may fail, which leaves memaccess_fd -1.
Initialize(opened) ==
  /\ pstate[Root] = "loaded"
  /\ pstate' = [pstate EXCEPT ![Root] = "running"]
  /\ ready' = [ready EXCEPT ![MainOf[Root]] = TRUE]
  /\ monitor' = [monitor EXCEPT ![MainOf[Root]] = MonitorsFunctions]
  /\ disable' = [disable EXCEPT ![Root] = InitialDisable]
  /\ IF flags.filename /\ opened
       THEN /\ fd' = [fd EXCEPT ![Root] = "open"]
            /\ file' = <<Bare("header", MainOf[Root])>>
       ELSE UNCHANGED <<fd, file>>
  /\ UNCHANGED <<flags, mutex, count, pc, stash, ev, stack, buf, recorded, durable>>

-----------------------------------------------------------------------------
\* The update of the monitored count and of the local variable stash.
EntryCountOuter(t, f) == IF f \in Monitored /\ count[t] = 0 THEN 1 ELSE count[t] \* variant: nested calls uncounted
EntryCount(t, f) == IF f \in Monitored THEN count[t] + 1 ELSE count[t]
EntryStashKept(t, f) == disable[ProcOf[t]] \* variant: the first entry enables nothing
EntryStash(t, f) == disable[ProcOf[t]] /\ ~(f \in Monitored /\ count[t] = 0)
ExitCountAny(t, f) == count[t] - 1     \* variant: every function counts
ExitStashKept(t, f) == disable[ProcOf[t]]  \* variant: the last exit disables nothing
ExitCount(t, f)  == IF f \in Monitored /\ count[t] > 0 THEN count[t] - 1 ELSE count[t]
ExitStash(t, f)  == disable[ProcOf[t]] \/ (f \in Monitored /\ ExitCount(t, f) = 0)

\* The first half of __mema_function_entry and __mema_function_exit: under
\* monitor_func, disable is saved and forced on, then the count is updated.
Blank(t, n, s) ==
  /\ stash' = [stash EXCEPT ![t] = IF monitor[t] THEN s ELSE @]
  /\ count' = [count EXCEPT ![t] = IF monitor[t] THEN n ELSE @]
  /\ disable' = [disable EXCEPT ![ProcOf[t]] = @ \/ monitor[t]]
  /\ pc' = [pc EXCEPT ![t] = IF monitor[t] THEN "restore" ELSE "gate"]

FunctionEntry(t, f) ==
  /\ At(t, "code")
  /\ Len(stack[t]) < MaxDepth /\ Len(recorded[t]) < MaxEvents
  /\ stack' = [stack EXCEPT ![t] = Append(@, f)]
  /\ ev' = [ev EXCEPT ![t] = [type |-> "enter", fn |-> f]]
  /\ Blank(t, EntryCount(t, f), EntryStash(t, f))
  /\ UNCHANGED <<flags, pstate, fd, mutex, ready, monitor, buf, file, recorded, durable>>

Top(s) == s[Len(s)]
FunctionExit(t) ==
  /\ At(t, "code")
  /\ stack[t] # <<>> /\ Len(recorded[t]) < MaxEvents
  /\ ev' = [ev EXCEPT ![t] = [type |-> "exit", fn |-> Top(stack[t])]]
  /\ Blank(t, ExitCount(t, Top(stack[t])), ExitStash(t, Top(stack[t])))
  /\ stack' = [stack EXCEPT ![t] = SubSeq(@, 1, Len(@) - 1)]
  /\ UNCHANGED <<flags, pstate, fd, mutex, ready, monitor, buf, file, recorded, durable>>

\* flags()->disable = stash, which undoes what another thread set meanwhile.
Restore(t) ==
  /\ At(t, "restore")
  /\ disable' = [disable EXCEPT ![ProcOf[t]] = stash[t]]
  /\ stash' = [stash EXCEPT ![t] = FALSE]
  /\ pc' = [pc EXCEPT ![t] = "gate"]
  /\ UNCHANGED <<flags, pstate, fd, mutex, ready, monitor, count, ev, stack, buf>>
  /\ UNCHANGED logVars

Access(t) ==
  /\ At(t, "code")
  /\ Len(recorded[t]) < MaxEvents
  /\ ev' = [ev EXCEPT ![t] = [type |-> "access", fn |-> NoFn]]
  /\ pc' = [pc EXCEPT ![t] = "gate"]
  /\ UNCHANGED <<flags, buf>>
  /\ UNCHANGED procVars /\ UNCHANGED eventVars /\ UNCHANGED logVars

-----------------------------------------------------------------------------
\* Variant: function exits are not recorded.
SkipsExits(t) == disable[ProcOf[t]] \/ ev[t].type = "exit"

\* Accesses, and only they, are also dropped when no file is named.
Skips(t) == disable[ProcOf[t]] \/ (ev[t].type = "access" /\ ~flags.filename)

\* A process ends at once; a body being written may reach the file in part.
Torn(p) == {Append(file, Bare("torn", t)) :
              t \in {u \in Threads : ProcOf[u] = p /\ pc[u] = "body" /\ fd[p] = "open"}}
Die(p, how) ==
  /\ pstate' = [pstate EXCEPT ![p] = how]
  /\ file' \in {file} \cup Torn(p)
  /\ UNCHANGED <<flags, disable, fd, mutex, pc, ev, buf, recorded, durable>>
  /\ UNCHANGED eventVars

EventSkipped(t) ==
  /\ At(t, "gate") /\ Skips(t)
  /\ pc' = [pc EXCEPT ![t] = "code"]
  /\ ev' = [ev EXCEPT ![t] = NoEvent]
  /\ UNCHANGED <<flags, buf>>
  /\ UNCHANGED procVars /\ UNCHANGED eventVars /\ UNCHANGED logVars

\* A thread whose buffer pointers were never set stores through a null pointer.
RecordFaults(t) ==
  /\ At(t, "gate") /\ ~Skips(t) /\ ~ready[t]
  /\ Die(ProcOf[t], "crashed")

\* Variant: last_mem_access one past the buffer.
FullLate(b) == Len(b) = BufSize

\* next_free_mem_access == last_mem_access.
Full(b) == Len(b) = BufSize - 1

\* The record is stored; a full buffer is emptied, to nowhere without a file.
RecordEvent(t) ==
  /\ At(t, "gate") /\ ~Skips(t) /\ ready[t]
  /\ recorded' = [recorded EXCEPT ![t] = Append(@, ev[t])]
  /\ ev' = [ev EXCEPT ![t] = NoEvent]
  /\ LET b == Append(buf[t], ev[t]) IN
       /\ buf' = [buf EXCEPT ![t] = IF Full(b) /\ fd[ProcOf[t]] = "none" THEN <<>> ELSE b]
       /\ pc' = [pc EXCEPT ![t] = IF Full(b) /\ fd[ProcOf[t]] # "none" THEN "lock" ELSE "code"]
  /\ UNCHANGED <<flags, file, durable>>
  /\ UNCHANGED procVars /\ UNCHANGED eventVars

-----------------------------------------------------------------------------
\* __mema_empty_buffer.  Writes to a closed descriptor fail; only the write of
\* the body is checked, and only when blocks are compressed.
Appended(t, chunk) == IF fd[ProcOf[t]] = "open" THEN Append(file, chunk) ELSE file

\* The size announces the body: both are taken from the buffer before the lock.
SizeChunkFull(t) ==              \* variant: the size of a full buffer
  [Bare("size", t) EXCEPT !.size = BufSize - 1]
SizeChunk(t) == [kind |-> "size", by |-> t, size |-> Len(buf[t]), data |-> <<>>]
BodyChunk(t) == [kind |-> "body", by |-> t, size |-> 0, data |-> buf[t]]

WriteSizeUnlocked(t) ==          \* variant: write_mutex is not taken
  /\ At(t, "lock")
  /\ file' = Appended(t, SizeChunk(t))
  /\ pc' = [pc EXCEPT ![t] = "body"]
  /\ UNCHANGED <<flags, pstate, disable, fd, mutex, ev, buf, recorded, durable>>
  /\ UNCHANGED eventVars

WriteSize(t) ==
  /\ At(t, "lock") /\ mutex[ProcOf[t]] = NoThread
  /\ mutex' = [mutex EXCEPT ![ProcOf[t]] = t]
  /\ file' = Appended(t, SizeChunk(t))
  /\ pc' = [pc EXCEPT ![t] = "body"]
  /\ UNCHANGED <<flags, pstate, disable, fd, ev, buf, recorded, durable>>
  /\ UNCHANGED eventVars

WriteBody(t) ==
  /\ At(t, "body") /\ (fd[ProcOf[t]] = "open" \/ ~flags.compression)
  /\ file' = Appended(t, BodyChunk(t))
  /\ durable' = [durable EXCEPT ![t] = IF fd[ProcOf[t]] = "open" THEN @ \o buf[t] ELSE @]
  /\ pc' = [pc EXCEPT ![t] = "unlock"]
  /\ UNCHANGED <<flags, ev, buf, recorded>>
  /\ UNCHANGED procVars /\ UNCHANGED eventVars

\* assert(r1 == compressed_size1)
WriteAborts(t) ==
  /\ At(t, "body") /\ fd[ProcOf[t]] # "open" /\ flags.compression
  /\ Die(ProcOf[t], "aborted")

\* The end of __mema_empty_buffer, and where its caller goes on from.
UnlockAs(t, holder, records, next) ==
  /\ At(t, "unlock")
  /\ mutex' = [mutex EXCEPT ![ProcOf[t]] = holder]
  /\ buf' = [buf EXCEPT ![t] = records]
  /\ pc' = [pc EXCEPT ![t] = next]
  /\ UNCHANGED <<flags, pstate, disable, fd, ev>>
  /\ UNCHANGED eventVars /\ UNCHANGED logVars
AfterFlush(t) == IF ev[t] = Finalize THEN "close" ELSE "code"

\* Variants: the mutex stays locked, the buffer is not reset, the finalizer
\* does not go on.
ResetOnly(t)  == UnlockAs(t, t, <<>>, AfterFlush(t))
UnlockOnly(t) == UnlockAs(t, NoThread, buf[t], AfterFlush(t))
UnlockToCode(t) == UnlockAs(t, NoThread, <<>>, "code")

\* The Lock's destructor, then next_free_mem_access = &mem_accesses[0].
UnlockAndReset(t) == UnlockAs(t, NoThread, <<>>, AfterFlush(t))

-----------------------------------------------------------------------------
\* Variant: the finalizer closes the file without emptying the buffer.
ExitUnflushed(t) ==
  /\ t \in Exiters /\ At(t, "code") /\ pstate[ProcOf[t]] = "running"
  /\ pstate' = [pstate EXCEPT ![ProcOf[t]] = "exiting"]
  /\ ev' = [ev EXCEPT ![t] = Finalize]
  /\ pc' = [pc EXCEPT ![t] = IF fd[ProcOf[t]] = "none" THEN "ended" ELSE "close"]
  /\ UNCHANGED <<flags, disable, fd, mutex, buf>>
  /\ UNCHANGED eventVars /\ UNCHANGED logVars

\* exit() or return from main: __mema_finalize runs if it was registered,
\* that is, if a file was named.  It empties the buffer of this thread only.
Exit(t) ==
  /\ t \in Exiters /\ At(t, "code") /\ pstate[ProcOf[t]] = "running"
  /\ pstate' = [pstate EXCEPT ![ProcOf[t]] = "exiting"]
  /\ ev' = [ev EXCEPT ![t] = Finalize]
  /\ pc' = [pc EXCEPT ![t] = IF fd[ProcOf[t]] = "none" THEN "ended" ELSE "lock"]
  /\ buf' = [buf EXCEPT ![t] = IF fd[ProcOf[t]] = "none" /\ flags.filename THEN <<>> ELSE @]
  /\ UNCHANGED <<flags, disable, fd, mutex>>
  /\ UNCHANGED eventVars /\ UNCHANGED logVars

\* close(memaccess_fd), which keeps its value.
Close(t) ==
  /\ At(t, "close")
  /\ fd' = [fd EXCEPT ![ProcOf[t]] = "closed"]
  /\ pc' = [pc EXCEPT ![t] = "ended"]
  /\ UNCHANGED <<flags, pstate, disable, mutex, ev, buf>>
  /\ UNCHANGED eventVars /\ UNCHANGED logVars

Terminate(t) == At(t, "ended") /\ Die(ProcOf[t], "exited")

\* Variant: the child keeps its parent's records.
ChildKeeps(t) == buf[t]

\* What the child handler __mema_thread_starting leaves in the buffer.
ChildBuffer(t) == <<>>

\* fork(): the child is a copy of the process with the calling thread only,
\* write_mutex as it was, the same open file, and a buffer that is reset.
Fork(t, c) ==
  LET p == ProcOf[t]
      m == MainOf[c] IN
  /\ t \in Forkers /\ At(t, "code") /\ pstate[c] = "unborn"
  /\ pstate' = [pstate EXCEPT ![c] = "running"]
  /\ disable' = [disable EXCEPT ![c] = disable[p]]
  /\ fd' = [fd EXCEPT ![c] = fd[p]]
  /\ mutex' = [mutex EXCEPT ![c] = mutex[p]]
  /\ ready' = [ready EXCEPT ![m] = TRUE]
  /\ buf' = [buf EXCEPT ![m] = ChildBuffer(t)]
  /\ monitor' = [monitor EXCEPT ![m] = monitor[t]]
  /\ count' = [count EXCEPT ![m] = count[t]]
  /\ stack' = [stack EXCEPT ![m] = stack[t]]
  /\ UNCHANGED <<flags, pc, stash, ev>> /\ UNCHANGED logVars

Toggle(t, value) ==
  /\ t \in Togglers /\ flags \in Toggled /\ At(t, "code")
  /\ disable' = [disable EXCEPT ![ProcOf[t]] = value]
  /\ UNCHANGED <<flags, pstate, fd, mutex, pc, ev, buf>>
  /\ UNCHANGED eventVars /\ UNCHANGED logVars

Enable(t)  == Toggle(t, FALSE)
Disable(t) == Toggle(t, TRUE)

Kill(p) ==
  /\ p \in Killable /\ pstate[p] \in {"running", "exiting"}
  /\ Die(p, "killed")

\* Nothing is left to do once every process that was started has ended.
AllEnded ==
  /\ \A p \in Processes : pstate[p] \in Ended \cup {"unborn"}
  /\ UNCHANGED vars

Emptying(t) == WriteSize(t) \/ WriteBody(t) \/ WriteAborts(t) \/ UnlockAndReset(t)
Runtime(t) ==
  \/ Restore(t) \/ EventSkipped(t) \/ RecordFaults(t) \/ RecordEvent(t)
  \/ Emptying(t) \/ Close(t) \/ Terminate(t)
Program(t) ==
  \/ \E f \in Functions : FunctionEntry(t, f)
  \/ FunctionExit(t) \/ Access(t) \/ Exit(t) \/ Enable(t) \/ Disable(t)
  \/ \E c \in Processes : Fork(t, c)

Next ==
  \/ \E opened \in BOOLEAN : Initialize(opened)
  \/ \E t \in Threads : Runtime(t) \/ Program(t)
  \/ \E p \in Processes : Kill(p)
  \/ AllEnded

Spec == Init /\ [][Next]_vars

\* The operating system runs every thread that is inside the runtime; what
\* the program does next is up to the program.
FairSpec == Spec /\ \A t \in Threads : WF_vars(Runtime(t))

-----------------------------------------------------------------------------
\* The type of every variable.
TypeOK ==
  /\ flags \in OptionSpace
  /\ pstate \in [Processes -> {"unborn", "loaded", "running", "exiting"} \cup Ended]
  /\ disable \in [Processes -> BOOLEAN]
  /\ fd \in [Processes -> {"none", "open", "closed"}]
  /\ mutex \in [Processes -> Threads \cup {NoThread}]
  /\ ready \in [Threads -> BOOLEAN]
  /\ monitor \in [Threads -> BOOLEAN]
  /\ count \in [Threads -> Nat]
  /\ pc \in [Threads -> {"code", "restore", "gate", "lock", "body", "unlock",
                          "close", "ended"}]
  /\ stash \in [Threads -> BOOLEAN]
  /\ ev \in [Threads -> Record \cup {NoEvent, Finalize}]
  /\ stack \in [Threads -> Seq(Functions)]
  /\ buf \in [Threads -> Seq(Record)]
  /\ file \in Seq(Chunk)
  /\ recorded \in [Threads -> Seq(Record)]
  /\ durable \in [Threads -> Seq(Record)]

\* Only one thread of a process is between taking and releasing write_mutex:
\* what the Lock around the two write() calls of __mema_empty_buffer is for.
Critical(t) == pc[t] \in {"body", "unlock"}
MutualExclusion ==
  \A t, u \in Threads :
    (Critical(t) /\ Critical(u) /\ ProcOf[t] = ProcOf[u]) => t = u

\* Records of a buffer that no written body holds yet.
Pending(t) == IF pc[t] = "unlock" THEN <<>> ELSE buf[t]

\* While the trace file is open, what a thread ever recorded is what its
\* whole bodies hold followed by what is in its buffer: the flush, the fork
\* and the finalizer neither lose nor repeat a record (emptying order in
\* __mema_empty_buffer, the reset in __mema_thread_starting).
NothingLost ==
  \A t \in Threads :
    fd[ProcOf[t]] = "open" => recorded[t] = durable[t] \o Pending(t)

\* The cursor never passes the last slot: a record is stored only in a free
\* slot of mem_accesses (the equality test after next_free_mem_access++).
BufferBound ==
  \A t \in Threads : /\ Len(buf[t]) <= BufSize - 1
                     /\ pc[t] \in {"code", "restore", "gate"} => ~Full(buf[t])

\* Every body in the file follows its own size, and only the end of the file
\* may hold a size whose body is missing or incomplete.  This is the framing
\* NewBlock in memaviz/data.go reads.
Framed ==
  \A i \in 1..Len(file) :
    /\ file[i].kind \in {"body", "torn"} =>
         i > 1 /\ file[i-1].kind = "size" /\ file[i-1].by = file[i].by
    /\ file[i].kind = "size" /\ i < Len(file) =>
         file[i+1].kind \in {"body", "torn"} /\ file[i+1].by = file[i].by
    /\ file[i].kind = "torn" => i = Len(file)

\* A process that ran to the end of exit() leaves nothing unwritten: the last,
\* partly filled buffer reaches the file before close().
ExitLosesNothing ==
  \A t \in Threads :
    pstate[ProcOf[t]] = "exited" /\ fd[ProcOf[t]] = "closed" =>
      recorded[t] = durable[t]

\* What the reader rebuilds from a thread's records: memaviz's BuildStree
\* pushes a frame for an enter record and pops one for an exit record.
ReplayStep(stk, r) ==
  IF r.type = "enter" THEN Append(stk, r.fn)
  ELSE IF r.type = "exit" /\ stk # <<>> THEN SubSeq(stk, 1, Len(stk) - 1) ELSE stk
Replay(s) ==
  LET stk[i \in 0..Len(s)] == IF i = 0 THEN <<>> ELSE ReplayStep(stk[i - 1], s[i])
  IN  stk[Len(s)]

\* Whether the program switches tracing off and on itself.
Toggles == Togglers # {} /\ flags \in Toggled

\* "determine a callstack given a record index" (functree.go): the records
\* of a thread that is traced from its start rebuild its call stack.
StackRebuilt ==
  \A t \in Threads :
    (~Toggles /\ ~InitialDisable /\ ready[t] /\ pc[t] \notin {"restore", "gate"}) =>
      Replay(recorded[t]) = stack[t]

\* The loop of ParseBlocks in memaviz/data.go, a write at a time: after the
\* header read_block takes a size and then as many records, and cannot go on
\* when the file is not cut where it expects.  got: what it read of t.
ReadStep(t, r, c) ==
  CASE r.next = "header" /\ c.kind = "header" -> [r EXCEPT !.next = "size"]
    [] r.next = "size" /\ c.kind = "size" -> [r EXCEPT !.next = "body", !.size = c.size]
    [] r.next = "body" /\ c.kind = "body" /\ Len(c.data) = r.size ->
         [r EXCEPT !.next = "size", !.got = IF c.by = t THEN @ \o c.data ELSE @]
    [] OTHER -> [r EXCEPT !.next = "lost"]
Unread == [next |-> "header", size |-> 0, got |-> <<>>]
ReadBack(t, chunks) ==
  LET reader[i \in 0..Len(chunks)] ==
        IF i = 0 THEN Unread ELSE ReadStep(t, reader[i - 1], chunks[i])
  IN  reader[Len(chunks)]

\* What memaviz reads from the file of a thread's compressed blocks, and what is
\* still in the thread's buffer, is everything the thread ever recorded: whatever
\* other threads wrote in between, and also when the process was killed and
\* the last body is torn, no block is cut off from its size, and the size is
\* the body's (__mema_empty_buffer, read_block).
ReadsBack ==
  \A t \in Threads :
    (flags.compression /\ fd[ProcOf[t]] = "open") =>
      recorded[t] = ReadBack(t, file).got \o Pending(t)

\* Under monitor_func the count is the number of monitored functions on the
\* thread's call stack, through nested and recursive calls and forks.
MonitoredFrames(s) == {i \in 1..Len(s) : s[i] \in Monitored}
MonitorCount ==
  \A t \in Threads : monitor[t] => count[t] = Cardinality(MonitoredFrames(stack[t]))

\* Under monitor_func, and when the program toggles nothing itself, tracing
\* is on exactly while a monitored function is on the stack.
MonitorGate ==
  \A t \in Threads :
    (~Toggles /\ monitor[t] /\ pstate[ProcOf[t]] \in {"running", "exiting"}) =>
      (IF pc[t] = "restore" THEN stash[t] ELSE disable[ProcOf[t]]) <=> count[t] = 0

\* A thread that starts to empty its buffer gets back to the program (or to
\* the end of exit()), unless its process ends: nobody keeps write_mutex.
FlushCompletes ==
  \A t \in Threads : At(t, "lock") ~> (~Live(t) \/ pc[t] \in {"code", "ended"})

\* exit() ends the process: the finalizer cannot hang behind another thread.
ExitCompletes ==
  \A p \in Processes : pstate[p] = "exiting" ~> pstate[p] \in Ended

\* Recording an event never stores through a null pointer, in any thread
\* ("This function can be run in multiple threads simultaneously.").
NoFault == \A p \in Processes : pstate[p] # "crashed"

\* The runtime keeps the promise of TraceLog: a body that reaches the file
\* adds to it exactly what its thread recorded since its last one.
StatusOf(t) ==
  IF pstate[ProcOf[t]] \in {"unborn", "loaded"} THEN "idle"
  ELSE IF Live(t) THEN "writing" ELSE "ended"
Log == INSTANCE TraceLog WITH Writers <- Threads, Entries <- Record,
         status <- [t \in Threads |-> StatusOf(t)],
         log <- recorded, disk <- durable
ImplementsTraceLog == Log!Spec

-----------------------------------------------------------------------------
\* The inductive invariant behind the safety properties above: besides them,
\* which thread holds write_mutex, what a thread records, and that a process
\* that has not started has nothing behind it.
HolderInv == \A t \in Threads : Critical(t) => mutex[ProcOf[t]] = t
EventInv  == \A t \in Threads : pc[t] \in {"restore", "gate"} => ev[t] \in Record
FreshInv  ==
  \A t \in Threads :
    pstate[ProcOf[t]] \in {"unborn", "loaded"} =>
      /\ pc[t] = "code" /\ buf[t] = <<>>
      /\ recorded[t] = <<>> /\ durable[t] = <<>>
      /\ ~monitor[t] /\ count[t] = 0 /\ stack[t] = <<>>
IInv == TypeOK /\ HolderInv /\ EventInv /\ FreshInv /\ NothingLost /\ BufferBound

\* Only the first thread of a process is ever monitored, and only a monitored
\* thread restores disable.
MonitorInv ==
  \A t \in Threads : /\ monitor[t] => t = MainOf[ProcOf[t]]
                     /\ pc[t] = "restore" => monitor[t]

\* Without fork(), how the file ends tells which thread is between the two
\* writes of __mema_empty_buffer.
FileEnd == file[Len(file)]
FileInv ==
  /\ \A p \in Processes \ {Root} : pstate[p] = "unborn"
  /\ pstate[Root] = "loaded" => fd[Root] = "none"
  /\ (pstate[Root] \in {"running", "exiting"} /\ fd[Root] = "open") =>
       /\ file # <<>> /\ FileEnd.kind # "torn"
       /\ FileEnd.kind = "size" => pc[FileEnd.by] = "body"
       /\ \A t \in Threads : pc[t] = "body" => FileEnd.kind = "size" /\ FileEnd.by = t
  /\ Framed
=============================================================================
