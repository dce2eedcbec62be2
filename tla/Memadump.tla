------------------------------ MODULE Memadump ------------------------------
(***************************************************************************)
(* The Valgrind tool of memagrind/memadump/md_main.c.  Valgrind hands it   *)
(* the intermediate code (IR) of one superblock at a time; md_instrument   *)
(* copies the statements and puts calls to helper functions between them,  *)
(* which count what runs and store records of the memory accesses.  A      *)
(* pending access is kept in a short list of events first, so that a load  *)
(* and a store of one instruction to one address become one "modify".  The *)
(* translation is then run any number of times, and may be left in the     *)
(* middle: through a side exit, or by a fault of the guest program.        *)
(*                                                                         *)
(* pc says who is at work:                                                 *)
(*   options     Valgrind reads the tool's command line                    *)
(*   guest       between superblocks                                       *)
(*   first       in md_instrument, at the first IMark of the superblock    *)
(*   instrument  in the rest of its loop                                   *)
(*   run         the item "at" of the translation is about to run          *)
(*   flush       a helper filled the buffer and empties it                 *)
(*   fini        __mema_finalize empties the buffer                        *)
(*   close       the file is about to be closed                            *)
(* and "ended", "killed", "aborted" (the tl_assert on open() or write())   *)
(* and "paranoid" (one of the assertions of md_fini) are final.            *)
(***************************************************************************)
EXTENDS Naturals, Sequences, SequencesExt

CONSTANTS
  NEvents,     \* N_EVENTS
  BufSize,     \* mem_accesses_bufsize
  Atoms,       \* IR atoms that hold a data address, one address each
  Types,       \* IR types of data
  SizeOf,      \* sizeofIRType
  Instrs,      \* addresses of guest instructions, each one byte long
  EntryOf,     \* what get_fnname_if_entry says of an instruction
  IRStmts,     \* the statements a superblock may consist of
  Preambles,   \* what may stand before the first IMark of a superblock
  FnNames,     \* names given with --fnname or --outputfile
  SizeWrites,  \* what writing the size of a block may come to: TRUE, all of it
  MaxWork,     \* bound: statements instrumented plus translations run
  NoName

ASSUME EventAssumption == NEvents \in Nat /\ NEvents >= 2
ASSUME BufferAssumption == BufSize \in Nat /\ BufSize >= 2
ASSUME AddressAssumption == Atoms \subseteq Nat /\ Instrs \subseteq Nat \ {0}
ASSUME SizeAssumption == SizeOf \in [Types -> Nat \ {0}]
ASSUME NameAssumption == EntryOf \in [Instrs -> FnNames \cup {"main", NoName}]
ASSUME SizeWriteAssumption == SizeWrites \subseteq BOOLEAN
ASSUME BoundAssumption == MaxWork \in Nat

\* A statement of the IR.  addr is the address it accesses or, of an IMark,
\* the instruction's and, of an Exit, the destination's.
DataTags == {"Load", "Store", "DirtyRead", "DirtyWrite", "DirtyModify",
             "CAS", "DCAS", "LL", "SC"}
DataStmts == [tag: DataTags, addr: Atoms, type: Types]
IMarks == [tag: {"IMark"}, addr: Instrs, type: {NoName}]
Exits  == [tag: {"Exit"}, addr: Instrs \cup {i + 1 : i \in Instrs}, type: {NoName}]
Alus   == [tag: {"Alu"}, addr: {0}, type: Types]
Others == [tag: {"Put"}, addr: {0}, type: {NoName}]
Stmts  == DataStmts \cup IMarks \cup Exits \cup Alus \cup Others

ASSUME StatementAssumption == IRStmts \subseteq Stmts
ASSUME PreambleAssumption == Preambles \subseteq Seq(Exits \cup Others)

Counters == {"func_calls", "SBs_entered", "SBs_completed", "IRStmts", "guest_instrs",
             "Jccs", "Jccs_untaken", "IJccs", "IJccs_untaken"}
Details  == {"OpLoad", "OpStore", "OpAlu"} \X Types
Sizes    == {1} \cup {SizeOf[t] : t \in Types} \cup {2 * SizeOf[t] : t \in Types}
Record   == [kind: {"Ir", "Dr", "Dw", "Dm"}, addr: Atoms \cup Instrs, size: Sizes]

VARIABLES
  pc,
  clo_basic_counts, clo_fnname,  \* the options that can be set
  outputfile_fd,
  iaddr,        \* address of the last IMark instrumented, kept by basic counts
  events,       \* the outstanding events
  sbOut,        \* the translation: statements, counts, calls to trace helpers
  at,           \* the next item of sbOut to run
  buf,          \* records from first_mem_access to next_free_mem_access
  file,         \* the output file: the records of its whole blocks that follow
                \* whole sizes only, since a reader finds no others, in order
  framed,       \* whether every size so far was written whole
  count,        \* the n_... counters
  detailCounts,
  \* The rest is history.
  stmts, runs,  \* statements instrumented, translations run
  log,          \* every record ever stored
  base,         \* length of log when the current run began
  here,         \* the guest instruction that runs, 0 in the preamble
  done,         \* the accesses this run made, in program order
  left,         \* how the last run ended
  truth,        \* what the guest program really did
  ops           \* the loads, stores and operations it tried

cloVars   == <<clo_basic_counts, clo_fnname, outputfile_fd>>
irVars    == <<iaddr, events, sbOut, stmts>>
storeVars == <<buf, file, framed, log>>
countVars == <<count, detailCounts>>
guestVars == <<here, done, left, truth, ops>>
vars == <<pc, clo_basic_counts, clo_fnname, outputfile_fd, iaddr, events, sbOut, at, buf, file,
          framed, count, detailCounts, stmts, runs, log, base, here, done, left, truth, ops>>

Truths == {"branches", "taken", "abandoned", "instrs", "calls", "stmts"}

Init ==
  /\ pc = "options"
  /\ clo_basic_counts = TRUE /\ clo_fnname = "main" /\ outputfile_fd = "none"
  /\ iaddr = 0 /\ events = <<>> /\ sbOut = <<>> /\ at = 0
  /\ buf = <<>> /\ file = <<>> /\ framed = TRUE
  /\ count = [c \in Counters |-> 0]
  /\ detailCounts = [d \in Details |-> 0]
  /\ stmts = 0 /\ runs = 0
  /\ log = <<>> /\ base = 0 /\ here = 0 /\ done = <<>> /\ left = "none"
  /\ truth = [t \in Truths |-> 0] /\ ops = [d \in Details |-> 0]

-----------------------------------------------------------------------------
\* md_process_cmd_line_option.  --outputfile is stored in clo_fnname too; the
\* other options of the usage text are not known and end Valgrind.
OptionName(name) ==
  /\ pc = "options"
  /\ clo_fnname' = name
  /\ UNCHANGED <<pc, clo_basic_counts, outputfile_fd, at, runs, base>>
  /\ UNCHANGED irVars /\ UNCHANGED storeVars /\ UNCHANGED countVars /\ UNCHANGED guestVars

OptionBasicCounts(value) ==
  /\ pc = "options"
  /\ clo_basic_counts' = value
  /\ UNCHANGED <<pc, clo_fnname, outputfile_fd, at, runs, base>>
  /\ UNCHANGED irVars /\ UNCHANGED storeVars /\ UNCHANGED countVars /\ UNCHANGED guestVars

\* md_post_clo_init opens output.mema and sets the cursors; the assertion on
\* open() ends the tool.
PostCloInit(opened) ==
  /\ pc = "options"
  /\ pc' = IF opened THEN "guest" ELSE "aborted"
  /\ outputfile_fd' = IF opened THEN "open" ELSE "none"
  /\ UNCHANGED <<clo_basic_counts, clo_fnname, at, runs, base>>
  /\ UNCHANGED irVars /\ UNCHANGED storeVars /\ UNCHANGED countVars /\ UNCHANGED guestVars

-----------------------------------------------------------------------------
\* The translation under way: outstanding events and the code emitted.
Work == [events |-> events, out |-> sbOut]

Item(kind, arg) == <<kind, arg>>
Emit(w, kind, arg) == [w EXCEPT !.out = Append(@, Item(kind, arg))]
EmitIf(cond, w, kind, arg) == IF cond THEN Emit(w, kind, arg) ELSE w

\* flushEvents: a call to a trace helper per event, in order.
flushEvents(w) ==
  [events |-> <<>>,
   out |-> w.out \o [i \in 1..Len(w.events) |-> Item("trace", w.events[i])]]

Event(kind, addr, size) == [kind |-> kind, addr |-> addr, size |-> size]

\* Variant: no room is made.
AddEventUnchecked(w, e) == [w EXCEPT !.events = Append(@, e)]

\* The common end of addEvent_Ir, addEvent_Dr and addEvent_Dw.
AddEvent(w, e) ==
  LET room == IF Len(w.events) = NEvents THEN flushEvents(w) ELSE w
  IN [room EXCEPT !.events = Append(@, e)]

addEvent_Ir(w, addr, size) == AddEvent(w, Event("Ir", addr, size))
addEvent_Dr(w, addr, size) == AddEvent(w, Event("Dr", addr, size))

\* Whether the last event is a load of the same place: it becomes a modify.
Merges(evs, addr, size) ==
  /\ evs # <<>>
  /\ evs[Len(evs)] = Event("Dr", addr, size)

addEvent_Dw(w, addr, size) ==
  IF Merges(w.events, addr, size)
    THEN [w EXCEPT !.events[Len(w.events)].kind = "Dm"]
    ELSE AddEvent(w, Event("Dw", addr, size))

instrument_detail(w, op, type) == Emit(w, "detail", <<op, type>>)

-----------------------------------------------------------------------------
\* The start of md_instrument: the preamble is copied as it is.
BeginBlock(preamble) ==
  /\ pc = "guest" /\ stmts + runs + 1 < MaxWork
  /\ pc' = "first"
  /\ iaddr' = 0 /\ events' = <<>>
  /\ LET copied == [i \in 1..Len(preamble) |-> Item("stmt", preamble[i])] IN
       sbOut' = EmitIf(clo_basic_counts, [Work EXCEPT !.out = copied], "count", "SBs_entered").out
  /\ UNCHANGED <<at, runs, base, stmts>> /\ UNCHANGED cloVars
  /\ UNCHANGED storeVars /\ UNCHANGED countVars /\ UNCHANGED guestVars

\* One turn of the loop over sbIn: before is what is emitted ahead of the
\* statement and after what follows it.
Counted == EmitIf(clo_basic_counts, Work, "count", "IRStmts")
Turn(before, st, after) ==
  /\ stmts + runs + 1 < MaxWork
  /\ pc = "instrument" \/ (pc = "first" /\ st.tag = "IMark")
  /\ pc' = "instrument"
  /\ stmts' = stmts + 1
  /\ events' = before.events
  /\ sbOut' = Append(before.out, Item("stmt", st)) \o after
  /\ UNCHANGED <<at, runs, base>> /\ UNCHANGED cloVars
  /\ UNCHANGED storeVars /\ UNCHANGED countVars /\ UNCHANGED guestVars

Size(st) == SizeOf[st.type]

\* AbiHint, Put, PutI, MBE, and a WrTmp of neither a load nor an operation.
InstrumentOther(st) ==
  /\ st.tag = "Put"
  /\ Turn(Counted, st, <<>>) /\ UNCHANGED iaddr

InstrumentAlu(st) ==
  /\ st.tag = "Alu"
  /\ Turn(instrument_detail(Counted, "OpAlu", st.type), st, <<>>) /\ UNCHANGED iaddr

CountsOfIMark(w, addr) ==
  LET instr == EmitIf(clo_basic_counts, w, "count", "guest_instrs")
  IN EmitIf(clo_basic_counts /\ EntryOf[addr] = clo_fnname, instr, "count", "func_calls")

Remembered(addr) == IF clo_basic_counts THEN addr ELSE iaddr

InstrumentIMark(st) ==
  /\ st.tag = "IMark"
  /\ iaddr' = Remembered(st.addr)
  /\ Turn(addEvent_Ir(CountsOfIMark(Counted, st.addr), st.addr, 1), st, <<>>)

InstrumentLoad(st) ==
  /\ st.tag = "Load"
  /\ Turn(instrument_detail(addEvent_Dr(Counted, st.addr, Size(st)), "OpLoad", st.type),
          st, <<>>)
  /\ UNCHANGED iaddr

InstrumentStore(st) ==
  /\ st.tag = "Store"
  /\ Turn(instrument_detail(addEvent_Dw(Counted, st.addr, Size(st)), "OpStore", st.type),
          st, <<>>)
  /\ UNCHANGED iaddr

\* A call to a helper of Valgrind's that accesses memory; its guard is not
\* looked at.
InstrumentDirty(st) ==
  /\ st.tag \in {"DirtyRead", "DirtyWrite", "DirtyModify"}
  /\ LET read == IF st.tag = "DirtyWrite" THEN Counted
                 ELSE addEvent_Dr(Counted, st.addr, Size(st))
         both == IF st.tag = "DirtyRead" THEN read
                 ELSE addEvent_Dw(read, st.addr, Size(st))
     IN Turn(both, st, <<>>)
  /\ UNCHANGED iaddr

\* Compare and swap, of one word or two.
CASDetailsOnce(w, st) ==  \* variant: a double one counts once
  instrument_detail(instrument_detail(w, "OpLoad", st.type), "OpStore", st.type)
CASDetails(w, st) ==
  LET load == instrument_detail(w, "OpLoad", st.type)
      loads == IF st.tag = "DCAS" THEN instrument_detail(load, "OpLoad", st.type) ELSE load
      store == instrument_detail(loads, "OpStore", st.type)
  IN IF st.tag = "DCAS" THEN instrument_detail(store, "OpStore", st.type) ELSE store

InstrumentCAS(st) ==
  /\ st.tag \in {"CAS", "DCAS"}
  /\ LET size == IF st.tag = "DCAS" THEN 2 * Size(st) ELSE Size(st)
         both == addEvent_Dw(addEvent_Dr(Counted, st.addr, size), st.addr, size)
     IN Turn(CASDetails(both, st), st, <<>>)
  /\ UNCHANGED iaddr

\* Load-linked: nothing may stand between it and the store-conditional.
InstrumentLL(st) ==
  /\ st.tag = "LL"
  /\ Turn(instrument_detail(flushEvents(addEvent_Dr(Counted, st.addr, Size(st))),
                            "OpLoad", st.type), st, <<>>)
  /\ UNCHANGED iaddr

InstrumentSC(st) ==
  /\ st.tag = "SC"
  /\ Turn(instrument_detail(addEvent_Dw(Counted, st.addr, Size(st)), "OpStore", st.type),
          st, <<>>)
  /\ UNCHANGED iaddr

\* A side exit.  Valgrind may have inverted the branch, so that "taken" in
\* the IR means that the guest falls through to its next instruction.
condition_inverted(st) == st.addr = iaddr + 1
Jcc(st) == IF condition_inverted(st) THEN "IJccs" ELSE "Jccs"
JccUntaken(st) == IF condition_inverted(st) THEN "IJccs_untaken" ELSE "Jccs_untaken"

\* Variant: the outstanding events are left for later.
BeforeExitKeeping(st) == EmitIf(clo_basic_counts, Counted, "count", Jcc(st))
BeforeExit(st) == flushEvents(EmitIf(clo_basic_counts, Counted, "count", Jcc(st)))

InstrumentExit(st) ==
  /\ st.tag = "Exit"
  /\ Turn(BeforeExit(st), st,
          IF clo_basic_counts THEN <<Item("count", JccUntaken(st))>> ELSE <<>>)
  /\ UNCHANGED iaddr

Instrument(st) ==
  \/ InstrumentOther(st) \/ InstrumentAlu(st) \/ InstrumentIMark(st)
  \/ InstrumentLoad(st) \/ InstrumentStore(st) \/ InstrumentDirty(st)
  \/ InstrumentCAS(st) \/ InstrumentLL(st) \/ InstrumentSC(st) \/ InstrumentExit(st)

EndOfBlock == flushEvents(EmitIf(clo_basic_counts, Work, "count", "SBs_completed"))

\* The end of md_instrument.
EndBlock ==
  /\ pc = "instrument"
  /\ pc' = "guest"
  /\ events' = EndOfBlock.events /\ sbOut' = EndOfBlock.out
  /\ UNCHANGED <<iaddr, stmts, at, runs, base>> /\ UNCHANGED cloVars
  /\ UNCHANGED storeVars /\ UNCHANGED countVars /\ UNCHANGED guestVars

-----------------------------------------------------------------------------
\* The guest runs the translation from its start.
BeginRun ==
  /\ pc = "guest" /\ sbOut # <<>> /\ stmts + runs < MaxWork
  /\ pc' = "run" /\ at' = 1 /\ runs' = runs + 1
  /\ base' = Len(log) /\ here' = 0 /\ done' = <<>> /\ left' = "none"
  /\ UNCHANGED <<truth, ops>> /\ UNCHANGED cloVars
  /\ UNCHANGED irVars /\ UNCHANGED storeVars /\ UNCHANGED countVars

\* The item that runs next is of this kind; its argument.
Due(kind) == pc = "run" /\ at <= Len(sbOut) /\ sbOut[at][1] = kind
Arg == sbOut[at][2]

\* add_one_... and increment_detail.
RunCount ==
  /\ Due("count")
  /\ count' = [count EXCEPT ![Arg] = @ + 1]
  /\ at' = at + 1
  /\ UNCHANGED <<pc, runs, base, detailCounts>> /\ UNCHANGED cloVars
  /\ UNCHANGED irVars /\ UNCHANGED storeVars /\ UNCHANGED guestVars

RunDetail ==
  /\ Due("detail")
  /\ detailCounts' = [detailCounts EXCEPT ![Arg] = @ + 1]
  /\ at' = at + 1
  /\ UNCHANGED <<pc, runs, base, count>> /\ UNCHANGED cloVars
  /\ UNCHANGED irVars /\ UNCHANGED storeVars /\ UNCHANGED guestVars

\* next_free_mem_access == last_mem_access.
Full(records) == Len(records) = BufSize - 1

\* trace_instr, trace_load, trace_store and trace_modify.
RunTrace ==
  /\ Due("trace")
  /\ buf' = Append(buf, Arg) /\ log' = Append(log, Arg)
  /\ pc' = IF Full(buf') THEN "flush" ELSE "run"
  /\ at' = at + 1
  /\ UNCHANGED <<file, framed, runs, base>> /\ UNCHANGED cloVars
  /\ UNCHANGED irVars /\ UNCHANGED countVars /\ UNCHANGED guestVars

\* Variant: the cursor is reset although the block was not written.
EmptyUnwritten(sized, written) ==
  /\ pc \in {"flush", "fini"}
  /\ framed' = (framed /\ sized)
  /\ file' = IF framed' /\ written THEN file \o buf ELSE file
  /\ buf' = <<>>
  /\ pc' = IF pc = "flush" THEN "run" ELSE "close"
  /\ UNCHANGED <<log, at, runs, base>> /\ UNCHANGED cloVars
  /\ UNCHANGED irVars /\ UNCHANGED countVars /\ UNCHANGED guestVars

\* __mema_empty_buffer writes the size of the block and then the block.  Nothing
\* looks at what came of the size; a block not written whole fails the
\* assertion, which ends the tool.
EmptyBuffer(sized, written) ==
  /\ pc \in {"flush", "fini"}
  /\ framed' = (framed /\ sized)
  /\ file' = IF framed' /\ written THEN file \o buf ELSE file
  /\ buf' = IF written THEN <<>> ELSE buf
  /\ pc' = IF ~written THEN "aborted" ELSE IF pc = "flush" THEN "run" ELSE "close"
  /\ UNCHANGED <<log, at, runs, base>> /\ UNCHANGED cloVars
  /\ UNCHANGED irVars /\ UNCHANGED countVars /\ UNCHANGED guestVars

\* What a statement touches, in program order.
Touched(st) ==
  LET touch(kind, size) == Event(kind, st.addr, size) IN
  CASE st.tag = "IMark" -> <<touch("Ir", 1)>>
    [] st.tag \in {"Load", "DirtyRead", "LL"} -> <<touch("Dr", Size(st))>>
    [] st.tag \in {"Store", "DirtyWrite", "SC"} -> <<touch("Dw", Size(st))>>
    [] st.tag \in {"DirtyModify", "CAS"} -> <<touch("Dr", Size(st)), touch("Dw", Size(st))>>
    [] st.tag = "DCAS" -> <<touch("Dr", 2 * Size(st)), touch("Dw", 2 * Size(st))>>
    [] OTHER -> <<>>

\* What the statement counts for, once it is tried.
Adds(t, st) ==
  CASE t = "stmts" -> IF here # 0 \/ st.tag = "IMark" THEN 1 ELSE 0
    [] t = "instrs" -> IF st.tag = "IMark" THEN 1 ELSE 0
    [] t = "calls" -> IF st.tag = "IMark" /\ EntryOf[st.addr] = clo_fnname THEN 1 ELSE 0
    [] OTHER -> 0

\* The operations of a type it stands for; a helper's are not broken down.
Operations(op, st) ==
  CASE op = "OpLoad" /\ st.tag \in {"Load", "LL", "CAS"} -> 1
    [] op = "OpStore" /\ st.tag \in {"Store", "SC", "CAS"} -> 1
    [] op \in {"OpLoad", "OpStore"} /\ st.tag = "DCAS" -> 2
    [] op = "OpAlu" /\ st.tag = "Alu" -> 1
    [] OTHER -> 0
TriedOps(st) ==
  [d \in Details |-> ops[d] + (IF d[2] = st.type THEN Operations(d[1], st) ELSE 0)]

\* A statement of the guest program does its work and the next item follows.
RunStatement ==
  /\ Due("stmt") /\ Arg.tag # "Exit"
  /\ here' = IF Arg.tag = "IMark" THEN Arg.addr ELSE here
  /\ done' = done \o Touched(Arg)
  /\ truth' = [t \in Truths |-> truth[t] + Adds(t, Arg)]
  /\ ops' = TriedOps(Arg)
  /\ at' = at + 1
  /\ UNCHANGED <<pc, runs, base, left>> /\ UNCHANGED cloVars
  /\ UNCHANGED irVars /\ UNCHANGED storeVars /\ UNCHANGED countVars

\* The run ends here, with what it touched and counted last.
Leave(how, touched, counted) ==
  /\ pc' = "guest" /\ left' = how /\ done' = done \o touched
  /\ truth' = [t \in Truths |-> truth[t] + counted[t]]
  /\ UNCHANGED <<at, runs, base, here>> /\ UNCHANGED cloVars
  /\ UNCHANGED irVars /\ UNCHANGED storeVars /\ UNCHANGED countVars

\* A data access faults: the guest's signal handler runs next.
RunFault ==
  /\ Due("stmt") /\ Arg.tag \in DataTags
  /\ Leave("fault", Touched(Arg),
           [t \in Truths |-> IF t = "abandoned" THEN 1 ELSE Adds(t, Arg)])
  /\ ops' = TriedOps(Arg)

\* What a side exit adds to the truth: the guest's branch was taken if the
\* exit was, unless the exit leads to the instruction behind the branch.
Branch(t, st, taken) ==
  LET inverted == st.addr = here + 1
      one == \/ t \in {"branches", "stmts"}
             \/ t = "taken" /\ taken # inverted
             \/ t = "abandoned" /\ taken
  IN IF here # 0 /\ one THEN 1 ELSE 0

RunExitTaken ==
  /\ Due("stmt") /\ Arg.tag = "Exit"
  /\ Leave("exit", <<>>, [t \in Truths |-> Branch(t, Arg, TRUE)])
  /\ UNCHANGED ops

RunExitUntaken ==
  /\ Due("stmt") /\ Arg.tag = "Exit"
  /\ truth' = [t \in Truths |-> truth[t] + Branch(t, Arg, FALSE)]
  /\ at' = at + 1
  /\ UNCHANGED <<pc, runs, base, here, done, left, ops>> /\ UNCHANGED cloVars
  /\ UNCHANGED irVars /\ UNCHANGED storeVars /\ UNCHANGED countVars

EndRun ==
  /\ pc = "run" /\ at > Len(sbOut)
  /\ Leave("end", <<>>, [t \in Truths |-> 0])
  /\ UNCHANGED ops

-----------------------------------------------------------------------------
\* md_fini: the figures it prints, its assertions, then __mema_finalize.
total_Jccs == count["Jccs"] + count["IJccs"]
taken_JccsPlain == count["Jccs"] - count["Jccs_untaken"]  \* variant: inverted ones forgotten
taken_Jccs == (count["Jccs"] - count["Jccs_untaken"]) + count["IJccs_untaken"]

FiniUnflushed ==      \* variant: the finalizer does not empty the buffer
  /\ pc = "guest" /\ truth["instrs"] > 0
  /\ pc' = "close"
  /\ UNCHANGED <<at, runs, base>> /\ UNCHANGED cloVars
  /\ UNCHANGED irVars /\ UNCHANGED storeVars /\ UNCHANGED countVars /\ UNCHANGED guestVars

Fini ==
  /\ pc = "guest" /\ truth["instrs"] > 0
  /\ pc' = IF clo_basic_counts /\ (count["SBs_entered"] = 0 \/ count["guest_instrs"] = 0)
             THEN "paranoid" ELSE "fini"
  /\ UNCHANGED <<at, runs, base>> /\ UNCHANGED cloVars
  /\ UNCHANGED irVars /\ UNCHANGED storeVars /\ UNCHANGED countVars /\ UNCHANGED guestVars

Close ==
  /\ pc = "close"
  /\ pc' = "ended" /\ outputfile_fd' = "closed"
  /\ UNCHANGED <<clo_basic_counts, clo_fnname, at, runs, base>>
  /\ UNCHANGED irVars /\ UNCHANGED storeVars /\ UNCHANGED countVars /\ UNCHANGED guestVars

Final == {"ended", "aborted", "paranoid", "killed"}

\* A signal Valgrind cannot catch: what the tool had in memory is gone.
Kill ==
  /\ pc \notin Final
  /\ pc' = "killed"
  /\ iaddr' = 0 /\ events' = <<>> /\ sbOut' = <<>> /\ at' = 0 /\ buf' = <<>>
  /\ count' = [c \in Counters |-> 0] /\ detailCounts' = [d \in Details |-> 0]
  /\ UNCHANGED <<stmts, file, framed, log, runs, base>> /\ UNCHANGED cloVars
  /\ UNCHANGED guestVars

Over == pc \in Final /\ UNCHANGED vars

CommandLine ==
  \/ \E name \in FnNames : OptionName(name)
  \/ \E value \in BOOLEAN : OptionBasicCounts(value)
  \/ \E opened \in BOOLEAN : PostCloInit(opened)
Translate ==
  \/ \E preamble \in Preambles : BeginBlock(preamble)
  \/ \E st \in IRStmts : Instrument(st)
  \/ EndBlock
Run ==
  \/ BeginRun \/ RunCount \/ RunDetail \/ RunTrace \/ RunStatement
  \/ RunFault \/ RunExitTaken \/ RunExitUntaken \/ EndRun
  \/ \E sized \in SizeWrites, written \in BOOLEAN : EmptyBuffer(sized, written)

Next == CommandLine \/ Translate \/ Run \/ Fini \/ Close \/ Kill \/ Over

Spec == Init /\ [][Next]_vars

-----------------------------------------------------------------------------
\* The type of every variable, with the bounds of the two arrays: events is
\* never written past N_EVENTS, mem_accesses never past its last slot.
TypeOK ==
  /\ pc \in {"options", "guest", "first", "instrument", "run", "flush", "fini",
             "close"} \cup Final
  /\ clo_basic_counts \in BOOLEAN /\ clo_fnname \in FnNames \cup {"main"}
  /\ outputfile_fd \in {"none", "open", "closed"}
  /\ iaddr \in Instrs \cup {0}
  /\ events \in Seq(Record) /\ Len(events) <= NEvents
  /\ sbOut \in Seq({"stmt"} \X Stmts \cup {"count"} \X Counters
                   \cup {"detail"} \X Details \cup {"trace"} \X Record)
  /\ at \in Nat /\ buf \in Seq(Record) /\ Len(buf) <= BufSize - 1
  /\ file \in Seq(Record) /\ framed \in BOOLEAN
  /\ count \in [Counters -> Nat] /\ detailCounts \in [Details -> Nat]
  /\ stmts \in Nat /\ runs \in Nat /\ log \in Seq(Record) /\ base \in Nat
  /\ here \in Instrs \cup {0} /\ done \in Seq(Record)
  /\ left \in {"none", "exit", "end", "fault"}
  /\ truth \in [Truths -> Nat] /\ ops \in [Details -> Nat]

\* The statistics of md_fini are those of the guest program, side exits,
\* faults and inverted branches included; its assertions cannot fail.
CountsRight ==
  /\ pc # "paranoid"
  /\ (clo_basic_counts /\ pc \in {"guest", "fini", "ended"}) =>
       /\ total_Jccs = truth["branches"] /\ taken_Jccs = truth["taken"]
       /\ count["SBs_entered"] - count["SBs_completed"] = truth["abandoned"]
       /\ count["guest_instrs"] = truth["instrs"]
       /\ count["func_calls"] = truth["calls"]
       /\ count["IRStmts"] = truth["stmts"]

\* The counts by type are the loads, stores and operations tried, a double
\* compare and swap being two of each.
DetailsRight == pc \in {"guest", "fini", "ended"} => detailCounts = ops

\* A modify record stands for the load and the store it was merged from.
Expanded(r) ==
  IF r.kind = "Dm" THEN <<[r EXCEPT !.kind = "Dr"], [r EXCEPT !.kind = "Dw"]>> ELSE <<r>>
Accesses(records) == FlattenSeq([i \in 1..Len(records) |-> Expanded(records[i])])
Logged == Accesses(SubSeq(log, base + 1, Len(log)))

\* "an ordered list of memory events ... must be flushed before any possible
\* exit from the block": when the guest leaves a translation by its end or a
\* side exit, the records of that run are its accesses in program order.  A
\* fault loses only what was pending, and never puts records out of order.
LogOfRun ==
  pc = "guest" =>
    /\ left \in {"exit", "end"} => Logged = done
    /\ left = "fault" => /\ IsPrefix(Logged, done)
                        /\ Len(done) - Len(Logged) <= 2 * NEvents

\* tl_assert((SizeT)r1 == compressed_size1) (md_main.c:355) and the finalizer: a
\* tool that comes to its end has written every block, and when no size was cut
\* short, which nothing looks at, the trace holds all that was recorded.
EndedWhole == pc = "ended" /\ framed => file = log

\* The tool keeps the promise of TraceLog with the guest as its one writer.
Log == INSTANCE TraceLog WITH Writers <- {"guest"}, Entries <- Record,
         status <- [w \in {"guest"} |-> IF outputfile_fd = "none" THEN "idle"
                                        ELSE IF pc \in Final THEN "ended" ELSE "writing"],
         log <- [w \in {"guest"} |-> log],
         disk <- [w \in {"guest"} |-> file]
ImplementsTraceLog == Log!Spec
=============================================================================
