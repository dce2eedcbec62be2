--------------------------- MODULE MemadumpProofs ---------------------------
(***************************************************************************)
(* Proofs about the Valgrind tool, for every set of statements, every      *)
(* number of outstanding events and every size of the buffer.              *)
(***************************************************************************)
EXTENDS Memadump, SequenceTheorems, RecursionLemmas, TLAPS

USE EventAssumption, BufferAssumption, SizeWriteAssumption

\* What a translation consists of.
Items == {"stmt"} \X Stmts \cup {"count"} \X Counters
         \cup {"detail"} \X Details \cup {"trace"} \X Record

\* A translation under way, with no more outstanding events than have room.
Works == {w \in [events: Seq(Record), out: Seq(Items)] : Len(w.events) <= NEvents}

-----------------------------------------------------------------------------
\* The parts of a statement.
LEMMA StmtParts ==
  ASSUME NEW st \in Stmts
  PROVE  /\ st.tag \in DataTags => st.addr \in Atoms /\ st.type \in Types
         /\ st.tag = "IMark" => st.addr \in Instrs
         /\ st.tag = "Alu" => st.type \in Types
  BY DEF Stmts, DataStmts, DataTags, IMarks, Exits, Alus, Others

\* The size of a data access is one that a record can have.
LEMMA DataSize ==
  ASSUME NEW st \in Stmts, st.tag \in DataTags
  PROVE  Size(st) \in Sizes /\ 2 * Size(st) \in Sizes
  BY StmtParts DEF Size, Sizes

\* An event of one of the four kinds is a record.
LEMMA EventRecord ==
  ASSUME NEW k \in {"Ir", "Dr", "Dw", "Dm"}, NEW a \in Atoms \cup Instrs, NEW s \in Sizes
  PROVE  Event(k, a, s) \in Record
  BY DEF Event, Record

\* Emitting an item keeps a translation one.
LEMMA EmitWork ==
  ASSUME NEW w \in Works, NEW kind, NEW arg, <<kind, arg>> \in Items
  PROVE  Emit(w, kind, arg) \in Works
<1>1. Append(w.out, <<kind, arg>>) \in Seq(Items)
  BY AppendProperties DEF Works
<1> QED
  BY <1>1 DEF Works, Emit, Item

\* The same of a condition and a counter.
LEMMA EmitIfWork ==
  ASSUME NEW w \in Works, NEW c \in BOOLEAN, NEW counter \in Counters
  PROVE  EmitIf(c, w, "count", counter) \in Works
<1>1. <<"count", counter>> \in Items
  BY DEF Items
<1> QED
  BY <1>1, EmitWork DEF EmitIf

\* instrument_detail adds a count of a type.
LEMMA DetailWork ==
  ASSUME NEW w \in Works, NEW op \in {"OpLoad", "OpStore", "OpAlu"}, NEW t \in Types
  PROVE  instrument_detail(w, op, t) \in Works
<1>1. <<"detail", <<op, t>>>> \in Items
  BY DEF Items, Details
<1> QED
  BY <1>1, EmitWork DEF instrument_detail

\* flushEvents leaves no outstanding event.
LEMMA FlushWork ==
  ASSUME NEW w \in Works
  PROVE  flushEvents(w) \in Works /\ flushEvents(w).events = <<>>
<1> DEFINE calls == [i \in 1..Len(w.events) |-> Item("trace", w.events[i])]
<1>1. /\ w.events \in Seq(Record) /\ Len(w.events) \in Nat /\ w.out \in Seq(Items)
  BY DEF Works
<1>2. \A i \in 1..Len(w.events) : Item("trace", w.events[i]) \in Items
  BY <1>1 DEF Item, Items
<1>3. calls \in Seq(Items)
  BY <1>1, <1>2
<1>4. w.out \o calls \in Seq(Items)
  BY <1>1, <1>3, ConcatProperties
<1>5. <<>> \in Seq(Record) /\ Len(<<>>) <= NEvents
  BY EmptySeq
<1> HIDE DEF calls
<1>6. flushEvents(w) = [events |-> <<>>, out |-> w.out \o calls]
  BY DEF flushEvents, calls
<1> QED
  BY <1>4, <1>5, <1>6 DEF Works

\* addEvent_Ir, addEvent_Dr and addEvent_Dw never write past N_EVENTS: a full
\* list is flushed before the event is added.
LEMMA AddWork ==
  ASSUME NEW w \in Works, NEW e \in Record
  PROVE  AddEvent(w, e) \in Works
<1> DEFINE room == IF Len(w.events) = NEvents THEN flushEvents(w) ELSE w
<1>1. room \in Works /\ Len(room.events) < NEvents
  <2>1. CASE Len(w.events) = NEvents
    BY <2>1, FlushWork, EmptySeq
  <2>2. CASE Len(w.events) # NEvents
    <3>1. Len(w.events) \in Nat /\ Len(w.events) <= NEvents
      BY DEF Works
    <3> QED
      BY <2>2, <3>1
  <2> QED
    BY <2>1, <2>2
<1> HIDE DEF room
<1>2. room.events \in Seq(Record)
  BY <1>1 DEF Works
<1>3. Append(room.events, e) \in Seq(Record) /\ Len(Append(room.events, e)) <= NEvents
  BY <1>1, <1>2, AppendProperties, LenProperties
<1>4. [room EXCEPT !.events = Append(@, e)] \in Works
  BY <1>1, <1>3 DEF Works
<1> QED
  BY <1>4 DEF AddEvent, room

\* A store, merged with the load before it or added.
LEMMA StoreWork ==
  ASSUME NEW w \in Works, NEW a \in Atoms, NEW s \in Sizes
  PROVE  addEvent_Dw(w, a, s) \in Works
<1>1. CASE Merges(w.events, a, s)
  <2> DEFINE n == Len(w.events)
             merged == [w.events EXCEPT ![n].kind = "Dm"]
  <2>1. w.events \in Seq(Record) /\ n \in Nat \ {0} /\ n <= NEvents
    BY <1>1, EmptySeq, LenProperties DEF Works, Merges
  <2>2. w.events[n] \in Record
    BY <2>1, ElementOfSeq
  <2>3. [w.events[n] EXCEPT !.kind = "Dm"] \in Record
    BY <2>2 DEF Record
  <2>4. merged = [w.events EXCEPT ![n] = [w.events[n] EXCEPT !.kind = "Dm"]]
    BY <2>1, <2>2
  <2>5. merged \in Seq(Record) /\ Len(merged) = n
    BY <2>1, <2>3, <2>4
  <2>6. [w EXCEPT !.events = merged] \in Works
    BY <2>1, <2>5 DEF Works
  <2>7. [w EXCEPT !.events[Len(w.events)].kind = "Dm"] = [w EXCEPT !.events = merged]
    BY DEF Works
  <2> QED
    BY <1>1, <2>6, <2>7 DEF addEvent_Dw
<1>2. CASE ~Merges(w.events, a, s)
  BY <1>2, EventRecord, AddWork DEF addEvent_Dw
<1> QED
  BY <1>1, <1>2

\* A load.
LEMMA LoadWork ==
  ASSUME NEW w \in Works, NEW a \in Atoms, NEW s \in Sizes
  PROVE  addEvent_Dr(w, a, s) \in Works
  BY EventRecord, AddWork DEF addEvent_Dr

-----------------------------------------------------------------------------
\* What has been stored and not lost: until the tool has ended the log is what
\* the file holds followed by the buffer, the buffer is full only when it is
\* about to be emptied, and nothing is stored before the file is open.  A size
\* not written whole, where there can be one, ends what the file holds.
Stored ==
  /\ outputfile_fd = "none" =>
       pc \in {"options", "aborted", "killed"} /\ file = <<>> /\ log = <<>>
  /\ pc = "options" => outputfile_fd = "none" /\ buf = <<>>
  /\ pc \notin Final /\ framed => log = file \o buf
  /\ SizeWrites = {TRUE} => framed
  /\ pc \notin Final \cup {"flush"} => Len(buf) < BufSize - 1

\* A translation that runs, or waits for the buffer to be emptied, is past its
\* start.
Started == pc \in {"run", "flush"} => at # 0

IInv == TypeOK /\ Stored /\ Started

\* The outstanding events and the code emitted so far are a translation.
LEMMA WorkType ==
  ASSUME TypeOK
  PROVE  Work \in Works
  BY DEF TypeOK, Work, Works, Items

\* One turn of the loop keeps the types.
LEMMA TurnType ==
  ASSUME TypeOK, NEW before \in Works, NEW st \in IRStmts, NEW after \in Seq(Items),
         Turn(before, st, after), iaddr' \in Instrs \cup {0}
  PROVE  TypeOK'
<1>1. <<"stmt", st>> \in Items
  BY StatementAssumption DEF Items
<1>2. before.events \in Seq(Record) /\ Len(before.events) <= NEvents /\ before.out \in Seq(Items)
  BY DEF Works
<1>3. Append(before.out, <<"stmt", st>>) \in Seq(Items)
  BY <1>1, <1>2, AppendProperties
<1>4. Append(before.out, <<"stmt", st>>) \o after \in Seq(Items)
  BY <1>3, ConcatProperties
<1>5. sbOut' \in Seq(Items)
  BY <1>4 DEF Turn, Item
<1>6. events' \in Seq(Record) /\ Len(events') <= NEvents
  BY <1>2 DEF Turn
<1>7. stmts' \in Nat /\ pc' = "instrument"
  BY DEF Turn, TypeOK
<1> QED
  BY <1>5, <1>6, <1>7 DEF TypeOK, Turn, Items, Final, cloVars, storeVars, countVars, guestVars

\* What is counted ahead of every statement.
LEMMA CountedWork ==
  ASSUME TypeOK
  PROVE  Counted \in Works /\ <<>> \in Seq(Items)
<1>1. clo_basic_counts \in BOOLEAN /\ "IRStmts" \in Counters
  BY DEF TypeOK, Counters
<1> QED
  BY <1>1, WorkType, EmitIfWork, EmptySeq DEF Counted

\* Every case of md_instrument's switch keeps the types.
LEMMA InstrumentType ==
  ASSUME TypeOK, NEW st \in IRStmts, Instrument(st)
  PROVE  TypeOK'
<1>0. /\ st \in Stmts /\ Counted \in Works /\ <<>> \in Seq(Items)
      /\ clo_basic_counts \in BOOLEAN /\ iaddr \in Instrs \cup {0}
  BY StatementAssumption, CountedWork DEF TypeOK
<1>1. CASE InstrumentOther(st)
  BY <1>0, <1>1, TurnType DEF InstrumentOther
<1>2. CASE InstrumentAlu(st)
  <2>1. instrument_detail(Counted, "OpAlu", st.type) \in Works
    BY <1>0, <1>2, StmtParts, DetailWork DEF InstrumentAlu
  <2> QED
    BY <1>0, <1>2, <2>1, TurnType DEF InstrumentAlu
<1>3. CASE InstrumentIMark(st)
  <2>1. st.addr \in Instrs
    BY <1>0, <1>3, StmtParts DEF InstrumentIMark
  <2>2. CountsOfIMark(Counted, st.addr) \in Works
    <3>1. EmitIf(clo_basic_counts, Counted, "count", "guest_instrs") \in Works
      BY <1>0, EmitIfWork DEF Counters
    <3> QED
      BY <3>1, EmitIfWork DEF CountsOfIMark, Counters
  <2>3. addEvent_Ir(CountsOfIMark(Counted, st.addr), st.addr, 1) \in Works
    BY <2>1, <2>2, EventRecord, AddWork DEF addEvent_Ir, Sizes
  <2>4. iaddr' \in Instrs \cup {0}
    BY <1>0, <1>3, <2>1 DEF InstrumentIMark, Remembered
  <2> QED
    BY <1>0, <1>3, <2>3, <2>4, TurnType DEF InstrumentIMark
<1>4. ASSUME st.tag \in DataTags
      PROVE  /\ st.addr \in Atoms /\ st.type \in Types
             /\ Size(st) \in Sizes /\ 2 * Size(st) \in Sizes
  BY <1>0, <1>4, StmtParts, DataSize
<1>5. CASE InstrumentLoad(st)
  <2>1. addEvent_Dr(Counted, st.addr, Size(st)) \in Works
    BY <1>0, <1>4, <1>5, LoadWork DEF InstrumentLoad, DataTags
  <2>2. instrument_detail(addEvent_Dr(Counted, st.addr, Size(st)), "OpLoad", st.type) \in Works
    BY <2>1, <1>4, <1>5, DetailWork DEF InstrumentLoad, DataTags
  <2> QED
    BY <1>0, <1>5, <2>2, TurnType DEF InstrumentLoad
<1>6. CASE InstrumentStore(st)
  <2>1. addEvent_Dw(Counted, st.addr, Size(st)) \in Works
    BY <1>0, <1>4, <1>6, StoreWork DEF InstrumentStore, DataTags
  <2>2. instrument_detail(addEvent_Dw(Counted, st.addr, Size(st)), "OpStore", st.type) \in Works
    BY <2>1, <1>4, <1>6, DetailWork DEF InstrumentStore, DataTags
  <2> QED
    BY <1>0, <1>6, <2>2, TurnType DEF InstrumentStore
<1>7. CASE InstrumentDirty(st)
  <2> DEFINE read == IF st.tag = "DirtyWrite" THEN Counted
                     ELSE addEvent_Dr(Counted, st.addr, Size(st))
             both == IF st.tag = "DirtyRead" THEN read
                     ELSE addEvent_Dw(read, st.addr, Size(st))
  <2>1. st.addr \in Atoms /\ Size(st) \in Sizes
    BY <1>4, <1>7 DEF InstrumentDirty, DataTags
  <2>2. read \in Works
    BY <1>0, <2>1, LoadWork
  <2>3. both \in Works
    BY <2>1, <2>2, StoreWork
  <2>4. Turn(both, st, <<>>) /\ iaddr' = iaddr
    BY <1>7 DEF InstrumentDirty
  <2> QED
    BY <1>0, <2>3, <2>4, TurnType
<1>8. CASE InstrumentCAS(st)
  <2> DEFINE size == IF st.tag = "DCAS" THEN 2 * Size(st) ELSE Size(st)
             both == addEvent_Dw(addEvent_Dr(Counted, st.addr, size), st.addr, size)
  <2>1. st.addr \in Atoms /\ size \in Sizes /\ st.type \in Types
    BY <1>4, <1>8 DEF InstrumentCAS, DataTags
  <2>2. addEvent_Dr(Counted, st.addr, size) \in Works
    BY <1>0, <2>1, LoadWork
  <2>3. both \in Works
    BY <2>1, <2>2, StoreWork
  <2> HIDE DEF both
  <2>4. CASDetails(both, st) \in Works
    BY <2>1, <2>3, DetailWork DEF CASDetails
  <2>5. Turn(CASDetails(both, st), st, <<>>) /\ iaddr' = iaddr
    BY <1>8 DEF InstrumentCAS, both
  <2> QED
    BY <1>0, <2>4, <2>5, TurnType
<1>9. CASE InstrumentLL(st)
  <2>1. addEvent_Dr(Counted, st.addr, Size(st)) \in Works /\ st.type \in Types
    BY <1>0, <1>4, <1>9, LoadWork DEF InstrumentLL, DataTags
  <2>2. flushEvents(addEvent_Dr(Counted, st.addr, Size(st))) \in Works
    BY <2>1, FlushWork
  <2>3. instrument_detail(flushEvents(addEvent_Dr(Counted, st.addr, Size(st))),
                          "OpLoad", st.type) \in Works
    BY <2>1, <2>2, DetailWork
  <2> QED
    BY <1>0, <1>9, <2>3, TurnType DEF InstrumentLL
<1>10. CASE InstrumentSC(st)
  <2>1. addEvent_Dw(Counted, st.addr, Size(st)) \in Works /\ st.type \in Types
    BY <1>0, <1>4, <1>10, StoreWork DEF InstrumentSC, DataTags
  <2>2. instrument_detail(addEvent_Dw(Counted, st.addr, Size(st)), "OpStore", st.type) \in Works
    BY <2>1, DetailWork
  <2> QED
    BY <1>0, <1>10, <2>2, TurnType DEF InstrumentSC
<1>11. CASE InstrumentExit(st)
  <2> DEFINE after == IF clo_basic_counts THEN <<Item("count", JccUntaken(st))>> ELSE <<>>
  <2>1. Jcc(st) \in Counters /\ JccUntaken(st) \in Counters
    BY DEF Jcc, JccUntaken, Counters
  <2>2. BeforeExit(st) \in Works
    BY <1>0, <2>1, EmitIfWork, FlushWork DEF BeforeExit
  <2>3. after \in Seq(Items)
    <3>1. Item("count", JccUntaken(st)) \in Items
      BY <2>1 DEF Item, Items
    <3> QED
      BY <1>0, <3>1
  <2> HIDE DEF after
  <2>4. Turn(BeforeExit(st), st, after) /\ iaddr' = iaddr
    BY <1>11 DEF InstrumentExit, after
  <2> QED
    BY <1>0, <2>2, <2>3, <2>4, TurnType
<1> QED
  BY <1>1, <1>2, <1>3, <1>5, <1>6, <1>7, <1>8, <1>9, <1>10, <1>11 DEF Instrument

-----------------------------------------------------------------------------
\* What runs next is an item of the translation.
LEMMA DueItem ==
  ASSUME IInv, NEW kind, Due(kind)
  PROVE  /\ kind = "stmt" => Arg \in Stmts
         /\ kind = "count" => Arg \in Counters
         /\ kind = "detail" => Arg \in Details
         /\ kind = "trace" => Arg \in Record
<1>1. at \in 1..Len(sbOut) /\ sbOut \in Seq(Items)
  BY LenProperties DEF IInv, TypeOK, Started, Due, Items
<1>2. sbOut[at] \in Items /\ sbOut[at][1] = kind
  BY <1>1, ElementOfSeq DEF Due
<1> HIDE DEF Record, Stmts, Counters, Details
<1> QED
  BY <1>2 DEF Items, Arg

\* A helper stores a record in the buffer.
LEMMA TraceType ==
  ASSUME IInv, RunTrace
  PROVE  TypeOK' /\ Stored' /\ Started'
<1>1. Arg \in Record
  BY DueItem DEF RunTrace
<1>2. buf \in Seq(Record) /\ log \in Seq(Record) /\ file \in Seq(Record) /\ pc = "run"
  BY DEF IInv, TypeOK, RunTrace, Due
<1>3. Len(buf) < BufSize - 1 /\ (framed => log = file \o buf)
  BY <1>2 DEF IInv, Stored, Final
<1>4. /\ buf' \in Seq(Record) /\ log' \in Seq(Record) /\ Len(buf') = Len(buf) + 1
      /\ Len(buf) \in Nat
  BY <1>1, <1>2, AppendProperties, LenProperties DEF RunTrace
<1>5. framed => log' = file \o buf'
  <2>1. Append(file \o buf, Arg) = file \o Append(buf, Arg)
    <3>1. <<Arg>> \in Seq(Record)
      BY <1>1
    <3>2. /\ Append(file \o buf, Arg) = (file \o buf) \o <<Arg>>
          /\ Append(buf, Arg) = buf \o <<Arg>>
      BY <1>1, <1>2, ConcatProperties, AppendIsConcat
    <3> QED
      BY <1>2, <3>1, <3>2, ConcatAssociative
  <2> QED
    BY <1>3, <2>1 DEF RunTrace
<1>6. TypeOK'
  BY <1>3, <1>4 DEF IInv, TypeOK, RunTrace, cloVars, irVars, countVars, guestVars
<1>7. Stored'
  <2>1. outputfile_fd' = outputfile_fd /\ outputfile_fd # "none"
    BY <1>2 DEF IInv, Stored, RunTrace, cloVars
  <2>2. pc' \in {"run", "flush"} /\ (pc' # "flush" => Len(buf') # BufSize - 1)
    BY DEF RunTrace, Full
  <2>3. pc' # "flush" => Len(buf') < BufSize - 1
    BY <1>3, <1>4, <2>2
  <2>4. file' = file /\ framed' = framed /\ pc = "run"
    BY DEF RunTrace, Due
  <2> QED
    BY <1>5, <2>1, <2>2, <2>3, <2>4 DEF IInv, Stored, Final
<1>8. Started'
  BY DEF IInv, TypeOK, Started, RunTrace
<1> QED
  BY <1>6, <1>7, <1>8

\* The buffer is emptied into the file, or the tool ends.
LEMMA EmptyType ==
  ASSUME IInv, NEW sized \in SizeWrites, NEW written \in BOOLEAN,
         EmptyBuffer(sized, written)
  PROVE  TypeOK' /\ Stored' /\ Started'
<1>1. /\ buf \in Seq(Record) /\ file \in Seq(Record) /\ log \in Seq(Record)
      /\ pc \in {"flush", "fini"} /\ <<>> \in Seq(Record) /\ Len(<<>>) = 0
  BY EmptySeq DEF IInv, TypeOK, EmptyBuffer
<1>2. framed => log = file \o buf
  BY <1>1 DEF IInv, Stored, Final
<1>3. file \o buf \in Seq(Record) /\ (file \o buf) \o <<>> = file \o buf
  BY <1>1, ConcatProperties, ConcatEmptySeq
<1>4. TypeOK'
  BY <1>1, <1>3 DEF IInv, TypeOK, EmptyBuffer, cloVars, irVars, countVars, guestVars, Final
<1>5. Stored'
  <2>1. /\ framed' = (framed /\ sized) /\ log' = log /\ outputfile_fd' = outputfile_fd
        /\ file' = IF framed' /\ written THEN file \o buf ELSE file
        /\ buf' = IF written THEN <<>> ELSE buf
        /\ pc' = IF ~written THEN "aborted" ELSE IF pc = "flush" THEN "run" ELSE "close"
    BY DEF EmptyBuffer, cloVars
  <2>2. SizeWrites = {TRUE} => framed'
    BY <2>1 DEF IInv, Stored
  <2>3. pc' \notin Final /\ framed' => log' = file' \o buf'
    BY <1>2, <1>3, <2>1 DEF Final
  <2>4. outputfile_fd' # "none" /\ pc' # "options"
    BY <1>1, <2>1 DEF IInv, Stored
  <2>5. pc' \notin Final \cup {"flush"} => Len(buf') < BufSize - 1
    BY <1>1, <2>1 DEF Final
  <2> QED
    BY <2>2, <2>3, <2>4, <2>5 DEF Stored
<1>6. Started'
  BY <1>1 DEF IInv, Started, EmptyBuffer
<1> QED
  BY <1>4, <1>5, <1>6

\* What a statement touches are records.
LEMMA TouchedType ==
  ASSUME NEW st \in Stmts
  PROVE  Touched(st) \in Seq(Record)
<1>1. CASE st.tag = "IMark"
  <2>1. Event("Ir", st.addr, 1) \in Record
    BY <1>1, StmtParts, EventRecord DEF Sizes
  <2> QED
    BY <1>1, <2>1 DEF Touched
<1>2. CASE st.tag \in DataTags
  <2>1. /\ Event("Dr", st.addr, Size(st)) \in Record
        /\ Event("Dw", st.addr, Size(st)) \in Record
        /\ Event("Dr", st.addr, 2 * Size(st)) \in Record
        /\ Event("Dw", st.addr, 2 * Size(st)) \in Record
    BY <1>2, StmtParts, DataSize, EventRecord
  <2> QED
    BY <1>2, <2>1 DEF Touched, DataTags
<1>3. CASE st.tag # "IMark" /\ st.tag \notin DataTags
  <2>1. Touched(st) = <<>>
    BY <1>3 DEF Touched, DataTags
  <2> QED
    BY <2>1, EmptySeq
<1> QED
  BY <1>1, <1>2, <1>3

\* What a statement counts for are numbers.
LEMMA CountedType ==
  ASSUME TypeOK, NEW st \in Stmts
  PROVE  /\ \A t \in Truths : Adds(t, st) \in Nat
         /\ \A t \in Truths, taken \in BOOLEAN : Branch(t, st, taken) \in Nat
         /\ TriedOps(st) \in [Details -> Nat]
<1>1. \A t \in Truths : Adds(t, st) \in Nat
  BY DEF Adds, Truths
<1>2. \A t \in Truths, taken \in BOOLEAN : Branch(t, st, taken) \in Nat
  BY DEF Branch, Truths
<1>3. \A op \in {"OpLoad", "OpStore", "OpAlu"} : Operations(op, st) \in Nat
  BY DEF Operations
<1>4. \A d \in Details : d[1] \in {"OpLoad", "OpStore", "OpAlu"} /\ ops[d] \in Nat
  BY DEF TypeOK, Details
<1>5. TriedOps(st) \in [Details -> Nat]
  <2>1. \A d \in Details :
          ops[d] + (IF d[2] = st.type THEN Operations(d[1], st) ELSE 0) \in Nat
    BY <1>3, <1>4
  <2> QED
    BY <2>1 DEF TriedOps
<1> QED
  BY <1>1, <1>2, <1>5

\* Leaving a translation keeps the types.
LEMMA LeaveType ==
  ASSUME TypeOK, NEW how \in {"exit", "end", "fault"}, NEW touched \in Seq(Record),
         NEW counted \in [Truths -> Nat], Leave(how, touched, counted),
         ops' \in [Details -> Nat]
  PROVE  TypeOK'
<1>1. done' \in Seq(Record)
  BY ConcatProperties DEF TypeOK, Leave
<1>2. truth' \in [Truths -> Nat]
  <2>1. \A t \in Truths : truth[t] + counted[t] \in Nat
    BY DEF TypeOK
  <2> QED
    BY <2>1 DEF Leave
<1> QED
  BY <1>1, <1>2 DEF TypeOK, Leave, cloVars, irVars, storeVars, countVars

\* Running an item that is no call to a trace helper, or leaving, keeps the
\* types.
LEMMA RunType ==
  ASSUME IInv,
         BeginRun \/ RunCount \/ RunDetail \/ RunStatement \/ RunFault
           \/ RunExitTaken \/ RunExitUntaken \/ EndRun
  PROVE  TypeOK'
<1>0. TypeOK
  BY DEF IInv
<1>1. CASE BeginRun
  <2>1. /\ done' \in Seq(Record) /\ base' \in Nat /\ runs' \in Nat
    BY <1>0, <1>1, EmptySeq, LenProperties DEF BeginRun, TypeOK
  <2> QED
    BY <1>0, <1>1, <2>1 DEF TypeOK, BeginRun, cloVars, irVars, storeVars, countVars
<1>2. CASE RunCount
  <2>1. Arg \in Counters
    BY <1>2, DueItem DEF RunCount
  <2> QED
    BY <1>0, <1>2, <2>1, SMTT(20) DEF TypeOK, RunCount, cloVars, irVars, storeVars, guestVars
<1>3. CASE RunDetail
  <2>1. Arg \in Details
    BY <1>3, DueItem DEF RunDetail
  <2> QED
    BY <1>0, <1>3, <2>1, SMTT(20) DEF TypeOK, RunDetail, cloVars, irVars, storeVars, guestVars
<1>4. CASE RunStatement
  <2>1. Arg \in Stmts
    BY <1>4, DueItem DEF RunStatement
  <2>2. done' \in Seq(Record)
    BY <1>0, <1>4, <2>1, TouchedType, ConcatProperties DEF TypeOK, RunStatement
  <2>3. truth' \in [Truths -> Nat]
    <3>1. \A t \in Truths : truth[t] + Adds(t, Arg) \in Nat
      BY <1>0, <2>1, CountedType DEF TypeOK
    <3> QED
      BY <1>4, <3>1 DEF RunStatement
  <2>4. ops' \in [Details -> Nat]
    BY <1>0, <1>4, <2>1, CountedType DEF RunStatement
  <2>5. here' \in Instrs \cup {0}
    BY <1>0, <1>4, <2>1, StmtParts DEF RunStatement, TypeOK
  <2> QED
    BY <1>0, <1>4, <2>2, <2>3, <2>4, <2>5
       DEF TypeOK, RunStatement, cloVars, irVars, storeVars, countVars
<1>5. CASE RunFault
  <2> DEFINE counted == [t \in Truths |-> IF t = "abandoned" THEN 1 ELSE Adds(t, Arg)]
  <2>1. Arg \in Stmts
    BY <1>5, DueItem DEF RunFault
  <2>2. counted \in [Truths -> Nat]
    BY <1>0, <2>1, CountedType
  <2>3. Touched(Arg) \in Seq(Record) /\ TriedOps(Arg) \in [Details -> Nat]
    BY <1>0, <2>1, TouchedType, CountedType
  <2> HIDE DEF counted
  <2>4. Leave("fault", Touched(Arg), counted) /\ ops' = TriedOps(Arg)
    BY <1>5 DEF RunFault, counted
  <2> QED
    BY <1>0, <2>2, <2>3, <2>4, LeaveType
<1>6. CASE RunExitTaken
  <2> DEFINE counted == [t \in Truths |-> Branch(t, Arg, TRUE)]
  <2>1. Arg \in Stmts
    BY <1>6, DueItem DEF RunExitTaken
  <2>2. counted \in [Truths -> Nat]
    BY <1>0, <2>1, CountedType
  <2> HIDE DEF counted
  <2>3. Leave("exit", <<>>, counted) /\ ops' \in [Details -> Nat]
    BY <1>0, <1>6 DEF RunExitTaken, counted, TypeOK
  <2> QED
    BY <1>0, <2>2, <2>3, EmptySeq, LeaveType
<1>7. CASE RunExitUntaken
  <2>1. Arg \in Stmts
    BY <1>7, DueItem DEF RunExitUntaken
  <2>2. truth' \in [Truths -> Nat]
    <3> DEFINE counted == [t \in Truths |-> Branch(t, Arg, FALSE)]
    <3>1. counted \in [Truths -> Nat]
      BY <1>0, <2>1, CountedType
    <3>2. truth' = [t \in Truths |-> truth[t] + counted[t]]
      BY <1>7 DEF RunExitUntaken
    <3> HIDE DEF counted
    <3>3. \A t \in Truths : truth[t] + counted[t] \in Nat
      BY <1>0, <3>1 DEF TypeOK
    <3> QED
      BY <3>2, <3>3
  <2>3. /\ at' = at + 1
        /\ UNCHANGED <<pc, runs, base, here, done, left, ops>> /\ UNCHANGED cloVars
        /\ UNCHANGED irVars /\ UNCHANGED storeVars /\ UNCHANGED countVars
    BY <1>7 DEF RunExitUntaken
  <2> QED
    BY <1>0, <2>2, <2>3 DEF TypeOK, cloVars, irVars, storeVars, countVars
<1>8. CASE EndRun
  <2> DEFINE counted == [t \in Truths |-> 0]
  <2>1. counted \in [Truths -> Nat]
    OBVIOUS
  <2> HIDE DEF counted
  <2>2. Leave("end", <<>>, counted) /\ ops' \in [Details -> Nat]
    BY <1>0, <1>8 DEF EndRun, counted, TypeOK
  <2> QED
    BY <1>0, <2>1, <2>2, EmptySeq, LeaveType
<1> QED
  BY <1>1, <1>2, <1>3, <1>4, <1>5, <1>6, <1>7, <1>8

-----------------------------------------------------------------------------
\* The start of md_instrument keeps the types.
LEMMA BeginBlockType ==
  ASSUME TypeOK, NEW preamble \in Preambles, BeginBlock(preamble)
  PROVE  TypeOK'
<1> DEFINE copied == [i \in 1..Len(preamble) |-> Item("stmt", preamble[i])]
           begun == [Work EXCEPT !.out = copied]
<1>1. preamble \in Seq(Stmts)
  <2>1. preamble \in Seq(Exits \cup Others)
    BY PreambleAssumption
  <2>2. \A i \in 1..Len(preamble) : preamble[i] \in Stmts
    BY <2>1, ElementOfSeq DEF Stmts
  <2> QED
    BY <2>1, <2>2
<1>2. copied \in Seq(Items)
  <2>1. Len(preamble) \in Nat
    BY <1>1, LenProperties
  <2>2. \A i \in 1..Len(preamble) : Item("stmt", preamble[i]) \in Items
    BY <1>1, ElementOfSeq DEF Item, Items
  <2> QED
    BY <2>1, <2>2
<1> HIDE DEF copied
<1>3. begun \in Works
  BY <1>2, WorkType DEF Works
<1>4. clo_basic_counts \in BOOLEAN /\ "SBs_entered" \in Counters
  BY DEF TypeOK, Counters
<1>5. EmitIf(clo_basic_counts, begun, "count", "SBs_entered") \in Works
  BY <1>3, <1>4, EmitIfWork
<1>6. sbOut' \in Seq(Items)
  BY <1>5 DEF BeginBlock, copied, Works
<1>7. events' \in Seq(Record) /\ Len(events') <= NEvents
  BY EmptySeq DEF BeginBlock
<1>8. iaddr' = 0 /\ pc' = "first"
  BY DEF BeginBlock
<1>9. /\ UNCHANGED <<at, runs, base, stmts>> /\ UNCHANGED cloVars
      /\ UNCHANGED storeVars /\ UNCHANGED countVars /\ UNCHANGED guestVars
  BY DEF BeginBlock
<1> QED
  BY <1>6, <1>7, <1>8, <1>9 DEF TypeOK, Items, cloVars, storeVars, countVars, guestVars

\* The end of md_instrument keeps the types.
LEMMA EndBlockType ==
  ASSUME TypeOK, EndBlock
  PROVE  TypeOK'
<1>1. clo_basic_counts \in BOOLEAN /\ "SBs_completed" \in Counters
  BY DEF TypeOK, Counters
<1>2. EndOfBlock \in Works
  BY <1>1, WorkType, EmitIfWork, FlushWork DEF EndOfBlock
<1>3. events' \in Seq(Record) /\ Len(events') <= NEvents /\ sbOut' \in Seq(Items)
  BY <1>2 DEF EndBlock, Works
<1>4. /\ pc' = "guest" /\ UNCHANGED <<iaddr, stmts, at, runs, base>> /\ UNCHANGED cloVars
      /\ UNCHANGED storeVars /\ UNCHANGED countVars /\ UNCHANGED guestVars
  BY DEF EndBlock
<1> QED
  BY <1>3, <1>4 DEF TypeOK, Items, cloVars, storeVars, countVars, guestVars

\* A killed tool has empty memory.
LEMMA KillType ==
  ASSUME TypeOK, Kill
  PROVE  TypeOK'
<1>1. /\ count' \in [Counters -> Nat] /\ detailCounts' \in [Details -> Nat]
      /\ pc' = "killed" /\ iaddr' = 0 /\ at' = 0
      /\ UNCHANGED <<stmts, file, framed, log, runs, base>> /\ UNCHANGED cloVars
      /\ UNCHANGED guestVars
  BY DEF Kill
<1>2. events' = <<>> /\ sbOut' = <<>> /\ buf' = <<>>
  BY DEF Kill
<1>3. events' \in Seq(Record) /\ buf' \in Seq(Record) /\ sbOut' \in Seq(Items)
  BY <1>2, EmptySeq
<1>4. Len(events') <= NEvents /\ Len(buf') <= BufSize - 1
  BY <1>2, EmptySeq
<1> QED
  BY <1>1, <1>3, <1>4 DEF TypeOK, Items, Final, cloVars, guestVars

\* The steps that belong to no run and no translation keep the types.
LEMMA OtherType ==
  ASSUME TypeOK, CommandLine \/ Fini \/ Close \/ UNCHANGED vars
  PROVE  TypeOK'
<1>1. ASSUME NEW name \in FnNames, OptionName(name)
      PROVE  TypeOK'
  BY <1>1 DEF TypeOK, OptionName, irVars, storeVars, countVars, guestVars, Final
<1>2. ASSUME NEW value \in BOOLEAN, OptionBasicCounts(value)
      PROVE  TypeOK'
  BY <1>2 DEF TypeOK, OptionBasicCounts, irVars, storeVars, countVars, guestVars, Final
<1>3. ASSUME NEW opened \in BOOLEAN, PostCloInit(opened)
      PROVE  TypeOK'
  BY <1>3 DEF TypeOK, PostCloInit, irVars, storeVars, countVars, guestVars, Final
<1>4. CASE Fini
  BY <1>4 DEF TypeOK, Fini, cloVars, irVars, storeVars, countVars, guestVars, Final
<1>5. CASE Close
  BY <1>5 DEF TypeOK, Close, irVars, storeVars, countVars, guestVars, Final
<1>6. CASE UNCHANGED vars
  BY <1>6 DEF TypeOK, vars
<1> QED
  BY <1>1, <1>2, <1>3, <1>4, <1>5, <1>6 DEF CommandLine

\* Every step keeps the types.
LEMMA TypeStep == IInv /\ [Next]_vars => TypeOK'
<1> SUFFICES ASSUME IInv, [Next]_vars
             PROVE  TypeOK'
  OBVIOUS
<1>0. TypeOK
  BY DEF IInv
<1>1. CASE CommandLine \/ Fini \/ Close \/ Over \/ UNCHANGED vars
  BY <1>0, <1>1, OtherType DEF Over
<1>2. CASE Translate
  BY <1>0, <1>2, BeginBlockType, InstrumentType, EndBlockType DEF Translate
<1>3. CASE Run
  BY <1>3, TraceType, EmptyType, RunType DEF Run
<1>4. CASE Kill
  BY <1>0, <1>4, KillType
<1> QED
  BY <1>1, <1>2, <1>3, <1>4 DEF Next

\* What is stored is kept by every step: outside of the helpers and the flush
\* nothing of it changes, and no other step starts a flush.
LEMMA StoredStep == IInv /\ [Next]_vars => Stored'
<1> SUFFICES ASSUME IInv, [Next]_vars
             PROVE  Stored'
  OBVIOUS
<1> USE DEF IInv
<1>0. ASSUME UNCHANGED <<buf, file, framed, log, outputfile_fd>>, pc \notin Final \cup {"flush", "options"},
             pc' \notin {"flush", "options"}
      PROVE  Stored'
  BY <1>0 DEF Stored, Final
<1>1. CASE CommandLine
  <2>1. ASSUME NEW name \in FnNames, OptionName(name)
        PROVE  Stored'
    BY <2>1 DEF Stored, OptionName, storeVars
  <2>2. ASSUME NEW value \in BOOLEAN, OptionBasicCounts(value)
        PROVE  Stored'
    BY <2>2 DEF Stored, OptionBasicCounts, storeVars
  <2>3. ASSUME NEW opened \in BOOLEAN, PostCloInit(opened)
        PROVE  Stored'
    BY <2>3 DEF Stored, PostCloInit, storeVars, Final
  <2> QED
    BY <1>1, <2>1, <2>2, <2>3 DEF CommandLine
<1>2. CASE Translate
  <2>1. ASSUME NEW preamble \in Preambles, BeginBlock(preamble)
        PROVE  Stored'
    <3>1. UNCHANGED <<buf, file, framed, log, outputfile_fd>> /\ pc = "guest" /\ pc' = "first"
      BY <2>1 DEF BeginBlock, cloVars, storeVars
    <3> QED
      BY <1>0, <3>1 DEF Final
  <2>2. ASSUME NEW st \in IRStmts, Instrument(st)
        PROVE  Stored'
    <3>1. PICK before, after : Turn(before, st, after)
      BY <2>2 DEF Instrument, InstrumentOther, InstrumentAlu, InstrumentIMark, InstrumentLoad,
                  InstrumentStore, InstrumentDirty, InstrumentCAS, InstrumentLL, InstrumentSC,
                  InstrumentExit
    <3>2. /\ UNCHANGED <<buf, file, framed, log, outputfile_fd>>
          /\ pc \in {"first", "instrument"} /\ pc' = "instrument"
      BY <3>1 DEF Turn, cloVars, storeVars
    <3> QED
      BY <1>0, <3>2 DEF Final
  <2>3. CASE EndBlock
    BY <1>0, <2>3 DEF EndBlock, cloVars, storeVars, Final
  <2> QED
    BY <1>2, <2>1, <2>2, <2>3 DEF Translate
<1>3. CASE Run
  <2>1. CASE RunTrace \/ \E sized \in SizeWrites, written \in BOOLEAN : EmptyBuffer(sized, written)
    BY <2>1, TraceType, EmptyType
  <2>2. CASE \/ BeginRun \/ RunCount \/ RunDetail \/ RunStatement \/ RunFault
             \/ RunExitTaken \/ RunExitUntaken \/ EndRun
    <3>1. /\ UNCHANGED <<buf, file, framed, log, outputfile_fd>>
          /\ pc \in {"guest", "run"} /\ pc' \in {"guest", "run"}
      BY <2>2 DEF BeginRun, RunCount, RunDetail, RunStatement, RunFault, RunExitTaken,
                  RunExitUntaken, EndRun, Leave, Due, cloVars, storeVars
    <3> QED
      BY <1>0, <3>1 DEF Final
  <2> QED
    BY <1>3, <2>1, <2>2 DEF Run
<1>4. CASE Fini
  BY <1>0, <1>4 DEF Fini, cloVars, storeVars, Final
<1>5. CASE Close
  BY <1>5 DEF Stored, Close, storeVars, Final
<1>6. CASE Kill
  <2>1. /\ UNCHANGED <<file, framed, log, outputfile_fd>> /\ pc' = "killed" /\ pc' \in Final
    BY <1>6 DEF Kill, cloVars, Final
  <2> QED
    BY <2>1 DEF Stored
<1>7. CASE Over \/ UNCHANGED vars
  <2>1. UNCHANGED <<pc, outputfile_fd, buf, file, framed, log>>
    BY <1>7 DEF Over, vars
  <2> QED
    BY <2>1 DEF Stored
<1> QED
  BY <1>1, <1>2, <1>3, <1>4, <1>5, <1>6, <1>7 DEF Next

\* The item that runs is never the one before the first.
LEMMA StartedStep == IInv /\ [Next]_vars => Started'
<1> SUFFICES ASSUME IInv, [Next]_vars
             PROVE  Started'
  OBVIOUS
<1> USE DEF IInv
<1>1. CASE CommandLine \/ Fini \/ Close \/ Kill \/ Over \/ UNCHANGED vars
  BY <1>1 DEF Started, CommandLine, OptionName, OptionBasicCounts, PostCloInit, Fini, Close,
              Kill, Over, vars
<1>2. CASE Translate
  <2>1. pc' \in {"first", "instrument", "guest"}
    BY <1>2 DEF Translate, BeginBlock, EndBlock, Instrument, InstrumentOther, InstrumentAlu,
                InstrumentIMark, InstrumentLoad, InstrumentStore, InstrumentDirty,
                InstrumentCAS, InstrumentLL, InstrumentSC, InstrumentExit, Turn
  <2> QED
    BY <2>1 DEF Started
<1>3. CASE Run
  <2>1. CASE RunTrace \/ \E sized \in SizeWrites, written \in BOOLEAN : EmptyBuffer(sized, written)
    BY <2>1, TraceType, EmptyType
  <2>2. CASE RunFault \/ RunExitTaken \/ EndRun
    BY <2>2 DEF Started, RunFault, RunExitTaken, EndRun, Leave
  <2>3. CASE BeginRun \/ RunCount \/ RunDetail \/ RunStatement \/ RunExitUntaken
    <3>1. at \in Nat /\ (at' = 1 \/ at' = at + 1)
      BY <2>3 DEF TypeOK, BeginRun, RunCount, RunDetail, RunStatement, RunExitUntaken
    <3> QED
      BY <3>1 DEF Started
  <2> QED
    BY <1>3, <2>1, <2>2, <2>3 DEF Run
<1> QED
  BY <1>1, <1>2, <1>3 DEF Next

\* The tool starts with empty memory and an empty log.
LEMMA InitIInv == Init => IInv
<1> SUFFICES ASSUME Init
             PROVE  IInv
  OBVIOUS
<1>1. /\ <<>> \in Seq(Record) /\ <<>> \in Seq(Items) /\ Len(<<>>) = 0
      /\ <<>> \o <<>> = <<>>
  BY EmptySeq
<1>2. TypeOK
  BY <1>1 DEF Init, TypeOK, Items
<1>3. Stored
  BY <1>1 DEF Init, Stored, Final
<1> QED
  BY <1>2, <1>3 DEF Init, IInv, Started

\* The inductive invariant holds of every tool that can be reached.
THEOREM Invariance == Spec => []IInv
<1>1. IInv /\ [Next]_vars => IInv'
  BY TypeStep, StoredStep, StartedStep DEF IInv
<1> QED
  BY InitIInv, <1>1, PTL DEF Spec

\* No event is written past N_EVENTS and no record past the last slot of
\* mem_accesses, whatever is instrumented, run, left early or killed.
THEOREM TypeCorrect == Spec => []TypeOK
<1>1. IInv => TypeOK
  BY DEF IInv
<1> QED
  BY Invariance, <1>1, PTL

-----------------------------------------------------------------------------
\* In TraceLog's terms the one writer is the guest program.
Status == IF outputfile_fd = "none" THEN "idle" ELSE IF pc \in Final THEN "ended" ELSE "writing"

\* Every step of the tool is a step of TraceLog or changes nothing there.
LEMMA StepRefines ==
  SizeWrites = {TRUE} /\ IInv /\ [Next]_vars => [Log!Next]_Log!logVars
<1> SUFFICES ASSUME SizeWrites = {TRUE}, IInv, [Next]_vars
             PROVE  [Log!Next]_Log!logVars
  OBVIOUS
<1> USE DEF IInv
<1>1. ASSUME UNCHANGED <<log, file>>, Status' = Status
      PROVE  [Log!Next]_Log!logVars
  BY <1>1 DEF Log!logVars, Status
<1>2. ASSUME UNCHANGED <<log, file>>, Status = "idle", Status' = "writing"
      PROVE  [Log!Next]_Log!logVars
  <2>1. Log!Begin({"guest"})
    BY <1>2 DEF Log!Begin, Log!Move, Status
  <2> QED
    BY <2>1 DEF Log!Next
<1>3. ASSUME UNCHANGED <<log, file>>, Status = "writing", Status' = "ended"
      PROVE  [Log!Next]_Log!logVars
  <2>1. Log!End({"guest"})
    BY <1>3 DEF Log!End, Log!Move, Status
  <2> QED
    BY <2>1 DEF Log!Next
<1>4. CASE CommandLine
  <2>1. UNCHANGED <<log, file>> /\ Status = "idle" /\ Status' \in {"idle", "writing"}
    BY <1>4 DEF CommandLine, OptionName, OptionBasicCounts, PostCloInit, storeVars, Stored,
                Status, Final
  <2> QED
    BY <1>1, <1>2, <2>1
<1>5. CASE Translate
  <2>1. /\ UNCHANGED <<log, file, outputfile_fd>>
        /\ pc \in {"first", "instrument", "guest"} /\ pc' \in {"first", "instrument", "guest"}
    BY <1>5 DEF Translate, BeginBlock, EndBlock, Instrument, InstrumentOther, InstrumentAlu,
                InstrumentIMark, InstrumentLoad, InstrumentStore, InstrumentDirty,
                InstrumentCAS, InstrumentLL, InstrumentSC, InstrumentExit, Turn, cloVars,
                storeVars
  <2> QED
    BY <1>1, <2>1 DEF Status, Final
<1>6. CASE \/ BeginRun \/ RunCount \/ RunDetail \/ RunStatement \/ RunFault
           \/ RunExitTaken \/ RunExitUntaken \/ EndRun
  <2>1. /\ UNCHANGED <<log, file, outputfile_fd>>
        /\ pc \in {"guest", "run"} /\ pc' \in {"guest", "run"}
    BY <1>6 DEF BeginRun, RunCount, RunDetail, RunStatement, RunFault, RunExitTaken,
                RunExitUntaken, EndRun, Leave, Due, cloVars, storeVars
  <2> QED
    BY <1>1, <2>1 DEF Status, Final
<1>7. CASE RunTrace
  <2>1. Arg \in Record
    BY <1>7, DueItem DEF RunTrace
  <2>2. /\ log' = Append(log, Arg) /\ file' = file /\ outputfile_fd' = outputfile_fd
        /\ pc = "run" /\ pc' \in {"flush", "run"} /\ outputfile_fd # "none"
    BY <1>7 DEF RunTrace, Due, cloVars, Stored
  <2>3. Log!Add("guest", Arg)
    BY <2>2 DEF Log!Add, Final
  <2> QED
    BY <2>1, <2>3 DEF Log!Next
<1>8. ASSUME NEW sized \in SizeWrites, NEW written \in BOOLEAN, EmptyBuffer(sized, written)
      PROVE  [Log!Next]_Log!logVars
  <2>1. /\ pc \in {"flush", "fini"} /\ log' = log /\ outputfile_fd' = outputfile_fd
        /\ outputfile_fd # "none" /\ log = file \o buf /\ framed'
    BY <1>8 DEF EmptyBuffer, cloVars, Stored, Final
  <2>2. CASE written
    <3>1. file' = log /\ pc' \in {"run", "close"}
      BY <1>8, <2>1, <2>2 DEF EmptyBuffer
    <3>2. Log!Commit("guest")
      BY <2>1, <3>1 DEF Log!Commit, Final
    <3> QED
      BY <3>2 DEF Log!Next
  <2>3. CASE ~written
    <3>1. file' = file /\ pc' = "aborted"
      BY <1>8, <2>3 DEF EmptyBuffer
    <3> QED
      BY <1>3, <2>1, <3>1 DEF Status, Final
  <2> QED
    BY <2>2, <2>3
<1>9. CASE Fini
  <2>1. /\ UNCHANGED <<log, file, outputfile_fd>> /\ pc = "guest"
        /\ pc' \in {"paranoid", "fini"} /\ outputfile_fd # "none"
    BY <1>9 DEF Fini, cloVars, storeVars, Stored
  <2> QED
    BY <1>1, <1>3, <2>1 DEF Status, Final
<1>10. CASE Close
  <2>1. /\ UNCHANGED <<log, file>> /\ pc = "close" /\ pc' = "ended"
        /\ outputfile_fd # "none" /\ outputfile_fd' = "closed"
    BY <1>10 DEF Close, storeVars, Stored
  <2> QED
    BY <1>3, <2>1 DEF Status, Final
<1>11. CASE Kill
  <2>1. /\ UNCHANGED <<log, file, outputfile_fd>> /\ pc \notin Final /\ pc' = "killed"
    BY <1>11 DEF Kill, cloVars
  <2> QED
    BY <1>1, <1>3, <2>1 DEF Status, Final
<1>12. CASE Over \/ UNCHANGED vars
  BY <1>1, <1>12 DEF Over, vars, Status
<1> QED
  BY <1>4, <1>5, <1>6, <1>7, <1>8, <1>9, <1>10, <1>11, <1>12 DEF Next, Run

\* The tool implements TraceLog: whatever the translations, side exits, faults
\* and failed writes of a block, the blocks of the file are all that had been
\* recorded at some moment, in program order, as long as their sizes are there.
THEOREM Refinement ==
  ASSUME SizeWrites = {TRUE}
  PROVE  Spec => ImplementsTraceLog
<1>1. Init => Log!Init
  BY DEF Init, Log!Init
<1>2. IInv /\ [Next]_vars => [Log!Next]_Log!logVars
  BY StepRefines
<1> QED
  BY Invariance, <1>1, <1>2, PTL DEF Spec, ImplementsTraceLog, Log!Spec

-----------------------------------------------------------------------------
\* The finalizer closes the file after it has emptied the buffer.
Emptied == (pc = "close" => buf = <<>>) /\ EndedWhole

LEMMA EmptiedStep == IInv /\ Emptied /\ [Next]_vars => Emptied'
<1> SUFFICES ASSUME IInv, Emptied, [Next]_vars
             PROVE  Emptied'
  OBVIOUS
<1>1. ASSUME pc' \notin {"close", "ended"}
      PROVE  Emptied'
  BY <1>1 DEF Emptied, EndedWhole
<1>2. CASE Translate
  <2>1. pc' \in {"first", "instrument", "guest"}
    BY <1>2, Zenon DEF Translate, BeginBlock, EndBlock, Instrument, InstrumentOther, InstrumentAlu,
                InstrumentIMark, InstrumentLoad, InstrumentStore, InstrumentDirty,
                InstrumentCAS, InstrumentLL, InstrumentSC, InstrumentExit, Turn
  <2> QED
    BY <1>1, <2>1
<1>3. ASSUME NEW sized \in SizeWrites, NEW written \in BOOLEAN, EmptyBuffer(sized, written)
      PROVE  Emptied'
  BY <1>3 DEF EmptyBuffer, Emptied, EndedWhole
<1>4. CASE RunTrace \/ RunFault \/ RunExitTaken \/ EndRun
  <2>1. pc' \in {"flush", "run", "guest"}
    BY <1>4 DEF RunTrace, RunFault, RunExitTaken, EndRun, Leave
  <2> QED
    BY <1>1, <2>1
<1>5. CASE BeginRun \/ RunCount \/ RunDetail \/ RunStatement \/ RunExitUntaken
  <2>1. pc' = "run"
    BY <1>5 DEF BeginRun, RunCount, RunDetail, RunStatement, RunExitUntaken, Due
  <2> QED
    BY <1>1, <2>1
<1>6. CASE CommandLine \/ Fini \/ Kill
  <2>1. pc' \in {"options", "guest", "aborted", "paranoid", "fini", "killed"}
    BY <1>6 DEF CommandLine, OptionName, OptionBasicCounts, PostCloInit, Fini, Kill
  <2> QED
    BY <1>1, <2>1
<1>7. CASE Close
  <2>1. /\ pc = "close" /\ buf = <<>> /\ pc' = "ended" /\ UNCHANGED <<file, framed, log>>
        /\ framed => log = file \o buf
    BY <1>7 DEF Close, storeVars, Emptied, IInv, Stored, Final
  <2>2. file \in Seq(Record) /\ file \o <<>> = file
    BY EmptySeq DEF IInv, TypeOK
  <2> QED
    BY <2>1, <2>2 DEF Emptied, EndedWhole
<1>8. CASE Over \/ UNCHANGED vars
  BY <1>8 DEF Over, vars, Emptied, EndedWhole
<1> QED
  BY <1>2, <1>3, <1>4, <1>5, <1>6, <1>7, <1>8 DEF Next, Run

\* A tool that runs to its end has emptied its buffer into the file: nothing is
\* lost but through a size that was not written whole.
THEOREM EndedWholeHolds == Spec => []EndedWhole
<1>1. Init => Emptied
  BY DEF Init, Emptied, EndedWhole
<1>2. Emptied => EndedWhole
  BY DEF Emptied
<1> QED
  BY Invariance, <1>1, <1>2, EmptiedStep, PTL DEF Spec

-----------------------------------------------------------------------------
(* The accesses that records stand for.                                    *)

\* A record stands for one access or two.
LEMMA ExpandedType ==
  ASSUME NEW r \in Record
  PROVE  Expanded(r) \in Seq(Record) /\ Len(Expanded(r)) \in {1, 2}
<1>1. [r EXCEPT !.kind = "Dr"] \in Record /\ [r EXCEPT !.kind = "Dw"] \in Record
  BY DEF Record
<1> HIDE DEF Record
<1>2. CASE r.kind = "Dm"
  BY <1>1, <1>2 DEF Expanded
<1>3. CASE r.kind # "Dm"
  BY <1>3 DEF Expanded
<1> QED
  BY <1>2, <1>3

\* What the first i records of s stand for, for every i.
IsSpelled(f, s) == f[0] = <<>> /\ \A i \in 1..Len(s) : f[i] = f[i - 1] \o Expanded(s[i])

\* Accesses followed by those of a record.
LEMMA SpelledStep ==
  ASSUME NEW a \in Seq(Record), NEW r \in Record
  PROVE  a \o Expanded(r) \in Seq(Record) /\ Len(a \o Expanded(r)) <= Len(a) + 2
<1>1. Expanded(r) \in Seq(Record) /\ Len(Expanded(r)) \in {1, 2}
  BY ExpandedType
<1>2. Len(a) \in Nat
  BY LenProperties
<1> HIDE DEF Record
<1>3. /\ a \o Expanded(r) \in Seq(Record)
      /\ Len(a \o Expanded(r)) = Len(a) + Len(Expanded(r))
  BY <1>1, ConcatProperties
<1>4. PICK m : m = Len(Expanded(r))
  OBVIOUS
<1>5. PICK k : k = Len(a)
  OBVIOUS
<1>6. m \in {1, 2} /\ k \in Nat
  BY <1>1, <1>2, <1>4, <1>5, Zenon
<1>7. k + m <= k + 2
  BY ONLY <1>6
<1> QED
  BY <1>3, <1>4, <1>5, <1>7, Zenon

\* FlattenSeq is determined by what it does with each sequence.
LEMMA FlattenAlong ==
  ASSUME NEW q, Len(q) \in Nat \ {0}, NEW h,
         \A i \in 1..Len(q) : h[i] = IF i = 1 THEN q[i] ELSE h[i - 1] \o q[i]
  PROVE  FlattenSeq(q) = h[Len(q)]
<1> DEFINE Body(f) == [i \in 1..Len(q) |-> IF i = 1 THEN q[i] ELSE f[i - 1] \o q[i]]
           f == CHOOSE f : f = Body(f)
<1>1. \E u : u = Body(u)
  <2>1. PICK u : u = [i \in 1..Len(q) |-> h[i]]
    OBVIOUS
  <2>2. ASSUME NEW i \in 1..Len(q)
        PROVE  u[i] = IF i = 1 THEN q[i] ELSE u[i - 1] \o q[i]
    <3>1. CASE i = 1
      BY <2>1, <3>1
    <3>2. CASE i # 1
      <4>1. i - 1 \in 1..Len(q)
        BY <3>2
      <4> QED
        BY <2>1, <3>2, <4>1
    <3> QED
      BY <3>1, <3>2
  <2>3. u = Body(u)
    BY <2>1, <2>2
  <2> QED
    BY <2>3
<1>2. f = Body(f)
  <2> HIDE DEF Body
  <2> QED
    BY <1>1
<1>3. FlattenSeq(q) = f[Len(q)]
  BY DEF FlattenSeq
<1> HIDE DEF f
<1>4. \A i \in 1..Len(q) : f[i] = IF i = 1 THEN q[i] ELSE f[i - 1] \o q[i]
  BY <1>2
<1> HIDE DEF Body
<1>5. PICK n \in Nat : Len(q) = n + 1
  <2>1. Len(q) - 1 \in Nat /\ Len(q) = (Len(q) - 1) + 1
    OBVIOUS
  <2> QED
    BY <2>1
<1>6. PICK f0 : f0 = [i \in 0..n |-> f[i + 1]]
  OBVIOUS
<1>7. PICK h0 : h0 = [i \in 0..n |-> h[i + 1]]
  OBVIOUS
<1>8. f0[0] = h0[0]
  <2>1. 1 \in 1..Len(q)
    OBVIOUS
  <2>2. f[1] = q[1] /\ h[1] = q[1]
    BY <1>4, <2>1
  <2> QED
    BY <1>6, <1>7, <2>2
<1>9. \A i \in 1..n : f0[i - 1] = h0[i - 1] => f0[i] = h0[i]
  <2> SUFFICES ASSUME NEW i \in 1..n, f0[i - 1] = h0[i - 1]
               PROVE  f0[i] = h0[i]
    OBVIOUS
  <2>1. /\ i + 1 \in 1..Len(q) /\ i + 1 # 1 /\ (i + 1) - 1 = i /\ (i - 1) + 1 = i
        /\ i \in 0..n /\ i - 1 \in 0..n
    BY <1>5
  <2>2. f[i + 1] = f[i] \o q[i + 1] /\ h[i + 1] = h[i] \o q[i + 1]
    BY <1>4, <2>1
  <2>3. f0[i] = f[i + 1] /\ h0[i] = h[i + 1] /\ f0[i - 1] = f[i] /\ h0[i - 1] = h[i]
    BY <1>6, <1>7, <2>1
  <2> QED
    BY <2>2, <2>3
<1>10. \A i \in 0..n : f0[i] = h0[i]
  BY ONLY n \in Nat, <1>8, <1>9, StepByStep
<1>11. f0[n] = h0[n] /\ f0[n] = f[n + 1] /\ h0[n] = h[n + 1]
  BY <1>6, <1>7, <1>10
<1> QED
  BY <1>3, <1>5, <1>11

\* What records stand for, one record at a time.
LEMMA AccessesSpelled ==
  ASSUME NEW s \in Seq(Record)
  PROVE  \E f \in [0..Len(s) -> Seq(Record)] : IsSpelled(f, s) /\ f[Len(s)] = Accesses(s)
<1> DEFINE st == [p \in Seq(Record) \X Record |-> p[1] \o Expanded(p[2])]
           seqs == [i \in 1..Len(s) |-> Expanded(s[i])]
<1>1. Len(s) \in Nat /\ \A i \in 1..Len(s) : s[i] \in Record
  BY ElementOfSeq, LenProperties
<1>2. st \in [Seq(Record) \X Record -> Seq(Record)]
  <2> SUFFICES ASSUME NEW p \in Seq(Record) \X Record
               PROVE  p[1] \o Expanded(p[2]) \in Seq(Record)
    OBVIOUS
  <2>1. p[1] \in Seq(Record) /\ p[2] \in Record
    OBVIOUS
  <2> QED
    BY <2>1, SpelledStep
<1>3. <<>> \in Seq(Record)
  OBVIOUS
<1>4. PICK g \in [0..Len(s) -> Seq(Record)] : IsAlong(g, st, <<>>, s, Len(s))
  <2> HIDE DEF st
  <2> QED
    BY <1>2, <1>3, AlongExists
<1>5. \A i \in 1..Len(s) : i - 1 \in 0..Len(s) /\ g[i] = g[i - 1] \o Expanded(s[i])
  <2> SUFFICES ASSUME NEW i \in 1..Len(s)
               PROVE  i - 1 \in 0..Len(s) /\ g[i] = g[i - 1] \o Expanded(s[i])
    OBVIOUS
  <2>1. i - 1 \in 0..Len(s)
    BY <1>1
  <2> DEFINE p == <<g[i - 1], s[i]>>
  <2>2. p \in Seq(Record) \X Record
    BY <1>1, <1>4, <2>1
  <2>3. st[p] = p[1] \o Expanded(p[2])
    BY <2>2
  <2>4. p[1] = g[i - 1] /\ p[2] = s[i]
    OBVIOUS
  <2>5. g[i] = st[p]
    <3> HIDE DEF st
    <3> QED
      BY <1>4 DEF IsAlong
  <2> HIDE DEF st, p
  <2> QED
    BY <2>1, <2>3, <2>4, <2>5
<1>6. g[0] = <<>>
  BY <1>4 DEF IsAlong
<1>7. IsSpelled(g, s)
  BY <1>5, <1>6 DEF IsSpelled
<1>8. Len(seqs) = Len(s) /\ \A i \in 1..Len(s) : seqs[i] = Expanded(s[i])
  BY <1>1
<1>9. CASE Len(s) = 0
  <2>1. seqs = <<>>
    BY <1>9
  <2>2. Accesses(s) = seqs
    <3>1. Accesses(s) = FlattenSeq(seqs)
      BY DEF Accesses
    <3> HIDE DEF seqs
    <3> QED
      BY <1>8, <1>9, <3>1 DEF FlattenSeq
  <2> QED
    BY <1>6, <1>7, <1>9, <2>1, <2>2
<1>10. CASE Len(s) # 0
  <2> DEFINE h == [i \in 1..Len(seqs) |-> g[i]]
  <2>0. Len(seqs) \in Nat \ {0}
    BY <1>1, <1>8, <1>10
  <2> HIDE DEF seqs
  <2>1. ASSUME NEW i \in 1..Len(seqs)
        PROVE  h[i] = IF i = 1 THEN seqs[i] ELSE h[i - 1] \o seqs[i]
    <3>1. g[i] = g[i - 1] \o seqs[i] /\ seqs[i] \in Seq(Record)
      BY <1>1, <1>5, <1>8, ExpandedType
    <3>2. CASE i = 1
      <4>1. g[i - 1] = <<>>
        BY <1>6, <3>2
      <4>2. <<>> \o seqs[i] = seqs[i]
        BY <3>1, ConcatEmptySeq
      <4> QED
        BY <3>1, <3>2, <4>1, <4>2
    <3>3. CASE i # 1
      <4>1. i - 1 \in 1..Len(seqs)
        BY <2>0, <3>3
      <4> QED
        BY <3>1, <3>3, <4>1
    <3> QED
      BY <3>2, <3>3
  <2>2. h[Len(seqs)] = g[Len(s)]
    BY <1>8, <2>0
  <2> HIDE DEF h
  <2>3. FlattenSeq(seqs) = h[Len(seqs)]
    BY <2>0, <2>1, FlattenAlong
  <2>4. Accesses(s) = FlattenSeq(seqs)
    BY DEF Accesses, seqs
  <2> QED
    BY <1>7, <2>2, <2>3, <2>4
<1> QED
  BY <1>9, <1>10

\* Records that begin alike stand for accesses that begin alike.
LEMMA SpelledAlike ==
  ASSUME NEW s, NEW t, NEW f, NEW g, IsSpelled(f, s), IsSpelled(g, t),
         Len(s) \in Nat, Len(t) \in Nat, Len(s) <= Len(t), \A i \in 1..Len(s) : t[i] = s[i]
  PROVE  f[Len(s)] = g[Len(s)]
<1>1. PICK n \in Nat : n = Len(s)
  OBVIOUS
<1>2. f[0] = g[0]
  BY DEF IsSpelled
<1>3. \A i \in 1..n : f[i - 1] = g[i - 1] => f[i] = g[i]
  <2> SUFFICES ASSUME NEW i \in 1..n, f[i - 1] = g[i - 1] PROVE f[i] = g[i]
    OBVIOUS
  <2>1. i \in 1..Len(s) /\ i \in 1..Len(t)
    BY <1>1
  <2> QED
    BY <2>1 DEF IsSpelled
<1>4. \A i \in 0..n : f[i] = g[i]
  BY ONLY n \in Nat, <1>2, <1>3, StepByStep
<1> QED
  BY <1>1, <1>4

\* Records stand for accesses, two each at most.
LEMMA AccessesType ==
  ASSUME NEW s \in Seq(Record)
  PROVE  Accesses(s) \in Seq(Record) /\ Len(Accesses(s)) <= 2 * Len(s)
<1>1. PICK f : f \in [0..Len(s) -> Seq(Record)] /\ IsSpelled(f, s) /\ f[Len(s)] = Accesses(s)
  BY AccessesSpelled
<1>2. Len(s) \in Nat /\ \A i \in 1..Len(s) : s[i] \in Record
  BY ElementOfSeq, LenProperties
<1> DEFINE T == {i \in 0..Len(s) : ~(Len(f[i]) <= 2 * i)}
<1>3. T = {}
  <2>1. SUFFICES ASSUME T # {} PROVE FALSE
    OBVIOUS
  <2>2. PICK i \in T : \A j \in T : i <= j
    <3>1. T \subseteq Nat
      OBVIOUS
    <3> HIDE DEF T
    <3> QED
      BY <2>1, <3>1, Least
  <2>3. i \in 0..Len(s) /\ ~(Len(f[i]) <= 2 * i)
    BY <2>2
  <2>4. i # 0
    <3>1. f[0] = <<>>
      BY <1>1 DEF IsSpelled
    <3>2. Len(f[0]) = 0
      BY <3>1
    <3> QED
      BY <2>3, <3>2
  <2>5. i - 1 \in 0..Len(s) /\ i \in 1..Len(s) /\ ~(i <= i - 1) /\ i \in Nat
    BY <1>2, <2>3, <2>4
  <2>6. Len(f[i - 1]) <= 2 * (i - 1)
    BY <2>2, <2>5
  <2>7. f[i - 1] \in Seq(Record) /\ s[i] \in Record /\ f[i] = f[i - 1] \o Expanded(s[i])
    BY <1>1, <1>2, <2>5 DEF IsSpelled
  <2>8. Len(f[i]) <= Len(f[i - 1]) + 2 /\ f[i] \in Seq(Record)
    BY <2>7, SpelledStep
  <2>9. Len(f[i]) \in Nat /\ Len(f[i - 1]) \in Nat
    BY <2>7, <2>8, LenProperties
  <2> HIDE DEF T
  <2> QED
    BY <2>3, <2>5, <2>6, <2>8, <2>9
<1>4. Len(s) \in 0..Len(s)
  BY <1>2
<1> QED
  BY <1>1, <1>3, <1>4

\* One record more is one access more, or two.
LEMMA AccessesAppend ==
  /\ Accesses(<<>>) = <<>>
  /\ \A s \in Seq(Record), r \in Record : Accesses(Append(s, r)) = Accesses(s) \o Expanded(r)
<1>1. Accesses(<<>>) = <<>>
  <2>1. <<>> \in Seq(Record) /\ Len(<<>>) = 0
    OBVIOUS
  <2>2. PICK f : IsSpelled(f, <<>>) /\ f[Len(<<>>)] = Accesses(<<>>)
    BY <2>1, AccessesSpelled
  <2> QED
    BY <2>1, <2>2 DEF IsSpelled
<1>2. ASSUME NEW s \in Seq(Record), NEW r \in Record
      PROVE  Accesses(Append(s, r)) = Accesses(s) \o Expanded(r)
  <2> DEFINE t == Append(s, r)
  <2>1. /\ t \in Seq(Record) /\ Len(t) = Len(s) + 1 /\ t[Len(s) + 1] = r
        /\ \A i \in 1..Len(s) : t[i] = s[i]
    BY AppendProperties
  <2>2. Len(s) \in Nat
    BY LenProperties
  <2> HIDE DEF t
  <2>3. PICK f : IsSpelled(f, s) /\ f[Len(s)] = Accesses(s)
    BY AccessesSpelled
  <2>4. PICK g : IsSpelled(g, t) /\ g[Len(t)] = Accesses(t)
    BY <2>1, AccessesSpelled
  <2>5. f[Len(s)] = g[Len(s)]
    BY <2>1, <2>2, <2>3, <2>4, SpelledAlike
  <2>6. g[Len(s) + 1] = g[Len(s)] \o Expanded(r)
    <3>1. Len(s) + 1 \in 1..Len(t) /\ (Len(s) + 1) - 1 = Len(s)
      BY <2>1, <2>2
    <3> QED
      BY <2>1, <2>4, <3>1 DEF IsSpelled
  <2> QED
    BY <2>1, <2>3, <2>4, <2>5, <2>6 DEF t
<1> QED
  BY <1>1, <1>2

\* A load turned into a modify stands for the load and a store.
LEMMA AccessesMerge ==
  ASSUME NEW s \in Seq(Record), NEW a, NEW z, Merges(s, a, z), Event("Dr", a, z) \in Record
  PROVE  /\ [s EXCEPT ![Len(s)].kind = "Dm"] \in Seq(Record)
         /\ Accesses([s EXCEPT ![Len(s)].kind = "Dm"]) = Accesses(s) \o <<Event("Dw", a, z)>>
<1> DEFINE n == Len(s)
           t == [s EXCEPT ![n].kind = "Dm"]
           h == SubSeq(s, 1, n - 1)
<1>1. n \in Nat \ {0} /\ s[n] = Event("Dr", a, z)
  BY EmptySeq, LenProperties DEF Merges
<1>2. h \in Seq(Record) /\ Len(h) = n - 1 /\ \A i \in 1..(n - 1) : h[i] = s[i]
  <2>1. \A i \in 1..(n - 1) : s[i] \in Record
    BY <1>1, ElementOfSeq
  <2>2. n - 1 \in Nat
    BY <1>1
  <2> HIDE DEF n
  <2> QED
    BY <2>1, <2>2, SubSeqProperties
<1>3. /\ Event("Dr", a, z) \in Record /\ Event("Dw", a, z) \in Record
      /\ Event("Dm", a, z) \in Record
  BY DEF Event, Record
<1>4. s = Append(h, Event("Dr", a, z))
  <2>1. Len(Append(h, Event("Dr", a, z))) = n /\ Append(h, Event("Dr", a, z)) \in Seq(Record)
    BY <1>1, <1>2, <1>3, AppendProperties
  <2>2. ASSUME NEW i \in 1..n PROVE Append(h, Event("Dr", a, z))[i] = s[i]
    BY <1>1, <1>2, <1>3, AppendProperties
  <2> QED
    BY <1>1, <2>1, <2>2, SeqEqual
<1>5. t = Append(h, Event("Dm", a, z))
  <2>1. [Event("Dr", a, z) EXCEPT !.kind = "Dm"] = Event("Dm", a, z)
    BY DEF Event
  <2>2. t = [s EXCEPT ![n] = Event("Dm", a, z)]
    BY <1>1, <2>1
  <2>3. t \in Seq(Record) /\ Len(t) = n
    BY <1>1, <1>3, <2>2
  <2>4. ASSUME NEW i \in 1..n PROVE t[i] = Append(h, Event("Dm", a, z))[i]
    BY <1>1, <1>2, <1>3, <2>2, AppendProperties
  <2>5. Len(Append(h, Event("Dm", a, z))) = n /\ Append(h, Event("Dm", a, z)) \in Seq(Record)
    BY <1>1, <1>2, <1>3, AppendProperties
  <2> QED
    BY <2>3, <2>4, <2>5, SeqEqual
<1> HIDE DEF t, h, n
<1>6. /\ Expanded(Event("Dr", a, z)) = <<Event("Dr", a, z)>>
      /\ Expanded(Event("Dm", a, z)) = <<Event("Dr", a, z)>> \o <<Event("Dw", a, z)>>
  <2>1. Event("Dr", a, z).kind = "Dr" /\ Event("Dm", a, z).kind = "Dm"
    BY DEF Event
  <2>2. /\ [Event("Dm", a, z) EXCEPT !.kind = "Dr"] = Event("Dr", a, z)
        /\ [Event("Dm", a, z) EXCEPT !.kind = "Dw"] = Event("Dw", a, z)
    BY DEF Event
  <2>3. <<Event("Dr", a, z), Event("Dw", a, z)>> = <<Event("Dr", a, z)>> \o <<Event("Dw", a, z)>>
    OBVIOUS
  <2> HIDE DEF Event
  <2> QED
    BY <2>1, <2>2, <2>3 DEF Expanded
<1>7. /\ Accesses(s) = Accesses(h) \o <<Event("Dr", a, z)>>
      /\ Accesses(t) = Accesses(h) \o (<<Event("Dr", a, z)>> \o <<Event("Dw", a, z)>>)
  BY <1>2, <1>3, <1>4, <1>5, <1>6, AccessesAppend
<1>8. Accesses(h) \in Seq(Record)
  BY <1>2, AccessesType
<1>9. /\ <<Event("Dr", a, z)>> \in Seq(Record) /\ <<Event("Dw", a, z)>> \in Seq(Record)
  BY <1>3
<1>10. t \in Seq(Record)
  BY <1>2, <1>3, <1>5, AppendProperties
<1>11. PICK d, w : d = <<Event("Dr", a, z)>> /\ w = <<Event("Dw", a, z)>>
  OBVIOUS
<1>12. (Accesses(h) \o d) \o w = Accesses(h) \o (d \o w)
  BY <1>8, <1>9, <1>11, ConcatAssociative
<1> QED
  BY <1>7, <1>10, <1>11, <1>12 DEF t, n

-----------------------------------------------------------------------------
(* Along a translation: dn is what the statements so far have touched, lg  *)
(* what the records of the calls so far stand for.  The two are written    *)
(* down as functions of the place, which exist for whatever md_instrument  *)
(* emits.                                                                  *)

\* What is touched begins with what is logged, and little of it is missing.
Short(lg, dn) == \E r \in Seq(Record) : dn = lg \o r /\ Len(r) <= 2 * NEvents

\* What an item that runs makes of the two.  A statement may fault, so that
\* little may be missing behind it, and before a side exit nothing is.
Moves(it, dn, lg, dn2, lg2) ==
  /\ it[1] = "stmt" => /\ dn2 = dn \o Touched(it[2]) /\ lg2 = lg /\ Short(lg, dn2)
                       /\ it[2].tag = "Exit" => lg = dn
  /\ it[1] = "trace" => dn2 = dn /\ lg2 = lg \o Expanded(it[2])
  /\ it[1] \in {"count", "detail"} => dn2 = dn /\ lg2 = lg

\* Sequences of accesses, and the two along a whole translation.
Accs == Seq(Record)
Tracks(out, d, l) ==
  /\ d \in [1..(Len(out) + 1) -> Accs] /\ l \in [1..(Len(out) + 1) -> Accs]
  /\ d[1] = <<>> /\ l[1] = <<>>
  /\ \A i \in 1..Len(out) : Moves(out[i], d[i], l[i], d[i + 1], l[i + 1])
Comes(out, dn, lg) ==
  \E d, l : Tracks(out, d, l) /\ d[Len(out) + 1] = dn /\ l[Len(out) + 1] = lg

\* Under instrumentation: the outstanding events make up for what is missing,
\* up to the accesses x of the statement that is about to be emitted.
Pending(w, dn, x) ==
  \E lg \in Accs : Comes(w.out, dn, lg) /\ lg \o Accesses(w.events) = dn \o x

\* Joining sequences of accesses.
LEMMA Joined ==
  /\ <<>> \in Accs
  /\ \A a \in Accs : a \o <<>> = a /\ <<>> \o a = a
  /\ \A a \in Accs, b \in Accs : a \o b \in Accs
<1>1. <<>> \in Accs
  BY DEF Accs
<1>2. ASSUME NEW a \in Accs PROVE a \o <<>> = a /\ <<>> \o a = a
  BY ConcatEmptySeq DEF Accs
<1>3. ASSUME NEW a \in Accs, NEW b \in Accs PROVE a \o b \in Accs
  BY ConcatProperties DEF Accs
<1> QED
  BY <1>1, <1>2, <1>3

\* Joining three.
LEMMA JoinedThrice ==
  ASSUME NEW a \in Accs, NEW b \in Accs, NEW c \in Accs
  PROVE  (a \o b) \o c = a \o (b \o c)
<1>1. a \in Seq(Record) /\ b \in Seq(Record) /\ c \in Seq(Record)
  BY DEF Accs
<1> QED
  BY ONLY <1>1, ConcatAssociative

\* Nothing is touched and nothing logged before the first item.
LEMMA ComesEmpty == Comes(<<>>, <<>>, <<>>)
<1>1. <<>> \in Accs /\ Len(<<>>) = 0
  BY DEF Accs
<1>2. PICK d : d = [i \in 1..1 |-> <<>>]
  OBVIOUS
<1>3. d \in [1..1 -> Accs] /\ d[1] = <<>>
  BY <1>1, <1>2
<1>4. Tracks(<<>>, d, d)
  BY <1>1, <1>3 DEF Tracks
<1> QED
  BY <1>1, <1>3, <1>4 DEF Comes

\* A translation with an item more.
LEMMA ComesAppend ==
  ASSUME NEW out \in Seq(Items), NEW it \in Items, NEW dn, NEW lg, Comes(out, dn, lg),
         NEW dn2 \in Accs, NEW lg2 \in Accs, Moves(it, dn, lg, dn2, lg2)
  PROVE  Comes(Append(out, it), dn2, lg2)
<1>1. /\ Len(out) \in Nat /\ Append(out, it) \in Seq(Items)
      /\ Len(Append(out, it)) = Len(out) + 1 /\ Append(out, it)[Len(out) + 1] = it
      /\ \A i \in 1..Len(out) : Append(out, it)[i] = out[i]
  BY AppendProperties, LenProperties
<1>2. PICK d, l : Tracks(out, d, l) /\ d[Len(out) + 1] = dn /\ l[Len(out) + 1] = lg
  BY DEF Comes
<1>3. d \in [1..(Len(out) + 1) -> Accs] /\ l \in [1..(Len(out) + 1) -> Accs]
  BY <1>2 DEF Tracks
<1>4. PICK k : k = [i \in 1..(Len(out) + 2) |-> IF i = Len(out) + 2 THEN dn2 ELSE d[i]]
  OBVIOUS
<1>5. PICK g : g = [i \in 1..(Len(out) + 2) |-> IF i = Len(out) + 2 THEN lg2 ELSE l[i]]
  OBVIOUS
<1>6. /\ k \in [1..(Len(Append(out, it)) + 1) -> Accs]
      /\ k[Len(out) + 2] = dn2
      /\ \A i \in 1..(Len(out) + 1) : k[i] = d[i]
  BY <1>1, <1>3, <1>4
<1>7. /\ g \in [1..(Len(Append(out, it)) + 1) -> Accs]
      /\ g[Len(out) + 2] = lg2
      /\ \A i \in 1..(Len(out) + 1) : g[i] = l[i]
  BY <1>1, <1>3, <1>5
<1>8. ASSUME NEW i \in 1..(Len(out) + 1)
      PROVE  Moves(Append(out, it)[i], k[i], g[i], k[i + 1], g[i + 1])
  <2>1. CASE i = Len(out) + 1
    <3>1. i + 1 = Len(out) + 2
      BY <1>1, <2>1
    <3> QED
      BY <1>1, <1>2, <1>6, <1>7, <2>1, <3>1
  <2>2. CASE i \in 1..Len(out)
    <3>1. i + 1 \in 1..(Len(out) + 1) /\ i \in 1..(Len(out) + 1)
      BY <1>1, <2>2
    <3> QED
      BY <1>1, <1>2, <1>6, <1>7, <2>2, <3>1 DEF Tracks
  <2> QED
    BY <1>1, <2>1, <2>2
<1>9. k[1] = <<>> /\ g[1] = <<>>
  BY <1>1, <1>2, <1>6, <1>7 DEF Tracks
<1>10. Tracks(Append(out, it), k, g)
  <2>1. 1..Len(Append(out, it)) = 1..(Len(out) + 1)
    BY <1>1
  <2> QED
    BY <1>6, <1>7, <1>8, <1>9, <2>1 DEF Tracks
<1>11. k[Len(Append(out, it)) + 1] = dn2 /\ g[Len(Append(out, it)) + 1] = lg2
  <2>1. Len(Append(out, it)) + 1 = Len(out) + 2
    BY <1>1
  <2> QED
    BY <1>6, <1>7, <2>1
<1> QED
  BY <1>10, <1>11 DEF Comes

\* A translation with a call to a trace helper for each event.
LEMMA ComesTraces ==
  ASSUME NEW out \in Seq(Items), NEW ev \in Seq(Record), NEW calls \in Seq(Items),
         Len(calls) = Len(ev), \A i \in 1..Len(ev) : calls[i] = <<"trace", ev[i]>>,
         NEW dn \in Accs, NEW lg \in Accs, Comes(out, dn, lg)
  PROVE  Comes(out \o calls, dn, lg \o Accesses(ev))
<1>0. out \o calls \in Seq(Items) /\ Len(out \o calls) = Len(out) + Len(calls)
  BY ConcatProperties
<1>1. /\ Len(out) \in Nat /\ Len(ev) \in Nat /\ out \o calls \in Seq(Items)
      /\ Len(out \o calls) = Len(out) + Len(ev)
      /\ \A i \in 1..Len(out) : (out \o calls)[i] = out[i]
  <2>1. Len(out) \in Nat /\ Len(ev) \in Nat /\ Len(calls) = Len(ev)
    BY LenProperties
  <2>2. \A i \in 1..Len(out) : (out \o calls)[i] = out[i]
    <3>1. \A i \in 1..(Len(out) + Len(calls)) : 
             (out \o calls)[i] = IF i <= Len(out) THEN out[i] ELSE calls[i - Len(out)]
      BY ConcatProperties
    <3> QED
      BY <2>1, <3>1
  <2> QED
    BY <1>0, <2>1, <2>2
<1>2. PICK d, l : Tracks(out, d, l) /\ d[Len(out) + 1] = dn /\ l[Len(out) + 1] = lg
  BY DEF Comes
<1>3. d \in [1..(Len(out) + 1) -> Accs] /\ l \in [1..(Len(out) + 1) -> Accs]
  BY <1>2 DEF Tracks
<1>4. PICK f : f \in [0..Len(ev) -> Seq(Record)] /\ IsSpelled(f, ev) /\ f[Len(ev)] = Accesses(ev)
  BY AccessesSpelled
<1> DEFINE N == Len(out) + Len(ev)
<1>5. PICK k : k = [i \in 1..(N + 1) |-> IF i > Len(out) THEN dn ELSE d[i]]
  OBVIOUS
<1>6. PICK g : g = [i \in 1..(N + 1) |-> IF i > Len(out) THEN lg \o f[i - (Len(out) + 1)] ELSE l[i]]
  OBVIOUS
<1>7. \A j \in 0..Len(ev) : lg \o f[j] \in Accs
  <2> SUFFICES ASSUME NEW j \in 0..Len(ev) PROVE lg \o f[j] \in Accs
    OBVIOUS
  <2>1. f[j] \in Seq(Record)
    BY <1>4
  <2> QED
    BY <2>1, ConcatProperties DEF Accs
<1>8. k \in [1..(N + 1) -> Accs] /\ g \in [1..(N + 1) -> Accs]
  <2>1. ASSUME NEW i \in 1..(N + 1), i > Len(out)
        PROVE  i - (Len(out) + 1) \in 0..Len(ev)
    BY <1>1, <2>1
  <2>2. ASSUME NEW i \in 1..(N + 1), ~(i > Len(out))
        PROVE  i \in 1..(Len(out) + 1)
    BY <1>1, <2>2
  <2> HIDE DEF N
  <2> QED
    BY <1>3, <1>5, <1>6, <1>7, <2>1, <2>2
<1>9. lg \o f[0] = lg
  <2>1. f[0] = <<>>
    BY <1>4 DEF IsSpelled
  <2> QED
    BY <2>1, ConcatEmptySeq DEF Accs
<1>10. \A i \in 1..(Len(out) + 1) : k[i] = d[i] /\ g[i] = l[i]
  <2> SUFFICES ASSUME NEW i \in 1..(Len(out) + 1) PROVE k[i] = d[i] /\ g[i] = l[i]
    OBVIOUS
  <2>1. i \in 1..(N + 1) /\ (i > Len(out) => i = Len(out) + 1 /\ i - (Len(out) + 1) = 0)
    BY <1>1
  <2> HIDE DEF N
  <2> QED
    BY <1>2, <1>5, <1>6, <1>9, <2>1
<1>11. ASSUME NEW i \in (Len(out) + 1)..(N + 1)
       PROVE  k[i] = dn /\ g[i] = lg \o f[i - (Len(out) + 1)]
  <2>1. i \in 1..(N + 1) /\ i > Len(out)
    BY <1>1
  <2> HIDE DEF N
  <2> QED
    BY <1>5, <1>6, <2>1
<1>12. ASSUME NEW i \in 1..N
       PROVE  Moves((out \o calls)[i], k[i], g[i], k[i + 1], g[i + 1])
  <2>1. CASE i \in 1..Len(out)
    <3>1. i + 1 \in 1..(Len(out) + 1) /\ i \in 1..(Len(out) + 1)
      BY <1>1, <2>1
    <3> QED
      BY <1>1, <1>2, <1>10, <2>1, <3>1 DEF Tracks
  <2>2. CASE i \in (Len(out) + 1)..N
    <3>0. PICK j : j = i - Len(out)
      OBVIOUS
    <3>1. /\ i \in (Len(out) + 1)..(N + 1) /\ i + 1 \in (Len(out) + 1)..(N + 1)
          /\ j \in 1..Len(ev) /\ j - 1 \in 0..Len(ev)
          /\ i - (Len(out) + 1) = j - 1 /\ (i + 1) - (Len(out) + 1) = j
      BY <1>1, <2>2, <3>0
    <3>2. k[i] = dn /\ k[i + 1] = dn /\ g[i] = lg \o f[j - 1] /\ g[i + 1] = lg \o f[j]
      BY <1>11, <3>1
    <3>3. (out \o calls)[i] = <<"trace", ev[j]>>
      <4>1. (out \o calls)[i] = calls[i - Len(out)]
        BY <1>1, <2>2, ConcatProperties
      <4> QED
        BY <3>0, <3>1, <4>1
    <3>4. f[j] = f[j - 1] \o Expanded(ev[j])
      BY <1>4, <3>1 DEF IsSpelled
    <3>5. f[j - 1] \in Seq(Record) /\ ev[j] \in Record
      BY <1>4, <3>1, ElementOfSeq
    <3>6. lg \o f[j] = (lg \o f[j - 1]) \o Expanded(ev[j])
      <4>1. PICK a, b : a = f[j - 1] /\ b = Expanded(ev[j])
        OBVIOUS
      <4>2. b \in Seq(Record)
        BY <3>5, <4>1, ExpandedType
      <4>3. a \in Accs /\ b \in Accs
        BY <3>5, <4>1, <4>2 DEF Accs
      <4>4. (lg \o a) \o b = lg \o (a \o b)
        BY <4>3, JoinedThrice, Zenon
      <4> QED
        BY <3>4, <4>1, <4>4, Zenon
    <3>7. (out \o calls)[i][1] = "trace" /\ (out \o calls)[i][2] = ev[j]
      BY <3>3
    <3> QED
      BY <3>2, <3>6, <3>7, Zenon DEF Moves
  <2> QED
    BY <1>1, <2>1, <2>2
<1>13. k[1] = <<>> /\ g[1] = <<>>
  <2>1. 1 \in 1..(Len(out) + 1)
    BY <1>1
  <2> QED
    BY <1>2, <1>10, <2>1 DEF Tracks
<1>14. Tracks(out \o calls, k, g)
  <2>1. 1..Len(out \o calls) = 1..N /\ Len(out \o calls) + 1 = N + 1
    BY <1>1
  <2> QED
    BY <1>8, <1>12, <1>13, <2>1 DEF Tracks
<1>15. k[Len(out \o calls) + 1] = dn /\ g[Len(out \o calls) + 1] = lg \o Accesses(ev)
  <2>1. /\ Len(out \o calls) + 1 = N + 1 /\ N + 1 \in (Len(out) + 1)..(N + 1)
        /\ (N + 1) - (Len(out) + 1) = Len(ev)
    BY <1>1
  <2> QED
    BY <1>4, <1>11, <2>1
<1> QED
  BY <1>14, <1>15 DEF Comes

\* The outstanding events stand for accesses, two each at most.
LEMMA OutstandingType ==
  ASSUME NEW w \in Works
  PROVE  /\ w.events \in Seq(Record) /\ w.out \in Seq(Items)
         /\ Accesses(w.events) \in Accs /\ Len(Accesses(w.events)) <= 2 * NEvents
<1>1. w.events \in Seq(Record) /\ w.out \in Seq(Items) /\ Len(w.events) <= NEvents
  BY DEF Works
<1>2. /\ Accesses(w.events) \in Seq(Record)
      /\ Len(Accesses(w.events)) <= 2 * Len(w.events)
  BY <1>1, AccessesType
<1>3. Len(w.events) \in Nat /\ Len(Accesses(w.events)) \in Nat
  BY <1>1, <1>2, LenProperties
<1>4. Len(Accesses(w.events)) <= 2 * NEvents
  <2>1. PICK n, m : n = Len(w.events) /\ m = Len(Accesses(w.events))
    OBVIOUS
  <2>2. n \in Nat /\ m \in Nat /\ m <= 2 * n /\ n <= NEvents
    BY <1>1, <1>2, <1>3, <2>1, Zenon
  <2>3. m <= 2 * NEvents
    BY ONLY <2>2, EventAssumption
  <2> QED
    BY <2>1, <2>3
<1> QED
  BY <1>1, <1>2, <1>4 DEF Accs

\* Helpers that count change nothing of it.
LEMMA PendingEmit ==
  ASSUME NEW w \in Works, NEW dn \in Accs, NEW x, Pending(w, dn, x),
         NEW kind \in {"count", "detail"}, NEW arg, <<kind, arg>> \in Items
  PROVE  Pending(Emit(w, kind, arg), dn, x)
<1>1. PICK lg : lg \in Accs /\ Comes(w.out, dn, lg) /\ lg \o Accesses(w.events) = dn \o x
  BY DEF Pending
<1>2. w.out \in Seq(Items)
  BY OutstandingType
<1>3. Moves(<<kind, arg>>, dn, lg, dn, lg)
  BY DEF Moves
<1>4. Comes(Append(w.out, <<kind, arg>>), dn, lg)
  BY <1>1, <1>2, <1>3, ComesAppend
<1>5. /\ Emit(w, kind, arg).out = Append(w.out, <<kind, arg>>)
      /\ Emit(w, kind, arg).events = w.events
  BY DEF Emit, Item, Works
<1> QED
  BY <1>1, <1>4, <1>5 DEF Pending

\* The same of a counter that is emitted on a condition.
LEMMA PendingEmitIf ==
  ASSUME NEW w \in Works, NEW dn \in Accs, NEW x, Pending(w, dn, x),
         NEW c, NEW counter \in Counters
  PROVE  Pending(EmitIf(c, w, "count", counter), dn, x)
<1>1. <<"count", counter>> \in Items
  BY DEF Items
<1> QED
  BY <1>1, PendingEmit DEF EmitIf

\* The same of a count by type.
LEMMA PendingDetail ==
  ASSUME NEW w \in Works, NEW dn \in Accs, NEW x, Pending(w, dn, x),
         NEW op \in {"OpLoad", "OpStore", "OpAlu"}, NEW t \in Types
  PROVE  Pending(instrument_detail(w, op, t), dn, x)
<1>1. <<"detail", <<op, t>>>> \in Items
  BY DEF Items, Details
<1> QED
  BY <1>1, PendingEmit DEF instrument_detail

\* After flushEvents nothing is missing.
LEMMA PendingFlush ==
  ASSUME NEW w \in Works, NEW dn \in Accs, NEW x \in Accs, Pending(w, dn, x)
  PROVE  /\ Comes(flushEvents(w).out, dn, dn \o x) /\ flushEvents(w).events = <<>>
         /\ Pending(flushEvents(w), dn, x)
<1> DEFINE calls == [i \in 1..Len(w.events) |-> Item("trace", w.events[i])]
<1>1. PICK lg : lg \in Accs /\ Comes(w.out, dn, lg) /\ lg \o Accesses(w.events) = dn \o x
  BY DEF Pending
<1>2. w.out \in Seq(Items) /\ w.events \in Seq(Record) /\ Len(w.events) \in Nat
  BY OutstandingType, LenProperties
<1>3. \A i \in 1..Len(w.events) : Item("trace", w.events[i]) \in Items
  BY <1>2 DEF Item, Items
<1>4. /\ calls \in Seq(Items) /\ Len(calls) = Len(w.events)
      /\ \A i \in 1..Len(w.events) : calls[i] = <<"trace", w.events[i]>>
  BY <1>2, <1>3 DEF Item
<1> HIDE DEF calls
<1>5. flushEvents(w).out = w.out \o calls /\ flushEvents(w).events = <<>>
  BY DEF flushEvents, calls
<1>6. Comes(w.out \o calls, dn, lg \o Accesses(w.events))
  BY <1>1, <1>2, <1>4, ComesTraces
<1>7. Comes(flushEvents(w).out, dn, dn \o x)
  BY <1>1, <1>5, <1>6
<1>8. dn \o x \in Accs /\ (dn \o x) \o Accesses(<<>>) = dn \o x
  <2>1. dn \o x \in Accs /\ Accesses(<<>>) = <<>>
    BY Joined, AccessesAppend
  <2> QED
    BY <2>1, Joined
<1> QED
  BY <1>5, <1>7, <1>8 DEF Pending

\* An event that is added stands for one access more.
LEMMA PendingAdd ==
  ASSUME NEW w \in Works, NEW dn \in Accs, NEW x \in Accs, Pending(w, dn, x),
         NEW e \in Record, e.kind # "Dm"
  PROVE  Pending(AddEvent(w, e), dn, x \o <<e>>)
<1> DEFINE room == IF Len(w.events) = NEvents THEN flushEvents(w) ELSE w
<1>1. room \in Works /\ Pending(room, dn, x)
  BY PendingFlush, FlushWork
<1> HIDE DEF room
<1>2. PICK lg : /\ lg \in Accs /\ Comes(room.out, dn, lg)
                /\ lg \o Accesses(room.events) = dn \o x
  BY <1>1 DEF Pending
<1>3. room.events \in Seq(Record) /\ Accesses(room.events) \in Accs
  BY <1>1, OutstandingType
<1>4. Accesses(Append(room.events, e)) = Accesses(room.events) \o <<e>>
  BY <1>3, AccessesAppend DEF Expanded
<1>5. <<e>> \in Accs
  BY DEF Accs
<1>6. lg \o Accesses(Append(room.events, e)) = dn \o (x \o <<e>>)
  <2>1. PICK b : b = <<e>>
    OBVIOUS
  <2>2. PICK a : a = Accesses(room.events)
    OBVIOUS
  <2>3. b \in Accs /\ a \in Accs /\ lg \in Accs
    BY <1>2, <1>3, <1>5, <2>1, <2>2
  <2>4. (lg \o a) \o b = lg \o (a \o b)
    BY <2>3, JoinedThrice, Zenon
  <2>5. (dn \o x) \o b = dn \o (x \o b)
    BY <2>3, JoinedThrice, Zenon
  <2> QED
    BY <1>2, <1>4, <2>1, <2>2, <2>4, <2>5, Zenon
<1>7. /\ AddEvent(w, e).out = room.out
      /\ AddEvent(w, e).events = Append(room.events, e)
  BY <1>1 DEF AddEvent, room, Works
<1> QED
  BY <1>2, <1>6, <1>7 DEF Pending

\* A load is an access more.
LEMMA PendingLoad ==
  ASSUME NEW w \in Works, NEW dn \in Accs, NEW x \in Accs, Pending(w, dn, x),
         NEW a \in Atoms, NEW z \in Sizes
  PROVE  /\ Pending(addEvent_Dr(w, a, z), dn, x \o <<Event("Dr", a, z)>>)
         /\ <<Event("Dr", a, z)>> \in Accs
<1>1. Event("Dr", a, z) \in Record
  BY EventRecord
<1>2. Event("Dr", a, z).kind # "Dm"
  BY DEF Event
<1> QED
  BY <1>1, <1>2, PendingAdd DEF addEvent_Dr, Accs

\* So is a store, added or turning the load before it into a modify.
LEMMA PendingStore ==
  ASSUME NEW w \in Works, NEW dn \in Accs, NEW x \in Accs, Pending(w, dn, x),
         NEW a \in Atoms, NEW z \in Sizes
  PROVE  /\ Pending(addEvent_Dw(w, a, z), dn, x \o <<Event("Dw", a, z)>>)
         /\ <<Event("Dw", a, z)>> \in Accs
<1>0. Event("Dr", a, z) \in Record /\ Event("Dw", a, z) \in Record
  BY EventRecord
<1>1. <<Event("Dw", a, z)>> \in Accs
  BY <1>0 DEF Accs
<1>2. CASE Merges(w.events, a, z)
  <2> DEFINE merged == [w.events EXCEPT ![Len(w.events)].kind = "Dm"]
  <2>1. PICK lg : lg \in Accs /\ Comes(w.out, dn, lg) /\ lg \o Accesses(w.events) = dn \o x
    BY DEF Pending
  <2>2. w.events \in Seq(Record) /\ Accesses(w.events) \in Accs
    BY OutstandingType
  <2>3. Accesses(merged) = Accesses(w.events) \o <<Event("Dw", a, z)>>
    BY <1>0, <1>2, <2>2, AccessesMerge
  <2>4. [w EXCEPT !.events[Len(w.events)].kind = "Dm"] = [w EXCEPT !.events = merged]
    BY DEF Works
  <2>5. addEvent_Dw(w, a, z) = [w EXCEPT !.events = merged]
    BY <1>2, <2>4 DEF addEvent_Dw
  <2> HIDE DEF merged
  <2>6. addEvent_Dw(w, a, z).out = w.out /\ addEvent_Dw(w, a, z).events = merged
    BY <2>5 DEF Works
  <2>7. lg \o Accesses(merged) = dn \o (x \o <<Event("Dw", a, z)>>)
    <3>1. PICK b : b = <<Event("Dw", a, z)>>
      OBVIOUS
    <3>2. PICK r : r = Accesses(w.events)
      OBVIOUS
    <3>3. b \in Accs /\ r \in Accs /\ lg \in Accs
      BY <1>1, <2>1, <2>2, <3>1, <3>2
    <3>4. (lg \o r) \o b = lg \o (r \o b)
      BY <3>3, JoinedThrice, Zenon
    <3>5. (dn \o x) \o b = dn \o (x \o b)
      BY <3>3, JoinedThrice, Zenon
    <3> QED
      BY <2>1, <2>3, <3>1, <3>2, <3>4, <3>5, Zenon
  <2> QED
    BY <1>1, <2>1, <2>6, <2>7 DEF Pending
<1>3. CASE ~Merges(w.events, a, z)
  <2>1. Event("Dw", a, z).kind # "Dm"
    BY DEF Event
  <2> QED
    BY <1>0, <1>1, <1>3, <2>1, PendingAdd DEF addEvent_Dw
<1> QED
  BY <1>2, <1>3

\* A statement is emitted that the outstanding events are ready for.
LEMMA PendingStmt ==
  ASSUME NEW w \in Works, NEW dn \in Accs, NEW st \in Stmts, st.tag # "Exit",
         Pending(w, dn, Touched(st))
  PROVE  Pending(Emit(w, "stmt", st), dn \o Touched(st), <<>>)
<1>1. PICK lg : /\ lg \in Accs /\ Comes(w.out, dn, lg)
                /\ lg \o Accesses(w.events) = dn \o Touched(st)
  BY DEF Pending
<1>2. /\ w.out \in Seq(Items) /\ Accesses(w.events) \in Accs
      /\ Len(Accesses(w.events)) <= 2 * NEvents /\ <<"stmt", st>> \in Items
  BY OutstandingType DEF Items
<1>3. Touched(st) \in Accs
  BY TouchedType DEF Accs
<1>4. dn \o Touched(st) \in Accs /\ (dn \o Touched(st)) \o <<>> = dn \o Touched(st)
  BY <1>3, Joined
<1>5. Short(lg, dn \o Touched(st))
  <2>1. Accesses(w.events) \in Seq(Record)
    BY <1>2 DEF Accs
  <2> QED
    BY <1>1, <1>2, <2>1 DEF Short
<1>6. Moves(<<"stmt", st>>, dn, lg, dn \o Touched(st), lg)
  BY <1>5 DEF Moves
<1>7. Comes(Append(w.out, <<"stmt", st>>), dn \o Touched(st), lg)
  BY <1>1, <1>2, <1>4, <1>6, ComesAppend
<1>8. /\ Emit(w, "stmt", st).out = Append(w.out, <<"stmt", st>>)
      /\ Emit(w, "stmt", st).events = w.events
  BY DEF Emit, Item, Works
<1> QED
  BY <1>1, <1>4, <1>7, <1>8 DEF Pending

\* A statement that touches nothing, emitted when nothing is missing: a side
\* exit, or what stands before the first IMark.
LEMMA PendingQuiet ==
  ASSUME NEW out \in Seq(Items), NEW dn \in Accs, NEW st \in Stmts, Touched(st) = <<>>,
         Comes(out, dn, dn)
  PROVE  Comes(Append(out, <<"stmt", st>>), dn, dn)
<1>1. dn \o Touched(st) = dn /\ dn \o <<>> = dn /\ <<"stmt", st>> \in Items
  BY Joined DEF Items
<1>2. Short(dn, dn)
  <2>1. <<>> \in Seq(Record) /\ Len(<<>>) = 0
    OBVIOUS
  <2>2. Len(<<>>) <= 2 * NEvents
    <3>1. 0 <= 2 * NEvents
      BY EventAssumption
    <3> QED
      BY <2>1, <3>1
  <2> QED
    BY <1>1, <2>1, <2>2 DEF Short
<1>3. Moves(<<"stmt", st>>, dn, dn, dn, dn)
  BY <1>1, <1>2 DEF Moves
<1> QED
  BY <1>1, <1>3, ComesAppend

\* What is under way after a step.
NextWork == [events |-> events', out |-> sbOut']

\* What is emitted comes behind what has been.
LEMMA EmitParts ==
  ASSUME NEW w \in Works, NEW kind, NEW arg
  PROVE  Emit(w, kind, arg) = [events |-> w.events, out |-> Append(w.out, <<kind, arg>>)]
<1>1. PICK it : it = <<kind, arg>>
  OBVIOUS
<1>2. PICK o : o = Append(w.out, it)
  OBVIOUS
<1>3. PICK E, O : E = Seq(Record) /\ O = Seq(Items)
  OBVIOUS
<1>4. w \in [events: E, out: O]
  BY <1>3 DEF Works
<1>5. [w EXCEPT !.out = o] = [events |-> w.events, out |-> o]
  BY ONLY <1>4
<1>6. Emit(w, kind, arg) = [w EXCEPT !.out = o]
  BY <1>1, <1>2 DEF Emit, Item
<1> QED
  BY <1>1, <1>2, <1>5, <1>6

\* Two sequences of one make a sequence of two.
LEMMA TwoJoined == \A r, s : <<r>> \o <<s>> = <<r, s>>
<1> SUFFICES ASSUME NEW r, NEW s PROVE <<r>> \o <<s>> = <<r, s>>
  OBVIOUS
<1>1. PICK S : S = {r, s}
  OBVIOUS
<1>2. <<r>> \in Seq(S) /\ s \in S
  BY <1>1
<1>3. Append(<<r>>, s) = <<r>> \o <<s>>
  BY ONLY <1>2, AppendIsConcat
<1>4. Append(<<r>>, s) = <<r, s>>
  <2>1. PICK u, v : u = Append(<<r>>, s) /\ v = <<r, s>>
    OBVIOUS
  <2>2. /\ u \in Seq(S) /\ Len(u) = Len(<<r>>) + 1 /\ u[Len(<<r>>) + 1] = s
        /\ \A i \in 1..Len(<<r>>) : u[i] = <<r>>[i]
    BY <1>2, <2>1, AppendProperties
  <2>3. Len(<<r>>) = 1 /\ <<r>>[1] = r
    OBVIOUS
  <2>4. Len(u) = 2 /\ u[1] = r /\ u[2] = s
    BY <2>2, <2>3
  <2>5. v \in Seq(S) /\ Len(v) = 2 /\ v[1] = r /\ v[2] = s
    BY <1>1, <2>1
  <2>6. \A i \in 1..2 : u[i] = v[i]
    BY <2>4, <2>5
  <2>7. u = v
    BY <2>2, <2>4, <2>5, <2>6, SeqEqual
  <2> QED
    BY <2>1, <2>7
<1> QED
  BY <1>3, <1>4

\* One turn of the loop: the statement is emitted and nothing is missing that
\* the outstanding events do not make up for.
LEMMA TurnLogs ==
  ASSUME NEW before \in Works, NEW st \in Stmts, st.tag # "Exit", NEW dn \in Accs,
         Pending(before, dn, Touched(st)), Turn(before, st, <<>>)
  PROVE  \E e \in Accs : Pending(NextWork, e, <<>>)
<1>1. before.out \in Seq(Items) /\ <<"stmt", st>> \in Items
  BY OutstandingType DEF Items
<1>2. Append(before.out, <<"stmt", st>>) \in Seq(Items)
  BY <1>1, AppendProperties
<1>3. Append(before.out, <<"stmt", st>>) \o <<>> = Append(before.out, <<"stmt", st>>)
  BY <1>2, ConcatEmptySeq
<1>4. sbOut' = Append(before.out, <<"stmt", st>>) /\ events' = before.events
  BY <1>3 DEF Turn, Item
<1>5. NextWork = Emit(before, "stmt", st)
  <2>1. Emit(before, "stmt", st)
          = [events |-> before.events, out |-> Append(before.out, <<"stmt", st>>)]
    BY EmitParts
  <2> QED
    BY <1>4, <2>1 DEF NextWork
<1>6. Touched(st) \in Accs
  BY TouchedType DEF Accs
<1>7. dn \o Touched(st) \in Accs
  BY <1>6, Joined
<1>8. Pending(Emit(before, "stmt", st), dn \o Touched(st), <<>>)
  BY PendingStmt
<1> QED
  BY <1>5, <1>7, <1>8

\* Every case of md_instrument's switch but a side exit.
LEMMA PlainLogs ==
  ASSUME TypeOK, NEW dn \in Accs, Pending(Work, dn, <<>>),
         NEW st \in IRStmts, Instrument(st), st.tag # "Exit"
  PROVE  \E e \in Accs : Pending(NextWork, e, <<>>)
<1>0. /\ st \in Stmts /\ Counted \in Works /\ Pending(Counted, dn, <<>>) /\ <<>> \in Accs
  <2>1. "IRStmts" \in Counters
    BY DEF Counters
  <2>2. Pending(Counted, dn, <<>>)
    BY <2>1, WorkType, PendingEmitIf DEF Counted
  <2> QED
    BY <2>2, StatementAssumption, CountedWork, Joined
<1>1. CASE InstrumentOther(st)
  <2>1. Touched(st) = <<>> /\ Turn(Counted, st, <<>>) /\ st.tag # "Exit"
    BY <1>1 DEF InstrumentOther, Touched
  <2> QED
    BY <1>0, <2>1, TurnLogs
<1>2. CASE InstrumentAlu(st)
  <2> DEFINE w == instrument_detail(Counted, "OpAlu", st.type)
  <2>1. st.type \in Types
    BY <1>0, <1>2, StmtParts DEF InstrumentAlu
  <2>2. w \in Works /\ Pending(w, dn, <<>>)
    BY <1>0, <2>1, DetailWork, PendingDetail
  <2>3. Touched(st) = <<>> /\ Turn(w, st, <<>>)
    BY <1>2 DEF InstrumentAlu, Touched
  <2> HIDE DEF w
  <2> QED
    BY <1>0, <2>2, <2>3, TurnLogs
<1>3. CASE InstrumentIMark(st)
  <2> DEFINE c == CountsOfIMark(Counted, st.addr)
             e == Event("Ir", st.addr, 1)
             w == AddEvent(c, e)
  <2>1. st.addr \in Instrs /\ clo_basic_counts \in BOOLEAN
    BY <1>0, <1>3, StmtParts DEF InstrumentIMark, TypeOK
  <2>2. c \in Works /\ Pending(c, dn, <<>>)
    <3> DEFINE b == EmitIf(clo_basic_counts, Counted, "count", "guest_instrs")
    <3>1. "guest_instrs" \in Counters /\ "func_calls" \in Counters
      BY DEF Counters
    <3>2. b \in Works /\ Pending(b, dn, <<>>)
      BY <1>0, <2>1, <3>1, EmitIfWork, PendingEmitIf
    <3> HIDE DEF b
    <3>3. PICK k \in BOOLEAN : k = (clo_basic_counts /\ EntryOf[st.addr] = clo_fnname)
      OBVIOUS
    <3>4. EmitIf(k, b, "count", "func_calls") \in Works
      BY <3>1, <3>2, EmitIfWork
    <3>5. Pending(EmitIf(k, b, "count", "func_calls"), dn, <<>>)
      BY <3>1, <3>2, PendingEmitIf
    <3>6. c = EmitIf(k, b, "count", "func_calls")
      BY <3>3 DEF CountsOfIMark, b
    <3> QED
      BY <3>4, <3>5, <3>6
  <2> HIDE DEF c
  <2>3. e \in Record /\ e.kind # "Dm"
    <3>1. e \in Record
      BY <2>1, EventRecord DEF Sizes
    <3> QED
      BY <3>1 DEF Event
  <2>4. Touched(st) = <<e>> /\ Turn(w, st, <<>>)
    BY <1>3 DEF InstrumentIMark, Touched, addEvent_Ir, c
  <2> HIDE DEF e
  <2>5. w \in Works /\ Pending(w, dn, <<>> \o <<e>>)
    BY <1>0, <2>2, <2>3, AddWork, PendingAdd
  <2>6. <<>> \o <<e>> = <<e>>
    OBVIOUS
  <2> HIDE DEF w
  <2> QED
    BY <1>0, <2>4, <2>5, <2>6, TurnLogs
<1>4. ASSUME st.tag \in DataTags
      PROVE  /\ st.addr \in Atoms /\ st.type \in Types
             /\ Size(st) \in Sizes /\ 2 * Size(st) \in Sizes
  BY <1>0, <1>4, StmtParts, DataSize
<1>5. ASSUME NEW z \in Sizes, NEW w \in Works, Pending(w, dn, <<>>), st.addr \in Atoms
      PROVE  /\ addEvent_Dr(w, st.addr, z) \in Works
             /\ addEvent_Dw(w, st.addr, z) \in Works
             /\ addEvent_Dw(addEvent_Dr(w, st.addr, z), st.addr, z) \in Works
             /\ Pending(addEvent_Dr(w, st.addr, z), dn, <<Event("Dr", st.addr, z)>>)
             /\ Pending(addEvent_Dw(w, st.addr, z), dn, <<Event("Dw", st.addr, z)>>)
             /\ Pending(addEvent_Dw(addEvent_Dr(w, st.addr, z), st.addr, z), dn,
                        <<Event("Dr", st.addr, z), Event("Dw", st.addr, z)>>)
  <2>1. PICK r, s : r = Event("Dr", st.addr, z) /\ s = Event("Dw", st.addr, z)
    OBVIOUS
  <2>2. PICK v : v = addEvent_Dr(w, st.addr, z)
    OBVIOUS
  <2>3. v \in Works /\ Pending(v, dn, <<>> \o <<r>>) /\ <<r>> \in Accs
    BY <1>0, <1>5, <2>1, <2>2, LoadWork, PendingLoad
  <2>4. /\ addEvent_Dw(w, st.addr, z) \in Works
        /\ Pending(addEvent_Dw(w, st.addr, z), dn, <<>> \o <<s>>)
    BY <1>0, <1>5, <2>1, StoreWork, PendingStore
  <2>5. <<>> \o <<r>> = <<r>> /\ <<>> \o <<s>> = <<s>> /\ <<r>> \o <<s>> = <<r, s>>
    <3>1. <<>> \o <<r>> = <<r>>
      OBVIOUS
    <3>2. <<>> \o <<s>> = <<s>>
      OBVIOUS
    <3>3. <<r>> \o <<s>> = <<r, s>>
      BY TwoJoined
    <3> QED
      BY <3>1, <3>2, <3>3, Zenon
  <2>6. Pending(v, dn, <<r>>)
    BY <2>3, <2>5, Zenon
  <2>7. /\ addEvent_Dw(v, st.addr, z) \in Works
        /\ Pending(addEvent_Dw(v, st.addr, z), dn, <<r>> \o <<s>>)
    BY <1>5, <2>1, <2>3, <2>6, StoreWork, PendingStore
  <2> QED
    BY <2>1, <2>2, <2>3, <2>4, <2>5, <2>6, <2>7, Zenon
<1>6. CASE InstrumentLoad(st)
  <2> DEFINE v == addEvent_Dr(Counted, st.addr, Size(st))
             w == instrument_detail(v, "OpLoad", st.type)
  <2>1. st.tag = "Load" /\ st.tag \in DataTags /\ Turn(w, st, <<>>)
    BY <1>6 DEF InstrumentLoad, DataTags
  <2>2. Touched(st) = <<Event("Dr", st.addr, Size(st))>>
    BY <2>1 DEF Touched
  <2>3. v \in Works /\ Pending(v, dn, Touched(st)) /\ st.type \in Types
    BY <1>0, <1>4, <1>5, <2>1, <2>2
  <2> HIDE DEF v
  <2>4. w \in Works /\ Pending(w, dn, Touched(st))
    BY <2>3, DetailWork, PendingDetail
  <2> HIDE DEF w
  <2> QED
    BY <1>0, <2>1, <2>4, TurnLogs
<1>7. CASE InstrumentStore(st) \/ InstrumentSC(st)
  <2> DEFINE v == addEvent_Dw(Counted, st.addr, Size(st))
             w == instrument_detail(v, "OpStore", st.type)
  <2>1. st.tag \in {"Store", "SC"} /\ st.tag \in DataTags /\ Turn(w, st, <<>>)
    BY <1>7 DEF InstrumentStore, InstrumentSC, DataTags
  <2>2. Touched(st) = <<Event("Dw", st.addr, Size(st))>>
    BY <2>1 DEF Touched
  <2>3. v \in Works /\ Pending(v, dn, Touched(st)) /\ st.type \in Types
    BY <1>0, <1>4, <1>5, <2>1, <2>2
  <2> HIDE DEF v
  <2>4. w \in Works /\ Pending(w, dn, Touched(st))
    BY <2>3, DetailWork, PendingDetail
  <2> HIDE DEF w
  <2> QED
    BY <1>0, <2>1, <2>4, TurnLogs
<1>8. CASE InstrumentDirty(st)
  <2> DEFINE read == IF st.tag = "DirtyWrite" THEN Counted
                     ELSE addEvent_Dr(Counted, st.addr, Size(st))
             both == IF st.tag = "DirtyRead" THEN read
                     ELSE addEvent_Dw(read, st.addr, Size(st))
  <2>1. /\ st.tag \in {"DirtyRead", "DirtyWrite", "DirtyModify"} /\ st.tag \in DataTags
        /\ Turn(both, st, <<>>)
    BY <1>8 DEF InstrumentDirty, DataTags
  <2>2. both \in Works /\ Pending(both, dn, Touched(st))
    <3>1. CASE st.tag = "DirtyRead"
      <4>1. Touched(st) = <<Event("Dr", st.addr, Size(st))>>
        BY <3>1 DEF Touched
      <4> QED
        BY <1>0, <1>4, <1>5, <2>1, <3>1, <4>1
    <3>2. CASE st.tag = "DirtyWrite"
      <4>1. Touched(st) = <<Event("Dw", st.addr, Size(st))>>
        BY <3>2 DEF Touched
      <4> QED
        BY <1>0, <1>4, <1>5, <2>1, <3>2, <4>1
    <3>3. CASE st.tag = "DirtyModify"
      <4>1. Touched(st) = <<Event("Dr", st.addr, Size(st)), Event("Dw", st.addr, Size(st))>>
        BY <3>3 DEF Touched
      <4> QED
        BY <1>0, <1>4, <1>5, <2>1, <3>3, <4>1
    <3> QED
      BY <2>1, <3>1, <3>2, <3>3
  <2> HIDE DEF read, both
  <2> QED
    BY <1>0, <2>1, <2>2, TurnLogs
<1>9. CASE InstrumentCAS(st)
  <2> DEFINE z == IF st.tag = "DCAS" THEN 2 * Size(st) ELSE Size(st)
             both == addEvent_Dw(addEvent_Dr(Counted, st.addr, z), st.addr, z)
             w == CASDetails(both, st)
  <2>1. st.tag \in {"CAS", "DCAS"} /\ st.tag \in DataTags /\ Turn(w, st, <<>>)
    BY <1>9 DEF InstrumentCAS, DataTags
  <2>2. z \in Sizes /\ st.addr \in Atoms /\ st.type \in Types
    BY <1>4, <2>1
  <2>3. Touched(st) = <<Event("Dr", st.addr, z), Event("Dw", st.addr, z)>>
    BY <2>1 DEF Touched
  <2> HIDE DEF z
  <2>4. both \in Works /\ Pending(both, dn, Touched(st))
    BY <1>0, <1>5, <2>2, <2>3
  <2> HIDE DEF both
  <2>5. w \in Works /\ Pending(w, dn, Touched(st))
    <3> DEFINE load == instrument_detail(both, "OpLoad", st.type)
               loads == IF st.tag = "DCAS" THEN instrument_detail(load, "OpLoad", st.type)
                        ELSE load
               store == instrument_detail(loads, "OpStore", st.type)
    <3>1. load \in Works /\ Pending(load, dn, Touched(st))
      BY <2>2, <2>4, DetailWork, PendingDetail
    <3> HIDE DEF load
    <3>2. loads \in Works /\ Pending(loads, dn, Touched(st))
      BY <2>2, <3>1, DetailWork, PendingDetail
    <3> HIDE DEF loads
    <3>3. store \in Works /\ Pending(store, dn, Touched(st))
      BY <2>2, <3>2, DetailWork, PendingDetail
    <3> HIDE DEF store
    <3>4. w = IF st.tag = "DCAS" THEN instrument_detail(store, "OpStore", st.type) ELSE store
      BY DEF CASDetails, store, loads, load
    <3> HIDE DEF w
    <3> QED
      BY <2>2, <3>3, <3>4, DetailWork, PendingDetail
  <2> HIDE DEF w
  <2> QED
    BY <1>0, <2>1, <2>5, TurnLogs
<1>10. CASE InstrumentLL(st)
  <2> DEFINE v == addEvent_Dr(Counted, st.addr, Size(st))
             u == flushEvents(v)
             w == instrument_detail(u, "OpLoad", st.type)
  <2>1. st.tag = "LL" /\ st.tag \in DataTags /\ Turn(w, st, <<>>)
    BY <1>10 DEF InstrumentLL, DataTags
  <2>2. Touched(st) = <<Event("Dr", st.addr, Size(st))>> /\ Touched(st) \in Accs
    BY <1>0, <2>1, TouchedType DEF Touched, Accs
  <2>3. v \in Works /\ Pending(v, dn, Touched(st)) /\ st.type \in Types
    BY <1>0, <1>4, <1>5, <2>1, <2>2
  <2> HIDE DEF v
  <2>4. u \in Works /\ Pending(u, dn, Touched(st))
    BY <2>2, <2>3, FlushWork, PendingFlush
  <2> HIDE DEF u
  <2>5. w \in Works /\ Pending(w, dn, Touched(st))
    BY <2>3, <2>4, DetailWork, PendingDetail
  <2> HIDE DEF w
  <2> QED
    BY <1>0, <2>1, <2>5, TurnLogs
<1>11. ~InstrumentExit(st)
  BY DEF InstrumentExit
<1> QED
  BY <1>1, <1>2, <1>3, <1>6, <1>7, <1>8, <1>9, <1>10, <1>11 DEF Instrument

\* A side exit: the outstanding events are flushed before it.
LEMMA ExitLogs ==
  ASSUME TypeOK, NEW dn \in Accs, Pending(Work, dn, <<>>),
         NEW st \in IRStmts, Instrument(st), st.tag = "Exit"
  PROVE  \E e \in Accs : Pending(NextWork, e, <<>>)
<1> DEFINE b == EmitIf(clo_basic_counts, Counted, "count", Jcc(st))
           w == flushEvents(b)
           after == IF clo_basic_counts THEN <<Item("count", JccUntaken(st))>> ELSE <<>>
<1>0. /\ st \in Stmts /\ Counted \in Works /\ Pending(Counted, dn, <<>>) /\ <<>> \in Accs
      /\ clo_basic_counts \in BOOLEAN
  <2>1. "IRStmts" \in Counters
    BY DEF Counters
  <2>2. Pending(Counted, dn, <<>>)
    BY <2>1, WorkType, PendingEmitIf DEF Counted
  <2> QED
    BY <2>2, StatementAssumption, CountedWork, Joined DEF TypeOK
<1>1. Turn(w, st, after)
  BY DEF Instrument, InstrumentOther, InstrumentAlu, InstrumentIMark, InstrumentLoad,
         InstrumentStore, InstrumentDirty, InstrumentCAS, InstrumentLL, InstrumentSC,
         InstrumentExit, BeforeExit
<1>2. Jcc(st) \in Counters /\ JccUntaken(st) \in Counters
  BY DEF Jcc, JccUntaken, Counters
<1>3. b \in Works /\ Pending(b, dn, <<>>)
  BY <1>0, <1>2, EmitIfWork, PendingEmitIf
<1> HIDE DEF b
<1>4. w \in Works /\ w.events = <<>> /\ Comes(w.out, dn, dn \o <<>>) /\ dn \o <<>> = dn
  BY <1>0, <1>3, FlushWork, PendingFlush, Joined
<1>5. w.out \in Seq(Items) /\ <<"stmt", st>> \in Items
  BY <1>0, <1>4, OutstandingType DEF Items
<1> HIDE DEF w
<1>6. Touched(st) = <<>>
  BY DEF Touched
<1>7. Comes(w.out, dn, dn)
  BY <1>4
<1>8. Comes(Append(w.out, <<"stmt", st>>), dn, dn)
  BY <1>0, <1>5, <1>6, <1>7, PendingQuiet
<1>9. PICK out : out = Append(w.out, <<"stmt", st>>)
  OBVIOUS
<1>10. out \in Seq(Items)
  BY <1>5, <1>9, AppendProperties
<1>11. sbOut' = out \o after /\ events' = <<>>
  BY <1>1, <1>4, <1>9 DEF Turn, Item
<1>12. Comes(sbOut', dn, dn)
  <2>1. CASE clo_basic_counts
    <3>1. PICK it : it = <<"count", JccUntaken(st)>>
      OBVIOUS
    <3>2. it \in Items /\ it[1] = "count"
      BY <1>2, <3>1 DEF Items
    <3>3. after = <<it>>
      BY <2>1, <3>1 DEF Item
    <3>4. sbOut' = Append(out, it)
      BY <1>10, <1>11, <3>2, <3>3, AppendIsConcat
    <3>5. Moves(it, dn, dn, dn, dn)
      BY <3>2 DEF Moves
    <3>6. Comes(out, dn, dn)
      BY <1>8, <1>9
    <3> QED
      BY <1>10, <3>2, <3>4, <3>5, <3>6, ComesAppend
  <2>2. CASE ~clo_basic_counts
    <3>1. sbOut' = out
      BY <1>10, <1>11, <2>2, ConcatEmptySeq
    <3> QED
      BY <1>8, <1>9, <3>1
  <2> QED
    BY <2>1, <2>2
<1> QED
  <2>1. NextWork.out = sbOut' /\ NextWork.events = <<>>
    BY <1>11 DEF NextWork
  <2>2. dn \o Accesses(<<>>) = dn \o <<>>
    BY AccessesAppend
  <2> QED
    BY <1>12, <2>1, <2>2 DEF Pending

\* The preamble: nothing in it touches memory.
LEMMA BeginLogs ==
  ASSUME TypeOK, NEW preamble \in Preambles, BeginBlock(preamble)
  PROVE  Pending(NextWork, <<>>, <<>>)
<1> DEFINE copied == [i \in 1..Len(preamble) |-> Item("stmt", preamble[i])]
           begun == [Work EXCEPT !.out = copied]
           T == {n \in 0..Len(preamble) : ~Comes(SubSeq(copied, 1, n), <<>>, <<>>)}
<1>1. /\ Len(preamble) \in Nat
      /\ \A i \in 1..Len(preamble) : preamble[i] \in Stmts /\ Touched(preamble[i]) = <<>>
  <2>1. preamble \in Seq(Exits \cup Others)
    BY PreambleAssumption
  <2>2. \A i \in 1..Len(preamble) : preamble[i] \in Exits \cup Others
    BY <2>1, ElementOfSeq
  <2>3. \A st \in Exits \cup Others : st \in Stmts /\ st.tag \in {"Exit", "Put"}
    BY DEF Stmts, Exits, Others
  <2>4. \A st : st.tag \in {"Exit", "Put"} => Touched(st) = <<>>
    BY DEF Touched
  <2> QED
    BY <2>1, <2>2, <2>3, <2>4, LenProperties
<1>2. copied \in Seq(Items) /\ Len(copied) = Len(preamble)
  <2>1. \A i \in 1..Len(preamble) : Item("stmt", preamble[i]) \in Items
    BY <1>1 DEF Item, Items
  <2> QED
    BY <1>1, <2>1
<1>3. \A i \in 1..Len(preamble) : copied[i] = <<"stmt", preamble[i]>>
  BY <1>1 DEF Item
<1> HIDE DEF copied
<1>4. T = {}
  <2>1. SUFFICES ASSUME T # {} PROVE FALSE
    OBVIOUS
  <2>2. PICK n \in T : \A k \in T : n <= k
    <3>1. T \subseteq Nat
      OBVIOUS
    <3> HIDE DEF T
    <3> QED
      BY <2>1, <3>1, Least
  <2>3. n \in 0..Len(preamble) /\ ~Comes(SubSeq(copied, 1, n), <<>>, <<>>)
    BY <2>2
  <2>4. n # 0
    <3>1. SubSeq(copied, 1, 0) = <<>>
      BY <1>2
    <3> QED
      BY <2>3, <3>1, ComesEmpty
  <2>5. /\ n - 1 \in 0..Len(preamble) /\ n \in 1..Len(preamble) /\ ~(n <= n - 1)
        /\ n - 1 \in Nat /\ n \in Nat
    BY <1>1, <2>3, <2>4
  <2>6. Comes(SubSeq(copied, 1, n - 1), <<>>, <<>>)
    BY <2>2, <2>5
  <2> HIDE DEF T
  <2>7. PICK h : h = SubSeq(copied, 1, n - 1)
    OBVIOUS
  <2>8. /\ h \in Seq(Items) /\ Len(h) = n - 1 /\ \A i \in 1..(n - 1) : h[i] = copied[i]
    <3>1. \A i \in 1..(n - 1) : copied[i] \in Items
      BY <1>2, <2>5, ElementOfSeq
    <3> QED
      BY <2>5, <2>7, <3>1, SubSeqProperties
  <2>9. PICK g : g = SubSeq(copied, 1, n)
    OBVIOUS
  <2>10. /\ g \in Seq(Items) /\ Len(g) = n /\ \A i \in 1..n : g[i] = copied[i]
    <3>1. \A i \in 1..n : copied[i] \in Items
      BY <1>2, <2>5, ElementOfSeq
    <3> QED
      BY <2>5, <2>9, <3>1, SubSeqProperties
  <2>11. g = Append(h, <<"stmt", preamble[n]>>)
    <3>1. PICK a : a = Append(h, <<"stmt", preamble[n]>>)
      OBVIOUS
    <3>2. <<"stmt", preamble[n]>> \in Items
      BY <1>1, <2>5 DEF Items
    <3>3. /\ a \in Seq(Items) /\ Len(a) = n /\ a[n] = <<"stmt", preamble[n]>>
          /\ \A i \in 1..(n - 1) : a[i] = h[i]
      BY <2>5, <2>8, <3>1, <3>2, AppendProperties
    <3>4. \A i \in 1..n : a[i] = g[i]
      <4> SUFFICES ASSUME NEW i \in 1..n PROVE a[i] = g[i]
        OBVIOUS
      <4>1. i = n \/ i \in 1..(n - 1)
        BY <2>5
      <4> QED
        BY <1>3, <2>5, <2>8, <2>10, <3>3, <4>1
    <3>5. a = g
      BY <2>10, <3>3, <3>4, SeqEqual
    <3> QED
      BY <3>1, <3>5
  <2>12. Comes(g, <<>>, <<>>)
    BY <1>1, <2>5, <2>6, <2>7, <2>8, <2>11, Joined, PendingQuiet
  <2> QED
    BY <2>3, <2>9, <2>12
<1>5. Comes(copied, <<>>, <<>>)
  <2>1. SubSeq(copied, 1, Len(copied)) = copied
    BY <1>2
  <2>2. Len(preamble) \in 0..Len(preamble)
    BY <1>1
  <2> QED
    BY <1>2, <1>4, <2>1, <2>2
<1> HIDE DEF T
<1>6. PICK w : w = [events |-> <<>>, out |-> copied]
  OBVIOUS
<1>7. w \in Works /\ w.out = copied /\ w.events = <<>>
  <2>1. <<>> \in Seq(Record) /\ Len(<<>>) = 0
    OBVIOUS
  <2>2. 0 <= NEvents
    BY EventAssumption
  <2> QED
    BY <1>2, <1>6, <2>1, <2>2 DEF Works
<1>8. Pending(w, <<>>, <<>>)
  <2>1. <<>> \o Accesses(<<>>) = <<>> \o <<>>
    BY AccessesAppend
  <2> QED
    BY <1>5, <1>7, <2>1, Joined DEF Pending
<1>9. "SBs_entered" \in Counters /\ <<"count", "SBs_entered">> \in Items
  BY DEF Counters, Items
<1>10. Pending(EmitIf(clo_basic_counts, w, "count", "SBs_entered"), <<>>, <<>>)
  BY <1>7, <1>8, <1>9, Joined, PendingEmitIf
<1>11. NextWork = EmitIf(clo_basic_counts, w, "count", "SBs_entered")
  <2>1. events' = <<>> /\ sbOut' = EmitIf(clo_basic_counts, begun, "count", "SBs_entered").out
    BY DEF BeginBlock, copied
  <2>2. begun.out = w.out
    BY <1>7 DEF Work
  <2>3. sbOut' = EmitIf(clo_basic_counts, w, "count", "SBs_entered").out
    <3>1. begun = [events |-> events, out |-> copied]
      BY DEF Work
    <3> HIDE DEF begun
    <3> QED
      BY <1>6, <2>1, <3>1 DEF EmitIf, Emit
  <2>4. EmitIf(clo_basic_counts, w, "count", "SBs_entered").events = <<>>
    BY <1>6 DEF EmitIf, Emit
  <2> QED
    BY <1>6, <2>1, <2>3, <2>4 DEF NextWork, EmitIf, Emit
<1> QED
  BY <1>10, <1>11

\* The end of md_instrument: what the translation touches is what it logs.
LEMMA EndBlockLogs ==
  ASSUME TypeOK, EndBlock, NEW dn \in Accs, Pending(Work, dn, <<>>)
  PROVE  Comes(sbOut', dn, dn)
<1> DEFINE w == EmitIf(clo_basic_counts, Work, "count", "SBs_completed")
<1>1. clo_basic_counts \in BOOLEAN /\ "SBs_completed" \in Counters
  BY DEF TypeOK, Counters
<1>2. w \in Works /\ Pending(w, dn, <<>>)
  BY <1>1, WorkType, EmitIfWork, PendingEmitIf
<1>3. sbOut' = flushEvents(w).out
  BY DEF EndBlock, EndOfBlock
<1> HIDE DEF w
<1>4. Comes(flushEvents(w).out, dn, dn \o <<>>) /\ dn \o <<>> = dn
  BY <1>2, PendingFlush, Joined
<1> QED
  BY <1>3, <1>4

-----------------------------------------------------------------------------
(* The invariant: between superblocks the translation logs what it touches, *)
(* and a run has done so up to the item it is at.                           *)

\* The translation logs what it touches.
Even == \E dn \in Accs : Comes(sbOut, dn, dn)

\* Under instrumentation the outstanding events are all that is missing.
Open == \E dn \in Accs : Pending(Work, dn, <<>>)

\* The run has touched and logged what the items before "at" make of it.
Going ==
  /\ left = "none" /\ at \in 1..(Len(sbOut) + 1)
  /\ \E d, l : /\ Tracks(sbOut, d, l) /\ d[Len(sbOut) + 1] = l[Len(sbOut) + 1]
               /\ done = d[at] /\ Logged = l[at]

\* How the last run was left.
Outcome ==
  /\ left \in {"exit", "end"} => Logged = done
  /\ left = "fault" => Short(Logged, done)

LogInv ==
  /\ pc \in {"options", "guest"} => Even
  /\ pc \in {"first", "instrument"} => Open
  /\ pc \in {"run", "flush"} => Going
  /\ Outcome
  /\ base <= Len(log)

LInv == IInv /\ LogInv

\* What is logged is what the records stored since the run began stand for.
LEMMA LoggedSince ==
  ASSUME TypeOK, base <= Len(log)
  PROVE  /\ Logged \in Accs
         /\ \A r \in Record : log' = Append(log, r) /\ base' = base =>
              Logged' = Logged \o Expanded(r) /\ base' <= Len(log')
<1>1. log \in Seq(Record) /\ base \in Nat /\ Len(log) \in Nat
  BY LenProperties DEF TypeOK
<1>2. PICK b, n : b = base /\ n = Len(log)
  OBVIOUS
<1>3. b \in Nat /\ n \in Nat /\ b <= n /\ b + 1 \in 1..(n + 1)
  BY <1>1, <1>2
<1>4. PICK s : s = SubSeq(log, b + 1, n)
  OBVIOUS
<1>5. /\ s \in Seq(Record) /\ Len(s) = n - b
      /\ \A i \in 1..(n - b) : s[i] = log[b + i]
  <2>1. \A i \in (b + 1)..n : log[i] \in Record
    BY <1>1, <1>2, <1>3, ElementOfSeq
  <2>2. /\ s \in Seq(Record)
        /\ Len(s) = (IF b + 1 <= n THEN n - (b + 1) + 1 ELSE 0)
        /\ \A i \in 1..(n - (b + 1) + 1) : s[i] = log[(b + 1) + i - 1]
    BY <1>1, <1>2, <1>3, <1>4, <2>1, SubSeqProperties
  <2>3. n - (b + 1) + 1 = n - b /\ \A i \in Nat : (b + 1) + i - 1 = b + i
    BY <1>3
  <2>4. Len(s) = n - b
    <3>1. b + 1 <= n \/ n = b
      BY <1>3
    <3> QED
      BY <1>3, <2>2, <3>1
  <2> QED
    BY <2>2, <2>3, <2>4
<1>6. Logged = Accesses(s)
  BY <1>2, <1>4 DEF Logged
<1>7. Logged \in Accs
  BY <1>5, <1>6, AccessesType DEF Accs
<1>8. ASSUME NEW r \in Record, log' = Append(log, r), base' = base
      PROVE  Logged' = Logged \o Expanded(r) /\ base' <= Len(log')
  <2>1. PICK t : t = Append(log, r)
    OBVIOUS
  <2>2. /\ t \in Seq(Record) /\ Len(t) = n + 1 /\ t[n + 1] = r
        /\ \A i \in 1..n : t[i] = log[i]
    BY <1>1, <1>2, <2>1, AppendProperties
  <2>3. PICK q : q = SubSeq(t, b + 1, n + 1)
    OBVIOUS
  <2>4. /\ q \in Seq(Record) /\ Len(q) = (n + 1) - b
        /\ \A i \in 1..((n + 1) - b) : q[i] = t[b + i]
    <3>1. \A i \in (b + 1)..(n + 1) : t[i] \in Record
      BY <1>3, <2>2, ElementOfSeq
    <3>2. /\ q \in Seq(Record)
          /\ Len(q) = (IF b + 1 <= n + 1 THEN (n + 1) - (b + 1) + 1 ELSE 0)
          /\ \A i \in 1..((n + 1) - (b + 1) + 1) : q[i] = t[(b + 1) + i - 1]
      BY <1>3, <2>2, <2>3, <3>1, SubSeqProperties
    <3>3. (n + 1) - (b + 1) + 1 = (n + 1) - b /\ \A i \in Nat : (b + 1) + i - 1 = b + i
      BY <1>3
    <3> QED
      BY <1>3, <3>2, <3>3
  <2>5. PICK a : a = Append(s, r)
    OBVIOUS
  <2>6. /\ a \in Seq(Record) /\ Len(a) = (n + 1) - b /\ a[(n + 1) - b] = r
        /\ \A i \in 1..(n - b) : a[i] = s[i]
    <3>1. (n - b) + 1 = (n + 1) - b
      BY <1>3
    <3>2. /\ a \in Seq(Record) /\ Len(a) = (n - b) + 1 /\ a[(n - b) + 1] = r
          /\ \A i \in 1..(n - b) : a[i] = s[i]
      BY <1>5, <2>5, AppendProperties
    <3> QED
      BY <3>1, <3>2
  <2>7. \A i \in 1..((n + 1) - b) : q[i] = a[i]
    <3> SUFFICES ASSUME NEW i \in 1..((n + 1) - b) PROVE q[i] = a[i]
      OBVIOUS
    <3>1. CASE i = (n + 1) - b
      <4>1. b + i = n + 1
        BY <1>3, <3>1
      <4> QED
        BY <2>2, <2>4, <2>6, <3>1, <4>1
    <3>2. CASE i # (n + 1) - b
      <4>1. i \in 1..(n - b) /\ b + i \in 1..n
        BY <1>3, <3>2
      <4> QED
        BY <1>5, <2>2, <2>4, <2>6, <4>1
    <3> QED
      BY <3>1, <3>2
  <2>8. q = a
    BY <2>4, <2>6, <2>7, SeqEqual
  <2>9. Len(log') = n + 1 /\ base' = b /\ b <= n + 1
    BY <1>2, <1>3, <1>8, <2>1, <2>2
  <2>10. Logged' = Accesses(SubSeq(t, b + 1, n + 1))
    <3>1. Logged' = Accesses(SubSeq(log', base' + 1, Len(log')))
      BY DEF Logged
    <3>2. log' = t
      BY <1>8, <2>1
    <3> QED
      BY <2>9, <3>1, <3>2
  <2>11. Accesses(a) = Accesses(s) \o Expanded(r)
    BY <1>5, <2>5, AccessesAppend
  <2>12. base' <= Len(log')
    BY <2>9
  <2> QED
    BY <1>6, <2>3, <2>8, <2>10, <2>11, <2>12
<1> QED
  BY <1>7, <1>8

\* Where a run stands, and what its next item makes of it.
LEMMA GoingDue ==
  ASSUME IInv, Going, NEW kind, Due(kind)
  PROVE  /\ sbOut[at] \in Items /\ sbOut[at][1] = kind /\ sbOut[at][2] = Arg
         /\ \E d2 \in Accs, l2 \in Accs :
              /\ Moves(sbOut[at], done, Logged, d2, l2)
              /\ (/\ sbOut' = sbOut /\ left' = left /\ at' = at + 1
                  /\ done' = d2 /\ Logged' = l2) => Going'
<1>1. /\ sbOut \in Seq(Items) /\ Len(sbOut) \in Nat /\ at \in 1..Len(sbOut)
      /\ at + 1 \in 1..(Len(sbOut) + 1)
  <2>1. sbOut \in Seq(Items)
    BY DEF IInv, TypeOK, Items
  <2>2. Len(sbOut) \in Nat /\ at \in 1..(Len(sbOut) + 1) /\ at <= Len(sbOut)
    BY <2>1, LenProperties DEF Going, Due
  <2> QED
    BY <2>1, <2>2
<1>2. sbOut[at] \in Items /\ sbOut[at][1] = kind /\ sbOut[at][2] = Arg
  BY <1>1, ElementOfSeq DEF Due, Arg
<1>3. PICK d, l : /\ Tracks(sbOut, d, l) /\ d[Len(sbOut) + 1] = l[Len(sbOut) + 1]
                  /\ done = d[at] /\ Logged = l[at]
  BY DEF Going
<1>4. /\ d[at + 1] \in Accs /\ l[at + 1] \in Accs
      /\ Moves(sbOut[at], d[at], l[at], d[at + 1], l[at + 1])
  BY <1>1, <1>3 DEF Tracks
<1>5. PICK d2, l2 : d2 = d[at + 1] /\ l2 = l[at + 1]
  OBVIOUS
<1>6. ASSUME sbOut' = sbOut, left' = left, at' = at + 1, done' = d2, Logged' = l2
      PROVE  Going'
  <2>1. left' = "none"
    BY <1>6 DEF Going
  <2>2. at' \in 1..(Len(sbOut') + 1)
    BY <1>1, <1>6
  <2>3. /\ Tracks(sbOut', d, l) /\ d[Len(sbOut') + 1] = l[Len(sbOut') + 1]
        /\ done' = d[at'] /\ Logged' = l[at']
    BY <1>3, <1>5, <1>6
  <2> QED
    BY <2>1, <2>2, <2>3 DEF Going
<1>7. Moves(sbOut[at], done, Logged, d2, l2) /\ d2 \in Accs /\ l2 \in Accs
  BY <1>3, <1>4, <1>5
<1> QED
  BY <1>2, <1>6, <1>7

\* A run that ends leaves an even translation.
LEMMA GoingEven ==
  ASSUME IInv, Going, sbOut' = sbOut
  PROVE  Even' /\ (at > Len(sbOut) => Logged = done) /\ done \in Accs
<1>1. sbOut \in Seq(Items) /\ Len(sbOut) \in Nat
  BY LenProperties DEF IInv, TypeOK, Items
<1>2. PICK d, l : /\ Tracks(sbOut, d, l) /\ d[Len(sbOut) + 1] = l[Len(sbOut) + 1]
                  /\ done = d[at] /\ Logged = l[at]
  BY DEF Going
<1>3. d[Len(sbOut) + 1] \in Accs
  BY <1>1, <1>2 DEF Tracks
<1>4. Comes(sbOut, d[Len(sbOut) + 1], d[Len(sbOut) + 1])
  BY <1>2 DEF Comes
<1>5. Even'
  BY <1>3, <1>4 DEF Even
<1>6. at > Len(sbOut) => at = Len(sbOut) + 1
  BY <1>1 DEF Going
<1>7. done \in Accs
  BY <1>2 DEF Going, Tracks
<1> QED
  BY <1>2, <1>5, <1>6, <1>7

\* A step that leaves the log and its base alone leaves what is logged alone.
LEMMA LoggedKept ==
  ASSUME log' = log, base' = base
  PROVE  Logged' = Logged
<1>1. Logged' = Accesses(SubSeq(log', base' + 1, Len(log')))
  BY DEF Logged
<1> QED
  BY <1>1 DEF Logged

\* A step of a run that goes on.
LEMMA RunGoes ==
  ASSUME LInv, RunCount \/ RunDetail \/ RunTrace \/ RunStatement \/ RunExitUntaken
  PROVE  LogInv'
<1>0. IInv /\ TypeOK /\ LogInv /\ pc = "run" /\ Going /\ base <= Len(log)
  <2>1. pc = "run"
    BY DEF RunCount, RunDetail, RunTrace, RunStatement, RunExitUntaken, Due
  <2> QED
    BY <2>1 DEF LInv, IInv, LogInv
<1>1. sbOut' = sbOut /\ left' = left /\ at' = at + 1 /\ base' = base /\ left = "none"
  BY <1>0 DEF RunCount, RunDetail, RunTrace, RunStatement, RunExitUntaken, irVars, guestVars,
     Going
<1>2. pc' \in {"run", "flush"} /\ Outcome'
  BY <1>0, <1>1 DEF RunCount, RunDetail, RunTrace, RunStatement, RunExitUntaken, Outcome
<1>3. done \in Accs /\ Logged \in Accs
  BY <1>0, LoggedSince DEF TypeOK, Accs
<1>4. Going' /\ base' <= Len(log')
  <2>1. CASE RunCount
    <3>1. Due("count") /\ done' = done /\ log' = log
      BY <2>1 DEF RunCount, guestVars, storeVars, irVars
    <3>2. PICK d2 \in Accs, l2 \in Accs :
            /\ Moves(sbOut[at], done, Logged, d2, l2)
            /\ (/\ sbOut' = sbOut /\ left' = left /\ at' = at + 1
                /\ done' = d2 /\ Logged' = l2) => Going'
      BY <1>0, <3>1, GoingDue
    <3>3. sbOut[at][1] = "count"
      BY <1>0, <3>1, GoingDue
    <3>4. d2 = done /\ l2 = Logged
      BY <3>2, <3>3 DEF Moves
    <3> QED
      BY <1>0, <1>1, <3>1, <3>2, <3>4, LoggedKept
  <2>2. CASE RunDetail
    <3>1. Due("detail") /\ done' = done /\ log' = log
      BY <2>2 DEF RunDetail, guestVars, storeVars, irVars
    <3>2. PICK d2 \in Accs, l2 \in Accs :
            /\ Moves(sbOut[at], done, Logged, d2, l2)
            /\ (/\ sbOut' = sbOut /\ left' = left /\ at' = at + 1
                /\ done' = d2 /\ Logged' = l2) => Going'
      BY <1>0, <3>1, GoingDue
    <3>3. sbOut[at][1] = "detail"
      BY <1>0, <3>1, GoingDue
    <3>4. d2 = done /\ l2 = Logged
      BY <3>2, <3>3 DEF Moves
    <3> QED
      BY <1>0, <1>1, <3>1, <3>2, <3>4, LoggedKept
  <2>3. CASE RunTrace
    <3>1. Due("trace") /\ done' = done /\ log' = Append(log, Arg) /\ Arg \in Record
      BY <1>0, <2>3, DueItem DEF RunTrace, guestVars
    <3>2. PICK d2 \in Accs, l2 \in Accs :
            /\ Moves(sbOut[at], done, Logged, d2, l2)
            /\ (/\ sbOut' = sbOut /\ left' = left /\ at' = at + 1
                /\ done' = d2 /\ Logged' = l2) => Going'
      BY <1>0, <3>1, GoingDue
    <3>3. sbOut[at][1] = "trace" /\ sbOut[at][2] = Arg
      BY <1>0, <3>1, GoingDue
    <3>4. d2 = done /\ l2 = Logged \o Expanded(Arg)
      BY <3>2, <3>3 DEF Moves
    <3>5. Logged' = Logged \o Expanded(Arg) /\ base' <= Len(log')
      BY <1>0, <1>1, <3>1, LoggedSince
    <3> QED
      BY <1>1, <3>1, <3>2, <3>4, <3>5
  <2>4. CASE RunStatement
    <3>1. Due("stmt") /\ done' = done \o Touched(Arg) /\ log' = log
      BY <2>4 DEF RunStatement, storeVars
    <3>2. PICK d2 \in Accs, l2 \in Accs :
            /\ Moves(sbOut[at], done, Logged, d2, l2)
            /\ (/\ sbOut' = sbOut /\ left' = left /\ at' = at + 1
                /\ done' = d2 /\ Logged' = l2) => Going'
      BY <1>0, <3>1, GoingDue
    <3>3. sbOut[at][1] = "stmt" /\ sbOut[at][2] = Arg
      BY <1>0, <3>1, GoingDue
    <3>4. d2 = done \o Touched(Arg) /\ l2 = Logged
      BY <3>2, <3>3 DEF Moves
    <3> QED
      BY <1>0, <1>1, <3>1, <3>2, <3>4, LoggedKept
  <2>5. CASE RunExitUntaken
    <3>1. Due("stmt") /\ done' = done /\ log' = log /\ Arg.tag = "Exit"
      BY <2>5 DEF RunExitUntaken, storeVars
    <3>2. PICK d2 \in Accs, l2 \in Accs :
            /\ Moves(sbOut[at], done, Logged, d2, l2)
            /\ (/\ sbOut' = sbOut /\ left' = left /\ at' = at + 1
                /\ done' = d2 /\ Logged' = l2) => Going'
      BY <1>0, <3>1, GoingDue
    <3>3. sbOut[at][1] = "stmt" /\ sbOut[at][2] = Arg
      BY <1>0, <3>1, GoingDue
    <3>4. Touched(Arg) = <<>>
      BY <3>1 DEF Touched
    <3>5. d2 = done \o <<>> /\ l2 = Logged
      BY <3>2, <3>3, <3>4 DEF Moves
    <3>6. d2 = done
      BY <1>3, <3>5, Joined
    <3> QED
      BY <1>0, <1>1, <3>1, <3>2, <3>5, <3>6, LoggedKept
  <2> QED
    BY <2>1, <2>2, <2>3, <2>4, <2>5
<1> QED
  BY <1>2, <1>4 DEF LogInv

\* A step that ends a run: at the end and before a side exit nothing is
\* missing, and where a statement faults little is.
LEMMA RunLeaves ==
  ASSUME LInv, RunFault \/ RunExitTaken \/ EndRun
  PROVE  LogInv'
<1>0. IInv /\ TypeOK /\ LogInv /\ pc = "run" /\ Going /\ base <= Len(log)
  <2>1. pc = "run"
    BY DEF RunFault, RunExitTaken, EndRun, Due
  <2> QED
    BY <2>1 DEF LInv, IInv, LogInv
<1>1. sbOut' = sbOut /\ base' = base /\ log' = log /\ pc' = "guest"
  BY DEF RunFault, RunExitTaken, EndRun, Leave, irVars, storeVars
<1>2. Logged' = Logged /\ Even' /\ done \in Accs /\ (at > Len(sbOut) => Logged = done)
  BY <1>0, <1>1, LoggedKept, GoingEven
<1>3. Outcome'
  <2>1. CASE RunFault
    <3>1. Due("stmt") /\ left' = "fault" /\ done' = done \o Touched(Arg)
      BY <2>1 DEF RunFault, Leave
    <3>2. PICK d2, l2 : Moves(sbOut[at], done, Logged, d2, l2)
      BY <1>0, <3>1, GoingDue
    <3>3. sbOut[at][1] = "stmt" /\ sbOut[at][2] = Arg
      BY <1>0, <3>1, GoingDue
    <3>4. Short(Logged, done \o Touched(Arg))
      BY <3>2, <3>3 DEF Moves
    <3>5. Short(Logged', done')
      BY <1>2, <3>1, <3>4
    <3> QED
      BY <3>1, <3>5 DEF Outcome
  <2>2. CASE RunExitTaken
    <3>1. Due("stmt") /\ left' = "exit" /\ done' = done \o <<>> /\ Arg.tag = "Exit"
      BY <2>2 DEF RunExitTaken, Leave
    <3>2. PICK d2, l2 : Moves(sbOut[at], done, Logged, d2, l2)
      BY <1>0, <3>1, GoingDue
    <3>3. sbOut[at][1] = "stmt" /\ sbOut[at][2] = Arg
      BY <1>0, <3>1, GoingDue
    <3>4. Logged = done
      BY <3>1, <3>2, <3>3 DEF Moves
    <3>5. done' = done
      BY <1>2, <3>1, Joined
    <3> QED
      BY <1>2, <3>1, <3>4, <3>5 DEF Outcome
  <2>3. CASE EndRun
    <3>1. at > Len(sbOut) /\ left' = "end" /\ done' = done \o <<>>
      BY <2>3 DEF EndRun, Leave
    <3>2. done' = done
      BY <1>2, <3>1, Joined
    <3> QED
      BY <1>2, <3>1, <3>2 DEF Outcome
  <2> QED
    BY <2>1, <2>2, <2>3
<1>4. base' <= Len(log')
  BY <1>0, <1>1
<1> QED
  BY <1>1, <1>2, <1>3, <1>4 DEF LogInv

\* A run begins with nothing touched and nothing logged.
LEMMA RunBegins ==
  ASSUME LInv, BeginRun
  PROVE  LogInv'
<1>1. /\ TypeOK /\ Even /\ sbOut' = sbOut /\ at' = 1 /\ left' = "none" /\ done' = <<>>
      /\ base' = Len(log) /\ log' = log /\ pc' = "run"
  BY DEF LInv, IInv, LogInv, BeginRun, irVars, storeVars
<1>2. log \in Seq(Record) /\ Len(log) \in Nat /\ sbOut \in Seq(Items) /\ Len(sbOut) \in Nat
  BY <1>1, LenProperties DEF TypeOK, Items
<1>3. PICK dn : Comes(sbOut, dn, dn)
  BY <1>1 DEF Even
<1>4. PICK d, l : Tracks(sbOut, d, l) /\ d[Len(sbOut) + 1] = dn /\ l[Len(sbOut) + 1] = dn
  BY <1>3 DEF Comes
<1>5. Logged' = <<>>
  <2>1. PICK n : n = Len(log)
    OBVIOUS
  <2>2. SubSeq(log, n + 1, n) = <<>>
    BY <1>2, <2>1, SubSeqEmpty
  <2>3. Logged' = Accesses(SubSeq(log', base' + 1, Len(log')))
    BY DEF Logged
  <2>4. Logged' = Accesses(SubSeq(log, n + 1, n))
    BY <1>1, <2>1, <2>3
  <2> QED
    BY <2>2, <2>4, AccessesAppend
<1>6. done' = d[at'] /\ Logged' = l[at']
  BY <1>1, <1>4, <1>5 DEF Tracks
<1>7. at' \in 1..(Len(sbOut') + 1)
  BY <1>1, <1>2
<1>8. Tracks(sbOut', d, l) /\ d[Len(sbOut') + 1] = l[Len(sbOut') + 1]
  BY <1>1, <1>4
<1>9. Going'
  BY <1>1, <1>6, <1>7, <1>8 DEF Going
<1>10. Outcome' /\ base' <= Len(log')
  BY <1>1, <1>2 DEF Outcome
<1> QED
  BY <1>1, <1>9, <1>10 DEF LogInv

\* md_instrument keeps the outstanding events all that is missing, and what it
\* ends with logs what it touches.
LEMMA TranslateLogs ==
  ASSUME LInv, Translate
  PROVE  LogInv'
<1>0. TypeOK /\ LogInv
  BY DEF LInv, IInv
<1>1. /\ UNCHANGED <<log, base, done, left>>
      /\ pc \in {"guest", "first", "instrument"} /\ pc' \in {"guest", "first", "instrument"}
  BY DEF Translate, BeginBlock, EndBlock, Instrument, InstrumentOther, InstrumentAlu,
     InstrumentIMark, InstrumentLoad, InstrumentStore, InstrumentDirty, InstrumentCAS,
     InstrumentLL, InstrumentSC, InstrumentExit, Turn, storeVars, guestVars
<1>2. Outcome' /\ base' <= Len(log')
  BY <1>0, <1>1, LoggedKept DEF Outcome, LogInv
<1>3. Work' = NextWork
  BY DEF Work, NextWork
<1>4. ASSUME NEW e \in Accs, Pending(NextWork, e, <<>>)
      PROVE  Open'
  BY <1>3, <1>4 DEF Open
<1>5. ASSUME NEW preamble \in Preambles, BeginBlock(preamble)
      PROVE  LogInv'
  <2>1. Pending(NextWork, <<>>, <<>>) /\ <<>> \in Accs /\ pc' = "first"
    BY <1>0, <1>5, BeginLogs, Joined DEF BeginBlock
  <2>2. Open'
    BY <1>4, <2>1
  <2> QED
    BY <1>2, <2>1, <2>2 DEF LogInv
<1>6. ASSUME NEW st \in IRStmts, Instrument(st)
      PROVE  LogInv'
  <2>1. pc \in {"first", "instrument"} /\ pc' = "instrument"
    BY <1>6 DEF Instrument, InstrumentOther, InstrumentAlu, InstrumentIMark, InstrumentLoad,
       InstrumentStore, InstrumentDirty, InstrumentCAS, InstrumentLL, InstrumentSC,
       InstrumentExit, Turn
  <2>2. PICK dn \in Accs : Pending(Work, dn, <<>>)
    BY <1>0, <2>1 DEF LogInv, Open
  <2>3. PICK e \in Accs : Pending(NextWork, e, <<>>)
    BY <1>0, <1>6, <2>2, PlainLogs, ExitLogs
  <2>4. Open'
    BY <1>4, <2>3
  <2> QED
    BY <1>2, <2>1, <2>4 DEF LogInv
<1>7. CASE EndBlock
  <2>1. pc = "instrument" /\ pc' = "guest"
    BY <1>7 DEF EndBlock
  <2>2. PICK dn \in Accs : Pending(Work, dn, <<>>)
    BY <1>0, <2>1 DEF LogInv, Open
  <2>3. Comes(sbOut', dn, dn)
    BY <1>0, <1>7, <2>2, EndBlockLogs
  <2>4. Even'
    BY <2>3 DEF Even
  <2> QED
    BY <1>2, <2>1, <2>4 DEF LogInv
<1> QED
  BY <1>5, <1>6, <1>7 DEF Translate

\* Every step keeps the invariant.
LEMMA LogStep == LInv /\ [Next]_vars => LogInv'
<1> SUFFICES ASSUME LInv, [Next]_vars
             PROVE  LogInv'
  OBVIOUS
<1>0. IInv /\ TypeOK /\ LogInv
  BY DEF LInv, IInv
<1>1. ASSUME UNCHANGED <<log, base, done, left>>
      PROVE  Outcome' /\ base' <= Len(log')
  BY <1>0, <1>1, LoggedKept DEF Outcome, LogInv
<1>2. CASE CommandLine \/ Fini \/ Close
  <2>1. /\ UNCHANGED <<log, base, done, left, sbOut>>
        /\ pc' \in {"options", "guest", "aborted", "paranoid", "fini", "ended"}
        /\ pc' \in {"options", "guest"} => pc = "options"
    BY <1>2 DEF CommandLine, OptionName, OptionBasicCounts, PostCloInit, Fini, Close, irVars,
       storeVars, guestVars
  <2>2. pc = "options" => Even'
    BY <1>0, <2>1 DEF LogInv, Even
  <2> QED
    BY <1>1, <2>1, <2>2 DEF LogInv
<1>3. CASE Translate
  BY <1>3, TranslateLogs
<1>4. CASE Run
  <2>1. ASSUME NEW sized \in SizeWrites, NEW written \in BOOLEAN, EmptyBuffer(sized, written)
        PROVE  LogInv'
    <3>1. /\ UNCHANGED <<log, base, done, left, sbOut, at>>
          /\ pc' \in {"run", "aborted", "close"} /\ (pc' = "run" => pc = "flush")
      BY <2>1 DEF EmptyBuffer, irVars, guestVars
    <3>2. pc = "flush" => Going'
      <4>1. Logged' = Logged
        BY <3>1, LoggedKept
      <4> QED
        BY <1>0, <3>1, <4>1 DEF LogInv, Going
    <3> QED
      BY <1>1, <3>1, <3>2 DEF LogInv
  <2> QED
    BY <1>4, <2>1, RunBegins, RunGoes, RunLeaves DEF Run
<1>5. CASE Kill
  <2>1. UNCHANGED <<log, base, done, left>> /\ pc' = "killed"
    BY <1>5 DEF Kill, guestVars
  <2> QED
    BY <1>1, <2>1 DEF LogInv
<1>6. CASE Over \/ UNCHANGED vars
  <2>1. UNCHANGED <<pc, log, base, done, left, sbOut, at, events>>
    BY <1>6 DEF Over, vars
  <2>2. Logged' = Logged /\ Work' = Work
    BY <2>1, LoggedKept DEF Work
  <2>3. (Even => Even') /\ (Open => Open') /\ (Going => Going')
    BY <2>1, <2>2 DEF Even, Open, Going
  <2> QED
    BY <1>0, <1>1, <2>1, <2>3 DEF LogInv
<1> QED
  BY <1>2, <1>3, <1>4, <1>5, <1>6 DEF Next

\* Nothing is touched and nothing logged at the start.
LEMMA LogInit == Init => LInv
<1> SUFFICES ASSUME Init
             PROVE  LInv
  OBVIOUS
<1>1. /\ pc = "options" /\ sbOut = <<>> /\ left = "none" /\ base = 0 /\ Len(log) = 0
  BY DEF Init
<1>2. Even
  BY <1>1, ComesEmpty, Joined DEF Even
<1>3. LogInv
  BY <1>1, <1>2 DEF LogInv, Outcome
<1> QED
  BY <1>3, InitIInv DEF LInv

\* The invariant holds of every tool that can be reached.
THEOREM LogInvariance == Spec => []LInv
<1>1. LInv /\ [Next]_vars => LInv'
  BY LogStep, TypeStep, StoredStep, StartedStep DEF LInv, IInv
<1> QED
  BY LogInit, <1>1, PTL DEF Spec

\* Joined behind something, the first is a beginning of the whole.
LEMMA PrefixOfJoined ==
  ASSUME NEW a \in Accs, NEW r \in Seq(Record)
  PROVE  IsPrefix(a, a \o r) /\ Len(a \o r) = Len(a) + Len(r) /\ Len(a) \in Nat
<1>1. a \in Seq(Record) /\ Len(a) \in Nat /\ Len(r) \in Nat
  BY LenProperties DEF Accs
<1>2. PICK b : b = a \o r
  OBVIOUS
<1>3. /\ b \in Seq(Record) /\ Len(b) = Len(a) + Len(r)
      /\ \A i \in 1..Len(a) : b[i] = a[i]
  <2>1. /\ b \in Seq(Record) /\ Len(b) = Len(a) + Len(r)
        /\ \A i \in 1..(Len(a) + Len(r)) :
             b[i] = IF i <= Len(a) THEN a[i] ELSE r[i - Len(a)]
    BY <1>1, <1>2, ConcatProperties
  <2>2. \A i \in 1..Len(a) : i \in 1..(Len(a) + Len(r)) /\ i <= Len(a)
    BY <1>1
  <2> QED
    BY <2>1, <2>2
<1>4. PICK u, v : u = SubSeq(a, 1, Len(a)) /\ v = SubSeq(b, 1, Len(a))
  OBVIOUS
<1>5. \A i \in 1..Len(a) : a[i] \in Record /\ b[i] \in Record
  BY <1>1, <1>3, ElementOfSeq
<1>6. /\ u \in Seq(Record) /\ Len(u) = Len(a) /\ \A i \in 1..Len(a) : u[i] = a[i]
      /\ v \in Seq(Record) /\ Len(v) = Len(a) /\ \A i \in 1..Len(a) : v[i] = b[i]
  <2>1. 1 \in Int /\ Len(a) \in Int
    BY <1>1
  <2>2. /\ u \in Seq(Record)
        /\ Len(u) = (IF 1 <= Len(a) THEN Len(a) - 1 + 1 ELSE 0)
        /\ \A i \in 1..(Len(a) - 1 + 1) : u[i] = a[1 + i - 1]
    BY <1>4, <1>5, <2>1, SubSeqProperties
  <2>3. /\ v \in Seq(Record)
        /\ Len(v) = (IF 1 <= Len(a) THEN Len(a) - 1 + 1 ELSE 0)
        /\ \A i \in 1..(Len(a) - 1 + 1) : v[i] = b[1 + i - 1]
    BY <1>4, <1>5, <2>1, SubSeqProperties
  <2>4. Len(a) - 1 + 1 = Len(a) /\ \A i \in Nat : 1 + i - 1 = i
    BY <1>1
  <2>5. Len(u) = Len(a) /\ Len(v) = Len(a)
    BY <1>1, <2>2, <2>3
  <2> QED
    BY <1>1, <2>2, <2>3, <2>4, <2>5
<1>7. u = v
  <2>1. \A i \in 1..Len(u) : u[i] = v[i]
    BY <1>3, <1>6
  <2> QED
    BY <1>6, <2>1, SeqEqual
<1>8. Len(a) <= Len(b)
  BY <1>1, <1>3
<1> QED
  BY <1>1, <1>2, <1>3, <1>4, <1>7, <1>8 DEF IsPrefix

\* When the guest leaves a translation by its end or a side exit, the records
\* of that run are its accesses in program order; a fault loses only what was
\* pending, at most two accesses for each event there is room for.
THEOREM LogOfRunHolds == Spec => []LogOfRun
<1>1. LInv => LogOfRun
  <2> SUFFICES ASSUME LInv
               PROVE  LogOfRun
    OBVIOUS
  <2>1. TypeOK /\ Outcome /\ base <= Len(log)
    BY DEF LInv, IInv, LogInv
  <2>2. Logged \in Accs
    BY <2>1, LoggedSince
  <2>3. ASSUME left = "fault"
        PROVE  IsPrefix(Logged, done) /\ Len(done) - Len(Logged) <= 2 * NEvents
    <3>1. PICK r \in Seq(Record) : done = Logged \o r /\ Len(r) <= 2 * NEvents
      BY <2>1, <2>3 DEF Outcome, Short
    <3>2. /\ IsPrefix(Logged, done) /\ Len(done) = Len(Logged) + Len(r)
          /\ Len(Logged) \in Nat /\ Len(r) \in Nat
      BY <2>2, <3>1, PrefixOfJoined, LenProperties
    <3>3. Len(done) - Len(Logged) = Len(r)
      BY <3>2
    <3> QED
      BY <3>1, <3>2, <3>3
  <2> QED
    BY <2>1, <2>3 DEF LogOfRun, Outcome
<1> QED
  BY <1>1, LogInvariance, PTL
=============================================================================
