------------------------ MODULE MemadumpCountProofs ------------------------
(***************************************************************************)
(* Proofs about the figures the Valgrind tool prints, for every set of     *)
(* statements, every program and every way a translation is left.          *)
(* Counting and doing are apart: a helper counts before the statement it   *)
(* counts for.  How far the one is ahead of the other at each place of a   *)
(* translation is written down here as a function of the place, which      *)
(* exists for whatever md_instrument emits.                                *)
(***************************************************************************)
EXTENDS MemadumpProofs

-----------------------------------------------------------------------------
\* The guest instruction a statement belongs to: that of the last IMark.
Marks == Instrs \cup {0}
Follow(it, x) == IF it[1] = "stmt" /\ it[2].tag = "IMark" THEN it[2].addr ELSE x

\* What a statement of instruction x adds to the truth (Adds), and an exit
\* (Branch), and to the operations of a type (TriedOps).
StmtAdds(t, fn, st, x) ==
  CASE t = "stmts" -> IF x # 0 \/ st.tag = "IMark" THEN 1 ELSE 0
    [] t = "instrs" -> IF st.tag = "IMark" THEN 1 ELSE 0
    [] t = "calls" -> IF st.tag = "IMark" /\ EntryOf[st.addr] = fn THEN 1 ELSE 0
    [] OTHER -> 0
ExitAdds(t, st, x, taken) ==
  LET one == \/ t \in {"branches", "stmts"}
             \/ t = "taken" /\ taken # (st.addr = x + 1)
             \/ t = "abandoned" /\ taken
  IN IF x # 0 /\ one THEN 1 ELSE 0
OpsOf(d, st) == IF d[2] = st.type THEN Operations(d[1], st) ELSE 0

\* What a counter stands for in the figure that is printed for t.
Net(t, c) ==
  CASE t = "branches" -> IF c \in {"Jccs", "IJccs"} THEN 1 ELSE 0
    [] t = "taken" -> IF c \in {"Jccs", "IJccs_untaken"} THEN 1
                      ELSE IF c = "Jccs_untaken" THEN -1 ELSE 0
    [] t = "abandoned" -> IF c = "SBs_entered" THEN 1
                          ELSE IF c = "SBs_completed" THEN -1 ELSE 0
    [] t = "instrs" -> IF c = "guest_instrs" THEN 1 ELSE 0
    [] t = "calls" -> IF c = "func_calls" THEN 1 ELSE 0
    [] t = "stmts" -> IF c = "IRStmts" THEN 1 ELSE 0
Figure(t) ==
  CASE t = "branches" -> total_Jccs
    [] t = "taken" -> taken_Jccs
    [] t = "abandoned" -> count["SBs_entered"] - count["SBs_completed"]
    [] t = "instrs" -> count["guest_instrs"]
    [] t = "calls" -> count["func_calls"]
    [] t = "stmts" -> count["IRStmts"]

\* The figures and the counts by type, and how far each is ahead.
Measures == {"truth"} \X Truths \cup {"ops"} \X Details
Gap(m) == IF m[1] = "truth" THEN Figure(m[2]) - truth[m[2]]
                            ELSE detailCounts[m[2]] - ops[m[2]]

\* What an item that runs adds to that: it counts, or it is a statement that
\* does what is counted, a side exit not being taken.
Does(m, fn, st, x) ==
  IF m[1] = "ops" THEN OpsOf(m[2], st)
  ELSE IF st.tag = "Exit" THEN ExitAdds(m[2], st, x, FALSE)
  ELSE StmtAdds(m[2], fn, st, x)
Counts(m, it) ==
  IF m[1] = "truth" THEN IF it[1] = "count" THEN Net(m[2], it[2]) ELSE 0
                    ELSE IF it[1] = "detail" /\ it[2] = m[2] THEN 1 ELSE 0
Weight(m, fn, it, x) == IF it[1] = "stmt" THEN 0 - Does(m, fn, it[2], x) ELSE Counts(m, it)

\* How far a statement has to be ahead so that nothing is, when the
\* translation is left there: an abandoned superblock was entered.
Ahead(m, fn, st, x) ==
  IF m[1] = "ops" THEN OpsOf(m[2], st)
  ELSE IF st.tag = "Exit" THEN ExitAdds(m[2], st, x, TRUE)
  ELSE IF m[2] = "abandoned" THEN 1
  ELSE StmtAdds(m[2], fn, st, x)
Good(m, fn, it, x, n) ==
  it[1] = "stmt" /\ (m[1] = "ops" \/ it[2].tag \in DataTags \cup {"Exit", "IMark"}) =>
    n = Ahead(m, fn, it[2], x)

\* h gives the instruction and f the lead at every place of a translation.
Trail(m, fn, out, h, f) ==
  /\ h[1] = 0 /\ f[1] = 0
  /\ \A i \in 1..Len(out) : /\ h[i + 1] = Follow(out[i], h[i])
                            /\ f[i + 1] = f[i] + Weight(m, fn, out[i], h[i])
                            /\ Good(m, fn, out[i], h[i], f[i])
Ends(m, fn, out, x, n) ==
  \E h \in [1..(Len(out) + 1) -> Marks], f \in [1..(Len(out) + 1) -> Int] :
    Trail(m, fn, out, h, f) /\ h[Len(out) + 1] = x /\ f[Len(out) + 1] = n

\* From the first IMark to the end of a translation, the superblock is entered
\* and not completed.
Lead(m) == IF m = <<"truth", "abandoned">> THEN 1 ELSE 0

-----------------------------------------------------------------------------
\* The parts of an item.
LEMMA ItemParts ==
  ASSUME NEW it \in Items
  PROVE  /\ it[1] \in {"stmt", "count", "detail", "trace"} /\ it = <<it[1], it[2]>>
         /\ it[1] = "stmt" => it[2] \in Stmts
         /\ it[1] = "count" => it[2] \in Counters
         /\ it[1] = "detail" => it[2] \in Details
         /\ it[1] = "trace" => it[2] \in Record
<1> HIDE DEF Record, Stmts, Counters, Details
<1> QED
  BY DEF Items

\* A measure is about the truth or about the operations.
LEMMA MeasureParts ==
  ASSUME NEW m \in Measures
  PROVE  /\ m[1] \in {"truth", "ops"} /\ m = <<m[1], m[2]>>
         /\ m[1] = "truth" => m[2] \in Truths
         /\ m[1] = "ops" => m[2] \in Details
         /\ Lead(m) \in {0, 1}
<1> HIDE DEF Truths, Details
<1> QED
  BY DEF Measures, Lead

\* What a statement does is a number.
LEMMA DoesType ==
  ASSUME NEW m \in Measures, NEW fn, NEW st, NEW x
  PROVE  Does(m, fn, st, x) \in Nat
<1>1. StmtAdds(m[2], fn, st, x) \in Nat /\ ExitAdds(m[2], st, x, FALSE) \in Nat
  BY DEF StmtAdds, ExitAdds
<1>2. Operations(m[2][1], st) \in Nat
  BY DEF Operations
<1>3. OpsOf(m[2], st) \in Nat
  BY <1>2 DEF OpsOf
<1> QED
  BY <1>1, <1>3 DEF Does

\* Weights are numbers, and an IMark is followed by its instruction.
LEMMA WeightType ==
  ASSUME NEW m \in Measures, NEW fn, NEW it \in Items, NEW x \in Marks
  PROVE  /\ Weight(m, fn, it, x) \in Int /\ Follow(it, x) \in Marks
         /\ it[1] = "trace" => Weight(m, fn, it, x) = 0
         /\ it[1] # "stmt" => Follow(it, x) = x /\ \A n : Good(m, fn, it, x, n)
<1>1. Follow(it, x) \in Marks
  BY ItemParts, StmtParts DEF Follow, Marks
<1>2. m[1] \in {"truth", "ops"} /\ (m[1] = "truth" => m[2] \in Truths)
  BY MeasureParts
<1>3. Does(m, fn, it[2], x) \in Int
  BY DoesType
<1>4. m[1] = "truth" => Net(m[2], it[2]) \in Int
  BY <1>2 DEF Net, Truths
<1>5. Counts(m, it) \in Int /\ (it[1] = "trace" => Counts(m, it) = 0)
  BY <1>4 DEF Counts
<1>6. Weight(m, fn, it, x) \in Int /\ (it[1] = "trace" => Weight(m, fn, it, x) = 0)
  BY <1>3, <1>5 DEF Weight
<1> QED
  BY <1>1, <1>6 DEF Follow, Good

\* A translation with an item more.
LEMMA EndsAppend ==
  ASSUME NEW m \in Measures, NEW fn, NEW out \in Seq(Items), NEW it \in Items,
         NEW x \in Marks, NEW n \in Int, Ends(m, fn, out, x, n), Good(m, fn, it, x, n)
  PROVE  Ends(m, fn, Append(out, it), Follow(it, x), n + Weight(m, fn, it, x))
<1>1. /\ Len(out) \in Nat /\ Append(out, it) \in Seq(Items)
      /\ Len(Append(out, it)) = Len(out) + 1 /\ Append(out, it)[Len(out) + 1] = it
      /\ \A i \in 1..Len(out) : Append(out, it)[i] = out[i]
  BY AppendProperties, LenProperties
<1>2. PICK h \in [1..(Len(out) + 1) -> Marks], f \in [1..(Len(out) + 1) -> Int] :
        Trail(m, fn, out, h, f) /\ h[Len(out) + 1] = x /\ f[Len(out) + 1] = n
  BY DEF Ends
<1>3. Follow(it, x) \in Marks /\ Weight(m, fn, it, x) \in Int
  BY WeightType
<1>4. PICK k : k = [i \in 1..(Len(out) + 2) |-> IF i = Len(out) + 2 THEN Follow(it, x) ELSE h[i]]
  OBVIOUS
<1>5. PICK g : g = [i \in 1..(Len(out) + 2) |->
                      IF i = Len(out) + 2 THEN n + Weight(m, fn, it, x) ELSE f[i]]
  OBVIOUS
<1>6. /\ k \in [1..(Len(Append(out, it)) + 1) -> Marks]
      /\ k[Len(out) + 2] = Follow(it, x)
      /\ \A i \in 1..(Len(out) + 1) : k[i] = h[i]
  BY <1>1, <1>2, <1>3, <1>4
<1>7. /\ g \in [1..(Len(Append(out, it)) + 1) -> Int]
      /\ g[Len(out) + 2] = n + Weight(m, fn, it, x)
      /\ \A i \in 1..(Len(out) + 1) : g[i] = f[i]
  BY <1>1, <1>2, <1>3, <1>5
<1>8. ASSUME NEW i \in 1..(Len(out) + 1)
      PROVE  /\ k[i + 1] = Follow(Append(out, it)[i], k[i])
             /\ g[i + 1] = g[i] + Weight(m, fn, Append(out, it)[i], k[i])
             /\ Good(m, fn, Append(out, it)[i], k[i], g[i])
  <2>1. CASE i = Len(out) + 1
    BY <1>1, <1>2, <1>6, <1>7, <2>1
  <2>2. CASE i \in 1..Len(out)
    <3>1. i + 1 \in 1..(Len(out) + 1)
      BY <1>1, <2>2
    <3> QED
      BY <1>1, <1>2, <1>6, <1>7, <2>2, <3>1 DEF Trail
  <2> QED
    BY <1>1, <2>1, <2>2
<1>9. k[1] = 0 /\ g[1] = 0
  BY <1>1, <1>2, <1>6, <1>7 DEF Trail
<1>10. Trail(m, fn, Append(out, it), k, g)
  <2>1. 1..Len(Append(out, it)) = 1..(Len(out) + 1)
    BY <1>1
  <2> QED
    BY <1>8, <1>9, <2>1 DEF Trail
<1>11. /\ k[Len(Append(out, it)) + 1] = Follow(it, x)
       /\ g[Len(Append(out, it)) + 1] = n + Weight(m, fn, it, x)
  BY <1>1, <1>6, <1>7
<1>12. /\ k \in [1..(Len(Append(out, it)) + 1) -> Marks]
       /\ g \in [1..(Len(Append(out, it)) + 1) -> Int]
  BY <1>6, <1>7
<1> QED
  BY <1>10, <1>11, <1>12 DEF Ends

\* A translation with calls to trace helpers behind it.
LEMMA EndsTraces ==
  ASSUME NEW m \in Measures, NEW fn, NEW out \in Seq(Items), NEW calls \in Seq(Items),
         \A i \in 1..Len(calls) : calls[i][1] = "trace",
         NEW x \in Marks, NEW n \in Int, Ends(m, fn, out, x, n)
  PROVE  Ends(m, fn, out \o calls, x, n)
<1>1. /\ Len(out) \in Nat /\ Len(calls) \in Nat /\ out \o calls \in Seq(Items)
      /\ Len(out \o calls) = Len(out) + Len(calls)
      /\ \A i \in 1..Len(out) : (out \o calls)[i] = out[i]
  BY ConcatProperties, LenProperties
<1>2. \A i \in (Len(out) + 1)..(Len(out) + Len(calls)) :
        (out \o calls)[i] \in Items /\ (out \o calls)[i][1] = "trace"
  <2> SUFFICES ASSUME NEW i \in (Len(out) + 1)..(Len(out) + Len(calls))
               PROVE  (out \o calls)[i] \in Items /\ (out \o calls)[i][1] = "trace"
    OBVIOUS
  <2>1. i - Len(out) \in 1..Len(calls)
    BY <1>1
  <2>2. (out \o calls)[i] = calls[i - Len(out)]
    BY <1>1, ConcatProperties
  <2> QED
    BY <2>1, <2>2, ElementOfSeq
<1>3. PICK h \in [1..(Len(out) + 1) -> Marks], f \in [1..(Len(out) + 1) -> Int] :
        Trail(m, fn, out, h, f) /\ h[Len(out) + 1] = x /\ f[Len(out) + 1] = n
  BY DEF Ends
<1> DEFINE N == Len(out) + Len(calls)
<1>4. PICK k : k = [i \in 1..(N + 1) |-> IF i > Len(out) THEN x ELSE h[i]]
  OBVIOUS
<1>5. PICK g : g = [i \in 1..(N + 1) |-> IF i > Len(out) THEN n ELSE f[i]]
  OBVIOUS
<1>6. /\ k \in [1..(N + 1) -> Marks] /\ g \in [1..(N + 1) -> Int]
      /\ \A i \in 1..(Len(out) + 1) : k[i] = h[i] /\ g[i] = f[i]
      /\ \A i \in (Len(out) + 1)..(N + 1) : k[i] = x /\ g[i] = n
  BY <1>1, <1>3, <1>4, <1>5
<1>7. ASSUME NEW i \in 1..N
      PROVE  /\ k[i + 1] = Follow((out \o calls)[i], k[i])
             /\ g[i + 1] = g[i] + Weight(m, fn, (out \o calls)[i], k[i])
             /\ Good(m, fn, (out \o calls)[i], k[i], g[i])
  <2>1. CASE i \in 1..Len(out)
    <3>1. i + 1 \in 1..(Len(out) + 1) /\ i \in 1..(Len(out) + 1)
      BY <1>1, <2>1
    <3> QED
      BY <1>1, <1>3, <1>6, <2>1, <3>1 DEF Trail
  <2>2. CASE i \in (Len(out) + 1)..N
    <3>0. i \in (Len(out) + 1)..(N + 1) /\ i + 1 \in (Len(out) + 1)..(N + 1)
      BY <1>1, <2>2
    <3>1. k[i] = x /\ g[i] = n /\ k[i + 1] = x /\ g[i + 1] = n
      BY <1>6, <3>0
    <3>2. (out \o calls)[i] \in Items /\ (out \o calls)[i][1] = "trace"
      BY <1>2, <2>2
    <3>3. /\ Weight(m, fn, (out \o calls)[i], x) = 0
          /\ Follow((out \o calls)[i], x) = x /\ Good(m, fn, (out \o calls)[i], x, n)
      BY <3>2, WeightType
    <3> QED
      BY <3>1, <3>3
  <2> QED
    BY <1>1, <2>1, <2>2
<1>8. k[1] = 0 /\ g[1] = 0
  BY <1>1, <1>3, <1>6 DEF Trail
<1>9. Trail(m, fn, out \o calls, k, g)
  <2>1. 1..Len(out \o calls) = 1..N
    BY <1>1
  <2> QED
    BY <1>7, <1>8, <2>1 DEF Trail
<1>10. /\ k \in [1..(Len(out \o calls) + 1) -> Marks] /\ g \in [1..(Len(out \o calls) + 1) -> Int]
       /\ k[Len(out \o calls) + 1] = x /\ g[Len(out \o calls) + 1] = n
  BY <1>1, <1>6
<1> QED
  BY <1>9, <1>10 DEF Ends

\* flushEvents moves nobody ahead.
LEMMA EndsFlush ==
  ASSUME NEW m \in Measures, NEW fn, NEW w \in Works,
         NEW x \in Marks, NEW n \in Int, Ends(m, fn, w.out, x, n)
  PROVE  Ends(m, fn, flushEvents(w).out, x, n)
<1> DEFINE calls == [i \in 1..Len(w.events) |-> Item("trace", w.events[i])]
<1>1. w.events \in Seq(Record) /\ Len(w.events) \in Nat /\ w.out \in Seq(Items)
  BY DEF Works
<1>2. \A i \in 1..Len(w.events) : Item("trace", w.events[i]) \in Items
  BY <1>1 DEF Item, Items
<1>3. calls \in Seq(Items) /\ Len(calls) = Len(w.events)
  BY <1>1, <1>2
<1>4. \A i \in 1..Len(calls) : calls[i][1] = "trace"
  BY <1>1, <1>3 DEF Item
<1> HIDE DEF calls
<1>5. flushEvents(w).out = w.out \o calls
  BY DEF flushEvents, calls
<1> QED
  BY <1>1, <1>3, <1>4, <1>5, EndsTraces

\* Nor does an event that is added, merged or not.
LEMMA EndsEvent ==
  ASSUME NEW m \in Measures, NEW fn, NEW w \in Works,
         NEW x \in Marks, NEW n \in Int, Ends(m, fn, w.out, x, n)
  PROVE  /\ \A e : Ends(m, fn, AddEvent(w, e).out, x, n)
         /\ \A a, s : /\ Ends(m, fn, addEvent_Ir(w, a, s).out, x, n)
                      /\ Ends(m, fn, addEvent_Dr(w, a, s).out, x, n)
                      /\ Ends(m, fn, addEvent_Dw(w, a, s).out, x, n)
<1>1. ASSUME NEW e
      PROVE  Ends(m, fn, AddEvent(w, e).out, x, n)
  <2> DEFINE room == IF Len(w.events) = NEvents THEN flushEvents(w) ELSE w
  <2>1. room \in Works /\ Ends(m, fn, room.out, x, n)
    BY FlushWork, EndsFlush
  <2> HIDE DEF room
  <2>2. [room EXCEPT !.events = Append(@, e)].out = room.out
    BY <2>1 DEF Works
  <2>3. AddEvent(w, e) = [room EXCEPT !.events = Append(@, e)]
    BY DEF AddEvent, room
  <2> QED
    BY <2>1, <2>2, <2>3
<1>2. ASSUME NEW a, NEW s
      PROVE  Ends(m, fn, addEvent_Dw(w, a, s).out, x, n)
  <2>1. [w EXCEPT !.events[Len(w.events)].kind = "Dm"].out = w.out
    BY DEF Works
  <2> QED
    BY <1>1, <2>1 DEF addEvent_Dw
<1> QED
  BY <1>1, <1>2 DEF addEvent_Ir, addEvent_Dr

\* A count that is emitted moves the translation ahead by its weight.
LEMMA EndsEmit ==
  ASSUME NEW m \in Measures, NEW fn, NEW w \in Works, NEW kind \in {"count", "detail"}, NEW arg,
         <<kind, arg>> \in Items,
         NEW x \in Marks, NEW n \in Int, Ends(m, fn, w.out, x, n)
  PROVE  /\ Emit(w, kind, arg) \in Works
         /\ Counts(m, <<kind, arg>>) \in Int
         /\ Ends(m, fn, Emit(w, kind, arg).out, x, n + Counts(m, <<kind, arg>>))
<1> DEFINE it == <<kind, arg>>
<1>1. it[1] = kind /\ it \in Items /\ w.out \in Seq(Items)
  BY DEF Works
<1>2. /\ Weight(m, fn, it, x) \in Int /\ Follow(it, x) = x /\ Good(m, fn, it, x, n)
      /\ Weight(m, fn, it, x) = Counts(m, it)
  BY <1>1, WeightType DEF Weight
<1> HIDE DEF it
<1>3. Ends(m, fn, Append(w.out, it), Follow(it, x), n + Weight(m, fn, it, x))
  BY <1>1, <1>2, EndsAppend
<1>4. Emit(w, kind, arg).out = Append(w.out, it)
  BY DEF Emit, Item, Works, it
<1> QED
  BY <1>2, <1>3, <1>4, EmitWork DEF it

\* A statement that is copied, with the lead it needs.
LEMMA EndsTurn ==
  ASSUME NEW m \in Measures, NEW fn, NEW out \in Seq(Items), NEW st \in Stmts,
         NEW x \in Marks, NEW n \in Int, Ends(m, fn, out, x, n),
         Good(m, fn, <<"stmt", st>>, x, n)
  PROVE  /\ Append(out, <<"stmt", st>>) \in Seq(Items) /\ Does(m, fn, st, x) \in Int
         /\ Ends(m, fn, Append(out, <<"stmt", st>>), Follow(<<"stmt", st>>, x),
                 n - Does(m, fn, st, x))
<1> DEFINE it == <<"stmt", st>>
<1>1. it \in Items /\ it[1] = "stmt" /\ it[2] = st
  BY DEF Items
<1>2. Weight(m, fn, it, x) = 0 - Does(m, fn, st, x) /\ Does(m, fn, st, x) \in Int
  BY <1>1, DoesType DEF Weight
<1> HIDE DEF it
<1>3. Ends(m, fn, Append(out, it), Follow(it, x), n + Weight(m, fn, it, x))
  BY <1>1, EndsAppend DEF it
<1>4. n + Weight(m, fn, it, x) = n - Does(m, fn, st, x)
  BY <1>2
<1> QED
  BY <1>1, <1>2, <1>3, <1>4, AppendProperties DEF it

\* A counter that is only kept when the figures are.
LEMMA EndsEmitIf ==
  ASSUME NEW m \in Measures, NEW fn, NEW w \in Works, NEW c \in BOOLEAN,
         m[1] = "truth" => c, NEW counter \in Counters,
         NEW x \in Marks, NEW n \in Int, Ends(m, fn, w.out, x, n)
  PROVE  /\ EmitIf(c, w, "count", counter) \in Works
         /\ Counts(m, <<"count", counter>>) \in Int
         /\ Ends(m, fn, EmitIf(c, w, "count", counter).out, x,
                 n + Counts(m, <<"count", counter>>))
<1>1. <<"count", counter>> \in Items
  BY DEF Items
<1>2. CASE c
  BY <1>1, <1>2, EndsEmit DEF EmitIf
<1>3. CASE ~c
  <2>1. Counts(m, <<"count", counter>>) = 0
    BY <1>3, MeasureParts DEF Counts
  <2> QED
    BY <1>3, <2>1 DEF EmitIf
<1> QED
  BY <1>2, <1>3

\* instrument_detail.
LEMMA EndsDetail ==
  ASSUME NEW m \in Measures, NEW fn, NEW w \in Works,
         NEW op \in {"OpLoad", "OpStore", "OpAlu"}, NEW t \in Types,
         NEW x \in Marks, NEW n \in Int, Ends(m, fn, w.out, x, n)
  PROVE  /\ instrument_detail(w, op, t) \in Works
         /\ Counts(m, <<"detail", <<op, t>>>>) \in Int
         /\ Ends(m, fn, instrument_detail(w, op, t).out, x,
                 n + Counts(m, <<"detail", <<op, t>>>>))
<1>1. <<"detail", <<op, t>>>> \in Items
  BY DEF Items, Details
<1> QED
  BY <1>1, EndsEmit DEF instrument_detail

-----------------------------------------------------------------------------
\* The figures are only claimed when they are kept.
Kept(m) == m[1] = "truth" => clo_basic_counts

\* How far ahead the code must be in front of a statement that is neither an
\* exit nor an IMark.
Needed(m, st) == Lead(m) + (IF m[1] = "truth" THEN Net(m[2], "IRStmts") ELSE OpsOf(m[2], st))

\* What Counted emits.
LEMMA EndsCounted ==
  ASSUME TypeOK, NEW m \in Measures, Kept(m), NEW x \in Marks, NEW n \in Int,
         Ends(m, clo_fnname, sbOut, x, n)
  PROVE  /\ Counted \in Works
         /\ Counts(m, <<"count", "IRStmts">>) \in Int
         /\ Ends(m, clo_fnname, Counted.out, x, n + Counts(m, <<"count", "IRStmts">>))
<1>1. Work \in Works /\ Work.out = sbOut /\ clo_basic_counts \in BOOLEAN /\ "IRStmts" \in Counters
  BY WorkType DEF Work, TypeOK, Counters
<1> QED
  BY <1>1, EndsEmitIf DEF Counted, Kept

\* A statement that is neither an exit nor an IMark, behind the code that
\* counts it.
LEMMA PlainTurn ==
  ASSUME TypeOK, NEW m \in Measures, NEW st \in Stmts, st.tag \notin {"Exit", "IMark"},
         NEW x \in Marks, m[1] = "truth" => x # 0, NEW w \in Works,
         Ends(m, clo_fnname, w.out, x, Needed(m, st))
  PROVE  Ends(m, clo_fnname, Append(w.out, Item("stmt", st)) \o <<>>, x, Lead(m))
<1>1. /\ m[1] \in {"truth", "ops"} /\ (m[1] = "truth" => m[2] \in Truths) /\ Lead(m) \in Int
      /\ (m[1] = "ops" => Lead(m) = 0) /\ w.out \in Seq(Items)
  BY MeasureParts DEF Lead, Works
<1>2. Does(m, clo_fnname, st, x) \in Nat
  BY DoesType
<1>3. Needed(m, st) - Does(m, clo_fnname, st, x) = Lead(m) /\ Needed(m, st) \in Int
  <2>1. CASE m[1] = "truth"
    <3>1. StmtAdds(m[2], clo_fnname, st, x) = Net(m[2], "IRStmts")
      BY <1>1, <2>1 DEF StmtAdds, Net, Truths
    <3>2. Net(m[2], "IRStmts") \in Int
      BY <1>1, <2>1 DEF Net, Truths
    <3>3. Needed(m, st) = Lead(m) + Net(m[2], "IRStmts")
      BY <2>1 DEF Needed
    <3>4. Does(m, clo_fnname, st, x) = StmtAdds(m[2], clo_fnname, st, x)
      BY <2>1 DEF Does
    <3> QED
      BY <1>1, <3>1, <3>2, <3>3, <3>4
  <2>2. CASE m[1] = "ops"
    BY <1>1, <1>2, <2>2 DEF Needed, Does
  <2> QED
    BY <1>1, <2>1, <2>2
<1>4. Good(m, clo_fnname, <<"stmt", st>>, x, Needed(m, st))
  <2>1. CASE m[1] = "truth"
    <3>1. Needed(m, st) = Ahead(m, clo_fnname, st, x)
      <4>1. m = <<"truth", m[2]>>
        BY <2>1, MeasureParts
      <4>2. CASE m[2] = "abandoned"
        <5>1. Lead(m) = 1 /\ Net(m[2], "IRStmts") = 0
          BY <4>1, <4>2 DEF Lead, Net
        <5>2. Needed(m, st) = 1
          BY <2>1, <5>1 DEF Needed
        <5>3. Ahead(m, clo_fnname, st, x) = 1
          BY <2>1, <4>2 DEF Ahead
        <5> QED
          BY <5>2, <5>3
      <4>3. CASE m[2] # "abandoned"
        <5>1. Lead(m) = 0
          BY <4>3 DEF Lead
        <5>2. StmtAdds(m[2], clo_fnname, st, x) = Net(m[2], "IRStmts")
              /\ Net(m[2], "IRStmts") \in Int
          BY <1>1, <2>1 DEF StmtAdds, Net, Truths
        <5>3. Needed(m, st) = Lead(m) + Net(m[2], "IRStmts")
          BY <2>1 DEF Needed
        <5>4. Ahead(m, clo_fnname, st, x) = StmtAdds(m[2], clo_fnname, st, x)
          BY <2>1, <4>3 DEF Ahead
        <5> QED
          BY <5>1, <5>2, <5>3, <5>4
      <4> QED
        BY <4>2, <4>3
    <3> QED
      BY <3>1 DEF Good
  <2>2. CASE m[1] = "ops"
    <3>1. OpsOf(m[2], st) \in Int
      BY <1>2, <2>2 DEF Does
    <3> QED
      BY <1>1, <2>2, <3>1 DEF Good, Needed, Ahead
  <2> QED
    BY <1>1, <2>1, <2>2
<1>5. Follow(<<"stmt", st>>, x) = x
  BY DEF Follow
<1>6. /\ Append(w.out, <<"stmt", st>>) \in Seq(Items)
      /\ Ends(m, clo_fnname, Append(w.out, <<"stmt", st>>), x, Lead(m))
  BY <1>1, <1>3, <1>4, <1>5, EndsTurn
<1>7. Append(w.out, <<"stmt", st>>) \o <<>> = Append(w.out, <<"stmt", st>>)
  BY <1>6, ConcatEmptySeq
<1> QED
  BY <1>6, <1>7 DEF Item

\* The statement counted, and no operation of it yet.
Begun(m) == Lead(m) + Counts(m, <<"count", "IRStmts">>)

\* What is still missing are the operations the statement stands for.
LEMMA BegunNeeded ==
  ASSUME NEW m \in Measures, NEW st \in Stmts
  PROVE  /\ Begun(m) \in Int
         /\ m[1] = "truth" => Needed(m, st) = Begun(m)
         /\ m[1] = "ops" => Needed(m, st) = OpsOf(m[2], st) /\ Begun(m) = 0
<1>1. /\ m[1] \in {"truth", "ops"} /\ (m[1] = "truth" => m[2] \in Truths) /\ Lead(m) \in Int
      /\ (m[1] = "ops" => Lead(m) = 0)
  BY MeasureParts DEF Lead
<1>2. CASE m[1] = "truth"
  <2>1. Counts(m, <<"count", "IRStmts">>) = Net(m[2], "IRStmts")
    BY <1>2 DEF Counts
  <2>2. Net(m[2], "IRStmts") \in Int
    BY <1>1, <1>2 DEF Net, Truths
  <2>3. Needed(m, st) = Lead(m) + Net(m[2], "IRStmts")
    BY <1>2 DEF Needed
  <2> QED
    BY <1>1, <1>2, <2>1, <2>2, <2>3 DEF Begun
<1>3. CASE m[1] = "ops"
  <2>1. Counts(m, <<"count", "IRStmts">>) = 0
    BY <1>3 DEF Counts
  <2>2. OpsOf(m[2], st) \in Nat
    BY DEF OpsOf, Operations
  <2>3. Needed(m, st) = Lead(m) + OpsOf(m[2], st)
    BY <1>3 DEF Needed
  <2> QED
    BY <1>1, <1>3, <2>1, <2>2, <2>3 DEF Begun
<1> QED
  BY <1>1, <1>2, <1>3

\* A detail is an operation of one kind on one type.
LEMMA DetailCounts ==
  ASSUME NEW m \in Measures, NEW op \in {"OpLoad", "OpStore", "OpAlu"}, NEW t \in Types
  PROVE  /\ m[1] = "truth" => Counts(m, <<"detail", <<op, t>>>>) = 0
         /\ m[1] = "ops" => Counts(m, <<"detail", <<op, t>>>>) =
                              IF m[2][1] = op /\ m[2][2] = t THEN 1 ELSE 0
<1>1. CASE m[1] = "truth"
  BY <1>1 DEF Counts
<1>2. CASE m[1] = "ops"
  <2>1. m[2] \in Details
    BY <1>2, MeasureParts
  <2>2. m[2] = <<m[2][1], m[2][2]>>
    BY <2>1 DEF Details
  <2> QED
    BY <1>2, <2>2 DEF Counts
<1> QED
  BY <1>1, <1>2, MeasureParts

\* A statement that stands for at most one operation, which is counted.
LEMMA OneDetail ==
  ASSUME NEW m \in Measures, NEW st \in Stmts, NEW op \in {"OpLoad", "OpStore", "OpAlu"},
         st.type \in Types,
         \/ op = "OpAlu" /\ st.tag = "Alu"
         \/ op = "OpLoad" /\ st.tag \in {"Load", "LL"}
         \/ op = "OpStore" /\ st.tag \in {"Store", "SC"}
  PROVE  Begun(m) + Counts(m, <<"detail", <<op, st.type>>>>) = Needed(m, st)
<1>1. m[1] \in {"truth", "ops"} /\ (m[1] = "ops" => m[2] \in Details)
  BY MeasureParts
<1>2. CASE m[1] = "truth"
  BY <1>2, BegunNeeded, DetailCounts
<1>3. CASE m[1] = "ops"
  <2>1. m[2][1] \in {"OpLoad", "OpStore", "OpAlu"}
    BY <1>1, <1>3 DEF Details
  <2>2. Operations(m[2][1], st) = IF m[2][1] = op THEN 1 ELSE 0
    BY <2>1 DEF Operations
  <2>3. OpsOf(m[2], st) = IF m[2][1] = op /\ m[2][2] = st.type THEN 1 ELSE 0
    BY <2>2 DEF OpsOf
  <2> QED
    BY <1>3, <2>3, BegunNeeded, DetailCounts
<1> QED
  BY <1>1, <1>2, <1>3

\* A statement that stands for none.
LEMMA NoDetail ==
  ASSUME NEW m \in Measures, NEW st \in Stmts,
         st.tag \in {"Put", "DirtyRead", "DirtyWrite", "DirtyModify"}
  PROVE  Begun(m) = Needed(m, st)
<1>1. Operations(m[2][1], st) = 0
  BY DEF Operations
<1>2. OpsOf(m[2], st) = 0
  BY <1>1 DEF OpsOf
<1> QED
  BY <1>2, BegunNeeded, MeasureParts

\* Compare and swap stands for a load and a store, a double one for two of each.
LEMMA CASCounts ==
  ASSUME NEW m \in Measures, NEW st \in Stmts, st.tag \in {"CAS", "DCAS"}, st.type \in Types
  PROVE  Needed(m, st) = Begun(m) +
           (IF st.tag = "DCAS" THEN 2 ELSE 1) * (Counts(m, <<"detail", <<"OpLoad", st.type>>>>)
              + Counts(m, <<"detail", <<"OpStore", st.type>>>>))
<1> DEFINE l == Counts(m, <<"detail", <<"OpLoad", st.type>>>>)
           s == Counts(m, <<"detail", <<"OpStore", st.type>>>>)
<1>1. m[1] \in {"truth", "ops"} /\ (m[1] = "ops" => m[2] \in Details)
  BY MeasureParts
<1>2. CASE m[1] = "truth"
  <2>1. l = 0 /\ s = 0
    BY <1>2, DetailCounts
  <2> HIDE DEF l, s
  <2> QED
    BY <1>2, <2>1, BegunNeeded DEF l, s
<1>3. CASE m[1] = "ops"
  <2>1. m[2][1] \in {"OpLoad", "OpStore", "OpAlu"}
    BY <1>1, <1>3 DEF Details
  <2>2. Operations(m[2][1], st) = IF m[2][1] = "OpAlu" THEN 0 ELSE IF st.tag = "DCAS" THEN 2 ELSE 1
    BY <2>1 DEF Operations
  <2>3. /\ l = (IF m[2][1] = "OpLoad" /\ m[2][2] = st.type THEN 1 ELSE 0)
        /\ s = (IF m[2][1] = "OpStore" /\ m[2][2] = st.type THEN 1 ELSE 0)
    BY <1>3, DetailCounts
  <2>4. /\ Needed(m, st) = OpsOf(m[2], st) /\ Begun(m) = 0
        /\ OpsOf(m[2], st) = IF m[2][2] = st.type THEN Operations(m[2][1], st) ELSE 0
    BY <1>3, BegunNeeded DEF OpsOf
  <2> HIDE DEF l, s
  <2> QED
    BY <2>1, <2>2, <2>3, <2>4 DEF l, s
<1> QED
  BY <1>1, <1>2, <1>3

\* The details of a compare and swap make up for what is missing.
LEMMA EndsCAS ==
  ASSUME NEW m \in Measures, NEW w \in Works, NEW st \in Stmts, st.tag \in {"CAS", "DCAS"},
         st.type \in Types, NEW x \in Marks, Ends(m, clo_fnname, w.out, x, Begun(m))
  PROVE  /\ CASDetails(w, st) \in Works
         /\ Ends(m, clo_fnname, CASDetails(w, st).out, x, Needed(m, st))
<1> DEFINE l == Counts(m, <<"detail", <<"OpLoad", st.type>>>>)
           s == Counts(m, <<"detail", <<"OpStore", st.type>>>>)
           load == instrument_detail(w, "OpLoad", st.type)
           loads == IF st.tag = "DCAS" THEN instrument_detail(load, "OpLoad", st.type) ELSE load
           store == instrument_detail(loads, "OpStore", st.type)
<1>1. Begun(m) \in Int
  BY BegunNeeded
<1>2. load \in Works /\ l \in Int /\ Ends(m, clo_fnname, load.out, x, Begun(m) + l)
  BY <1>1, EndsDetail
<1> HIDE DEF load
<1>3. CASE st.tag = "CAS"
  <2>1. loads = load /\ CASDetails(w, st) = store
    BY <1>3 DEF CASDetails, load
  <2> HIDE DEF l, s
  <2>2. Begun(m) + l \in Int
    BY <1>1, <1>2
  <2>3. /\ store \in Works /\ s \in Int
        /\ Ends(m, clo_fnname, store.out, x, (Begun(m) + l) + s)
    BY <1>2, <2>1, <2>2, EndsDetail DEF s
  <2>4. Needed(m, st) = Begun(m) + 1 * (l + s)
    BY <1>3, CASCounts DEF l, s
  <2>5. Needed(m, st) = (Begun(m) + l) + s
    BY <1>1, <1>2, <2>3, <2>4
  <2> QED
    BY <2>1, <2>3, <2>5
<1>4. CASE st.tag = "DCAS"
  <2>1. /\ loads = instrument_detail(load, "OpLoad", st.type)
        /\ CASDetails(w, st) = instrument_detail(store, "OpStore", st.type)
    BY <1>4 DEF CASDetails, load
  <2>2. Begun(m) + l \in Int
    BY <1>1, <1>2
  <2>3. loads \in Works /\ Ends(m, clo_fnname, loads.out, x, (Begun(m) + l) + l)
    BY <1>2, <2>1, <2>2, EndsDetail
  <2> HIDE DEF loads
  <2>4. (Begun(m) + l) + l \in Int
    BY <1>1, <1>2
  <2>5. /\ store \in Works /\ s \in Int
        /\ Ends(m, clo_fnname, store.out, x, ((Begun(m) + l) + l) + s)
    BY <2>3, <2>4, EndsDetail
  <2> HIDE DEF store
  <2>6. ((Begun(m) + l) + l) + s \in Int
    BY <1>1, <1>2, <2>5
  <2>7. /\ CASDetails(w, st) \in Works
        /\ Ends(m, clo_fnname, CASDetails(w, st).out, x, (((Begun(m) + l) + l) + s) + s)
    BY <2>1, <2>5, <2>6, EndsDetail
  <2>8. Needed(m, st) = Begun(m) + 2 * (l + s)
    BY <1>4, CASCounts
  <2> HIDE DEF l, s
  <2>9. Needed(m, st) = (((Begun(m) + l) + l) + s) + s
    BY <1>1, <1>2, <2>5, <2>8 DEF l, s
  <2> QED
    BY <2>7, <2>9
<1> QED
  BY <1>3, <1>4

\* Every case of the switch but exits and IMarks leaves the code as far ahead
\* as it was.
LEMMA PlainEnds ==
  ASSUME TypeOK, NEW m \in Measures, Kept(m), NEW st \in IRStmts,
         Instrument(st), st.tag \notin {"Exit", "IMark"},
         NEW x \in Marks, m[1] = "truth" => x # 0,
         Ends(m, clo_fnname, sbOut, x, Lead(m))
  PROVE  Ends(m, clo_fnname, sbOut', x, Lead(m)) /\ iaddr' = iaddr
<1>0. st \in Stmts /\ Lead(m) \in Int
  BY StatementAssumption, MeasureParts
<1>1. Counted \in Works /\ Begun(m) \in Int /\ Ends(m, clo_fnname, Counted.out, x, Begun(m))
  BY <1>0, EndsCounted, BegunNeeded DEF Begun
<1>2. ASSUME NEW w \in Works, Ends(m, clo_fnname, w.out, x, Needed(m, st)), Turn(w, st, <<>>)
      PROVE  Ends(m, clo_fnname, sbOut', x, Lead(m))
  BY <1>0, <1>2, PlainTurn DEF Turn
<1>3. ASSUME st.tag \in DataTags
      PROVE  /\ st.addr \in Atoms /\ st.type \in Types
             /\ Size(st) \in Sizes /\ 2 * Size(st) \in Sizes
  BY <1>0, <1>3, StmtParts, DataSize
<1>4. ASSUME NEW w \in Works, NEW a \in Atoms, NEW s \in Sizes,
             Ends(m, clo_fnname, w.out, x, Begun(m))
      PROVE  /\ addEvent_Dr(w, a, s) \in Works /\ addEvent_Dw(w, a, s) \in Works
             /\ Ends(m, clo_fnname, addEvent_Dr(w, a, s).out, x, Begun(m))
             /\ Ends(m, clo_fnname, addEvent_Dw(w, a, s).out, x, Begun(m))
  BY <1>1, <1>4, LoadWork, StoreWork, EndsEvent
<1>5. ASSUME NEW w \in Works, NEW op \in {"OpLoad", "OpStore", "OpAlu"},
             Ends(m, clo_fnname, w.out, x, Begun(m)), st.type \in Types,
             \/ op = "OpAlu" /\ st.tag = "Alu"
             \/ op = "OpLoad" /\ st.tag \in {"Load", "LL"}
             \/ op = "OpStore" /\ st.tag \in {"Store", "SC"},
             Turn(instrument_detail(w, op, st.type), st, <<>>)
      PROVE  Ends(m, clo_fnname, sbOut', x, Lead(m))
  <2>1. /\ instrument_detail(w, op, st.type) \in Works
        /\ Ends(m, clo_fnname, instrument_detail(w, op, st.type).out, x,
                Begun(m) + Counts(m, <<"detail", <<op, st.type>>>>))
    BY <1>1, <1>5, EndsDetail
  <2>2. Begun(m) + Counts(m, <<"detail", <<op, st.type>>>>) = Needed(m, st)
    BY <1>0, <1>5, OneDetail
  <2> QED
    BY <1>2, <1>5, <2>1, <2>2
<1>6. CASE InstrumentOther(st)
  <2>1. Begun(m) = Needed(m, st)
    BY <1>0, <1>6, NoDetail DEF InstrumentOther
  <2> QED
    BY <1>1, <1>2, <1>6, <2>1 DEF InstrumentOther
<1>7. CASE InstrumentAlu(st)
  <2>1. st.type \in Types
    BY <1>0, <1>7, StmtParts DEF InstrumentAlu
  <2> QED
    BY <1>1, <1>5, <1>7, <2>1 DEF InstrumentAlu
<1>8. CASE InstrumentLoad(st)
  <2>1. /\ addEvent_Dr(Counted, st.addr, Size(st)) \in Works /\ st.type \in Types
        /\ Ends(m, clo_fnname, addEvent_Dr(Counted, st.addr, Size(st)).out, x, Begun(m))
    BY <1>1, <1>3, <1>4, <1>8 DEF InstrumentLoad, DataTags
  <2> QED
    BY <1>5, <1>8, <2>1 DEF InstrumentLoad
<1>9. CASE InstrumentStore(st)
  <2>1. /\ addEvent_Dw(Counted, st.addr, Size(st)) \in Works /\ st.type \in Types
        /\ Ends(m, clo_fnname, addEvent_Dw(Counted, st.addr, Size(st)).out, x, Begun(m))
    BY <1>1, <1>3, <1>4, <1>9 DEF InstrumentStore, DataTags
  <2> QED
    BY <1>5, <1>9, <2>1 DEF InstrumentStore
<1>10. CASE InstrumentDirty(st)
  <2> DEFINE read == IF st.tag = "DirtyWrite" THEN Counted
                     ELSE addEvent_Dr(Counted, st.addr, Size(st))
             both == IF st.tag = "DirtyRead" THEN read
                     ELSE addEvent_Dw(read, st.addr, Size(st))
  <2>1. st.addr \in Atoms /\ Size(st) \in Sizes
    BY <1>3, <1>10 DEF InstrumentDirty, DataTags
  <2>2. read \in Works /\ Ends(m, clo_fnname, read.out, x, Begun(m))
    BY <1>1, <1>4, <2>1
  <2> HIDE DEF read
  <2>3. both \in Works /\ Ends(m, clo_fnname, both.out, x, Begun(m))
    BY <1>4, <2>1, <2>2
  <2>4. Turn(both, st, <<>>) /\ iaddr' = iaddr
    BY <1>10 DEF InstrumentDirty, read
  <2>5. Begun(m) = Needed(m, st)
    BY <1>0, <1>10, NoDetail DEF InstrumentDirty
  <2> HIDE DEF both
  <2> QED
    BY <1>2, <2>3, <2>4, <2>5
<1>11. CASE InstrumentCAS(st)
  <2> DEFINE size == IF st.tag = "DCAS" THEN 2 * Size(st) ELSE Size(st)
             both == addEvent_Dw(addEvent_Dr(Counted, st.addr, size), st.addr, size)
  <2>1. st.addr \in Atoms /\ size \in Sizes /\ st.type \in Types
    BY <1>3, <1>11 DEF InstrumentCAS, DataTags
  <2>2. Turn(CASDetails(both, st), st, <<>>) /\ iaddr' = iaddr
    BY <1>11 DEF InstrumentCAS
  <2> HIDE DEF size
  <2>3. both \in Works /\ Ends(m, clo_fnname, both.out, x, Begun(m))
    BY <1>1, <1>4, <2>1
  <2> HIDE DEF both
  <2>4. /\ CASDetails(both, st) \in Works
        /\ Ends(m, clo_fnname, CASDetails(both, st).out, x, Needed(m, st))
    BY <1>0, <1>11, <2>1, <2>3, EndsCAS DEF InstrumentCAS
  <2> QED
    BY <1>2, <2>2, <2>4
<1>12. CASE InstrumentLL(st)
  <2> DEFINE read == addEvent_Dr(Counted, st.addr, Size(st))
  <2>1. read \in Works /\ st.type \in Types /\ Ends(m, clo_fnname, read.out, x, Begun(m))
    BY <1>1, <1>3, <1>4, <1>12 DEF InstrumentLL, DataTags
  <2>2. /\ st.tag = "LL" /\ iaddr' = iaddr
        /\ Turn(instrument_detail(flushEvents(read), "OpLoad", st.type), st, <<>>)
    BY <1>12 DEF InstrumentLL
  <2> HIDE DEF read
  <2>3. flushEvents(read) \in Works /\ Ends(m, clo_fnname, flushEvents(read).out, x, Begun(m))
    BY <1>1, <2>1, FlushWork, EndsFlush
  <2> QED
    BY <1>5, <2>1, <2>2, <2>3
<1>13. CASE InstrumentSC(st)
  <2>1. /\ addEvent_Dw(Counted, st.addr, Size(st)) \in Works /\ st.type \in Types
        /\ Ends(m, clo_fnname, addEvent_Dw(Counted, st.addr, Size(st)).out, x, Begun(m))
    BY <1>1, <1>3, <1>4, <1>13 DEF InstrumentSC, DataTags
  <2> QED
    BY <1>5, <1>13, <2>1 DEF InstrumentSC
<1> QED
  BY <1>6, <1>7, <1>8, <1>9, <1>10, <1>11, <1>12, <1>13 DEF Instrument, InstrumentIMark,
     InstrumentExit

\* An IMark is a statement and an instruction, and may be a call of the
\* counted function; the code behind it belongs to its instruction.
LEMMA IMarkEnds ==
  ASSUME TypeOK, NEW m \in Measures, Kept(m), NEW st \in IRStmts, InstrumentIMark(st),
         NEW x \in Marks, Ends(m, clo_fnname, sbOut, x, Lead(m))
  PROVE  /\ st.addr \in Marks /\ st.addr # 0
         /\ m[1] = "truth" => iaddr' = st.addr
         /\ Ends(m, clo_fnname, sbOut', st.addr, Lead(m))
<1> DEFINE entry == EntryOf[st.addr] = clo_fnname
           guest == EmitIf(clo_basic_counts, Counted, "count", "guest_instrs")
           both == CountsOfIMark(Counted, st.addr)
           g == Counts(m, <<"count", "guest_instrs">>)
           c == Counts(m, <<"count", "func_calls">>)
           n == (Begun(m) + g) + (IF entry THEN c ELSE 0)
<1>0. /\ st \in Stmts /\ Lead(m) \in Int /\ st.tag = "IMark" /\ clo_basic_counts \in BOOLEAN
      /\ "guest_instrs" \in Counters /\ "func_calls" \in Counters
      /\ m[1] \in {"truth", "ops"} /\ (m[1] = "truth" => m[2] \in Truths)
      /\ (m[1] = "ops" => Lead(m) = 0)
  <2>1. /\ st \in Stmts /\ st.tag = "IMark" /\ clo_basic_counts \in BOOLEAN
        /\ "guest_instrs" \in Counters /\ "func_calls" \in Counters
    BY StatementAssumption DEF InstrumentIMark, TypeOK, Counters
  <2>2. /\ Lead(m) \in Int /\ m[1] \in {"truth", "ops"} /\ (m[1] = "ops" => Lead(m) = 0)
        /\ (m[1] = "truth" => m[2] \in Truths)
    BY MeasureParts DEF Lead
  <2> QED
    BY <2>1, <2>2
<1>1. Counted \in Works /\ Begun(m) \in Int /\ Ends(m, clo_fnname, Counted.out, x, Begun(m))
  BY <1>0, EndsCounted, BegunNeeded DEF Begun
<1>2. guest \in Works /\ g \in Int /\ Ends(m, clo_fnname, guest.out, x, Begun(m) + g)
  BY <1>0, <1>1, EndsEmitIf DEF Kept
<1>3. both = EmitIf(clo_basic_counts /\ entry, guest, "count", "func_calls")
  BY DEF CountsOfIMark
<1> HIDE DEF guest, both
<1>4. both \in Works /\ n \in Int /\ Ends(m, clo_fnname, both.out, x, n)
  <2>0. Begun(m) + g \in Int
    BY <1>1, <1>2
  <2>1. CASE entry
    <3>1. /\ both \in Works /\ c \in Int
          /\ Ends(m, clo_fnname, both.out, x, (Begun(m) + g) + c)
      BY <1>0, <1>2, <1>3, <2>0, <2>1, EndsEmitIf DEF Kept
    <3> HIDE DEF g, c, entry
    <3> QED
      BY <1>1, <1>2, <2>1, <3>1
  <2>2. CASE ~entry
    <3>1. both = guest
      BY <1>3, <2>2 DEF EmitIf
    <3>2. n = Begun(m) + g
      BY <2>0, <2>2
    <3> QED
      BY <1>2, <2>0, <3>1, <3>2
  <2> QED
    BY <2>1, <2>2
<1>5. /\ addEvent_Ir(both, st.addr, 1) \in Works
      /\ Ends(m, clo_fnname, addEvent_Ir(both, st.addr, 1).out, x, n)
  <2>1. st.addr \in Instrs
    BY <1>0, StmtParts
  <2>2. addEvent_Ir(both, st.addr, 1) \in Works
    BY <1>4, <2>1, EventRecord, AddWork DEF addEvent_Ir, Sizes
  <2> QED
    BY <1>4, <2>2, EndsEvent
<1>6. st.addr \in Instrs /\ st.addr \in Marks /\ st.addr # 0
  BY <1>0, StmtParts, AddressAssumption DEF Marks
<1>7. /\ m[1] = "ops" => n = 0 /\ OpsOf(m[2], st) = 0
      /\ m[1] = "truth" => n = Lead(m) + StmtAdds(m[2], clo_fnname, st, x)
  <2>1. CASE m[1] = "ops"
    <3>1. Begun(m) = 0 /\ g = 0 /\ c = 0
      BY <1>0, <2>1, BegunNeeded DEF Counts
    <3>2. Operations(m[2][1], st) = 0
      BY <1>0 DEF Operations
    <3> HIDE DEF g, c
    <3>3. n = 0
      BY <3>1
    <3> QED
      BY <2>1, <3>2, <3>3 DEF OpsOf
  <2>2. CASE m[1] = "truth"
    <3>1. /\ Begun(m) = Lead(m) + Net(m[2], "IRStmts")
          /\ g = Net(m[2], "guest_instrs") /\ c = Net(m[2], "func_calls")
      BY <2>2 DEF Counts, Begun
    <3>2. /\ Net(m[2], "IRStmts") = IF m[2] = "stmts" THEN 1 ELSE 0
          /\ Net(m[2], "guest_instrs") = IF m[2] = "instrs" THEN 1 ELSE 0
          /\ Net(m[2], "func_calls") = IF m[2] = "calls" THEN 1 ELSE 0
      BY <1>0, <2>2 DEF Net, Truths
    <3>3. StmtAdds(m[2], clo_fnname, st, x) =
            IF m[2] \in {"stmts", "instrs"} \/ (m[2] = "calls" /\ entry) THEN 1 ELSE 0
      BY <1>0, <2>2 DEF StmtAdds, Truths
    <3> HIDE DEF g, c, entry
    <3> QED
      BY <1>0, <2>2, <3>1, <3>2, <3>3
  <2> QED
    BY <1>0, <2>1, <2>2
<1> HIDE DEF n
<1>8. n - Does(m, clo_fnname, st, x) = Lead(m) /\ Does(m, clo_fnname, st, x) \in Nat
  <2>1. CASE m[1] = "ops"
    BY <1>0, <1>7, <2>1 DEF Does
  <2>2. CASE m[1] = "truth"
    <3>1. Does(m, clo_fnname, st, x) = StmtAdds(m[2], clo_fnname, st, x)
      BY <1>0, <2>2 DEF Does
    <3> QED
      BY <1>0, <1>7, <2>2, <3>1, DoesType
  <2> QED
    BY <1>0, <2>1, <2>2
<1>9. Good(m, clo_fnname, <<"stmt", st>>, x, n)
  <2>1. n = Ahead(m, clo_fnname, st, x)
    <3>1. CASE m[1] = "ops"
      BY <1>7, <3>1 DEF Ahead
    <3>2. CASE m[1] = "truth" /\ m[2] = "abandoned"
      <4>1. StmtAdds(m[2], clo_fnname, st, x) = 0
        BY <3>2 DEF StmtAdds
      <4>2. m = <<"truth", "abandoned">>
        BY <3>2, MeasureParts
      <4>3. Lead(m) = 1
        BY <4>2 DEF Lead
      <4>4. Ahead(m, clo_fnname, st, x) = 1
        BY <1>0, <3>2 DEF Ahead
      <4> QED
        BY <1>7, <3>2, <4>1, <4>3, <4>4
    <3>3. CASE m[1] = "truth" /\ m[2] # "abandoned"
      <4>1. Lead(m) = 0
        BY <3>3 DEF Lead
      <4>2. Ahead(m, clo_fnname, st, x) = StmtAdds(m[2], clo_fnname, st, x)
        BY <1>0, <3>3 DEF Ahead
      <4>3. StmtAdds(m[2], clo_fnname, st, x) \in Int
        BY DEF StmtAdds
      <4> QED
        BY <1>7, <3>3, <4>1, <4>2, <4>3
    <3> QED
      BY <1>0, <3>1, <3>2, <3>3
  <2> QED
    BY <2>1 DEF Good
<1>10. Follow(<<"stmt", st>>, x) = st.addr
  BY <1>0 DEF Follow
<1> DEFINE before == addEvent_Ir(both, st.addr, 1)
<1> HIDE DEF before
<1>11. /\ Append(before.out, <<"stmt", st>>) \in Seq(Items)
       /\ Ends(m, clo_fnname, Append(before.out, <<"stmt", st>>), st.addr, Lead(m))
  <2>1. before.out \in Seq(Items) /\ Ends(m, clo_fnname, before.out, x, n)
    BY <1>5 DEF Works, before
  <2> QED
    BY <1>0, <1>4, <1>8, <1>9, <1>10, <2>1, EndsTurn
<1>12. sbOut' = Append(before.out, <<"stmt", st>>)
  <2>1. sbOut' = Append(before.out, <<"stmt", st>>) \o <<>>
    BY DEF InstrumentIMark, Turn, Item, before, both
  <2> QED
    BY <1>11, <2>1, ConcatEmptySeq
<1>13. m[1] = "truth" => iaddr' = st.addr
  BY DEF InstrumentIMark, Remembered, Kept
<1> QED
  BY <1>6, <1>11, <1>12, <1>13

\* What the counters around an exit add up to, whichever way it points.
LEMMA ExitCounts ==
  ASSUME NEW m \in Measures, m[1] = "truth", NEW st \in Stmts, st.tag = "Exit",
         NEW fn, iaddr # 0
  PROVE  /\ Begun(m) + Counts(m, <<"count", Jcc(st)>>) = Ahead(m, fn, st, iaddr)
         /\ Ahead(m, fn, st, iaddr) \in Int
         /\ (Ahead(m, fn, st, iaddr) - Does(m, fn, st, iaddr))
              + Counts(m, <<"count", JccUntaken(st)>>) = Lead(m)
<1> DEFINE inverted == st.addr = iaddr + 1
<1>1. /\ Begun(m) = Lead(m) + Net(m[2], "IRStmts")
      /\ Counts(m, <<"count", Jcc(st)>>) = Net(m[2], Jcc(st))
      /\ Counts(m, <<"count", JccUntaken(st)>>) = Net(m[2], JccUntaken(st))
  BY DEF Begun, Counts
<1>2. /\ Jcc(st) = IF inverted THEN "IJccs" ELSE "Jccs"
      /\ JccUntaken(st) = IF inverted THEN "IJccs_untaken" ELSE "Jccs_untaken"
  BY DEF Jcc, JccUntaken, condition_inverted
<1>3. Ahead(m, fn, st, iaddr) = ExitAdds(m[2], st, iaddr, TRUE)
  BY DEF Ahead
<1>4. Does(m, fn, st, iaddr) = ExitAdds(m[2], st, iaddr, FALSE)
  BY DEF Does
<1>5. /\ ExitAdds(m[2], st, iaddr, TRUE) =
           IF m[2] \in {"branches", "stmts", "abandoned"} \/ (m[2] = "taken" /\ ~inverted)
             THEN 1 ELSE 0
      /\ ExitAdds(m[2], st, iaddr, FALSE) =
           IF m[2] \in {"branches", "stmts"} \/ (m[2] = "taken" /\ inverted) THEN 1 ELSE 0
  BY DEF ExitAdds
<1>6. m[2] \in Truths /\ m = <<"truth", m[2]>>
  BY MeasureParts
<1>7. Lead(m) = IF m[2] = "abandoned" THEN 1 ELSE 0
  BY <1>6 DEF Lead
<1>8. /\ Net(m[2], "IRStmts") = IF m[2] = "stmts" THEN 1 ELSE 0
      /\ Net(m[2], Jcc(st)) =
           IF m[2] = "branches" \/ (m[2] = "taken" /\ ~inverted) THEN 1 ELSE 0
      /\ Net(m[2], JccUntaken(st)) =
           IF m[2] = "taken" THEN IF inverted THEN 1 ELSE 0 - 1 ELSE 0
  BY <1>2, <1>6 DEF Net, Truths
<1> DEFINE leave == ExitAdds(m[2], st, iaddr, TRUE)
           stay == ExitAdds(m[2], st, iaddr, FALSE)
           stmt == Net(m[2], "IRStmts")
           jcc == Net(m[2], Jcc(st))
           untaken == Net(m[2], JccUntaken(st))
<1>9. /\ (Lead(m) + stmt) + jcc = leave
      /\ leave \in Int
      /\ (leave - stay)
           + untaken = Lead(m)
  <2>1. CASE m[2] = "branches"
    <3>1. Lead(m) = 0 /\ stmt = 0
      BY <1>7, <1>8, <2>1
    <3>2. jcc = 1 /\ untaken = 0
      BY <1>8, <2>1
    <3>3. leave = 1 /\ stay = 1
      BY <1>5, <2>1
    <3> HIDE DEF leave, stay, stmt, jcc, untaken
    <3> QED
      BY <3>1, <3>2, <3>3
  <2>2. CASE m[2] = "taken" /\ inverted
    <3>1. Lead(m) = 0 /\ stmt = 0
      BY <1>7, <1>8, <2>2
    <3>2. jcc = 0 /\ untaken = 1
      BY <1>8, <2>2
    <3>3. leave = 0 /\ stay = 1
      BY <1>5, <2>2
    <3> HIDE DEF leave, stay, stmt, jcc, untaken
    <3> QED
      BY <3>1, <3>2, <3>3
  <2>3. CASE m[2] = "taken" /\ ~inverted
    <3>1. Lead(m) = 0 /\ stmt = 0
      BY <1>7, <1>8, <2>3
    <3>2. jcc = 1 /\ untaken = 0 - 1
      BY <1>8, <2>3
    <3>3. leave = 1 /\ stay = 0
      BY <1>5, <2>3
    <3> HIDE DEF leave, stay, stmt, jcc, untaken
    <3> QED
      BY <3>1, <3>2, <3>3
  <2>4. CASE m[2] = "abandoned"
    <3>1. Lead(m) = 1 /\ stmt = 0
      BY <1>7, <1>8, <2>4
    <3>2. jcc = 0 /\ untaken = 0
      BY <1>8, <2>4
    <3>3. leave = 1 /\ stay = 0
      BY <1>5, <2>4
    <3> HIDE DEF leave, stay, stmt, jcc, untaken
    <3> QED
      BY <3>1, <3>2, <3>3
  <2>5. CASE m[2] = "stmts"
    <3>1. Lead(m) = 0 /\ stmt = 1
      BY <1>7, <1>8, <2>5
    <3>2. jcc = 0 /\ untaken = 0
      BY <1>8, <2>5
    <3>3. leave = 1 /\ stay = 1
      BY <1>5, <2>5
    <3> HIDE DEF leave, stay, stmt, jcc, untaken
    <3> QED
      BY <3>1, <3>2, <3>3
  <2>6. CASE m[2] \in {"instrs", "calls"}
    <3>1. Lead(m) = 0 /\ stmt = 0
      BY <1>7, <1>8, <2>6
    <3>2. jcc = 0 /\ untaken = 0
      BY <1>8, <2>6
    <3>3. leave = 0 /\ stay = 0
      BY <1>5, <2>6
    <3> HIDE DEF leave, stay, stmt, jcc, untaken
    <3> QED
      BY <3>1, <3>2, <3>3
  <2> QED
    BY <1>6, <2>1, <2>2, <2>3, <2>4, <2>5, <2>6 DEF Truths
<1> QED
  BY <1>1, <1>3, <1>4, <1>9

\* A side exit: the branch is counted before it, and behind it that it was
\* not taken, or that an inverted one was.
LEMMA ExitEnds ==
  ASSUME TypeOK, NEW m \in Measures, Kept(m), NEW st \in IRStmts, InstrumentExit(st),
         NEW x \in Marks, m[1] = "truth" => x = iaddr /\ x # 0,
         Ends(m, clo_fnname, sbOut, x, Lead(m))
  PROVE  Ends(m, clo_fnname, sbOut', x, Lead(m)) /\ iaddr' = iaddr
<1> DEFINE jcc == EmitIf(clo_basic_counts, Counted, "count", Jcc(st))
           before == BeforeExit(st)
           n == Begun(m) + Counts(m, <<"count", Jcc(st)>>)
           it == <<"count", JccUntaken(st)>>
<1>0. /\ st \in Stmts /\ Lead(m) \in Int /\ st.tag = "Exit" /\ clo_basic_counts \in BOOLEAN
      /\ Jcc(st) \in Counters /\ JccUntaken(st) \in Counters
      /\ m[1] \in {"truth", "ops"} /\ (m[1] = "ops" => Lead(m) = 0)
  <2>1. Jcc(st) \in Counters /\ JccUntaken(st) \in Counters
    BY DEF Counters, Jcc, JccUntaken
  <2>2. st \in Stmts /\ st.tag = "Exit" /\ clo_basic_counts \in BOOLEAN
    BY StatementAssumption DEF InstrumentExit, TypeOK
  <2>3. /\ Lead(m) \in Int /\ m[1] \in {"truth", "ops"} /\ (m[1] = "ops" => Lead(m) = 0)
    BY MeasureParts DEF Lead
  <2> QED
    BY <2>1, <2>2, <2>3
<1>1. Counted \in Works /\ Begun(m) \in Int /\ Ends(m, clo_fnname, Counted.out, x, Begun(m))
  BY <1>0, EndsCounted, BegunNeeded DEF Begun
<1>2. /\ jcc \in Works /\ Counts(m, <<"count", Jcc(st)>>) \in Int
      /\ Ends(m, clo_fnname, jcc.out, x, n)
  BY <1>0, <1>1, EndsEmitIf DEF Kept
<1>3. n \in Int
  BY <1>1, <1>2
<1>4. before \in Works /\ Ends(m, clo_fnname, before.out, x, n)
  BY <1>2, <1>3, FlushWork, EndsFlush DEF BeforeExit
<1>5. m[1] = "ops" => n = 0 /\ Does(m, clo_fnname, st, x) = 0
  <2>1. Operations(m[2][1], st) = 0
    BY <1>0 DEF Operations
  <2>2. m[1] = "ops" => OpsOf(m[2], st) = 0 /\ Begun(m) = 0 /\ Counts(m, <<"count", Jcc(st)>>) = 0
    BY <1>0, <2>1, BegunNeeded DEF OpsOf, Counts
  <2> QED
    BY <2>2 DEF Does
<1>6. Good(m, clo_fnname, <<"stmt", st>>, x, n)
  <2>1. n = Ahead(m, clo_fnname, st, x)
    <3>1. CASE m[1] = "ops"
      BY <1>5, <3>1 DEF Ahead, Does
    <3>2. CASE m[1] = "truth"
      BY <1>0, <3>2, ExitCounts
    <3> QED
      BY <1>0, <3>1, <3>2
  <2> QED
    BY <2>1 DEF Good
<1>7. Follow(<<"stmt", st>>, x) = x
  BY <1>0 DEF Follow
<1>8. (n - Does(m, clo_fnname, st, x)) + Counts(m, it) = Lead(m)
  <2>1. CASE m[1] = "ops"
    <3>1. Counts(m, it) = 0
      BY <2>1 DEF Counts
    <3> QED
      BY <1>0, <1>5, <2>1, <3>1
  <2>2. CASE m[1] = "truth"
    BY <1>0, <2>2, ExitCounts
  <2> QED
    BY <1>0, <2>1, <2>2
<1> HIDE DEF before, n
<1> DEFINE copied == Append(before.out, <<"stmt", st>>)
<1>9. /\ copied \in Seq(Items) /\ Does(m, clo_fnname, st, x) \in Int
      /\ Ends(m, clo_fnname, copied, x, n - Does(m, clo_fnname, st, x))
  <2>1. before.out \in Seq(Items)
    BY <1>4 DEF Works
  <2> QED
    BY <1>0, <1>3, <1>4, <1>6, <1>7, <2>1, EndsTurn
<1>10. sbOut' = copied \o (IF clo_basic_counts THEN <<Item("count", JccUntaken(st))>> ELSE <<>>)
  BY DEF InstrumentExit, Turn, Item, before
<1>13. iaddr' = iaddr
  BY DEF InstrumentExit
<1> HIDE DEF copied
<1>11. CASE clo_basic_counts
  <2>1. it \in Items
    BY <1>0 DEF Items
  <2>2. /\ Follow(it, x) = x /\ Good(m, clo_fnname, it, x, n - Does(m, clo_fnname, st, x))
        /\ Weight(m, clo_fnname, it, x) = Counts(m, it)
    BY DEF Follow, Good, Weight
  <2>3. n - Does(m, clo_fnname, st, x) \in Int
    BY <1>3, <1>9
  <2> HIDE DEF it
  <2>4. Ends(m, clo_fnname, Append(copied, it), x, Lead(m))
    BY <1>8, <1>9, <2>1, <2>2, <2>3, EndsAppend
  <2>5. sbOut' = copied \o <<Item("count", JccUntaken(st))>>
    BY <1>10, <1>11
  <2>6. it = Item("count", JccUntaken(st))
    BY DEF it, Item
  <2>7. copied \o <<it>> = Append(copied, it)
    BY <1>9, <2>1, AppendIsConcat
  <2> QED
    BY <1>13, <2>4, <2>5, <2>6, <2>7
<1>12. CASE ~clo_basic_counts
  <2>1. m[1] = "ops"
    BY <1>0, <1>12 DEF Kept
  <2>2. n - Does(m, clo_fnname, st, x) = Lead(m)
    BY <1>0, <1>5, <2>1
  <2>3. sbOut' = copied \o <<>>
    BY <1>10, <1>12
  <2>4. copied \o <<>> = copied
    BY <1>9, ConcatEmptySeq
  <2> QED
    BY <1>9, <1>13, <2>2, <2>3, <2>4
<1> QED
  BY <1>0, <1>11, <1>12

\* Nothing of a preamble is counted, and nothing that it does counts.
LEMMA PreambleItem ==
  ASSUME NEW m \in Measures, NEW fn, NEW st \in Exits \cup Others
  PROVE  /\ <<"stmt", st>> \in Items /\ Follow(<<"stmt", st>>, 0) = 0
         /\ Weight(m, fn, <<"stmt", st>>, 0) = 0 /\ Good(m, fn, <<"stmt", st>>, 0, 0)
<1>1. st.tag \in {"Exit", "Put"} /\ st \in Stmts
  BY DEF Exits, Others, Stmts
<1>2. Operations(m[2][1], st) = 0
  BY <1>1 DEF Operations
<1>3. OpsOf(m[2], st) = 0
  BY <1>2 DEF OpsOf
<1>4. /\ ExitAdds(m[2], st, 0, TRUE) = 0 /\ ExitAdds(m[2], st, 0, FALSE) = 0
  BY DEF ExitAdds
<1>5. StmtAdds(m[2], fn, st, 0) = 0
  BY <1>1 DEF StmtAdds
<1>6. Does(m, fn, st, 0) = 0
  BY <1>3, <1>4, <1>5 DEF Does
<1>7. Good(m, fn, <<"stmt", st>>, 0, 0)
  BY <1>1, <1>3, <1>4 DEF Good, Ahead, DataTags
<1> QED
  BY <1>1, <1>6, <1>7 DEF Items, Follow, Weight

\* The start of a translation: entered, and in no instruction yet.
LEMMA BeginEnds ==
  ASSUME TypeOK, NEW m \in Measures, Kept(m), NEW preamble \in Preambles, BeginBlock(preamble)
  PROVE  Ends(m, clo_fnname, sbOut', 0, Lead(m)) /\ iaddr' = 0
<1> DEFINE copied == [i \in 1..Len(preamble) |-> Item("stmt", preamble[i])]
           begun == [Work EXCEPT !.out = copied]
<1>1. preamble \in Seq(Exits \cup Others) /\ Len(preamble) \in Nat
  BY PreambleAssumption, LenProperties
<1>2. ASSUME NEW i \in 1..Len(preamble)
      PROVE  preamble[i] \in Exits \cup Others
  BY <1>1, ElementOfSeq
<1>3. /\ copied \in Seq(Items) /\ Len(copied) = Len(preamble)
      /\ \A i \in 1..Len(preamble) : copied[i] = <<"stmt", preamble[i]>>
  <2>1. \A i \in 1..Len(preamble) : Item("stmt", preamble[i]) \in Items
    BY <1>2, PreambleItem DEF Item
  <2> QED
    BY <1>1, <2>1 DEF Item
<1> HIDE DEF copied
<1>4. Ends(m, clo_fnname, copied, 0, 0)
  <2>1. PICK h : h = [i \in 1..(Len(preamble) + 1) |-> 0]
    OBVIOUS
  <2>2. /\ h \in [1..(Len(copied) + 1) -> Marks] /\ h \in [1..(Len(copied) + 1) -> Int]
        /\ \A i \in 1..(Len(preamble) + 1) : h[i] = 0
    BY <1>1, <1>3, <2>1 DEF Marks
  <2>3. ASSUME NEW i \in 1..Len(copied)
        PROVE  /\ h[i + 1] = Follow(copied[i], h[i])
               /\ h[i + 1] = h[i] + Weight(m, clo_fnname, copied[i], h[i])
               /\ Good(m, clo_fnname, copied[i], h[i], h[i])
    <3>1. h[i] = 0 /\ h[i + 1] = 0
      BY <1>1, <1>3, <2>2
    <3>2. copied[i] = <<"stmt", preamble[i]>> /\ preamble[i] \in Exits \cup Others
      BY <1>2, <1>3
    <3> QED
      BY <3>1, <3>2, PreambleItem
  <2>4. h[1] = 0 /\ h[Len(copied) + 1] = 0
    BY <1>1, <1>3, <2>2
  <2>5. Trail(m, clo_fnname, copied, h, h)
    BY <2>3, <2>4 DEF Trail
  <2> QED
    BY <2>2, <2>4, <2>5 DEF Ends
<1>5. begun \in Works /\ begun.out = copied
  BY <1>3, WorkType DEF Works
<1> HIDE DEF begun
<1>6. "SBs_entered" \in Counters /\ clo_basic_counts \in BOOLEAN /\ 0 \in Marks
  BY DEF Counters, TypeOK, Marks
<1>7. Ends(m, clo_fnname, EmitIf(clo_basic_counts, begun, "count", "SBs_entered").out, 0,
           0 + Counts(m, <<"count", "SBs_entered">>))
  BY <1>4, <1>5, <1>6, EndsEmitIf DEF Kept
<1>8. 0 + Counts(m, <<"count", "SBs_entered">>) = Lead(m)
  <2>1. /\ m[1] \in {"truth", "ops"} /\ m = <<m[1], m[2]>>
        /\ m[1] = "truth" => m[2] \in Truths
    BY MeasureParts
  <2>2. CASE m[1] = "ops"
    BY <2>1, <2>2 DEF Counts, Lead
  <2>3. CASE m[1] = "truth"
    <3>1. Net(m[2], "SBs_entered") = IF m[2] = "abandoned" THEN 1 ELSE 0
      BY <2>1, <2>3 DEF Net, Truths
    <3>2. Counts(m, <<"count", "SBs_entered">>) = Net(m[2], "SBs_entered")
      BY <2>3 DEF Counts
    <3>3. Lead(m) = IF m[2] = "abandoned" THEN 1 ELSE 0
      BY <2>1, <2>3 DEF Lead
    <3> QED
      BY <3>1, <3>2, <3>3
  <2> QED
    BY <2>1, <2>2, <2>3
<1>9. /\ sbOut' = EmitIf(clo_basic_counts, begun, "count", "SBs_entered").out /\ iaddr' = 0
  BY DEF BeginBlock, begun, copied
<1> QED
  BY <1>7, <1>8, <1>9

\* The end of a translation: completed, and nothing ahead.
LEMMA EndBlockEnds ==
  ASSUME TypeOK, NEW m \in Measures, Kept(m), EndBlock,
         NEW x \in Marks, Ends(m, clo_fnname, sbOut, x, Lead(m))
  PROVE  Ends(m, clo_fnname, sbOut', x, 0)
<1> DEFINE w == EmitIf(clo_basic_counts, Work, "count", "SBs_completed")
           n == Lead(m) + Counts(m, <<"count", "SBs_completed">>)
<1>1. /\ "SBs_completed" \in Counters /\ clo_basic_counts \in BOOLEAN /\ Lead(m) \in Int
      /\ Work \in Works /\ Work.out = sbOut
  <2>1. "SBs_completed" \in Counters
    BY DEF Counters
  <2>2. clo_basic_counts \in BOOLEAN
    BY DEF TypeOK
  <2>3. Lead(m) \in Int
    BY MeasureParts
  <2>4. Work \in Works /\ Work.out = sbOut
    BY WorkType DEF Work
  <2> QED
    BY <2>1, <2>2, <2>3, <2>4
<1>2. w \in Works /\ Ends(m, clo_fnname, w.out, x, n)
  BY <1>1, EndsEmitIf DEF Kept
<1>3. n = 0
  <2>1. /\ m[1] \in {"truth", "ops"} /\ m = <<m[1], m[2]>>
        /\ m[1] = "truth" => m[2] \in Truths
    BY MeasureParts
  <2>2. CASE m[1] = "ops"
    BY <2>1, <2>2 DEF Counts, Lead
  <2>3. CASE m[1] = "truth"
    <3>1. Net(m[2], "SBs_completed") = IF m[2] = "abandoned" THEN 0 - 1 ELSE 0
      BY <2>1, <2>3 DEF Net, Truths
    <3>2. Counts(m, <<"count", "SBs_completed">>) = Net(m[2], "SBs_completed")
      BY <2>3 DEF Counts
    <3>3. Lead(m) = IF m[2] = "abandoned" THEN 1 ELSE 0
      BY <2>1, <2>3 DEF Lead
    <3> QED
      BY <3>1, <3>2, <3>3
  <2> QED
    BY <2>1, <2>2, <2>3
<1> HIDE DEF w, n
<1>4. Ends(m, clo_fnname, flushEvents(w).out, x, 0)
  BY <1>2, <1>3, EndsFlush
<1> QED
  BY <1>4 DEF EndBlock, EndOfBlock, w

-----------------------------------------------------------------------------
\* Between two steps: how a measure stands while md_instrument is at work,
\* while the translation runs, and otherwise.
Leading(m) ==
  \E x \in Marks : /\ Ends(m, clo_fnname, sbOut, x, Lead(m))
                   /\ m[1] = "truth" => x = iaddr /\ (pc = "instrument" => x # 0)
Running(m) ==
  \E h \in [1..(Len(sbOut) + 1) -> Marks], f \in [1..(Len(sbOut) + 1) -> Int] :
    /\ Trail(m, clo_fnname, sbOut, h, f) /\ f[Len(sbOut) + 1] = 0
    /\ at \in 1..(Len(sbOut) + 1) /\ h[at] = here /\ f[at] = Gap(m)
Resting(m) == \E x \in Marks : Ends(m, clo_fnname, sbOut, x, 0)

Balance(m) ==
  /\ pc \in {"first", "instrument"} => Leading(m) /\ Gap(m) = 0
  /\ pc \in {"run", "flush"} => Running(m)
  /\ pc \in {"options", "guest", "fini", "close", "ended"} => Resting(m) /\ Gap(m) = 0

\* Every measure is in balance until the tool dies, and its assertions hold.
BalanceInv ==
  /\ pc # "paranoid"
  /\ \A m \in Measures : Kept(m) \/ pc = "options" => Balance(m)
  /\ pc = "options" => sbOut = <<>> /\ truth["instrs"] = 0
  /\ (clo_basic_counts /\ pc \notin {"killed", "aborted"} /\ truth["instrs"] > 0) =>
       count["SBs_entered"] > 0

CInv == IInv /\ BalanceInv

\* A measure is a number.
LEMMA GapType ==
  ASSUME TypeOK, NEW m \in Measures
  PROVE  /\ Gap(m) \in Int
         /\ m[1] = "truth" => Figure(m[2]) \in Int /\ truth[m[2]] \in Nat
         /\ m[1] = "ops" => detailCounts[m[2]] \in Nat /\ ops[m[2]] \in Nat
<1>1. CASE m[1] = "truth"
  <2>1. \A c \in Counters : count[c] \in Nat
    BY DEF TypeOK
  <2>2. m[2] \in Truths
    BY <1>1, MeasureParts
  <2>3. Figure(m[2]) \in Int
    BY <2>1, <2>2 DEF Figure, Truths, total_Jccs, taken_Jccs, Counters
  <2>4. truth[m[2]] \in Nat
    BY <2>2 DEF TypeOK
  <2> QED
    BY <1>1, <2>3, <2>4 DEF Gap
<1>2. CASE m[1] = "ops"
  <2>1. m[2] \in Details
    BY <1>2, MeasureParts
  <2>2. detailCounts[m[2]] \in Nat /\ ops[m[2]] \in Nat
    BY <2>1 DEF TypeOK
  <2> QED
    BY <1>2, <2>2 DEF Gap
<1> QED
  BY <1>1, <1>2, MeasureParts

\* A measure depends on the counts, the truth and the operations only.
LEMMA GapKept ==
  ASSUME NEW m, UNCHANGED <<count, detailCounts, truth, ops>>
  PROVE  Gap(m)' = Gap(m)
  BY DEF Gap, Figure, total_Jccs, taken_Jccs

\* A run goes on with the next item.
LEMMA RunNext ==
  ASSUME TypeOK, NEW m \in Measures, Running(m), at <= Len(sbOut), UNCHANGED <<sbOut, clo_fnname>>,
         at' = at + 1, here' = Follow(sbOut[at], here),
         Gap(m)' = Gap(m) + Weight(m, clo_fnname, sbOut[at], here)
  PROVE  Running(m)'
<1>1. PICK h \in [1..(Len(sbOut) + 1) -> Marks], f \in [1..(Len(sbOut) + 1) -> Int] :
        /\ Trail(m, clo_fnname, sbOut, h, f) /\ f[Len(sbOut) + 1] = 0
        /\ at \in 1..(Len(sbOut) + 1) /\ h[at] = here /\ f[at] = Gap(m)
  BY DEF Running
<1>2. Len(sbOut) \in Nat /\ at \in 1..Len(sbOut) /\ at + 1 \in 1..(Len(sbOut) + 1)
  BY <1>1, LenProperties DEF TypeOK
<1>3. /\ h[at + 1] = Follow(sbOut[at], here)
      /\ f[at + 1] = Gap(m) + Weight(m, clo_fnname, sbOut[at], here)
  BY <1>1, <1>2 DEF Trail
<1>4. /\ Trail(m, clo_fnname', sbOut', h, f) /\ f[Len(sbOut') + 1] = 0
      /\ at' \in 1..(Len(sbOut') + 1) /\ h[at'] = here' /\ f[at'] = Gap(m)'
  BY <1>1, <1>2, <1>3 DEF Trail
<1>5. /\ h \in [1..(Len(sbOut') + 1) -> Marks] /\ f \in [1..(Len(sbOut') + 1) -> Int]
  OBVIOUS
<1> QED
  BY <1>4, <1>5 DEF Running

\* A statement that runs finds the counts as far ahead as it needs.
LEMMA RunGood ==
  ASSUME TypeOK, NEW m \in Measures, Running(m), at <= Len(sbOut)
  PROVE  Good(m, clo_fnname, sbOut[at], here, Gap(m))
<1>1. PICK h \in [1..(Len(sbOut) + 1) -> Marks], f \in [1..(Len(sbOut) + 1) -> Int] :
        /\ Trail(m, clo_fnname, sbOut, h, f)
        /\ at \in 1..(Len(sbOut) + 1) /\ h[at] = here /\ f[at] = Gap(m)
  BY DEF Running
<1>2. Len(sbOut) \in Nat /\ at \in 1..Len(sbOut)
  BY <1>1, LenProperties DEF TypeOK
<1> QED
  BY <1>1, <1>2 DEF Trail

\* The item that is due.
LEMMA DueParts ==
  ASSUME IInv, NEW kind, Due(kind)
  PROVE  /\ sbOut[at] \in Items /\ sbOut[at][1] = kind /\ sbOut[at][2] = Arg
         /\ at <= Len(sbOut) /\ pc = "run"
<1>1. at \in 1..Len(sbOut) /\ sbOut \in Seq(Items)
  BY LenProperties DEF IInv, TypeOK, Started, Due, Items
<1>2. sbOut[at] \in Items
  BY <1>1, ElementOfSeq
<1> QED
  BY <1>1, <1>2 DEF Due, Arg

\* A helper counts.
LEMMA CountMoves ==
  ASSUME IInv, RunCount, NEW m \in Measures, Running(m)
  PROVE  Running(m)'
<1>0. /\ TypeOK /\ Arg \in Counters /\ Due("count") /\ count' = [count EXCEPT ![Arg] = @ + 1]
      /\ UNCHANGED <<sbOut, clo_fnname, here, truth, ops, detailCounts>> /\ at' = at + 1
  BY DueItem DEF IInv, RunCount, cloVars, irVars, guestVars
<1>1. sbOut[at] \in Items /\ sbOut[at][1] = "count" /\ sbOut[at][2] = Arg /\ at <= Len(sbOut)
  BY <1>0, DueParts
<1>2. /\ Follow(sbOut[at], here) = here
      /\ Weight(m, clo_fnname, sbOut[at], here) = Counts(m, sbOut[at])
  BY <1>1 DEF Follow, Weight
<1>3. Gap(m)' = Gap(m) + Counts(m, sbOut[at])
  <2>1. CASE m[1] = "ops"
    <3>1. Counts(m, sbOut[at]) = 0
      BY <1>1, <2>1 DEF Counts
    <3>2. Gap(m)' = Gap(m)
      BY <1>0, <2>1 DEF Gap
    <3> QED
      BY <1>0, <3>1, <3>2, GapType
  <2>2. CASE m[1] = "truth"
    <3> DEFINE add(c) == IF c = Arg THEN 1 ELSE 0
    <3>1. ASSUME NEW c \in Counters
          PROVE  count[c] \in Nat /\ count'[c] = count[c] + add(c)
      BY <1>0 DEF TypeOK
    <3>2. /\ "Jccs" \in Counters /\ "IJccs" \in Counters /\ "Jccs_untaken" \in Counters
          /\ "IJccs_untaken" \in Counters /\ "SBs_entered" \in Counters
          /\ "SBs_completed" \in Counters /\ "guest_instrs" \in Counters
          /\ "func_calls" \in Counters /\ "IRStmts" \in Counters
      BY DEF Counters
    <3>3. m[2] \in Truths
      BY <2>2, MeasureParts
    <3>4. Figure(m[2])' = Figure(m[2]) + Net(m[2], Arg)
      <4>1. CASE m[2] = "branches"
        BY <3>1, <3>2, <4>1 DEF Figure, Net, total_Jccs
      <4>2. CASE m[2] = "taken"
        BY <3>1, <3>2, <4>2 DEF Figure, Net, taken_Jccs
      <4>3. CASE m[2] = "abandoned"
        BY <3>1, <3>2, <4>3 DEF Figure, Net
      <4>4. CASE m[2] \in {"instrs", "calls", "stmts"}
        BY <3>1, <3>2, <4>4 DEF Figure, Net
      <4> QED
        BY <3>3, <4>1, <4>2, <4>3, <4>4 DEF Truths
    <3>5. Counts(m, sbOut[at]) = Net(m[2], Arg) /\ Net(m[2], Arg) \in Int
      BY <1>1, <2>2, <3>3 DEF Counts, Net, Truths
    <3>6. Gap(m) = Figure(m[2]) - truth[m[2]] /\ Gap(m)' = Figure(m[2])' - truth[m[2]]
      BY <1>0, <2>2 DEF Gap
    <3> QED
      BY <1>0, <2>2, <3>4, <3>5, <3>6, GapType
  <2> QED
    BY <2>1, <2>2, MeasureParts
<1> QED
  BY <1>0, <1>1, <1>2, <1>3, RunNext

\* increment_detail.
LEMMA DetailMoves ==
  ASSUME IInv, RunDetail, NEW m \in Measures, Running(m)
  PROVE  Running(m)'
<1>0. /\ TypeOK /\ Arg \in Details /\ Due("detail")
      /\ detailCounts' = [detailCounts EXCEPT ![Arg] = @ + 1]
      /\ UNCHANGED <<sbOut, clo_fnname, here, truth, ops, count>> /\ at' = at + 1
  BY DueItem DEF IInv, RunDetail, cloVars, irVars, guestVars
<1>1. sbOut[at] \in Items /\ sbOut[at][1] = "detail" /\ sbOut[at][2] = Arg /\ at <= Len(sbOut)
  BY <1>0, DueParts
<1>2. /\ Follow(sbOut[at], here) = here
      /\ Weight(m, clo_fnname, sbOut[at], here) = Counts(m, sbOut[at])
  BY <1>1 DEF Follow, Weight
<1>3. Gap(m)' = Gap(m) + Counts(m, sbOut[at])
  <2>1. CASE m[1] = "truth"
    <3>1. Counts(m, sbOut[at]) = 0
      BY <1>1, <2>1 DEF Counts
    <3>2. Gap(m)' = Gap(m)
      BY <1>0, <2>1 DEF Gap, Figure, total_Jccs, taken_Jccs
    <3> QED
      BY <1>0, <3>1, <3>2, GapType
  <2>2. CASE m[1] = "ops"
    <3>1. m[2] \in Details /\ detailCounts \in [Details -> Nat]
      BY <1>0, <2>2, MeasureParts DEF TypeOK
    <3>2. detailCounts'[m[2]] = detailCounts[m[2]] + (IF Arg = m[2] THEN 1 ELSE 0)
      BY <1>0, <3>1
    <3>3. Counts(m, sbOut[at]) = IF Arg = m[2] THEN 1 ELSE 0
      BY <1>1, <2>2 DEF Counts
    <3>4. /\ Gap(m) = detailCounts[m[2]] - ops[m[2]]
          /\ Gap(m)' = detailCounts'[m[2]] - ops[m[2]]
      BY <1>0, <2>2 DEF Gap
    <3> QED
      BY <1>0, <2>2, <3>2, <3>3, <3>4, GapType
  <2> QED
    BY <2>1, <2>2, MeasureParts
<1> QED
  BY <1>0, <1>1, <1>2, <1>3, RunNext

\* A record that is stored counts for nothing.
LEMMA TraceMoves ==
  ASSUME IInv, RunTrace, NEW m \in Measures, Running(m)
  PROVE  Running(m)'
<1>0. /\ TypeOK /\ Due("trace") /\ at' = at + 1
      /\ UNCHANGED <<sbOut, clo_fnname, here, truth, ops, count, detailCounts>>
  BY DEF IInv, RunTrace, cloVars, irVars, countVars, guestVars
<1>1. sbOut[at] \in Items /\ sbOut[at][1] = "trace" /\ at <= Len(sbOut)
  BY <1>0, DueParts
<1>2. /\ Follow(sbOut[at], here) = here
      /\ Weight(m, clo_fnname, sbOut[at], here) = Counts(m, sbOut[at])
      /\ Counts(m, sbOut[at]) = 0
  BY <1>1 DEF Follow, Weight, Counts
<1>3. Gap(m)' = Gap(m) /\ Gap(m) \in Int
  BY <1>0, GapKept, GapType
<1>4. Gap(m)' = Gap(m) + Weight(m, clo_fnname, sbOut[at], here)
  BY <1>2, <1>3
<1> QED
  BY <1>0, <1>1, <1>2, <1>4, RunNext

\* What a statement or an exit adds to the truth is what the trail says.
LEMMA AddsDone ==
  ASSUME NEW t, NEW st
  PROVE  /\ Adds(t, st) = StmtAdds(t, clo_fnname, st, here)
         /\ Branch(t, st, TRUE) = ExitAdds(t, st, here, TRUE)
         /\ Branch(t, st, FALSE) = ExitAdds(t, st, here, FALSE)
<1>1. Adds(t, st) = StmtAdds(t, clo_fnname, st, here)
  BY DEF Adds, StmtAdds
<1> QED
  BY <1>1 DEF Branch, ExitAdds

\* Work that is done takes from the lead.
LEMMA GapDone ==
  ASSUME TypeOK, NEW m \in Measures, UNCHANGED <<count, detailCounts>>, NEW n \in Int,
         m[1] = "truth" => truth'[m[2]] = truth[m[2]] + n,
         m[1] = "ops" => ops'[m[2]] = ops[m[2]] + n
  PROVE  Gap(m)' = Gap(m) - n
<1>1. CASE m[1] = "truth"
  <2>1. /\ Gap(m) = Figure(m[2]) - truth[m[2]] /\ Gap(m)' = Figure(m[2])' - truth'[m[2]]
    BY <1>1 DEF Gap
  <2>2. Figure(m[2])' = Figure(m[2])
    BY DEF Figure, total_Jccs, taken_Jccs
  <2>3. Figure(m[2]) \in Int /\ truth[m[2]] \in Nat
    BY <1>1, GapType
  <2> HIDE DEF Figure
  <2> QED
    BY <1>1, <2>1, <2>2, <2>3
<1>2. CASE m[1] = "ops"
  <2>1. /\ Gap(m) = detailCounts[m[2]] - ops[m[2]]
        /\ Gap(m)' = detailCounts[m[2]] - ops'[m[2]]
    BY <1>2 DEF Gap
  <2>2. detailCounts[m[2]] \in Nat /\ ops[m[2]] \in Nat
    BY <1>2, GapType
  <2> QED
    BY <1>2, <2>1, <2>2
<1> QED
  BY <1>1, <1>2, MeasureParts

\* The operations that are tried.
LEMMA TriedDone ==
  ASSUME NEW d \in Details, NEW st, ops' = TriedOps(st)
  PROVE  ops'[d] = ops[d] + OpsOf(d, st)
  BY DEF TriedOps, OpsOf

\* A statement of the guest program.
LEMMA StatementMoves ==
  ASSUME IInv, RunStatement, NEW m \in Measures, Running(m)
  PROVE  Running(m)'
<1>0. /\ TypeOK /\ Due("stmt") /\ at' = at + 1 /\ Arg.tag # "Exit"
      /\ here' = (IF Arg.tag = "IMark" THEN Arg.addr ELSE here)
      /\ truth' = [t \in Truths |-> truth[t] + Adds(t, Arg)] /\ ops' = TriedOps(Arg)
      /\ UNCHANGED <<sbOut, clo_fnname, count, detailCounts>>
  BY DEF IInv, RunStatement, cloVars, irVars, countVars
<1>1. sbOut[at] \in Items /\ sbOut[at][1] = "stmt" /\ sbOut[at][2] = Arg /\ at <= Len(sbOut)
  BY <1>0, DueParts
<1>2. here' = Follow(sbOut[at], here)
  BY <1>0, <1>1 DEF Follow
<1> DEFINE n == Does(m, clo_fnname, Arg, here)
<1>3. n \in Int /\ Gap(m) \in Int
  BY <1>0, DoesType, GapType
<1>4. m[1] = "truth" => truth'[m[2]] = truth[m[2]] + n
  <2> SUFFICES ASSUME m[1] = "truth"
               PROVE  truth'[m[2]] = truth[m[2]] + n
    OBVIOUS
  <2>1. m[2] \in Truths
    BY MeasureParts
  <2>2. n = Adds(m[2], Arg)
    BY <1>0, AddsDone DEF Does
  <2> QED
    BY <1>0, <2>1, <2>2
<1>5. m[1] = "ops" => ops'[m[2]] = ops[m[2]] + n
  <2> SUFFICES ASSUME m[1] = "ops"
               PROVE  ops'[m[2]] = ops[m[2]] + n
    OBVIOUS
  <2>1. m[2] \in Details
    BY MeasureParts
  <2>2. n = OpsOf(m[2], Arg)
    BY DEF Does
  <2> QED
    BY <1>0, <2>1, <2>2, TriedDone
<1>6. Weight(m, clo_fnname, sbOut[at], here) = 0 - n
  BY <1>1 DEF Weight
<1> HIDE DEF n
<1>7. Gap(m)' = Gap(m) - n
  BY <1>0, <1>3, <1>4, <1>5, GapDone
<1>8. Gap(m)' = Gap(m) + Weight(m, clo_fnname, sbOut[at], here)
  BY <1>3, <1>6, <1>7
<1> QED
  BY <1>0, <1>1, <1>2, <1>8, RunNext

\* A side exit that is not taken.
LEMMA UntakenMoves ==
  ASSUME IInv, RunExitUntaken, NEW m \in Measures, Running(m)
  PROVE  Running(m)'
<1>0. /\ TypeOK /\ Due("stmt") /\ at' = at + 1 /\ Arg.tag = "Exit"
      /\ truth' = [t \in Truths |-> truth[t] + Branch(t, Arg, FALSE)]
      /\ UNCHANGED <<sbOut, clo_fnname, count, detailCounts, here, ops>>
  BY DEF IInv, RunExitUntaken, cloVars, irVars, countVars
<1>1. sbOut[at] \in Items /\ sbOut[at][1] = "stmt" /\ sbOut[at][2] = Arg /\ at <= Len(sbOut)
  BY <1>0, DueParts
<1>2. here' = Follow(sbOut[at], here)
  BY <1>0, <1>1 DEF Follow
<1> DEFINE n == Does(m, clo_fnname, Arg, here)
<1>3. n \in Int /\ Gap(m) \in Int
  BY <1>0, DoesType, GapType
<1>4. m[1] = "truth" => truth'[m[2]] = truth[m[2]] + n
  <2> SUFFICES ASSUME m[1] = "truth"
               PROVE  truth'[m[2]] = truth[m[2]] + n
    OBVIOUS
  <2>1. m[2] \in Truths
    BY MeasureParts
  <2>2. n = Branch(m[2], Arg, FALSE)
    BY <1>0, AddsDone DEF Does
  <2> QED
    BY <1>0, <2>1, <2>2
<1>5. m[1] = "ops" => ops'[m[2]] = ops[m[2]] + n
  <2> SUFFICES ASSUME m[1] = "ops"
               PROVE  ops'[m[2]] = ops[m[2]] + n
    OBVIOUS
  <2>1. m[2] \in Details /\ ops[m[2]] \in Nat
    BY MeasureParts, <1>0, GapType
  <2>2. Operations(m[2][1], Arg) = 0
    BY <1>0 DEF Operations
  <2>3. n = 0
    BY <2>2 DEF Does, OpsOf
  <2> QED
    BY <1>0, <2>1, <2>3
<1>6. Weight(m, clo_fnname, sbOut[at], here) = 0 - n
  BY <1>1 DEF Weight
<1> HIDE DEF n
<1>7. Gap(m)' = Gap(m) - n
  BY <1>0, <1>3, <1>4, <1>5, GapDone
<1>8. Gap(m)' = Gap(m) + Weight(m, clo_fnname, sbOut[at], here)
  BY <1>3, <1>6, <1>7
<1> QED
  BY <1>0, <1>1, <1>2, <1>8, RunNext

\* A translation that was run is still one.
LEMMA StillResting ==
  ASSUME TypeOK, NEW m, Running(m), UNCHANGED <<sbOut, clo_fnname>>
  PROVE  Resting(m)'
<1>1. PICK h \in [1..(Len(sbOut) + 1) -> Marks], f \in [1..(Len(sbOut) + 1) -> Int] :
        /\ Trail(m, clo_fnname, sbOut, h, f) /\ f[Len(sbOut) + 1] = 0
  BY DEF Running
<1>2. Len(sbOut) + 1 \in 1..(Len(sbOut) + 1)
  BY LenProperties DEF TypeOK
<1>3. h[Len(sbOut) + 1] \in Marks
  BY <1>2
<1> QED
  BY <1>1, <1>3 DEF Resting, Ends

\* A run that is left by a statement or an exit was as far ahead as that takes.
LEMMA LeftBalanced ==
  ASSUME IInv, Due("stmt"), Arg.tag \in DataTags \cup {"Exit"}, NEW m \in Measures, Running(m),
         UNCHANGED <<sbOut, clo_fnname, count, detailCounts>>,
         m[1] = "truth" => truth'[m[2]] = truth[m[2]] + Ahead(m, clo_fnname, Arg, here),
         m[1] = "ops" => ops'[m[2]] = ops[m[2]] + OpsOf(m[2], Arg)
  PROVE  Resting(m)' /\ Gap(m)' = 0
<1>0. TypeOK
  BY DEF IInv
<1>1. sbOut[at][1] = "stmt" /\ sbOut[at][2] = Arg /\ at <= Len(sbOut)
  BY DueParts
<1>2. Good(m, clo_fnname, sbOut[at], here, Gap(m))
  BY <1>0, <1>1, RunGood
<1>3. Gap(m) = Ahead(m, clo_fnname, Arg, here)
  BY <1>1, <1>2 DEF Good
<1>4. m[1] = "ops" => Ahead(m, clo_fnname, Arg, here) = OpsOf(m[2], Arg)
  BY DEF Ahead
<1>5. Gap(m) \in Int
  BY <1>0, GapType
<1>6. Gap(m)' = Gap(m) - Gap(m)
  BY <1>0, <1>3, <1>4, <1>5, GapDone
<1>7. Gap(m)' = 0
  BY <1>5, <1>6
<1> QED
  BY <1>0, <1>7, StillResting

\* A fault.
LEMMA FaultBalanced ==
  ASSUME IInv, RunFault, NEW m \in Measures, Running(m)
  PROVE  Resting(m)' /\ Gap(m)' = 0
<1> DEFINE counted == [t \in Truths |-> IF t = "abandoned" THEN 1 ELSE Adds(t, Arg)]
<1>0. /\ Due("stmt") /\ Arg.tag \in DataTags /\ ops' = TriedOps(Arg)
      /\ truth' = [t \in Truths |-> truth[t] + counted[t]]
      /\ UNCHANGED <<sbOut, clo_fnname, count, detailCounts>>
  BY DEF RunFault, Leave, cloVars, irVars, countVars
<1>1. m[1] = "truth" => truth'[m[2]] = truth[m[2]] + Ahead(m, clo_fnname, Arg, here)
  <2> SUFFICES ASSUME m[1] = "truth"
               PROVE  truth'[m[2]] = truth[m[2]] + Ahead(m, clo_fnname, Arg, here)
    OBVIOUS
  <2>1. m[2] \in Truths
    BY MeasureParts
  <2>2. Arg.tag # "Exit"
    BY <1>0 DEF DataTags
  <2>3. Ahead(m, clo_fnname, Arg, here) = IF m[2] = "abandoned" THEN 1 ELSE Adds(m[2], Arg)
    BY <2>2, AddsDone DEF Ahead
  <2>4. counted[m[2]] = Ahead(m, clo_fnname, Arg, here)
    BY <2>1, <2>3
  <2> HIDE DEF counted
  <2> QED
    BY <1>0, <2>1, <2>4
<1>2. m[1] = "ops" => ops'[m[2]] = ops[m[2]] + OpsOf(m[2], Arg)
  BY <1>0, MeasureParts, TriedDone
<1> QED
  BY <1>0, <1>1, <1>2, LeftBalanced

\* A side exit that is taken.
LEMMA TakenBalanced ==
  ASSUME IInv, RunExitTaken, NEW m \in Measures, Running(m)
  PROVE  Resting(m)' /\ Gap(m)' = 0
<1> DEFINE counted == [t \in Truths |-> Branch(t, Arg, TRUE)]
<1>0. /\ Due("stmt") /\ Arg.tag = "Exit" /\ ops' = ops
      /\ truth' = [t \in Truths |-> truth[t] + counted[t]]
      /\ UNCHANGED <<sbOut, clo_fnname, count, detailCounts>>
  BY DEF RunExitTaken, Leave, cloVars, irVars, countVars
<1>1. m[1] = "truth" => truth'[m[2]] = truth[m[2]] + Ahead(m, clo_fnname, Arg, here)
  <2> SUFFICES ASSUME m[1] = "truth"
               PROVE  truth'[m[2]] = truth[m[2]] + Ahead(m, clo_fnname, Arg, here)
    OBVIOUS
  <2>1. m[2] \in Truths
    BY MeasureParts
  <2>2. Ahead(m, clo_fnname, Arg, here) = Branch(m[2], Arg, TRUE)
    BY <1>0, AddsDone DEF Ahead
  <2>3. counted[m[2]] = Ahead(m, clo_fnname, Arg, here)
    BY <2>1, <2>2
  <2> HIDE DEF counted
  <2> QED
    BY <1>0, <2>1, <2>3
<1>2. m[1] = "ops" => ops'[m[2]] = ops[m[2]] + OpsOf(m[2], Arg)
  <2>1. Operations(m[2][1], Arg) = 0
    BY <1>0 DEF Operations
  <2>2. OpsOf(m[2], Arg) = 0
    BY <2>1 DEF OpsOf
  <2> QED
    BY <1>0, <2>2, GapType DEF IInv
<1> QED
  BY <1>0, <1>1, <1>2, LeftBalanced

\* The end of a translation.
LEMMA EndBalanced ==
  ASSUME IInv, EndRun, NEW m \in Measures, Running(m)
  PROVE  Resting(m)' /\ Gap(m)' = 0
<1> DEFINE counted == [t \in Truths |-> 0]
<1>0. /\ TypeOK /\ at > Len(sbOut) /\ ops' = ops
      /\ truth' = [t \in Truths |-> truth[t] + counted[t]]
      /\ UNCHANGED <<sbOut, clo_fnname, count, detailCounts>>
  BY DEF IInv, EndRun, Leave, cloVars, irVars, countVars
<1>1. PICK h \in [1..(Len(sbOut) + 1) -> Marks], f \in [1..(Len(sbOut) + 1) -> Int] :
        /\ f[Len(sbOut) + 1] = 0 /\ at \in 1..(Len(sbOut) + 1) /\ f[at] = Gap(m)
  BY DEF Running
<1>2. at = Len(sbOut) + 1
  BY <1>0, <1>1, LenProperties DEF TypeOK
<1>3. m[1] = "truth" => truth'[m[2]] = truth[m[2]] + 0
  BY <1>0, MeasureParts
<1>4. m[1] = "ops" => ops'[m[2]] = ops[m[2]] + 0
  BY <1>0, GapType
<1> HIDE DEF counted
<1>5. Gap(m)' = Gap(m) - 0
  BY <1>0, <1>3, <1>4, GapDone
<1>6. Gap(m)' = 0
  BY <1>1, <1>2, <1>5
<1> QED
  BY <1>0, <1>6, StillResting

\* A run starts with nothing ahead.
LEMMA BeginRunning ==
  ASSUME IInv, BeginRun, NEW m \in Measures, Resting(m), Gap(m) = 0
  PROVE  Running(m)'
<1>0. /\ TypeOK /\ at' = 1 /\ here' = 0
      /\ UNCHANGED <<sbOut, clo_fnname, count, detailCounts, truth, ops>>
  BY DEF IInv, BeginRun, cloVars, irVars, countVars
<1>1. PICK h \in [1..(Len(sbOut) + 1) -> Marks], f \in [1..(Len(sbOut) + 1) -> Int] :
        Trail(m, clo_fnname, sbOut, h, f) /\ f[Len(sbOut) + 1] = 0
  BY DEF Resting, Ends
<1>2. h[1] = 0 /\ f[1] = 0
  BY <1>1 DEF Trail
<1>3. Gap(m)' = 0
  BY <1>0, GapKept
<1>4. 1 \in 1..(Len(sbOut) + 1)
  BY <1>0, LenProperties DEF TypeOK
<1>5. /\ Trail(m, clo_fnname', sbOut', h, f) /\ f[Len(sbOut') + 1] = 0
      /\ at' \in 1..(Len(sbOut') + 1) /\ h[at'] = here' /\ f[at'] = Gap(m)'
      /\ h \in [1..(Len(sbOut') + 1) -> Marks] /\ f \in [1..(Len(sbOut') + 1) -> Int]
  BY <1>0, <1>1, <1>2, <1>3, <1>4
<1> QED
  BY <1>5 DEF Running

\* There is nothing in an empty translation.
LEMMA EndsEmpty == \A m, fn : Ends(m, fn, <<>>, 0, 0)
<1> SUFFICES ASSUME NEW m, NEW fn
             PROVE  Ends(m, fn, <<>>, 0, 0)
  OBVIOUS
<1>1. PICK h : h = [i \in 1..1 |-> 0]
  OBVIOUS
<1>2. Len(<<>>) = 0 /\ 1..(Len(<<>>) + 1) = 1..1 /\ 1..Len(<<>>) = {}
  BY EmptySeq
<1>3. h \in [1..(Len(<<>>) + 1) -> Marks] /\ h \in [1..(Len(<<>>) + 1) -> Int]
      /\ h[1] = 0 /\ h[Len(<<>>) + 1] = 0
  BY <1>1, <1>2 DEF Marks
<1>4. Trail(m, fn, <<>>, h, h)
  BY <1>2, <1>3 DEF Trail
<1> QED
  BY <1>3, <1>4 DEF Ends

\* A step of md_instrument keeps a measure in balance.
LEMMA TranslateBalance ==
  ASSUME CInv, Translate, NEW m \in Measures, Kept(m)
  PROVE  Balance(m)' /\ UNCHANGED <<clo_basic_counts, truth, count>>
         /\ pc # "options" /\ pc' \in {"guest", "first", "instrument"}
<1>0. TypeOK /\ (pc \in {"guest", "first", "instrument"} => Balance(m))
  BY DEF CInv, IInv, BalanceInv
<1>1. ASSUME NEW preamble \in Preambles, BeginBlock(preamble)
      PROVE  Balance(m)' /\ UNCHANGED <<clo_basic_counts, truth, count>>
             /\ pc = "guest" /\ pc' = "first"
  <2>1. /\ pc = "guest" /\ pc' = "first"
        /\ UNCHANGED <<clo_basic_counts, clo_fnname, count, detailCounts, truth, ops>>
    BY <1>1 DEF BeginBlock, cloVars, countVars, guestVars
  <2>2. Gap(m) = 0
    BY <1>0, <2>1 DEF Balance
  <2>3. Gap(m)' = 0
    BY <2>1, <2>2, GapKept
  <2>4. Ends(m, clo_fnname', sbOut', 0, Lead(m)) /\ iaddr' = 0 /\ 0 \in Marks
    BY <1>0, <1>1, <2>1, BeginEnds DEF Marks
  <2>5. Leading(m)'
    BY <2>1, <2>4 DEF Leading
  <2> QED
    BY <2>1, <2>3, <2>5 DEF Balance
<1>2. ASSUME NEW st \in IRStmts, Instrument(st)
      PROVE  Balance(m)' /\ UNCHANGED <<clo_basic_counts, truth, count>>
             /\ pc \in {"first", "instrument"} /\ pc' = "instrument"
  <2>1. PICK before, after : Turn(before, st, after)
    BY <1>2 DEF Instrument, InstrumentOther, InstrumentAlu, InstrumentIMark, InstrumentLoad,
                InstrumentStore, InstrumentDirty, InstrumentCAS, InstrumentLL, InstrumentSC,
                InstrumentExit
  <2>2. /\ pc = "instrument" \/ (pc = "first" /\ st.tag = "IMark")
        /\ pc' = "instrument"
        /\ UNCHANGED <<clo_basic_counts, clo_fnname, count, detailCounts, truth, ops>>
    BY <2>1 DEF Turn, cloVars, countVars, guestVars
  <2>3. Leading(m) /\ Gap(m) = 0
    BY <1>0, <2>2 DEF Balance
  <2>4. Gap(m)' = 0
    BY <2>2, <2>3, GapKept
  <2>5. PICK x \in Marks : /\ Ends(m, clo_fnname, sbOut, x, Lead(m))
                           /\ m[1] = "truth" => x = iaddr /\ (pc = "instrument" => x # 0)
    BY <2>3 DEF Leading
  <2>6. \E y \in Marks : /\ Ends(m, clo_fnname, sbOut', y, Lead(m))
                         /\ m[1] = "truth" => y = iaddr' /\ y # 0
    <3>1. CASE st.tag = "IMark"
      <4>1. InstrumentIMark(st)
        BY <1>2, <3>1 DEF Instrument, InstrumentOther, InstrumentAlu, InstrumentLoad,
           InstrumentStore, InstrumentDirty, InstrumentCAS, InstrumentLL, InstrumentSC,
           InstrumentExit
      <4> QED
        BY <1>0, <2>5, <4>1, IMarkEnds
    <3>2. CASE st.tag = "Exit"
      <4>1. InstrumentExit(st)
        BY <1>2, <3>2 DEF Instrument, InstrumentOther, InstrumentAlu, InstrumentLoad,
           InstrumentStore, InstrumentDirty, InstrumentCAS, InstrumentLL, InstrumentSC,
           InstrumentIMark
      <4>2. pc = "instrument"
        BY <2>2, <3>2
      <4> QED
        BY <1>0, <2>5, <4>1, <4>2, ExitEnds
    <3>3. CASE st.tag \notin {"IMark", "Exit"}
      <4>1. pc = "instrument"
        BY <2>2, <3>3
      <4> QED
        BY <1>0, <1>2, <2>5, <3>3, <4>1, PlainEnds
    <3> QED
      BY <3>1, <3>2, <3>3
  <2>7. Leading(m)'
    BY <2>2, <2>6 DEF Leading
  <2> QED
    BY <2>2, <2>4, <2>7 DEF Balance
<1>3. ASSUME EndBlock
      PROVE  Balance(m)' /\ UNCHANGED <<clo_basic_counts, truth, count>>
             /\ pc = "instrument" /\ pc' = "guest"
  <2>1. /\ pc = "instrument" /\ pc' = "guest"
        /\ UNCHANGED <<clo_basic_counts, clo_fnname, count, detailCounts, truth, ops>>
    BY <1>3 DEF EndBlock, cloVars, countVars, guestVars
  <2>2. Leading(m) /\ Gap(m) = 0
    BY <1>0, <2>1 DEF Balance
  <2>3. Gap(m)' = 0
    BY <2>1, <2>2, GapKept
  <2>4. PICK x \in Marks : Ends(m, clo_fnname, sbOut, x, Lead(m))
    BY <2>2 DEF Leading
  <2>5. Ends(m, clo_fnname', sbOut', x, 0)
    BY <1>0, <1>3, <2>1, <2>4, EndBlockEnds
  <2>6. Resting(m)'
    BY <2>5 DEF Resting
  <2> QED
    BY <2>1, <2>3, <2>6 DEF Balance
<1> QED
  BY <1>1, <1>2, <1>3 DEF Translate

\* So does a step of a run.
LEMMA RunBalance ==
  ASSUME CInv, Run, NEW m \in Measures, Kept(m)
  PROVE  Balance(m)'
<1>0. /\ IInv /\ TypeOK /\ Balance(m) /\ pc \in {"guest", "run", "flush", "fini"}
      /\ UNCHANGED <<clo_basic_counts, clo_fnname, sbOut>>
  <2>1. /\ UNCHANGED <<clo_basic_counts, clo_fnname, sbOut>>
        /\ pc \in {"guest", "run", "flush", "fini"}
    BY DEF Run, BeginRun, RunCount, RunDetail, RunTrace, RunStatement, RunFault, RunExitTaken,
           RunExitUntaken, EndRun, EmptyBuffer, Leave, Due, cloVars, irVars
  <2> QED
    BY <2>1 DEF CInv, IInv, BalanceInv
<1>1. CASE BeginRun
  <2>1. pc = "guest" /\ pc' = "run"
    BY <1>1 DEF BeginRun
  <2>2. Resting(m) /\ Gap(m) = 0
    BY <1>0, <2>1 DEF Balance
  <2> QED
    BY <1>0, <1>1, <2>1, <2>2, BeginRunning DEF Balance
<1>2. CASE RunCount \/ RunDetail \/ RunTrace \/ RunStatement \/ RunExitUntaken
  <2>1. pc = "run" /\ pc' \in {"run", "flush"}
    BY <1>2 DEF RunCount, RunDetail, RunTrace, RunStatement, RunExitUntaken, Due
  <2>2. Running(m)
    BY <1>0, <2>1 DEF Balance
  <2>3. Running(m)'
    BY <1>0, <1>2, <2>2, CountMoves, DetailMoves, TraceMoves, StatementMoves, UntakenMoves
  <2> QED
    BY <2>1, <2>3 DEF Balance
<1>3. CASE RunFault \/ RunExitTaken \/ EndRun
  <2>1. pc = "run" /\ pc' = "guest"
    BY <1>3 DEF RunFault, RunExitTaken, EndRun, Leave, Due
  <2>2. Running(m)
    BY <1>0, <2>1 DEF Balance
  <2>3. Resting(m)' /\ Gap(m)' = 0
    BY <1>0, <1>3, <2>2, FaultBalanced, TakenBalanced, EndBalanced
  <2> QED
    BY <2>1, <2>3 DEF Balance
<1>4. ASSUME NEW sized \in SizeWrites, NEW written \in BOOLEAN, EmptyBuffer(sized, written)
      PROVE  Balance(m)'
  <2>1. /\ pc \in {"flush", "fini"}
        /\ pc' = (IF ~written THEN "aborted" ELSE IF pc = "flush" THEN "run" ELSE "close")
        /\ UNCHANGED <<at, here, count, detailCounts, truth, ops>>
    BY <1>4 DEF EmptyBuffer, countVars, guestVars
  <2>2. Gap(m)' = Gap(m)
    BY <2>1, GapKept
  <2>3. CASE pc = "flush"
    <3>1. Running(m)
      BY <1>0, <2>3 DEF Balance
    <3>2. Running(m)'
      BY <1>0, <2>1, <2>2, <3>1 DEF Running
    <3> QED
      BY <2>1, <2>3, <3>2 DEF Balance
  <2>4. CASE pc = "fini"
    <3>1. Resting(m) /\ Gap(m) = 0
      BY <1>0, <2>4 DEF Balance
    <3>2. Resting(m)'
      BY <1>0, <3>1 DEF Resting
    <3> QED
      BY <2>1, <2>2, <2>4, <3>1, <3>2 DEF Balance
  <2> QED
    BY <2>1, <2>3, <2>4
<1> QED
  BY <1>1, <1>2, <1>3, <1>4 DEF Run

\* No guest instruction runs before its superblock is counted as entered.
LEMMA EnteredStep ==
  ASSUME CInv, Run, clo_basic_counts, truth'["instrs"] > 0, pc' # "aborted"
  PROVE  count'["SBs_entered"] > 0
<1>0. /\ IInv /\ TypeOK /\ pc \in {"guest", "run", "flush", "fini"}
      /\ truth["instrs"] \in Nat /\ count["SBs_entered"] \in Nat
      /\ truth["instrs"] > 0 => count["SBs_entered"] > 0
  <2>1. pc \in {"guest", "run", "flush", "fini"}
    BY DEF Run, BeginRun, RunCount, RunDetail, RunTrace, RunStatement, RunFault, RunExitTaken,
           RunExitUntaken, EndRun, EmptyBuffer, Leave, Due
  <2> QED
    BY <2>1 DEF CInv, IInv, BalanceInv, TypeOK, Truths, Counters
<1>1. CASE RunCount
  <2>1. truth' = truth /\ Arg \in Counters /\ count' = [count EXCEPT ![Arg] = @ + 1]
    BY <1>0, <1>1, DueItem DEF RunCount, guestVars
  <2>2. count'["SBs_entered"] \in {count["SBs_entered"], count["SBs_entered"] + 1}
    BY <1>0, <2>1 DEF TypeOK, Counters
  <2> QED
    BY <1>0, <2>1, <2>2
<1>2. CASE RunStatement
  <2>1. /\ truth'["instrs"] = truth["instrs"] + Adds("instrs", Arg) /\ count' = count
        /\ Due("stmt")
    BY <1>2 DEF RunStatement, countVars, Truths
  <2>2. CASE Arg.tag = "IMark"
    <3> DEFINE m == <<"truth", "abandoned">>
    <3>1. m \in Measures /\ m[1] = "truth" /\ m[2] = "abandoned" /\ Kept(m) /\ pc = "run"
      BY <2>1 DEF Measures, Truths, Kept, Due
    <3>2. Running(m)
      BY <3>1 DEF CInv, BalanceInv, Balance
    <3>3. sbOut[at][1] = "stmt" /\ sbOut[at][2] = Arg /\ at <= Len(sbOut)
      BY <1>0, <2>1, DueParts
    <3>4. Good(m, clo_fnname, sbOut[at], here, Gap(m))
      BY <1>0, <3>1, <3>2, <3>3, RunGood
    <3>5. Gap(m) = Ahead(m, clo_fnname, Arg, here)
      BY <2>2, <3>3, <3>4 DEF Good
    <3>6. Gap(m) = 1
      BY <2>2, <3>1, <3>5 DEF Ahead
    <3>7. (count["SBs_entered"] - count["SBs_completed"]) - truth["abandoned"] = 1
      BY <3>1, <3>6 DEF Gap, Figure
    <3>8. count["SBs_completed"] \in Nat /\ truth["abandoned"] \in Nat
      BY <1>0 DEF TypeOK, Counters, Truths
    <3> QED
      BY <1>0, <2>1, <3>7, <3>8
  <2>3. CASE Arg.tag # "IMark"
    <3>1. Adds("instrs", Arg) = 0
      BY <2>3 DEF Adds
    <3> QED
      BY <1>0, <2>1, <3>1
  <2> QED
    BY <2>2, <2>3
<1>3. CASE RunFault
  <2>1. /\ Arg.tag \in DataTags /\ count' = count
        /\ truth'["instrs"] = truth["instrs"] + Adds("instrs", Arg)
    BY <1>3 DEF RunFault, Leave, countVars, Truths
  <2>2. Adds("instrs", Arg) = 0
    BY <2>1 DEF Adds, DataTags
  <2> QED
    BY <1>0, <2>1, <2>2
<1>4. CASE RunExitTaken \/ RunExitUntaken
  <2>1. Branch("instrs", Arg, TRUE) = 0 /\ Branch("instrs", Arg, FALSE) = 0
    BY DEF Branch
  <2>2. count' = count
    BY <1>4 DEF RunExitTaken, RunExitUntaken, Leave, countVars
  <2>3. \/ truth'["instrs"] = truth["instrs"] + Branch("instrs", Arg, TRUE)
        \/ truth'["instrs"] = truth["instrs"] + Branch("instrs", Arg, FALSE)
    BY <1>4 DEF RunExitTaken, RunExitUntaken, Leave, Truths
  <2>4. truth'["instrs"] = truth["instrs"] + 0
    BY <2>1, <2>3, Zenon
  <2> QED
    BY <1>0, <2>2, <2>4
<1>5. CASE \/ BeginRun \/ RunDetail \/ RunTrace \/ EndRun
           \/ \E sized \in SizeWrites, written \in BOOLEAN : EmptyBuffer(sized, written)
  <2>1. count' = count
    BY <1>5 DEF BeginRun, RunDetail, RunTrace, EndRun, EmptyBuffer, Leave, countVars
  <2>2. truth'["instrs"] \in {truth["instrs"], truth["instrs"] + 0}
    BY <1>5 DEF BeginRun, RunDetail, RunTrace, EndRun, EmptyBuffer, Leave, guestVars, Truths
  <2> QED
    BY <1>0, <2>1, <2>2
<1> QED
  BY <1>1, <1>2, <1>3, <1>4, <1>5 DEF Run

\* Every step keeps the measures in balance.
LEMMA BalanceStep == CInv /\ [Next]_vars => BalanceInv'
<1> SUFFICES ASSUME CInv, [Next]_vars
             PROVE  BalanceInv'
  OBVIOUS
<1>0. IInv /\ TypeOK /\ BalanceInv
  BY DEF CInv, IInv
<1>1. CASE CommandLine
  <2>1. /\ pc = "options" /\ sbOut = <<>> /\ truth["instrs"] = 0
        /\ \A m \in Measures : Gap(m) = 0 /\ Resting(m)
    BY <1>0, <1>1 DEF CommandLine, OptionName, OptionBasicCounts, PostCloInit, BalanceInv,
       Balance
  <2>2. /\ UNCHANGED <<sbOut, count, detailCounts, truth, ops>>
        /\ pc' \in {"options", "guest", "aborted"}
    BY <1>1, <2>1 DEF CommandLine, OptionName, OptionBasicCounts, PostCloInit, irVars,
       countVars, guestVars
  <2>3. ASSUME NEW m \in Measures
        PROVE  Balance(m)'
    <3>1. Gap(m)' = 0
      BY <2>1, <2>2, GapKept
    <3>2. Ends(m, clo_fnname', sbOut', 0, 0) /\ 0 \in Marks
      BY <2>1, <2>2, EndsEmpty DEF Marks
    <3>3. Resting(m)'
      BY <3>2 DEF Resting
    <3> QED
      BY <2>2, <3>1, <3>3 DEF Balance
  <2> QED
    BY <2>1, <2>2, <2>3 DEF BalanceInv
<1>2. CASE Translate
  <2>1. /\ UNCHANGED <<clo_basic_counts, truth, count>> /\ pc # "options"
        /\ pc' \in {"guest", "first", "instrument"} /\ pc \notin {"killed", "aborted"}
    BY <1>2 DEF Translate, BeginBlock, EndBlock, Instrument, InstrumentOther, InstrumentAlu,
       InstrumentIMark, InstrumentLoad, InstrumentStore, InstrumentDirty, InstrumentCAS,
       InstrumentLL, InstrumentSC, InstrumentExit, Turn, cloVars, countVars, guestVars
  <2>2. ASSUME NEW m \in Measures, Kept(m)'
        PROVE  Balance(m)'
    BY <1>2, <2>1, <2>2, TranslateBalance DEF Kept
  <2> QED
    BY <1>0, <2>1, <2>2 DEF BalanceInv
<1>3. CASE Run
  <2>1. /\ clo_basic_counts' = clo_basic_counts /\ pc \notin {"options", "killed", "aborted"}
        /\ pc' \notin {"options", "paranoid"}
    BY <1>3 DEF Run, BeginRun, RunCount, RunDetail, RunTrace, RunStatement, RunFault,
       RunExitTaken, RunExitUntaken, EndRun, EmptyBuffer, Leave, Due, cloVars
  <2>2. ASSUME NEW m \in Measures, Kept(m)'
        PROVE  Balance(m)'
    BY <1>3, <2>1, <2>2, RunBalance DEF Kept
  <2>3. (clo_basic_counts' /\ pc' \notin {"killed", "aborted"} /\ truth'["instrs"] > 0) =>
          count'["SBs_entered"] > 0
    BY <1>3, <2>1, EnteredStep
  <2> QED
    BY <2>1, <2>2, <2>3 DEF BalanceInv
<1>4. CASE Fini \/ Close
  <2>1. /\ UNCHANGED <<clo_basic_counts, clo_fnname, sbOut, count, detailCounts, truth, ops>>
        /\ pc \in {"guest", "close"}
    BY <1>4 DEF Fini, Close, cloVars, irVars, countVars, guestVars
  <2>2. pc' \in {"fini", "ended"}
    <3>1. CASE Fini
      <4> DEFINE m == <<"truth", "instrs">>
      <4>1. pc = "guest" /\ truth["instrs"] > 0
        BY <3>1 DEF Fini
      <4>2. ASSUME clo_basic_counts
            PROVE  count["SBs_entered"] # 0 /\ count["guest_instrs"] # 0
        <5>1. m \in Measures /\ m[1] = "truth" /\ m[2] = "instrs" /\ Kept(m)
          BY <4>2 DEF Measures, Truths, Kept
        <5>2. Gap(m) = 0
          BY <1>0, <4>1, <5>1 DEF BalanceInv, Balance
        <5>3. count["guest_instrs"] - truth["instrs"] = 0
          BY <5>1, <5>2 DEF Gap, Figure
        <5>4. count["guest_instrs"] \in Nat /\ truth["instrs"] \in Nat
          BY <1>0 DEF TypeOK, Counters, Truths
        <5>5. count["SBs_entered"] > 0
          BY <1>0, <4>1, <4>2 DEF BalanceInv
        <5> QED
          BY <4>1, <5>3, <5>4, <5>5
      <4> QED
        BY <3>1, <4>2 DEF Fini
    <3>2. CASE Close
      BY <3>2 DEF Close
    <3> QED
      BY <1>4, <3>1, <3>2
  <2>3. ASSUME NEW m \in Measures, Kept(m)'
        PROVE  Balance(m)'
    <3>1. Resting(m) /\ Gap(m) = 0
      BY <1>0, <2>1, <2>3 DEF BalanceInv, Balance, Kept
    <3>2. Gap(m)' = 0
      BY <2>1, <3>1, GapKept
    <3>3. Resting(m)'
      BY <2>1, <3>1 DEF Resting
    <3> QED
      BY <2>2, <3>2, <3>3 DEF Balance
  <2> QED
    BY <1>0, <2>1, <2>2, <2>3 DEF BalanceInv
<1>5. CASE Kill
  <2>1. pc' = "killed"
    BY <1>5 DEF Kill
  <2> QED
    BY <2>1 DEF BalanceInv, Balance
<1>6. CASE Over \/ UNCHANGED vars
  <2>1. /\ UNCHANGED <<clo_basic_counts, clo_fnname, pc, sbOut, iaddr, at, here>>
        /\ UNCHANGED <<count, detailCounts, truth, ops>>
    BY <1>6 DEF Over, vars
  <2>2. ASSUME NEW m \in Measures, Kept(m) \/ pc = "options"
        PROVE  Balance(m)'
    <3>1. Balance(m) /\ Gap(m)' = Gap(m)
      BY <1>0, <2>1, <2>2, GapKept DEF BalanceInv
    <3>2. (Leading(m) => Leading(m)') /\ (Resting(m) => Resting(m)')
      BY <2>1 DEF Leading, Resting
    <3>3. Running(m) => Running(m)'
      BY <2>1, <3>1 DEF Running
    <3> QED
      BY <2>1, <3>1, <3>2, <3>3 DEF Balance
  <2> QED
    BY <1>0, <2>1, <2>2 DEF BalanceInv, Kept
<1> QED
  BY <1>1, <1>2, <1>3, <1>4, <1>5, <1>6 DEF Next

\* Nothing is counted and nothing done yet.
LEMMA BalanceInit == Init => CInv
<1> SUFFICES ASSUME Init
             PROVE  CInv
  OBVIOUS
<1>1. /\ pc = "options" /\ sbOut = <<>> /\ truth = [t \in Truths |-> 0]
      /\ ops = [d \in Details |-> 0] /\ detailCounts = [d \in Details |-> 0]
      /\ count = [c \in Counters |-> 0]
  BY DEF Init
<1>2. ASSUME NEW m \in Measures
      PROVE  Balance(m)
  <2>1. CASE m[1] = "truth"
    <3>1. m[2] \in Truths
      BY <2>1, MeasureParts
    <3>2. \A c \in Counters : count[c] = 0
      BY <1>1
    <3>3. Figure(m[2]) = 0 /\ truth[m[2]] = 0
      BY <1>1, <3>1, <3>2 DEF Figure, Truths, Counters, total_Jccs, taken_Jccs
    <3>4. Gap(m) = 0
      BY <2>1, <3>3 DEF Gap
    <3>5. Resting(m)
      BY <1>1, EndsEmpty DEF Resting, Marks
    <3> QED
      BY <1>1, <3>4, <3>5 DEF Balance
  <2>2. CASE m[1] = "ops"
    <3>1. m[2] \in Details
      BY <2>2, MeasureParts
    <3>2. detailCounts[m[2]] = 0 /\ ops[m[2]] = 0
      BY <1>1, <3>1
    <3>3. Gap(m) = 0
      BY <2>2, <3>2 DEF Gap
    <3>4. Resting(m)
      BY <1>1, EndsEmpty DEF Resting, Marks
    <3> QED
      BY <1>1, <3>3, <3>4 DEF Balance
  <2> QED
    BY <2>1, <2>2, MeasureParts
<1>3. truth["instrs"] = 0
  BY <1>1 DEF Truths
<1>4. BalanceInv
  BY <1>1, <1>2, <1>3 DEF BalanceInv
<1> QED
  BY <1>4, InitIInv DEF CInv

\* The balance holds of every tool that can be reached.
THEOREM BalanceHolds == Spec => []CInv
<1>1. CInv /\ [Next]_vars => CInv'
  BY BalanceStep, TypeStep, StoredStep, StartedStep DEF CInv, IInv
<1> QED
  BY BalanceInit, <1>1, PTL DEF Spec

\* The statistics that md_fini prints are those of the guest program, whatever
\* it executes and however its superblocks are left, and md_fini's assertions
\* on the counters cannot fail.
THEOREM CountsRightHolds == Spec => []CountsRight
<1>1. CInv => CountsRight
  <2> SUFFICES ASSUME CInv
               PROVE  CountsRight
    OBVIOUS
  <2>0. TypeOK /\ BalanceInv
    BY DEF CInv, IInv
  <2>1. ASSUME clo_basic_counts, pc \in {"guest", "fini", "ended"}, NEW t \in Truths
        PROVE  Figure(t) = truth[t]
    <3> DEFINE m == <<"truth", t>>
    <3>1. m \in Measures /\ m[1] = "truth" /\ m[2] = t /\ Kept(m)
      BY <2>1 DEF Measures, Kept
    <3>2. Gap(m) = 0
      BY <2>0, <2>1, <3>1 DEF BalanceInv, Balance
    <3>3. Figure(t) - truth[t] = 0
      BY <3>1, <3>2 DEF Gap
    <3>4. Figure(t) \in Int /\ truth[t] \in Nat
      BY <2>0, <3>1, GapType
    <3> HIDE DEF Figure
    <3> QED
      BY <3>3, <3>4
  <2> QED
    BY <2>0, <2>1 DEF CountsRight, BalanceInv, Figure, Truths
<1> QED
  BY <1>1, BalanceHolds, PTL

\* The counts by type are the loads, stores and operations that were tried,
\* with and without basic counts.
THEOREM DetailsRightHolds == Spec => []DetailsRight
<1>1. CInv => DetailsRight
  <2> SUFFICES ASSUME CInv, pc \in {"guest", "fini", "ended"}
               PROVE  detailCounts = ops
    BY DEF DetailsRight
  <2>0. TypeOK /\ BalanceInv
    BY DEF CInv, IInv
  <2>1. ASSUME NEW d \in Details
        PROVE  detailCounts[d] = ops[d]
    <3> DEFINE m == <<"ops", d>>
    <3>1. m \in Measures /\ m[1] = "ops" /\ m[2] = d /\ Kept(m)
      BY <2>1 DEF Measures, Kept
    <3>2. Gap(m) = 0
      BY <2>0, <3>1 DEF BalanceInv, Balance
    <3>3. detailCounts[d] - ops[d] = 0
      BY <3>1, <3>2 DEF Gap
    <3>4. detailCounts[d] \in Nat /\ ops[d] \in Nat
      BY <2>0 DEF TypeOK
    <3> QED
      BY <3>3, <3>4
  <2>2. detailCounts \in [Details -> Nat] /\ ops \in [Details -> Nat]
    BY <2>0 DEF TypeOK
  <2> QED
    BY <2>1, <2>2
<1> QED
  BY <1>1, BalanceHolds, PTL
=============================================================================
