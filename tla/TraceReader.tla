---------------------------- MODULE TraceReader ----------------------------
(***************************************************************************)
(* How memaviz turns the blocks of a trace into an index of call stacks    *)
(* (decode_records in data.go, BuildStree in functree.go, stack.go) when   *)
(* use_stree is set.  A traced program enters and leaves functions and may *)
(* switch tracing off and on; what it records meanwhile comes out of the   *)
(* file in blocks.  The loop of BuildStree takes one record a step, and    *)
(* the frames open at the end of a block are handed to the next one as     *)
(* context_records.  Once a block is drawn its records are dropped.          *)
(*                                                                         *)
(* A record is taken by the program and the reader in one step: the reader *)
(* runs later, but on nothing except the records, so nothing can tell.     *)
(* Only the last block of a trace is written before it is full.            *)
(***************************************************************************)
EXTENDS Integers, Sequences, FiniteSets

CONSTANTS
  Functions,   \* the traced program's functions
  Capacity,    \* records of a full block (mem_accesses_bufsize - 1)
  NRec,        \* exected_nrec, the records a decoded block has
  MaxBlocks,   \* bound: blocks of the trace
  MaxDepth,    \* bound: calls nested in the program
  NoFn

ASSUME CapacityAssumption == Capacity \in Nat \ {0} /\ NRec \in Nat /\ Capacity <= NRec
ASSUME BoundAssumption == MaxBlocks \in Nat /\ MaxDepth \in Nat
ASSUME NoFnAssumption == NoFn \notin Functions

VARIABLES
  frames,    \* the program's call stack, outermost first
  tracing,   \* whether the program records what it does
  gaps,      \* history: whether it ever did something unrecorded
  rstate,    \* the worker: "wait" for a block, "index" its records, have it
             \* "indexed" and then "drawn"; "done", "panic"
  nblocks,   \* blocks begun
  left,      \* records of the current block still to be indexed
  records,   \* block.records as far as it is indexed, empty when it is drawn
  context,   \* block.context_records: the frames open at its start, innermost first
  current_context,  \* the context that BuildStree returned for the next block
  stack,     \* s: indices of open frames; negative ones point into context
  tree,      \* the intervals pushed on the stree
  seen       \* history: the program's call stack after each record of the block

programVars == <<frames, tracing, gaps>>
blockVars   == <<rstate, nblocks, left, records, context, stack, tree, seen>>
vars == <<frames, tracing, gaps, rstate, nblocks, left, records, context, current_context,
          stack, tree, seen>>

Record == [type: {"access", "enter", "exit"}, fn: Functions \cup {NoFn}]
Zero == [type |-> "access", fn |-> NoFn]   \* what make() leaves in a slot

Init ==
  /\ frames = <<>> /\ tracing \in BOOLEAN /\ gaps = FALSE
  /\ rstate = "wait" /\ nblocks = 0 /\ left = 0
  /\ records = <<>> /\ context = <<>> /\ current_context = <<>>
  /\ stack = <<>> /\ tree = {} /\ seen = <<>>

LastOf(s) == s[Len(s)]
ButLast(s) == SubSeq(s, 1, Len(s) - 1)

Stopped == rstate \in {"done", "panic"}

\* The function of the open frame with index e, for context c and records r,
\* and those of a whole stack s.
Entry(c, r, e) == IF e < 0 THEN c[-e] ELSE r[e + 1].fn
OpenFrames(c, r, s) == [i \in 1..Len(s) |-> Entry(c, r, s[i])]
Reversed(s) == [i \in 1..Len(s) |-> s[Len(s) + 1 - i]]

-----------------------------------------------------------------------------
(* The program while it does not record.                                   *)
Switch(on) ==
  /\ ~Stopped
  /\ tracing' = on
  /\ UNCHANGED <<frames, gaps, current_context>> /\ UNCHANGED blockVars

Unrecorded ==
  /\ ~Stopped /\ ~tracing
  /\ \/ /\ Len(frames) < MaxDepth
        /\ \E f \in Functions : frames' = Append(frames, f)
     \/ frames # <<>> /\ frames' = ButLast(frames)
  /\ gaps' = TRUE
  /\ UNCHANGED <<tracing, current_context>> /\ UNCHANGED blockVars

-----------------------------------------------------------------------------
\* decode_records, and the first loop of BuildStree, which pushes the frames
\* of the context.
BeginBlock(n) ==
  /\ rstate = "wait" /\ nblocks < MaxBlocks
  /\ n < Capacity => nblocks = MaxBlocks - 1
  /\ rstate' = "index"
  /\ nblocks' = nblocks + 1
  /\ left' = n
  /\ records' = <<>> /\ tree' = {} /\ seen' = <<>>
  /\ stack' = [i \in 1..Len(context) |-> i - 1 - Len(context)]
  /\ UNCHANGED <<context, current_context, programVars>>

\* The step every record of the block has in common.
Take(r) ==
  /\ rstate = "index" /\ left > 0 /\ tracing
  /\ left' = left - 1
  /\ records' = Append(records, r)
  /\ seen' = Append(seen, frames')
  /\ UNCHANGED <<tracing, gaps, nblocks, context, current_context>>

OpenedLate == Len(records) + 1   \* variant: the record after
Opened == Len(records)           \* i, the index of the record being taken

Enter(f) ==
  /\ Len(frames) < MaxDepth
  /\ frames' = Append(frames, f)
  /\ Take([type |-> "enter", fn |-> f])
  /\ stack' = Append(stack, Opened)
  /\ UNCHANGED <<rstate, tree>>

PopKept(s) == s     \* variant: Pop does not remove the element
Pop(s) == ButLast(s)

IntervalLong == {[from |-> LastOf(stack), to |-> Len(records)]}  \* variant: to i
Interval == {[from |-> LastOf(stack), to |-> Len(records) - 1]}

\* MEMA_FUNC_EXIT: Pop of an empty stack returns nil, which is no int.  The
\* check that follows compares the popped record with itself.
Exit ==
  /\ frames # <<>>
  /\ frames' = ButLast(frames)
  /\ Take([type |-> "exit", fn |-> LastOf(frames)])
  /\ IF stack = <<>>
       THEN rstate' = "panic" /\ UNCHANGED <<stack, tree>>
       ELSE /\ tree' = tree \cup Interval
            /\ stack' = Pop(stack)
            /\ UNCHANGED rstate

Access ==
  /\ UNCHANGED frames
  /\ Take(Zero)
  /\ UNCHANGED <<rstate, stack, tree>>

\* The slots that no record of the file fills.
Unfilled ==
  /\ rstate = "index" /\ left = 0 /\ Len(records) < NRec
  /\ records' = Append(records, Zero)
  /\ seen' = Append(seen, frames)
  /\ UNCHANGED <<programVars, rstate, nblocks, left, context, current_context, stack, tree>>

ContextLost == <<>>   \* variant: current_context is never assigned
ContextKept == OpenFrames(context, records, stack)  \* variant: not reversed
Context == Reversed(OpenFrames(context, records, stack))

\* The last loop of BuildStree: it empties the stack, every open frame reaches
\* past the end of the block, and together they are the next block's context.
EndBlock ==
  /\ rstate = "index" /\ left = 0 /\ Len(records) = NRec
  /\ rstate' = "indexed"
  /\ tree' = tree \cup {[from |-> stack[i], to |-> NRec] : i \in 1..Len(stack)}
  /\ current_context' = Context
  /\ stack' = <<>>
  /\ UNCHANGED <<programVars, nblocks, left, records, context, seen>>

\* "Don't need the record data anymore": block.records = Records{}, and only
\* then is the block handed to the main thread, which appends it to data.blocks:
\* GetStack, which reads them, could find none of the block's own.
GenerateVertices ==
  /\ rstate = "indexed"
  /\ records' = <<>>
  /\ rstate' = "drawn"
  /\ UNCHANGED <<programVars, nblocks, left, context, current_context, stack, tree, seen>>

\* The worker turns to the next block: current_context is its context.
NextBlock ==
  /\ rstate = "drawn"
  /\ context' = current_context
  /\ tree' = {} /\ seen' = <<>>
  /\ rstate' = IF nblocks < MaxBlocks THEN "wait" ELSE "done"
  /\ UNCHANGED <<programVars, nblocks, left, records, current_context, stack>>

-----------------------------------------------------------------------------
\* The indices of the frames around record q, the answer of the tree's Query,
\* and the frames they stand for, in their order.
Query(q) == {v.from : v \in {w \in tree : w.from <= q /\ q <= w.to}}
FramesOf(E) ==
  LET Rank(e) == Cardinality({d \in E : d <= e})
  IN  [i \in 1..Cardinality(E) |-> Entry(context, records, CHOOSE e \in E : Rank(e) = i)]

Next ==
  \/ \E on \in BOOLEAN : Switch(on)
  \/ Unrecorded
  \/ \E n \in 0..Capacity : BeginBlock(n)
  \/ \E f \in Functions : Enter(f)
  \/ Exit
  \/ Access
  \/ Unfilled
  \/ EndBlock
  \/ GenerateVertices
  \/ NextBlock
  \/ Stopped /\ UNCHANGED vars

Spec == Init /\ [][Next]_vars

-----------------------------------------------------------------------------
(* Properties.                                                              *)

\* Types: an open frame's index is the place of a record already indexed, or
\* of a context record (what BuildStree may dereference).
TypeOK ==
  /\ frames \in Seq(Functions) /\ tracing \in BOOLEAN /\ gaps \in BOOLEAN
  /\ rstate \in {"wait", "index", "indexed", "drawn", "done", "panic"}
  /\ nblocks \in 0..MaxBlocks /\ left \in 0..Capacity
  /\ records \in Seq(Record) /\ context \in Seq(Functions) /\ current_context \in Seq(Functions)
  /\ stack \in Seq(-Len(context)..Len(records) - 1)
  /\ OpenFrames(context, records, stack) \in Seq(Functions)
  /\ \A v \in tree : v.to \in Int /\ v.from \in Int
  /\ rstate # "drawn" => \A v \in tree : v.from \in -Len(context)..Len(records) - 1
  /\ seen \in Seq(Seq(Functions))

\* While everything was recorded, BuildStree's stack, read through the block's
\* and its context's records, is the traced program's call stack: across the
\* blocks, whose indices start anew, and whatever the context hands over.
StackDenotes ==
  rstate = "index" /\ ~gaps => OpenFrames(context, records, stack) = frames

\* The tree that BuildStree returns is one "to efficiently determine a callstack
\* given a record index" (functree.go:1-2): the frames around any record, by
\* their first index and read through the records it was built from, are the
\* call stack the program had there, outermost function first, frames entered
\* in earlier blocks and frames still open at the end of this one included.
TreeDenotes ==
  rstate = "indexed" /\ ~gaps => \A q \in 0..NRec - 1 : FramesOf(Query(q)) = seen[q + 1]

\* BuildStree pops an empty stack (a nil that is no int, and a panic) only for
\* a program that left a function it had entered unrecorded.
PanicOnlyWithGaps == rstate = "panic" => gaps

\* "These should match, otherwise we're looking at something incomplete": an
\* exit is paired with the entry of the function that exits, or BuildStree
\* panics (functree.go:33-37).
ExitMatchesEntry ==
  [][stack # <<>> /\ stack' = ButLast(stack) /\ left' < left
       => Entry(context, records, LastOf(stack)) = LastOf(records').fn]_vars
=============================================================================
