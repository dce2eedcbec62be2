------------------------- MODULE TraceReaderProofs -------------------------
(***************************************************************************)
(* Proofs about the reader's call stacks, for every set of functions, every *)
(* size of block, any number of blocks and any depth of calls.             *)
(***************************************************************************)
EXTENDS TraceReader, SequenceTheorems, FiniteSetTheorems, FunctionTheorems, TLAPS

Indices(c, r) == -Len(c)..Len(r) - 1

\* Between blocks the context is the call stack, innermost frame first, and so
\* is what a block leaves for the next one.
ContextInv ==
  /\ rstate \in {"wait", "done"} /\ ~gaps => context = Reversed(frames)
  /\ rstate \in {"indexed", "drawn"} /\ ~gaps => current_context = Reversed(frames)
\* Inside a block the stack denotes the call stack.
StackInv == rstate = "index" /\ ~gaps => OpenFrames(context, records, stack) = frames
\* No open frames between a block's end and the next one's beginning, no records
\* once it is drawn, and no intervals after that.
IdleInv ==
  /\ rstate \in {"wait", "indexed", "drawn", "done"} => stack = <<>>
  /\ rstate \in {"wait", "drawn", "done"} => records = <<>>
  /\ rstate \in {"wait", "done"} => tree = {}

IInv == TypeOK /\ ContextInv /\ StackInv /\ IdleInv /\ PanicOnlyWithGaps

-----------------------------------------------------------------------------
(* The stack as data.                                                       *)

LEMMA ButLastSeq ==
  ASSUME NEW S, NEW s \in Seq(S), s # <<>>
  PROVE  /\ ButLast(s) \in Seq(S)
         /\ Len(ButLast(s)) = Len(s) - 1
         /\ \A i \in 1..Len(s) - 1 : ButLast(s)[i] = s[i]
         /\ LastOf(s) \in S
         /\ Len(s) \in Nat /\ Len(s) > 0
<1>1. Len(s) \in Nat /\ Len(s) > 0
  BY EmptySeq
<1>2. LastOf(s) \in S
  BY <1>1, ElementOfSeq DEF LastOf
<1>3. /\ ButLast(s) \in Seq(S)
      /\ Len(ButLast(s)) = Len(s) - 1
      /\ \A i \in 1..Len(s) - 1 : ButLast(s)[i] = s[i]
  <2>1. Len(s) - 1 \in Int /\ \A i \in 1..Len(s) - 1 : s[i] \in S
    BY <1>1, ElementOfSeq
  <2>2. /\ SubSeq(s, 1, Len(s) - 1) \in Seq(S)
        /\ Len(SubSeq(s, 1, Len(s) - 1)) = IF 1 <= Len(s) - 1 THEN Len(s) - 1 - 1 + 1 ELSE 0
        /\ \A i \in 1..Len(s) - 1 - 1 + 1 : SubSeq(s, 1, Len(s) - 1)[i] = s[1 + i - 1]
    BY <2>1, SubSeqProperties
  <2>3. /\ Len(s) - 1 - 1 + 1 = Len(s) - 1
        /\ (IF 1 <= Len(s) - 1 THEN Len(s) - 1 - 1 + 1 ELSE 0) = Len(s) - 1
    <3>1. \A n \in Nat : n > 0 => n - 1 - 1 + 1 = n - 1
      OBVIOUS
    <3>2. \A n \in Nat : n > 0 => (IF 1 <= n - 1 THEN n - 1 ELSE 0) = n - 1
      OBVIOUS
    <3> QED
      BY <1>1, <3>1, <3>2
  <2>4. \A i \in 1..Len(s) - 1 : 1 + i - 1 = i
    BY <1>1
  <2> QED
    BY <2>2, <2>3, <2>4, Zenon DEF ButLast
<1> QED
  BY <1>1, <1>2, <1>3

LEMMA AppendSeq ==
  ASSUME NEW S, NEW s \in Seq(S), NEW e \in S
  PROVE  /\ Append(s, e) \in Seq(S)
         /\ Len(Append(s, e)) = Len(s) + 1
         /\ \A i \in 1..Len(s) : Append(s, e)[i] = s[i]
         /\ Append(s, e)[Len(s) + 1] = e
  OBVIOUS

\* A sequence over a set is one over any larger set.
LEMMA SeqMono ==
  ASSUME NEW S, NEW T, S \subseteq T, NEW s \in Seq(S)
  PROVE  s \in Seq(T)
  OBVIOUS

\* Reversing a sequence twice gives it back.
LEMMA ReversedTwice ==
  ASSUME NEW S, NEW s \in Seq(S)
  PROVE  /\ Reversed(s) \in Seq(S) /\ Len(Reversed(s)) = Len(s)
         /\ Reversed(Reversed(s)) = s
<1>0. Len(s) \in Nat
  OBVIOUS
<1>1. \A i \in 1..Len(s) : s[Len(s) + 1 - i] \in S
  BY <1>0, ElementOfSeq
<1>2. Reversed(s) \in Seq(S) /\ Len(Reversed(s)) = Len(s)
  BY <1>1, IsASeq DEF Reversed
<1>3. Reversed(Reversed(s)) \in Seq(S) /\ Len(Reversed(Reversed(s))) = Len(s)
  <2>1. \A i \in 1..Len(s) : Reversed(s)[Len(s) + 1 - i] \in S
    BY <1>0, <1>2, ElementOfSeq
  <2>2. Reversed(Reversed(s)) = [i \in 1..Len(s) |-> Reversed(s)[Len(s) + 1 - i]]
    BY <1>2 DEF Reversed
  <2> QED
    BY <1>0, <2>1, <2>2, IsASeq
<1>4. ASSUME NEW i \in 1..Len(s)
      PROVE  Reversed(Reversed(s))[i] = s[i]
  <2>1. Len(s) + 1 - i \in 1..Len(s) /\ Len(s) + 1 - (Len(s) + 1 - i) = i
    BY <1>0
  <2>2. Reversed(s)[Len(s) + 1 - i] = s[i]
    BY <2>1 DEF Reversed
  <2> QED
    BY <1>2, <2>2 DEF Reversed
<1> QED
  BY <1>2, <1>3, <1>4, SeqEqual

\* What an index denotes does not change when a record is appended.
LEMMA EntryKept ==
  ASSUME NEW c \in Seq(Functions), NEW r \in Seq(Record), NEW a \in Record,
         NEW e \in Indices(c, r)
  PROVE  /\ Entry(c, Append(r, a), e) = Entry(c, r, e)
         /\ e \in Indices(c, Append(r, a))
<1>1. Len(Append(r, a)) = Len(r) + 1 /\ Len(r) \in Nat /\ Len(c) \in Nat
  OBVIOUS
<1>2. CASE e < 0
  BY <1>1, <1>2 DEF Entry, Indices
<1>3. CASE e >= 0
  <2>1. e + 1 \in 1..Len(r)
    BY <1>1, <1>3 DEF Indices
  <2>2. Append(r, a)[e + 1] = r[e + 1]
    BY <2>1, AppendSeq
  <2> QED
    BY <1>1, <1>3, <2>2 DEF Entry, Indices
<1> QED
  BY <1>1, <1>2, <1>3 DEF Indices

\* Nor does what a stack denotes.
LEMMA StackKept ==
  ASSUME NEW c \in Seq(Functions), NEW r \in Seq(Record), NEW a \in Record,
         NEW s \in Seq(Indices(c, r))
  PROVE  /\ s \in Seq(Indices(c, Append(r, a)))
         /\ OpenFrames(c, Append(r, a), s) = OpenFrames(c, r, s)
<1>1. Indices(c, r) \subseteq Indices(c, Append(r, a))
  BY EntryKept
<1>2. \A i \in 1..Len(s) : Entry(c, Append(r, a), s[i]) = Entry(c, r, s[i])
  BY EntryKept, ElementOfSeq
<1> QED
  BY <1>1, <1>2, SeqMono DEF OpenFrames

\* Pushing the index of an entry record pushes its function.
LEMMA StackPush ==
  ASSUME NEW c \in Seq(Functions), NEW r \in Seq(Record), NEW a \in Record,
         NEW s \in Seq(Indices(c, r)), OpenFrames(c, r, s) \in Seq(Functions),
         a.fn \in Functions
  PROVE  /\ Append(s, Len(r)) \in Seq(Indices(c, Append(r, a)))
         /\ OpenFrames(c, Append(r, a), Append(s, Len(r)))
              = Append(OpenFrames(c, r, s), a.fn)
<1> DEFINE ra == Append(r, a)
           sa == Append(s, Len(r))
           old == OpenFrames(c, r, s)
<1>1. Len(r) \in Nat /\ Len(c) \in Nat /\ Len(s) \in Nat /\ Len(ra) = Len(r) + 1
  OBVIOUS
<1>2. Len(r) \in Indices(c, ra) /\ Entry(c, ra, Len(r)) = a.fn
  <2>1. ra[Len(r) + 1] = a
    BY AppendSeq
  <2> QED
    BY <1>1, <2>1 DEF Indices, Entry
<1>3. s \in Seq(Indices(c, ra)) /\ OpenFrames(c, ra, s) = old
  BY StackKept
<1>4. /\ sa \in Seq(Indices(c, ra)) /\ Len(sa) = Len(s) + 1
      /\ \A i \in 1..Len(s) : sa[i] = s[i]
      /\ sa[Len(s) + 1] = Len(r)
  BY <1>2, <1>3, AppendSeq
<1>5. Len(old) = Len(s) /\ \A i \in 1..Len(s) : old[i] = Entry(c, ra, s[i])
  BY <1>1, <1>3 DEF OpenFrames
<1>6. /\ Append(old, a.fn) \in Seq(Functions) /\ Len(Append(old, a.fn)) = Len(s) + 1
      /\ \A i \in 1..Len(s) : Append(old, a.fn)[i] = old[i]
      /\ Append(old, a.fn)[Len(s) + 1] = a.fn
  BY <1>5, AppendSeq
<1>7. ASSUME NEW i \in 1..Len(s) + 1
      PROVE  Entry(c, ra, sa[i]) = Append(old, a.fn)[i]
  <2> HIDE DEF ra, sa, old
  <2>1. CASE i \in 1..Len(s)
    BY <2>1, <1>4, <1>5, <1>6
  <2>2. CASE i = Len(s) + 1
    BY <2>2, <1>2, <1>4, <1>6
  <2>3. i \in 1..Len(s) \/ i = Len(s) + 1
    BY <1>1
  <2> QED
    BY <2>1, <2>2, <2>3
<1> HIDE DEF ra, sa, old
<1>8. Append(old, a.fn) = [i \in 1..Len(s) + 1 |-> Append(old, a.fn)[i]]
  BY <1>6
<1>9. OpenFrames(c, ra, sa) = Append(old, a.fn)
  BY <1>4, <1>7, <1>8 DEF OpenFrames
<1> QED
  BY <1>4, <1>9 DEF ra, sa, old

\* Popping an index pops its function.
LEMMA StackPop ==
  ASSUME NEW c, NEW r, NEW s \in Seq(Indices(c, r)), s # <<>>,
         OpenFrames(c, r, s) \in Seq(Functions)
  PROVE  /\ ButLast(s) \in Seq(Indices(c, r))
         /\ OpenFrames(c, r, s) # <<>>
         /\ OpenFrames(c, r, ButLast(s)) = ButLast(OpenFrames(c, r, s))
<1> DEFINE old == OpenFrames(c, r, s)
<1>1. /\ ButLast(s) \in Seq(Indices(c, r)) /\ Len(ButLast(s)) = Len(s) - 1
      /\ \A i \in 1..Len(s) - 1 : ButLast(s)[i] = s[i]
      /\ Len(s) \in Nat /\ Len(s) > 0
  BY ButLastSeq
<1>2. Len(old) = Len(s) /\ \A i \in 1..Len(s) : old[i] = Entry(c, r, s[i])
  BY <1>1 DEF OpenFrames
<1>3. old # <<>>
  BY <1>1, <1>2, EmptySeq
<1>4. /\ ButLast(old) \in Seq(Functions) /\ Len(ButLast(old)) = Len(s) - 1
      /\ \A i \in 1..Len(s) - 1 : ButLast(old)[i] = old[i]
  BY <1>2, <1>3, ButLastSeq
<1> HIDE DEF old
<1>5. ButLast(old) = [i \in 1..Len(s) - 1 |-> ButLast(old)[i]]
  BY <1>4
<1>6. OpenFrames(c, r, ButLast(s)) = ButLast(old)
  BY <1>1, <1>2, <1>4, <1>5 DEF OpenFrames
<1> QED
  BY <1>1, <1>3, <1>6 DEF old

\* The indices that a block starts with denote its context, outermost first.
LEMMA StackBegin ==
  ASSUME NEW c \in Seq(Functions)
  PROVE  LET s == [i \in 1..Len(c) |-> i - 1 - Len(c)]
         IN  s \in Seq(Indices(c, <<>>)) /\ OpenFrames(c, <<>>, s) = Reversed(c)
<1> DEFINE s == [i \in 1..Len(c) |-> i - 1 - Len(c)]
<1>1. Len(c) \in Nat /\ Len(<<>>) = 0
  OBVIOUS
<1>2. \A i \in 1..Len(c) : i - 1 - Len(c) \in Indices(c, <<>>)
  BY <1>1 DEF Indices
<1>3. s \in Seq(Indices(c, <<>>)) /\ Len(s) = Len(c)
  BY <1>1, <1>2, IsASeq
<1>4. ASSUME NEW i \in 1..Len(c)
      PROVE  Entry(c, <<>>, s[i]) = c[Len(c) + 1 - i]
  <2>1. s[i] < 0 /\ -s[i] = Len(c) + 1 - i
    BY <1>1
  <2> QED
    BY <2>1 DEF Entry
<1>5. OpenFrames(c, <<>>, s) = Reversed(c)
  BY <1>3, <1>4 DEF OpenFrames, Reversed
<1> QED
  BY <1>3, <1>5

-----------------------------------------------------------------------------
(* The invariant.                                                           *)

LEMMA InitInv == Init => IInv
<1> SUFFICES ASSUME Init PROVE IInv
  OBVIOUS
<1>1. OpenFrames(<<>>, <<>>, <<>>) = <<>> /\ Reversed(<<>>) = <<>>
  BY EmptySeq DEF OpenFrames, Reversed
<1>2. TypeOK
  <2>1. 0 \in 0..MaxBlocks /\ 0 \in 0..Capacity
    BY BoundAssumption, CapacityAssumption
  <2>2. \A S : <<>> \in Seq(S)
    BY EmptySeq
  <2> QED
    BY <1>1, <2>1, <2>2, Zenon DEF Init, TypeOK
<1> QED
  BY <1>1, <1>2 DEF Init, IInv, ContextInv, StackInv, IdleInv, PanicOnlyWithGaps

\* What every record of a block does to the types, whatever its kind.
LEMMA TakeType ==
  ASSUME TypeOK, NEW r \in Record, Take(r), frames' \in Seq(Functions)
  PROVE  /\ records' = Append(records, r) /\ context' = context
         /\ tracing' \in BOOLEAN /\ gaps' = gaps /\ gaps' \in BOOLEAN
         /\ nblocks' \in 0..MaxBlocks /\ left' \in 0..Capacity
         /\ records' \in Seq(Record) /\ context' \in Seq(Functions)
         /\ current_context' \in Seq(Functions) /\ seen' \in Seq(Seq(Functions))
<1>1. /\ records' = Append(records, r) /\ context' = context
      /\ tracing' \in BOOLEAN /\ gaps' = gaps /\ gaps' \in BOOLEAN
      /\ nblocks' \in 0..MaxBlocks /\ context' \in Seq(Functions)
      /\ current_context' \in Seq(Functions)
  BY DEF Take, TypeOK
<1>2. left' \in 0..Capacity
  BY CapacityAssumption DEF Take, TypeOK
<1>3. records' \in Seq(Record)
  BY <1>1, AppendSeq DEF TypeOK
<1>4. seen' \in Seq(Seq(Functions))
  BY AppendSeq DEF Take, TypeOK
<1> QED
  BY <1>1, <1>2, <1>3, <1>4

\* The intervals of a tree stay within the records when there are more of them.
LEMMA TreeKept ==
  ASSUME TypeOK, rstate # "drawn", NEW r \in Record
  PROVE  \A v \in tree : /\ v.from \in Indices(context, Append(records, r))
                         /\ v.from \in Int /\ v.to \in Int
  BY EntryKept DEF TypeOK, Indices

LEMMA EnterInv ==
  ASSUME IInv, NEW f \in Functions, Enter(f)
  PROVE  IInv'
<1> DEFINE r == [type |-> "enter", fn |-> f]
<1>1. TypeOK /\ r \in Record /\ r.fn = f /\ Take(r)
  BY DEF IInv, Enter, Record
<1>2. frames' = Append(frames, f) /\ frames' \in Seq(Functions)
  BY AppendSeq DEF IInv, TypeOK, Enter
<1> HIDE DEF r
<1>3. /\ records' = Append(records, r) /\ context' = context
      /\ tracing' \in BOOLEAN /\ gaps' = gaps /\ gaps' \in BOOLEAN
      /\ nblocks' \in 0..MaxBlocks /\ left' \in 0..Capacity
      /\ records' \in Seq(Record) /\ context' \in Seq(Functions)
      /\ current_context' \in Seq(Functions) /\ seen' \in Seq(Seq(Functions))
  BY <1>1, <1>2, TakeType
<1>4. /\ stack' \in Seq(Indices(context', records'))
      /\ OpenFrames(context', records', stack')
           = Append(OpenFrames(context, records, stack), f)
  BY <1>1, <1>3, StackPush DEF TypeOK, Indices, Enter, Opened
<1>5. OpenFrames(context', records', stack') \in Seq(Functions)
  BY <1>4, AppendSeq DEF IInv, TypeOK
<1>6. rstate = "index" /\ rstate' = "index" /\ tree' = tree
  BY DEF Enter, Take
<1>7. TypeOK'
  BY <1>1, <1>2, <1>3, <1>4, <1>5, <1>6, TreeKept DEF TypeOK, Indices
<1> QED
  BY <1>2, <1>3, <1>4, <1>6, <1>7
  DEF IInv, ContextInv, StackInv, IdleInv, PanicOnlyWithGaps

LEMMA ExitInv ==
  ASSUME IInv, Exit
  PROVE  IInv'
<1> DEFINE r == [type |-> "exit", fn |-> LastOf(frames)]
<1>1. /\ frames \in Seq(Functions) /\ frames # <<>>
      /\ frames' = ButLast(frames) /\ frames' \in Seq(Functions)
      /\ LastOf(frames) \in Functions
  BY ButLastSeq DEF IInv, TypeOK, Exit
<1>2. TypeOK /\ r \in Record /\ Take(r)
  BY <1>1 DEF IInv, Exit, Record
<1> HIDE DEF r
<1>3. /\ records' = Append(records, r) /\ context' = context
      /\ tracing' \in BOOLEAN /\ gaps' = gaps /\ gaps' \in BOOLEAN
      /\ nblocks' \in 0..MaxBlocks /\ left' \in 0..Capacity
      /\ records' \in Seq(Record) /\ context' \in Seq(Functions)
      /\ current_context' \in Seq(Functions) /\ seen' \in Seq(Seq(Functions))
  BY <1>1, <1>2, TakeType
<1>4. /\ records \in Seq(Record) /\ context \in Seq(Functions)
      /\ stack \in Seq(Indices(context, records))
      /\ OpenFrames(context, records, stack) \in Seq(Functions)
  BY <1>2 DEF TypeOK, Indices
<1>5. rstate = "index" /\ (~gaps => OpenFrames(context, records, stack) = frames)
  BY DEF IInv, StackInv, Exit, Take
<1>6. CASE stack = <<>>
  <2>1. rstate # "drawn" /\ rstate' = "panic" /\ stack' = stack /\ tree' = tree
    BY <1>5, <1>6 DEF Exit
  <2>2. /\ stack' \in Seq(Indices(context', records'))
        /\ OpenFrames(context', records', stack') \in Seq(Functions)
    BY <1>2, <1>3, <1>4, <2>1, StackKept
  <2>3. OpenFrames(context, records, stack) = <<>>
    BY <1>6, EmptySeq DEF OpenFrames
  <2>4. TypeOK'
    BY <1>1, <1>2, <1>3, <2>1, <2>2, TreeKept DEF TypeOK, Indices
  <2> QED
    BY <1>1, <1>3, <1>5, <2>1, <2>3, <2>4
    DEF IInv, ContextInv, StackInv, IdleInv, PanicOnlyWithGaps
<1>7. CASE stack # <<>>
  <2>1. /\ rstate' = rstate /\ stack' = ButLast(stack)
        /\ tree' = tree \cup {[from |-> LastOf(stack), to |-> Len(records) - 1]}
    BY <1>7 DEF Exit, Pop, Interval
  <2>2. /\ ButLast(stack) \in Seq(Indices(context, records))
        /\ OpenFrames(context, records, ButLast(stack))
             = ButLast(OpenFrames(context, records, stack))
        /\ OpenFrames(context, records, stack) # <<>>
        /\ LastOf(stack) \in Indices(context, records)
    BY <1>4, <1>7, StackPop, ButLastSeq
  <2>3. /\ stack' \in Seq(Indices(context', records'))
        /\ OpenFrames(context', records', stack')
             = ButLast(OpenFrames(context, records, stack))
    BY <1>2, <1>3, <1>4, <2>1, <2>2, StackKept
  <2>4. OpenFrames(context', records', stack') \in Seq(Functions)
    BY <1>4, <2>2, <2>3, ButLastSeq
  <2>5. /\ LastOf(stack) \in Indices(context', records') /\ LastOf(stack) \in Int
        /\ Len(records) - 1 \in Int
    BY <1>2, <1>3, <1>4, <2>2, EntryKept DEF Indices
  <2>6. \A v \in tree' : /\ v.from \in Indices(context', records')
                         /\ v.from \in Int /\ v.to \in Int
    BY <1>2, <1>3, <1>5, <2>1, <2>5, TreeKept
  <2>7. TypeOK'
    BY <1>1, <1>2, <1>3, <1>5, <2>1, <2>3, <2>4, <2>6 DEF TypeOK, Indices
  <2> QED
    BY <1>1, <1>3, <1>5, <2>1, <2>3, <2>7
    DEF IInv, ContextInv, StackInv, IdleInv, PanicOnlyWithGaps
<1> QED
  BY <1>6, <1>7

LEMMA AccessInv ==
  ASSUME IInv, Access
  PROVE  IInv'
<1>1. /\ TypeOK /\ Zero \in Record /\ Take(Zero) /\ rstate = "index"
      /\ UNCHANGED <<frames, rstate, stack, tree>> /\ frames' \in Seq(Functions)
  BY DEF IInv, TypeOK, Access, Take, Record, Zero
<1>2. /\ records' = Append(records, Zero) /\ context' = context
      /\ tracing' \in BOOLEAN /\ gaps' = gaps /\ gaps' \in BOOLEAN
      /\ nblocks' \in 0..MaxBlocks /\ left' \in 0..Capacity
      /\ records' \in Seq(Record) /\ context' \in Seq(Functions)
      /\ current_context' \in Seq(Functions) /\ seen' \in Seq(Seq(Functions))
  BY <1>1, TakeType
<1>3. /\ stack' \in Seq(Indices(context', records'))
      /\ OpenFrames(context', records', stack') = OpenFrames(context, records, stack)
  BY <1>1, <1>2, StackKept DEF TypeOK, Indices
<1>4. TypeOK'
  BY <1>1, <1>2, <1>3, TreeKept DEF TypeOK, Indices
<1> QED
  BY <1>1, <1>2, <1>3, <1>4
  DEF IInv, ContextInv, StackInv, IdleInv, PanicOnlyWithGaps

LEMMA UnfilledInv ==
  ASSUME IInv, Unfilled
  PROVE  IInv'
<1>1. /\ TypeOK /\ Zero \in Record /\ rstate = "index"
      /\ UNCHANGED <<programVars, rstate, nblocks, left, context, current_context, stack, tree>>
      /\ records' = Append(records, Zero) /\ seen' = Append(seen, frames)
  BY DEF IInv, Unfilled, Record, Zero
<1>2. records' \in Seq(Record) /\ seen' \in Seq(Seq(Functions))
  BY <1>1, AppendSeq DEF TypeOK
<1>3. /\ stack' \in Seq(Indices(context', records'))
      /\ OpenFrames(context', records', stack') = OpenFrames(context, records, stack)
  BY <1>1, StackKept DEF TypeOK, Indices
<1>4. TypeOK'
  BY <1>1, <1>2, <1>3, TreeKept DEF TypeOK, Indices, programVars
<1> QED
  BY <1>1, <1>3, <1>4
  DEF IInv, ContextInv, StackInv, IdleInv, PanicOnlyWithGaps, programVars

LEMMA BeginBlockInv ==
  ASSUME IInv, NEW n \in 0..Capacity, BeginBlock(n)
  PROVE  IInv'
<1>1. /\ TypeOK /\ rstate = "wait" /\ rstate' = "index"
      /\ nblocks < MaxBlocks /\ nblocks' = nblocks + 1 /\ left' = n
      /\ records' = <<>> /\ tree' = {} /\ seen' = <<>>
      /\ UNCHANGED <<context, current_context, programVars>>
      /\ stack' = [i \in 1..Len(context) |-> i - 1 - Len(context)]
  BY DEF IInv, BeginBlock
<1>2. context \in Seq(Functions) /\ frames \in Seq(Functions)
  BY <1>1 DEF TypeOK
<1>3. /\ stack' \in Seq(Indices(context', records'))
      /\ OpenFrames(context', records', stack') = Reversed(context)
  BY <1>1, <1>2, StackBegin
<1>4. Reversed(context) \in Seq(Functions)
  BY <1>2, ReversedTwice
<1>5. ~gaps => Reversed(context) = frames
  BY <1>1, <1>2, ReversedTwice DEF IInv, ContextInv
<1>6. TypeOK'
  <2>1. nblocks' \in 0..MaxBlocks
    BY <1>1, BoundAssumption DEF TypeOK
  <2>2. records' \in Seq(Record) /\ seen' \in Seq(Seq(Functions))
    BY <1>1, EmptySeq
  <2> QED
    BY <1>1, <1>3, <1>4, <2>1, <2>2 DEF TypeOK, Indices, programVars
<1> QED
  BY <1>1, <1>3, <1>5, <1>6
  DEF IInv, ContextInv, StackInv, IdleInv, PanicOnlyWithGaps, programVars

LEMMA EndBlockInv ==
  ASSUME IInv, EndBlock
  PROVE  IInv'
<1>1. /\ TypeOK /\ rstate = "index" /\ rstate' = "indexed" /\ NRec \in Int
      /\ tree' = tree \cup {[from |-> stack[i], to |-> NRec] : i \in 1..Len(stack)}
      /\ current_context' = Reversed(OpenFrames(context, records, stack)) /\ stack' = <<>>
      /\ UNCHANGED <<programVars, nblocks, left, records, context, seen>>
  BY CapacityAssumption DEF IInv, EndBlock, Context
<1>2. \A i \in 1..Len(stack) : stack[i] \in Indices(context, records) /\ stack[i] \in Int
  BY <1>1, ElementOfSeq DEF TypeOK, Indices
<1>3. current_context' \in Seq(Functions)
  BY <1>1, ReversedTwice DEF TypeOK
<1>4. stack' \in Seq(Indices(context', records')) /\ OpenFrames(context', records', stack') = <<>>
  BY <1>1, EmptySeq DEF OpenFrames
<1>5. OpenFrames(context', records', stack') \in Seq(Functions)
  BY <1>4, EmptySeq
<1>6. TypeOK'
  <2>1. /\ \A v \in tree' : v.to \in Int /\ v.from \in Int
        /\ \A v \in tree' : v.from \in Indices(context', records')
    <3>1. ASSUME NEW v \in {[from |-> stack[i], to |-> NRec] : i \in 1..Len(stack)}
          PROVE  v.to \in Int /\ v.from \in Int /\ v.from \in Indices(context, records)
      BY <1>1, <1>2
    <3>2. \A v \in tree : v.to \in Int /\ v.from \in Int /\ v.from \in Indices(context, records)
      BY <1>1 DEF TypeOK, Indices
    <3> QED
      BY <1>1, <3>1, <3>2
  <2> QED
    BY <1>1, <1>3, <1>4, <1>5, <2>1 DEF TypeOK, Indices, programVars
<1>7. ~gaps => current_context' = Reversed(frames)
  BY <1>1 DEF IInv, StackInv
<1> QED
  BY <1>1, <1>6, <1>7 DEF IInv, ContextInv, StackInv, IdleInv, PanicOnlyWithGaps, programVars

LEMMA GenerateVerticesInv ==
  ASSUME IInv, GenerateVertices
  PROVE  IInv'
<1>1. /\ TypeOK /\ rstate = "indexed" /\ rstate' = "drawn" /\ records' = <<>> /\ stack = <<>>
      /\ UNCHANGED <<programVars, nblocks, left, context, current_context, stack, tree, seen>>
  BY DEF IInv, IdleInv, GenerateVertices
<1>2. /\ records' \in Seq(Record) /\ stack' \in Seq(Indices(context', records'))
      /\ OpenFrames(context', records', stack') = <<>>
  BY <1>1, EmptySeq DEF OpenFrames
<1>3. OpenFrames(context', records', stack') \in Seq(Functions)
  BY <1>2, EmptySeq
<1>4. TypeOK'
  BY <1>1, <1>2, <1>3 DEF TypeOK, Indices, programVars
<1> QED
  BY <1>1, <1>4 DEF IInv, ContextInv, StackInv, IdleInv, PanicOnlyWithGaps, programVars

LEMMA NextBlockInv ==
  ASSUME IInv, NextBlock
  PROVE  IInv'
<1>1. /\ TypeOK /\ rstate = "drawn" /\ rstate' \in {"wait", "done"}
      /\ context' = current_context /\ records = <<>> /\ stack = <<>>
      /\ tree' = {} /\ seen' = <<>>
      /\ UNCHANGED <<programVars, nblocks, left, records, current_context, stack>>
  BY DEF IInv, IdleInv, NextBlock
<1>2. context' \in Seq(Functions)
  BY <1>1 DEF TypeOK
<1>3. OpenFrames(context', records', stack') = <<>>
  BY <1>1, EmptySeq DEF OpenFrames
<1>4. TypeOK'
  <2>1. \A S : <<>> \in Seq(S)
    BY EmptySeq
  <2> QED
    BY <1>1, <1>2, <1>3, <2>1, Zenon DEF TypeOK, programVars
<1> QED
  BY <1>1, <1>4 DEF IInv, ContextInv, StackInv, IdleInv, PanicOnlyWithGaps, programVars

LEMMA UnrecordedInv ==
  ASSUME IInv, Unrecorded
  PROVE  IInv'
<1>1. /\ TypeOK /\ ~Stopped /\ gaps' = TRUE
      /\ UNCHANGED <<tracing, rstate, nblocks, left, records, context, current_context,
                     stack, tree, seen>>
  BY DEF IInv, Unrecorded, blockVars
<1>2. frames' \in Seq(Functions)
  <2>1. frames \in Seq(Functions)
    BY <1>1 DEF TypeOK
  <2>2. ASSUME NEW f \in Functions, frames' = Append(frames, f)
        PROVE  frames' \in Seq(Functions)
    BY <2>1, <2>2, AppendSeq
  <2>3. ASSUME frames # <<>>, frames' = ButLast(frames)
        PROVE  frames' \in Seq(Functions)
    BY <2>1, <2>3, ButLastSeq
  <2> QED
    BY <2>2, <2>3 DEF Unrecorded
<1>3. TypeOK'
  BY <1>1, <1>2 DEF TypeOK
<1> QED
  BY <1>1, <1>3 DEF IInv, ContextInv, StackInv, IdleInv, PanicOnlyWithGaps

LEMMA NextInv == IInv /\ [Next]_vars => IInv'
<1> SUFFICES ASSUME IInv, [Next]_vars PROVE IInv'
  OBVIOUS
<1>1. ASSUME NEW on \in BOOLEAN, Switch(on)
      PROVE  IInv'
  BY <1>1 DEF Switch, blockVars, IInv, TypeOK, ContextInv, StackInv, IdleInv, PanicOnlyWithGaps
<1>2. CASE UNCHANGED vars
  BY <1>2 DEF vars, IInv, TypeOK, ContextInv, StackInv, IdleInv, PanicOnlyWithGaps
<1> QED
  BY <1>1, <1>2, UnrecordedInv, BeginBlockInv, EnterInv, ExitInv, AccessInv, UnfilledInv,
     EndBlockInv, GenerateVerticesInv, NextBlockInv
  DEF Next

\* The inductive invariant of the reader.
THEOREM Invariance == Spec => []IInv
  BY InitInv, NextInv, PTL DEF Spec

\* An index never points past the records or the context of its block.
THEOREM TypeCorrect == Spec => []TypeOK
  BY Invariance, PTL DEF IInv

\* BuildStree's stack denotes the traced program's call stack in every block.
THEOREM StackDenotesHolds == Spec => []StackDenotes
<1>1. IInv => StackDenotes
  BY DEF IInv, StackInv, StackDenotes
<1> QED
  BY Invariance, <1>1, PTL

\* BuildStree panics only on traces with unrecorded calls.
THEOREM PanicOnlyWithGapsHolds == Spec => []PanicOnlyWithGaps
  BY Invariance, PTL DEF IInv

-----------------------------------------------------------------------------
(* The tree denotes the call stack of every record.  The intervals of the   *)
(* tree and the open frames are followed from record to record; when no      *)
(* frame is left open, what covers a record is what a query of the tree finds.*)

Ascending(s) == \A i, j \in 1..Len(s) : i < j => s[i] < s[j]
Elements(s)  == {s[i] : i \in 1..Len(s)}

\* The frames around record q: those that were left later, which have an
\* interval, and those that are still open.
Closed(q) == {v.from : v \in {w \in tree : w.from <= q /\ q <= w.to}}
Open(q)   == {e \in Elements(stack) : e <= q}
Around(q) == IF rstate = "index" THEN Closed(q) \cup Open(q) ELSE Closed(q)

\* The indices E, in their order, denote the program's stack at record q.
Denotes(E, q) ==
  \E s \in Seq(Indices(context, records)) :
    Ascending(s) /\ Elements(s) = E /\ OpenFrames(context, records, s) = seen[q + 1]

\* A frame is entered after those around it, and left before any later record.
BlockInv ==
  rstate \in {"index", "indexed"} =>
    /\ Ascending(stack) /\ Len(seen) = Len(records)
    /\ rstate = "index" => \A v \in tree : v.to < Len(records)
    /\ rstate = "indexed" => Len(records) = NRec
CoverInv ==
  rstate \in {"index", "indexed"} /\ ~gaps =>
    \A q \in 0..Len(records) - 1 : Denotes(Around(q), q)

RInv == IInv /\ BlockInv /\ CoverInv

-----------------------------------------------------------------------------
(* What FramesOf makes of a set of indices.                                 *)

\* The number of elements of an ascending sequence up to its i-th is i.
LEMMA PrefixRank ==
  ASSUME NEW s \in Seq(Int), Ascending(s), NEW i \in 0..Len(s)
  PROVE  Cardinality({s[j] : j \in 1..i}) = i
<1> DEFINE T == {s[j] : j \in 1..i}
           f == [j \in 1..i |-> s[j]]
<1>1. Len(s) \in Nat /\ i \in Nat /\ \A j \in 1..Len(s) : s[j] \in Int
  BY ElementOfSeq
<1>2. f \in [1..i -> T] /\ \A t \in T : \E j \in 1..i : f[j] = t
  OBVIOUS
<1>3. ASSUME NEW a \in 1..i, NEW b \in 1..i, f[a] = f[b]
      PROVE  a = b
  <2>1. a \in 1..Len(s) /\ b \in 1..Len(s) /\ s[a] = s[b] /\ s[a] \in Int
    BY <1>1, <1>3
  <2>2. ~(a < b) /\ ~(b < a)
    BY <2>1 DEF Ascending
  <2> QED
    BY <2>1, <2>2
<1>4. f \in Bijection(1..i, T)
  <2> HIDE DEF f, T
  <2> QED
    BY <1>2, <1>3, Fun_IsBij
<1> HIDE DEF f, T
<1>5. ExistsBijection(1..i, T)
  BY <1>4, Fun_ExistsBij
<1>6. IsFiniteSet(1..i) /\ Cardinality(1..i) = i
  BY <1>1, FS_Interval
<1>7. Cardinality(T) = i
  BY <1>5, <1>6, FS_Bijection
<1> QED
  BY <1>7 DEF T

\* Sorting a set of indices by rank gives back the ascending sequence of them.
LEMMA SortedByRank ==
  ASSUME NEW s \in Seq(Int), Ascending(s), NEW E, E = Elements(s)
  PROVE  /\ Cardinality(E) = Len(s)
         /\ \A i \in 1..Len(s) :
              (CHOOSE e \in E : Cardinality({d \in E : d <= e}) = i) = s[i]
<1>1. Len(s) \in Nat /\ \A j \in 1..Len(s) : s[j] \in Int /\ s[j] \in E
  BY ElementOfSeq DEF Elements
<1>2. Cardinality(E) = Len(s)
  <2>1. E = {s[j] : j \in 1..Len(s)} /\ Len(s) \in 0..Len(s)
    BY <1>1 DEF Elements
  <2> QED
    BY <2>1, PrefixRank
<1>3. ASSUME NEW i \in 1..Len(s)
      PROVE  Cardinality({d \in E : d <= s[i]}) = i
  <2>1. i \in 0..Len(s) /\ \A j \in 1..Len(s) : s[j] <= s[i] <=> j <= i
    BY <1>1 DEF Ascending
  <2>2. {d \in E : d <= s[i]} = {s[j] : j \in 1..i}
    <3>1. ASSUME NEW d \in E, d <= s[i]
          PROVE  d \in {s[j] : j \in 1..i}
      <4>1. PICK j \in 1..Len(s) : d = s[j]
        BY DEF Elements
      <4>2. j \in 1..i
        BY <1>1, <2>1, <3>1, <4>1
      <4> QED
        BY <4>1, <4>2
    <3>2. ASSUME NEW j \in 1..i
          PROVE  s[j] \in E /\ s[j] <= s[i]
      BY <1>1, <2>1
    <3> QED
      BY <3>1, <3>2
  <2> QED
    BY <2>1, <2>2, PrefixRank
<1>4. ASSUME NEW i \in 1..Len(s)
      PROVE  (CHOOSE e \in E : Cardinality({d \in E : d <= e}) = i) = s[i]
  <2>1. s[i] \in E /\ Cardinality({d \in E : d <= s[i]}) = i
    BY <1>1, <1>3
  <2>2. ASSUME NEW e \in E, Cardinality({d \in E : d <= e}) = i
        PROVE  e = s[i]
    <3>1. PICK j \in 1..Len(s) : e = s[j]
      BY DEF Elements
    <3>2. Cardinality({d \in E : d <= s[j]}) = j
      BY <1>3
    <3> QED
      BY <2>2, <3>1, <3>2
  <2> QED
    BY <2>1, <2>2
<1> QED
  BY <1>2, <1>4

\* Indices give the frames that they denote.
LEMMA StackFound ==
  ASSUME TypeOK, NEW q \in Int, NEW X, Denotes(X, q)
  PROVE  FramesOf(X) = seen[q + 1]
<1>1. PICK s \in Seq(Indices(context, records)) :
        /\ Ascending(s) /\ Elements(s) = X
        /\ OpenFrames(context, records, s) = seen[q + 1]
  BY DEF Denotes
<1>2. s \in Seq(Int)
  <2>1. Len(context) \in Nat /\ Len(records) \in Nat
    BY DEF TypeOK
  <2>2. Indices(context, records) \subseteq Int
    BY <2>1 DEF Indices
  <2> QED
    BY <2>2, SeqMono
<1>3. /\ Cardinality(X) = Len(s)
      /\ \A i \in 1..Len(s) :
           (CHOOSE e \in X : Cardinality({d \in X : d <= e}) = i) = s[i]
  <2>1. Ascending(s) /\ Elements(s) = X
    BY <1>1
  <2>2. /\ Cardinality(Elements(s)) = Len(s)
        /\ \A i \in 1..Len(s) :
             (CHOOSE e \in Elements(s) : Cardinality({d \in Elements(s) : d <= e}) = i) = s[i]
    BY <1>2, <2>1, SortedByRank
  <2> QED
    BY <2>1, <2>2
<1>4. FramesOf(X) = [i \in 1..Cardinality(X) |->
        Entry(context, records,
              CHOOSE e \in X : Cardinality({d \in X : d <= e}) = i)]
  BY DEF FramesOf
<1>5. FramesOf(X) = [i \in 1..Len(s) |-> Entry(context, records, s[i])]
  BY <1>3, <1>4
<1> QED
  BY <1>1, <1>5 DEF OpenFrames

-----------------------------------------------------------------------------
(* What a step does to the frames around the records.                       *)

\* The frames that a record of the block has around it denote the same stack
\* when another record follows.
LEMMA OldRecord ==
  ASSUME TypeOK, NEW r \in Record, NEW t \in Seq(Functions),
         records' = Append(records, r), context' = context, seen' = Append(seen, t),
         Len(seen) = Len(records),
         NEW q \in 0..Len(records) - 1, NEW E, Denotes(E, q)
  PROVE  Denotes(E, q)'
<1>1. PICK s \in Seq(Indices(context, records)) :
        /\ Ascending(s) /\ Elements(s) = E
        /\ OpenFrames(context, records, s) = seen[q + 1]
  BY DEF Denotes
<1>2. /\ s \in Seq(Indices(context', records'))
      /\ OpenFrames(context', records', s) = OpenFrames(context, records, s)
  BY StackKept DEF TypeOK
<1>3. seen'[q + 1] = seen[q + 1]
  <2>1. q + 1 \in 1..Len(seen) /\ seen \in Seq(Seq(Functions))
    BY DEF TypeOK
  <2> QED
    BY <2>1, AppendSeq
<1> QED
  BY <1>1, <1>2, <1>3 DEF Denotes


\* A record more, of whatever kind: those before it keep what is around them,
\* and around it are the frames on the stack.
LEMMA RecordTaken ==
  ASSUME RInv, IInv', rstate = "index", rstate' = "index", gaps' = gaps,
         NEW r \in Record,
         records' = Append(records, r), context' = context, seen' = Append(seen, frames'),
         NEW n, n = Len(records), Around(n)' = Elements(stack'),
         \A q \in 0..n - 1 : Around(q)' = Around(q),
         Ascending(stack'), \A v \in tree' : v.to <= Len(records)
  PROVE  RInv'
<1>1. /\ TypeOK /\ BlockInv /\ CoverInv /\ Len(records) \in Nat
      /\ frames' \in Seq(Functions) /\ seen \in Seq(Seq(Functions)) /\ records \in Seq(Record)
      /\ stack' \in Seq(Indices(context', records'))
  BY DEF RInv, IInv, TypeOK, Indices
<1>2. Len(seen) = Len(records) /\ Len(records') = Len(records) + 1
      /\ Len(seen') = Len(records')
  BY <1>1, AppendSeq DEF BlockInv
<1>3. BlockInv'
  <2>1. \A v \in tree' : v.to \in Int
    BY <1>1 DEF IInv, TypeOK
  <2>2. \A v \in tree' : v.to < Len(records')
    BY <1>1, <1>2, <2>1
  <2> QED
    BY <1>2, <2>2 DEF BlockInv
<1>4. ASSUME ~gaps, NEW q \in 0..Len(records) - 1
      PROVE  Denotes(Around(q), q)'
  <2>1. Denotes(Around(q), q)
    BY <1>1, <1>4 DEF CoverInv
  <2> DEFINE E == Around(q)
  <2>2. Around(q)' = E
    OBVIOUS
  <2> HIDE DEF E
  <2>3. Denotes(E, q)
    BY <2>1 DEF E
  <2>4. \E s \in Seq(Indices(context', records')) :
          /\ Ascending(s) /\ Elements(s) = E
          /\ OpenFrames(context', records', s) = seen'[q + 1]
    BY <1>1, <1>2, <2>3, OldRecord DEF Denotes
  <2> QED
    BY <2>2, <2>4 DEF Denotes
<1>5. ASSUME ~gaps
      PROVE  Denotes(Around(n), n)'
  <2>1. OpenFrames(context', records', stack') = frames'
    BY <1>5 DEF IInv, StackInv
  <2>2. seen'[n + 1] = frames'
    BY <1>1, <1>2, <1>5, AppendSeq
  <2>3. \E s \in Seq(Indices(context', records')) :
          /\ Ascending(s) /\ Elements(s) = Around(n)'
          /\ OpenFrames(context', records', s) = seen'[n + 1]
    BY <1>1, <1>5, <2>1, <2>2
  <2> QED
    BY <2>3 DEF Denotes
<1>6. CoverInv'
  <2>1. ASSUME NEW q \in 0..Len(records') - 1, ~gaps
        PROVE  Denotes(Around(q), q)'
    <3>1. q \in 0..Len(records) - 1 \/ q = n
      BY <1>1, <1>2
    <3> QED
      BY <1>4, <1>5, <2>1, <3>1
  <2> QED
    BY <2>1 DEF CoverInv
<1> QED
  BY <1>3, <1>6 DEF RInv

\* Around the record being taken there is no interval yet.
LEMMA NewestOpen ==
  ASSUME RInv, rstate = "index"
  PROVE  /\ \A v \in tree : v.to \in Int /\ v.to < Len(records)
         /\ \A i \in 1..Len(stack) : stack[i] \in Int /\ stack[i] < Len(records)
         /\ Len(stack) \in Nat /\ Len(records) \in Nat
<1>1. /\ TypeOK /\ BlockInv /\ Len(records) \in Nat /\ Len(context) \in Nat
      /\ stack \in Seq(Indices(context, records)) /\ Len(stack) \in Nat
  BY DEF RInv, IInv, TypeOK, Indices
<1>2. \A i \in 1..Len(stack) : stack[i] \in Indices(context, records)
  BY <1>1, ElementOfSeq
<1> QED
  BY <1>1, <1>2 DEF BlockInv, TypeOK, Indices

\* A record that opens and leaves no frame.
LEMMA PlainRecord ==
  ASSUME RInv, IInv', rstate = "index", gaps' = gaps, NEW r \in Record,
         records' = Append(records, r), context' = context, seen' = Append(seen, frames'),
         UNCHANGED <<rstate, stack, tree>>
  PROVE  RInv'
<1>1. /\ \A v \in tree : v.to \in Int /\ v.to < Len(records)
      /\ \A i \in 1..Len(stack) : stack[i] \in Int /\ stack[i] < Len(records)
      /\ Len(stack) \in Nat /\ Len(records) \in Nat
  BY NewestOpen
<1>2. \A q : Around(q)' = Around(q)
  BY DEF Around, Closed, Open
<1>3. PICK n : n = Len(records)
  OBVIOUS
<1>4. Around(n)' = Elements(stack')
  <2>1. Closed(n) = {}
    BY <1>1, <1>3 DEF Closed
  <2>2. Open(n) = Elements(stack)
    BY <1>1, <1>3 DEF Open, Elements
  <2>3. Around(n)' = Closed(n) \cup Open(n)
    BY DEF Around, Closed, Open
  <2> QED
    BY <2>1, <2>2, <2>3
<1>5. Ascending(stack')
  BY DEF RInv, BlockInv
<1>6. \A v \in tree' : v.to <= Len(records)
  BY <1>1
<1> QED
  BY <1>2, <1>3, <1>4, <1>5, <1>6, RecordTaken


\* An entry opens a frame after all the others.
LEMMA EnterRecord ==
  ASSUME RInv, IInv', NEW f \in Functions, Enter(f)
  PROVE  RInv'
<1> DEFINE r == [type |-> "enter", fn |-> f]
<1>1. /\ r \in Record /\ rstate = "index" /\ rstate' = "index" /\ tree' = tree
      /\ records' = Append(records, r) /\ gaps' = gaps /\ context' = context
      /\ seen' = Append(seen, frames') /\ stack' = Append(stack, Len(records))
  BY DEF Enter, Take, Record, Opened
<1> HIDE DEF r
<1>2. /\ \A v \in tree : v.to \in Int /\ v.to < Len(records)
      /\ \A i \in 1..Len(stack) : stack[i] \in Int /\ stack[i] < Len(records)
      /\ Len(stack) \in Nat /\ Len(records) \in Nat
  BY <1>1, NewestOpen
<1>3. PICK n : n = Len(records)
  OBVIOUS
<1>4. /\ Len(stack') = Len(stack) + 1 /\ stack'[Len(stack) + 1] = n
      /\ \A i \in 1..Len(stack) : stack'[i] = stack[i]
  <2>1. stack \in Seq(Int) /\ n \in Int
    <3>1. stack \in Seq(Indices(context, records)) /\ Len(context) \in Nat
      BY DEF RInv, IInv, TypeOK, Indices
    <3>2. Indices(context, records) \subseteq Int
      BY <1>2, <3>1 DEF Indices
    <3> QED
      BY <1>2, <1>3, <3>1, <3>2, SeqMono
  <2> QED
    BY <1>1, <1>3, <2>1, AppendSeq
<1>5. Ascending(stack')
  <2>1. Ascending(stack)
    BY <1>1 DEF RInv, BlockInv
  <2>2. ASSUME NEW i \in 1..Len(stack'), NEW j \in 1..Len(stack'), i < j
        PROVE  stack'[i] < stack'[j]
    <3>1. i \in 1..Len(stack)
      BY <1>2, <1>4, <2>2
    <3>2. CASE j \in 1..Len(stack)
      BY <1>4, <2>1, <2>2, <3>1, <3>2 DEF Ascending
    <3>3. CASE j = Len(stack) + 1
      BY <1>2, <1>3, <1>4, <3>1, <3>3
    <3> QED
      BY <1>2, <1>4, <3>2, <3>3
  <2> QED
    BY <2>2 DEF Ascending
<1>6. Elements(stack') = Elements(stack) \cup {n}
  <2>1. 1..Len(stack') = (1..Len(stack)) \cup {Len(stack) + 1}
    BY <1>2, <1>4
  <2> QED
    BY <1>4, <2>1 DEF Elements
<1>7. \A q \in 0..n - 1 : Around(q)' = Around(q)
  <2>1. ASSUME NEW q \in 0..n - 1
        PROVE  Around(q)' = Around(q)
    <3>1. Closed(q)' = Closed(q)
      BY <1>1 DEF Closed
    <3>2. Open(q)' = {e \in Elements(stack') : e <= q}
      BY DEF Open
    <3>3. ~(n <= q)
      BY <1>2, <1>3
    <3>4. Open(q)' = Open(q)
      BY <1>6, <3>2, <3>3 DEF Open
    <3> QED
      BY <1>1, <3>1, <3>4 DEF Around
  <2> QED
    BY <2>1
<1>8. Around(n)' = Elements(stack')
  <2>1. Closed(n)' = {}
    BY <1>1, <1>2, <1>3 DEF Closed
  <2>2. \A e \in Elements(stack') : e <= n
    <3>1. \A e \in Elements(stack) : e <= n
      BY <1>2, <1>3 DEF Elements
    <3>2. n <= n
      BY <1>2, <1>3
    <3> QED
      BY <1>6, <3>1, <3>2
  <2>3. Open(n)' = Elements(stack')
    BY <2>2 DEF Open
  <2> QED
    BY <1>1, <2>1, <2>3 DEF Around
<1>9. \A v \in tree' : v.to <= Len(records)
  BY <1>1, <1>2
<1> QED
  BY <1>1, <1>3, <1>5, <1>7, <1>8, <1>9, RecordTaken

\* An exit closes the frame opened last: its interval ends before the exit.
LEMMA ExitRecord ==
  ASSUME RInv, IInv', Exit
  PROVE  RInv'
<1> DEFINE r == [type |-> "exit", fn |-> LastOf(frames)]
<1>1. TypeOK /\ r \in Record /\ Take(r)
  BY ButLastSeq DEF RInv, IInv, TypeOK, Exit, Record
<1>2. /\ rstate = "index" /\ records' = Append(records, r) /\ gaps' = gaps
      /\ context' = context /\ seen' = Append(seen, frames')
  BY <1>1 DEF Take
<1> HIDE DEF r
<1>3. CASE stack = <<>>
  <2>1. rstate' = "panic"
    BY <1>3 DEF Exit
  <2> QED
    BY <2>1 DEF RInv, BlockInv, CoverInv
<1>4. CASE stack # <<>>
  <2> DEFINE top == LastOf(stack)
             v0  == [from |-> top, to |-> Len(records) - 1]
  <2>1. rstate' = "index" /\ tree' = tree \cup {v0} /\ stack' = ButLast(stack)
    BY <1>2, <1>4 DEF Exit, Interval, Pop
  <2>2. /\ \A v \in tree : v.to \in Int /\ v.to < Len(records)
        /\ \A i \in 1..Len(stack) : stack[i] \in Int /\ stack[i] < Len(records)
        /\ Len(stack) \in Nat /\ Len(records) \in Nat
    BY <1>2, NewestOpen
  <2>3. /\ Len(stack') = Len(stack) - 1 /\ Len(stack) > 0 /\ top = stack[Len(stack)]
        /\ \A i \in 1..Len(stack) - 1 : stack'[i] = stack[i]
    <3>1. stack \in Seq(Indices(context, records))
      BY <1>1 DEF TypeOK, Indices
    <3> QED
      BY <1>4, <2>1, <3>1, ButLastSeq DEF LastOf
  <2>4. Ascending(stack')
    <3>1. Ascending(stack)
      BY <1>2 DEF RInv, BlockInv
    <3> QED
      BY <2>2, <2>3, <3>1 DEF Ascending
  <2>5. Elements(stack) = Elements(stack') \cup {top}
    <3>1. 1..Len(stack) = (1..Len(stack')) \cup {Len(stack)}
      BY <2>2, <2>3
    <3> QED
      BY <2>3, <3>1 DEF Elements
  <2>6. PICK n : n = Len(records)
    OBVIOUS
  <2>7. ASSUME NEW q \in 0..n - 1
        PROVE  Around(q)' = Around(q)
    <3> DEFINE own == {e \in {top} : e <= q}
    <3>1. v0.from = top /\ v0.to = n - 1 /\ q <= n - 1
      BY <2>2, <2>6
    <3> HIDE DEF v0, top
    <3>2. {w \in tree' : w.from <= q /\ q <= w.to}
            = {w \in tree : w.from <= q /\ q <= w.to}
              \cup {w \in {v0} : v0.from <= q}
      BY <2>1, <3>1
    <3>3. Closed(q)' = {v.from : v \in {w \in tree' : w.from <= q /\ q <= w.to}}
      BY DEF Closed
    <3>4. Closed(q)' = Closed(q) \cup own
      BY <3>1, <3>2, <3>3 DEF Closed
    <3>5. Open(q)' = {e \in Elements(stack') : e <= q}
      BY DEF Open
    <3>6. Open(q) = Open(q)' \cup own
      BY <2>5, <3>5 DEF Open
    <3> HIDE DEF own
    <3> QED
      BY <1>2, <2>1, <3>4, <3>6 DEF Around
  <2>8. \A v \in tree' : v.to < n
    BY <2>1, <2>2, <2>6
  <2>9. Around(n)' = Elements(stack')
    <3>1. \A v \in tree' : ~(n <= v.to)
      <4>1. \A v \in tree' : v.to \in Int
        BY <2>1, <2>2
      <4> QED
        BY <2>2, <2>6, <2>8, <4>1
    <3>2. Closed(n)' = {}
      BY <3>1 DEF Closed
    <3>3. \A e \in Elements(stack') : e <= n
      BY <2>2, <2>3, <2>6 DEF Elements
    <3>4. Open(n)' = Elements(stack')
      BY <3>3 DEF Open
    <3> QED
      BY <2>1, <3>2, <3>4 DEF Around
  <2>10. \A v \in tree' : v.to <= Len(records)
    BY <2>1, <2>2
  <2> HIDE DEF v0, top
  <2> QED
    BY <1>1, <1>2, <2>1, <2>4, <2>6, <2>7, <2>9, <2>10, RecordTaken
<1> QED
  BY <1>3, <1>4


\* A block begins with the frames of the context, in order, and no record.
LEMMA BeginBlockRecord ==
  ASSUME RInv, IInv', NEW k \in 0..Capacity, BeginBlock(k)
  PROVE  RInv'
<1>1. /\ records' = <<>> /\ seen' = <<>> /\ tree' = {} /\ rstate' = "index"
      /\ stack' = [i \in 1..Len(context) |-> i - 1 - Len(context)]
  BY DEF BeginBlock
<1>2. Len(context) \in Nat /\ Len(stack') = Len(context)
  <2>1. Len(context) \in Nat
    BY DEF RInv, IInv, TypeOK
  <2> QED
    BY <1>1, <2>1
<1>3. Ascending(stack')
  BY <1>1, <1>2 DEF Ascending
<1>4. Len(records') = 0 /\ Len(seen') = 0
  BY <1>1
<1>5. BlockInv'
  BY <1>1, <1>3, <1>4 DEF BlockInv
<1>6. CoverInv'
  BY <1>4 DEF CoverInv
<1> QED
  BY <1>5, <1>6 DEF RInv

\* The frames still open at the end of a block get intervals that reach past it.
LEMMA EndBlockRecord ==
  ASSUME RInv, IInv', EndBlock
  PROVE  RInv'
<1> DEFINE past == {[from |-> stack[i], to |-> NRec] : i \in 1..Len(stack)}
<1>1. /\ rstate = "index" /\ rstate' = "indexed" /\ Len(records) = NRec
      /\ tree' = tree \cup past /\ gaps' = gaps /\ NRec \in Nat
      /\ stack' = <<>> /\ UNCHANGED <<records, context, seen>>
  BY CapacityAssumption DEF EndBlock, programVars
<1> HIDE DEF past
<1>2. BlockInv'
  <2>1. Ascending(stack')
    <3>1. Len(stack') = 0
      BY <1>1, EmptySeq
    <3> QED
      BY <3>1 DEF Ascending
  <2> QED
    BY <1>1, <2>1 DEF RInv, BlockInv
<1>3. ASSUME NEW q \in 0..Len(records) - 1
      PROVE  Around(q)' = Around(q)
  <2>1. q <= NRec /\ \A v \in past : v.to = NRec
    BY <1>1, <1>3 DEF past
  <2>2. {v.from : v \in {w \in past : w.from <= q /\ q <= w.to}} = Open(q)
    <3>1. ASSUME NEW i \in 1..Len(stack)
          PROVE  \E v \in past : v.from = stack[i]
      <4>1. [from |-> stack[i], to |-> NRec] \in past
        BY DEF past
      <4>2. [from |-> stack[i], to |-> NRec].from = stack[i]
        OBVIOUS
      <4> QED
        BY <4>1, <4>2
    <3>2. ASSUME NEW v \in past
          PROVE  \E i \in 1..Len(stack) : v.from = stack[i]
      BY DEF past
    <3>3. {v.from : v \in {w \in past : w.from <= q /\ q <= w.to}}
            = {v.from : v \in {w \in past : w.from <= q}}
      BY <2>1
    <3> QED
      BY <3>1, <3>2, <3>3 DEF Open, Elements
  <2>3. Closed(q)' = {v.from : v \in {w \in tree' : w.from <= q /\ q <= w.to}}
    BY DEF Closed
  <2>4. Closed(q)' = Closed(q) \cup Open(q)
    BY <1>1, <2>2, <2>3 DEF Closed
  <2> QED
    BY <1>1, <2>4 DEF Around
<1>4. ASSUME ~gaps, NEW q \in 0..Len(records) - 1
      PROVE  Denotes(Around(q), q)'
  <2>1. Denotes(Around(q), q)
    BY <1>1, <1>4 DEF RInv, CoverInv
  <2> QED
    BY <1>1, <1>3, <2>1 DEF Denotes
<1>5. CoverInv'
  BY <1>1, <1>4 DEF CoverInv
<1> QED
  BY <1>2, <1>5 DEF RInv

LEMMA InitRecord == Init => RInv
<1>1. ASSUME Init
      PROVE  BlockInv /\ CoverInv
  BY <1>1 DEF Init, BlockInv, CoverInv
<1> QED
  BY <1>1, InitInv DEF RInv

LEMMA NextRecord == RInv /\ [Next]_vars => RInv'
<1> SUFFICES ASSUME RInv, [Next]_vars PROVE RInv'
  OBVIOUS
<1>0. IInv' /\ TypeOK
  BY NextInv DEF RInv, IInv
<1>1. ASSUME UNCHANGED <<gaps, rstate, records, context, stack, tree, seen>>
      PROVE  RInv'
  <2>1. BlockInv'
    BY <1>1 DEF RInv, BlockInv
  <2>2. \A q : Denotes(Around(q), q)' = Denotes(Around(q), q)
    BY <1>1 DEF Denotes, Around, Closed, Open
  <2> QED
    BY <1>0, <1>1, <2>1, <2>2 DEF RInv, CoverInv
<1>2. ASSUME NEW on \in BOOLEAN, Switch(on)
      PROVE  RInv'
  BY <1>1, <1>2 DEF Switch, blockVars
<1>3. CASE Unrecorded
  <2>1. gaps' /\ UNCHANGED <<rstate, records, stack, tree, seen>>
    BY <1>3 DEF Unrecorded, blockVars
  <2>2. BlockInv'
    BY <2>1 DEF RInv, BlockInv
  <2> QED
    BY <1>0, <2>1, <2>2 DEF RInv, CoverInv
<1>4. ASSUME NEW k \in 0..Capacity, BeginBlock(k)
      PROVE  RInv'
  BY <1>0, <1>4, BeginBlockRecord
<1>5. ASSUME NEW f \in Functions, Enter(f)
      PROVE  RInv'
  BY <1>0, <1>5, EnterRecord
<1>6. CASE Exit
  BY <1>0, <1>6, ExitRecord
<1>7. CASE Access
  <2>1. /\ UNCHANGED <<frames, rstate, stack, tree, gaps, context>> /\ rstate = "index"
        /\ records' = Append(records, Zero) /\ seen' = Append(seen, frames')
    BY <1>7 DEF Access, Take
  <2>2. Zero \in Record
    BY DEF Zero, Record
  <2> QED
    BY <1>0, <2>1, <2>2, PlainRecord
<1>8. CASE Unfilled
  <2>1. /\ UNCHANGED <<frames, rstate, stack, tree, gaps, context>> /\ rstate = "index"
        /\ records' = Append(records, Zero) /\ seen' = Append(seen, frames')
    BY <1>8 DEF Unfilled, programVars
  <2>2. Zero \in Record
    BY DEF Zero, Record
  <2> QED
    BY <1>0, <2>1, <2>2, PlainRecord
<1>9. CASE EndBlock
  BY <1>0, <1>9, EndBlockRecord
<1>10. CASE GenerateVertices \/ NextBlock
  <2>1. rstate' \in {"wait", "drawn", "done"}
    BY <1>10 DEF GenerateVertices, NextBlock
  <2> QED
    BY <1>0, <2>1 DEF RInv, BlockInv, CoverInv
<1>11. CASE UNCHANGED vars
  BY <1>1, <1>11 DEF vars
<1> QED
  BY <1>2, <1>3, <1>4, <1>5, <1>6, <1>7, <1>8, <1>9, <1>10, <1>11 DEF Next

\* Of every record of an indexed block the tree and the records it was built
\* from give the call stack that the program had there, however its frames began
\* and ended.  (Once the records are dropped they no longer do.)
THEOREM TreeDenotesHolds == Spec => []TreeDenotes
<1>1. RInv => TreeDenotes
  <2> SUFFICES ASSUME RInv, rstate = "indexed", ~gaps, NEW q \in 0..NRec - 1
               PROVE  FramesOf(Query(q)) = seen[q + 1]
    BY DEF TreeDenotes
  <2>1. TypeOK /\ Len(records) = NRec
    BY DEF RInv, IInv, BlockInv
  <2>2. Denotes(Closed(q), q)
    BY <2>1 DEF RInv, CoverInv, Around
  <2>3. Closed(q) = Query(q)
    BY DEF Closed, Query
  <2> QED
    BY <2>1, <2>2, <2>3, StackFound
<1> QED
  BY <1>1, InitRecord, NextRecord, PTL DEF Spec
=============================================================================
