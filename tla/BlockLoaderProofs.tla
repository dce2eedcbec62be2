------------------------- MODULE BlockLoaderProofs -------------------------
(***************************************************************************)
(* Proofs about the loading of a trace, for any number of blocks, any      *)
(* capacities of the two queues and any views.                             *)
(***************************************************************************)
EXTENDS BlockLoader, SequenceTheorems, FiniteSetTheorems, TLAPS

USE SizeAssumption, CapAssumption

-----------------------------------------------------------------------------
(* The blocks are numbered in the order in which they are read for the      *)
(* first time, so how far each goroutine has got is one number.             *)

\* How many blocks the reader has handed to the worker.
Handed ==
  IF eof THEN NBlocks
  ELSE IF rpc \in {"serve", "rearm"} THEN resume
  ELSE IF rpc = "new" THEN rblock ELSE pos

\* How many the worker has posted.
Posted == IF wpc = "receive" THEN Handed ELSE wblock

\* What the goroutines hold where they are.
ControlInv ==
  /\ rpc \in {"serve", "rearm", "new"} => rblock \in Blocks
  /\ wpc # "receive" => wblock \in Blocks /\ Handed = wblock + 1
  /\ mpc \in {"ask", "send", "sent", "render"} => todo # <<>>
  /\ rpc \in {"top", "new"} => ~eof
  /\ rpc = "new" => pos = rblock + 1
  /\ rpc = "drain" /\ ~eof => resume = pos
  /\ Handed \in 0..NBlocks

\* The additions that wait in main_thread_work continue data.blocks and end
\* where the worker is: f numbers each waiting function by the blocks before it.
Numbers(f) ==
  /\ f[1] = Len(blocks) /\ f[Len(work) + 1] = Posted
  /\ \A i \in 1..Len(work) :
       IF work[i].kind = "append" THEN work[i].block = f[i] /\ f[i + 1] = f[i] + 1
                                  ELSE f[i + 1] = f[i]
QueueInv == \E f \in [1..(Len(work) + 1) -> 0..Posted] : Numbers(f)
TodoInv  == \A i \in 1..Len(todo) : todo[i] < Len(blocks)
OrderInv == BlocksInOrder /\ QueueInv /\ TodoInv

\* A request for vertices is in one place, and its Once is not idle.
Serving == rpc \in {"serve", "rearm"}
RequestInv ==
  /\ \A i, j \in 1..Len(detail) : detail[i] = detail[j] => i = j
  /\ \A i \in 1..Len(detail) : onceV[detail[i]] # "idle" /\ (Serving => detail[i] # rblock)
  /\ Serving => onceV[rblock] # "idle"
  /\ mpc = "send" =>
       /\ onceV[Head(todo)] # "idle"
       /\ \A i \in 1..Len(detail) : detail[i] # Head(todo)
       /\ Serving => rblock # Head(todo)

\* A texture that waits to be built waits once, has its vertices, and is not
\* there yet; a block that was prepared has one or the other; a block that was
\* not has nothing.
Prepared(b) == b < Posted \/ (b = Posted /\ wpc \in {"texture", "return", "post"})
Started(b)  == b < Posted \/ (b = Posted /\ wpc \in {"return", "post"})
TextureJob(i) == work[i].kind = "texture"
Awaited(b)  == onceT[b] # "idle" /\ vertices[b] /\ ~tex[b]
PostingInv  == \A b \in posting : Awaited(b)
JobInv ==
  \A i \in 1..Len(work) : TextureJob(i) =>
    /\ Awaited(work[i].block) /\ work[i].block \notin posting
    /\ \A j \in 1..Len(work) : TextureJob(j) /\ work[j].block = work[i].block => i = j
StageInv ==
  \A b \in Blocks : /\ Prepared(b) => vertices[b] \/ tex[b]
                    /\ ~Started(b) => ~tex[b] /\ onceT[b] = "idle"
TextureInv == PostingInv /\ JobInv /\ StageInv

IInv == TypeOK /\ ControlInv /\ OrderInv /\ RequestInv /\ TextureInv

-----------------------------------------------------------------------------
\* The head and the tail of a queue that holds something.
LEMMA QueueHead ==
  ASSUME NEW S, NEW q \in Seq(S), q # <<>>
  PROVE  /\ Head(q) = q[1] /\ Head(q) \in S /\ 1 \in 1..Len(q)
         /\ Tail(q) \in Seq(S) /\ Len(Tail(q)) = Len(q) - 1
         /\ \A i \in 1..Len(Tail(q)) : Tail(q)[i] = q[i + 1]
  BY HeadTailProperties, EmptySeq

\* A queue with an element more.
LEMMA QueueAppend ==
  ASSUME NEW S, NEW q \in Seq(S), NEW e \in S
  PROVE  /\ Append(q, e) \in Seq(S) /\ Len(Append(q, e)) = Len(q) + 1
         /\ \A i \in 1..Len(q) : Append(q, e)[i] = q[i]
         /\ Append(q, e)[Len(q) + 1] = e
  BY AppendProperties

\* What is drawn are blocks that are loaded.
LEMMA VisibleBlocks ==
  ASSUME TypeOK, NEW v \in Views
  PROVE  /\ Visible(v) \in Seq(Blocks)
         /\ \A i \in 1..Len(Visible(v)) : \E j \in 1..Len(blocks) : Visible(v)[i] = blocks[j]
<1>1. /\ v.start \in Nat /\ v.width \in Nat /\ blocks \in Seq(Blocks) /\ Len(blocks) \in Nat
  BY ViewAssumption, LenProperties DEF TypeOK
<1>2. Shown(v) \in Int /\ \A i \in 1..Shown(v) : v.start + i \in 1..Len(blocks)
  BY <1>1 DEF Shown
<1>3. \A i \in 1..Shown(v) : blocks[v.start + i] \in Blocks
  BY <1>1, <1>2, ElementOfSeq
<1>4. CASE Shown(v) >= 0
  <2>1. Visible(v) \in Seq(Blocks) /\ Len(Visible(v)) = Shown(v)
    BY <1>2, <1>3, <1>4 DEF Visible
  <2> QED
    BY <1>2, <2>1 DEF Visible
<1>5. CASE Shown(v) < 0
  <2>1. 1..Shown(v) = {}
    BY <1>2, <1>5
  <2>2. Visible(v) = <<>>
    BY <2>1 DEF Visible
  <2> QED
    BY <2>2, EmptySeq
<1> QED
  BY <1>2, <1>4, <1>5

\* The reader's steps keep the types.
LEMMA ReaderType ==
  ASSUME TypeOK, ControlInv, Reader
  PROVE  TypeOK'
<1>1. CASE WaitForRAM
  BY <1>1 DEF TypeOK, WaitForRAM, workerVars, blockVars, queueVars, mainVars
<1>2. CASE TakeRequest
  <2>1. Head(detail) \in Blocks /\ detail' \in Seq(Blocks) /\ Len(detail') <= DetailCap
    BY <1>2, QueueHead, LenProperties DEF TypeOK, TakeRequest, Taken
  <2>2. pos' \in 0..NBlocks
    BY <1>2, <2>1 DEF TakeRequest, Taken, Blocks
  <2> QED
    BY <1>2, <2>1, <2>2 DEF TypeOK, TakeRequest, Taken, workerVars, mainVars
<1>3. CASE Serve
  BY <1>3 DEF TypeOK, Serve, workerVars, queueVars, mainVars
<1>4. CASE Rearm
  BY <1>4 DEF TypeOK, Rearm, Rearmed, OnceState, workerVars, queueVars, mainVars
<1>5. CASE ReadBlock
  <2>1. /\ pos' \in 0..NBlocks /\ resume' \in 0..NBlocks /\ eof' \in BOOLEAN
        /\ rblock' \in Blocks \cup {NoBlock} /\ status' \in {"running", "fatal", "exited"}
        /\ rpc' \in {"drain", "new"}
    <3>1. CASE pos <= NBlocks - 1
      BY <1>5, <3>1 DEF TypeOK, ReadBlock, ReadingTo, Blocks
    <3>2. CASE ~(pos <= NBlocks - 1)
      BY <1>5, <3>2 DEF TypeOK, ReadBlock, ReadingTo
    <3> QED
      BY <3>1, <3>2
  <2> QED
    BY <1>5, <2>1 DEF TypeOK, ReadBlock, ReadingTo, workerVars, blockVars, queueVars, mainVars
<1> QED
  BY <1>1, <1>2, <1>3, <1>4, <1>5 DEF Reader

\* So do those of the worker and the texture goroutines.
LEMMA WorkerType ==
  ASSUME TypeOK, ControlInv, Worker \/ \E b \in Blocks : PostTexture(b)
  PROVE  TypeOK'
<1>1. CASE HandOver
  BY <1>1 DEF TypeOK, HandOver, blockVars, queueVars, mainVars
<1>2. CASE Prepare
  BY <1>2 DEF TypeOK, Prepare, readerVars, queueVars, mainVars
<1>3. CASE StartTexture
  BY <1>3 DEF TypeOK, ControlInv, StartTexture, OnceState, readerVars, mainVars
<1>4. CASE TextureReturns
  <2>1. onceT' \in [Blocks -> OnceState] /\ status' \in {"running", "fatal", "exited"}
    BY <1>4 DEF TypeOK, TextureReturns, DoReturns, OnceState
  <2> QED
    BY <1>4, <2>1 DEF TypeOK, TextureReturns, readerVars, queueVars, mainVars
<1>5. CASE PostBlock
  <2>1. [kind |-> "append", block |-> wblock] \in Job
    BY <1>5 DEF PostBlock, ControlInv, Job
  <2>2. work' \in Seq(Job) /\ Len(work') <= WorkCap
    BY <1>5, <2>1, QueueAppend, LenProperties DEF TypeOK, PostBlock
  <2> QED
    BY <1>5, <2>2 DEF TypeOK, PostBlock, readerVars, blockVars, mainVars
<1>6. ASSUME NEW b \in Blocks, PostTexture(b)
      PROVE  TypeOK'
  <2>1. [kind |-> "texture", block |-> b] \in Job
    BY DEF Job
  <2>2. work' \in Seq(Job) /\ Len(work') <= WorkCap
    BY <1>6, <2>1, QueueAppend, LenProperties DEF TypeOK, PostTexture
  <2> QED
    BY <1>6, <2>2 DEF TypeOK, PostTexture, readerVars, workerVars, blockVars, mainVars
<1> QED
  BY <1>1, <1>2, <1>3, <1>4, <1>5, <1>6 DEF Worker

\* And those of the main thread.
LEMMA MainType ==
  ASSUME TypeOK, ControlInv, Main
  PROVE  TypeOK'
<1>0. mpc \in {"ask", "send", "sent", "render"} => Head(todo) \in Blocks /\ Tail(todo) \in Seq(Blocks)
  BY QueueHead DEF TypeOK, ControlInv
<1>1. CASE StartFrame
  <2>1. view' \in Views /\ moves' \in 0..MaxMoves
    BY <1>1 DEF TypeOK, StartFrame
  <2>2. todo' \in Seq(Blocks)
    <3>1. Visible(view') \in Seq(Blocks)
      BY <2>1, VisibleBlocks
    <3> QED
      BY <1>1, <3>1 DEF StartFrame
  <2> QED
    BY <1>1, <2>1, <2>2 DEF TypeOK, StartFrame, readerVars, workerVars, blockVars, queueVars
<1>2. CASE DrawRequest
  <2>1. Head(todo) \in Blocks
    BY <1>2, QueueHead DEF TypeOK, DrawRequest, Requesting
  <2>2. posting' \in SUBSET Blocks
    BY <1>2, <2>1 DEF TypeOK, DrawRequest, Requesting
  <2>3. onceT' \in [Blocks -> OnceState]
    BY <1>2, <2>1 DEF TypeOK, DrawRequest, Requesting, OnceState
  <2>4. needed' \in [Blocks -> BOOLEAN]
    BY <1>2, <2>1 DEF TypeOK, DrawRequest, Requesting, Detailed
  <2>5. mpc' \in {"ask", "render"}
    BY <1>2 DEF DrawRequest, Requesting
  <2> QED
    BY <1>2, <2>2, <2>3, <2>4, <2>5 DEF TypeOK, DrawRequest, Requesting, readerVars, workerVars
<1>3. CASE SendRequest
  <2>1. detail' \in Seq(Blocks) /\ Len(detail') <= DetailCap
    BY <1>0, <1>3, QueueAppend, LenProperties DEF TypeOK, SendRequest
  <2> QED
    BY <1>3, <2>1 DEF TypeOK, SendRequest, readerVars, workerVars, blockVars
<1>4. CASE RequestReturns
  <2>1. onceV' \in [Blocks -> OnceState] /\ status' \in {"running", "fatal", "exited"}
    BY <1>4 DEF TypeOK, RequestReturns, DoReturns, OnceState
  <2> QED
    BY <1>4, <2>1 DEF TypeOK, RequestReturns, readerVars, workerVars, queueVars
<1>5. CASE DrawRender
  <2>1. vertices' \in [Blocks -> BOOLEAN]
    BY <1>0, <1>5 DEF TypeOK, DrawRender, Rendering
  <2> QED
    BY <1>0, <1>5, <2>1 DEF TypeOK, DrawRender, Rendering, readerVars, workerVars, queueVars
<1>6. CASE EndDraw
  BY <1>6 DEF TypeOK, EndDraw, readerVars, workerVars, blockVars, queueVars
<1>7. CASE RunJob
  <2>1. Head(work) \in Job /\ work' \in Seq(Job) /\ Len(work') <= WorkCap
    BY <1>7, QueueHead, LenProperties DEF TypeOK, RunJob, OneJob
  <2>2. Head(work).block \in Blocks
    BY <2>1 DEF Job
  <2>3. CASE BuildTexture(Head(work).block)
    <3>1. /\ tex' \in [Blocks -> BOOLEAN] /\ vertices' \in [Blocks -> BOOLEAN]
          /\ onceT' \in [Blocks -> OnceState] /\ status' \in {"running", "fatal", "exited"}
      BY <2>2, <2>3 DEF TypeOK, BuildTexture, OnceState
    <3> QED
      BY <1>7, <2>1, <2>3, <3>1
         DEF TypeOK, RunJob, OneJob, BuildTexture, readerVars, workerVars
  <2>4. CASE AppendBlock(Head(work).block)
    <3>1. blocks' \in Seq(Blocks)
      BY <2>2, <2>4, QueueAppend DEF TypeOK, AppendBlock
    <3> QED
      BY <1>7, <2>1, <2>4, <3>1
         DEF TypeOK, RunJob, OneJob, AppendBlock, readerVars, workerVars, blockVars
  <2> QED
    BY <1>7, <2>3, <2>4 DEF RunJob, OneJob, DoJob
<1>8. CASE NoJob
  BY <1>8 DEF TypeOK, NoJob, readerVars, workerVars, blockVars, queueVars
<1>9. CASE RequestVertices
  <2>1. onceV' \in [Blocks -> OnceState] /\ mpc' \in {"send", "render"}
    BY <1>0, <1>9 DEF TypeOK, RequestVertices, OnceState
  <2> QED
    BY <1>9, <2>1 DEF TypeOK, RequestVertices, readerVars, workerVars, queueVars
<1> QED
  BY <1>1, <1>2, <1>3, <1>4, <1>5, <1>6, <1>7, <1>8, <1>9 DEF Main

\* Every step keeps the types.
LEMMA TypeStep == IInv /\ [Next]_vars => TypeOK'
<1> SUFFICES ASSUME IInv, [Next]_vars
             PROVE  TypeOK'
  OBVIOUS
<1>1. TypeOK /\ ControlInv
  BY DEF IInv
<1>2. CASE Quit
  BY <1>1, <1>2 DEF TypeOK, Quit, readerVars, workerVars, blockVars, queueVars, mainVars
<1>3. CASE UNCHANGED vars
  BY <1>1, <1>3
     DEF TypeOK, vars, readerVars, workerVars, blockVars, queueVars, mainVars
<1> QED
  BY <1>1, <1>2, <1>3, ReaderType, WorkerType, MainType DEF Next, Over

-----------------------------------------------------------------------------
\* Steps of the other goroutines leave the reader where it is, and so on.
ReaderStays == UNCHANGED readerVars
WorkerStays == UNCHANGED workerVars
MainStays   == UNCHANGED mainVars

\* Who moves in which step.
LEMMA Movers ==
  ASSUME [Next]_vars
  PROVE  /\ Reader \/ HandOver \/ ReaderStays
         /\ Worker \/ WorkerStays
         /\ Main \/ MainStays
  BY DEF Next, Reader, Worker, Main, Over, Quit, vars, ReaderStays, WorkerStays, MainStays,
         readerVars, workerVars, mainVars, WaitForRAM, TakeRequest, Taken, Serve, Rearm, Rearmed,
         ReadBlock, ReadingTo, HandOver, Prepare, StartTexture, TextureReturns, PostBlock,
         PostTexture, StartFrame, DrawRequest, Requesting, RequestVertices, SendRequest,
         RequestReturns, DrawRender, Rendering, EndDraw, RunJob, OneJob, NoJob

\* What the reader's step does to its own place: the number of blocks handed
\* over does not change, whatever it fetches again in between.
LEMMA ReaderControl ==
  ASSUME TypeOK, ControlInv, Reader
  PROVE  /\ Handed' = Handed /\ WorkerStays /\ MainStays
         /\ rpc' \in {"serve", "rearm", "new"} => rblock' \in Blocks
         /\ rpc' \in {"top", "new"} => ~eof'
         /\ rpc' = "new" => pos' = rblock' + 1
         /\ rpc' = "drain" /\ ~eof' => resume' = pos'
<1>1. CASE WaitForRAM
  BY <1>1 DEF TypeOK, ControlInv, WaitForRAM, Handed, WorkerStays, MainStays
<1>2. CASE TakeRequest
  <2>1. Head(detail) \in Blocks
    BY <1>2, QueueHead DEF TypeOK, TakeRequest, Taken
  <2> QED
    BY <1>2, <2>1 DEF TypeOK, ControlInv, TakeRequest, Taken, Handed, WorkerStays, MainStays
<1>3. CASE Serve
  BY <1>3 DEF TypeOK, ControlInv, Serve, Handed, WorkerStays, MainStays
<1>4. CASE Rearm
  BY <1>4 DEF TypeOK, ControlInv, Rearm, Rearmed, Handed, WorkerStays, MainStays
<1>5. CASE ReadBlock
  <2>1. CASE pos <= NBlocks - 1
    BY <1>5, <2>1
       DEF TypeOK, ControlInv, ReadBlock, ReadingTo, Handed, Blocks, WorkerStays, MainStays
  <2>2. CASE ~(pos <= NBlocks - 1)
    BY <1>5, <2>2
       DEF TypeOK, ControlInv, ReadBlock, ReadingTo, Handed, WorkerStays, MainStays
  <2> QED
    BY <2>1, <2>2
<1> QED
  BY <1>1, <1>2, <1>3, <1>4, <1>5 DEF Reader

\* The reader's block is handed over: it was the next one in the file.
LEMMA HandOverControl ==
  ASSUME TypeOK, ControlInv, HandOver
  PROVE  /\ Handed = rblock /\ Handed' = rblock + 1 /\ wblock' = rblock /\ rblock \in Blocks
         /\ rpc' = "top" /\ ~eof' /\ wpc = "receive" /\ wpc' = "prepare" /\ MainStays
  BY DEF TypeOK, ControlInv, HandOver, Handed, MainStays, Blocks

\* Where the goroutines are is kept by every step.
LEMMA ControlStep == IInv /\ [Next]_vars => ControlInv'
<1> SUFFICES ASSUME IInv, [Next]_vars
             PROVE  ControlInv'
  OBVIOUS
<1>0. TypeOK /\ ControlInv /\ TypeOK'
  BY TypeStep DEF IInv
<1>1. /\ rpc' \in {"serve", "rearm", "new"} => rblock' \in Blocks
      /\ rpc' \in {"top", "new"} => ~eof'
      /\ rpc' = "new" => pos' = rblock' + 1
      /\ rpc' = "drain" /\ ~eof' => resume' = pos'
  <2>1. CASE Reader
    BY <1>0, <2>1, ReaderControl
  <2>2. CASE HandOver
    BY <1>0, <2>2, HandOverControl
  <2>3. CASE ReaderStays
    BY <1>0, <2>3 DEF ControlInv, ReaderStays, readerVars
  <2> QED
    BY <2>1, <2>2, <2>3, Movers
<1>2. /\ wpc' # "receive" => wblock' \in Blocks /\ Handed' = wblock' + 1
      /\ Handed' \in 0..NBlocks
  <2>1. CASE Reader
    BY <1>0, <2>1, ReaderControl DEF ControlInv, WorkerStays, workerVars
  <2>2. CASE HandOver
    BY <1>0, <2>2, HandOverControl DEF Blocks
  <2>3. CASE ReaderStays /\ Worker /\ ~HandOver
    <3>1. wpc' # "receive" => wpc # "receive"
      BY <2>3 DEF Worker, Prepare, StartTexture, TextureReturns, PostBlock
    <3>2. wblock' = wblock
      BY <2>3 DEF Worker, Prepare, StartTexture, TextureReturns, PostBlock
    <3> QED
      BY <1>0, <2>3, <3>1, <3>2 DEF ControlInv, Handed, ReaderStays, readerVars
  <2>4. CASE ReaderStays /\ WorkerStays
    BY <1>0, <2>4
       DEF ControlInv, Handed, ReaderStays, readerVars, WorkerStays, workerVars
  <2> QED
    BY <2>1, <2>2, <2>3, <2>4, Movers
<1>3. mpc' \in {"ask", "send", "sent", "render"} => todo' # <<>>
  <2>1. CASE MainStays
    BY <1>0, <2>1 DEF ControlInv, MainStays, mainVars
  <2>2. CASE DrawRequest \/ RequestVertices \/ SendRequest \/ RequestReturns
    BY <1>0, <2>2
       DEF ControlInv, DrawRequest, Requesting, RequestVertices, SendRequest, RequestReturns
  <2>3. CASE StartFrame \/ DrawRender \/ EndDraw \/ RunJob \/ NoJob
    BY <2>3 DEF StartFrame, DrawRender, Rendering, EndDraw, RunJob, OneJob, NoJob
  <2> QED
    BY <2>1, <2>2, <2>3, Movers DEF Main
<1> QED
  BY <1>1, <1>2, <1>3 DEF ControlInv

-----------------------------------------------------------------------------
\* Only the worker's own posting advances what was posted.
LEMMA PostedStep ==
  ASSUME IInv, [Next]_vars
  PROVE  /\ PostBlock => Posted = wblock /\ Posted' = Posted + 1
         /\ ~PostBlock => Posted' = Posted
         /\ Posted \in 0..NBlocks
<1>0. TypeOK /\ ControlInv
  BY DEF IInv
<1>1. Posted \in 0..NBlocks
  BY <1>0 DEF ControlInv, Posted, Blocks
<1>2. CASE Reader
  <2>1. Handed' = Handed /\ wpc' = wpc /\ wblock' = wblock
    BY <1>0, <1>2, ReaderControl DEF WorkerStays, workerVars
  <2>2. ~PostBlock
    BY <1>0, <1>2, <2>1 DEF PostBlock
  <2> QED
    BY <1>1, <2>1, <2>2 DEF Posted
<1>3. CASE HandOver
  <2>1. ~PostBlock
    BY <1>3 DEF HandOver, PostBlock
  <2> QED
    BY <1>0, <1>1, <1>3, <2>1, HandOverControl DEF Posted
<1>4. CASE PostBlock
  BY <1>0, <1>1, <1>4
     DEF ControlInv, PostBlock, Posted, Handed, readerVars
<1>5. CASE ReaderStays /\ ~HandOver /\ ~PostBlock
  <2>1. CASE WorkerStays
    BY <1>1, <1>5, <2>1 DEF Posted, Handed, ReaderStays, readerVars, WorkerStays, workerVars
  <2>2. CASE Prepare \/ StartTexture \/ TextureReturns
    <3>1. wpc # "receive" /\ wpc' # "receive" /\ wblock' = wblock
      BY <2>2 DEF Prepare, StartTexture, TextureReturns
    <3> QED
      BY <1>1, <1>5, <3>1 DEF Posted
  <2> QED
    BY <1>5, <2>1, <2>2, Movers DEF Worker
<1> QED
  BY <1>2, <1>3, <1>4, <1>5, Movers

\* The goroutines whose steps change the queue of functions, data.blocks or
\* what is left to draw.
LEMMA QueueMovers ==
  ASSUME [Next]_vars
  PROVE  /\ \/ PostBlock \/ RunJob \/ (\E b \in Blocks : PostTexture(b))
            \/ UNCHANGED <<work, blocks>>
         /\ RunJob \/ UNCHANGED blocks
         /\ StartFrame \/ DrawRender \/ UNCHANGED todo
  BY DEF Next, Reader, Worker, Main, Over, Quit, vars, queueVars, mainVars, WaitForRAM,
         TakeRequest, Taken, Serve, Rearm, Rearmed, ReadBlock, ReadingTo, HandOver, Prepare,
         StartTexture, TextureReturns, PostBlock, PostTexture, StartFrame, DrawRequest,
         Requesting, RequestVertices, SendRequest, RequestReturns, DrawRender, Rendering,
         EndDraw, RunJob, OneJob, NoJob

\* The function that is run next, and what is left.
LEMMA NextJob ==
  ASSUME TypeOK, RunJob
  PROVE  /\ 1 \in 1..Len(work) /\ work[1] \in Job /\ Len(work) \in Nat
         /\ work' \in Seq(Job) /\ Len(work') = Len(work) - 1
         /\ \A i \in 1..Len(work') : work'[i] = work[i + 1]
         /\ work[1].kind = "append" => AppendBlock(work[1].block)
         /\ work[1].kind = "texture" => BuildTexture(work[1].block)
<1>1. /\ Head(work) = work[1] /\ 1 \in 1..Len(work) /\ work[1] \in Job
      /\ Tail(work) \in Seq(Job) /\ Len(Tail(work)) = Len(work) - 1
      /\ \A i \in 1..Len(Tail(work)) : Tail(work)[i] = work[i + 1]
  BY QueueHead DEF TypeOK, RunJob, OneJob
<1>2. Len(work) \in Nat /\ work' = Tail(work) /\ DoJob(work[1])
  BY <1>1, LenProperties DEF TypeOK, RunJob, OneJob
<1>3. /\ work[1].kind = "append" => AppendBlock(work[1].block)
      /\ work[1].kind = "texture" => BuildTexture(work[1].block)
  BY <1>2 DEF DoJob
<1> QED
  BY <1>1, <1>2, <1>3

\* A function that is posted goes behind the others.
LEMMA PostedJob ==
  ASSUME TypeOK, ControlInv, NEW k \in {"append", "texture"}, NEW b \in Blocks,
         work' = Append(work, [kind |-> k, block |-> b])
  PROVE  /\ Len(work) \in Nat /\ work' \in Seq(Job) /\ Len(work') = Len(work) + 1
         /\ \A i \in 1..Len(work) : work'[i] = work[i]
         /\ work'[Len(work) + 1] = [kind |-> k, block |-> b]
<1>1. [kind |-> k, block |-> b] \in Job
  BY DEF Job
<1> QED
  BY <1>1, QueueAppend, LenProperties DEF TypeOK

\* The waiting additions stay numbered from data.blocks to the worker.
LEMMA QueueStep == IInv /\ [Next]_vars => QueueInv'
<1> SUFFICES ASSUME IInv, [Next]_vars
             PROVE  QueueInv'
  OBVIOUS
<1>0. TypeOK /\ ControlInv /\ Len(work) \in Nat /\ blocks \in Seq(Blocks)
  BY LenProperties DEF IInv, TypeOK
<1>1. PICK f \in [1..(Len(work) + 1) -> 0..Posted] : Numbers(f)
  BY DEF IInv, OrderInv, QueueInv
<1>2. /\ PostBlock => Posted = wblock /\ Posted' = Posted + 1
      /\ ~PostBlock => Posted' = Posted
      /\ Posted \in 0..NBlocks
  BY PostedStep
<1>3. CASE PostBlock
  <2>1. wblock \in Blocks /\ work' = Append(work, [kind |-> "append", block |-> wblock])
    BY <1>0, <1>3 DEF ControlInv, PostBlock
  <2>2. /\ Len(work') = Len(work) + 1 /\ \A i \in 1..Len(work) : work'[i] = work[i]
        /\ work'[Len(work) + 1].kind = "append" /\ work'[Len(work) + 1].block = wblock
    BY <1>0, <2>1, PostedJob
  <2>3. blocks' = blocks
    BY <1>3 DEF PostBlock
  <2>g. PICK g : g = [i \in 1..(Len(work) + 2) |-> IF i = Len(work) + 2 THEN wblock + 1 ELSE f[i]]
    OBVIOUS
  <2>4. g \in [1..(Len(work') + 1) -> 0..Posted']
    BY <2>g, <1>0, <1>1, <1>2, <1>3, <2>2 DEF ControlInv
  <2>5. Numbers(g)'
    <3>1. g[1] = Len(blocks') /\ g[Len(work') + 1] = Posted'
      BY <2>g, <1>0, <1>1, <1>2, <1>3, <2>2, <2>3 DEF Numbers
    <3>2. ASSUME NEW i \in 1..Len(work)
          PROVE  IF work'[i].kind = "append" THEN work'[i].block = g[i] /\ g[i + 1] = g[i] + 1
                                             ELSE g[i + 1] = g[i]
      BY <2>g, <1>0, <1>1, <2>2, <3>2 DEF Numbers
    <3>3. g[Len(work) + 1] = wblock /\ g[Len(work) + 2] = wblock + 1
      BY <2>g, <1>0, <1>1, <1>2, <1>3 DEF Numbers
    <3>4. \A i \in 1..Len(work') :
            IF work'[i].kind = "append" THEN work'[i].block = g[i] /\ g[i + 1] = g[i] + 1
                                        ELSE g[i + 1] = g[i]
      BY <1>0, <2>2, <3>2, <3>3
    <3> QED
      BY <3>1, <3>4 DEF Numbers
  <2> QED
    BY <2>4, <2>5 DEF QueueInv
<1>4. ASSUME NEW b \in Blocks, PostTexture(b)
      PROVE  QueueInv'
  <2>1. work' = Append(work, [kind |-> "texture", block |-> b]) /\ blocks' = blocks
    BY <1>4 DEF PostTexture
  <2>2. /\ Len(work') = Len(work) + 1 /\ \A i \in 1..Len(work) : work'[i] = work[i]
        /\ work'[Len(work) + 1].kind = "texture"
    BY <1>0, <2>1, PostedJob
  <2>3. ~PostBlock
    BY <2>1, <2>2 DEF PostBlock, PostTexture, workerVars
  <2>g. PICK g : g = [i \in 1..(Len(work) + 2) |-> IF i = Len(work) + 2 THEN Posted ELSE f[i]]
    OBVIOUS
  <2>4. g \in [1..(Len(work') + 1) -> 0..Posted']
    BY <2>g, <1>0, <1>1, <1>2, <2>2, <2>3
  <2>5. Numbers(g)'
    <3>1. g[1] = Len(blocks') /\ g[Len(work') + 1] = Posted'
      BY <2>g, <1>0, <1>1, <1>2, <2>1, <2>2, <2>3 DEF Numbers
    <3>2. ASSUME NEW i \in 1..Len(work)
          PROVE  IF work'[i].kind = "append" THEN work'[i].block = g[i] /\ g[i + 1] = g[i] + 1
                                             ELSE g[i + 1] = g[i]
      BY <2>g, <1>0, <1>1, <2>2, <3>2 DEF Numbers
    <3>3. g[Len(work) + 1] = Posted /\ g[Len(work) + 2] = Posted
      BY <2>g, <1>0, <1>1 DEF Numbers
    <3>4. \A i \in 1..Len(work') :
            IF work'[i].kind = "append" THEN work'[i].block = g[i] /\ g[i + 1] = g[i] + 1
                                        ELSE g[i + 1] = g[i]
      BY <1>0, <2>2, <3>2, <3>3
    <3> QED
      BY <3>1, <3>4 DEF Numbers
  <2> QED
    BY <2>4, <2>5 DEF QueueInv
<1>5. CASE RunJob
  <2>1. /\ 1 \in 1..Len(work) /\ work[1] \in Job /\ Len(work') = Len(work) - 1
        /\ \A i \in 1..Len(work') : work'[i] = work[i + 1]
    BY <1>0, <1>5, NextJob
  <2>2. ~PostBlock
    BY <1>0, <1>5, <2>1 DEF PostBlock, RunJob, OneJob, workerVars
  <2>3. Len(blocks') = f[2]
    <3>1. CASE work[1].kind = "append"
      <4>1. blocks' = Append(blocks, work[1].block)
        BY <1>0, <1>5, <3>1, NextJob DEF AppendBlock
      <4>2. Len(blocks') = Len(blocks) + 1
        BY <1>0, <2>1, <4>1, QueueAppend DEF Job
      <4> QED
        BY <1>1, <2>1, <3>1, <4>2 DEF Numbers
    <3>2. CASE work[1].kind = "texture"
      <4>1. blocks' = blocks
        BY <1>0, <1>5, <3>2, NextJob DEF BuildTexture
      <4> QED
        BY <1>1, <2>1, <3>2, <4>1 DEF Numbers
    <3> QED
      BY <2>1, <3>1, <3>2 DEF Job
  <2>g. PICK g : g = [i \in 1..Len(work) |-> f[i + 1]]
    OBVIOUS
  <2>4. g \in [1..(Len(work') + 1) -> 0..Posted']
    BY <2>g, <1>0, <1>1, <1>2, <2>1, <2>2
  <2>5. Numbers(g)'
    <3>1. g[1] = Len(blocks') /\ g[Len(work') + 1] = Posted'
      BY <2>g, <1>0, <1>1, <1>2, <2>1, <2>2, <2>3 DEF Numbers
    <3>2. ASSUME NEW i \in 1..Len(work')
          PROVE  IF work'[i].kind = "append" THEN work'[i].block = g[i] /\ g[i + 1] = g[i] + 1
                                             ELSE g[i + 1] = g[i]
      <4>1. i \in 1..Len(work) /\ i + 1 \in 1..Len(work) /\ work'[i] = work[i + 1]
        BY <1>0, <2>1
      <4>2. g[i] = f[i + 1] /\ g[i + 1] = f[i + 2]
        BY <1>0, <2>g, <4>1
      <4>3. IF work[i + 1].kind = "append"
              THEN work[i + 1].block = f[i + 1] /\ f[i + 2] = f[i + 1] + 1
              ELSE f[i + 2] = f[i + 1]
        BY <1>0, <1>1, <4>1 DEF Numbers
      <4> QED
        BY <4>1, <4>2, <4>3
    <3> QED
      BY <3>1, <3>2 DEF Numbers
  <2> QED
    BY <2>4, <2>5 DEF QueueInv
<1>6. CASE UNCHANGED <<work, blocks>>
  <2>1. ~PostBlock
    BY <1>0, <1>6, PostedJob DEF PostBlock, ControlInv
  <2>2. Numbers(f)' /\ f \in [1..(Len(work') + 1) -> 0..Posted']
    BY <1>1, <1>2, <1>6, <2>1 DEF Numbers
  <2> QED
    BY <2>2 DEF QueueInv
<1> QED
  BY <1>3, <1>4, <1>5, <1>6, QueueMovers

\* data.blocks grows by the block whose number is its length.
LEMMA BlocksStep ==
  ASSUME IInv, [Next]_vars
  PROVE  BlocksInOrder' /\ Len(blocks') >= Len(blocks) /\ Len(blocks) \in Nat
<1>0. TypeOK /\ BlocksInOrder /\ QueueInv /\ blocks \in Seq(Blocks) /\ Len(blocks) \in Nat
  BY LenProperties DEF IInv, OrderInv, TypeOK
<1>1. CASE RunJob /\ work[1].kind = "append"
  <2>1. /\ work[1] \in Job /\ 1 \in 1..Len(work) /\ blocks' = Append(blocks, work[1].block)
    BY <1>0, <1>1, NextJob DEF AppendBlock
  <2>2. work[1].block = Len(blocks)
    BY <1>0, <1>1, <2>1 DEF QueueInv, Numbers
  <2>3. /\ Len(blocks') = Len(blocks) + 1 /\ blocks'[Len(blocks) + 1] = Len(blocks)
        /\ \A i \in 1..Len(blocks) : blocks'[i] = blocks[i]
    BY <1>0, <2>1, <2>2, QueueAppend DEF Job
  <2> QED
    BY <1>0, <2>3 DEF BlocksInOrder
<1>2. CASE RunJob /\ work[1].kind = "texture"
  <2>1. blocks' = blocks
    BY <1>0, <1>2, NextJob DEF BuildTexture
  <2> QED
    BY <1>0, <2>1 DEF BlocksInOrder
<1>3. CASE UNCHANGED blocks
  BY <1>0, <1>3 DEF BlocksInOrder
<1>4. RunJob => work[1].kind \in {"append", "texture"}
  BY <1>0, NextJob DEF Job
<1> QED
  BY <1>1, <1>2, <1>3, <1>4, QueueMovers

\* What is left to draw stays loaded.
LEMMA TodoStep == IInv /\ [Next]_vars => TodoInv'
<1> SUFFICES ASSUME IInv, [Next]_vars
             PROVE  TodoInv'
  OBVIOUS
<1>0. TypeOK /\ ControlInv /\ BlocksInOrder /\ TodoInv /\ todo \in Seq(Blocks) /\ TypeOK'
  BY TypeStep DEF IInv, OrderInv, TypeOK
<1>1. Len(blocks') >= Len(blocks) /\ Len(blocks) \in Nat /\ Len(blocks') \in Nat
  BY <1>0, BlocksStep, LenProperties DEF TypeOK
<1>2. CASE StartFrame
  <2>1. view' \in Views /\ blocks' = blocks /\ todo' = Visible(view')
    BY <1>0, <1>2 DEF TypeOK, StartFrame, queueVars
  <2>2. \A i \in 1..Len(todo') : \E j \in 1..Len(blocks) : todo'[i] = blocks[j]
    BY <1>0, <2>1, VisibleBlocks
  <2> QED
    BY <1>0, <1>1, <2>1, <2>2 DEF BlocksInOrder, TodoInv
<1>3. CASE DrawRender
  <2>1. todo # <<>> /\ todo' = Tail(todo)
    BY <1>0, <1>3 DEF ControlInv, DrawRender, Rendering
  <2>2. Len(todo') = Len(todo) - 1 /\ \A i \in 1..Len(todo') : todo'[i] = todo[i + 1]
    BY <1>0, <2>1, QueueHead
  <2>3. Len(todo) \in Nat /\ \A i \in 1..Len(todo) : todo[i] \in Nat /\ todo[i] < Len(blocks)
    BY <1>0, LenProperties, ElementOfSeq DEF TodoInv, Blocks
  <2> QED
    BY <1>1, <2>2, <2>3 DEF TodoInv
<1>4. CASE UNCHANGED todo
  <2>1. Len(todo) \in Nat /\ \A i \in 1..Len(todo) : todo[i] \in Nat /\ todo[i] < Len(blocks)
    BY <1>0, LenProperties, ElementOfSeq DEF TodoInv, Blocks
  <2> QED
    BY <1>1, <1>4, <2>1 DEF TodoInv
<1> QED
  BY <1>2, <1>3, <1>4, QueueMovers

-----------------------------------------------------------------------------
\* The steps that a request for vertices takes part in.
LEMMA RequestMovers ==
  ASSUME [Next]_vars
  PROVE  \/ TakeRequest \/ Serve \/ Rearm \/ ReadBlock \/ WaitForRAM \/ HandOver
         \/ RequestVertices \/ SendRequest \/ RequestReturns
         \/ /\ UNCHANGED <<detail, onceV, rpc, rblock>>
            /\ mpc' = "send" => mpc = "send" /\ todo' = todo
  BY DEF Next, Reader, Worker, Main, Over, Quit, vars, readerVars, queueVars, blockVars, mainVars,
         Prepare, StartTexture, TextureReturns, PostBlock, PostTexture, StartFrame, DrawRequest,
         Requesting, DrawRender, Rendering, EndDraw, RunJob, OneJob, DoJob, BuildTexture, AppendBlock, NoJob

\* A block is asked for once at a time.
LEMMA RequestStep == IInv /\ [Next]_vars => RequestInv'
<1> SUFFICES ASSUME IInv, [Next]_vars
             PROVE  RequestInv'
  OBVIOUS
<1>0. /\ TypeOK /\ ControlInv /\ RequestInv /\ detail \in Seq(Blocks) /\ Len(detail) \in Nat
      /\ onceV \in [Blocks -> OnceState]
      /\ \A i \in 1..Len(detail) : detail[i] \in Blocks
  BY LenProperties, ElementOfSeq DEF IInv, TypeOK
<1>1. CASE TakeRequest
  <2>1. /\ detail # <<>> /\ detail' = Tail(detail) /\ rblock' = Head(detail)
        /\ onceV' = onceV /\ rpc' = "serve" /\ ~Serving /\ mpc' = mpc /\ todo' = todo
    BY <1>1 DEF TakeRequest, Taken, Serving, mainVars
  <2>2. /\ rblock' = detail[1] /\ 1 \in 1..Len(detail) /\ Len(detail') = Len(detail) - 1
        /\ \A i \in 1..Len(detail') : detail'[i] = detail[i + 1] /\ i + 1 \in 1..Len(detail)
    BY <1>0, <2>1, QueueHead
  <2>3. \A i \in 1..Len(detail') : detail'[i] # detail[1]
    BY <1>0, <2>2 DEF RequestInv
  <2>4. \A i, j \in 1..Len(detail') : detail'[i] = detail'[j] => i = j
    BY <1>0, <2>2 DEF RequestInv
  <2>5. \A i \in 1..Len(detail') : onceV'[detail'[i]] # "idle"
    BY <1>0, <2>1, <2>2 DEF RequestInv
  <2>6. onceV'[rblock'] # "idle"
    BY <1>0, <2>1, <2>2 DEF RequestInv
  <2>7. mpc' = "send" =>
          /\ onceV'[Head(todo')] # "idle" /\ rblock' # Head(todo')
          /\ \A i \in 1..Len(detail') : detail'[i] # Head(todo')
    BY <1>0, <2>1, <2>2 DEF RequestInv
  <2> QED
    BY <2>2, <2>3, <2>4, <2>5, <2>6, <2>7 DEF RequestInv
<1>2. CASE Rearm
  <2>1. /\ Serving /\ rpc' = "drain" /\ onceV' = [onceV EXCEPT ![rblock] = "idle"]
        /\ detail' = detail /\ mpc' = mpc /\ todo' = todo /\ rblock' = rblock
    BY <1>2 DEF Rearm, Rearmed, Serving, queueVars, mainVars
  <2>2. mpc = "send" => Head(todo) \in Blocks
    BY <1>0, QueueHead DEF TypeOK, ControlInv
  <2> QED
    BY <1>0, <2>1, <2>2 DEF RequestInv, Serving
<1>3. CASE Serve
  BY <1>0, <1>3 DEF RequestInv, Serve, Serving, queueVars, mainVars
<1>4. CASE WaitForRAM \/ ReadBlock
  <2>1. /\ UNCHANGED <<detail, onceV, mpc, todo>> /\ rpc' \in {"drain", "new"}
    BY <1>4 DEF WaitForRAM, ReadBlock, ReadingTo, queueVars, blockVars, mainVars
  <2> QED
    BY <1>0, <2>1 DEF RequestInv, Serving
<1>5. CASE HandOver
  BY <1>0, <1>5 DEF RequestInv, HandOver, Serving, queueVars, blockVars, mainVars
<1>6. CASE RequestVertices
  <2>1. Head(todo) \in Blocks
    BY <1>0, <1>6, QueueHead DEF TypeOK, ControlInv, RequestVertices
  <2>2. /\ UNCHANGED <<detail, rpc, rblock, todo>>
        /\ onceV' = [onceV EXCEPT ![Head(todo)] = IF onceV[Head(todo)] = "idle"
                                                   THEN "busy" ELSE @]
        /\ mpc' = "send" => onceV[Head(todo)] = "idle"
    BY <1>6 DEF RequestVertices, readerVars, queueVars
  <2>3. \A b \in Blocks : onceV[b] # "idle" => onceV'[b] # "idle"
    BY <1>0, <2>1, <2>2
  <2>4. Serving => rblock \in Blocks
    BY <1>0 DEF ControlInv, Serving
  <2>5. onceV[Head(todo)] = "idle" => onceV'[Head(todo)] = "busy"
    BY <1>0, <2>1, <2>2
  <2>6. /\ \A i, j \in 1..Len(detail') : detail'[i] = detail'[j] => i = j
        /\ \A i \in 1..Len(detail') :
             onceV'[detail'[i]] # "idle" /\ (Serving' => detail'[i] # rblock')
        /\ Serving' => onceV'[rblock'] # "idle"
    BY <1>0, <2>2, <2>3, <2>4 DEF RequestInv, Serving
  <2>7. mpc' = "send" =>
          /\ onceV'[Head(todo')] # "idle"
          /\ \A i \in 1..Len(detail') : detail'[i] # Head(todo')
          /\ Serving' => rblock' # Head(todo')
    BY <1>0, <2>2, <2>4, <2>5 DEF RequestInv, Serving
  <2> QED
    BY <2>6, <2>7 DEF RequestInv
<1>7. CASE SendRequest
  <2>1. Head(todo) \in Blocks
    BY <1>0, <1>7, QueueHead DEF TypeOK, ControlInv, SendRequest
  <2>2. /\ detail' = Append(detail, Head(todo)) /\ mpc = "send" /\ mpc' = "sent"
        /\ UNCHANGED <<onceV, rpc, rblock>>
    BY <1>7 DEF SendRequest, readerVars, blockVars
  <2>3. /\ Len(detail') = Len(detail) + 1 /\ \A i \in 1..Len(detail) : detail'[i] = detail[i]
        /\ detail'[Len(detail) + 1] = Head(todo)
    BY <1>0, <2>1, <2>2, QueueAppend
  <2>4. \A i \in 1..Len(detail') : i \in 1..Len(detail) \/ i = Len(detail) + 1
    BY <1>0, <2>3
  <2>5. /\ onceV[Head(todo)] # "idle" /\ \A i \in 1..Len(detail) : detail[i] # Head(todo)
        /\ Serving => rblock # Head(todo)
    BY <1>0, <2>2 DEF RequestInv
  <2>6. \A i, j \in 1..Len(detail') : detail'[i] = detail'[j] => i = j
    BY <1>0, <2>3, <2>4, <2>5 DEF RequestInv
  <2>7. \A i \in 1..Len(detail') :
          onceV'[detail'[i]] # "idle" /\ (Serving' => detail'[i] # rblock')
    BY <1>0, <2>2, <2>3, <2>4, <2>5 DEF RequestInv, Serving
  <2> QED
    BY <1>0, <2>2, <2>6, <2>7 DEF RequestInv, Serving
<1>8. CASE RequestReturns
  <2>1. Head(todo) \in Blocks /\ (Serving => rblock \in Blocks)
    BY <1>0, <1>8, QueueHead DEF TypeOK, ControlInv, RequestReturns, Serving
  <2>2. \A b \in Blocks : onceV[b] # "idle" => onceV'[b] # "idle"
    BY <1>0, <1>8, <2>1 DEF RequestReturns, DoReturns
  <2>3. UNCHANGED <<detail, rpc, rblock>> /\ mpc' = "render"
    BY <1>8 DEF RequestReturns, readerVars, queueVars
  <2> QED
    BY <1>0, <2>1, <2>2, <2>3 DEF RequestInv, Serving
<1>9. CASE /\ UNCHANGED <<detail, onceV, rpc, rblock>>
           /\ mpc' = "send" => mpc = "send" /\ todo' = todo
  BY <1>0, <1>9 DEF RequestInv, Serving
<1> QED
  BY <1>1, <1>2, <1>3, <1>4, <1>5, <1>6, <1>7, <1>8, <1>9, RequestMovers

-----------------------------------------------------------------------------
\* How far a block is in the worker.
LEMMA StageStep ==
  ASSUME IInv, [Next]_vars, NEW b \in Blocks
  PROVE  /\ Prepared(b)' <=> Prepared(b) \/ (Prepare /\ b = wblock)
         /\ Started(b)' <=> Started(b) \/ (StartTexture /\ b = wblock)
<1>0. TypeOK /\ ControlInv /\ b \in Nat
  BY DEF IInv, Blocks
<1>1. /\ PostBlock => Posted = wblock /\ Posted' = Posted + 1
      /\ ~PostBlock => Posted' = Posted
      /\ Posted \in 0..NBlocks
  BY PostedStep
<1>2. CASE PostBlock
  <2>1. wpc = "post" /\ wpc' = "receive"
    BY <1>2 DEF PostBlock
  <2> QED
    BY <1>0, <1>1, <1>2, <2>1 DEF Prepared, Started, Prepare, StartTexture
<1>3. CASE Prepare \/ StartTexture \/ TextureReturns
  <2>1. /\ Posted = wblock /\ ~PostBlock
        /\ \/ Prepare /\ wpc = "prepare" /\ wpc' = "texture" /\ ~StartTexture
           \/ StartTexture /\ wpc = "texture" /\ wpc' = "return" /\ ~Prepare
           \/ wpc = "return" /\ wpc' = "post" /\ ~Prepare /\ ~StartTexture
    BY <1>3 DEF Prepare, StartTexture, TextureReturns, PostBlock, Posted
  <2> QED
    BY <1>0, <1>1, <2>1 DEF Prepared, Started
<1>4. CASE HandOver
  <2>1. wpc = "receive" /\ wpc' = "prepare"
    BY <1>4 DEF HandOver
  <2>2. ~PostBlock /\ ~Prepare /\ ~StartTexture
    BY <2>1 DEF PostBlock, Prepare, StartTexture
  <2> QED
    BY <1>0, <1>1, <2>1, <2>2 DEF Prepared, Started
<1>5. CASE WorkerStays
  <2>1. wpc' = wpc /\ ~PostBlock /\ ~Prepare /\ ~StartTexture
    BY <1>5 DEF WorkerStays, workerVars, PostBlock, Prepare, StartTexture
  <2> QED
    BY <1>1, <2>1 DEF Prepared, Started
<1> QED
  BY <1>2, <1>3, <1>4, <1>5, Movers DEF Worker

\* The steps that a texture takes part in.
LEMMA TextureMovers ==
  ASSUME [Next]_vars
  PROVE  \/ Serve \/ Prepare \/ StartTexture \/ TextureReturns \/ PostBlock
         \/ (\E b \in Blocks : PostTexture(b)) \/ DrawRequest \/ DrawRender \/ RunJob
         \/ UNCHANGED <<vertices, tex, onceT, posting, work>>
  BY DEF Next, Reader, Worker, Main, Over, Quit, vars, queueVars, blockVars, WaitForRAM,
         TakeRequest, Taken, Rearm, Rearmed, ReadBlock, ReadingTo, HandOver, StartFrame,
         RequestVertices, SendRequest, RequestReturns, EndDraw, NoJob

\* What a waiting function is about.
LEMMA JobTypes ==
  ASSUME TypeOK
  PROVE  /\ Len(work) \in Nat
         /\ \A i \in 1..Len(work) : /\ work[i].block \in Blocks
                                   /\ work[i].kind \in {"append", "texture"}
<1>1. work \in Seq(Job)
  BY DEF TypeOK
<1>2. \A i \in 1..Len(work) : work[i] \in Job
  BY <1>1, ElementOfSeq
<1> QED
  BY <1>1, <1>2, LenProperties DEF Job

\* What waits to be built is kept, as long as no texture is posted or built
\* and only vertices are added.
LEMMA TextureKept ==
  ASSUME IInv, [Next]_vars, ~StartTexture,
         UNCHANGED <<tex, posting, work>>,
         \A b \in Blocks : vertices[b] => vertices'[b],
         \A b \in Blocks : onceT[b] # "idle" => onceT'[b] # "idle",
         \A b \in Blocks : ~Started(b) => onceT'[b] = onceT[b],
         Prepare => vertices'[wblock]
  PROVE  TextureInv'
<1>0. TypeOK /\ PostingInv /\ JobInv /\ StageInv
  BY DEF IInv, TextureInv
<1>1. ASSUME NEW b \in Blocks, Awaited(b)
      PROVE  Awaited(b)'
  BY <1>1 DEF Awaited
<1>2. PostingInv'
  <2>1. posting \subseteq Blocks
    BY <1>0 DEF TypeOK
  <2> QED
    BY <1>0, <1>1, <2>1 DEF PostingInv
<1>3. JobInv'
  <2>1. \A i \in 1..Len(work) : work[i].block \in Blocks
    BY <1>0, JobTypes
  <2> QED
    BY <1>0, <1>1, <2>1 DEF JobInv, TextureJob
<1>4. StageInv'
  <2>1. ASSUME NEW b \in Blocks, Prepared(b)'
        PROVE  vertices'[b] \/ tex'[b]
    <3>1. CASE Prepared(b)
      BY <1>0, <3>1 DEF StageInv
    <3>2. CASE Prepare /\ b = wblock
      BY <3>2
    <3> QED
      BY <2>1, <3>1, <3>2, StageStep
  <2>2. ASSUME NEW b \in Blocks, ~Started(b)'
        PROVE  ~tex'[b] /\ onceT'[b] = "idle"
    <3>1. ~Started(b)
      BY <2>2, StageStep
    <3> QED
      BY <1>0, <3>1 DEF StageInv
  <2> QED
    BY <2>1, <2>2 DEF StageInv
<1> QED
  BY <1>2, <1>3, <1>4 DEF TextureInv

\* A block on its way to be drawn has left the worker.
LEMMA LoadedStarted ==
  ASSUME IInv, mpc \in {"ask", "send", "sent", "render"} \/ todo # <<>>
  PROVE  Head(todo) \in Blocks /\ Started(Head(todo)) /\ Prepared(Head(todo))
<1>1. /\ todo # <<>> /\ todo \in Seq(Blocks) /\ TodoInv /\ blocks \in Seq(Blocks)
      /\ Len(work) \in Nat
  <2>1. todo \in Seq(Blocks) /\ blocks \in Seq(Blocks) /\ work \in Seq(Job)
    BY DEF IInv, TypeOK
  <2>2. todo # <<>> /\ TodoInv
    BY DEF IInv, ControlInv, OrderInv
  <2> QED
    BY <2>1, <2>2, LenProperties
<1>2. Head(todo) = todo[1] /\ 1 \in 1..Len(todo) /\ Head(todo) \in Blocks
  BY <1>1, QueueHead
<1>3. PICK f \in [1..(Len(work) + 1) -> 0..Posted] : Numbers(f)
  BY DEF IInv, OrderInv, QueueInv
<1>4. f[1] = Len(blocks) /\ f[1] \in 0..Posted
  <2>1. 1 \in 1..(Len(work) + 1)
    BY <1>1
  <2> QED
    BY <1>3, <2>1 DEF Numbers
<1>5. Posted \in 0..NBlocks
  BY DEF IInv, ControlInv, Posted, Blocks
<1>6. Head(todo) < Posted
  BY <1>1, <1>2, <1>4, <1>5 DEF TodoInv, Blocks
<1> QED
  BY <1>2, <1>6 DEF Started, Prepared

\* A block stays as far as it is, when the worker does nothing with it.
LEMMA StageKept ==
  ASSUME IInv, [Next]_vars, ~Prepare, ~StartTexture,
         \A b \in Blocks : vertices[b] \/ tex[b] => vertices'[b] \/ tex'[b],
         \A b \in Blocks : ~Started(b) => tex'[b] = tex[b] /\ onceT'[b] = onceT[b]
  PROVE  StageInv'
<1>0. StageInv
  BY DEF IInv, TextureInv
<1>1. \A b \in Blocks : Prepared(b)' <=> Prepared(b)
  BY StageStep
<1>2. \A b \in Blocks : Started(b)' <=> Started(b)
  BY StageStep
<1> QED
  BY <1>0, <1>1, <1>2 DEF StageInv

\* The worker starts the first texture of its block: none waits yet.
LEMMA StartTextureStep ==
  ASSUME IInv, [Next]_vars, StartTexture
  PROVE  TextureInv'
<1>0. TypeOK /\ ControlInv /\ PostingInv /\ JobInv /\ StageInv
  BY DEF IInv, TextureInv
<1>1. /\ wpc = "texture" /\ wblock \in Blocks /\ ~Prepare
      /\ posting' = posting \cup {wblock} /\ onceT' = [onceT EXCEPT ![wblock] = "busy"]
      /\ UNCHANGED <<vertices, tex, work>>
  BY <1>0 DEF StartTexture, ControlInv, Prepare
<1>2. Posted = wblock /\ wblock \in Nat
  BY <1>1 DEF Posted, Blocks
<1>3. Prepared(wblock) /\ ~Started(wblock)
  BY <1>1, <1>2 DEF Prepared, Started
<1>4. vertices[wblock] /\ ~tex[wblock] /\ onceT[wblock] = "idle"
  BY <1>0, <1>1, <1>3 DEF StageInv
<1>5. \A b \in Blocks : onceT'[b] = IF b = wblock THEN "busy" ELSE onceT[b]
  BY <1>0, <1>1 DEF TypeOK
<1>6. \A b \in Blocks : b = wblock \/ Awaited(b) => Awaited(b)'
  BY <1>1, <1>4, <1>5 DEF Awaited
<1>7. PostingInv'
  <2>1. posting' \subseteq Blocks
    BY <1>0, <1>1 DEF TypeOK
  <2> QED
    BY <1>0, <1>1, <1>6, <2>1 DEF PostingInv
<1>8. JobInv'
  <2>1. \A i \in 1..Len(work) : TextureJob(i) => work[i].block # wblock
    BY <1>0, <1>4 DEF JobInv, Awaited
  <2>2. \A i \in 1..Len(work) : work[i].block \in Blocks
    BY <1>0, JobTypes
  <2> QED
    BY <1>0, <1>1, <1>6, <2>1, <2>2 DEF JobInv, TextureJob
<1>9. StageInv'
  <2>1. \A b \in Blocks : Prepared(b)' <=> Prepared(b)
    BY <1>1, StageStep
  <2>2. \A b \in Blocks : Started(b)' <=> Started(b) \/ b = wblock
    BY StageStep
  <2> QED
    BY <1>0, <1>1, <1>5, <2>1, <2>2 DEF StageInv
<1> QED
  BY <1>7, <1>8, <1>9 DEF TextureInv

\* A texture goroutine hands its texture over.
LEMMA PostTextureStep ==
  ASSUME IInv, [Next]_vars, NEW c \in Blocks, PostTexture(c)
  PROVE  TextureInv'
<1>0. TypeOK /\ ControlInv /\ PostingInv /\ JobInv /\ StageInv
  BY DEF IInv, TextureInv
<1>1. /\ c \in posting /\ posting' = posting \ {c}
      /\ work' = Append(work, [kind |-> "texture", block |-> c])
      /\ UNCHANGED <<vertices, tex, onceT, wpc>>
  BY DEF PostTexture, blockVars, workerVars
<1>2. /\ Len(work) \in Nat /\ Len(work') = Len(work) + 1
      /\ \A i \in 1..Len(work) : work'[i] = work[i]
      /\ work'[Len(work) + 1] = [kind |-> "texture", block |-> c]
  BY <1>0, <1>1, PostedJob
<1>3. \A b \in Blocks : Awaited(b) => Awaited(b)'
  BY <1>1 DEF Awaited
<1>4. PostingInv'
  <2>1. posting \subseteq Blocks
    BY <1>0 DEF TypeOK
  <2> QED
    BY <1>0, <1>1, <1>3, <2>1 DEF PostingInv
<1>5. \A i \in 1..Len(work) : /\ work'[i].kind = work[i].kind
                             /\ work'[i].block = work[i].block /\ work[i].block \in Blocks
                             /\ TextureJob(i) => work[i].block # c
  BY <1>0, <1>1, <1>2, JobTypes DEF TextureJob, JobInv
<1>6. JobInv'
  <2>1. \A i \in 1..Len(work') : i \in 1..Len(work) \/ (i = Len(work) + 1 /\ work'[i].block = c)
    BY <1>2
  <2>2. ASSUME NEW i \in 1..Len(work'), work'[i].kind = "texture"
        PROVE  Awaited(work[i].block)' /\ work'[i].block \notin posting'
    <3>1. CASE i \in 1..Len(work)
      BY <1>0, <1>1, <1>3, <1>5, <2>2, <3>1 DEF JobInv, TextureJob, Awaited
    <3>2. CASE work'[i].block = c
      BY <1>0, <1>1, <1>3, <3>2 DEF PostingInv, Awaited
    <3> QED
      BY <2>1, <3>1, <3>2
  <2>3. ASSUME NEW i \in 1..Len(work'), NEW j \in 1..Len(work'),
               work'[i].kind = "texture", work'[j].kind = "texture",
               work'[j].block = work'[i].block
        PROVE  i = j
    <3>1. CASE i \in 1..Len(work) /\ j \in 1..Len(work)
      BY <1>0, <1>2, <1>5, <2>3, <3>1 DEF JobInv, TextureJob
    <3>2. ASSUME NEW k \in 1..Len(work), work'[k].kind = "texture"
          PROVE  work'[k].block # c
      BY <1>2, <1>5, <3>2 DEF TextureJob
    <3>3. CASE i \in 1..Len(work) /\ j \notin 1..Len(work)
      BY <2>1, <2>3, <3>2, <3>3
    <3>4. CASE i \notin 1..Len(work) /\ j \in 1..Len(work)
      BY <2>1, <2>3, <3>2, <3>4
    <3>5. CASE i \notin 1..Len(work) /\ j \notin 1..Len(work)
      BY <2>1, <3>5
    <3> QED
      BY <3>1, <3>3, <3>4, <3>5
  <2> QED
    BY <2>2, <2>3 DEF JobInv, TextureJob
<1>7. ~Prepare /\ ~StartTexture
  BY <1>1 DEF Prepare, StartTexture
<1>8. StageInv'
  BY <1>1, <1>7, StageKept
<1> QED
  BY <1>4, <1>6, <1>8 DEF TextureInv

\* The worker hands its block over.
LEMMA PostBlockStep ==
  ASSUME IInv, [Next]_vars, PostBlock
  PROVE  TextureInv'
<1>0. TypeOK /\ ControlInv /\ PostingInv /\ JobInv /\ StageInv
  BY DEF IInv, TextureInv
<1>1. /\ wblock \in Blocks /\ work' = Append(work, [kind |-> "append", block |-> wblock])
      /\ UNCHANGED <<vertices, tex, onceT, posting>> /\ ~Prepare /\ ~StartTexture
  BY <1>0 DEF PostBlock, ControlInv, blockVars, Prepare, StartTexture
<1>2. /\ Len(work) \in Nat /\ Len(work') = Len(work) + 1
      /\ \A i \in 1..Len(work) : work'[i] = work[i]
      /\ work'[Len(work) + 1] = [kind |-> "append", block |-> wblock]
  BY <1>0, <1>1, PostedJob
<1>3. PostingInv'
  BY <1>0, <1>1 DEF PostingInv, Awaited
<1>4. \A i \in 1..Len(work') :
        work'[i].kind = "texture" => i \in 1..Len(work) /\ work'[i] = work[i]
  BY <1>2
<1>5. JobInv'
  BY <1>0, <1>1, <1>2, <1>4 DEF JobInv, TextureJob, Awaited
<1>6. StageInv'
  BY <1>1, StageKept
<1> QED
  BY <1>3, <1>5, <1>6 DEF TextureInv

\* Block.Draw asks for a texture: the block has its vertices.
LEMMA DrawRequestStep ==
  ASSUME IInv, [Next]_vars, DrawRequest
  PROVE  TextureInv'
<1> DEFINE d == Head(todo)
           asks == ~tex[d] /\ onceT[d] = "idle"
<1>0. TypeOK /\ PostingInv /\ JobInv /\ StageInv
  BY DEF IInv, TextureInv
<1>1. d \in Blocks /\ Started(d) /\ Prepared(d)
  BY LoadedStarted DEF DrawRequest, Requesting
<1>2. /\ posting' = posting \cup (IF asks THEN {d} ELSE {})
      /\ onceT' = [onceT EXCEPT ![d] = IF asks THEN "done" ELSE @]
      /\ UNCHANGED <<vertices, tex, work, wpc>>
  BY DEF DrawRequest, Requesting, workerVars
<1>3. asks => vertices[d]
  BY <1>0, <1>1 DEF StageInv
<1>4. \A b \in Blocks : onceT'[b] = IF b = d /\ asks THEN "done" ELSE onceT[b]
  BY <1>0, <1>1, <1>2 DEF TypeOK
<1>5. \A b \in Blocks : (b = d /\ asks) \/ Awaited(b) => Awaited(b)'
  BY <1>2, <1>3, <1>4 DEF Awaited
<1>6. PostingInv'
  <2>1. posting \subseteq Blocks
    BY <1>0 DEF TypeOK
  <2> QED
    BY <1>0, <1>1, <1>2, <1>5, <2>1 DEF PostingInv
<1>7. JobInv'
  <2>1. \A i \in 1..Len(work) : TextureJob(i) /\ asks => work[i].block # d
    BY <1>0 DEF JobInv, Awaited
  <2>2. \A i \in 1..Len(work) : work[i].block \in Blocks
    BY <1>0, JobTypes
  <2> QED
    BY <1>0, <1>2, <1>5, <2>1, <2>2 DEF JobInv, TextureJob
<1>8. StageInv'
  <2>1. ~Prepare /\ ~StartTexture
    BY <1>2 DEF Prepare, StartTexture
  <2> QED
    BY <1>1, <1>2, <1>4, <2>1, StageKept
<1> QED
  BY <1>6, <1>7, <1>8 DEF TextureInv

\* Block.Draw drops vertices only once a texture replaces them.
LEMMA DrawRenderStep ==
  ASSUME IInv, [Next]_vars, DrawRender
  PROVE  TextureInv'
<1> DEFINE d == Head(todo)
<1>0. TypeOK /\ PostingInv /\ JobInv /\ StageInv
  BY DEF IInv, TextureInv
<1>1. d \in Blocks
  BY LoadedStarted DEF DrawRender, Rendering
<1>2. /\ vertices' = [vertices EXCEPT ![d] = @ /\ ~(tex[d] /\ ~needed[d])]
      /\ UNCHANGED <<posting, tex, onceT, work, wpc>>
  BY DEF DrawRender, Rendering, queueVars, workerVars
<1>3. \A b \in Blocks : vertices'[b] = (vertices[b] /\ ~(b = d /\ tex[d] /\ ~needed[d]))
  BY <1>0, <1>1, <1>2 DEF TypeOK
<1>4. \A b \in Blocks : Awaited(b) => Awaited(b)'
  BY <1>2, <1>3 DEF Awaited
<1>5. PostingInv'
  <2>1. posting \subseteq Blocks
    BY <1>0 DEF TypeOK
  <2> QED
    BY <1>0, <1>2, <1>4, <2>1 DEF PostingInv
<1>6. JobInv'
  <2>1. \A i \in 1..Len(work) : work[i].block \in Blocks
    BY <1>0, JobTypes
  <2> QED
    BY <1>0, <1>2, <1>4, <2>1 DEF JobInv, TextureJob
<1>7. StageInv'
  <2>1. ~Prepare /\ ~StartTexture
    BY <1>2 DEF Prepare, StartTexture
  <2>2. \A b \in Blocks : vertices[b] \/ tex[b] => vertices'[b] \/ tex'[b]
    BY <1>2, <1>3
  <2> QED
    BY <1>2, <2>1, <2>2, StageKept
<1> QED
  BY <1>5, <1>6, <1>7 DEF TextureInv

\* What is left in the queue after its first function was run.
LEMMA JobsLeft ==
  ASSUME IInv, RunJob,
         \A b \in Blocks : Awaited(b) /\ ~(TextureJob(1) /\ b = work[1].block) => Awaited(b)'
  PROVE  PostingInv' /\ JobInv'
<1>0. TypeOK /\ PostingInv /\ JobInv /\ posting \subseteq Blocks
  BY DEF IInv, TextureInv, TypeOK
<1>1. /\ 1 \in 1..Len(work) /\ Len(work) \in Nat /\ Len(work') = Len(work) - 1
      /\ \A i \in 1..Len(work') : work'[i] = work[i + 1]
      /\ posting' = posting
  BY <1>0, NextJob DEF RunJob, OneJob
<1>2. PostingInv'
  BY <1>0, <1>1 DEF PostingInv, JobInv
<1>3. ASSUME NEW i \in 1..Len(work'), work'[i].kind = "texture"
      PROVE  /\ Awaited(work[i].block)' /\ work'[i].block \notin posting'
             /\ \A j \in 1..Len(work') :
                  work'[j].kind = "texture" /\ work'[j].block = work'[i].block => i = j
  <2>1. i + 1 \in 1..Len(work) /\ work'[i] = work[i + 1] /\ i + 1 # 1
    BY <1>1
  <2>2. TextureJob(i + 1) /\ work[i + 1].block \in Blocks
    BY <1>0, <1>3, <2>1, JobTypes DEF TextureJob
  <2>3. TextureJob(1) => work[i + 1].block # work[1].block
    BY <1>0, <1>1, <2>1, <2>2 DEF JobInv
  <2>4. Awaited(work[i + 1].block) /\ work[i + 1].block \notin posting
    BY <1>0, <2>1, <2>2 DEF JobInv
  <2>5. PICK b \in Blocks : b = work[i + 1].block
    BY <2>2
  <2>6. Awaited(b)'
    BY <2>3, <2>4, <2>5
  <2>7. ASSUME NEW j \in 1..Len(work'), work'[j].kind = "texture",
               work'[j].block = work'[i].block
        PROVE  i = j
    <3>1. j + 1 \in 1..Len(work) /\ TextureJob(j + 1) /\ work[j + 1].block = work[i + 1].block
      BY <1>1, <2>1, <2>7 DEF TextureJob
    <3>2. i + 1 = j + 1
      BY <1>0, <2>1, <2>2, <3>1 DEF JobInv
    <3> QED
      BY <1>1, <3>2
  <2>8. Awaited(work[i].block)'
    BY <2>1, <2>5, <2>6 DEF Awaited
  <2> QED
    BY <1>1, <2>1, <2>4, <2>7, <2>8
<1> QED
  BY <1>2, <1>3 DEF JobInv, TextureJob

\* The main thread runs a function: if it builds a texture, the vertices are
\* there, and it is the only one that waits to be built for that block.
LEMMA RunJobStep ==
  ASSUME IInv, [Next]_vars, RunJob
  PROVE  TextureInv'
<1>0. TypeOK /\ PostingInv /\ JobInv /\ StageInv
  BY DEF IInv, TextureInv
<1>1. /\ 1 \in 1..Len(work) /\ work[1].kind \in {"append", "texture"}
      /\ work[1].block \in Blocks /\ UNCHANGED wpc
      /\ work[1].kind = "append" => AppendBlock(work[1].block)
      /\ work[1].kind = "texture" => BuildTexture(work[1].block)
  BY <1>0, NextJob, JobTypes DEF RunJob, OneJob, workerVars
<1>2. ~Prepare /\ ~StartTexture
  BY <1>1 DEF Prepare, StartTexture
<1>3. CASE work[1].kind = "append"
  <2>1. UNCHANGED <<vertices, tex, onceT>>
    BY <1>1, <1>3 DEF AppendBlock, blockVars
  <2>2. PostingInv' /\ JobInv'
    BY <2>1, JobsLeft DEF Awaited
  <2>3. StageInv'
    BY <1>2, <2>1, StageKept
  <2> QED
    BY <2>2, <2>3 DEF TextureInv
<1>4. CASE work[1].kind = "texture"
  <2> DEFINE d == work[1].block
  <2>1. Awaited(d)
    BY <1>0, <1>1, <1>4 DEF JobInv, TextureJob
  <2>2. /\ tex' = [tex EXCEPT ![d] = TRUE] /\ vertices' = [vertices EXCEPT ![d] = needed[d]]
        /\ onceT' = [onceT EXCEPT ![d] = "idle"]
    BY <1>1, <1>4, <2>1 DEF Awaited, BuildTexture
  <2>3. \A b \in Blocks : b # d => /\ tex'[b] = tex[b] /\ vertices'[b] = vertices[b]
                                  /\ onceT'[b] = onceT[b]
    BY <1>0, <2>2 DEF TypeOK
  <2>4. PostingInv' /\ JobInv'
    <3>1. \A b \in Blocks : Awaited(b) /\ b # d => Awaited(b)'
      BY <2>3 DEF Awaited
    <3> QED
      BY <1>4, <3>1, JobsLeft DEF TextureJob
  <2>5. StageInv'
    <3>1. tex'[d] /\ Started(d)
      BY <1>0, <1>1, <2>1, <2>2 DEF StageInv, Awaited, TypeOK
    <3> HIDE DEF d
    <3>2. \A b \in Blocks : vertices[b] \/ tex[b] => vertices'[b] \/ tex'[b]
      BY <2>3, <3>1
    <3>3. \A b \in Blocks : ~Started(b) => tex'[b] = tex[b] /\ onceT'[b] = onceT[b]
      BY <2>3, <3>1
    <3> QED
      BY <1>2, <3>2, <3>3, StageKept
  <2> QED
    BY <2>4, <2>5 DEF TextureInv
<1> QED
  BY <1>1, <1>3, <1>4

\* Every step keeps what is known of the textures.
LEMMA TextureStep == IInv /\ [Next]_vars => TextureInv'
<1> SUFFICES ASSUME IInv, [Next]_vars
             PROVE  TextureInv'
  OBVIOUS
<1>0. TypeOK /\ ControlInv
  BY DEF IInv
<1>1. CASE Serve
  <2>1. /\ UNCHANGED <<tex, posting, work, onceT, wpc>>
        /\ vertices' = [vertices EXCEPT ![rblock] = TRUE]
    BY <1>1 DEF Serve, queueVars, workerVars
  <2>2. ~Prepare /\ ~StartTexture
    BY <2>1 DEF Prepare, StartTexture
  <2>3. \A b \in Blocks : vertices[b] => vertices'[b]
    BY <1>0, <2>1 DEF TypeOK
  <2> QED
    BY <2>1, <2>2, <2>3, TextureKept
<1>2. CASE Prepare
  <2>1. /\ UNCHANGED <<tex, posting, work, onceT>> /\ wblock \in Blocks
        /\ vertices' = [vertices EXCEPT ![wblock] = TRUE] /\ ~StartTexture
    BY <1>0, <1>2 DEF Prepare, ControlInv, StartTexture, queueVars
  <2>2. vertices'[wblock] /\ \A b \in Blocks : vertices[b] => vertices'[b]
    BY <1>0, <2>1 DEF TypeOK
  <2> QED
    BY <2>1, <2>2, TextureKept
<1>3. CASE TextureReturns
  <2>1. /\ UNCHANGED <<tex, posting, work, vertices>> /\ wblock \in Blocks
        /\ wpc = "return" /\ wpc' = "post"
        /\ onceT' = onceT \/ onceT' = [onceT EXCEPT ![wblock] = "done"]
    BY <1>0, <1>3 DEF TextureReturns, DoReturns, ControlInv, queueVars
  <2>2. ~Prepare /\ ~StartTexture /\ Started(wblock)
    BY <2>1 DEF Prepare, StartTexture, Started, Posted
  <2>3. \A b \in Blocks : (onceT[b] # "idle" => onceT'[b] # "idle")
                          /\ (~Started(b) => onceT'[b] = onceT[b])
    BY <1>0, <2>1, <2>2 DEF TypeOK
  <2> QED
    BY <2>1, <2>2, <2>3, TextureKept
<1>4. CASE UNCHANGED <<vertices, tex, onceT, posting, work>>
  <2>1. ~StartTexture
    <3>1. SUFFICES ASSUME StartTexture
                   PROVE  FALSE
      OBVIOUS
    <3>2. wpc = "texture" /\ wblock \in Blocks /\ onceT'[wblock] = "busy"
      BY <1>0, <3>1 DEF StartTexture, ControlInv, TypeOK
    <3>3. Posted = wblock /\ wblock \in Nat
      BY <3>2 DEF Posted, Blocks
    <3>4. ~Started(wblock)
      BY <3>2, <3>3 DEF Started
    <3> QED
      BY <1>4, <3>2, <3>4 DEF IInv, TextureInv, StageInv
  <2>2. Prepare => vertices'[wblock]
    BY <1>0 DEF Prepare, ControlInv, TypeOK
  <2> QED
    BY <1>4, <2>1, <2>2, TextureKept
<1> QED
  BY <1>1, <1>2, <1>3, <1>4, TextureMovers, StartTextureStep, PostBlockStep, PostTextureStep,
     DrawRequestStep, DrawRenderStep, RunJobStep

-----------------------------------------------------------------------------
\* When the program starts.
LEMMA InitIInv == Init => IInv
<1> SUFFICES ASSUME Init
             PROVE  IInv
  OBVIOUS
<1>1. TypeOK
  <2>1. Len(<<>>) = 0 /\ <<>> \in Seq(Job) /\ <<>> \in Seq(Blocks)
    BY EmptySeq
  <2>2. /\ work \in Seq(Job) /\ Len(work) <= WorkCap /\ todo \in Seq(Blocks)
        /\ detail \in Seq(Blocks) /\ Len(detail) <= DetailCap /\ blocks \in Seq(Blocks)
    BY <2>1 DEF Init
  <2>3. /\ vertices \in [Blocks -> BOOLEAN] /\ tex \in [Blocks -> BOOLEAN]
        /\ needed \in [Blocks -> BOOLEAN]
        /\ onceT \in [Blocks -> OnceState] /\ onceV \in [Blocks -> OnceState]
    BY DEF Init, OnceState
  <2>4. /\ status \in {"running", "fatal", "exited"}
        /\ pos \in 0..NBlocks /\ resume \in 0..NBlocks /\ eof \in BOOLEAN
        /\ rpc \in {"top", "drain", "serve", "rearm", "new"} /\ rblock \in Blocks \cup {NoBlock}
        /\ wpc \in {"receive", "prepare", "texture", "return", "post"}
        /\ wblock \in Blocks \cup {NoBlock} /\ posting \in SUBSET Blocks
    <3>1. pos \in 0..NBlocks /\ resume \in 0..NBlocks
      BY DEF Init
    <3> QED
      BY <3>1, Zenon DEF Init
  <2>5. /\ mpc \in {"frame", "draw", "ask", "send", "sent", "render", "work"}
        /\ view \in Views /\ moves \in 0..MaxMoves
    BY DEF Init
  <2> QED
    BY <2>2, <2>3, <2>4, <2>5 DEF TypeOK
<1>2. ControlInv /\ Handed = 0 /\ Posted = 0
  BY DEF Init, ControlInv, Handed, Posted
<1>3. OrderInv
  <2>1. Len(work) = 0 /\ Len(blocks) = 0 /\ Len(todo) = 0
    BY DEF Init
  <2>2. PICK f : f = [i \in 1..1 |-> 0]
    OBVIOUS
  <2>3. f \in [1..(Len(work) + 1) -> 0..Posted] /\ Numbers(f)
    BY <1>2, <2>1, <2>2 DEF Numbers
  <2> QED
    BY <2>1, <2>3 DEF OrderInv, BlocksInOrder, QueueInv, TodoInv
<1>4. RequestInv
  BY DEF Init, RequestInv, Serving
<1>5. TextureInv
  BY <1>2 DEF Init, TextureInv, PostingInv, JobInv, StageInv, Prepared, Blocks
<1> QED
  BY <1>1, <1>2, <1>3, <1>4, <1>5 DEF IInv

\* IInv is an inductive invariant of the loading (data.go, block.go, main.go).
THEOREM Invariance == Spec => []IInv
<1>1. IInv /\ [Next]_vars => IInv'
  <2> SUFFICES ASSUME IInv, [Next]_vars
               PROVE  IInv'
    OBVIOUS
  <2> QED
    BY TypeStep, ControlStep, BlocksStep, QueueStep, TodoStep, RequestStep, TextureStep
       DEF IInv, OrderInv
<1> QED
  BY InitIInv, <1>1, PTL DEF Spec

\* Every variable has its type in every reachable state.
THEOREM TypeCorrect == Spec => []TypeOK
<1>1. IInv => TypeOK
  BY DEF IInv
<1> QED
  BY Invariance, <1>1, PTL

\* The i-th element of data.blocks is the i-th block of the file, in whatever
\* order the goroutines run and whatever the reader fetched again meanwhile.
THEOREM BlocksInOrderHolds == Spec => []BlocksInOrder
<1>1. IInv => BlocksInOrder
  BY DEF IInv, OrderInv
<1> QED
  BY Invariance, <1>1, PTL

\* A block's vertices are asked for at most once at a time: its Once lets no
\* second request through until the reader renews it.
THEOREM OneRequestHolds == Spec => []OneRequest
<1>1. ASSUME IInv, NEW b \in Blocks
      PROVE  Cardinality(Outstanding(b)) <= 1
  <2>1. \A i, j \in Outstanding(b) : i = j
    <3>1. \A i, j \in 1..Len(detail) : detail[i] = b /\ detail[j] = b => i = j
      BY <1>1 DEF IInv, RequestInv
    <3>2. \A i \in 1..Len(detail) : ~(detail[i] = b /\ rpc = "serve" /\ rblock = b)
      BY <1>1 DEF IInv, RequestInv, Serving
    <3> QED
      BY <3>1, <3>2 DEF Outstanding
  <2>2. CASE Outstanding(b) = {}
    BY <2>2, FS_EmptySet
  <2>3. CASE Outstanding(b) # {}
    <3>1. PICK i : Outstanding(b) = {i}
      BY <2>1, <2>3
    <3> QED
      BY <3>1, FS_Singleton
  <2> QED
    BY <2>2, <2>3
<1>2. IInv => OneRequest
  BY <1>1 DEF OneRequest
<1> QED
  BY Invariance, <1>2, PTL

\* The textures that wait to be built, seen from the queue.
LEMMA PendingAwaited ==
  ASSUME IInv, NEW b \in Blocks, TexturePending(b)
  PROVE  Awaited(b)
<1>0. PostingInv /\ JobInv
  BY DEF IInv, TextureInv
<1>1. CASE b \in posting
  BY <1>0, <1>1 DEF PostingInv
<1>2. ASSUME NEW i \in 1..Len(work), work[i] = [kind |-> "texture", block |-> b]
      PROVE  Awaited(b)
  <2>1. work[i].kind = "texture" /\ work[i].block = b
    BY <1>2
  <2> QED
    BY <1>0, <2>1 DEF JobInv, TextureJob
<1> QED
  BY <1>1, <1>2 DEF TexturePending

\* Block.Draw never drops the vertices of a block whose texture is still to be
\* built, so BuildTexture finds them whenever it comes to run.
THEOREM TextureHasVerticesHolds == Spec => []TextureHasVertices
<1>1. IInv => TextureHasVertices
  BY PendingAwaited DEF TextureHasVertices, Awaited
<1> QED
  BY Invariance, <1>1, PTL

\* A texture is built once: no block that has one waits for another.
THEOREM TextureOnceHolds == Spec => []TextureOnce
<1>1. IInv => TextureOnce
  BY PendingAwaited DEF TextureOnce, Awaited
<1> QED
  BY Invariance, <1>1, PTL
=============================================================================
