---------------------------- MODULE BlockLoader ----------------------------
(***************************************************************************)
(* How memaviz loads a trace while it draws it (ParseBlocks of memaviz/    *)
(* data.go, block.go, main.go).  Four kinds of goroutine share the blocks: *)
(*   reader   reads the file block by block, and before each new block     *)
(*            serves the requests for blocks whose vertices were dropped   *)
(*   worker   prepares a new block and posts its addition to data.blocks   *)
(*   textures one per RequestTexture, posts the building of a texture      *)
(*   main     draws a frame, then runs posted work                         *)
(* new_block is unbuffered; main_thread_work and detail_request are not.   *)
(***************************************************************************)
EXTENDS Integers, Sequences, FiniteSets

CONSTANTS
  NBlocks,      \* blocks in the trace file
  Truncated,    \* whether the file ends inside a block
  WorkCap,      \* capacity of main_thread_work
  DetailCap,    \* capacity of detail_request
  DetailLimit,  \* below this many visible blocks, they are drawn in detail
  SpareBlocks,  \* blocks whose vertices fit before SpareRAM() falls short
  Views,        \* the visible ranges the user may scroll and zoom to
  MaxMoves,     \* bound: how often the user changes the view
  NoBlock

Blocks == 0..NBlocks-1   \* a block is named by its place in the file

ASSUME SizeAssumption == NBlocks \in Nat /\ Truncated \in BOOLEAN /\ MaxMoves \in Nat
ASSUME CapAssumption == WorkCap \in Nat \ {0} /\ DetailCap \in Nat \ {0} /\ SpareBlocks \in Nat
ASSUME ViewAssumption ==
  DetailLimit \in Nat /\ Views # {} /\ Views \subseteq [start: Nat, width: Nat]
ASSUME NoBlockAssumption == NoBlock \notin Blocks

VARIABLES
  status,    \* "running", or how the program ended
  pos,       \* the reader's place in the file
  rpc, rblock, resume, eof,  \* reader: control, block, current_offset, second loop
  wpc, wblock,               \* worker: control and block
  posting,   \* blocks whose texture goroutine waits to post
  work,      \* main_thread_work
  detail,    \* detail_request
  blocks,    \* data.blocks
  vertices,  \* per block: vertex_data is not nil
  tex,       \* per block: tex is not nil
  needed,    \* per block: detail_needed
  onceT, onceV,              \* per block: requests.texture, requests.vertices
  mpc, view, moves, todo     \* main: control, visible range, blocks left to draw

readerVars == <<pos, rpc, rblock, resume, eof>>
workerVars == <<wpc, wblock>>
blockVars  == <<vertices, tex, needed, onceT, onceV>>
queueVars  == <<posting, work, detail, blocks>>
mainVars   == <<mpc, view, moves, todo>>
vars == <<status, readerVars, workerVars, blockVars, queueVars, mainVars>>

Running == status = "running"
OnceState == {"idle", "busy", "done"}
Job == [kind: {"append", "texture"}, block: Blocks]

Init ==
  /\ status = "running"
  /\ pos = 0 /\ rpc = "top" /\ rblock = NoBlock /\ resume = 0 /\ eof = FALSE
  /\ wpc = "receive" /\ wblock = NoBlock
  /\ posting = {} /\ work = <<>> /\ detail = <<>> /\ blocks = <<>>
  /\ vertices = [b \in Blocks |-> FALSE]
  /\ tex = [b \in Blocks |-> FALSE]
  /\ needed = [b \in Blocks |-> FALSE]
  /\ onceT = [b \in Blocks |-> "idle"]
  /\ onceV = [b \in Blocks |-> "idle"]
  /\ mpc = "frame" /\ view \in Views /\ moves = 0 /\ todo = <<>>

-----------------------------------------------------------------------------
(* sync.Once: Do marks the Once busy, runs its function and marks it done.  *)
(* Assigning a fresh Once to it meanwhile leaves Do to unlock a mutex that  *)
(* is not locked, which ends the program.                                   *)
DoReturns(once, b) ==
  IF once[b] = "busy" THEN once' = [once EXCEPT ![b] = "done"] /\ UNCHANGED status
                      ELSE status' = "fatal" /\ UNCHANGED once

-----------------------------------------------------------------------------
(* The reader goroutine.                                                    *)
SpareRAM == Cardinality({b \in Blocks : vertices[b]}) < SpareBlocks

\* BlockUnlessSpareRAM(500), then tell().
WaitForRAM ==
  /\ Running /\ rpc = "top" /\ SpareRAM
  /\ resume' = pos
  /\ rpc' = "drain"
  /\ UNCHANGED <<status, pos, rblock, eof, workerVars, blockVars, queueVars, mainVars>>

Taken(once) ==
  /\ Running /\ rpc = "drain" /\ detail # <<>>
  /\ rblock' = Head(detail)
  /\ detail' = Tail(detail)
  /\ pos' = Head(detail) + 1
  /\ onceV' = once
  /\ rpc' = "serve"
  /\ UNCHANGED <<status, resume, eof, workerVars, vertices, tex, needed, onceT,
                 posting, work, blocks, mainVars>>

\* Variant: the Once is renewed before the vertices are there.
TakeRearmed == Taken([onceV EXCEPT ![Head(detail)] = "idle"])

\* A request is taken off detail_request: Seek to its block, read_block.
TakeRequest == Taken(onceV)

\* decode_records and GenerateVertices.
Serve ==
  /\ Running /\ rpc = "serve"
  /\ vertices' = [vertices EXCEPT ![rblock] = TRUE]
  /\ rpc' = "rearm"
  /\ UNCHANGED <<status, pos, rblock, resume, eof, workerVars, tex, needed, onceT, onceV,
                 queueVars, mainVars>>

Rearmed(o, p) ==
  /\ Running /\ rpc = "rearm"
  /\ onceV' = [onceV EXCEPT ![rblock] = o]
  /\ pos' = p
  /\ rpc' = "drain"
  /\ UNCHANGED <<status, rblock, resume, eof, workerVars, vertices, tex, needed, onceT,
                 queueVars, mainVars>>

RearmUnsought == Rearmed("idle", pos)           \* variant: no Seek back
RearmSpent    == Rearmed(onceV[rblock], resume) \* variant: the Once is not renewed

\* requests.vertices = sync.Once{}, and back to where the file was left.
Rearm == Rearmed("idle", resume)

ReadingTo(last) ==
  /\ Running /\ rpc = "drain" /\ detail = <<>> /\ ~eof
  /\ IF pos <= last
       THEN /\ rblock' = pos /\ pos' = pos + 1 /\ rpc' = "new"
            /\ UNCHANGED <<status, resume, eof>>
       ELSE /\ status' = IF Truncated THEN "fatal" ELSE status
            /\ eof' = TRUE /\ resume' = 0
            /\ UNCHANGED <<pos, rpc, rblock>>
  /\ UNCHANGED <<workerVars, blockVars, queueVars, mainVars>>

ReadPastEnd == ReadingTo(NBlocks)   \* variant: one block too many

\* No request is waiting: read the next block, or find the end of the file.
ReadBlock == ReadingTo(NBlocks - 1)

\* new_block <- block meets the worker's receive.
HandOver ==
  /\ Running /\ rpc = "new" /\ wpc = "receive"
  /\ wblock' = rblock
  /\ wpc' = "prepare"
  /\ rpc' = "top"
  /\ UNCHANGED <<status, pos, rblock, resume, eof, blockVars, queueVars, mainVars>>

-----------------------------------------------------------------------------
(* The worker goroutine, and those RequestTexture starts.                   *)
Prepare ==
  /\ Running /\ wpc = "prepare"
  /\ vertices' = [vertices EXCEPT ![wblock] = TRUE]
  /\ wpc' = "texture"
  /\ UNCHANGED <<status, readerVars, wblock, tex, needed, onceT, onceV, queueVars, mainVars>>

\* RequestTexture up to the end of the function given to Do.
StartTexture ==
  /\ Running /\ wpc = "texture"
  /\ onceT' = [onceT EXCEPT ![wblock] = "busy"]
  /\ posting' = posting \cup {wblock}
  /\ wpc' = "return"
  /\ UNCHANGED <<status, readerVars, wblock, vertices, tex, needed, onceV,
                 work, detail, blocks, mainVars>>

TextureReturns ==
  /\ Running /\ wpc = "return"
  /\ DoReturns(onceT, wblock)
  /\ wpc' = "post"
  /\ UNCHANGED <<readerVars, wblock, vertices, tex, needed, onceV, queueVars, mainVars>>

PostBlock ==
  /\ Running /\ wpc = "post" /\ Len(work) < WorkCap
  /\ work' = Append(work, [kind |-> "append", block |-> wblock])
  /\ wpc' = "receive"
  /\ UNCHANGED <<status, readerVars, wblock, blockVars, posting, detail, blocks, mainVars>>

PostTexture(b) ==
  /\ Running /\ b \in posting /\ Len(work) < WorkCap
  /\ posting' = posting \ {b}
  /\ work' = Append(work, [kind |-> "texture", block |-> b])
  /\ UNCHANGED <<status, readerVars, workerVars, blockVars, detail, blocks, mainVars>>

-----------------------------------------------------------------------------
(* The main thread: data.Draw, Block.Draw for each visible block, then      *)
(* DoMainThreadWork.                                                        *)
Shown(v) == IF v.start + v.width >= Len(blocks) THEN Len(blocks) - v.start ELSE v.width
Detailed(v) == Shown(v) < DetailLimit
Visible(v) == [i \in 1..Shown(v) |-> blocks[v.start + i]]

StartFrame ==
  /\ Running /\ mpc = "frame"
  /\ \/ UNCHANGED <<view, moves>>
     \/ moves < MaxMoves /\ view' \in Views /\ moves' = moves + 1
  /\ todo' = Visible(view')
  /\ mpc' = "draw"
  /\ UNCHANGED <<status, readerVars, workerVars, blockVars, queueVars>>

Requesting(retexture) ==
  LET b == Head(todo) IN
  /\ Running /\ mpc = "draw" /\ todo # <<>>
  /\ posting' = posting \cup (IF retexture /\ onceT[b] = "idle" THEN {b} ELSE {})
  /\ onceT' = [onceT EXCEPT ![b] = IF retexture /\ @ = "idle" THEN "done" ELSE @]
  /\ needed' = [needed EXCEPT ![b] = Detailed(view)]
  /\ mpc' = IF Detailed(view) /\ ~vertices[b] THEN "ask" ELSE "render"
  /\ UNCHANGED <<status, readerVars, workerVars, vertices, tex, onceV, work, detail, blocks,
                 view, moves, todo>>

DrawAlwaysTexture == Requesting(TRUE)   \* variant: tex is not tested

\* Block.Draw up to the test whether vertex_data is nil.
DrawRequest == Requesting(~tex[Head(todo)])

\* RequestVertices: the reader may have set the vertices and renewed the Once
\* since the test.  The function given to Do waits for room.
RequestVertices ==
  LET idle == onceV[Head(todo)] = "idle" IN
  /\ Running /\ mpc = "ask"
  /\ onceV' = [onceV EXCEPT ![Head(todo)] = IF idle THEN "busy" ELSE @]
  /\ mpc' = IF idle THEN "send" ELSE "render"
  /\ UNCHANGED <<status, readerVars, workerVars, vertices, tex, needed, onceT, queueVars,
                 view, moves, todo>>

SendRequest ==
  /\ Running /\ mpc = "send" /\ Len(detail) < DetailCap
  /\ detail' = Append(detail, Head(todo))
  /\ mpc' = "sent"
  /\ UNCHANGED <<status, readerVars, workerVars, blockVars, posting, work, blocks,
                 view, moves, todo>>

RequestReturns ==
  /\ Running /\ mpc = "sent"
  /\ DoReturns(onceV, Head(todo))
  /\ mpc' = "render"
  /\ UNCHANGED <<readerVars, workerVars, vertices, tex, needed, onceT, queueVars,
                 view, moves, todo>>

Rendering(unload) ==
  /\ Running /\ mpc = "render"
  /\ vertices' = [vertices EXCEPT ![Head(todo)] = @ /\ ~unload]
  /\ todo' = Tail(todo)
  /\ mpc' = "draw"
  /\ UNCHANGED <<status, readerVars, workerVars, tex, needed, onceT, onceV, queueVars,
                 view, moves>>

DrawUnloads == Rendering(~needed[Head(todo)])   \* variant: whether or not tex is built

\* The rest of Block.Draw: the vertices are dropped once a texture replaces them.
DrawRender == Rendering(tex[Head(todo)] /\ ~needed[Head(todo)])

EndDraw ==
  /\ Running /\ mpc = "draw" /\ todo = <<>>
  /\ mpc' = "work"
  /\ UNCHANGED <<status, readerVars, workerVars, blockVars, queueVars, view, moves, todo>>

\* BuildTexture, and requests.texture = sync.Once{}.  Rendering no vertices
\* dereferences a nil pointer.
BuildTexture(b) ==
  /\ IF vertices[b]
       THEN /\ tex' = [tex EXCEPT ![b] = TRUE]
            /\ vertices' = [vertices EXCEPT ![b] = needed[b]]
            /\ onceT' = [onceT EXCEPT ![b] = "idle"]
            /\ UNCHANGED status
       ELSE status' = "fatal" /\ UNCHANGED <<tex, vertices, onceT>>
  /\ UNCHANGED <<needed, onceV, blocks>>

AppendBlock(b) == blocks' = Append(blocks, b) /\ UNCHANGED <<status, blockVars>>

OneJob(job) ==
  /\ Running /\ mpc = "work" /\ work # <<>>
  /\ job
  /\ work' = Tail(work)
  /\ mpc' \in {"work", "frame"}
  /\ UNCHANGED <<readerVars, workerVars, posting, detail, view, moves, todo>>

DoJob(j) == IF j.kind = "texture" THEN BuildTexture(j.block) ELSE AppendBlock(j.block)

\* Variant: the function is received but not run when the time is up.
RunJobLate == OneJob(DoJob(Head(work)) \/ UNCHANGED <<status, blockVars, blocks>>)

\* One function of main_thread_work; after it the time may be up.
RunJob == OneJob(DoJob(Head(work)))

NoJob ==
  /\ Running /\ mpc = "work" /\ work = <<>>
  /\ mpc' = "frame"
  /\ UNCHANGED <<status, readerVars, workerVars, blockVars, queueVars, view, moves, todo>>

\* The window is closed, or Escape or Ctrl-C was hit.
Quit ==
  /\ Running /\ mpc = "frame"
  /\ status' = "exited"
  /\ UNCHANGED <<readerVars, workerVars, blockVars, queueVars, mainVars>>

Over == ~Running /\ UNCHANGED vars

Reader == WaitForRAM \/ TakeRequest \/ Serve \/ Rearm \/ ReadBlock
Worker == HandOver \/ Prepare \/ StartTexture \/ TextureReturns \/ PostBlock
Main ==
  \/ StartFrame \/ DrawRequest \/ RequestVertices \/ SendRequest \/ RequestReturns
  \/ DrawRender \/ EndDraw \/ RunJob \/ NoJob

Next == Reader \/ Worker \/ (\E b \in Blocks : PostTexture(b)) \/ Main \/ Quit \/ Over

Spec == Init /\ [][Next]_vars

\* The Go scheduler runs every goroutine that is not blocked.
FairSpec ==
  /\ Spec /\ WF_vars(Reader) /\ WF_vars(Worker) /\ WF_vars(Main)
  /\ \A b \in Blocks : WF_vars(PostTexture(b))

-----------------------------------------------------------------------------
\* The type of every variable.
TypeOK ==
  /\ status \in {"running", "fatal", "exited"}
  /\ pos \in 0..NBlocks /\ resume \in 0..NBlocks /\ eof \in BOOLEAN
  /\ rpc \in {"top", "drain", "serve", "rearm", "new"} /\ rblock \in Blocks \cup {NoBlock}
  /\ wpc \in {"receive", "prepare", "texture", "return", "post"}
  /\ wblock \in Blocks \cup {NoBlock}
  /\ posting \in SUBSET Blocks /\ work \in Seq(Job) /\ Len(work) <= WorkCap
  /\ detail \in Seq(Blocks) /\ Len(detail) <= DetailCap /\ blocks \in Seq(Blocks)
  /\ vertices \in [Blocks -> BOOLEAN] /\ tex \in [Blocks -> BOOLEAN]
  /\ needed \in [Blocks -> BOOLEAN]
  /\ onceT \in [Blocks -> OnceState] /\ onceV \in [Blocks -> OnceState]
  /\ mpc \in {"frame", "draw", "ask", "send", "sent", "render", "work"}
  /\ view \in Views /\ moves \in 0..MaxMoves /\ todo \in Seq(Blocks)

\* data.Draw and GetStackNames find the block of a record by division: the
\* i-th element of data.blocks is the i-th block of the file, whatever the
\* reader fetched again in between and in whatever order work was posted.
BlocksInOrder == \A i \in 1..Len(blocks) : blocks[i] = i - 1

\* A block is asked for at most once at a time: its Once lets no second
\* request through until the reader is done with the first.
Outstanding(b) ==
  {i \in 1..Len(detail) : detail[i] = b}
    \cup {j \in {0} : rpc = "serve" /\ rblock = b}
OneRequest == \A b \in Blocks : Cardinality(Outstanding(b)) <= 1

\* When the main thread comes to build a texture the vertices are there:
\* Block.Draw does not drop them while the texture is still to be built.
TexturePending(b) ==
  b \in posting \/ \E i \in 1..Len(work) : work[i] = [kind |-> "texture", block |-> b]
TextureHasVertices == \A b \in Blocks : TexturePending(b) => vertices[b]

\* A texture is built once and never again, since each takes GPU memory that
\* nothing returns (the TODO in BuildTexture).
TextureOnce == \A b \in Blocks : tex[b] => ~TexturePending(b)

\* Every block of a whole trace reaches data.blocks.
AllLoaded == <>(Len(blocks) = NBlocks \/ ~Running)

\* "Hey, we need vertices but don't have them! Let's fix that..": a block on
\* screen in detail gets its vertices while it stays there.
InDetail(b) ==
  Running /\ Detailed(view) /\ \E i \in 1..Shown(view) : blocks[view.start + i] = b
DetailArrives ==
  \A b \in Blocks : (InDetail(b) /\ ~vertices[b]) ~> (vertices[b] \/ ~InDetail(b))
=============================================================================
