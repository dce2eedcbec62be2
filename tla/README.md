# mema, specified

mema records the memory accesses and function calls of a program and draws
them. This directory holds TLA+ models of its parts, the TLC runs that check
them on small instances, and proofs about them for every instance.

## The system

Two producers write trace files and one viewer reads them.

| component | state it keeps | operations |
|---|---|---|
| tracing runtime, `memapass/mema_rtl.cpp` | per process: `flags()`, `memaccess_fd`, `write_mutex`; per thread: record buffer with three cursors, `monitor_func`, `monitor_func_entry_count` | `__mema_initialize`, `__mema_function_entry/exit`, `__mema_access`, `__mema_empty_buffer`, `__mema_enable/disable`, the fork handler, `__mema_finalize` |
| LLVM pass, `memapass/LLVMMema/Pass.cpp` | none at run time | puts the callbacks into every function |
| valgrind tool, `memagrind/memadump/md_main.c` | the options, the pending events of a superblock, one record buffer, the counters | the command line, `md_instrument` with `addEvent_*` and `flushEvents`, the helpers its translations call, `__mema_empty_buffer`, `md_fini` |
| LZ4, `memapass/lz4.c` and its copy in `memadump` | the compressor's hash table | `LZ4_compress`, `LZ4_uncompress_unknownOutputSize` |
| block loader, `memaviz/data.go`, `block.go`, `main.go` | `data.blocks`, the channels `new_block`, `main_thread_work`, `detail_request`, per block `vertex_data`, `tex`, `detail_needed` and two `sync.Once` | `ParseBlocks` (reader and worker goroutine), `RequestTexture`, `RequestVertices`, `Draw`, `BuildTexture`, `DoMainThreadWork` |
| reader and call stack index, `memaviz/data.go`, `record.go`, `functree.go` | regions, records of a block, open frames carried to the next block | `ParseHeader`, `ParsePageTable`, `decode_records`, `BuildStree`, `GetStack`, `GetRegion` |
| active page layout, `memaviz/block.go` | page maps of a block | `ActiveRegionIDs`, `GenerateVertices` |
| viewport, `memaviz/main.go` | `i`, `nback`, `rec`, `rec_actual` | wheel, mouse and button callbacks, `data.Draw` |
| malloc interception, symbols, statistics, examples | | see "Not modelled" |

How they interact: an instrumented program calls the runtime from all of its
threads. Each thread stores records in its own buffer; whoever fills its buffer,
or calls `exit()`, writes it to the one trace file as a size and a body, two
`write()` calls under a mutex. A forked child inherits the open file. The viewer
reads that file: one goroutine reads blocks, a second prepares them, the main
thread draws, and everything that touches OpenGL or `data.blocks` is posted to
the main thread as a function. Vertices of blocks that are far away are dropped
and fetched again from the file on request.

What is hard about it:

- *Concurrency.* Threads of one process share `flags()` without a lock and the
  file with one; processes share the file with none. In the viewer four kinds of
  goroutine share blocks with channels, nil tests and Onces as the only order.
- *Failure.* A process can be killed between the two writes of a block, abort on
  a write to a closed file, or fault on a thread whose buffer was never set up.
- *Ordering.* Records must reach the file in the order they were made; blocks
  must reach `data.blocks` in file order although the same goroutine seeks back
  for other blocks in between.
- *Limits.* The buffer's end is found by an equality test; channels have
  capacities; the reader waits for memory that only drawing frees; a compressed
  block must fit a bound worked out beforehand, and its offsets two bytes.
- *Code that runs later.* The valgrind tool decides at translation time what is
  stored at run time; a translation is run many times and may be left in the
  middle.

What makes each component correct: the runtime loses and repeats no record while
the file is open, keeps the framing, keeps the monitored count equal to the
monitored frames of the stack, and finishes flushes and `exit()`. The loader
delivers every block once and in order, never builds a texture without vertices
or twice, and answers requests. The reader rebuilds the call stack the records
came from; the page layout keeps distinct pages apart; the viewport keeps the
record under the cursor; the valgrind tool keeps accesses in program order.

## Modules

| module | models |
|---|---|
| `TraceLog` | what the runtime promises: per writer a growing log, and a disk that holds all the log held at some moment |
| `MemaRtl` | the runtime, with the program, signals and fork around it |
| `MCMemaRtl` | its instances |
| `MemaRtlProofs` | its theorems, and what a reader of the file rebuilds |
| `RecursionLemmas` | lemmas for the proofs: the least of a set of numbers, induction along a sequence |
| `BlockLoader` | the loading and drawing goroutines of memaviz |
| `MCBlockLoader` | its instances |
| `BlockLoaderProofs` | its theorems |
| `TraceReader` | how the viewer rebuilds call stacks from consecutive blocks |
| `MCTraceReader` | its instances |
| `TraceReaderProofs` | its theorems |
| `Memadump` | the valgrind tool, with Valgrind and the guest program around it |
| `MCMemadump` | its instance |
| `MemadumpProofs` | its theorems |
| `MemadumpCountProofs` | its theorems about the statistics |
| `LZ4` | the compressors and the decoder |
| `LZ4Proofs` | its theorems |
| `Startup` | the flags of `MEMA_OPTIONS`, the functions the `function` flag selects |
| `Viewer` | active pages and columns, the blocks in view, the mouse and the wheel |
| `ViewerProofs` | its theorems |
| `MCAlgorithms` | the instances of `LZ4`, `Startup` and `Viewer` |

### MemaRtl and the code

A thread's `pc` is `"code"` between callbacks; the other values are the places
inside the runtime where another thread or process can be seen to run.

| action | code in `mema_rtl.cpp` |
|---|---|
| `Initialize` | `__mema_initialize`, header included; `open()` may fail |
| `FunctionEntry`, `FunctionExit` | the monitored half of the callbacks: disable saved and forced on, the count updated (291-303, 326-338) |
| `Restore` | `flags()->disable = stash` |
| `Access` | `__mema_access` up to its tests |
| `EventSkipped`, `RecordEvent`, `RecordFaults` | the test of disable, the store, the full test |
| `WriteSize`, `WriteBody`, `WriteAborts`, `UnlockAndReset` | `__mema_empty_buffer`: lock and size, body, failed assertion, unlock and cursor reset |
| `Exit`, `Close`, `Terminate` | `__mema_finalize` from `exit()` |
| `Fork` | `fork()` with the handler `__mema_thread_starting` |
| `Enable`, `Disable` | `__mema_enable`, `__mema_disable` |
| `Kill`, `AllEnded` | signals; the end of everything |

Steps of the code that are merged because nothing can tell them apart: reading
and forcing `disable` at the start of a callback (the outcome of any
interleaving there is that of one of the two orders); taking the lock and
writing the size; unlocking and resetting the thread's own cursor; the two tests
of `disable` in `__mema_access`. `inside_mema` is not a variable: the runtime is
not itself instrumented, so it is never entered from itself.

Left out: events before `mema_initialized` and after the finalizer, the totals,
logging, compression and the contents of accesses, reuse of the closed
descriptor's number, short writes to an open file (a full disk), exceptions and
instrumented signal handlers.

`ReadBack` is the other side of the file: the loop of `ParseBlocks` over its
writes, a size and then a body of as many records, which is lost when the file is
not cut where it expects. `ReadsBack` says that what it has read of a thread,
followed by what is still in that thread's buffer, is everything the thread
recorded. It is about compressed blocks: the reader decompresses every block
twice and cannot read the others, whose failed writes, moreover, nobody notices.

### BlockLoader and the code

| action | code |
|---|---|
| `WaitForRAM`, `TakeRequest`, `Serve`, `Rearm`, `ReadBlock` | the loop of `ParseBlocks` with `drain_queue` and `read_block` (data.go 154-243) |
| `HandOver` | `new_block <- block` meets the worker (unbuffered) |
| `Prepare`, `StartTexture`, `TextureReturns`, `PostBlock` | the worker goroutine (data.go 131-152), `RequestTexture` split where its `Do` ends |
| `PostTexture` | the goroutine of `RequestTexture` (block.go 206-214) |
| `StartFrame`, `EndDraw` | a frame of `main_loop`, the range of `data.Draw` |
| `DrawRequest` | `Block.Draw` up to the test whether `vertex_data` is nil (block.go 225-233) |
| `RequestVertices`, `SendRequest`, `RequestReturns` | the `Do` of `RequestVertices` (218-223), split where its function can wait and where it ends |
| `DrawRender` | the rest of `Block.Draw` |
| `RunJob`, `NoJob` | `DoMainThreadWork`, with `BuildTexture` or the append |
| `Quit`, `Over` | the end of `main_loop`; the end of the program |

A block is its number in the file. `SpareRAM()` depends on the machine; the
model says it falls short when `SpareBlocks` blocks have vertices. Assigning a
fresh `sync.Once` while `Do` is in progress leaves `Do` to unlock an unlocked
mutex, which ends a Go program: `DoReturns`. Between the
nil test and `RequestVertices` the reader may set the vertices and renew the
`Once`; the main thread then asks for a block that has its vertices. Input is taken at the start of a
frame, where it is equivalent to taking it in `SwapBuffers`. `DoMainThreadWork`
runs at least one function when there is one: its 5 ms are tested first at 0.

### TraceReader and the code

| action | code |
|---|---|
| `Switch`, `Unrecorded` | the traced program around the trace: toggling, and calls nobody records |
| `BeginBlock` | the worker takes a block; the first loop of `BuildStree` (functree.go 14-19) |
| `Enter`, `Exit`, `Access` | one record of the second loop (21-40), and the program step that made it |
| `Unfilled` | a slot of `block.records` that no record of the file fills (data.go 182-183) |
| `EndBlock` | the third loop (41-58), which empties the stack and returns the context |
| `GenerateVertices` | `block.records = Records{}` (block.go 444-447), before the block is handed over (data.go 143) |
| `NextBlock` | `current_context` becomes the next block's `context_records` (data.go 133-137) |

`Query` and `FramesOf` are what `GetStack` reads out of the tree, which holds the
intervals; the library
behind `stree` is taken to answer a query with the intervals around the point,
and is modelled with `use_stree` set. What BuildStree makes and what a caller can
get out of it are two things. `TreeDenotes` is about the first: at the end of
BuildStree the intervals, read through the records they were built from, give each
record's call stack. The second, `GetStack` of a block that has been handed over,
has no property: the records are gone by then, so that any frame opened in the block
has an index past the end of an empty slice, and its only caller is switched off
(main.go:187). The program step and the reader's step of a
record are one: the reader sees nothing but the records, so reading them later
makes no difference. One thread's calls are recorded; a file that several
threads write blocks to mixes their stacks, and is not modelled.

### Memadump and the code

| action | code in `md_main.c` |
|---|---|
| `OptionName`, `OptionBasicCounts`, `PostCloInit` | the command line (228-241); `open()`, which may fail (792-810) |
| `BeginBlock`, `EndBlock` | `md_instrument` before and after its loop |
| `InstrumentOther`, `Alu`, `IMark`, `Load`, `Store`, `Dirty`, `CAS`, `LL`, `SC`, `Exit` | the cases of its switch, each with the counting call before it |
| `RunCount`, `RunDetail`, `RunTrace` | the helpers: `add_one_...`, `increment_detail`, `trace_...` |
| `EmptyBuffer` | `__mema_empty_buffer` with its two `write()` calls: the size's result is not looked at, the body's is asserted |
| `RunStatement`, `RunFault`, `RunExitTaken`, `RunExitUntaken`, `BeginRun`, `EndRun` | the guest program, as Valgrind runs the translation |
| `Fini`, `Close` | `md_fini` with its assertions; the end of `__mema_finalize` |
| `Kill`, `Over` | a signal nobody can catch; the end |

A translation (`sbOut`) is the sequence of the guest's statements and of the
calls between them. One translation exists at a time and is run any number of
times; Valgrind keeps many, but what one stores and counts does not depend on
the others. `here`, `done`, `left`, `truth` and `ops` are history: what the guest
did, worked out from the statements alone, never from the instrumentation.

`file` is what a reader gets out of the file: once a size was not written whole,
no later block can be read (`framed`), while a body cut short ends the tool by
the assertion. `SizeWrites` says what may become of the write of a size; the run
`memadump` is about writes of eight bytes that are never cut. Where they may be, the
tool can run to a normal end with a file that cannot be read (`EndedWhole` says
nothing then, and its theorem is about sizes of both kinds).

A statement is counted when it is tried, and a fault ends it there. The guard of
a dirty helper and a failing compare and swap are not told apart, as in the code,
which stores their accesses in any case. The options of the usage text that the
parser does not know end Valgrind and are left out; so are the counters'
overflow, the prints, and a `fork()` of the guest, which copies the whole tool
with its buffer. `--outputfile` sets the name of the function whose calls are
counted, as it does in the code: the output is always `output.mema`.

### LZ4 and the code

| action | code in `lz4.c` |
|---|---|
| `Start` | the choice of the compressor (650-667), short inputs, the first byte |
| `FindMatch` | one turn of the search (384-396), with its growing steps |
| `EncodeLiterals` | the extension backwards, the limit, the token and the literals (398-428) |
| `EncodeMatch` | `_next_match`: offset, length, the table, and whether the next position matches at once (430-468) |
| `EncodeLastLiterals` | `_last_literals` |
| `BeginDecode`, `DecodeLiterals`, `DecodeMatch`, `DecodeEnds` | `LZ4_uncompress_unknownOutputSize` |

The two compressors of the code are one set of actions with the flag `small`;
they differ in the test of the distance (`Matches`) and in the test of the output
limit at the end. The pointers are positions. A copy in steps of eight bytes is
the bytes that count, and `top` remembers how far it wrote. The counting of equal
bytes in words and the order of bytes in memory are left out: what they compute
is `Extension` and `OffsetBytes`. The table of the small compressor holds 16 bits
of a position (`Entry`); that none is cut is a lemma (`EntryWhole`), because no position
past `mflimit` is stored.

### Startup, Viewer and the code

These are operators: the code is sequential and each call stands for itself.

| operator | code |
|---|---|
| `GetFlagValue`, `BoolOf`, `IntOf`, `StringOf`, `InitializeFlags` | the flag parser (`mema_rtl.cpp` 57-139) |
| `Cut`, `Demangle`, `Monitoring` | the selection of functions (392-438); `nm`, `fnmatch` and the demangler by what they do |
| `ActivePages`, `InOrder`, `RunningTotal`, `InactiveToLeft`, `Width`, `Column` | `ActiveRegionIDs` and the x of `GenerateVertices` (`block.go`) |
| `DrawnBlocks` | the blocks `Draw` draws (`data.go` 263-298) |
| `MousePos`, `Wheel`, `Input` | the callbacks of `main_loop` (`main.go` 121-257) |

A text of `MEMA_OPTIONS` is a sequence of tokens, a flag's name being one token
also inside a file name: the parser looks for it anywhere. A record number that
the code rounds through float64 is rounded half up on a screen of `Rows` rows.

A drag does not renew the record the wheel holds on to, so the view jumps at the
first turn after a drag: `WheelHoldsRecord` is about turns after a movement with
the button up. What the selection of functions does against its own message and comments is
under the disagreements (`selection`); the symbols and
their mangled names are there to tell what the cut takes away.

## Runs

| run | question | bounds |
|---|---|---|
| `rtl_worker` | two threads: buffer, monitored count, disable flag and call stack, mutex, framing, what a reader gets back, liveness of flush and exit, kill at any step | 2 functions, 1 monitored, calls 2 deep, 5 records a thread, buffer of 3, 4 settings |
| `rtl_fork` | fork: nothing lost or repeated, exit, refinement of `TraceLog`; the child may toggle | 2 processes, 1 function, 3 records each, buffer of 3, 3 settings |
| `loader_load` | loading while drawing, no memory shortage | 3 blocks, 4 view changes, work queue of 1, request queue of 3 |
| `reader_index` | the index of call stacks, with frames open over block ends | 2 functions, 3 blocks of 2 records in 3 slots, calls 2 deep |
| `memadump` | accesses in order, statistics right, nothing lost by a tool that ends, refinement of `TraceLog` | 2 instructions, every kind of statement on 1 place and stores on a 2nd, 2 events, buffer of 3, statements and runs together 5 |
| `algorithms` | LZ4 there and back; flags, page layout, view | LZ4: up to 14 bytes of 2 values and 26 of 3; 2 settings; 3 accesses to 8 pages; up to 4 blocks; 3 inputs and a turn of the wheel |
| `rtl_stackmon`, `rtl_fault`, `rtl_forkframe`, `loader_stall`, `reader_mismatch`, `selection` | disagreements, below, one property each | those of their component; 2 symbols of 2 parameters |

Why the bounds are enough: a buffer of 3 holds two records and is filled and
emptied twice within 5; two nested calls are the least that tell "a
monitored function is on the stack" from "this function is monitored"; two
threads are the least for the mutex and two processes for fork. The settings of
`MEMA_OPTIONS` are those that take different ways through the runtime: trace
everything, without compression, inside the monitored functions, without a file, and
from `__mema_enable` on; a `function` flag that matches nothing is as none. A program
toggles under the last of these only (`Toggled`), in `rtl_fork`, so that the other
settings of the same run are those for which `MonitorGate` says something. In the loader,
three blocks are the least for a request served between two new blocks with a
third still to come; a work queue of 1 makes every sender wait. `DetailCap` is at
least the number of blocks, as the code's 1000 is for traces up to 10 GB:
`OneRequest` bounds the queue by the number of blocks. In the reader, three
blocks are the least for a context that is itself made from a context, two frames
the least for its order to matter. In memadump, 2 events is the code's own
minimum, so that a list that is full is met in every block; a buffer of 3 is
emptied inside a translation; five steps are enough for an instruction, a load,
a store, an exit and a run, and for two runs of a shorter translation, so that a
counter left wrong by one run is seen after the next. LZ4's constants are scaled
so that every branch is met by a short input: with a match of 3 bytes, a mask of
5, bytes that go up to 3 in a length and 2 values in a byte of an offset (so
that distances end at 3), inputs of 10 and 11 bytes lie on
the two sides of the small compressor's limit, and one of 26 bytes has a length
of several bytes. The proportions are those
of the code: `CopyLength` is 2 + 1 + `LastLiterals` and `Slack` is `Mask` + 1. The
hash is coarse, so that buckets collide. Words of 16 with pages of 2 make page 0
and the wrap of the page counts an everyday case. Bounds on depth, records
blocks and view changes are in the guards as `MaxDepth`, `MaxEvents`,
`MaxBlocks`, `MaxMoves`.

Fairness: in `MemaRtl`, weak fairness of `Runtime(t)` for each thread: the
operating system schedules threads inside the runtime, but nothing obliges the
program to call it. In `BlockLoader`, weak fairness of the reader, the worker,
the main loop and each texture goroutine; a channel serves waiting senders in
turn and each goroutine posts once, so weak fairness suffices. The user is not
obliged to quit, and stops changing the view after `MaxMoves`, without which
requests could keep the reader from ever reading on.

### Disagreements the runs show

- `rtl_stackmon`: with the `function` option, the exit of the outermost monitored
  call switches recording off before it is recorded, although its entry was.
- `rtl_fault`: a second thread's first record goes through a null pointer; the
  code says emptying "can be run in multiple threads simultaneously".
- `rtl_forkframe`: parent and child can interleave the size and the body of their
  blocks; the reader takes the body after a size to be that block's.
- `loader_stall`: blocks scrolled out of view keep their vertices; when they use up
  the spare memory the reader waits for ever, with the request of a visible block
  queued.
- `reader_mismatch`: the check that an exit matches its entry compares a record
  with itself, a shadowed variable, so mismatched pairs are indexed silently.
- `selection`: the cut that is to "kill newline" takes the last character of the
  mangled name too, so a function whose name matches is found under its name without its
  last parameter, or not at all. Where none is found, the message is "Mema disabled."
  and tracing is left on: a program that should be traced inside one function, or
  not at all, is traced everywhere.

## Proofs

Each component's theorems are about its `Spec` for every value of its constants,
under the assumptions named in its module; a theorem with a hypothesis of its own
says so below. In each, the property wanted is not inductive, and most of the
proof is about what must be added to make it so. TLC checked every such
strengthening on the component's run before it was proved.

`MemaRtlProofs` proves, for any processes, threads, buffer size and bounds:

| theorem | says | hypothesis |
|---|---|---|
| `Invariance` | `Spec => []IInv` | |
| `TypeCorrect`, `NothingLostHolds`, `BufferBoundHolds` | parts of `IInv` | |
| `MutualExclusionHolds` | from `HolderInv` | |
| `MonitorCountHolds` | the count is the cardinality of the monitored frames | |
| `MonitorGateHolds` | recording is on inside monitored functions only, where the program toggles nothing | |
| `FramedWithoutFork` | sizes and bodies alternate | `Forkers = {}` |
| `ExitLosesNothingHolds` | the finalizer leaves nothing unwritten | `OneThread` |
| `ReadsBackHolds` | a reader of the file gets back what was recorded, less what is still in the buffer | `Forkers = {}` |
| `StackRebuiltHolds` | replaying a thread's records gives its call stack, where the program toggles nothing | `Forkers = {}` |
| `Refinement` | `Spec => Log!Spec` | |

Assumptions: those named in `MemaRtl` (a process's first thread belongs to it; a
buffer of at least 2; bounds are naturals). `NothingLost` alone is not
inductive: one must also know that a thread in the critical section holds the
mutex (`HolderInv`: else two threads could be between the writes), that what is
about to be recorded is a record (`EventInv`), and that a process not yet
started has empty buffers and logs (`FreshInv`: else `Fork` would hand over
records). `BufferBound` needs that a buffer is never full at a callback, which
its second conjunct says. `Framed` needs `FileInv`: what the file ends with tells
which thread is in the body. Without fork only one process writes, and the mutex
makes that thread unique; with fork it is false, which `rtl_forkframe` shows.
`Refinement` maps each step to a step of `TraceLog` or a stutter from `IInv`:
`WriteBody` is `Commit`, and commits exactly the log because of `NothingLost`.

The hypotheses are where the code stops keeping the property, and each is met by
an instance TLC runs. `__mema_finalize` empties the buffer of the thread that
exits and no other, so `ExitLosesNothing` is of processes whose only thread is
the first (`OneThread`, as in `rtl_fork`); `ExitInv` adds that the file is open
while the buffer is emptied and that the buffer is empty at `close()`. A program
that calls `__mema_disable` leaves calls unrecorded, and a forked child's records
begin with its parent's stack, so `StackRebuilt` is of programs that do neither
(`rtl_worker`). Its strengthening `TracedInv` is about the records together
with the one the thread is about to store (`Owed`): the program's stack changes
when the callback begins, the log when it ends. `LoadedInv` says that nothing is
written before the runtime is initialized, when `flags()` may still change.

`Replay` and `ReadBack`, the reader of the file, are recursive functions over the
records and the writes. `RecursionLemmas` makes them accessible: a set of naturals has a least
element, from which values equal at the start and kept equal by each step are
equal (`StepByStep`), and the values of a step function along a sequence exist
(`AlongExists`). From these, appending a record is one more step of the function
(`ReplayAppend`, `ReadAppend`), which is all that the invariants use. `ReadsBack`
says nothing of where the reader stands; its strengthening does: between a size
and its body it waits for as many records as the thread that holds the mutex has in its
buffer. With fork it is as false as `Framed`: the reader takes one process's body for the other's.

`BlockLoaderProofs` proves, for any number of blocks, capacities, views and
bound:

| theorem | says |
|---|---|
| `Invariance` | `Spec => []IInv` |
| `TypeCorrect` | channels stay within their capacities |
| `BlocksInOrderHolds` | the i-th element of `data.blocks` is the i-th block of the file |
| `OneRequestHolds` | a block is asked for at most once at a time |
| `TextureHasVerticesHolds` | `BuildTexture` finds the vertices it draws |
| `TextureOnceHolds` | no block gets a second texture |

Assumptions: a trace has at least one block, the queues have room for one element,
views are sets of blocks. `BlocksInOrder` depends on how far the reader and
the worker have got (`Handed`, `Posted`), which a request being served hides:
the reader is then at another block and comes back to `resume` (`ControlInv`).
The functions in `main_thread_work` must be the additions of the blocks between
`data.blocks` and the worker, in order, with textures anywhere between them:
`QueueInv` gives each waiting function the number of blocks before it.
`RequestInv` says that a requested block is in one place - the queue, the
reader's hands or the main thread's `send` - and that its `Once` is not idle
until the reader renews it, which is what refuses a second request. `TextureInv`
says the same of a texture (`Awaited`: its `Once` taken, vertices there, not yet
built) and that a prepared block has vertices or a texture, which is why
`Block.Draw` cannot take vertices away from a texture still to be built.

`TraceReaderProofs` proves, for any functions, block sizes, number of blocks and
depth of calls:

| theorem | says |
|---|---|
| `Invariance` | `Spec => []IInv` |
| `TypeCorrect` | no index points outside the records and the context |
| `StackDenotesHolds` | the stack of `BuildStree` is the call stack of the program |
| `PanicOnlyWithGapsHolds` | an empty stack is popped only after unrecorded calls |
| `TreeDenotesHolds` | the intervals of a block give each record's call stack |

Assumptions: a block has at least one record, and no more than its slots. The
theorems on the stack need to know what the context is between blocks, where
there is no stack: the call stack, innermost frame first (`ContextInv`); it is
reversed once when it is made and once when it is pushed (`StackBegin`,
`ReversedTwice`). The lemmas on `OpenFrames` say what a push, a pop and a new
record do to the frames that a stack denotes.

`TreeDenotes` is about a finished block and every record in it, so the
invariant must follow each record from the moment it is read. `CoverInv` says that the
frames around it - those in the tree whose interval holds it, and those on the
stack that began before it (`Around`) - denote, in the order of their indices, the
program's stack at that record. A frame that is left moves from the stack to the tree
and stays around the same records, because intervals end before the newest
record and the stack ascends (`BlockInv`). `GetStack` sorts by counting the smaller
indices (`FramesOf`); `PrefixRank` and `SortedByRank` show that it gives the ascending
sequence, which is unique.

`MemadumpProofs` and `MemadumpCountProofs` prove, for any statements and preambles, sizes of types,
number of outstanding events, buffer size and bound:

| theorem | says |
|---|---|
| `Invariance` | `Spec => []IInv` |
| `TypeCorrect` | no event is written past `N_EVENTS`, no record past the last slot |
| `Refinement` | `Spec => Log!Spec`, if `SizeWrites = {TRUE}` |
| `EndedWholeHolds` | a tool that runs to its end has everything in the file, sizes cut short excepted |
| `LogInvariance` | `Spec => []LInv` |
| `LogOfRunHolds` | the records of a run are its accesses in program order; a fault loses only those of events not yet flushed |
| `CountsRightHolds` | the counters of `md_fini` are what the guest did, and its assertions hold |
| `DetailsRightHolds` | so are the counts by operation and type |

Assumptions: at least two events and a buffer of at least 2, a size for every
type, statements and preambles of the forms Valgrind hands over. The types
alone are not inductive. A helper appends to the buffer unconditionally, so one
must know that it is never full while a translation runs, which holds because
the helper that fills it flushes before the next item (`Stored`). What a helper
is handed is a record only if the item it runs is one of the translation, so
`at` must not be 0 (`Started`). `Refinement` needs the rest of `Stored`: until
the tool has ended, the log is the file followed by the buffer (so a flush
commits exactly the log), and nothing is logged before the file is open. It is false of
sizes cut short: the tool goes on to end as if the block were on disk. The
lemmas `AddWork`, `StoreWork` and `FlushWork` say what each way of adding an
event does to the list, merging included.

The statistics are right only between runs. Inside one, a counter is ahead of
the guest: an instruction is counted before it is executed, an exit before it is
taken, an inverted branch the other way round. `BalanceInv` says by how much. For
a translation and a figure there is a numbering of its places (`Trail`) in which
each item changes the number by what it counts minus what it does, and which is 0
at the end; when the guest stands at a place, the figure is ahead by that
place's number (`Running`). While `md_instrument` is at work the numbering ends in
`Lead`, what the statement at hand has counted before it is added (`Leading`). A
side exit or a fault leaves at a place where what was counted ahead is
accounted for by the branch itself or by the instruction that was tried. The
numbering is asserted to exist, not computed, so no recursion is needed; the
counters and the figures of both theorems are instances of one argument
(`Measures`).

The log of a run is right only at its end as well. `LInv` says how it stands
inside one. For a translation there are two functions of the place, the
accesses made since the run began and those of them logged (`Tracks`): an item
that touches memory adds to the first, a helper to the second. When the guest
stands at a place, `done` and `Logged` are that place's values (`Going`). While
`md_instrument` is at work, the outstanding events make up the difference at the
end of what it has emitted (`Pending`, `Open`); between superblocks nothing is
outstanding and the two agree (`Even`). They agree at each side exit too, because
`BeforeExit` flushes before it. Where a statement may fault, the accesses missing are
at most those of `NEvents` events, two for each (`Short`). A merged event is where
the two could come apart: its one record has to stand for the load and the store
that it replaced (`AccessesMerge`). As with `Trail`, the two functions are asserted to
exist. `Accesses` flattens a sequence of sequences, and the library's `FlattenSeq`
is a recursive function; `FlattenAlong` says what it gives one element further, which
is all that the proof needs of it.

`LZ4Proofs` proves, for any inputs, any hash of a match's bytes and any sizes that meet the assumptions:

| theorem | says |
|---|---|
| `Invariance` | `Spec => []IInv` |
| `OffsetInRangeHolds` | a match lies before its place, no further than two bytes can say |
| `BoundSufficesHolds` | in `LZ4_compressBound` bytes the compressor never gives up and never writes past the end |
| `TripInvariance` | `Spec => []RInv` |
| `TypeCorrect` | what is written are bytes: the two lengths in a token never run into each other |
| `RoundTripHolds` | the decoder gives back the input, with room to spare or without |

Assumptions: `SizeAssumption` (copies need no more room than the last literals
and a token have; the code's slack of 16 is at least 2), `HashAssumption` (the
hash is defined on any `MinMatch` bytes) and `MatchAssumption`: an offset and a
token take no more than the match they replace, even where the number of
literals needs a byte of its own. The code has `MINMATCH` 4; the instance that
TLC runs has matches of 3, and a mask (5) above what a byte of a length counts
(3), where the first byte of a length is already allowed for by `Fill`.

`LZ4_compress64kCtx` does not test the distance, so `OffsetInRange` there rests
on where the compressor is and on the limit of its inputs: `ip` stays before
`mflimit`, which is within `MaxDistance`, and what the table holds is behind
`ip`. That a table holds no later position is nearly true: when a match is
extended backwards, `ip` goes back and the table keeps what it learned ahead of
it. `PlaceInv` says how far ahead (`Known`) and that the match is as much longer
(`Agree`), so that `ip` passes those positions before the table is asked again.
`BoundSuffices` needs the size of the output at each place: what precedes the
anchor takes no more than `Fill`, the bytes and one more for each `MaxByte` of
them (`SizeInv`); `LiteralSizes` and the lemmas on its match add one sequence to
that. The limits the code tests after each part of a sequence are then never
met.

`RoundTrip` is about the last state of a run of two programs, and nothing in the
state says how the output came about. Its invariant `RInv` says that there is a
set of cuts, pairs of a place in the output and a place in the input, such that each
cut `Leads` to another: from it the output has a token, a length and the literals
(`Opening`), an offset and a length (`Closing`), and the input repeats itself at that
distance (`Repeats`). The compressor adds a cut for each match it writes, and what it
has written stays (`Kept`); the last literals end the chain (`Whole`). The decoder is
always at a cut, with as much of the input in its buffer as the cut says (`AtToken`),
or between the two halves of its sequence (`AtCopy`). The set is asserted to exist
and never ordered, so no recursion over the output is needed. That the decoder takes
the last sequence for the last and no other for it rests on the compressor's rules
for the end of the input, `MFLimit` and `LastLiterals`. Copying a match that overlaps
itself reads bytes that the same copy wrote; `Repetition` shows, by the least place
that could differ, that a period of `d` bytes continues. `LengthRead` reads a length back
as it was written, full bytes and a remainder. In a round trip
the decoder never stops by running out of input at a token: `DecodeEnds` is
disabled, and the proof shows it so.

`ViewerProofs` proves, for any sizes of pages, words, blocks and screens:

| theorem | says |
|---|---|
| `InViewDrawn` | the blocks `Draw` draws are loaded, and every loaded block with a record in view is among them |
| `SideBySide` | active pages are drawn side by side, if the drawing is no wider than a uint64 |
| `WheelKeeps` | a turn of the wheel after a movement with the button up leaves the record under the mouse where it is, up to rounding |
| `ViewDrawnHolds`, `PagesDenseHolds`, `WheelHoldsRecordHolds` | so does every job of `MCAlgorithms`, whose bounds are not needed for the three above |

`InViewDrawn` holds for views that show at least one record, from any place,
before the trace or behind its end. Its arithmetic is why `Draw` adds 2 to the
division: one block because the division rounds down, one because the view
starts anywhere in its first block (`Wanted`). `SideBySide` needs that one page
more than the active ones fits into a word; where every page of the address space
is active, the last column would wrap around. The running total of the code is compared
to its closed form (`TotalAt`): one less than the pages before it leave, and so
2^64 - 1 as long as the pages are 0, 1, 2 and so on without a gap. `Ranked` says that
a finite set of pages has one page for each rank. `WheelKeeps` holds after any
movements, buttons and turns that leave at least one record in view (`Incoming`): the
code divides by `nback`, and after enough steps that is 0. `TwoScales` is the
rounding: the record is rounded on the old scale, converted and cut off, and
compared with what is rounded on the new one.

Only model-checked: liveness (out of the prover's reach), and `OptionsAsWritten` of
`Startup`: what it says is what a parser computes for each text, by recursion over
tokens and by a search for the first place of one.

## Not modelled

- Malloc interception: an unfinished stub around `dlsym` without state.
- Symbols and debug information: caches around ELF, DWARF and demangler
  libraries.
- Statistics, timers, graphs and what GL draws: output that nothing depends on.
- The header and the memory map of a trace: read into `data.region`, which only
  `GetRegion` reads. Its own assertion could never hold for a mapped address (the
  search returns the index after the region), but it is out of reach: `GetRecord`
  returns nil and `GetStackNames` is switched off.
- The two programs' different record numbers: `md_main.c` numbers accesses 0 to
  3, `record.go` takes 1 and 2 for calls and stops at 3. Nothing says that the
  viewer reads memadump's files.
- `LZ4_uncompress`, which nothing calls; examples and build files.
- Instrumented signal handlers, exceptions and `longjmp` in the traced program.

## Plan

Every module of the first plan is written but for `GetRegion`, given up for the
reason above, and every safety property that passing runs check is proved, but
for the one of `Startup`.
