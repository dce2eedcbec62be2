---------------------------- MODULE MCAlgorithms ----------------------------
(***************************************************************************)
(* The sequential algorithms over bounded inputs.  A run either compresses *)
(* and decompresses one of LZ4's inputs, or looks at one job: a text of    *)
(* MEMA_OPTIONS or something memaviz draws; the jobs of SelectionSpec are  *)
(* symbol tables.                                                          *)
(***************************************************************************)
EXTENDS LZ4, Startup, Viewer

VARIABLE job

Bits == {0, 1}
Lengths == {0, 1, 8, 9, 10, 11, 13, 14}
\* No three bytes occur twice: nothing to compress.
Incompressible ==
  <<0, 0, 0, 1, 0, 0, 2, 0, 1, 1, 0, 1, 2, 0, 2, 1, 0, 2, 2, 1, 1, 1, 2, 1, 2, 2>>
SomeInputs ==
  {s \in UNION {[1..n -> Bits] : n \in Lengths} : s = <<>> \/ s[1] = 0}
    \union {Incompressible}
Grams == [1..3 -> 0..2]
ThreeBuckets == [g \in Grams |-> (g[1] + g[2] + 2 * g[3]) % 3]
ExactOrRoom == {0, 5}

SeqUpTo(A, n) == UNION {[1..k -> A] : k \in 0..n}

Values == {<<"1">>, <<"no">>, <<>>, <<"out", " ", "2">>, <<"disable", ".log">>}
Settings ==
  {s \in {Setting(n, v, q) : n \in {"disable", "verbosity", "compression", "filename"},
                               v \in Values, q \in {"none", "quote"}} : WellWritten(s)}
Symbol(a, k, ps) == [addr |-> a, kind |-> k, name |-> "f", params |-> ps]
\* A C function alone, or two functions that differ in their parameters.
SymbolTables ==
  {{Symbol(1, "C", <<>>)}}
    \union {T \in {{Symbol(1, k, p), Symbol(2, k, q)} :
                     k \in {"plain", "nested"},
                     p \in SeqUpTo(Types, 2), q \in SeqUpTo(Types, 2)} :
              \A s, t \in T : s.params = t.params => s = t}
Patterns ==
  {{[name |-> "f", args |-> a]} : a \in {<<"bare">>, <<>>, <<"i">>, <<"P", "i">>}}

Events ==
  {[kind |-> "move", row |-> r] : r \in 0..Rows}
    \union {[kind |-> "wheel", pos |-> p] : p \in -2..2}
    \union {[kind |-> "button", down |-> d] : d \in BOOLEAN}

Jobs ==
  [kind: {"options"}, settings: SeqUpTo(Settings, 2)]
    \union [kind: {"page"}, addrs: SeqUpTo(0..(Word - 1), 3), hide: {0, 1}]
    \union [kind: {"blocks"}, start: -7..14, n: 1..9, loaded: 0..4]
    \union [kind: {"view"}, inputs: SeqUpTo(Events, 3), pos: -2..2]
Selections == [kind: {"symbols"}, table: SymbolTables, pattern: Patterns]
NoJob == [kind |-> "none"]

JobInit == Init /\ (job = NoJob \/ (input = <<>> /\ job \in Jobs))
JobNext == job = NoJob /\ Next /\ UNCHANGED job
Idle == job # NoJob /\ UNCHANGED <<vars, job>>
JobSpec == JobInit /\ [][JobNext \/ Idle]_<<vars, job>>

\* The jobs that select functions, for the run about the function option.
SelectionInit == Init /\ input = <<>> /\ job \in Selections
SelectionSpec == SelectionInit /\ [][Idle]_<<vars, job>>

\* What MEMA_OPTIONS sets is what was written (InitializeFlags).
OptionsAsWritten == job.kind = "options" => AsWritten(job.settings)

\* When the name of a function matches the function option, tracing is off at
\* the start of the program: the function is found and "disable mema at first",
\* or, none being found, "Mema disabled." (__mema_intialize_function_monitoring).
OffAtFirst == job.kind = "symbols" => OffAtStart(job.table, job.pattern)

\* Active pages side by side (ActiveRegionIDs, GenerateVertices).
PagesDense == job.kind = "page" => DrawnDense(job.addrs, job.hide)

\* No block in view is left out (ProgramData.Draw).
ViewDrawn == job.kind = "blocks" => VisibleDrawn(job.start, job.n, job.loaded)

\* The record under the mouse stays there when the wheel turns (main_loop).
WheelHoldsRecord == job.kind = "view" => WheelHolds(job.inputs, job.pos)
=============================================================================
