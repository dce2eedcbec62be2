------------------------------- MODULE Viewer -------------------------------
(***************************************************************************)
(* What memaviz computes to put a trace on the screen: where an access is  *)
(* drawn (ActiveRegionIDs and GenerateVertices of block.go), which blocks  *)
(* are drawn (Draw of data.go), and which records are in view (the mouse   *)
(* callbacks of main.go).                                                  *)
(***************************************************************************)
EXTENDS Integers, Sequences, FiniteSets, SequencesExt, FiniteSetsExt

CONSTANTS
  PageSize,   \* PAGE_SIZE
  Word,       \* values of a uint64
  PerBlock,   \* nperblock, the records of a block
  Rows,       \* rows of the screen a mouse position is rounded to
  Nback,      \* the records shown at wheel position 0: 40 * 1024
  FirstNback  \* the -nback flag

ASSUME ViewAssumption ==
  /\ PageSize \in Nat \ {0} /\ Word \in Nat \ {0} /\ Word % PageSize = 0
  /\ PerBlock \in Nat \ {0} /\ Rows \in Nat \ {0}
  /\ Nback \in Nat \ {0} /\ FirstNback \in Nat \ {0}

-----------------------------------------------------------------------------
(* The addresses a block accesses, in order.  A record that was never       *)
(* filled is an access of address 0.                                        *)
Pages(addrs) == {addrs[i] \div PageSize : i \in DOMAIN addrs}
Activity(addrs, page) == Cardinality({i \in DOMAIN addrs : addrs[i] \div PageSize = page})

\* Pages far less busy than the busiest; hide is *hide_qp_fraction.
QuietPages(addrs, hide) ==
  LET highest == Max({0} \cup {Activity(addrs, p) : p \in Pages(addrs)})
  IN {p \in Pages(addrs) : hide # 0 /\ Activity(addrs, p) < highest \div hide}
ActivePages(addrs, hide) == Pages(addrs) \ QuietPages(addrs, hide)

\* Pages in the order of their addresses: the i-th has i up to it.
InOrder(pages) ==
  [i \in 1..Cardinality(pages) |->
     CHOOSE p \in pages : Cardinality({q \in pages : q <= p}) = i]

\* n_inactive_to_left, summed up over the active pages in order, in uint64.
GapUncounted(sorted, i) ==   \* variant: the page itself counts as inactive
  IF i = 1 THEN sorted[1] ELSE sorted[i] - sorted[i - 1]
Gap(sorted, i) == (IF i = 1 THEN sorted[1] ELSE sorted[i] - sorted[i - 1]) - 1
RunningTotal(sorted) ==
  LET total[i \in 0..Len(sorted)] ==
        IF i = 0 THEN 0 ELSE (total[i - 1] + Gap(sorted, i) + Word) % Word
  IN total
InactiveToLeft(addrs, hide) ==
  LET sorted == InOrder(ActivePages(addrs, hide))
  IN [p \in Range(sorted) |->
        RunningTotal(sorted)[CHOOSE i \in DOMAIN sorted : sorted[i] = p]]

\* Where an access is drawn, before it is scaled to the width of the block.
Width(addrs, hide) == (Cardinality(ActivePages(addrs, hide)) + 1) * PageSize
Column(addrs, hide, addr) ==
  (addr + Word - ((InactiveToLeft(addrs, hide)[addr \div PageSize] * PageSize) % Word)) % Word

\* Active pages are drawn side by side in the order of their addresses, after
\* one empty page, whatever lies between them; a page 0 makes the sum of
\* inactive pages wrap around uint64, and the subtraction undoes it.
DrawnDense(addrs, hide) ==
  \A i \in DOMAIN addrs :
    LET page == addrs[i] \div PageSize
        left == {p \in ActivePages(addrs, hide) : p < page}
        x == Column(addrs, hide, addrs[i]) IN
    page \in ActivePages(addrs, hide) =>
      /\ x = (1 + Cardinality(left)) * PageSize + (addrs[i] % PageSize)
      /\ x < Width(addrs, hide)

-----------------------------------------------------------------------------
\* Go divides towards zero.
Quotient(a, b) == IF a >= 0 THEN a \div b ELSE -((-a) \div b)

\* The blocks Draw draws of those that are loaded.
BlocksInViewTight(n) == Quotient(n, PerBlock) + 1   \* variant: none to spare
BlocksInView(n) == Quotient(n, PerBlock) + 2
DrawnBlocks(start, n, loaded) ==
  LET first == Max({Quotient(start, PerBlock), 0})
      wanted == Max({BlocksInView(n), 1})
      count == IF first + wanted >= loaded THEN loaded - first ELSE wanted
  IN {b \in first..(first + count - 1) : count > 0}

\* Every loaded block with a record in view is drawn, and no other index is
\* used than those of loaded blocks, wherever the view was scrolled to.
VisibleDrawn(start, n, loaded) ==
  /\ DrawnBlocks(start, n, loaded) \subseteq 0..(loaded - 1)
  /\ \A b \in 0..(loaded - 1) :
       (b * PerBlock < start + n /\ start < (b + 1) * PerBlock) =>
         b \in DrawnBlocks(start, n, loaded)

-----------------------------------------------------------------------------
(* The view: the first record i on the screen, how many are shown, the      *)
(* record under the mouse counted from the view and from the trace, the row *)
(* of the mouse, and the button.                                            *)
FirstView ==
  [i |-> -FirstNback, nback |-> FirstNback, rec |-> 0, rec_actual |-> 0,
   row |-> Rows \div 2, lbutton |-> FALSE]

\* int64((py+2)*nback/4. + 0.5)
UnderMouse(row, nback) == (2 * row * nback + Rows) \div (2 * Rows)

\* The mouse position callback: a drag moves the view after the record under
\* the mouse was taken.
MousePos(v, row) ==
  LET rec == UnderMouse(row, v.nback)
      di == Quotient((v.row - row) * v.nback, Rows) IN
  [v EXCEPT !.rec = rec, !.rec_actual = rec + v.i, !.row = row,
            !.i = IF v.lbutton THEN @ + di ELSE @]

\* The wheel callback.
NbackAt(pos) == IF pos < 0 THEN Nback * 2^(-pos) ELSE Nback \div 2^pos
WheelUnmoved(v, pos) == [v EXCEPT !.nback = NbackAt(pos)]  \* variant: i is kept
Wheel(v, pos) ==
  LET after == v.i + Quotient((v.rec_actual - v.i) * NbackAt(pos), v.nback)
      i == v.i - (after - v.rec_actual) IN
  IF v.rec = 0 THEN [v EXCEPT !.nback = NbackAt(pos)]
  ELSE [v EXCEPT !.nback = NbackAt(pos), !.i = i, !.rec = v.rec_actual - i]

Input(v, e) ==
  CASE e.kind = "move" -> MousePos(v, e.row)
    [] e.kind = "wheel" -> Wheel(v, e.pos)
    [] e.kind = "button" -> [v EXCEPT !.lbutton = e.down]
ViewAfter(inputs) ==
  LET view[i \in 0..Len(inputs)] ==
        IF i = 0 THEN FirstView ELSE Input(view[i - 1], inputs[i])
  IN view[Len(inputs)]

\* "the mouse is still pointing at the same place after scaling": turning the
\* wheel right after the mouse was moved with the button up leaves the record
\* under it there, up to the rounding of record numbers on both scales.
RecordUnder(v) == v.i + UnderMouse(v.row, v.nback)
WheelHolds(inputs, pos) ==
  LET v == ViewAfter(inputs)
      w == Wheel(v, pos)
      moved == RecordUnder(w) - RecordUnder(v) IN
  (/\ inputs # <<>> /\ Last(inputs).kind = "move" /\ ~v.lbutton /\ v.rec # 0) =>
    /\ moved <= 1 + NbackAt(pos) \div v.nback
    /\ -moved <= 1 + NbackAt(pos) \div v.nback
=============================================================================
