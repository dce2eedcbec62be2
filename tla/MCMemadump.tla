---------------------------- MODULE MCMemadump ----------------------------
(***************************************************************************)
(* An instance of Memadump for TLC: two guest instructions, the first of   *)
(* which is the entry of main, and one or two places to access.            *)
(***************************************************************************)
EXTENDS Memadump

TwoInstrs == {1, 2}
Entries   == [i \in TwoInstrs |-> IF i = 1 THEN "main" ELSE NoName]
OneType   == {"I32"}
FourBytes == [t \in OneType |-> 4]
\* Every kind of statement on one place, and stores to a second one.
SomeStmts ==
  {st \in Stmts : /\ st.addr = 9 => st.tag = "Store"
                  /\ st.tag = "Exit" => st.addr # 1}
\* Nothing, or a side exit as of a check for self-modifying code.
SomePreambles == {<<>>} \cup {<<st>> : st \in {e \in Exits : e.addr = 1}}
=============================================================================
