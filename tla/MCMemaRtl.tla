----------------------------- MODULE MCMemaRtl -----------------------------
(***************************************************************************)
(* Instances of MemaRtl for TLC: up to two processes, "p1" started by the  *)
(* user and "p2" forked; "m1" and "m2" are their first threads and "w1" is *)
(* a second thread of p1.                                                  *)
(***************************************************************************)
EXTENDS MemaRtl, SequencesExt

OneProcess    == {"p1"}
TwoProcesses  == {"p1", "p2"}
MainOnly      == {"m1"}
MainAndWorker == {"m1", "w1"}
BothMains     == {"m1", "m2"}
ThreadOwner   == [t \in {"m1", "w1", "m2"} |-> IF t = "m2" THEN "p2" ELSE "p1"]
ProcOfMain    == [t \in MainOnly |-> ThreadOwner[t]]
ProcOfWorker  == [t \in MainAndWorker |-> ThreadOwner[t]]
ProcOfMains   == [t \in BothMains |-> ThreadOwner[t]]
MainOfOne     == [p \in OneProcess |-> "m1"]
MainOfTwo     == [p \in TwoProcesses |-> IF p = "p1" THEN "m1" ELSE "m2"]

\* Settings of MEMA_OPTIONS: trace everything, the same without compression,
\* inside the monitored functions, without a file, and from mema_enable on.
TraceAll    == [filename |-> TRUE, funcname |-> "none", disable |-> FALSE,
                compression |-> TRUE]
TraceRaw    == [TraceAll EXCEPT !.compression = FALSE]
TraceMatch  == [TraceAll EXCEPT !.funcname = "match"]
TraceNoFile == [TraceAll EXCEPT !.filename = FALSE]
TraceLater  == [TraceAll EXCEPT !.disable = TRUE]
AllOrRaw    == {TraceAll, TraceRaw}
OnlyMatch   == {TraceMatch}
OnlyLater   == {TraceLater}
MainOptions == {TraceAll, TraceRaw, TraceMatch, TraceNoFile}
ForkOptions == {TraceAll, TraceMatch, TraceLater}

\* StackRebuilt under monitor_func, where only the calls from the outermost
\* monitored function inwards are recorded: inside it the records rebuild the
\* inner end of the call stack.
MonitoredStack ==
  \A t \in Threads :
    (monitor[t] /\ pc[t] = "code" /\ count[t] > 0) =>
      IsSuffix(Replay(recorded[t]), stack[t])
=============================================================================
