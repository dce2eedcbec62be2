------------------------------ MODULE TraceLog ------------------------------
(***************************************************************************)
(* What the tracing runtime promises, without buffers, locks or a file:    *)
(* every writer (a thread of a traced program) has a log that only grows,  *)
(* and what is on disk of it is all the log held at some moment while the  *)
(* writer's process ran.  Nothing is lost in the middle, repeated or       *)
(* reordered, and nothing changes once the process has ended.              *)
(***************************************************************************)
EXTENDS Sequences

CONSTANTS Writers, Entries

VARIABLES
  status,   \* per writer: "idle", then "writing", then "ended"
  log,      \* per writer: every entry it recorded
  disk      \* per writer: the entries a reader of the trace finds

logVars == <<status, log, disk>>

Init ==
  /\ status = [w \in Writers |-> "idle"]
  /\ log = [w \in Writers |-> <<>>]
  /\ disk = [w \in Writers |-> <<>>]

\* A process starts or ends, and its threads with it.
Move(W, from, to) ==
  /\ \A w \in W : status[w] = from
  /\ status' = [w \in Writers |-> IF w \in W THEN to ELSE status[w]]
  /\ UNCHANGED <<log, disk>>

Begin(W) == Move(W, "idle", "writing")
End(W)   == Move(W, "writing", "ended")

Add(w, e) ==
  /\ status[w] = "writing"
  /\ log' = [log EXCEPT ![w] = Append(@, e)]
  /\ UNCHANGED <<status, disk>>

Commit(w) ==
  /\ status[w] = "writing"
  /\ disk' = [disk EXCEPT ![w] = log[w]]
  /\ UNCHANGED <<status, log>>

Next ==
  \/ \E W \in SUBSET Writers : Begin(W) \/ End(W)
  \/ \E w \in Writers : Commit(w) \/ \E e \in Entries : Add(w, e)

Spec == Init /\ [][Next]_logVars
=============================================================================
