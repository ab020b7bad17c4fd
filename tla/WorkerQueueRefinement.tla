----------------------- MODULE WorkerQueueRefinement -----------------------
(***************************************************************************)
(* The worker pool implements the abstract Handoff.                        *)
(***************************************************************************)
EXTENDS WorkerQueue

(* The pool is a reliable handoff: what a worker is working on and what is *)
(* pending for it form one line.                                           *)
Line == [w \in Worker |-> taken[w] \o pending[w]]

Gone == {i \in Item : released[i] > 0 /\ \A w \in Worker : i \notin Range(served[w])}

Open == mpc \notin {"stop", "stopNotify", "join", "routes", "free", "done"}

Promise == INSTANCE Handoff WITH line <- Line, gone <- Gone, open <- Open

(* Whatever fails, the pool does only what Handoff allows: an item goes to *)
(* one worker, which serves its own in arrival order, and nothing accepted *)
(* is given up before the shutdown.                                        *)
SafeHandoff == Promise!HandoffSafety

(* WorkerQueue implements Handoff: each item goes to one worker, is served *)
(* in arrival order without anyone waiting for ever, and is only given up  *)
(* by a shutdown.                                                          *)
ImplementsHandoff == Promise!HandoffSpec
=============================================================================
