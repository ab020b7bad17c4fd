------------------------------ MODULE Handoff ------------------------------
(***************************************************************************)
(* What the worker queues promise the rest of the proxy: a connection or a *)
(* datagram taken in by the main thread is given to one worker, which      *)
(* serves its own in arrival order; only a shutdown gives up an item that  *)
(* was not served, and then exactly once.                                  *)
(***************************************************************************)
EXTENDS Sequences, Functions

CONSTANTS Worker, Item

VARIABLES
  line,    \* line[w]: the items assigned to w and not served yet, in order
  served,  \* served[w]: the items w has served, in order
  gone,    \* items refused or given up
  open     \* the proxy still takes items in

hvars == <<line, served, gone, open>>

Taken == gone \union UNION {Range(line[w]) \union Range(served[w]) : w \in Worker}

HandoffInit ==
  /\ line = [w \in Worker |-> <<>>]
  /\ served = [w \in Worker |-> <<>>]
  /\ gone = {}
  /\ open = TRUE

Assign(w, i) ==
  /\ open /\ i \notin Taken
  /\ line' = [line EXCEPT ![w] = Append(@, i)]
  /\ UNCHANGED <<served, gone, open>>

Refuse(i) ==
  /\ open /\ i \notin Taken
  /\ gone' = gone \union {i}
  /\ UNCHANGED <<line, served, open>>

Serve(w) ==
  /\ line[w] # <<>>
  /\ line' = [line EXCEPT ![w] = Tail(@)]
  /\ served' = [served EXCEPT ![w] = Append(@, Head(line[w]))]
  /\ UNCHANGED <<gone, open>>

Close ==
  /\ open /\ open' = FALSE
  /\ UNCHANGED <<line, served, gone>>

GiveUp(w) ==
  /\ ~open /\ line[w] # <<>>
  /\ line' = [line EXCEPT ![w] = <<>>]
  /\ gone' = gone \union Range(line[w])
  /\ UNCHANGED <<served, open>>

HandoffNext ==
  \/ \E w \in Worker, i \in Item : Assign(w, i)
  \/ \E i \in Item : Refuse(i)
  \/ \E w \in Worker : Serve(w) \/ GiveUp(w)
  \/ Close

HandoffSafety == HandoffInit /\ [][HandoffNext]_hvars

(* No line stands still: its head is served, or the line is given up.      *)
HandoffSpec ==
  /\ HandoffSafety
  /\ \A w \in Worker : WF_hvars(Serve(w) \/ GiveUp(w))
=============================================================================
