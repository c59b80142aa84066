---------------------------- MODULE ResultChannel ----------------------------
(***************************************************************************)
(* What the pool promises the caller of get_results about results (spec    *)
(* 1, 4.2, 4.3 and 7), stated without queues or threads: each worker has   *)
(* a channel; a worker sends results into its channel, and nothing after  *)
(* an exception (the worker's loop ends); the caller receives, one at a   *)
(* time, the oldest result of some worker it has not received yet.  So    *)
(* every result reaches the caller in its worker's order, at most once,   *)
(* and none is skipped.  Which worker's result comes next is left open:    *)
(* the pool promises no order across workers.                              *)
(***************************************************************************)
EXTENDS Naturals, Sequences

CONSTANTS
    Workers,    \* the worker ids
    Msgs        \* the results a worker may send: records with a field w

VARIABLES
    sent,       \* worker -> every result it has sent, in order
    recv        \* the results the caller has received, in order

chanVars == <<sent, recv>>

\* The results of worker w among those the caller has received.
Received(w) == SelectSeq(recv, LAMBDA r : r.w = w)

\* A worker that has sent an exception has ended.
Ended(w) == \E i \in 1 .. Len(sent[w]) : sent[w][i].kind = "exc"

Init ==
    /\ sent = [w \in Workers |-> <<>>]
    /\ recv = <<>>

Send(w, r) ==
    /\ r.w = w
    /\ ~Ended(w)
    /\ sent' = [sent EXCEPT ![w] = Append(@, r)]
    /\ UNCHANGED recv

Receive(w) ==
    LET k == Len(Received(w))
    IN  /\ k < Len(sent[w])
        /\ recv' = Append(recv, sent[w][k + 1])
        /\ UNCHANGED sent

Next ==
    \E w \in Workers :
        \/ \E r \in Msgs : Send(w, r)
        \/ Receive(w)

Spec == Init /\ [][Next]_chanVars
=============================================================================
