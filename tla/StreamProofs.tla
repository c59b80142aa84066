---------------------------- MODULE StreamProofs ----------------------------
(***************************************************************************)
(* Proof that ThreadPool keeps WorkerStreamOrdered for every value of the  *)
(* constants PoolAssumption allows: along the pipeline from a worker's     *)
(* result queue to what get_results returned, one worker's results stay   *)
(* in the order the worker published them, none twice, and nothing after  *)
(* its exception.                                                          *)
(*                                                                         *)
(* WorkerStreamOrdered is not inductive: a publish appends a result that  *)
(* must rank above everything the worker published before, which depends  *)
(* on the item it holds and on the items still queued for it.  StreamInv  *)
(* adds what the steps need: result queues hold their own worker's        *)
(* results, ventilation indices grow, queued items come after what the    *)
(* worker published, what was published ranks below the next publish, and *)
(* get_results stops getting once it has caught an exception.             *)
(***************************************************************************)
EXTENDS RoutingProofs, SequenceTheorems

\* The parts of StreamInv beyond IInv.
OrderInv ==
    /\ WorkerStreamOrdered
    /\ ResultQueuesOwned
    /\ CaughtEndsGet
    /\ InputsIncreasing
    /\ IdsVentilated
    /\ InputsFresh
    /\ PublishedBelow

LEMMA StreamInvParts == StreamInv <=> IInv /\ OrderInv
BY DEF StreamInv, OrderInv

\* The conjuncts of WorkerStreamOrdered for one worker v, primed, as the
\* steps below prove them.
WorkerStreamOrderedFor(v) ==
    /\ SortedFor(delivered, v)
    /\ SortedFor(shared, v)
    /\ SortedFor(resQ[v], v)
    /\ PrecedesFor(ToSet(delivered),
                   ToSet(caught) \cup ToSet(shared) \cup ToSet(hand) \cup ToSet(resQ[v]), v)
    /\ PrecedesFor(ToSet(caught), ToSet(shared) \cup ToSet(hand) \cup ToSet(resQ[v]), v)
    /\ PrecedesFor(ToSet(shared), ToSet(hand) \cup ToSet(resQ[v]), v)
    /\ PrecedesFor(ToSet(hand), ToSet(resQ[v]), v)

LEMMA StreamOrderedFor ==
    WorkerStreamOrdered <=> \A v \in Workers : WorkerStreamOrderedFor(v)
BY DEF WorkerStreamOrdered, WorkerStreamOrderedFor

\* Every result in the pipeline is a Result.
LEMMA PipelineTyped ==
    ASSUME IInv
    PROVE  PipelineResults \subseteq Result
<1>1. \A s \in Seq(Result) : ToSet(s) \subseteq Result
  BY DEF ToSet
<1>. QED  BY <1>1 DEF IInv, TypeOK, PipelineResults

-----------------------------------------------------------------------------
(* Facts about the operators the invariant is built from.                 *)

\* A result's rank lies between 3 * its item id and that plus 2.
LEMMA RankBounds ==
    ASSUME NEW r \in Result
    PROVE  /\ Rank(r) \in Nat
           /\ 3 * r.id <= Rank(r)
           /\ Rank(r) <= 3 * r.id + 2
           /\ r.kind = "data" => Rank(r) = 3 * r.id
           /\ r.kind = "marker" => Rank(r) = 3 * r.id + 1
           /\ r.kind = "exc" => Rank(r) = 3 * r.id + 2
BY DEF Rank, Result, Kinds, ItemIds

\* A queue of at most one result is trivially in order.
LEMMA SortedShort ==
    ASSUME NEW s \in Seq(Result), Len(s) <= 1, NEW w
    PROVE  SortedFor(s, w)
BY DEF SortedFor

\* Appending a result that comes after every result of the queue.
LEMMA SortedAppend ==
    ASSUME NEW s \in Seq(Result), NEW x \in Result, NEW w,
           SortedFor(s, w), PrecedesFor(ToSet(s), {x}, w)
    PROVE  SortedFor(Append(s, x), w)
<1>1. \A i \in 1 .. Len(s) : s[i] \in ToSet(s)
  BY DEF ToSet
<1>. QED  BY <1>1 DEF SortedFor, PrecedesFor

\* Taking the head off a queue keeps the rest in order, and the head comes
\* before the rest.
LEMMA SortedTail ==
    ASSUME NEW s \in Seq(Result), s # <<>>, NEW w, SortedFor(s, w)
    PROVE  /\ SortedFor(Tail(s), w)
           /\ PrecedesFor({Head(s)}, ToSet(Tail(s)), w)
<1>1. SortedFor(Tail(s), w)
  BY DEF SortedFor
<1>2. PrecedesFor({Head(s)}, ToSet(Tail(s)), w)
  BY DEF SortedFor, PrecedesFor, ToSet
<1>. QED  BY <1>1, <1>2

\* Natural numbers below or at a bound are below anything above it.
LEMMA BelowAbove ==
    ASSUME NEW a \in Nat, NEW b \in Nat, NEW c \in Nat, a <= b, b < c
    PROVE  a < c /\ a <= c
BY SMT

\* A nonempty sequence of length at most one is its head alone.
LEMMA SingletonSeq ==
    ASSUME NEW S, NEW s \in Seq(S), s # <<>>, Len(s) <= 1
    PROVE  s = <<Head(s)>> /\ Head(s) \in S
<1>1. Len(s) \in Nat \ {0}
  BY EmptySeq
<1>2. Len(s) = 1
  BY <1>1
<1>3. Head(s) \in S
  BY HeadTailProperties
<1>4. s = <<Head(s)>>
  BY <1>2, <1>3, SeqEqual
<1>. QED  BY <1>3, <1>4

\* PrecedesFor is about elements, so it passes to subsets.
LEMMA PrecedesSubset ==
    ASSUME NEW S, NEW T, NEW S2 \in SUBSET S, NEW T2 \in SUBSET T, NEW w,
           PrecedesFor(S, T, w)
    PROVE  PrecedesFor(S2, T2, w)
BY DEF PrecedesFor


\* PrecedesFor splits over unions on either side.
LEMMA PrecedesUnion ==
    ASSUME NEW S1, NEW S2, NEW T1, NEW T2, NEW w
    PROVE  /\ PrecedesFor(S1 \cup S2, T1, w) <=> PrecedesFor(S1, T1, w) /\ PrecedesFor(S2, T1, w)
           /\ PrecedesFor(S1, T1 \cup T2, w) <=> PrecedesFor(S1, T1, w) /\ PrecedesFor(S1, T2, w)
BY DEF PrecedesFor

\* A result of another worker is unconstrained.
LEMMA PrecedesForeign ==
    ASSUME NEW S, NEW T, NEW y, NEW w, y.w # w
    PROVE  PrecedesFor(S, {y}, w) /\ PrecedesFor({y}, T, w)
BY DEF PrecedesFor

\* So is the empty set.
LEMMA PrecedesEmpty ==
    ASSUME NEW S, NEW T, NEW w
    PROVE  PrecedesFor({}, T, w) /\ PrecedesFor(S, {}, w)
BY DEF PrecedesFor

-----------------------------------------------------------------------------
(* Steps that leave every result where it was.                             *)

LEMMA OrderedStays ==
    ASSUME WorkerStreamOrdered, ResultQueuesOwned,
           UNCHANGED <<resQ, shared, hand, delivered, caught>>
    PROVE  /\ WorkerStreamOrdered'
           /\ ResultQueuesOwned'
           /\ PipelineResults' = PipelineResults
           /\ \A v \in Workers : ResultsOf(v)' = ResultsOf(v)
<1>1. WorkerStreamOrdered'
  BY DEF WorkerStreamOrdered
<1>2. ResultQueuesOwned'
  BY DEF ResultQueuesOwned
<1>3. PipelineResults' = PipelineResults
  BY DEF PipelineResults
<1>4. \A v \in Workers : ResultsOf(v)' = ResultsOf(v)
  BY <1>3 DEF ResultsOf
<1>. QED  BY <1>1, <1>2, <1>3, <1>4

\* Steps that leave the workers and the counter alone and only move results
\* along the pipeline or drop one keep the facts about the workers.
LEMMA WorkerFactsStay ==
    ASSUME OrderInv, UNCHANGED <<inQ, held, wpc, ventilated>>,
           PipelineResults' \subseteq PipelineResults
    PROVE  InputsIncreasing' /\ IdsVentilated' /\ InputsFresh' /\ PublishedBelow'
<1>1. \A v \in Workers : ResultsOf(v)' \subseteq ResultsOf(v) /\ NextRank(v)' = NextRank(v)
  BY DEF ResultsOf, NextRank
<1>. QED  BY <1>1 DEF OrderInv, InputsIncreasing, IdsVentilated, InputsFresh, PublishedBelow

-----------------------------------------------------------------------------
(* The worker threads.                                                     *)

\* Lines 58-65: the head of the input queue becomes the held item.
LEMMA WorkerGetOrder ==
    ASSUME IInv, OrderInv, NEW w \in Workers, WorkerGet(w)
    PROVE  OrderInv'
<1>1. /\ wpc[w] = "get"
      /\ inQ[w] \in Seq(ItemIds) /\ inQ[w] # <<>>
      /\ inQ' = [inQ EXCEPT ![w] = Tail(inQ[w])]
      /\ held' = [held EXCEPT ![w] = Head(inQ[w])]
      /\ wpc' = [wpc EXCEPT ![w] = "picked"]
      /\ UNCHANGED <<resQ, shared, hand, delivered, caught, cpc, ventilated>>
  BY DEF WorkerGet, IInv, TypeOK, mergerVars, callerVars, ventVars
<1>2. /\ WorkerStreamOrdered' /\ ResultQueuesOwned'
      /\ PipelineResults' = PipelineResults
      /\ \A v \in Workers : ResultsOf(v)' = ResultsOf(v)
  BY <1>1, OrderedStays DEF OrderInv
<1>3. CaughtEndsGet'
  BY <1>1 DEF OrderInv, CaughtEndsGet
<1>4. InputsIncreasing'
  BY <1>1 DEF OrderInv, InputsIncreasing, IInv, TypeOK
<1>5. IdsVentilated'
  BY <1>1, <1>2 DEF OrderInv, IdsVentilated, IInv, TypeOK
<1>6. InputsFresh'
  <2>1. \A k \in 2 .. Len(inQ[w]) : Head(inQ[w]) < inQ[w][k]
    BY <1>1 DEF OrderInv, InputsIncreasing
  <2>. QED  BY <1>1, <1>2, <2>1 DEF OrderInv, InputsFresh, IInv, TypeOK
<1>7. PublishedBelow'
  <2>1. SUFFICES ASSUME NEW v \in Workers, NEW r \in ResultsOf(v)
                 PROVE  /\ wpc'[v] \notin {"get", "exited"} => Rank(r) < NextRank(v)'
                        /\ wpc'[v] # "exited" => r.kind # "exc"
    BY <1>2 DEF PublishedBelow
  <2>2. r \in Result /\ r.w = v
    BY DEF ResultsOf, PipelineResults, IInv, TypeOK, ToSet
  <2>3. CASE v = w
    <3>1. r.id < Head(inQ[w])
      BY <1>1, <2>3 DEF OrderInv, InputsFresh
    <3>2. held'[w] = Head(inQ[w]) /\ wpc'[w] = "picked"
      BY <1>1 DEF IInv, TypeOK
    <3>5. Head(inQ[w]) \in Nat
      BY <1>1, PoolAssumption DEF ItemIds, MaxItems
    <3>3. NextRank(v)' = 3 * Head(inQ[w])
      BY <2>3, <3>2, <3>5 DEF NextRank
    <3>4. r.kind # "exc"
      BY <1>1, <2>3 DEF OrderInv, PublishedBelow
    <3>6. r.id \in Nat /\ Rank(r) \in Nat /\ Rank(r) <= 3 * r.id + 2
      BY <2>2, RankBounds DEF Result, ItemIds
    <3>7. Rank(r) < 3 * Head(inQ[w])
      BY <3>1, <3>5, <3>6
    <3>. QED  BY <2>3, <3>3, <3>4, <3>7
  <2>4. CASE v # w
    <3>1. wpc'[v] = wpc[v] /\ held'[v] = held[v]
      BY <1>1, <2>4 DEF IInv, TypeOK
    <3>2. NextRank(v)' = NextRank(v)
      BY <3>1 DEF NextRank
    <3>. QED  BY <3>1, <3>2 DEF OrderInv, PublishedBelow
  <2>. QED  BY <2>3, <2>4
<1>. QED  BY <1>2, <1>3, <1>4, <1>5, <1>6, <1>7 DEF OrderInv

\* Lines 66-68: marking busy and running process keep the held item and the
\* rank of the next publish.
LEMMA WorkerHandleOrder ==
    ASSUME IInv, OrderInv, NEW w \in Workers,
           WorkerSetBusy(w) \/ WorkerProcess(w)
    PROVE  OrderInv'
<1>1. /\ wpc[w] \in {"picked", "process"}
      /\ wpc'[w] \in {"process", "put_data", "put_exc"}
      /\ \A v \in Workers \ {w} : wpc'[v] = wpc[v]
      /\ UNCHANGED <<inQ, held, resQ, shared, hand, delivered, caught, cpc, ventilated>>
  BY DEF WorkerSetBusy, WorkerProcess, IInv, TypeOK, mergerVars, callerVars, ventVars
<1>2. /\ WorkerStreamOrdered' /\ ResultQueuesOwned'
      /\ PipelineResults' = PipelineResults
      /\ \A v \in Workers : ResultsOf(v)' = ResultsOf(v)
  BY <1>1, OrderedStays DEF OrderInv
<1>3. held[w] \in Nat
  BY <1>1, PoolAssumption DEF IInv, HeldWhileHandling, ItemIds, MaxItems
<1>4. \A v \in Workers : NextRank(v)' = NextRank(v)
  BY <1>1, <1>3 DEF NextRank
<1>5. \A v \in Workers : wpc'[v] \notin {"get", "exited"} <=> wpc[v] \notin {"get", "exited"}
  BY <1>1
<1>. QED  BY <1>1, <1>2, <1>4, <1>5
          DEF OrderInv, CaughtEndsGet, InputsIncreasing, IdsVentilated, InputsFresh,
              PublishedBelow

\* _stop_aware_put of the data result and of the marker (lines 68-69, 320-334),
\* and the exception put of line 82, which makes the same step.
LEMMA PublishOrder ==
    ASSUME IInv, OrderInv, NEW w \in Workers, NEW kind, NEW from, NEW to,
           StopAwarePut(w, kind, from, to),
           \/ kind = "data" /\ from = "put_data" /\ to = "put_marker"
           \/ kind = "marker" /\ from = "put_marker" /\ to = "set_idle"
           \/ kind = "exc" /\ from = "put_exc" /\ to = "exited"
    PROVE  OrderInv'
<1>. DEFINE x == Emit(w, kind)
<1>1. /\ resQ' = [resQ EXCEPT ![w] = Append(resQ[w], x)]
      /\ wpc' = [wpc EXCEPT ![w] = to]
      /\ wpc[w] = from
      /\ UNCHANGED <<inQ, held, shared, hand, delivered, caught, cpc, ventilated>>
  BY DEF StopAwarePut, mergerVars, callerVars, ventVars
<1>2. /\ held[w] \in ItemIds /\ held[w] \in Nat
      /\ x \in Result /\ x.w = w /\ x.id = held[w] /\ x.kind = kind
  BY <1>1, PoolAssumption DEF IInv, TypeOK, HeldWhileHandling, Emit, Result, Kinds,
                             ItemIds, MaxItems
<1>3. \A r \in ResultsOf(w) : Rank(r) < Rank(x) /\ r.kind # "exc"
  <2>1. SUFFICES ASSUME NEW r \in ResultsOf(w)
                 PROVE  Rank(r) < Rank(x) /\ r.kind # "exc"
    OBVIOUS
  <2>2. Rank(r) < NextRank(w) /\ r.kind # "exc"
    BY <1>1 DEF OrderInv, PublishedBelow
  <2>3. NextRank(w) <= Rank(x) /\ NextRank(w) \in Nat
    BY <1>1, <1>2, RankBounds DEF NextRank
  <2>4. r \in Result
    BY PipelineTyped DEF ResultsOf
  <2>5. Rank(r) \in Nat /\ Rank(x) \in Nat
    BY <1>2, <2>4, RankBounds
  <2>. QED  BY <2>2, <2>3, <2>5
<1>4. /\ resQ[w] \in Seq(Result)
      /\ ToSet(resQ'[w]) = ToSet(resQ[w]) \cup {x}
      /\ \A v \in Workers \ {w} : resQ'[v] = resQ[v]
  BY <1>1, <1>2, ToSetAppend DEF IInv, TypeOK
<1>5. PipelineResults' = PipelineResults \cup {x}
  BY <1>1, <1>4 DEF PipelineResults
<1>6. /\ ResultsOf(w)' = ResultsOf(w) \cup {x}
      /\ \A v \in Workers \ {w} : ResultsOf(v)' = ResultsOf(v)
  BY <1>2, <1>5 DEF ResultsOf
<1>7. PrecedesFor(PipelineResults, {x}, w)
  BY <1>3 DEF PrecedesFor, ResultsOf
<1>8. WorkerStreamOrdered'
  <2>1. SUFFICES ASSUME NEW v \in Workers
                 PROVE  /\ SortedFor(delivered, v)'
                        /\ SortedFor(shared, v)'
                        /\ SortedFor(resQ[v], v)'
                        /\ PrecedesFor(ToSet(delivered),
                              ToSet(caught) \cup ToSet(shared) \cup ToSet(hand) \cup ToSet(resQ[v]), v)'
                        /\ PrecedesFor(ToSet(caught),
                              ToSet(shared) \cup ToSet(hand) \cup ToSet(resQ[v]), v)'
                        /\ PrecedesFor(ToSet(shared), ToSet(hand) \cup ToSet(resQ[v]), v)'
                        /\ PrecedesFor(ToSet(hand), ToSet(resQ[v]), v)'
    BY DEF WorkerStreamOrdered
  <2>2. CASE v # w
    <3>1. WorkerStreamOrderedFor(v)
      BY DEF OrderInv, WorkerStreamOrdered, WorkerStreamOrderedFor
    <3>2. resQ'[v] = resQ[v] /\ UNCHANGED <<delivered, caught, shared, hand>>
      BY <1>1, <1>4, <2>2
    <3>. QED  BY <3>1, <3>2 DEF WorkerStreamOrderedFor
  <2>3. CASE v = w
    <3>1. SortedFor(resQ'[w], w)
      <4>1. PrecedesFor(ToSet(resQ[w]), {x}, w)
        BY <1>7, PrecedesSubset DEF PipelineResults
      <4>2. SortedFor(resQ[w], w)
        BY DEF OrderInv, WorkerStreamOrdered
      <4>3. resQ'[w] = Append(resQ[w], x)
        BY <1>1 DEF IInv, TypeOK
      <4>. QED  BY <1>2, <1>4, <4>1, <4>2, <4>3, SortedAppend
    <3>2. \A S \in SUBSET PipelineResults : \A T :
             PrecedesFor(S, T, w) => PrecedesFor(S, T \cup {x}, w)
      BY <1>7 DEF PrecedesFor
    <3>3. /\ ToSet(delivered) \subseteq PipelineResults
          /\ ToSet(caught) \subseteq PipelineResults
          /\ ToSet(shared) \subseteq PipelineResults
          /\ ToSet(hand) \subseteq PipelineResults
      BY DEF PipelineResults
    <3>4. /\ ToSet(delivered)' = ToSet(delivered)
          /\ ToSet(caught)' = ToSet(caught)
          /\ ToSet(shared)' = ToSet(shared)
          /\ ToSet(hand)' = ToSet(hand)
          /\ ToSet(resQ[w])' = ToSet(resQ[w]) \cup {x}
          /\ SortedFor(delivered, w)' = SortedFor(delivered, w)
          /\ SortedFor(shared, w)' = SortedFor(shared, w)
      BY <1>1, <1>4
    <3>5. PrecedesFor(ToSet(delivered),
             ToSet(caught) \cup ToSet(shared) \cup ToSet(hand) \cup ToSet(resQ[w]), w)'
      <4>1. PrecedesFor(ToSet(delivered),
             (ToSet(caught) \cup ToSet(shared) \cup ToSet(hand) \cup ToSet(resQ[w])) \cup {x}, w)
        BY <3>2, <3>3 DEF OrderInv, WorkerStreamOrdered
      <4>. QED  BY <3>4, <4>1
    <3>6. PrecedesFor(ToSet(caught), ToSet(shared) \cup ToSet(hand) \cup ToSet(resQ[w]), w)'
      <4>1. PrecedesFor(ToSet(caught),
             (ToSet(shared) \cup ToSet(hand) \cup ToSet(resQ[w])) \cup {x}, w)
        BY <3>2, <3>3 DEF OrderInv, WorkerStreamOrdered
      <4>. QED  BY <3>4, <4>1
    <3>7. PrecedesFor(ToSet(shared), ToSet(hand) \cup ToSet(resQ[w]), w)'
      <4>1. PrecedesFor(ToSet(shared), (ToSet(hand) \cup ToSet(resQ[w])) \cup {x}, w)
        BY <3>2, <3>3 DEF OrderInv, WorkerStreamOrdered
      <4>. QED  BY <3>4, <4>1
    <3>8. PrecedesFor(ToSet(hand), ToSet(resQ[w]), w)'
      <4>1. PrecedesFor(ToSet(hand), ToSet(resQ[w]) \cup {x}, w)
        BY <3>2, <3>3 DEF OrderInv, WorkerStreamOrdered
      <4>. QED  BY <3>4, <4>1
    <3>9. SortedFor(delivered, w)' /\ SortedFor(shared, w)'
      BY <3>4 DEF OrderInv, WorkerStreamOrdered
    <3>. QED  BY <2>3, <3>1, <3>5, <3>6, <3>7, <3>8, <3>9
  <2>. QED  BY <2>2, <2>3
<1>9. ResultQueuesOwned'
  BY <1>1, <1>2, <1>4 DEF OrderInv, ResultQueuesOwned
<1>10. IdsVentilated'
  BY <1>1, <1>2, <1>5 DEF OrderInv, IdsVentilated
<1>11. InputsFresh'
  BY <1>1, <1>2, <1>6 DEF OrderInv, InputsFresh
<1>12. PublishedBelow'
  <2>1. SUFFICES ASSUME NEW v \in Workers, NEW r \in ResultsOf(v)'
                 PROVE  /\ wpc'[v] \notin {"get", "exited"} => Rank(r) < NextRank(v)'
                        /\ wpc'[v] # "exited" => r.kind # "exc"
    BY DEF PublishedBelow
  <2>2. CASE v # w
    <3>1. wpc'[v] = wpc[v] /\ held'[v] = held[v] /\ r \in ResultsOf(v)
      BY <1>1, <1>6, <2>2 DEF IInv, TypeOK
    <3>. QED  BY <3>1 DEF OrderInv, PublishedBelow, NextRank
  <2>3. CASE v = w /\ to = "exited"
    BY <1>1, <2>3 DEF IInv, TypeOK
  <2>4. CASE v = w /\ to # "exited"
    <3>1. kind # "exc" /\ wpc'[w] = to
      BY <1>1, <2>4 DEF IInv, TypeOK
    <3>2. NextRank(w)' = Rank(x) + 1
      BY <1>1, <1>2, <2>4, <3>1, RankBounds DEF NextRank
    <3>3. r \in ResultsOf(w) \/ r = x
      BY <1>6, <2>4
    <3>4. Rank(x) \in Nat
      BY <1>2, RankBounds
    <3>5. CASE r = x
      BY <1>2, <2>4, <3>1, <3>2, <3>4, <3>5
    <3>6. CASE r \in ResultsOf(w)
      <4>1. Rank(r) \in Nat
        <5>1. r \in Result
          BY <3>6, PipelineTyped DEF ResultsOf
        <5>. QED  BY <5>1, RankBounds
      <4>. QED  BY <1>3, <2>4, <3>2, <3>4, <3>6, <4>1
    <3>. QED  BY <3>3, <3>5, <3>6
  <2>. QED  BY <2>2, <2>3, <2>4
<1>. QED  BY <1>1, <1>8, <1>9, <1>10, <1>11, <1>12
          DEF OrderInv, CaughtEndsGet, InputsIncreasing

\* Lines 70-71: back to the loop head; the worker drops its item.
LEMMA WorkerSetIdleOrder ==
    ASSUME IInv, OrderInv, NEW w \in Workers, WorkerSetIdle(w)
    PROVE  OrderInv'
<1>1. /\ wpc[w] = "set_idle"
      /\ held' = [held EXCEPT ![w] = 0]
      /\ wpc' = [wpc EXCEPT ![w] = "get"]
      /\ UNCHANGED <<inQ, resQ, shared, hand, delivered, caught, cpc, ventilated>>
  BY DEF WorkerSetIdle, mergerVars, callerVars, ventVars
<1>2. /\ WorkerStreamOrdered' /\ ResultQueuesOwned'
      /\ PipelineResults' = PipelineResults
      /\ \A v \in Workers : ResultsOf(v)' = ResultsOf(v)
  BY <1>1, OrderedStays DEF OrderInv
<1>3. \A v \in Workers \ {w} : wpc'[v] = wpc[v] /\ held'[v] = held[v]
  BY <1>1 DEF IInv, TypeOK
<1>4. wpc'[w] = "get"
  BY <1>1 DEF IInv, TypeOK
<1>5. \A v \in Workers \ {w} : NextRank(v)' = NextRank(v)
  BY <1>3 DEF NextRank
<1>6. IdsVentilated' /\ InputsFresh'
  BY <1>1, <1>2, <1>3, <1>4 DEF OrderInv, IdsVentilated, InputsFresh
<1>7. PublishedBelow'
  BY <1>1, <1>2, <1>3, <1>4, <1>5 DEF OrderInv, PublishedBelow
<1>. QED  BY <1>1, <1>2, <1>6, <1>7 DEF OrderInv, CaughtEndsGet, InputsIncreasing

LEMMA WorkerOrder ==
    ASSUME IInv, OrderInv, NEW w \in Workers, WorkerNext(w)
    PROVE  OrderInv'
<1>1. CASE WorkerPublishData(w)
  BY <1>1, PublishOrder DEF WorkerPublishData
<1>2. CASE WorkerPublishMarker(w)
  BY <1>2, PublishOrder DEF WorkerPublishMarker
<1>3. CASE WorkerPutException(w)
  <2>1. StopAwarePut(w, "exc", "put_exc", "exited")
    BY <1>3 DEF WorkerPutException, StopAwarePut
  <2>. QED  BY <2>1, PublishOrder
<1>. QED  BY <1>1, <1>2, <1>3, WorkerGetOrder, WorkerHandleOrder, WorkerSetIdleOrder
          DEF WorkerNext

-----------------------------------------------------------------------------
(* The round-robin consumer.                                               *)

\* Lines 374-391: the head of the current worker's result queue goes into
\* the consumer's hand, the stage right after that queue.
LEMMA MergerTakeOrder ==
    ASSUME IInv, OrderInv, MergerTake
    PROVE  OrderInv'
<1>1. UNCHANGED <<inQ, held, wpc, ventilated, shared, delivered, caught, cpc>>
  BY DEF MergerTake, workerVars, ventVars, callerVars
<1>2. CASE resQ[cur] = <<>>
  <2>1. UNCHANGED <<hand, resQ>>
    BY <1>2 DEF MergerTake
  <2>2. WorkerStreamOrdered' /\ ResultQueuesOwned' /\ PipelineResults' = PipelineResults
    BY <1>1, <2>1, OrderedStays DEF OrderInv
  <2>. QED  BY <1>1, <2>2, WorkerFactsStay DEF OrderInv, CaughtEndsGet
<1>3. CASE resQ[cur] # <<>>
  <2>. DEFINE h == Head(resQ[cur])
  <2>1. /\ cur \in Workers /\ resQ[cur] \in Seq(Result) /\ hand = <<>>
        /\ hand' = <<h>>
        /\ resQ' = [resQ EXCEPT ![cur] = Tail(resQ[cur])]
    BY <1>3 DEF MergerTake, IInv, TypeOK, HandWhileForwarding
  <2>2. /\ ToSet(Tail(resQ[cur])) \subseteq ToSet(resQ[cur])
        /\ h \in ToSet(resQ[cur])
        /\ ToSet(hand') = {h} /\ ToSet(hand) = {}
        /\ h.w = cur
    BY <1>3, <2>1, ToSetTail, ToSetSingle DEF OrderInv, ResultQueuesOwned
  <2>3. /\ ToSet(resQ'[cur]) = ToSet(Tail(resQ[cur]))
        /\ \A v \in Workers \ {cur} : resQ'[v] = resQ[v]
    BY <2>1 DEF IInv, TypeOK
  <2>4. PipelineResults' \subseteq PipelineResults
    <3>1. \A v \in Workers : ToSet(resQ'[v]) \subseteq ToSet(resQ[v])
      BY <2>2, <2>3
    <3>2. UNION {ToSet(resQ'[v]) : v \in Workers} \subseteq UNION {ToSet(resQ[v]) : v \in Workers}
      BY <3>1
    <3>3. ToSet(hand') \subseteq UNION {ToSet(resQ[v]) : v \in Workers}
      BY <2>1, <2>2
    <3>. QED  BY <1>1, <3>2, <3>3 DEF PipelineResults
  <2>5. ResultQueuesOwned'
    BY <2>2, <2>3 DEF OrderInv, ResultQueuesOwned
  <2>6. WorkerStreamOrdered'
    <3>1. SUFFICES ASSUME NEW v \in Workers
                   PROVE  /\ SortedFor(delivered, v)'
                          /\ SortedFor(shared, v)'
                          /\ SortedFor(resQ[v], v)'
                          /\ PrecedesFor(ToSet(delivered),
                                ToSet(caught) \cup ToSet(shared) \cup ToSet(hand) \cup ToSet(resQ[v]), v)'
                          /\ PrecedesFor(ToSet(caught),
                                ToSet(shared) \cup ToSet(hand) \cup ToSet(resQ[v]), v)'
                          /\ PrecedesFor(ToSet(shared), ToSet(hand) \cup ToSet(resQ[v]), v)'
                          /\ PrecedesFor(ToSet(hand), ToSet(resQ[v]), v)'
      BY DEF WorkerStreamOrdered
    <3>2. /\ SortedFor(delivered, v)' = SortedFor(delivered, v)
          /\ SortedFor(shared, v)' = SortedFor(shared, v)
          /\ ToSet(delivered)' = ToSet(delivered)
          /\ ToSet(caught)' = ToSet(caught)
          /\ ToSet(shared)' = ToSet(shared)
      BY <1>1
    <3>3. CASE v = cur
      <4>1. SortedFor(resQ[cur], cur)
        BY <2>1 DEF OrderInv, WorkerStreamOrdered
      <4>2. SortedFor(Tail(resQ[cur]), cur) /\ PrecedesFor({h}, ToSet(Tail(resQ[cur])), cur)
        BY <1>3, <2>1, <4>1, SortedTail
      <4>3. /\ ToSet(hand)' = {h}
            /\ ToSet(resQ[v])' = ToSet(Tail(resQ[cur]))
            /\ SortedFor(resQ[v], v)' = SortedFor(Tail(resQ[cur]), cur)
        BY <2>1, <2>2, <2>3, <3>3 DEF IInv, TypeOK
      <4>4. {h} \cup ToSet(Tail(resQ[cur])) \subseteq ToSet(resQ[v])
        BY <2>2, <3>3
      <4>5. /\ PrecedesFor(ToSet(delivered), ToSet(caught) \cup ToSet(shared) \cup ToSet(resQ[v]), v)
            /\ PrecedesFor(ToSet(caught), ToSet(shared) \cup ToSet(resQ[v]), v)
            /\ PrecedesFor(ToSet(shared), ToSet(resQ[v]), v)
        BY <2>2 DEF OrderInv, WorkerStreamOrdered
      <4>6. PrecedesFor(ToSet(delivered),
               ToSet(caught) \cup ToSet(shared) \cup {h} \cup ToSet(Tail(resQ[cur])), v)
        BY <4>4, <4>5, PrecedesSubset
      <4>7. PrecedesFor(ToSet(caught), ToSet(shared) \cup {h} \cup ToSet(Tail(resQ[cur])), v)
        BY <4>4, <4>5, PrecedesSubset
      <4>8. PrecedesFor(ToSet(shared), {h} \cup ToSet(Tail(resQ[cur])), v)
        BY <4>4, <4>5, PrecedesSubset
      <4>9. SortedFor(delivered, v) /\ SortedFor(shared, v)
        BY DEF OrderInv, WorkerStreamOrdered
      <4>. QED  BY <3>2, <3>3, <4>2, <4>3, <4>6, <4>7, <4>8, <4>9
    <3>4. CASE v # cur
      <4>1. h.w # v /\ resQ'[v] = resQ[v]
        BY <2>2, <2>3, <3>4
      <4>2. /\ PrecedesFor(ToSet(delivered), {h}, v) /\ PrecedesFor(ToSet(caught), {h}, v)
            /\ PrecedesFor(ToSet(shared), {h}, v) /\ PrecedesFor({h}, ToSet(resQ[v]), v)
        BY <4>1, PrecedesForeign
      <4>3. /\ ToSet(hand)' = {h} /\ ToSet(hand) = {}
            /\ ToSet(resQ[v])' = ToSet(resQ[v])
            /\ SortedFor(resQ[v], v)' = SortedFor(resQ[v], v)
        BY <2>2, <4>1
      <4>4. /\ SortedFor(delivered, v) /\ SortedFor(shared, v) /\ SortedFor(resQ[v], v)
            /\ PrecedesFor(ToSet(delivered), ToSet(caught) \cup ToSet(shared) \cup ToSet(resQ[v]), v)
            /\ PrecedesFor(ToSet(caught), ToSet(shared) \cup ToSet(resQ[v]), v)
            /\ PrecedesFor(ToSet(shared), ToSet(resQ[v]), v)
        BY <4>3 DEF OrderInv, WorkerStreamOrdered
      <4>5. /\ PrecedesFor(ToSet(delivered), ToSet(caught) \cup ToSet(shared) \cup {h} \cup ToSet(resQ[v]), v)
            /\ PrecedesFor(ToSet(caught), ToSet(shared) \cup {h} \cup ToSet(resQ[v]), v)
            /\ PrecedesFor(ToSet(shared), {h} \cup ToSet(resQ[v]), v)
        BY <4>2, <4>4, PrecedesUnion
      <4>. QED  BY <3>2, <4>2, <4>3, <4>4, <4>5
    <3>. QED  BY <3>3, <3>4
  <2>. QED  BY <1>1, <2>4, <2>5, <2>6, WorkerFactsStay DEF OrderInv, CaughtEndsGet
<1>. QED  BY <1>2, <1>3

\* Lines 392-406: the result in hand goes to the end of the shared queue, the
\* stage right before the hand, or is dropped when that queue is full.
LEMMA MergerForwardOrder ==
    ASSUME IInv, OrderInv, MergerForward
    PROVE  OrderInv'
<1>. DEFINE h == Head(hand)
<1>1. /\ UNCHANGED <<inQ, held, wpc, ventilated, resQ, delivered, caught, cpc>>
      /\ hand' = <<>>
      /\ \/ shared' = Append(shared, h)
         \/ shared' = shared
  BY DEF MergerForward, workerVars, ventVars, callerVars
<1>2. /\ hand \in Seq(Result) /\ hand = <<h>> /\ shared \in Seq(Result)
      /\ h \in Result
      /\ ToSet(hand) = {h} /\ ToSet(hand') = {}
  <2>1. hand \in Seq(Result) /\ shared \in Seq(Result) /\ hand # <<>> /\ Len(hand) <= 1
    BY DEF MergerForward, IInv, TypeOK, HandWhileForwarding
  <2>2. hand = <<h>> /\ h \in Result
    BY <2>1, SingletonSeq
  <2>3. ToSet(hand) = {h}
    BY <2>2, ToSetSingle
  <2>4. ToSet(hand') = {}
    BY <1>1, ToSetSingle
  <2>. QED  BY <2>1, <2>2, <2>3, <2>4
<1>3. CASE shared' = shared
  <2>1. PipelineResults' \subseteq PipelineResults
    BY <1>1, <1>2, <1>3 DEF PipelineResults
  <2>2. ResultQueuesOwned'
    BY <1>1 DEF OrderInv, ResultQueuesOwned
  <2>3. WorkerStreamOrdered'
    <3>1. SUFFICES ASSUME NEW v \in Workers
                   PROVE  /\ SortedFor(delivered, v)'
                          /\ SortedFor(shared, v)'
                          /\ SortedFor(resQ[v], v)'
                          /\ PrecedesFor(ToSet(delivered),
                                ToSet(caught) \cup ToSet(shared) \cup ToSet(hand) \cup ToSet(resQ[v]), v)'
                          /\ PrecedesFor(ToSet(caught),
                                ToSet(shared) \cup ToSet(hand) \cup ToSet(resQ[v]), v)'
                          /\ PrecedesFor(ToSet(shared), ToSet(hand) \cup ToSet(resQ[v]), v)'
                          /\ PrecedesFor(ToSet(hand), ToSet(resQ[v]), v)'
      BY DEF WorkerStreamOrdered
    <3>2. /\ SortedFor(delivered, v) /\ SortedFor(shared, v) /\ SortedFor(resQ[v], v)
          /\ PrecedesFor(ToSet(delivered), ToSet(caught) \cup ToSet(shared) \cup {h} \cup ToSet(resQ[v]), v)
          /\ PrecedesFor(ToSet(caught), ToSet(shared) \cup {h} \cup ToSet(resQ[v]), v)
          /\ PrecedesFor(ToSet(shared), {h} \cup ToSet(resQ[v]), v)
      BY <1>2 DEF OrderInv, WorkerStreamOrdered
    <3>3. /\ PrecedesFor(ToSet(delivered), ToSet(caught) \cup ToSet(shared) \cup ToSet(resQ[v]), v)
          /\ PrecedesFor(ToSet(caught), ToSet(shared) \cup ToSet(resQ[v]), v)
          /\ PrecedesFor(ToSet(shared), ToSet(resQ[v]), v)
      BY <3>2, PrecedesUnion
    <3>4. PrecedesFor({}, ToSet(resQ[v]), v)
      BY PrecedesEmpty
    <3>. QED  BY <1>1, <1>2, <1>3, <3>2, <3>3, <3>4
  <2>. QED  BY <1>1, <2>1, <2>2, <2>3, WorkerFactsStay DEF OrderInv, CaughtEndsGet
<1>4. CASE shared' = Append(shared, h)
  <2>1. ToSet(shared') = ToSet(shared) \cup {h}
    BY <1>2, <1>4, ToSetAppend
  <2>2. PipelineResults' \subseteq PipelineResults
    BY <1>1, <1>2, <2>1 DEF PipelineResults
  <2>3. ResultQueuesOwned'
    BY <1>1 DEF OrderInv, ResultQueuesOwned
  <2>4. WorkerStreamOrdered'
    <3>1. SUFFICES ASSUME NEW v \in Workers
                   PROVE  /\ SortedFor(delivered, v)'
                          /\ SortedFor(shared, v)'
                          /\ SortedFor(resQ[v], v)'
                          /\ PrecedesFor(ToSet(delivered),
                                ToSet(caught) \cup ToSet(shared) \cup ToSet(hand) \cup ToSet(resQ[v]), v)'
                          /\ PrecedesFor(ToSet(caught),
                                ToSet(shared) \cup ToSet(hand) \cup ToSet(resQ[v]), v)'
                          /\ PrecedesFor(ToSet(shared), ToSet(hand) \cup ToSet(resQ[v]), v)'
                          /\ PrecedesFor(ToSet(hand), ToSet(resQ[v]), v)'
      BY DEF WorkerStreamOrdered
    <3>2. /\ SortedFor(delivered, v) /\ SortedFor(shared, v) /\ SortedFor(resQ[v], v)
          /\ PrecedesFor(ToSet(delivered), ToSet(caught) \cup ToSet(shared) \cup {h} \cup ToSet(resQ[v]), v)
          /\ PrecedesFor(ToSet(caught), ToSet(shared) \cup {h} \cup ToSet(resQ[v]), v)
          /\ PrecedesFor(ToSet(shared), {h} \cup ToSet(resQ[v]), v)
          /\ PrecedesFor({h}, ToSet(resQ[v]), v)
      BY <1>2 DEF OrderInv, WorkerStreamOrdered
    <3>3. SortedFor(Append(shared, h), v)
      BY <1>2, <3>2, PrecedesUnion, SortedAppend
    <3>4. /\ PrecedesFor(ToSet(shared) \cup {h}, ToSet(resQ[v]), v)
          /\ PrecedesFor(ToSet(hand'), ToSet(resQ[v]), v)
      BY <1>2, <3>2, PrecedesUnion, PrecedesEmpty
    <3>. QED  BY <1>1, <1>2, <1>4, <2>1, <3>2, <3>3, <3>4
  <2>. QED  BY <1>1, <2>2, <2>3, <2>4, WorkerFactsStay DEF OrderInv, CaughtEndsGet
<1>. QED  BY <1>1, <1>3, <1>4

-----------------------------------------------------------------------------
(* get_results.                                                            *)

\* Lines 269-278: a get from the shared queue, with a caught exception
\* ending the loop.  get_results gets only while it has caught nothing.
LEMMA CallerGetOrder ==
    ASSUME IInv, OrderInv, CallerGet
    PROVE  OrderInv'
<1>. DEFINE h == Head(shared)
            tl == Tail(shared)
<1>1. /\ cpc = "get" /\ caught = <<>>
      /\ UNCHANGED <<inQ, held, wpc, ventilated, resQ, hand>>
  <2>1. cpc = "get"
    BY DEF CallerGet
  <2>2. caught = <<>>
    BY <2>1 DEF OrderInv, CaughtEndsGet
  <2>. QED  BY <2>1, <2>2 DEF CallerGet, workerVars, mergerVars, ventVars
<1>2. /\ shared \in Seq(Result) /\ delivered \in Seq(Result) /\ hand \in Seq(Result)
      /\ \A v \in Workers : resQ[v] \in Seq(Result)
      /\ ToSet(caught) = {}
  BY <1>1, ToSetSingle DEF IInv, TypeOK
<1>3. ResultQueuesOwned'
  BY <1>1 DEF OrderInv, ResultQueuesOwned
<1>4. CASE shared # <<>> /\ h.kind # "exc"
  <2>1. /\ delivered' = Append(delivered, h) /\ shared' = tl
        /\ caught' = caught /\ cpc' = "check"
    BY <1>4 DEF CallerGet
  <2>2. /\ h \in Result /\ tl \in Seq(Result)
        /\ h \in ToSet(shared) /\ ToSet(tl) \subseteq ToSet(shared)
    BY <1>2, <1>4, HeadTailProperties, ToSetTail
  <2>3. ToSet(delivered') = ToSet(delivered) \cup {h}
    BY <1>2, <2>1, ToSetAppend
  <2>4. PipelineResults' \subseteq PipelineResults
    BY <1>1, <2>1, <2>2, <2>3 DEF PipelineResults
  <2>5. WorkerStreamOrdered'
    <3>1. SUFFICES ASSUME NEW v \in Workers PROVE WorkerStreamOrderedFor(v)'
      BY DEF WorkerStreamOrdered, WorkerStreamOrderedFor
    <3>2. WorkerStreamOrderedFor(v)
      BY StreamOrderedFor DEF OrderInv
    <3>3. SortedFor(tl, v) /\ PrecedesFor({h}, ToSet(tl), v)
      BY <1>2, <1>4, <3>2, SortedTail DEF WorkerStreamOrderedFor
    <3>4. /\ PrecedesFor({h}, ToSet(hand) \cup ToSet(resQ[v]), v)
          /\ PrecedesFor(ToSet(tl), ToSet(hand) \cup ToSet(resQ[v]), v)
      BY <2>2, <3>2 DEF WorkerStreamOrderedFor, PrecedesFor
    <3>5. /\ PrecedesFor(ToSet(delivered), {h}, v)
          /\ PrecedesFor(ToSet(delivered), ToSet(tl) \cup ToSet(hand) \cup ToSet(resQ[v]), v)
      BY <2>2, <3>2 DEF WorkerStreamOrderedFor, PrecedesFor
    <3>6. SortedFor(Append(delivered, h), v)
      BY <1>2, <2>2, <3>2, <3>5, SortedAppend DEF WorkerStreamOrderedFor
    <3>7. PrecedesFor(ToSet(delivered) \cup {h},
                      ToSet(caught) \cup ToSet(tl) \cup ToSet(hand) \cup ToSet(resQ[v]), v)
      BY <1>2, <3>3, <3>4, <3>5 DEF PrecedesFor
    <3>8. PrecedesFor(ToSet(caught), ToSet(tl) \cup ToSet(hand) \cup ToSet(resQ[v]), v)
      BY <1>2, PrecedesEmpty
    <3>. QED  BY <1>1, <2>1, <2>3, <3>2, <3>3, <3>4, <3>6, <3>7, <3>8
                 DEF WorkerStreamOrderedFor
  <2>6. CaughtEndsGet'
    BY <1>1, <2>1 DEF CaughtEndsGet
  <2>. QED  BY <1>1, <1>3, <2>4, <2>5, <2>6, WorkerFactsStay DEF OrderInv
<1>5. CASE shared # <<>> /\ h.kind = "exc"
  <2>1. /\ caught' = <<h>> /\ shared' = tl
        /\ delivered' = delivered /\ cpc' = "stop_vent"
    BY <1>5 DEF CallerGet
  <2>2. /\ h \in Result /\ tl \in Seq(Result)
        /\ h \in ToSet(shared) /\ ToSet(tl) \subseteq ToSet(shared)
    BY <1>2, <1>5, HeadTailProperties, ToSetTail
  <2>3. ToSet(caught') = {h}
    BY <2>1, ToSetSingle
  <2>4. PipelineResults' \subseteq PipelineResults
    BY <1>1, <2>1, <2>2, <2>3 DEF PipelineResults
  <2>5. WorkerStreamOrdered'
    <3>1. SUFFICES ASSUME NEW v \in Workers PROVE WorkerStreamOrderedFor(v)'
      BY DEF WorkerStreamOrdered, WorkerStreamOrderedFor
    <3>2. WorkerStreamOrderedFor(v)
      BY StreamOrderedFor DEF OrderInv
    <3>3. SortedFor(tl, v) /\ PrecedesFor({h}, ToSet(tl), v)
      BY <1>2, <1>5, <3>2, SortedTail DEF WorkerStreamOrderedFor
    <3>4. /\ PrecedesFor({h}, ToSet(hand) \cup ToSet(resQ[v]), v)
          /\ PrecedesFor(ToSet(tl), ToSet(hand) \cup ToSet(resQ[v]), v)
      BY <2>2, <3>2 DEF WorkerStreamOrderedFor, PrecedesFor
    <3>5. PrecedesFor(ToSet(delivered), {h} \cup ToSet(tl) \cup ToSet(hand) \cup ToSet(resQ[v]), v)
      BY <2>2, <3>2 DEF WorkerStreamOrderedFor, PrecedesFor
    <3>6. PrecedesFor({h}, ToSet(tl) \cup ToSet(hand) \cup ToSet(resQ[v]), v)
      BY <3>3, <3>4 DEF PrecedesFor
    <3>. QED  BY <1>1, <2>1, <2>3, <3>2, <3>3, <3>4, <3>5, <3>6
                 DEF WorkerStreamOrderedFor
  <2>6. CaughtEndsGet'
    BY <2>1 DEF CaughtEndsGet
  <2>. QED  BY <1>1, <1>3, <2>4, <2>5, <2>6, WorkerFactsStay DEF OrderInv
<1>6. CASE shared = <<>>
  <2>1. UNCHANGED <<delivered, caught, shared>> /\ cpc' = "check"
    BY <1>6 DEF CallerGet
  <2>2. WorkerStreamOrdered' /\ PipelineResults' = PipelineResults
    BY <1>1, <2>1, OrderedStays DEF OrderInv
  <2>3. CaughtEndsGet'
    BY <1>1, <2>1 DEF CaughtEndsGet
  <2>. QED  BY <1>1, <1>3, <2>2, <2>3, WorkerFactsStay DEF OrderInv
<1>. QED  BY <1>4, <1>5, <1>6

-----------------------------------------------------------------------------
(* The ventilation thread.                                                 *)

\* ventilate, lines 223-227: the next ventilation index goes to the end of
\* one worker's input queue, above every index already in the pool.
LEMMA VentilatePutOrder ==
    ASSUME IInv, OrderInv, VentilatePut
    PROVE  OrderInv'
<1>. DEFINE wid == vpos % WorkersCount
            x == ventilated + 1
<1>1. /\ inQ' = [inQ EXCEPT ![wid] = Append(inQ[wid], x)]
      /\ ventilated' = x
      /\ UNCHANGED <<held, wpc, resQ, shared, hand, delivered, caught, cpc>>
  BY DEF VentilatePut, mergerVars, callerVars
<1>2. /\ wid \in Workers
      /\ inQ \in [Workers -> Seq(ItemIds)]
      /\ ventilated \in Nat
      /\ \A r \in PipelineResults : r.id \in Nat
  <2>1. vpos \in 0 .. ItemsCount
    BY DEF IInv, TypeOK
  <2>2. \A r \in PipelineResults : r \in Result
    BY DEF IInv, TypeOK, PipelineResults, ToSet
  <2>. QED  BY <2>1, <2>2, PoolAssumption DEF Workers, IInv, TypeOK, MaxItems, Result, ItemIds
<1>3. /\ WorkerStreamOrdered' /\ ResultQueuesOwned'
      /\ PipelineResults' = PipelineResults
      /\ \A v \in Workers : ResultsOf(v)' = ResultsOf(v) /\ NextRank(v)' = NextRank(v)
  BY <1>1, OrderedStays DEF OrderInv, NextRank
<1>4. CaughtEndsGet'
  BY <1>1 DEF OrderInv, CaughtEndsGet
<1>5. ASSUME NEW w \in Workers
      PROVE  /\ Len(inQ[w]) \in Nat /\ x \in Nat /\ ventilated < x
             /\ w = wid => Len(inQ'[w]) = Len(inQ[w]) + 1
             /\ w # wid => Len(inQ'[w]) = Len(inQ[w])
             /\ \A k \in 1 .. Len(inQ[w]) : inQ'[w][k] = inQ[w][k]
             /\ w = wid => inQ'[w][Len(inQ[w]) + 1] = x
             /\ \A k \in 1 .. Len(inQ[w]) : inQ[w][k] \in Nat /\ inQ[w][k] <= ventilated
  <2>1. inQ[w] \in Seq(ItemIds)
    BY <1>2
  <2>2. \A k \in 1 .. Len(inQ[w]) : inQ[w][k] <= ventilated
    BY DEF OrderInv, IdsVentilated
  <2>3. \A k \in 1 .. Len(inQ[w]) : inQ[w][k] \in Nat
    BY <2>1, PoolAssumption DEF ItemIds, MaxItems
  <2>. QED  BY <1>1, <1>2, <2>1, <2>2, <2>3
<1>6. InputsIncreasing'
  <2>1. SUFFICES ASSUME NEW w \in Workers, NEW i \in 1 .. Len(inQ'[w]),
                        NEW j \in 1 .. Len(inQ'[w]), i < j
                 PROVE  inQ'[w][i] < inQ'[w][j]
    BY DEF InputsIncreasing
  <2>2. \A a, b \in 1 .. Len(inQ[w]) : a < b => inQ[w][a] < inQ[w][b]
    BY DEF OrderInv, InputsIncreasing
  <2>3. /\ Len(inQ[w]) \in Nat /\ x \in Nat /\ ventilated < x
        /\ w = wid => Len(inQ'[w]) = Len(inQ[w]) + 1
        /\ w # wid => Len(inQ'[w]) = Len(inQ[w])
        /\ \A k \in 1 .. Len(inQ[w]) : inQ'[w][k] = inQ[w][k]
        /\ w = wid => inQ'[w][Len(inQ[w]) + 1] = x
        /\ \A k \in 1 .. Len(inQ[w]) : inQ[w][k] \in Nat /\ inQ[w][k] <= ventilated
    BY <1>5
  <2>4. CASE j \in 1 .. Len(inQ[w])
    <3>1. i \in 1 .. Len(inQ[w])
      BY <2>1, <2>3, <2>4
    <3>2. inQ[w][i] < inQ[w][j]
      BY <2>1, <2>2, <2>4, <3>1, Zenon
    <3>3. inQ'[w][i] = inQ[w][i] /\ inQ'[w][j] = inQ[w][j]
      BY <2>3, <2>4, <3>1, Zenon
    <3>. QED  BY <3>2, <3>3, Zenon
  <2>5. CASE j \notin 1 .. Len(inQ[w])
    <3>1. w = wid
      BY <2>1, <2>3, <2>5
    <3>2. j = Len(inQ[w]) + 1 /\ i \in 1 .. Len(inQ[w])
      BY <2>1, <2>3, <2>5, <3>1
    <3>3. inQ'[w][j] = x /\ inQ'[w][i] = inQ[w][i]
      BY <2>3, <3>1, <3>2
    <3>4. inQ[w][i] \in Nat /\ inQ[w][i] <= ventilated
      BY <2>3, <3>2
    <3>5. ventilated \in Nat /\ x \in Nat /\ ventilated < x
      BY <1>2, <2>3
    <3>6. inQ[w][i] < x
      BY <3>4, <3>5, BelowAbove
    <3>. QED  BY <3>3, <3>6, Zenon
  <2>. QED  BY <2>4, <2>5
<1>7. IdsVentilated'
  <2>1. \A v \in Workers : wpc[v] # "get" => held[v] \in Nat /\ held[v] <= ventilated
    BY PoolAssumption DEF OrderInv, IdsVentilated, IInv, HeldWhileHandling, ItemIds, MaxItems
  <2>2. \A v \in Workers : \A k \in 1 .. Len(inQ'[v]) : inQ'[v][k] <= x
    <3>1. SUFFICES ASSUME NEW v \in Workers, NEW k \in 1 .. Len(inQ'[v])
                   PROVE  inQ'[v][k] <= x
      OBVIOUS
    <3>2. /\ Len(inQ[v]) \in Nat /\ x \in Nat /\ ventilated < x
          /\ v = wid => Len(inQ'[v]) = Len(inQ[v]) + 1
          /\ v # wid => Len(inQ'[v]) = Len(inQ[v])
          /\ \A j \in 1 .. Len(inQ[v]) : inQ'[v][j] = inQ[v][j]
          /\ v = wid => inQ'[v][Len(inQ[v]) + 1] = x
          /\ \A j \in 1 .. Len(inQ[v]) : inQ[v][j] \in Nat /\ inQ[v][j] <= ventilated
      BY <1>5
    <3>3. CASE k \in 1 .. Len(inQ[v])
      <4>1. inQ'[v][k] = inQ[v][k] /\ inQ[v][k] \in Nat /\ inQ[v][k] <= ventilated
        BY <3>2, <3>3
      <4>2. ventilated \in Nat
        BY <1>2
      <4>3. inQ[v][k] <= x
        BY <3>2, <4>1, <4>2, BelowAbove
      <4>. QED  BY <4>1, <4>3, Zenon
    <3>4. CASE k \notin 1 .. Len(inQ[v])
      <4>1. v = wid /\ k = Len(inQ[v]) + 1
        BY <3>1, <3>2, <3>4
      <4>2. inQ'[v][k] = x
        BY <3>2, <4>1
      <4>. QED  BY <3>2, <4>2
    <3>. QED  BY <3>3, <3>4
  <2>. QED  BY <1>1, <1>2, <1>3, <2>1, <2>2 DEF OrderInv, IdsVentilated
<1>8. InputsFresh'
  <2>1. SUFFICES ASSUME NEW w \in Workers, NEW k \in 1 .. Len(inQ'[w])
                 PROVE  /\ \A r \in ResultsOf(w)' : r.id < inQ'[w][k]
                        /\ wpc'[w] # "get" => held'[w] < inQ'[w][k]
    BY DEF InputsFresh
  <2>2. /\ \A r \in ResultsOf(w) : r.id \in Nat /\ r.id <= ventilated
        /\ wpc[w] # "get" => held[w] \in Nat /\ held[w] <= ventilated
    BY <1>2, PoolAssumption DEF OrderInv, IdsVentilated, ResultsOf, IInv,
                                HeldWhileHandling, ItemIds, MaxItems
  <2>3. CASE k \in 1 .. Len(inQ[w])
    <3>1. /\ \A r \in ResultsOf(w) : r.id < inQ[w][k]
          /\ wpc[w] # "get" => held[w] < inQ[w][k]
      BY <2>3 DEF OrderInv, InputsFresh
    <3>2. \A r \in ResultsOf(w)' : r.id < inQ'[w][k]
      BY <1>3, <1>5, <2>3, <3>1
    <3>3. wpc'[w] # "get" => held'[w] < inQ'[w][k]
      BY <1>1, <1>5, <2>3, <3>1
    <3>. QED  BY <3>2, <3>3
  <2>4. CASE k \notin 1 .. Len(inQ[w])
    <3>0. /\ Len(inQ[w]) \in Nat /\ x \in Nat /\ ventilated < x
          /\ w = wid => Len(inQ'[w]) = Len(inQ[w]) + 1
          /\ w # wid => Len(inQ'[w]) = Len(inQ[w])
          /\ w = wid => inQ'[w][Len(inQ[w]) + 1] = x
      BY <1>5
    <3>1. w = wid
      BY <2>1, <2>4, <3>0
    <3>2. k = Len(inQ[w]) + 1
      BY <2>1, <2>4, <3>0, <3>1
    <3>3. inQ'[w][k] = x
      BY <3>0, <3>1, <3>2
    <3>4. ResultsOf(w)' = ResultsOf(w) /\ held'[w] = held[w] /\ wpc'[w] = wpc[w]
      BY <1>1, <1>3
    <3>5. /\ \A r \in ResultsOf(w) : r.id < x
          /\ wpc[w] # "get" => held[w] < x
      <4>1. ventilated \in Nat /\ x \in Nat /\ ventilated < x
        BY <1>2, <3>0
      <4>2. \A r \in ResultsOf(w) : r.id < x
        BY <2>2, <4>1, BelowAbove
      <4>3. wpc[w] # "get" => held[w] < x
        BY <2>2, <4>1, BelowAbove
      <4>. QED  BY <4>2, <4>3
    <3>. QED  BY <3>3, <3>4, <3>5
  <2>. QED  BY <2>3, <2>4
<1>9. PublishedBelow'
  BY <1>1, <1>3 DEF OrderInv, PublishedBelow
<1>. QED  BY <1>3, <1>4, <1>6, <1>7, <1>8, <1>9 DEF OrderInv

-----------------------------------------------------------------------------
(* The steps that move no result, no item and no worker.                   *)

\* CaughtEndsGet survives a step that leaves caught alone and moves
\* get_results only from a place where it has caught nothing or into stop().
LEMMA CaughtStays ==
    ASSUME CaughtEndsGet, caught' = caught,
           \/ cpc' = cpc
           \/ cpc' \in {"stop_vent", "join_vent", "done"}
           \/ cpc \notin {"stop_vent", "join_vent", "done"}
    PROVE  CaughtEndsGet'
BY DEF CaughtEndsGet

LEMMA QuietStepsOrder ==
    ASSUME OrderInv,
           \/ MergerLoop
           \/ VentilateCallEnd \/ CallerStartVentilator \/ CallerCheck
           \/ CallerStopVentilator \/ CallerJoinVentilator
           \/ StopperStopVentilator \/ StopperJoinVentilator
           \/ StopperWithoutVentilator
    PROVE  OrderInv'
<1>. DEFINE Quiet == UNCHANGED <<inQ, held, wpc, ventilated, resQ, shared, hand, delivered, caught>>
            Moves == \/ cpc' = cpc
                     \/ cpc' \in {"stop_vent", "join_vent", "done"}
                     \/ cpc \notin {"stop_vent", "join_vent", "done"}
<1>1. Quiet /\ Moves
  <2>1. CASE MergerLoop
    BY <2>1 DEF MergerLoop, workerVars, ventVars, callerVars
  <2>2. CASE VentilateCallEnd
    <3>1. UNCHANGED <<workerVars, mergerVars, callerVars, ventilated, resQ, shared>>
      BY <2>2 DEF VentilateCallEnd
    <3>. QED  BY <3>1 DEF workerVars, mergerVars, callerVars
  <2>3. CASE CallerStartVentilator
    <3>1. UNCHANGED <<workerVars, mergerVars, ventilated, resQ, shared, delivered, caught>>
          /\ cpc = "start_vent"
      BY <2>3 DEF CallerStartVentilator
    <3>. QED  BY <3>1 DEF workerVars, mergerVars
  <2>6. CASE CallerCheck
    <3>1. UNCHANGED <<workerVars, mergerVars, ventVars, resQ, shared, delivered, caught>>
          /\ cpc = "check"
      BY <2>6 DEF CallerCheck
    <3>. QED  BY <3>1 DEF workerVars, mergerVars, ventVars
  <2>4. CASE CallerStopVentilator \/ CallerJoinVentilator
    BY <2>4 DEF CallerStopVentilator, CallerJoinVentilator, workerVars, mergerVars,
                ventVars
  <2>5. CASE StopperStopVentilator \/ StopperJoinVentilator \/ StopperWithoutVentilator
    BY <2>5 DEF StopperStopVentilator, StopperJoinVentilator, StopperWithoutVentilator,
                workerVars, mergerVars, ventVars
  <2>. QED  BY <2>1, <2>2, <2>3, <2>4, <2>5, <2>6
<1>2. WorkerStreamOrdered' /\ ResultQueuesOwned' /\ PipelineResults' = PipelineResults
  BY <1>1, OrderedStays DEF OrderInv
<1>3. CaughtEndsGet'
  BY <1>1, CaughtStays DEF OrderInv
<1>. QED  BY <1>1, <1>2, <1>3, WorkerFactsStay DEF OrderInv

-----------------------------------------------------------------------------
(* After start() nothing is queued, held or published.                    *)
LEMMA InitOrder == Init => OrderInv
<1>. SUFFICES ASSUME Init PROVE OrderInv
  OBVIOUS
<1>1. /\ ToSet(<<>>) = {}
      /\ \A w \in Workers : Len(inQ[w]) = 0 /\ resQ[w] = <<>> /\ wpc[w] = "get"
  BY ToSetSingle DEF Init
<1>2. PipelineResults = {}
  BY <1>1 DEF Init, PipelineResults
<1>3. WorkerStreamOrdered /\ ResultQueuesOwned
  BY <1>1 DEF Init, WorkerStreamOrdered, SortedFor, PrecedesFor, ResultQueuesOwned
<1>4. CaughtEndsGet /\ InputsIncreasing
  BY <1>1 DEF Init, CaughtEndsGet, InputsIncreasing
<1>5. IdsVentilated /\ InputsFresh /\ PublishedBelow
  BY <1>1, <1>2 DEF IdsVentilated, InputsFresh, PublishedBelow, ResultsOf
<1>. QED  BY <1>3, <1>4, <1>5 DEF OrderInv

LEMMA StepOrder ==
    IInv /\ OrderInv /\ [Next]_vars => OrderInv'
<1> SUFFICES ASSUME IInv, OrderInv, [Next]_vars
             PROVE  OrderInv'
  OBVIOUS
<1>1. CASE UNCHANGED vars
  <2>1. UNCHANGED <<inQ, held, wpc, ventilated, resQ, shared, hand, delivered, caught, cpc>>
    BY <1>1 DEF vars
  <2>2. WorkerStreamOrdered' /\ ResultQueuesOwned' /\ PipelineResults' = PipelineResults
    BY <2>1, OrderedStays DEF OrderInv
  <2>3. CaughtEndsGet'
    BY <2>1, CaughtStays DEF OrderInv
  <2>. QED  BY <2>1, <2>2, <2>3, WorkerFactsStay DEF OrderInv
<1>2. CASE \E w \in Workers : WorkerNext(w)
  BY <1>2, WorkerOrder
<1>3. CASE MergerNext
  BY <1>3, QuietStepsOrder, MergerTakeOrder, MergerForwardOrder DEF MergerNext
<1>4. CASE VentilatorNext
  BY <1>4, VentilatePutOrder, QuietStepsOrder DEF VentilatorNext
<1>5. CASE CallerNext \/ StopperNext
  BY <1>5, CallerGetOrder, QuietStepsOrder DEF CallerNext, StopperNext
<1>. QED  BY <1>1, <1>2, <1>3, <1>4, <1>5 DEF Next

(***************************************************************************)
(* StreamInv holds in every reachable state: every step of every thread   *)
(* keeps the strengthening of the type invariant and the facts about the  *)
(* pipeline's order together.                                              *)
(***************************************************************************)
THEOREM StreamInvHolds == Spec => []StreamInv
<1>1. Spec => [](IInv /\ OrderInv)
  BY InitIInv, InitOrder, StepIInv, StepOrder, PTL DEF Spec
<1>. QED  BY <1>1, StreamInvParts, PTL

(***************************************************************************)
(* Spec 6 and 7, for every number of workers, items, iterations and queue *)
(* sizes: one worker's results reach get_results in the order the worker  *)
(* published them, none twice and none after its exception, through the   *)
(* FIFO hand-offs of WorkerThread.run, _stop_aware_put, the round-robin    *)
(* consumer (including the result it drops on queue.Full) and the gets of *)
(* get_results.                                                            *)
(***************************************************************************)
THEOREM StreamOrderedHolds == Spec => []WorkerStreamOrdered
<1>1. StreamInv => WorkerStreamOrdered
  BY DEF StreamInv
<1>. QED  BY <1>1, StreamInvHolds, PTL

=============================================================================
