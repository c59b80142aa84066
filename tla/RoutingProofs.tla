---------------------------- MODULE RoutingProofs ----------------------------
(***************************************************************************)
(* Proof that ThreadPool keeps RoutedByPosition for every value of the     *)
(* constants PoolAssumption allows: the item ventilate puts at position i  *)
(* of a call lands in worker i mod N's input queue, whatever the          *)
(* iteration, and every result up to the caller names the worker that    *)
(* handled its item.  The invariant is inductive relative to IInv: the    *)
(* ventilator step needs VentilationCounted to recover the position of    *)
(* the item it hands out from _ventilated_items, and the publish step     *)
(* needs HeldWhileHandling to know the worker holds an item.              *)
(***************************************************************************)
EXTENDS ThreadPoolProofs

\* The elements of a sequence after the operations the queues use.
LEMMA ToSetAppend ==
    ASSUME NEW S, NEW s \in Seq(S), NEW x
    PROVE  ToSet(Append(s, x)) = ToSet(s) \cup {x}
BY DEF ToSet

LEMMA ToSetTail ==
    ASSUME NEW S, NEW s \in Seq(S), s # <<>>
    PROVE  /\ ToSet(Tail(s)) \subseteq ToSet(s)
           /\ Head(s) \in ToSet(s)
BY DEF ToSet

LEMMA ToSetSingle ==
    ASSUME NEW x
    PROVE  ToSet(<<x>>) = {x} /\ ToSet(<<>>) = {}
BY DEF ToSet

USE PoolAssumption

\* The position arithmetic of ventilate: the item put with
\* _ventilated_items = i * len(items) + p goes to worker p % N.
LEMMA PositionOfIndex ==
    ASSUME NEW i \in Nat, NEW p \in 0 .. (ItemsCount - 1)
    PROVE  ItemWorker(i * ItemsCount + p + 1) = p % WorkersCount
<1>1. ItemsCount \in Nat \ {0} /\ WorkersCount \in Nat \ {0}
  BY PoolAssumption, SMT
<1>2. i * ItemsCount \in Nat
  BY <1>1, SMT
<1>3. (i * ItemsCount + p) % ItemsCount = p
  BY <1>1, <1>2, SMTT(30)
<1>. QED  BY <1>1, <1>2, <1>3 DEF ItemWorker

\* A step that leaves every result where it was keeps ResultsRouted.
LEMMA ResultsStay ==
    ASSUME ResultsRouted,
           UNCHANGED <<resQ, shared, hand, delivered, caught>>
    PROVE  ResultsRouted'
BY DEF ResultsRouted, PipelineResults

\* A step that only moves results between places keeps ResultsRouted.
LEMMA ResultsMoved ==
    ASSUME ResultsRouted, PipelineResults' \subseteq PipelineResults
    PROVE  ResultsRouted'
BY DEF ResultsRouted

\* The steps that leave the input queues, the held items and the worker
\* places alone.
LEMMA WorkersStay ==
    ASSUME InputsRouted, HeldRouted, UNCHANGED <<inQ, held, wpc>>
    PROVE  InputsRouted' /\ HeldRouted'
BY DEF InputsRouted, HeldRouted

-----------------------------------------------------------------------------
(* The worker threads.                                                     *)

LEMMA WorkerGetRouted ==
    ASSUME IInv, RoutedByPosition, NEW w \in Workers, WorkerGet(w)
    PROVE  RoutedByPosition'
<1>. USE DEF RoutedByPosition
<1>1. inQ[w] \in Seq(ItemIds) /\ inQ[w] # <<>>
  BY DEF IInv, TypeOK, WorkerGet
<1>2. /\ inQ' = [inQ EXCEPT ![w] = Tail(inQ[w])]
      /\ held' = [held EXCEPT ![w] = Head(inQ[w])]
      /\ wpc' = [wpc EXCEPT ![w] = "picked"]
  BY DEF WorkerGet
<1>3. ItemWorker(Head(inQ[w])) = w
  BY <1>1 DEF InputsRouted
<1>4. InputsRouted'
  BY <1>1, <1>2 DEF InputsRouted, IInv, TypeOK
<1>5. HeldRouted'
  BY <1>2, <1>3 DEF HeldRouted, IInv, TypeOK
<1>6. ResultsRouted'
  BY ResultsStay DEF WorkerGet, mergerVars, callerVars
<1>. QED  BY <1>4, <1>5, <1>6

\* Marking busy, running process: the worker moves between places away from
\* its loop head and keeps its item.
LEMMA WorkerHandleRouted ==
    ASSUME IInv, RoutedByPosition, NEW w \in Workers,
           WorkerSetBusy(w) \/ WorkerProcess(w)
    PROVE  RoutedByPosition'
<1>. USE DEF RoutedByPosition
<1>1. /\ wpc[w] # "get" /\ wpc'[w] # "get"
      /\ \A v \in Workers \ {w} : wpc'[v] = wpc[v]
      /\ UNCHANGED <<inQ, held, resQ, shared, hand, delivered, caught>>
  BY DEF WorkerSetBusy, WorkerProcess, IInv, TypeOK, mergerVars, callerVars
<1>2. wpc' \in [Workers -> WorkerPcs]
  BY DEF WorkerSetBusy, WorkerProcess, IInv, TypeOK, WorkerPcs
<1>3. InputsRouted' /\ HeldRouted'
  BY <1>1, <1>2 DEF InputsRouted, HeldRouted, IInv, TypeOK
<1>. QED  BY <1>1, <1>3, ResultsStay

LEMMA StopAwarePutRouted ==
    ASSUME IInv, RoutedByPosition, NEW w \in Workers, NEW kind \in Kinds,
           NEW from \in WorkerPcs \ {"get"}, NEW to \in WorkerPcs \ {"get"},
           StopAwarePut(w, kind, from, to)
    PROVE  RoutedByPosition'
<1>. USE DEF RoutedByPosition
<1>1. /\ resQ' = [resQ EXCEPT ![w] = Append(resQ[w], Emit(w, kind))]
      /\ wpc' = [wpc EXCEPT ![w] = to]
      /\ wpc[w] = from
      /\ UNCHANGED <<inQ, held, shared, hand, delivered, caught>>
  BY DEF StopAwarePut, mergerVars, callerVars
<1>2. ItemWorker(Emit(w, kind).id) = Emit(w, kind).w
  BY <1>1 DEF HeldRouted, Emit
<1>3. InputsRouted' /\ HeldRouted'
  BY <1>1 DEF InputsRouted, HeldRouted, IInv, TypeOK
<1>4. PipelineResults' \subseteq PipelineResults \cup {Emit(w, kind)}
  <2>1. resQ[w] \in Seq(Result)
    BY DEF IInv, TypeOK
  <2>2. ToSet(resQ'[w]) = ToSet(resQ[w]) \cup {Emit(w, kind)}
    BY <1>1, <2>1, ToSetAppend DEF IInv, TypeOK
  <2>. QED  BY <1>1, <2>2 DEF PipelineResults
<1>5. ResultsRouted'
  BY <1>2, <1>4 DEF ResultsRouted
<1>. QED  BY <1>3, <1>5

LEMMA WorkerSetIdleRouted ==
    ASSUME IInv, RoutedByPosition, NEW w \in Workers, WorkerSetIdle(w)
    PROVE  RoutedByPosition'
<1>. USE DEF RoutedByPosition
<1>1. /\ held' = [held EXCEPT ![w] = 0]
      /\ wpc' = [wpc EXCEPT ![w] = "get"]
      /\ UNCHANGED <<inQ, resQ, shared, hand, delivered, caught>>
  BY DEF WorkerSetIdle, mergerVars, callerVars
<1>2. InputsRouted' /\ HeldRouted'
  BY <1>1 DEF InputsRouted, HeldRouted, IInv, TypeOK
<1>. QED  BY <1>1, <1>2, ResultsStay

LEMMA WorkerRouted ==
    ASSUME IInv, RoutedByPosition, NEW w \in Workers, WorkerNext(w)
    PROVE  RoutedByPosition'
<1>1. CASE WorkerPublishData(w)
  BY <1>1, StopAwarePutRouted DEF WorkerPublishData, Kinds, WorkerPcs
<1>2. CASE WorkerPublishMarker(w)
  BY <1>2, StopAwarePutRouted DEF WorkerPublishMarker, Kinds, WorkerPcs
<1>3. CASE WorkerPutException(w)
  <2>1. StopAwarePut(w, "exc", "put_exc", "exited")
    BY <1>3 DEF WorkerPutException, StopAwarePut
  <2>. QED  BY <2>1, StopAwarePutRouted DEF Kinds, WorkerPcs
<1>. QED  BY <1>1, <1>2, <1>3, WorkerGetRouted, WorkerHandleRouted,
             WorkerSetIdleRouted DEF WorkerNext

-----------------------------------------------------------------------------
(* The round-robin consumer and the caller move results along.             *)

LEMMA MergerTakeRouted ==
    ASSUME IInv, RoutedByPosition, MergerTake
    PROVE  RoutedByPosition'
<1>. USE DEF RoutedByPosition
<1>1. UNCHANGED <<inQ, held, wpc, shared, delivered, caught>>
  BY DEF MergerTake, workerVars, callerVars
<1>2. CASE resQ[cur] # <<>>
  <2>1. /\ hand' = <<Head(resQ[cur])>>
        /\ resQ' = [resQ EXCEPT ![cur] = Tail(resQ[cur])]
    BY <1>2 DEF MergerTake
  <2>2. cur \in Workers /\ resQ[cur] \in Seq(Result)
    BY DEF IInv, TypeOK
  <2>3. ToSet(Tail(resQ[cur])) \subseteq ToSet(resQ[cur])
        /\ Head(resQ[cur]) \in ToSet(resQ[cur])
    BY <1>2, <2>2, ToSetTail
  <2>4. ToSet(hand') = {Head(resQ[cur])}
    BY <2>1, ToSetSingle
  <2>5. \A v \in Workers : ToSet(resQ'[v]) \subseteq ToSet(resQ[v])
    BY <2>1, <2>2, <2>3 DEF IInv, TypeOK
  <2>6. UNION {ToSet(resQ'[v]) : v \in Workers}
            \subseteq UNION {ToSet(resQ[v]) : v \in Workers}
    BY <2>5
  <2>7. ToSet(hand') \subseteq UNION {ToSet(resQ[v]) : v \in Workers}
    BY <2>2, <2>3, <2>4
  <2>8. PipelineResults' \subseteq PipelineResults
    BY <1>1, <2>6, <2>7 DEF PipelineResults
  <2>. QED  BY <1>1, <2>8, ResultsMoved, WorkersStay
<1>3. CASE resQ[cur] = <<>>
  <2>1. UNCHANGED <<hand, resQ>>
    BY <1>3 DEF MergerTake
  <2>. QED  BY <1>1, <2>1, ResultsStay, WorkersStay
<1>. QED  BY <1>2, <1>3

LEMMA MergerForwardRouted ==
    ASSUME IInv, RoutedByPosition, MergerForward
    PROVE  RoutedByPosition'
<1>. USE DEF RoutedByPosition
<1>1. UNCHANGED <<inQ, held, wpc, resQ, delivered, caught>> /\ hand' = <<>>
  BY DEF MergerForward, workerVars, callerVars
<1>2. hand \in Seq(Result) /\ hand # <<>> /\ shared \in Seq(Result)
  BY DEF MergerForward, IInv, TypeOK, HandWhileForwarding
<1>3. Head(hand) \in ToSet(hand) /\ ToSet(hand') = {}
  BY <1>1, <1>2, ToSetTail, ToSetSingle
<1>4. ToSet(shared') \subseteq ToSet(shared) \cup {Head(hand)}
  <2>1. CASE ~Full(shared, SharedQueueSize)
    <3>1. shared' = Append(shared, Head(hand))
      BY <2>1 DEF MergerForward
    <3>. QED  BY <1>2, <3>1, ToSetAppend
  <2>2. CASE Full(shared, SharedQueueSize)
    BY <2>2 DEF MergerForward
  <2>. QED  BY <2>1, <2>2
<1>5. PipelineResults' \subseteq PipelineResults
  BY <1>1, <1>3, <1>4 DEF PipelineResults
<1>. QED  BY <1>1, <1>5, ResultsMoved, WorkersStay

LEMMA MergerLoopRouted ==
    ASSUME RoutedByPosition, MergerLoop
    PROVE  RoutedByPosition'
BY ResultsStay, WorkersStay DEF RoutedByPosition, MergerLoop, workerVars, callerVars

LEMMA CallerGetRouted ==
    ASSUME IInv, RoutedByPosition, CallerGet
    PROVE  RoutedByPosition'
<1>. USE DEF RoutedByPosition
<1>1. UNCHANGED <<inQ, held, wpc, resQ, hand>>
  BY DEF CallerGet, workerVars, mergerVars
<1>2. shared \in Seq(Result) /\ delivered \in Seq(Result)
  BY DEF IInv, TypeOK
<1>3. ToSet(delivered') \cup ToSet(caught') \cup ToSet(shared')
          \subseteq ToSet(delivered) \cup ToSet(caught) \cup ToSet(shared)
  <2>1. CASE shared # <<>> /\ Head(shared).kind # "exc"
    <3>1. /\ delivered' = Append(delivered, Head(shared))
          /\ shared' = Tail(shared) /\ caught' = caught
      BY <2>1 DEF CallerGet
    <3>. QED  BY <1>2, <2>1, <3>1, ToSetAppend, ToSetTail
  <2>2. CASE shared # <<>> /\ Head(shared).kind = "exc"
    <3>1. /\ caught' = <<Head(shared)>>
          /\ shared' = Tail(shared) /\ delivered' = delivered
      BY <2>2 DEF CallerGet
    <3>. QED  BY <1>2, <2>2, <3>1, ToSetSingle, ToSetTail
  <2>3. CASE shared = <<>>
    BY <2>3 DEF CallerGet
  <2>. QED  BY <2>1, <2>2, <2>3
<1>4. PipelineResults' \subseteq PipelineResults
  BY <1>1, <1>3 DEF PipelineResults
<1>. QED  BY <1>1, <1>4, ResultsMoved, WorkersStay

-----------------------------------------------------------------------------
(* The ventilation thread routes each item by its position.                *)

LEMMA VentilatePutRouted ==
    ASSUME IInv, RoutedByPosition, VentilatePut
    PROVE  RoutedByPosition'
<1>. USE DEF RoutedByPosition
<1>. DEFINE wid == vpos % WorkersCount
<1>1. /\ inQ' = [inQ EXCEPT ![wid] = Append(inQ[wid], ventilated + 1)]
      /\ UNCHANGED <<held, wpc, resQ, shared, hand, delivered, caught>>
  BY DEF VentilatePut, mergerVars, callerVars
<1>2. vpos \in 0 .. (ItemsCount - 1) /\ viter \in Nat
  BY DEF VentilatePut, IInv, TypeOK
<1>3. ItemWorker(ventilated + 1) = wid
  <2>1. ventilated + 1 = viter * ItemsCount + vpos + 1
    BY DEF IInv, VentilationCounted
  <2>. QED  BY <1>2, <2>1, PositionOfIndex
<1>4. wid \in Workers /\ inQ[wid] \in Seq(ItemIds)
  BY <1>2 DEF Workers, IInv, TypeOK
<1>5. InputsRouted'
  BY <1>1, <1>3, <1>4 DEF InputsRouted, IInv, TypeOK
<1>6. HeldRouted'
  BY <1>1 DEF HeldRouted
<1>. QED  BY <1>1, <1>5, <1>6, ResultsStay

\* The steps that touch no queue, no held item and no worker place.
LEMMA QuietStepsRouted ==
    ASSUME RoutedByPosition,
           \/ VentilateCallEnd \/ CallerStartVentilator \/ CallerCheck
           \/ CallerStopVentilator \/ CallerJoinVentilator
           \/ StopperStopVentilator \/ StopperJoinVentilator
           \/ StopperWithoutVentilator
    PROVE  RoutedByPosition'
<1>. DEFINE Quiet == UNCHANGED <<inQ, held, wpc, resQ, shared, hand, delivered, caught>>
<1>1. CASE VentilateCallEnd
  <2>. Quiet  BY <1>1 DEF VentilateCallEnd, workerVars, mergerVars, callerVars
  <2>. QED  BY ResultsStay, WorkersStay DEF RoutedByPosition
<1>2. CASE CallerStartVentilator
  <2>. Quiet  BY <1>2 DEF CallerStartVentilator, workerVars, mergerVars
  <2>. QED  BY ResultsStay, WorkersStay DEF RoutedByPosition
<1>3. CASE CallerCheck
  <2>. Quiet  BY <1>3 DEF CallerCheck, workerVars, mergerVars
  <2>. QED  BY ResultsStay, WorkersStay DEF RoutedByPosition
<1>4. CASE CallerStopVentilator \/ CallerJoinVentilator
  <2>. Quiet  BY <1>4 DEF CallerStopVentilator, CallerJoinVentilator,
                         workerVars, mergerVars
  <2>. QED  BY ResultsStay, WorkersStay DEF RoutedByPosition
<1>5. CASE StopperStopVentilator \/ StopperJoinVentilator \/ StopperWithoutVentilator
  <2>. Quiet  BY <1>5 DEF StopperStopVentilator, StopperJoinVentilator,
                         StopperWithoutVentilator, workerVars, mergerVars
  <2>. QED  BY ResultsStay, WorkersStay DEF RoutedByPosition
<1>. QED  BY <1>1, <1>2, <1>3, <1>4, <1>5

-----------------------------------------------------------------------------
LEMMA InitRouted == Init => RoutedByPosition
<1>. SUFFICES ASSUME Init PROVE RoutedByPosition
  OBVIOUS
<1>1. ToSet(<<>>) = {}
  BY ToSetSingle
<1>2. PipelineResults = {}
  BY <1>1 DEF Init, PipelineResults
<1>3. InputsRouted
  BY DEF Init, InputsRouted
<1>4. HeldRouted
  BY DEF Init, HeldRouted
<1>5. ResultsRouted
  BY <1>2 DEF ResultsRouted
<1>. QED  BY <1>3, <1>4, <1>5 DEF RoutedByPosition

LEMMA StepRouted ==
    IInv /\ RoutedByPosition /\ [Next]_vars => RoutedByPosition'
<1> SUFFICES ASSUME IInv, RoutedByPosition, [Next]_vars
             PROVE  RoutedByPosition'
  OBVIOUS
<1>1. CASE UNCHANGED vars
  BY <1>1, ResultsStay, WorkersStay DEF vars, RoutedByPosition
<1>2. CASE \E w \in Workers : WorkerNext(w)
  BY <1>2, WorkerRouted
<1>3. CASE MergerNext
  BY <1>3, MergerLoopRouted, MergerTakeRouted, MergerForwardRouted DEF MergerNext
<1>4. CASE VentilatorNext
  BY <1>4, VentilatePutRouted, QuietStepsRouted DEF VentilatorNext
<1>5. CASE CallerNext \/ StopperNext
  BY <1>5, CallerGetRouted, QuietStepsRouted DEF CallerNext, StopperNext
<1>. QED  BY <1>1, <1>2, <1>3, <1>4, <1>5 DEF Next

(***************************************************************************)
(* Items go to the worker their position names (spec 8): in every          *)
(* reachable state each item in worker w's input queue, the item worker w *)
(* handles, and every result up to the caller belong to the worker that    *)
(* position (id - 1) % len(items) of ventilate's loop (thread_pool.py      *)
(* lines 223-225) names modulo workers_count, over every iteration of      *)
(* _ventilate and every publish through the worker's closure.              *)
(***************************************************************************)
THEOREM RoutedHolds == Spec => []RoutedByPosition
<1>1. Spec => [](IInv /\ RoutedByPosition)
  BY InitIInv, InitRouted, StepIInv, StepRouted, PTL DEF Spec
<1>. QED  BY <1>1, PTL
=============================================================================
