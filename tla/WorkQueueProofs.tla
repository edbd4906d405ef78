--------------------------- MODULE WorkQueueProofs ---------------------------
(***************************************************************************)
(* The work queue keeps its promises for any number of workers and items,  *)
(* and implements the FIFO of module Fifo.                                 *)
(***************************************************************************)
EXTENDS WorkQueue, QueueFacts, FiniteSetTheorems

Inv == TypeOK /\ HandedOutOnce /\ NoLostWakeup

(* Sets of workers can be counted.                                        *)
LEMMA WorkersFinite == ASSUME NEW W \in SUBSET Workers
                       PROVE  IsFiniteSet(W) /\ Cardinality(W) \in Nat
  BY QueueAssumption, FS_Subset, FS_CardinalityType

(* Every step of the queue leaves the variables well typed.               *)
LEMMA StepType == TypeOK /\ [Next]_vars => TypeOK'
<1> SUFFICES ASSUME TypeOK, [Next]_vars PROVE TypeOK'
  OBVIOUS
<1> USE DEF TypeOK
<1>1. CASE UNCHANGED vars
  BY <1>1 DEF vars
<1>2. ASSUME NEW i \in Items, addHPCWork(i) PROVE TypeOK'
  <2>1. hpcworkqueue' \in Seq(Items)
    BY <1>2, AppendFacts DEF addHPCWork
  <2> QED BY <1>2, <2>1 DEF addHPCWork, Waiting
<1>3. ASSUME NEW w \in Workers, removeHPCWork(w) PROVE TypeOK'
  <2>1. CASE hpcworkqueue = <<>>
    BY <1>3, <2>1 DEF removeHPCWork
  <2>2. CASE hpcworkqueue # <<>>
    <3>1. Head(hpcworkqueue) \in Items /\ Tail(hpcworkqueue) \in Seq(Items)
      BY <2>2, TailFacts
    <3> QED BY <1>3, <2>2, <3>1 DEF removeHPCWork
  <2> QED BY <2>1, <2>2
<1>4. ASSUME NEW w \in Workers, SpuriousWakeup(w) \/ FreeItem(w) PROVE TypeOK'
  BY <1>4 DEF SpuriousWakeup, FreeItem
<1> QED BY <1>1, <1>2, <1>3, <1>4 DEF Next, WorkerStep

-----------------------------------------------------------------------------
(* Every step keeps each item in one place; an item is taken from the     *)
(* head, so a queue without repetitions loses it altogether.              *)
LEMMA StepHandsOut == TypeOK /\ HandedOutOnce /\ [Next]_vars => HandedOutOnce'
<1> SUFFICES ASSUME TypeOK, HandedOutOnce, [Next]_vars PROVE HandedOutOnce'
  OBVIOUS
<1> USE DEF TypeOK
<1>1. Queued = Elements(hpcworkqueue) /\ NoRepeats(hpcworkqueue)
  BY DEF Queued, Elements, NoRepeats, HandedOutOnce
<1>2. CASE UNCHANGED vars
  BY <1>2 DEF vars, HandedOutOnce, Queued
<1>3. ASSUME NEW i \in Items, addHPCWork(i) PROVE HandedOutOnce'
  <2>1. i \notin Queued
    BY <1>3 DEF addHPCWork, HandedOutOnce
  <2>2. Queued' = Queued \cup {i} /\ NoRepeats(hpcworkqueue')
    <3>1. Queued' = Elements(Append(hpcworkqueue, i))
      BY <1>3 DEF addHPCWork, Queued, Elements
    <3> QED BY <1>1, <1>3, <2>1, <3>1, ElementsAppend DEF addHPCWork
  <2>3. /\ \A w \in Workers : workitem'[w] \notin Queued'
        /\ \A w \in Workers : workitem'[w] # NoItem <=> pc'[w] = "working"
    BY <1>3, <2>2, QueueAssumption DEF addHPCWork, Waiting, HandedOutOnce
  <2> QED BY <1>3, <2>2, <2>3 DEF addHPCWork, HandedOutOnce, NoRepeats
<1>4. ASSUME NEW w \in Workers, removeHPCWork(w) PROVE HandedOutOnce'
  <2>1. CASE hpcworkqueue = <<>>
    <3>1. UNCHANGED <<hpcworkqueue, workitem, added>> /\ Queued' = Queued
      BY <1>4, <2>1 DEF removeHPCWork, Queued
    <3>2. \A v \in Workers : pc'[v] = "working" <=> pc[v] = "working"
      BY <1>4, <2>1 DEF removeHPCWork
    <3> QED BY <3>1, <3>2 DEF HandedOutOnce
  <2>2. CASE hpcworkqueue # <<>>
    <3> DEFINE i == Head(hpcworkqueue)
    <3>1. Queued' = Queued \ {i} /\ i \in Queued /\ NoRepeats(hpcworkqueue')
      <4>1. Queued' = Elements(Tail(hpcworkqueue))
        BY <1>4, <2>2 DEF removeHPCWork, Queued, Elements
      <4> QED BY <1>1, <1>4, <2>2, <4>1, ElementsTail DEF removeHPCWork
    <3>2. i \in Items /\ i # NoItem /\ workitem[w] = NoItem
      BY <1>4, <2>2, TailFacts, QueueAssumption DEF removeHPCWork, HandedOutOnce
    <3>3. /\ workitem' = [workitem EXCEPT ![w] = i]
          /\ pc' = [pc EXCEPT ![w] = "working"]
          /\ added' = added
      BY <1>4, <2>2 DEF removeHPCWork
    <3> HIDE DEF i
    <3> QED BY <3>1, <3>2, <3>3 DEF HandedOutOnce, NoRepeats
  <2> QED BY <2>1, <2>2
<1>5. ASSUME NEW w \in Workers, SpuriousWakeup(w) PROVE HandedOutOnce'
  <2>1. UNCHANGED <<hpcworkqueue, workitem, added>> /\ Queued' = Queued
    BY <1>5 DEF SpuriousWakeup, Queued
  <2>2. \A v \in Workers : pc'[v] = "working" <=> pc[v] = "working"
    BY <1>5 DEF SpuriousWakeup
  <2> QED BY <2>1, <2>2 DEF HandedOutOnce
<1>6. ASSUME NEW w \in Workers, FreeItem(w) PROVE HandedOutOnce'
  <2>1. UNCHANGED <<hpcworkqueue, added>> /\ Queued' = Queued
    BY <1>6 DEF FreeItem, Queued
  <2>2. NoItem \notin Queued
    BY QueueAssumption DEF HandedOutOnce
  <2> QED BY <1>6, <2>1, <2>2 DEF FreeItem, HandedOutOnce
<1> QED BY <1>2, <1>3, <1>4, <1>5, <1>6 DEF Next, WorkerStep

-----------------------------------------------------------------------------
(* Every step keeps a woken worker for every queued item while one        *)
(* waits: an added item wakes another, a taken item uses up at most one.  *)
LEMMA StepWakes == TypeOK /\ NoLostWakeup /\ [Next]_vars => NoLostWakeup'
<1> SUFFICES ASSUME TypeOK, NoLostWakeup, [Next]_vars, Waiting' # {}
             PROVE  Len(hpcworkqueue') <= Cardinality(Awake')
  BY DEF NoLostWakeup
<1> USE DEF TypeOK
<1>1. /\ Len(hpcworkqueue) \in Nat
      /\ IsFiniteSet(Awake) /\ Cardinality(Awake) \in Nat
      /\ IsFiniteSet(Awake') /\ Cardinality(Awake') \in Nat
  BY LenProperties, WorkersFinite DEF Awake
<1>2. CASE UNCHANGED vars
  BY <1>2 DEF vars, Waiting, Awake, NoLostWakeup
<1>3. ASSUME NEW i \in Items, addHPCWork(i) PROVE Len(hpcworkqueue') <= Cardinality(Awake')
  <2>1. Waiting # {}
    BY <1>3 DEF addHPCWork, Waiting
  <2>2. PICK w \in Waiting : pc' = [pc EXCEPT ![w] = "awake"]
    BY <1>3, <2>1 DEF addHPCWork
  <2>3. Awake' = Awake \cup {w} /\ w \notin Awake
    BY <2>2 DEF Waiting, Awake
  <2>4. Cardinality(Awake') = Cardinality(Awake) + 1
    <3> HIDE DEF TypeOK
    <3> QED BY <1>1, <2>3, FS_AddElement
  <2>5. Len(hpcworkqueue') = Len(hpcworkqueue) + 1
    BY <1>3, AppendFacts DEF addHPCWork
  <2> QED BY <1>1, <2>1, <2>4, <2>5 DEF NoLostWakeup
<1>4. ASSUME NEW w \in Workers, removeHPCWork(w)
      PROVE  Len(hpcworkqueue') <= Cardinality(Awake')
  <2>1. CASE hpcworkqueue = <<>>
    BY <1>1, <1>4, <2>1 DEF removeHPCWork
  <2>2. CASE hpcworkqueue # <<>>
    <3>1. Waiting' = Waiting /\ Awake' = Awake \ {w}
      BY <1>4, <2>2 DEF removeHPCWork, Waiting, Awake
    <3>2. Cardinality(Awake') >= Cardinality(Awake) - 1
      <4>1. Cardinality(Awake \ {w})
              = IF w \in Awake THEN Cardinality(Awake) - 1 ELSE Cardinality(Awake)
        BY <1>1, FS_RemoveElement
      <4> QED BY <1>1, <3>1, <4>1
    <3>3. Len(hpcworkqueue') = Len(hpcworkqueue) - 1
      BY <1>4, <2>2, TailFacts DEF removeHPCWork
    <3> QED BY <1>1, <3>1, <3>2, <3>3 DEF NoLostWakeup
  <2> QED BY <2>1, <2>2
<1>5. ASSUME NEW w \in Workers, SpuriousWakeup(w)
      PROVE  Len(hpcworkqueue') <= Cardinality(Awake')
  <2>1. w \in Waiting /\ Awake \in SUBSET Awake' /\ hpcworkqueue' = hpcworkqueue
    BY <1>5 DEF SpuriousWakeup, Waiting, Awake
  <2>2. Cardinality(Awake) <= Cardinality(Awake')
    BY <1>1, <2>1, FS_Subset
  <2> QED BY <1>1, <2>1, <2>2 DEF NoLostWakeup
<1>6. ASSUME NEW w \in Workers, FreeItem(w) PROVE Len(hpcworkqueue') <= Cardinality(Awake')
  <2>1. Waiting' = Waiting /\ Awake' = Awake /\ hpcworkqueue' = hpcworkqueue
    BY <1>6 DEF FreeItem, Waiting, Awake
  <2> QED BY <2>1 DEF NoLostWakeup
<1> QED BY <1>2, <1>3, <1>4, <1>5, <1>6 DEF Next, WorkerStep

-----------------------------------------------------------------------------
(* The inductive invariant of the queue.                                  *)
THEOREM Invariance == Spec => []Inv
<1>1. Init => Inv
  <2>1. Init => TypeOK
    BY DEF Init, TypeOK
  <2>2. Init => HandedOutOnce
    BY DEF Init, HandedOutOnce, Queued
  <2>3. Init => NoLostWakeup
    BY DEF Init, NoLostWakeup, Waiting
  <2> QED BY <2>1, <2>2, <2>3 DEF Inv
<1>2. Inv /\ [Next]_vars => Inv'
  BY StepType, StepHandsOut, StepWakes DEF Inv
<1> QED BY <1>1, <1>2, PTL DEF Spec

(* The queue, the workers and their items keep their types.                *)
THEOREM TypeCorrect == Spec => []TypeOK
<1>1. Inv => TypeOK
  BY DEF Inv
<1> QED BY <1>1, Invariance, PTL

(* An item leaves the queue once, to one worker.                           *)
THEOREM ItemsHandedOutOnce == Spec => []HandedOutOnce
<1>1. Inv => HandedOutOnce
  BY DEF Inv
<1> QED BY <1>1, Invariance, PTL

(* No worker sleeps while an item is queued that no woken one will take.   *)
THEOREM WakeupsAreNotLost == Spec => []NoLostWakeup
<1>1. Inv => NoLostWakeup
  BY DEF Inv
<1> QED BY <1>1, Invariance, PTL

(* With its mutex, its condition variable and the workers that overtake    *)
(* each other, the queue is a FIFO: every step is one of the FIFO's, or    *)
(* one that only moves a worker in and out of its sleep.                   *)
THEOREM ImplementsFifo == Spec => FifoSpec
<1>1. Init => Fifo!Init
  BY DEF Init, Fifo!Init
<1>2. Inv /\ [Next]_vars => [Fifo!Next]_<<hpcworkqueue, added, workitem>>
  <2> SUFFICES ASSUME Inv, [Next]_vars
               PROVE  Fifo!Next \/ UNCHANGED <<hpcworkqueue, added, workitem>>
    OBVIOUS
  <2>1. CASE UNCHANGED vars
    BY <2>1 DEF vars
  <2>2. ASSUME NEW i \in Items, addHPCWork(i) PROVE Fifo!Add(i)
    BY <2>2 DEF addHPCWork, Fifo!Add
  <2>3. ASSUME NEW w \in Workers, removeHPCWork(w)
        PROVE  Fifo!Give(w) \/ UNCHANGED <<hpcworkqueue, added, workitem>>
    BY <2>3 DEF removeHPCWork, Fifo!Give, Inv, HandedOutOnce
  <2>4. ASSUME NEW w \in Workers, FreeItem(w) PROVE Fifo!Done(w)
    BY <2>4 DEF FreeItem, Fifo!Done, Inv, HandedOutOnce
  <2>5. ASSUME NEW w \in Workers, SpuriousWakeup(w)
        PROVE  UNCHANGED <<hpcworkqueue, added, workitem>>
    BY <2>5 DEF SpuriousWakeup
  <2> QED BY <2>1, <2>2, <2>3, <2>4, <2>5 DEF Next, WorkerStep, Fifo!Next
<1> QED BY <1>1, <1>2, Invariance, PTL DEF Spec, FifoSpec, Fifo!Spec
=============================================================================
