------------------------------ MODULE WorkQueue ------------------------------
(***************************************************************************)
(* The work queue as it is built: a list guarded by a mutex, with a        *)
(* condition variable the worker threads wait on (addHPCWork and           *)
(* removeHPCWork of WSScheduler).  Each critical section is one step.      *)
(***************************************************************************)
EXTENDS Integers, Sequences, FiniteSets

CONSTANTS Workers,
          Items,      \* the work items there are
          NoItem,
          Spurious    \* whether pthread_cond_wait returns unasked too

ASSUME QueueAssumption == /\ IsFiniteSet(Workers)
                          /\ NoItem \notin Items
                          /\ Spurious \in BOOLEAN

VARIABLES hpcworkqueue,  \* items added and not yet taken
          added,         \* items that were added
          pc,            \* per worker: free, in pthread_cond_wait, woken, working
          workitem       \* per worker: the item it took
vars == <<hpcworkqueue, added, pc, workitem>>

TypeOK == /\ hpcworkqueue \in Seq(Items)
          /\ added \in SUBSET Items
          /\ pc \in [Workers -> {"free", "waiting", "awake", "working"}]
          /\ workitem \in [Workers -> Items \cup {NoItem}]

Init == /\ hpcworkqueue = <<>>
        /\ added = {}
        /\ pc = [w \in Workers |-> "free"]
        /\ workitem = [w \in Workers |-> NoItem]

Waiting == {w \in Workers : pc[w] = "waiting"}
Awake   == {w \in Workers : pc[w] = "awake"}

(* Mutants of addHPCWork: no item is put into the list, only NULL; the     *)
(* workers are signalled when the queue was empty only; they never are.    *)
addNoWork(i) ==
    /\ i \notin added
    /\ added' = added \cup {i}
    /\ hpcworkqueue' = Append(hpcworkqueue, NoItem)
    /\ UNCHANGED <<pc, workitem>>

addSignalsFirst(i) ==
    /\ i \notin added
    /\ added' = added \cup {i}
    /\ hpcworkqueue' = Append(hpcworkqueue, i)
    /\ IF Waiting = {} \/ hpcworkqueue # <<>> THEN UNCHANGED pc
       ELSE \E w \in Waiting : pc' = [pc EXCEPT ![w] = "awake"]
    /\ UNCHANGED workitem

addWithoutSignal(i) ==
    /\ i \notin added
    /\ added' = added \cup {i}
    /\ hpcworkqueue' = Append(hpcworkqueue, i)
    /\ UNCHANGED <<pc, workitem>>

addHPCWork(i) ==
    /\ i \notin added
    /\ added' = added \cup {i}
    /\ hpcworkqueue' = Append(hpcworkqueue, i)
    /\ IF Waiting = {} THEN UNCHANGED pc
       ELSE \E w \in Waiting : pc' = [pc EXCEPT ![w] = "awake"]
    /\ UNCHANGED workitem

(* Mutants of removeHPCWork: front() without pop_front(); the last item    *)
(* instead of the first.                                                   *)
readHPCWork(w) ==
    /\ pc[w] \in {"free", "awake"}
    /\ hpcworkqueue # <<>>
    /\ pc' = [pc EXCEPT ![w] = "working"]
    /\ workitem' = [workitem EXCEPT ![w] = Head(hpcworkqueue)]
    /\ UNCHANGED <<hpcworkqueue, added>>

removeLast(w) ==
    /\ pc[w] \in {"free", "awake"}
    /\ hpcworkqueue # <<>>
    /\ pc' = [pc EXCEPT ![w] = "working"]
    /\ workitem' = [workitem EXCEPT ![w] = hpcworkqueue[Len(hpcworkqueue)]]
    /\ hpcworkqueue' = SubSeq(hpcworkqueue, 1, Len(hpcworkqueue) - 1)
    /\ UNCHANGED added

(* Entered by a free worker, and again by one that pthread_cond_wait woke. *)
removeHPCWork(w) ==
    /\ pc[w] \in {"free", "awake"}
    /\ IF hpcworkqueue = <<>>
       THEN /\ pc' = [pc EXCEPT ![w] = "waiting"]
            /\ UNCHANGED <<hpcworkqueue, workitem>>
       ELSE /\ pc' = [pc EXCEPT ![w] = "working"]
            /\ workitem' = [workitem EXCEPT ![w] = Head(hpcworkqueue)]
            /\ hpcworkqueue' = Tail(hpcworkqueue)
    /\ UNCHANGED added

SpuriousWakeup(w) ==
    /\ Spurious
    /\ pc[w] = "waiting"
    /\ pc' = [pc EXCEPT ![w] = "awake"]
    /\ UNCHANGED <<hpcworkqueue, added, workitem>>

(* The item is done and deleted. *)
FreeItem(w) ==
    /\ pc[w] = "working"
    /\ pc' = [pc EXCEPT ![w] = "free"]
    /\ workitem' = [workitem EXCEPT ![w] = NoItem]
    /\ UNCHANGED <<hpcworkqueue, added>>

WorkerStep(w) == removeHPCWork(w) \/ FreeItem(w)

Next == \/ \E i \in Items : addHPCWork(i)
        \/ \E w \in Workers : WorkerStep(w) \/ SpuriousWakeup(w)

Spec == Init /\ [][Next]_vars

(* Threads are scheduled and every item comes to an end. *)
FairSpec == Spec /\ \A w \in Workers : WF_vars(WorkerStep(w))

-----------------------------------------------------------------------------
Queued == {hpcworkqueue[n] : n \in DOMAIN hpcworkqueue}

(* An item is handed out once: it is queued once or worked on by one       *)
(* worker, never both.                                                     *)
HandedOutOnce ==
    /\ \A m, n \in DOMAIN hpcworkqueue : hpcworkqueue[m] = hpcworkqueue[n] => m = n
    /\ \A v, w \in Workers : workitem[v] # NoItem /\ workitem[v] = workitem[w] => v = w
    /\ \A w \in Workers : workitem[w] \notin Queued
    /\ \A w \in Workers : workitem[w] # NoItem <=> pc[w] = "working"
    /\ \A w \in Workers : workitem[w] # NoItem => workitem[w] \in added
    /\ Queued \subseteq added

(* While a worker waits, every queued item has a woken worker on its way.  *)
NoLostWakeup == Waiting # {} => Len(hpcworkqueue) <= Cardinality(Awake)

(* Every item is taken, after those before it.                             *)
EveryItemTaken == \A i \in Items :
    i \in Queued ~> \E w \in Workers : workitem[w] = i

(* The promise to the scheduler: a FIFO of the items added, which hands    *)
(* them out in that order (see module Fifo).                               *)
Fifo == INSTANCE Fifo WITH queue <- hpcworkqueue, given <- workitem
FifoSpec == Fifo!Spec
=============================================================================
