----------------------------- MODULE SessionPool -----------------------------
(***************************************************************************)
(* The pool of SSH sessions of one HPC center (WSSshSessionPool), used by  *)
(* the worker threads and the background thread.  The critical sections    *)
(* are single steps, with one exception: a session is connected, with all  *)
(* its retries, while the mutex is held.                                   *)
(***************************************************************************)
EXTENDS Integers, Sequences, FiniteSets

CONSTANTS Threads,
          MaxOpenConnections,   \* maxopenconnections_
          MAX_RETRY_COUNT,
          Spurious              \* whether pthread_cond_wait returns unasked too

ASSUME PoolAssumption == /\ IsFiniteSet(Threads)
                         /\ MaxOpenConnections \in Nat \ {0}
                         /\ MAX_RETRY_COUNT \in Nat \ {0}
                         /\ Spurious \in BOOLEAN

VARIABLES
    idlepool,    \* free sessions, in the order they were returned
    inusepool,   \* sessions handed out
    created,     \* sessions made so far; their ids are 1 .. created
    pc,          \* per thread: where it is
    held,        \* per thread: its session (0: none)
    retry_count  \* of the connect under way
vars == <<idlepool, inusepool, created, pc, held, retry_count>>

(* out: not in the pool; tcp, auth: connecting, with the mutex; waiting: in *)
(* pthread_cond_wait; awake: woken, about to lock the mutex again; holding: *)
(* working with a session.                                                  *)
ThreadPc == {"out", "tcp", "auth", "waiting", "awake", "holding"}

TypeOK == /\ idlepool \in Seq(Nat)
          /\ inusepool \in SUBSET Nat
          /\ created \in Nat
          /\ pc \in [Threads -> ThreadPc]
          /\ held \in [Threads -> Nat]
          /\ retry_count \in 0 .. MAX_RETRY_COUNT - 1

Init == /\ idlepool = <<>>
        /\ inusepool = {}
        /\ created = 0
        /\ pc = [t \in Threads |-> "out"]
        /\ held = [t \in Threads |-> 0]
        /\ retry_count = 0

Connecting == {t \in Threads : pc[t] \in {"tcp", "auth"}}
Waiting    == {t \in Threads : pc[t] = "waiting"}
Awake      == {t \in Threads : pc[t] = "awake"}
Unlocked   == Connecting = {}

-----------------------------------------------------------------------------
(* getConnectionFromPool *)

TakeIdle(t) ==
    /\ idlepool # <<>>
    /\ idlepool' = Tail(idlepool)
    /\ inusepool' = inusepool \cup {Head(idlepool)}
    /\ held' = [held EXCEPT ![t] = Head(idlepool)]
    /\ pc' = [pc EXCEPT ![t] = "holding"]
    /\ UNCHANGED <<created, retry_count>>

GetIdle(t) == /\ pc[t] = "out"
              /\ Unlocked
              /\ TakeIdle(t)

(* Mutant of AtLimit: off by one.                                          *)
PastLimit == Cardinality(inusepool) > MaxOpenConnections

AtLimit == Cardinality(inusepool) >= MaxOpenConnections

GetWait(t) ==
    /\ pc[t] = "out"
    /\ Unlocked
    /\ idlepool = <<>> /\ AtLimit
    /\ pc' = [pc EXCEPT ![t] = "waiting"]
    /\ UNCHANGED <<idlepool, inusepool, created, held, retry_count>>

GetConnect(t) ==
    /\ pc[t] = "out"
    /\ Unlocked
    /\ idlepool = <<>> /\ ~AtLimit
    /\ pc' = [pc EXCEPT ![t] = "tcp"]
    /\ retry_count' = 0
    /\ UNCHANGED <<idlepool, inusepool, created, held>>

(* ssh_connect succeeds (the known-hosts check after it always does). *)
Connected(t) ==
    /\ pc[t] = "tcp"
    /\ pc' = [pc EXCEPT ![t] = "auth"]
    /\ retry_count' = 0
    /\ UNCHANGED <<idlepool, inusepool, created, held>>

Authenticated(t) ==
    /\ pc[t] = "auth"
    /\ created' = created + 1
    /\ inusepool' = inusepool \cup {created + 1}
    /\ held' = [held EXCEPT ![t] = created + 1]
    /\ pc' = [pc EXCEPT ![t] = "holding"]
    /\ retry_count' = 0
    /\ UNCHANGED idlepool

(* Mutant of ConnectFails: one try too many.                               *)
ConnectFailsLate(t) ==
    /\ pc[t] \in {"tcp", "auth"}
    /\ IF retry_count = MAX_RETRY_COUNT
       THEN pc' = [pc EXCEPT ![t] = "out"] /\ retry_count' = 0
       ELSE retry_count' = retry_count + 1 /\ UNCHANGED pc
    /\ UNCHANGED <<idlepool, inusepool, created, held>>

(* Either call is retried; after MAX_RETRY_COUNT failures the exception    *)
(* unlocks the mutex and leaves the pool.                                  *)
ConnectFails(t) ==
    /\ pc[t] \in {"tcp", "auth"}
    /\ IF retry_count + 1 = MAX_RETRY_COUNT
       THEN pc' = [pc EXCEPT ![t] = "out"] /\ retry_count' = 0
       ELSE retry_count' = retry_count + 1 /\ UNCHANGED pc
    /\ UNCHANGED <<idlepool, inusepool, created, held>>

(* pthread_cond_wait returns without a signal. *)
SpuriousWakeup(t) ==
    /\ Spurious
    /\ pc[t] = "waiting"
    /\ pc' = [pc EXCEPT ![t] = "awake"]
    /\ UNCHANGED <<idlepool, inusepool, created, held, retry_count>>

RecheckTake(t) == /\ pc[t] = "awake"
                  /\ Unlocked
                  /\ TakeIdle(t)

RecheckWait(t) ==
    /\ pc[t] = "awake"
    /\ Unlocked
    /\ idlepool = <<>>
    /\ pc' = [pc EXCEPT ![t] = "waiting"]
    /\ UNCHANGED <<idlepool, inusepool, created, held, retry_count>>

-----------------------------------------------------------------------------
(* Mutants of returnConnectionToPool: the session stays in the in-use      *)
(* pool; only the first free session is signalled; none is.                *)
ReturnKeepsInUse(t) ==
    /\ pc[t] = "holding"
    /\ Unlocked
    /\ idlepool' = Append(idlepool, held[t])
    /\ held' = [held EXCEPT ![t] = 0]
    /\ IF Waiting = {}
       THEN pc' = [pc EXCEPT ![t] = "out"]
       ELSE \E u \in Waiting : pc' = [pc EXCEPT ![t] = "out", ![u] = "awake"]
    /\ UNCHANGED <<inusepool, created, retry_count>>

ReturnSignalsFirst(t) ==
    /\ pc[t] = "holding"
    /\ Unlocked
    /\ inusepool' = inusepool \ {held[t]}
    /\ idlepool' = Append(idlepool, held[t])
    /\ held' = [held EXCEPT ![t] = 0]
    /\ IF Waiting = {} \/ idlepool # <<>>
       THEN pc' = [pc EXCEPT ![t] = "out"]
       ELSE \E u \in Waiting : pc' = [pc EXCEPT ![t] = "out", ![u] = "awake"]
    /\ UNCHANGED <<created, retry_count>>

ReturnWithoutSignal(t) ==
    /\ pc[t] = "holding"
    /\ Unlocked
    /\ inusepool' = inusepool \ {held[t]}
    /\ idlepool' = Append(idlepool, held[t])
    /\ held' = [held EXCEPT ![t] = 0]
    /\ pc' = [pc EXCEPT ![t] = "out"]
    /\ UNCHANGED <<created, retry_count>>

(* returnConnectionToPool: pthread_cond_signal wakes one waiting thread.   *)
returnConnectionToPool(t) ==
    /\ pc[t] = "holding"
    /\ Unlocked
    /\ inusepool' = inusepool \ {held[t]}
    /\ idlepool' = Append(idlepool, held[t])
    /\ held' = [held EXCEPT ![t] = 0]
    /\ IF Waiting = {}
       THEN pc' = [pc EXCEPT ![t] = "out"]
       ELSE \E u \in Waiting : pc' = [pc EXCEPT ![t] = "out", ![u] = "awake"]
    /\ UNCHANGED <<created, retry_count>>

getConnectionFromPool(t) ==
    \/ GetIdle(t) \/ GetWait(t) \/ GetConnect(t)
    \/ Connected(t) \/ Authenticated(t) \/ ConnectFails(t)
    \/ SpuriousWakeup(t) \/ RecheckTake(t) \/ RecheckWait(t)

Next == \E t \in Threads : getConnectionFromPool(t) \/ returnConnectionToPool(t)

Spec == Init /\ [][Next]_vars

(* A thread that holds a session ends its item and returns it; a connect   *)
(* goes on until it succeeds or gives up; a woken thread gets the mutex.   *)
FairSpec == /\ Spec
            /\ \A t \in Threads :
                 /\ WF_vars(Connected(t) \/ Authenticated(t) \/ ConnectFails(t))
                 /\ SF_vars(RecheckTake(t) \/ RecheckWait(t))
                 /\ SF_vars(returnConnectionToPool(t))

-----------------------------------------------------------------------------
(* Properties *)

Idle == {idlepool[n] : n \in DOMAIN idlepool}

(* Every session is in exactly one place: free, once, or in the hands of   *)
(* exactly one thread; none leaks and none is shared.                      *)
SessionsConserved ==
    /\ Idle \cup inusepool = 1 .. created
    /\ Idle \cap inusepool = {}
    /\ \A m, n \in DOMAIN idlepool : idlepool[m] = idlepool[n] => m = n
    /\ inusepool = {held[t] : t \in {u \in Threads : pc[u] = "holding"}}
    /\ \A t, u \in Threads : pc[t] = "holding" /\ pc[u] = "holding" /\ held[t] = held[u]
                                => t = u

(* No more sessions than maxsshconnectionperhpc are ever open, the one     *)
(* being connected counted, and one thread at a time connects.             *)
LimitKept == /\ created + Cardinality(Connecting) <= MaxOpenConnections
             /\ Cardinality(Connecting) <= 1

(* While a thread waits, every free session has a woken thread under way   *)
(* to take it; and whoever waits or was woken never did so while a further *)
(* session could have been made instead.                                   *)
NoLostWakeup == /\ Waiting # {} => Len(idlepool) <= Cardinality(Awake)
                /\ Waiting \cup Awake # {} => created = MaxOpenConnections

(* A waiting thread does not see the pool stand still: one is woken.       *)
WaiterSeesProgress == Waiting # {} ~> Awake # {}
=============================================================================
