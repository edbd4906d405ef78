-------------------------- MODULE SessionPoolProofs --------------------------
(***************************************************************************)
(* The session pool keeps its promises for any number of threads, any      *)
(* limit and any number of retries.                                        *)
(***************************************************************************)
EXTENDS SessionPool, QueueFacts, FiniteSetTheorems

-----------------------------------------------------------------------------
(* Every step of a thread in the pool leaves the variables well typed.    *)
LEMMA StepType == TypeOK /\ [Next]_vars => TypeOK'
<1> SUFFICES ASSUME TypeOK, [Next]_vars PROVE TypeOK'
  OBVIOUS
<1> USE DEF TypeOK, ThreadPc
<1>1. CASE UNCHANGED vars
  BY <1>1 DEF vars
<1>2. ASSUME NEW t \in Threads, TakeIdle(t) PROVE TypeOK'
  <2>1. Head(idlepool) \in Nat /\ Tail(idlepool) \in Seq(Nat)
    BY <1>2, TailFacts DEF TakeIdle
  <2> QED BY <1>2, <2>1 DEF TakeIdle
<1>3. ASSUME NEW t \in Threads, GetWait(t) \/ RecheckWait(t) \/ SpuriousWakeup(t)
      PROVE TypeOK'
  BY <1>3 DEF GetWait, RecheckWait, SpuriousWakeup
<1>4. ASSUME NEW t \in Threads, GetConnect(t) PROVE TypeOK'
  <2>1. 0 \in 0 .. MAX_RETRY_COUNT - 1
    BY PoolAssumption
  <2> QED BY <1>4, <2>1 DEF GetConnect
<1>7. ASSUME NEW t \in Threads, Connected(t) PROVE TypeOK'
  <2>1. 0 \in 0 .. MAX_RETRY_COUNT - 1
    BY PoolAssumption
  <2> QED BY <1>7, <2>1 DEF Connected
<1>8. ASSUME NEW t \in Threads, ConnectFails(t) PROVE TypeOK'
  <2>1. retry_count' \in 0 .. MAX_RETRY_COUNT - 1
    BY <1>8, PoolAssumption DEF ConnectFails
  <2>2. pc' \in [Threads -> ThreadPc]
    BY <1>8 DEF ConnectFails
  <2> QED BY <1>8, <2>1, <2>2 DEF ConnectFails
<1>5. ASSUME NEW t \in Threads, Authenticated(t) PROVE TypeOK'
  BY <1>5, PoolAssumption DEF Authenticated
<1>6. ASSUME NEW t \in Threads, returnConnectionToPool(t) PROVE TypeOK'
  <2>1. Append(idlepool, held[t]) \in Seq(Nat)
    BY AppendFacts
  <2> QED BY <1>6, <2>1 DEF returnConnectionToPool, Waiting
<1> QED BY <1>1, <1>2, <1>3, <1>4, <1>5, <1>6, <1>7, <1>8
        DEF Next, getConnectionFromPool, GetIdle, RecheckTake

-----------------------------------------------------------------------------
(* The inductive invariant.  SessionsConserved alone is not enough for the *)
(* limit: what bounds the sessions is that the pool counts the ones in use *)
(* when no one is free.                                                    *)
SessionsCounted == Cardinality(inusepool) + Len(idlepool) = created

Inv == TypeOK /\ SessionsConserved /\ SessionsCounted /\ LimitKept /\ NoLostWakeup

(* Taking the first free session, by a thread that had none. *)
LEMMA TakeConserves ==
    ASSUME TypeOK, SessionsConserved, NEW t \in Threads, pc[t] # "holding", TakeIdle(t)
    PROVE  SessionsConserved'
<1> USE DEF TypeOK
<1>1. Idle = Elements(idlepool) /\ Idle' = Elements(Tail(idlepool)) /\ NoRepeats(idlepool)
  BY DEF Idle, Elements, NoRepeats, TakeIdle, SessionsConserved
<1>2. Idle' = Idle \ {Head(idlepool)} /\ Head(idlepool) \in Idle /\ NoRepeats(idlepool')
  BY <1>1, ElementsTail DEF TakeIdle
<1>3. Idle' \cup inusepool' = 1 .. created' /\ Idle' \cap inusepool' = {}
  BY <1>2 DEF TakeIdle, SessionsConserved
<1>4. inusepool' = {held'[u] : u \in {v \in Threads : pc'[v] = "holding"}}
  BY DEF TakeIdle, SessionsConserved
<1>5. \A u, v \in Threads : pc'[u] = "holding" /\ pc'[v] = "holding" /\ held'[u] = held'[v]
                               => u = v
  BY <1>2 DEF TakeIdle, SessionsConserved
<1> QED BY <1>2, <1>3, <1>4, <1>5 DEF SessionsConserved, NoRepeats

(* A step that moves no session keeps every session where it is.          *)
LEMMA SameSessions ==
    ASSUME TypeOK, SessionsConserved, UNCHANGED <<idlepool, inusepool, created, held>>,
           \A v \in Threads : pc'[v] = "holding" <=> pc[v] = "holding"
    PROVE  SessionsConserved'
<1>1. Idle' = Idle
  BY DEF Idle
<1>2. {v \in Threads : pc'[v] = "holding"} = {v \in Threads : pc[v] = "holding"}
  OBVIOUS
<1>3. inusepool' = {held'[u] : u \in {v \in Threads : pc'[v] = "holding"}}
  BY <1>2 DEF SessionsConserved
<1>4. \A u, v \in Threads : pc'[u] = "holding" /\ pc'[v] = "holding" /\ held'[u] = held'[v]
                               => u = v
  BY DEF SessionsConserved
<1>5. Idle' \cup inusepool' = 1 .. created' /\ Idle' \cap inusepool' = {}
  BY <1>1 DEF SessionsConserved
<1> QED BY <1>3, <1>4, <1>5 DEF SessionsConserved

(* Every step keeps every session in exactly one place.                   *)
LEMMA StepConserves == TypeOK /\ SessionsConserved /\ [Next]_vars => SessionsConserved'
<1> SUFFICES ASSUME TypeOK, SessionsConserved, [Next]_vars PROVE SessionsConserved'
  OBVIOUS
<1> USE DEF TypeOK
<1>1. CASE UNCHANGED vars
  BY <1>1, SameSessions DEF vars
<1>2. ASSUME NEW t \in Threads, GetIdle(t) \/ RecheckTake(t) PROVE SessionsConserved'
  BY <1>2, TakeConserves DEF GetIdle, RecheckTake
<1>3. ASSUME NEW t \in Threads, \/ GetWait(t) \/ GetConnect(t) \/ Connected(t)
                                 \/ ConnectFails(t) \/ SpuriousWakeup(t) \/ RecheckWait(t)
      PROVE  SessionsConserved'
  <2>1. \A v \in Threads : pc'[v] = "holding" <=> pc[v] = "holding"
    BY <1>3 DEF GetWait, GetConnect, Connected, ConnectFails, SpuriousWakeup, RecheckWait
  <2>2. UNCHANGED <<idlepool, inusepool, created, held>>
    BY <1>3 DEF GetWait, GetConnect, Connected, ConnectFails, SpuriousWakeup, RecheckWait
  <2> QED BY <2>1, <2>2, SameSessions
<1>4. ASSUME NEW t \in Threads, Authenticated(t) PROVE SessionsConserved'
  <2>1. pc[t] # "holding" /\ Idle' = Idle
    BY <1>4 DEF Authenticated, Idle
  <2>2. created + 1 \notin Idle \cup inusepool /\ 1 .. created + 1 = (1 .. created) \cup {created + 1}
    BY DEF SessionsConserved
  <2>3. inusepool' = {held'[u] : u \in {v \in Threads : pc'[v] = "holding"}}
    BY <1>4, <2>1 DEF Authenticated, SessionsConserved
  <2>4. \A u, v \in Threads : pc'[u] = "holding" /\ pc'[v] = "holding" /\ held'[u] = held'[v]
                                 => u = v
    BY <1>4, <2>1, <2>2 DEF Authenticated, SessionsConserved
  <2>5. Idle' \cup inusepool' = 1 .. created' /\ Idle' \cap inusepool' = {}
    BY <1>4, <2>1, <2>2 DEF Authenticated, SessionsConserved
  <2> QED BY <1>4, <2>3, <2>4, <2>5 DEF Authenticated, SessionsConserved
<1>5. ASSUME NEW t \in Threads, returnConnectionToPool(t) PROVE SessionsConserved'
  <2>1. held[t] \in inusepool /\ held[t] \notin Idle
    BY <1>5 DEF returnConnectionToPool, SessionsConserved
  <2>2. Idle = Elements(idlepool) /\ Idle' = Elements(Append(idlepool, held[t])) /\ NoRepeats(idlepool)
    BY <1>5 DEF Idle, Elements, NoRepeats, returnConnectionToPool, SessionsConserved
  <2>3. Idle' = Idle \cup {held[t]} /\ NoRepeats(idlepool')
    BY <1>5, <2>1, <2>2, ElementsAppend DEF returnConnectionToPool
  <2>4. {v \in Threads : pc'[v] = "holding"} = {v \in Threads : pc[v] = "holding"} \ {t}
    BY <1>5 DEF returnConnectionToPool, Waiting
  <2>5. \A v \in Threads : v # t => held'[v] = held[v]
    BY <1>5 DEF returnConnectionToPool
  <2>6. inusepool' = {held'[u] : u \in {v \in Threads : pc'[v] = "holding"}}
    <3>1. inusepool' = inusepool \ {held[t]} /\ pc[t] = "holding"
      BY <1>5 DEF returnConnectionToPool
    <3>2. \A x \in inusepool' : \E u \in Threads \ {t} : pc[u] = "holding" /\ held[u] = x
      BY <3>1 DEF SessionsConserved
    <3>3. \A u \in Threads \ {t} : pc[u] = "holding" => held[u] \in inusepool'
      BY <3>1 DEF SessionsConserved
    <3> QED BY <2>4, <2>5, <3>2, <3>3
  <2>7. \A u, v \in Threads : pc'[u] = "holding" /\ pc'[v] = "holding" /\ held'[u] = held'[v]
                                 => u = v
    BY <2>4, <2>5 DEF SessionsConserved
  <2>8. Idle' \cup inusepool' = 1 .. created' /\ Idle' \cap inusepool' = {}
    BY <1>5, <2>1, <2>3 DEF returnConnectionToPool, SessionsConserved
  <2> QED BY <2>3, <2>6, <2>7, <2>8 DEF SessionsConserved, NoRepeats
<1> QED BY <1>1, <1>2, <1>3, <1>4, <1>5 DEF Next, getConnectionFromPool

-----------------------------------------------------------------------------
(* The numbers: sessions, threads that connect, threads that were woken.   *)

(* The sessions handed out are among the finitely many created.           *)
LEMMA InUseFinite == ASSUME SessionsConserved, TypeOK PROVE IsFiniteSet(inusepool)
<1>1. inusepool \in SUBSET (1 .. created)
  BY DEF SessionsConserved
<1>2. created \in Int /\ 1 \in Int
  BY DEF TypeOK
<1>3. IsFiniteSet(1 .. created)
  BY <1>2, FS_Interval
<1> QED BY <1>1, <1>3, FS_Subset

(* Sets of threads can be counted.                                        *)
LEMMA ThreadsFinite == ASSUME NEW T \in SUBSET Threads
                       PROVE  IsFiniteSet(T) /\ Cardinality(T) \in Nat
  BY PoolAssumption, FS_Subset, FS_CardinalityType

(* Every step keeps the count: sessions free plus sessions handed out     *)
(* are the sessions created.                                              *)
LEMMA StepCounted ==
    TypeOK /\ SessionsConserved /\ SessionsCounted /\ [Next]_vars => SessionsCounted'
<1> SUFFICES ASSUME TypeOK, SessionsConserved, SessionsCounted, [Next]_vars
             PROVE  SessionsCounted'
  OBVIOUS
<1> USE DEF TypeOK, SessionsCounted
<1>1. IsFiniteSet(inusepool) /\ Cardinality(inusepool) \in Nat /\ Len(idlepool) \in Nat
  BY InUseFinite, FS_CardinalityType, LenProperties
<1>2. CASE UNCHANGED vars
  BY <1>2 DEF vars
<1>3. ASSUME NEW t \in Threads, TakeIdle(t) PROVE SessionsCounted'
  <2>1. Head(idlepool) \notin inusepool
    BY <1>3, ElementsTail DEF TakeIdle, SessionsConserved, Idle, Elements, NoRepeats
  <2>2. Cardinality(inusepool') = Cardinality(inusepool) + 1
    BY <1>1, <1>3, <2>1, FS_AddElement DEF TakeIdle
  <2>3. Len(idlepool') = Len(idlepool) - 1
    BY <1>3, TailFacts DEF TakeIdle
  <2> QED BY <1>1, <1>3, <2>2, <2>3 DEF TakeIdle
<1>4. ASSUME NEW t \in Threads, \/ GetWait(t) \/ GetConnect(t) \/ Connected(t)
                                 \/ ConnectFails(t) \/ SpuriousWakeup(t) \/ RecheckWait(t)
      PROVE  SessionsCounted'
  BY <1>4 DEF GetWait, GetConnect, Connected, ConnectFails, SpuriousWakeup, RecheckWait
<1>5. ASSUME NEW t \in Threads, Authenticated(t) PROVE SessionsCounted'
  <2>1. created + 1 \notin inusepool
    BY DEF SessionsConserved
  <2>2. Cardinality(inusepool') = Cardinality(inusepool) + 1
    BY <1>1, <1>5, <2>1, FS_AddElement DEF Authenticated
  <2>3. created' = created + 1 /\ Len(idlepool') = Len(idlepool)
    BY <1>5 DEF Authenticated
  <2> HIDE DEF TypeOK
  <2>4. created \in Nat
    BY DEF TypeOK
  <2> QED BY <1>1, <2>2, <2>3, <2>4
<1>6. ASSUME NEW t \in Threads, returnConnectionToPool(t) PROVE SessionsCounted'
  <2>1. held[t] \in inusepool
    BY <1>6 DEF returnConnectionToPool, SessionsConserved
  <2>4. inusepool' = inusepool \ {held[t]}
    BY <1>6 DEF returnConnectionToPool
  <2>2. Cardinality(inusepool') = Cardinality(inusepool) - 1
    <3> HIDE DEF TypeOK
    <3> QED BY <1>1, <2>1, <2>4, FS_RemoveElement
  <2>3. Len(idlepool') = Len(idlepool) + 1
    BY <1>6, AppendFacts DEF returnConnectionToPool
  <2> QED BY <1>1, <1>6, <2>2, <2>3 DEF returnConnectionToPool
<1> QED BY <1>2, <1>3, <1>4, <1>5, <1>6
        DEF Next, getConnectionFromPool, GetIdle, RecheckTake

(* A connect starts only below the limit, and no other session is made     *)
(* while the mutex is held.                                                *)
LEMMA StepLimit ==
    TypeOK /\ SessionsConserved /\ SessionsCounted /\ LimitKept /\ [Next]_vars => LimitKept'
<1> SUFFICES ASSUME TypeOK, SessionsConserved, SessionsCounted, LimitKept, [Next]_vars
             PROVE  LimitKept'
  OBVIOUS
<1> USE DEF TypeOK, LimitKept
<1>1. /\ MaxOpenConnections \in Nat /\ Len(idlepool) \in Nat
      /\ Cardinality(Connecting) \in Nat /\ Cardinality(Connecting') \in Nat
  BY PoolAssumption, LenProperties, ThreadsFinite DEF Connecting
<1>2. CASE UNCHANGED vars
  BY <1>2 DEF vars, Connecting
<1>3. ASSUME NEW t \in Threads, \/ GetIdle(t) \/ RecheckTake(t) \/ GetWait(t) \/ Connected(t)
                                 \/ SpuriousWakeup(t) \/ RecheckWait(t)
                                 \/ returnConnectionToPool(t)
      PROVE  LimitKept'
  <2>1. Connecting' = Connecting
    BY <1>3 DEF Connecting, GetIdle, RecheckTake, TakeIdle, GetWait, Connected,
                SpuriousWakeup, RecheckWait, returnConnectionToPool, Waiting
  <2>2. created' = created
    BY <1>3 DEF GetIdle, RecheckTake, TakeIdle, GetWait, Connected,
                SpuriousWakeup, RecheckWait, returnConnectionToPool
  <2> QED BY <2>1, <2>2
<1>4. ASSUME NEW t \in Threads, GetConnect(t) PROVE LimitKept'
  <2>1. Connecting' = {t}
    BY <1>4 DEF GetConnect, Unlocked, Connecting
  <2>2. Cardinality(Connecting') = 1
    BY <2>1, FS_Singleton
  <2>3. created' = created /\ Len(idlepool) = 0 /\ Cardinality(inusepool) < MaxOpenConnections
    BY <1>4, PoolAssumption, InUseFinite, FS_CardinalityType DEF GetConnect, AtLimit
  <2>4. created < MaxOpenConnections
    BY <2>3, InUseFinite, FS_CardinalityType DEF SessionsCounted
  <2> QED BY <1>1, <2>2, <2>3, <2>4
<1>5. ASSUME NEW t \in Threads, Authenticated(t) PROVE LimitKept'
  <2>1. Connecting' = Connecting \ {t} /\ t \in Connecting
    BY <1>5 DEF Authenticated, Connecting
  <2>3. IsFiniteSet(Connecting)
    BY ThreadsFinite DEF Connecting
  <2>2. Cardinality(Connecting') = Cardinality(Connecting) - 1
    <3> HIDE DEF TypeOK
    <3> QED BY <2>1, <2>3, FS_RemoveElement
  <2> QED BY <1>1, <1>5, <2>2 DEF Authenticated
<1>6. ASSUME NEW t \in Threads, ConnectFails(t) PROVE LimitKept'
  <2>1. Connecting' \in SUBSET Connecting /\ IsFiniteSet(Connecting)
    BY <1>6, ThreadsFinite DEF ConnectFails, Connecting
  <2>2. Cardinality(Connecting') <= Cardinality(Connecting)
    BY <2>1, FS_Subset
  <2> QED BY <1>1, <1>6, <2>2 DEF ConnectFails
<1> QED BY <1>2, <1>3, <1>4, <1>5, <1>6 DEF Next, getConnectionFromPool

(* A thread starts to wait only when no session is free and none can be    *)
(* made, and from then on none can be made.                                *)
FullWhenWaiting == Waiting \cup Awake # {} => created = MaxOpenConnections

(* Every step keeps it so.                                                *)
LEMMA StepFull ==
    TypeOK /\ SessionsConserved /\ SessionsCounted /\ LimitKept /\ FullWhenWaiting /\ [Next]_vars
        => FullWhenWaiting'
<1> SUFFICES ASSUME TypeOK, SessionsConserved, SessionsCounted, LimitKept, FullWhenWaiting,
                    [Next]_vars
             PROVE  FullWhenWaiting'
  OBVIOUS
<1> USE DEF TypeOK
<1>1. /\ MaxOpenConnections \in Nat /\ Len(idlepool) \in Nat
      /\ IsFiniteSet(Connecting) /\ Cardinality(Connecting) \in Nat
  BY PoolAssumption, LenProperties, ThreadsFinite DEF Connecting
<1>2. CASE UNCHANGED vars
  BY <1>2 DEF vars, Waiting, Awake, FullWhenWaiting
<1>3. ASSUME NEW t \in Threads,
             \/ GetIdle(t) \/ RecheckTake(t) \/ GetConnect(t) \/ Connected(t)
             \/ ConnectFails(t) \/ SpuriousWakeup(t) \/ RecheckWait(t)
             \/ returnConnectionToPool(t)
      PROVE  FullWhenWaiting'
  <2>1. Waiting' \cup Awake' \in SUBSET (Waiting \cup Awake)
    BY <1>3 DEF GetIdle, RecheckTake, TakeIdle, GetConnect, Connected, ConnectFails,
                SpuriousWakeup, RecheckWait, returnConnectionToPool, Waiting, Awake
  <2>2. created' = created
    BY <1>3 DEF GetIdle, RecheckTake, TakeIdle, GetConnect, Connected, ConnectFails,
                SpuriousWakeup, RecheckWait, returnConnectionToPool
  <2> QED BY <2>1, <2>2 DEF FullWhenWaiting
<1>4. ASSUME NEW t \in Threads, GetWait(t) PROVE FullWhenWaiting'
  <2>1. created' = created /\ Len(idlepool) = 0
    BY <1>4 DEF GetWait
  <2>2. Cardinality(inusepool) >= MaxOpenConnections /\ Cardinality(inusepool) \in Nat
    BY <1>4, InUseFinite, FS_CardinalityType DEF GetWait, AtLimit
  <2>3. created = Cardinality(inusepool)
    BY <2>1, <2>2 DEF SessionsCounted
  <2>4. created <= MaxOpenConnections
    BY <1>1 DEF LimitKept
  <2> QED BY <1>1, <2>1, <2>2, <2>3, <2>4 DEF FullWhenWaiting
<1>5. ASSUME NEW t \in Threads, Authenticated(t) PROVE FullWhenWaiting'
  <2>1. Waiting' \cup Awake' = Waiting \cup Awake /\ t \in Connecting
    BY <1>5 DEF Authenticated, Waiting, Awake, Connecting
  <2>2. Cardinality(Connecting) # 0
    BY <1>1, <2>1, FS_EmptySet
  <2>3. created < MaxOpenConnections
    BY <1>1, <2>2 DEF LimitKept
  <2> QED BY <2>1, <2>3 DEF FullWhenWaiting
<1> QED BY <1>2, <1>3, <1>4, <1>5 DEF Next, getConnectionFromPool

(* A return wakes a thread for the session it frees.                       *)
EnoughAwake == Waiting # {} => Len(idlepool) <= Cardinality(Awake)

(* Every step keeps it so.                                                *)
LEMMA StepWakes == TypeOK /\ EnoughAwake /\ [Next]_vars => EnoughAwake'
<1> SUFFICES ASSUME TypeOK, EnoughAwake, [Next]_vars, Waiting' # {}
             PROVE  Len(idlepool') <= Cardinality(Awake')
  BY DEF EnoughAwake
<1> USE DEF TypeOK
<1>1. /\ Len(idlepool) \in Nat
      /\ IsFiniteSet(Awake) /\ Cardinality(Awake) \in Nat
      /\ IsFiniteSet(Awake') /\ Cardinality(Awake') \in Nat
  BY LenProperties, ThreadsFinite DEF Awake
<1>2. CASE UNCHANGED vars
  BY <1>2 DEF vars, Waiting, Awake, EnoughAwake
<1>3. ASSUME NEW t \in Threads, GetIdle(t) PROVE Len(idlepool') <= Cardinality(Awake')
  <2>1. Waiting' = Waiting /\ Awake' = Awake
    BY <1>3 DEF GetIdle, TakeIdle, Waiting, Awake
  <2>2. Len(idlepool') = Len(idlepool) - 1
    BY <1>3, TailFacts DEF GetIdle, TakeIdle
  <2> QED BY <1>1, <2>1, <2>2 DEF EnoughAwake
<1>4. ASSUME NEW t \in Threads, RecheckTake(t) PROVE Len(idlepool') <= Cardinality(Awake')
  <2>1. Waiting' = Waiting /\ Awake' = Awake \ {t} /\ t \in Awake
    BY <1>4 DEF RecheckTake, TakeIdle, Waiting, Awake
  <2>2. Len(idlepool') = Len(idlepool) - 1
    BY <1>4, TailFacts DEF RecheckTake, TakeIdle
  <2>3. Cardinality(Awake') = Cardinality(Awake) - 1
    <3> HIDE DEF TypeOK
    <3> QED BY <1>1, <2>1, FS_RemoveElement
  <2> QED BY <1>1, <2>1, <2>2, <2>3 DEF EnoughAwake
<1>5. ASSUME NEW t \in Threads, GetWait(t) \/ RecheckWait(t)
      PROVE  Len(idlepool') <= Cardinality(Awake')
  <2>1. Len(idlepool') = 0
    BY <1>5 DEF GetWait, RecheckWait
  <2> QED BY <1>1, <2>1
<1>6. ASSUME NEW t \in Threads, SpuriousWakeup(t) PROVE Len(idlepool') <= Cardinality(Awake')
  <2>1. t \in Waiting /\ Awake \in SUBSET Awake' /\ idlepool' = idlepool
    BY <1>6 DEF SpuriousWakeup, Waiting, Awake
  <2>2. Cardinality(Awake) <= Cardinality(Awake')
    BY <1>1, <2>1, FS_Subset
  <2> QED BY <1>1, <2>1, <2>2 DEF EnoughAwake
<1>7. ASSUME NEW t \in Threads, \/ GetConnect(t) \/ Connected(t) \/ ConnectFails(t)
                                 \/ Authenticated(t)
      PROVE  Len(idlepool') <= Cardinality(Awake')
  <2>1. Waiting' = Waiting /\ Awake' = Awake
    BY <1>7 DEF GetConnect, Connected, ConnectFails, Authenticated, Waiting, Awake
  <2>2. idlepool' = idlepool
    BY <1>7 DEF GetConnect, Connected, ConnectFails, Authenticated
  <2> QED BY <2>1, <2>2 DEF EnoughAwake
<1>8. ASSUME NEW t \in Threads, returnConnectionToPool(t)
      PROVE  Len(idlepool') <= Cardinality(Awake')
  <2>1. Waiting # {}
    BY <1>8 DEF returnConnectionToPool, Waiting
  <2>2. PICK u \in Waiting : pc' = [pc EXCEPT ![t] = "out", ![u] = "awake"]
    BY <1>8, <2>1 DEF returnConnectionToPool
  <2>3. Awake' = Awake \cup {u} /\ u \notin Awake
    BY <1>8, <2>2 DEF returnConnectionToPool, Waiting, Awake
  <2>4. Cardinality(Awake') = Cardinality(Awake) + 1
    <3> HIDE DEF TypeOK
    <3> QED BY <1>1, <2>3, FS_AddElement
  <2>5. Len(idlepool') = Len(idlepool) + 1
    BY <1>8, AppendFacts DEF returnConnectionToPool
  <2> QED BY <1>1, <2>1, <2>4, <2>5 DEF EnoughAwake
<1> QED BY <1>2, <1>3, <1>4, <1>5, <1>6, <1>7, <1>8 DEF Next, getConnectionFromPool

-----------------------------------------------------------------------------
(* A new pool satisfies the invariant.                                    *)
LEMMA InitInv == Init => Inv
<1>1. Init => TypeOK
  BY PoolAssumption DEF Init, TypeOK, ThreadPc
<1>2. Init => SessionsConserved
  BY DEF Init, SessionsConserved, Idle
<1>3. Init => Connecting = {} /\ Waiting = {} /\ Awake = {}
  BY DEF Init, Connecting, Waiting, Awake
<1>4. Init => Cardinality(inusepool) = 0 /\ Cardinality(Connecting) = 0 /\ Len(idlepool) = 0
  BY <1>3, FS_EmptySet DEF Init
<1> QED BY <1>1, <1>2, <1>3, <1>4, PoolAssumption
        DEF Init, Inv, SessionsCounted, LimitKept, NoLostWakeup

(* The inductive invariant: the properties of the pool, and the count     *)
(* that ties its limit to its lists.                                      *)
THEOREM Invariance == Spec => []Inv
<1>1. Inv /\ [Next]_vars => Inv'
  <2>1. Inv /\ [Next]_vars => TypeOK' /\ SessionsConserved' /\ SessionsCounted' /\ LimitKept'
    BY StepType, StepConserves, StepCounted, StepLimit DEF Inv
  <2>2. NoLostWakeup <=> FullWhenWaiting /\ EnoughAwake
    BY DEF NoLostWakeup, FullWhenWaiting, EnoughAwake
  <2>3. NoLostWakeup' <=> FullWhenWaiting' /\ EnoughAwake'
    BY DEF NoLostWakeup, FullWhenWaiting, EnoughAwake
  <2>4. Inv /\ [Next]_vars => NoLostWakeup'
    BY <2>2, <2>3, StepFull, StepWakes DEF Inv
  <2> QED BY <2>1, <2>4 DEF Inv
<1> QED BY <1>1, InitInv, PTL DEF Spec

(* Every variable keeps its type.                                          *)
THEOREM TypeCorrect == Spec => []TypeOK
<1>1. Inv => TypeOK
  BY DEF Inv
<1> QED BY <1>1, Invariance, PTL

(* Every session is free once or in the hands of one thread: none is lost  *)
(* and no two threads work over the same one.                              *)
THEOREM NoSessionSharedOrLost == Spec => []SessionsConserved
<1>1. Inv => SessionsConserved
  BY DEF Inv
<1> QED BY <1>1, Invariance, PTL

(* The pool never opens more sessions than its limit.                      *)
THEOREM LimitIsKept == Spec => []LimitKept
<1>1. Inv => LimitKept
  BY DEF Inv
<1> QED BY <1>1, Invariance, PTL

(* No thread sleeps while a session is free for it, and none waits that    *)
(* could have connected: the pool does not deadlock at its limit.          *)
THEOREM WakeupsAreNotLost == Spec => []NoLostWakeup
<1>1. Inv => NoLostWakeup
  BY DEF Inv
<1> QED BY <1>1, Invariance, PTL
=============================================================================
