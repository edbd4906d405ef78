--------------------------- MODULE RegistryProofs ---------------------------
(***************************************************************************)
(* Proofs about PoolRegistry, for any number of instances, worker threads  *)
(* and HPC centers: where the threads wait that made or found a pool in    *)
(* the map they all write without a lock, and with which key the pools     *)
(* were made.                                                              *)
(***************************************************************************)
EXTENDS PoolRegistry, StartUpProofs

(* A pool was made for a scheduler object that was made, with the key if   *)
(* there is one such object only.                                          *)
WellMade(p) == /\ p \in Pool
               /\ <<"WSScheduler", p.object>> \in made
               /\ OneObject("WSScheduler") => p.keyed = TRUE

PoolsAreWellMade ==
    /\ \A e \in Apps \X Centers : hpcsessionpool_[e] # None =>
          /\ WellMade(hpcsessionpool_[e])
          /\ hpcsessionpool_[e].object = e[1] /\ hpcsessionpool_[e].center = e[2]
    /\ \A t \in Threads : user[t].pool # None => WellMade(user[t].pool)

(* A thread uses the pool in the map, or the one it made itself.           *)
UsesItsPool(t) ==
    /\ user[t].pc # "idle" => Running(t) /\ user[t].center \in Centers
    /\ user[t].pc \in {"get", "holding"} =>
          /\ user[t].pool.object = on[t] /\ user[t].pool.center = user[t].center
          /\ \/ user[t].pool = Entry(t, user[t].center) /\ user[t].pool # None
             \/ user[t].pool.maker = t

RegistryInv == /\ StartUpInv
               /\ RegistryTypeOK
               /\ PoolsAreWellMade
               /\ \A t \in Threads : UsesItsPool(t)

-----------------------------------------------------------------------------
(* A thread that runs is on an object, after its instance set the key.     *)
LEMMA RunningThread ==
    ASSUME StartUpInv, NEW t \in Threads, Running(t)
    PROVE  /\ on[t] \in Apps /\ <<"WSScheduler", on[t]>> \in made
           /\ OneObject("WSScheduler")
                => "keydata" \in settings[<<"WSScheduler", on[t]>>]
PROOF
<1>1. on[t] \in Apps /\ <<"WSScheduler", on[t]>> \in made
  BY DEF StartUpInv, StartUpTypeOK, ThreadsStarted, Running
<1>2. PICK a \in Apps, j \in 0..ThreadCount : t = <<a, j>>
  BY DEF Threads
<1>3. at[a] \in 0..7 /\ ~(at[a] <= 6)
  BY <1>2, SetupFacts DEF StartUpInv, StartUpTypeOK, ThreadsStarted, Running
<1>4. /\ "WSScheduler" \in Classes /\ 4 \in Steps /\ 4 # 6 /\ 4 < at[a]
      /\ ClassAt(4) = "WSScheduler" /\ SettingAt(4) = "keydata"
  BY <1>3, SetupFacts DEF Classes, Steps
<1>5. OneObject("WSScheduler") => "keydata" \in settings[<<"WSScheduler", on[t]>>]
  <2> DEFINE o == <<"WSScheduler", on[t]>>
  <2>1. o \in made /\ o[1] = "WSScheduler"
    BY <1>1
  <2> HIDE DEF o
  <2>2. OneObject("WSScheduler") => "keydata" \in settings[o]
    BY <1>4, <2>1, OneObjectIsSet
  <2> QED BY <2>2 DEF o
<1> QED BY <1>1, <1>5

(* The pool a thread makes.                                                *)
LEMMA NewPoolIsWellMade ==
    ASSUME RegistryInv, NEW t \in Threads, user[t].pc = "missed"
    PROVE  /\ WellMade(NewPool(t)) /\ NewPool(t).maker = t
           /\ NewPool(t).object = on[t] /\ NewPool(t).center = user[t].center
           /\ <<on[t], user[t].center>> \in Apps \X Centers
PROOF
<1>1. Running(t) /\ user[t].center \in Centers
  BY DEF RegistryInv, UsesItsPool
<1>2. /\ on[t] \in Apps /\ <<"WSScheduler", on[t]>> \in made
      /\ OneObject("WSScheduler")
           => "keydata" \in settings[<<"WSScheduler", on[t]>>]
  BY <1>1, RunningThread DEF RegistryInv
<1> DEFINE key == "keydata" \in settings[<<"WSScheduler", on[t]>>]
<1>3. key \in BOOLEAN /\ (OneObject("WSScheduler") => key = TRUE)
  BY <1>2
<1> HIDE DEF key
<1>4. NewPool(t) = [object |-> on[t], center |-> user[t].center, maker |-> t,
                    keyed |-> key]
  BY DEF NewPool, key
<1> QED BY <1>1, <1>2, <1>3, <1>4 DEF WellMade, Pool

(* The map is empty and no thread runs at the start.                       *)
LEMMA RegistryInitInv == Init => RegistryInv
PROOF
<1> SUFFICES ASSUME Init PROVE RegistryInv
  OBVIOUS
<1>1. StartUpInv
  BY StartUpInitInv DEF Init
<1>2. /\ hpcsessionpool_ = [e \in Apps \X Centers |-> None]
      /\ user = [t \in Threads |-> Idle]
  BY DEF Init, RegistryInit
<1>3. \A t \in Threads : user[t] = Idle
  BY <1>2
<1>4. RegistryTypeOK
  BY <1>2 DEF RegistryTypeOK, Idle
<1>5. PoolsAreWellMade
  BY <1>2, <1>3 DEF PoolsAreWellMade, Idle
<1>6. \A t \in Threads : UsesItsPool(t)
  BY <1>3 DEF UsesItsPool, Idle
<1> QED BY <1>1, <1>4, <1>5, <1>6 DEF RegistryInv

(* A step of checkIsInitialized starts threads, but moves none.            *)
LEMMA SettingUp ==
    ASSUME RegistryInv, NEW a \in Apps, StartUpStep(a), UNCHANGED registryVars
    PROVE  RegistryInv'
PROOF
<1>1. hpcsessionpool_' = hpcsessionpool_ /\ user' = user
  BY DEF registryVars
<1>2. StartUpInv /\ StartUpInv' /\ made \subseteq made' /\ IsFiniteSet(made')
  BY StartUpNextInv, StepKeeps DEF RegistryInv, StartUpInv
<1>3. RegistryTypeOK'
  BY <1>1 DEF RegistryInv, RegistryTypeOK
<1>4. ASSUME NEW p, WellMade(p) PROVE WellMade(p)'
  <2>1. OneObject("WSScheduler")' => OneObject("WSScheduler")
    <3> DEFINE o == <<"WSScheduler", p.object>>
    <3>1. o \in made /\ o[1] = "WSScheduler"
      BY <1>4 DEF WellMade
    <3> HIDE DEF o
    <3> QED BY <1>2, <3>1, OneObjectBefore
  <2> QED BY <1>2, <1>4, <2>1 DEF WellMade
<1>5. PoolsAreWellMade'
  BY <1>1, <1>4 DEF RegistryInv, PoolsAreWellMade
<1>6. ASSUME NEW t \in Threads PROVE UsesItsPool(t)'
  <2>1. UsesItsPool(t)
    BY DEF RegistryInv
  <2>2. CASE user[t].pc = "idle"
    BY <1>1, <2>2 DEF UsesItsPool
  <2>3. CASE user[t].pc # "idle"
    <3>1. Running(t)' /\ on'[t] = on[t]
      BY <1>2, <2>1, <2>3, ThreadsStay DEF UsesItsPool
    <3> QED BY <1>1, <2>1, <3>1 DEF UsesItsPool, Entry
  <2> QED BY <2>2, <2>3
<1> QED BY <1>2, <1>3, <1>5, <1>6 DEF RegistryInv

(* What a step of a thread leaves to the others: an entry stays in the map *)
(* once it is there.                                                       *)
LEMMA OthersStay ==
    ASSUME RegistryInv, UNCHANGED startUpVars,
           NEW t \in Threads, NEW r, user' = [user EXCEPT ![t] = r],
           \A e \in Apps \X Centers :
              hpcsessionpool_[e] # None => hpcsessionpool_'[e] = hpcsessionpool_[e]
    PROVE  /\ StartUpInv' /\ user'[t] = r
           /\ \A u \in Threads \ {t} : user'[u] = user[u] /\ UsesItsPool(u)'
           /\ \A p : WellMade(p) => WellMade(p)'
PROOF
<1>1. StartUpInv'
  BY StartUpStutterInv DEF RegistryInv
<1>2. on' = on /\ made' = made
  BY DEF startUpVars
<1>3. user'[t] = r /\ \A u \in Threads \ {t} : user'[u] = user[u]
  BY DEF RegistryInv, RegistryTypeOK
<1>4. ASSUME NEW u \in Threads \ {t} PROVE UsesItsPool(u)'
  <2>1. UsesItsPool(u) /\ user'[u] = user[u]
    BY <1>3 DEF RegistryInv
  <2>2. (user[u].pc # "idle" => Running(u) /\ user[u].center \in Centers)'
    BY <1>2, <2>1 DEF UsesItsPool, Running
  <2>3. ASSUME user[u].pc \in {"get", "holding"}, user[u].pool # None,
               user[u].pool = Entry(u, user[u].center)
        PROVE  user[u].pool = Entry(u, user[u].center)'
    <3>1. Running(u) /\ user[u].center \in Centers
      BY <2>1, <2>3 DEF UsesItsPool
    <3>2. <<on[u], user[u].center>> \in Apps \X Centers
      BY <3>1, RunningThread DEF RegistryInv
    <3> QED BY <1>2, <2>1, <2>3, <3>2 DEF Entry
  <2> QED BY <1>2, <2>1, <2>2, <2>3 DEF UsesItsPool
<1>5. ASSUME NEW p, WellMade(p) PROVE WellMade(p)'
  BY <1>2, <1>5 DEF WellMade, OneObject
<1> QED BY <1>1, <1>3, <1>4, <1>5

LEMMA Finding ==
    ASSUME RegistryInv, NEW t \in Threads, PoolFind(t), UNCHANGED startUpVars
    PROVE  RegistryInv'
PROOF
<1>1. PICK c \in Centers :
         /\ Running(t)
         /\ user' = [user EXCEPT ![t] = [
                        pc |-> IF Entry(t, c) = None THEN "missed" ELSE "get",
                        center |-> c, pool |-> Entry(t, c)]]
         /\ hpcsessionpool_' = hpcsessionpool_
  BY DEF PoolFind
<1> DEFINE r == [pc |-> IF Entry(t, c) = None THEN "missed" ELSE "get",
                 center |-> c, pool |-> Entry(t, c)]
<1>2. /\ user' = [user EXCEPT ![t] = r]
      /\ r.pc = (IF Entry(t, c) = None THEN "missed" ELSE "get")
      /\ r.center = c /\ r.pool = Entry(t, c)
  BY <1>1
<1>3. <<on[t], c>> \in Apps \X Centers
  BY <1>1, RunningThread DEF RegistryInv
<1>4. Entry(t, c) # None => /\ WellMade(Entry(t, c)) /\ Entry(t, c).object = on[t]
                            /\ Entry(t, c).center = c
  BY <1>3 DEF RegistryInv, PoolsAreWellMade, Entry
<1>5. r \in [pc : {"idle", "missed", "get", "holding"},
             center : Centers \cup {None}, pool : Pool \cup {None}]
  BY <1>4 DEF WellMade
<1> HIDE DEF r
<1>6. /\ StartUpInv' /\ user'[t] = r
      /\ \A u \in Threads \ {t} : user'[u] = user[u] /\ UsesItsPool(u)'
      /\ \A p : WellMade(p) => WellMade(p)'
  BY <1>1, <1>2, OthersStay
<1>7. RegistryTypeOK'
  BY <1>1, <1>2, <1>5 DEF RegistryInv, RegistryTypeOK
<1>8. PoolsAreWellMade'
  BY <1>1, <1>2, <1>4, <1>6 DEF RegistryInv, PoolsAreWellMade
<1>9. UsesItsPool(t)'
  <2>1. Running(t)' /\ Entry(t, c)' = Entry(t, c) /\ on' = on
    BY <1>1 DEF startUpVars, Running, Entry
  <2> QED BY <1>2, <1>4, <1>6, <2>1 DEF UsesItsPool, Entry
<1> QED BY <1>6, <1>7, <1>8, <1>9 DEF RegistryInv

LEMMA Inserting ==
    ASSUME RegistryInv, NEW t \in Threads, PoolInsert(t), UNCHANGED startUpVars
    PROVE  RegistryInv'
PROOF
<1>0. PICK n : n = NewPool(t)
  OBVIOUS
<1> DEFINE e == <<on[t], user[t].center>>
           r == [user[t] EXCEPT !.pc = "get", !.pool = n]
<1>1. /\ user[t].pc = "missed"
      /\ hpcsessionpool_' = IF hpcsessionpool_[e] = None
                            THEN [hpcsessionpool_ EXCEPT ![e] = n]
                            ELSE hpcsessionpool_
      /\ user' = [user EXCEPT ![t] = r]
  BY <1>0 DEF PoolInsert, Entry
<1>2. /\ WellMade(n) /\ n.maker = t /\ n.object = on[t]
      /\ n.center = user[t].center /\ e \in Apps \X Centers
  BY <1>0, <1>1, NewPoolIsWellMade
<1>3. user[t].center \in Centers /\ Running(t)
  BY <1>1 DEF RegistryInv, UsesItsPool
<1>4. /\ r.pc = "get" /\ r.pool = n /\ r.center = user[t].center
      /\ r \in [pc : {"idle", "missed", "get", "holding"},
                center : Centers \cup {None}, pool : Pool \cup {None}]
  BY <1>2 DEF RegistryInv, RegistryTypeOK, WellMade
<1>5. e[1] = on[t] /\ e[2] = user[t].center
  OBVIOUS
<1> HIDE DEF e, r
<1>6. hpcsessionpool_ \in [Apps \X Centers -> Pool \cup {None}]
  BY DEF RegistryInv, RegistryTypeOK
<1>7. \A f \in Apps \X Centers : hpcsessionpool_'[f] =
         IF f = e /\ hpcsessionpool_[e] = None THEN n ELSE hpcsessionpool_[f]
  BY <1>1, <1>2, <1>6
<1>8. \A f \in Apps \X Centers :
         hpcsessionpool_[f] # None => hpcsessionpool_'[f] = hpcsessionpool_[f]
  BY <1>7
<1>9. /\ StartUpInv' /\ user'[t] = r
      /\ \A u \in Threads \ {t} : user'[u] = user[u] /\ UsesItsPool(u)'
      /\ \A p : WellMade(p) => WellMade(p)'
  BY <1>1, <1>8, OthersStay
<1>10. RegistryTypeOK'
  <2>1. hpcsessionpool_' \in [Apps \X Centers -> Pool \cup {None}]
    BY <1>1, <1>2, <1>6 DEF WellMade
  <2> QED BY <1>1, <1>4, <2>1 DEF RegistryInv, RegistryTypeOK
<1>11. PoolsAreWellMade'
  <2>1. ASSUME NEW f \in Apps \X Centers
        PROVE  (hpcsessionpool_[f] # None =>
                  /\ WellMade(hpcsessionpool_[f])
                  /\ hpcsessionpool_[f].object = f[1]
                  /\ hpcsessionpool_[f].center = f[2])'
    <3>1. CASE f = e /\ hpcsessionpool_[e] = None
      <4>1. hpcsessionpool_'[f] = n /\ WellMade(n)'
        BY <1>2, <1>7, <1>9, <3>1
      <4> QED BY <1>2, <1>5, <3>1, <4>1 DEF WellMade
    <3>2. CASE ~(f = e /\ hpcsessionpool_[e] = None)
      <4>1. hpcsessionpool_'[f] = hpcsessionpool_[f]
        BY <1>7, <3>2
      <4> QED BY <1>9, <4>1 DEF RegistryInv, PoolsAreWellMade, WellMade
    <3> QED BY <3>1, <3>2
  <2>2. ASSUME NEW u \in Threads
        PROVE  (user[u].pool # None => WellMade(user[u].pool))'
    <3>1. CASE u = t
      <4>1. user'[u].pool = n /\ WellMade(n)'
        BY <1>2, <1>4, <1>9, <3>1
      <4> QED BY <4>1 DEF WellMade
    <3>2. CASE u # t
      <4>1. user'[u] = user[u]
        BY <1>9, <3>2
      <4> QED BY <1>9, <4>1 DEF RegistryInv, PoolsAreWellMade, WellMade
    <3> QED BY <3>1, <3>2
  <2> QED BY <2>1, <2>2 DEF PoolsAreWellMade
<1>12. UsesItsPool(t)'
  <2>1. Running(t)' /\ on' = on
    BY <1>3 DEF startUpVars, Running
  <2> QED BY <1>2, <1>3, <1>4, <1>9, <2>1 DEF UsesItsPool
<1> QED BY <1>9, <1>10, <1>11, <1>12 DEF RegistryInv

LEMMA Getting ==
    ASSUME RegistryInv, NEW t \in Threads, getConnectionFromPool(t),
           UNCHANGED startUpVars
    PROVE  RegistryInv'
PROOF
<1> DEFINE r == [user[t] EXCEPT !.pc = "holding"]
<1>1. /\ user[t].pc = "get" /\ hpcsessionpool_' = hpcsessionpool_
      /\ user' = [user EXCEPT ![t] = r]
  BY DEF getConnectionFromPool
<1>2. /\ r.pc = "holding" /\ r.pool = user[t].pool /\ r.center = user[t].center
      /\ r \in [pc : {"idle", "missed", "get", "holding"},
                center : Centers \cup {None}, pool : Pool \cup {None}]
  BY DEF RegistryInv, RegistryTypeOK
<1> HIDE DEF r
<1>3. /\ StartUpInv' /\ user'[t] = r
      /\ \A u \in Threads \ {t} : user'[u] = user[u] /\ UsesItsPool(u)'
      /\ \A p : WellMade(p) => WellMade(p)'
  BY <1>1, OthersStay
<1>4. RegistryTypeOK'
  BY <1>1, <1>2 DEF RegistryInv, RegistryTypeOK
<1>5. PoolsAreWellMade'
  BY <1>1, <1>2, <1>3 DEF RegistryInv, PoolsAreWellMade
<1>6. UsesItsPool(t)'
  <2>1. UsesItsPool(t) /\ user[t].pc \in {"get", "holding"} /\ user[t].pc # "idle"
    BY <1>1 DEF RegistryInv
  <2>2. on' = on
    BY DEF startUpVars
  <2> QED BY <1>1, <1>2, <1>3, <2>1, <2>2 DEF UsesItsPool, Running, Entry
<1> QED BY <1>3, <1>4, <1>5, <1>6 DEF RegistryInv

LEMMA Returning ==
    ASSUME RegistryInv, NEW t \in Threads, returnConnectionToPool(t),
           UNCHANGED startUpVars
    PROVE  RegistryInv'
PROOF
<1>1. hpcsessionpool_' = hpcsessionpool_ /\ user' = [user EXCEPT ![t] = Idle]
  BY DEF returnConnectionToPool
<1>2. /\ StartUpInv' /\ user'[t] = Idle
      /\ \A u \in Threads \ {t} : user'[u] = user[u] /\ UsesItsPool(u)'
      /\ \A p : WellMade(p) => WellMade(p)'
  BY <1>1, OthersStay
<1>3. RegistryTypeOK'
  BY <1>1 DEF RegistryInv, RegistryTypeOK, Idle
<1>4. PoolsAreWellMade'
  BY <1>1, <1>2 DEF RegistryInv, PoolsAreWellMade, Idle
<1>5. UsesItsPool(t)'
  BY <1>2 DEF UsesItsPool, Idle
<1> QED BY <1>2, <1>3, <1>4, <1>5 DEF RegistryInv

(* The inductive invariant of the registry.                                *)
THEOREM Invariance == Spec => []RegistryInv
PROOF
<1>1. RegistryInv /\ [Next]_vars => RegistryInv'
  <2> SUFFICES ASSUME RegistryInv, [Next]_vars PROVE RegistryInv'
    OBVIOUS
  <2>1. ASSUME NEW a \in Apps, StartUpStep(a), UNCHANGED registryVars
        PROVE  RegistryInv'
    BY <2>1, SettingUp
  <2>2. ASSUME NEW t \in Threads, RegistryStep(t), UNCHANGED startUpVars
        PROVE  RegistryInv'
    BY <2>2, Finding, Inserting, Getting, Returning DEF RegistryStep
  <2>3. CASE UNCHANGED vars
    <3>1. UNCHANGED startUpVars /\ hpcsessionpool_' = hpcsessionpool_ /\ user' = user
      BY <2>3 DEF vars, registryVars
    <3>2. StartUpInv' /\ on' = on /\ made' = made /\ settings' = settings
      BY <3>1, StartUpStutterInv DEF RegistryInv, startUpVars
    <3> QED BY <3>1, <3>2 DEF RegistryInv, RegistryTypeOK, PoolsAreWellMade, WellMade,
               OneObject, UsesItsPool, Running, Entry
  <2> QED BY <2>1, <2>2, <2>3 DEF Next
<1> QED BY <1>1, RegistryInitInv, PTL DEF Spec

(* The first requests may overlap in any way: if one scheduler object was  *)
(* made, every pool of every HPC center has a password that was decrypted  *)
(* with the key.                                                           *)
THEOREM KeyComesFirst == Spec => []PoolsAreKeyed
PROOF
<1>1. RegistryInv => PoolsAreKeyed
  BY DEF RegistryInv, PoolsAreWellMade, WellMade, PoolsAreKeyed, Pools
<1> QED BY <1>1, Invariance, PTL

(* A pool that is not in the map has its maker as its only user.           *)
LEMMA OnlyItsMaker ==
    ASSUME RegistryInv, NEW h \in Threads, user[h].pc \in {"get", "holding"},
           user[h].pool # hpcsessionpool_[<<user[h].pool.object, user[h].pool.center>>]
    PROVE  user[h].pool.maker = h
PROOF
BY DEF RegistryInv, UsesItsPool, Entry

(* Whatever races for the map, a thread waits only at the pool the map has.*)
THEOREM WaitersCanBeServed == Spec => []WaitersAreAtRegisteredPool
PROOF
<1>1. RegistryInv => WaitersAreAtRegisteredPool
  <2> SUFFICES ASSUME RegistryInv, NEW t \in Threads, user[t].pc = "get",
                      user[t].pool # Entry(t, user[t].center)
               PROVE  ~Full(user[t].pool)
    BY DEF WaitersAreAtRegisteredPool
  <2> DEFINE p == user[t].pool
  <2>1. p.maker = t /\ p # hpcsessionpool_[<<p.object, p.center>>]
    BY DEF RegistryInv, UsesItsPool, Entry
  <2>2. Holders(p) = {}
    <3> SUFFICES ASSUME NEW h \in Threads, user[h].pc = "holding", user[h].pool = p
                 PROVE  FALSE
      BY DEF Holders
    <3>1. p.maker = h
      BY <2>1, OnlyItsMaker
    <3> QED BY <2>1, <3>1
  <2>3. Cardinality(Holders(p)) = 0
    BY <2>2, FS_EmptySet
  <2> QED BY <2>3, RegistryAssumption DEF Full
<1> QED BY <1>1, Invariance, PTL

(* A pool that lost the race has one session at most, of its maker.        *)
THEOREM LosersServeTheirMaker == Spec => []LostPoolsAreSmall
PROOF
<1>1. RegistryInv => LostPoolsAreSmall
  BY OnlyItsMaker DEF LostPoolsAreSmall, Holders
<1> QED BY <1>1, Invariance, PTL
=============================================================================
