---------------------------- MODULE PoolRegistry ----------------------------
(***************************************************************************)
(* hpcsessionpool_, the map from HPC centers to their session pools, which *)
(* the threads of a WSScheduler read and write without a lock in           *)
(* getSSHConnectionPool.  A pool is used as module SessionPool promises:   *)
(* at most MaxOpenConnections sessions are out, further threads wait.  An  *)
(* insert into the map is one step: the corruption two overlapping inserts *)
(* can do to a std::map is left out.                                       *)
(***************************************************************************)
EXTENDS StartUp

CONSTANTS Centers,             \* HPC centers
          MaxOpenConnections   \* scheduler.maxsshconnectionperhpc

ASSUME RegistryAssumption == MaxOpenConnections \in Nat \ {0}

VARIABLES hpcsessionpool_,  \* per scheduler object and center: its pool
          user              \* per thread: its center, its pool, where it is
registryVars == <<hpcsessionpool_, user>>

Idle == [pc |-> "idle", center |-> None, pool |-> None]

(* keyed: whether the password of the center was decrypted with keydata.   *)
Pool == [object : Apps, center : Centers, maker : Threads, keyed : BOOLEAN]

RegistryTypeOK ==
    /\ hpcsessionpool_ \in [Apps \X Centers -> Pool \cup {None}]
    /\ user \in [Threads -> [pc : {"idle", "missed", "get", "holding"},
                             center : Centers \cup {None},
                             pool : Pool \cup {None}]]

RegistryInit ==
    /\ hpcsessionpool_ = [e \in Apps \X Centers |-> None]
    /\ user = [t \in Threads |-> Idle]

(* The pools in the map and those only a thread still refers to. *)
Pools == ({hpcsessionpool_[e] : e \in Apps \X Centers}
            \cup {user[t].pool : t \in Threads}) \ {None}

Entry(t, c) == hpcsessionpool_[<<on[t], c>>]
Holders(p) == {t \in Threads : user[t].pc = "holding" /\ user[t].pool = p}
Full(p) == Cardinality(Holders(p)) >= MaxOpenConnections

(* getSSHConnectionPool: find. *)
PoolFind(t) == \E c \in Centers :
    /\ Running(t) /\ user[t].pc = "idle"
    /\ user' = [user EXCEPT ![t] = [
                    pc |-> IF Entry(t, c) = None THEN "missed" ELSE "get",
                    center |-> c, pool |-> Entry(t, c)]]
    /\ UNCHANGED hpcsessionpool_

NewPool(t) == [object |-> on[t], center |-> user[t].center, maker |-> t,
               keyed |-> "keydata" \in settings[<<"WSScheduler", on[t]>>]]

(* Mutant of PoolInsert: an entry that is there is overwritten. *)
PoolAssign(t) ==
    /\ user[t].pc = "missed"
    /\ hpcsessionpool_' = [hpcsessionpool_ EXCEPT
                             ![<<on[t], user[t].center>>] = NewPool(t)]
    /\ user' = [user EXCEPT ![t].pc = "get", ![t].pool = NewPool(t)]

(* decrypt, new, insert (which leaves an entry that is there alone) and    *)
(* return of the thread's own pool.                                        *)
PoolInsert(t) ==
    /\ user[t].pc = "missed"
    /\ hpcsessionpool_' = IF Entry(t, user[t].center) = None
                          THEN [hpcsessionpool_ EXCEPT
                                  ![<<on[t], user[t].center>>] = NewPool(t)]
                          ELSE hpcsessionpool_
    /\ user' = [user EXCEPT ![t].pc = "get", ![t].pool = NewPool(t)]

getConnectionFromPool(t) ==
    /\ user[t].pc = "get" /\ ~Full(user[t].pool)
    /\ user' = [user EXCEPT ![t].pc = "holding"]
    /\ UNCHANGED hpcsessionpool_

returnConnectionToPool(t) ==
    /\ user[t].pc = "holding"
    /\ user' = [user EXCEPT ![t] = Idle]
    /\ UNCHANGED hpcsessionpool_

RegistryStep(t) == \/ PoolFind(t)
                   \/ PoolInsert(t)
                   \/ getConnectionFromPool(t)
                   \/ returnConnectionToPool(t)

vars == <<startUpVars, registryVars>>

TypeOK == StartUpTypeOK /\ RegistryTypeOK

Init == StartUpInit /\ RegistryInit

Next == \/ \E a \in Apps : StartUpStep(a) /\ UNCHANGED registryVars
        \/ \E t \in Threads : RegistryStep(t) /\ UNCHANGED startUpVars

Spec == Init /\ [][Next]_vars

-----------------------------------------------------------------------------
(* Threads are started after the key is set: without a race of two first   *)
(* requests, no pool keeps a password decrypted without the key, which     *)
(* would never be decrypted again.                                         *)
PoolsAreKeyed == OneObject("WSScheduler") => \A p \in Pools : p.keyed

(* A thread waits for a session only at the pool in the map, so that every *)
(* thread that comes after it can bring it one: a pool that lost the race  *)
(* of getSSHConnectionPool serves only the thread that made it.            *)
WaitersAreAtRegisteredPool ==
    \A t \in Threads : user[t].pc = "get" /\ Full(user[t].pool)
                         => user[t].pool = Entry(t, user[t].center)

(* A pool that lost the race has at most the session of its maker.         *)
LostPoolsAreSmall ==
    \A p \in Pools : p # hpcsessionpool_[<<p.object, p.center>>]
                       => Holders(p) \subseteq {p.maker}
=============================================================================
