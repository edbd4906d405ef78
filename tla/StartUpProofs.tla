---------------------------- MODULE StartUpProofs ----------------------------
(***************************************************************************)
(* Proofs about StartUp, for any number of application instances: what a   *)
(* step of checkIsInitialized preserves.  The modules that have steps of   *)
(* their own beside these (Tokens, PoolRegistry) use it.                   *)
(***************************************************************************)
EXTENDS StartUp, FiniteSetTheorems, TLAPS

ClassAt(i) == Setup[i][1]
SettingAt(i) == Setup[i][2]
Steps == 1..6

(* An instance that went through step i found or made an object of the     *)
(* class, and one that is making an object of a class had none before.     *)
ObjectsFound ==
    /\ \A a \in Apps, i \in Steps : i < at[a] => instance_[ClassAt(i)] # None
    /\ \A a \in Apps : creating[a] # None =>
          at[a] # 0 /\ \A i \in Steps : i < at[a] => ClassAt(i) # creating[a]

(* What an instance went through could be read, and one that gave up stays *)
(* at a setting that cannot.                                               *)
StepsReadable ==
    /\ \A a \in Apps, i \in Steps : i < at[a] => SettingAt(i) \notin unreadable
    /\ \A a \in gaveUp : at[a] \in Steps /\ SettingAt(at[a]) \in unreadable

(* A setting is made only when those before it could be read.              *)
SettingsReadable ==
    \A o \in Classes \X Apps, i \in Steps : SettingAt(i) \in settings[o] =>
        \A j \in 1..i : SettingAt(j) \notin unreadable

(* The object in use has all that its maker went through so far.           *)
CurrentIsSet ==
    \A c \in Classes : instance_[c] # None =>
        /\ at[instance_[c]] # 0
        /\ <<c, instance_[c]>> \in made
        /\ \A i \in Steps : i < at[instance_[c]] /\ ClassAt(i) = c /\ i # 6
               => SettingAt(i) \in settings[Current(c)]

(* Every setting that was made is in some object.                          *)
SettingsReached ==
    \A a \in Apps, i \in Steps : i < at[a] /\ i # 6 =>
        \E o \in made : o[1] = ClassAt(i) /\ SettingAt(i) \in settings[o]

(* Threads run from the last step on, and on an object that was made; those*)
(* of the instance that made the scheduler in use run on it.               *)
ThreadsStarted ==
    /\ \A a \in Apps, j \in 0..ThreadCount :
          at[a] <= 6 <=> on[<<a, j>>] = None
    /\ \A t \in Threads : on[t] # None => <<"WSScheduler", on[t]>> \in made
    /\ \A a \in Apps, j \in 0..ThreadCount :
          instance_["WSScheduler"] = a /\ at[a] = 7 => on[<<a, j>>] = a

StartUpInv == /\ StartUpTypeOK
              /\ IsFiniteSet(made)
              /\ ObjectsFound
              /\ StepsReadable
              /\ SettingsReadable
              /\ CurrentIsSet
              /\ SettingsReached
              /\ ThreadsStarted

-----------------------------------------------------------------------------
(* The steps of checkIsInitialized.                                        *)
LEMMA SetupFacts ==
    /\ Len(Setup) = 6 /\ DOMAIN Setup = Steps
    /\ \A i \in Steps : ClassAt(i) \in Classes /\ (SettingAt(i) = "initialize" <=> i = 6)
    /\ \A i \in Steps : i # 6 => SettingAt(i) \in SettingsOf(ClassAt(i))
    /\ \A i, j \in Steps : SettingAt(i) = SettingAt(j) => i = j
    /\ ClassAt(1) = "WSData" /\ ClassAt(2) = "WSCrypt" /\ ClassAt(4) = "WSScheduler"
    /\ ClassAt(6) = "WSScheduler" /\ SettingAt(2) = "tokenkey" /\ SettingAt(4) = "keydata"
PROOF
<1>1. /\ Len(Setup) = 6 /\ DOMAIN Setup = Steps
      /\ Setup[1] = <<"WSData", "connectionstring">>
      /\ Setup[2] = <<"WSCrypt", "tokenkey">>
      /\ Setup[3] = <<"WSCrypt", "tokenexpireduration">>
      /\ Setup[4] = <<"WSScheduler", "keydata">>
      /\ Setup[5] = <<"WSScheduler", "limits">>
      /\ Setup[6] = <<"WSScheduler", "initialize">>
  BY DEF Setup, Steps
<1>2. \A i \in Steps : i = 1 \/ i = 2 \/ i = 3 \/ i = 4 \/ i = 5 \/ i = 6
  BY DEF Steps
<1>3. \A i \in Steps : ClassAt(i) \in Classes /\ (SettingAt(i) = "initialize" <=> i = 6)
  BY <1>1, <1>2 DEF ClassAt, SettingAt, Classes
<1>4. \A i \in Steps : i # 6 => SettingAt(i) \in SettingsOf(ClassAt(i))
  BY <1>1, <1>3 DEF SettingsOf, ClassAt, SettingAt
<1>5. \A i, j \in Steps : SettingAt(i) = SettingAt(j) => i = j
  BY <1>1, <1>2 DEF SettingAt
<1> QED BY <1>1, <1>3, <1>4, <1>5 DEF ClassAt, SettingAt

(* Where an instance is that makes a step after the first.                 *)
LEMMA StepFacts ==
    ASSUME StartUpTypeOK, NEW a \in Apps, Settling(a)
    PROVE  /\ at[a] \in Steps /\ Class(a) = ClassAt(at[a])
           /\ Class(a) \in Classes /\ Setting(a) = SettingAt(at[a])
PROOF
<1>1. at[a] \in Steps
  BY SetupFacts DEF Settling, Steps
<1> QED BY <1>1, SetupFacts DEF Class, Setting, ClassAt, SettingAt

(* An instance that serves is in or through checkIsInitialized.            *)
LEMMA ServingFacts ==
    ASSUME StartUpInv, NEW a \in Apps, Serving(a) \/ Settling(a)
    PROVE  at[a] # 0
PROOF
BY SetupFacts DEF StartUpInv, StepsReadable, Serving, Settling, Steps

(* The step that starts the threads cannot be one that throws.             *)
LEMMA InitializeReadable ==
    ASSUME StartUpTypeOK
    PROVE  "initialize" \notin unreadable
PROOF
BY StartUpAssumption DEF StartUpTypeOK, SettingNames

(* The invariant holds at the start.                                       *)
LEMMA StartUpInitInv == StartUpInit => StartUpInv
PROOF
<1> SUFFICES ASSUME StartUpInit PROVE StartUpInv
  OBVIOUS
<1>1. StartUpTypeOK
  <2>1. 0 \in 0..Len(Setup) + 1
    BY SetupFacts
  <2> QED BY <2>1 DEF StartUpInit, StartUpTypeOK
<1>2. IsFiniteSet(made)
  BY FS_EmptySet DEF StartUpInit
<1>3. ObjectsFound /\ CurrentIsSet /\ SettingsReached
  BY DEF StartUpInit, ObjectsFound, CurrentIsSet, SettingsReached, Steps
<1>5. StepsReadable /\ SettingsReadable
  BY DEF StartUpInit, StepsReadable, SettingsReadable, Steps
<1>4. ThreadsStarted
  BY StartUpAssumption DEF StartUpInit, ThreadsStarted, Threads, Classes
<1> QED BY <1>1, <1>2, <1>3, <1>5, <1>4 DEF StartUpInv

-----------------------------------------------------------------------------
(* One lemma for each step                                                 *)

LEMMA FirstStep ==
    ASSUME StartUpInv, NEW a \in Apps, checkIsInitialized(a)
    PROVE  StartUpInv'
PROOF
<1>1. /\ at[a] = 0 /\ at' = [at EXCEPT ![a] = 1]
      /\ UNCHANGED <<unreadable, gaveUp, creating, instance_, made, settings, on>>
  BY DEF checkIsInitialized
<1>2. at \in [Apps -> 0..7] /\ instance_ \in [Classes -> Apps \cup {None}]
  BY SetupFacts DEF StartUpInv, StartUpTypeOK
<1>3. /\ at' \in [Apps -> 0..7] /\ at'[a] = 1
      /\ \A b \in Apps \ {a} : at'[b] = at[b]
  BY <1>1, <1>2
<1>4. StartUpTypeOK'
  BY <1>1, <1>3, SetupFacts DEF StartUpInv, StartUpTypeOK
<1>5. \A b \in Apps, i \in Steps : i < at'[b] => i < at[b] /\ at'[b] = at[b]
  BY <1>3 DEF Steps
<1>6. ObjectsFound'
  <2>1. ASSUME NEW b \in Apps, creating[b] # None
        PROVE  at'[b] # 0 /\ \A i \in Steps : i < at'[b] => ClassAt(i) # creating[b]
    <3>1. at'[b] = at[b]
      BY <1>1, <1>3, <2>1 DEF StartUpInv, ObjectsFound
    <3> QED BY <2>1, <3>1 DEF StartUpInv, ObjectsFound
  <2> QED BY <1>1, <1>5, <2>1 DEF StartUpInv, ObjectsFound, ClassAt
<1>7. StepsReadable' /\ SettingsReadable'
  <2>1. a \notin gaveUp
    <3>1. 0 \notin Steps
      BY DEF Steps
    <3> QED BY <1>1, <3>1 DEF StartUpInv, StepsReadable
  <2>2. \A b \in gaveUp : at'[b] = at[b]
    BY <1>3, <2>1 DEF StartUpInv, StartUpTypeOK
  <2> QED BY <1>1, <1>5, <2>2 DEF StartUpInv, StepsReadable, SettingsReadable, SettingAt
<1>8. CurrentIsSet'
  <2>1. ASSUME NEW c \in Classes, instance_[c] # None
        PROVE  instance_[c] \in Apps \ {a}
    BY <1>1, <1>2, <2>1 DEF StartUpInv, CurrentIsSet
  <2> QED BY <1>1, <1>3, <2>1 DEF StartUpInv, CurrentIsSet, Current, ClassAt, SettingAt
<1>9. SettingsReached'
  BY <1>1, <1>5 DEF StartUpInv, SettingsReached, ClassAt, SettingAt
<1>10. ThreadsStarted'
  BY <1>1, <1>3 DEF StartUpInv, ThreadsStarted
<1> QED BY <1>1, <1>4, <1>6, <1>7, <1>8, <1>9, <1>10 DEF StartUpInv

LEMMA MissingStep ==
    ASSUME StartUpInv, NEW a \in Apps, InstanceMissing(a)
    PROVE  StartUpInv'
PROOF
<1>1. PICK c \in Calls(a) :
         /\ creating[a] = None /\ instance_[c] = None
         /\ creating' = [creating EXCEPT ![a] = c]
         /\ UNCHANGED <<unreadable, at, gaveUp, instance_, made, settings, on>>
  BY DEF InstanceMissing
<1>2. c \in Classes /\ (Settling(a) \/ Serving(a))
  BY <1>1, StepFacts DEF StartUpInv, Calls
<1>3. StartUpTypeOK'
  BY <1>1, <1>2 DEF StartUpInv, StartUpTypeOK
<1>4. ObjectsFound'
  <2>1. at[a] # 0 /\ \A i \in Steps : i < at[a] => ClassAt(i) # c
    BY <1>1, <1>2, ServingFacts DEF StartUpInv, ObjectsFound
  <2>2. \A b \in Apps : creating'[b] = IF b = a THEN c ELSE creating[b]
    BY <1>1 DEF StartUpInv, StartUpTypeOK
  <2> QED BY <1>1, <2>1, <2>2 DEF StartUpInv, ObjectsFound, ClassAt
<1>5. (StepsReadable /\ SettingsReadable)'
  BY <1>1 DEF StartUpInv, StepsReadable, SettingsReadable, SettingAt
<1>6. (CurrentIsSet /\ SettingsReached /\ ThreadsStarted)'
  BY <1>1 DEF StartUpInv, CurrentIsSet, SettingsReached, ThreadsStarted, Current,
              ClassAt, SettingAt
<1> QED BY <1>1, <1>3, <1>4, <1>5, <1>6 DEF StartUpInv

(* The object that is made now has nothing yet, and its maker went through *)
(* no step of its class.                                                   *)
LEMMA MadeStep ==
    ASSUME StartUpInv, NEW a \in Apps, InstanceMade(a)
    PROVE  StartUpInv'
PROOF
<1> DEFINE k == creating[a]
<1>1. /\ k # None
      /\ creating' = [creating EXCEPT ![a] = None]
      /\ made' = made \cup {<<k, a>>}
      /\ instance_' = [instance_ EXCEPT ![k] = a]
      /\ UNCHANGED <<unreadable, at, gaveUp, settings, on>>
  BY DEF InstanceMade
<1>2. /\ k \in Classes /\ at[a] # 0 /\ \A i \in Steps : i < at[a] => ClassAt(i) # k
      /\ a # None /\ instance_ \in [Classes -> Apps \cup {None}]
  BY <1>1, StartUpAssumption DEF StartUpInv, StartUpTypeOK, ObjectsFound
<1>3. \A b \in Apps : creating'[b] = IF b = a THEN None ELSE creating[b]
  BY <1>1 DEF StartUpInv, StartUpTypeOK
<1> HIDE DEF k
<1>4. \A c \in Classes : instance_'[c] = IF c = k THEN a ELSE instance_[c]
  BY <1>1, <1>2
<1>5. StartUpTypeOK'
  BY <1>1, <1>2 DEF StartUpInv, StartUpTypeOK
<1>6. IsFiniteSet(made')
  BY <1>1, FS_AddElement DEF StartUpInv
<1>7. ObjectsFound'
  <2>1. ASSUME NEW b \in Apps, NEW i \in Steps, i < at[b]
        PROVE  instance_'[ClassAt(i)] # None
    BY <1>2, <1>4, <2>1, SetupFacts DEF StartUpInv, ObjectsFound
  <2> QED BY <1>1, <1>3, <2>1 DEF StartUpInv, ObjectsFound, ClassAt
<1>8. (StepsReadable /\ SettingsReadable)'
  BY <1>1 DEF StartUpInv, StepsReadable, SettingsReadable, SettingAt
<1>9. CurrentIsSet'
  <2> SUFFICES ASSUME NEW c \in Classes, instance_'[c] # None
               PROVE  /\ at[instance_'[c]] # 0
                      /\ <<c, instance_'[c]>> \in made'
                      /\ \A i \in Steps : i < at[instance_'[c]] /\ ClassAt(i) = c /\ i # 6
                             => SettingAt(i) \in settings[<<c, instance_'[c]>>]
    BY <1>1 DEF CurrentIsSet, Current, ClassAt, SettingAt
  <2>1. CASE c = k
    BY <1>1, <1>2, <1>4, <2>1
  <2>2. CASE c # k
    BY <1>1, <1>4, <2>2 DEF StartUpInv, CurrentIsSet, Current
  <2> QED BY <2>1, <2>2
<1>10. SettingsReached'
  BY <1>1 DEF StartUpInv, SettingsReached, ClassAt, SettingAt
<1>11. ThreadsStarted'
  <2>1. "WSScheduler" \in Classes /\ 4 \in Steps /\ 4 < 7 /\ ClassAt(4) = "WSScheduler"
    BY SetupFacts DEF Steps, Classes
  <2>2. ASSUME NEW b \in Apps, NEW j \in 0..ThreadCount,
               instance_'["WSScheduler"] = b, at[b] = 7
        PROVE  on[<<b, j>>] = b
    <3>1. ~(b = a /\ k = "WSScheduler")
      BY <1>2, <2>1, <2>2
    <3>2. instance_["WSScheduler"] = b
      BY <1>4, <2>1, <2>2, <3>1
    <3> QED BY <2>2, <3>2 DEF StartUpInv, ThreadsStarted
  <2> QED BY <1>1, <2>2 DEF StartUpInv, ThreadsStarted
<1> QED BY <1>5, <1>6, <1>7, <1>8, <1>9, <1>10, <1>11 DEF StartUpInv

(* A setting that throws changes nothing but that its instance serves.     *)
LEMMA ThrowsStep ==
    ASSUME StartUpInv, NEW a \in Apps, SettingThrows(a)
    PROVE  StartUpInv'
PROOF
<1>1. /\ Settling(a) /\ Setting(a) \in unreadable
      /\ gaveUp' = gaveUp \cup {a}
      /\ UNCHANGED <<unreadable, at, creating, instance_, made, settings, on>>
  BY DEF SettingThrows
<1>2. at[a] \in Steps /\ SettingAt(at[a]) \in unreadable
  BY <1>1, StepFacts DEF StartUpInv
<1>3. StartUpTypeOK'
  BY <1>1 DEF StartUpInv, StartUpTypeOK
<1>4. StepsReadable'
  BY <1>1, <1>2 DEF StartUpInv, StepsReadable, SettingAt
<1>5. (ObjectsFound /\ SettingsReadable)'
  BY <1>1 DEF StartUpInv, ObjectsFound, SettingsReadable, ClassAt, SettingAt
<1>6. (CurrentIsSet /\ SettingsReached /\ ThreadsStarted)'
  BY <1>1 DEF StartUpInv, CurrentIsSet, SettingsReached, ThreadsStarted, Current,
              ClassAt, SettingAt
<1> QED BY <1>1, <1>3, <1>4, <1>5, <1>6 DEF StartUpInv

(* A setting is given to the object in use: it has what it had and more.   *)
LEMMA SetSettingStep ==
    ASSUME StartUpInv, NEW a \in Apps, SetSetting(a)
    PROVE  StartUpInv'
PROOF
<1>1. /\ Settling(a) /\ creating[a] = None /\ Setting(a) # "initialize"
      /\ Setting(a) \notin unreadable
      /\ instance_[Class(a)] # None
      /\ settings' = [settings EXCEPT ![<<Class(a), instance_[Class(a)]>>]
                                        = @ \cup {Setting(a)}]
      /\ at' = [at EXCEPT ![a] = at[a] + 1]
      /\ UNCHANGED <<unreadable, gaveUp, creating, instance_, made, on>>
  BY DEF SetSetting, Current
<1> DEFINE k == at[a]
           o == <<Class(a), instance_[Class(a)]>>
<1>2. /\ k \in 1..5 /\ Class(a) = ClassAt(k) /\ Setting(a) = SettingAt(k)
      /\ Class(a) \in Classes /\ instance_[Class(a)] \in Apps
  <2>1. /\ k \in Steps /\ Class(a) = ClassAt(k) /\ Setting(a) = SettingAt(k)
        /\ Class(a) \in Classes
    BY <1>1, StepFacts DEF StartUpInv
  <2>2. k # 6
    BY <1>1, <2>1, SetupFacts
  <2>3. k \in 1..5
    BY <2>1, <2>2 DEF Steps
  <2> QED BY <1>1, <2>1, <2>3 DEF StartUpInv, StartUpTypeOK
<1>3. /\ at \in [Apps -> 0..7] /\ at' \in [Apps -> 0..7] /\ at'[a] = k + 1
      /\ \A b \in Apps \ {a} : at'[b] = at[b]
  <2>1. at \in [Apps -> 0..7]
    BY SetupFacts DEF StartUpInv, StartUpTypeOK
  <2>2. k + 1 \in 0..7
    BY <1>2
  <2> QED BY <1>1, <2>1, <2>2
<1>4. settings \in [Classes \X Apps -> SUBSET UNION {SettingsOf(c) : c \in Classes}]
  BY DEF StartUpInv, StartUpTypeOK
<1>5. o \in Classes \X Apps /\ settings'[o] = settings[o] \cup {SettingAt(k)}
  BY <1>1, <1>2, <1>4
<1>6. \A p \in Classes \X Apps : settings[p] \subseteq settings'[p]
  BY <1>1, <1>2, <1>4
<1>7. o \in made
  BY <1>1, <1>2 DEF StartUpInv, CurrentIsSet
<1>8. \A i \in Steps : i < k + 1 => i < k \/ i = k
  BY <1>2 DEF Steps
<1> HIDE DEF k, o
<1>9. StartUpTypeOK'
  <2>1. SettingAt(k) \in UNION {SettingsOf(c) : c \in Classes}
    <3>1. k \in Steps /\ k # 6
      BY <1>2 DEF Steps
    <3> QED BY <1>2, <3>1, SetupFacts
  <2>2. settings' \in [Classes \X Apps -> SUBSET UNION {SettingsOf(c) : c \in Classes}]
    <3>1. settings[o] \cup {SettingAt(k)} \in SUBSET UNION {SettingsOf(c) : c \in Classes}
      BY <1>4, <1>5, <2>1
    <3>2. settings' = [settings EXCEPT ![o] = settings[o] \cup {SettingAt(k)}]
      BY <1>1, <1>2, <1>4, <1>5 DEF o
    <3> QED BY <1>4, <3>1, <3>2
  <2>3. at' \in [Apps -> 0..Len(Setup) + 1]
    BY <1>3, SetupFacts
  <2>4. /\ unreadable' = unreadable /\ gaveUp' = gaveUp
        /\ creating' = creating /\ instance_' = instance_
        /\ made' = made /\ on' = on
    BY <1>1
  <2> QED BY <2>2, <2>3, <2>4 DEF StartUpInv, StartUpTypeOK
<1>10. ObjectsFound'
  <2>1. ASSUME NEW b \in Apps, NEW i \in Steps, i < at'[b]
        PROVE  instance_[ClassAt(i)] # None
    <3>1. CASE b = a
      BY <1>1, <1>2, <1>3, <1>8, <2>1, <3>1 DEF StartUpInv, ObjectsFound, k
    <3>2. CASE b # a
      BY <1>3, <2>1, <3>2 DEF StartUpInv, ObjectsFound
    <3> QED BY <3>1, <3>2
  <2>2. ASSUME NEW b \in Apps, creating[b] # None
        PROVE  at'[b] # 0 /\ \A i \in Steps : i < at'[b] => ClassAt(i) # creating[b]
    <3>1. b # a /\ at'[b] = at[b]
      BY <1>1, <1>3, <2>2
    <3> QED BY <2>2, <3>1 DEF StartUpInv, ObjectsFound
  <2> QED BY <1>1, <2>1, <2>2 DEF ObjectsFound, ClassAt
<1>11. CurrentIsSet'
  <2> SUFFICES ASSUME NEW c \in Classes, instance_[c] # None
               PROVE  /\ at'[instance_[c]] # 0
                      /\ <<c, instance_[c]>> \in made
                      /\ \A i \in Steps : i < at'[instance_[c]] /\ ClassAt(i) = c /\ i # 6
                             => SettingAt(i) \in settings'[<<c, instance_[c]>>]
    BY <1>1 DEF CurrentIsSet, Current, ClassAt, SettingAt
  <2>1. /\ instance_[c] \in Apps /\ at[instance_[c]] # 0
        /\ <<c, instance_[c]>> \in made
        /\ \A i \in Steps : i < at[instance_[c]] /\ ClassAt(i) = c /\ i # 6
                             => SettingAt(i) \in settings[<<c, instance_[c]>>]
    BY DEF StartUpInv, StartUpTypeOK, CurrentIsSet, Current
  <2>2. at'[instance_[c]] # 0
    <3>1. k + 1 # 0
      BY <1>2
    <3> QED BY <1>3, <2>1, <3>1
  <2>3. ASSUME NEW i \in Steps, i < at'[instance_[c]], ClassAt(i) = c, i # 6
        PROVE  SettingAt(i) \in settings'[<<c, instance_[c]>>]
    <3>1. CASE i < at[instance_[c]]
      BY <1>6, <2>1, <2>3, <3>1
    <3>2. CASE ~(i < at[instance_[c]])
      <4>1. instance_[c] = a
        BY <1>3, <2>1, <2>3, <3>2
      <4>2. i = k
        BY <1>3, <1>8, <2>3, <3>2, <4>1 DEF k
      <4>3. <<c, instance_[c]>> = o
        BY <1>2, <2>3, <4>2 DEF o
      <4> QED BY <1>5, <4>2, <4>3
    <3> QED BY <3>1, <3>2
  <2> QED BY <2>1, <2>2, <2>3
<1>12. SettingsReached'
  <2> SUFFICES ASSUME NEW b \in Apps, NEW i \in Steps, i < at'[b], i # 6
               PROVE  \E p \in made : p[1] = ClassAt(i) /\ SettingAt(i) \in settings'[p]
    BY <1>1 DEF SettingsReached, ClassAt, SettingAt
  <2>1. CASE i < at[b]
    <3>1. PICK p \in made : p[1] = ClassAt(i) /\ SettingAt(i) \in settings[p]
      BY <2>1 DEF StartUpInv, SettingsReached
    <3>2. p \in Classes \X Apps
      BY <3>1 DEF StartUpInv, StartUpTypeOK
    <3> QED BY <1>6, <3>1, <3>2
  <2>2. CASE ~(i < at[b])
    <3>1. b = a
      BY <1>3, <2>2
    <3>2. i = k
      BY <1>3, <1>8, <2>2, <3>1 DEF k
    <3>3. o[1] = ClassAt(i)
      BY <1>2, <3>2 DEF o
    <3> QED BY <1>5, <1>7, <3>2, <3>3
  <2> QED BY <2>1, <2>2
<1>13. StepsReadable'
  <2>1. ASSUME NEW b \in Apps, NEW i \in Steps, i < at'[b]
        PROVE  SettingAt(i) \notin unreadable
    <3>1. CASE b = a
      BY <1>1, <1>2, <1>3, <1>8, <2>1, <3>1 DEF StartUpInv, StepsReadable, k
    <3>2. CASE b # a
      BY <1>3, <2>1, <3>2 DEF StartUpInv, StepsReadable
    <3> QED BY <3>1, <3>2
  <2>2. \A b \in gaveUp : at'[b] = at[b]
    BY <1>1, <1>3 DEF StartUpInv, StartUpTypeOK, Settling
  <2> QED BY <1>1, <2>1, <2>2 DEF StartUpInv, StepsReadable, SettingAt
<1>14. SettingsReadable'
  <2> SUFFICES ASSUME NEW p \in Classes \X Apps, NEW i \in Steps,
                      SettingAt(i) \in settings'[p], NEW j \in 1..i
               PROVE  SettingAt(j) \notin unreadable
    BY <1>1 DEF SettingsReadable, SettingAt
  <2>1. CASE SettingAt(i) \in settings[p]
    BY <2>1 DEF StartUpInv, SettingsReadable
  <2>2. CASE SettingAt(i) \notin settings[p]
    <3>1. SettingAt(i) = SettingAt(k)
      BY <1>1, <1>2, <1>4, <1>5, <2>2 DEF o
    <3>2. i = k
      BY <1>2, <3>1, SetupFacts DEF Steps
    <3>3. j \in Steps /\ (j = k \/ j < k)
      BY <1>2, <3>2 DEF Steps
    <3> QED BY <1>1, <1>2, <3>3 DEF StartUpInv, StepsReadable, k
  <2> QED BY <2>1, <2>2
<1>15. ThreadsStarted'
  <2>1. at[a] <= 6 /\ at'[a] <= 6 /\ at'[a] # 7 /\ ~(at'[a] = 7)
    BY <1>2, <1>3 DEF k
  <2>2. \A b \in Apps : (at'[b] <= 6 <=> at[b] <= 6) /\ (at'[b] = 7 => at[b] = 7)
    BY <1>3, <2>1
  <2> QED BY <1>1, <2>2 DEF StartUpInv, ThreadsStarted
<1> QED BY <1>1, <1>9, <1>10, <1>11, <1>12, <1>13, <1>14, <1>15 DEF StartUpInv

(* The last step starts the threads of the instance.                       *)
LEMMA InitializeStep ==
    ASSUME StartUpInv, NEW a \in Apps, initialize(a)
    PROVE  StartUpInv'
PROOF
<1>1. /\ Settling(a) /\ creating[a] = None /\ Setting(a) = "initialize"
      /\ instance_["WSScheduler"] # None
      /\ on' = [t \in Threads |-> IF t[1] = a THEN instance_["WSScheduler"]
                                              ELSE on[t]]
      /\ at' = [at EXCEPT ![a] = at[a] + 1]
      /\ UNCHANGED <<unreadable, gaveUp, creating, instance_, made, settings>>
  BY DEF initialize
<1> DEFINE s == instance_["WSScheduler"]
<1>2. at[a] = 6 /\ s \in Apps /\ s # None /\ <<"WSScheduler", s>> \in made
  <2>1. at[a] \in Steps /\ Setting(a) = SettingAt(at[a])
    BY <1>1, StepFacts DEF StartUpInv
  <2>2. at[a] = 6
    BY <1>1, <2>1, SetupFacts
  <2>3. "WSScheduler" \in Classes
    BY DEF Classes
  <2> QED BY <1>1, <2>2, <2>3 DEF StartUpInv, StartUpTypeOK, CurrentIsSet
<1>3. /\ at \in [Apps -> 0..7] /\ at' \in [Apps -> 0..7] /\ at'[a] = 7
      /\ \A b \in Apps \ {a} : at'[b] = at[b]
  <2>1. at \in [Apps -> 0..7]
    BY SetupFacts DEF StartUpInv, StartUpTypeOK
  <2>2. at[a] + 1 = 7 /\ 7 \in 0..7
    BY <1>2
  <2> QED BY <1>1, <2>1, <2>2
<1>4. \A i \in Steps : i < 7 /\ i # 6 => i < 6
  BY DEF Steps
<1> HIDE DEF s
<1>5. StartUpTypeOK'
  <2>1. on \in [Threads -> Apps \cup {None}]
    BY DEF StartUpInv, StartUpTypeOK
  <2>2. on' \in [Threads -> Apps \cup {None}]
    BY <1>1, <1>2, <2>1 DEF s
  <2> QED BY <1>1, <1>3, <2>2, SetupFacts DEF StartUpInv, StartUpTypeOK
<1>6. ObjectsFound'
  <2>1. ASSUME NEW b \in Apps, NEW i \in Steps, i < at'[b]
        PROVE  instance_[ClassAt(i)] # None
    <3>1. CASE b = a /\ i = 6
      BY <1>1, <3>1, SetupFacts
    <3>2. CASE b = a /\ i # 6
      BY <1>2, <1>3, <1>4, <2>1, <3>2 DEF StartUpInv, ObjectsFound
    <3>3. CASE b # a
      BY <1>3, <2>1, <3>3 DEF StartUpInv, ObjectsFound
    <3> QED BY <3>1, <3>2, <3>3
  <2>2. ASSUME NEW b \in Apps, creating[b] # None
        PROVE  at'[b] # 0 /\ \A i \in Steps : i < at'[b] => ClassAt(i) # creating[b]
    <3>1. b # a /\ at'[b] = at[b]
      BY <1>1, <1>3, <2>2
    <3> QED BY <2>2, <3>1 DEF StartUpInv, ObjectsFound
  <2> QED BY <1>1, <2>1, <2>2 DEF ObjectsFound, ClassAt
<1>7. \A b \in Apps, i \in Steps : i < at'[b] /\ i # 6 => i < at[b]
  BY <1>2, <1>3, <1>4
<1>8. CurrentIsSet'
  <2> SUFFICES ASSUME NEW c \in Classes, instance_[c] # None
               PROVE  /\ at'[instance_[c]] # 0
                      /\ <<c, instance_[c]>> \in made
                      /\ \A i \in Steps : i < at'[instance_[c]] /\ ClassAt(i) = c /\ i # 6
                             => SettingAt(i) \in settings[<<c, instance_[c]>>]
    BY <1>1 DEF CurrentIsSet, Current, ClassAt, SettingAt
  <2>1. /\ instance_[c] \in Apps /\ at[instance_[c]] # 0
        /\ <<c, instance_[c]>> \in made
        /\ \A i \in Steps : i < at[instance_[c]] /\ ClassAt(i) = c /\ i # 6
                             => SettingAt(i) \in settings[<<c, instance_[c]>>]
    BY DEF StartUpInv, StartUpTypeOK, CurrentIsSet, Current
  <2>2. at'[instance_[c]] # 0
    BY <1>3, <2>1
  <2> QED BY <1>7, <2>1, <2>2
<1>9. SettingsReached'
  BY <1>1, <1>7 DEF StartUpInv, SettingsReached, ClassAt, SettingAt
<1>10. ThreadsStarted'
  <2>1. \A j \in 0..ThreadCount, b \in Apps : <<b, j>> \in Threads
    BY DEF Threads
  <2>2. \A j \in 0..ThreadCount, b \in Apps :
           on'[<<b, j>>] = IF b = a THEN s ELSE on[<<b, j>>]
    BY <1>1, <2>1 DEF s
  <2>3. ASSUME NEW b \in Apps, NEW j \in 0..ThreadCount
        PROVE  at'[b] <= 6 <=> on'[<<b, j>>] = None
    <3>1. CASE b = a
      BY <1>2, <1>3, <2>2, <3>1
    <3>2. CASE b # a
      BY <1>3, <2>2, <3>2 DEF StartUpInv, ThreadsStarted
    <3> QED BY <3>1, <3>2
  <2>4. ASSUME NEW t \in Threads, on'[t] # None
        PROVE  <<"WSScheduler", on'[t]>> \in made
    <3>1. on'[t] = IF t[1] = a THEN s ELSE on[t]
      BY <1>1 DEF s
    <3> QED BY <1>2, <2>4, <3>1 DEF StartUpInv, ThreadsStarted
  <2>5. ASSUME NEW b \in Apps, NEW j \in 0..ThreadCount, s = b, at'[b] = 7
        PROVE  on'[<<b, j>>] = b
    <3>1. CASE b = a
      BY <2>2, <2>5, <3>1
    <3>2. CASE b # a
      BY <1>3, <2>2, <2>5, <3>2 DEF StartUpInv, ThreadsStarted, s
    <3> QED BY <3>1, <3>2
  <2> QED BY <1>1, <2>3, <2>4, <2>5 DEF ThreadsStarted, s
<1>11. StepsReadable'
  <2>1. ASSUME NEW b \in Apps, NEW i \in Steps, i < at'[b]
        PROVE  SettingAt(i) \notin unreadable
    <3>1. CASE i = 6
      BY <3>1, SetupFacts, InitializeReadable DEF StartUpInv
    <3>2. CASE i # 6
      BY <1>7, <2>1, <3>2 DEF StartUpInv, StepsReadable
    <3> QED BY <3>1, <3>2
  <2>2. \A b \in gaveUp : at'[b] = at[b]
    BY <1>1, <1>3 DEF StartUpInv, StartUpTypeOK, Settling
  <2> QED BY <1>1, <2>1, <2>2 DEF StartUpInv, StepsReadable, SettingAt
<1>12. SettingsReadable'
  BY <1>1 DEF StartUpInv, SettingsReadable, SettingAt
<1> QED BY <1>1, <1>5, <1>6, <1>8, <1>9, <1>10, <1>11, <1>12 DEF StartUpInv

LEMMA StartUpNextInv ==
    ASSUME StartUpInv, NEW a \in Apps, StartUpStep(a)
    PROVE  StartUpInv'
PROOF
BY FirstStep, MissingStep, MadeStep, SetSettingStep, ThrowsStep, InitializeStep
   DEF StartUpStep

LEMMA StartUpStutterInv ==
    ASSUME StartUpInv, UNCHANGED startUpVars
    PROVE  StartUpInv'
PROOF
BY DEF StartUpInv, startUpVars, StartUpTypeOK, ObjectsFound, StepsReadable,
       SettingsReadable, CurrentIsSet, SettingsReached, ThreadsStarted, Current,
       ClassAt, SettingAt

-----------------------------------------------------------------------------
(* When every instance is through, the maker of each object in use is too. *)
LEMMA AllReady ==
    ASSUME StartUpInv, gaveUp = {}, \A a \in Apps : ~Settling(a),
           NEW b \in Apps, Serving(b)
    PROVE  Ready
PROOF
<1>1. at \in [Apps -> 0..7] /\ at[b] = 7 /\ \A a \in Apps : at[a] = 0 \/ at[a] = 7
  BY SetupFacts DEF StartUpInv, StartUpTypeOK, Settling, Serving
<1>2. \A i \in Steps : i < 7
  BY DEF Steps
<1>3. \A c \in Classes : instance_[c] # None
  <2>1. instance_[ClassAt(1)] # None /\ instance_[ClassAt(2)] # None
        /\ instance_[ClassAt(4)] # None
    <3>1. 1 \in Steps /\ 2 \in Steps /\ 4 \in Steps
      BY DEF Steps
    <3> QED BY <1>1, <1>2, <3>1 DEF StartUpInv, ObjectsFound
  <2> QED BY <2>1, SetupFacts DEF Classes
<1>4. \A c \in Classes : instance_[c] \in Apps /\ at[instance_[c]] = 7
  <2> SUFFICES ASSUME NEW c \in Classes
               PROVE  instance_[c] \in Apps /\ at[instance_[c]] = 7
    OBVIOUS
  <2>1. instance_[c] \in Apps /\ at[instance_[c]] # 0
    BY <1>3 DEF StartUpInv, StartUpTypeOK, CurrentIsSet
  <2> QED BY <1>1, <2>1
<1>5. ASSUME NEW c \in Classes, NEW x \in SettingsOf(c)
      PROVE  x \in settings[Current(c)]
  <2>1. PICK i \in Steps : ClassAt(i) = c /\ SettingAt(i) # "initialize" /\ x = SettingAt(i)
    BY <1>5, SetupFacts DEF SettingsOf, ClassAt, SettingAt
  <2>2. i # 6 /\ i < at[instance_[c]]
    BY <1>2, <1>4, <2>1, SetupFacts
  <2> QED BY <1>3, <2>1, <2>2 DEF StartUpInv, CurrentIsSet
<1>6. \E a \in Apps : \A i \in 0..ThreadCount : on[<<a, i>>] = instance_["WSScheduler"]
  <2>1. "WSScheduler" \in Classes
    BY DEF Classes
  <2>2. \A i \in 0..ThreadCount :
           on[<<instance_["WSScheduler"], i>>] = instance_["WSScheduler"]
    BY <1>4, <2>1 DEF StartUpInv, ThreadsStarted
  <2> QED BY <1>4, <2>1, <2>2
<1> QED BY <1>3, <1>5, <1>6 DEF Ready

(* One configuration file for all: where one instance gave up, no other    *)
(* got past it to the step that starts threads.                            *)
LEMMA NoThreads ==
    ASSUME StartUpInv, NEW g \in gaveUp, NEW t \in Threads
    PROVE  ~Running(t)
PROOF
<1> SUFFICES ASSUME Running(t) PROVE FALSE
  OBVIOUS
<1>1. PICK a \in Apps, j \in 0..ThreadCount : t = <<a, j>>
  BY DEF Threads
<1>2. at[a] \in 0..7 /\ ~(at[a] <= 6)
  BY <1>1, SetupFacts DEF StartUpInv, StartUpTypeOK, ThreadsStarted, Running
<1>3. at[g] \in Steps /\ SettingAt(at[g]) \in unreadable
  BY DEF StartUpInv, StepsReadable
<1>4. at[g] < at[a]
  BY <1>2, <1>3 DEF Steps
<1> QED BY <1>3, <1>4 DEF StartUpInv, StepsReadable

LEMMA ReadyFollows ==
    ASSUME StartUpInv
    PROVE  ReadyWhenSettled
PROOF
<1>1. CASE gaveUp = {}
  BY <1>1, AllReady DEF ReadyWhenSettled
<1>2. CASE gaveUp # {}
  BY <1>2, NoThreads DEF ReadyWhenSettled
<1> QED BY <1>1, <1>2

(* Objects stay made, an instance that serves goes on serving, and the     *)
(* configuration file is the same.                                         *)
LEMMA StepKeeps ==
    ASSUME StartUpInv, NEW a \in Apps, StartUpStep(a)
    PROVE  /\ made \subseteq made' /\ unreadable' = unreadable
           /\ \A b \in Apps : Serving(b) => Serving(b)'
PROOF
<1>1. made \subseteq made' /\ unreadable' = unreadable /\ gaveUp \subseteq gaveUp'
  BY DEF StartUpStep, checkIsInitialized, InstanceMissing, InstanceMade, SetSetting,
         SettingThrows, initialize
<1>2. at' = at \/ (~Serving(a) /\ \E n : at' = [at EXCEPT ![a] = n])
  <2>1. at[a] = 0 \/ Settling(a) => ~Serving(a)
    BY SetupFacts, ServingFacts DEF Settling, Serving
  <2> QED BY <2>1 DEF StartUpStep, checkIsInitialized, InstanceMissing, InstanceMade,
                      SetSetting, SettingThrows, initialize
<1>3. \A b \in Apps : Serving(b) => at'[b] = at[b]
  <2>1. at \in [Apps -> 0..Len(Setup) + 1]
    BY DEF StartUpInv, StartUpTypeOK
  <2> QED BY <1>2, <2>1
<1> QED BY <1>1, <1>3 DEF Serving

(* A thread stays on the object it was started on.                         *)
LEMMA ThreadsStay ==
    ASSUME StartUpInv, NEW a \in Apps, StartUpStep(a),
           NEW t \in Threads, Running(t)
    PROVE  Running(t)' /\ on'[t] = on[t]
PROOF
<1>1. CASE on' = on
  BY <1>1 DEF Running
<1>2. CASE initialize(a)
  <2>1. at[a] <= 6
    <3>1. at[a] \in Steps
      BY <1>2, StepFacts DEF StartUpInv, initialize
    <3> QED BY <3>1 DEF Steps
  <2>2. t = <<t[1], t[2]>> /\ t[1] \in Apps /\ t[2] \in 0..ThreadCount
    BY DEF Threads
  <2>3. t[1] # a
    BY <2>1, <2>2 DEF StartUpInv, ThreadsStarted, Running
  <2> QED BY <1>2, <2>3 DEF initialize, Running
<1> QED BY <1>1, <1>2 DEF StartUpStep, checkIsInitialized, InstanceMissing,
                          InstanceMade, SetSetting, SettingThrows

(* When one object of a class was made, it has every setting that an       *)
(* instance went through.                                                  *)
LEMMA OneObjectIsSet ==
    ASSUME StartUpInv, NEW c \in Classes, OneObject(c),
           NEW a \in Apps, NEW i \in Steps, i < at[a], i # 6, ClassAt(i) = c,
           NEW o \in made, o[1] = c
    PROVE  SettingAt(i) \in settings[o]
PROOF
<1> DEFINE M == {p \in made : p[1] = c}
<1>1. IsFiniteSet(M) /\ Cardinality(M) = 1
  BY FS_Subset DEF StartUpInv, OneObject
<1>2. PICK x : M = {x}
  BY <1>1, FS_Singleton
<1>3. PICK p \in made : p[1] = c /\ SettingAt(i) \in settings[p]
  BY DEF StartUpInv, SettingsReached
<1> QED BY <1>2, <1>3

(* An only object was the only one before.                                 *)
LEMMA OneObjectBefore ==
    ASSUME IsFiniteSet(made'), made \subseteq made', NEW c, OneObject(c)',
           NEW o \in made, o[1] = c
    PROVE  OneObject(c)
PROOF
<1> DEFINE M == {p \in made : p[1] = c}
           N == {p \in made' : p[1] = c}
<1>1. IsFiniteSet(N) /\ Cardinality(N) = 1
  BY FS_Subset DEF OneObject
<1>2. PICK x : N = {x}
  BY <1>1, FS_Singleton
<1>3. o \in M /\ M \subseteq N
  OBVIOUS
<1>4. M = {x}
  BY <1>2, <1>3
<1>5. Cardinality(M) = 1
  BY <1>4, FS_Singleton
<1> QED BY <1>5 DEF OneObject
=============================================================================
