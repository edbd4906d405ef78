------------------------------ MODULE StartUp ------------------------------
(***************************************************************************)
(* The first requests after the server started (WSProxy).  Every           *)
(* application instance of the web server's pool configures the program    *)
(* when it handles its first request: it hands the settings one by one to  *)
(* the objects WSData, WSCrypt and WSScheduler, which instance() creates   *)
(* on first use without a lock, and starts threads.  A setting that is     *)
(* missing from the configuration file or of another type throws; the      *)
(* instance then counts as initialized and serves as it is.  An instance   *)
(* handles one request at a time; several instances run at the same time.  *)
(***************************************************************************)
EXTENDS Naturals, Sequences, FiniteSets

CONSTANTS Apps,         \* application instances, each used by one thread
          ThreadCount,  \* scheduler.workeritemcount
          Configs,      \* bound: configuration files, as what they lack
          None

Classes == {"WSData", "WSCrypt", "WSScheduler"}

VARIABLES unreadable, \* settings the configuration file lacks or mistypes
          at,         \* per instance: its step of Setup (0: not initialized_)
          gaveUp,     \* instances that stayed at a setting that threw
          creating,   \* per instance: the class instance() saw no object of
          instance_,  \* per class: the object, named by the one that made it
          made,       \* <<class, maker>>: the objects made
          settings,   \* per object: the settings it was given
          on          \* per thread: the scheduler object it runs on
startUpVars == <<unreadable, at, gaveUp, creating, instance_, made, settings, on>>

(* Mutant of Setup: the threads are started before the key is set.         *)
StartsBeforeKey == << <<"WSData", "connectionstring">>,
                      <<"WSCrypt", "tokenkey">>,
                      <<"WSCrypt", "tokenexpireduration">>,
                      <<"WSScheduler", "initialize">>,
                      <<"WSScheduler", "keydata">>,
                      <<"WSScheduler", "limits">> >>

(* The calls of checkIsInitialized, in their order; calls in a row whose   *)
(* settings are read together are one: the key and the salts of tokens,    *)
(* and what the scheduler is told after the key (counts, buffer sizes,     *)
(* folders and urls).  If one of a group throws, those before it are set   *)
(* here and not in the model; no page and no thread sees the difference:   *)
(* none is served or started before the first exception, and every         *)
(* instance gives the object the same ones again.                          *)
Setup == << <<"WSData", "connectionstring">>,
            <<"WSCrypt", "tokenkey">>,
            <<"WSCrypt", "tokenexpireduration">>,
            <<"WSScheduler", "keydata">>,
            <<"WSScheduler", "limits">>,
            <<"WSScheduler", "initialize">> >>

SettingNames == {Setup[i][2] : i \in DOMAIN Setup} \ {"initialize"}
SettingsOf(class) == {Setup[i][2] : i \in {i \in DOMAIN Setup :
                          Setup[i][1] = class /\ Setup[i][2] # "initialize"}}

(* The scheduler's key data is read from the setting security.aeskey,      *)
(* which the key of the tokens is read from, too.                          *)
ASSUME StartUpAssumption ==
    /\ None \notin Apps \cup Classes
    /\ ThreadCount \in Nat
    /\ Configs \subseteq SUBSET SettingNames
    /\ \A config \in Configs : "keydata" \in config => "tokenkey" \in config

(* Thread <<a, 0>> is the background thread and <<a, i>> a worker started  *)
(* by the initialize() that instance a called.                             *)
Threads == Apps \X (0..ThreadCount)
Running(t) == on[t] # None

Settling(a) == at[a] \in 1..Len(Setup) /\ a \notin gaveUp
Serving(a) == at[a] = Len(Setup) + 1 \/ a \in gaveUp

StartUpTypeOK ==
    /\ unreadable \in Configs
    /\ at \in [Apps -> 0..Len(Setup) + 1]
    /\ gaveUp \subseteq Apps
    /\ creating \in [Apps -> Classes \cup {None}]
    /\ instance_ \in [Classes -> Apps \cup {None}]
    /\ made \subseteq Classes \X Apps
    /\ settings \in [Classes \X Apps -> SUBSET UNION {SettingsOf(c) : c \in Classes}]
    /\ on \in [Threads -> Apps \cup {None}]

StartUpInit == /\ unreadable \in Configs
               /\ at = [a \in Apps |-> 0]
               /\ gaveUp = {}
               /\ creating = [a \in Apps |-> None]
               /\ instance_ = [c \in Classes |-> None]
               /\ made = {}
               /\ settings = [o \in Classes \X Apps |-> {}]
               /\ on = [t \in Threads |-> None]

(* The first request of an instance: isInitialized_ is set at once. *)
checkIsInitialized(a) ==
    /\ at[a] = 0
    /\ at' = [at EXCEPT ![a] = 1]
    /\ UNCHANGED <<unreadable, gaveUp, creating, instance_, made, settings, on>>

Class(a) == Setup[at[a]][1]
Setting(a) == Setup[at[a]][2]
Current(class) == <<class, instance_[class]>>

(* The classes whose instance() the instance may call now: a page that is  *)
(* served calls that of any class.                                         *)
Calls(a) == IF Settling(a) THEN {Class(a)}
            ELSE IF Serving(a) THEN Classes ELSE {}

(* instance() finds no object ... *)
InstanceMissing(a) == \E c \in Calls(a) :
    /\ creating[a] = None
    /\ instance_[c] = None
    /\ creating' = [creating EXCEPT ![a] = c]
    /\ UNCHANGED <<unreadable, at, gaveUp, instance_, made, settings, on>>

(* ... and makes one, whatever has happened since. *)
InstanceMade(a) ==
    /\ creating[a] # None
    /\ creating' = [creating EXCEPT ![a] = None]
    /\ made' = made \cup {<<creating[a], a>>}
    /\ instance_' = [instance_ EXCEPT ![creating[a]] = a]
    /\ UNCHANGED <<unreadable, at, gaveUp, settings, on>>

SetSetting(a) ==
    /\ Settling(a) /\ creating[a] = None /\ Setting(a) # "initialize"
    /\ Setting(a) \notin unreadable
    /\ instance_[Class(a)] # None
    /\ settings' = [settings EXCEPT ![Current(Class(a))] = @ \cup {Setting(a)}]
    /\ at' = [at EXCEPT ![a] = @ + 1]
    /\ UNCHANGED <<unreadable, gaveUp, creating, instance_, made, on>>

(* settings().get<T>() throws, before or after the instance() of the same  *)
(* expression; isInitialized_ stays true.                                  *)
SettingThrows(a) ==
    /\ Settling(a) /\ creating[a] = None
    /\ Setting(a) \in unreadable
    /\ gaveUp' = gaveUp \cup {a}
    /\ UNCHANGED <<unreadable, at, creating, instance_, made, settings, on>>

(* Mutant of initialize: threads are started by the first instance only. *)
initializeOnce(a) ==
    /\ Settling(a) /\ creating[a] = None /\ Setting(a) = "initialize"
    /\ on' = IF \E t \in Threads : Running(t) THEN on
             ELSE [t \in Threads |-> IF t[1] = a THEN instance_["WSScheduler"]
                                                 ELSE on[t]]
    /\ at' = [at EXCEPT ![a] = @ + 1]
    /\ UNCHANGED <<unreadable, gaveUp, creating, instance_, made, settings>>

(* WSScheduler::initialize: one background thread and the workers. *)
initialize(a) ==
    /\ Settling(a) /\ creating[a] = None /\ Setting(a) = "initialize"
    /\ instance_["WSScheduler"] # None
    /\ on' = [t \in Threads |-> IF t[1] = a THEN instance_["WSScheduler"]
                                            ELSE on[t]]
    /\ at' = [at EXCEPT ![a] = @ + 1]
    /\ UNCHANGED <<unreadable, gaveUp, creating, instance_, made, settings>>

StartUpStep(a) == \/ checkIsInitialized(a)
                  \/ InstanceMissing(a)
                  \/ InstanceMade(a)
                  \/ SetSetting(a)
                  \/ SettingThrows(a)
                  \/ initialize(a)

(* One object of a class was made: no race of two first requests for it. *)
OneObject(class) == Cardinality({o \in made : o[1] = class}) = 1

-----------------------------------------------------------------------------
(* Once no instance is in checkIsInitialized and one is through with it,   *)
(* start-up came out whole or not at all, although instance() may have     *)
(* made several objects and left some half configured: the objects in use  *)
(* have all their settings and the scheduler in use has a background       *)
(* thread and all its workers, unless a setting threw.  Then no instance   *)
(* started a thread: pages are served, and nothing they order is done.     *)
Ready == /\ \A c \in Classes : /\ instance_[c] # None
                               /\ SettingsOf(c) \subseteq settings[Current(c)]
         /\ \E a \in Apps : \A i \in 0..ThreadCount :
               on[<<a, i>>] = instance_["WSScheduler"]

ReadyWhenSettled ==
    (/\ \A a \in Apps : ~Settling(a)
     /\ \E a \in Apps : Serving(a))
    => IF gaveUp = {} THEN Ready ELSE \A t \in Threads : ~Running(t)
=============================================================================
