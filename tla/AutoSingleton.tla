---------------------------- MODULE AutoSingleton ----------------------------
(***************************************************************************)
(* Sirikata::AutoSingleton<T> (Singleton.hpp): a lazily created instance   *)
(* in the static sInstance.  getSingleton creates it when sInstance is     *)
(* NULL, the constructor registers the first instance of T built by        *)
(* anyone, the destructor unregisters the registered one, and destroy()    *)
(* deletes the registered one.                                             *)
(*                                                                         *)
(* sInstance is a plain static without a lock, so getSingleton is four     *)
(* steps other threads may run between: the test (41), new T with its     *)
(* constructor's registration (45-48), the store (42) and the read of the *)
(* return (43).  The program also builds and deletes its own instances of *)
(* T and calls destroy(); DestroyDuringGet says whether it may delete one *)
(* or call destroy() while some getSingleton is in progress: nothing in   *)
(* the code rules it out.                                                  *)
(***************************************************************************)
EXTENDS FiniteSets

CONSTANTS
  Threads,          \* threads calling getSingleton once each
  Insts,            \* addresses instances of T can take
  DestroyDuringGet, \* deletions may overlap a getSingleton call
  NULL

ASSUME SingletonAssumption ==
  /\ IsFiniteSet(Insts)
  /\ NULL \notin Insts
  /\ DestroyDuringGet \in BOOLEAN

VARIABLES
  sInstance,  \* AutoSingleton<T>::sInstance
  live,       \* instances constructed and not yet destroyed
  used,       \* addresses already handed out by new
  tpc,        \* where each thread is in getSingleton
  mine,       \* the value of new T a thread is about to store
  got         \* the reference getSingleton returned to each thread

vars == <<sInstance, live, used, tpc, mine, got>>

Init ==
  /\ sInstance = NULL
  /\ live = {}
  /\ used = {}
  /\ tpc = [t \in Threads |-> "start"]
  /\ mine = [t \in Threads |-> NULL]
  /\ got = [t \in Threads |-> NULL]

(* AutoSingleton(): register this if no instance is registered.           *)
Register(i) == IF sInstance = NULL THEN i ELSE sInstance

(* Mutant: a destructor that leaves sInstance alone.                      *)
UnregisterNever(i) == sInstance

(* ~AutoSingleton(): unregister this if it is the registered instance.    *)
Unregister(i) == IF sInstance = i THEN NULL ELSE sInstance

(* Mutant: getSingleton without its lazy creation, straight to return.    *)
GetTestNoNew(t) ==
  /\ tpc[t] = "start"
  /\ tpc' = [tpc EXCEPT ![t] = "ret"]
  /\ UNCHANGED <<sInstance, live, used, mine, got>>

(* getSingleton, if (sInstance==NULL) at line 41.                         *)
GetTest(t) ==
  /\ tpc[t] = "start"
  /\ tpc' = [tpc EXCEPT ![t] = IF sInstance # NULL THEN "ret" ELSE "new"]
  /\ UNCHANGED <<sInstance, live, used, mine, got>>

(* new T: a fresh instance whose constructor may register it.             *)
GetNew(t) ==
  /\ tpc[t] = "new"
  /\ \E i \in Insts \ used :
       /\ sInstance' = Register(i)
       /\ live' = live \cup {i}
       /\ used' = used \cup {i}
       /\ mine' = [mine EXCEPT ![t] = i]
  /\ tpc' = [tpc EXCEPT ![t] = "store"]
  /\ UNCHANGED got

(* sInstance = new T at line 42: the store, whatever is registered now.   *)
GetStore(t) ==
  /\ tpc[t] = "store"
  /\ sInstance' = mine[t]
  /\ tpc' = [tpc EXCEPT ![t] = "ret"]
  /\ UNCHANGED <<live, used, mine, got>>

(* return *sInstance at line 43: a second read of the static.             *)
GetReturn(t) ==
  /\ tpc[t] = "ret"
  /\ got' = [got EXCEPT ![t] = sInstance]
  /\ tpc' = [tpc EXCEPT ![t] = "done"]
  /\ UNCHANGED <<sInstance, live, used, mine>>

(* No getSingleton call is between its test and its return.               *)
NoGetInProgress == \A t \in Threads : tpc[t] \in {"start", "done"}

(* The program constructs a T of its own.                                  *)
Construct ==
  \E i \in Insts \ used :
    /\ sInstance' = Register(i)
    /\ live' = live \cup {i}
    /\ used' = used \cup {i}
    /\ UNCHANGED <<tpc, mine, got>>

(* The program deletes a live T.                                           *)
Delete ==
  /\ DestroyDuringGet \/ NoGetInProgress
  /\ \E i \in live :
       /\ sInstance' = Unregister(i)
       /\ live' = live \ {i}
  /\ UNCHANGED <<used, tpc, mine, got>>

(* destroy(): delete sInstance (its destructor unregisters it), then      *)
(* sInstance = NULL.  On NULL both do nothing.                            *)
Destroy ==
  /\ DestroyDuringGet \/ NoGetInProgress
  /\ sInstance # NULL
  /\ live' = live \ {sInstance}
  /\ sInstance' = NULL
  /\ UNCHANGED <<used, tpc, mine, got>>

Next ==
  \/ \E t \in Threads : GetTest(t) \/ GetNew(t) \/ GetStore(t) \/ GetReturn(t)
  \/ Construct \/ Delete \/ Destroy

Spec == Init /\ [][Next]_vars

-----------------------------------------------------------------------------
TypeOK ==
  /\ sInstance \in Insts \cup {NULL}
  /\ live \subseteq used
  /\ used \subseteq Insts
  /\ tpc \in [Threads -> {"start", "new", "store", "ret", "done"}]
  /\ mine \in [Threads -> Insts \cup {NULL}]
  /\ got \in [Threads -> Insts \cup {NULL}]

(* sInstance never dangles: the instance getSingleton would hand out is   *)
(* always alive, whoever deleted instances in between.                    *)
RegisteredLive ==
  sInstance = NULL \/ sInstance \in live

(* getSingleton's return (line 43) dereferences a live instance: never    *)
(* *NULL and never a deleted one, although the static is read again after *)
(* the test at 41 and the store at 42 and other threads write it between. *)
ReturnsLive ==
  \A t \in Threads : tpc[t] = "ret" => sInstance \in live

=============================================================================
