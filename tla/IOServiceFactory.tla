-------------------------- MODULE IOServiceFactory --------------------------
(***************************************************************************)
(* IOServiceFactory (IOServiceFactory.cpp): the process-wide IOService     *)
(* created once through boost::call_once, IOServices made and destroyed on *)
(* demand, and the calls that run a service through a pointer.             *)
(*                                                                         *)
(* A pointer is NULL, the function-local static IOService of               *)
(* io_service_initializer (Static), or one of the heap IOServices that     *)
(* makeIOService returns (Heap).  held is the set of pointers the callers  *)
(* hold: what makeIOService and singletonIOService returned to them.       *)
(***************************************************************************)

CONSTANTS
  Heap,     \* addresses makeIOService can return
  Static,   \* address of io_service_initializer's static IOService
  NULL      \* Heap, Static and NULL are distinct model values

VARIABLES
  onceDone,     \* io_singleton: the once_flag has run
  called,       \* called_io_service
  staticBuilt,  \* the static IOService io has been constructed
  singletonIo,  \* singletonIOService's static IOService* io
  live,         \* heap IOServices allocated and not deleted
  used,         \* heap addresses ever returned by makeIOService
  held,         \* pointers the callers hold
  badCall       \* a service call has dereferenced a pointer to no IOService

vars == <<onceDone, called, staticBuilt, singletonIo, live, used, held, badCall>>

Init ==
  /\ onceDone = FALSE
  /\ called = FALSE
  /\ staticBuilt = FALSE
  /\ singletonIo = NULL
  /\ live = {}
  /\ used = {}
  /\ held = {}
  /\ badCall = FALSE

(* The io pointer singletonIOService would return if called now: the      *)
(* bound io_service_initializer receives singletonIo by value, so its     *)
(* io_ret = &io assigns only its own parameter; singletonIo keeps its     *)
(* value.                                                                 *)
SingletonRef == singletonIo

(* singletonIOService(): call_once runs io_service_initializer the first  *)
(* time (builds the static, sets called_io_service, assigns io_ret), then *)
(* returns *io to the caller.                                             *)
SingletonIOService ==
  /\ onceDone' = TRUE
  /\ called' = (called \/ ~onceDone)
  /\ staticBuilt' = (staticBuilt \/ ~onceDone)
  /\ held' = held \cup {SingletonRef}
  /\ UNCHANGED <<singletonIo, live, used, badCall>>

(* makeIOService(): new IOService.                                         *)
MakeIOService ==
  \E p \in Heap \ used :
    /\ live' = live \cup {p}
    /\ used' = used \cup {p}
    /\ held' = held \cup {p}
    /\ UNCHANGED <<onceDone, called, staticBuilt, singletonIo, badCall>>

(* destroyIOService(io): delete io unless called_io_service is set and io *)
(* is the singleton's address (a call of singletonIOService, whose        *)
(* call_once has already run when called_io_service is set).              *)
DestroyIOService ==
  \E p \in held :
    /\ IF ~called \/ SingletonRef # p
         THEN live' = live \ {p}
         ELSE UNCHANGED live
    /\ held' = held \ {p}
    /\ UNCHANGED <<onceDone, called, staticBuilt, singletonIo, used,
                   badCall>>

(* A pointer names a constructed IOService.                                *)
Valid(p) == p \in live \/ (p = Static /\ staticBuilt)

(* pollService, runService, pollOneService, runOneService, stopService,  *)
(* resetService, dispatchServiceMessage: each calls a member of *ios; the *)
(* effect on the service itself is abstracted away.                       *)
ServiceCall ==
  \E p \in held :
    /\ badCall' = (badCall \/ ~Valid(p))
    /\ UNCHANGED <<onceDone, called, staticBuilt, singletonIo, live, used, held>>

Next == SingletonIOService \/ MakeIOService \/ DestroyIOService \/ ServiceCall

Spec == Init /\ [][Next]_vars

-----------------------------------------------------------------------------
TypeOK ==
  /\ onceDone \in BOOLEAN
  /\ called \in BOOLEAN
  /\ staticBuilt \in BOOLEAN
  /\ singletonIo \in {NULL, Static}
  /\ live \subseteq Heap
  /\ used \subseteq Heap
  /\ held \subseteq Heap \cup {NULL, Static}
  /\ badCall \in BOOLEAN

(* Every call that runs a service (pollService, runService, ...) is made  *)
(* on a constructed IOService, whether the caller got the pointer from    *)
(* makeIOService or from singletonIOService.                              *)
ServiceCallsValid == ~badCall

=============================================================================
