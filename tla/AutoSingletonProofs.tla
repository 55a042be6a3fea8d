------------------------- MODULE AutoSingletonProofs -------------------------
(***************************************************************************)
(* Proofs about AutoSingleton, for any threads and addresses, under the   *)
(* usage contract ~DestroyDuringGet: the program deletes no T and calls   *)
(* no destroy() while a getSingleton is between its test and its return. *)
(* Without the contract both properties fail (a delete between the       *)
(* registration in new T and the store at line 42 leaves sInstance       *)
(* dangling), so the hypothesis is needed.                                *)
(*                                                                         *)
(* RegisteredLive is not inductive by itself: the store at line 42 writes *)
(* the value of new T that the thread holds, so the invariant also says   *)
(* that this value is alive (StoreLive), and ReturnsLive that the static  *)
(* read at line 43 is alive.  Both hold because the program's deletions   *)
(* wait for every getSingleton to finish, and the other threads' writes   *)
(* only ever store live instances.                                        *)
(***************************************************************************)
EXTENDS AutoSingleton, TLAPS

(* A thread about to store its new T holds a live instance.               *)
StoreLive == \A t \in Threads : tpc[t] = "store" => mine[t] \in live

(* The inductive invariant.                                                *)
Inv == TypeOK /\ RegisteredLive /\ ReturnsLive /\ StoreLive

LEMMA InitInv == Init => Inv
BY SingletonAssumption DEF Init, Inv, TypeOK, RegisteredLive, ReturnsLive, StoreLive

LEMMA NextInv ==
  ASSUME ~DestroyDuringGet
  PROVE  Inv /\ [Next]_vars => Inv'
<1> SUFFICES ASSUME Inv, [Next]_vars PROVE Inv'
  OBVIOUS
<1> USE DEF Inv, TypeOK, RegisteredLive, ReturnsLive, StoreLive
<1>1. ASSUME NEW t \in Threads, GetTest(t) PROVE Inv'
  BY <1>1 DEF GetTest
<1>2. ASSUME NEW t \in Threads, GetNew(t) PROVE Inv'
  BY <1>2 DEF GetNew, Register
<1>3. ASSUME NEW t \in Threads, GetStore(t) PROVE Inv'
  BY <1>3 DEF GetStore
<1>4. ASSUME NEW t \in Threads, GetReturn(t) PROVE Inv'
  BY <1>4 DEF GetReturn
<1>5. CASE Construct
  BY <1>5 DEF Construct, Register
<1>6. CASE Delete
  <2>1. NoGetInProgress
    BY <1>6 DEF Delete
  <2>2. QED
    BY <1>6, <2>1 DEF Delete, Unregister, NoGetInProgress
<1>7. CASE Destroy
  <2>1. NoGetInProgress
    BY <1>7 DEF Destroy
  <2>2. QED
    BY <1>7, <2>1 DEF Destroy, NoGetInProgress
<1>8. CASE UNCHANGED vars
  BY <1>8 DEF vars
<1> QED
  BY <1>1, <1>2, <1>3, <1>4, <1>5, <1>6, <1>7, <1>8 DEF Next

(* Under the contract, sInstance never dangles: whatever instances of T   *)
(* the program builds and deletes and however getSingleton calls          *)
(* interleave, it is NULL or an instance constructed and not yet deleted, *)
(* so destroy() never deletes a freed instance.                           *)
THEOREM RegistryValid ==
  ASSUME ~DestroyDuringGet
  PROVE  Spec => []RegisteredLive
<1>1. Init => Inv
  BY InitInv
<1>2. Inv /\ [Next]_vars => Inv'
  BY NextInv
<1>3. Inv => RegisteredLive
  BY DEF Inv
<1> QED
  BY <1>1, <1>2, <1>3, PTL DEF Spec

(* Under the contract, the reference getSingleton returns at line 43 is   *)
(* to a live instance, never *NULL, though sInstance is read again after  *)
(* the test and the store and other threads write it in between.          *)
THEOREM ReturnsValid ==
  ASSUME ~DestroyDuringGet
  PROVE  Spec => []ReturnsLive
<1>1. Init => Inv
  BY InitInv
<1>2. Inv /\ [Next]_vars => Inv'
  BY NextInv
<1>3. Inv => ReturnsLive
  BY DEF Inv
<1> QED
  BY <1>1, <1>2, <1>3, PTL DEF Spec

=============================================================================
