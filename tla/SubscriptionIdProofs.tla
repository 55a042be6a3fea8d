------------------------- MODULE SubscriptionIdProofs -------------------------
(***************************************************************************)
(* Proof that SubscriptionId::operator< is a strict weak ordering for     *)
(* every set of this-pointers, class-name literals and unique ids, not    *)
(* only the ones the run enumerates.  The argument is a case split on     *)
(* which fields decide each comparison: the pointers, then NULL against  *)
(* non-NULL class ids, then strcmp, then the unique ids.                 *)
(***************************************************************************)
EXTENDS SubscriptionId, TLAPS

(* Every field of an id is an integer or the NULL class id.                *)
LEMMA IdFields ==
  ASSUME NEW a \in Id
  PROVE  /\ a.ptr \in Int /\ a.uid \in Int
         /\ a.cls = NULL \/ (a.cls \in ClassLits /\ a.cls # NULL /\ a.cls.text \in Int)
  BY ConstantAssumption DEF Id

(* operator< never holds between an id and itself.                         *)
LEMMA LessIrreflexive ==
  ASSUME NEW a \in Id
  PROVE  ~Less(a, a)
  BY IdFields DEF Less

(* operator< is transitive.                                                *)
LEMMA LessTransitive ==
  ASSUME NEW a \in Id, NEW b \in Id, NEW c \in Id,
         Less(a, b), Less(b, c)
  PROVE  Less(a, c)
  <1> USE IdFields
  <1>1. CASE a.ptr = b.ptr /\ b.ptr = c.ptr
    BY <1>1 DEF Less
  <1>2. CASE a.ptr # b.ptr \/ b.ptr # c.ptr
    <2>1. a.ptr <= b.ptr /\ b.ptr <= c.ptr
      BY DEF Less
    <2>2. a.ptr < c.ptr
      BY <1>2, <2>1 DEF Less
    <2>3. QED
      BY <2>2 DEF Less
  <1>3. QED
    BY <1>1, <1>2

(* Two ids neither of which is less than the other agree on the pointer,  *)
(* on whether the class id is NULL, and, when it is not, on its text and  *)
(* unique id.                                                              *)
LEMMA IncomparableFields ==
  ASSUME NEW a \in Id, NEW b \in Id, Incomparable(a, b)
  PROVE  /\ a.ptr = b.ptr
         /\ a.cls = NULL <=> b.cls = NULL
         /\ a.cls # NULL => a.cls.text = b.cls.text /\ a.uid = b.uid
  BY IdFields DEF Incomparable, Less

(* Incomparability is transitive: the ids operator< cannot tell apart     *)
(* form classes.                                                           *)
LEMMA IncomparableTransitive ==
  ASSUME NEW a \in Id, NEW b \in Id, NEW c \in Id,
         Incomparable(a, b), Incomparable(b, c)
  PROVE  Incomparable(a, c)
  <1>1. /\ a.ptr = c.ptr
        /\ a.cls = NULL <=> c.cls = NULL
        /\ a.cls # NULL => a.cls.text = c.cls.text /\ a.uid = c.uid
    BY IncomparableFields
  <1>2. QED
    BY <1>1, IdFields DEF Incomparable, Less

(* The three ids stay ids.                                                 *)
LEMMA TypeInvariance == Spec => []TypeOK
<1>1. Init => TypeOK
  BY DEF Init, TypeOK
<1>2. TypeOK /\ [Next]_vars => TypeOK'
  BY DEF TypeOK, Next, PickX, PickY, PickZ, vars
<1>3. QED
  BY <1>1, <1>2, PTL DEF Spec

(* std::map and std::set keyed by SubscriptionId (EventManager,           *)
(* TimerQueue) get the strict weak ordering they require from operator<, *)
(* for every choice of ids.                                                *)
THEOREM OrderIsStrictWeak == Spec => []StrictWeakOrder
<1>1. TypeOK => StrictWeakOrder
  BY LessIrreflexive, LessTransitive, IncomparableTransitive
  DEF TypeOK, StrictWeakOrder
<1>2. QED
  BY <1>1, TypeInvariance, PTL

(* Two ids operator== calls equal agree on every field operator< reads:   *)
(* the pointer, whether the class id is NULL, its text and the unique id. *)
LEMMA EqualIncomparable ==
  ASSUME NEW a \in Id, NEW b \in Id, Equal(a, b)
  PROVE  Incomparable(a, b)
  BY IdFields DEF Equal, Incomparable, Less

(* A subscription found with operator== (as the code compares two         *)
(* SubscriptionIds) is never ordered against the key it is found under,  *)
(* for every choice of ids, also when two copies of a class-name literal *)
(* sit at different addresses.                                            *)
THEOREM EqualIdsSameKey == Spec => []EqualNotOrdered
<1>1. TypeOK => EqualNotOrdered
  BY EqualIncomparable DEF TypeOK, EqualNotOrdered
<1>2. QED
  BY <1>1, TypeInvariance, PTL
=============================================================================
