--------------------------- MODULE SubscriptionId ---------------------------
(***************************************************************************)
(* Task::SubscriptionId (Subscription.hpp): the id that EventManager and   *)
(* TimerQueue compare to find a subscription again.  operator== and        *)
(* operator< are modelled as written and checked, over every triple of    *)
(* ids built from small sets, against what an ordered container keyed by   *)
(* the id needs from them.                                                *)
(*                                                                         *)
(* mThisPtr is an address (an integer, 0 for NULL); mClassId is NULL or a  *)
(* char pointer, modelled by its address and the text it points to, so     *)
(* that two literals with the same text at different addresses exist;    *)
(* strings compare in a total order, modelled by integers.                *)
(***************************************************************************)
EXTENDS Integers

CONSTANTS
  ThisPtrs,   \* values of mThisPtr
  ClassLits,  \* values of a non-NULL mClassId: [addr, text] records
  UniqueIds,  \* values of mUniqueId, ordered as std::string compares them
  NULL        \* the NULL mClassId

ASSUME ConstantAssumption ==
  /\ ThisPtrs \subseteq Int
  /\ UniqueIds \subseteq Int
  /\ \A l \in ClassLits : l.addr \in Int /\ l.text \in Int
  \* one address holds one text
  /\ \A l, m \in ClassLits : l.addr = m.addr => l = m
  /\ NULL \notin ClassLits

Id == [ptr : ThisPtrs, cls : ClassLits \cup {NULL}, uid : UniqueIds]

(* operator==: equal pointers, and either both class ids NULL and equal   *)
(* unique ids, or both non-NULL with strcmp-equal texts and equal unique  *)
(* ids.                                                                   *)
Equal(a, b) ==
  /\ a.ptr = b.ptr
  /\ \/ a.cls = NULL /\ b.cls = NULL
     \/ a.cls # NULL /\ b.cls # NULL /\ a.cls.text = b.cls.text
  /\ a.uid = b.uid

(* operator<: by pointer first; for the same pointer a NULL class id is   *)
(* less than a non-NULL one, two NULL class ids are never less, and two   *)
(* non-NULL ones compare by strcmp and then by unique id.                 *)
(* Mutant: the unique ids compared with <= instead of <.                   *)
LessLeq(a, b) ==
  IF a.ptr = b.ptr
    THEN \/ a.cls = NULL /\ b.cls # NULL
         \/ /\ a.cls # NULL /\ b.cls # NULL
            /\ \/ a.cls.text < b.cls.text
               \/ a.cls.text = b.cls.text /\ a.uid <= b.uid
    ELSE a.ptr < b.ptr

(* Mutant: the class ids compared by address instead of with strcmp.     *)
LessByAddress(a, b) ==
  IF a.ptr = b.ptr
    THEN \/ a.cls = NULL /\ b.cls # NULL
         \/ /\ a.cls # NULL /\ b.cls # NULL
            /\ \/ a.cls.addr < b.cls.addr
               \/ a.cls.addr = b.cls.addr /\ a.uid < b.uid
    ELSE a.ptr < b.ptr

Less(a, b) ==
  IF a.ptr = b.ptr
    THEN \/ a.cls = NULL /\ b.cls # NULL
         \/ /\ a.cls # NULL /\ b.cls # NULL
            /\ \/ a.cls.text < b.cls.text
               \/ a.cls.text = b.cls.text /\ a.uid < b.uid
    ELSE a.ptr < b.ptr

(* SubscriptionId::null().                                                 *)
NullId == [ptr |-> 0, cls |-> NULL, uid |-> 0]

VARIABLES x, y, z   \* three ids being compared

vars == <<x, y, z>>

Init == x \in Id /\ y \in Id /\ z \in Id

(* Replace one of the three ids by another.                                *)
PickX == \E i \in Id : x' = i /\ UNCHANGED <<y, z>>
PickY == \E i \in Id : y' = i /\ UNCHANGED <<x, z>>
PickZ == \E i \in Id : z' = i /\ UNCHANGED <<x, y>>

Next == PickX \/ PickY \/ PickZ

Spec == Init /\ [][Next]_vars

-----------------------------------------------------------------------------
TypeOK == x \in Id /\ y \in Id /\ z \in Id

Incomparable(a, b) == ~Less(a, b) /\ ~Less(b, a)

(* operator< is a strict weak ordering, as std::map and std::set keyed by *)
(* SubscriptionId require: irreflexive, transitive, and with incomparable *)
(* ids forming an equivalence (transitive incomparability).              *)
StrictWeakOrder ==
  /\ ~Less(x, x)
  /\ Less(x, y) /\ Less(y, z) => Less(x, z)
  /\ Incomparable(x, y) /\ Incomparable(y, z) => Incomparable(x, z)

(* operator== and operator< agree: two ids are equal exactly when neither *)
(* is less than the other, so a search by == and a search in an ordered   *)
(* container find the same subscription.                                  *)
OrderMatchesEquality ==
  Equal(x, y) <=> Incomparable(x, y)

(* Half of that agreement does hold: ids equal by operator== are never    *)
(* ordered by operator<, so a subscription found with == sits under the  *)
(* same key of an ordered container, even when its class-name literal is *)
(* another copy of the same text.                                         *)
EqualNotOrdered == Equal(x, y) => Incomparable(x, y)

=============================================================================
