---------------------------- MODULE StreamTable ----------------------------
(***************************************************************************)
(* What a socket's callback table promises the streams that share it      *)
(* (spec 3, 4.3): an entry is installed only under an id no entry of that *)
(* table holds, only for a stream whose sends are not cut off and that is *)
(* in no table yet; cutting a stream off removes every entry of it; a    *)
(* failing socket cuts off exactly the streams of its table and empties  *)
(* it.  Nothing uncuts a stream.                                         *)
(***************************************************************************)
CONSTANTS
  Streams,   \* stream objects
  Sockets    \* sockets, each with its own table

VARIABLES
  reg,   \* reg[k]: the entries <<id, stream>> of socket k's table
  cut    \* cut[s]: stream s's sends are cut off

vars == <<reg, cut>>

Init ==
  /\ reg = [k \in Sockets |-> {}]
  /\ cut = [s \in Streams |-> FALSE]

Registered(s) == \E k \in Sockets : \E e \in reg[k] : e[2] = s

(* A fresh stream enters table k under an id no entry there holds.  The   *)
(* id is the one the step adds, so that no set of ids is enumerated.      *)
Install(k, s) ==
  /\ ~cut[s]
  /\ ~Registered(s)
  /\ \E id \in {e[1] : e \in reg'[k]} :
       /\ \A e \in reg[k] : e[1] # id
       /\ reg' = [reg EXCEPT ![k] = @ \cup {<<id, s>>}]
  /\ UNCHANGED cut

(* Stream s is cut off, and no table keeps an entry of it.                 *)
Cut(s) ==
  /\ cut' = [cut EXCEPT ![s] = TRUE]
  /\ reg' = [k \in Sockets |-> {e \in reg[k] : e[2] # s}]

(* Socket k fails: the streams of its table are cut off, the table empty.  *)
Drop(k) ==
  /\ cut' = [s \in Streams |-> cut[s] \/ \E e \in reg[k] : e[2] = s]
  /\ reg' = [reg EXCEPT ![k] = {}]

Next ==
  \/ \E k \in Sockets, s \in Streams : Install(k, s)
  \/ \E s \in Streams : Cut(s)
  \/ \E k \in Sockets : Drop(k)

Spec == Init /\ [][Next]_vars
=============================================================================
