------------------------- MODULE TCPStreamLifeProofs -------------------------
(***************************************************************************)
(* Proofs about TCPStreamLife for every set of streams and sockets and     *)
(* every bound: stream ids stay unique on each socket when the socket's   *)
(* own counter does not start at the id connect() hard-codes, and the     *)
(* callbacks still installed for a stream never share a closed word when  *)
(* no stream is connected twice.                                           *)
(***************************************************************************)
EXTENDS TCPStreamLife, TLAPS

(* Where a stream's id can come from: connect()'s 1, the socket's counter *)
(* (odd, from FirstId, below the next one), or the peer's (even, below    *)
(* the peer's next one); a socket with streams has been constructed.      *)
IdOrigin ==
  \A s \in Streams : sock[s] # NULL =>
    /\ sstate[sock[s]] # "unused"
    /\ \/ sid[s] = 1
       \/ sid[s] % 2 = 1 /\ FirstId <= sid[s] /\ sid[s] < nextId[sock[s]]
       \/ sid[s] % 2 = 0 /\ sid[s] < peerNext[sock[s]]

(* The counters keep their parity.                                         *)
Counters ==
  \A k \in Sockets :
    /\ nextId[k] % 2 = 1 /\ FirstId <= nextId[k]
    /\ peerNext[k] % 2 = 0

IdInv == TypeOK /\ Counters /\ IdOrigin /\ IdsUnique

(* Every installed entry is the one of its stream: on the stream's socket, *)
(* under its id, of a stream open or failed; a fresh stream's word is not *)
(* closing, and a socket never constructed has no entries.                 *)
EntryOwned ==
  \A k \in Sockets : \A e \in entries[k] :
    /\ sock[e[2]] = k
    /\ e[1] = sid[e[2]]
    /\ pc[e[2]] \in {"open", "failed"}

FreshOpen ==
  /\ \A s \in Streams : pc[s] \in {"unborn", "new"} => ~closing[s]
  /\ \A k \in Sockets : sstate[k] = "unused" => entries[k] = {}
  /\ \A s \in Streams : sock[s] # NULL => sstate[sock[s]] # "unused"

LiveInv == TypeOK /\ EntryOwned /\ FreshOpen /\ LiveNotClosing

(* Every step keeps the variables in their types.                          *)
LEMMA TypeStep == TypeOK /\ [Next]_vars => TypeOK'
<1> SUFFICES ASSUME TypeOK, [Next]_vars PROVE TypeOK'
  OBVIOUS
<1> USE LifeAssumption
<1>1. ASSUME NEW s \in Streams, NewStream(s) PROVE TypeOK'
  BY <1>1 DEF NewStream, Born, TypeOK, sockVars
<1>2. ASSUME NEW s \in Streams, Close(s) PROVE TypeOK'
  <2>1. sock[s] \in Sockets
    BY <1>2 DEF Close, TypeOK
  <2>2. entries'[sock[s]] \subseteq entries[sock[s]]
    BY <1>2, <2>1 DEF Close, TypeOK
  <2>3. entries' = [entries EXCEPT ![sock[s]] = entries'[sock[s]]]
    BY <1>2, <2>1 DEF Close, TypeOK
  <2>4. QED
    BY <1>2, <2>1, <2>2, <2>3 DEF Close, TypeOK
<1>3. ASSUME NEW s \in Streams, NEW o \in Streams, Factory(s, o) PROVE TypeOK'
  BY <1>3 DEF Factory, Born, TypeOK, sockVars
<1>4. ASSUME NEW s \in Streams, NEW o \in Streams, CloneFrom(s, o) PROVE TypeOK'
  <2> DEFINE k == sock[o]
  <2>1. k \in Sockets
    BY <1>4 DEF CloneFrom, TypeOK
  <2>2. /\ nextId' = [nextId EXCEPT ![k] = @ + 2]
        /\ sock' = [sock EXCEPT ![s] = k]
        /\ sid' = [sid EXCEPT ![s] = nextId[k]]
        /\ entries' \in {entries,
                          [entries EXCEPT ![k] = @ \cup {<<nextId[k], s>>}]}
        /\ pc' \in {[pc EXCEPT ![s] = "open"], [pc EXCEPT ![s] = "failed"]}
        /\ UNCHANGED <<hasIO, closing, sstate, peerNext>>
    BY <1>4 DEF CloneFrom, NewId, CloneWord
  <2>3. QED
    BY <2>1, <2>2 DEF TypeOK
<1>5. ASSUME NEW s \in Streams, NEW k \in Sockets, Connect(s, k) PROVE TypeOK'
  BY <1>5 DEF Connect, TypeOK
<1>6. ASSUME NEW s \in Streams, NEW k \in Sockets, PeerOpen(s, k) PROVE TypeOK'
  BY <1>6 DEF PeerOpen, TypeOK
<1>7. ASSUME NEW k \in Sockets, SocketUp(k) PROVE TypeOK'
  BY <1>7 DEF SocketUp, TypeOK, streamVars
<1>8. ASSUME NEW k \in Sockets, PeerClose(k) PROVE TypeOK'
  BY <1>8 DEF PeerClose, TypeOK
<1>9. ASSUME NEW k \in Sockets, SocketFail(k) PROVE TypeOK'
  BY <1>9 DEF SocketFail, TypeOK
<1>10. CASE UNCHANGED vars
  BY <1>10 DEF vars, TypeOK
<1>11. QED
  BY <1>1, <1>2, <1>3, <1>4, <1>5, <1>6, <1>7, <1>8, <1>9, <1>10 DEF Next

(* A counter that starts odd past 1 is at least 3.                         *)
LEMMA FirstIdFact == FirstId # 1 => FirstId \in Nat /\ 3 <= FirstId /\ FirstId % 2 = 1
  BY LifeAssumption

(* The initial state: no stream holds a socket, the counters start at     *)
(* FirstId and 2.                                                          *)
LEMMA IdInit == FirstId # 1 /\ Init => IdInv
<1> SUFFICES ASSUME FirstId # 1, Init PROVE IdInv
  OBVIOUS
<1>1. TypeOK
  BY LifeAssumption DEF Init, TypeOK
<1>2. Counters
  BY FirstIdFact DEF Init, Counters
<1>3. IdOrigin /\ IdsUnique
  BY DEF Init, IdOrigin, IdsUnique
<1>4. QED
  BY <1>1, <1>2, <1>3 DEF IdInv

(* Every step keeps the ids on a socket apart: connect() takes a socket   *)
(* no stream is on, a clone the counter's next odd id (above every id it  *)
(* gave and not 1), the peer's stream its next even id.                    *)
LEMMA IdStep == FirstId # 1 /\ IdInv /\ [Next]_vars => IdInv'
<1> SUFFICES ASSUME FirstId # 1, IdInv, [Next]_vars PROVE IdInv'
  OBVIOUS
<1> USE LifeAssumption, FirstIdFact
<1>0. TypeOK'
  BY TypeStep DEF IdInv
<1> USE DEF IdInv, TypeOK
<1>1. ASSUME NEW s \in Streams, NewStream(s) PROVE IdInv'
  BY <1>0, <1>1 DEF NewStream, Born, sockVars, Counters, IdOrigin, IdsUnique
<1>2. ASSUME NEW s \in Streams, Close(s) PROVE IdInv'
  BY <1>0, <1>2 DEF Close, Counters, IdOrigin, IdsUnique
<1>3. ASSUME NEW s \in Streams, NEW o \in Streams, Factory(s, o) PROVE IdInv'
  BY <1>0, <1>3 DEF Factory, Born, sockVars, Counters, IdOrigin, IdsUnique
<1>4. ASSUME NEW s \in Streams, NEW o \in Streams, CloneFrom(s, o) PROVE IdInv'
  <2> DEFINE k == sock[o]
  <2>1. k \in Sockets
    BY <1>4 DEF CloneFrom
  <2>2. /\ nextId' = [nextId EXCEPT ![k] = @ + 2]
        /\ sock' = [sock EXCEPT ![s] = k]
        /\ sid' = [sid EXCEPT ![s] = nextId[k]]
        /\ UNCHANGED <<sstate, peerNext>>
    BY <1>4 DEF CloneFrom, NewId
  <2>3. Counters'
    BY <2>1, <2>2 DEF Counters
  <2>4. sstate[k] # "unused"
    BY <1>4, <2>1 DEF CloneFrom, IdOrigin
  <2>5. \A t \in Streams : t # s /\ sock[t] = k => sid[t] # nextId[k]
    BY <2>1, <1>4 DEF Counters, IdOrigin
  <2>6. IdOrigin'
    BY <2>1, <2>2, <2>4 DEF Counters, IdOrigin
  <2>7. IdsUnique'
    BY <2>1, <2>2, <2>5 DEF IdsUnique
  <2>8. QED
    BY <1>0, <2>3, <2>6, <2>7
<1>5. ASSUME NEW s \in Streams, NEW k \in Sockets, Connect(s, k) PROVE IdInv'
  <2>1. \A t \in Streams : sock[t] # k
    BY <1>5 DEF Connect, IdOrigin
  <2>2. QED
    BY <1>0, <1>5, <2>1 DEF Connect, Counters, IdOrigin, IdsUnique
<1>6. ASSUME NEW s \in Streams, NEW k \in Sockets, PeerOpen(s, k) PROVE IdInv'
  <2>1. \A t \in Streams : t # s /\ sock[t] = k => sid[t] # peerNext[k]
    BY <1>6 DEF PeerOpen, Counters, IdOrigin
  <2>2. /\ peerNext' = [peerNext EXCEPT ![k] = @ + 2]
        /\ sock' = [sock EXCEPT ![s] = k]
        /\ sid' = [sid EXCEPT ![s] = peerNext[k]]
        /\ UNCHANGED <<sstate, nextId>>
        /\ sstate[k] = "connected"
    BY <1>6 DEF PeerOpen
  <2>3. Counters'
    <3>1. peerNext[k] \in Nat /\ peerNext[k] % 2 = 0
      BY DEF Counters
    <3>2. QED
      BY <2>2, <3>1 DEF Counters
  <2>4. IdOrigin'
    BY <2>2 DEF Counters, IdOrigin
  <2>5. IdsUnique'
    BY <2>1, <2>2 DEF IdsUnique
  <2>6. QED
    BY <1>0, <2>3, <2>4, <2>5
<1>7. ASSUME NEW k \in Sockets, SocketUp(k) PROVE IdInv'
  BY <1>0, <1>7 DEF SocketUp, streamVars, Counters, IdOrigin, IdsUnique
<1>8. ASSUME NEW k \in Sockets, PeerClose(k) PROVE IdInv'
  BY <1>0, <1>8 DEF PeerClose, Counters, IdOrigin, IdsUnique
<1>9. ASSUME NEW k \in Sockets, SocketFail(k) PROVE IdInv'
  BY <1>0, <1>9 DEF SocketFail, Counters, IdOrigin, IdsUnique
<1>10. CASE UNCHANGED vars
  BY <1>10 DEF vars, Counters, IdOrigin, IdsUnique
<1>11. QED
  BY <1>1, <1>2, <1>3, <1>4, <1>5, <1>6, <1>7, <1>8, <1>9, <1>10 DEF Next

(* When the socket's own counter does not start at 1, no two stream       *)
(* objects on one socket ever hold the same id, for any number of streams *)
(* and sockets, any bound, and whether or not streams are connected twice.*)
THEOREM IdsDistinct == FirstId # 1 => (Spec => []IdsUnique)
<1> SUFFICES ASSUME FirstId # 1 PROVE Spec => []IdsUnique
  OBVIOUS
<1>1. Init => IdInv
  BY IdInit
<1>2. IdInv /\ [Next]_vars => IdInv'
  BY IdStep
<1>3. IdInv => IdsUnique
  BY DEF IdInv
<1>4. QED
  BY <1>1, <1>2, <1>3, PTL DEF Spec

LEMMA LiveInit == Init => LiveInv
<1> SUFFICES ASSUME Init PROVE LiveInv
  OBVIOUS
<1>1. TypeOK
  BY LifeAssumption DEF Init, TypeOK
<1>2. \A k \in Sockets : entries[k] = {}
  BY DEF Init
<1>3. EntryOwned /\ LiveNotClosing
  BY <1>2 DEF EntryOwned, LiveNotClosing
<1>4. FreshOpen
  BY <1>2 DEF Init, FreshOpen
<1>5. QED
  BY <1>1, <1>3, <1>4 DEF LiveInv

(* Every step keeps each installed entry its own stream's, and that       *)
(* stream's word open: close() removes the entry under its own id before  *)
(* it is done, a peer's CLOSE_STREAM and a failure close exactly the      *)
(* words of the entries they remove, and new entries are of fresh streams.*)
LEMMA LiveStep == ~Reuse /\ LiveInv /\ [Next]_vars => LiveInv'
<1> SUFFICES ASSUME ~Reuse, LiveInv, [Next]_vars PROVE LiveInv'
  OBVIOUS
<1> USE LifeAssumption
<1>0. TypeOK'
  BY TypeStep DEF LiveInv
<1> USE DEF LiveInv, TypeOK
<1>1. ASSUME NEW s \in Streams, NewStream(s) PROVE LiveInv'
  BY <1>0, <1>1 DEF NewStream, Born, sockVars, EntryOwned, FreshOpen,
                    LiveNotClosing
<1>2. ASSUME NEW s \in Streams, Close(s) PROVE LiveInv'
  <2>1. \A k \in Sockets : \A e \in entries'[k] : e \in entries[k] /\ e[2] # s
    BY <1>2 DEF Close, EntryOwned
  <2>2. QED
    BY <1>0, <1>2, <2>1 DEF Close, EntryOwned, FreshOpen, LiveNotClosing
<1>3. ASSUME NEW s \in Streams, NEW o \in Streams, Factory(s, o) PROVE LiveInv'
  BY <1>0, <1>3 DEF Factory, Born, sockVars, EntryOwned, FreshOpen,
                    LiveNotClosing
<1>4. ASSUME NEW s \in Streams, NEW o \in Streams, CloneFrom(s, o) PROVE LiveInv'
  <2> DEFINE k == sock[o]
  <2>1. k \in Sockets /\ pc[s] = "new" /\ ~closing[s] /\ sstate[k] # "unused"
    BY <1>4 DEF CloneFrom, FreshOpen
  <2>2. \A j \in Sockets : \A e \in entries[j] : e[2] # s
    BY <2>1 DEF EntryOwned
  <2>3. /\ sock' = [sock EXCEPT ![s] = k]
        /\ sid' = [sid EXCEPT ![s] = nextId[k]]
        /\ entries' \in {entries,
                         [entries EXCEPT ![k] = @ \cup {<<nextId[k], s>>}]}
        /\ pc' \in {[pc EXCEPT ![s] = "open"], [pc EXCEPT ![s] = "failed"]}
        /\ UNCHANGED <<closing, sstate>>
    BY <1>4 DEF CloneFrom, NewId, CloneWord
  <2>4. EntryOwned'
    BY <2>1, <2>2, <2>3 DEF EntryOwned
  <2>5. FreshOpen'
    BY <2>1, <2>3 DEF FreshOpen
  <2>6. LiveNotClosing'
    BY <2>1, <2>3 DEF LiveNotClosing
  <2>7. QED
    BY <1>0, <2>4, <2>5, <2>6
<1>5. ASSUME NEW s \in Streams, NEW k \in Sockets, Connect(s, k) PROVE LiveInv'
  <2>1. pc[s] = "new" /\ entries[k] = {}
    BY <1>5 DEF Connect, FreshOpen
  <2>2. \A j \in Sockets : \A e \in entries[j] : e[2] # s
    BY <2>1 DEF EntryOwned
  <2>3. QED
    BY <1>0, <1>5, <2>1, <2>2 DEF Connect, EntryOwned, FreshOpen,
                                  LiveNotClosing
<1>6. ASSUME NEW s \in Streams, NEW k \in Sockets, PeerOpen(s, k) PROVE LiveInv'
  <2>1. \A j \in Sockets : \A e \in entries[j] : e[2] # s
    BY <1>6 DEF PeerOpen, EntryOwned
  <2>2. ~closing[s]
    BY <1>6 DEF PeerOpen, FreshOpen
  <2>3. QED
    BY <1>0, <1>6, <2>1, <2>2 DEF PeerOpen, EntryOwned, FreshOpen,
                                  LiveNotClosing
<1>7. ASSUME NEW k \in Sockets, SocketUp(k) PROVE LiveInv'
  BY <1>0, <1>7 DEF SocketUp, streamVars, EntryOwned, FreshOpen,
                    LiveNotClosing
<1>8. ASSUME NEW k \in Sockets, PeerClose(k) PROVE LiveInv'
  <2>1. PICK e \in entries[k] :
          /\ closing' = [closing EXCEPT ![e[2]] = TRUE]
          /\ entries' = [entries EXCEPT ![k] = @ \ {e}]
    BY <1>8 DEF PeerClose
  <2>2. \A j \in Sockets : \A f \in entries'[j] : f[2] # e[2]
    BY <2>1 DEF EntryOwned
  <2>3. pc[e[2]] \in {"open", "failed"}
    BY <2>1 DEF EntryOwned
  <2>4. QED
    BY <1>0, <1>8, <2>1, <2>2, <2>3 DEF PeerClose, EntryOwned, FreshOpen,
                                        LiveNotClosing
<1>9. ASSUME NEW k \in Sockets, SocketFail(k) PROVE LiveInv'
  <2>1. \A j \in Sockets \ {k} : \A f \in entries[j] :
          ~\E e \in entries[k] : e[2] = f[2]
    BY DEF EntryOwned
  <2>2. \A e \in entries[k] : pc[e[2]] \in {"open", "failed"}
    BY DEF EntryOwned
  <2>3. QED
    BY <1>0, <1>9, <2>1, <2>2 DEF SocketFail, EntryOwned, FreshOpen,
                                  LiveNotClosing
<1>10. CASE UNCHANGED vars
  BY <1>10 DEF vars, EntryOwned, FreshOpen, LiveNotClosing
<1>11. QED
  BY <1>1, <1>2, <1>3, <1>4, <1>5, <1>6, <1>7, <1>8, <1>9, <1>10 DEF Next

(* When no stream object is connected a second time, a stream whose       *)
(* callbacks are installed in a socket never has its closing field set,   *)
(* for any number of streams and sockets: close(), a peer's CLOSE_STREAM  *)
(* and a connection failure only close words whose entries they remove.   *)
THEOREM InstalledNotClosing == ~Reuse => (Spec => []LiveNotClosing)
<1> SUFFICES ASSUME ~Reuse PROVE Spec => []LiveNotClosing
  OBVIOUS
<1>1. Init => LiveInv
  BY LiveInit
<1>2. LiveInv /\ [Next]_vars => LiveInv'
  BY LiveStep
<1>3. LiveInv => LiveNotClosing
  BY DEF LiveInv
<1>4. QED
  BY <1>1, <1>2, <1>3, PTL DEF Spec

-----------------------------------------------------------------------------
(* The refinement of StreamTable rests on both invariants.                 *)
RefInv == IdInv /\ LiveInv

(* An entry of socket k is the pair of its stream's id and the stream, and *)
(* no other stream on k holds its id: the entry addCallbacks(getID(),     *)
(* NULL) deletes is the closing stream's own.                              *)
LEMMA EntryIsOwn ==
  ASSUME RefInv, NEW k \in Sockets, NEW e \in entries[k]
  PROVE  /\ e = <<e[1], e[2]>> /\ e[2] \in Streams /\ e[1] \in Nat
         /\ sock[e[2]] = k /\ e[1] = sid[e[2]]
         /\ \A t \in Streams : sock[t] = k /\ sid[t] = e[1] => t = e[2]
<1>1. e \in Nat \X Streams
  BY DEF RefInv, LiveInv, TypeOK
<1>2. sock[e[2]] = k /\ e[1] = sid[e[2]]
  BY DEF RefInv, LiveInv, EntryOwned
<1>3. k # NULL
  BY LifeAssumption
<1>4. \A t \in Streams : sock[t] = k /\ sid[t] = e[1] => t = e[2]
  BY <1>1, <1>2, <1>3 DEF RefInv, IdInv, IdsUnique
<1>5. QED
  BY <1>1, <1>2, <1>4

(* The id of a pair in a set is among the set's ids.                       *)
LEMMA PairId ==
  ASSUME NEW S, NEW x, NEW y, <<x, y>> \in S
  PROVE  x \in {e[1] : e \in S}
<1>1. <<x, y>>[1] = x
  OBVIOUS
<1>2. QED
  BY <1>1, Zenon

(* Every step of the life cycle is a step of StreamTable or leaves the    *)
(* tables and the closing fields alone.                                    *)
LEMMA TableStep ==
  FirstId # 1 /\ ~Reuse /\ RefInv /\ [Next]_vars => [Table!Next]_Table!vars
<1> SUFFICES ASSUME FirstId # 1, ~Reuse, RefInv, [Next]_vars
             PROVE  [Table!Next]_Table!vars
  OBVIOUS
<1> USE LifeAssumption, FirstIdFact
<1>0. TypeOK
  BY DEF RefInv, IdInv
<1> USE <1>0 DEF TypeOK
<1>A. ASSUME NEW s \in Streams, pc[s] \in {"unborn", "new"}
      PROVE  ~closing[s] /\ ~Table!Registered(s)
  <2>1. ~closing[s]
    BY <1>A DEF RefInv, LiveInv, FreshOpen
  <2>2. \A k \in Sockets : \A e \in entries[k] : e[2] # s
    BY <1>A DEF RefInv, LiveInv, EntryOwned
  <2>3. QED
    BY <2>1, <2>2 DEF Table!Registered
<1>1. ASSUME NEW s \in Streams, NewStream(s) PROVE UNCHANGED Table!vars
  BY <1>1 DEF NewStream, Born, sockVars, Table!vars
<1>2. ASSUME NEW s \in Streams, NEW o \in Streams, Factory(s, o)
      PROVE  UNCHANGED Table!vars
  BY <1>2 DEF Factory, Born, sockVars, Table!vars
<1>3. ASSUME NEW k \in Sockets, SocketUp(k) PROVE UNCHANGED Table!vars
  BY <1>3 DEF SocketUp, streamVars, Table!vars
<1>4. ASSUME NEW s \in Streams, NEW o \in Streams, CloneFrom(s, o)
      PROVE  [Table!Next]_Table!vars
  <2> DEFINE k == sock[o]
             id == nextId[k]
  <2>1. k \in Sockets /\ pc[s] = "new"
    BY <1>4 DEF CloneFrom
  <2>2. /\ entries' \in {entries, [entries EXCEPT ![k] = @ \cup {<<id, s>>}]}
        /\ closing' = closing
    BY <1>4 DEF CloneFrom, NewId, CloneWord
  <2>3. CASE entries' = entries
    BY <2>2, <2>3 DEF Table!vars
  <2>4. CASE entries' = [entries EXCEPT ![k] = @ \cup {<<id, s>>}]
    <3>1. id \in Nat /\ id % 2 = 1 /\ 3 <= id
      BY <2>1 DEF RefInv, IdInv, Counters
    <3>2. \A e \in entries[k] : e[1] # id
      <4> SUFFICES ASSUME NEW e \in entries[k], e[1] = id PROVE FALSE
        OBVIOUS
      <4>1. sock[e[2]] = k /\ e[1] = sid[e[2]] /\ e[2] \in Streams
        BY <2>1, EntryIsOwn
      <4>2. \/ sid[e[2]] = 1
            \/ sid[e[2]] % 2 = 1 /\ sid[e[2]] < nextId[k]
            \/ sid[e[2]] % 2 = 0
        BY <2>1, <4>1 DEF RefInv, IdInv, IdOrigin
      <4>3. QED
        BY <3>1, <4>1, <4>2
    <3>3. id \in {e[1] : e \in entries'[k]}
      <4>1. <<id, s>> \in entries'[k]
        BY <2>1, <2>4
      <4>2. QED
        BY <4>1, PairId
    <3>4. ~closing[s] /\ ~Table!Registered(s)
      BY <1>A, <2>1
    <3>5. Table!Install(k, s)
      BY <2>1, <2>2, <2>4, <3>2, <3>3, <3>4 DEF Table!Install
    <3>6. QED
      BY <2>1, <3>5 DEF Table!Next
  <2>5. QED
    BY <2>2, <2>3, <2>4
<1>5. ASSUME NEW s \in Streams, NEW k \in Sockets, Connect(s, k)
      PROVE  Table!Install(k, s)
  <2>1. pc[s] = "new" /\ sstate[k] = "unused"
    BY <1>5 DEF Connect
  <2>2. entries[k] = {}
    BY <2>1 DEF RefInv, LiveInv, FreshOpen
  <2>3. ~closing[s] /\ ~Table!Registered(s)
    BY <1>A, <2>1
  <2>4. closing' = closing
    BY <1>5, <2>3 DEF Connect
  <2>5. entries' = [entries EXCEPT ![k] = @ \cup {<<1, s>>}]
    BY <1>5, <2>2 DEF Connect
  <2>6. 1 \in {e[1] : e \in entries'[k]}
    <3>1. <<1, s>> \in entries'[k]
      BY <2>5
    <3>2. QED
      BY <3>1, PairId
  <2>7. QED
    BY <2>2, <2>3, <2>4, <2>5, <2>6 DEF Table!Install
<1>6. ASSUME NEW s \in Streams, NEW k \in Sockets, PeerOpen(s, k)
      PROVE  Table!Install(k, s)
  <2> DEFINE id == peerNext[k]
  <2>1. pc[s] = "unborn"
    BY <1>6 DEF PeerOpen
  <2>2. id \in Nat /\ id % 2 = 0
    BY DEF RefInv, IdInv, Counters
  <2>3. \A e \in entries[k] : e[1] # id
    <3> SUFFICES ASSUME NEW e \in entries[k], e[1] = id PROVE FALSE
      OBVIOUS
    <3>1. sock[e[2]] = k /\ e[1] = sid[e[2]] /\ e[2] \in Streams
      BY EntryIsOwn
    <3>2. \/ sid[e[2]] = 1
          \/ sid[e[2]] % 2 = 1
          \/ sid[e[2]] % 2 = 0 /\ sid[e[2]] < id
      BY <3>1 DEF RefInv, IdInv, IdOrigin
    <3>3. QED
      BY <2>2, <3>1, <3>2
  <2>4. ~closing[s] /\ ~Table!Registered(s)
    BY <1>A, <2>1
  <2>5. /\ entries' = [entries EXCEPT ![k] = @ \cup {<<id, s>>}]
        /\ closing' = closing
    BY <1>6 DEF PeerOpen
  <2>6. id \in {e[1] : e \in entries'[k]}
    <3>1. <<id, s>> \in entries'[k]
      BY <2>5
    <3>2. QED
      BY <3>1, PairId
  <2>7. QED
    BY <2>3, <2>4, <2>5, <2>6 DEF Table!Install
<1>7. ASSUME NEW s \in Streams, Close(s) PROVE Table!Cut(s)
  <2> DEFINE k == sock[s]
  <2>1. k \in Sockets
    BY <1>7 DEF Close
  <2>2. \A j \in Sockets : \A e \in entries[j] : e[2] = s <=> j = k /\ e[1] = sid[s]
    BY <2>1, EntryIsOwn
  <2>3. entries' = [j \in Sockets |-> {e \in entries[j] : e[2] # s}]
    BY <1>7, <2>1, <2>2 DEF Close
  <2>4. QED
    BY <1>7, <2>3 DEF Close, Table!Cut
<1>8. ASSUME NEW k \in Sockets, PeerClose(k) PROVE [Table!Next]_Table!vars
  <2>1. PICK e \in entries[k] :
          /\ closing' = [closing EXCEPT ![e[2]] = TRUE]
          /\ entries' = [entries EXCEPT ![k] = @ \ {e}]
    BY <1>8 DEF PeerClose
  <2>2. e[2] \in Streams
    BY EntryIsOwn
  <2>3. \A j \in Sockets : \A f \in entries[j] : f[2] = e[2] <=> j = k /\ f = e
    BY EntryIsOwn
  <2>4. entries' = [j \in Sockets |-> {f \in entries[j] : f[2] # e[2]}]
    BY <2>1, <2>3
  <2>5. Table!Cut(e[2])
    BY <2>1, <2>4 DEF Table!Cut
  <2>6. QED
    BY <2>2, <2>5 DEF Table!Next
<1>9. ASSUME NEW k \in Sockets, SocketFail(k) PROVE Table!Drop(k)
  BY <1>9 DEF SocketFail, Table!Drop
<1>10. CASE UNCHANGED vars
  BY <1>10 DEF vars, Table!vars
<1>11. QED
  BY <1>1, <1>2, <1>3, <1>4, <1>5, <1>6, <1>7, <1>8, <1>9, <1>10
  DEF Next, Table!Next

(* When the socket's own counter does not start at 1 and no stream object *)
(* is connected a second time, the callback tables and the closing fields *)
(* of any number of streams on any number of sockets behave as the         *)
(* abstract StreamTable: ids in a table never collide, a stream is entered *)
(* once and only while its sends are not cut off, and close() removes its  *)
(* own entry and no other.                                                 *)
THEOREM TableRefinement == FirstId # 1 /\ ~Reuse => (Spec => ImplementsStreamTable)
<1> SUFFICES ASSUME FirstId # 1, ~Reuse PROVE Spec => ImplementsStreamTable
  OBVIOUS
<1>1. Init => Table!Init
  BY DEF Init, Table!Init
<1>2. Spec => []RefInv
  BY IdInit, IdStep, LiveInit, LiveStep, PTL DEF Spec, RefInv
<1>3. RefInv /\ [Next]_vars => [Table!Next]_Table!vars
  BY TableStep
<1>4. QED
  BY <1>1, <1>2, <1>3, PTL DEF Spec, ImplementsStreamTable, Table!Spec

=============================================================================
