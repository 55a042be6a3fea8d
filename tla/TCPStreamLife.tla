---------------------------- MODULE TCPStreamLife ----------------------------
(***************************************************************************)
(* The life of TCPStream objects (TCPStream.cpp) on the MultiplexedSocket  *)
(* they share: construction from an IOService or by the socket for a      *)
(* peer's NEW_STREAM, factory(), connect(), cloneFrom() and close(), with  *)
(* the socket's side of each call (construct, getNewID, addCallbacks, the  *)
(* peer's CLOSE_STREAM, connection failure).  MultiplexedSocket is not in  *)
(* src/: its part is modelled from spec.md (sections 3 and 4.3).           *)
(*                                                                         *)
(* The send-status word of each stream is abstracted to closing[s], its    *)
(* closing field being set; how sends and closers share it step by step   *)
(* is the subject of SendStatus.  A socket's callback table is the set of  *)
(* its entries <<id, w>>: callbacks for stream id whose send_status_ref is *)
(* the word of stream object w.                                            *)
(***************************************************************************)
EXTENDS Naturals, FiniteSets

CONSTANTS
  Streams,   \* TCPStream objects
  Sockets,   \* MultiplexedSocket objects
  FirstId,   \* the socket's first locally allocated stream id
  MaxId,     \* ids above it are not allocated (StreamIdExhausted)
  Reuse,     \* callers may connect() a stream that was already used
  NULL

(* Ids of one side have one parity (spec 3): the counter starts odd.       *)
ASSUME LifeAssumption ==
  /\ FirstId \in Nat /\ FirstId % 2 = 1
  /\ MaxId \in Nat
  /\ Reuse \in BOOLEAN
  /\ NULL \notin Sockets

VARIABLES
  pc,        \* "unborn", "new" (no socket yet), "open", "failed", "closed"
  hasIO,     \* mIO was initialised (IOService constructor, factory)
  sock,      \* mSocket
  sid,       \* mID (0 before one is assigned)
  closing,   \* the closing field of the stream's send-status word is set
  sstate,    \* socket life cycle: "unused", "connecting", "connected", "disconnected"
  nextId,    \* socket: next_local_stream_id
  peerNext,  \* socket: the next id the peer allocates (even)
  entries    \* socket: callback table, a set of <<id, word owner>>

vars == <<pc, hasIO, sock, sid, closing, sstate, nextId, peerNext, entries>>
streamVars == <<pc, hasIO, sock, sid, closing>>
sockVars == <<sstate, nextId, peerNext, entries>>

Init ==
  /\ pc = [s \in Streams |-> "unborn"]
  /\ hasIO = [s \in Streams |-> FALSE]
  /\ sock = [s \in Streams |-> NULL]
  /\ sid = [s \in Streams |-> 0]
  /\ closing = [s \in Streams |-> FALSE]
  /\ sstate = [k \in Sockets |-> "unused"]
  /\ nextId = [k \in Sockets |-> FirstId]
  /\ peerNext = [k \in Sockets |-> 2]
  /\ entries = [k \in Sockets |-> {}]

(* A fresh object s with its own send-status word at 0.                    *)
Born(s, io) ==
  /\ pc' = [pc EXCEPT ![s] = "new"]
  /\ hasIO' = [hasIO EXCEPT ![s] = io]
  /\ UNCHANGED <<sock, sid, closing>>

(* TCPStream(IOService&): mIO set, no socket.                              *)
NewStream(s) ==
  /\ pc[s] = "unborn"
  /\ Born(s, TRUE)
  /\ UNCHANGED sockVars

(* o->factory(): new TCPStream on *mIO.  A stream the socket built for a    *)
(* peer's stream never set mIO: reading it is undefined behaviour, which  *)
(* the model leaves out.                                                   *)
Factory(s, o) ==
  /\ pc[s] = "unborn"
  /\ pc[o] # "unborn"
  /\ hasIO[o]
  /\ Born(s, TRUE)
  /\ UNCHANGED sockVars

(* MultiplexedSocket::getNewID (spec 4.3): the counter, then += 2.        *)
NewIdNoStep(k) ==
  /\ nextId[k] <= MaxId
  /\ UNCHANGED nextId

NewId(k) ==
  /\ nextId[k] <= MaxId
  /\ nextId' = [nextId EXCEPT ![k] = @ + 2]

(* connect(): mSocket = MultiplexedSocket::construct (a fresh socket),    *)
(* *mSendStatus = 0, mID = StreamID(1), addCallbacks(1, callbacks on this *)
(* stream's word), mSocket->connect.  Nothing stops a second connect() on *)
(* a used stream (Reuse); one built for a peer's stream has no mIO to     *)
(* construct a socket with (undefined behaviour, left out).                *)
Connect(s, k) ==
  /\ \/ pc[s] = "new"
     \/ Reuse /\ pc[s] \in {"open", "failed", "closed"}
  /\ hasIO[s]
  /\ sstate[k] = "unused"
  /\ pc' = [pc EXCEPT ![s] = "open"]
  /\ sock' = [sock EXCEPT ![s] = k]
  /\ sid' = [sid EXCEPT ![s] = 1]
  /\ closing' = [closing EXCEPT ![s] = FALSE]
  /\ sstate' = [sstate EXCEPT ![k] = "connecting"]
  /\ entries' = [entries EXCEPT ![k] = {<<1, s>>}]
  /\ UNCHANGED <<hasIO, nextId, peerNext>>

(* Mutant: the clone's callbacks refer to the source stream's word.        *)
CloneWordSource(s, o) == o

(* The word the clone's Callbacks refer to: this stream's mSendStatus.     *)
CloneWord(s, o) == s

(* cloneFrom(o): mSocket = o's socket; with none, return false.  Else     *)
(* take getNewID(), set mID, and addCallbacks.  Spec 4.3: addCallbacks    *)
(* returns DISCONNECTED unless the socket is Connected, and streams       *)
(* registered before Connected are served, so the callbacks are installed *)
(* unless the socket is disconnected; cloneFrom returns true only on a    *)
(* Connected socket.  A cast failure, or a source without socket, changes *)
(* nothing (mSocket stays NULL) and is not a step.                         *)
CloneFrom(s, o) ==
  /\ pc[s] = "new"
  /\ pc[o] # "unborn"
  /\ sock[o] # NULL
  /\ LET k == sock[o]
         id == nextId[k]
         installed == sstate[k] # "disconnected"
     IN /\ NewId(k)
        /\ sock' = [sock EXCEPT ![s] = k]
        /\ sid' = [sid EXCEPT ![s] = id]
        /\ entries' = IF installed
                        THEN [entries EXCEPT ![k] = @ \cup {<<id, CloneWord(s, o)>>}]
                        ELSE entries
        /\ pc' = [pc EXCEPT ![s] =
                    IF sstate[k] = "connected" THEN "open" ELSE "failed"]
  /\ UNCHANGED <<hasIO, closing, sstate, peerNext>>

(* Mutant: close() without its addCallbacks(getID(), NULL): the entry     *)
(* stays installed on a closed word.                                       *)
CloseKeepCallbacks(s) ==
  /\ pc[s] \in {"new", "open", "failed"}
  /\ sock[s] # NULL
  /\ closing' = [closing EXCEPT ![s] = TRUE]
  /\ pc' = [pc EXCEPT ![s] = "closed"]
  /\ UNCHANGED <<hasIO, sock, sid, sstate, nextId, peerNext, entries>>

(* close(): closeSendStatus sets the closing field, addCallbacks(id, NULL) *)
(* deletes the table entry for id, closeStream emits CLOSE_STREAM.  With  *)
(* no socket, mSocket->addCallbacks dereferences NULL and the program     *)
(* crashes: that close() is left out.                                      *)
Close(s) ==
  /\ pc[s] \in {"new", "open", "failed"}
  /\ sock[s] # NULL
  /\ closing' = [closing EXCEPT ![s] = TRUE]
  /\ entries' = [entries EXCEPT ![sock[s]] = {e \in @ : e[1] # sid[s]}]
  /\ pc' = [pc EXCEPT ![s] = "closed"]
  /\ UNCHANGED <<hasIO, sock, sid, sstate, nextId, peerNext>>

(* The peer opens a stream (NEW_STREAM with its next even id): the socket *)
(* builds TCPStream(socket, id) with a fresh word and registers it.       *)
PeerOpen(s, k) ==
  /\ pc[s] = "unborn"
  /\ sstate[k] = "connected"
  /\ peerNext[k] <= MaxId
  /\ LET id == peerNext[k] IN
     /\ pc' = [pc EXCEPT ![s] = "open"]
     /\ sock' = [sock EXCEPT ![s] = k]
     /\ sid' = [sid EXCEPT ![s] = id]
     /\ entries' = [entries EXCEPT ![k] = @ \cup {<<id, s>>}]
     /\ peerNext' = [peerNext EXCEPT ![k] = @ + 2]
  /\ UNCHANGED <<hasIO, closing, sstate, nextId>>

(* The handshake completes.                                                *)
SocketUp(k) ==
  /\ sstate[k] = "connecting"
  /\ sstate' = [sstate EXCEPT ![k] = "connected"]
  /\ UNCHANGED <<streamVars, nextId, peerNext, entries>>

(* The peer's CLOSE_STREAM(id): the receive path closes the word the      *)
(* entry refers to, delivers on_disconnected and removes the entry.       *)
PeerClose(k) ==
  /\ sstate[k] = "connected"
  /\ \E e \in entries[k] :
       /\ closing' = [closing EXCEPT ![e[2]] = TRUE]
       /\ entries' = [entries EXCEPT ![k] = @ \ {e}]
  /\ UNCHANGED <<pc, hasIO, sock, sid, sstate, nextId, peerNext>>

(* A sub-connection fails: every registered stream's word is closed, the  *)
(* table cleared, the socket disconnected for good.                       *)
SocketFail(k) ==
  /\ sstate[k] \in {"connecting", "connected"}
  /\ closing' = [s \in Streams |->
                   closing[s] \/ \E e \in entries[k] : e[2] = s]
  /\ entries' = [entries EXCEPT ![k] = {}]
  /\ sstate' = [sstate EXCEPT ![k] = "disconnected"]
  /\ UNCHANGED <<pc, hasIO, sock, sid, nextId, peerNext>>

Next ==
  \/ \E s \in Streams :
       \/ NewStream(s) \/ Close(s)
       \/ \E o \in Streams : Factory(s, o) \/ CloneFrom(s, o)
       \/ \E k \in Sockets : Connect(s, k) \/ PeerOpen(s, k)
  \/ \E k \in Sockets : SocketUp(k) \/ PeerClose(k) \/ SocketFail(k)

Spec == Init /\ [][Next]_vars

-----------------------------------------------------------------------------
TypeOK ==
  /\ pc \in [Streams -> {"unborn", "new", "open", "failed", "closed"}]
  /\ hasIO \in [Streams -> BOOLEAN]
  /\ sock \in [Streams -> Sockets \cup {NULL}]
  /\ sid \in [Streams -> Nat]
  /\ closing \in [Streams -> BOOLEAN]
  /\ sstate \in [Sockets -> {"unused", "connecting", "connected", "disconnected"}]
  /\ nextId \in [Sockets -> Nat]
  /\ peerNext \in [Sockets -> Nat]
  /\ entries \in [Sockets -> SUBSET (Nat \X Streams)]

(* No two stream objects on one socket hold the same stream id: the id    *)
(* connect() hard-codes, the ids getNewID hands to clones (also to clones *)
(* that failed) and the peer's ids never meet (spec 3, 8.6).              *)
IdsUnique ==
  \A s, t \in Streams :
    s # t /\ sock[s] # NULL /\ sock[s] = sock[t] => sid[s] # sid[t]

(* A stream whose callbacks are still installed in a socket has not had   *)
(* its sends cut off: a peer's CLOSE_STREAM or a connection failure on    *)
(* one stream never sets the closing field of another stream's word.      *)
LiveNotClosing ==
  \A k \in Sockets : \A e \in entries[k] : ~closing[e[2]]

(* The socket tables and the streams' closing fields implement the        *)
(* abstract StreamTable: connect(), cloneFrom() and a peer's NEW_STREAM     *)
(* install a fresh stream under an id its socket's table does not hold,   *)
(* close() and a peer's CLOSE_STREAM remove exactly the closed stream's   *)
(* entry, and a failure cuts off exactly the streams of its table.        *)
Table == INSTANCE StreamTable WITH reg <- entries, cut <- closing

ImplementsStreamTable == Table!Spec

=============================================================================
