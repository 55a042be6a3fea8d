----------------------------- MODULE SendStatus -----------------------------
(***************************************************************************)
(* The send-status word of a TCPStream (TCPStream.cpp) and the calls that  *)
(* share it: concurrent TCPStream::send calls and concurrent               *)
(* TCPStream::close calls (closeSendStatus, then addCallbacks(id, NULL),   *)
(* then MultiplexedSocket::closeStream).                                   *)
(*                                                                         *)
(* The word (mSendStatus, an AtomicValue<int>) counts the sends between    *)
(* their ++ and their -- in its low bits and the closers that took the     *)
(* closing slot in multiples of SendStatusClosing.  Every element of       *)
(* Senders is one send() invocation and every element of Closers one      *)
(* close() invocation; invocations on one thread run one after the other, *)
(* which is one of the interleavings of concurrent ones.                   *)
(*                                                                         *)
(* The frame a send builds (stream id and length varints, payload copy) is *)
(* abstracted to the token "data"; what is checked is whether and when it  *)
(* is handed to MultiplexedSocket::sendBytes, recorded in out.             *)
(***************************************************************************)
EXTENDS Naturals, Sequences, FiniteSets

CONSTANTS
  Senders,       \* send() invocations
  Closers,       \* close() invocations
  WordBits,      \* width of the atomic word (32 for int)
  ClosingBit     \* SendStatusClosing == 2^ClosingBit (29 in TCPDefinitions)

SendStatusClosing == 2^ClosingBit
WordSize == 2^WordBits

(* The word is an int of WordBits bits; the closing field is the two bits  *)
(* above ClosingBit, so 3 closers fit below the word's top, and the       *)
(* number of sends in flight must stay below SendStatusClosing.  The      *)
(* comment at TCPStream.cpp line 93 caps concurrent closers at 3.         *)
ASSUME WordAssumption ==
  /\ WordBits \in Nat
  /\ ClosingBit \in Nat
  /\ SendStatusClosing \in Nat \ {0}
  /\ WordSize \in Nat
  /\ 4 * SendStatusClosing <= WordSize
ASSUME ThreadAssumption ==
  /\ IsFiniteSet(Senders)
  /\ IsFiniteSet(Closers)
  /\ Cardinality(Senders) < SendStatusClosing
  /\ Cardinality(Closers) <= 3

(* sendStatus & (3*SendStatusClosing) for a power-of-two SendStatusClosing *)
(* is zero exactly when the two-bit closing field is zero.                 *)
ClosingField(v) == (v \div SendStatusClosing) % 4

(* Mutant: a spin that waits for exactly one closer's SendStatusClosing.  *)
PureClosingOne(v) == v = SendStatusClosing

(* The value closeSendStatus spins for: closers present, no sender.        *)
PureClosing(v) == v \in {SendStatusClosing, 2 * SendStatusClosing,
                         3 * SendStatusClosing}

VARIABLES
  word,       \* *mSendStatus
  spc,        \* program counter of each send() invocation
  cpc,        \* program counter of each close() invocation
  incd,       \* closeSendStatus's local incd, per close() invocation
  callbacks,  \* TRUE while the stream's Callbacks are installed in the socket
  out         \* what the stream handed to the MultiplexedSocket, in order

vars == <<word, spc, cpc, incd, callbacks, out>>

SendPC == {"start", "sendBytes", "dec", "done"}
ClosePC == {"start", "add", "spin", "unregister", "closeStream", "done"}

(* Closers that have left closeSendStatus.                                 *)
PastSpin == {"unregister", "closeStream", "done"}

Init ==
  /\ word = 0
  /\ spc = [s \in Senders |-> "start"]
  /\ cpc = [c \in Closers |-> "start"]
  /\ incd = [c \in Closers |-> FALSE]
  /\ callbacks = TRUE
  /\ out = << >>

(***************************************************************************)
(* TCPStream::send.  The request and the frame are built first (lines     *)
(* 51-89); then the atomic pre-increment of mSendStatus returns the new  *)
(* value, and that value decides whether the frame is sent (line 93).     *)
(***************************************************************************)
(* Mutant: the closing check dropped, every frame is sent.               *)
SendIncNoCheck(s) ==
  /\ spc[s] = "start"
  /\ word' = (word + 1) % WordSize
  /\ spc' = [spc EXCEPT ![s] = "sendBytes"]
  /\ UNCHANGED <<cpc, incd, callbacks, out>>

(* Mutant: the dropped path returns without giving back its increment.   *)
SendIncNoDec(s) ==
  LET v == (word + 1) % WordSize IN
  /\ spc[s] = "start"
  /\ word' = v
  /\ spc' = [spc EXCEPT ![s] = IF ClosingField(v) = 0 THEN "sendBytes"
                                                        ELSE "done"]
  /\ UNCHANGED <<cpc, incd, callbacks, out>>

SendInc(s) ==
  LET v == (word + 1) % WordSize IN
  /\ spc[s] = "start"
  /\ word' = v
  /\ spc' = [spc EXCEPT ![s] = IF ClosingField(v) = 0 THEN "sendBytes"
                                                        ELSE "dec"]
  /\ UNCHANGED <<cpc, incd, callbacks, out>>

(* MultiplexedSocket::sendBytes(mSocket, toBeSent); didsend = true.        *)
SendBytes(s) ==
  /\ spc[s] = "sendBytes"
  /\ out' = Append(out, "data")
  /\ spc' = [spc EXCEPT ![s] = "dec"]
  /\ UNCHANGED <<word, cpc, incd, callbacks>>

(* Pre-decrement of mSendStatus, sent or not; an unsent frame is deleted. *)
SendDec(s) ==
  /\ spc[s] = "dec"
  /\ word' = (word + WordSize - 1) % WordSize
  /\ spc' = [spc EXCEPT ![s] = "done"]
  /\ UNCHANGED <<cpc, incd, callbacks, out>>

(***************************************************************************)
(* TCPStream::closeSendStatus: read the word; if no closer is present, add *)
(* SendStatusClosing (a separate atomic step: the read and the add can be *)
(* split by other closers); then spin until the word is a pure multiple   *)
(* of SendStatusClosing.                                                  *)
(***************************************************************************)
(* Mutant: a closer that finds the slot taken returns without waiting.   *)
CloseReadNoSpin(c) ==
  /\ cpc[c] = "start"
  /\ cpc' = [cpc EXCEPT ![c] = IF ClosingField(word) = 0 THEN "add"
                                                         ELSE "unregister"]
  /\ UNCHANGED <<word, spc, incd, callbacks, out>>

CloseRead(c) ==
  /\ cpc[c] = "start"
  /\ cpc' = [cpc EXCEPT ![c] = IF ClosingField(word) = 0 THEN "add"
                                                         ELSE "spin"]
  /\ UNCHANGED <<word, spc, incd, callbacks, out>>

CloseAdd(c) ==
  /\ cpc[c] = "add"
  /\ word' = (word + SendStatusClosing) % WordSize
  /\ incd' = [incd EXCEPT ![c] = TRUE]
  /\ cpc' = [cpc EXCEPT ![c] = "spin"]
  /\ UNCHANGED <<spc, callbacks, out>>

(* Mutant: the spin dropped.                                               *)
CloseSpinNoWait(c) ==
  /\ cpc[c] = "spin"
  /\ cpc' = [cpc EXCEPT ![c] = "unregister"]
  /\ UNCHANGED <<word, spc, incd, callbacks, out>>

CloseSpin(c) ==
  /\ cpc[c] = "spin"
  /\ PureClosing(word)
  /\ cpc' = [cpc EXCEPT ![c] = "unregister"]
  /\ UNCHANGED <<word, spc, incd, callbacks, out>>

(* TCPStream::close: mSocket->addCallbacks(getID(), NULL).                 *)
Unregister(c) ==
  /\ cpc[c] = "unregister"
  /\ callbacks' = FALSE
  /\ cpc' = [cpc EXCEPT ![c] = "closeStream"]
  /\ UNCHANGED <<word, spc, incd, out>>

(* TCPStream::close: MultiplexedSocket::closeStream(mSocket, getID()).     *)
CloseStream(c) ==
  /\ cpc[c] = "closeStream"
  /\ out' = Append(out, "close")
  /\ cpc' = [cpc EXCEPT ![c] = "done"]
  /\ UNCHANGED <<word, spc, incd, callbacks>>

Send(s) == SendInc(s) \/ SendBytes(s) \/ SendDec(s)
Close(c) == CloseRead(c) \/ CloseAdd(c) \/ CloseSpin(c)
            \/ Unregister(c) \/ CloseStream(c)

Next ==
  \/ \E s \in Senders : Send(s)
  \/ \E c \in Closers : Close(c)

(* Every thread keeps running: a spinning closer re-reads the word.       *)
Fairness ==
  /\ \A s \in Senders : WF_vars(Send(s))
  /\ \A c \in Closers : WF_vars(Close(c))

Spec == Init /\ [][Next]_vars
FairSpec == Spec /\ Fairness

-----------------------------------------------------------------------------
TypeOK ==
  /\ word \in 0..(WordSize - 1)
  /\ spc \in [Senders -> SendPC]
  /\ cpc \in [Closers -> ClosePC]
  /\ incd \in [Closers -> BOOLEAN]
  /\ callbacks \in BOOLEAN
  /\ out \in Seq({"data", "close"})

(* No send() is inside MultiplexedSocket::sendBytes while a close() has    *)
(* returned from closeSendStatus: close() waits out every send that got   *)
(* past the closing check, and every later send sees the closing field.  *)
SendExclusion ==
  \A s \in Senders, c \in Closers :
    ~(spc[s] = "sendBytes" /\ cpc[c] \in PastSpin)

(* The socket never receives a data frame of this stream after the        *)
(* stream's CLOSE_STREAM: the peer would deliver data for a closed id.    *)
NoDataAfterClose ==
  \A i, j \in 1..Len(out) : i < j /\ out[i] = "close" => out[j] # "data"

(* Whenever no send() is between its increment and its decrement, the     *)
(* word is exactly SendStatusClosing times the number of close() calls    *)
(* that took the slot: every send gives back its increment, also on the   *)
(* dropped path, and a close() adds at most once.                         *)
WordBalanced ==
  (\A s \in Senders : spc[s] \in {"start", "done"})
    => word = SendStatusClosing * Cardinality({c \in Closers : incd[c]})

(* Every send() and close() call returns once the sends stop: the spin in *)
(* closeSendStatus does not wait forever.                                 *)
AllCallsReturn ==
  <>(/\ \A s \in Senders : spc[s] = "done"
     /\ \A c \in Closers : cpc[c] = "done")

(* The stream is closed for sending once some close() has returned from  *)
(* closeSendStatus: the instant the abstract stream closes.               *)
ClosedForSend == \E c \in Closers : cpc[c] \in PastSpin

Abstract == INSTANCE StreamClose WITH closed <- ClosedForSend

(* send() and close() implement the abstract stream: every frame handed   *)
(* to the socket is sent before the close instant, and callbacks are      *)
(* removed and CLOSE_STREAM emitted only after it.                        *)
ImplementsStreamClose == Abstract!Spec

(* Spec, section 8 property 3: "no send occurs after the first successful *)
(* closer takes the slot".  Stated as: once a close() has added           *)
(* SendStatusClosing, no send() hands a frame to the socket.              *)
NoSendAfterSlotTaken ==
  [][(\E c \in Closers : incd[c]) => \A s \in Senders : ~SendBytes(s)]_vars

=============================================================================
