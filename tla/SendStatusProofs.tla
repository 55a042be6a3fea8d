-------------------------- MODULE SendStatusProofs --------------------------
(***************************************************************************)
(* Proofs about the send-status word of TCPStream, for every number of     *)
(* send() and close() calls the assumptions allow and every word width.    *)
(***************************************************************************)
EXTENDS SendStatus, FiniteSetTheorems, TLAPS

K == SendStatusClosing

(* The sends between their increment and their decrement, and the closers *)
(* whose increment of the closing field is in the word.                   *)
InFlight == {s \in Senders : spc[s] \in {"sendBytes", "dec"}}
Incd == {c \in Closers : incd[c]}

(* The inductive invariant: the word is the sum of its two fields, a      *)
(* closer carries its increment only after its add, a returned            *)
(* closeSendStatus implies a closing field that is never cleared, and a   *)
(* CLOSE_STREAM in out implies a returned closeSendStatus.                *)
IInv ==
  /\ TypeOK
  /\ word = Cardinality(InFlight) + K * Cardinality(Incd)
  /\ \A c \in Closers : cpc[c] \in {"start", "add"} => ~incd[c]
  /\ (\E c \in Closers : cpc[c] \in PastSpin) => Incd # {}
  /\ \A i \in 1..Len(out) :
       out[i] = "close" => \E c \in Closers : cpc[c] \in PastSpin
  /\ SendExclusion
  /\ NoDataAfterClose

LEMMA ConstantFacts ==
  /\ K \in Nat \ {0}
  /\ WordSize \in Nat
  /\ 4 * K <= WordSize
  /\ Cardinality(Senders) \in Nat
  /\ Cardinality(Senders) < K
  /\ Cardinality(Closers) \in 0..3
<1>1. Cardinality(Senders) \in Nat /\ Cardinality(Closers) \in Nat
  BY ThreadAssumption, FS_CardinalityType
<1>2. QED
  BY <1>1, WordAssumption, ThreadAssumption DEF K

-----------------------------------------------------------------------------
(* Every step keeps each variable in its type.                             *)
LEMMA TypeStep == TypeOK /\ [Next]_vars => TypeOK'
<1> SUFFICES ASSUME TypeOK, [Next]_vars PROVE TypeOK'
  OBVIOUS
<1> USE ConstantFacts DEF TypeOK, SendPC, ClosePC
<1>1. ASSUME NEW s \in Senders, SendInc(s) PROVE TypeOK'
  BY <1>1 DEF SendInc
<1>2. ASSUME NEW s \in Senders, SendBytes(s) PROVE TypeOK'
  BY <1>2 DEF SendBytes
<1>3. ASSUME NEW s \in Senders, SendDec(s) PROVE TypeOK'
  BY <1>3 DEF SendDec
<1>4. ASSUME NEW c \in Closers, CloseRead(c) PROVE TypeOK'
  BY <1>4 DEF CloseRead
<1>5. ASSUME NEW c \in Closers, CloseAdd(c) PROVE TypeOK'
  BY <1>5 DEF CloseAdd, K
<1>6. ASSUME NEW c \in Closers, CloseSpin(c) PROVE TypeOK'
  BY <1>6 DEF CloseSpin
<1>7. ASSUME NEW c \in Closers, Unregister(c) PROVE TypeOK'
  BY <1>7 DEF Unregister
<1>8. ASSUME NEW c \in Closers, CloseStream(c) PROVE TypeOK'
  BY <1>8 DEF CloseStream
<1>9. CASE UNCHANGED vars
  BY <1>9 DEF vars
<1>10. QED
  BY <1>1, <1>2, <1>3, <1>4, <1>5, <1>6, <1>7, <1>8, <1>9 DEF Next, Send, Close

(* The type invariant holds in every reachable state.                      *)
THEOREM TypeCorrect == Spec => []TypeOK
<1>1. Init => TypeOK
  BY ConstantFacts DEF Init, TypeOK, SendPC, ClosePC
<1>2. QED
  BY <1>1, TypeStep, PTL DEF Spec

-----------------------------------------------------------------------------
(* The word as the sum of a sender count below K and a closer count up to *)
(* 3: the closing field reads back the closer count, and the word is pure *)
(* closing exactly when no sender is counted and some closer is.          *)
LEMMA FieldLemma ==
  ASSUME NEW a \in Nat, NEW n \in 0..3, a < K
  PROVE  /\ ClosingField(a + K * n) = n
         /\ PureClosing(a + K * n) <=> (a = 0 /\ n # 0)
<1>1. (a + K * n) \div K = n
  BY ConstantFacts
<1>2. ClosingField(a + K * n) = n
  BY <1>1 DEF ClosingField, K
<1>3. PureClosing(a + K * n) <=> (a = 0 /\ n # 0)
  BY ConstantFacts DEF PureClosing, K
<1>4. QED
  BY <1>2, <1>3

(* Any set of sends, or of closers, is finite and no larger than all.     *)
LEMMA SubsetCard ==
  /\ \A S \in SUBSET Senders :
       IsFiniteSet(S) /\ Cardinality(S) \in 0..Cardinality(Senders)
  /\ \A C \in SUBSET Closers :
       IsFiniteSet(C) /\ Cardinality(C) \in 0..3
<1>1. ASSUME NEW S \in SUBSET Senders
      PROVE  IsFiniteSet(S) /\ Cardinality(S) \in 0..Cardinality(Senders)
  BY ThreadAssumption, FS_Subset, FS_CardinalityType, ConstantFacts
<1>2. ASSUME NEW C \in SUBSET Closers
      PROVE  IsFiniteSet(C) /\ Cardinality(C) \in 0..3
  BY ThreadAssumption, FS_Subset, FS_CardinalityType, ConstantFacts
<1>3. QED
  BY <1>1, <1>2

-----------------------------------------------------------------------------
LEMMA InitIInv == Init => IInv
<1> SUFFICES ASSUME Init PROVE IInv
  OBVIOUS
<1>1. InFlight = {} /\ Incd = {}
  BY DEF Init, InFlight, Incd
<1>2. word = Cardinality(InFlight) + K * Cardinality(Incd)
  BY <1>1, FS_EmptySet, ConstantFacts DEF Init
<1>3. QED
  BY <1>2, ConstantFacts
     DEF IInv, Init, TypeOK, SendPC, ClosePC, PastSpin, SendExclusion,
         NoDataAfterClose

LEMMA NextIInv == IInv /\ [Next]_vars => IInv'
<1> SUFFICES ASSUME IInv, [Next]_vars PROVE IInv'
  OBVIOUS
<1> DEFINE a == Cardinality(InFlight)
           n == Cardinality(Incd)
<1>0. /\ TypeOK'
      /\ a \in 0..Cardinality(Senders) /\ n \in 0..3
      /\ IsFiniteSet(InFlight) /\ IsFiniteSet(Incd)
      /\ word = a + K * n
  BY TypeStep, SubsetCard DEF IInv, InFlight, Incd
<1>1. ASSUME NEW s \in Senders, SendInc(s) PROVE IInv'
  <2>1. /\ s \notin InFlight
        /\ InFlight' = InFlight \cup {s}
        /\ Incd' = Incd
    BY <1>1 DEF SendInc, InFlight, Incd, IInv, TypeOK
  <2>2. Cardinality(InFlight') = a + 1 /\ a + 1 < K
    <3>1. Cardinality(InFlight') \in 0..Cardinality(Senders)
      <4>1. InFlight' \in SUBSET Senders
        BY DEF InFlight
      <4>2. QED
        BY <4>1, SubsetCard
    <3>2. Cardinality(InFlight') = a + 1
      BY <2>1, <1>0, FS_AddElement
    <3>3. QED
      BY <3>1, <3>2, ConstantFacts
  <2>3. word' = (a + 1) + K * n
    BY <1>1, <1>0, <2>2, ConstantFacts DEF SendInc
  <2>4. spc'[s] = "sendBytes" => Incd = {}
    <3>1. spc'[s] = "sendBytes" => ClosingField(word') = 0
      BY <1>1 DEF SendInc, IInv, TypeOK
    <3>2. ClosingField(word') = n
      BY <2>2, <2>3, <1>0, FieldLemma
    <3>3. QED
      BY <3>1, <3>2, <1>0, FS_EmptySet
  <2>5. SendExclusion'
    BY <1>1, <2>4 DEF SendInc, SendExclusion, IInv, Incd, TypeOK
  <2>6. QED
    BY <1>0, <1>1, <2>1, <2>2, <2>3, <2>5
       DEF SendInc, IInv, NoDataAfterClose
<1>2. ASSUME NEW s \in Senders, SendBytes(s) PROVE IInv'
  <2>1. InFlight' = InFlight /\ Incd' = Incd
    BY <1>2 DEF SendBytes, InFlight, Incd, IInv, TypeOK
  <2>2. \A c \in Closers : cpc[c] \notin PastSpin
    BY <1>2 DEF SendBytes, IInv, SendExclusion
  <2>3. \A i \in 1..Len(out) : out[i] = "data"
    BY <2>2, <1>0 DEF IInv, TypeOK
  <2>4. NoDataAfterClose'
    BY <1>2, <2>3, <1>0 DEF SendBytes, NoDataAfterClose, IInv, TypeOK
  <2>5. \A i \in 1..Len(out') :
          out'[i] = "close" => \E c \in Closers : cpc'[c] \in PastSpin
    BY <1>2, <2>3, <1>0 DEF SendBytes, IInv, TypeOK
  <2>6. QED
    BY <1>0, <1>2, <2>1, <2>4, <2>5 DEF SendBytes, IInv, SendExclusion
<1>3. ASSUME NEW s \in Senders, SendDec(s) PROVE IInv'
  <2>1. /\ s \in InFlight
        /\ InFlight' = InFlight \ {s}
        /\ Incd' = Incd
    BY <1>3 DEF SendDec, InFlight, Incd, IInv, TypeOK
  <2>2. Cardinality(InFlight') = a - 1 /\ a >= 1
    BY <2>1, <1>0, FS_RemoveElement, FS_EmptySet
  <2>3. word' = (a - 1) + K * n
    BY <1>3, <1>0, <2>2, ConstantFacts DEF SendDec
  <2>4. QED
    BY <1>0, <1>3, <2>1, <2>2, <2>3
       DEF SendDec, IInv, SendExclusion, NoDataAfterClose
<1>4. ASSUME NEW c \in Closers, CloseRead(c) PROVE IInv'
  <2>1. InFlight' = InFlight /\ Incd' = Incd
    BY <1>4 DEF CloseRead, InFlight, Incd
  <2>2. cpc'[c] \in {"add", "spin"} /\ cpc[c] = "start"
    BY <1>4 DEF CloseRead, IInv, TypeOK
  <2>3. QED
    BY <1>0, <1>4, <2>1, <2>2
       DEF CloseRead, IInv, TypeOK, PastSpin, SendExclusion, NoDataAfterClose
<1>5. ASSUME NEW c \in Closers, CloseAdd(c) PROVE IInv'
  <2>1. /\ c \notin Incd
        /\ Incd' = Incd \cup {c}
        /\ InFlight' = InFlight
    BY <1>5 DEF CloseAdd, InFlight, Incd, IInv, TypeOK
  <2>2. Cardinality(Incd') = n + 1 /\ n + 1 <= 3
    <3>1. Cardinality(Incd') \in 0..3
      <4>1. Incd' \in SUBSET Closers
        BY DEF Incd
      <4>2. QED
        BY <4>1, SubsetCard
    <3>2. Cardinality(Incd') = n + 1
      BY <2>1, <1>0, FS_AddElement
    <3>3. QED
      BY <3>1, <3>2
  <2>3. word' = a + K * (n + 1)
    BY <1>5, <1>0, <2>2, ConstantFacts DEF CloseAdd, K
  <2>4. Incd' # {}
    BY <2>1
  <2>5. QED
    BY <1>0, <1>5, <2>1, <2>2, <2>3, <2>4
       DEF CloseAdd, IInv, TypeOK, PastSpin, SendExclusion, NoDataAfterClose
<1>6. ASSUME NEW c \in Closers, CloseSpin(c) PROVE IInv'
  <2>1. InFlight' = InFlight /\ Incd' = Incd
    BY <1>6 DEF CloseSpin, InFlight, Incd
  <2>2. a = 0 /\ n # 0
    BY <1>6, <1>0, FieldLemma, ConstantFacts DEF CloseSpin
  <2>3. InFlight = {} /\ Incd # {}
    BY <2>2, <1>0, FS_EmptySet
  <2>4. SendExclusion'
    BY <1>6, <2>3 DEF CloseSpin, SendExclusion, InFlight, IInv, TypeOK
  <2>5. QED
    BY <1>0, <1>6, <2>1, <2>3, <2>4
       DEF CloseSpin, IInv, TypeOK, PastSpin, NoDataAfterClose
<1>7. ASSUME NEW c \in Closers, Unregister(c) PROVE IInv'
  <2>1. InFlight' = InFlight /\ Incd' = Incd
    BY <1>7 DEF Unregister, InFlight, Incd
  <2>2. QED
    BY <1>0, <1>7, <2>1
       DEF Unregister, IInv, TypeOK, PastSpin, SendExclusion, NoDataAfterClose
<1>8. ASSUME NEW c \in Closers, CloseStream(c) PROVE IInv'
  <2>1. InFlight' = InFlight /\ Incd' = Incd
    BY <1>8 DEF CloseStream, InFlight, Incd
  <2>2. cpc'[c] \in PastSpin /\ cpc[c] \in PastSpin
    BY <1>8 DEF CloseStream, PastSpin, IInv, TypeOK
  <2>3. \A i \in 1..Len(out') :
          out'[i] = "close" => \E d \in Closers : cpc'[d] \in PastSpin
    BY <2>2
  <2>4. NoDataAfterClose'
    BY <1>8, <1>0 DEF CloseStream, NoDataAfterClose, IInv, TypeOK
  <2>5. Incd # {}
    BY <2>2 DEF IInv
  <2>6. QED
    BY <1>0, <1>8, <2>1, <2>3, <2>4, <2>5
       DEF CloseStream, IInv, TypeOK, PastSpin, SendExclusion
<1>9. CASE UNCHANGED vars
  BY <1>9 DEF vars, IInv, InFlight, Incd, TypeOK, SendExclusion,
              NoDataAfterClose
<1>10. QED
  BY <1>1, <1>2, <1>3, <1>4, <1>5, <1>6, <1>7, <1>8, <1>9 DEF Next, Send, Close

(* Safety of close(): no send is inside sendBytes once a close() has      *)
(* returned from closeSendStatus, and no data frame follows the stream's  *)
(* CLOSE_STREAM, for every number of calls and every word width.          *)
THEOREM CloseSafety == Spec => [](SendExclusion /\ NoDataAfterClose)
<1>1. Spec => []IInv
  BY InitIInv, NextIInv, PTL DEF Spec
<1>2. IInv => SendExclusion /\ NoDataAfterClose
  BY DEF IInv
<1>3. QED
  BY <1>1, <1>2, PTL

(* The frames of one stream reach the socket in order: once close() has    *)
(* emitted CLOSE_STREAM, no send() of any thread emits a data frame, for   *)
(* every number of senders and closers.                                    *)
THEOREM FrameOrder == Spec => []NoDataAfterClose
  BY CloseSafety, PTL

(* The word is balanced whenever no send is in flight: every send gives   *)
(* its increment back and a close() adds at most once.                    *)
THEOREM WordBalance == Spec => []WordBalanced
<1>1. IInv => WordBalanced
  <2> SUFFICES ASSUME IInv, \A s \in Senders : spc[s] \in {"start", "done"}
               PROVE  word = SendStatusClosing * Cardinality(Incd)
    BY DEF WordBalanced, Incd
  <2>1. InFlight = {}
    BY DEF InFlight
  <2>2. QED
    BY <2>1, FS_EmptySet, SubsetCard, ConstantFacts DEF IInv, Incd, K
<1>2. QED
  BY <1>1, InitIInv, NextIInv, PTL DEF Spec

-----------------------------------------------------------------------------
(* send() and close() refine the abstract stream of StreamClose under the *)
(* mapping closed <- ClosedForSend: a send's sendBytes is a Deliver, the  *)
(* first closer to return from closeSendStatus is the CloseForSend, and   *)
(* every other step of a thread is a stutter.                             *)
THEOREM Refinement == Spec => ImplementsStreamClose
<1> USE DEF ClosedForSend
<1>1. Init => Abstract!Init
  BY DEF Init, Abstract!Init, PastSpin
<1>2. IInv /\ [Next]_vars => [Abstract!Next]_Abstract!vars
  <2> SUFFICES ASSUME IInv, [Next]_vars PROVE [Abstract!Next]_Abstract!vars
    OBVIOUS
  <2>1. ASSUME NEW s \in Senders, SendInc(s) PROVE UNCHANGED Abstract!vars
    BY <2>1 DEF SendInc, Abstract!vars
  <2>2. ASSUME NEW s \in Senders, SendBytes(s) PROVE Abstract!Deliver
    BY <2>2 DEF SendBytes, Abstract!Deliver, IInv, SendExclusion
  <2>3. ASSUME NEW s \in Senders, SendDec(s) PROVE UNCHANGED Abstract!vars
    BY <2>3 DEF SendDec, Abstract!vars
  <2>4. ASSUME NEW c \in Closers, CloseRead(c) PROVE UNCHANGED Abstract!vars
    BY <2>4 DEF CloseRead, Abstract!vars, PastSpin, IInv, TypeOK
  <2>5. ASSUME NEW c \in Closers, CloseAdd(c) PROVE UNCHANGED Abstract!vars
    BY <2>5 DEF CloseAdd, Abstract!vars, PastSpin, IInv, TypeOK
  <2>6. ASSUME NEW c \in Closers, CloseSpin(c)
        PROVE  Abstract!CloseForSend \/ UNCHANGED Abstract!vars
    BY <2>6 DEF CloseSpin, Abstract!CloseForSend, Abstract!vars, PastSpin,
                IInv, TypeOK
  <2>7. ASSUME NEW c \in Closers, Unregister(c) PROVE Abstract!DropCallbacks
    BY <2>7 DEF Unregister, Abstract!DropCallbacks, PastSpin, IInv, TypeOK
  <2>8. ASSUME NEW c \in Closers, CloseStream(c) PROVE Abstract!EmitClose
    BY <2>8 DEF CloseStream, Abstract!EmitClose, PastSpin, IInv, TypeOK
  <2>9. CASE UNCHANGED vars
    BY <2>9 DEF vars, Abstract!vars
  <2>10. QED
    BY <2>1, <2>2, <2>3, <2>4, <2>5, <2>6, <2>7, <2>8, <2>9
       DEF Next, Send, Close, Abstract!Next
<1>3. QED
  BY <1>1, <1>2, InitIInv, NextIInv, PTL
     DEF Spec, ImplementsStreamClose, Abstract!Spec

=============================================================================
