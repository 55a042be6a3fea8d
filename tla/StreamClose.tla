---------------------------- MODULE StreamClose ----------------------------
(***************************************************************************)
(* What TCPStream promises about send() and close(): the stream is closed *)
(* at one instant; before it a send may be handed to the socket or be     *)
(* dropped, after it every send is dropped; only a closed stream removes  *)
(* its callbacks and emits CLOSE_STREAM.  A dropped send leaves no trace, *)
(* so it is a stuttering step here.                                       *)
(***************************************************************************)
EXTENDS Sequences

VARIABLES
  out,        \* frames handed to the MultiplexedSocket, in order
  closed,     \* the stream has been closed for sending
  callbacks   \* the stream's callbacks are installed in the socket

vars == <<out, closed, callbacks>>

Init ==
  /\ out = << >>
  /\ closed = FALSE
  /\ callbacks = TRUE

Deliver ==
  /\ ~closed
  /\ out' = Append(out, "data")
  /\ UNCHANGED <<closed, callbacks>>

CloseForSend ==
  /\ ~closed
  /\ closed' = TRUE
  /\ UNCHANGED <<out, callbacks>>

DropCallbacks ==
  /\ closed
  /\ callbacks' = FALSE
  /\ UNCHANGED <<out, closed>>

EmitClose ==
  /\ closed
  /\ out' = Append(out, "close")
  /\ UNCHANGED <<closed, callbacks>>

Next == Deliver \/ CloseForSend \/ DropCallbacks \/ EmitClose

Spec == Init /\ [][Next]_vars
=============================================================================
