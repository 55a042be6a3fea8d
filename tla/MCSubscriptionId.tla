-------------------------- MODULE MCSubscriptionId --------------------------
(* Two this-pointers, three class-name literals of which two share a text  *)
(* at different addresses, two unique ids.                                 *)
EXTENDS SubscriptionId

MCClassLits == {[addr |-> 1, text |-> 1], [addr |-> 2, text |-> 1],
                [addr |-> 3, text |-> 2]}
=============================================================================
