---------------------------- MODULE MessagePipe ----------------------------
(***************************************************************************)
(* What a stream of messages promises: the messages of a connection are      *)
(* handed on whole, in their order, each at most once.  A server may leave   *)
(* out a message only where it is allowed to go on after an error.          *)
(***************************************************************************)
EXTENDS Naturals, Sequences

CONSTANTS Clients, MessagesOf(_), Lenient(_)

VARIABLE handed   \* the numbers of the messages of a client that were handed on

Init == handed = [c \in Clients |-> <<>>]

Last(c) == IF handed[c] = <<>> THEN 0 ELSE handed[c][Len(handed[c])]

HandOn(c, k) ==
    /\ k \in DOMAIN MessagesOf(c)
    /\ k = Last(c) + 1 \/ (Lenient(c) /\ k > Last(c))
    /\ handed' = [handed EXCEPT ![c] = Append(@, k)]

Next == \E c \in Clients : \E k \in DOMAIN MessagesOf(c) : HandOn(c, k)

Spec == Init /\ [][Next]_handed
=============================================================================
