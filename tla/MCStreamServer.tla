--------------------------- MODULE MCStreamServer ---------------------------
(* Two connections to a TCP service, one to the RFCOMM service. *)
EXTENDS StreamServer

CONSTANTS a, b, r, tcp, rfcomm

MCServiceOf == [c \in {a, b, r} |-> IF c = r THEN rfcomm ELSE tcp]
MCMessagesOf(c) ==
    CASE c = a -> <<"good", "good">>
      [] c = b -> <<"malformed", "good">>
      [] c = r -> <<"good", "malformed", "good", "badLength">>
MCLengthOf(k) == IF k = "good" THEN 4 ELSE 3
=============================================================================
