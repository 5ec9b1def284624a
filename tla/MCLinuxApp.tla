----------------------------- MODULE MCLinuxApp -----------------------------
(* CAN is started first and stopped last, around both services of Ethernet. *)
EXTENDS LinuxApp

CONSTANTS can, udp, tcp, ethernet

MCOrder == <<can>>
MCModuleOf == [s \in {can, udp, tcp} |-> IF s = can THEN can ELSE ethernet]
MCStart == <<can, udp, tcp>>
MCStop == <<udp, tcp, can>>
=============================================================================
