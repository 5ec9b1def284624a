------------------------------ MODULE CanLink ------------------------------
(***************************************************************************)
(* anyMSG messages over classic CAN.  A sender cuts a message into a start   *)
(* frame and data frames; the adapter puts them together again in a small    *)
(* table of sessions, one per CAN id and session number.  Frames are lost    *)
(* (a full socket buffer, a bus that is off), a sender gives up in the       *)
(* middle of a message or starts again from session number 0, and sessions   *)
(* are abandoned by a timeout or for want of a place.                       *)
(*                                                                         *)
(* A CRC is taken to be right for the content it was computed from only.    *)
(***************************************************************************)
EXTENDS Naturals, FiniteSets, SequencesExt

CONSTANTS
    Senders,       \* nodes, each with a CAN id of its own
    Messages,      \* whole anyMSG frames
    Sends,         \* which of them a node may send
    Length,        \* data frames of each message
    MaxSessions,   \* CAN_ADAPTER_REASSEMBLY_MAX_SESSIONS
    SessionMod,    \* session numbers are a uint8_t: 256
    Timeout,       \* clock steps a session may be idle
    Nothing        \* neither a message nor a fragment

ASSUME CanLinkAssumption ==
    /\ IsFiniteSet(Senders) /\ IsFiniteSet(Messages)
    /\ Sends \in [Senders -> SUBSET Messages]
    /\ Length \in [Messages -> Nat \ {0}]
    /\ MaxSessions \in Nat \ {0}
    /\ SessionMod \in Nat \ {0}
    /\ Timeout \in Nat
    /\ Nothing \notin Senders \X Messages \X Nat

VARIABLES
    next_session_id, \* of each sender
    out,             \* the frames of its message it has not written yet
    online,          \* the socket of the adapter is open
    sessions,        \* the sessions in use, the oldest first
    complete_msg,    \* the message that the last step put together, if any
    intact,          \* nothing has disturbed a sender's last message
    arrivals         \* how often it has been put together, at most 2

senderVars == <<next_session_id, out>>
ghosts == <<intact, arrivals>>
vars == <<senderVars, online, sessions, complete_msg, ghosts>>

NoMsg == [source |-> Nothing, bytes |-> <<>>]
Fragments == Senders \X Messages \X Nat
Sof(s, id, m) == [kind |-> "sof", sid |-> id, crc |-> <<s, m>>, count |-> Length[m]]
Data(s, id, m, n) == [kind |-> "data", sid |-> id, seq |-> n, bytes |-> <<s, m, n>>]
Frames == {Sof(s, id, m) : s \in Senders, id \in 0 .. SessionMod - 1, m \in Messages}
    \cup UNION {{Data(s, id, m, n) : s \in Senders, id \in 0 .. SessionMod - 1, n \in 1 .. Length[m]} :
                   m \in Messages}

-----------------------------------------------------------------------------
(* The table of sessions. *)

Key(x) == <<x.source, x.sid>>

\* The sessions at the places K of the table, in their order.
Only(t, K) ==
    LET kept[n \in 0 .. Len(t)] ==
            IF n = 0 THEN <<>>
            ELSE IF n \in K THEN Append(kept[n - 1], t[n]) ELSE kept[n - 1]
    IN kept[Len(t)]

\* Every frame, and every read that times out, first drops the sessions that
\* were idle for too long.
Alive(x) == x.idle <= Timeout
ScanTimeouts(t) == Only(t, {k \in DOMAIN t : Alive(t[k])})

Without(t, key) == Only(t, {k \in DOMAIN t : Key(t[k]) /= key})

\* Mutant: a session taken over keeps its bitmap.
NewSessionKeepsBits(s, f) ==
    LET old == {k \in DOMAIN sessions : Key(sessions[k]) = <<s, f.sid>>} IN
    [source |-> s, sid |-> f.sid, crc |-> f.crc, count |-> f.count,
     received |-> UNION {sessions[k].received : k \in old} \cap 1 .. f.count,
     received_count |-> 0, idle |-> 0,
     buffer |-> [n \in 1 .. f.count |-> Nothing]]

NewSession(s, f) ==
    [source |-> s, sid |-> f.sid, crc |-> f.crc, count |-> f.count,
     received |-> {}, received_count |-> 0, idle |-> 0,
     buffer |-> [n \in 1 .. f.count |-> Nothing]]

\* Mutant: a session of the same key is not looked for.
HandleSofFindsNone(s, f, t) ==
    Append(IF Len(t) < MaxSessions THEN t ELSE Tail(t), NewSession(s, f))

\* Mutant: a full table grows.
HandleSofNoEviction(s, f, t) == Append(Without(t, <<s, f.sid>>), NewSession(s, f))

\* A start frame takes over the session of its key, or a free place, or the
\* place of the oldest session.
HandleSof(s, f, t) ==
    LET others == Without(t, <<s, f.sid>>)
        room == IF Len(others) < Len(t) \/ Len(t) < MaxSessions THEN others ELSE Tail(t)
    IN Append(room, NewSession(s, f))

StoreFragment(x, f) ==
    [x EXCEPT !.buffer[f.seq] = f.bytes, !.received = @ \cup {f.seq},
              !.received_count = @ + 1, !.idle = 0]

\* Mutant: repeated frames are not recognised.
AcceptsTwice(x, s, f) == Key(x) = <<s, f.sid>> /\ f.seq <= x.count

\* A data frame without a session, beyond its count or seen before changes nothing.
Accepts(x, s, f) ==
    /\ Key(x) = <<s, f.sid>>
    /\ f.seq <= x.count
    /\ f.seq \notin x.received

HandleData(s, f, t) ==
    [k \in DOMAIN t |-> IF Accepts(t[k], s, f) THEN StoreFragment(t[k], f) ELSE t[k]]

IsFull(x) == x.received_count >= x.count
\* Mutant: the CRC is not compared.
CrcIgnored(x) == TRUE
CrcRight(x) == x.buffer = [n \in 1 .. x.count |-> <<x.crc[1], x.crc[2], n>>]

\* Mutant: a finished session stays in use.
CloseFullReused(t) ==
    [k \in DOMAIN t |-> IF IsFull(t[k]) THEN [t[k] EXCEPT !.received = {}, !.received_count = 0]
                                        ELSE t[k]]

\* The session that is full now is closed, whether its CRC is right or not.
CloseFull(t) == Only(t, {k \in DOMAIN t : ~IsFull(t[k])})
FullIn(t) == {t[k] : k \in {j \in DOMAIN t : IsFull(t[j])}}

-----------------------------------------------------------------------------
Init ==
    /\ next_session_id = [s \in Senders |-> 0]
    /\ out = [s \in Senders |-> <<>>]
    /\ online = TRUE
    /\ sessions = <<>>
    /\ complete_msg = NoMsg
    /\ intact = [s \in Senders |-> FALSE]
    /\ arrivals = [s \in Senders |-> 0]

\* can_fragment_tx: the frames of the next message, with the next session number.
FragmentTx(s, m) ==
    /\ out[s] = <<>>
    /\ LET id == next_session_id[s] IN
       out' = [out EXCEPT ![s] = <<Sof(s, id, m)>> \o [n \in 1 .. Length[m] |-> Data(s, id, m, n)]]
    /\ next_session_id' = [next_session_id EXCEPT ![s] = (@ + 1) % SessionMod]
    /\ intact' = [intact EXCEPT ![s] = TRUE]
    /\ arrivals' = [arrivals EXCEPT ![s] = 0]
    /\ complete_msg' = NoMsg
    /\ UNCHANGED <<online, sessions>>

\* can_send fails: send_packet_list leaves the rest of the message unsent.
SendFails(s) ==
    /\ out[s] /= <<>>
    /\ out' = [out EXCEPT ![s] = <<>>]
    /\ intact' = [intact EXCEPT ![s] = FALSE]
    /\ complete_msg' = NoMsg
    /\ UNCHANGED <<next_session_id, online, sessions, arrivals>>

\* A node that starts again counts its sessions from 0.
SenderRestarts(s) ==
    /\ next_session_id' = [next_session_id EXCEPT ![s] = 0]
    /\ out' = [out EXCEPT ![s] = <<>>]
    /\ intact' = [intact EXCEPT ![s] = FALSE]
    /\ complete_msg' = NoMsg
    /\ UNCHANGED <<online, sessions, arrivals>>

\* A frame written while nobody reads it, or for which there is no room.
FrameLost(s) ==
    /\ out[s] /= <<>>
    /\ out' = [out EXCEPT ![s] = Tail(@)]
    /\ intact' = [intact EXCEPT ![s] = FALSE]
    /\ complete_msg' = NoMsg
    /\ UNCHANGED <<next_session_id, online, sessions, arrivals>>

\* A message whose session is dropped from the table is no longer intact.
Keys(t) == {Key(t[k]) : k \in DOMAIN t}
Number(s) == (next_session_id[s] + (SessionMod - 1)) % SessionMod
Current(s) == <<s, Number(s)>>
DropAllBut(t) ==
    intact' = [s \in Senders |-> intact[s] /\ Current(s) \notin Keys(sessions) \ Keys(t)]

\* A frame is read once, or twice when its sender saw no acknowledgement.
Consumed(s) == out' = out \/ out' = [out EXCEPT ![s] = Tail(@)]

ReadSof(s) ==
    /\ online /\ out[s] /= <<>> /\ Head(out[s]).kind = "sof"
    /\ sessions' = HandleSof(s, Head(out[s]), ScanTimeouts(sessions))
    /\ Consumed(s)
    /\ DropAllBut(sessions')
    /\ complete_msg' = NoMsg
    /\ UNCHANGED <<next_session_id, online, arrivals>>

ReadData(s) ==
    /\ online /\ out[s] /= <<>> /\ Head(out[s]).kind = "data"
    /\ \E alive \in {ScanTimeouts(sessions)} : \E t \in {HandleData(s, Head(out[s]), alive)} :
          LET done == {x \in FullIn(t) : CrcRight(x)} IN
          /\ sessions' = CloseFull(t)
          /\ complete_msg' = IF done = {} THEN NoMsg
                          ELSE LET x == CHOOSE y \in done : TRUE
                               IN [source |-> x.source, bytes |-> x.buffer]
          /\ arrivals' = [p \in Senders |->
                             IF \E x \in done : x.source = p /\ arrivals[p] < 2
                             THEN arrivals[p] + 1 ELSE arrivals[p]]
          /\ DropAllBut(alive)
    /\ Consumed(s)
    /\ UNCHANGED <<next_session_id, online>>

\* Mutant: a read that times out does not look for old sessions.
ReadNothingNoScan ==
    /\ online
    /\ complete_msg' = NoMsg
    /\ UNCHANGED <<senderVars, online, sessions, ghosts>>

\* A read that times out, or a frame that is no fragment: remote, too short or
\* unknown.  A read of less than a frame changes nothing and is no step.
ReadNothing ==
    /\ online
    /\ sessions' = ScanTimeouts(sessions)
    /\ DropAllBut(sessions')
    /\ complete_msg' = NoMsg
    /\ UNCHANGED <<senderVars, online, arrivals>>

\* An error frame says that the bus is off: all sessions are given up.
BusOff ==
    /\ online
    /\ online' = FALSE
    /\ sessions' = <<>>
    /\ DropAllBut(<<>>)
    /\ complete_msg' = NoMsg
    /\ UNCHANGED <<senderVars, arrivals>>

\* The interface goes down: the socket is closed, the sessions stay.
Offline ==
    /\ online
    /\ online' = FALSE
    /\ complete_msg' = NoMsg
    /\ UNCHANGED <<senderVars, sessions, ghosts>>

Reopen ==
    /\ ~online
    /\ online' = TRUE
    /\ complete_msg' = NoMsg
    /\ UNCHANGED <<senderVars, sessions, ghosts>>

Tick ==
    /\ \E k \in DOMAIN sessions : sessions[k].idle <= Timeout
    /\ sessions' = [k \in DOMAIN sessions |->
                       [sessions[k] EXCEPT !.idle = IF @ <= Timeout THEN @ + 1 ELSE @]]
    /\ complete_msg' = NoMsg
    /\ UNCHANGED <<senderVars, online, ghosts>>

Next ==
    \/ \E s \in Senders :
          \/ \E m \in Sends[s] : FragmentTx(s, m)
          \/ SendFails(s) \/ SenderRestarts(s) \/ FrameLost(s)
          \/ ReadSof(s) \/ ReadData(s)
    \/ ReadNothing \/ BusOff \/ Offline \/ Reopen \/ Tick

Spec == Init /\ [][Next]_vars

\* The receiving thread reads again and again, a frame or a timeout, opens the
\* socket again when it is closed, and time goes on.
Read == ReadNothing \/ \E s \in Senders : ReadSof(s) \/ ReadData(s)
Fairness == WF_vars(Reopen) /\ SF_vars(Read) /\ WF_vars(Tick)

LiveSpec == Spec /\ Fairness

-----------------------------------------------------------------------------
Sessions ==
    [source : Senders, sid : 0 .. SessionMod - 1, crc : Senders \X Messages,
     count : Nat, received : SUBSET Nat, received_count : Nat,
     idle : 0 .. Timeout + 1, buffer : Seq(Fragments \cup {Nothing})]

TypeOK ==
    /\ next_session_id \in [Senders -> 0 .. SessionMod - 1]
    /\ out \in [Senders -> Seq(Frames)]
    /\ online \in BOOLEAN
    /\ sessions \in Seq(Sessions) /\ Len(sessions) <= MaxSessions
    /\ \A k \in DOMAIN sessions :
          LET x == sessions[k] IN
          Len(x.buffer) = x.count /\ x.received \subseteq 1 .. x.count
    /\ intact \in [Senders -> BOOLEAN] /\ arrivals \in [Senders -> 0 .. 2]

\* No key has two sessions, so the fragments of a message never spread over two.
OneSessionPerKey ==
    \A j, k \in DOMAIN sessions : Key(sessions[j]) = Key(sessions[k]) => j = k

\* The counter that decides that a message is complete agrees with the bitmap
\* and with the bytes that were copied: repeated frames do not count.
CountAgrees ==
    \A k \in DOMAIN sessions :
        LET x == sessions[k] IN
        /\ x.received_count = Cardinality(x.received)
        /\ x.received = {n \in 1 .. x.count : x.buffer[n] /= Nothing}

\* The table of sessions stays sound through abandoned messages, evictions and
\* numbers that are used again: a key finds one session, and what makes its
\* message complete is what was copied.
SessionTable == TypeOK /\ OneSessionPerKey /\ CountAgrees

\* What is handed on is one message of one sender as it was sent, whatever
\* frames were lost and however session numbers were used again.
CompletedIsWhole ==
    complete_msg.source /= Nothing =>
        \E m \in Sends[complete_msg.source] :
            complete_msg.bytes = [n \in 1 .. Length[m] |-> <<complete_msg.source, m, n>>]

\* A message that nothing disturbed arrives, whatever older sessions of the same
\* key the table still held.
IntactArrives == \A s \in Senders : intact[s] /\ out[s] = <<>> => arrivals[s] > 0

ArrivesOnce == \A s \in Senders : arrivals[s] <= 1

\* A message that nothing disturbed arrives, and once, although frames are
\* repeated and the table still holds older sessions of the same key.
ArrivesExactlyOnce == IntactArrives /\ ArrivesOnce

\* The sessions of a sender that has fallen silent are given up.
SilentIsForgotten ==
    \A s \in Senders :
        <>[](out[s] = <<>>) => <>[](\A k \in DOMAIN sessions : sessions[k].source /= s)
-----------------------------------------------------------------------------
(* The inductive invariant. *)

\* A session in the table is of one message, and waits for more of it.
Unfinished(x) ==
    /\ x.crc[1] = x.source /\ x.crc[2] \in Sends[x.source]
    /\ x.count = Length[x.crc[2]]
    /\ ~IsFull(x)

\* What a sender has left to write is the end of a message, from frame n on.
FrameOf(s, id, m, n) == IF n = 0 THEN Sof(s, id, m) ELSE Data(s, id, m, n)
Rest(s, id, m, n) == [k \in 1 .. Length[m] + 1 - n |-> FrameOf(s, id, m, n + k - 1)]
CutInOrder ==
    \A s \in Senders : out[s] /= <<>> =>
        \E m \in Sends[s] : \E n \in 0 .. Length[m] : out[s] = Rest(s, Number(s), m, n)

\* Once a message has arrived nothing is left that could bring it again: no
\* session of its key, and no start frame.
ArrivedIsOver ==
    \A s \in Senders : arrivals[s] > 0 =>
        /\ arrivals[s] = 1
        /\ out[s] /= <<>> => Head(out[s]).kind = "data" /\ Current(s) \notin Keys(sessions)

\* The session of a message of which frame n is the next to be written, and may
\* have been read before.
UnderWay(x, s, id, m, n) ==
    /\ Key(x) = <<s, id>> /\ x.crc = <<s, m>>
    /\ x.received \in {1 .. n - 1, 1 .. n}
    /\ \A k \in x.received : x.buffer[k] = <<s, m, k>>

\* Where a message is that nothing has disturbed.
IntactIsWhole ==
    \A s \in Senders : intact[s] =>
        \/ out[s] = <<>> /\ arrivals[s] = 1
        \/ \E m \in Sends[s] : \E n \in 0 .. Length[m] :
              /\ out[s] = Rest(s, Number(s), m, n)
              /\ \/ n = 0 /\ arrivals[s] = 0
                 \/ n = Length[m] /\ arrivals[s] = 1
                 \/ /\ n > 0 /\ arrivals[s] = 0
                    /\ \E k \in DOMAIN sessions : UnderWay(sessions[k], s, Number(s), m, n)

CanInv ==
    /\ SessionTable
    /\ \A k \in DOMAIN sessions : Unfinished(sessions[k])
    /\ CompletedIsWhole
    /\ CutInOrder
    /\ ArrivedIsOver
    /\ IntactIsWhole
=============================================================================
