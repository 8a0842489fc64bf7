------------------------------ MODULE Network ------------------------------
(***************************************************************************)
(* The WebSocket connections between one connector and one server, and the *)
(* envelopes of tunnel protocol v3 that travel on them (protocol.rs).      *)
(*                                                                         *)
(* A socket is a pair of FIFO streams.  It carries data while it is up;    *)
(* once it is down each end still drains what reached it and then sees the *)
(* end of the stream.  What was in flight when a socket went down survives *)
(* only up to some prefix, and nothing is ever reordered or duplicated.    *)
(* A close frame and an I/O error are not told apart: both programs handle *)
(* them alike (server.rs: Closed and Disconnected, client.rs: Close and    *)
(* Err).  A full stream makes its writer wait, as a full TCP window does.  *)
(***************************************************************************)
EXTENDS Integers, Sequences

CONSTANTS Payloads,      \* ACP lines, without their terminator
          EnvelopeSize,  \* the size of the message that carries a line
          MaxSockets,    \* bound: WebSocket connections in a behaviour
          WireCapacity,  \* bound: envelopes in flight in one direction
          MaxFaults      \* bound: transport failures in a behaviour

ASSUME NetworkAssumption == /\ EnvelopeSize \in [Payloads -> Nat]
                            /\ MaxSockets \in Nat \ {0}
                            /\ WireCapacity \in Nat \ {0}
                            /\ MaxFaults \in Nat

VARIABLES c2s,    \* connector-to-server stream of every socket
          s2c,    \* server-to-connector stream of every socket
          up,     \* does the socket still carry data?
          faults  \* transport failures so far

networkVars == <<c2s, s2c, up, faults>>

Sockets == 1 .. MaxSockets
NoSocket == 0

Streams == {"client_to_server", "server_to_client"}
ControlTypes == {"open", "ready", "stderr", "ping", "pong", "exit", "error",
                 "shutdown", "shutdown_complete"}

\* protocol.rs Envelope, as far as the two programs tell envelopes apart.
Envelopes == [type : {"acp"}, sequence : Nat \ {0}, payload : Payloads]
               \cup [type : {"ack"}, stream : Streams, sequence : Nat]
               \cup [type : ControlTypes]

Acp(frame) == [type |-> "acp", sequence |-> frame.sequence,
               payload |-> frame.payload]
Ack(stream, sequence) == [type |-> "ack", stream |-> stream,
                          sequence |-> sequence]
Control(type) == [type |-> type]

NetworkTypeOK == /\ c2s \in [Sockets -> Seq(Envelopes)]
                 /\ s2c \in [Sockets -> Seq(Envelopes)]
                 /\ up \in [Sockets -> BOOLEAN]
                 /\ faults \in 0 .. MaxFaults

\* The handshake of socket 1 is over and its streams are empty.
NetworkInit == /\ c2s = [s \in Sockets |-> << >>]
               /\ s2c = [s \in Sockets |-> << >>]
               /\ up = [s \in Sockets |-> s = 1]
               /\ faults = 0

-----------------------------------------------------------------------------
(* What the two programs do to a stream.                                   *)

HasRoom(stream) == Len(stream) < WireCapacity

\* The reader's WebSocket refuses a message longer than its limit: escapes
\* and the other fields make an envelope longer than the line in it.
TooLong(envelope, limit) ==
    envelope.type = "acp" /\ EnvelopeSize[envelope.payload] > limit

\* The reader of socket s gets a message, or finds an error or the end.
Arrives(stream, s, limit) ==
    stream[s] # << >> /\ ~TooLong(Head(stream[s]), limit)
AtEnd(stream, s, limit) ==
    IF stream[s] = << >> THEN ~up[s] ELSE TooLong(Head(stream[s]), limit)

\* Writing to a socket that is up, and to one that has failed unnoticed.
Transmit(stream, s, envelope) ==
    IF up[s] THEN [stream EXCEPT ![s] = Append(@, envelope)] ELSE stream

CanWrite(stream, s) == up[s] => HasRoom(stream[s])

\* Dropping the server's end of the sockets in S: what it had not read is
\* gone, what it had written may be cut short by the reset.
CloseServerEnd(S) ==
    /\ up' = [s \in Sockets |-> up[s] /\ s \notin S]
    /\ c2s' = [s \in Sockets |-> IF s \in S THEN << >> ELSE c2s[s]]
    /\ \E kept \in 0 .. WireCapacity :
         s2c' = [s \in Sockets |-> IF s \in S /\ kept < Len(s2c[s])
                                     THEN SubSeq(s2c[s], 1, kept) ELSE s2c[s]]

\* Dropping the connector's end of socket s (none when s is NoSocket).
CloseClientEnd(s) ==
    /\ up' = [t \in Sockets |-> up[t] /\ t # s]
    /\ s2c' = [t \in Sockets |-> IF t = s THEN << >> ELSE s2c[t]]
    /\ \E kept \in 0 .. WireCapacity :
         c2s' = [t \in Sockets |-> IF t = s /\ kept < Len(c2s[t])
                                     THEN SubSeq(c2s[t], 1, kept) ELSE c2s[t]]

-----------------------------------------------------------------------------
\* The network loses socket s, with any part of what is in flight.
LinkFails(s) ==
    /\ up[s]
    /\ faults < MaxFaults
    /\ faults' = faults + 1
    /\ up' = [up EXCEPT ![s] = FALSE]
    /\ \E i \in 0 .. Len(c2s[s]), j \in 0 .. Len(s2c[s]) :
         /\ c2s' = [c2s EXCEPT ![s] = SubSeq(@, 1, i)]
         /\ s2c' = [s2c EXCEPT ![s] = SubSeq(@, 1, j)]
=============================================================================
