----------------------------- MODULE Connector -----------------------------
(***************************************************************************)
(* The local connector (client.rs): connect_with_shutdown, the resume loop *)
(* reconnect_and_replay, and graceful_shutdown.  It is one task; client.pc *)
(* is the await point at which it waits:                                   *)
(*                                                                         *)
(*   select         the main select! loop, attached to client.socket       *)
(*   send           socket.send(..).await of client.outgoing               *)
(*   dial           no socket: backing off before the next open_socket     *)
(*   await          open_socket: `open` is sent, waiting for `ready`       *)
(*   replay         reconnect_and_replay re-sending frame client.replayAt  *)
(*   send_shutdown  graceful_shutdown_inner writing `shutdown`             *)
(*   wait_complete  waiting for `shutdown_complete`                        *)
(*   done           the program has returned client.result                 *)
(*                                                                         *)
(* client.closing says whether dial and await belong to graceful_shutdown  *)
(* or to reconnect_and_replay.  Deadlines are nondeterministic: a timeout  *)
(* may expire at any await point that is guarded by one.                   *)
(***************************************************************************)
EXTENDS Network, ReplayBuffer

CONSTANTS ClientInput,         \* the lines the local ACP client writes
          ClientFrameBytes,    \* options.max_frame_bytes
          ClientReplayFrames,  \* options.max_replay_frames
          ClientReplayBytes,   \* options.max_replay_bytes
          MaySignal            \* can SIGTERM, SIGINT or a handle stop it?

ASSUME ConnectorAssumption ==
    /\ ClientInput \in Seq(Payloads)
    /\ Size \in [Payloads -> Nat]
    /\ ClientFrameBytes \in Nat
    /\ ClientReplayFrames \in Nat
    /\ ClientReplayBytes \in Nat
    /\ ValidLimits(ClientReplayFrames, ClientReplayBytes, ClientFrameBytes)
    /\ MaySignal \in BOOLEAN

VARIABLES client,          \* the control state of the connector
          clientPending,   \* pending
          nextClient,      \* next_client_sequence
          expectedServer,  \* expected_server_sequence
          stdout           \* every line written to the local stdout

streamVars == <<clientPending, nextClient, expectedServer, stdout>>
clientVars == <<client, streamVars>>

ClientPcs == {"select", "send", "dial", "await", "replay", "send_shutdown",
              "wait_complete", "done"}
Results == {"none", "exit", "shutdown", "error", "protocol", "died"}

\* The control states, given the envelopes the connector can be sending.
ClientState(E) ==
    [pc : ClientPcs, socket : Sockets \cup {NoSocket}, dialled : Sockets,
     closing : BOOLEAN, signalled : BOOLEAN, outgoing : Seq(E),
     replayAt : Nat, result : Results]

PendingFrame == [sequence : Nat \ {0}, payload : Payloads]

ConnectorTypeOK ==
    /\ client \in ClientState(Envelopes)
    /\ clientPending \in Seq(PendingFrame)
    /\ nextClient \in Nat \ {0}
    /\ expectedServer \in Nat \ {0}
    /\ stdout \in Seq(Payloads)

\* The state in which connect_with_shutdown enters its loop.
ConnectorInit ==
    /\ client = [pc |-> "select", socket |-> 1, dialled |-> 1,
                 closing |-> FALSE, signalled |-> FALSE,
                 outgoing |-> << >>, replayAt |-> 0,
                 result |-> "none"]
    /\ clientPending = << >>
    /\ nextClient = 1
    /\ expectedServer = 1
    /\ stdout = << >>

-----------------------------------------------------------------------------
(* Shared endings of a step.                                               *)

\* The program returns r; its socket is dropped with it.
Return(r) ==
    /\ client' = [client EXCEPT !.pc = "done", !.result = r,
                                !.socket = NoSocket, !.outgoing = << >>]
    /\ CloseClientEnd(client.socket)
    /\ UNCHANGED faults

\* The socket is given up: reconnect_and_replay, or the outer loop of
\* graceful_shutdown_inner, will open another one.
Redial ==
    /\ client' = [client EXCEPT !.pc = "dial", !.socket = NoSocket,
                                !.outgoing = << >>, !.replayAt = 0]
    /\ CloseClientEnd(client.socket)

\* Go on to the await point pc.
Continue(pc) == client' = [client EXCEPT !.pc = pc]

\* socket.send(envelope).await
Send(envelope) == client' = [client EXCEPT !.pc = "send",
                                           !.outgoing = <<envelope>>]

\* Incoming is the next message of the socket; Consume takes it off.
Incoming == Head(s2c[client.socket])
HasIncoming == /\ client.socket # NoSocket
               /\ Arrives(s2c, client.socket, ClientFrameBytes)
Consume == /\ s2c' = [s2c EXCEPT ![client.socket] = Tail(@)]
           /\ UNCHANGED <<c2s, up, faults>>

\* Write an envelope: waits for room, and may report success on a socket
\* that is already lost.
Put(envelope) == /\ CanWrite(c2s, client.socket)
                 /\ c2s' = Transmit(c2s, client.socket, envelope)
                 /\ UNCHANGED <<s2c, up, faults>>

-----------------------------------------------------------------------------
(* The main loop.                                                          *)

\* can_read_stdin
CanReadStdin == CanRead(clientPending, ClientReplayFrames, ClientReplayBytes,
                        ClientFrameBytes)

\* lines.recv() returned a line.
ReadStdin ==
    /\ client.pc = "select"
    /\ CanReadStdin
    /\ nextClient <= Len(ClientInput)
    /\ LET line == ClientInput[nextClient]
           frame == [sequence |-> nextClient, payload |-> line]
       IN  IF \/ Size[line] > ClientFrameBytes
              \/ Bytes(clientPending) + Size[line] > ClientReplayBytes
             THEN Return("error") /\ UNCHANGED streamVars
             ELSE /\ clientPending' = Append(clientPending, frame)
                  /\ nextClient' = nextClient + 1
                  /\ Send(Acp(frame))
                  /\ UNCHANGED <<expectedServer, stdout, networkVars>>

\* Mutant: the shutdown cuts into a write that is still waiting.
MutantStartShutdown ==
    /\ client.pc \in {"select", "send"}
    /\ \/ nextClient > Len(ClientInput) /\ CanReadStdin
       \/ client.signalled
    /\ client' = [client EXCEPT !.pc = "send_shutdown", !.closing = TRUE,
                                !.outgoing = << >>]
    /\ UNCHANGED <<streamVars, networkVars>>

\* graceful_shutdown: the local client closed stdin, or a signal arrived.
StartShutdown ==
    /\ client.pc = "select"
    /\ \/ nextClient > Len(ClientInput) /\ CanReadStdin
       \/ client.signalled
    /\ client' = [client EXCEPT !.pc = "send_shutdown", !.closing = TRUE]
    /\ UNCHANGED <<streamVars, networkVars>>

\* Mutant: a line that was seen before counts as new.
MutantExpectedAfter(sequence) ==
    IF sequence <= expectedServer THEN expectedServer + 1 ELSE expectedServer

\* expected_server_sequence after a line with this sequence number.
ExpectedAfter(sequence) ==
    IF sequence = expectedServer THEN expectedServer + 1 ELSE expectedServer

\* An ACP line: written to stdout when it is the next one, acknowledged
\* cumulatively in any case, fatal when a sequence number was skipped.
ReceiveAcp(e) ==
    /\ e.type = "acp"
    /\ IF Size[e.payload] > ClientFrameBytes \/ e.sequence > expectedServer
         THEN Return("protocol") /\ UNCHANGED streamVars
         ELSE /\ stdout' = IF ExpectedAfter(e.sequence) > expectedServer
                             THEN Append(stdout, e.payload) ELSE stdout
              /\ expectedServer' = ExpectedAfter(e.sequence)
              /\ Send(Ack("server_to_client", ExpectedAfter(e.sequence) - 1))
              /\ Consume
              /\ UNCHANGED <<clientPending, nextClient>>

\* A cumulative acknowledgement of this connector's own lines.
ReceiveAck(e) ==
    /\ e.type = "ack"
    /\ IF e.stream # "client_to_server" \/ e.sequence >= nextClient
         THEN Return("protocol") /\ UNCHANGED streamVars
         ELSE /\ \E k \in 0 .. Len(clientPending) :
                   /\ Pops(clientPending, e.sequence, k)
                   /\ clientPending' = Popped(clientPending, k)
              /\ Continue("select")
              /\ Consume
              /\ UNCHANGED <<nextClient, expectedServer, stdout>>

\* Every other envelope of the main loop.
ReceiveControl(e) ==
    /\ e.type \in ControlTypes
    /\ CASE e.type = "ping" -> Send(Control("pong")) /\ Consume
         [] e.type \in {"pong", "stderr"} -> Continue("select") /\ Consume
         [] e.type = "exit" -> Return("exit")
         [] e.type = "error" -> Return("error")
         [] OTHER -> Return("protocol")
    /\ UNCHANGED streamVars

\* socket.next() returned a message.
Receive ==
    /\ client.pc = "select"
    /\ HasIncoming
    /\ ReceiveAcp(Incoming) \/ ReceiveAck(Incoming) \/ ReceiveControl(Incoming)

\* socket.send(..).await of an ACP frame, an acknowledgement or a pong:
\* neither the keepalive deadline nor a signal interrupts it.
WriteOutgoing ==
    /\ client.pc = "send"
    /\ Put(Head(client.outgoing))
    /\ client' = [client EXCEPT !.pc = "select", !.outgoing = << >>]
    /\ UNCHANGED streamVars

\* A write fails, or the stream ends.
LoseSocket ==
    /\ \/ /\ client.pc \in {"send", "replay", "send_shutdown"}
          /\ ~up[client.socket]
       \/ /\ client.pc \in {"select", "await", "wait_complete"}
          /\ AtEnd(s2c, client.socket, ClientFrameBytes)
    /\ Redial
    /\ UNCHANGED <<faults, streamVars>>

\* Nothing was received for keepalive_timeout although the socket is up: the
\* network or the server was too slow, which counts as a fault.
KeepaliveTimeout ==
    /\ client.pc = "select"
    /\ up[client.socket]
    /\ faults < MaxFaults
    /\ faults' = faults + 1
    /\ Redial
    /\ UNCHANGED streamVars

-----------------------------------------------------------------------------
(* reconnect_and_replay, and the resume attempts of a shutdown.            *)

\* open_socket connects and sends `open` with the resume credentials.
Dial ==
    /\ client.pc = "dial"
    /\ client.dialled < MaxSockets
    /\ LET s == client.dialled + 1
       IN  /\ client' = [client EXCEPT !.pc = "await", !.dialled = s,
                                       !.socket = s]
           /\ c2s' = [c2s EXCEPT ![s] = <<Control("open")>>]
           /\ up' = [up EXCEPT ![s] = TRUE]
    /\ UNCHANGED <<streamVars, s2c, faults>>

\* Where the replay starts; none while closing.
MutantReplayFrom == IF client.closing THEN 0 ELSE 2
ReplayFrom == IF client.closing THEN 0 ELSE 1

\* The server's answer to `open`: after `ready` the whole replay buffer is
\* sent again, or only `shutdown` while closing; anything else is an error
\* of this attempt, and the loop tries again.
ReceiveReady ==
    /\ client.pc = "await"
    /\ HasIncoming
    /\ IF Incoming = Control("ready")
         THEN /\ client' = [client EXCEPT
                              !.pc = IF client.closing THEN "send_shutdown"
                                                       ELSE "replay",
                              !.replayAt = ReplayFrom]
              /\ Consume
         ELSE Redial /\ UNCHANGED faults
    /\ UNCHANGED streamVars

\* connection_timeout expires while the server does not answer.
AbandonAttempt ==
    /\ client.pc = "await"
    /\ Redial
    /\ UNCHANGED <<faults, streamVars>>

\* A signal during reconnect_and_replay is noticed between attempts and
\* while open_socket runs, never during the replay.
ShutdownWhileDetached ==
    /\ client.pc \in {"dial", "await"}
    /\ client.signalled /\ ~client.closing
    /\ client' = [client EXCEPT !.pc = "dial", !.socket = NoSocket,
                                !.closing = TRUE]
    /\ CloseClientEnd(client.socket)
    /\ UNCHANGED <<faults, streamVars>>

\* send_acp of the next retained frame on the resumed socket.
ReplayFrame ==
    /\ client.pc = "replay"
    /\ client.replayAt <= Len(clientPending)
    /\ Put(Acp(clientPending[client.replayAt]))
    /\ client' = [client EXCEPT !.replayAt = @ + 1]
    /\ UNCHANGED streamVars

\* Every retained frame was sent: back to the main loop.
FinishReplay ==
    /\ client.pc = "replay"
    /\ client.replayAt > Len(clientPending)
    /\ client' = [client EXCEPT !.pc = "select", !.replayAt = 0]
    /\ UNCHANGED <<streamVars, networkVars>>

\* reconnect_timeout, or shutdown_timeout while closing.
GiveUp ==
    /\ client.pc \in {"dial", "await", "send_shutdown", "wait_complete"}
    /\ Return("error")
    /\ UNCHANGED streamVars

-----------------------------------------------------------------------------
(* graceful_shutdown_inner.                                                *)

SendShutdown ==
    /\ client.pc = "send_shutdown"
    /\ Put(Control("shutdown"))
    /\ Continue("wait_complete")
    /\ UNCHANGED streamVars

\* Lines, acknowledgements and the agent's exit are ignored while closing;
\* a ping is answered inline, and a failure to do so fails the shutdown.
AwaitComplete ==
    /\ client.pc = "wait_complete"
    /\ HasIncoming
    /\ CASE Incoming.type = "shutdown_complete" -> Return("shutdown")
         [] Incoming.type = "ping" ->
              \/ /\ CanWrite(c2s, client.socket)
                 /\ c2s' = Transmit(c2s, client.socket, Control("pong"))
                 /\ s2c' = [s2c EXCEPT ![client.socket] = Tail(@)]
                 /\ UNCHANGED <<client, up, faults>>
              \/ ~up[client.socket] /\ Return("error")
         [] Incoming.type \in {"acp", "ack", "pong", "stderr", "exit"} ->
              Continue("wait_complete") /\ Consume
         [] Incoming.type = "error" -> Return("error")
         [] OTHER -> Return("protocol")
    /\ UNCHANGED streamVars

-----------------------------------------------------------------------------
(* The environment of the connector.                                       *)

\* SIGTERM, SIGINT or the shutdown handle; the first one is recorded.
Signal ==
    /\ MaySignal
    /\ ~client.signalled /\ ~client.closing /\ client.pc # "done"
    /\ client' = [client EXCEPT !.signalled = TRUE]
    /\ UNCHANGED <<streamVars, networkVars>>

\* The process is killed, or fails on its own stdin, stdout or stderr: no
\* `shutdown` is sent.
ConnectorDies ==
    /\ client.pc # "done"
    /\ faults < MaxFaults
    /\ client' = [client EXCEPT !.pc = "done", !.result = "died",
                                !.socket = NoSocket, !.outgoing = << >>,
                                !.replayAt = 0]
    /\ CloseClientEnd(client.socket)
    /\ faults' = faults + 1
    /\ UNCHANGED streamVars

ConnectorNext ==
    \/ ReadStdin \/ StartShutdown \/ Receive \/ WriteOutgoing \/ LoseSocket
    \/ KeepaliveTimeout
    \/ Dial \/ ReceiveReady \/ AbandonAttempt \/ ShutdownWhileDetached
    \/ ReplayFrame \/ FinishReplay \/ GiveUp
    \/ SendShutdown \/ AwaitComplete
    \/ Signal \/ ConnectorDies
=============================================================================
