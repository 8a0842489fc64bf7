------------------------------- MODULE Tunnel -------------------------------
(***************************************************************************)
(* A connector, a server session and the sockets between them: one tunnel, *)
(* from the end of the initial handshake to the end of both programs.      *)
(***************************************************************************)
EXTENDS Connector, ServerSession

\* The message for a line is the line as a JSON string and some more.
ASSUME EnvelopeAssumption == \A p \in Payloads : Size[p] <= EnvelopeSize[p]

vars == <<networkVars, clientVars, serverVars>>

Init == NetworkInit /\ ConnectorInit /\ SessionInit

ConnectorStep == ConnectorNext /\ UNCHANGED serverVars
ServerStep == ServerNext /\ UNCHANGED clientVars
NetworkStep == /\ \E s \in Sockets : LinkFails(s)
               /\ UNCHANGED <<clientVars, serverVars>>

Next == ConnectorStep \/ ServerStep \/ NetworkStep

Spec == Init /\ [][Next]_vars

-----------------------------------------------------------------------------
(* Fairness: every task that can take a step of its own takes one, and     *)
(* every deadline that keeps running expires.  Lines, signals, exits and   *)
(* faults come from outside and are never forced.                          *)

ConnectorWork ==
    \/ Receive \/ WriteOutgoing \/ LoseSocket \/ Dial \/ ReceiveReady
    \/ ReplayFrame \/ FinishReplay \/ ShutdownWhileDetached \/ GiveUp
    \/ SendShutdown \/ AwaitComplete

SessionWork ==
    /\ UNCHANGED <<faults, ambient, clientVars>>
    /\ SessionNext

\* The tunnel task of a resumed socket, and then its transport task.
SocketWork(s) == UNCHANGED clientVars /\ (AcceptResume(s) \/ TaskNext(s))

Fairness ==
    /\ WF_vars(UNCHANGED serverVars /\ ConnectorWork)
    /\ WF_vars(SessionWork)
    /\ \A s \in Sockets : WF_vars(SocketWork(s))

FairSpec == Spec /\ Fairness

\* Less than that is enough for what the liveness properties promise: as long
\* as some task can take a step, some task takes one.  No task has to get its
\* turn, as none can go on forever without the others.
Work == \/ SessionWork
        \/ UNCHANGED serverVars /\ ConnectorWork
        \/ \E s \in Sockets : SocketWork(s)

LiveSpec == Spec /\ WF_vars(Work)

-----------------------------------------------------------------------------
(* Safety.                                                                 *)

\* Every variable has its type: queues hold envelopes, pcs are await points.
TypeOK == NetworkTypeOK /\ ConnectorTypeOK /\ SessionTypeOK

\* The lines the connector has read, as the session will handle them.
ClientLog == [n \in 1 .. nextClient - 1 |-> Apply[ClientInput[n]]]

ToAgent == INSTANCE ReliablePipe WITH written <- ClientLog,
                                      delivered <- handled
ToStdout == INSTANCE ReliablePipe WITH written <- outputs,
                                       delivered <- stdout

\* The connector's input reaches the policy and the agent's stdin exactly
\* once and in order, across any number of resumed transports.
InputIsReliable == ToAgent!PipeSpec

\* What the session queues for the connector (agent lines and rejections)
\* comes out of the connector's stdout exactly once and in order.
OutputIsReliable == ToStdout!PipeSpec

\* A line the connector has read stays in its replay buffer until the
\* session has handled it, whatever acknowledgements were lost or repeated.
ConnectorRetains ==
    \A n \in expectedClient .. nextClient - 1 :
      \E i \in 1 .. Len(clientPending) :
        clientPending[i] = [sequence |-> n, payload |-> ClientInput[n]]

\* A line the session has queued stays in its replay buffer until the
\* connector has written it to stdout.
SessionRetains ==
    \A n \in expectedServer .. nextServer - 1 :
      \E i \in 1 .. Len(serverPending) :
        /\ serverPending[i].sequence = n
        /\ serverPending[i].payload = outputs[n]

\* Neither peer ever sees the other break the protocol: no sequence gap, no
\* acknowledgement of something unsent, no envelope out of place.
PeersAgree ==
    /\ session.endCategory \notin
         {"oversized_acp_line", "client_sequence_gap",
          "invalid_acknowledgement", "unexpected_acknowledgement",
          "unexpected_envelope"}
    /\ client.result # "protocol"

\* Both replay buffers respect their two limits, rejections included.
ReplayBounded ==
    /\ Len(clientPending) <= ClientReplayFrames
    /\ Bytes(clientPending) <= ClientReplayBytes
    /\ Len(serverPending) <= ServerReplayFrames
    /\ Bytes(serverPending) <= ServerReplayBytes

\* The loop gives up an attached transport only because that transport is
\* gone, timed out, stuck in a write, or failed to take Exit: not because of an
\* old one.
OnlyLostTransportsDetach ==
    [][/\ session.transport # NoSocket
       /\ session'.transport = NoSocket
       /\ session'.pc \in {"top", "select"}
       => \/ ~up[session.transport] \/ Stalled(session.transport)
          \/ faults' > faults
          \/ session.pc \in {"exit", "exit_wait"}]_vars

\* A connector that returns successfully, because its shutdown was confirmed
\* or the agent's exit was reported, leaves no agent behind.
ReportedEndReaps ==
    client.result \in {"exit", "shutdown"} =>
      /\ ~agent.alive
      /\ session.childStatus
      /\ client.result = "shutdown" => session.endCategory = "client_shutdown"

\* However the loop ends, by a shutdown on either side, the agent's exit, the
\* grace period, its output, a full replay buffer or a protocol violation, the
\* agent is gone when run_agent_session returns; only the three early returns
\* on an error of AcpPolicy::apply, of a write to an agent that has closed its
\* stdin and of the reaping leave it running (see ServerShutdownReaps of
\* Registry).
EndedSessionReaps ==
    /\ session.pc = "ended"
    /\ session.endCategory \notin EarlyReturns
    => ~agent.alive

\* Exit is queued behind the lines the session retains, on whichever
\* transport it has by then, and the connector returns when it reads it: all
\* those lines have come out.  The session counts the exit as reported only
\* once Exit was written or the task that was to write it has stopped.
ExitComesLast ==
    /\ client.result = "exit" => stdout = outputs
    /\ session.pc = "reap" /\ session.endCategory = "child_exit" =>
         \/ session.sent = "sent"
         \/ tasks[session.transport].state # "running"

\* A shutdown that was confirmed on the first transport found every line the
\* connector had read: `shutdown` never overtakes a line.
ShutdownDeliversInput ==
    client.result = "shutdown" /\ client.dialled = 1 =>
      handled = ClientLog

(***************************************************************************)
(* The life of the session, from the end of its handshake on: it attaches, *)
(* replaces and loses its sockets, ends and reaps the agent in no other    *)
(* way than SessionLife allows, and any session of Registry does.  The     *)
(* socket that is being attached is still the first of those that wait; an *)
(* agent left running by an early return is orphaned.                      *)
(***************************************************************************)
Phase == CASE session.pc \in {"reap", "farewell", "farewell_wait"} -> "ending"
           [] session.pc = "ended" -> "over"
           [] OTHER -> "open"
Waiting == IF session.attaching = NoSocket
             THEN attachments ELSE <<session.attaching>> \o attachments
AgentState == CASE ~agent.alive -> "gone"
                [] /\ agent.alive
                   /\ session.endCategory \in EarlyReturns -> "orphaned"
                [] OTHER -> "running"
Reason == CASE Phase # "ending" -> "none"
            [] /\ Phase = "ending"
               /\ session.endCategory \in
                    {"child_exit", "server_shutdown", "client_shutdown",
                     "reconnect_timeout", "agent_stdout_line"} ->
                 session.endCategory
            [] OTHER -> "protocol"

Life == INSTANCE SessionLife
          WITH Nobody <- NoSocket, phase <- Phase, holder <- session.transport,
               waiting <- Waiting, resumable <- session.registered,
               agent <- AgentState, deadline <- session.deadline,
               reason <- Reason, cancelled <- ambient.cancelled

SessionLives == Life!Opened /\ [][Life!Next]_(Life!vars)

-----------------------------------------------------------------------------
(* The inductive invariant behind InputIsReliable and OutputIsReliable:    *)
(* wherever an ACP line is held or in flight, its sequence number tells    *)
(* which line it is.                                                       *)

\* The frames a connector, and a session, can have retained.
ClientFrames == {f \in PendingFrame : /\ f.sequence < nextClient
                                      /\ f.payload = ClientInput[f.sequence]}
ServerFrames == {f \in ServerFrame : /\ f.sequence < nextServer
                                     /\ f.payload = outputs[f.sequence]}

\* The envelopes each of them can have sent.
ClientEnvelopes == {e \in Envelopes : e.type = "acp" =>
                                        /\ e.sequence < nextClient
                                        /\ e.payload = ClientInput[e.sequence]}
ServerEnvelopes == {e \in Envelopes : e.type = "acp" =>
                                        /\ e.sequence < nextServer
                                        /\ e.payload = outputs[e.sequence]}
ClientEvents == {v \in Event : v.kind = "envelope" =>
                                 v.envelope \in ClientEnvelopes}

NetworkInv == /\ c2s \in [Sockets -> Seq(ClientEnvelopes)]
              /\ s2c \in [Sockets -> Seq(ServerEnvelopes)]
              /\ up \in [Sockets -> BOOLEAN]
              /\ faults \in 0 .. MaxFaults

ConnectorInv ==
    /\ client \in ClientState(ClientEnvelopes)
    /\ client.pc = "send" => client.outgoing # << >>
    /\ client.pc = "replay" => client.replayAt > 0

RetainedInv ==
    /\ clientPending \in Seq(ClientFrames)
    /\ nextClient \in 1 .. Len(ClientInput) + 1

\* What was written to the local stdout is a prefix of what was queued.
StdoutInv ==
    /\ expectedServer \in 1 .. nextServer
    /\ stdout = [n \in 1 .. expectedServer - 1 |-> outputs[n]]

SessionInv ==
    /\ session \in SessionState(ServerEnvelopes)
    /\ session.pc = "reply" => session.outbox # << >>
    /\ attachments \in Seq(Sockets)
    /\ agent \in [alive : BOOLEAN, written : 0 .. Len(AgentOutput),
                  read : 0 .. Len(AgentOutput)]
    /\ ambient \in [cancelled : BOOLEAN, noise : 0 .. MaxNoise]

ChannelInv ==
    /\ tasks \in [Sockets -> Task(ServerEnvelopes, ClientEvents)]
    /\ events \in Seq(ClientEvents)

QueueInv ==
    /\ outputs \in Seq(Payloads)
    /\ nextServer = Len(outputs) + 1
    /\ serverPending \in Seq(ServerFrames)

\* What was handled is a prefix of what the connector read.
HandledInv ==
    /\ expectedClient \in 1 .. nextClient
    /\ handled = [n \in 1 .. expectedClient - 1 |-> Apply[ClientInput[n]]]

\* Every ACP line in a stream, a queue or a replay buffer is the line its
\* sequence number names, and both ends have written exactly the lines below
\* their expected sequence number.
LinesKeepTheirNumbers ==
    /\ NetworkInv /\ ConnectorInv /\ RetainedInv /\ StdoutInv
    /\ SessionInv /\ ChannelInv /\ QueueInv /\ HandledInv

-----------------------------------------------------------------------------
(* Liveness, under LiveSpec.  Lines and ends do come through, but for two   *)
(* ways to wait forever.                                                   *)

TunnelOver == client.pc = "done" \/ session.pc = "ended"

\* The message for one of the first n lines is longer than its reader takes.
\* It was within the limit for lines, so it is sent again on every transport
\* and ends each of them.
Stuck(lines, n, limit) ==
    \E k \in 1 .. n : k <= Len(lines) /\ EnvelopeSize[lines[k]] > limit

\* Every line that was read, and is not behind a stuck one, was handled; every
\* line that was queued was written.
InputHandled ==
    \A n \in expectedClient .. nextClient - 1 :
      Stuck(ClientInput, n, ServerFrameBytes)
OutputWritten ==
    \A n \in expectedServer .. nextServer - 1 :
      Stuck(outputs, n, ClientFrameBytes)

\* The first way: no transport, and no deadline (see DetachedHasDeadline).
Stranded == /\ session.pc = "select"
            /\ session.transport = NoSocket
            /\ ~session.deadline

\* The second way (see ShutdownTerminatesAgent): the session waits, outside
\* of its select! and so without keepalive, for room in the full command
\* channel of its transport task, to acknowledge a line or to report its end;
\* the task waits for room in the full event channel, or for a connector that
\* itself waits in a write until the task reads.
Deadlocked ==
    /\ \/ session.pc = "reply"
       \/ session.pc = "farewell" /\ Len(session.outbox) = 2
    /\ Open(session.transport)
    /\ ~CommandRoom(session.transport)
    /\ \/ tasks[session.transport].held # << >> /\ ~EventRoom
       \/ /\ Stalled(session.transport)
          /\ client.socket = session.transport
          /\ client.pc \in {"send", "replay"}
          /\ ~CanWrite(c2s, client.socket)

Wedged == Stranded \/ Deadlocked

\* The lines a connector has read are handled by the session eventually, on
\* this transport or on a resumed one, unless one of the two is over or the
\* session is wedged.  A line that was handled stays so, hence no line is left
\* behind that was read at any time.
InputGetsThrough == []<>(TunnelOver \/ InputHandled) \/ <>[]Wedged

\* The lines a session has queued reach the connector's stdout eventually,
\* unless one of the two is over, the connector is shutting down or the
\* session is wedged.
OutputGetsThrough ==
    \/ []<>(TunnelOver \/ client.closing \/ OutputWritten)
    \/ <>[]Wedged

\* Once the connector is gone the session ends, unless it is wedged.
SessionFollows ==
    []<>(client.pc = "done" => session.pc = "ended") \/ <>[]Wedged

-----------------------------------------------------------------------------
(* What the documents or the code's own names say and the code does not do *)
(* in every case.  Each one is violated by a behaviour of this module.     *)

\* docs/protocol.md, "exactly-once delivery to each local pipe": when the
\* connector reports the agent's exit, every line the agent had written was
\* read from its stdout and came out.
ExitReportsAllOutput ==
    client.result = "exit" /\ session.endCategory = "child_exit" =>
      agent.read = agent.written /\ stdout = outputs

\* docs/protocol.md, "The server retains the process for
\* reconnect_grace_seconds": a session that waits without a transport waits
\* for a deadline.
DetachedHasDeadline == ~Stranded

\* docs/protocol.md, "server shutdown terminates and reaps the complete
\* remote process group" (under FairSpec): once the server is shut down the
\* agent is terminated, whatever the session was doing.
ShutdownTerminatesAgent == ambient.cancelled ~> ~agent.alive
=============================================================================
