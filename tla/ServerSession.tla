--------------------------- MODULE ServerSession ---------------------------
(***************************************************************************)
(* One agent session of the server (server.rs): run_agent_session and the  *)
(* transport tasks it starts, with the agent process as far as the session *)
(* sees it and the tunnel tasks that bring resumed sockets.                *)
(*                                                                         *)
(* session.pc is the point at which the session task waits:                *)
(*                                                                         *)
(*   top       the head of the loop: pump_replay, then the exit check      *)
(*   select    the select! of the loop                                     *)
(*   reply     commands.send(..).await of an acknowledgement or a pong     *)
(*   attach    attach_transport filling the commands of a new transport    *)
(*   exit      send_exit, enqueueing Exit                                  *)
(*   exit_wait send_exit, waiting for the transport's `sent`               *)
(*   reap      the loop is over: stopping and reaping the agent            *)
(*   farewell  enqueueing the last envelopes for the connector             *)
(*   farewell_wait  waiting for the transport to write the last of them    *)
(*   ended     run_agent_session has returned                              *)
(*                                                                         *)
(* A socket is attached at most once, so its identity stands for the       *)
(* transport generation: the code only compares generations for equality.  *)
(***************************************************************************)
EXTENDS Network, ReplayBuffer

CONSTANTS AgentOutput,         \* the lines the agent writes to its stdout
          Apply,               \* AcpPolicy::apply on every line
          ServerFrameBytes,    \* config.max_frame_bytes
          ServerReplayFrames,  \* config.max_replay_frames
          ServerReplayBytes,   \* config.max_replay_bytes
          ChannelCapacity,     \* config.channel_capacity
          EventCapacity,       \* event_capacity: 2 * channel_capacity, 8 or more
          MaxNoise,            \* bound: keepalive pings and stderr lines
          MayCancel,           \* can the server be shut down?
          MayExit,             \* can the agent exit by itself?
          MayOutlast,          \* can the agent outlast SIGKILL for a while?
          MayCloseStdin        \* can the agent close its stdin and run on?

\* What AcpPolicy::apply makes of a line: Ok(Forward(line)), Ok(Reject(line))
\* or Err.
PolicyOutcome == [outcome : {"forward", "reject", "error"}, line : Payloads]

ASSUME SessionAssumption ==
    /\ AgentOutput \in Seq(Payloads)
    /\ Size \in [Payloads -> Nat]
    /\ Apply \in [Payloads -> PolicyOutcome]
    /\ ServerFrameBytes \in Nat
    /\ ServerReplayFrames \in Nat
    /\ ServerReplayBytes \in Nat
    /\ ValidLimits(ServerReplayFrames, ServerReplayBytes, ServerFrameBytes)
    /\ ChannelCapacity \in Nat \ {0}
    /\ EventCapacity \in Nat \ {0}
    /\ MaxNoise \in Nat
    /\ MayCancel \in BOOLEAN
    /\ MayExit \in BOOLEAN
    /\ MayOutlast \in BOOLEAN
    /\ MayCloseStdin \in BOOLEAN

VARIABLES session,         \* the control state of the session task
          tasks,           \* the transport task of every socket
          events,          \* transport_event_rx
          attachments,     \* resumed sockets waiting for the session
          serverPending,   \* pending
          nextServer,      \* next_server_sequence
          expectedClient,  \* expected_client_sequence
          handled,         \* what became of every accepted client line: the
                           \* forwarded ones were written to agent stdin
          outputs,         \* every line ever queued for the connector
          agent,           \* the agent process and its stdout pipe
          ambient          \* the server's shutdown token, pings and stderr

channelVars == <<tasks, events, attachments>>
frameVars == <<serverPending, nextServer, expectedClient, handled, outputs>>
agentVars == <<agent, ambient>>
serverVars == <<session, channelVars, frameVars, agentVars>>

AttachmentCapacity == 2

SessionPcs == {"top", "select", "reply", "attach", "exit", "exit_wait", "reap",
               "farewell", "farewell_wait", "ended"}
EndCategories == {"none", "child_exit", "server_shutdown", "client_shutdown",
                  "reconnect_timeout", "agent_stdout_line",
                  "oversized_acp_line", "client_sequence_gap",
                  "replay_buffer_exhausted", "invalid_acknowledgement",
                  "unexpected_acknowledgement", "unexpected_envelope",
                  "policy_error", "stdin_error", "reap_error"}
\* The errors that leave run_agent_session in front of its cleanup: of
\* AcpPolicy::apply, of a write to the agent's stdin and of the reaping.
EarlyReturns == {"policy_error", "stdin_error", "reap_error"}

\* transport and attaching name sockets; deadline is detached_deadline being
\* set, childStatus the exit status being known, sent the oneshot of the last
\* Exit or ShutdownComplete, registered the entry in state.sessions.  E is the
\* set of envelopes it can be sending.
SessionState(E) ==
    [pc : SessionPcs, transport : Sockets \cup {NoSocket},
     attaching : Sockets \cup {NoSocket}, setupAt : Nat,
     outbox : Seq(E), sent : {"no", "waiting", "sent", "dropped"},
     deadline : BOOLEAN, childStatus : BOOLEAN, endCategory : EndCategories,
     registered : BOOLEAN]

\* ReplayFrame; sentOn is last_sent_generation.
ServerFrame == [sequence : Nat \ {0}, payload : Payloads,
                sentOn : Sockets \cup {NoSocket}]
\* TransportEvent: an envelope, or that the socket is gone.  Writable, whose
\* only effect is to run the loop once more, is the action Wake.
Event == [socket : Sockets, kind : {"envelope"}, envelope : Envelopes]
           \cup [socket : Sockets, kind : {"disconnected"}]
\* A transport task: its command queue, the envelope it is writing and the
\* event it is handing over, each of the two while it has to wait.
Task(E, V) == [state : {"none", "running", "stopped"}, commands : Seq(E),
               writing : Seq(E), held : Seq(V)]
NoTask == [state |-> "none", commands |-> << >>, writing |-> << >>,
           held |-> << >>]
StartedTask == [NoTask EXCEPT !.state = "running"]
StoppedTask == [NoTask EXCEPT !.state = "stopped"]

SessionTypeOK ==
    /\ session \in SessionState(Envelopes)
    /\ tasks \in [Sockets -> Task(Envelopes, Event)]
    /\ events \in Seq(Event)
    /\ attachments \in Seq(Sockets)
    /\ serverPending \in Seq(ServerFrame)
    /\ nextServer \in Nat \ {0}
    /\ expectedClient \in Nat \ {0}
    /\ handled \in Seq(PolicyOutcome)
    /\ outputs \in Seq(Payloads)
    /\ agent \in [alive : BOOLEAN, written : 0 .. Len(AgentOutput),
                  read : 0 .. Len(AgentOutput)]
    /\ ambient \in [cancelled : BOOLEAN, noise : 0 .. MaxNoise]

\* The loop is entered once `ready` was written to the first socket.
SessionInit ==
    /\ session = [pc |-> "top", transport |-> 1, attaching |-> NoSocket,
                  setupAt |-> 0, outbox |-> << >>, sent |-> "no",
                  deadline |-> FALSE, childStatus |-> FALSE,
                  endCategory |-> "none", registered |-> TRUE]
    /\ tasks = [s \in Sockets |-> IF s = 1 THEN StartedTask ELSE NoTask]
    /\ events = << >>
    /\ attachments = << >>
    /\ serverPending = << >>
    /\ nextServer = 1
    /\ expectedClient = 1
    /\ handled = << >>
    /\ outputs = << >>
    /\ agent = [alive |-> TRUE, written |-> 0, read |-> 0]
    /\ ambient = [cancelled |-> FALSE, noise |-> 0]

-----------------------------------------------------------------------------
(* spawn_transport: the task that owns a socket.                           *)

EventRoom == Len(events) < EventCapacity

\* What becomes of `sent` when the task of s returns or writes envelope e.
SentDropped(s) ==
    IF s = session.transport /\ session.sent = "waiting"
      THEN "dropped" ELSE session.sent
SentAfter(s, e) ==
    IF /\ s = session.transport
       /\ session.sent = "waiting"
       /\ e.type \in {"exit", "shutdown_complete"}
      THEN "sent" ELSE session.sent

\* The task returns; its receiver of commands and its socket go with it, and
\* so does the sender of `sent` if it had not been used.
StopTask(s) ==
    /\ tasks' = [tasks EXCEPT ![s] = StoppedTask]
    /\ session' = [session EXCEPT !.sent = SentDropped(s)]
    /\ CloseServerEnd({s})
    /\ UNCHANGED faults

\* The task waits in its own select!, neither writing nor handing over.
Selecting(s) == /\ tasks[s].state = "running"
                /\ tasks[s].writing = << >>
                /\ tasks[s].held = << >>

HasCommand(s) == /\ tasks[s].state = "running"
                 /\ tasks[s].held = << >>
                 /\ tasks[s].writing # << >> \/ tasks[s].commands # << >>

\* The command being written: the blocked one first.
Current(s) == IF tasks[s].writing # << >> THEN Head(tasks[s].writing)
                                          ELSE Head(tasks[s].commands)

\* socket.send of a command succeeds; Exit reports it through `sent`.
TaskWrites(s) ==
    /\ HasCommand(s)
    /\ Current(s).type # "shutdown_complete"
    /\ CanWrite(s2c, s)
    /\ s2c' = Transmit(s2c, s, Current(s))
    /\ tasks' = IF tasks[s].writing # << >>
                  THEN [tasks EXCEPT ![s].writing = << >>]
                  ELSE [tasks EXCEPT ![s].commands = Tail(@)]
    /\ session' = [session EXCEPT !.sent = SentAfter(s, Current(s))]
    /\ UNCHANGED <<frameVars, agentVars, events, attachments, c2s, up, faults>>

\* ShutdownComplete is reported too, after which the task closes the socket
\* and returns; input it left unread can make the close cut the stream short.
TaskFinishes(s) ==
    /\ HasCommand(s)
    /\ Current(s).type = "shutdown_complete"
    /\ CanWrite(s2c, s)
    /\ tasks' = [tasks EXCEPT ![s] = StoppedTask]
    /\ session' = [session EXCEPT !.sent = SentAfter(s, Current(s))]
    /\ LET stream == Transmit(s2c, s, Current(s))[s]
       IN  \E kept \in 0 .. Len(stream) :
             s2c' = [s2c EXCEPT ![s] = SubSeq(stream, 1, kept)]
    /\ c2s' = [c2s EXCEPT ![s] = << >>]
    /\ up' = [up EXCEPT ![s] = FALSE]
    /\ UNCHANGED <<frameVars, agentVars, events, attachments, faults>>

\* The stream is full: the task stays in socket.send and no longer reads.
TaskBlocks(s) ==
    /\ Selecting(s)
    /\ tasks[s].commands # << >>
    /\ ~CanWrite(s2c, s)
    /\ tasks' = [tasks EXCEPT ![s].writing = <<Head(tasks[s].commands)>>,
                              ![s].commands = Tail(@)]
    /\ UNCHANGED <<session, frameVars, agentVars, attachments, events,
                   networkVars>>

\* socket.send fails: the last event, dropped if the channel is full and not
\* sent at all when it was ShutdownComplete.
TaskWriteFails(s) ==
    /\ HasCommand(s)
    /\ ~up[s]
    /\ events' = IF EventRoom /\ Current(s).type # "shutdown_complete"
                   THEN Append(events, [socket |-> s, kind |-> "disconnected"])
                   ELSE events
    /\ StopTask(s)
    /\ UNCHANGED <<frameVars, agentVars, attachments>>

\* socket.recv returns an envelope; events.send waits when there is no room.
TaskReads(s) ==
    /\ Selecting(s)
    /\ session.pc # "ended"
    /\ Arrives(c2s, s, ServerFrameBytes)
    /\ LET event == [socket |-> s, kind |-> "envelope",
                     envelope |-> Head(c2s[s])]
       IN  IF EventRoom
             THEN events' = Append(events, event) /\ UNCHANGED tasks
             ELSE /\ tasks' = [tasks EXCEPT ![s].held = <<event>>]
                  /\ UNCHANGED events
    /\ c2s' = [c2s EXCEPT ![s] = Tail(@)]
    /\ UNCHANGED <<session, frameVars, agentVars, attachments, s2c, up, faults>>

\* socket.recv returns a close, an error or the end: the last event.
TaskSeesEnd(s) ==
    /\ Selecting(s)
    /\ AtEnd(c2s, s, ServerFrameBytes)
    /\ LET event == [socket |-> s, kind |-> "disconnected"]
       IN  IF EventRoom
             THEN events' = Append(events, event) /\ StopTask(s)
             ELSE /\ tasks' = [tasks EXCEPT ![s].held = <<event>>]
                  /\ UNCHANGED <<session, events, networkVars>>
    /\ UNCHANGED <<frameVars, agentVars, attachments>>

\* events.send(..).await finds room again.
TaskHandsOver(s) ==
    /\ tasks[s].held # << >>
    /\ EventRoom
    /\ LET event == Head(tasks[s].held)
       IN  /\ events' = Append(events, event)
           /\ IF event.kind = "disconnected"
                THEN StopTask(s)
                ELSE /\ tasks' = [tasks EXCEPT ![s].held = << >>]
                     /\ UNCHANGED <<session, networkVars>>
    /\ UNCHANGED <<frameVars, agentVars, attachments>>

\* A task whose handle was dropped without abort writes what was enqueued,
\* then closes; once the session is gone it also stops at the next event.
OrphanStops(s) ==
    /\ tasks[s].state = "running"
    /\ s \notin {session.transport, session.attaching}
    /\ \/ Selecting(s) /\ tasks[s].commands = << >>
       \/ Selecting(s) /\ session.pc = "ended" /\ c2s[s] # << >>
       \/ tasks[s].held # << >> /\ session.pc = "ended"
    /\ StopTask(s)
    /\ UNCHANGED <<frameVars, agentVars, attachments, events>>

TaskNext(s) == \/ TaskWrites(s) \/ TaskFinishes(s)
               \/ TaskBlocks(s) \/ TaskWriteFails(s)
               \/ TaskReads(s) \/ TaskSeesEnd(s) \/ TaskHandsOver(s)
               \/ OrphanStops(s)

-----------------------------------------------------------------------------
(* run_agent_session: the head of the loop.                                *)

\* The receiver of s's commands is alive, and there is room for one more.
Open(s) == tasks[s].state = "running"
CommandRoom(s) == Len(tasks[s].commands) < ChannelCapacity
Enqueue(s, envelope) ==
    tasks' = [tasks EXCEPT ![s].commands = Append(@, envelope)]
\* commands.try_send of something that may be dropped.
TryEnqueue(s, envelope) ==
    IF s # NoSocket /\ Open(s) /\ CommandRoom(s)
      THEN Enqueue(s, envelope) ELSE UNCHANGED tasks

\* Go on at pc; the loop ends with this category.
Proceed(pc) == session' = [session EXCEPT !.pc = pc]
\* Mutant: the loop ends without reaping the agent.
MutantEndLoop(category) ==
    session' = [session EXCEPT !.pc = "farewell", !.endCategory = category]
EndLoop(category) ==
    session' = [session EXCEPT !.pc = "reap", !.endCategory = category]

\* Mutant: the grace period is not started.
MutantDetach(pc) ==
    /\ session' = [session EXCEPT !.pc = pc, !.transport = NoSocket, !.sent = "no"]
    /\ tasks' = [tasks EXCEPT ![session.transport] = StoppedTask]
    /\ CloseServerEnd({session.transport})
    /\ UNCHANGED <<frameVars, attachments>>

\* detach_transport: abort the task; a deadline already running is kept.
Detach(pc) ==
    /\ session' = [session EXCEPT !.pc = pc, !.transport = NoSocket,
                                  !.deadline = TRUE, !.sent = "no"]
    /\ tasks' = [tasks EXCEPT ![session.transport] = StoppedTask]
    /\ CloseServerEnd({session.transport})
    /\ UNCHANGED <<frameVars, attachments>>

\* Frames not yet handed to the current transport.
Unsent == {i \in 1 .. Len(serverPending) :
             serverPending[i].sentOn # session.transport}

\* pump_replay hands over the first such frame (try_send).
PumpReplay ==
    /\ session.pc = "top"
    /\ session.transport # NoSocket
    /\ Open(session.transport)
    /\ CommandRoom(session.transport)
    /\ \E i \in Unsent :
         /\ \A j \in Unsent : i <= j
         /\ Enqueue(session.transport, Acp(serverPending[i]))
         /\ serverPending' = [serverPending EXCEPT
                                ![i].sentOn = session.transport]
    /\ UNCHANGED <<session, nextServer, expectedClient, handled, outputs,
                   agentVars, events, attachments, networkVars>>

\* pump_replay finds the channel closed.
PumpFindsClosed ==
    /\ session.pc = "top"
    /\ session.transport # NoSocket
    /\ ~Open(session.transport)
    /\ Unsent # {}
    /\ Detach("select")
    /\ UNCHANGED <<agentVars, events, faults>>

\* Mutant: Exit does not wait for frames that found the channel full.
MutantEnterSelect ==
    /\ session.pc = "top"
    /\ session.transport # NoSocket /\ Unsent # {} =>
         Open(session.transport) /\ ~CommandRoom(session.transport)
    /\ Proceed(IF session.childStatus /\ session.transport # NoSocket
                 THEN "exit" ELSE "select")
    /\ UNCHANGED <<frameVars, agentVars, channelVars, networkVars>>

\* pump_replay is done: report the agent's exit once every frame was handed
\* over, otherwise wait for the next event.
EnterSelect ==
    /\ session.pc = "top"
    /\ session.transport # NoSocket /\ Unsent # {} =>
         Open(session.transport) /\ ~CommandRoom(session.transport)
    /\ Proceed(IF /\ session.childStatus
                  /\ session.transport # NoSocket
                  /\ Unsent = {}
                 THEN "exit" ELSE "select")
    /\ UNCHANGED <<frameVars, agentVars, channelVars, networkVars>>

\* send_exit enqueues Exit.
SendExit ==
    /\ session.pc = "exit"
    /\ Open(session.transport)
    /\ CommandRoom(session.transport)
    /\ Enqueue(session.transport, Control("exit"))
    /\ session' = [session EXCEPT !.pc = "exit_wait", !.sent = "waiting"]
    /\ UNCHANGED <<frameVars, agentVars, events, attachments, networkVars>>

\* send_exit returns true when the receiver of `sent` resolves at all: the
\* transport wrote Exit, or it stopped and dropped the sender.
ExitConfirmed ==
    /\ session.pc = "exit_wait"
    /\ session.sent \in {"sent", "dropped"}
    /\ EndLoop("child_exit")
    /\ UNCHANGED <<frameVars, agentVars, channelVars, networkVars>>

\* send_exit returns false: closed channel, or shutdown_timeout.
ExitFails ==
    /\ \/ /\ session.pc = "exit"
          /\ ~(Open(session.transport) /\ CommandRoom(session.transport))
       \/ session.pc = "exit_wait" /\ session.sent = "waiting"
    /\ Detach("select")
    /\ UNCHANGED <<agentVars, events, faults>>

-----------------------------------------------------------------------------
(* The branches of the select!.                                            *)

\* process.wait()
ChildWait ==
    /\ session.pc = "select"
    /\ ~session.childStatus
    /\ ~agent.alive
    /\ session' = [session EXCEPT !.pc = "top", !.childStatus = TRUE]
    /\ UNCHANGED <<frameVars, agentVars, channelVars, networkVars>>

\* attachments.recv(): the previous transport is aborted and a task is
\* started for the new socket.
TakeAttachment ==
    /\ session.pc = "select"
    /\ attachments # << >>
    /\ LET s == Head(attachments)
       IN  /\ session' = [session EXCEPT !.pc = "attach", !.attaching = s,
                                         !.setupAt = 0, !.transport = NoSocket]
           /\ tasks' = [t \in Sockets |->
                          IF t = s THEN StartedTask
                          ELSE IF t = session.transport THEN StoppedTask
                          ELSE tasks[t]]
    /\ CloseServerEnd({session.transport})
    /\ attachments' = Tail(attachments)
    /\ UNCHANGED <<frameVars, agentVars, events, faults>>

\* Mutant: the acknowledgement is one short, and underflows on a new session.
MutantSetupEnvelope(i) ==
    CASE i = 0 -> Control("ready")
      [] i = 1 -> Ack("client_to_server", expectedClient - 2)
      [] OTHER -> Acp(serverPending[i - 1])
\* attach_transport enqueues `ready`, the acknowledgement of everything
\* received so far and then every retained frame.
SetupEnvelope(i) ==
    CASE i = 0 -> Control("ready")
      [] i = 1 -> Ack("client_to_server", expectedClient - 1)
      [] OTHER -> Acp(serverPending[i - 1])
SetupLength == Len(serverPending) + 2

AttachEnqueues ==
    /\ session.pc = "attach"
    /\ session.setupAt < SetupLength
    /\ Open(session.attaching)
    /\ CommandRoom(session.attaching)
    /\ Enqueue(session.attaching, SetupEnvelope(session.setupAt))
    /\ serverPending' = IF session.setupAt <= 1 THEN serverPending
                        ELSE [serverPending EXCEPT
                                ![session.setupAt - 1].sentOn =
                                  session.attaching]
    /\ session' = [session EXCEPT !.setupAt = @ + 1]
    /\ UNCHANGED <<nextServer, expectedClient, handled, outputs, agentVars,
                   events, attachments, networkVars>>

\* Mutant: the retained frames are marked as sent before they are.
MutantAttachSucceeds ==
    /\ session.pc = "attach"
    /\ session.setupAt = 2
    /\ serverPending' = [i \in 1 .. Len(serverPending) |->
                          [serverPending[i] EXCEPT
                             !.sentOn = session.attaching]]
    /\ session' = [session EXCEPT !.pc = "top", !.attaching = NoSocket,
                                  !.transport = session.attaching,
                                  !.deadline = FALSE, !.setupAt = 0]
    /\ UNCHANGED <<nextServer, expectedClient, handled, outputs, agentVars,
                   channelVars, networkVars>>

\* attach_transport returned Ok.
AttachSucceeds ==
    /\ session.pc = "attach"
    /\ session.setupAt = SetupLength
    /\ session' = [session EXCEPT !.pc = "top", !.attaching = NoSocket,
                                  !.transport = session.attaching,
                                  !.deadline = FALSE, !.setupAt = 0]
    /\ UNCHANGED <<frameVars, agentVars, channelVars, networkVars>>

\* The state after attach_transport returned Err: only a warning is logged.
AfterFailedAttach == [session EXCEPT !.pc = "top", !.attaching = NoSocket,
                                     !.setupAt = 0]

\* attach_transport returned Err: the task had stopped, or the setup timed
\* out on a full channel, which leaves the task running.
AttachFails ==
    /\ session.pc = "attach"
    /\ session.setupAt < SetupLength
    /\ ~(Open(session.attaching) /\ CommandRoom(session.attaching))
    /\ session' = AfterFailedAttach
    /\ UNCHANGED <<frameVars, agentVars, channelVars, networkVars>>

\* shutdown.cancelled()
ServerShutdown ==
    /\ session.pc = "select"
    /\ ambient.cancelled
    /\ EndLoop("server_shutdown")
    /\ UNCHANGED <<frameVars, agentVars, channelVars, networkVars>>

\* The task is in a write that waits for the connector to read, and reads
\* nothing itself until then.
Stalled(s) == tasks[s].writing # << >> /\ ~CanWrite(s2c, s)

\* keepalive.tick() after keepalive_timeout without a message (on a socket
\* that is up and whose task can read: a fault of the network).
KeepaliveExpires ==
    /\ session.pc = "select"
    /\ session.transport # NoSocket
    /\ IF up[session.transport] /\ ~Stalled(session.transport)
         THEN faults < MaxFaults /\ faults' = faults + 1
         ELSE UNCHANGED faults
    /\ Detach("top")
    /\ UNCHANGED <<agentVars, events>>

\* keepalive.tick() otherwise, or diagnostic_rx.recv(): try_send of a ping
\* or of a line of the agent's stderr, which is dropped if there is no room.
SendNoise ==
    /\ session.pc = "select"
    /\ ambient.noise < MaxNoise
    /\ ambient' = [ambient EXCEPT !.noise = @ + 1]
    /\ \E type \in {"ping", "stderr"} :
         TryEnqueue(session.transport, Control(type))
    /\ Proceed("top")
    /\ UNCHANGED <<frameVars, agent, events, attachments, networkVars>>

\* A Writable event, or a keepalive tick: there is room again for a frame
\* that pump_replay had to leave behind.
Wake ==
    /\ session.pc = "select"
    /\ session.transport # NoSocket
    /\ Unsent # {}
    /\ Open(session.transport) => CommandRoom(session.transport)
    /\ Proceed("top")
    /\ UNCHANGED <<frameVars, agentVars, channelVars, networkVars>>

\* Mutant: frames are numbered by their place in the replay buffer.
MutantQueueServerFrame(payload) ==
    /\ serverPending' = Append(serverPending,
                               [sequence |-> Len(serverPending) + 1,
                                payload |-> payload, sentOn |-> NoSocket])
    /\ nextServer' = nextServer + 1
    /\ outputs' = Append(outputs, payload)

\* queue_server_frame
QueueServerFrame(payload) ==
    /\ serverPending' = Append(serverPending,
                               [sequence |-> nextServer, payload |-> payload,
                                sentOn |-> NoSocket])
    /\ nextServer' = nextServer + 1
    /\ outputs' = Append(outputs, payload)

\* can_read_agent
CanReadAgent == /\ ~session.childStatus
                /\ CanRead(serverPending, ServerReplayFrames,
                           ServerReplayBytes, ServerFrameBytes)

\* agent_rx.recv(): one line of the agent's stdout.
ReadAgent ==
    /\ session.pc = "select"
    /\ CanReadAgent
    /\ agent.read < agent.written
    /\ agent' = [agent EXCEPT !.read = @ + 1]
    /\ LET line == AgentOutput[agent.read + 1]
       IN  IF Size[line] > ServerFrameBytes
             THEN /\ EndLoop("agent_stdout_line")
                  /\ UNCHANGED <<serverPending, nextServer, outputs>>
             ELSE Proceed("top") /\ QueueServerFrame(line)
    /\ UNCHANGED <<expectedClient, handled, ambient, channelVars, networkVars>>

\* Mutant: the deadline is only looked at while a transport is attached.
MutantGraceExpires ==
    /\ session.pc = "select"
    /\ session.deadline
    /\ session.transport # NoSocket
    /\ EndLoop("reconnect_timeout")
    /\ UNCHANGED <<frameVars, agentVars, channelVars, networkVars>>

\* wait_for_deadline(detached_deadline)
GraceExpires ==
    /\ session.pc = "select"
    /\ session.deadline
    /\ EndLoop("reconnect_timeout")
    /\ UNCHANGED <<frameVars, agentVars, channelVars, networkVars>>

-----------------------------------------------------------------------------
(* transport_event_rx.recv() and handle_client_envelope.                   *)

Queued == {attachments[i] : i \in 1 .. Len(attachments)}

\* run_agent_session returns: the receivers of events and attachments go,
\* with the sockets still queued there, and the session is unregistered.
\* The sockets in S are closed by this task itself.
Leave(category, S) ==
    /\ session' = [session EXCEPT !.pc = "ended", !.endCategory = category,
                                  !.transport = NoSocket, !.registered = FALSE,
                                  !.deadline = FALSE, !.outbox = << >>,
                                  !.sent = "no"]
    /\ events' = << >>
    /\ attachments' = << >>
    /\ CloseServerEnd(S \cup Queued)
    /\ UNCHANGED faults

\* An error propagated with `?`: the handle of the transport is dropped, not
\* aborted, and the agent is neither signalled nor waited for.
Abandon(category) == Leave(category, {}) /\ UNCHANGED <<tasks, frameVars>>

\* Mutant: the connector's answer to a ping is not expected.
MutantViolation(e) ==
    CASE e.type = "acp" /\ e.sequence > expectedClient ->
           "client_sequence_gap"
      [] e.type \in ControlTypes \ {"ping", "shutdown"} ->
           "unexpected_envelope"
      [] OTHER -> "none"

\* The category with which an envelope the peer must not send ends the loop.
Violation(e) ==
    CASE e.type = "acp" /\ Size[e.payload] > ServerFrameBytes ->
           "oversized_acp_line"
      [] /\ e.type = "acp" /\ Size[e.payload] <= ServerFrameBytes
         /\ e.sequence > expectedClient ->
           "client_sequence_gap"
      [] e.type = "ack" /\ e.stream # "server_to_client" ->
           "unexpected_acknowledgement"
      [] /\ e.type = "ack" /\ e.stream = "server_to_client"
         /\ e.sequence >= nextServer ->
           "invalid_acknowledgement"
      [] e.type \in ControlTypes \ {"ping", "pong", "shutdown"} ->
           "unexpected_envelope"
      [] OTHER -> "none"

\* Nothing but the session's control state and the event queue changes.
Only(control) == /\ control
                 /\ events' = Tail(events)
                 /\ UNCHANGED <<frameVars, tasks, attachments, networkVars>>

\* commands.send(..).await of a reply to the connector.
Reply(envelope) ==
    /\ session' = [session EXCEPT !.pc = "reply", !.outbox = <<envelope>>]
    /\ events' = Tail(events)
    /\ UNCHANGED <<tasks, attachments, networkVars>>

\* The next frame was handled: expect its successor and acknowledge it.
Accept(e) == /\ handled' = Append(handled, Apply[e.payload])
             /\ expectedClient' = expectedClient + 1
             /\ Reply(Ack("client_to_server", expectedClient))

\* Forwarded: written and flushed to the agent's stdin.  That fails when
\* nobody has the other end of the pipe any more; another process of its
\* group may still have the one of an agent that is gone.
ForwardLine(e) ==
    /\ Apply[e.payload].outcome = "forward"
    /\ \/ /\ Accept(e)
          /\ UNCHANGED <<serverPending, nextServer, outputs>>
       \/ /\ agent.alive => MayCloseStdin
          /\ Abandon("stdin_error")

\* Rejected: the server answers in the agent's place.
RejectLine(e) ==
    /\ Apply[e.payload].outcome = "reject"
    /\ IF Fits(serverPending, Apply[e.payload].line, ServerReplayFrames,
               ServerReplayBytes)
         THEN /\ QueueServerFrame(Apply[e.payload].line)
              /\ Accept(e)
         ELSE Only(EndLoop("replay_buffer_exhausted"))

\* Mutant: a frame that was accepted before is accepted again.
MutantHandleAcp(e) ==
    /\ e.type = "acp"
    /\ e.sequence <= expectedClient
    /\ \/ ForwardLine(e)
       \/ RejectLine(e)
       \/ Apply[e.payload].outcome = "error" /\ Abandon("policy_error")

\* A frame that was already accepted is acknowledged again and not written.
HandleAcp(e) ==
    /\ e.type = "acp"
    /\ \/ /\ e.sequence < expectedClient
          /\ Reply(Ack("client_to_server", expectedClient - 1))
          /\ UNCHANGED frameVars
       \/ /\ e.sequence = expectedClient
          /\ \/ ForwardLine(e)
             \/ RejectLine(e)
             \/ Apply[e.payload].outcome = "error" /\ Abandon("policy_error")

\* Mutant: any acknowledgement frees the whole replay buffer.
MutantHandleAck(e) ==
    /\ e.type = "ack"
    /\ serverPending' = << >>
    /\ Proceed("top")
    /\ events' = Tail(events)
    /\ UNCHANGED <<nextServer, expectedClient, handled, outputs, tasks,
                   attachments, networkVars>>

HandleAck(e) ==
    /\ e.type = "ack"
    /\ \E k \in 0 .. Len(serverPending) :
         /\ Pops(serverPending, e.sequence, k)
         /\ serverPending' = Popped(serverPending, k)
    /\ Proceed("top")
    /\ events' = Tail(events)
    /\ UNCHANGED <<nextServer, expectedClient, handled, outputs, tasks,
                   attachments, networkVars>>

\* A pong has no effect; a ping is answered; `shutdown` ends the loop, and
\* the resume capability is removed at once.
HandleControl(e) ==
    CASE e.type = "ping" -> Reply(Control("pong")) /\ UNCHANGED frameVars
      [] e.type = "pong" -> Only(Proceed("top"))
      [] e.type = "shutdown" ->
           Only(session' = [session EXCEPT !.pc = "reap",
                                           !.endCategory = "client_shutdown",
                                           !.registered = FALSE])
      [] OTHER -> FALSE

HandleClientEnvelope(e) ==
    IF Violation(e) # "none"
      THEN Only(EndLoop(Violation(e)))
      ELSE HandleAcp(e) \/ HandleAck(e) \/ HandleControl(e)

\* Mutant: events are not told apart by the transport they come from.
MutantStale(event) == session.transport = NoSocket

\* An event of a transport that is no longer the current one is ignored.
Stale(event) == event.socket # session.transport

ReceiveEvent ==
    /\ session.pc = "select"
    /\ events # << >>
    /\ LET event == Head(events)
       IN  IF Stale(event)
             THEN Only(Proceed("top"))
             ELSE \/ /\ event.kind = "disconnected"
                     /\ Detach("top")
                     /\ events' = Tail(events)
                     /\ UNCHANGED faults
                  \/ /\ event.kind = "envelope"
                     /\ HandleClientEnvelope(event.envelope)
    /\ UNCHANGED agentVars

\* The reply is enqueued when there is room; a closed channel is ignored.
\* There is no timeout on it, and nothing else runs meanwhile.
SendReply ==
    /\ session.pc = "reply"
    /\ Open(session.transport) => CommandRoom(session.transport)
    /\ TryEnqueue(session.transport, Head(session.outbox))
    /\ session' = [session EXCEPT !.pc = "top", !.outbox = << >>]
    /\ UNCHANGED <<frameVars, agentVars, events, attachments, networkVars>>

-----------------------------------------------------------------------------
(* After the loop.                                                         *)

\* What the connector is still told, given how the loop ended.
Farewell ==
    CASE \/ session.transport = NoSocket
         \/ session.endCategory \in {"child_exit", "reconnect_timeout"} -> << >>
      [] /\ session.transport # NoSocket
         /\ session.endCategory = "client_shutdown" ->
           <<Control("shutdown_complete")>>
      [] OTHER -> <<Control("error"), Control("exit")>>

\* Mutant: the agent is signalled and not waited for.
MutantReapAgent ==
    /\ session.pc = "reap"
    /\ session' = [session EXCEPT !.pc = "farewell", !.childStatus = TRUE,
                                  !.outbox = Farewell, !.sent = "no"]
    /\ UNCHANGED <<frameVars, agentVars, channelVars, networkVars>>

\* graceful_shutdown_and_reap or terminate_and_reap, or nothing if the exit
\* status is known.
ReapAgent ==
    /\ session.pc = "reap"
    /\ agent' = [agent EXCEPT !.alive = FALSE]
    /\ session' = [session EXCEPT !.pc = "farewell", !.childStatus = TRUE,
                                  !.outbox = Farewell, !.sent = "no"]
    /\ UNCHANGED <<frameVars, ambient, channelVars, networkVars>>

\* The agent does not exit within shutdown_timeout after SIGKILL: the error is
\* propagated and the connector is told nothing.
ReapFails ==
    /\ MayOutlast
    /\ session.pc = "reap"
    /\ agent.alive
    /\ Abandon("reap_error")
    /\ UNCHANGED agentVars

\* The last envelope is confirmed through `sent`.
SendFarewell ==
    /\ session.pc = "farewell"
    /\ session.outbox # << >>
    /\ Open(session.transport)
    /\ CommandRoom(session.transport)
    /\ Enqueue(session.transport, Head(session.outbox))
    /\ session' = IF Len(session.outbox) = 1
                    THEN [session EXCEPT !.pc = "farewell_wait",
                                         !.outbox = << >>, !.sent = "waiting"]
                    ELSE [session EXCEPT !.outbox = Tail(@)]
    /\ UNCHANGED <<frameVars, agentVars, events, attachments, networkVars>>

\* Nothing more to say, it was said, the transport is gone, or the timeout of
\* the last envelope (the error before it has none) expired: the transport
\* is aborted and run_agent_session returns.
EndSession ==
    /\ \/ session.pc = "farewell_wait"
       \/ /\ session.pc = "farewell"
          /\ session.outbox # << >> =>
               \/ ~Open(session.transport)
               \/ Len(session.outbox) = 1 /\ ~CommandRoom(session.transport)
    /\ Leave(session.endCategory, {session.transport})
    /\ tasks' = [s \in Sockets |-> IF s = session.transport THEN StoppedTask
                                                          ELSE tasks[s]]
    /\ UNCHANGED <<frameVars, agentVars>>

-----------------------------------------------------------------------------
(* Around the session.                                                     *)

\* run_tunnel, read_open and resume_tunnel for a resumed socket: handed to
\* the session while it is registered, refused otherwise; dropped when the
\* session does not take it within connection_timeout.
AcceptResume(s) ==
    /\ tasks[s].state = "none"
    /\ c2s[s] # << >>
    /\ Head(c2s[s]) = Control("open")
    /\ IF ~session.registered
         THEN /\ s2c' = Transmit(s2c, s, Control("error"))
              /\ up' = [up EXCEPT ![s] = FALSE]
              /\ c2s' = [c2s EXCEPT ![s] = << >>]
              /\ UNCHANGED attachments
       ELSE IF Len(attachments) < AttachmentCapacity
         THEN /\ attachments' = Append(attachments, s)
              /\ c2s' = [c2s EXCEPT ![s] = Tail(@)]
              /\ UNCHANGED <<s2c, up>>
         ELSE CloseServerEnd({s}) /\ UNCHANGED attachments
    /\ UNCHANGED <<session, frameVars, agentVars, tasks, events, faults>>

AgentWrites ==
    /\ agent.alive
    /\ agent.written < Len(AgentOutput)
    /\ agent' = [agent EXCEPT !.written = @ + 1]
    /\ UNCHANGED <<session, frameVars, ambient, channelVars, networkVars>>

AgentExits ==
    /\ MayExit
    /\ agent.alive
    /\ agent' = [agent EXCEPT !.alive = FALSE]
    /\ UNCHANGED <<session, frameVars, ambient, channelVars, networkVars>>

\* serve's shutdown token.
Cancel ==
    /\ MayCancel
    /\ ~ambient.cancelled
    /\ ambient' = [ambient EXCEPT !.cancelled = TRUE]
    /\ UNCHANGED <<session, frameVars, agent, channelVars, networkVars>>

SessionNext ==
    \/ PumpReplay \/ PumpFindsClosed \/ EnterSelect
    \/ SendExit \/ ExitConfirmed \/ ExitFails
    \/ ChildWait \/ TakeAttachment \/ AttachEnqueues \/ AttachSucceeds
    \/ AttachFails \/ ServerShutdown \/ KeepaliveExpires \/ SendNoise
    \/ Wake \/ ReadAgent \/ GraceExpires \/ ReceiveEvent \/ SendReply
    \/ ReapAgent \/ ReapFails \/ SendFarewell \/ EndSession

ServerNext ==
    \/ SessionNext
    \/ AgentWrites \/ AgentExits \/ Cancel
    \/ \E s \in Sockets : TaskNext(s) \/ AcceptResume(s)
=============================================================================
