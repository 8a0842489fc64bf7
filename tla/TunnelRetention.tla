-------------------------- MODULE TunnelRetention --------------------------
(***************************************************************************)
(* What the tunnel keeps while lines are under way: where its sockets and  *)
(* their tasks are, what either side may have said, that neither side      *)
(* frees a line of its replay buffer before the peer has it, and that the  *)
(* session lives as SessionLife says.  The proofs build on                 *)
(* LinesKeepTheirNumbers of TunnelProofs.                                  *)
(***************************************************************************)
EXTENDS TunnelProofs, WellFoundedInduction

-----------------------------------------------------------------------------
(* Where envelopes and events are on their way, and what may be among them: *)
(* CS are envelopes of the connector, SS those of the session, RS events.  *)

Carries(CS, SS, RS, toServer, outgoing, toClient, outbox, running, read) ==
    /\ toServer \in [Sockets -> Seq(CS)]
    /\ outgoing \in Seq(CS)
    /\ toClient \in [Sockets -> Seq(SS)]
    /\ outbox \in Seq(SS)
    /\ running \in [Sockets -> Task(SS, RS)]
    /\ read \in Seq(RS)

\* The envelopes a step of the connector may add to those on their way.
ConnectorMakes(CS) ==
    /\ \A frame \in PendingFrame : Acp(frame) \in CS
    /\ Ack("server_to_client", expectedServer' - 1) \in CS
    /\ Control("pong") \in CS /\ Control("open") \in CS
    /\ client.pc = "send_shutdown" => Control("shutdown") \in CS

\* The envelopes a step of the session may add, and the events of a task.
SessionMakes(SS) ==
    /\ \A frame \in ServerFrame : Acp(frame) \in SS
    /\ Ack("client_to_server", expectedClient' - 1) \in SS
    /\ \A type \in {"ready", "ping", "stderr", "pong", "error"} :
         Control(type) \in SS
    /\ SendExit \/ ReapAgent => Control("exit") \in SS
    /\ ReapAgent /\ session.endCategory = "client_shutdown" =>
         Control("shutdown_complete") \in SS
TasksMake(RS) ==
    \A s \in Sockets :
      /\ [socket |-> s, kind |-> "disconnected"] \in RS
      /\ Selecting(s) /\ Arrives(c2s, s, ServerFrameBytes) =>
           [socket |-> s, kind |-> "envelope",
            envelope |-> Head(c2s[s])] \in RS

\* More may be on its way than is.
LEMMA CarriesMore ==
    ASSUME NEW CS, NEW SS, NEW RS, NEW CS2, NEW SS2, NEW RS2,
           CS \subseteq CS2, SS \subseteq SS2, RS \subseteq RS2,
           NEW toServer, NEW outgoing, NEW toClient, NEW outbox, NEW running,
           NEW read,
           Carries(CS, SS, RS, toServer, outgoing, toClient, outbox, running,
                   read)
    PROVE  Carries(CS2, SS2, RS2, toServer, outgoing, toClient, outbox,
                   running, read)
<1>1. /\ Seq(CS) \subseteq Seq(CS2) /\ Seq(SS) \subseteq Seq(SS2)
      /\ Seq(RS) \subseteq Seq(RS2)
  BY SeqGrows
<1>2. Task(SS, RS) \subseteq Task(SS2, RS2)
  BY <1>1 DEF Task
<1> QED BY <1>1, <1>2 DEF Carries

\* Dropping one end of a socket empties or shortens its streams.
LEMMA CloseServerCarries ==
    ASSUME NEW CS, NEW SS, NEW S, CloseServerEnd(S),
           c2s \in [Sockets -> Seq(CS)], s2c \in [Sockets -> Seq(SS)]
    PROVE  c2s' \in [Sockets -> Seq(CS)] /\ s2c' \in [Sockets -> Seq(SS)]
<1>1. \A s \in Sockets, k \in Nat : k < Len(s2c[s]) => SubSeq(s2c[s], 1, k) \in Seq(SS)
  BY PrefixIn, LenProperties
<1>2. << >> \in Seq(CS)
  OBVIOUS
<1> QED BY <1>1, <1>2, NetworkAssumption DEF CloseServerEnd

\* The client end of a socket goes: what it carried is a prefix of it.
LEMMA CloseClientCarries ==
    ASSUME NEW CS, NEW SS, NEW t, CloseClientEnd(t),
           c2s \in [Sockets -> Seq(CS)], s2c \in [Sockets -> Seq(SS)]
    PROVE  c2s' \in [Sockets -> Seq(CS)] /\ s2c' \in [Sockets -> Seq(SS)]
<1>1. \A s \in Sockets, k \in Nat : k < Len(c2s[s]) => SubSeq(c2s[s], 1, k) \in Seq(CS)
  BY PrefixIn, LenProperties
<1>2. << >> \in Seq(SS)
  OBVIOUS
<1> QED BY <1>1, <1>2, NetworkAssumption DEF CloseClientEnd

\* A step of the connector moves envelopes and makes new ones.
LEMMA ConnectorCarries ==
    ASSUME NEW CS, NEW SS, LinesKeepTheirNumbers, ConnectorStep,
           ConnectorMakes(CS),
           c2s \in [Sockets -> Seq(CS)], client.outgoing \in Seq(CS),
           s2c \in [Sockets -> Seq(SS)]
    PROVE  /\ c2s' \in [Sockets -> Seq(CS)] /\ client'.outgoing \in Seq(CS)
           /\ s2c' \in [Sockets -> Seq(SS)]
<1>1. client \in ClientState(ClientEnvelopes)
  BY DEF LinesKeepTheirNumbers, ConnectorInv
<1>2. << >> \in Seq(CS) /\ << >> \in Seq(SS)
  OBVIOUS
<1>3. ASSUME NEW e \in CS
      PROVE  <<e>> \in Seq(CS)
  BY <1>3, SingletonIn
<1>4. ASSUME NEW e \in CS, Put(e)
      PROVE  c2s' \in [Sockets -> Seq(CS)] /\ s2c' \in [Sockets -> Seq(SS)]
  BY <1>4, TransmitIn DEF Put
<1>5. ASSUME HasIncoming
      PROVE  Tail(s2c[client.socket]) \in Seq(SS)
  <2>1. client.socket \in Sockets
    BY <1>1, <1>5 DEF ClientState, HasIncoming
  <2> QED BY <1>5, <2>1, HeadIn DEF HasIncoming, Arrives
<1>6. ASSUME HasIncoming, Consume
      PROVE  c2s' \in [Sockets -> Seq(CS)] /\ s2c' \in [Sockets -> Seq(SS)]
  BY <1>5, <1>6 DEF Consume
<1>7. ASSUME NEW e \in CS, Send(e)
      PROVE  client'.outgoing \in Seq(CS)
  BY <1>1, <1>3, <1>7 DEF Send, ClientState
<1>8. ASSUME NEW pc, Continue(pc)
      PROVE  client'.outgoing \in Seq(CS)
  BY <1>1, <1>8 DEF Continue, ClientState
<1>9. ASSUME NEW r, Return(r)
      PROVE  /\ c2s' \in [Sockets -> Seq(CS)] /\ client'.outgoing \in Seq(CS)
             /\ s2c' \in [Sockets -> Seq(SS)]
  BY <1>1, <1>2, <1>9, CloseClientCarries DEF Return, ClientState
<1>10. ASSUME Redial
       PROVE  /\ c2s' \in [Sockets -> Seq(CS)] /\ client'.outgoing \in Seq(CS)
              /\ s2c' \in [Sockets -> Seq(SS)]
  BY <1>1, <1>2, <1>10, CloseClientCarries DEF Redial, ClientState
<1>11. ASSUME UNCHANGED networkVars
       PROVE  c2s' \in [Sockets -> Seq(CS)] /\ s2c' \in [Sockets -> Seq(SS)]
  BY <1>11 DEF networkVars
<1>12. CASE ReadStdin
  <2> DEFINE frame == [sequence |-> nextClient, payload |-> ClientInput[nextClient]]
  <2>1. frame \in PendingFrame
    <3>1. nextClient \in 1 .. Len(ClientInput)
      BY <1>12, ConnectorAssumption, LenProperties
      DEF ReadStdin, LinesKeepTheirNumbers, RetainedInv
    <3>2. ClientInput[nextClient] \in Payloads
      BY <3>1, ConnectorAssumption, ElementOfSeq
    <3> QED BY <3>1, <3>2 DEF PendingFrame
  <2>2. Acp(frame) \in CS
    BY <2>1 DEF ConnectorMakes
  <2>3. CASE Return("error")
    BY <1>9, <2>3
  <2>4. CASE Send(Acp(frame)) /\ UNCHANGED networkVars
    <3> HIDE DEF frame
    <3> QED BY <1>7, <1>11, <2>2, <2>4
  <2> QED BY <1>12, <2>3, <2>4 DEF ReadStdin
<1>13. CASE Receive /\ ReceiveAcp(Incoming)
  <2>1. CASE Return("protocol")
    BY <1>9, <2>1
  <2>2. CASE /\ expectedServer' = ExpectedAfter(Incoming.sequence)
             /\ Send(Ack("server_to_client", ExpectedAfter(Incoming.sequence) - 1))
             /\ Consume
    <3>1. Ack("server_to_client", ExpectedAfter(Incoming.sequence) - 1) \in CS
      BY <2>2 DEF ConnectorMakes
    <3> QED BY <1>6, <1>7, <1>13, <2>2, <3>1 DEF Receive
  <2> QED BY <1>13, <2>1, <2>2 DEF ReceiveAcp
<1>14. CASE Receive /\ ReceiveAck(Incoming)
  BY <1>6, <1>8, <1>9, <1>14 DEF Receive, ReceiveAck
<1>15. CASE Receive /\ ReceiveControl(Incoming)
  <2>1. Control("pong") \in CS
    BY DEF ConnectorMakes
  <2> QED BY <1>6, <1>7, <1>8, <1>9, <1>15, <2>1 DEF Receive, ReceiveControl
<1>16. CASE StartShutdown
  BY <1>1, <1>11, <1>16 DEF StartShutdown, ClientState
<1>17. CASE WriteOutgoing
  <2>1. Head(client.outgoing) \in CS
    BY <1>17, HeadIn DEF WriteOutgoing, LinesKeepTheirNumbers, ConnectorInv
  <2> QED BY <1>1, <1>2, <1>4, <1>17, <2>1 DEF WriteOutgoing, ClientState
<1>18. CASE LoseSocket \/ KeepaliveTimeout \/ AbandonAttempt
  BY <1>10, <1>18 DEF LoseSocket, KeepaliveTimeout, AbandonAttempt
<1>19. CASE Dial
  <2>1. <<Control("open")>> \in Seq(CS)
    BY SingletonIn DEF ConnectorMakes
  <2> QED BY <1>1, <1>19, <2>1 DEF Dial, ClientState
<1>20. CASE ReceiveReady
  BY <1>1, <1>6, <1>10, <1>20 DEF ReceiveReady, ClientState
<1>21. CASE ShutdownWhileDetached
  BY <1>1, <1>21, CloseClientCarries DEF ShutdownWhileDetached, ClientState
<1>22. CASE ReplayFrame
  <2>1. client.replayAt \in 1 .. Len(clientPending)
    BY <1>22, LenProperties
    DEF ReplayFrame, LinesKeepTheirNumbers, ConnectorInv, ClientState, RetainedInv
  <2>2. clientPending[client.replayAt] \in PendingFrame
    BY <2>1, ElementOfSeq DEF LinesKeepTheirNumbers, RetainedInv, ClientFrames
  <2>3. Acp(clientPending[client.replayAt]) \in CS
    BY <2>2 DEF ConnectorMakes
  <2> QED BY <1>1, <1>4, <1>22, <2>3 DEF ReplayFrame, ClientState
<1>23. CASE FinishReplay \/ Signal
  BY <1>1, <1>11, <1>23 DEF FinishReplay, Signal, ClientState
<1>24. CASE GiveUp
  BY <1>9, <1>24 DEF GiveUp
<1>25. CASE SendShutdown
  BY <1>4, <1>8, <1>25 DEF SendShutdown, ConnectorMakes
<1>26. CASE AwaitComplete
  <2>1. CASE \E r : Return(r)
    BY <1>9, <2>1
  <2>2. CASE Continue("wait_complete") /\ Consume
    BY <1>6, <1>8, <1>26, <2>2 DEF AwaitComplete
  <2>3. CASE /\ c2s' = Transmit(c2s, client.socket, Control("pong"))
             /\ s2c' = [s2c EXCEPT ![client.socket] = Tail(@)]
             /\ UNCHANGED client
    <3>1. Control("pong") \in CS /\ Tail(s2c[client.socket]) \in Seq(SS)
      BY <1>5, <1>26 DEF ConnectorMakes, AwaitComplete
    <3> QED BY <2>3, <3>1, TransmitIn
  <2> QED BY <1>26, <2>1, <2>2, <2>3 DEF AwaitComplete
<1>27. CASE ConnectorDies
  BY <1>1, <1>2, <1>27, CloseClientCarries DEF ConnectorDies, ClientState
<1> QED
  BY <1>12, <1>13, <1>14, <1>15, <1>16, <1>17, <1>18, <1>19, <1>20, <1>21,
     <1>22, <1>23, <1>24, <1>25, <1>26, <1>27
  DEF ConnectorStep, ConnectorNext, Receive

\* A link fails.
LEMMA NetworkCarries ==
    ASSUME NEW CS, NEW SS, NEW s \in Sockets, LinkFails(s),
           c2s \in [Sockets -> Seq(CS)], s2c \in [Sockets -> Seq(SS)]
    PROVE  c2s' \in [Sockets -> Seq(CS)] /\ s2c' \in [Sockets -> Seq(SS)]
<1>1. /\ \A i \in 0 .. Len(c2s[s]) : SubSeq(c2s[s], 1, i) \in Seq(CS)
      /\ \A j \in 0 .. Len(s2c[s]) : SubSeq(s2c[s], 1, j) \in Seq(SS)
  BY PrefixIn
<1> QED BY <1>1 DEF LinkFails

\* A transport task moves envelopes from its queue to its socket, and from
\* there to the event queue.
LEMMA TaskCarries ==
    ASSUME NEW CS, NEW SS, NEW RS, NEW s \in Sockets, TaskNext(s),
           TasksMake(RS),
           c2s \in [Sockets -> Seq(CS)], s2c \in [Sockets -> Seq(SS)],
           tasks \in [Sockets -> Task(SS, RS)], events \in Seq(RS)
    PROVE  /\ c2s' \in [Sockets -> Seq(CS)] /\ s2c' \in [Sockets -> Seq(SS)]
           /\ tasks' \in [Sockets -> Task(SS, RS)] /\ events' \in Seq(RS)
<1>1. /\ tasks[s].commands \in Seq(SS) /\ tasks[s].writing \in Seq(SS)
      /\ tasks[s].held \in Seq(RS)
  BY DEF Task
<1>2. << >> \in Seq(CS) /\ << >> \in Seq(SS) /\ << >> \in Seq(RS)
  OBVIOUS
<1>3. ASSUME StopTask(s)
      PROVE  /\ c2s' \in [Sockets -> Seq(CS)] /\ s2c' \in [Sockets -> Seq(SS)]
             /\ tasks' \in [Sockets -> Task(SS, RS)]
  BY <1>3, CloseServerCarries, TaskConstants DEF StopTask
<1>4. ASSUME HasCommand(s)
      PROVE  Current(s) \in SS
  BY <1>1, <1>4, HeadIn DEF HasCommand, Current
<1>5. ASSUME UNCHANGED networkVars
      PROVE  c2s' \in [Sockets -> Seq(CS)] /\ s2c' \in [Sockets -> Seq(SS)]
  BY <1>5 DEF networkVars
<1>6. ASSUME NEW v \in RS
      PROVE  Append(events, v) \in Seq(RS) /\ <<v>> \in Seq(RS)
  BY <1>6, AppendIn, SingletonIn
<1>7. ASSUME NEW h \in Seq(RS), tasks' = [tasks EXCEPT ![s].held = h]
      PROVE  tasks' \in [Sockets -> Task(SS, RS)]
  BY <1>7 DEF Task
<1>10. CASE TaskWrites(s)
  <2>1. Transmit(s2c, s, Current(s)) \in [Sockets -> Seq(SS)]
    BY <1>4, <1>10, TransmitIn DEF TaskWrites
  <2>2. CASE tasks[s].writing # << >>
    BY <1>2, <1>10, <2>1, <2>2 DEF TaskWrites, Task
  <2>3. CASE tasks[s].writing = << >>
    <3>1. Tail(tasks[s].commands) \in Seq(SS)
      BY <1>1, <1>10, <2>3, HeadIn DEF TaskWrites, HasCommand
    <3> QED BY <1>10, <2>1, <2>3, <3>1 DEF TaskWrites, Task
  <2> QED BY <2>2, <2>3
<1>11. CASE TaskFinishes(s)
  <2> DEFINE stream == Transmit(s2c, s, Current(s))[s]
  <2>1. stream \in Seq(SS)
    <3>1. Transmit(s2c, s, Current(s)) \in [Sockets -> Seq(SS)]
      BY <1>4, <1>11, TransmitIn DEF TaskFinishes
    <3> QED BY <3>1
  <2>2. \A kept \in 0 .. Len(stream) : SubSeq(stream, 1, kept) \in Seq(SS)
    BY <2>1, PrefixIn
  <2> QED BY <1>2, <1>11, <2>2, TaskConstants DEF TaskFinishes
<1>12. CASE TaskBlocks(s)
  <2>1. <<Head(tasks[s].commands)>> \in Seq(SS) /\ Tail(tasks[s].commands) \in Seq(SS)
    BY <1>1, <1>12, HeadIn, SingletonIn DEF TaskBlocks
  <2> QED BY <1>5, <1>12, <2>1 DEF TaskBlocks, Task
<1>13. CASE TaskWriteFails(s)
  BY <1>3, <1>6, <1>13 DEF TaskWriteFails, TasksMake
<1>14. CASE TaskReads(s)
  <2> DEFINE event == [socket |-> s, kind |-> "envelope", envelope |-> Head(c2s[s])]
  <2>1. event \in RS
    BY <1>14 DEF TaskReads, TasksMake
  <2>2. Tail(c2s[s]) \in Seq(CS)
    BY <1>14, HeadIn DEF TaskReads, Arrives
  <2>3. c2s' \in [Sockets -> Seq(CS)] /\ s2c' \in [Sockets -> Seq(SS)]
    BY <1>14, <2>2 DEF TaskReads
  <2>4. CASE events' = Append(events, event) /\ UNCHANGED tasks
    BY <1>6, <2>1, <2>3, <2>4
  <2>5. CASE tasks' = [tasks EXCEPT ![s].held = <<event>>] /\ UNCHANGED events
    <3> HIDE DEF event
    <3> QED BY <1>6, <1>7, <2>1, <2>3, <2>5
  <2> QED BY <1>14, <2>4, <2>5 DEF TaskReads
<1>15. CASE TaskSeesEnd(s)
  <2> DEFINE event == [socket |-> s, kind |-> "disconnected"]
  <2>1. event \in RS
    BY DEF TasksMake
  <2>2. CASE events' = Append(events, event) /\ StopTask(s)
    BY <1>3, <1>6, <2>1, <2>2
  <2>3. CASE /\ tasks' = [tasks EXCEPT ![s].held = <<event>>]
             /\ UNCHANGED <<events, networkVars>>
    <3> HIDE DEF event
    <3> QED BY <1>5, <1>6, <1>7, <2>1, <2>3
  <2> QED BY <1>15, <2>2, <2>3 DEF TaskSeesEnd
<1>16. CASE TaskHandsOver(s)
  <2>1. Head(tasks[s].held) \in RS
    BY <1>1, <1>16, HeadIn DEF TaskHandsOver
  <2> QED BY <1>2, <1>3, <1>5, <1>6, <1>7, <1>16, <2>1 DEF TaskHandsOver
<1>17. CASE OrphanStops(s)
  BY <1>3, <1>17 DEF OrphanStops
<1> QED
  BY <1>10, <1>11, <1>12, <1>13, <1>14, <1>15, <1>16, <1>17 DEF TaskNext

\* A resumed socket is handed over, refused or dropped.
LEMMA ResumeCarries ==
    ASSUME NEW CS, NEW SS, NEW s \in Sockets, AcceptResume(s),
           Control("error") \in SS,
           c2s \in [Sockets -> Seq(CS)], s2c \in [Sockets -> Seq(SS)]
    PROVE  c2s' \in [Sockets -> Seq(CS)] /\ s2c' \in [Sockets -> Seq(SS)]
<1>1. /\ Tail(c2s[s]) \in Seq(CS) /\ << >> \in Seq(CS)
      /\ Transmit(s2c, s, Control("error")) \in [Sockets -> Seq(SS)]
  <2>1. Tail(c2s[s]) \in Seq(CS)
    BY HeadIn DEF AcceptResume
  <2>2. Transmit(s2c, s, Control("error")) \in [Sockets -> Seq(SS)]
    BY TransmitIn
  <2> QED BY <2>1, <2>2
<1> QED BY <1>1, CloseServerCarries DEF AcceptResume

\* Handling an envelope of the connector: a reply may be under way then.
LEMMA HandlingCarries ==
    ASSUME NEW CS, NEW SS, NEW RS, NEW e, HandleClientEnvelope(e),
           LinesKeepTheirNumbers, SessionMakes(SS), events # << >>,
           c2s \in [Sockets -> Seq(CS)], s2c \in [Sockets -> Seq(SS)],
           session.outbox \in Seq(SS),
           tasks \in [Sockets -> Task(SS, RS)], events \in Seq(RS)
    PROVE  /\ c2s' \in [Sockets -> Seq(CS)] /\ s2c' \in [Sockets -> Seq(SS)]
           /\ session'.outbox \in Seq(SS)
           /\ tasks' \in [Sockets -> Task(SS, RS)] /\ events' \in Seq(RS)
<1> DEFINE Goal == /\ c2s' \in [Sockets -> Seq(CS)] /\ s2c' \in [Sockets -> Seq(SS)]
                   /\ session'.outbox \in Seq(SS)
                   /\ tasks' \in [Sockets -> Task(SS, RS)] /\ events' \in Seq(RS)
<1>1. session \in SessionState(ServerEnvelopes)
  BY DEF LinesKeepTheirNumbers, SessionInv
<1>2. Tail(events) \in Seq(RS) /\ << >> \in Seq(RS) /\ << >> \in Seq(SS)
  BY HeadIn
<1>3. ASSUME NEW c, Only(EndLoop(c)) \/ Only(Proceed(c)) PROVE Goal
  BY <1>1, <1>2, <1>3 DEF Only, EndLoop, Proceed, networkVars, SessionState
<1>4. ASSUME NEW r \in SS, Reply(r) PROVE Goal
  <2>1. <<r>> \in Seq(SS)
    BY SingletonIn
  <2> QED BY <1>1, <1>2, <1>4, <2>1 DEF Reply, networkVars, SessionState
<1>5. ASSUME NEW c, Abandon(c) PROVE Goal
  <2>1. \E S : CloseServerEnd(S)
    BY <1>5 DEF Abandon, Leave
  <2>2. c2s' \in [Sockets -> Seq(CS)] /\ s2c' \in [Sockets -> Seq(SS)]
    BY <2>1, CloseServerCarries
  <2> QED BY <1>1, <1>2, <1>5, <2>2 DEF Abandon, Leave, SessionState
<1>6. CASE HandleAck(e)
  BY <1>1, <1>2, <1>6 DEF HandleAck, Proceed, networkVars, SessionState
<1>7. CASE HandleControl(e)
  <2>1. CASE Only(session' = [session EXCEPT !.pc = "reap",
                                !.endCategory = "client_shutdown",
                                !.registered = FALSE])
    BY <1>1, <1>2, <2>1 DEF Only, networkVars, SessionState
  <2>2. Control("pong") \in SS
    BY DEF SessionMakes
  <2> QED BY <1>3, <1>4, <1>7, <2>1, <2>2 DEF HandleControl
<1>8. CASE HandleAcp(e)
  <2>1. expectedClient \in Nat
    BY ConnectorAssumption, LenProperties
    DEF LinesKeepTheirNumbers, HandledInv, RetainedInv
  <2>2. CASE Reply(Ack("client_to_server", expectedClient - 1)) /\ UNCHANGED frameVars
    <3>1. Ack("client_to_server", expectedClient - 1) \in SS
      BY <2>2 DEF SessionMakes, frameVars
    <3> QED BY <1>4, <2>2, <3>1
  <2>3. CASE Accept(e)
    <3>1. (expectedClient + 1) - 1 = expectedClient
      BY <2>1
    <3>2. Ack("client_to_server", expectedClient) \in SS
      BY <2>3, <3>1 DEF SessionMakes, Accept
    <3> QED BY <1>4, <2>3, <3>2 DEF Accept
  <2> QED BY <1>3, <1>5, <1>8, <2>2, <2>3 DEF HandleAcp, ForwardLine, RejectLine
<1> QED BY <1>3, <1>6, <1>7, <1>8 DEF HandleClientEnvelope

\* The three kinds of setup envelopes.
LEMMA SetupCases ==
    ASSUME NEW n \in Nat
    PROVE  n = 0 \/ n = 1 \/ n > 1
OBVIOUS

\* A step of the session task moves its reply, frames and last words into
\* the command queue of its transport.
LEMMA SessionCarries ==
    ASSUME NEW CS, NEW SS, NEW RS, LinesKeepTheirNumbers, SessionNext,
           SessionMakes(SS),
           c2s \in [Sockets -> Seq(CS)], s2c \in [Sockets -> Seq(SS)],
           session.outbox \in Seq(SS),
           tasks \in [Sockets -> Task(SS, RS)], events \in Seq(RS)
    PROVE  /\ c2s' \in [Sockets -> Seq(CS)] /\ s2c' \in [Sockets -> Seq(SS)]
           /\ session'.outbox \in Seq(SS)
           /\ tasks' \in [Sockets -> Task(SS, RS)] /\ events' \in Seq(RS)
<1> DEFINE Streams2 == c2s' \in [Sockets -> Seq(CS)] /\ s2c' \in [Sockets -> Seq(SS)]
           Outbox2 == session'.outbox \in Seq(SS)
           Tasks2 == tasks' \in [Sockets -> Task(SS, RS)]
           Events2 == events' \in Seq(RS)
<1>1. session \in SessionState(ServerEnvelopes)
  BY DEF LinesKeepTheirNumbers, SessionInv
<1>2. << >> \in Seq(RS) /\ << >> \in Seq(SS)
  OBVIOUS
<1>3. ASSUME UNCHANGED networkVars PROVE Streams2
  BY <1>3 DEF networkVars
<1>4. ASSUME UNCHANGED channelVars PROVE Tasks2 /\ Events2
  BY <1>4 DEF channelVars
<1>5. ASSUME NEW s, NEW e \in SS, Enqueue(s, e) PROVE Tasks2
  <2>1. s \in Sockets => Append(tasks[s].commands, e) \in Seq(SS)
    BY AppendIn DEF Task
  <2> QED BY <1>5, <2>1 DEF Enqueue, Task
<1>6. ASSUME NEW pc, Detach(pc) PROVE Streams2 /\ Outbox2 /\ Tasks2
  BY <1>1, <1>6, CloseServerCarries, TaskConstants DEF Detach, SessionState
<1>7. ASSUME NEW category, NEW S, Leave(category, S)
      PROVE Streams2 /\ Outbox2 /\ Events2
  BY <1>1, <1>2, <1>7, CloseServerCarries DEF Leave, SessionState
<1>10. CASE ReceiveEvent
  <2>1. events # << >> /\ Tail(events) \in Seq(RS)
    BY <1>10, HeadIn DEF ReceiveEvent
  <2>2. CASE Only(Proceed("top"))
    BY <1>1, <2>1, <2>2 DEF Only, Proceed, networkVars, SessionState
  <2>3. CASE Detach("top") /\ events' = Tail(events)
    BY <1>6, <2>1, <2>3
  <2>4. CASE HandleClientEnvelope(Head(events).envelope)
    BY <2>1, <2>4, HandlingCarries
  <2> QED BY <1>10, <2>2, <2>3, <2>4 DEF ReceiveEvent
<1>11. CASE PumpReplay
  <2>1. PICK i \in Unsent : Enqueue(session.transport, Acp(serverPending[i]))
    BY <1>11 DEF PumpReplay
  <2>2. serverPending[i] \in ServerFrame
    BY <2>1, ElementOfSeq DEF Unsent, LinesKeepTheirNumbers, QueueInv, ServerFrames
  <2>3. Acp(serverPending[i]) \in SS
    BY <2>2 DEF SessionMakes
  <2> QED BY <1>3, <1>5, <1>11, <2>1, <2>3 DEF PumpReplay
<1>12. CASE AttachEnqueues
  <2>1. /\ session.setupAt \in Nat /\ session.setupAt < Len(serverPending) + 2
        /\ Len(serverPending) \in Nat
    BY <1>12, LenProperties
    DEF AttachEnqueues, SetupLength, LinesKeepTheirNumbers, SessionInv,
        SessionState, QueueInv
  <2>2. SetupEnvelope(session.setupAt) \in SS
    <3>1. CASE session.setupAt = 0
      BY <3>1 DEF SetupEnvelope, SessionMakes
    <3>2. CASE session.setupAt = 1
      BY <1>12, <3>2 DEF SetupEnvelope, SessionMakes, AttachEnqueues
    <3>3. CASE session.setupAt > 1
      <4>1. serverPending[session.setupAt - 1] \in ServerFrame
        BY <2>1, <3>3, ElementOfSeq DEF LinesKeepTheirNumbers, QueueInv, ServerFrames
      <4>2. SetupEnvelope(session.setupAt) = Acp(serverPending[session.setupAt - 1])
        BY <2>1, <3>3 DEF SetupEnvelope
      <4> QED BY <4>1, <4>2 DEF SessionMakes
    <3>4. session.setupAt = 0 \/ session.setupAt = 1 \/ session.setupAt > 1
      BY <2>1, SetupCases
    <3> QED BY <3>1, <3>2, <3>3, <3>4
  <2>3. Outbox2
    BY <1>1, <1>12 DEF AttachEnqueues, SessionState
  <2> QED BY <1>3, <1>5, <1>12, <2>2, <2>3 DEF AttachEnqueues
<1>13. CASE PumpFindsClosed \/ ExitFails \/ KeepaliveExpires
  BY <1>6, <1>13 DEF PumpFindsClosed, ExitFails, KeepaliveExpires
<1>14. CASE EnterSelect \/ Wake \/ ExitConfirmed \/ ServerShutdown \/ GraceExpires
            \/ ChildWait \/ AttachSucceeds \/ AttachFails \/ ReadAgent
  <2>1. UNCHANGED <<channelVars, networkVars>>
    BY <1>14 DEF EnterSelect, Wake, ExitConfirmed, ServerShutdown, GraceExpires,
       ChildWait, AttachSucceeds, AttachFails, ReadAgent
  <2>2. session'.outbox = session.outbox
    BY <1>1, <1>14
    DEF EnterSelect, Wake, ExitConfirmed, ServerShutdown, GraceExpires, ChildWait,
        AttachSucceeds, AttachFails, ReadAgent, Proceed, EndLoop,
        AfterFailedAttach, SessionState
  <2> QED BY <1>3, <1>4, <2>1, <2>2
<1>15. CASE SendExit
  <2>1. Control("exit") \in SS
    BY <1>15 DEF SessionMakes
  <2>2. Outbox2
    BY <1>1, <1>15 DEF SendExit, SessionState
  <2> QED BY <1>3, <1>5, <1>15, <2>1, <2>2 DEF SendExit
<1>16. CASE SendNoise
  <2>1. PICK type \in {"ping", "stderr"} : TryEnqueue(session.transport, Control(type))
    BY <1>16 DEF SendNoise
  <2>2. Control(type) \in SS
    BY DEF SessionMakes
  <2>3. Tasks2
    BY <1>5, <2>1, <2>2 DEF TryEnqueue
  <2>4. Outbox2
    BY <1>1, <1>16 DEF SendNoise, Proceed, SessionState
  <2> QED BY <1>3, <1>16, <2>3, <2>4 DEF SendNoise
<1>17. CASE SendReply
  <2>1. Head(session.outbox) \in SS
    BY <1>17, HeadIn DEF SendReply, LinesKeepTheirNumbers, SessionInv
  <2>2. Tasks2
    BY <1>5, <1>17, <2>1 DEF SendReply, TryEnqueue
  <2>3. Outbox2
    BY <1>1, <1>2, <1>17 DEF SendReply, SessionState
  <2> QED BY <1>3, <1>17, <2>2, <2>3 DEF SendReply
<1>18. CASE ReapAgent
  <2>1. Farewell \in Seq(SS)
    <3>1. Control("error") \in SS /\ Control("exit") \in SS
      BY <1>18 DEF SessionMakes
    <3>2. <<Control("error"), Control("exit")>> \in Seq(SS)
      BY <3>1
    <3>3. session.endCategory = "client_shutdown" =>
            <<Control("shutdown_complete")>> \in Seq(SS)
      BY <1>18, SingletonIn DEF SessionMakes
    <3> QED BY <1>2, <3>2, <3>3 DEF Farewell
  <2>2. Outbox2
    BY <1>1, <1>18, <2>1 DEF ReapAgent, SessionState
  <2> QED BY <1>3, <1>4, <1>18, <2>2 DEF ReapAgent
<1>19. CASE SendFarewell
  <2>1. Head(session.outbox) \in SS /\ Tail(session.outbox) \in Seq(SS)
    BY <1>19, HeadIn DEF SendFarewell
  <2>2. Outbox2
    BY <1>1, <1>2, <1>19, <2>1 DEF SendFarewell, SessionState
  <2> QED BY <1>3, <1>5, <1>19, <2>1, <2>2 DEF SendFarewell
<1>20. CASE EndSession
  <2>1. Tasks2
    BY <1>20, TaskConstants DEF EndSession
  <2> QED BY <1>7, <1>20, <2>1 DEF EndSession
<1>21. CASE ReapFails
  <2>1. Leave("reap_error", {}) /\ UNCHANGED tasks
    BY <1>21 DEF ReapFails, Abandon
  <2> QED BY <1>7, <2>1
<1>22. CASE TakeAttachment
  <2>1. Tasks2
    BY <1>22, TaskConstants DEF TakeAttachment
  <2>2. Streams2
    BY <1>22, CloseServerCarries DEF TakeAttachment
  <2>3. Outbox2
    BY <1>1, <1>22 DEF TakeAttachment, SessionState
  <2> QED BY <1>22, <2>1, <2>2, <2>3 DEF TakeAttachment
<1> QED
  BY <1>10, <1>11, <1>12, <1>13, <1>14, <1>15, <1>16, <1>17, <1>18, <1>19,
     <1>20, <1>21, <1>22 DEF SessionNext

-----------------------------------------------------------------------------
(* The sockets and their tasks.                                            *)

\* The connector has one socket at a time, the last one it dialled, and
\* writes one envelope at a time.
ConnectedInv ==
    /\ client.socket \in {NoSocket, client.dialled}
    /\ client.socket = NoSocket <=> client.pc \in {"dial", "done"}
    /\ client.pc # "send" => client.outgoing = << >>
    /\ Len(client.outgoing) <= 1
    /\ client.outgoing # << >> => Head(client.outgoing).type # "open"
    /\ client.pc = "await" => client.dialled > 1

\* A socket that was not dialled yet is not in use anywhere.
Fresh(s) == /\ ~up[s] /\ c2s[s] = << >> /\ s2c[s] = << >>
            /\ tasks[s] = NoTask
            /\ s \notin Queued
FreshInv == \A s \in Sockets : s > client.dialled => Fresh(s)

\* The sockets of the session have a task; attach_transport runs without a
\* transport, Exit and the last envelopes are sent on one.
TransportInv ==
    /\ session.transport # NoSocket => tasks[session.transport].state # "none"
    /\ session.attaching # NoSocket => tasks[session.attaching].state # "none"
    /\ session.pc = "attach" => session.attaching # NoSocket
    /\ session.attaching # NoSocket =>
         session.pc = "attach" /\ session.transport = NoSocket
    /\ session.pc \in {"exit", "exit_wait"} => session.transport # NoSocket
    /\ session.pc = "farewell" /\ session.outbox # << >> =>
         session.transport # NoSocket

\* A task that has returned took its socket along.
TaskOK(s) == /\ tasks[s].state = "none" => tasks[s] = NoTask
             /\ tasks[s].state = "stopped" =>
                  tasks[s] = StoppedTask /\ ~up[s] /\ c2s[s] = << >>
             /\ Len(tasks[s].writing) <= 1
             /\ Len(tasks[s].held) <= 1
             /\ tasks[s].held # << >> => Head(tasks[s].held).socket = s
TaskInv == \A s \in Sockets : TaskOK(s)

\* Events come from tasks, and the last one from a socket that is down.
EventOK(v) == /\ v.socket \in Sockets
              /\ tasks[v.socket].state # "none"
              /\ v.kind = "disconnected" => ~up[v.socket]
EventInv == \A i \in 1 .. Len(events) : EventOK(events[i])

\* A socket waits for the session at most once, and before it has a task.
AttachmentInv ==
    /\ \A i \in 1 .. Len(attachments) : tasks[attachments[i]].state = "none"
    /\ \A i, j \in 1 .. Len(attachments) :
         i # j => attachments[i] # attachments[j]

SocketInv == /\ ConnectedInv /\ FreshInv /\ TransportInv
             /\ TaskInv /\ EventInv /\ AttachmentInv

-----------------------------------------------------------------------------
(* What a step does to the sockets.                                        *)

\* What is left of a stream that was cut.
Cut(p, q) == \E k \in 0 .. Len(q) : p = SubSeq(q, 1, k)

\* A stream that was cut (CloseClientEnd, LinkFails) keeps its first elements.
LEMMA CutElements ==
    ASSUME NEW S, NEW q \in Seq(S), NEW p, Cut(p, q)
    PROVE  /\ p \in Seq(S) /\ Len(p) \in Nat /\ Len(p) <= Len(q)
           /\ \A i \in 1 .. Len(p) : p[i] = q[i]
           /\ q = << >> => p = << >>
<1>1. PICK k \in 0 .. Len(q) : p = SubSeq(q, 1, k)
  BY DEF Cut
<1>2. /\ p \in Seq(S) /\ Len(p) = k /\ \A i \in 1 .. k : p[i] = q[i]
  BY <1>1, SubSeqProperties, LenProperties
<1>3. q = << >> => Len(p) = 0
  BY <1>1, <1>2
<1> QED BY <1>1, <1>2, <1>3, LenProperties, EmptySeq

\* A stream that was not cut is a cut of itself.
LEMMA CutWhole ==
    ASSUME NEW S, NEW q \in Seq(S)
    PROVE  Cut(q, q)
<1>1. Len(q) \in 0 .. Len(q)
  BY LenProperties
<1>2. q = SubSeq(q, 1, Len(q))
  BY LenProperties, SubSeqProperties
<1> QED BY <1>1, <1>2 DEF Cut

\* The server's end of a socket is dropped.
LEMMA ServerEndCloses ==
    ASSUME NetworkInv, NEW S, CloseServerEnd(S), NEW s \in Sockets
    PROVE  /\ s \in S => ~up'[s] /\ c2s'[s] = << >> /\ Cut(s2c'[s], s2c[s])
           /\ s \notin S => up'[s] = up[s] /\ c2s'[s] = c2s[s] /\ s2c'[s] = s2c[s]
<1>1. s2c[s] \in Seq(ServerEnvelopes)
  BY DEF NetworkInv
<1>2. Cut(s2c[s], s2c[s])
  BY <1>1, CutWhole
<1>3. PICK kept \in 0 .. WireCapacity :
        s2c' = [t \in Sockets |-> IF t \in S /\ kept < Len(s2c[t])
                                     THEN SubSeq(s2c[t], 1, kept) ELSE s2c[t]]
  BY DEF CloseServerEnd
<1>4. kept < Len(s2c[s]) => Cut(SubSeq(s2c[s], 1, kept), s2c[s])
  BY <1>1, <1>3, NetworkAssumption, LenProperties DEF Cut
<1>5. s2c'[s] = IF s \in S /\ kept < Len(s2c[s])
                 THEN SubSeq(s2c[s], 1, kept) ELSE s2c[s]
  BY <1>3
<1>6. up'[s] = (up[s] /\ s \notin S) /\ c2s'[s] = IF s \in S THEN << >> ELSE c2s[s]
  BY DEF CloseServerEnd
<1>7. up[s] \in BOOLEAN
  BY DEF NetworkInv
<1> QED BY <1>2, <1>4, <1>5, <1>6, <1>7

\* The connector's end of a socket is dropped.
LEMMA ClientEndCloses ==
    ASSUME NetworkInv, NEW t, CloseClientEnd(t), NEW s \in Sockets
    PROVE  /\ s = t => ~up'[s] /\ s2c'[s] = << >> /\ Cut(c2s'[s], c2s[s])
           /\ s # t => up'[s] = up[s] /\ c2s'[s] = c2s[s] /\ s2c'[s] = s2c[s]
<1>1. c2s[s] \in Seq(ClientEnvelopes)
  BY DEF NetworkInv
<1>2. Cut(c2s[s], c2s[s])
  BY <1>1, CutWhole
<1>3. PICK kept \in 0 .. WireCapacity :
        c2s' = [u \in Sockets |-> IF u = t /\ kept < Len(c2s[u])
                                     THEN SubSeq(c2s[u], 1, kept) ELSE c2s[u]]
  BY DEF CloseClientEnd
<1>4. kept < Len(c2s[s]) => Cut(SubSeq(c2s[s], 1, kept), c2s[s])
  BY <1>1, <1>3, NetworkAssumption, LenProperties DEF Cut
<1>5. c2s'[s] = IF s = t /\ kept < Len(c2s[s])
                 THEN SubSeq(c2s[s], 1, kept) ELSE c2s[s]
  BY <1>3
<1>6. up'[s] = (up[s] /\ s # t) /\ s2c'[s] = IF s = t THEN << >> ELSE s2c[s]
  BY DEF CloseClientEnd
<1>7. up[s] \in BOOLEAN
  BY DEF NetworkInv
<1> QED BY <1>2, <1>4, <1>5, <1>6, <1>7

\* The link of a socket fails.
LEMMA LinkCloses ==
    ASSUME NetworkInv, NEW t \in Sockets, LinkFails(t), NEW s \in Sockets
    PROVE  /\ s = t => ~up'[s] /\ Cut(s2c'[s], s2c[s]) /\ Cut(c2s'[s], c2s[s])
           /\ s # t => up'[s] = up[s] /\ c2s'[s] = c2s[s] /\ s2c'[s] = s2c[s]
BY DEF NetworkInv, LinkFails, Cut

\* The connector puts e on its socket, or takes a message off it.
Writes(e) == /\ client.socket \in Sockets
             /\ c2s' = Transmit(c2s, client.socket, e)
             /\ e.type # "open"
Reads == /\ client.socket \in Sockets
         /\ s2c[client.socket] # << >>
         /\ s2c' = [s2c EXCEPT ![client.socket] = Tail(@)]

\* What a step of the connector does to the sockets.
LEMMA ConnectorMoves ==
    ASSUME LinesKeepTheirNumbers, ConnectedInv, ConnectorStep
    PROVE  \/ /\ UNCHANGED networkVars
              /\ UNCHANGED <<client.socket, client.dialled>>
           \/ /\ CloseClientEnd(client.socket)
              /\ client'.socket = NoSocket /\ client'.dialled = client.dialled
           \/ /\ Reads \/ UNCHANGED s2c
              /\ (\E e : Writes(e)) \/ UNCHANGED c2s
              /\ UNCHANGED <<up, client.socket, client.dialled>>
           \/ Dial
<1> DEFINE Rests == /\ UNCHANGED networkVars
                    /\ UNCHANGED <<client.socket, client.dialled>>
           Closes == /\ CloseClientEnd(client.socket)
                     /\ client'.socket = NoSocket /\ client'.dialled = client.dialled
           Talks == /\ Reads \/ UNCHANGED s2c
                    /\ (\E e : Writes(e)) \/ UNCHANGED c2s
                    /\ UNCHANGED <<up, client.socket, client.dialled>>
<1>1. client \in ClientState(ClientEnvelopes)
  BY DEF LinesKeepTheirNumbers, ConnectorInv
<1>2. client.pc \notin {"dial", "done"} => client.socket \in Sockets
  BY <1>1 DEF ConnectedInv, ClientState
<1>3. ASSUME NEW r, Return(r) PROVE Closes
  BY <1>1, <1>3 DEF Return, ClientState
<1>4. ASSUME Redial PROVE Closes
  BY <1>1, <1>4 DEF Redial, ClientState
<1>5. ASSUME NEW e, Put(e), e.type # "open", client.pc \notin {"dial", "done"}
      PROVE  Writes(e) /\ UNCHANGED <<s2c, up>>
  BY <1>2, <1>5 DEF Put, Writes
<1>6. ASSUME HasIncoming, Consume
      PROVE  Reads /\ UNCHANGED <<c2s, up>>
  BY <1>1, <1>6 DEF HasIncoming, Consume, Reads, Arrives, ClientState
<1>7. ASSUME NEW e, Send(e) PROVE UNCHANGED <<client.socket, client.dialled>>
  BY <1>1, <1>7 DEF Send, ClientState
<1>8. ASSUME NEW pc, Continue(pc) PROVE UNCHANGED <<client.socket, client.dialled>>
  BY <1>1, <1>8 DEF Continue, ClientState
<1>9. CASE ReadStdin
  BY <1>3, <1>7, <1>9 DEF ReadStdin
<1>10. CASE StartShutdown \/ FinishReplay \/ Signal
  BY <1>1, <1>10 DEF StartShutdown, FinishReplay, Signal, ClientState
<1>11. CASE Receive
  BY <1>3, <1>6, <1>7, <1>8, <1>11
  DEF Receive, ReceiveAcp, ReceiveAck, ReceiveControl
<1>12. CASE WriteOutgoing
  <2>1. Head(client.outgoing).type # "open"
    BY <1>12 DEF WriteOutgoing, ConnectedInv, LinesKeepTheirNumbers, ConnectorInv
  <2>2. Writes(Head(client.outgoing)) /\ UNCHANGED <<s2c, up>>
    BY <1>5, <1>12, <2>1 DEF WriteOutgoing
  <2> QED BY <1>1, <1>12, <2>2 DEF WriteOutgoing, ClientState
<1>13. CASE LoseSocket \/ KeepaliveTimeout \/ AbandonAttempt \/ GiveUp
  BY <1>3, <1>4, <1>13 DEF LoseSocket, KeepaliveTimeout, AbandonAttempt, GiveUp
<1>14. CASE ReceiveReady
  BY <1>1, <1>4, <1>6, <1>14 DEF ReceiveReady, ClientState
<1>15. CASE ShutdownWhileDetached \/ ConnectorDies
  BY <1>1, <1>15 DEF ShutdownWhileDetached, ConnectorDies, ClientState
<1>16. CASE ReplayFrame
  <2> DEFINE e == Acp(clientPending[client.replayAt])
  <2>1. e.type # "open"
    BY DEF Acp
  <2> HIDE DEF e
  <2>2. Writes(e) /\ UNCHANGED <<s2c, up>>
    BY <1>5, <1>16, <2>1 DEF ReplayFrame, e
  <2>3. UNCHANGED <<client.socket, client.dialled>>
    BY <1>1, <1>16 DEF ReplayFrame, ClientState
  <2> QED BY <2>2, <2>3
<1>17. CASE SendShutdown
  <2>1. Control("shutdown").type # "open"
    BY DEF Control
  <2>2. Writes(Control("shutdown")) /\ UNCHANGED <<s2c, up>>
    BY <1>5, <1>17, <2>1 DEF SendShutdown
  <2> QED BY <1>8, <1>17, <2>2 DEF SendShutdown
<1>18. CASE AwaitComplete
  <2>1. CASE \E r : Return(r)
    BY <1>3, <2>1
  <2>2. CASE Continue("wait_complete") /\ Consume
    BY <1>6, <1>8, <1>18, <2>2 DEF AwaitComplete
  <2>3. CASE /\ c2s' = Transmit(c2s, client.socket, Control("pong"))
             /\ s2c' = [s2c EXCEPT ![client.socket] = Tail(@)]
             /\ UNCHANGED <<client, up, faults>>
    <3>1. Control("pong").type # "open"
      BY DEF Control
    <3>2. Writes(Control("pong")) /\ Reads
      BY <1>2, <1>18, <2>3, <3>1 DEF AwaitComplete, Writes, Reads, HasIncoming, Arrives
    <3> QED BY <2>3, <3>2
  <2> QED BY <1>18, <2>1, <2>2, <2>3 DEF AwaitComplete
<1> QED
  BY <1>9, <1>10, <1>11, <1>12, <1>13, <1>14, <1>15, <1>16, <1>17, <1>18
  DEF ConnectorStep, ConnectorNext

\* What a step of the session task does to the sockets.
Enqueues(s, e) == /\ s \in Sockets /\ s \in {session.transport, session.attaching}
                  /\ Open(s) /\ Enqueue(s, e)
                  /\ UNCHANGED <<events, attachments, networkVars>>
                  /\ UNCHANGED <<session.transport, session.attaching>>
TakesEvent == /\ events # << >> /\ events' = Tail(events)
              /\ UNCHANGED <<tasks, attachments, networkVars>>
              /\ UNCHANGED <<session.transport, session.attaching>>
Detaches == /\ session.transport \in Sockets
            /\ tasks' = [tasks EXCEPT ![session.transport] = StoppedTask]
            /\ CloseServerEnd({session.transport})
            /\ UNCHANGED <<attachments, session.attaching>>
            /\ session'.transport = NoSocket
            /\ UNCHANGED events \/ (events # << >> /\ events' = Tail(events))
Leaves == /\ events' = << >> /\ attachments' = << >>
          /\ session'.transport = NoSocket
          /\ UNCHANGED session.attaching
          /\ session.pc # "attach" /\ session'.pc = "ended"
          /\ \/ CloseServerEnd({} \cup Queued) /\ UNCHANGED tasks
             \/ /\ CloseServerEnd({session.transport} \cup Queued)
                /\ tasks' = [s \in Sockets |-> IF s = session.transport
                                                 THEN StoppedTask ELSE tasks[s]]

\* handle_client_envelope takes the event off the queue or leaves the loop.
LEMMA HandlingMoves ==
    ASSUME LinesKeepTheirNumbers, NEW e, HandleClientEnvelope(e),
           session.pc = "select", events # << >>
    PROVE  TakesEvent \/ Leaves
<1>1. session \in SessionState(ServerEnvelopes)
  BY DEF LinesKeepTheirNumbers, SessionInv
<1>2. ASSUME NEW c, Abandon(c) PROVE Leaves
  BY <1>1, <1>2 DEF Abandon, Leave, Leaves, SessionState
<1>3. ASSUME NEW c, Only(EndLoop(c)) \/ Only(Proceed(c)) PROVE TakesEvent
  BY <1>1, <1>3 DEF Only, EndLoop, Proceed, TakesEvent, SessionState
<1>4. ASSUME NEW r, Reply(r) PROVE TakesEvent
  BY <1>1, <1>4 DEF Reply, TakesEvent, SessionState
<1>5. CASE HandleAcp(e)
  BY <1>2, <1>3, <1>4, <1>5 DEF HandleAcp, ForwardLine, RejectLine, Accept
<1>6. CASE HandleAck(e)
  BY <1>1, <1>6 DEF HandleAck, Proceed, TakesEvent, SessionState
<1>7. CASE HandleControl(e)
  <2>1. CASE Only(session' = [session EXCEPT !.pc = "reap",
                                !.endCategory = "client_shutdown",
                                !.registered = FALSE])
    BY <1>1, <2>1 DEF Only, TakesEvent, SessionState
  <2> QED BY <1>3, <1>4, <1>7, <2>1 DEF HandleControl
<1> QED BY <1>3, <1>5, <1>6, <1>7 DEF HandleClientEnvelope

\* What a step of run_agent_session does to the channels and to the network.
LEMMA SessionMoves ==
    ASSUME LinesKeepTheirNumbers, TransportInv, SessionNext
    PROVE  \/ UNCHANGED <<channelVars, networkVars>>
           \/ \E s, e : Enqueues(s, e)
           \/ TakesEvent \/ Detaches \/ TakeAttachment \/ Leaves
<1>1. session \in SessionState(ServerEnvelopes)
  BY DEF LinesKeepTheirNumbers, SessionInv
<1>2. ASSUME NEW pc, Detach(pc), session.transport # NoSocket,
             UNCHANGED events \/ (events # << >> /\ events' = Tail(events))
      PROVE  Detaches
  BY <1>1, <1>2 DEF Detach, Detaches, SessionState
<1>3. CASE ReceiveEvent
  <2>1. events # << >> /\ session.pc = "select"
    BY <1>3 DEF ReceiveEvent
  <2>2. CASE Only(Proceed("top"))
    BY <1>1, <2>1, <2>2 DEF Only, Proceed, TakesEvent, SessionState
  <2>3. CASE ~Stale(Head(events)) /\ Detach("top") /\ events' = Tail(events)
    <3>1. Head(events) \in ClientEvents
      BY <2>1, HeadIn DEF LinesKeepTheirNumbers, ChannelInv
    <3>2. session.transport # NoSocket
      BY <2>3, <3>1, NetworkAssumption
      DEF Stale, ClientEvents, Event, Sockets, NoSocket
    <3> QED BY <1>2, <2>1, <2>3, <3>2
  <2>4. CASE HandleClientEnvelope(Head(events).envelope)
    BY <2>1, <2>4, HandlingMoves
  <2> QED BY <1>3, <2>2, <2>3, <2>4 DEF ReceiveEvent
<1>4. CASE PumpFindsClosed \/ KeepaliveExpires \/ ExitFails
  BY <1>2, <1>4 DEF PumpFindsClosed, KeepaliveExpires, ExitFails, TransportInv
<1>5. CASE EnterSelect \/ Wake \/ ExitConfirmed \/ ServerShutdown \/ GraceExpires
           \/ ChildWait \/ AttachSucceeds \/ AttachFails \/ ReadAgent \/ ReapAgent
  BY <1>5 DEF EnterSelect, Wake, ExitConfirmed, ServerShutdown, GraceExpires,
     ChildWait, AttachSucceeds, AttachFails, ReadAgent, ReapAgent
<1>6. CASE PumpReplay
  BY <1>1, <1>6 DEF PumpReplay, Enqueues, SessionState
<1>7. CASE AttachEnqueues
  BY <1>1, <1>7 DEF AttachEnqueues, Enqueues, SessionState, TransportInv
<1>8. CASE SendExit
  BY <1>1, <1>8 DEF SendExit, Enqueues, SessionState, TransportInv
<1>9. CASE SendNoise
  <2>1. PICK type \in {"ping", "stderr"} : TryEnqueue(session.transport, Control(type))
    BY <1>9 DEF SendNoise
  <2>2. CASE UNCHANGED tasks
    BY <1>9, <2>2 DEF SendNoise, channelVars
  <2>3. CASE /\ session.transport # NoSocket /\ Open(session.transport)
             /\ Enqueue(session.transport, Control(type))
    BY <1>1, <1>9, <2>3 DEF SendNoise, Proceed, Enqueues, SessionState
  <2> QED BY <2>1, <2>2, <2>3 DEF TryEnqueue
<1>10. CASE SendReply
  <2>1. CASE UNCHANGED tasks
    BY <1>10, <2>1 DEF SendReply, channelVars
  <2>2. CASE /\ session.transport # NoSocket /\ Open(session.transport)
             /\ Enqueue(session.transport, Head(session.outbox))
    BY <1>1, <1>10, <2>2 DEF SendReply, Enqueues, SessionState
  <2> QED BY <1>10, <2>1, <2>2 DEF SendReply, TryEnqueue
<1>11. CASE SendFarewell
  <2>1. session.transport # NoSocket
    BY <1>11 DEF SendFarewell, TransportInv
  <2> QED BY <1>1, <1>11, <2>1 DEF SendFarewell, Enqueues, SessionState
<1>12. CASE EndSession
  BY <1>1, <1>12 DEF EndSession, Leave, Leaves, SessionState
<1>13. CASE ReapFails
  BY <1>1, <1>13 DEF ReapFails, Abandon, Leave, Leaves, SessionState
<1> QED
  BY <1>3, <1>4, <1>5, <1>6, <1>7, <1>8, <1>9, <1>10, <1>11, <1>12, <1>13
  DEF SessionNext

\* The connector's socket is the last one it dialled, in every step of it.
LEMMA ConnectedKeeps ==
    ASSUME LinesKeepTheirNumbers, ConnectedInv, ConnectorStep
    PROVE  ConnectedInv'
<1>1. client \in ClientState(ClientEnvelopes) /\ client.outgoing \in Seq(ClientEnvelopes)
  BY DEF LinesKeepTheirNumbers, ConnectorInv, ClientState
<1>2. NoSocket \notin Sockets
  BY NetworkAssumption DEF Sockets, NoSocket
<1>3. Len(<< >>) = 0 /\ \A e : <<e>> # << >> /\ Len(<<e>>) = 1 /\ Head(<<e>>) = e
  OBVIOUS
<1>4. ASSUME NEW r, Return(r) PROVE ConnectedInv'
  BY <1>1, <1>3, <1>4 DEF Return, ClientState, ConnectedInv
<1>5. ASSUME Redial PROVE ConnectedInv'
  BY <1>1, <1>3, <1>5 DEF Redial, ClientState, ConnectedInv
<1>6. ASSUME NEW e, Send(e), e.type # "open", client.pc = "select"
      PROVE  ConnectedInv'
  BY <1>1, <1>3, <1>6 DEF Send, ClientState, ConnectedInv
<1>7. ASSUME NEW pc \in {"select", "wait_complete"}, Continue(pc),
             client.pc \in {"select", "send_shutdown", "wait_complete"}
      PROVE  ConnectedInv'
  BY <1>1, <1>7 DEF Continue, ClientState, ConnectedInv
<1>8. /\ \A frame : Acp(frame).type # "open"
      /\ \A n : Ack("server_to_client", n).type # "open"
      /\ Control("pong").type # "open"
  BY DEF Acp, Ack, Control
<1>9. CASE ReadStdin
  BY <1>4, <1>6, <1>8, <1>9 DEF ReadStdin
<1>10. CASE StartShutdown \/ FinishReplay \/ Signal
  BY <1>1, <1>10
  DEF StartShutdown, FinishReplay, Signal, ClientState, ConnectedInv
<1>11. CASE Receive
  BY <1>4, <1>6, <1>7, <1>8, <1>11
  DEF Receive, ReceiveAcp, ReceiveAck, ReceiveControl
<1>12. CASE WriteOutgoing
  BY <1>1, <1>3, <1>12 DEF WriteOutgoing, ClientState, ConnectedInv
<1>13. CASE LoseSocket \/ KeepaliveTimeout \/ AbandonAttempt \/ GiveUp
  BY <1>4, <1>5, <1>13 DEF LoseSocket, KeepaliveTimeout, AbandonAttempt, GiveUp
<1>14. CASE ReceiveReady
  BY <1>1, <1>5, <1>14 DEF ReceiveReady, ClientState, ConnectedInv
<1>15. CASE ShutdownWhileDetached
  BY <1>1, <1>15 DEF ShutdownWhileDetached, ClientState, ConnectedInv
<1>20. CASE ConnectorDies
  BY <1>1, <1>3, <1>20 DEF ConnectorDies, ClientState, ConnectedInv
<1>16. CASE ReplayFrame
  BY <1>1, <1>16 DEF ReplayFrame, ClientState, ConnectedInv
<1>17. CASE SendShutdown
  BY <1>7, <1>17 DEF SendShutdown
<1>18. CASE AwaitComplete
  BY <1>4, <1>7, <1>18 DEF AwaitComplete, ConnectedInv
<1>19. CASE Dial
  <2>1. client.dialled + 1 \in Sockets /\ client.dialled + 1 > 1
    BY <1>1, <1>19, NetworkAssumption DEF Dial, ClientState, Sockets
  <2> QED BY <1>1, <1>2, <1>19, <2>1 DEF Dial, ClientState, ConnectedInv
<1> QED
  BY <1>9, <1>10, <1>11, <1>12, <1>13, <1>14, <1>15, <1>16, <1>17, <1>18, <1>19,
     <1>20 DEF ConnectorStep, ConnectorNext

\* A step of the connector changes no task, and brings up a fresh socket.
LEMMA ConnectorSockets ==
    ASSUME LinesKeepTheirNumbers, SocketInv, ConnectorStep
    PROVE  SocketInv'
<1> USE DEF SocketInv
<1>1. UNCHANGED <<session, tasks, events, attachments>>
  BY DEF ConnectorStep, serverVars, channelVars
<1>2. ConnectedInv'
  BY ConnectedKeeps
<1>3. TransportInv' /\ AttachmentInv'
  BY <1>1 DEF TransportInv, AttachmentInv
<1>4. /\ NetworkInv
      /\ \A s \in Sockets : c2s[s] \in Seq(ClientEnvelopes) /\ s2c[s] \in Seq(ServerEnvelopes)
      /\ client.dialled \in Sockets /\ Sockets \subseteq Int
  BY NetworkAssumption
  DEF LinesKeepTheirNumbers, NetworkInv, ConnectorInv, ClientState, Sockets
<1>5. ASSUME \A s \in Sockets : s > client.dialled \/ tasks[s].state = "stopped" =>
               ~up'[s] /\ c2s'[s] = << >>,
             \A s \in Sockets : s > client.dialled => s2c'[s] = << >>,
             \A s \in Sockets : up'[s] => up[s],
             client'.dialled = client.dialled
      PROVE  FreshInv' /\ TaskInv' /\ EventInv'
  <2>1. FreshInv'
    BY <1>1, <1>5 DEF FreshInv, Fresh, Queued
  <2>2. TaskInv'
    BY <1>1, <1>5 DEF TaskInv, TaskOK
  <2>3. EventInv'
    BY <1>1, <1>5 DEF EventInv, EventOK
  <2> QED BY <2>1, <2>2, <2>3
<1>6. \A s \in Sockets : s > client.dialled \/ tasks[s].state = "stopped" =>
        ~up[s] /\ c2s[s] = << >>
  BY DEF FreshInv, Fresh, TaskInv, TaskOK
<1>7. \A s \in Sockets : s > client.dialled => s2c[s] = << >>
  BY DEF FreshInv, Fresh
<1>8. CASE UNCHANGED networkVars /\ UNCHANGED <<client.socket, client.dialled>>
  BY <1>2, <1>3, <1>5, <1>6, <1>7, <1>8 DEF networkVars
<1>9. CASE /\ CloseClientEnd(client.socket)
           /\ client'.socket = NoSocket /\ client'.dialled = client.dialled
  <2>1. \A s \in Sockets : /\ up'[s] => up[s]
                           /\ c2s[s] = << >> => c2s'[s] = << >>
                           /\ s2c[s] = << >> => s2c'[s] = << >>
    <3> SUFFICES ASSUME NEW s \in Sockets
                 PROVE  /\ up'[s] => up[s]
                        /\ c2s[s] = << >> => c2s'[s] = << >>
                        /\ s2c[s] = << >> => s2c'[s] = << >>
      OBVIOUS
    <3>1. /\ s = client.socket => ~up'[s] /\ s2c'[s] = << >> /\ Cut(c2s'[s], c2s[s])
          /\ s # client.socket => up'[s] = up[s] /\ c2s'[s] = c2s[s] /\ s2c'[s] = s2c[s]
      BY <1>4, <1>9, ClientEndCloses
    <3>2. Cut(c2s'[s], c2s[s]) => (c2s[s] = << >> => c2s'[s] = << >>)
      BY <1>4, CutElements
    <3> QED BY <3>1, <3>2
  <2> QED BY <1>2, <1>3, <1>5, <1>6, <1>7, <1>9, <2>1
<1>10. CASE /\ Reads \/ UNCHANGED s2c
            /\ (\E e : Writes(e)) \/ UNCHANGED c2s
            /\ UNCHANGED <<up, client.socket, client.dialled>>
  <2>1. \A s \in Sockets : ~up[s] => c2s'[s] = c2s[s]
    BY <1>4, <1>10 DEF Writes, Transmit, NetworkInv
  <2>2. \A s \in Sockets : s2c[s] = << >> => s2c'[s] = << >>
    BY <1>4, <1>10 DEF Reads, NetworkInv
  <2> QED BY <1>2, <1>3, <1>5, <1>6, <1>7, <1>10, <2>1, <2>2
<1>11. CASE Dial
  <2> DEFINE s == client.dialled + 1
  <2>1. s \in Sockets /\ s > client.dialled /\ client'.dialled = s
    BY <1>4, <1>11, NetworkAssumption
    DEF Dial, Sockets, LinesKeepTheirNumbers, ConnectorInv, ClientState
  <2>2. /\ \A t \in Sockets : t # s => c2s'[t] = c2s[t] /\ up'[t] = up[t]
        /\ s2c' = s2c
    BY <1>4, <1>11 DEF Dial, NetworkInv
  <2>3. Fresh(s) /\ tasks[s].state = "none" /\ NoTask.state = "none"
    BY <2>1 DEF FreshInv, Fresh, NoTask
  <2>4. FreshInv'
    <3>1. \A t \in Sockets : t > s => t > client.dialled /\ t # s
      BY NetworkAssumption DEF Sockets, LinesKeepTheirNumbers, ConnectorInv, ClientState
    <3> QED BY <1>1, <2>1, <2>2, <3>1 DEF FreshInv, Fresh, Queued
  <2>5. TaskInv'
    BY <1>1, <2>2, <2>3 DEF TaskInv, TaskOK
  <2>6. EventInv'
    BY <1>1, <2>2, <2>3 DEF EventInv, EventOK
  <2> QED BY <1>2, <1>3, <2>4, <2>5, <2>6
<1> QED BY <1>8, <1>9, <1>10, <1>11, ConnectorMoves

\* What a step of the task of s does to the sockets.
LEMMA TaskMoves ==
    ASSUME LinesKeepTheirNumbers, TaskInv, NEW s \in Sockets, TaskNext(s)
    PROVE  /\ tasks[s].state = "running" /\ tasks'[s].state # "none"
           /\ TaskOK(s)'
           /\ up'[s] => up[s]
           /\ c2s'[s] = c2s[s] \/ c2s'[s] = << >> \/ (c2s[s] # << >> /\ c2s'[s] = Tail(c2s[s]))
           /\ \A t \in Sockets : t # s => /\ tasks'[t] = tasks[t] /\ up'[t] = up[t]
                                          /\ c2s'[t] = c2s[t] /\ s2c'[t] = s2c[t]
           /\ UNCHANGED attachments
           /\ \E x : session' = [session EXCEPT !.sent = x]
           /\ \/ UNCHANGED events
              \/ \E v : EventOK(v)' /\ events' = Append(events, v)
<1> DEFINE Others == \A t \in Sockets : t # s => /\ tasks'[t] = tasks[t]
                                          /\ up'[t] = up[t]
                                          /\ c2s'[t] = c2s[t] /\ s2c'[t] = s2c[t]
<1>1. /\ tasks \in [Sockets -> Task(ServerEnvelopes, ClientEvents)]
      /\ NetworkInv /\ session \in SessionState(ServerEnvelopes)
      /\ tasks[s] \in Task(ServerEnvelopes, ClientEvents)
      /\ TaskOK(s)
  BY DEF LinesKeepTheirNumbers, ChannelInv, SessionInv, TaskInv
<1>2. NoTask.held = << >> /\ StoppedTask.held = << >> /\ StoppedTask.state = "stopped"
      /\ StoppedTask.writing = << >> /\ Len(<< >>) = 0
  BY DEF NoTask, StoppedTask
<1>3. ASSUME StopTask(s)
      PROVE  /\ tasks'[s].state = "stopped" /\ ~up'[s]
             /\ TaskOK(s)' /\ Others
             /\ \E x : session' = [session EXCEPT !.sent = x]
  <2>1. tasks'[s] = StoppedTask /\ \A t \in Sockets : t # s => tasks'[t] = tasks[t]
    BY <1>1, <1>3 DEF StopTask
  <2>2. ~up'[s] /\ c2s'[s] = << >>
    BY <1>1, <1>3, ServerEndCloses DEF StopTask
  <2>3. \A t \in Sockets : t # s => /\ up'[t] = up[t]
                                    /\ c2s'[t] = c2s[t] /\ s2c'[t] = s2c[t]
    BY <1>1, <1>3, ServerEndCloses DEF StopTask
  <2>4. TaskOK(s)'
    BY <1>2, <2>1, <2>2 DEF TaskOK
  <2>5. \E x : session' = [session EXCEPT !.sent = x]
    BY <1>3 DEF StopTask
  <2> QED BY <1>2, <2>1, <2>2, <2>3, <2>4, <2>5
<1>9. c2s'[s] = c2s[s] \/ c2s'[s] = << >> \/ (c2s[s] # << >> /\ c2s'[s] = Tail(c2s[s]))
  <2>1. ASSUME StopTask(s) PROVE c2s'[s] = << >>
    BY <1>1, <2>1, ServerEndCloses DEF StopTask
  <2>2. CASE TaskReads(s)
    BY <1>1, <2>2 DEF TaskReads, NetworkInv, Arrives
  <2>3. CASE TaskFinishes(s)
    BY <1>1, <2>3 DEF TaskFinishes, NetworkInv
  <2>4. CASE TaskWrites(s) \/ TaskBlocks(s)
    BY <2>4 DEF TaskWrites, TaskBlocks, networkVars
  <2>5. CASE TaskWriteFails(s) \/ TaskSeesEnd(s) \/ TaskHandsOver(s) \/ OrphanStops(s)
    <3>1. StopTask(s) \/ UNCHANGED networkVars
      BY <2>5 DEF TaskWriteFails, TaskSeesEnd, TaskHandsOver, OrphanStops
    <3> QED BY <2>1, <3>1 DEF networkVars
  <2> QED BY <2>2, <2>3, <2>4, <2>5 DEF TaskNext
<1>4. \E x : session' = [session EXCEPT !.sent = x]
  <2>1. ASSUME UNCHANGED session PROVE session' = [session EXCEPT !.sent = session.sent]
    BY <1>1, <2>1 DEF SessionState
  <2> QED BY <1>3, <2>1 DEF TaskNext, TaskWrites, TaskFinishes, TaskBlocks, TaskWriteFails,
         TaskReads, TaskSeesEnd, TaskHandsOver, OrphanStops
<1>5. UNCHANGED attachments
  BY DEF TaskNext, TaskWrites, TaskFinishes, TaskBlocks, TaskWriteFails,
         TaskReads, TaskSeesEnd, TaskHandsOver, OrphanStops
<1>6. tasks[s].state = "running"
  <2>1. CASE tasks[s].held # << >>
    BY <1>1, <1>2, <2>1 DEF TaskOK, Task
  <2> QED BY <2>1 DEF TaskNext, TaskWrites, TaskFinishes, TaskBlocks, TaskWriteFails,
       TaskReads, TaskSeesEnd, TaskHandsOver, OrphanStops, HasCommand, Selecting
<1>7. ASSUME StopTask(s)
      PROVE  EventOK([socket |-> s, kind |-> "disconnected"])'
  BY <1>2, <1>3, <1>7 DEF EventOK
<1> DEFINE Events2 == \/ UNCHANGED events
                      \/ \E v : EventOK(v)' /\ events' = Append(events, v)
           Goal == /\ tasks'[s].state # "none" /\ TaskOK(s)' /\ (up'[s] => up[s])
                   /\ Others /\ Events2
<1>8. \A e : Len(<<e>>) = 1 /\ Head(<<e>>) = e /\ <<e>> # << >>
  OBVIOUS
<1>10. CASE TaskWrites(s)
  <2>1. /\ tasks'[s].state = "running" /\ tasks'[s].held = tasks[s].held
        /\ Len(tasks'[s].writing) <= 1
        /\ \A t \in Sockets : t # s => tasks'[t] = tasks[t]
    BY <1>1, <1>2, <1>6, <1>10 DEF TaskWrites, Task, TaskOK
  <2>2. UNCHANGED <<up, c2s, events>> /\ \A t \in Sockets : t # s => s2c'[t] = s2c[t]
    BY <1>1, <1>10 DEF TaskWrites, Transmit, NetworkInv
  <2>3. TaskOK(s)'
    BY <1>1, <2>1, <2>2 DEF TaskOK
  <2> QED BY <1>4, <1>5, <1>6, <1>9, <2>1, <2>2, <2>3
<1>11. CASE TaskFinishes(s)
  <2>1. /\ tasks'[s] = StoppedTask
        /\ \A t \in Sockets : t # s => tasks'[t] = tasks[t]
    BY <1>1, <1>11 DEF TaskFinishes
  <2>2. /\ UNCHANGED events /\ ~up'[s] /\ c2s'[s] = << >>
        /\ \A t \in Sockets : t # s =>
             s2c'[t] = s2c[t] /\ up'[t] = up[t] /\ c2s'[t] = c2s[t]
    BY <1>1, <1>11 DEF TaskFinishes, NetworkInv
  <2>3. TaskOK(s)'
    BY <1>2, <2>1, <2>2 DEF TaskOK
  <2> QED BY <1>2, <1>4, <1>5, <1>6, <1>9, <2>1, <2>2, <2>3
<1>12. CASE TaskBlocks(s)
  <2>1. /\ tasks'[s].state = "running" /\ tasks'[s].held = tasks[s].held
        /\ Len(tasks'[s].writing) <= 1
        /\ \A t \in Sockets : t # s => tasks'[t] = tasks[t]
    BY <1>1, <1>6, <1>8, <1>12 DEF TaskBlocks, Task
  <2>2. UNCHANGED <<up, c2s, s2c, events>>
    BY <1>12 DEF TaskBlocks, networkVars
  <2>3. TaskOK(s)'
    BY <1>1, <2>1, <2>2 DEF TaskOK
  <2> QED BY <1>4, <1>5, <1>6, <1>9, <2>1, <2>2, <2>3
<1>13. CASE TaskWriteFails(s)
  <2>1. Goal
    BY <1>2, <1>3, <1>7, <1>13 DEF TaskWriteFails
  <2> QED BY <1>4, <1>5, <1>6, <1>9, <2>1
<1>14. ASSUME NEW h, Len(h) <= 1, h # << >> => Head(h).socket = s,
              tasks' = [tasks EXCEPT ![s].held = h], UNCHANGED up,
              \A t \in Sockets : t # s => c2s'[t] = c2s[t], UNCHANGED s2c
       PROVE  /\ tasks'[s].state = "running" /\ TaskOK(s)' /\ (up'[s] => up[s]) /\ Others
  <2>1. /\ tasks'[s].state = "running" /\ tasks'[s].held = h
        /\ tasks'[s].writing = tasks[s].writing
        /\ \A t \in Sockets : t # s => tasks'[t] = tasks[t]
    BY <1>1, <1>6, <1>14 DEF Task
  <2>2. TaskOK(s)'
    BY <1>1, <1>14, <2>1 DEF TaskOK
  <2> QED BY <1>14, <2>1, <2>2
<1>15. CASE TaskReads(s)
  <2>9. PICK event : event = [socket |-> s, kind |-> "envelope", envelope |-> Head(c2s[s])]
    OBVIOUS
  <2>0. /\ \A t \in Sockets : t # s => c2s'[t] = c2s[t]
        /\ UNCHANGED <<up, s2c>>
    BY <1>1, <1>15 DEF TaskReads, NetworkInv
  <2>1. CASE events' = Append(events, event) /\ UNCHANGED tasks
    <3>1. EventOK(event)'
      BY <1>6, <2>1, <2>9 DEF EventOK
    <3>2. TaskOK(s)'
      BY <1>1, <1>6, <2>0, <2>1 DEF TaskOK
    <3> QED BY <1>4, <1>5, <1>6, <1>9, <2>0, <2>1, <3>1, <3>2
  <2>2. CASE tasks' = [tasks EXCEPT ![s].held = <<event>>] /\ UNCHANGED events
    <3>1. Len(<<event>>) <= 1 /\ Head(<<event>>).socket = s
      BY <2>9
    <3>2. /\ tasks'[s].state = "running" /\ TaskOK(s)' /\ (up'[s] => up[s]) /\ Others
      BY <1>14, <2>0, <2>2, <3>1
    <3> QED BY <1>4, <1>5, <1>6, <1>9, <2>2, <3>2
  <2> QED BY <1>15, <2>1, <2>2, <2>9 DEF TaskReads
<1>16. CASE TaskSeesEnd(s)
  <2> DEFINE event == [socket |-> s, kind |-> "disconnected"]
  <2>1. CASE events' = Append(events, event) /\ StopTask(s)
    <3>1. EventOK(event)'
      BY <1>7, <2>1
    <3> QED BY <1>3, <1>4, <1>5, <1>6, <1>9, <2>1, <3>1
  <2>2. CASE tasks' = [tasks EXCEPT ![s].held = <<event>>]
             /\ UNCHANGED <<session, events, networkVars>>
    <3>1. Len(<<event>>) <= 1 /\ Head(<<event>>).socket = s
      OBVIOUS
    <3> HIDE DEF event
    <3>2. /\ tasks'[s].state = "running" /\ TaskOK(s)' /\ (up'[s] => up[s]) /\ Others
      BY <1>14, <2>2, <3>1 DEF networkVars
    <3> QED BY <1>4, <1>5, <1>6, <1>9, <2>2, <3>2
  <2> QED BY <1>16, <2>1, <2>2 DEF TaskSeesEnd
<1>17. CASE TaskHandsOver(s)
  <2>9. PICK event : event = Head(tasks[s].held)
    OBVIOUS
  <2>1. event \in ClientEvents /\ event.socket = s /\ tasks[s].held # << >>
    BY <2>9, <1>1, <1>17, HeadIn DEF TaskHandsOver, Task, TaskOK
  <2>2. CASE StopTask(s) /\ event.kind = "disconnected" /\ events' = Append(events, event)
    <3>1. EventOK(event)'
      BY <1>2, <1>3, <2>1, <2>2 DEF EventOK
    <3> QED BY <1>3, <1>4, <1>5, <1>6, <1>9, <2>2, <3>1
  <2>3. CASE /\ tasks' = [tasks EXCEPT ![s].held = << >>]
             /\ event.kind # "disconnected" /\ events' = Append(events, event)
             /\ UNCHANGED <<session, networkVars>>
    <3>1. Len(<< >>) <= 1
      OBVIOUS
    <3>2. /\ tasks'[s].state = "running" /\ TaskOK(s)' /\ (up'[s] => up[s]) /\ Others
      BY <1>14, <2>3, <3>1 DEF networkVars
    <3>3. EventOK(event)'
      BY <2>1, <2>3, <3>2 DEF EventOK
    <3> QED BY <1>4, <1>5, <1>6, <1>9, <2>3, <3>2, <3>3
  <2> QED BY <1>17, <2>2, <2>3, <2>9 DEF TaskHandsOver
<1>18. CASE OrphanStops(s)
  BY <1>3, <1>4, <1>5, <1>6, <1>9, <1>18 DEF OrphanStops
<1> QED
  BY <1>10, <1>11, <1>12, <1>13, <1>15, <1>16, <1>17, <1>18 DEF TaskNext

\* An event at the end of the queue, or one less at its head.
LEMMA EventAppended ==
    ASSUME NEW S, NEW q \in Seq(S), NEW v
    PROVE  /\ Len(Append(q, v)) = Len(q) + 1 /\ Len(q) \in Nat
           /\ \A i \in 1 .. Len(q) : Append(q, v)[i] = q[i]
           /\ Append(q, v)[Len(q) + 1] = v
BY LenProperties

\* One element less at the head of a queue (recv on a channel, a read of a frame).
LEMMA TailElements ==
    ASSUME NEW S, NEW q \in Seq(S), q # << >>
    PROVE  /\ Len(Tail(q)) = Len(q) - 1 /\ Len(q) \in Nat /\ Len(q) > 0
           /\ \A i \in 1 .. Len(Tail(q)) : i + 1 \in 1 .. Len(q) /\ Tail(q)[i] = q[i + 1]
           /\ Head(q) = q[1]
BY LenProperties, HeadTailProperties, EmptySeq

\* A step of a transport task.
LEMMA TaskSockets ==
    ASSUME LinesKeepTheirNumbers, SocketInv, NEW s \in Sockets, TaskNext(s),
           UNCHANGED clientVars
    PROVE  SocketInv'
<1> USE DEF SocketInv
<1>1. /\ tasks[s].state = "running" /\ tasks'[s].state # "none"
      /\ TaskOK(s)'
      /\ up'[s] => up[s]
      /\ \A t \in Sockets : t # s => /\ tasks'[t] = tasks[t] /\ up'[t] = up[t]
                                     /\ c2s'[t] = c2s[t] /\ s2c'[t] = s2c[t]
      /\ UNCHANGED attachments
      /\ \E x : session' = [session EXCEPT !.sent = x]
      /\ \/ UNCHANGED events
         \/ \E v : EventOK(v)' /\ events' = Append(events, v)
  BY TaskMoves
<1>2. UNCHANGED client
  BY DEF clientVars
<1>3. ConnectedInv'
  BY <1>2 DEF ConnectedInv
<1>4. FreshInv'
  <2>1. s <= client.dialled
    <3>1. tasks[s] # NoTask /\ s \in Int /\ client.dialled \in Int
      BY <1>1, NetworkAssumption
      DEF NoTask, Sockets, LinesKeepTheirNumbers, ConnectorInv, ClientState
    <3> QED BY <3>1 DEF FreshInv, Fresh
  <2>2. \A t \in Sockets : t > client.dialled => t # s
    BY <2>1, NetworkAssumption
    DEF Sockets, LinesKeepTheirNumbers, ConnectorInv, ClientState
  <2> QED BY <1>1, <1>2, <2>2 DEF FreshInv, Fresh, Queued
<1>5. TransportInv'
  <2>1. UNCHANGED <<session.pc, session.transport, session.attaching, session.outbox>>
    BY <1>1 DEF LinesKeepTheirNumbers, SessionInv, SessionState
  <2>2. session.transport \in Sockets \cup {NoSocket} /\ session.attaching \in Sockets \cup {NoSocket}
    BY DEF LinesKeepTheirNumbers, SessionInv, SessionState
  <2>3. \A t \in Sockets : tasks[t].state # "none" => tasks'[t].state # "none"
    BY <1>1
  <2> QED BY <2>1, <2>2, <2>3 DEF TransportInv
<1>6. TaskInv'
  BY <1>1 DEF TaskInv, TaskOK
<1>7. EventInv'
  <2>1. \A v : EventOK(v) => EventOK(v)'
    BY <1>1 DEF EventOK
  <2>2. CASE UNCHANGED events
    BY <2>1, <2>2 DEF EventInv
  <2>3. ASSUME NEW v, EventOK(v)', events' = Append(events, v)
        PROVE  EventInv'
    <3>1. /\ Len(events') = Len(events) + 1 /\ Len(events) \in Nat
          /\ \A i \in 1 .. Len(events) : events'[i] = events[i]
          /\ events'[Len(events) + 1] = v
      BY <2>3, EventAppended DEF LinesKeepTheirNumbers, ChannelInv
    <3> SUFFICES ASSUME NEW i \in 1 .. Len(events') PROVE EventOK(events[i])'
      BY DEF EventInv
    <3>2. CASE i \in 1 .. Len(events)
      BY <2>1, <3>1, <3>2 DEF EventInv
    <3>3. CASE i = Len(events) + 1
      BY <2>3, <3>1, <3>3
    <3> QED BY <3>1, <3>2, <3>3
  <2> QED BY <1>1, <2>2, <2>3
<1>8. AttachmentInv'
  <2>1. \A t \in Sockets : tasks[t].state = "none" => tasks'[t] = tasks[t]
    BY <1>1
  <2>2. \A i \in 1 .. Len(attachments) : attachments[i] \in Sockets
    BY ElementOfSeq DEF LinesKeepTheirNumbers, SessionInv
  <2> QED BY <1>1, <2>1, <2>2 DEF AttachmentInv
<1> QED BY <1>3, <1>4, <1>5, <1>6, <1>7, <1>8

\* A link fails.
LEMMA NetworkSockets ==
    ASSUME LinesKeepTheirNumbers, SocketInv, NetworkStep
    PROVE  SocketInv'
<1> USE DEF SocketInv
<1>1. UNCHANGED <<client, session, tasks, events, attachments>>
  BY DEF NetworkStep, clientVars, serverVars, channelVars
<1>2. PICK t \in Sockets : LinkFails(t)
  BY DEF NetworkStep
<1>3. \A s \in Sockets : /\ up'[s] => up[s]
                         /\ c2s[s] = << >> => c2s'[s] = << >>
                         /\ s2c[s] = << >> => s2c'[s] = << >>
  <2> SUFFICES ASSUME NEW s \in Sockets
               PROVE  /\ up'[s] => up[s]
                      /\ c2s[s] = << >> => c2s'[s] = << >>
                      /\ s2c[s] = << >> => s2c'[s] = << >>
    OBVIOUS
  <2>1. c2s[s] \in Seq(ClientEnvelopes) /\ s2c[s] \in Seq(ServerEnvelopes) /\ NetworkInv
    BY DEF LinesKeepTheirNumbers, NetworkInv
  <2>2. CASE s = t
    <3>1. ~up'[s] /\ Cut(s2c'[s], s2c[s]) /\ Cut(c2s'[s], c2s[s])
      BY <1>2, <2>1, <2>2, LinkCloses
    <3> QED BY <2>1, <3>1, CutElements
  <2>3. CASE s # t
    BY <1>2, <2>1, <2>3, LinkCloses
  <2> QED BY <2>2, <2>3
<1>4. ConnectedInv' /\ TransportInv' /\ AttachmentInv'
  BY <1>1 DEF ConnectedInv, TransportInv, AttachmentInv
<1>5. FreshInv'
  BY <1>1, <1>3 DEF FreshInv, Fresh, Queued
<1>6. TaskInv'
  BY <1>1, <1>3 DEF TaskInv, TaskOK
<1>7. EventInv'
  BY <1>1, <1>3 DEF EventInv, EventOK
<1> QED BY <1>4, <1>5, <1>6, <1>7

\* `open` is the first message of a resumed socket, and is there until the
\* socket is handed to the session.
OpenInv ==
    \A s \in Sockets : \A i \in 1 .. Len(c2s[s]) :
      c2s[s][i].type = "open" => /\ i = 1 /\ tasks[s].state = "none"
                                 /\ s \notin Queued /\ s2c[s] = << >>

\* The session's sockets keep their tasks.
LEMMA TransportKeeps ==
    ASSUME LinesKeepTheirNumbers, SocketInv, SessionNext
    PROVE  TransportInv'
<1> USE DEF SocketInv
<1>1. session \in SessionState(ServerEnvelopes)
      /\ tasks \in [Sockets -> Task(ServerEnvelopes, ClientEvents)]
      /\ NoSocket \notin Sockets
  BY NetworkAssumption
  DEF LinesKeepTheirNumbers, SessionInv, ChannelInv, Sockets, NoSocket
<1>2. ASSUME UNCHANGED tasks, UNCHANGED <<session.transport, session.attaching>>,
             session.pc # "attach", session'.pc \notin {"attach", "exit", "exit_wait", "farewell"}
      PROVE  TransportInv'
  BY <1>1, <1>2 DEF TransportInv, SessionState
<1>3. ASSUME NEW c, Only(EndLoop(c)) \/ Only(Proceed("top")), session.pc = "select"
      PROVE  TransportInv'
  <2>1. /\ UNCHANGED tasks /\ UNCHANGED <<session.transport, session.attaching>>
        /\ session'.pc \in {"reap", "top"}
    BY <1>1, <1>3 DEF Only, EndLoop, Proceed, SessionState
  <2> QED BY <1>2, <1>3, <2>1
<1>4. ASSUME NEW r, Reply(r), session.pc = "select" PROVE TransportInv'
  <2>1. /\ UNCHANGED tasks /\ UNCHANGED <<session.transport, session.attaching>>
        /\ session'.pc = "reply"
    BY <1>1, <1>4 DEF Reply, SessionState
  <2> QED BY <1>2, <1>4, <2>1
<1>5. ASSUME Leaves PROVE TransportInv'
  BY <1>1, <1>5 DEF Leaves, TransportInv, SessionState
<1>6. ASSUME NEW pc \in {"top", "select"}, Detach(pc), session.pc # "attach"
      PROVE  TransportInv'
  BY <1>1, <1>6 DEF Detach, TransportInv, SessionState
<1>7. CASE ReceiveEvent
  <2>1. session.pc = "select" /\ events # << >>
    BY <1>7 DEF ReceiveEvent
  <2>2. CASE Only(Proceed("top"))
    BY <1>3, <2>1, <2>2
  <2>3. CASE Detach("top")
    BY <1>6, <2>1, <2>3
  <2>4. CASE HandleClientEnvelope(Head(events).envelope)
    <3> DEFINE e == Head(events).envelope
    <3>1. ASSUME NEW c, Abandon(c) PROVE Leaves
      BY <1>1, <2>1, <3>1 DEF Abandon, Leave, Leaves, SessionState
    <3>2. CASE Only(EndLoop(Violation(e)))
      BY <1>3, <2>1, <3>2
    <3>3. CASE HandleAcp(e)
      BY <1>3, <1>4, <1>5, <2>1, <3>1, <3>3 DEF HandleAcp, ForwardLine, RejectLine, Accept
    <3>4. CASE HandleAck(e)
      BY <1>1, <2>1, <3>4 DEF HandleAck, Proceed, TransportInv, SessionState
    <3>5. CASE HandleControl(e)
      <4>1. CASE Only(session' = [session EXCEPT !.pc = "reap",
                                !.endCategory = "client_shutdown",
                                !.registered = FALSE])
        BY <1>1, <2>1, <4>1 DEF Only, TransportInv, SessionState
      <4> QED BY <1>3, <1>4, <2>1, <3>5, <4>1 DEF HandleControl
    <3> QED BY <2>4, <3>2, <3>3, <3>4, <3>5 DEF HandleClientEnvelope
  <2> QED BY <1>7, <2>2, <2>3, <2>4 DEF ReceiveEvent
<1>8. CASE PumpFindsClosed \/ KeepaliveExpires \/ ExitFails
  BY <1>6, <1>8 DEF PumpFindsClosed, KeepaliveExpires, ExitFails
<1>9. CASE EnterSelect
  BY <1>1, <1>9 DEF EnterSelect, Proceed, channelVars, TransportInv, SessionState
<1>10. CASE Wake \/ ExitConfirmed \/ ServerShutdown \/ GraceExpires \/ ChildWait
  <2>1. /\ UNCHANGED tasks /\ UNCHANGED <<session.transport, session.attaching>>
        /\ session'.pc \in {"top", "reap"} /\ session.pc # "attach"
    BY <1>1, <1>10 DEF Wake, ExitConfirmed, ServerShutdown, GraceExpires, ChildWait,
       Proceed, EndLoop, channelVars, SessionState
  <2> QED BY <1>2, <2>1
<1>11. CASE ReadAgent
  <2>1. /\ UNCHANGED tasks /\ UNCHANGED <<session.transport, session.attaching>>
        /\ session'.pc \in {"top", "reap"} /\ session.pc # "attach"
    BY <1>1, <1>11 DEF ReadAgent, Proceed, EndLoop, channelVars, SessionState
  <2> QED BY <1>2, <2>1
<1>12. CASE AttachSucceeds \/ AttachFails
  BY <1>1, <1>12 DEF AttachSucceeds, AttachFails, AfterFailedAttach, channelVars,
     TransportInv, SessionState
<1>13. CASE ReapAgent
  <2>1. session'.outbox # << >> => session.transport # NoSocket
    <3>1. session'.outbox = Farewell
      BY <1>1, <1>13 DEF ReapAgent, SessionState
    <3>2. session.transport = NoSocket => Farewell = << >>
      BY DEF Farewell
    <3> QED BY <3>1, <3>2
  <2>2. /\ UNCHANGED tasks /\ UNCHANGED <<session.transport, session.attaching>>
        /\ session'.pc = "farewell" /\ session.pc = "reap"
    BY <1>1, <1>13 DEF ReapAgent, channelVars, SessionState
  <2> QED BY <1>1, <2>1, <2>2 DEF TransportInv
<1>14. ASSUME NEW s, NEW e, Enqueue(s, e)
       PROVE  \A t \in Sockets : tasks'[t].state = tasks[t].state
  BY <1>1, <1>14 DEF Enqueue, Task
<1>15. CASE PumpReplay \/ SendExit \/ AttachEnqueues \/ SendNoise \/ SendReply
            \/ SendFarewell
  <2>1. \A t \in Sockets : tasks'[t].state = tasks[t].state
    BY <1>14, <1>15 DEF PumpReplay, SendExit, AttachEnqueues, SendNoise, SendReply,
       SendFarewell, TryEnqueue
  <2>2. /\ UNCHANGED <<session.transport, session.attaching>>
        /\ session'.pc = "attach" <=> session.pc = "attach"
    <3>1. CASE PumpReplay \/ SendExit \/ AttachEnqueues
      BY <1>1, <3>1 DEF PumpReplay, SendExit, AttachEnqueues, Proceed, SessionState
    <3>2. CASE SendNoise
      BY <1>1, <3>2 DEF SendNoise, Proceed, SessionState
    <3>3. CASE SendReply
      BY <1>1, <3>3 DEF SendReply, SessionState
    <3>4. CASE SendFarewell
      BY <1>1, <3>4 DEF SendFarewell, SessionState
    <3> QED BY <1>15, <3>1, <3>2, <3>3, <3>4
  <2>3. /\ session'.pc \in {"exit", "exit_wait"} => session.pc \in {"exit", "exit_wait"}
        /\ session'.pc = "farewell" /\ session'.outbox # << >> =>
              session.pc = "farewell" /\ session.outbox # << >>
    BY <1>1, <1>15 DEF PumpReplay, SendExit, AttachEnqueues, SendNoise, SendReply,
       SendFarewell, Proceed, SessionState
  <2> QED BY <1>1, <2>1, <2>2, <2>3 DEF TransportInv, SessionState
<1>16. CASE EndSession \/ ReapFails
  <2>1. Leaves
    <3>1. CASE EndSession
      BY <1>1, <3>1 DEF EndSession, Leave, Leaves, SessionState
    <3>2. CASE ReapFails
      BY <1>1, <3>2 DEF ReapFails, Abandon, Leave, Leaves, SessionState
    <3> QED BY <1>16, <3>1, <3>2
  <2> QED BY <1>5, <2>1
<1>17. CASE TakeAttachment
  <2>1. Head(attachments) \in Sockets
    BY <1>17, HeadIn DEF TakeAttachment, LinesKeepTheirNumbers, SessionInv
  <2>2. session'.attaching = Head(attachments) /\ session'.pc = "attach"
        /\ session'.transport = NoSocket /\ tasks'[Head(attachments)] = StartedTask
    BY <1>1, <1>17, <2>1 DEF TakeAttachment, SessionState
  <2>3. StartedTask.state = "running"
    BY DEF StartedTask, NoTask
  <2> QED BY <1>1, <2>1, <2>2, <2>3 DEF TransportInv
<1> QED
  BY <1>7, <1>8, <1>9, <1>10, <1>11, <1>12, <1>13, <1>15, <1>16, <1>17
  DEF SessionNext

\* A step of the session task.
LEMMA SessionSockets ==
    ASSUME LinesKeepTheirNumbers, SocketInv, OpenInv, SessionNext, UNCHANGED clientVars
    PROVE  SocketInv' /\ OpenInv'
<1> USE DEF SocketInv
<1>1. /\ session \in SessionState(ServerEnvelopes)
      /\ tasks \in [Sockets -> Task(ServerEnvelopes, ClientEvents)]
      /\ events \in Seq(ClientEvents) /\ attachments \in Seq(Sockets)
      /\ NoSocket \notin Sockets /\ NetworkInv
      /\ client.dialled \in Int /\ Sockets \subseteq Int
  BY NetworkAssumption
  DEF LinesKeepTheirNumbers, SessionInv, ChannelInv, Sockets, NoSocket,
      ConnectorInv, ClientState
<1>2. ConnectedInv' /\ TransportInv' /\ client' = client
  BY TransportKeeps DEF ConnectedInv, clientVars
<1>3. /\ \A i \in 1 .. Len(attachments) : attachments[i] \in Queued /\ attachments[i] \in Sockets
      /\ StoppedTask.state = "stopped" /\ StartedTask.state = "running" /\ NoTask.state = "none"
      /\ NoTask = [state |-> "none", commands |-> << >>, writing |-> << >>, held |-> << >>]
      /\ StoppedTask.held = << >> /\ StoppedTask.writing = << >>
      /\ StartedTask.held = << >> /\ StartedTask.writing = << >>
      /\ Len(<< >>) = 0
  BY <1>1, ElementOfSeq DEF Queued, StoppedTask, StartedTask, NoTask
<1>4. CASE UNCHANGED <<channelVars, networkVars>>
  BY <1>2, <1>4 DEF channelVars, networkVars, FreshInv, Fresh, Queued, TaskInv, TaskOK,
     EventInv, EventOK, AttachmentInv, OpenInv
<1>5. ASSUME NEW s, NEW e, Enqueues(s, e) PROVE SocketInv' /\ OpenInv'
  <2>1. /\ s \in Sockets /\ tasks[s].state = "running"
        /\ UNCHANGED <<c2s, s2c, up, events, attachments>>
        /\ \A t \in Sockets : t # s => tasks'[t] = tasks[t]
        /\ tasks'[s].state = "running" /\ tasks'[s].writing = tasks[s].writing
        /\ tasks'[s].held = tasks[s].held
    BY <1>1, <1>5 DEF Enqueues, Enqueue, Open, networkVars, Task
  <2>2. FreshInv'
    <3>1. \A t \in Sockets : Fresh(t) => t # s
      BY <1>3, <2>1 DEF Fresh
    <3>2. \A t \in Sockets : Fresh(t) => Fresh(t)'
      BY <2>1, <3>1 DEF Fresh, Queued
    <3> QED BY <1>2, <3>2 DEF FreshInv
  <2>3. TaskInv'
    BY <2>1 DEF TaskInv, TaskOK
  <2>4. EventInv'
    BY <2>1 DEF EventInv, EventOK
  <2>5. AttachmentInv'
    BY <1>3, <2>1 DEF AttachmentInv
  <2>6. OpenInv'
    BY <2>1 DEF OpenInv, Queued
  <2> QED BY <1>2, <2>2, <2>3, <2>4, <2>5, <2>6
<1>6. CASE TakesEvent
  <2>1. UNCHANGED <<c2s, s2c, up, tasks, attachments>>
    BY <1>6 DEF TakesEvent, networkVars
  <2>2. \A i \in 1 .. Len(events') : i + 1 \in 1 .. Len(events) /\ events'[i] = events[i + 1]
    BY <1>1, <1>6, TailElements DEF TakesEvent
  <2>3. EventInv'
    BY <2>1, <2>2 DEF EventInv, EventOK
  <2> QED BY <1>2, <2>1, <2>3 DEF FreshInv, Fresh, Queued, TaskInv, TaskOK, AttachmentInv, OpenInv
<1>7. CASE Detaches
  <2> DEFINE s == session.transport
  <2>1. /\ s \in Sockets /\ tasks'[s] = StoppedTask /\ UNCHANGED attachments
        /\ \A t \in Sockets : t # s => tasks'[t] = tasks[t]
        /\ tasks[s].state # "none"
    BY <1>1, <1>7 DEF Detaches, TransportInv
  <2>2. ~up'[s] /\ c2s'[s] = << >>
    BY <1>1, <1>7, ServerEndCloses DEF Detaches
  <2>3. \A t \in Sockets : t # s => up'[t] = up[t] /\ c2s'[t] = c2s[t] /\ s2c'[t] = s2c[t]
    BY <1>1, <1>7, ServerEndCloses DEF Detaches
  <2>4. FreshInv'
    BY <1>2, <1>3, <2>1, <2>3 DEF FreshInv, Fresh, Queued
  <2>5. TaskInv'
    BY <1>3, <2>1, <2>2, <2>3 DEF TaskInv, TaskOK
  <2>6. EventInv'
    <3>1. \A v : EventOK(v) => EventOK(v)'
      BY <1>3, <2>1, <2>2, <2>3 DEF EventOK
    <3>2. CASE UNCHANGED events
      BY <3>1, <3>2 DEF EventInv
    <3>3. CASE events # << >> /\ events' = Tail(events)
      <4>1. \A i \in 1 .. Len(events') : i + 1 \in 1 .. Len(events) /\ events'[i] = events[i + 1]
        BY <1>1, <3>3, TailElements
      <4> QED BY <3>1, <4>1 DEF EventInv
    <3> QED BY <1>7, <3>2, <3>3 DEF Detaches
  <2>7. AttachmentInv'
    BY <1>3, <2>1 DEF AttachmentInv
  <2>8. OpenInv'
    BY <1>3, <2>1, <2>2, <2>3 DEF OpenInv, Queued
  <2> QED BY <1>2, <2>4, <2>5, <2>6, <2>7, <2>8
<1>8. CASE Leaves
  <2>1. PICK aborted \in BOOLEAN :
          /\ CloseServerEnd((IF aborted THEN {session.transport} ELSE {}) \cup Queued)
          /\ \A t \in Sockets :
               tasks'[t] = IF aborted /\ t = session.transport THEN StoppedTask ELSE tasks[t]
    <3>1. CASE CloseServerEnd({} \cup Queued) /\ UNCHANGED tasks
      <4>1. CloseServerEnd((IF FALSE THEN {session.transport} ELSE {}) \cup Queued)
        BY <3>1
      <4> QED BY <3>1, <4>1
    <3>2. CASE /\ CloseServerEnd({session.transport} \cup Queued)
               /\ tasks' = [s \in Sockets |-> IF s = session.transport
                                                 THEN StoppedTask ELSE tasks[s]]
      <4>1. CloseServerEnd((IF TRUE THEN {session.transport} ELSE {}) \cup Queued)
        BY <3>2
      <4> QED BY <3>2, <4>1
    <3> QED BY <1>8, <3>1, <3>2 DEF Leaves
  <2> DEFINE S == IF aborted THEN {session.transport} ELSE {}
  <2>10. /\ S \subseteq {session.transport}
         /\ CloseServerEnd(S \cup Queued)
         /\ \A t \in Sockets : /\ t \in S => tasks'[t] = StoppedTask
                               /\ t \notin S => tasks'[t] = tasks[t]
    <3>1. \A t : t \in S <=> aborted /\ t = session.transport
      OBVIOUS
    <3> QED BY <2>1, <3>1
  <2> HIDE DEF S
  <2>2. \A t \in Sockets :
          /\ t \in S => ~up'[t] /\ c2s'[t] = << >> /\ tasks[t].state # "none"
          /\ up'[t] => up[t]
          /\ c2s'[t] = << >> \/ (c2s'[t] = c2s[t] /\ t \notin Queued)
          /\ c2s[t] = << >> => c2s'[t] = << >>
          /\ t \notin S \cup Queued => s2c'[t] = s2c[t] /\ c2s'[t] = c2s[t]
    <3> SUFFICES ASSUME NEW t \in Sockets
                 PROVE  /\ t \in S => ~up'[t] /\ c2s'[t] = << >> /\ tasks[t].state # "none"
                        /\ up'[t] => up[t]
                        /\ c2s'[t] = << >> \/ (c2s'[t] = c2s[t] /\ t \notin Queued)
                        /\ c2s[t] = << >> => c2s'[t] = << >>
                        /\ t \notin S \cup Queued => s2c'[t] = s2c[t] /\ c2s'[t] = c2s[t]
      OBVIOUS
    <3>1. /\ t \in S \cup Queued => ~up'[t] /\ c2s'[t] = << >>
          /\ t \notin S \cup Queued => up'[t] = up[t] /\ c2s'[t] = c2s[t] /\ s2c'[t] = s2c[t]
      BY <1>1, <2>10, ServerEndCloses
    <3>2. t \in S => tasks[t].state # "none"
      BY <1>1, <2>10 DEF TransportInv
    <3> QED BY <3>1, <3>2
  <2>3. attachments' = << >> /\ events' = << >> /\ Queued' = {}
    BY <1>8 DEF Leaves, Queued
  <2>4. FreshInv'
    BY <1>2, <1>3, <2>10, <2>2, <2>3 DEF FreshInv, Fresh
  <2>5. TaskInv'
    BY <1>3, <2>10, <2>2 DEF TaskInv, TaskOK
  <2>6. EventInv' /\ AttachmentInv'
    BY <2>3 DEF EventInv, AttachmentInv
  <2>7. OpenInv'
    BY <1>3, <2>10, <2>2, <2>3 DEF OpenInv
  <2> QED BY <1>2, <2>4, <2>5, <2>6, <2>7
<1>9. CASE TakeAttachment
  <2> DEFINE s == Head(attachments)
  <2>1. /\ attachments # << >> /\ attachments' = Tail(attachments) /\ s \in Sockets
        /\ UNCHANGED events /\ s = attachments[1] /\ s \in Queued
        /\ Len(attachments') = Len(attachments) - 1 /\ Len(attachments) \in Nat
        /\ \A i \in 1 .. Len(attachments') :
             i + 1 \in 1 .. Len(attachments) /\ attachments'[i] = attachments[i + 1]
        /\ 1 \in 1 .. Len(attachments)
    <3>1. attachments # << >> /\ attachments' = Tail(attachments) /\ UNCHANGED events
      BY <1>9 DEF TakeAttachment
    <3>2. /\ Len(attachments') = Len(attachments) - 1 /\ Len(attachments) \in Nat
          /\ Len(attachments) > 0
          /\ \A i \in 1 .. Len(attachments') :
             i + 1 \in 1 .. Len(attachments) /\ attachments'[i] = attachments[i + 1]
          /\ s = attachments[1]
      BY <1>1, <3>1, TailElements
    <3> QED BY <1>3, <3>1, <3>2
  <2>2. /\ tasks'[s] = StartedTask
        /\ \A t \in Sockets : t # s /\ t = session.transport => tasks'[t] = StoppedTask
        /\ \A t \in Sockets : t # s /\ t # session.transport => tasks'[t] = tasks[t]
        /\ CloseServerEnd({session.transport})
    BY <1>9, <2>1 DEF TakeAttachment
  <2>3. tasks[s].state = "none" /\ s # session.transport
    BY <1>1, <2>1 DEF AttachmentInv, TransportInv
  <2>4. \A t \in Sockets : t = session.transport => ~up'[t] /\ c2s'[t] = << >>
    BY <1>1, <2>2, ServerEndCloses
  <2>5. \A t \in Sockets : t # session.transport =>
          up'[t] = up[t] /\ c2s'[t] = c2s[t] /\ s2c'[t] = s2c[t]
    BY <1>1, <2>2, ServerEndCloses
  <2>6. \A t \in Sockets : t = session.transport => tasks[t].state # "none"
    BY <1>1 DEF TransportInv
  <2>7. Queued' \subseteq Queued
    BY <2>1 DEF Queued
  <2> HIDE DEF s
  <2>8. FreshInv'
    BY <1>2, <1>3, <2>1, <2>2, <2>5, <2>6, <2>7 DEF FreshInv, Fresh
  <2>9. TaskInv'
    BY <1>3, <2>1, <2>2, <2>3, <2>4, <2>5 DEF TaskInv, TaskOK
  <2>10. EventInv'
    BY <1>3, <2>1, <2>2, <2>3, <2>4, <2>5 DEF EventInv, EventOK
  <2>11. AttachmentInv'
    <3>1. \A i \in 1 .. Len(attachments') : attachments'[i] # s
      BY <2>1 DEF AttachmentInv
    <3> QED BY <1>3, <2>1, <2>2, <2>6, <3>1 DEF AttachmentInv
  <2>12. OpenInv'
    BY <1>3, <2>1, <2>2, <2>3, <2>4, <2>5, <2>6, <2>7 DEF OpenInv
  <2> QED BY <1>2, <2>8, <2>9, <2>10, <2>11, <2>12
<1> QED BY <1>4, <1>5, <1>6, <1>7, <1>8, <1>9, SessionMoves

\* A resumed socket is handed to the session, refused or dropped.
LEMMA ResumeSockets ==
    ASSUME LinesKeepTheirNumbers, SocketInv, OpenInv, NEW s \in Sockets,
           AcceptResume(s), UNCHANGED clientVars
    PROVE  SocketInv' /\ OpenInv'
<1> USE DEF SocketInv
<1>1. /\ NetworkInv /\ c2s[s] \in Seq(ClientEnvelopes) /\ attachments \in Seq(Sockets)
      /\ tasks[s].state = "none" /\ c2s[s] # << >>
      /\ UNCHANGED <<client, session, tasks, events>>
      /\ client.dialled \in Int /\ Sockets \subseteq Int
  <2>1. NetworkInv /\ c2s[s] \in Seq(ClientEnvelopes) /\ attachments \in Seq(Sockets)
    BY DEF LinesKeepTheirNumbers, NetworkInv, SessionInv, ChannelInv
  <2>2. tasks[s].state = "none" /\ c2s[s] # << >>
    BY DEF AcceptResume
  <2>3. UNCHANGED <<client, session, tasks, events>>
    BY DEF AcceptResume, clientVars
  <2>4. client.dialled \in Int /\ Sockets \subseteq Int
    BY NetworkAssumption DEF LinesKeepTheirNumbers, ConnectorInv, ClientState, Sockets
  <2> QED BY <2>1, <2>2, <2>3, <2>4
<1>2. s \notin Queued /\ s2c[s] = << >> /\ c2s[s][1].type = "open"
  <2>1. 1 \in 1 .. Len(c2s[s]) /\ Head(c2s[s]) = c2s[s][1]
    BY <1>1, TailElements
  <2>2. c2s[s][1].type = "open"
    BY <2>1 DEF AcceptResume, Control
  <2> QED BY <2>1, <2>2 DEF OpenInv
<1>3. s <= client.dialled
  BY <1>1 DEF FreshInv, Fresh
<1>4. ConnectedInv' /\ TransportInv'
  BY <1>1 DEF ConnectedInv, TransportInv
<1>5. \A t \in Sockets : t > client.dialled => t # s
  BY <1>1, <1>3
<1>6. ASSUME \A t \in Sockets : t # s => c2s'[t] = c2s[t] /\ s2c'[t] = s2c[t] /\ up'[t] = up[t],
             up'[s] => up[s],
             c2s'[s] = << >> \/ (c2s'[s] = Tail(c2s[s])),
             \/ UNCHANGED attachments
             \/ attachments' = Append(attachments, s)
      PROVE  SocketInv' /\ OpenInv'
  <2>1. \A t \in Sockets : t # s => (t \in Queued <=> t \in Queued')
    <3>1. CASE UNCHANGED attachments
      BY <3>1 DEF Queued
    <3>2. CASE attachments' = Append(attachments, s)
      BY <1>1, <3>2, EventAppended DEF Queued
    <3> QED BY <1>6, <3>1, <3>2
  <2>2. FreshInv'
    BY <1>1, <1>5, <1>6, <2>1 DEF FreshInv, Fresh
  <2>3. TaskInv'
    BY <1>1, <1>6 DEF TaskInv, TaskOK
  <2>4. EventInv'
    BY <1>1, <1>6 DEF EventInv, EventOK
  <2>5. AttachmentInv'
    <3>1. CASE UNCHANGED attachments
      BY <1>1, <3>1 DEF AttachmentInv
    <3>2. CASE attachments' = Append(attachments, s)
      <4>1. /\ Len(attachments') = Len(attachments) + 1 /\ Len(attachments) \in Nat
            /\ \A i \in 1 .. Len(attachments) : attachments'[i] = attachments[i]
            /\ attachments'[Len(attachments) + 1] = s
        BY <1>1, <3>2, EventAppended
      <4>2. \A i \in 1 .. Len(attachments) : attachments[i] # s
        BY <1>2 DEF Queued
      <4>3. \A i \in 1 .. Len(attachments') : i \in 1 .. Len(attachments) \/ i = Len(attachments) + 1
        BY <4>1
      <4> QED BY <1>1, <4>1, <4>2, <4>3 DEF AttachmentInv
    <3> QED BY <1>6, <3>1, <3>2
  <2>6. OpenInv'
    <3>1. \A i \in 1 .. Len(c2s'[s]) : c2s'[s][i].type # "open"
      <4>1. CASE c2s'[s] = << >>
        BY <4>1
      <4>2. CASE c2s'[s] = Tail(c2s[s])
        <5>1. \A i \in 1 .. Len(c2s'[s]) : i + 1 \in 1 .. Len(c2s[s]) /\ c2s'[s][i] = c2s[s][i + 1]
                                           /\ i + 1 # 1
          BY <1>1, <4>2, TailElements
        <5> QED BY <5>1 DEF OpenInv
      <4> QED BY <1>6, <4>1, <4>2
    <3>2. \A t \in Sockets : t # s =>
            \A i \in 1 .. Len(c2s'[t]) : c2s'[t][i].type = "open" =>
              i = 1 /\ tasks'[t].state = "none" /\ t \notin Queued' /\ s2c'[t] = << >>
      <4>1. \A t \in Sockets : t # s =>
              /\ c2s'[t] = c2s[t] /\ s2c'[t] = s2c[t] /\ tasks'[t] = tasks[t]
              /\ t \in Queued' => t \in Queued
        BY <1>1, <1>6, <2>1
      <4> QED BY <4>1 DEF OpenInv
    <3> QED BY <3>1, <3>2 DEF OpenInv
  <2> QED BY <1>4, <2>2, <2>3, <2>4, <2>5, <2>6
<1>7. CASE ~session.registered
  <2>1. /\ \A t \in Sockets : t # s => c2s'[t] = c2s[t] /\ s2c'[t] = s2c[t] /\ up'[t] = up[t]
        /\ ~up'[s] /\ c2s'[s] = << >> /\ UNCHANGED attachments
    BY <1>1, <1>7 DEF AcceptResume, Transmit, NetworkInv
  <2> QED BY <1>6, <2>1
<1>8. CASE /\ attachments' = Append(attachments, s)
           /\ c2s' = [c2s EXCEPT ![s] = Tail(@)]
           /\ UNCHANGED <<s2c, up>>
  <2>1. c2s'[s] = Tail(c2s[s]) /\ \A t \in Sockets : t # s => c2s'[t] = c2s[t]
    BY <1>1, <1>8 DEF NetworkInv
  <2> QED BY <1>6, <1>8, <2>1
<1>9. CASE CloseServerEnd({s}) /\ UNCHANGED attachments
  <2>1. ~up'[s] /\ c2s'[s] = << >>
    BY <1>1, <1>9, ServerEndCloses
  <2>2. \A t \in Sockets : t # s => c2s'[t] = c2s[t] /\ s2c'[t] = s2c[t] /\ up'[t] = up[t]
    BY <1>1, <1>9, ServerEndCloses
  <2> QED BY <1>6, <1>9, <2>1, <2>2
<1> QED BY <1>7, <1>8, <1>9 DEF AcceptResume

\* `open` is sent once, on the socket just dialled, and nothing before it.
LEMMA ConnectorOpens ==
    ASSUME LinesKeepTheirNumbers, SocketInv, OpenInv, ConnectorStep
    PROVE  OpenInv'
<1>1. /\ NetworkInv /\ UNCHANGED <<tasks, attachments>>
      /\ \A s \in Sockets : c2s[s] \in Seq(ClientEnvelopes) /\ s2c[s] \in Seq(ServerEnvelopes)
  BY DEF LinesKeepTheirNumbers, NetworkInv, ConnectorStep, serverVars, channelVars
<1>2. ASSUME \A s \in Sockets : \A i \in 1 .. Len(c2s'[s]) :
               c2s'[s][i].type = "open" => i \in 1 .. Len(c2s[s]) /\ c2s[s][i] = c2s'[s][i],
             \A s \in Sockets : s2c[s] = << >> => s2c'[s] = << >>
      PROVE  OpenInv'
  BY <1>1, <1>2 DEF OpenInv, Queued
<1>3. CASE UNCHANGED networkVars
  BY <1>2, <1>3 DEF networkVars
<1>4. CASE CloseClientEnd(client.socket)
  <2> SUFFICES ASSUME NEW s \in Sockets
               PROVE  /\ \A i \in 1 .. Len(c2s'[s]) : c2s'[s][i].type = "open" =>
                           i \in 1 .. Len(c2s[s]) /\ c2s[s][i] = c2s'[s][i]
                      /\ s2c[s] = << >> => s2c'[s] = << >>
    BY <1>2
  <2>1. /\ s = client.socket => s2c'[s] = << >> /\ Cut(c2s'[s], c2s[s])
        /\ s # client.socket => c2s'[s] = c2s[s] /\ s2c'[s] = s2c[s]
    BY <1>1, <1>4, ClientEndCloses
  <2>2. CASE s = client.socket
    <3>1. /\ Len(c2s'[s]) \in Nat /\ Len(c2s'[s]) <= Len(c2s[s])
          /\ \A i \in 1 .. Len(c2s'[s]) : c2s'[s][i] = c2s[s][i]
      BY <1>1, <2>1, <2>2, CutElements
    <3>2. Len(c2s[s]) \in Nat
      BY <1>1, LenProperties
    <3> QED BY <2>1, <2>2, <3>1, <3>2
  <2> QED BY <2>1, <2>2
<1>5. CASE /\ Reads \/ UNCHANGED s2c
           /\ (\E e : Writes(e)) \/ UNCHANGED c2s
  <2>1. \A s \in Sockets : s2c[s] = << >> => s2c'[s] = << >>
    BY <1>1, <1>5 DEF Reads, NetworkInv
  <2>2. CASE UNCHANGED c2s
    BY <1>2, <2>1, <2>2
  <2>3. ASSUME NEW e, Writes(e) PROVE OpenInv'
    <3> SUFFICES ASSUME NEW s \in Sockets, NEW i \in 1 .. Len(c2s'[s]),
                        c2s'[s][i].type = "open"
                 PROVE  i \in 1 .. Len(c2s[s]) /\ c2s[s][i] = c2s'[s][i]
      BY <1>2, <2>1
    <3>1. c2s'[s] = c2s[s] \/ c2s'[s] = Append(c2s[s], e)
      BY <1>1, <2>3 DEF Writes, Transmit, NetworkInv
    <3>2. CASE c2s'[s] = Append(c2s[s], e)
      <4>1. /\ Len(c2s'[s]) = Len(c2s[s]) + 1 /\ Len(c2s[s]) \in Nat
            /\ \A j \in 1 .. Len(c2s[s]) : c2s'[s][j] = c2s[s][j]
            /\ c2s'[s][Len(c2s[s]) + 1] = e
        BY <1>1, <3>2, EventAppended
      <4>2. e.type # "open"
        BY <2>3 DEF Writes
      <4> QED BY <4>1, <4>2
    <3> QED BY <3>1, <3>2
  <2> QED BY <1>5, <2>2, <2>3
<1>6. CASE Dial
  <2> DEFINE s == client.dialled + 1
  <2>1. s \in Sockets /\ s > client.dialled
    BY <1>6, NetworkAssumption
    DEF Dial, Sockets, LinesKeepTheirNumbers, ConnectorInv, ClientState
  <2>2. /\ \A t \in Sockets : t # s => c2s'[t] = c2s[t]
        /\ c2s'[s] = <<Control("open")>> /\ s2c' = s2c
    BY <1>1, <1>6, <2>1 DEF Dial, NetworkInv
  <2>3. tasks[s].state = "none" /\ s \notin Queued /\ s2c[s] = << >>
    BY <2>1 DEF SocketInv, FreshInv, Fresh, NoTask
  <2>4. Len(<<Control("open")>>) = 1
    OBVIOUS
  <2> HIDE DEF s
  <2> QED BY <1>1, <2>1, <2>2, <2>3, <2>4 DEF OpenInv, Queued
<1> QED BY <1>3, <1>4, <1>5, <1>6, ConnectorMoves DEF SocketInv

\* A transport task reads after `open`, and a link that fails cuts streams.
LEMMA TaskOpens ==
    ASSUME LinesKeepTheirNumbers, SocketInv, OpenInv, NEW s \in Sockets, TaskNext(s)
    PROVE  OpenInv'
<1>1. /\ tasks[s].state = "running" /\ UNCHANGED attachments
      /\ c2s'[s] = c2s[s] \/ c2s'[s] = << >> \/ (c2s[s] # << >> /\ c2s'[s] = Tail(c2s[s]))
      /\ \A t \in Sockets : t # s => /\ tasks'[t] = tasks[t]
                                     /\ c2s'[t] = c2s[t] /\ s2c'[t] = s2c[t]
  BY TaskMoves DEF SocketInv
<1>2. \A i \in 1 .. Len(c2s[s]) : c2s[s][i].type # "open"
  BY <1>1 DEF OpenInv
<1>3. \A i \in 1 .. Len(c2s'[s]) : c2s'[s][i].type # "open"
  <2>1. CASE c2s[s] # << >> /\ c2s'[s] = Tail(c2s[s])
    <3>1. c2s[s] \in Seq(ClientEnvelopes)
      BY DEF LinesKeepTheirNumbers, NetworkInv
    <3>2. \A i \in 1 .. Len(c2s'[s]) : i + 1 \in 1 .. Len(c2s[s]) /\ c2s'[s][i] = c2s[s][i + 1]
      BY <2>1, <3>1, TailElements
    <3> QED BY <1>2, <3>2
  <2> QED BY <1>1, <1>2, <2>1
<1> QED BY <1>1, <1>3 DEF OpenInv, Queued

\* A link that fails cuts streams: an open stays the first envelope of its socket.
LEMMA NetworkOpens ==
    ASSUME LinesKeepTheirNumbers, OpenInv, NetworkStep
    PROVE  OpenInv'
<1>1. UNCHANGED <<tasks, attachments>>
  BY DEF NetworkStep, serverVars, channelVars
<1>2. PICK t \in Sockets : LinkFails(t)
  BY DEF NetworkStep
<1> SUFFICES ASSUME NEW s \in Sockets
             PROVE  \A i \in 1 .. Len(c2s'[s]) :
                      c2s'[s][i].type = "open" =>
                        i = 1 /\ tasks[s].state = "none" /\ s \notin Queued /\ s2c'[s] = << >>
  BY <1>1 DEF OpenInv, Queued
<1>3. c2s[s] \in Seq(ClientEnvelopes) /\ s2c[s] \in Seq(ServerEnvelopes) /\ NetworkInv
  BY DEF LinesKeepTheirNumbers, NetworkInv
<1>4. CASE s = t
  <2>1. Cut(s2c'[s], s2c[s]) /\ Cut(c2s'[s], c2s[s])
    BY <1>2, <1>3, <1>4, LinkCloses
  <2>2. /\ Len(c2s'[s]) \in Nat /\ Len(c2s'[s]) <= Len(c2s[s]) /\ Len(c2s[s]) \in Nat
        /\ \A i \in 1 .. Len(c2s'[s]) : c2s'[s][i] = c2s[s][i]
    BY <1>3, <2>1, CutElements, LenProperties
  <2>3. s2c[s] = << >> => s2c'[s] = << >>
    <3>1. Cut(s2c'[s], s2c[s]) /\ s2c[s] \in Seq(ServerEnvelopes)
      BY <1>3, <2>1
    <3>2. /\ s2c'[s] \in Seq(ServerEnvelopes) /\ Len(s2c'[s]) \in Nat
          /\ Len(s2c'[s]) <= Len(s2c[s])
          /\ s2c[s] = << >> => s2c'[s] = << >>
      BY <3>1, CutElements
    <3> QED BY <3>2
  <2> QED BY <2>2, <2>3 DEF OpenInv
<1>5. CASE s # t
  <2>1. c2s'[s] = c2s[s] /\ s2c'[s] = s2c[s]
    BY <1>2, <1>3, <1>5, LinkCloses
  <2> QED BY <2>1 DEF OpenInv
<1> QED BY <1>4, <1>5

\* A socket and its task begin and end together, in every step.
LEMMA SocketsKeep ==
    ASSUME LinesKeepTheirNumbers, SocketInv, OpenInv, [Next]_vars
    PROVE  SocketInv' /\ OpenInv'
<1>1. CASE ConnectorStep
  BY <1>1, ConnectorSockets, ConnectorOpens
<1>2. CASE NetworkStep
  BY <1>2, NetworkSockets, NetworkOpens
<1>3. CASE ServerStep /\ SessionNext
  BY <1>3, SessionSockets DEF ServerStep
<1>4. CASE ServerStep /\ \E s \in Sockets : TaskNext(s)
  BY <1>4, TaskSockets, TaskOpens DEF ServerStep
<1>5. CASE ServerStep /\ \E s \in Sockets : AcceptResume(s)
  BY <1>5, ResumeSockets DEF ServerStep
<1>6. ASSUME UNCHANGED <<client, session, channelVars, networkVars>>
      PROVE  SocketInv' /\ OpenInv'
  BY <1>6 DEF channelVars, networkVars, SocketInv, ConnectedInv, FreshInv, Fresh, Queued,
     TransportInv, TaskInv, TaskOK, EventInv, EventOK, AttachmentInv, OpenInv
<1>7. CASE ServerStep /\ (AgentWrites \/ AgentExits \/ Cancel)
  BY <1>6, <1>7 DEF ServerStep, AgentWrites, AgentExits, Cancel, clientVars
<1>8. CASE UNCHANGED vars
  BY <1>6, <1>8 DEF vars, clientVars, serverVars
<1> QED BY <1>1, <1>2, <1>3, <1>4, <1>5, <1>7, <1>8 DEF Next, ServerStep, ServerNext

\* Before the first dial no socket is up and no task runs.
LEMMA SocketsInit == Init => SocketInv /\ OpenInv
<1> SUFFICES ASSUME Init PROVE SocketInv /\ OpenInv
  OBVIOUS
<1> USE DEF Init, NetworkInit, ConnectorInit, SessionInit
<1>1. /\ NoTask.state = "none" /\ StartedTask.state = "running" /\ Len(<< >>) = 0
      /\ NoTask.held = << >> /\ NoTask.writing = << >>
      /\ StartedTask.held = << >> /\ StartedTask.writing = << >>
      /\ 1 \in Sockets /\ NoSocket \notin Sockets
  BY NetworkAssumption DEF NoTask, StartedTask, Sockets, NoSocket
<1>2. ConnectedInv
  BY <1>1 DEF ConnectedInv, NoSocket
<1>3. \A s \in Sockets : s > 1 => s # 1
  BY NetworkAssumption DEF Sockets
<1>4. FreshInv /\ TransportInv
  <2>1. Queued = {}
    BY <1>1 DEF Queued
  <2>2. \A s \in Sockets : s > 1 => ~up[s] /\ tasks[s] = NoTask
    BY <1>3
  <2>3. FreshInv
    BY <2>1, <2>2 DEF FreshInv, Fresh
  <2>4. TransportInv
    BY <1>1 DEF TransportInv, NoSocket
  <2> QED BY <2>3, <2>4
<1>5. TaskInv /\ EventInv /\ AttachmentInv /\ OpenInv
  BY <1>1 DEF TaskInv, TaskOK, EventInv, AttachmentInv, OpenInv
<1> QED BY <1>2, <1>4, <1>5 DEF SocketInv

\* A socket has a task only after `open` was read from it, and a task that has
\* returned took its socket along.
THEOREM SocketsAndTasks == Spec => [](LinesKeepTheirNumbers /\ SocketInv /\ OpenInv)
<1>1. Init => LinesKeepTheirNumbers /\ SocketInv /\ OpenInv
  BY InitInv, SocketsInit
<1>2. LinesKeepTheirNumbers /\ SocketInv /\ OpenInv /\ [Next]_vars =>
        (LinesKeepTheirNumbers /\ SocketInv /\ OpenInv)'
  BY NextInv, SocketsKeep
<1> QED BY <1>1, <1>2, PTL DEF Spec

\* Why the loop gives up its transport.
LEMMA DetachReasons ==
    ASSUME LinesKeepTheirNumbers, SocketInv, SessionNext,
           session.transport # NoSocket, session'.transport = NoSocket,
           session'.pc \in {"top", "select"}
    PROVE  \/ ~up[session.transport] \/ Stalled(session.transport)
           \/ faults' > faults
           \/ session.pc \in {"exit", "exit_wait"}
<1>1. /\ session \in SessionState(ServerEnvelopes) /\ session.transport \in Sockets
      /\ tasks \in [Sockets -> Task(ServerEnvelopes, ClientEvents)]
      /\ events \in Seq(ClientEvents) /\ faults \in Int
  BY DEF LinesKeepTheirNumbers, SessionInv, ChannelInv, SessionState, NetworkInv
<1>2. ~Open(session.transport) => ~up[session.transport]
  BY <1>1 DEF Open, SocketInv, TransportInv, TaskInv, TaskOK, Task
<1>3. CASE ReceiveEvent
  <2>1. events # << >> /\ events[1] = Head(events) /\ 1 \in 1 .. Len(events)
    BY <1>1, <1>3, TailElements DEF ReceiveEvent
  <2>2. EventOK(Head(events))
    BY <2>1 DEF SocketInv, EventInv
  <2>3. CASE Only(Proceed("top"))
    BY <1>1, <2>3 DEF Only, Proceed, SessionState
  <2>4. CASE ~Stale(Head(events)) /\ Head(events).kind = "disconnected"
    BY <2>2, <2>4 DEF Stale, EventOK
  <2>5. CASE HandleClientEnvelope(Head(events).envelope)
    <3> DEFINE e == Head(events).envelope
    <3>1. ASSUME NEW c, Abandon(c) PROVE FALSE
      BY <1>1, <3>1 DEF Abandon, Leave, SessionState
    <3>2. ASSUME NEW c, Only(EndLoop(c)) \/ Only(Proceed(c)) PROVE FALSE
      BY <1>1, <3>2 DEF Only, EndLoop, Proceed, SessionState
    <3>3. ASSUME NEW r, Reply(r) PROVE FALSE
      BY <1>1, <3>3 DEF Reply, SessionState
    <3>4. CASE HandleAcp(e)
      BY <3>1, <3>2, <3>3, <3>4 DEF HandleAcp, ForwardLine, RejectLine, Accept
    <3>5. CASE HandleAck(e)
      BY <1>1, <3>5 DEF HandleAck, Proceed, SessionState
    <3>6. CASE HandleControl(e)
      <4>1. CASE Only(session' = [session EXCEPT !.pc = "reap",
                                !.endCategory = "client_shutdown",
                                !.registered = FALSE])
        BY <1>1, <4>1 DEF Only, SessionState
      <4> QED BY <3>2, <3>3, <3>6, <4>1 DEF HandleControl
    <3> QED BY <2>5, <3>2, <3>4, <3>5, <3>6 DEF HandleClientEnvelope
  <2> QED BY <1>3, <2>3, <2>4, <2>5 DEF ReceiveEvent
<1>4. CASE PumpFindsClosed
  BY <1>2, <1>4 DEF PumpFindsClosed
<1>5. CASE KeepaliveExpires
  BY <1>1, <1>5 DEF KeepaliveExpires
<1>6. CASE ExitFails
  BY <1>6 DEF ExitFails
<1>7. CASE TakeAttachment
  BY <1>1, <1>7 DEF TakeAttachment, SessionState
<1>8. CASE EndSession \/ ReapFails
  <2>1. CASE EndSession
    BY <1>1, <2>1 DEF EndSession, Leave, SessionState
  <2>2. CASE ReapFails
    BY <1>1, <2>2 DEF ReapFails, Abandon, Leave, SessionState
  <2> QED BY <1>8, <2>1, <2>2
<1>9. CASE PumpReplay \/ EnterSelect \/ SendExit \/ ExitConfirmed \/ ChildWait
           \/ AttachEnqueues \/ AttachFails \/ ServerShutdown
           \/ SendNoise \/ Wake \/ ReadAgent \/ GraceExpires \/ SendReply \/ ReapAgent
           \/ SendFarewell
  <2>1. UNCHANGED session.transport
    <3>1. CASE PumpReplay \/ EnterSelect \/ SendExit \/ ExitConfirmed \/ ChildWait
      BY <1>1, <3>1
      DEF PumpReplay, EnterSelect, SendExit, ExitConfirmed, ChildWait, Proceed, EndLoop,
          SessionState
    <3>2. CASE AttachEnqueues \/ AttachFails \/ ServerShutdown \/ SendNoise \/ Wake
      BY <1>1, <3>2
      DEF AttachEnqueues, AttachFails, AfterFailedAttach, ServerShutdown, SendNoise, Wake,
          Proceed, EndLoop, SessionState
    <3>3. CASE ReadAgent \/ GraceExpires \/ SendReply \/ ReapAgent \/ SendFarewell
      BY <1>1, <3>3
      DEF ReadAgent, GraceExpires, SendReply, ReapAgent, SendFarewell, Proceed, EndLoop,
          SessionState
    <3> QED BY <1>9, <3>1, <3>2, <3>3
  <2> QED BY <2>1
<1>10. CASE AttachSucceeds
  BY <1>10 DEF AttachSucceeds, SocketInv, TransportInv
<1> QED
  BY <1>3, <1>4, <1>5, <1>6, <1>7, <1>8, <1>9, <1>10 DEF SessionNext

\* The loop lets go of a transport only when that transport is lost.
THEOREM LostTransports == Spec => OnlyLostTransportsDetach
<1> DEFINE Gone == /\ session.transport # NoSocket
                   /\ session'.transport = NoSocket
                   /\ session'.pc \in {"top", "select"}
                   => \/ ~up[session.transport] \/ Stalled(session.transport)
                      \/ faults' > faults
                      \/ session.pc \in {"exit", "exit_wait"}
<1>1. LinesKeepTheirNumbers /\ SocketInv /\ OpenInv /\ [Next]_vars => [Gone]_vars
  <2> SUFFICES ASSUME LinesKeepTheirNumbers, SocketInv, OpenInv, Next
               PROVE  Gone
    OBVIOUS
  <2>1. CASE UNCHANGED session
    BY <2>1
  <2>2. ASSUME NEW s \in Sockets, TaskNext(s) PROVE Gone
    <3>1. \E x : session' = [session EXCEPT !.sent = x]
      BY <2>2, TaskMoves DEF SocketInv
    <3>2. session'.transport = session.transport
      BY <3>1 DEF LinesKeepTheirNumbers, SessionInv, SessionState
    <3> QED BY <3>2
  <2>3. CASE SessionNext
    BY <2>3, DetachReasons
  <2> QED
    BY <2>1, <2>2, <2>3
    DEF Next, ConnectorStep, ServerStep, NetworkStep, ServerNext, serverVars,
        AgentWrites, AgentExits, Cancel, AcceptResume
<1> QED BY <1>1, SocketsAndTasks, PTL DEF Spec, OnlyLostTransportsDetach

-----------------------------------------------------------------------------
(* What each side may have said, given what it has done.                   *)

Final == session.pc \in {"farewell", "farewell_wait", "ended"}

\* The connector acknowledges what it has written to stdout, and sends
\* `shutdown` only in graceful_shutdown.
ConnectorSends ==
    {e \in Envelopes :
       /\ e.type \in {"acp", "ack", "open", "pong", "shutdown"}
       /\ e.type = "ack" => /\ e.stream = "server_to_client"
                            /\ e.sequence < expectedServer
       /\ e.type = "shutdown" => client.closing}

\* The session acknowledges what it has handled, sends `exit` once the exit
\* status is known and confirms a shutdown after the agent was reaped.
SessionSends ==
    {e \in Envelopes :
       /\ e.type \notin {"open", "shutdown"}
       /\ e.type = "ack" => /\ e.stream = "client_to_server"
                            /\ e.sequence < expectedClient
       /\ e.type = "exit" => session.childStatus
       /\ e.type = "shutdown_complete" =>
            /\ session.childStatus /\ Final
            /\ session.endCategory = "client_shutdown"}

\* What reaches the session, after the handshake and the size limit.
SessionReads ==
    {e \in ConnectorSends :
       /\ e.type # "open"
       /\ e.type = "acp" => EnvelopeSize[e.payload] <= ServerFrameBytes}
ReadEvents == {v \in Event : v.kind = "envelope" => v.envelope \in SessionReads}

SendsInv == Carries(ConnectorSends, SessionSends, ReadEvents, c2s,
                    client.outgoing, s2c, session.outbox, tasks, events)

\* The two ends of a tunnel: the exit status is that of an agent that is gone,
\* and what the peer was told about the end is so.
StatusInv ==
    /\ session.childStatus => ~agent.alive
    /\ session.pc \in {"exit", "exit_wait", "farewell", "farewell_wait"} =>
         session.childStatus
    /\ EndedSessionReaps
ClosingInv ==
    /\ client.closing => client.pc \notin {"select", "send", "replay"}
    /\ client.pc \in {"send_shutdown", "wait_complete"} => client.closing
    /\ session.endCategory = "client_shutdown" => client.closing
ResultInv ==
    /\ client.result = "exit" => session.childStatus
    /\ client.result = "shutdown" =>
         /\ session.childStatus /\ Final
         /\ session.endCategory = "client_shutdown"

\* `sent` is waited for in exit_wait and farewell_wait only, and is dropped
\* with the task that was to use it.
ConfirmInv ==
    /\ session.sent # "no" =>
         session.pc \in {"exit_wait", "reap", "farewell_wait"}
    /\ session.pc = "exit_wait" => session.sent # "no"
    /\ session.pc = "reap" => session.sent # "waiting"
    /\ session.pc = "reap" /\ session.endCategory = "child_exit" =>
         session.sent # "no"
    /\ session.sent = "dropped" =>
         /\ session.transport # NoSocket
         /\ tasks[session.transport].state = "stopped"

EndInv == StatusInv /\ ClosingInv /\ ResultInv /\ ConfirmInv

\* What never goes back.
Advances ==
    /\ expectedServer <= expectedServer' /\ expectedClient <= expectedClient'
    /\ client.closing => client'.closing
    /\ session.childStatus => session'.childStatus
    /\ Final => Final' /\ session'.endCategory = session.endCategory

\* The counters of both sides are positive numbers, and a side expects no
\* sequence number beyond the next one that its peer gives out.
LEMMA Expected ==
    ASSUME LinesKeepTheirNumbers
    PROVE  /\ expectedServer \in Nat /\ expectedServer > 0
           /\ expectedClient \in Nat /\ expectedClient > 0
           /\ nextClient \in Nat /\ nextServer \in Nat
           /\ expectedClient <= nextClient /\ expectedServer <= nextServer
           /\ nextClient > 0 /\ nextServer > 0
BY ConnectorAssumption, LenProperties
DEF LinesKeepTheirNumbers, StdoutInv, HandledInv, RetainedInv, QueueInv

\* What a side may have said is not taken back: acknowledgements cover more,
\* and the end of a session stays its end.
LEMMA SendsGrow ==
    ASSUME Advances, LinesKeepTheirNumbers, LinesKeepTheirNumbers'
    PROVE  /\ ConnectorSends \subseteq ConnectorSends'
           /\ SessionSends \subseteq SessionSends'
           /\ ReadEvents \subseteq ReadEvents'
<1>1. /\ expectedServer \in Nat /\ expectedServer' \in Nat
      /\ expectedClient \in Nat /\ expectedClient' \in Nat
      /\ expectedServer <= expectedServer' /\ expectedClient <= expectedClient'
  <2>1. expectedServer \in Nat /\ expectedClient \in Nat
    BY Expected
  <2>2. expectedServer' \in Nat /\ expectedClient' \in Nat
    BY ConnectorAssumption, LenProperties
    DEF LinesKeepTheirNumbers, StdoutInv, HandledInv, RetainedInv, QueueInv
  <2> QED BY <2>1, <2>2 DEF Advances
<1>2. \A e \in Envelopes : e.type = "ack" => e.sequence \in Nat
  BY DEF Envelopes, ControlTypes
<1>3. ConnectorSends \subseteq ConnectorSends'
  BY <1>1, <1>2 DEF ConnectorSends, Advances
<1>4. SessionSends \subseteq SessionSends'
  BY <1>1, <1>2 DEF SessionSends, Advances
<1>5. ReadEvents \subseteq ReadEvents'
  BY <1>3 DEF ReadEvents, SessionReads
<1> QED BY <1>3, <1>4, <1>5

\* What the reader of a stream finds was sent.
LEMMA IncomingSent ==
    ASSUME SendsInv, LinesKeepTheirNumbers, HasIncoming
    PROVE  Incoming \in SessionSends
<1>1. client.socket \in Sockets
  BY DEF LinesKeepTheirNumbers, ConnectorInv, ClientState, HasIncoming
<1>2. s2c[client.socket] \in Seq(SessionSends) /\ s2c[client.socket] # << >>
  BY <1>1 DEF SendsInv, Carries, HasIncoming, Arrives
<1> QED BY <1>2, HeadIn DEF Incoming

\* The connector's side of the end.
LEMMA ConnectorEnds ==
    ASSUME LinesKeepTheirNumbers, SocketInv, SendsInv, EndInv, ConnectorStep
    PROVE  EndInv' /\ Advances
<1> USE DEF EndInv
<1>1. client \in ClientState(ClientEnvelopes) /\ expectedServer \in Nat
      /\ expectedClient \in Nat
  BY Expected DEF LinesKeepTheirNumbers, ConnectorInv
<1>2. UNCHANGED <<session, tasks, agent, expectedClient>>
  BY DEF ConnectorStep, serverVars, channelVars, frameVars, agentVars
<1>3. StatusInv' /\ ConfirmInv'
  BY <1>2 DEF StatusInv, ConfirmInv, EndedSessionReaps
<1> DEFINE Ends == /\ client.closing => client'.closing
                   /\ ClosingInv' /\ ResultInv'
<1>4. ASSUME NEW r \in {"error", "protocol"}, Return(r) PROVE Ends
  BY <1>1, <1>2, <1>4 DEF Return, ClientState, ClosingInv, ResultInv, Final
<1>5. ASSUME Redial PROVE Ends
  BY <1>1, <1>2, <1>5 DEF Redial, ClientState, ClosingInv, ResultInv, Final
<1>6. ASSUME NEW e, Send(e), client.pc = "select" PROVE Ends
  BY <1>1, <1>2, <1>6 DEF Send, ClientState, ClosingInv, ResultInv, Final
<1>7. ASSUME Continue("select"), client.pc = "select" PROVE Ends
  BY <1>1, <1>2, <1>7 DEF Continue, ClientState, ClosingInv, ResultInv, Final
<1>12. ASSUME Continue("wait_complete"),
              client.pc \in {"send_shutdown", "wait_complete"}
       PROVE  Ends
  BY <1>1, <1>2, <1>12 DEF Continue, ClientState, ClosingInv, ResultInv, Final
<1>8. ASSUME Incoming.type = "exit", HasIncoming, Return("exit") PROVE Ends
  <2>1. session.childStatus
    BY <1>8, IncomingSent DEF SessionSends
  <2> QED BY <1>1, <1>2, <1>8, <2>1 DEF Return, ClientState, ClosingInv, ResultInv, Final
<1>9. ASSUME Incoming.type = "shutdown_complete", HasIncoming, Return("shutdown") PROVE Ends
  <2>1. session.childStatus /\ Final /\ session.endCategory = "client_shutdown"
    BY <1>9, IncomingSent DEF SessionSends
  <2> QED BY <1>1, <1>2, <1>9, <2>1 DEF Return, ClientState, ClosingInv, ResultInv, Final
<1>10. Ends
  <2>1. CASE ReadStdin
    BY <1>4, <1>6, <2>1 DEF ReadStdin
  <2>2. CASE Receive
    <3>1. CASE ReceiveAcp(Incoming)
      BY <1>4, <1>6, <2>2, <3>1 DEF Receive, ReceiveAcp
    <3>2. CASE ReceiveAck(Incoming)
      BY <1>4, <1>7, <2>2, <3>2 DEF Receive, ReceiveAck
    <3>3. CASE ReceiveControl(Incoming)
      BY <1>4, <1>6, <1>7, <1>8, <2>2, <3>3 DEF Receive, ReceiveControl
    <3> QED BY <2>2, <3>1, <3>2, <3>3 DEF Receive
  <2>3. CASE StartShutdown \/ WriteOutgoing \/ Dial \/ ReplayFrame \/ Signal
             \/ FinishReplay
    <3>1. CASE StartShutdown
      BY <1>1, <1>2, <3>1 DEF StartShutdown, ClientState, ClosingInv, ResultInv, Final
    <3>3. CASE WriteOutgoing
      BY <1>1, <1>2, <3>3 DEF WriteOutgoing, ClientState, ClosingInv, ResultInv, Final
    <3>4. CASE Dial
      BY <1>1, <1>2, <3>4 DEF Dial, ClientState, ClosingInv, ResultInv, Final
    <3>2. CASE ReplayFrame
      BY <1>1, <1>2, <3>2 DEF ReplayFrame, ClientState, ClosingInv, ResultInv, Final
    <3>5. CASE Signal \/ FinishReplay
      BY <1>1, <1>2, <3>5 DEF FinishReplay, Signal, ClientState, ClosingInv, ResultInv, Final
    <3> QED BY <2>3, <3>1, <3>2, <3>3, <3>4, <3>5
  <2>8. CASE ShutdownWhileDetached
    BY <1>1, <1>2, <2>8 DEF ShutdownWhileDetached, ClientState, ClosingInv, ResultInv, Final
  <2>9. CASE ConnectorDies
    BY <1>1, <1>2, <2>9 DEF ConnectorDies, ClientState, ClosingInv, ResultInv, Final
  <2>4. CASE LoseSocket \/ KeepaliveTimeout \/ AbandonAttempt \/ GiveUp
    BY <1>4, <1>5, <2>4 DEF LoseSocket, KeepaliveTimeout, AbandonAttempt, GiveUp
  <2>5. CASE ReceiveReady
    BY <1>1, <1>2, <1>5, <2>5 DEF ReceiveReady, ClientState, ClosingInv, ResultInv, Final
  <2>6. CASE SendShutdown
    BY <1>12, <2>6 DEF SendShutdown
  <2>7. CASE AwaitComplete
    <3>1. CASE UNCHANGED client
      BY <1>2, <3>1 DEF ClosingInv, ResultInv, Final
    <3> QED BY <1>4, <1>9, <1>12, <2>7, <3>1 DEF AwaitComplete
  <2> QED
    BY <2>1, <2>2, <2>3, <2>4, <2>5, <2>6, <2>7, <2>8, <2>9 DEF ConnectorStep, ConnectorNext
<1>11. expectedServer <= expectedServer'
  <2>1. CASE UNCHANGED expectedServer
    BY <1>1, <2>1
  <2>2. CASE Receive /\ ReceiveAcp(Incoming)
    BY <1>1, <2>1, <2>2 DEF Receive, ReceiveAcp, ExpectedAfter, streamVars
  <2> QED
    BY <2>1, <2>2
    DEF ConnectorStep, ConnectorNext, ReadStdin, StartShutdown, Receive, WriteOutgoing,
        LoseSocket, KeepaliveTimeout, Dial, ReceiveReady, AbandonAttempt,
        ShutdownWhileDetached, ReplayFrame, FinishReplay, GiveUp, SendShutdown,
        AwaitComplete, Signal, ConnectorDies, ReceiveAck, ReceiveControl, streamVars
<1> QED BY <1>1, <1>2, <1>3, <1>10, <1>11 DEF Advances, Final

\* What a step of the session has to do with the end.
SessionEnding ==
    /\ StatusInv' /\ ConfirmInv'
    /\ session'.endCategory = "client_shutdown" => client.closing
    /\ session.childStatus => session'.childStatus
    /\ Final => Final' /\ session'.endCategory = session.endCategory

\* The session's side of the end.
LEMMA SessionEndsWell ==
    ASSUME LinesKeepTheirNumbers, SocketInv, SendsInv, EndInv, SessionNext
    PROVE  SessionEnding
<1> USE DEF EndInv
<1>1. /\ session \in SessionState(ServerEnvelopes)
      /\ tasks \in [Sockets -> Task(ServerEnvelopes, ClientEvents)]
      /\ events \in Seq(ReadEvents)
      /\ agent \in [alive : BOOLEAN, written : 0 .. Len(AgentOutput),
                    read : 0 .. Len(AgentOutput)]
  BY DEF LinesKeepTheirNumbers, SessionInv, ChannelInv, SendsInv, Carries
<1>2. ASSUME ~Final, session'.pc \in {"top", "select", "reply", "attach", "exit"},
             session'.pc = "exit" => session'.childStatus,
             session'.sent = "no", session'.endCategory = session.endCategory,
             \/ session'.childStatus = session.childStatus
             \/ session'.childStatus /\ ~agent.alive,
             agent'.alive => agent.alive
      PROVE  SessionEnding
  BY <1>1, <1>2
  DEF SessionEnding, StatusInv, ConfirmInv, ClosingInv, Final, EndedSessionReaps, SessionState
<1>3. ASSUME NEW c, c \notin {"client_shutdown", "child_exit"}, EndLoop(c),
             session.pc = "select", agent'.alive = agent.alive
      PROVE  SessionEnding
  BY <1>1, <1>3
  DEF EndLoop, SessionEnding, StatusInv, ConfirmInv, ClosingInv, Final, EndedSessionReaps, SessionState
<1>4. ASSUME NEW c \in EarlyReturns, Abandon(c), ~Final, agent'.alive = agent.alive
      PROVE  SessionEnding
  BY <1>1, <1>4
  DEF Abandon, Leave, SessionEnding, StatusInv, ConfirmInv, ClosingInv, Final, EndedSessionReaps,
      EarlyReturns, SessionState
<1>5. session.pc \notin {"exit_wait", "reap", "farewell_wait"} => session.sent = "no"
  BY DEF ConfirmInv
<1>6. ASSUME NEW pc \in {"top", "select", "reply", "attach"}, Proceed(pc), agent'.alive = agent.alive,
             session.pc \in {"top", "select", "reply", "attach"}
      PROVE  SessionEnding
  <2>1. /\ session'.pc = pc /\ session'.sent = "no"
        /\ session'.endCategory = session.endCategory
        /\ session'.childStatus = session.childStatus
    BY <1>1, <1>5, <1>6 DEF Proceed, SessionState
  <2> QED BY <1>2, <1>6, <2>1 DEF Final
<1>7. ASSUME NEW pc \in {"top", "select"}, Detach(pc), agent'.alive = agent.alive,
             session.pc \in {"top", "select", "exit", "exit_wait"}
      PROVE  SessionEnding
  <2>1. /\ session'.pc = pc /\ session'.sent = "no"
        /\ session'.endCategory = session.endCategory
        /\ session'.childStatus = session.childStatus
    BY <1>1, <1>7 DEF Detach, SessionState
  <2> QED BY <1>2, <1>7, <2>1 DEF Final
<1>8. ASSUME NEW r, Reply(r), session.pc = "select", agent'.alive = agent.alive PROVE SessionEnding
  <2>1. /\ session'.pc = "reply" /\ session'.sent = "no"
        /\ session'.endCategory = session.endCategory
        /\ session'.childStatus = session.childStatus
    BY <1>1, <1>5, <1>8 DEF Reply, SessionState
  <2> QED BY <1>2, <1>8, <2>1 DEF Final
<1>10. CASE ReceiveEvent
  <2>1. /\ session.pc = "select" /\ events # << >> /\ agent'.alive = agent.alive
        /\ Head(events) \in ReadEvents
    BY <1>1, <1>10, HeadIn DEF ReceiveEvent, agentVars
  <2>2. CASE Only(Proceed("top"))
    BY <1>6, <2>1, <2>2 DEF Only
  <2>3. CASE Detach("top")
    BY <1>7, <2>1, <2>3
  <2>4. CASE Head(events).kind = "envelope" /\ HandleClientEnvelope(Head(events).envelope)
    <3> DEFINE e == Head(events).envelope
    <3>1. e \in SessionReads
      BY <2>1, <2>4 DEF ReadEvents
    <3> HIDE DEF e
    <3>2. CASE Only(EndLoop(Violation(e))) /\ Violation(e) # "none"
      <4>1. Violation(e) \notin {"client_shutdown", "child_exit"}
        BY <3>2 DEF Violation
      <4> QED BY <1>3, <2>1, <3>2, <4>1 DEF Only
    <3>3. CASE HandleAcp(e)
      BY <1>3, <1>4, <1>8, <2>1, <3>3
      DEF HandleAcp, ForwardLine, RejectLine, Accept, Only, Final, EarlyReturns
    <3>4. CASE HandleAck(e)
      BY <1>6, <2>1, <3>4 DEF HandleAck
    <3>5. CASE HandleControl(e)
      <4>1. CASE e.type = "shutdown" /\ Only(session' = [session EXCEPT !.pc = "reap",
                                !.endCategory = "client_shutdown",
                                !.registered = FALSE])
        <5>1. client.closing
          BY <3>1, <4>1 DEF SessionReads, ConnectorSends
        <5> QED
          BY <1>1, <1>5, <2>1, <4>1, <5>1
          DEF Only, SessionEnding, StatusInv, ConfirmInv, Final, EndedSessionReaps, SessionState
      <4> QED BY <1>6, <1>8, <2>1, <3>5, <4>1 DEF HandleControl, Only
    <3> QED BY <2>4, <3>2, <3>3, <3>4, <3>5 DEF HandleClientEnvelope, e
  <2> QED BY <1>10, <2>2, <2>3, <2>4 DEF ReceiveEvent
<1>11. CASE PumpFindsClosed \/ KeepaliveExpires \/ ExitFails
  BY <1>7, <1>11 DEF PumpFindsClosed, KeepaliveExpires, ExitFails, agentVars
<1>12. CASE PumpReplay
  BY <1>12, <1>1 DEF PumpReplay, SessionEnding, StatusInv, ConfirmInv, ClosingInv, Final, EndedSessionReaps,
     agentVars, Enqueue, Open, Task
<1>13. CASE EnterSelect
  <2>1. /\ session'.pc \in {"exit", "select"} /\ session'.sent = "no"
        /\ session'.endCategory = session.endCategory
        /\ session'.childStatus = session.childStatus
        /\ session'.pc = "exit" => session.childStatus
        /\ agent' = agent /\ ~Final
    BY <1>1, <1>5, <1>13 DEF EnterSelect, Proceed, SessionState, agentVars, Final
  <2> QED BY <1>2, <2>1
<1>14. CASE TakeAttachment \/ AttachEnqueues \/ AttachSucceeds \/ AttachFails \/ ChildWait
            \/ SendReply
  <2>1. /\ session'.pc \in {"top", "attach"} /\ session'.sent = "no"
        /\ session'.endCategory = session.endCategory
        /\ agent' = agent /\ ~Final
        /\ \/ session'.childStatus = session.childStatus
           \/ session'.childStatus /\ ~agent.alive
    <3>1. CASE TakeAttachment
      BY <1>1, <1>5, <3>1 DEF TakeAttachment, SessionState, agentVars, Final
    <3>3. CASE AttachEnqueues
      BY <1>1, <1>5, <3>3 DEF AttachEnqueues, SessionState, agentVars, Final
    <3>4. CASE AttachSucceeds
      BY <1>1, <1>5, <3>4 DEF AttachSucceeds, SessionState, agentVars, Final
    <3>2. CASE AttachFails \/ ChildWait \/ SendReply
      BY <1>1, <1>5, <3>2
      DEF AttachFails, ChildWait, SendReply, AfterFailedAttach, SessionState, agentVars,
          Final
    <3> QED BY <1>14, <3>1, <3>2, <3>3, <3>4
  <2> QED BY <1>2, <2>1
<1>15. CASE Wake \/ SendNoise
  BY <1>6, <1>15 DEF Wake, SendNoise, agentVars
<1>16. CASE ServerShutdown \/ GraceExpires
  BY <1>3, <1>16 DEF ServerShutdown, GraceExpires, agentVars
<1>17. CASE ReadAgent
  <2>1. agent'.alive = agent.alive
    BY <1>1, <1>17 DEF ReadAgent
  <2> QED BY <1>3, <1>6, <1>17, <2>1 DEF ReadAgent
<1>18. CASE SendExit
  BY <1>1, <1>18
  DEF SendExit, SessionEnding, StatusInv, ConfirmInv, ClosingInv, Final, EndedSessionReaps, SessionState,
      agentVars
<1>19. CASE ExitConfirmed
  BY <1>1, <1>19
  DEF ExitConfirmed, EndLoop, SessionEnding, StatusInv, ConfirmInv, ClosingInv, Final,
      EndedSessionReaps, SessionState, agentVars, channelVars
<1>20. CASE ReapAgent
  BY <1>1, <1>20
  DEF ReapAgent, SessionEnding, StatusInv, ConfirmInv, ClosingInv, Final, EndedSessionReaps, SessionState,
      channelVars
<1>21. CASE ReapFails
  BY <1>4, <1>21 DEF ReapFails, agentVars, Final, EarlyReturns
<1>22. CASE SendFarewell
  BY <1>1, <1>5, <1>22
  DEF SendFarewell, SessionEnding, StatusInv, ConfirmInv, ClosingInv, Final, EndedSessionReaps,
      SessionState, agentVars
<1>23. CASE EndSession
  BY <1>1, <1>23
  DEF EndSession, Leave, SessionEnding, StatusInv, ConfirmInv, ClosingInv, Final, EndedSessionReaps,
      SessionState, agentVars
<1> QED
  BY <1>10, <1>11, <1>12, <1>13, <1>14, <1>15, <1>16, <1>17, <1>18, <1>19, <1>20, <1>21,
     <1>22, <1>23 DEF SessionNext

\* EndInv in every step of run_agent_session.
LEMMA SessionEnds ==
    ASSUME LinesKeepTheirNumbers, SocketInv, SendsInv, EndInv, SessionNext,
           UNCHANGED clientVars
    PROVE  EndInv' /\ Advances
<1> USE DEF EndInv, SessionEnding
<1>1. /\ expectedClient \in Nat /\ expectedServer \in Nat
      /\ UNCHANGED <<client, expectedServer>>
  BY Expected DEF clientVars, streamVars
<1>30. SessionEnding
  BY SessionEndsWell
<1>31. ClosingInv' /\ ResultInv'
  BY <1>1, <1>30 DEF ClosingInv, ResultInv
<1>32. expectedClient <= expectedClient'
  <2>1. CASE UNCHANGED expectedClient
    BY <1>1, <2>1
  <2>2. CASE ReceiveEvent
    BY <1>1, <2>1, <2>2
    DEF ReceiveEvent, Only, Detach, HandleClientEnvelope, HandleAcp, HandleAck,
        HandleControl, ForwardLine, RejectLine, Accept, Abandon, frameVars
  <2> QED
    BY <2>1, <2>2
    DEF SessionNext, PumpReplay, PumpFindsClosed, EnterSelect, SendExit, ExitConfirmed,
        ExitFails, ChildWait, TakeAttachment, AttachEnqueues, AttachSucceeds,
        AttachFails, ServerShutdown, KeepaliveExpires, SendNoise, Wake, ReadAgent,
        GraceExpires, SendReply, ReapAgent, ReapFails, SendFarewell, EndSession,
        Detach, Abandon, frameVars
<1> QED BY <1>1, <1>30, <1>31, <1>32 DEF Advances

\* Neither a transport task nor a resumed socket ends anything.
LEMMA TaskEnds ==
    ASSUME LinesKeepTheirNumbers, SocketInv, EndInv, NEW s \in Sockets,
           TaskNext(s), UNCHANGED clientVars
    PROVE  EndInv' /\ Advances
<1> USE DEF EndInv
<1>1. /\ session \in SessionState(ServerEnvelopes)
      /\ tasks \in [Sockets -> Task(ServerEnvelopes, ClientEvents)]
      /\ expectedClient \in Nat /\ expectedServer \in Nat
      /\ UNCHANGED <<client, expectedServer>>
  BY Expected
  DEF LinesKeepTheirNumbers, SessionInv, ChannelInv, clientVars, streamVars
<1>2. UNCHANGED <<agent, expectedClient>>
  BY DEF TaskNext, TaskWrites, TaskFinishes, TaskBlocks, TaskWriteFails, TaskReads,
         TaskSeesEnd, TaskHandsOver, OrphanStops, agentVars, frameVars
<1>3. \E x : session' = [session EXCEPT !.sent = x]
  BY TaskMoves DEF SocketInv
<1>4. UNCHANGED <<session.pc, session.childStatus, session.endCategory, session.transport>>
  BY <1>1, <1>3 DEF SessionState
<1>5. StatusInv' /\ ClosingInv' /\ ResultInv' /\ Advances
  BY <1>1, <1>2, <1>4
  DEF StatusInv, ClosingInv, ResultInv, Final, EndedSessionReaps, Advances
<1>6. /\ tasks[s].state = "running"
      /\ \A t \in Sockets : t # s => tasks'[t] = tasks[t]
  BY TaskMoves DEF SocketInv
<1>7. ASSUME session'.sent = session.sent PROVE ConfirmInv'
  BY <1>1, <1>4, <1>6, <1>7 DEF ConfirmInv, SessionState
<1>8. ASSUME StopTask(s) PROVE ConfirmInv'
  <2>1. session'.sent = SentDropped(s) /\ tasks'[s] = StoppedTask
    BY <1>1, <1>8 DEF StopTask, SessionState
  <2>2. CASE s = session.transport /\ session.sent = "waiting"
    BY <1>1, <1>4, <2>1, <2>2, NetworkAssumption
    DEF ConfirmInv, SentDropped, StoppedTask, NoTask, Sockets, NoSocket
  <2> QED BY <1>7, <2>1, <2>2 DEF SentDropped
<1>9. ASSUME NEW e, session' = [session EXCEPT !.sent = SentAfter(s, e)] PROVE ConfirmInv'
  <2>1. session'.sent = SentAfter(s, e)
    BY <1>1, <1>9 DEF SessionState
  <2>2. CASE session.sent = "waiting" /\ session'.sent = "sent"
    BY <1>1, <1>4, <2>2 DEF ConfirmInv
  <2> QED BY <1>7, <2>1, <2>2 DEF SentAfter
<1>10. ConfirmInv'
  <2>1. CASE UNCHANGED session
    BY <1>7, <2>1
  <2> QED
    BY <1>8, <1>9, <2>1
    DEF TaskNext, TaskWrites, TaskFinishes, TaskBlocks, TaskWriteFails, TaskReads,
        TaskSeesEnd, TaskHandsOver, OrphanStops
<1> QED BY <1>5, <1>10

\* A run of the agent, the server's shutdown, a failing link or a new socket.
LEMMA OthersEnd ==
    ASSUME LinesKeepTheirNumbers, EndInv,
           UNCHANGED <<client, expectedServer, expectedClient, session, tasks>>,
           agent'.alive => agent.alive
    PROVE  EndInv' /\ Advances
<1>1. expectedClient \in Nat /\ expectedServer \in Nat
  BY Expected
<1> QED BY <1>1 DEF EndInv, StatusInv, ClosingInv, ResultInv, ConfirmInv, Final,
           EndedSessionReaps, Advances

\* The sequence number that an acknowledgement carries: the expected one less one.
LEMMA OneLess ==
    ASSUME NEW n \in Nat, n > 0
    PROVE  n - 1 \in Nat /\ n - 1 < n
OBVIOUS

\* Every envelope that a step makes is one its side may say after the step.
LEMMA EnvelopesMade ==
    ASSUME LinesKeepTheirNumbers, LinesKeepTheirNumbers'
    PROVE  /\ \A frame \in PendingFrame : Acp(frame) \in ConnectorSends'
           /\ Ack("server_to_client", expectedServer' - 1) \in ConnectorSends'
           /\ Control("pong") \in ConnectorSends' /\ Control("open") \in ConnectorSends'
           /\ client'.closing => Control("shutdown") \in ConnectorSends'
           /\ \A frame \in ServerFrame : Acp(frame) \in SessionSends'
           /\ Ack("client_to_server", expectedClient' - 1) \in SessionSends'
           /\ \A type \in {"ready", "ping", "stderr", "pong", "error"} :
                Control(type) \in SessionSends'
           /\ session'.childStatus => Control("exit") \in SessionSends'
           /\ session'.childStatus /\ Final' /\ session'.endCategory = "client_shutdown" =>
                Control("shutdown_complete") \in SessionSends'
<1>1. /\ expectedServer' \in Nat /\ expectedServer' > 0
      /\ expectedClient' \in Nat /\ expectedClient' > 0
  BY ConnectorAssumption, LenProperties
  DEF LinesKeepTheirNumbers, StdoutInv, HandledInv, RetainedInv, QueueInv
<1>2. /\ expectedServer' - 1 \in Nat /\ expectedServer' - 1 < expectedServer'
      /\ expectedClient' - 1 \in Nat /\ expectedClient' - 1 < expectedClient'
  BY <1>1, OneLess
<1>3. /\ \A frame \in PendingFrame : Acp(frame) \in ConnectorSends'
      /\ \A frame \in ServerFrame : Acp(frame) \in SessionSends'
  BY DEF Acp, PendingFrame, ServerFrame, Envelopes, ConnectorSends, SessionSends
<1>4. /\ Ack("server_to_client", expectedServer' - 1) \in ConnectorSends'
      /\ Ack("client_to_server", expectedClient' - 1) \in SessionSends'
  BY <1>2 DEF Ack, Envelopes, Streams, ConnectorSends, SessionSends
<1>5. \A type \in ControlTypes : Control(type) \in Envelopes /\ Control(type).type = type
  BY DEF Control, Envelopes
<1>6. /\ Control("pong") \in ConnectorSends' /\ Control("open") \in ConnectorSends'
      /\ client'.closing => Control("shutdown") \in ConnectorSends'
  BY <1>5 DEF ConnectorSends, ControlTypes
<1>7. /\ \A type \in {"ready", "ping", "stderr", "pong", "error"} :
                Control(type) \in SessionSends'
      /\ session'.childStatus => Control("exit") \in SessionSends'
      /\ session'.childStatus /\ Final' /\ session'.endCategory = "client_shutdown" =>
                Control("shutdown_complete") \in SessionSends'
  BY <1>5 DEF SessionSends, ControlTypes
<1> QED BY <1>3, <1>4, <1>6, <1>7

\* What a transport task reads: `open` is gone by then.
LEMMA EventsMade ==
    ASSUME LinesKeepTheirNumbers, SendsInv, OpenInv, ReadEvents \subseteq ReadEvents'
    PROVE  TasksMake(ReadEvents')
<1> SUFFICES ASSUME NEW s \in Sockets
             PROVE  /\ [socket |-> s, kind |-> "disconnected"] \in ReadEvents'
                    /\ Selecting(s) /\ Arrives(c2s, s, ServerFrameBytes) =>
                         [socket |-> s, kind |-> "envelope",
                          envelope |-> Head(c2s[s])] \in ReadEvents'
  BY DEF TasksMake
<1>1. [socket |-> s, kind |-> "disconnected"] \in ReadEvents'
  BY DEF ReadEvents, Event
<1>2. ASSUME Selecting(s), Arrives(c2s, s, ServerFrameBytes)
      PROVE  [socket |-> s, kind |-> "envelope", envelope |-> Head(c2s[s])] \in ReadEvents
  <2>1. c2s[s] \in Seq(ConnectorSends) /\ c2s[s] # << >>
    BY <1>2 DEF SendsInv, Carries, Arrives
  <2>2. /\ Head(c2s[s]) \in ConnectorSends /\ Head(c2s[s]) = c2s[s][1]
        /\ 1 \in 1 .. Len(c2s[s])
    BY <2>1, HeadIn, TailElements
  <2>3. Head(c2s[s]).type # "open"
    BY <1>2, <2>2 DEF OpenInv, Selecting
  <2>4. Head(c2s[s]) \in SessionReads
    <3>1. Head(c2s[s]).type = "acp" => Head(c2s[s]).payload \in Payloads
      BY <2>2 DEF ConnectorSends, Envelopes, ControlTypes
    <3>2. Head(c2s[s]).type = "acp" => EnvelopeSize[Head(c2s[s]).payload] <= ServerFrameBytes
      BY <1>2, <3>1, NetworkAssumption, SessionAssumption DEF Arrives, TooLong
    <3> QED BY <2>2, <2>3, <3>2 DEF SessionReads
  <2> QED BY <2>2, <2>4 DEF ReadEvents, Event, ConnectorSends
<1> QED BY <1>1, <1>2

\* What both sides have said stays so, in every step.
LEMMA SendsKeep ==
    ASSUME LinesKeepTheirNumbers, LinesKeepTheirNumbers', SocketInv, OpenInv,
           SendsInv, EndInv, [Next]_vars
    PROVE  SendsInv' /\ EndInv' /\ Advances
<1>1. EndInv' /\ Advances
  <2>1. CASE ConnectorStep
    BY <2>1, ConnectorEnds
  <2>2. CASE ServerStep /\ SessionNext
    BY <2>2, SessionEnds DEF ServerStep
  <2>3. CASE ServerStep /\ \E s \in Sockets : TaskNext(s)
    BY <2>3, TaskEnds DEF ServerStep
  <2>4. ASSUME UNCHANGED clientVars, UNCHANGED <<session, expectedClient, tasks>>,
               agent'.alive => agent.alive
        PROVE  EndInv' /\ Advances
    BY <2>4, OthersEnd DEF clientVars, streamVars
  <2>5. CASE ServerStep /\ \E s \in Sockets : AcceptResume(s)
    BY <2>4, <2>5 DEF ServerStep, AcceptResume, agentVars, frameVars
  <2>6. CASE ServerStep /\ (AgentWrites \/ AgentExits \/ Cancel)
    <3>1. agent'.alive => agent.alive
      BY <2>6 DEF AgentWrites, AgentExits, Cancel, LinesKeepTheirNumbers, SessionInv
    <3> QED BY <2>4, <2>6, <3>1
      DEF ServerStep, AgentWrites, AgentExits, Cancel, channelVars, frameVars
  <2>7. CASE NetworkStep
    BY <2>4, <2>7 DEF NetworkStep, serverVars, agentVars, channelVars, frameVars
  <2>8. CASE UNCHANGED vars
    BY <2>4, <2>8 DEF vars, serverVars, agentVars, channelVars, frameVars
  <2> QED
    BY <2>1, <2>2, <2>3, <2>5, <2>6, <2>7, <2>8 DEF Next, ServerStep, ServerNext
<1>2. PICK CS, SS, RS : CS = ConnectorSends' /\ SS = SessionSends' /\ RS = ReadEvents'
  OBVIOUS
<1>3. ConnectorSends \subseteq CS /\ SessionSends \subseteq SS /\ ReadEvents \subseteq RS
  BY <1>1, <1>2, SendsGrow
<1>4. Carries(CS, SS, RS, c2s, client.outgoing, s2c, session.outbox, tasks, events)
  BY <1>3, CarriesMore DEF SendsInv
<1>5. Carries(CS, SS, RS, c2s', client'.outgoing, s2c', session'.outbox, tasks', events')
  <2> USE DEF Carries
  <2>1. CASE ConnectorStep
    <3>1. UNCHANGED <<session, tasks, events>>
      BY <2>1 DEF ConnectorStep, serverVars, channelVars
    <3>2. ConnectorMakes(CS)
      BY <1>1, <1>2, EnvelopesMade DEF ConnectorMakes, EndInv, ClosingInv, Advances
    <3>3. /\ c2s' \in [Sockets -> Seq(CS)] /\ client'.outgoing \in Seq(CS)
          /\ s2c' \in [Sockets -> Seq(SS)]
      BY <1>4, <2>1, <3>2, ConnectorCarries
    <3> QED BY <1>4, <3>1, <3>3
  <2>2. CASE ServerStep /\ SessionNext
    <3>1. SessionMakes(SS)
      <4>0. session \in SessionState(ServerEnvelopes)
        BY DEF LinesKeepTheirNumbers, SessionInv
      <4>1. SendExit \/ ReapAgent => session'.childStatus
        <5>1. CASE SendExit
          BY <4>0, <5>1 DEF SendExit, EndInv, StatusInv, SessionState
        <5>2. CASE ReapAgent
          BY <4>0, <5>2 DEF ReapAgent, SessionState
        <5> QED BY <5>1, <5>2
      <4>2. ReapAgent /\ session.endCategory = "client_shutdown" =>
              Final' /\ session'.endCategory = "client_shutdown"
        BY <4>0 DEF ReapAgent, Final, SessionState
      <4> QED BY <1>2, <4>1, <4>2, EnvelopesMade DEF SessionMakes
    <3>2. UNCHANGED client
      BY <2>2 DEF ServerStep, clientVars
    <3>3. /\ c2s' \in [Sockets -> Seq(CS)] /\ s2c' \in [Sockets -> Seq(SS)]
          /\ session'.outbox \in Seq(SS)
          /\ tasks' \in [Sockets -> Task(SS, RS)] /\ events' \in Seq(RS)
      BY <1>4, <2>2, <3>1, SessionCarries
    <3> QED BY <1>4, <3>2, <3>3
  <2>3. ASSUME ServerStep, NEW s \in Sockets, TaskNext(s)
        PROVE  Carries(CS, SS, RS, c2s', client'.outgoing, s2c', session'.outbox, tasks', events')
    <3>1. TasksMake(RS)
      BY <1>2, <1>3, EventsMade
    <3>2. UNCHANGED client
      BY <2>3 DEF ServerStep, clientVars
    <3>3. session'.outbox = session.outbox
      <4>1. \E x : session' = [session EXCEPT !.sent = x]
        BY <2>3, TaskMoves DEF SocketInv
      <4> QED BY <4>1 DEF LinesKeepTheirNumbers, SessionInv, SessionState
    <3>4. /\ c2s' \in [Sockets -> Seq(CS)] /\ s2c' \in [Sockets -> Seq(SS)]
          /\ tasks' \in [Sockets -> Task(SS, RS)] /\ events' \in Seq(RS)
      BY <1>4, <2>3, <3>1, TaskCarries
    <3> QED BY <1>4, <3>2, <3>3, <3>4
  <2>4. ASSUME ServerStep, NEW s \in Sockets, AcceptResume(s)
        PROVE  Carries(CS, SS, RS, c2s', client'.outgoing, s2c', session'.outbox, tasks', events')
    <3>1. Control("error") \in SS
      BY <1>2, EnvelopesMade
    <3>2. c2s' \in [Sockets -> Seq(CS)] /\ s2c' \in [Sockets -> Seq(SS)]
      BY <1>4, <2>4, <3>1, ResumeCarries
    <3> QED BY <1>4, <2>4, <3>2 DEF ServerStep, AcceptResume, clientVars
  <2>5. CASE NetworkStep
    <3>1. c2s' \in [Sockets -> Seq(CS)] /\ s2c' \in [Sockets -> Seq(SS)]
      BY <1>4, <2>5, NetworkCarries DEF NetworkStep
    <3> QED BY <1>4, <2>5, <3>1 DEF NetworkStep, clientVars, serverVars, channelVars
  <2>6. ASSUME UNCHANGED <<client, session, channelVars, networkVars>>
        PROVE  Carries(CS, SS, RS, c2s', client'.outgoing, s2c', session'.outbox, tasks', events')
    BY <1>4, <2>6 DEF channelVars, networkVars
  <2>7. CASE ServerStep /\ (AgentWrites \/ AgentExits \/ Cancel)
    BY <2>6, <2>7 DEF ServerStep, AgentWrites, AgentExits, Cancel, clientVars
  <2>8. CASE UNCHANGED vars
    BY <2>6, <2>8 DEF vars, clientVars, serverVars
  <2> QED
    BY <2>1, <2>2, <2>3, <2>4, <2>5, <2>7, <2>8 DEF Next, ServerStep, ServerNext
<1> QED BY <1>1, <1>2, <1>5 DEF SendsInv

\* Nothing has been said before the first step.
LEMMA SendsInit == Init => SendsInv /\ EndInv
<1> SUFFICES ASSUME Init PROVE SendsInv /\ EndInv
  OBVIOUS
<1> USE DEF Init, NetworkInit, ConnectorInit, SessionInit
<1>1. \A S : << >> \in Seq(S)
  OBVIOUS
<1>2. SendsInv
  BY <1>1, TaskConstants DEF SendsInv, Carries
<1>3. EndInv
  BY DEF EndInv, StatusInv, ClosingInv, ResultInv, ConfirmInv, EndedSessionReaps
<1> QED BY <1>2, <1>3

\* The strengthened invariant.
SaidInv == /\ LinesKeepTheirNumbers /\ SocketInv /\ OpenInv
           /\ SendsInv /\ EndInv

\* In every reachable state the envelopes under way are ones their sender had
\* reason to send: an acknowledgement is for a line that was delivered, an
\* exit or a shutdown_complete comes from a session whose child is reaped, and
\* a shutdown from a connector that is closing.
THEOREM WhatIsSaid == Spec => []SaidInv
<1>1. Init => SaidInv
  BY InitInv, SocketsInit, SendsInit DEF SaidInv
<1>2. SaidInv /\ [Next]_vars => SaidInv'
  <2>1. SaidInv /\ [Next]_vars => LinesKeepTheirNumbers'
    BY NextInv DEF SaidInv
  <2>2. SaidInv /\ [Next]_vars => SocketInv' /\ OpenInv'
    BY SocketsKeep DEF SaidInv
  <2>3. SaidInv /\ [Next]_vars => SendsInv' /\ EndInv'
    BY <2>1, SendsKeep DEF SaidInv
  <2> QED BY <2>1, <2>2, <2>3 DEF SaidInv
<1> QED BY <1>1, <1>2, PTL DEF Spec

\* A session that has returned has waited for its child, unless it left by one of
\* the three `?` of run_agent_session: a line the policy fails on, a write to
\* the agent's stdin that fails, also when the agent only closed it, and a
\* terminate_and_reap that does.
THEOREM EndedReaps == Spec => []EndedSessionReaps
<1>1. SaidInv => EndedSessionReaps
  BY DEF SaidInv, EndInv, StatusInv
<1> QED BY <1>1, WhatIsSaid, PTL

\* When the connector reports an exit or a completed shutdown (client.rs returns
\* on exit and shutdown_complete), the server has reaped the agent.
THEOREM ReportedReaps == Spec => []ReportedEndReaps
<1>1. SaidInv => ReportedEndReaps
  BY DEF SaidInv, EndInv, StatusInv, ResultInv, ReportedEndReaps
<1> QED BY <1>1, WhatIsSaid, PTL

\* Every set of numbers that is not empty has a least element: the form of
\* induction that the provers can use.
LEMMA LeastNumber ==
    ASSUME NEW T, T \subseteq Nat, T # {}
    PROVE  \E x \in T : \A y \in T : x <= y
<1>1. IsWellFoundedOn(OpToRel(<,Nat), Nat)
  BY NatLessThanWellFounded
<1>2. PICK x \in T : \A y \in T : ~ (<<y, x>> \in OpToRel(<,Nat))
  BY <1>1, WFMin
<1>3. \A y \in T : ~(y < x)
  BY <1>2 DEF OpToRel
<1> QED BY <1>3

\* f holds the running totals of the sizes of the first n frames of q.
Totals(f, q, n) ==
    \A i \in 0 .. n : f[i] = IF i = 0 THEN 0
                             ELSE f[i - 1] + Size[q[i].payload]

\* There are running totals, by induction on the number of frames.
LEMMA TotalsExist ==
    ASSUME NEW q, NEW n \in Nat
    PROVE  \E f : f = [i \in 0 .. n |-> f[i]] /\ Totals(f, q, n)
<1> DEFINE P(k) == \E f : f = [i \in 0 .. k |-> f[i]] /\ Totals(f, q, k)
           T == {k \in Nat : ~P(k)}
<1> HIDE DEF P
<1> SUFFICES ASSUME T # {} PROVE FALSE
  BY DEF P
<1>1. PICK m \in T : \A y \in T : m <= y
  <2> T \subseteq Nat
    OBVIOUS
  <2> HIDE DEF T
  <2> QED BY LeastNumber
<1>2. m # 0
  <2> DEFINE z == [i \in 0 .. 0 |-> 0]
  <2>1. z = [i \in 0 .. 0 |-> z[i]] /\ Totals(z, q, 0)
    BY DEF Totals
  <2> HIDE DEF z
  <2>2. P(0)
    BY <2>1 DEF P
  <2> QED BY <2>2
<1>3. m - 1 \in Nat /\ P(m - 1)
  BY <1>1, <1>2
<1>4. PICK f : Totals(f, q, m - 1)
  BY <1>3 DEF P
<1> DEFINE g == [i \in 0 .. m |-> IF i = m THEN f[m - 1] + Size[q[m].payload]
                                           ELSE f[i]]
<1>5. /\ g = [i \in 0 .. m |-> g[i]]
      /\ \A i \in 0 .. m - 1 : g[i] = f[i]
      /\ g[m] = f[m - 1] + Size[q[m].payload]
  <2>1. m \in 0 .. m /\ \A i \in 0 .. m - 1 : i \in 0 .. m /\ i # m
    BY <1>3
  <2>2. g[m] = f[m - 1] + Size[q[m].payload]
    BY <2>1
  <2>3. g = [i \in 0 .. m |-> g[i]]
    OBVIOUS
  <2> QED BY <2>1, <2>2, <2>3
<1> HIDE DEF g
<1>6. Totals(g, q, m)
  <2> SUFFICES ASSUME NEW i \in 0 .. m
               PROVE  g[i] = IF i = 0 THEN 0 ELSE g[i - 1] + Size[q[i].payload]
    BY DEF Totals
  <2>1. CASE i = m
    <3>1. m - 1 \in 0 .. m - 1
      BY <1>3
    <3>2. g[m - 1] = f[m - 1]
      BY <1>5, <3>1
    <3> QED BY <1>2, <1>5, <2>1, <3>2
  <2>2. CASE i # m
    <3>1. i \in 0 .. m - 1 /\ (i # 0 => i - 1 \in 0 .. m - 1)
      BY <2>2, <1>3
    <3>2. f[i] = IF i = 0 THEN 0 ELSE f[i - 1] + Size[q[i].payload]
      BY <1>4, <3>1 DEF Totals
    <3> QED BY <1>5, <3>1, <3>2
  <2> QED BY <2>1, <2>2
<1>7. P(m)
  BY <1>5, <1>6 DEF P
<1> QED BY <1>7

\* pending_bytes is the last of the running totals.
LEMMA BytesTotals ==
    ASSUME NEW q, Len(q) \in Nat
    PROVE  \E f : Totals(f, q, Len(q)) /\ Bytes(q) = f[Len(q)]
<1> DEFINE R(h) == h = [i \in 0 .. Len(q) |->
                          IF i = 0 THEN 0 ELSE h[i - 1] + Size[q[i].payload]]
           f == CHOOSE h : R(h)
<1>1. PICK g : g = [i \in 0 .. Len(q) |-> g[i]] /\ Totals(g, q, Len(q))
  BY TotalsExist
<1>2. R(g)
  <2> DEFINE h == [i \in 0 .. Len(q) |->
                     IF i = 0 THEN 0 ELSE g[i - 1] + Size[q[i].payload]]
  <2>1. [i \in 0 .. Len(q) |-> g[i]] = h
    BY <1>1 DEF Totals
  <2> QED BY <1>1, <2>1
<1>3. R(f)
  <2> HIDE DEF R
  <2> QED BY <1>2
<1>4. Bytes(q) = f[Len(q)]
  BY DEF Bytes
<1> DEFINE step == [i \in 0 .. Len(q) |->
                      IF i = 0 THEN 0 ELSE f[i - 1] + Size[q[i].payload]]
<1>5. f = step
  BY <1>3
<1> HIDE DEF f
<1>6. \A i \in 0 .. Len(q) : step[i] = IF i = 0 THEN 0
                                       ELSE f[i - 1] + Size[q[i].payload]
  OBVIOUS
<1> HIDE DEF step
<1>7. Totals(f, q, Len(q))
  BY <1>5, <1>6 DEF Totals
<1> QED BY <1>4, <1>7

\* The first n payloads of q are those that follow the first k of p.
Repeats(q, p, k, n) ==
    \A i \in 1 .. n : /\ q[i].payload = p[k + i].payload
                      /\ Size[q[i].payload] \in Nat

\* The totals f are from k on those of g, plus f[k].
Continues(f, g, k, n) ==
    \A i \in 0 .. n : g[i] \in Nat /\ f[k + i] = f[k] + g[i]

\* The totals of a queue that repeats another one from k on are those of the
\* other one less its total at k, by induction on the position.
LEMMA TotalsShift ==
    ASSUME NEW p, NEW q, NEW k \in Nat, NEW n \in Nat, NEW t, t = k + n,
           NEW f, NEW g, Totals(f, p, t), Totals(g, q, n), f[k] \in Nat,
           Repeats(q, p, k, n)
    PROVE  Continues(f, g, k, n)
<1> DEFINE P(i) == g[i] \in Nat /\ f[k + i] = f[k] + g[i]
           T == {i \in Nat : i <= n /\ ~P(i)}
<1> SUFFICES ASSUME T # {} PROVE FALSE
  BY DEF Continues
<1>1. PICK m \in T : \A y \in T : m <= y
  <2> T \subseteq Nat
    OBVIOUS
  <2> HIDE DEF T
  <2> QED BY LeastNumber
<1>2. m # 0
  <2>1. g[0] = 0
    BY DEF Totals
  <2> QED BY <2>1
<1>3. m - 1 \in Nat /\ m \in 1 .. n /\ P(m - 1)
  BY <1>1, <1>2
<1>4. g[m] = g[m - 1] + Size[q[m].payload]
  BY <1>3 DEF Totals
<1>5. f[k + m] = f[(k + m) - 1] + Size[p[k + m].payload]
  <2>1. k + m \in 0 .. k + n /\ k + m # 0
    BY <1>3
  <2> HIDE DEF P
  <2> QED BY <2>1 DEF Totals
<1>6. (k + m) - 1 = k + (m - 1)
  BY <1>3
<1>7. Size[p[k + m].payload] = Size[q[m].payload] /\ Size[q[m].payload] \in Nat
  BY <1>3 DEF Repeats
<1>8. P(m)
  BY <1>3, <1>4, <1>5, <1>6, <1>7
<1> QED BY <1>8

\* The same for a queue with the same payloads throughout.
LEMMA TotalsSame ==
    ASSUME NEW p, NEW q, NEW n \in Nat, NEW f, NEW g,
           Totals(f, p, n), Totals(g, q, n), Repeats(q, p, 0, n)
    PROVE  \A i \in 0 .. n : g[i] \in Nat /\ f[i] = g[i]
<1>1. f[0] = 0
  BY DEF Totals
<1>2. 0 + n = n /\ \A i \in 0 .. n : 0 + i = i
  OBVIOUS
<1>5. 0 \in Nat /\ f[0] \in Nat
  BY <1>1
<1>6. Continues(f, g, 0, n)
  BY <1>2, <1>5, TotalsShift
<1> QED BY <1>1, <1>2, <1>6 DEF Continues

\* The total is a number.
LEMMA BytesNat ==
    ASSUME NEW q, Len(q) \in Nat,
           \A i \in 1 .. Len(q) : Size[q[i].payload] \in Nat
    PROVE  Bytes(q) \in Nat
<1>1. PICK f : Totals(f, q, Len(q)) /\ Bytes(q) = f[Len(q)]
  BY BytesTotals
<1>2. Repeats(q, q, 0, Len(q))
  BY DEF Repeats
<1>3. \A i \in 0 .. Len(q) : f[i] \in Nat
  BY <1>1, <1>2, TotalsSame
<1> QED BY <1>1, <1>3

\* push_back: the frame's size is added.
LEMMA BytesAppend ==
    ASSUME NEW S, NEW q \in Seq(S), NEW x \in S,
           \A y \in S : Size[y.payload] \in Nat
    PROVE  Bytes(Append(q, x)) = Bytes(q) + Size[x.payload]
<1> DEFINE r == Append(q, x)
<1>1. /\ Len(q) \in Nat /\ Len(r) = Len(q) + 1 /\ r[Len(q) + 1] = x
      /\ \A i \in 1 .. Len(q) : r[i] = q[i] /\ q[i] \in S
  BY AppendProperties, LenProperties, ElementOfSeq
<1> HIDE DEF r
<1>2. PICK f : Totals(f, q, Len(q)) /\ Bytes(q) = f[Len(q)]
  BY <1>1, BytesTotals
<1>3. PICK g : Totals(g, r, Len(r)) /\ Bytes(r) = g[Len(r)]
  BY <1>1, BytesTotals
<1>4. g[0] = 0 /\ g[Len(r)] = g[Len(q)] + Size[x.payload]
  BY <1>1, <1>3 DEF Totals
<1>5. Totals(g, q, Len(q))
  <2> SUFFICES ASSUME NEW i \in 0 .. Len(q)
               PROVE  g[i] = IF i = 0 THEN 0 ELSE g[i - 1] + Size[q[i].payload]
    BY DEF Totals
  <2>1. i \in 0 .. Len(r) /\ (i # 0 => r[i] = q[i])
    BY <1>1
  <2> QED BY <1>3, <2>1 DEF Totals
<1>6. Repeats(q, q, 0, Len(q))
  BY <1>1 DEF Repeats
<1>7. \A i \in 0 .. Len(q) : f[i] = g[i]
  BY <1>1, <1>2, <1>5, <1>6, TotalsSame
<1> QED BY <1>1, <1>2, <1>3, <1>4, <1>7 DEF r

\* pop_front, any number of times: the total does not grow.
LEMMA BytesPopped ==
    ASSUME NEW S, NEW q \in Seq(S), NEW k \in 0 .. Len(q),
           \A y \in S : Size[y.payload] \in Nat
    PROVE  Bytes(Popped(q, k)) <= Bytes(q)
<1> DEFINE r == Popped(q, k)
<1>1. /\ Len(q) \in Nat /\ Len(r) = Len(q) - k /\ Len(r) \in Nat
      /\ \A i \in 1 .. Len(r) : r[i] = q[k + i]
      /\ \A i \in 1 .. Len(q) : q[i] \in S
  BY SubSeqProperties, LenProperties, ElementOfSeq DEF Popped
<1> HIDE DEF r
<1>2. PICK f : Totals(f, q, Len(q)) /\ Bytes(q) = f[Len(q)]
  BY <1>1, BytesTotals
<1>3. PICK g : Totals(g, r, Len(r)) /\ Bytes(r) = g[Len(r)]
  BY <1>1, BytesTotals
<1>4. Repeats(q, q, 0, Len(q))
  BY <1>1 DEF Repeats
<1>5. \A i \in 0 .. Len(q) : f[i] \in Nat
  BY <1>1, <1>2, <1>4, TotalsSame
<1>6. Continues(f, g, k, Len(r))
  <2>1. k + Len(r) = Len(q) /\ \A i \in 1 .. Len(r) : k + i \in 1 .. Len(q)
    BY <1>1
  <2>2. f[k] \in Nat /\ Totals(f, q, Len(q))
    BY <1>1, <1>2, <1>5, <2>1
  <2>3. Repeats(r, q, k, Len(r))
    BY <1>1, <2>1 DEF Repeats
  <2>4. k \in Nat /\ Len(r) \in Nat /\ Totals(g, r, Len(r))
    BY <1>1, <1>3
  <2> QED BY <2>1, <2>2, <2>3, <2>4, TotalsShift
<1>7. f[Len(q)] = f[k] + g[Len(r)] /\ f[k] \in Nat /\ g[Len(r)] \in Nat
  BY <1>1, <1>5, <1>6 DEF Continues
<1> QED BY <1>2, <1>3, <1>7 DEF r

\* Marking a frame as sent leaves the total as it is.
LEMMA BytesMarked ==
    ASSUME NEW S, NEW q \in Seq(S), NEW r, Len(r) = Len(q),
           \A i \in 1 .. Len(q) : r[i].payload = q[i].payload,
           \A y \in S : Size[y.payload] \in Nat
    PROVE  Bytes(r) = Bytes(q)
<1>1. Len(q) \in Nat /\ \A i \in 1 .. Len(q) : q[i] \in S
  BY LenProperties, ElementOfSeq
<1>2. PICK f : Totals(f, q, Len(q)) /\ Bytes(q) = f[Len(q)]
  BY <1>1, BytesTotals
<1>3. PICK g : Totals(g, r, Len(r)) /\ Bytes(r) = g[Len(r)]
  BY <1>1, BytesTotals
<1>4. Repeats(r, q, 0, Len(q))
  BY <1>1 DEF Repeats
<1>5. Totals(g, r, Len(q))
  BY <1>3
<1>6. \A i \in 0 .. Len(q) : f[i] = g[i]
  BY <1>1, <1>2, <1>4, <1>5, TotalsSame
<1> QED BY <1>1, <1>2, <1>3, <1>6

-----------------------------------------------------------------------------
(* The replay buffers.                                                     *)

\* A buffer holds the last frames that were numbered, without a gap, and it
\* reaches back to the first one the peer still expects.
Run(pending, next) ==
    \A i \in 1 .. Len(pending) :
      pending[i].sequence = next - Len(pending) + i - 1
Reaches(pending, next, expected) ==
    Run(pending, next) /\ next - Len(pending) <= expected

RetainInv == /\ Reaches(clientPending, nextClient, expectedClient)
             /\ Reaches(serverPending, nextServer, expectedServer)

\* What a step may do to a buffer: a new frame at the end, within the limits;
\* frames of which the peer acknowledged the last one leave at the front; a
\* frame is marked as sent.
Pushed(p, q, next, next2, F, maxFrames, maxBytes) ==
    /\ next2 = next + 1
    /\ Len(p) < maxFrames
    /\ \E x \in F : /\ q = Append(p, x) /\ x.sequence = next
                    /\ Bytes(p) + Size[x.payload] <= maxBytes
Freed(p, q, next, next2, bound) ==
    /\ next2 = next
    /\ \E k \in 0 .. Len(p) : /\ q = Popped(p, k)
                              /\ \A i \in 1 .. k : p[i].sequence < bound
Marked(p, q, next, next2) ==
    /\ next2 = next /\ Len(q) = Len(p)
    /\ \A i \in 1 .. Len(p) : /\ q[i].sequence = p[i].sequence
                              /\ q[i].payload = p[i].payload

\* A frame pushed at the end of a buffer extends its run (queue_server_frame).
LEMMA PushReaches ==
    ASSUME NEW S, NEW p \in Seq(S), NEW q, NEW n \in Nat, NEW n2, NEW e \in Nat,
           NEW mf, NEW mb, Reaches(p, n, e), Pushed(p, q, n, n2, S, mf, mb)
    PROVE  Reaches(q, n2, e)
<1>1. PICK x \in S : q = Append(p, x) /\ x.sequence = n
  BY DEF Pushed
<1>2. /\ Len(q) = Len(p) + 1 /\ Len(p) \in Nat
      /\ \A i \in 1 .. Len(p) : q[i] = p[i]
      /\ q[Len(p) + 1] = x
  BY <1>1, EventAppended
<1>3. \A i \in 1 .. Len(q) : i \in 1 .. Len(p) \/ i = Len(p) + 1
  BY <1>2
<1>4. n2 = n + 1
  BY DEF Pushed
<1>5. \A i \in 1 .. Len(q) : q[i].sequence = n2 - Len(q) + i - 1
  <2> SUFFICES ASSUME NEW i \in 1 .. Len(q)
               PROVE  q[i].sequence = n2 - Len(q) + i - 1
    OBVIOUS
  <2>1. CASE i \in 1 .. Len(p)
    <3>1. q[i].sequence = n - Len(p) + i - 1
      BY <1>2, <2>1 DEF Reaches, Run
    <3> QED BY <1>2, <1>4, <2>1, <3>1
  <2>2. CASE i = Len(p) + 1
    <3>1. q[i].sequence = n
      BY <1>1, <1>2, <2>2
    <3> QED BY <1>2, <1>4, <2>2, <3>1
  <2> QED BY <1>3, <2>1, <2>2
<1> QED BY <1>2, <1>4, <1>5 DEF Reaches, Run

\* An acknowledgement for lines the peer has frees only those (pop_front loop).
LEMMA FreeReaches ==
    ASSUME NEW S, NEW p \in Seq(S), NEW q, NEW n \in Nat, NEW n2, NEW e \in Nat,
           Reaches(p, n, e), Freed(p, q, n, n2, e)
    PROVE  Reaches(q, n2, e)
<1>1. PICK k \in 0 .. Len(p) : q = Popped(p, k) /\ \A i \in 1 .. k : p[i].sequence < e
  BY DEF Freed
<1>2. /\ Len(q) = Len(p) - k /\ Len(p) \in Nat
      /\ \A i \in 1 .. Len(q) : q[i] = p[k + i] /\ k + i \in 1 .. Len(p)
  <2>1. /\ Len(q) = Len(p) - k /\ Len(p) \in Nat
        /\ \A i \in 1 .. Len(q) : q[i] = p[k + i]
    BY <1>1, SubSeqProperties, LenProperties DEF Popped
  <2> QED BY <2>1
<1>3. n2 = n
  BY DEF Freed
<1>4. \A i \in 1 .. Len(q) : q[i].sequence = n2 - Len(q) + i - 1
  <2> SUFFICES ASSUME NEW i \in 1 .. Len(q)
               PROVE  q[i].sequence = n2 - Len(q) + i - 1
    OBVIOUS
  <2>1. q[i] = p[k + i] /\ k + i \in 1 .. Len(p)
    BY <1>2
  <2>2. p[k + i].sequence = n - Len(p) + (k + i) - 1
    BY <2>1 DEF Reaches, Run
  <2> QED BY <1>2, <1>3, <2>1, <2>2
<1>5. n2 - Len(q) <= e
  <2>1. CASE k = 0
    BY <1>2, <1>3, <2>1 DEF Reaches
  <2>2. CASE k > 0
    <3>1. k \in 1 .. k /\ k \in 1 .. Len(p)
      BY <1>2, <2>2
    <3>2. p[k].sequence < e /\ p[k].sequence = n - Len(p) + k - 1
      BY <1>1, <3>1 DEF Reaches, Run
    <3> QED BY <1>2, <1>3, <3>2
  <2> QED BY <2>1, <2>2
<1> QED BY <1>4, <1>5 DEF Reaches, Run

\* Marking a frame as sent on a transport changes no number.
LEMMA MarkReaches ==
    ASSUME NEW p, NEW q, NEW n, NEW n2, NEW e, Reaches(p, n, e), Marked(p, q, n, n2)
    PROVE  Reaches(q, n2, e)
BY DEF Reaches, Run, Marked

\* The totals of both limits are kept by the same three changes.
Within(p, maxFrames, maxBytes) == Len(p) <= maxFrames /\ Bytes(p) <= maxBytes

\* A push that was guarded by the limits stays within them.
LEMMA PushWithin ==
    ASSUME NEW S, NEW p \in Seq(S), NEW q, NEW n, NEW n2, NEW mf \in Nat, NEW mb \in Nat,
           \A y \in S : Size[y.payload] \in Nat,
           Pushed(p, q, n, n2, S, mf, mb)
    PROVE  Within(q, mf, mb)
<1>1. PICK x \in S : q = Append(p, x) /\ Bytes(p) + Size[x.payload] <= mb
  BY DEF Pushed
<1>2. Len(q) = Len(p) + 1 /\ Len(p) \in Nat /\ Len(p) < mf
  BY <1>1, EventAppended DEF Pushed
<1>3. Bytes(q) = Bytes(p) + Size[x.payload]
  BY <1>1, BytesAppend
<1> QED BY <1>1, <1>2, <1>3 DEF Within

\* Freeing frames only lowers the totals.
LEMMA FreeWithin ==
    ASSUME NEW S, NEW p \in Seq(S), NEW q, NEW n, NEW n2, NEW b, NEW mf \in Nat, NEW mb \in Nat,
           \A y \in S : Size[y.payload] \in Nat,
           Freed(p, q, n, n2, b), Within(p, mf, mb)
    PROVE  Within(q, mf, mb)
<1>1. PICK k \in 0 .. Len(p) : q = Popped(p, k)
  BY DEF Freed
<1>2. /\ Len(q) = Len(p) - k /\ Len(p) \in Nat /\ q \in Seq(S)
  BY <1>1, SubSeqProperties, LenProperties DEF Popped
<1>3. Bytes(q) <= Bytes(p)
  BY <1>1, BytesPopped
<1>4. Bytes(q) \in Nat /\ Bytes(p) \in Nat
  <2>1. /\ \A i \in 1 .. Len(p) : Size[p[i].payload] \in Nat
        /\ \A i \in 1 .. Len(q) : Size[q[i].payload] \in Nat
        /\ Len(p) \in Nat /\ Len(q) \in Nat
    BY <1>2, ElementOfSeq, LenProperties
  <2>2. Bytes(p) \in Nat
    BY <2>1, BytesNat
  <2>3. Bytes(q) \in Nat
    BY <2>1, BytesNat
  <2> QED BY <2>2, <2>3
<1>5. Len(q) <= mf
  BY <1>2 DEF Within
<1> QED BY <1>3, <1>4, <1>5 DEF Within

\* Marking frames leaves the totals alone.
LEMMA MarkWithin ==
    ASSUME NEW S, NEW p \in Seq(S), NEW q, NEW n, NEW n2, NEW mf, NEW mb,
           \A y \in S : Size[y.payload] \in Nat,
           Marked(p, q, n, n2), Within(p, mf, mb)
    PROVE  Within(q, mf, mb)
<1>1. Bytes(q) = Bytes(p)
  BY BytesMarked DEF Marked
<1> QED BY <1>1 DEF Marked, Within

\* The connector's buffer.
LEMMA ConnectorFrames ==
    ASSUME LinesKeepTheirNumbers, SendsInv, ConnectorStep
    PROVE  \/ UNCHANGED <<clientPending, nextClient>>
           \/ Pushed(clientPending, clientPending', nextClient, nextClient', PendingFrame,
                     ClientReplayFrames, ClientReplayBytes)
           \/ Freed(clientPending, clientPending', nextClient, nextClient', expectedClient)
<1>1. CASE ReadStdin
  <2>1. nextClient \in 1 .. Len(ClientInput) /\ ClientInput[nextClient] \in Payloads
    <3>1. nextClient \in 1 .. Len(ClientInput)
      BY <1>1, ConnectorAssumption, LenProperties
      DEF ReadStdin, LinesKeepTheirNumbers, RetainedInv
    <3> QED BY <3>1, ConnectorAssumption, ElementOfSeq
  <2> DEFINE frame == [sequence |-> nextClient, payload |-> ClientInput[nextClient]]
  <2>2. frame \in PendingFrame
    BY <2>1 DEF PendingFrame
  <2>3. CASE UNCHANGED streamVars
    BY <2>3 DEF streamVars
  <2>4. CASE /\ ~(Size[frame.payload] > ClientFrameBytes
                  \/ Bytes(clientPending) + Size[frame.payload] > ClientReplayBytes)
             /\ clientPending' = Append(clientPending, frame)
             /\ nextClient' = nextClient + 1
    <3>1. Len(clientPending) < ClientReplayFrames
      BY <1>1 DEF ReadStdin, CanReadStdin, CanRead
    <3>2. frame.sequence = nextClient
      OBVIOUS
    <3>3. Bytes(clientPending) \in Nat
      <4>1. clientPending \in Seq(PendingFrame)
        BY SeqGrows DEF LinesKeepTheirNumbers, RetainedInv, ClientFrames
      <4>2. /\ Len(clientPending) \in Nat
            /\ \A i \in 1 .. Len(clientPending) : Size[clientPending[i].payload] \in Nat
        <5>1. /\ Len(clientPending) \in Nat
              /\ \A i \in 1 .. Len(clientPending) : clientPending[i] \in PendingFrame
          BY <4>1, LenProperties, ElementOfSeq
        <5> QED BY <5>1, ConnectorAssumption DEF PendingFrame
      <4> QED BY <4>2, BytesNat
    <3>4. Bytes(clientPending) + Size[frame.payload] <= ClientReplayBytes
      BY <2>1, <2>2, <2>4, <3>3, ConnectorAssumption DEF PendingFrame
    <3> HIDE DEF frame
    <3> QED BY <2>2, <2>4, <3>1, <3>2, <3>4 DEF Pushed
  <2> QED BY <1>1, <2>3, <2>4 DEF ReadStdin
<1>2. CASE Receive /\ ReceiveAck(Incoming)
  <2>1. CASE UNCHANGED streamVars
    BY <2>1 DEF streamVars
  <2>2. CASE /\ UNCHANGED nextClient
             /\ \E k \in 0 .. Len(clientPending) :
                   /\ Pops(clientPending, Incoming.sequence, k)
                   /\ clientPending' = Popped(clientPending, k)
    <3>1. PICK k \in 0 .. Len(clientPending) :
                   /\ Pops(clientPending, Incoming.sequence, k)
                   /\ clientPending' = Popped(clientPending, k)
      BY <2>2
    <3>2. Incoming \in SessionSends
      BY <1>2, IncomingSent DEF Receive
    <3>3. Incoming.sequence < expectedClient /\ Incoming.sequence \in Nat
          /\ expectedClient \in Nat
      BY <1>2, <3>2, Expected DEF ReceiveAck, SessionSends, Envelopes, ControlTypes
    <3>4. \A i \in 1 .. Len(clientPending) : clientPending[i].sequence \in Nat
      BY ElementOfSeq DEF LinesKeepTheirNumbers, RetainedInv, ClientFrames, PendingFrame
    <3>5. \A i \in 1 .. k : i \in 1 .. Len(clientPending)
      BY LenProperties DEF LinesKeepTheirNumbers, RetainedInv
    <3>6. \A i \in 1 .. k : clientPending[i].sequence < expectedClient
      BY <3>1, <3>3, <3>4, <3>5 DEF Pops
    <3> QED BY <2>2, <3>1, <3>6 DEF Freed
  <2> QED BY <1>2, <2>1, <2>2 DEF ReceiveAck
<1>3. CASE UNCHANGED <<clientPending, nextClient>>
  BY <1>3
<1> QED
  BY <1>1, <1>2, <1>3
    DEF ConnectorStep, ConnectorNext, StartShutdown, Receive, WriteOutgoing,
        LoseSocket, KeepaliveTimeout, Dial, ReceiveReady, AbandonAttempt,
        ShutdownWhileDetached, ReplayFrame, FinishReplay, GiveUp, SendShutdown,
        AwaitComplete, Signal, ConnectorDies, ReceiveAcp, ReceiveControl, streamVars

\* The types of both replay buffers, and of the byte total of one.
LEMMA ServerBuffer ==
    ASSUME LinesKeepTheirNumbers
    PROVE  /\ serverPending \in Seq(ServerFrame) /\ clientPending \in Seq(PendingFrame)
           /\ Len(serverPending) \in Nat /\ Len(clientPending) \in Nat
           /\ Bytes(serverPending) \in Nat
           /\ \A y \in ServerFrame : Size[y.payload] \in Nat
           /\ \A y \in PendingFrame : Size[y.payload] \in Nat
<1>1. serverPending \in Seq(ServerFrame) /\ clientPending \in Seq(PendingFrame)
  <2>1. serverPending \in Seq(ServerFrame)
    BY SeqGrows DEF LinesKeepTheirNumbers, QueueInv, ServerFrames
  <2>2. clientPending \in Seq(PendingFrame)
    BY SeqGrows DEF LinesKeepTheirNumbers, RetainedInv, ClientFrames
  <2> QED BY <2>1, <2>2
<1>2. /\ \A y \in ServerFrame : Size[y.payload] \in Nat
      /\ \A y \in PendingFrame : Size[y.payload] \in Nat
  BY ConnectorAssumption DEF ServerFrame, PendingFrame
<1>3. Len(serverPending) \in Nat /\ Len(clientPending) \in Nat
  BY <1>1, LenProperties
<1>4. \A i \in 1 .. Len(serverPending) : serverPending[i] \in ServerFrame
  BY <1>1, ElementOfSeq
<1>5. \A i \in 1 .. Len(serverPending) : Size[serverPending[i].payload] \in Nat
  BY <1>2, <1>4
<1>6. Bytes(serverPending) \in Nat
  BY <1>3, <1>5, BytesNat
<1> QED BY <1>1, <1>2, <1>3, <1>6

\* queue_server_frame, of a payload that fits.
LEMMA QueuePushes ==
    ASSUME LinesKeepTheirNumbers, NEW line \in Payloads, QueueServerFrame(line),
           Len(serverPending) < ServerReplayFrames,
           Bytes(serverPending) + Size[line] <= ServerReplayBytes
    PROVE  Pushed(serverPending, serverPending', nextServer, nextServer', ServerFrame,
                  ServerReplayFrames, ServerReplayBytes)
<1> DEFINE frame == [sequence |-> nextServer, payload |-> line, sentOn |-> NoSocket]
<1>1. frame \in ServerFrame /\ frame.sequence = nextServer /\ frame.payload = line
  BY Expected DEF ServerFrame
<1>2. serverPending' = Append(serverPending, frame) /\ nextServer' = nextServer + 1
  BY DEF QueueServerFrame
<1> HIDE DEF frame
<1> QED BY <1>1, <1>2 DEF Pushed

\* What a step of run_agent_session does to its replay buffer and its counter.
LEMMA SessionFrames ==
    ASSUME LinesKeepTheirNumbers, SendsInv, SessionNext
    PROVE  \/ Marked(serverPending, serverPending', nextServer, nextServer')
           \/ Pushed(serverPending, serverPending', nextServer, nextServer', ServerFrame,
                     ServerReplayFrames, ServerReplayBytes)
           \/ Freed(serverPending, serverPending', nextServer, nextServer', expectedServer)
<1> DEFINE Marks == Marked(serverPending, serverPending', nextServer, nextServer')
           Pushes == Pushed(serverPending, serverPending', nextServer, nextServer', ServerFrame,
                     ServerReplayFrames, ServerReplayBytes)
           Frees == Freed(serverPending, serverPending', nextServer, nextServer', expectedServer)
<1>1. ASSUME UNCHANGED <<serverPending, nextServer>> PROVE Marks
  BY <1>1 DEF Marked
<1>2. ASSUME UNCHANGED nextServer, NEW i \in 1 .. Len(serverPending), NEW s,
             serverPending' = [serverPending EXCEPT ![i].sentOn = s]
      PROVE  Marks
  <2>1. \A j \in 1 .. Len(serverPending) : serverPending[j] \in ServerFrame
    BY ServerBuffer, ElementOfSeq
  <2>2. Len(serverPending') = Len(serverPending)
    BY <1>2, ServerBuffer
  <2>3. \A j \in 1 .. Len(serverPending) :
          /\ serverPending'[j].sequence = serverPending[j].sequence
          /\ serverPending'[j].payload = serverPending[j].payload
    BY <1>2, <2>1, ServerBuffer DEF ServerFrame
  <2> QED BY <1>2, <2>2, <2>3 DEF Marked
<1>3. CASE PumpReplay
  BY <1>2, <1>3 DEF PumpReplay, Unsent
<1>4. CASE AttachEnqueues
  <2>1. CASE UNCHANGED serverPending
    BY <1>1, <1>4, <2>1 DEF AttachEnqueues
  <2>2. CASE ~(session.setupAt <= 1)
    <3>1. session.setupAt - 1 \in 1 .. Len(serverPending)
      BY <1>4, <2>2, ServerBuffer
      DEF AttachEnqueues, SetupLength, LinesKeepTheirNumbers, SessionInv, SessionState
    <3> QED BY <1>2, <1>4, <2>2, <3>1 DEF AttachEnqueues
  <2> QED BY <1>4, <2>1, <2>2 DEF AttachEnqueues
<1>5. CASE ReadAgent
  <2> DEFINE line == AgentOutput[agent.read + 1]
  <2>1. line \in Payloads
    <3>1. agent.read + 1 \in 1 .. Len(AgentOutput)
      <4>1. /\ agent.read \in Nat /\ agent.written \in Nat
            /\ agent.written <= Len(AgentOutput) /\ agent.read < agent.written
        BY <1>5 DEF ReadAgent, LinesKeepTheirNumbers, SessionInv
      <4>2. Len(AgentOutput) \in Nat
        BY SessionAssumption, LenProperties
      <4> QED BY <4>1, <4>2
    <3> QED BY <3>1, SessionAssumption, ElementOfSeq
  <2>2. CASE UNCHANGED <<serverPending, nextServer, outputs>>
    BY <1>1, <2>2
  <2>3. CASE ~(Size[line] > ServerFrameBytes) /\ QueueServerFrame(line)
    <3>1. Len(serverPending) < ServerReplayFrames
      BY <1>5 DEF ReadAgent, CanReadAgent, CanRead
    <3>2. Bytes(serverPending) <= IF ServerReplayBytes > ServerFrameBytes
                           THEN ServerReplayBytes - ServerFrameBytes ELSE 0
      BY <1>5 DEF ReadAgent, CanReadAgent, CanRead
    <3>3. /\ Size[line] \in Nat /\ Size[line] <= ServerFrameBytes
          /\ ServerFrameBytes \in Nat /\ ServerReplayBytes \in Nat
          /\ ServerReplayBytes >= ServerFrameBytes /\ Bytes(serverPending) \in Nat
      BY <2>1, <2>3, SessionAssumption, ServerBuffer DEF ValidLimits
    <3>4. Bytes(serverPending) + Size[line] <= ServerReplayBytes
      <4> HIDE DEF line
      <4> QED BY <3>2, <3>3
    <3> QED BY <2>1, <2>3, <3>1, <3>4, QueuePushes
  <2> QED BY <1>5, <2>2, <2>3 DEF ReadAgent
<1>6. CASE ReceiveEvent
  <2>1. CASE UNCHANGED frameVars
    BY <1>1, <2>1 DEF frameVars
  <2>2. CASE Head(events).kind = "envelope" /\ HandleClientEnvelope(Head(events).envelope)
    <3> DEFINE e == Head(events).envelope
    <3>1. e \in SessionReads /\ e \in Envelopes
      <4>1. Head(events) \in ReadEvents
        BY <1>6, HeadIn DEF ReceiveEvent, SendsInv, Carries
      <4> QED BY <2>2, <4>1 DEF ReadEvents, SessionReads, ConnectorSends
    <3> HIDE DEF e
    <3>2. CASE HandleAck(e)
      <4>1. PICK k \in 0 .. Len(serverPending) :
                   /\ Pops(serverPending, e.sequence, k)
                   /\ serverPending' = Popped(serverPending, k)
        BY <3>2 DEF HandleAck
      <4>2. e.sequence < expectedServer /\ e.sequence \in Nat /\ expectedServer \in Nat
        BY <3>1, <3>2, Expected
        DEF HandleAck, SessionReads, ConnectorSends, Envelopes, ControlTypes
      <4>3. \A i \in 1 .. Len(serverPending) : serverPending[i].sequence \in Nat
        <5>1. \A i \in 1 .. Len(serverPending) : serverPending[i] \in ServerFrame
          BY ElementOfSeq, ServerBuffer
        <5> QED BY <5>1 DEF ServerFrame
      <4>4. \A i \in 1 .. k : i \in 1 .. Len(serverPending)
        BY ServerBuffer
      <4>5. \A i \in 1 .. k : serverPending[i].sequence < expectedServer
        BY <4>1, <4>2, <4>3, <4>4 DEF Pops
      <4>6. nextServer' = nextServer
        BY <3>2 DEF HandleAck
      <4> QED BY <4>1, <4>5, <4>6 DEF Freed
    <3>3. CASE HandleAcp(e)
      <4>1. CASE UNCHANGED <<serverPending, nextServer>>
        BY <1>1, <4>1
      <4>2. CASE RejectLine(e) /\ QueueServerFrame(Apply[e.payload].line)
        <5>1. e.payload \in Payloads
          BY <3>1, <3>3 DEF HandleAcp, Envelopes, ControlTypes
        <5>2. Apply[e.payload] \in PolicyOutcome
          BY <5>1, SessionAssumption
        <5>3. Apply[e.payload].outcome = "reject"
          BY <4>2 DEF RejectLine
        <5>4. Apply[e.payload].line \in Payloads
          BY <5>2, <5>3 DEF PolicyOutcome
        <5>5. CASE Fits(serverPending, Apply[e.payload].line, ServerReplayFrames, ServerReplayBytes)
          BY <4>2, <5>4, <5>5, QueuePushes DEF Fits
        <5>6. CASE Only(EndLoop("replay_buffer_exhausted"))
          BY <1>1, <5>6 DEF Only, frameVars
        <5> QED BY <4>2, <5>5, <5>6 DEF RejectLine
      <4> QED
        BY <3>3, <4>1, <4>2
        DEF HandleAcp, ForwardLine, RejectLine, Only, Abandon, frameVars
    <3>4. CASE HandleControl(e) \/ Only(EndLoop(Violation(e)))
      BY <2>1, <3>4 DEF HandleControl, Only
    <3> QED BY <2>2, <3>2, <3>3, <3>4 DEF HandleClientEnvelope, e
  <2> QED BY <1>6, <2>1, <2>2 DEF ReceiveEvent, Only, Detach
<1>7. CASE UNCHANGED frameVars
  BY <1>1, <1>7 DEF frameVars
<1> QED
  BY <1>3, <1>4, <1>5, <1>6, <1>7
    DEF SessionNext, PumpFindsClosed, EnterSelect, SendExit, ExitConfirmed,
        ExitFails, ChildWait, TakeAttachment, AttachSucceeds,
        AttachFails, ServerShutdown, KeepaliveExpires, SendNoise, Wake,
        GraceExpires, SendReply, ReapAgent, ReapFails, SendFarewell, EndSession,
        Detach, Abandon

\* A buffer that reaches back to a number reaches back to a later one.
LEMMA ReachMore ==
    ASSUME NEW p, NEW n \in Nat, Len(p) \in Nat, NEW e \in Nat, NEW e2 \in Nat, e <= e2,
           Reaches(p, n, e)
    PROVE  Reaches(p, n, e2)
BY DEF Reaches

\* Both buffers reach far enough back and stay within their limits.
LEMMA BuffersKeep ==
    ASSUME LinesKeepTheirNumbers, LinesKeepTheirNumbers', SendsInv, Advances,
           RetainInv, ReplayBounded, [Next]_vars
    PROVE  RetainInv' /\ ReplayBounded'
<1>1. /\ expectedClient \in Nat /\ expectedServer \in Nat
      /\ nextClient \in Nat /\ nextServer \in Nat
      /\ clientPending \in Seq(PendingFrame) /\ serverPending \in Seq(ServerFrame)
      /\ \A y \in ServerFrame : Size[y.payload] \in Nat
      /\ \A y \in PendingFrame : Size[y.payload] \in Nat
      /\ ClientReplayFrames \in Nat /\ ClientReplayBytes \in Nat
      /\ ServerReplayFrames \in Nat /\ ServerReplayBytes \in Nat
  BY Expected, ServerBuffer, ConnectorAssumption, SessionAssumption
<1>2. /\ expectedClient' \in Nat /\ expectedServer' \in Nat
      /\ nextClient' \in Nat /\ nextServer' \in Nat
      /\ Len(clientPending') \in Nat /\ Len(serverPending') \in Nat
      /\ expectedClient <= expectedClient' /\ expectedServer <= expectedServer'
  <2>1. /\ expectedClient' \in Nat /\ expectedServer' \in Nat
        /\ nextClient' \in Nat /\ nextServer' \in Nat
        /\ Len(clientPending') \in Nat /\ Len(serverPending') \in Nat
    <3>0. RetainedInv' /\ QueueInv'
      BY DEF LinesKeepTheirNumbers
    <3>1. /\ clientPending' \in Seq(ClientFrames') /\ nextClient' \in Nat
      <4>1. Len(ClientInput) \in Nat
        BY ConnectorAssumption, LenProperties
      <4> QED BY <3>0, <4>1 DEF RetainedInv
    <3>3. serverPending' \in Seq(ServerFrames') /\ nextServer' \in Nat
      <4>1. outputs' \in Seq(Payloads) /\ nextServer' = Len(outputs') + 1
        BY <3>0 DEF QueueInv
      <4>2. Len(outputs') \in Nat
        BY <4>1, LenProperties
      <4> QED BY <3>0, <4>1, <4>2 DEF QueueInv
    <3>2. /\ expectedClient' \in Nat /\ expectedServer' \in Nat
      BY ConnectorAssumption, LenProperties
      DEF LinesKeepTheirNumbers, StdoutInv, HandledInv
    <3> QED BY <3>1, <3>2, <3>3, LenProperties
  <2> QED BY <2>1 DEF Advances
<1>3. \/ UNCHANGED <<clientPending, nextClient>>
      \/ Pushed(clientPending, clientPending', nextClient, nextClient', PendingFrame,
                     ClientReplayFrames, ClientReplayBytes)
      \/ Freed(clientPending, clientPending', nextClient, nextClient', expectedClient)
  BY ConnectorFrames
  DEF Next, ServerStep, NetworkStep, vars, clientVars, streamVars
<1>4. \/ Marked(serverPending, serverPending', nextServer, nextServer')
      \/ Pushed(serverPending, serverPending', nextServer, nextServer', ServerFrame,
                     ServerReplayFrames, ServerReplayBytes)
      \/ Freed(serverPending, serverPending', nextServer, nextServer', expectedServer)
  <2>1. CASE UNCHANGED <<serverPending, nextServer>>
    BY <2>1 DEF Marked
  <2>2. CASE SessionNext
    BY <2>2, SessionFrames
  <2>3. ASSUME NEW s \in Sockets, TaskNext(s) PROVE UNCHANGED frameVars
    BY <2>3 DEF TaskNext, TaskWrites, TaskFinishes, TaskBlocks, TaskWriteFails, TaskReads,
         TaskSeesEnd, TaskHandsOver, OrphanStops
  <2> QED
    BY <2>1, <2>2, <2>3
    DEF Next, ConnectorStep, ServerStep, ServerNext, NetworkStep, vars, serverVars, frameVars,
        AgentWrites, AgentExits, Cancel, AcceptResume
<1>5. Reaches(clientPending', nextClient', expectedClient)
  <2>1. CASE UNCHANGED <<clientPending, nextClient>>
    BY <2>1 DEF RetainInv
  <2>2. CASE Pushed(clientPending, clientPending', nextClient, nextClient', PendingFrame,
                     ClientReplayFrames, ClientReplayBytes)
    BY <1>1, <2>2, PushReaches DEF RetainInv
  <2>3. CASE Freed(clientPending, clientPending', nextClient, nextClient', expectedClient)
    BY <1>1, <2>3, FreeReaches DEF RetainInv
  <2> QED BY <1>3, <2>1, <2>2, <2>3
<1>6. Reaches(serverPending', nextServer', expectedServer)
  <2>1. CASE Marked(serverPending, serverPending', nextServer, nextServer')
    BY <2>1, MarkReaches DEF RetainInv
  <2>2. CASE Pushed(serverPending, serverPending', nextServer, nextServer', ServerFrame,
                     ServerReplayFrames, ServerReplayBytes)
    BY <1>1, <2>2, PushReaches DEF RetainInv
  <2>3. CASE Freed(serverPending, serverPending', nextServer, nextServer', expectedServer)
    BY <1>1, <2>3, FreeReaches DEF RetainInv
  <2> QED BY <1>4, <2>1, <2>2, <2>3
<1>7. RetainInv'
  <2>1. Reaches(clientPending', nextClient', expectedClient')
    BY <1>1, <1>2, <1>5, ReachMore
  <2>2. Reaches(serverPending', nextServer', expectedServer')
    BY <1>1, <1>2, <1>6, ReachMore
  <2> QED BY <2>1, <2>2 DEF RetainInv
<1>8. Within(clientPending', ClientReplayFrames, ClientReplayBytes)
  <2>0. Within(clientPending, ClientReplayFrames, ClientReplayBytes)
    BY DEF ReplayBounded, Within
  <2>1. CASE UNCHANGED <<clientPending, nextClient>>
    BY <2>0, <2>1
  <2>2. CASE Pushed(clientPending, clientPending', nextClient, nextClient', PendingFrame,
                     ClientReplayFrames, ClientReplayBytes)
    BY <1>1, <2>2, PushWithin
  <2>3. CASE Freed(clientPending, clientPending', nextClient, nextClient', expectedClient)
    BY <1>1, <2>0, <2>3, FreeWithin
  <2> QED BY <1>3, <2>1, <2>2, <2>3
<1>9. Within(serverPending', ServerReplayFrames, ServerReplayBytes)
  <2>0. Within(serverPending, ServerReplayFrames, ServerReplayBytes)
    BY DEF ReplayBounded, Within
  <2>1. CASE Marked(serverPending, serverPending', nextServer, nextServer')
    BY <1>1, <2>0, <2>1, MarkWithin
  <2>2. CASE Pushed(serverPending, serverPending', nextServer, nextServer', ServerFrame,
                     ServerReplayFrames, ServerReplayBytes)
    BY <1>1, <2>2, PushWithin
  <2>3. CASE Freed(serverPending, serverPending', nextServer, nextServer', expectedServer)
    BY <1>1, <2>0, <2>3, FreeWithin
  <2> QED BY <1>4, <2>1, <2>2, <2>3
<1>10. ReplayBounded'
  BY <1>8, <1>9 DEF ReplayBounded, Within
<1> QED BY <1>7, <1>10

\* Both replay buffers are empty at first.
LEMMA BuffersInit == Init => RetainInv /\ ReplayBounded
<1> SUFFICES ASSUME Init PROVE RetainInv /\ ReplayBounded
  OBVIOUS
<1> USE DEF Init, NetworkInit, ConnectorInit, SessionInit
<1>1. Len(<< >>) = 0
  OBVIOUS
<1>2. RetainInv
  BY <1>1 DEF RetainInv, Reaches, Run
<1>3. Bytes(<< >>) = 0
  <2>1. PICK f : Totals(f, << >>, Len(<< >>)) /\ Bytes(<< >>) = f[Len(<< >>)]
    BY <1>1, BytesTotals
  <2> QED BY <1>1, <2>1 DEF Totals
<1>4. ReplayBounded
  BY <1>1, <1>3, ConnectorAssumption, SessionAssumption DEF ReplayBounded
<1> QED BY <1>2, <1>4

HoldInv == SaidInv /\ RetainInv /\ ReplayBounded

\* In every reachable state both replay buffers are runs of numbers that reach
\* back to what the peer expects, within their limits of frames and bytes.
THEOREM BuffersHold == Spec => []HoldInv
<1>1. Init => HoldInv
  BY InitInv, SocketsInit, SendsInit, BuffersInit DEF HoldInv, SaidInv
<1>2. HoldInv /\ [Next]_vars => HoldInv'
  <2>1. HoldInv /\ [Next]_vars => LinesKeepTheirNumbers'
    BY NextInv DEF HoldInv, SaidInv
  <2>2. HoldInv /\ [Next]_vars => SocketInv' /\ OpenInv'
    BY SocketsKeep DEF HoldInv, SaidInv
  <2>3. HoldInv /\ [Next]_vars => SendsInv' /\ EndInv' /\ Advances
    BY <2>1, SendsKeep DEF HoldInv, SaidInv
  <2>4. HoldInv /\ [Next]_vars => RetainInv' /\ ReplayBounded'
    BY <2>1, <2>3, BuffersKeep DEF HoldInv, SaidInv
  <2> QED BY <2>1, <2>2, <2>3, <2>4 DEF HoldInv, SaidInv
<1> QED BY <1>1, <1>2, PTL DEF Spec

\* Neither side ever buffers more frames or bytes than its configured replay
\* limits: the guards on reading stdin (client.rs) and the agent (server.rs)
\* leave room for one whole frame.
THEOREM ReplayLimits == Spec => []ReplayBounded
<1>1. HoldInv => ReplayBounded
  BY DEF HoldInv
<1> QED BY <1>1, BuffersHold, PTL

\* The frame with number n is at its place from the end.
LEMMA RunHolds ==
    ASSUME NEW p, Len(p) \in Nat, NEW next \in Nat, NEW expected \in Nat,
           Reaches(p, next, expected), NEW n \in expected .. next - 1
    PROVE  \E i \in 1 .. Len(p) : p[i].sequence = n
<1> DEFINE i == n - next + Len(p) + 1
<1>1. i \in 1 .. Len(p) /\ next - Len(p) + i - 1 = n
  BY DEF Reaches
<1>2. p[i].sequence = n
  <2> HIDE DEF i
  <2> QED BY <1>1 DEF Reaches, Run
<1> QED BY <1>1, <1>2

\* Every line that the connector has numbered and the session does not yet
\* have is in the connector's replay buffer: an acknowledgement never frees a
\* line that a reconnect would have to replay.
THEOREM ConnectorKeepsLines == Spec => []ConnectorRetains
<1>1. HoldInv => ConnectorRetains
  <2> SUFFICES ASSUME HoldInv, NEW n \in expectedClient .. nextClient - 1
               PROVE  \E i \in 1 .. Len(clientPending) :
                        clientPending[i] = [sequence |-> n, payload |-> ClientInput[n]]
    BY DEF ConnectorRetains
  <2>1. LinesKeepTheirNumbers /\ RetainInv
    BY DEF HoldInv, SaidInv
  <2>2. PICK i \in 1 .. Len(clientPending) : clientPending[i].sequence = n
    BY <2>1, Expected, ServerBuffer, RunHolds DEF RetainInv
  <2>3. clientPending[i] \in ClientFrames
    BY <2>1, ElementOfSeq DEF LinesKeepTheirNumbers, RetainedInv
  <2>4. clientPending[i] = [sequence |-> n, payload |-> ClientInput[n]]
    BY <2>2, <2>3 DEF ClientFrames, PendingFrame
  <2> QED BY <2>4
<1> QED BY <1>1, BuffersHold, PTL

\* Every line that the session has numbered and the connector does not yet
\* have is in the session's replay buffer, with the payload it was given.
THEOREM SessionKeepsLines == Spec => []SessionRetains
<1>1. HoldInv => SessionRetains
  <2> SUFFICES ASSUME HoldInv, NEW n \in expectedServer .. nextServer - 1
               PROVE  \E i \in 1 .. Len(serverPending) :
                        /\ serverPending[i].sequence = n
                        /\ serverPending[i].payload = outputs[n]
    BY DEF SessionRetains
  <2>1. LinesKeepTheirNumbers /\ RetainInv
    BY DEF HoldInv, SaidInv
  <2>2. PICK i \in 1 .. Len(serverPending) : serverPending[i].sequence = n
    BY <2>1, Expected, ServerBuffer, RunHolds DEF RetainInv
  <2>3. serverPending[i] \in ServerFrames
    BY <2>1, ElementOfSeq DEF LinesKeepTheirNumbers, QueueInv
  <2> QED BY <2>2, <2>3 DEF ServerFrames
<1> QED BY <1>1, BuffersHold, PTL
-----------------------------------------------------------------------------
(* The session is one of SessionLife.                                      *)

\* A deadline only runs without a transport, a session that is over has no
\* entry, and only the early returns of run_agent_session leave an agent.
HolderInv ==
    /\ session.deadline => session.transport = NoSocket
    /\ session.pc = "ended" => ~session.registered
    /\ session.endCategory \in EarlyReturns => session.pc = "ended"

\* What a step of the session does to its life.
Remains == UNCHANGED <<agent.alive, ambient.cancelled>>
Stays ==
    /\ Remains /\ Phase' = Phase
    /\ UNCHANGED <<session.transport, session.attaching, session.registered,
                   session.deadline, session.endCategory, attachments>>
LosesSocket ==
    /\ Remains /\ Phase = "open" /\ Phase' = "open"
    /\ session.transport # NoSocket /\ session'.transport = NoSocket
    /\ session'.deadline = TRUE
    /\ UNCHANGED <<session.attaching, session.registered, session.endCategory,
                   attachments>>
MayEndBy(c) ==
    \/ /\ c \in EndCategories \ (EarlyReturns \cup {"none", "child_exit", "reconnect_timeout",
                                                   "server_shutdown"})
       /\ session.transport # NoSocket
    \/ c = "child_exit" /\ session.transport # NoSocket /\ ~agent.alive
    \/ c = "reconnect_timeout" /\ session.deadline
    \/ c = "server_shutdown" /\ ambient.cancelled
    \/ c = "agent_stdout_line"
EndsBy(c) ==
    /\ Remains /\ Phase = "open" /\ Phase' = "ending"
    /\ MayEndBy(c) /\ session'.endCategory = c
    /\ session'.registered = (session.registered /\ c # "client_shutdown")
    /\ UNCHANGED <<session.transport, session.attaching, session.deadline,
                   attachments>>
LeavesBy(c) ==
    /\ Remains /\ Phase' = "over" /\ session.attaching = NoSocket
    /\ \/ /\ Phase = "open" /\ session.transport # NoSocket
          /\ c \in {"policy_error", "stdin_error"}
       \/ Phase = "ending" /\ c = "reap_error"
       \/ Phase = "ending" /\ c = session.endCategory /\ ~agent.alive
    /\ session'.transport = NoSocket /\ ~session'.registered
    /\ ~session'.deadline /\ session'.endCategory = c
    /\ attachments' = << >> /\ UNCHANGED session.attaching

\* The phases by pc.
LEMMA PhaseIs ==
    ASSUME session \in SessionState(ServerEnvelopes)
    PROVE  /\ Phase = "ending" <=> session.pc \in {"reap", "farewell", "farewell_wait"}
           /\ Phase = "over" <=> session.pc = "ended"
           /\ Phase = "open" <=> session.pc \in {"top", "select", "reply", "attach",
                                                 "exit", "exit_wait"}
BY DEF Phase, SessionState, SessionPcs

\* handle_client_envelope goes on, ends the loop or leaves the session.
LEMMA HandlingLives ==
    ASSUME LinesKeepTheirNumbers, SocketInv, NEW e, HandleClientEnvelope(e),
           session.pc = "select", session.transport # NoSocket, UNCHANGED agentVars
    PROVE  Stays \/ (\E c : EndsBy(c)) \/ (\E c : LeavesBy(c))
<1>1. session \in SessionState(ServerEnvelopes) /\ session.attaching = NoSocket
  BY DEF LinesKeepTheirNumbers, SessionInv, SocketInv, TransportInv, SessionState
<1>2. Remains
  BY DEF Remains, agentVars
<1>3. Phase = "open"
  BY <1>1, PhaseIs
<1>4. ASSUME NEW c \in {"policy_error", "stdin_error"}, Abandon(c)
      PROVE  LeavesBy(c)
  BY <1>1, <1>2, <1>3, <1>4 DEF Abandon, Leave, LeavesBy, Phase, SessionState
<1>5. ASSUME NEW c, MayEndBy(c), c # "client_shutdown", Only(EndLoop(c))
      PROVE  EndsBy(c)
  BY <1>1, <1>2, <1>3, <1>5 DEF Only, EndLoop, EndsBy, Phase, SessionState
<1>6. ASSUME UNCHANGED attachments, \/ Proceed("top")
                                    \/ \E r : session' = [session EXCEPT !.pc = "reply", !.outbox = r]
      PROVE  Stays
  BY <1>1, <1>2, <1>3, <1>6 DEF Proceed, Stays, Phase, SessionState
<1>7. CASE Violation(e) # "none" /\ Only(EndLoop(Violation(e)))
  <2>1. Violation(e) \in {"oversized_acp_line", "client_sequence_gap",
                          "invalid_acknowledgement", "unexpected_acknowledgement",
                          "unexpected_envelope"}
    BY <1>7 DEF Violation
  <2>2. MayEndBy(Violation(e))
    BY <2>1 DEF MayEndBy, EndCategories, EarlyReturns
  <2> QED BY <1>5, <1>7, <2>1, <2>2
<1>8. CASE HandleAcp(e)
  <2>1. MayEndBy("replay_buffer_exhausted")
    BY DEF MayEndBy, EndCategories, EarlyReturns
  <2> QED
    BY <1>4, <1>5, <1>6, <1>8, <2>1
    DEF HandleAcp, ForwardLine, RejectLine, Accept, Reply
<1>9. CASE HandleAck(e)
  BY <1>6, <1>9 DEF HandleAck
<1>10. CASE HandleControl(e)
  <2>1. CASE Only(session' = [session EXCEPT !.pc = "reap",
                                             !.endCategory = "client_shutdown",
                                             !.registered = FALSE])
    <3>1. MayEndBy("client_shutdown")
      BY DEF MayEndBy, EndCategories, EarlyReturns
    <3>2. EndsBy("client_shutdown")
      BY <1>1, <1>2, <1>3, <2>1, <3>1 DEF Only, EndsBy, Phase, SessionState
    <3> QED BY <3>2
  <2> QED BY <1>6, <1>10, <2>1 DEF HandleControl, Only, Reply
<1> QED BY <1>7, <1>8, <1>9, <1>10 DEF HandleClientEnvelope

\* Every step of run_agent_session.
LEMMA SessionStepLives ==
    ASSUME LinesKeepTheirNumbers, SocketInv, StatusInv, SessionNext
    PROVE  \/ Stays \/ LosesSocket \/ (\E c : EndsBy(c)) \/ (\E c : LeavesBy(c))
           \/ TakeAttachment \/ AttachSucceeds \/ AttachFails \/ ReapAgent
<1>1. /\ session \in SessionState(ServerEnvelopes)
      /\ events \in Seq(ClientEvents) /\ NoSocket \notin Sockets
      /\ agent \in [alive : BOOLEAN, written : 0 .. Len(AgentOutput),
                    read : 0 .. Len(AgentOutput)]
  BY NetworkAssumption
  DEF LinesKeepTheirNumbers, SessionInv, ChannelInv, Sockets, NoSocket
<1>2. TransportInv
  BY DEF SocketInv
<1>3. ASSUME NEW pc \in {"top", "select"}, Detach(pc), session.transport # NoSocket,
             session.pc \in {"top", "select", "exit", "exit_wait"}, Remains
      PROVE  LosesSocket
  BY <1>1, <1>3 DEF Detach, LosesSocket, Phase, SessionState
<1>4. ASSUME NEW c, MayEndBy(c), c # "client_shutdown", EndLoop(c), Remains,
             session.pc \in {"select", "exit_wait"}, UNCHANGED attachments
      PROVE  EndsBy(c)
  BY <1>1, <1>4 DEF EndLoop, EndsBy, Phase, SessionState
<1>5. ASSUME NEW pc \in {"top", "select", "exit"}, Proceed(pc), Remains,
             session.pc \in {"top", "select"}, UNCHANGED attachments
      PROVE  Stays
  BY <1>1, <1>5 DEF Proceed, Stays, Phase, SessionState
<1>6. UNCHANGED agentVars => Remains
  BY DEF agentVars, Remains
<1>7. CASE ReceiveEvent
  <2>1. session.pc = "select" /\ events # << >> /\ Remains /\ UNCHANGED agentVars
    BY <1>6, <1>7 DEF ReceiveEvent
  <2>2. CASE Only(Proceed("top"))
    BY <1>5, <2>1, <2>2 DEF Only
  <2>3. CASE ~Stale(Head(events)) /\ Detach("top") /\ events' = Tail(events)
    <3>1. Head(events) \in ClientEvents
      BY <1>1, <2>1, HeadIn
    <3>2. session.transport # NoSocket
      BY <1>1, <2>3, <3>1 DEF Stale, ClientEvents, Event
    <3> QED BY <1>3, <2>1, <2>3, <3>2
  <2>4. CASE ~Stale(Head(events)) /\ HandleClientEnvelope(Head(events).envelope)
    <3>1. Head(events) \in ClientEvents
      BY <1>1, <2>1, HeadIn
    <3>2. session.transport # NoSocket
      BY <1>1, <2>4, <3>1 DEF Stale, ClientEvents, Event
    <3> QED BY <2>1, <2>4, <3>2, HandlingLives
  <2> QED BY <1>7, <2>2, <2>3, <2>4 DEF ReceiveEvent
<1>8. CASE PumpFindsClosed \/ KeepaliveExpires \/ ExitFails
  BY <1>2, <1>3, <1>6, <1>8
  DEF PumpFindsClosed, KeepaliveExpires, ExitFails, TransportInv
<1>9. CASE PumpReplay
  BY <1>6, <1>9 DEF PumpReplay, Stays, Phase
<1>10. CASE EnterSelect \/ Wake \/ SendNoise
  <2>1. CASE EnterSelect
    BY <1>5, <1>6, <2>1 DEF EnterSelect, channelVars
  <2>2. CASE Wake
    BY <1>5, <1>6, <2>2 DEF Wake, channelVars
  <2>3. CASE SendNoise
    <3>1. Remains
      BY <1>1, <2>3 DEF SendNoise, Remains, LinesKeepTheirNumbers, SessionInv
    <3> QED BY <1>5, <2>3, <3>1 DEF SendNoise
  <2> QED BY <1>10, <2>1, <2>2, <2>3
<1>11. CASE SendExit
  BY <1>1, <1>6, <1>11 DEF SendExit, Stays, Phase, SessionState
<1>12. CASE ExitConfirmed
  <2>1. MayEndBy("child_exit")
    BY <1>2, <1>12 DEF ExitConfirmed, MayEndBy, TransportInv, StatusInv
  <2> QED BY <1>4, <1>6, <1>12, <2>1 DEF ExitConfirmed, channelVars
<1>13. CASE ChildWait
  BY <1>1, <1>6, <1>13 DEF ChildWait, channelVars, Stays, Phase, SessionState
<1>14. CASE AttachEnqueues
  BY <1>1, <1>6, <1>14 DEF AttachEnqueues, Stays, Phase, SessionState
<1>15. CASE ServerShutdown
  BY <1>4, <1>6, <1>15 DEF ServerShutdown, channelVars, MayEndBy
<1>16. CASE GraceExpires
  BY <1>4, <1>6, <1>16 DEF GraceExpires, channelVars, MayEndBy
<1>17. CASE ReadAgent
  <2>1. Remains /\ UNCHANGED attachments /\ session.pc = "select"
    BY <1>1, <1>17 DEF ReadAgent, Remains, channelVars
  <2>2. MayEndBy("agent_stdout_line")
    BY DEF MayEndBy
  <2> QED BY <1>4, <1>5, <1>17, <2>1, <2>2 DEF ReadAgent
<1>18. CASE SendReply
  BY <1>1, <1>6, <1>18 DEF SendReply, Stays, Phase, SessionState
<1>19. CASE ReapFails
  <2>1. LeavesBy("reap_error")
    BY <1>1, <1>2, <1>6, <1>19
    DEF ReapFails, Abandon, Leave, LeavesBy, Phase, SessionState, TransportInv
  <2> QED BY <2>1
<1>20. CASE SendFarewell
  BY <1>1, <1>6, <1>20 DEF SendFarewell, Stays, Phase, SessionState
<1>21. CASE EndSession
  <2>1. ~agent.alive
    BY <1>21 DEF EndSession, StatusInv
  <2>2. LeavesBy(session.endCategory)
    BY <1>1, <1>2, <1>6, <1>21, <2>1
    DEF EndSession, Leave, LeavesBy, Phase, SessionState, TransportInv
  <2> QED BY <2>2
<1> QED
  BY <1>7, <1>8, <1>9, <1>10, <1>11, <1>12, <1>13, <1>14, <1>15, <1>16, <1>17,
     <1>18, <1>19, <1>20, <1>21 DEF SessionNext

\* What is around the session changes it in three ways.
LEMMA OutsideLives ==
    ASSUME LinesKeepTheirNumbers, SocketInv, [Next]_vars, ~SessionNext
    PROVE  \/ Stays
           \/ AgentExits \/ Cancel
           \/ \E s \in Sockets : AcceptResume(s)
<1>1. ASSUME UNCHANGED <<session, attachments, agent, ambient>> PROVE Stays
  BY <1>1 DEF Stays, Remains, Phase
<1>2. CASE UNCHANGED vars
  BY <1>1, <1>2 DEF vars, serverVars, channelVars, agentVars
<1>3. CASE ConnectorStep \/ NetworkStep
  BY <1>1, <1>3 DEF ConnectorStep, NetworkStep, serverVars, channelVars, agentVars
<1>4. ASSUME NEW s \in Sockets, TaskNext(s) PROVE Stays
  <2>1. \E x : session' = [session EXCEPT !.sent = x]
    BY <1>4, TaskMoves DEF SocketInv
  <2>2. UNCHANGED <<attachments, agent, ambient>>
    BY <1>4
    DEF TaskNext, TaskWrites, TaskFinishes, TaskBlocks, TaskWriteFails, TaskReads,
        TaskSeesEnd, TaskHandsOver, OrphanStops, agentVars
  <2>3. session \in SessionState(ServerEnvelopes)
    BY DEF LinesKeepTheirNumbers, SessionInv
  <2> QED BY <2>1, <2>2, <2>3 DEF Stays, Remains, Phase, SessionState
<1>5. CASE AgentWrites
  <2>1. agent'.alive = agent.alive
    BY <1>5 DEF AgentWrites, LinesKeepTheirNumbers, SessionInv
  <2> QED BY <1>5, <2>1 DEF AgentWrites, channelVars, Stays, Remains, Phase
<1> QED
  BY <1>2, <1>3, <1>4, <1>5 DEF Next, ServerStep, ServerNext

\* A step keeps the deadline, the entry and the category of the session.
LEMMA HolderKeeps ==
    ASSUME LinesKeepTheirNumbers, SocketInv, StatusInv, HolderInv, [Next]_vars
    PROVE  HolderInv'
<1>1. /\ session \in SessionState(ServerEnvelopes)
      /\ session' \in SessionState(ServerEnvelopes)'
  BY NextInv DEF LinesKeepTheirNumbers, SessionInv
<1>2. /\ Phase = "over" <=> session.pc = "ended"
      /\ Phase' = "over" <=> session'.pc = "ended"
  BY <1>1 DEF Phase, SessionState, SessionPcs
<1>3. CASE Stays
  BY <1>2, <1>3 DEF Stays, HolderInv
<1>4. CASE LosesSocket
  BY <1>2, <1>4 DEF LosesSocket, HolderInv
<1>5. ASSUME NEW c, EndsBy(c) PROVE HolderInv'
  <2>1. c \notin EarlyReturns
    BY <1>5 DEF EndsBy, MayEndBy, EndCategories, EarlyReturns
  <2> QED BY <1>2, <1>5, <2>1 DEF EndsBy, HolderInv
<1>6. ASSUME NEW c, LeavesBy(c) PROVE HolderInv'
  BY <1>2, <1>6 DEF LeavesBy, HolderInv
<1>7. CASE TakeAttachment \/ AttachSucceeds \/ AttachFails \/ ReapAgent
  <2>1. CASE TakeAttachment
    BY <1>1, <2>1 DEF TakeAttachment, HolderInv, SessionState
  <2>2. CASE AttachSucceeds
    BY <1>1, <2>2 DEF AttachSucceeds, HolderInv, SessionState
  <2>3. CASE AttachFails
    BY <1>1, <2>3 DEF AttachFails, AfterFailedAttach, HolderInv, SessionState
  <2>4. CASE ReapAgent
    BY <1>1, <2>4 DEF ReapAgent, HolderInv, SessionState
  <2> QED BY <1>7, <2>1, <2>2, <2>3, <2>4
<1>8. CASE UNCHANGED session
  BY <1>8 DEF HolderInv
<1>9. CASE AgentExits \/ Cancel \/ \E s \in Sockets : AcceptResume(s)
  BY <1>8, <1>9 DEF AgentExits, Cancel, AcceptResume
<1> QED
  BY <1>3, <1>4, <1>5, <1>6, <1>7, <1>9, SessionStepLives, OutsideLives

\* What SessionLife sees only depends on what Stays leaves alone.
LEMMA StaysSame == Stays => UNCHANGED Life!vars
BY DEF Stays, Remains, Waiting, AgentState, Reason, Life!vars

\* Every step is one of SessionLife.
LEMMA LifeSteps ==
    ASSUME LinesKeepTheirNumbers, LinesKeepTheirNumbers', SocketInv, StatusInv,
           HolderInv, HolderInv', [Next]_vars
    PROVE  [Life!Next]_(Life!vars)
<1>1. /\ session \in SessionState(ServerEnvelopes)
      /\ session' \in SessionState(ServerEnvelopes)'
      /\ attachments \in Seq(Sockets) /\ NoSocket \notin Sockets
      /\ agent \in [alive : BOOLEAN, written : 0 .. Len(AgentOutput),
                    read : 0 .. Len(AgentOutput)]
      /\ ambient \in [cancelled : BOOLEAN, noise : 0 .. MaxNoise]
  BY NetworkAssumption DEF LinesKeepTheirNumbers, SessionInv, Sockets, NoSocket
<1>2. /\ Phase = "ending" <=> session.pc \in {"reap", "farewell", "farewell_wait"}
      /\ Phase = "over" <=> session.pc = "ended"
      /\ Phase = "open" <=> session.pc \in {"top", "select", "reply", "attach",
                                            "exit", "exit_wait"}
  BY <1>1, PhaseIs
<1>3. CASE Stays
  BY <1>3, StaysSame
<1>4. CASE LosesSocket
  <2>1. Waiting' = Waiting /\ AgentState' = AgentState /\ Reason' = Reason
    BY <1>4 DEF LosesSocket, Remains, Waiting, AgentState, Reason
  <2>2. Life!Detach
    BY <1>4, <2>1 DEF LosesSocket, Remains, Life!Detach
  <2> QED BY <2>2 DEF Life!Next
<1>5. ASSUME NEW c, EndsBy(c) PROVE Life!End
  <2>1. Waiting' = Waiting
    BY <1>5 DEF EndsBy, Waiting
  <2>2. AgentState' = AgentState
    BY <1>2, <1>5 DEF EndsBy, MayEndBy, EndCategories, EarlyReturns, Remains, AgentState, HolderInv
  <2>3. Reason' = IF c \in {"child_exit", "server_shutdown", "client_shutdown",
                            "reconnect_timeout", "agent_stdout_line"}
                    THEN c ELSE "protocol"
    BY <1>5 DEF EndsBy, Reason
  <2>4. Life!MayEnd(Reason')
    BY <1>5, <2>3
    DEF EndsBy, MayEndBy, EndCategories, EarlyReturns, Life!MayEnd, AgentState, HolderInv
  <2>5. session'.registered = (session.registered /\ Reason' # "client_shutdown")
    BY <1>5, <2>3 DEF EndsBy
  <2> QED BY <1>5, <2>1, <2>2, <2>3, <2>4, <2>5 DEF EndsBy, Remains, Life!End
<1>6. ASSUME NEW c, LeavesBy(c) PROVE Life!Return \/ Life!Abandon
  <2>1. Waiting' = << >> /\ Reason' = "none"
    BY <1>6 DEF LeavesBy, Waiting, Reason
  <2>2. Life!Leaves
    BY <1>6, <2>1 DEF LeavesBy, Life!Leaves
  <2>3. ambient'.cancelled = ambient.cancelled /\ session'.registered = FALSE
    BY <1>1, <1>6 DEF LeavesBy, Remains, SessionState
  <2>4. CASE Phase = "ending" /\ ~agent.alive
    <3>1. AgentState' = "gone"
      BY <1>6, <2>4 DEF LeavesBy, Remains, AgentState
    <3> QED BY <2>2, <2>3, <2>4, <3>1 DEF Life!Return
  <2>5. CASE Phase \in {"open", "ending"} /\ (Phase = "open" => session.transport # NoSocket)
             /\ (c \in EarlyReturns \/ ~agent.alive)
    <3>1. AgentState' = IF AgentState = "running" THEN "orphaned" ELSE AgentState
      <4>1. agent'.alive = agent.alive /\ session'.endCategory = c
        BY <1>6 DEF LeavesBy, Remains
      <4> QED BY <2>5, <4>1 DEF AgentState
    <3> QED BY <2>2, <2>3, <2>5, <3>1 DEF Life!Abandon
  <2> QED BY <1>6, <2>4, <2>5 DEF LeavesBy, EarlyReturns
<1>7. CASE TakeAttachment
  <2> DEFINE s == Head(attachments)
  <2>1. s \in Sockets /\ attachments = <<s>> \o Tail(attachments)
    BY <1>1, <1>7 DEF TakeAttachment
  <2>2. /\ session'.attaching = s /\ session'.transport = NoSocket
        /\ session.pc = "select" /\ session'.pc = "attach"
        /\ attachments' = Tail(attachments)
        /\ UNCHANGED <<session.registered, session.deadline, session.endCategory,
                       agent, ambient>>
    BY <1>1, <1>7 DEF TakeAttachment, SessionState, agentVars
  <2>3. session.attaching = NoSocket
    BY <2>2 DEF SocketInv, TransportInv
  <2> HIDE DEF s
  <2>4. Waiting' = Waiting /\ Waiting # << >>
    BY <1>1, <1>7, <2>1, <2>2, <2>3 DEF Waiting, TakeAttachment
  <2>5. Phase = "open" /\ Phase' = "open"
    BY <2>2 DEF Phase
  <2>6. AgentState' = AgentState /\ Reason' = Reason
    BY <2>2, <2>5 DEF AgentState, Reason
  <2>7. CASE session.transport = NoSocket
    BY <2>2, <2>4, <2>5, <2>6, <2>7 DEF Life!vars
  <2>8. CASE session.transport # NoSocket
    <3>1. Life!LetGo
      BY <2>2, <2>4, <2>5, <2>6, <2>8 DEF Life!LetGo
    <3> QED BY <3>1 DEF Life!Next
  <2> QED BY <2>7, <2>8
<1>8. CASE AttachSucceeds \/ AttachFails
  <2>1. /\ session.pc = "attach" /\ session'.pc = "top"
        /\ session'.attaching = NoSocket
        /\ UNCHANGED <<session.registered, session.endCategory, agent, ambient,
                       attachments>>
        /\ \/ session'.transport = session.attaching /\ session'.deadline = FALSE
           \/ UNCHANGED <<session.transport, session.deadline>>
    <3>1. CASE AttachSucceeds
      BY <1>1, <3>1 DEF AttachSucceeds, SessionState, agentVars, channelVars
    <3>2. CASE AttachFails
      BY <1>1, <3>2
      DEF AttachFails, AfterFailedAttach, SessionState, agentVars, channelVars
    <3> QED BY <1>8, <3>1, <3>2
  <2>2. session.attaching # NoSocket /\ session.transport = NoSocket
    BY <2>1 DEF SocketInv, TransportInv
  <2>3. session.attaching \in Sockets
    BY <1>1, <2>2 DEF SessionState
  <2>4. /\ Waiting # << >> /\ Head(Waiting) = session.attaching
        /\ Waiting' = Tail(Waiting)
    BY <1>1, <2>1, <2>2, <2>3 DEF Waiting
  <2>5. Phase = "open" /\ Phase' = "open"
    BY <2>1 DEF Phase
  <2>6. AgentState' = AgentState /\ Reason' = Reason
    BY <2>1, <2>5 DEF AgentState, Reason
  <2>7. Life!Attach \/ Life!AttachFails
    BY <2>1, <2>2, <2>4, <2>5, <2>6 DEF Life!Attach, Life!AttachFails
  <2> QED BY <2>7 DEF Life!Next
<1>9. CASE ReapAgent
  <2>1. /\ session.pc = "reap" /\ session'.pc = "farewell" /\ ~agent'.alive
        /\ UNCHANGED <<session.transport, session.attaching, session.registered,
                       session.deadline, session.endCategory, attachments, ambient>>
    BY <1>1, <1>9 DEF ReapAgent, SessionState, channelVars
  <2>2. Phase = "ending" /\ Phase' = "ending"
    BY <2>1 DEF Phase
  <2>3. Waiting' = Waiting /\ Reason' = Reason /\ AgentState' = "gone"
    BY <2>1, <2>2 DEF Waiting, Reason, AgentState
  <2>4. AgentState \in {"gone", "running"}
    BY <2>1 DEF AgentState, HolderInv
  <2>5. Life!AgentEnds \/ UNCHANGED Life!vars
    BY <2>1, <2>2, <2>3, <2>4 DEF Life!AgentEnds, Life!vars
  <2> QED BY <2>5 DEF Life!Next
<1>10. CASE AgentExits
  <2>1. agent.alive /\ ~agent'.alive /\ UNCHANGED <<session, attachments, ambient>>
    BY <1>1, <1>10 DEF AgentExits, channelVars
  <2>2. /\ AgentState \in {"running", "orphaned"} /\ AgentState' = "gone"
        /\ Phase' = Phase /\ Waiting' = Waiting /\ Reason' = Reason
    BY <2>1 DEF AgentState, Phase, Waiting, Reason
  <2>3. Life!AgentEnds
    BY <2>1, <2>2 DEF Life!AgentEnds
  <2> QED BY <2>3 DEF Life!Next
<1>11. CASE Cancel
  <2>1. ambient'.cancelled = TRUE /\ UNCHANGED <<session, attachments, agent>>
    BY <1>1, <1>11 DEF Cancel, channelVars
  <2>2. /\ AgentState' = AgentState /\ Phase' = Phase
        /\ Waiting' = Waiting /\ Reason' = Reason
    BY <2>1 DEF AgentState, Phase, Waiting, Reason
  <2>3. Life!Cancel
    BY <2>1, <2>2 DEF Life!Cancel
  <2> QED BY <2>3 DEF Life!Next
<1>12. ASSUME NEW s \in Sockets, AcceptResume(s)
       PROVE  [Life!Next]_(Life!vars)
  <2>1. UNCHANGED <<session, agent, ambient>>
    BY <1>12 DEF AcceptResume, agentVars
  <2>2. AgentState' = AgentState /\ Phase' = Phase /\ Reason' = Reason
    BY <2>1 DEF AgentState, Phase, Reason
  <2>3. CASE UNCHANGED attachments
    <3>1. Stays
      BY <2>1, <2>2, <2>3 DEF Stays, Remains
    <3> QED BY <3>1, StaysSame
  <2>4. CASE session.registered /\ attachments' = Append(attachments, s)
    <3>1. Waiting' = Append(Waiting, s)
      <4>1. CASE session.attaching = NoSocket
        BY <2>1, <2>4, <4>1 DEF Waiting
      <4>2. CASE session.attaching # NoSocket
        <5>1. session.attaching \in Sockets
          BY <1>1, <4>2 DEF SessionState
        <5>2. <<session.attaching>> \o Append(attachments, s) =
                Append(<<session.attaching>> \o attachments, s)
          BY <1>1, <5>1
        <5> QED BY <2>1, <2>4, <4>2, <5>2 DEF Waiting
      <4> QED BY <4>1, <4>2
    <3>2. Phase \in {"open", "ending"}
      BY <1>1, <1>2, <2>4 DEF HolderInv, SessionState, SessionPcs
    <3>3. Life!Arrive
      BY <2>1, <2>2, <3>1, <3>2 DEF Life!Arrive
    <3> QED BY <3>3 DEF Life!Next
  <2> QED BY <1>12, <2>3, <2>4 DEF AcceptResume
<1>13. (\E c : EndsBy(c)) \/ (\E c : LeavesBy(c)) => Life!Next
  BY <1>5, <1>6 DEF Life!Next
<1> QED
  BY <1>3, <1>4, <1>7, <1>8, <1>9, <1>10, <1>11, <1>12, <1>13, SessionStepLives,
     OutsideLives

\* From the handshake on the session attaches, replaces and loses its sockets,
\* ends and reaps its agent as SessionLife allows, like any session of Registry.
THEOREM SessionIsALife == Spec => SessionLives
<1>1. Init => HolderInv /\ Life!Opened
  <2> SUFFICES ASSUME Init PROVE HolderInv /\ Life!Opened
    OBVIOUS
  <2>1. 1 \in Sockets /\ NoSocket \notin Sockets
    BY NetworkAssumption DEF Sockets, NoSocket
  <2> QED
    BY <2>1
    DEF Init, SessionInit, HolderInv, Life!Opened, Phase, Waiting, AgentState, Reason,
        EarlyReturns
<1>2. SaidInv => LinesKeepTheirNumbers /\ SocketInv /\ StatusInv
  BY DEF SaidInv, EndInv
<1>3. SaidInv /\ HolderInv /\ [Next]_vars => HolderInv'
  BY <1>2, HolderKeeps
<1>4. SaidInv /\ SaidInv' /\ HolderInv /\ HolderInv' /\ [Next]_vars =>
        [Life!Next]_(Life!vars)
  <2>1. SaidInv' => LinesKeepTheirNumbers'
    BY DEF SaidInv
  <2> QED BY <1>2, <2>1, LifeSteps
<1> QED BY <1>1, <1>3, <1>4, WhatIsSaid, PTL DEF Spec, SessionLives
=============================================================================
