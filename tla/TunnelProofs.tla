---------------------------- MODULE TunnelProofs ----------------------------
(***************************************************************************)
(* Proof that LinesKeepTheirNumbers, and with it TypeOK, is an invariant   *)
(* of Tunnel for every value of the constants.  The invariant is inductive *)
(* as it stands.  Lemmas about queues, streams and the sets of admissible  *)
(* envelopes come first; then one lemma per step that moves a line, and    *)
(* one lemma each for the connector, the network, the transport tasks and  *)
(* the session, with one case per action.                                  *)
(*                                                                         *)
(* The last part proves that both directions of the tunnel implement       *)
(* ReliablePipe, for any number of sockets and failures, any limits and    *)
(* any lines: the invariant ties what was delivered to a counter, so that  *)
(* it remains to see how a step moves the counters.                        *)
(***************************************************************************)
EXTENDS Tunnel, SequenceTheorems, TLAPS

\* Taking the first element of a queue.
LEMMA HeadIn ==
    ASSUME NEW S, NEW q \in Seq(S), q # << >>
    PROVE  Head(q) \in S /\ Tail(q) \in Seq(S)
BY HeadTailProperties

\* A stream that was cut short still holds what it held.
LEMMA PrefixIn ==
    ASSUME NEW S, NEW q \in Seq(S), NEW k \in 0 .. Len(q)
    PROVE  SubSeq(q, 1, k) \in Seq(S)
BY SubSeqProperties

\* So does a replay buffer from which frames were popped.
LEMMA SuffixIn ==
    ASSUME NEW S, NEW q \in Seq(S), NEW k \in 0 .. Len(q)
    PROVE  SubSeq(q, k + 1, Len(q)) \in Seq(S)
BY SubSeqProperties, LenProperties

\* Adding an element to a queue.
LEMMA AppendIn ==
    ASSUME NEW S, NEW q \in Seq(S), NEW x \in S
    PROVE  Append(q, x) \in Seq(S) /\ Append(q, x) # << >>
BY AppendProperties, EmptySeq

\* A queue of one element.
LEMMA SingletonIn ==
    ASSUME NEW S, NEW x \in S
    PROVE  <<x>> \in Seq(S) /\ <<x>> # << >>
OBVIOUS

\* A queue stays typed when the set of its elements grows.
LEMMA SeqGrows ==
    ASSUME NEW S, NEW T, S \subseteq T
    PROVE  Seq(S) \subseteq Seq(T)
BY SeqMonotonic

\* Only an ACP envelope has a payload, and its number is positive.
LEMMA AcpType ==
    ASSUME NEW e \in Envelopes, e.type = "acp"
    PROVE  e.sequence \in Nat \ {0} /\ e.payload \in Payloads
BY DEF Envelopes, ControlTypes

\* Reading further lines adds to what the connector can have sent.
LEMMA ClientGrows ==
    ASSUME nextClient \in Nat, nextClient' \in Nat, nextClient <= nextClient'
    PROVE  /\ ClientEnvelopes \subseteq ClientEnvelopes'
           /\ ClientFrames \subseteq ClientFrames'
           /\ ClientEvents \subseteq ClientEvents'
<1>1. ClientEnvelopes \subseteq ClientEnvelopes'
  BY AcpType DEF ClientEnvelopes
<1>2. ClientFrames \subseteq ClientFrames'
  BY DEF ClientFrames, PendingFrame
<1>3. ClientEvents \subseteq ClientEvents'
  BY <1>1 DEF ClientEvents
<1> QED BY <1>1, <1>2, <1>3

\* Queueing a line adds to what the session can have sent, and leaves
\* every earlier line in its place.
LEMMA ServerGrows ==
    ASSUME QueueInv, NEW p \in Payloads,
           nextServer' = nextServer + 1, outputs' = Append(outputs, p)
    PROVE  /\ ServerEnvelopes \subseteq ServerEnvelopes'
           /\ ServerFrames \subseteq ServerFrames'
           /\ outputs' \in Seq(Payloads)
           /\ nextServer' = Len(outputs') + 1
           /\ outputs'[nextServer] = p
           /\ \A n \in 1 .. nextServer - 1 : outputs'[n] = outputs[n]
<1>1. /\ outputs' \in Seq(Payloads)
      /\ nextServer' = Len(outputs') + 1
      /\ outputs'[nextServer] = p
      /\ \A n \in 1 .. nextServer - 1 : outputs'[n] = outputs[n]
  BY AppendProperties, LenProperties DEF QueueInv
<1>2. nextServer \in Nat
  BY LenProperties DEF QueueInv
<1>3. ServerEnvelopes \subseteq ServerEnvelopes'
  BY <1>1, <1>2, AcpType DEF ServerEnvelopes
<1>4. ServerFrames \subseteq ServerFrames'
  BY <1>1, <1>2 DEF ServerFrames, ServerFrame
<1> QED BY <1>1, <1>3, <1>4

\* Writing to a stream.
LEMMA TransmitIn ==
    ASSUME NEW S, NEW stream \in [Sockets -> Seq(S)], NEW s, NEW e \in S
    PROVE  Transmit(stream, s, e) \in [Sockets -> Seq(S)]
BY AppendIn DEF Transmit

\* Dropping the server's end of a socket keeps the streams well-formed.
LEMMA CloseServerEndIn ==
    ASSUME NetworkInv, NEW S, CloseServerEnd(S)
    PROVE  /\ c2s' \in [Sockets -> Seq(ClientEnvelopes)]
           /\ s2c' \in [Sockets -> Seq(ServerEnvelopes)]
           /\ up' \in [Sockets -> BOOLEAN]
<1>1. \A s \in Sockets, k \in Nat : k < Len(s2c[s]) => SubSeq(s2c[s], 1, k) \in Seq(ServerEnvelopes)
  BY PrefixIn, LenProperties DEF NetworkInv
<1>2. << >> \in Seq(ClientEnvelopes)
  OBVIOUS
<1> QED BY <1>1, <1>2, NetworkAssumption DEF NetworkInv, CloseServerEnd

\* So does dropping the connector's end.
LEMMA CloseClientEndIn ==
    ASSUME NetworkInv, NEW s, CloseClientEnd(s)
    PROVE  /\ c2s' \in [Sockets -> Seq(ClientEnvelopes)]
           /\ s2c' \in [Sockets -> Seq(ServerEnvelopes)]
           /\ up' \in [Sockets -> BOOLEAN]
<1>1. \A t \in Sockets, k \in Nat :
        k < Len(c2s[t]) => SubSeq(c2s[t], 1, k) \in Seq(ClientEnvelopes)
  BY PrefixIn, LenProperties DEF NetworkInv
<1>2. << >> \in Seq(ServerEnvelopes)
  OBVIOUS
<1> QED BY <1>1, <1>2, NetworkAssumption DEF NetworkInv, CloseClientEnd

\* Envelopes without a line may be sent at any time by either peer.
LEMMA ControlIn ==
    ASSUME NEW type \in ControlTypes
    PROVE  /\ Control(type) \in ClientEnvelopes
           /\ Control(type) \in ServerEnvelopes
BY DEF Control, ClientEnvelopes, ServerEnvelopes, Envelopes, ControlTypes

\* So may acknowledgements, as far as line numbers are concerned.
LEMMA AckIn ==
    ASSUME NEW stream \in Streams, NEW sequence \in Nat
    PROVE  /\ Ack(stream, sequence) \in ClientEnvelopes
           /\ Ack(stream, sequence) \in ServerEnvelopes
BY DEF Ack, ClientEnvelopes, ServerEnvelopes, Envelopes

\* What the connector replays is what it has read.
LEMMA ClientAcpIn ==
    ASSUME NEW frame \in ClientFrames
    PROVE  Acp(frame) \in ClientEnvelopes
BY DEF Acp, ClientEnvelopes, Envelopes, ClientFrames, PendingFrame

\* What the session replays is what it has queued.
LEMMA ServerAcpIn ==
    ASSUME NEW frame \in ServerFrames
    PROVE  Acp(frame) \in ServerEnvelopes
BY DEF Acp, ServerEnvelopes, Envelopes, ServerFrames, ServerFrame

\* The transport tasks that have not started, have just started or have
\* stopped.
LEMMA TaskConstants ==
    ASSUME NEW E, NEW V
    PROVE  /\ NoTask \in Task(E, V)
           /\ StartedTask \in Task(E, V)
           /\ StoppedTask \in Task(E, V)
<1>1. << >> \in Seq(E) /\ << >> \in Seq(V)
  OBVIOUS
<1>2. NoTask \in Task(E, V)
  BY <1>1 DEF NoTask, Task
<1>3. StartedTask \in Task(E, V) /\ StoppedTask \in Task(E, V)
  BY <1>2 DEF StartedTask, StoppedTask, Task
<1> QED BY <1>2, <1>3

\* The invariant holds when the initial handshake is over.
LEMMA InitInv == Init => LinesKeepTheirNumbers
<1> SUFFICES ASSUME Init PROVE LinesKeepTheirNumbers
  OBVIOUS
<1> USE DEF Init, NetworkInit, ConnectorInit, SessionInit
<1>0. 1 \in Sockets /\ NoSocket \notin Sockets
  BY NetworkAssumption DEF Sockets, NoSocket
<1>1. NetworkInv
  BY NetworkAssumption DEF NetworkInv
<1>2. ConnectorInv
  BY <1>0, ConnectorAssumption, LenProperties
  DEF ConnectorInv, ClientState, ClientPcs, Results
<1>8. RetainedInv
  BY ConnectorAssumption, LenProperties DEF RetainedInv
<1>3. StdoutInv
  BY DEF StdoutInv
<1>4. SessionInv
  BY <1>0, SessionAssumption, LenProperties
  DEF SessionInv, SessionState, SessionPcs, EndCategories
<1>5. ChannelInv
  BY TaskConstants DEF ChannelInv
<1>6. QueueInv
  BY DEF QueueInv
<1>7. HandledInv
  BY DEF HandledInv
<1> QED BY <1>1, <1>2, <1>3, <1>4, <1>5, <1>6, <1>7, <1>8 DEF LinesKeepTheirNumbers

-----------------------------------------------------------------------------
(* Steps of the connector.                                                 *)

\* A step of the connector keeps the session's part of the invariant.
LEMMA ServerKeeps ==
    ASSUME LinesKeepTheirNumbers, UNCHANGED serverVars,
           nextClient' \in Nat, nextClient <= nextClient'
    PROVE  SessionInv' /\ ChannelInv' /\ QueueInv' /\ HandledInv'
<1> USE DEF serverVars, channelVars, frameVars, agentVars
<1>1. nextClient \in Nat
  BY ConnectorAssumption, LenProperties DEF LinesKeepTheirNumbers, RetainedInv
<1>2. Seq(ClientEvents) \subseteq Seq(ClientEvents')
  BY <1>1, ClientGrows, SeqGrows
<1>3. ServerEnvelopes' = ServerEnvelopes /\ ServerFrames' = ServerFrames
  BY DEF ServerEnvelopes, ServerFrames
<1>4. SessionInv'
  BY <1>3 DEF LinesKeepTheirNumbers, SessionInv, SessionState
<1>5. ChannelInv'
  BY <1>2, <1>3 DEF LinesKeepTheirNumbers, ChannelInv, Task
<1>6. QueueInv'
  BY <1>3 DEF LinesKeepTheirNumbers, QueueInv
<1>7. HandledInv'
  BY <1>1 DEF LinesKeepTheirNumbers, HandledInv
<1> QED BY <1>4, <1>5, <1>6, <1>7

\* A step that moves no line keeps the connector's part about lines.
LEMMA StreamsKeep ==
    ASSUME LinesKeepTheirNumbers, UNCHANGED streamVars,
           UNCHANGED <<nextServer, outputs>>
    PROVE  /\ RetainedInv' /\ StdoutInv'
           /\ ClientEnvelopes' = ClientEnvelopes
           /\ ServerEnvelopes' = ServerEnvelopes
<1> USE DEF streamVars
<1>1. /\ ClientEnvelopes' = ClientEnvelopes
      /\ ServerEnvelopes' = ServerEnvelopes
      /\ ClientFrames' = ClientFrames
  BY DEF ClientEnvelopes, ServerEnvelopes, ClientFrames
<1>2. RetainedInv'
  BY <1>1 DEF LinesKeepTheirNumbers, RetainedInv
<1>3. StdoutInv'
  BY DEF LinesKeepTheirNumbers, StdoutInv
<1> QED BY <1>1, <1>2, <1>3

\* The connector returns.
LEMMA ReturnIn ==
    ASSUME LinesKeepTheirNumbers, NEW r \in Results, Return(r),
           ClientEnvelopes' = ClientEnvelopes,
           ServerEnvelopes' = ServerEnvelopes
    PROVE  NetworkInv' /\ ConnectorInv'
<1> USE DEF LinesKeepTheirNumbers, Return
<1>1. NetworkInv'
  BY CloseClientEndIn DEF NetworkInv
<1>2. << >> \in Seq(ClientEnvelopes)
  OBVIOUS
<1>3. client' \in ClientState(ClientEnvelopes)
  BY <1>2 DEF ConnectorInv, ClientState, ClientPcs
<1>4. ConnectorInv'
  BY <1>3 DEF ConnectorInv, ClientState
<1> QED BY <1>1, <1>4

\* The connector gives up its socket.
LEMMA RedialIn ==
    ASSUME LinesKeepTheirNumbers, Redial, faults' \in 0 .. MaxFaults,
           ClientEnvelopes' = ClientEnvelopes,
           ServerEnvelopes' = ServerEnvelopes
    PROVE  NetworkInv' /\ ConnectorInv'
<1> USE DEF LinesKeepTheirNumbers, Redial
<1>1. NetworkInv'
  BY CloseClientEndIn DEF NetworkInv
<1>2. << >> \in Seq(ClientEnvelopes)
  OBVIOUS
<1>3. client' \in ClientState(ClientEnvelopes)
  BY <1>2 DEF ConnectorInv, ClientState, ClientPcs
<1>4. ConnectorInv'
  BY <1>3 DEF ConnectorInv, ClientState
<1> QED BY <1>1, <1>4

\* The connector writes an envelope it may send.
LEMMA PutIn ==
    ASSUME LinesKeepTheirNumbers, NEW e \in ClientEnvelopes, Put(e),
           ClientEnvelopes' = ClientEnvelopes,
           ServerEnvelopes' = ServerEnvelopes
    PROVE  NetworkInv'
BY TransmitIn DEF LinesKeepTheirNumbers, Put, NetworkInv

\* The connector takes a message off its socket.
LEMMA ConsumeIn ==
    ASSUME LinesKeepTheirNumbers, HasIncoming, Consume,
           ClientEnvelopes' = ClientEnvelopes,
           ServerEnvelopes' = ServerEnvelopes
    PROVE  NetworkInv'
<1>1. client.socket \in Sockets
  BY DEF LinesKeepTheirNumbers, ConnectorInv, ClientState, HasIncoming
<1>2. Tail(s2c[client.socket]) \in Seq(ServerEnvelopes)
  BY <1>1, HeadIn DEF LinesKeepTheirNumbers, NetworkInv, HasIncoming, Arrives
<1> QED BY <1>1, <1>2 DEF LinesKeepTheirNumbers, NetworkInv, Consume

\* The connector starts to send an envelope.
LEMMA SendIn ==
    ASSUME LinesKeepTheirNumbers, NEW e \in ClientEnvelopes', Send(e),
           ClientEnvelopes \subseteq ClientEnvelopes'
    PROVE  ConnectorInv'
<1>1. <<e>> \in Seq(ClientEnvelopes') /\ <<e>> # << >>
  BY SingletonIn
<1> QED BY <1>1 DEF LinesKeepTheirNumbers, ConnectorInv, ClientState, ClientPcs, Send

\* The connector goes on to another await point.
LEMMA ContinueIn ==
    ASSUME LinesKeepTheirNumbers, NEW pc \in ClientPcs \ {"send", "replay"},
           Continue(pc), ClientEnvelopes' = ClientEnvelopes
    PROVE  ConnectorInv'
BY DEF LinesKeepTheirNumbers, ConnectorInv, ClientState, Continue

\* ReadStdin is the one step that makes nextClient grow.
LEMMA ReadStdinInv ==
    ASSUME LinesKeepTheirNumbers, ReadStdin, UNCHANGED serverVars
    PROVE  LinesKeepTheirNumbers'
<1> DEFINE line == ClientInput[nextClient]
           frame == [sequence |-> nextClient, payload |-> line]
<1> USE DEF LinesKeepTheirNumbers
<1>1. /\ UNCHANGED <<nextServer, outputs>>
      /\ ServerEnvelopes' = ServerEnvelopes
  BY DEF serverVars, frameVars, ServerEnvelopes
<1>2. nextClient \in Nat \ {0} /\ nextClient <= Len(ClientInput)
  BY ConnectorAssumption, LenProperties DEF RetainedInv, ReadStdin
<1>3. line \in Payloads
  BY <1>2, ConnectorAssumption, ElementOfSeq
<1>4. CASE Return("error") /\ UNCHANGED streamVars
  <2>1. RetainedInv' /\ StdoutInv' /\ ClientEnvelopes' = ClientEnvelopes
    BY <1>4, <1>1, StreamsKeep
  <2>2. NetworkInv' /\ ConnectorInv'
    BY <1>4, <1>1, <2>1, ReturnIn DEF Results
  <2>3. nextClient' = nextClient
    BY <1>4 DEF streamVars
  <2> QED BY <1>2, <2>1, <2>2, <2>3, ServerKeeps
<1>5. CASE /\ clientPending' = Append(clientPending, frame)
           /\ nextClient' = nextClient + 1
           /\ Send(Acp(frame))
           /\ UNCHANGED <<expectedServer, stdout, networkVars>>
  <2>1. nextClient' \in Nat /\ nextClient <= nextClient'
    BY <1>5, <1>2
  <2>2. /\ ClientEnvelopes \subseteq ClientEnvelopes'
        /\ ClientFrames \subseteq ClientFrames'
    BY <1>2, <2>1, ClientGrows
  <2>3. frame \in ClientFrames'
    BY <1>5, <1>2, <1>3 DEF ClientFrames, PendingFrame
  <2>4. Acp(frame) \in ClientEnvelopes'
    BY <2>3, <1>2, <1>3, <1>5
    DEF Acp, ClientEnvelopes, Envelopes, ClientFrames, PendingFrame
  <2>5. NetworkInv'
    BY <1>5, <1>1, <2>2, SeqGrows DEF NetworkInv, networkVars
  <2>6. ConnectorInv'
    BY <1>5, <2>2, <2>4, SendIn
  <2>7. clientPending' \in Seq(ClientFrames')
    <3>1. clientPending \in Seq(ClientFrames')
      BY <2>2, SeqGrows DEF RetainedInv
    <3> QED BY <3>1, <2>3, <1>5, AppendIn
  <2>8. RetainedInv'
    BY <2>7, <1>5, <1>2, ConnectorAssumption, LenProperties DEF RetainedInv
  <2>9. StdoutInv'
    BY <1>5, <1>1 DEF StdoutInv
  <2> QED BY <2>1, <2>5, <2>6, <2>8, <2>9, ServerKeeps
<1> QED BY <1>4, <1>5 DEF ReadStdin

\* A step that leaves the streams alone and keeps the network and the control
\* state of the connector well-formed keeps the whole invariant.
LEMMA ControlStep ==
    ASSUME LinesKeepTheirNumbers, UNCHANGED streamVars, UNCHANGED serverVars,
           NetworkInv', ConnectorInv'
    PROVE  LinesKeepTheirNumbers'
<1>1. UNCHANGED <<nextServer, outputs>> /\ nextClient' = nextClient
  BY DEF serverVars, frameVars, streamVars
<1>2. nextClient \in Nat
  BY ConnectorAssumption, LenProperties DEF LinesKeepTheirNumbers, RetainedInv
<1> QED BY <1>1, <1>2, StreamsKeep, ServerKeeps DEF LinesKeepTheirNumbers

\* A line from the server is written to stdout when it is the next one.
LEMMA ReceiveAcpInv ==
    ASSUME LinesKeepTheirNumbers, HasIncoming, UNCHANGED serverVars,
           ReceiveAcp(Incoming)
    PROVE  LinesKeepTheirNumbers'
<1> DEFINE e == Incoming
<1> USE DEF LinesKeepTheirNumbers
<1>1. /\ UNCHANGED <<nextServer, outputs>>
      /\ ServerEnvelopes' = ServerEnvelopes
  BY DEF serverVars, frameVars, ServerEnvelopes
<1>2. e \in ServerEnvelopes
  <2>1. client.socket \in Sockets
    BY DEF ConnectorInv, ClientState, HasIncoming
  <2> QED BY <2>1, HeadIn DEF NetworkInv, HasIncoming, Arrives, Incoming
<1>3. /\ e.sequence \in Nat \ {0}
      /\ e.sequence < nextServer
      /\ e.payload = outputs[e.sequence]
  BY <1>2, AcpType DEF ServerEnvelopes, ReceiveAcp
<1>4. nextServer \in Nat /\ expectedServer \in Nat \ {0}
  BY LenProperties DEF QueueInv, StdoutInv
<1>5. CASE Return("protocol") /\ UNCHANGED streamVars
  <2>1. ClientEnvelopes' = ClientEnvelopes
    BY <1>5, <1>1, StreamsKeep
  <2> QED BY <1>5, <1>1, <2>1, ReturnIn, ControlStep DEF Results
<1>6. CASE /\ e.sequence <= expectedServer
           /\ stdout' = IF ExpectedAfter(e.sequence) > expectedServer
                          THEN Append(stdout, e.payload) ELSE stdout
           /\ expectedServer' = ExpectedAfter(e.sequence)
           /\ Send(Ack("server_to_client", ExpectedAfter(e.sequence) - 1))
           /\ Consume
           /\ UNCHANGED <<clientPending, nextClient>>
  <2>1. ClientEnvelopes' = ClientEnvelopes /\ ClientFrames' = ClientFrames
    BY <1>6 DEF ClientEnvelopes, ClientFrames
  <2>2. NetworkInv'
    BY <1>1, <1>6, <2>1, ConsumeIn
  <2>3. ExpectedAfter(e.sequence) - 1 \in Nat
    BY <1>4 DEF ExpectedAfter
  <2>4. ConnectorInv'
    <3>1. Ack("server_to_client", ExpectedAfter(e.sequence) - 1)
            \in ClientEnvelopes'
      BY <2>3, <2>1, AckIn DEF Streams
    <3> QED BY <3>1, <2>1, <1>6, SendIn
  <2>5. RetainedInv'
    BY <1>6, <2>1 DEF RetainedInv
  <2>6. StdoutInv'
    <3>1. CASE e.sequence = expectedServer
      <4>1. expectedServer' = expectedServer + 1
        BY <3>1, <1>6 DEF ExpectedAfter
      <4>2. stdout' = Append(stdout, outputs[expectedServer])
        BY <3>1, <1>3, <1>4, <1>6 DEF ExpectedAfter
      <4>3. stdout' = [n \in 1 .. expectedServer |-> outputs[n]]
        BY <4>2, <1>4 DEF StdoutInv
      <4> QED BY <4>1, <4>3, <1>1, <1>3, <1>4, <3>1 DEF StdoutInv
    <3>2. CASE e.sequence < expectedServer
      <4>1. expectedServer' = expectedServer /\ stdout' = stdout
        BY <3>2, <1>6, <1>3, <1>4 DEF ExpectedAfter
      <4> QED BY <4>1, <1>1 DEF StdoutInv
    <3> QED BY <3>1, <3>2, <1>6, <1>3, <1>4
  <2>7. SessionInv' /\ ChannelInv' /\ QueueInv' /\ HandledInv'
    <3>1. nextClient \in Nat
      BY ConnectorAssumption, LenProperties DEF RetainedInv
    <3> QED BY <3>1, <1>6, ServerKeeps
  <2> QED BY <2>2, <2>4, <2>5, <2>6, <2>7
<1> QED BY <1>3, <1>4, <1>5, <1>6 DEF ReceiveAcp

\* An acknowledgement only shortens the connector's replay buffer.
LEMMA ReceiveAckInv ==
    ASSUME LinesKeepTheirNumbers, HasIncoming, UNCHANGED serverVars,
           ReceiveAck(Incoming)
    PROVE  LinesKeepTheirNumbers'
<1> USE DEF LinesKeepTheirNumbers
<1>1. /\ UNCHANGED <<nextServer, outputs>>
      /\ ServerEnvelopes' = ServerEnvelopes
  BY DEF serverVars, frameVars, ServerEnvelopes
<1>2. CASE Return("protocol") /\ UNCHANGED streamVars
  <2>1. ClientEnvelopes' = ClientEnvelopes
    BY <1>2, <1>1, StreamsKeep
  <2> QED BY <1>2, <1>1, <2>1, ReturnIn, ControlStep DEF Results
<1>3. CASE /\ \E k \in 0 .. Len(clientPending) :
                /\ Pops(clientPending, Incoming.sequence, k)
                /\ clientPending' = Popped(clientPending, k)
           /\ Continue("select")
           /\ Consume
           /\ UNCHANGED <<nextClient, expectedServer, stdout>>
  <2>1. ClientEnvelopes' = ClientEnvelopes /\ ClientFrames' = ClientFrames
    BY <1>3 DEF ClientEnvelopes, ClientFrames
  <2>2. NetworkInv' /\ ConnectorInv'
    BY <1>1, <1>3, <2>1, ConsumeIn, ContinueIn DEF ClientPcs
  <2>3. RetainedInv'
    BY <1>3, <2>1, SuffixIn DEF RetainedInv, Popped
  <2>4. StdoutInv'
    BY <1>1, <1>3 DEF StdoutInv
  <2>5. nextClient \in Nat
    BY ConnectorAssumption, LenProperties DEF RetainedInv
  <2> QED BY <2>2, <2>3, <2>4, <2>5, <1>3, ServerKeeps
<1> QED BY <1>2, <1>3 DEF ReceiveAck

\* Every step of the connector keeps the invariant.
LEMMA ConnectorStepInv ==
    ASSUME LinesKeepTheirNumbers, ConnectorStep
    PROVE  LinesKeepTheirNumbers'
<1> USE DEF LinesKeepTheirNumbers
<1>1. UNCHANGED serverVars /\ UNCHANGED <<nextServer, outputs>>
  BY DEF ConnectorStep, serverVars, frameVars
<1>2. CASE ReadStdin
  BY <1>1, <1>2, ReadStdinInv
<1>3. CASE Receive /\ (ReceiveAcp(Incoming) \/ ReceiveAck(Incoming))
  BY <1>1, <1>3, ReceiveAcpInv, ReceiveAckInv DEF Receive
<1>4. ASSUME UNCHANGED streamVars
      PROVE  /\ ClientEnvelopes' = ClientEnvelopes
             /\ ServerEnvelopes' = ServerEnvelopes
  BY <1>1, <1>4, StreamsKeep
<1>5. ASSUME UNCHANGED streamVars, NetworkInv', ConnectorInv'
      PROVE  LinesKeepTheirNumbers'
  BY <1>1, <1>5, ControlStep
<1>6. ASSUME UNCHANGED streamVars, NEW r \in Results, Return(r)
      PROVE  LinesKeepTheirNumbers'
  BY <1>4, <1>5, <1>6, ReturnIn
<1>7. ASSUME UNCHANGED streamVars, Redial, faults' \in 0 .. MaxFaults
      PROVE  LinesKeepTheirNumbers'
  BY <1>4, <1>5, <1>7, RedialIn
<1>8. faults \in 0 .. MaxFaults
  BY DEF NetworkInv
<1>9. CASE Receive /\ ReceiveControl(Incoming)
  <2>1. UNCHANGED streamVars /\ HasIncoming
    BY <1>9 DEF Receive, ReceiveControl
  <2>2. CASE Send(Control("pong")) /\ Consume
    <3>1. Control("pong") \in ClientEnvelopes'
      BY <1>4, <2>1, ControlIn DEF ControlTypes
    <3> QED BY <1>4, <1>5, <2>1, <2>2, <3>1, SendIn, ConsumeIn
  <2>3. CASE Continue("select") /\ Consume
    BY <1>4, <1>5, <2>1, <2>3, ContinueIn, ConsumeIn DEF ClientPcs
  <2>4. CASE \E r \in Results : Return(r)
    BY <1>6, <2>1, <2>4
  <2> QED BY <1>9, <2>2, <2>3, <2>4 DEF ReceiveControl, Results
<1>10. CASE StartShutdown
  <2>1. ConnectorInv'
    BY <1>10, <1>4 DEF StartShutdown, ConnectorInv, ClientState, ClientPcs
  <2>2. NetworkInv'
    BY <1>10, <1>4 DEF StartShutdown, NetworkInv, networkVars
  <2> QED BY <1>5, <1>10, <2>1, <2>2 DEF StartShutdown
<1>11. CASE WriteOutgoing
  <2>1. Head(client.outgoing) \in ClientEnvelopes
    BY <1>11, HeadIn DEF WriteOutgoing, ConnectorInv, ClientState
  <2>2. NetworkInv'
    BY <1>11, <1>4, <2>1, PutIn DEF WriteOutgoing
  <2>3. << >> \in Seq(ClientEnvelopes)
    OBVIOUS
  <2>4. ConnectorInv'
    BY <1>11, <1>4, <2>3 DEF WriteOutgoing, ConnectorInv, ClientState, ClientPcs
  <2> QED BY <1>5, <1>11, <2>2, <2>4 DEF WriteOutgoing
<1>12. CASE LoseSocket
  BY <1>7, <1>8, <1>12 DEF LoseSocket
<1>13. CASE KeepaliveTimeout
  <2>1. faults' \in 0 .. MaxFaults
    BY <1>8, <1>13, NetworkAssumption DEF KeepaliveTimeout
  <2> QED BY <1>7, <1>13, <2>1 DEF KeepaliveTimeout
<1>14. CASE Dial
  <2> DEFINE s == client.dialled + 1
  <2>1. s \in Sockets
    BY <1>14, NetworkAssumption DEF Dial, ConnectorInv, ClientState, Sockets
  <2>2. ConnectorInv'
    BY <1>4, <1>14, <2>1 DEF Dial, ConnectorInv, ClientState, ClientPcs
  <2>3. <<Control("open")>> \in Seq(ClientEnvelopes)
    BY ControlIn, SingletonIn DEF ControlTypes
  <2>4. NetworkInv'
    BY <1>4, <1>14, <2>1, <2>3 DEF Dial, NetworkInv
  <2> QED BY <1>5, <1>14, <2>2, <2>4 DEF Dial
<1>15. CASE ReceiveReady
  <2>1. CASE Redial /\ UNCHANGED faults
    BY <1>7, <1>8, <1>15, <2>1 DEF ReceiveReady
  <2>2. CASE /\ client' = [client EXCEPT
                             !.pc = IF client.closing THEN "send_shutdown"
                                                      ELSE "replay",
                             !.replayAt = ReplayFrom]
             /\ Consume
    <3>1. ReplayFrom \in Nat /\ (~client.closing => ReplayFrom > 0)
      BY DEF ReplayFrom
    <3>2. ConnectorInv'
      BY <1>4, <1>15, <2>2, <3>1
      DEF ReceiveReady, ConnectorInv, ClientState, ClientPcs
    <3> QED BY <1>4, <1>5, <1>15, <2>2, <3>2, ConsumeIn DEF ReceiveReady
  <2> QED BY <1>15, <2>1, <2>2 DEF ReceiveReady
<1>16. CASE AbandonAttempt
  BY <1>7, <1>8, <1>16 DEF AbandonAttempt
<1>17. CASE ShutdownWhileDetached
  <2>1. NetworkInv'
    BY <1>4, <1>17, CloseClientEndIn DEF ShutdownWhileDetached, NetworkInv
  <2>2. ConnectorInv'
    BY <1>4, <1>17
    DEF ShutdownWhileDetached, ConnectorInv, ClientState, ClientPcs
  <2> QED BY <1>5, <1>17, <2>1, <2>2 DEF ShutdownWhileDetached
<1>18. CASE ReplayFrame
  <2>1. client.replayAt \in 1 .. Len(clientPending)
    BY <1>18, LenProperties
    DEF ReplayFrame, ConnectorInv, ClientState, RetainedInv
  <2>2. Acp(clientPending[client.replayAt]) \in ClientEnvelopes
    BY <2>1, ElementOfSeq, ClientAcpIn DEF RetainedInv
  <2>3. NetworkInv'
    BY <1>4, <1>18, <2>2, PutIn DEF ReplayFrame
  <2>4. ConnectorInv'
    BY <1>4, <1>18, <2>1 DEF ReplayFrame, ConnectorInv, ClientState
  <2> QED BY <1>5, <1>18, <2>3, <2>4 DEF ReplayFrame
<1>19. CASE FinishReplay
  <2>1. ConnectorInv'
    BY <1>19, <1>4 DEF FinishReplay, ConnectorInv, ClientState, ClientPcs
  <2>2. NetworkInv'
    BY <1>19, <1>4 DEF FinishReplay, NetworkInv, networkVars
  <2> QED BY <1>5, <1>19, <2>1, <2>2 DEF FinishReplay
<1>20. CASE GiveUp
  BY <1>6, <1>20 DEF GiveUp, Results
<1>21. CASE SendShutdown
  <2>1. Control("shutdown") \in ClientEnvelopes
    BY ControlIn DEF ControlTypes
  <2>2. NetworkInv'
    BY <1>4, <1>21, <2>1, PutIn DEF SendShutdown
  <2>3. ConnectorInv'
    BY <1>4, <1>21, ContinueIn DEF SendShutdown, ClientPcs
  <2> QED BY <1>5, <1>21, <2>2, <2>3 DEF SendShutdown
<1>22. CASE AwaitComplete
  <2>1. UNCHANGED streamVars /\ HasIncoming
    BY <1>22 DEF AwaitComplete
  <2>2. CASE \E r \in Results : Return(r)
    BY <1>6, <2>1, <2>2
  <2>3. CASE Continue("wait_complete") /\ Consume
    BY <1>4, <1>5, <2>1, <2>3, ContinueIn, ConsumeIn DEF ClientPcs
  <2>4. CASE /\ c2s' = Transmit(c2s, client.socket, Control("pong"))
             /\ s2c' = [s2c EXCEPT ![client.socket] = Tail(@)]
             /\ UNCHANGED <<client, up, faults>>
    <3>1. client.socket \in Sockets
      BY <2>1 DEF ConnectorInv, ClientState, HasIncoming
    <3>2. Tail(s2c[client.socket]) \in Seq(ServerEnvelopes)
      BY <2>1, <3>1, HeadIn DEF NetworkInv, HasIncoming, Arrives
    <3>3. Transmit(c2s, client.socket, Control("pong"))
            \in [Sockets -> Seq(ClientEnvelopes)]
      BY ControlIn, TransmitIn DEF NetworkInv, ControlTypes
    <3>4. NetworkInv'
      BY <1>4, <2>1, <2>4, <3>1, <3>2, <3>3 DEF NetworkInv
    <3>5. ConnectorInv'
      BY <1>4, <2>1, <2>4 DEF ConnectorInv
    <3> QED BY <1>5, <2>1, <3>4, <3>5
  <2> QED BY <1>22, <2>2, <2>3, <2>4 DEF AwaitComplete, Results
<1>23. CASE Signal
  <2>1. ConnectorInv'
    BY <1>23, <1>4 DEF Signal, ConnectorInv, ClientState
  <2>2. NetworkInv'
    BY <1>23, <1>4 DEF Signal, NetworkInv, networkVars
  <2> QED BY <1>5, <1>23, <2>1, <2>2 DEF Signal
<1>24. CASE ConnectorDies
  <2>1. NetworkInv'
    BY <1>4, <1>8, <1>24, CloseClientEndIn, NetworkAssumption
    DEF ConnectorDies, NetworkInv
  <2>2. << >> \in Seq(ClientEnvelopes)
    OBVIOUS
  <2>3. ConnectorInv'
    BY <1>4, <1>24, <2>2
    DEF ConnectorDies, ConnectorInv, ClientState, ClientPcs, Results
  <2> QED BY <1>5, <1>24, <2>1, <2>3 DEF ConnectorDies
<1> QED
  BY <1>2, <1>3, <1>9, <1>10, <1>11, <1>12, <1>13, <1>14, <1>15, <1>16, <1>17,
     <1>18, <1>19, <1>20, <1>21, <1>22, <1>23, <1>24
  DEF ConnectorStep, ConnectorNext, Receive

-----------------------------------------------------------------------------
(* Steps of the network and of the transport tasks.                        *)

\* What may be sent depends on the lines read and queued alone.
LEMMA SetsKeep ==
    ASSUME UNCHANGED <<nextClient, nextServer, outputs>>
    PROVE  /\ ClientEnvelopes' = ClientEnvelopes
           /\ ClientFrames' = ClientFrames
           /\ ClientEvents' = ClientEvents
           /\ ServerEnvelopes' = ServerEnvelopes
           /\ ServerFrames' = ServerFrames
BY DEF ClientEnvelopes, ClientFrames, ClientEvents, ServerEnvelopes, ServerFrames

\* A step that leaves the connector and the frames of the session alone.
LEMMA FramesKeep ==
    ASSUME LinesKeepTheirNumbers, UNCHANGED clientVars, UNCHANGED frameVars,
           NetworkInv', SessionInv', ChannelInv'
    PROVE  LinesKeepTheirNumbers'
<1> USE DEF LinesKeepTheirNumbers, clientVars, streamVars, frameVars
<1>1. /\ ClientEnvelopes' = ClientEnvelopes
      /\ ClientFrames' = ClientFrames
      /\ ServerFrames' = ServerFrames
  BY SetsKeep
<1>2. ConnectorInv'
  BY <1>1 DEF ConnectorInv
<1>3. RetainedInv'
  BY <1>1 DEF RetainedInv
<1>4. StdoutInv'
  BY DEF StdoutInv
<1>5. QueueInv'
  BY <1>1 DEF QueueInv
<1>6. HandledInv'
  BY DEF HandledInv
<1> QED BY <1>2, <1>3, <1>4, <1>5, <1>6

\* A failing link cuts streams short and does nothing else.
LEMMA NetworkStepInv ==
    ASSUME LinesKeepTheirNumbers, NetworkStep
    PROVE  LinesKeepTheirNumbers'
<1> USE DEF LinesKeepTheirNumbers
<1>1. /\ UNCHANGED clientVars /\ UNCHANGED frameVars
      /\ UNCHANGED <<nextClient, nextServer, outputs>>
      /\ UNCHANGED <<session, channelVars, agentVars>>
  BY DEF NetworkStep, serverVars, clientVars, streamVars, frameVars
<1>2. PICK s \in Sockets : LinkFails(s)
  BY DEF NetworkStep
<1>3. /\ ClientEnvelopes' = ClientEnvelopes
      /\ ClientEvents' = ClientEvents
      /\ ServerEnvelopes' = ServerEnvelopes
  BY <1>1, SetsKeep
<1>4. NetworkInv'
  <2>1. /\ \A i \in 0 .. Len(c2s[s]) :
             SubSeq(c2s[s], 1, i) \in Seq(ClientEnvelopes)
        /\ \A j \in 0 .. Len(s2c[s]) :
             SubSeq(s2c[s], 1, j) \in Seq(ServerEnvelopes)
    BY <1>2, PrefixIn DEF NetworkInv
  <2> QED BY <1>2, <1>3, <2>1, NetworkAssumption DEF NetworkInv, LinkFails
<1>5. SessionInv'
  BY <1>1, <1>3 DEF SessionInv, channelVars, agentVars
<1>6. ChannelInv'
  BY <1>1, <1>3 DEF ChannelInv, channelVars
<1> QED BY <1>1, <1>4, <1>5, <1>6, FramesKeep

\* The session's control state after `sent` was used or dropped.
LEMMA SentIn ==
    ASSUME SessionInv, NEW v \in {"no", "waiting", "sent", "dropped"},
           session' = [session EXCEPT !.sent = v],
           UNCHANGED <<attachments, agentVars>>,
           ServerEnvelopes' = ServerEnvelopes
    PROVE  SessionInv'
BY DEF SessionInv, SessionState, agentVars

\* The values `sent` can take when a transport task writes or returns.
LEMMA SentValues ==
    ASSUME SessionInv, NEW s, NEW e
    PROVE  /\ SentDropped(s) \in {"no", "waiting", "sent", "dropped"}
           /\ SentAfter(s, e) \in {"no", "waiting", "sent", "dropped"}
BY DEF SessionInv, SessionState, SentDropped, SentAfter

\* A transport task of socket s returns.
LEMMA StopTaskInv ==
    ASSUME LinesKeepTheirNumbers, NEW s \in Sockets, StopTask(s),
           events' \in Seq(ClientEvents),
           UNCHANGED <<clientVars, frameVars, agentVars, attachments>>
    PROVE  LinesKeepTheirNumbers'
<1> USE DEF LinesKeepTheirNumbers
<1>1. /\ UNCHANGED <<nextClient, nextServer, outputs>>
      /\ UNCHANGED clientVars /\ UNCHANGED frameVars
  BY DEF clientVars, streamVars, frameVars
<1>2. /\ ClientEnvelopes' = ClientEnvelopes
      /\ ClientEvents' = ClientEvents
      /\ ServerEnvelopes' = ServerEnvelopes
  BY <1>1, SetsKeep
<1>3. NetworkInv'
  BY <1>2, CloseServerEndIn DEF StopTask, NetworkInv
<1>4. SessionInv'
  BY <1>2, SentIn, SentValues DEF StopTask
<1>5. ChannelInv'
  BY <1>2, TaskConstants DEF StopTask, ChannelInv
<1> QED BY <1>1, <1>3, <1>4, <1>5, FramesKeep

\* The last event of a transport carries no line.
LEMMA DisconnectedIn ==
    ASSUME NEW s \in Sockets
    PROVE  [socket |-> s, kind |-> "disconnected"] \in ClientEvents
BY DEF ClientEvents, Event

\* A transport task writes what the session enqueued.
LEMMA CurrentIn ==
    ASSUME ChannelInv, NEW s \in Sockets, HasCommand(s)
    PROVE  Current(s) \in ServerEnvelopes
<1>1. tasks[s] \in Task(ServerEnvelopes, ClientEvents)
  BY DEF ChannelInv
<1> QED BY <1>1, HeadIn DEF Task, HasCommand, Current

\* Every step of a transport task keeps the invariant.
LEMMA TaskStepInv ==
    ASSUME LinesKeepTheirNumbers, NEW s \in Sockets, TaskNext(s),
           UNCHANGED clientVars
    PROVE  LinesKeepTheirNumbers'
<1> USE DEF LinesKeepTheirNumbers
<1>1. UNCHANGED frameVars /\ UNCHANGED <<agentVars, attachments>>
  BY DEF TaskNext, TaskWrites, TaskFinishes, TaskBlocks, TaskWriteFails,
         TaskReads, TaskSeesEnd, TaskHandsOver, OrphanStops
<1>2. UNCHANGED <<nextClient, nextServer, outputs>>
  BY <1>1 DEF clientVars, streamVars, frameVars
<1>3. /\ ClientEnvelopes' = ClientEnvelopes
      /\ ClientEvents' = ClientEvents
      /\ ServerEnvelopes' = ServerEnvelopes
  BY <1>2, SetsKeep
<1>4. ASSUME NetworkInv', SessionInv', ChannelInv'
      PROVE  LinesKeepTheirNumbers'
  BY <1>1, <1>4, FramesKeep
<1>5. ASSUME StopTask(s), events' \in Seq(ClientEvents)
      PROVE  LinesKeepTheirNumbers'
  BY <1>1, <1>5, StopTaskInv
<1>6. events \in Seq(ClientEvents) /\ << >> \in Seq(ClientEvents)
  BY DEF ChannelInv
<1>7. /\ tasks[s].commands \in Seq(ServerEnvelopes)
      /\ tasks[s].writing \in Seq(ServerEnvelopes)
      /\ tasks[s].held \in Seq(ClientEvents)
  BY DEF ChannelInv, Task
<1>8. ASSUME UNCHANGED session PROVE SessionInv'
  BY <1>1, <1>3, <1>8 DEF SessionInv, agentVars
<1>9. ASSUME UNCHANGED networkVars PROVE NetworkInv'
  BY <1>3, <1>9 DEF NetworkInv, networkVars
<1>10. CASE TaskWrites(s)
  <2>1. Current(s) \in ServerEnvelopes
    BY <1>10, CurrentIn DEF TaskWrites
  <2>2. NetworkInv'
    BY <1>10, <1>3, <2>1, TransmitIn DEF TaskWrites, NetworkInv
  <2>3. SessionInv'
    BY <1>10, <1>1, <1>3, SentIn, SentValues DEF TaskWrites
  <2>4. ChannelInv'
    <3>1. CASE tasks[s].writing # << >>
      <4>1. << >> \in Seq(ServerEnvelopes)
        OBVIOUS
      <4> QED BY <1>3, <1>10, <3>1, <4>1 DEF TaskWrites, ChannelInv, Task
    <3>2. CASE tasks[s].writing = << >>
      <4>1. Tail(tasks[s].commands) \in Seq(ServerEnvelopes)
        BY <1>7, <1>10, <3>2, HeadIn DEF TaskWrites, HasCommand
      <4> QED BY <1>3, <1>10, <3>2, <4>1 DEF TaskWrites, ChannelInv, Task
    <3> QED BY <3>1, <3>2
  <2> QED BY <1>4, <2>2, <2>3, <2>4
<1>11. CASE TaskFinishes(s)
  <2> DEFINE stream == Transmit(s2c, s, Current(s))[s]
  <2>1. Current(s) \in ServerEnvelopes
    BY <1>11, CurrentIn DEF TaskFinishes
  <2>2. stream \in Seq(ServerEnvelopes)
    BY <2>1, TransmitIn DEF NetworkInv
  <2>3. \A kept \in 0 .. Len(stream) :
          SubSeq(stream, 1, kept) \in Seq(ServerEnvelopes)
    BY <2>2, PrefixIn
  <2>4. << >> \in Seq(ClientEnvelopes)
    OBVIOUS
  <2>5. NetworkInv'
    BY <1>11, <1>3, <2>3, <2>4 DEF TaskFinishes, NetworkInv
  <2>6. SessionInv'
    BY <1>11, <1>1, <1>3, SentIn, SentValues DEF TaskFinishes
  <2>7. ChannelInv'
    BY <1>3, <1>11, TaskConstants DEF TaskFinishes, ChannelInv
  <2> QED BY <1>4, <2>5, <2>6, <2>7
<1>12. CASE TaskBlocks(s)
  <2>1. /\ <<Head(tasks[s].commands)>> \in Seq(ServerEnvelopes)
        /\ Tail(tasks[s].commands) \in Seq(ServerEnvelopes)
    BY <1>7, <1>12, HeadIn, SingletonIn DEF TaskBlocks
  <2>2. ChannelInv'
    BY <1>3, <1>12, <2>1 DEF TaskBlocks, ChannelInv, Task
  <2> QED BY <1>4, <1>8, <1>9, <1>12, <2>2 DEF TaskBlocks
<1>13. CASE TaskWriteFails(s)
  <2>1. events' \in Seq(ClientEvents)
    BY <1>6, <1>13, DisconnectedIn, AppendIn DEF TaskWriteFails
  <2> QED BY <1>5, <1>13, <2>1 DEF TaskWriteFails
<1>14. CASE TaskReads(s)
  <2> DEFINE event == [socket |-> s, kind |-> "envelope",
                       envelope |-> Head(c2s[s])]
  <2>1. /\ Head(c2s[s]) \in ClientEnvelopes
        /\ Tail(c2s[s]) \in Seq(ClientEnvelopes)
    BY <1>14, HeadIn DEF TaskReads, Arrives, NetworkInv
  <2>2. event \in ClientEvents
    BY <2>1 DEF ClientEvents, Event, ClientEnvelopes
  <2>3. <<event>> \in Seq(ClientEvents) /\ Append(events, event) \in Seq(ClientEvents)
    BY <1>6, <2>2, SingletonIn, AppendIn
  <2>4. NetworkInv'
    BY <1>3, <1>14, <2>1 DEF TaskReads, NetworkInv
  <2>5. CASE EventRoom
    <3>1. events' = Append(events, event) /\ tasks' = tasks
      BY <1>14, <2>5 DEF TaskReads
    <3>2. ChannelInv'
      BY <1>3, <2>3, <3>1 DEF ChannelInv
    <3> QED BY <1>4, <1>8, <1>14, <2>4, <3>2 DEF TaskReads
  <2>6. CASE ~EventRoom
    <3>1. tasks' = [tasks EXCEPT ![s].held = <<event>>] /\ events' = events
      BY <1>14, <2>6 DEF TaskReads
    <3> HIDE DEF event
    <3>2. ChannelInv'
      BY <1>3, <2>3, <3>1 DEF ChannelInv, Task
    <3> QED BY <1>4, <1>8, <1>14, <2>4, <3>2 DEF TaskReads
  <2> QED BY <2>5, <2>6
<1>15. CASE TaskSeesEnd(s)
  <2> DEFINE event == [socket |-> s, kind |-> "disconnected"]
  <2>1. <<event>> \in Seq(ClientEvents) /\ Append(events, event) \in Seq(ClientEvents)
    BY <1>6, DisconnectedIn, SingletonIn, AppendIn
  <2>2. CASE EventRoom
    BY <1>5, <1>15, <2>1, <2>2 DEF TaskSeesEnd
  <2>3. CASE ~EventRoom
    <3>1. /\ tasks' = [tasks EXCEPT ![s].held = <<event>>]
          /\ UNCHANGED <<session, events, networkVars>>
      BY <1>15, <2>3 DEF TaskSeesEnd
    <3> HIDE DEF event
    <3>2. ChannelInv'
      BY <1>3, <2>1, <3>1 DEF ChannelInv, Task
    <3> QED BY <1>4, <1>8, <1>9, <3>1, <3>2
  <2> QED BY <2>2, <2>3
<1>16. CASE TaskHandsOver(s)
  <2> DEFINE event == Head(tasks[s].held)
  <2>1. Append(events, event) \in Seq(ClientEvents)
    BY <1>6, <1>7, <1>16, HeadIn, AppendIn DEF TaskHandsOver
  <2>2. CASE event.kind = "disconnected"
    BY <1>5, <1>16, <2>1, <2>2 DEF TaskHandsOver
  <2>3. CASE event.kind # "disconnected"
    <3>1. ChannelInv'
      BY <1>3, <1>6, <1>16, <2>1, <2>3 DEF TaskHandsOver, ChannelInv, Task
    <3> QED BY <1>4, <1>8, <1>9, <1>16, <2>3, <3>1 DEF TaskHandsOver
  <2> QED BY <2>2, <2>3
<1>17. CASE OrphanStops(s)
  BY <1>5, <1>6, <1>17 DEF OrphanStops
<1> QED
  BY <1>10, <1>11, <1>12, <1>13, <1>14, <1>15, <1>16, <1>17 DEF TaskNext

-----------------------------------------------------------------------------
(* Steps of the session task and around it.                                *)

\* An update of the session's control state that does not enter "reply".
LEMMA ControlIs ==
    ASSUME SessionInv, session' \in SessionState(ServerEnvelopes'),
           session'.pc # "reply",
           agent' \in [alive : BOOLEAN, written : 0 .. Len(AgentOutput),
                       read : 0 .. Len(AgentOutput)],
           ambient' \in [cancelled : BOOLEAN, noise : 0 .. MaxNoise],
           attachments' \in Seq(Sockets)
    PROVE  SessionInv'
BY DEF SessionInv

\* The session goes on to another await point.
LEMMA ProceedIn ==
    ASSUME SessionInv, NEW pc \in SessionPcs \ {"reply"}, Proceed(pc)
    PROVE  session' \in SessionState(ServerEnvelopes) /\ session'.pc # "reply"
BY DEF SessionInv, SessionState, Proceed

\* The session's loop ends.
LEMMA EndLoopIn ==
    ASSUME SessionInv, NEW category \in EndCategories, EndLoop(category)
    PROVE  session' \in SessionState(ServerEnvelopes) /\ session'.pc # "reply"
BY DEF SessionInv, SessionState, EndLoop, SessionPcs

\* The session enqueues a command for a transport task.
LEMMA EnqueueIn ==
    ASSUME ChannelInv, NEW s, NEW e \in ServerEnvelopes, Enqueue(s, e)
    PROVE  tasks' \in [Sockets -> Task(ServerEnvelopes, ClientEvents)]
<1>1. s \in Sockets => Append(tasks[s].commands, e) \in Seq(ServerEnvelopes)
  BY AppendIn DEF ChannelInv, Task
<1> QED BY <1>1 DEF ChannelInv, Task, Enqueue

\* What a step that changes neither the connector nor the outputs must show.
LEMMA SessionStep ==
    ASSUME LinesKeepTheirNumbers, UNCHANGED clientVars,
           UNCHANGED <<nextServer, expectedClient, handled, outputs>>,
           serverPending' \in Seq(ServerFrames),
           NetworkInv', SessionInv',
           tasks' \in [Sockets -> Task(ServerEnvelopes, ClientEvents)],
           events' \in Seq(ClientEvents)
    PROVE  LinesKeepTheirNumbers'
<1> USE DEF LinesKeepTheirNumbers, clientVars, streamVars
<1>1. /\ ClientEnvelopes' = ClientEnvelopes
      /\ ClientFrames' = ClientFrames
      /\ ClientEvents' = ClientEvents
      /\ ServerEnvelopes' = ServerEnvelopes
      /\ ServerFrames' = ServerFrames
  BY SetsKeep
<1>2. ConnectorInv'
  BY <1>1 DEF ConnectorInv
<1>3. RetainedInv'
  BY <1>1 DEF RetainedInv
<1>4. StdoutInv'
  BY DEF StdoutInv
<1>5. QueueInv'
  BY <1>1 DEF QueueInv
<1>6. HandledInv'
  BY DEF HandledInv
<1>7. ChannelInv'
  BY <1>1 DEF ChannelInv
<1> QED BY <1>2, <1>3, <1>4, <1>5, <1>6, <1>7

\* detach_transport
LEMMA DetachInv ==
    ASSUME LinesKeepTheirNumbers, UNCHANGED clientVars,
           NEW pc \in SessionPcs \ {"reply"}, Detach(pc),
           UNCHANGED agentVars, faults' \in 0 .. MaxFaults,
           events' \in Seq(ClientEvents)
    PROVE  LinesKeepTheirNumbers'
<1> USE DEF LinesKeepTheirNumbers
<1>1. UNCHANGED frameVars /\ UNCHANGED <<nextClient, nextServer, outputs>>
  BY DEF Detach, clientVars, streamVars, frameVars
<1>2. /\ ClientEnvelopes' = ClientEnvelopes
      /\ ClientEvents' = ClientEvents
      /\ ServerEnvelopes' = ServerEnvelopes
  BY <1>1, SetsKeep
<1>3. NetworkInv'
  BY <1>2, CloseServerEndIn DEF Detach, NetworkInv
<1>4. session' \in SessionState(ServerEnvelopes) /\ session'.pc # "reply"
  BY DEF Detach, SessionInv, SessionState
<1>5. SessionInv'
  BY <1>2, <1>4 DEF SessionInv, Detach, agentVars
<1>6. ChannelInv'
  BY <1>2, TaskConstants DEF Detach, ChannelInv
<1> QED BY <1>1, <1>3, <1>5, <1>6, FramesKeep

\* run_agent_session returns, after the socket of its transport was closed or
\* with the task of the transport left to itself.
LEMMA LeaveInv ==
    ASSUME LinesKeepTheirNumbers, UNCHANGED clientVars, UNCHANGED frameVars,
           UNCHANGED agentVars, NEW category \in EndCategories, NEW S,
           Leave(category, S),
           tasks' \in [Sockets -> Task(ServerEnvelopes, ClientEvents)]
    PROVE  LinesKeepTheirNumbers'
<1> USE DEF LinesKeepTheirNumbers
<1>1. UNCHANGED <<nextClient, nextServer, outputs>>
  BY DEF clientVars, streamVars, frameVars
<1>2. /\ ClientEnvelopes' = ClientEnvelopes
      /\ ClientEvents' = ClientEvents
      /\ ServerEnvelopes' = ServerEnvelopes
  BY <1>1, SetsKeep
<1>3. NetworkInv'
  BY <1>2, CloseServerEndIn DEF Leave, NetworkInv
<1>4. << >> \in Seq(ServerEnvelopes) /\ << >> \in Seq(ClientEvents)
  OBVIOUS
<1>5. session' \in SessionState(ServerEnvelopes) /\ session'.pc # "reply"
  BY <1>4 DEF Leave, SessionInv, SessionState, SessionPcs
<1>6. SessionInv'
  BY <1>2, <1>5 DEF SessionInv, Leave, agentVars
<1>7. ChannelInv'
  BY <1>2, <1>4 DEF Leave, ChannelInv
<1> QED BY <1>3, <1>6, <1>7, FramesKeep

\* A step of the session that changes its control state, and no frame, queue
\* or stream.
LEMMA QuietStep ==
    ASSUME LinesKeepTheirNumbers, UNCHANGED clientVars, UNCHANGED frameVars,
           UNCHANGED <<channelVars, networkVars>>,
           session' \in SessionState(ServerEnvelopes), session'.pc # "reply",
           agent' \in [alive : BOOLEAN, written : 0 .. Len(AgentOutput),
                       read : 0 .. Len(AgentOutput)],
           ambient' \in [cancelled : BOOLEAN, noise : 0 .. MaxNoise]
    PROVE  LinesKeepTheirNumbers'
<1> USE DEF LinesKeepTheirNumbers
<1>1. UNCHANGED <<nextClient, nextServer, outputs>>
  BY DEF clientVars, streamVars, frameVars
<1>2. /\ ClientEnvelopes' = ClientEnvelopes
      /\ ClientEvents' = ClientEvents
      /\ ServerEnvelopes' = ServerEnvelopes
  BY <1>1, SetsKeep
<1>3. NetworkInv'
  BY <1>2 DEF NetworkInv, networkVars
<1>4. SessionInv'
  BY <1>2 DEF SessionInv, channelVars
<1>5. ChannelInv'
  BY <1>2 DEF ChannelInv, channelVars
<1> QED BY <1>3, <1>4, <1>5, FramesKeep

\* A step of the session that also fills the command queue of a transport.
LEMMA EnqueueStep ==
    ASSUME LinesKeepTheirNumbers, UNCHANGED clientVars, UNCHANGED frameVars,
           UNCHANGED <<events, attachments, agent, networkVars>>,
           ambient' \in [cancelled : BOOLEAN, noise : 0 .. MaxNoise],
           session' \in SessionState(ServerEnvelopes), session'.pc # "reply",
           NEW s, NEW e \in ServerEnvelopes, Enqueue(s, e) \/ UNCHANGED tasks
    PROVE  LinesKeepTheirNumbers'
<1> USE DEF LinesKeepTheirNumbers
<1>1. UNCHANGED <<nextClient, nextServer, outputs>>
  BY DEF clientVars, streamVars, frameVars
<1>2. /\ ClientEnvelopes' = ClientEnvelopes
      /\ ClientEvents' = ClientEvents
      /\ ServerEnvelopes' = ServerEnvelopes
  BY <1>1, SetsKeep
<1>3. NetworkInv'
  BY <1>2 DEF NetworkInv, networkVars
<1>4. SessionInv'
  BY <1>2 DEF SessionInv
<1>5. tasks' \in [Sockets -> Task(ServerEnvelopes, ClientEvents)]
  BY EnqueueIn DEF ChannelInv
<1>6. ChannelInv'
  BY <1>2, <1>5 DEF ChannelInv
<1> QED BY <1>3, <1>4, <1>6, FramesKeep

\* pump_replay and attach_transport hand retained frames to a transport.
LEMMA MarkSent ==
    ASSUME QueueInv, NEW i \in 1 .. Len(serverPending),
           NEW s \in Sockets \cup {NoSocket}
    PROVE  /\ Acp(serverPending[i]) \in ServerEnvelopes
           /\ [serverPending EXCEPT ![i].sentOn = s] \in Seq(ServerFrames)
<1>1. serverPending \in Seq(ServerFrames)
  BY DEF QueueInv
<1>2. serverPending[i] \in ServerFrames
  BY <1>1, ElementOfSeq
<1>3. [serverPending[i] EXCEPT !.sentOn = s] \in ServerFrames
  BY <1>2 DEF ServerFrames, ServerFrame
<1>4. [serverPending EXCEPT ![i] = [serverPending[i] EXCEPT !.sentOn = s]]
        \in Seq(ServerFrames)
  BY <1>1, <1>3, ExceptSeq
<1> QED BY <1>2, <1>4, ServerAcpIn

\* pump_replay hands over a retained frame and marks it.
LEMMA PumpReplayInv ==
    ASSUME LinesKeepTheirNumbers, UNCHANGED clientVars, PumpReplay
    PROVE  LinesKeepTheirNumbers'
<1> USE DEF LinesKeepTheirNumbers
<1>1. PICK i \in Unsent :
        /\ Enqueue(session.transport, Acp(serverPending[i]))
        /\ serverPending' = [serverPending EXCEPT
                               ![i].sentOn = session.transport]
  BY DEF PumpReplay
<1>2. i \in 1 .. Len(serverPending)
  BY DEF Unsent
<1>3. session.transport \in Sockets \cup {NoSocket}
  BY DEF SessionInv, SessionState
<1>4. /\ Acp(serverPending[i]) \in ServerEnvelopes
      /\ serverPending' \in Seq(ServerFrames)
  BY <1>1, <1>2, <1>3, MarkSent
<1>5. tasks' \in [Sockets -> Task(ServerEnvelopes, ClientEvents)]
  BY <1>1, <1>4, EnqueueIn
<1>6. UNCHANGED <<nextClient, nextServer, outputs, expectedClient, handled,
                  session, agentVars, events, attachments, networkVars>>
  BY DEF PumpReplay, clientVars, streamVars
<1>7. ClientEnvelopes' = ClientEnvelopes /\ ServerEnvelopes' = ServerEnvelopes
  BY <1>6, SetsKeep
<1>8. NetworkInv'
  BY <1>6, <1>7 DEF NetworkInv, networkVars
<1>9. SessionInv'
  BY <1>6, <1>7 DEF SessionInv, agentVars
<1> QED BY <1>4, <1>5, <1>6, <1>8, <1>9, SessionStep DEF ChannelInv

\* attach_transport sends `ready`, the acknowledgement and retained frames.
LEMMA AttachEnqueuesInv ==
    ASSUME LinesKeepTheirNumbers, UNCHANGED clientVars, AttachEnqueues
    PROVE  LinesKeepTheirNumbers'
<1> USE DEF LinesKeepTheirNumbers
<1>1. /\ session.setupAt \in Nat /\ session.setupAt < Len(serverPending) + 2
      /\ Len(serverPending) \in Nat
      /\ session.attaching \in Sockets \cup {NoSocket}
  BY LenProperties
  DEF AttachEnqueues, SetupLength, SessionInv, SessionState, QueueInv
<1>2. /\ SetupEnvelope(session.setupAt) \in ServerEnvelopes
      /\ serverPending' \in Seq(ServerFrames)
  <2>1. CASE session.setupAt = 0
    <3>1. SetupEnvelope(session.setupAt) = Control("ready")
      BY <2>1 DEF SetupEnvelope
    <3> QED BY <2>1, <3>1, ControlIn DEF AttachEnqueues, QueueInv, ControlTypes
  <2>2. CASE session.setupAt = 1
    <3>1. SetupEnvelope(session.setupAt) =
            Ack("client_to_server", expectedClient - 1)
      BY <2>2 DEF SetupEnvelope
    <3>2. expectedClient - 1 \in Nat
      BY ConnectorAssumption, LenProperties DEF HandledInv, RetainedInv
    <3> QED BY <2>2, <3>1, <3>2, AckIn DEF AttachEnqueues, QueueInv, Streams
  <2>3. CASE session.setupAt > 1
    <3>1. session.setupAt - 1 \in 1 .. Len(serverPending)
      BY <1>1, <2>3
    <3>2. SetupEnvelope(session.setupAt) = Acp(serverPending[session.setupAt - 1])
      BY <1>1, <2>3 DEF SetupEnvelope
    <3>3. serverPending' = [serverPending EXCEPT
                              ![session.setupAt - 1].sentOn = session.attaching]
      BY <1>1, <2>3 DEF AttachEnqueues
    <3> QED BY <1>1, <3>1, <3>2, <3>3, MarkSent
  <2> QED BY <1>1, <2>1, <2>2, <2>3
<1>3. tasks' \in [Sockets -> Task(ServerEnvelopes, ClientEvents)]
  BY <1>2, EnqueueIn DEF AttachEnqueues
<1>4. UNCHANGED <<nextClient, nextServer, outputs, expectedClient, handled,
                  agentVars, events, attachments, networkVars>>
  BY DEF AttachEnqueues, clientVars, streamVars
<1>5. ClientEnvelopes' = ClientEnvelopes /\ ServerEnvelopes' = ServerEnvelopes
  BY <1>4, SetsKeep
<1>6. NetworkInv'
  BY <1>4, <1>5 DEF NetworkInv, networkVars
<1>7. SessionInv'
  <2>1. /\ session.pc = "attach"
        /\ session' = [session EXCEPT !.setupAt = session.setupAt + 1]
        /\ session.setupAt + 1 \in Nat
    BY <1>1 DEF AttachEnqueues
  <2>2. /\ session' \in SessionState(ServerEnvelopes)
        /\ session'.pc # "reply"
    BY <2>1 DEF SessionInv, SessionState
  <2> QED BY <1>4, <1>5, <2>2 DEF SessionInv, agentVars
<1> QED BY <1>2, <1>3, <1>4, <1>6, <1>7, SessionStep DEF ChannelInv

-----------------------------------------------------------------------------
(* Lines that reach the session: from the agent, and from the connector.   *)

\* queue_server_frame, from the agent or as a rejection: the set of lines
\* that may be in flight grows by the new one.
LEMMA QueueIn ==
    ASSUME LinesKeepTheirNumbers, NEW p \in Payloads, QueueServerFrame(p),
           UNCHANGED clientVars
    PROVE  /\ QueueInv'
           /\ StdoutInv'
           /\ ConnectorInv'
           /\ RetainedInv'
           /\ ClientEnvelopes' = ClientEnvelopes
           /\ ClientEvents' = ClientEvents
           /\ Seq(ServerEnvelopes) \subseteq Seq(ServerEnvelopes')
<1> USE DEF LinesKeepTheirNumbers, clientVars, streamVars
<1>1. nextServer \in Nat \ {0}
  BY LenProperties DEF QueueInv
<1>2. /\ ServerEnvelopes \subseteq ServerEnvelopes'
      /\ ServerFrames \subseteq ServerFrames'
      /\ outputs' \in Seq(Payloads)
      /\ nextServer' = Len(outputs') + 1
      /\ outputs'[nextServer] = p
      /\ \A n \in 1 .. nextServer - 1 : outputs'[n] = outputs[n]
  BY ServerGrows DEF QueueServerFrame
<1>3. [sequence |-> nextServer, payload |-> p, sentOn |-> NoSocket]
        \in ServerFrames'
  BY <1>1, <1>2 DEF QueueServerFrame, ServerFrames, ServerFrame
<1>4. serverPending' \in Seq(ServerFrames')
  <2>1. serverPending \in Seq(ServerFrames')
    BY <1>2, SeqGrows DEF QueueInv
  <2> QED BY <1>3, <2>1, AppendIn DEF QueueServerFrame
<1>5. QueueInv'
  BY <1>2, <1>4 DEF QueueInv
<1>6. StdoutInv'
  <2>1. expectedServer' = expectedServer /\ stdout' = stdout
    OBVIOUS
  <2>2. expectedServer \in 1 .. nextServer'
    BY <1>1 DEF QueueServerFrame, StdoutInv
  <2>3. stdout = [n \in 1 .. expectedServer - 1 |-> outputs'[n]]
    BY <1>1, <1>2 DEF StdoutInv
  <2> QED BY <2>1, <2>2, <2>3 DEF StdoutInv
<1>7. /\ ClientEnvelopes' = ClientEnvelopes
      /\ ClientFrames' = ClientFrames
      /\ ClientEvents' = ClientEvents
  BY DEF ClientEnvelopes, ClientFrames, ClientEvents
<1>8. ConnectorInv' /\ RetainedInv'
  BY <1>7 DEF ConnectorInv, RetainedInv
<1> QED BY <1>2, <1>5, <1>6, <1>7, <1>8, SeqGrows

\* A line of the agent's stdout gets the next number, or ends the loop.
LEMMA ReadAgentInv ==
    ASSUME LinesKeepTheirNumbers, UNCHANGED clientVars, ReadAgent
    PROVE  LinesKeepTheirNumbers'
<1> DEFINE line == AgentOutput[agent.read + 1]
<1> USE DEF LinesKeepTheirNumbers
<1>1. /\ agent.read + 1 \in 1 .. Len(AgentOutput)
      /\ line \in Payloads
      /\ agent' \in [alive : BOOLEAN, written : 0 .. Len(AgentOutput),
                      read : 0 .. Len(AgentOutput)]
      /\ ambient' \in [cancelled : BOOLEAN, noise : 0 .. MaxNoise]
  <2>1. Len(AgentOutput) \in Nat
    BY SessionAssumption, LenProperties
  <2>2. agent.read + 1 \in 1 .. Len(AgentOutput)
    BY <2>1 DEF SessionInv, ReadAgent
  <2>3. line \in Payloads
    BY <2>2, SessionAssumption, ElementOfSeq
  <2>4. agent' \in [alive : BOOLEAN, written : 0 .. Len(AgentOutput),
                    read : 0 .. Len(AgentOutput)]
    BY <2>1, <2>2 DEF SessionInv, ReadAgent
  <2> QED BY <2>2, <2>3, <2>4 DEF SessionInv, ReadAgent
<1>2. CASE /\ EndLoop("agent_stdout_line")
           /\ UNCHANGED <<serverPending, nextServer, outputs>>
  <2>1. UNCHANGED frameVars /\ UNCHANGED <<channelVars, networkVars>>
    BY <1>2 DEF ReadAgent, frameVars
  <2>2. /\ session' \in SessionState(ServerEnvelopes)
        /\ session'.pc # "reply"
    BY <1>2, EndLoopIn DEF EndCategories
  <2> QED BY <1>1, <2>1, <2>2, QuietStep
<1>3. CASE Proceed("top") /\ QueueServerFrame(line)
  <2>1. /\ QueueInv' /\ StdoutInv' /\ ConnectorInv' /\ RetainedInv'
        /\ ClientEnvelopes' = ClientEnvelopes
        /\ ClientEvents' = ClientEvents
        /\ Seq(ServerEnvelopes) \subseteq Seq(ServerEnvelopes')
    BY <1>1, <1>3, QueueIn
  <2>2. UNCHANGED <<expectedClient, handled, channelVars, networkVars>>
    BY DEF ReadAgent
  <2>3. NetworkInv'
    BY <2>1, <2>2 DEF NetworkInv, networkVars
  <2>4. /\ session' \in SessionState(ServerEnvelopes)
        /\ session'.pc # "reply"
    BY <1>3, ProceedIn DEF SessionPcs
  <2>5. session' \in SessionState(ServerEnvelopes')
    BY <2>1, <2>4 DEF SessionState
  <2>6. SessionInv'
    BY <1>1, <2>2, <2>4, <2>5 DEF SessionInv, channelVars
  <2>7. ChannelInv'
    BY <2>1, <2>2 DEF ChannelInv, Task, channelVars
  <2>8. HandledInv'
    BY <2>2 DEF HandledInv, clientVars, streamVars
  <2> QED BY <2>1, <2>3, <2>6, <2>7, <2>8
<1> QED BY <1>2, <1>3 DEF ReadAgent

\* The next line is handled, with an acknowledgement to follow.
LEMMA AcceptIn ==
    ASSUME LinesKeepTheirNumbers, NEW e \in ClientEnvelopes,
           e.type = "acp", e.sequence = expectedClient, Accept(e),
           events # << >>, UNCHANGED <<clientVars, agentVars>>,
           ClientEnvelopes' = ClientEnvelopes, ClientEvents' = ClientEvents,
           Seq(ServerEnvelopes) \subseteq Seq(ServerEnvelopes')
    PROVE  NetworkInv' /\ SessionInv' /\ ChannelInv' /\ HandledInv'
<1> USE DEF LinesKeepTheirNumbers
<1>1. /\ e.sequence < nextClient
      /\ e.payload = ClientInput[e.sequence]
  BY DEF ClientEnvelopes
<1>2. /\ expectedClient \in Nat \ {0} /\ nextClient \in Nat
      /\ nextClient' = nextClient
  BY ConnectorAssumption, LenProperties
  DEF HandledInv, RetainedInv, clientVars, streamVars
<1>3. /\ UNCHANGED <<tasks, attachments, networkVars>>
      /\ events' = Tail(events)
      /\ expectedClient' = expectedClient + 1
      /\ handled' = Append(handled, Apply[e.payload])
      /\ session' = [session EXCEPT !.pc = "reply",
                        !.outbox = <<Ack("client_to_server", expectedClient)>>]
  BY DEF Accept, Reply
<1>4. NetworkInv'
  BY <1>3 DEF NetworkInv, networkVars
<1>5. SessionInv'
  <2>1. Ack("client_to_server", expectedClient) \in ServerEnvelopes
    BY <1>2, AckIn DEF Streams
  <2>2. /\ <<Ack("client_to_server", expectedClient)>> \in Seq(ServerEnvelopes')
        /\ <<Ack("client_to_server", expectedClient)>> # << >>
    BY <2>1, SingletonIn
  <2>3. session' \in SessionState(ServerEnvelopes') /\ session'.outbox # << >>
    BY <1>3, <2>2 DEF SessionInv, SessionState, SessionPcs
  <2> QED BY <1>3, <2>3 DEF SessionInv, agentVars
<1>6. ChannelInv'
  <2>1. Tail(events) \in Seq(ClientEvents)
    BY HeadIn DEF ChannelInv
  <2> QED BY <1>3, <2>1 DEF ChannelInv, Task
<1>7. HandledInv'
  <2>1. handled' = Append(handled, Apply[ClientInput[expectedClient]])
    BY <1>1, <1>3
  <2>2. handled' = [n \in 1 .. expectedClient |-> Apply[ClientInput[n]]]
    BY <1>2, <2>1 DEF HandledInv
  <2> QED BY <1>1, <1>2, <1>3, <2>2 DEF HandledInv
<1> QED BY <1>4, <1>5, <1>6, <1>7

\* An event is taken off the queue and only the control state changes.
LEMMA EventStep ==
    ASSUME LinesKeepTheirNumbers, events # << >>, events' = Tail(events),
           UNCHANGED clientVars, UNCHANGED frameVars,
           UNCHANGED <<agentVars, tasks, attachments, networkVars>>,
           session' \in SessionState(ServerEnvelopes),
           session'.pc = "reply" => session'.outbox # << >>
    PROVE  LinesKeepTheirNumbers'
<1> USE DEF LinesKeepTheirNumbers
<1>1. UNCHANGED <<nextClient, nextServer, outputs>>
  BY DEF clientVars, streamVars, frameVars
<1>2. /\ ClientEnvelopes' = ClientEnvelopes
      /\ ClientEvents' = ClientEvents
      /\ ServerEnvelopes' = ServerEnvelopes
  BY <1>1, SetsKeep
<1>3. NetworkInv'
  BY <1>2 DEF NetworkInv, networkVars
<1>4. SessionInv'
  BY <1>2 DEF SessionInv, agentVars
<1>5. Tail(events) \in Seq(ClientEvents)
  BY HeadIn DEF ChannelInv
<1>6. ChannelInv'
  BY <1>2, <1>5 DEF ChannelInv
<1> QED BY <1>3, <1>4, <1>6, FramesKeep

\* The session replies to the envelope it received.
LEMMA ReplyInv ==
    ASSUME LinesKeepTheirNumbers, events # << >>, NEW e \in ServerEnvelopes,
           Reply(e), UNCHANGED clientVars, UNCHANGED frameVars,
           UNCHANGED agentVars
    PROVE  LinesKeepTheirNumbers'
<1>1. <<e>> \in Seq(ServerEnvelopes) /\ <<e>> # << >>
  BY SingletonIn
<1>2. session' \in SessionState(ServerEnvelopes) /\ session'.outbox # << >>
  BY <1>1 DEF LinesKeepTheirNumbers, SessionInv, SessionState, SessionPcs, Reply
<1> QED BY <1>2, EventStep DEF Reply

\* handle_client_envelope, for the envelope of an event of this transport.
LEMMA HandleEnvelopeInv ==
    ASSUME LinesKeepTheirNumbers, events # << >>, NEW e \in ClientEnvelopes,
           HandleClientEnvelope(e), UNCHANGED clientVars, UNCHANGED agentVars
    PROVE  LinesKeepTheirNumbers'
<1> USE DEF LinesKeepTheirNumbers
<1>1. CASE \E category \in EndCategories : Only(EndLoop(category))
  BY <1>1, EndLoopIn, EventStep DEF Only
<1>2. CASE Violation(e) # "none"
  <2>1. Violation(e) \in EndCategories
    BY <1>2 DEF Violation, EndCategories
  <2> QED BY <1>1, <1>2, <2>1 DEF HandleClientEnvelope
<1>3. CASE HandleAck(e)
  <2>1. session' \in SessionState(ServerEnvelopes) /\ session'.pc # "reply"
    BY <1>3, ProceedIn DEF HandleAck, SessionPcs
  <2>2. serverPending' \in Seq(ServerFrames)
    BY <1>3, SuffixIn DEF HandleAck, Popped, QueueInv
  <2>3. /\ UNCHANGED <<nextServer, expectedClient, handled, outputs>>
        /\ UNCHANGED <<nextClient, tasks, attachments, networkVars>>
        /\ events' = Tail(events)
    BY <1>3 DEF HandleAck, clientVars, streamVars
  <2>4. ClientEnvelopes' = ClientEnvelopes /\ ServerEnvelopes' = ServerEnvelopes
    BY <2>3, SetsKeep
  <2>5. NetworkInv'
    BY <2>3, <2>4 DEF NetworkInv, networkVars
  <2>6. SessionInv'
    BY <2>1, <2>3, <2>4 DEF SessionInv, agentVars
  <2>7. events' \in Seq(ClientEvents)
    BY <2>3, HeadIn DEF ChannelInv
  <2> QED BY <2>2, <2>3, <2>5, <2>6, <2>7, SessionStep DEF ChannelInv
<1>4. CASE HandleControl(e)
  <2>1. CASE Reply(Control("pong")) /\ UNCHANGED frameVars
    BY <2>1, ControlIn, ReplyInv DEF ControlTypes
  <2>2. CASE Only(Proceed("top"))
    BY <2>2, ProceedIn, EventStep DEF Only, SessionPcs
  <2>3. CASE Only(session' = [session EXCEPT !.pc = "reap",
                                !.endCategory = "client_shutdown",
                                !.registered = FALSE])
    <3>1. session' \in SessionState(ServerEnvelopes) /\ session'.pc # "reply"
      BY <2>3 DEF Only, SessionInv, SessionState, SessionPcs, EndCategories
    <3> QED BY <2>3, <3>1, EventStep DEF Only
  <2> QED BY <1>4, <2>1, <2>2, <2>3 DEF HandleControl
<1>5. CASE \E category \in EndCategories : Abandon(category)
  BY <1>5, LeaveInv DEF Abandon, ChannelInv
<1>6. CASE HandleAcp(e) /\ e.sequence < expectedClient
  <2>1. e.sequence # expectedClient
    BY <1>6, AcpType, ConnectorAssumption, LenProperties
    DEF HandleAcp, ClientEnvelopes, HandledInv, RetainedInv
  <2>2. expectedClient - 1 \in Nat
    BY ConnectorAssumption, LenProperties DEF HandledInv, RetainedInv
  <2>3. Ack("client_to_server", expectedClient - 1) \in ServerEnvelopes
    BY <2>2, AckIn DEF Streams
  <2> QED BY <1>6, <2>1, <2>3, ReplyInv DEF HandleAcp
<1>7. CASE HandleAcp(e) /\ e.sequence = expectedClient
  <2>1. e.type = "acp" /\ e.payload \in Payloads
    BY <1>7, AcpType DEF HandleAcp, ClientEnvelopes
  <2>2. e.sequence < expectedClient => FALSE
    BY <1>7, ConnectorAssumption, LenProperties DEF HandledInv, RetainedInv
  <2>3. CASE Accept(e) /\ UNCHANGED <<serverPending, nextServer, outputs>>
    <3>1. UNCHANGED <<nextClient, nextServer, outputs>>
      BY <2>3 DEF clientVars, streamVars
    <3>2. /\ ClientEnvelopes' = ClientEnvelopes
          /\ ClientFrames' = ClientFrames
          /\ ClientEvents' = ClientEvents
          /\ ServerEnvelopes' = ServerEnvelopes
          /\ ServerFrames' = ServerFrames
      BY <3>1, SetsKeep
    <3>3. NetworkInv' /\ SessionInv' /\ ChannelInv' /\ HandledInv'
      BY <1>7, <2>1, <2>3, <3>2, AcceptIn
    <3>4. ConnectorInv' /\ RetainedInv' /\ StdoutInv'
      BY <3>1, <3>2
      DEF ConnectorInv, RetainedInv, StdoutInv, clientVars, streamVars
    <3>5. QueueInv'
      BY <2>3, <3>2 DEF QueueInv
    <3> QED BY <3>3, <3>4, <3>5
  <2>4. CASE QueueServerFrame(Apply[e.payload].line) /\ Accept(e)
    <3>1. Apply[e.payload].line \in Payloads
      BY <2>1, SessionAssumption DEF PolicyOutcome
    <3>2. /\ QueueInv' /\ StdoutInv' /\ ConnectorInv' /\ RetainedInv'
          /\ ClientEnvelopes' = ClientEnvelopes
          /\ ClientEvents' = ClientEvents
          /\ Seq(ServerEnvelopes) \subseteq Seq(ServerEnvelopes')
      BY <2>4, <3>1, QueueIn
    <3>3. NetworkInv' /\ SessionInv' /\ ChannelInv' /\ HandledInv'
      BY <1>7, <2>1, <2>4, <3>2, AcceptIn
    <3> QED BY <3>2, <3>3
  <2>5. "stdin_error" \in EndCategories /\ "policy_error" \in EndCategories
        /\ "replay_buffer_exhausted" \in EndCategories
    BY DEF EndCategories
  <2> QED BY <1>1, <1>5, <1>7, <2>2, <2>3, <2>4, <2>5
          DEF HandleAcp, ForwardLine, RejectLine
<1>8. HandleAcp(e) => e.sequence < expectedClient \/ e.sequence = expectedClient
  BY DEF HandleAcp
<1> QED BY <1>2, <1>3, <1>4, <1>6, <1>7, <1>8 DEF HandleClientEnvelope

\* Every event of a transport keeps the invariant, stale ones included.
LEMMA ReceiveEventInv ==
    ASSUME LinesKeepTheirNumbers, UNCHANGED clientVars, ReceiveEvent
    PROVE  LinesKeepTheirNumbers'
<1> DEFINE event == Head(events)
<1> USE DEF LinesKeepTheirNumbers
<1>1. events # << >> /\ UNCHANGED agentVars
  BY DEF ReceiveEvent
<1>2. event \in ClientEvents /\ Tail(events) \in Seq(ClientEvents)
  BY <1>1, HeadIn DEF ChannelInv
<1>3. CASE Only(Proceed("top"))
  BY <1>1, <1>3, ProceedIn, EventStep DEF Only, SessionPcs
<1>4. CASE /\ Detach("top")
           /\ events' = Tail(events)
           /\ UNCHANGED faults
  BY <1>1, <1>2, <1>4, DetachInv DEF SessionPcs, NetworkInv
<1>5. CASE event.kind = "envelope" /\ HandleClientEnvelope(event.envelope)
  <2>1. event.envelope \in ClientEnvelopes
    BY <1>2, <1>5 DEF ClientEvents
  <2> QED BY <1>1, <1>5, <2>1, HandleEnvelopeInv
<1> QED BY <1>3, <1>4, <1>5 DEF ReceiveEvent

-----------------------------------------------------------------------------

\* The last envelopes carry no line.
LEMMA FarewellIn == SessionInv => Farewell \in Seq(ServerEnvelopes)
<1>1. /\ Control("shutdown_complete") \in ServerEnvelopes
      /\ Control("error") \in ServerEnvelopes
      /\ Control("exit") \in ServerEnvelopes
  BY ControlIn DEF ControlTypes
<1>2. /\ << >> \in Seq(ServerEnvelopes)
      /\ <<Control("shutdown_complete")>> \in Seq(ServerEnvelopes)
      /\ <<Control("error"), Control("exit")>> \in Seq(ServerEnvelopes)
  BY <1>1
<1> QED BY <1>2 DEF Farewell

\* Every step of the session task keeps the invariant.
LEMMA SessionStepInv ==
    ASSUME LinesKeepTheirNumbers, UNCHANGED clientVars, SessionNext
    PROVE  LinesKeepTheirNumbers'
<1> USE DEF LinesKeepTheirNumbers
<1>1. /\ faults \in 0 .. MaxFaults
      /\ events \in Seq(ClientEvents)
      /\ tasks \in [Sockets -> Task(ServerEnvelopes, ClientEvents)]
      /\ session \in SessionState(ServerEnvelopes)
      /\ agent \in [alive : BOOLEAN, written : 0 .. Len(AgentOutput),
                    read : 0 .. Len(AgentOutput)]
      /\ ambient \in [cancelled : BOOLEAN, noise : 0 .. MaxNoise]
  BY DEF NetworkInv, ChannelInv, SessionInv
<1>2. ASSUME UNCHANGED frameVars, UNCHANGED <<agentVars, channelVars, networkVars>>,
             session' \in SessionState(ServerEnvelopes), session'.pc # "reply"
      PROVE  LinesKeepTheirNumbers'
  BY <1>1, <1>2, QuietStep DEF agentVars
<1>3. CASE PumpReplay \/ AttachEnqueues \/ ReadAgent \/ ReceiveEvent
  BY <1>3, PumpReplayInv, AttachEnqueuesInv, ReadAgentInv, ReceiveEventInv
<1>4. CASE PumpFindsClosed \/ ExitFails
  BY <1>1, <1>4, DetachInv DEF PumpFindsClosed, ExitFails, SessionPcs
<1>5. CASE KeepaliveExpires
  <2>1. faults' \in 0 .. MaxFaults
    BY <1>1, <1>5, NetworkAssumption DEF KeepaliveExpires
  <2> QED BY <1>1, <1>5, <2>1, DetachInv DEF KeepaliveExpires, SessionPcs
<1>6. CASE EnterSelect
  BY <1>2, <1>6, ProceedIn DEF EnterSelect, SessionPcs
<1>7. CASE Wake
  BY <1>2, <1>7, ProceedIn DEF Wake, SessionPcs
<1>8. CASE ExitConfirmed
  BY <1>2, <1>8, EndLoopIn DEF ExitConfirmed, EndCategories
<1>9. CASE ServerShutdown
  BY <1>2, <1>9, EndLoopIn DEF ServerShutdown, EndCategories
<1>10. CASE GraceExpires
  BY <1>2, <1>10, EndLoopIn DEF GraceExpires, EndCategories
<1>11. CASE ChildWait
  <2>1. session' \in SessionState(ServerEnvelopes) /\ session'.pc # "reply"
    BY <1>1, <1>11 DEF ChildWait, SessionState, SessionPcs
  <2> QED BY <1>2, <1>11, <2>1 DEF ChildWait
<1>12. CASE AttachSucceeds
  <2>1. session' \in SessionState(ServerEnvelopes) /\ session'.pc # "reply"
    BY <1>1, <1>12 DEF AttachSucceeds, SessionState, SessionPcs
  <2> QED BY <1>2, <1>12, <2>1 DEF AttachSucceeds
<1>13. CASE AttachFails
  <2>1. session' \in SessionState(ServerEnvelopes) /\ session'.pc # "reply"
    BY <1>1, <1>13 DEF AttachFails, AfterFailedAttach, SessionState, SessionPcs
  <2> QED BY <1>2, <1>13, <2>1 DEF AttachFails
<1>14. CASE SendExit
  <2>1. session' \in SessionState(ServerEnvelopes) /\ session'.pc # "reply"
    BY <1>1, <1>14 DEF SendExit, SessionState, SessionPcs
  <2>2. Control("exit") \in ServerEnvelopes
    BY ControlIn DEF ControlTypes
  <2> QED BY <1>1, <1>14, <2>1, <2>2, EnqueueStep DEF SendExit, agentVars
<1>15. CASE SendNoise
  <2>1. session' \in SessionState(ServerEnvelopes) /\ session'.pc # "reply"
    BY <1>15, ProceedIn DEF SendNoise, SessionPcs
  <2>2. ambient' \in [cancelled : BOOLEAN, noise : 0 .. MaxNoise]
    <3>1. ambient.noise + 1 \in 0 .. MaxNoise
      BY <1>1, <1>15, SessionAssumption DEF SendNoise
    <3>2. ambient' = [ambient EXCEPT !.noise = ambient.noise + 1]
      BY <1>15 DEF SendNoise
    <3> QED BY <1>1, <3>1, <3>2
  <2>3. PICK type \in {"ping", "stderr"} :
          TryEnqueue(session.transport, Control(type))
    BY <1>15 DEF SendNoise
  <2>4. Control(type) \in ServerEnvelopes
    BY ControlIn DEF ControlTypes
  <2>5. Enqueue(session.transport, Control(type)) \/ UNCHANGED tasks
    BY <2>3 DEF TryEnqueue
  <2> QED BY <1>15, <2>1, <2>2, <2>4, <2>5, EnqueueStep DEF SendNoise
<1>16. CASE SendReply
  <2>1. Head(session.outbox) \in ServerEnvelopes
    BY <1>1, <1>16, HeadIn DEF SendReply, SessionInv, SessionState
  <2>2. << >> \in Seq(ServerEnvelopes)
    OBVIOUS
  <2>3. session' \in SessionState(ServerEnvelopes) /\ session'.pc # "reply"
    BY <1>1, <1>16, <2>2 DEF SendReply, SessionState, SessionPcs
  <2>4. Enqueue(session.transport, Head(session.outbox)) \/ UNCHANGED tasks
    BY <1>16 DEF SendReply, TryEnqueue
  <2> QED BY <1>1, <1>16, <2>1, <2>3, <2>4, EnqueueStep DEF SendReply, agentVars
<1>17. CASE ReapAgent
  <2>1. session' \in SessionState(ServerEnvelopes) /\ session'.pc # "reply"
    BY <1>1, <1>17, FarewellIn DEF ReapAgent, SessionState, SessionPcs
  <2>2. agent' \in [alive : BOOLEAN, written : 0 .. Len(AgentOutput),
                    read : 0 .. Len(AgentOutput)]
    BY <1>1, <1>17 DEF ReapAgent
  <2> QED BY <1>1, <1>17, <2>1, <2>2, QuietStep DEF ReapAgent
<1>18. CASE SendFarewell
  <2>1. /\ Head(session.outbox) \in ServerEnvelopes
        /\ Tail(session.outbox) \in Seq(ServerEnvelopes)
        /\ << >> \in Seq(ServerEnvelopes)
    BY <1>1, <1>18, HeadIn DEF SendFarewell, SessionState
  <2>2. session' \in SessionState(ServerEnvelopes) /\ session'.pc # "reply"
    BY <1>1, <1>18, <2>1 DEF SendFarewell, SessionState, SessionPcs
  <2> QED BY <1>1, <1>18, <2>1, <2>2, EnqueueStep DEF SendFarewell, agentVars
<1>19. CASE EndSession
  <2>1. tasks' \in [Sockets -> Task(ServerEnvelopes, ClientEvents)]
    BY <1>1, <1>19, TaskConstants DEF EndSession
  <2>2. session.endCategory \in EndCategories
    BY <1>1 DEF SessionState
  <2> QED BY <1>19, <2>1, <2>2, LeaveInv DEF EndSession
<1>20. CASE TakeAttachment
  <2>1. /\ Head(attachments) \in Sockets
        /\ Tail(attachments) \in Seq(Sockets)
    BY <1>20, HeadIn DEF TakeAttachment, SessionInv
  <2>2. UNCHANGED frameVars /\ UNCHANGED <<agentVars, events, faults>>
    BY <1>20 DEF TakeAttachment
  <2>3. UNCHANGED <<nextClient, nextServer, outputs>>
    BY <2>2 DEF clientVars, streamVars, frameVars
  <2>4. /\ ClientEnvelopes' = ClientEnvelopes
        /\ ClientEvents' = ClientEvents
        /\ ServerEnvelopes' = ServerEnvelopes
    BY <2>3, SetsKeep
  <2>5. NetworkInv'
    BY <1>20, <2>2, <2>4, CloseServerEndIn DEF TakeAttachment, NetworkInv
  <2>6. session' \in SessionState(ServerEnvelopes) /\ session'.pc # "reply"
    BY <1>1, <1>20, <2>1 DEF TakeAttachment, SessionState, SessionPcs
  <2>7. SessionInv'
    BY <1>20, <2>1, <2>2, <2>4, <2>6 DEF TakeAttachment, SessionInv, agentVars
  <2>8. ChannelInv'
    BY <1>1, <1>20, <2>2, <2>4, TaskConstants DEF TakeAttachment, ChannelInv
  <2> QED BY <2>2, <2>5, <2>7, <2>8, FramesKeep
<1>21. CASE ReapFails
  BY <1>1, <1>21, LeaveInv DEF ReapFails, Abandon, EndCategories
<1> QED
  BY <1>3, <1>4, <1>5, <1>6, <1>7, <1>8, <1>9, <1>10, <1>11, <1>12, <1>13,
     <1>14, <1>15, <1>16, <1>17, <1>18, <1>19, <1>20, <1>21 DEF SessionNext

\* run_tunnel and resume_tunnel hand over, refuse or drop a resumed socket.
LEMMA AcceptResumeInv ==
    ASSUME LinesKeepTheirNumbers, UNCHANGED clientVars, NEW s \in Sockets,
           AcceptResume(s)
    PROVE  LinesKeepTheirNumbers'
<1> USE DEF LinesKeepTheirNumbers
<1>1. UNCHANGED frameVars /\ UNCHANGED <<session, agentVars, tasks, events, faults>>
  BY DEF AcceptResume
<1>2. UNCHANGED <<nextClient, nextServer, outputs>>
  BY <1>1 DEF clientVars, streamVars, frameVars
<1>3. /\ ClientEnvelopes' = ClientEnvelopes
      /\ ClientEvents' = ClientEvents
      /\ ServerEnvelopes' = ServerEnvelopes
  BY <1>2, SetsKeep
<1>4. NetworkInv'
  <2>1. CASE CloseServerEnd({s})
    BY <1>1, <1>3, <2>1, CloseServerEndIn DEF NetworkInv
  <2>2. CASE /\ s2c' = Transmit(s2c, s, Control("error"))
             /\ up' = [up EXCEPT ![s] = FALSE]
             /\ c2s' = [c2s EXCEPT ![s] = << >>]
    <3>1. Transmit(s2c, s, Control("error")) \in [Sockets -> Seq(ServerEnvelopes)]
      BY ControlIn, TransmitIn DEF NetworkInv, ControlTypes
    <3>2. << >> \in Seq(ClientEnvelopes)
      OBVIOUS
    <3> QED BY <1>1, <1>3, <2>2, <3>1, <3>2 DEF NetworkInv
  <2>3. CASE c2s' = [c2s EXCEPT ![s] = Tail(@)] /\ UNCHANGED <<s2c, up>>
    <3>1. Tail(c2s[s]) \in Seq(ClientEnvelopes)
      BY HeadIn DEF AcceptResume, NetworkInv
    <3> QED BY <1>1, <1>3, <2>3, <3>1 DEF NetworkInv
  <2> QED BY <2>1, <2>2, <2>3 DEF AcceptResume
<1>5. attachments' \in Seq(Sockets)
  <2>1. Append(attachments, s) \in Seq(Sockets)
    BY AppendIn DEF SessionInv
  <2> QED BY <2>1 DEF AcceptResume, SessionInv
<1>6. SessionInv'
  BY <1>1, <1>3, <1>5 DEF SessionInv, agentVars
<1>7. ChannelInv'
  BY <1>1, <1>3 DEF ChannelInv
<1> QED BY <1>1, <1>4, <1>6, <1>7, FramesKeep

\* Every step on the server's side keeps the invariant.
LEMMA ServerStepInv ==
    ASSUME LinesKeepTheirNumbers, ServerStep
    PROVE  LinesKeepTheirNumbers'
<1> USE DEF LinesKeepTheirNumbers
<1>1. UNCHANGED clientVars
  BY DEF ServerStep
<1>2. CASE SessionNext
  BY <1>1, <1>2, SessionStepInv
<1>3. CASE \E s \in Sockets : TaskNext(s) \/ AcceptResume(s)
  BY <1>1, <1>3, TaskStepInv, AcceptResumeInv
<1>4. CASE AgentWrites \/ AgentExits \/ Cancel
  <2>1. /\ UNCHANGED frameVars
        /\ UNCHANGED <<session, channelVars, networkVars>>
    BY <1>4 DEF AgentWrites, AgentExits, Cancel
  <2>2. UNCHANGED <<nextClient, nextServer, outputs>>
    BY <1>1, <2>1 DEF clientVars, streamVars, frameVars
  <2>3. /\ ClientEnvelopes' = ClientEnvelopes
        /\ ClientEvents' = ClientEvents
        /\ ServerEnvelopes' = ServerEnvelopes
    BY <2>2, SetsKeep
  <2>4. Len(AgentOutput) \in Nat
    BY SessionAssumption, LenProperties
  <2>5. agent' \in [alive : BOOLEAN, written : 0 .. Len(AgentOutput),
                    read : 0 .. Len(AgentOutput)]
    <3>1. CASE AgentWrites
      <4>1. agent.written + 1 \in 0 .. Len(AgentOutput)
        BY <2>4, <3>1 DEF SessionInv, AgentWrites
      <4>2. agent' = [agent EXCEPT !.written = agent.written + 1]
        BY <3>1 DEF AgentWrites
      <4> QED BY <4>1, <4>2 DEF SessionInv
    <3>2. CASE AgentExits
      BY <3>2 DEF SessionInv, AgentExits
    <3>3. CASE Cancel
      BY <3>3 DEF SessionInv, Cancel
    <3> QED BY <1>4, <3>1, <3>2, <3>3
  <2>6. ambient' \in [cancelled : BOOLEAN, noise : 0 .. MaxNoise]
    BY <1>4 DEF SessionInv, AgentWrites, AgentExits, Cancel
  <2>7. NetworkInv' /\ SessionInv' /\ ChannelInv'
    BY <2>1, <2>3, <2>5, <2>6
    DEF NetworkInv, SessionInv, ChannelInv, channelVars, networkVars
  <2> QED BY <1>1, <2>1, <2>7, FramesKeep
<1> QED BY <1>2, <1>3, <1>4 DEF ServerStep, ServerNext

\* Every step of the tunnel keeps the invariant: it is inductive.
LEMMA NextInv ==
    ASSUME LinesKeepTheirNumbers, [Next]_vars
    PROVE  LinesKeepTheirNumbers'
<1>1. CASE Next
  BY <1>1, ConnectorStepInv, ServerStepInv, NetworkStepInv DEF Next
<1>2. CASE UNCHANGED vars
  <2>1. /\ UNCHANGED <<nextClient, nextServer, outputs>>
        /\ UNCHANGED clientVars /\ UNCHANGED frameVars
        /\ UNCHANGED <<session, channelVars, agentVars, networkVars>>
    BY <1>2 DEF vars, clientVars, streamVars, serverVars, frameVars
  <2>2. /\ ClientEnvelopes' = ClientEnvelopes
        /\ ClientEvents' = ClientEvents
        /\ ServerEnvelopes' = ServerEnvelopes
    BY <2>1, SetsKeep
  <2>3. NetworkInv' /\ SessionInv' /\ ChannelInv'
    BY <2>1, <2>2
    DEF LinesKeepTheirNumbers, NetworkInv, SessionInv, ChannelInv, channelVars,
        agentVars, networkVars
  <2> QED BY <2>1, <2>3, FramesKeep
<1> QED BY <1>1, <1>2

\* In every behaviour of the tunnel a sequence number keeps naming the same
\* line, wherever the line is.
THEOREM LineNumbers == Spec => []LinesKeepTheirNumbers
<1>1. Init => LinesKeepTheirNumbers
  BY InitInv
<1>2. LinesKeepTheirNumbers /\ [Next]_vars => LinesKeepTheirNumbers'
  BY NextInv
<1> QED BY <1>1, <1>2, PTL DEF Spec

\* Every variable of the tunnel has its type: a sequence number is positive,
\* a queue holds envelopes and an acknowledgement never underflows.
THEOREM TypeCorrect == Spec => []TypeOK
<1>1. LinesKeepTheirNumbers => TypeOK
  <2> SUFFICES ASSUME LinesKeepTheirNumbers PROVE TypeOK
    OBVIOUS
  <2> USE DEF LinesKeepTheirNumbers
  <2>1. /\ Seq(ClientEnvelopes) \subseteq Seq(Envelopes)
        /\ Seq(ServerEnvelopes) \subseteq Seq(Envelopes)
        /\ Seq(ClientEvents) \subseteq Seq(Event)
        /\ Seq(ClientFrames) \subseteq Seq(PendingFrame)
        /\ Seq(ServerFrames) \subseteq Seq(ServerFrame)
    BY SeqGrows
    DEF ClientEnvelopes, ServerEnvelopes, ClientEvents, ClientFrames,
        ServerFrames
  <2>2. NetworkTypeOK
    BY <2>1 DEF NetworkInv, NetworkTypeOK
  <2>3. /\ nextClient \in Nat \ {0} /\ nextServer \in Nat \ {0}
        /\ nextClient - 1 <= Len(ClientInput)
        /\ expectedClient \in 1 .. nextClient
        /\ expectedServer \in 1 .. nextServer
    BY ConnectorAssumption, LenProperties
    DEF RetainedInv, QueueInv, HandledInv, StdoutInv
  <2>4. stdout \in Seq(Payloads)
    <3>1. \A n \in 1 .. expectedServer - 1 : outputs[n] \in Payloads
      BY <2>3, LenProperties, ElementOfSeq DEF QueueInv
    <3> QED BY <2>3, <3>1 DEF StdoutInv
  <2>5. handled \in Seq(PolicyOutcome)
    <3>1. \A n \in 1 .. expectedClient - 1 : ClientInput[n] \in Payloads
      BY <2>3, ConnectorAssumption, LenProperties, ElementOfSeq
    <3>2. \A n \in 1 .. expectedClient - 1 :
            Apply[ClientInput[n]] \in PolicyOutcome
      BY <3>1, SessionAssumption
    <3> QED BY <2>3, <3>2 DEF HandledInv
  <2>6. ConnectorTypeOK
    <3>1. client \in ClientState(Envelopes)
      BY <2>1 DEF ConnectorInv, ClientState
    <3> QED BY <2>1, <2>3, <2>4, <3>1 DEF RetainedInv, ConnectorTypeOK
  <2>7. SessionTypeOK
    <3>1. session \in SessionState(Envelopes)
      BY <2>1 DEF SessionInv, SessionState
    <3>2. tasks \in [Sockets -> Task(Envelopes, Event)]
      BY <2>1 DEF ChannelInv, Task
    <3> QED BY <2>1, <2>3, <2>5, <3>1, <3>2
      DEF SessionInv, ChannelInv, QueueInv, SessionTypeOK
  <2> QED BY <2>2, <2>6, <2>7 DEF TypeOK
<1> QED BY <1>1, LineNumbers, PTL

-----------------------------------------------------------------------------
(* The refinement of ReliablePipe: how a step moves the counters.          *)

\* run_agent_session accepts at most one client line in a step, and queues at
\* most one line of its own.
LEMMA SessionCounts ==
    ASSUME SessionNext
    PROVE  /\ expectedClient' \in {expectedClient, expectedClient + 1}
           /\ \/ outputs' = outputs
              \/ \E p : outputs' = Append(outputs, p)
<1>1. CASE PumpReplay \/ AttachEnqueues
  BY <1>1 DEF PumpReplay, AttachEnqueues
<1>2. CASE ReadAgent
  BY <1>2 DEF ReadAgent, QueueServerFrame
<1>3. CASE ReceiveEvent
  <2> DEFINE event == Head(events)
  <2>1. CASE UNCHANGED frameVars
    BY <2>1 DEF frameVars
  <2>2. CASE HandleAcp(event.envelope)
    <3>1. CASE UNCHANGED frameVars
      BY <3>1 DEF frameVars
    <3>2. CASE ForwardLine(event.envelope)
      BY <3>2 DEF ForwardLine, Accept, Abandon, frameVars
    <3>3. CASE RejectLine(event.envelope)
      BY <3>3 DEF RejectLine, Accept, QueueServerFrame, Only, frameVars
    <3>4. CASE Abandon("policy_error")
      BY <3>4 DEF Abandon, frameVars
    <3> QED BY <2>2, <3>1, <3>2, <3>3, <3>4 DEF HandleAcp
  <2>3. CASE HandleAck(event.envelope)
    BY <2>3 DEF HandleAck
  <2>4. CASE HandleControl(event.envelope)
    <3>1. UNCHANGED frameVars
      BY <2>4 DEF HandleControl, Only
    <3> QED BY <2>1, <3>1
  <2>5. CASE HandleClientEnvelope(event.envelope)
    <3>1. CASE Violation(event.envelope) # "none"
      BY <2>1, <2>5, <3>1 DEF HandleClientEnvelope, Only
    <3>2. CASE ~(Violation(event.envelope) # "none")
      BY <2>2, <2>3, <2>4, <2>5, <3>2 DEF HandleClientEnvelope
    <3> QED BY <3>1, <3>2
  <2> QED BY <1>3, <2>1, <2>5 DEF ReceiveEvent, Only, Detach
<1>4. CASE \/ PumpFindsClosed \/ EnterSelect \/ SendExit \/ ExitConfirmed
           \/ ExitFails \/ ChildWait \/ TakeAttachment \/ AttachSucceeds
           \/ AttachFails \/ ServerShutdown \/ KeepaliveExpires \/ SendNoise
           \/ Wake \/ GraceExpires \/ SendReply \/ ReapAgent \/ ReapFails
           \/ SendFarewell \/ EndSession
  <2>1. UNCHANGED frameVars
    BY <1>4
    DEF PumpFindsClosed, EnterSelect, SendExit, ExitConfirmed, ExitFails,
        ChildWait, TakeAttachment, AttachSucceeds, AttachFails,
        ServerShutdown, KeepaliveExpires, SendNoise, Wake, GraceExpires,
        SendReply, ReapAgent, ReapFails, SendFarewell, EndSession, Detach,
        Abandon
  <2> QED BY <2>1 DEF frameVars
<1> QED BY <1>1, <1>2, <1>3, <1>4 DEF SessionNext

\* A transport task, an agent and a resumed socket leave the lines alone.
LEMMA OtherServerCounts ==
    ASSUME ServerNext, ~SessionNext
    PROVE  UNCHANGED frameVars
<1>1. CASE AgentWrites \/ AgentExits \/ Cancel
  BY <1>1 DEF AgentWrites, AgentExits, Cancel
<1>2. ASSUME NEW s \in Sockets, TaskNext(s) PROVE UNCHANGED frameVars
  BY <1>2
  DEF TaskNext, TaskWrites, TaskFinishes, TaskBlocks, TaskWriteFails,
      TaskReads, TaskSeesEnd, TaskHandsOver, OrphanStops
<1>3. ASSUME NEW s \in Sockets, AcceptResume(s) PROVE UNCHANGED frameVars
  BY <1>3 DEF AcceptResume
<1> QED BY <1>1, <1>2, <1>3 DEF ServerNext

\* The connector reads at most one line, or writes at most one to stdout.
LEMMA ConnectorCounts ==
    ASSUME LinesKeepTheirNumbers, ConnectorNext
    PROVE  /\ nextClient' \in {nextClient, nextClient + 1}
           /\ expectedServer' \in {expectedServer, expectedServer + 1}
<1>1. CASE UNCHANGED streamVars
  BY <1>1 DEF streamVars
<1>2. CASE ReadStdin
  BY <1>2, <1>1 DEF ReadStdin
<1>3. CASE Receive
  <2>1. CASE ReceiveAcp(Incoming)
    BY <1>1, <2>1 DEF ReceiveAcp, ExpectedAfter
  <2>2. CASE ReceiveAck(Incoming)
    BY <1>1, <2>2 DEF ReceiveAck
  <2>3. CASE ReceiveControl(Incoming)
    BY <1>1, <2>3 DEF ReceiveControl
  <2> QED BY <1>3, <2>1, <2>2, <2>3 DEF Receive
<1>4. CASE \/ StartShutdown \/ WriteOutgoing \/ LoseSocket \/ KeepaliveTimeout
           \/ Dial \/ ReceiveReady \/ AbandonAttempt \/ ShutdownWhileDetached
           \/ ReplayFrame \/ FinishReplay \/ GiveUp \/ SendShutdown
           \/ AwaitComplete \/ Signal \/ ConnectorDies
  <2>1. UNCHANGED streamVars
    BY <1>4
    DEF StartShutdown, WriteOutgoing, LoseSocket, KeepaliveTimeout, Dial,
        ReceiveReady, AbandonAttempt, ShutdownWhileDetached, ReplayFrame,
        FinishReplay, GiveUp, SendShutdown, AwaitComplete, Signal,
        ConnectorDies
  <2> QED BY <1>1, <2>1
<1> QED BY <1>2, <1>3, <1>4 DEF ConnectorNext

\* The steps of the whole tunnel, seen from the four counters.
LEMMA StepCounts ==
    ASSUME LinesKeepTheirNumbers, [Next]_vars
    PROVE  /\ \/ nextClient' = nextClient /\ expectedClient' = expectedClient
              \/ nextClient' = nextClient + 1 /\ expectedClient' = expectedClient
              \/ nextClient' = nextClient /\ expectedClient' = expectedClient + 1
           /\ \/ outputs' = outputs /\ expectedServer' = expectedServer
              \/ /\ expectedServer' = expectedServer
                 /\ \E p : outputs' = Append(outputs, p)
              \/ outputs' = outputs /\ expectedServer' = expectedServer + 1
<1>1. CASE ConnectorStep
  <2>1. UNCHANGED <<expectedClient, outputs>>
    BY <1>1 DEF ConnectorStep, serverVars, frameVars
  <2> QED BY <1>1, <2>1, ConnectorCounts DEF ConnectorStep
<1>2. CASE ServerStep
  <2>1. UNCHANGED <<nextClient, expectedServer>>
    BY <1>2 DEF ServerStep, clientVars, streamVars
  <2>2. CASE SessionNext
    BY <2>1, <2>2, SessionCounts
  <2>3. CASE UNCHANGED frameVars
    BY <2>1, <2>3 DEF frameVars
  <2> QED BY <1>2, <2>2, <2>3, OtherServerCounts DEF ServerStep
<1>3. CASE NetworkStep \/ UNCHANGED vars
  BY <1>3
  DEF NetworkStep, vars, clientVars, streamVars, serverVars, frameVars
<1> QED BY <1>1, <1>2, <1>3 DEF Next

-----------------------------------------------------------------------------
(* From the connector's stdin to the agent.                                *)

\* What a step does to the lines read and handled is a step of the pipe.
LEMMA InputStep ==
    ASSUME LinesKeepTheirNumbers, LinesKeepTheirNumbers', [Next]_vars
    PROVE  [ToAgent!Write \/ ToAgent!Deliver]_<<ClientLog, handled>>
<1>1. /\ nextClient \in Nat \ {0}
      /\ expectedClient \in 1 .. nextClient
      /\ handled = [n \in 1 .. expectedClient - 1 |-> Apply[ClientInput[n]]]
      /\ expectedClient' \in 1 .. nextClient'
      /\ handled' = [n \in 1 .. expectedClient' - 1 |-> Apply[ClientInput[n]]]
  BY ConnectorAssumption, LenProperties
  DEF LinesKeepTheirNumbers, RetainedInv, HandledInv
<1>2. Len(ClientLog) = nextClient - 1 /\ Len(handled) = expectedClient - 1
  BY <1>1 DEF ClientLog
<1>3. CASE nextClient' = nextClient /\ expectedClient' = expectedClient
  <2>1. ClientLog' = ClientLog /\ handled' = handled
    BY <1>1, <1>3 DEF ClientLog
  <2> QED BY <2>1
<1>4. CASE nextClient' = nextClient + 1 /\ expectedClient' = expectedClient
  <2>1. handled' = handled
    BY <1>1, <1>4
  <2>2. ClientLog' = [n \in 1 .. nextClient |-> Apply[ClientInput[n]]]
    BY <1>1, <1>4 DEF ClientLog
  <2>3. Len(ClientLog') = Len(ClientLog) + 1
    BY <1>1, <1>2, <2>2
  <2>4. ClientLog = SubSeq(ClientLog', 1, Len(ClientLog))
    <3>1. nextClient \in Nat /\ nextClient - 1 \in Nat
      BY <1>1
    <3>2. SubSeq(ClientLog', 1, nextClient - 1)
            = [n \in 1 .. nextClient - 1 |-> ClientLog'[n]]
      BY <3>1
    <3>3. \A n \in 1 .. nextClient - 1 :
            ClientLog'[n] = Apply[ClientInput[n]]
      BY <2>2, <3>1
    <3> QED BY <1>2, <3>2, <3>3 DEF ClientLog
  <2> QED BY <2>1, <2>3, <2>4 DEF ToAgent!Write
<1>5. CASE nextClient' = nextClient /\ expectedClient' = expectedClient + 1
  <2>1. ClientLog' = ClientLog
    BY <1>5 DEF ClientLog
  <2>2. Len(handled) < Len(ClientLog)
    BY <1>1, <1>2, <1>5
  <2>3. ClientLog[Len(handled) + 1] = Apply[ClientInput[expectedClient]]
    BY <1>1, <1>2, <1>5 DEF ClientLog
  <2>4. handled' = [n \in 1 .. expectedClient |-> Apply[ClientInput[n]]]
    BY <1>1, <1>5
  <2>5. handled' = Append(handled, Apply[ClientInput[expectedClient]])
    <3>1. expectedClient \in Nat \ {0}
      BY <1>1
    <3>2. handled = [n \in 1 .. expectedClient - 1 |-> Apply[ClientInput[n]]]
      BY <1>1
    <3> QED BY <2>4, <3>1, <3>2
  <2> QED BY <2>1, <2>2, <2>3, <2>5 DEF ToAgent!Deliver
<1> QED BY <1>3, <1>4, <1>5, StepCounts

\* Every line the connector reads is handled by handle_client_envelope
\* exactly once and in order, whatever transports are lost and resumed.
THEOREM InputReliable == Spec => InputIsReliable
<1>1. Init => ToAgent!PipeInit
  BY DEF Init, ConnectorInit, SessionInit, ToAgent!PipeInit, ClientLog
<1>2. LinesKeepTheirNumbers /\ LinesKeepTheirNumbers' /\ [Next]_vars
        => [ToAgent!Write \/ ToAgent!Deliver]_<<ClientLog, handled>>
  BY InputStep
<1> QED BY <1>1, <1>2, LineNumbers, PTL
  DEF Spec, InputIsReliable, ToAgent!PipeSpec

-----------------------------------------------------------------------------
(* From the agent, and from the policy, to the connector's stdout.         *)

\* What a step does to the lines queued and printed is a step of the pipe.
LEMMA OutputStep ==
    ASSUME LinesKeepTheirNumbers, LinesKeepTheirNumbers', [Next]_vars
    PROVE  [ToStdout!Write \/ ToStdout!Deliver]_<<outputs, stdout>>
<1>1. /\ outputs \in Seq(Payloads) /\ outputs' \in Seq(Payloads)
      /\ Len(outputs) \in Nat
      /\ expectedServer \in 1 .. Len(outputs) + 1
      /\ stdout = [n \in 1 .. expectedServer - 1 |-> outputs[n]]
      /\ expectedServer' \in 1 .. Len(outputs') + 1
      /\ stdout' = [n \in 1 .. expectedServer' - 1 |-> outputs'[n]]
  BY LenProperties DEF LinesKeepTheirNumbers, QueueInv, StdoutInv
<1>2. Len(stdout) = expectedServer - 1
  BY <1>1
<1>3. CASE outputs' = outputs /\ expectedServer' = expectedServer
  BY <1>1, <1>3
<1>4. CASE expectedServer' = expectedServer /\ \E p : outputs' = Append(outputs, p)
  <2>1. PICK p : outputs' = Append(outputs, p)
    BY <1>4
  <2>2. /\ Len(outputs') = Len(outputs) + 1
        /\ \A n \in 1 .. Len(outputs) : outputs'[n] = outputs[n]
    BY <1>1, <2>1
  <2>3. stdout' = stdout
    BY <1>1, <1>4, <2>2
  <2>4. outputs = SubSeq(outputs', 1, Len(outputs))
    BY <1>1, <2>2
  <2> QED BY <2>2, <2>3, <2>4 DEF ToStdout!Write
<1>5. CASE outputs' = outputs /\ expectedServer' = expectedServer + 1
  <2>1. Len(stdout) < Len(outputs)
    BY <1>1, <1>2, <1>5
  <2>2. stdout' = [n \in 1 .. expectedServer |-> outputs[n]]
    BY <1>1, <1>5
  <2>3. stdout' = Append(stdout, outputs[expectedServer])
    <3>1. expectedServer \in Nat \ {0}
      BY <1>1
    <3>2. stdout = [n \in 1 .. expectedServer - 1 |-> outputs[n]]
      BY <1>1
    <3> QED BY <2>2, <3>1, <3>2
  <2>4. expectedServer = Len(stdout) + 1
    BY <1>1, <1>2
  <2> QED BY <1>5, <2>1, <2>3, <2>4 DEF ToStdout!Deliver
<1> QED BY <1>3, <1>4, <1>5, StepCounts

\* Every line the session queues, an agent line or a rejection, is written to
\* the connector's stdout exactly once and in order.
THEOREM OutputReliable == Spec => OutputIsReliable
<1>1. Init => ToStdout!PipeInit
  BY DEF Init, ConnectorInit, SessionInit, ToStdout!PipeInit
<1>2. LinesKeepTheirNumbers /\ LinesKeepTheirNumbers' /\ [Next]_vars
        => [ToStdout!Write \/ ToStdout!Deliver]_<<outputs, stdout>>
  BY OutputStep
<1> QED BY <1>1, <1>2, LineNumbers, PTL
  DEF Spec, OutputIsReliable, ToStdout!PipeSpec
=============================================================================
