---------------------------- MODULE TunnelInput -----------------------------
(***************************************************************************)
(* What the connector tells the session, and in what order.  Three queues  *)
(* lie between the two: the socket, the event that the transport task      *)
(* holds while the session's channel is full, and that channel, where the  *)
(* events of several sockets mix.  Every ACP envelope in them comes behind *)
(* all lines that the session still misses below it, also after a replay,  *)
(* and on the first socket `shutdown` comes behind all lines.  With the    *)
(* other direction (TunnelOrder) this shows that neither side ever finds   *)
(* the other at fault, and that a confirmed shutdown lost no input.        *)
(***************************************************************************)
EXTENDS TunnelOrder

-----------------------------------------------------------------------------
(* The envelopes on their way to the session: those of socket s among the  *)
(* events, the one its task holds because the events are full, and those   *)
(* in the stream.  The end of a socket, and the events of other sockets,   *)
(* count as a pong.                                                        *)

Said(v, s) == IF v.socket = s /\ v.kind = "envelope" THEN v.envelope ELSE Control("pong")
EnvelopesOf(q, s) == [i \in 1 .. Len(q) |-> Said(q[i], s)]
Read(s) == EnvelopesOf(events, s)
Held(s) == EnvelopesOf(tasks[s].held, s)
Arriving(s) == Pending3(Read(s), Held(s), c2s[s])

\* They are envelopes.
LEMMA SaidIn ==
    ASSUME NEW v \in Event, NEW s
    PROVE  Said(v, s) \in Envelopes
<1>1. Control("pong") \in Envelopes
  BY DEF Control, Envelopes, ControlTypes
<1> QED BY <1>1 DEF Said, Event

\* They are as many as the events.
LEMMA EnvelopesOfSeq ==
    ASSUME NEW q \in Seq(Event), NEW s
    PROVE  /\ EnvelopesOf(q, s) \in Seq(Envelopes)
           /\ Len(EnvelopesOf(q, s)) = Len(q)
           /\ \A i \in 1 .. Len(q) : EnvelopesOf(q, s)[i] = Said(q[i], s)
           /\ q = << >> => EnvelopesOf(q, s) = << >>
<1>1. Len(q) \in Nat /\ \A i \in 1 .. Len(q) : q[i] \in Event
  BY ElementOfSeq, LenProperties
<1>2. EnvelopesOf(q, s) \in [1 .. Len(q) -> Envelopes]
  BY <1>1, SaidIn DEF EnvelopesOf
<1>3. EnvelopesOf(q, s) \in Seq(Envelopes)
  BY <1>1, <1>2, SeqDef
<1>4. DOMAIN EnvelopesOf(q, s) = 1 .. Len(q)
  BY DEF EnvelopesOf
<1>5. Len(EnvelopesOf(q, s)) = Len(q)
  BY <1>1, <1>3, <1>4, LenProperties
<1>6. q = << >> => EnvelopesOf(q, s) = << >>
  BY <1>3, <1>5, EmptySeq
<1> QED BY <1>3, <1>5, <1>6 DEF EnvelopesOf

\* One more event at the end.
LEMMA EnvelopesOfAppend ==
    ASSUME NEW q \in Seq(Event), NEW v \in Event, NEW s
    PROVE  EnvelopesOf(Append(q, v), s) = Append(EnvelopesOf(q, s), Said(v, s))
<1> DEFINE e == EnvelopesOf(q, s)
           r == Append(q, v)
           g == EnvelopesOf(r, s)
           h == Append(e, Said(v, s))
<1>1. /\ Len(q) \in Nat /\ r \in Seq(Event) /\ Len(r) = Len(q) + 1
      /\ \A i \in 1 .. Len(q) : r[i] = q[i]
      /\ r[Len(q) + 1] = v
  BY AppendProperties, LenProperties
<1>2. /\ e \in Seq(Envelopes) /\ Len(e) = Len(q)
      /\ \A i \in 1 .. Len(q) : e[i] = Said(q[i], s)
  BY EnvelopesOfSeq
<1>3. /\ g \in Seq(Envelopes) /\ Len(g) = Len(q) + 1
      /\ \A i \in 1 .. Len(q) + 1 : g[i] = Said(r[i], s)
  BY <1>1, EnvelopesOfSeq
<1>4. /\ h \in Seq(Envelopes) /\ Len(h) = Len(q) + 1
      /\ \A i \in 1 .. Len(q) : h[i] = e[i]
      /\ h[Len(q) + 1] = Said(v, s)
  BY <1>2, SaidIn, AppendProperties
<1> HIDE DEF e, r, g, h
<1>5. ASSUME NEW i \in 1 .. Len(q) + 1 PROVE g[i] = h[i]
  <2>1. CASE i \in 1 .. Len(q)
    BY <1>1, <1>2, <1>3, <1>4, <2>1
  <2>2. CASE i = Len(q) + 1
    BY <1>1, <1>3, <1>4, <2>2
  <2> QED BY <1>1, <1>5, <2>1, <2>2
<1>6. g = h
  BY <1>3, <1>4, <1>5, SeqEqual
<1> QED BY <1>6 DEF g, h, r, e

\* The first event is taken.
LEMMA EnvelopesOfTail ==
    ASSUME NEW q \in Seq(Event), q # << >>, NEW s
    PROVE  /\ EnvelopesOf(q, s) # << >>
           /\ Head(EnvelopesOf(q, s)) = Said(Head(q), s)
           /\ Tail(EnvelopesOf(q, s)) = EnvelopesOf(Tail(q), s)
<1> DEFINE e == EnvelopesOf(q, s)
           r == Tail(q)
           g == EnvelopesOf(r, s)
           h == Tail(e)
<1>1. /\ Len(q) \in Nat /\ Len(q) > 0 /\ r \in Seq(Event) /\ Len(r) = Len(q) - 1
      /\ \A i \in 1 .. Len(r) : r[i] = q[i + 1]
      /\ Head(q) = q[1]
  BY TailElements, LenProperties, HeadIn
<1>2. /\ e \in Seq(Envelopes) /\ Len(e) = Len(q)
      /\ \A i \in 1 .. Len(q) : e[i] = Said(q[i], s)
  BY EnvelopesOfSeq
<1>3. /\ g \in Seq(Envelopes) /\ Len(g) = Len(q) - 1
      /\ \A i \in 1 .. Len(q) - 1 : g[i] = Said(r[i], s)
  BY <1>1, EnvelopesOfSeq
<1>4. e # << >>
  BY <1>1, <1>2, EmptySeq
<1>5. /\ h \in Seq(Envelopes) /\ Len(h) = Len(q) - 1
      /\ \A i \in 1 .. Len(q) - 1 : h[i] = e[i + 1]
      /\ Head(e) = e[1]
  BY <1>1, <1>2, <1>4, TailElements, HeadIn
<1> HIDE DEF e, r, g, h
<1>6. ASSUME NEW i \in 1 .. Len(q) - 1 PROVE g[i] = h[i]
  <2>1. i + 1 \in 1 .. Len(q) /\ i \in 1 .. Len(r)
    BY <1>1, <1>6
  <2> QED BY <1>1, <1>2, <1>3, <1>5, <2>1
<1>7. g = h
  BY <1>1, <1>3, <1>5, <1>6, SeqEqual
<1>8. Head(e) = Said(Head(q), s)
  BY <1>1, <1>2, <1>5
<1> QED BY <1>4, <1>7, <1>8 DEF g, h, r, e

\* Their queues are sequences.
LEMMA InputTypes ==
    ASSUME LinesKeepTheirNumbers, NEW s \in Sockets
    PROVE  /\ events \in Seq(Event) /\ tasks[s].held \in Seq(Event)
           /\ Read(s) \in Seq(Envelopes) /\ Held(s) \in Seq(Envelopes)
           /\ c2s[s] \in Seq(Envelopes) /\ client.outgoing \in Seq(Envelopes)
           /\ up[s] \in BOOLEAN
           /\ tasks[s].held = << >> => Held(s) = << >>
<1>1. /\ events \in Seq(ClientEvents) /\ tasks \in [Sockets -> Task(ServerEnvelopes, ClientEvents)]
      /\ c2s[s] \in Seq(ClientEnvelopes) /\ client.outgoing \in Seq(ClientEnvelopes)
      /\ up[s] \in BOOLEAN
  BY DEF LinesKeepTheirNumbers, ChannelInv, NetworkInv, ConnectorInv, ClientState
<1>2. tasks[s].held \in Seq(ClientEvents)
  BY <1>1 DEF Task
<1>3. ClientEvents \subseteq Event /\ ClientEnvelopes \subseteq Envelopes
  BY DEF ClientEvents, ClientEnvelopes
<1>4. /\ events \in Seq(Event) /\ tasks[s].held \in Seq(Event)
      /\ c2s[s] \in Seq(Envelopes) /\ client.outgoing \in Seq(Envelopes)
  BY <1>1, <1>2, <1>3, SeqGrows
<1> QED BY <1>1, <1>4, EnvelopesOfSeq DEF Read, Held

-----------------------------------------------------------------------------
(* What a step does to them.                                               *)

Unmoved(s) == /\ up'[s] = up[s] /\ c2s'[s] = c2s[s]
              /\ Read(s)' = Read(s) /\ Held(s)' = Held(s)
\* The socket is lost, with what is in the stream or with what its task holds.
Cuts(s) == /\ ~up'[s] /\ Read(s)' = Read(s)
           /\ \/ Held(s)' = Held(s) /\ Cut(c2s'[s], c2s[s])
              \/ Held(s)' = << >> /\ c2s'[s] = << >>
\* The session will read of a socket that is gone, this one or another.
Ends(s) == /\ Read(s)' = Append(Read(s), Control("pong"))
           /\ \/ up'[s] = up[s] /\ c2s'[s] = c2s[s] /\ Held(s)' = Held(s)
              \/ ~up'[s] /\ c2s'[s] = << >> /\ Held(s)' = << >>
Pauses(s) == /\ up'[s] = up[s] /\ c2s'[s] = c2s[s] /\ Read(s)' = Read(s)
             /\ Held(s) = << >> /\ Held(s)' = <<Control("pong")>>
\* The task reads an envelope, for the events if there is room.
Fetches(s) == /\ up'[s] = up[s] /\ c2s[s] # << >> /\ c2s'[s] = Tail(c2s[s])
              /\ Held(s) = << >>
              /\ \/ /\ Read(s)' = Append(Read(s), Head(c2s[s]))
                    /\ Held(s)' = << >>
                 \/ /\ Read(s)' = Read(s)
                    /\ Held(s)' = <<Head(c2s[s])>>
\* The task hands over the envelope it holds.
HandsOn(s) == /\ up'[s] = up[s] /\ c2s'[s] = c2s[s]
              /\ \E e \in Envelopes : /\ Held(s) = <<e>> /\ Held(s)' = << >>
                                      /\ Read(s)' = Append(Read(s), e)
InputMoves(s) == Unmoved(s) \/ Cuts(s) \/ Ends(s) \/ Pauses(s) \/ Fetches(s) \/ HandsOn(s)

\* A step of a transport task.
LEMMA TaskInput ==
    ASSUME LinesKeepTheirNumbers, TaskInv, NEW t \in Sockets, TaskNext(t), NEW s \in Sockets
    PROVE  InputMoves(s)
<1> DEFINE gone == [socket |-> t, kind |-> "disconnected"]
<1>1. /\ tasks \in [Sockets -> Task(ServerEnvelopes, ClientEvents)]
      /\ tasks[s] \in Task(ServerEnvelopes, ClientEvents)
      /\ tasks[t] \in Task(ServerEnvelopes, ClientEvents)
      /\ NetworkInv /\ TaskOK(t)
      /\ events \in Seq(Event) /\ tasks[s].held \in Seq(Event) /\ tasks[t].held \in Seq(Event)
      /\ c2s \in [Sockets -> Seq(ClientEnvelopes)] /\ c2s[t] \in Seq(Envelopes)
      /\ up \in [Sockets -> BOOLEAN]
  BY InputTypes DEF LinesKeepTheirNumbers, ChannelInv, TaskInv, NetworkInv
<1>2. /\ gone \in Event /\ Said(gone, s) = Control("pong")
      /\ StoppedTask.held = << >> /\ EnvelopesOf(<< >>, s) = << >>
  BY EnvelopesOfSeq, EmptySeq DEF Event, Said, StoppedTask, NoTask
<1>3. UNCHANGED events => Read(s)' = Read(s)
  BY DEF Read
<1>4. ASSUME NEW v \in Event, events' = Append(events, v)
      PROVE  Read(s)' = Append(Read(s), Said(v, s))
  BY <1>1, <1>4, EnvelopesOfAppend DEF Read
<1>5. /\ tasks'[s].held = tasks[s].held => Held(s)' = Held(s)
      /\ tasks'[s].held = << >> => Held(s)' = << >>
      /\ tasks[s].held = << >> => Held(s) = << >>
  BY <1>2 DEF Held
<1>6. ASSUME s # t, up'[s] = up[s], c2s'[s] = c2s[s], tasks'[s] = tasks[s],
             \/ UNCHANGED events
             \/ \E v \in Event : v.socket = t /\ events' = Append(events, v)
      PROVE  InputMoves(s)
  <2>1. \A v : v.socket = t => Said(v, s) = Control("pong")
    BY <1>6 DEF Said
  <2> QED BY <1>3, <1>4, <1>5, <1>6, <2>1 DEF InputMoves, Unmoved, Ends
<1>7. ASSUME s = t, ~up'[s], c2s'[s] = << >>, tasks'[s] = StoppedTask,
             \/ UNCHANGED events
             \/ \E v \in Event : v.kind = "disconnected" /\ events' = Append(events, v)
      PROVE  InputMoves(s)
  <2>1. \A v : v.kind = "disconnected" => Said(v, s) = Control("pong")
    BY DEF Said
  <2> QED BY <1>2, <1>3, <1>4, <1>5, <1>7, <2>1 DEF InputMoves, Cuts, Ends
<1>8. ASSUME StopTask(t)
      PROVE  /\ s = t => ~up'[s] /\ c2s'[s] = << >> /\ tasks'[s] = StoppedTask
             /\ s # t => up'[s] = up[s] /\ c2s'[s] = c2s[s] /\ tasks'[s] = tasks[s]
  BY <1>1, <1>8, ServerEndCloses DEF StopTask
<1>9. CASE TaskWrites(t) \/ TaskBlocks(t)
  <2>1. UNCHANGED <<events, c2s, up>>
    BY <1>9 DEF TaskWrites, TaskBlocks, networkVars
  <2>2. CASE TaskWrites(t)
    <3>1. tasks'[s].held = tasks[s].held
      BY <1>1, <2>2 DEF TaskWrites, Task
    <3> QED BY <1>3, <1>5, <2>1, <3>1 DEF InputMoves, Unmoved
  <2>3. CASE TaskBlocks(t)
    <3>1. tasks' = [tasks EXCEPT ![t].writing = <<Head(tasks[t].commands)>>,
                                 ![t].commands = Tail(@)]
      BY <2>3 DEF TaskBlocks
    <3>2. tasks'[s].held = tasks[s].held
      BY <1>1, <3>1 DEF Task
    <3> QED BY <1>3, <1>5, <2>1, <3>2 DEF InputMoves, Unmoved
  <2> QED BY <1>9, <2>2, <2>3
<1>10. CASE TaskFinishes(t)
  <2>1. /\ UNCHANGED events
        /\ s = t => ~up'[s] /\ c2s'[s] = << >> /\ tasks'[s] = StoppedTask
        /\ s # t => up'[s] = up[s] /\ c2s'[s] = c2s[s] /\ tasks'[s] = tasks[s]
    BY <1>1, <1>10 DEF TaskFinishes
  <2> QED BY <1>6, <1>7, <2>1
<1>11. CASE TaskWriteFails(t) \/ OrphanStops(t)
  <2>1. StopTask(t) /\ (UNCHANGED events \/ events' = Append(events, gone))
    BY <1>11 DEF TaskWriteFails, OrphanStops
  <2> QED BY <1>2, <1>6, <1>7, <1>8, <2>1
<1>12. CASE TaskReads(t)
  <2> DEFINE v == [socket |-> t, kind |-> "envelope", envelope |-> Head(c2s[t])]
  <2>1. /\ c2s[t] # << >> /\ tasks[t].held = << >> /\ up'[s] = up[s]
        /\ c2s' = [c2s EXCEPT ![t] = Tail(@)]
        /\ \/ events' = Append(events, v) /\ UNCHANGED tasks
           \/ tasks' = [tasks EXCEPT ![t].held = <<v>>] /\ UNCHANGED events
    BY <1>12 DEF TaskReads, Arrives, Selecting
  <2>2. Head(c2s[t]) \in Envelopes /\ v \in Event /\ v.socket = t
    BY <1>1, <2>1, HeadIn DEF Event
  <2>3. CASE s # t
    BY <1>1, <1>6, <2>1, <2>2, <2>3
  <2>4. CASE s = t
    <3>1. Said(v, s) = Head(c2s[s])
      BY <2>4 DEF Said
    <3>2. c2s'[s] = Tail(c2s[s]) /\ Held(s) = << >>
      BY <1>1, <1>5, <2>1, <2>4
    <3>3. CASE events' = Append(events, v) /\ UNCHANGED tasks
      <4>1. Read(s)' = Append(Read(s), Head(c2s[s])) /\ Held(s)' = << >>
        BY <1>4, <1>5, <2>1, <2>2, <2>4, <3>1, <3>3
      <4> QED BY <2>1, <2>4, <3>2, <4>1 DEF InputMoves, Fetches
    <3>4. CASE tasks' = [tasks EXCEPT ![t].held = <<v>>] /\ UNCHANGED events
      <4>1. tasks'[s].held = <<v>>
        BY <1>1, <2>4, <3>4 DEF Task
      <4>2. EnvelopesOf(<<v>>, s) = <<Head(c2s[s])>>
        BY <3>1 DEF EnvelopesOf
      <4>3. Held(s)' = <<Head(c2s[s])>>
        BY <4>1, <4>2 DEF Held
      <4> QED BY <1>3, <2>1, <2>4, <3>2, <3>4, <4>3 DEF InputMoves, Fetches
    <3> QED BY <2>1, <3>3, <3>4
  <2> QED BY <2>3, <2>4
<1>13. CASE TaskSeesEnd(t)
  <2>1. CASE StopTask(t) /\ events' = Append(events, gone)
    BY <1>2, <1>6, <1>7, <1>8, <2>1
  <2>2. CASE tasks' = [tasks EXCEPT ![t].held = <<gone>>] /\ UNCHANGED <<events, networkVars>>
    <3>1. CASE s # t
      BY <1>1, <1>6, <2>2, <3>1 DEF networkVars
    <3>2. CASE s = t
      <4>1. tasks'[s].held = <<gone>>
        BY <1>1, <2>2, <3>2 DEF Task
      <4>2. EnvelopesOf(<<gone>>, s) = <<Control("pong")>>
        BY <1>2 DEF EnvelopesOf
      <4>3. Held(s)' = <<Control("pong")>> /\ Held(s) = << >>
        BY <1>5, <1>13, <3>2, <4>1, <4>2 DEF Held, TaskSeesEnd, Selecting
      <4> QED BY <1>3, <2>2, <4>3 DEF InputMoves, Pauses, networkVars
    <3> QED BY <3>1, <3>2
  <2> QED BY <1>13, <2>1, <2>2 DEF TaskSeesEnd
<1>14. CASE TaskHandsOver(t)
  <2> DEFINE v == Head(tasks[t].held)
  <2>1. /\ tasks[t].held # << >> /\ events' = Append(events, v)
        /\ IF v.kind = "disconnected"
             THEN StopTask(t)
             ELSE tasks' = [tasks EXCEPT ![t].held = << >>] /\ UNCHANGED <<session, networkVars>>
    BY <1>14 DEF TaskHandsOver
  <2>2. v \in Event /\ v.socket = t
    BY <1>1, <2>1, HeadIn DEF TaskOK
  <2>3. CASE v.kind = "disconnected"
    BY <1>6, <1>7, <1>8, <2>1, <2>2, <2>3
  <2>4. CASE v.kind # "disconnected"
    <3>1. tasks' = [tasks EXCEPT ![t].held = << >>] /\ UNCHANGED <<c2s, up>>
      BY <2>1, <2>4 DEF networkVars
    <3>2. CASE s # t
      BY <1>1, <1>6, <2>1, <2>2, <3>1, <3>2
    <3>3. CASE s = t
      <4>1. Held(s) = <<Said(v, s)>>
        <5>1. tasks[s].held = <<v>>
          BY <1>1, <2>1, <3>3, AtMostOne DEF TaskOK
        <5> HIDE DEF v
        <5>2. EnvelopesOf(<<v>>, s) = <<Said(v, s)>>
          BY DEF EnvelopesOf
        <5> QED BY <5>1, <5>2 DEF Held
      <4>2. Read(s)' = Append(Read(s), Said(v, s)) /\ Said(v, s) \in Envelopes
        BY <1>4, <2>1, <2>2, SaidIn
      <4>3. tasks'[s].held = << >>
        BY <1>1, <3>1, <3>3 DEF Task
      <4>4. Held(s)' = << >>
        BY <1>5, <4>3
      <4> HIDE DEF v
      <4> QED BY <3>1, <4>1, <4>2, <4>4 DEF InputMoves, HandsOn
    <3> QED BY <3>2, <3>3
  <2> QED BY <2>3, <2>4
<1> QED BY <1>9, <1>10, <1>11, <1>12, <1>13, <1>14 DEF TaskNext

\* The loop of run_agent_session goes on, or may.
Looping == session.pc \notin {"reap", "farewell", "farewell_wait", "ended"}
\* The sockets from which the session may still accept a line: it has not
\* taken them yet, or they are the ones it has.
Serving(s) == s \in {session.transport, session.attaching} \/ tasks[s].state = "none"

\* The session handles the first envelope and counts it.
Drops(s) == /\ up'[s] = up[s] /\ c2s'[s] = c2s[s] /\ Held(s)' = Held(s)
            /\ Read(s) # << >> /\ Read(s)' = Tail(Read(s))
            /\ Head(Read(s)).type # "error"
            /\ Head(Read(s)).type = "acp" => Head(Read(s)).sequence < expectedClient'
            /\ expectedClient <= expectedClient'

\* handle_client_envelope, unless it ends the loop.
LEMMA HandlingReads ==
    ASSUME LinesKeepTheirNumbers, NEW e, HandleClientEnvelope(e), Looping'
    PROVE  /\ events' = Tail(events) /\ UNCHANGED <<tasks, networkVars>>
           /\ expectedClient <= expectedClient'
           /\ e.type # "error"
           /\ e.type = "acp" => e.sequence < expectedClient'
<1>1. session \in SessionState(ServerEnvelopes) /\ expectedClient \in Nat
  BY Expected DEF LinesKeepTheirNumbers, SessionInv
<1>2. ASSUME NEW c, Abandon(c) PROVE FALSE
  BY <1>1, <1>2 DEF Abandon, Leave, Looping, SessionState
<1>3. ASSUME NEW c, EndLoop(c) PROVE FALSE
  BY <1>1, <1>3 DEF EndLoop, Looping, SessionState
<1>4. HandleAcp(e) \/ HandleAck(e) \/ HandleControl(e)
  BY <1>3 DEF HandleClientEnvelope, Only
<1>5. CASE HandleAcp(e)
  <2>1. e.type = "acp"
    BY <1>5 DEF HandleAcp
  <2>2. CASE e.sequence < expectedClient /\ UNCHANGED frameVars
             /\ Reply(Ack("client_to_server", expectedClient - 1))
    BY <1>1, <2>1, <2>2 DEF Reply, frameVars, networkVars
  <2>3. CASE e.sequence = expectedClient /\ (ForwardLine(e) \/ RejectLine(e))
    <3>1. Accept(e)
      BY <1>2, <1>3, <2>3 DEF ForwardLine, RejectLine, Only
    <3> QED BY <1>1, <2>1, <2>3, <3>1 DEF Accept, Reply, networkVars
  <2> QED BY <1>2, <1>5, <2>2, <2>3 DEF HandleAcp
<1>6. CASE HandleAck(e)
  BY <1>1, <1>6 DEF HandleAck, networkVars
<1>7. CASE HandleControl(e)
  <2>1. e.type = "ping" \/ e.type = "pong"
    <3>1. ASSUME e.type = "shutdown" PROVE FALSE
      <4>1. session' = [session EXCEPT !.pc = "reap", !.endCategory = "client_shutdown",
                                       !.registered = FALSE]
        BY <1>7, <3>1 DEF HandleControl, Only
      <4> QED BY <1>1, <4>1 DEF Looping, SessionState
    <3> QED BY <1>7, <3>1 DEF HandleControl
  <2>2. /\ events' = Tail(events) /\ UNCHANGED <<tasks, networkVars>> /\ UNCHANGED frameVars
    BY <1>7, <2>1 DEF HandleControl, Only, Reply
  <2> QED BY <1>1, <2>1, <2>2 DEF frameVars
<1> QED BY <1>4, <1>5, <1>6, <1>7

\* The session's other steps take no event and accept no line.
LEMMA SessionWaits ==
    ASSUME LinesKeepTheirNumbers, SessionNext, ~ReceiveEvent, Looping'
    PROVE  UNCHANGED <<events, expectedClient>>
<1>1. session \in SessionState(ServerEnvelopes)
  BY DEF LinesKeepTheirNumbers, SessionInv
<1>2. ~EndSession /\ ~ReapFails
  BY <1>1 DEF EndSession, ReapFails, Abandon, Leave, Looping, SessionState
<1>3. CASE PumpReplay \/ AttachEnqueues \/ AttachSucceeds \/ AttachFails
  BY <1>3 DEF PumpReplay, AttachEnqueues, AttachSucceeds, AttachFails, frameVars, channelVars
<1>4. CASE PumpFindsClosed \/ KeepaliveExpires \/ ExitFails
  BY <1>4 DEF PumpFindsClosed, KeepaliveExpires, ExitFails, Detach, frameVars
<1>5. CASE EnterSelect \/ Wake \/ ExitConfirmed \/ ServerShutdown \/ GraceExpires
  BY <1>5 DEF EnterSelect, Wake, ExitConfirmed, ServerShutdown, GraceExpires, frameVars, channelVars
<1>6. CASE ChildWait \/ TakeAttachment \/ ReadAgent
  BY <1>6 DEF ChildWait, TakeAttachment, ReadAgent, QueueServerFrame, frameVars, channelVars
<1>7. CASE SendExit \/ SendNoise \/ SendReply \/ SendFarewell \/ ReapAgent
  BY <1>7 DEF SendExit, SendNoise, SendReply, SendFarewell, ReapAgent, frameVars, channelVars
<1> QED BY <1>2, <1>3, <1>4, <1>5, <1>6, <1>7 DEF SessionNext

\* A step of run_agent_session, as long as it goes on.
LEMMA SessionInput ==
    ASSUME LinesKeepTheirNumbers, SocketInv, SessionNext, Looping',
           NEW s \in Sockets, Serving(s)'
    PROVE  Serving(s) /\ ((Unmoved(s) /\ UNCHANGED expectedClient) \/ Drops(s))
<1>1. /\ session \in SessionState(ServerEnvelopes) /\ TransportInv /\ NetworkInv
      /\ tasks \in [Sockets -> Task(ServerEnvelopes, ClientEvents)]
      /\ tasks[s] \in Task(ServerEnvelopes, ClientEvents)
      /\ events \in Seq(Event) /\ NoSocket \notin Sockets
      /\ expectedClient \in Nat
  <2>1. NoSocket \notin Sockets
    BY NetworkAssumption DEF Sockets, NoSocket
  <2>2. events \in Seq(Event)
    BY InputTypes
  <2>3. expectedClient \in Nat
    BY Expected
  <2> QED
    BY <2>1, <2>2, <2>3 DEF LinesKeepTheirNumbers, SessionInv, SocketInv, ChannelInv
<1>2. Serving(s)
  BY SessionTakes DEF Serving, NoTask
<1>3. /\ UNCHANGED events => Read(s)' = Read(s)
      /\ tasks'[s].held = tasks[s].held => Held(s)' = Held(s)
  BY DEF Read, Held
<1>4. UNCHANGED <<tasks, networkVars>> =>
        up'[s] = up[s] /\ c2s'[s] = c2s[s] /\ tasks'[s].held = tasks[s].held
  BY DEF networkVars
<1>5. ASSUME Detaches
      PROVE  up'[s] = up[s] /\ c2s'[s] = c2s[s] /\ tasks'[s].held = tasks[s].held /\ s # session.transport
  <2>1. s # session.transport
    <3> SUFFICES ASSUME s = session.transport PROVE FALSE
      OBVIOUS
    <3>1. session.attaching = NoSocket /\ session'.attaching = NoSocket /\ session'.transport = NoSocket
      BY <1>1, <1>5 DEF Detaches, TransportInv
    <3>2. tasks'[s].state # "none"
      BY <1>1, <1>5 DEF Detaches, StoppedTask, NoTask
    <3> QED BY <1>1, <3>1, <3>2 DEF Serving
  <2>2. tasks'[s] = tasks[s]
    BY <1>1, <1>5, <2>1 DEF Detaches
  <2> QED BY <1>1, <1>5, <2>1, <2>2, ServerEndCloses DEF Detaches
<1>6. CASE ~ReceiveEvent
  <2>1. UNCHANGED <<events, expectedClient>>
    BY <1>6, SessionWaits
  <2>2. up'[s] = up[s] /\ c2s'[s] = c2s[s] /\ tasks'[s].held = tasks[s].held
    <3>1. CASE UNCHANGED <<channelVars, networkVars>>
      BY <1>4, <3>1 DEF channelVars
    <3>2. ASSUME NEW t, NEW e, Enqueues(t, e)
          PROVE  up'[s] = up[s] /\ c2s'[s] = c2s[s] /\ tasks'[s].held = tasks[s].held
      BY <1>1, <3>2 DEF Enqueues, Enqueue, Task, networkVars
    <3>3. CASE TakesEvent
      BY <1>4, <3>3 DEF TakesEvent
    <3>4. CASE Detaches
      BY <1>5, <3>4
    <3>5. CASE TakeAttachment
      <4> DEFINE t == Head(attachments)
      <4>1. /\ session'.attaching = t /\ session'.transport = NoSocket
            /\ tasks' = [u \in Sockets |-> IF u = t THEN StartedTask
                                           ELSE IF u = session.transport THEN StoppedTask
                                           ELSE tasks[u]]
            /\ CloseServerEnd({session.transport})
        BY <1>1, <3>5 DEF TakeAttachment, SessionState
      <4>2. t \in Sockets /\ tasks[t] = NoTask /\ tasks[t].state = "none"
        BY <3>5, QueuedTail DEF TakeAttachment, Queued, SocketInv, AttachmentInv, TaskInv, TaskOK
      <4>3. session.transport # NoSocket => t # session.transport
        BY <4>2 DEF SocketInv, TransportInv
      <4>4. StoppedTask.state # "none" /\ StartedTask.held = << >> /\ NoTask.held = << >>
        BY DEF StoppedTask, StartedTask, NoTask
      <4> HIDE DEF t
      <4>5. s # session.transport
        BY <1>1, <4>1, <4>3, <4>4 DEF Serving
      <4>6. up'[s] = up[s] /\ c2s'[s] = c2s[s]
        BY <1>1, <4>1, <4>5, ServerEndCloses
      <4>7. tasks'[s].held = tasks[s].held
        BY <4>1, <4>2, <4>4, <4>5
      <4> QED BY <4>6, <4>7
    <3>6. ~Leaves
      BY DEF Leaves, Looping
    <3> QED BY <3>1, <3>2, <3>3, <3>4, <3>5, <3>6, SessionMoves DEF SocketInv
  <2> QED BY <1>2, <1>3, <2>1, <2>2 DEF Unmoved
<1>7. CASE ReceiveEvent
  <2> DEFINE v == Head(events)
  <2>1. session.pc = "select" /\ events # << >>
    BY <1>7 DEF ReceiveEvent
  <2>2. v \in Event /\ v = events[1] /\ 1 \in 1 .. Len(events)
    BY <1>1, <2>1, HeadIn, TailElements
  <2>3. EventOK(v) /\ session.attaching = NoSocket
    BY <1>1, <2>1, <2>2 DEF SocketInv, EventInv, TransportInv
  <2>4. v.socket = s => s = session.transport
    BY <1>1, <1>2, <2>3 DEF Serving, EventOK
  <2>5. /\ Read(s) # << >> /\ Head(Read(s)) = Said(v, s)
        /\ Tail(Read(s)) = EnvelopesOf(Tail(events), s)
    BY <1>1, <2>1, EnvelopesOfTail DEF Read
  <2> HIDE DEF v
  <2>6. Control("pong").type = "pong"
    BY DEF Control
  <2>7. ASSUME events' = Tail(events), up'[s] = up[s], c2s'[s] = c2s[s],
               tasks'[s].held = tasks[s].held, expectedClient <= expectedClient',
               \/ v.socket # s
               \/ /\ v.kind = "envelope" /\ v.envelope.type # "error"
                  /\ v.envelope.type = "acp" => v.envelope.sequence < expectedClient'
        PROVE  Drops(s)
    <3>1. Read(s)' = Tail(Read(s))
      BY <2>5, <2>7 DEF Read
    <3>2. /\ Head(Read(s)).type # "error"
          /\ Head(Read(s)).type = "acp" => Head(Read(s)).sequence < expectedClient'
      BY <2>5, <2>6, <2>7 DEF Said
    <3> QED BY <1>3, <2>5, <2>7, <3>1, <3>2 DEF Drops
  <2>8. CASE Stale(v)
    <3>1. events' = Tail(events) /\ UNCHANGED <<tasks, networkVars, frameVars>>
      BY <1>7, <2>8 DEF ReceiveEvent, Only, v
    <3> QED BY <1>1, <1>2, <1>4, <2>4, <2>7, <2>8, <3>1 DEF Stale, frameVars
  <2>9. CASE ~Stale(v) /\ Detach("top") /\ events' = Tail(events)
    <3>1. Detaches
      <4>1. session.transport \in Sockets
        BY <2>3, <2>9 DEF Stale, EventOK
      <4> QED BY <1>1, <2>1, <2>9, <4>1 DEF Detach, Detaches, SessionState, frameVars
    <3>2. expectedClient' = expectedClient
      BY <2>9 DEF Detach, frameVars
    <3> QED BY <1>1, <1>2, <1>5, <2>4, <2>7, <2>9, <3>1, <3>2
  <2>10. CASE v.kind = "envelope" /\ HandleClientEnvelope(v.envelope)
    <3>1. /\ events' = Tail(events) /\ UNCHANGED <<tasks, networkVars>>
          /\ expectedClient <= expectedClient' /\ v.envelope.type # "error"
          /\ v.envelope.type = "acp" => v.envelope.sequence < expectedClient'
      BY <2>10, HandlingReads
    <3> QED BY <1>2, <1>4, <2>7, <2>10, <3>1
  <2> QED BY <1>7, <2>8, <2>9, <2>10 DEF ReceiveEvent, v
<1> QED BY <1>6, <1>7

\* `shutdown` follows all lines on the first socket; on a resumed one it is
\* sent without a replay, whatever is missing.
Top(s) == IF s = 1 THEN nextClient ELSE 0

\* The number of the line, or one more than that of the lines before the
\* `shutdown`, that the connector may write next.
NextNumber ==
    IF client.pc \in {"select", "send"} \/ (client.pc = "send_shutdown" /\ client.socket = 1)
      THEN nextClient
    ELSE IF client.pc = "replay" THEN nextClient - Len(clientPending) + client.replayAt - 1
    ELSE 0

\* The session finds no gap on socket s, nor in what the connector says next.
InputOK(s) ==
    /\ InOrder(Read(s), Held(s), c2s[s], expectedClient, Top(s))
    /\ s = client.socket /\ up[s] =>
         /\ Gapless(client.outgoing, Arriving(s), expectedClient, Top(s))
         /\ \/ NextNumber <= expectedClient
            \/ NextNumber - 1 \in Arriving(s) \cup Numbers(client.outgoing)
InputInv == Looping => \A s \in Sockets : Serving(s) => InputOK(s)
ReplayInv == client.pc = "replay" => client.replayAt <= Len(clientPending) + 1

\* Numbers are numbers.
LEMMA NextNumberInt ==
    ASSUME LinesKeepTheirNumbers
    PROVE  /\ NextNumber \in Int /\ expectedClient \in Nat /\ nextClient \in Nat
           /\ \A s : Top(s) \in Nat
<1>1. Len(clientPending) \in Nat
  BY LenProperties DEF LinesKeepTheirNumbers, RetainedInv
<1>2. client.replayAt \in Nat
  BY DEF LinesKeepTheirNumbers, ConnectorInv, ClientState
<1> QED BY <1>1, <1>2, Expected DEF NextNumber, Top

\* No move on the session's side opens a gap.
LEMMA InputFlows ==
    ASSUME LinesKeepTheirNumbers, NEW s \in Sockets, NEW x \in Nat, NEW top \in Nat,
           InOrder(Read(s), Held(s), c2s[s], x, top), InputMoves(s)
    PROVE  /\ InOrder(Read(s)', Held(s)', c2s'[s], x, top)
           /\ up'[s] => up[s] /\ Arriving(s) \subseteq Arriving(s)'
<1> DEFINE a == Read(s)
           b == Held(s)
           c == c2s[s]
           a2 == Read(s)'
           b2 == Held(s)'
           c2 == c2s'[s]
           u == up[s]
           u2 == up'[s]
           p == Control("pong")
           Goal == /\ InOrder(a2, b2, c2, x, top)
                   /\ u2 => u /\ Pending3(a, b, c) \subseteq Pending3(a2, b2, c2)
<1>1. /\ a \in Seq(Envelopes) /\ b \in Seq(Envelopes) /\ c \in Seq(Envelopes) /\ u \in BOOLEAN
      /\ InOrder(a, b, c, x, top)
  BY InputTypes
<1>2. p \in Envelopes /\ p.type = "pong"
  BY DEF Control, Envelopes, ControlTypes
<1>3. /\ InOrder(Append(a, p), b, c, x, top)
      /\ Pending3(Append(a, p), b, c) = Pending3(a, b, c)
  <2> HIDE DEF a, b, c, p
  <2> QED BY <1>1, <1>2, PadInOrder
<1>4. \A D : Gapless(<< >>, D, x, top) /\ Numbers(<< >>) = {}
  BY GaplessEmpty
<1> SUFFICES Goal
  BY DEF Arriving
<1>5. CASE Unmoved(s)
  <2>1. a2 = a /\ b2 = b /\ c2 = c /\ u2 = u
    BY <1>5 DEF Unmoved
  <2> HIDE DEF a, b, c, a2, b2, c2, u, u2
  <2> QED BY <1>1, <2>1
<1>6. CASE Cuts(s)
  <2>1. /\ ~u2 /\ a2 = a
        /\ (b2 = b /\ Cut(c2, c)) \/ (b2 = << >> /\ c2 = << >>)
    BY <1>6 DEF Cuts
  <2> HIDE DEF a, b, c, a2, b2, c2, u, u2
  <2>2. CASE b2 = b /\ Cut(c2, c)
    BY <1>1, <2>1, <2>2, CutInOrder
  <2>3. CASE b2 = << >> /\ c2 = << >>
    BY <1>1, <1>4, <2>1, <2>3 DEF InOrder
  <2> QED BY <2>1, <2>2, <2>3
<1>7. CASE Ends(s)
  <2>1. /\ a2 = Append(a, p)
        /\ (u2 = u /\ c2 = c /\ b2 = b) \/ (~u2 /\ c2 = << >> /\ b2 = << >>)
    BY <1>7 DEF Ends
  <2> HIDE DEF a, b, c, a2, b2, c2, u, u2, p
  <2>2. CASE u2 = u /\ c2 = c /\ b2 = b
    BY <1>1, <1>3, <2>1, <2>2
  <2>3. CASE ~u2 /\ c2 = << >> /\ b2 = << >>
    BY <1>3, <1>4, <2>1, <2>3 DEF InOrder
  <2> QED BY <2>1, <2>2, <2>3
<1>8. CASE Pauses(s)
  <2>1. a2 = a /\ b = << >> /\ b2 = <<p>> /\ c2 = c /\ u2 = u
    BY <1>8 DEF Pauses
  <2> HIDE DEF a, b, c, a2, b2, c2, u, u2, p
  <2>2. Covers(p) = {} /\ \A D : Preceded(p, D, x, top)
    BY <1>2 DEF Covers, Preceded, Follows
  <2>3. Numbers(b2) = {} /\ \A D : Gapless(b2, D, x, top)
    BY <1>2, <2>1, <2>2, GaplessOne
  <2>4. Numbers(b) = {}
    BY <1>4, <2>1
  <2> QED BY <1>1, <2>1, <2>3, <2>4 DEF InOrder, Pending3
<1>9. CASE Fetches(s)
  <2>1. /\ b = << >> /\ c # << >> /\ c2 = Tail(c) /\ u2 = u
        /\ \/ a2 = Append(a, Head(c)) /\ b2 = << >>
           \/ a2 = a /\ b2 = <<Head(c)>>
    BY <1>9 DEF Fetches
  <2> HIDE DEF a, b, c, a2, b2, c2, u, u2
  <2>2. CASE a2 = Append(a, Head(c)) /\ b2 = << >>
    <3>1. InOrder(a, << >>, c, x, top) /\ Pending3(a, b, c) = Pending3(a, << >>, c)
      BY <1>1, <2>1
    <3>2. /\ InOrder(Append(a, Head(c)), << >>, Tail(c), x, top)
          /\ Pending3(Append(a, Head(c)), << >>, Tail(c)) = Pending3(a, << >>, c)
      BY <1>1, <2>1, <3>1, PassInOrder
    <3> QED BY <1>1, <2>1, <2>2, <3>1, <3>2
  <2>3. CASE a2 = a /\ b2 = <<Head(c)>>
    <3>1. InOrder(a, << >>, c, x, top) /\ Pending3(a, b, c) = Pending3(a, << >>, c)
      BY <1>1, <2>1
    <3>2. /\ InOrder(a, <<Head(c)>>, Tail(c), x, top)
          /\ Pending3(a, <<Head(c)>>, Tail(c)) = Pending3(a, << >>, c)
      BY <1>1, <2>1, <3>1, BlockInOrder
    <3> QED BY <1>1, <2>1, <2>3, <3>1, <3>2
  <2> QED BY <2>1, <2>2, <2>3
<1>10. CASE HandsOn(s)
  <2>1. PICK e \in Envelopes : b = <<e>> /\ b2 = << >> /\ a2 = Append(a, e)
    BY <1>10 DEF HandsOn
  <2>2. c2 = c /\ u2 = u
    BY <1>10 DEF HandsOn
  <2> HIDE DEF a, b, c, a2, b2, c2, u, u2
  <2>3. InOrder(a, <<e>>, c, x, top) /\ Pending3(a, b, c) = Pending3(a, <<e>>, c)
    BY <1>1, <2>1
  <2>4. /\ InOrder(Append(a, e), << >>, c, x, top)
        /\ Pending3(Append(a, e), << >>, c) = Pending3(a, <<e>>, c)
    BY <1>1, <2>3, WriteInOrder
  <2> QED BY <1>1, <2>1, <2>2, <2>3, <2>4
<1> QED BY <1>5, <1>6, <1>7, <1>8, <1>9, <1>10 DEF InputMoves

\* Nor does a step of the server or of the network.
LEMMA ServerInput ==
    ASSUME LinesKeepTheirNumbers, LinesKeepTheirNumbers', NEW s \in Sockets, InputOK(s),
           UNCHANGED <<client, clientPending, nextClient>>,
           (InputMoves(s) /\ UNCHANGED expectedClient) \/ Drops(s)
    PROVE  InputOK(s)'
<1> DEFINE n == NextNumber
           A == Arriving(s)
           A2 == Arriving(s)'
           out == client.outgoing
<1>1. /\ n \in Int /\ expectedClient \in Nat /\ Top(s) \in Nat /\ out \in Seq(Envelopes)
      /\ n' = n /\ Top(s)' = Top(s) /\ out' = out
  BY NextNumberInt, InputTypes DEF NextNumber, Top
<1>2. expectedClient' \in Nat
  <2>1. (expectedClient \in Nat)'
    BY Expected, PTL
  <2> QED BY <2>1
<1>3. PICK top \in Nat : top = Top(s)
  BY <1>1
<1>4. PICK x \in Nat : x = expectedClient
  BY <1>1
<1>5. PICK x2 \in Nat : x2 = expectedClient'
  BY <1>2
<1>6. /\ InOrder(Read(s), Held(s), c2s[s], x, top)
      /\ s = client.socket /\ up[s] =>
           Gapless(out, A, x, top) /\ (n <= x \/ n - 1 \in A \cup Numbers(out))
  BY <1>3, <1>4 DEF InputOK
<1>7. SUFFICES /\ InOrder(Read(s)', Held(s)', c2s'[s], x2, top)
               /\ s = client.socket /\ up'[s] =>
                    Gapless(out, A2, x2, top) /\ (n <= x2 \/ n - 1 \in A2 \cup Numbers(out))
  BY <1>1, <1>3, <1>5 DEF InputOK
<1>8. CASE InputMoves(s) /\ UNCHANGED expectedClient
  <2>1. /\ InOrder(Read(s)', Held(s)', c2s'[s], x, top) /\ x2 = x
        /\ up'[s] => up[s] /\ A \subseteq A2
    BY <1>4, <1>5, <1>6, <1>8, InputFlows
  <2>2. ASSUME s = client.socket, up'[s]
        PROVE  Gapless(out, A2, x2, top) /\ (n <= x2 \/ n - 1 \in A2 \cup Numbers(out))
    <3>1. A \subseteq A2 /\ Gapless(out, A, x, top) /\ (n <= x \/ n - 1 \in A \cup Numbers(out))
      BY <1>6, <2>1, <2>2
    <3> HIDE DEF A, A2, n, out
    <3> QED BY <1>1, <2>1, <3>1, GaplessMore
  <2> QED BY <2>1, <2>2
<1>9. CASE Drops(s)
  <2> DEFINE e == Head(Read(s))
             a == Read(s)
             b == Held(s)
             c == c2s[s]
  <2>1. /\ a \in Seq(Envelopes) /\ b \in Seq(Envelopes) /\ c \in Seq(Envelopes) /\ a # << >>
        /\ x <= x2 /\ up'[s] = up[s] /\ e.type # "error" /\ (e.type = "acp" => e.sequence < x2)
        /\ Read(s)' = Tail(a) /\ Held(s)' = b /\ c2s'[s] = c
    BY <1>4, <1>5, <1>9, InputTypes DEF Drops
  <2>2. /\ InOrder(Tail(a), b, c, x2, top)
        /\ Pending3(a, b, c) = Pending3(Tail(a), b, c) \cup Covers(Head(a))
    <3>1. InOrder(a, b, c, x, top)
      BY <1>6
    <3>2. Head(a).type # "error" /\ (Head(a).type = "acp" => Head(a).sequence < x2)
      BY <2>1
    <3> HIDE DEF a, b, c, e
    <3> QED BY <2>1, <3>1, <3>2, ReadInOrder
  <2>3. A = A2 \cup Covers(e)
    BY <2>1, <2>2 DEF Arriving
  <2>4. e \in Envelopes
    BY <2>1, HeadIn
  <2>5. ASSUME s = client.socket, up'[s]
        PROVE  Gapless(out, A2, x2, top) /\ (n <= x2 \/ n - 1 \in A2 \cup Numbers(out))
    <3>1. Gapless(out, A, x, top) /\ (n <= x \/ n - 1 \in A \cup Numbers(out))
      BY <1>6, <2>1, <2>5
    <3>2. /\ e.type # "error" /\ (e.type = "acp" => e.sequence < x2)
          /\ e.type = "acp" => e.sequence \in Nat
      BY <2>1, <2>4 DEF Envelopes, ControlTypes
    <3> HIDE DEF A, A2, n, out, e
    <3>3. Gapless(out, A2, x2, top)
      BY <1>1, <2>1, <2>3, <2>4, <3>1, <3>2, ReadBehind
    <3>4. ASSUME n - 1 \in Covers(e) PROVE n <= x2
      BY <1>1, <3>2, <3>4 DEF Covers
    <3> QED BY <1>1, <2>1, <2>3, <3>1, <3>3, <3>4
  <2>6. InOrder(Read(s)', Held(s)', c2s'[s], x2, top)
    BY <2>1, <2>2
  <2> QED BY <2>5, <2>6
<1> QED BY <1>8, <1>9

\* Before graceful_shutdown there is no `shutdown` on its way.
LEMMA NoEndYet ==
    ASSUME LinesKeepTheirNumbers, SendsInv, ~client.closing, NEW s \in Sockets
    PROVE  NoEnd(Read(s)) /\ NoEnd(Held(s)) /\ NoEnd(c2s[s])
<1>1. /\ c2s[s] \in Seq(ConnectorSends) /\ events \in Seq(ReadEvents)
      /\ tasks[s].held \in Seq(ReadEvents)
  BY DEF SendsInv, Carries, Task
<1>2. \A e \in ConnectorSends : e.type \notin {"shutdown", "exit"}
  BY DEF ConnectorSends
<1>3. NoEnd(c2s[s])
  <2>1. \A i \in 1 .. Len(c2s[s]) : c2s[s][i] \in ConnectorSends
    BY <1>1, ElementOfSeq
  <2> QED BY <1>2, <2>1 DEF NoEnd
<1>4. ASSUME NEW q \in Seq(ReadEvents) PROVE NoEnd(EnvelopesOf(q, s))
  <2>1. q \in Seq(Event)
    <3>1. ReadEvents \subseteq Event
      BY DEF ReadEvents
    <3> QED BY <3>1, SeqGrows
  <2>2. /\ Len(EnvelopesOf(q, s)) = Len(q)
        /\ \A i \in 1 .. Len(q) : EnvelopesOf(q, s)[i] = Said(q[i], s)
    BY <2>1, EnvelopesOfSeq
  <2>3. \A i \in 1 .. Len(q) : q[i] \in ReadEvents
    BY ElementOfSeq
  <2>4. \A v \in ReadEvents : v.kind = "envelope" => v.envelope \in ConnectorSends
    BY DEF ReadEvents, SessionReads
  <2>5. \A v \in ReadEvents : Said(v, s).type \notin {"shutdown", "exit"}
    BY <1>2, <2>4 DEF Said, Control
  <2> QED BY <2>2, <2>3, <2>5 DEF NoEnd
<1> QED BY <1>1, <1>3, <1>4 DEF Read, Held

\* The number of lines the connector has read only matters to `shutdown`.
LEMMA InputTop ==
    ASSUME LinesKeepTheirNumbers, SendsInv, NEW s \in Sockets, NEW top,
           InOrder(Read(s), Held(s), c2s[s], expectedClient, Top(s)),
           top = Top(s) \/ ~client.closing
    PROVE  InOrder(Read(s), Held(s), c2s[s], expectedClient, top)
<1>1. CASE top = Top(s)
  BY <1>1
<1>2. CASE ~client.closing
  BY <1>2, NoEndYet, TopInOrder
<1> QED BY <1>1, <1>2

\* What the connector is about to say when it writes nothing yet.
LEMMA InputQuiet ==
    ASSUME LinesKeepTheirNumbers, ConnectorStep, NEW s \in Sockets, NEW top \in Nat, top = Top(s)',
           InOrder(Read(s), Held(s), c2s[s], expectedClient, top),
           c2s'[s] = c2s[s], up'[s] = up[s],
           up[s] => /\ Gapless(client'.outgoing, Arriving(s), expectedClient, top)
                    /\ \/ NextNumber' <= expectedClient
                       \/ NextNumber' - 1 \in Arriving(s) \cup Numbers(client'.outgoing)
    PROVE  InputOK(s)'
<1>1. UNCHANGED <<events, tasks, expectedClient>>
  BY DEF ConnectorStep, serverVars, channelVars, frameVars
<1>2. Read(s)' = Read(s) /\ Held(s)' = Held(s)
  BY <1>1 DEF Read, Held
<1>3. Arriving(s)' = Arriving(s)
  BY <1>2 DEF Arriving
<1> QED BY <1>1, <1>2, <1>3 DEF InputOK

\* What it has said when it writes an envelope.
LEMMA InputWrites ==
    ASSUME LinesKeepTheirNumbers, ConnectorStep, NEW s \in Sockets, NEW top \in Nat, top = Top(s)',
           InOrder(Read(s), Held(s), c2s[s], expectedClient, top),
           NEW e \in Envelopes, c2s' = Transmit(c2s, s, e), up'[s] = up[s],
           client'.outgoing = << >>,
           up[s] => /\ Preceded(e, Arriving(s), expectedClient, top)
                    /\ \/ NextNumber' <= expectedClient
                       \/ NextNumber' - 1 \in Arriving(s) \cup Covers(e)
    PROVE  InputOK(s)'
<1>1. UNCHANGED <<events, tasks, expectedClient>>
  BY DEF ConnectorStep, serverVars, channelVars, frameVars
<1>2. Read(s)' = Read(s) /\ Held(s)' = Held(s)
  BY <1>1 DEF Read, Held
<1>3. /\ Read(s) \in Seq(Envelopes) /\ Held(s) \in Seq(Envelopes) /\ c2s[s] \in Seq(Envelopes)
      /\ c2s \in [Sockets -> Seq(ClientEnvelopes)] /\ expectedClient \in Nat
  BY InputTypes, Expected DEF LinesKeepTheirNumbers, NetworkInv
<1>4. CASE up[s]
  <2>1. c2s'[s] = Append(c2s[s], e)
    BY <1>3, <1>4 DEF Transmit
  <2>2. /\ InOrder(Read(s), Held(s), Append(c2s[s], e), expectedClient, top)
        /\ Pending3(Read(s), Held(s), Append(c2s[s], e))
           = Pending3(Read(s), Held(s), c2s[s]) \cup Covers(e)
    BY <1>3, <1>4, PushInOrder DEF Arriving
  <2>3. Arriving(s)' = Arriving(s) \cup Covers(e)
    BY <1>2, <2>1, <2>2 DEF Arriving
  <2>4. InOrder(Read(s)', Held(s)', c2s'[s], expectedClient', top)
    BY <1>1, <1>2, <2>1, <2>2
  <2>5. Gapless(client'.outgoing, Arriving(s)', expectedClient', top)
    BY GaplessEmpty
  <2>6. NextNumber' <= expectedClient' \/ NextNumber' - 1 \in Arriving(s)'
    BY <1>1, <1>4, <2>3
  <2> QED BY <2>4, <2>5, <2>6 DEF InputOK
<1>5. CASE ~up[s]
  <2>1. c2s'[s] = c2s[s]
    BY <1>5 DEF Transmit
  <2> QED BY <1>1, <1>2, <1>5, <2>1 DEF InputOK
<1> QED BY <1>4, <1>5

\* What the session may still miss of the replay buffer is at its front.
LEMMA ReplayNumbers ==
    ASSUME LinesKeepTheirNumbers, RetainInv
    PROVE  /\ Len(clientPending) \in Nat /\ nextClient \in Nat /\ expectedClient \in Nat
           /\ nextClient - Len(clientPending) <= expectedClient
           /\ \A i \in 1 .. Len(clientPending) :
                /\ clientPending[i] \in PendingFrame
                /\ clientPending[i].sequence = nextClient - Len(clientPending) + i - 1
<1>1. clientPending \in Seq(ClientFrames)
  BY DEF LinesKeepTheirNumbers, RetainedInv
<1>2. \A i \in 1 .. Len(clientPending) : clientPending[i] \in PendingFrame
  BY <1>1, ElementOfSeq DEF ClientFrames
<1> QED BY <1>1, <1>2, LenProperties, Expected DEF RetainInv, Reaches, Run

\* A step in which the connector keeps its socket.
LEMMA SpeakerInput ==
    ASSUME LinesKeepTheirNumbers, SocketInv, SendsInv, EndInv, RetainInv, ReplayInv,
           ConnectorStep, NEW s \in Sockets, s = client.socket, s = client'.socket,
           InputOK(s)
    PROVE  InputOK(s)' /\ ReplayInv'
<1> DEFINE x == expectedClient
           A == Arriving(s)
           out == client.outgoing
<1>1. /\ client \in ClientState(ClientEnvelopes) /\ s # NoSocket /\ x \in Nat
      /\ nextClient \in Nat /\ out \in Seq(Envelopes) /\ ConnectedInv
      /\ client.socket = client.dialled /\ client.pc \notin {"dial", "done"}
      /\ up[s] \in BOOLEAN /\ Len(clientPending) \in Nat /\ client.replayAt \in Nat
      /\ client.pc = "send" => out # << >>
      /\ client.pc # "send" => out = << >>
  <2>1. s # NoSocket
    BY NetworkAssumption DEF Sockets, NoSocket
  <2>2. out \in Seq(Envelopes) /\ up[s] \in BOOLEAN
    BY InputTypes
  <2>3. x \in Nat /\ nextClient \in Nat /\ Len(clientPending) \in Nat
    BY ReplayNumbers
  <2>4. client \in ClientState(ClientEnvelopes) /\ ConnectedInv
    BY DEF LinesKeepTheirNumbers, ConnectorInv, SocketInv
  <2>5. /\ client.replayAt \in Nat
        /\ client.pc = "send" => out # << >>
        /\ client.pc # "send" => out = << >>
    BY <2>4 DEF LinesKeepTheirNumbers, ConnectorInv, ConnectedInv, ClientState
  <2>6. client.socket = client.dialled /\ client.pc \notin {"dial", "done"}
    BY <2>1, <2>4 DEF ConnectedInv
  <2> QED BY <2>1, <2>2, <2>3, <2>4, <2>5, <2>6
<1>2. /\ InOrder(Read(s), Held(s), c2s[s], x, Top(s))
      /\ up[s] => /\ Gapless(out, A, x, Top(s))
                  /\ NextNumber <= x \/ NextNumber - 1 \in A \cup Numbers(out)
  BY DEF InputOK
<1>3. NextNumber \in Int /\ Top(s) \in Nat
  BY NextNumberInt
<1>4. Numbers(<< >>) = {} /\ \A D, top : Gapless(<< >>, D, x, top)
  BY GaplessEmpty
<1>5. ASSUME NEW r, Return(r) PROVE FALSE
  BY <1>1, <1>5 DEF Return, ClientState
<1>6. ASSUME Redial PROVE FALSE
  BY <1>1, <1>6 DEF Redial, ClientState
<1>7. ASSUME NEW pc, Continue(pc)
      PROVE  client'.pc = pc /\ client'.outgoing = out /\ client'.replayAt = client.replayAt
  BY <1>1, <1>7 DEF Continue, ClientState
<1>8. ASSUME NEW e, Send(e)
      PROVE  client'.pc = "send" /\ client'.outgoing = <<e>>
  BY <1>1, <1>8 DEF Send, ClientState
<1>9. \* Nothing is written, and nothing new is to be.
      ASSUME c2s'[s] = c2s[s], up'[s] = up[s], nextClient' = nextClient, client'.outgoing = out,
             NextNumber' = NextNumber \/ NextNumber' <= x
      PROVE  InputOK(s)'
  <2>1. PICK top \in Nat : top = Top(s)
    BY <1>3
  <2>2. top = Top(s)' /\ InOrder(Read(s), Held(s), c2s[s], x, top)
    BY <1>2, <1>9, <2>1 DEF Top
  <2>3. up[s] => /\ Gapless(client'.outgoing, A, x, top)
                 /\ NextNumber' <= x \/ NextNumber' - 1 \in A \cup Numbers(client'.outgoing)
    BY <1>2, <1>9, <2>1
  <2> QED BY <1>9, <2>2, <2>3, InputQuiet
<1>10. \* The main loop prepares an answer.
       ASSUME NEW e \in Envelopes, e.type \in {"ack", "pong"}, Send(e), client.pc = "select",
              c2s' = c2s, up' = up, nextClient' = nextClient
       PROVE  InputOK(s)' /\ ReplayInv'
  <2>1. PICK top \in Nat : top = Top(s)
    BY <1>3
  <2>2. top = Top(s)' /\ InOrder(Read(s), Held(s), c2s[s], x, top)
    BY <1>2, <1>10, <2>1 DEF Top
  <2>3. NextNumber' = NextNumber /\ client'.outgoing = <<e>> /\ client'.pc = "send"
    BY <1>8, <1>10 DEF NextNumber
  <2>4. Gapless(<<e>>, A, x, top) /\ Covers(e) = {}
    <3>1. Preceded(e, A, x, top) /\ Covers(e) = {}
      BY <1>1, <1>10 DEF Preceded, Follows, Covers
    <3> QED BY <3>1, GaplessOne
  <2>5. Numbers(<<e>>) = {} /\ out = << >>
    BY <1>1, <1>10, <2>4, GaplessOne
  <2>6. up[s] => /\ Gapless(client'.outgoing, A, x, top)
                 /\ NextNumber' <= x \/ NextNumber' - 1 \in A \cup Numbers(client'.outgoing)
    BY <1>2, <1>4, <2>3, <2>4, <2>5
  <2>7. InputOK(s)'
    BY <1>10, <2>2, <2>6, InputQuiet
  <2> QED BY <2>3, <2>7 DEF ReplayInv
<1>11. CASE ReadStdin
  <2> DEFINE frame == [sequence |-> nextClient, payload |-> ClientInput[nextClient]]
             e == Acp(frame)
  <2>1. /\ client.pc = "select" /\ nextClient <= Len(ClientInput)
        /\ nextClient' = nextClient + 1 /\ Send(e) /\ UNCHANGED networkVars
    BY <1>5, <1>11 DEF ReadStdin
  <2>2. e \in Envelopes /\ e.type = "acp" /\ e.sequence = nextClient
    <3>1. ClientInput[nextClient] \in Payloads
      <4>1. nextClient \in 1 .. Len(ClientInput) /\ ClientInput \in Seq(Payloads)
        BY <2>1, Expected, ConnectorAssumption, LenProperties
      <4> QED BY <4>1, ElementOfSeq
    <3> QED BY <3>1, Expected DEF Acp, Envelopes
  <2> HIDE DEF e
  <2>3. client'.pc = "send" /\ client'.outgoing = <<e>> /\ NextNumber = nextClient
        /\ NextNumber' = nextClient + 1 /\ ~client.closing /\ out = << >>
    <3>1. client'.pc = "send" /\ client'.outgoing = <<e>>
      BY <1>8, <2>1
    <3> QED BY <1>1, <2>1, <3>1 DEF NextNumber, EndInv, ClosingInv
  <2>4. PICK top \in Nat : top = Top(s)'
    BY <1>1, <2>1 DEF Top
  <2>5. InOrder(Read(s), Held(s), c2s[s], x, top)
    BY <1>2, <2>3, InputTop
  <2>6. up[s] => /\ Gapless(client'.outgoing, A, x, top)
                 /\ NextNumber' <= x \/ NextNumber' - 1 \in A \cup Numbers(client'.outgoing)
    <3> SUFFICES ASSUME up[s]
                 PROVE  Gapless(<<e>>, A, x, top) /\ nextClient \in Numbers(<<e>>)
      BY <1>1, <2>3
    <3>1. nextClient <= x \/ nextClient - 1 \in A
      BY <1>2, <1>4, <2>3
    <3>2. Preceded(e, A, x, top) /\ Covers(e) = {nextClient}
      BY <2>2, <3>1 DEF Preceded, Follows, Covers
    <3> QED BY <2>2, <3>2, GaplessOne
  <2>7. InputOK(s)'
    BY <2>1, <2>4, <2>5, <2>6, InputQuiet DEF networkVars
  <2> QED BY <2>3, <2>7 DEF ReplayInv
<1>12. CASE StartShutdown
  <2>1. /\ client.pc = "select" /\ client'.pc = "send_shutdown" /\ client'.outgoing = out
        /\ UNCHANGED <<nextClient, clientPending, c2s, up>>
    BY <1>1, <1>12 DEF StartShutdown, ClientState, streamVars, networkVars
  <2>2. NextNumber' = NextNumber \/ NextNumber' <= x
    BY <1>1, <2>1 DEF NextNumber
  <2> QED BY <1>9, <2>1, <2>2 DEF ReplayInv
<1>13. CASE Receive
  <2>1. /\ client.pc = "select"
        /\ ReceiveAcp(Incoming) \/ ReceiveAck(Incoming) \/ ReceiveControl(Incoming)
    BY <1>13 DEF Receive
  <2>2. CASE ReceiveAcp(Incoming)
    <3> DEFINE n == ExpectedAfter(Incoming.sequence) - 1
               e == Ack("server_to_client", n)
    <3>1. Send(e) /\ Consume /\ nextClient' = nextClient
      BY <1>5, <2>2 DEF ReceiveAcp
    <3>2. e \in Envelopes /\ e.type = "ack"
      <4>1. n \in Nat
        BY Expected DEF ExpectedAfter
      <4> HIDE DEF n
      <4> QED BY <4>1 DEF Ack, Envelopes, Streams
    <3> HIDE DEF e
    <3> QED BY <1>10, <2>1, <3>1, <3>2 DEF Consume
  <2>3. CASE ReceiveAck(Incoming)
    <3>1. Continue("select") /\ Consume /\ nextClient' = nextClient
      BY <1>5, <2>3 DEF ReceiveAck
    <3>2. client'.pc = "select" /\ client'.outgoing = out
      BY <1>7, <3>1
    <3>3. NextNumber' = NextNumber
      BY <2>1, <3>1, <3>2 DEF NextNumber
    <3> QED BY <1>9, <3>1, <3>2, <3>3 DEF Consume, ReplayInv
  <2>4. CASE ReceiveControl(Incoming)
    <3>1. /\ UNCHANGED streamVars
          /\ (Send(Control("pong")) \/ Continue("select")) /\ Consume
      BY <1>5, <2>4 DEF ReceiveControl
    <3>2. Control("pong") \in Envelopes /\ Control("pong").type = "pong"
      BY DEF Control, Envelopes, ControlTypes
    <3>3. CASE Send(Control("pong"))
      BY <1>10, <2>1, <3>1, <3>2, <3>3 DEF Consume, streamVars
    <3>4. CASE Continue("select")
      <4>2. client'.pc = "select" /\ client'.outgoing = out
        BY <1>7, <3>4
      <4>3. NextNumber' = NextNumber
        BY <2>1, <3>1, <4>2 DEF NextNumber, streamVars
      <4> QED BY <1>9, <3>1, <4>2, <4>3 DEF Consume, ReplayInv, streamVars
    <3> QED BY <3>1, <3>3, <3>4
  <2> QED BY <2>1, <2>2, <2>3, <2>4
<1>14. CASE WriteOutgoing
  <2> DEFINE e == Head(out)
  <2>1. /\ client.pc = "send" /\ c2s' = Transmit(c2s, s, e) /\ up' = up /\ nextClient' = nextClient
        /\ client'.pc = "select" /\ client'.outgoing = << >>
    BY <1>1, <1>14 DEF WriteOutgoing, Put, ClientState, streamVars
  <2>2. out = <<e>> /\ e \in Envelopes
    BY <1>1, <2>1, AtMostOne, HeadIn DEF ConnectedInv
  <2> HIDE DEF e
  <2>3. PICK top \in Nat : top = Top(s)
    BY <1>3
  <2>4. top = Top(s)' /\ InOrder(Read(s), Held(s), c2s[s], x, top)
    BY <1>2, <2>1, <2>3 DEF Top
  <2>5. NextNumber' = NextNumber
    BY <2>1 DEF NextNumber
  <2>6. up[s] => /\ Preceded(e, A, x, top)
                 /\ NextNumber' <= x \/ NextNumber' - 1 \in A \cup Covers(e)
    <3>1. Numbers(out) = Covers(e) /\ (Gapless(out, A, x, top) => Preceded(e, A, x, top))
      BY <2>2, GaplessOne
    <3> QED BY <1>2, <2>3, <2>5, <3>1
  <2>7. InputOK(s)'
    BY <2>1, <2>2, <2>4, <2>6, InputWrites
  <2> QED BY <2>1, <2>7 DEF ReplayInv
<1>15. CASE ReceiveReady
  <2>1. /\ client.pc = "await" /\ Consume /\ UNCHANGED streamVars
        /\ client'.outgoing = out /\ client'.replayAt = ReplayFrom
        /\ client'.pc = IF client.closing THEN "send_shutdown" ELSE "replay"
    BY <1>1, <1>6, <1>15 DEF ReceiveReady, ClientState
  <2>2. nextClient - Len(clientPending) <= x
    BY ReplayNumbers
  <2>3. NextNumber' <= x
    <3>1. client.socket > 1
      BY <1>1, <2>1 DEF ConnectedInv
    <3>2. CASE client.closing
      BY <1>1, <2>1, <3>1, <3>2 DEF NextNumber
    <3>3. CASE ~client.closing
      <4>1. NextNumber' = nextClient - Len(clientPending)
        BY <1>1, <2>1, <3>3 DEF NextNumber, ReplayFrom, streamVars
      <4> QED BY <2>2, <4>1
    <3> QED BY <3>2, <3>3
  <2>4. ReplayInv'
    BY <1>1, <2>1 DEF ReplayInv, ReplayFrom, streamVars
  <2> QED BY <1>9, <2>1, <2>3, <2>4 DEF Consume, streamVars
<1>16. CASE ReplayFrame
  <2> DEFINE frame == clientPending[client.replayAt]
             e == Acp(frame)
  <2>1. /\ client.pc = "replay" /\ client.replayAt <= Len(clientPending)
        /\ c2s' = Transmit(c2s, s, e) /\ up' = up /\ UNCHANGED <<nextClient, clientPending>>
        /\ client'.pc = "replay" /\ client'.outgoing = << >> /\ out = << >>
        /\ client'.replayAt = client.replayAt + 1
    BY <1>1, <1>16 DEF ReplayFrame, Put, ClientState, streamVars
  <2>2. client.replayAt \in 1 .. Len(clientPending)
    BY <1>1, <2>1 DEF LinesKeepTheirNumbers, ConnectorInv
  <2>3. /\ frame \in PendingFrame
        /\ frame.sequence = nextClient - Len(clientPending) + client.replayAt - 1
    BY <2>2, ReplayNumbers
  <2>4. e \in Envelopes /\ e.type = "acp" /\ e.sequence = NextNumber /\ NextNumber' = NextNumber + 1
        /\ e.sequence \in Nat
    <3>1. NextNumber = frame.sequence
      BY <2>1, <2>3 DEF NextNumber
    <3>2. NextNumber' = frame.sequence + 1
      BY <1>1, <2>1, <2>3 DEF NextNumber
    <3> HIDE DEF frame
    <3> QED BY <2>3, <3>1, <3>2 DEF Acp, Envelopes, PendingFrame
  <2> HIDE DEF e
  <2>5. PICK top \in Nat : top = Top(s)
    BY <1>3
  <2>6. top = Top(s)' /\ InOrder(Read(s), Held(s), c2s[s], x, top)
    BY <1>2, <2>1, <2>5 DEF Top
  <2>7. up[s] => /\ Preceded(e, A, x, top)
                 /\ NextNumber' <= x \/ NextNumber' - 1 \in A \cup Covers(e)
    BY <1>2, <1>3, <1>4, <2>1, <2>4 DEF Preceded, Follows, Covers
  <2>8. InputOK(s)'
    BY <2>1, <2>4, <2>6, <2>7, InputWrites
  <2>9. ReplayInv'
    BY <1>1, <2>1 DEF ReplayInv
  <2> QED BY <2>8, <2>9
<1>17. CASE FinishReplay
  <2>1. /\ client.pc = "replay" /\ client.replayAt > Len(clientPending)
        /\ client'.pc = "select" /\ client'.outgoing = out
        /\ UNCHANGED <<nextClient, clientPending, c2s, up>>
    BY <1>1, <1>17 DEF FinishReplay, ClientState, streamVars, networkVars
  <2>2. NextNumber' = NextNumber
    BY <1>1, <2>1 DEF NextNumber, ReplayInv
  <2> QED BY <1>9, <2>1, <2>2 DEF ReplayInv
<1>18. CASE SendShutdown
  <2> DEFINE e == Control("shutdown")
  <2>1. /\ client.pc = "send_shutdown" /\ c2s' = Transmit(c2s, s, e) /\ up' = up
        /\ Continue("wait_complete") /\ UNCHANGED nextClient
    BY <1>1, <1>18 DEF SendShutdown, Put, streamVars
  <2>2. client'.pc = "wait_complete" /\ client'.outgoing = << >> /\ out = << >>
    BY <1>1, <1>7, <2>1
  <2>3. e \in Envelopes /\ e.type = "shutdown"
    BY DEF Control, Envelopes, ControlTypes
  <2> HIDE DEF e
  <2>4. PICK top \in Nat : top = Top(s)
    BY <1>3
  <2>5. top = Top(s)' /\ InOrder(Read(s), Held(s), c2s[s], x, top)
    BY <1>2, <2>1, <2>4 DEF Top
  <2>6. NextNumber' <= x
    BY <1>1, <2>2 DEF NextNumber
  <2>7. up[s] => Preceded(e, A, x, top)
    <3>1. CASE s = 1
      <4>1. NextNumber = top
        BY <2>1, <2>4, <3>1 DEF NextNumber, Top
      <4> QED BY <1>2, <1>4, <2>2, <2>3, <4>1 DEF Preceded, Follows
    <3>2. CASE s # 1
      BY <1>1, <2>3, <2>4, <3>2 DEF Preceded, Follows, Top
    <3> QED BY <3>1, <3>2
  <2>8. InputOK(s)'
    BY <2>1, <2>2, <2>3, <2>5, <2>6, <2>7, InputWrites
  <2> QED BY <2>2, <2>8 DEF ReplayInv
<1>19. CASE AwaitComplete
  <2>1. client.pc = "wait_complete" /\ UNCHANGED streamVars /\ NextNumber = 0 /\ out = << >>
    BY <1>1, <1>19 DEF AwaitComplete, NextNumber
  <2>2. CASE Continue("wait_complete") /\ Consume
    <3>1. client'.pc = "wait_complete" /\ client'.outgoing = out
      BY <1>7, <2>2
    <3>2. NextNumber' = NextNumber
      BY <2>1, <3>1 DEF NextNumber
    <3> QED BY <1>9, <2>1, <2>2, <3>1, <3>2 DEF Consume, ReplayInv, streamVars
  <2>3. CASE /\ c2s' = Transmit(c2s, s, Control("pong"))
             /\ UNCHANGED <<client, up>>
    <3> DEFINE e == Control("pong")
    <3>1. e \in Envelopes /\ e.type = "pong"
      BY DEF Control, Envelopes, ControlTypes
    <3> HIDE DEF e
    <3>2. PICK top \in Nat : top = Top(s)
      BY <1>3
    <3>3. top = Top(s)' /\ InOrder(Read(s), Held(s), c2s[s], x, top)
      BY <1>2, <2>1, <3>2 DEF Top, streamVars
    <3>4. NextNumber' <= x
      BY <1>1, <2>1, <2>3 DEF NextNumber
    <3>5. Preceded(e, A, x, top)
      BY <1>1, <3>1 DEF Preceded, Follows
    <3>6. c2s' = Transmit(c2s, s, e) /\ up'[s] = up[s] /\ client'.outgoing = << >>
      BY <2>1, <2>3 DEF e
    <3>7. InputOK(s)'
      BY <3>1, <3>3, <3>4, <3>5, <3>6, InputWrites
    <3> QED BY <2>1, <2>3, <3>7 DEF ReplayInv
  <2>4. \/ Continue("wait_complete") /\ Consume
        \/ c2s' = Transmit(c2s, s, Control("pong")) /\ UNCHANGED <<client, up>>
    BY <1>5, <1>19 DEF AwaitComplete
  <2> QED BY <2>2, <2>3, <2>4
<1>20. CASE Signal
  <2>1. /\ UNCHANGED <<streamVars, networkVars>> /\ client'.pc = client.pc
        /\ client'.outgoing = out /\ client'.replayAt = client.replayAt
    BY <1>1, <1>20 DEF Signal, ClientState
  <2>2. NextNumber' = NextNumber
    BY <2>1 DEF NextNumber, streamVars
  <2> QED BY <1>9, <2>1, <2>2 DEF ReplayInv, streamVars, networkVars
<1>21. ~Dial /\ ~LoseSocket /\ ~KeepaliveTimeout /\ ~AbandonAttempt /\ ~GiveUp
  BY <1>1, <1>5, <1>6 DEF Dial, LoseSocket, KeepaliveTimeout, AbandonAttempt, GiveUp
<1>22. ~ShutdownWhileDetached /\ ~ConnectorDies
  BY <1>1 DEF ShutdownWhileDetached, ConnectorDies, ClientState
<1> QED BY <1>11, <1>12, <1>13, <1>14, <1>15, <1>16, <1>17, <1>18, <1>19, <1>20, <1>21, <1>22
        DEF ConnectorStep, ConnectorNext

\* What a step of the connector does to the other sockets.
LEMMA OtherSocketInput ==
    ASSUME LinesKeepTheirNumbers, LinesKeepTheirNumbers', SocketInv, SendsInv, EndInv,
           ConnectorStep, NEW s \in Sockets,
           s # client.socket \/ s # client'.socket, InputOK(s)
    PROVE  InputOK(s)'
<1> DEFINE x == expectedClient
<1>1. /\ UNCHANGED <<events, tasks, expectedClient>> /\ x \in Nat
      /\ c2s[s] \in Seq(Envelopes) /\ NetworkInv /\ NoSocket \notin Sockets
      /\ Read(s) \in Seq(Envelopes) /\ Held(s) \in Seq(Envelopes)
      /\ client \in ClientState(ClientEnvelopes)
  BY Expected, InputTypes, NetworkAssumption
  DEF ConnectorStep, serverVars, channelVars, frameVars, LinesKeepTheirNumbers, ConnectorInv,
      Sockets, NoSocket
<1>2. Read(s)' = Read(s) /\ Held(s)' = Held(s)
  BY <1>1 DEF Read, Held
<1>3. InOrder(Read(s), Held(s), c2s[s], x, Top(s))
  BY DEF InputOK
<1>4. CASE s = client'.socket
  <2>1. /\ Dial /\ Fresh(s) /\ client'.pc = "await" /\ c2s'[s] = <<Control("open")>>
    BY <1>4, NewSocket
  <2>2. /\ UNCHANGED nextClient /\ client'.outgoing = << >> /\ c2s[s] = << >>
    BY <1>1, <2>1 DEF Dial, ClientState, SocketInv, ConnectedInv, Fresh, streamVars
  <2>3. PICK top \in Nat : top = Top(s)
    BY NextNumberInt
  <2>4. InOrder(Read(s), Held(s), << >>, x, top) /\ top = Top(s)'
    BY <1>3, <2>2, <2>3 DEF Top
  <2>5. InOrder(Read(s), Held(s), <<Control("open")>>, x, top)
    <3> DEFINE e == Control("open")
    <3>1. e \in Envelopes /\ Preceded(e, Pending3(Read(s), Held(s), << >>), x, top)
      BY <1>1 DEF Control, Envelopes, ControlTypes, Preceded, Follows
    <3>2. << >> \in Seq(Envelopes) /\ Append(<< >>, e) = <<e>>
      BY EmptySeq
    <3> HIDE DEF e
    <3>3. InOrder(Read(s), Held(s), Append(<< >>, e), x, top)
      BY <1>1, <2>4, <3>1, <3>2, PushInOrder
    <3> QED BY <3>2, <3>3 DEF e
  <2>6. NextNumber' = 0
    BY <2>1 DEF NextNumber
  <2> QED BY <1>1, <1>2, <2>1, <2>2, <2>4, <2>5, <2>6, GaplessEmpty DEF InputOK
<1>5. CASE s # client'.socket
  <2>1. nextClient' = nextClient \/ ~client.closing
    <3>1. CASE ReadStdin
      BY <3>1 DEF ReadStdin, EndInv, ClosingInv
    <3>2. CASE Receive
      BY <3>2 DEF Receive, ReceiveAcp, ReceiveAck, ReceiveControl, streamVars
    <3> QED BY <3>1, <3>2
        DEF ConnectorStep, ConnectorNext, StartShutdown, WriteOutgoing, LoseSocket,
            KeepaliveTimeout, Dial, ReceiveReady, AbandonAttempt, ShutdownWhileDetached,
            ReplayFrame, FinishReplay, GiveUp, SendShutdown, AwaitComplete, Signal,
            ConnectorDies, streamVars
  <2>2. PICK top \in Nat : top = Top(s)'
    <3>1. (nextClient \in Nat)'
      BY Expected, PTL
    <3> QED BY <3>1 DEF Top
  <2>3. InOrder(Read(s), Held(s), c2s[s], x, top)
    <3>1. top = Top(s) \/ ~client.closing
      BY <2>1, <2>2 DEF Top
    <3> QED BY <1>3, <3>1, InputTop
  <2>4. Cut(c2s'[s], c2s[s])
    <3>1. ASSUME c2s'[s] = c2s[s] PROVE Cut(c2s'[s], c2s[s])
      BY <1>1, <3>1, CutWhole
    <3>2. CASE UNCHANGED networkVars
      BY <3>1, <3>2 DEF networkVars
    <3>3. CASE CloseClientEnd(client.socket)
      BY <1>1, <3>1, <3>3, ClientEndCloses
    <3>4. CASE ((\E e : Writes(e)) \/ UNCHANGED c2s) /\ UNCHANGED <<up, client.socket, client.dialled>>
      <4>1. s # client.socket
        BY <1>5, <3>4
      <4> QED BY <1>1, <3>1, <3>4, <4>1 DEF Writes, Transmit, NetworkInv
    <3>5. CASE Dial
      <4>1. client'.socket = client.dialled + 1
            /\ c2s' = [c2s EXCEPT ![client.dialled + 1] = <<Control("open")>>]
        BY <1>1, <3>5 DEF Dial, ClientState
      <4>2. c2s'[s] = c2s[s]
        BY <1>1, <1>5, <4>1 DEF NetworkInv
      <4> QED BY <3>1, <4>2
    <3> QED BY <3>2, <3>3, <3>4, <3>5, ConnectorMoves DEF SocketInv
  <2>5. InOrder(Read(s), Held(s), c2s'[s], x, top)
    BY <1>1, <2>3, <2>4, CutInOrder
  <2> QED BY <1>1, <1>2, <1>5, <2>2, <2>5 DEF InputOK
<1> QED BY <1>4, <1>5

\* The loop of run_agent_session is not entered again.
LEMMA LoopEnds ==
    ASSUME LinesKeepTheirNumbers, SessionNext, Looping'
    PROVE  Looping
<1>1. session \in SessionState(ServerEnvelopes)
  BY DEF LinesKeepTheirNumbers, SessionInv
<1> SUFFICES ASSUME ~Looping PROVE ~Looping'
  OBVIOUS
<1>2. session.pc \in {"reap", "farewell", "farewell_wait", "ended"}
  BY DEF Looping
<1>3. CASE ReapAgent \/ SendFarewell
  BY <1>1, <1>2, <1>3 DEF ReapAgent, SendFarewell, SessionState, Looping
<1>4. CASE ReapFails \/ EndSession
  BY <1>1, <1>4 DEF ReapFails, Abandon, EndSession, Leave, SessionState, Looping
<1> QED
  BY <1>2, <1>3, <1>4
  DEF SessionNext, PumpReplay, PumpFindsClosed, EnterSelect, SendExit, ExitConfirmed, ExitFails,
      ChildWait, TakeAttachment, AttachEnqueues, AttachSucceeds, AttachFails, ServerShutdown,
      KeepaliveExpires, SendNoise, Wake, ReadAgent, GraceExpires, ReceiveEvent, SendReply

\* A resumed socket is handed to the session without its `open`.
LEMMA OpenTaken ==
    ASSUME LinesKeepTheirNumbers, NEW s \in Sockets, InputOK(s),
           UNCHANGED <<client, clientPending, nextClient, expectedClient, events, tasks>>,
           up'[s] = up[s], c2s[s] # << >>, Head(c2s[s]) = Control("open"), c2s'[s] = Tail(c2s[s])
    PROVE  InputOK(s)'
<1> DEFINE a == Read(s)
           b == Held(s)
           c == c2s[s]
           x == expectedClient
           e == Control("open")
<1>1. /\ a \in Seq(Envelopes) /\ b \in Seq(Envelopes) /\ c \in Seq(Envelopes) /\ x \in Nat
      /\ c # << >> /\ Head(c) = e
  BY InputTypes, Expected
<1>2. PICK top \in Nat : top = Top(s)
  BY NextNumberInt
<1>3. InOrder(a, b, c, x, top)
  BY <1>2 DEF InputOK
<1>4. Covers(e) = {}
  BY DEF Covers, Control
<1>5. InOrder(a, b, Tail(c), x, top)
  <2>1. Gapless(Tail(c), Numbers(a) \cup Numbers(b) \cup Covers(Head(c)), x, top)
    <3>1. Gapless(c, Numbers(a) \cup Numbers(b), x, top)
      BY <1>3 DEF InOrder
    <3> HIDE DEF a, b, c, x
    <3> QED BY <1>1, <3>1, GaplessTail
  <2> QED BY <1>1, <1>3, <1>4, <2>1 DEF InOrder
<1>6. Pending3(a, b, Tail(c)) = Pending3(a, b, c)
  BY <1>1, <1>4, NumbersTail DEF Pending3
<1>7. /\ Read(s)' = a /\ Held(s)' = b /\ c2s'[s] = Tail(c) /\ Top(s)' = top /\ x' = x
      /\ NextNumber' = NextNumber
  BY <1>2 DEF Read, Held, Top, NextNumber
<1>8. Arriving(s)' = Arriving(s)
  BY <1>6, <1>7 DEF Arriving
<1> QED BY <1>2, <1>5, <1>7, <1>8 DEF InputOK

\* A step of the connector opens no gap.
LEMMA ConnectorInput ==
    ASSUME LinesKeepTheirNumbers, LinesKeepTheirNumbers', SocketInv, SendsInv, EndInv,
           RetainInv, ReplayInv, InputInv, ConnectorStep
    PROVE  InputInv'
<1>1. UNCHANGED <<session, tasks>>
  BY DEF ConnectorStep, serverVars, channelVars
<1> SUFFICES ASSUME Looping', NEW s \in Sockets, Serving(s)' PROVE InputOK(s)'
  BY DEF InputInv
<1>2. InputOK(s)
  <2>1. Looping /\ Serving(s)
    BY <1>1 DEF Looping, Serving
  <2> QED BY <2>1 DEF InputInv
<1>3. CASE s = client.socket /\ s = client'.socket
  BY <1>2, <1>3, SpeakerInput
<1>4. CASE s # client.socket \/ s # client'.socket
  BY <1>2, <1>4, OtherSocketInput
<1> QED BY <1>3, <1>4

\* The replay goes through the buffer once.
LEMMA ReplayKeeps ==
    ASSUME LinesKeepTheirNumbers, SocketInv, SendsInv, EndInv,
           RetainInv, ReplayInv, ConnectorStep
    PROVE  ReplayInv'
<1>1. /\ client \in ClientState(ClientEnvelopes) /\ clientPending \in Seq(ClientFrames)
      /\ ConnectedInv
  BY DEF LinesKeepTheirNumbers, ConnectorInv, RetainedInv, SocketInv
<1>2. Len(clientPending) \in Nat
  BY <1>1, LenProperties
<1> SUFFICES ASSUME client'.pc = "replay"
             PROVE  client'.replayAt <= Len(clientPending') + 1
  BY DEF ReplayInv
<1>3. ASSUME NEW r, Return(r) PROVE FALSE
  BY <1>1, <1>3 DEF Return, ClientState
<1>4. ASSUME Redial PROVE FALSE
  BY <1>1, <1>4 DEF Redial, ClientState
<1>5. ASSUME NEW e, Send(e) PROVE FALSE
  BY <1>1, <1>5 DEF Send, ClientState
<1>6. ASSUME NEW pc, pc # "replay", Continue(pc) PROVE FALSE
  BY <1>1, <1>6 DEF Continue, ClientState
<1>7. ~ReadStdin /\ ~StartShutdown /\ ~WriteOutgoing
  BY <1>1, <1>3, <1>5 DEF ReadStdin, StartShutdown, WriteOutgoing, ClientState
<1>8. ~Receive
  BY <1>3, <1>5, <1>6 DEF Receive, ReceiveAcp, ReceiveAck, ReceiveControl
<1>9. ~LoseSocket /\ ~KeepaliveTimeout /\ ~AbandonAttempt /\ ~GiveUp
  BY <1>3, <1>4 DEF LoseSocket, KeepaliveTimeout, AbandonAttempt, GiveUp
<1>10. ~Dial /\ ~ShutdownWhileDetached /\ ~FinishReplay /\ ~ConnectorDies
  BY <1>1 DEF Dial, ShutdownWhileDetached, FinishReplay, ConnectorDies, ClientState
<1>11. ~SendShutdown
  BY <1>6 DEF SendShutdown
<1>12. ~AwaitComplete
  <2> SUFFICES ASSUME AwaitComplete PROVE FALSE
    OBVIOUS
  <2>1. client.pc = "wait_complete"
    BY DEF AwaitComplete
  <2>2. \/ Return("shutdown") \/ Return("error") \/ Return("protocol")
        \/ Continue("wait_complete") \/ UNCHANGED client
    BY DEF AwaitComplete
  <2>3. client'.pc # "replay"
    BY <1>1, <2>1, <2>2 DEF Return, Continue, ClientState
  <2> QED BY <2>3
<1>13. CASE ReceiveReady
  <2>1. client'.replayAt = ReplayFrom /\ UNCHANGED clientPending
    BY <1>1, <1>4, <1>13 DEF ReceiveReady, ClientState, streamVars
  <2> QED BY <1>2, <2>1 DEF ReplayFrom
<1>14. CASE ReplayFrame
  <2>1. /\ client.replayAt <= Len(clientPending) /\ client'.replayAt = client.replayAt + 1
        /\ UNCHANGED clientPending /\ client.replayAt \in Nat
    BY <1>1, <1>14 DEF ReplayFrame, ClientState, streamVars
  <2> QED BY <1>2, <2>1
<1>15. CASE Signal
  BY <1>1, <1>15 DEF Signal, ClientState, ReplayInv, streamVars
<1> QED BY <1>7, <1>8, <1>9, <1>10, <1>11, <1>12, <1>13, <1>14, <1>15 DEF ConnectorStep, ConnectorNext

\* Nor does any other step.
LEMMA InputKeeps ==
    ASSUME LinesKeepTheirNumbers, LinesKeepTheirNumbers', SocketInv, SendsInv, EndInv,
           RetainInv, ReplayInv, InputInv, [Next]_vars
    PROVE  InputInv' /\ ReplayInv'
<1>1. CASE ConnectorStep
  BY <1>1, ConnectorInput, ReplayKeeps
<1>2. CASE ~ConnectorStep
  <2>1. UNCHANGED <<client, clientPending, nextClient>>
    BY <1>2 DEF Next, ServerStep, NetworkStep, vars, clientVars, streamVars
  <2>2. ReplayInv'
    BY <2>1 DEF ReplayInv
  <2> SUFFICES ASSUME Looping', NEW s \in Sockets, Serving(s)' PROVE InputOK(s)'
    BY <2>2 DEF InputInv
  <2>3. ASSUME Looping, Serving(s),
               (InputMoves(s) /\ UNCHANGED expectedClient) \/ Drops(s)
        PROVE  InputOK(s)'
    BY <2>1, <2>3, ServerInput DEF InputInv
  <2>4. NetworkInv /\ c2s[s] \in Seq(Envelopes)
    BY InputTypes DEF LinesKeepTheirNumbers
  <2>5. ASSUME UNCHANGED <<session, tasks, events, expectedClient>>
        PROVE  /\ Looping /\ Serving(s) /\ Read(s)' = Read(s) /\ Held(s)' = Held(s)
    BY <2>5 DEF Looping, Serving, Read, Held
  <2>6. CASE SessionNext
    <3>1. Looping
      BY <2>6, LoopEnds
    <3>2. Serving(s) /\ ((Unmoved(s) /\ UNCHANGED expectedClient) \/ Drops(s))
      BY <2>6, SessionInput
    <3> QED BY <2>3, <3>1, <3>2 DEF InputMoves
  <2>7. ASSUME NEW t \in Sockets, TaskNext(t) PROVE InputOK(s)'
    <3>1. /\ session'.pc = session.pc /\ session'.transport = session.transport
          /\ session'.attaching = session.attaching /\ UNCHANGED expectedClient
      BY <2>7, TaskOver
    <3>2. tasks'[s].state = "none" => tasks[s].state = "none"
      BY <2>7, TaskMoves DEF SocketInv
    <3>3. Looping /\ Serving(s)
      BY <3>1, <3>2 DEF Looping, Serving
    <3>4. InputMoves(s)
      BY <2>7, TaskInput DEF SocketInv
    <3> QED BY <2>3, <3>1, <3>3, <3>4
  <2>8. ASSUME NEW t \in Sockets, AcceptResume(t) PROVE InputOK(s)'
    <3>1. UNCHANGED <<session, tasks, events, expectedClient>>
      BY <2>8 DEF AcceptResume, frameVars
    <3>2. CASE c2s' = [c2s EXCEPT ![t] = Tail(@)] /\ UNCHANGED up
      <4>1. CASE s = t
        <5>1. /\ up'[s] = up[s] /\ c2s[s] # << >> /\ Head(c2s[s]) = Control("open")
              /\ c2s'[s] = Tail(c2s[s]) /\ InputOK(s)
          BY <2>4, <2>5, <2>8, <3>1, <3>2, <4>1 DEF AcceptResume, NetworkInv, InputInv
        <5> QED BY <2>1, <3>1, <5>1, OpenTaken
      <4>2. CASE s # t
        <5>1. Unmoved(s)
          BY <2>4, <2>5, <3>1, <3>2, <4>2 DEF Unmoved, NetworkInv
        <5> QED BY <2>3, <2>5, <3>1, <5>1 DEF InputMoves
      <4> QED BY <4>1, <4>2
    <3>3. ASSUME s = t => ~up'[s] /\ c2s'[s] = << >>,
                 s # t => up'[s] = up[s] /\ c2s'[s] = c2s[s]
          PROVE  InputOK(s)'
      <4>1. Cut(<< >>, c2s[s])
        <5>1. /\ Len(c2s[s]) \in Nat /\ SubSeq(c2s[s], 1, 0) = << >>
          BY <2>4, LenProperties
        <5> QED BY <5>1 DEF Cut
      <4>2. Unmoved(s) \/ Cuts(s)
        BY <2>5, <3>1, <3>3, <4>1 DEF Unmoved, Cuts
      <4> QED BY <2>3, <2>5, <3>1, <4>2 DEF InputMoves
    <3>4. CASE CloseServerEnd({t})
      BY <2>4, <3>3, <3>4, ServerEndCloses
    <3>5. CASE up' = [up EXCEPT ![t] = FALSE] /\ c2s' = [c2s EXCEPT ![t] = << >>]
      BY <2>4, <3>3, <3>5 DEF NetworkInv
    <3> QED BY <2>8, <3>2, <3>4, <3>5 DEF AcceptResume
  <2>9. CASE AgentWrites \/ AgentExits \/ Cancel \/ UNCHANGED vars
    <3>1. UNCHANGED <<session, tasks, events, expectedClient, c2s, up>>
      BY <2>9
      DEF AgentWrites, AgentExits, Cancel, vars, networkVars, serverVars, frameVars, channelVars
    <3>2. Unmoved(s)
      BY <2>5, <3>1 DEF Unmoved
    <3> QED BY <2>3, <2>5, <3>1, <3>2 DEF InputMoves
  <2>10. CASE NetworkStep
    <3>1. UNCHANGED <<session, tasks, events, expectedClient>>
      BY <2>10 DEF NetworkStep, serverVars, frameVars, channelVars
    <3>2. PICK t \in Sockets : LinkFails(t)
      BY <2>10 DEF NetworkStep
    <3>3. Unmoved(s) \/ Cuts(s)
      BY <2>4, <2>5, <3>1, <3>2, LinkCloses DEF Unmoved, Cuts
    <3> QED BY <2>3, <2>5, <3>1, <3>3 DEF InputMoves
  <2> QED BY <1>2, <2>6, <2>7, <2>8, <2>9, <2>10 DEF Next, ServerStep, ServerNext
<1> QED BY <1>1, <1>2

\* At first nothing is on its way to the session.
LEMMA InputInit == Init => InputInv /\ ReplayInv
<1> SUFFICES ASSUME Init PROVE InputInv /\ ReplayInv
  OBVIOUS
<1>1. /\ events = << >> /\ client.outgoing = << >> /\ client.pc = "select"
      /\ c2s = [s \in Sockets |-> << >>]
      /\ tasks = [s \in Sockets |-> IF s = 1 THEN StartedTask ELSE NoTask]
      /\ nextClient = 1 /\ expectedClient = 1
  BY DEF Init, SessionInit, NetworkInit, ConnectorInit
<1>2. NextNumber <= expectedClient
  BY <1>1 DEF NextNumber
<1>3. ASSUME NEW s \in Sockets PROVE InputOK(s)
  <2>1. c2s[s] = << >> /\ tasks[s].held = << >>
    BY <1>1 DEF StartedTask, NoTask
  <2>2. Read(s) = << >> /\ Held(s) = << >>
    <3>1. EnvelopesOf(<< >>, s) = << >>
      BY EnvelopesOfSeq, EmptySeq
    <3> QED BY <1>1, <2>1, <3>1 DEF Read, Held
  <2> QED BY <1>1, <1>2, <2>1, <2>2, GaplessEmpty DEF InputOK, InOrder
<1> QED BY <1>1, <1>3 DEF InputInv, ReplayInv

-----------------------------------------------------------------------------
(* What the two ends find when they read.                                  *)

\* What handle_client_envelope blames the connector for.
Blames == {"oversized_acp_line", "client_sequence_gap", "invalid_acknowledgement",
           "unexpected_acknowledgement", "unexpected_envelope"}

\* The session reads an envelope of its transport.
Heard == /\ session.pc = "select" /\ events # << >>
         /\ Head(events).socket = session.transport /\ Head(events).kind = "envelope"

\* It has no reason to blame the connector, and `shutdown` on the first socket
\* finds every line.
LEMMA NothingToBlame ==
    ASSUME LinesKeepTheirNumbers, SocketInv, SendsInv, InputInv, Heard,
           NEW e, e = Head(events).envelope
    PROVE  /\ Violation(e) = "none"
           /\ e.type = "shutdown" /\ client.dialled = 1 => expectedClient = nextClient
<1> DEFINE v == Head(events)
           s == session.transport
<1>1. /\ events \in Seq(Event) /\ events \in Seq(ReadEvents) /\ events # << >>
      /\ v \in ReadEvents
  <2>1. events \in Seq(ReadEvents) /\ events # << >>
    BY DEF SendsInv, Carries, Heard
  <2>2. ReadEvents \subseteq Event
    BY DEF ReadEvents
  <2> QED BY <2>1, <2>2, SeqGrows, HeadIn
<1>2. e \in SessionReads /\ e \in Envelopes
  BY <1>1 DEF ReadEvents, Heard, SessionReads, ConnectorSends
<1>3. s \in Sockets /\ tasks[s].state # "none"
  <2>1. v = events[1] /\ 1 \in 1 .. Len(events)
    BY <1>1, HeadIn, TailElements
  <2>2. EventOK(v)
    BY <2>1 DEF SocketInv, EventInv
  <2> QED BY <2>2 DEF EventOK, Heard
<1>4. Looping /\ Serving(s)
  BY DEF Heard, Looping, Serving
<1>5. InOrder(Read(s), Held(s), c2s[s], expectedClient, Top(s))
  BY <1>3, <1>4 DEF InputInv, InputOK
<1>6. Read(s) \in Seq(Envelopes) /\ Read(s) # << >> /\ Head(Read(s)) = e
  <2>1. Said(v, s) = e
    BY DEF Said, Heard
  <2>2. Read(s) # << >> /\ Head(Read(s)) = Said(v, s)
    BY <1>1, EnvelopesOfTail DEF Read
  <2> QED BY <1>3, <2>1, <2>2, InputTypes
<1>7. PICK top \in Nat : top = Top(s)
  BY NextNumberInt
<1>8. PICK x \in Nat : x = expectedClient
  BY Expected
<1>9. Preceded(e, {}, x, top)
  <2>1. Gapless(Read(s), {}, x, top)
    BY <1>5, <1>7, <1>8 DEF InOrder
  <2> HIDE DEF s
  <2> QED BY <1>6, <2>1, GaplessTail
<1>10. Follows(e, top) <= expectedClient
  BY <1>8, <1>9 DEF Preceded
<1>11. Violation(e) = "none"
  <2>1. CASE e.type = "acp"
    <3>1. e.sequence <= expectedClient /\ e.sequence \in Nat
      BY <1>2, <1>10, <2>1, FollowsNat DEF Follows
    <3>2. e.payload \in Payloads /\ EnvelopeSize[e.payload] <= ServerFrameBytes
      BY <1>2, <2>1 DEF SessionReads, Envelopes, ControlTypes
    <3>3. Size[e.payload] <= ServerFrameBytes
      BY <3>2, EnvelopeAssumption, NetworkAssumption, SessionAssumption
    <3>4. expectedClient \in Nat /\ Size[e.payload] \in Nat /\ ServerFrameBytes \in Nat
      BY <3>2, Expected, SessionAssumption
    <3> QED BY <2>1, <3>1, <3>3, <3>4 DEF Violation, ControlTypes
  <2>2. CASE e.type = "ack"
    <3>1. e.stream = "server_to_client" /\ e.sequence < expectedServer /\ e.sequence \in Nat
      BY <1>2, <2>2 DEF SessionReads, ConnectorSends, Envelopes, ControlTypes
    <3>2. e.sequence < nextServer /\ nextServer \in Nat
      BY <3>1, Expected
    <3> QED BY <2>2, <3>1, <3>2 DEF Violation, ControlTypes
  <2>3. CASE e.type \in {"pong", "shutdown"}
    BY <2>3 DEF Violation
  <2> QED BY <1>2, <2>1, <2>2, <2>3 DEF SessionReads, ConnectorSends
<1>12. ASSUME e.type = "shutdown", client.dialled = 1 PROVE expectedClient = nextClient
  <2>1. s = 1
    <3>1. s \in Nat /\ s >= 1
      BY <1>3, NetworkAssumption DEF Sockets
    <3>2. ~(s > 1)
      BY <1>3, <1>12 DEF SocketInv, FreshInv, Fresh, NoTask
    <3> QED BY <3>1, <3>2
  <2>2. nextClient <= expectedClient
    BY <1>7, <1>10, <1>12, <2>1 DEF Follows, Top
  <2> QED BY <2>2, Expected
<1> QED BY <1>11, <1>12

\* How the loop's verdict comes about: what the connector said, or what only
\* the server knows.
LEMMA Verdicts ==
    ASSUME LinesKeepTheirNumbers, SocketInv, SendsInv, InputInv, SessionNext,
           NEW c, c = session'.endCategory, c # session.endCategory
    PROVE  /\ c \notin Blames
           /\ c = "client_shutdown" /\ client.dialled = 1 =>
                UNCHANGED expectedClient /\ expectedClient = nextClient
<1> DEFINE Goal == /\ c \notin Blames
                   /\ c = "client_shutdown" /\ client.dialled = 1 =>
                        UNCHANGED expectedClient /\ expectedClient = nextClient
           Own == {"child_exit", "server_shutdown", "agent_stdout_line", "reconnect_timeout",
                   "replay_buffer_exhausted", "stdin_error", "policy_error", "reap_error"}
<1>1. session \in SessionState(ServerEnvelopes)
  BY DEF LinesKeepTheirNumbers, SessionInv
<1>2. ASSUME c \in Own PROVE Goal
  BY <1>2 DEF Blames
<1>3. ASSUME NEW r \in Own, EndLoop(r) \/ Abandon(r) PROVE Goal
  <2>1. c = r
    BY <1>1, <1>3 DEF EndLoop, Abandon, Leave, SessionState
  <2> QED BY <1>2, <1>3, <2>1
<1>4. ASSUME NEW p, Proceed(p) \/ Detach(p) PROVE FALSE
  BY <1>1, <1>4 DEF Proceed, Detach, SessionState
<1>5. ASSUME session'.endCategory = session.endCategory PROVE FALSE
  BY <1>5
<1>6. CASE ReceiveEvent
  <2> DEFINE e == Head(events).envelope
  <2>1. Heard /\ HandleClientEnvelope(e)
    BY <1>4, <1>6 DEF ReceiveEvent, Only, Heard, Stale
  <2>2. /\ Violation(e) = "none"
        /\ e.type = "shutdown" /\ client.dialled = 1 => expectedClient = nextClient
    BY <2>1, NothingToBlame
  <2> HIDE DEF e
  <2>3. ASSUME NEW f, Reply(f) PROVE FALSE
    BY <1>1, <2>3 DEF Reply, SessionState
  <2>4. CASE HandleAcp(e)
    <3>1. CASE ForwardLine(e)
      BY <1>3, <2>3, <3>1 DEF ForwardLine, Accept
    <3>2. CASE RejectLine(e)
      BY <1>3, <2>3, <3>2 DEF RejectLine, Accept, Only
    <3> QED BY <1>3, <2>3, <2>4, <3>1, <3>2 DEF HandleAcp
  <2>5. CASE HandleAck(e)
    BY <1>4, <2>5 DEF HandleAck
  <2>6. CASE HandleControl(e)
    <3>1. e.type = "shutdown" /\ Only(session' = [session EXCEPT !.pc = "reap",
                                         !.endCategory = "client_shutdown",
                                         !.registered = FALSE])
      BY <1>4, <2>3, <2>6 DEF HandleControl, Only
    <3>2. c = "client_shutdown" /\ UNCHANGED expectedClient
      BY <1>1, <3>1 DEF Only, frameVars, SessionState
    <3> QED BY <2>2, <3>1, <3>2 DEF Blames
  <2> QED BY <2>1, <2>2, <2>4, <2>5, <2>6 DEF HandleClientEnvelope
<1>7. CASE ExitConfirmed \/ ServerShutdown \/ GraceExpires
  BY <1>3, <1>7 DEF ExitConfirmed, ServerShutdown, GraceExpires
<1>8. CASE ReadAgent
  BY <1>3, <1>4, <1>8 DEF ReadAgent
<1>9. CASE ReapFails
  BY <1>3, <1>9 DEF ReapFails
<1>10. CASE EndSession
  BY <1>1, <1>5, <1>10 DEF EndSession, Leave, SessionState
<1>11. CASE PumpReplay \/ PumpFindsClosed \/ KeepaliveExpires \/ ExitFails
  BY <1>1, <1>4, <1>5, <1>11 DEF PumpReplay, PumpFindsClosed, KeepaliveExpires, ExitFails
<1>12. CASE EnterSelect \/ SendExit \/ ChildWait \/ SendNoise \/ Wake
  BY <1>1, <1>4, <1>5, <1>12 DEF EnterSelect, SendExit, ChildWait, SendNoise, Wake, Proceed, SessionState
<1>13. CASE TakeAttachment
  BY <1>1, <1>5, <1>13 DEF TakeAttachment, SessionState
<1>14. CASE AttachEnqueues \/ AttachSucceeds \/ AttachFails
  BY <1>1, <1>5, <1>14 DEF AttachEnqueues, AttachSucceeds, AttachFails, AfterFailedAttach, SessionState
<1>15. CASE SendReply \/ ReapAgent \/ SendFarewell
  BY <1>1, <1>5, <1>15 DEF SendReply, ReapAgent, SendFarewell, SessionState
<1> QED BY <1>6, <1>7, <1>8, <1>9, <1>10, <1>11, <1>12, <1>13, <1>14, <1>15 DEF SessionNext

\* The session never blames its connector, and a session that ends with a
\* shutdown on the first socket has handled every line.
DeliverInv ==
    /\ session.endCategory \notin Blames
    /\ session.endCategory = "client_shutdown" /\ client.dialled = 1 =>
         expectedClient = nextClient

\* In every step.
LEMMA DeliverKeeps ==
    ASSUME LinesKeepTheirNumbers, LinesKeepTheirNumbers', SocketInv, SendsInv, EndInv,
           InputInv, DeliverInv, Advances, [Next]_vars
    PROVE  DeliverInv'
<1>1. /\ client \in ClientState(ClientEnvelopes) /\ ConnectedInv
      /\ client.dialled \in Nat /\ client.dialled >= 1
  BY NetworkAssumption DEF LinesKeepTheirNumbers, ConnectorInv, ClientState, SocketInv, Sockets
<1>2. /\ expectedClient \in Nat /\ nextClient \in Nat /\ expectedClient <= nextClient
  BY Expected
<1>3. /\ expectedClient' \in Nat /\ nextClient' \in Nat /\ expectedClient' <= nextClient'
  <2>1. (/\ expectedClient \in Nat /\ nextClient \in Nat /\ expectedClient <= nextClient)'
    BY Expected, PTL
  <2> QED BY <2>1
<1>4. ASSUME session'.endCategory = session.endCategory,
             session.endCategory = "client_shutdown" /\ client'.dialled = 1 =>
               client.dialled = 1 /\ UNCHANGED nextClient
      PROVE  DeliverInv'
  BY <1>2, <1>3, <1>4 DEF DeliverInv, Advances
<1>5. CASE ConnectorStep
  <2>1. UNCHANGED session
    BY <1>5 DEF ConnectorStep, serverVars
  <2>2. client'.dialled = 1 => client.dialled = 1
    <3>1. CASE Dial
      BY <1>1, <3>1 DEF Dial, ClientState
    <3>2. CASE client'.dialled = client.dialled
      BY <3>2
    <3> QED BY <1>1, <1>5, <3>1, <3>2, ConnectorMoves
  <2>3. ASSUME session.endCategory = "client_shutdown" PROVE UNCHANGED nextClient
    <3>1. client.pc # "select"
      BY <2>3 DEF EndInv, ClosingInv
    <3>2. ~ReadStdin /\ ~Receive
      BY <3>1 DEF ReadStdin, Receive
    <3> QED
      BY <1>5, <3>2
      DEF ConnectorStep, ConnectorNext, StartShutdown, WriteOutgoing, LoseSocket,
          KeepaliveTimeout, Dial, ReceiveReady, AbandonAttempt, ShutdownWhileDetached,
          ReplayFrame, FinishReplay, GiveUp, SendShutdown, AwaitComplete, Signal,
          ConnectorDies, streamVars
  <2> QED BY <1>4, <2>1, <2>2, <2>3
<1>6. CASE ~ConnectorStep
  <2>1. UNCHANGED <<client, nextClient>>
    BY <1>6 DEF Next, ServerStep, NetworkStep, vars, clientVars, streamVars
  <2>2. CASE session'.endCategory = session.endCategory
    BY <1>4, <2>1, <2>2
  <2>3. CASE session'.endCategory # session.endCategory
    <3>1. SessionNext
      <4>1. ASSUME NEW t \in Sockets, TaskNext(t) PROVE FALSE
        <5>1. PICK x : session' = [session EXCEPT !.sent = x]
          BY <4>1, TaskMoves DEF SocketInv
        <5>2. session \in SessionState(ServerEnvelopes)
          BY DEF LinesKeepTheirNumbers, SessionInv
        <5> QED BY <2>3, <5>1, <5>2 DEF SessionState
      <4>2. ~(\E t \in Sockets : AcceptResume(t)) /\ ~AgentWrites /\ ~AgentExits /\ ~Cancel
        BY <2>3 DEF AcceptResume, AgentWrites, AgentExits, Cancel
      <4>3. ~NetworkStep /\ ~UNCHANGED vars
        BY <2>3 DEF NetworkStep, vars, serverVars
      <4> QED BY <1>6, <4>1, <4>2, <4>3 DEF Next, ServerStep, ServerNext
    <3> QED BY <2>1, <2>3, <3>1, Verdicts DEF DeliverInv
  <2> QED BY <2>2, <2>3
<1> QED BY <1>5, <1>6

-----------------------------------------------------------------------------
\* Nor does the connector ever blame its session.
LEMMA NothingUnexpected ==
    ASSUME LinesKeepTheirNumbers, SocketInv, SendsInv, EndInv, AnnounceInv, OutputInv,
           HasIncoming, client.pc \in {"select", "wait_complete"},
           NEW e, e = Incoming
    PROVE  /\ e.type \in {"acp", "ack", "pong", "ping", "stderr", "exit", "error", "shutdown_complete"}
           /\ client.pc = "select" =>
                /\ e.type # "shutdown_complete"
                /\ e.type = "acp" => ~(Size[e.payload] > ClientFrameBytes \/ e.sequence > expectedServer)
                /\ e.type = "ack" => ~(e.stream # "client_to_server" \/ e.sequence >= nextClient)
<1> DEFINE s == client.socket
<1>1. /\ s \in Sockets /\ s2c[s] # << >> /\ e = Head(s2c[s])
      /\ e.type = "acp" => ~(EnvelopeSize[e.payload] > ClientFrameBytes)
  BY DEF HasIncoming, Arrives, TooLong, Incoming, LinesKeepTheirNumbers, ConnectorInv, ClientState
<1> HIDE DEF s
<1>2. s2c[s] \in Seq(Envelopes) /\ s2c[s] \in Seq(SessionSends)
  BY <1>1, PipeTypes DEF SendsInv, Carries
<1>3. e \in SessionSends /\ e \in Envelopes
  BY <1>1, <1>2, HeadIn
<1>4. e.type # "ready"
  <2>1. Without("ready", s2c[s])
    BY <1>1 DEF s, AnnounceInv, ReadyInv, ReadyOnce
  <2> QED BY <1>1, <1>2, <2>1, WithoutTail
<1>5. e.type \in {"acp", "ack", "pong", "ping", "stderr", "exit", "error", "shutdown_complete"}
  BY <1>3, <1>4 DEF SessionSends, Envelopes, ControlTypes
<1>6. ASSUME client.pc = "select"
      PROVE  /\ e.type # "shutdown_complete"
             /\ e.type = "acp" => ~(Size[e.payload] > ClientFrameBytes \/ e.sequence > expectedServer)
             /\ e.type = "ack" => ~(e.stream # "client_to_server" \/ e.sequence >= nextClient)
  <2>1. ~client.closing
    BY <1>6 DEF EndInv, ClosingInv
  <2>2. e.type # "shutdown_complete"
    BY <1>3, <2>1 DEF SessionSends, EndInv, ClosingInv
  <2>3. /\ expectedServer \in Nat /\ nextServer \in Nat /\ expectedClient <= nextClient
        /\ nextClient \in Nat /\ expectedClient \in Nat
    BY Expected
  <2>4. ASSUME e.type = "acp"
        PROVE  ~(Size[e.payload] > ClientFrameBytes \/ e.sequence > expectedServer)
    <3>1. Gapless(s2c[s], {}, expectedServer, nextServer)
      BY <1>1, <2>1 DEF s, OutputInv, OutputOK, Flows
    <3>2. Preceded(e, {}, expectedServer, nextServer)
      BY <1>1, <1>2, <2>3, <3>1, GaplessTail
    <3>3. e.sequence \in Nat /\ e.sequence <= expectedServer
      BY <1>3, <2>3, <2>4, <3>2, FollowsNat DEF Preceded, Follows
    <3>4. e.payload \in Payloads
      BY <1>3, <2>4 DEF Envelopes, ControlTypes
    <3>5. Size[e.payload] <= EnvelopeSize[e.payload] /\ Size[e.payload] \in Nat
      BY <3>4, EnvelopeAssumption, SessionAssumption
    <3>6. EnvelopeSize[e.payload] \in Nat /\ ClientFrameBytes \in Nat
      BY <3>4, NetworkAssumption, ConnectorAssumption
    <3> QED BY <1>1, <2>3, <2>4, <3>3, <3>5, <3>6
  <2>5. ASSUME e.type = "ack"
        PROVE  ~(e.stream # "client_to_server" \/ e.sequence >= nextClient)
    <3>1. e.stream = "client_to_server" /\ e.sequence < expectedClient /\ e.sequence \in Nat
      BY <1>3, <2>5 DEF SessionSends, Envelopes, ControlTypes
    <3> QED BY <2>3, <3>1
  <2> QED BY <2>2, <2>4, <2>5
<1> QED BY <1>5, <1>6

\* The connector never returns with a protocol error.
LEMMA NoProtocolError ==
    ASSUME LinesKeepTheirNumbers, SocketInv, SendsInv, EndInv, AnnounceInv, OutputInv,
           client.result # "protocol", [Next]_vars
    PROVE  client'.result # "protocol"
<1>1. client \in ClientState(ClientEnvelopes)
  BY DEF LinesKeepTheirNumbers, ConnectorInv
<1> SUFFICES ASSUME client'.result = "protocol" PROVE FALSE
  OBVIOUS
<1>2. ConnectorStep
  BY DEF Next, ServerStep, NetworkStep, vars, clientVars
<1>3. ASSUME NEW r, Return(r), r # "protocol" PROVE FALSE
  BY <1>1, <1>3 DEF Return, ClientState
<1>4. ASSUME UNCHANGED client.result PROVE FALSE
  BY <1>4
<1>5. ASSUME Redial PROVE FALSE
  BY <1>1, <1>5 DEF Redial, ClientState
<1>6. ASSUME NEW e, Send(e) PROVE FALSE
  BY <1>1, <1>6 DEF Send, ClientState
<1>7. ASSUME NEW pc, Continue(pc) PROVE FALSE
  BY <1>1, <1>7 DEF Continue, ClientState
<1>8. ~ReadStdin
  BY <1>3, <1>6 DEF ReadStdin
<1>9. ~StartShutdown /\ ~WriteOutgoing /\ ~FinishReplay /\ ~Signal
  BY <1>1, <1>4 DEF StartShutdown, WriteOutgoing, FinishReplay, Signal, ClientState
<1>10. ~LoseSocket /\ ~KeepaliveTimeout /\ ~AbandonAttempt /\ ~GiveUp
  BY <1>3, <1>5 DEF LoseSocket, KeepaliveTimeout, AbandonAttempt, GiveUp
<1>11. ~Dial /\ ~ShutdownWhileDetached /\ ~ReplayFrame
  BY <1>1, <1>4 DEF Dial, ShutdownWhileDetached, ReplayFrame, ClientState
<1>12. ~ReceiveReady
  BY <1>1, <1>4, <1>5 DEF ReceiveReady, ClientState
<1>13. ~SendShutdown
  BY <1>7 DEF SendShutdown
<1>14. ~ConnectorDies
  BY <1>1 DEF ConnectorDies, ClientState
<1>15. ~AwaitComplete
  <2> SUFFICES ASSUME AwaitComplete PROVE FALSE
    OBVIOUS
  <2>1. Incoming.type \in {"acp", "ack", "pong", "ping", "stderr", "exit", "error", "shutdown_complete"}
    BY NothingUnexpected DEF AwaitComplete
  <2>2. CASE Incoming.type = "ping"
    BY <1>3, <1>4, <2>2 DEF AwaitComplete
  <2>3. CASE Incoming.type \in {"acp", "ack", "pong", "stderr", "exit"}
    BY <1>7, <2>3 DEF AwaitComplete
  <2>4. CASE Incoming.type \in {"error", "shutdown_complete"}
    BY <1>3, <2>4 DEF AwaitComplete
  <2> QED BY <2>1, <2>2, <2>3, <2>4
<1>16. ~Receive
  <2> SUFFICES ASSUME Receive PROVE FALSE
    OBVIOUS
  <2> DEFINE e == Incoming
  <2>1. /\ e.type \in {"acp", "ack", "pong", "ping", "stderr", "exit", "error"}
        /\ e.type = "acp" => ~(Size[e.payload] > ClientFrameBytes \/ e.sequence > expectedServer)
        /\ e.type = "ack" => ~(e.stream # "client_to_server" \/ e.sequence >= nextClient)
    BY NothingUnexpected DEF Receive
  <2> HIDE DEF e
  <2>2. ~ReceiveAcp(e)
    BY <1>6, <2>1 DEF ReceiveAcp
  <2>3. ~ReceiveAck(e)
    BY <1>7, <2>1 DEF ReceiveAck
  <2>4. ~ReceiveControl(e)
    BY <1>3, <1>6, <1>7, <2>1 DEF ReceiveControl, ControlTypes
  <2> QED BY <2>2, <2>3, <2>4 DEF Receive, e
<1> QED BY <1>2, <1>8, <1>9, <1>10, <1>11, <1>12, <1>13, <1>14, <1>15, <1>16
        DEF ConnectorStep, ConnectorNext

\* The invariant of both directions.
AgreeInv == /\ ToldInv /\ InputInv /\ ReplayInv /\ DeliverInv
            /\ client.result # "protocol"

\* In every reachable state what is on its way from the connector to
\* handle_client_envelope is without a gap too: a line comes after those below
\* it, and on the first socket `shutdown` comes after all of them.
THEOREM SaidInOrder == Spec => []AgreeInv
<1>1. Init => AgreeInv
  <2>1. Init => DeliverInv /\ client.result # "protocol"
    BY DEF Init, SessionInit, ConnectorInit, DeliverInv, Blames
  <2> QED BY <2>1, ToldInit, InputInit DEF AgreeInv
<1>2. AgreeInv /\ [Next]_vars /\ ToldInv' => AgreeInv'
  <2> SUFFICES ASSUME AgreeInv, [Next]_vars, ToldInv' PROVE AgreeInv'
    OBVIOUS
  <2>1. /\ LinesKeepTheirNumbers /\ SocketInv /\ OpenInv /\ SendsInv /\ EndInv
        /\ RetainInv /\ AnnounceInv /\ OutputInv /\ LinesKeepTheirNumbers'
    BY DEF AgreeInv, ToldInv, HoldInv, SaidInv
  <2>2. InputInv' /\ ReplayInv'
    BY <2>1, InputKeeps DEF AgreeInv
  <2>3. DeliverInv'
    BY <2>1, SendsKeep, DeliverKeeps DEF AgreeInv
  <2>4. client'.result # "protocol"
    BY <2>1, NoProtocolError DEF AgreeInv
  <2> QED BY <2>2, <2>3, <2>4 DEF AgreeInv
<1> QED BY <1>1, <1>2, ToldInOrder, PTL DEF Spec

\* Neither handle_client_envelope nor the connector's loop ever finds a gap, a
\* line over its limit, an acknowledgement of a line that was not sent or an
\* envelope that has no place where it arrives: across any number of lost and
\* resumed transports, no run ends because one peer blames the other.
THEOREM PeersNeverBlame == Spec => []PeersAgree
<1>1. AgreeInv => PeersAgree
  BY DEF AgreeInv, DeliverInv, Blames, PeersAgree
<1> QED BY <1>1, SaidInOrder, PTL

\* When graceful_shutdown was confirmed on the first transport, the session had
\* handled every line that the connector read from stdin.
THEOREM ShutdownIsLast == Spec => []ShutdownDeliversInput
<1>1. AgreeInv => ShutdownDeliversInput
  <2> SUFFICES ASSUME AgreeInv, client.result = "shutdown", client.dialled = 1
               PROVE  handled = ClientLog
    BY DEF ShutdownDeliversInput
  <2>1. LinesKeepTheirNumbers /\ EndInv /\ DeliverInv
    BY DEF AgreeInv, ToldInv, HoldInv, SaidInv
  <2>2. expectedClient = nextClient
    BY <2>1 DEF EndInv, ResultInv, DeliverInv
  <2> QED BY <2>1, <2>2 DEF LinesKeepTheirNumbers, HandledInv, ClientLog
<1> QED BY <1>1, SaidInOrder, PTL
=============================================================================
