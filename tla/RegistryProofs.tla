--------------------------- MODULE RegistryProofs ---------------------------
(***************************************************************************)
(* Proofs about Registry, for any number of sockets, sessions and agents.  *)
(***************************************************************************)
EXTENDS Registry, TLAPS

-----------------------------------------------------------------------------
(* The inductive invariant. *)

\* Stations of a task whose session has, or had, an entry; "done" is also
\* where a task ends that never had one.
Begun == InSession \union {"returned", "done"}

Opening == InSession \union {"register"}

EntryOf(s) ==
  [token |-> s, agent |-> request[s].agent, workspace |-> request[s].workspace]

\* A socket is dialled once.
DialledInv == \A c \in Sockets : client[c] = "idle" => handler[c] = "none"

\* Whoever handles a request admitted it; what is named in a ready envelope
\* or in a claim has begun.
RequestInv ==
  \A c \in Sockets :
    handler[c] \in Opening \union {"reading", "enqueue"} =>
      request[c] \in Offer /\ Admitted(c)

AnnouncedInv ==
  /\ \A s \in known : handler[s] \in Begun
  /\ \A c \in Sockets : answer[c] # NoSocket => handler[answer[c]] \in Begun
  /\ \A c \in Sockets : claim[c] # NoClaim => handler[claim[c].id] \in Begun

OpeningInv ==
  \A s \in Sockets :
    handler[s] \in Opening =>
      /\ claim[s] = NoClaim
      /\ <<request[s].agent, request[s].workspace>> \in Allowed

\* A task that waits for a session's channel passed the checks.
EnqueueInv ==
  \A c \in Sockets :
    handler[c] = "enqueue" => claim[c] # NoClaim /\ Entitled(c, claim[c].id)

\* An entry is the one its session made, and is there while it can be resumed.
EntryInv ==
  \A s \in Sockets :
    /\ registry[s] # NoEntry =>
         /\ handler[s] \in InSession \union {"returned"}
         /\ registry[s] = EntryOf(s)
    /\ handler[s] \in {"attach", "loop", "blocked"} => registry[s] = EntryOf(s)

\* A session that is not running has no sockets, and its sockets are its own.
SocketsInv ==
  \A s, c \in Sockets :
    transport[s] = c \/ c \in Range(queue[s]) =>
      /\ handler[s] \in InSession /\ handler[c] \in Begun
      /\ Admitted(c) /\ (c = s \/ Entitled(c, s))

ShutdownInv ==
  \A s \in Sockets :
    category[s] = "client_shutdown" =>
      /\ handler[s] \in {"cleanup", "farewell", "done"}
      /\ registry[s] = NoEntry

IInv ==
  /\ TypeOK
  /\ DialledInv /\ RequestInv /\ AnnouncedInv /\ OpeningInv
  /\ EnqueueInv /\ EntryInv /\ SocketsInv /\ ShutdownInv

-----------------------------------------------------------------------------
(* Lemmas. *)

\* The actions, one by one.
LEMMA NextCases ==
  ASSUME TypeOK, [Next]_vars
  PROVE  \/ \E c \in Sockets, r \in Offer, k \in Claims : Dial(c, r, k)
         \/ \E d \in Sockets : ReceiveReady(d)
         \/ \E d \in Sockets : SeeEnd(d)
         \/ \E d \in Sockets : GiveUp(d)
         \/ \E d \in Sockets : ReadOpenFails(d)
         \/ \E d \in Sockets : PrepareAgent(d)
         \/ \E d \in Sockets : PrepareAgentFails(d)
         \/ \E d \in Sockets : Register(d)
         \/ \E d \in Sockets : CheckResume(d)
         \/ \E d \in Sockets : Enqueue(d)
         \/ \E d \in Sockets : EnqueueFails(d)
         \/ \E d \in Sockets : AttachFirst(d)
         \/ \E d \in Sockets : AttachFirstFails(d)
         \/ \E d \in Sockets : AttachResumed(d)
         \/ \E d \in Sockets : Detach(d)
         \/ \E d \in Sockets : Block(d)
         \/ \E d \in Sockets : Unblock(d)
         \/ \E d \in Sockets : ClientShutdown(d)
         \/ \E d \in Sockets : ProtocolEnd(d)
         \/ \E d \in Sockets : OutputFails(d)
         \/ \E d \in Sockets : ExitReported(d)
         \/ \E d \in Sockets : DeadlineExpires(d)
         \/ \E d \in Sockets : ServerShutdown(d)
         \/ \E d \in Sockets : Reap(d)
         \/ \E d \in Sockets : Farewell(d)
         \/ \E d \in Sockets : SessionFails(d)
         \/ \E d \in Sockets : Unregister(d)
         \/ \E d \in Sockets : AgentExits(d)
         \/ Cancel \/ ServeReturns \/ UNCHANGED vars
<1>1. ASSUME Idle # {}, NEW r \in Offers, NEW k \in Claims,
             Dial(CHOOSE c \in Idle : TRUE, r, k)
      PROVE  \E c \in Sockets, q \in Offer, j \in Claims : Dial(c, q, j)
  <2>1. (CHOOSE c \in Idle : TRUE) \in Sockets
    BY <1>1 DEF Idle
  <2> QED BY <1>1, <2>1, RegistryAssumption
<1> QED BY <1>1 DEF Next, Handshake, Looping, Finishing

\* The type invariant needs that a claim which is used names a session.
LEMMA TypePreserved ==
  ASSUME TypeOK, RequestInv, EnqueueInv, [Next]_vars
  PROVE  TypeOK'
<1> USE DEF TypeOK, Station, InSession, HoldsSocket
<1>1. ASSUME NEW c \in Sockets, NEW r \in Offer, NEW k \in Claims, Dial(c, r, k)
      PROVE  TypeOK'
  <2>1. k \in Claim \union {NoClaim}
    BY DEF Claims, Claim
  <2>2. client' \in [Sockets -> {"idle", "waiting", "ready", "closed"}]
    <3>1. PICK v \in {"closed", "waiting"} : client' = [client EXCEPT ![c] = v]
      BY <1>1 DEF Dial
    <3> QED BY <3>1
  <2>3. request' \in [Sockets -> Offer \union {NoRequest}]
    <3>1. request' = request \/ request' = [request EXCEPT ![c] = r]
      BY <1>1 DEF Dial
    <3>2. request \in [Sockets -> Offer \union {NoRequest}]
      OBVIOUS
    <3> QED BY <3>1, <3>2
  <2>4. claim' \in [Sockets -> Claim \union {NoClaim}]
    <3>1. claim' = claim \/ claim' = [claim EXCEPT ![c] = k]
      BY <1>1 DEF Dial
    <3>2. claim \in [Sockets -> Claim \union {NoClaim}]
      OBVIOUS
    <3> QED BY <2>1, <3>1, <3>2
  <2>5. handler' \in [Sockets -> Station]
    BY <1>1 DEF Dial
  <2> QED BY <1>1, <2>2, <2>3, <2>4, <2>5 DEF Dial
<1>2. ASSUME NEW d \in Sockets, ReceiveReady(d)
      PROVE  TypeOK'
  BY <1>2, RegistryAssumption DEF ReceiveReady
<1>3. ASSUME NEW d \in Sockets, SeeEnd(d)
      PROVE  TypeOK'
  BY <1>3, RegistryAssumption DEF SeeEnd, Close
<1>4. ASSUME NEW d \in Sockets, GiveUp(d)
      PROVE  TypeOK'
  BY <1>4, RegistryAssumption DEF GiveUp, Close
<1>5. ASSUME NEW d \in Sockets,
             ReadOpenFails(d) \/ PrepareAgentFails(d) \/
             EnqueueFails(d)
      PROVE  TypeOK'
  <2>1. Finish(d)
    BY <1>5 DEF ReadOpenFails, PrepareAgentFails, EnqueueFails
  <2>2. UNCHANGED <<client, registry, queue, transport, answer, agent, deadline,
                    category, known, shutdown, serverUp>>
    BY <1>5 DEF ReadOpenFails, PrepareAgentFails, EnqueueFails
  <2> QED BY <2>1, <2>2 DEF Finish
<1>6. ASSUME NEW d \in Sockets, PrepareAgent(d)
      PROVE  TypeOK'
  BY <1>6, RegistryAssumption DEF PrepareAgent, AsksNew
<1>7. ASSUME NEW d \in Sockets, Register(d)
      PROVE  TypeOK'
  <2>1. [token |-> d, agent |-> request[d].agent,
         workspace |-> request[d].workspace] \in Entry
    BY <1>7 DEF Register, RequestInv, Opening, Offer, Entry
  <2>2. registry' \in [Sockets -> Entry \union {NoEntry}]
    BY <1>7, <2>1 DEF Register
  <2> QED BY <1>7, <2>2 DEF Register
<1>8. ASSUME NEW d \in Sockets, CheckResume(d)
      PROVE  TypeOK'
  <2>1. \/ handler' = [handler EXCEPT ![d] = "enqueue"] /\ UNCHANGED <<request, claim>>
        \/ Finish(d)
    BY <1>8 DEF CheckResume
  <2>2. UNCHANGED <<client, registry, queue, transport, answer, agent, deadline,
                    category, known, shutdown, serverUp>>
    BY <1>8 DEF CheckResume
  <2> QED BY <2>1, <2>2 DEF Finish
<1>9. ASSUME NEW d \in Sockets, Enqueue(d)
      PROVE  TypeOK'
  <2>1. claim[d].id \in Sockets
    BY <1>9, RegistryAssumption DEF Enqueue, EnqueueInv, Claim, NoClaim
  <2>2. queue' \in [Sockets -> Seq(Sockets)]
    BY <1>9, <2>1 DEF Enqueue
  <2> QED BY <1>9, <2>2 DEF Enqueue
<1>10. ASSUME NEW d \in Sockets, AttachFirst(d)
      PROVE  TypeOK'
  BY <1>10, RegistryAssumption DEF AttachFirst, Ready
<1>11. ASSUME NEW d \in Sockets, AttachResumed(d)
      PROVE  TypeOK'
  <2>1. Head(queue[d]) \in Sockets /\ Tail(queue[d]) \in Seq(Sockets)
    BY <1>11 DEF AttachResumed
  <2>2. queue' \in [Sockets -> Seq(Sockets)]
    BY <1>11, <2>1 DEF AttachResumed
  <2>3. transport' \in [Sockets -> Sockets \union {NoSocket}]
    <3>1. PICK h \in Sockets \union {NoSocket} :
            transport' = [transport EXCEPT ![d] = h]
      BY <1>11, <2>1 DEF AttachResumed
    <3> QED BY <3>1
  <2>4. answer' \in [Sockets -> Sockets \union {NoSocket}]
    <3>1. ASSUME NEW h \in Sockets, Ready(d, h)
          PROVE  answer' \in [Sockets -> Sockets \union {NoSocket}]
      BY <3>1 DEF Ready
    <3> QED BY <1>11, <2>1, <3>1 DEF AttachResumed
  <2>5. deadline' \in [Sockets -> BOOLEAN]
    BY <1>11 DEF AttachResumed
  <2> QED BY <1>11, <2>2, <2>3, <2>4, <2>5 DEF AttachResumed
<1>12. ASSUME NEW d \in Sockets, Detach(d)
      PROVE  TypeOK'
  BY <1>12, RegistryAssumption DEF Detach
<1>13. ASSUME NEW d \in Sockets,
             Block(d) \/ Unblock(d) \/ AgentExits(d)
      PROVE  TypeOK'
  <2>1. CASE Block(d)
    BY <2>1 DEF Block
  <2>2. CASE Unblock(d)
    BY <2>2 DEF Unblock
  <2>3. CASE AgentExits(d)
    BY <2>3 DEF AgentExits
  <2> QED BY <1>13, <2>1, <2>2, <2>3
<1>14. ASSUME NEW d \in Sockets, ClientShutdown(d)
      PROVE  TypeOK'
  BY <1>14, RegistryAssumption DEF ClientShutdown, Ends
<1>15. ASSUME NEW d \in Sockets, ProtocolEnd(d)
      PROVE  TypeOK'
  BY <1>15, RegistryAssumption DEF ProtocolEnd, Ends
<1>25. ASSUME NEW d \in Sockets, OutputFails(d)
      PROVE  TypeOK'
  BY <1>25, RegistryAssumption DEF OutputFails, Ends
<1>16. ASSUME NEW d \in Sockets, ExitReported(d)
      PROVE  TypeOK'
  BY <1>16, RegistryAssumption DEF ExitReported, Ends
<1>17. ASSUME NEW d \in Sockets, DeadlineExpires(d)
      PROVE  TypeOK'
  BY <1>17, RegistryAssumption DEF DeadlineExpires, Ends
<1>18. ASSUME NEW d \in Sockets, ServerShutdown(d)
      PROVE  TypeOK'
  BY <1>18, RegistryAssumption DEF ServerShutdown, Ends
<1>19. ASSUME NEW d \in Sockets, Reap(d) \/ Farewell(d)
      PROVE  TypeOK'
  <2>1. CASE Reap(d)
    BY <2>1 DEF Reap
  <2>2. CASE Farewell(d)
    BY <2>2, RegistryAssumption DEF Farewell, Return
  <2> QED BY <1>19, <2>1, <2>2
<1>20. ASSUME NEW d \in Sockets, AttachFirstFails(d)
      PROVE  TypeOK'
  BY <1>20, RegistryAssumption DEF AttachFirstFails, Return, Orphan
<1>21. ASSUME NEW d \in Sockets, SessionFails(d)
      PROVE  TypeOK'
  BY <1>21, RegistryAssumption DEF SessionFails, Return, Orphan
<1>22. ASSUME NEW d \in Sockets, Unregister(d)
      PROVE  TypeOK'
  BY <1>22, RegistryAssumption DEF Unregister
<1>23. CASE Cancel \/ UNCHANGED vars
  <2>1. UNCHANGED <<client, request, claim, handler, registry, queue, transport,
                    answer, agent, deadline, category, known, serverUp>>
    BY <1>23 DEF Cancel, vars
  <2>2. shutdown' \in BOOLEAN
    BY <1>23 DEF Cancel, vars
  <2> QED BY <2>1, <2>2
<1>24. CASE ServeReturns
  <2>1. /\ handler' \in [Sockets -> Station]
        /\ registry' \in [Sockets -> Entry \union {NoEntry}]
        /\ transport' \in [Sockets -> Sockets \union {NoSocket}]
    BY <1>24 DEF ServeReturns
  <2>2. queue' \in [Sockets -> Seq(Sockets)]
    BY <1>24 DEF ServeReturns
  <2>3. serverUp' \in BOOLEAN
    BY <1>24 DEF ServeReturns
  <2> QED BY <1>24, <2>1, <2>2, <2>3 DEF ServeReturns
<1> QED BY <1>1, <1>2, <1>3, <1>4, <1>5, <1>6, <1>7, <1>8, <1>9, <1>10,
    <1>11, <1>12, <1>13, <1>14, <1>15, <1>16, <1>17, <1>18, <1>19, <1>20,
    <1>21, <1>22, <1>23, <1>24, <1>25, NextCases

\* What a task that has begun keeps, and where it can go.
BegunStays ==
  \A x \in Sockets :
    handler[x] \in Begun =>
      /\ handler'[x] \in Begun
      /\ request'[x] = request[x] /\ claim'[x] = claim[x]

\* A step leaves the request of a begun task alone, and the task begun.
LEMMA BegunKeeps ==
  ASSUME TypeOK, DialledInv, [Next]_vars
  PROVE  BegunStays
<1> USE DEF TypeOK, Station, InSession, HoldsSocket, BegunStays, Begun,
        DialledInv
<1>1. ASSUME NEW c \in Sockets, NEW r \in Offer, NEW k \in Claims, Dial(c, r, k)
      PROVE  BegunStays
  BY <1>1 DEF Dial
<1>2. ASSUME NEW d \in Sockets,
             ReceiveReady(d) \/ SeeEnd(d) \/ GiveUp(d)
      PROVE  BegunStays
  BY <1>2 DEF ReceiveReady, SeeEnd, Close, GiveUp
<1>3. ASSUME NEW d \in Sockets,
             ReadOpenFails(d) \/ PrepareAgentFails(d) \/
             EnqueueFails(d)
      PROVE  BegunStays
  BY <1>3 DEF ReadOpenFails, Finish, PrepareAgentFails, AsksNew, EnqueueFails
<1>4. ASSUME NEW d \in Sockets, PrepareAgent(d)
      PROVE  BegunStays
  BY <1>4 DEF PrepareAgent, AsksNew
<1>5. ASSUME NEW d \in Sockets, Register(d)
      PROVE  BegunStays
  BY <1>5 DEF Register
<1>6. ASSUME NEW d \in Sockets, CheckResume(d)
      PROVE  BegunStays
  BY <1>6 DEF CheckResume, AsksResume, Finish
<1>7. ASSUME NEW d \in Sockets, Enqueue(d)
      PROVE  BegunStays
  BY <1>7 DEF Enqueue
<1>8. ASSUME NEW d \in Sockets, AttachFirst(d)
      PROVE  BegunStays
  BY <1>8 DEF AttachFirst, Ready
<1>9. ASSUME NEW d \in Sockets, AttachResumed(d)
      PROVE  BegunStays
  BY <1>9 DEF AttachResumed, Ready
<1>10. ASSUME NEW d \in Sockets, Detach(d)
      PROVE  BegunStays
  BY <1>10 DEF Detach
<1>11. ASSUME NEW d \in Sockets,
             Block(d) \/ Unblock(d) \/ AgentExits(d)
      PROVE  BegunStays
  BY <1>11 DEF Block, Unblock, AgentExits
<1>12. ASSUME NEW d \in Sockets, ClientShutdown(d)
      PROVE  BegunStays
  BY <1>12 DEF ClientShutdown, Ends
<1>13. ASSUME NEW d \in Sockets,
             ProtocolEnd(d) \/ OutputFails(d) \/ ExitReported(d) \/
             DeadlineExpires(d) \/ ServerShutdown(d)
      PROVE  BegunStays
  BY <1>13 DEF ProtocolEnd, OutputFails, Ends, ExitReported, DeadlineExpires,
      ServerShutdown
<1>14. ASSUME NEW d \in Sockets,
             Reap(d) \/ Farewell(d) \/ AttachFirstFails(d) \/
             SessionFails(d)
      PROVE  BegunStays
  BY <1>14 DEF Reap, Farewell, Return, AttachFirstFails, Orphan, SessionFails
<1>15. ASSUME NEW d \in Sockets, Unregister(d)
      PROVE  BegunStays
  BY <1>15 DEF Unregister
<1>16. CASE Cancel \/ UNCHANGED vars
  BY <1>16 DEF Cancel, vars
<1>17. CASE ServeReturns
  BY <1>17 DEF ServeReturns
<1> QED BY <1>1, <1>2, <1>3, <1>4, <1>5, <1>6, <1>7, <1>8, <1>9, <1>10,
    <1>11, <1>12, <1>13, <1>14, <1>15, <1>16, <1>17, NextCases

\* A step leaves no undialled socket with a task.
LEMMA DialledPreserved ==
  ASSUME TypeOK, DialledInv, [Next]_vars
  PROVE  DialledInv'
<1> USE DEF TypeOK, DialledInv
<1>1. ASSUME NEW c \in Sockets, NEW r \in Offer, NEW k \in Claims, Dial(c, r, k)
      PROVE  DialledInv'
  BY <1>1 DEF Dial
<1>2. ASSUME NEW d \in Sockets,
             ReceiveReady(d) \/ SeeEnd(d) \/ GiveUp(d)
      PROVE  DialledInv'
  BY <1>2 DEF ReceiveReady, SeeEnd, Close, GiveUp
<1>3. ASSUME NEW d \in Sockets,
             ReadOpenFails(d) \/ PrepareAgentFails(d) \/
             EnqueueFails(d)
      PROVE  DialledInv'
  BY <1>3 DEF ReadOpenFails, Finish, PrepareAgentFails, AsksNew, EnqueueFails
<1>4. ASSUME NEW d \in Sockets, PrepareAgent(d)
      PROVE  DialledInv'
  BY <1>4 DEF PrepareAgent, AsksNew
<1>5. ASSUME NEW d \in Sockets, Register(d)
      PROVE  DialledInv'
  BY <1>5 DEF Register
<1>6. ASSUME NEW d \in Sockets, CheckResume(d)
      PROVE  DialledInv'
  BY <1>6 DEF CheckResume, AsksResume, Finish
<1>7. ASSUME NEW d \in Sockets, Enqueue(d)
      PROVE  DialledInv'
  BY <1>7 DEF Enqueue
<1>8. ASSUME NEW d \in Sockets, AttachFirst(d)
      PROVE  DialledInv'
  BY <1>8 DEF AttachFirst, Ready
<1>9. ASSUME NEW d \in Sockets, AttachResumed(d)
      PROVE  DialledInv'
  BY <1>9 DEF AttachResumed, Ready
<1>10. ASSUME NEW d \in Sockets, Detach(d)
      PROVE  DialledInv'
  BY <1>10 DEF Detach
<1>11. ASSUME NEW d \in Sockets,
             Block(d) \/ Unblock(d) \/ AgentExits(d)
      PROVE  DialledInv'
  BY <1>11 DEF Block, Unblock, AgentExits
<1>12. ASSUME NEW d \in Sockets, ClientShutdown(d)
      PROVE  DialledInv'
  BY <1>12 DEF ClientShutdown, Ends
<1>13. ASSUME NEW d \in Sockets,
             ProtocolEnd(d) \/ OutputFails(d) \/ ExitReported(d) \/
             DeadlineExpires(d) \/ ServerShutdown(d)
      PROVE  DialledInv'
  BY <1>13 DEF ProtocolEnd, OutputFails, Ends, ExitReported, DeadlineExpires,
      ServerShutdown
<1>14. ASSUME NEW d \in Sockets,
             Reap(d) \/ Farewell(d) \/ AttachFirstFails(d) \/
             SessionFails(d)
      PROVE  DialledInv'
  BY <1>14 DEF Reap, Farewell, Return, AttachFirstFails, Orphan, SessionFails
<1>15. ASSUME NEW d \in Sockets, Unregister(d)
      PROVE  DialledInv'
  BY <1>15 DEF Unregister
<1>16. CASE Cancel \/ UNCHANGED vars
  BY <1>16 DEF Cancel, vars
<1>17. CASE ServeReturns
  BY <1>17 DEF ServeReturns
<1> QED BY <1>1, <1>2, <1>3, <1>4, <1>5, <1>6, <1>7, <1>8, <1>9, <1>10,
    <1>11, <1>12, <1>13, <1>14, <1>15, <1>16, <1>17, NextCases

\* A step leaves every request in hand admitted.
LEMMA RequestPreserved ==
  ASSUME TypeOK, RequestInv, [Next]_vars
  PROVE  RequestInv'
<1> USE DEF TypeOK, Station, InSession, HoldsSocket, RequestInv, Opening,
        Admitted
<1>1. ASSUME NEW c \in Sockets, NEW r \in Offer, NEW k \in Claims, Dial(c, r, k)
      PROVE  RequestInv'
  BY <1>1 DEF Dial
<1>2. ASSUME NEW d \in Sockets,
             ReceiveReady(d) \/ SeeEnd(d) \/ GiveUp(d)
      PROVE  RequestInv'
  BY <1>2 DEF ReceiveReady, SeeEnd, Close, GiveUp
<1>3. ASSUME NEW d \in Sockets,
             ReadOpenFails(d) \/ PrepareAgentFails(d) \/
             EnqueueFails(d)
      PROVE  RequestInv'
  <2>1. Finish(d)
    BY <1>3 DEF ReadOpenFails, PrepareAgentFails, EnqueueFails
  <2>2. UNCHANGED <<client, registry, queue, transport, answer, agent, deadline,
                    category, known, shutdown, serverUp>>
    BY <1>3 DEF ReadOpenFails, PrepareAgentFails, EnqueueFails
  <2> QED BY <2>1, <2>2 DEF Finish
<1>4. ASSUME NEW d \in Sockets, PrepareAgent(d)
      PROVE  RequestInv'
  BY <1>4 DEF PrepareAgent, AsksNew
<1>5. ASSUME NEW d \in Sockets, Register(d)
      PROVE  RequestInv'
  BY <1>5 DEF Register
<1>6. ASSUME NEW d \in Sockets, CheckResume(d)
      PROVE  RequestInv'
  BY <1>6 DEF CheckResume, AsksResume, Finish
<1>7. ASSUME NEW d \in Sockets, Enqueue(d)
      PROVE  RequestInv'
  BY <1>7 DEF Enqueue
<1>8. ASSUME NEW d \in Sockets, AttachFirst(d)
      PROVE  RequestInv'
  BY <1>8 DEF AttachFirst, Ready
<1>9. ASSUME NEW d \in Sockets, AttachResumed(d)
      PROVE  RequestInv'
  BY <1>9 DEF AttachResumed, Ready
<1>10. ASSUME NEW d \in Sockets, Detach(d)
      PROVE  RequestInv'
  BY <1>10 DEF Detach
<1>11. ASSUME NEW d \in Sockets,
             Block(d) \/ Unblock(d) \/ AgentExits(d)
      PROVE  RequestInv'
  BY <1>11 DEF Block, Unblock, AgentExits
<1>12. ASSUME NEW d \in Sockets, ClientShutdown(d)
      PROVE  RequestInv'
  BY <1>12 DEF ClientShutdown, Ends
<1>13. ASSUME NEW d \in Sockets,
             ProtocolEnd(d) \/ OutputFails(d) \/ ExitReported(d) \/
             DeadlineExpires(d) \/ ServerShutdown(d)
      PROVE  RequestInv'
  BY <1>13 DEF ProtocolEnd, OutputFails, Ends, ExitReported, DeadlineExpires,
      ServerShutdown
<1>14. ASSUME NEW d \in Sockets,
             Reap(d) \/ Farewell(d) \/ AttachFirstFails(d) \/
             SessionFails(d)
      PROVE  RequestInv'
  BY <1>14 DEF Reap, Farewell, Return, AttachFirstFails, Orphan, SessionFails
<1>15. ASSUME NEW d \in Sockets, Unregister(d)
      PROVE  RequestInv'
  BY <1>15 DEF Unregister
<1>16. CASE Cancel \/ UNCHANGED vars
  BY <1>16 DEF Cancel, vars
<1>17. CASE ServeReturns
  BY <1>17 DEF ServeReturns
<1> QED BY <1>1, <1>2, <1>3, <1>4, <1>5, <1>6, <1>7, <1>8, <1>9, <1>10,
    <1>11, <1>12, <1>13, <1>14, <1>15, <1>16, <1>17, NextCases

\* A step leaves every session allowlisted.
LEMMA OpeningPreserved ==
  ASSUME TypeOK, OpeningInv, [Next]_vars
  PROVE  OpeningInv'
<1> USE DEF TypeOK, Station, InSession, HoldsSocket, OpeningInv, Opening
<1>1. ASSUME NEW c \in Sockets, NEW r \in Offer, NEW k \in Claims, Dial(c, r, k)
      PROVE  OpeningInv'
  <2>1. \A s \in Sockets :
          handler'[s] \in Opening =>
            /\ handler[s] = handler'[s]
            /\ claim'[s] = claim[s] /\ request'[s] = request[s]
    BY <1>1 DEF Dial
  <2> QED BY <2>1
<1>2. ASSUME NEW d \in Sockets,
             ReceiveReady(d) \/ SeeEnd(d) \/ GiveUp(d)
      PROVE  OpeningInv'
  BY <1>2 DEF ReceiveReady, SeeEnd, Close, GiveUp
<1>3. ASSUME NEW d \in Sockets,
             ReadOpenFails(d) \/ PrepareAgentFails(d) \/
             EnqueueFails(d)
      PROVE  OpeningInv'
  <2>1. Finish(d)
    BY <1>3 DEF ReadOpenFails, PrepareAgentFails, EnqueueFails
  <2>2. \A s \in Sockets :
          handler'[s] \in Opening =>
            /\ handler[s] = handler'[s]
            /\ claim'[s] = claim[s] /\ request'[s] = request[s]
    BY <2>1 DEF Finish
  <2> QED BY <2>2
<1>4. ASSUME NEW d \in Sockets, PrepareAgent(d)
      PROVE  OpeningInv'
  BY <1>4 DEF PrepareAgent, AsksNew
<1>5. ASSUME NEW d \in Sockets, Register(d)
      PROVE  OpeningInv'
  BY <1>5 DEF Register
<1>6. ASSUME NEW d \in Sockets, CheckResume(d)
      PROVE  OpeningInv'
  <2>1. \A s \in Sockets :
          handler'[s] \in Opening =>
            /\ handler[s] = handler'[s]
            /\ claim'[s] = claim[s] /\ request'[s] = request[s]
    <3>1. \/ handler' = [handler EXCEPT ![d] = "enqueue"] /\ UNCHANGED <<request, claim>>
          \/ Finish(d)
      BY <1>6 DEF CheckResume
    <3> QED BY <3>1 DEF Finish
  <2> QED BY <2>1
<1>7. ASSUME NEW d \in Sockets, Enqueue(d)
      PROVE  OpeningInv'
  BY <1>7 DEF Enqueue
<1>8. ASSUME NEW d \in Sockets, AttachFirst(d)
      PROVE  OpeningInv'
  BY <1>8 DEF AttachFirst, Ready
<1>9. ASSUME NEW d \in Sockets, AttachResumed(d)
      PROVE  OpeningInv'
  BY <1>9 DEF AttachResumed, Ready
<1>10. ASSUME NEW d \in Sockets, Detach(d)
      PROVE  OpeningInv'
  BY <1>10 DEF Detach
<1>11. ASSUME NEW d \in Sockets,
             Block(d) \/ Unblock(d) \/ AgentExits(d)
      PROVE  OpeningInv'
  BY <1>11 DEF Block, Unblock, AgentExits
<1>12. ASSUME NEW d \in Sockets, ClientShutdown(d)
      PROVE  OpeningInv'
  BY <1>12 DEF ClientShutdown, Ends
<1>13. ASSUME NEW d \in Sockets,
             ProtocolEnd(d) \/ OutputFails(d) \/ ExitReported(d) \/
             DeadlineExpires(d) \/ ServerShutdown(d)
      PROVE  OpeningInv'
  BY <1>13 DEF ProtocolEnd, OutputFails, Ends, ExitReported, DeadlineExpires,
      ServerShutdown
<1>14. ASSUME NEW d \in Sockets,
             Reap(d) \/ Farewell(d) \/ AttachFirstFails(d) \/
             SessionFails(d)
      PROVE  OpeningInv'
  BY <1>14 DEF Reap, Farewell, Return, AttachFirstFails, Orphan, SessionFails
<1>15. ASSUME NEW d \in Sockets, Unregister(d)
      PROVE  OpeningInv'
  BY <1>15 DEF Unregister
<1>16. CASE Cancel \/ UNCHANGED vars
  BY <1>16 DEF Cancel, vars
<1>17. CASE ServeReturns
  BY <1>17 DEF ServeReturns
<1> QED BY <1>1, <1>2, <1>3, <1>4, <1>5, <1>6, <1>7, <1>8, <1>9, <1>10,
    <1>11, <1>12, <1>13, <1>14, <1>15, <1>16, <1>17, NextCases

\* A step leaves the entries and the resumable sessions in step.
LEMMA EntryPreserved ==
  ASSUME TypeOK, DialledInv, EntryInv, [Next]_vars
  PROVE  EntryInv'
<1> USE DEF TypeOK, Station, InSession, HoldsSocket, EntryInv, EntryOf,
        DialledInv, NoEntry
<1>1. ASSUME NEW c \in Sockets, NEW r \in Offer, NEW k \in Claims, Dial(c, r, k)
      PROVE  EntryInv'
  <2>1. handler[c] = "none" /\ handler'[c] \in {"none", "reading"}
    BY <1>1 DEF Dial
  <2>2. /\ registry' = registry
        /\ \A x \in Sockets \ {c} :
             handler'[x] = handler[x] /\ request'[x] = request[x]
    BY <1>1 DEF Dial
  <2>3. ASSUME NEW s \in Sockets
        PROVE  /\ registry[s] # NoEntry => handler'[s] \in InSession \union {"returned"}
               /\ handler'[s] \in {"attach", "loop", "blocked"} => s # c
               /\ registry[s] # NoEntry => s # c
    BY <2>1, <2>2, <2>3
  <2> QED BY <2>2, <2>3
<1>2. ASSUME NEW d \in Sockets,
             ReceiveReady(d) \/ SeeEnd(d) \/ GiveUp(d)
      PROVE  EntryInv'
  BY <1>2 DEF ReceiveReady, SeeEnd, Close, GiveUp
<1>3. ASSUME NEW d \in Sockets, ReadOpenFails(d)
      PROVE  EntryInv'
  BY <1>3 DEF ReadOpenFails, Finish
<1>4. ASSUME NEW d \in Sockets, PrepareAgentFails(d)
      PROVE  EntryInv'
  BY <1>4 DEF PrepareAgentFails, AsksNew, Finish
<1>5. ASSUME NEW d \in Sockets, EnqueueFails(d)
      PROVE  EntryInv'
  BY <1>5 DEF EnqueueFails, Finish
<1>6. ASSUME NEW d \in Sockets, PrepareAgent(d)
      PROVE  EntryInv'
  BY <1>6 DEF PrepareAgent, AsksNew
<1>7. ASSUME NEW d \in Sockets, Register(d)
      PROVE  EntryInv'
  BY <1>7 DEF Register
<1>8. ASSUME NEW d \in Sockets, CheckResume(d)
      PROVE  EntryInv'
  <2>1. \A x \in Sockets : handler[x] \in InSession \union {"returned"} =>
          request'[x] = request[x] /\ handler'[x] = handler[x]
    BY <1>8 DEF CheckResume, AsksResume, Finish
  <2>2. \A x \in Sockets : handler'[x] \in InSession => handler[x] = handler'[x]
    BY <1>8 DEF CheckResume, AsksResume, Finish
  <2>3. registry' = registry
    BY <1>8 DEF CheckResume
  <2> QED BY <2>1, <2>2, <2>3
<1>9. ASSUME NEW d \in Sockets, Enqueue(d)
      PROVE  EntryInv'
  BY <1>9 DEF Enqueue
<1>10. ASSUME NEW d \in Sockets, AttachFirst(d)
      PROVE  EntryInv'
  BY <1>10 DEF AttachFirst, Ready
<1>11. ASSUME NEW d \in Sockets, AttachResumed(d)
      PROVE  EntryInv'
  BY <1>11 DEF AttachResumed, Ready
<1>12. ASSUME NEW d \in Sockets, Detach(d)
      PROVE  EntryInv'
  BY <1>12 DEF Detach
<1>13. ASSUME NEW d \in Sockets,
             Block(d) \/ Unblock(d) \/ AgentExits(d)
      PROVE  EntryInv'
  <2>1. CASE Block(d)
    BY <2>1 DEF Block
  <2>2. CASE Unblock(d)
    BY <2>2 DEF Unblock
  <2> QED BY <1>13, <2>1, <2>2 DEF AgentExits
<1>14. ASSUME NEW d \in Sockets, ClientShutdown(d)
      PROVE  EntryInv'
  BY <1>14 DEF ClientShutdown, Ends
<1>15. ASSUME NEW d \in Sockets,
             ProtocolEnd(d) \/ OutputFails(d) \/ ExitReported(d) \/
             DeadlineExpires(d) \/ ServerShutdown(d)
      PROVE  EntryInv'
  BY <1>15 DEF ProtocolEnd, OutputFails, Ends, ExitReported, DeadlineExpires,
      ServerShutdown
<1>16. ASSUME NEW d \in Sockets, Reap(d) \/ Farewell(d)
      PROVE  EntryInv'
  <2>1. CASE Reap(d)
    BY <2>1 DEF Reap
  <2>2. CASE Farewell(d)
    BY <2>2 DEF Farewell, Return
  <2> QED BY <1>16, <2>1, <2>2
<1>17. ASSUME NEW d \in Sockets, AttachFirstFails(d)
      PROVE  EntryInv'
  BY <1>17 DEF AttachFirstFails, Return, Orphan
<1>18. ASSUME NEW d \in Sockets, SessionFails(d)
      PROVE  EntryInv'
  BY <1>18 DEF SessionFails, Return, Orphan
<1>19. ASSUME NEW d \in Sockets, Unregister(d)
      PROVE  EntryInv'
  BY <1>19 DEF Unregister
<1>20. CASE Cancel \/ UNCHANGED vars
  BY <1>20 DEF Cancel, vars
<1>21. CASE ServeReturns
  BY <1>21 DEF ServeReturns
<1> QED BY <1>1, <1>2, <1>3, <1>4, <1>5, <1>6, <1>7, <1>8, <1>9, <1>10,
    <1>11, <1>12, <1>13, <1>14, <1>15, <1>16, <1>17, <1>18, <1>19, <1>20,
    <1>21, NextCases

\* A step leaves a session that accepted a shutdown without an entry.
LEMMA ShutdownPreserved ==
  ASSUME TypeOK, DialledInv, ShutdownInv, [Next]_vars
  PROVE  ShutdownInv'
<1> USE DEF TypeOK, Station, InSession, HoldsSocket, ShutdownInv, DialledInv
<1>1. ASSUME NEW c \in Sockets, NEW r \in Offer, NEW k \in Claims, Dial(c, r, k)
      PROVE  ShutdownInv'
  BY <1>1 DEF Dial
<1>2. ASSUME NEW d \in Sockets,
             ReceiveReady(d) \/ SeeEnd(d) \/ GiveUp(d)
      PROVE  ShutdownInv'
  BY <1>2 DEF ReceiveReady, SeeEnd, Close, GiveUp
<1>3. ASSUME NEW d \in Sockets,
             ReadOpenFails(d) \/ PrepareAgentFails(d) \/
             EnqueueFails(d)
      PROVE  ShutdownInv'
  BY <1>3 DEF ReadOpenFails, Finish, PrepareAgentFails, AsksNew, EnqueueFails
<1>4. ASSUME NEW d \in Sockets, PrepareAgent(d)
      PROVE  ShutdownInv'
  BY <1>4 DEF PrepareAgent, AsksNew
<1>5. ASSUME NEW d \in Sockets, Register(d)
      PROVE  ShutdownInv'
  BY <1>5 DEF Register
<1>6. ASSUME NEW d \in Sockets, CheckResume(d)
      PROVE  ShutdownInv'
  BY <1>6 DEF CheckResume, AsksResume, Finish
<1>7. ASSUME NEW d \in Sockets, Enqueue(d)
      PROVE  ShutdownInv'
  BY <1>7 DEF Enqueue
<1>8. ASSUME NEW d \in Sockets, AttachFirst(d)
      PROVE  ShutdownInv'
  BY <1>8 DEF AttachFirst, Ready
<1>9. ASSUME NEW d \in Sockets, AttachResumed(d)
      PROVE  ShutdownInv'
  BY <1>9 DEF AttachResumed, Ready
<1>10. ASSUME NEW d \in Sockets, Detach(d)
      PROVE  ShutdownInv'
  BY <1>10 DEF Detach
<1>11. ASSUME NEW d \in Sockets,
             Block(d) \/ Unblock(d) \/ AgentExits(d)
      PROVE  ShutdownInv'
  BY <1>11 DEF Block, Unblock, AgentExits
<1>12. ASSUME NEW d \in Sockets, ClientShutdown(d)
      PROVE  ShutdownInv'
  BY <1>12 DEF ClientShutdown, Ends
<1>13. ASSUME NEW d \in Sockets,
             ProtocolEnd(d) \/ OutputFails(d) \/ ExitReported(d) \/
             DeadlineExpires(d) \/ ServerShutdown(d)
      PROVE  ShutdownInv'
  BY <1>13 DEF ProtocolEnd, OutputFails, Ends, ExitReported, DeadlineExpires,
      ServerShutdown
<1>14. ASSUME NEW d \in Sockets,
             Reap(d) \/ Farewell(d) \/ AttachFirstFails(d) \/
             SessionFails(d)
      PROVE  ShutdownInv'
  <2>1. CASE Reap(d)
    BY <2>1 DEF Reap
  <2>2. CASE Farewell(d)
    BY <2>2 DEF Farewell, Return
  <2>3. CASE AttachFirstFails(d) \/ SessionFails(d)
    BY <2>3 DEF Return, AttachFirstFails, Orphan, SessionFails
  <2> QED BY <1>14, <2>1, <2>2, <2>3
<1>15. ASSUME NEW d \in Sockets, Unregister(d)
      PROVE  ShutdownInv'
  BY <1>15 DEF Unregister
<1>16. CASE Cancel \/ UNCHANGED vars
  BY <1>16 DEF Cancel, vars
<1>17. CASE ServeReturns
  BY <1>17 DEF ServeReturns
<1> QED BY <1>1, <1>2, <1>3, <1>4, <1>5, <1>6, <1>7, <1>8, <1>9, <1>10,
    <1>11, <1>12, <1>13, <1>14, <1>15, <1>16, <1>17, NextCases

\* A task waits for a channel only after its checks, and keeps its request.
EnqueueStays ==
  \A x \in Sockets :
    handler'[x] = "enqueue" =>
      /\ request'[x] = request[x] /\ claim'[x] = claim[x]
      /\ \/ handler[x] = "enqueue"
         \/ AsksResume(x) /\ Matches(x, registry[claim[x].id])

\* A step sends a task to wait for a channel only after the checks.
LEMMA EnqueueKeeps ==
  ASSUME TypeOK, [Next]_vars
  PROVE  EnqueueStays
<1> USE DEF TypeOK, Station, InSession, HoldsSocket, EnqueueStays
<1>1. ASSUME NEW c \in Sockets, NEW r \in Offer, NEW k \in Claims, Dial(c, r, k)
      PROVE  EnqueueStays
  BY <1>1 DEF Dial
<1>2. ASSUME NEW d \in Sockets,
             ReceiveReady(d) \/ SeeEnd(d) \/ GiveUp(d)
      PROVE  EnqueueStays
  BY <1>2 DEF ReceiveReady, SeeEnd, Close, GiveUp
<1>3. ASSUME NEW d \in Sockets,
             ReadOpenFails(d) \/ PrepareAgentFails(d) \/
             EnqueueFails(d)
      PROVE  EnqueueStays
  BY <1>3 DEF ReadOpenFails, Finish, PrepareAgentFails, AsksNew, EnqueueFails
<1>4. ASSUME NEW d \in Sockets, PrepareAgent(d)
      PROVE  EnqueueStays
  BY <1>4 DEF PrepareAgent, AsksNew
<1>5. ASSUME NEW d \in Sockets, Register(d)
      PROVE  EnqueueStays
  BY <1>5 DEF Register
<1>6. ASSUME NEW d \in Sockets, CheckResume(d)
      PROVE  EnqueueStays
  BY <1>6 DEF CheckResume, AsksResume, Finish
<1>7. ASSUME NEW d \in Sockets, Enqueue(d)
      PROVE  EnqueueStays
  BY <1>7 DEF Enqueue
<1>8. ASSUME NEW d \in Sockets, AttachFirst(d)
      PROVE  EnqueueStays
  BY <1>8 DEF AttachFirst, Ready
<1>9. ASSUME NEW d \in Sockets, AttachResumed(d)
      PROVE  EnqueueStays
  BY <1>9 DEF AttachResumed, Ready
<1>10. ASSUME NEW d \in Sockets, Detach(d)
      PROVE  EnqueueStays
  BY <1>10 DEF Detach
<1>11. ASSUME NEW d \in Sockets,
             Block(d) \/ Unblock(d) \/ AgentExits(d)
      PROVE  EnqueueStays
  BY <1>11 DEF Block, Unblock, AgentExits
<1>12. ASSUME NEW d \in Sockets, ClientShutdown(d)
      PROVE  EnqueueStays
  BY <1>12 DEF ClientShutdown, Ends
<1>13. ASSUME NEW d \in Sockets,
             ProtocolEnd(d) \/ OutputFails(d) \/ ExitReported(d) \/
             DeadlineExpires(d) \/ ServerShutdown(d)
      PROVE  EnqueueStays
  BY <1>13 DEF ProtocolEnd, OutputFails, Ends, ExitReported, DeadlineExpires,
      ServerShutdown
<1>14. ASSUME NEW d \in Sockets,
             Reap(d) \/ Farewell(d) \/ AttachFirstFails(d) \/
             SessionFails(d)
      PROVE  EnqueueStays
  BY <1>14 DEF Reap, Farewell, Return, AttachFirstFails, Orphan, SessionFails
<1>15. ASSUME NEW d \in Sockets, Unregister(d)
      PROVE  EnqueueStays
  BY <1>15 DEF Unregister
<1>16. CASE Cancel \/ UNCHANGED vars
  BY <1>16 DEF Cancel, vars
<1>17. CASE ServeReturns
  BY <1>17 DEF ServeReturns
<1> QED BY <1>1, <1>2, <1>3, <1>4, <1>5, <1>6, <1>7, <1>8, <1>9, <1>10,
    <1>11, <1>12, <1>13, <1>14, <1>15, <1>16, <1>17, NextCases

\* What the checks establish stays true: neither request changes any more.
LEMMA EnqueuePreserved ==
  ASSUME IInv, BegunStays, EnqueueStays
  PROVE  EnqueueInv'
<1> USE DEF IInv
<1> SUFFICES ASSUME NEW x \in Sockets, handler'[x] = "enqueue"
             PROVE  claim'[x] # NoClaim /\ Entitled(x, claim[x].id)'
  BY DEF EnqueueInv
<1>1. request'[x] = request[x] /\ claim'[x] = claim[x]
  BY DEF EnqueueStays
<1>2. claim[x] # NoClaim /\ Entitled(x, claim[x].id)
  <2>1. CASE handler[x] = "enqueue"
    BY <2>1 DEF EnqueueInv
  <2>2. CASE AsksResume(x) /\ Matches(x, registry[claim[x].id])
    <3>1. claim[x] # NoClaim /\ claim[x] \in Claim
      BY <2>2 DEF AsksResume, TypeOK
    <3>2. /\ claim[x].id \in Sockets
          /\ claim[x] = [id |-> claim[x].id, token |-> claim[x].token]
      BY <3>1 DEF Claim
    <3>3. registry[claim[x].id] = EntryOf(claim[x].id)
      BY <2>2, <3>2 DEF Matches, EntryInv
    <3> QED BY <2>2, <3>1, <3>2, <3>3 DEF Matches, Entitled, EntryOf
  <2> QED BY <2>1, <2>2 DEF EnqueueStays
<1>3. claim[x].id \in Sockets /\ handler[claim[x].id] \in Begun
  BY <1>2 DEF AnnouncedInv, TypeOK, Claim
<1> QED BY <1>1, <1>2, <1>3 DEF BegunStays, Entitled

\* A step announces no session before it has begun.
LEMMA AnnouncedPreserved ==
  ASSUME TypeOK, TypeOK', AnnouncedInv, EnqueueInv, BegunStays, [Next]_vars
  PROVE  AnnouncedInv'
<1> USE DEF TypeOK, Station, InSession, HoldsSocket, AnnouncedInv,
        BegunStays, Begun, Claim, NoClaim
<1>1. ASSUME NEW c \in Sockets, NEW r \in Offer, NEW k \in Claims, Dial(c, r, k)
      PROVE  AnnouncedInv'
  <2>1. k # NoClaim => handler[k.id] \in Begun
    BY DEF Claims
  <2>2. \A x \in Sockets : claim'[x] = claim[x] \/ claim'[x] = k
    BY <1>1 DEF Dial
  <2>3. \A x \in Sockets : claim'[x] # NoClaim => claim'[x].id \in Sockets
    BY RegistryAssumption
  <2>4. \A x \in Sockets :
          claim'[x] # NoClaim => handler[claim'[x].id] \in Begun
    BY <2>1, <2>2
  <2>5. known' = known /\ answer' = answer
    BY <1>1 DEF Dial
  <2> QED BY <2>3, <2>4, <2>5
<1>2. ASSUME NEW d \in Sockets, ReceiveReady(d)
      PROVE  AnnouncedInv'
  BY <1>2, RegistryAssumption DEF ReceiveReady
<1>3. ASSUME NEW d \in Sockets, SeeEnd(d)
      PROVE  AnnouncedInv'
  BY <1>3, RegistryAssumption DEF SeeEnd, Close
<1>4. ASSUME NEW d \in Sockets, GiveUp(d)
      PROVE  AnnouncedInv'
  BY <1>4, RegistryAssumption DEF GiveUp, Close
<1>5. ASSUME NEW d \in Sockets, ReadOpenFails(d)
      PROVE  AnnouncedInv'
  BY <1>5, RegistryAssumption DEF ReadOpenFails, Finish
<1>6. ASSUME NEW d \in Sockets, PrepareAgentFails(d)
      PROVE  AnnouncedInv'
  BY <1>6, RegistryAssumption DEF PrepareAgentFails, AsksNew, Finish
<1>7. ASSUME NEW d \in Sockets, EnqueueFails(d)
      PROVE  AnnouncedInv'
  BY <1>7, RegistryAssumption DEF EnqueueFails, Finish
<1>8. ASSUME NEW d \in Sockets, PrepareAgent(d)
      PROVE  AnnouncedInv'
  BY <1>8, RegistryAssumption DEF PrepareAgent, AsksNew
<1>9. ASSUME NEW d \in Sockets, Register(d)
      PROVE  AnnouncedInv'
  BY <1>9, RegistryAssumption DEF Register
<1>10. ASSUME NEW d \in Sockets, CheckResume(d)
      PROVE  AnnouncedInv'
  <2>1. \A x \in Sockets : claim'[x] = claim[x] \/ claim'[x] = NoClaim
    BY <1>10 DEF CheckResume, Finish
  <2>2. \A x \in Sockets : claim[x] # NoClaim => claim[x].id \in Sockets
    BY RegistryAssumption
  <2>3. known' = known /\ answer' = answer
    BY <1>10 DEF CheckResume
  <2> QED BY <2>1, <2>2, <2>3
<1>11. ASSUME NEW d \in Sockets, Enqueue(d)
      PROVE  AnnouncedInv'
  BY <1>11, RegistryAssumption DEF Enqueue, EnqueueInv
<1>12. ASSUME NEW d \in Sockets, AttachFirst(d)
      PROVE  AnnouncedInv'
  BY <1>12, RegistryAssumption DEF AttachFirst, Ready
<1>13. ASSUME NEW d \in Sockets, AttachResumed(d)
      PROVE  AnnouncedInv'
  <2>1. handler'[d] \in Begun
    BY <1>13 DEF AttachResumed
  <2>2. \A x \in Sockets : answer'[x] = answer[x] \/ answer'[x] = d
    <3>1. Head(queue[d]) \in Sockets
      BY <1>13 DEF AttachResumed
    <3> QED BY <1>13, <3>1 DEF AttachResumed, Ready
  <2>3. known' = known /\ claim' = claim /\ handler' = handler
    BY <1>13 DEF AttachResumed
  <2>4. \A x \in Sockets : answer'[x] # NoSocket => handler'[answer'[x]] \in Begun
    <3>1. ASSUME NEW x \in Sockets, answer'[x] # NoSocket, answer'[x] = answer[x]
          PROVE  handler'[answer'[x]] \in Begun
      BY <2>3, <3>1
    <3> QED BY <2>1, <2>2, <3>1
  <2> QED BY <2>3, <2>4
<1>14. ASSUME NEW d \in Sockets, Detach(d)
      PROVE  AnnouncedInv'
  BY <1>14, RegistryAssumption DEF Detach
<1>15. ASSUME NEW d \in Sockets,
             Block(d) \/ Unblock(d) \/ AgentExits(d)
      PROVE  AnnouncedInv'
  BY <1>15, RegistryAssumption DEF Block, Unblock, AgentExits
<1>16. ASSUME NEW d \in Sockets, ClientShutdown(d)
      PROVE  AnnouncedInv'
  BY <1>16, RegistryAssumption DEF ClientShutdown, Ends
<1>17. ASSUME NEW d \in Sockets,
             ProtocolEnd(d) \/ OutputFails(d) \/ ExitReported(d) \/
             DeadlineExpires(d) \/ ServerShutdown(d)
      PROVE  AnnouncedInv'
  BY <1>17, RegistryAssumption DEF ProtocolEnd, OutputFails, Ends, ExitReported,
      DeadlineExpires, ServerShutdown
<1>18. ASSUME NEW d \in Sockets,
             Reap(d) \/ Farewell(d) \/ AttachFirstFails(d) \/
             SessionFails(d)
      PROVE  AnnouncedInv'
  BY <1>18, RegistryAssumption DEF Reap, Farewell, Return, AttachFirstFails, Orphan,
      SessionFails
<1>19. ASSUME NEW d \in Sockets, Unregister(d)
      PROVE  AnnouncedInv'
  BY <1>19, RegistryAssumption DEF Unregister
<1>20. CASE Cancel \/ UNCHANGED vars
  BY <1>20, RegistryAssumption DEF Cancel, vars
<1>21. CASE ServeReturns
  BY <1>21, RegistryAssumption DEF ServeReturns
<1> QED BY <1>1, <1>2, <1>3, <1>4, <1>5, <1>6, <1>7, <1>8, <1>9, <1>10,
    <1>11, <1>12, <1>13, <1>14, <1>15, <1>16, <1>17, <1>18, <1>19, <1>20,
    <1>21, NextCases

\* Sequences, as sets of what is in them.
LEMMA RangeAppend ==
  ASSUME NEW S, NEW q \in Seq(S), NEW e \in S
  PROVE  Range(Append(q, e)) = Range(q) \union {e}
<1> DEFINE a == Append(q, e)
<1>1. /\ DOMAIN a = 1 .. Len(q) + 1 /\ DOMAIN q = 1 .. Len(q)
      /\ Len(q) \in Nat /\ a[Len(q) + 1] = e
      /\ \A i \in 1 .. Len(q) : a[i] = q[i]
  OBVIOUS
<1> HIDE DEF a
<1>2. ASSUME NEW y PROVE y \in Range(a) <=> y \in Range(q) \union {e}
  <2>1. ASSUME NEW i \in DOMAIN a PROVE a[i] \in Range(q) \union {e}
    <3>1. CASE i = Len(q) + 1
      BY <1>1, <3>1
    <3>2. CASE i \in 1 .. Len(q)
      BY <1>1, <3>2 DEF Range
    <3> QED BY <1>1, <3>1, <3>2
  <2>2. ASSUME NEW i \in DOMAIN q PROVE q[i] \in Range(a)
    <3>1. i \in DOMAIN a /\ a[i] = q[i]
      BY <1>1
    <3> QED BY <3>1 DEF Range
  <2>3. e \in Range(a)
    <3>1. Len(q) + 1 \in DOMAIN a
      BY <1>1
    <3> QED BY <1>1, <3>1 DEF Range
  <2> QED BY <2>1, <2>2, <2>3 DEF Range
<1> QED BY <1>2 DEF a

\* What is left of a queue was in it, and so was its head.
LEMMA RangeTail ==
  ASSUME NEW S, NEW q \in Seq(S), q # <<>>
  PROVE  Range(Tail(q)) \subseteq Range(q) /\ Head(q) \in Range(q)
BY DEF Range

\* An empty queue has nothing in it.
LEMMA RangeEmpty == Range(<<>>) = {}
BY DEF Range

\* A socket that a session has stays entitled to it.
LEMMA OwnedStays ==
  ASSUME TypeOK, BegunStays,
         NEW s \in Sockets, NEW x \in Sockets,
         handler[s] \in Begun, handler[x] \in Begun,
         Admitted(x), x = s \/ Entitled(x, s)
  PROVE  handler'[x] \in Begun /\ Admitted(x)' /\ (x = s \/ Entitled(x, s)')
BY DEF BegunStays, Admitted, Entitled

\* A step that adds no socket to a session and ends none of those with one.
KeepsSockets ==
  \A s, x \in Sockets :
    transport'[s] = x \/ x \in Range(queue'[s]) =>
      /\ transport[s] = x \/ x \in Range(queue[s])
      /\ handler'[s] \in InSession

\* A step that adds no socket keeps the sockets of sessions their own.
LEMMA SocketsKept ==
  ASSUME TypeOK, SocketsInv, BegunStays, KeepsSockets
  PROVE  SocketsInv'
<1> SUFFICES ASSUME NEW s \in Sockets, NEW x \in Sockets,
                    transport'[s] = x \/ x \in Range(queue'[s])
             PROVE  /\ handler'[s] \in InSession /\ handler'[x] \in Begun
                    /\ Admitted(x)' /\ (x = s \/ Entitled(x, s)')
  BY DEF SocketsInv
<1>1. /\ handler[s] \in InSession /\ handler[x] \in Begun
      /\ Admitted(x) /\ (x = s \/ Entitled(x, s))
  BY DEF KeepsSockets, SocketsInv
<1>2. handler[s] \in Begun
  BY <1>1 DEF Begun
<1> QED BY <1>1, <1>2, OwnedStays DEF KeepsSockets

\* A step leaves the sockets of every session its own.
LEMMA SocketsPreserved ==
  ASSUME TypeOK, DialledInv, SocketsInv, RequestInv, EnqueueInv, BegunStays,
           [Next]_vars
  PROVE  SocketsInv'
<1> USE DEF TypeOK, Station, InSession, HoldsSocket
<1>1. ASSUME NEW c \in Sockets, NEW r \in Offer, NEW k \in Claims, Dial(c, r, k)
      PROVE  SocketsInv'
  <2>1. KeepsSockets
    BY <1>1, RegistryAssumption, RangeEmpty
    DEF KeepsSockets, SocketsInv, DialledInv, Dial
  <2> QED BY <2>1, SocketsKept
<1>2. ASSUME NEW d \in Sockets,
             ReceiveReady(d) \/ SeeEnd(d) \/ GiveUp(d)
      PROVE  SocketsInv'
  <2>1. KeepsSockets
    BY <1>2, RegistryAssumption, RangeEmpty
    DEF KeepsSockets, SocketsInv, ReceiveReady, SeeEnd, Close, GiveUp
  <2> QED BY <2>1, SocketsKept
<1>3. ASSUME NEW d \in Sockets,
             ReadOpenFails(d) \/ PrepareAgentFails(d) \/
             EnqueueFails(d)
      PROVE  SocketsInv'
  <2>1. KeepsSockets
    BY <1>3, RegistryAssumption, RangeEmpty
    DEF KeepsSockets, SocketsInv, ReadOpenFails, Finish, PrepareAgentFails,
            AsksNew, EnqueueFails
  <2> QED BY <2>1, SocketsKept
<1>4. ASSUME NEW d \in Sockets, PrepareAgent(d)
      PROVE  SocketsInv'
  <2>1. KeepsSockets
    BY <1>4, RegistryAssumption, RangeEmpty
    DEF KeepsSockets, SocketsInv, PrepareAgent, AsksNew
  <2> QED BY <2>1, SocketsKept
<1>5. ASSUME NEW d \in Sockets, Register(d)
      PROVE  SocketsInv'
  <2>1. KeepsSockets
    BY <1>5, RegistryAssumption, RangeEmpty
    DEF KeepsSockets, SocketsInv, Register
  <2> QED BY <2>1, SocketsKept
<1>6. ASSUME NEW d \in Sockets, CheckResume(d)
      PROVE  SocketsInv'
  <2>1. KeepsSockets
    <3>1. transport' = transport /\ queue' = queue
      BY <1>6 DEF CheckResume
    <3>2. \A s \in Sockets : handler[s] \in InSession => handler'[s] \in InSession
      BY <1>6 DEF CheckResume, AsksResume, Finish
    <3> QED BY <3>1, <3>2 DEF KeepsSockets, SocketsInv
  <2> QED BY <2>1, SocketsKept
<1>7. ASSUME NEW d \in Sockets, Enqueue(d)
      PROVE  SocketsInv'
  <2> DEFINE s == claim[d].id
  <2>1. s \in Sockets /\ Entitled(d, s)
    BY <1>7 DEF Enqueue, EnqueueInv, Claim, NoClaim
  <2>2. Admitted(d)
    BY <1>7 DEF Enqueue, RequestInv
  <2>3. \A z \in Sockets : z # s => queue'[z] = queue[z]
    BY <1>7, <2>1 DEF Enqueue
  <2>4. Range(queue'[s]) = Range(queue[s]) \union {d}
    BY <1>7, <2>1, RangeAppend DEF Enqueue
  <2>5. handler[s] \in InSession /\ d # s
    BY <1>7 DEF Enqueue
  <2>6. \A z \in Sockets : z # d => handler'[z] = handler[z]
    BY <1>7 DEF Enqueue
  <2>7. /\ handler'[d] = "done" /\ transport' = transport
        /\ request' = request /\ claim' = claim
    BY <1>7 DEF Enqueue
  <2> HIDE DEF s
  <2> SUFFICES ASSUME NEW z \in Sockets, NEW x \in Sockets,
                      transport'[z] = x \/ x \in Range(queue'[z])
               PROVE  /\ handler'[z] \in InSession /\ handler'[x] \in Begun
                      /\ Admitted(x)' /\ (x = z \/ Entitled(x, z)')
    BY DEF SocketsInv
  <2>8. CASE z = s /\ x = d
    BY <2>1, <2>2, <2>5, <2>6, <2>7, <2>8 DEF Begun, Admitted, Entitled
  <2>9. CASE transport[z] = x \/ x \in Range(queue[z])
    <3>1. /\ handler[z] \in InSession /\ handler[x] \in Begun
          /\ Admitted(x) /\ (x = z \/ Entitled(x, z))
      BY <2>9 DEF SocketsInv
    <3>2. z # d
      BY <1>7, <3>1 DEF Enqueue
    <3> QED BY <2>6, <3>1, <3>2, OwnedStays DEF Begun
  <2> QED BY <2>3, <2>4, <2>7, <2>8, <2>9
<1>8. ASSUME NEW d \in Sockets, AttachFirst(d)
      PROVE  SocketsInv'
  <2>1. Admitted(d)
    BY <1>8 DEF AttachFirst, RequestInv, Opening
  <2>2. /\ handler'[d] = "loop" /\ queue' = queue
        /\ request' = request /\ claim' = claim
        /\ \A z \in Sockets \ {d} : handler'[z] = handler[z]
    BY <1>8 DEF AttachFirst
  <2>3. /\ transport'[d] = d
        /\ \A z \in Sockets \ {d} : transport'[z] = transport[z]
    BY <1>8 DEF AttachFirst
  <2> QED BY <2>1, <2>2, <2>3 DEF SocketsInv, Begun, Admitted, Entitled
<1>9. ASSUME NEW d \in Sockets, AttachResumed(d)
      PROVE  SocketsInv'
  <2>1. queue[d] \in Seq(Sockets) /\ queue[d] # <<>>
    BY <1>9 DEF AttachResumed
  <2>2. Range(queue'[d]) \subseteq Range(queue[d])
    BY <1>9, <2>1, RangeTail DEF AttachResumed
  <2>3. transport'[d] = NoSocket \/ transport'[d] \in Range(queue[d])
    BY <1>9, <2>1, RangeTail DEF AttachResumed
  <2>4. \A z \in Sockets \ {d} :
          queue'[z] = queue[z] /\ transport'[z] = transport[z]
    BY <1>9 DEF AttachResumed
  <2>5. handler' = handler
    BY <1>9 DEF AttachResumed
  <2>6. KeepsSockets
    BY <2>2, <2>3, <2>4, <2>5, RegistryAssumption DEF KeepsSockets, SocketsInv
  <2> QED BY <2>6, SocketsKept
<1>10. ASSUME NEW d \in Sockets, Detach(d)
      PROVE  SocketsInv'
  <2>1. KeepsSockets
    BY <1>10, RegistryAssumption, RangeEmpty
    DEF KeepsSockets, SocketsInv, Detach
  <2> QED BY <2>1, SocketsKept
<1>11. ASSUME NEW d \in Sockets,
             Block(d) \/ Unblock(d) \/ AgentExits(d)
      PROVE  SocketsInv'
  <2>1. KeepsSockets
    BY <1>11, RegistryAssumption, RangeEmpty
    DEF KeepsSockets, SocketsInv, Block, Unblock, AgentExits
  <2> QED BY <2>1, SocketsKept
<1>12. ASSUME NEW d \in Sockets, ClientShutdown(d)
      PROVE  SocketsInv'
  <2>1. KeepsSockets
    BY <1>12, RegistryAssumption, RangeEmpty
    DEF KeepsSockets, SocketsInv, ClientShutdown, Ends
  <2> QED BY <2>1, SocketsKept
<1>13. ASSUME NEW d \in Sockets,
             ProtocolEnd(d) \/ OutputFails(d) \/ ExitReported(d) \/
             DeadlineExpires(d) \/ ServerShutdown(d)
      PROVE  SocketsInv'
  <2>1. KeepsSockets
    BY <1>13, RegistryAssumption, RangeEmpty
    DEF KeepsSockets, SocketsInv, ProtocolEnd, OutputFails, Ends, ExitReported,
            DeadlineExpires, ServerShutdown
  <2> QED BY <2>1, SocketsKept
<1>14. ASSUME NEW d \in Sockets,
             Reap(d) \/ Farewell(d) \/ AttachFirstFails(d) \/
             SessionFails(d)
      PROVE  SocketsInv'
  <2>1. KeepsSockets
    BY <1>14, RegistryAssumption, RangeEmpty
    DEF KeepsSockets, SocketsInv, Reap, Farewell, Return, AttachFirstFails, Orphan,
            SessionFails
  <2> QED BY <2>1, SocketsKept
<1>15. ASSUME NEW d \in Sockets, Unregister(d)
      PROVE  SocketsInv'
  <2>1. KeepsSockets
    BY <1>15, RegistryAssumption, RangeEmpty
    DEF KeepsSockets, SocketsInv, Unregister
  <2> QED BY <2>1, SocketsKept
<1>16. CASE Cancel \/ UNCHANGED vars
  <2>1. KeepsSockets
    BY <1>16, RegistryAssumption, RangeEmpty
    DEF KeepsSockets, SocketsInv, Cancel, vars
  <2> QED BY <2>1, SocketsKept
<1>17. CASE ServeReturns
  <2>1. KeepsSockets
    BY <1>17, RegistryAssumption, RangeEmpty
    DEF KeepsSockets, SocketsInv, ServeReturns
  <2> QED BY <2>1, SocketsKept
<1> QED BY <1>1, <1>2, <1>3, <1>4, <1>5, <1>6, <1>7, <1>8, <1>9, <1>10,
    <1>11, <1>12, <1>13, <1>14, <1>15, <1>16, <1>17, NextCases

\* A resume ends in its handshake only by failing the checks.
LEMMA RefusedResume ==
  ASSUME TypeOK, [Next]_vars
  PROVE  \A x \in Sockets :
           AsksResume(x) /\ handler'[x] = "done" /\ serverUp' =>
             ~Matches(x, registry[claim[x].id])
<1> USE DEF TypeOK, Station, InSession, HoldsSocket, AsksResume
<1>1. ASSUME NEW c \in Sockets, NEW r \in Offer, NEW k \in Claims, Dial(c, r, k)
      PROVE  \A x \in Sockets :
           AsksResume(x) /\ handler'[x] = "done" /\ serverUp' =>
             ~Matches(x, registry[claim[x].id])
  BY <1>1 DEF Dial
<1>2. ASSUME NEW d \in Sockets,
             ReceiveReady(d) \/ SeeEnd(d) \/ GiveUp(d)
      PROVE  \A x \in Sockets :
           AsksResume(x) /\ handler'[x] = "done" /\ serverUp' =>
             ~Matches(x, registry[claim[x].id])
  BY <1>2 DEF ReceiveReady, SeeEnd, Close, GiveUp
<1>3. ASSUME NEW d \in Sockets,
             ReadOpenFails(d) \/ PrepareAgentFails(d) \/
             EnqueueFails(d)
      PROVE  \A x \in Sockets :
           AsksResume(x) /\ handler'[x] = "done" /\ serverUp' =>
             ~Matches(x, registry[claim[x].id])
  BY <1>3 DEF ReadOpenFails, Finish, PrepareAgentFails, AsksNew, EnqueueFails
<1>4. ASSUME NEW d \in Sockets, PrepareAgent(d)
      PROVE  \A x \in Sockets :
           AsksResume(x) /\ handler'[x] = "done" /\ serverUp' =>
             ~Matches(x, registry[claim[x].id])
  BY <1>4 DEF PrepareAgent, AsksNew
<1>5. ASSUME NEW d \in Sockets, Register(d)
      PROVE  \A x \in Sockets :
           AsksResume(x) /\ handler'[x] = "done" /\ serverUp' =>
             ~Matches(x, registry[claim[x].id])
  BY <1>5 DEF Register
<1>6. ASSUME NEW d \in Sockets, CheckResume(d)
      PROVE  \A x \in Sockets :
           AsksResume(x) /\ handler'[x] = "done" /\ serverUp' =>
             ~Matches(x, registry[claim[x].id])
  BY <1>6 DEF CheckResume, AsksResume, Finish
<1>7. ASSUME NEW d \in Sockets, Enqueue(d)
      PROVE  \A x \in Sockets :
           AsksResume(x) /\ handler'[x] = "done" /\ serverUp' =>
             ~Matches(x, registry[claim[x].id])
  BY <1>7 DEF Enqueue
<1>8. ASSUME NEW d \in Sockets, AttachFirst(d)
      PROVE  \A x \in Sockets :
           AsksResume(x) /\ handler'[x] = "done" /\ serverUp' =>
             ~Matches(x, registry[claim[x].id])
  BY <1>8 DEF AttachFirst, Ready
<1>9. ASSUME NEW d \in Sockets, AttachResumed(d)
      PROVE  \A x \in Sockets :
           AsksResume(x) /\ handler'[x] = "done" /\ serverUp' =>
             ~Matches(x, registry[claim[x].id])
  BY <1>9 DEF AttachResumed, Ready
<1>10. ASSUME NEW d \in Sockets, Detach(d)
      PROVE  \A x \in Sockets :
           AsksResume(x) /\ handler'[x] = "done" /\ serverUp' =>
             ~Matches(x, registry[claim[x].id])
  BY <1>10 DEF Detach
<1>11. ASSUME NEW d \in Sockets,
             Block(d) \/ Unblock(d) \/ AgentExits(d)
      PROVE  \A x \in Sockets :
           AsksResume(x) /\ handler'[x] = "done" /\ serverUp' =>
             ~Matches(x, registry[claim[x].id])
  BY <1>11 DEF Block, Unblock, AgentExits
<1>12. ASSUME NEW d \in Sockets, ClientShutdown(d)
      PROVE  \A x \in Sockets :
           AsksResume(x) /\ handler'[x] = "done" /\ serverUp' =>
             ~Matches(x, registry[claim[x].id])
  BY <1>12 DEF ClientShutdown, Ends
<1>13. ASSUME NEW d \in Sockets,
             ProtocolEnd(d) \/ OutputFails(d) \/ ExitReported(d) \/
             DeadlineExpires(d) \/ ServerShutdown(d)
      PROVE  \A x \in Sockets :
           AsksResume(x) /\ handler'[x] = "done" /\ serverUp' =>
             ~Matches(x, registry[claim[x].id])
  BY <1>13 DEF ProtocolEnd, OutputFails, Ends, ExitReported, DeadlineExpires,
      ServerShutdown
<1>14. ASSUME NEW d \in Sockets,
             Reap(d) \/ Farewell(d) \/ AttachFirstFails(d) \/
             SessionFails(d)
      PROVE  \A x \in Sockets :
           AsksResume(x) /\ handler'[x] = "done" /\ serverUp' =>
             ~Matches(x, registry[claim[x].id])
  BY <1>14 DEF Reap, Farewell, Return, AttachFirstFails, Orphan, SessionFails
<1>15. ASSUME NEW d \in Sockets, Unregister(d)
      PROVE  \A x \in Sockets :
           AsksResume(x) /\ handler'[x] = "done" /\ serverUp' =>
             ~Matches(x, registry[claim[x].id])
  BY <1>15 DEF Unregister
<1>16. CASE Cancel \/ UNCHANGED vars
  BY <1>16 DEF Cancel, vars
<1>17. CASE ServeReturns
  BY <1>17 DEF ServeReturns
<1> QED BY <1>1, <1>2, <1>3, <1>4, <1>5, <1>6, <1>7, <1>8, <1>9, <1>10,
    <1>11, <1>12, <1>13, <1>14, <1>15, <1>16, <1>17, NextCases

\* Only a session in its loop gets another transport.
EndedKeeps ==
  \A s \in Sockets :
    handler[s] \in {"cleanup", "farewell", "done"} =>
      transport'[s] \in {transport[s], NoSocket}

LEMMA EndedTransport ==
  ASSUME TypeOK, [Next]_vars
  PROVE  EndedKeeps
<1> USE DEF EndedKeeps, TypeOK, Station, InSession, HoldsSocket
<1>1. ASSUME NEW c \in Sockets, NEW r \in Offer, NEW k \in Claims, Dial(c, r, k)
      PROVE  EndedKeeps
  BY <1>1 DEF Dial
<1>2. ASSUME NEW d \in Sockets,
             ReceiveReady(d) \/ SeeEnd(d) \/ GiveUp(d)
      PROVE  EndedKeeps
  BY <1>2 DEF ReceiveReady, SeeEnd, Close, GiveUp
<1>3. ASSUME NEW d \in Sockets,
             ReadOpenFails(d) \/ PrepareAgentFails(d) \/
             EnqueueFails(d)
      PROVE  EndedKeeps
  BY <1>3 DEF ReadOpenFails, Finish, PrepareAgentFails, AsksNew, EnqueueFails
<1>4. ASSUME NEW d \in Sockets, PrepareAgent(d)
      PROVE  EndedKeeps
  BY <1>4 DEF PrepareAgent, AsksNew
<1>5. ASSUME NEW d \in Sockets, Register(d)
      PROVE  EndedKeeps
  BY <1>5 DEF Register
<1>6. ASSUME NEW d \in Sockets, CheckResume(d)
      PROVE  EndedKeeps
  BY <1>6 DEF CheckResume, AsksResume, Finish
<1>7. ASSUME NEW d \in Sockets, Enqueue(d)
      PROVE  EndedKeeps
  BY <1>7 DEF Enqueue
<1>8. ASSUME NEW d \in Sockets, AttachFirst(d)
      PROVE  EndedKeeps
  BY <1>8 DEF AttachFirst, Ready
<1>9. ASSUME NEW d \in Sockets, AttachResumed(d)
      PROVE  EndedKeeps
  BY <1>9 DEF AttachResumed, Ready
<1>10. ASSUME NEW d \in Sockets, Detach(d)
      PROVE  EndedKeeps
  BY <1>10 DEF Detach
<1>11. ASSUME NEW d \in Sockets,
             Block(d) \/ Unblock(d) \/ AgentExits(d)
      PROVE  EndedKeeps
  BY <1>11 DEF Block, Unblock, AgentExits
<1>12. ASSUME NEW d \in Sockets, ClientShutdown(d)
      PROVE  EndedKeeps
  BY <1>12 DEF ClientShutdown, Ends
<1>13. ASSUME NEW d \in Sockets,
             ProtocolEnd(d) \/ OutputFails(d) \/ ExitReported(d) \/
             DeadlineExpires(d) \/ ServerShutdown(d)
      PROVE  EndedKeeps
  BY <1>13 DEF ProtocolEnd, OutputFails, Ends, ExitReported, DeadlineExpires,
      ServerShutdown
<1>14. ASSUME NEW d \in Sockets,
             Reap(d) \/ Farewell(d) \/ AttachFirstFails(d) \/
             SessionFails(d)
      PROVE  EndedKeeps
  BY <1>14 DEF Reap, Farewell, Return, AttachFirstFails, Orphan, SessionFails
<1>15. ASSUME NEW d \in Sockets, Unregister(d)
      PROVE  EndedKeeps
  BY <1>15 DEF Unregister
<1>16. CASE Cancel \/ UNCHANGED vars
  BY <1>16 DEF Cancel, vars
<1>17. CASE ServeReturns
  BY <1>17 DEF ServeReturns
<1> QED BY <1>1, <1>2, <1>3, <1>4, <1>5, <1>6, <1>7, <1>8, <1>9, <1>10,
    <1>11, <1>12, <1>13, <1>14, <1>15, <1>16, <1>17, NextCases

-----------------------------------------------------------------------------
(* The theorems. *)

\* A step preserves the invariant.
LEMMA Inductive == IInv /\ [Next]_vars => IInv'
<1> SUFFICES ASSUME IInv, [Next]_vars PROVE IInv'
  OBVIOUS
<1> USE DEF IInv
<1>1. TypeOK' /\ DialledInv' /\ RequestInv' /\ OpeningInv'
  BY TypePreserved, DialledPreserved, RequestPreserved, OpeningPreserved
<1>2. EntryInv' /\ ShutdownInv'
  BY EntryPreserved, ShutdownPreserved
<1>3. BegunStays /\ EnqueueStays
  BY BegunKeeps, EnqueueKeeps
<1>4. EnqueueInv'
  BY <1>3, EnqueuePreserved
<1>5. AnnouncedInv'
  BY <1>1, <1>3, AnnouncedPreserved
<1>6. SocketsInv'
  BY <1>3, SocketsPreserved
<1> QED BY <1>1, <1>2, <1>4, <1>5, <1>6

\* The invariant holds of a server that has just started.
LEMMA Initially == Init => IInv
<1> SUFFICES ASSUME Init PROVE IInv
  OBVIOUS
<1>1. TypeOK
  <2>1. queue \in [Sockets -> Seq(Sockets)]
    BY DEF Init
  <2>2. /\ request \in [Sockets -> Offer \union {NoRequest}]
        /\ claim \in [Sockets -> Claim \union {NoClaim}]
        /\ registry \in [Sockets -> Entry \union {NoEntry}]
    BY DEF Init
  <2>3. /\ handler \in [Sockets -> Station]
        /\ deadline \in [Sockets -> BOOLEAN]
        /\ shutdown \in BOOLEAN /\ serverUp \in BOOLEAN
    BY DEF Init, Station
  <2> QED BY <2>1, <2>2, <2>3 DEF Init, TypeOK
<1>2. DialledInv /\ RequestInv /\ AnnouncedInv /\ OpeningInv /\ EnqueueInv
  BY DEF Init, DialledInv, RequestInv, AnnouncedInv, OpeningInv, EnqueueInv,
         Opening, InSession
<1>3. EntryInv /\ ShutdownInv
  BY DEF Init, EntryInv, ShutdownInv, NoEntry
<1>4. SocketsInv
  BY RangeEmpty, RegistryAssumption DEF Init, SocketsInv
<1> QED BY <1>1, <1>2, <1>3, <1>4 DEF IInv

\* The invariant holds for ever.
LEMMA Invariance == Spec => []IInv
BY Initially, Inductive, PTL DEF Spec

\* Every variable of the server keeps its type: in particular a task only
\* waits for the channel of a session, and a session only has sockets.
THEOREM TypeCorrect == Spec => []TypeOK
BY Invariance, PTL DEF IInv

\* However many clients open and resume at once, an agent is only started for
\* an admitted, allowlisted open, and a session's sockets, attached or in its
\* channel, are its own first one and ones that showed all its credentials.
THEOREM Ownership == Spec => []SessionsAreOwned
<1>1. IInv => SessionsAreOwned
  BY DEF IInv, SessionsAreOwned, RequestInv, OpeningInv, SocketsInv, Opening
<1> QED BY <1>1, Invariance, PTL

\* The map of resumable sessions never outlives them: run_tunnel removes an
\* entry after run_agent_session, however that ended.
THEOREM EntriesBacked == Spec => []EntriesHaveSessions
<1>1. IInv => EntriesHaveSessions
  BY DEF IInv, EntriesHaveSessions, EntryInv
<1> QED BY <1>1, Invariance, PTL

\* resume_tunnel refuses right credentials only after the session's loop.
THEOREM RefusalMeansOver == Spec => RejectedOnlyWhenOver
<1> DEFINE A(c, s) ==
      /\ AsksResume(c) /\ handler'[c] = "done"
      /\ Entitled(c, s) /\ serverUp'
      => handler[s] \in {"cleanup", "farewell", "returned", "done"}
<1>1. ASSUME IInv, [Next]_vars, NEW c \in Sockets, NEW s \in Sockets,
             AsksResume(c), handler'[c] = "done", Entitled(c, s), serverUp'
      PROVE  handler[s] \in {"cleanup", "farewell", "returned", "done"}
  <2> USE <1>1 DEF IInv
  <2>1. ~Matches(c, registry[s])
    BY RefusedResume DEF Entitled
  <2>2. handler[s] \in Begun
    BY RegistryAssumption DEF Entitled, AnnouncedInv, NoClaim
  <2>3. handler[s] \notin {"attach", "loop", "blocked"}
    <3>1. SUFFICES ASSUME registry[s] = EntryOf(s) PROVE FALSE
      BY DEF EntryInv
    <3>2. registry[s].token = s /\ registry[s] # NoEntry
      BY <3>1, RegistryAssumption DEF EntryOf, NoEntry
    <3>3. /\ registry[s].agent = request[c].agent
          /\ registry[s].workspace = request[c].workspace
      BY <3>1 DEF EntryOf, Entitled
    <3>4. request[c].env = "none" /\ claim[c].token = s
      BY DEF Entitled
    <3> QED BY <2>1, <3>2, <3>3, <3>4 DEF Matches
  <2> QED BY <2>2, <2>3 DEF Begun, InSession
<1>2. IInv /\ [Next]_vars => [\A c, s \in Sockets : A(c, s)]_vars
  BY <1>1
<1> QED BY <1>2, Invariance, PTL DEF Spec, RejectedOnlyWhenOver

\* Once a session accepted a shutdown, no resume passes the checks and none
\* that passed them before is attached.
THEOREM ShutdownRevokes == Spec => ShutdownRevokesResume
<1>1. ASSUME IInv, [Next]_vars, NEW s \in Sockets,
             category[s] = "client_shutdown"
      PROVE  transport'[s] \in {transport[s], NoSocket}
  BY <1>1, EndedTransport DEF EndedKeeps, IInv, ShutdownInv
<1>2. ASSUME IInv, [Next]_vars, NEW s \in Sockets, NEW c \in Sockets,
             category[s] = "client_shutdown", AsksResume(c), claim[c].id = s
      PROVE  handler'[c] # "enqueue"
  <2>1. registry[s] = NoEntry
    BY <1>2 DEF IInv, ShutdownInv
  <2>2. EnqueueStays
    BY <1>2, EnqueueKeeps DEF IInv
  <2> QED BY <1>2, <2>1, <2>2 DEF EnqueueStays, AsksResume, Matches
<1> DEFINE B(s) ==
      category[s] = "client_shutdown" =>
        /\ transport'[s] \in {transport[s], NoSocket}
        /\ \A c \in Sockets :
             AsksResume(c) /\ claim[c].id = s => handler'[c] # "enqueue"
<1>3. IInv /\ [Next]_vars => [\A s \in Sockets : B(s)]_vars
  BY <1>1, <1>2
<1> QED BY <1>3, Invariance, PTL DEF Spec, ShutdownRevokesResume
-----------------------------------------------------------------------------
(* A session of the server is a session of SessionLife.                    *)

\* A session has an agent, its sockets while it runs, and a deadline only
\* while it is detached.
LifeInv ==
  \A s \in Sockets :
    /\ handler[s] \in {"none", "reading", "enqueue"} => agent[s] = "none"
    /\ handler[s] \in Opening \union {"returned"} => agent[s] # "none"
    /\ agent[s] = "none" \/ handler[s] \in {"register", "attach"} => ~deadline[s]
    /\ transport[s] # NoSocket => handler[s] \in InSession \ {"attach"}
    /\ handler[s] = "farewell" => agent[s] = "gone"
    /\ handler[s] = "blocked" => transport[s] # NoSocket
    /\ deadline[s] /\ handler[s] \in {"loop", "blocked"} => transport[s] = NoSocket

\* A step leaves every session with its agent, its sockets and its deadline.
LEMMA LifePreserved ==
  ASSUME TypeOK, DialledInv, LifeInv, [Next]_vars
  PROVE  LifeInv'
<1> USE RegistryAssumption
    DEF TypeOK, Station, InSession, HoldsSocket, LifeInv, Opening, DialledInv
<1>1. ASSUME NEW c \in Sockets, NEW r \in Offer, NEW k \in Claims, Dial(c, r, k)
      PROVE  LifeInv'
  BY <1>1 DEF Dial
<1>2. ASSUME NEW d \in Sockets, ReceiveReady(d)
      PROVE  LifeInv'
  BY <1>2 DEF ReceiveReady
<1>3. ASSUME NEW d \in Sockets, SeeEnd(d)
      PROVE  LifeInv'
  BY <1>3 DEF SeeEnd, Close
<1>4. ASSUME NEW d \in Sockets, GiveUp(d)
      PROVE  LifeInv'
  BY <1>4 DEF GiveUp, Close
<1>5. ASSUME NEW d \in Sockets, ReadOpenFails(d)
      PROVE  LifeInv'
  BY <1>5 DEF ReadOpenFails, Finish
<1>6. ASSUME NEW d \in Sockets, PrepareAgent(d)
      PROVE  LifeInv'
  BY <1>6 DEF PrepareAgent, AsksNew
<1>7. ASSUME NEW d \in Sockets, PrepareAgentFails(d)
      PROVE  LifeInv'
  BY <1>7 DEF PrepareAgentFails, AsksNew, Finish
<1>8. ASSUME NEW d \in Sockets, Register(d)
      PROVE  LifeInv'
  BY <1>8 DEF Register
<1>9. ASSUME NEW d \in Sockets, CheckResume(d)
      PROVE  LifeInv'
  BY <1>9 DEF CheckResume, AsksResume, Finish
<1>10. ASSUME NEW d \in Sockets, Enqueue(d)
      PROVE  LifeInv'
  BY <1>10 DEF Enqueue
<1>11. ASSUME NEW d \in Sockets, EnqueueFails(d)
      PROVE  LifeInv'
  BY <1>11 DEF EnqueueFails, Finish
<1>12. ASSUME NEW d \in Sockets, AttachFirst(d)
      PROVE  LifeInv'
  BY <1>12 DEF AttachFirst
<1>13. ASSUME NEW d \in Sockets, AttachFirstFails(d)
      PROVE  LifeInv'
  BY <1>13 DEF AttachFirstFails, Return, Orphan
<1>14. ASSUME NEW d \in Sockets, AttachResumed(d)
      PROVE  LifeInv'
  BY <1>14 DEF AttachResumed
<1>15. ASSUME NEW d \in Sockets, Detach(d)
      PROVE  LifeInv'
  BY <1>15 DEF Detach
<1>16. ASSUME NEW d \in Sockets, Block(d)
      PROVE  LifeInv'
  BY <1>16 DEF Block, Attached
<1>17. ASSUME NEW d \in Sockets, Unblock(d)
      PROVE  LifeInv'
  BY <1>17 DEF Unblock
<1>18. ASSUME NEW d \in Sockets, ClientShutdown(d)
      PROVE  LifeInv'
  BY <1>18 DEF ClientShutdown, Ends
<1>19. ASSUME NEW d \in Sockets, ProtocolEnd(d)
      PROVE  LifeInv'
  BY <1>19 DEF ProtocolEnd, Ends
<1>20. ASSUME NEW d \in Sockets, OutputFails(d)
      PROVE  LifeInv'
  BY <1>20 DEF OutputFails, Ends
<1>21. ASSUME NEW d \in Sockets, ExitReported(d)
      PROVE  LifeInv'
  BY <1>21 DEF ExitReported, Ends
<1>22. ASSUME NEW d \in Sockets, DeadlineExpires(d)
      PROVE  LifeInv'
  BY <1>22 DEF DeadlineExpires, Ends
<1>23. ASSUME NEW d \in Sockets, ServerShutdown(d)
      PROVE  LifeInv'
  BY <1>23 DEF ServerShutdown, Ends
<1>24. ASSUME NEW d \in Sockets, Reap(d) \/ Farewell(d)
      PROVE  LifeInv'
  BY <1>24 DEF Reap, Farewell, Return
<1>25. ASSUME NEW d \in Sockets, SessionFails(d)
      PROVE  LifeInv'
  BY <1>25 DEF SessionFails, Return, Orphan
<1>26. ASSUME NEW d \in Sockets, Unregister(d)
      PROVE  LifeInv'
  BY <1>26 DEF Unregister
<1>27. ASSUME NEW d \in Sockets, AgentExits(d)
      PROVE  LifeInv'
  BY <1>27 DEF AgentExits
<1>28. CASE Cancel \/ UNCHANGED vars
  BY <1>28 DEF Cancel, vars
<1>29. CASE ServeReturns
  BY <1>29 DEF ServeReturns
<1> QED BY <1>1, <1>2, <1>3, <1>4, <1>5, <1>6, <1>7, <1>8, <1>9, <1>10,
    <1>11, <1>12, <1>13, <1>14, <1>15, <1>16, <1>17, <1>18, <1>19, <1>20,
    <1>21, <1>22, <1>23, <1>24, <1>25, <1>26, <1>27, <1>28, <1>29,
    NextCases

\* What SessionLife sees of a session.
SameLife(s) ==
  /\ agent'[s] = agent[s]
  /\ \/ handler'[s] = handler[s]
     \/ agent[s] = "none"
     \/ {handler[s], handler'[s]} \subseteq {"loop", "blocked"}
  /\ transport'[s] = transport[s] /\ queue'[s] = queue[s]
  /\ registry'[s] = registry[s]
  /\ deadline'[s] = deadline[s] /\ category'[s] = category[s]
  /\ shutdown' = shutdown

\* A step that changes nothing of it is a stutter of the session's life.
LEMMA Stutters ==
  ASSUME NEW s \in Sockets, SameLife(s)
  PROVE  UNCHANGED Life(s)!vars
<1>1. Phase(s)' = Phase(s)
  BY DEF SameLife, Phase
<1> QED BY <1>1 DEF SameLife, Life!vars

\* The phases of a session, by the station of its task.
PhaseInv ==
  \A s \in Sockets :
    /\ handler[s] \in {"none", "reading", "enqueue"} => Phase(s) = "none"
    /\ handler[s] \in {"register", "attach"} => Phase(s) = "starting"
    /\ handler[s] \in {"loop", "blocked"} => Phase(s) = "open"
    /\ handler[s] \in {"cleanup", "farewell"} => Phase(s) = "ending"
    /\ handler[s] = "returned" => Phase(s) = "over"
    /\ handler[s] = "done" /\ agent[s] # "none" => Phase(s) = "over"

LEMMA Phases == TypeOK /\ LifeInv => PhaseInv
BY DEF Phase, PhaseInv, LifeInv, TypeOK, Station, InSession, HoldsSocket, Opening

\* Sockets only wait for a session that runs.
LEMMA QueueRuns ==
  ASSUME TypeOK, SocketsInv, NEW s \in Sockets, queue[s] # << >>
  PROVE  handler[s] \in InSession
<1>1. queue[s] \in Seq(Sockets)
  BY DEF TypeOK
<1>2. Head(queue[s]) \in Sockets /\ Head(queue[s]) \in Range(queue[s])
  BY <1>1, RangeTail
<1> QED BY <1>2 DEF SocketsInv

\* What the steps of a session rely on.
SessionInv ==
  /\ TypeOK /\ DialledInv /\ EnqueueInv /\ EntryInv /\ SocketsInv
  /\ LifeInv /\ PhaseInv

\* An agent is started for a session that is not there yet.
LEMMA StartStep ==
  ASSUME SessionInv, SessionInv', NEW s \in Sockets, PrepareAgent(s)
  PROVE  Life(s)!Start
<1> USE DEF SessionInv
<1>1. /\ handler[s] = "reading" /\ handler'[s] = "register"
      /\ agent'[s] = "running"
      /\ UNCHANGED <<transport, queue, registry, deadline, category, shutdown>>
  BY DEF PrepareAgent, AsksNew, TypeOK
<1>2. Phase(s) = "none" /\ Phase(s)' = "starting"
  BY <1>1 DEF PhaseInv
<1>3. ~deadline[s]
  BY <1>1 DEF LifeInv
<1> QED BY <1>1, <1>2, <1>3 DEF Life!Start

\* The session becomes resumable.
LEMMA PublishStep ==
  ASSUME SessionInv, SessionInv', NEW s \in Sockets, Register(s)
  PROVE  Life(s)!Publish
<1> USE DEF SessionInv
<1>1. /\ handler[s] = "register" /\ handler'[s] = "attach"
      /\ registry'[s] = EntryOf(s)
      /\ UNCHANGED <<transport, queue, agent, deadline, category, shutdown>>
  BY DEF Register, TypeOK, EntryOf
<1>2. Phase(s) = "starting" /\ Phase(s)' = "starting"
  BY <1>1 DEF PhaseInv
<1>3. registry[s] = NoEntry
  BY <1>1 DEF EntryInv, InSession
<1>4. registry'[s] # NoEntry
  BY <1>1, RegistryAssumption DEF EntryOf, NoEntry
<1> QED BY <1>1, <1>2, <1>3, <1>4 DEF Life!Publish

\* The first client is attached.
LEMMA OpenStep ==
  ASSUME SessionInv, SessionInv', NEW s \in Sockets, AttachFirst(s)
  PROVE  Life(s)!Open
<1> USE DEF SessionInv
<1>1. /\ handler[s] = "attach" /\ handler'[s] = "loop"
      /\ transport'[s] = s
      /\ UNCHANGED <<registry, queue, agent, deadline, category, shutdown>>
  BY DEF AttachFirst, TypeOK
<1>2. Phase(s) = "starting" /\ Phase(s)' = "open"
  BY <1>1 DEF PhaseInv
<1>3. registry[s] = EntryOf(s)
  BY <1>1 DEF EntryInv
<1>4. registry[s] # NoEntry
  BY <1>3, RegistryAssumption DEF EntryOf, NoEntry
<1> QED BY <1>1, <1>2, <1>4 DEF Life!Open

\* A resumed socket is queued at the session it claims, and at no other.
LEMMA ArriveStep ==
  ASSUME SessionInv, SessionInv', NEW s \in Sockets, NEW d \in Sockets,
         Enqueue(d)
  PROVE  [Life(s)!Next]_(Life(s)!vars)
<1> USE DEF SessionInv
<1>1. claim[d].id \in Sockets
  BY RegistryAssumption DEF Enqueue, EnqueueInv, TypeOK, Claim, NoClaim
<1>2. CASE claim[d].id = s
  <2>1. /\ handler[s] \in InSession /\ handler'[s] = handler[s]
        /\ queue'[s] = Append(queue[s], d)
        /\ UNCHANGED <<transport, registry, agent, deadline, category, shutdown>>
    BY <1>2 DEF Enqueue, TypeOK, InSession
  <2>2. /\ Phase(s)' = Phase(s) /\ Phase(s) \in {"starting", "open", "ending"}
        /\ Phase(s) = "starting" => handler[s] = "attach"
    BY <2>1 DEF PhaseInv, InSession
  <2>3. EntryOf(s) # NoEntry
    BY RegistryAssumption DEF EntryOf, NoEntry
  <2>4. Phase(s) = "starting" => registry[s] # NoEntry
    BY <2>2, <2>3 DEF EntryInv
  <2>5. Life(s)!Arrive
    BY <2>1, <2>2, <2>4 DEF Life!Arrive
  <2> QED BY <2>5 DEF Life!Next
<1>3. CASE claim[d].id # s
  <2>1. queue'[s] = queue[s]
    BY <1>1, <1>3 DEF Enqueue, TypeOK
  <2>2. handler'[s] = handler[s] \/ agent[s] = "none"
    BY DEF Enqueue, LifeInv, TypeOK
  <2>3. SameLife(s)
    BY <2>1, <2>2 DEF Enqueue, SameLife
  <2> QED BY <2>3, Stutters
<1> QED BY <1>2, <1>3

\* The socket that waited longest is attached, or fails to be.
LEMMA AttachStep ==
  ASSUME SessionInv, SessionInv', NEW s \in Sockets, AttachResumed(s)
  PROVE  Life(s)!Attach \/ Life(s)!AttachFails
<1> USE DEF SessionInv
<1>1. /\ handler[s] = "loop" /\ handler'[s] = "loop"
      /\ queue[s] # << >> /\ queue'[s] = Tail(queue[s])
      /\ \/ transport'[s] = Head(queue[s]) /\ ~deadline'[s]
         \/ transport'[s] = NoSocket /\ deadline' = deadline
      /\ UNCHANGED <<registry, agent, category, shutdown>>
  BY DEF AttachResumed, TypeOK
<1>2. Phase(s) = "open" /\ Phase(s)' = "open"
  BY <1>1 DEF PhaseInv
<1> QED BY <1>1, <1>2 DEF Life!Attach, Life!AttachFails

\* The session loses its socket.
LEMMA DetachStep ==
  ASSUME SessionInv, SessionInv', NEW s \in Sockets, Detach(s)
  PROVE  Life(s)!Detach
<1> USE DEF SessionInv
<1>1. /\ handler[s] = "loop" /\ handler'[s] = "loop"
      /\ transport[s] # NoSocket /\ transport'[s] = NoSocket
      /\ deadline'[s] = TRUE
      /\ UNCHANGED <<queue, registry, agent, category, shutdown>>
  BY DEF Detach, TypeOK
<1>2. Phase(s) = "open" /\ Phase(s)' = "open"
  BY <1>1 DEF PhaseInv
<1> QED BY <1>1, <1>2 DEF Life!Detach

\* The loop of the session ends.
LEMMA EndStep ==
  ASSUME SessionInv, SessionInv', NEW s \in Sockets,
         NEW why \in {"client_shutdown", "protocol", "child_exit",
                      "reconnect_timeout", "server_shutdown",
                      "agent_stdout_line"},
         Ends(s, why), Life(s)!MayEnd(why),
         registry'[s] = IF why = "client_shutdown" THEN NoEntry ELSE registry[s]
  PROVE  Life(s)!End
<1> USE DEF SessionInv
<1>1. /\ handler[s] = "loop" /\ handler'[s] = "cleanup"
      /\ category'[s] = why
      /\ UNCHANGED <<transport, queue, agent, deadline, shutdown>>
  BY DEF Ends, TypeOK
<1>2. Phase(s) = "open" /\ Phase(s)' = "ending"
  BY <1>1 DEF PhaseInv
<1> QED BY <1>1, <1>2 DEF Life!End

\* It ends with somebody attached, after a grace period without, with the
\* server, or because of the agent's output.
LEMMA Endings ==
  ASSUME SessionInv, SessionInv', NEW s \in Sockets,
         \/ ClientShutdown(s) \/ ProtocolEnd(s) \/ OutputFails(s)
         \/ ExitReported(s) \/ DeadlineExpires(s) \/ ServerShutdown(s)
  PROVE  Life(s)!End
<1> USE DEF SessionInv
<1>1. CASE ClientShutdown(s)
  <2>1. registry'[s] = NoEntry /\ Ends(s, "client_shutdown")
    BY <1>1 DEF ClientShutdown, TypeOK
  <2>2. Life(s)!MayEnd("client_shutdown")
    BY <1>1 DEF ClientShutdown, Attached, Life!MayEnd
  <2> QED BY <2>1, <2>2, EndStep
<1>2. CASE ProtocolEnd(s)
  <2>1. Life(s)!MayEnd("protocol")
    BY <1>2 DEF ProtocolEnd, Attached, Life!MayEnd
  <2> QED BY <1>2, <2>1, EndStep DEF ProtocolEnd
<1>3. CASE OutputFails(s)
  <2>1. Life(s)!MayEnd("agent_stdout_line")
    BY DEF Life!MayEnd
  <2> QED BY <1>3, <2>1, EndStep DEF OutputFails
<1>4. CASE ExitReported(s)
  <2>1. Life(s)!MayEnd("child_exit")
    BY <1>4 DEF ExitReported, Life!MayEnd
  <2> QED BY <1>4, <2>1, EndStep DEF ExitReported
<1>5. CASE DeadlineExpires(s)
  <2>1. deadline[s] /\ handler[s] = "loop"
    BY <1>5 DEF DeadlineExpires, Ends
  <2>2. transport[s] = NoSocket /\ Phase(s) = "open"
    BY <2>1 DEF LifeInv, PhaseInv
  <2>3. Life(s)!MayEnd("reconnect_timeout")
    BY <2>1, <2>2 DEF Life!MayEnd
  <2> QED BY <1>5, <2>3, EndStep DEF DeadlineExpires
<1>6. CASE ServerShutdown(s)
  <2>1. Life(s)!MayEnd("server_shutdown")
    BY <1>6 DEF ServerShutdown, Life!MayEnd
  <2> QED BY <1>6, <2>1, EndStep DEF ServerShutdown
<1> QED BY <1>1, <1>2, <1>3, <1>4, <1>5, <1>6

\* The agent is reaped: it ends now, if it has not ended before.
LEMMA ReapStep ==
  ASSUME SessionInv, SessionInv', NEW s \in Sockets, Reap(s)
  PROVE  Life(s)!AgentEnds \/ UNCHANGED Life(s)!vars
<1> USE DEF SessionInv
<1>1. /\ handler[s] = "cleanup" /\ handler'[s] = "farewell"
      /\ agent'[s] = "gone"
      /\ UNCHANGED <<transport, queue, registry, deadline, category, shutdown>>
  BY DEF Reap, TypeOK
<1>2. agent[s] \in {"running", "orphaned", "gone"}
  BY <1>1 DEF LifeInv, Opening, InSession, TypeOK
<1>3. Phase(s) = "ending" /\ Phase(s)' = "ending"
  BY <1>1 DEF PhaseInv
<1>4. CASE agent[s] = "gone"
  BY <1>1, <1>3, <1>4 DEF Life!vars
<1>5. CASE agent[s] # "gone"
  BY <1>1, <1>2, <1>3, <1>5 DEF Life!AgentEnds
<1> QED BY <1>4, <1>5

\* The session is over; its agent was reaped before.
LEMMA ReturnStep ==
  ASSUME SessionInv, SessionInv', NEW s \in Sockets, Farewell(s)
  PROVE  Life(s)!Return
<1> USE DEF SessionInv
<1>1. /\ handler[s] = "farewell" /\ handler'[s] = "returned"
      /\ transport'[s] = NoSocket
      /\ queue'[s] = << >> /\ ~deadline'[s]
      /\ UNCHANGED <<registry, agent, shutdown>>
  BY DEF Farewell, Return, TypeOK
<1>2. agent'[s] = "gone"
  BY <1>1 DEF LifeInv
<1>3. Phase(s) = "ending" /\ Phase(s)' = "over"
  BY <1>1 DEF PhaseInv
<1> QED BY <1>1, <1>2, <1>3 DEF Life!Return, Life!Leaves

\* An error ends the session and leaves the agent as it is.
LEMMA AbandonStep ==
  ASSUME SessionInv, SessionInv', NEW s \in Sockets, AttachFirstFails(s) \/ SessionFails(s)
  PROVE  Life(s)!Abandon
<1> USE DEF SessionInv
<1>1. /\ handler[s] \in {"attach", "loop", "blocked", "cleanup"}
      /\ handler[s] \in {"loop", "blocked"} => transport[s] # NoSocket
    BY DEF AttachFirstFails, SessionFails, Attached, LifeInv
<1>2. /\ handler'[s] = "returned"
      /\ agent'[s] = IF agent[s] = "running" THEN "orphaned" ELSE agent[s]
      /\ transport'[s] = NoSocket /\ queue'[s] = << >> /\ ~deadline'[s]
      /\ UNCHANGED <<registry, shutdown>>
  BY DEF AttachFirstFails, SessionFails, Return, Orphan, TypeOK
<1>3. /\ Phase(s) \in {"starting", "open", "ending"} /\ Phase(s)' = "over"
      /\ Phase(s) = "open" => transport[s] # NoSocket
  BY <1>1, <1>2 DEF PhaseInv
<1> QED BY <1>2, <1>3 DEF Life!Abandon, Life!Leaves

\* The entry of a session that is over is removed.
LEMMA WithdrawStep ==
  ASSUME SessionInv, SessionInv', NEW s \in Sockets, Unregister(s)
  PROVE  Life(s)!Withdraw
<1> USE DEF SessionInv
<1>1. /\ handler[s] = "returned" /\ handler'[s] = "done"
      /\ registry'[s] = NoEntry
      /\ UNCHANGED <<transport, queue, agent, deadline, category, shutdown>>
  BY DEF Unregister, TypeOK
<1>2. agent[s] # "none"
  BY <1>1 DEF LifeInv
<1>3. Phase(s) = "over" /\ Phase(s)' = "over"
  BY <1>1, <1>2 DEF PhaseInv
<1> QED BY <1>1, <1>3 DEF Life!Withdraw

\* The agent exits.
LEMMA AgentStep ==
  ASSUME SessionInv, SessionInv', NEW s \in Sockets, AgentExits(s)
  PROVE  Life(s)!AgentEnds
<1> USE DEF SessionInv
<1>1. /\ agent[s] \in {"running", "orphaned"} /\ agent'[s] = "gone"
      /\ UNCHANGED <<handler, transport, queue, registry, deadline, category,
                     shutdown>>
  BY DEF AgentExits, TypeOK
<1>2. Phase(s)' = Phase(s)
  BY <1>1 DEF Phase
<1> QED BY <1>1, <1>2 DEF Life!AgentEnds

\* The server is told to stop, or its process ends.
LEMMA ServerStep ==
  ASSUME SessionInv, SessionInv', NEW s \in Sockets, Cancel \/ ServeReturns
  PROVE  [Life(s)!Next]_(Life(s)!vars)
<1> USE DEF SessionInv
<1>1. CASE Cancel
  <2>1. Life(s)!Cancel
    BY <1>1 DEF Cancel, Life!Cancel, Phase
  <2> QED BY <2>1 DEF Life!Next
<1>2. CASE ServeReturns
  <2>1. /\ handler'[s] \in {"none", "done"}
        /\ registry'[s] = NoEntry /\ queue'[s] = << >>
        /\ transport'[s] = NoSocket
        /\ shutdown /\ UNCHANGED <<agent, deadline, category, shutdown>>
    BY <1>2 DEF ServeReturns, TypeOK
  <2>2. CASE agent[s] = "none"
    <3>1. handler[s] \notin InSession \union {"returned"}
      BY <2>2 DEF LifeInv, Opening
    <3>2. registry[s] = NoEntry /\ queue[s] = << >> /\ transport[s] = NoSocket
      BY <3>1, QueueRuns DEF EntryInv, LifeInv, InSession
    <3>3. SameLife(s)
      BY <2>1, <2>2, <3>2 DEF SameLife
    <3> QED BY <3>3, Stutters
  <2>3. CASE agent[s] # "none"
    <3>1. handler'[s] = "done"
      BY <1>2, <2>3 DEF ServeReturns, LifeInv, TypeOK
    <3>2. Phase(s)' = "over"
      BY <2>1, <2>3, <3>1 DEF PhaseInv
    <3>3. Phase(s) # "none"
      BY <2>3 DEF Phase
    <3>4. Life(s)!ProcessEnds
      BY <2>1, <3>2, <3>3 DEF Life!ProcessEnds, Life!Leaves
    <3> QED BY <3>4 DEF Life!Next
  <2> QED BY <2>2, <2>3
<1> QED BY <1>1, <1>2

\* The handshake before the session, the clients, and a wait for the agent's
\* stdin are none of its life.
LEMMA QuietSteps ==
  ASSUME SessionInv, NEW s \in Sockets, NEW d \in Sockets,
         \/ ReceiveReady(d) \/ SeeEnd(d) \/ GiveUp(d)
         \/ ReadOpenFails(d) \/ PrepareAgentFails(d)
         \/ CheckResume(d) \/ EnqueueFails(d)
         \/ Block(d) \/ Unblock(d)
  PROVE  SameLife(s)
<1> USE DEF SessionInv, LifeInv, SameLife, TypeOK
<1>1. CASE ReceiveReady(d)
  BY <1>1 DEF ReceiveReady
<1>2. CASE SeeEnd(d)
  BY <1>2 DEF SeeEnd, Close
<1>3. CASE GiveUp(d)
  BY <1>3 DEF GiveUp, Close
<1>4. CASE ReadOpenFails(d)
  BY <1>4 DEF ReadOpenFails, Finish
<1>5. CASE PrepareAgentFails(d)
  BY <1>5 DEF PrepareAgentFails, AsksNew, Finish
<1>6. CASE CheckResume(d)
  BY <1>6 DEF CheckResume, AsksResume, Finish
<1>7. CASE EnqueueFails(d)
  BY <1>7 DEF EnqueueFails, Finish
<1>8. CASE Block(d)
  BY <1>8 DEF Block
<1>9. CASE Unblock(d)
  BY <1>9 DEF Unblock
<1> QED BY <1>1, <1>2, <1>3, <1>4, <1>5, <1>6, <1>7, <1>8, <1>9

\* Nor is what the task of another socket does for its own session.
LEMMA OtherSteps ==
  ASSUME SessionInv, NEW s \in Sockets, NEW d \in Sockets, d # s,
         \/ PrepareAgent(d) \/ Register(d) \/ AttachFirst(d) \/ AttachFirstFails(d)
         \/ AttachResumed(d) \/ Detach(d)
         \/ ClientShutdown(d) \/ ProtocolEnd(d) \/ OutputFails(d)
         \/ ExitReported(d) \/ DeadlineExpires(d) \/ ServerShutdown(d)
         \/ Reap(d) \/ Farewell(d) \/ SessionFails(d) \/ Unregister(d) \/ AgentExits(d)
  PROVE  SameLife(s)
<1> USE DEF SessionInv, SameLife, TypeOK
<1>1. CASE PrepareAgent(d)
  BY <1>1 DEF PrepareAgent, AsksNew
<1>2. CASE Register(d)
  BY <1>2 DEF Register
<1>3. CASE AttachFirst(d)
  BY <1>3 DEF AttachFirst
<1>4. CASE AttachFirstFails(d)
  BY <1>4 DEF AttachFirstFails, Return, Orphan
<1>5. CASE AttachResumed(d)
  BY <1>5 DEF AttachResumed
<1>6. CASE Detach(d)
  BY <1>6 DEF Detach
<1>7. CASE ClientShutdown(d)
  BY <1>7 DEF ClientShutdown, Ends
<1>8. CASE ProtocolEnd(d)
  BY <1>8 DEF ProtocolEnd, Ends
<1>9. CASE OutputFails(d)
  BY <1>9 DEF OutputFails, Ends
<1>10. CASE ExitReported(d)
  BY <1>10 DEF ExitReported, Ends
<1>11. CASE DeadlineExpires(d)
  BY <1>11 DEF DeadlineExpires, Ends
<1>12. CASE ServerShutdown(d)
  BY <1>12 DEF ServerShutdown, Ends
<1>13. CASE Reap(d)
  BY <1>13 DEF Reap
<1>17. CASE Farewell(d)
  BY <1>17 DEF Farewell, Return
<1>14. CASE SessionFails(d)
  BY <1>14 DEF SessionFails, Return, Orphan
<1>15. CASE Unregister(d)
  BY <1>15 DEF Unregister
<1>16. CASE AgentExits(d)
  BY <1>16 DEF AgentExits
<1> QED BY <1>1, <1>2, <1>3, <1>4, <1>5, <1>6, <1>7, <1>8, <1>9, <1>10,
    <1>11, <1>12, <1>13, <1>14, <1>15, <1>16, <1>17

\* Every step of the server is a step of every session's life, or none.
LEMMA LifeStep ==
  ASSUME SessionInv, SessionInv', [Next]_vars, NEW s \in Sockets
  PROVE  [Life(s)!Next]_(Life(s)!vars)
<1>1. ASSUME SameLife(s) PROVE [Life(s)!Next]_(Life(s)!vars)
  BY <1>1, Stutters
<1>2. ASSUME NEW c \in Sockets, NEW r \in Offer, NEW k \in Claims, Dial(c, r, k)
      PROVE  SameLife(s)
  BY <1>2 DEF Dial, SameLife, SessionInv, LifeInv, DialledInv, TypeOK
<1>3. ASSUME NEW d \in Sockets, Enqueue(d)
      PROVE  [Life(s)!Next]_(Life(s)!vars)
  BY <1>3, ArriveStep
<1>4. ASSUME NEW d \in Sockets,
             \/ PrepareAgent(d) \/ Register(d) \/ AttachFirst(d) \/ AttachFirstFails(d)
             \/ AttachResumed(d) \/ Detach(d)
             \/ ClientShutdown(d) \/ ProtocolEnd(d) \/ OutputFails(d)
             \/ ExitReported(d) \/ DeadlineExpires(d) \/ ServerShutdown(d)
             \/ Reap(d) \/ Farewell(d) \/ SessionFails(d) \/ Unregister(d) \/ AgentExits(d)
      PROVE  [Life(s)!Next]_(Life(s)!vars)
  <2>1. CASE d # s
    BY <1>1, <1>4, <2>1, OtherSteps
  <2>2. CASE d = s
    <3>1. \/ Life(s)!Start \/ Life(s)!Publish \/ Life(s)!Open
          \/ Life(s)!Attach \/ Life(s)!AttachFails \/ Life(s)!Detach
          \/ Life(s)!End \/ Life(s)!Return \/ Life(s)!Abandon
          \/ Life(s)!Withdraw \/ Life(s)!AgentEnds \/ UNCHANGED Life(s)!vars
      BY <1>4, <2>2, StartStep, PublishStep, OpenStep, AttachStep, DetachStep,
         Endings, ReapStep, ReturnStep, AbandonStep, WithdrawStep, AgentStep
    <3> QED BY <3>1 DEF Life!Next
  <2> QED BY <2>1, <2>2
<1>5. CASE Cancel \/ ServeReturns
  BY <1>5, ServerStep
<1>6. CASE UNCHANGED vars
  BY <1>1, <1>6 DEF vars, SameLife
<1>7. ASSUME NEW d \in Sockets,
             \/ ReceiveReady(d) \/ SeeEnd(d) \/ GiveUp(d)
             \/ ReadOpenFails(d) \/ PrepareAgentFails(d)
             \/ CheckResume(d) \/ EnqueueFails(d)
             \/ Block(d) \/ Unblock(d)
      PROVE  [Life(s)!Next]_(Life(s)!vars)
  BY <1>1, <1>7, QuietSteps
<1>8. TypeOK
  BY DEF SessionInv
<1> QED BY <1>1, <1>2, <1>3, <1>4, <1>5, <1>6, <1>7, <1>8, NextCases

\* The invariant of the sessions holds for ever.
LEMMA SessionInvariance == Spec => []SessionInv
<1>1. Init => LifeInv
  BY DEF Init, LifeInv, Opening, InSession
<1>2. IInv /\ LifeInv /\ [Next]_vars => LifeInv'
  BY LifePreserved DEF IInv
<1>3. IInv /\ LifeInv => SessionInv
  BY Phases DEF IInv, SessionInv
<1> QED BY <1>1, <1>2, <1>3, Invariance, PTL DEF Spec

\* However many sockets there are, each session of the server is started,
\* attached, replaced, detached, ended and reaped as SessionLife allows.
THEOREM SessionsAreLives == Spec => SessionsLive
<1>1. Init => \A s \in Sockets : Life(s)!Init
  BY DEF Init, Life!Init, Phase
<1>2. SessionInv /\ SessionInv' /\ [Next]_vars =>
        [\A s \in Sockets : [Life(s)!Next]_(Life(s)!vars)]_vars
  BY LifeStep
<1> QED BY <1>1, <1>2, SessionInvariance, PTL DEF Spec, SessionsLive
=============================================================================
