------------------------------ MODULE Registry ------------------------------
(***************************************************************************)
(* The server as a whole: the HTTP front end that admits WebSockets, one   *)
(* run_tunnel task per admitted socket, the map of resumable sessions they *)
(* share, and the end of the server process (src/src/server.rs, main.rs).  *)
(*                                                                         *)
(* A session is named by the socket whose run_tunnel opened it: the        *)
(* connection id and the resume token are fresh UUIDs, so the socket       *)
(* stands for both.  What a session does with its lines is the subject of  *)
(* ServerSession; here its loop is reduced to what other tasks can see.    *)
(***************************************************************************)
EXTENDS Naturals, Sequences, FiniteSets, SequencesExt

CONSTANTS
  Sockets,             \* the WebSockets ever dialled
  AgentIds,            \* agent ids a client may name
  WorkspaceIds,        \* workspace ids a client may name
  Allowed,             \* <<agent, workspace>>: agents[a].workspaces has w
  Offers,              \* what clients put into a request, the claim apart
  AttachmentCapacity,  \* capacity of a session's attachments channel
  MaxOpens,            \* bound: requests for a new session
  NoSocket,            \* Option::None where a socket is expected
  ForgedToken          \* a resume token no session has

(***************************************************************************)
(* A request: the Authorization and Origin headers of the upgrade and the  *)
(* open envelope.  opens is FALSE when no valid envelope comes in time; env *)
(* is "none", or whether every selected variable is in the agent's         *)
(* client_env_allowlist.                                                   *)
(***************************************************************************)
NoClaim == [id |-> NoSocket, token |-> NoSocket]

Claim == [id : Sockets, token : Sockets \union {ForgedToken}]

Offer == [bearer : BOOLEAN, origin : {"absent", "listed", "foreign"},
          opens : BOOLEAN, agent : AgentIds, workspace : WorkspaceIds,
          env : {"none", "listed", "unlisted"}]

ASSUME RegistryAssumption ==
  /\ NoSocket \notin Sockets
  /\ ForgedToken \notin Sockets \union {NoSocket}
  /\ Allowed \subseteq AgentIds \X WorkspaceIds
  /\ Offers \subseteq Offer
  /\ AttachmentCapacity \in Nat \ {0}
  /\ MaxOpens \in Nat

VARIABLES
  client,     \* the dialling side of a socket
  request,    \* what the server was sent on it
  claim,      \* the resume field of its open envelope
  handler,    \* where its run_tunnel task is
  registry,   \* sessions: connection id -> ResumeEntry
  queue,      \* attachments of a session
  transport,  \* the socket a session is attached to
  answer,     \* the session named by a ready envelope not yet received
  agent,      \* the agent process of a session
  deadline,   \* detached_deadline of a session is set
  category,   \* end_category of a session
  known,      \* sessions whose ready envelope reached a client
  shutdown,   \* the server's CancellationToken
  serverUp    \* the server process exists

vars == <<client, request, claim, handler, registry, queue, transport,
          answer, agent, deadline, category, known, shutdown,
          serverUp>>

NoEntry == [token |-> NoSocket, agent |-> NoSocket, workspace |-> NoSocket]

Entry == [token : Sockets, agent : AgentIds, workspace : WorkspaceIds]

NoRequest == [bearer |-> FALSE]

(***************************************************************************)
(* Stations of run_tunnel.  Its session states are inside                  *)
(* run_agent_session: "attach" before the loop, "loop" at the select!,     *)
(* "blocked" in a branch that waits for the agent or for a transport task, *)
(* "cleanup" after the loop and "farewell" when the agent was reaped.      *)
(***************************************************************************)
InSession == {"attach", "loop", "blocked", "cleanup", "farewell"}

HoldsSocket == {"reading", "register", "attach", "enqueue"}

Station == InSession \union HoldsSocket \union {"none", "returned", "done"}

TypeOK ==
  /\ client \in [Sockets -> {"idle", "waiting", "ready", "closed"}]
  /\ request \in [Sockets -> Offer \union {NoRequest}]
  /\ claim \in [Sockets -> Claim \union {NoClaim}]
  /\ handler \in [Sockets -> Station]
  /\ registry \in [Sockets -> Entry \union {NoEntry}]
  /\ queue \in [Sockets -> Seq(Sockets)]
  /\ transport \in [Sockets -> Sockets \union {NoSocket}]
  /\ answer \in [Sockets -> Sockets \union {NoSocket}]
  /\ agent \in [Sockets -> {"none", "running", "orphaned", "gone"}]
  /\ deadline \in [Sockets -> BOOLEAN]
  /\ category \in [Sockets -> {"none", "child_exit", "client_shutdown",
                     "server_shutdown", "reconnect_timeout", "protocol",
                     "agent_stdout_line"}]
  /\ known \subseteq Sockets
  /\ shutdown \in BOOLEAN
  /\ serverUp \in BOOLEAN

Init ==
  /\ client = [c \in Sockets |-> "idle"]
  /\ request = [c \in Sockets |-> NoRequest]
  /\ claim = [c \in Sockets |-> NoClaim]
  /\ handler = [c \in Sockets |-> "none"]
  /\ registry = [s \in Sockets |-> NoEntry]
  /\ queue = [s \in Sockets |-> <<>>]
  /\ transport = [s \in Sockets |-> NoSocket]
  /\ answer = [c \in Sockets |-> NoSocket]
  /\ agent = [s \in Sockets |-> "none"]
  /\ deadline = [s \in Sockets |-> FALSE]
  /\ category = [s \in Sockets |-> "none"]
  /\ known = {}
  /\ shutdown = FALSE
  /\ serverUp = TRUE

\* The server still owns the socket: run_tunnel, a channel or a transport
\* task has it. Otherwise it was dropped, and its peer sees the end.
Held(c) ==
  \/ handler[c] \in HoldsSocket
  \/ \E s \in Sockets : transport[s] = c \/ c \in Range(queue[s])

-----------------------------------------------------------------------------
(* The front end, and the client's side of the handshake. *)

Authorized(r) == r.bearer

OriginAllowed(r) == r.origin \in {"absent", "listed"}

\* A client asks for an upgrade: a connector with the credentials it holds,
\* another client with whatever it likes short of a session's secret.
Dial(c, r, k) ==
  /\ serverUp /\ ~shutdown
  /\ client[c] = "idle"
  /\ \/ /\ ~(Authorized(r) /\ OriginAllowed(r))
        /\ client' = [client EXCEPT ![c] = "closed"]
        /\ UNCHANGED <<request, claim, handler>>
     \/ /\ Authorized(r) /\ OriginAllowed(r)
        /\ client' = [client EXCEPT ![c] = "waiting"]
        /\ request' = [request EXCEPT ![c] = r]
        /\ claim' = [claim EXCEPT ![c] = k]
        /\ handler' = [handler EXCEPT ![c] = "reading"]
  /\ UNCHANGED <<registry, queue, transport, answer, agent, deadline,
                 category, known, shutdown, serverUp>>

\* Mutant: the first message is taken for ready, whatever it is.
MutantReceiveReady(c) ==
  /\ client[c] = "waiting"
  /\ client' = [client EXCEPT ![c] =
                  IF claim[c] = NoClaim \/ claim[c].id = answer[c]
                  THEN "ready" ELSE "closed"]
  /\ known' = known \union {answer[c]}
  /\ answer' = [answer EXCEPT ![c] = NoSocket]
  /\ UNCHANGED <<request, claim, handler, registry, queue, transport,
                 agent, deadline, category, shutdown, serverUp>>

\* ready arrives: the client has credentials, and a resuming connector
\* insists that they are the ones it sent.
ReceiveReady(c) ==
  /\ client[c] = "waiting" /\ answer[c] # NoSocket
  /\ client' = [client EXCEPT ![c] =
                  IF claim[c] = NoClaim \/ claim[c].id = answer[c]
                  THEN "ready" ELSE "closed"]
  /\ known' = known \union {answer[c]}
  /\ answer' = [answer EXCEPT ![c] = NoSocket]
  /\ UNCHANGED <<request, claim, handler, registry, queue, transport,
                 agent, deadline, category, shutdown, serverUp>>

\* The client is done with the socket, and with what it has not read.
Close(c) ==
  /\ client' = [client EXCEPT ![c] = "closed"]
  /\ answer' = [answer EXCEPT ![c] = NoSocket]

\* The server dropped the socket, with or without an error envelope.
SeeEnd(c) ==
  /\ ~Held(c)
  /\ \/ client[c] = "ready"
     \/ client[c] = "waiting" /\ answer[c] = NoSocket
  /\ Close(c)
  /\ UNCHANGED <<request, claim, handler, registry, queue, transport,
                 agent, deadline, category, known, shutdown, serverUp>>

\* connection_timeout, a network failure or the end of the client.
GiveUp(c) ==
  /\ client[c] \in {"waiting", "ready"}
  /\ Close(c)
  /\ UNCHANGED <<request, claim, handler, registry, queue, transport,
                 agent, deadline, category, known, shutdown, serverUp>>

-----------------------------------------------------------------------------
(* run_tunnel up to the session. *)

\* fail_socket and the other returns without a session: whether an error
\* envelope precedes the end or not, the client's attempt has failed.
Finish(c) ==
  /\ handler' = [handler EXCEPT ![c] = "done"]
  /\ request' = [request EXCEPT ![c] = NoRequest]
  /\ claim' = [claim EXCEPT ![c] = NoClaim]

\* No open envelope in time, the peer is gone, or it sent something else.
\* Otherwise the envelope is looked at at once: by prepare_agent, or by
\* resume_tunnel when it claims a session.
ReadOpenFails(c) ==
  /\ handler[c] = "reading" /\ ~request[c].opens
  /\ Finish(c)
  /\ UNCHANGED <<client, registry, queue, transport, answer, agent, deadline,
                 category, known, shutdown, serverUp>>

AsksNew(c) ==
  handler[c] = "reading" /\ request[c].opens /\ claim[c] = NoClaim

AsksResume(c) ==
  handler[c] = "reading" /\ request[c].opens /\ claim[c] # NoClaim

\* prepare_agent looks the ids up and, when the environment is acceptable,
\* starts the process; the executable itself may fail to start.
PrepareAgent(c) ==
  /\ AsksNew(c)
  /\ <<request[c].agent, request[c].workspace>> \in Allowed
  /\ request[c].env # "unlisted"
  /\ agent' = [agent EXCEPT ![c] = "running"]
  /\ handler' = [handler EXCEPT ![c] = "register"]
  /\ UNCHANGED <<client, request, claim, registry, queue, transport, answer,
                 deadline, category, known, shutdown, serverUp>>

PrepareAgentFails(c) ==
  /\ AsksNew(c)
  /\ Finish(c)
  /\ UNCHANGED <<client, registry, queue, transport, answer,
                 agent, deadline, category, known, shutdown, serverUp>>

\* The session becomes resumable before its client hears of it.
Register(c) ==
  /\ handler[c] = "register"
  /\ registry' = [registry EXCEPT ![c] =
                    [token |-> c, agent |-> request[c].agent,
                     workspace |-> request[c].workspace]]
  /\ handler' = [handler EXCEPT ![c] = "attach"]
  /\ UNCHANGED <<client, request, claim, queue, transport, answer,
                 agent, deadline, category, known, shutdown, serverUp>>

\* Mutant: the session id alone is enough.
MutantMatches(c, e) ==
  /\ request[c].env = "none"
  /\ e # NoEntry
  /\ e.agent = request[c].agent
  /\ e.workspace = request[c].workspace

\* The checks of resume_tunnel, on a copy of the entry.
Matches(c, e) ==
  /\ request[c].env = "none"
  /\ e # NoEntry
  /\ e.agent = request[c].agent
  /\ e.workspace = request[c].workspace
  /\ e.token = claim[c].token

CheckResume(c) ==
  /\ AsksResume(c)
  /\ \/ /\ Matches(c, registry[claim[c].id])
        /\ handler' = [handler EXCEPT ![c] = "enqueue"]
        /\ UNCHANGED <<request, claim>>
     \/ /\ ~Matches(c, registry[claim[c].id])
        /\ Finish(c)
  /\ UNCHANGED <<client, registry, queue, transport, answer,
                 agent, deadline, category, known, shutdown, serverUp>>

\* attachments.send: the receiver lives as long as run_agent_session.
Enqueue(c) ==
  LET s == claim[c].id IN
  /\ handler[c] = "enqueue"
  /\ handler[s] \in InSession
  /\ Len(queue[s]) < AttachmentCapacity
  /\ queue' = [queue EXCEPT ![s] = Append(@, c)]
  /\ handler' = [handler EXCEPT ![c] = "done"]
  /\ UNCHANGED <<client, request, claim, registry, transport, answer,
                 agent, deadline, category, known, shutdown, serverUp>>

\* Mutant: nothing limits the wait for a full channel.
MutantEnqueueFails(c) ==
  LET s == claim[c].id IN
  /\ handler[c] = "enqueue"
  /\ handler[s] \notin InSession
  /\ Finish(c)
  /\ UNCHANGED <<client, registry, queue, transport, answer,
                 agent, deadline, category, known, shutdown,
                 serverUp>>

\* The channel is closed, or stays full for connection_timeout: the socket
\* is dropped without an error envelope.
EnqueueFails(c) ==
  LET s == claim[c].id IN
  /\ handler[c] = "enqueue"
  /\ handler[s] \notin InSession \/ Len(queue[s]) >= AttachmentCapacity
  /\ Finish(c)
  /\ UNCHANGED <<client, registry, queue, transport, answer,
                 agent, deadline, category, known, shutdown,
                 serverUp>>

-----------------------------------------------------------------------------
(* run_agent_session, as the rest of the server sees it. *)

\* attach_transport hands ready to the transport task, which writes it; a
\* client that is gone will not read it.
Ready(s, c) ==
  answer' = [answer EXCEPT ![c] = IF client[c] = "closed" THEN @ ELSE s]

AttachFirst(s) ==
  /\ handler[s] = "attach"
  /\ transport' = [transport EXCEPT ![s] = s]
  /\ Ready(s, s)
  /\ handler' = [handler EXCEPT ![s] = "loop"]
  /\ UNCHANGED <<client, request, claim, registry, queue, agent, deadline,
                 category, known, shutdown, serverUp>>

\* The function returns: its locals are gone, the receiver of the channel
\* with the sockets in it, and the transport.
Return(s) ==
  /\ handler' = [handler EXCEPT ![s] = "returned"]
  /\ transport' = [transport EXCEPT ![s] = NoSocket]
  /\ queue' = [queue EXCEPT ![s] = <<>>]
  /\ category' = [category EXCEPT ![s] = "none"]
  /\ deadline' = [deadline EXCEPT ![s] = FALSE]

\* Left through `?`: kill_on_drop(false), so that the agent keeps running.
Orphan(s) ==
  agent' = [agent EXCEPT ![s] = IF @ = "running" THEN "orphaned" ELSE @]

\* The peer is gone, the transport task has noticed, and sending ready
\* fails: `?` at the first attach_transport.
AttachFirstFails(s) ==
  /\ handler[s] = "attach" /\ client[s] = "closed"
  /\ Return(s)
  /\ Orphan(s)
  /\ UNCHANGED <<client, request, claim, registry, answer,
                 known, shutdown, serverUp>>

\* Mutant: the grace period of the lost transport goes on.
MutantAttachResumed(s) ==
  /\ handler[s] = "loop" /\ queue[s] # <<>>
  /\ queue' = [queue EXCEPT ![s] = Tail(@)]
  /\ transport' = [transport EXCEPT ![s] = Head(queue[s])]
  /\ Ready(s, Head(queue[s]))
  /\ UNCHANGED <<client, request, claim, handler, registry, agent, category,
                 known, shutdown, serverUp, deadline>>

\* The next attachment replaces the transport, whatever state that is in;
\* preparing the new one may fail, and the deadline is then left as it is.
AttachResumed(s) ==
  /\ handler[s] = "loop" /\ queue[s] # <<>>
  /\ queue' = [queue EXCEPT ![s] = Tail(@)]
  /\ \/ /\ transport' = [transport EXCEPT ![s] = Head(queue[s])]
        /\ Ready(s, Head(queue[s]))
        /\ deadline' = [deadline EXCEPT ![s] = FALSE]
     \/ /\ transport' = [transport EXCEPT ![s] = NoSocket]
        /\ UNCHANGED <<answer, deadline>>
  /\ UNCHANGED <<client, request, claim, handler, registry, agent, category,
                 known, shutdown, serverUp>>

\* Mutant: a detached session is forgotten.
MutantDetach(s) ==
  /\ handler[s] = "loop" /\ transport[s] # NoSocket
  /\ transport' = [transport EXCEPT ![s] = NoSocket]
  /\ deadline' = [deadline EXCEPT ![s] = TRUE]
  /\ registry' = [registry EXCEPT ![s] = NoEntry]
  /\ UNCHANGED <<client, request, claim, handler, queue, answer,
                 agent, category, known, shutdown, serverUp>>

\* The socket ended, or nothing valid came over it for keepalive_timeout.
Detach(s) ==
  /\ handler[s] = "loop" /\ transport[s] # NoSocket
  /\ transport' = [transport EXCEPT ![s] = NoSocket]
  /\ deadline' = [deadline EXCEPT ![s] = TRUE]
  /\ UNCHANGED <<client, request, claim, handler, registry, queue, answer,
                 agent, category, known, shutdown, serverUp>>

\* Envelopes are handled from whatever socket is attached: its peer need not
\* have received ready to send them.
Attached(s) == transport[s] # NoSocket

\* A select! branch handles an envelope and waits: in a write to the stdin of an
\* agent that does not read, or for room in the command channel of the
\* transport task, to acknowledge the line.  Until then the session looks at
\* nothing else.
Block(s) ==
  /\ handler[s] = "loop" /\ Attached(s)
  /\ handler' = [handler EXCEPT ![s] = "blocked"]
  /\ UNCHANGED <<client, request, claim, registry, queue, transport, answer,
                 agent, deadline, category, known, shutdown,
                 serverUp>>

Unblock(s) ==
  /\ handler[s] = "blocked"
  /\ handler' = [handler EXCEPT ![s] = "loop"]
  /\ UNCHANGED <<client, request, claim, registry, queue, transport, answer,
                 agent, deadline, category, known, shutdown,
                 serverUp>>

AgentExits(s) ==
  /\ agent[s] \in {"running", "orphaned"}
  /\ agent' = [agent EXCEPT ![s] = "gone"]
  /\ UNCHANGED <<client, request, claim, handler, registry, queue, transport,
                 answer, deadline, category, known, shutdown,
                 serverUp>>

\* The loop ends for a reason that leads to the cleanup after it. Only a
\* client's shutdown withdraws the entry beforehand.
Ends(s, why) ==
  /\ handler[s] = "loop"
  /\ category' = [category EXCEPT ![s] = why]
  /\ handler' = [handler EXCEPT ![s] = "cleanup"]
  /\ UNCHANGED <<client, request, claim, queue, transport, answer,
                 agent, deadline, known, shutdown, serverUp>>

\* Mutant: the entry stays until the agent is reaped.
MutantClientShutdown(s) ==
  /\ Attached(s)
  /\ UNCHANGED registry
  /\ Ends(s, "client_shutdown")

ClientShutdown(s) ==
  /\ Attached(s)
  /\ registry' = [registry EXCEPT ![s] = NoEntry]
  /\ Ends(s, "client_shutdown")

ProtocolEnd(s) ==
  /\ Attached(s)
  /\ Ends(s, "protocol")
  /\ UNCHANGED registry

\* The agent writes a line over the limit: nobody has to be attached.
OutputFails(s) ==
  /\ Ends(s, "agent_stdout_line")
  /\ UNCHANGED registry

ExitReported(s) ==
  /\ agent[s] = "gone" /\ transport[s] # NoSocket
  /\ Ends(s, "child_exit")
  /\ UNCHANGED registry

\* Mutant: a deadline is only set for a client that was ready.
MutantDeadlineExpires(s) ==
  /\ deadline[s] /\ s \in known
  /\ Ends(s, "reconnect_timeout")
  /\ UNCHANGED registry

DeadlineExpires(s) ==
  /\ deadline[s]
  /\ Ends(s, "reconnect_timeout")
  /\ UNCHANGED registry

ServerShutdown(s) ==
  /\ shutdown
  /\ Ends(s, "server_shutdown")
  /\ UNCHANGED registry

\* terminate_and_reap or graceful_shutdown_and_reap.
Reap(s) ==
  /\ handler[s] = "cleanup"
  /\ agent' = [agent EXCEPT ![s] = "gone"]
  /\ handler' = [handler EXCEPT ![s] = "farewell"]
  /\ UNCHANGED <<client, request, claim, registry, queue, transport, answer,
                 deadline, category, known, shutdown, serverUp>>

\* Who is attached gets the reason in an error envelope, unless it knows it or
\* is about to: the one of the last commands that is enqueued without timeout.
SendsError(s) ==
  /\ handler[s] = "farewell" /\ Attached(s)
  /\ category[s] \notin {"client_shutdown", "child_exit", "reconnect_timeout"}

\* The last envelopes, and the return of run_agent_session.
Farewell(s) ==
  /\ handler[s] = "farewell"
  /\ Return(s)
  /\ UNCHANGED <<client, request, claim, registry, answer, agent,
                 known, shutdown, serverUp>>

\* `?` after the first attachment: a line the policy cannot handle, a failed
\* write to an agent that is gone or has closed its stdin, a failure to reap.
SessionFails(s) ==
  /\ \/ handler[s] = "loop" /\ Attached(s)
     \/ handler[s] \in {"blocked", "cleanup"}
  /\ Return(s)
  /\ Orphan(s)
  /\ UNCHANGED <<client, request, claim, registry, answer,
                 known, shutdown, serverUp>>

\* Mutant: the entry is only removed after a clean end.
MutantUnregister(s) ==
  /\ handler[s] = "returned"
  /\ registry' = [registry EXCEPT ![s] =
                    IF agent[s] = "orphaned" THEN @ ELSE NoEntry]
  /\ handler' = [handler EXCEPT ![s] = "done"]
  /\ UNCHANGED <<client, request, claim, queue, transport, answer,
                 agent, deadline, category, known, shutdown, serverUp>>

\* The rest of run_tunnel, whatever run_agent_session returned.
Unregister(s) ==
  /\ handler[s] = "returned"
  /\ registry' = [registry EXCEPT ![s] = NoEntry]
  /\ handler' = [handler EXCEPT ![s] = "done"]
  /\ UNCHANGED <<client, request, claim, queue, transport, answer,
                 agent, deadline, category, known, shutdown, serverUp>>

-----------------------------------------------------------------------------
(* The end of the server. *)

\* SIGTERM or Ctrl-C.
Cancel ==
  /\ serverUp /\ ~shutdown
  /\ shutdown' = TRUE
  /\ UNCHANGED <<client, request, claim, handler, registry, queue, transport,
                 answer, agent, deadline, category, known,
                 serverUp>>

\* serve returns once the listener is closed and the HTTP connections are
\* done: an upgraded one is done since its upgrade. main returns, and the
\* runtime drops every task where it stands; no agent is killed on drop.
ServeReturns ==
  /\ serverUp /\ shutdown
  /\ serverUp' = FALSE
  /\ handler' = [c \in Sockets |->
                   IF handler[c] = "none" THEN "none" ELSE "done"]
  /\ registry' = [s \in Sockets |-> NoEntry]
  /\ queue' = [s \in Sockets |-> <<>>]
  /\ transport' = [s \in Sockets |-> NoSocket]
  /\ UNCHANGED <<client, request, claim, answer, agent, deadline,
                 category, known, shutdown>>

-----------------------------------------------------------------------------
\* The handshake of one socket, as far as the server drives it.
Handshake(c) ==
  \/ ReadOpenFails(c)
  \/ PrepareAgent(c) \/ PrepareAgentFails(c) \/ Register(c)
  \/ CheckResume(c) \/ Enqueue(c) \/ EnqueueFails(c)
  \/ AttachFirst(c) \/ AttachFirstFails(c)

Finishing(s) == Reap(s) \/ Farewell(s) \/ SessionFails(s) \/ Unregister(s)

Looping(s) ==
  \/ AttachResumed(s) \/ Detach(s) \/ Block(s) \/ Unblock(s)
  \/ ClientShutdown(s) \/ ProtocolEnd(s) \/ OutputFails(s) \/ ExitReported(s)
  \/ DeadlineExpires(s) \/ ServerShutdown(s)

\* Sockets that have, had or may get a session of their own.
Opened ==
  {c \in Sockets : \/ agent[c] # "none"
                   \/ handler[c] = "reading" /\ claim[c] = NoClaim}

\* Ids and tokens cannot be guessed: a claim shows ones that were handed
\* out, or a wrong token.
Claims ==
  {k \in {NoClaim} : Cardinality(Opened) < MaxOpens}
    \union [id : known, token : known \union {ForgedToken}]

\* Sockets are dialled one after the other, so any idle one will do.
Idle == {c \in Sockets : client[c] = "idle"}

Next ==
  \/ /\ Idle # {}
     /\ \E r \in Offers, k \in Claims : Dial(CHOOSE c \in Idle : TRUE, r, k)
  \/ \E c \in Sockets :
       \/ ReceiveReady(c) \/ SeeEnd(c) \/ GiveUp(c)
       \/ Handshake(c) \/ Looping(c) \/ Finishing(c) \/ AgentExits(c)
  \/ Cancel \/ ServeReturns

(***************************************************************************)
(* Fairness: the runtime runs the task of a socket whenever it can take a  *)
(* step or its timeout has come: a handshake proceeds or fails, a session  *)
(* takes an attachment, notices a transport that is closed, or honours its *)
(* deadline, and an ended one reaps its agent and returns.  It is strong,  *)
(* as a session may leave its select! for a write any number of times in   *)
(* between: select! draws among the branches that are ready, and a closed  *)
(* socket has only finitely many envelopes left.  Nothing is assumed of    *)
(* clients, of signals, of an agent, which may never read, or of a         *)
(* transport task with a full channel.                                     *)
(***************************************************************************)
Task(c) ==
  \/ Handshake(c)
  \/ AttachResumed(c)
  \/ Detach(c) /\ client[transport[c]] = "closed"
  \/ DeadlineExpires(c)
  \/ handler[c] \in {"cleanup", "returned"} /\ Finishing(c)
  \/ Farewell(c) /\ ~SendsError(c)

Fairness == \A c \in Sockets : SF_vars(Task(c))

Spec == Init /\ [][Next]_vars /\ Fairness

-----------------------------------------------------------------------------
(* Properties. *)

Admitted(c) == Authorized(request[c]) /\ OriginAllowed(request[c])

\* c presented the credentials of session s, all of them.
Entitled(c, s) ==
  /\ claim[c] = [id |-> s, token |-> s]
  /\ request[c].agent = request[s].agent
  /\ request[c].workspace = request[s].workspace
  /\ request[c].env = "none"

(***************************************************************************)
(* Several requests are in the handshake at once, and a socket is handed   *)
(* from its task to a channel to a session.  An agent is only ever started *)
(* for an admitted, allowlisted open that claims no session, and a session *)
(* only ever has, or is about to get, its own first socket or an admitted  *)
(* one that showed its id and token, agent and workspace, and no           *)
(* environment (docs/protocol.md, "Resumed handshake").                    *)
(***************************************************************************)
SessionsAreOwned ==
  \A s \in Sockets :
    /\ handler[s] \in InSession \union {"register"} =>
         /\ Admitted(s) /\ claim[s] = NoClaim
         /\ <<request[s].agent, request[s].workspace>> \in Allowed
    /\ \A c \in Sockets :
         transport[s] = c \/ c \in Range(queue[s]) =>
           Admitted(c) /\ (c = s \/ Entitled(c, s))

(***************************************************************************)
(* run_tunnel removes its entry after run_agent_session, however that      *)
(* ended: an entry always belongs to a session that is running or about to *)
(* be removed, never to one that is over.                                  *)
(***************************************************************************)
EntriesHaveSessions ==
  \A s \in Sockets :
    registry[s] # NoEntry => handler[s] \in InSession \union {"returned"}

(***************************************************************************)
(* A client that shows the credentials it was given, with the agent and    *)
(* workspace it opened, is refused only when its session is over: between  *)
(* ready and the end of the loop, detached or not, the entry is there.     *)
(***************************************************************************)
RejectedOnlyWhenOver ==
  [][\A c, s \in Sockets :
       /\ AsksResume(c) /\ handler'[c] = "done"
       /\ Entitled(c, s) /\ serverUp'
       => handler[s] \in {"cleanup", "farewell", "returned", "done"}]_vars

(***************************************************************************)
(* docs/protocol.md: "The server removes the resume capability before it   *)
(* starts process cleanup."  No resume passes the checks once the session  *)
(* accepted a shutdown; one that passed before is in the channel or on its *)
(* way, and is never attached.                                             *)
(***************************************************************************)
ShutdownRevokesResume ==
  [][\A s \in Sockets :
       category[s] = "client_shutdown" =>
         /\ transport'[s] \in {transport[s], NoSocket}
         /\ \A c \in Sockets :
              AsksResume(c) /\ claim[c].id = s
                => handler'[c] # "enqueue"]_vars

(***************************************************************************)
(* A signal to the server: docs/protocol.md says that "server shutdown     *)
(* terminates and reaps the complete remote process group".                *)
(***************************************************************************)
ServerShutdownReaps ==
  ~serverUp => \A s \in Sockets : agent[s] \notin {"running", "orphaned"}

\* The session waits for somebody who may never move: for its agent to read,
\* or for a transport task to take a command.
Hung(s) == handler[s] = "blocked" \/ SendsError(s)

(***************************************************************************)
(* No socket waits for ever between its upgrade and a session, not even    *)
(* for a session that leaves its channel full, and none is left behind in  *)
(* the channel of a session that ends.  Only the sockets already in the    *)
(* channel of a session that hangs from then on have to wait.              *)
(***************************************************************************)
Waits(c) ==
  \/ handler[c] \in HoldsSocket
  \/ \E s \in Sockets : c \in Range(queue[s])

SocketsSettle ==
  \A c \in Sockets :
    \/ []<>~Waits(c)
    \/ \E s \in Sockets : <>[](c \in Range(queue[s]) /\ Hung(s))

(***************************************************************************)
(* The client gave up before its ready arrived, so that nobody will ever   *)
(* resume: the session notices, and the grace period ends it, unless it    *)
(* hangs on what that client had sent.  The agent is reaped with it, but   *)
(* for the early returns (see ServerShutdownReaps).                        *)
(***************************************************************************)
Unclaimed(s) ==
  handler[s] \in InSession /\ client[s] = "closed" /\ s \notin known

UnclaimedSessionsEnd ==
  \A s \in Sockets : []<>~Unclaimed(s) \/ <>[]Hung(s)

(***************************************************************************)
(* The life of session s: a socket without an agent has none.              *)
(***************************************************************************)
Phase(s) ==
  CASE agent[s] = "none" -> "none"
    [] agent[s] # "none" /\ handler[s] \in {"register", "attach"} -> "starting"
    [] agent[s] # "none" /\ handler[s] \in {"loop", "blocked"} -> "open"
    [] agent[s] # "none" /\ handler[s] \in {"cleanup", "farewell"} -> "ending"
    [] OTHER -> "over"

Life(s) == INSTANCE SessionLife
  WITH Nobody <- NoSocket, phase <- Phase(s), holder <- transport[s],
       waiting <- queue[s], resumable <- registry[s] # NoEntry, agent <- agent[s],
       deadline <- deadline[s] /\ Phase(s) # "over",
       reason <- (IF Phase(s) = "ending" THEN category[s] ELSE "none"),
       cancelled <- shutdown

SessionsLive ==
  /\ \A s \in Sockets : Life(s)!Init
  /\ [][\A s \in Sockets : [Life(s)!Next]_(Life(s)!vars)]_vars
=============================================================================
