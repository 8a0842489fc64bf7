# A TLA+ model of acp-tunnel

acp-tunnel connects a local ACP client, through its stdin and stdout, to an ACP
agent that a remote server starts. Lines of JSON travel in WebSocket envelopes;
a transport that breaks is replaced by another one, and the two programs replay
what may have been lost. This directory models that system, checks it with TLC
on small instances and proves the central results with TLAPS.

    tlc -config MCTunnelResume.cfg MCTunnel     # a run; see "Runs"
    tlapm TunnelProofs.tla                      # the proofs of a module

## The system

| Component | State | Operations | Talks to |
| --- | --- | --- | --- |
| Connector (`client.rs`) | `pending` (unacknowledged lines), `next_client_sequence`, `expected_server_sequence`, one socket, a shutdown signal | read stdin, receive an envelope, keepalive timeout, redial and replay, graceful shutdown | the local client through pipes, the server through one socket at a time |
| Server session (`run_agent_session`) | `pending`, `next_server_sequence`, `expected_client_sequence`, the current transport, `detached_deadline`, `child_status`, `end_category` | one `select!` over child exit, resumed sockets, shutdown token, keepalive, transport events, agent stdout, stderr and the grace deadline; then reaping and farewell | transport tasks through two bounded channels, the agent through its pipes |
| Transport task (`spawn_transport`) | the socket, a command queue | write a command, read a message and hand it over as an event | its session and its socket |
| Registry and handshake (`run_tunnel`, `read_open`, `prepare_agent`, `resume_tunnel`) | `state.sessions` and one task per socket | open, resume, register and unregister | sessions, through a queue of two resumed sockets |
| Agent process (`process.rs`) | the child, its process group, its stdin | spawn, wait, graceful shutdown, terminate, clean up the group | the kernel |
| ACP policy (`policy.rs`) and environments (`process.rs`) | none: configuration | rewrite `cwd`, replace or reject MCP servers, merge environments | the session, once for every client line |
| Envelopes (`protocol.rs`) | none | encode, decode | both programs |
| HTTP front end (`server.rs`, `auth.rs`) | the shutdown token | admit or refuse an upgrade, serve until cancelled | the handshake tasks |
| Configuration, credentials | none | read and validate a file | |
| Setup (`setup.rs`) | the configuration and token files | create and replace them | the file system, other runs of itself |
| Command line (`main.rs`) | none | parse options, register signals, return | |

What is hard here:

- Two programs and at least four tasks interleave, and three kinds of queue
  between them are bounded. Every wait is an `await` at which others move on.
- A transport may break anywhere, silently on one side, and take an unknown
  suffix of both directions with it. The old and the new transport of a session
  overlap, and events of the old one are still queued when the new one is there.
- Exactly-once delivery rests on four counters and two replay buffers that are
  advanced by different programs.
- A session ends in many ways (stdin EOF, signal, server shutdown, agent exit,
  grace period, protocol violation, exhausted buffer, errors passed on by `?`),
  each in any phase of a resume, and each has to take the agent along.
- The agent is a process group of which the server knows the leader only.
- A socket is owned in turn by its handshake task, by the channel of a session
  and by a transport task; the handshake looks at a copy of the session's entry.
  The server process may end under all of them.
- `init` checks for files some calls before it creates them, and moves the old
  configuration away before the new one has its name.

Correct means: lines arrive exactly once and in order, whatever transports
were lost; nothing unacknowledged is forgotten; neither peer ever sees the other
break the protocol; buffers keep their limits; lines get through eventually; a
session never outlives its purpose and never leaves an agent behind; signals
come in the promised order; the policy changes what it says it changes; a
session belongs to the client that opened it and can be resumed by that client
as long as it lasts; and no configuration or token is lost or replaced unasked.

## Modules

| Module | Models |
| --- | --- |
| `Network` | Sockets as two FIFO streams of envelopes with a bounded buffer. External, from how both programs use it. |
| `ReplayBuffer` | The tests and updates the two replay buffers share. |
| `Connector` | `connect_with_shutdown`, `reconnect_and_replay`, `graceful_shutdown`. |
| `ServerSession` | `run_agent_session`, its transport tasks, the arrival of resumed sockets, the agent as the session sees it. |
| `Tunnel` | The composition of the two, fairness, and the properties of the tunnel. |
| `ReliablePipe` | The abstract specification of one direction. |
| `AgentProcess` | The agent's process group and the two ways of ending it. |
| `Policy` | `AcpPolicy::apply` and the environments of agents and MCP servers. |
| `Registry` | The server as a whole: admission, `run_tunnel` for any number of sockets, the session map, the end of `serve`. |
| `SessionLife` | The abstract specification of one session, which `Registry` and `Tunnel` both implement. |
| `Setup` | Any number of runs of `init` on the same files, with failures and kills. |
| `MCTunnel`, `MCPolicy`, `MCRegistry` | Values of the constants for TLC. |
| `TunnelProofs`, `TunnelRetention`, `TunnelOrder`, `TunnelInput` | Theorems about `Tunnel`, each module on top of the one before. |
| `AgentProcessProofs`, `PolicyProofs`, `RegistryProofs`, `SetupProofs` | Theorems about the other modules. |

**Connector.** `client.pc` is the `await` at which the one task waits; the head
of the module lists them. `clientPending`, `nextClient` and `expectedServer` are
the code's variables; `stdout` is all that was written. `ReadStdin`,
`StartShutdown`, `Receive`, `LoseSocket` and `KeepaliveTimeout` are the branches
of the `select!`. A branch that sends continues at `send` (`WriteOutgoing`),
because the code awaits `socket.send` there and does nothing else meanwhile.
`Dial`, `ReceiveReady`, `AbandonAttempt`, `ReplayFrame`, `FinishReplay`,
`ShutdownWhileDetached` and `GiveUp` are the resume loop; `SendShutdown` and
`AwaitComplete` are `graceful_shutdown_inner`.

**ServerSession.** `session.pc` likewise. The loop's head is `PumpReplay`,
`PumpFindsClosed`, `EnterSelect` and the exit check (`SendExit`,
`ExitConfirmed`, `ExitFails`); the branches of the `select!` are `ChildWait`,
`TakeAttachment` (then `AttachEnqueues`, `AttachSucceeds`, `AttachFails`),
`ServerShutdown`, `KeepaliveExpires`, `SendNoise`, `Wake`, `ReceiveEvent`,
`ReadAgent` and `GraceExpires`. `HandleClientEnvelope` has every early return of
`handle_client_envelope`. After the loop come `ReapAgent` or `ReapFails`,
`SendFarewell` and `EndSession`. `TaskNext(s)` is the transport task of socket
`s`: it writes, blocks in a write, reads, hands over an event or stops.
`AcceptResume` is the tunnel task of a resumed socket.

**AgentProcess.** `reap.pc` is the `await` inside `process.rs`; `proc` the state
of the child and of each helper. Helpers start others, ignore SIGTERM, and die
at any time. `Tunnel` takes the whole of this as the one step `ReapAgent`.

**Policy.** A line is the part of the JSON tree that the policy looks at.
The loops of the code (over the entries of an environment in
`ParseEntries`, over the servers of a request in `ReplaceServers`, over the
variables of an agent in `MergeAgentEnvironment`) are functions of the number of
turns taken. `IsLine`, `IsMcp` and `IsEnv` are the shapes of JSON that they
tell apart. `Tunnel` takes the policy as the constant `Apply`, an arbitrary
function to its three outcomes.

Numbers that a `serde_json::Value` cannot hold (`WideNumber`) are rounded when a
line is read and written again (`Reread`), which `policy_numbers` shows to be
against the documents.

**Registry.** `handler[c]` is the station of `run_tunnel` for socket `c`:
reading the open envelope, registering, in a session, waiting to enqueue a
resumed socket, removing the entry. A session has the name of the socket that
opened it, which stands for its connection id and its token; `registry` is
`state.sessions`. `Dial` is the upgrade with its bearer and origin check,
`PrepareAgent`, `Register`, `CheckResume`, `Enqueue` and their failures are the
handshake. The session is reduced to what other tasks see of it: attaching
(`AttachFirst`, `AttachResumed`), detaching, being stuck while it handles an
envelope, in a write to the agent or on the full command channel of its transport
task (`Block`), the ways to end (`OutputFails`, a line of the agent over the
limit, needs nobody attached), the reaping (`Reap`), the last envelopes and the
return (`Farewell`), and the exits by `?` that leave the agent alone
(`AttachFirstFails`, `SessionFails`). Envelopes are handled from whatever socket
is attached (`Attached`), whether its peer has received `ready` or not. `Cancel`
is a signal;
`ServeReturns` is the end of `serve` and of the runtime with every task in it.
`Registry` and `ServerSession` overlap in that one session; the latter has the
lines and the channels, the former the other sockets and sessions.

**SessionLife.** What the two have in common: the socket that is attached
(`holder`), those that wait for it, whether the session can be resumed, whether
its agent runs, whether the grace period does, and why it ends. It promises the
order: the agent is started before the entry is made and the client is told
after that (`Start`, `Publish`, `Open`); sockets are attached in the order in
which they came, and only an attachment stops the grace period (`Attach`,
`AttachFails`); whoever is lost starts it (`Detach`), except that a transport may
be given up for a successor before that one is attached (`LetGo`); `MayEnd` says
which end takes somebody attached, an exited agent, an expired grace period or a
server shutting down; an ended session has reaped its agent (`Return`) or left it
to nobody by an early return (`Abandon`). `Registry!SessionsLive` says that every
session of the server is one, `Tunnel!SessionLives` that the session of
`ServerSession` is, from the end of the first handshake on (`Opened`). In
`Registry` a session's phase is its agent and the station of its task; in
`Tunnel` the socket that `attach_transport` works on still counts as the first
of those that wait, and the ends that `Registry` does not tell apart are all
`protocol`.

**Setup.** `pc[i]` is the next file-system call of run `i`; `at` is what a name
refers to, `whole` the files written completely. Between any two calls another
run may move, and `Kill` and `Fails` end a run where it stands. A symbolic link
at the configuration path is refused like an existing file and left out.

### What is abstracted

- Lines are model values with two sizes: of the line, which the programs limit,
  and of the message that carries it, which the WebSocket limits (`Size`,
  `EnvelopeSize`). Messages without a line are taken to be within the limit. A
  WebSocket close frame is an end of stream; WebSocket pings and
  pongs, which the libraries answer, are left out (the protocol's own `ping` and
  `pong` envelopes are there).
- `Init` of `Tunnel` follows the first handshake. Binary messages, invalid JSON
  and envelopes without sequence number, which no program of this repository
  sends, are left out.
- The socket stands for the transport generation: the code compares generations
  for equality only, and a socket is attached once.
- `pending_bytes` is the sum of the sizes in the buffer. Sequence numbers are
  unbounded: `checked_add` on 64 bits is out of reach.
- `Writable` events, whose only effect is one more turn of the loop, are the
  action `Wake` and do not occupy the event queue.
- The agent's stdout pipe, its reader task and `agent_rx` are one pipe. The
  agent may close its stdin and run on (`MayCloseStdin`); in `ServerSession` it
  reads what is written otherwise, in `Registry` it may let the session wait.
- Exit codes, error messages, logs and counters are left out. So are group ids
  given to new processes while the server still polls them.
- Deadlines are nondeterministic: a timeout may expire whenever it is running.

## Runs

| Run | Instance | Checks |
| --- | --- | --- |
| `tunnel_resume` | a rewritten and a rejected client line, an agent line, one fault, one resumed socket, channels and streams of one, an agent that may close its stdin, under `LiveSpec` | `TypeOK`, `LinesKeepTheirNumbers`, `ConnectorRetains`, `SessionRetains`, `PeersAgree`, `EndedSessionReaps`, `ShutdownDeliversInput`, `InputIsReliable`, `OutputIsReliable`, `OnlyLostTransportsDetach`, `SessionLives`, `InputGetsThrough`, `OutputGetsThrough`, `SessionFollows` |
| `tunnel_lifecycle` | a rejected line whose answer makes too long a message, a line the policy fails on, two agent lines of which one is too long, replay buffers and queues of one, all ways to end | `PeersAgree`, `ReplayBounded`, `ReportedEndReaps`, `EndedSessionReaps`, `ExitComesLast` |
| `agent_process` | an agent and two helpers, under `FairSpec` | `ReapInOrder`, `SweptGroupIsDoomed`, `EscalationInOrder`, `SweptGroupEnds` |
| `policy` | all six policies, requests with up to two servers and two variables | `EnvironmentByPrecedence`, `RejectsExactlyMalformed`, `EditsAreConfigured`, `AgentEnvironmentByPrecedence` |
| `registry` | three sockets, one session, a good request and every request that is wrong in one field, a channel of one | `TypeOK`, `SessionsAreOwned`, `EntriesHaveSessions`, `RejectedOnlyWhenOver`, `ShutdownRevokesResume`, `SocketsSettle`, `UnclaimedSessionsEnd`, `SessionsLive` |
| `setup` | three runs, each with or without `--force`, with or without old files | `TypeOK`, `ForcedConfigIsWhole`, `SuccessMeansUsable`, `ConfigNeverLost`, `NothingReplacedUnasked` |
| `exit_output`, `detached_deadline`, `reply_deadlock`, `agent_group`, `policy_numbers`, `server_exit` | the smallest instance with the behaviour | one property each, violated: see "Where the code differs" |

`CHECK_DEADLOCK FALSE` everywhere: an idle tunnel waits for lines that need not
come, sockets and sessions run out, and all programs end.

**Bounds.** `MaxSockets = 2` and `MaxFaults = 1` let a transport fail, time out
or be replaced while it still works, at every point, and the second one carry
the replay; a third adds nothing the second does not, as no state is carried
from one resume to the next apart from the buffers and counters. Two client
lines and an agent line give both directions lines that are sent, acknowledged,
replayed and replayed although handled; the rejection makes the two directions
meet in one replay buffer. Channels of one make every send of a task wait; the
proofs cover every other value. `WireCapacity = 1` lets a writer wait for its
reader; `reply_deadlock` has room for its burst instead. `MaxNoise` bounds pings
and stderr lines. A connector that has used up its sockets gives up, as one does
whose reconnect timeout has expired.

With everything at one, all the channels and streams of `tunnel_resume` fill. The
connector in a write of its second line and the transport task in a write of the
agent's line can wait for each other: neither program races its writes against
its reads. A session that is in its `select!` gets them out of it, as its
keepalive times out when nothing is received (`Stalled`); that detach needs no
fault of the network and is not counted as one. A session that waits itself, to
enqueue an acknowledgement or its last envelopes, polls no keepalive, and then
nobody gets out (`Deadlocked`).

In `registry`, one session (`MaxOpens`) and two other sockets suffice for a
second resume while the first is queued and the session is blocked, with
`AttachmentCapacity = 1` for a full channel (the code has two). The sessions of
different sockets share nothing but the map; the proofs cover any number. In
`setup`, three runs are what the one exception of `ConfigNeverLost` takes.
Sizes come in units of the frame limit: one fits, two does not.

`EventCapacity` is a constant of its own: in the code it is at least eight,
which would need eight times the traffic to fill. `MCReplyDeadlock` uses the
real value, eight, to show that the deadlock is not due to a small bound. Of the
lines whose message is too long for its reader, `tunnel_lifecycle` has one, the
answer to a rejected request; the proofs have them in both directions.

**Fairness.** `Tunnel` has two specifications with fairness. `FairSpec`, of
`reply_deadlock`, is weak fairness of the connector's own work, of the session
task, of every transport task and of the task that brings a resumed socket:
tokio polls every task that can run. Expiring deadlines belong to the work that
waits for them. `LiveSpec`, of the liveness properties, assumes less: as long as
any of these can take a step, one of them takes one. Under either nothing is
assumed of lines, signals, exits, shutdown requests, faults or of a connector
that is killed. `AgentProcess!Fairness` is weak fairness of the session task, and
of the kernel in ending a process that has received SIGKILL; a process that
ignores SIGTERM may do so forever.

`Registry!Fairness` is strong fairness of the task of every socket, timeouts
included: a handshake proceeds or fails, a session takes its attachments, notices
a transport that is closed, honours its deadline, and an ended one reaps its agent
and returns. It is strong because a session may leave its `select!` for a write
and come back any number of times: `select!` draws among the branches that are
ready, and a closed socket has only finitely many envelopes left. Nothing
is assumed of a session that waits for its agent to read or for room in a command
channel, in its loop (`Block`) or in its farewell: the error envelope that
reports the end is enqueued without a timeout (`SendsError`), unlike the other
last commands.

**What the properties say that a test hardly reaches.** Each property has a
mutant of the code it is about (`Mutant...`, next to the definition it
replaces): a guard dropped, a duplicate taken for new, a buffer popped too far,
an old transport's event taken for the new one's, a replay that skips a frame,
a sweep that forgets to kill. TLC finds the property violated with the mutant in
place of the definition, under the same configuration.

`OnlyLostTransportsDetach` is about the generation test: with `MutantStale`, a
late `Disconnected` of the old socket drops the new one. `ShutdownDeliversInput`
holds on the first transport only: after a resume `graceful_shutdown` does not
replay, so lines lost with a transport are not repeated before the shutdown. The
liveness properties except the two states in which a session waits for ever:
`Stranded`, which `detached_deadline` shows, and `Deadlocked`, which
`reply_deadlock` shows for a session that acknowledges a line. Both states occur
in `tunnel_resume`; that there is no third is what the run shows. A session can
also get deadlocked when it reports its end, in the untimed send that `Registry`
calls `SendsError`. Within these bounds no end takes that way; with the agent
line over the limit (`a3` for `a1`) one does, and the run passes as well. A line
that is handled or written stays so, so "again and again nothing is missing"
leaves no line behind.

`EndedSessionReaps` excepts the three early returns by `?` that it names
(`EarlyReturns`): a line the policy fails on, a write to the agent's stdin that
fails, and a reaping that does. The second one leaves an agent running that has
closed its stdin, which `tunnel_resume` has; the first and the third are in
`tunnel_lifecycle`.

`ExitComesLast` allows for one thing `send_exit` does: a `oneshot` dropped by a
transport task that stopped counts as a confirmation, so a socket that fails
with `Exit` still queued ends the session, and the status is not there for a
resume.

A line can be within the frame limit and its message beyond it (quotes,
backslashes and the fields around it add to its length). Such a line is
accepted, retained and sent again on every transport, and its reader closes
each of them. `PeersAgree` says that neither program takes that for a violation of
the protocol, in `tunnel_lifecycle` and, for any limits, in its theorem.
`InputGetsThrough` and `OutputGetsThrough` except the lines from that one on
(`Stuck`); `tunnel_resume` has no such line.

`EditsAreConfigured` is about what a configured edit may touch, whatever a number
looks like: a line that none concerns is forwarded as it came, `cwd` and
`mcpServers` change only where they are configured to. That ids and unknown fields
survive an edit is what the documents add to that, and `policy_numbers` what
becomes of it.

`SessionLives` is checked where transports are lost and replaced; the other ends
of a session are checked by `SessionsLive`, and covered by the proofs of both.
The two are about steps that take several others to go wrong: with `MutantDetach`
of `ServerSession` a lost transport starts no grace period, with
`MutantAttachResumed` of `Registry` the one of the lost transport goes on under
its successor and ends a session that is in use.

In `registry`, `RejectedOnlyWhenOver` and `EntriesHaveSessions` pull in opposite
directions: an entry must neither go too early nor stay too long.
`SocketsSettle` says that every socket gets out of the handshake and out of the
channel it is put into, by being attached, refused or dropped, again and again
while others come and go. A session that hangs (`Hung`), in its loop or over
its error envelope, keeps the sockets in its channel for as long as it does; those
that wait to get into the channel time out. `UnclaimedSessionsEnd` is about the client
that gave up before `ready`: what it had sent may make the session hang, otherwise
the grace period ends it. Neither says that the agent is reaped: a session that
ends by `?` leaves its agent, as `server_exit` shows.

In `setup`, `--force` fails when there is no file to replace, a file that was
created and not written is a configuration without agents, and a token that was
created and not written makes every later run fail until somebody removes it:
none of this contradicts the properties. A run without `--force` that starts
while a forced one has the path free can leave its own unfinished file to be
restored by a third; `ConfigNeverLost` excepts that.

## Where the code differs from its documents

Each has a run with one violated property and an entry in `PROJECT.json`.

- `exit_output`: the exit status is taken by `process.wait()` before the rest of
  the agent's output is read, and reading stops then. The connector reports the
  exit without those lines.
- `detached_deadline`: a resumed socket replaces a working transport and then
  cannot be attached. The session has neither transport nor deadline.
- `reply_deadlock`: the session waits to enqueue an acknowledgement for a
  transport task that waits to hand over an event. A server shutdown is not
  noticed.
- `agent_group`: three endings do not clean up the process group: an exit found
  by `terminate_and_reap`, an exit on SIGTERM in a graceful shutdown, and a
  status that was known before the session ended.
- `policy_numbers`: a line that a configured edit concerns is parsed into a
  `serde_json::Value` and written again. An integer of more than 64 bits, in the id
  or in a field the policy does not know, comes back as a float; so does the id in
  the error that answers a rejected request. `README.md` says that ids, `_meta` and
  unknown fields survive the edit, and that the error has the original id.
- `server_exit`: `serve` does not wait for the tasks of upgraded sockets. After a
  signal `main` may return while sessions still terminate their agents, and the
  agents survive (`kill_on_drop(false)`). An error of the first
  `attach_transport`, of `AcpPolicy::apply`, or of a write to an agent that has
  closed its stdin leaves `run_agent_session` before the reaping after its loop,
  with the same result.

## Proofs

All theorems hold for every value of the constants that the named assumptions
admit: `NetworkAssumption`, `ConnectorAssumption` and `SessionAssumption` (limits
are numbers that validation accepts, channels hold at least one item, `Apply` is
total), `EnvelopeAssumption` (the message that carries a line as a JSON string is
no shorter than the line; only `TunnelInput` needs it), `HelpersAssumption` (the
child is no helper), `PolicyAssumption` (policies and lines have their fields,
`IsLine`; environments are sequences; the configured variables of an MCP server
are finitely many), `RegistryAssumption` (the absent socket and the forged token are no
sockets) and `SetupAssumption` (runs and files have names of their own).

**`TunnelProofs`.** `LineNumbers == Spec => []LinesKeepTheirNumbers` and
`TypeCorrect == Spec => []TypeOK`. That the lines come out in order does not
follow from the counters alone: a replayed frame may sit in a dead socket, in a
command queue, in an event or in the hands of a blocked task while the session
moves on. The invariant therefore says of every place that can hold an ACP line
that the line is the one its sequence number names (`ClientEnvelopes`,
`ServerEnvelopes`, `ClientEvents`, `ClientFrames`, `ServerFrames`), and that
each end has written the lines below its expected number (`HandledInv`,
`StdoutInv`). Those sets grow with the counters, and `ClientGrows` and
`ServerGrows` carry everything else along when they do. There is a lemma for
each kind of step: reading a line, receiving one, a task's step, pumping,
attaching, handling an event; `NextInv` puts them together.

The last part of the module proves the refinement:
`InputReliable == Spec => InputIsReliable` and
`OutputReliable == Spec => OutputIsReliable`, both directions implement
`ReliablePipe`. By the invariant, what was written and delivered is a function
of the counters, so it is enough that a step moves at most one counter of a
direction, and by one (`StepCounts`).

**`TunnelRetention`.** What the tunnel keeps while lines are under way:
`ConnectorKeepsLines`, `SessionKeepsLines`, `ReplayLimits`, `EndedReaps`,
`ReportedReaps` and `LostTransports`. `EndedReaps` has the three early returns
as its exception, for an agent that may close its stdin at any time. A replay
buffer alone does not say that a frame may go: that depends on an
acknowledgement that was made several steps earlier, on the other side, and has
come through a socket, a task and a queue since. The invariant therefore has
four parts on top of `LinesKeepTheirNumbers`:

- `SocketInv` and `OpenInv`: where sockets and tasks are. A socket that was not
  dialled is nowhere, the connector uses the last one it dialled, a task that
  stopped has dropped its queue, its socket and its stream, an event names a
  socket that has a task, a socket waiting to be attached has none yet, and
  `open` is the first envelope of a socket that no task has.
- `SendsInv`: what may be under way. `ConnectorSends` and `SessionSends` are the
  envelopes that each side has reason to send, given its counters: an
  acknowledgement is below what its sender expects, `exit` and
  `shutdown_complete` come from a session that reaped its child, `shutdown` from
  a connector that is closing. The sets only grow (`SendsGrow`), and the lemmas
  `ConnectorCarries`, `SessionCarries`, `TaskCarries`, `ResumeCarries` and
  `NetworkCarries` show once, for any sets, that a step puts nothing under way
  that was not there or was not made by it.
- `EndInv`: how far the end of a session has come (`StatusInv`, `ClosingInv`,
  `ResultInv`, `ConfirmInv`).
- `RetainInv`: a buffer is a run of numbers that ends below the next one and
  reaches back to what the peer expects (`Reaches`). Each step pushes a frame,
  frees acknowledged ones or marks one as sent (`Pushed`, `Freed`, `Marked`).

`ReplayBounded` needs what `Bytes` computes: that a frame added, dropped or
marked changes the total as it should. `Bytes` is a recursive function over the
places of a buffer; the induction is by the least place at which a claim would
fail (`LeastNumber`), which the provers can follow where they cannot instantiate
an induction rule.

The module ends with `SessionIsALife == Spec => SessionLives`: the session of
`ServerSession` implements `SessionLife`. Each action of the session is shown to
be one of a few moves of its life (`Stays`, `LosesSocket`, `EndsBy`, `LeavesBy`,
an attachment or an arrival), and every action of the connector, the transport
tasks and the network to leave it as it is. `HolderInv` strengthens it: a grace
period runs only while nobody is attached (so that `reconnect_timeout` cannot end
a session that somebody uses), a session that ended has no entry, and the errors
that leave an agent behind are those of a session that has ended.

**`TunnelOrder`.** `ExitLast == Spec => []ExitComesLast`: a connector that
returns with the agent's exit has written every line. `TunnelRetention` knows
what may be under way, not in which order; here order is the argument. A queue
is `Gapless` when each line in it comes behind all lines below it that its
reader still expects, and `exit` behind all lines there are; three queues in a
row are `InOrder` when they are so one after the other. The lines of the agent
pass the session's outbox, the commands of a transport task, its blocked write
and the socket, and are sent again on another socket while the first is still
being read. The inductive invariant `ToldInv` (theorem `ToldInOrder`) adds to
that of `TunnelRetention`:

- `AnnounceInv`: on a resumed socket nothing but `error` precedes `ready`, and
  `ready` comes once (`QuietInv`, `ReadyInv`);
- `ExitInv`: `exit` is under way only when the loop is over or waits in
  `send_exit` for the task of that socket;
- `SentInv`: the frames marked as handed to the transport are the first ones of
  the buffer, and all of them when the session reports the exit;
- `OutputInv`: what is under way to a connector that is not closing is
  `InOrder`, and every frame that was handed over is under way or was read;
- `ReadExit`: after `exit` was read, nothing is queued any more.

The queues are only ever pushed, shifted, cut or dropped (`PipeMove`), so that
each part is shown once for those moves and each action once to be one of them.

**`TunnelInput`.** `PeersNeverBlame == Spec => []PeersAgree` and
`ShutdownIsLast == Spec => []ShutdownDeliversInput`. The other direction differs
in that the events of several sockets share one channel: old sockets still drain
into it while a resumed one is replayed. `Read(s)`, `Held(s)` and `c2s[s]` are the
envelopes of one socket among the events, in the hands of its task and in its
stream, and `InputInv` says that they are `InOrder` for each socket that is
served, or can still be, while the loop runs, and that the connector's next line
or replayed frame has its predecessor under way. `shutdown` counts as the last
envelope on the first socket only: on a resumed one the connector sends it
without a replay, which is why `ShutdownDeliversInput` is restricted to the
first. `DeliverInv` follows the verdict of the session, and `Verdicts` shows
that an envelope in order is never a violation; `AgreeInv` (theorem
`SaidInOrder`) is the conjunction with `ToldInv`. `EnvelopeAssumption` enters
where the two programs have different limits: a line that is too long for its
reader makes a message that is too long for the reader's WebSocket, which ends
the transport first, so that neither blames the other for an oversized line.

**`PolicyProofs`.** All four invariants of `Policy`, for any policies, lines,
configurations and hosts. `PolicyFields == Spec => []EditsAreConfigured`
takes one lemma for what each of `Reread`, `Edit` and `Apply` leaves alone. The
other three, `McpEnvironment`, `RejectsMalformed` and `AgentEnvironment`, are
about what the three loops of the code compute for any number of entries,
servers and variables.

- The library's induction rules take an operator that the provers cannot
  instantiate, so the loops are tagged by a name: `LoopStart` and `LoopBody` say
  what each begins with and does in a turn, `Stages` that a function holds what
  was reached after every turn. That such a function exists (`StagesExist`) and
  that the recursive functions of the model are it (`StagesRecur`) is shown by
  the least number of turns at which it would fail.
- `ParseReached`, `AgentReached` and `ServersReached` are the invariants of the
  loops: what holds of the result after the first `k` turns, in terms of those
  `k` elements alone. In particular the loop has failed exactly if one of them
  is malformed, not listed or (where that is an error) repeated. Each has a lemma
  for the start and one for a turn.
- `Filled` says what an environment merged from the fixed, the host's and the
  client's variables contains, and `FirstWins` that this is the precedence that
  the documents promise. A forwarded request carries its environment as a list;
  `Listed` shows that the list has every variable once.
- `ExchangeInv` and `AgentInv` are the invariants of the specification: the last
  outcome is that of `Apply` on a line of the client, and a started agent has the
  environment that was merged for it.

**`AgentProcessProofs`.** `ReapOrder == Spec => []ReapInOrder` for any set of
helpers, and from it `SweptGroup` (no helper that was not killed is left where
the code cleans up) and `Escalation` (SIGKILL follows SIGTERM, which follows
the end of stdin in an intentional shutdown). The invariant has to say that
nobody is left to start another helper once the group was killed.

**`RegistryProofs`.** Three invariants and two action properties of the server,
for any number of sockets, sessions, agents and workspaces: `TypeCorrect`,
`Ownership`, `EntriesBacked`, `RefusalMeansOver`,
`ShutdownRevokes`. What a session's transport is entitled to depends on what its
socket showed several tasks earlier, so the inductive invariant `IInv` follows a
socket on its way: an undialled socket is nowhere (`DialledInv`), a task beyond
the upgrade has an admitted request (`RequestInv`), what a
`ready` or a claim names has begun (`AnnouncedInv`), a task
that opens has an allowlisted request without claim (`OpeningInv`), one that
waits to enqueue has passed the checks (`EnqueueInv`), an entry holds what its
opener asked for and is there while the session can be resumed (`EntryInv`),
everything in a channel or attached is entitled (`SocketsInv`), and a session
that accepted a shutdown has no entry and does not return to its loop
(`ShutdownInv`). Each part has its preservation lemma with one step per action;
`Inductive` puts them together.

`SessionsAreLives == Spec => SessionsLive` shows that every session implements
`SessionLife`. The actions of one session are matched one by one (`StartStep`
and the lemmas after it), those of other sessions and of the handshake leave its
life alone (`SameLife`), and a resumed socket that enqueues is its `Arrive`.
`IInv` is not enough for that: `LifeInv` adds that a task has an agent exactly
when it has a session, that it is gone when the session says farewell, that a
socket is attached only while the session runs or is cleaned up, that a blocked
session has one, and that a grace period runs only while none is attached.

**`SetupProofs`.** `TypeCorrect`, `ForcedWhole`, `SuccessUsable`, `ConfigKept` and
`NothingReplaced`, for any number of runs. The argument is about who can refer
to a file: a run's new file is nowhere before it is created (`FreshInv`), at one
of the names it is for after (`PlaceInv`), a run past its token found or wrote a
complete one (`TokenInv`), a forced run's file leaves its temporary name
complete (`ForceInv`), a file at the path only gives way to a complete one
(`PlacedInv`), and while the path is free some backup is not about to be removed
(`KeptInv`).

**Checked by TLC only.** Liveness (`InputGetsThrough`, `OutputGetsThrough`,
`SessionFollows`, `SweptGroupEnds`, `SocketsSettle`, `UnclaimedSessionsEnd`) needs
fairness and ENABLED and is beyond the prover. Every other property of a passing
run has a theorem.

## Plan

Done, in this order: the tunnel (`Network`, `ReplayBuffer`, `Connector`,
`ServerSession`, `Tunnel`), its abstract specification and refinement, the
process group, the policy, the server as a whole, setup, the sizes of messages
and numbers that lose digits, two programs that both wait in a write; the proofs
above, last those of the policy's loops and of the life of a session.

Left: the two implementations of `SessionLife` agree on what a session does, not
on what it is asked: that a composition of the sockets of `Registry` with the
sessions of `ServerSession` implements `Registry` is not stated. It would take
several sessions with their lines in one model, which is out of TLC's reach.

## Not modelled

- `doctor` reads files and prints a report; `service generate` prints a file.
- Argument parsing, prompts, the choice between the sources of a token, and the
  validation of configurations other than the limits are functions of one input
  without state.
- The health and readiness endpoints, TLS and HTTP routing.
- A process group id that the kernel reuses while the server polls it: it needs
  the whole range of ids to be used up within 25 ms.
