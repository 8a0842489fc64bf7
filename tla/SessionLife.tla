----------------------------- MODULE SessionLife -----------------------------
(***************************************************************************)
(* What a session of the server is to everybody else: who is attached to   *)
(* it, who waits to be, whether it can be resumed, whether its agent runs, *)
(* and why it ends.  Registry has many of them and hides what they do with *)
(* their lines; ServerSession is one of them, line by line.  Both          *)
(* implement this module.                                                  *)
(***************************************************************************)
EXTENDS Sequences

CONSTANTS Sockets,  \* the sockets that can be attached
          Nobody    \* none of them

VARIABLES phase,      \* none, starting, open, ending or over
          holder,     \* the socket attached to the session
          waiting,    \* resumed sockets, the next one to be attached first
          resumable,  \* the server has an entry for the session
          agent,      \* none, running, orphaned or gone
          deadline,   \* the grace period of a detached session runs
          reason,     \* why an ending session ends
          cancelled   \* the server is shutting down

vars == <<phase, holder, waiting, resumable, agent, deadline, reason, cancelled>>

\* Before the session, and from the end of its handshake on.
Init == /\ phase = "none" /\ agent = "none"
        /\ holder = Nobody /\ waiting = << >> /\ reason = "none"
        /\ ~resumable /\ ~deadline /\ ~cancelled

Opened == /\ phase = "open" /\ agent = "running"
          /\ holder \in Sockets /\ waiting = << >> /\ reason = "none"
          /\ resumable = TRUE /\ ~deadline /\ ~cancelled

-----------------------------------------------------------------------------
\* The agent is started, the entry made, and only then the client told.
Start == /\ phase = "none"
         /\ phase' = "starting" /\ agent' = "running"
         /\ UNCHANGED <<holder, waiting, resumable, deadline, reason, cancelled>>

Publish == /\ phase = "starting" /\ ~resumable
           /\ resumable' = TRUE
           /\ UNCHANGED <<phase, holder, waiting, agent, deadline, reason, cancelled>>

Open == /\ phase = "starting" /\ resumable
        /\ phase' = "open" /\ holder' \in Sockets
        /\ UNCHANGED <<waiting, resumable, agent, deadline, reason, cancelled>>

\* A resumed socket queues up.
Arrive == /\ \/ phase \in {"open", "ending"}
             \/ phase = "starting" /\ resumable
          /\ \E s \in Sockets : waiting' = Append(waiting, s)
          /\ UNCHANGED <<phase, holder, resumable, agent, deadline, reason, cancelled>>

\* The first in the queue is the next holder, and stops the grace period; the
\* old one may be given up before that, and without a grace period.
LetGo == /\ phase = "open" /\ waiting # << >> /\ holder # Nobody
         /\ holder' = Nobody
         /\ UNCHANGED <<phase, waiting, resumable, agent, deadline, reason, cancelled>>

Attach == /\ phase = "open" /\ waiting # << >>
          /\ holder' = Head(waiting) /\ waiting' = Tail(waiting)
          /\ deadline' = FALSE
          /\ UNCHANGED <<phase, resumable, agent, reason, cancelled>>

AttachFails == /\ phase = "open" /\ waiting # << >>
               /\ holder' = Nobody /\ waiting' = Tail(waiting)
               /\ UNCHANGED <<phase, resumable, agent, deadline, reason, cancelled>>

\* The holder is lost.
Detach == /\ phase = "open" /\ holder # Nobody
          /\ holder' = Nobody /\ deadline' = TRUE
          /\ UNCHANGED <<phase, waiting, resumable, agent, reason, cancelled>>

\* What each end takes: somebody attached, to ask for it, to be told of the
\* agent's exit or to break the protocol, a grace period without anybody, or
\* the end of the server.  The agent's output can end a session at any time.
MayEnd(why) ==
    \/ why \in {"client_shutdown", "protocol"} /\ holder # Nobody
    \/ why = "child_exit" /\ holder # Nobody /\ agent = "gone"
    \/ why = "reconnect_timeout" /\ holder = Nobody /\ deadline
    \/ why = "server_shutdown" /\ cancelled
    \/ why = "agent_stdout_line"

\* A client that shut the session down cannot resume it.
End == /\ phase = "open"
       /\ \E why \in {"client_shutdown", "protocol", "child_exit", "reconnect_timeout",
                      "server_shutdown", "agent_stdout_line"} :
            /\ MayEnd(why)
            /\ reason' = why
            /\ resumable' = (resumable /\ why # "client_shutdown")
       /\ phase' = "ending"
       /\ UNCHANGED <<holder, waiting, agent, deadline, cancelled>>

AgentEnds == /\ agent \in {"running", "orphaned"}
             /\ agent' = "gone"
             /\ UNCHANGED <<phase, holder, waiting, resumable, deadline, reason, cancelled>>

\* Nobody is attached to a session that is over, or waits for it.
Leaves == /\ phase' = "over" /\ holder' = Nobody /\ waiting' = << >>
          /\ deadline' = FALSE /\ reason' = "none"

\* The agent is reaped before the session is over,
Return == /\ phase = "ending"
          /\ agent' = "gone"
          /\ resumable' \in {resumable, FALSE}
          /\ Leaves /\ UNCHANGED cancelled

\* unless an error intervenes: of the first attachment, of something the
\* holder sent, or of the reaping.
Abandon == /\ \/ phase \in {"starting", "ending"}
              \/ phase = "open" /\ holder # Nobody
           /\ agent' = IF agent = "running" THEN "orphaned" ELSE agent
           /\ resumable' \in {resumable, FALSE}
           /\ Leaves /\ UNCHANGED cancelled

\* The entry may outlive the session by a moment.
Withdraw == /\ phase = "over"
            /\ resumable' = FALSE
            /\ UNCHANGED <<phase, holder, waiting, agent, deadline, reason, cancelled>>

Cancel == /\ cancelled' = TRUE
          /\ UNCHANGED <<phase, holder, waiting, resumable, agent, deadline, reason>>

\* The server's process ends and leaves the agent as it is.
ProcessEnds == /\ cancelled /\ phase # "none"
               /\ resumable' = FALSE
               /\ Leaves /\ UNCHANGED <<agent, cancelled>>

Next == \/ Start \/ Publish \/ Open \/ Arrive \/ LetGo \/ Attach \/ AttachFails
        \/ Detach \/ End \/ AgentEnds \/ Return \/ Abandon \/ Withdraw
        \/ Cancel \/ ProcessEnds
=============================================================================
