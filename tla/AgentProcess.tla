---------------------------- MODULE AgentProcess ----------------------------
(***************************************************************************)
(* The agent's process group on Unix (process.rs) and the end of its       *)
(* session as far as it concerns the group (server.rs).  The agent is the  *)
(* leader of its own group and may start helpers there; the server only    *)
(* holds the leader, its direct child.                                     *)
(*                                                                         *)
(* reap.pc is the point at which the session task waits:                   *)
(*                                                                         *)
(*   serving  process.wait() in the select! of the session                 *)
(*   inspect  try_wait at the head of graceful_shutdown_and_reap or of     *)
(*            terminate_and_reap                                           *)
(*   grace    wait for a cooperative exit, stdin being closed              *)
(*   sigterm, sigkill   about to signal the group                          *)
(*   term, kill         wait for the child after the signal                *)
(*   cleanup  cleanup_remaining_group, the child being reaped              *)
(*   sweep    wait_for_process_group_exit                                  *)
(*   done     the agent is given up, with reap.result                      *)
(*                                                                         *)
(* Deadlines are nondeterministic.  A signal to a group that is gone       *)
(* (ESRCH) is not an error and has no effect here.                         *)
(***************************************************************************)
EXTENDS Naturals

CONSTANTS Helpers  \* the processes the agent can start in its group

Child == "child"
Procs == Helpers \cup {Child}

ASSUME HelpersAssumption == Child \notin Helpers

VARIABLES proc,  \* the state of every process
          reap   \* the control state of the session task

vars == <<proc, reap>>

\* termed: has received SIGTERM and may ignore it; dying: has received
\* SIGKILL; zombie: has exited and was not waited for.  Helpers are adopted
\* and reaped by init once the agent is gone.
Running == {"running", "termed"}
Live == Running \cup {"dying"}
ProcStates == Live \cup {"none", "zombie", "gone"}

Pcs == {"serving", "inspect", "grace", "sigterm", "term", "sigkill", "kill",
        "cleanup", "sweep", "done"}

\* path: how the session ended, by client_shutdown or otherwise; reapedAt: the
\* point at which the child was waited for; signal: the last signal sent.
ReapState == [pc : Pcs, path : {"none", "graceful", "terminate"},
              stdin : BOOLEAN, reapedAt : Pcs \cup {"none"},
              signal : {"none", "term", "kill"},
              result : {"none", "ok", "timeout"}]

\* Every process has a state, and the session task is at an await point.
ProcessTypeOK == /\ proc \in [Procs -> ProcStates]
                 /\ reap \in ReapState

\* AgentProcess::spawn
Init == /\ proc = [p \in Procs |-> IF p = Child THEN "running" ELSE "none"]
        /\ reap = [pc |-> "serving", path |-> "none", stdin |-> TRUE,
                   reapedAt |-> "none", signal |-> "none", result |-> "none"]

-----------------------------------------------------------------------------
(* The processes.                                                          *)

\* A process of the group starts a helper.
Starts(h) ==
    /\ proc[h] = "none"
    /\ \E p \in Procs : proc[p] \in Running
    /\ proc' = [proc EXCEPT ![h] = "running"]
    /\ UNCHANGED reap

\* A process exits by itself, or because of a signal.
Dies(p) ==
    /\ proc[p] \in Live
    /\ proc' = [proc EXCEPT ![p] = IF p = Child THEN "zombie" ELSE "gone"]
    /\ UNCHANGED reap

\* process_group_exists: a zombie still counts.
GroupExists == \E p \in Procs : proc[p] \in Live \cup {"zombie"}

\* signal_group with SIGTERM, and with SIGKILL.
Terminated == [p \in Procs |-> IF proc[p] \in Running THEN "termed"
                                                      ELSE proc[p]]
Killed == [p \in Procs |-> IF proc[p] \in Live THEN "dying" ELSE proc[p]]

-----------------------------------------------------------------------------
(* The session.                                                            *)

Reaped == proc' = [proc EXCEPT ![Child] = "gone"]
GoTo(pc) == reap' = [reap EXCEPT !.pc = pc]
Finish(r) == reap' = [reap EXCEPT !.pc = "done", !.result = r]

\* The child was waited for; the function goes on at pc or returns.
ReapThen(pc) ==
    /\ proc[Child] = "zombie"
    /\ Reaped
    /\ reap' = [reap EXCEPT !.pc = pc, !.reapedAt = reap.pc,
                            !.result = IF pc = "done" THEN "ok" ELSE "none"]

\* process.wait() in the loop: the exit status is known from now on.
WaitReturns ==
    /\ reap.pc = "serving"
    /\ ReapThen("serving")

\* The loop has ended.  On client_shutdown the agent's stdin is closed first;
\* a known exit status is all that is needed in any case.
EndLoop(path) ==
    /\ reap.pc = "serving"
    /\ reap' = [reap EXCEPT
                  !.pc = IF reap.reapedAt = "none" THEN "inspect" ELSE "done",
                  !.result = IF reap.reapedAt = "none" THEN "none" ELSE "ok",
                  !.path = path,
                  !.stdin = reap.stdin /\ path # "graceful"]
    /\ UNCHANGED proc

\* try_wait finds the child exited: only graceful_shutdown_and_reap goes on
\* to clean up the rest of the group.
InspectFindsExit ==
    /\ reap.pc = "inspect"
    /\ ReapThen(IF reap.path = "graceful" THEN "cleanup" ELSE "done")

InspectFindsChild ==
    /\ reap.pc = "inspect"
    /\ proc[Child] # "zombie"
    /\ GoTo(IF reap.path = "graceful" THEN "grace" ELSE "sigterm")
    /\ UNCHANGED proc

\* Mutant: a cooperative exit is all that is waited for.
MutantExitsInGrace ==
    /\ reap.pc = "grace"
    /\ ReapThen("done")
\* A cooperative exit within graceful_exit_timeout.
ExitsInGrace ==
    /\ reap.pc = "grace"
    /\ ReapThen("cleanup")

\* Mutant: the timeout escalates to SIGKILL at once.
MutantGraceExpires ==
    /\ reap.pc = "grace"
    /\ GoTo("sigkill")
    /\ UNCHANGED proc
GraceExpires ==
    /\ reap.pc = "grace"
    /\ GoTo("sigterm")
    /\ UNCHANGED proc

\* The group is asked to terminate.
SendTerm ==
    /\ reap.pc = "sigterm"
    /\ proc' = Terminated
    /\ reap' = [reap EXCEPT !.pc = "term", !.signal = "term"]

\* The child exits within shutdown_timeout after SIGTERM: here only
\* terminate_and_reap goes on to clean up the rest of the group.
ExitsOnTerm ==
    /\ reap.pc = "term"
    /\ ReapThen(IF reap.path = "terminate" THEN "cleanup" ELSE "done")

TermExpires ==
    /\ reap.pc = "term"
    /\ GoTo("sigkill")
    /\ UNCHANGED proc

\* Mutant: only the child is killed, not its group.
MutantSendKill ==
    /\ reap.pc = "sigkill"
    /\ proc' = [proc EXCEPT ![Child] = IF proc[Child] \in Live
                                        THEN "dying" ELSE proc[Child]]
    /\ reap' = [reap EXCEPT !.pc = "kill", !.signal = "kill"]
SendKill ==
    /\ reap.pc = "sigkill"
    /\ proc' = Killed
    /\ reap' = [reap EXCEPT !.pc = "kill", !.signal = "kill"]

ExitsOnKill ==
    /\ reap.pc = "kill"
    /\ ReapThen("done")

\* "force-killing remote agent"
KillExpires ==
    /\ reap.pc = "kill"
    /\ Finish("timeout")
    /\ UNCHANGED proc

-----------------------------------------------------------------------------
(* cleanup_remaining_group.                                                *)

CleanupFindsNone ==
    /\ reap.pc = "cleanup"
    /\ ~GroupExists
    /\ Finish("ok")
    /\ UNCHANGED proc

CleanupTerminates ==
    /\ reap.pc = "cleanup"
    /\ GroupExists
    /\ proc' = Terminated
    /\ reap' = [reap EXCEPT !.pc = "sweep", !.signal = "term"]

SweepFindsNone ==
    /\ reap.pc = "sweep"
    /\ ~GroupExists
    /\ Finish("ok")
    /\ UNCHANGED proc

\* Mutant: the helpers that outlast SIGTERM are left alone.
MutantSweepExpires ==
    /\ reap.pc = "sweep"
    /\ GroupExists
    /\ UNCHANGED proc
    /\ reap' = [reap EXCEPT !.pc = "done", !.signal = "kill", !.result = "ok"]
SweepExpires ==
    /\ reap.pc = "sweep"
    /\ GroupExists
    /\ proc' = Killed
    /\ reap' = [reap EXCEPT !.pc = "done", !.signal = "kill", !.result = "ok"]

ReapNext ==
    \/ WaitReturns
    \/ InspectFindsExit \/ InspectFindsChild \/ ExitsInGrace \/ GraceExpires
    \/ SendTerm \/ ExitsOnTerm \/ TermExpires
    \/ SendKill \/ ExitsOnKill \/ KillExpires
    \/ CleanupFindsNone \/ CleanupTerminates \/ SweepFindsNone \/ SweepExpires

Next ==
    \/ ReapNext
    \/ \E path \in {"graceful", "terminate"} : EndLoop(path)
    \/ \E h \in Helpers : Starts(h)
    \/ \E p \in Procs : Dies(p)

Spec == Init /\ [][Next]_vars

\* The session task goes on, and the kernel carries out a SIGKILL; nothing
\* else makes a process exit.
Fairness == /\ WF_vars(ReapNext)
            /\ \A p \in Procs : WF_vars(proc[p] = "dying" /\ Dies(p))

FairSpec == Spec /\ Fairness

-----------------------------------------------------------------------------
(* Properties.                                                             *)

\* The endings after which the rest of the group was cleaned up: every one
\* but the direct returns of InspectFindsExit, ExitsOnTerm and EndLoop.
SweptAt == [graceful |-> {"inspect", "grace", "kill"},
            terminate |-> {"term", "kill"}]
Swept == /\ reap.result = "ok"
         /\ reap.reapedAt \in SweptAt[reap.path]

\* After these endings the agent was reaped and no helper runs that was not
\* killed, not even one that was started during the cleanup.
SweptGroupIsDoomed ==
    Swept => /\ proc[Child] = "gone"
             /\ \A p \in Procs : proc[p] \notin Running

\* docs/configuration.md, "The server closes agent stdin before it sends
\* SIGTERM.  It sends SIGKILL only after the shutdown timeout expires": no
\* process is killed before its group received SIGTERM, and none is asked to
\* terminate by an intentional shutdown before stdin was closed.
EscalationInOrder ==
    [][\A p \in Procs :
         /\ proc'[p] = "dying" /\ proc[p] # "dying" => reap.signal = "term"
         /\ proc'[p] = "termed" /\ proc[p] # "termed" =>
              reap.path = "terminate" \/ ~reap.stdin]_vars

\* Once the agent is given up after such an ending, or was force-killed
\* without being seen to exit, its group is empty eventually, zombie aside.
SweptGroupEnds ==
    reap.pc = "done" /\ (Swept \/ reap.result = "timeout")
      ~> \A p \in Procs : proc[p] \notin Live

\* The inductive invariant behind the two: the child is gone exactly when it
\* was waited for, every signal follows the one before it, and once the whole
\* group was killed nobody is left who could start another helper.
ReapInOrder ==
    /\ ProcessTypeOK
    /\ proc[Child] = "gone" <=> reap.reapedAt # "none"
    /\ reap.pc = "serving" <=> reap.path = "none"
    /\ reap.path = "graceful" => ~reap.stdin
    /\ reap.pc = "serving" => reap.reapedAt \in {"none", "serving"}
    /\ reap.pc \in {"inspect", "grace", "sigterm", "term", "sigkill", "kill"}
         => reap.reapedAt = "none"
    /\ reap.pc \in {"cleanup", "sweep"} => reap.reapedAt # "none"
    /\ reap.pc = "done" <=> reap.result # "none"
    /\ reap.result = "ok" => reap.reapedAt # "none"
    /\ reap.pc \in {"term", "sigkill", "sweep"} => reap.signal = "term"
    /\ reap.pc = "kill" => \A p \in Procs : proc[p] \notin Running
    /\ Swept => \A p \in Procs : proc[p] \notin Running

\* docs/protocol.md, "terminates and reaps the complete remote process
\* group", and the test explicit_shutdown_cleans_up_the_complete_process_group:
\* whenever the agent was given up no helper is left running.
GroupTerminated ==
    reap.result = "ok" => \A p \in Procs : proc[p] \notin Running
=============================================================================
