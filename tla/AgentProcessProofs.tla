------------------------- MODULE AgentProcessProofs -------------------------
(***************************************************************************)
(* The process group of an agent is stopped in order, for any number of    *)
(* helpers: ReapInOrder is inductive, and the two safety properties follow *)
(* from it.                                                                *)
(***************************************************************************)
EXTENDS AgentProcess, TLAPS

\* The agent has just been spawned.
LEMMA InitInOrder == Init => ReapInOrder
BY HelpersAssumption
DEF Init, ReapInOrder, ProcessTypeOK, ReapState, Pcs, ProcStates, Live,
    Running, Procs, Swept

\* What a signal to the group does.
LEMMA SignalledGroup ==
    ASSUME proc \in [Procs -> ProcStates]
    PROVE  /\ Terminated \in [Procs -> ProcStates]
           /\ Killed \in [Procs -> ProcStates]
           /\ (Terminated[Child] = "gone" <=> proc[Child] = "gone")
           /\ (Killed[Child] = "gone" <=> proc[Child] = "gone")
           /\ \A p \in Procs : Killed[p] \notin Running
BY DEF Terminated, Killed, ProcStates, Live, Running, Procs

\* Waiting for the child keeps the invariant, given that the function does
\* not return where the rest of the group was not cleaned up.
LEMMA ReapThenInOrder ==
    ASSUME ReapInOrder, NEW pc \in {"serving", "cleanup", "done"},
           ReapThen(pc),
           pc = "serving" <=> reap.pc = "serving",
           reap.pc \in {"serving", "inspect", "grace", "term", "kill"},
           pc = "done" /\ reap.pc \in SweptAt[reap.path] => reap.pc = "kill"
    PROVE  ReapInOrder'
<1> USE DEF ReapInOrder, ReapThen, Reaped
<1>1. /\ proc' = [proc EXCEPT ![Child] = "gone"]
      /\ reap' = [reap EXCEPT !.pc = pc, !.reapedAt = reap.pc,
                              !.result = IF pc = "done" THEN "ok" ELSE "none"]
  OBVIOUS
<1>2. ProcessTypeOK'
  BY <1>1 DEF ProcessTypeOK, ReapState, Pcs, ProcStates
<1>3. \A p \in Procs : proc'[p] \in Running => proc[p] \in Running
  BY <1>1 DEF ProcessTypeOK, Running
<1>4. proc'[Child] = "gone"
  BY <1>1 DEF ProcessTypeOK, Procs
<1>5. /\ reap'.pc = pc /\ reap'.reapedAt = reap.pc /\ reap'.path = reap.path
      /\ reap'.stdin = reap.stdin /\ reap'.signal = reap.signal
      /\ reap'.result = IF pc = "done" THEN "ok" ELSE "none"
  BY <1>1 DEF ProcessTypeOK, ReapState
<1>6. Swept' => \A p \in Procs : proc'[p] \notin Running
  BY <1>3, <1>5 DEF Swept
<1> QED BY <1>2, <1>4, <1>5, <1>6

\* Every step keeps the invariant.
LEMMA NextInOrder == ReapInOrder /\ [Next]_vars => ReapInOrder'
<1> SUFFICES ASSUME ReapInOrder, [Next]_vars PROVE ReapInOrder'
  OBVIOUS
<1> USE DEF ReapInOrder
<1>1. reap \in ReapState /\ proc \in [Procs -> ProcStates]
  BY DEF ProcessTypeOK
<1>2. CASE UNCHANGED vars
  BY <1>2 DEF vars, ProcessTypeOK, Swept
<1>3. ASSUME NEW h \in Helpers, Starts(h) PROVE ReapInOrder'
  <2>1. h # Child /\ h \in Procs
    BY <1>3, HelpersAssumption DEF Procs
  <2>2. \E p \in Procs : proc[p] \in Running
    BY <1>3 DEF Starts
  <2>3. reap' = reap /\ proc' = [proc EXCEPT ![h] = "running"]
    BY <1>3 DEF Starts
  <2>4. ProcessTypeOK'
    BY <1>1, <2>3 DEF ProcessTypeOK, ProcStates, Live, Running
  <2>5. proc'[Child] = proc[Child]
    BY <1>1, <2>1, <2>3
  <2>6. ~Swept /\ reap.pc # "kill"
    BY <2>2
  <2> QED BY <2>3, <2>4, <2>5, <2>6 DEF Swept
<1>4. ASSUME NEW p \in Procs, Dies(p) PROVE ReapInOrder'
  <2>1. /\ reap' = reap
        /\ proc' = [proc EXCEPT ![p] = IF p = Child THEN "zombie" ELSE "gone"]
        /\ proc[p] \in Live
    BY <1>4 DEF Dies
  <2>2. ProcessTypeOK'
    BY <1>1, <2>1 DEF ProcessTypeOK, ProcStates
  <2>3. proc'[Child] = "gone" <=> proc[Child] = "gone"
    BY <1>1, <2>1 DEF Live, Running, Procs
  <2>4. \A q \in Procs : proc'[q] \in Running => proc[q] \in Running
    BY <1>1, <2>1 DEF Running
  <2> QED BY <2>1, <2>2, <2>3, <2>4 DEF Swept
<1>5. ASSUME NEW path \in {"graceful", "terminate"}, EndLoop(path)
      PROVE  ReapInOrder'
  <2>1. /\ proc' = proc
        /\ reap' \in ReapState
        /\ reap'.path = path
        /\ reap'.pc = IF reap.reapedAt = "none" THEN "inspect" ELSE "done"
        /\ reap'.result = IF reap.reapedAt = "none" THEN "none" ELSE "ok"
        /\ reap'.reapedAt = reap.reapedAt
        /\ reap'.stdin = (reap.stdin /\ path # "graceful")
        /\ reap.reapedAt \in {"none", "serving"}
    BY <1>1, <1>5 DEF EndLoop, ReapState, Pcs
  <2>2. ~Swept'
    BY <2>1 DEF Swept, SweptAt
  <2> QED BY <2>1, <2>2 DEF ProcessTypeOK
<1>6. CASE ReapNext
  <2>1. ASSUME NEW pc \in Pcs, GoTo(pc), UNCHANGED proc,
               reap.pc \notin {"serving", "cleanup", "sweep", "done"},
               pc \in {"grace", "sigterm"}
                 \/ (pc = "sigkill" /\ reap.pc = "term")
        PROVE  ReapInOrder'
    <3>1. /\ reap' \in ReapState
          /\ reap'.pc = pc /\ reap'.path = reap.path
          /\ reap'.stdin = reap.stdin /\ reap'.reapedAt = reap.reapedAt
          /\ reap'.signal = reap.signal /\ reap'.result = reap.result
      BY <1>1, <2>1 DEF GoTo, ReapState
    <3>2. reap.reapedAt = "none" /\ reap.result = "none" /\ reap.path # "none"
      BY <1>1, <2>1 DEF ReapState, Pcs
    <3>3. ~Swept'
      BY <3>1, <3>2 DEF Swept
    <3> QED BY <1>1, <2>1, <3>1, <3>2, <3>3 DEF ProcessTypeOK
  <2>2. CASE WaitReturns
    BY <2>2, ReapThenInOrder DEF WaitReturns
  <2>3. CASE InspectFindsExit
    BY <2>3, <1>1, ReapThenInOrder DEF InspectFindsExit, SweptAt, ReapState
  <2>4. CASE ExitsInGrace
    BY <2>4, ReapThenInOrder DEF ExitsInGrace
  <2>5. CASE ExitsOnTerm
    BY <2>5, <1>1, ReapThenInOrder DEF ExitsOnTerm, SweptAt, ReapState
  <2>6. CASE ExitsOnKill
    BY <2>6, ReapThenInOrder DEF ExitsOnKill
  <2>7. CASE InspectFindsChild \/ GraceExpires \/ TermExpires
    BY <2>1, <2>7 DEF InspectFindsChild, GraceExpires, TermExpires, Pcs
  <2>8. CASE SendTerm \/ SendKill \/ CleanupTerminates
    <3>1. /\ proc' \in {Terminated, Killed}
          /\ reap.pc = "sigkill" => proc' = Killed
          /\ reap'.pc \in {"term", "kill", "sweep"}
          /\ reap' \in ReapState
          /\ reap'.pc = "kill" <=> reap.pc = "sigkill"
          /\ reap'.pc = "term" <=> reap.pc = "sigterm"
          /\ reap'.pc = "sweep" <=> reap.pc = "cleanup"
          /\ reap.pc \in {"sigkill", "sigterm", "cleanup"}
          /\ reap'.signal = IF reap.pc = "sigkill" THEN "kill" ELSE "term"
          /\ reap'.reapedAt = reap.reapedAt /\ reap'.path = reap.path
          /\ reap'.stdin = reap.stdin /\ reap'.result = reap.result
      BY <1>1, <2>8
      DEF SendTerm, SendKill, CleanupTerminates, ReapState, Pcs
    <3>2. /\ ProcessTypeOK'
          /\ proc'[Child] = "gone" <=> proc[Child] = "gone"
          /\ reap'.pc = "kill" => \A p \in Procs : proc'[p] \notin Running
      BY <1>1, <3>1, SignalledGroup DEF ProcessTypeOK
    <3>3. ~Swept'
      BY <3>1 DEF Swept
    <3> QED BY <3>1, <3>2, <3>3
  <2>9. CASE KillExpires \/ CleanupFindsNone \/ SweepFindsNone
    <3>1. /\ proc' = proc
          /\ reap' \in ReapState
          /\ reap'.pc = "done" /\ reap'.result \in {"ok", "timeout"}
          /\ reap'.reapedAt = reap.reapedAt /\ reap'.path = reap.path
          /\ reap'.stdin = reap.stdin
          /\ reap.pc \in {"kill", "cleanup", "sweep"}
          /\ reap'.result = "ok" => reap.pc # "kill" /\ ~GroupExists
      BY <1>1, <2>9
      DEF KillExpires, CleanupFindsNone, SweepFindsNone, Finish, ReapState, Pcs
    <3>2. Swept' => \A p \in Procs : proc'[p] \notin Running
      BY <3>1 DEF Swept, GroupExists, Live
    <3> QED BY <3>1, <3>2 DEF ProcessTypeOK
  <2>10. CASE SweepExpires
    <3>1. /\ proc' = Killed
          /\ reap' \in ReapState
          /\ reap.pc = "sweep"
          /\ reap'.pc = "done" /\ reap'.result = "ok"
          /\ reap'.reapedAt = reap.reapedAt /\ reap'.path = reap.path
          /\ reap'.stdin = reap.stdin
      BY <1>1, <2>10 DEF SweepExpires, ReapState, Pcs
    <3> QED BY <1>1, <3>1, SignalledGroup DEF ProcessTypeOK
  <2> QED BY <1>6, <2>2, <2>3, <2>4, <2>5, <2>6, <2>7, <2>8, <2>9, <2>10
    DEF ReapNext
<1> QED BY <1>2, <1>3, <1>4, <1>5, <1>6 DEF Next

\* The invariant holds in every behaviour.
THEOREM ReapOrder == Spec => []ReapInOrder
BY InitInOrder, NextInOrder, PTL DEF Spec

\* Where the code cleans up the group, no helper survives it unkilled,
\* however many there are and whenever they were started.
THEOREM SweptGroup == Spec => []SweptGroupIsDoomed
<1>1. ReapInOrder => SweptGroupIsDoomed
  BY DEF ReapInOrder, SweptGroupIsDoomed, Swept
<1> QED BY <1>1, ReapOrder, PTL

\* Stdin is closed before SIGTERM and SIGTERM sent before SIGKILL.
THEOREM Escalation == Spec => EscalationInOrder
<1> DEFINE Ordered ==
      \A p \in Procs :
        /\ proc'[p] = "dying" /\ proc[p] # "dying" => reap.signal = "term"
        /\ proc'[p] = "termed" /\ proc[p] # "termed" =>
             reap.path = "terminate" \/ ~reap.stdin
<1>1. ReapInOrder /\ [Next]_vars => [Ordered]_vars
  <2> SUFFICES ASSUME ReapInOrder, Next PROVE Ordered
    OBVIOUS
  <2>1. CASE SendKill \/ SweepExpires
    BY <2>1 DEF SendKill, SweepExpires, ReapInOrder, Killed, Live, Running
  <2>2. CASE SendTerm \/ CleanupTerminates
    BY <2>2
    DEF SendTerm, CleanupTerminates, ReapInOrder, ProcessTypeOK, ReapState,
        Terminated, Running
  <2>3. CASE \/ WaitReturns \/ InspectFindsExit \/ ExitsInGrace
             \/ ExitsOnTerm \/ ExitsOnKill
    BY <2>3
    DEF WaitReturns, InspectFindsExit, ExitsInGrace, ExitsOnTerm, ExitsOnKill,
        ReapThen, Reaped, ReapInOrder, ProcessTypeOK
  <2>4. CASE UNCHANGED proc
    BY <2>4
  <2>5. CASE \E h \in Helpers : Starts(h)
    BY <2>5 DEF Starts, ReapInOrder, ProcessTypeOK
  <2>6. CASE \E p \in Procs : Dies(p)
    BY <2>6 DEF Dies, ReapInOrder, ProcessTypeOK
  <2>7. CASE \/ InspectFindsChild \/ GraceExpires \/ TermExpires \/ KillExpires
             \/ CleanupFindsNone \/ SweepFindsNone
             \/ \E path \in {"graceful", "terminate"} : EndLoop(path)
    <3>1. UNCHANGED proc
      BY <2>7
      DEF InspectFindsChild, GraceExpires, TermExpires, KillExpires,
          CleanupFindsNone, SweepFindsNone, EndLoop
    <3> QED BY <2>4, <3>1
  <2> QED BY <2>1, <2>2, <2>3, <2>5, <2>6, <2>7 DEF Next, ReapNext
<1> QED BY <1>1, ReapOrder, PTL DEF Spec, EscalationInOrder
=============================================================================
