---------------------------- MODULE PolicyProofs ----------------------------
(***************************************************************************)
(* Proofs about AcpPolicy and the environments of agents and MCP servers,  *)
(* for every set of lines, policy, host and configuration: the three loops *)
(* (parse_client_environment, merge_agent_environment and apply_mcp) by    *)
(* induction on the elements they have taken, and what the session does    *)
(* with their results.                                                     *)
(***************************************************************************)
EXTENDS Policy, FiniteSetTheorems, WellFoundedInduction, NaturalsInduction, TLAPS

\* Every set of numbers that is not empty has a least element: the form of
\* induction that the provers can use.
LEMMA LeastNumber ==
    ASSUME NEW T, T \subseteq Nat, T # {}
    PROVE  \E x \in T : \A y \in T : x <= y
<1>1. IsWellFoundedOn(OpToRel(<,Nat), Nat)
  BY NatLessThanWellFounded
<1>2. PICK x \in T : \A y \in T : ~ (<<y, x>> \in OpToRel(<,Nat))
  BY <1>1, WFMin
<1>3. \A y \in T : ~(y < x)
  BY <1>2 DEF OpToRel
<1> QED BY <1>3

-----------------------------------------------------------------------------
(* The loops.  All three are folds; loop names the body: "agent" that of   *)
(* merge_agent_environment, "servers" that of apply_mcp, and any other     *)
(* value is the kind of env that parse_client_environment walks.           *)

LoopStart(loop) ==
    CASE loop = "agent" ->
           [ok |-> TRUE, names |-> {}, env |-> SelectedEnvironment(Agent)]
      [] loop = "servers" -> [ok |-> TRUE, servers |-> << >>]
      [] OTHER -> [ok |-> TRUE, env |-> NoEnv]

LoopBody(loop, reached, next) ==
    CASE loop = "agent" -> MergeAgentVariable(reached, next)
      [] loop = "servers" -> ReplaceMcp(reached, next)
      [] OTHER -> ParseEntry(loop, reached, next)

\* What the loop would do after its i-th element, given f.
LoopStep(loop, f, s, i) ==
    IF i = 0 THEN LoopStart(loop) ELSE LoopBody(loop, f[i - 1], s[i])

\* f holds what the loop has reached after each of the first n elements of s.
Stages(loop, f, s, n) ==
    \A i \in 0 .. n : f[i] = LoopStep(loop, f, s, i)

\* Every loop has its stages, by induction on the number of elements.
LEMMA StagesExist ==
    ASSUME NEW loop, NEW s, NEW n \in Nat
    PROVE  \E f : f = [i \in 0 .. n |-> f[i]] /\ Stages(loop, f, s, n)
<1> DEFINE P(k) == \E f : f = [i \in 0 .. k |-> f[i]] /\ Stages(loop, f, s, k)
           T == {k \in Nat : ~P(k)}
<1> HIDE DEF P
<1> SUFFICES ASSUME T # {} PROVE FALSE
  BY DEF P
<1>1. PICK m \in T : \A y \in T : m <= y
  <2> T \subseteq Nat
    OBVIOUS
  <2> HIDE DEF T
  <2> QED BY LeastNumber
<1>2. m # 0
  <2> DEFINE z == [i \in 0 .. 0 |-> LoopStart(loop)]
  <2>1. z = [i \in 0 .. 0 |-> z[i]] /\ Stages(loop, z, s, 0)
    BY DEF Stages, LoopStep
  <2> HIDE DEF z
  <2>2. P(0)
    BY <2>1 DEF P
  <2> QED BY <2>2
<1>3. m - 1 \in Nat /\ P(m - 1)
  BY <1>1, <1>2
<1>4. PICK f : Stages(loop, f, s, m - 1)
  BY <1>3 DEF P
<1> DEFINE g == [i \in 0 .. m |-> IF i = m THEN LoopBody(loop, f[m - 1], s[m]) ELSE f[i]]
<1>5. /\ g = [i \in 0 .. m |-> g[i]]
      /\ \A i \in 0 .. m - 1 : g[i] = f[i]
      /\ g[m] = LoopBody(loop, f[m - 1], s[m])
  <2>1. m \in 0 .. m /\ \A i \in 0 .. m - 1 : i \in 0 .. m /\ i # m
    BY <1>3
  <2>2. g[m] = LoopBody(loop, f[m - 1], s[m])
    BY <2>1
  <2>3. g = [i \in 0 .. m |-> g[i]]
    OBVIOUS
  <2> QED BY <2>1, <2>2, <2>3
<1> HIDE DEF g
<1>6. Stages(loop, g, s, m)
  <2> SUFFICES ASSUME NEW i \in 0 .. m PROVE g[i] = LoopStep(loop, g, s, i)
    BY DEF Stages
  <2>1. CASE i = m
    <3>1. m - 1 \in 0 .. m - 1
      BY <1>3
    <3>2. g[m - 1] = f[m - 1]
      BY <1>5, <3>1
    <3> QED BY <1>2, <1>5, <2>1, <3>2 DEF LoopStep
  <2>2. CASE i # m
    <3>1. i \in 0 .. m - 1 /\ (i # 0 => i - 1 \in 0 .. m - 1)
      BY <2>2, <1>3
    <3>2. f[i] = LoopStep(loop, f, s, i)
      BY <1>4, <3>1 DEF Stages
    <3>3. i # 0 => g[i - 1] = f[i - 1]
      BY <1>5, <3>1
    <3> QED BY <1>5, <3>1, <3>2, <3>3 DEF LoopStep
  <2> QED BY <2>1, <2>2
<1>7. P(m)
  BY <1>5, <1>6 DEF P
<1> QED BY <1>7

\* The same as one recursive equation.
LEMMA StagesRecur ==
    ASSUME NEW loop, NEW s, NEW n \in Nat
    PROVE  /\ \E g : g = [i \in 0 .. n |-> LoopStep(loop, g, s, i)]
           /\ \A g : g = [i \in 0 .. n |-> LoopStep(loop, g, s, i)] =>
                       Stages(loop, g, s, n)
<1>1. PICK g : g = [i \in 0 .. n |-> g[i]] /\ Stages(loop, g, s, n)
  BY StagesExist
<1>2. g = [i \in 0 .. n |-> LoopStep(loop, g, s, i)]
  <2> DEFINE h == [i \in 0 .. n |-> LoopStep(loop, g, s, i)]
  <2>1. [i \in 0 .. n |-> g[i]] = h
    BY <1>1 DEF Stages
  <2> QED BY <1>1, <2>1
<1>3. ASSUME NEW f, f = [i \in 0 .. n |-> LoopStep(loop, f, s, i)]
      PROVE  Stages(loop, f, s, n)
  <2> DEFINE step == [i \in 0 .. n |-> LoopStep(loop, f, s, i)]
  <2>1. \A i \in 0 .. n : step[i] = LoopStep(loop, f, s, i)
    OBVIOUS
  <2>2. f = step
    BY <1>3
  <2> HIDE DEF step
  <2> QED BY <2>1, <2>2 DEF Stages
<1> QED BY <1>2, <1>3

\* merge_agent_environment returns what its loop has reached in the end.
LEMMA AgentStages ==
    ASSUME NEW s, Len(s) \in Nat
    PROVE  \E f : Stages("agent", f, s, Len(s)) /\ MergeAgentEnvironment(s) = f[Len(s)]
<1> DEFINE R(h) == h = [i \in 0 .. Len(s) |->
                          IF i = 0 THEN [ok |-> TRUE, names |-> {},
                                         env |-> SelectedEnvironment(Agent)]
                          ELSE MergeAgentVariable(h[i - 1], s[i])]
           f == CHOOSE h : R(h)
<1>1. ASSUME NEW h
      PROVE  R(h) <=> h = [i \in 0 .. Len(s) |-> LoopStep("agent", h, s, i)]
  BY DEF LoopStep, LoopStart, LoopBody
<1>2. MergeAgentEnvironment(s) = f[Len(s)]
  BY DEF MergeAgentEnvironment
<1> HIDE DEF R
<1>3. R(f)
  BY <1>1, StagesRecur
<1> HIDE DEF f
<1> QED BY <1>1, <1>2, <1>3, StagesRecur

\* So does apply_mcp,
LEMMA ServerStages ==
    ASSUME NEW s, Len(s) \in Nat
    PROVE  \E f : Stages("servers", f, s, Len(s)) /\ ReplaceServers(s) = f[Len(s)]
<1> DEFINE R(h) == h = [i \in 0 .. Len(s) |->
                          IF i = 0 THEN [ok |-> TRUE, servers |-> << >>]
                          ELSE ReplaceMcp(h[i - 1], s[i])]
           f == CHOOSE h : R(h)
<1>1. ASSUME NEW h
      PROVE  R(h) <=> h = [i \in 0 .. Len(s) |-> LoopStep("servers", h, s, i)]
  BY DEF LoopStep, LoopStart, LoopBody
<1>2. ReplaceServers(s) = f[Len(s)]
  BY DEF ReplaceServers
<1> HIDE DEF R
<1>3. R(f)
  BY <1>1, StagesRecur
<1> HIDE DEF f
<1> QED BY <1>1, <1>2, <1>3, StagesRecur

\* and parse_client_environment.
LEMMA ParseStages ==
    ASSUME NEW kind \in {Absent, "array", "object"}, NEW s, Len(s) \in Nat
    PROVE  \E f : Stages(kind, f, s, Len(s)) /\ ParseEntries(kind, s) = f[Len(s)]
<1> DEFINE R(h) == h = [i \in 0 .. Len(s) |->
                          IF i = 0 THEN [ok |-> TRUE, env |-> NoEnv]
                          ELSE ParseEntry(kind, h[i - 1], s[i])]
           f == CHOOSE h : R(h)
<1>1. ASSUME NEW h
      PROVE  R(h) <=> h = [i \in 0 .. Len(s) |-> LoopStep(kind, h, s, i)]
  <2>1. kind \notin {"agent", "servers"}
    BY DEF Absent
  <2> QED BY <2>1 DEF LoopStep, LoopStart, LoopBody
<1>2. ParseEntries(kind, s) = f[Len(s)]
  BY DEF ParseEntries
<1> HIDE DEF R
<1>3. R(f)
  BY <1>1, StagesRecur
<1> HIDE DEF f
<1> QED BY <1>1, <1>2, <1>3, StagesRecur

-----------------------------------------------------------------------------
(* The agent's environment.                                                *)

\* A map of one entry.
LEMMA SingleIs ==
    ASSUME NEW name, NEW value
    PROVE  DOMAIN Single(name, value) = {name} /\ Single(name, value)[name] = value
BY DEF Single

\* The first k elements name different things.
DistinctBefore(s, k) ==
    \A i, j \in 1 .. k : s[i].name = s[j].name => i = j

NamesBefore(s, k) == {s[i].name : i \in 1 .. k}

\* One more element has a new name.
LEMMA OneMoreName ==
    ASSUME NEW s, NEW k \in Nat, k # 0
    PROVE  /\ NamesBefore(s, k) = NamesBefore(s, k - 1) \cup {s[k].name}
           /\ DistinctBefore(s, k) <=>
                /\ DistinctBefore(s, k - 1)
                /\ s[k].name \notin NamesBefore(s, k - 1)
<1>1. 1 .. k = (1 .. k - 1) \cup {k} /\ k \notin 1 .. k - 1
  OBVIOUS
<1>2. NamesBefore(s, k) = NamesBefore(s, k - 1) \cup {s[k].name}
  BY <1>1 DEF NamesBefore
<1>3. DistinctBefore(s, k) <=>
        /\ DistinctBefore(s, k - 1)
        /\ s[k].name \notin NamesBefore(s, k - 1)
  BY <1>1 DEF DistinctBefore, NamesBefore
<1> QED BY <1>2, <1>3

\* The first k variables of a request are accepted.
AcceptableBefore(s, k) ==
    /\ DistinctBefore(s, k)
    /\ \A i \in 1 .. k : /\ s[i].name \in Agent.client_env_allowlist \ InvalidNames
                         /\ s[i].value \notin InvalidValues

\* What merge_agent_environment has reached after k variables.
AgentReached(m, s, k) ==
    LET server == SelectedEnvironment(Agent)
    IN /\ m = [ok |-> m.ok, names |-> m.names, env |-> m.env]
       /\ m.ok \in BOOLEAN
       /\ m.ok <=> AcceptableBefore(s, k)
       /\ m.ok => /\ m.names = NamesBefore(s, k)
                  /\ DOMAIN m.env = DOMAIN server \cup NamesBefore(s, k)
                  /\ \A n \in DOMAIN server : m.env[n] = server[n]
                  /\ \A i \in 1 .. k : s[i].name \notin DOMAIN server =>
                                         m.env[s[i].name] = s[i].value

\* Nothing is taken yet.
LEMMA AgentStarts ==
    ASSUME NEW s
    PROVE  AgentReached(LoopStart("agent"), s, 0)
<1>1. AcceptableBefore(s, 0) /\ NamesBefore(s, 0) = {}
  BY DEF AcceptableBefore, DistinctBefore, NamesBefore
<1>2. LoopStart("agent") = [ok |-> TRUE, names |-> {}, env |-> SelectedEnvironment(Agent)]
  BY DEF LoopStart
<1>3. 1 .. 0 = {}
  OBVIOUS
<1> DEFINE m == LoopStart("agent")
           server == SelectedEnvironment(Agent)
<1>4. /\ m = [ok |-> m.ok, names |-> m.names, env |-> m.env]
      /\ m.ok = TRUE /\ m.names = {} /\ m.env = server
  BY <1>2
<1> HIDE DEF m, server
<1>5. AgentReached(m, s, 0)
  BY <1>1, <1>3, <1>4 DEF AgentReached, server
<1> QED BY <1>5 DEF m

\* One more variable.
LEMMA AgentSteps ==
    ASSUME NEW s, NEW k \in Nat, k # 0, NEW m, AgentReached(m, s, k - 1)
    PROVE  AgentReached(MergeAgentVariable(m, s[k]), s, k)
<1> DEFINE v == s[k]
           server == SelectedEnvironment(Agent)
           next == MergeAgentVariable(m, v)
           fits == /\ v.name \notin InvalidNames \cup m.names
                   /\ v.value \notin InvalidValues
                   /\ v.name \in Agent.client_env_allowlist
<1>0. 1 .. k = (1 .. k - 1) \cup {k}
  OBVIOUS
<1>1. /\ NamesBefore(s, k) = NamesBefore(s, k - 1) \cup {v.name}
      /\ m.ok => (AcceptableBefore(s, k) <=> fits)
      /\ ~m.ok => ~AcceptableBefore(s, k)
  BY <1>0, OneMoreName DEF AcceptableBefore, AgentReached
<1>2. CASE ~(m.ok /\ fits)
  <2>1. next = [m EXCEPT !.ok = FALSE]
    BY <1>2 DEF MergeAgentVariable
  <2>2. next = [ok |-> FALSE, names |-> m.names, env |-> m.env]
    BY <2>1 DEF AgentReached
  <2> HIDE DEF next, fits
  <2>3. ~AcceptableBefore(s, k)
    BY <1>1, <1>2
  <2>4. next.ok = FALSE /\ next.names = m.names /\ next.env = m.env
    BY <2>2
  <2>5. AgentReached(next, s, k)
    BY <2>2, <2>3, <2>4 DEF AgentReached
  <2> QED BY <2>5 DEF next
<1>3. CASE m.ok /\ fits
  <2> DEFINE one == Single(v.name, v.value)
             env == Over(m.env, one)
  <2>1. next = [m EXCEPT !.names = m.names \cup {v.name}, !.env = env]
    BY <1>3 DEF MergeAgentVariable
  <2>2. next = [ok |-> TRUE, names |-> m.names \cup {v.name}, env |-> env]
    <3> HIDE DEF env, next
    <3> QED BY <1>3, <2>1 DEF AgentReached
  <2>3. /\ DOMAIN env = DOMAIN m.env \cup {v.name}
        /\ \A n \in DOMAIN m.env : env[n] = m.env[n]
        /\ v.name \notin DOMAIN m.env => env[v.name] = v.value
    <3>1. DOMAIN one = {v.name} /\ one[v.name] = v.value
      BY SingleIs
    <3>2. env = Over(m.env, one)
      OBVIOUS
    <3> HIDE DEF one, env, v
    <3>3. DOMAIN env = DOMAIN m.env \cup DOMAIN one
      BY <3>2 DEF Over
    <3>4. \A n \in DOMAIN m.env : env[n] = m.env[n]
      BY <3>2 DEF Over
    <3>5. \A n \in DOMAIN one : n \notin DOMAIN m.env => env[n] = one[n]
      BY <3>2 DEF Over
    <3> QED BY <3>1, <3>3, <3>4, <3>5
  <2>4. /\ m.names = NamesBefore(s, k - 1)
        /\ DOMAIN m.env = DOMAIN server \cup NamesBefore(s, k - 1)
        /\ \A n \in DOMAIN server : m.env[n] = server[n]
        /\ \A i \in 1 .. k - 1 : s[i].name \notin DOMAIN server =>
                                   m.env[s[i].name] = s[i].value
    BY <1>3 DEF AgentReached
  <2> HIDE DEF env, server, next
  <2>5. DOMAIN env = DOMAIN server \cup NamesBefore(s, k)
    BY <1>1, <2>3, <2>4
  <2>6. \A n \in DOMAIN server : env[n] = server[n]
    BY <2>3, <2>4
  <2>7. ASSUME NEW i \in 1 .. k, s[i].name \notin DOMAIN server
        PROVE  env[s[i].name] = s[i].value
    <3>1. CASE i = k
      BY <1>3, <2>3, <2>4, <2>7, <3>1
    <3>2. CASE i \in 1 .. k - 1
      BY <2>3, <2>4, <2>7, <3>2 DEF NamesBefore
    <3> QED BY <1>0, <3>1, <3>2
  <2>8. AcceptableBefore(s, k)
    BY <1>1, <1>3
  <2> HIDE DEF fits
  <2>9. next.ok = TRUE /\ next.names = NamesBefore(s, k) /\ next.env = env
    BY <1>1, <2>2, <2>4
  <2>10. AgentReached(next, s, k)
    BY <2>2, <2>5, <2>6, <2>7, <2>8, <2>9 DEF AgentReached, server
  <2> QED BY <2>10 DEF next
<1> QED BY <1>2, <1>3

\* merge_agent_environment succeeds exactly for acceptable variables, by
\* induction on their number.
LEMMA AgentMerges ==
    ASSUME NEW s, Len(s) \in Nat
    PROVE  AgentReached(MergeAgentEnvironment(s), s, Len(s))
<1>1. PICK f : Stages("agent", f, s, Len(s)) /\ MergeAgentEnvironment(s) = f[Len(s)]
  BY AgentStages
<1> DEFINE T == {k \in 0 .. Len(s) : ~AgentReached(f[k], s, k)}
<1> SUFFICES ASSUME T # {} PROVE FALSE
  BY <1>1
<1>2. PICK m \in T : \A y \in T : m <= y
  <2> T \subseteq Nat
    OBVIOUS
  <2> HIDE DEF T
  <2> QED BY LeastNumber
<1>3. f[m] = LoopStep("agent", f, s, m)
  BY <1>1 DEF Stages
<1>4. CASE m = 0
  BY <1>3, <1>4, AgentStarts DEF LoopStep
<1>5. CASE m # 0
  <2>1. m - 1 \in 0 .. Len(s) /\ m - 1 \notin T
    BY <1>2, <1>5
  <2>2. AgentReached(f[m - 1], s, m - 1)
    BY <2>1
  <2>3. f[m] = MergeAgentVariable(f[m - 1], s[m])
    BY <1>3, <1>5 DEF LoopStep, LoopBody
  <2> QED BY <1>5, <2>2, <2>3, AgentSteps
<1> QED BY <1>4, <1>5

-----------------------------------------------------------------------------
(* The env of an MCP server.                                               *)

\* The first k entries are accepted.
WellFormedBefore(kind, s, k) ==
    /\ \A i \in 1 .. k : /\ s[i].name \notin InvalidNames \cup {NoString}
                         /\ s[i].value # NoString
    /\ kind = "array" => DistinctBefore(s, k)

\* What parse_client_environment has reached after k entries.
ParseReached(p, kind, s, k) ==
    /\ p = [ok |-> p.ok, env |-> p.env]
    /\ p.ok \in BOOLEAN
    /\ p.ok <=> WellFormedBefore(kind, s, k)
    /\ p.ok => /\ DOMAIN p.env = NamesBefore(s, k)
               /\ DistinctBefore(s, k) =>
                    \A i \in 1 .. k : p.env[s[i].name] = s[i].value

\* Nothing is taken yet.
LEMMA ParseStarts ==
    ASSUME NEW kind \in {Absent, "array", "object"}, NEW s
    PROVE  ParseReached(LoopStart(kind), kind, s, 0)
<1> DEFINE p == LoopStart(kind)
<1>1. WellFormedBefore(kind, s, 0) /\ NamesBefore(s, 0) = {}
  BY DEF WellFormedBefore, DistinctBefore, NamesBefore
<1>2. p = [ok |-> TRUE, env |-> NoEnv]
  <2>1. kind \notin {"agent", "servers"}
    BY DEF Absent
  <2> QED BY <2>1 DEF LoopStart
<1>3. p = [ok |-> p.ok, env |-> p.env] /\ p.ok = TRUE /\ DOMAIN p.env = {}
  <2>1. DOMAIN NoEnv = {}
    BY DEF NoEnv
  <2> QED BY <1>2, <2>1
<1>4. 1 .. 0 = {}
  OBVIOUS
<1> HIDE DEF p
<1>5. ParseReached(p, kind, s, 0)
  BY <1>1, <1>3, <1>4 DEF ParseReached
<1> QED BY <1>5 DEF p

\* One more entry.
LEMMA ParseSteps ==
    ASSUME NEW kind, NEW s, NEW k \in Nat, k # 0, NEW p, ParseReached(p, kind, s, k - 1)
    PROVE  ParseReached(ParseEntry(kind, p, s[k]), kind, s, k)
<1> DEFINE e == s[k]
           next == ParseEntry(kind, p, e)
           fits == /\ e.name # NoString /\ e.value # NoString
                   /\ e.name \notin InvalidNames
                   /\ kind = "array" => e.name \notin DOMAIN p.env
<1>0. 1 .. k = (1 .. k - 1) \cup {k}
  OBVIOUS
<1>1. /\ NamesBefore(s, k) = NamesBefore(s, k - 1) \cup {e.name}
      /\ p.ok => (WellFormedBefore(kind, s, k) <=> fits)
      /\ ~p.ok => ~WellFormedBefore(kind, s, k)
  <2>1. p.ok => DOMAIN p.env = NamesBefore(s, k - 1)
    BY DEF ParseReached
  <2>2. p.ok <=> WellFormedBefore(kind, s, k - 1)
    BY DEF ParseReached
  <2>3. WellFormedBefore(kind, s, k) <=>
          /\ WellFormedBefore(kind, s, k - 1)
          /\ e.name \notin InvalidNames \cup {NoString} /\ e.value # NoString
          /\ kind = "array" => e.name \notin NamesBefore(s, k - 1)
    BY <1>0, OneMoreName DEF WellFormedBefore
  <2> QED BY <2>1, <2>2, <2>3, OneMoreName
<1>2. CASE ~(p.ok /\ fits)
  <2>1. next = [ok |-> FALSE, env |-> NoEnv]
    BY <1>2 DEF ParseEntry, Failure
  <2> HIDE DEF next, fits
  <2>2. ~WellFormedBefore(kind, s, k)
    BY <1>1, <1>2
  <2>3. next.ok = FALSE /\ next.env = NoEnv
    BY <2>1
  <2>4. ParseReached(next, kind, s, k)
    BY <2>1, <2>2, <2>3 DEF ParseReached
  <2> QED BY <2>4 DEF next
<1>3. CASE p.ok /\ fits
  <2> DEFINE one == Single(e.name, e.value)
             env == Over(one, p.env)
  <2>1. next = [p EXCEPT !.env = env]
    BY <1>3 DEF ParseEntry
  <2>2. next = [ok |-> TRUE, env |-> env]
    <3> HIDE DEF env, next
    <3> QED BY <1>3, <2>1 DEF ParseReached
  <2>3. /\ DOMAIN env = DOMAIN p.env \cup {e.name}
        /\ \A n \in DOMAIN p.env : n # e.name => env[n] = p.env[n]
        /\ env[e.name] = e.value
    <3>1. DOMAIN one = {e.name} /\ one[e.name] = e.value
      BY SingleIs
    <3>2. env = Over(one, p.env)
      OBVIOUS
    <3> HIDE DEF one, env, e
    <3>3. DOMAIN env = DOMAIN p.env \cup DOMAIN one
      BY <3>2 DEF Over
    <3>4. \A n \in DOMAIN one : env[n] = one[n]
      BY <3>2 DEF Over
    <3>5. \A n \in DOMAIN p.env : n \notin DOMAIN one => env[n] = p.env[n]
      BY <3>2 DEF Over
    <3> QED BY <3>1, <3>3, <3>4, <3>5
  <2>4. /\ DOMAIN p.env = NamesBefore(s, k - 1)
        /\ DistinctBefore(s, k - 1) => \A i \in 1 .. k - 1 : p.env[s[i].name] = s[i].value
    BY <1>3 DEF ParseReached
  <2> HIDE DEF env, next
  <2>5. DOMAIN env = NamesBefore(s, k)
    BY <1>1, <2>3, <2>4
  <2>6. ASSUME DistinctBefore(s, k), NEW i \in 1 .. k
        PROVE  env[s[i].name] = s[i].value
    <3>1. CASE i = k
      BY <2>3, <3>1
    <3>2. CASE i \in 1 .. k - 1
      <4>1. DistinctBefore(s, k - 1) /\ e.name \notin NamesBefore(s, k - 1)
        BY <2>6, OneMoreName
      <4>2. s[i].name \in NamesBefore(s, k - 1)
        BY <3>2 DEF NamesBefore
      <4> QED BY <2>3, <2>4, <3>2, <4>1, <4>2
    <3> QED BY <1>0, <3>1, <3>2
  <2>7. WellFormedBefore(kind, s, k)
    BY <1>1, <1>3
  <2> HIDE DEF fits
  <2>8. next.ok = TRUE /\ next.env = env
    BY <2>2
  <2>9. ParseReached(next, kind, s, k)
    BY <2>2, <2>5, <2>6, <2>7, <2>8 DEF ParseReached
  <2> QED BY <2>9 DEF next
<1> QED BY <1>2, <1>3

\* parse_client_environment succeeds exactly for well-formed entries, by
\* induction on their number.
LEMMA EntriesParse ==
    ASSUME NEW kind \in {Absent, "array", "object"}, NEW s, Len(s) \in Nat
    PROVE  ParseReached(ParseEntries(kind, s), kind, s, Len(s))
<1>1. PICK f : Stages(kind, f, s, Len(s)) /\ ParseEntries(kind, s) = f[Len(s)]
  BY ParseStages
<1> DEFINE T == {k \in 0 .. Len(s) : ~ParseReached(f[k], kind, s, k)}
<1> SUFFICES ASSUME T # {} PROVE FALSE
  BY <1>1
<1>2. PICK m \in T : \A y \in T : m <= y
  <2> T \subseteq Nat
    OBVIOUS
  <2> HIDE DEF T
  <2> QED BY LeastNumber
<1>3. f[m] = LoopStep(kind, f, s, m)
  BY <1>1 DEF Stages
<1>4. CASE m = 0
  BY <1>3, <1>4, ParseStarts DEF LoopStep
<1>5. CASE m # 0
  <2>1. m - 1 \in 0 .. Len(s) /\ m - 1 \notin T
    BY <1>2, <1>5
  <2>2. ParseReached(f[m - 1], kind, s, m - 1)
    BY <2>1
  <2>3. f[m] = ParseEntry(kind, f[m - 1], s[m])
    BY <1>3, <1>5 DEF LoopStep, LoopBody, Absent
  <2> QED BY <1>5, <2>2, <2>3, ParseSteps
<1> QED BY <1>4, <1>5

\* The values of entries with distinct names.
LEMMA ValueOf ==
    ASSUME NEW s, s \in Seq(Range(s)), DistinctNames(s), NEW i \in DOMAIN s
    PROVE  ValuesOf(s, s[i].name) = {s[i].value}
<1>1. s[i] \in Range(s)
  BY DEF Range
<1>2. ASSUME NEW x \in Range(s), x.name = s[i].name PROVE x = s[i]
  <2>1. PICK j \in DOMAIN s : x = s[j]
    BY DEF Range
  <2> QED BY <1>2, <2>1 DEF DistinctNames
<1> QED BY <1>1, <1>2 DEF ValuesOf

\* env has the server's variables and, beside them, the client's allowed ones,
\* each name once.
Filled(env, config, s) ==
    LET server == SelectedEnvironment(config)
    IN /\ s \in Seq(Range(s)) /\ DistinctNames(s)
       /\ DOMAIN env = DOMAIN server
                       \cup (config.client_env_allowlist \cap NamesBefore(s, Len(s)))
       /\ \A n \in DOMAIN server : env[n] = server[n]
       /\ \A i \in 1 .. Len(s) :
             s[i].name \in config.client_env_allowlist \ DOMAIN server =>
               env[s[i].name] = s[i].value

\* Such an environment has the values docs/configuration.md promises.
LEMMA FirstWins ==
    ASSUME NEW config, NEW s, NEW env, Filled(env, config, s), NEW n
    PROVE  {env[m] : m \in DOMAIN env \cap {n}} = Promised(config, s, n)
<1> DEFINE host == [h \in config.pass_env \cap DOMAIN Host |-> Host[h]]
           server == SelectedEnvironment(config)
<1>1. /\ DOMAIN server = DOMAIN config.env \cup (config.pass_env \cap DOMAIN Host)
      /\ \A h \in DOMAIN config.env : server[h] = config.env[h]
      /\ \A h \in config.pass_env \cap DOMAIN Host :
            h \notin DOMAIN config.env => server[h] = Host[h]
  <2>1. server = Over(config.env, host)
    BY DEF SelectedEnvironment
  <2>2. /\ DOMAIN host = config.pass_env \cap DOMAIN Host
        /\ \A h \in DOMAIN host : host[h] = Host[h]
    OBVIOUS
  <2> HIDE DEF host, server
  <2>3. DOMAIN server = DOMAIN config.env \cup DOMAIN host
    BY <2>1 DEF Over
  <2>4. \A h \in DOMAIN config.env : server[h] = config.env[h]
    BY <2>1 DEF Over
  <2>5. \A h \in DOMAIN host : h \notin DOMAIN config.env => server[h] = host[h]
    BY <2>1 DEF Over
  <2> QED BY <2>2, <2>3, <2>4, <2>5
<1>2. /\ s \in Seq(Range(s)) /\ DOMAIN s = 1 .. Len(s) /\ DistinctNames(s)
      /\ DOMAIN env = DOMAIN server
                      \cup (config.client_env_allowlist \cap NamesBefore(s, Len(s)))
      /\ \A h \in DOMAIN server : env[h] = server[h]
      /\ \A i \in 1 .. Len(s) :
            s[i].name \in config.client_env_allowlist \ DOMAIN server =>
              env[s[i].name] = s[i].value
  BY DEF Filled
<1> HIDE DEF server
<1>3. CASE n \in DOMAIN server
  <2>1. Promised(config, s, n) = {server[n]}
    BY <1>1, <1>3 DEF Promised
  <2> QED BY <1>2, <1>3, <2>1
<1>4. CASE n \notin DOMAIN server /\ n \in config.client_env_allowlist
  <2>1. Promised(config, s, n) = ValuesOf(s, n)
    BY <1>1, <1>4 DEF Promised
  <2>2. CASE n \in NamesBefore(s, Len(s))
    <3>1. PICK i \in 1 .. Len(s) : n = s[i].name
      BY <2>2 DEF NamesBefore
    <3>2. ValuesOf(s, n) = {s[i].value}
      BY <1>2, <3>1, ValueOf
    <3>3. n \in DOMAIN env /\ env[n] = s[i].value
      BY <1>2, <1>4, <2>2, <3>1
    <3> QED BY <2>1, <3>2, <3>3
  <2>3. CASE n \notin NamesBefore(s, Len(s))
    <3>1. ValuesOf(s, n) = {}
      BY <1>2, <2>3 DEF ValuesOf, Range, NamesBefore
    <3>2. n \notin DOMAIN env
      BY <1>2, <1>4, <2>3
    <3> QED BY <2>1, <3>1, <3>2
  <2> QED BY <2>2, <2>3
<1>5. CASE n \notin DOMAIN server /\ n \notin config.client_env_allowlist
  <2>1. Promised(config, s, n) = {}
    BY <1>1, <1>5 DEF Promised
  <2>2. n \notin DOMAIN env
    BY <1>2, <1>5
  <2> QED BY <2>1, <2>2
<1> QED BY <1>3, <1>4, <1>5

\* What a well-formed env is for the loop over its entries.
LEMMA WellFormedIs ==
    ASSUME NEW incoming, IsEnv(incoming)
    PROVE  LET s == incoming.entries
           IN /\ Len(s) \in Nat /\ DOMAIN s = 1 .. Len(s)
              /\ DistinctNames(s) <=> DistinctBefore(s, Len(s))
              /\ WellFormed(incoming) <=>
                   incoming.kind # "other" /\ WellFormedBefore(incoming.kind, s, Len(s))
              /\ WellFormed(incoming) => DistinctNames(s)
<1> DEFINE s == incoming.entries
<1>1. s \in Seq(Range(s))
  BY DEF IsEnv
<1> HIDE DEF s
<1>2. Len(s) \in Nat /\ DOMAIN s = 1 .. Len(s)
  BY <1>1
<1>3. DistinctNames(s) <=> DistinctBefore(s, Len(s))
  BY <1>2 DEF DistinctNames, DistinctBefore
<1>4. (\A e \in Range(s) : e.name \notin InvalidNames \cup {NoString} /\ e.value # NoString)
      <=> (\A i \in 1 .. Len(s) : /\ s[i].name \notin InvalidNames \cup {NoString}
                                  /\ s[i].value # NoString)
  BY <1>2 DEF Range
<1>5. WellFormed(incoming) <=>
        incoming.kind # "other" /\ WellFormedBefore(incoming.kind, s, Len(s))
  BY <1>3, <1>4 DEF WellFormed, WellFormedBefore, s
<1>6. WellFormed(incoming) => DistinctNames(s)
  <2>1. CASE incoming.kind = "array"
    BY <2>1 DEF WellFormed, s
  <2>2. CASE incoming.kind = "object"
    BY <2>2 DEF IsEnv, s
  <2>3. CASE incoming.kind \in {Absent, "other"}
    <3>1. s = << >>
      BY <2>3 DEF IsEnv, s
    <3> QED BY <3>1 DEF DistinctNames
  <2> QED BY <2>1, <2>2, <2>3 DEF IsEnv
<1> QED BY <1>2, <1>3, <1>5, <1>6 DEF s

\* merge_mcp_environment fails exactly for a malformed env, and gives every
\* variable the value that is promised.
LEMMA McpMerges ==
    ASSUME NEW config, NEW incoming, IsEnv(incoming)
    PROVE  LET server == SelectedEnvironment(config)
               s == incoming.entries
               merged == MergeMcpEnvironment(server, config.client_env_allowlist, incoming)
           IN /\ merged.ok \in BOOLEAN
              /\ merged.ok <=> WellFormed(incoming)
              /\ merged.ok =>
                   /\ DOMAIN merged.env = DOMAIN server \cup
                        (config.client_env_allowlist \cap NamesBefore(s, Len(s)))
                   /\ \A n : {merged.env[m] : m \in DOMAIN merged.env \cap {n}} =
                               Promised(config, s, n)
<1> DEFINE server == SelectedEnvironment(config)
           allowed == config.client_env_allowlist
           s == incoming.entries
           p == ParseClientEnvironment(incoming)
           client == [n \in allowed \cap DOMAIN p.env |-> p.env[n]]
           merged == MergeMcpEnvironment(server, allowed, incoming)
<1>1. merged = [p EXCEPT !.env = Over(server, client)]
  BY DEF MergeMcpEnvironment
<1>2. CASE incoming.kind = "other"
  <2>1. p = [ok |-> FALSE, env |-> NoEnv]
    BY <1>2 DEF ParseClientEnvironment, Failure
  <2> HIDE DEF p, client, server, merged
  <2>2. merged = [ok |-> FALSE, env |-> Over(server, client)]
    BY <1>1, <2>1
  <2>3. merged.ok = FALSE /\ ~WellFormed(incoming)
    BY <1>2, <2>2 DEF WellFormed
  <2> QED BY <2>3 DEF merged, server
<1>3. CASE incoming.kind # "other"
  <2>1. p = ParseEntries(incoming.kind, s) /\ incoming.kind \in {Absent, "array", "object"}
    BY <1>3 DEF ParseClientEnvironment, IsEnv
  <2>2. Len(s) \in Nat /\ DOMAIN s = 1 .. Len(s) /\ s \in Seq(Range(s))
    BY WellFormedIs DEF IsEnv
  <2> HIDE DEF p, client, server, merged, s
  <2>3. ParseReached(p, incoming.kind, s, Len(s))
    BY <2>1, <2>2, EntriesParse
  <2>4. merged = [ok |-> p.ok, env |-> Over(server, client)] /\ p.ok \in BOOLEAN
    BY <1>1, <2>3 DEF ParseReached
  <2>5. p.ok <=> WellFormed(incoming)
    BY <1>3, <2>3, WellFormedIs DEF ParseReached, s
  <2>6. merged.ok = p.ok /\ merged.env = Over(server, client)
    BY <2>4
  <2>7. ASSUME p.ok
        PROVE  /\ DOMAIN merged.env = DOMAIN server \cup (allowed \cap NamesBefore(s, Len(s)))
               /\ \A n : {merged.env[m] : m \in DOMAIN merged.env \cap {n}} =
                           Promised(config, s, n)
    <3>1. DistinctNames(s) /\ DistinctBefore(s, Len(s))
      BY <2>5, <2>7, WellFormedIs DEF s
    <3>2. /\ DOMAIN p.env = NamesBefore(s, Len(s))
          /\ \A i \in 1 .. Len(s) : p.env[s[i].name] = s[i].value
      BY <2>3, <2>7, <3>1 DEF ParseReached
    <3>3. /\ DOMAIN client = allowed \cap NamesBefore(s, Len(s))
          /\ \A n \in DOMAIN client : client[n] = p.env[n]
      BY <3>2 DEF client
    <3> DEFINE env == merged.env
    <3>4. env = Over(server, client)
      BY <2>6
    <3> HIDE DEF env
    <3>5. DOMAIN env = DOMAIN server \cup DOMAIN client
      BY <3>4 DEF Over
    <3>6. \A n \in DOMAIN server : env[n] = server[n]
      BY <3>4 DEF Over
    <3>7. \A n \in DOMAIN client : n \notin DOMAIN server => env[n] = client[n]
      BY <3>4 DEF Over
    <3>8. ASSUME NEW i \in 1 .. Len(s), s[i].name \in allowed, s[i].name \notin DOMAIN server
          PROVE  env[s[i].name] = s[i].value
      <4>1. s[i].name \in DOMAIN client
        BY <3>3, <3>8 DEF NamesBefore
      <4> QED BY <3>2, <3>3, <3>7, <3>8, <4>1
    <3>9. ASSUME NEW n
          PROVE  {env[m] : m \in DOMAIN env \cap {n}} = Promised(config, s, n)
      <4>1. Filled(env, config, s)
        BY <2>2, <3>1, <3>3, <3>5, <3>6, <3>8 DEF Filled, server
      <4> QED BY <4>1, FirstWins
    <3> QED BY <3>3, <3>5, <3>9 DEF env
  <2> QED BY <2>4, <2>5, <2>6, <2>7 DEF merged, server, s
<1> QED BY <1>2, <1>3

\* The entries of a replaced server are its variables, each once.
LEMMA Listed ==
    ASSUME NEW name, NEW env, IsFiniteSet(DOMAIN env)
    PROVE  LET es == ConfiguredMcp(name, env).env.entries
           IN /\ DistinctNames(es)
              /\ \A n : ValuesOf(es, n) = {env[m] : m \in DOMAIN env \cap {n}}
<1> DEFINE pair == [n \in DOMAIN env |-> [name |-> n, value |-> env[n]]]
           S == {[name |-> n, value |-> env[n]] : n \in DOMAIN env}
           k == Cardinality(S)
           es == SetToSeq(S)
<1>1. ConfiguredMcp(name, env).env.entries = es
  BY DEF ConfiguredMcp
<1>2. IsFiniteSet(S)
  <2>1. pair \in Surjection(DOMAIN env, S)
    BY DEF Surjection
  <2> HIDE DEF pair, S
  <2> QED BY <2>1, FS_Surjection
<1>3. es \in [1 .. k -> S] /\ IsInjective(es)
  <2> HIDE DEF S
  <2>1. k \in Nat /\ ExistsBijection(1 .. k, S)
    BY <1>2, FS_CardinalityType
  <2>2. \E f \in [1 .. k -> S] : IsInjective(f)
    BY <2>1 DEF ExistsBijection, Bijection, Injection
  <2> QED BY <2>2 DEF SetToSeq
<1>4. es \in Surjection(1 .. k, S) /\ k \in Nat
  <2> HIDE DEF S, es
  <2>1. k \in Nat
    BY <1>2, FS_CardinalityType
  <2>2. Cardinality(1 .. k) = k
    BY <2>1, FS_Interval
  <2>3. es \in Injection(1 .. k, S)
    BY <1>3 DEF Injection
  <2> QED BY <1>2, <2>1, <2>2, <2>3, FS_Injection
<1>5. Range(es) = S
  <2> HIDE DEF S, es
  <2> QED BY <1>3, <1>4 DEF Surjection, Range
<1>6. \A x \in S : x = [name |-> x.name, value |-> env[x.name]] /\ x.name \in DOMAIN env
  OBVIOUS
<1> HIDE DEF es
<1>7. DistinctNames(es)
  <2> SUFFICES ASSUME NEW i \in 1 .. k, NEW j \in 1 .. k, es[i].name = es[j].name
               PROVE  i = j
    <3> HIDE DEF S
    <3> QED BY <1>3 DEF DistinctNames
  <2>1. es[i] \in S /\ es[j] \in S
    BY <1>3
  <2> HIDE DEF S
  <2>2. es[i] = es[j]
    BY <1>6, <2>1
  <2> QED BY <1>3, <2>2 DEF IsInjective
<1>8. ASSUME NEW n PROVE ValuesOf(es, n) = {env[m] : m \in DOMAIN env \cap {n}}
  <2>1. ValuesOf(es, n) = {x.value : x \in {y \in S : y.name = n}}
    BY <1>5 DEF ValuesOf
  <2>2. \A x \in S : x.value = env[x.name]
    OBVIOUS
  <2>3. ASSUME NEW m \in DOMAIN env PROVE \E x \in S : x.name = m
    <3> DEFINE x == [name |-> m, value |-> env[m]]
    <3>1. x \in S /\ x.name = m
      OBVIOUS
    <3> HIDE DEF x, S
    <3> QED BY <3>1
  <2> HIDE DEF S
  <2> QED BY <1>6, <2>1, <2>2, <2>3
<1> QED BY <1>1, <1>7, <1>8

\* There are finitely many names in a sequence.
LEMMA NamesFinite ==
    ASSUME NEW s, NEW k \in Nat
    PROVE  IsFiniteSet(NamesBefore(s, k))
<1> DEFINE g == [i \in 1 .. k |-> s[i].name]
<1>1. g \in Surjection(1 .. k, NamesBefore(s, k))
  BY DEF Surjection, NamesBefore
<1>2. IsFiniteSet(1 .. k)
  BY FS_Interval
<1> HIDE DEF g
<1> QED BY <1>1, <1>2, FS_Surjection

-----------------------------------------------------------------------------
(* The MCP servers of a session/new.                                       *)

\* A server of a session/new that apply_mcp accepts, and what replaces it.
Good(server) == server.name \in DOMAIN McpServers /\ WellFormed(server.env)

Merged(server) ==
    MergeMcpEnvironment(SelectedEnvironment(McpServers[server.name]),
                        McpServers[server.name].client_env_allowlist, server.env)

Made(server) == ConfiguredMcp(server.name, Merged(server).env)

\* Its environment is the promised one.
LEMMA MadeIs ==
    ASSUME NEW server, Good(server), IsEnv(server.env)
    PROVE  LET after == Made(server)
           IN /\ after.name = server.name /\ after.command = "server"
              /\ DistinctNames(after.env.entries)
              /\ \A n : ValuesOf(after.env.entries, n) =
                          Promised(McpServers[server.name], server.env.entries, n)
<1> DEFINE config == McpServers[server.name]
           selected == SelectedEnvironment(config)
           s == server.env.entries
           env == Merged(server).env
<1>1. /\ DOMAIN env = DOMAIN selected \cup
                        (config.client_env_allowlist \cap NamesBefore(s, Len(s)))
      /\ \A n : {env[m] : m \in DOMAIN env \cap {n}} = Promised(config, s, n)
  BY McpMerges DEF Good, Merged
<1>2. IsFiniteSet(DOMAIN env)
  <2>1. IsFiniteSet(DOMAIN config.env) /\ IsFiniteSet(config.pass_env)
    BY PolicyAssumption DEF Good
  <2>2. DOMAIN selected = DOMAIN config.env \cup (config.pass_env \cap DOMAIN Host)
    BY DEF SelectedEnvironment, Over
  <2>3. IsFiniteSet(NamesBefore(s, Len(s)))
    BY NamesFinite, WellFormedIs
  <2> DEFINE P == config.pass_env \cap DOMAIN Host
             C == config.client_env_allowlist \cap NamesBefore(s, Len(s))
  <2>4. IsFiniteSet(P) /\ IsFiniteSet(C)
    <3>1. P \in SUBSET config.pass_env /\ C \in SUBSET NamesBefore(s, Len(s))
      OBVIOUS
    <3> HIDE DEF P, C, config
    <3> QED BY <2>1, <2>3, <3>1, FS_Subset
  <2>5. DOMAIN env = (DOMAIN config.env \cup P) \cup C
    BY <1>1, <2>2
  <2> HIDE DEF P, C, config, env
  <2>6. IsFiniteSet(DOMAIN config.env \cup P)
    BY <2>1, <2>4, FS_Union
  <2>7. IsFiniteSet((DOMAIN config.env \cup P) \cup C)
    BY <2>4, <2>6, FS_Union
  <2> QED BY <2>5, <2>7
<1> DEFINE after == Made(server)
<1>3. after.name = server.name /\ after.command = "server"
  BY DEF Made, ConfiguredMcp
<1>4. after = ConfiguredMcp(server.name, env)
  BY DEF Made
<1> HIDE DEF env, after, config, selected
<1>5. /\ DistinctNames(after.env.entries)
      /\ \A n : ValuesOf(after.env.entries, n) = {env[m] : m \in DOMAIN env \cap {n}}
  BY <1>2, <1>4, Listed
<1> QED BY <1>1, <1>3, <1>5 DEF after, config

\* What apply_mcp has reached after k servers.
ServersReached(r, s, k) ==
    /\ r = [ok |-> r.ok, servers |-> r.servers]
    /\ r.ok \in BOOLEAN
    /\ r.ok <=> \A i \in 1 .. k : Good(s[i])
    /\ r.ok => /\ r.servers \in Seq({Made(s[i]) : i \in 1 .. Len(s)})
               /\ Len(r.servers) = k
               /\ \A i \in 1 .. k : r.servers[i] = Made(s[i])

\* Nothing is taken yet.
LEMMA ServersStart ==
    ASSUME NEW s
    PROVE  ServersReached(LoopStart("servers"), s, 0)
<1> DEFINE r == LoopStart("servers")
           S == {Made(s[i]) : i \in 1 .. Len(s)}
<1>1. r = [ok |-> TRUE, servers |-> << >>]
  BY DEF LoopStart
<1>2. /\ r = [ok |-> r.ok, servers |-> r.servers]
      /\ r.ok = TRUE /\ r.servers = << >>
  BY <1>1
<1>3. 1 .. 0 = {}
  OBVIOUS
<1> HIDE DEF r, S
<1>4. r.servers \in Seq(S) /\ Len(r.servers) = 0
  BY <1>2
<1>5. ServersReached(r, s, 0)
  BY <1>2, <1>3, <1>4 DEF ServersReached, S
<1> QED BY <1>5 DEF r

\* One more server.
LEMMA ServersStep ==
    ASSUME NEW s, Len(s) \in Nat, NEW k \in 1 .. Len(s), IsEnv(s[k].env),
           NEW r, ServersReached(r, s, k - 1)
    PROVE  ServersReached(ReplaceMcp(r, s[k]), s, k)
<1> DEFINE server == s[k]
           next == ReplaceMcp(r, server)
           S == {Made(s[i]) : i \in 1 .. Len(s)}
<1>0. 1 .. k = (1 .. k - 1) \cup {k}
  OBVIOUS
<1>1. (\A i \in 1 .. k : Good(s[i])) <=> r.ok /\ Good(server)
  BY <1>0 DEF ServersReached
<1>2. CASE ~(r.ok /\ server.name \in DOMAIN McpServers)
  <2>1. next = [r EXCEPT !.ok = FALSE]
    BY <1>2 DEF ReplaceMcp
  <2> HIDE DEF next
  <2>2. next = [ok |-> FALSE, servers |-> r.servers]
    BY <2>1 DEF ServersReached
  <2>3. next.ok = FALSE /\ next.servers = r.servers
    BY <2>2
  <2>4. ~ \A i \in 1 .. k : Good(s[i])
    BY <1>1, <1>2 DEF Good
  <2>5. ServersReached(next, s, k)
    BY <2>2, <2>3, <2>4 DEF ServersReached
  <2> QED BY <2>5 DEF next
<1>3. CASE r.ok /\ server.name \in DOMAIN McpServers
  <2> DEFINE merged == Merged(server)
             servers == Append(r.servers, Made(server))
  <2>1. next = [ok |-> merged.ok, servers |-> servers]
    BY <1>3 DEF ReplaceMcp, Merged, Made
  <2>2. merged.ok \in BOOLEAN /\ (merged.ok <=> WellFormed(server.env))
    BY McpMerges DEF Merged
  <2> HIDE DEF next, merged
  <2>3. merged.ok <=> \A i \in 1 .. k : Good(s[i])
    BY <1>1, <1>3, <2>2 DEF Good
  <2>4. /\ r.servers \in Seq(S) /\ Len(r.servers) = k - 1
        /\ \A i \in 1 .. k - 1 : r.servers[i] = Made(s[i])
    BY <1>3 DEF ServersReached
  <2>5. Made(server) \in S
    OBVIOUS
  <2> DEFINE made == Made(server)
  <2> HIDE DEF S, made
  <2>6. /\ servers \in Seq(S) /\ Len(servers) = k
        /\ \A i \in 1 .. k - 1 : servers[i] = r.servers[i]
        /\ servers[k] = Made(server)
    <3>1. servers = Append(r.servers, made) /\ made \in S
      BY <2>5 DEF made
    <3> HIDE DEF servers
    <3>2. servers \in Seq(S) /\ Len(servers) = k
      BY <2>4, <3>1
    <3>3. /\ \A i \in 1 .. k - 1 : servers[i] = r.servers[i]
          /\ servers[k] = made
      BY <2>4, <3>1
    <3> QED BY <3>2, <3>3 DEF made
  <2> HIDE DEF servers
  <2>7. \A i \in 1 .. k : servers[i] = Made(s[i])
    BY <1>0, <2>4, <2>6
  <2>8. next.ok = merged.ok /\ next.servers = servers
    BY <2>1
  <2>9. ServersReached(next, s, k)
    BY <2>1, <2>2, <2>3, <2>6, <2>7, <2>8 DEF ServersReached, S
  <2> QED BY <2>9 DEF next
<1> QED BY <1>2, <1>3

\* apply_mcp replaces every server, or fails as one of them is not good; by
\* induction on their number.
LEMMA ServersReplace ==
    ASSUME NEW s, s \in Seq(Range(s)), \A server \in Range(s) : IsEnv(server.env)
    PROVE  ServersReached(ReplaceServers(s), s, Len(s))
<1>0. Len(s) \in Nat /\ \A i \in 1 .. Len(s) : IsEnv(s[i].env)
  BY DEF Range
<1>1. PICK f : Stages("servers", f, s, Len(s)) /\ ReplaceServers(s) = f[Len(s)]
  BY <1>0, ServerStages
<1> DEFINE T == {k \in 0 .. Len(s) : ~ServersReached(f[k], s, k)}
<1> SUFFICES ASSUME T # {} PROVE FALSE
  BY <1>0, <1>1
<1>2. PICK m \in T : \A y \in T : m <= y
  <2> T \subseteq Nat
    BY <1>0
  <2> HIDE DEF T
  <2> QED BY LeastNumber
<1>3. f[m] = LoopStep("servers", f, s, m)
  BY <1>1 DEF Stages
<1>4. CASE m = 0
  BY <1>3, <1>4, ServersStart DEF LoopStep
<1>5. CASE m # 0
  <2>1. m \in 1 .. Len(s) /\ m - 1 \in 0 .. Len(s) /\ m - 1 \notin T
    BY <1>0, <1>2, <1>5
  <2>2. ServersReached(f[m - 1], s, m - 1)
    BY <2>1
  <2>3. f[m] = ReplaceMcp(f[m - 1], s[m])
    BY <1>3, <1>5 DEF LoopStep, LoopBody
  <2> QED BY <1>0, <2>1, <2>2, <2>3, ServersStep
<1> QED BY <1>4, <1>5

-----------------------------------------------------------------------------
(* The session.                                                            *)

\* The line handled last is one of the client's, and apply was used on it.
ExchangeInv ==
    /\ policy \in Policies
    /\ \/ exchange = NoExchange /\ handled = 0
       \/ exchange.line \in Lines /\ exchange.outcome = Apply(exchange.line)

\* The agent was refused or started for the environment that was asked for.
AgentInv ==
    LET merged == MergeAgentEnvironment(agent.asked)
    IN /\ agent = [state |-> agent.state, asked |-> agent.asked, env |-> agent.env]
       /\ agent.state \in {"opening", "refused", "running", "failed"}
       /\ agent.state # "opening" =>
            /\ agent.asked \in Environments
            /\ agent.state = "refused" <=> ~merged.ok
            /\ agent.state # "refused" => agent.env = merged.env

\* What Apply promises about a line that it forwards.
Keeps(line, outcome) ==
    LET after == outcome.line
        moves == policy.rewrite_cwd /\ line.method \in Lifecycle
        controls == policy.mcp # "passthrough" /\ line.method = "session/new"
    IN outcome.kind = "forward" =>
         /\ after.shape = line.shape /\ after.method = line.method
         /\ ~moves /\ ~controls => after = line
         /\ ~moves /\ line.params.kind = "object" => after.params.cwd = line.params.cwd
         /\ ~controls /\ line.params.kind = "object" => after.params.mcp = line.params.mcp
         /\ moves /\ line.shape = "object" => after.params.cwd = "workspace"

\* Parsing a line and printing it again leaves what the policy looks at.
LEMMA RereadKeeps ==
    ASSUME NEW line, IsLine(line)
    PROVE  LET r == Reread(line)
           IN /\ IsLine(r)
              /\ r.shape = line.shape /\ r.method = line.method /\ r.params = line.params
<1> DEFINE i == IF line.id = WideNumber THEN "rounded" ELSE line.id
           o == IF line.other = WideNumber THEN "rounded" ELSE line.other
           r == [shape |-> line.shape, text |-> line.text, method |-> line.method,
                 id |-> i, params |-> line.params, other |-> o]
<1>1. Reread(line) = r
  <2>1. Reread(line) = [line EXCEPT !.id = i, !.other = o]
    BY DEF Reread
  <2> HIDE DEF i, o
  <2> QED BY <2>1 DEF IsLine
<1>2. IsLine(r) /\ r.shape = line.shape /\ r.method = line.method /\ r.params = line.params
  <2> HIDE DEF i, o
  <2> QED BY DEF IsLine
<1> HIDE DEF r
<1> QED BY <1>1, <1>2

\* Only session/new has its MCP servers replaced, and not by passthrough.
LEMMA EditKeeps ==
    ASSUME policy \in Policies, NEW line, IsLine(line), line.params.kind # "other",
           Edit(line).kind = "forward"
    PROVE  LET after == Edit(line).line
           IN /\ after.shape = line.shape /\ after.method = line.method
              /\ policy.rewrite_cwd => after.params.cwd = "workspace"
              /\ ~policy.rewrite_cwd /\ line.params.kind = "object" =>
                   after.params.cwd = line.params.cwd
              /\ line.params.kind = "object"
                 /\ (policy.mcp = "passthrough" \/ line.method # "session/new") =>
                   after.params.mcp = line.params.mcp
<1> DEFINE given == IF line.params.kind = Absent THEN EmptyParams ELSE line.params
           moved == IF policy.rewrite_cwd THEN [given EXCEPT !.cwd = "workspace"] ELSE given
           mcp == IF line.method = "session/new" THEN ApplyMcp(moved.mcp)
                                                 ELSE [ok |-> TRUE, mcp |-> moved.mcp]
           params == [moved EXCEPT !.mcp = mcp.mcp]
           after == [line EXCEPT !.params = params, !.text = "canonical"]
<1>1. given = [kind |-> given.kind, cwd |-> given.cwd, mcp |-> given.mcp]
  BY DEF IsLine, EmptyParams
<1>2. /\ moved = [kind |-> moved.kind, cwd |-> moved.cwd, mcp |-> moved.mcp]
      /\ moved.mcp = given.mcp
      /\ moved.cwd = IF policy.rewrite_cwd THEN "workspace" ELSE given.cwd
  <2> HIDE DEF given
  <2> QED BY <1>1
<1>3. Edit(line) = Forward(after)
  <2>1. Edit(line) = IF mcp.ok THEN Forward(after) ELSE Reject(line)
    BY DEF Edit
  <2>2. Reject(line).kind # "forward"
    BY DEF Reject
  <2> HIDE DEF mcp, after
  <2> QED BY <2>1, <2>2
<1>4. policy.mcp = "passthrough" \/ line.method # "session/new" => mcp.mcp = moved.mcp
  <2> HIDE DEF moved
  <2> QED BY DEF ApplyMcp
<1>5. params.cwd = moved.cwd /\ params.mcp = mcp.mcp
  <2> HIDE DEF moved, mcp
  <2> QED BY <1>2
<1>6. /\ after.shape = line.shape /\ after.method = line.method
      /\ after.params = params
  <2> HIDE DEF params
  <2> QED BY DEF IsLine
<1>7. line.params.kind = "object" => given = line.params
  BY DEF Absent
<1>8. Edit(line).line = after
  BY <1>3 DEF Forward
<1> HIDE DEF given, moved, mcp, params, after
<1> QED BY <1>2, <1>4, <1>5, <1>6, <1>7, <1>8

\* Every line.
LEMMA ApplyKeeps ==
    ASSUME policy \in Policies, NEW line \in Lines
    PROVE  Keeps(line, Apply(line))
<1>1. IsLine(line) /\ policy.rewrite_cwd \in BOOLEAN
  BY PolicyAssumption
<1>2. CASE ~Concerns(line)
  <2>1. Apply(line) = Forward(line)
    BY <1>2 DEF Apply
  <2>2. Apply(line).line = line
    BY <2>1 DEF Forward
  <2>3. ~(policy.rewrite_cwd /\ line.method \in Lifecycle) \/ line.shape = "plain"
    BY <1>1, <1>2 DEF Concerns
  <2> QED BY <1>1, <2>2, <2>3 DEF Keeps
<1>3. CASE Concerns(line) /\ (line.shape # "object" \/ line.params.kind = "other")
  BY <1>3 DEF Apply, Keeps, PolicyError
<1>4. CASE Concerns(line) /\ ~(line.shape # "object" \/ line.params.kind = "other")
  <2> DEFINE r == Reread(line)
  <2>1. Apply(line) = Edit(r)
    BY <1>4 DEF Apply
  <2>2. IsLine(r) /\ r.shape = line.shape /\ r.method = line.method /\ r.params = line.params
    BY <1>1, RereadKeeps
  <2> HIDE DEF r
  <2>3. ASSUME Edit(r).kind = "forward" PROVE Keeps(line, Edit(r))
    <3> DEFINE after == Edit(r).line
    <3>1. /\ after.shape = line.shape /\ after.method = line.method
          /\ policy.rewrite_cwd => after.params.cwd = "workspace"
          /\ ~policy.rewrite_cwd /\ line.params.kind = "object" =>
               after.params.cwd = line.params.cwd
          /\ line.params.kind = "object"
             /\ (policy.mcp = "passthrough" \/ line.method # "session/new") =>
               after.params.mcp = line.params.mcp
      BY <1>4, <2>2, <2>3, EditKeeps
    <3>2. line.method \in Lifecycle
          /\ (policy.rewrite_cwd \/ (line.method = "session/new" /\ policy.mcp # "passthrough"))
      BY <1>4 DEF Concerns
    <3> HIDE DEF after
    <3> QED BY <3>1, <3>2 DEF Keeps, after
  <2> QED BY <2>1, <2>3 DEF Keeps
<1> QED BY <1>2, <1>3, <1>4


\* What apply does to a session/new under the allowlist.
LEMMA AllowlistedApply ==
    ASSUME NEW line \in Lines, Allowlisted(line)
    PROVE  LET outcome == Apply(line)
               replaced == ApplyMcp(line.params.mcp)
           IN /\ outcome.kind = IF replaced.ok THEN "forward" ELSE "reject"
              /\ replaced.ok => outcome.line.params.mcp = replaced.mcp
<1> DEFINE r == Reread(line)
           given == IF r.params.kind = Absent THEN EmptyParams ELSE r.params
           moved == IF policy.rewrite_cwd THEN [given EXCEPT !.cwd = "workspace"] ELSE given
           mcp == ApplyMcp(moved.mcp)
           params == [moved EXCEPT !.mcp = mcp.mcp]
           after == [r EXCEPT !.params = params, !.text = "canonical"]
<1>1. IsLine(line)
  BY PolicyAssumption
<1>2. IsLine(r) /\ r.params = line.params /\ r.method = line.method
  BY <1>1, RereadKeeps
<1>3. Apply(line) = Edit(r)
  <2>1. Concerns(line) /\ ~(line.shape # "object" \/ line.params.kind = "other")
    BY DEF Allowlisted, Concerns, Lifecycle
  <2> QED BY <2>1 DEF Apply
<1>4. r.method = "session/new"
  BY <1>2 DEF Allowlisted
<1> HIDE DEF r
<1>5. Edit(r) = IF mcp.ok THEN Forward(after) ELSE Reject(r)
  BY <1>4 DEF Edit
<1>6. /\ given = [kind |-> given.kind, cwd |-> given.cwd, mcp |-> given.mcp]
      /\ given.mcp = line.params.mcp
  <2>1. CASE r.params.kind = Absent
    <3>1. r.params.mcp = NoMcp
      BY <1>2, <2>1 DEF IsLine, Absent
    <3> QED BY <1>2, <2>1, <3>1 DEF EmptyParams
  <2>2. CASE r.params.kind # Absent
    BY <1>2, <2>2 DEF IsLine
  <2> QED BY <2>1, <2>2
<1>7. /\ moved = [kind |-> moved.kind, cwd |-> moved.cwd, mcp |-> moved.mcp]
      /\ moved.mcp = line.params.mcp
  <2> HIDE DEF given
  <2> QED BY <1>6
<1>8. mcp = ApplyMcp(line.params.mcp)
  <2> HIDE DEF moved
  <2> QED BY <1>7
<1>9. params.mcp = mcp.mcp
  <2> HIDE DEF moved, mcp
  <2> QED BY <1>7
<1>10. after.params = params
  <2> HIDE DEF params
  <2> QED BY <1>2 DEF IsLine
<1>11. /\ Forward(after).kind = "forward" /\ Forward(after).line = after
       /\ Reject(r).kind = "reject"
  <2> HIDE DEF after
  <2> QED BY DEF Forward, Reject
<1> HIDE DEF after, params, mcp
<1>12. CASE mcp.ok
  BY <1>3, <1>5, <1>8, <1>9, <1>10, <1>11, <1>12
<1>13. CASE ~mcp.ok
  BY <1>3, <1>5, <1>8, <1>11, <1>13
<1> QED BY <1>12, <1>13

\* apply_mcp under the allowlist.
LEMMA AllowlistedMcp ==
    ASSUME policy.mcp = "allowlisted", NEW mcp, IsMcp(mcp)
    PROVE  LET replaced == ApplyMcp(mcp)
               good == mcp.kind = "array" /\ \A server \in Range(mcp.servers) : Good(server)
           IN /\ replaced.ok <=> mcp.kind = Absent \/ good
              /\ good => LET made == replaced.mcp.servers
                         IN /\ Len(made) = Len(mcp.servers)
                            /\ \A i \in DOMAIN mcp.servers : made[i] = Made(mcp.servers[i])
<1> DEFINE s == mcp.servers
           r == ReplaceServers(s)
<1>1. CASE mcp.kind # "array"
  <2>1. ApplyMcp(mcp) = [ok |-> mcp.kind = Absent, mcp |-> mcp]
    BY <1>1 DEF ApplyMcp
  <2>2. ApplyMcp(mcp).ok <=> mcp.kind = Absent
    <3> DEFINE b == mcp.kind = Absent
    <3>1. b \in BOOLEAN
      OBVIOUS
    <3>2. ApplyMcp(mcp) = [ok |-> b, mcp |-> mcp]
      BY <2>1
    <3> HIDE DEF b
    <3>3. ApplyMcp(mcp).ok = b
      BY <3>2
    <3>4. ApplyMcp(mcp).ok <=> b
      BY <3>1, <3>3
    <3> QED BY <3>4 DEF b
  <2> QED BY <1>1, <2>2
<1>2. CASE mcp.kind = "array"
  <2>1. ApplyMcp(mcp) = [ok |-> r.ok, mcp |-> [mcp EXCEPT !.servers = r.servers]]
    BY <1>2 DEF ApplyMcp
  <2>2. s \in Seq(Range(s)) /\ \A server \in Range(s) : IsEnv(server.env)
    BY DEF IsMcp
  <2>3. mcp = [kind |-> mcp.kind, servers |-> s]
    BY DEF IsMcp
  <2> HIDE DEF r, s
  <2>4. ServersReached(r, s, Len(s))
    BY <2>2, ServersReplace DEF r
  <2>5. ApplyMcp(mcp).ok = r.ok /\ ApplyMcp(mcp).mcp.servers = r.servers
    BY <2>1, <2>3
  <2>6. DOMAIN s = 1 .. Len(s)
    BY <2>2
  <2>7. r.ok <=> \A server \in Range(s) : Good(server)
    BY <2>4, <2>6 DEF ServersReached, Range
  <2>8. r.ok => Len(r.servers) = Len(s) /\ \A i \in DOMAIN s : r.servers[i] = Made(s[i])
    BY <2>4, <2>6 DEF ServersReached
  <2>9. mcp.kind # Absent
    BY <1>2 DEF Absent
  <2> QED BY <1>2, <2>5, <2>7, <2>8, <2>9 DEF s
<1> QED BY <1>1, <1>2

\* The exchange is always one of AcpPolicy.
LEMMA ExchangeInvariant == Spec => []ExchangeInv
<1>1. Init => ExchangeInv
  BY DEF Init, ExchangeInv
<1>2. ExchangeInv /\ [Next]_vars => ExchangeInv'
  <2> SUFFICES ASSUME ExchangeInv, [Next]_vars PROVE ExchangeInv'
    OBVIOUS
  <2>1. ASSUME NEW l, UNCHANGED policy PROVE Apply(l)' = Apply(l)
    BY <2>1 DEF Apply, Concerns, Edit, ApplyMcp, Reread, Forward, Reject, PolicyError
  <2>2. ASSUME NEW line \in Lines, HandleLine(line) PROVE ExchangeInv'
    BY <2>1, <2>2 DEF HandleLine, ExchangeInv
  <2>3. ASSUME NEW variables, PrepareAgent(variables) PROVE ExchangeInv'
    BY <2>1, <2>3 DEF PrepareAgent, ExchangeInv
  <2>4. CASE UNCHANGED vars
    BY <2>1, <2>4 DEF vars, ExchangeInv
  <2> QED BY <2>2, <2>3, <2>4 DEF Next
<1> QED BY <1>1, <1>2, PTL DEF Spec

\* What prepare_agent has done stays, and a failing line leaves it alone.
LEMMA AgentInvariant == Spec => []AgentInv
<1>1. Init => AgentInv
  <2> SUFFICES ASSUME Init PROVE AgentInv
    OBVIOUS
  <2>1. agent = [state |-> "opening", asked |-> << >>, env |-> NoEnv]
    BY DEF Init
  <2>2. agent = [state |-> agent.state, asked |-> agent.asked, env |-> agent.env]
        /\ agent.state = "opening"
    BY <2>1
  <2> QED BY <2>2 DEF AgentInv
<1>2. AgentInv /\ [Next]_vars => AgentInv'
  <2> SUFFICES ASSUME AgentInv, [Next]_vars PROVE AgentInv'
    OBVIOUS
  <2>1. ASSUME NEW variables \in Environments, PrepareAgent(variables) PROVE AgentInv'
    <3> DEFINE merged == MergeAgentEnvironment(variables)
    <3>1. agent' = [state |-> IF merged.ok THEN "running" ELSE "refused",
                    asked |-> variables,
                    env |-> IF merged.ok THEN merged.env ELSE NoEnv]
      BY <2>1 DEF PrepareAgent
    <3> HIDE DEF merged
    <3>2. /\ agent' = [state |-> agent'.state, asked |-> agent'.asked, env |-> agent'.env]
          /\ agent'.state = IF merged.ok THEN "running" ELSE "refused"
          /\ agent'.asked = variables
          /\ merged.ok => agent'.env = merged.env
      BY <3>1
    <3>3. MergeAgentEnvironment(agent.asked)' = merged
      BY <3>2 DEF merged
    <3> QED BY <2>1, <3>2, <3>3 DEF AgentInv
  <2>2. ASSUME NEW line, HandleLine(line) PROVE AgentInv'
    <3>1. agent.state = "running"
          /\ agent' = [agent EXCEPT !.state = IF exchange'.outcome.kind = "error"
                                              THEN "failed" ELSE @]
      BY <2>2 DEF HandleLine
    <3>2. agent = [state |-> agent.state, asked |-> agent.asked, env |-> agent.env]
      BY DEF AgentInv
    <3>3. /\ agent' = [state |-> agent'.state, asked |-> agent'.asked, env |-> agent'.env]
          /\ agent'.state \in {"running", "failed"}
          /\ agent'.asked = agent.asked /\ agent'.env = agent.env
      BY <3>1, <3>2
    <3>4. MergeAgentEnvironment(agent.asked)' = MergeAgentEnvironment(agent.asked)
      BY <3>3
    <3> QED BY <3>1, <3>3, <3>4 DEF AgentInv
  <2>3. CASE UNCHANGED vars
    <3>1. agent' = agent
      BY <2>3 DEF vars
    <3>2. MergeAgentEnvironment(agent.asked)' = MergeAgentEnvironment(agent.asked)
      BY <3>1
    <3> QED BY <3>1, <3>2 DEF AgentInv
  <2> QED BY <2>1, <2>2, <2>3 DEF Next
<1> QED BY <1>1, <1>2, PTL DEF Spec

\* AcpPolicy::apply rewrites params.cwd exactly where it is configured to and
\* mcpServers in no line but a session/new that it controls, and returns a line
\* that no configured edit concerns as it came.
THEOREM PolicyFields == Spec => []EditsAreConfigured
<1>1. ExchangeInv => EditsAreConfigured
  <2> SUFFICES ASSUME ExchangeInv PROVE EditsAreConfigured
    OBVIOUS
  <2>1. CASE exchange = NoExchange
    BY <2>1 DEF NoExchange, EditsAreConfigured
  <2>2. CASE exchange.line \in Lines /\ exchange.outcome = Apply(exchange.line)
    <3>1. Keeps(exchange.line, exchange.outcome)
      BY <2>2, ApplyKeeps DEF ExchangeInv
    <3> QED BY <3>1 DEF Keeps, EditsAreConfigured
  <2> QED BY <2>1, <2>2 DEF ExchangeInv
<1> QED BY <1>1, ExchangeInvariant, PTL

\* Every MCP server of a forwarded session/new is the server's own definition
\* of that name, and has exactly the variables, with the values, that
\* docs/configuration.md promises: the server's fixed ones, then those of its
\* host, then the allowed ones of the client (apply_mcp and what it calls).
THEOREM McpEnvironment == Spec => []EnvironmentByPrecedence
<1>1. ExchangeInv => EnvironmentByPrecedence
  <2> DEFINE line == exchange.line
             outcome == exchange.outcome
             before == line.params.mcp.servers
             after == outcome.line.params.mcp.servers
  <2> SUFFICES ASSUME ExchangeInv, outcome.kind = "forward", Allowlisted(line),
                      line.params.mcp.kind = "array"
               PROVE  /\ Len(after) = Len(before)
                      /\ \A i \in DOMAIN before :
                           /\ after[i].name = before[i].name
                           /\ after[i].command = "server"
                           /\ DistinctNames(after[i].env.entries)
                           /\ \A n : ValuesOf(after[i].env.entries, n) =
                                       Promised(McpServers[before[i].name],
                                                before[i].env.entries, n)
    BY DEF EnvironmentByPrecedence
  <2>1. line \in Lines /\ outcome = Apply(line)
    BY DEF ExchangeInv, NoExchange
  <2> DEFINE mcp == line.params.mcp
             replaced == ApplyMcp(mcp)
  <2>2. IsMcp(mcp) /\ policy.mcp = "allowlisted" /\ mcp.kind = "array"
    BY <2>1, PolicyAssumption DEF IsLine, Allowlisted
  <2> HIDE DEF line, outcome
  <2>3. replaced.ok /\ outcome.line.params.mcp = replaced.mcp
    BY <2>1, AllowlistedApply
  <2> HIDE DEF mcp
  <2>4. \A server \in Range(mcp.servers) : Good(server)
    BY <2>2, <2>3, AllowlistedMcp DEF Absent
  <2>5. /\ Len(replaced.mcp.servers) = Len(mcp.servers)
        /\ \A i \in DOMAIN mcp.servers : replaced.mcp.servers[i] = Made(mcp.servers[i])
    BY <2>2, <2>4, AllowlistedMcp
  <2>6. \A i \in DOMAIN before : Good(before[i]) /\ IsEnv(before[i].env)
    BY <2>2, <2>4 DEF IsMcp, Range, mcp
  <2>7. Len(after) = Len(before) /\ \A i \in DOMAIN before : after[i] = Made(before[i])
    BY <2>3, <2>5 DEF mcp
  <2> HIDE DEF before, after
  <2>8. ASSUME NEW i \in DOMAIN before
        PROVE  /\ after[i].name = before[i].name
               /\ after[i].command = "server"
               /\ DistinctNames(after[i].env.entries)
               /\ \A n : ValuesOf(after[i].env.entries, n) =
                           Promised(McpServers[before[i].name], before[i].env.entries, n)
    BY <2>6, <2>7, MadeIs
  <2> QED BY <2>7, <2>8
<1> QED BY <1>1, ExchangeInvariant, PTL

\* A session/new under the allowlist is answered with an error exactly if one of
\* its servers is not configured or has a malformed or ambiguous environment.
THEOREM RejectsMalformed == Spec => []RejectsExactlyMalformed
<1>1. ExchangeInv => RejectsExactlyMalformed
  <2> DEFINE line == exchange.line
             outcome == exchange.outcome
             mcp == line.params.mcp
             good == \/ mcp.kind = Absent
                     \/ /\ mcp.kind = "array"
                        /\ \A s \in Range(mcp.servers) :
                              s.name \in DOMAIN McpServers /\ WellFormed(s.env)
  <2> SUFFICES ASSUME ExchangeInv, handled > 0, Allowlisted(line)
               PROVE  outcome.kind = (IF good THEN "forward" ELSE "reject")
    BY DEF RejectsExactlyMalformed
  <2>1. line \in Lines /\ outcome = Apply(line)
    BY DEF ExchangeInv
  <2> DEFINE replaced == ApplyMcp(mcp)
  <2>2. IsMcp(mcp) /\ policy.mcp = "allowlisted"
    BY <2>1, PolicyAssumption DEF IsLine, Allowlisted
  <2>3. replaced.ok <=> good
    <3> HIDE DEF mcp
    <3> QED BY <2>2, AllowlistedMcp DEF Good
  <2> HIDE DEF line, outcome, good
  <2>4. outcome.kind = IF replaced.ok THEN "forward" ELSE "reject"
    BY <2>1, AllowlistedApply
  <2> HIDE DEF replaced
  <2> QED BY <2>3, <2>4
<1> QED BY <1>1, ExchangeInvariant, PTL

\* The environment that merge_agent_environment returns is the promised one.
LEMMA AgentPromised ==
    ASSUME NEW s, s \in Seq(Range(s)), NEW merged, AgentReached(merged, s, Len(s)),
           merged.ok, NEW n
    PROVE  {merged.env[m] : m \in DOMAIN merged.env \cap {n}} = Promised(Agent, s, n)
<1> DEFINE env == merged.env
           server == SelectedEnvironment(Agent)
<1>1. /\ DOMAIN env = DOMAIN server \cup NamesBefore(s, Len(s))
      /\ \A h \in DOMAIN server : env[h] = server[h]
      /\ \A i \in 1 .. Len(s) : s[i].name \notin DOMAIN server => env[s[i].name] = s[i].value
  BY DEF AgentReached
<1>2. AcceptableBefore(s, Len(s))
  BY DEF AgentReached
<1>3. DOMAIN s = 1 .. Len(s)
  OBVIOUS
<1>4. DistinctNames(s)
  BY <1>2, <1>3 DEF AcceptableBefore, DistinctBefore, DistinctNames
<1>5. NamesBefore(s, Len(s)) \subseteq Agent.client_env_allowlist
  BY <1>2 DEF AcceptableBefore, NamesBefore
<1>6. DOMAIN env = DOMAIN server \cup (Agent.client_env_allowlist \cap NamesBefore(s, Len(s)))
  BY <1>1, <1>5
<1> HIDE DEF env
<1>7. Filled(env, Agent, s)
  BY <1>1, <1>4, <1>6 DEF Filled
<1>8. {env[m] : m \in DOMAIN env \cap {n}} = Promised(Agent, s, n)
  BY <1>7, FirstWins
<1> QED BY <1>8 DEF env

\* An agent is started exactly for acceptable variables, and then has exactly
\* the variables, with the values, that the documents promise
\* (merge_agent_environment, prepare_agent).
THEOREM AgentEnvironment == Spec => []AgentEnvironmentByPrecedence
<1>1. AgentInv => AgentEnvironmentByPrecedence
  <2> DEFINE s == agent.asked
             merged == MergeAgentEnvironment(s)
             acceptable == /\ DistinctNames(s)
                           /\ \A v \in Range(s) :
                                /\ v.name \in Agent.client_env_allowlist \ InvalidNames
                                /\ v.value \notin InvalidValues
  <2> SUFFICES ASSUME AgentInv, agent.state # "opening"
               PROVE  /\ agent.state = "refused" <=> ~acceptable
                      /\ agent.state # "refused" =>
                           \A n : {agent.env[m] : m \in DOMAIN agent.env \cap {n}} =
                                    Promised(Agent, s, n)
    BY DEF AgentEnvironmentByPrecedence
  <2>1. /\ s \in Environments
        /\ agent.state = "refused" <=> ~merged.ok
        /\ agent.state # "refused" => agent.env = merged.env
    BY DEF AgentInv
  <2>2. s \in Seq(Range(s))
    BY <2>1, PolicyAssumption
  <2> HIDE DEF s, merged
  <2>3. Len(s) \in Nat /\ DOMAIN s = 1 .. Len(s)
    BY <2>2
  <2>4. AgentReached(merged, s, Len(s))
    BY <2>3, AgentMerges DEF merged
  <2>5. acceptable <=> AcceptableBefore(s, Len(s))
    BY <2>3 DEF AcceptableBefore, DistinctBefore, DistinctNames, Range
  <2>6. merged.ok <=> acceptable
    BY <2>4, <2>5 DEF AgentReached
  <2>7. ASSUME merged.ok, NEW n
        PROVE  {merged.env[m] : m \in DOMAIN merged.env \cap {n}} = Promised(Agent, s, n)
    BY <2>2, <2>4, <2>7, AgentPromised
  <2> HIDE DEF acceptable
  <2> QED BY <2>1, <2>6, <2>7
<1> QED BY <1>1, AgentInvariant, PTL
=============================================================================
